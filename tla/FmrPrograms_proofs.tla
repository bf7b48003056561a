------------------------- MODULE FmrPrograms_proofs -------------------------
(***************************************************************************)
(* Proofs about two of the fmr programs.                                   *)
(*                                                                         *)
(* fmroverlap (FmrOverlap), for views of any number of minutiae and any    *)
(* radius: the invariant says what the ring that is under way has reached: *)
(* up to the minutia that comes next, nothing within this ring is left     *)
(* unpaired on both sides.  When the ring is over that holds of the whole  *)
(* of the first view, which is what PairsAreComplete asks of rings that    *)
(* are over.                                                               *)
(*                                                                         *)
(* fmr2fmr (FmrConvert): what its conversions do to every angle, quality   *)
(* and coordinate.  On them stands the invariant of its runs, ConvertInv:  *)
(* the record under way is made, view for view, of the views of the file   *)
(* that were taken so far, and its length is the sum of what they brought  *)
(* in.  That the length which is written is true (LengthIsTrue) and that   *)
(* no minutia is lost, moved or turned (MinutiaeKept) follows of it.  A    *)
(* second invariant, TripsInv, says it of every file of the history and    *)
(* the one before, and so what a minutia is after four runs (Settles).     *)
(***************************************************************************)
EXTENDS FmrConvert, FmrOverlap, SequenceTheorems, Sums, TLAPS

OverlapTypeOK ==
  /\ first \in Seq(Points) /\ first # <<>>
  /\ second \in Seq(Points)
  /\ r_opt \in Nat /\ r \in Nat
  /\ i \in 1 .. Len(first)
  /\ pairs \subseteq (DOMAIN first) \X (DOMAIN second) \X (0 .. r)

RingIsReached ==
  \A a \in DOMAIN first, b \in DOMAIN second :
    a < i /\ dmat2(a, b) <= r * r => PairedBefore(pairs, r, a, b)

OverlapInv == OverlapTypeOK /\ PairedOnce /\ PairsAreComplete /\ RingIsReached

-----------------------------------------------------------------------------
\* Squares of distances are numbers.
LEMMA DistanceIsInt ==
  ASSUME OverlapTypeOK, NEW a \in DOMAIN first, NEW b \in DOMAIN second
  PROVE  dmat2(a, b) \in Int
<1>1. first[a] \in Points /\ second[b] \in Points
  BY ElementOfSeq DEF OverlapTypeOK
<1>2. /\ first[a].x \in Int /\ first[a].y \in Int
      /\ second[b].x \in Int /\ second[b].y \in Int
  BY <1>1 DEF Points
<1>. QED BY <1>1, <1>2 DEF dmat2

\* Before anything is compared the invariant holds.
LEMMA OverlapInvInit == OverlapInit => OverlapInv
<1>. SUFFICES ASSUME OverlapInit PROVE OverlapInv
  OBVIOUS
<1>1. OverlapTypeOK
  BY DEF OverlapInit, OverlapTypeOK
<1>2. PairedOnce
  BY DEF OverlapInit, PairedOnce
<1>3. PairsAreComplete
  BY <1>1 DEF OverlapInit, PairsAreComplete
<1>4. RingIsReached
  <2>. SUFFICES ASSUME NEW a \in DOMAIN first, a < i PROVE FALSE
    BY DEF RingIsReached
  <2>. QED BY <1>1 DEF OverlapInit, OverlapTypeOK
<1>. QED BY <1>1, <1>2, <1>3, <1>4 DEF OverlapInv

\* The loops stay within the first view, and rings only grow.
LEMMA AdvanceTypes ==
  ASSUME OverlapTypeOK, Advance, first' = first
  PROVE  /\ i' \in 1 .. Len(first) /\ r' \in Nat /\ r' \in {r, r + 1}
         /\ r' = r => i' = i + 1
         /\ r' = r + 1 => i = Len(first) /\ i' = 1
<1>1. Len(first) \in Nat /\ Len(first) >= 1
  BY DEF OverlapTypeOK
<1>. QED BY <1>1 DEF OverlapTypeOK, Advance

(***************************************************************************)
(* What an iteration has to do for the invariant: keep the pairs, which    *)
(* are one to one, and see to it that nothing near the minutia i is left.  *)
(***************************************************************************)
LEMMA IterationKeepsInv ==
  ASSUME OverlapInv, Comparing, Advance, UNCHANGED <<first, second, r_opt>>,
         NEW new, pairs' = pairs \cup new,
         new \subseteq (DOMAIN first) \X (DOMAIN second) \X (0 .. r),
         PairedOnce',
         \A b \in DOMAIN second : dmat2(i, b) <= r * r => PairedBefore(pairs', r, i, b)
  PROVE  OverlapInv'
<1>1. /\ i' \in 1 .. Len(first) /\ r' \in Nat /\ r' \in {r, r + 1}
      /\ r' = r => i' = i + 1
      /\ r' = r + 1 => i = Len(first) /\ i' = 1
  BY AdvanceTypes DEF OverlapInv
<1>2. OverlapTypeOK'
  <2>1. 0 .. r \subseteq 0 .. r'
    BY <1>1 DEF OverlapInv, OverlapTypeOK
  <2>2. pairs' \subseteq (DOMAIN first) \X (DOMAIN second) \X (0 .. r')
    BY <2>1 DEF OverlapInv, OverlapTypeOK
  <2>. QED BY <1>1, <2>2 DEF OverlapInv, OverlapTypeOK
<1>3. \A a \in DOMAIN first, b \in DOMAIN second : dmat2(a, b)' = dmat2(a, b)
  BY DEF dmat2
<1>4. \A ring, a, b : PairedBefore(pairs, ring, a, b) => PairedBefore(pairs', ring, a, b)
  BY DEF PairedBefore
<1>5. ASSUME NEW a \in DOMAIN first, NEW b \in DOMAIN second, a <= i,
             dmat2(a, b) <= r * r
      PROVE  PairedBefore(pairs', r, a, b)
  <2>1. a \in Int /\ i \in Int
    BY DEF OverlapInv, OverlapTypeOK
  <2>2. CASE a = i
    BY <1>5, <2>2
  <2>3. CASE a < i
    BY <1>4, <1>5, <2>3 DEF OverlapInv, RingIsReached
  <2>. QED BY <1>5, <2>1, <2>2, <2>3
<1>6. RingIsReached'
  <2>. SUFFICES ASSUME NEW a \in DOMAIN first, NEW b \in DOMAIN second,
                       a < i', dmat2(a, b) <= r' * r'
                PROVE  PairedBefore(pairs', r', a, b)
    BY <1>3 DEF RingIsReached
  <2>1. a \in Int /\ a >= 1 /\ i \in Int /\ r \in Nat
    BY DEF OverlapInv, OverlapTypeOK
  <2>2. r' = r /\ a <= i
    BY <1>1, <2>1
  <2>. QED BY <1>5, <2>2
<1>7. PairsAreComplete'
  <2>. SUFFICES ASSUME NEW ring \in 0 .. r_opt, ring < r',
                       NEW a \in DOMAIN first, NEW b \in DOMAIN second,
                       dmat2(a, b) <= ring * ring
                PROVE  PairedBefore(pairs', ring, a, b)
    BY <1>3 DEF PairsAreComplete
  <2>1. r \in Nat /\ r_opt \in Nat /\ ring \in Nat
    BY DEF OverlapInv, OverlapTypeOK
  <2>2. CASE ring < r
    BY <1>4, <2>2 DEF OverlapInv, PairsAreComplete
  <2>3. CASE ~ (ring < r)
    <3>1. ring = r /\ r' = r + 1
      BY <1>1, <2>1, <2>3
    <3>2. a <= i
      BY <1>1, <2>1, <3>1 DEF OverlapInv, OverlapTypeOK
    <3>. QED BY <1>5, <3>1, <3>2
  <2>. QED BY <2>2, <2>3
<1>. QED BY <1>2, <1>6, <1>7 DEF OverlapInv

\* A new pair is of two minutiae that were not paired.
LEMMA PairKeepsInv ==
  ASSUME OverlapInv, Pair
  PROVE  OverlapInv'
<1>1. PICK b \in DOMAIN second :
        IsNearest(b) /\ Within(b) /\ pairs' = pairs \cup {<<i, b, r>>}
  BY DEF Pair
<1>2. i \in DOMAIN first /\ r \in Nat
  BY DEF OverlapInv, OverlapTypeOK
<1>3. {<<i, b, r>>} \subseteq (DOMAIN first) \X (DOMAIN second) \X (0 .. r)
  BY <1>2
<1>4. PairedOnce'
  <2>1. \A p \in pairs : p[1] # i /\ p[2] # b
    BY <1>1 DEF Pair, PairedFirst, IsNearest, PairedSecond
  <2>2. \A p, q \in pairs' : p[1] = q[1] \/ p[2] = q[2] => p = q
    BY <1>1, <2>1 DEF OverlapInv, PairedOnce
  <2>3. dmat2(i, b) <= r * r
    BY <1>1 DEF Within
  <2>4. \A p \in pairs' : dmat2(p[1], p[2]) <= p[3] * p[3]
    BY <1>1, <2>3 DEF OverlapInv, PairedOnce
  <2>5. \A a, c : dmat2(a, c)' = dmat2(a, c)
    BY DEF Pair, dmat2
  <2>. QED BY <2>2, <2>4, <2>5 DEF PairedOnce
<1>5. ASSUME NEW c \in DOMAIN second PROVE PairedBefore(pairs', r, i, c)
  <2>1. <<i, b, r>> \in pairs'
    BY <1>1
  <2>2. <<i, b, r>>[1] = i /\ <<i, b, r>>[3] <= r
    BY <1>2
  <2>. QED BY <2>1, <2>2 DEF PairedBefore
<1>. QED
  <2>1. /\ Comparing /\ Advance /\ UNCHANGED <<first, second, r_opt>>
    BY DEF Pair
  <2>. QED BY <1>1, <1>3, <1>4, <1>5, <2>1, IterationKeepsInv

\* A minutia that is passed is paired, or all that is near it is.
LEMMA PassKeepsInv ==
  ASSUME OverlapInv, Pass
  PROVE  OverlapInv'
<1>1. /\ Comparing /\ Advance /\ UNCHANGED <<first, second, r_opt, pairs>>
  BY DEF Pass
<1>2. \A p \in pairs : p[3] <= r
  BY DEF OverlapInv, OverlapTypeOK
<1>3. ASSUME NEW b \in DOMAIN second, dmat2(i, b) <= r * r
      PROVE  PairedBefore(pairs, r, i, b)
  <2>1. CASE PairedFirst(i)
    BY <1>2, <2>1 DEF PairedFirst, PairedBefore
  <2>2. CASE PairedSecond(b)
    BY <1>2, <2>2 DEF PairedSecond, PairedBefore
  <2>3. PairedFirst(i) \/ PairedSecond(b)
    BY <1>3 DEF Pass, Within
  <2>. QED BY <2>1, <2>2, <2>3
<1>4. \A b \in DOMAIN second : dmat2(i, b) <= r * r => PairedBefore(pairs', r, i, b)
  BY <1>1, <1>3 DEF PairedBefore
<1>5. PairedOnce'
  BY <1>1 DEF OverlapInv, PairedOnce, dmat2
<1>6. pairs' = pairs \cup {}
  BY <1>1
<1>. QED BY <1>1, <1>4, <1>5, <1>6, IterationKeepsInv

\* The invariant is inductive.
LEMMA OverlapInvNext == OverlapInv /\ [OverlapNext]_overlapVars => OverlapInv'
<1>. SUFFICES ASSUME OverlapInv, [OverlapNext]_overlapVars PROVE OverlapInv'
  OBVIOUS
<1>1. CASE Pair
  BY <1>1, PairKeepsInv
<1>2. CASE Pass
  BY <1>2, PassKeepsInv
<1>3. CASE UNCHANGED overlapVars
  BY <1>3 DEF overlapVars, OverlapInv, OverlapTypeOK, PairedOnce, PairsAreComplete,
              RingIsReached, PairedBefore, dmat2
<1>. QED BY <1>1, <1>2, <1>3 DEF OverlapNext

\* The invariant holds of every comparison.
LEMMA OverlapInvHolds == OverlapSpec => []OverlapInv
<1>. QED BY OverlapInvInit, OverlapInvNext, PTL DEF OverlapSpec

(***************************************************************************)
(* The pairs that compare_fvmrs counts are one to one and within the ring  *)
(* in which they were made (fmroverlap.c:256-291).                         *)
(***************************************************************************)
THEOREM OverlapPairsOnce == OverlapSpec => []PairedOnce
<1>1. OverlapInv => PairedOnce
  BY DEF OverlapInv
<1>. QED BY <1>1, OverlapInvHolds, PTL

(***************************************************************************)
(* When a ring is over, of any two minutiae as near as that one has been   *)
(* paired: the greedy choice misses nothing (fmroverlap.c:256-291).        *)
(***************************************************************************)
THEOREM OverlapIsComplete == OverlapSpec => []PairsAreComplete
<1>1. OverlapInv => PairsAreComplete
  BY DEF OverlapInv
<1>. QED BY <1>1, OverlapInvHolds, PTL

-----------------------------------------------------------------------------
(***************************************************************************)
(* The numbers of fmr2fmr.                                                 *)
(***************************************************************************)

\* The distance of an ISO (ANSI) angle and its conversion, in 32nds of a degree.
IsoOff(a)     == 45 * a - 64 * IsoAngleToAnsi(a)
CompactOff(c) == 180 * c - 64 * CompactAngleToAnsi(c)

(***************************************************************************)
(* iso2ansi_fvmr: an ISO angle becomes a legal ANSI angle, at most 1.5     *)
(* degrees off.                                                            *)
(***************************************************************************)
THEOREM IsoAnglesAreClose ==
  \A a \in UCHAR : IsoAngleToAnsi(a) \in 0 .. 179 /\ IsoOff(a) \in -48 .. 48
BY SMTT(60) DEF IsoOff, IsoAngleToAnsi, Round, AtMost, FMD_MAX_MINUTIA_ANGLE, UCHAR, UCHAR_MAX

(***************************************************************************)
(* isocc2ansi_fvmr: a compact angle becomes a legal ANSI angle without     *)
(* being cut to it, at most 2 degrees off; ansi2isocc_fvmr takes it back   *)
(* to what it was.                                                         *)
(***************************************************************************)
THEOREM CompactAnglesReturn ==
  \A c \in 0 .. 63 :
    /\ CompactAngleToAnsi(c) \in 0 .. 179 /\ CompactOff(c) \in -64 .. 64
    /\ AnsiAngleToCompact(CompactAngleToAnsi(c)) = c
BY SMTT(60) DEF CompactOff, AnsiAngleToCompact, CompactAngleToAnsi, Round, AtMost,
                FMD_MAX_MINUTIA_ISOCC_ANGLE

(***************************************************************************)
(* An ANSI angle that goes to ISO and back moves by one unit at most, and  *)
(* does not move again when that is repeated.                              *)
(***************************************************************************)
THEOREM AnsiAnglesSettle ==
  ASSUME NEW a \in 0 .. 179, NEW wraps \in BOOLEAN
  PROVE  LET b == IsoAngleToAnsi(AnsiAngleToIso(a, wraps))
         IN /\ b \in {a, a + 1} /\ b \in 0 .. 179
            /\ IsoAngleToAnsi(AnsiAngleToIso(b, wraps)) = b
<1> DEFINE Again(x) == IsoAngleToAnsi(AnsiAngleToIso(x, wraps))
<1>1. Again(a) \in {a, a + 1} /\ Again(a) \in 0 .. 179
  BY SMTT(60) DEF IsoAngleToAnsi, AnsiAngleToIso, Cast, Round, AtMost, FMD_MAX_MINUTIA_ANGLE,
                  UCHAR, UCHAR_MAX
<1>2. Again(Again(a)) = Again(a)
  BY SMTT(60) DEF IsoAngleToAnsi, AnsiAngleToIso, Cast, Round, AtMost, FMD_MAX_MINUTIA_ANGLE,
                  UCHAR, UCHAR_MAX
<1>3. QED
  BY <1>1, <1>2

(***************************************************************************)
(* A pixel that goes to a normal card and back is where it was, whichever  *)
(* way halves are rounded, if there are less than 1000 to the centimeter.  *)
(***************************************************************************)
THEOREM NormalCardReturns ==
  ASSUME NEW x \in Nat, NEW res \in 1 .. 999, NEW q \in Nearest(1000 * x, res)
  PROVE  x \in Nearest(q * res, 1000) /\ \A back \in Nearest(q * res, 1000) : back = x
<1>1. q \in Int /\ 2 * (q * res - 1000 * x) \in -res .. res
  BY DEF Nearest
<1> DEFINE there == q * res
<1>2. there \in Int /\ 2 * (there - 1000 * x) \in -999 .. 999
  BY <1>1
<1> HIDE DEF there
<1>3. x \in {there \div 1000, there \div 1000 + 1}
  BY <1>2
<1>4. x \in Nearest(there, 1000)
  BY <1>2, <1>3 DEF Nearest
<1>5. \A back \in Nearest(there, 1000) : back = x
  <2>1. TAKE back \in Nearest(there, 1000)
  <2>2. back \in Int /\ 2 * (back * 1000 - there) \in -1000 .. 1000
    <3>1. there \div 1000 \in Int
      BY ONLY <1>2
    <3> QED BY ONLY <3>1, back \in Nearest(there, 1000) DEF Nearest
  <2>3. QED
    <3>1. there <= 1000 * x + 499 /\ there >= 1000 * x - 499
      BY ONLY <1>2, x \in Nat
    <3>2. back * 1000 <= there + 500 /\ back * 1000 >= there - 500
      BY ONLY <1>2, <2>2
    <3> QED BY ONLY <1>2, <2>2, <3>1, <3>2, x \in Nat
<1>6. QED
  BY <1>4, <1>5 DEF there

-----------------------------------------------------------------------------
(***************************************************************************)
(* What a conversion makes fits the fields of the struct.                  *)
(***************************************************************************)

\* There is an integer next to every fraction.
LEMMA NearestIsThere ==
  ASSUME NEW n \in Nat, NEW d \in Nat \ {0}
  PROVE  Nearest(n, d) # {} /\ Nearest(n, d) \subseteq Nat
<1> DEFINE q == n \div d
           p == q * d
<1>1. q \in Nat /\ p \in Nat /\ p <= n /\ n < p + d
  <2>1. q \in Nat /\ n % d \in 0 .. d - 1 /\ n = (d * q) + (n % d)
    OBVIOUS
  <2>2. d * q = p /\ p \in Nat
    <3> HIDE DEF q
    <3> QED BY <2>1
  <2> HIDE DEF p, q
  <2> QED BY <2>1, <2>2
<1>2. (q + 1) * d = p + d
  BY <1>1
<1> HIDE DEF p
<1>3. 2 * (p - n) \in -d .. d \/ 2 * (p + d - n) \in -d .. d
  BY <1>1
<1>4. q \in Nearest(n, d) \/ q + 1 \in Nearest(n, d)
  BY <1>1, <1>2, <1>3 DEF Nearest, p
<1>5. Nearest(n, d) \subseteq Nat
  BY <1>1 DEF Nearest
<1> QED BY <1>4, <1>5

\* USHORT as a comparison: the provers do not like large intervals.
LEMMA Ushorts ==
  /\ USHRT_MAX = 65535 /\ USHRT_MAX \in Nat
  /\ \A n : n \in USHORT <=> n \in Nat /\ n <= USHRT_MAX
<1>1. ASSUME NEW max \in Nat PROVE \A n : n \in 0 .. max <=> n \in Nat /\ n <= max
  OBVIOUS
<1>2. USHRT_MAX = 65535
  BY DEF USHRT_MAX
<1>3. USHRT_MAX \in Nat
  BY <1>2
<1>4. \A n : n \in 0 .. USHRT_MAX <=> n \in Nat /\ n <= USHRT_MAX
  BY <1>1, <1>3, Zenon
<1>5. \A n : n \in USHORT <=> n \in Nat /\ n <= USHRT_MAX
  BY <1>4, Zenon DEF USHORT
<1> QED BY <1>2, <1>3, <1>5

\* A coordinate fits an unsigned short, whatever the processor does.
LEMMA CoordinateFits ==
  ASSUME NEW n \in Nat, NEW d \in Nat, NEW wraps \in BOOLEAN
  PROVE  Coordinate(n, d, wraps) # {} /\ Coordinate(n, d, wraps) \subseteq USHORT
<1>1. USHRT_MAX = 65535 /\ USHRT_MAX \in USHORT /\ 0 \in USHORT
  BY Ushorts
<1>2. ASSUME NEW q \in Nat PROVE Cast(q, USHRT_MAX, wraps) \in USHORT
  <2>1. CASE q <= USHRT_MAX
    BY <1>1, <2>1, Ushorts DEF Cast
  <2>2. CASE ~ (q <= USHRT_MAX)
    <3>1. q % (USHRT_MAX + 1) \in Nat /\ q % (USHRT_MAX + 1) <= 65535
      BY <1>1
    <3>2. q % (USHRT_MAX + 1) \in USHORT
      BY <3>1, Ushorts
    <3> QED BY <1>1, <2>2, <3>2 DEF Cast
  <2> QED BY <2>1, <2>2
<1>3. CASE d = 0
  BY <1>1, <1>3 DEF Coordinate
<1>4. CASE d # 0
  BY <1>2, <1>4, NearestIsThere DEF Coordinate
<1> QED BY <1>3, <1>4

\* So do the angles that are made of those on the wire.
LEMMA AnglesFit ==
  /\ \A a \in UCHAR, wraps \in BOOLEAN : AnsiAngleToIso(a, wraps) \in UCHAR
  /\ \A a \in UCHAR : AnsiAngleToCompact(a) \in 0 .. 63
  /\ \A a \in UCHAR : IsoAngleToAnsi(a) \in 0 .. 179
  /\ \A a \in 0 .. 63 : CompactAngleToAnsi(a) \in 0 .. 179
<1>1. \A a \in UCHAR, wraps \in BOOLEAN : AnsiAngleToIso(a, wraps) \in UCHAR
  BY DEF AnsiAngleToIso, Cast, Round, UCHAR, UCHAR_MAX
<1>2. \A a \in UCHAR : AnsiAngleToCompact(a) \in 0 .. 63
  BY DEF AnsiAngleToCompact, AtMost, Round, FMD_MAX_MINUTIA_ISOCC_ANGLE, UCHAR, UCHAR_MAX
<1> QED BY <1>1, <1>2, IsoAnglesAreClose, CompactAnglesReturn

\* The view that is read has these minutiae.
LEMMA MinutiaTypes ==
  ASSUME NEW format, NEW m \in Minutiae(format)
  PROVE  /\ m.x \in Nat /\ m.x \in USHORT /\ m.x <= MaxCoordinate(format)
         /\ m.angle \in UCHAR /\ m.quality \in UCHAR
         /\ format = "ISO_COMPACT_CARD" => m.angle \in 0 .. 63
         /\ format \in Cards => m.quality = 0
<1> DEFINE angles    == IF format = "ISO_COMPACT_CARD" THEN 0 .. 63 ELSE UCHAR
           qualities == IF format \in Cards THEN {0} ELSE UCHAR
<1>1. m \in [x : 0 .. MaxCoordinate(format), angle : angles, quality : qualities]
  BY DEF Minutiae
<1>2. angles \subseteq UCHAR /\ qualities \subseteq UCHAR
  BY DEF UCHAR, UCHAR_MAX
<1>3. /\ format = "ISO_COMPACT_CARD" => angles = 0 .. 63
      /\ format \in Cards => qualities = {0}
  OBVIOUS
<1>4. MaxCoordinate(format) \in Nat /\ MaxCoordinate(format) <= 65535
  BY DEF MaxCoordinate
<1> HIDE DEF angles, qualities
<1>5. m.x \in 0 .. MaxCoordinate(format) /\ m.angle \in angles /\ m.quality \in qualities
  BY <1>1
<1>6. m.x \in Nat /\ m.x <= MaxCoordinate(format)
  BY <1>4, <1>5
<1>7. m.x \in USHORT
  BY <1>4, <1>6, Ushorts
<1> QED BY <1>2, <1>3, <1>5, <1>6, <1>7

\* Minutiae that differ in their coordinates only.
LEMMA SpreadFits ==
  ASSUME NEW xs, xs # {}, xs \subseteq USHORT, NEW a \in UCHAR, NEW q \in UCHAR
  PROVE  /\ {[x |-> x, angle |-> a, quality |-> q] : x \in xs} # {}
         /\ {[x |-> x, angle |-> a, quality |-> q] : x \in xs} \subseteq MadeMinutiae
<1>1. ASSUME NEW x \in xs PROVE [x |-> x, angle |-> a, quality |-> q] \in MadeMinutiae
  BY DEF MadeMinutiae
<1> QED BY <1>1

\* Each conversion makes something of a minutia, and nothing that does not fit.
LEMMA ConvertMinutiaFits ==
  ASSUME in_type \in AllFormats, NEW m \in Minutiae(in_type), NEW res \in USHORT,
         NEW wraps \in BOOLEAN
  PROVE  /\ ConvertMinutia(m, res, wraps) # {}
         /\ ConvertMinutia(m, res, wraps) \subseteq MadeMinutiae
<1> DEFINE IsMade(made) == made # {} /\ made \subseteq MadeMinutiae
<1>1. m.x \in Nat /\ m.x \in USHORT /\ m.angle \in UCHAR /\ m.quality \in UCHAR
  BY MinutiaTypes
<1>2. in_type = "ISO_COMPACT_CARD" => m.angle \in 0 .. 63
  BY MinutiaTypes
<1>3. m.x \in USHORT /\ m.x \in Nat /\ res \in Nat
  BY <1>1, Ushorts
<1>4. 1000 * m.x \in Nat /\ 100 * m.x \in Nat /\ m.x * res \in Nat
  BY <1>3
<1>5. 0 .. 179 \subseteq UCHAR /\ 0 .. 63 \subseteq UCHAR /\ 0 \in UCHAR /\ 254 \in UCHAR
      /\ FMD_UNKNOWN_MINUTIA_QUALITY \in UCHAR
  BY DEF UCHAR, UCHAR_MAX, FMD_UNKNOWN_MINUTIA_QUALITY
<1>6. IsMade(AnsiToCompact(m, res, wraps))
  <2> DEFINE place == 100 * m.x
             xs == Coordinate(place, res, wraps)
  <2>0. place \in Nat
    BY <1>4
  <2> HIDE DEF place
  <2>1. xs # {} /\ xs \subseteq USHORT
    BY ONLY <1>3, <2>0, wraps \in BOOLEAN, CoordinateFits
  <2>2. AnsiAngleToCompact(m.angle) \in UCHAR
    <3>1. AnsiAngleToCompact(m.angle) \in 0 .. 63
      BY ONLY <1>1, AnglesFit
    <3> QED BY ONLY <1>5, <3>1
  <2>3. AnsiToCompact(m, res, wraps) =
          {[x |-> x, angle |-> AnsiAngleToCompact(m.angle), quality |-> m.quality] : x \in xs}
    BY DEF AnsiToCompact, place
  <2> HIDE DEF xs
  <2> QED BY <1>1, <2>1, <2>2, <2>3, SpreadFits
<1>7. IsMade(AnsiToIso(m, res, wraps))
  <2> DEFINE xs == IF out_type = "ISO_NORMAL_CARD" THEN Coordinate(1000 * m.x, res, wraps)
                                                   ELSE {m.x}
             q  == IF in_type = "ANSI07" /\ m.quality \in {FMD_FAILED_MINUTIA_QUALITY,
                                                           FMD_NOATTTEMPT_MINUTIA_QUALITY}
                     THEN FMD_UNKNOWN_MINUTIA_QUALITY ELSE m.quality
  <2>1. xs # {} /\ xs \subseteq USHORT
    <3>1. /\ Coordinate(1000 * m.x, res, wraps) # {}
          /\ Coordinate(1000 * m.x, res, wraps) \subseteq USHORT
      <4> DEFINE place == 1000 * m.x
      <4>1. place \in Nat
        BY <1>4
      <4> HIDE DEF place
      <4>2. Coordinate(place, res, wraps) # {} /\ Coordinate(place, res, wraps) \subseteq USHORT
        BY <1>3, <4>1, CoordinateFits
      <4> QED BY <4>2 DEF place
    <3> QED BY <1>3, <3>1
  <2>2. AnsiAngleToIso(m.angle, wraps) \in UCHAR
    BY <1>1, AnglesFit
  <2>3. q \in UCHAR
    BY <1>1, <1>5 DEF FMD_UNKNOWN_MINUTIA_QUALITY
  <2>4. AnsiToIso(m, res, wraps) =
          {[x |-> x, angle |-> AnsiAngleToIso(m.angle, wraps), quality |-> q] : x \in xs}
    BY DEF AnsiToIso
  <2> HIDE DEF xs, q
  <2> QED BY ONLY <2>1, <2>2, <2>3, <2>4, SpreadFits
<1>8. in_type = "ISO_COMPACT_CARD" => IsMade(CompactToAnsi(m, res, wraps))
  <2> SUFFICES ASSUME in_type = "ISO_COMPACT_CARD" PROVE IsMade(CompactToAnsi(m, res, wraps))
    OBVIOUS
  <2> DEFINE place == m.x * res
             xs == Coordinate(place, 100, wraps)
  <2>0. place \in Nat
    BY <1>4
  <2> HIDE DEF place
  <2>1. xs # {} /\ xs \subseteq USHORT
    BY ONLY <2>0, wraps \in BOOLEAN, CoordinateFits
  <2>2. CompactAngleToAnsi(m.angle) \in UCHAR
    BY <1>2, <1>5, AnglesFit
  <2>3. CompactToAnsi(m, res, wraps) =
          {[x |-> x, angle |-> CompactAngleToAnsi(m.angle),
            quality |-> FMD_UNKNOWN_MINUTIA_QUALITY] : x \in xs}
    BY DEF CompactToAnsi, place
  <2>4. FMD_UNKNOWN_MINUTIA_QUALITY \in UCHAR
    BY <1>5
  <2> HIDE DEF xs
  <2> QED BY ONLY <2>1, <2>2, <2>3, <2>4, SpreadFits
<1>9. IsMade(IsoToAnsi(m, res, wraps))
  <2> DEFINE xs == IF in_type = "ISO_NORMAL_CARD" THEN Coordinate(m.x * res, 1000, wraps)
                                                  ELSE {m.x}
             q  == IF out_type = "ANSI07" /\ m.quality = FMD_UNKNOWN_MINUTIA_QUALITY
                     THEN FMD_NOATTTEMPT_MINUTIA_QUALITY ELSE m.quality
  <2>1. xs # {} /\ xs \subseteq USHORT
    <3>1. /\ Coordinate(m.x * res, 1000, wraps) # {}
          /\ Coordinate(m.x * res, 1000, wraps) \subseteq USHORT
      <4> DEFINE place == m.x * res
      <4>1. place \in Nat /\ 1000 \in Nat
        BY <1>4
      <4> HIDE DEF place
      <4>2. Coordinate(place, 1000, wraps) # {} /\ Coordinate(place, 1000, wraps) \subseteq USHORT
        BY <4>1, CoordinateFits
      <4> QED BY <4>2 DEF place
    <3> QED BY <1>3, <3>1
  <2>2. IsoAngleToAnsi(m.angle) \in UCHAR
    BY <1>1, <1>5, AnglesFit
  <2>3. q \in UCHAR
    BY <1>1, <1>5 DEF FMD_NOATTTEMPT_MINUTIA_QUALITY
  <2>4. IsoToAnsi(m, res, wraps) =
          {[x |-> x, angle |-> IsoAngleToAnsi(m.angle), quality |-> q] : x \in xs}
    BY DEF IsoToAnsi
  <2> HIDE DEF xs, q
  <2> QED BY ONLY <2>1, <2>2, <2>3, <2>4, SpreadFits
<1> HIDE DEF IsMade
<1>10. IsMade(ConvertMinutia(m, res, wraps))
  BY <1>6, <1>7, <1>8, <1>9 DEF ConvertMinutia, Ansis
<1> QED BY <1>10 DEF IsMade

\* The minutiae of a view, each of which is converted.
LEMMA ConvertMinutiaeFit ==
  ASSUME in_type \in AllFormats, NEW v \in Views(in_type), NEW res \in USHORT,
         NEW wraps \in BOOLEAN, NEW ms \in ConvertMinutiae(v, res, wraps)
  PROVE  /\ ms \in Seq(MadeMinutiae) /\ Len(ms) = NumberOfMinutiae(v)
         /\ \A k \in 1 .. Len(ms) : ms[k] \in ConvertMinutia(v.minutiae[k], res, wraps)
<1> DEFINE n == NumberOfMinutiae(v)
           options == [k \in 1 .. n |-> ConvertMinutia(v.minutiae[k], res, wraps)]
           one(k) == CHOOSE c \in options[k] : TRUE
           open == {k \in 1 .. n : options[k] # {one(k)}}
           other(k) == CHOOSE c \in options[k] : c # one(k)
<1>1. n \in Nat /\ n <= Len(v.minutiae) /\ v.minutiae \in Seq(Minutiae(in_type))
  BY DEF NumberOfMinutiae, UCHAR_MAX, Views
<1> HIDE DEF n
<1>2. ASSUME NEW k \in 1 .. n
      PROVE  options[k] # {} /\ options[k] \subseteq MadeMinutiae
  <2>1. v.minutiae[k] \in Minutiae(in_type)
    BY <1>1
  <2> QED BY <2>1, ConvertMinutiaFits
<1>3. PICK others \in SUBSET open :
        ms = [k \in 1 .. n |-> IF k \in others THEN other(k) ELSE one(k)]
  BY DEF ConvertMinutiae, n
<1>4. ASSUME NEW k \in 1 .. n PROVE ms[k] \in options[k]
  <2>1. one(k) \in options[k]
    BY <1>2
  <2>2. k \in open => other(k) \in options[k]
    <3> SUFFICES ASSUME k \in open PROVE other(k) \in options[k]
      OBVIOUS
    <3>1. \E c \in options[k] : c # one(k)
      BY <1>2
    <3> QED BY <3>1
  <2>3. ms[k] = IF k \in others THEN other(k) ELSE one(k)
    BY <1>3
  <2> HIDE DEF options, one, other, open
  <2> QED BY <1>3, <2>1, <2>2, <2>3
<1>5. ms = [k \in 1 .. n |-> ms[k]]
  BY <1>3
<1>6. \A k \in 1 .. n : ms[k] \in MadeMinutiae
  BY <1>2, <1>4
<1> HIDE DEF one, other, open
<1>7. ms \in [1 .. n -> MadeMinutiae]
  BY <1>5, <1>6
<1>8. ms \in Seq(MadeMinutiae) /\ Len(ms) = n
  <2> HIDE DEF options
  <2> QED BY <1>1, <1>7
<1> QED BY <1>4, <1>8 DEF n
-----------------------------------------------------------------------------
(***************************************************************************)
(* What write_fmr makes of a record can be read again.                     *)
(***************************************************************************)

\* A field on the wire takes what fits it of a minutia.
LEMMA StoredMinutiaFits ==
  ASSUME NEW format, NEW m \in MadeMinutiae
  PROVE  StoredMinutia(m, format) \in Minutiae(format)
<1> DEFINE angles    == IF format = "ISO_COMPACT_CARD" THEN 0 .. 63 ELSE UCHAR
           qualities == IF format \in Cards THEN {0} ELSE UCHAR
<1>1. m.x \in Nat /\ m.angle \in UCHAR /\ m.angle \in Nat /\ m.quality \in UCHAR
  <2>1. m.x \in USHORT /\ m.angle \in UCHAR /\ m.quality \in UCHAR
    BY DEF MadeMinutiae
  <2> QED BY <2>1, Ushorts DEF UCHAR
<1>2. ASSUME NEW n \in Nat, NEW max \in Nat PROVE n % (max + 1) \in 0 .. max
  BY <1>2
<1>3. CASE format = "ISO_COMPACT_CARD"
  <2>1. m.x % 256 \in 0 .. 255 /\ m.angle % 64 \in 0 .. 63
    BY <1>1
  <2>2. MaxCoordinate(format) = 255 /\ format \in Cards
    BY <1>3 DEF MaxCoordinate, Cards
  <2> QED BY <1>3, <2>1, <2>2 DEF StoredMinutia, Minutiae
<1>4. CASE format # "ISO_COMPACT_CARD"
  <2> DEFINE max == MaxCoordinate(format)
             x   == m.x % 16384
             q   == IF format = "ISO_NORMAL_CARD" THEN 0 ELSE m.quality
  <2>1. max \in Nat /\ max + 1 = 16384
    BY <1>4 DEF MaxCoordinate
  <2>2. x = m.x % (max + 1)
    BY <2>1
  <2>3. q \in qualities
    BY <1>1, <1>4 DEF Cards
  <2>4. angles = UCHAR
    BY <1>4
  <2>5. StoredMinutia(m, format) = [x |-> x, angle |-> m.angle, quality |-> q]
    BY <1>4 DEF StoredMinutia
  <2>6. Minutiae(format) = [x : 0 .. max, angle : angles, quality : qualities]
    BY DEF Minutiae
  <2> HIDE DEF max, x, q, angles, qualities
  <2>7. x \in 0 .. max
    BY <1>1, <1>2, <2>1, <2>2
  <2> QED BY <1>1, <2>3, <2>4, <2>5, <2>6, <2>7
<1> QED BY <1>3, <1>4

\* And of a view; none of its minutiae is lost.
LEMMA StoredViewFits ==
  ASSUME NEW format, NEW w \in MadeViews
  PROVE  /\ StoredView(w, format) \in Views(format)
         /\ StoredView(w, format).extended = w.extended
         /\ StoredView(w, format).resolution = (IF format = "ANSI07" THEN w.resolution ELSE 0)
         /\ Len(StoredView(w, format).minutiae) = Len(w.minutiae)
         /\ \A k \in 1 .. Len(w.minutiae) :
              StoredView(w, format).minutiae[k] = StoredMinutia(w.minutiae[k], format)
<1> DEFINE ms  == [k \in DOMAIN w.minutiae |-> StoredMinutia(w.minutiae[k], format)]
           res == IF format = "ANSI07" THEN w.resolution ELSE 0
<1>1. w.resolution \in USHORT /\ w.extended \in USHORT /\ w.minutiae \in Seq(MadeMinutiae)
  BY DEF MadeViews
<1>2. res \in USHORT
  BY <1>1, Ushorts
<1>3. StoredView(w, format) = [resolution |-> res, extended |-> w.extended, minutiae |-> ms]
  BY DEF StoredView
<1>4. DOMAIN w.minutiae = 1 .. Len(w.minutiae) /\ Len(w.minutiae) \in Nat
  BY <1>1
<1>5. \A k \in 1 .. Len(w.minutiae) : StoredMinutia(w.minutiae[k], format) \in Minutiae(format)
  BY <1>1, StoredMinutiaFits
<1>6. ms \in [1 .. Len(w.minutiae) -> Minutiae(format)]
  BY <1>4, <1>5
<1>7. \A k \in 1 .. Len(w.minutiae) : ms[k] = StoredMinutia(w.minutiae[k], format)
  BY <1>4
<1> HIDE DEF ms, res
<1>8. ms \in Seq(Minutiae(format)) /\ Len(ms) = Len(w.minutiae)
  BY <1>4, <1>6
<1>9. StoredView(w, format) \in Views(format)
  BY <1>1, <1>2, <1>3, <1>8 DEF Views
<1> QED BY <1>3, <1>7, <1>8, <1>9 DEF res

\* No extended data is no bytes of it.
LEMMA NoBytes ==
  ASSUME NEW n \in Nat, NEW w, DOMAIN w = 1 .. n, \A k \in 1 .. n : w[k] = 0
  PROVE  SumFunction(w) = 0
<1>1. Weights(w, n) /\ \A k \in 1 .. n : w[k] = w[k] + w[k]
  BY DEF Weights
<1>2. SumFunction(w) = SumFunction(w) + SumFunction(w)
  BY <1>1, SumSplits
<1>3. SumFunction(w) \in Int
  BY <1>1, SumType
<1> QED BY <1>2, <1>3

\* The blocks of a file whose views have none.
LEMMA NoBlocks ==
  ASSUME NEW f, Len(f.views) \in Nat, DOMAIN f.views = 1 .. Len(f.views), f.length \in Nat,
         \A k \in 1 .. Len(f.views) : f.views[k].extended = 0
  PROVE  BlocksAnnounced(f)
<1> DEFINE blocks == [k \in DOMAIN f.views |-> f.views[k].extended]
<1>1. DOMAIN blocks = 1 .. Len(f.views) /\ \A k \in 1 .. Len(f.views) : blocks[k] = 0
  OBVIOUS
<1>2. BlocksAnnounced(f) <=> SumFunction(blocks) <= f.length
  BY DEF BlocksAnnounced
<1> HIDE DEF blocks
<1>3. SumFunction(blocks) = 0
  BY <1>1, NoBytes
<1> QED BY <1>2, <1>3

\* The views of what is stored, of all formats but the cards.
StoredViews(rec) == [k \in DOMAIN rec.views |-> StoredView(rec.views[k], rec.format_std)]

\* And so is the list of them.
LEMMA StoredViewsFit ==
  ASSUME NEW rec, RecordTypeOK(rec)
  PROVE  /\ StoredViews(rec) \in Seq(Views(rec.format_std))
         /\ Len(StoredViews(rec)) = Len(rec.views) /\ Len(rec.views) \in Nat
         /\ \A k \in 1 .. Len(rec.views) :
              StoredViews(rec)[k] = StoredView(rec.views[k], rec.format_std)
<1>1. rec.views \in Seq(MadeViews)
  BY DEF RecordTypeOK
<1>2. DOMAIN rec.views = 1 .. Len(rec.views) /\ Len(rec.views) \in Nat
  BY <1>1
<1>3. \A k \in 1 .. Len(rec.views) :
        StoredView(rec.views[k], rec.format_std) \in Views(rec.format_std)
  BY <1>1, StoredViewFits
<1>4. StoredViews(rec) \in [1 .. Len(rec.views) -> Views(rec.format_std)]
  BY <1>2, <1>3 DEF StoredViews
<1>5. \A k \in 1 .. Len(rec.views) : StoredViews(rec)[k] = StoredView(rec.views[k], rec.format_std)
  BY <1>2 DEF StoredViews
<1> QED BY <1>2, <1>4, <1>5

\* The one list of minutiae that a card has.
LEMMA AllMinutiaeFit ==
  ASSUME NEW format, NEW views \in Seq(Views(format))
  PROVE  AllMinutiae(views) \in Seq(Minutiae(format))
<1> DEFINE lists == [k \in DOMAIN views |-> views[k].minutiae]
<1>1. DOMAIN views = 1 .. Len(views) /\ Len(views) \in Nat
  OBVIOUS
<1>2. \A k \in 1 .. Len(views) : views[k].minutiae \in Seq(Minutiae(format))
  <2> TAKE k \in 1 .. Len(views)
  <2>1. views[k] \in Views(format)
    OBVIOUS
  <2> QED BY <2>1 DEF Views
<1>3. lists \in [1 .. Len(views) -> Seq(Minutiae(format))]
  BY <1>1, <1>2
<1>4. AllMinutiae(views) = FlattenSeq(lists)
  BY DEF AllMinutiae
<1> HIDE DEF lists
<1>5. lists \in Seq(Seq(Minutiae(format)))
  BY <1>1, <1>3
<1>6. <<>> \in Seq(Minutiae(format))
  OBVIOUS
<1>7. FlattenSeq(lists) \in Seq(Minutiae(format))
  BY <1>5, <1>6, FlattenSeqGrows
<1> QED BY <1>4, <1>7

\* What is stored of a record is a file, with the extended data of the record.
LEMMA StoredFits ==
  ASSUME NEW rec, RecordTypeOK(rec), \A k \in DOMAIN rec.views : rec.views[k].extended = 0
  PROVE  /\ Stored(rec) \in FilesOf(rec.format_std) /\ BlocksAnnounced(Stored(rec))
         /\ \A k \in 1 .. Len(Stored(rec).views) : Stored(rec).views[k].extended = 0
         /\ rec.format_std \in Cards => Len(Stored(rec).views) = 1
<1> DEFINE format == rec.format_std
           views  == StoredViews(rec)
<1>1. /\ rec \in [format_std : AllFormats, num_views : UCHAR, resolution : USHORT, length : Nat,
                  views : Seq(MadeViews)]
      /\ format \in AllFormats
  BY DEF RecordTypeOK
<1>2. /\ views \in Seq(Views(format)) /\ Len(views) = Len(rec.views) /\ Len(rec.views) \in Nat
      /\ \A k \in 1 .. Len(rec.views) : views[k] = StoredView(rec.views[k], format)
  BY StoredViewsFit
<1>3. 0 \in USHORT /\ 1 \in UCHAR /\ 0 \in Nat
  BY Ushorts DEF UCHAR, UCHAR_MAX
<1>4. CASE format \in Cards
  <2> DEFINE v == [resolution |-> 0, extended |-> 0, minutiae |-> AllMinutiae(views)]
             f == [format_std |-> format, num_views |-> 1, resolution |-> 0, length |-> 0,
                   views |-> <<v>>]
  <2>1. Stored(rec) = f
    BY <1>4 DEF Stored, StoredViews
  <2>2. v \in Views(format)
    BY <1>2, <1>3, AllMinutiaeFit DEF Views
  <2>3. v.extended = 0
    OBVIOUS
  <2> HIDE DEF v
  <2>4. <<v>> \in Seq(Views(format)) /\ Len(<<v>>) = 1 /\ <<v>>[1] = v
    BY <2>2
  <2>5. f \in FilesOf(format)
    BY <1>3, <2>4 DEF FilesOf
  <2>6. f.views = <<v>> /\ f.length = 0
    OBVIOUS
  <2> HIDE DEF f
  <2>7. /\ Len(f.views) = 1 /\ DOMAIN f.views = 1 .. Len(f.views) /\ f.length \in Nat
        /\ \A k \in 1 .. Len(f.views) : f.views[k].extended = 0
    BY <1>3, <2>3, <2>4, <2>6
  <2>8. BlocksAnnounced(f)
    BY <2>7, NoBlocks
  <2> QED BY <2>1, <2>4, <2>5, <2>6, <2>7, <2>8
<1>5. CASE format \notin Cards
  <2> DEFINE res == IF format = "ANSI07" THEN 0 ELSE rec.resolution
             f == [rec EXCEPT !.views = views, !.resolution = res]
  <2>1. Stored(rec) = f
    BY <1>5 DEF Stored, StoredViews
  <2>2. res \in USHORT
    BY <1>1, <1>3
  <2> HIDE DEF res, views
  <2>3. f \in FilesOf(format) /\ f.views = views /\ f.length \in Nat
    BY <1>1, <1>2, <2>2 DEF FilesOf
  <2>4. \A k \in 1 .. Len(rec.views) : views[k].extended = 0
    <3> TAKE k \in 1 .. Len(rec.views)
    <3>1. rec.views[k] \in MadeViews /\ rec.views[k].extended = 0
      BY <1>1
    <3> QED BY <1>2, <3>1, StoredViewFits
  <2> HIDE DEF f
  <2>5. DOMAIN f.views = 1 .. Len(f.views) /\ Len(f.views) \in Nat
        /\ \A k \in 1 .. Len(f.views) : f.views[k].extended = 0
    BY <1>2, <2>3, <2>4
  <2>6. BlocksAnnounced(f)
    BY <2>3, <2>5, NoBlocks
  <2> QED BY <1>5, <2>1, <2>3, <2>5, <2>6
<1> QED BY <1>4, <1>5
\* What is left of a file when the disk fails is a file as well.
LEMMA CutFits ==
  ASSUME NEW format, NEW f \in FilesOf(format), format \in Cards => Len(f.views) = 1,
         \A k \in 1 .. Len(f.views) : f.views[k].extended = 0, NEW c \in Cut(f)
  PROVE  c \in FilesOf(format) /\ BlocksAnnounced(c)
<1>1. /\ f.format_std = format /\ f.views \in Seq(Views(format)) /\ f.length \in Nat
      /\ DOMAIN f.views = 1 .. Len(f.views) /\ Len(f.views) \in Nat
  BY DEF FilesOf
<1>2. ASSUME NEW views \in Seq(Views(format)), \A k \in 1 .. Len(views) : views[k].extended = 0,
             c = [f EXCEPT !.views = views]
      PROVE  c \in FilesOf(format) /\ BlocksAnnounced(c)
  <2>1. c \in FilesOf(format) /\ c.views = views /\ c.length = f.length
    BY <1>2 DEF FilesOf
  <2>2. DOMAIN views = 1 .. Len(views) /\ Len(views) \in Nat
    OBVIOUS
  <2>3. BlocksAnnounced(c)
    BY <1>1, <1>2, <2>1, <2>2, NoBlocks
  <2> QED BY <2>1, <2>3
<1>3. CASE format \in Cards
  <2> DEFINE v == f.views[1]
  <2>1. v \in Views(format) /\ v.extended = 0 /\ Len(f.views) = 1
    BY <1>1, <1>3
  <2>2. v.minutiae \in Seq(Minutiae(format)) /\ Len(v.minutiae) \in Nat
    BY <2>1 DEF Views
  <2>3. PICK n \in {0, Len(v.minutiae) \div 2} :
             c = [f EXCEPT !.views[1].minutiae = SubSeq(@, 1, n)]
    BY <1>1, <1>3 DEF Cut
  <2> DEFINE ms    == SubSeq(v.minutiae, 1, n)
             w     == [v EXCEPT !.minutiae = ms]
             views == [f.views EXCEPT ![1] = w]
  <2>4. n \in 0 .. Len(v.minutiae)
    <3> DEFINE len == Len(v.minutiae)
    <3>1. len \in Nat /\ n \in {0, len \div 2}
      BY <2>2, <2>3
    <3> HIDE DEF len
    <3>2. n \in 0 .. len
      BY ONLY <3>1
    <3> QED BY <3>2 DEF len
  <2>5. ms \in Seq(Minutiae(format))
    BY <2>2, <2>4, SubSeqProperties
  <2>6. w \in Views(format) /\ w.extended = 0
    <3> HIDE DEF v, ms
    <3> QED BY <2>1, <2>5 DEF Views
  <2>7. c = [f EXCEPT !.views = views]
    BY <2>3
  <2> HIDE DEF v, ms, w
  <2>8. /\ views \in Seq(Views(format)) /\ Len(views) = 1
        /\ \A k \in 1 .. Len(views) : views[k].extended = 0
    BY <1>1, <2>1, <2>6
  <2> QED BY <1>2, <2>7, <2>8
<1>4. CASE format \notin Cards
  <2>1. PICK n \in {k \in {0, 1} : k < Len(f.views)} : c = [f EXCEPT !.views = SubSeq(@, 1, n)]
    BY <1>1, <1>4 DEF Cut
  <2> DEFINE views == SubSeq(f.views, 1, n)
  <2>2. n \in 0 .. Len(f.views)
    BY <1>1, <2>1
  <2>3. /\ views \in Seq(Views(format)) /\ Len(views) = n
        /\ \A k \in 1 .. n : views[k] = f.views[k]
    BY <1>1, <2>2, SubSeqProperties
  <2>4. c = [f EXCEPT !.views = views]
    BY <2>1
  <2> HIDE DEF views
  <2>5. \A k \in 1 .. Len(views) : views[k].extended = 0
    BY <1>1, <2>2, <2>3
  <2> QED BY <1>2, <2>3, <2>4, <2>5
<1> QED BY <1>3, <1>4

-----------------------------------------------------------------------------
(***************************************************************************)
(* A run of fmr2fmr.  The invariant says of each view on the new list what *)
(* has been made of which, and of the lengths that they are those of the   *)
(* views so far: main subtracts blocks from the old length where it copies *)
(* and adds up a new one where it converts.  A length that results from    *)
(* either is used only when all views are there.                           *)
(***************************************************************************)

\* The view w that is made of v.
Copied(v, w)    == w = [v EXCEPT !.extended = 0]

\* What ConvertView makes of a view v.
Converted(v, w) ==
  /\ ~ Miscounted(v)
  /\ w.extended = 0 /\ w.resolution = ConvertedResolution(v)
  /\ \E wraps \in BOOLEAN : w.minutiae \in ConvertMinutiae(v, ReadResolution, wraps)

\* The bytes of the blocks of the first n views.
LengthsCopied(n) == SumFunction([k \in 1 .. n |-> file.views[k].extended])

\* The lengths that ConvertView has counted for the first n views.
LengthsConverted(n) ==
  SumFunction([k \in 1 .. n |-> ConvertedLength(file.views[k]) + FEDB_HEADER_LENGTH])

\* The first n views have been made as they were.
MadeByCopy(n) ==
  /\ \A k \in 1 .. n : Copied(file.views[k], ofmr.views[k])
  /\ ofmr.length = file.length - LengthsCopied(n)
  /\ ofmr.resolution = ReadResolution

\* Or as the other format has them.
MadeByConversion(n) ==
  /\ n > 0 => ~ {in_type, out_type} \subseteq Ansis
  /\ \A k \in 1 .. n : Converted(file.views[k], ofmr.views[k])
  /\ fmr_len = HeaderLength(out_type) + LengthsConverted(n)
  /\ ofmr.resolution = IF in_type = "ANSI07" /\ n > 0 THEN file.views[1].resolution
                                                      ELSE ReadResolution

\* By either way.
MadeSoFar ==
  IF in_type = out_type THEN MadeByCopy(Len(ofmr.views)) ELSE MadeByConversion(Len(ofmr.views))

\* What the history is made of.
Entries == [file : UNION {FilesOf(format) : format \in AllFormats},
            ignored : SUBSET {"copy", "write"}]

\* The last file in it is the one at hand.
HistoryInv ==
  /\ history \in Seq(Entries) /\ history # <<>>
  /\ history[Len(history)].file = file
  /\ pc = "success" => Len(history) > 1

\* The record that is made, whatever has failed.
RecordInv ==
  /\ ofmr.format_std = out_type /\ ofmr.num_views = file.num_views
  /\ \A k \in DOMAIN ofmr.views : ofmr.views[k].extended = 0
  /\ file.num_views = Len(file.views) /\ ~ Unsupported(out_type)

\* The invariant of the runs.
ConvertInv ==
  /\ TypeOK /\ HistoryInv
  /\ iso_res \in USHORT /\ BlocksAnnounced(file)
  /\ pc \in {"view", "write"} => RecordInv
  /\ pc = "view" => MadeSoFar /\ ignored = {}
  /\ pc = "write" /\ ignored = {} =>
       /\ MadeSoFar /\ Len(ofmr.views) = Len(file.views)
       /\ in_type # out_type => ofmr.length = fmr_len

-----------------------------------------------------------------------------
\* A byte holds a number.
LEMMA Bytes8 == \A n \in UCHAR : n \in Nat /\ n <= 255
BY DEF UCHAR, UCHAR_MAX

\* What is known of a file.
LEMMA FileTypes ==
  ASSUME NEW f, FileOK(f)
  PROVE  /\ f \in FilesOf(f.format_std) /\ f.format_std \in AllFormats
         /\ f.num_views \in UCHAR /\ f.num_views \in Nat
         /\ f.resolution \in USHORT /\ f.length \in Nat
         /\ f.views \in Seq(Views(f.format_std))
         /\ DOMAIN f.views = 1 .. Len(f.views) /\ Len(f.views) \in Nat
         /\ \A k \in 1 .. Len(f.views) : f.views[k] \in Views(f.format_std)
<1>1. PICK format \in AllFormats : f \in FilesOf(format)
  BY DEF FileOK
<1>2. f.format_std = format
  BY <1>1 DEF FilesOf
<1>3. f.num_views \in UCHAR /\ f.resolution \in USHORT /\ f.length \in Nat
      /\ f.views \in Seq(Views(format))
  BY <1>1 DEF FilesOf
<1>4. f.num_views \in Nat
  BY <1>3, Bytes8
<1> QED BY <1>1, <1>2, <1>3, <1>4

\* And of a view in it, which can be taken into a record as it is.
LEMMA ViewTypes ==
  ASSUME NEW format, NEW v \in Views(format)
  PROVE  /\ v.resolution \in USHORT /\ v.extended \in USHORT /\ v.extended \in Nat
         /\ v.minutiae \in Seq(Minutiae(format)) /\ v.minutiae \in Seq(MadeMinutiae)
         /\ Len(v.minutiae) \in Nat /\ DOMAIN v.minutiae = 1 .. Len(v.minutiae)
         /\ NumberOfMinutiae(v) \in Nat /\ NumberOfMinutiae(v) <= Len(v.minutiae)
<1>1. v.resolution \in USHORT /\ v.extended \in USHORT /\ v.minutiae \in Seq(Minutiae(format))
  BY DEF Views
<1>2. v.extended \in Nat
  BY <1>1, Ushorts
<1>3. ASSUME NEW m \in Minutiae(format) PROVE m \in MadeMinutiae
  <2> DEFINE angles    == IF format = "ISO_COMPACT_CARD" THEN 0 .. 63 ELSE UCHAR
             qualities == IF format \in Cards THEN {0} ELSE UCHAR
  <2>1. m \in [x : 0 .. MaxCoordinate(format), angle : angles, quality : qualities]
    BY DEF Minutiae
  <2>2. m = [x |-> m.x, angle |-> m.angle, quality |-> m.quality]
    <3> HIDE DEF angles, qualities
    <3> QED BY <2>1
  <2>3. m.x \in USHORT /\ m.angle \in UCHAR /\ m.quality \in UCHAR
    BY MinutiaTypes
  <2> QED BY <2>2, <2>3 DEF MadeMinutiae
<1>4. Len(v.minutiae) \in Nat /\ DOMAIN v.minutiae = 1 .. Len(v.minutiae)
  BY <1>1
<1>5. v.minutiae \in Seq(MadeMinutiae)
  <2>1. v.minutiae \in [1 .. Len(v.minutiae) -> Minutiae(format)]
    BY <1>1
  <2>2. v.minutiae \in [1 .. Len(v.minutiae) -> MadeMinutiae]
    BY <1>3, <2>1
  <2> QED BY <1>4, <2>2
<1>6. ASSUME NEW n \in Nat PROVE n % (UCHAR_MAX + 1) \in Nat /\ n % (UCHAR_MAX + 1) <= n
  BY DEF UCHAR_MAX
<1>7. NumberOfMinutiae(v) \in Nat /\ NumberOfMinutiae(v) <= Len(v.minutiae)
  BY <1>4, <1>6, Zenon DEF NumberOfMinutiae
<1> QED BY <1>1, <1>2, <1>4, <1>5, <1>7

\* The length that is counted for a view.
LEMMA ConvertedLengthType ==
  ASSUME NEW format, NEW v \in Views(format)
  PROVE  ConvertedLength(v) \in Nat
<1> DEFINE size == IF in_type \in Isos THEN 6 ELSE FmdLength(out_type)
<1>1. size \in {3, 5, 6}
  BY DEF FmdLength
<1>2. ConvertedLength(v) = 4 + NumberOfMinutiae(v) * size
  BY DEF ConvertedLength, FVMR_HEADER_LENGTH
<1>3. NumberOfMinutiae(v) \in Nat
  BY ViewTypes
<1> HIDE DEF size
<1> QED BY <1>1, <1>2, <1>3

\* The lengths that are added up, view by view.
LEMMA LengthsAdd ==
  ASSUME FileOK(file), NEW n \in 0 .. Len(file.views)
  PROVE  /\ LengthsCopied(n) \in Nat /\ LengthsConverted(n) \in Nat
         /\ n = 0 => LengthsCopied(n) = 0 /\ LengthsConverted(n) = 0
         /\ BlocksAnnounced(file) => LengthsCopied(n) <= file.length
<1> DEFINE ext == [k \in 1 .. n |-> file.views[k].extended]
           all == [k \in DOMAIN file.views |-> file.views[k].extended]
           len == [k \in 1 .. n |-> ConvertedLength(file.views[k]) + FEDB_HEADER_LENGTH]
           views == Len(file.views)
<1>1. /\ DOMAIN file.views = 1 .. views /\ views \in Nat /\ n \in Nat /\ n \in 0 .. views
      /\ file.length \in Nat
      /\ \A k \in 1 .. views : file.views[k] \in Views(in_type)
  BY FileTypes DEF in_type
<1>2. /\ LengthsCopied(n) = SumFunction(ext) /\ LengthsConverted(n) = SumFunction(len)
      /\ BlocksAnnounced(file) => SumFunction(all) <= file.length
  BY DEF LengthsCopied, LengthsConverted, BlocksAnnounced
<1>3. DOMAIN ext = 1 .. n /\ DOMAIN all = 1 .. views /\ DOMAIN len = 1 .. n
  BY <1>1
<1>4. ASSUME NEW k \in 1 .. views
      PROVE  file.views[k].extended \in Nat /\ ConvertedLength(file.views[k]) \in Nat
  <2>1. file.views[k] \in Views(in_type)
    BY <1>1
  <2> QED BY <2>1, ViewTypes, ConvertedLengthType
<1>5. \A k \in 1 .. n : k \in 1 .. views
  BY <1>1
<1>6. /\ \A k \in 1 .. n : ext[k] = all[k] /\ ext[k] \in Nat /\ len[k] \in Nat
      /\ \A k \in 1 .. views : all[k] \in Nat
  BY <1>1, <1>4, <1>5 DEF FEDB_HEADER_LENGTH
<1> HIDE DEF ext, all, len, views
<1>7. SumFunction(ext) \in Nat /\ (n = 0 => SumFunction(ext) = 0)
  BY <1>1, <1>3, <1>6, SumType
<1>8. SumFunction(len) \in Nat /\ (n = 0 => SumFunction(len) = 0)
  BY <1>1, <1>3, <1>6, SumType
<1>9. SumFunction(ext) <= SumFunction(all) /\ SumFunction(all) \in Nat
  <2>1. SumFunction(ext) <= SumFunction(all)
    BY <1>1, <1>3, <1>6, SumOfPart
  <2>2. SumFunction(all) \in Nat
    BY <1>1, <1>3, <1>6, SumType
  <2> QED BY <2>1, <2>2
<1> QED BY <1>1, <1>2, <1>7, <1>8, <1>9

\* One more view adds its own.
LEMMA LengthsGrow ==
  ASSUME FileOK(file), NEW n \in Nat, n < Len(file.views)
  PROVE  /\ LengthsCopied(n + 1) = LengthsCopied(n) + file.views[n + 1].extended
         /\ LengthsConverted(n + 1) =
              LengthsConverted(n) + ConvertedLength(file.views[n + 1]) + FEDB_HEADER_LENGTH
<1> DEFINE Ext(m) == [k \in 1 .. m |-> file.views[k].extended]
           Lens(m) == [k \in 1 .. m |-> ConvertedLength(file.views[k]) + FEDB_HEADER_LENGTH]
<1>1. /\ Len(file.views) \in Nat /\ \A k \in 1 .. n + 1 : k \in 1 .. Len(file.views)
      /\ \A k \in 1 .. Len(file.views) : file.views[k] \in Views(in_type)
  BY FileTypes DEF in_type
<1>2. ASSUME NEW k \in 1 .. n + 1
      PROVE  file.views[k].extended \in Nat /\ ConvertedLength(file.views[k]) \in Nat
  <2>1. file.views[k] \in Views(in_type)
    BY <1>1
  <2> QED BY <2>1, ViewTypes, ConvertedLengthType
<1>3. Weights(Ext(n + 1), n + 1) /\ Weights(Lens(n + 1), n + 1)
  BY <1>2 DEF Weights, FEDB_HEADER_LENGTH
<1>4. /\ DOMAIN Ext(n) = 1 .. n /\ DOMAIN Ext(n + 1) = 1 .. n + 1
      /\ DOMAIN Lens(n) = 1 .. n /\ DOMAIN Lens(n + 1) = 1 .. n + 1
      /\ \A k \in 1 .. n : Ext(n + 1)[k] = Ext(n)[k] /\ Lens(n + 1)[k] = Lens(n)[k]
      /\ Ext(n + 1)[n + 1] = file.views[n + 1].extended
      /\ Lens(n + 1)[n + 1] = ConvertedLength(file.views[n + 1]) + FEDB_HEADER_LENGTH
  OBVIOUS
<1>5. /\ LengthsCopied(n) = SumFunction(Ext(n)) /\ LengthsCopied(n + 1) = SumFunction(Ext(n + 1))
      /\ LengthsConverted(n) = SumFunction(Lens(n))
      /\ LengthsConverted(n + 1) = SumFunction(Lens(n + 1))
  BY DEF LengthsCopied, LengthsConverted
<1> HIDE DEF Ext, Lens
<1>6. SumFunction(Ext(n + 1)) = SumFunction(Ext(n)) + Ext(n + 1)[n + 1]
  BY <1>3, <1>4, SumGrows
<1>7. SumFunction(Lens(n + 1)) = SumFunction(Lens(n)) + Lens(n + 1)[n + 1]
  BY <1>3, <1>4, SumGrows
<1>8. /\ ConvertedLength(file.views[n + 1]) \in Nat /\ LengthsConverted(n) \in Nat
  <2>1. n \in 0 .. Len(file.views) /\ n + 1 \in 1 .. n + 1
    BY <1>1
  <2> QED BY <1>2, <2>1, LengthsAdd
<1>9. LengthsCopied(n + 1) = LengthsCopied(n) + file.views[n + 1].extended
  BY ONLY <1>4, <1>5, <1>6
<1>10. LengthsConverted(n + 1)
         = LengthsConverted(n) + (ConvertedLength(file.views[n + 1]) + FEDB_HEADER_LENGTH)
  BY ONLY <1>4, <1>5, <1>7
<1> QED BY ONLY <1>8, <1>9, <1>10 DEF FEDB_HEADER_LENGTH

-----------------------------------------------------------------------------
\* A record that takes one more view; its length and its resolution may change.
OneMore(rec, w, res, len) ==
  [format_std |-> rec.format_std, num_views |-> rec.num_views, resolution |-> res,
   length |-> len, views |-> Append(rec.views, w)]

\* A record that has got one more view is as it should be.
LEMMA ViewTaken ==
  ASSUME NEW rec, RecordTypeOK(rec), Len(rec.views) < rec.num_views,
         \A k \in DOMAIN rec.views : rec.views[k].extended = 0,
         NEW w \in MadeViews, w.extended = 0, NEW res \in USHORT, NEW len \in Nat,
         NEW new, new = OneMore(rec, w, res, len)
  PROVE  /\ RecordTypeOK(new) /\ Len(new.views) = Len(rec.views) + 1 /\ Len(rec.views) \in Nat
         /\ Len(new.views) <= new.num_views
         /\ new.format_std = rec.format_std /\ new.num_views = rec.num_views
         /\ new.resolution = res /\ new.length = len
         /\ \A k \in 1 .. Len(rec.views) : new.views[k] = rec.views[k]
         /\ new.views[Len(rec.views) + 1] = w
         /\ \A k \in DOMAIN new.views : new.views[k].extended = 0
<1> DEFINE views == Append(rec.views, w)
<1>1. /\ rec.views \in Seq(MadeViews) /\ rec.num_views \in UCHAR /\ rec.format_std \in AllFormats
      /\ rec.num_views \in Nat
  BY Bytes8 DEF RecordTypeOK
<1>2. DOMAIN rec.views = 1 .. Len(rec.views) /\ Len(rec.views) \in Nat
  BY <1>1
<1>3. /\ views \in Seq(MadeViews) /\ Len(views) = Len(rec.views) + 1
      /\ DOMAIN views = 1 .. Len(rec.views) + 1
      /\ \A k \in 1 .. Len(rec.views) : views[k] = rec.views[k]
      /\ views[Len(rec.views) + 1] = w
  BY <1>1
<1>4. /\ new.views = views /\ new.format_std = rec.format_std /\ new.num_views = rec.num_views
      /\ new.resolution = res /\ new.length = len
      /\ new = [format_std |-> rec.format_std, num_views |-> rec.num_views, resolution |-> res,
                length |-> len, views |-> views]
  BY DEF OneMore
<1> HIDE DEF views
<1>5. RecordTypeOK(new)
  BY <1>1, <1>3, <1>4 DEF RecordTypeOK
<1>6. \A k \in DOMAIN views : views[k].extended = 0
  <2> TAKE k \in DOMAIN views
  <2>1. CASE k = Len(rec.views) + 1
    BY <1>3, <2>1
  <2>2. CASE k \in 1 .. Len(rec.views)
    BY <1>2, <1>3, <2>2
  <2>3. k = Len(rec.views) + 1 \/ k \in 1 .. Len(rec.views)
    BY <1>2, <1>3
  <2> QED BY <2>1, <2>2, <2>3
<1>7. Len(new.views) <= new.num_views
  BY <1>1, <1>2, <1>3, <1>4
<1> QED BY <1>2, <1>3, <1>4, <1>5, <1>6, <1>7

\* The resolution of the record that is read.
LEMMA ResolutionRead ==
  ASSUME FileOK(file), iso_res \in USHORT
  PROVE  ReadResolution \in USHORT
  BY FileTypes DEF ReadResolution

\* Before the first run.
LEMMA ConvertInvInit == Init => ConvertInv
<1> SUFFICES ASSUME Init PROVE ConvertInv
  OBVIOUS
<1>1. /\ FileOK(file) /\ BlocksAnnounced(file) /\ iso_res \in USHORT
      /\ pc = "idle" /\ fmr_len = 0 /\ ignored = {}
  BY ConvertAssumption DEF Init
<1>2. TypeOK
  BY <1>1 DEF TypeOK
<1>3. HistoryInv
  <2> DEFINE e == [file |-> file, ignored |-> {}]
  <2>1. history = <<e>>
    BY DEF Init
  <2>2. e \in Entries
    <3>1. file \in UNION {FilesOf(format) : format \in AllFormats}
      BY <1>1 DEF FileOK
    <3> QED BY <3>1 DEF Entries
  <2>3. e.file = file
    OBVIOUS
  <2> HIDE DEF e
  <2>4. history \in Seq(Entries) /\ Len(history) = 1 /\ history # <<>>
        /\ history[1].file = file
    BY <2>1, <2>2, <2>3
  <2> QED BY <1>1, <2>4 DEF HistoryInv
<1> QED BY <1>1, <1>2, <1>3 DEF ConvertInv

\* A run that does nothing.
LEMMA RejectKeepsInv ==
  ASSUME ConvertInv, Reject
  PROVE  ConvertInv'
<1>1. /\ pc' = "failure" /\ ignored' = {}
      /\ UNCHANGED <<file, iso_res, history, fmr_len>>
  BY DEF Reject, Begin
<1>2. TypeOK'
  BY <1>1 DEF ConvertInv, TypeOK
<1>3. HistoryInv'
  BY <1>1 DEF ConvertInv, HistoryInv
<1> QED BY <1>1, <1>2, <1>3 DEF ConvertInv

\* A run that begins: no views have been made.
LEMMA StartKeepsInv ==
  ASSUME ConvertInv, Start
  PROVE  ConvertInv'
<1>1. PICK out \in AllFormats :
        /\ Begin(out) /\ ~ Unsupported(out) /\ Readable
        /\ ofmr' = [format_std |-> out, num_views |-> file.num_views,
                    resolution |-> ReadResolution, length |-> file.length, views |-> <<>>]
        /\ fmr_len' = HeaderLength(out)
        /\ pc' = "view"
  BY DEF Start
<1>2. out_type' = out /\ ignored' = {} /\ UNCHANGED <<file, iso_res, history>>
  BY <1>1 DEF Begin
<1>3. FileOK(file) /\ iso_res \in USHORT /\ BlocksAnnounced(file)
  BY DEF ConvertInv, TypeOK
<1>4. /\ file.num_views \in UCHAR /\ file.num_views \in Nat /\ file.length \in Nat
      /\ Len(file.views) \in Nat
  BY <1>3, FileTypes
<1>5. ReadResolution \in USHORT
  BY <1>3, ResolutionRead
<1>6. <<>> \in Seq(MadeViews) /\ Len(<<>>) = 0 /\ DOMAIN <<>> = 1 .. 0
  OBVIOUS
<1>7. RecordTypeOK(ofmr') /\ Len(ofmr'.views) = 0 /\ Len(ofmr'.views) <= ofmr'.num_views
      /\ DOMAIN ofmr'.views = 1 .. 0 /\ ofmr'.length = file.length
      /\ ofmr'.resolution = ReadResolution
      /\ ofmr'.format_std = out /\ ofmr'.num_views = file.num_views
  BY <1>1, <1>4, <1>5, <1>6 DEF RecordTypeOK
<1>8. HeaderLength(out) \in Nat
  BY DEF HeaderLength
<1>9. TypeOK'
  BY <1>1, <1>2, <1>3, <1>7, <1>8 DEF TypeOK, RecordTypeOK
<1>10. HistoryInv'
  BY <1>1, <1>2 DEF ConvertInv, HistoryInv
<1>11. RecordInv'
  BY <1>1, <1>2, <1>7 DEF RecordInv, Unsupported, Readable, in_type
<1>12. MadeSoFar'
  <2>1. /\ LengthsCopied(0) = 0 /\ LengthsConverted(0) = 0
        /\ LengthsCopied(0)' = LengthsCopied(0) /\ LengthsConverted(0)' = 0
    <3>1. LengthsCopied(0) = 0 /\ LengthsConverted(0) = 0
      BY <1>3, <1>4, LengthsAdd
    <3>2. LengthsCopied(0)' = LengthsCopied(0)
      BY <1>2 DEF LengthsCopied
    <3>3. LengthsConverted(0)' = 0
      <4> DEFINE len == [k \in 1 .. 0 |-> ConvertedLength(file.views[k]) + FEDB_HEADER_LENGTH]
      <4>1. LengthsConverted(0)' = SumFunction(len')
        BY DEF LengthsConverted
      <4>2. DOMAIN len' = 1 .. 0 /\ \A k \in 1 .. 0 : len'[k] = 0
        OBVIOUS
      <4> HIDE DEF len
      <4>3. SumFunction(len') = 0
        BY <4>2, NoBytes
      <4> QED BY <4>1, <4>3
    <3> QED BY <3>1, <3>2, <3>3
  <2>2. ReadResolution' = ReadResolution
    BY <1>2 DEF ReadResolution, in_type
  <2>3. MadeByCopy(0)'
    BY <1>2, <1>4, <1>7, <2>1, <2>2 DEF MadeByCopy
  <2>4. MadeByConversion(0)'
    BY <1>1, <1>2, <1>7, <1>8, <2>1, <2>2 DEF MadeByConversion
  <2> QED BY <1>7, <2>3, <2>4 DEF MadeSoFar
<1> QED BY <1>1, <1>2, <1>3, <1>9, <1>10, <1>11, <1>12 DEF ConvertInv

\* What is known while views are made.
Making ==
  /\ FileOK(file) /\ BlocksAnnounced(file) /\ iso_res \in USHORT /\ fmr_len \in Nat
  /\ RecordTypeOK(ofmr) /\ Len(ofmr.views) <= ofmr.num_views /\ RecordInv
  /\ MadeSoFar /\ ignored = {} /\ Len(ofmr.views) \in Nat
  /\ DOMAIN ofmr.views = 1 .. Len(ofmr.views)

\* What is known while views are taken.
LEMMA IsMaking ==
  ASSUME ConvertInv, pc = "view"
  PROVE  Making
<1>1. RecordTypeOK(ofmr)
  BY DEF ConvertInv, TypeOK
<1>2. Len(ofmr.views) \in Nat /\ DOMAIN ofmr.views = 1 .. Len(ofmr.views)
  BY <1>1 DEF RecordTypeOK
<1> QED BY <1>1, <1>2 DEF ConvertInv, TypeOK, Making

\* The view at hand.
LEMMA ViewAtHand ==
  ASSUME Making, MoreViews
  PROVE  /\ Len(ofmr.views) < Len(file.views) /\ Len(ofmr.views) < ofmr.num_views
         /\ CurrentView \in Views(in_type) /\ CurrentView = file.views[Len(ofmr.views) + 1]
<1>1. /\ Len(ofmr.views) < file.num_views /\ file.num_views = Len(file.views)
      /\ ofmr.num_views = file.num_views /\ Len(ofmr.views) \in Nat
  BY DEF Making, MoreViews, RecordInv
<1>2. Len(ofmr.views) + 1 \in 1 .. Len(file.views)
  BY <1>1, FileTypes DEF Making
<1> QED BY <1>1, <1>2, FileTypes DEF Making, CurrentView, in_type

\* A view that has been made leaves what is not of the record.
LEMMA MadeKeepsInv ==
  ASSUME ConvertInv, pc = "view", UNCHANGED <<file, iso_res, out_type, pc, ignored, history>>,
         fmr_len' \in Nat, RecordTypeOK(ofmr'), Len(ofmr'.views) <= ofmr'.num_views,
         ofmr'.format_std = ofmr.format_std, ofmr'.num_views = ofmr.num_views,
         \A k \in DOMAIN ofmr'.views : ofmr'.views[k].extended = 0, MadeSoFar'
  PROVE  ConvertInv'
<1>1. TypeOK'
  BY DEF ConvertInv, TypeOK, RecordTypeOK
<1>2. HistoryInv'
  BY DEF ConvertInv, HistoryInv
<1>3. RecordInv'
  BY DEF ConvertInv, RecordInv, Unsupported, in_type
<1> QED BY <1>1, <1>2, <1>3 DEF ConvertInv

\* A view is copied.
LEMMA CopyViewKeepsInv ==
  ASSUME ConvertInv, CopyView
  PROVE  ConvertInv'
<1> DEFINE w   == [CurrentView EXCEPT !.extended = 0]
           len == ofmr.length - CurrentView.extended
<1>1. /\ pc = "view" /\ MoreViews /\ in_type = out_type
      /\ ofmr' = [ofmr EXCEPT !.views = Append(ofmr.views, w), !.length = len]
      /\ UNCHANGED <<file, iso_res, out_type, pc, fmr_len, ignored, history>>
  BY DEF CopyView
<1>2. Making
  BY <1>1, IsMaking
<1> PICK n : n = Len(ofmr.views)
  OBVIOUS
<1>3. n \in Nat /\ n < Len(file.views) /\ n < ofmr.num_views /\ CurrentView \in Views(in_type)
      /\ CurrentView = file.views[n + 1] /\ Len(file.views) \in Nat
  BY <1>1, <1>2, ViewAtHand, FileTypes DEF Making
<1>4. CurrentView.extended \in Nat
  BY <1>3, ViewTypes
<1>5. w \in MadeViews /\ w.extended = 0
  <2>1. /\ CurrentView.resolution \in USHORT /\ CurrentView.minutiae \in Seq(MadeMinutiae)
    BY <1>3, ViewTypes
  <2>2. w = [resolution |-> CurrentView.resolution, extended |-> 0,
             minutiae |-> CurrentView.minutiae]
    BY <1>3 DEF Views
  <2> QED BY <2>1, <2>2, Ushorts DEF MadeViews
<1>6. MadeByCopy(n)
  BY <1>1, <1>2 DEF Making, MadeSoFar
<1>7. len = file.length - LengthsCopied(n + 1) /\ len \in Nat
  <2>1. LengthsCopied(n + 1) = LengthsCopied(n) + CurrentView.extended
    BY <1>2, <1>3, LengthsGrow DEF Making
  <2>2. LengthsCopied(n + 1) \in Nat /\ LengthsCopied(n + 1) <= file.length
    <3>1. n + 1 \in 0 .. Len(file.views)
      BY <1>3
    <3> QED BY <1>2, <3>1, LengthsAdd DEF Making
  <2>3. LengthsCopied(n) \in Nat
    <3>1. n \in 0 .. Len(file.views)
      BY <1>3
    <3> QED BY <1>2, <3>1, LengthsAdd DEF Making
  <2>4. ofmr.length = file.length - LengthsCopied(n)
    BY <1>6 DEF MadeByCopy
  <2>5. file.length \in Nat
    BY <1>2, FileTypes DEF Making
  <2> QED BY <1>4, <2>1, <2>2, <2>3, <2>4, <2>5
<1>8. ofmr' = OneMore(ofmr, w, ofmr.resolution, len)
  <2>1. ofmr \in [format_std : AllFormats, num_views : UCHAR, resolution : USHORT, length : Nat,
                  views : Seq(MadeViews)]
    BY <1>2 DEF Making, RecordTypeOK
  <2> HIDE DEF w, len
  <2> QED BY <1>1, <2>1 DEF OneMore
<1>9. ofmr.resolution \in USHORT /\ RecordTypeOK(ofmr)
      /\ \A k \in DOMAIN ofmr.views : ofmr.views[k].extended = 0
  BY <1>2 DEF Making, RecordTypeOK, RecordInv
<1> HIDE DEF w, len
<1>10. /\ RecordTypeOK(ofmr') /\ Len(ofmr'.views) = n + 1 /\ Len(ofmr'.views) <= ofmr'.num_views
       /\ ofmr'.format_std = ofmr.format_std /\ ofmr'.num_views = ofmr.num_views
       /\ ofmr'.resolution = ofmr.resolution /\ ofmr'.length = len
       /\ \A k \in 1 .. n : ofmr'.views[k] = ofmr.views[k]
       /\ ofmr'.views[n + 1] = w
       /\ \A k \in DOMAIN ofmr'.views : ofmr'.views[k].extended = 0
  BY <1>3, <1>5, <1>7, <1>8, <1>9, ViewTaken
<1>11. MadeByCopy(n + 1)'
  <2>1. \A k \in 1 .. n + 1 : Copied(file.views[k], ofmr'.views[k])
    <3> TAKE k \in 1 .. n + 1
    <3>1. CASE k = n + 1
      BY <1>3, <1>10, <3>1 DEF Copied, w
    <3>2. CASE k # n + 1
      BY <1>3, <1>6, <1>10, <3>2 DEF MadeByCopy
    <3> QED BY <3>1, <3>2
  <2>3. ofmr'.resolution = ReadResolution
    BY <1>6, <1>10 DEF MadeByCopy
  <2> QED BY <1>1, <1>7, <1>10, <2>1, <2>3
          DEF MadeByCopy, Copied, LengthsCopied, ReadResolution, in_type
<1>12. MadeSoFar'
  <2>1. Len(ofmr.views)' = n + 1
    BY <1>10
  <2>2. MadeByCopy(Len(ofmr.views))'
    BY <1>11, <2>1 DEF MadeByCopy, LengthsCopied
  <2> QED BY <1>1, <2>2 DEF MadeSoFar, in_type
<1>13. fmr_len' \in Nat
  BY <1>1, <1>2 DEF Making
<1> QED BY <1>1, <1>10, <1>12, <1>13, MadeKeepsInv

\* What is made of a view depends on the file and on what the user has said.
LEMMA ConversionStays ==
  ASSUME UNCHANGED <<file, iso_res, out_type>>
  PROVE  \A v, w : Converted(v, w)' <=> Converted(v, w)
  BY DEF Converted, Miscounted, ConvertedResolution, ReadResolution, ConvertMinutiae,
     ConvertMinutia, AnsiToCompact, AnsiToIso, IsoToAnsi, CompactToAnsi, in_type

\* A view is converted.
LEMMA ConvertViewKeepsInv ==
  ASSUME ConvertInv, ConvertView
  PROVE  ConvertInv'
<1> DEFINE res == IF in_type = "ANSI07" THEN file.views[1].resolution ELSE ofmr.resolution
<1>0. PICK wraps \in BOOLEAN :
        \E ms \in ConvertMinutiae(CurrentView, ReadResolution, wraps) :
          ofmr' = [Canonical(ofmr) EXCEPT
                     !.views = Append(@, [resolution |-> ConvertedResolution(CurrentView),
                                          extended |-> 0, minutiae |-> ms])]
  BY DEF ConvertView
<1>1. PICK ms \in ConvertMinutiae(CurrentView, ReadResolution, wraps) :
        ofmr' = [Canonical(ofmr) EXCEPT
                   !.views = Append(@, [resolution |-> ConvertedResolution(CurrentView),
                                        extended |-> 0, minutiae |-> ms])]
  BY <1>0
<1>2. /\ pc = "view" /\ MoreViews /\ in_type # out_type
      /\ ~ {in_type, out_type} \subseteq Ansis /\ ~ Miscounted(CurrentView)
      /\ fmr_len' = fmr_len + ConvertedLength(CurrentView) + FEDB_HEADER_LENGTH
      /\ UNCHANGED <<file, iso_res, out_type, pc, ignored, history>>
  BY DEF ConvertView
<1>3. Making
  BY <1>2, IsMaking
<1> PICK n : n = Len(ofmr.views)
  OBVIOUS
<1>4. n \in Nat /\ n < Len(file.views) /\ n < ofmr.num_views /\ CurrentView \in Views(in_type)
      /\ CurrentView = file.views[n + 1] /\ Len(file.views) \in Nat /\ in_type \in AllFormats
  BY <1>2, <1>3, ViewAtHand, FileTypes DEF Making, in_type
<1>5. ReadResolution \in USHORT
  BY <1>3, ResolutionRead DEF Making
<1>6. MadeByConversion(n)
  BY <1>2, <1>3 DEF Making, MadeSoFar
<1>7. ofmr.resolution \in USHORT /\ ofmr.length \in Nat /\ RecordTypeOK(ofmr)
      /\ \A k \in DOMAIN ofmr.views : ofmr.views[k].extended = 0
  BY <1>3 DEF Making, RecordTypeOK, RecordInv
<1>8. res \in USHORT
  <2>1. 1 \in 1 .. Len(file.views)
    BY <1>4
  <2>2. file.views[1] \in Views(in_type)
    BY <1>3, <2>1, FileTypes DEF Making, in_type
  <2>3. file.views[1].resolution \in USHORT
    BY <2>2, ViewTypes
  <2> QED BY <1>7, <2>3
<1>9. ConvertedResolution(CurrentView) \in USHORT
  BY <1>4, <1>5, ViewTypes DEF ConvertedResolution
<1> DEFINE w == [resolution |-> ConvertedResolution(CurrentView), extended |-> 0,
                 minutiae |-> ms]
<1>10. w \in MadeViews /\ w.extended = 0
  <2>1. ms \in Seq(MadeMinutiae)
    BY <1>1, <1>4, <1>5, ConvertMinutiaeFit
  <2> QED BY <1>9, <2>1, Ushorts DEF MadeViews
<1>11. Converted(CurrentView, w)
  BY <1>1, <1>2 DEF Converted
<1>12. ofmr' = OneMore(ofmr, w, res, ofmr.length)
  <2>1. ofmr \in [format_std : AllFormats, num_views : UCHAR, resolution : USHORT, length : Nat,
                  views : Seq(MadeViews)]
    BY <1>7 DEF RecordTypeOK
  <2>2. out_type # "ANSI07" \/ in_type # "ANSI07"
    BY <1>2
  <2>3. ofmr' = [Canonical(ofmr) EXCEPT !.views = Append(@, w)]
    BY <1>1
  <2> HIDE DEF w
  <2> QED BY <2>1, <2>2, <2>3 DEF OneMore, Canonical
<1>13. fmr_len' = HeaderLength(out_type) + LengthsConverted(n + 1) /\ fmr_len' \in Nat
  <2>1. LengthsConverted(n + 1) =
          LengthsConverted(n) + ConvertedLength(CurrentView) + FEDB_HEADER_LENGTH
    BY <1>3, <1>4, LengthsGrow DEF Making
  <2>2. LengthsConverted(n) \in Nat
    <3>1. n \in 0 .. Len(file.views)
      BY <1>4
    <3> QED BY <1>3, <3>1, LengthsAdd DEF Making
  <2>3. ConvertedLength(CurrentView) \in Nat
    BY <1>4, ConvertedLengthType
  <2>4. HeaderLength(out_type) \in Nat
    BY DEF HeaderLength
  <2>5. fmr_len = HeaderLength(out_type) + LengthsConverted(n)
    BY <1>6 DEF MadeByConversion
  <2> QED BY ONLY <1>2, <2>1, <2>2, <2>3, <2>4, <2>5 DEF FEDB_HEADER_LENGTH
<1> HIDE DEF w, res
<1>14. /\ RecordTypeOK(ofmr') /\ Len(ofmr'.views) = n + 1 /\ Len(ofmr'.views) <= ofmr'.num_views
       /\ ofmr'.format_std = ofmr.format_std /\ ofmr'.num_views = ofmr.num_views
       /\ ofmr'.resolution = res
       /\ \A k \in 1 .. n : ofmr'.views[k] = ofmr.views[k]
       /\ ofmr'.views[n + 1] = w
       /\ \A k \in DOMAIN ofmr'.views : ofmr'.views[k].extended = 0
  BY <1>4, <1>7, <1>8, <1>10, <1>12, ViewTaken
<1>15. MadeByConversion(n + 1)'
  <2>1. \A k \in 1 .. n + 1 : Converted(file.views[k], ofmr'.views[k])
    <3> TAKE k \in 1 .. n + 1
    <3>1. CASE k = n + 1
      BY <1>4, <1>11, <1>14, <3>1
    <3>2. CASE k # n + 1
      <4>1. k \in 1 .. n
        BY <1>4, <3>2
      <4>2. Converted(file.views[k], ofmr.views[k])
        BY <1>6, <4>1 DEF MadeByConversion
      <4> QED BY ONLY <1>14, <4>1, <4>2
    <3> QED BY <3>1, <3>2
  <2>2. \A v, made : Converted(v, made)' <=> Converted(v, made)
    BY <1>2, ConversionStays
  <2>3. \A k \in 1 .. n + 1 : Converted(file.views[k], ofmr.views[k])'
    BY <1>2, <2>1, <2>2
  <2>4. LengthsConverted(n + 1)' = LengthsConverted(n + 1)
    BY <1>2 DEF LengthsConverted, ConvertedLength, in_type
  <2>5. res = IF in_type = "ANSI07" /\ n + 1 > 0 THEN file.views[1].resolution
                                                 ELSE ReadResolution
    BY <1>4, <1>6 DEF res, MadeByConversion
  <2> QED BY <1>2, <1>13, <1>14, <2>3, <2>4, <2>5
          DEF MadeByConversion, ReadResolution, in_type
<1>16. MadeSoFar'
  <2>1. Len(ofmr.views)' = n + 1
    BY <1>14
  <2>2. MadeByConversion(Len(ofmr.views))'
    BY <1>15, <2>1 DEF MadeByConversion, LengthsConverted
  <2> QED BY <1>2, <2>2 DEF MadeSoFar, in_type
<1> QED BY <1>2, <1>13, <1>14, <1>16, MadeKeepsInv

\* A conversion that is given up leaves a record, which is written nevertheless.
LEMMA GiveUpKeepsInv ==
  ASSUME ConvertInv, GiveUp
  PROVE  ConvertInv'
<1>1. /\ pc = "view" /\ pc' = "write" /\ ignored' = ignored \cup {"copy"}
      /\ ofmr' \in {ofmr, Canonical(ofmr)} /\ (file.num_views = 0 => ofmr' = ofmr)
      /\ UNCHANGED <<file, iso_res, out_type, fmr_len, history>>
  BY DEF GiveUp
<1>2. Making
  BY <1>1, IsMaking
<1>3. ofmr \in [format_std : AllFormats, num_views : UCHAR, resolution : USHORT, length : Nat,
                views : Seq(MadeViews)]
  BY <1>2 DEF Making, RecordTypeOK
<1>4. file.num_views # 0 => file.views[1].resolution \in USHORT
  <2> SUFFICES ASSUME file.num_views # 0 PROVE file.views[1].resolution \in USHORT
    OBVIOUS
  <2>1. file.num_views = Len(file.views) /\ file.num_views \in Nat
    BY <1>2, FileTypes DEF Making, RecordInv
  <2>2. 1 \in 1 .. Len(file.views)
    BY <2>1
  <2>3. file.views[1] \in Views(in_type)
    BY <1>2, <2>2, FileTypes DEF Making, in_type
  <2> QED BY <2>3, ViewTypes
<1>5. RecordTypeOK(ofmr') /\ ofmr'.views = ofmr.views /\ ofmr'.num_views = ofmr.num_views
      /\ ofmr'.format_std = ofmr.format_std
  BY <1>1, <1>3, <1>4 DEF Canonical, RecordTypeOK
<1>6. TypeOK'
  BY <1>1, <1>2, <1>5 DEF Making, TypeOK, RecordTypeOK
<1>7. HistoryInv'
  BY <1>1 DEF ConvertInv, HistoryInv
<1>8. RecordInv'
  BY <1>1, <1>2, <1>5 DEF Making, RecordInv, Unsupported, in_type
<1> QED BY <1>1, <1>2, <1>6, <1>7, <1>8 DEF ConvertInv, Making

\* When all views have been made the record gets its length.
LEMMA FinishKeepsInv ==
  ASSUME ConvertInv, Finish
  PROVE  ConvertInv'
<1>1. /\ pc = "view" /\ pc' = "write" /\ ~ MoreViews
      /\ ofmr' = IF in_type = out_type THEN ofmr ELSE [ofmr EXCEPT !.length = fmr_len]
      /\ UNCHANGED <<file, iso_res, out_type, fmr_len, ignored, history>>
  BY DEF Finish
<1>2. Making
  BY <1>1, IsMaking
<1>3. ofmr \in [format_std : AllFormats, num_views : UCHAR, resolution : USHORT, length : Nat,
                views : Seq(MadeViews)]
  BY <1>2 DEF Making, RecordTypeOK
<1>4. /\ RecordTypeOK(ofmr') /\ ofmr'.views = ofmr.views /\ ofmr'.num_views = ofmr.num_views
      /\ ofmr'.format_std = ofmr.format_std /\ ofmr'.resolution = ofmr.resolution
      /\ in_type = out_type => ofmr' = ofmr
      /\ in_type # out_type => ofmr'.length = fmr_len
  <2>1. fmr_len \in Nat
    BY <1>2 DEF Making
  <2> QED BY <1>1, <1>3, <2>1 DEF RecordTypeOK
<1>5. TypeOK'
  BY <1>1, <1>2, <1>4 DEF Making, TypeOK, RecordTypeOK
<1>6. HistoryInv'
  BY <1>1 DEF ConvertInv, HistoryInv
<1>7. RecordInv'
  BY <1>1, <1>2, <1>4 DEF Making, RecordInv, Unsupported, in_type
<1>8. Len(ofmr'.views) = Len(file.views)
  BY <1>1, <1>2, <1>4, FileTypes DEF Making, RecordInv, MoreViews
<1> PICK n : n = Len(ofmr.views)
  OBVIOUS
<1>9. MadeSoFar'
  <2>1. in_type = out_type => MadeByCopy(n)'
    BY <1>1, <1>2, <1>4
       DEF Making, MadeSoFar, MadeByCopy, LengthsCopied, ReadResolution, in_type
  <2>2. in_type # out_type => MadeByConversion(n)'
    <3> SUFFICES ASSUME in_type # out_type PROVE MadeByConversion(n)'
      OBVIOUS
    <3>1. MadeByConversion(n)
      BY <1>2 DEF Making, MadeSoFar
    <3>2. \A v, made : Converted(v, made)' <=> Converted(v, made)
      BY <1>1, ConversionStays
    <3>3. LengthsConverted(n)' = LengthsConverted(n)
      BY <1>1 DEF LengthsConverted, ConvertedLength, in_type
    <3> QED BY <1>1, <1>4, <3>1, <3>2, <3>3 DEF MadeByConversion, ReadResolution, in_type
  <2>3. Len(ofmr.views)' = n
    BY <1>4
  <2> QED BY <1>1, <2>1, <2>2, <2>3
          DEF MadeSoFar, MadeByCopy, MadeByConversion, LengthsCopied, LengthsConverted, in_type
<1> QED BY <1>1, <1>2, <1>4, <1>5, <1>6, <1>7, <1>8, <1>9 DEF ConvertInv, Making, in_type

\* The program ends, and leaves a file.
LEMMA ExitKeepsInv ==
  ASSUME ConvertInv, NEW f, NEW failures, Exit(f, failures), f \in FilesOf(out_type),
         BlocksAnnounced(f), failures \subseteq {"copy", "write"}
  PROVE  ConvertInv'
<1> DEFINE e == [file |-> f, ignored |-> failures]
<1>1. /\ pc = "write" /\ pc' = "success" /\ file' = f /\ ignored' = failures
      /\ history' = Append(history, e)
      /\ UNCHANGED <<iso_res, out_type, ofmr, fmr_len>>
  BY DEF Exit
<1>2. out_type \in AllFormats
  BY <1>1 DEF ConvertInv, TypeOK, RecordInv, RecordTypeOK
<1>3. TypeOK'
  BY <1>1, <1>2 DEF ConvertInv, TypeOK, FileOK
<1>4. HistoryInv'
  <2>1. e \in Entries /\ e.file = f
    BY <1>2 DEF Entries
  <2>2. history \in Seq(Entries) /\ history # <<>>
    BY DEF ConvertInv, HistoryInv
  <2> HIDE DEF e
  <2>3. /\ history' \in Seq(Entries) /\ Len(history') = Len(history) + 1
        /\ history'[Len(history) + 1] = e
    BY <1>1, <2>1, <2>2
  <2>4. Len(history) \in Nat /\ Len(history) >= 1
    BY <2>2, EmptySeq
  <2> QED BY <1>1, <2>1, <2>3, <2>4 DEF HistoryInv
<1> QED BY <1>1, <1>3, <1>4 DEF ConvertInv

\* The record that is written, and the file that is made of it.
LEMMA WrittenFits ==
  ASSUME ConvertInv, pc = "write"
  PROVE  /\ RecordTypeOK(ofmr) /\ ofmr.format_std = out_type
         /\ \A k \in DOMAIN ofmr.views : ofmr.views[k].extended = 0
         /\ Stored(ofmr) \in FilesOf(out_type) /\ BlocksAnnounced(Stored(ofmr))
         /\ \A k \in 1 .. Len(Stored(ofmr).views) : Stored(ofmr).views[k].extended = 0
         /\ out_type \in Cards => Len(Stored(ofmr).views) = 1
         /\ ignored \subseteq {"copy", "write"}
<1>1. /\ RecordTypeOK(ofmr) /\ ofmr.format_std = out_type
      /\ \A k \in DOMAIN ofmr.views : ofmr.views[k].extended = 0
      /\ ignored \subseteq {"copy", "write"}
  BY DEF ConvertInv, TypeOK, RecordInv
<1>2. /\ Stored(ofmr) \in FilesOf(ofmr.format_std) /\ BlocksAnnounced(Stored(ofmr))
      /\ \A k \in 1 .. Len(Stored(ofmr).views) : Stored(ofmr).views[k].extended = 0
      /\ ofmr.format_std \in Cards => Len(Stored(ofmr).views) = 1
  BY <1>1, StoredFits
<1> QED BY <1>1, <1>2, Zenon

\* Whether the disk fails or not.
LEMMA WriteKeepsInv ==
  ASSUME ConvertInv, Write \/ WriteFails
  PROVE  ConvertInv'
<1>1. CASE Write
  <2>1. Exit(Stored(ofmr), ignored) /\ pc = "write"
    BY <1>1 DEF Write, Exit
  <2> QED BY <2>1, WrittenFits, ExitKeepsInv
<1>2. CASE WriteFails
  <2>1. PICK f \in Cut(Stored(ofmr)) : Exit(f, ignored \cup {"write"})
    BY <1>2 DEF WriteFails
  <2>2. pc = "write"
    BY <2>1 DEF Exit
  <2>3. f \in FilesOf(out_type) /\ BlocksAnnounced(f)
    BY <2>2, WrittenFits, CutFits
  <2>4. ignored \cup {"write"} \subseteq {"copy", "write"}
    BY <2>2, WrittenFits
  <2> QED BY <2>1, <2>3, <2>4, ExitKeepsInv
<1> QED BY <1>1, <1>2

\* Steps that change nothing.
LEMMA ConvertInvStutters ==
  ASSUME ConvertInv, UNCHANGED vars
  PROVE  ConvertInv'
<1>1. /\ TypeOK' /\ HistoryInv' /\ BlocksAnnounced(file)' /\ iso_res' \in USHORT
      /\ RecordInv' <=> RecordInv
      /\ UNCHANGED <<file, iso_res, out_type, pc, ofmr, fmr_len, ignored>>
  BY DEF vars, ConvertInv, TypeOK, HistoryInv, RecordInv, Unsupported, in_type
<1>2. MadeSoFar' <=> MadeSoFar
  <2> PICK n : n = Len(ofmr.views)
    OBVIOUS
  <2>1. Len(ofmr.views)' = n
    BY <1>1
  <2>2. MadeByCopy(n)' <=> MadeByCopy(n)
    BY <1>1 DEF MadeByCopy, LengthsCopied, ReadResolution, in_type
  <2>3. MadeByConversion(n)' <=> MadeByConversion(n)
    <3>1. \A v, w : Converted(v, w)' <=> Converted(v, w)
      BY <1>1, ConversionStays
    <3>2. LengthsConverted(n)' = LengthsConverted(n)
      BY <1>1 DEF LengthsConverted, ConvertedLength, in_type
    <3> QED BY <1>1, <3>1, <3>2 DEF MadeByConversion, ReadResolution, in_type
  <2> QED BY <1>1, <2>1, <2>2, <2>3
          DEF MadeSoFar, MadeByCopy, MadeByConversion, LengthsCopied, LengthsConverted, in_type
<1> QED BY <1>1, <1>2 DEF ConvertInv, in_type

\* Every step keeps the invariant.
LEMMA ConvertInvNext == ConvertInv /\ [Next]_vars => ConvertInv'
<1> SUFFICES ASSUME ConvertInv, [Next]_vars PROVE ConvertInv'
  OBVIOUS
<1>1. CASE Reject
  BY <1>1, RejectKeepsInv
<1>2. CASE Start
  BY <1>2, StartKeepsInv
<1>3. CASE CopyView
  BY <1>3, CopyViewKeepsInv
<1>4. CASE ConvertView
  BY <1>4, ConvertViewKeepsInv
<1>5. CASE GiveUp
  BY <1>5, GiveUpKeepsInv
<1>6. CASE Finish
  BY <1>6, FinishKeepsInv
<1>7. CASE Write \/ WriteFails
  BY <1>7, WriteKeepsInv
<1>8. CASE UNCHANGED vars
  BY <1>8, ConvertInvStutters
<1> QED BY <1>1, <1>2, <1>3, <1>4, <1>5, <1>6, <1>7, <1>8 DEF Next

\* It always holds.
LEMMA ConvertInvHolds == Spec => []ConvertInv
<1> QED BY ConvertInvInit, ConvertInvNext, PTL DEF Spec

-----------------------------------------------------------------------------
(***************************************************************************)
(* The length in the header.                                               *)
(***************************************************************************)

\* Bytes of the views of a file; and without those of the blocks.
Fixed(f, k) ==
  ViewHeaderLength(f.format_std) + 6 * Len(f.views[k].minutiae) + FEDB_HEADER_LENGTH
Bodies(f)   == [k \in 1 .. Len(f.views) |-> Fixed(f, k)]
Blocks(f)   == [k \in 1 .. Len(f.views) |-> f.views[k].extended]

\* The header, with a long length field in an ANSI record that needs it.
LongHeader(f) == IF f.format_std = "ANSI" /\ f.length > USHRT_MAX
                   THEN 30 ELSE HeaderLength(f.format_std)

\* Such a length is a number.
LEMMA FixedType ==
  ASSUME NEW format, NEW f \in FilesOf(format), NEW k \in 1 .. Len(f.views)
  PROVE  Fixed(f, k) \in Nat /\ f.views[k].extended \in Nat
<1>1. f.views[k] \in Views(format)
  BY DEF FilesOf
<1>2. Len(f.views[k].minutiae) \in Nat /\ f.views[k].extended \in Nat
  BY <1>1, ViewTypes
<1>3. ViewHeaderLength(f.format_std) \in {4, 17}
  BY DEF ViewHeaderLength
<1> QED BY <1>2, <1>3 DEF Fixed, FEDB_HEADER_LENGTH

\* The bytes of a file are its header and its bodies.
LEMMA BytesAdd ==
  ASSUME NEW format, NEW f \in FilesOf(format)
  PROVE  /\ Bytes(f) = LongHeader(f) + SumFunction(Bodies(f)) + SumFunction(Blocks(f))
         /\ SumFunction(Bodies(f)) \in Nat /\ SumFunction(Blocks(f)) \in Nat
         /\ LongHeader(f) \in {20, 24, 26, 30}
         /\ Weights(Bodies(f), Len(f.views)) /\ Weights(Blocks(f), Len(f.views))
         /\ DOMAIN Bodies(f) = 1 .. Len(f.views) /\ DOMAIN Blocks(f) = 1 .. Len(f.views)
<1> DEFINE n   == Len(f.views)
           all == [k \in DOMAIN f.views |->
                     ViewHeaderLength(f.format_std) + 6 * Len(f.views[k].minutiae)
                       + FEDB_HEADER_LENGTH + f.views[k].extended]
<1>1. f.views \in Seq(Views(format)) /\ DOMAIN f.views = 1 .. n /\ n \in Nat
  BY DEF FilesOf
<1>2. Bytes(f) = LongHeader(f) + SumFunction(all)
  BY DEF Bytes, LongHeader
<1>3. DOMAIN all = 1 .. n /\ DOMAIN Bodies(f) = 1 .. n /\ DOMAIN Blocks(f) = 1 .. n
  BY <1>1 DEF Bodies, Blocks
<1>4. ASSUME NEW k \in 1 .. n
      PROVE  /\ Bodies(f)[k] \in Nat /\ Blocks(f)[k] \in Nat
             /\ all[k] = Bodies(f)[k] + Blocks(f)[k]
  <2>1. Fixed(f, k) \in Nat /\ f.views[k].extended \in Nat
    BY FixedType
  <2>2. Bodies(f)[k] = Fixed(f, k) /\ Blocks(f)[k] = f.views[k].extended
    BY DEF Bodies, Blocks
  <2>3. all[k] = Fixed(f, k) + f.views[k].extended
    BY <1>1 DEF Fixed
  <2> QED BY <2>1, <2>2, <2>3
<1>6. LongHeader(f) \in {20, 24, 26, 30}
  BY DEF LongHeader, HeaderLength
<1> HIDE DEF all, n
<1>10. /\ \A k \in 1 .. n : Bodies(f)[k] \in Nat /\ Blocks(f)[k] \in Nat
       /\ \A k \in 1 .. n : all[k] = Bodies(f)[k] + Blocks(f)[k]
  BY <1>4
<1>5. Weights(Bodies(f), n) /\ Weights(Blocks(f), n)
  BY <1>10 DEF Weights
<1>7. SumFunction(all) = SumFunction(Bodies(f)) + SumFunction(Blocks(f))
  <2> DEFINE b == Bodies(f)
             c == Blocks(f)
  <2>1. n \in Nat /\ DOMAIN all = 1 .. n
    BY <1>1, <1>3
  <2>2. DOMAIN b = 1 .. n /\ Weights(b, n)
    BY <1>3, <1>5
  <2>3. DOMAIN c = 1 .. n /\ Weights(c, n)
    BY <1>3, <1>5
  <2>4. \A k \in 1 .. n : all[k] = b[k] + c[k]
    BY <1>10
  <2> HIDE DEF b, c
  <2>5. SumFunction(all) = SumFunction(b) + SumFunction(c)
    BY <2>1, <2>2, <2>3, <2>4, SumSplits
  <2> QED BY <2>5 DEF b, c
<1>8. SumFunction(Bodies(f)) \in Nat
  BY <1>1, <1>3, <1>4, SumType
<1>9. SumFunction(Blocks(f)) \in Nat
  BY <1>1, <1>3, <1>4, SumType
<1> QED BY <1>2, <1>3, <1>5, <1>6, <1>7, <1>8, <1>9 DEF n

\* What is stored of a record that is not for a card.
LEMMA StoredLengths ==
  ASSUME NEW rec, RecordTypeOK(rec), rec.format_std \notin Cards,
         \A k \in DOMAIN rec.views : rec.views[k].extended = 0
  PROVE  /\ Stored(rec).length = rec.length /\ Stored(rec).format_std = rec.format_std
         /\ Len(Stored(rec).views) = Len(rec.views)
         /\ \A k \in 1 .. Len(rec.views) :
              /\ Stored(rec).views[k].extended = 0
              /\ Len(Stored(rec).views[k].minutiae) = Len(rec.views[k].minutiae)
<1>1. /\ rec \in [format_std : AllFormats, num_views : UCHAR, resolution : USHORT, length : Nat,
                  views : Seq(MadeViews)]
  BY DEF RecordTypeOK
<1>2. Stored(rec) = [rec EXCEPT !.views = StoredViews(rec),
                                !.resolution = IF rec.format_std = "ANSI07" THEN 0
                                                                            ELSE rec.resolution]
  BY DEF Stored, StoredViews
<1>3. Stored(rec).length = rec.length /\ Stored(rec).format_std = rec.format_std
      /\ Stored(rec).views = StoredViews(rec)
  BY <1>1, <1>2
<1>4. /\ Len(StoredViews(rec)) = Len(rec.views) /\ Len(rec.views) \in Nat
      /\ \A k \in 1 .. Len(rec.views) :
           StoredViews(rec)[k] = StoredView(rec.views[k], rec.format_std)
  BY StoredViewsFit
<1>5. ASSUME NEW k \in 1 .. Len(rec.views)
      PROVE  /\ StoredViews(rec)[k].extended = 0
             /\ Len(StoredViews(rec)[k].minutiae) = Len(rec.views[k].minutiae)
  <2>1. rec.views[k] \in MadeViews /\ rec.views[k].extended = 0
    BY <1>1
  <2> QED BY <1>4, <2>1, StoredViewFits
<1> QED BY <1>3, <1>4, <1>5

\* A file without blocks has the bytes of the rest.
LEMMA BytesWithoutBlocks ==
  ASSUME NEW format, NEW f \in FilesOf(format), \A k \in 1 .. Len(f.views) : f.views[k].extended = 0
  PROVE  Bytes(f) = LongHeader(f) + SumFunction(Bodies(f))
<1>1. Len(f.views) \in Nat
  BY DEF FilesOf
<1>2. DOMAIN Blocks(f) = 1 .. Len(f.views) /\ \A k \in 1 .. Len(f.views) : Blocks(f)[k] = 0
  BY DEF Blocks
<1>3. SumFunction(Blocks(f)) = 0
  BY <1>1, <1>2, NoBytes
<1> QED BY <1>3, BytesAdd

\* A copy announces the old length without the blocks.
LEMMA CopiedLength ==
  ASSUME NEW format, NEW f \in FilesOf(format), NEW g \in FilesOf(format), format \notin Cards,
         Len(g.views) = Len(f.views),
         \A k \in 1 .. Len(g.views) : /\ g.views[k].extended = 0
                                      /\ Len(g.views[k].minutiae) = Len(f.views[k].minutiae),
         f.length = Bytes(f), Bytes(f) <= USHRT_MAX, g.length = f.length - SumFunction(Blocks(f))
  PROVE  g.length = Bytes(g)
<1>1. f.format_std = format /\ g.format_std = format /\ f.length \in Nat /\ g.length \in Nat
      /\ Len(f.views) \in Nat
  BY DEF FilesOf
<1>2. Bytes(f) = LongHeader(f) + SumFunction(Bodies(f)) + SumFunction(Blocks(f))
      /\ SumFunction(Bodies(f)) \in Nat /\ SumFunction(Blocks(f)) \in Nat
      /\ LongHeader(f) \in {20, 24, 26, 30}
  BY BytesAdd
<1>3. Bytes(g) = LongHeader(g) + SumFunction(Bodies(g))
  BY BytesWithoutBlocks
<1>4. SumFunction(Bodies(g)) = SumFunction(Bodies(f))
  <2>1. \A k \in 1 .. Len(f.views) : Bodies(g)[k] = Bodies(f)[k]
    BY <1>1 DEF Bodies, Fixed
  <2>2. DOMAIN Bodies(g) = 1 .. Len(f.views) /\ DOMAIN Bodies(f) = 1 .. Len(f.views)
    BY DEF Bodies
  <2>3. Weights(Bodies(f), Len(f.views))
    BY BytesAdd
  <2> QED BY <1>1, <2>1, <2>2, <2>3, SumAgrees
<1>5. g.length <= f.length /\ USHRT_MAX \in Nat
  BY <1>1, <1>2, Ushorts
<1>6. LongHeader(f) = HeaderLength(format) /\ LongHeader(g) = HeaderLength(format)
  BY <1>1, <1>5 DEF LongHeader
<1> QED BY <1>1, <1>2, <1>3, <1>4, <1>6

\* A sum of sixes.
LEMMA SixTimes ==
  ASSUME NEW n \in Nat, NEW a, DOMAIN a = 1 .. n, \A k \in 1 .. n : a[k] \in Nat,
         NEW w, DOMAIN w = 1 .. n, \A k \in 1 .. n : w[k] = 6 * a[k]
  PROVE  SumFunction(a) \in Nat /\ SumFunction(w) = 6 * SumFunction(a)
<1> DEFINE d == [k \in 1 .. n |-> 2 * a[k]]
           t == [k \in 1 .. n |-> 3 * a[k]]
<1>1. DOMAIN a = 1 .. n /\ Weights(a, n)
  BY DEF Weights
<1>2. DOMAIN d = 1 .. n /\ Weights(d, n)
  BY DEF Weights
<1>3. DOMAIN t = 1 .. n /\ Weights(t, n)
  BY DEF Weights
<1>4. \A k \in 1 .. n : d[k] = a[k] + a[k]
  OBVIOUS
<1>5. \A k \in 1 .. n : t[k] = d[k] + a[k]
  OBVIOUS
<1>7. \A k \in 1 .. n : w[k] = t[k] + t[k]
  OBVIOUS
<1> HIDE DEF d, t
<1>8. SumFunction(d) = SumFunction(a) + SumFunction(a)
  <2>1. DOMAIN d = 1 .. n
    BY <1>2
  <2>2. n \in Nat
    OBVIOUS
  <2> QED BY ONLY <1>1, <1>4, <2>1, <2>2, SumSplits, SMTT(30)
<1>9. SumFunction(t) = SumFunction(d) + SumFunction(a)
  BY <1>1, <1>2, <1>3, <1>5, SumSplits
<1>10. SumFunction(w) = SumFunction(t) + SumFunction(t)
  BY <1>3, <1>7, SumSplits
<1>6. SumFunction(a) \in Nat
  BY SumType
<1> QED BY <1>6, <1>8, <1>9, <1>10

\* A conversion announces what it has counted, and the short length field of an
\* ANSI record holds it: 2 bytes more in the header, where views are sixes.
LEMMA ConvertedLengthHolds ==
  ASSUME NEW format, NEW f \in FilesOf(format), NEW target \in {"ANSI", "ISO"},
         NEW g \in FilesOf(target), Len(g.views) = Len(f.views),
         \A k \in 1 .. Len(g.views) :
           /\ g.views[k].extended = 0
           /\ Len(g.views[k].minutiae) <= Len(f.views[k].minutiae),
         target = "ANSI" /\ Len(f.views) > 0 => format \in Isos,
         Bytes(f) <= USHRT_MAX, g.length = HeaderLength(target) + SumFunction(Bodies(g))
  PROVE  g.length = Bytes(g)
<1>1. f.format_std = format /\ g.format_std = target /\ g.length \in Nat /\ Len(g.views) \in Nat
  BY DEF FilesOf
<1> PICK n : n = Len(g.views)
  OBVIOUS
<1>2. /\ Bytes(f) = LongHeader(f) + SumFunction(Bodies(f)) + SumFunction(Blocks(f))
      /\ SumFunction(Bodies(f)) \in Nat /\ SumFunction(Blocks(f)) \in Nat
      /\ LongHeader(f) \in {20, 24, 26, 30}
      /\ Weights(Bodies(f), n) /\ DOMAIN Bodies(f) = 1 .. n
  BY BytesAdd
<1>3. /\ Weights(Bodies(g), n) /\ DOMAIN Bodies(g) = 1 .. n
  BY BytesAdd
<1>4. Bytes(g) = LongHeader(g) + SumFunction(Bodies(g))
  BY BytesWithoutBlocks
<1>5. CASE target = "ISO"
  BY <1>1, <1>4, <1>5 DEF LongHeader
<1>6. CASE target = "ANSI"
  <2> DEFINE a == [k \in 1 .. n |-> 1 + Len(g.views[k].minutiae)]
  <2>1. ASSUME NEW k \in 1 .. n
        PROVE  a[k] \in Nat /\ Bodies(g)[k] = 6 * a[k]
    <3>1. g.views[k] \in Views(target)
      BY DEF FilesOf
    <3>2. Len(g.views[k].minutiae) \in Nat
      BY <3>1, ViewTypes
    <3>3. Bodies(g)[k] = 4 + 6 * Len(g.views[k].minutiae) + 2
      BY <1>1, <1>6 DEF Bodies, Fixed, ViewHeaderLength, FEDB_HEADER_LENGTH
    <3> QED BY <3>2, <3>3
  <2>2. DOMAIN a = 1 .. n /\ n \in Nat
    BY <1>1
  <2> HIDE DEF a
  <2>3. SumFunction(a) \in Nat /\ SumFunction(Bodies(g)) = 6 * SumFunction(a)
    <3>1. \A k \in 1 .. n : a[k] \in Nat /\ Bodies(g)[k] = 6 * a[k]
      BY <2>1
    <3> QED BY <1>3, <2>2, <3>1, SixTimes
  <2>4. HeaderLength(target) = 26
    BY <1>6 DEF HeaderLength
  <2>5. g.length <= USHRT_MAX
    <3>1. CASE n = 0
      <4>1. SumFunction(Bodies(g)) = 0
        BY <1>3, <2>2, <3>1, SumType
      <4> QED BY <2>4, <4>1, Ushorts
    <3>2. CASE n # 0
      <4>1. format \in Isos
        BY <1>1, <1>6, <3>2
      <4>2. LongHeader(f) = 24
        BY <1>1, <4>1 DEF LongHeader, HeaderLength, Isos, Cards
      <4>3. \A k \in 1 .. n : Bodies(g)[k] <= Bodies(f)[k]
        <5> TAKE k \in 1 .. n
        <5>1. f.views[k] \in Views(format) /\ g.views[k] \in Views(target)
          BY DEF FilesOf
        <5>2. Len(f.views[k].minutiae) \in Nat /\ Len(g.views[k].minutiae) \in Nat
              /\ Len(g.views[k].minutiae) <= Len(f.views[k].minutiae)
          BY <5>1, ViewTypes
        <5>3. ViewHeaderLength(format) = 4 /\ ViewHeaderLength(target) = 4
          BY <1>6, <4>1 DEF ViewHeaderLength, Isos, Cards
        <5>4. Bodies(g)[k] = 4 + 6 * Len(g.views[k].minutiae) + 2
              /\ Bodies(f)[k] = 4 + 6 * Len(f.views[k].minutiae) + 2
          BY <1>1, <5>3 DEF Bodies, Fixed, FEDB_HEADER_LENGTH
        <5> DEFINE of == Len(f.views[k].minutiae)
                   og == Len(g.views[k].minutiae)
        <5>5. of \in Nat /\ og \in Nat /\ og <= of
          BY <5>2
        <5>6. Bodies(g)[k] = 4 + 6 * og + 2 /\ Bodies(f)[k] = 4 + 6 * of + 2
          BY <5>4
        <5> HIDE DEF of, og
        <5> QED BY ONLY <5>5, <5>6
      <4>4. SumFunction(Bodies(g)) <= SumFunction(Bodies(f))
        BY <1>2, <1>3, <2>2, <4>3, SumAtMost
      <4>5. 24 + 6 * SumFunction(a) <= 65535
        BY <1>2, <2>3, <4>2, <4>4, Ushorts
      <4>6. 26 + 6 * SumFunction(a) <= 65535
        BY <2>3, <4>5
      <4> QED BY <2>3, <2>4, <4>6, Ushorts
    <3> QED BY <3>1, <3>2
  <2>6. LongHeader(g) = 26
    BY <1>1, <1>6, <2>4, <2>5, Ushorts DEF LongHeader
  <2> QED BY <1>4, <2>4, <2>6
<1> QED BY <1>5, <1>6

\* The lengths that are added up while views are converted to a format that has
\* one are those of the views of the file.
LEMMA ConvertedBodies ==
  ASSUME FileOK(file), ReadResolution \in USHORT, in_type # out_type,
         out_type \in {"ANSI", "ISO"}, in_type \in AllFormats,
         Len(ofmr.views) = Len(file.views), MadeByConversion(Len(ofmr.views)),
         NEW g \in FilesOf(out_type), Len(g.views) = Len(file.views),
         \A k \in 1 .. Len(g.views) : Len(g.views[k].minutiae) = Len(ofmr.views[k].minutiae)
  PROVE  /\ LengthsConverted(Len(ofmr.views)) = SumFunction(Bodies(g))
         /\ \A k \in 1 .. Len(g.views) :
              Len(g.views[k].minutiae) <= Len(file.views[k].minutiae)
<1> DEFINE n == Len(file.views)
           len == [k \in 1 .. n |-> ConvertedLength(file.views[k]) + FEDB_HEADER_LENGTH]
<1>1. n \in Nat /\ \A k \in 1 .. n : file.views[k] \in Views(in_type)
  BY FileTypes DEF in_type
<1>3. ASSUME NEW k \in 1 .. n
      PROVE  /\ Len(g.views[k].minutiae) = NumberOfMinutiae(file.views[k])
             /\ NumberOfMinutiae(file.views[k]) \in Nat
             /\ NumberOfMinutiae(file.views[k]) <= Len(file.views[k].minutiae)
  <2>1. file.views[k] \in Views(in_type)
    BY <1>1
  <2>2. PICK wraps \in BOOLEAN :
          ofmr.views[k].minutiae \in ConvertMinutiae(file.views[k], ReadResolution, wraps)
    BY DEF MadeByConversion, Converted
  <2>3. Len(ofmr.views[k].minutiae) = NumberOfMinutiae(file.views[k])
    BY <2>1, <2>2, ConvertMinutiaeFit
  <2> QED BY <2>1, <2>3, ViewTypes
<1>4. ASSUME NEW k \in 1 .. n PROVE len[k] = Bodies(g)[k]
  <2>1. g.format_std = out_type
    BY DEF FilesOf
  <2>2. Bodies(g)[k] = 4 + 6 * Len(g.views[k].minutiae) + 2
    BY <2>1 DEF Bodies, Fixed, ViewHeaderLength, FEDB_HEADER_LENGTH
  <2>3. FmdLength(out_type) = 6
    BY DEF FmdLength
  <2>4. ConvertedLength(file.views[k]) = 4 + NumberOfMinutiae(file.views[k]) * 6
    BY <2>3 DEF ConvertedLength, FVMR_HEADER_LENGTH
  <2>5. len[k] = ConvertedLength(file.views[k]) + 2
    BY DEF FEDB_HEADER_LENGTH
  <2> HIDE DEF len
  <2>6. Len(g.views[k].minutiae) = NumberOfMinutiae(file.views[k])
        /\ NumberOfMinutiae(file.views[k]) \in Nat
    BY <1>3
  <2> QED BY ONLY <2>2, <2>4, <2>5, <2>6
<1>5. LengthsConverted(Len(ofmr.views)) = SumFunction(len)
  BY DEF LengthsConverted
<1>6. DOMAIN len = 1 .. n
  OBVIOUS
<1>7. Weights(Bodies(g), n) /\ DOMAIN Bodies(g) = 1 .. n
  BY BytesAdd
<1> HIDE DEF len, n
<1>8. \A k \in 1 .. n : len[k] = Bodies(g)[k]
  BY <1>4
<1>9. SumFunction(len) = SumFunction(Bodies(g))
  BY <1>1, <1>6, <1>7, <1>8, SumAgrees
<1> QED BY <1>3, <1>5, <1>9 DEF n

\* The file that was read is the last but one in the history once the other is written.
LEMMA InputAfterWrite ==
  ASSUME ConvertInv, Write
  PROVE  Input' = file
<1> PICK e : e = [file |-> Stored(ofmr), ignored |-> ignored]
  OBVIOUS
<1>1. history \in Seq(Entries) /\ history # <<>> /\ history[Len(history)].file = file
  BY DEF ConvertInv, HistoryInv
<1>2. Len(history) \in Nat /\ Len(history) >= 1
  BY <1>1, EmptySeq
<1>3. Len(history') = Len(history) + 1 /\ history'[Len(history)] = history[Len(history)]
  <2>1. history' = Append(history, e)
    BY DEF Write, Exit
  <2> QED BY <1>1, <1>2, <2>1
<1>4. Len(history') - 1 = Len(history)
  BY <1>2, <1>3
<1> QED BY <1>1, <1>3, <1>4 DEF Input

\* A run that has done everything has written a true length.
LEMMA LengthAfterWrite ==
  ASSUME ConvertInv, Write
  PROVE  LengthIsTrue'
<1> DEFINE g == Stored(ofmr)
           n == Len(file.views)
<1>1. /\ pc = "write" /\ pc' = "success" /\ file' = g /\ ignored' = ignored
      /\ history' = Append(history, [file |-> g, ignored |-> ignored])
      /\ UNCHANGED <<iso_res, out_type, ofmr, fmr_len>>
  BY DEF Write, Exit
<1>2. Input' = file
  BY InputAfterWrite
<1> SUFFICES ASSUME ignored = {}, out_type \notin Cards, Bytes(file) <= USHRT_MAX,
                    in_type \notin Cards => file.length = Bytes(file),
                    out_type = "ANSI07" => in_type = "ANSI07"
             PROVE  g.length = Bytes(g)
  <2>1. g.format_std = out_type
    BY <1>1, WrittenFits DEF FilesOf
  <2>2. Bytes(Input)' = Bytes(file) /\ Bytes(file)' = Bytes(g)
    BY <1>1, <1>2 DEF Bytes
  <2>3. /\ Done' => ignored = {}
        /\ file'.format_std = out_type /\ Input'.format_std = in_type
        /\ Input'.length = file.length /\ file'.length = g.length
    BY <1>1, <1>2, <2>1 DEF Done, in_type
  <2> HIDE DEF g
  <2> QED BY <2>2, <2>3 DEF LengthIsTrue
<1>3. /\ MadeSoFar /\ Len(ofmr.views) = n
      /\ in_type # out_type => ofmr.length = fmr_len
  BY <1>1 DEF ConvertInv
<1>4. /\ RecordTypeOK(ofmr) /\ ofmr.format_std = out_type /\ g \in FilesOf(out_type)
      /\ \A k \in DOMAIN ofmr.views : ofmr.views[k].extended = 0
  BY <1>1, WrittenFits
<1>5. /\ g.length = ofmr.length /\ Len(g.views) = n
      /\ \A k \in 1 .. n : /\ g.views[k].extended = 0
                           /\ Len(g.views[k].minutiae) = Len(ofmr.views[k].minutiae)
  BY <1>3, <1>4, StoredLengths
<1>6. /\ FileOK(file) /\ file \in FilesOf(in_type) /\ in_type \in AllFormats /\ n \in Nat
      /\ \A k \in 1 .. n : file.views[k] \in Views(in_type)
  <2>1. FileOK(file)
    BY DEF ConvertInv, TypeOK
  <2> QED BY <2>1, FileTypes DEF in_type
<1>7. out_type \in AllFormats
  BY <1>4 DEF RecordTypeOK
<1> HIDE DEF g
<1>8. CASE in_type = out_type
  <2>1. MadeByCopy(n)
    BY <1>3, <1>8 DEF MadeSoFar
  <2>2. ofmr.length = file.length - LengthsCopied(n)
    BY <2>1 DEF MadeByCopy
  <2>3. LengthsCopied(n) = SumFunction(Blocks(file))
    BY DEF LengthsCopied, Blocks
  <2>4. ASSUME NEW k \in 1 .. n
        PROVE  Len(g.views[k].minutiae) = Len(file.views[k].minutiae)
    <3>1. ofmr.views[k] = [file.views[k] EXCEPT !.extended = 0]
      BY <2>1 DEF MadeByCopy, Copied
    <3>2. file.views[k] \in Views(in_type)
      BY <1>6
    <3>3. ofmr.views[k].minutiae = file.views[k].minutiae
      BY <3>1, <3>2 DEF Views
    <3> QED BY <1>5, <3>3
  <2>5. g.length = file.length - SumFunction(Blocks(file))
    BY <1>5, <2>2, <2>3
  <2>6. \A k \in 1 .. Len(g.views) :
          /\ g.views[k].extended = 0
          /\ Len(g.views[k].minutiae) = Len(file.views[k].minutiae)
    BY <1>5, <2>4
  <2> QED BY <1>4, <1>5, <1>6, <1>8, <2>5, <2>6, CopiedLength
<1>9. CASE in_type # out_type
  <2>1. MadeByConversion(n)
    BY <1>3, <1>9 DEF MadeSoFar
  <2>2. out_type \in {"ANSI", "ISO"}
    BY <1>7, <1>9 DEF AllFormats, Cards
  <2>3. out_type = "ANSI" /\ n > 0 => in_type \in Isos
    BY <1>6, <2>1 DEF MadeByConversion, Ansis, Isos, AllFormats
  <2>4. /\ LengthsConverted(n) = SumFunction(Bodies(g))
        /\ \A k \in 1 .. n : Len(g.views[k].minutiae) <= Len(file.views[k].minutiae)
    <3>1. ReadResolution \in USHORT
      BY <1>6, ResolutionRead DEF ConvertInv
    <3>2. \A k \in 1 .. Len(g.views) : Len(g.views[k].minutiae) = Len(ofmr.views[k].minutiae)
      BY <1>5
    <3> QED BY <1>3, <1>4, <1>5, <1>6, <1>9, <2>1, <2>2, <3>1, <3>2, ConvertedBodies
  <2>5. g.length = HeaderLength(out_type) + SumFunction(Bodies(g))
    BY <1>3, <1>5, <1>9, <2>1, <2>4 DEF MadeByConversion
  <2>6. \A k \in 1 .. Len(g.views) :
          /\ g.views[k].extended = 0
          /\ Len(g.views[k].minutiae) <= Len(file.views[k].minutiae)
    BY <1>5, <2>4
  <2> QED BY <1>4, <1>5, <1>6, <2>2, <2>3, <2>5, <2>6, ConvertedLengthHolds
<1> QED BY <1>8, <1>9

\* LengthIsTrue: of a run that has ignored no failure, the length in the header
\* is that of the file, for records of any number of views and minutiae, any
\* resolution, any way to round, and any number of runs one after the other.
THEOREM LengthIsTrueHolds == Spec => []LengthIsTrue
<1>1. Init => LengthIsTrue
  BY DEF Init, LengthIsTrue, Done
<1>2. ASSUME ConvertInv, LengthIsTrue, [Next]_vars
      PROVE  LengthIsTrue'
  <2>1. CASE Write
    BY <1>2, <2>1, LengthAfterWrite
  <2>2. CASE WriteFails
    <3>1. ignored' # {}
      BY <2>2 DEF WriteFails, Exit
    <3> QED BY <3>1 DEF LengthIsTrue, Done
  <2>3. CASE Reject \/ Start \/ CopyView \/ ConvertView \/ GiveUp \/ Finish
    <3>1. pc' # "success"
      BY <2>3 DEF Reject, Start, CopyView, ConvertView, GiveUp, Finish
    <3> QED BY <3>1 DEF LengthIsTrue, Done
  <2>4. CASE UNCHANGED vars
    BY <1>2, <2>4 DEF vars, LengthIsTrue, Done, Input, Bytes
  <2> QED BY <1>2, <2>1, <2>2, <2>3, <2>4 DEF Next
<1> QED BY <1>1, <1>2, ConvertInvHolds, PTL DEF Spec

-----------------------------------------------------------------------------
(***************************************************************************)
(* Where a minutia is and where it points to, before and after.            *)
(***************************************************************************)

\* Which of the nearest integers is taken, it is at most the one halves go up to.
LEMMA NearestIsRounded ==
  ASSUME NEW n \in Nat, NEW d \in Nat \ {0}, NEW q \in Nearest(n, d)
  PROVE  q <= Round(n, d)
<1> DEFINE num == 2 * n + d
           den == 2 * d
           top == num \div den
           p == q * d
<1>1. q \in Nat /\ 2 * (p - n) <= d /\ p \in Nat
  <2>1. q \in Nat
    BY NearestIsThere
  <2> QED BY <2>1 DEF Nearest
<1>2. num \in Nat /\ den \in Nat /\ den > 0
  OBVIOUS
<1>3. q * den <= num
  <2>1. q * den = 2 * p
    BY <1>1
  <2> HIDE DEF p
  <2> QED BY <1>1, <2>1
<1> HIDE DEF num, den, p
<1>4. top \in Nat /\ num < (top + 1) * den
  <2>1. top \in Nat /\ num % den \in 0 .. den - 1 /\ num = (den * top) + (num % den)
    BY <1>2
  <2>2. (top + 1) * den = (den * top) + den
    <3> HIDE DEF top
    <3> QED BY <1>2, <2>1
  <2>3. den * top \in Nat
    <3> HIDE DEF top
    <3> QED BY <1>2, <2>1
  <2> HIDE DEF top
  <2> QED BY <1>2, <2>1, <2>2, <2>3
<1> HIDE DEF top
<1>5. ASSUME q > top PROVE FALSE
  <2> PICK more \in Nat : q = (top + 1) + more
    <3>1. q - (top + 1) \in Nat
      BY <1>1, <1>4, <1>5
    <3> QED BY <1>1, <1>4, <3>1
  <2>1. q * den = (top + 1) * den + more * den
    BY <1>2, <1>4
  <2>2. more * den \in Nat /\ (top + 1) * den \in Nat
    BY <1>2, <1>4
  <2>3. q * den \in Nat
    BY <1>1, <1>2
  <2> QED BY <1>2, <1>3, <1>4, <2>1, <2>2, <2>3
<1>6. q <= top
  BY <1>1, <1>4, <1>5
<1> QED BY <1>6 DEF Round, num, den, top

\* A coordinate that fits its field is one of the nearest.
LEMMA CoordinateIsNearest ==
  ASSUME NEW n \in Nat, NEW d \in Nat \ {0}, NEW wraps \in BOOLEAN,
         NEW max \in Nat, max <= USHRT_MAX, Round(n, d) <= max, NEW x \in Coordinate(n, d, wraps)
  PROVE  x \in Nearest(n, d) /\ x \in Nat /\ x <= max
<1>1. PICK q \in Nearest(n, d) : x = Cast(q, USHRT_MAX, wraps)
  BY DEF Coordinate
<1>2. q \in Nat /\ q <= Round(n, d)
  BY NearestIsThere, NearestIsRounded
<1>3. Round(n, d) \in Int
  BY DEF Round
<1>4. q <= max /\ q <= USHRT_MAX
  BY <1>2, <1>3, Ushorts
<1> QED BY <1>1, <1>2, <1>4 DEF Cast

\* p has kept its place as q.
PlaceKept(p, q, to) == FitsField(p, q.density, to) => SamePlace(p, q)

\* A minutia and a density.
At(m, density) == [m |-> m, density |-> density]

\* A coordinate that is not converted.
LEMMA SameCoordinate ==
  ASSUME NEW m, m.x \in Nat, NEW c, c.x = m.x, NEW density \in Nat, NEW to
  PROVE  PlaceKept(At(m, density), At(c, density), to)
<1>1. m.x * density - c.x * density = 0
  BY Z3
<1> QED BY <1>1 DEF PlaceKept, SamePlace, FitsField, At

\* And one that is.
LEMMA ConvertedCoordinate ==
  ASSUME NEW m, m.x \in Nat, NEW from \in Nat, NEW target \in Nat, NEW wraps \in BOOLEAN,
         NEW c, c.x \in Coordinate(m.x * target, from, wraps), NEW to,
         NEW s, c.x \in Nat /\ c.x <= MaxCoordinate(to) => s.x = c.x
  PROVE  PlaceKept(At(m, from), At(s, target), to)
<1> SUFFICES ASSUME from > 0, Round(m.x * target, from) <= MaxCoordinate(to)
             PROVE  SamePlace(At(m, from), At(s, target))
  BY DEF PlaceKept, FitsField, At
<1> DEFINE n == m.x * target
<1>1. n \in Nat
  OBVIOUS
<1>2. MaxCoordinate(to) \in Nat /\ MaxCoordinate(to) <= USHRT_MAX
  BY Ushorts DEF MaxCoordinate
<1>3. c.x \in Coordinate(n, from, wraps) /\ Round(n, from) <= MaxCoordinate(to)
  OBVIOUS
<1>4. SamePlace(At(m, from), At(s, target)) <=> 2 * (n - s.x * from) \in -from .. from
  BY DEF SamePlace, At
<1> HIDE DEF n
<1>5. c.x \in Nearest(n, from) /\ c.x \in Nat /\ c.x <= MaxCoordinate(to)
  BY <1>1, <1>2, <1>3, CoordinateIsNearest
<1>6. s.x = c.x
  BY <1>5
<1> DEFINE p == c.x * from
<1>7. p \in Nat /\ 2 * (p - n) \in -from .. from
  BY <1>5 DEF Nearest
<1> HIDE DEF p
<1>8. 2 * (n - p) \in -from .. from
  BY <1>1, <1>7
<1> QED BY <1>4, <1>6, <1>8 DEF p

\* The units of angles, by format.
UnitOf(format) ==
  CASE format \in Ansis            -> 64
    [] format = "ISO_COMPACT_CARD" -> 180
    [] OTHER                       -> 45

\* SameDirection of two angles.
Turned(a, b, from, to) ==
  LET d == (a * UnitOf(from) - b * UnitOf(to)) % FullCircle
      unit == Max({UnitOf(from), UnitOf(to)})
  IN d < unit \/ FullCircle - d < unit

\* The larger of two numbers.
LEMMA MaxOfTwo ==
  ASSUME NEW a \in Int, NEW b \in Int
  PROVE  Max({a, b}) = IF a <= b THEN b ELSE a
<1> DEFINE P(x) == x \in {a, b} /\ \A y \in {a, b} : y <= x
<1>1. Max({a, b}) = CHOOSE x \in {a, b} : \A y \in {a, b} : x >= y
  BY DEF Max
<1>2. \E x \in {a, b} : \A y \in {a, b} : x >= y
  OBVIOUS
<1>3. Max({a, b}) \in {a, b} /\ \A y \in {a, b} : Max({a, b}) >= y
  BY <1>1, <1>2
<1> QED BY <1>3

\* Where the difference is small.
LEMMA TurnedLittle ==
  ASSUME NEW from, NEW to, NEW a \in Nat, NEW b \in Nat,
         NEW unit \in Int, unit = Max({UnitOf(from), UnitOf(to)}),
         NEW d \in Int, d = a * UnitOf(from) - b * UnitOf(to), -unit < d, d < unit
  PROVE  Turned(a, b, from, to)
<1>1. unit \in {45, 64, 180}
  <2>1. UnitOf(from) \in {45, 64, 180} /\ UnitOf(to) \in {45, 64, 180}
    BY DEF UnitOf
  <2> QED BY <2>1, MaxOfTwo
<1>2. FullCircle = 11520
  BY DEF FullCircle
<1>3. d % 11520 < unit \/ 11520 - (d % 11520) < unit
  BY <1>1
<1> QED BY <1>2, <1>3 DEF Turned

\* The four conversions of angles.
LEMMA AnsiToIsoTurns ==
  ASSUME NEW a \in 0 .. 179, NEW wraps \in BOOLEAN, NEW from \in Ansis,
         NEW to \in {"ISO", "ISO_NORMAL_CARD"}
  PROVE  Turned(a, AnsiAngleToIso(a, wraps), from, to)
<1> DEFINE b == AnsiAngleToIso(a, wraps)
<1>1. UnitOf(from) = 64 /\ UnitOf(to) = 45 /\ Max({UnitOf(from), UnitOf(to)}) = 64
  <2>1. UnitOf(from) = 64 /\ UnitOf(to) = 45
    BY DEF UnitOf, Ansis
  <2> QED BY <2>1, MaxOfTwo
<1>2. b \in Nat /\ 64 * a - 45 * b \in -63 .. 63
  BY SMTT(60) DEF AnsiAngleToIso, Cast, Round, UCHAR_MAX
<1> HIDE DEF b
<1>3. Turned(a, b, from, to)
  BY <1>1, <1>2, TurnedLittle
<1> QED BY <1>3 DEF b

\* To the compact card.
LEMMA AnsiToCompactTurns ==
  ASSUME NEW a \in 0 .. 179, NEW from \in Ansis
  PROVE  Turned(a, AnsiAngleToCompact(a), from, "ISO_COMPACT_CARD")
<1> DEFINE b == AnsiAngleToCompact(a)
           to == "ISO_COMPACT_CARD"
<1>1. UnitOf(from) = 64 /\ UnitOf(to) = 180 /\ Max({UnitOf(from), UnitOf(to)}) = 180
  <2>1. UnitOf(from) = 64 /\ UnitOf(to) = 180
    BY DEF UnitOf, Ansis
  <2> QED BY <2>1, MaxOfTwo
<1>2. b \in Nat /\ 64 * a - 180 * b \in -179 .. 179
  BY SMTT(60) DEF AnsiAngleToCompact, AtMost, Round, FMD_MAX_MINUTIA_ISOCC_ANGLE
<1> HIDE DEF b
<1>3. Turned(a, b, from, to)
  BY <1>1, <1>2, TurnedLittle
<1> QED BY <1>3 DEF b

\* From ISO and the normal card.
LEMMA IsoToAnsiTurns ==
  ASSUME NEW a \in UCHAR, NEW from \in {"ISO", "ISO_NORMAL_CARD"}, NEW to \in Ansis
  PROVE  Turned(a, IsoAngleToAnsi(a), from, to)
<1> DEFINE b == IsoAngleToAnsi(a)
<1>1. UnitOf(from) = 45 /\ UnitOf(to) = 64 /\ Max({UnitOf(from), UnitOf(to)}) = 64
  <2>1. UnitOf(from) = 45 /\ UnitOf(to) = 64
    BY DEF UnitOf, Ansis
  <2> QED BY <2>1, MaxOfTwo
<1>2. b \in Nat /\ a \in Nat /\ 45 * a - 64 * b \in -48 .. 48
  <2>1. a \in Nat
    BY Bytes8
  <2>2. b \in 0 .. 179 /\ IsoOff(a) \in -48 .. 48
    BY IsoAnglesAreClose
  <2>3. IsoOff(a) = 45 * a - 64 * b
    BY DEF IsoOff
  <2> HIDE DEF b
  <2> QED BY <2>1, <2>2, <2>3
<1> HIDE DEF b
<1>3. Turned(a, b, from, to)
  BY <1>1, <1>2, TurnedLittle
<1> QED BY <1>3 DEF b

\* From the compact card.
LEMMA CompactToAnsiTurns ==
  ASSUME NEW a \in 0 .. 63, NEW to \in Ansis
  PROVE  Turned(a, CompactAngleToAnsi(a), "ISO_COMPACT_CARD", to)
<1> DEFINE b == CompactAngleToAnsi(a)
           from == "ISO_COMPACT_CARD"
<1>1. UnitOf(from) = 180 /\ UnitOf(to) = 64 /\ Max({UnitOf(from), UnitOf(to)}) = 180
  <2>1. UnitOf(from) = 180 /\ UnitOf(to) = 64
    BY DEF UnitOf, Ansis
  <2> QED BY <2>1, MaxOfTwo
<1>2. b \in Nat /\ a \in Nat /\ 180 * a - 64 * b \in -64 .. 64
  <2>1. b \in 0 .. 179 /\ CompactOff(a) \in -64 .. 64
    BY CompactAnglesReturn
  <2>2. CompactOff(a) = 180 * a - 64 * b
    BY DEF CompactOff
  <2> HIDE DEF b
  <2> QED BY <2>1, <2>2
<1> HIDE DEF b
<1>3. Turned(a, b, from, to)
  BY <1>1, <1>2, TurnedLittle
<1> QED BY <1>3 DEF b

\* A minutia that is legal in a format.
LegalIn(m, format) == m.angle <= MaxAngle(format) /\ m.quality \in Qualities(format)

\* What becomes of a minutia: m of a view with the density `old' becomes s with `new'.
Keeps(m, s, old, new, from, to) ==
  /\ PlaceKept(At(m, old), At(s, new), to)
  /\ m.angle <= MaxAngle(from) => Turned(m.angle, s.angle, from, to)

\* A minutia is exactly this after a conversion, as long as its coordinate fits.
AnglesMade(a, from, to) ==
  IF from \in Ansis
    THEN IF to = "ISO_COMPACT_CARD" THEN {AnsiAngleToCompact(a)}
                                    ELSE {AnsiAngleToIso(a, wraps) : wraps \in BOOLEAN}
    ELSE IF from = "ISO_COMPACT_CARD" THEN {CompactAngleToAnsi(a)} ELSE {IsoAngleToAnsi(a)}

QualityMade(q, from, to) ==
  IF to \in Cards \/ from = "ISO_COMPACT_CARD" \/ (from = "ANSI07" /\ q \in {254, 255}) THEN 0
  ELSE IF from \notin Ansis /\ to = "ANSI07" /\ q = 0 THEN 254
  ELSE q

\* How many units of a card make a centimeter.
UnitsOf(card) == IF card = "ISO_NORMAL_CARD" THEN 1000 ELSE 100

\* m of a view with the density `old' is s of one with `new'; what is made of a card
\* has the resolution `res'.
Becomes(m, s, old, new, from, to, res) ==
  IF from = to
    THEN s = m /\ old = new
    ELSE /\ \/ from \in Ansis /\ to \in Isos
            \/ from \in Isos /\ to \in Ansis
         /\ s.angle \in AnglesMade(m.angle, from, to)
         /\ s.quality = QualityMade(m.quality, from, to)
         /\ from \notin Cards /\ to \notin Cards => s.x = m.x /\ old = new
         /\ FitsField(At(m, old), new, to) /\ (from \in Cards \/ to \in Cards) =>
              s.x \in Nearest(m.x * new, old)
         /\ from \in Cards => old = UnitsOf(from) /\ new = res
         /\ to \in Cards => new = UnitsOf(to)

\* A copy is the same, when it has been stored too.
LEMMA CopyIsStored ==
  ASSUME NEW format, NEW m \in Minutiae(format)
  PROVE  StoredMinutia(m, format) = m
<1> DEFINE angles    == IF format = "ISO_COMPACT_CARD" THEN 0 .. 63 ELSE UCHAR
           qualities == IF format \in Cards THEN {0} ELSE UCHAR
<1>1. m \in [x : 0 .. MaxCoordinate(format), angle : angles, quality : qualities]
  BY DEF Minutiae
<1>2. m = [x |-> m.x, angle |-> m.angle, quality |-> m.quality]
  <2> HIDE DEF angles, qualities
  <2> QED BY <1>1
<1>3. /\ m.x \in Nat /\ m.x <= MaxCoordinate(format) /\ m.angle \in UCHAR
      /\ format = "ISO_COMPACT_CARD" => m.angle \in 0 .. 63
  BY MinutiaTypes
<1>4. format \in Cards => m.quality = 0
  BY MinutiaTypes
<1>5. CASE format = "ISO_COMPACT_CARD"
  <2>1. MaxCoordinate(format) = 255 /\ format \in Cards /\ m.angle \in 0 .. 63
    BY <1>3, <1>5 DEF MaxCoordinate, Cards
  <2>2. m.x % 256 = m.x /\ m.angle % 64 = m.angle
    BY <1>3, <2>1
  <2> QED BY <1>2, <1>4, <1>5, <2>1, <2>2 DEF StoredMinutia
<1>6. CASE format # "ISO_COMPACT_CARD"
  <2>1. MaxCoordinate(format) = 16383
    BY <1>6 DEF MaxCoordinate
  <2>2. m.x % 16384 = m.x
    BY <1>3, <2>1
  <2>3. format = "ISO_NORMAL_CARD" => m.quality = 0
    BY <1>4 DEF Cards
  <2> QED BY <1>2, <1>6, <2>2, <2>3 DEF StoredMinutia
<1> QED BY <1>5, <1>6

\* So it is kept.
LEMMA CopyKeeps ==
  ASSUME NEW format \in AllFormats, NEW m \in Minutiae(format), NEW density \in Nat
  PROVE  Keeps(m, StoredMinutia(m, format), density, density, format, format)
<1>1. StoredMinutia(m, format) = m
  BY CopyIsStored
<1>2. m.x \in Nat /\ m.angle \in Nat
  BY MinutiaTypes, Bytes8
<1>3. PlaceKept(At(m, density), At(m, density), format)
  BY <1>2, SameCoordinate
<1>4. Turned(m.angle, m.angle, format, format)
  <2>1. UnitOf(format) \in {45, 64, 180} /\ Max({UnitOf(format), UnitOf(format)}) = UnitOf(format)
    <3>1. UnitOf(format) \in {45, 64, 180}
      BY DEF UnitOf
    <3> QED BY <3>1, MaxOfTwo
  <2>2. m.angle * UnitOf(format) - m.angle * UnitOf(format) = 0
    BY <1>2, <2>1
  <2> QED BY <1>2, <2>1, <2>2, TurnedLittle
<1> QED BY <1>1, <1>3, <1>4 DEF Keeps

\* What is stored of a coordinate that fits, and of the rest of a minutia.
LEMMA StoredFields ==
  ASSUME NEW c \in MadeMinutiae, NEW format \in AllFormats
  PROVE  /\ c.x \in Nat /\ c.x <= MaxCoordinate(format) => StoredMinutia(c, format).x = c.x
         /\ StoredMinutia(c, format).angle =
              (IF format = "ISO_COMPACT_CARD" THEN c.angle % 64 ELSE c.angle)
         /\ StoredMinutia(c, format).quality = (IF format \in Cards THEN 0 ELSE c.quality)
<1>1. CASE format = "ISO_COMPACT_CARD"
  <2>1. MaxCoordinate(format) = 255 /\ format \in Cards
    BY <1>1 DEF MaxCoordinate, Cards
  <2>2. StoredMinutia(c, format) = [x |-> c.x % 256, angle |-> c.angle % 64, quality |-> 0]
    BY <1>1 DEF StoredMinutia
  <2>3. c.x \in Nat /\ c.x <= 255 => c.x % 256 = c.x
    OBVIOUS
  <2> QED BY <1>1, <2>1, <2>2, <2>3
<1>2. CASE format # "ISO_COMPACT_CARD"
  <2>1. MaxCoordinate(format) = 16383 /\ (format \in Cards <=> format = "ISO_NORMAL_CARD")
    BY <1>2 DEF MaxCoordinate, Cards
  <2>2. StoredMinutia(c, format) =
          [x |-> c.x % 16384, angle |-> c.angle,
           quality |-> IF format = "ISO_NORMAL_CARD" THEN 0 ELSE c.quality]
    BY <1>2 DEF StoredMinutia
  <2>3. c.x \in Nat /\ c.x <= 16383 => c.x % 16384 = c.x
    OBVIOUS
  <2> QED BY <1>2, <2>1, <2>2, <2>3
<1> QED BY <1>1, <1>2

\* The resolution of a view before and after, when the conversion has used res.
Rescaled(old, new, res) ==
  /\ out_type = "ISO_NORMAL_CARD"  => old = res /\ new = 1000
  /\ out_type = "ISO_COMPACT_CARD" => old = res /\ new = 100
  /\ in_type  = "ISO_NORMAL_CARD"  => old = 1000 /\ new = res
  /\ in_type  = "ISO_COMPACT_CARD" => old = 100 /\ new = res
  /\ in_type \notin Cards /\ out_type \notin Cards => old = new

\* The fields of what is made of a minutia.
LEMMA ConvertedFields ==
  ASSUME NEW m, m.x \in Nat, NEW res \in Nat, NEW wraps, NEW c \in ConvertMinutia(m, res, wraps)
  PROVE  /\ in_type \in Ansis /\ out_type = "ISO_COMPACT_CARD" =>
              /\ c.x \in Coordinate(m.x * 100, res, wraps)
              /\ c.angle = AnsiAngleToCompact(m.angle)
         /\ in_type \in Ansis /\ out_type # "ISO_COMPACT_CARD" =>
              /\ IF out_type = "ISO_NORMAL_CARD" THEN c.x \in Coordinate(m.x * 1000, res, wraps)
                                                 ELSE c.x = m.x
              /\ c.angle = AnsiAngleToIso(m.angle, wraps)
              /\ c.quality = IF in_type = "ANSI07" /\ m.quality \in {255, 254}
                               THEN 0 ELSE m.quality
         /\ in_type = "ISO_COMPACT_CARD" =>
              /\ c.x \in Coordinate(m.x * res, 100, wraps)
              /\ c.angle = CompactAngleToAnsi(m.angle) /\ c.quality = 0
         /\ in_type \notin Ansis /\ in_type # "ISO_COMPACT_CARD" =>
              /\ IF in_type = "ISO_NORMAL_CARD" THEN c.x \in Coordinate(m.x * res, 1000, wraps)
                                                ELSE c.x = m.x
              /\ c.angle = IsoAngleToAnsi(m.angle)
              /\ c.quality = IF out_type = "ANSI07" /\ m.quality = 0 THEN 254 ELSE m.quality
<1>1. 100 * m.x = m.x * 100 /\ 1000 * m.x = m.x * 1000
  OBVIOUS
<1>2. ASSUME in_type \in Ansis, out_type = "ISO_COMPACT_CARD"
      PROVE  /\ c.x \in Coordinate(m.x * 100, res, wraps)
             /\ c.angle = AnsiAngleToCompact(m.angle)
  <2>1. c \in AnsiToCompact(m, res, wraps)
    BY <1>2 DEF ConvertMinutia, Ansis
  <2> QED BY <1>1, <2>1 DEF AnsiToCompact
<1>3. ASSUME in_type \in Ansis, out_type # "ISO_COMPACT_CARD"
      PROVE  /\ IF out_type = "ISO_NORMAL_CARD" THEN c.x \in Coordinate(m.x * 1000, res, wraps)
                                                ELSE c.x = m.x
             /\ c.angle = AnsiAngleToIso(m.angle, wraps)
             /\ c.quality = IF in_type = "ANSI07" /\ m.quality \in {255, 254}
                              THEN 0 ELSE m.quality
  <2>1. c \in AnsiToIso(m, res, wraps)
    BY <1>3 DEF ConvertMinutia, Ansis
  <2> QED BY <1>1, <2>1 DEF AnsiToIso, FMD_FAILED_MINUTIA_QUALITY,
             FMD_NOATTTEMPT_MINUTIA_QUALITY, FMD_UNKNOWN_MINUTIA_QUALITY
<1>4. ASSUME in_type = "ISO_COMPACT_CARD"
      PROVE  /\ c.x \in Coordinate(m.x * res, 100, wraps)
             /\ c.angle = CompactAngleToAnsi(m.angle) /\ c.quality = 0
  <2>1. c \in CompactToAnsi(m, res, wraps)
    BY <1>4 DEF ConvertMinutia, Ansis
  <2> QED BY <2>1 DEF CompactToAnsi, FMD_UNKNOWN_MINUTIA_QUALITY
<1>5. ASSUME in_type \notin Ansis, in_type # "ISO_COMPACT_CARD"
      PROVE  /\ IF in_type = "ISO_NORMAL_CARD" THEN c.x \in Coordinate(m.x * res, 1000, wraps)
                                               ELSE c.x = m.x
             /\ c.angle = IsoAngleToAnsi(m.angle)
             /\ c.quality = IF out_type = "ANSI07" /\ m.quality = 0 THEN 254 ELSE m.quality
  <2>1. c \in IsoToAnsi(m, res, wraps)
    BY <1>5 DEF ConvertMinutia
  <2> QED BY <2>1 DEF IsoToAnsi, FMD_NOATTTEMPT_MINUTIA_QUALITY, FMD_UNKNOWN_MINUTIA_QUALITY
<1> QED BY <1>2, <1>3, <1>4, <1>5

\* A conversion that there is.
Convertible ==
  /\ in_type \in AllFormats /\ out_type \in AllFormats /\ in_type # out_type
  /\ ~ Unsupported(out_type) /\ ~ {in_type, out_type} \subseteq Ansis

\* A conversion is from one side to the other.
LEMMA TwoSides ==
  ASSUME Convertible
  PROVE  \/ in_type \in Ansis /\ out_type \in Isos
         \/ in_type \in Isos /\ out_type \in Ansis
  BY DEF Convertible, Unsupported, AllFormats, Isos, Ansis, Cards

\* A conversion keeps the place and the direction.
LEMMA ConversionKeeps ==
  ASSUME Convertible, NEW m \in Minutiae(in_type), NEW res \in USHORT, NEW wraps \in BOOLEAN,
         NEW c \in ConvertMinutia(m, res, wraps), NEW old \in Nat, NEW new \in Nat,
         Rescaled(old, new, res)
  PROVE  Keeps(m, StoredMinutia(c, out_type), old, new, in_type, out_type)
<1> DEFINE s == StoredMinutia(c, out_type)
<1>1. m.x \in Nat /\ m.angle \in UCHAR /\ m.x <= MaxCoordinate(in_type)
  BY MinutiaTypes
<1>2. res \in Nat /\ in_type \in AllFormats /\ out_type \in AllFormats
  BY Ushorts DEF Convertible
<1>3. c \in MadeMinutiae
  BY <1>2, ConvertMinutiaFits
<1>4. /\ c.x \in Nat /\ c.x <= MaxCoordinate(out_type) => s.x = c.x
      /\ s.angle = (IF out_type = "ISO_COMPACT_CARD" THEN c.angle % 64 ELSE c.angle)
  BY <1>2, <1>3, StoredFields
<1> HIDE DEF s
<1>5. CASE in_type \in Ansis /\ out_type = "ISO_COMPACT_CARD"
  <2>1. /\ c.x \in Coordinate(m.x * 100, res, wraps) /\ c.angle = AnsiAngleToCompact(m.angle)
    BY <1>1, <1>2, <1>5, ConvertedFields
  <2>2. old = res /\ new = 100
    BY <1>5 DEF Rescaled
  <2>3. PlaceKept(At(m, old), At(s, new), out_type)
    BY <1>1, <1>2, <1>4, <2>1, <2>2, ConvertedCoordinate
  <2>4. ASSUME m.angle <= MaxAngle(in_type)
        PROVE  Turned(m.angle, s.angle, in_type, out_type)
    <3>1. m.angle \in 0 .. 179
      BY <1>1, <1>5, <2>4, Bytes8 DEF MaxAngle
    <3>2. c.angle \in 0 .. 63
      BY <1>1, <2>1, AnglesFit
    <3>3. s.angle = c.angle
      BY <1>4, <1>5, <3>2
    <3> QED BY <1>5, <2>1, <3>1, <3>3, AnsiToCompactTurns
  <2> QED BY <2>3, <2>4 DEF Keeps, s
<1>6. CASE in_type \in Ansis /\ out_type \in {"ISO", "ISO_NORMAL_CARD"}
  <2>1. /\ IF out_type = "ISO_NORMAL_CARD" THEN c.x \in Coordinate(m.x * 1000, res, wraps)
                                           ELSE c.x = m.x
        /\ c.angle = AnsiAngleToIso(m.angle, wraps)
    BY <1>1, <1>2, <1>6, ConvertedFields
  <2>2. PlaceKept(At(m, old), At(s, new), out_type)
    <3>1. CASE out_type = "ISO_NORMAL_CARD"
      <4>1. old = res /\ new = 1000
        BY <3>1 DEF Rescaled
      <4> QED BY <1>1, <1>2, <1>4, <2>1, <3>1, <4>1, ConvertedCoordinate
    <3>2. CASE out_type = "ISO"
      <4>1. old = new
        BY <1>6, <3>2 DEF Rescaled, Ansis, Cards
      <4>2. c.x = m.x /\ MaxCoordinate(out_type) = MaxCoordinate(in_type)
        BY <1>6, <2>1, <3>2 DEF MaxCoordinate, Ansis
      <4>3. s.x = m.x
        BY <1>1, <1>4, <4>2
      <4> QED BY <1>1, <4>1, <4>3, SameCoordinate
    <3> QED BY <1>6, <3>1, <3>2
  <2>3. ASSUME m.angle <= MaxAngle(in_type)
        PROVE  Turned(m.angle, s.angle, in_type, out_type)
    <3>1. m.angle \in 0 .. 179
      BY <1>1, <1>6, <2>3, Bytes8 DEF MaxAngle
    <3>2. s.angle = c.angle
      BY <1>4, <1>6
    <3> QED BY <1>6, <2>1, <3>1, <3>2, AnsiToIsoTurns
  <2> QED BY <2>2, <2>3 DEF Keeps, s
<1>7. CASE in_type = "ISO_COMPACT_CARD" /\ out_type \in Ansis
  <2>1. c.x \in Coordinate(m.x * res, 100, wraps) /\ c.angle = CompactAngleToAnsi(m.angle)
    BY <1>1, <1>2, <1>7, ConvertedFields
  <2>2. old = 100 /\ new = res
    BY <1>7 DEF Rescaled, Ansis, Cards
  <2>3. PlaceKept(At(m, old), At(s, new), out_type)
    BY <1>1, <1>2, <1>4, <2>1, <2>2, ConvertedCoordinate
  <2>4. m.angle \in 0 .. 63
    BY <1>7, MinutiaTypes
  <2>5. s.angle = c.angle
    BY <1>4, <1>7 DEF Ansis
  <2>6. Turned(m.angle, s.angle, in_type, out_type)
    BY <1>7, <2>1, <2>4, <2>5, CompactToAnsiTurns
  <2> QED BY <2>3, <2>6 DEF Keeps, s
<1>8. CASE in_type \in {"ISO", "ISO_NORMAL_CARD"} /\ out_type \in Ansis
  <2>1. /\ IF in_type = "ISO_NORMAL_CARD" THEN c.x \in Coordinate(m.x * res, 1000, wraps)
                                          ELSE c.x = m.x
        /\ c.angle = IsoAngleToAnsi(m.angle)
    BY <1>1, <1>2, <1>8, ConvertedFields DEF Ansis
  <2>2. PlaceKept(At(m, old), At(s, new), out_type)
    <3>1. CASE in_type = "ISO_NORMAL_CARD"
      <4>1. old = 1000 /\ new = res
        BY <1>8, <3>1 DEF Rescaled, Ansis, Cards
      <4> QED BY <1>1, <1>2, <1>4, <2>1, <3>1, <4>1, ConvertedCoordinate
    <3>2. CASE in_type = "ISO"
      <4>1. old = new
        BY <1>8, <3>2 DEF Rescaled, Ansis, Cards
      <4>2. c.x = m.x /\ MaxCoordinate(out_type) = MaxCoordinate(in_type)
        BY <1>8, <2>1, <3>2 DEF MaxCoordinate, Ansis
      <4>3. s.x = m.x
        BY <1>1, <1>4, <4>2
      <4> QED BY <1>1, <4>1, <4>3, SameCoordinate
    <3> QED BY <1>8, <3>1, <3>2
  <2>3. s.angle = c.angle
    BY <1>4, <1>8 DEF Ansis
  <2>4. Turned(m.angle, s.angle, in_type, out_type)
    BY <1>1, <1>8, <2>1, <2>3, IsoToAnsiTurns
  <2> QED BY <2>2, <2>4 DEF Keeps, s
<1>9. \/ in_type \in Ansis /\ out_type = "ISO_COMPACT_CARD"
      \/ in_type \in Ansis /\ out_type \in {"ISO", "ISO_NORMAL_CARD"}
      \/ in_type = "ISO_COMPACT_CARD" /\ out_type \in Ansis
      \/ in_type \in {"ISO", "ISO_NORMAL_CARD"} /\ out_type \in Ansis
  BY TwoSides DEF Isos, Cards
<1> QED BY <1>5, <1>6, <1>7, <1>8, <1>9

\* A coordinate that is converted and fits is one of the nearest.
LEMMA ConvertedIsNearest ==
  ASSUME NEW m, m.x \in Nat, NEW from \in Nat, NEW target \in Nat, NEW wraps \in BOOLEAN,
         NEW c, c.x \in Coordinate(m.x * target, from, wraps), NEW to,
         NEW s, c.x \in Nat /\ c.x <= MaxCoordinate(to) => s.x = c.x,
         FitsField(At(m, from), target, to)
  PROVE  s.x \in Nearest(m.x * target, from)
<1> DEFINE n == m.x * target
<1>1. n \in Nat
  OBVIOUS
<1>2. MaxCoordinate(to) \in Nat /\ MaxCoordinate(to) <= USHRT_MAX
  BY Ushorts DEF MaxCoordinate
<1>3. from > 0 /\ Round(n, from) <= MaxCoordinate(to) /\ c.x \in Coordinate(n, from, wraps)
  BY DEF FitsField, At
<1> HIDE DEF n
<1>4. c.x \in Nearest(n, from) /\ c.x \in Nat /\ c.x <= MaxCoordinate(to)
  BY <1>1, <1>2, <1>3, CoordinateIsNearest
<1> QED BY <1>4 DEF n

\* What a conversion makes exactly.
LEMMA ConversionMakes ==
  ASSUME Convertible, NEW m \in Minutiae(in_type), NEW res \in USHORT, NEW wraps \in BOOLEAN,
         NEW c \in ConvertMinutia(m, res, wraps), NEW old \in Nat, NEW new \in Nat,
         Rescaled(old, new, res), in_type \in Cards => res = iso_res
  PROVE  Becomes(m, StoredMinutia(c, out_type), old, new, in_type, out_type, iso_res)
<1> DEFINE s == StoredMinutia(c, out_type)
<1>1. m.x \in Nat /\ m.angle \in UCHAR /\ m.x <= MaxCoordinate(in_type)
      /\ (in_type \in Cards => m.quality = 0)
  BY MinutiaTypes
<1>2. res \in Nat /\ in_type \in AllFormats /\ out_type \in AllFormats /\ in_type # out_type
  BY Ushorts DEF Convertible
<1>3. c \in MadeMinutiae
  BY <1>2, ConvertMinutiaFits
<1>4. /\ c.x \in Nat /\ c.x <= MaxCoordinate(out_type) => s.x = c.x
      /\ s.angle = (IF out_type = "ISO_COMPACT_CARD" THEN c.angle % 64 ELSE c.angle)
      /\ s.quality = (IF out_type \in Cards THEN 0 ELSE c.quality)
  BY <1>2, <1>3, StoredFields
<1> HIDE DEF s
<1>5. \/ in_type \in Ansis /\ out_type \in Isos
      \/ in_type \in Isos /\ out_type \in Ansis
  BY TwoSides
<1>6. s.angle \in AnglesMade(m.angle, in_type, out_type)
  <2>1. CASE in_type \in Ansis /\ out_type = "ISO_COMPACT_CARD"
    <3>1. c.angle = AnsiAngleToCompact(m.angle)
      BY <1>1, <1>2, <2>1, ConvertedFields
    <3>2. c.angle \in 0 .. 63
      BY <1>1, <3>1, AnglesFit
    <3>3. s.angle = c.angle
      BY <1>4, <2>1, <3>2
    <3> QED BY <2>1, <3>1, <3>3 DEF AnglesMade
  <2>2. CASE in_type \in Ansis /\ out_type # "ISO_COMPACT_CARD"
    <3>1. c.angle = AnsiAngleToIso(m.angle, wraps)
      BY <1>1, <1>2, <2>2, ConvertedFields
    <3> QED BY <1>4, <2>2, <3>1 DEF AnglesMade
  <2>3. CASE in_type \notin Ansis
    <3>1. out_type # "ISO_COMPACT_CARD"
      BY <1>5, <2>3 DEF Ansis
    <3>2. c.angle = IF in_type = "ISO_COMPACT_CARD" THEN CompactAngleToAnsi(m.angle)
                                                    ELSE IsoAngleToAnsi(m.angle)
      BY <1>1, <1>2, <2>3, ConvertedFields
    <3> QED BY <1>4, <2>3, <3>1, <3>2 DEF AnglesMade
  <2> QED BY <2>1, <2>2, <2>3
<1>7. s.quality = QualityMade(m.quality, in_type, out_type)
  <2>1. CASE out_type \in Cards
    BY <1>4, <2>1 DEF QualityMade
  <2>2. CASE out_type \notin Cards /\ in_type \in Ansis
    <3>1. out_type # "ISO_COMPACT_CARD" /\ out_type # "ANSI07" /\ in_type # "ISO_COMPACT_CARD"
      BY <1>5, <2>2 DEF Cards, Ansis, Isos
    <3>2. c.quality = IF in_type = "ANSI07" /\ m.quality \in {255, 254} THEN 0 ELSE m.quality
      BY <1>1, <1>2, <2>2, <3>1, ConvertedFields
    <3> QED BY <1>4, <2>2, <3>1, <3>2 DEF QualityMade
  <2>3. CASE out_type \notin Cards /\ in_type = "ISO_COMPACT_CARD"
    <3>1. c.quality = 0
      BY <1>1, <1>2, <2>3, ConvertedFields
    <3> QED BY <1>4, <2>3, <3>1 DEF QualityMade
  <2>4. CASE out_type \notin Cards /\ in_type \notin Ansis /\ in_type # "ISO_COMPACT_CARD"
    <3>1. c.quality = IF out_type = "ANSI07" /\ m.quality = 0 THEN 254 ELSE m.quality
      BY <1>1, <1>2, <2>4, ConvertedFields
    <3> QED BY <1>4, <2>4, <3>1 DEF QualityMade, Ansis
  <2> QED BY <2>1, <2>2, <2>3, <2>4
<1>8. ASSUME in_type \notin Cards, out_type \notin Cards PROVE s.x = m.x /\ old = new
  <2>1. old = new
    BY <1>8 DEF Rescaled
  <2>2. c.x = m.x
    <3>1. /\ out_type # "ISO_COMPACT_CARD" /\ out_type # "ISO_NORMAL_CARD"
          /\ in_type # "ISO_COMPACT_CARD" /\ in_type # "ISO_NORMAL_CARD"
      BY <1>8 DEF Cards
    <3> QED BY <1>1, <1>2, <3>1, ConvertedFields
  <2>3. MaxCoordinate(out_type) = MaxCoordinate(in_type)
    BY <1>8 DEF MaxCoordinate, Cards
  <2> QED BY <1>1, <1>4, <2>1, <2>2, <2>3
<1>9. /\ in_type \in Cards => old = UnitsOf(in_type) /\ new = iso_res /\ new = res
      /\ out_type \in Cards => old = res /\ new = UnitsOf(out_type)
  BY DEF Rescaled, UnitsOf, Cards
<1>10. ASSUME in_type \in Cards \/ out_type \in Cards, FitsField(At(m, old), new, out_type)
       PROVE  s.x \in Nearest(m.x * new, old)
  <2>1. c.x \in Coordinate(m.x * new, old, wraps)
    <3>1. CASE in_type \in Cards
      <4>1. in_type \notin Ansis
        BY <3>1 DEF Cards, Ansis
      <4>2. CASE in_type = "ISO_COMPACT_CARD"
        <5>1. old = 100 /\ new = res
          BY <1>9, <3>1, <4>2 DEF UnitsOf
        <5> QED BY <1>1, <1>2, <4>2, <5>1, ConvertedFields
      <4>3. CASE in_type = "ISO_NORMAL_CARD"
        <5>1. old = 1000 /\ new = res
          BY <1>9, <3>1, <4>3 DEF UnitsOf
        <5> QED BY <1>1, <1>2, <4>1, <4>3, <5>1, ConvertedFields
      <4> QED BY <3>1, <4>2, <4>3 DEF Cards
    <3>2. CASE out_type \in Cards
      <4>1. in_type \in Ansis
        BY <1>5, <3>2 DEF Cards, Ansis
      <4>2. CASE out_type = "ISO_COMPACT_CARD"
        <5>1. old = res /\ new = 100
          BY <1>9, <3>2, <4>2 DEF UnitsOf
        <5> QED BY <1>1, <1>2, <4>1, <4>2, <5>1, ConvertedFields
      <4>3. CASE out_type = "ISO_NORMAL_CARD"
        <5>1. old = res /\ new = 1000
          BY <1>9, <3>2, <4>3 DEF UnitsOf
        <5> QED BY <1>1, <1>2, <4>1, <4>3, <5>1, ConvertedFields
      <4> QED BY <3>2, <4>2, <4>3 DEF Cards
    <3> QED BY <1>10, <3>1, <3>2
  <2> QED BY <1>1, <1>4, <1>10, <2>1, ConvertedIsNearest
<1> QED BY <1>2, <1>5, <1>6, <1>7, <1>8, <1>9, <1>10 DEF Becomes, s

\* And makes something legal of what is legal.
LEMMA ConversionIsLegal ==
  ASSUME Convertible, NEW m \in Minutiae(in_type), LegalIn(m, in_type),
         NEW res \in USHORT, NEW wraps \in BOOLEAN, NEW c \in ConvertMinutia(m, res, wraps)
  PROVE  LegalIn(StoredMinutia(c, out_type), out_type)
<1> DEFINE s == StoredMinutia(c, out_type)
<1>1. /\ m.x \in Nat /\ m.angle \in UCHAR /\ m.quality \in Qualities(in_type)
      /\ in_type = "ISO_COMPACT_CARD" => m.angle \in 0 .. 63
  BY MinutiaTypes DEF LegalIn
<1>2. res \in Nat /\ in_type \in AllFormats /\ out_type \in AllFormats
  BY Ushorts DEF Convertible
<1>3. c \in MadeMinutiae
  BY <1>2, ConvertMinutiaFits
<1>4. /\ s.angle = (IF out_type = "ISO_COMPACT_CARD" THEN c.angle % 64 ELSE c.angle)
      /\ s.quality = (IF out_type \in Cards THEN 0 ELSE c.quality)
  BY <1>2, <1>3, StoredFields
<1> HIDE DEF s
<1>5. 0 \in Qualities(out_type) /\ 0 .. 100 \subseteq Qualities(out_type)
  BY DEF Qualities
<1>6. CASE in_type \in Ansis /\ out_type \in Isos
  <2>1. s.angle <= MaxAngle(out_type)
    <3>1. CASE out_type = "ISO_COMPACT_CARD"
      <4>1. c.angle = AnsiAngleToCompact(m.angle)
        BY <1>1, <1>2, <1>6, <3>1, ConvertedFields
      <4>2. c.angle \in 0 .. 63
        BY <1>1, <4>1, AnglesFit
      <4>3. s.angle = c.angle /\ MaxAngle(out_type) = 63
        BY <1>4, <3>1, <4>2 DEF MaxAngle, Ansis
      <4> QED BY <4>2, <4>3
    <3>2. CASE out_type # "ISO_COMPACT_CARD"
      <4>1. MaxAngle(out_type) = 255
        BY <1>6, <3>2 DEF MaxAngle, Ansis, Isos, Cards
      <4>2. s.angle \in UCHAR
        BY <1>3, <1>4, <3>2 DEF MadeMinutiae
      <4> QED BY <4>1, <4>2, Bytes8
    <3> QED BY <3>1, <3>2
  <2>2. s.quality \in Qualities(out_type)
    <3>1. CASE out_type \in Cards
      BY <1>4, <1>5, <3>1
    <3>2. CASE out_type \notin Cards
      <4>1. /\ out_type # "ISO_COMPACT_CARD"
            /\ c.quality = IF in_type = "ANSI07" /\ m.quality \in {255, 254}
                             THEN 0 ELSE m.quality
        BY <1>1, <1>2, <1>6, <3>2, ConvertedFields DEF Cards
      <4>2. c.quality \in 0 .. 100
        BY <1>1, <1>6, <4>1 DEF Qualities, Ansis
      <4> QED BY <1>4, <1>5, <3>2, <4>2
    <3> QED BY <3>1, <3>2
  <2> QED BY <2>1, <2>2 DEF LegalIn, s
<1>7. CASE in_type \in Isos /\ out_type \in Ansis
  <2>1. out_type # "ISO_COMPACT_CARD" /\ out_type \notin Cards /\ MaxAngle(out_type) = 179
        /\ in_type \notin Ansis
    BY <1>7 DEF Ansis, Cards, MaxAngle, Isos
  <2>2. CASE in_type = "ISO_COMPACT_CARD"
    <3>1. c.angle = CompactAngleToAnsi(m.angle) /\ c.quality = 0
      BY <1>1, <1>2, <2>2, ConvertedFields
    <3>2. c.angle \in 0 .. 179
      BY <1>1, <2>2, <3>1, AnglesFit
    <3> QED BY <1>4, <1>5, <2>1, <3>1, <3>2 DEF LegalIn, s
  <2>3. CASE in_type # "ISO_COMPACT_CARD"
    <3>1. /\ c.angle = IsoAngleToAnsi(m.angle)
          /\ c.quality = IF out_type = "ANSI07" /\ m.quality = 0 THEN 254 ELSE m.quality
      BY <1>1, <1>2, <2>1, <2>3, ConvertedFields
    <3>2. c.angle \in 0 .. 179
      BY <1>1, <3>1, AnglesFit
    <3>3. m.quality \in 0 .. 100
      BY <1>1, <2>1 DEF Qualities, Ansis
    <3>4. c.quality \in Qualities(out_type)
      <4>1. out_type = "ANSI07" => 254 \in Qualities(out_type)
        BY DEF Qualities
      <4> QED BY <1>5, <3>1, <3>3, <4>1
    <3> QED BY <1>4, <2>1, <3>2, <3>4 DEF LegalIn, s
  <2> QED BY <2>2, <2>3
<1> QED BY <1>6, <1>7, TwoSides

-----------------------------------------------------------------------------
(***************************************************************************)
(* The minutiae of all views, in their order.                              *)
(***************************************************************************)

\* What is known when a record is written and no failure has been ignored.
Written ==
  /\ FileOK(file) /\ in_type \in AllFormats /\ out_type \in AllFormats
  /\ file \in FilesOf(in_type) /\ iso_res \in USHORT /\ ReadResolution \in USHORT
  /\ RecordTypeOK(ofmr) /\ ofmr.format_std = out_type /\ Len(ofmr.views) = Len(file.views)
  /\ MadeSoFar /\ ~ Unsupported(out_type) /\ Stored(ofmr) \in FilesOf(out_type)

\* It is known of every record that main writes after a run without failures.
LEMMA IsWritten ==
  ASSUME ConvertInv, pc = "write", ignored = {}
  PROVE  Written
<1>1. /\ FileOK(file) /\ iso_res \in USHORT /\ MadeSoFar /\ Len(ofmr.views) = Len(file.views)
      /\ ~ Unsupported(out_type)
  BY DEF ConvertInv, TypeOK, RecordInv
<1>2. in_type \in AllFormats /\ file \in FilesOf(in_type) /\ ReadResolution \in USHORT
  BY <1>1, FileTypes, ResolutionRead DEF in_type
<1>3. RecordTypeOK(ofmr) /\ ofmr.format_std = out_type /\ Stored(ofmr) \in FilesOf(out_type)
  BY WrittenFits
<1>4. out_type \in AllFormats
  BY <1>3 DEF RecordTypeOK
<1> QED BY <1>1, <1>2, <1>3, <1>4 DEF Written

\* The views of it, before and after.
LEMMA WrittenViews ==
  ASSUME Written, NEW k \in 1 .. Len(file.views)
  PROVE  /\ file.views[k] \in Views(in_type) /\ ofmr.views[k] \in MadeViews
         /\ in_type = out_type => Copied(file.views[k], ofmr.views[k])
         /\ in_type # out_type => Convertible /\ Converted(file.views[k], ofmr.views[k])
<1> DEFINE n == Len(file.views)
<1>1. n \in Nat /\ n > 0 /\ file.views[k] \in Views(in_type)
  BY FileTypes DEF Written, in_type
<1>2. ofmr.views[k] \in MadeViews
  BY DEF Written, RecordTypeOK
<1>3. in_type = out_type => MadeByCopy(n)
  BY DEF Written, MadeSoFar
<1>4. in_type # out_type => MadeByConversion(n)
  BY DEF Written, MadeSoFar
<1> HIDE DEF n
<1>5. in_type = out_type => Copied(file.views[k], ofmr.views[k])
  BY <1>3 DEF MadeByCopy, n
<1>6. in_type # out_type => Converted(file.views[k], ofmr.views[k])
  BY <1>4 DEF MadeByConversion, n
<1>7. in_type # out_type => Convertible
  BY <1>1, <1>4 DEF MadeByConversion, Convertible, Written
<1> QED BY <1>1, <1>2, <1>5, <1>6, <1>7

\* The resolution of a view before and after.
LEMMA DensitiesMatch ==
  ASSUME Written, NEW k \in 1 .. Len(file.views), Resolved(file),
         ~ LosesResolution(in_type, out_type),
         NEW old, old = Density(file, file.views[k]),
         NEW new, new = Density(Stored(ofmr), StoredView(ofmr.views[k], out_type))
  PROVE  /\ in_type = out_type => old = new
         /\ in_type # out_type => Rescaled(old, new, ReadResolution)
<1> DEFINE v == file.views[k]
           w == ofmr.views[k]
           s == StoredView(w, out_type)
           n == Len(file.views)
<1>1. /\ v \in Views(in_type) /\ w \in MadeViews
      /\ in_type = out_type => Copied(v, w)
      /\ in_type # out_type => Convertible /\ Converted(v, w)
  BY WrittenViews
<1>2. s.resolution = IF out_type = "ANSI07" THEN w.resolution ELSE 0
  BY <1>1, StoredViewFits
<1>3. n \in Nat /\ n > 0
  BY FileTypes DEF Written
<1>4. ofmr.resolution = IF in_type = "ANSI07" /\ in_type # out_type
                          THEN file.views[1].resolution ELSE ReadResolution
  BY <1>3 DEF Written, MadeSoFar, MadeByCopy, MadeByConversion
<1>5. out_type \notin Cards /\ out_type # "ANSI07" => Stored(ofmr).resolution = ofmr.resolution
  BY DEF Written, Stored, RecordTypeOK
<1>6. Stored(ofmr).format_std = out_type
  BY DEF Written, FilesOf
<1>7. in_type = "ANSI07" => v.resolution = file.views[1].resolution
  BY FileTypes DEF Written, Resolved, in_type
<1>8. in_type = out_type => w.resolution = v.resolution
  BY <1>1 DEF Copied, Views
<1>9. in_type # out_type => w.resolution = ConvertedResolution(v)
  BY <1>1 DEF Converted
<1>10. old = CASE in_type = "ISO_NORMAL_CARD"  -> 1000
               [] in_type = "ISO_COMPACT_CARD" -> 100
               [] in_type = "ANSI07"           -> v.resolution
               [] OTHER                        -> file.resolution
  BY DEF Density, in_type
<1>11. new = CASE out_type = "ISO_NORMAL_CARD"  -> 1000
               [] out_type = "ISO_COMPACT_CARD" -> 100
               [] out_type = "ANSI07"           -> w.resolution
               [] OTHER                         -> ofmr.resolution
  BY <1>2, <1>5, <1>6 DEF Density, Cards
<1> HIDE DEF v, w, s
<1>12. ReadResolution = IF in_type \in Cards THEN iso_res ELSE file.resolution
  BY DEF ReadResolution
<1>13. in_type \in AllFormats /\ out_type \in AllFormats
  BY DEF Written
<1>14. CASE in_type = out_type
  BY <1>4, <1>8, <1>10, <1>11, <1>12, <1>13, <1>14 DEF AllFormats, Cards
<1>15. CASE in_type # out_type
  <2>1. \/ in_type \in Ansis /\ out_type \in Isos
        \/ in_type \in Isos /\ out_type \in Ansis
    BY <1>1, <1>15, TwoSides
  <2>2. /\ in_type = "ANSI07" => out_type = "ISO"
        /\ in_type = "ISO_COMPACT_CARD" => out_type = "ANSI"
    BY <2>1 DEF LosesResolution, Ansis, Isos, Cards
  <2>3. in_type # "ISO_COMPACT_CARD" /\ in_type \in Isos => w.resolution = ReadResolution
    BY <1>9, <1>15 DEF ConvertedResolution, Isos, Cards
  <2>4. CASE in_type \in Ansis /\ out_type \in Isos
    <3>1. in_type = "ANSI" => old = file.resolution /\ ReadResolution = file.resolution
          /\ ofmr.resolution = ReadResolution
      BY <1>4, <1>10, <1>12 DEF Cards
    <3>2. in_type = "ANSI07" => old = file.views[1].resolution /\ out_type = "ISO"
          /\ ofmr.resolution = file.views[1].resolution
      BY <1>4, <1>7, <1>10, <1>15, <2>2
    <3> QED BY <1>11, <1>15, <2>4, <3>1, <3>2 DEF Rescaled, Ansis, Isos, Cards
  <2>5. CASE in_type \in Isos /\ out_type \in Ansis
    <3>1. ofmr.resolution = ReadResolution
      BY <1>4, <2>5 DEF Isos, Cards
    <3>2. in_type = "ISO_COMPACT_CARD" => new = ReadResolution /\ old = 100
      BY <1>10, <1>11, <2>2, <3>1
    <3>3. in_type = "ISO_NORMAL_CARD" => new = ReadResolution /\ old = 1000
      BY <1>10, <1>11, <2>3, <2>5, <3>1 DEF Ansis
    <3>4. in_type = "ISO" => new = ReadResolution /\ old = ReadResolution
      BY <1>10, <1>11, <1>12, <2>3, <2>5, <3>1 DEF Ansis, Cards
    <3> QED BY <1>15, <2>5, <3>2, <3>3, <3>4 DEF Rescaled, Ansis, Isos, Cards
  <2> QED BY <2>1, <2>4, <2>5
<1> QED BY <1>14, <1>15

\* A minutia with the resolution of its view.
Things == [m : MadeMinutiae, density : USHORT]

\* The minutiae of a view.
PlacedView(f, v) ==
  [j \in DOMAIN v.minutiae |-> [m |-> v.minutiae[j], density |-> Density(f, v)]]

\* The minutiae of a record, view by view.
PlacedViews(f) == [k \in DOMAIN f.views |-> PlacedView(f, f.views[k])]

\* What a minutia and what has become of it have to do with each other.
KeptPairs(from, to, res) ==
  {pair \in Things \X Things :
     /\ Keeps(pair[1].m, pair[2].m, pair[1].density, pair[2].density, from, to)
     /\ Becomes(pair[1].m, pair[2].m, pair[1].density, pair[2].density, from, to, res)}

\* What is wanted of the lists of them.
KeptBetween(f, g, res) ==
  Paired(Placed(f), Placed(g), KeptPairs(f.format_std, g.format_std, res))

\* Resolutions are numbers, and views are lists of placed minutiae.
LEMMA PlacedViewType ==
  ASSUME NEW format \in AllFormats, NEW f \in FilesOf(format), NEW v \in Views(format)
  PROVE  /\ Density(f, v) \in USHORT /\ PlacedView(f, v) \in Seq(Things)
         /\ Len(PlacedView(f, v)) = Len(v.minutiae) /\ Len(v.minutiae) \in Nat
         /\ \A j \in 1 .. Len(v.minutiae) :
              PlacedView(f, v)[j] = [m |-> v.minutiae[j], density |-> Density(f, v)]
<1>1. f.resolution \in USHORT /\ v.resolution \in USHORT
  BY ViewTypes DEF FilesOf
<1>2. 1000 \in USHORT /\ 100 \in USHORT
  BY Ushorts
<1>3. Density(f, v) \in USHORT
  BY <1>1, <1>2 DEF Density
<1>4. /\ v.minutiae \in Seq(MadeMinutiae) /\ Len(v.minutiae) \in Nat
      /\ DOMAIN v.minutiae = 1 .. Len(v.minutiae)
  BY ViewTypes
<1> DEFINE list == PlacedView(f, v)
           d    == Density(f, v)
<1>5. /\ DOMAIN list = 1 .. Len(v.minutiae)
      /\ \A j \in 1 .. Len(v.minutiae) : list[j] = [m |-> v.minutiae[j], density |-> d]
      /\ list = [j \in 1 .. Len(v.minutiae) |-> list[j]]
  BY <1>4 DEF PlacedView
<1> HIDE DEF list, d
<1>6. \A j \in 1 .. Len(v.minutiae) : list[j] \in Things
  <2> SUFFICES ASSUME NEW j \in 1 .. Len(v.minutiae) PROVE list[j] \in Things
    OBVIOUS
  <2>1. v.minutiae[j] \in MadeMinutiae /\ d \in USHORT
    BY <1>3, <1>4 DEF d
  <2>2. \A m \in MadeMinutiae, n \in USHORT : [m |-> m, density |-> n] \in Things
    BY DEF Things
  <2>3. [m |-> v.minutiae[j], density |-> d] \in Things
    BY <2>1, <2>2
  <2> QED BY <1>5, <2>3
<1>7. list \in [1 .. Len(v.minutiae) -> Things]
  BY <1>5, <1>6
<1>8. list \in Seq(Things) /\ Len(list) = Len(v.minutiae)
  BY <1>4, <1>7
<1> QED BY <1>3, <1>4, <1>5, <1>8 DEF list, d

\* Those of all views.
LEMMA PlacedViewsType ==
  ASSUME NEW format \in AllFormats, NEW f \in FilesOf(format)
  PROVE  /\ PlacedViews(f) \in Seq(Seq(Things)) /\ Len(PlacedViews(f)) = Len(f.views)
         /\ Len(f.views) \in Nat /\ Placed(f) = FlattenSeq(PlacedViews(f))
         /\ \A k \in 1 .. Len(f.views) : /\ f.views[k] \in Views(format)
                                         /\ PlacedViews(f)[k] = PlacedView(f, f.views[k])
<1>1. /\ f.views \in Seq(Views(format)) /\ DOMAIN f.views = 1 .. Len(f.views)
      /\ Len(f.views) \in Nat /\ \A k \in 1 .. Len(f.views) : f.views[k] \in Views(format)
  BY DEF FilesOf
<1>2. \A k \in 1 .. Len(f.views) : PlacedView(f, f.views[k]) \in Seq(Things)
  BY <1>1, PlacedViewType
<1>3. PlacedViews(f) \in [1 .. Len(f.views) -> Seq(Things)]
  BY <1>1, <1>2 DEF PlacedViews
<1>4. PlacedViews(f) \in Seq(Seq(Things)) /\ Len(PlacedViews(f)) = Len(f.views)
  BY <1>1, <1>3
<1>5. Placed(f) = FlattenSeq(PlacedViews(f))
  BY DEF Placed, PlacedViews, PlacedView
<1> QED BY <1>1, <1>4, <1>5 DEF PlacedViews

\* What is made of a view, minutia by minutia.
LEMMA MinutiaMade ==
  ASSUME Written, NEW k \in 1 .. Len(file.views)
  PROVE  /\ in_type = out_type => ofmr.views[k].minutiae = file.views[k].minutiae
         /\ in_type # out_type =>
              /\ Len(ofmr.views[k].minutiae) = NumberOfMinutiae(file.views[k])
              /\ \E wraps \in BOOLEAN : \A j \in 1 .. Len(ofmr.views[k].minutiae) :
                   ofmr.views[k].minutiae[j] \in
                     ConvertMinutia(file.views[k].minutiae[j], ReadResolution, wraps)
<1>1. /\ file.views[k] \in Views(in_type)
      /\ in_type = out_type => Copied(file.views[k], ofmr.views[k])
      /\ in_type # out_type => Converted(file.views[k], ofmr.views[k])
  BY WrittenViews
<1>2. in_type = out_type => ofmr.views[k].minutiae = file.views[k].minutiae
  BY <1>1 DEF Copied, Views
<1>3. ASSUME in_type # out_type
      PROVE  /\ Len(ofmr.views[k].minutiae) = NumberOfMinutiae(file.views[k])
             /\ \E wraps \in BOOLEAN : \A j \in 1 .. Len(ofmr.views[k].minutiae) :
                  ofmr.views[k].minutiae[j] \in
                    ConvertMinutia(file.views[k].minutiae[j], ReadResolution, wraps)
  <2>1. PICK wraps \in BOOLEAN :
          ofmr.views[k].minutiae \in ConvertMinutiae(file.views[k], ReadResolution, wraps)
    BY <1>1, <1>3 DEF Converted
  <2>2. /\ Len(ofmr.views[k].minutiae) = NumberOfMinutiae(file.views[k])
        /\ \A j \in 1 .. Len(ofmr.views[k].minutiae) :
             ofmr.views[k].minutiae[j] \in
               ConvertMinutia(file.views[k].minutiae[j], ReadResolution, wraps)
    BY <1>1, <2>1, ConvertMinutiaeFit DEF Written
  <2> QED BY <2>2
<1> QED BY <1>2, <1>3

\* No list of minutiae that is to be converted is longer than its count says.
Counted ==
  in_type # out_type => \A k \in 1 .. Len(file.views) :
                          NumberOfMinutiae(file.views[k]) = Len(file.views[k].minutiae)

\* That is so if no count runs over.
LEMMA CountableIsCounted ==
  ASSUME Written, Countable(file)
  PROVE  Counted
<1> SUFFICES ASSUME NEW k \in 1 .. Len(file.views)
             PROVE  NumberOfMinutiae(file.views[k]) = Len(file.views[k].minutiae)
  BY DEF Counted
<1> PICK v : v = file.views[k]
  OBVIOUS
<1>1. v \in Views(in_type)
  BY WrittenViews
<1>2. Len(v.minutiae) \in Nat
  BY <1>1, ViewTypes
<1>3. k \in DOMAIN file.views
  BY FileTypes DEF Written
<1>4. Len(v.minutiae) <= 255
  BY <1>3 DEF Countable, UCHAR_MAX
<1>5. \A n \in Nat : n <= 255 => n % 256 = n
  OBVIOUS
<1>6. NumberOfMinutiae(v) = Len(v.minutiae) % 256
  BY DEF NumberOfMinutiae, UCHAR_MAX
<1> QED BY <1>2, <1>4, <1>5, <1>6

\* All minutiae of a view that has not too many of them are kept.
LEMMA ViewKept ==
  ASSUME Written, NEW k \in 1 .. Len(file.views), Resolved(file), Counted,
         ~ LosesResolution(in_type, out_type),
         NEW g, g = Stored(ofmr), NEW s, s = StoredView(ofmr.views[k], out_type)
  PROVE  Paired(PlacedView(file, file.views[k]), PlacedView(g, s),
                KeptPairs(in_type, out_type, iso_res))
<1> PICK v : v = file.views[k]
  OBVIOUS
<1> PICK w : w = ofmr.views[k]
  OBVIOUS
<1> DEFINE old == Density(file, v)
           new == Density(g, s)
           R   == KeptPairs(in_type, out_type, iso_res)
<1>0. in_type \in AllFormats /\ out_type \in AllFormats /\ file \in FilesOf(in_type)
      /\ g \in FilesOf(out_type) /\ ReadResolution \in USHORT
  BY DEF Written
<1>1. /\ v \in Views(in_type) /\ w \in MadeViews
      /\ in_type # out_type => Convertible
  BY WrittenViews
<1>2. /\ s \in Views(out_type) /\ Len(s.minutiae) = Len(w.minutiae)
      /\ \A j \in 1 .. Len(w.minutiae) : s.minutiae[j] = StoredMinutia(w.minutiae[j], out_type)
  BY <1>1, StoredViewFits
<1>3. /\ PlacedView(file, v) \in Seq(Things) /\ Len(PlacedView(file, v)) = Len(v.minutiae)
      /\ Len(v.minutiae) \in Nat /\ old \in USHORT
      /\ \A j \in 1 .. Len(v.minutiae) :
           PlacedView(file, v)[j] = [m |-> v.minutiae[j], density |-> old]
  BY <1>0, <1>1, PlacedViewType
<1>4. /\ PlacedView(g, s) \in Seq(Things) /\ new \in USHORT
      /\ Len(PlacedView(g, s)) = Len(s.minutiae)
      /\ \A j \in 1 .. Len(s.minutiae) :
           PlacedView(g, s)[j] = [m |-> s.minutiae[j], density |-> new]
  BY <1>0, <1>2, PlacedViewType
<1>5. old \in Nat /\ new \in Nat
  BY <1>3, <1>4, Ushorts
<1>6. /\ in_type = out_type => old = new
      /\ in_type # out_type => Rescaled(old, new, ReadResolution)
  BY DensitiesMatch
<1>7. in_type # out_type => NumberOfMinutiae(v) = Len(v.minutiae)
  BY DEF Counted
<1> HIDE DEF old, new
<1>8. Len(w.minutiae) = Len(v.minutiae)
  BY <1>7, MinutiaMade
<1>9. ASSUME NEW j \in 1 .. Len(v.minutiae)
      PROVE  /\ Keeps(v.minutiae[j], s.minutiae[j], old, new, in_type, out_type)
             /\ Becomes(v.minutiae[j], s.minutiae[j], old, new, in_type, out_type, iso_res)
  <2>1. v.minutiae[j] \in Minutiae(in_type)
    <3>1. v.minutiae \in Seq(Minutiae(in_type))
      BY <1>1, ViewTypes
    <3> QED BY <3>1
  <2>2. s.minutiae[j] = StoredMinutia(w.minutiae[j], out_type)
    BY <1>2, <1>8
  <2>3. CASE in_type = out_type
    <3>1. w.minutiae = v.minutiae
      BY <2>3, MinutiaMade
    <3>2. old = new /\ s.minutiae[j] = StoredMinutia(v.minutiae[j], in_type)
      BY <1>6, <2>2, <2>3, <3>1
    <3>3. Keeps(v.minutiae[j], StoredMinutia(v.minutiae[j], in_type), old, old,
                in_type, in_type)
      BY <1>0, <1>5, <2>1, CopyKeeps
    <3>4. StoredMinutia(v.minutiae[j], in_type) = v.minutiae[j]
      BY <2>1, CopyIsStored
    <3> QED BY <2>3, <3>2, <3>3, <3>4 DEF Becomes
  <2>4. CASE in_type # out_type
    <3>1. PICK wraps \in BOOLEAN : \A l \in 1 .. Len(w.minutiae) :
                 w.minutiae[l] \in ConvertMinutia(v.minutiae[l], ReadResolution, wraps)
      BY <2>4, MinutiaMade
    <3>2. w.minutiae[j] \in ConvertMinutia(v.minutiae[j], ReadResolution, wraps)
      BY <1>8, <3>1
    <3>3. Convertible /\ Rescaled(old, new, ReadResolution) /\ ReadResolution \in USHORT
      BY <1>0, <1>1, <1>6, <2>4
    <3>4. in_type \in Cards => ReadResolution = iso_res
      BY DEF ReadResolution
    <3> QED BY <1>5, <2>1, <2>2, <3>2, <3>3, <3>4, ConversionKeeps, ConversionMakes
  <2> QED BY <2>3, <2>4
<1>10. ASSUME NEW j \in 1 .. Len(v.minutiae)
       PROVE  <<PlacedView(file, v)[j], PlacedView(g, s)[j]>> \in R
  <2> DEFINE p == PlacedView(file, v)[j]
             q == PlacedView(g, s)[j]
  <2>1. /\ p = [m |-> v.minutiae[j], density |-> old] /\ p \in Things
        /\ q = [m |-> s.minutiae[j], density |-> new] /\ q \in Things
    BY <1>2, <1>3, <1>4, <1>8
  <2> HIDE DEF p, q
  <2>2. /\ Keeps(p.m, q.m, p.density, q.density, in_type, out_type)
        /\ Becomes(p.m, q.m, p.density, q.density, in_type, out_type, iso_res)
    BY <1>9, <2>1
  <2>3. <<p, q>> \in R
    BY <2>1, <2>2 DEF KeptPairs
  <2> QED BY <2>3 DEF p, q
<1> HIDE DEF R
<1>11. Paired(PlacedView(file, v), PlacedView(g, s), R)
  BY <1>2, <1>3, <1>4, <1>8, <1>10 DEF Paired
<1> QED BY <1>11 DEF R

\* What becomes of the views when they are written: a card keeps only the minutiae.
LEMMA StoredShape ==
  ASSUME Written, NEW views, views = StoredViews(ofmr), NEW g, g = Stored(ofmr)
  PROVE  /\ views \in Seq(Views(out_type)) /\ Len(views) = Len(file.views)
         /\ Len(views) \in Nat
         /\ \A k \in 1 .. Len(views) : views[k] = StoredView(ofmr.views[k], out_type)
         /\ g \in FilesOf(out_type) /\ g.format_std = out_type
         /\ out_type \notin Cards => g.views = views
         /\ out_type \in Cards => /\ Len(g.views) = 1
                                  /\ g.views[1].minutiae = AllMinutiae(views)
<1>1. RecordTypeOK(ofmr) /\ ofmr.format_std = out_type /\ Len(ofmr.views) = Len(file.views)
      /\ g \in FilesOf(out_type)
  BY DEF Written
<1>2. /\ views \in Seq(Views(out_type)) /\ Len(views) = Len(ofmr.views) /\ Len(ofmr.views) \in Nat
      /\ \A k \in 1 .. Len(ofmr.views) : views[k] = StoredView(ofmr.views[k], out_type)
  BY <1>1, StoredViewsFit
<1>3. g.format_std = out_type
  BY <1>1 DEF FilesOf
<1>4. out_type \notin Cards => g.views = views
  BY <1>1 DEF Stored, StoredViews, RecordTypeOK
<1>5. ASSUME out_type \in Cards
      PROVE  Len(g.views) = 1 /\ g.views[1].minutiae = AllMinutiae(views)
  <2> DEFINE all == AllMinutiae(views)
             v   == [resolution |-> 0, extended |-> 0, minutiae |-> all]
  <2>1. g.views = <<v>>
    BY <1>1, <1>5 DEF Stored, StoredViews
  <2> HIDE DEF all
  <2> QED BY <2>1 DEF all
<1> QED BY <1>1, <1>2, <1>3, <1>4, <1>5

\* Records that are not cards keep their views, and so the order of their minutiae.
LEMMA KeptInRecord ==
  ASSUME Written, Resolved(file), Counted, ~ LosesResolution(in_type, out_type),
         out_type \notin Cards, NEW g, g = Stored(ofmr)
  PROVE  Paired(Placed(file), Placed(g), KeptPairs(in_type, out_type, iso_res))
<1> PICK views : views = StoredViews(ofmr)
  OBVIOUS
<1>1. /\ views \in Seq(Views(out_type)) /\ Len(views) = Len(file.views)
      /\ \A k \in 1 .. Len(views) : views[k] = StoredView(ofmr.views[k], out_type)
      /\ g \in FilesOf(out_type) /\ g.views = views
  BY StoredShape
<1>2. file \in FilesOf(in_type) /\ in_type \in AllFormats /\ out_type \in AllFormats
  BY DEF Written
<1>3. /\ PlacedViews(file) \in Seq(Seq(Things)) /\ Len(PlacedViews(file)) = Len(file.views)
      /\ Placed(file) = FlattenSeq(PlacedViews(file))
      /\ \A k \in 1 .. Len(file.views) : PlacedViews(file)[k] = PlacedView(file, file.views[k])
  BY <1>2, PlacedViewsType
<1>4. /\ PlacedViews(g) \in Seq(Seq(Things)) /\ Len(PlacedViews(g)) = Len(g.views)
      /\ Placed(g) = FlattenSeq(PlacedViews(g))
      /\ \A k \in 1 .. Len(g.views) : PlacedViews(g)[k] = PlacedView(g, g.views[k])
  BY <1>1, <1>2, PlacedViewsType
<1>5. ASSUME NEW k \in 1 .. Len(file.views)
      PROVE  Paired(PlacedViews(file)[k], PlacedViews(g)[k], KeptPairs(in_type, out_type, iso_res))
  <2>1. g.views[k] = StoredView(ofmr.views[k], out_type)
    BY <1>1
  <2>2. Paired(PlacedView(file, file.views[k]), PlacedView(g, g.views[k]),
               KeptPairs(in_type, out_type, iso_res))
    BY <2>1, ViewKept
  <2>3. PlacedViews(file)[k] = PlacedView(file, file.views[k])
        /\ PlacedViews(g)[k] = PlacedView(g, g.views[k])
    BY <1>1, <1>3, <1>4
  <2> QED BY <2>2, <2>3
<1>6. Paired(FlattenSeq(PlacedViews(file)), FlattenSeq(PlacedViews(g)),
             KeptPairs(in_type, out_type, iso_res))
  BY <1>1, <1>3, <1>4, <1>5, FlattenSeqPairs
<1> QED BY <1>3, <1>4, <1>6

\* A thing and a minutia that is kept with a given resolution.
KeptAt(density, from, to, res) ==
  {pair \in Things \X MadeMinutiae :
     <<pair[1], At(pair[2], density)>> \in KeptPairs(from, to, res)}

\* Cards string the minutiae of all views together, in their order.
LEMMA KeptOnCard ==
  ASSUME Written, Resolved(file), Counted, ~ LosesResolution(in_type, out_type),
         out_type \in Cards, NEW g, g = Stored(ofmr)
  PROVE  Paired(Placed(file), Placed(g), KeptPairs(in_type, out_type, iso_res))
<1> PICK views : views = StoredViews(ofmr)
  OBVIOUS
<1> PICK unit : unit = (IF out_type = "ISO_NORMAL_CARD" THEN 1000 ELSE 100)
  OBVIOUS
<1> DEFINE lists == [k \in DOMAIN views |-> views[k].minutiae]
           all   == AllMinutiae(views)
           card  == g.views[1]
           R     == KeptPairs(in_type, out_type, iso_res)
<1>1. /\ views \in Seq(Views(out_type)) /\ Len(views) = Len(file.views) /\ Len(views) \in Nat
      /\ \A k \in 1 .. Len(views) : views[k] = StoredView(ofmr.views[k], out_type)
      /\ g \in FilesOf(out_type) /\ g.format_std = out_type
      /\ Len(g.views) = 1 /\ g.views[1].minutiae = all
  BY StoredShape
<1>2. file \in FilesOf(in_type) /\ in_type \in AllFormats /\ out_type \in AllFormats
  BY DEF Written
<1>3. /\ PlacedViews(file) \in Seq(Seq(Things)) /\ Len(PlacedViews(file)) = Len(file.views)
      /\ Placed(file) = FlattenSeq(PlacedViews(file))
      /\ \A k \in 1 .. Len(file.views) : /\ file.views[k] \in Views(in_type)
                                         /\ PlacedViews(file)[k] = PlacedView(file, file.views[k])
  BY <1>2, PlacedViewsType
<1>4. \A v : Density(g, v) = unit
  BY <1>1 DEF Density, Cards
<1>5. \A k \in 1 .. Len(views) : views[k] \in Views(out_type)
  BY <1>1
<1>6. /\ DOMAIN lists = 1 .. Len(views)
      /\ \A k \in 1 .. Len(views) : lists[k] = views[k].minutiae
                                    /\ lists[k] \in Seq(MadeMinutiae)
  BY <1>1, <1>5, ViewTypes
<1>7. lists \in Seq(Seq(MadeMinutiae)) /\ Len(lists) = Len(views) /\ all = FlattenSeq(lists)
  <2>1. lists \in [1 .. Len(views) -> Seq(MadeMinutiae)]
    BY <1>1, <1>6
  <2>2. lists \in Seq(Seq(MadeMinutiae)) /\ Len(lists) = Len(views)
    <3> HIDE DEF lists
    <3> QED BY <1>1, <2>1
  <2> QED BY <2>2 DEF AllMinutiae
<1> HIDE DEF lists
<1>8. ASSUME NEW k \in 1 .. Len(file.views)
      PROVE  Paired(PlacedViews(file)[k], lists[k], KeptAt(unit, in_type, out_type, iso_res))
  <2> PICK s : s = views[k]
    OBVIOUS
  <2> PICK from : from = PlacedViews(file)[k]
    OBVIOUS
  <2>1. s = StoredView(ofmr.views[k], out_type) /\ s \in Views(out_type) /\ lists[k] = s.minutiae
        /\ s.minutiae \in Seq(MadeMinutiae)
    BY <1>1, <1>5, <1>6
  <2>2. Paired(PlacedView(file, file.views[k]), PlacedView(g, s), R)
    BY <2>1, ViewKept
  <2>3. Paired(from, PlacedView(g, s), R) /\ from \in Seq(Things)
    BY <1>3, <2>2
  <2>4. /\ Len(PlacedView(g, s)) = Len(s.minutiae)
        /\ \A j \in 1 .. Len(s.minutiae) : PlacedView(g, s)[j] = At(s.minutiae[j], unit)
    BY <1>1, <1>2, <1>4, <2>1, PlacedViewType DEF At
  <2>5. Len(from) = Len(s.minutiae)
    BY <2>3, <2>4 DEF Paired
  <2>6. ASSUME NEW j \in 1 .. Len(from)
        PROVE  <<from[j], s.minutiae[j]>> \in KeptAt(unit, in_type, out_type, iso_res)
    <3>1. from[j] \in Things /\ s.minutiae[j] \in MadeMinutiae
      BY <2>1, <2>3, <2>5
    <3>2. <<from[j], PlacedView(g, s)[j]>> \in R
      BY <2>3 DEF Paired
    <3>3. <<from[j], At(s.minutiae[j], unit)>> \in R
      BY <2>4, <2>5, <3>2
    <3> QED BY <3>1, <3>3 DEF KeptAt
  <2>7. Paired(from, s.minutiae, KeptAt(unit, in_type, out_type, iso_res))
    BY <2>5, <2>6 DEF Paired
  <2> QED BY <2>1, <2>7
<1>9. Paired(Placed(file), all, KeptAt(unit, in_type, out_type, iso_res))
  <2>1. Paired(FlattenSeq(PlacedViews(file)), FlattenSeq(lists),
               KeptAt(unit, in_type, out_type, iso_res))
    BY <1>1, <1>3, <1>7, <1>8, FlattenSeqPairs
  <2> QED BY <1>3, <1>7, <2>1
<1>10. /\ card \in Views(out_type) /\ PlacedViews(g) \in Seq(Seq(Things))
       /\ Len(PlacedViews(g)) = 1 /\ PlacedViews(g)[1] = PlacedView(g, card)
       /\ Placed(g) = FlattenSeq(PlacedViews(g))
  BY <1>1, <1>2, PlacedViewsType
<1>11. /\ PlacedView(g, card) \in Seq(Things) /\ Len(PlacedView(g, card)) = Len(all)
       /\ \A j \in 1 .. Len(all) : PlacedView(g, card)[j] = At(all[j], unit)
  BY <1>1, <1>2, <1>4, <1>10, PlacedViewType DEF At
<1>12. Placed(g) = PlacedView(g, card)
  <2> PICK list : list = PlacedView(g, card)
    OBVIOUS
  <2>1. PlacedViews(g) = <<list>>
    BY <1>10
  <2>2. FlattenSeq(<<list>>) = list
    BY <1>11, FlattenOne
  <2> QED BY <1>10, <2>1, <2>2
<1> HIDE DEF all, card, R
<1>13. \A j \in 1 .. Len(Placed(file)) : <<Placed(file)[j], Placed(g)[j]>> \in R
  <2> TAKE j \in 1 .. Len(Placed(file))
  <2>1. <<Placed(file)[j], all[j]>> \in KeptAt(unit, in_type, out_type, iso_res)
        /\ Len(Placed(file)) = Len(all)
    BY <1>9 DEF Paired
  <2>2. <<Placed(file)[j], At(all[j], unit)>> \in R
    BY <2>1 DEF KeptAt, R
  <2> QED BY <1>11, <1>12, <2>1, <2>2
<1>14. Len(Placed(file)) = Len(Placed(g))
  BY <1>9, <1>11, <1>12 DEF Paired
<1> QED BY <1>13, <1>14 DEF Paired, R

\* Everything in a list of views is legal.
LegalViews(views, format) ==
  \A k \in 1 .. Len(views) : \A j \in 1 .. Len(views[k].minutiae) :
    LegalIn(views[k].minutiae[j], format)

\* It is legal when all minutiae are, strung together.
LEMMA LegalTogether ==
  ASSUME NEW format, NEW views \in Seq(Views(format))
  PROVE  (\A m \in Range(AllMinutiae(views)) : LegalIn(m, format)) <=> LegalViews(views, format)
<1> DEFINE lists == [k \in DOMAIN views |-> views[k].minutiae]
<1>1. /\ Len(views) \in Nat /\ DOMAIN views = 1 .. Len(views)
      /\ \A k \in 1 .. Len(views) : views[k] \in Views(format)
  OBVIOUS
<1>2. /\ DOMAIN lists = 1 .. Len(views)
      /\ \A k \in 1 .. Len(views) :
           /\ lists[k] = views[k].minutiae /\ lists[k] \in Seq(MadeMinutiae)
           /\ DOMAIN lists[k] = 1 .. Len(lists[k])
  BY <1>1, ViewTypes
<1>3. lists \in Seq(Seq(MadeMinutiae)) /\ Len(lists) = Len(views)
      /\ AllMinutiae(views) = FlattenSeq(lists)
  <2>1. lists \in [1 .. Len(views) -> Seq(MadeMinutiae)]
    BY <1>1, <1>2
  <2>2. lists \in Seq(Seq(MadeMinutiae)) /\ Len(lists) = Len(views)
    <3> HIDE DEF lists
    <3> QED BY <1>1, <2>1
  <2> QED BY <2>2 DEF AllMinutiae
<1> HIDE DEF lists
<1>4. \A m : m \in Range(AllMinutiae(views)) <=> \E k \in 1 .. Len(views) : m \in Range(lists[k])
  BY <1>3, FlattenSeqElements
<1>5. ASSUME \A m \in Range(AllMinutiae(views)) : LegalIn(m, format)
      PROVE  LegalViews(views, format)
  <2> SUFFICES ASSUME NEW k \in 1 .. Len(views), NEW j \in 1 .. Len(views[k].minutiae)
               PROVE  LegalIn(views[k].minutiae[j], format)
    BY DEF LegalViews
  <2>1. lists[k][j] \in Range(lists[k]) /\ lists[k] = views[k].minutiae
    BY <1>2 DEF Range
  <2> QED BY <1>4, <1>5, <2>1
<1>6. ASSUME LegalViews(views, format)
      PROVE  \A m \in Range(AllMinutiae(views)) : LegalIn(m, format)
  <2> TAKE m \in Range(AllMinutiae(views))
  <2>1. PICK k \in 1 .. Len(views) : m \in Range(lists[k])
    BY <1>4
  <2>2. PICK j \in DOMAIN lists[k] : m = lists[k][j]
    BY <2>1 DEF Range
  <2>3. j \in 1 .. Len(views[k].minutiae) /\ m = views[k].minutiae[j]
    BY <1>2, <2>2
  <2> QED BY <1>6, <2>3 DEF LegalViews
<1> QED BY <1>5, <1>6

\* A view of legal minutiae becomes a view of legal ones.
LEMMA LegalView ==
  ASSUME Written, LegalViews(file.views, in_type), NEW k \in 1 .. Len(file.views),
         NEW s, s = StoredView(ofmr.views[k], out_type), NEW j \in 1 .. Len(s.minutiae)
  PROVE  LegalIn(s.minutiae[j], out_type)
<1> PICK v : v = file.views[k]
  OBVIOUS
<1> PICK w : w = ofmr.views[k]
  OBVIOUS
<1>1. /\ v \in Views(in_type) /\ w \in MadeViews
      /\ in_type # out_type => Convertible
  BY WrittenViews
<1>2. /\ Len(s.minutiae) = Len(w.minutiae)
      /\ s.minutiae[j] = StoredMinutia(w.minutiae[j], out_type)
  BY <1>1, StoredViewFits
<1>3. /\ v.minutiae \in Seq(Minutiae(in_type)) /\ Len(v.minutiae) \in Nat
      /\ NumberOfMinutiae(v) \in Nat /\ NumberOfMinutiae(v) <= Len(v.minutiae)
  BY <1>1, ViewTypes
<1>4. \A l \in 1 .. Len(v.minutiae) : LegalIn(v.minutiae[l], in_type)
  BY DEF LegalViews
<1>5. CASE in_type = out_type
  <2>1. w.minutiae = v.minutiae
    BY <1>5, MinutiaMade
  <2>2. v.minutiae[j] \in Minutiae(in_type)
    BY <1>2, <1>3, <2>1
  <2>3. StoredMinutia(v.minutiae[j], in_type) = v.minutiae[j]
    BY <2>2, CopyIsStored
  <2> QED BY <1>2, <1>4, <1>5, <2>1, <2>3
<1>6. CASE in_type # out_type
  <2>1. Len(w.minutiae) = NumberOfMinutiae(v)
    BY <1>6, MinutiaMade
  <2>2. PICK wraps \in BOOLEAN : \A l \in 1 .. Len(w.minutiae) :
               w.minutiae[l] \in ConvertMinutia(v.minutiae[l], ReadResolution, wraps)
    BY <1>6, MinutiaMade
  <2>3. j \in 1 .. Len(w.minutiae) /\ j \in 1 .. Len(v.minutiae)
    BY <1>2, <1>3, <2>1
  <2>4. v.minutiae[j] \in Minutiae(in_type) /\ LegalIn(v.minutiae[j], in_type)
    BY <1>3, <1>4, <2>3
  <2>5. w.minutiae[j] \in ConvertMinutia(v.minutiae[j], ReadResolution, wraps)
    BY <2>2, <2>3
  <2>6. Convertible /\ ReadResolution \in USHORT
    BY <1>1, <1>6 DEF Written
  <2> QED BY <1>2, <2>4, <2>5, <2>6, ConversionIsLegal
<1> QED BY <1>5, <1>6

\* And so does a file.
LEMMA LegalStays ==
  ASSUME Written, Legal(file)
  PROVE  Legal(Stored(ofmr))
<1> PICK g : g = Stored(ofmr)
  OBVIOUS
<1> PICK views : views = StoredViews(ofmr)
  OBVIOUS
<1>1. /\ views \in Seq(Views(out_type)) /\ Len(views) = Len(file.views)
      /\ \A k \in 1 .. Len(views) : views[k] = StoredView(ofmr.views[k], out_type)
      /\ g \in FilesOf(out_type) /\ g.format_std = out_type
      /\ out_type \notin Cards => g.views = views
      /\ out_type \in Cards => Len(g.views) = 1 /\ g.views[1].minutiae = AllMinutiae(views)
  BY StoredShape
<1>2. file.views \in Seq(Views(in_type)) /\ in_type = file.format_std
      /\ g.views \in Seq(Views(out_type))
  BY <1>1 DEF Written, FilesOf, in_type
<1>3. LegalViews(file.views, in_type)
  <2>1. \A m \in Range(AllMinutiae(file.views)) : LegalIn(m, in_type)
    BY <1>2 DEF Legal, LegalIn
  <2> QED BY <1>2, <2>1, LegalTogether
<1>4. LegalViews(views, out_type)
  <2> SUFFICES ASSUME NEW k \in 1 .. Len(views), NEW j \in 1 .. Len(views[k].minutiae)
               PROVE  LegalIn(views[k].minutiae[j], out_type)
    BY DEF LegalViews
  <2> QED BY <1>1, <1>3, LegalView
<1>5. \A m \in Range(AllMinutiae(views)) : LegalIn(m, out_type)
  BY <1>1, <1>4, LegalTogether
<1>6. LegalViews(g.views, out_type)
  <2>1. CASE out_type \notin Cards
    BY <1>1, <1>4, <2>1
  <2>2. CASE out_type \in Cards
    <3> PICK all : all = AllMinutiae(views)
      OBVIOUS
    <3>1. g.views[1] \in Views(out_type) /\ Len(g.views) = 1 /\ g.views[1].minutiae = all
      BY <1>1, <1>2, <2>2
    <3>2. DOMAIN all = 1 .. Len(all)
      BY <3>1, ViewTypes
    <3>3. \A j \in 1 .. Len(all) : LegalIn(all[j], out_type)
      BY <1>5, <3>2 DEF Range
    <3> QED BY <3>1, <3>3 DEF LegalViews
  <2> QED BY <2>1, <2>2
<1>7. \A m \in Range(AllMinutiae(g.views)) : LegalIn(m, out_type)
  BY <1>2, <1>6, LegalTogether
<1> QED BY <1>1, <1>7 DEF Legal, LegalIn

\* What it means for a minutia that it is kept.
LEMMA KeptMeans ==
  ASSUME NEW from, NEW to, NEW res, NEW p, NEW q, <<p, q>> \in KeptPairs(from, to, res)
  PROVE  /\ FitsField(p, q.density, to) => SamePlace(p, q)
         /\ p.m.angle <= MaxAngle(from) => Turned(p.m.angle, q.m.angle, from, to)
<1>1. p \in Things /\ q \in Things /\ Keeps(p.m, q.m, p.density, q.density, from, to)
  BY DEF KeptPairs
<1>2. At(p.m, p.density) = p /\ At(q.m, q.density) = q
  BY <1>1 DEF At, Things
<1>3. PlaceKept(At(p.m, p.density), At(q.m, q.density), to)
  BY <1>1 DEF Keeps
<1>4. PlaceKept(p, q, to)
  BY <1>2, <1>3
<1> QED BY <1>1, <1>4 DEF PlaceKept, Keeps

\* A run that has done everything has kept the minutiae.
LEMMA MinutiaeAfterWrite ==
  ASSUME ConvertInv, ConvertInv', Write
  PROVE  MinutiaeKept'
<1> PICK g : g = Stored(ofmr)
  OBVIOUS
<1> PICK from : from = in_type
  OBVIOUS
<1> PICK to : to = out_type
  OBVIOUS
<1> PICK f : f = file
  OBVIOUS
<1>1. pc = "write" /\ file' = g /\ ignored' = ignored
  BY DEF Write, Exit
<1>2. Input' = f
  BY InputAfterWrite
<1>3. TypeOK'
  BY DEF ConvertInv
<1>4. Done' => ignored = {}
  BY <1>1 DEF Done
<1>5. ASSUME ignored = {}
      PROVE  Written /\ g.format_std = to /\ f.format_std = from
  <2>1. Written
    BY <1>1, <1>5, IsWritten
  <2>2. g.format_std = to
    BY <2>1 DEF Written, FilesOf
  <2> QED BY <2>1, <2>2 DEF in_type
<1>6. ASSUME ignored = {}, Legal(f)
      PROVE  Legal(g)
  BY <1>5, <1>6, LegalStays
<1>7. ASSUME ignored = {}, Countable(f), Resolved(f), ~ LosesResolution(from, to)
      PROVE  Paired(Placed(f), Placed(g), KeptPairs(from, to, iso_res))
  BY <1>5, <1>7, CountableIsCounted, KeptInRecord, KeptOnCard
<1>8. ASSUME NEW p, NEW q, f.format_std = from, g.format_std = to
      PROVE  SameDirection(p, q)' <=> Turned(p.m.angle, q.m.angle, from, to)
  <2>1. AngleUnit(f) = UnitOf(from) /\ AngleUnit(g) = UnitOf(to)
    BY <1>8 DEF AngleUnit, UnitOf
  <2> QED BY <1>1, <1>2, <2>1 DEF SameDirection, Turned
<1>9. Done' /\ Legal(f) => Legal(g)
  BY <1>4, <1>6
<1>10. ASSUME Done', Countable(f), Resolved(f), ~ LosesResolution(f.format_std, g.format_std)
       PROVE  /\ Len(Placed(g)) = Len(Placed(f))
              /\ \A k \in DOMAIN Placed(f) :
                   /\ FitsField(Placed(f)[k], Placed(g)[k].density, g.format_std)
                        => SamePlace(Placed(f)[k], Placed(g)[k])
                   /\ Placed(f)[k].m.angle <= MaxAngle(f.format_std)
                        => SameDirection(Placed(f)[k], Placed(g)[k])'
  <2>1. Written /\ g.format_std = to /\ f.format_std = from
    BY <1>4, <1>5, <1>10
  <2>2. Paired(Placed(f), Placed(g), KeptPairs(from, to, iso_res))
    BY <1>4, <1>7, <1>10, <2>1
  <2>3. DOMAIN Placed(f) = 1 .. Len(Placed(f))
    <3>1. Placed(f) \in Seq(Things)
      <4>1. PlacedViews(f) \in Seq(Seq(Things)) /\ Placed(f) = FlattenSeq(PlacedViews(f))
        BY <2>1, PlacedViewsType DEF Written
      <4> QED BY <4>1, FlattenSeqGrows
    <3> QED BY <3>1
  <2>4. ASSUME NEW k \in DOMAIN Placed(f)
        PROVE  /\ FitsField(Placed(f)[k], Placed(g)[k].density, to)
                    => SamePlace(Placed(f)[k], Placed(g)[k])
               /\ Placed(f)[k].m.angle <= MaxAngle(from)
                    => SameDirection(Placed(f)[k], Placed(g)[k])'
    <3>1. <<Placed(f)[k], Placed(g)[k]>> \in KeptPairs(from, to, iso_res)
      BY <2>2, <2>3 DEF Paired
    <3> QED BY <1>8, <2>1, <3>1, KeptMeans
  <2> QED BY <2>1, <2>2, <2>4 DEF Paired
<1> QED BY <1>1, <1>2, <1>3, <1>9, <1>10 DEF MinutiaeKept

\* MinutiaeKept: a run that has ignored no failure has kept every minutia, its
\* order, its place and its direction, and has made nothing illegal, whatever the
\* resolution, however halves are rounded and what does not fit is cut.
THEOREM MinutiaeKeptHolds == Spec => []MinutiaeKept
<1>1. Init => MinutiaeKept \/ ~ TypeOK
  BY DEF Init, MinutiaeKept, Done
<1>2. ASSUME ConvertInv, ConvertInv', MinutiaeKept, [Next]_vars
      PROVE  MinutiaeKept'
  <2>1. CASE Write
    BY <1>2, <2>1, MinutiaeAfterWrite
  <2>2. TypeOK'
    BY <1>2 DEF ConvertInv
  <2>3. CASE WriteFails
    <3>1. ignored' # {}
      BY <2>3 DEF WriteFails, Exit
    <3> QED BY <2>2, <3>1 DEF MinutiaeKept, Done
  <2>4. CASE Reject \/ Start \/ CopyView \/ ConvertView \/ GiveUp \/ Finish
    <3>1. pc' # "success"
      BY <2>4 DEF Reject, Start, CopyView, ConvertView, GiveUp, Finish
    <3> QED BY <2>2, <3>1 DEF MinutiaeKept, Done
  <2>5. CASE UNCHANGED vars
    <3>1. Input' = Input /\ file' = file /\ Done' = Done
      BY <2>5 DEF vars, Input, Done
    <3> QED BY <1>2, <2>2, <3>1 DEF MinutiaeKept, SameDirection
  <2> QED BY <1>2, <2>1, <2>3, <2>4, <2>5 DEF Next
<1>3. Init /\ ConvertInv => MinutiaeKept
  BY <1>1 DEF ConvertInv
<1> QED BY <1>2, <1>3, ConvertInvHolds, PTL DEF Spec

-----------------------------------------------------------------------------
(***************************************************************************)
(* There and back again.                                                   *)
(***************************************************************************)

\* Multiples of d that are less than d apart are the same.
LEMMA CloseMultiples ==
  ASSUME NEW u \in Int, NEW v \in Int, NEW d \in Nat \ {0},
         u * d - v * d < d, v * d - u * d < d
  PROVE  u = v
<1>1. ASSUME NEW a \in Int, NEW b \in Int, a > b PROVE a * d >= b * d + d
  <2> PICK k \in Nat : a = (b + 1) + k
    <3>1. a - (b + 1) \in Nat
      BY <1>1
    <3> QED BY <3>1
  <2>1. a * d = (b * d + d) + k * d
    OBVIOUS
  <2>2. k * d \in Nat /\ b * d \in Int
    OBVIOUS
  <2>3. a * d \in Int
    OBVIOUS
  <2> QED BY <2>1, <2>2, <2>3
<1>2. u * d \in Int /\ v * d \in Int
  OBVIOUS
<1>3. ~ (u > v) /\ ~ (v > u)
  BY <1>1, <1>2
<1> QED BY <1>3

\* Two different numbers that are the nearest are all of them.
LEMMA NearestTwo ==
  ASSUME NEW n, NEW d, NEW u \in Nearest(n, d), NEW v \in Nearest(n, d), u # v
  PROVE  Cardinality(Nearest(n, d)) = 2
<1>1. Nearest(n, d) = {u} \cup {v}
  BY DEF Nearest
<1>2. IsFiniteSet({u}) /\ Cardinality({u}) = 1
  BY FS_Singleton
<1>3. Cardinality({u} \cup {v}) = Cardinality({u}) + 1
  BY <1>2, FS_AddElement
<1> QED BY <1>1, <1>2, <1>3

\* A coordinate x that was converted from y0, in units a and b to the centimeter,
\* is back after another trip, unless it was halfway between two.
LEMMA TripReturns ==
  ASSUME NEW a \in Nat \ {0}, NEW b \in Nat \ {0}, NEW y0 \in Nat,
         NEW x \in Nearest(y0 * a, b), NEW y \in Nearest(x * b, a), NEW z \in Nearest(y * a, b)
  PROVE  z = x \/ Cardinality(Nearest(y * a, b)) = 2
<1>1. x \in Nat
  <2>1. y0 * a \in Nat
    OBVIOUS
  <2> QED BY <2>1, NearestIsThere
<1>2. y \in Nat
  <2>1. x * b \in Nat
    BY <1>1
  <2> QED BY <2>1, NearestIsThere
<1>3. z \in Nat
  <2>1. y * a \in Nat
    BY <1>2
  <2> QED BY <2>1, NearestIsThere
<1> DEFINE ya0 == y0 * a
           xb == x * b
           ya == y * a
           zb == z * b
<1>4. ya0 \in Nat /\ xb \in Nat /\ ya \in Nat /\ zb \in Nat
  BY <1>1, <1>2, <1>3
<1>5. 2 * (xb - ya0) \in -b .. b /\ 2 * (ya - xb) \in -a .. a /\ 2 * (zb - ya) \in -b .. b
  BY DEF Nearest
<1>6. CASE a < b
  <2>1. zb - xb < b /\ xb - zb < b
    <3> HIDE DEF ya0, xb, ya, zb
    <3> QED BY <1>4, <1>5, <1>6
  <2> QED BY <1>1, <1>3, <2>1, CloseMultiples
<1>7. CASE a = b
  <2>1. x * a = xb
    BY <1>7
  <2>2. ya - xb < a /\ xb - ya < a
    <3> HIDE DEF ya0, xb, ya, zb
    <3> QED BY <1>4, <1>5, <1>7
  <2>3. y = x
    BY <1>1, <1>2, <2>1, <2>2, CloseMultiples
  <2>4. y * b = ya
    BY <1>7
  <2>5. zb - ya < b /\ ya - zb < b
    <3> HIDE DEF ya0, xb, ya, zb
    <3> QED BY <1>4, <1>5, <1>7
  <2>6. z = y
    BY <1>2, <1>3, <2>4, <2>5, CloseMultiples
  <2> QED BY <2>3, <2>6
<1>8. CASE a > b
  <2>1. ya - ya0 < a /\ ya0 - ya < a
    <3> HIDE DEF ya0, xb, ya, zb
    <3> QED BY <1>4, <1>5, <1>8
  <2>2. y = y0
    BY <1>2, <2>1, CloseMultiples
  <2>3. x \in Nearest(y * a, b)
    BY <2>2
  <2> QED BY <2>3, NearestTwo
<1> QED BY <1>6, <1>7, <1>8

\* What two places in the lists of two files have become of each other.
LEMMA BecomesMeans ==
  ASSUME NEW from, NEW to, NEW res, NEW p, NEW q, <<p, q>> \in KeptPairs(from, to, res)
  PROVE  /\ p \in Things /\ q \in Things /\ p.m \in MadeMinutiae /\ q.m \in MadeMinutiae
         /\ p.m.x \in Nat /\ p.m.angle \in UCHAR /\ q.m.x \in Nat /\ q.m.angle \in UCHAR
         /\ p.density \in Nat /\ q.density \in Nat
         /\ Becomes(p.m, q.m, p.density, q.density, from, to, res)
         /\ At(p.m, p.density) = p
<1>1. p \in Things /\ q \in Things /\ Becomes(p.m, q.m, p.density, q.density, from, to, res)
  BY DEF KeptPairs
<1>2. p.m \in MadeMinutiae /\ q.m \in MadeMinutiae /\ p.density \in USHORT /\ q.density \in USHORT
      /\ At(p.m, p.density) = p
  BY <1>1 DEF Things, At
<1>3. p.m.x \in USHORT /\ q.m.x \in USHORT /\ p.m.angle \in UCHAR /\ q.m.angle \in UCHAR
  BY <1>2 DEF MadeMinutiae
<1> QED BY <1>1, <1>2, <1>3, Ushorts

\* An ANSI angle of two degrees is the same ISO angle on every processor.
LEMMA AnsiAngleIsOne ==
  \A a \in 0 .. 179, wraps \in BOOLEAN : AnsiAngleToIso(a, wraps) = AnsiAngleToIso(a, TRUE)
<1>1. \A a \in 0 .. 179 : AnsiAngleToIso(a, FALSE) = AnsiAngleToIso(a, TRUE)
  BY SMTT(60) DEF AnsiAngleToIso, Cast, Round, UCHAR_MAX
<1> QED BY <1>1

\* A trip that another has gone before: two formats, five places of a minutia.
Trips(p0, p1, p2, p3, p4, home, away, res) ==
  /\ home \in AllFormats /\ away \in AllFormats
  /\ home \notin {"ISO", "ISO_NORMAL_CARD"}
  /\ ~ LosesResolution(home, away) /\ ~ LosesResolution(away, home)
  /\ p0.m.angle <= MaxAngle(home)
  /\ <<p0, p1>> \in KeptPairs(home, away, res) /\ FitsField(p0, p1.density, away)
  /\ <<p1, p2>> \in KeptPairs(away, home, res) /\ FitsField(p1, p2.density, home)
  /\ <<p2, p3>> \in KeptPairs(home, away, res) /\ FitsField(p2, p3.density, away)
  /\ <<p3, p4>> \in KeptPairs(away, home, res) /\ FitsField(p3, p4.density, home)

\* A trip is from an ANSI record to another format or from a compact card to one.
LEMMA TripFormats ==
  ASSUME NEW p0, NEW p1, NEW p2, NEW p3, NEW p4, NEW home, NEW away, NEW res,
         Trips(p0, p1, p2, p3, p4, home, away, res), home # away
  PROVE  \/ home = "ANSI" /\ away \in Isos
         \/ home = "ANSI07" /\ away = "ISO"
         \/ home = "ISO_COMPACT_CARD" /\ away = "ANSI"
<1>1. \/ home \in Ansis /\ away \in Isos
      \/ home \in Isos /\ away \in Ansis
  BY BecomesMeans DEF Trips, Becomes
<1> QED BY <1>1 DEF Trips, LosesResolution, Ansis, Isos, Cards

\* The second trip brings every angle back.
LEMMA TripAngle ==
  ASSUME NEW p0, NEW p1, NEW p2, NEW p3, NEW p4, NEW home, NEW away, NEW res,
         Trips(p0, p1, p2, p3, p4, home, away, res), home # away
  PROVE  p4.m.angle = p2.m.angle
<1> DEFINE a0 == p0.m.angle
           a1 == p1.m.angle
           a2 == p2.m.angle
           a3 == p3.m.angle
           a4 == p4.m.angle
<1>1. /\ a1 \in AnglesMade(a0, home, away) /\ a2 \in AnglesMade(a1, away, home)
      /\ a3 \in AnglesMade(a2, home, away) /\ a4 \in AnglesMade(a3, away, home)
      /\ a0 \in UCHAR /\ a0 <= MaxAngle(home) /\ a1 \in UCHAR
  BY BecomesMeans DEF Trips, Becomes
<1>2. \/ home = "ANSI" /\ away \in Isos
      \/ home = "ANSI07" /\ away = "ISO"
      \/ home = "ISO_COMPACT_CARD" /\ away = "ANSI"
  BY TripFormats
<1> HIDE DEF a0, a1, a2, a3, a4
<1>3. a0 \in Nat
  BY <1>1, Bytes8
<1>4. CASE home \in Ansis /\ away \in {"ISO", "ISO_NORMAL_CARD"}
  <2>1. away \notin Ansis /\ away # "ISO_COMPACT_CARD"
    BY <1>4 DEF Ansis
  <2>2. a0 \in 0 .. 179
    BY <1>1, <1>3, <1>4 DEF MaxAngle
  <2>3. a1 = AnsiAngleToIso(a0, TRUE)
    BY <1>1, <1>4, <2>1, <2>2, AnsiAngleIsOne DEF AnglesMade
  <2>4. a2 = IsoAngleToAnsi(a1)
    BY <1>1, <2>1 DEF AnglesMade
  <2>5. a2 \in 0 .. 179 /\ IsoAngleToAnsi(AnsiAngleToIso(a2, TRUE)) = a2
    <3>1. a2 = IsoAngleToAnsi(AnsiAngleToIso(a0, TRUE))
      BY <2>3, <2>4
    <3>2. TRUE \in BOOLEAN
      OBVIOUS
    <3> HIDE <2>3, <2>4
    <3> QED BY <2>2, <3>1, <3>2, AnsiAnglesSettle, Zenon
  <2>6. a3 = AnsiAngleToIso(a2, TRUE)
    BY <1>1, <1>4, <2>1, <2>5, AnsiAngleIsOne DEF AnglesMade
  <2>7. a4 = IsoAngleToAnsi(a3)
    BY <1>1, <2>1 DEF AnglesMade
  <2> QED BY <2>5, <2>6, <2>7 DEF a2, a4
<1>5. CASE home = "ANSI" /\ away = "ISO_COMPACT_CARD"
  <2>1. away \notin Ansis /\ home \in Ansis
    BY <1>5 DEF Ansis
  <2>2. a1 = AnsiAngleToCompact(a0) /\ a2 = CompactAngleToAnsi(a1)
        /\ a3 = AnsiAngleToCompact(a2) /\ a4 = CompactAngleToAnsi(a3)
    BY <1>1, <1>5, <2>1 DEF AnglesMade
  <2>3. a1 \in 0 .. 63
    BY <1>1, <2>2, AnglesFit
  <2>4. a3 = a1
    BY <2>2, <2>3, CompactAnglesReturn
  <2> QED BY <2>2, <2>4 DEF a2, a4
<1>6. CASE home = "ISO_COMPACT_CARD" /\ away = "ANSI"
  <2>1. home \notin Ansis /\ away \in Ansis
    BY <1>6 DEF Ansis
  <2>2. a1 = CompactAngleToAnsi(a0) /\ a2 = AnsiAngleToCompact(a1)
        /\ a3 = CompactAngleToAnsi(a2) /\ a4 = AnsiAngleToCompact(a3)
    BY <1>1, <1>6, <2>1 DEF AnglesMade
  <2>3. a0 \in 0 .. 63
    BY <1>1, <1>3, <1>6, <2>1 DEF MaxAngle
  <2>4. a2 = a0
    BY <2>2, <2>3, CompactAnglesReturn
  <2>5. a4 = a2
    BY <2>2, <2>3, <2>4, CompactAnglesReturn
  <2> QED BY <2>5 DEF a2, a4
<1> QED BY <1>2, <1>4, <1>5, <1>6 DEF Ansis, Isos, Cards

\* And every quality.
LEMMA TripQuality ==
  ASSUME NEW p0, NEW p1, NEW p2, NEW p3, NEW p4, NEW home, NEW away, NEW res,
         Trips(p0, p1, p2, p3, p4, home, away, res), home # away
  PROVE  p4.m.quality = p2.m.quality
<1>1. /\ p1.m.quality = QualityMade(p0.m.quality, home, away)
      /\ p2.m.quality = QualityMade(p1.m.quality, away, home)
      /\ p3.m.quality = QualityMade(p2.m.quality, home, away)
      /\ p4.m.quality = QualityMade(p3.m.quality, away, home)
  BY BecomesMeans DEF Trips, Becomes
<1>2. \/ home = "ANSI" /\ away \in Isos
      \/ home = "ANSI07" /\ away = "ISO"
      \/ home = "ISO_COMPACT_CARD" /\ away = "ANSI"
  BY TripFormats
<1> QED BY <1>1, <1>2 DEF QualityMade, Ansis, Isos, Cards

\* And the resolution.
LEMMA TripDensity ==
  ASSUME NEW p0, NEW p1, NEW p2, NEW p3, NEW p4, NEW home, NEW away, NEW res,
         Trips(p0, p1, p2, p3, p4, home, away, res), home # away
  PROVE  p2.density = p4.density /\ p1.density = p3.density
<1>1. /\ Becomes(p0.m, p1.m, p0.density, p1.density, home, away, res)
      /\ Becomes(p1.m, p2.m, p1.density, p2.density, away, home, res)
      /\ Becomes(p2.m, p3.m, p2.density, p3.density, home, away, res)
      /\ Becomes(p3.m, p4.m, p3.density, p4.density, away, home, res)
  BY BecomesMeans DEF Trips
<1>2. CASE home \notin Cards /\ away \notin Cards
  BY <1>1, <1>2 DEF Becomes
<1>3. CASE home \notin Cards /\ away \in Cards
  BY <1>1, <1>3 DEF Becomes
<1>4. CASE home \in Cards
  BY <1>1, <1>4 DEF Becomes
<1> QED BY <1>2, <1>3, <1>4

\* And every coordinate, unless it is halfway between two.
LEMMA TripPlace ==
  ASSUME NEW p0, NEW p1, NEW p2, NEW p3, NEW p4, NEW home, NEW away, NEW res,
         Trips(p0, p1, p2, p3, p4, home, away, res), home # away
  PROVE  p4.m.x = p2.m.x \/ Halfway(p3, p4.density)
<1>1. /\ Becomes(p1.m, p2.m, p1.density, p2.density, away, home, res)
      /\ Becomes(p2.m, p3.m, p2.density, p3.density, home, away, res)
      /\ Becomes(p3.m, p4.m, p3.density, p4.density, away, home, res)
      /\ At(p1.m, p1.density) = p1 /\ At(p2.m, p2.density) = p2 /\ At(p3.m, p3.density) = p3
      /\ p1.m.x \in Nat /\ p1.density \in Nat /\ p2.density \in Nat
  BY BecomesMeans DEF Trips
<1>2. CASE home \notin Cards /\ away \notin Cards
  BY <1>1, <1>2 DEF Becomes
<1>3. CASE home \in Cards \/ away \in Cards
  <2> DEFINE a == p2.density
             b == p1.density
  <2>1. /\ FitsField(p1, p2.density, home) /\ FitsField(p2, p3.density, away)
        /\ FitsField(p3, p4.density, home)
    BY DEF Trips
  <2>2. /\ p2.m.x \in Nearest(p1.m.x * p2.density, p1.density)
        /\ p3.m.x \in Nearest(p2.m.x * p3.density, p2.density)
        /\ p4.m.x \in Nearest(p3.m.x * p4.density, p3.density)
    BY <1>1, <1>3, <2>1 DEF Becomes
  <2>3. p4.density = a /\ p3.density = b
    BY TripDensity
  <2>4. a \in Nat \ {0} /\ b \in Nat \ {0}
    BY <1>1, <2>1 DEF FitsField
  <2>5. /\ p2.m.x \in Nearest(p1.m.x * a, b)
        /\ p3.m.x \in Nearest(p2.m.x * b, a)
        /\ p4.m.x \in Nearest(p3.m.x * a, b)
    BY <2>2, <2>3
  <2> HIDE DEF a, b
  <2>6. p4.m.x = p2.m.x \/ Cardinality(Nearest(p3.m.x * a, b)) = 2
    BY <1>1, <2>4, <2>5, TripReturns
  <2> QED BY <2>3, <2>6 DEF Halfway
<1> QED BY <1>2, <1>3

\* So the second trip brings everything back.
LEMMA TripSettles ==
  ASSUME NEW p0, NEW p1, NEW p2, NEW p3, NEW p4, NEW home, NEW away, NEW res,
         Trips(p0, p1, p2, p3, p4, home, away, res)
  PROVE  p2 = p4 \/ (Halfway(p3, p4.density) /\ p2.m.angle = p4.m.angle)
<1>1. p2 \in Things /\ p3 \in Things /\ p4 \in Things
  BY BecomesMeans DEF Trips
<1>2. CASE home = away
  <2>1. p3.m = p2.m /\ p2.density = p3.density /\ p4.m = p3.m /\ p3.density = p4.density
    BY <1>2, BecomesMeans DEF Trips, Becomes
  <2> QED BY <1>1, <2>1 DEF Things
<1>3. CASE home # away
  <2>1. p4.m.angle = p2.m.angle /\ p4.m.quality = p2.m.quality /\ p2.density = p4.density
        /\ (p4.m.x = p2.m.x \/ Halfway(p3, p4.density))
    BY <1>3, TripAngle, TripQuality, TripDensity, TripPlace
  <2>2. p4.m.x = p2.m.x => p4 = p2
    <3>1. p2.m \in MadeMinutiae /\ p4.m \in MadeMinutiae
      BY <1>1 DEF Things
    <3>2. p4.m.x = p2.m.x => p4.m = p2.m
      BY <2>1, <3>1 DEF MadeMinutiae
    <3> QED BY <1>1, <2>1, <3>2 DEF Things
  <2> QED BY <2>1, <2>2
<1> QED BY <1>2, <1>3

-----------------------------------------------------------------------------
(***************************************************************************)
(* The files of all runs, one after the other.                             *)
(***************************************************************************)

\* F sums p up.
Summing(F, p, n) == \A k \in 1 .. n : F[k] = IF k = 1 THEN p[1] ELSE F[k - 1] + p[k]

\* Of two sums neither term of which is larger the sum is no larger, and as large
\* only if both terms are.
LEMMA NoLess ==
  ASSUME NEW a \in Nat, NEW b \in Nat, NEW c \in Nat, NEW d \in Nat, a <= b, c <= d
  PROVE  a + c <= b + d /\ (a + c = b + d => a = b /\ c = d)
  OBVIOUS

\* Sums of numbers that are all no larger than others are no larger, and as large
\* only if none is smaller.
LEMMA SumsTogether ==
  ASSUME NEW n \in Nat, n # 0,
         NEW p \in [1 .. n -> Nat], NEW q \in [1 .. n -> Nat],
         NEW F \in [1 .. n -> Nat], NEW G \in [1 .. n -> Nat],
         \A k \in 1 .. n : q[k] <= p[k],
         Summing(F, p, n), Summing(G, q, n),
         G[n] = F[n]
  PROVE  \A k \in 1 .. n : q[k] = p[k]
<1> DEFINE Fewer(m) == /\ G[m] <= F[m]
                       /\ G[m] = F[m] => \A k \in 1 .. m : q[k] = p[k]
           U == {m \in Nat : m \in 1 .. n => Fewer(m)}
<1>1. 0 \in U
  OBVIOUS
<1>2. ASSUME NEW m \in U PROVE m + 1 \in U
  <2> SUFFICES ASSUME m + 1 \in 1 .. n PROVE Fewer(m + 1)
    BY DEF U
  <2>1. /\ m \in Nat /\ (m + 1) - 1 = m /\ (m + 1 = 1 <=> m = 0)
        /\ q[m + 1] <= p[m + 1] /\ p[m + 1] \in Nat /\ q[m + 1] \in Nat
    <3>1. m \in Nat
      BY DEF U
    <3>2. q[m + 1] <= p[m + 1]
      OBVIOUS
    <3>3. p[m + 1] \in Nat
      OBVIOUS
    <3>4. q[m + 1] \in Nat
      OBVIOUS
    <3> HIDE DEF U
    <3>5. (m + 1) - 1 = m /\ (m + 1 = 1 <=> m = 0)
      BY <3>1
    <3> QED BY <3>1, <3>2, <3>3, <3>4, <3>5
  <2>2. CASE m = 0
    <3>1. F[m + 1] = p[m + 1] /\ G[m + 1] = q[m + 1]
      BY <2>1, <2>2 DEF Summing
    <3>2. \A k \in 1 .. m + 1 : k = m + 1
      BY <2>2
    <3> QED BY <2>1, <3>1, <3>2
  <2>3. CASE m # 0
    <3>1. m \in 1 .. n
      BY <2>1, <2>3
    <3>2. F[m] \in Nat /\ G[m] \in Nat /\ G[m] <= F[m]
          /\ (G[m] = F[m] => \A k \in 1 .. m : q[k] = p[k])
      BY <3>1 DEF U
    <3>3. F[m + 1] = F[m] + p[m + 1] /\ G[m + 1] = G[m] + q[m + 1]
      BY <2>1, <2>3 DEF Summing
    <3>4. /\ G[m + 1] <= F[m + 1]
          /\ G[m + 1] = F[m + 1] => G[m] = F[m] /\ q[m + 1] = p[m + 1]
      <4>1. PICK a : a = G[m]
        OBVIOUS
      <4>2. PICK b : b = F[m]
        OBVIOUS
      <4>3. PICK c : c = q[m + 1]
        OBVIOUS
      <4>4. PICK d : d = p[m + 1]
        OBVIOUS
      <4>5. a \in Nat /\ b \in Nat /\ c \in Nat /\ d \in Nat /\ a <= b /\ c <= d
        BY <2>1, <3>2, <4>1, <4>2, <4>3, <4>4
      <4>6. F[m + 1] = b + d /\ G[m + 1] = a + c
        BY <3>3, <4>1, <4>2, <4>3, <4>4
      <4> HIDE DEF U
      <4>7. a + c <= b + d /\ (a + c = b + d => a = b /\ c = d)
        BY <4>5, NoLess
      <4> QED BY <4>1, <4>2, <4>3, <4>4, <4>6, <4>7
    <3>5. \A k \in 1 .. m + 1 : k \in 1 .. m \/ k = m + 1
      BY <2>1
    <3> QED BY <3>2, <3>4, <3>5
  <2> QED BY <2>2, <2>3
<1> HIDE DEF U
<1>3. n \in U
  <2>1. U \subseteq Nat
    BY DEF U
  <2> QED BY <1>1, <1>2, <2>1, Induct
<1>4. Fewer(n)
  <2>1. n \in 1 .. n
    OBVIOUS
  <2> QED BY <1>3, <2>1 DEF U
<1> QED BY <1>4

\* The lists of tt are as many as those of ss, and each of them is no longer.
NoLonger(tt, ss) ==
  /\ Len(ss) = Len(tt)
  /\ \A k \in 1 .. Len(ss) : Len(tt[k]) <= Len(ss[k])

\* So strings of lists that are all no longer than others are as long only if none
\* is shorter.
LEMMA FewerTogether ==
  ASSUME NEW S, NEW T, NEW ss \in Seq(Seq(S)), NEW tt \in Seq(Seq(T)), NoLonger(tt, ss),
         Len(FlattenSeq(tt)) = Len(FlattenSeq(ss))
  PROVE  \A k \in 1 .. Len(ss) : Len(tt[k]) = Len(ss[k])
<1> PICK n : n = Len(ss)
  OBVIOUS
<1>1. n \in Nat /\ n = Len(tt)
  BY DEF NoLonger
<1>2. ASSUME NEW k \in 1 .. n PROVE ss[k] \in Seq(S) /\ tt[k] \in Seq(T)
  <2>1. ss \in [1 .. n -> Seq(S)] /\ tt \in [1 .. n -> Seq(T)]
    BY <1>1, LenProperties
  <2> QED BY <2>1
<1>3. CASE n = 0
  <2>1. 1 .. n = {}
    BY <1>3
  <2> QED BY <2>1
<1>4. CASE n # 0
  <2>1. ss # <<>> /\ tt # <<>>
    BY <1>1, <1>4, EmptySeq
  <2>2. PICK f \in [1 .. n -> Seq(S)] : Strings(f, ss)
    BY StringsExist
  <2>3. PICK g \in [1 .. n -> Seq(T)] : Strings(g, tt)
    BY <1>1, StringsExist
  <2>4. FlattenSeq(ss) = f[n]
    BY <2>1, <2>2, FlattenIsStrung
  <2>5. FlattenSeq(tt) = g[n]
    BY <1>1, <2>1, <2>3, FlattenIsStrung
  <2> DEFINE p == [k \in 1 .. n |-> Len(ss[k])]
             q == [k \in 1 .. n |-> Len(tt[k])]
             F == [k \in 1 .. n |-> Len(f[k])]
             G == [k \in 1 .. n |-> Len(g[k])]
  <2>6. /\ p \in [1 .. n -> Nat] /\ F \in [1 .. n -> Nat]
        /\ Summing(F, p, n)
    <3>1. ASSUME NEW k \in 1 .. n
          PROVE  /\ ss[k] \in Seq(S) /\ f[k] \in Seq(S)
                 /\ Len(ss[k]) \in Nat /\ Len(f[k]) \in Nat
      <4>1. ss[k] \in Seq(S)
        BY <1>2
      <4>2. f[k] \in Seq(S)
        BY <2>2
      <4> QED BY <4>1, <4>2
    <3>2. ASSUME NEW k \in 1 .. n
          PROVE  Len(f[k]) = IF k = 1 THEN Len(ss[1]) ELSE Len(f[k - 1]) + Len(ss[k])
      <4>1. f[k] = IF k = 1 THEN ss[1] ELSE f[k - 1] \o ss[k]
        BY <2>2 DEF Strings
      <4>2. k # 1 => k - 1 \in 1 .. n
        BY <1>1
      <4> QED BY <3>1, <4>1, <4>2
    <3>3. \A k \in 1 .. n : k # 1 => k - 1 \in 1 .. n
      BY <1>1
    <3>4. 1 \in 1 .. n
      BY <1>1, <1>4
    <3>5. p \in [1 .. n -> Nat] /\ F \in [1 .. n -> Nat]
      BY <3>1
    <3>6. ASSUME NEW k \in 1 .. n
          PROVE  F[k] = IF k = 1 THEN p[1] ELSE F[k - 1] + p[k]
      <4>1. F[k] = Len(f[k]) /\ p[k] = Len(ss[k]) /\ p[1] = Len(ss[1])
        BY <3>4
      <4>2. k # 1 => F[k - 1] = Len(f[k - 1])
        BY <3>3
      <4> HIDE DEF F, p
      <4> QED BY <3>2, <4>1, <4>2
    <3> HIDE DEF F, p, G, q
    <3> QED BY <3>5, <3>6 DEF Summing
  <2>7. /\ q \in [1 .. n -> Nat] /\ G \in [1 .. n -> Nat]
        /\ Summing(G, q, n)
    <3>1. ASSUME NEW k \in 1 .. n
          PROVE  /\ tt[k] \in Seq(T) /\ g[k] \in Seq(T)
                 /\ Len(tt[k]) \in Nat /\ Len(g[k]) \in Nat
      <4>1. tt[k] \in Seq(T)
        BY <1>2
      <4>2. g[k] \in Seq(T)
        BY <2>3
      <4> QED BY <4>1, <4>2
    <3>2. ASSUME NEW k \in 1 .. n
          PROVE  Len(g[k]) = IF k = 1 THEN Len(tt[1]) ELSE Len(g[k - 1]) + Len(tt[k])
      <4>1. g[k] = IF k = 1 THEN tt[1] ELSE g[k - 1] \o tt[k]
        BY <1>1, <2>3 DEF Strings
      <4>2. k # 1 => k - 1 \in 1 .. n
        BY <1>1
      <4> QED BY <3>1, <4>1, <4>2
    <3>3. \A k \in 1 .. n : k # 1 => k - 1 \in 1 .. n
      BY <1>1
    <3>4. 1 \in 1 .. n
      BY <1>1, <1>4
    <3>5. q \in [1 .. n -> Nat] /\ G \in [1 .. n -> Nat]
      BY <3>1
    <3>6. ASSUME NEW k \in 1 .. n
          PROVE  G[k] = IF k = 1 THEN q[1] ELSE G[k - 1] + q[k]
      <4>1. G[k] = Len(g[k]) /\ q[k] = Len(tt[k]) /\ q[1] = Len(tt[1])
        BY <3>4
      <4>2. k # 1 => G[k - 1] = Len(g[k - 1])
        BY <3>3
      <4> HIDE DEF G, q
      <4> QED BY <3>2, <4>1, <4>2
    <3> HIDE DEF F, p, G, q
    <3> QED BY <3>5, <3>6 DEF Summing
  <2>8. /\ \A k \in 1 .. n : q[k] <= p[k]
        /\ F[n] = Len(f[n]) /\ G[n] = Len(g[n])
        /\ \A k \in 1 .. n : p[k] = Len(ss[k]) /\ q[k] = Len(tt[k])
    BY <1>1, <1>4 DEF NoLonger
  <2> HIDE DEF p, q, F, G
  <2>9. \A k \in 1 .. n : q[k] = p[k]
    <3>1. G[n] = F[n]
      BY <2>4, <2>5, <2>8
    <3> QED BY <1>1, <1>4, <2>6, <2>7, <2>8, <3>1, SumsTogether
  <2> QED BY <2>8, <2>9
<1> QED BY <1>3, <1>4

\* The file has as many minutiae as the views it was made of together.
LEMMA PlacedNumber ==
  ASSUME Written, NEW g, g = Stored(ofmr)
  PROVE  \E lists \in Seq(Seq(MadeMinutiae)) :
           /\ Len(lists) = Len(file.views)
           /\ \A k \in 1 .. Len(file.views) : Len(lists[k]) = Len(ofmr.views[k].minutiae)
           /\ Len(Placed(g)) = Len(FlattenSeq(lists))
<1> PICK views : views = StoredViews(ofmr)
  OBVIOUS
<1> DEFINE lists == [k \in DOMAIN views |-> views[k].minutiae]
           all   == AllMinutiae(views)
<1>1. /\ views \in Seq(Views(out_type)) /\ Len(views) = Len(file.views) /\ Len(views) \in Nat
      /\ \A k \in 1 .. Len(views) : views[k] = StoredView(ofmr.views[k], out_type)
      /\ g \in FilesOf(out_type) /\ out_type \in AllFormats
      /\ out_type \notin Cards => g.views = views
      /\ out_type \in Cards => Len(g.views) = 1 /\ g.views[1].minutiae = all
  BY StoredShape DEF Written
<1>2. /\ DOMAIN lists = 1 .. Len(views)
      /\ \A k \in 1 .. Len(views) : /\ views[k] \in Views(out_type)
                                    /\ lists[k] = views[k].minutiae
                                    /\ lists[k] \in Seq(MadeMinutiae)
  BY <1>1, ViewTypes
<1>3. lists \in Seq(Seq(MadeMinutiae)) /\ Len(lists) = Len(views) /\ all = FlattenSeq(lists)
  <2>1. lists \in [1 .. Len(views) -> Seq(MadeMinutiae)]
    BY <1>1, <1>2
  <2>2. lists \in Seq(Seq(MadeMinutiae)) /\ Len(lists) = Len(views)
    <3> HIDE DEF lists
    <3> QED BY <1>1, <2>1
  <2> QED BY <2>2 DEF AllMinutiae
<1> HIDE DEF lists, all
<1>4. \A k \in 1 .. Len(file.views) : Len(lists[k]) = Len(ofmr.views[k].minutiae)
  <2> TAKE k \in 1 .. Len(file.views)
  <2>1. ofmr.views[k] \in MadeViews
    BY WrittenViews
  <2>2. Len(StoredView(ofmr.views[k], out_type).minutiae) = Len(ofmr.views[k].minutiae)
    BY <1>1, <2>1, StoredViewFits
  <2> QED BY <1>1, <1>2, <2>2
<1>5. /\ PlacedViews(g) \in Seq(Seq(Things)) /\ Len(PlacedViews(g)) = Len(g.views)
      /\ Placed(g) = FlattenSeq(PlacedViews(g))
      /\ \A k \in 1 .. Len(g.views) : /\ g.views[k] \in Views(out_type)
                                      /\ PlacedViews(g)[k] = PlacedView(g, g.views[k])
  BY <1>1, PlacedViewsType
<1>6. CASE out_type \notin Cards
  <2>1. g.views = views
    BY <1>1, <1>6
  <2> DEFINE R == Things \X MadeMinutiae
  <2>2. ASSUME NEW k \in 1 .. Len(views) PROVE Paired(PlacedViews(g)[k], lists[k], R)
    <3> PICK from : from = PlacedViews(g)[k]
      OBVIOUS
    <3> PICK to : to = lists[k]
      OBVIOUS
    <3>1. from \in Seq(Things) /\ Len(from) = Len(views[k].minutiae)
      BY <1>1, <1>2, <1>5, <2>1, PlacedViewType
    <3>2. to \in Seq(MadeMinutiae) /\ Len(to) = Len(views[k].minutiae)
      BY <1>2
    <3>3. \A j \in 1 .. Len(from) : from[j] \in Things /\ to[j] \in MadeMinutiae
      BY <3>1, <3>2
    <3>4. Paired(from, to, R)
      BY <3>1, <3>2, <3>3 DEF Paired
    <3> QED BY <3>4
  <2> HIDE DEF R
  <2>3. Paired(FlattenSeq(PlacedViews(g)), FlattenSeq(lists), R)
    BY <1>3, <1>5, <2>1, <2>2, FlattenSeqPairs
  <2>4. Len(Placed(g)) = Len(FlattenSeq(lists))
    BY <1>5, <2>3 DEF Paired
  <2> QED BY <1>1, <1>3, <1>4, <2>4
<1>7. CASE out_type \in Cards
  <2> PICK list : list = PlacedView(g, g.views[1])
    OBVIOUS
  <2>1. Len(g.views) = 1 /\ g.views[1].minutiae = all /\ g.views[1] \in Views(out_type)
    BY <1>1, <1>5, <1>7
  <2>2. list \in Seq(Things) /\ Len(list) = Len(all)
    BY <1>1, <2>1, PlacedViewType
  <2>3. PlacedViews(g) = <<list>>
    BY <1>5, <2>1
  <2>4. FlattenSeq(<<list>>) = list
    BY <2>2, FlattenOne
  <2>5. Len(Placed(g)) = Len(FlattenSeq(lists))
    BY <1>3, <1>5, <2>2, <2>3, <2>4
  <2> QED BY <1>1, <1>3, <1>4, <2>5
<1> QED BY <1>6, <1>7

\* A file that has as many minutiae as the one it was made of has all of them.
LEMMA SameNumberIsCounted ==
  ASSUME Written, Len(Placed(Stored(ofmr))) = Len(Placed(file))
  PROVE  Counted
<1> SUFFICES ASSUME in_type # out_type
             PROVE  \A k \in 1 .. Len(file.views) :
                      NumberOfMinutiae(file.views[k]) = Len(file.views[k].minutiae)
  BY DEF Counted
<1> PICK g : g = Stored(ofmr)
  OBVIOUS
<1> PICK ss : ss = PlacedViews(file)
  OBVIOUS
<1>1. PICK lists \in Seq(Seq(MadeMinutiae)) :
        /\ Len(lists) = Len(file.views)
        /\ \A k \in 1 .. Len(file.views) : Len(lists[k]) = Len(ofmr.views[k].minutiae)
        /\ Len(Placed(g)) = Len(FlattenSeq(lists))
  BY PlacedNumber
<1>2. file \in FilesOf(in_type) /\ in_type \in AllFormats
  BY DEF Written
<1>3. /\ ss \in Seq(Seq(Things)) /\ Len(ss) = Len(file.views) /\ Placed(file) = FlattenSeq(ss)
      /\ \A k \in 1 .. Len(file.views) : /\ file.views[k] \in Views(in_type)
                                         /\ ss[k] = PlacedView(file, file.views[k])
  BY <1>2, PlacedViewsType
<1>4. ASSUME NEW k \in 1 .. Len(file.views)
      PROVE  /\ Len(ss[k]) = Len(file.views[k].minutiae)
             /\ Len(lists[k]) = NumberOfMinutiae(file.views[k])
             /\ Len(lists[k]) <= Len(ss[k])
  <2> PICK v : v = file.views[k]
    OBVIOUS
  <2>1. v \in Views(in_type) /\ ss[k] = PlacedView(file, v)
    BY <1>3
  <2>2. Len(ss[k]) = Len(v.minutiae)
    BY <1>2, <2>1, PlacedViewType
  <2>3. Len(lists[k]) = NumberOfMinutiae(v)
    BY <1>1, MinutiaMade
  <2>4. NumberOfMinutiae(v) <= Len(v.minutiae)
    BY <2>1, ViewTypes
  <2> QED BY <2>2, <2>3, <2>4
<1>5. Len(FlattenSeq(lists)) = Len(FlattenSeq(ss))
  BY <1>1, <1>3
<1>6. \A k \in 1 .. Len(ss) : Len(lists[k]) = Len(ss[k])
  <2>1. NoLonger(lists, ss)
    BY <1>1, <1>3, <1>4 DEF NoLonger
  <2>2. ss \in Seq(Seq(Things)) /\ lists \in Seq(Seq(MadeMinutiae))
    BY <1>3
  <2> QED BY <1>5, <2>1, <2>2, FewerTogether
<1> QED BY <1>3, <1>4, <1>6

\* All views still have the same resolution.
LEMMA ResolvedStays ==
  ASSUME Written, Resolved(file), ~ LosesResolution(in_type, out_type)
  PROVE  Resolved(Stored(ofmr))
<1> PICK g : g = Stored(ofmr)
  OBVIOUS
<1> PICK views : views = StoredViews(ofmr)
  OBVIOUS
<1>1. /\ Len(views) = Len(file.views) /\ Len(views) \in Nat
      /\ \A k \in 1 .. Len(views) : views[k] = StoredView(ofmr.views[k], out_type)
      /\ g.format_std = out_type /\ DOMAIN views = 1 .. Len(views)
      /\ out_type \notin Cards => g.views = views
  BY StoredShape
<1>2. ASSUME out_type = "ANSI07", NEW k \in 1 .. Len(file.views)
      PROVE  views[k].resolution =
               IF in_type = out_type THEN file.views[1].resolution ELSE ReadResolution
  <2>1. /\ file.views[k] \in Views(in_type) /\ ofmr.views[k] \in MadeViews
        /\ in_type = out_type => Copied(file.views[k], ofmr.views[k])
        /\ in_type # out_type => Convertible /\ Converted(file.views[k], ofmr.views[k])
    BY WrittenViews
  <2>2. views[k].resolution = ofmr.views[k].resolution
    <3>1. views[k] = StoredView(ofmr.views[k], out_type)
      BY <1>1
    <3> QED BY <1>2, <2>1, <3>1, StoredViewFits
  <2>3. CASE in_type = out_type
    <3>1. ofmr.views[k].resolution = file.views[k].resolution
      BY <2>1, <2>3 DEF Copied, Views
    <3>2. k \in DOMAIN file.views /\ file.format_std = "ANSI07"
      BY <1>2, <2>3, FileTypes DEF Written, in_type
    <3> QED BY <2>2, <2>3, <3>1, <3>2 DEF Resolved
  <2>4. CASE in_type # out_type
    <3>1. in_type \in {"ISO", "ISO_NORMAL_CARD"}
      BY <1>2, <2>1, <2>4, TwoSides DEF LosesResolution, Ansis, Isos, Cards
    <3> QED BY <2>1, <2>2, <2>4, <3>1 DEF Converted, ConvertedResolution
  <2> QED BY <2>3, <2>4
<1>3. ASSUME out_type = "ANSI07", NEW k \in DOMAIN g.views
      PROVE  g.views[k].resolution = g.views[1].resolution
  <2>1. g.views = views
    BY <1>1, <1>3 DEF Cards
  <2>2. k \in 1 .. Len(file.views) /\ 1 \in 1 .. Len(file.views)
    BY <1>1, <1>3, <2>1
  <2> QED BY <1>2, <1>3, <2>1, <2>2
<1> QED BY <1>1, <1>3 DEF Resolved

\* What a file has to do with the one it was made of, if no failure was ignored.
Follows(f, g, res) ==
  ~ LosesResolution(f.format_std, g.format_std) /\ Resolved(f) =>
    /\ Resolved(g)
    /\ Len(Placed(g)) = Len(Placed(f)) => KeptBetween(f, g, res)

\* The invariant of the history: every file follows from the one before.
TripsInv ==
  \A k \in 2 .. Len(history) :
    history[k].ignored = {} => Follows(history[k - 1].file, history[k].file, iso_res)

\* A record that is written follows from the file that was read.
LEMMA WrittenFollows ==
  ASSUME Written
  PROVE  Follows(file, Stored(ofmr), iso_res)
<1> PICK g : g = Stored(ofmr)
  OBVIOUS
<1>1. g.format_std = out_type /\ file.format_std = in_type
  BY DEF Written, FilesOf, in_type
<1> SUFFICES ASSUME ~ LosesResolution(in_type, out_type), Resolved(file)
             PROVE  /\ Resolved(g)
                    /\ Len(Placed(g)) = Len(Placed(file)) => KeptBetween(file, g, iso_res)
  BY <1>1 DEF Follows
<1>2. ASSUME Len(Placed(g)) = Len(Placed(file)) PROVE KeptBetween(file, g, iso_res)
  <2>1. Counted
    BY <1>2, SameNumberIsCounted
  <2> QED BY <1>1, <2>1, KeptInRecord, KeptOnCard DEF KeptBetween
<1> QED BY <1>2, ResolvedStays

\* What is appended to the history follows from its end.
LEMMA ExitKeepsTrips ==
  ASSUME ConvertInv, TripsInv, NEW f, NEW failures, Exit(f, failures),
         failures = {} => Follows(file, f, iso_res)
  PROVE  TripsInv'
<1> PICK e : e = [file |-> f, ignored |-> failures]
  OBVIOUS
<1>1. history' = Append(history, e) /\ iso_res' = iso_res
  BY DEF Exit
<1>2. history \in Seq(Entries) /\ history # <<>> /\ history[Len(history)].file = file
  BY DEF ConvertInv, HistoryInv
<1> PICK n : n = Len(history)
  OBVIOUS
<1>3. n \in Nat /\ n >= 1
  BY <1>2, EmptySeq
<1>4. /\ Len(history') = n + 1 /\ history'[n + 1] = e
      /\ \A k \in 1 .. n : history'[k] = history[k]
  BY <1>1, <1>2
<1>5. ASSUME NEW k \in 2 .. n + 1, history'[k].ignored = {}
      PROVE  Follows(history'[k - 1].file, history'[k].file, iso_res)
  <2>1. CASE k = n + 1
    <3>1. history'[k - 1] = history[n] /\ history'[k] = e
      BY <1>3, <1>4, <2>1
    <3>2. failures = {}
      BY <1>5, <3>1
    <3> QED BY <1>2, <3>1, <3>2
  <2>2. CASE k # n + 1
    <3>1. k \in 2 .. n /\ k - 1 \in 1 .. n /\ k \in 1 .. n
      BY <1>3, <2>2
    <3>2. history'[k - 1] = history[k - 1] /\ history'[k] = history[k]
      BY <1>4, <3>1
    <3> QED BY <1>5, <3>1, <3>2 DEF TripsInv
  <2> QED BY <2>1, <2>2
<1> QED BY <1>1, <1>4, <1>5 DEF TripsInv

\* Initially there is one file.
LEMMA TripsInvInit == Init => TripsInv
<1> SUFFICES ASSUME Init PROVE TripsInv
  OBVIOUS
<1>1. Len(history) = 1
  BY DEF Init
<1>2. 2 .. 1 = {}
  OBVIOUS
<1> QED BY <1>1, <1>2 DEF TripsInv

\* Only the end of a run adds to the history.
LEMMA TripsInvNext == ConvertInv /\ TripsInv /\ [Next]_vars => TripsInv'
<1> SUFFICES ASSUME ConvertInv, TripsInv, [Next]_vars PROVE TripsInv'
  OBVIOUS
<1>1. CASE Write
  <2>1. Exit(Stored(ofmr), ignored) /\ pc = "write"
    BY <1>1 DEF Write, Exit
  <2>2. ignored = {} => Follows(file, Stored(ofmr), iso_res)
    BY <2>1, IsWritten, WrittenFollows
  <2> QED BY <2>1, <2>2, ExitKeepsTrips
<1>2. CASE WriteFails
  <2>1. PICK f \in Cut(Stored(ofmr)) : Exit(f, ignored \cup {"write"})
    BY <1>2 DEF WriteFails
  <2>2. ignored \cup {"write"} # {}
    OBVIOUS
  <2> QED BY <2>1, <2>2, ExitKeepsTrips
<1>3. CASE UNCHANGED <<history, iso_res>>
  BY <1>3 DEF TripsInv
<1>4. CASE Reject \/ Start \/ CopyView \/ ConvertView \/ GiveUp \/ Finish
  <2>1. UNCHANGED <<history, iso_res>>
    BY <1>4 DEF Reject, Start, Begin, CopyView, ConvertView, GiveUp, Finish
  <2> QED BY <1>3, <2>1
<1>5. CASE UNCHANGED vars
  BY <1>3, <1>5 DEF vars
<1> QED BY <1>1, <1>2, <1>4, <1>5 DEF Next

\* So it holds.
LEMMA TripsInvHolds == Spec => []TripsInv
  BY TripsInvInit, TripsInvNext, ConvertInvHolds, PTL DEF Spec

\* A file of the history is one of its format.
LEMMA HistoryFile ==
  ASSUME ConvertInv, NEW k \in 1 .. Len(history), NEW f, f = history[k].file
  PROVE  f.format_std \in AllFormats /\ f \in FilesOf(f.format_std)
<1>1. history[k] \in Entries
  BY DEF ConvertInv, HistoryInv
<1>2. PICK format \in AllFormats : f \in FilesOf(format)
  BY <1>1 DEF Entries
<1>3. f.format_std = format
  BY <1>2 DEF FilesOf
<1> QED BY <1>2, <1>3

\* No angle of a legal file is too large.
LEMMA PlacedIsLegal ==
  ASSUME NEW format \in AllFormats, NEW f \in FilesOf(format), Legal(f),
         NEW l \in 1 .. Len(Placed(f))
  PROVE  Placed(f)[l].m.angle <= MaxAngle(format)
<1> PICK ss : ss = PlacedViews(f)
  OBVIOUS
<1>1. f.format_std = format /\ f.views \in Seq(Views(format))
  BY DEF FilesOf
<1>2. LegalViews(f.views, format)
  <2>1. \A m \in Range(AllMinutiae(f.views)) : LegalIn(m, format)
    BY <1>1 DEF Legal, LegalIn
  <2> QED BY <1>1, <2>1, LegalTogether
<1>3. /\ ss \in Seq(Seq(Things)) /\ Len(ss) = Len(f.views) /\ Placed(f) = FlattenSeq(ss)
      /\ \A k \in 1 .. Len(f.views) : /\ f.views[k] \in Views(format)
                                      /\ ss[k] = PlacedView(f, f.views[k])
  BY PlacedViewsType
<1>4. Placed(f) \in Seq(Things)
  BY <1>3, FlattenSeqGrows
<1>5. Placed(f)[l] \in Range(Placed(f))
  BY <1>4 DEF Range
<1>6. PICK k \in 1 .. Len(ss) : Placed(f)[l] \in Range(ss[k])
  BY <1>3, <1>5, FlattenSeqElements
<1> PICK v : v = f.views[k]
  OBVIOUS
<1>7. v \in Views(format) /\ ss[k] = PlacedView(f, v) /\ k \in 1 .. Len(f.views)
  BY <1>3
<1>8. PICK j \in DOMAIN ss[k] : Placed(f)[l] = ss[k][j]
  BY <1>6 DEF Range
<1>9. /\ ss[k] \in Seq(Things) /\ Len(ss[k]) = Len(v.minutiae)
      /\ \A i_1 \in 1 .. Len(v.minutiae) :
           ss[k][i_1] = [m |-> v.minutiae[i_1], density |-> Density(f, v)]
  BY <1>7, PlacedViewType
<1>10. j \in 1 .. Len(v.minutiae)
  BY <1>8, <1>9
<1>11. Placed(f)[l].m = v.minutiae[j]
  <2>1. Placed(f)[l] = [m |-> v.minutiae[j], density |-> Density(f, v)]
    BY <1>8, <1>9, <1>10
  <2>2. \A a, b : [m |-> a, density |-> b].m = a
    OBVIOUS
  <2> QED BY <2>1, <2>2
<1>12. LegalIn(v.minutiae[j], format)
  BY <1>2, <1>7, <1>10 DEF LegalViews
<1> QED BY <1>11, <1>12 DEF LegalIn

\* Five files of two formats, each made of the one before.
LEMMA FilesSettle ==
  ASSUME NEW home \in AllFormats, NEW away \in AllFormats, NEW res,
         NEW f0 \in FilesOf(home), NEW f1 \in FilesOf(away), NEW f2 \in FilesOf(home),
         NEW f3 \in FilesOf(away), NEW f4 \in FilesOf(home),
         Follows(f0, f1, res), Follows(f1, f2, res), Follows(f2, f3, res), Follows(f3, f4, res),
         home \notin {"ISO", "ISO_NORMAL_CARD"},
         ~ LosesResolution(home, away), ~ LosesResolution(away, home),
         Resolved(f0), Legal(f0),
         AllFit(f0, f1), AllFit(f1, f2), AllFit(f2, f3), AllFit(f3, f4),
         NEW l \in DOMAIN Placed(f2)
  PROVE  \/ Placed(f2)[l] = Placed(f4)[l]
         \/ /\ Halfway(Placed(f3)[l], Placed(f4)[l].density)
            /\ Placed(f2)[l].m.angle = Placed(f4)[l].m.angle
<1>1. /\ f0.format_std = home /\ f1.format_std = away /\ f2.format_std = home
      /\ f3.format_std = away /\ f4.format_std = home
  BY DEF FilesOf
<1>2. /\ Len(Placed(f1)) = Len(Placed(f0)) /\ Len(Placed(f2)) = Len(Placed(f1))
      /\ Len(Placed(f3)) = Len(Placed(f2)) /\ Len(Placed(f4)) = Len(Placed(f3))
  BY DEF AllFit
<1>3. Resolved(f1) /\ KeptBetween(f0, f1, res)
  BY <1>1, <1>2 DEF Follows
<1>4. Resolved(f2) /\ KeptBetween(f1, f2, res)
  BY <1>1, <1>2, <1>3 DEF Follows
<1>5. Resolved(f3) /\ KeptBetween(f2, f3, res)
  BY <1>1, <1>2, <1>4 DEF Follows
<1>6. KeptBetween(f3, f4, res)
  BY <1>1, <1>2, <1>5 DEF Follows
<1>7. ASSUME NEW format \in AllFormats, NEW f \in FilesOf(format)
      PROVE  DOMAIN Placed(f) = 1 .. Len(Placed(f))
  <2>1. PlacedViews(f) \in Seq(Seq(Things)) /\ Placed(f) = FlattenSeq(PlacedViews(f))
    BY <1>7, PlacedViewsType
  <2>2. Placed(f) \in Seq(Things)
    BY <2>1, FlattenSeqGrows
  <2> QED BY <2>2
<1>8. l \in 1 .. Len(Placed(f2))
  BY <1>7
<1>9. /\ l \in DOMAIN Placed(f0) /\ l \in DOMAIN Placed(f1) /\ l \in DOMAIN Placed(f3)
      /\ l \in 1 .. Len(Placed(f0)) /\ l \in 1 .. Len(Placed(f1)) /\ l \in 1 .. Len(Placed(f3))
  BY <1>2, <1>7, <1>8
<1> PICK p0 : p0 = Placed(f0)[l]
  OBVIOUS
<1> PICK p1 : p1 = Placed(f1)[l]
  OBVIOUS
<1> PICK p2 : p2 = Placed(f2)[l]
  OBVIOUS
<1> PICK p3 : p3 = Placed(f3)[l]
  OBVIOUS
<1> PICK p4 : p4 = Placed(f4)[l]
  OBVIOUS
<1>10. /\ FitsField(p0, p1.density, away) /\ FitsField(p1, p2.density, home)
       /\ FitsField(p2, p3.density, away) /\ FitsField(p3, p4.density, home)
  BY <1>1, <1>9 DEF AllFit
<1>11. /\ <<p0, p1>> \in KeptPairs(home, away, res) /\ <<p1, p2>> \in KeptPairs(away, home, res)
       /\ <<p2, p3>> \in KeptPairs(home, away, res) /\ <<p3, p4>> \in KeptPairs(away, home, res)
  BY <1>1, <1>3, <1>4, <1>5, <1>6, <1>8, <1>9 DEF KeptBetween, Paired
<1>12. p0.m.angle <= MaxAngle(home)
  BY <1>9, PlacedIsLegal
<1>13. Trips(p0, p1, p2, p3, p4, home, away, res)
  BY <1>10, <1>11, <1>12 DEF Trips
<1> QED BY <1>13, TripSettles

\* Settles: conversions do not drift.  Whatever two formats a record is sent between,
\* at any resolution and however halves are rounded, what the second trip brings back
\* is what the first one did, but for coordinates that are halfway between two.  The
\* formats must carry the resolution, the views of the first file have one resolution
\* and legal angles and qualities, and the coordinates fit on every way.
THEOREM SettlesHolds == Spec => []Settles
<1>1. ASSUME ConvertInv, TripsInv PROVE Settles
  <2> DEFINE n == Len(history)
             f(k) == history[k].file
  <2> SUFFICES ASSUME n > 4,
                      \A k \in n - 4 .. n : history[k].ignored = {},
                      \A k \in n - 2 .. n : f(k).format_std = f(k - 2).format_std,
                      f(n).format_std \notin {"ISO", "ISO_NORMAL_CARD"},
                      ~ LosesResolution(f(n).format_std, f(n - 1).format_std),
                      ~ LosesResolution(f(n - 1).format_std, f(n).format_std),
                      Resolved(f(n - 4)), Legal(f(n - 4)),
                      \A k \in n - 3 .. n : AllFit(f(k - 1), f(k)),
                      NEW l \in DOMAIN Placed(f(n - 2))
               PROVE  \/ Placed(f(n - 2))[l] = Placed(f(n))[l]
                      \/ /\ Halfway(Placed(f(n - 1))[l], Placed(f(n))[l].density)
                         /\ Placed(f(n - 2))[l].m.angle = Placed(f(n))[l].m.angle
    BY DEF Settles
  <2>1. n \in Nat
    BY <1>1 DEF ConvertInv, HistoryInv
  <2>2. /\ \A k \in n - 4 .. n : k \in 1 .. Len(history)
        /\ \A k \in n - 3 .. n : k \in 2 .. Len(history) /\ k \in n - 4 .. n
    BY <2>1
  <2>3. \A k \in n - 4 .. n : f(k).format_std \in AllFormats /\ f(k) \in FilesOf(f(k).format_std)
    BY <1>1, <2>2, HistoryFile
  <2>4. \A k \in n - 3 .. n : Follows(f(k - 1), f(k), iso_res)
    BY <1>1, <2>2 DEF TripsInv
  <2>5. /\ n \in n - 4 .. n /\ n - 1 \in n - 4 .. n /\ n - 2 \in n - 4 .. n
        /\ n - 3 \in n - 4 .. n /\ n - 4 \in n - 4 .. n
        /\ n \in n - 3 .. n /\ n - 1 \in n - 3 .. n /\ n - 2 \in n - 3 .. n
        /\ n - 3 \in n - 3 .. n
        /\ n \in n - 2 .. n /\ n - 1 \in n - 2 .. n /\ n - 2 \in n - 2 .. n
        /\ (n - 1) - 1 = n - 2 /\ (n - 2) - 1 = n - 3 /\ (n - 3) - 1 = n - 4
        /\ (n - 1) - 2 = n - 3 /\ (n - 2) - 2 = n - 4
    BY <2>1
  <2> PICK f0 : f0 = f(n - 4)
    OBVIOUS
  <2> PICK f1 : f1 = f(n - 3)
    OBVIOUS
  <2> PICK f2 : f2 = f(n - 2)
    OBVIOUS
  <2> PICK f3 : f3 = f(n - 1)
    OBVIOUS
  <2> PICK f4 : f4 = f(n)
    OBVIOUS
  <2> PICK home : home = f4.format_std
    OBVIOUS
  <2> PICK away : away = f3.format_std
    OBVIOUS
  <2> HIDE DEF n, f
  <2>6. /\ f2.format_std = home /\ f0.format_std = home /\ f1.format_std = away
    BY <2>5
  <2>7. /\ home \in AllFormats /\ away \in AllFormats /\ f0 \in FilesOf(home)
        /\ f1 \in FilesOf(away) /\ f2 \in FilesOf(home) /\ f3 \in FilesOf(away)
        /\ f4 \in FilesOf(home)
    BY <2>3, <2>5, <2>6
  <2>8. /\ Follows(f0, f1, iso_res) /\ Follows(f1, f2, iso_res)
        /\ Follows(f2, f3, iso_res) /\ Follows(f3, f4, iso_res)
    BY <2>4, <2>5
  <2>9. AllFit(f0, f1) /\ AllFit(f1, f2) /\ AllFit(f2, f3) /\ AllFit(f3, f4)
    BY <2>5
  <2>10. /\ home \notin {"ISO", "ISO_NORMAL_CARD"} /\ ~ LosesResolution(home, away)
         /\ ~ LosesResolution(away, home) /\ Resolved(f0) /\ Legal(f0)
         /\ l \in DOMAIN Placed(f2)
    OBVIOUS
  <2> QED BY <2>7, <2>8, <2>9, <2>10, FilesSettle
<1> QED BY <1>1, ConvertInvHolds, TripsInvHolds, PTL
=============================================================================
