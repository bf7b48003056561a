-------------------------- MODULE FmrTools_proofs ---------------------------
(***************************************************************************)
(* Proofs about the programs of fingerminutia/src, run one after the other *)
(* on each other's files, whatever the texts, files and options are.       *)
(*                                                                         *)
(* Control: what the program that runs has open, and that every file is    *)
(* made of records that can be read back (Typed).  TypeOK is part of it.   *)
(*                                                                         *)
(* DoneInv: on top of it, how far the program that runs has come           *)
(* (Progress), and of each program that has ended well what it made of     *)
(* what it read (Done).  That only this entry says it is what the          *)
(* properties need: once a program has ended its variables are gone.       *)
(* AcceptedIsWhole, LengthIsTrue and MadeAsTold follow from Done alone.    *)
(***************************************************************************)
EXTENDS FmrTools, FiniteSetTheorems, SequenceTheorems, Sums, TLAPS

-----------------------------------------------------------------------------
(* What is stored of a record.                                             *)

LEMMA LowBits ==
  ASSUME NEW n \in Nat
  PROVE  /\ n % 4 \in 0 .. 3 /\ n % 16 \in 0 .. 15 /\ n % 16384 \in 0 .. 16383
         /\ n % 4 <= n /\ n % 16 <= n /\ n % 16384 <= n
OBVIOUS

\* The unsigned integers as comparisons: the provers do not like large intervals.
LEMMA Unsigned ==
  /\ UCHAR_MAX = 255 /\ UCHAR_MAX \in Nat /\ USHRT_MAX = 65535 /\ USHRT_MAX \in Nat
  /\ \A n : n \in UCHAR <=> n \in Nat /\ n <= UCHAR_MAX
  /\ \A n : n \in USHORT <=> n \in Nat /\ n <= USHRT_MAX
<1>1. ASSUME NEW max \in Nat PROVE \A n : n \in 0 .. max <=> n \in Nat /\ n <= max
  OBVIOUS
<1>2. USHRT_MAX = 65535
  BY DEF USHRT_MAX
<1>3. UCHAR_MAX = 255
  BY DEF UCHAR_MAX
<1>4. UCHAR_MAX \in Nat /\ USHRT_MAX \in Nat
  BY <1>2, <1>3
<1>5. \A n : n \in 0 .. UCHAR_MAX <=> n \in Nat /\ n <= UCHAR_MAX
  BY <1>1, <1>4, Zenon
<1>6. \A n : n \in 0 .. USHRT_MAX <=> n \in Nat /\ n <= USHRT_MAX
  BY <1>1, <1>4, Zenon
<1>7. \A n : n \in UCHAR <=> n \in Nat /\ n <= UCHAR_MAX
  BY <1>5, Zenon DEF UCHAR
<1>8. \A n : n \in USHORT <=> n \in Nat /\ n <= USHRT_MAX
  BY <1>6, Zenon DEF USHORT
<1> QED
  BY <1>2, <1>3, <1>4, <1>7, <1>8

\* Arithmetic of a given width.
LEMMA Wraps ==
  ASSUME NEW m \in Nat \ {0}, NEW a \in Nat
  PROVE  /\ a % m \in Nat /\ a % m < m /\ a % m <= a
         /\ a < m => a % m = a
<1>1. a % m \in Nat /\ a % m < m
  BY SMT
<1>2. a % m <= a
  BY SMT
<1>3. a < m => a % m = a
  BY SMT
<1> QED
  BY <1>1, <1>2, <1>3

\* A sum may be cut to its width at every step, or in the end.
LEMMA WrappedSum ==
  ASSUME NEW m \in Nat \ {0}, NEW a \in Nat, NEW b \in Nat
  PROVE  ((a % m) + b) % m = (a + b) % m
<1>1. ASSUME NEW n \in Nat
      PROVE  /\ n = m * (n \div m) + (n % m)
             /\ n \div m \in Nat /\ n % m \in 0 .. m - 1
  <2>1. n = m * (n \div m) + (n % m) /\ n \div m \in Nat
    BY SMT
  <2>2. n % m \in 0 .. m - 1
    BY SMT
  <2> QED
    BY <2>1, <2>2
<1>2. ASSUME NEW q \in Int, NEW rest \in 0 .. m - 1
      PROVE  (m * q + rest) % m = rest
  BY SMT
<1>3. PICK p \in Nat, s \in 0 .. m - 1 : a = m * p + s /\ s = a % m
  BY <1>1
<1>4. s + b \in Nat
  BY <1>3
<1>5. PICK q \in Nat, t \in 0 .. m - 1 : s + b = m * q + t /\ t = (s + b) % m
  BY <1>1, <1>4
<1>6. a + b = m * (p + q) + t
  <2>1. m * (p + q) = m * p + m * q
    BY SMT
  <2>2. m * p \in Nat /\ m * q \in Nat
    BY SMT
  <2>3. PICK c \in Nat, d \in Nat : c = m * p /\ d = m * q
    BY <2>2
  <2>4. a = c + s /\ s + b = d + t
    BY <1>3, <1>5, <2>3
  <2>5. a + b = c + d + t
    BY <2>4
  <2> QED
    BY <2>1, <2>3, <2>5
<1>7. (a + b) % m = t
  <2>1. p + q \in Int
    OBVIOUS
  <2> QED
    BY <1>2, <1>6, <2>1
<1> QED
  BY <1>3, <1>5, <1>7

LEMMA Remainders ==
  ASSUME NEW n \in Int
  PROVE  n % (UCHAR_MAX + 1) \in UCHAR /\ n % (USHRT_MAX + 1) \in USHORT
<1>1. ASSUME NEW max \in Nat PROVE n % (max + 1) \in Nat /\ n % (max + 1) <= max
  OBVIOUS
<1> QED
  BY <1>1, Unsigned

LEMMA LowFields ==
  /\ \A n \in UCHAR : n % 4 \in UCHAR /\ n % 16 \in UCHAR /\ n % 4 <= n /\ n % 16 <= n
  /\ \A n \in USHORT : n % 16384 \in USHORT /\ n % 16384 <= n
<1>1. ASSUME NEW n \in UCHAR
      PROVE  n % 4 \in UCHAR /\ n % 16 \in UCHAR /\ n % 4 <= n /\ n % 16 <= n
  <2>1. n \in Nat /\ n <= UCHAR_MAX /\ UCHAR_MAX \in Nat
    BY Unsigned
  <2>2. /\ n % 4 \in Nat /\ n % 16 \in Nat /\ n % 4 <= n /\ n % 16 <= n
    BY <2>1
  <2>3. n % 4 <= UCHAR_MAX /\ n % 16 <= UCHAR_MAX
    BY <2>1, <2>2
  <2> QED
    BY <2>2, <2>3, Unsigned
<1>2. ASSUME NEW n \in USHORT PROVE n % 16384 \in USHORT /\ n % 16384 <= n
  <2>1. n \in Nat /\ n <= USHRT_MAX /\ USHRT_MAX \in Nat
    BY Unsigned
  <2>2. n % 16384 \in Nat /\ n % 16384 <= n
    BY <2>1
  <2>3. n % 16384 <= USHRT_MAX
    BY <2>1, <2>2
  <2> QED
    BY <2>2, <2>3, Unsigned
<1> QED
  BY <1>1, <1>2

LEMMA NoRecordType == NoRecord \in FileFmrs
<1>1. <<>> \in Seq(Fvmrs) /\ DOMAIN <<>> = {}
  OBVIOUS
<1>2. 0 \in UCHAR /\ 0 \in USHORT
  BY Unsigned
<1> QED
  BY <1>1, <1>2 DEF NoRecord, FileFmrs, Fmrs

LEMMA EitherTypes ==
  ASSUME NEW a \in Nat, NEW b \in Nat
  PROVE  Either(a, b) \in 0 .. 15
<1> DEFINE bit(w) == IF (a \div w) % 2 = 1 \/ (b \div w) % 2 = 1 THEN w ELSE 0
<1>1. Either(a, b) = bit(1) + bit(2) + bit(4) + bit(8)
  BY Zenon DEF Either
<1>2. bit(1) \in {0, 1} /\ bit(2) \in {0, 2} /\ bit(4) \in {0, 4} /\ bit(8) \in {0, 8}
  OBVIOUS
<1> HIDE DEF bit
<1> QED
  BY <1>1, <1>2

LEMMA EitherAlone == \A a \in 0 .. 15 : Either(a, 0) = a
<1> SUFFICES ASSUME NEW a \in 0 .. 15 PROVE Either(a, 0) = a
  OBVIOUS
<1>1. /\ Either(a, 0) = (IF (a \div 1) % 2 = 1 \/ (0 \div 1) % 2 = 1 THEN 1 ELSE 0)
                      + (IF (a \div 2) % 2 = 1 \/ (0 \div 2) % 2 = 1 THEN 2 ELSE 0)
                      + (IF (a \div 4) % 2 = 1 \/ (0 \div 4) % 2 = 1 THEN 4 ELSE 0)
                      + (IF (a \div 8) % 2 = 1 \/ (0 \div 8) % 2 = 1 THEN 8 ELSE 0)
  BY Zenon DEF Either
<1>2. \A w \in {1, 2, 4, 8} : (0 \div w) % 2 # 1
  OBVIOUS
<1>3. Either(a, 0) = (IF a % 2 = 1 THEN 1 ELSE 0) + (IF (a \div 2) % 2 = 1 THEN 2 ELSE 0)
                    + (IF (a \div 4) % 2 = 1 THEN 4 ELSE 0) + (IF (a \div 8) % 2 = 1 THEN 8 ELSE 0)
  BY <1>1, <1>2
<1> QED
  BY <1>3

LEMMA LowCoordinates == \A n \in Nat : n % 16384 \in Coordinates
BY SMT DEF Coordinates

LEMMA StoredMinutiaType ==
  ASSUME NEW m \in Minutiae
  PROVE  StoredMinutia(m) \in Minutiae /\ StoredMinutia(m) \in FileMinutiae
<1>1. m.type \in UCHAR /\ m.x \in USHORT /\ m.y \in USHORT /\ m.angle \in UCHAR /\ m.quality \in UCHAR
  BY DEF Minutiae
<1>2. m.type % 4 \in UCHAR /\ m.x % 16384 \in USHORT /\ m.y % 16384 \in USHORT
  BY <1>1, LowFields
<1>3. m.type % 4 \in 0 .. 3 /\ m.x % 16384 \in Coordinates /\ m.y % 16384 \in Coordinates
  BY <1>1, LowCoordinates, Unsigned
<1>4. PICK x, y : x = m.x % 16384 /\ y = m.y % 16384
  OBVIOUS
<1>5. StoredMinutia(m) = [type |-> m.type % 4, x |-> x, y |-> y, angle |-> m.angle,
                          quality |-> m.quality]
  BY <1>4, SMT DEF StoredMinutia
<1>6. PICK stored : stored = StoredMinutia(m)
  OBVIOUS
<1>7. stored = [type |-> m.type % 4, x |-> x, y |-> y, angle |-> m.angle, quality |-> m.quality]
  BY <1>5, <1>6
<1>8. x \in USHORT /\ y \in USHORT /\ x \in Coordinates /\ y \in Coordinates
  BY <1>2, <1>3, <1>4
<1>9. stored \in Minutiae
  BY <1>1, <1>2, <1>7, <1>8 DEF Minutiae
<1>10. stored.type \in 0 .. 3 /\ stored.x \in Coordinates /\ stored.y \in Coordinates
  BY <1>3, <1>7, <1>8
<1> QED
  BY <1>6, <1>9, <1>10, Zenon DEF FileMinutiae

\* Points without their two upper bits.
LowPlaces(ps) == [k \in DOMAIN ps |-> StoredPlace(ps[k])]

LEMMA LowPlacesType ==
  ASSUME NEW ps \in Seq(Places)
  PROVE  LowPlaces(ps) \in Seq(Places) /\ Len(LowPlaces(ps)) = Len(ps)
<1>1. \A k \in 1 .. Len(ps) : ps[k] \in Places
  BY ElementOfSeq
<1>2. \A k \in 1 .. Len(ps) : ps[k].x \in USHORT /\ ps[k].y \in USHORT
  BY <1>1 DEF Places
<1>3. DOMAIN ps = 1 .. Len(ps) /\ Len(ps) \in Nat
  BY LenProperties
<1>4. LowPlaces(ps) \in [1 .. Len(ps) -> Places]
  BY <1>2, <1>3, LowFields DEF Places, LowPlaces, StoredPlace
<1> QED
  BY <1>3, <1>4, LenProperties

LEMMA StoredFedType ==
  ASSUME NEW fed \in Feds
  PROVE  /\ StoredFed(fed) \in Feds
         /\ FedBytes(StoredFed(fed)) = FedBytes(fed) /\ FedBytes(fed) \in Nat
         /\ UnwrittenOf(StoredFed(fed)) = UnwrittenOf(fed) /\ UnwrittenOf(fed) \in Nat
<1>1. CASE fed.type = FED_RIDGE_COUNT
  <2>1. Len(fed.counts) \in Nat
    BY <1>1, LenProperties DEF Feds, FED_RIDGE_COUNT, FED_CORE_AND_DELTA
  <2> QED
    BY <1>1, <2>1 DEF StoredFed, FedBytes, UnwrittenOf, FED_HEADER_LENGTH, RIDGE_COUNT_DATA_LENGTH
<1>2. CASE fed.type # FED_RIDGE_COUNT
  <2>1. /\ fed \in [type : {FED_CORE_AND_DELTA}, length : USHORT, core_type : UCHAR,
                    cores : Seq(Places), delta_type : UCHAR, deltas : Seq(Places)]
        /\ fed.cores \in Seq(Places) /\ fed.deltas \in Seq(Places)
    BY <1>2 DEF Feds
  <2>2. /\ LowPlaces(fed.cores) \in Seq(Places) /\ Len(LowPlaces(fed.cores)) = Len(fed.cores)
        /\ LowPlaces(fed.deltas) \in Seq(Places) /\ Len(LowPlaces(fed.deltas)) = Len(fed.deltas)
        /\ Len(fed.cores) \in Nat /\ Len(fed.deltas) \in Nat
    BY <2>1, LowPlacesType, LenProperties
  <2>3. StoredFed(fed) = [fed EXCEPT !.cores = LowPlaces(fed.cores),
                                     !.deltas = LowPlaces(fed.deltas)]
    BY <1>2 DEF StoredFed, LowPlaces
  <2> DEFINE stored == StoredFed(fed)
  <2>4. /\ stored \in Feds
        /\ stored.type = fed.type /\ stored.core_type = fed.core_type
        /\ stored.delta_type = fed.delta_type
        /\ stored.cores = LowPlaces(fed.cores)
        /\ stored.deltas = LowPlaces(fed.deltas)
    BY <2>1, <2>2, <2>3 DEF Feds
  <2> HIDE DEF stored
  <2>5. Len(stored.cores) = Len(fed.cores) /\ Len(stored.deltas) = Len(fed.deltas)
    BY <2>2, <2>4
  <2>6. FedBytes(stored) = FedBytes(fed) /\ FedBytes(fed) \in Nat
    <3>1. Len(stored.cores) \in Nat /\ Len(stored.deltas) \in Nat /\ stored.type # FED_RIDGE_COUNT
      BY <1>2, <2>2, <2>4, <2>5
    <3> DEFINE c == CoreSize(fed.core_type = ANGULAR)
               d == DeltaSize(fed.delta_type = ANGULAR)
    <3>2. c \in Nat /\ d \in Nat
      BY DEF CoreSize, DeltaSize
    <3>3. FedBytes(fed) = FED_HEADER_LENGTH + (1 + c * Len(fed.cores) + 1 + d * Len(fed.deltas))
      BY <1>2, Zenon DEF FedBytes
    <3>4. FedBytes(stored)
            = FED_HEADER_LENGTH + (1 + c * Len(stored.cores) + 1 + d * Len(stored.deltas))
      BY <2>4, <3>1, Zenon DEF FedBytes
    <3> HIDE DEF c, d
    <3>5. c * Len(fed.cores) \in Nat /\ d * Len(fed.deltas) \in Nat
      BY <2>2, <3>2
    <3> QED
      BY <2>5, <3>3, <3>4, <3>5 DEF FED_HEADER_LENGTH
  <2>7. UnwrittenOf(stored) = UnwrittenOf(fed) /\ UnwrittenOf(fed) \in Nat
    <3>1. stored.type # FED_RIDGE_COUNT
      BY <1>2, <2>4
    <3> DEFINE unwritten(t, n, u, m) == (IF t \in {NONANGULAR, ANGULAR} THEN 0 ELSE n) +
                                        (IF u \in {NONANGULAR, ANGULAR} THEN 0 ELSE 3 * m)
    <3>2. UnwrittenOf(fed)
            = unwritten(fed.core_type, Len(fed.cores), fed.delta_type, Len(fed.deltas))
      BY <1>2, Zenon DEF UnwrittenOf
    <3>3. UnwrittenOf(stored) = unwritten(stored.core_type, Len(stored.cores),
                                          stored.delta_type, Len(stored.deltas))
      BY <3>1, Zenon DEF UnwrittenOf
    <3>4. ASSUME NEW n \in Nat, NEW m \in Nat, NEW t, NEW u PROVE unwritten(t, n, u, m) \in Nat
      <4>1. 3 * m \in Nat
        OBVIOUS
      <4>2. /\ (IF t \in {NONANGULAR, ANGULAR} THEN 0 ELSE n) \in Nat
            /\ (IF u \in {NONANGULAR, ANGULAR} THEN 0 ELSE 3 * m) \in Nat
        BY <4>1
      <4> QED
        BY <4>2
    <3> HIDE DEF unwritten
    <3> QED
      BY <2>2, <2>4, <2>5, <3>2, <3>3, <3>4
  <2> QED
    BY <2>4, <2>6, <2>7 DEF stored
<1> QED
  BY <1>1, <1>2

\* Sequences element by element.
LEMMA SequenceOf ==
  ASSUME NEW S, NEW n \in Nat, NEW s \in [1 .. n -> S]
  PROVE  s \in Seq(S) /\ Len(s) = n /\ DOMAIN s = 1 .. n
OBVIOUS

LEMMA Mapped ==
  ASSUME NEW S, NEW s \in Seq(S), NEW T, NEW t, t = [k \in DOMAIN s |-> t[k]],
         \A k \in 1 .. Len(s) : t[k] \in T
  PROVE  t \in Seq(T) /\ Len(t) = Len(s) /\ DOMAIN t = 1 .. Len(s)
<1>1. DOMAIN s = 1 .. Len(s) /\ Len(s) \in Nat
  BY LenProperties
<1>2. t \in [1 .. Len(s) -> T]
  BY <1>1
<1> QED
  BY <1>1, <1>2, LenProperties

LEMMA FedsType ==
  ASSUME NEW view \in Fvmrs
  PROVE  /\ FedsOf(view) \in Seq(Feds)
         /\ DOMAIN FedsOf(view) = 1 .. Len(FedsOf(view)) /\ Len(FedsOf(view)) \in Nat
         /\ view.extended # <<>> => view.extended[1] \in Blocks /\ FedsOf(view) = view.extended[1].feds
<1>1. <<>> \in Seq(Feds)
  OBVIOUS
<1>2. view.extended # <<>> => view.extended[1] \in Blocks
  BY DEF Fvmrs
<1>3. FedsOf(view) \in Seq(Feds)
  BY <1>1, <1>2 DEF FedsOf, Blocks
<1> QED
  BY <1>2, <1>3, LenProperties DEF FedsOf

\* The sums that count bytes, as functions.
FedBytesOf(view)  == [k \in DOMAIN FedsOf(view) |-> FedBytes(FedsOf(view)[k])]
UnwrittenIn(view) == [k \in DOMAIN FedsOf(view) |-> UnwrittenOf(FedsOf(view)[k])]

LEMMA BlockSums ==
  ASSUME NEW view \in Fvmrs
  PROVE  /\ BlockBytes(view) = SumFunction(FedBytesOf(view))
         /\ UnwrittenAngles(view) = SumFunction(UnwrittenIn(view))
         /\ BlockBytes(view) \in Nat /\ UnwrittenAngles(view) \in Nat
         /\ \A k \in 1 .. Len(FedsOf(view)) :
              FedBytesOf(view)[k] \in Nat /\ UnwrittenIn(view)[k] \in Nat
         /\ DOMAIN FedBytesOf(view) = 1 .. Len(FedsOf(view))
         /\ DOMAIN UnwrittenIn(view) = 1 .. Len(FedsOf(view))
<1> DEFINE n == Len(FedsOf(view))
<1>1. DOMAIN FedsOf(view) = 1 .. n /\ n \in Nat /\ FedsOf(view) \in Seq(Feds)
  BY FedsType
<1>2. \A k \in 1 .. n : FedsOf(view)[k] \in Feds
  BY <1>1, ElementOfSeq
<1>3. DOMAIN FedBytesOf(view) = 1 .. n /\ DOMAIN UnwrittenIn(view) = 1 .. n
  BY <1>1 DEF FedBytesOf, UnwrittenIn
<1>4. \A k \in 1 .. n : FedBytesOf(view)[k] \in Nat /\ UnwrittenIn(view)[k] \in Nat
  BY <1>1, <1>2, StoredFedType DEF FedBytesOf, UnwrittenIn
<1>5. BlockBytes(view) = SumFunction(FedBytesOf(view))
  BY DEF BlockBytes, SumOf, FedBytesOf
<1>6. UnwrittenAngles(view) = SumFunction(UnwrittenIn(view))
  BY DEF UnwrittenAngles, SumOf, UnwrittenIn
<1>7. SumFunction(FedBytesOf(view)) \in Nat
  BY <1>1, <1>3, <1>4, SumType
<1>8. SumFunction(UnwrittenIn(view)) \in Nat
  BY <1>1, <1>3, <1>4, SumType
<1> QED
  BY <1>3, <1>4, <1>5, <1>6, <1>7, <1>8

\* A view and what is stored of it.
LEMMA StoredViewFields ==
  ASSUME NEW view \in Fvmrs
  PROVE  LET stored == StoredView(view)
         IN /\ stored \in Fvmrs /\ stored \in FileViews
            /\ view.impression_type <= 15 => stored.view_number = view.view_number % 16
            /\ stored.finger_number = view.finger_number
            /\ stored.impression_type = view.impression_type % 16
            /\ stored.finger_quality = view.finger_quality
            /\ stored.minutiae = [k \in DOMAIN view.minutiae |-> StoredMinutia(view.minutiae[k])]
            /\ stored.minutiae \in Seq(Minutiae) /\ Len(stored.minutiae) = Len(view.minutiae)
            /\ FedsOf(view) = <<>> => stored.extended = <<>> /\ FedsOf(stored) = <<>>
            /\ FedsOf(view) # <<>> =>
                 /\ stored.extended # <<>>
                 /\ stored.extended[1].block_length = view.extended[1].block_length
            /\ FedsOf(stored) = [k \in DOMAIN FedsOf(view) |-> StoredFed(FedsOf(view)[k])]
            /\ Len(FedsOf(stored)) = Len(FedsOf(view))
<1> DEFINE stored   == StoredView(view)
           minutiae == [k \in DOMAIN view.minutiae |-> StoredMinutia(view.minutiae[k])]
           feds     == [k \in DOMAIN FedsOf(view) |-> StoredFed(FedsOf(view)[k])]
           block    == [block_length |-> view.extended[1].block_length, feds |-> feds]
           extended == IF FedsOf(view) = <<>> THEN <<>> ELSE <<block>>
<1>1. /\ view.finger_number \in UCHAR /\ view.view_number \in UCHAR
      /\ view.impression_type \in UCHAR /\ view.finger_quality \in UCHAR
      /\ view.minutiae \in Seq(Minutiae)
  BY DEF Fvmrs
<1>2. /\ minutiae \in Seq(Minutiae) /\ Len(minutiae) = Len(view.minutiae)
      /\ \A k \in DOMAIN minutiae : minutiae[k] \in FileMinutiae
  <2>1. \A k \in 1 .. Len(view.minutiae) : view.minutiae[k] \in Minutiae
    BY <1>1, ElementOfSeq
  <2>2. DOMAIN view.minutiae = 1 .. Len(view.minutiae)
    BY <1>1, LenProperties
  <2>3. \A k \in 1 .. Len(view.minutiae) : minutiae[k] \in Minutiae /\ minutiae[k] \in FileMinutiae
    BY <2>1, <2>2, StoredMinutiaType
  <2>4. minutiae = [k \in DOMAIN view.minutiae |-> minutiae[k]]
    OBVIOUS
  <2> HIDE DEF minutiae
  <2>5. minutiae \in Seq(Minutiae) /\ Len(minutiae) = Len(view.minutiae)
    BY <1>1, <2>3, <2>4, Mapped
  <2>6. \A k \in DOMAIN minutiae : minutiae[k] \in FileMinutiae
    BY <2>2, <2>3, <2>4
  <2> QED
    BY <2>5, <2>6
<1>3. feds \in Seq(Feds) /\ Len(feds) = Len(FedsOf(view))
  <2>1. \A k \in 1 .. Len(FedsOf(view)) : FedsOf(view)[k] \in Feds
    BY FedsType, ElementOfSeq
  <2>2. DOMAIN FedsOf(view) = 1 .. Len(FedsOf(view)) /\ FedsOf(view) \in Seq(Feds)
    BY FedsType
  <2>3. \A k \in 1 .. Len(FedsOf(view)) : feds[k] \in Feds
    BY <2>1, <2>2, StoredFedType
  <2>4. feds = [k \in DOMAIN FedsOf(view) |-> feds[k]]
    OBVIOUS
  <2> HIDE DEF feds
  <2> QED
    BY <2>2, <2>3, <2>4, Mapped
<1>4. FedsOf(view) # <<>> =>
        /\ view.extended # <<>> /\ view.extended[1] \in Blocks
        /\ view.extended[1].feds = FedsOf(view)
  BY FedsType DEF FedsOf
<1>5. PICK number, impression :
        /\ number = Either(view.view_number % 16, view.impression_type \div 16)
        /\ impression = view.impression_type % 16
  OBVIOUS
<1>6. stored = [finger_number |-> view.finger_number,
                view_number |-> Either(view.view_number % 16, view.impression_type \div 16),
                impression_type |-> view.impression_type % 16,
                finger_quality |-> view.finger_quality,
                minutiae |-> minutiae, extended |-> extended]
  BY Zenon DEF StoredView
<1>7. FedsOf(view) # <<>> => block \in Blocks /\ block.feds = feds
                             /\ block.block_length = view.extended[1].block_length
  BY <1>3, <1>4 DEF Blocks
<1>8. feds = <<>> <=> FedsOf(view) = <<>>
  BY <1>3, EmptySeq, FedsType
<1> HIDE DEF feds, minutiae, block
<1>9. extended \in Seq(Blocks)
  BY <1>7
<1>10. /\ number \in UCHAR /\ number \in 0 .. 15 /\ impression \in UCHAR /\ impression \in 0 .. 15
       /\ view.impression_type <= 15 => number = view.view_number % 16
  <2>1. view.view_number \in Nat /\ view.impression_type \in Nat
    BY <1>1, Unsigned
  <2>2. /\ view.view_number % 16 \in 0 .. 15 /\ view.impression_type \div 16 \in Nat
        /\ impression \in 0 .. 15
    BY <1>5, <2>1
  <2>3. view.view_number % 16 \in Nat
    BY <2>2
  <2>4. number \in 0 .. 15
    BY <1>5, <2>2, <2>3, EitherTypes
  <2>5. \A n \in 0 .. 15 : n \in UCHAR
    BY Unsigned
  <2>6. ASSUME view.impression_type <= 15 PROVE number = view.view_number % 16
    <3>1. view.impression_type \div 16 = 0
      BY <2>1, <2>6
    <3> QED
      BY <1>5, <2>2, <3>1, EitherAlone
  <2> QED
    BY <2>2, <2>4, <2>5, <2>6
<1> HIDE DEF extended
<1>16. stored = [finger_number |-> view.finger_number, view_number |-> number,
                 impression_type |-> impression, finger_quality |-> view.finger_quality,
                 minutiae |-> minutiae, extended |-> extended]
  BY <1>5, <1>6
<1>11. stored \in Fvmrs
  BY <1>1, <1>2, <1>9, <1>10, <1>16 DEF Fvmrs
<1>12. /\ view.impression_type <= 15 => stored.view_number = view.view_number % 16
       /\ stored.view_number = number
       /\ stored.finger_number = view.finger_number
       /\ stored.impression_type = impression
       /\ stored.finger_quality = view.finger_quality
       /\ stored.minutiae = minutiae /\ stored.extended = extended
  BY <1>10, <1>16
<1>17. stored \in FileViews
  BY <1>2, <1>10, <1>11, <1>12 DEF FileViews
<1>13. FedsOf(stored) = feds
  BY <1>7, <1>8, <1>12 DEF FedsOf, extended
<1>14. FedsOf(view) = <<>> => stored.extended = <<>> /\ FedsOf(stored) = <<>>
  BY <1>8, <1>12, <1>13 DEF extended
<1>15. FedsOf(view) # <<>> =>
         /\ stored.extended # <<>>
         /\ stored.extended[1].block_length = view.extended[1].block_length
  BY <1>7, <1>12 DEF extended
<1> QED
  BY <1>2, <1>3, <1>5, <1>11, <1>12, <1>13, <1>14, <1>15, <1>17 DEF minutiae, feds

\* Nothing of it takes more or less bytes.
LEMMA StoredViewBytes ==
  ASSUME NEW view \in Fvmrs
  PROVE  LET stored == StoredView(view)
         IN /\ BlockBytes(stored) = BlockBytes(view)
            /\ UnwrittenAngles(stored) = UnwrittenAngles(view)
            /\ ViewBytes(stored) = ViewBytes(view) /\ ViewBytes(view) \in Nat
            /\ ViewBytes(view) = 6 + 6 * Len(view.minutiae) + BlockBytes(view)
<1> DEFINE stored == StoredView(view)
           n == Len(FedsOf(view))
<1>1. /\ stored \in Fvmrs /\ Len(stored.minutiae) = Len(view.minutiae)
      /\ FedsOf(stored) = [k \in DOMAIN FedsOf(view) |-> StoredFed(FedsOf(view)[k])]
      /\ Len(FedsOf(stored)) = n
  BY StoredViewFields
<1> HIDE DEF stored
<1>2. /\ n \in Nat /\ DOMAIN FedsOf(view) = 1 .. n /\ DOMAIN FedsOf(stored) = 1 .. n
      /\ FedsOf(view) \in Seq(Feds)
  BY <1>1, FedsType
<1>3. \A k \in 1 .. n : FedsOf(view)[k] \in Feds /\ FedsOf(stored)[k] = StoredFed(FedsOf(view)[k])
  BY <1>1, <1>2, ElementOfSeq
<1>4. /\ DOMAIN FedBytesOf(view) = 1 .. n /\ DOMAIN FedBytesOf(stored) = 1 .. n
      /\ DOMAIN UnwrittenIn(view) = 1 .. n /\ DOMAIN UnwrittenIn(stored) = 1 .. n
      /\ \A k \in 1 .. n : FedBytesOf(view)[k] \in Nat /\ UnwrittenIn(view)[k] \in Nat
      /\ BlockBytes(view) \in Nat
  BY <1>1, BlockSums
<1>5. \A k \in 1 .. n : FedBytesOf(stored)[k] = FedBytesOf(view)[k]
                        /\ UnwrittenIn(stored)[k] = UnwrittenIn(view)[k]
  BY <1>2, <1>3, StoredFedType DEF FedBytesOf, UnwrittenIn
<1>6. Weights(FedBytesOf(view), n) /\ Weights(UnwrittenIn(view), n)
  BY <1>4 DEF Weights
<1>7. SumFunction(FedBytesOf(stored)) = SumFunction(FedBytesOf(view))
  BY <1>2, <1>4, <1>5, <1>6, SumAgrees
<1>8. SumFunction(UnwrittenIn(stored)) = SumFunction(UnwrittenIn(view))
  BY <1>2, <1>4, <1>5, <1>6, SumAgrees
<1>9. BlockBytes(stored) = BlockBytes(view) /\ UnwrittenAngles(stored) = UnwrittenAngles(view)
  BY <1>1, <1>7, <1>8, BlockSums
<1>10. view.minutiae \in Seq(Minutiae)
  BY DEF Fvmrs
<1>11. Len(view.minutiae) \in Nat
  BY <1>10, LenProperties
<1>12. ViewBytes(view) = 6 + 6 * Len(view.minutiae) + BlockBytes(view)
  BY <1>4, <1>11 DEF ViewBytes, FVMR_HEADER_LENGTH, FMD_DATA_LENGTH, FEDB_HEADER_LENGTH
<1>13. ViewBytes(stored) = 6 + 6 * Len(view.minutiae) + BlockBytes(view)
  BY <1>1, <1>4, <1>9, <1>11 DEF ViewBytes, FVMR_HEADER_LENGTH, FMD_DATA_LENGTH, FEDB_HEADER_LENGTH
<1>14. ViewBytes(view) \in Nat
  BY <1>4, <1>11, <1>12
<1> QED
  BY <1>9, <1>12, <1>13, <1>14 DEF stored

ViewBytesOf(record) == [k \in DOMAIN record.views |-> ViewBytes(record.views[k])]
AnglesOf(record)    == [k \in DOMAIN record.views |-> UnwrittenAngles(record.views[k])]

LEMMA RecordSums ==
  ASSUME NEW record \in Fmrs
  PROVE  /\ DOMAIN record.views = 1 .. Len(record.views) /\ Len(record.views) \in Nat
         /\ \A k \in 1 .. Len(record.views) : record.views[k] \in Fvmrs
         /\ RecordBytes(record) = HeaderOf(record) + SumFunction(ViewBytesOf(record))
         /\ SumOf(UnwrittenAngles, record.views) = SumFunction(AnglesOf(record))
         /\ DOMAIN ViewBytesOf(record) = 1 .. Len(record.views)
         /\ DOMAIN AnglesOf(record) = 1 .. Len(record.views)
         /\ Weights(ViewBytesOf(record), Len(record.views))
         /\ Weights(AnglesOf(record), Len(record.views))
         /\ SumFunction(ViewBytesOf(record)) \in Nat /\ SumFunction(AnglesOf(record)) \in Nat
         /\ HeaderOf(record) \in {26, 30} /\ RecordBytes(record) \in Nat /\ RecordBytes(record) >= 26
<1> DEFINE n == Len(record.views)
<1>1. record.views \in Seq(Fvmrs)
  BY DEF Fmrs
<1>2. DOMAIN record.views = 1 .. n /\ n \in Nat
  BY <1>1, LenProperties
<1>3. \A k \in 1 .. n : record.views[k] \in Fvmrs
  BY <1>1, ElementOfSeq
<1>4. DOMAIN ViewBytesOf(record) = 1 .. n /\ DOMAIN AnglesOf(record) = 1 .. n
  BY <1>2 DEF ViewBytesOf, AnglesOf
<1>5. \A k \in 1 .. n : ViewBytesOf(record)[k] \in Nat /\ AnglesOf(record)[k] \in Nat
  BY <1>2, <1>3, StoredViewBytes, BlockSums DEF ViewBytesOf, AnglesOf
<1>6. Weights(ViewBytesOf(record), n) /\ Weights(AnglesOf(record), n)
  BY <1>5 DEF Weights
<1>7. SumFunction(ViewBytesOf(record)) \in Nat /\ SumFunction(AnglesOf(record)) \in Nat
  BY <1>2, <1>4, <1>5, SumType
<1>8. RecordBytes(record) = HeaderOf(record) + SumFunction(ViewBytesOf(record))
  BY DEF RecordBytes, SumOf, ViewBytesOf
<1>9. SumOf(UnwrittenAngles, record.views) = SumFunction(AnglesOf(record))
  BY DEF SumOf, AnglesOf
<1>10. HeaderOf(record) \in {26, 30}
  BY DEF HeaderOf, SMALL_HEADER, LARGE_HEADER
<1>11. RecordBytes(record) \in Nat /\ RecordBytes(record) >= 26
  BY <1>7, <1>8, <1>10
<1> QED
  BY <1>2, <1>3, <1>4, <1>6, <1>7, <1>8, <1>9, <1>10, <1>11

\* A record and what is stored of it.
LEMMA StoredFields ==
  ASSUME NEW record \in Fmrs
  PROVE  LET stored == Stored(record)
         IN /\ stored \in FileFmrs
            /\ stored.record_length = record.record_length
            /\ stored.long = (record.record_length > USHRT_MAX)
            /\ stored.owner = record.owner /\ stored.num_views = record.num_views
            /\ stored.x_image_size = record.x_image_size /\ stored.y_image_size = record.y_image_size
            /\ stored.x_resolution = record.x_resolution /\ stored.y_resolution = record.y_resolution
            /\ Len(stored.views) = Len(record.views)
            /\ \A k \in 1 .. Len(record.views) : stored.views[k] = StoredView(record.views[k])
<1> DEFINE stored == Stored(record)
           views  == [k \in DOMAIN record.views |-> StoredView(record.views[k])]
<1>1. record.views \in Seq(Fvmrs) /\ record.record_length \in Nat
  BY DEF Fmrs
<1>2. \A k \in 1 .. Len(record.views) : record.views[k] \in Fvmrs
  BY <1>1, ElementOfSeq
<1>3. DOMAIN record.views = 1 .. Len(record.views)
  BY <1>1, LenProperties
<1>4. \A k \in 1 .. Len(record.views) : views[k] \in Fvmrs /\ views[k] \in FileViews
  BY <1>2, <1>3, StoredViewFields
<1>5. views = [k \in DOMAIN record.views |-> views[k]]
  OBVIOUS
<1>6. \A k \in 1 .. Len(record.views) : views[k] = StoredView(record.views[k])
  BY <1>3
<1> HIDE DEF views
<1>7. views \in Seq(Fvmrs) /\ Len(views) = Len(record.views) /\ DOMAIN views = 1 .. Len(record.views)
  BY <1>1, <1>4, <1>5, Mapped
<1>8. stored = [record EXCEPT !.long = record.record_length > USHRT_MAX, !.views = views]
  BY Zenon DEF Stored, views
<1>9. (record.record_length > USHRT_MAX) \in BOOLEAN
  OBVIOUS
<1>10. stored \in Fmrs /\ stored.views = views
  BY <1>7, <1>8, <1>9 DEF Fmrs
<1>11. /\ stored.record_length = record.record_length
       /\ stored.long = (record.record_length > USHRT_MAX)
       /\ stored.owner = record.owner /\ stored.num_views = record.num_views
       /\ stored.x_image_size = record.x_image_size /\ stored.y_image_size = record.y_image_size
       /\ stored.x_resolution = record.x_resolution /\ stored.y_resolution = record.y_resolution
  BY <1>8 DEF Fmrs
<1>12. stored \in FileFmrs
  BY <1>4, <1>7, <1>10 DEF FileFmrs
<1> QED
  BY <1>6, <1>7, <1>10, <1>11, <1>12

\* Its length, and what its fields need.
LEMMA StoredBytes ==
  ASSUME NEW record \in Fmrs
  PROVE  LET stored == Stored(record)
         IN /\ RecordBytes(stored) = HeaderOf(stored) + SumFunction(ViewBytesOf(record))
            /\ SumOf(UnwrittenAngles, stored.views) = SumFunction(AnglesOf(record))
            /\ DataFit(stored) <=> DataFit(record)
            /\ Whole(stored) <=> Whole(record)
<1> DEFINE stored == Stored(record)
           n == Len(record.views)
<1>1. /\ stored \in Fmrs /\ Len(stored.views) = n /\ stored.num_views = record.num_views
      /\ \A k \in 1 .. n : stored.views[k] = StoredView(record.views[k])
  BY StoredFields DEF FileFmrs
<1> HIDE DEF stored
<1>2. /\ n \in Nat /\ DOMAIN record.views = 1 .. n /\ DOMAIN stored.views = 1 .. n
      /\ \A k \in 1 .. n : record.views[k] \in Fvmrs
      /\ DOMAIN ViewBytesOf(record) = 1 .. n /\ DOMAIN ViewBytesOf(stored) = 1 .. n
      /\ DOMAIN AnglesOf(record) = 1 .. n /\ DOMAIN AnglesOf(stored) = 1 .. n
      /\ Weights(ViewBytesOf(record), n) /\ Weights(AnglesOf(record), n)
      /\ RecordBytes(stored) = HeaderOf(stored) + SumFunction(ViewBytesOf(stored))
      /\ SumOf(UnwrittenAngles, stored.views) = SumFunction(AnglesOf(stored))
  BY <1>1, RecordSums
<1>3. \A k \in 1 .. n : /\ ViewBytes(stored.views[k]) = ViewBytes(record.views[k])
                        /\ UnwrittenAngles(stored.views[k]) = UnwrittenAngles(record.views[k])
                        /\ BlockBytes(stored.views[k]) = BlockBytes(record.views[k])
  BY <1>1, <1>2, StoredViewBytes
<1>4. \A k \in 1 .. n : /\ ViewBytesOf(stored)[k] = ViewBytesOf(record)[k]
                        /\ AnglesOf(stored)[k] = AnglesOf(record)[k]
  BY <1>2, <1>3 DEF ViewBytesOf, AnglesOf
<1>5. SumFunction(ViewBytesOf(stored)) = SumFunction(ViewBytesOf(record))
  BY <1>2, <1>4, SumAgrees
<1>6. SumFunction(AnglesOf(stored)) = SumFunction(AnglesOf(record))
  BY <1>2, <1>4, SumAgrees
<1>7. DataFit(stored) <=> DataFit(record)
  BY <1>2, <1>3 DEF DataFit
<1>8. Whole(stored) <=> Whole(record)
  BY <1>1 DEF Whole
<1> QED
  BY <1>2, <1>5, <1>6, <1>7, <1>8 DEF stored

-----------------------------------------------------------------------------
(* Files.                                                                  *)

LEMMA FileTypes ==
  /\ NoFile \in Files /\ Empty \in Files
  /\ NoFile.kind = "none" /\ Empty.kind = "fmr" /\ Empty.records = <<>>
  /\ \A s \in Seq(FileFmrs) : Fmr(s) \in Files /\ Fmr(s).kind = "fmr" /\ Fmr(s).records = s
  /\ \A a \in [contents : Seq(Nat \X Nat), records : Seq(AnsiRecords)] :
       An2k(a) \in Files /\ An2k(a).kind = "an2k" /\ An2k(a).records = a.records
  /\ \A f \in Files :
       /\ f.kind = "fmr"  => f.records \in Seq(FileFmrs) /\ f = Fmr(f.records)
       /\ f.kind = "an2k" => f.records \in Seq(AnsiRecords)
       /\ f.kind = "text" => f.texts \in [TextFiles -> Seq(Nat)]
<1>1. <<>> \in Seq(FileFmrs)
  OBVIOUS
<1>2. \A s \in Seq(FileFmrs) : Fmr(s) \in Files /\ Fmr(s).kind = "fmr" /\ Fmr(s).records = s
  BY DEF Files, Fmr
<1>3. NoFile \in Files /\ NoFile.kind = "none"
  BY DEF Files, NoFile
<1>4. Empty \in Files /\ Empty.kind = "fmr" /\ Empty.records = <<>>
  BY <1>1, <1>2 DEF Empty
<1>5. \A a \in [contents : Seq(Nat \X Nat), records : Seq(AnsiRecords)] :
        An2k(a) \in Files /\ An2k(a).kind = "an2k" /\ An2k(a).records = a.records
  BY DEF Files, An2k
<1>6. ASSUME NEW f \in Files
      PROVE  /\ f.kind = "fmr"  => f.records \in Seq(FileFmrs) /\ f = Fmr(f.records)
             /\ f.kind = "an2k" => f.records \in Seq(AnsiRecords)
             /\ f.kind = "text" => f.texts \in [TextFiles -> Seq(Nat)]
  BY DEF Files, NoFile, Fmr
<1> QED
  BY <1>2, <1>3, <1>4, <1>5, <1>6

LEMMA FirstRecord ==
  ASSUME NEW f \in Files, Reads(f)
  PROVE  Head(f.records) \in FileFmrs /\ Head(f.records) = f.records[1] /\ Len(f.records) >= 1
<1>1. f.records \in Seq(FileFmrs) /\ f.records # <<>>
  BY FileTypes DEF Reads
<1> QED
  BY <1>1, HeadTailProperties, EmptySeq, LenProperties

LEMMA FrontPart ==
  ASSUME NEW S, NEW s \in Seq(S), NEW n \in Nat, n <= Len(s)
  PROVE  LET front == SubSeq(s, 1, n)
         IN /\ front \in Seq(S) /\ Len(front) = n /\ DOMAIN front = 1 .. n
            /\ \A k \in 1 .. n : front[k] = s[k]
<1>1. \A k \in 1 .. n : s[k] \in S
  BY ElementOfSeq, LenProperties
<1>2. /\ SubSeq(s, 1, n) \in Seq(S)
      /\ Len(SubSeq(s, 1, n)) = IF 1 <= n THEN n - 1 + 1 ELSE 0
      /\ \A k \in 1 .. n - 1 + 1 : SubSeq(s, 1, n)[k] = s[1 + k - 1]
  BY <1>1, SubSeqProperties
<1>3. Len(SubSeq(s, 1, n)) = n
  BY <1>2
<1>4. \A k \in 1 .. n : SubSeq(s, 1, n)[k] = s[k]
  BY <1>2
<1> QED
  BY <1>2, <1>3, <1>4, LenProperties

\* What a full disk leaves is some records that could be in a file.
LEMMA CutTypes ==
  ASSUME NEW record \in FileFmrs, NEW cut \in CutRecord(record)
  PROVE  cut \in Seq(FileFmrs)
<1>1. CASE cut = <<>>
  BY <1>1
<1>2. CASE cut # <<>>
  <2> DEFINE half == SubSeq(record.views, 1, Len(record.views) \div 2)
  <2>1. cut = <<[record EXCEPT !.views = half]>>
    BY <1>2 DEF CutRecord
  <2>2. record.views \in Seq(Fvmrs) /\ record \in Fmrs
    BY DEF FileFmrs, Fmrs
  <2>3. /\ Len(record.views) \in Nat
        /\ DOMAIN record.views = 1 .. Len(record.views)
    BY <2>2, LenProperties
  <2>4. Len(record.views) \div 2 \in Nat /\ Len(record.views) \div 2 <= Len(record.views)
    <3>1. ASSUME NEW m \in Nat PROVE m \div 2 \in Nat /\ m \div 2 <= m
      OBVIOUS
    <3> QED
      BY <2>3, <3>1
  <2> DEFINE n == Len(record.views) \div 2
  <2>5. /\ half \in Seq(Fvmrs) /\ DOMAIN half = 1 .. n /\ n \in Nat /\ n <= Len(record.views)
        /\ \A k \in 1 .. n : half[k] = record.views[k]
    BY <2>2, <2>4, FrontPart
  <2> HIDE DEF half, n
  <2>6. \A k \in DOMAIN record.views : record.views[k] \in FileViews
    BY DEF FileFmrs
  <2>7. \A k \in DOMAIN half : half[k] \in FileViews
    BY <2>3, <2>5, <2>6
  <2>8. [record EXCEPT !.views = half] \in Fmrs /\ [record EXCEPT !.views = half].views = half
    BY <2>2, <2>5 DEF Fmrs
  <2>9. [record EXCEPT !.views = half] \in FileFmrs
    BY <2>7, <2>8 DEF FileFmrs
  <2> QED
    BY <2>1, <2>9
<1> QED
  BY <1>1, <1>2

-----------------------------------------------------------------------------
(* The choices of fmrprune and the orders of fmrsort.                      *)

\* A set of indexes in some order.
LEMMA InOrder ==
  ASSUME NEW n \in Nat, NEW S, S \subseteq 1 .. n, NEW s \in SetToSeqs(S)
  PROVE  /\ IsFiniteSet(S) /\ Cardinality(S) \in Nat /\ Cardinality(S) <= n
         /\ DOMAIN s = 1 .. Cardinality(S) /\ s \in Seq(S) /\ Len(s) = Cardinality(S)
         /\ \A k, l \in DOMAIN s : s[k] = s[l] => k = l
         /\ Range(s) = S
<1> DEFINE D == 1 .. Cardinality(S)
<1>1. IsFiniteSet(1 .. n) /\ Cardinality(1 .. n) = n
  BY FS_Interval
<1>2. IsFiniteSet(S) /\ Cardinality(S) <= n
  BY <1>1, FS_Subset
<1>3. Cardinality(S) \in Nat
  BY <1>2, FS_CardinalityType
<1>4. s \in [D -> S] /\ \A k, l \in D : k # l => s[k] # s[l]
  BY DEF SetToSeqs
<1>5. s \in Injection(D, S)
  BY <1>4 DEF Injection, IsInjective
<1>6. IsFiniteSet(D) /\ Cardinality(D) = Cardinality(S)
  BY <1>3, FS_Interval
<1>7. s \in Surjection(D, S)
  BY <1>2, <1>5, <1>6, FS_Injection
<1>8. \A x \in S : \E k \in D : s[k] = x
  BY <1>7 DEF Surjection
<1>9. Range(s) = S
  BY <1>4, <1>8 DEF Range
<1>10. s \in Seq(S) /\ Len(s) = Cardinality(S)
  BY <1>3, <1>4, LenProperties
<1> QED
  BY <1>2, <1>3, <1>4, <1>9, <1>10

LEMMA ArrangedTypes ==
  ASSUME NEW minutiae \in Seq(Minutiae), NEW S, S \subseteq DOMAIN minutiae, NEW s \in SetToSeqs(S)
  PROVE  /\ Arranged(minutiae, s) \in Seq(Minutiae)
         /\ Len(Arranged(minutiae, s)) = Cardinality(S)
         /\ DOMAIN Arranged(minutiae, s) = DOMAIN s
         /\ \A k \in DOMAIN s : Arranged(minutiae, s)[k] = minutiae[s[k]]
<1>1. DOMAIN minutiae = 1 .. Len(minutiae) /\ Len(minutiae) \in Nat
  BY LenProperties
<1>2. /\ DOMAIN s = 1 .. Cardinality(S) /\ s \in Seq(S) /\ Cardinality(S) \in Nat
  BY <1>1, InOrder
<1>3. \A k \in DOMAIN s : s[k] \in 1 .. Len(minutiae)
  BY <1>1, <1>2, ElementOfSeq, LenProperties
<1>4. \A k \in DOMAIN s : minutiae[s[k]] \in Minutiae
  BY <1>3, ElementOfSeq
<1>5. /\ DOMAIN Arranged(minutiae, s) = DOMAIN s
      /\ \A k \in DOMAIN s : Arranged(minutiae, s)[k] = minutiae[s[k]]
      /\ Arranged(minutiae, s) \in [1 .. Cardinality(S) -> Minutiae]
  BY <1>2, <1>4 DEF Arranged
<1> QED
  BY <1>2, <1>5, LenProperties

\* An order of some indexes is one way to put them in sequence.
LEMMA SortedIsOrder ==
  ASSUME NEW minutiae \in Seq(Minutiae), NEW method \in {"polar", "xy", "yx", "angle", "random"},
         NEW s \in Sorted(minutiae, method)
  PROVE  s \in SetToSeqs(DOMAIN minutiae)
BY DEF Sorted, sort_fmd_by_polar, sort_fmd_by_xy, sort_fmd_by_yx, sort_fmd_by_angle,
       sort_fmd_by_random, Order, Qsort

LEMMA EllipticalIsOrder ==
  ASSUME NEW minutiae, NEW a, NEW b, NEW s \in Elliptical(minutiae, a, b)
  PROVE  \E S : S \subseteq DOMAIN minutiae /\ s \in SetToSeqs(S)
<1> DEFINE z(k)   == Z(minutiae[k], CenterOfMass(minutiae), a, b)
           inside == {k \in DOMAIN minutiae : z(k) < Square(a * b)}
           on     == {k \in DOMAIN minutiae : z(k) = Square(a * b)}
<1>1. \E some \in SUBSET on : s \in SetToSeqs(inside \cup some)
  BY DEF Elliptical, Qsort
<1>2. \A some \in SUBSET on : inside \cup some \subseteq DOMAIN minutiae
  OBVIOUS
<1> QED
  BY <1>1, <1>2

\* Reversed, an order is an order.
LEMMA ReversedOrder ==
  ASSUME NEW n \in Nat, NEW S, S \subseteq 1 .. n, NEW s \in SetToSeqs(S)
  PROVE  Reverse(s) \in SetToSeqs(S)
<1> DEFINE c == Cardinality(S)
<1>1. /\ c \in Nat /\ DOMAIN s = 1 .. c /\ s \in Seq(S) /\ Len(s) = c
      /\ \A k, l \in DOMAIN s : s[k] = s[l] => k = l
  BY InOrder
<1> HIDE DEF c
<1>2. \A k \in 1 .. c : (c - k) + 1 \in 1 .. c
  BY <1>1
<1>3. \A k, l \in 1 .. c : (c - k) + 1 = (c - l) + 1 => k = l
  BY <1>1
<1>4. Reverse(s) = [k \in 1 .. c |-> s[(c - k) + 1]]
  BY <1>1 DEF Reverse
<1>5. \A k \in 1 .. c : s[k] \in S
  BY <1>1, ElementOfSeq
<1>6. Reverse(s) \in [1 .. c -> S]
  BY <1>2, <1>4, <1>5
<1>7. \A k, l \in 1 .. c : k # l => Reverse(s)[k] # Reverse(s)[l]
  BY <1>1, <1>2, <1>3, <1>4
<1> QED
  BY <1>6, <1>7 DEF SetToSeqs, c

PruneOptions == [method : {"polar", "random", "elliptical", "rectangular"},
                 n : Int, a : Int, b : Int, x : Int, y : Int]
SortOptions  == [method : {"polar", "xy", "yx", "angle", "random"}, descending : BOOLEAN]

LEMMA PrunedIsArranged ==
  ASSUME NEW minutiae \in Seq(Minutiae), minutiae # <<>>,
         NEW o \in PruneOptions, NEW new \in Pruned(minutiae, o)
  PROVE  \E S \in Selected(minutiae, o) : \E s \in SetToSeqs(S) :
           S \subseteq DOMAIN minutiae /\ new = Arranged(minutiae, s)
<1>1. PICK S \in Selected(minutiae, o) : \E s \in SetToSeqs(S) : new = Arranged(minutiae, s)
  BY DEF Pruned, ByIndex
<1>2. DOMAIN minutiae = 1 .. Len(minutiae) /\ Len(minutiae) \in Nat
  BY LenProperties
<1>3. \A T, s, m : T \subseteq DOMAIN minutiae /\ s \in SetToSeqs(T) => First(m, s) \subseteq DOMAIN minutiae
  <2> SUFFICES ASSUME NEW T, NEW s, NEW m, T \subseteq DOMAIN minutiae, s \in SetToSeqs(T)
               PROVE  First(m, s) \subseteq DOMAIN minutiae
    OBVIOUS
  <2>1. Range(s) = T
    BY <1>2, InOrder
  <2> QED
    BY <2>1 DEF First, Range
<1>4. S \subseteq DOMAIN minutiae
  <2>1. CASE o.method \in {"polar", "random"}
    <3>1. \E s \in Sorted(minutiae, o.method) : S = First(o.n, s)
      BY <1>1, <2>1 DEF Selected
    <3> QED
      BY <1>3, <2>1, <3>1, SortedIsOrder
  <2>2. CASE o.method = "elliptical"
    <3>1. \E s \in Elliptical(minutiae, o.a, o.b) : S = First(o.n, s)
      BY <1>1, <2>2 DEF Selected
    <3> QED
      BY <1>3, <3>1, EllipticalIsOrder
  <2>3. CASE o.method = "rectangular"
    BY <1>1, <2>3 DEF Selected, Rectangular
  <2> QED
    BY <2>1, <2>2, <2>3 DEF PruneOptions
<1> QED
  BY <1>1, <1>4

LEMMA ResortedIsArranged ==
  ASSUME NEW minutiae \in Seq(Minutiae), minutiae # <<>>,
         NEW o \in SortOptions, NEW new \in Resorted(minutiae, o)
  PROVE  \E s \in SetToSeqs(DOMAIN minutiae) : new = Arranged(minutiae, s)
<1>1. PICK s \in Sorted(minutiae, o.method) :
        new = Arranged(minutiae, IF o.descending THEN Reverse(s) ELSE s)
  BY DEF Resorted
<1>2. o.method \in {"polar", "xy", "yx", "angle", "random"}
  BY DEF SortOptions
<1>3. s \in SetToSeqs(DOMAIN minutiae)
  BY <1>2, SortedIsOrder
<1>4. DOMAIN minutiae = 1 .. Len(minutiae) /\ Len(minutiae) \in Nat
  BY LenProperties
<1>5. Reverse(s) \in SetToSeqs(DOMAIN minutiae)
  BY <1>3, <1>4, ReversedOrder
<1> QED
  BY <1>1, <1>3, <1>5

\* Minutiae of the old ones.
LEMMA SelectedTypes ==
  ASSUME NEW minutiae \in Seq(Minutiae)
  PROVE  /\ \A o \in PruneOptions : \A new \in Pruned(minutiae, o) :
              new \in Seq(Minutiae) /\ Range(new) \subseteq Range(minutiae)
         /\ \A o \in SortOptions : \A new \in Resorted(minutiae, o) :
              new \in Seq(Minutiae) /\ Range(new) \subseteq Range(minutiae)
<1>1. DOMAIN minutiae = 1 .. Len(minutiae) /\ Len(minutiae) \in Nat
  BY LenProperties
<1>2. ASSUME NEW S, S \subseteq DOMAIN minutiae, NEW s \in SetToSeqs(S)
      PROVE  /\ Arranged(minutiae, s) \in Seq(Minutiae)
             /\ Range(Arranged(minutiae, s)) \subseteq Range(minutiae)
  <2>1. /\ Arranged(minutiae, s) \in Seq(Minutiae) /\ DOMAIN Arranged(minutiae, s) = DOMAIN s
        /\ \A k \in DOMAIN s : Arranged(minutiae, s)[k] = minutiae[s[k]]
    BY <1>2, ArrangedTypes
  <2>2. Range(s) = S
    BY <1>1, <1>2, InOrder
  <2> QED
    BY <1>2, <2>1, <2>2 DEF Range
<1>3. CASE minutiae = <<>>
  BY <1>3 DEF Pruned, Resorted, Range
<1>4. CASE minutiae # <<>>
  <2>1. ASSUME NEW o \in PruneOptions, NEW new \in Pruned(minutiae, o)
        PROVE  new \in Seq(Minutiae) /\ Range(new) \subseteq Range(minutiae)
    BY <1>2, <1>4, PrunedIsArranged
  <2>2. ASSUME NEW o \in SortOptions, NEW new \in Resorted(minutiae, o)
        PROVE  new \in Seq(Minutiae) /\ Range(new) \subseteq Range(minutiae)
    BY <1>2, <1>4, ResortedIsArranged
  <2> QED
    BY <2>1, <2>2
<1> QED
  BY <1>3, <1>4

-----------------------------------------------------------------------------
(* The records of an ANSI/NIST file.                                       *)

LEMMA OneOfEachTypes ==
  ASSUME NEW sets, NEW s \in OneOfEach(sets)
  PROVE  /\ s = [k \in DOMAIN sets |-> s[k]] /\ DOMAIN s = DOMAIN sets
         /\ \A k \in DOMAIN sets : s[k] \in sets[k]
BY DEF OneOfEach

LEMMA TruncatedTypes ==
  ASSUME NEW n \in Int, NEW d \in Nat \ {0}, NEW size
  PROVE  Truncated(n, d, size) \subseteq Int
<1>1. n \div d \in Int
  OBVIOUS
<1>2. /\ {n \div d} \subseteq Int /\ ({n \div d - 1} \cap Nat) \subseteq Int
      /\ {n \div d + 1} \subseteq Int /\ {0} \subseteq Int
  BY <1>1
<1> QED
  BY <1>2, SMT DEF Truncated

LEMMA UshrtTypes == \A n \in Int : USHRT(n) \in USHORT
BY Remainders DEF USHRT

LEMMA TensTypes ==
  /\ \A k \in 0 .. 9 : Ten(k) \in Nat /\ Ten(k) > 0
  /\ Ten(3) < Ten(4) /\ Ten(4) < Ten(5) /\ Ten(5) < Ten(6) /\ Ten(6) < Ten(7) /\ Ten(7) < Ten(8)
  /\ \A n \in USHORT : n < Ten(5)
  /\ \A n \in 0 .. 360 : n < Ten(3)
<1>1. /\ Ten(0) = 1 /\ Ten(1) = 10 /\ Ten(2) = 100 /\ Ten(3) = 1000 /\ Ten(4) = 10000
      /\ Ten(5) = 100000 /\ Ten(6) = 1000000 /\ Ten(7) = 10000000 /\ Ten(8) = 100000000
      /\ Ten(9) = 1000000000
  BY SMT DEF Ten, Tens
<1>2. ASSUME NEW k \in 0 .. 9
      PROVE  k = 0 \/ k = 1 \/ k = 2 \/ k = 3 \/ k = 4 \/ k = 5 \/ k = 6 \/ k = 7 \/ k = 8 \/ k = 9
  OBVIOUS
<1>3. ASSUME NEW k \in 0 .. 9 PROVE Ten(k) \in Nat /\ Ten(k) > 0
  BY <1>1, <1>2, SMT
<1>4. \A n \in USHORT : n < Ten(5)
  BY <1>1, Unsigned, SMT
<1> QED
  BY <1>1, <1>3, <1>4, SMT

LEMMA DigitsTypes ==
  ASSUME NEW n \in Nat, n < Ten(5), NEW width \in {3, 4}
  PROVE  /\ Digits(n, width) \in Seq(0 .. 9) /\ Len(Digits(n, width)) \in width .. 5
         /\ DOMAIN Digits(n, width) = 1 .. Len(Digits(n, width))
         /\ n < Ten(Len(Digits(n, width)))
         /\ Len(Digits(n, width)) > width => n >= Ten(Len(Digits(n, width)) - 1)
         /\ \A k \in 1 .. Len(Digits(n, width)) :
              Digits(n, width)[k] = (n \div Ten(Len(Digits(n, width)) - k)) % 10
<1> DEFINE HasDigits(k) == n < Ten(k) /\ (k > width => n >= Ten(k - 1))
           length == CHOOSE k \in width .. 9 : HasDigits(k)
<1>1. \E k \in width .. 9 : HasDigits(k)
  <2>1. CASE n < Ten(width)
    BY <2>1
  <2>2. CASE ~ n < Ten(width) /\ n < Ten(4)
    <3>1. width = 3
      BY <2>2
    <3>2. n >= Ten(3)
      BY <2>2, <3>1, TensTypes
    <3>3. HasDigits(4)
      BY <2>2, <3>1, <3>2
    <3> QED
      BY <3>1, <3>3
  <2>3. CASE ~ n < Ten(width) /\ ~ n < Ten(4)
    <3>1. n >= Ten(4)
      BY <2>3, TensTypes
    <3>2. HasDigits(5)
      BY <3>1
    <3> QED
      BY <3>2
  <2> QED
    BY <2>1, <2>2, <2>3
<1>2. length \in width .. 9 /\ HasDigits(length)
  BY <1>1
<1>3. Digits(n, width) = [k \in 1 .. length |-> (n \div Ten(length - k)) % 10]
  BY DEF Digits
<1> HIDE DEF length
<1>4. length <= 5
  <2>1. length = 6 \/ length = 7 \/ length = 8 \/ length = 9 => n >= Ten(length - 1)
    BY <1>2
  <2>2. Ten(5) <= Ten(6) /\ Ten(5) <= Ten(7) /\ Ten(5) <= Ten(8)
    <3>1. Ten(5) \in Nat /\ Ten(6) \in Nat /\ Ten(7) \in Nat /\ Ten(8) \in Nat
      BY TensTypes
    <3> QED
      BY <3>1, TensTypes
  <2>3. length = 6 \/ length = 7 \/ length = 8 \/ length = 9 => FALSE
    <3>1. length = 6 => n >= Ten(5)
      BY <2>1
    <3>2. length = 7 => n >= Ten(6)
      BY <2>1
    <3>3. length = 8 => n >= Ten(7)
      BY <2>1
    <3>4. length = 9 => n >= Ten(8)
      BY <2>1
    <3>5. Ten(5) \in Nat /\ Ten(6) \in Nat /\ Ten(7) \in Nat /\ Ten(8) \in Nat
      BY TensTypes
    <3> QED
      BY <2>2, <3>1, <3>2, <3>3, <3>4, <3>5
  <2> QED
    BY <1>2, <2>3
<1>5. \A k \in 1 .. length : (n \div Ten(length - k)) % 10 \in 0 .. 9
  <2>1. ASSUME NEW m \in Nat, NEW d \in Nat, d > 0 PROVE (m \div d) % 10 \in 0 .. 9
    <3>1. m \div d \in Int
      BY <2>1
    <3>2. ASSUME NEW q \in Int PROVE q % 10 \in 0 .. 9
      OBVIOUS
    <3> QED
      BY <3>1, <3>2
  <2>2. \A k \in 1 .. length : length - k \in 0 .. 9
    BY <1>2
  <2> QED
    BY <2>1, <2>2, TensTypes
<1>6. /\ Digits(n, width) \in Seq(0 .. 9) /\ Len(Digits(n, width)) = length
      /\ DOMAIN Digits(n, width) = 1 .. length
  BY <1>2, <1>3, <1>5, LenProperties
<1> QED
  BY <1>2, <1>3, <1>4, <1>6

\* A number of digits.
LEMMA NumberTypes ==
  ASSUME NEW S, S \subseteq Int, NEW digits \in Seq(S), Len(digits) <= 10
  PROVE  Number(digits) \in Int
<1> DEFINE w == [k \in DOMAIN digits |-> digits[k] * Ten(Len(digits) - k)]
           n == Len(digits)
<1>1. DOMAIN digits = 1 .. n /\ n \in Nat
  BY LenProperties
<1>2. \A k \in 1 .. n : digits[k] \in Int
  BY ElementOfSeq
<1>3. \A k \in 1 .. n : n - k \in 0 .. 9
  <2>1. ASSUME NEW m \in Nat, m <= 10 PROVE \A k \in 1 .. m : m - k \in 0 .. 9
    BY <2>1
  <2> QED
    BY <1>1, <2>1
<1>4. \A k \in 1 .. n : digits[k] * Ten(n - k) \in Int
  <2>1. ASSUME NEW a \in Int, NEW b \in Nat PROVE a * b \in Int
    OBVIOUS
  <2> QED
    BY <1>2, <1>3, <2>1, TensTypes
<1>5. DOMAIN w = 1 .. n /\ Weights(w, n)
  BY <1>1, <1>4 DEF Weights
<1>6. Number(digits) = SumFunction(w)
  BY DEF Number
<1> HIDE DEF w
<1> QED
  BY <1>1, <1>5, <1>6, SumType

\* A part of the digits, as a number.
LEMMA PartTypes ==
  ASSUME NEW n \in Nat, NEW digits \in Items(n), NEW a \in 1 .. 9, NEW b \in 4 .. 11, b <= n, a <= b,
         b - a <= 9
  PROVE  Number(SubSeq(digits, a, b)) \in Int
<1>1. digits \in Seq(0 .. 9) /\ Len(digits) >= n
  BY DEF Items
<1>2. Len(digits) \in Nat
  BY <1>1, LenProperties
<1>3. \A k \in a .. b : k \in 1 .. Len(digits)
  BY <1>1, <1>2
<1>4. \A k \in a .. b : digits[k] \in 0 .. 9
  BY <1>1, <1>3, ElementOfSeq
<1>5. /\ SubSeq(digits, a, b) \in Seq(0 .. 9)
      /\ Len(SubSeq(digits, a, b)) = IF a <= b THEN b - a + 1 ELSE 0
  BY <1>4, SubSeqProperties
<1>6. Len(SubSeq(digits, a, b)) <= 10
  BY <1>5
<1>7. 0 .. 9 \subseteq Int
  OBVIOUS
<1> QED
  BY <1>5, <1>6, <1>7, NumberTypes

LEMMA AnsiCoordinates ==
  ASSUME NEW record \in Fmrs, NEW p, p.x \in USHORT, p.y \in USHORT
  PROVE  AnsiX(record, p) \subseteq USHORT /\ AnsiY(record, p) \subseteq USHORT
<1>1. /\ record.x_resolution \in Nat /\ record.y_resolution \in Nat /\ record.y_image_size \in Nat
      /\ p.x \in Nat /\ p.y \in Nat /\ 0 \in USHORT
  BY Unsigned DEF Fmrs
<1>2. ASSUME NEW n \in Int, NEW d \in Nat \ {0}, NEW size
      PROVE  {USHRT(q) : q \in Truncated(n, d, size)} \subseteq USHORT
  <2>1. \A q \in Truncated(n, d, size) : q \in Int
    BY TruncatedTypes
  <2> QED
    BY <2>1, UshrtTypes
<1>3. AnsiX(record, p) \subseteq USHORT
  <2>1. CASE record.x_resolution = 0
    BY <1>1, <2>1 DEF AnsiX
  <2>2. CASE record.x_resolution # 0
    <3>1. /\ 2000 * p.x + record.x_resolution \in Int
          /\ 2 * record.x_resolution \in Nat \ {0}
      BY <1>1, <2>2, SMT
    <3> QED
      BY <1>2, <2>2, <3>1, SMT DEF AnsiX
  <2> QED
    BY <2>1, <2>2
<1>4. AnsiY(record, p) \subseteq USHORT
  <2>1. CASE record.y_resolution = 0
    BY <1>1, <2>1 DEF AnsiY
  <2>2. CASE record.y_resolution # 0
    <3>1. /\ 1000 * (record.y_image_size - 1 - p.y) \in Int
          /\ record.y_resolution \in Nat \ {0}
      BY <1>1, <2>2, SMT
    <3> QED
      BY <1>2, <2>2, <3>1, SMT DEF AnsiY
  <2> QED
    BY <2>1, <2>2
<1> QED
  BY <1>3, <1>4

\* Digits behind others.
LEMMA ItemsOf ==
  /\ \A m, n \in Nat : \A s \in Items(m), t \in Seq(0 .. 9) :
       Len(t) >= n => s \o t \in Items(m + n)
<1> SUFFICES ASSUME NEW m \in Nat, NEW n \in Nat, NEW s \in Items(m), NEW t \in Seq(0 .. 9), Len(t) >= n
             PROVE  s \o t \in Items(m + n)
  OBVIOUS
<1>1. s \in Seq(0 .. 9) /\ Len(s) >= m
  BY DEF Items
<1>2. s \o t \in Seq(0 .. 9) /\ Len(s \o t) = Len(s) + Len(t)
  BY <1>1, ConcatProperties
<1>3. Len(s) \in Nat /\ Len(t) \in Nat
  BY <1>1, LenProperties
<1>4. Len(s \o t) >= m + n
  BY <1>1, <1>2, <1>3
<1> QED
  BY <1>2, <1>4 DEF Items

LEMMA AnsiPlacesTypes ==
  ASSUME NEW record \in Fmrs, NEW p, p.x \in USHORT, p.y \in USHORT
  PROVE  AnsiPlaces(record, p) \subseteq Items(8)
<1>1. ASSUME NEW x \in USHORT, NEW y \in USHORT PROVE Strung(x, y) \in Items(8)
  <2>1. x \in Nat /\ x < Ten(5) /\ y \in Nat /\ y < Ten(5) /\ 4 \in {3, 4}
    BY TensTypes, Unsigned
  <2>2. /\ Digits(x, 4) \in Seq(0 .. 9) /\ Len(Digits(x, 4)) \in 4 .. 5
        /\ Digits(y, 4) \in Seq(0 .. 9) /\ Len(Digits(y, 4)) \in 4 .. 5
    BY <2>1, DigitsTypes
  <2>3. Len(Digits(x, 4)) >= 4 /\ Len(Digits(y, 4)) >= 4
    <3>1. \A m \in 4 .. 5 : m >= 4
      OBVIOUS
    <3> QED
      BY <2>2, <3>1, Zenon
  <2>4. Digits(x, 4) \in Items(4)
    BY <2>2, <2>3 DEF Items
  <2>5. Strung(x, y) \in Items(4 + 4)
    BY <2>2, <2>3, <2>4, ItemsOf DEF Strung
  <2> QED
    BY <2>5
<1>2. \A place \in AnsiPlaces(record, p) : \E x \in USHORT, y \in USHORT : place = Strung(x, y)
  BY AnsiCoordinates DEF AnsiPlaces
<1> QED
  BY <1>1, <1>2

LEMMA FlatCounts ==
  ASSUME NEW view \in Fvmrs
  PROVE  RidgeCounts(view) \in Seq(Counts) /\ Cores(view) \in Seq(Places) /\ Deltas(view) \in Seq(Places)
<1>1. FedsOf(view) \in Seq(Feds) /\ DOMAIN FedsOf(view) = 1 .. Len(FedsOf(view)) /\ Len(FedsOf(view)) \in Nat
  BY FedsType
<1>2. \A k \in 1 .. Len(FedsOf(view)) : FedsOf(view)[k] \in Feds
  BY <1>1, ElementOfSeq
<1>3. ASSUME NEW fed \in Feds
      PROVE  /\ (IF fed.type = FED_RIDGE_COUNT THEN fed.counts ELSE <<>>) \in Seq(Counts)
             /\ (IF fed.type = FED_CORE_AND_DELTA THEN fed.cores ELSE <<>>) \in Seq(Places)
             /\ (IF fed.type = FED_CORE_AND_DELTA THEN fed.deltas ELSE <<>>) \in Seq(Places)
  <2>1. <<>> \in Seq(Counts) /\ <<>> \in Seq(Places)
    OBVIOUS
  <2>2. fed.type = FED_RIDGE_COUNT => fed.counts \in Seq(Counts)
    BY DEF Feds, FED_RIDGE_COUNT, FED_CORE_AND_DELTA
  <2>3. fed.type = FED_CORE_AND_DELTA => fed.cores \in Seq(Places) /\ fed.deltas \in Seq(Places)
    BY DEF Feds, FED_RIDGE_COUNT, FED_CORE_AND_DELTA
  <2> QED
    BY <2>1, <2>2, <2>3
<1> DEFINE counts == [k \in DOMAIN FedsOf(view) |->
                        LET fed == FedsOf(view)[k]
                        IN IF fed.type = FED_RIDGE_COUNT THEN fed.counts ELSE <<>>]
           cores  == [k \in DOMAIN FedsOf(view) |->
                        LET fed == FedsOf(view)[k]
                        IN IF fed.type = FED_CORE_AND_DELTA THEN fed.cores ELSE <<>>]
           deltas == [k \in DOMAIN FedsOf(view) |->
                        LET fed == FedsOf(view)[k]
                        IN IF fed.type = FED_CORE_AND_DELTA THEN fed.deltas ELSE <<>>]
<1>4. /\ RidgeCounts(view) = FlattenSeq(counts) /\ Cores(view) = FlattenSeq(cores)
      /\ Deltas(view) = FlattenSeq(deltas)
  BY DEF RidgeCounts, Cores, Deltas
<1>5. /\ counts \in [1 .. Len(FedsOf(view)) -> Seq(Counts)]
      /\ cores \in [1 .. Len(FedsOf(view)) -> Seq(Places)]
      /\ deltas \in [1 .. Len(FedsOf(view)) -> Seq(Places)]
  BY <1>1, <1>2, <1>3
<1> HIDE DEF counts, cores, deltas
<1>6. counts \in Seq(Seq(Counts)) /\ cores \in Seq(Seq(Places)) /\ deltas \in Seq(Seq(Places))
  BY <1>1, <1>5, SequenceOf
<1>7. <<>> \in Seq(Counts) /\ <<>> \in Seq(Places)
  OBVIOUS
<1> QED
  BY <1>4, <1>6, <1>7, FlattenSeqGrows

OtherCounts == [other : UCHAR, count : UCHAR]

LEMMA CountsAtTypes ==
  ASSUME NEW counts \in Seq(Counts), NEW index
  PROVE  CountsAt(counts, index) \in Seq(OtherCounts)
<1> DEFINE each == [k \in DOMAIN counts |->
             CASE counts[k].one = index -> <<[other |-> counts[k].two, count |-> counts[k].count]>>
               [] counts[k].one # index /\ counts[k].two = index ->
                    <<[other |-> counts[k].one, count |-> counts[k].count]>>
               [] OTHER -> <<>>]
<1>1. DOMAIN counts = 1 .. Len(counts) /\ Len(counts) \in Nat
  BY LenProperties
<1>2. \A k \in 1 .. Len(counts) : counts[k] \in Counts
  BY ElementOfSeq
<1>3. ASSUME NEW k \in 1 .. Len(counts) PROVE each[k] \in Seq(OtherCounts)
  <2>1. /\ [other |-> counts[k].two, count |-> counts[k].count] \in OtherCounts
        /\ [other |-> counts[k].one, count |-> counts[k].count] \in OtherCounts
    BY <1>2 DEF Counts, OtherCounts
  <2>2. \A e \in OtherCounts : <<e>> \in Seq(OtherCounts)
    OBVIOUS
  <2>3. <<>> \in Seq(OtherCounts)
    OBVIOUS
  <2> QED
    BY <1>1, <2>1, <2>2, <2>3
<1>4. each \in [1 .. Len(counts) -> Seq(OtherCounts)]
  BY <1>1, <1>3
<1>5. CountsAt(counts, index) = FlattenSeq(each)
  BY DEF CountsAt
<1> HIDE DEF each
<1>6. each \in Seq(Seq(OtherCounts))
  BY <1>1, <1>4, SequenceOf
<1>7. <<>> \in Seq(OtherCounts)
  OBVIOUS
<1> QED
  BY <1>5, <1>6, <1>7, FlattenSeqGrows

LEMMA AnsiMinutiaeTypes ==
  ASSUME NEW record \in Fmrs, NEW view \in Fvmrs, NEW subfields \in AnsiMinutiae(record, view)
  PROVE  subfields \in Seq(Subfields) /\ Len(subfields) = Len(view.minutiae)
<1> DEFINE minutiae == view.minutiae
           sets == [k \in DOMAIN minutiae |-> AnsiPlaces(record, minutiae[k])]
           subfield(places, k) ==
             [index |-> k, at |-> places[k] \o Digits(AnsiTheta(minutiae[k].angle), 3),
              quality |-> 0, type |-> AnsiType(minutiae[k].type),
              counts |-> CountsAt(RidgeCounts(view), k)]
<1>1. minutiae \in Seq(Minutiae)
  BY DEF Fvmrs
<1>2. DOMAIN minutiae = 1 .. Len(minutiae) /\ Len(minutiae) \in Nat
  BY <1>1, LenProperties
<1>3. PICK places \in OneOfEach(sets) : subfields = [k \in DOMAIN minutiae |-> subfield(places, k)]
  BY DEF AnsiMinutiae
<1>4. ASSUME NEW k \in 1 .. Len(minutiae)
      PROVE  subfield(places, k) \in Subfields
  <2>1. minutiae[k] \in Minutiae
    BY <1>1, ElementOfSeq
  <2>2. minutiae[k].x \in USHORT /\ minutiae[k].y \in USHORT /\ minutiae[k].angle \in Nat
    BY <2>1, Unsigned DEF Minutiae
  <2>3. places[k] \in AnsiPlaces(record, minutiae[k])
    BY <1>2, OneOfEachTypes
  <2>4. places[k] \in Items(8)
    BY <2>2, <2>3, AnsiPlacesTypes
  <2>5. AnsiTheta(minutiae[k].angle) \in 0 .. 360
    <3>1. ASSUME NEW a \in Nat PROVE 2 * a + 180 \in Nat
      OBVIOUS
    <3>2. ASSUME NEW q \in Nat PROVE q % 360 \in 0 .. 360
      OBVIOUS
    <3> QED
      BY <2>2, <3>1, <3>2 DEF AnsiTheta
  <2> DEFINE theta == AnsiTheta(minutiae[k].angle)
  <2>6. theta \in Nat /\ theta < Ten(5)
    <3>0. \A q \in 0 .. 360 : q \in Nat
      OBVIOUS
    <3>1. theta \in Nat /\ theta < Ten(3)
      BY <2>5, <3>0, TensTypes, Zenon
    <3>2. Ten(3) \in Nat /\ Ten(4) \in Nat /\ Ten(5) \in Nat
      BY TensTypes
    <3>3. Ten(3) < Ten(4) /\ Ten(4) < Ten(5)
      BY TensTypes, Zenon
    <3> HIDE DEF theta
    <3> QED
      BY <3>1, <3>2, <3>3
  <2> HIDE DEF theta
  <2>7. Digits(theta, 3) \in Seq(0 .. 9) /\ Len(Digits(theta, 3)) \in 3 .. 5
    BY <2>6, DigitsTypes
  <2>8. Len(Digits(theta, 3)) >= 3
    <3>1. \A m \in 3 .. 5 : m >= 3
      OBVIOUS
    <3> QED
      BY <2>7, <3>1, Zenon
  <2>9. places[k] \o Digits(theta, 3) \in Items(8 + 3)
    BY <2>4, <2>7, <2>8, ItemsOf
  <2>10. places[k] \o Digits(theta, 3) \in Items(11)
    BY <2>9
  <2>11. CountsAt(RidgeCounts(view), k) \in Seq(OtherCounts)
    BY FlatCounts, CountsAtTypes
  <2>12. AnsiType(minutiae[k].type) \in {"A", "B", "C", "D"}
    BY DEF AnsiType
  <2>13. k \in Nat /\ 0 \in Nat
    BY <1>2
  <2> DEFINE place == places[k] \o Digits(theta, 3)
             type  == AnsiType(minutiae[k].type)
             count == CountsAt(RidgeCounts(view), k)
  <2>14. subfield(places, k) = [index |-> k, at |-> place, quality |-> 0, type |-> type, counts |-> count]
    BY Zenon DEF theta
  <2>15. \A a \in Items(11), b \in {"A", "B", "C", "D"}, c \in Seq(OtherCounts) :
           [index |-> k, at |-> a, quality |-> 0, type |-> b, counts |-> c] \in Subfields
    BY <2>13 DEF Subfields, OtherCounts
  <2> HIDE DEF place, type, count
  <2>16. place \in Items(11) /\ type \in {"A", "B", "C", "D"} /\ count \in Seq(OtherCounts)
    BY <2>10, <2>11, <2>12 DEF place, type, count
  <2> QED
    BY <2>14, <2>15, <2>16
<1> HIDE DEF subfield, sets
<1>5. subfields \in [1 .. Len(minutiae) -> Subfields]
  BY <1>2, <1>3, <1>4
<1> QED
  BY <1>2, <1>5, SequenceOf

LEMMA AnsiCoresTypes ==
  ASSUME NEW record \in Fmrs, NEW points \in Seq(Places), NEW cores \in AnsiCores(record, points)
  PROVE  cores \in Seq(Items(8)) /\ Len(cores) = Len(points)
<1> DEFINE sets == [k \in DOMAIN points |-> AnsiPlaces(record, points[k])]
<1>1. DOMAIN points = 1 .. Len(points) /\ Len(points) \in Nat
  BY LenProperties
<1>2. cores \in OneOfEach(sets)
  BY DEF AnsiCores
<1>3. \A k \in 1 .. Len(points) : sets[k] \subseteq Items(8)
  <2> SUFFICES ASSUME NEW k \in 1 .. Len(points) PROVE AnsiPlaces(record, points[k]) \subseteq Items(8)
    BY <1>1
  <2>1. points[k] \in Places
    BY ElementOfSeq
  <2> QED
    BY <2>1, AnsiPlacesTypes DEF Places
<1>4. DOMAIN sets = 1 .. Len(points)
  BY <1>1
<1> HIDE DEF sets
<1>5. cores = [k \in 1 .. Len(points) |-> cores[k]] /\ \A k \in 1 .. Len(points) : cores[k] \in sets[k]
  BY <1>2, <1>4, OneOfEachTypes
<1>6. cores \in [1 .. Len(points) -> Items(8)]
  BY <1>3, <1>5
<1> QED
  BY <1>1, <1>6, SequenceOf

Type9Records ==
  {s \in [type : {9}, idc : Nat, impression : UCHAR, finger : UCHAR, cores : Seq(Items(8)),
          deltas : Seq(Items(8)), count : Nat, minutiae : Seq(Subfields)] : s.count <= Len(s.minutiae)}
Images ==
  [type : {4},  idc : Nat, isr : Nat, width : Nat, height : Nat] \cup
  [type : {13}, idc : Nat, units : {"inch", "cm"}, scale : Nat, width : Nat, height : Nat]

LEMMA AnsiRecordTypes ==
  /\ Type9Records \subseteq AnsiRecords /\ Images \subseteq AnsiRecords /\ Type2 \in AnsiRecords
  /\ \A s \in AnsiRecords : /\ s.type \in Nat /\ s.idc \in Nat
                            /\ s.type = 9 => s \in Type9Records
                            /\ s.type \in {4, 13} => s \in Images
<1>1. Type9Records \subseteq AnsiRecords
  BY DEF AnsiRecords, Type9Records
<1>2. Images \subseteq AnsiRecords
  BY DEF AnsiRecords, Images
<1>3. Type2 \in AnsiRecords
  BY DEF AnsiRecords, Type2
<1>4. ASSUME NEW s \in AnsiRecords
      PROVE  s \in [type : {2}, idc : Nat] \/ s \in Images \/ s \in Type9Records
  BY DEF AnsiRecords, Type9Records, Images
<1>5. \A s \in [type : {2}, idc : Nat] : s.type = 2 /\ s.idc \in Nat
  OBVIOUS
<1>6. \A s \in Images : (s.type = 4 \/ s.type = 13) /\ s.idc \in Nat
  BY DEF Images
<1>7. \A s \in Type9Records : s.type = 9 /\ s.idc \in Nat
  BY DEF Type9Records
<1> QED
  BY <1>1, <1>2, <1>3, <1>4, <1>5, <1>6, <1>7

LEMMA Type9Types ==
  ASSUME NEW record \in Fmrs, NEW view \in Fvmrs, NEW idc \in Nat, NEW record9 \in Type9(record, view, idc)
  PROVE  /\ record9 \in AnsiRecords /\ record9 \in Type9Records
         /\ record9.count = Len(view.minutiae)
<1>1. PICK cores \in AnsiCores(record, Cores(view)), deltas \in AnsiCores(record, Deltas(view)),
           minutiae \in AnsiMinutiae(record, view) :
        record9 = [type |-> 9, idc |-> idc, impression |-> view.impression_type,
                   finger |-> view.finger_number, cores |-> cores, deltas |-> deltas,
                   count |-> Len(view.minutiae), minutiae |-> minutiae]
  BY DEF Type9
<1>2. minutiae \in Seq(Subfields) /\ Len(minutiae) = Len(view.minutiae)
  BY AnsiMinutiaeTypes
<1>3. cores \in Seq(Items(8)) /\ deltas \in Seq(Items(8))
  BY FlatCounts, AnsiCoresTypes
<1>4. view.impression_type \in UCHAR /\ view.finger_number \in UCHAR /\ view.minutiae \in Seq(Minutiae)
  BY DEF Fvmrs
<1>5. Len(view.minutiae) \in Nat
  BY <1>4, LenProperties
<1>6. /\ record9 \in [type : {9}, idc : Nat, impression : UCHAR, finger : UCHAR, cores : Seq(Items(8)),
                      deltas : Seq(Items(8)), count : Nat, minutiae : Seq(Subfields)]
      /\ record9.count = Len(view.minutiae) /\ record9.minutiae = minutiae
  BY <1>1, <1>2, <1>3, <1>4, <1>5
<1>7. record9 \in Type9Records
  BY <1>2, <1>5, <1>6 DEF Type9Records
<1> QED
  BY <1>6, <1>7, AnsiRecordTypes

LEMMA Type13Types ==
  ASSUME NEW record \in Fmrs, NEW idc \in Nat, NEW image \in Type13(record, idc)
  PROVE  image \in AnsiRecords /\ image.type = 13
<1>1. record.x_resolution \in Nat /\ record.x_image_size \in Nat /\ record.y_image_size \in Nat
  BY Unsigned DEF Fmrs
<1>2. (254 * record.x_resolution + 50) \div 100 \in Nat
  <2>1. ASSUME NEW m \in Nat PROVE (254 * m + 50) \div 100 \in Nat
    OBVIOUS
  <2> QED
    BY <1>1, <2>1
<1> DEFINE of(units, scale) == [type |-> 13, idc |-> idc, units |-> units, scale |-> scale,
                                width |-> record.x_image_size, height |-> record.y_image_size]
<1>3. \A scale \in Nat, units \in {"inch", "cm"} : of(units, scale) \in Images /\ of(units, scale).type = 13
  BY <1>1 DEF Images
<1>4. image \in {of("inch", (254 * record.x_resolution + 50) \div 100), of("cm", record.x_resolution)}
  BY DEF Type13
<1> HIDE DEF of
<1>5. image \in Images /\ image.type = 13
  BY <1>1, <1>2, <1>3, <1>4
<1> QED
  BY <1>5, AnsiRecordTypes

Ansis == [contents : Seq(Nat \X Nat), records : Seq(AnsiRecords)]

LEMMA AddTypes ==
  /\ NewAnsi \in Ansis
  /\ \A ansi \in Ansis, s \in AnsiRecords : Add(ansi, s) \in Ansis
                                            /\ Add(ansi, s).records = Append(ansi.records, s)
<1>1. <<>> \in Seq(Nat \X Nat) /\ <<>> \in Seq(AnsiRecords)
  OBVIOUS
<1>2. NewAnsi \in Ansis
  BY <1>1 DEF NewAnsi, Ansis
<1>3. ASSUME NEW ansi \in Ansis, NEW s \in AnsiRecords
      PROVE  Add(ansi, s) \in Ansis /\ Add(ansi, s).records = Append(ansi.records, s)
  <2>1. ansi.contents \in Seq(Nat \X Nat) /\ ansi.records \in Seq(AnsiRecords)
    BY DEF Ansis
  <2>2. <<s.type, s.idc>> \in Nat \X Nat
    BY AnsiRecordTypes
  <2>3. Append(ansi.contents, <<s.type, s.idc>>) \in Seq(Nat \X Nat)
    BY <2>1, <2>2, AppendProperties
  <2>4. Append(ansi.records, s) \in Seq(AnsiRecords)
    BY <2>1, AppendProperties
  <2> QED
    BY <2>3, <2>4 DEF Add, Ansis
<1> QED
  BY <1>2, <1>3

-----------------------------------------------------------------------------
(* The records that an2k2fmr makes.                                        *)

LEMMA ResolutionTypes ==
  ASSUME NEW image \in Images
  PROVE  Resolutions(image) \subseteq USHORT /\ image.width \in Nat /\ image.height \in Nat
<1>1. ASSUME image.type = 13 PROVE Resolutions(image) \subseteq USHORT
  <2>1. image.scale \in Nat
    BY <1>1 DEF Images
  <2>2. USHRT(image.scale) \in USHORT
    BY <2>1, UshrtTypes
  <2>3. Truncated(100 * image.scale, 254, 100 * image.scale) \subseteq Int
    <3>1. 100 * image.scale \in Int /\ 254 \in Nat \ {0}
      BY <2>1, SMT
    <3> QED
      BY <3>1, TruncatedTypes, SMT
  <2>4. Type13Resolutions(image) \subseteq USHORT
    BY <2>2, <2>3, UshrtTypes, SMT DEF Type13Resolutions
  <2> QED
    BY <1>1, <2>4 DEF Resolutions
<1>2. ASSUME image.type # 13 PROVE Resolutions(image) \subseteq USHORT
  BY <1>2, Unsigned DEF Resolutions, Type4Resolution
<1>3. image.width \in Nat /\ image.height \in Nat
  BY DEF Images
<1> QED
  BY <1>1, <1>2, <1>3

LEMMA FmrHeadersTypes ==
  ASSUME NEW ansi, ansi.records \in Seq(AnsiRecords), NEW idc, NEW header \in FmrHeaders(ansi, idc)
  PROVE  /\ header \in Fmrs /\ header.views = <<>> /\ header.record_length = SMALL_HEADER
         /\ header.long = FALSE
<1> DEFINE of(width, height, res) ==
             [record_length |-> SMALL_HEADER, long |-> FALSE, owner |-> 0,
              x_image_size |-> width, y_image_size |-> height,
              x_resolution |-> res, y_resolution |-> res, num_views |-> 0, views |-> <<>>]
<1>1. \A width \in USHORT, height \in USHORT, res \in USHORT :
        /\ of(width, height, res) \in Fmrs /\ of(width, height, res).views = <<>>
        /\ of(width, height, res).record_length = SMALL_HEADER
        /\ of(width, height, res).long = FALSE
  BY Unsigned DEF Fmrs, SMALL_HEADER
<1>2. 0 \in USHORT
  BY Unsigned
<1>3. \A image \in ImagesWith(ansi, idc) : image \in Images
  <2> SUFFICES ASSUME NEW image \in ImagesWith(ansi, idc) PROVE image \in Images
    OBVIOUS
  <2>1. image \in Range(ansi.records) /\ image.type \in {4, 13}
    BY DEF ImagesWith
  <2>2. image \in AnsiRecords
    BY <2>1, ElementOfSeq, LenProperties DEF Range
  <2> QED
    BY <2>1, <2>2, AnsiRecordTypes
<1>4. CASE ImagesWith(ansi, idc) = {}
  <2>1. header = of(0, 0, 0)
    BY <1>4 DEF FmrHeaders
  <2> HIDE DEF of
  <2> QED
    BY <1>1, <1>2, <2>1
<1>5. CASE ImagesWith(ansi, idc) # {}
  <2>1. \E image \in ImagesWith(ansi, idc) : \E res \in Resolutions(image) :
          header = of(USHRT(image.width), USHRT(image.height), res)
    BY <1>5 DEF FmrHeaders
  <2> HIDE DEF of
  <2>2. PICK image \in Images : \E res \in Resolutions(image) :
          header = of(USHRT(image.width), USHRT(image.height), res)
    BY <1>3, <2>1
  <2>4. PICK res \in Resolutions(image) :
          header = of(USHRT(image.width), USHRT(image.height), res)
    BY <2>2
  <2>3. USHRT(image.width) \in USHORT /\ USHRT(image.height) \in USHORT /\ res \in USHORT
    BY ResolutionTypes, UshrtTypes
  <2> QED
    BY <1>1, <2>3, <2>4
<1> QED
  BY <1>4, <1>5

\* Coordinates of minutiae, cores and deltas.
LEMMA SeparatedTypes ==
  \A digits \in Items(8) : /\ Separated(digits) \in Places
                           /\ Separated(digits).x \in USHORT /\ Separated(digits).y \in USHORT
<1> SUFFICES ASSUME NEW digits \in Items(8)
             PROVE  /\ Separated(digits) \in Places
                    /\ Separated(digits).x \in USHORT /\ Separated(digits).y \in USHORT
  OBVIOUS
<1>1. Number(SubSeq(digits, 1, 4)) \in Int
  BY PartTypes
<1>2. Number(SubSeq(digits, 5, 8)) \in Int
  BY PartTypes
<1>3. /\ USHRT(Number(SubSeq(digits, 1, 4))) \in USHORT
      /\ USHRT(Number(SubSeq(digits, 5, 8))) \in USHORT
  BY <1>1, <1>2, UshrtTypes
<1> QED
  BY <1>3 DEF Separated, Places

LEMMA FmrCoordinates ==
  ASSUME NEW header \in Fmrs, NEW x \in USHORT, NEW y \in USHORT
  PROVE  FmrX(header, x) \subseteq USHORT /\ FmrY(header, y) \subseteq USHORT
<1>1. /\ header.x_resolution \in Nat /\ header.y_resolution \in Nat /\ header.y_image_size \in Nat
      /\ x \in Nat /\ y \in Nat /\ 0 \in USHORT
  BY Unsigned DEF Fmrs
<1>2. \A size : \A n \in Int : \A q \in Truncated(n, 1000, size) :
        q \in Int /\ USHRT(q) \in USHORT /\ USHRT(-q) \in USHORT
  <2> SUFFICES ASSUME NEW size, NEW n \in Int, NEW q \in Truncated(n, 1000, size)
               PROVE  q \in Int /\ USHRT(q) \in USHORT /\ USHRT(-q) \in USHORT
    OBVIOUS
  <2>1. 1000 \in Nat \ {0}
    BY SMT
  <2>2. q \in Int
    BY <2>1, TruncatedTypes, SMT
  <2>3. -q \in Int
    BY <2>2, SMT
  <2> QED
    BY <2>2, <2>3, UshrtTypes, SMT
<1>3. FmrX(header, x) \subseteq USHORT
  <2>1. x * header.x_resolution + 500 \in Int
    <3>1. ASSUME NEW a \in Nat, NEW b \in Nat PROVE a * b + 500 \in Int
      BY SMT
    <3> QED
      BY <1>1, <3>1, SMT
  <2> QED
    BY <1>1, <1>2, <2>1, SMT DEF FmrX
<1>4. FmrY(header, y) \subseteq USHORT
  <2> DEFINE n == 1000 * (header.y_image_size - 1) - y * header.y_resolution
             size == 1000 * header.y_image_size
  <2>1. n \in Int /\ -n \in Int /\ header.y_image_size - 1 \in Int
    <3>1. ASSUME NEW a \in Nat, NEW b \in Nat, NEW c \in Nat
          PROVE  1000 * (a - 1) - b * c \in Int /\ -(1000 * (a - 1) - b * c) \in Int
      <4>1. b * c \in Int
        BY SMT
      <4> QED
        BY <4>1, SMT
    <3>2. header.y_image_size - 1 \in Int
      BY <1>1, SMT
    <3> QED
      BY <1>1, <3>1, <3>2, SMT
  <2>2. USHRT(header.y_image_size - 1) \in USHORT
    BY <2>1, UshrtTypes, SMT
  <2>3. \/ FmrY(header, y) = {0}
        \/ FmrY(header, y) = {USHRT(header.y_image_size - 1)}
        \/ FmrY(header, y) = {USHRT(p) : p \in Truncated(n, 1000, size)}
        \/ FmrY(header, y) = {USHRT(-p) : p \in Truncated(-n, 1000, size)}
    <3>1. CASE header.y_resolution = 0
      BY <3>1, SMT DEF FmrY
    <3>2. CASE header.y_resolution # 0 /\ y = 0
      BY <3>2, SMT DEF FmrY
    <3>3. CASE header.y_resolution # 0 /\ y # 0 /\ n >= 0
      BY <3>3, SMT DEF FmrY
    <3>4. CASE header.y_resolution # 0 /\ y # 0 /\ n < 0
      BY <3>4, <2>1, SMT DEF FmrY
    <3>5. n >= 0 \/ n < 0
      BY <2>1, SMT
    <3> QED
      BY <3>1, <3>2, <3>3, <3>4, <3>5
  <2> HIDE DEF n, size
  <2>4. {USHRT(p) : p \in Truncated(n, 1000, size)} \subseteq USHORT
    BY <1>2, <2>1, SMT
  <2>5. {USHRT(-p) : p \in Truncated(-n, 1000, size)} \subseteq USHORT
    BY <1>2, <2>1, SMT
  <2> QED
    BY <1>1, <2>2, <2>3, <2>4, <2>5, SMT
<1> QED
  BY <1>3, <1>4

LEMMA ThetaTypes ==
  ASSUME NEW n \in Int
  PROVE  FmrTheta(n) \in UCHAR
<1>1. (n + 180) % 360 \in 0 .. 359
  BY SMT
<1>2. ASSUME NEW a \in 0 .. 359 PROVE a \div 2 \in 0 .. 180
  BY SMT
<1>3. ASSUME NEW a \in 0 .. 180 PROVE a \in UCHAR
  BY SMT DEF UCHAR, UCHAR_MAX
<1>4. ((n + 180) % 360) \div 2 \in 0 .. 180
  BY <1>1, <1>2
<1> QED
  BY <1>3, <1>4 DEF FmrTheta

LEMMA FmrMinutiaeTypes ==
  ASSUME NEW header \in Fmrs, NEW subfields \in Seq(Subfields),
         NEW minutiae \in FmrMinutiae(header, subfields)
  PROVE  minutiae \in Seq(Minutiae) /\ Len(minutiae) = Len(subfields)
<1> DEFINE minutia(s, x, y) ==
             [type |-> FmrType(s.type), x |-> x, y |-> y,
              angle |-> FmrTheta(Number(SubSeq(s.at, 9, 11))), quality |-> s.quality % (UCHAR_MAX + 1)]
           sets == [k \in DOMAIN subfields |->
                      {minutia(subfields[k], x, y) : x \in FmrX(header, Separated(subfields[k].at).x),
                                                     y \in FmrY(header, Separated(subfields[k].at).y)}]
<1>1. minutiae \in OneOfEach(sets)
  BY DEF FmrMinutiae
<1>2. DOMAIN subfields = 1 .. Len(subfields) /\ Len(subfields) \in Nat
  BY LenProperties
<1>3. ASSUME NEW k \in 1 .. Len(subfields), NEW m \in sets[k]
      PROVE  m \in Minutiae
  <2> DEFINE s == subfields[k]
  <2>1. s \in Subfields
    BY ElementOfSeq
  <2>2. s.at \in Items(11) /\ s.quality \in Nat
    BY <2>1 DEF Subfields
  <2> HIDE DEF s
  <2>3. s.at \in Items(8)
    <3>1. ASSUME NEW l, l >= 11, l \in Nat PROVE l >= 8
      BY <3>1
    <3>2. s.at \in Seq(0 .. 9) /\ Len(s.at) >= 11
      BY <2>2 DEF Items
    <3> QED
      BY <3>1, <3>2, LenProperties DEF Items
  <2>4. Separated(s.at).x \in USHORT /\ Separated(s.at).y \in USHORT
    BY <2>3, SeparatedTypes
  <2>5. PICK x \in FmrX(header, Separated(s.at).x) : \E y \in FmrY(header, Separated(s.at).y) :
          m = minutia(s, x, y)
    BY <1>2, <1>3 DEF s
  <2>6. PICK y \in FmrY(header, Separated(s.at).y) : m = minutia(s, x, y)
    BY <2>5
  <2>7. x \in USHORT /\ y \in USHORT
    BY <2>4, FmrCoordinates
  <2>8. FmrType(s.type) \in UCHAR
    BY Unsigned DEF FmrType
  <2>9. s.quality % (UCHAR_MAX + 1) \in UCHAR
    BY <2>2, Remainders
  <2>10. FmrTheta(Number(SubSeq(s.at, 9, 11))) \in UCHAR
    <3>1. Number(SubSeq(s.at, 9, 11)) \in Int
      BY <2>2, PartTypes
    <3> DEFINE theta == Number(SubSeq(s.at, 9, 11))
    <3> HIDE DEF theta
    <3>2. FmrTheta(theta) \in UCHAR
      BY <3>1, ThetaTypes DEF theta
    <3> QED
      BY <3>2 DEF theta
  <2> QED
    BY <2>6, <2>7, <2>8, <2>9, <2>10 DEF Minutiae
<1>4. DOMAIN sets = 1 .. Len(subfields)
  BY <1>2
<1> HIDE DEF sets
<1>5. /\ minutiae = [k \in 1 .. Len(subfields) |-> minutiae[k]]
      /\ \A k \in 1 .. Len(subfields) : minutiae[k] \in sets[k]
  BY <1>1, <1>4, OneOfEachTypes
<1>6. minutiae \in [1 .. Len(subfields) -> Minutiae]
  BY <1>3, <1>5
<1> QED
  BY <1>2, <1>6, SequenceOf

\* The sum of one and of two.
LEMMA FewSums ==
  /\ \A w : DOMAIN w = 1 .. 1 /\ w[1] \in Int => SumFunction(w) = w[1]
  /\ \A w : DOMAIN w = 1 .. 2 /\ w[1] \in Int /\ w[2] \in Int => SumFunction(w) = w[1] + w[2]
<1>1. ASSUME NEW w, DOMAIN w = 1 .. 1, w[1] \in Int PROVE SumFunction(w) = w[1]
  <2> DEFINE v == [k \in 1 .. 0 |-> 0]
  <2>1. DOMAIN v = 1 .. 0 /\ 0 \in Nat
    OBVIOUS
  <2>2. SumFunction(v) = 0
    BY <2>1, SumType
  <2>3. Weights(w, 0 + 1)
    BY <1>1 DEF Weights
  <2>4. \A k \in 1 .. 0 : w[k] = v[k]
    OBVIOUS
  <2>5. DOMAIN w = 1 .. 0 + 1
    BY <1>1
  <2> HIDE DEF v
  <2>6. SumFunction(w) = SumFunction(v) + w[0 + 1]
    BY <2>1, <2>3, <2>4, <2>5, SumGrows
  <2> QED
    BY <1>1, <2>2, <2>6
<1>2. ASSUME NEW w, DOMAIN w = 1 .. 2, w[1] \in Int, w[2] \in Int PROVE SumFunction(w) = w[1] + w[2]
  <2> DEFINE v == [k \in 1 .. 1 |-> w[1]]
  <2>1. DOMAIN v = 1 .. 1 /\ 1 \in Nat /\ v[1] = w[1]
    OBVIOUS
  <2>2. SumFunction(v) = w[1]
    BY <1>1, <1>2, <2>1
  <2>3. Weights(w, 1 + 1)
    <3>1. \A k \in 1 .. 2 : k = 1 \/ k = 2
      OBVIOUS
    <3> QED
      BY <1>2, <3>1 DEF Weights
  <2>4. \A k \in 1 .. 1 : w[k] = v[k]
    BY <2>1
  <2>5. DOMAIN w = 1 .. 1 + 1
    BY <1>2
  <2> HIDE DEF v
  <2>6. SumFunction(w) = SumFunction(v) + w[1 + 1]
    BY <2>1, <2>3, <2>4, <2>5, SumGrows
  <2> QED
    BY <1>2, <2>2, <2>6
<1> QED
  BY <1>1, <1>2

\* The FEDs of a Type-9 record.
LEMMA CoreDeltaFedTypes ==
  ASSUME NEW record9 \in Type9Records
  PROVE  LET fed == CoreDeltaFed(record9)
         IN /\ fed \in Feds /\ fed.type = FED_CORE_AND_DELTA
            /\ Len(fed.cores) = Len(record9.cores) /\ Len(fed.deltas) = Len(record9.deltas)
            /\ fed.cores = <<>> <=> record9.cores = <<>>
            /\ fed.deltas = <<>> <=> record9.deltas = <<>>
            /\ FedBytes(fed) = 6 + 4 * Len(record9.cores) + 4 * Len(record9.deltas)
            /\ UnwrittenOf(fed) = 0
            /\ FedBytes(fed) < USHRT_MAX =>
                 fed.length = FedBytes(fed) - (IF fed.cores = <<>> THEN 1 ELSE 0)
                                            - (IF fed.deltas = <<>> THEN 1 ELSE 0)
<1> DEFINE fed == CoreDeltaFed(record9)
           points(fields) == [k \in DOMAIN fields |-> Separated(fields[k])]
           size(fields) == IF fields = <<>> THEN 0 ELSE 1 + 4 * Len(fields)
<1>1. record9.cores \in Seq(Items(8)) /\ record9.deltas \in Seq(Items(8))
  BY DEF Type9Records
<1>2. ASSUME NEW fields \in Seq(Items(8))
      PROVE  /\ points(fields) \in Seq(Places) /\ Len(points(fields)) = Len(fields)
             /\ points(fields) = <<>> <=> fields = <<>>
             /\ Len(fields) \in Nat /\ (fields = <<>> <=> Len(fields) = 0)
  <2>1. DOMAIN fields = 1 .. Len(fields) /\ Len(fields) \in Nat
    BY LenProperties
  <2>2. \A k \in 1 .. Len(fields) : fields[k] \in Items(8)
    BY ElementOfSeq
  <2>3. points(fields) \in [1 .. Len(fields) -> Places]
    BY <2>1, <2>2, SeparatedTypes
  <2>4. points(fields) \in Seq(Places) /\ Len(points(fields)) = Len(fields)
    BY <2>1, <2>3, SequenceOf
  <2>5. fields = <<>> <=> Len(fields) = 0
    BY EmptySeq
  <2> HIDE DEF points
  <2>6. points(fields) = <<>> <=> Len(points(fields)) = 0
    BY <2>4, EmptySeq
  <2> QED
    BY <2>1, <2>4, <2>5, <2>6
<1> DEFINE cores  == points(record9.cores)
           deltas == points(record9.deltas)
           length == USHRT(FED_HEADER_LENGTH + size(record9.cores) + size(record9.deltas))
<1>3. fed = [type |-> FED_CORE_AND_DELTA, length |-> length, core_type |-> 0, cores |-> cores,
             delta_type |-> 0, deltas |-> deltas]
  BY DEF CoreDeltaFed
<1>4. PICK nc \in Nat, nd \in Nat : nc = Len(record9.cores) /\ nd = Len(record9.deltas)
  BY <1>1, <1>2
<1>5. /\ cores \in Seq(Places) /\ deltas \in Seq(Places) /\ Len(cores) = nc /\ Len(deltas) = nd
      /\ (cores = <<>> <=> nc = 0) /\ (deltas = <<>> <=> nd = 0)
      /\ (record9.cores = <<>> <=> nc = 0) /\ (record9.deltas = <<>> <=> nd = 0)
  BY <1>1, <1>2, <1>4
<1>6. PICK a \in Nat, b \in Nat : /\ a = (IF nc = 0 THEN 1 ELSE 0) /\ b = (IF nd = 0 THEN 1 ELSE 0)
  OBVIOUS
<1>7. size(record9.cores) = 1 + 4 * nc - a /\ size(record9.deltas) = 1 + 4 * nd - b
  <2>1. size(record9.cores) = (IF nc = 0 THEN 0 ELSE 1 + 4 * nc)
    BY <1>4, <1>5
  <2>2. size(record9.deltas) = (IF nd = 0 THEN 0 ELSE 1 + 4 * nd)
    BY <1>4, <1>5
  <2> HIDE DEF size
  <2> QED
    BY <1>6, <2>1, <2>2, SMT
<1> HIDE DEF cores, deltas, size, points
<1>8. PICK sum \in Nat : /\ sum = 6 + 4 * nc + 4 * nd - a - b
                         /\ FED_HEADER_LENGTH + size(record9.cores) + size(record9.deltas) = sum
  <2>1. 6 + 4 * nc + 4 * nd - a - b \in Nat
    BY <1>6, SMT
  <2>2. 4 + (1 + 4 * nc - a) + (1 + 4 * nd - b) = 6 + 4 * nc + 4 * nd - a - b
    BY <1>6, SMT
  <2>3. FED_HEADER_LENGTH + size(record9.cores) + size(record9.deltas) = 6 + 4 * nc + 4 * nd - a - b
    BY <1>7, <2>2 DEF FED_HEADER_LENGTH
  <2> QED
    BY <2>1, <2>3
<1>9. length = USHRT(sum)
  BY <1>8
<1> HIDE DEF length
<1>10. length \in USHORT /\ 0 \in UCHAR
  BY <1>9, UshrtTypes, Unsigned
<1>11. ASSUME 6 + 4 * nc + 4 * nd < USHRT_MAX
       PROVE  length = 6 + 4 * nc + 4 * nd - a - b
  <2>1. sum <= 6 + 4 * nc + 4 * nd
    BY <1>6, <1>8, SMT
  <2>2. sum < USHRT_MAX
    <3>1. ASSUME NEW m \in Nat, NEW n \in Nat, NEW l \in Nat, l <= m, m < n PROVE l < n
      BY <3>1
    <3>2. 6 + 4 * nc + 4 * nd \in Nat
      OBVIOUS
    <3> QED
      BY <1>11, <2>1, <3>1, <3>2, Unsigned
  <2>3. ASSUME NEW n \in Nat, NEW max \in Nat, n < max PROVE n % (max + 1) = n
    BY <2>3
  <2>4. USHRT(sum) = sum
    BY <2>2, <2>3, Unsigned DEF USHRT
  <2> QED
    BY <1>8, <1>9, <2>4
<1>12. fed \in Feds
  <2>1. \A t \in {FED_CORE_AND_DELTA}, l \in USHORT, u \in UCHAR, c \in Seq(Places), d \in Seq(Places) :
          [type |-> t, length |-> l, core_type |-> u, cores |-> c, delta_type |-> u, deltas |-> d] \in Feds
    BY DEF Feds
  <2> QED
    BY <1>3, <1>5, <1>10, <2>1
<1>13. /\ fed.type # FED_RIDGE_COUNT /\ fed.type = FED_CORE_AND_DELTA
       /\ fed.core_type = 0 /\ fed.delta_type = 0 /\ fed.cores = cores /\ fed.deltas = deltas
       /\ fed.length = length
  <2> HIDE DEF fed
  <2>1. FED_CORE_AND_DELTA # FED_RIDGE_COUNT
    BY DEF FED_RIDGE_COUNT, FED_CORE_AND_DELTA
  <2> QED
    BY <1>3, <2>1
<1> HIDE DEF fed
<1>14. FedBytes(fed) = 6 + 4 * nc + 4 * nd
  <2>1. CoreSize(FALSE) = 4 /\ DeltaSize(FALSE) = 4
    BY DEF CoreSize, DeltaSize
  <2>2. CoreSize(fed.core_type = ANGULAR) = 4 /\ DeltaSize(fed.delta_type = ANGULAR) = 4
    <3>1. (fed.core_type = ANGULAR) = FALSE /\ (fed.delta_type = ANGULAR) = FALSE
      BY <1>13 DEF ANGULAR
    <3> QED
      BY <2>1, <3>1
  <2>3. FedBytes(fed) = 4 + (1 + 4 * nc + 1 + 4 * nd)
    BY <1>5, <1>13, <2>2 DEF FedBytes, FED_HEADER_LENGTH
  <2>4. 4 + (1 + 4 * nc + 1 + 4 * nd) = 6 + 4 * nc + 4 * nd
    OBVIOUS
  <2> QED
    BY <2>3, <2>4
<1>15. UnwrittenOf(fed) = 0
  BY <1>13 DEF UnwrittenOf, NONANGULAR
<1>16. a = (IF fed.cores = <<>> THEN 1 ELSE 0) /\ b = (IF fed.deltas = <<>> THEN 1 ELSE 0)
  BY <1>5, <1>6, <1>13
<1>17. FedBytes(fed) < USHRT_MAX => fed.length = FedBytes(fed) - a - b
  BY <1>11, <1>13, <1>14
<1>18. FedBytes(fed) < USHRT_MAX => fed.length = FedBytes(fed) - (IF fed.cores = <<>> THEN 1 ELSE 0)
                                            - (IF fed.deltas = <<>> THEN 1 ELSE 0)
  BY <1>16, <1>17
<1> QED
  BY <1>4, <1>5, <1>12, <1>13, <1>14, <1>15, <1>18 DEF fed
LEMMA RidgeFedTypes ==
  ASSUME NEW subfields \in Seq(Subfields)
  PROVE  LET fed == RidgeFed(subfields)
         IN /\ fed \in Feds /\ fed.type = FED_RIDGE_COUNT
            /\ UnwrittenOf(fed) = 0
            /\ FedBytes(fed) < USHRT_MAX => fed.length = FedBytes(fed)
<1> DEFINE fed == RidgeFed(subfields)
           count(s, k) == [one |-> s.index % (UCHAR_MAX + 1), two |-> s.counts[k].other,
                           count |-> s.counts[k].count]
           counts(s) == [k \in DOMAIN s.counts |-> count(s, k)]
           each == [k \in DOMAIN subfields |-> counts(subfields[k])]
           all == FlattenSeq(each)
           length == USHRT(FED_HEADER_LENGTH + 1 + RIDGE_COUNT_DATA_LENGTH * Len(all))
<1>1. DOMAIN subfields = 1 .. Len(subfields) /\ Len(subfields) \in Nat
  BY LenProperties
<1>2. ASSUME NEW k \in 1 .. Len(subfields) PROVE each[k] \in Seq(Counts)
  <2> DEFINE s == subfields[k]
  <2>1. s \in Subfields
    BY ElementOfSeq
  <2> HIDE DEF s
  <2>2. s.index \in Nat /\ s.counts \in Seq([other : UCHAR, count : UCHAR])
    BY <2>1 DEF Subfields
  <2>3. DOMAIN s.counts = 1 .. Len(s.counts) /\ Len(s.counts) \in Nat
    BY <2>2, LenProperties
  <2>4. ASSUME NEW l \in 1 .. Len(s.counts) PROVE count(s, l) \in Counts
    <3>1. s.counts[l] \in [other : UCHAR, count : UCHAR]
      BY <2>2, ElementOfSeq
    <3>2. s.index % (UCHAR_MAX + 1) \in UCHAR
      BY <2>2, Remainders
    <3>3. \A a, b, c \in UCHAR : [one |-> a, two |-> b, count |-> c] \in Counts
      BY DEF Counts
    <3> QED
      BY <3>1, <3>2, <3>3
  <2> HIDE DEF count
  <2>5. counts(s) \in [1 .. Len(s.counts) -> Counts]
    BY <2>3, <2>4
  <2>6. counts(s) \in Seq(Counts)
    BY <2>3, <2>5, SequenceOf
  <2> HIDE DEF counts
  <2> QED
    BY <1>1, <2>6 DEF s
<1>3. fed = [type |-> FED_RIDGE_COUNT, length |-> length, method |-> 0, counts |-> all]
  BY DEF RidgeFed
<1> HIDE DEF counts, count
<1>4. each \in [1 .. Len(subfields) -> Seq(Counts)]
  BY <1>1, <1>2
<1> HIDE DEF each
<1>5. each \in Seq(Seq(Counts))
  BY <1>1, <1>4, SequenceOf
<1>6. <<>> \in Seq(Counts)
  OBVIOUS
<1>7. all \in Seq(Counts)
  BY <1>5, <1>6, FlattenSeqGrows
<1> HIDE DEF all
<1>8. PICK n \in Nat : n = Len(all)
  BY <1>7, LenProperties
<1>9. PICK sum \in Nat : sum = 5 + 3 * n /\ FED_HEADER_LENGTH + 1 + RIDGE_COUNT_DATA_LENGTH * n = sum
  <2>1. 5 + 3 * n \in Nat /\ 4 + 1 + 3 * n = 5 + 3 * n
    BY SMT
  <2> QED
    BY <2>1 DEF FED_HEADER_LENGTH, RIDGE_COUNT_DATA_LENGTH
<1>10. length = USHRT(sum)
  BY <1>8, <1>9
<1> HIDE DEF length
<1>11. length \in USHORT /\ 0 \in UCHAR
  BY <1>10, UshrtTypes, Unsigned
<1>12. fed \in Feds
  <2>1. \A t \in {FED_RIDGE_COUNT}, l \in USHORT, u \in UCHAR, c \in Seq(Counts) :
          [type |-> t, length |-> l, method |-> u, counts |-> c] \in Feds
    BY DEF Feds
  <2> QED
    BY <1>3, <1>7, <1>11, <2>1
<1> HIDE DEF fed
<1>13. fed.type = FED_RIDGE_COUNT /\ fed.length = length /\ fed.counts = all
  BY <1>3
<1>14. FedBytes(fed) = sum
  <2>1. FedBytes(fed) = FED_HEADER_LENGTH + (1 + RIDGE_COUNT_DATA_LENGTH * n)
    BY <1>8, <1>13 DEF FedBytes
  <2>2. 4 + (1 + 3 * n) = 5 + 3 * n
    BY SMT
  <2> QED
    BY <1>9, <2>1, <2>2 DEF FED_HEADER_LENGTH, RIDGE_COUNT_DATA_LENGTH
<1>15. UnwrittenOf(fed) = 0
  BY <1>13 DEF UnwrittenOf
<1>16. ASSUME sum < USHRT_MAX PROVE length = sum
  <2>1. ASSUME NEW m \in Nat, NEW max \in Nat, m < max PROVE m % (max + 1) = m
    BY <2>1
  <2> QED
    BY <1>10, <1>16, <2>1, Unsigned DEF USHRT
<1> QED
  BY <1>12, <1>13, <1>14, <1>15, <1>16 DEF fed

\* Both FEDs of an2k2fmr, and those that are one-sided.
Side(fed) == IF fed.type = FED_CORE_AND_DELTA /\ (fed.cores = <<>> \/ fed.deltas = <<>>) THEN 1 ELSE 0
FromCard(fed) ==
  UnwrittenOf(fed) = 0 /\ (FedBytes(fed) < USHRT_MAX => fed.length = FedBytes(fed) - Side(fed))

FromAn2k(view) ==
  /\ view \in Fvmrs
  /\ FedsOf(view) = <<>> <=> view.extended = <<>>
  /\ UnwrittenAngles(view) = 0
  /\ Cardinality(OneSided(view)) \in Nat
  /\ view.extended # <<>> /\ BlockBytes(view) < USHRT_MAX - 1 =>
       view.extended[1].block_length = BlockBytes(view) - Cardinality(OneSided(view))

LEMMA FewFeds ==
  ASSUME NEW view \in Fvmrs, NEW n \in 0 .. 2, Len(FedsOf(view)) = n,
         \A k \in 1 .. n : FromCard(FedsOf(view)[k]),
         \A k \in 1 .. n : k > 1 => Side(FedsOf(view)[k]) = 0
  PROVE  /\ UnwrittenAngles(view) = 0
         /\ Cardinality(OneSided(view)) \in Nat
         /\ BlockBytes(view) < USHRT_MAX - 1 =>
              USHRT(FedLengths(FedsOf(view))) = BlockBytes(view) - Cardinality(OneSided(view))
<1> DEFINE feds == FedsOf(view)
           bytes == FedBytesOf(view)
           angles == UnwrittenIn(view)
           lengths == [k \in DOMAIN feds |-> feds[k].length]
           c == Cardinality(OneSided(view))
<1>1. DOMAIN feds = 1 .. n /\ feds \in Seq(Feds) /\ \A k \in 1 .. n : feds[k] \in Feds
  BY FedsType, ElementOfSeq
<1>2. /\ BlockBytes(view) = SumFunction(bytes) /\ UnwrittenAngles(view) = SumFunction(angles)
      /\ DOMAIN bytes = 1 .. n /\ DOMAIN angles = 1 .. n /\ BlockBytes(view) \in Nat
      /\ \A k \in 1 .. n : bytes[k] = FedBytes(feds[k]) /\ bytes[k] \in Nat /\ angles[k] = UnwrittenOf(feds[k])
  BY <1>1, BlockSums DEF FedBytesOf, UnwrittenIn
<1>3. DOMAIN lengths = 1 .. n /\ \A k \in 1 .. n : lengths[k] = feds[k].length /\ lengths[k] \in Nat
  <2>1. \A k \in 1 .. n : feds[k].length \in USHORT
    BY <1>1 DEF Feds
  <2> QED
    BY <1>1, <2>1, Unsigned
<1>4. FedLengths(feds) = SumFunction(lengths)
  BY DEF FedLengths
<1>5. OneSided(view) = {k \in 1 .. n : Side(feds[k]) = 1}
  BY <1>1 DEF OneSided, Side
<1>6. \A k \in 1 .. n : Side(feds[k]) \in {0, 1}
  BY DEF Side
<1> HIDE DEF feds, bytes, angles, lengths
<1>7. Cardinality({}) = 0 /\ Cardinality({1}) = 1
  BY FS_EmptySet, FS_Singleton
<1>8. \A k \in 1 .. n : /\ UnwrittenOf(feds[k]) = 0
                        /\ bytes[k] < USHRT_MAX => lengths[k] = bytes[k] - Side(feds[k])
  BY <1>2, <1>3 DEF FromCard, feds
<1>9. ASSUME NEW m \in Nat, NEW max \in Nat, m <= max PROVE m % (max + 1) = m
  BY <1>9
<1>10. CASE n = 0
  <2>1. OneSided(view) = {}
    BY <1>5, <1>10
  <2>2. SumFunction(bytes) = 0 /\ SumFunction(angles) = 0 /\ SumFunction(lengths) = 0
    BY <1>2, <1>3, <1>10, SumType
  <2>3. USHRT(0) = 0
    BY <1>9, Unsigned DEF USHRT
  <2> QED
    BY <1>2, <1>4, <1>7, <2>1, <2>2, <2>3 DEF feds
<1>11. CASE n = 1
  <2>1. 1 \in 1 .. n /\ DOMAIN bytes = 1 .. 1 /\ DOMAIN angles = 1 .. 1 /\ DOMAIN lengths = 1 .. 1
    BY <1>2, <1>3, <1>11
  <2>2. OneSided(view) = IF Side(feds[1]) = 1 THEN {1} ELSE {}
    BY <1>5, <1>11
  <2>3. c = Side(feds[1]) /\ c \in {0, 1}
    BY <1>6, <1>7, <2>1, <2>2
  <2>4. /\ SumFunction(bytes) = bytes[1] /\ SumFunction(angles) = 0
        /\ SumFunction(lengths) = lengths[1]
    BY <1>2, <1>3, <1>8, <2>1, FewSums
  <2> HIDE DEF c
  <2>5. ASSUME BlockBytes(view) < USHRT_MAX - 1 PROVE USHRT(lengths[1]) = BlockBytes(view) - c
    <3>1. bytes[1] \in Nat /\ lengths[1] \in Nat /\ bytes[1] < USHRT_MAX - 1 /\ USHRT_MAX \in Nat
      BY <1>2, <1>3, <2>1, <2>4, <2>5, Unsigned
    <3>2. lengths[1] = bytes[1] - c
      BY <1>8, <2>1, <2>3, <3>1
    <3>3. lengths[1] <= USHRT_MAX
      BY <2>3, <3>1, <3>2
    <3> QED
      BY <1>2, <1>9, <2>4, <3>1, <3>2, <3>3 DEF USHRT
  <2> QED
    BY <1>2, <1>4, <2>3, <2>4, <2>5 DEF feds, c
<1>12. CASE n = 2
  <2>1. /\ 1 \in 1 .. n /\ 2 \in 1 .. n
        /\ DOMAIN bytes = 1 .. 2 /\ DOMAIN angles = 1 .. 2 /\ DOMAIN lengths = 1 .. 2
    BY <1>2, <1>3, <1>12
  <2>2. OneSided(view) = IF Side(feds[1]) = 1 THEN {1} ELSE {}
    <3>1. Side(feds[2]) = 0
      BY <1>12 DEF feds
    <3>2. \A k \in 1 .. n : k = 1 \/ k = 2
      BY <1>12
    <3> QED
      BY <1>5, <2>1, <3>1, <3>2
  <2>3. c = Side(feds[1]) /\ c \in {0, 1} /\ Side(feds[2]) = 0
    BY <1>6, <1>7, <1>12, <2>1, <2>2 DEF feds
  <2>4. /\ SumFunction(bytes) = bytes[1] + bytes[2] /\ SumFunction(angles) = 0
        /\ SumFunction(lengths) = lengths[1] + lengths[2]
    BY <1>2, <1>3, <1>8, <2>1, FewSums
  <2> HIDE DEF c
  <2>5. ASSUME BlockBytes(view) < USHRT_MAX - 1
        PROVE  USHRT(lengths[1] + lengths[2]) = BlockBytes(view) - c
    <3>1. /\ bytes[1] \in Nat /\ lengths[1] \in Nat /\ bytes[2] \in Nat /\ lengths[2] \in Nat
          /\ bytes[1] + bytes[2] < USHRT_MAX - 1 /\ USHRT_MAX \in Nat
      BY <1>2, <1>3, <2>1, <2>4, <2>5, Unsigned
    <3>2. bytes[1] < USHRT_MAX /\ bytes[2] < USHRT_MAX
      BY <3>1
    <3>3. lengths[1] = bytes[1] - c /\ lengths[2] = bytes[2]
      BY <1>8, <2>1, <2>3, <3>1, <3>2
    <3>4. lengths[1] + lengths[2] <= USHRT_MAX /\ lengths[1] + lengths[2] \in Nat
      BY <2>3, <3>1, <3>3
    <3>5. PICK l \in Nat, b \in Nat : l = lengths[1] + lengths[2] /\ b = bytes[1] + bytes[2]
      BY <3>1
    <3>6. USHRT(l) = l
      BY <1>9, <3>1, <3>4, <3>5 DEF USHRT
    <3>7. l = b - c
      BY <2>3, <3>1, <3>3, <3>5
    <3>8. BlockBytes(view) = b
      BY <1>2, <2>4, <3>5, Zenon
    <3>9. USHRT(l) = BlockBytes(view) - c
      BY <3>6, <3>7, <3>8, Zenon
    <3> QED
      BY <3>5, <3>9, Zenon
  <2> QED
    BY <1>2, <1>4, <2>3, <2>4, <2>5 DEF feds, c
<1> QED
  BY <1>10, <1>11, <1>12

LEMMA An2kViewsTypes ==
  ASSUME NEW header \in Fmrs, NEW record9 \in Type9Records, NEW view_number \in Nat,
         NEW view \in Views(header, record9, view_number)
  PROVE  FromAn2k(view)
<1> DEFINE n == IF record9.count > FMR_MAX_NUM_MINUTIAE THEN FMR_MAX_NUM_MINUTIAE ELSE record9.count
           subfields == SubSeq(record9.minutiae, 1, n)
           points == CoreDeltaFed(record9)
           ridges == RidgeFed(subfields)
           front == IF record9.cores = <<>> /\ record9.deltas = <<>> THEN <<>> ELSE <<points>>
           back == IF \A k \in DOMAIN subfields : subfields[k].counts = <<>> THEN <<>> ELSE <<ridges>>
           feds == front \o back
           number == view_number % (UCHAR_MAX + 1)
           block == [block_length |-> USHRT(FedLengths(feds)), feds |-> feds]
           extended == IF feds = <<>> THEN <<>> ELSE <<block>>
<1>1. /\ record9.finger \in UCHAR /\ record9.impression \in UCHAR
      /\ record9.count \in Nat /\ record9.minutiae \in Seq(Subfields)
      /\ record9.count <= Len(record9.minutiae)
  BY DEF Type9Records
<1>2. subfields \in Seq(Subfields)
  <2>1. 255 \in Nat
    OBVIOUS
  <2>2. n \in Nat /\ n <= record9.count
    BY <1>1, <2>1, SMT DEF FMR_MAX_NUM_MINUTIAE
  <2>3. Len(record9.minutiae) \in Nat
    BY <1>1, LenProperties
  <2> HIDE DEF n
  <2>4. n <= Len(record9.minutiae)
    BY <1>1, <2>2, <2>3
  <2> QED
    BY <1>1, <2>2, <2>4, FrontPart
<1> HIDE DEF n, subfields
<1>3. PICK minutiae \in FmrMinutiae(header, subfields) :
        view = [finger_number |-> record9.finger, view_number |-> number,
                impression_type |-> record9.impression, finger_quality |-> 0, minutiae |-> minutiae,
                extended |-> extended]
  BY Zenon DEF Views, n, subfields
<1>4. minutiae \in Seq(Minutiae)
  BY <1>2, FmrMinutiaeTypes
<1>5. ridges \in Feds /\ FromCard(ridges) /\ Side(ridges) = 0
  <2>1. FED_RIDGE_COUNT # FED_CORE_AND_DELTA
    BY DEF FED_RIDGE_COUNT, FED_CORE_AND_DELTA
  <2>2. /\ ridges \in Feds /\ ridges.type = FED_RIDGE_COUNT /\ UnwrittenOf(ridges) = 0
        /\ FedBytes(ridges) < USHRT_MAX => ridges.length = FedBytes(ridges)
    BY <1>2, RidgeFedTypes
  <2> HIDE DEF ridges
  <2>3. Side(ridges) = 0
    BY <2>1, <2>2 DEF Side
  <2>4. FedBytes(ridges) \in Nat
    BY <2>2, StoredFedType
  <2> QED
    BY <2>2, <2>3, <2>4 DEF FromCard
<1>6. ASSUME ~ (record9.cores = <<>> /\ record9.deltas = <<>>)
      PROVE  points \in Feds /\ FromCard(points)
  <2>1. /\ points \in Feds /\ points.type = FED_CORE_AND_DELTA /\ UnwrittenOf(points) = 0
        /\ ~ (points.cores = <<>> /\ points.deltas = <<>>)
        /\ FedBytes(points) < USHRT_MAX =>
             points.length = FedBytes(points) - (IF points.cores = <<>> THEN 1 ELSE 0)
                                              - (IF points.deltas = <<>> THEN 1 ELSE 0)
    BY <1>6, CoreDeltaFedTypes
  <2> HIDE DEF points
  <2>2. FedBytes(points) \in Nat
    BY <2>1, StoredFedType
  <2>3. (IF points.cores = <<>> THEN 1 ELSE 0) + (IF points.deltas = <<>> THEN 1 ELSE 0) = Side(points)
    BY <2>1 DEF Side
  <2>4. FedBytes(points) < USHRT_MAX => points.length = FedBytes(points) - Side(points)
    BY <2>1, <2>2, <2>3
  <2> QED
    BY <2>1, <2>4 DEF FromCard
<1> HIDE DEF points, ridges
<1>7. /\ feds \in Seq(Feds) /\ Len(feds) \in 0 .. 2
      /\ \A k \in 1 .. Len(feds) : FromCard(feds[k])
      /\ \A k \in 1 .. Len(feds) : k > 1 => Side(feds[k]) = 0
  <2>0. \A fed \in Feds : <<>> \o <<fed>> = <<fed>> /\ <<fed>> \o <<>> = <<fed>>
    BY ConcatEmptySeq
  <2>1. CASE front = <<>> /\ back = <<>>
    <3>1. feds = <<>>
      BY <2>1
    <3> HIDE DEF feds
    <3> QED
      BY <3>1
  <2>2. CASE front = <<>> /\ back = <<ridges>>
    <3>1. feds = <<ridges>>
      BY <1>5, <2>0, <2>2, Zenon
    <3> HIDE DEF feds
    <3> QED
      BY <1>5, <3>1
  <2>3. CASE front = <<points>> /\ back = <<>> /\ ~ (record9.cores = <<>> /\ record9.deltas = <<>>)
    <3>1. feds = <<points>>
      BY <1>6, <2>0, <2>3, Zenon
    <3> HIDE DEF feds
    <3> QED
      BY <1>6, <2>3, <3>1
  <2>4. CASE front = <<points>> /\ back = <<ridges>> /\ ~ (record9.cores = <<>> /\ record9.deltas = <<>>)
    <3>1. feds = <<points>> \o <<ridges>>
      BY <2>4
    <3> HIDE DEF feds
    <3>2. <<points>> \in Seq(Feds) /\ <<ridges>> \in Seq(Feds) /\ points \in Feds /\ ridges \in Feds
      BY <1>5, <1>6, <2>4
    <3>3. \A p, q \in Feds : /\ <<p>> \o <<q>> \in Seq(Feds) /\ Len(<<p>> \o <<q>>) = 2
                            /\ (<<p>> \o <<q>>)[1] = p /\ (<<p>> \o <<q>>)[2] = q
      OBVIOUS
    <3>4. feds \in Seq(Feds) /\ Len(feds) = 2 /\ feds[1] = points /\ feds[2] = ridges
      BY <3>1, <3>2, <3>3, Zenon
    <3>5. \A k \in 1 .. 2 : k = 1 \/ k = 2
      OBVIOUS
    <3> QED
      BY <1>5, <1>6, <2>4, <3>4, <3>5
  <2> QED
    BY <2>1, <2>2, <2>3, <2>4
<1> HIDE DEF feds
<1>8. number \in UCHAR /\ 0 \in UCHAR
  BY Remainders, Unsigned
<1>9. extended \in Seq(Blocks)
  <2>1. FedLengths(feds) \in Int
    <3> DEFINE lengths == [k \in DOMAIN feds |-> feds[k].length]
    <3>1. DOMAIN feds = 1 .. Len(feds) /\ Len(feds) \in Nat
      BY <1>7, LenProperties
    <3>2. \A k \in 1 .. Len(feds) : feds[k].length \in USHORT
      BY <1>7, ElementOfSeq DEF Feds
    <3>3. DOMAIN lengths = 1 .. Len(feds) /\ \A k \in 1 .. Len(feds) : lengths[k] \in Nat
      BY <3>1, <3>2, Unsigned
    <3>4. FedLengths(feds) = SumFunction(lengths)
      BY DEF FedLengths
    <3> HIDE DEF lengths
    <3>5. SumFunction(lengths) \in Nat
      BY <3>1, <3>3, SumType
    <3> QED
      BY <3>4, <3>5
  <2>2. USHRT(FedLengths(feds)) \in USHORT
    BY <2>1, UshrtTypes
  <2>3. block \in Blocks
    BY <1>7, <2>2 DEF Blocks
  <2> HIDE DEF block
  <2> QED
    BY <2>3
<1>10. view \in Fvmrs
  <2>1. \A f, v, t, q \in UCHAR, m \in Seq(Minutiae), e \in Seq(Blocks) :
          [finger_number |-> f, view_number |-> v, impression_type |-> t, finger_quality |-> q,
           minutiae |-> m, extended |-> e] \in Fvmrs
    BY DEF Fvmrs
  <2> HIDE DEF number, extended
  <2> QED
    BY <1>1, <1>3, <1>4, <1>8, <1>9, <2>1
<1>11. view.extended = extended
  BY <1>3
<1>12. FedsOf(view) = feds
  BY <1>11 DEF FedsOf
<1>13. view.extended = <<>> <=> feds = <<>>
  BY <1>11
<1>14. feds # <<>> => view.extended[1].block_length = USHRT(FedLengths(feds))
  BY <1>11
<1> HIDE DEF extended, block, number
<1>15. PICK m \in 0 .. 2 : m = Len(feds)
  BY <1>7
<1>16. /\ UnwrittenAngles(view) = 0
       /\ Cardinality(OneSided(view)) \in Nat
       /\ BlockBytes(view) < USHRT_MAX - 1 =>
            USHRT(FedLengths(feds)) = BlockBytes(view) - Cardinality(OneSided(view))
  BY <1>7, <1>10, <1>12, <1>15, FewFeds
<1> QED
  BY <1>10, <1>12, <1>13, <1>14, <1>16 DEF FromAn2k
LEMMA LowPlacesEmpty ==
  ASSUME NEW ps \in Seq(Places)
  PROVE  LowPlaces(ps) = <<>> <=> ps = <<>>
<1>1. LowPlaces(ps) \in Seq(Places) /\ Len(LowPlaces(ps)) = Len(ps)
  BY LowPlacesType
<1> QED
  BY <1>1, EmptySeq

\* What is stored of a view is as one-sided.
LEMMA StoredOneSided ==
  ASSUME NEW view \in Fvmrs
  PROVE  OneSided(StoredView(view)) = OneSided(view)
<1> DEFINE stored == StoredView(view)
           side(fed) == fed.type = FED_CORE_AND_DELTA /\ (fed.cores = <<>> \/ fed.deltas = <<>>)
<1>1. /\ FedsOf(view) \in Seq(Feds) /\ DOMAIN FedsOf(view) = 1 .. Len(FedsOf(view))
  BY FedsType
<1>2. /\ FedsOf(stored) = [k \in DOMAIN FedsOf(view) |-> StoredFed(FedsOf(view)[k])]
  BY StoredViewFields
<1> HIDE DEF stored
<1>3. ASSUME NEW fed \in Feds PROVE side(StoredFed(fed)) <=> side(fed)
  <2>1. FED_RIDGE_COUNT # FED_CORE_AND_DELTA
    BY DEF FED_RIDGE_COUNT, FED_CORE_AND_DELTA
  <2>2. CASE fed.type = FED_RIDGE_COUNT
    BY <2>2 DEF StoredFed
  <2>3. CASE fed.type # FED_RIDGE_COUNT
    <3>1. /\ fed \in [type : {FED_CORE_AND_DELTA}, length : USHORT, core_type : UCHAR,
                      cores : Seq(Places), delta_type : UCHAR, deltas : Seq(Places)]
      BY <2>3 DEF Feds
    <3>2. fed.cores \in Seq(Places) /\ fed.deltas \in Seq(Places)
      BY <3>1
    <3>3. StoredFed(fed) = [fed EXCEPT !.cores = LowPlaces(@), !.deltas = LowPlaces(@)]
      BY <2>3 DEF StoredFed, LowPlaces
    <3>4. /\ StoredFed(fed).type = fed.type /\ StoredFed(fed).cores = LowPlaces(fed.cores)
          /\ StoredFed(fed).deltas = LowPlaces(fed.deltas)
      BY <3>1, <3>3
    <3> QED
      BY <3>2, <3>4, LowPlacesEmpty
  <2> QED
    BY <2>2, <2>3
<1> HIDE DEF side
<1>4. \A k \in DOMAIN FedsOf(view) : side(FedsOf(stored)[k]) <=> side(FedsOf(view)[k])
  <2>1. \A k \in DOMAIN FedsOf(view) : FedsOf(view)[k] \in Feds
    BY <1>1, ElementOfSeq
  <2> QED
    BY <1>2, <1>3, <2>1
<1>5. DOMAIN FedsOf(stored) = DOMAIN FedsOf(view)
  BY <1>2
<1> QED
  BY <1>4, <1>5 DEF OneSided, side, stored

\* The length of a record that an2k2fmr makes.
An2kTrue(record) ==
  DataFit(record) =>
    Drift(record) = SMALL_HEADER - HeaderOf(record) -
                    IF record.views[1].extended = <<>>
                      THEN FEDB_HEADER_LENGTH ELSE Cardinality(OneSided(record.views[1]))

LEMMA FmrsOfTypes ==
  ASSUME NEW ansi, ansi.records \in Seq(AnsiRecords), NEW record9 \in Type9Records,
         NEW view_number \in Nat, NEW fmr \in FmrsOf(ansi, record9, view_number)
  PROVE  /\ fmr \in Fmrs /\ Stored(fmr) \in FileFmrs /\ Whole(fmr) /\ Len(fmr.views) = 1
         /\ An2kTrue(Stored(fmr))
<1>0. PICK header \in FmrHeaders(ansi, record9.idc) : \E v \in Views(header, record9, view_number) :
        fmr = [header EXCEPT !.views = <<v>>, !.num_views = 1, !.record_length = An2kLength(v)]
  BY DEF FmrsOf
<1>1. PICK view \in Views(header, record9, view_number) :
        fmr = [header EXCEPT !.views = <<view>>, !.num_views = 1, !.record_length = An2kLength(view)]
  BY <1>0
<1>2. header \in Fmrs
  BY FmrHeadersTypes
<1>3. FromAn2k(view) /\ view \in Fvmrs /\ view.minutiae \in Seq(Minutiae)
  <2>1. FromAn2k(view)
    BY <1>2, An2kViewsTypes
  <2> QED
    BY <2>1 DEF FromAn2k, Fvmrs
<1>4. PICK n \in Nat : n = Len(view.minutiae)
  BY <1>3, LenProperties
<1>5. view.extended # <<>> => view.extended[1].block_length \in Nat
  <2>1. view.extended # <<>> => view.extended[1] \in Blocks
    BY <1>3, FedsType
  <2>2. \A b \in Blocks : b.block_length \in Nat
    BY Unsigned DEF Blocks
  <2> QED
    BY <2>1, <2>2
<1> DEFINE extra == IF view.extended = <<>> THEN 0 ELSE 2 + view.extended[1].block_length
<1>6. extra \in Nat
  BY <1>5
<1>7. PICK l \in Nat : l = 26 + 4 + 6 * n + extra /\ l = An2kLength(view)
  <2>1. An2kLength(view) = 26 + 4 + 6 * n + extra
    BY <1>4 DEF An2kLength, SMALL_HEADER, FVMR_HEADER_LENGTH, FMD_DATA_LENGTH, FEDB_HEADER_LENGTH
  <2> HIDE DEF extra
  <2>2. 26 + 4 + 6 * n + extra \in Nat
    BY <1>6
  <2> QED
    BY <2>1, <2>2
<1> HIDE DEF extra
<1>8. fmr \in Fmrs /\ fmr.views = <<view>> /\ fmr.record_length = l /\ fmr.num_views = 1
  <2>1. <<view>> \in Seq(Fvmrs) /\ 1 \in UCHAR
    BY <1>3, Unsigned, SMT
  <2> QED
    BY <1>1, <1>2, <1>7, <2>1 DEF Fmrs
<1>9. Len(fmr.views) = 1 /\ Whole(fmr) /\ fmr.views[1] = view
  BY <1>8 DEF Whole
<1> DEFINE stored == Stored(fmr)
<1>10. /\ stored \in FileFmrs /\ stored.record_length = l /\ Len(stored.views) = 1
       /\ stored.views[1] = StoredView(view)
       /\ RecordBytes(stored) = HeaderOf(stored) + SumFunction(ViewBytesOf(fmr))
  <2>1. /\ stored \in FileFmrs /\ stored.record_length = fmr.record_length
        /\ Len(stored.views) = Len(fmr.views)
        /\ \A k \in 1 .. Len(fmr.views) : stored.views[k] = StoredView(fmr.views[k])
    BY <1>8, StoredFields
  <2>2. RecordBytes(stored) = HeaderOf(stored) + SumFunction(ViewBytesOf(fmr))
    BY <1>8, StoredBytes
  <2>3. 1 \in 1 .. 1
    OBVIOUS
  <2> HIDE DEF stored
  <2> QED
    BY <1>8, <1>9, <2>1, <2>2, <2>3
<1>11. SumFunction(ViewBytesOf(fmr)) = ViewBytes(view)
  <2>1. DOMAIN ViewBytesOf(fmr) = 1 .. 1
    BY <1>8, <1>9, RecordSums
  <2>2. ViewBytesOf(fmr)[1] = ViewBytes(view)
    BY <1>9, <2>1 DEF ViewBytesOf
  <2>3. ViewBytes(view) \in Int
    BY <1>3, StoredViewBytes
  <2> QED
    BY <2>1, <2>2, <2>3, FewSums
<1>12. ViewBytes(view) = 6 + 6 * n + BlockBytes(view) /\ BlockBytes(view) \in Nat
  BY <1>3, <1>4, StoredViewBytes, BlockSums
<1>13. DataFit(stored) => BlockBytes(view) < USHRT_MAX - 1
  <2>1. ASSUME DataFit(stored)
        PROVE  BlockBytes(view) + UnwrittenAngles(view) < USHRT_MAX - 1
    <3>1. DataFit(fmr)
      BY <1>8, <2>1, StoredBytes
    <3>2. 1 \in DOMAIN fmr.views
      BY <1>8
    <3> QED
      BY <1>9, <3>1, <3>2 DEF DataFit
  <2>2. UnwrittenAngles(view) = 0
    BY <1>3 DEF FromAn2k
  <2> QED
    BY <1>12, <2>1, <2>2
<1>14. /\ OneSided(stored.views[1]) = OneSided(view)
       /\ stored.views[1].extended = <<>> <=> view.extended = <<>>
  <2>1. FedsOf(view) = <<>> <=> view.extended = <<>>
    BY <1>3 DEF FromAn2k
  <2> QED
    BY <1>3, <1>10, <2>1, StoredOneSided, StoredViewFields
<1> DEFINE c == Cardinality(OneSided(view))
<1>15. c \in Nat
  BY <1>3 DEF FromAn2k
<1>16. ASSUME view.extended # <<>>, DataFit(stored)
       PROVE  extra = 2 + (BlockBytes(view) - c)
  <2>1. view.extended[1].block_length = BlockBytes(view) - c
    BY <1>3, <1>13, <1>16 DEF FromAn2k
  <2> QED
    BY <1>16, <2>1 DEF extra
<1>17. ASSUME view.extended = <<>>
       PROVE  extra = 0 /\ BlockBytes(view) = 0
  <2>1. FedsOf(view) = <<>>
    BY <1>3, <1>17 DEF FromAn2k
  <2>2. BlockBytes(view) = SumFunction(FedBytesOf(view)) /\ DOMAIN FedBytesOf(view) = 1 .. 0
    BY <1>3, <2>1, BlockSums
  <2>3. 0 \in Nat
    OBVIOUS
  <2> QED
    BY <1>17, <2>2, <2>3, SumType DEF extra
<1>18. PICK h \in Nat : h = HeaderOf(stored)
  BY DEF HeaderOf, SMALL_HEADER, LARGE_HEADER
<1>19. Drift(stored) = l - (h + (6 + 6 * n + BlockBytes(view)))
  BY <1>10, <1>11, <1>12, <1>18 DEF Drift
<1> HIDE DEF c, stored
<1>20. ASSUME DataFit(stored), view.extended # <<>>
       PROVE  Drift(stored) = SMALL_HEADER - HeaderOf(stored) - c
  <2>1. \A b \in Nat : 26 + 4 + 6 * n + (2 + (b - c)) - (h + (6 + 6 * n + b)) = 26 - h - c
    BY <1>15, SMT
  <2>2. PICK b \in Nat : b = BlockBytes(view)
    BY <1>12
  <2>3. extra = 2 + (b - c)
    BY <1>16, <1>20, <2>2
  <2>4. /\ l = 26 + 4 + 6 * n + (2 + (b - c)) /\ h = HeaderOf(stored)
        /\ Drift(stored) = l - (h + (6 + 6 * n + b))
    BY <1>7, <1>18, <1>19, <2>2, <2>3
  <2>5. Drift(stored) = 26 - h - c
    <3>1. \A d, k \in Int : k = 26 + 4 + 6 * n + (2 + (b - c)) /\ d = k - (h + (6 + 6 * n + b)) => d = 26 - h - c
      BY <1>15, SMT
    <3>2. Drift(stored) \in Int
      <4>1. \A k \in Nat : k - (h + (6 + 6 * n + b)) \in Int
        OBVIOUS
      <4> QED
        BY <2>4, <4>1
    <3>3. l = 26 + 4 + 6 * n + (2 + (b - c)) /\ Drift(stored) = l - (h + (6 + 6 * n + b)) /\ l \in Int
      BY <2>4
    <3> QED
      BY <3>1, <3>2, <3>3, Zenon
  <2> QED
    BY <2>4, <2>5 DEF SMALL_HEADER
<1>21. ASSUME view.extended = <<>>
       PROVE  Drift(stored) = SMALL_HEADER - HeaderOf(stored) - FEDB_HEADER_LENGTH
  <2>1. 26 + 4 + 6 * n + 0 - (h + (6 + 6 * n + 0)) = 26 - h - 2
    BY SMT
  <2>2. /\ l = 26 + 4 + 6 * n + 0 /\ h = HeaderOf(stored)
        /\ Drift(stored) = l - (h + (6 + 6 * n + 0))
    BY <1>7, <1>17, <1>18, <1>19, <1>21
  <2>3. Drift(stored) = 26 - h - 2
    BY <2>1, <2>2
  <2> QED
    BY <2>2, <2>3 DEF SMALL_HEADER, FEDB_HEADER_LENGTH
<1>22. An2kTrue(stored)
  BY <1>14, <1>20, <1>21 DEF An2kTrue, c
<1> QED
  BY <1>8, <1>9, <1>10, <1>22 DEF stored
-----------------------------------------------------------------------------
(* Texts.                                                                  *)

LEMMA FieldTypes ==
  ASSUME NEW n \in Nat
  PROVE  /\ uchar(n) \in UCHAR /\ ushort(n) \in USHORT /\ uchar(n) \in Nat /\ ushort(n) \in Nat
         /\ Hexadecimal(n) \in Nat
<1>1. uchar(n) \in UCHAR /\ ushort(n) \in USHORT
  BY Remainders DEF uchar, ushort
<1>2. Hexadecimal(n) \in Nat
  BY SMT DEF Hexadecimal
<1> QED
  BY <1>1, <1>2, Unsigned

\* Up to 9 a number is the same in both notations.
LEMMA OneDigit ==
  ASSUME NEW n \in Nat, n <= 9
  PROVE  uchar(Hexadecimal(n)) = n
<1>1. n \div 10 = 0 /\ n % 10 = n /\ 0 % 10 = 0
  BY SMT
<1>2. Hexadecimal(n) = n
  BY <1>1 DEF Hexadecimal
<1>3. n < 256 /\ n % 256 = n
  BY SMT
<1> QED
  BY <1>2, <1>3 DEF uchar, UCHAR_MAX

LEMMA ScanTypes ==
  ASSUME NEW text \in Seq(Nat), NEW p \in Nat, NEW n \in Nat
  PROVE  \A f \in 1 .. n : Scan(text, p, n)[f] = NumberAt(text, p + f) /\ NumberAt(text, p + f) \in Nat
<1>1. \A k \in DOMAIN text : text[k] \in Nat
  <2>1. DOMAIN text = 1 .. Len(text)
    BY LenProperties
  <2> QED
    BY <2>1, ElementOfSeq
<1> QED
  BY <1>1 DEF Scan, NumberAt

LEMMA AfterTypes ==
  ASSUME NEW text \in Seq(Nat), NEW n \in Nat
  PROVE  /\ After(text, n) \in Seq(Nat)
         /\ \A p \in Nat : p < Len(After(text, n)) <=> n + p < Len(text)
         /\ \A p \in Nat \ {0} : NumberAt(After(text, n), p) = NumberAt(text, n + p)
<1> DEFINE after == After(text, n)
<1>1. DOMAIN text = 1 .. Len(text) /\ Len(text) \in Nat
  BY LenProperties
<1>2. CASE n >= Len(text)
  <2>1. after = <<>>
    BY <1>1, <1>2 DEF After
  <2>2. Len(after) = 0 /\ DOMAIN after = {} /\ after \in Seq(Nat)
    BY <2>1
  <2> HIDE DEF after
  <2>3. \A p \in Nat : ~ (n + p < Len(text)) /\ ~ (p < 0)
    BY <1>1, <1>2
  <2>4. \A p \in Nat \ {0} : n + p \notin DOMAIN text
    BY <1>1, <1>2
  <2>5. \A p \in Nat : p < Len(after) <=> n + p < Len(text)
    BY <2>2, <2>3
  <2>6. \A p \in Nat \ {0} : NumberAt(after, p) = NumberAt(text, n + p)
    BY <2>2, <2>4, Zenon DEF NumberAt
  <2> QED
    BY <2>2, <2>5, <2>6, Zenon DEF after
<1>3. CASE n < Len(text)
  <2>0. Len(text) - n \in Nat
    BY <1>1, <1>3
  <2>1. PICK m \in Nat : m = Len(text) - n
    BY <2>0, Zenon
  <2>2. after = [k \in 1 .. m |-> text[k + n]]
    <3>1. after = [k \in 1 .. Len(text) - (n + 1) + 1 |-> text[k + (n + 1) - 1]]
      BY <1>1, <1>3 DEF After
    <3>2. Len(text) - (n + 1) + 1 = m /\ \A k \in 1 .. m : k + (n + 1) - 1 = k + n
      BY <1>1, <2>1
    <3> HIDE DEF after
    <3> QED
      BY <3>1, <3>2
  <2>3. \A k \in 1 .. m : k + n \in 1 .. Len(text)
    BY <1>1, <2>1
  <2>4. \A k \in 1 .. m : text[k + n] \in Nat
    BY <1>1, <2>3, ElementOfSeq
  <2> HIDE DEF after
  <2>5. after \in [1 .. m -> Nat]
    BY <2>2, <2>4
  <2>6. after \in Seq(Nat) /\ Len(after) = m /\ DOMAIN after = 1 .. m
    BY <2>5, SequenceOf
  <2>7. \A p \in Nat : p < m <=> n + p < Len(text)
    BY <1>1, <2>1
  <2>8. ASSUME NEW p \in Nat \ {0} PROVE NumberAt(after, p) = NumberAt(text, n + p)
    <3>1. p \in 1 .. m <=> n + p \in 1 .. Len(text)
      BY <1>1, <2>1
    <3>2. n + p = p + n
      OBVIOUS
    <3> QED
      BY <1>1, <2>2, <2>6, <3>1, <3>2 DEF NumberAt
  <2> QED
    BY <2>6, <2>7, <2>8 DEF after
<1> QED
  BY <1>1, <1>2, <1>3

LEMMA AfterNothing ==
  ASSUME NEW text \in Seq(Nat)
  PROVE  After(text, 0) = text
<1>1. DOMAIN text = 1 .. Len(text) /\ Len(text) \in Nat /\ text = [k \in 1 .. Len(text) |-> text[k]]
  BY LenProperties
<1>2. After(text, 0) = [k \in 1 .. Len(text) - (0 + 1) + 1 |-> text[k + (0 + 1) - 1]]
  BY <1>1 DEF After
<1>3. Len(text) - (0 + 1) + 1 = Len(text) /\ \A k \in 1 .. Len(text) : k + (0 + 1) - 1 = k
  BY <1>1
<1> QED
  BY <1>1, <1>2, <1>3

LEMMA AfterAfter ==
  ASSUME NEW text \in Seq(Nat), NEW a \in Nat, NEW b \in Nat
  PROVE  After(After(text, a), b) = After(text, a + b)
<1> DEFINE one == After(text, a)
           two == After(one, b)
           all == After(text, a + b)
<1>1. one \in Seq(Nat) /\ a + b \in Nat
  BY AfterTypes
<1>2. two \in Seq(Nat) /\ all \in Seq(Nat)
  BY <1>1, AfterTypes
<1>3. \A p \in Nat : p < Len(two) <=> p < Len(all)
  <2>1. \A p \in Nat : p < Len(two) <=> b + p < Len(one)
    BY <1>1, AfterTypes
  <2>2. \A p \in Nat : b + p \in Nat /\ a + (b + p) = (a + b) + p
    OBVIOUS
  <2>3. \A q \in Nat : q < Len(one) <=> a + q < Len(text)
    BY AfterTypes
  <2>4. \A p \in Nat : p < Len(all) <=> (a + b) + p < Len(text)
    BY <1>1, AfterTypes
  <2> HIDE DEF one, two, all
  <2> QED
    BY <2>1, <2>2, <2>3, <2>4
<1>4. \A p \in Nat \ {0} : NumberAt(two, p) = NumberAt(all, p)
  <2>1. \A p \in Nat \ {0} : NumberAt(two, p) = NumberAt(one, b + p)
    BY <1>1, AfterTypes
  <2>2. \A p \in Nat \ {0} : b + p \in Nat \ {0} /\ a + (b + p) = (a + b) + p
    OBVIOUS
  <2>3. \A q \in Nat \ {0} : NumberAt(one, q) = NumberAt(text, a + q)
    BY AfterTypes
  <2>4. \A p \in Nat \ {0} : NumberAt(all, p) = NumberAt(text, (a + b) + p)
    BY <1>1, AfterTypes
  <2> HIDE DEF one, two, all
  <2> QED
    BY <2>1, <2>2, <2>3, <2>4
<1> HIDE DEF one, two, all
<1>5. Len(two) = Len(all)
  <2>1. \A m, n \in Nat : (\A p \in Nat : p < m <=> p < n) => m = n
    OBVIOUS
  <2>2. Len(two) \in Nat /\ Len(all) \in Nat
    BY <1>2, LenProperties
  <2> QED
    BY <1>3, <2>1, <2>2
<1>6. ASSUME NEW k \in 1 .. Len(two) PROVE two[k] = all[k]
  <2>1. k \in DOMAIN two /\ k \in DOMAIN all /\ k \in Nat \ {0}
    BY <1>2, <1>5, LenProperties
  <2> QED
    BY <1>4, <2>1 DEF NumberAt
<1>7. two = all
  BY <1>2, <1>5, <1>6, SeqEqual
<1> QED
  BY <1>7 DEF one, two, all
\* How many minutiae the views in front of one have.
LensOf(record) == [k \in DOMAIN record.views |-> Len(record.views[k].minutiae)]
FrontLens(record, v) == [k \in 1 .. v - 1 |-> Len(record.views[k].minutiae)]

LEMMA MinutiaeLens ==
  ASSUME NEW record \in Fmrs
  PROVE  /\ DOMAIN record.views = 1 .. Len(record.views) /\ Len(record.views) \in Nat
         /\ \A k \in 1 .. Len(record.views) :
              /\ record.views[k] \in Fvmrs /\ record.views[k].minutiae \in Seq(Minutiae)
              /\ Len(record.views[k].minutiae) \in Nat
<1>1. record.views \in Seq(Fvmrs)
  BY DEF Fmrs
<1>2. \A k \in 1 .. Len(record.views) : record.views[k] \in Fvmrs
  BY <1>1, ElementOfSeq
<1>3. \A view \in Fvmrs : view.minutiae \in Seq(Minutiae)
  BY DEF Fvmrs
<1>4. \A s \in Seq(Minutiae) : Len(s) \in Nat
  BY LenProperties
<1> QED
  BY <1>1, <1>2, <1>3, <1>4, LenProperties

LEMMA BeforeIsSum ==
  ASSUME NEW record \in Fmrs, NEW v \in Nat, v >= 1, v <= Len(record.views) + 1
  PROVE  MinutiaeBefore(record, v) = SumFunction(FrontLens(record, v))
<1>1. v - 1 \in Nat /\ v - 1 <= Len(record.views) /\ record.views \in Seq(Fvmrs)
  BY MinutiaeLens DEF Fmrs
<1> DEFINE front == SubSeq(record.views, 1, v - 1)
<1>2. DOMAIN front = 1 .. v - 1 /\ \A k \in 1 .. v - 1 : front[k] = record.views[k]
  BY <1>1, FrontPart
<1>3. MinutiaeBefore(record, v) = SumFunction([k \in DOMAIN front |-> Len(front[k].minutiae)])
  BY DEF MinutiaeBefore, SumOf
<1> HIDE DEF front
<1>4. [k \in DOMAIN front |-> Len(front[k].minutiae)] = FrontLens(record, v)
  BY <1>2 DEF FrontLens
<1> QED
  BY <1>3, <1>4

LEMMA BeforeGrows ==
  ASSUME NEW record \in Fmrs
  PROVE  /\ MinutiaeBefore(record, 1) = 0
         /\ \A v \in Nat : v >= 1 /\ v <= Len(record.views) + 1 => MinutiaeBefore(record, v) \in Nat
         /\ \A v \in 1 .. Len(record.views) :
              MinutiaeBefore(record, v + 1) = MinutiaeBefore(record, v) + Len(record.views[v].minutiae)
<1>1. Len(record.views) \in Nat /\ \A k \in 1 .. Len(record.views) : Len(record.views[k].minutiae) \in Nat
  BY MinutiaeLens
<1>2. ASSUME NEW v \in Nat, v >= 1, v <= Len(record.views) + 1
      PROVE  /\ v - 1 \in Nat /\ DOMAIN FrontLens(record, v) = 1 .. v - 1
             /\ \A k \in 1 .. v - 1 : /\ FrontLens(record, v)[k] = Len(record.views[k].minutiae)
                                      /\ FrontLens(record, v)[k] \in Nat
  <2>1. v - 1 \in Nat /\ \A k \in 1 .. v - 1 : k \in 1 .. Len(record.views)
    BY <1>1, <1>2
  <2> QED
    BY <1>1, <2>1 DEF FrontLens
<1>3. MinutiaeBefore(record, 1) = 0
  <2>1. 1 \in Nat /\ 1 >= 1 /\ 1 <= Len(record.views) + 1 /\ 1 - 1 = 0 /\ 0 \in Nat
    BY <1>1
  <2>2. DOMAIN FrontLens(record, 1) = 1 .. 0
    BY <1>2, <2>1
  <2> QED
    BY <2>1, <2>2, BeforeIsSum, SumType
<1>4. ASSUME NEW v \in Nat, v >= 1, v <= Len(record.views) + 1 PROVE MinutiaeBefore(record, v) \in Nat
  BY <1>2, <1>4, BeforeIsSum, SumType
<1>5. ASSUME NEW v \in 1 .. Len(record.views)
      PROVE  MinutiaeBefore(record, v + 1) = MinutiaeBefore(record, v) + Len(record.views[v].minutiae)
  <2>1. /\ v \in Nat /\ v >= 1 /\ v <= Len(record.views) + 1
        /\ v + 1 \in Nat /\ v + 1 >= 1 /\ v + 1 <= Len(record.views) + 1
    BY <1>1
  <2>2. PICK n \in Nat : n = v - 1
    BY <2>1
  <2>3. v = n + 1 /\ v + 1 - 1 = n + 1
    BY <2>1, <2>2
  <2> DEFINE one == FrontLens(record, v)
             two == FrontLens(record, v + 1)
  <2>4. /\ DOMAIN one = 1 .. n /\ \A k \in 1 .. n : one[k] = Len(record.views[k].minutiae)
    BY <1>2, <2>1, <2>2
  <2>5. /\ DOMAIN two = 1 .. n + 1
        /\ \A k \in 1 .. n + 1 : two[k] = Len(record.views[k].minutiae) /\ two[k] \in Nat
    BY <1>2, <2>1, <2>3
  <2> HIDE DEF one, two
  <2>6. \A k \in 1 .. n : k \in 1 .. n + 1
    OBVIOUS
  <2>7. SumFunction(two) = SumFunction(one) + two[n + 1]
    <3>1. Weights(two, n + 1)
      BY <2>5 DEF Weights
    <3> QED
      BY <2>4, <2>5, <2>6, <3>1, SumGrows
  <2>8. two[n + 1] = Len(record.views[v].minutiae)
    BY <2>3, <2>5
  <2>9. /\ MinutiaeBefore(record, v) = SumFunction(one)
        /\ MinutiaeBefore(record, v + 1) = SumFunction(two)
    BY <2>1, BeforeIsSum DEF one, two
  <2> QED
    BY <2>7, <2>8, <2>9
<1> QED
  BY <1>3, <1>4, <1>5

LEMMA BeforeAgrees ==
  ASSUME NEW record \in Fmrs, NEW other_record \in Fmrs, NEW v \in Nat, v >= 1,
         v <= Len(record.views) + 1, v <= Len(other_record.views) + 1,
         \A k \in 1 .. v - 1 : Len(record.views[k].minutiae) = Len(other_record.views[k].minutiae)
  PROVE  MinutiaeBefore(record, v) = MinutiaeBefore(other_record, v)
<1>1. FrontLens(record, v) = FrontLens(other_record, v)
  BY DEF FrontLens
<1> QED
  BY <1>1, BeforeIsSum

-----------------------------------------------------------------------------
(* mkfmr.                                                                  *)

\* A FED that mkfmr makes, and a view with such FEDs.
FedFits(fed) ==
  FedBytes(fed) + UnwrittenOf(fed) < USHRT_MAX => fed.length = FedBytes(fed) + UnwrittenOf(fed)

FedsTrue(view) ==
  /\ view.extended = <<>> <=> FedsOf(view) = <<>>
  /\ \A k \in DOMAIN FedsOf(view) : FedFits(FedsOf(view)[k])
  /\ view.extended # <<>> => view.extended[1].block_length = ushort(FedLengths(FedsOf(view)))

\* What mkfmr has counted of a view, with its minutiae if they have been loaded.
FilledIn(s, a, v) == s \in {"rcs", "cds", "write"} \/ (s = "xyt" /\ v < a)
CountedOf(view, s, a, v) ==
  6 + (IF FilledIn(s, a, v) THEN 6 * Len(view.minutiae) ELSE 0) + FedLengths(FedsOf(view))
Counted(record, s, a) == [v \in DOMAIN record.views |-> CountedOf(record.views[v], s, a, v)]

\* A view of the numbers in its line, and minutiae of the numbers in theirs.
Told(view, v, text) ==
  LET number(p) == NumberAt(text, 5 * (v - 1) + p)
  IN /\ 5 * (v - 1) < Len(text)
     /\ view.finger_number = uchar(number(1)) /\ view.view_number = uchar(number(2))
     /\ view.impression_type = uchar(number(3)) /\ view.finger_quality = uchar(number(4))
     /\ Len(view.minutiae) = uchar(number(5))

Filled(view, before, text) ==
  \A m \in DOMAIN view.minutiae :
    LET line(p) == NumberAt(text, FMD_LINE * (before + m - 1) + p)
    IN /\ FMD_LINE * (before + m - 1) < Len(text)
       /\ view.minutiae[m] = [type |-> uchar(line(2)), x |-> ushort(line(3)), y |-> ushort(line(4)),
                              angle |-> uchar(line(5)), quality |-> uchar(line(6))]

\* The record and what is left of the texts, in each stage.
MkTyped ==
  /\ texts \in [TextFiles -> Seq(Nat)] /\ with \in SUBSET {"rcs", "cds"} /\ made \in Fmrs
  /\ stage \in {"none", "hdr", "fvmr", "xyt", "rcs", "cds", "write"}
  /\ total_length \in Nat /\ at \in Nat

\* What is left of the texts.
LeftOf(source) ==
  /\ stage # "none" /\ made.long = FALSE
  /\ stage = "hdr" => made = NoRecord /\ at = 1
  /\ stage = "hdr" => texts["fvmr"] = source["fvmr"] /\ texts["hdr"] = source["hdr"]
  /\ stage \in {"hdr", "fvmr"} => texts["xyt"] = source["xyt"]
  /\ stage = "fvmr" => /\ Len(made.views) = at - 1
                       /\ texts["fvmr"] = After(source["fvmr"], 5 * (at - 1))
  /\ stage = "xyt" => texts["xyt"] = After(source["xyt"], FMD_LINE * MinutiaeBefore(made, at))
  /\ stage \in {"xyt", "rcs", "cds", "write"} => Len(made.views) = made.num_views

\* The number of the views, and their length.
CountedSo(source) ==
  stage # "hdr" =>
    /\ at \in 1 .. made.num_views + 1
    /\ made.num_views = uchar(Hexadecimal(NumberAt(source["hdr"], 6)))
    /\ total_length = SMALL_HEADER + SumFunction(Counted(made, stage, at))

\* The views that have been made.
ToldSo(source) ==
  \A v \in DOMAIN made.views :
    /\ Told(made.views[v], v, source["fvmr"]) /\ FedsTrue(made.views[v])
    /\ FilledIn(stage, at, v) => Filled(made.views[v], MinutiaeBefore(made, v), source["xyt"])

MadeOf(source) == LeftOf(source) /\ CountedSo(source) /\ ToldSo(source)

LEMMA FedLengthsTypes ==
  ASSUME NEW view \in Fvmrs
  PROVE  /\ FedLengths(FedsOf(view)) \in Nat
         /\ FedsOf(view) = <<>> => FedLengths(FedsOf(view)) = 0
         /\ \A fed \in Feds :
              FedLengths(Append(FedsOf(view), fed)) = FedLengths(FedsOf(view)) + fed.length
<1> DEFINE feds == FedsOf(view)
           n == Len(feds)
           w == [k \in DOMAIN feds |-> feds[k].length]
<1>1. DOMAIN feds = 1 .. n /\ n \in Nat /\ feds \in Seq(Feds) /\ \A k \in 1 .. n : feds[k] \in Feds
  BY FedsType, ElementOfSeq
<1>2. \A fed \in Feds : fed.length \in Nat
  BY Unsigned DEF Feds
<1>3. DOMAIN w = 1 .. n /\ \A k \in 1 .. n : w[k] = feds[k].length /\ w[k] \in Nat
  BY <1>1, <1>2
<1>4. FedLengths(feds) = SumFunction(w)
  BY DEF FedLengths
<1>5. feds = <<>> => n = 0
  BY <1>1, EmptySeq
<1> HIDE DEF feds, n, w
<1>6. SumFunction(w) \in Nat /\ (n = 0 => SumFunction(w) = 0)
  BY <1>1, <1>3, SumType
<1>7. ASSUME NEW fed \in Feds
      PROVE  FedLengths(Append(feds, fed)) = FedLengths(feds) + fed.length
  <2> DEFINE more == Append(feds, fed)
             u == [k \in DOMAIN more |-> more[k].length]
  <2>1. DOMAIN more = 1 .. n + 1 /\ more[n + 1] = fed /\ \A k \in 1 .. n : more[k] = feds[k]
    BY <1>1, AppendProperties DEF n
  <2>2. \A k \in 1 .. n + 1 : k \in 1 .. n \/ k = n + 1
    BY <1>1
  <2>3. n + 1 \in 1 .. n + 1 /\ \A k \in 1 .. n : k \in 1 .. n + 1
    BY <1>1
  <2> HIDE DEF more
  <2>4. DOMAIN u = 1 .. n + 1 /\ u[n + 1] = fed.length /\ \A k \in 1 .. n : u[k] = w[k]
    BY <1>3, <2>1, <2>3
  <2>5. Weights(u, n + 1)
    BY <1>2, <1>3, <2>2, <2>4 DEF Weights
  <2>6. FedLengths(more) = SumFunction(u)
    BY DEF FedLengths
  <2> HIDE DEF u
  <2>7. SumFunction(u) = SumFunction(w) + u[n + 1]
    BY <1>1, <1>3, <2>4, <2>5, SumGrows
  <2> QED
    BY <1>4, <2>4, <2>6, <2>7 DEF more
<1> QED
  BY <1>4, <1>5, <1>6, <1>7 DEF feds

LEMMA CountedTypes ==
  ASSUME NEW record \in Fmrs, NEW s, NEW a
  PROVE  /\ DOMAIN Counted(record, s, a) = 1 .. Len(record.views)
         /\ \A k \in 1 .. Len(record.views) :
              /\ Counted(record, s, a)[k] = CountedOf(record.views[k], s, a, k)
              /\ Counted(record, s, a)[k] \in Nat
         /\ SumFunction(Counted(record, s, a)) \in Nat
         /\ Weights(Counted(record, s, a), Len(record.views))
<1>1. DOMAIN record.views = 1 .. Len(record.views) /\ Len(record.views) \in Nat
  BY MinutiaeLens
<1>2. ASSUME NEW view \in Fvmrs, NEW k PROVE CountedOf(view, s, a, k) \in Nat
  <2>1. FedLengths(FedsOf(view)) \in Nat /\ view.minutiae \in Seq(Minutiae)
    BY FedLengthsTypes DEF Fvmrs
  <2>2. Len(view.minutiae) \in Nat
    BY <2>1, LenProperties
  <2>3. \A m, n \in Nat : 6 + (IF FilledIn(s, a, k) THEN 6 * m ELSE 0) + n \in Nat
    BY SMT
  <2> QED
    BY <2>1, <2>2, <2>3 DEF CountedOf
<1>3. \A k \in 1 .. Len(record.views) : record.views[k] \in Fvmrs
  BY MinutiaeLens
<1>4. DOMAIN Counted(record, s, a) = 1 .. Len(record.views)
  BY <1>1 DEF Counted
<1>5. \A k \in 1 .. Len(record.views) :
        /\ Counted(record, s, a)[k] = CountedOf(record.views[k], s, a, k)
        /\ Counted(record, s, a)[k] \in Nat
  BY <1>1, <1>2, <1>3 DEF Counted
<1>6. SumFunction(Counted(record, s, a)) \in Nat
  BY <1>1, <1>4, <1>5, SumType
<1>7. Weights(Counted(record, s, a), Len(record.views))
  BY <1>5 DEF Weights
<1> QED
  BY <1>4, <1>5, <1>6, <1>7
LEMMA NoViews ==
  ASSUME NEW record \in Fmrs, record.views = <<>>, NEW s, NEW a
  PROVE  DOMAIN record.views = {} /\ Len(record.views) = 0 /\ SumFunction(Counted(record, s, a)) = 0
<1>1. DOMAIN record.views = {} /\ Len(record.views) = 0 /\ 0 \in Nat
  OBVIOUS
<1>2. DOMAIN Counted(record, s, a) = 1 .. 0
  BY <1>1, CountedTypes
<1> QED
  BY <1>1, <1>2, SumType

LEMMA ScanFront ==
  ASSUME NEW text \in Seq(Nat), NEW n \in Nat, NEW f \in 1 .. n
  PROVE  Scan(text, 0, n)[f] = NumberAt(text, f) /\ NumberAt(text, f) \in Nat
<1>1. 0 \in Nat /\ 0 + f = f
  OBVIOUS
<1>2. Scan(text, 0, n)[f] = NumberAt(text, 0 + f) /\ NumberAt(text, 0 + f) \in Nat
  BY <1>1, ScanTypes
<1> QED
  BY <1>1, <1>2

LEMMA ScanAfter ==
  ASSUME NEW text \in Seq(Nat), NEW a \in Nat, NEW p \in Nat, NEW n \in Nat, NEW f \in 1 .. n
  PROVE  /\ Scan(After(text, a), p, n)[f] = NumberAt(text, a + (p + f))
         /\ NumberAt(text, a + (p + f)) \in Nat
<1>1. After(text, a) \in Seq(Nat)
  BY AfterTypes
<1>2. Scan(After(text, a), p, n)[f] = NumberAt(After(text, a), p + f)
  BY <1>1, ScanTypes
<1>3. p + f \in Nat \ {0}
  OBVIOUS
<1>4. NumberAt(After(text, a), p + f) = NumberAt(text, a + (p + f))
  BY <1>3, AfterTypes
<1>5. NumberAt(After(text, a), p + f) \in Nat
  BY <1>1, ScanTypes
<1> QED
  BY <1>2, <1>4, <1>5

LEMMA OtherText ==
  ASSUME NEW old \in [TextFiles -> Seq(Nat)], NEW s \in TextFiles, NEW n \in Nat,
         NEW new, new = [old EXCEPT ![s] = After(@, n)]
  PROVE  /\ new \in [TextFiles -> Seq(Nat)] /\ new[s] = After(old[s], n)
         /\ \A f \in TextFiles : f # s => new[f] = old[f]
<1>1. After(old[s], n) \in Seq(Nat)
  BY AfterTypes
<1> QED
  BY <1>1

LEMMA TellsNext ==
  ASSUME NEW view, NEW n \in Nat, NEW text, 5 * n < Len(text),
         view.finger_number = uchar(NumberAt(text, 5 * n + 1)),
         view.view_number = uchar(NumberAt(text, 5 * n + 2)),
         view.impression_type = uchar(NumberAt(text, 5 * n + 3)),
         view.finger_quality = uchar(NumberAt(text, 5 * n + 4)),
         Len(view.minutiae) = uchar(NumberAt(text, 5 * n + 5))
  PROVE  Told(view, n + 1, text)
<1>1. PICK v : v = n + 1 /\ v - 1 = n
  OBVIOUS
<1> QED
  BY <1>1 DEF Told

LEMMA LoadHdrMakes ==
  ASSUME MkTyped, NEW source \in [TextFiles -> Seq(Nat)], MadeOf(source), LoadHdr
  PROVE  MkTyped' /\ MadeOf(source)'
<1> DEFINE f == Scan(texts["hdr"], 0, 6)
           number(p) == NumberAt(source["hdr"], p)
<1>1. stage = "hdr" /\ texts["hdr"] = source["hdr"] /\ texts["fvmr"] = source["fvmr"] /\ texts["xyt"] = source["xyt"]
  BY DEF MadeOf, LeftOf, LoadHdr
<1>2. source["hdr"] \in Seq(Nat) /\ source["fvmr"] \in Seq(Nat)
  BY DEF TextFiles
<1>3. ASSUME NEW k \in 1 .. 6 PROVE f[k] = number(k) /\ number(k) \in Nat
  BY <1>1, <1>2, ScanFront
<1>4. PICK f1, f2, f3, f4, f5, f6 \in Nat :
        f[1] = f1 /\ f[2] = f2 /\ f[3] = f3 /\ f[4] = f4 /\ f[5] = f5 /\ f[6] = f6 /\ f6 = number(6)
  <2>1. 1 \in 1 .. 6 /\ 2 \in 1 .. 6 /\ 3 \in 1 .. 6 /\ 4 \in 1 .. 6 /\ 5 \in 1 .. 6 /\ 6 \in 1 .. 6
    OBVIOUS
  <2>2. /\ f[1] \in Nat /\ f[2] \in Nat /\ f[3] \in Nat /\ f[4] \in Nat /\ f[5] \in Nat
        /\ f[6] \in Nat /\ f[6] = number(6)
    BY <1>3, <2>1
  <2> HIDE DEF f, number
  <2> QED
    BY <2>2, Zenon
<1>5. /\ made' = [record_length |-> 0, long |-> FALSE, owner |-> ushort(f1),
                  x_image_size |-> ushort(f2), y_image_size |-> ushort(f3),
                  x_resolution |-> ushort(f4), y_resolution |-> ushort(f5),
                  num_views |-> uchar(Hexadecimal(f6)), views |-> <<>>]
      /\ total_length' = SMALL_HEADER /\ stage' = "fvmr" /\ at' = 1 /\ texts' = texts /\ with' = with
  BY <1>4 DEF LoadHdr
<1> HIDE DEF f
<1>6. /\ ushort(f1) \in USHORT /\ ushort(f2) \in USHORT /\ ushort(f3) \in USHORT
      /\ ushort(f4) \in USHORT /\ ushort(f5) \in USHORT /\ uchar(Hexadecimal(f6)) \in UCHAR
      /\ uchar(Hexadecimal(f6)) \in Nat
  BY FieldTypes
<1>7. /\ made' \in Fmrs /\ made'.long = FALSE /\ made'.views = <<>>
      /\ made'.num_views = uchar(Hexadecimal(f6))
  <2>1. <<>> \in Seq(Fvmrs) /\ 0 \in Nat
    OBVIOUS
  <2> QED
    BY <1>5, <1>6, <2>1 DEF Fmrs
<1>8. MkTyped'
  BY <1>5, <1>7 DEF MkTyped, SMALL_HEADER
<1>9. DOMAIN made'.views = {} /\ Len(made'.views) = 0 /\ SumFunction(Counted(made', stage', at')) = 0
  BY <1>7, NoViews
<1>10. 1 \in 1 .. made'.num_views + 1
  <2>1. \A m \in Nat : 1 \in 1 .. m + 1
    OBVIOUS
  <2> QED
    BY <1>6, <1>7, <2>1
<1>11. texts["fvmr"] = After(source["fvmr"], 5 * (1 - 1))
  <2>1. 5 * (1 - 1) = 0
    OBVIOUS
  <2> QED
    BY <1>1, <1>2, <2>1, AfterNothing
<1>12. total_length' = SMALL_HEADER + SumFunction(Counted(made', stage', at'))
  BY <1>5, <1>9 DEF SMALL_HEADER
<1>13. made'.num_views = uchar(Hexadecimal(NumberAt(source["hdr"], 6)))
  BY <1>4, <1>7
<1>14. Len(made'.views) = at' - 1
  BY <1>5, <1>9
<1> HIDE DEF number
<1>15. /\ stage' # "none" /\ made'.long = FALSE /\ stage' = "fvmr"
       /\ texts'["xyt"] = source["xyt"]
       /\ texts'["fvmr"] = After(source["fvmr"], 5 * (at' - 1))
       /\ at' \in 1 .. made'.num_views + 1
  BY <1>1, <1>5, <1>7, <1>10, <1>11
<1>16. LeftOf(source)'
  BY <1>14, <1>15 DEF LeftOf
<1>17. CountedSo(source)'
  BY <1>12, <1>13, <1>15 DEF CountedSo
<1>18. ToldSo(source)'
  BY <1>9 DEF ToldSo
<1> QED
  BY <1>8, <1>16, <1>17, <1>18 DEF MadeOf

\* A record with one more view, and one with another view.
LEMMA OneMoreView ==
  ASSUME NEW record \in Fmrs, NEW view \in Fvmrs, NEW new, new = [record EXCEPT !.views = Append(@, view)]
  PROVE  /\ new \in Fmrs /\ new.long = record.long /\ new.num_views = record.num_views
         /\ Len(new.views) = Len(record.views) + 1 /\ DOMAIN new.views = 1 .. Len(record.views) + 1
         /\ new.views[Len(record.views) + 1] = view
         /\ \A k \in 1 .. Len(record.views) : new.views[k] = record.views[k]
<1>1. record.views \in Seq(Fvmrs) /\ Len(record.views) \in Nat
  BY MinutiaeLens DEF Fmrs
<1>2. new.views = Append(record.views, view) /\ new.long = record.long /\ new.num_views = record.num_views
  BY DEF Fmrs
<1>3. Append(record.views, view) \in Seq(Fvmrs)
  BY <1>1, AppendProperties
<1>4. new \in Fmrs
  BY <1>3 DEF Fmrs
<1>5. /\ Len(Append(record.views, view)) = Len(record.views) + 1
      /\ DOMAIN Append(record.views, view) = 1 .. Len(record.views) + 1
      /\ Append(record.views, view)[Len(record.views) + 1] = view
      /\ \A k \in 1 .. Len(record.views) : Append(record.views, view)[k] = record.views[k]
  BY <1>1, AppendProperties
<1> QED
  BY <1>2, <1>4, <1>5

LEMMA OtherView ==
  ASSUME NEW record \in Fmrs, NEW x \in 1 .. Len(record.views), NEW view \in Fvmrs,
         NEW new, new = [record EXCEPT !.views = [@ EXCEPT ![x] = view]]
  PROVE  /\ new \in Fmrs /\ new.long = record.long /\ new.num_views = record.num_views
         /\ Len(new.views) = Len(record.views) /\ DOMAIN new.views = 1 .. Len(record.views)
         /\ new.views[x] = view
         /\ \A k \in 1 .. Len(record.views) : k # x => new.views[k] = record.views[k]
<1>1. record.views \in Seq(Fvmrs) /\ Len(record.views) \in Nat /\ DOMAIN record.views = 1 .. Len(record.views)
  BY MinutiaeLens DEF Fmrs
<1> DEFINE views == [record.views EXCEPT ![x] = view]
<1>2. new.views = views /\ new.long = record.long /\ new.num_views = record.num_views
  BY DEF Fmrs
<1>3. /\ DOMAIN views = 1 .. Len(record.views) /\ views[x] = view
      /\ \A k \in 1 .. Len(record.views) : k # x => views[k] = record.views[k]
  BY <1>1
<1>4. \A k \in 1 .. Len(record.views) : views[k] \in Fvmrs
  BY <1>3, MinutiaeLens
<1>5. views \in [1 .. Len(record.views) -> Fvmrs]
  BY <1>3, <1>4
<1>6. views \in Seq(Fvmrs) /\ Len(views) = Len(record.views)
  BY <1>1, <1>5, SequenceOf
<1>7. new \in Fmrs
  BY <1>6 DEF Fmrs
<1> QED
  BY <1>2, <1>3, <1>6, <1>7
\* A new view counts 6 bytes, and fills the place that follows.
LEMMA LoadFvmrMakes ==
  ASSUME MkTyped, NEW source \in [TextFiles -> Seq(Nat)], MadeOf(source), LoadFvmr
  PROVE  MkTyped' /\ MadeOf(source)'
<1>0. PICK n \in Nat : n = Len(made.views)
  BY MinutiaeLens DEF MkTyped
<1>01. PICK text \in Seq(Nat) : text = source["fvmr"]
  BY DEF TextFiles
<1> DEFINE number(p) == NumberAt(text, 5 * n + p)
           f == Scan(texts["fvmr"], 0, 5)
           view == [finger_number |-> uchar(number(1)), view_number |-> uchar(number(2)),
                    impression_type |-> uchar(number(3)), finger_quality |-> uchar(number(4)),
                    minutiae |-> [m \in 1 .. uchar(number(5)) |-> NewFmd], extended |-> <<>>]
<1>1. /\ made \in Fmrs /\ made.long = FALSE /\ n \in Nat /\ DOMAIN made.views = 1 .. n
      /\ Len(made.views) = n /\ text = source["fvmr"] /\ text \in Seq(Nat) /\ texts \in [TextFiles -> Seq(Nat)] /\ texts["fvmr"] \in Seq(Nat)
      /\ at \in Nat /\ total_length \in Nat
  BY <1>0, <1>01, MinutiaeLens DEF MkTyped, MadeOf, LeftOf, TextFiles
<1>2. /\ stage = "fvmr" /\ at <= made.num_views /\ texts["fvmr"] # <<>> /\ at' = at + 1
      /\ stage' = stage /\ with' = with
      /\ total_length' = total_length + FVMR_HEADER_LENGTH + FEDB_HEADER_LENGTH
      /\ texts' = [texts EXCEPT !["fvmr"] = After(@, 5)]
  BY DEF LoadFvmr, Loading, Loaded
<1>3. /\ n = at - 1 /\ texts["fvmr"] = After(text, 5 * n) /\ texts["xyt"] = source["xyt"]
      /\ at \in 1 .. made.num_views + 1 /\ made.num_views = uchar(Hexadecimal(NumberAt(source["hdr"], 6)))
      /\ total_length = SMALL_HEADER + SumFunction(Counted(made, stage, at))
  BY <1>0, <1>01, <1>2 DEF MadeOf, LeftOf, CountedSo
<1>4. ASSUME NEW k \in 1 .. 5 PROVE f[k] = number(k) /\ number(k) \in Nat
  <2>1. 5 * n \in Nat /\ 0 \in Nat /\ 5 \in Nat /\ 5 * n + (0 + k) = 5 * n + k
    BY <1>1
  <2>2. f[k] = NumberAt(text, 5 * n + (0 + k)) /\ NumberAt(text, 5 * n + (0 + k)) \in Nat
    <3>1. f = Scan(After(text, 5 * n), 0, 5)
      BY <1>3
    <3> HIDE DEF f
    <3>2. /\ Scan(After(text, 5 * n), 0, 5)[k] = NumberAt(text, 5 * n + (0 + k))
          /\ NumberAt(text, 5 * n + (0 + k)) \in Nat
      BY <2>1, ScanAfter
    <3> QED
      BY <3>1, <3>2, Zenon
  <2> QED
    BY <2>1, <2>2
<1>5. PICK n1, n2, n3, n4, n5 \in Nat :
        /\ number(1) = n1 /\ number(2) = n2 /\ number(3) = n3 /\ number(4) = n4 /\ number(5) = n5
        /\ f[1] = n1 /\ f[2] = n2 /\ f[3] = n3 /\ f[4] = n4 /\ f[5] = n5
  <2>1. 1 \in 1 .. 5 /\ 2 \in 1 .. 5 /\ 3 \in 1 .. 5 /\ 4 \in 1 .. 5 /\ 5 \in 1 .. 5
    OBVIOUS
  <2>2. /\ f[1] = number(1) /\ f[2] = number(2) /\ f[3] = number(3) /\ f[4] = number(4) /\ f[5] = number(5)
        /\ number(1) \in Nat /\ number(2) \in Nat /\ number(3) \in Nat /\ number(4) \in Nat /\ number(5) \in Nat
    BY <1>4, <2>1
  <2> HIDE DEF f, number
  <2> QED
    BY <2>2, Zenon
<1>6. made' = [made EXCEPT !.views = Append(@,
                 [finger_number |-> uchar(n1), view_number |-> uchar(n2),
                  impression_type |-> uchar(n3), finger_quality |-> uchar(n4),
                  minutiae |-> [m \in 1 .. uchar(n5) |-> NewFmd], extended |-> <<>>])]
  BY <1>5 DEF LoadFvmr
<1>7. view = [finger_number |-> uchar(n1), view_number |-> uchar(n2),
              impression_type |-> uchar(n3), finger_quality |-> uchar(n4),
              minutiae |-> [m \in 1 .. uchar(n5) |-> NewFmd], extended |-> <<>>]
  BY <1>5
<1> HIDE DEF f, number, view
<1>8. made' = [made EXCEPT !.views = Append(@, view)]
  BY <1>6, <1>7
<1>9. /\ uchar(n1) \in UCHAR /\ uchar(n2) \in UCHAR /\ uchar(n3) \in UCHAR /\ uchar(n4) \in UCHAR
      /\ uchar(n5) \in Nat
  BY FieldTypes
<1>10. view.minutiae \in Seq(Minutiae) /\ Len(view.minutiae) = uchar(n5)
  <2>1. NewFmd \in Minutiae
    <3>1. 0 \in UCHAR /\ 0 \in USHORT
      BY Unsigned, SMT
    <3> QED
      BY <3>1 DEF NewFmd, Minutiae
  <2>2. [m \in 1 .. uchar(n5) |-> NewFmd] \in [1 .. uchar(n5) -> Minutiae]
    BY <2>1
  <2> QED
    BY <1>7, <1>9, <2>2, SequenceOf
<1>11. view \in Fvmrs /\ view.extended = <<>>
  <2>1. <<>> \in Seq(Blocks)
    OBVIOUS
  <2> QED
    BY <1>7, <1>9, <1>10, <2>1 DEF Fvmrs
<1>12. /\ made' \in Fmrs /\ made'.long = FALSE /\ made'.num_views = made.num_views
       /\ Len(made'.views) = n + 1 /\ DOMAIN made'.views = 1 .. n + 1
       /\ made'.views[n + 1] = view
       /\ \A k \in 1 .. n : made'.views[k] = made.views[k]
  BY <1>1, <1>8, <1>11, OneMoreView
<1>13. FedsTrue(view) /\ FedsOf(view) = <<>> /\ \A a, v : CountedOf(view, "fvmr", a, v) = 6
  <2>1. FedsOf(view) = <<>> /\ DOMAIN <<>> = {}
    BY <1>11 DEF FedsOf
  <2>2. FedLengths(FedsOf(view)) = 0
    BY <1>11, <2>1, FedLengthsTypes
  <2>3. \A a, v : CountedOf(view, "fvmr", a, v) = 6 + 0 + 0
    BY <2>2 DEF CountedOf, FilledIn
  <2>4. 6 + 0 + 0 = 6
    OBVIOUS
  <2> QED
    BY <1>11, <2>1, <2>3, <2>4 DEF FedsTrue
<1>14. Told(view, n + 1, text)
  <2>1. 5 * n < Len(text)
    <3>1. 0 < Len(texts["fvmr"])
      BY <1>1, <1>2, EmptySeq, LenProperties
    <3>2. 5 * n \in Nat /\ 0 \in Nat /\ 5 * n + 0 = 5 * n
      BY <1>1
    <3> QED
      BY <1>1, <1>3, <3>1, <3>2, AfterTypes
  <2>2. /\ NumberAt(text, 5 * n + 1) = n1 /\ NumberAt(text, 5 * n + 2) = n2
        /\ NumberAt(text, 5 * n + 3) = n3 /\ NumberAt(text, 5 * n + 4) = n4
        /\ NumberAt(text, 5 * n + 5) = n5
    BY <1>5 DEF number
  <2>3. /\ view.finger_number = uchar(n1) /\ view.view_number = uchar(n2)
        /\ view.impression_type = uchar(n3) /\ view.finger_quality = uchar(n4)
    BY <1>7
  <2> QED
    BY <1>10, <2>1, <2>2, <2>3, TellsNext
<1>15. \A k \in 1 .. n + 1 : k \in 1 .. n \/ k = n + 1
  BY <1>1
<1>16. \A v \in 1 .. n + 1 : Told(made'.views[v], v, text) /\ FedsTrue(made'.views[v])
  <2>1. \A v \in 1 .. n : Told(made.views[v], v, text) /\ FedsTrue(made.views[v])
    BY <1>1 DEF MadeOf, ToldSo
  <2> QED
    BY <1>12, <1>13, <1>14, <1>15, <2>1
<1>17. \A a, v : ~ FilledIn("fvmr", a, v)
  BY DEF FilledIn
<1>18. total_length' = SMALL_HEADER + SumFunction(Counted(made', stage', at'))
  <2> DEFINE old == Counted(made, "fvmr", at)
             new == Counted(made', "fvmr", at')
  <2>1. /\ DOMAIN old = 1 .. n /\ \A k \in 1 .. n : old[k] = CountedOf(made.views[k], "fvmr", at, k)
        /\ SumFunction(old) \in Nat
    BY <1>1, CountedTypes
  <2>2. /\ DOMAIN new = 1 .. n + 1 /\ Weights(new, n + 1)
        /\ \A k \in 1 .. n + 1 : new[k] = CountedOf(made'.views[k], "fvmr", at', k)
    BY <1>12, CountedTypes
  <2> HIDE DEF old, new
  <2>3. \A k \in 1 .. n : k \in 1 .. n + 1
    BY <1>1
  <2>4. n + 1 \in 1 .. n + 1
    BY <1>1
  <2>5. \A k \in 1 .. n : new[k] = old[k]
    <3>1. \A vw, a, b, v : CountedOf(vw, "fvmr", a, v) = CountedOf(vw, "fvmr", b, v)
      BY <1>17 DEF CountedOf
    <3> QED
      BY <1>12, <2>1, <2>2, <2>3, <3>1
  <2>6. new[n + 1] = 6
    BY <1>12, <1>13, <2>2, <2>4
  <2>7. SumFunction(new) = SumFunction(old) + 6
    <3>1. SumFunction(new) = SumFunction(old) + new[n + 1]
      BY <2>1, <2>2, <2>5, SumGrows
    <3> QED
      BY <2>6, <3>1
  <2>8. total_length = 26 + SumFunction(old) /\ total_length' = total_length + 4 + 2
    BY <1>2, <1>3 DEF old, SMALL_HEADER, FVMR_HEADER_LENGTH, FEDB_HEADER_LENGTH
  <2>9. total_length' = 26 + SumFunction(new)
    BY <2>1, <2>7, <2>8
  <2> QED
    BY <1>2, <2>9 DEF new, SMALL_HEADER
<1>19. /\ texts' \in [TextFiles -> Seq(Nat)] /\ texts'["xyt"] = texts["xyt"]
       /\ texts'["fvmr"] = After(text, 5 * (at' - 1))
  <2>1. 5 * n \in Nat /\ 5 \in Nat /\ 5 * n + 5 = 5 * (at + 1 - 1)
    BY <1>1, <1>3
  <2>2. After(After(text, 5 * n), 5) = After(text, 5 * n + 5)
    BY <2>1, AfterAfter, Zenon
  <2>3. "fvmr" \in TextFiles /\ "xyt" \in TextFiles /\ "fvmr" # "xyt"
    BY DEF TextFiles
  <2>4. /\ texts' \in [TextFiles -> Seq(Nat)] /\ texts'["fvmr"] = After(texts["fvmr"], 5)
        /\ texts'["xyt"] = texts["xyt"]
    BY <1>1, <1>2, <2>1, <2>3, OtherText
  <2>5. at' = at + 1
    BY <1>2
  <2> QED
    BY <1>3, <2>1, <2>2, <2>4, <2>5
<1>20. MkTyped'
  <2>1. total_length' \in Nat /\ at' \in Nat
    BY <1>1, <1>2 DEF FVMR_HEADER_LENGTH, FEDB_HEADER_LENGTH
  <2> QED
    BY <1>2, <1>12, <1>19, <2>1 DEF MkTyped
<1>21. /\ stage' = "fvmr" /\ texts'["xyt"] = source["xyt"] /\ Len(made'.views) = at' - 1
       /\ at' \in 1 .. made'.num_views + 1
       /\ made'.num_views = uchar(Hexadecimal(NumberAt(source["hdr"], 6)))
  <2>1. made.num_views \in Nat
    BY <1>1, Unsigned DEF Fmrs
  <2>2. at + 1 \in 1 .. made.num_views + 1
    BY <1>1, <1>2, <2>1
  <2> QED
    BY <1>1, <1>2, <1>3, <1>12, <1>19, <2>2
<1>22. LeftOf(source)'
  BY <1>01, <1>12, <1>19, <1>21 DEF LeftOf
<1>23. CountedSo(source)'
  BY <1>18, <1>21 DEF CountedSo
<1>24. ToldSo(source)'
  <2>1. \A v : ~ FilledIn(stage', at', v)
    BY <1>17, <1>21
  <2> QED
    BY <1>01, <2>1, <1>12, <1>16, <1>17, <1>21 DEF ToldSo
<1> QED
  BY <1>20, <1>22, <1>23, <1>24 DEF MadeOf
\* The loops of the next stage: nothing is made, and nothing left to count.
LEMMA EndStageMakes ==
  ASSUME MkTyped, NEW source \in [TextFiles -> Seq(Nat)], MadeOf(source), EndStage
  PROVE  MkTyped' /\ MadeOf(source)'
<1>1. /\ made \in Fmrs /\ made.long = FALSE /\ source["xyt"] \in Seq(Nat) /\ at \in Nat
      /\ with \in SUBSET {"rcs", "cds"}
  BY DEF MkTyped, MadeOf, LeftOf, TextFiles
<1>2. /\ stage \in {"fvmr", "xyt", "rcs", "cds"} /\ at > made.num_views
      /\ stage' = NextStage(stage) /\ at' = 1
      /\ texts' = texts /\ with' = with /\ made' = made /\ total_length' = total_length
  BY DEF EndStage
<1>3. /\ at \in 1 .. made.num_views + 1
      /\ made.num_views = uchar(Hexadecimal(NumberAt(source["hdr"], 6)))
      /\ total_length = SMALL_HEADER + SumFunction(Counted(made, stage, at))
      /\ stage = "fvmr" => Len(made.views) = at - 1 /\ texts["xyt"] = source["xyt"]
      /\ stage \in {"xyt", "rcs", "cds"} => Len(made.views) = made.num_views
  BY <1>2 DEF MadeOf, LeftOf, CountedSo
<1>4. PICK n \in Nat : n = made.num_views
  BY <1>1, Unsigned DEF Fmrs
<1>5. at = n + 1 /\ Len(made.views) = n /\ DOMAIN made.views = 1 .. n
  <2>1. at = n + 1
    BY <1>1, <1>2, <1>3, <1>4
  <2>2. at - 1 = n
    BY <2>1
  <2> QED
    BY <1>1, <1>2, <1>3, <1>4, <2>1, <2>2, MinutiaeLens
<1>6. /\ stage = "fvmr" => stage' = "xyt"
      /\ stage # "fvmr" => stage' \in {"rcs", "cds", "write"}
      /\ stage' \in {"xyt", "rcs", "cds", "write"}
  BY <1>2 DEF NextStage
<1>7. MkTyped'
  BY <1>2, <1>6 DEF MkTyped
<1>8. LeftOf(source)'
  <2>1. 0 \in Nat /\ FMD_LINE * 0 = 0
    BY DEF FMD_LINE
  <2>2. MinutiaeBefore(made, 1) = 0
    BY <1>1, BeforeGrows
  <2>3. stage = "fvmr" => texts["xyt"] = After(source["xyt"], FMD_LINE * MinutiaeBefore(made, 1))
    BY <1>1, <1>3, <2>1, <2>2, AfterNothing
  <2>4. stage' = "xyt" => stage = "fvmr"
    BY <1>6
  <2> QED
    BY <1>1, <1>2, <1>4, <1>5, <1>6, <2>3, <2>4 DEF LeftOf
<1>9. \A v \in 1 .. n : FilledIn(stage', at', v) <=> FilledIn(stage, at, v)
  <2>1. \A v \in 1 .. n : v < n + 1 /\ ~ (v < 1)
    OBVIOUS
  <2> QED
    BY <1>2, <1>5, <1>6, <2>1 DEF FilledIn
<1>10. Counted(made', stage', at') = Counted(made, stage, at)
  BY <1>2, <1>5, <1>9 DEF Counted, CountedOf
<1>11. CountedSo(source)'
  <2>1. 1 \in 1 .. n + 1
    OBVIOUS
  <2> QED
    BY <1>2, <1>3, <1>4, <1>10, <2>1 DEF CountedSo
<1>12. ToldSo(source)'
  BY <1>2, <1>5, <1>9 DEF ToldSo, MadeOf
<1> QED
  BY <1>7, <1>8, <1>11, <1>12 DEF MadeOf

\* What is counted changes with one view.
LEMMA CountedChanges ==
  ASSUME NEW old \in Fmrs, NEW new \in Fmrs, NEW s, NEW a, NEW b, NEW x \in 1 .. Len(old.views), NEW d \in Nat,
         Len(new.views) = Len(old.views),
         \A k \in 1 .. Len(old.views) : k # x =>
           CountedOf(new.views[k], s, b, k) = CountedOf(old.views[k], s, a, k),
         CountedOf(new.views[x], s, b, x) = CountedOf(old.views[x], s, a, x) + d
  PROVE  SumFunction(Counted(new, s, b)) = SumFunction(Counted(old, s, a)) + d
<1> DEFINE v == Counted(old, s, a)
           w == Counted(new, s, b)
<1>1. PICK n \in Nat : n = Len(old.views)
  BY MinutiaeLens
<1>2. /\ DOMAIN v = 1 .. n /\ Weights(v, n) /\ SumFunction(v) \in Nat
      /\ \A k \in 1 .. n : v[k] = CountedOf(old.views[k], s, a, k) /\ v[k] \in Nat
  BY <1>1, CountedTypes
<1>3. /\ DOMAIN w = 1 .. n /\ Weights(w, n) /\ SumFunction(w) \in Nat
      /\ \A k \in 1 .. n : w[k] = CountedOf(new.views[k], s, b, k) /\ w[k] \in Nat
  BY <1>1, CountedTypes
<1> HIDE DEF v, w
<1>4. x \in 1 .. n /\ \A k \in 1 .. n : k # x => w[k] = v[k]
  <2>1. x \in 1 .. n
    BY <1>1
  <2>2. \A k \in 1 .. n : k # x => CountedOf(new.views[k], s, b, k) = CountedOf(old.views[k], s, a, k)
    BY <1>1
  <2>3. ASSUME NEW k \in 1 .. n, k # x PROVE w[k] = v[k]
    <3>1. w[k] = CountedOf(new.views[k], s, b, k)
      BY <1>3
    <3>2. v[k] = CountedOf(old.views[k], s, a, k)
      BY <1>2
    <3> QED
      BY <2>2, <2>3, <3>1, <3>2
  <2>4. \A k \in 1 .. n : k # x => w[k] = v[k]
    BY <2>3, Zenon
  <2> QED
    BY <2>1, <2>4, Zenon
<1>5. SumFunction(w) = SumFunction(v) + w[x] - v[x]
  <2>1. Weights(v, n) /\ Weights(w, n) /\ DOMAIN v = 1 .. n /\ DOMAIN w = 1 .. n
    BY <1>2, <1>3
  <2> QED
    BY <1>4, <2>1, SumChanges
<1>6. w[x] = v[x] + d /\ v[x] \in Nat
  BY <1>1, <1>2, <1>3
<1>7. SumFunction(w) = SumFunction(v) + d
  BY <1>2, <1>5, <1>6
<1> QED
  BY <1>7 DEF v, w

LEMMA CountsMinutiae ==
  ASSUME NEW m \in Nat, NEW f \in Nat, NEW g \in Nat, NEW d \in Nat, d = 6 * m + f - g
  PROVE  6 + 6 * m + f = (6 + 0 + g) + d
OBVIOUS

LEMMA CountsFeds ==
  ASSUME NEW m \in Nat, NEW f \in Nat, NEW g \in Nat, NEW d \in Nat, d = 0 + f - g
  PROVE  6 + 6 * m + f = (6 + 6 * m + g) + d
OBVIOUS

\* A view is changed, as many minutiae as it has, and the next one is to be loaded.
ChangesView(view) ==
  /\ made' = [made EXCEPT !.views = [@ EXCEPT ![at] = view]]
  /\ at' = at + 1 /\ stage' = stage /\ with' = with

LEMMA ViewChanges ==
  ASSUME MkTyped, NEW source \in [TextFiles -> Seq(Nat)], MadeOf(source),
         stage \in {"xyt", "rcs", "cds"}, at <= made.num_views,
         NEW view \in Fvmrs, ChangesView(view),
         Len(view.minutiae) = Len(made.views[at].minutiae),
         view.finger_number = made.views[at].finger_number,
         view.view_number = made.views[at].view_number,
         view.impression_type = made.views[at].impression_type,
         view.finger_quality = made.views[at].finger_quality,
         FedsTrue(view),
         stage = "xyt" => Filled(view, MinutiaeBefore(made, at), source["xyt"]),
         stage # "xyt" => view.minutiae = made.views[at].minutiae,
         NEW d \in Nat, total_length' = total_length + d,
         d = (IF stage = "xyt" THEN 6 * Len(view.minutiae) ELSE 0) + FedLengths(FedsOf(view))
               - FedLengths(FedsOf(made.views[at])),
         texts' \in [TextFiles -> Seq(Nat)],
         stage = "xyt" => texts'["xyt"] = After(source["xyt"], FMD_LINE * MinutiaeBefore(made, at + 1))
  PROVE  MkTyped' /\ MadeOf(source)'
<1>1. PICK n \in Nat : n = Len(made.views)
  BY MinutiaeLens DEF MkTyped
<1>2. /\ made \in Fmrs /\ made.long = FALSE /\ at \in Nat /\ total_length \in Nat
      /\ made.num_views = n /\ at \in 1 .. n /\ DOMAIN made.views = 1 .. n
      /\ made.num_views = uchar(Hexadecimal(NumberAt(source["hdr"], 6)))
      /\ total_length = SMALL_HEADER + SumFunction(Counted(made, stage, at))
  <2>1. /\ made \in Fmrs /\ made.long = FALSE /\ at \in Nat /\ total_length \in Nat
        /\ made.num_views = n /\ at \in 1 .. made.num_views + 1
        /\ made.num_views = uchar(Hexadecimal(NumberAt(source["hdr"], 6)))
        /\ total_length = SMALL_HEADER + SumFunction(Counted(made, stage, at))
    BY <1>1 DEF MkTyped, MadeOf, LeftOf, CountedSo
  <2>2. at \in 1 .. n
    BY <2>1
  <2> QED
    BY <1>1, <2>1, <2>2, MinutiaeLens
<1>3. /\ made' \in Fmrs /\ made'.long = FALSE /\ made'.num_views = n
      /\ Len(made'.views) = n /\ DOMAIN made'.views = 1 .. n
      /\ made'.views[at] = view
      /\ \A k \in 1 .. n : k # at => made'.views[k] = made.views[k]
  <2>1. made' = [made EXCEPT !.views = [@ EXCEPT ![at] = view]]
    BY DEF ChangesView
  <2>2. at \in 1 .. Len(made.views)
    BY <1>1, <1>2
  <2>3. PICK new : new = made'
    OBVIOUS
  <2>4. made \in Fmrs /\ new = [made EXCEPT !.views = [@ EXCEPT ![at] = view]]
    BY <1>2, <2>1, <2>3
  <2>5. /\ new \in Fmrs /\ new.long = made.long /\ new.num_views = made.num_views
        /\ Len(new.views) = Len(made.views) /\ DOMAIN new.views = 1 .. Len(made.views)
        /\ new.views[at] = view
        /\ \A k \in 1 .. Len(made.views) : k # at => new.views[k] = made.views[k]
    BY <2>2, <2>4, OtherView
  <2> QED
    BY <1>1, <1>2, <2>3, <2>5
<1>4. at' = at + 1 /\ stage' = stage /\ with' = with
  BY DEF ChangesView
<1>5. MkTyped'
  <2>1. total_length' \in Nat /\ at' \in Nat
    BY <1>2, <1>4
  <2>2. with' \in SUBSET {"rcs", "cds"}
    BY <1>4 DEF MkTyped
  <2>3. stage' \in {"none", "hdr", "fvmr", "xyt", "rcs", "cds", "write"}
    BY <1>4
  <2> QED
    BY <1>3, <2>1, <2>2, <2>3, Zenon DEF MkTyped
<1>6. \A k \in 1 .. n : Len(made'.views[k].minutiae) = Len(made.views[k].minutiae)
  BY <1>3
<1>7. \A v \in Nat : v >= 1 /\ v <= n + 1 => MinutiaeBefore(made', v) = MinutiaeBefore(made, v)
  <2>1. ASSUME NEW v \in Nat, v >= 1, v <= n + 1 PROVE MinutiaeBefore(made', v) = MinutiaeBefore(made, v)
    <3>1. \A k \in 1 .. v - 1 : k \in 1 .. n
      BY <2>1
    <3>2. \A k \in 1 .. v - 1 : Len(made'.views[k].minutiae) = Len(made.views[k].minutiae)
      BY <1>6, <3>1
    <3> QED
      BY <1>1, <1>2, <1>3, <2>1, <3>2, BeforeAgrees
  <2> QED
    BY <2>1
<1>8. LeftOf(source)'
  <2>1. stage' = "xyt" => texts'["xyt"] = After(source["xyt"], FMD_LINE * MinutiaeBefore(made', at'))
    <3>1. at + 1 \in Nat /\ at + 1 >= 1 /\ at + 1 <= n + 1
      BY <1>2
    <3> QED
      BY <1>4, <1>7, <3>1
  <2> QED
    BY <1>3, <1>4, <2>1 DEF LeftOf
<1>9. /\ \A k \in 1 .. n : k # at => (FilledIn(stage, at + 1, k) <=> FilledIn(stage, at, k))
      /\ FilledIn(stage, at + 1, at) /\ (FilledIn(stage, at, at) <=> stage # "xyt")
  <2>1. \A k \in 1 .. n : k # at => (k < at + 1 <=> k < at)
    BY <1>2
  <2>2. at < at + 1 /\ ~ (at < at)
    BY <1>2
  <2> QED
    BY <2>1, <2>2 DEF FilledIn
<1>10. SumFunction(Counted(made', stage, at + 1)) = SumFunction(Counted(made, stage, at)) + d
  <2>1. \A k \in 1 .. n : k # at =>
          CountedOf(made'.views[k], stage, at + 1, k) = CountedOf(made.views[k], stage, at, k)
    BY <1>3, <1>9 DEF CountedOf
  <2>2. CountedOf(made'.views[at], stage, at + 1, at) = CountedOf(made.views[at], stage, at, at) + d
    <3>1. made.views[at] \in Fvmrs /\ Len(made.views[at].minutiae) \in Nat
      BY <1>1, <1>2, MinutiaeLens
    <3>2. PICK m \in Nat, f \in Nat, g \in Nat :
            /\ m = Len(view.minutiae) /\ m = Len(made.views[at].minutiae)
            /\ f = FedLengths(FedsOf(view)) /\ g = FedLengths(FedsOf(made.views[at]))
      BY <3>1, FedLengthsTypes
    <3>3. d = (IF stage = "xyt" THEN 6 * m ELSE 0) + f - g
      BY <3>2
    <3>4. CountedOf(made'.views[at], stage, at + 1, at) = 6 + 6 * m + f
      BY <1>3, <1>9, <3>2 DEF CountedOf
    <3>5. CountedOf(made.views[at], stage, at, at) = 6 + (IF stage # "xyt" THEN 6 * m ELSE 0) + g
      BY <1>9, <3>2 DEF CountedOf
    <3>7. CASE stage = "xyt"
      <4>1. d = 6 * m + f - g /\ CountedOf(made.views[at], stage, at, at) = 6 + 0 + g
        BY <3>3, <3>5, <3>7
      <4>2. 6 + 6 * m + f = (6 + 0 + g) + d
        <5>1. d = 6 * m + f - g
          BY <4>1
        <5> QED
          BY ONLY m \in Nat, f \in Nat, g \in Nat, d \in Nat, <5>1, CountsMinutiae
      <4> QED
        BY <3>4, <4>1, <4>2, Zenon
    <3>8. CASE stage # "xyt"
      <4>1. d = 0 + f - g /\ CountedOf(made.views[at], stage, at, at) = 6 + 6 * m + g
        BY <3>3, <3>5, <3>8
      <4>2. 6 + 6 * m + f = (6 + 6 * m + g) + d
        <5>1. d = 0 + f - g
          BY <4>1
        <5> QED
          BY ONLY m \in Nat, f \in Nat, g \in Nat, d \in Nat, <5>1, CountsFeds
      <4> QED
        BY <3>4, <4>1, <4>2, Zenon
    <3> QED
      BY <3>7, <3>8
  <2>3. Len(made'.views) = Len(made.views) /\ at \in 1 .. Len(made.views)
    BY <1>1, <1>2, <1>3
  <2>4. \A k \in 1 .. Len(made.views) : k # at =>
          CountedOf(made'.views[k], stage, at + 1, k) = CountedOf(made.views[k], stage, at, k)
    BY <1>1, <2>1
  <2>5. made \in Fmrs /\ made' \in Fmrs
    BY <1>2, <1>3
  <2> QED
    BY <2>2, <2>3, <2>4, <2>5, CountedChanges
<1>11. CountedSo(source)'
  <2>1. total_length' = SMALL_HEADER + SumFunction(Counted(made', stage', at'))
    <3>1. SumFunction(Counted(made, stage, at)) \in Nat
      BY <1>2, CountedTypes
    <3> QED
      BY <1>2, <1>4, <1>10, <3>1 DEF SMALL_HEADER
  <2>2. at + 1 \in 1 .. n + 1
    BY <1>2
  <2> QED
    BY <1>2, <1>3, <1>4, <2>1, <2>2 DEF CountedSo
<1>12. ToldSo(source)'
  <2>1. ASSUME NEW v \in 1 .. n
        PROVE  /\ Told(made'.views[v], v, source["fvmr"]) /\ FedsTrue(made'.views[v])
               /\ FilledIn(stage', at', v) => Filled(made'.views[v], MinutiaeBefore(made', v), source["xyt"])
    <3>1. /\ Told(made.views[v], v, source["fvmr"]) /\ FedsTrue(made.views[v])
          /\ FilledIn(stage, at, v) => Filled(made.views[v], MinutiaeBefore(made, v), source["xyt"])
      BY <1>2 DEF MadeOf, ToldSo
    <3>2. MinutiaeBefore(made', v) = MinutiaeBefore(made, v)
      BY <1>7
    <3>3. CASE v # at
      BY <1>3, <1>4, <1>9, <3>1, <3>2, <3>3
    <3>4. CASE v = at
      <4>1. Told(view, at, source["fvmr"])
        BY <3>1, <3>4 DEF Told
      <4>2. stage # "xyt" => Filled(view, MinutiaeBefore(made, at), source["xyt"])
        BY <1>9, <3>1, <3>4 DEF Filled
      <4> QED
        BY <1>3, <3>2, <3>4, <4>1, <4>2
    <3> QED
      BY <3>3, <3>4
  <2> QED
    BY <1>3, <2>1 DEF ToldSo
<1> QED
  BY <1>5, <1>8, <1>11, <1>12 DEF MadeOf
\* The numbers of lines of six.
LEMMA LinesAdd ==
  ASSUME NEW b \in Nat, NEW n \in Nat
  PROVE  /\ FMD_LINE * b \in Nat /\ FMD_LINE * n \in Nat
         /\ FMD_LINE * (b + n) = FMD_LINE * b + FMD_LINE * n
         /\ \A m \in 1 .. n :
              /\ (m - 1) * FMD_LINE \in Nat
              /\ FMD_LINE * b + (m - 1) * FMD_LINE = FMD_LINE * (b + m - 1)
              /\ \A l \in Nat : (n - 1) * FMD_LINE < l => (m - 1) * FMD_LINE < l
              /\ \A f \in 1 .. FMD_LINE :
                   FMD_LINE * b + ((m - 1) * FMD_LINE + f) = FMD_LINE * (b + m - 1) + f
BY SMT DEF FMD_LINE

\* load_fmds fills the minutiae of the view, from the lines that follow those of the
\* views in front of it.
LEMMA LoadFmdsMakes ==
  ASSUME MkTyped, NEW source \in [TextFiles -> Seq(Nat)], MadeOf(source), LoadFmds
  PROVE  MkTyped' /\ MadeOf(source)'
<1>1. PICK text \in Seq(Nat), old \in Fvmrs, n \in Nat, b \in Nat :
        /\ text = source["xyt"] /\ old = made.views[at] /\ n = Len(old.minutiae)
        /\ b = MinutiaeBefore(made, at)
        /\ MinutiaeBefore(made, at + 1) = b + n
        /\ stage = "xyt" /\ at \in Nat /\ at <= made.num_views /\ made \in Fmrs
        /\ texts["xyt"] = After(text, FMD_LINE * b) /\ texts \in [TextFiles -> Seq(Nat)]
        /\ FedsTrue(old)
  <2>1. /\ made \in Fmrs /\ at \in Nat /\ stage = "xyt" /\ at <= made.num_views
        /\ texts \in [TextFiles -> Seq(Nat)] /\ source["xyt"] \in Seq(Nat)
    BY DEF MkTyped, LoadFmds, Loading, TextFiles
  <2>2. /\ Len(made.views) = made.num_views /\ at \in 1 .. made.num_views + 1
        /\ texts["xyt"] = After(source["xyt"], FMD_LINE * MinutiaeBefore(made, at))
    BY <2>1 DEF MadeOf, LeftOf, CountedSo
  <2>3. PICK l \in Nat : l = Len(made.views)
    BY <2>1, MinutiaeLens
  <2>4. at \in 1 .. l
    BY <2>1, <2>2, <2>3
  <2>5. made.views[at] \in Fvmrs /\ Len(made.views[at].minutiae) \in Nat /\ at \in DOMAIN made.views
    BY <2>1, <2>3, <2>4, MinutiaeLens
  <2>6. at >= 1 /\ at <= l + 1
    BY <2>4
  <2>7. /\ MinutiaeBefore(made, at) \in Nat
        /\ MinutiaeBefore(made, at + 1) = MinutiaeBefore(made, at) + Len(made.views[at].minutiae)
    BY <2>1, <2>3, <2>4, <2>6, BeforeGrows
  <2>8. FedsTrue(made.views[at])
    BY <2>5 DEF MadeOf, ToldSo
  <2> QED
    BY <2>1, <2>2, <2>5, <2>7, <2>8
<1> DEFINE left == texts["xyt"]
           line(m) == Scan(left, (m - 1) * FMD_LINE, FMD_LINE)
           filled == [m \in 1 .. n |->
                        [type |-> uchar(line(m)[2]), x |-> ushort(line(m)[3]), y |-> ushort(line(m)[4]),
                         angle |-> uchar(line(m)[5]), quality |-> uchar(line(m)[6])]]
           view == [old EXCEPT !.minutiae = filled]
<1>2. /\ Enough(left, 0, n, FMD_LINE)
      /\ made' = [made EXCEPT !.views[at].minutiae = filled]
      /\ total_length' = total_length + FMD_DATA_LENGTH * n
      /\ texts' = [texts EXCEPT !["xyt"] = After(@, FMD_LINE * n)] /\ at' = at + 1
      /\ with' = with /\ stage' = stage
  BY <1>1 DEF LoadFmds, Loaded
<1>3. ChangesView(view)
  <2>1. made' = [made EXCEPT !.views = [@ EXCEPT ![at] = view]]
    BY <1>1, <1>2
  <2> HIDE DEF view
  <2> QED
    BY <1>2, <2>1 DEF ChangesView
<1>4. ASSUME NEW m \in 1 .. n, NEW f \in 1 .. 6
      PROVE  /\ line(m)[f] = NumberAt(text, FMD_LINE * (b + m - 1) + f)
             /\ NumberAt(text, FMD_LINE * (b + m - 1) + f) \in Nat
  <2>1. PICK p \in Nat, q \in Nat : p = (m - 1) * FMD_LINE /\ q = FMD_LINE * b
                                    /\ q + (p + f) = FMD_LINE * (b + m - 1) + f
    BY ONLY b \in Nat, n \in Nat, m \in 1 .. n, f \in 1 .. 6, LinesAdd DEF FMD_LINE
  <2>2. /\ Scan(After(text, q), p, 6)[f] = NumberAt(text, q + (p + f))
        /\ NumberAt(text, q + (p + f)) \in Nat
    <3>1. 6 \in Nat
      OBVIOUS
    <3> QED
      BY <3>1, ScanAfter
  <2> QED
    BY <1>1, <2>1, <2>2 DEF FMD_LINE
<1>5. \A m \in 1 .. n :
        /\ filled[m] \in Minutiae
        /\ filled[m] = [type |-> uchar(NumberAt(text, FMD_LINE * (b + m - 1) + 2)),
                        x |-> ushort(NumberAt(text, FMD_LINE * (b + m - 1) + 3)),
                        y |-> ushort(NumberAt(text, FMD_LINE * (b + m - 1) + 4)),
                        angle |-> uchar(NumberAt(text, FMD_LINE * (b + m - 1) + 5)),
                        quality |-> uchar(NumberAt(text, FMD_LINE * (b + m - 1) + 6))]
  <2> TAKE m \in 1 .. n
  <2>1. 2 \in 1 .. 6 /\ 3 \in 1 .. 6 /\ 4 \in 1 .. 6 /\ 5 \in 1 .. 6 /\ 6 \in 1 .. 6
    OBVIOUS
  <2>2. PICK n2, n3, n4, n5, n6 \in Nat :
          /\ n2 = NumberAt(text, FMD_LINE * (b + m - 1) + 2) /\ n2 = line(m)[2]
          /\ n3 = NumberAt(text, FMD_LINE * (b + m - 1) + 3) /\ n3 = line(m)[3]
          /\ n4 = NumberAt(text, FMD_LINE * (b + m - 1) + 4) /\ n4 = line(m)[4]
          /\ n5 = NumberAt(text, FMD_LINE * (b + m - 1) + 5) /\ n5 = line(m)[5]
          /\ n6 = NumberAt(text, FMD_LINE * (b + m - 1) + 6) /\ n6 = line(m)[6]
    BY <1>4, <2>1
  <2> HIDE DEF line
  <2>3. filled[m] = [type |-> uchar(n2), x |-> ushort(n3), y |-> ushort(n4),
                     angle |-> uchar(n5), quality |-> uchar(n6)]
    BY <2>2
  <2>4. /\ uchar(n2) \in UCHAR /\ ushort(n3) \in USHORT /\ ushort(n4) \in USHORT
        /\ uchar(n5) \in UCHAR /\ uchar(n6) \in UCHAR
    BY FieldTypes
  <2>5. filled[m] \in Minutiae
    BY <2>3, <2>4 DEF Minutiae
  <2> QED
    BY <2>2, <2>3, <2>5
<1>6. filled \in [1 .. n -> Minutiae]
  BY <1>5
<1> HIDE DEF filled, line, left
<1>7. filled \in Seq(Minutiae) /\ Len(filled) = n /\ DOMAIN filled = 1 .. n
  BY <1>5, <1>6, <1>2, SequenceOf
<1>8. /\ view \in Fvmrs /\ view.minutiae = filled /\ FedsOf(view) = FedsOf(old)
      /\ view.extended = old.extended
      /\ view.finger_number = old.finger_number /\ view.view_number = old.view_number
      /\ view.impression_type = old.impression_type /\ view.finger_quality = old.finger_quality
  BY <1>1, <1>7 DEF Fvmrs, FedsOf
<1> HIDE DEF view
<1>9. FedsTrue(view)
  BY <1>1, <1>8 DEF FedsTrue
<1>10. \A m \in 1 .. n : FMD_LINE * (b + m - 1) < Len(text)
  <2> TAKE m \in 1 .. n
  <2>1. PICK l \in Nat : l = Len(left) /\ (n - 1) * FMD_LINE < l
    <3>1. left \in Seq(Nat)
      BY <1>1 DEF left, TextFiles
    <3>2. Len(left) \in Nat
      BY <3>1, LenProperties
    <3>3. n # 0 /\ 0 + (n - 1) * FMD_LINE = (n - 1) * FMD_LINE
      BY ONLY m \in 1 .. n, n \in Nat DEF FMD_LINE
    <3> QED
      <4>1. 0 + (n - 1) * FMD_LINE < Len(left)
        BY <1>2, <3>3 DEF Enough
      <4>2. (n - 1) * FMD_LINE < Len(left)
        BY <3>3, <4>1, Zenon
      <4> QED
        BY <3>2, <4>2, Zenon
  <2>2. PICK p \in Nat, q \in Nat : p = (m - 1) * FMD_LINE /\ q = FMD_LINE * b
                                    /\ q + p = FMD_LINE * (b + m - 1) /\ p < l
    <3>1. /\ (m - 1) * FMD_LINE \in Nat /\ FMD_LINE * b \in Nat
          /\ FMD_LINE * b + (m - 1) * FMD_LINE = FMD_LINE * (b + m - 1)
          /\ (m - 1) * FMD_LINE < l
      <4>1. \A k \in 1 .. n :
              /\ (k - 1) * FMD_LINE \in Nat
              /\ FMD_LINE * b + (k - 1) * FMD_LINE = FMD_LINE * (b + k - 1)
              /\ (n - 1) * FMD_LINE < l => (k - 1) * FMD_LINE < l
        BY ONLY b \in Nat, n \in Nat, l \in Nat DEF FMD_LINE
      <4>2. FMD_LINE * b \in Nat
        BY LinesAdd, Zenon
      <4>3. (n - 1) * FMD_LINE < l
        BY <2>1
      <4> QED
        BY <4>1, <4>2, <4>3, Zenon
    <3> QED
      BY <3>1, Zenon
  <2>3. p < Len(After(text, q)) <=> q + p < Len(text)
    BY AfterTypes
  <2> QED
    BY <1>1, <2>1, <2>2, <2>3 DEF left
<1>11. Filled(view, b, text)
  BY <1>5, <1>7, <1>8, <1>10 DEF Filled
<1>12. PICK d \in Nat : d = FMD_DATA_LENGTH * n /\ d = 6 * n
  BY <1>1 DEF FMD_DATA_LENGTH
<1>13. d = (IF stage = "xyt" THEN 6 * Len(view.minutiae) ELSE 0) + FedLengths(FedsOf(view))
             - FedLengths(FedsOf(made.views[at]))
  <2>1. PICK g \in Nat : g = FedLengths(FedsOf(old))
    BY FedLengthsTypes
  <2>2. 6 * n + g - g = 6 * n
    BY <2>1
  <2> QED
    <3>1. (IF stage = "xyt" THEN 6 * Len(view.minutiae) ELSE 0) = 6 * n
      BY <1>1, <1>7, <1>8
    <3>2. FedLengths(FedsOf(view)) = g /\ FedLengths(FedsOf(made.views[at])) = g
      BY <1>1, <1>8, <2>1
    <3> QED
      BY <1>12, <2>2, <3>1, <3>2, Zenon
<1>14. texts' \in [TextFiles -> Seq(Nat)] /\ texts'["xyt"] = After(text, FMD_LINE * (b + n))
  <2>1. PICK p \in Nat, q \in Nat : p = FMD_LINE * n /\ q = FMD_LINE * b /\ FMD_LINE * (b + n) = q + p
    <3>1. /\ FMD_LINE * b \in Nat /\ FMD_LINE * n \in Nat
          /\ FMD_LINE * (b + n) = FMD_LINE * b + FMD_LINE * n
      BY LinesAdd, Zenon
    <3> QED
      BY <3>1, Zenon
  <2>2. "xyt" \in TextFiles
    BY DEF TextFiles
  <2>3. texts' \in [TextFiles -> Seq(Nat)] /\ texts'["xyt"] = After(texts["xyt"], p)
    BY <1>1, <1>2, <2>1, <2>2, OtherText
  <2>4. After(After(text, q), p) = After(text, q + p)
    BY AfterAfter
  <2> QED
    BY <1>1, <2>1, <2>3, <2>4
<1>15. /\ Len(view.minutiae) = Len(made.views[at].minutiae)
       /\ view.finger_number = made.views[at].finger_number
       /\ view.view_number = made.views[at].view_number
       /\ view.impression_type = made.views[at].impression_type
       /\ view.finger_quality = made.views[at].finger_quality
       /\ stage \in {"xyt", "rcs", "cds"}
       /\ stage = "xyt" => Filled(view, MinutiaeBefore(made, at), source["xyt"])
       /\ stage # "xyt" => view.minutiae = made.views[at].minutiae
       /\ total_length' = total_length + d
       /\ stage = "xyt" => texts'["xyt"] = After(source["xyt"], FMD_LINE * MinutiaeBefore(made, at + 1))
  BY <1>1, <1>2, <1>7, <1>8, <1>11, <1>12, <1>14
<1> QED
  BY <1>1, <1>3, <1>8, <1>9, <1>13, <1>14, <1>15, ViewChanges
\* A FED more.
LEMMA AddFedMakes ==
  ASSUME MkTyped, NEW source \in [TextFiles -> Seq(Nat)], MadeOf(source),
         stage \in {"rcs", "cds"}, at <= made.num_views,
         NEW fed \in Feds, FedFits(fed), AddFed(fed),
         texts' \in [TextFiles -> Seq(Nat)], at' = at + 1, stage' = stage, with' = with
  PROVE  MkTyped' /\ MadeOf(source)'
<1>1. PICK old \in Fvmrs : /\ old = made.views[at] /\ made \in Fmrs /\ at \in Nat /\ FedsTrue(old)
                           /\ made.views[at] \in Fvmrs
  <2>1. made \in Fmrs /\ at \in Nat
    BY DEF MkTyped
  <2>2. Len(made.views) = made.num_views /\ at \in 1 .. made.num_views + 1
    BY <2>1 DEF MadeOf, LeftOf, CountedSo
  <2>3. PICK l \in Nat : l = Len(made.views)
    BY <2>1, MinutiaeLens
  <2>4. at \in 1 .. l
    BY <2>1, <2>2, <2>3
  <2>5. made.views[at] \in Fvmrs /\ at \in DOMAIN made.views
    BY <2>1, <2>3, <2>4, MinutiaeLens
  <2>6. FedsTrue(made.views[at])
    BY <2>5 DEF MadeOf, ToldSo
  <2> QED
    BY <2>1, <2>5, <2>6
<1> DEFINE feds == FedsOf(old)
           more == Append(feds, fed)
           block == [feds |-> more, block_length |-> ushort(FedLengths(feds) + fed.length)]
           view == [old EXCEPT !.extended = <<block>>]
<1>2. /\ made' = [made EXCEPT !.views[at].extended = <<block>>]
      /\ total_length' = total_length + fed.length
  BY <1>1 DEF AddFed
<1>3. ChangesView(view)
  <2>1. made' = [made EXCEPT !.views = [@ EXCEPT ![at] = view]]
    BY <1>1, <1>2
  <2> HIDE DEF view
  <2> QED
    BY <2>1 DEF ChangesView
<1>4. feds \in Seq(Feds) /\ DOMAIN feds = 1 .. Len(feds) /\ Len(feds) \in Nat
  BY FedsType
<1>5. /\ more \in Seq(Feds) /\ DOMAIN more = 1 .. Len(feds) + 1 /\ more[Len(feds) + 1] = fed
      /\ \A k \in 1 .. Len(feds) : more[k] = feds[k]
  BY <1>4, AppendProperties
<1>6. more # <<>>
  <2>1. Len(more) = Len(feds) + 1
    BY <1>4, AppendProperties
  <2>2. Len(more) # 0
    BY <1>4, <2>1
  <2> QED
    BY <2>2
<1>7. /\ FedLengths(feds) \in Nat /\ FedLengths(more) = FedLengths(feds) + fed.length
      /\ fed.length \in Nat
  <2>1. fed.length \in Nat
    BY Unsigned DEF Feds
  <2> QED
    BY <2>1, FedLengthsTypes
<1> HIDE DEF more, feds
<1>8. ushort(FedLengths(feds) + fed.length) \in USHORT
  <2>1. FedLengths(feds) + fed.length \in Nat
    BY <1>7
  <2> QED
    BY <2>1, FieldTypes
<1>9. block \in Blocks /\ block.feds = more /\ block.block_length = ushort(FedLengths(more))
  BY <1>5, <1>7, <1>8 DEF Blocks
<1> HIDE DEF block
<1>10. <<block>> \in Seq(Blocks) /\ <<block>> # <<>> /\ <<block>>[1] = block
  BY <1>9
<1>11. /\ view \in Fvmrs /\ view.extended = <<block>> /\ view.minutiae = old.minutiae
       /\ view.finger_number = old.finger_number /\ view.view_number = old.view_number
       /\ view.impression_type = old.impression_type /\ view.finger_quality = old.finger_quality
  BY <1>1, <1>10 DEF Fvmrs
<1>12. FedsOf(view) = more
  BY <1>9, <1>10, <1>11 DEF FedsOf
<1> HIDE DEF view
<1>13. FedsTrue(view)
  <2>1. \A k \in DOMAIN more : FedFits(more[k])
    <3>1. \A k \in 1 .. Len(feds) + 1 : k \in 1 .. Len(feds) \/ k = Len(feds) + 1
      BY <1>4
    <3>2. \A k \in 1 .. Len(feds) : FedFits(feds[k])
      BY <1>1, <1>4 DEF FedsTrue, feds
    <3> QED
      BY <1>5, <3>1, <3>2
  <2>2. view.extended[1].block_length = ushort(FedLengths(more))
    BY <1>9, <1>10, <1>11
  <2> QED
    BY <1>6, <1>10, <1>11, <1>12, <2>1, <2>2 DEF FedsTrue
<1>14. PICK d \in Nat : d = fed.length
  BY <1>7
<1>15. d = (IF stage = "xyt" THEN 6 * Len(view.minutiae) ELSE 0) + FedLengths(FedsOf(view))
             - FedLengths(FedsOf(made.views[at]))
  <2>1. (IF stage = "xyt" THEN 6 * Len(view.minutiae) ELSE 0) = 0
    OBVIOUS
  <2>2. PICK g \in Nat : g = FedLengths(feds)
    BY <1>7
  <2>3. FedLengths(FedsOf(view)) = g + d /\ FedLengths(FedsOf(made.views[at])) = g
    BY <1>1, <1>7, <1>12, <1>14, <2>2 DEF feds
  <2>4. d = 0 + (g + d) - g
    BY ONLY d \in Nat, g \in Nat
  <2> QED
    BY <2>1, <2>3, <2>4, Zenon
<1>16. /\ Len(view.minutiae) = Len(made.views[at].minutiae)
       /\ view.finger_number = made.views[at].finger_number
       /\ view.view_number = made.views[at].view_number
       /\ view.impression_type = made.views[at].impression_type
       /\ view.finger_quality = made.views[at].finger_quality
       /\ stage \in {"xyt", "rcs", "cds"}
       /\ stage # "xyt" => view.minutiae = made.views[at].minutiae
       /\ total_length' = total_length + d
  BY <1>1, <1>2, <1>11, <1>14
<1>17. stage # "xyt"
  OBVIOUS
<1> QED
  BY <1>3, <1>11, <1>13, <1>15, <1>16, <1>17, ViewChanges

\* The least number of lines that are not all there is found.
LEMMA CountsFound ==
  ASSUME NEW text \in Seq(Nat), NEW h \in Nat
  PROVE  \E c \in 0 .. h : Enough(text, 2, c, 3) /\ (c < h => ~ Enough(text, 2, c + 1, 3))
<1> DEFINE S == {d \in Nat : d <= h /\ Enough(text, 2, h - d, 3)}
<1>1. h \in S
  BY DEF Enough
<1>2. PICK d \in S : \A e \in S : d <= e
  BY <1>1, Least
<1>3. PICK c \in 0 .. h : c = h - d /\ Enough(text, 2, c, 3)
  BY <1>2
<1>4. ASSUME c < h, Enough(text, 2, c + 1, 3) PROVE FALSE
  <2>1. d - 1 \in Nat /\ h - (d - 1) = c + 1 /\ d - 1 <= h
    BY <1>2, <1>3, <1>4
  <2>2. d - 1 \in S
    BY <1>4, <2>1
  <2>3. d <= d - 1 /\ d \in Nat
    BY <1>2, <2>2
  <2> QED
    BY <2>3
<1> QED
  BY <1>3, <1>4

LEMMA ShortFits ==
  ASSUME NEW n \in Nat, n < USHRT_MAX
  PROVE  ushort(n) = n
BY Unsigned, SMT DEF ushort

\* The FEDs that load_rcs and load_cds make have the length of their data, and of the
\* angles that are not written.
LEMMA RcsFed ==
  ASSUME NEW method \in UCHAR, NEW counts \in Seq(Counts), NEW n \in Nat, Len(counts) = n,
         NEW fed, fed = [type |-> FED_RIDGE_COUNT,
                         length |-> ushort(FED_HEADER_LENGTH + 1 + RIDGE_COUNT_DATA_LENGTH * n),
                         method |-> method, counts |-> counts]
  PROVE  fed \in Feds /\ FedFits(fed)
<1>1. PICK bytes \in Nat : bytes = FED_HEADER_LENGTH + 1 + RIDGE_COUNT_DATA_LENGTH * n
                          /\ bytes = FED_HEADER_LENGTH + (1 + RIDGE_COUNT_DATA_LENGTH * n)
                          /\ bytes + 0 = bytes
  BY DEF FED_HEADER_LENGTH, RIDGE_COUNT_DATA_LENGTH
<1>2. fed.type = FED_RIDGE_COUNT /\ fed.counts = counts /\ fed.length = ushort(bytes)
  BY <1>1
<1>3. fed \in Feds
  <2>1. ushort(bytes) \in USHORT
    BY FieldTypes
  <2>2. fed \in [type : {FED_RIDGE_COUNT}, length : USHORT, method : UCHAR, counts : Seq(Counts)]
    BY <1>1, <2>1
  <2> QED
    BY <2>2, Zenon DEF Feds
<1>4. FedBytes(fed) = bytes /\ UnwrittenOf(fed) = 0
  <2>1. FedBytes(fed) = FED_HEADER_LENGTH + (1 + RIDGE_COUNT_DATA_LENGTH * Len(fed.counts))
    BY <1>2 DEF FedBytes
  <2>2. UnwrittenOf(fed) = 0
    BY <1>2 DEF UnwrittenOf
  <2> QED
    BY <1>1, <1>2, <2>1, <2>2, Zenon
<1>5. FedBytes(fed) + UnwrittenOf(fed) = bytes
  BY <1>1, <1>4, Zenon
<1>6. bytes < USHRT_MAX => ushort(bytes) = bytes
  BY ShortFits
<1> QED
  BY <1>2, <1>3, <1>5, <1>6, Zenon DEF FedFits

LEMMA CdsFed ==
  ASSUME NEW ct \in UCHAR, NEW dt \in UCHAR, NEW cores \in Seq(Places), NEW deltas \in Seq(Places),
         NEW n \in Nat, NEW m \in Nat, Len(cores) = n, Len(deltas) = m,
         NEW fed, fed = [type |-> FED_CORE_AND_DELTA,
                         length |-> ushort(FED_HEADER_LENGTH + 1 + CoreSize(ct # NONANGULAR) * n
                                                             + 1 + DeltaSize(dt # NONANGULAR) * m),
                         core_type |-> ct, cores |-> cores, delta_type |-> dt, deltas |-> deltas]
  PROVE  fed \in Feds /\ FedFits(fed)
<1>1. PICK c \in Nat, e \in Nat, g \in Nat :
      /\ c = CoreSize(ct # NONANGULAR) * n /\ e = CoreSize(ct = ANGULAR) * n
      /\ g = (IF ct \in {NONANGULAR, ANGULAR} THEN 0 ELSE n) /\ c = e + g
  <2>1. CASE ct = NONANGULAR
    <3>1. ct # ANGULAR
      BY <2>1 DEF NONANGULAR, ANGULAR
    <3>2. CoreSize(ct # NONANGULAR) = 4 /\ CoreSize(ct = ANGULAR) = 4
      BY <2>1, <3>1 DEF CoreSize
    <3> QED
      BY <2>1, <3>2
  <2>2. CASE ct = ANGULAR
    <3>1. ct # NONANGULAR
      BY <2>2 DEF NONANGULAR, ANGULAR
    <3>2. CoreSize(ct # NONANGULAR) = 5 /\ CoreSize(ct = ANGULAR) = 5
      BY <2>2, <3>1 DEF CoreSize
    <3> QED
      BY <2>2, <3>2
  <2>3. CASE ct # NONANGULAR /\ ct # ANGULAR
    <3>2. CoreSize(ct # NONANGULAR) = 5 /\ CoreSize(ct = ANGULAR) = 4
      BY <2>3 DEF CoreSize
    <3> QED
      BY <2>3, <3>2
  <2> QED
    BY <2>1, <2>2, <2>3
<1>11. PICK d \in Nat, f \in Nat, h \in Nat :
      /\ d = DeltaSize(dt # NONANGULAR) * m /\ f = DeltaSize(dt = ANGULAR) * m
      /\ h = (IF dt \in {NONANGULAR, ANGULAR} THEN 0 ELSE 3 * m) /\ d = f + h
  <2>1. CASE dt = NONANGULAR
    <3>1. dt # ANGULAR
      BY <2>1 DEF NONANGULAR, ANGULAR
    <3>2. DeltaSize(dt # NONANGULAR) = 4 /\ DeltaSize(dt = ANGULAR) = 4
      BY <2>1, <3>1 DEF DeltaSize
    <3> QED
      BY <2>1, <3>2
  <2>2. CASE dt = ANGULAR
    <3>1. dt # NONANGULAR
      BY <2>2 DEF NONANGULAR, ANGULAR
    <3>2. DeltaSize(dt # NONANGULAR) = 7 /\ DeltaSize(dt = ANGULAR) = 7
      BY <2>2, <3>1 DEF DeltaSize
    <3> QED
      BY <2>2, <3>2
  <2>3. CASE dt # NONANGULAR /\ dt # ANGULAR
    <3>2. DeltaSize(dt # NONANGULAR) = 7 /\ DeltaSize(dt = ANGULAR) = 4
      BY <2>3 DEF DeltaSize
    <3> QED
      BY <2>3, <3>2
  <2> QED
    BY <2>1, <2>2, <2>3
<1>2. PICK bytes \in Nat :
        /\ bytes = FED_HEADER_LENGTH + 1 + c + 1 + d
        /\ bytes = (FED_HEADER_LENGTH + (1 + e + 1 + f)) + (g + h)
  <2>1. c = e + g /\ d = f + h
    BY <1>1, <1>11, Zenon
  <2> QED
    <3>1. /\ FED_HEADER_LENGTH + 1 + c + 1 + d \in Nat
          /\ FED_HEADER_LENGTH + 1 + c + 1 + d = (FED_HEADER_LENGTH + (1 + e + 1 + f)) + (g + h)
      BY ONLY c \in Nat, d \in Nat, e \in Nat, f \in Nat, g \in Nat, h \in Nat, <2>1
         DEF FED_HEADER_LENGTH
    <3> QED
      BY <3>1, Zenon
<1>3. /\ fed.type = FED_CORE_AND_DELTA /\ fed.cores = cores /\ fed.deltas = deltas
      /\ fed.core_type = ct /\ fed.delta_type = dt /\ fed.length = ushort(bytes)
  BY <1>1, <1>11, <1>2
<1>4. fed \in Feds
  <2>1. ushort(bytes) \in USHORT
    BY FieldTypes
  <2>2. fed \in [type : {FED_CORE_AND_DELTA}, length : USHORT, core_type : UCHAR, cores : Seq(Places),
                 delta_type : UCHAR, deltas : Seq(Places)]
    BY <1>1, <1>11, <1>2, <2>1
  <2> QED
    BY <2>2, Zenon DEF Feds
<1>5. fed.type # FED_RIDGE_COUNT
  BY <1>3 DEF FED_RIDGE_COUNT, FED_CORE_AND_DELTA
<1>6. /\ FedBytes(fed) = FED_HEADER_LENGTH + (1 + e + 1 + f)
      /\ UnwrittenOf(fed) = g + h
  <2>1. FedBytes(fed) = FED_HEADER_LENGTH + (1 + CoreSize(fed.core_type = ANGULAR) * Len(fed.cores)
                                               + 1 + DeltaSize(fed.delta_type = ANGULAR) * Len(fed.deltas))
    BY <1>5, Zenon DEF FedBytes
  <2>2. UnwrittenOf(fed) = (IF fed.core_type \in {NONANGULAR, ANGULAR} THEN 0 ELSE Len(fed.cores)) +
                           (IF fed.delta_type \in {NONANGULAR, ANGULAR} THEN 0 ELSE 3 * Len(fed.deltas))
    BY <1>5, Zenon DEF UnwrittenOf
  <2>3. CoreSize(fed.core_type = ANGULAR) * Len(fed.cores) = e
    BY <1>1, <1>3, Zenon
  <2>4. DeltaSize(fed.delta_type = ANGULAR) * Len(fed.deltas) = f
    BY <1>11, <1>3, Zenon
  <2>5. (IF fed.core_type \in {NONANGULAR, ANGULAR} THEN 0 ELSE Len(fed.cores)) = g
    BY <1>1, <1>3, Zenon
  <2>6. (IF fed.delta_type \in {NONANGULAR, ANGULAR} THEN 0 ELSE 3 * Len(fed.deltas)) = h
    BY <1>11, <1>3, Zenon
  <2> QED
    BY <2>1, <2>2, <2>3, <2>4, <2>5, <2>6, Zenon
<1>7. FedBytes(fed) + UnwrittenOf(fed) = bytes
  BY <1>2, <1>6, Zenon
<1>8. bytes < USHRT_MAX => ushort(bytes) = bytes
  BY ShortFits
<1> QED
  BY <1>3, <1>4, <1>7, <1>8, Zenon DEF FedFits
LEMMA LoadRcsMakes ==
  ASSUME MkTyped, NEW source \in [TextFiles -> Seq(Nat)], MadeOf(source), LoadRcs
  PROVE  MkTyped' /\ MadeOf(source)'
<1> DEFINE head == Scan(texts["rcs"], 0, 2)
           found(c) == /\ Enough(texts["rcs"], 2, c, 3)
                       /\ c < head[2] => ~ Enough(texts["rcs"], 2, c + 1, 3)
           n    == CHOOSE c \in 0 .. head[2] : found(c)
           line(c) == Scan(texts["rcs"], 2 + (c - 1) * 3, 3)
           counts == [c \in 1 .. n |-> [one |-> uchar(line(c)[1]), two |-> uchar(line(c)[2]),
                                        count |-> uchar(line(c)[3])]]
           fed == [type |-> FED_RIDGE_COUNT,
                   length |-> ushort(FED_HEADER_LENGTH + 1 + RIDGE_COUNT_DATA_LENGTH * n),
                   method |-> uchar(head[1]), counts |-> counts]
           taken == 2 + 3 * (IF n < head[2] THEN n + 1 ELSE n)
<1>1. /\ stage = "rcs" /\ at <= made.num_views /\ stage' = stage /\ with' = with /\ at' = at + 1
      /\ AddFed(fed) /\ texts' = [texts EXCEPT !["rcs"] = After(@, taken)]
  BY DEF LoadRcs, Loading, Loaded
<1>2. texts \in [TextFiles -> Seq(Nat)] /\ texts["rcs"] \in Seq(Nat) /\ "rcs" \in TextFiles
  BY DEF MkTyped, TextFiles
<1>3. head[1] \in Nat /\ head[2] \in Nat
  <2>1. 2 \in Nat /\ 1 \in 1 .. 2 /\ 2 \in 1 .. 2
    OBVIOUS
  <2> QED
    BY <1>2, <2>1, ScanFront
<1>4. n \in 0 .. head[2]
  <2>1. \E c \in 0 .. head[2] : found(c)
    BY <1>2, <1>3, CountsFound
  <2> HIDE DEF found, head
  <2> QED
    BY <2>1
<1> HIDE DEF n, head
<1>5. n \in Nat /\ taken \in Nat
  BY <1>3, <1>4
<1>6. ASSUME NEW c \in 1 .. n PROVE counts[c] \in Counts
  <2>1. 2 + (c - 1) * 3 \in Nat /\ 3 \in Nat /\ 1 \in 1 .. 3 /\ 2 \in 1 .. 3 /\ 3 \in 1 .. 3
    BY <1>5
  <2>2. line(c)[1] \in Nat /\ line(c)[2] \in Nat /\ line(c)[3] \in Nat
    <3>1. \A f \in 1 .. 3 : line(c)[f] = NumberAt(texts["rcs"], 2 + (c - 1) * 3 + f)
                            /\ NumberAt(texts["rcs"], 2 + (c - 1) * 3 + f) \in Nat
      BY <1>2, <2>1, ScanTypes, Zenon
    <3> QED
      BY <2>1, <3>1, Zenon
  <2>3. uchar(line(c)[1]) \in UCHAR /\ uchar(line(c)[2]) \in UCHAR /\ uchar(line(c)[3]) \in UCHAR
    BY <2>2, FieldTypes
  <2> HIDE DEF line
  <2>4. counts[c] = [one |-> uchar(line(c)[1]), two |-> uchar(line(c)[2]), count |-> uchar(line(c)[3])]
    OBVIOUS
  <2> QED
    BY <2>3, <2>4 DEF Counts
<1>7. counts \in [1 .. n -> Counts]
  BY <1>6
<1> HIDE DEF counts
<1>8. counts \in Seq(Counts) /\ Len(counts) = n
  BY <1>5, <1>7, SequenceOf
<1>9. uchar(head[1]) \in UCHAR
  BY <1>3, FieldTypes
<1>10. fed \in Feds /\ FedFits(fed)
  BY <1>5, <1>8, <1>9, RcsFed
<1> HIDE DEF fed, taken
<1>11. texts' \in [TextFiles -> Seq(Nat)]
  BY <1>1, <1>2, <1>5, OtherText
<1>12. stage \in {"rcs", "cds"}
  BY <1>1
<1> QED
  BY <1>1, <1>10, <1>11, <1>12, AddFedMakes

LEMMA PlaceTypes ==
  ASSUME NEW text \in Seq(Nat), NEW p \in Nat, NEW size \in Nat, size >= 2, NEW type
  PROVE  Place(Scan(text, p, size), type) \in Places
<1>1. 1 \in 1 .. size /\ 2 \in 1 .. size
  OBVIOUS
<1>2. PICK n1, n2 \in Nat : n1 = Scan(text, p, size)[1] /\ n2 = Scan(text, p, size)[2]
  BY <1>1, ScanTypes
<1>3. ushort(n1) \in USHORT /\ ushort(n2) \in USHORT
  BY FieldTypes
<1> QED
  BY <1>2, <1>3 DEF Place, Places

LEMMA LayoutTypes ==
  ASSUME NEW text \in Seq(Nat)
  PROVE  LET l == Layout(text)
         IN /\ l.head[1] \in UCHAR /\ l.head[2] \in UCHAR /\ l.head2[1] \in UCHAR /\ l.head2[2] \in UCHAR
            /\ l.head[2] \in Nat /\ l.head2[2] \in Nat
            /\ l.core \in {2, 3} /\ l.delta \in {2, 5} /\ l.middle \in Nat
<1> DEFINE bytes(n) == [f \in DOMAIN n |-> uchar(n[f])]
           head   == bytes(Scan(text, 0, 2))
           core   == IF head[1] = NONANGULAR THEN 2 ELSE 3
           middle == 2 + core * head[2]
           head2  == bytes(Scan(text, middle, 2))
           delta  == IF head2[1] = NONANGULAR THEN 2 ELSE 5
<1>1. ASSUME NEW p \in Nat
      PROVE  /\ bytes(Scan(text, p, 2))[1] \in UCHAR /\ bytes(Scan(text, p, 2))[2] \in UCHAR
             /\ bytes(Scan(text, p, 2))[2] \in Nat
  <2>1. 2 \in Nat /\ 1 \in 1 .. 2 /\ 2 \in 1 .. 2
    OBVIOUS
  <2>2. PICK n1, n2 \in Nat : n1 = Scan(text, p, 2)[1] /\ n2 = Scan(text, p, 2)[2]
    <3>1. \A f \in 1 .. 2 : Scan(text, p, 2)[f] = NumberAt(text, p + f) /\ NumberAt(text, p + f) \in Nat
      BY <2>1, ScanTypes, Zenon
    <3> QED
      BY <2>1, <3>1, Zenon
  <2>3. DOMAIN Scan(text, p, 2) = 1 .. 2
    BY DEF Scan
  <2>4. bytes(Scan(text, p, 2))[1] = uchar(n1) /\ bytes(Scan(text, p, 2))[2] = uchar(n2)
    BY <2>1, <2>2, <2>3
  <2> QED
    BY <2>4, FieldTypes
<1>2. Layout(text) = [head |-> head, core |-> core, middle |-> middle, head2 |-> head2, delta |-> delta]
  BY DEF Layout
<1>3. head[1] \in UCHAR /\ head[2] \in UCHAR /\ head[2] \in Nat
  <2>1. 0 \in Nat
    OBVIOUS
  <2> HIDE DEF bytes
  <2> QED
    BY <1>1, <2>1
<1> HIDE DEF head
<1>4. core \in {2, 3} /\ middle \in Nat
  BY <1>3
<1> HIDE DEF middle
<1>5. head2[1] \in UCHAR /\ head2[2] \in UCHAR /\ head2[2] \in Nat
  <2> HIDE DEF bytes
  <2> QED
    BY <1>1, <1>4
<1>6. delta \in {2, 5}
  OBVIOUS
<1> HIDE DEF head2, delta, core
<1> QED
  BY <1>2, <1>3, <1>4, <1>5, <1>6

LEMMA LoadCdsMakes ==
  ASSUME MkTyped, NEW source \in [TextFiles -> Seq(Nat)], MadeOf(source), LoadCds
  PROVE  MkTyped' /\ MadeOf(source)'
<1> DEFINE text == texts["cds"]
           l == Layout(text)
           places(n, from, size, type) ==
             [k \in 1 .. n |-> Place(Scan(text, from + (k - 1) * size, size), type)]
           cores == places(l.head[2], 2, l.core, l.head[1])
           deltas == places(l.head2[2], l.middle + 2, l.delta, l.head2[1])
           fed == [type |-> FED_CORE_AND_DELTA,
                   length |-> ushort(FED_HEADER_LENGTH
                                       + 1 + CoreSize(l.head[1] # NONANGULAR) * l.head[2]
                                       + 1 + DeltaSize(l.head2[1] # NONANGULAR) * l.head2[2]),
                   core_type |-> l.head[1], cores |-> cores,
                   delta_type |-> l.head2[1], deltas |-> deltas]
           taken == l.middle + 2 + l.delta * l.head2[2]
<1>1. /\ stage = "cds" /\ at <= made.num_views /\ stage' = stage /\ with' = with /\ at' = at + 1
      /\ AddFed(fed) /\ texts' = [texts EXCEPT !["cds"] = After(@, taken)]
  BY DEF LoadCds, Loading, Loaded
<1>2. texts \in [TextFiles -> Seq(Nat)] /\ text \in Seq(Nat) /\ "cds" \in TextFiles
  BY DEF MkTyped, TextFiles
<1> HIDE DEF text
<1>3. /\ l.head[1] \in UCHAR /\ l.head[2] \in UCHAR /\ l.head2[1] \in UCHAR /\ l.head2[2] \in UCHAR
      /\ l.head[2] \in Nat /\ l.head2[2] \in Nat
      /\ l.core \in {2, 3} /\ l.delta \in {2, 5} /\ l.middle \in Nat
  BY <1>2, LayoutTypes
<1> HIDE DEF l
<1>4. ASSUME NEW n \in Nat, NEW from \in Nat, NEW size \in Nat, size >= 2, NEW type
      PROVE  places(n, from, size, type) \in Seq(Places) /\ Len(places(n, from, size, type)) = n
  <2>1. ASSUME NEW k \in 1 .. n PROVE Place(Scan(text, from + (k - 1) * size, size), type) \in Places
    <3>1. from + (k - 1) * size \in Nat
      <4>1. k - 1 \in Nat
        OBVIOUS
      <4>2. \A a, b \in Nat : a * b \in Nat
        OBVIOUS
      <4>3. (k - 1) * size \in Nat
        BY <4>1, <4>2, Zenon
      <4> QED
        BY <4>3
    <3> QED
      BY <1>2, <1>4, <3>1, PlaceTypes
  <2>2. places(n, from, size, type) \in [1 .. n -> Places]
    BY <2>1
  <2> QED
    BY <2>2, SequenceOf
<1>5. /\ cores \in Seq(Places) /\ Len(cores) = l.head[2]
      /\ deltas \in Seq(Places) /\ Len(deltas) = l.head2[2]
  <2>1. /\ 2 \in Nat /\ l.core \in Nat /\ l.core >= 2 /\ l.delta \in Nat /\ l.delta >= 2
        /\ l.middle + 2 \in Nat
    BY <1>3
  <2> HIDE DEF places
  <2> QED
    BY <1>3, <1>4, <2>1
<1>6. taken \in Nat
  BY <1>3
<1> HIDE DEF cores, deltas, places, taken
<1>7. fed \in Feds /\ FedFits(fed)
  <2>1. PICK f : f = fed
    OBVIOUS
  <2>2. f \in Feds /\ FedFits(f)
    BY <1>3, <1>5, <2>1, CdsFed
  <2> QED
    BY <2>1, <2>2
<1> HIDE DEF fed
<1>8. texts' \in [TextFiles -> Seq(Nat)]
  BY <1>1, <1>2, <1>6, OtherText
<1>9. stage \in {"rcs", "cds"}
  BY <1>1
<1> QED
  BY <1>1, <1>7, <1>8, <1>9, AddFedMakes

\* Whatever is loaded.
LEMMA LoadMakes ==
  ASSUME MkTyped, NEW source \in [TextFiles -> Seq(Nat)], MadeOf(source), Load
  PROVE  MkTyped' /\ MadeOf(source)'
BY LoadHdrMakes, LoadFvmrMakes, LoadFmdsMakes, LoadRcsMakes, LoadCdsMakes, EndStageMakes DEF Load

-----------------------------------------------------------------------------
(* What the variables hold, and where a program is.                        *)

Entries ==
  {e \in [prog : Programs, o : {run.o : run \in Runs}, from : Files, to : Files,
          status : {"success", "failure"}, fault : {"none", "memory", "disk"}] :
     [prog |-> e.prog, o |-> e.o] \in Runs}

Typed ==
  /\ plan \in Seq(Runs) /\ other \in Files /\ file \in Files /\ output \in Files
  /\ pc \in {"ready", "views", "load", "convert", "type9", "compare", "pairing", "verify"}
  /\ ifmr \in FileFmrs /\ ofmr \in Fmrs /\ fmr_length \in Nat /\ ansi_nist \in Ansis
  /\ MkTyped /\ log \in Seq(Entries)

\* Each place belongs to one of the programs, or to the four that filter.
InPlace ==
  /\ pc # "ready" => plan # <<>> /\ Legal(Prog, Options)
  /\ pc = "ready" => output = NoFile
  /\ stage = "none" <=> pc # "load"
  /\ pc = "views" =>
       /\ Prog \in Filters /\ HasViews(file) /\ ifmr = Head(file.records)
       /\ Len(ofmr.views) <= Len(ifmr.views) /\ output = Empty
  /\ pc = "load" => /\ Prog = "mkfmr" /\ file.kind = "text" /\ output = Empty
                    /\ MadeOf(file.texts)
  /\ pc = "convert" =>
       /\ Prog = "fmr2an2k" /\ Reads(file) /\ ifmr = Head(file.records)
       /\ output = Empty /\ at # 0
  /\ pc = "type9" => /\ Prog = "an2k2fmr" /\ file.kind = "an2k" /\ output.kind = "fmr" /\ at # 0
  /\ pc \in {"compare", "pairing"} =>
       Prog = "fmroverlap" /\ Comparable /\ output = NoFile /\ at # 0
  /\ pc = "verify" => Prog = "fmrv" /\ output = NoFile /\ at # 0
  /\ pc # "views" => ofmr = NoRecord
  /\ pc \notin {"views", "convert"} => ifmr = NoRecord
  /\ pc # "convert" => ansi_nist = NewAnsi
  /\ pc # "load" => made = NoRecord

\* Only the first program may be mkfmr.
TextFirst ==
  \A k \in DOMAIN plan : plan[k].prog = "mkfmr" => k = 1 /\ file.kind = "text"

Control == Typed /\ InPlace /\ TextFirst

LEMMA RunTypes ==
  ASSUME NEW run \in Runs
  PROVE  /\ run = [prog |-> run.prog, o |-> run.o] /\ run.prog \in Programs
         /\ run.prog = "fmrprune" => run.o \in PruneOptions
         /\ run.prog = "fmrsort" => run.o \in SortOptions
         /\ run.prog = "fmrmod" => run.o.q \in Int
         /\ run.prog = "mkfmr" => run.o.with \in SUBSET {"rcs", "cds"}
<1> DEFINE one(progs, options) == [prog : progs, o : options]
<1>1. ASSUME NEW progs, NEW options, run \in one(progs, options)
      PROVE  run = [prog |-> run.prog, o |-> run.o] /\ run.prog \in progs /\ run.o \in options
  BY <1>1
<1>2. \/ run \in one({"fmrprune"}, PruneOptions) \/ run \in one({"fmrsort"}, SortOptions)
      \/ run \in one({"fmrmod"}, [q : Int]) \/ run \in one({"fmrisocompact", "fmrv"}, {<<>>})
      \/ run \in one({"mkfmr"}, [with : SUBSET {"rcs", "cds"}])
      \/ run \in one({"fmr2an2k"}, [v : BOOLEAN, t : BOOLEAN, f : BOOLEAN, images : Nat])
      \/ run \in one({"an2k2fmr"}, [v : BOOLEAN]) \/ run \in one({"fmroverlap"}, [r : Int])
  BY Zenon DEF Runs, PruneOptions, SortOptions
<1> HIDE DEF one
<1>3. CASE run \in one({"fmrprune"}, PruneOptions)
  BY <1>1, <1>3 DEF Programs, Filters
<1>4. CASE run \in one({"fmrsort"}, SortOptions)
  BY <1>1, <1>4 DEF Programs, Filters
<1>5. CASE run \in one({"fmrmod"}, [q : Int])
  <2>1. \A o \in [q : Int] : o.q \in Int
    OBVIOUS
  <2> QED
    <3>1. /\ run = [prog |-> run.prog, o |-> run.o] /\ run.prog \in {"fmrmod"}
          /\ run.o \in [q : Int]
      BY <1>1, <1>5, Zenon
    <3> QED
      BY <2>1, <3>1 DEF Programs, Filters
<1>6. CASE run \in one({"fmrisocompact", "fmrv"}, {<<>>})
  BY <1>1, <1>6 DEF Programs, Filters
<1>7. CASE run \in one({"mkfmr"}, [with : SUBSET {"rcs", "cds"}])
  <2>1. \A o \in [with : SUBSET {"rcs", "cds"}] : o.with \in SUBSET {"rcs", "cds"}
    OBVIOUS
  <2> QED
    <3>1. /\ run = [prog |-> run.prog, o |-> run.o] /\ run.prog \in {"mkfmr"}
          /\ run.o \in [with : SUBSET {"rcs", "cds"}]
      BY <1>1, <1>7, Zenon
    <3> QED
      BY <2>1, <3>1 DEF Programs, Filters
<1>8. CASE run \in one({"fmr2an2k"}, [v : BOOLEAN, t : BOOLEAN, f : BOOLEAN, images : Nat])
  BY <1>1, <1>8 DEF Programs, Filters
<1>9. CASE run \in one({"an2k2fmr"}, [v : BOOLEAN])
  BY <1>1, <1>9 DEF Programs, Filters
<1>10. CASE run \in one({"fmroverlap"}, [r : Int])
  BY <1>1, <1>10 DEF Programs, Filters
<1> QED
  BY <1>2, <1>3, <1>4, <1>5, <1>6, <1>7, <1>8, <1>9, <1>10

LEMMA PlanTypes ==
  ASSUME plan \in Seq(Runs), plan # <<>>
  PROVE  /\ Head(plan) \in Runs /\ Head(plan) = plan[1] /\ 1 \in DOMAIN plan
         /\ Tail(plan) \in Seq(Runs)
         /\ \A k \in DOMAIN Tail(plan) : k + 1 # 1 /\ k + 1 \in DOMAIN plan /\ Tail(plan)[k] = plan[k + 1]
<1>1. Len(plan) \in Nat /\ DOMAIN plan = 1 .. Len(plan) /\ Len(plan) # 0
  BY EmptySeq, LenProperties
<1>2. Head(plan) \in Runs /\ Head(plan) = plan[1] /\ 1 \in DOMAIN plan
  BY <1>1
<1>3. Tail(plan) \in Seq(Runs) /\ Len(Tail(plan)) = Len(plan) - 1
  BY <1>1
<1>4. \A k \in DOMAIN Tail(plan) : k + 1 # 1 /\ k + 1 \in DOMAIN plan /\ Tail(plan)[k] = plan[k + 1]
  BY <1>1, <1>3
<1> QED
  BY <1>2, <1>3, <1>4

LEMMA EntryTypes ==
  ASSUME plan \in Seq(Runs), plan # <<>>, file \in Files,
         NEW status \in {"success", "failure"}, NEW leaves \in Files,
         NEW fault \in {"none", "memory", "disk"}
  PROVE  /\ [prog |-> Prog, o |-> Options, from |-> file, to |-> leaves,
             status |-> status, fault |-> fault] \in Entries
         /\ Head(plan) = [prog |-> Prog, o |-> Options]
<1>1. PICK run \in Runs : run = Head(plan) /\ Prog = run.prog /\ Options = run.o
  BY PlanTypes DEF Prog, Options
<1>2. run.prog \in Programs /\ run.o \in {s.o : s \in Runs} /\ [prog |-> run.prog, o |-> run.o] \in Runs
  BY RunTypes
<1>3. Head(plan) = [prog |-> Prog, o |-> Options]
  BY <1>1, RunTypes
<1> QED
  BY <1>1, <1>2, <1>3 DEF Entries

\* The program that ends leaves nothing but its file behind.
LEMMA EndsKeeps ==
  ASSUME Control, plan # <<>>, NEW status \in {"success", "failure"}, NEW leaves \in Files,
         NEW fault \in {"none", "memory", "disk"}, Ends(status, leaves, fault)
  PROVE  Control'
<1>1. /\ plan' = Tail(plan) /\ pc' = "ready" /\ output' = NoFile
      /\ file' = (IF leaves = NoFile THEN file ELSE leaves)
      /\ ifmr' = NoRecord /\ ofmr' = NoRecord /\ fmr_length' = 0 /\ ansi_nist' = NewAnsi
      /\ texts' = [f \in TextFiles |-> <<>>] /\ with' = {} /\ made' = NoRecord
      /\ total_length' = 0 /\ stage' = "none" /\ at' = 0 /\ other' = other
      /\ log' = Append(log, [prog |-> Prog, o |-> Options, from |-> file, to |-> leaves,
                             status |-> status, fault |-> fault])
  BY DEF Ends
<1>2. plan \in Seq(Runs) /\ other \in Files /\ file \in Files /\ log \in Seq(Entries)
  BY DEF Control, Typed
<1>3. Tail(plan) \in Seq(Runs)
  BY <1>2, PlanTypes
<1>4. file' \in Files /\ NoFile \in Files
  BY <1>1, <1>2, FileTypes
<1>5. NoRecord \in FileFmrs /\ NoRecord \in Fmrs
  BY NoRecordType DEF FileFmrs
<1>6. MkTyped'
  <2>1. [f \in TextFiles |-> <<>>] \in [TextFiles -> Seq(Nat)] /\ 0 \in Nat
    OBVIOUS
  <2> QED
    BY <1>1, <1>5, <2>1 DEF MkTyped
<1>7. log' \in Seq(Entries)
  <2>1. PICK e \in Entries : log' = Append(log, e)
    BY <1>1, <1>2, EntryTypes
  <2> QED
    BY <1>2, <2>1, AppendProperties
<1>8. Typed'
  <2>1. 0 \in Nat
    OBVIOUS
  <2> QED
    BY <1>1, <1>2, <1>3, <1>4, <1>5, <1>6, <1>7, <2>1, AddTypes DEF Typed
<1>9. InPlace'
  BY <1>1 DEF InPlace
<1>10. TextFirst'
  <2>1. \A k \in DOMAIN Tail(plan) : Tail(plan)[k].prog # "mkfmr"
    BY <1>2, PlanTypes DEF Control, TextFirst
  <2> QED
    BY <1>1, <2>1 DEF TextFirst
<1> QED
  BY <1>8, <1>9, <1>10 DEF Control

LEMMA WritesKeeps ==
  ASSUME Control, plan # <<>>, NEW record \in Fmrs, Writes(record)
  PROVE  Control'
<1>1. Stored(record) \in FileFmrs
  BY StoredFields
<1>2. CASE Ends("success", Fmr(<<Stored(record)>>), "none")
  <2>1. <<Stored(record)>> \in Seq(FileFmrs)
    BY <1>1
  <2>2. Fmr(<<Stored(record)>>) \in Files
    BY <2>1, FileTypes
  <2> QED
    BY <1>2, <2>2, EndsKeeps
<1>3. CASE \E cut \in CutRecord(Stored(record)) : Ends("success", Fmr(cut), "disk")
  <2>1. PICK cut \in CutRecord(Stored(record)) : Ends("success", Fmr(cut), "disk")
    BY <1>3
  <2>2. Fmr(cut) \in Files
    BY <1>1, CutTypes, FileTypes
  <2> QED
    BY <2>1, <2>2, EndsKeeps
<1> QED
  BY <1>2, <1>3 DEF Writes

\* A program runs after the first steps have been taken for it.
LEMMA Running ==
  ASSUME Control
  PROVE  /\ pc # "ready" => plan # <<>>
         /\ plan # <<>> => Head(plan) \in Runs /\ Prog \in Programs
         /\ NoFile \in Files /\ Empty \in Files /\ output \in Files /\ file \in Files
<1>1. pc # "ready" => plan # <<>>
  BY DEF Control, InPlace
<1>2. plan # <<>> => Head(plan) \in Runs /\ Prog \in Programs
  BY PlanTypes, RunTypes DEF Control, Typed, Prog
<1>3. NoFile \in Files /\ Empty \in Files /\ output \in Files /\ file \in Files
  BY FileTypes DEF Control, Typed
<1> QED
  BY <1>1, <1>2, <1>3

LEMMA FailureKeeps ==
  ASSUME Control, OptionError \/ CannotRead \/ NoMemory \/ LoadFails \/ NotValid \/ NoImage \/ Refuse
  PROVE  Control'
<1>1. (pc = "ready" /\ plan # <<>>) \/ pc # "ready"
  BY DEF OptionError, CannotRead, Starts, NoMemory, LoadFails, NotValid, NoImage, Refuse, Verifying
<1>2. plan # <<>>
  BY <1>1, Running
<1>3. \/ Ends("failure", NoFile, "none") \/ Ends("failure", Empty, "none")
      \/ Ends("failure", output, "memory") \/ Ends("failure", output, "none")
  BY DEF OptionError, CannotRead, NoMemory, LoadFails, NotValid, NoImage, Refuse
<1> QED
  BY <1>2, <1>3, Running, EndsKeeps

LEMMA SuccessKeeps ==
  ASSUME Control, WriteAn2k \/ An2k2fmrEnds \/ OverlapEnds \/ VerifyEnds
  PROVE  Control'
<1>1. pc # "ready" /\ plan # <<>>
  BY Running DEF WriteAn2k, An2k2fmrEnds, OverlapEnds, VerifyEnds
<1>2. An2k(ansi_nist) \in Files
  BY FileTypes DEF Ansis, Control, Typed
<1>3. PICK status \in {"success", "failure"} :
        \/ Ends(status, NoFile, "none") \/ Ends(status, Empty, "disk")
        \/ Ends(status, output, "none") \/ Ends(status, An2k(ansi_nist), "none")
  BY DEF WriteAn2k, An2k2fmrEnds, OverlapEnds, VerifyEnds
<1> QED
  BY <1>1, <1>2, <1>3, Running, EndsKeeps

LEMMA StartFilterKeeps ==
  ASSUME Control, StartFilter
  PROVE  Control'
<1>1. /\ pc = "ready" /\ plan # <<>> /\ Legal(Prog, Options) /\ Prog \in Filters /\ HasViews(file)
      /\ ifmr' = Head(file.records) /\ ofmr' = [ifmr' EXCEPT !.views = <<>>]
      /\ fmr_length' = HeaderOf(ifmr') /\ output' = Empty /\ pc' = "views"
      /\ UNCHANGED <<plan, other, file, ansi_nist, log, mkfmrVars>>
  BY DEF StartFilter, Starts
<1>2. Reads(file) /\ file \in Files
  BY <1>1 DEF HasViews, Control, Typed
<1>3. ifmr' \in FileFmrs
  BY <1>1, <1>2, FirstRecord
<1>4. ofmr' \in Fmrs /\ ofmr'.views = <<>>
  <2>1. <<>> \in Seq(Fvmrs)
    OBVIOUS
  <2> QED
    BY <1>1, <1>3, <2>1 DEF FileFmrs, Fmrs
<1>5. fmr_length' \in Nat
  BY <1>1 DEF HeaderOf, SMALL_HEADER, LARGE_HEADER
<1>6. Typed'
  BY <1>1, <1>3, <1>4, <1>5, FileTypes DEF Control, Typed, MkTyped, mkfmrVars
<1>7. Len(ofmr'.views) <= Len(ifmr'.views)
  <2>1. Len(ofmr'.views) = 0
    BY <1>4
  <2>2. Len(ifmr'.views) \in Nat
    BY <1>3, MinutiaeLens DEF FileFmrs
  <2> QED
    BY <2>1, <2>2
<1>8. InPlace'
  BY <1>1, <1>7 DEF Control, InPlace, mkfmrVars, HasViews, Reads, Prog, Options, Legal, LegalPrune
<1>9. TextFirst'
  BY <1>1 DEF Control, TextFirst
<1> QED
  BY <1>6, <1>8, <1>9 DEF Control

LEMMA AddViewKeeps ==
  ASSUME Control, pc = "views", Len(ofmr.views) < Len(ifmr.views),
         NEW view \in Fvmrs, AddView(view), fmr_length' \in Nat
  PROVE  Control' /\ Len(ofmr'.views) = Len(ofmr.views) + 1 /\ ofmr'.views[Len(ofmr.views) + 1] = view
<1>1. /\ ofmr' = [ofmr EXCEPT !.views = Append(@, view)]
      /\ UNCHANGED <<plan, other, file, pc, ifmr, ansi_nist, output, log, mkfmrVars>>
  BY DEF AddView
<1>2. ofmr \in Fmrs /\ ifmr \in Fmrs
  BY DEF Control, Typed, FileFmrs
<1>3. /\ ofmr' \in Fmrs /\ Len(ofmr'.views) = Len(ofmr.views) + 1
      /\ ofmr'.views[Len(ofmr.views) + 1] = view
  BY <1>1, <1>2, OneMoreView
<1>4. Len(ofmr'.views) <= Len(ifmr.views)
  BY <1>2, <1>3, MinutiaeLens
<1>5. Typed'
  BY <1>1, <1>3 DEF Control, Typed, MkTyped, mkfmrVars
<1>6. InPlace'
  BY <1>1, <1>4 DEF Control, InPlace, mkfmrVars, HasViews, Reads, Prog, Options, Legal, LegalPrune
<1>7. TextFirst'
  BY <1>1 DEF Control, TextFirst
<1> QED
  BY <1>3, <1>5, <1>6, <1>7 DEF Control

\* What each of the four makes of a view.
LEMMA FilterViewTypes ==
  ASSUME Control, pc = "views", Len(ofmr.views) < Len(ifmr.views)
  PROVE  /\ View \in Fvmrs /\ View = ifmr.views[Len(ofmr.views) + 1]
         /\ Len(ofmr.views) + 1 \in 1 .. Len(ifmr.views)
<1>1. ofmr \in Fmrs /\ ifmr \in Fmrs
  BY DEF Control, Typed, FileFmrs
<1>2. Len(ofmr.views) + 1 \in 1 .. Len(ifmr.views)
  BY <1>1, MinutiaeLens
<1> QED
  BY <1>1, <1>2, MinutiaeLens DEF View

LEMMA BareLengthTypes ==
  ASSUME NEW view \in Fvmrs
  PROVE  BareLength(view) \in Nat
<1>1. Len(view.minutiae) \in Nat
  BY LenProperties DEF Fvmrs
<1> QED
  BY <1>1 DEF BareLength, FVMR_HEADER_LENGTH, FEDB_HEADER_LENGTH, FMD_DATA_LENGTH

LEMMA BareViewTypes ==
  ASSUME NEW view \in Fvmrs, NEW minutiae \in Seq(Minutiae)
  PROVE  LET new == [view EXCEPT !.minutiae = minutiae, !.extended = <<>>]
         IN /\ new \in Fvmrs /\ new.minutiae = minutiae /\ new.extended = <<>>
            /\ new.finger_number = view.finger_number /\ new.view_number = view.view_number
            /\ new.impression_type = view.impression_type /\ new.finger_quality = view.finger_quality
<1>1. <<>> \in Seq(Blocks)
  OBVIOUS
<1> QED
  BY <1>1 DEF Fvmrs

LEMMA SameSizeTypes ==
  ASSUME NEW view \in Fvmrs, NEW new, new = [view EXCEPT !.minutiae = [m \in DOMAIN @ |-> new.minutiae[m]]],
         \A m \in 1 .. Len(view.minutiae) : new.minutiae[m] \in Minutiae
  PROVE  /\ new \in Fvmrs /\ new.extended = view.extended /\ Len(new.minutiae) = Len(view.minutiae)
         /\ new.finger_number = view.finger_number /\ new.view_number = view.view_number
         /\ new.impression_type = view.impression_type /\ new.finger_quality = view.finger_quality
<1>1. view.minutiae \in Seq(Minutiae) /\ new.minutiae = [m \in DOMAIN view.minutiae |-> new.minutiae[m]]
  BY DEF Fvmrs
<1>2. PICK t : t = new.minutiae
  OBVIOUS
<1>3. t \in Seq(Minutiae) /\ Len(t) = Len(view.minutiae)
  BY <1>1, <1>2, Mapped
<1>4. new = [view EXCEPT !.minutiae = t]
  BY <1>1, <1>2 DEF Fvmrs
<1> QED
  BY <1>2, <1>3, <1>4 DEF Fvmrs

LEMMA ModifiedTypes ==
  ASSUME NEW view \in Fvmrs, NEW q \in Int
  PROVE  LET new == [view EXCEPT !.minutiae =
                       [m \in DOMAIN @ |-> [@[m] EXCEPT !.quality = q % (UCHAR_MAX + 1)]]]
         IN /\ new \in Fvmrs /\ new.extended = view.extended /\ Len(new.minutiae) = Len(view.minutiae)
            /\ \A m \in 1 .. Len(view.minutiae) :
                 new.minutiae[m] = [view.minutiae[m] EXCEPT !.quality = q % (UCHAR_MAX + 1)]
            /\ new.finger_number = view.finger_number /\ new.view_number = view.view_number
            /\ new.impression_type = view.impression_type /\ new.finger_quality = view.finger_quality
<1> DEFINE f(m) == [view.minutiae[m] EXCEPT !.quality = q % (UCHAR_MAX + 1)]
<1>1. PICK new : new = [view EXCEPT !.minutiae =
                       [m \in DOMAIN @ |-> [@[m] EXCEPT !.quality = q % (UCHAR_MAX + 1)]]]
  OBVIOUS
<1>2. view.minutiae \in Seq(Minutiae) /\ DOMAIN view.minutiae = 1 .. Len(view.minutiae)
  BY LenProperties DEF Fvmrs
<1>3. new.minutiae = [m \in DOMAIN view.minutiae |-> f(m)]
  BY <1>1 DEF Fvmrs
<1>4. ASSUME NEW m \in 1 .. Len(view.minutiae) PROVE new.minutiae[m] = f(m) /\ f(m) \in Minutiae
  <2>1. view.minutiae[m] \in Minutiae /\ q % (UCHAR_MAX + 1) \in UCHAR
    BY <1>2, ElementOfSeq, Remainders
  <2>2. f(m) \in Minutiae
    BY <2>1 DEF Minutiae
  <2> QED
    BY <1>2, <1>3, <2>2
<1>5. new = [view EXCEPT !.minutiae = [m \in DOMAIN @ |-> new.minutiae[m]]]
  BY <1>1, <1>3 DEF Fvmrs
<1>6. \A m \in 1 .. Len(view.minutiae) : new.minutiae[m] \in Minutiae
  BY <1>4
<1>7. /\ new \in Fvmrs /\ new.extended = view.extended /\ Len(new.minutiae) = Len(view.minutiae)
      /\ new.finger_number = view.finger_number /\ new.view_number = view.view_number
      /\ new.impression_type = view.impression_type /\ new.finger_quality = view.finger_quality
  BY <1>5, <1>6, SameSizeTypes, Zenon
<1>8. \A m \in 1 .. Len(view.minutiae) : new.minutiae[m] = f(m)
  BY <1>4
<1> QED
  BY <1>1, <1>7, <1>8, Zenon

LEMMA IsoAngleTypes ==
  ASSUME NEW angle \in UCHAR
  PROVE  IsoAngle(angle) \in UCHAR
<1>1. angle \in Nat
  BY Unsigned
<1>2. (45 * IsoTheta(angle) + 8) \div 16 \in Int
  BY <1>1 DEF IsoTheta
<1> QED
  BY <1>2, Remainders DEF IsoAngle

LEMMA CompactedTypes ==
  ASSUME NEW view \in Fvmrs
  PROVE  LET new == [view EXCEPT !.minutiae = [m \in DOMAIN @ |-> IsoMinutia(@[m])]]
         IN /\ new \in Fvmrs /\ new.extended = view.extended /\ Len(new.minutiae) = Len(view.minutiae)
            /\ \A m \in 1 .. Len(view.minutiae) :
                 new.minutiae[m] = IsoMinutia(view.minutiae[m])
            /\ new.finger_number = view.finger_number /\ new.view_number = view.view_number
            /\ new.impression_type = view.impression_type /\ new.finger_quality = view.finger_quality
<1> DEFINE f(m) == IsoMinutia(view.minutiae[m])
<1>1. PICK new : new = [view EXCEPT !.minutiae = [m \in DOMAIN @ |-> IsoMinutia(@[m])]]
  OBVIOUS
<1>2. view.minutiae \in Seq(Minutiae) /\ DOMAIN view.minutiae = 1 .. Len(view.minutiae)
  BY LenProperties DEF Fvmrs
<1>3. new.minutiae = [m \in DOMAIN view.minutiae |-> f(m)]
  <2>1. PICK t : t = [m \in DOMAIN view.minutiae |-> f(m)]
    OBVIOUS
  <2>2. new = [view EXCEPT !.minutiae = t]
    BY <1>1, <2>1
  <2> QED
    BY <2>1, <2>2 DEF Fvmrs
<1>4. ASSUME NEW m \in 1 .. Len(view.minutiae) PROVE new.minutiae[m] = f(m) /\ f(m) \in Minutiae
  <2>1. view.minutiae[m] \in Minutiae
    BY <1>2, ElementOfSeq
  <2>2. IsoAngle(view.minutiae[m].angle) \in UCHAR
    BY <2>1, IsoAngleTypes DEF Minutiae
  <2>3. f(m) \in Minutiae
    BY <2>1, <2>2 DEF Minutiae, IsoMinutia
  <2> QED
    BY <1>2, <1>3, <2>3
<1>5. new = [view EXCEPT !.minutiae = [m \in DOMAIN @ |-> new.minutiae[m]]]
  BY <1>1, <1>3 DEF Fvmrs
<1>6. \A m \in 1 .. Len(view.minutiae) : new.minutiae[m] \in Minutiae
  BY <1>4
<1>7. /\ new \in Fvmrs /\ new.extended = view.extended /\ Len(new.minutiae) = Len(view.minutiae)
      /\ new.finger_number = view.finger_number /\ new.view_number = view.view_number
      /\ new.impression_type = view.impression_type /\ new.finger_quality = view.finger_quality
  BY <1>5, <1>6, SameSizeTypes, Zenon
<1>8. \A m \in 1 .. Len(view.minutiae) : new.minutiae[m] = f(m)
  BY <1>4
<1> QED
  BY <1>1, <1>7, <1>8, Zenon

\* The view a filter makes of one.
Makes(e, old, new) ==
  CASE e.prog = "fmrprune" ->
         \E m \in Pruned(old.minutiae, e.o) : new = [old EXCEPT !.minutiae = m, !.extended = <<>>]
    [] e.prog = "fmrsort" ->
         \E m \in Resorted(old.minutiae, e.o) : new = [old EXCEPT !.minutiae = m, !.extended = <<>>]
    [] e.prog = "fmrmod" ->
         new = [old EXCEPT !.minutiae =
                  [m \in DOMAIN @ |-> [@[m] EXCEPT !.quality = e.o.q % (UCHAR_MAX + 1)]]]
    [] e.prog = "fmrisocompact" ->
         new = [old EXCEPT !.minutiae = [m \in DOMAIN @ |-> IsoMinutia(@[m])]]

FiltersView ==
  copy_and_select_fvmr \/ sort_and_copy_fvmr \/ copy_and_modify_fvmr \/ modify_fvmr_theta

LEMMA FiltersOneView ==
  ASSUME Control, FiltersView
  PROVE  /\ pc = "views" /\ Len(ofmr.views) < Len(ifmr.views)
         /\ \E view \in Fvmrs :
              /\ AddView(view) /\ Makes(Head(plan), View, view)
              /\ IF Prog \in {"fmrprune", "fmrsort"} THEN fmr_length' = fmr_length + BareLength(view)
                                                     ELSE fmr_length' = fmr_length
<1>1. pc = "views" /\ Len(ofmr.views) < Len(ifmr.views)
  BY DEF FiltersView, copy_and_select_fvmr, sort_and_copy_fvmr, copy_and_modify_fvmr, modify_fvmr_theta,
         Viewing
<1>2. View \in Fvmrs /\ View.minutiae \in Seq(Minutiae)
  BY <1>1, FilterViewTypes DEF Fvmrs
<1>3. PICK run \in Runs : run = Head(plan) /\ Prog = run.prog /\ Options = run.o
  BY <1>1, Running DEF Prog, Options
<1>4. CASE copy_and_select_fvmr
  <2>1. Prog = "fmrprune" /\ Options \in PruneOptions
    BY <1>3, <1>4, RunTypes DEF copy_and_select_fvmr, Viewing
  <2>2. PICK minutiae \in Pruned(View.minutiae, Options) :
          /\ AddView([View EXCEPT !.minutiae = minutiae, !.extended = <<>>])
          /\ fmr_length' = fmr_length + BareLength([View EXCEPT !.minutiae = minutiae, !.extended = <<>>])
    BY <1>4 DEF copy_and_select_fvmr
  <2>3. minutiae \in Seq(Minutiae)
    BY <1>2, <2>1, <2>2, SelectedTypes
  <2>4. PICK view : view = [View EXCEPT !.minutiae = minutiae, !.extended = <<>>]
    OBVIOUS
  <2>5. view \in Fvmrs
    BY <1>2, <2>3, <2>4, BareViewTypes
  <2>6. Makes(Head(plan), View, view)
    BY <1>3, <2>1, <2>2, <2>4 DEF Makes
  <2> QED
    BY <1>1, <2>1, <2>2, <2>4, <2>5, <2>6
<1>5. CASE sort_and_copy_fvmr
  <2>1. Prog = "fmrsort" /\ Options \in SortOptions
    BY <1>3, <1>5, RunTypes DEF sort_and_copy_fvmr, Viewing
  <2>2. PICK minutiae \in Resorted(View.minutiae, Options) :
          /\ AddView([View EXCEPT !.minutiae = minutiae, !.extended = <<>>])
          /\ fmr_length' = fmr_length + BareLength([View EXCEPT !.minutiae = minutiae, !.extended = <<>>])
    BY <1>5 DEF sort_and_copy_fvmr
  <2>3. minutiae \in Seq(Minutiae)
    BY <1>2, <2>1, <2>2, SelectedTypes
  <2>4. PICK view : view = [View EXCEPT !.minutiae = minutiae, !.extended = <<>>]
    OBVIOUS
  <2>5. view \in Fvmrs
    BY <1>2, <2>3, <2>4, BareViewTypes
  <2>6. Makes(Head(plan), View, view)
    BY <1>3, <2>1, <2>2, <2>4 DEF Makes
  <2> QED
    BY <1>1, <2>1, <2>2, <2>4, <2>5, <2>6
<1>6. CASE copy_and_modify_fvmr
  <2>1. Prog = "fmrmod" /\ Options.q \in Int
    BY <1>3, <1>6, RunTypes DEF copy_and_modify_fvmr, Viewing
  <2>2. PICK view : view = [View EXCEPT !.minutiae =
                              [m \in DOMAIN @ |-> [@[m] EXCEPT !.quality = Options.q % (UCHAR_MAX + 1)]]]
    OBVIOUS
  <2>3. AddView(view) /\ fmr_length' = fmr_length
    BY <1>6, <2>2 DEF copy_and_modify_fvmr
  <2>4. view \in Fvmrs
    BY <1>2, <2>1, <2>2, ModifiedTypes
  <2>5. Makes(Head(plan), View, view)
    BY <1>3, <2>1, <2>2 DEF Makes
  <2> QED
    BY <1>1, <2>1, <2>3, <2>4, <2>5
<1>7. CASE modify_fvmr_theta
  <2>1. Prog = "fmrisocompact"
    BY <1>7 DEF modify_fvmr_theta, Viewing
  <2>2. PICK view : view = [View EXCEPT !.minutiae = [m \in DOMAIN @ |-> IsoMinutia(@[m])]]
    OBVIOUS
  <2>3. AddView(view) /\ fmr_length' = fmr_length
    BY <1>7, <2>2 DEF modify_fvmr_theta
  <2>4. view \in Fvmrs
    BY <1>2, <2>2, CompactedTypes
  <2>5. Makes(Head(plan), View, view)
    BY <1>3, <2>1, <2>2 DEF Makes
  <2> QED
    BY <1>1, <2>1, <2>3, <2>4, <2>5
<1> QED
  BY <1>4, <1>5, <1>6, <1>7 DEF FiltersView

LEMMA FilterKeeps ==
  ASSUME Control, Filter
  PROVE  Control'
<1>1. CASE StartFilter
  BY <1>1, StartFilterKeeps
<1>2. CASE WriteFiltered
  <2>1. PICK record : Writes(record) /\ record \in {ofmr, [ofmr EXCEPT !.record_length = fmr_length]}
    BY <1>2 DEF WriteFiltered
  <2>2. record \in Fmrs
    BY <2>1 DEF Control, Typed, Fmrs
  <2>3. plan # <<>>
    BY <1>2, Running DEF WriteFiltered
  <2> QED
    BY <2>1, <2>2, <2>3, WritesKeeps
<1>3. CASE FiltersView
  <2>1. pc = "views" /\ Len(ofmr.views) < Len(ifmr.views)
    BY <1>3, FiltersOneView
  <2>2. PICK view \in Fvmrs :
          /\ AddView(view)
          /\ IF Prog \in {"fmrprune", "fmrsort"} THEN fmr_length' = fmr_length + BareLength(view)
                                                 ELSE fmr_length' = fmr_length
    BY <1>3, FiltersOneView
  <2>3. fmr_length' \in Nat
    BY <2>2, BareLengthTypes DEF Control, Typed
  <2> QED
    BY <2>1, <2>2, <2>3, AddViewKeeps
<1> QED
  BY <1>1, <1>2, <1>3 DEF Filter, FiltersView

-----------------------------------------------------------------------------
LEMMA SamePlan ==
  ASSUME plan' = plan, file' = file, other' = other
  PROVE  /\ Prog' = Prog /\ Options' = Options /\ Legal(Prog, Options)' = Legal(Prog, Options)
         /\ Reads(file)' = Reads(file) /\ HasViews(file)' = HasViews(file) /\ Comparable' = Comparable
<1>1. Prog' = Prog /\ Options' = Options
  BY DEF Prog, Options
<1>2. Legal(Prog, Options)' = Legal(Prog, Options)
  BY <1>1 DEF Legal, LegalPrune
<1>3. Reads(file)' = Reads(file) /\ HasViews(file)' = HasViews(file)
  BY DEF Reads, HasViews
<1>4. Comparable' = Comparable
  BY DEF Comparable, HasViews, Reads
<1> QED
  BY <1>1, <1>2, <1>3, <1>4

LEMMA StartMkfmrKeeps ==
  ASSUME Control, StartMkfmr
  PROVE  Control'
<1>1. /\ pc = "ready" /\ plan # <<>> /\ Legal(Prog, Options) /\ Prog = "mkfmr"
      /\ texts' = file.texts /\ with' = Options.with /\ total_length' = 0 /\ stage' = "hdr"
      /\ at' = 1 /\ output' = Empty /\ pc' = "load"
      /\ UNCHANGED <<plan, other, file, ifmr, ofmr, fmr_length, ansi_nist, log, made>>
  BY DEF StartMkfmr, Starts
<1>2. /\ file.kind = "text" /\ file \in Files /\ made = NoRecord
      /\ ifmr = NoRecord /\ ofmr = NoRecord /\ ansi_nist = NewAnsi
  BY <1>1, PlanTypes DEF Control, Typed, TextFirst, InPlace, Prog
<1>3. file.texts \in [TextFiles -> Seq(Nat)] /\ Options.with \in SUBSET {"rcs", "cds"}
  BY <1>1, <1>2, FileTypes, PlanTypes, RunTypes DEF Control, Typed, Prog, Options
<1>4. MkTyped'
  BY <1>1, <1>3 DEF Control, Typed, MkTyped
<1>5. Typed'
  BY <1>1, <1>4, FileTypes DEF Control, Typed
<1>6. PICK source : source = file.texts /\ source = texts'
  BY <1>1
<1>7. MadeOf(source)'
  <2>1. LeftOf(source)'
    BY <1>1, <1>2, <1>6 DEF LeftOf, NoRecord
  <2>2. CountedSo(source)'
    BY <1>1 DEF CountedSo
  <2>3. ToldSo(source)'
    BY <1>1, <1>2 DEF ToldSo, NoRecord
  <2> QED
    BY <2>1, <2>2, <2>3 DEF MadeOf
<1>8. MadeOf(file.texts)'
  BY <1>1, <1>6, <1>7
<1>9. InPlace'
  BY <1>1, <1>2, <1>8, SamePlan DEF Control, InPlace
<1>10. TextFirst'
  BY <1>1 DEF Control, TextFirst
<1> QED
  BY <1>5, <1>9, <1>10 DEF Control

LEMMA LoadNextKeeps ==
  ASSUME Control, LoadNext
  PROVE  Control'
<1>1. pc = "load" /\ Load /\ UNCHANGED toolVars
  BY DEF LoadNext
<1>2. file.kind = "text" /\ file \in Files /\ MkTyped /\ MadeOf(file.texts) /\ Prog = "mkfmr" /\ output = Empty
  BY <1>1 DEF Control, Typed, InPlace
<1>3. PICK source \in [TextFiles -> Seq(Nat)] : source = file.texts
  BY <1>2, FileTypes
<1>4. MkTyped' /\ MadeOf(source)'
  BY <1>1, <1>2, <1>3, LoadMakes
<1>5. MadeOf(file.texts)'
  BY <1>1, <1>3, <1>4 DEF toolVars
<1>6. stage' # "none"
  BY <1>4 DEF MadeOf, LeftOf
<1>7. Typed'
  BY <1>1, <1>4 DEF Control, Typed, toolVars
<1>8. InPlace'
  BY <1>1, <1>2, <1>5, <1>6 DEF Control, InPlace, toolVars, Prog, Options, Legal, LegalPrune
<1>9. TextFirst'
  BY <1>1 DEF Control, TextFirst, toolVars
<1> QED
  BY <1>7, <1>8, <1>9 DEF Control

LEMMA MakeKeeps ==
  ASSUME Control, StartMkfmr \/ LoadNext \/ WriteMade
  PROVE  Control'
<1>1. CASE WriteMade
  <2>1. PICK record : Writes(record) /\ record = [made EXCEPT !.record_length = total_length]
    BY <1>1 DEF WriteMade
  <2>2. record \in Fmrs
    BY <2>1 DEF Control, Typed, MkTyped, Fmrs
  <2>3. plan # <<>>
    BY <1>1, Running DEF WriteMade
  <2> QED
    BY <2>1, <2>2, <2>3, WritesKeeps
<1> QED
  BY <1>1, StartMkfmrKeeps, LoadNextKeeps

LEMMA StartCardKeeps ==
  ASSUME Control, StartFmr2an2k
  PROVE  Control'
<1>1. /\ pc = "ready" /\ plan # <<>> /\ Legal(Prog, Options) /\ Prog = "fmr2an2k" /\ Reads(file)
      /\ ifmr' = Head(file.records) /\ output' = Empty /\ at' = 1 /\ pc' = "convert"
      /\ UNCHANGED <<plan, other, file, ofmr, fmr_length, log, texts, with, made, total_length, stage>>
      /\ ansi_nist' = IF Options.t THEN Add(NewAnsi, Type2) ELSE NewAnsi
  BY DEF StartFmr2an2k, Starts
<1>2. ansi_nist' \in Ansis
  BY <1>1, AddTypes, AnsiRecordTypes
<1>3. ifmr' \in FileFmrs
  BY <1>1, FirstRecord DEF Control, Typed
<1>4. Typed'
  BY <1>1, <1>2, <1>3, FileTypes DEF Control, Typed, MkTyped
<1>5. at' # 0
  BY <1>1
<1>6. InPlace'
  BY <1>1, <1>5, SamePlan DEF Control, InPlace
<1>7. TextFirst'
  BY <1>1 DEF Control, TextFirst
<1> QED
  BY <1>4, <1>6, <1>7 DEF Control

LEMMA ConvertViewKeeps ==
  ASSUME Control, ConvertView
  PROVE  Control'
<1>1. /\ pc = "convert" /\ at <= Len(ifmr.views) /\ at' = at + 1
      /\ UNCHANGED <<plan, other, file, pc, ifmr, ofmr, fmr_length, output, log,
                     texts, with, made, total_length, stage>>
  BY DEF ConvertView
<1>2. PICK record9 \in Type9(ifmr, ifmr.views[at], at - 1) :
        \/ ansi_nist' = Add(ansi_nist, record9)
        \/ \E image \in Type13(ifmr, at - 1) : ansi_nist' = Add(Add(ansi_nist, record9), image)
  BY DEF ConvertView
<1>3. ifmr \in Fmrs /\ ansi_nist \in Ansis /\ at \in Nat /\ at # 0
  BY <1>1 DEF Control, Typed, MkTyped, InPlace, FileFmrs
<1>4. at - 1 \in Nat /\ at \in 1 .. Len(ifmr.views) /\ ifmr.views[at] \in Fvmrs /\ at' \in Nat /\ at' # 0
  BY <1>1, <1>3, MinutiaeLens
<1>5. record9 \in AnsiRecords
  BY <1>2, <1>3, <1>4, Type9Types
<1>6. ansi_nist' \in Ansis
  BY <1>2, <1>3, <1>4, <1>5, Type13Types, AddTypes
<1>7. Typed'
  BY <1>1, <1>4, <1>6 DEF Control, Typed, MkTyped
<1>8. InPlace'
  BY <1>1, <1>4, SamePlan DEF Control, InPlace
<1>9. TextFirst'
  BY <1>1 DEF Control, TextFirst
<1> QED
  BY <1>7, <1>8, <1>9 DEF Control

LEMMA StartAn2k2fmrKeeps ==
  ASSUME Control, StartAn2k2fmr
  PROVE  Control'
<1>1. /\ pc = "ready" /\ plan # <<>> /\ Legal(Prog, Options) /\ Prog = "an2k2fmr" /\ file.kind = "an2k"
      /\ output' = Empty /\ at' = 1 /\ pc' = "type9"
      /\ UNCHANGED <<plan, other, file, ifmr, ofmr, fmr_length, ansi_nist, log,
                     texts, with, made, total_length, stage>>
  BY DEF StartAn2k2fmr, Starts
<1>2. Typed'
  BY <1>1, FileTypes DEF Control, Typed, MkTyped
<1>3. at' # 0
  BY <1>1
<1>4. InPlace'
  BY <1>1, <1>3, FileTypes, SamePlan DEF Control, InPlace
<1>5. TextFirst'
  BY <1>1 DEF Control, TextFirst
<1> QED
  BY <1>2, <1>4, <1>5 DEF Control

\* The number of a finger's view counts records in front of it.
LEMMA ViewNumberTypes ==
  ASSUME NEW n \in Nat, n # 0
  PROVE  ViewNumber(n) \in Nat
<1> DEFINE S == {k \in 1 .. n - 1 : /\ file.records[k].type = 9
                                    /\ file.records[k].finger = file.records[n].finger}
<1>1. IsFiniteSet(1 .. n - 1)
  <2>1. 1 \in Int /\ n - 1 \in Int
    OBVIOUS
  <2> QED
    BY <2>1, FS_Interval, Zenon
<1>2. S \subseteq 1 .. n - 1
  OBVIOUS
<1>3. IsFiniteSet(S)
  BY <1>1, <1>2, FS_Subset, Zenon
<1> QED
  BY <1>3, FS_CardinalityType DEF ViewNumber

\* A Type-9 record that is converted.
LEMMA ConvertsType9 ==
  ASSUME Control, pc = "type9", at <= Len(file.records), file.records[at].type = 9,
         NEW fmr \in FmrsOf(file, file.records[at], ViewNumber(at))
  PROVE  /\ fmr \in Fmrs /\ Stored(fmr) \in FileFmrs /\ An2kTrue(Stored(fmr))
         /\ output \in Files /\ output.kind = "fmr" /\ output.records \in Seq(FileFmrs)
         /\ Append(output.records, Stored(fmr)) \in Seq(FileFmrs)
         /\ Fmr(Append(output.records, Stored(fmr))) \in Files
<1>1. file \in Files /\ file.kind = "an2k" /\ at \in Nat /\ at # 0 /\ output \in Files /\ output.kind = "fmr"
  BY DEF Control, Typed, MkTyped, InPlace
<1>2. file.records \in Seq(AnsiRecords) /\ output.records \in Seq(FileFmrs)
  BY <1>1, FileTypes
<1>3. file.records[at] \in AnsiRecords
  BY <1>1, <1>2
<1>4. file.records[at] \in Type9Records
  BY <1>3, AnsiRecordTypes
<1>5. ViewNumber(at) \in Nat
  BY <1>1, ViewNumberTypes
<1>6. fmr \in Fmrs /\ Stored(fmr) \in FileFmrs /\ An2kTrue(Stored(fmr))
  BY <1>2, <1>4, <1>5, FmrsOfTypes
<1>7. Append(output.records, Stored(fmr)) \in Seq(FileFmrs)
  BY <1>2, <1>6, AppendProperties
<1> QED
  BY <1>1, <1>2, <1>6, <1>7, FileTypes

LEMMA ConvertType9Keeps ==
  ASSUME Control, ConvertType9
  PROVE  Control'
<1>1. pc = "type9" /\ at <= Len(file.records) /\ plan # <<>> /\ at \in Nat
  BY Running DEF ConvertType9, Control, Typed, MkTyped
<1>2. CASE /\ at' = at + 1 /\ output' \in Files /\ output'.kind = "fmr"
           /\ UNCHANGED <<plan, other, file, pc, ifmr, ofmr, fmr_length, ansi_nist,
                          log, texts, with, made, total_length, stage>>
  <2>1. Typed'
    BY <1>1, <1>2 DEF Control, Typed, MkTyped
  <2>2. InPlace'
    BY <1>1, <1>2, SamePlan DEF Control, InPlace
  <2>3. TextFirst'
    BY <1>2 DEF Control, TextFirst
  <2> QED
    BY <2>1, <2>2, <2>3 DEF Control
<1>3. CASE file.records[at].type # 9
  BY <1>1, <1>2, <1>3 DEF ConvertType9, toolVars, Control, Typed, InPlace
<1>4. CASE file.records[at].type = 9
  <2>1. PICK fmr \in FmrsOf(file, file.records[at], ViewNumber(at)) :
          LET written == Fmr(Append(output.records, Stored(fmr)))
          IN \/ /\ output' = written /\ at' = at + 1
                /\ UNCHANGED <<plan, other, file, pc, ifmr, ofmr, fmr_length, ansi_nist,
                               log, texts, with, made, total_length, stage>>
             \/ Ends("failure", written, "none")
             \/ \E cut \in CutRecord(Stored(fmr)) : Ends("failure", Fmr(output.records \o cut), "disk")
    BY <1>4 DEF ConvertType9
  <2>2. /\ Stored(fmr) \in FileFmrs /\ output.records \in Seq(FileFmrs)
        /\ Fmr(Append(output.records, Stored(fmr))) \in Files
        /\ Fmr(Append(output.records, Stored(fmr))).kind = "fmr"
    BY <1>1, <1>4, ConvertsType9, FileTypes
  <2>3. CASE \E cut \in CutRecord(Stored(fmr)) : Ends("failure", Fmr(output.records \o cut), "disk")
    <3>1. PICK cut \in CutRecord(Stored(fmr)) : Ends("failure", Fmr(output.records \o cut), "disk")
      BY <2>3
    <3>2. output.records \o cut \in Seq(FileFmrs)
      BY <2>2, CutTypes, ConcatProperties
    <3> QED
      BY <1>1, <3>1, <3>2, FileTypes, EndsKeeps
  <2>4. CASE Ends("failure", Fmr(Append(output.records, Stored(fmr))), "none")
    BY <1>1, <2>2, <2>4, EndsKeeps
  <2> QED
    BY <1>2, <2>1, <2>2, <2>3, <2>4
<1> QED
  BY <1>3, <1>4

LEMMA StartOverlapKeeps ==
  ASSUME Control, StartOverlap
  PROVE  Control'
<1>1. /\ pc = "ready" /\ plan # <<>> /\ Legal(Prog, Options) /\ Prog = "fmroverlap" /\ Comparable
      /\ at' = 1 /\ pc' = "compare"
      /\ UNCHANGED <<plan, other, file, ifmr, ofmr, fmr_length, ansi_nist, output, log,
                     texts, with, made, total_length, stage>>
  BY DEF StartOverlap, Starts
<1>2. Typed'
  BY <1>1 DEF Control, Typed, MkTyped
<1>3. InPlace'
  BY <1>1, SamePlan DEF Control, InPlace
<1>4. TextFirst'
  BY <1>1 DEF Control, TextFirst
<1> QED
  BY <1>2, <1>3, <1>4 DEF Control

LEMMA OverlapKeeps ==
  ASSUME Control, CompareViews \/ PairMinutiae \/ ComparedViews
  PROVE  Control'
<1>1. /\ pc \in {"compare", "pairing"} /\ pc' \in {"compare", "pairing"} /\ at' \in {at, at + 1}
      /\ UNCHANGED <<plan, other, file, ifmr, ofmr, fmr_length, ansi_nist, output, log,
                     texts, with, made, total_length, stage>>
  <2>1. CASE CompareViews
    BY <2>1 DEF CompareViews
  <2>2. CASE PairMinutiae
    BY <2>2 DEF PairMinutiae, toolVars, mkfmrVars
  <2>3. CASE ComparedViews
    BY <2>3 DEF ComparedViews
  <2> QED
    BY <2>1, <2>2, <2>3
<1>2. at \in Nat /\ at # 0
  BY <1>1 DEF Control, Typed, MkTyped, InPlace
<1>3. Typed'
  BY <1>1, <1>2 DEF Control, Typed, MkTyped
<1>4. InPlace'
  BY <1>1, <1>2, SamePlan DEF Control, InPlace
<1>5. TextFirst'
  BY <1>1 DEF Control, TextFirst
<1> QED
  BY <1>3, <1>4, <1>5 DEF Control

LEMMA VerifyKeeps ==
  ASSUME Control, StartFmrv \/ VerifyRecord
  PROVE  Control'
<1>1. CASE StartFmrv
  <2>1. /\ pc = "ready" /\ plan # <<>> /\ Legal(Prog, Options) /\ Prog = "fmrv"
        /\ total_length' = 0 /\ at' = 1 /\ pc' = "verify"
        /\ UNCHANGED <<plan, other, file, ifmr, ofmr, fmr_length, ansi_nist, output, log,
                       texts, with, made, stage>>
    BY <1>1 DEF StartFmrv, Starts
  <2>2. Typed'
    BY <2>1 DEF Control, Typed, MkTyped
  <2>3. InPlace'
    BY <2>1, SamePlan DEF Control, InPlace
  <2>4. TextFirst'
    BY <2>1 DEF Control, TextFirst
  <2> QED
    BY <2>2, <2>3, <2>4 DEF Control
<1>2. CASE VerifyRecord
  <2>1. /\ pc = "verify" /\ file.kind = "fmr" /\ at \in DOMAIN file.records
        /\ total_length' = (total_length + file.records[at].record_length) % UintModulus
        /\ at' = at + 1
        /\ UNCHANGED <<plan, other, file, pc, ifmr, ofmr, fmr_length, ansi_nist, output, log,
                       texts, with, made, stage>>
    BY <1>2 DEF VerifyRecord, Verifying, toolVars
  <2>2. file.records \in Seq(FileFmrs) /\ at \in Nat /\ total_length \in Nat
    BY <2>1, FileTypes DEF Control, Typed, MkTyped
  <2>3. file.records[at].record_length \in Nat
    BY <2>1, <2>2 DEF FileFmrs, Fmrs
  <2>4. total_length' \in Nat /\ at' \in Nat
    <3>1. total_length + file.records[at].record_length \in Nat
      BY <2>2, <2>3
    <3> QED
      BY <2>1, <2>2, <3>1, UintAssumption, Wraps
  <2>5. Typed'
    BY <2>1, <2>4 DEF Control, Typed, MkTyped
  <2>6. InPlace'
    <3>1. /\ pc = "verify" /\ pc' = "verify" /\ InPlace
          /\ UNCHANGED <<plan, other, file, ifmr, ofmr, ansi_nist, output, made, stage>>
      BY <2>1 DEF Control
    <3>2. at' # 0
      BY <2>1, <2>2
    <3>3. plan # <<>> /\ Legal(Prog, Options) /\ stage = "none" /\ Prog = "fmrv" /\ output = NoFile
      BY <3>1 DEF InPlace
    <3>4. ofmr = NoRecord /\ ifmr = NoRecord /\ ansi_nist = NewAnsi /\ made = NoRecord
      BY <3>1 DEF InPlace
    <3> QED
      BY <3>1, <3>2, <3>3, <3>4, SamePlan DEF InPlace
  <2>7. TextFirst'
    BY <2>1 DEF Control, TextFirst
  <2> QED
    BY <2>5, <2>6, <2>7 DEF Control
<1> QED
  BY <1>1, <1>2

LEMMA StutterKeeps ==
  ASSUME Control, UNCHANGED vars
  PROVE  Control'
<1>1. UNCHANGED <<plan, other, file, pc, ifmr, ofmr, fmr_length, ansi_nist, output, log,
                  texts, with, made, total_length, stage, at>>
  BY DEF vars, toolVars, mkfmrVars
<1>2. Typed'
  BY <1>1 DEF Control, Typed, MkTyped
<1>3. PICK source : source = file.texts
  OBVIOUS
<1>4. MadeOf(source) => MadeOf(source)'
  BY <1>1 DEF MadeOf, LeftOf, CountedSo, ToldSo
<1>5. MadeOf(file.texts) => MadeOf(file.texts)'
  BY <1>1, <1>3, <1>4
<1>6. InPlace'
  BY <1>1, <1>5, SamePlan DEF Control, InPlace
<1>7. TextFirst'
  BY <1>1 DEF Control, TextFirst
<1> QED
  BY <1>2, <1>6, <1>7 DEF Control

LEMMA StepKeeps ==
  ASSUME Control, [Next]_vars
  PROVE  Control'
<1>1. CASE OptionError \/ CannotRead \/ NoMemory \/ LoadFails \/ NotValid \/ NoImage \/ Refuse
  BY <1>1, FailureKeeps
<1>2. CASE WriteAn2k \/ An2k2fmrEnds \/ OverlapEnds \/ VerifyEnds
  BY <1>2, SuccessKeeps
<1>3. CASE Filter
  BY <1>3, FilterKeeps
<1>4. CASE StartMkfmr \/ LoadNext \/ WriteMade
  BY <1>4, MakeKeeps
<1>5. CASE StartFmr2an2k \/ ConvertView \/ StartAn2k2fmr \/ ConvertType9
  BY <1>5, StartCardKeeps, ConvertViewKeeps, StartAn2k2fmrKeeps, ConvertType9Keeps
<1>6. CASE StartOverlap \/ CompareViews \/ PairMinutiae \/ ComparedViews
  BY <1>6, StartOverlapKeeps, OverlapKeeps
<1>7. CASE StartFmrv \/ VerifyRecord
  BY <1>7, VerifyKeeps
<1>8. CASE Finished \/ UNCHANGED vars
  BY <1>8, StutterKeeps DEF Finished
<1> QED
  BY <1>1, <1>2, <1>3, <1>4, <1>5, <1>6, <1>7, <1>8 DEF Next, Make, Exchange, Overlap, Verify

LEMMA InitControl ==
  ASSUME Init
  PROVE  Control
<1>1. PICK s \in Sessions : plan = s.plan /\ file = s.original /\ other = s.other
  BY DEF Init
<1>2. /\ plan \in Seq(Runs) /\ file \in Files /\ other \in Files
      /\ \A k \in DOMAIN plan : plan[k].prog = "mkfmr" => k = 1 /\ file.kind = "text"
  BY <1>1, SessionsAssumption
<1>3. NoRecord \in FileFmrs /\ NoRecord \in Fmrs
  BY NoRecordType DEF FileFmrs
<1>4. [f \in TextFiles |-> <<>>] \in [TextFiles -> Seq(Nat)] /\ <<>> \in Seq(Entries)
  OBVIOUS
<1>5. Typed
  BY <1>2, <1>3, <1>4, AddTypes, FileTypes DEF Init, Typed, MkTyped
<1>6. InPlace
  BY DEF Init, InPlace
<1> QED
  BY <1>2, <1>5, <1>6 DEF Control, TextFirst

\* Each program has open what its options make it read and write, and its files have records
\* that can be read back (the main of each program).
THEOREM ControlInvariant == Spec => []Control
<1>1. Init => Control
  BY InitControl
<1>2. Control /\ [Next]_vars => Control'
  BY StepKeeps
<1> QED
  BY <1>1, <1>2, PTL DEF Spec

\* What Control says of TypeOK.
LEMMA TypeOKFollows ==
  ASSUME Control
  PROVE  TypeOK
<1>1. Len(ofmr.views) <= Len(ifmr.views)
  <2>1. CASE pc = "views"
    BY <2>1 DEF Control, InPlace
  <2>2. CASE pc # "views"
    <3>1. ofmr.views = <<>>
      BY <2>2 DEF Control, InPlace, NoRecord
    <3>2. Len(ifmr.views) \in Nat /\ Len(ofmr.views) = 0
      BY <3>1, MinutiaeLens DEF Control, Typed, FileFmrs
    <3> QED
      BY <3>1, <3>2
  <2> QED
    BY <2>1, <2>2
<1>2. \A k \in DOMAIN log : log[k].prog \in Programs /\ log[k].status \in {"success", "failure"}
  <2>1. log \in Seq(Entries)
    BY DEF Control, Typed
  <2>2. \A k \in DOMAIN log : log[k] \in Entries
    BY <2>1
  <2>3. \A e \in Entries : e.prog \in Programs /\ e.status \in {"success", "failure"}
    BY DEF Entries
  <2> QED
    BY <2>2, <2>3
<1>3. pc # "ready" => plan # <<>> /\ (output = NoFile <=> Prog \in {"fmroverlap", "fmrv"})
  BY FileTypes DEF Control, Typed, InPlace, Filters
<1> QED
  BY <1>1, <1>2, <1>3 DEF Control, Typed, MkTyped, InPlace, TypeOK

\* The variables have their types; a program has a file to write while it runs, unless it is
\* fmroverlap or fmrv, and no view is written that was not read.
THEOREM TypeCorrect == Spec => []TypeOK
  BY ControlInvariant, TypeOKFollows, PTL

-----------------------------------------------------------------------------
(* What a program that has ended did, by its entry in the log.             *)

BareBytesOf(record) == [v \in DOMAIN record.views |-> BareLength(record.views[v])]

\* The record made so far of the one read.
Filtering ==
  pc = "views" =>
    /\ ofmr = [ifmr EXCEPT !.views = ofmr.views]
    /\ \A v \in DOMAIN ofmr.views : Makes(Head(plan), ifmr.views[v], ofmr.views[v])
    /\ Prog \in {"fmrprune", "fmrsort"} => fmr_length = HeaderOf(ifmr) + SumFunction(BareBytesOf(ofmr))

\* A record made of another one, and the entry of a filter.
FilteredTo(e, source, record) ==
  /\ record \in Fmrs
  /\ record = [source EXCEPT !.views = record.views, !.record_length = record.record_length]
  /\ Len(record.views) = Len(source.views)
  /\ \A v \in DOMAIN source.views : Makes(e, source.views[v], record.views[v])
  /\ e.prog \in {"fmrprune", "fmrsort"} =>
       record.record_length = HeaderOf(source) + SumFunction(BareBytesOf(record))
  /\ e.prog \notin {"fmrprune", "fmrsort"} => record.record_length = source.record_length

FilterDone(e) ==
  /\ e.from.kind = "fmr" /\ HasViews(e.from) /\ Legal(e.prog, e.o)
  /\ \E record \in Fmrs : e.to = Fmr(<<Stored(record)>>) /\ FilteredTo(e, Source(e), record)

\* The record that mkfmr makes of these texts, and its entry.
MadeFrom(source, record) ==
  /\ record.long = FALSE /\ Len(record.views) = record.num_views
  /\ record.num_views = uchar(Hexadecimal(NumberAt(source["hdr"], 6)))
  /\ record.record_length = SMALL_HEADER + SumFunction(Counted(record, "write", 1))
  /\ \A v \in DOMAIN record.views :
       /\ Told(record.views[v], v, source["fvmr"]) /\ FedsTrue(record.views[v])
       /\ Filled(record.views[v], MinutiaeBefore(record, v), source["xyt"])

MakeDone(e) ==
  /\ e.from.kind = "text"
  /\ \E record \in Fmrs : e.to = Fmr(<<Stored(record)>>) /\ MadeFrom(e.from.texts, record)

\* The records that an2k2fmr makes.
Carding == pc = "type9" => \A k \in DOMAIN output.records : An2kTrue(output.records[k])
CardDone(e) == \A k \in DOMAIN e.to.records : An2kTrue(e.to.records[k])

\* fmrv has gone through n records of these, all of them good.
GoodRecord(record) == Whole(record) /\ Conforms(record)
Upto(records, n) == [k \in 1 .. n |-> records[k].record_length]
Through(records, n) ==
  n \in Nat /\ n <= Len(records) /\ \A k \in 1 .. n : GoodRecord(records[k])

VerifyingInv ==
  pc = "verify" /\ file.kind = "fmr" =>
    /\ at \in Nat /\ at >= 1 /\ Through(file.records, at - 1)
    /\ total_length = SumFunction(Upto(file.records, at - 1)) % UintModulus

Accepts(records, n) == n > 0 /\ SumFunction(Upto(records, n)) >= FileBytes(records)
Refuses(records, n) ==
  \/ n = 0 /\ FileBytes(records) <= 0
  \/ /\ SumFunction(Upto(records, n)) % UintModulus < FileBytes(records)
     /\ n = Len(records) \/ ~ GoodRecord(records[n + 1])

VerifyDone(e) ==
  IF e.from.kind = "fmr"
    THEN \E n \in Nat : /\ Through(e.from.records, n)
                        /\ e.status = "success" => Accepts(e.from.records, n)
                        /\ e.status = "failure" => Refuses(e.from.records, n)
    ELSE e.status = "failure"

Done(e) ==
  /\ WellMade(e) => e.prog \in Filters \cup {"mkfmr", "an2k2fmr"}
  /\ WellMade(e) /\ e.prog \in Filters => FilterDone(e)
  /\ WellMade(e) /\ e.prog = "mkfmr" => MakeDone(e)
  /\ WellMade(e) /\ e.prog = "an2k2fmr" => CardDone(e)
  /\ e.prog = "fmrv" /\ e.fault = "none" => VerifyDone(e)
AllDone == \A k \in DOMAIN log : Done(log[k])

Progress == Filtering /\ Carding /\ VerifyingInv
DoneInv  == Control /\ Progress /\ AllDone

\* The entry of the program that runs.
Entry(status, leaves, fault) ==
  [prog |-> Prog, o |-> Options, from |-> file, to |-> leaves, status |-> status, fault |-> fault]

LEMMA EndsDone ==
  ASSUME DoneInv, plan # <<>>, NEW status \in {"success", "failure"}, NEW leaves \in Files,
         NEW fault \in {"none", "memory", "disk"}, Ends(status, leaves, fault),
         Done(Entry(status, leaves, fault))
  PROVE  DoneInv'
<1>1. Control'
  BY EndsKeeps DEF DoneInv
<1>2. Progress'
  BY DEF Ends, Progress, Filtering, Carding, VerifyingInv
<1>3. log \in Seq(Entries) /\ file \in Files /\ plan \in Seq(Runs)
  BY DEF DoneInv, Control, Typed
<1>4. PICK e \in Entries : e = Entry(status, leaves, fault)
  BY <1>3, EntryTypes DEF Entry
<1>5. log' = Append(log, e)
  BY <1>4 DEF Ends, Entry
<1>6. \A k \in DOMAIN log' : (k \in DOMAIN log /\ log'[k] = log[k]) \/ log'[k] = e
  BY <1>3, <1>4, <1>5, AppendProperties
<1>7. AllDone'
  <2>1. \A k \in DOMAIN log' : Done(log'[k])
    BY <1>4, <1>6 DEF DoneInv, AllDone
  <2> QED
    BY <2>1 DEF AllDone
<1> QED
  BY <1>1, <1>2, <1>7 DEF DoneInv

\* Most endings need nothing more.
LEMMA OtherEnds ==
  ASSUME Control, plan # <<>>, NEW status \in {"success", "failure"}, NEW leaves \in Files,
         NEW fault \in {"none", "memory", "disk"},
         status = "failure" \/ leaves.kind # "fmr" \/ fault # "none",
         Prog # "fmrv" \/ fault # "none"
  PROVE  Done(Entry(status, leaves, fault))
  BY DEF Done, Entry, WellMade

LEMMA FailureDone ==
  ASSUME DoneInv, OptionError \/ CannotRead \/ NoMemory \/ LoadFails \/ NotValid \/ NoImage
  PROVE  DoneInv'
<1>1. (pc = "ready" /\ plan # <<>>) \/ pc # "ready"
  BY DEF OptionError, CannotRead, Starts, NoMemory, LoadFails, NotValid, NoImage
<1>2. plan # <<>>
  BY <1>1, Running DEF DoneInv
<1>3. \/ /\ Prog # "fmrv"
         /\ Ends("failure", NoFile, "none") \/ Ends("failure", Empty, "none")
            \/ Ends("failure", output, "none")
      \/ Ends("failure", output, "memory")
  <2>1. CASE OptionError
    BY <2>1 DEF OptionError, Legal
  <2>2. CASE CannotRead
    BY <2>2 DEF CannotRead, Filters
  <2>3. CASE NoMemory
    BY <2>3 DEF NoMemory
  <2>4. CASE LoadFails
    BY <2>4 DEF LoadFails, DoneInv, Control, InPlace
  <2>5. CASE NotValid
    BY <2>5 DEF NotValid
  <2>6. CASE NoImage
    BY <2>6 DEF NoImage, DoneInv, Control, InPlace
  <2> QED
    BY <2>1, <2>2, <2>3, <2>4, <2>5, <2>6
<1> QED
  BY <1>2, <1>3, Running, OtherEnds, EndsDone DEF DoneInv

\* A disk that is full leaves no record to speak of.
LEMMA WritesDone ==
  ASSUME DoneInv, plan # <<>>, Prog # "fmrv", NEW record \in Fmrs, Writes(record),
         Done(Entry("success", Fmr(<<Stored(record)>>), "none"))
  PROVE  DoneInv'
<1>1. Stored(record) \in FileFmrs
  BY StoredFields
<1>2. CASE Ends("success", Fmr(<<Stored(record)>>), "none")
  <2>1. <<Stored(record)>> \in Seq(FileFmrs)
    BY <1>1
  <2>2. Fmr(<<Stored(record)>>) \in Files
    BY <2>1, FileTypes
  <2> QED
    BY <1>2, <2>2, EndsDone
<1>3. CASE \E cut \in CutRecord(Stored(record)) : Ends("success", Fmr(cut), "disk")
  <2>1. PICK cut \in CutRecord(Stored(record)) : Ends("success", Fmr(cut), "disk")
    BY <1>3
  <2>2. Fmr(cut) \in Files
    BY <1>1, CutTypes, FileTypes
  <2>3. Done(Entry("success", Fmr(cut), "disk"))
    BY <2>2, OtherEnds DEF DoneInv
  <2> QED
    BY <2>1, <2>2, <2>3, EndsDone
<1> QED
  BY <1>2, <1>3 DEF Writes

LEMMA CardEndsDone ==
  ASSUME DoneInv, WriteAn2k \/ An2k2fmrEnds \/ OverlapEnds
  PROVE  DoneInv'
<1>1. pc # "ready" /\ plan # <<>>
  BY Running DEF WriteAn2k, An2k2fmrEnds, OverlapEnds, DoneInv
<1>2. CASE An2k2fmrEnds
  <2>1. pc = "type9" /\ Prog = "an2k2fmr" /\ Ends("success", output, "none") /\ output \in Files
    BY <1>2 DEF An2k2fmrEnds, DoneInv, Control, InPlace, Typed
  <2>2. CardDone(Entry("success", output, "none"))
    BY <2>1 DEF DoneInv, Progress, Carding, CardDone, Entry
  <2>3. Done(Entry("success", output, "none"))
    BY <2>1, <2>2 DEF Done, Entry, Filters
  <2> QED
    BY <1>1, <2>1, <2>3, EndsDone
<1>3. CASE WriteAn2k
  <2>1. An2k(ansi_nist) \in Files /\ An2k(ansi_nist).kind # "fmr" /\ Prog # "fmrv"
    BY <1>3, FileTypes DEF Ansis, DoneInv, Control, Typed, InPlace, WriteAn2k
  <2> QED
    BY <1>1, <1>3, <2>1, FileTypes, OtherEnds, EndsDone DEF WriteAn2k, DoneInv
<1>4. CASE OverlapEnds
  <2>1. Prog # "fmrv"
    BY <1>4 DEF DoneInv, Control, InPlace, OverlapEnds
  <2> QED
    BY <1>1, <1>4, <2>1, FileTypes, OtherEnds, EndsDone DEF OverlapEnds, DoneInv
<1> QED
  BY <1>2, <1>3, <1>4

LEMMA UptoSum ==
  ASSUME NEW records \in Seq(FileFmrs), NEW n \in Nat, n <= Len(records)
  PROVE  SumFunction(Upto(records, n)) \in Nat
<1>1. DOMAIN records = 1 .. Len(records) /\ Len(records) \in Nat
  BY LenProperties
<1>2. \A k \in 1 .. n : k \in DOMAIN records
  BY <1>1
<1>3. \A k \in 1 .. n : records[k].record_length \in Nat
  BY <1>2, ElementOfSeq, <1>1 DEF FileFmrs, Fmrs
<1>4. DOMAIN Upto(records, n) = 1 .. n /\ \A k \in 1 .. n : Upto(records, n)[k] \in Nat
  BY <1>3 DEF Upto
<1> QED
  BY <1>4, SumType

LEMMA VerifyEndsDone ==
  ASSUME DoneInv, Refuse \/ VerifyEnds
  PROVE  DoneInv'
<1>1. pc = "verify" /\ plan # <<>> /\ Prog = "fmrv" /\ file \in Files
  BY Running DEF Refuse, VerifyEnds, Verifying, DoneInv, Control, InPlace, Typed
<1>2. CASE file.kind # "fmr"
  <2>1. Ends("failure", NoFile, "none")
    BY <1>2 DEF Refuse, VerifyEnds
  <2>2. Done(Entry("failure", NoFile, "none"))
    BY <1>2 DEF Done, VerifyDone, Entry, WellMade
  <2> QED
    BY <1>1, <2>1, <2>2, FileTypes, EndsDone
<1>3. CASE file.kind = "fmr"
  <2> DEFINE records == file.records
             n == at - 1
             good(status) == /\ status = "success" => Accepts(records, n)
                             /\ status = "failure" => Refuses(records, n)
  <2>1. records \in Seq(FileFmrs) /\ DOMAIN records = 1 .. Len(records) /\ Len(records) \in Nat
    BY <1>1, <1>3, FileTypes
  <2>2. /\ Through(records, n) /\ total_length = SumFunction(Upto(records, n)) % UintModulus
        /\ n \in Nat /\ at = n + 1
    BY <1>1, <1>3 DEF DoneInv, Progress, VerifyingInv
  <2>3. FileBytes(records) \in Int
    <3>1. \A k \in 1 .. Len(records) : RecordBytes(records[k]) \in Nat
      <4>1. \A k \in 1 .. Len(records) : records[k] \in Fmrs
        BY <2>1, ElementOfSeq DEF FileFmrs
      <4> QED
        BY <4>1, RecordSums
    <3> DEFINE w == [k \in DOMAIN records |-> RecordBytes(records[k])]
    <3>2. FileBytes(records) = SumFunction(w)
      BY DEF FileBytes, SumOf
    <3>3. DOMAIN w = 1 .. Len(records) /\ \A k \in 1 .. Len(records) : w[k] \in Nat
      BY <2>1, <3>1
    <3> HIDE DEF w
    <3> QED
      BY <2>1, <3>2, <3>3, SumType
  <2>4. ASSUME NEW status \in {"success", "failure"}, Ends(status, NoFile, "none"), good(status)
        PROVE  DoneInv'
    <3>1. VerifyDone(Entry(status, NoFile, "none"))
      BY <1>3, <2>2, <2>4 DEF VerifyDone, Entry
    <3>2. Done(Entry(status, NoFile, "none"))
      BY <1>1, <3>1 DEF Done, Entry, WellMade, Filters, NoFile
    <3> QED
      BY <1>1, <2>4, <3>2, FileTypes, EndsDone
  <2>5. CASE Refuse
    <3>1. /\ Verifying /\ Ends("failure", NoFile, "none")
          /\ \/ at \notin DOMAIN records \/ ~ GoodRecord(records[at])
      BY <1>3, <2>5 DEF Refuse, GoodRecord
    <3>2. total_length < FileBytes(records)
      BY <3>1 DEF Verifying
    <3>3. n = Len(records) \/ ~ GoodRecord(records[n + 1])
      BY <2>1, <2>2, <3>1 DEF Through
    <3>4. Refuses(records, n)
      BY <2>2, <3>2, <3>3 DEF Refuses
    <3> QED
      BY <2>4, <3>1, <3>4
  <2>6. CASE VerifyEnds
    <3>1. ~ (total_length < FileBytes(records)) /\ ~ Verifying
      BY <1>1, <1>3, <2>6 DEF VerifyEnds, Verifying
    <3>2. CASE at = 1
      <4>1. Ends("failure", NoFile, "none")
        BY <2>6, <3>2 DEF VerifyEnds
      <4>2. n = 0 /\ SumFunction(Upto(records, n)) = 0
        <5>1. DOMAIN Upto(records, 0) = {}
          BY DEF Upto
        <5> QED
          BY <2>2, <3>2, <5>1, SumType
      <4>3. total_length = 0
        BY <2>2, <4>2, UintAssumption, Wraps
      <4>4. FileBytes(records) <= 0
        BY <2>3, <3>1, <4>3
      <4>5. Refuses(records, n)
        BY <4>2, <4>4 DEF Refuses
      <4> QED
        BY <2>4, <4>1, <4>5
    <3>3. CASE at # 1
      <4>1. Ends("success", NoFile, "none")
        BY <2>6, <3>3 DEF VerifyEnds
      <4>2. n > 0
        BY <2>2, <3>3
      <4>3. SumFunction(Upto(records, n)) \in Nat
        BY <2>1, <2>2, UptoSum DEF Through
      <4>4. PICK sum \in Nat : sum = SumFunction(Upto(records, n))
        BY <4>3
      <4>5. total_length = sum % UintModulus /\ sum % UintModulus \in Nat /\ sum % UintModulus <= sum
        BY <2>2, <4>4, UintAssumption, Wraps
      <4>6. sum >= FileBytes(records)
        BY <2>3, <3>1, <4>5
      <4>7. Accepts(records, n)
        BY <4>2, <4>4, <4>6 DEF Accepts
      <4> QED
        BY <2>4, <4>1, <4>7
    <3> QED
      BY <3>2, <3>3
  <2> QED
    BY <2>5, <2>6
<1> QED
  BY <1>2, <1>3

LEMMA MakesSame ==
  ASSUME NEW e, NEW f, e.prog = f.prog, e.o = f.o, NEW old, NEW new, Makes(e, old, new)
  PROVE  Makes(f, old, new)
  BY DEF Makes

LEMMA BareBytesTypes ==
  ASSUME NEW record \in Fmrs
  PROVE  /\ DOMAIN BareBytesOf(record) = 1 .. Len(record.views) /\ Len(record.views) \in Nat
         /\ \A v \in 1 .. Len(record.views) :
              BareBytesOf(record)[v] = BareLength(record.views[v]) /\ BareBytesOf(record)[v] \in Nat
         /\ SumFunction(BareBytesOf(record)) \in Nat
         /\ record.views = <<>> => SumFunction(BareBytesOf(record)) = 0
<1>1. DOMAIN record.views = 1 .. Len(record.views) /\ Len(record.views) \in Nat
  BY MinutiaeLens
<1>2. \A v \in 1 .. Len(record.views) : BareLength(record.views[v]) \in Nat
  BY MinutiaeLens, BareLengthTypes
<1>3. /\ DOMAIN BareBytesOf(record) = 1 .. Len(record.views)
      /\ \A v \in 1 .. Len(record.views) :
           BareBytesOf(record)[v] = BareLength(record.views[v]) /\ BareBytesOf(record)[v] \in Nat
  BY <1>1, <1>2 DEF BareBytesOf
<1>4. SumFunction(BareBytesOf(record)) \in Nat
  BY <1>1, <1>3, SumType
<1>5. record.views = <<>> => Len(record.views) = 0
  BY EmptySeq
<1>6. Len(record.views) = 0 => SumFunction(BareBytesOf(record)) = 0
  BY <1>1, <1>3, SumType
<1> QED
  BY <1>1, <1>3, <1>4, <1>5, <1>6

LEMMA StartFilterProgress ==
  ASSUME DoneInv, StartFilter
  PROVE  Progress'
<1>1. /\ pc' = "views" /\ ifmr' = Head(file.records) /\ ofmr' = [ifmr' EXCEPT !.views = <<>>]
      /\ fmr_length' = HeaderOf(ifmr')
  BY DEF StartFilter
<1>2. PICK old : old = ifmr'
  OBVIOUS
<1>3. PICK new : new = ofmr'
  OBVIOUS
<1>4. old \in Fmrs /\ new \in Fmrs
  <2>1. Control'
    BY StartFilterKeeps DEF DoneInv
  <2> QED
    BY <1>2, <1>3, <2>1 DEF Control, Typed, FileFmrs
<1>5. new = [old EXCEPT !.views = <<>>]
  BY <1>1, <1>2, <1>3
<1>6. new.views = <<>> /\ new = [old EXCEPT !.views = new.views]
  BY <1>4, <1>5 DEF Fmrs
<1>7. SumFunction(BareBytesOf(new)) = 0 /\ HeaderOf(old) \in Nat
  BY <1>4, <1>6, BareBytesTypes DEF HeaderOf, SMALL_HEADER, LARGE_HEADER
<1>8. HeaderOf(old) = HeaderOf(old) + SumFunction(BareBytesOf(new))
  BY <1>7
<1>9. DOMAIN new.views = {}
  BY <1>6
<1>10. Filtering'
  BY <1>1, <1>2, <1>3, <1>6, <1>8, <1>9 DEF Filtering
<1> QED
  BY <1>1, <1>10 DEF Progress, Carding, VerifyingInv

LEMMA FiltersViewProgress ==
  ASSUME DoneInv, FiltersView
  PROVE  DoneInv'
<1>1. pc = "views" /\ Len(ofmr.views) < Len(ifmr.views)
  BY FiltersOneView DEF DoneInv
<1>2. PICK view \in Fvmrs :
        /\ AddView(view) /\ Makes(Head(plan), View, view)
        /\ IF Prog \in {"fmrprune", "fmrsort"} THEN fmr_length' = fmr_length + BareLength(view)
                                               ELSE fmr_length' = fmr_length
  BY FiltersOneView DEF DoneInv
<1>3. /\ ofmr' = [ofmr EXCEPT !.views = Append(@, view)]
      /\ UNCHANGED <<plan, other, file, pc, ifmr, ansi_nist, output, log, mkfmrVars>>
  BY <1>2 DEF AddView
<1>4. ofmr \in Fmrs /\ ifmr \in Fmrs /\ fmr_length \in Nat /\ View = ifmr.views[Len(ofmr.views) + 1]
  BY <1>1, FilterViewTypes DEF DoneInv, Control, Typed, FileFmrs
<1>5. PICK old, new, source, n : old = ofmr /\ new = ofmr' /\ source = ifmr /\ n = Len(ofmr.views)
  OBVIOUS
<1>6. /\ new \in Fmrs /\ new.long = old.long /\ new.num_views = old.num_views
      /\ Len(new.views) = n + 1 /\ DOMAIN new.views = 1 .. n + 1 /\ n \in Nat
      /\ new.views[n + 1] = view /\ \A k \in 1 .. n : new.views[k] = old.views[k]
  BY <1>3, <1>4, <1>5, OneMoreView, MinutiaeLens
<1>7. /\ old = [source EXCEPT !.views = old.views]
      /\ \A v \in DOMAIN old.views : Makes(Head(plan), source.views[v], old.views[v])
      /\ Prog \in {"fmrprune", "fmrsort"} =>
           fmr_length = HeaderOf(source) + SumFunction(BareBytesOf(old))
  BY <1>1, <1>5 DEF DoneInv, Progress, Filtering
<1>8. new = [source EXCEPT !.views = new.views]
  <2>1. new = [old EXCEPT !.views = new.views]
    BY <1>3, <1>4, <1>5 DEF Fmrs
  <2> QED
    BY <1>4, <1>5, <1>7, <2>1 DEF Fmrs
<1>9. \A v \in DOMAIN new.views : Makes(Head(plan), source.views[v], new.views[v])
  <2>1. DOMAIN old.views = 1 .. n
    BY <1>4, <1>5, MinutiaeLens
  <2>2. \A v \in 1 .. n + 1 : v \in 1 .. n \/ v = n + 1
    BY <1>6
  <2> QED
    BY <1>2, <1>4, <1>5, <1>6, <1>7, <2>1, <2>2
<1>10. SumFunction(BareBytesOf(new)) = SumFunction(BareBytesOf(old)) + BareLength(view)
  <2>1. /\ DOMAIN BareBytesOf(old) = 1 .. n /\ DOMAIN BareBytesOf(new) = 1 .. n + 1
        /\ \A k \in 1 .. n : BareBytesOf(old)[k] = BareLength(old.views[k])
        /\ \A k \in 1 .. n + 1 : BareBytesOf(new)[k] = BareLength(new.views[k]) /\ BareBytesOf(new)[k] \in Nat
    BY <1>4, <1>5, <1>6, BareBytesTypes
  <2>2. n + 1 \in 1 .. n + 1 /\ \A k \in 1 .. n : k \in 1 .. n + 1
    BY <1>6
  <2>3. \A k \in 1 .. n : BareBytesOf(new)[k] = BareBytesOf(old)[k]
    BY <1>6, <2>1, <2>2
  <2>4. Weights(BareBytesOf(new), n + 1) /\ BareBytesOf(new)[n + 1] = BareLength(view)
    BY <1>6, <2>1, <2>2 DEF Weights
  <2> QED
    BY <1>6, <2>1, <2>3, <2>4, SumGrows
<1>11. Prog \in {"fmrprune", "fmrsort"} => fmr_length' = HeaderOf(source) + SumFunction(BareBytesOf(new))
  <2>1. SumFunction(BareBytesOf(old)) \in Nat /\ BareLength(view) \in Nat /\ HeaderOf(source) \in Nat
    BY <1>4, <1>5, BareBytesTypes, BareLengthTypes DEF HeaderOf, SMALL_HEADER, LARGE_HEADER
  <2> QED
    BY <1>2, <1>7, <1>10, <2>1
<1>12. Prog' = Prog
  BY <1>3 DEF Prog
<1>13. Filtering'
  BY <1>3, <1>5, <1>8, <1>9, <1>11, <1>12 DEF Filtering
<1>14. Progress'
  BY <1>1, <1>3, <1>13 DEF Progress, Carding, VerifyingInv
<1>15. AllDone'
  BY <1>3 DEF DoneInv, AllDone
<1>16. Control'
  BY FilterKeeps DEF DoneInv, Filter, FiltersView
<1> QED
  BY <1>14, <1>15, <1>16 DEF DoneInv

LEMMA WriteFilteredDone ==
  ASSUME DoneInv, WriteFiltered
  PROVE  DoneInv'
<1>1. /\ pc = "views" /\ Len(ofmr.views) = Len(ifmr.views) /\ plan # <<>>
      /\ Prog \in Filters /\ HasViews(file) /\ ifmr = Head(file.records) /\ Legal(Prog, Options)
      /\ ofmr \in Fmrs /\ ifmr \in Fmrs /\ fmr_length \in Nat
  BY Running DEF WriteFiltered, DoneInv, Control, InPlace, Typed, FileFmrs
<1>2. PICK record :
        /\ Writes(record)
        /\ record = IF Prog \in {"fmrprune", "fmrsort"} THEN [ofmr EXCEPT !.record_length = fmr_length]
                                                       ELSE ofmr
  BY DEF WriteFiltered
<1>3. /\ record \in Fmrs /\ record.views = ofmr.views
      /\ Prog \in {"fmrprune", "fmrsort"} => record.record_length = fmr_length
      /\ Prog \notin {"fmrprune", "fmrsort"} => record.record_length = ofmr.record_length
      /\ record = [ofmr EXCEPT !.record_length = record.record_length]
  BY <1>1, <1>2 DEF Fmrs
<1>4. PICK e : e = Entry("success", Fmr(<<Stored(record)>>), "none")
  OBVIOUS
<1>5. /\ e.prog = Prog /\ e.o = Options /\ e.from = file /\ e.to = Fmr(<<Stored(record)>>)
      /\ Source(e) = ifmr
  BY <1>1, <1>4 DEF Entry, Source
<1>6. FilteredTo(e, ifmr, record)
  <2>1. /\ ofmr = [ifmr EXCEPT !.views = ofmr.views]
        /\ \A v \in DOMAIN ofmr.views : Makes(Head(plan), ifmr.views[v], ofmr.views[v])
        /\ Prog \in {"fmrprune", "fmrsort"} => fmr_length = HeaderOf(ifmr) + SumFunction(BareBytesOf(ofmr))
    BY <1>1 DEF DoneInv, Progress, Filtering
  <2>2. record = [ifmr EXCEPT !.views = record.views, !.record_length = record.record_length]
    BY <1>1, <1>3, <2>1 DEF Fmrs
  <2>3. \A v \in DOMAIN ifmr.views : Makes(e, ifmr.views[v], record.views[v])
    <3>1. DOMAIN ifmr.views = DOMAIN ofmr.views
      BY <1>1, MinutiaeLens
    <3>2. e.prog = Head(plan).prog /\ e.o = Head(plan).o
      BY <1>5 DEF Prog, Options
    <3> QED
      BY <1>3, <2>1, <3>1, <3>2, MakesSame
  <2>4. BareBytesOf(record) = BareBytesOf(ofmr)
    BY <1>3 DEF BareBytesOf
  <2>5. ofmr.record_length = ifmr.record_length
    BY <1>1, <2>1 DEF Fmrs
  <2>6. Len(record.views) = Len(ifmr.views)
    BY <1>1, <1>3
  <2> QED
    BY <1>3, <1>5, <2>1, <2>2, <2>3, <2>4, <2>5, <2>6 DEF FilteredTo
<1>7. FilterDone(e)
  <2>1. file.kind = "fmr"
    BY <1>1 DEF HasViews, Reads
  <2> QED
    BY <1>1, <1>3, <1>5, <1>6, <2>1 DEF FilterDone
<1>8. Done(e)
  BY <1>1, <1>5, <1>7 DEF Done, Filters
<1>9. Prog # "fmrv"
  BY <1>1 DEF Filters
<1> QED
  BY <1>1, <1>2, <1>3, <1>4, <1>8, <1>9, WritesDone

LEMMA WriteMadeDone ==
  ASSUME DoneInv, WriteMade
  PROVE  DoneInv'
<1>1. /\ pc = "load" /\ stage = "write" /\ plan # <<>> /\ Prog = "mkfmr" /\ file.kind = "text"
      /\ made \in Fmrs /\ total_length \in Nat /\ MadeOf(file.texts)
  BY Running DEF WriteMade, DoneInv, Control, InPlace, Typed, MkTyped
<1>2. PICK record : Writes(record) /\ record = [made EXCEPT !.record_length = total_length]
  BY DEF WriteMade
<1>3. /\ record \in Fmrs /\ record.views = made.views /\ record.record_length = total_length
      /\ record.num_views = made.num_views /\ record.long = made.long
  BY <1>1, <1>2 DEF Fmrs
<1>4. PICK e : e = Entry("success", Fmr(<<Stored(record)>>), "none")
  OBVIOUS
<1>5. e.prog = Prog /\ e.o = Options /\ e.from = file /\ e.to = Fmr(<<Stored(record)>>)
  BY <1>4 DEF Entry
<1>6. PICK source : source = file.texts
  OBVIOUS
<1>7. /\ made.long = FALSE /\ Len(made.views) = made.num_views
      /\ made.num_views = uchar(Hexadecimal(NumberAt(source["hdr"], 6)))
      /\ total_length = SMALL_HEADER + SumFunction(Counted(made, stage, at))
  BY <1>1, <1>6 DEF MadeOf, LeftOf, CountedSo
<1>8. Counted(made, stage, at) = Counted(record, "write", 1)
  <2>1. \A v : FilledIn("write", at, v) = FilledIn("write", 1, v)
    BY DEF FilledIn
  <2>2. \A v : CountedOf(made.views[v], "write", at, v) = CountedOf(made.views[v], "write", 1, v)
    BY <2>1 DEF CountedOf
  <2> QED
    BY <1>1, <1>3, <2>2 DEF Counted
<1>9. ASSUME NEW v \in DOMAIN record.views
      PROVE  /\ Told(record.views[v], v, source["fvmr"]) /\ FedsTrue(record.views[v])
             /\ Filled(record.views[v], MinutiaeBefore(record, v), source["xyt"])
  <2>1. /\ Told(made.views[v], v, source["fvmr"]) /\ FedsTrue(made.views[v])
        /\ Filled(made.views[v], MinutiaeBefore(made, v), source["xyt"])
    BY <1>1, <1>3, <1>6, <1>9 DEF MadeOf, ToldSo, FilledIn
  <2>2. MinutiaeBefore(made, v) = MinutiaeBefore(record, v)
    BY <1>3 DEF MinutiaeBefore
  <2> QED
    BY <1>3, <2>1, <2>2
<1>10. MadeFrom(source, record)
  BY <1>3, <1>7, <1>8, <1>9 DEF MadeFrom
<1>11. Done(e)
  BY <1>1, <1>3, <1>5, <1>6, <1>10 DEF Done, MakeDone, Filters
<1> QED
  BY <1>1, <1>2, <1>3, <1>4, <1>11, WritesDone

\* A step that ends no program.
LEMMA GoesOn ==
  ASSUME DoneInv, Control', Progress', log' = log
  PROVE  DoneInv'
  BY DEF DoneInv, AllDone

LEMMA OtherStepsDone ==
  ASSUME DoneInv,
         \/ StartMkfmr \/ LoadNext \/ StartFmr2an2k \/ ConvertView \/ StartOverlap
         \/ CompareViews \/ PairMinutiae \/ ComparedViews
  PROVE  DoneInv'
<1>1. pc' \notin {"views", "type9", "verify"} /\ log' = log
  <2>1. CASE StartMkfmr
    BY <2>1 DEF StartMkfmr
  <2>2. CASE LoadNext
    BY <2>2 DEF LoadNext, toolVars
  <2>3. CASE StartFmr2an2k
    BY <2>3 DEF StartFmr2an2k
  <2>4. CASE ConvertView
    BY <2>4 DEF ConvertView
  <2>5. CASE StartOverlap
    BY <2>5 DEF StartOverlap
  <2>6. CASE CompareViews
    BY <2>6 DEF CompareViews
  <2>7. CASE PairMinutiae
    BY <2>7 DEF PairMinutiae, toolVars
  <2>8. CASE ComparedViews
    BY <2>8 DEF ComparedViews
  <2> QED
    BY <2>1, <2>2, <2>3, <2>4, <2>5, <2>6, <2>7, <2>8
<1>2. Progress'
  BY <1>1 DEF Progress, Filtering, Carding, VerifyingInv
<1>3. Control'
  BY StepKeeps DEF DoneInv, Next, Make, Exchange, Overlap
<1> QED
  BY <1>1, <1>2, <1>3, GoesOn

LEMMA Type9Done ==
  ASSUME DoneInv, StartAn2k2fmr \/ ConvertType9
  PROVE  DoneInv'
<1>1. Control'
  BY StepKeeps DEF DoneInv, Next, Exchange
<1>2. CASE StartAn2k2fmr
  <2>1. pc' = "type9" /\ output'.records = <<>> /\ log' = log
    BY <1>2, FileTypes DEF StartAn2k2fmr
  <2>2. Progress'
    BY <2>1 DEF Progress, Filtering, Carding, VerifyingInv
  <2> QED
    BY <1>1, <2>1, <2>2, GoesOn
<1>3. CASE ConvertType9 /\ file.records[at].type # 9
  <2>1. pc' = "type9" /\ output' = output /\ log' = log /\ pc = "type9"
    BY <1>3 DEF ConvertType9, toolVars
  <2>2. Progress'
    BY <2>1 DEF DoneInv, Progress, Filtering, Carding, VerifyingInv
  <2> QED
    BY <1>1, <2>1, <2>2, GoesOn
<1>4. CASE ConvertType9 /\ file.records[at].type = 9
  <2>1. PICK fmr \in FmrsOf(file, file.records[at], ViewNumber(at)) :
          LET written == Fmr(Append(output.records, Stored(fmr)))
          IN \/ output' = written /\ pc' = pc /\ log' = log
             \/ Ends("failure", written, "none")
             \/ \E cut \in CutRecord(Stored(fmr)) : Ends("failure", Fmr(output.records \o cut), "disk")
    BY <1>4 DEF ConvertType9
  <2>2. pc = "type9" /\ at <= Len(file.records) /\ Prog = "an2k2fmr" /\ plan # <<>>
    BY <1>4, Running DEF ConvertType9, DoneInv, Control, InPlace
  <2>3. /\ Stored(fmr) \in FileFmrs /\ An2kTrue(Stored(fmr)) /\ output.records \in Seq(FileFmrs)
        /\ Fmr(Append(output.records, Stored(fmr))) \in Files
        /\ Fmr(Append(output.records, Stored(fmr))).records = Append(output.records, Stored(fmr))
    BY <1>4, <2>2, ConvertsType9, FileTypes DEF DoneInv
  <2>4. CASE output' = Fmr(Append(output.records, Stored(fmr))) /\ pc' = pc /\ log' = log
    <3>1. \A k \in DOMAIN output.records : An2kTrue(output.records[k])
      BY <2>2 DEF DoneInv, Progress, Carding
    <3>2. \A k \in DOMAIN output'.records : An2kTrue(output'.records[k])
      <4>1. PICK old, more, one : old = output.records /\ one = Stored(fmr) /\ more = Append(old, one)
        OBVIOUS
      <4>2. \A k \in DOMAIN more : (k \in DOMAIN old /\ more[k] = old[k]) \/ more[k] = one
        BY <2>3, <4>1, AppendProperties
      <4> QED
        BY <2>3, <2>4, <3>1, <4>1, <4>2
    <3>3. Progress'
      BY <2>2, <2>4, <3>2 DEF Progress, Filtering, Carding, VerifyingInv
    <3> QED
      BY <1>1, <2>4, <3>3, GoesOn
  <2>5. CASE Ends("failure", Fmr(Append(output.records, Stored(fmr))), "none")
    BY <2>2, <2>3, <2>5, OtherEnds, EndsDone DEF DoneInv
  <2>6. CASE \E cut \in CutRecord(Stored(fmr)) : Ends("failure", Fmr(output.records \o cut), "disk")
    <3>1. PICK cut \in CutRecord(Stored(fmr)) : Ends("failure", Fmr(output.records \o cut), "disk")
      BY <2>6
    <3>2. output.records \o cut \in Seq(FileFmrs)
      BY <2>3, CutTypes, ConcatProperties
    <3>3. Fmr(output.records \o cut) \in Files
      BY <3>2, FileTypes
    <3> QED
      BY <2>2, <3>1, <3>3, OtherEnds, EndsDone DEF DoneInv
  <2> QED
    BY <2>1, <2>4, <2>5, <2>6
<1> QED
  BY <1>2, <1>3, <1>4

LEMMA VerifyDoneSteps ==
  ASSUME DoneInv, StartFmrv \/ VerifyRecord
  PROVE  DoneInv'
<1>1. Control'
  BY StepKeeps DEF DoneInv, Next, Verify
<1>2. CASE StartFmrv
  <2>1. pc' = "verify" /\ at' = 1 /\ total_length' = 0 /\ log' = log /\ file' = file
    BY <1>2 DEF StartFmrv
  <2>2. file \in Files /\ (file.kind = "fmr" => file.records \in Seq(FileFmrs))
    BY FileTypes DEF DoneInv, Control, Typed
  <2>3. file.kind = "fmr" => Through(file.records, 0)
    <3>1. file.kind = "fmr" => Len(file.records) \in Nat
      BY <2>2
    <3> QED
      BY <3>1 DEF Through
  <2>4. SumFunction(Upto(file.records, 0)) = 0
    <3>1. DOMAIN Upto(file.records, 0) = 1 .. 0
      BY DEF Upto
    <3> QED
      BY <3>1, SumType
  <2>5. at' - 1 = 0 /\ at' \in Nat /\ at' >= 1
    BY <2>1
  <2>6. VerifyingInv'
    <3>1. 0 % UintModulus = 0
      BY UintAssumption, Wraps
    <3> QED
      BY <2>1, <2>3, <2>4, <2>5, <3>1 DEF VerifyingInv
  <2>7. Progress'
    BY <2>1, <2>6 DEF Progress, Filtering, Carding
  <2> QED
    BY <1>1, <2>1, <2>7, GoesOn
<1>3. CASE VerifyRecord
  <2>1. /\ pc = "verify" /\ pc' = "verify" /\ file.kind = "fmr" /\ at \in DOMAIN file.records
        /\ GoodRecord(file.records[at])
        /\ total_length' = (total_length + file.records[at].record_length) % UintModulus
        /\ at' = at + 1 /\ log' = log /\ file' = file
    BY <1>3 DEF VerifyRecord, Verifying, GoodRecord, toolVars
  <2>2. PICK records, n : records = file.records /\ n = at - 1
    OBVIOUS
  <2>3. /\ records \in Seq(FileFmrs) /\ DOMAIN records = 1 .. Len(records) /\ Len(records) \in Nat
    BY <2>1, <2>2, FileTypes DEF DoneInv, Control, Typed
  <2>4. /\ n \in Nat /\ at = n + 1 /\ Through(records, n)
        /\ total_length = SumFunction(Upto(records, n)) % UintModulus
    BY <2>1, <2>2 DEF DoneInv, Progress, VerifyingInv
  <2>5. Through(records, n + 1)
    <3>1. n + 1 \in Nat /\ n + 1 <= Len(records) /\ GoodRecord(records[n + 1])
      BY <2>1, <2>2, <2>3, <2>4
    <3>2. \A k \in 1 .. n + 1 : k \in 1 .. n \/ k = n + 1
      BY <2>4
    <3> QED
      BY <2>4, <3>1, <3>2 DEF Through
  <2>6. SumFunction(Upto(records, n + 1)) = SumFunction(Upto(records, n)) + records[n + 1].record_length
    <3>1. \A k \in 1 .. n + 1 : records[k].record_length \in Nat
      <4>1. \A k \in 1 .. n + 1 : k \in DOMAIN records
        BY <2>3, <2>5 DEF Through
      <4> QED
        BY <2>3, <4>1, ElementOfSeq DEF FileFmrs, Fmrs
    <3>2. n + 1 \in 1 .. n + 1 /\ \A k \in 1 .. n : k \in 1 .. n + 1
      BY <2>4
    <3>3. /\ DOMAIN Upto(records, n) = 1 .. n /\ DOMAIN Upto(records, n + 1) = 1 .. n + 1
          /\ \A k \in 1 .. n : Upto(records, n + 1)[k] = Upto(records, n)[k]
          /\ \A k \in 1 .. n + 1 : Upto(records, n + 1)[k] = records[k].record_length
      BY <3>2 DEF Upto
    <3>4. PICK u, w : u = Upto(records, n) /\ w = Upto(records, n + 1)
      OBVIOUS
    <3>5. \A k \in 1 .. n + 1 : w[k] \in Nat
      BY <3>1, <3>3, <3>4
    <3>6. Weights(w, n + 1)
      BY <3>5 DEF Weights
    <3>7. DOMAIN u = 1 .. n /\ DOMAIN w = 1 .. n + 1 /\ \A k \in 1 .. n : w[k] = u[k]
      BY <3>3, <3>4
    <3>8. SumFunction(w) = SumFunction(u) + w[n + 1]
      BY <2>4, <3>6, <3>7, SumGrows
    <3>9. w[n + 1] = records[n + 1].record_length
      BY <3>2, <3>3, <3>4
    <3>10. SumFunction(w) = SumFunction(u) + records[n + 1].record_length
      BY <3>8, <3>9
    <3> QED
      BY <3>4, <3>10
  <2>7. /\ total_length' = SumFunction(Upto(records, n + 1)) % UintModulus /\ at' - 1 = n + 1
        /\ at' \in Nat /\ at' >= 1
    <3>1. total_length' = (total_length + records[n + 1].record_length) % UintModulus
      BY <2>1, <2>2, <2>4
    <3>2. at' - 1 = n + 1 /\ at' \in Nat /\ at' >= 1
      BY <2>1, <2>4
    <3>3. total_length' = SumFunction(Upto(records, n + 1)) % UintModulus
      <4>1. SumFunction(Upto(records, n)) \in Nat
        BY <2>3, <2>4, UptoSum DEF Through
      <4>2. n + 1 \in DOMAIN records
        BY <2>3, <2>4, <2>5 DEF Through
      <4>3. records[n + 1].record_length \in Nat
        BY <2>3, <4>2, ElementOfSeq DEF FileFmrs, Fmrs
      <4>4. ((SumFunction(Upto(records, n)) % UintModulus) + records[n + 1].record_length) % UintModulus
              = (SumFunction(Upto(records, n)) + records[n + 1].record_length) % UintModulus
        BY <4>1, <4>3, UintAssumption, WrappedSum
      <4> QED
        BY <2>4, <2>6, <3>1, <4>4, Zenon
    <3> QED
      BY <3>2, <3>3
  <2>8. VerifyingInv'
    BY <2>1, <2>2, <2>5, <2>7 DEF VerifyingInv
  <2>9. Progress'
    BY <2>1, <2>8 DEF Progress, Filtering, Carding
  <2> QED
    BY <1>1, <2>1, <2>9, GoesOn
<1> QED
  BY <1>2, <1>3

LEMMA StepDone ==
  ASSUME DoneInv, [Next]_vars
  PROVE  DoneInv'
<1>1. CASE OptionError \/ CannotRead \/ NoMemory \/ LoadFails \/ NotValid \/ NoImage
  BY <1>1, FailureDone
<1>2. CASE WriteAn2k \/ An2k2fmrEnds \/ OverlapEnds
  BY <1>2, CardEndsDone
<1>3. CASE Refuse \/ VerifyEnds
  BY <1>3, VerifyEndsDone
<1>4. CASE Filter
  <2>1. CASE StartFilter
    <3>1. log' = log
      BY <2>1 DEF StartFilter
    <3> QED
      BY <2>1, <3>1, StartFilterKeeps, StartFilterProgress, GoesOn DEF DoneInv
  <2> QED
    BY <1>4, <2>1, WriteFilteredDone, FiltersViewProgress DEF Filter, FiltersView
<1>5. CASE WriteMade
  BY <1>5, WriteMadeDone
<1>6. CASE \/ StartMkfmr \/ LoadNext \/ StartFmr2an2k \/ ConvertView \/ StartOverlap
           \/ CompareViews \/ PairMinutiae \/ ComparedViews
  BY <1>6, OtherStepsDone
<1>7. CASE StartAn2k2fmr \/ ConvertType9
  BY <1>7, Type9Done
<1>8. CASE StartFmrv \/ VerifyRecord
  BY <1>8, VerifyDoneSteps
<1>9. CASE Finished \/ UNCHANGED vars
  <2>1. /\ UNCHANGED <<plan, file, pc, ifmr, ofmr, fmr_length, output, log, total_length, at>>
        /\ UNCHANGED vars
    BY <1>9 DEF Finished, vars, toolVars, mkfmrVars
  <2>2. Control'
    BY <2>1, StutterKeeps DEF DoneInv
  <2>3. Filtering'
    BY <2>1 DEF DoneInv, Progress, Filtering, Prog
  <2>4. Carding' /\ VerifyingInv'
    BY <2>1 DEF DoneInv, Progress, Carding, VerifyingInv
  <2> QED
    BY <2>1, <2>2, <2>3, <2>4, GoesOn DEF Progress
<1> QED
  BY <1>1, <1>2, <1>3, <1>4, <1>5, <1>6, <1>7, <1>8, <1>9 DEF Next, Make, Exchange, Overlap, Verify

\* What each program that has ended well made of what it read (the end of its main).
THEOREM DoneInvariant == Spec => []DoneInv
<1>1. Init => DoneInv
  <2>1. Init => Progress /\ AllDone
    BY DEF Init, Progress, Filtering, Carding, VerifyingInv, AllDone
  <2> QED
    BY <2>1, InitControl DEF DoneInv
<1>2. DoneInv /\ [Next]_vars => DoneInv'
  BY StepDone
<1> QED
  BY <1>1, <1>2, PTL DEF Spec

-----------------------------------------------------------------------------
(* fmrv.                                                                   *)

BytesUpto(records, n) == [k \in 1 .. n |-> RecordBytes(records[k])]

LEMMA FileSums ==
  ASSUME NEW records \in Seq(FileFmrs)
  PROVE  /\ DOMAIN records = 1 .. Len(records) /\ Len(records) \in Nat
         /\ \A k \in 1 .. Len(records) : /\ records[k] \in Fmrs /\ records[k].record_length \in Nat
                                         /\ RecordBytes(records[k]) \in Nat
                                         /\ RecordBytes(records[k]) >= 26
         /\ FileBytes(records) = SumFunction(BytesUpto(records, Len(records)))
         /\ FileBytes(records) \in Nat
<1>1. DOMAIN records = 1 .. Len(records) /\ Len(records) \in Nat
  BY LenProperties
<1>2. \A k \in 1 .. Len(records) : records[k] \in Fmrs
  BY ElementOfSeq DEF FileFmrs
<1>3. \A k \in 1 .. Len(records) : /\ records[k].record_length \in Nat
                                   /\ RecordBytes(records[k]) \in Nat /\ RecordBytes(records[k]) >= 26
  BY <1>2, RecordSums DEF Fmrs
<1>4. FileBytes(records) = SumFunction(BytesUpto(records, Len(records)))
  BY <1>1 DEF FileBytes, SumOf, BytesUpto
<1>5. /\ DOMAIN BytesUpto(records, Len(records)) = 1 .. Len(records)
      /\ \A k \in 1 .. Len(records) : BytesUpto(records, Len(records))[k] \in Nat
  BY <1>3 DEF BytesUpto
<1>6. SumFunction(BytesUpto(records, Len(records))) \in Nat
  BY <1>1, <1>5, SumType
<1> QED
  BY <1>1, <1>2, <1>3, <1>4, <1>6

\* Records that declare no more bytes than they have leave some of the file.
LEMMA FitRecords ==
  ASSUME NEW records \in Seq(FileFmrs), NEW n \in Nat, n < Len(records),
         \A k \in 1 .. n : records[k].record_length <= RecordBytes(records[k])
  PROVE  SumFunction(Upto(records, n)) < FileBytes(records)
<1>1. PICK l, u, v, w, b :
        /\ l = Len(records) /\ u = Upto(records, n) /\ v = BytesUpto(records, n)
        /\ w = BytesUpto(records, n + 1) /\ b = BytesUpto(records, l)
  OBVIOUS
<1>2. /\ l \in Nat /\ FileBytes(records) = SumFunction(b) /\ FileBytes(records) \in Nat /\ n + 1 \in 0 .. l
      /\ \A k \in 1 .. l : /\ records[k].record_length \in Nat /\ RecordBytes(records[k]) \in Nat
                           /\ RecordBytes(records[k]) >= 26
  BY <1>1, FileSums
<1>3. /\ \A k \in 1 .. n : k \in 1 .. l /\ k \in 1 .. n + 1
      /\ \A k \in 1 .. n + 1 : k \in 1 .. l
      /\ n + 1 \in 1 .. n + 1 /\ n + 1 \in Nat
  BY <1>2
<1>4. /\ DOMAIN u = 1 .. n /\ DOMAIN v = 1 .. n /\ DOMAIN w = 1 .. n + 1 /\ DOMAIN b = 1 .. l
      /\ \A k \in 1 .. n : u[k] = records[k].record_length /\ v[k] = RecordBytes(records[k])
      /\ \A k \in 1 .. n + 1 : w[k] = RecordBytes(records[k])
      /\ \A k \in 1 .. l : b[k] = RecordBytes(records[k])
  BY <1>1 DEF Upto, BytesUpto
<1>5. /\ \A k \in 1 .. n : u[k] \in Int /\ v[k] \in Int /\ u[k] <= v[k] /\ w[k] = v[k]
      /\ \A k \in 1 .. n + 1 : w[k] \in Int /\ w[k] = b[k]
      /\ \A k \in 1 .. l : b[k] \in Nat
  <2>1. \A k \in 1 .. n : u[k] \in Int /\ v[k] \in Int
    <3>1. ASSUME NEW k \in 1 .. n PROVE u[k] \in Int /\ v[k] \in Int
      <4>1. k \in 1 .. l
        BY <1>3
      <4>2. records[k].record_length \in Nat /\ RecordBytes(records[k]) \in Nat
        BY <1>2, <4>1
      <4> QED
        BY <1>4, <4>2
    <3> QED
      BY <3>1
  <2>2. \A k \in 1 .. n : u[k] <= v[k]
    BY <1>4
  <2>3. \A k \in 1 .. n : w[k] = v[k]
    BY <1>3, <1>4
  <2>4. \A k \in 1 .. n + 1 : w[k] \in Int /\ w[k] = b[k]
    BY <1>2, <1>3, <1>4
  <2>5. \A k \in 1 .. l : b[k] \in Nat
    BY <1>2, <1>4
  <2> QED
    BY <2>1, <2>2, <2>3, <2>4, <2>5
<1>6. Weights(u, n) /\ Weights(v, n) /\ Weights(w, n + 1)
  BY <1>5 DEF Weights
<1>7. SumFunction(u) <= SumFunction(v)
  BY <1>4, <1>5, <1>6, SumAtMost
<1>8. SumFunction(w) = SumFunction(v) + w[n + 1]
  BY <1>4, <1>5, <1>6, SumGrows
<1>9. SumFunction(w) <= SumFunction(b)
  BY <1>2, <1>4, <1>5, SumOfPart
<1>10. w[n + 1] \in Nat /\ w[n + 1] >= 26
  BY <1>2, <1>3, <1>4
<1>11. SumFunction(u) \in Int /\ SumFunction(v) \in Int /\ SumFunction(w) \in Int /\ SumFunction(b) \in Int
  BY <1>2, <1>3, <1>4, <1>6, SumType
<1>12. SumFunction(u) < SumFunction(b)
  BY <1>7, <1>8, <1>9, <1>10, <1>11
<1> QED
  BY <1>1, <1>2, <1>12

\* fmrv's verdict on a file.
LEMMA VerdictIsTrue ==
  ASSUME NEW e \in Entries, e.prog = "fmrv", e.fault = "none", VerifyDone(e)
  PROVE  LET records == e.from.records
             fit == \A k \in DOMAIN records : Drift(records[k]) <= 0
             sum == SumOf(LAMBDA record : record.record_length, records)
             fine == /\ e.from.kind = "fmr" /\ records # <<>>
                     /\ \A k \in DOMAIN records : Whole(records[k]) /\ Conforms(records[k])
         IN /\ (e.status = "success" /\ fit) => fine
            /\ (fine /\ sum >= FileBytes(records) /\ sum < UintModulus) => e.status = "success"
<1>1. e.from \in Files /\ e.status \in {"success", "failure"}
  BY DEF Entries
<1>2. CASE e.from.kind # "fmr"
  BY <1>2 DEF VerifyDone
<1>3. CASE e.from.kind = "fmr"
  <2>1. PICK records, l : records = e.from.records /\ l = Len(records)
    OBVIOUS
  <2>2. /\ records \in Seq(FileFmrs) /\ DOMAIN records = 1 .. l /\ l \in Nat
    BY <1>1, <1>3, <2>1, FileTypes, FileSums
  <2>3. PICK n \in Nat : /\ Through(records, n)
                         /\ e.status = "success" => Accepts(records, n)
                         /\ e.status = "failure" => Refuses(records, n)
    BY <1>3, <2>1 DEF VerifyDone
  <2>4. n <= l /\ \A k \in 1 .. n : GoodRecord(records[k])
    BY <2>1, <2>3 DEF Through
  <2>5. SumOf(LAMBDA record : record.record_length, records) = SumFunction(Upto(records, l))
    BY <2>2 DEF SumOf, Upto
  <2>6. /\ \A k \in 1 .. l : /\ records[k].record_length \in Nat /\ RecordBytes(records[k]) \in Nat
                             /\ RecordBytes(records[k]) >= 26
        /\ FileBytes(records) \in Nat
    BY <2>1, <2>2, FileSums
  <2>7. ASSUME e.status = "success", \A k \in DOMAIN records : Drift(records[k]) <= 0
        PROVE  records # <<>> /\ \A k \in DOMAIN records : Whole(records[k]) /\ Conforms(records[k])
    <3>1. n > 0 /\ SumFunction(Upto(records, n)) >= FileBytes(records)
      BY <2>3, <2>7 DEF Accepts
    <3>2. \A k \in 1 .. l : records[k].record_length <= RecordBytes(records[k])
      <4>1. ASSUME NEW k \in 1 .. l PROVE records[k].record_length <= RecordBytes(records[k])
        <5>1. records[k].record_length - RecordBytes(records[k]) <= 0
          BY <2>2, <2>7 DEF Drift
        <5> QED
          BY <2>6, <5>1
      <4> QED
        BY <4>1
    <3>3. n = l
      <4>1. SUFFICES ASSUME n < l PROVE FALSE
        BY <2>2, <2>4
      <4>2. \A k \in 1 .. n : records[k].record_length <= RecordBytes(records[k])
        BY <2>2, <3>2, <4>1
      <4>3. SumFunction(Upto(records, n)) < FileBytes(records)
        BY <2>1, <2>2, <4>1, <4>2, FitRecords
      <4>4. SumFunction(Upto(records, n)) \in Int
        <5>1. DOMAIN Upto(records, n) = 1 .. n /\ \A k \in 1 .. n : Upto(records, n)[k] = records[k].record_length
          BY DEF Upto
        <5>2. \A k \in 1 .. n : Upto(records, n)[k] \in Nat
          BY <2>2, <2>4, <2>6, <5>1
        <5>3. SumFunction(Upto(records, n)) \in Nat
          BY <5>1, <5>2, SumType
        <5> QED
          BY <5>3
      <4> QED
        BY <2>6, <3>1, <4>3, <4>4
    <3>4. \A k \in DOMAIN records : GoodRecord(records[k])
      BY <2>2, <2>4, <3>3
    <3>5. records # <<>>
      BY <2>1, <2>2, <3>1, <3>3, EmptySeq
    <3> QED
      BY <3>4, <3>5 DEF GoodRecord
  <2>8. ASSUME records # <<>>, SumFunction(Upto(records, l)) >= FileBytes(records),
               SumFunction(Upto(records, l)) < UintModulus,
               \A k \in DOMAIN records : Whole(records[k]) /\ Conforms(records[k])
        PROVE  e.status = "success"
    <3>1. SUFFICES ASSUME e.status = "failure" PROVE FALSE
      BY <1>1
    <3>2. Refuses(records, n)
      BY <2>3, <3>1
    <3>3. l > 0
      BY <2>1, <2>2, <2>8, EmptySeq
    <3>4. SumFunction(Upto(records, 0)) = 0
      <4>1. DOMAIN Upto(records, 0) = 1 .. 0
        BY DEF Upto
      <4> QED
        BY <4>1, SumType
    <3>5. FileBytes(records) > 0
      <4>1. 0 \in Nat /\ 0 < l /\ \A k \in 1 .. 0 : records[k].record_length <= RecordBytes(records[k])
        BY <3>3
      <4>2. SumFunction(Upto(records, 0)) < FileBytes(records)
        BY <2>1, <2>2, <4>1, FitRecords
      <4> QED
        BY <2>6, <3>4, <4>2
    <3>6. /\ SumFunction(Upto(records, n)) % UintModulus < FileBytes(records)
          /\ n = l \/ ~ GoodRecord(records[n + 1])
      BY <2>1, <2>6, <3>2, <3>5 DEF Refuses
    <3>7. n # l => n + 1 \in DOMAIN records
      BY <2>2, <2>4
    <3>8. n = l
      BY <2>8, <3>6, <3>7 DEF GoodRecord
    <3>9. PICK sum \in Nat : sum = SumFunction(Upto(records, l))
      <4>1. l \in Nat /\ l <= Len(records)
        BY <2>1, <2>2
      <4> QED
        BY <2>2, <4>1, UptoSum
    <3>10. sum % UintModulus = sum
      BY <2>8, <3>9, UintAssumption, Wraps
    <3> QED
      BY <2>6, <2>8, <3>6, <3>8, <3>9, <3>10
  <2> QED
    BY <1>3, <2>1, <2>5, <2>7, <2>8
<1> QED
  BY <1>2, <1>3

LEMMA LogEntries ==
  ASSUME DoneInv, NEW e \in Ended
  PROVE  /\ e \in Entries /\ Done(e)
         /\ \E k \in DOMAIN log : e = log[k]
<1>1. log \in Seq(Entries)
  BY DEF DoneInv, Control, Typed
<1>2. PICK k \in DOMAIN log : e = log[k]
  BY DEF Ended, Range
<1>3. log[k] \in Entries
  BY <1>1
<1> QED
  BY <1>2, <1>3 DEF DoneInv, AllDone

\* Accepting goes with being whole (fmrv.c): the verdict on a file is about all its records.
THEOREM AcceptingIsRight == Spec => []AcceptedIsWhole
<1>1. ASSUME DoneInv PROVE AcceptedIsWhole
  <2>1. ASSUME NEW e \in Ended, e.prog = "fmrv", e.fault = "none"
        PROVE  LET records == e.from.records
                   fit == \A k \in DOMAIN records : Drift(records[k]) <= 0
                   sum == SumOf(LAMBDA record : record.record_length, records)
                   fine == /\ e.from.kind = "fmr" /\ records # <<>>
                           /\ \A k \in DOMAIN records : Whole(records[k]) /\ Conforms(records[k])
               IN /\ (e.status = "success" /\ fit) => fine
                  /\ (fine /\ sum >= FileBytes(records) /\ sum < UintModulus) => e.status = "success"
    <3>1. e \in Entries /\ VerifyDone(e)
      BY <1>1, <2>1, LogEntries DEF Done
    <3> QED
      BY <2>1, <3>1, VerdictIsTrue
  <2> QED
    BY <2>1 DEF AcceptedIsWhole
<1> QED
  BY <1>1, DoneInvariant, PTL

-----------------------------------------------------------------------------
(* The lengths of the records.                                             *)

LEMMA ElementAtMost ==
  ASSUME NEW n \in Nat, NEW w, DOMAIN w = 1 .. n, \A k \in 1 .. n : w[k] \in Nat, NEW x \in 1 .. n
  PROVE  w[x] <= SumFunction(w) /\ SumFunction(w) \in Nat
<1>1. PICK v : v = [k \in 1 .. n |-> IF k = x THEN 0 ELSE w[k]]
  OBVIOUS
<1>2. /\ DOMAIN v = 1 .. n /\ v[x] = 0 /\ \A k \in 1 .. n : k # x => v[k] = w[k]
      /\ \A k \in 1 .. n : v[k] \in Nat
  BY <1>1
<1>3. Weights(v, n) /\ Weights(w, n)
  BY <1>2 DEF Weights
<1>4. SumFunction(v) = SumFunction(w) + v[x] - w[x]
  BY <1>2, <1>3, SumChanges
<1>5. SumFunction(v) \in Nat /\ SumFunction(w) \in Nat /\ w[x] \in Nat
  BY <1>2, SumType
<1> QED
  BY <1>2, <1>4, <1>5

\* Extended data of a length that has 16 bits are as long as mkfmr says, but for the
\* angles that are not written.
LEMMA FedLengthsTrue ==
  ASSUME NEW view \in Fvmrs, FedsTrue(view),
         BlockBytes(view) + UnwrittenAngles(view) < USHRT_MAX - 1
  PROVE  FedLengths(FedsOf(view)) = BlockBytes(view) + UnwrittenAngles(view)
<1>1. PICK feds, n, b, u, l :
        /\ feds = FedsOf(view) /\ n = Len(feds) /\ b = FedBytesOf(view) /\ u = UnwrittenIn(view)
        /\ l = [k \in DOMAIN feds |-> feds[k].length]
  OBVIOUS
<1>2. /\ n \in Nat /\ DOMAIN feds = 1 .. n /\ DOMAIN b = 1 .. n /\ DOMAIN u = 1 .. n /\ DOMAIN l = 1 .. n
      /\ \A k \in 1 .. n : /\ b[k] \in Nat /\ u[k] \in Nat
      /\ BlockBytes(view) = SumFunction(b) /\ UnwrittenAngles(view) = SumFunction(u)
      /\ BlockBytes(view) \in Nat /\ UnwrittenAngles(view) \in Nat
  BY <1>1, FedsType, BlockSums
<1>3. \A k \in 1 .. n : /\ b[k] = FedBytes(feds[k]) /\ u[k] = UnwrittenOf(feds[k]) /\ l[k] = feds[k].length
                        /\ FedFits(feds[k])
  BY <1>1, <1>2 DEF FedBytesOf, UnwrittenIn, FedsTrue
<1>4. ASSUME NEW k \in 1 .. n PROVE l[k] = b[k] + u[k]
  <2>1. b[k] <= SumFunction(b) /\ u[k] <= SumFunction(u)
    BY <1>2, ElementAtMost
  <2>2. b[k] + u[k] < USHRT_MAX
    BY <1>2, <2>1, Unsigned
  <2> QED
    BY <1>3, <2>2 DEF FedFits
<1>5. Weights(b, n) /\ Weights(u, n)
  BY <1>2 DEF Weights
<1>6. SumFunction(l) = SumFunction(b) + SumFunction(u)
  <2>1. n \in Nat /\ DOMAIN l = 1 .. n /\ DOMAIN b = 1 .. n /\ DOMAIN u = 1 .. n
    BY <1>2
  <2>2. \A k \in 1 .. n : l[k] = b[k] + u[k]
    BY <1>4
  <2> QED
    BY <1>5, <2>1, <2>2, SumSplits
<1>7. FedLengths(feds) = SumFunction(l)
  BY <1>1 DEF FedLengths
<1> QED
  BY <1>1, <1>2, <1>6, <1>7

\* A record that mkfmr makes is as long as it says, in the same way.
LEMMA MadeLength ==
  ASSUME NEW source, NEW record \in Fmrs, MadeFrom(source, record), DataFit(record)
  PROVE  record.record_length =
           SMALL_HEADER + (SumFunction(ViewBytesOf(record)) + SumFunction(AnglesOf(record)))
<1>1. PICK c, b, u, n : /\ c = Counted(record, "write", 1) /\ b = ViewBytesOf(record)
                        /\ u = AnglesOf(record) /\ n = Len(record.views)
  OBVIOUS
<1>2. /\ n \in Nat /\ DOMAIN record.views = 1 .. n
      /\ DOMAIN b = 1 .. n /\ DOMAIN u = 1 .. n /\ Weights(b, n) /\ Weights(u, n)
      /\ \A k \in 1 .. n : record.views[k] \in Fvmrs
  BY <1>1, RecordSums
<1>3. DOMAIN c = 1 .. n /\ \A k \in 1 .. n : c[k] = CountedOf(record.views[k], "write", 1, k)
  BY <1>1, CountedTypes
<1>4. ASSUME NEW k \in 1 .. n PROVE c[k] = b[k] + u[k]
  <2>1. PICK view \in Fvmrs : view = record.views[k]
    BY <1>2
  <2>2. FedsTrue(view) /\ BlockBytes(view) + UnwrittenAngles(view) < USHRT_MAX - 1
    BY <1>2, <2>1 DEF MadeFrom, DataFit
  <2>3. FedLengths(FedsOf(view)) = BlockBytes(view) + UnwrittenAngles(view)
    BY <2>2, FedLengthsTrue
  <2>4. FilledIn("write", 1, k)
    BY DEF FilledIn
  <2>5. c[k] = 6 + 6 * Len(view.minutiae) + FedLengths(FedsOf(view))
    BY <1>3, <2>1, <2>4 DEF CountedOf
  <2>6. /\ b[k] = 6 + 6 * Len(view.minutiae) + BlockBytes(view) /\ u[k] = UnwrittenAngles(view)
        /\ BlockBytes(view) \in Nat /\ UnwrittenAngles(view) \in Nat
    BY <1>1, <1>2, <2>1, StoredViewBytes, BlockSums DEF ViewBytesOf, AnglesOf
  <2>7. PICK m \in Nat : m = Len(view.minutiae)
    BY MinutiaeLens, LenProperties DEF Fvmrs
  <2> QED
    BY <2>3, <2>5, <2>6, <2>7
<1>5. SumFunction(c) = SumFunction(b) + SumFunction(u)
  BY <1>2, <1>3, <1>4, SumSplits
<1> QED
  BY <1>1, <1>5 DEF MadeFrom

LEMMA MakeDrift ==
  ASSUME NEW source, NEW record \in Fmrs, MadeFrom(source, record), DataFit(Stored(record))
  PROVE  Drift(Stored(record)) =
           SMALL_HEADER - HeaderOf(Stored(record)) + SumOf(UnwrittenAngles, Stored(record).views)
<1>1. PICK b, u, h, s : /\ b = SumFunction(ViewBytesOf(record)) /\ u = SumFunction(AnglesOf(record))
                        /\ h = HeaderOf(Stored(record)) /\ s = SMALL_HEADER
  OBVIOUS
<1>2. b \in Nat /\ u \in Nat
  BY <1>1, RecordSums
<1>3. h \in Nat /\ s \in Nat
  BY <1>1 DEF HeaderOf, SMALL_HEADER, LARGE_HEADER
<1>4. /\ RecordBytes(Stored(record)) = h + b /\ SumOf(UnwrittenAngles, Stored(record).views) = u
      /\ DataFit(record)
  BY <1>1, StoredBytes
<1>5. Stored(record).record_length = record.record_length
  BY StoredFields
<1>6. record.record_length = s + (b + u)
  BY <1>1, <1>4, MadeLength
<1>7. (s + (b + u)) - (h + b) = s - h + u
  BY <1>2, <1>3
<1> QED
  BY <1>1, <1>4, <1>5, <1>6, <1>7 DEF Drift

\* What the filters do to the bytes of a view.
LEMMA MakesBytes ==
  ASSUME NEW e, NEW old \in Fvmrs, NEW new \in Fvmrs, Makes(e, old, new), e.prog \in Filters
  PROVE  /\ e.prog \in {"fmrprune", "fmrsort"} => ViewBytes(new) = BareLength(new)
         /\ e.prog \notin {"fmrprune", "fmrsort"} => ViewBytes(new) = ViewBytes(old)
<1>1. CASE e.prog \in {"fmrprune", "fmrsort"}
  <2>1. PICK m : new = [old EXCEPT !.minutiae = m, !.extended = <<>>]
    BY <1>1 DEF Makes
  <2>2. new.extended = <<>>
    BY <2>1 DEF Fvmrs
  <2>3. FedsOf(new) = <<>>
    BY <2>2 DEF FedsOf
  <2>4. BlockBytes(new) = 0
    <3>1. DOMAIN FedBytesOf(new) = {}
      BY <2>3 DEF FedBytesOf
    <3>2. DOMAIN FedBytesOf(new) = 1 .. 0
      BY <3>1
    <3> QED
      BY <3>2, BlockSums, SumType
  <2>5. PICK n \in Nat : n = Len(new.minutiae)
    BY LenProperties DEF Fvmrs
  <2>6. ViewBytes(new) = 6 + 6 * n + BlockBytes(new)
    BY <2>5, StoredViewBytes
  <2>7. BareLength(new) = 4 + 2 + 6 * n
    BY <2>5 DEF BareLength, FVMR_HEADER_LENGTH, FEDB_HEADER_LENGTH, FMD_DATA_LENGTH
  <2> QED
    BY <1>1, <2>4, <2>5, <2>6, <2>7
<1>2. CASE e.prog \in {"fmrmod", "fmrisocompact"}
  <2>1. PICK m : new = [old EXCEPT !.minutiae = m] /\ m = [k \in DOMAIN old.minutiae |-> m[k]]
    <3>1. CASE e.prog = "fmrmod"
      <4>1. new = [old EXCEPT !.minutiae =
                     [m \in DOMAIN @ |-> [@[m] EXCEPT !.quality = e.o.q % (UCHAR_MAX + 1)]]]
        BY <3>1 DEF Makes
      <4>2. PICK t : t = [m \in DOMAIN old.minutiae |->
                            [old.minutiae[m] EXCEPT !.quality = e.o.q % (UCHAR_MAX + 1)]]
        OBVIOUS
      <4>3. t = [k \in DOMAIN old.minutiae |-> t[k]]
        BY <4>2
      <4> QED
        BY <4>1, <4>2, <4>3
    <3>2. CASE e.prog = "fmrisocompact"
      <4>1. new = [old EXCEPT !.minutiae = [m \in DOMAIN @ |-> IsoMinutia(@[m])]]
        BY <3>2 DEF Makes
      <4>2. PICK t : t = [m \in DOMAIN old.minutiae |-> IsoMinutia(old.minutiae[m])]
        OBVIOUS
      <4>3. t = [k \in DOMAIN old.minutiae |-> t[k]]
        BY <4>2
      <4> QED
        BY <4>1, <4>2, <4>3
    <3> QED
      BY <1>2, <3>1, <3>2
  <2>2. new.minutiae = m /\ new.extended = old.extended
    BY <2>1 DEF Fvmrs
  <2>3. FedsOf(new) = FedsOf(old) /\ BlockBytes(new) = BlockBytes(old)
    BY <2>2 DEF FedsOf, BlockBytes
  <2>4. Len(new.minutiae) = Len(old.minutiae)
    <3>1. old.minutiae \in Seq(Minutiae) /\ new.minutiae \in Seq(Minutiae)
      BY DEF Fvmrs
    <3>2. DOMAIN new.minutiae = DOMAIN old.minutiae
      BY <2>1, <2>2
    <3> QED
      BY <3>1, <3>2, LenProperties
  <2>5. ViewBytes(new) = ViewBytes(old)
    BY <2>3, <2>4 DEF ViewBytes
  <2> QED
    BY <1>2, <2>5
<1> QED
  BY <1>1, <1>2 DEF Filters

LEMMA FilterDrift ==
  ASSUME NEW e, e.prog \in Filters, NEW source \in Fmrs, NEW record \in Fmrs,
         FilteredTo(e, source, record)
  PROVE  Drift(Stored(record)) =
           IF e.prog \in {"fmrprune", "fmrsort"} THEN HeaderOf(source) - HeaderOf(Stored(record))
             ELSE Drift(source) + HeaderOf(source) - HeaderOf(Stored(record))
<1>1. PICK b, c, h, g, l, n, s, v, w :
        /\ b = SumFunction(ViewBytesOf(record)) /\ c = SumFunction(ViewBytesOf(source))
        /\ h = HeaderOf(Stored(record)) /\ g = HeaderOf(source) /\ l = record.record_length
        /\ n = Len(record.views) /\ s = BareBytesOf(record)
        /\ v = ViewBytesOf(record) /\ w = ViewBytesOf(source)
  OBVIOUS
<1>2. b \in Nat /\ c \in Nat /\ n \in Nat
  BY <1>1, RecordSums
<1>3. h \in Nat /\ g \in Nat /\ l \in Nat
  BY <1>1 DEF HeaderOf, SMALL_HEADER, LARGE_HEADER, Fmrs
<1>4. Drift(Stored(record)) = l - (h + b)
  BY <1>1, StoredBytes, StoredFields DEF Drift
<1>5. /\ n = Len(source.views) /\ DOMAIN record.views = 1 .. n /\ DOMAIN source.views = 1 .. n
      /\ \A k \in 1 .. n : /\ record.views[k] \in Fvmrs /\ source.views[k] \in Fvmrs
                           /\ Makes(e, source.views[k], record.views[k])
  BY <1>1, RecordSums DEF FilteredTo
<1>6. /\ DOMAIN v = 1 .. n /\ DOMAIN w = 1 .. n /\ DOMAIN s = 1 .. n
      /\ Weights(v, n) /\ Weights(w, n)
      /\ \A k \in 1 .. n : /\ v[k] = ViewBytes(record.views[k]) /\ w[k] = ViewBytes(source.views[k])
                           /\ s[k] = BareLength(record.views[k])
  BY <1>1, <1>5, RecordSums, BareBytesTypes DEF ViewBytesOf
<1>7. CASE e.prog \in {"fmrprune", "fmrsort"}
  <2>1. \A k \in 1 .. n : v[k] = s[k]
    BY <1>5, <1>6, <1>7, MakesBytes
  <2>2. SumFunction(s) = SumFunction(v)
    BY <1>2, <1>6, <2>1, SumAgrees
  <2>3. l = g + SumFunction(s)
    BY <1>1, <1>7 DEF FilteredTo
  <2>4. (g + b) - (h + b) = g - h
    BY <1>2, <1>3
  <2> QED
    BY <1>1, <1>4, <1>7, <2>2, <2>3, <2>4
<1>8. CASE e.prog \notin {"fmrprune", "fmrsort"}
  <2>1. \A k \in 1 .. n : v[k] = w[k]
    BY <1>5, <1>6, <1>8, MakesBytes
  <2>2. SumFunction(v) = SumFunction(w)
    BY <1>2, <1>6, <2>1, SumAgrees
  <2>3. l = source.record_length
    BY <1>1, <1>8 DEF FilteredTo
  <2>4. Drift(source) = l - (g + c)
    BY <1>1, <2>3, RecordSums DEF Drift
  <2>5. l - (h + b) = (l - (g + b)) + g - h
    BY <1>2, <1>3
  <2> QED
    BY <1>1, <1>4, <1>8, <2>2, <2>4, <2>5
<1> QED
  BY <1>7, <1>8

\* The lengths (fmrprune.c, mkfmr.c, an2k2fmr.c): that of the record, but for what is known.
THEOREM LengthsAreTrue == Spec => []LengthIsTrue
<1>1. ASSUME DoneInv PROVE LengthIsTrue
  <2>1. ASSUME NEW e \in Ended, WellMade(e) PROVE TrueLength(e)
    <3>1. e \in Entries /\ Done(e) /\ e.prog \in Filters \cup {"mkfmr", "an2k2fmr"} /\ e.from \in Files
      BY <1>1, <2>1, LogEntries DEF Done, Entries
    <3>2. CASE e.prog \in Filters
      <4>1. PICK record \in Fmrs : e.to = Fmr(<<Stored(record)>>) /\ FilteredTo(e, Source(e), record)
        BY <2>1, <3>1, <3>2 DEF Done, FilterDone
      <4>2. Source(e) \in Fmrs
        BY <2>1, <3>1, <3>2, FirstRecord DEF Done, FilterDone, HasViews, Source, FileFmrs
      <4>3. \A r0 \in Range(e.to.records) : r0 = Stored(record)
        BY <4>1 DEF Fmr, Range
      <4>4. PICK source \in Fmrs : source = Source(e)
        BY <4>2
      <4>5. Drift(Stored(record)) =
              IF e.prog \in {"fmrprune", "fmrsort"} THEN HeaderOf(source) - HeaderOf(Stored(record))
                ELSE Drift(source) + HeaderOf(source) - HeaderOf(Stored(record))
        BY <3>2, <4>1, <4>4, FilterDrift
      <4> QED
        BY <3>2, <4>3, <4>4, <4>5 DEF TrueLength, Filters
    <3>3. CASE e.prog = "mkfmr"
      <4>1. PICK record \in Fmrs : e.to = Fmr(<<Stored(record)>>) /\ MadeFrom(e.from.texts, record)
        BY <2>1, <3>1, <3>3 DEF Done, MakeDone
      <4>2. \A r0 \in Range(e.to.records) : r0 = Stored(record)
        BY <4>1 DEF Fmr, Range
      <4>3. DataFit(Stored(record)) =>
              Drift(Stored(record)) =
                SMALL_HEADER - HeaderOf(Stored(record)) + SumOf(UnwrittenAngles, Stored(record).views)
        BY <4>1, MakeDrift
      <4> QED
        BY <3>3, <4>2, <4>3 DEF TrueLength
    <3>4. CASE e.prog = "an2k2fmr"
      <4>1. \A r0 \in Range(e.to.records) : An2kTrue(r0)
        BY <2>1, <3>1, <3>4 DEF Done, CardDone, Range
      <4> QED
        BY <3>4, <4>1 DEF TrueLength, An2kTrue
    <3> QED
      BY <3>1, <3>2, <3>3, <3>4
  <2> QED
    BY <1>1, <2>1, TypeOKFollows DEF LengthIsTrue, DoneInv
<1> QED
  BY <1>1, DoneInvariant, PTL

-----------------------------------------------------------------------------
(* What mkfmr makes of its texts.                                          *)

LEMMA LowerBits ==
  ASSUME NEW n \in Nat
  PROVE  uchar(n) % 16 = n % 16 /\ uchar(n) % 4 = n % 4 /\ ushort(n) % 16384 = n % 16384
<1>1. (n % 256) % 16 = n % 16
  BY SMT
<1>2. (n % 256) % 4 = n % 4
  BY SMT
<1>3. (n % 65536) % 16384 = n % 16384
  BY SMT
<1>4. UCHAR_MAX + 1 = 256
  BY SMT DEF UCHAR_MAX
<1>5. USHRT_MAX + 1 = 65536
  BY SMT DEF USHRT_MAX
<1> QED
  BY <1>1, <1>2, <1>3, <1>4, <1>5, SMT DEF uchar, ushort

LEMMA LowNibble == \A n \in Nat : uchar(n) % 16 = n % 16
<1>1. \A n \in Nat : (n % 256) % 16 = n % 16
  BY SMT
<1> QED
  BY <1>1 DEF uchar, UCHAR_MAX

LEMMA StoredMinutiaTold ==
  ASSUME NEW minutia, NEW f \in Nat, NEW g \in Nat, NEW h \in Nat, NEW k, NEW l,
         minutia = [type |-> uchar(f), x |-> ushort(g), y |-> ushort(h), angle |-> k, quality |-> l]
  PROVE  StoredMinutia(minutia) = [type |-> f % 4, x |-> g % 16384, y |-> h % 16384,
                                   angle |-> k, quality |-> l]
<1>1. uchar(f) % 4 = f % 4 /\ ushort(g) % 16384 = g % 16384 /\ ushort(h) % 16384 = h % 16384
  BY LowerBits
<1> QED
  BY <1>1, SMT DEF StoredMinutia

LEMMA NumbersInText ==
  ASSUME NEW text \in Seq(Nat), NEW p
  PROVE  NumberAt(text, p) \in Nat
<1>1. \A q \in DOMAIN text : text[q] \in Nat
  OBVIOUS
<1> QED
  BY <1>1 DEF NumberAt

\* A view in the file is that of its lines in the texts.
LEMMA StoredTold ==
  ASSUME NEW source \in [TextFiles -> Seq(Nat)], NEW record \in Fmrs, MadeFrom(source, record),
         NEW v \in DOMAIN Stored(record).views
  PROVE  ToldView(Stored(record).views[v], v, MinutiaeBefore(Stored(record), v), source)
<1>1. PICK stored : stored = Stored(record)
  OBVIOUS
<1>2. /\ stored \in Fmrs /\ Len(stored.views) = Len(record.views)
      /\ \A k \in 1 .. Len(record.views) : stored.views[k] = StoredView(record.views[k])
  BY <1>1, StoredFields DEF FileFmrs
<1>3. /\ DOMAIN record.views = 1 .. Len(record.views) /\ DOMAIN stored.views = 1 .. Len(record.views)
      /\ Len(record.views) \in Nat /\ v \in 1 .. Len(record.views)
      /\ \A k \in 1 .. Len(record.views) : record.views[k] \in Fvmrs
  BY <1>1, <1>2, MinutiaeLens
<1>4. MinutiaeBefore(stored, v) = MinutiaeBefore(record, v)
  <2>1. \A k \in 1 .. v - 1 : k \in 1 .. Len(record.views)
    BY <1>3
  <2>2. \A k \in 1 .. v - 1 : Len(record.views[k].minutiae) = Len(stored.views[k].minutiae)
    BY <1>2, <1>3, <2>1, StoredViewFields
  <2>3. v \in Nat /\ v >= 1 /\ v <= Len(record.views) + 1 /\ v <= Len(stored.views) + 1
    BY <1>2, <1>3
  <2> QED
    BY <1>2, <2>2, <2>3, BeforeAgrees
<1>5. PICK old, new, before : old = record.views[v] /\ new = stored.views[v]
                              /\ before = MinutiaeBefore(record, v)
  OBVIOUS
<1>6. old \in Fvmrs /\ new = StoredView(old)
  BY <1>2, <1>3, <1>5
<1>7. Told(old, v, source["fvmr"]) /\ Filled(old, before, source["xyt"])
  BY <1>3, <1>5 DEF MadeFrom
<1>8. source["fvmr"] \in Seq(Nat) /\ source["xyt"] \in Seq(Nat)
  BY DEF TextFiles
<1>9. /\ old.impression_type <= 15 => new.view_number = old.view_number % 16
      /\ new.finger_number = old.finger_number
      /\ new.impression_type = old.impression_type % 16 /\ new.finger_quality = old.finger_quality
      /\ new.minutiae = [k \in DOMAIN old.minutiae |-> StoredMinutia(old.minutiae[k])]
      /\ Len(new.minutiae) = Len(old.minutiae)
  BY <1>6, StoredViewFields
<1>10. /\ NumberAt(source["fvmr"], 5 * (v - 1) + 2) \in Nat
       /\ NumberAt(source["fvmr"], 5 * (v - 1) + 3) \in Nat
  BY <1>8, NumbersInText
<1>11. ASSUME NEW m \in DOMAIN new.minutiae
       PROVE  LET line(p) == NumberAt(source["xyt"], FMD_LINE * (before + m - 1) + p)
              IN /\ FMD_LINE * (before + m - 1) < Len(source["xyt"])
                 /\ new.minutiae[m] = [type |-> line(2) % 4, x |-> line(3) % 16384,
                                       y |-> line(4) % 16384, angle |-> uchar(line(5)),
                                       quality |-> uchar(line(6))]
  <2> DEFINE line(p) == NumberAt(source["xyt"], FMD_LINE * (before + m - 1) + p)
  <2>1. m \in DOMAIN old.minutiae /\ new.minutiae[m] = StoredMinutia(old.minutiae[m])
    BY <1>9
  <2>2. /\ FMD_LINE * (before + m - 1) < Len(source["xyt"])
        /\ old.minutiae[m] = [type |-> uchar(line(2)), x |-> ushort(line(3)), y |-> ushort(line(4)),
                              angle |-> uchar(line(5)), quality |-> uchar(line(6))]
    BY <1>7, <2>1 DEF Filled
  <2>3. line(2) \in Nat /\ line(3) \in Nat /\ line(4) \in Nat
    BY <1>8, NumbersInText
  <2> HIDE DEF line
  <2>4. StoredMinutia(old.minutiae[m]) = [type |-> line(2) % 4, x |-> line(3) % 16384,
                                          y |-> line(4) % 16384, angle |-> uchar(line(5)),
                                          quality |-> uchar(line(6))]
    BY <2>2, <2>3, StoredMinutiaTold
  <2> QED
    BY <2>1, <2>2, <2>4 DEF line
<1>12. ToldView(new, v, before, source)
  <2>1. /\ uchar(NumberAt(source["fvmr"], 5 * (v - 1) + 3)) <= 15 =>
             new.view_number = NumberAt(source["fvmr"], 5 * (v - 1) + 2) % 16
        /\ new.impression_type = NumberAt(source["fvmr"], 5 * (v - 1) + 3) % 16
    <3>1. PICK two, three : /\ two = NumberAt(source["fvmr"], 5 * (v - 1) + 2)
                            /\ three = NumberAt(source["fvmr"], 5 * (v - 1) + 3)
      OBVIOUS
    <3>2. two \in Nat /\ three \in Nat
      BY <1>10, <3>1
    <3>3. old.view_number = uchar(two) /\ old.impression_type = uchar(three)
      BY <1>7, <3>1 DEF Told
    <3>4. uchar(two) % 16 = two % 16 /\ uchar(three) % 16 = three % 16
      BY <3>2, LowNibble, Zenon
    <3> QED
      BY <1>9, <3>1, <3>3, <3>4
  <2>2. /\ 5 * (v - 1) < Len(source["fvmr"])
        /\ new.finger_number = uchar(NumberAt(source["fvmr"], 5 * (v - 1) + 1))
        /\ new.finger_quality = uchar(NumberAt(source["fvmr"], 5 * (v - 1) + 4))
        /\ Len(new.minutiae) = uchar(NumberAt(source["fvmr"], 5 * (v - 1) + 5))
    BY <1>7, <1>9, Zenon DEF Told
  <2> DEFINE lines == \A m \in DOMAIN new.minutiae :
             LET line(p) == NumberAt(source["xyt"], FMD_LINE * (before + m - 1) + p)
             IN /\ FMD_LINE * (before + m - 1) < Len(source["xyt"])
                /\ new.minutiae[m] = [type |-> line(2) % 4, x |-> line(3) % 16384,
                                      y |-> line(4) % 16384, angle |-> uchar(line(5)),
                                      quality |-> uchar(line(6))]
  <2>3. lines
    BY <1>11, SMTT(30)
  <2>4. ToldView(new, v, before, source) <=>
          /\ uchar(NumberAt(source["fvmr"], 5 * (v - 1) + 3)) <= 15 =>
               new.view_number = NumberAt(source["fvmr"], 5 * (v - 1) + 2) % 16
          /\ 5 * (v - 1) < Len(source["fvmr"])
          /\ new.finger_number = uchar(NumberAt(source["fvmr"], 5 * (v - 1) + 1))
          /\ new.impression_type = NumberAt(source["fvmr"], 5 * (v - 1) + 3) % 16
          /\ new.finger_quality = uchar(NumberAt(source["fvmr"], 5 * (v - 1) + 4))
          /\ Len(new.minutiae) = uchar(NumberAt(source["fvmr"], 5 * (v - 1) + 5))
          /\ lines
    BY SMTT(30) DEF ToldView
  <2> HIDE DEF lines
  <2> QED
    BY <2>1, <2>2, <2>3, <2>4
<1> QED
  BY <1>1, <1>4, <1>5, <1>12

LEMMA StoredBlockTold ==
  ASSUME NEW source, NEW record \in Fmrs, MadeFrom(source, record), DataFit(record),
         NEW v \in DOMAIN Stored(record).views, Stored(record).views[v].extended # <<>>
  PROVE  Stored(record).views[v].extended[1].block_length =
           BlockBytes(Stored(record).views[v]) + UnwrittenAngles(Stored(record).views[v])
<1>1. /\ DOMAIN record.views = 1 .. Len(record.views) /\ v \in 1 .. Len(record.views)
      /\ Stored(record).views[v] = StoredView(record.views[v]) /\ record.views[v] \in Fvmrs
  <2>1. Stored(record) \in Fmrs
    BY StoredFields DEF FileFmrs
  <2>2. DOMAIN Stored(record).views = 1 .. Len(record.views)
    BY <2>1, MinutiaeLens, StoredFields
  <2> QED
    BY <2>2, MinutiaeLens, StoredFields
<1>2. PICK old, new : old = record.views[v] /\ new = Stored(record).views[v]
  OBVIOUS
<1>3. old \in Fvmrs /\ new = StoredView(old) /\ new.extended # <<>>
  BY <1>1, <1>2
<1>4. FedsOf(old) # <<>> /\ new.extended[1].block_length = old.extended[1].block_length
  BY <1>3, StoredViewFields
<1>5. FedsTrue(old) /\ BlockBytes(old) + UnwrittenAngles(old) < USHRT_MAX - 1
  BY <1>1, <1>2 DEF MadeFrom, DataFit
<1>6. old.extended # <<>>
  BY <1>4, <1>5 DEF FedsTrue
<1>7. old.extended[1].block_length = ushort(BlockBytes(old) + UnwrittenAngles(old))
  BY <1>3, <1>5, <1>6, FedLengthsTrue DEF FedsTrue
<1>8. PICK n \in Nat : n = BlockBytes(old) + UnwrittenAngles(old)
  BY <1>3, BlockSums
<1>9. n < USHRT_MAX
  BY <1>5, <1>8, Unsigned
<1>10. ushort(n) = n
  BY <1>9, ShortFits
<1>11. BlockBytes(new) = BlockBytes(old) /\ UnwrittenAngles(new) = UnwrittenAngles(old)
  BY <1>3, StoredViewBytes
<1> QED
  BY <1>2, <1>4, <1>7, <1>8, <1>10, <1>11

\* mkfmr.c: the loaders of the five files stay in step, and the record is what they say.
THEOREM MakingIsTold == Spec => []MadeAsTold
<1>1. ASSUME DoneInv PROVE MadeAsTold
  <2>1. ASSUME NEW e \in Ended, WellMade(e), e.prog = "mkfmr"
        PROVE  /\ Whole(Result(e))
               /\ LET told == NumberAt(e.from.texts["hdr"], 6)
                  IN told <= 9 => Len(Result(e).views) = told
               /\ \A v \in DOMAIN Result(e).views :
                    /\ ToldView(Result(e).views[v], v, MinutiaeBefore(Result(e), v), e.from.texts)
                    /\ DataFit(Result(e)) /\ Result(e).views[v].extended # <<>> =>
                         Result(e).views[v].extended[1].block_length =
                           BlockBytes(Result(e).views[v]) + UnwrittenAngles(Result(e).views[v])
    <3>1. e \in Entries /\ MakeDone(e)
      BY <1>1, <2>1, LogEntries DEF Done
    <3>2. PICK record \in Fmrs : e.to = Fmr(<<Stored(record)>>) /\ MadeFrom(e.from.texts, record)
      BY <3>1 DEF MakeDone
    <3>3. PICK source \in [TextFiles -> Seq(Nat)] : source = e.from.texts
      BY <3>1, FileTypes DEF Entries, MakeDone
    <3>4. Result(e) = Stored(record)
      BY <3>2 DEF Result, Fmr
    <3>5. Whole(record) /\ Len(Stored(record).views) = record.num_views
      BY <3>2, StoredFields DEF MadeFrom, Whole
    <3>6. Whole(Stored(record)) /\ (DataFit(Stored(record)) <=> DataFit(record))
      BY <3>5, StoredBytes
    <3>7. NumberAt(source["hdr"], 6) <= 9 => record.num_views = NumberAt(source["hdr"], 6)
      <4>1. record.num_views = uchar(Hexadecimal(NumberAt(source["hdr"], 6)))
        BY <3>2, <3>3 DEF MadeFrom
      <4>2. source["hdr"] \in Seq(Nat)
        BY DEF TextFiles
      <4>3. PICK told \in Nat : told = NumberAt(source["hdr"], 6)
        BY <4>2, ElementOfSeq DEF NumberAt
      <4>4. told <= 9 => uchar(Hexadecimal(told)) = told
        BY OneDigit
      <4> QED
        BY <4>1, <4>3, <4>4
    <3>8. \A v \in DOMAIN Stored(record).views :
            ToldView(Stored(record).views[v], v, MinutiaeBefore(Stored(record), v), source)
      BY <3>2, <3>3, StoredTold
    <3>9. \A v \in DOMAIN Stored(record).views :
            DataFit(Stored(record)) /\ Stored(record).views[v].extended # <<>> =>
              Stored(record).views[v].extended[1].block_length =
                BlockBytes(Stored(record).views[v]) + UnwrittenAngles(Stored(record).views[v])
      BY <3>2, <3>6, StoredBlockTold
    <3> QED
      BY <3>3, <3>4, <3>5, <3>6, <3>7, <3>8, <3>9
  <2> QED
    BY <2>1 DEF MadeAsTold
<1> QED
  BY <1>1, DoneInvariant, PTL

=============================================================================
