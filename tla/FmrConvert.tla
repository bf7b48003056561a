---------------------------- MODULE FmrConvert ------------------------------
(***************************************************************************)
(* fmr2fmr (fmr2fmr/fmr2fmr.c): a Finger Minutiae Record is read from a    *)
(* file, its views are converted (libfmr/ansi2iso.c, libfmr/iso2ansi.c) or *)
(* copied, and the result is written to another file, which may be the     *)
(* input of the next run of the program.                                   *)
(*                                                                         *)
(* A file is represented by the record a reader takes from it.  Of a       *)
(* minutia the coordinate (there are two, which are treated alike), the    *)
(* angle and the quality are kept.  FmrReader and FmrWriter have the       *)
(* functions that read and write field by field.                           *)
(***************************************************************************)
EXTENDS FmrDefs, Integers, SequencesExt

CONSTANTS
  Files,       \* the files the first run may start from
  Resolutions, \* what the user may give with -rx, whenever a card is read
  MaxRuns,     \* bound: how often the program is run
  Failures     \* the runs in which memory or the disk may fail

MaxCoordinate(format) == IF format = "ISO_COMPACT_CARD" THEN 255 ELSE 16383

\* What the fields of a minutia on the wire can hold; cards keep no quality.
Minutiae(format) ==
  [x       : 0 .. MaxCoordinate(format),
   angle   : IF format = "ISO_COMPACT_CARD" THEN 0 .. 63 ELSE UCHAR,
   quality : IF format \in Cards THEN {0} ELSE UCHAR]

\* `extended' is the block_length of the extended data, 0 when there is none;
\* only ANSI07 views have a resolution of their own.
Views(format) ==
  [resolution : USHORT, extended : USHORT, minutiae : Seq(Minutiae(format))]

FilesOf(format) ==
  [format_std : {format}, num_views : UCHAR, resolution : USHORT, length : Nat,
   views : Seq(Views(format))]

FileOK(f) == \E format \in AllFormats : f \in FilesOf(format)

\* The length field is believed; here it is not smaller than the blocks in it.
BlocksAnnounced(f) == SumFunction([i \in DOMAIN f.views |-> f.views[i].extended]) <= f.length

ASSUME ConvertAssumption ==
  /\ \A f \in Files : FileOK(f) /\ BlocksAnnounced(f)
  /\ Resolutions \subseteq USHORT /\ MaxRuns \in Nat /\ Failures \subseteq Nat

VARIABLES
  file,      \* the file at hand, ifmr once it is read
  iso_res,   \* the resolution given with -rx
  out_type,  \* -to
  pc,        \* "idle", "view", "write", and how the last run ended
  ofmr,      \* the record being made
  fmr_len,   \* the length it will announce
  ignored,   \* whose failures main has ignored in this run
  history    \* every file so far, with the ignored failures of its run

vars == <<file, iso_res, out_type, pc, ofmr, fmr_len, ignored, history>>

in_type == file.format_std
Isos    == {"ISO"} \cup Cards
Ansis   == {"ANSI", "ANSI07"}

-----------------------------------------------------------------------------
(* Numbers.  A double is represented by the fraction it stands for.        *)

\* round() of n/d: halves go up.
Round(n, d) == (2 * n + d) \div (2 * d)

\* The integers nearest to n/d; which one is taken at a half depends on the
\* last bit of the double.
Nearest(n, d) == {q \in {n \div d, n \div d + 1} : 2 * (q * d - n) \in -d .. d}

\* A conversion to an integer type that cannot hold the value wraps around or
\* saturates, by processor and compiler.
Cast(v, max, wraps) ==
  IF v <= max THEN v ELSE IF wraps THEN v % (max + 1) ELSE max

\* A coordinate (unsigned short)(0.5 + n/d); n/0 is an infinity or not a number.
Coordinate(n, d, wraps) ==
  IF d = 0 THEN {IF wraps THEN 0 ELSE USHRT_MAX}
           ELSE {Cast(q, USHRT_MAX, wraps) : q \in Nearest(n, d)}

FMD_MAX_MINUTIA_ANGLE          == 179
FMD_MAX_MINUTIA_ISOCC_ANGLE    == 63
FMD_UNKNOWN_MINUTIA_QUALITY    == 0
FMD_NOATTTEMPT_MINUTIA_QUALITY == 254
FMD_FAILED_MINUTIA_QUALITY     == 255

AtMost(v, max) == IF v > max THEN max ELSE v

\* Angles: ANSI counts 2 degrees, ISO 360/256, the compact card 360/64.
AnsiAngleToIso(a, wraps) == Cast(Round(2 * a * 256, 360), UCHAR_MAX, wraps)
AnsiAngleToCompact(a)    == AtMost(Round(2 * a * 64, 360), FMD_MAX_MINUTIA_ISOCC_ANGLE)
\* Mutant: both roundings are dropped.
IsoAngleToAnsiTruncated(i) == AtMost(((i * 360) \div 256) \div 2, FMD_MAX_MINUTIA_ANGLE)
IsoAngleToAnsi(i)        == AtMost(Round(Round(i * 360, 256), 2), FMD_MAX_MINUTIA_ANGLE)
CompactAngleToAnsi(c)    == Round(Round(c * 360 + 32, 64), 2)

-----------------------------------------------------------------------------
(* One minutia; res is the resolution in pixels per centimeter.            *)

\* ansi2iso_fvmr, for ISO and the normal card (1000 units per centimeter).
AnsiToIso(m, res, wraps) ==
  {[x |-> x, angle |-> AnsiAngleToIso(m.angle, wraps),
    quality |-> IF in_type = "ANSI07" /\ m.quality \in {FMD_FAILED_MINUTIA_QUALITY,
                                                        FMD_NOATTTEMPT_MINUTIA_QUALITY}
                  THEN FMD_UNKNOWN_MINUTIA_QUALITY ELSE m.quality] :
     x \in IF out_type = "ISO_NORMAL_CARD" THEN Coordinate(1000 * m.x, res, wraps)
                                               ELSE {m.x}}

\* Mutant: pixels per centimeter are taken for pixels per millimeter.
AnsiToCompactInMillimeters(m, res, wraps) ==
  {[x |-> x, angle |-> AnsiAngleToCompact(m.angle), quality |-> m.quality] :
     x \in Coordinate(10 * m.x, res, wraps)}

\* ansi2isocc_fvmr (100 units per centimeter).
AnsiToCompact(m, res, wraps) ==
  {[x |-> x, angle |-> AnsiAngleToCompact(m.angle), quality |-> m.quality] :
     x \in Coordinate(100 * m.x, res, wraps)}

\* iso2ansi_fvmr, from ISO and the normal card.
IsoToAnsi(m, res, wraps) ==
  {[x |-> x, angle |-> IsoAngleToAnsi(m.angle),
    quality |-> IF out_type = "ANSI07" /\ m.quality = FMD_UNKNOWN_MINUTIA_QUALITY
                  THEN FMD_NOATTTEMPT_MINUTIA_QUALITY ELSE m.quality] :
     x \in IF in_type = "ISO_NORMAL_CARD" THEN Coordinate(m.x * res, 1000, wraps)
                                              ELSE {m.x}}

\* isocc2ansi_fvmr.
CompactToAnsi(m, res, wraps) ==
  {[x |-> x, angle |-> CompactAngleToAnsi(m.angle), quality |-> FMD_UNKNOWN_MINUTIA_QUALITY] :
     x \in Coordinate(m.x * res, 100, wraps)}

ConvertMinutia(m, res, wraps) ==
  CASE in_type \in Ansis /\ out_type = "ISO_COMPACT_CARD" -> AnsiToCompact(m, res, wraps)
    [] in_type \in Ansis /\ out_type # "ISO_COMPACT_CARD" -> AnsiToIso(m, res, wraps)
    [] in_type = "ISO_COMPACT_CARD"                       -> CompactToAnsi(m, res, wraps)
    [] OTHER                                              -> IsoToAnsi(m, res, wraps)

\* number_of_minutiae, which only a card can make too small.
NumberOfMinutiae(v) == Len(v.minutiae) % (UCHAR_MAX + 1)

\* The minutiae of the view that is made of v; of a coordinate there are one or
\* two roundings.
ConvertMinutiae(v, res, wraps) ==
  LET n        == NumberOfMinutiae(v)
      options  == [i \in 1 .. n |-> ConvertMinutia(v.minutiae[i], res, wraps)]
      one(i)   == CHOOSE c \in options[i] : TRUE
      open     == {i \in 1 .. n : options[i] # {one(i)}}
      other(i) == CHOOSE c \in options[i] : c # one(i)
  IN {[i \in 1 .. n |-> IF i \in others THEN other(i) ELSE one(i)] : others \in SUBSET open}

-----------------------------------------------------------------------------
(* Lengths.                                                                *)

\* Where fmr_len starts; it is not initialized for cards, which have no field
\* for it.
HeaderLength(format) ==
  CASE format = "ANSI"   -> 26
    [] format = "ANSI07" -> 20
    [] OTHER             -> 24

FVMR_HEADER_LENGTH == 4

\* Mutant: the minutiae are counted by their length in the input.
ConvertedLengthOfInput(v) ==
  FVMR_HEADER_LENGTH + NumberOfMinutiae(v) * FmdLength(in_type)

\* *length of the four conversions.
ConvertedLength(v) ==
  FVMR_HEADER_LENGTH +
  NumberOfMinutiae(v) * (IF in_type \in Isos THEN 6 ELSE FmdLength(out_type))

-----------------------------------------------------------------------------
(* What a reader finds in the file that write_fmr makes of a record: fields *)
(* cut to their widths; on a card nothing but the minutiae of all views.   *)

StoredMinutia(m, format) ==
  IF format = "ISO_COMPACT_CARD"
    THEN [x |-> m.x % 256, angle |-> m.angle % 64, quality |-> 0]
    ELSE [x |-> m.x % 16384, angle |-> m.angle,
          quality |-> IF format = "ISO_NORMAL_CARD" THEN 0 ELSE m.quality]

StoredView(v, format) ==
  [resolution |-> IF format = "ANSI07" THEN v.resolution ELSE 0,
   extended   |-> v.extended,
   minutiae   |-> [i \in DOMAIN v.minutiae |-> StoredMinutia(v.minutiae[i], format)]]

AllMinutiae(views) == FlattenSeq([i \in DOMAIN views |-> views[i].minutiae])

Stored(r) ==
  LET format == r.format_std
      views  == [i \in DOMAIN r.views |-> StoredView(r.views[i], format)]
  IN IF format \in Cards
       THEN [format_std |-> format, num_views |-> 1, resolution |-> 0, length |-> 0,
             views |-> <<[resolution |-> 0, extended |-> 0, minutiae |-> AllMinutiae(views)]>>]
       ELSE [r EXCEPT !.views = views,
                      !.resolution = IF format = "ANSI07" THEN 0 ELSE r.resolution]

\* What is left of it when the disk fails.
Cut(f) ==
  IF f.format_std \in Cards
    THEN {[f EXCEPT !.views[1].minutiae = SubSeq(@, 1, n)] :
            n \in {0, Len(f.views[1].minutiae) \div 2}}
    ELSE {[f EXCEPT !.views = SubSeq(@, 1, n)] : n \in {k \in {0, 1} : k < Len(f.views)}}

-----------------------------------------------------------------------------
MayFail == Len(history) \in Failures

Init ==
  /\ file \in Files
  /\ iso_res \in Resolutions
  /\ out_type = "none" /\ pc = "idle" /\ ofmr = <<>> /\ fmr_len = 0 /\ ignored = {}
  /\ history = <<[file |-> file, ignored |-> {}]>>

Unsupported(out) == in_type \in Isos /\ out \in Isos
Readable         == file.num_views = Len(file.views)

\* A new run of the program, to the format `out'.
Begin(out) ==
  /\ pc \in {"idle", "success", "failure"}
  /\ Len(history) <= MaxRuns
  /\ out_type' = out /\ ignored' = {}
  /\ UNCHANGED <<file, iso_res, history>>

\* main gives up and removes the output file.
Reject ==
  \E out \in AllFormats :
    /\ Begin(out)
    /\ Unsupported(out) \/ ~ Readable \/ MayFail
    /\ pc' = "failure" /\ UNCHANGED <<ofmr, fmr_len>>

ReadResolution == IF in_type \in Cards THEN iso_res ELSE file.resolution

Start ==
  \E out \in AllFormats :
    /\ Begin(out)
    /\ ~ Unsupported(out) /\ Readable
    /\ ofmr' = [format_std |-> out, num_views |-> file.num_views,
                resolution |-> ReadResolution, length |-> file.length, views |-> <<>>]
    /\ fmr_len' = HeaderLength(out)
    /\ pc' = "view"

MoreViews == Len(ofmr.views) < file.num_views
CurrentView == file.views[Len(ofmr.views) + 1]

CopyView ==
  /\ pc = "view" /\ MoreViews /\ in_type = out_type
  /\ ofmr' = [ofmr EXCEPT !.views = Append(@, [CurrentView EXCEPT !.extended = 0]),
                          !.length = @ - CurrentView.extended]
  /\ UNCHANGED <<file, iso_res, out_type, pc, fmr_len, ignored, history>>

\* The header of the new record, given the resolution of the first view.
Canonical(r) ==
  IF in_type = "ANSI07" /\ out_type # "ANSI07" THEN [r EXCEPT !.resolution = file.views[1].resolution]
                                               ELSE r

ConvertedResolution(v) == IF in_type \in {"ISO", "ISO_NORMAL_CARD"} THEN ReadResolution ELSE v.resolution

\* get_fmds returns another number than get_fmd_count.
Miscounted(v) == NumberOfMinutiae(v) \notin {0, Len(v.minutiae)}

ConvertView ==
  /\ pc = "view" /\ MoreViews /\ in_type # out_type
  /\ ~ {in_type, out_type} \subseteq Ansis
  /\ ~ Miscounted(CurrentView)
  /\ \E wraps \in BOOLEAN : \E minutiae \in ConvertMinutiae(CurrentView, ReadResolution, wraps) :
       ofmr' = [Canonical(ofmr) EXCEPT
                  !.views = Append(@, [resolution |-> ConvertedResolution(CurrentView),
                                       extended |-> 0, minutiae |-> minutiae])]
  /\ fmr_len' = fmr_len + ConvertedLength(CurrentView) + FEDB_HEADER_LENGTH
  /\ UNCHANGED <<file, iso_res, out_type, pc, ignored, history>>

\* copy_with_conversion or copy_without_conversion returns -1: no views, no such
\* conversion, minutiae that do not add up, or no memory.
GiveUp ==
  /\ pc = "view"
  /\ \/ file.num_views = 0
     \/ MoreViews /\ \/ in_type # out_type /\ {in_type, out_type} \subseteq Ansis
                     \/ Miscounted(CurrentView)
                     \/ MayFail
  /\ ofmr' \in (IF file.num_views = 0 THEN {ofmr}
                  ELSE IF MayFail THEN {ofmr, Canonical(ofmr)} ELSE {Canonical(ofmr)})
  /\ ignored' = ignored \cup {"copy"} /\ pc' = "write"
  /\ UNCHANGED <<file, iso_res, out_type, fmr_len, history>>

Finish ==
  /\ pc = "view" /\ file.num_views > 0 /\ ~ MoreViews
  /\ ofmr' = IF in_type = out_type THEN ofmr ELSE [ofmr EXCEPT !.length = fmr_len]
  /\ pc' = "write"
  /\ UNCHANGED <<file, iso_res, out_type, fmr_len, ignored, history>>

\* write_fmr, whose result is ignored, and exit(EXIT_SUCCESS).
Exit(f, failures) ==
  /\ pc = "write"
  /\ file' = f /\ ignored' = failures
  /\ history' = Append(history, [file |-> f, ignored |-> failures])
  /\ pc' = "success"
  /\ UNCHANGED <<iso_res, out_type, ofmr, fmr_len>>

Write == Exit(Stored(ofmr), ignored)

WriteFails ==
  /\ MayFail
  /\ \E f \in Cut(Stored(ofmr)) : Exit(f, ignored \cup {"write"})

Next == Reject \/ Start \/ CopyView \/ ConvertView \/ GiveUp \/ Finish \/ Write \/ WriteFails

Spec == Init /\ [][Next]_vars

-----------------------------------------------------------------------------
(* Properties.                                                             *)

\* The struct of a minutia has room for larger coordinates than the wire.
MadeMinutiae == [x : USHORT, angle : UCHAR, quality : UCHAR]
MadeViews    == [resolution : USHORT, extended : USHORT, minutiae : Seq(MadeMinutiae)]

RecordTypeOK(r) ==
  r \in [format_std : AllFormats, num_views : UCHAR, resolution : USHORT, length : Nat,
         views : Seq(MadeViews)]

(***************************************************************************)
(* What is made fits the fields of its struct, and what is written can be  *)
(* read again.                                                             *)
(***************************************************************************)
TypeOK ==
  /\ pc \in {"idle", "view", "write", "success", "failure"}
  /\ FileOK(file) /\ fmr_len \in Nat
  /\ pc \in {"view", "write"} => RecordTypeOK(ofmr) /\ Len(ofmr.views) <= ofmr.num_views
  /\ ignored \subseteq {"copy", "write"}

\* The last run, when it has done everything it was asked for.
Done  == pc = "success" /\ ignored = {}
Input == history[Len(history) - 1].file

MaxAngle(format) ==
  CASE format \in Ansis             -> 179
    [] format = "ISO_COMPACT_CARD"  -> 63
    [] OTHER                        -> 255
Qualities(format) == 0 .. 100 \cup (IF format = "ANSI07" THEN {254, 255} ELSE {})
Legal(f) == \A m \in Range(AllMinutiae(f.views)) :
              m.angle <= MaxAngle(f.format_std) /\ m.quality \in Qualities(f.format_std)

(***************************************************************************)
(* Where a minutia is, in units per centimeter, and where it points to, in *)
(* 32nds of a degree.                                                      *)
(***************************************************************************)
Density(f, v) ==
  CASE f.format_std = "ISO_NORMAL_CARD"  -> 1000
    [] f.format_std = "ISO_COMPACT_CARD" -> 100
    [] f.format_std = "ANSI07"           -> v.resolution
    [] OTHER                             -> f.resolution

AngleUnit(f) ==
  CASE f.format_std \in Ansis            -> 64
    [] f.format_std = "ISO_COMPACT_CARD" -> 180
    [] OTHER                             -> 45
FullCircle == 360 * 32

Placed(f) ==
  FlattenSeq([i \in DOMAIN f.views |->
    [j \in DOMAIN f.views[i].minutiae |->
       [m |-> f.views[i].minutiae[j], density |-> Density(f, f.views[i])]]])

\* The nearest coordinate in the new unit fits the new field.
FitsField(p, density, format) ==
  /\ p.density > 0 /\ density > 0
  /\ Round(p.m.x * density, p.density) <= MaxCoordinate(format)

\* p has become q, no further off than half a unit.
SamePlace(p, q) ==
  LET d == p.m.x * q.density - q.m.x * p.density IN 2 * d \in -p.density .. p.density

SameDirection(p, q) ==
  LET d == (p.m.angle * AngleUnit(Input) - q.m.angle * AngleUnit(file)) % FullCircle
      unit == Max({AngleUnit(Input), AngleUnit(file)})
  IN d < unit \/ FullCircle - d < unit

\* The resolution is in the view of an ANSI07 record and is not looked for there
\* when a card is made; nor is it put there when a compact card is read.
LosesResolution(from, to) ==
  \/ from = "ANSI07" /\ to \in Cards
  \/ from = "ISO_COMPACT_CARD" /\ to = "ANSI07"

Resolved(f) == \A i \in DOMAIN f.views : f.format_std = "ANSI07" =>
                                           f.views[i].resolution = f.views[1].resolution
Countable(f) == \A i \in DOMAIN f.views : Len(f.views[i].minutiae) <= UCHAR_MAX

(***************************************************************************)
(* A run that ignored no failure has put every minutia into the new file,  *)
(* in its order, at its place and in its direction (less than a unit of    *)
(* the coarser format off); legal angles and qualities have become legal   *)
(* ones of the other format.                                               *)
(***************************************************************************)
MinutiaeKept ==
  /\ TypeOK
  /\ Done /\ Legal(Input) => Legal(file)
  /\ Done /\ Countable(Input) /\ Resolved(Input)
          /\ ~ LosesResolution(Input.format_std, file.format_std) =>
       LET old == Placed(Input)
           new == Placed(file)
       IN /\ Len(new) = Len(old)
          /\ \A i \in DOMAIN old :
               /\ FitsField(old[i], new[i].density, file.format_std) => SamePlace(old[i], new[i])
               /\ old[i].m.angle <= MaxAngle(Input.format_std) => SameDirection(old[i], new[i])

\* Bytes of a file with a header.
Bytes(f) ==
  (IF f.format_std = "ANSI" /\ f.length > USHRT_MAX THEN 30 ELSE HeaderLength(f.format_std)) +
  SumFunction([i \in DOMAIN f.views |->
    ViewHeaderLength(f.format_std) + 6 * Len(f.views[i].minutiae)
      + FEDB_HEADER_LENGTH + f.views[i].extended])

(***************************************************************************)
(* The length in the header is that of the file.  ANSI records cross the   *)
(* limit of the short length field when a copy drops a block; the views of *)
(* ANSI07 records have a longer header than is counted.                    *)
(***************************************************************************)
LengthIsTrue ==
  Done /\ file.format_std \notin Cards /\ Bytes(Input) <= USHRT_MAX
       /\ (Input.format_std \notin Cards => Input.length = Bytes(Input))
       /\ (file.format_std = "ANSI07" => Input.format_std = "ANSI07") =>
    file.length = Bytes(file)

AllFit(f, g) ==
  LET old == Placed(f)
      new == Placed(g)
  IN Len(old) = Len(new) /\ \A i \in DOMAIN old : FitsField(old[i], new[i].density, g.format_std)

\* The new coordinate is decided by the last bit of a double.
Halfway(p, density) == Cardinality(Nearest(p.m.x * density, p.density)) = 2

(***************************************************************************)
(* Conversions do not drift: an ANSI record or compact card that has been  *)
(* converted to another format and back once keeps its minutiae when that  *)
(* is done again, as long as every coordinate fits the field it is written *)
(* to.  ISO angles, which are finer than ANSI ones, take one trip more.    *)
(***************************************************************************)
Settles ==
  LET n == Len(history)
      f(i) == history[i].file
      ThereAndBack ==   \* five files, taking turns between two formats
        /\ \A i \in n - 4 .. n : history[i].ignored = {}
        /\ \A i \in n - 2 .. n : f(i).format_std = f(i - 2).format_std
        /\ f(n).format_std \notin {"ISO", "ISO_NORMAL_CARD"}
        /\ ~ LosesResolution(f(n).format_std, f(n - 1).format_std)
        /\ ~ LosesResolution(f(n - 1).format_std, f(n).format_std)
        /\ Resolved(f(n - 4)) /\ Legal(f(n - 4))
        /\ \A i \in n - 3 .. n : AllFit(f(i - 1), f(i))
  IN pc = "success" /\ n > 4 /\ ThereAndBack =>
       LET old == Placed(f(n - 2))
           mid == Placed(f(n - 1))
           new == Placed(f(n))
       IN \A i \in DOMAIN old :
            \/ old[i] = new[i]
            \/ Halfway(mid[i], new[i].density) /\ old[i].m.angle = new[i].m.angle

=============================================================================
