------------------------------ MODULE FmrAn2k -------------------------------
(***************************************************************************)
(* What fmr2an2k makes of a Finger Minutiae Record, and an2k2fmr of an     *)
(* ANSI/NIST file (fmr2an2k/fmr2an2k.c, an2k2fmr/an2k2fmr.c).              *)
(*                                                                         *)
(* An ANSI/NIST file is a record [contents, records]: what its Type-1      *)
(* record says of the others, pairs <<type, idc>>, and the others.  The    *)
(* library that keeps, writes and reads it, an2k, is not in the            *)
(* repository: external.  The text of Type-2 and the pixels of Type-13 are *)
(* left out.                                                               *)
(*                                                                         *)
(* Both programs calculate in float.  What is an integer, or next to one,  *)
(* may come out on either side of it, so that the results here are sets.   *)
(***************************************************************************)
EXTENDS FmrFile

\* The integers that n / d may be truncated to, calculated from floats as large
\* as size / d: 24 bits of precision.
Truncated(n, d, size) ==
  LET q == n \div d
      error == size \div 4194304
  IN IF n = 0 THEN {0}
       ELSE {q} \cup (IF n % d <= error     THEN {q - 1} \cap Nat ELSE {})
                \cup (IF d - (n % d) <= error THEN {q + 1} ELSE {})

\* One member of each of these sets.
OneOfEach(sets) ==
  {s \in [DOMAIN sets -> UNION {sets[k] : k \in DOMAIN sets}] :
     \A k \in DOMAIN sets : s[k] \in sets[k]}

USHRT(n) == n % (USHRT_MAX + 1)

-----------------------------------------------------------------------------
(* The records of an ANSI/NIST file.  A Type-9 record has a subfield for   *)
(* each minutia it counts, with the digits of the coordinates and angle.   *)

Items(length) == {digits \in Seq(0 .. 9) : Len(digits) >= length}
Subfields == [index : Nat, at : Items(11), quality : Nat, type : {"A", "B", "C", "D"},
              counts : Seq([other : UCHAR, count : UCHAR])]
AnsiRecords ==
  [type : {2}, idc : Nat]
    \cup [type : {4},  idc : Nat, isr : Nat, width : Nat, height : Nat]
    \cup [type : {13}, idc : Nat, units : {"inch", "cm"}, scale : Nat, width : Nat, height : Nat]
    \cup {r \in [type : {9}, idc : Nat, impression : UCHAR, finger : UCHAR, cores : Seq(Items(8)),
                 deltas : Seq(Items(8)), count : Nat, minutiae : Seq(Subfields)] :
            r.count <= Len(r.minutiae)}

-----------------------------------------------------------------------------
(* Items of digits.                                                        *)

\* The place of a digit with k digits behind it.
Tens == <<1, 10, 100, 1000, 10000, 100000, 1000000, 10000000, 100000000, 1000000000>>
Ten(k) == Tens[k + 1]

\* "%0<width>u": as many digits as it takes.
Digits(n, width) ==
  LET length == CHOOSE k \in width .. 9 : n < Ten(k) /\ (k > width => n >= Ten(k - 1))
  IN [k \in 1 .. length |-> (n \div Ten(length - k)) % 10]

Number(digits) == SumFunction([k \in DOMAIN digits |-> digits[k] * Ten(Len(digits) - k)])

\* The coordinates are strung together, and separated again.
Strung(x, y)      == Digits(x, 4) \o Digits(y, 4)
Separated(digits) ==
  [x |-> USHRT(Number(SubSeq(digits, 1, 4))), y |-> USHRT(Number(SubSeq(digits, 5, 8)))]

-----------------------------------------------------------------------------
(* fmr2an2k.                                                               *)

\* convert_xy: from pixels to hundredths of a millimeter, and from the upper to the
\* lower left corner.  The coordinates lie in the image.
AnsiX(record, p) ==
  IF record.x_resolution = 0 THEN {0}
    ELSE {USHRT(x) : x \in Truncated(2000 * p.x + record.x_resolution, 2 * record.x_resolution,
                                     2000 * p.x)}

\* Of a point below the image, which no conforming record has, the code casts a negative
\* float to an unsigned short: undefined, and taken here as on the way through an int.
AnsiY(record, p) ==
  IF record.y_resolution = 0 THEN {0}
    ELSE {USHRT(y) : y \in Truncated(1000 * (record.y_image_size - 1 - p.y), record.y_resolution,
                                     1000 * (record.y_image_size - 1))}

AnsiPlaces(record, p) == {Strung(x, y) : x \in AnsiX(record, p), y \in AnsiY(record, p)}

\* convert_theta and convert_type; convert_quality makes 0 of everything.
AnsiTheta(angle) == (2 * angle + 180) % 360
AnsiType(type)   == CASE type = 1 -> "A" [] type = 2 -> "B" [] OTHER -> "D"

\* The ridge counts of minutia number index, with the index that is the other one.
CountsAt(counts, index) ==
  FlattenSeq([k \in DOMAIN counts |->
    CASE counts[k].one = index -> <<[other |-> counts[k].two, count |-> counts[k].count]>>
      [] counts[k].one # index /\ counts[k].two = index ->
           <<[other |-> counts[k].one, count |-> counts[k].count]>>
      [] OTHER -> <<>>])

\* The items of the subfields of 9.012, field MRC.
AnsiMinutiae(record, view) ==
  {[k \in DOMAIN view.minutiae |->
      [index  |-> k,
       at     |-> places[k] \o Digits(AnsiTheta(view.minutiae[k].angle), 3),
       quality |-> 0,
       type   |-> AnsiType(view.minutiae[k].type),
       counts |-> CountsAt(RidgeCounts(view), k)]] :
     places \in OneOfEach([k \in DOMAIN view.minutiae |->
                             AnsiPlaces(record, view.minutiae[k])])}

\* Fields CRP and DLT, 9.008 and 9.009.
AnsiCores(record, points) ==
  OneOfEach([k \in DOMAIN points |-> AnsiPlaces(record, points[k])])

\* create_type9; a field is absent when it has nothing.
Type9(record, view, idc) ==
  {[type |-> 9, idc |-> idc, impression |-> view.impression_type, finger |-> view.finger_number,
    cores |-> cores, deltas |-> deltas, count |-> Len(view.minutiae), minutiae |-> minutiae] :
     cores    \in AnsiCores(record, Cores(view)),
     deltas   \in AnsiCores(record, Deltas(view)),
     minutiae \in AnsiMinutiae(record, view)}

\* create_type13: the units in which image2type_13 states the resolution are external.
Type13(record, idc) ==
  LET image(units, scale) ==
        [type |-> 13, idc |-> idc, units |-> units, scale |-> scale,
         width |-> record.x_image_size, height |-> record.y_image_size]
  IN {image("inch", (254 * record.x_resolution + 50) \div 100),
      image("cm", record.x_resolution)}

\* create_type2 and create_type1.
Type2    == [type |-> 2, idc |-> 0]
NewAnsi  == [contents |-> <<>>, records |-> <<>>]

\* update_type1 and update_ANSI_NIST.
Add(ansi_nist, record) ==
  [contents |-> Append(ansi_nist.contents, <<record.type, record.idc>>),
   records  |-> Append(ansi_nist.records, record)]

-----------------------------------------------------------------------------
(* an2k2fmr.                                                               *)

\* convert_type13_SLC
Type13Resolutions(image) ==
  IF image.units = "cm" THEN {USHRT(image.scale)}
    ELSE {USHRT(res) : res \in Truncated(100 * image.scale, 254, 100 * image.scale)}

\* convert_type4_ISR: MIN_RESOLUTION of an2k (external), 19.69 pixels per millimeter,
\* or not known.
Type4Resolution(image) == IF image.isr = 0 THEN 197 ELSE 0

\* set_fmr_img; the other image records have no resolution either.
Resolutions(image) ==
  IF image.type = 13 THEN Type13Resolutions(image) ELSE {Type4Resolution(image)}

\* lookup_fingerprint_with_IDC
ImagesWith(ansi_nist, idc) ==
  {image \in Range(ansi_nist.records) : image.type \in {4, 13} /\ image.idc = idc}

\* init_fmr and set_fmr_img: the header, without an image all zeros.
FmrHeaders(ansi_nist, idc) ==
  LET header(width, height, res) ==
        [record_length |-> SMALL_HEADER, long |-> FALSE, owner |-> 0,
         x_image_size |-> width, y_image_size |-> height,
         x_resolution |-> res, y_resolution |-> res, num_views |-> 0, views |-> <<>>]
      images == ImagesWith(ansi_nist, idc)
  IN IF images = {} THEN {header(0, 0, 0)}
       ELSE UNION {{header(USHRT(image.width), USHRT(image.height), res) : res \in Resolutions(image)} :
                     image \in images}

\* convert_xy: back to pixels.  Below the image y is negative; what the conversion to
\* an unsigned short makes of it is undefined, and 65536 more on the usual machines.
FmrX(header, x) ==
  IF header.x_resolution = 0 THEN {0}
    ELSE {USHRT(p) : p \in Truncated(x * header.x_resolution + 500, 1000, x * header.x_resolution)}

FmrY(header, y) ==
  LET n == 1000 * (header.y_image_size - 1) - y * header.y_resolution
      size == 1000 * header.y_image_size
  IN CASE header.y_resolution = 0 -> {0}
       [] header.y_resolution # 0 /\ y = 0 -> {USHRT(header.y_image_size - 1)}
       [] header.y_resolution # 0 /\ y # 0 /\ n >= 0 -> {USHRT(p) : p \in Truncated(n, 1000, size)}
       [] header.y_resolution # 0 /\ n < 0 -> {USHRT(-p) : p \in Truncated(-n, 1000, size)}

\* Mutant: the angle is not turned back.
FmrThetaAsIs(theta) == (theta % 360) \div 2

\* convert_theta and convert_type
FmrTheta(theta) == ((theta + 180) % 360) \div 2
FmrType(type)   == CASE type = "A" -> 1 [] type = "B" -> 2 [] OTHER -> 0

FmrMinutiae(header, subfields) ==
  LET minutia(s, x, y) ==
        [type |-> FmrType(s.type), x |-> x, y |-> y,
         angle |-> FmrTheta(Number(SubSeq(s.at, 9, 11))), quality |-> s.quality % (UCHAR_MAX + 1)]
  IN OneOfEach([k \in DOMAIN subfields |->
        {minutia(subfields[k], x, y) : x \in FmrX(header, Separated(subfields[k].at).x),
                                       y \in FmrY(header, Separated(subfields[k].at).y)}])

\* The FED of cores and deltas, up to 255 of each: its length has a count only of what is
\* there.
CoreDeltaFed(record9) ==
  LET points(fields) == [k \in DOMAIN fields |-> Separated(fields[k])]
      size(fields) == IF fields = <<>> THEN 0 ELSE 1 + 4 * Len(fields)
  IN [type |-> FED_CORE_AND_DELTA,
      length |-> USHRT(FED_HEADER_LENGTH + size(record9.cores) + size(record9.deltas)),
      core_type |-> 0, cores |-> points(record9.cores),
      delta_type |-> 0, deltas |-> points(record9.deltas)]

\* The FED of ridge counts.
RidgeFed(subfields) ==
  LET counts(s) == [k \in DOMAIN s.counts |->
                      [one |-> s.index % (UCHAR_MAX + 1), two |-> s.counts[k].other,
                       count |-> s.counts[k].count]]
      all == FlattenSeq([k \in DOMAIN subfields |-> counts(subfields[k])])
  IN [type |-> FED_RIDGE_COUNT,
      length |-> USHRT(FED_HEADER_LENGTH + 1 + RIDGE_COUNT_DATA_LENGTH * Len(all)),
      method |-> 0, counts |-> all]

FMR_MAX_NUM_MINUTIAE == 255

\* init_fvmr: the views that may come of a Type-9 record.  The coordinates of cores
\* and deltas stay in hundredths of a millimeter.
Views(header, record9, view_number) ==
  LET subfields == SubSeq(record9.minutiae, 1,
                          IF record9.count > FMR_MAX_NUM_MINUTIAE THEN FMR_MAX_NUM_MINUTIAE
                                                                  ELSE record9.count)
      feds == (IF record9.cores = <<>> /\ record9.deltas = <<>> THEN <<>>
                 ELSE <<CoreDeltaFed(record9)>>) \o
              (IF \A k \in DOMAIN subfields : subfields[k].counts = <<>> THEN <<>>
                 ELSE <<RidgeFed(subfields)>>)
  IN {[finger_number |-> record9.finger, view_number |-> view_number % (UCHAR_MAX + 1),
       impression_type |-> record9.impression, finger_quality |-> 0, minutiae |-> minutiae,
       extended |-> IF feds = <<>> THEN <<>>
                      ELSE <<[block_length |-> USHRT(FedLengths(feds)), feds |-> feds]>>] :
        minutiae \in FmrMinutiae(header, subfields)}

\* The length main calculates: two bytes short of a view without extended data.
An2kLength(view) ==
  SMALL_HEADER + FVMR_HEADER_LENGTH + FMD_DATA_LENGTH * Len(view.minutiae) +
  IF view.extended = <<>> THEN 0 ELSE FEDB_HEADER_LENGTH + view.extended[1].block_length

\* The records main may make of a Type-9 record, the view_number-th of its finger.
FmrsOf(ansi_nist, record9, view_number) ==
  UNION {{[header EXCEPT !.views = <<view>>, !.num_views = 1,
                         !.record_length = An2kLength(view)] :
            view \in Views(header, record9, view_number)} :
           header \in FmrHeaders(ansi_nist, record9.idc)}

=============================================================================
