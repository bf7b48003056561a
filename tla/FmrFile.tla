------------------------------ MODULE FmrFile -------------------------------
(***************************************************************************)
(* What the programs of fingerminutia/src exchange: files of ANSI Finger   *)
(* Minutiae Records.  A file is the sequence of the records a reader finds *)
(* in it.  FmrReader, FedbReader, FmrWriter and FmrCodec have the          *)
(* functions that read and write them field by field; here are the bytes a *)
(* record takes, and what is stored of a record in memory.                 *)
(***************************************************************************)
EXTENDS FmrConform

RCE_METHODS   == 0 .. 2
MINUTIA_TYPES == 0 .. 2     \* other, ridge ending, bifurcation
IMPRESSIONS   == {0, 1, 2, 3, 8, 9}
ANGULAR       == 1          \* CORE_TYPE_ANGULAR, DELTA_TYPE_ANGULAR

SumOf(f(_), seq) == SumFunction([i \in DOMAIN seq |-> f(seq[i])])

-----------------------------------------------------------------------------
(* Extended data.  A FED has the length it announces and its contents:     *)
(*   ridge counts     [type, length, method, counts]                       *)
(*   cores and deltas [type, length, core_type, cores, delta_type, deltas] *)

FedBytes(fed) ==
  FED_HEADER_LENGTH +
  IF fed.type = FED_RIDGE_COUNT
    THEN 1 + RIDGE_COUNT_DATA_LENGTH * Len(fed.counts)
    ELSE 1 + CoreSize(fed.core_type = ANGULAR)   * Len(fed.cores) +
         1 + DeltaSize(fed.delta_type = ANGULAR) * Len(fed.deltas)

\* `extended' is a sequence of one block, or of none (a NULL pointer).
FedsOf(view) == IF view.extended = <<>> THEN <<>> ELSE view.extended[1].feds

BlockBytes(view) == SumOf(FedBytes, FedsOf(view))

\* get_rcds, get_cores, get_deltas: those of all FEDs.
RidgeCounts(view) ==
  FlattenSeq([i \in DOMAIN FedsOf(view) |->
                LET fed == FedsOf(view)[i]
                IN IF fed.type = FED_RIDGE_COUNT THEN fed.counts ELSE <<>>])
Cores(view) ==
  FlattenSeq([i \in DOMAIN FedsOf(view) |->
                LET fed == FedsOf(view)[i]
                IN IF fed.type = FED_CORE_AND_DELTA THEN fed.cores ELSE <<>>])
Deltas(view) ==
  FlattenSeq([i \in DOMAIN FedsOf(view) |->
                LET fed == FedsOf(view)[i]
                IN IF fed.type = FED_CORE_AND_DELTA THEN fed.deltas ELSE <<>>])

-----------------------------------------------------------------------------
(* Records.  number_of_minutiae is the length of the list of minutiae.     *)

FMD_DATA_LENGTH    == 6
FVMR_HEADER_LENGTH == 4
SMALL_HEADER       == 26
LARGE_HEADER       == 30

\* What the fields of a record in memory may hold.
Places   == [x : USHORT, y : USHORT]
Minutiae == [type : UCHAR, x : USHORT, y : USHORT, angle : UCHAR, quality : UCHAR]
Counts   == [one : UCHAR, two : UCHAR, count : UCHAR]
Feds     == [type : {FED_RIDGE_COUNT}, length : USHORT, method : UCHAR, counts : Seq(Counts)]
              \cup
            [type : {FED_CORE_AND_DELTA}, length : USHORT, core_type : UCHAR, cores : Seq(Places),
             delta_type : UCHAR, deltas : Seq(Places)]
Blocks   == [block_length : USHORT, feds : Seq(Feds)]
Fvmrs    == [finger_number : UCHAR, view_number : UCHAR, impression_type : UCHAR,
             finger_quality : UCHAR, minutiae : Seq(Minutiae), extended : Seq(Blocks)]
Fmrs     == [record_length : Nat, long : BOOLEAN, owner : USHORT, x_image_size : USHORT,
             y_image_size : USHORT, x_resolution : USHORT, y_resolution : USHORT,
             num_views : UCHAR, views : Seq(Fvmrs)]

\* Those that are in a file: view number and impression have four bits each there, the
\* type of a minutia has two, and a coordinate 14.
Coordinates  == 0 .. 16383
FileMinutiae == {m \in Minutiae : m.type \in 0 .. 3 /\ m.x \in Coordinates /\ m.y \in Coordinates}
FileViews    == {view \in Fvmrs : /\ view.view_number \in 0 .. 15 /\ view.impression_type \in 0 .. 15
                                  /\ \A m \in DOMAIN view.minutiae : view.minutiae[m] \in FileMinutiae}
FileFmrs     == {record \in Fmrs : \A v \in DOMAIN record.views : record.views[v] \in FileViews}

\* Of a record read, whether its header is the long one.
HeaderOf(record) == IF record.long THEN LARGE_HEADER ELSE SMALL_HEADER

ViewBytes(view) ==
  FVMR_HEADER_LENGTH + FMD_DATA_LENGTH * Len(view.minutiae) +
  FEDB_HEADER_LENGTH + BlockBytes(view)

RecordBytes(record) == HeaderOf(record) + SumOf(ViewBytes, record.views)
FileBytes(records)  == SumOf(RecordBytes, records)

\* The type has two bits of a field and x the others; so have reserved bits and y.
StoredMinutia(m) ==
  [type |-> m.type % 4, x |-> m.x % 16384, y |-> m.y % 16384,
   angle |-> m.angle, quality |-> m.quality]

\* A core is read as angular when its block is; no angle is written for others.
StoredPlace(p) == [x |-> p.x % 16384, y |-> p.y % 16384]
StoredFed(fed) ==
  IF fed.type = FED_RIDGE_COUNT THEN fed
    ELSE [fed EXCEPT !.cores  = [i \in DOMAIN @ |-> StoredPlace(@[i])],
                     !.deltas = [i \in DOMAIN @ |-> StoredPlace(@[i])]]

\* a | b, of four bits each.
Either(a, b) ==
  LET bit(w) == IF (a \div w) % 2 = 1 \/ (b \div w) % 2 = 1 THEN w ELSE 0
  IN bit(1) + bit(2) + bit(4) + bit(8)

\* View number and impression share a byte: the upper bits of the one are lost, those of
\* the other get into the view number.
StoredView(view) ==
  [finger_number |-> view.finger_number,
   view_number |-> Either(view.view_number % 16, view.impression_type \div 16),
   impression_type |-> view.impression_type % 16, finger_quality |-> view.finger_quality,
   minutiae |-> [i \in DOMAIN view.minutiae |-> StoredMinutia(view.minutiae[i])],
   extended |->
     IF FedsOf(view) = <<>> THEN <<>>
       ELSE <<[block_length |-> view.extended[1].block_length,
               feds |-> [i \in DOMAIN FedsOf(view) |-> StoredFed(FedsOf(view)[i])]]>>]

\* write_fmr, then read_fmr: the header is long for a long record.
Stored(record) ==
  [record EXCEPT !.long = record.record_length > USHRT_MAX,
                 !.views = [i \in DOMAIN @ |-> StoredView(@[i])]]

\* What is left of one record when the disk is full: nothing, or its header and
\* some of its views (bound: half of them).
CutRecord(record) ==
  {<<>>} \cup
  (IF record.views = <<>> THEN {}
     ELSE {<<[record EXCEPT !.views = SubSeq(@, 1, Len(@) \div 2)]>>})

\* A record that read_fmr reads.
Whole(record) == record.num_views = Len(record.views)

-----------------------------------------------------------------------------
(* validate_fmr: the first verdict on a record, of what is checked of it.   *)

CheckedFed(fed) ==
  IF fed.type = FED_RIDGE_COUNT
    THEN [length |-> fed.length, at |-> <<>>, fields |-> fed.method \in RCE_METHODS,
          index |-> FlattenSeq([i \in DOMAIN fed.counts |->
                                  <<fed.counts[i].one, fed.counts[i].two>>])]
    ELSE [length |-> fed.length, at |-> fed.cores \o fed.deltas, fields |-> TRUE,
          index |-> <<>>]

CheckedView(view) ==
  [finger_number |-> view.finger_number, view_number |-> view.view_number,
   fields |-> view.impression_type \in IMPRESSIONS /\ view.finger_quality <= 100,
   number_of_minutiae |-> Len(view.minutiae),
   minutiae_data |->
     [i \in DOMAIN view.minutiae |->
        LET m == view.minutiae[i]
        IN [at |-> [x |-> m.x, y |-> m.y],
            fields |-> m.type \in MINUTIA_TYPES /\ m.angle <= 179 /\ m.quality <= 100]],
   extended |->
     IF view.extended = <<>> THEN <<>>
       ELSE <<[block_length |-> view.extended[1].block_length,
               feds |-> [i \in DOMAIN view.extended[1].feds |->
                           CheckedFed(view.extended[1].feds[i])]]>>]

CheckedHeader(record) ==
  [format_std |-> "ANSI", fields |-> TRUE, reserved |-> 0,
   record_length |-> record.record_length, owner |-> record.owner,
   x_resolution |-> record.x_resolution, y_resolution |-> record.y_resolution,
   x_image_size |-> record.x_image_size, y_image_size |-> record.y_image_size]

Conforms(record) ==
  RecordConforms(CheckedHeader(record),
                 [i \in DOMAIN record.views |-> CheckedView(record.views[i])])

=============================================================================
