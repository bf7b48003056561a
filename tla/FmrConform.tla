----------------------------- MODULE FmrConform -----------------------------
(***************************************************************************)
(* What it is for a Finger Minutiae Record to conform (libfmr/validate.c): *)
(* the conditions on the header, the views and their extended data that    *)
(* the checker evaluates one by one.  FmrValidate has the order in which   *)
(* it does, and its memory of view numbers; FmrFile asks for the whole.    *)
(*                                                                         *)
(* Left out: the angles, qualities and type codes, which are range checks  *)
(* on one field each; `fields' says of an element whether they all pass.   *)
(***************************************************************************)
EXTENDS FmrDefs, Integers, SequencesExt

\* Finger codes a record may have, and the slots next_min_view has for them.
FMR_MAX_FINGER_CODE == 10
FingerCodes == 0 .. FMR_MAX_FINGER_CODE

HasHeader(header) == header.format_std \in {"ANSI", "ISO", "ANSI07"}

\* Of ANSI07 records neither the views nor the places of minutiae are checked.
IsChecked(header) == header.format_std \in {"ANSI", "ISO"}

MinRecordLength(header) ==
  CHOOSE n \in HeaderLengths(header.format_std) :
    \A m \in HeaderLengths(header.format_std) : n <= m

HeaderConforms(header) ==
  HasHeader(header) =>
    /\ header.fields
    /\ header.record_length >= MinRecordLength(header)
    /\ header.format_std = "ANSI" => header.owner # 0
    /\ IsChecked(header) => header.x_resolution # 0 /\ header.y_resolution # 0
    /\ header.reserved = 0

\* unsigned short coord = image_size - 1
LastCoord(image_size) == (image_size - 1) % (USHRT_MAX + 1)

PointConforms(p, header) ==
  /\ p.x <= LastCoord(header.x_image_size)
  /\ p.y <= LastCoord(header.y_image_size)

FmdConforms(fmd, header) ==
  fmd.fields /\ (IsChecked(header) => PointConforms(fmd.at, header))

FedConforms(fed, view, header) ==
  /\ fed.fields
  /\ \A i \in DOMAIN fed.index : fed.index[i] <= view.number_of_minutiae
  /\ \A i \in DOMAIN fed.at : PointConforms(fed.at[i], header)

FedLengths(feds) == SumFunction([i \in DOMAIN feds |-> feds[i].length])

FedbConforms(fedb, view, header) ==
  /\ fedb.block_length = FedLengths(fedb.feds)
  /\ \A i \in DOMAIN fedb.feds : FedConforms(fedb.feds[i], view, header)

\* All of a view but its number.
ContentsConform(view, header) ==
  /\ IsChecked(header) => view.finger_number \in FingerCodes /\ view.fields
  /\ \A i \in DOMAIN view.minutiae_data : FmdConforms(view.minutiae_data[i], header)
  /\ \A i \in DOMAIN view.extended : FedbConforms(view.extended[i], view, header)

\* The number of view i is above those of the views of its finger in front of it, and
\* that of the first is 0.
NumberIsNext(i, views) ==
  LET number(k) == views[k].view_number
      before == {k \in 1 .. i - 1 : views[k].finger_number = views[i].finger_number}
  IN IF before = {} THEN number(i) = 0 ELSE \A k \in before : number(k) < number(i)

\* All of the record: what validate_fmr says when it is called for the first time.
RecordConforms(header, views) ==
  /\ HeaderConforms(header)
  /\ \A i \in DOMAIN views : ContentsConform(views[i], header)
  /\ IsChecked(header) => \A i \in DOMAIN views : NumberIsNext(i, views)

=============================================================================
