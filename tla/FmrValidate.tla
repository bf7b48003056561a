---------------------------- MODULE FmrValidate -----------------------------
(***************************************************************************)
(* The conformance check of a Finger Minutiae Record (libfmr/validate.c):  *)
(* validate_fmr walks the header and then the views, in the order of the   *)
(* list, and stops at the first view that does not conform.                *)
(*                                                                         *)
(* The record carries the checker's memory, next_min_view, the least view  *)
(* number still to be expected for each finger.  A client may validate a   *)
(* record as often as it likes, and add views to it between two calls.     *)
(*                                                                         *)
(* What is asked of a header and of the contents of a view is in           *)
(* FmrConform.                                                             *)
(***************************************************************************)
EXTENDS FmrConform

CONSTANTS
  Headers,   \* headers of the records to validate
  Views,     \* views a record may have
  MaxViews,  \* bound on the views of one record
  MaxCalls   \* bound on the calls of validate_fmr

ASSUME BoundsAssumption == MaxViews \in Nat /\ MaxCalls \in Nat

Point  == [x : USHORT, y : USHORT]
Fmd    == [at : Point, fields : BOOLEAN]
\* A FED: what it declares as its length, its ridge count indexes, its points.
Fed    == [length : USHORT, index : Seq(UCHAR), at : Seq(Point), fields : BOOLEAN]
Fedb   == [block_length : USHORT, feds : Seq(Fed)]
Header == [format_std : AllFormats, fields : BOOLEAN, record_length : Nat,
           owner : USHORT, x_resolution : USHORT, y_resolution : USHORT,
           x_image_size : USHORT, y_image_size : USHORT, reserved : UCHAR]

\* extended holds the block of the view, or nothing (a NULL pointer).
View == [finger_number : UCHAR, view_number : UCHAR, fields : BOOLEAN,
         number_of_minutiae : UCHAR, minutiae_data : Seq(Fmd),
         extended : Seq(Fedb)]

ASSUME HeadersAssumption == Headers \subseteq Header
ASSUME ViewsAssumption   == Views \subseteq View

VARIABLES
  header,         \* the header of the record
  finger_views,   \* its views
  next_min_view,  \* its memory of view numbers
  pc,             \* "idle", or "view": validate_fmr is at the view numbered at
  at,
  ret,            \* TRUE: what validate_fmr returns, or will, is VALIDATE_OK
  calls,          \* how many calls have returned
  accepted        \* some call has accepted the record as it stands

vars == <<header, finger_views, next_min_view, pc, at, ret, calls, accepted>>

Init ==
  /\ header \in Headers
  /\ finger_views = <<>>
  /\ next_min_view = [f \in FingerCodes |-> 0]
  /\ pc = "idle" /\ at = 0 /\ ret = TRUE
  /\ calls = 0 /\ accepted = FALSE

\* Mutants: any first number will do; the next number may be the same.
NumberNotBelow(view) == view.view_number >= next_min_view[view.finger_number]
EnterSame(view) ==
  next_min_view' = [next_min_view EXCEPT ![view.finger_number] = view.view_number]

(***************************************************************************)
(* The view numbers of a finger must increase, starting with 0.  The       *)
(* number of a finger outside the codes is looked up, and entered, outside *)
(* the array; the view does not conform whatever is found there, so that   *)
(* access is left out.                                                     *)
(***************************************************************************)
NumberConforms(view) ==
  LET least == next_min_view[view.finger_number]
  IN IF least = 0 THEN view.view_number = 0 ELSE view.view_number >= least

Enter(view) ==
  next_min_view' = [next_min_view EXCEPT ![view.finger_number] =
                      (view.view_number + 1) % (UCHAR_MAX + 1)]

-----------------------------------------------------------------------------
\* add_fvmr_to_fmr
AddView ==
  /\ pc = "idle" /\ Len(finger_views) < MaxViews
  /\ \E view \in Views : finger_views' = Append(finger_views, view)
  /\ accepted' = FALSE
  /\ UNCHANGED <<header, next_min_view, pc, at, ret, calls>>

Return(verdict) ==
  /\ pc' = "idle" /\ at' = 0 /\ ret' = verdict
  /\ calls' = calls + 1
  /\ accepted' = (accepted \/ verdict)

\* TAILQ_FOREACH goes on to the view numbered n, or validate_fmr returns.
GoTo(n, verdict) ==
  IF n <= Len(finger_views)
    THEN /\ pc' = "view" /\ at' = n /\ ret' = verdict
         /\ UNCHANGED <<calls, accepted>>
    ELSE Return(verdict)

\* A call of validate_fmr, up to the first view.
ValidateHeader ==
  /\ pc = "idle" /\ calls < MaxCalls
  /\ GoTo(1, HeaderConforms(header))
  /\ UNCHANGED <<header, finger_views, next_min_view>>

\* A call of validate_fvmr; the number is entered even if the contents fail.
ValidateView ==
  /\ pc = "view"
  /\ LET view == finger_views[at]
         numbered == IsChecked(header) /\ view.finger_number \in FingerCodes
         conforms == /\ ContentsConform(view, header)
                     /\ numbered => NumberConforms(view)
     IN /\ IF numbered /\ NumberConforms(view) THEN Enter(view)
                                               ELSE UNCHANGED next_min_view
        /\ IF conforms THEN GoTo(at + 1, ret) ELSE Return(FALSE)
  /\ UNCHANGED <<header, finger_views>>

Next == AddView \/ ValidateHeader \/ ValidateView

Spec == Init /\ [][Next]_vars

-----------------------------------------------------------------------------
(* Properties.                                                             *)

TypeOK ==
  /\ header \in Headers
  /\ finger_views \in Seq(Views) /\ Len(finger_views) <= MaxViews
  /\ next_min_view \in [FingerCodes -> UCHAR]
  /\ pc \in {"idle", "view"}
  /\ at \in 0 .. Len(finger_views) /\ (pc = "view" <=> at # 0)
  /\ ret \in BOOLEAN
  /\ calls \in 0 .. MaxCalls
  /\ accepted \in BOOLEAN

(***************************************************************************)
(* The first verdict on a record is exact: it is VALIDATE_OK precisely     *)
(* when the header and the contents of every view conform and the view     *)
(* numbers of each finger increase from 0, although the views of several   *)
(* fingers may alternate on the list (validate.c:155-173).  (Of view       *)
(* numbers below 255, after which the memory wraps; a number has four bits *)
(* in the formats whose views are checked.)                                *)
(***************************************************************************)
FirstVerdictIsExact ==
  [][calls = 0 /\ calls' = 1 => (ret' <=> RecordConforms(header, finger_views))]_vars

(***************************************************************************)
(* The memory never runs ahead of the record: what is expected next of a   *)
(* finger is one more than the number of a view on the list.  And it is    *)
(* ahead of every view of an accepted record.                              *)
(***************************************************************************)
MemoryIsOfTheViews ==
  /\ TypeOK
  /\ \A f \in FingerCodes : next_min_view[f] # 0 =>
       \E i \in DOMAIN finger_views :
         /\ finger_views[i].finger_number = f
         /\ finger_views[i].view_number = next_min_view[f] - 1
  /\ accepted /\ IsChecked(header) =>
       \A i \in DOMAIN finger_views :
         finger_views[i].view_number < next_min_view[finger_views[i].finger_number]

=============================================================================
