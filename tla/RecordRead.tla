----------------------------- MODULE RecordRead -----------------------------
(***************************************************************************)
(* What reading a record of several views promises its caller              *)
(* (fmr.h:812-826), without saying how a view is read: the header declares *)
(* how many views follow; views are taken in order; only the view the end  *)
(* of the source cuts may be partial, and it is then the last one; the     *)
(* read succeeds exactly when every declared view was taken whole.         *)
(***************************************************************************)
EXTENDS Naturals, Sequences

VARIABLES
  declared,  \* how many views the header declares
  taken,     \* the views the caller holds, each "whole" or "partial"
  status     \* "reading", or how the read ended: "ok", "eof" or "error"

rvars == <<declared, taken, status>>

RInit ==
  /\ declared = 0
  /\ taken = <<>>
  /\ status = "reading"

\* The header has been read, or it could not be.
Declare ==
  /\ status = "reading" /\ declared = 0
  /\ declared' \in Nat
  /\ status' \in IF declared' = 0 THEN {"ok", "eof", "error"}
                                  ELSE {"reading", "eof", "error"}
  /\ UNCHANGED taken

TakeWhole ==
  /\ status = "reading" /\ Len(taken) < declared
  /\ taken' = Append(taken, "whole")
  /\ status' = IF Len(taken') = declared THEN "ok" ELSE "reading"
  /\ UNCHANGED declared

TakePartial ==
  /\ status = "reading" /\ Len(taken) < declared
  /\ taken' = Append(taken, "partial")
  /\ status' = "eof"
  /\ UNCHANGED declared

GiveUp ==
  /\ status = "reading" /\ Len(taken) < declared
  /\ status' \in {"eof", "error"}
  /\ UNCHANGED <<declared, taken>>

RNext == Declare \/ TakeWhole \/ TakePartial \/ GiveUp

RSpec == RInit /\ [][RNext]_rvars

-----------------------------------------------------------------------------
\* The promise as a state predicate: what a caller may rely on when it looks.
Promise ==
  /\ Len(taken) <= declared
  /\ status = "ok" => Len(taken) = declared /\ \A i \in DOMAIN taken : taken[i] = "whole"
  /\ \A i \in DOMAIN taken : taken[i] = "partial" => i = Len(taken) /\ status = "eof"

=============================================================================
