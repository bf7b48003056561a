----------------------------- MODULE FmrReader ------------------------------
(***************************************************************************)
(* The reader of a Finger Minutiae Record: internal_read_fmr               *)
(* (libfmr/fmr.c), internal_read_fvmr (libfmr/fvmr.c) and the FMD readers  *)
(* (libfmr/fmd.c), on top of FedbReader, which reads the extended data     *)
(* block of a view from the same source.                                   *)
(*                                                                         *)
(* Kept: every loop, return code and list insertion, and how many bytes    *)
(* each step consumes.  Left out: the fields that the reader only stores.  *)
(***************************************************************************)
EXTENDS FmrDefs, Integers, SequencesExt

CONSTANTS
  RecordFormats, \* the formats to read
  ViewCounts,    \* values the num_views byte may have
  MinutiaCounts, \* values the number_of_minutiae byte may have
  BlockLengths, FedLengths, Counts, Ends, Failures, \* as in FedbReader
  CardEnds       \* where a card may end

ASSUME RecordFormatsAssumption == RecordFormats \subseteq AllFormats
ASSUME ViewCountsAssumption    == ViewCounts \subseteq UCHAR
ASSUME MinutiaCountsAssumption == MinutiaCounts \subseteq UCHAR
ASSUME BlockAssumption ==
  /\ BlockLengths \subseteq USHORT /\ FedLengths \subseteq USHORT
  /\ Counts \subseteq 0 .. 63 /\ Ends \subseteq Nat /\ CardEnds \subseteq Nat
  /\ Failures \in BOOLEAN

VARIABLES
  format_std, source, end, current,                   \* as in FedbReader
  fedb_pc, fedb, block_length, fed, heap, todo, fed_ret, fedb_ret,
  pc,          \* the read that comes next
  num_views,   \* fmr->num_views
  record_length, \* fmr->record_length, followed for the card formats only
  finger_views,  \* the views on the list of the FMR
  fvmr,        \* the view in hand
  ret          \* what internal_read_fmr returns

fedb_vars == <<fedb_pc, fedb, block_length, fed, heap, todo, fed_ret, fedb_ret>>
fmr_vars  == <<pc, num_views, record_length, finger_views, fvmr, ret>>
vars == <<format_std, source, end, current, fedb_vars, fmr_vars>>

Fedb == INSTANCE FedbReader WITH
          Formats <- RecordFormats, pc <- fedb_pc, ret <- fedb_ret

(***************************************************************************)
(* A view: the count its header declares, the minutiae on its list (only   *)
(* their number), and its extended data: the FEDs with their block length, *)
(* or NoExtended for a NULL pointer, as a block of length 0 is never       *)
(* attached.                                                               *)
(***************************************************************************)
ExtendedRecord == [block_length : USHORT, feds : Seq(Fedb!FedRecord)]
NoExtended     == [block_length |-> 0, feds |-> <<>>]
ViewRecord == [number_of_minutiae : UCHAR, minutiae_data : Nat,
               partial : BOOLEAN, extended : ExtendedRecord]
NewView    == [number_of_minutiae |-> 0, minutiae_data |-> 0,
               partial |-> FALSE, extended |-> NoExtended]

Init ==
  /\ format_std \in RecordFormats
  /\ source \in Sources
  /\ end \in IF format_std \in Cards THEN CardEnds ELSE Ends
  /\ current = 0
  /\ fedb_pc = "done" /\ fedb = Fedb!EmptyFedb /\ block_length = 0
  /\ fed = 0 /\ heap = <<>> /\ todo = 0
  /\ fed_ret = READ_OK /\ fedb_ret = READ_OK
  /\ pc = "header"
  /\ num_views = 0
  /\ record_length = 0
  /\ finger_views = <<>>
  /\ fvmr = NewView
  /\ ret = READ_OK

Frame == UNCHANGED <<format_std, source, end>>

\* Mutants: the size test is off by one; the end of the source is not noticed.
GetBeyond(n)         == Fits(current, n, end + 1) /\ current' = current + n
GetOnlyFails(n, code) == code = READ_ERROR /\ Fedb!GetFails(n, code)

Get(n)            == Fedb!Get(n)
GetFails(n, code) == Fedb!GetFails(n, code)

\* Mutant: end of file is success, as it is for the card formats.
RecordReturnsOk(code) ==
  pc' = "done" /\ ret' = IF code = READ_EOF THEN READ_OK ELSE code

RecordReturns(code) == pc' = "done" /\ ret' = code

\* Mutant: the loop runs to i < num_views.
ViewLoopShort(listed, n) ==
  IF listed + 1 < n THEN pc' = "new_view" /\ UNCHANGED ret
                    ELSE RecordReturns(READ_OK)

\* for (i = 1; i <= num_views; i++), where i - 1 views have been listed
ViewLoop(listed, n) ==
  IF listed < n THEN pc' = "new_view" /\ UNCHANGED ret
                ELSE RecordReturns(READ_OK)

(***************************************************************************)
(* The record header.  num_views is the last field but one, so the source  *)
(* may end, or the disk fail, after it has been set.                       *)
(***************************************************************************)
ReadHeader ==
  /\ pc = "header" /\ format_std \notin Cards
  /\ \E n \in HeaderLengths(format_std), views \in ViewCounts :
       \/ /\ Get(n)
          /\ num_views' = views
          /\ ViewLoop(0, views)
       \/ /\ GetFails(n, READ_EOF)
          /\ num_views' = IF Fits(current, n - 1, end) THEN views ELSE 0
          /\ RecordReturns(READ_EOF)
       \/ /\ GetFails(n, READ_ERROR)
          /\ num_views' \in {0, views}
          /\ RecordReturns(READ_ERROR)
  /\ Frame /\ UNCHANGED <<fedb_vars, record_length, finger_views, fvmr>>

\* The card formats have no header: one view is taken as declared.
CardHeader ==
  /\ pc = "header" /\ format_std \in Cards
  /\ num_views' = 1
  /\ record_length' = 0
  /\ pc' = "new_view"
  /\ Frame /\ UNCHANGED <<current, fedb_vars, finger_views, fvmr, ret>>

StartView ==
  /\ pc = "new_view"
  /\ \/ /\ fvmr' = NewView
        /\ pc' = IF format_std \in Cards THEN "card_fmd" ELSE "view_header"
        /\ UNCHANGED ret
     \/ Failures /\ RecordReturns(READ_ERROR) /\ UNCHANGED fvmr
  /\ Frame /\ UNCHANGED <<current, fedb_vars, num_views, record_length, finger_views>>

\* Mutants: any view is kept at end of file; one minutia length for both cards.
KeptAlways(view) == Append(finger_views, view)
CardLengthNormal(view) == view.number_of_minutiae * FmdLength("ISO_NORMAL_CARD")

\* At end of file only a partial view is kept.
Kept(view) == IF view.partial THEN Append(finger_views, view) ELSE finger_views

\* fmr->record_length of a card format.
CardLength(view) == view.number_of_minutiae * FmdLength(format_std)

(***************************************************************************)
(* internal_read_fvmr has returned `code' with `view': internal_read_fmr   *)
(* lists it, or keeps it only if it is partial, or gives up.               *)
(***************************************************************************)
ViewReturns(code, view) ==
  /\ fvmr' = view
  /\ \/ /\ code = READ_OK
        /\ finger_views' = Append(finger_views, view)
        /\ record_length' = IF format_std \in Cards THEN CardLength(view)
                                                     ELSE record_length
        /\ ViewLoop(Len(finger_views) + 1, num_views)
     \/ /\ code = READ_EOF
        /\ finger_views' = Kept(view)
        /\ RecordReturns(READ_EOF)
        /\ UNCHANGED record_length
     \/ /\ code = READ_ERROR
        /\ RecordReturns(READ_ERROR)
        /\ UNCHANGED <<finger_views, record_length>>

ViewFails(n) ==
  \E code \in READ_CODES : GetFails(n, code) /\ ViewReturns(code, fvmr)

InView == fvmr' = [fvmr EXCEPT !.minutiae_data = @ + 1]

ReadViewHeader ==
  /\ pc = "view_header"
  /\ \/ \E n \in MinutiaCounts :
          /\ Get(ViewHeaderLength(format_std))
          /\ fvmr' = [fvmr EXCEPT !.number_of_minutiae = n]
          /\ pc' = IF n > 0 THEN "fmd" ELSE "new_fedb"
          /\ UNCHANGED <<record_length, finger_views, ret>>
     \/ ViewFails(ViewHeaderLength(format_std))
  /\ Frame /\ UNCHANGED <<fedb_vars, num_views>>

ReadFmd ==
  /\ pc = "fmd"
  /\ \/ /\ Get(FmdLength(format_std))
        /\ InView
        /\ pc' = IF fvmr.minutiae_data + 1 < fvmr.number_of_minutiae
                   THEN "fmd" ELSE "new_fedb"
        /\ UNCHANGED <<record_length, finger_views, ret>>
     \/ ViewFails(FmdLength(format_std))
     \/ Failures /\ UNCHANGED current /\ ViewReturns(READ_ERROR, fvmr)
  /\ Frame /\ UNCHANGED <<fedb_vars, num_views>>

(***************************************************************************)
(* The card formats: minutiae until the source ends, which is READ_OK here *)
(* even inside a minutia; the count is an unsigned char and wraps.         *)
(***************************************************************************)
ReadCardFmd ==
  /\ pc = "card_fmd"
  /\ \/ /\ Get(FmdLength(format_std))
        /\ fvmr' = [fvmr EXCEPT !.minutiae_data = @ + 1,
                                !.number_of_minutiae = (@ + 1) % 256]
        /\ UNCHANGED <<pc, record_length, finger_views, ret>>
     \/ GetFails(FmdLength(format_std), READ_EOF) /\ ViewReturns(READ_OK, fvmr)
     \/ GetFails(FmdLength(format_std), READ_ERROR) /\ ViewReturns(READ_ERROR, fvmr)
     \/ Failures /\ UNCHANGED current /\ ViewReturns(READ_ERROR, fvmr)
  /\ Frame /\ UNCHANGED <<fedb_vars, num_views>>

\* new_fedb, then read_fedb starts.
StartFedb ==
  /\ pc = "new_fedb"
  /\ \/ /\ pc' = "fedb"
        /\ fedb_pc' = "block_length" /\ fedb' = Fedb!EmptyFedb
        /\ block_length' = 0 /\ fed' = 0 /\ heap' = <<>> /\ todo' = 0
        /\ fed_ret' = READ_OK /\ fedb_ret' = READ_OK
        /\ UNCHANGED <<record_length, finger_views, fvmr, ret>>
     \/ /\ Failures /\ ViewReturns(READ_ERROR, fvmr)
        /\ UNCHANGED fedb_vars
  /\ Frame /\ UNCHANGED <<current, num_views>>

ReadFedb ==
  /\ pc = "fedb"
  /\ Fedb!Next
  /\ UNCHANGED fmr_vars

\* read_fedb has returned: the view takes the block unless its length is 0.
FinishFedb ==
  /\ pc = "fedb" /\ fedb_pc = "done"
  /\ IF fedb_ret = READ_ERROR
       THEN ViewReturns(READ_ERROR, fvmr)
       ELSE LET feds == [i \in DOMAIN fedb.extended_data |-> heap[fedb.extended_data[i]]]
            IN ViewReturns(fedb_ret,
                 [fvmr EXCEPT !.partial = fedb.partial,
                              !.extended = IF fedb.block_length # 0
                                             THEN [block_length |-> fedb.block_length,
                                                   feds |-> feds]
                                             ELSE NoExtended])
  /\ Frame /\ UNCHANGED <<current, fedb_vars, num_views>>

Next ==
  \/ ReadHeader \/ CardHeader
  \/ StartView \/ ReadViewHeader \/ ReadFmd \/ ReadCardFmd
  \/ StartFedb \/ ReadFedb \/ FinishFedb

Spec == Init /\ [][Next]_vars

\* One thread runs the reader to its end: whatever step is next is taken.
FairSpec == Spec /\ WF_vars(Next)

-----------------------------------------------------------------------------
(* Properties.                                                             *)

Pcs == {"header", "new_view", "view_header", "fmd", "card_fmd", "new_fedb",
        "fedb", "done"}

\* The types of the variables of this module; those of the block are Fedb's.
TypeOK ==
  /\ pc \in Pcs
  /\ num_views \in UCHAR
  /\ record_length \in Nat
  /\ finger_views \in Seq(ViewRecord)
  /\ fvmr \in ViewRecord
  /\ ret \in READ_CODES
  /\ current \in 0 .. end

(***************************************************************************)
(* A view on the list of the FMR always has all the minutiae its header    *)
(* declares, whatever the read returned: a view cut inside its minutiae    *)
(* is not listed, so get_fmd_count and get_fmds agree (fvmr.c:384-402).    *)
(***************************************************************************)
ListedViewsHaveTheirMinutiae ==
  format_std \notin Cards =>
    \A i \in DOMAIN finger_views :
      finger_views[i].minutiae_data = finger_views[i].number_of_minutiae

ViewLength(view) ==
  ViewHeaderLength(format_std) + view.minutiae_data * FmdLength(format_std)
    + FEDB_HEADER_LENGTH + view.extended.block_length

LengthsAreTrue(view) ==
  \A i \in DOMAIN view.extended.feds : Fedb!LengthIsTrue(view.extended.feds[i])

(***************************************************************************)
(* READ_OK leaves the cursor right behind the record, where the programs   *)
(* that read one record after another expect the next one to start, as     *)
(* long as every FED has the length its contents have.  The card formats   *)
(* have no end but that of the source: their one view holds every whole    *)
(* minutia of it, and the record length is theirs, as long as an unsigned  *)
(* char can count them.                                                    *)
(***************************************************************************)
RecordAccounted ==
  pc = "done" /\ ret = READ_OK =>
    IF format_std \in Cards
      THEN /\ Len(finger_views) = 1
           /\ finger_views[1].minutiae_data = end \div FmdLength(format_std)
           /\ finger_views[1].minutiae_data \in UCHAR =>
                record_length = (end \div FmdLength(format_std)) * FmdLength(format_std)
      ELSE (\A i \in DOMAIN finger_views : LengthsAreTrue(finger_views[i])) =>
             \E header \in HeaderLengths(format_std) :
               current = header
                           + SumFunction([i \in DOMAIN finger_views |->
                                            ViewLength(finger_views[i])])

(***************************************************************************)
(* The reader is a reader in the sense of RecordRead.                      *)
(***************************************************************************)
Abstract == INSTANCE RecordRead WITH
  declared <- num_views,
  taken    <- [i \in DOMAIN finger_views |->
                 IF finger_views[i].partial THEN "partial" ELSE "whole"],
  status   <- IF pc # "done" THEN "reading"
              ELSE CASE ret = READ_OK    -> "ok"
                     [] ret = READ_EOF   -> "eof"
                     [] ret = READ_ERROR -> "error"

ReadsARecord == Abstract!RSpec
Promise      == Abstract!Promise

\* The reader always comes to an end, also where it reads until end of file.
Terminates == <>(pc = "done")

=============================================================================
