----------------------------- MODULE FmrWriter ------------------------------
(***************************************************************************)
(* The writer of a Finger Minutiae Record: internal_write_fmr              *)
(* (libfmr/fmr.c), internal_write_fvmr (libfmr/fvmr.c), the FMD writers    *)
(* (libfmr/fmd.c) and internal_write_fedb with what it calls               *)
(* (libfmr/fedb.c).                                                        *)
(*                                                                         *)
(* A record is written field by field to a file or into a BDB.  Every      *)
(* field is one PUT macro, which either emits the whole field or makes its *)
(* function fail; a field is represented by its size and by the part of    *)
(* the record that it belongs to.                                          *)
(***************************************************************************)
EXTENDS FmrDefs, Integers, SequencesExt

CONSTANTS
  Records,   \* the records to write, see RecordTypeOK
  Ends,      \* the sizes a buffer may have, in bytes
  Failures   \* TRUE when the disk may fail

Parts == {"header", "view", "fmd", "block", "fed"}

\* FEDs: `elems' ridge counts or cores, `deltas' deltas, `angular' as the
\* core_type and delta_type of their block.
Feds ==
  {f \in [type : FedTypes, length : USHORT, angular : BOOLEAN, elems : Nat, deltas : Nat] :
     f.type = FED_OTHER => f.length >= FED_HEADER_LENGTH}

\* Views: how many minutiae are on the list, and the FEDs of the block.
FingerViews == [fmds : Nat, feds : Seq(Feds)]

\* long: record_length > FMR_ANSI_MAX_SHORT_LENGTH
FmrRecords == [format_std : AllFormats, long : BOOLEAN, views : Seq(FingerViews)]

ASSUME RecordsAssumption == \A r \in Records : r \in FmrRecords
ASSUME WriterEndAssumption     == Ends \subseteq Nat
ASSUME WriterFailureAssumption == Failures \in BOOLEAN

VARIABLES
  record,    \* the record being written, never changed
  sink,      \* which macro half is used: "file" or "buffer"
  end,       \* bytes the buffer holds
  current,   \* bytes emitted so far
  out,       \* the fields emitted so far, each <<part, size>>
  writing,   \* the function that writes next
  view,      \* the view being written
  item,      \* the minutia or the FED of that view that comes next
  wret       \* what internal_write_fmr returns

writerVars == <<record, sink, end, current, out, writing, view, item, wret>>

-----------------------------------------------------------------------------
(* The fields of each part, by their sizes.                                *)

HeaderFields(r) ==
  CASE r.format_std = "ANSI"   -> IF r.long THEN <<4, 4, 2, 4, 2, 2, 2, 2, 2, 2, 2, 1, 1>>
                                            ELSE <<4, 4, 2, 2, 2, 2, 2, 2, 2, 2, 1, 1>>
    [] r.format_std = "ISO"    -> <<4, 4, 4, 2, 2, 2, 2, 2, 1, 1>>
    [] r.format_std = "ANSI07" -> <<4, 4, 4, 2, 2, 2, 1, 1>>
    [] OTHER -> <<>>

ViewFields(format) ==
  CASE format = "ANSI07" -> <<1, 1, 1, 1, 4, 2, 2, 2, 2, 1>>
    [] format \in Cards  -> <<>>
    [] OTHER -> <<1, 1, 1, 1>>

FmdFields(format) ==
  CASE format = "ISO_COMPACT_CARD" -> <<1, 1, 1>>
    [] format = "ISO_NORMAL_CARD"  -> <<2, 2, 1>>
    [] OTHER -> <<2, 2, 1, 1>>

Repeated(n, fields) == FlattenSeq([i \in 1 .. n |-> fields])

\* internal_write_fed; a core or delta is angular when its block is.
FedFields(f) ==
  <<2, 2>> \o
  CASE f.type = FED_RIDGE_COUNT ->
         <<1>> \o Repeated(f.elems, <<1, 1, 1>>)
    [] f.type = FED_CORE_AND_DELTA ->
         <<1>> \o Repeated(f.elems,  <<2, 2>> \o IF f.angular THEN <<1>> ELSE <<>>) \o
         <<1>> \o Repeated(f.deltas, <<2, 2>> \o IF f.angular THEN <<1, 1, 1>> ELSE <<>>)
    [] f.type = FED_OTHER -> <<f.length - FED_HEADER_LENGTH>>

SumOf(sizes) == SumFunction(sizes)

-----------------------------------------------------------------------------

WriterInit ==
  /\ record \in Records
  /\ sink \in Sources
  /\ end \in IF sink = "buffer" THEN Ends ELSE {0}
  /\ current = 0
  /\ out = <<>>
  /\ writing = "header"
  /\ view = 1
  /\ item = 1
  /\ wret = WRITE_OK

(***************************************************************************)
(* How many of the fields are emitted: into a buffer, those before the     *)
(* first that does not fit; on a file whose disk fails, any number.  No    *)
(* macro fails on a field of no bytes.                                     *)
(***************************************************************************)
Emitted(sizes) ==
  LET Stops(k) == k < Len(sizes) => sizes[k + 1] > 0
      FitsUpTo(k) == Fits(current, SumOf(SubSeq(sizes, 1, k)), end)
  IN IF sink = "file"
       THEN {k \in 0 .. Len(sizes) : k = Len(sizes) \/ (Failures /\ Stops(k))}
       ELSE {k \in 0 .. Len(sizes) :
               FitsUpTo(k) /\ (k < Len(sizes) => ~ FitsUpTo(k + 1))}

\* Mutant: the cursor moves by the whole part even if it was cut.
PutWhole(part, sizes, k) ==
  /\ out' = out \o [i \in 1 .. k |-> <<part, sizes[i]>>]
  /\ current' = current + SumOf(sizes)

\* A function emits the first k of its fields.
Put(part, sizes, k) ==
  /\ out' = out \o [i \in 1 .. k |-> <<part, sizes[i]>>]
  /\ current' = current + SumOf(SubSeq(sizes, 1, k))

Returns(code) == writing' = "done" /\ wret' = code /\ UNCHANGED <<view, item>>

\* TAILQ_FOREACH(fvmr, &fmr->finger_views, list): the view at this place.
ToView(v) ==
  IF v <= Len(record.views)
    THEN writing' = "view" /\ view' = v /\ item' = 1 /\ UNCHANGED wret
    ELSE Returns(WRITE_OK)

CurrentView == record.views[view]
Frame       == UNCHANGED <<record, sink, end>>

\* The minutia at this place of the list, or what follows the minutiae.
ToFmd(i) ==
  CASE i <= CurrentView.fmds -> writing' = "fmd" /\ item' = i /\ UNCHANGED <<view, wret>>
    [] i > CurrentView.fmds /\ record.format_std \in Cards -> ToView(view + 1)
    [] OTHER -> writing' = "fedb" /\ UNCHANGED <<view, item, wret>>

ToFed(i) ==
  IF i <= Len(CurrentView.feds)
    THEN writing' = "fed" /\ item' = i /\ UNCHANGED <<view, wret>>
    ELSE ToView(view + 1)

WriteHeader ==
  /\ writing = "header"
  /\ LET sizes == HeaderFields(record) IN
       \E k \in Emitted(sizes) :
         /\ Put("header", sizes, k)
         /\ IF k = Len(sizes) THEN ToView(1) ELSE Returns(WRITE_ERROR)
  /\ Frame

WriteViewHeader ==
  /\ writing = "view"
  /\ LET sizes == ViewFields(record.format_std) IN
       \E k \in Emitted(sizes) :
         /\ Put("view", sizes, k)
         /\ IF k = Len(sizes) THEN ToFmd(1) ELSE Returns(WRITE_ERROR)
  /\ Frame

\* Mutant: the result of write_fmd is not looked at.
WriteFmdAnyhow ==
  /\ writing = "fmd"
  /\ LET sizes == FmdFields(record.format_std) IN
       \E k \in Emitted(sizes) : Put("fmd", sizes, k)
  /\ ToFmd(item + 1)
  /\ Frame

WriteFmd ==
  /\ writing = "fmd"
  /\ LET sizes == FmdFields(record.format_std) IN
       \E k \in Emitted(sizes) :
         /\ Put("fmd", sizes, k)
         /\ IF k = Len(sizes) THEN ToFmd(item + 1) ELSE Returns(WRITE_ERROR)
  /\ Frame

\* The block length is written for a view without extended data too, as 0.
WriteBlockLength ==
  /\ writing = "fedb"
  /\ LET sizes == <<FEDB_HEADER_LENGTH>> IN
       \E k \in Emitted(sizes) :
         /\ Put("block", sizes, k)
         /\ IF k = Len(sizes) THEN ToFed(1) ELSE Returns(WRITE_ERROR)
  /\ Frame

\* internal_write_fedb does not look at what internal_write_fed returns.
WriteFed ==
  /\ writing = "fed"
  /\ LET sizes == FedFields(CurrentView.feds[item]) IN
       \E k \in Emitted(sizes) : Put("fed", sizes, k)
  /\ ToFed(item + 1)
  /\ Frame

WriterNext == WriteHeader \/ WriteViewHeader \/ WriteFmd \/ WriteBlockLength \/ WriteFed

WriterSpec == WriterInit /\ [][WriterNext]_writerVars

-----------------------------------------------------------------------------
(* Properties.                                                             *)

Pcs == {"header", "view", "fmd", "fedb", "fed", "done"}

\* The types of the variables; what comes next is a part the record has.
WriterTypeOK ==
  /\ record \in FmrRecords /\ sink \in Sources /\ end \in Nat
  /\ current \in Nat
  /\ out \in Seq(Parts \X Nat)
  /\ writing \in Pcs
  /\ writing \in {"view", "fmd", "fedb", "fed"} => view \in DOMAIN record.views
  /\ writing = "fmd" => item \in 1 .. CurrentView.fmds
  /\ writing = "fed" => item \in DOMAIN CurrentView.feds
  /\ wret \in WRITE_CODES

(***************************************************************************)
(* What a complete copy of the record looks like.                          *)
(***************************************************************************)
Fields(part, sizes) == [i \in DOMAIN sizes |-> <<part, sizes[i]>>]

FedLayout(f) == Fields("fed", FedFields(f))

Extended(v) ==
  Fields("block", <<FEDB_HEADER_LENGTH>>) \o
  FlattenSeq([i \in DOMAIN v.feds |-> FedLayout(v.feds[i])])

ViewLayout(format, v) ==
  Fields("view", ViewFields(format)) \o
  Repeated(v.fmds, Fields("fmd", FmdFields(format))) \o
  IF format \in Cards THEN <<>> ELSE Extended(v)

Layout(r) ==
  Fields("header", HeaderFields(r)) \o
  FlattenSeq([i \in DOMAIN r.views |-> ViewLayout(r.format_std, r.views[i])])

SizesOf(fields) == [i \in DOMAIN fields |-> fields[i][2]]
WithoutFeds(fields) ==
  FlattenSeq([i \in DOMAIN fields |-> IF fields[i][1] = "fed" THEN <<>> ELSE <<fields[i]>>])

(***************************************************************************)
(* The cursor never passes the end of the buffer, and is always behind the *)
(* bytes that were emitted, also after a FED that did not fit.             *)
(***************************************************************************)
CursorIsTrue ==
  /\ WriterTypeOK
  /\ current = SumOf(SizesOf(out))
  /\ sink = "buffer" => current <= end

(***************************************************************************)
(* Whatever happens to FEDs, the rest of the record comes out in order:    *)
(* a part that fails ends the write, and WRITE_OK is only returned when    *)
(* everything but FEDs is complete.  In a buffer as large as the record    *)
(* FEDs are, too: push_fmr into the bytes that the record takes, as        *)
(* testfmr.c does, gives a complete copy.                                  *)
(***************************************************************************)
OnlyFedsAreCut ==
  /\ IsPrefix(WithoutFeds(out), WithoutFeds(Layout(record)))
  /\ writing = "done" /\ wret = WRITE_OK => WithoutFeds(out) = WithoutFeds(Layout(record))
  /\ writing = "done" /\ sink = "buffer" /\ end >= SumOf(SizesOf(Layout(record))) =>
       wret = WRITE_OK /\ out = Layout(record)

=============================================================================
