-------------------------- MODULE FmrReader_proofs --------------------------
(***************************************************************************)
(* Proofs about the reader of a Finger Minutiae Record, for every format,  *)
(* wire, end of the source and failure: what it lists, and that it is a    *)
(* reader in the sense of RecordRead.                                      *)
(*                                                                         *)
(* While a block is read, the record reader relies on what FedbReader      *)
(* promises: only a read that meets the end of the source is partial.      *)
(* RecordInv joins the invariant of the block reader, which its proofs     *)
(* (FP) provide, with what each place of the record reader knows.          *)
(***************************************************************************)
EXTENDS FmrReader, SequenceTheorems, Sums, TLAPS

FP == INSTANCE FedbReader_proofs WITH
        Formats <- RecordFormats, pc <- fedb_pc, ret <- fedb_ret

\* What each place of the reader knows of the view in hand and of the list.
PlaceInv ==
  /\ pc = "header" => num_views = 0 /\ finger_views = <<>>
  /\ pc # "done" => ret = READ_OK /\ ~ fvmr.partial
  /\ pc \notin {"header", "done"} => Len(finger_views) < num_views
  /\ pc = "card_fmd" => format_std \in Cards
  /\ pc = "view_header" => fvmr.minutiae_data = 0
  /\ pc = "fmd" => fvmr.minutiae_data < fvmr.number_of_minutiae
  /\ pc \in {"new_fedb", "fedb"} => fvmr.minutiae_data = fvmr.number_of_minutiae

\* What the list holds when the read is over.
ListInv ==
  /\ Len(finger_views) <= num_views
  /\ pc = "done" /\ ret = READ_OK => Len(finger_views) = num_views
  /\ \A i \in DOMAIN finger_views :
       finger_views[i].partial => i = Len(finger_views) /\ pc = "done" /\ ret = READ_EOF

RecordInv ==
  /\ FP!ReaderInv
  /\ TypeOK /\ PlaceInv /\ ListInv /\ ListedViewsHaveTheirMinutiae

-----------------------------------------------------------------------------
(***************************************************************************)
(* The block reader keeps its invariant inside the record reader.          *)
(***************************************************************************)

\* The two instances of FedbReader are one and the same.
LEMMA SameNext == Fedb!Next => FP!Next
<1> USE DEF Fedb!Fits, FP!Fits, Fedb!READ_OK, FP!READ_OK, Fedb!READ_EOF,
    FP!READ_EOF, Fedb!READ_ERROR, FP!READ_ERROR, Fedb!READ_CODES,
    FP!READ_CODES, Fedb!Get, FP!Get, Fedb!GetFails, FP!GetFails,
    Fedb!AllocFails, FP!AllocFails, Fedb!FedReturns, FP!FedReturns,
    Fedb!BodyFails, FP!BodyFails, Fedb!BodyFrame, FP!BodyFrame,
    Fedb!AllocFailsInBody, FP!AllocFailsInBody, Fedb!Loop, FP!Loop,
    Fedb!Freed, FP!Freed, Fedb!ErrOut, FP!ErrOut, Fedb!EofOut, FP!EofOut,
    Fedb!FED_HEADER_LENGTH, FP!FED_HEADER_LENGTH
<1>1. Fedb!ReadBlockLength => FP!ReadBlockLength
  BY DEF Fedb!ReadBlockLength, FP!ReadBlockLength
<1>2. Fedb!ReadFedHeader => FP!ReadFedHeader
  BY DEF Fedb!ReadFedHeader, FP!ReadFedHeader, Fedb!FirstRead, FP!FirstRead,
    Fedb!DataFits, FP!DataFits, Fedb!NewFed, FP!NewFed, Fedb!FedTypes,
    FP!FedTypes, Fedb!FED_RIDGE_COUNT, FP!FED_RIDGE_COUNT,
    Fedb!FED_CORE_AND_DELTA, FP!FED_CORE_AND_DELTA, Fedb!FED_OTHER,
    FP!FED_OTHER
<1>3. Fedb!ReadRidgeMethod => FP!ReadRidgeMethod
  BY DEF Fedb!ReadRidgeMethod, FP!ReadRidgeMethod, Fedb!Consumed, FP!Consumed,
    Fedb!Short, FP!Short
<1>4. Fedb!ReadRidgeCount => FP!ReadRidgeCount
  BY DEF Fedb!ReadRidgeCount, FP!ReadRidgeCount, Fedb!Linked, FP!Linked,
    Fedb!RIDGE_COUNT_DATA_LENGTH, FP!RIDGE_COUNT_DATA_LENGTH
<1>5. Fedb!ReadNumCores => FP!ReadNumCores
  BY DEF Fedb!ReadNumCores, FP!ReadNumCores, Fedb!Typed, FP!Typed,
    Fedb!HeaderAngular, FP!HeaderAngular
<1>6. Fedb!ReadCore => FP!ReadCore
  BY DEF Fedb!ReadCore, FP!ReadCore, Fedb!Linked, FP!Linked, Fedb!CoreSize,
    FP!CoreSize, Fedb!ElementAngular, FP!ElementAngular, Fedb!IsoFormats,
    FP!IsoFormats, Fedb!Cards, FP!Cards
<1>7. Fedb!ReadNumDeltas => FP!ReadNumDeltas
  BY DEF Fedb!ReadNumDeltas, FP!ReadNumDeltas, Fedb!Typed, FP!Typed,
    Fedb!HeaderAngular, FP!HeaderAngular
<1>8. Fedb!ReadDelta => FP!ReadDelta
  BY DEF Fedb!ReadDelta, FP!ReadDelta, Fedb!Linked, FP!Linked, Fedb!DeltaSize,
    FP!DeltaSize, Fedb!ElementAngular, FP!ElementAngular, Fedb!IsoFormats,
    FP!IsoFormats, Fedb!Cards, FP!Cards
<1>9. Fedb!ReadData => FP!ReadData
  BY DEF Fedb!ReadData, FP!ReadData, Fedb!Consumed, FP!Consumed
<1>10. Fedb!FinishFed => FP!FinishFed
  BY DEF Fedb!FinishFed, FP!FinishFed, Fedb!HasElements, FP!HasElements
<1> QED BY <1>1, <1>2, <1>3, <1>4, <1>5, <1>6, <1>7, <1>8, <1>9, <1>10
  DEF Fedb!Next, FP!Next

\* A step of the block reader.
LEMMA BlockStepKeeps == ASSUME FP!ReaderInv, Fedb!Next PROVE FP!ReaderInv'
<1>1. RecordFormats \subseteq FP!AllFormats
  BY RecordFormatsAssumption DEF AllFormats, Cards, FP!AllFormats, FP!Cards
<1>2. FP!USHORT = USHORT
  BY DEF USHORT, USHRT_MAX, FP!USHORT, FP!USHRT_MAX
<1>3. FP!ReaderInv /\ [FP!Next]_FP!vars => FP!ReaderInv'
  BY <1>1, <1>2, BlockAssumption, FP!NextKeepsReaderInv
<1> QED BY <1>3, SameNext

\* A step of the record reader that leaves the block alone.
LEMMA BlockIdleKeeps ==
  ASSUME FP!ReaderInv, current' \in 0 .. end, Frame, UNCHANGED fedb_vars
  PROVE  FP!ReaderInv'
<1>1. RecordFormats \subseteq FP!AllFormats
  BY RecordFormatsAssumption DEF AllFormats, Cards, FP!AllFormats, FP!Cards
<1>2. FP!USHORT = USHORT
  BY DEF USHORT, USHRT_MAX, FP!USHORT, FP!USHRT_MAX
<1> QED BY <1>1, <1>2, BlockAssumption, FP!OthersKeep DEF Frame, fedb_vars

-----------------------------------------------------------------------------
(***************************************************************************)
(* Facts about single reads.                                               *)
(***************************************************************************)

\* What RecordInv says of the source.
LEMMA AtSource ==
  ASSUME RecordInv
  PROVE  /\ format_std \in RecordFormats /\ source \in Sources
         /\ end \in Nat /\ current \in 0 .. end
  BY DEF RecordInv, FP!ReaderInv, FP!TypeOK, Sources, FP!Sources

\* A field that is read leaves the cursor in the source; one that is not
\* leaves it where it was.
LEMMA Reading ==
  ASSUME RecordInv, NEW n \in Nat
  PROVE  /\ Get(n) => current' \in 0 .. end
         /\ \A code : GetFails(n, code) =>
              code \in {READ_EOF, READ_ERROR} /\ current' = current
  BY AtSource
  DEF Get, GetFails, Fedb!Get, Fedb!GetFails, Fedb!Fits, Fedb!READ_EOF, Fedb!READ_ERROR,
      READ_EOF, READ_ERROR

\* The fixed parts of a record have a length.
LEMMA Lengths ==
  ASSUME NEW f \in AllFormats
  PROVE  /\ ViewHeaderLength(f) \in Nat /\ FmdLength(f) \in Nat
         /\ f \notin Cards => HeaderLengths(f) \subseteq Nat
<1>1. ViewHeaderLength(f) \in Nat /\ FmdLength(f) \in Nat
  BY DEF ViewHeaderLength, FmdLength
<1>2. f \notin Cards => HeaderLengths(f) \subseteq Nat
  <2>1. CASE f = "ANSI"
    BY <2>1 DEF HeaderLengths
  <2>2. CASE f = "ISO"
    BY <2>2 DEF HeaderLengths
  <2>3. CASE f = "ANSI07"
    BY <2>3 DEF HeaderLengths
  <2> QED BY <2>1, <2>2, <2>3 DEF AllFormats
<1> QED BY <1>1, <1>2

\* The same of the format that is read.
LEMMA FormatLengths ==
  ASSUME RecordInv
  PROVE  /\ ViewHeaderLength(format_std) \in Nat /\ FmdLength(format_std) \in Nat
         /\ format_std \notin Cards => HeaderLengths(format_std) \subseteq Nat
  BY AtSource, Lengths, RecordFormatsAssumption

\* Values of unsigned chars.
LEMMA Bytes ==
  /\ 0 \in UCHAR /\ 1 \in UCHAR /\ UCHAR \subseteq Nat
  /\ \A n \in Nat : n % 256 \in UCHAR
<1>1. UCHAR_MAX \in Nat /\ UCHAR_MAX = 255
  BY DEF UCHAR_MAX
<1>2. UCHAR = 0 .. UCHAR_MAX
  BY DEF UCHAR
<1> HIDE DEF UCHAR_MAX
<1> QED BY <1>1, <1>2

\* A new view is a view.
LEMMA NewViewType == NewView \in ViewRecord
<1>1. USHORT = 0 .. USHRT_MAX /\ USHRT_MAX \in Nat
  BY DEF USHORT, USHRT_MAX
<1>2. 0 \in USHORT
  BY <1>1
<1>3. NoExtended \in ExtendedRecord
  BY <1>2 DEF NoExtended, ExtendedRecord
<1> QED BY <1>3, Bytes DEF NewView, ViewRecord

-----------------------------------------------------------------------------
(***************************************************************************)
(* The two ways a step inside a record goes on.                            *)
(***************************************************************************)

\* To another read of the same record: the list stays as it is.
LEMMA GoingOnKeeps ==
  ASSUME RecordInv, FP!ReaderInv', Frame, current' \in 0 .. end,
         pc \notin {"header", "done"}, pc' \in Pcs \ {"header", "done"},
         fvmr' \in ViewRecord, ~ fvmr'.partial,
         UNCHANGED <<num_views, record_length, finger_views, ret>>,
         pc' = "card_fmd" => format_std \in Cards,
         pc' = "view_header" => fvmr'.minutiae_data = 0,
         pc' = "fmd" => fvmr'.minutiae_data < fvmr'.number_of_minutiae,
         pc' \in {"new_fedb", "fedb"} => fvmr'.minutiae_data = fvmr'.number_of_minutiae
  PROVE  RecordInv' /\ UNCHANGED Abstract!rvars
<1>1. TypeOK'
  BY DEF RecordInv, TypeOK, Frame
<1>2. PlaceInv'
  BY DEF RecordInv, PlaceInv, Frame
<1>3. ListInv'
  BY DEF RecordInv, ListInv
<1>4. ListedViewsHaveTheirMinutiae'
  BY DEF RecordInv, ListedViewsHaveTheirMinutiae, Frame
<1>5. UNCHANGED Abstract!rvars
  BY DEF Abstract!rvars
<1> QED BY <1>1, <1>2, <1>3, <1>4, <1>5 DEF RecordInv

\* How RecordRead sees a list of views.
Marks(views) == [i \in DOMAIN views |-> IF views[i].partial THEN "partial" ELSE "whole"]

\* A view that is appended to the list appends its mark.
LEMMA MarksOfAppend ==
  ASSUME NEW s \in Seq(ViewRecord), NEW v \in ViewRecord
  PROVE  /\ Marks(s) \in Seq({"partial", "whole"}) /\ Len(Marks(s)) = Len(s)
         /\ Marks(Append(s, v)) = Append(Marks(s), IF v.partial THEN "partial" ELSE "whole")
<1>1. Len(s) \in Nat /\ DOMAIN s = 1 .. Len(s)
  BY LenProperties
<1>2. Marks(s) \in Seq({"partial", "whole"}) /\ Len(Marks(s)) = Len(s)
  <2>1. Marks(s) \in [1 .. Len(s) -> {"partial", "whole"}]
    BY <1>1 DEF Marks
  <2> QED BY <1>1, <2>1, SeqDef, LenProperties
<1> DEFINE m == IF v.partial THEN "partial" ELSE "whole"
           t == Append(s, v)
<1>3. /\ t \in Seq(ViewRecord) /\ DOMAIN t = 1 .. Len(s) + 1
      /\ t[Len(s) + 1] = v /\ \A i \in 1 .. Len(s) : t[i] = s[i]
  BY <1>1, AppendProperties, LenProperties
<1>4. /\ DOMAIN Append(Marks(s), m) = 1 .. Len(s) + 1
      /\ Append(Marks(s), m)[Len(s) + 1] = m
      /\ \A i \in 1 .. Len(s) : Append(Marks(s), m)[i] = Marks(s)[i]
  BY <1>1, <1>2, AppendProperties, LenProperties
<1>5. Append(Marks(s), m) \in Seq({"partial", "whole"})
  BY <1>2, AppendProperties
<1> HIDE DEF t
<1>6. Marks(t) = Append(Marks(s), m)
  <2>1. DOMAIN Marks(t) = DOMAIN Append(Marks(s), m)
    BY <1>3, <1>4 DEF Marks
  <2>2. \A i \in 1 .. Len(s) + 1 : Marks(t)[i] = Append(Marks(s), m)[i]
    BY <1>1, <1>3, <1>4 DEF Marks
  <2>3. Marks(t) \in Seq({"partial", "whole"}) /\ Len(Marks(t)) = Len(s) + 1
    <3>1. Marks(t) \in [1 .. Len(s) + 1 -> {"partial", "whole"}]
      BY <1>3 DEF Marks
    <3> QED BY <1>1, <3>1, SeqDef, LenProperties
  <2> QED BY <1>4, <1>5, <2>1, <2>2, <2>3, SeqEqual, LenProperties
<1> QED BY <1>2, <1>6 DEF t

\* How RecordRead sees the place of the reader.
Status == IF pc # "done" THEN "reading"
          ELSE CASE ret = READ_OK    -> "ok"
                 [] ret = READ_EOF   -> "eof"
                 [] ret = READ_ERROR -> "error"

\* The steps of RecordRead in terms of Marks and Status.
LEMMA AbstractSteps ==
  /\ Abstract!TakeWhole <=>
       /\ Status = "reading" /\ Len(Marks(finger_views)) < num_views
       /\ Marks(finger_views)' = Append(Marks(finger_views), "whole")
       /\ Status' = IF Len(Marks(finger_views)') = num_views THEN "ok" ELSE "reading"
       /\ UNCHANGED num_views
  /\ Abstract!TakePartial <=>
       /\ Status = "reading" /\ Len(Marks(finger_views)) < num_views
       /\ Marks(finger_views)' = Append(Marks(finger_views), "partial")
       /\ Status' = "eof"
       /\ UNCHANGED num_views
  /\ Abstract!GiveUp <=>
       /\ Status = "reading" /\ Len(Marks(finger_views)) < num_views
       /\ Status' \in {"eof", "error"}
       /\ UNCHANGED <<num_views, Marks(finger_views)>>
<1>1. Abstract!TakeWhole <=>
       /\ Status = "reading" /\ Len(Marks(finger_views)) < num_views
       /\ Marks(finger_views)' = Append(Marks(finger_views), "whole")
       /\ Status' = IF Len(Marks(finger_views)') = num_views THEN "ok" ELSE "reading"
       /\ UNCHANGED num_views
  BY Zenon DEF Abstract!TakeWhole, Marks, Status
<1>2. Abstract!TakePartial <=>
       /\ Status = "reading" /\ Len(Marks(finger_views)) < num_views
       /\ Marks(finger_views)' = Append(Marks(finger_views), "partial")
       /\ Status' = "eof"
       /\ UNCHANGED num_views
  BY Zenon DEF Abstract!TakePartial, Marks, Status
<1>3. Abstract!GiveUp <=>
       /\ Status = "reading" /\ Len(Marks(finger_views)) < num_views
       /\ Status' \in {"eof", "error"}
       /\ UNCHANGED <<num_views, Marks(finger_views)>>
  BY Zenon DEF Abstract!GiveUp, Marks, Status
<1> QED BY <1>1, <1>2, <1>3

\* To the end of internal_read_fvmr: what it returns decides what the list
\* takes, and how RecordRead sees it.
LEMMA ViewReturnsKeeps ==
  ASSUME RecordInv, FP!ReaderInv', Frame, current' \in 0 .. end,
         pc \notin {"header", "done"}, UNCHANGED num_views,
         NEW code \in READ_CODES, NEW view \in ViewRecord, ViewReturns(code, view),
         view.partial => code = READ_EOF,
         format_std \notin Cards /\ (code = READ_OK \/ view.partial) =>
           view.minutiae_data = view.number_of_minutiae
  PROVE  RecordInv' /\ Abstract!RNext
<1>1. /\ finger_views \in Seq(ViewRecord) /\ num_views \in UCHAR /\ record_length \in Nat
      /\ num_views \in Nat /\ Len(finger_views) \in Nat /\ Len(finger_views) < num_views
      /\ DOMAIN finger_views = 1 .. Len(finger_views)
      /\ ret = READ_OK
      /\ \A i \in DOMAIN finger_views : ~ finger_views[i].partial
  BY Bytes, LenProperties DEF RecordInv, TypeOK, PlaceInv, ListInv
<1>2. /\ fvmr' \in ViewRecord /\ (code # READ_EOF => ~ fvmr'.partial)
  BY DEF ViewReturns
<1> DEFINE longer == Append(finger_views, view)
<1>3. /\ longer \in Seq(ViewRecord) /\ Len(longer) = Len(finger_views) + 1
      /\ DOMAIN longer = 1 .. Len(finger_views) + 1
      /\ longer[Len(finger_views) + 1] = view
      /\ \A i \in 1 .. Len(finger_views) : longer[i] = finger_views[i]
  BY <1>1, AppendProperties, LenProperties
<1>4. /\ Marks(finger_views) \in Seq({"partial", "whole"})
      /\ Len(Marks(finger_views)) = Len(finger_views)
      /\ Marks(longer) = Append(Marks(finger_views), IF view.partial THEN "partial" ELSE "whole")
      /\ Len(Marks(longer)) = Len(finger_views) + 1
  <2>1. /\ Marks(finger_views) \in Seq({"partial", "whole"})
        /\ Len(Marks(finger_views)) = Len(finger_views)
        /\ Marks(longer) = Append(Marks(finger_views), IF view.partial THEN "partial" ELSE "whole")
    BY <1>1, MarksOfAppend
  <2>2. Len(Marks(longer)) = Len(longer)
    BY <1>3, MarksOfAppend
  <2> QED BY <1>3, <2>1, <2>2
<1> HIDE DEF longer
<1>5. CASE code = READ_OK
  <2>1. /\ finger_views' = longer /\ ~ view.partial
        /\ IF Len(finger_views) + 1 < num_views
             THEN pc' = "new_view" /\ ret' = READ_OK
             ELSE pc' = "done" /\ ret' = READ_OK
    BY <1>1, <1>5 DEF ViewReturns, ViewLoop, RecordReturns, longer, READ_OK, READ_EOF, READ_ERROR
  <2>2. record_length' \in Nat
    <3>1. CardLength(view) \in Nat
      <4>1. view.number_of_minutiae \in Nat /\ FmdLength(format_std) \in Nat
        BY FormatLengths, Bytes DEF ViewRecord
      <4>2. \A a, b \in Nat : a * b \in Nat
        OBVIOUS
      <4> QED BY <4>1, <4>2 DEF CardLength
    <3> QED BY <1>1, <1>5, <3>1 DEF ViewReturns, READ_OK, READ_EOF, READ_ERROR
  <2>3. TypeOK'
    BY <1>1, <1>2, <1>3, <2>1, <2>2 DEF TypeOK, Frame, Pcs, READ_CODES
  <2>4. PlaceInv' /\ ListInv'
    BY <1>1, <1>2, <1>3, <1>5, <2>1 DEF PlaceInv, ListInv, READ_OK, READ_EOF
  <2>5. ListedViewsHaveTheirMinutiae'
    BY <1>1, <1>3, <1>5, <2>1 DEF RecordInv, ListedViewsHaveTheirMinutiae, Frame
  <2>6. Abstract!TakeWhole
    <3>1. Status = "reading" /\ Status' = IF Len(finger_views) + 1 = num_views
                                            THEN "ok" ELSE "reading"
      BY <1>1, <2>1 DEF Status, READ_OK, READ_EOF, READ_ERROR
    <3>2. Marks(finger_views)' = Append(Marks(finger_views), "whole")
      BY <1>4, <2>1
    <3>3. Len(Marks(finger_views)') = Len(finger_views) + 1
      BY <1>4, <2>1
    <3> QED BY <1>1, <1>4, <3>1, <3>2, <3>3, AbstractSteps
  <2> QED BY <2>3, <2>4, <2>5, <2>6 DEF RecordInv, Abstract!RNext
<1>6. CASE code = READ_EOF
  <2>1. /\ finger_views' = (IF view.partial THEN longer ELSE finger_views)
        /\ pc' = "done" /\ ret' = READ_EOF /\ UNCHANGED record_length
    BY <1>6 DEF ViewReturns, RecordReturns, Kept, longer, READ_OK, READ_EOF, READ_ERROR
  <2>2. TypeOK'
    BY <1>1, <1>2, <1>3, <2>1 DEF TypeOK, Frame, Pcs, READ_CODES
  <2>3. PlaceInv' /\ ListInv'
    BY <1>1, <1>2, <1>3, <2>1 DEF PlaceInv, ListInv, READ_OK, READ_EOF
  <2>4. ListedViewsHaveTheirMinutiae'
    BY <1>1, <1>3, <2>1 DEF RecordInv, ListedViewsHaveTheirMinutiae, Frame
  <2>5. Abstract!TakePartial \/ Abstract!GiveUp
    <3>1. Status = "reading" /\ Status' = "eof"
      BY <1>1, <2>1 DEF Status, READ_OK, READ_EOF, READ_ERROR
    <3>2. CASE view.partial
      <4>1. Marks(finger_views)' = Append(Marks(finger_views), "partial")
        BY <1>4, <2>1, <3>2
      <4> QED BY <1>1, <1>4, <3>1, <4>1, AbstractSteps
    <3>3. CASE ~ view.partial
      <4>1. Marks(finger_views)' = Marks(finger_views)
        BY <2>1, <3>3
      <4> QED BY <1>1, <1>4, <3>1, <4>1, AbstractSteps
    <3> QED BY <3>2, <3>3
  <2> QED BY <2>2, <2>3, <2>4, <2>5 DEF RecordInv, Abstract!RNext
<1>7. CASE code = READ_ERROR
  <2>1. pc' = "done" /\ ret' = READ_ERROR /\ UNCHANGED <<finger_views, record_length>>
    BY <1>7 DEF ViewReturns, RecordReturns, READ_OK, READ_EOF, READ_ERROR
  <2>2. TypeOK'
    BY <1>1, <1>2, <2>1 DEF TypeOK, Frame, Pcs, READ_CODES
  <2>3. PlaceInv' /\ ListInv'
    BY <1>1, <1>2, <2>1 DEF PlaceInv, ListInv, READ_OK, READ_ERROR
  <2>4. ListedViewsHaveTheirMinutiae'
    BY <2>1 DEF RecordInv, ListedViewsHaveTheirMinutiae, Frame
  <2>5. Abstract!GiveUp
    BY <1>1, <1>4, <2>1, AbstractSteps DEF Status, READ_OK, READ_EOF, READ_ERROR
  <2> QED BY <2>2, <2>3, <2>4, <2>5 DEF RecordInv, Abstract!RNext
<1> QED BY <1>5, <1>6, <1>7 DEF READ_CODES

\* A view that is given up before its block was read.
LEMMA GivingUpKeeps ==
  ASSUME RecordInv, Frame, pc \notin {"header", "done"},
         UNCHANGED <<current, fedb_vars, num_views>>,
         NEW code \in {READ_EOF, READ_ERROR}, ViewReturns(code, fvmr)
  PROVE  RecordInv' /\ Abstract!RNext
<1>1. current' \in 0 .. end /\ FP!ReaderInv
  BY AtSource DEF RecordInv
<1>2. FP!ReaderInv'
  BY <1>1, BlockIdleKeeps
<1>3. fvmr \in ViewRecord /\ ~ fvmr.partial /\ code \in READ_CODES /\ code # READ_OK
  BY DEF RecordInv, TypeOK, PlaceInv, READ_CODES, READ_OK, READ_EOF, READ_ERROR
<1> QED BY ONLY RecordInv, Frame, pc \notin {"header", "done"}, UNCHANGED num_views,
              ViewReturns(code, fvmr), <1>1, <1>2, <1>3, ViewReturnsKeeps

\* The same where a read fails.
LEMMA ViewFailsKeeps ==
  ASSUME RecordInv, Frame, pc \notin {"header", "done"},
         UNCHANGED <<fedb_vars, num_views>>, NEW n \in Nat, ViewFails(n)
  PROVE  RecordInv' /\ Abstract!RNext
<1>1. PICK code \in READ_CODES : GetFails(n, code) /\ ViewReturns(code, fvmr)
  BY DEF ViewFails
<1>2. code \in {READ_EOF, READ_ERROR} /\ current' = current
  BY <1>1, Reading
<1> QED BY <1>1, <1>2, GivingUpKeeps

-----------------------------------------------------------------------------
(***************************************************************************)
(* The actions, in the order of a read.                                    *)
(***************************************************************************)

\* What every action shows: the invariant, and a step of RecordRead.
Keeps == RecordInv' /\ (Abstract!RNext \/ UNCHANGED Abstract!rvars)

\* The header declares the views, or the read is over.
LEMMA HeaderKeeps == ASSUME RecordInv, ReadHeader PROVE Keeps
<1>1. PICK n \in HeaderLengths(format_std), views \in ViewCounts :
        \/ /\ Get(n)
           /\ num_views' = views
           /\ ViewLoop(0, views)
        \/ /\ GetFails(n, READ_EOF)
           /\ num_views' = IF Fits(current, n - 1, end) THEN views ELSE 0
           /\ RecordReturns(READ_EOF)
        \/ /\ GetFails(n, READ_ERROR)
           /\ num_views' \in {0, views}
           /\ RecordReturns(READ_ERROR)
  BY DEF ReadHeader
<1>2. /\ pc = "header" /\ format_std \notin Cards /\ Frame
      /\ UNCHANGED <<fedb_vars, record_length, finger_views, fvmr>>
  BY DEF ReadHeader
<1>3. /\ num_views = 0 /\ finger_views = <<>> /\ ret = READ_OK /\ ~ fvmr.partial
      /\ fvmr \in ViewRecord /\ record_length \in Nat /\ finger_views \in Seq(ViewRecord)
  BY <1>2 DEF RecordInv, TypeOK, PlaceInv
<1>4. n \in Nat /\ views \in UCHAR /\ 0 \in UCHAR /\ views \in Nat
  BY <1>1, <1>2, FormatLengths, ViewCountsAssumption, Bytes
<1>5. current' \in 0 .. end /\ FP!ReaderInv'
  <2>1. current' \in 0 .. end
    BY <1>1, <1>4, Reading, AtSource
  <2> QED BY <1>2, <2>1, BlockIdleKeeps DEF RecordInv
<1>6. /\ num_views' \in UCHAR /\ num_views' \in Nat
      /\ \/ pc' = "new_view" /\ ret' = READ_OK /\ num_views' > 0
         \/ pc' = "done" /\ ret' = READ_OK /\ num_views' = 0
         \/ pc' = "done" /\ ret' \in {READ_EOF, READ_ERROR}
  BY <1>1, <1>3, <1>4 DEF ViewLoop, RecordReturns
<1>7. TypeOK' /\ PlaceInv' /\ ListInv'
  <2>1. TypeOK'
    BY <1>2, <1>3, <1>5, <1>6 DEF TypeOK, Pcs, READ_CODES, Frame
  <2>2. PlaceInv' /\ ListInv'
    BY <1>2, <1>3, <1>6 DEF PlaceInv, ListInv, READ_OK, READ_EOF, READ_ERROR
  <2> QED BY <2>1, <2>2
<1>8. ListedViewsHaveTheirMinutiae'
  BY <1>2, <1>3 DEF ListedViewsHaveTheirMinutiae
<1>9. Abstract!RNext
  <2>1. Abstract!Declare
    BY <1>2, <1>3, <1>6 DEF Abstract!Declare, READ_OK, READ_EOF, READ_ERROR
  <2> QED BY <2>1 DEF Abstract!RNext
<1> QED BY <1>5, <1>7, <1>8, <1>9 DEF Keeps, RecordInv

\* A card record declares one view without reading anything.
LEMMA CardKeeps == ASSUME RecordInv, CardHeader PROVE Keeps
<1>1. /\ pc = "header" /\ Frame /\ num_views' = 1 /\ record_length' = 0 /\ pc' = "new_view"
      /\ UNCHANGED <<current, fedb_vars, finger_views, fvmr, ret>>
  BY DEF CardHeader
<1>2. /\ num_views = 0 /\ finger_views = <<>> /\ ret = READ_OK /\ ~ fvmr.partial
      /\ fvmr \in ViewRecord /\ finger_views \in Seq(ViewRecord)
  BY <1>1 DEF RecordInv, TypeOK, PlaceInv
<1>3. current' \in 0 .. end /\ FP!ReaderInv'
  BY <1>1, AtSource, BlockIdleKeeps DEF RecordInv
<1>4. TypeOK'
  BY <1>1, <1>2, <1>3, Bytes DEF TypeOK, Pcs, READ_CODES, Frame
<1>5. PlaceInv' /\ ListInv' /\ ListedViewsHaveTheirMinutiae'
  BY <1>1, <1>2 DEF PlaceInv, ListInv, ListedViewsHaveTheirMinutiae, READ_OK
<1>6. Abstract!RNext
  <2>1. Abstract!Declare
    BY <1>1, <1>2 DEF Abstract!Declare, READ_OK
  <2> QED BY <2>1 DEF Abstract!RNext
<1> QED BY <1>3, <1>4, <1>5, <1>6 DEF Keeps, RecordInv

\* A new view starts out empty and not partial.
LEMMA StartViewKeeps == ASSUME RecordInv, StartView PROVE Keeps
<1>1. /\ pc = "new_view" /\ Frame
      /\ UNCHANGED <<current, fedb_vars, num_views, record_length, finger_views>>
  BY DEF StartView
<1>2. current' \in 0 .. end /\ FP!ReaderInv'
  BY <1>1, AtSource, BlockIdleKeeps DEF RecordInv
<1>3. CASE /\ fvmr' = NewView /\ UNCHANGED ret
           /\ pc' = IF format_std \in Cards THEN "card_fmd" ELSE "view_header"
  <2>1. /\ fvmr' \in ViewRecord /\ ~ fvmr'.partial /\ fvmr'.minutiae_data = 0
        /\ pc' \in Pcs \ {"header", "done"} /\ pc' \notin {"fmd", "new_fedb", "fedb"}
        /\ pc' = "card_fmd" => format_std \in Cards
    BY <1>3, NewViewType DEF NewView, Pcs
  <2>2. pc \notin {"header", "done"}
    BY <1>1
  <2> QED BY ONLY RecordInv, <1>1, <1>2, <1>3, <2>1, <2>2, GoingOnKeeps DEF Keeps
<1>4. CASE Failures /\ RecordReturns(READ_ERROR) /\ UNCHANGED fvmr
  <2>1. ViewReturns(READ_ERROR, fvmr)
    BY <1>1, <1>4 DEF ViewReturns
  <2> QED BY <1>1, <2>1, GivingUpKeeps DEF Keeps
<1> QED BY <1>3, <1>4 DEF StartView

\* The view header sets how many minutiae are to come.
LEMMA ViewHeaderKeeps == ASSUME RecordInv, ReadViewHeader PROVE Keeps
<1>1. pc = "view_header" /\ Frame /\ UNCHANGED <<fedb_vars, num_views>>
  BY DEF ReadViewHeader
<1>2. ViewHeaderLength(format_std) \in Nat
  BY FormatLengths
<1>3. ASSUME NEW n \in MinutiaCounts,
             Get(ViewHeaderLength(format_std)),
             fvmr' = [fvmr EXCEPT !.number_of_minutiae = n],
             pc' = IF n > 0 THEN "fmd" ELSE "new_fedb",
             UNCHANGED <<record_length, finger_views, ret>>
      PROVE  Keeps
  <2>1. current' \in 0 .. end
    BY <1>2, <1>3, Reading
  <2>2. FP!ReaderInv'
    BY <1>1, <2>1, BlockIdleKeeps DEF RecordInv
  <2>3. fvmr \in ViewRecord /\ ~ fvmr.partial /\ fvmr.minutiae_data = 0
    BY <1>1 DEF RecordInv, TypeOK, PlaceInv
  <2>4. n \in UCHAR /\ n \in Nat
    BY MinutiaCountsAssumption, Bytes
  <2>5. /\ fvmr' \in ViewRecord /\ ~ fvmr'.partial
        /\ fvmr'.minutiae_data = 0 /\ fvmr'.number_of_minutiae = n
    BY <1>3, <2>3, <2>4 DEF ViewRecord
  <2>6. /\ pc \notin {"header", "done"} /\ pc' \in Pcs \ {"header", "done"}
        /\ pc' \in {"fmd", "new_fedb"}
        /\ pc' = "fmd" => 0 < n
        /\ pc' = "new_fedb" => n = 0
    BY <1>1, <1>3, <2>4 DEF Pcs
  <2> QED BY ONLY RecordInv, <1>1, <1>3, <2>1, <2>2, <2>5, <2>6, GoingOnKeeps DEF Keeps
<1>4. CASE ViewFails(ViewHeaderLength(format_std))
  BY <1>1, <1>2, <1>4, ViewFailsKeeps DEF Keeps
<1> QED BY <1>3, <1>4 DEF ReadViewHeader

\* Each minutia brings the count closer; the block comes when it is reached.
LEMMA FmdKeeps == ASSUME RecordInv, ReadFmd PROVE Keeps
<1>1. pc = "fmd" /\ Frame /\ UNCHANGED <<fedb_vars, num_views>>
  BY DEF ReadFmd
<1>2. FmdLength(format_std) \in Nat
  BY FormatLengths
<1>3. CASE /\ Get(FmdLength(format_std)) /\ InView
           /\ pc' = IF fvmr.minutiae_data + 1 < fvmr.number_of_minutiae
                      THEN "fmd" ELSE "new_fedb"
           /\ UNCHANGED <<record_length, finger_views, ret>>
  <2>1. current' \in 0 .. end
    BY <1>2, <1>3, Reading
  <2>2. FP!ReaderInv'
    BY <1>1, <2>1, BlockIdleKeeps DEF RecordInv
  <2>3. /\ fvmr \in ViewRecord /\ ~ fvmr.partial
        /\ fvmr.minutiae_data < fvmr.number_of_minutiae
        /\ fvmr.minutiae_data \in Nat /\ fvmr.number_of_minutiae \in Nat
    BY <1>1, Bytes DEF RecordInv, TypeOK, PlaceInv, ViewRecord
  <2>4. /\ fvmr' \in ViewRecord /\ ~ fvmr'.partial
        /\ fvmr'.minutiae_data = fvmr.minutiae_data + 1
        /\ fvmr'.number_of_minutiae = fvmr.number_of_minutiae
    BY <1>3, <2>3 DEF InView, ViewRecord
  <2>5. /\ pc \notin {"header", "done"} /\ pc' \in Pcs \ {"header", "done"}
        /\ pc' \in {"fmd", "new_fedb"}
        /\ pc' = "fmd" => fvmr'.minutiae_data < fvmr'.number_of_minutiae
        /\ pc' = "new_fedb" => fvmr'.minutiae_data = fvmr'.number_of_minutiae
    BY <1>1, <1>3, <2>3, <2>4 DEF Pcs
  <2> QED BY ONLY RecordInv, <1>1, <1>3, <2>1, <2>2, <2>4, <2>5, GoingOnKeeps DEF Keeps
<1>4. CASE ViewFails(FmdLength(format_std))
  BY <1>1, <1>2, <1>4, ViewFailsKeeps DEF Keeps
<1>5. CASE Failures /\ UNCHANGED current /\ ViewReturns(READ_ERROR, fvmr)
  BY <1>1, <1>5, GivingUpKeeps DEF Keeps
<1> QED BY <1>3, <1>4, <1>5 DEF ReadFmd

\* A card view ends with its source, whose end is no failure here.
LEMMA CardFmdKeeps == ASSUME RecordInv, ReadCardFmd PROVE Keeps
<1>1. pc = "card_fmd" /\ Frame /\ UNCHANGED <<fedb_vars, num_views>>
  BY DEF ReadCardFmd
<1>2. FmdLength(format_std) \in Nat
  BY FormatLengths
<1>3. fvmr \in ViewRecord /\ ~ fvmr.partial /\ format_std \in Cards
  BY <1>1 DEF RecordInv, TypeOK, PlaceInv
<1>4. CASE /\ Get(FmdLength(format_std))
           /\ fvmr' = [fvmr EXCEPT !.minutiae_data = @ + 1,
                                   !.number_of_minutiae = (@ + 1) % 256]
           /\ UNCHANGED <<pc, record_length, finger_views, ret>>
  <2>1. current' \in 0 .. end
    BY <1>2, <1>4, Reading
  <2>2. FP!ReaderInv'
    BY <1>1, <2>1, BlockIdleKeeps DEF RecordInv
  <2>3. /\ fvmr.number_of_minutiae + 1 \in Nat /\ fvmr.minutiae_data + 1 \in Nat
    <3>1. fvmr.number_of_minutiae \in UCHAR /\ fvmr.minutiae_data \in Nat
      BY <1>3 DEF ViewRecord
    <3>2. fvmr.number_of_minutiae \in Nat
      BY <3>1, Bytes
    <3> QED BY ONLY <3>1, <3>2
  <2>4. (fvmr.number_of_minutiae + 1) % 256 \in UCHAR
    BY <2>3, Bytes
  <2>5. fvmr' \in ViewRecord /\ ~ fvmr'.partial
    BY ONLY <1>3, <1>4, <2>3, <2>4 DEF ViewRecord
  <2>6. /\ pc \notin {"header", "done"} /\ pc' \in Pcs \ {"header", "done"}
        /\ pc' = "card_fmd"
    BY <1>1, <1>4 DEF Pcs
  <2> QED BY ONLY RecordInv, <1>1, <1>3, <1>4, <2>1, <2>2, <2>5, <2>6, GoingOnKeeps DEF Keeps
<1>5. CASE GetFails(FmdLength(format_std), READ_EOF) /\ ViewReturns(READ_OK, fvmr)
  <2>1. current' \in 0 .. end
    BY <1>2, <1>5, Reading, AtSource
  <2>2. FP!ReaderInv'
    BY <1>1, <2>1, BlockIdleKeeps DEF RecordInv
  <2>3. READ_OK \in READ_CODES /\ pc \notin {"header", "done"}
    BY <1>1 DEF READ_CODES
  <2> QED BY ONLY RecordInv, <1>1, <1>3, <1>5, <2>1, <2>2, <2>3, ViewReturnsKeeps DEF Keeps
<1>6. CASE GetFails(FmdLength(format_std), READ_ERROR) /\ ViewReturns(READ_ERROR, fvmr)
  <2>1. current' = current
    BY <1>2, <1>6, Reading
  <2> QED BY <1>1, <1>6, <2>1, GivingUpKeeps DEF Keeps
<1>7. CASE Failures /\ UNCHANGED current /\ ViewReturns(READ_ERROR, fvmr)
  BY <1>1, <1>7, GivingUpKeeps DEF Keeps
<1> QED BY <1>4, <1>5, <1>6, <1>7 DEF ReadCardFmd

\* A block before its read starts.
FreshBlock ==
  /\ format_std \in RecordFormats /\ source \in Sources
  /\ end \in Nat /\ current \in 0 .. end
  /\ fedb_pc \in {"block_length", "done"}
  /\ fedb = Fedb!EmptyFedb /\ block_length = 0
  /\ fed = 0 /\ heap = <<>> /\ todo = 0
  /\ fed_ret = READ_OK /\ fedb_ret = READ_OK

\* It has the block reader's invariant.
LEMMA FreshBlockInv == FreshBlock => FP!ReaderInv
<1>1. RecordFormats \subseteq FP!AllFormats
  BY RecordFormatsAssumption DEF AllFormats, Cards, FP!AllFormats, FP!Cards
<1>2. FP!USHORT = USHORT
  BY DEF USHORT, USHRT_MAX, FP!USHORT, FP!USHRT_MAX
<1>3. FP!Fresh => FP!ReaderInv
  BY <1>1, <1>2, BlockAssumption, FP!FreshReaderInv
<1> QED BY <1>3
        DEF FreshBlock, FP!Fresh, Fedb!EmptyFedb, FP!EmptyFedb, READ_OK, FP!READ_OK,
            Sources, FP!Sources

\* The block starts fresh for each view.
LEMMA StartFedbKeeps == ASSUME RecordInv, StartFedb PROVE Keeps
<1>1. pc = "new_fedb" /\ Frame /\ UNCHANGED <<current, num_views>>
  BY DEF StartFedb
<1>2. CASE /\ pc' = "fedb"
           /\ fedb_pc' = "block_length" /\ fedb' = Fedb!EmptyFedb
           /\ block_length' = 0 /\ fed' = 0 /\ heap' = <<>> /\ todo' = 0
           /\ fed_ret' = READ_OK /\ fedb_ret' = READ_OK
           /\ UNCHANGED <<record_length, finger_views, fvmr, ret>>
  <2>1. /\ format_std' \in RecordFormats /\ source' \in Sources
        /\ end' \in Nat /\ current' \in 0 .. end' /\ current' \in 0 .. end
    BY <1>1, AtSource DEF Frame
  <2>2. FP!ReaderInv'
    <3>1. FreshBlock'
      BY <1>2, <2>1 DEF FreshBlock, Fedb!EmptyFedb, READ_OK
    <3> QED BY <3>1, FreshBlockInv, PTL
  <2>3. /\ fvmr' \in ViewRecord /\ ~ fvmr'.partial
        /\ fvmr'.minutiae_data = fvmr'.number_of_minutiae
    BY <1>1, <1>2 DEF RecordInv, TypeOK, PlaceInv
  <2>4. pc \notin {"header", "done"} /\ pc' \in Pcs \ {"header", "done"} /\ pc' = "fedb"
    BY <1>1, <1>2 DEF Pcs
  <2> QED BY ONLY RecordInv, <1>1, <1>2, <2>1, <2>2, <2>3, <2>4, GoingOnKeeps DEF Keeps
<1>3. CASE Failures /\ ViewReturns(READ_ERROR, fvmr) /\ UNCHANGED fedb_vars
  BY <1>1, <1>3, GivingUpKeeps DEF Keeps
<1> QED BY <1>2, <1>3 DEF StartFedb

\* The block reader touches nothing of the record but the cursor.
LEMMA BlockFrame == Fedb!Next => Frame
<1>1. Fedb!BodyFrame => Frame
  BY DEF Fedb!BodyFrame, Frame
<1>2. Fedb!ReadBlockLength \/ Fedb!ReadFedHeader \/ Fedb!FinishFed => Frame
  BY DEF Fedb!ReadBlockLength, Fedb!ReadFedHeader, Fedb!FinishFed, Frame
<1>3. Fedb!ReadRidgeMethod \/ Fedb!ReadRidgeCount \/ Fedb!ReadData => Frame
  BY <1>1 DEF Fedb!ReadRidgeMethod, Fedb!ReadRidgeCount, Fedb!ReadData
<1>4. Fedb!ReadNumCores \/ Fedb!ReadCore \/ Fedb!ReadNumDeltas \/ Fedb!ReadDelta => Frame
  BY <1>1 DEF Fedb!ReadNumCores, Fedb!ReadCore, Fedb!ReadNumDeltas, Fedb!ReadDelta
<1> QED BY <1>2, <1>3, <1>4 DEF Fedb!Next

\* While the block is read the record waits.
LEMMA ReadFedbKeeps == ASSUME RecordInv, ReadFedb PROVE Keeps
<1>1. pc = "fedb" /\ UNCHANGED fmr_vars /\ Frame /\ FP!ReaderInv'
  BY BlockFrame, BlockStepKeeps DEF ReadFedb, RecordInv
<1>2. current' \in 0 .. end
  BY <1>1 DEF FP!ReaderInv, FP!TypeOK, Frame
<1>3. /\ fvmr' \in ViewRecord /\ ~ fvmr'.partial
      /\ fvmr'.minutiae_data = fvmr'.number_of_minutiae
      /\ UNCHANGED <<num_views, record_length, finger_views, ret>>
  BY <1>1 DEF RecordInv, TypeOK, PlaceInv, fmr_vars
<1>4. pc \notin {"header", "done"} /\ pc' \in Pcs \ {"header", "done"} /\ pc' = "fedb"
  BY <1>1 DEF fmr_vars, Pcs
<1> QED BY ONLY RecordInv, <1>1, <1>2, <1>3, <1>4, GoingOnKeeps DEF Keeps

\* What the block reader leaves behind: a block that fits a view, partial
\* only if the source ended.
LEMMA BlockResult ==
  ASSUME RecordInv
  PROVE  /\ fedb_ret \in READ_CODES
         /\ fedb.partial \in BOOLEAN /\ (fedb.partial => fedb_ret = READ_EOF)
         /\ [block_length |-> fedb.block_length,
             feds |-> [i \in DOMAIN fedb.extended_data |-> heap[fedb.extended_data[i]]]]
              \in ExtendedRecord
<1>1. /\ fedb_ret \in FP!READ_CODES /\ fedb \in FP!FedbRecord /\ heap \in Seq(FP!FedRecord)
      /\ \A i \in DOMAIN FP!List : FP!List[i] = i
      /\ Len(heap) - Len(FP!List) \in {0, 1}
      /\ fedb.partial => fedb_ret = FP!READ_EOF
  BY DEF RecordInv, FP!ReaderInv, FP!TypeOK, FP!OwnedOnce, FP!PartialExact
<1>2. fedb_ret \in READ_CODES /\ (fedb.partial => fedb_ret = READ_EOF)
  BY <1>1 DEF READ_CODES, READ_OK, READ_EOF, READ_ERROR, FP!READ_CODES, FP!READ_OK,
              FP!READ_EOF, FP!READ_ERROR
<1>3. /\ fedb.partial \in BOOLEAN /\ fedb.extended_data \in Seq(Nat)
      /\ fedb.block_length \in FP!USHORT
  BY <1>1 DEF FP!FedbRecord
<1>4. FP!USHORT = USHORT /\ FP!FedRecord = Fedb!FedRecord
  BY DEF USHORT, USHRT_MAX, FP!USHORT, FP!USHRT_MAX, Fedb!USHORT, Fedb!USHRT_MAX,
         FP!FedRecord, Fedb!FedRecord, FP!FedTypes, Fedb!FedTypes,
         FP!FED_RIDGE_COUNT, FP!FED_CORE_AND_DELTA, FP!FED_OTHER,
         Fedb!FED_RIDGE_COUNT, Fedb!FED_CORE_AND_DELTA, Fedb!FED_OTHER
<1> DEFINE list == fedb.extended_data
           feds == [i \in DOMAIN list |-> heap[list[i]]]
<1>5. feds \in Seq(Fedb!FedRecord)
  <2>1. DOMAIN list = 1 .. Len(list) /\ Len(list) \in Nat
    BY <1>3, LenProperties
  <2>2. \A i \in 1 .. Len(list) : list[i] = i /\ i \in 1 .. Len(heap)
    <3>1. Len(heap) \in Nat /\ (Len(heap) = Len(list) \/ Len(heap) = Len(list) + 1)
      BY <1>1, <2>1, LenProperties DEF FP!List
    <3>2. \A i \in DOMAIN list : list[i] = i
      BY <1>1 DEF FP!List
    <3> QED BY <2>1, <3>1, <3>2
  <2>3. \A i \in 1 .. Len(heap) : heap[i] \in Fedb!FedRecord
    BY <1>1, <1>4, ElementOfSeq
  <2>4. feds \in [1 .. Len(list) -> Fedb!FedRecord]
    BY <2>1, <2>2, <2>3
  <2> QED BY <2>1, <2>4, SeqDef
<1> HIDE DEF feds
<1>6. [block_length |-> fedb.block_length, feds |-> feds] \in ExtendedRecord
  BY <1>3, <1>4, <1>5 DEF ExtendedRecord
<1> QED BY <1>2, <1>3, <1>6 DEF feds

\* The result of the block decides the result of the view.
LEMMA FinishFedbKeeps == ASSUME RecordInv, FinishFedb PROVE Keeps
<1>1. /\ pc = "fedb" /\ pc \notin {"header", "done"}
      /\ Frame /\ UNCHANGED <<current, fedb_vars, num_views>>
  BY DEF FinishFedb
<1>2. /\ fvmr \in ViewRecord /\ fvmr.minutiae_data = fvmr.number_of_minutiae
      /\ fvmr.number_of_minutiae \in UCHAR /\ fvmr.minutiae_data \in Nat
  BY <1>1 DEF RecordInv, TypeOK, PlaceInv, ViewRecord
<1>3. CASE fedb_ret = READ_ERROR
  <2>1. ViewReturns(READ_ERROR, fvmr)
    BY <1>3 DEF FinishFedb
  <2> QED BY <1>1, <2>1, GivingUpKeeps DEF Keeps
<1>4. CASE fedb_ret # READ_ERROR
  <2> DEFINE full == [block_length |-> fedb.block_length,
                      feds |-> [i \in DOMAIN fedb.extended_data |->
                                  heap[fedb.extended_data[i]]]]
             extended == IF fedb.block_length # 0 THEN full ELSE NoExtended
             view == [fvmr EXCEPT !.partial = fedb.partial, !.extended = extended]
  <2>1. ViewReturns(fedb_ret, view)
    BY <1>4 DEF FinishFedb
  <2>2. extended \in ExtendedRecord
    <3>1. NoExtended \in ExtendedRecord
      BY NewViewType DEF NewView, ViewRecord
    <3> QED BY <3>1, BlockResult
  <2>3. fedb.partial \in BOOLEAN /\ (fedb.partial => fedb_ret = READ_EOF) /\ fedb_ret \in READ_CODES
    BY BlockResult
  <2> HIDE DEF extended
  <2>4. /\ view \in ViewRecord /\ view.partial = fedb.partial
        /\ view.minutiae_data = view.number_of_minutiae
    BY ONLY <1>2, <2>2, <2>3 DEF ViewRecord
  <2>5. current' \in 0 .. end /\ FP!ReaderInv'
    BY <1>1, AtSource, BlockIdleKeeps DEF RecordInv
  <2> HIDE DEF view
  <2>6. view.partial => fedb_ret = READ_EOF
    BY <2>3, <2>4
  <2> QED BY ONLY RecordInv, <1>1, <2>1, <2>3, <2>4, <2>5, <2>6, ViewReturnsKeeps DEF Keeps
<1> QED BY <1>3, <1>4

-----------------------------------------------------------------------------
(***************************************************************************)
(* RecordInv is inductive, and every step is one of RecordRead.            *)
(***************************************************************************)
LEMMA InitKeeps == Init => RecordInv /\ Abstract!RInit
<1> SUFFICES ASSUME Init PROVE RecordInv /\ Abstract!RInit
  OBVIOUS
<1>1. /\ end \in Nat /\ current = 0 /\ current \in 0 .. end
      /\ format_std \in RecordFormats /\ source \in Sources
  BY BlockAssumption DEF Init
<1>2. FP!ReaderInv
  <2>1. FreshBlock
    BY <1>1 DEF Init, FreshBlock, READ_OK, Fedb!READ_OK
  <2> QED BY <2>1, FreshBlockInv
<1>3. /\ pc = "header" /\ num_views = 0 /\ record_length = 0
      /\ finger_views = <<>> /\ fvmr = NewView /\ ret = READ_OK
  BY DEF Init
<1>4. TypeOK
  BY <1>1, <1>3, Bytes, NewViewType DEF TypeOK, Pcs, READ_CODES
<1>5. PlaceInv /\ ListInv /\ ListedViewsHaveTheirMinutiae
  BY <1>3 DEF PlaceInv, ListInv, ListedViewsHaveTheirMinutiae, NewView
<1>6. Abstract!RInit
  BY <1>3 DEF Abstract!RInit
<1> QED BY <1>2, <1>4, <1>5, <1>6 DEF RecordInv

\* Every step keeps RecordInv and is one of RecordRead or invisible to it.
LEMMA StepKeeps == RecordInv /\ [Next]_vars => RecordInv' /\ [Abstract!RNext]_Abstract!rvars
<1> SUFFICES ASSUME RecordInv, [Next]_vars PROVE Keeps
  BY DEF Keeps
<1>1. CASE UNCHANGED vars
  <2>1. Frame /\ UNCHANGED fedb_vars /\ UNCHANGED fmr_vars /\ UNCHANGED current
    BY <1>1 DEF vars, Frame
  <2>2. FP!ReaderInv' /\ current' \in 0 .. end
    BY <2>1, AtSource, BlockIdleKeeps DEF RecordInv
  <2>3. TypeOK' /\ PlaceInv' /\ ListInv' /\ ListedViewsHaveTheirMinutiae'
    BY <2>1, <2>2 DEF RecordInv, TypeOK, PlaceInv, ListInv, ListedViewsHaveTheirMinutiae,
                      Frame, fmr_vars
  <2>4. UNCHANGED Abstract!rvars
    BY <2>1 DEF Abstract!rvars, fmr_vars
  <2> QED BY <2>2, <2>3, <2>4 DEF RecordInv, Keeps
<1>2. CASE Next
  BY <1>2, HeaderKeeps, CardKeeps, StartViewKeeps, ViewHeaderKeeps, FmdKeeps, CardFmdKeeps,
     StartFedbKeeps, ReadFedbKeeps, FinishFedbKeeps DEF Next
<1> QED BY <1>1, <1>2

\* RecordInv is an invariant of the reader.
LEMMA Inductive == Spec => []RecordInv
  BY InitKeeps, StepKeeps, PTL DEF Spec

-----------------------------------------------------------------------------
(***************************************************************************)
(* The theorems.                                                           *)
(***************************************************************************)

\* The reader of a record keeps the cursor inside the source and its byte
\* counters in their width, whatever the wire holds and whatever fails.
THEOREM RecordTypesAreKept == Spec => []TypeOK
<1>1. RecordInv => TypeOK
  BY DEF RecordInv
<1> QED BY <1>1, Inductive, PTL

\* A view on the list of the FMR has all the minutiae its header declares.
THEOREM ViewsAreComplete == Spec => []ListedViewsHaveTheirMinutiae
<1>1. RecordInv => ListedViewsHaveTheirMinutiae
  BY DEF RecordInv
<1> QED BY <1>1, Inductive, PTL

\* internal_read_fmr implements RecordRead: each of its steps, those of the
\* block reader included, is a step of RecordRead or invisible to it.
THEOREM ReaderImplementsRecordRead == Spec => ReadsARecord
  BY InitKeeps, StepKeeps, Inductive, PTL DEF Spec, ReadsARecord, Abstract!RSpec

\* What a caller of read_fmr may rely on: never more views than declared, all
\* of them whole when it returned READ_OK, and only the last one partial.
THEOREM PromiseIsKept == Spec => []Promise
<1>1. RecordInv => Promise
  <2> SUFFICES ASSUME RecordInv PROVE Promise
    OBVIOUS
  <2>1. /\ finger_views \in Seq(ViewRecord) /\ Len(finger_views) \in Nat
        /\ DOMAIN finger_views = 1 .. Len(finger_views)
        /\ ret \in READ_CODES
    BY LenProperties DEF RecordInv, TypeOK
  <2>2. Marks(finger_views) \in Seq({"partial", "whole"})
        /\ Len(Marks(finger_views)) = Len(finger_views)
    BY <2>1, NewViewType, MarksOfAppend
  <2>3. /\ Status = "ok" => pc = "done" /\ ret = READ_OK
        /\ pc = "done" /\ ret = READ_EOF => Status = "eof"
    BY <2>1 DEF Status, READ_CODES, READ_OK, READ_EOF, READ_ERROR
  <2>4. /\ Len(Marks(finger_views)) <= num_views
        /\ Status = "ok" => Len(Marks(finger_views)) = num_views
    BY <2>2, <2>3 DEF RecordInv, ListInv
  <2>5. \A i \in DOMAIN Marks(finger_views) :
          Marks(finger_views)[i] = "partial" =>
            i = Len(Marks(finger_views)) /\ Status = "eof"
    BY <2>1, <2>2, <2>3 DEF RecordInv, ListInv, Marks
  <2>6. Status = "ok" => \A i \in DOMAIN Marks(finger_views) : Marks(finger_views)[i] = "whole"
    BY <2>2, <2>3, <2>5 DEF Marks
  <2>7. Promise <=>
          /\ Len(Marks(finger_views)) <= num_views
          /\ Status = "ok" =>
               /\ Len(Marks(finger_views)) = num_views
               /\ \A i \in DOMAIN Marks(finger_views) : Marks(finger_views)[i] = "whole"
          /\ \A i \in DOMAIN Marks(finger_views) :
               Marks(finger_views)[i] = "partial" =>
                 i = Len(Marks(finger_views)) /\ Status = "eof"
    BY Zenon DEF Promise, Abstract!Promise, Marks, Status
  <2> QED BY <2>4, <2>5, <2>6, <2>7
<1> QED BY <1>1, Inductive, PTL

-----------------------------------------------------------------------------
(***************************************************************************)
(* The bytes of the record.                                                *)
(*                                                                         *)
(* Behind a header the cursor has passed the views on the list and what    *)
(* has been read of the one in hand.  CursorInv says it for each place;    *)
(* inside a block it is what FedbReader's Accounted says of a block that   *)
(* starts behind the minutiae.  It speaks of records whose listed FEDs     *)
(* have their true lengths: one that lies moves the cursor elsewhere.      *)
(***************************************************************************)
ListedLength == SumFunction([i \in DOMAIN finger_views |-> ViewLength(finger_views[i])])
ListedTrue   == \A i \in DOMAIN finger_views : LengthsAreTrue(finger_views[i])

\* The bytes of the view in hand up to its extended data.
InHandLength == ViewHeaderLength(format_std) + fvmr.minutiae_data * FmdLength(format_std)

\* Where the cursor is, for a record whose header has this length.
AtHeader(header) ==
  /\ pc \in {"new_view", "view_header", "done"} => current = header + ListedLength
  /\ pc \in {"fmd", "new_fedb"} => current = header + ListedLength + InHandLength
  /\ pc = "fedb" => FP!Accounted(header + ListedLength + InHandLength)

CursorInv ==
  format_std \notin Cards /\ ret = READ_OK =>
    /\ pc = "header" => current = 0
    /\ pc = "fedb" => FP!NoBlockNoFeds
    /\ pc # "header" /\ ListedTrue =>
         \E header \in HeaderLengths(format_std) : AtHeader(header)

\* A card view: how many whole minutiae have been read, and counted in 8 bits.
WholeMinutiae(view, n) == view.minutiae_data = n /\ view.number_of_minutiae = n % 256

CardInv ==
  format_std \in Cards /\ ret = READ_OK =>
    /\ pc \in {"header", "new_view", "card_fmd", "done"}
    /\ pc \in {"header", "new_view"} => current = 0
    /\ pc # "header" => num_views = 1
    /\ pc # "done" => finger_views = <<>>
    /\ pc = "card_fmd" =>
         /\ WholeMinutiae(fvmr, fvmr.minutiae_data)
         /\ current = fvmr.minutiae_data * FmdLength(format_std)
    /\ pc = "done" =>
         /\ Len(finger_views) = 1
         /\ WholeMinutiae(finger_views[1], end \div FmdLength(format_std))
         /\ record_length = CardLength(finger_views[1])

AccountInv == CursorInv /\ CardInv

\* A minutia of a record that is no card has six bytes; a card has five or three.
LEMMA MinutiaLengths ==
  ASSUME RecordInv
  PROVE  /\ format_std \notin Cards => FmdLength(format_std) = 6
         /\ format_std \in Cards => FmdLength(format_std) \in {5, 3}
  BY DEF FmdLength, Cards

\* The sums are numbers.
LEMMA RecordSums ==
  ASSUME RecordInv
  PROVE  /\ \A v \in ViewRecord : ViewLength(v) \in Nat
         /\ ListedLength \in Nat /\ InHandLength \in Nat
<1>1. ASSUME NEW v \in ViewRecord
      PROVE  /\ ViewLength(v) \in Nat
             /\ ViewHeaderLength(format_std) + v.minutiae_data * FmdLength(format_std) \in Nat
  <2>1. v.minutiae_data \in Nat /\ v.extended.block_length \in USHORT
    BY DEF ViewRecord, ExtendedRecord
  <2>2. USHORT \subseteq Nat
    BY DEF USHORT
  <2>3. ViewHeaderLength(format_std) \in Nat /\ FmdLength(format_std) \in Nat
    BY FormatLengths
  <2>4. \A a, b, c, d \in Nat : a + b * c \in Nat /\ a + b * c + 2 + d \in Nat
    <3>1. \A b, c \in Nat : b * c \in Nat
      OBVIOUS
    <3>2. \A a, d, p \in Nat : a + p \in Nat /\ a + p + 2 + d \in Nat
      OBVIOUS
    <3> QED BY <3>1, <3>2
  <2> QED BY <2>1, <2>2, <2>3, <2>4 DEF ViewLength, FEDB_HEADER_LENGTH
<1>2. /\ finger_views \in Seq(ViewRecord) /\ fvmr \in ViewRecord
      /\ Len(finger_views) \in Nat /\ DOMAIN finger_views = 1 .. Len(finger_views)
  BY DEF RecordInv, TypeOK
<1>3. ListedLength \in Nat
  <2> DEFINE w == [i \in DOMAIN finger_views |-> ViewLength(finger_views[i])]
  <2>1. DOMAIN w = 1 .. Len(finger_views) /\ \A k \in 1 .. Len(finger_views) : w[k] \in Nat
    <3>1. \A k \in 1 .. Len(finger_views) : finger_views[k] \in ViewRecord
      BY <1>2, ElementOfSeq
    <3> QED BY <1>1, <1>2, <3>1
  <2>2. ListedLength = SumFunction(w)
    BY DEF ListedLength
  <2> HIDE DEF w
  <2> QED BY <1>2, <2>1, <2>2, SumType
<1> QED BY <1>1, <1>2, <1>3 DEF InHandLength

\* A view that is listed adds its length.
LEMMA ListedGrows ==
  ASSUME RecordInv, NEW view \in ViewRecord, finger_views' = Append(finger_views, view),
         UNCHANGED format_std
  PROVE  /\ ListedLength' = ListedLength + ViewLength(view)
         /\ ListedTrue' => ListedTrue /\ LengthsAreTrue(view)
<1> DEFINE n == Len(finger_views)
           t == Append(finger_views, view)
<1>1. finger_views \in Seq(ViewRecord) /\ n \in Nat /\ DOMAIN finger_views = 1 .. n
  BY DEF RecordInv, TypeOK
<1>2. /\ t \in Seq(ViewRecord) /\ DOMAIN t = 1 .. n + 1 /\ Len(t) = n + 1
      /\ t[n + 1] = view /\ \A k \in 1 .. n : t[k] = finger_views[k]
  BY <1>1, AppendProperties, LenProperties
<1>3. \A k \in 1 .. n + 1 : t[k] \in ViewRecord
  BY <1>2, ElementOfSeq
<1>4. /\ n + 1 \in DOMAIN t /\ \A k \in 1 .. n : k \in DOMAIN t
  BY <1>1, <1>2
<1> HIDE DEF n, t
<1>5. finger_views' = t
  BY DEF t
<1>6. ListedLength' = ListedLength + ViewLength(view)
  <2> DEFINE w == [k \in DOMAIN finger_views |-> ViewLength(finger_views[k])]
             v == [k \in DOMAIN t |-> ViewLength(t[k])]
  <2>1. DOMAIN w = 1 .. n /\ DOMAIN v = 1 .. n + 1 /\ v[n + 1] = ViewLength(view)
    BY <1>1, <1>2, <1>4
  <2>2. \A k \in 1 .. n : v[k] = w[k]
    BY <1>1, <1>2, <1>4
  <2>3. Weights(v, n + 1)
    BY <1>2, <1>3, RecordSums DEF Weights
  <2>4. ListedLength = SumFunction(w)
    BY DEF ListedLength
  <2>5. ListedLength' = SumFunction(v)
    BY <1>5 DEF ListedLength, ViewLength
  <2> HIDE DEF w, v
  <2> QED BY <1>1, <2>1, <2>2, <2>3, <2>4, <2>5, SumGrows
<1>7. ASSUME ListedTrue' PROVE ListedTrue /\ LengthsAreTrue(view)
  <2>1. \A k \in DOMAIN t : LengthsAreTrue(t[k])
    BY <1>5, <1>7 DEF ListedTrue, LengthsAreTrue
  <2> QED BY <1>1, <1>2, <1>4, <2>1 DEF ListedTrue
<1> QED BY <1>6, <1>7

-----------------------------------------------------------------------------
(***************************************************************************)
(* What FedbReader_proofs knows of the bytes of a block, for a block that  *)
(* a record reader has read: where it starts, each step, and its end.      *)
(***************************************************************************)

\* A block of which nothing has been read starts where the cursor is.
BlockStarts ==
  \A start \in Nat :
    /\ fedb_pc = "block_length" /\ current = start
    /\ block_length = 0 /\ fedb = FP!EmptyFedb
    => FP!Accounted(start)

LEMMA FreshAccounted == BlockStarts
<1>1. RecordFormats \subseteq FP!AllFormats
  BY RecordFormatsAssumption DEF AllFormats, Cards, FP!AllFormats, FP!Cards
<1>2. FP!USHORT = USHORT
  BY DEF USHORT, USHRT_MAX, FP!USHORT, FP!USHRT_MAX
<1> QED BY <1>1, <1>2, BlockAssumption, FP!FreshAccounts DEF BlockStarts

\* A step of the block reader.
LEMMA BlockStepAccounts ==
  /\ FP!ReaderInv /\ FP!NoBlockNoFeds /\ Fedb!Next => FP!NoBlockNoFeds'
  /\ \A start \in Nat : FP!ReaderInv /\ FP!Accounted(start) /\ Fedb!Next => FP!Accounted(start)'
<1>1. RecordFormats \subseteq FP!AllFormats
  BY RecordFormatsAssumption DEF AllFormats, Cards, FP!AllFormats, FP!Cards
<1>2. FP!USHORT = USHORT
  BY DEF USHORT, USHRT_MAX, FP!USHORT, FP!USHRT_MAX
<1>3. FP!ReaderInv /\ FP!NoBlockNoFeds /\ [FP!Next]_FP!vars => FP!NoBlockNoFeds'
  BY <1>1, <1>2, BlockAssumption, FP!NextKeepsNoBlock
<1>4. ASSUME NEW start \in Nat
      PROVE  FP!ReaderInv /\ FP!Accounted(start) /\ [FP!Next]_FP!vars => FP!Accounted(start)'
  BY <1>1, <1>2, BlockAssumption, FP!NextKeepsAccounted
<1> QED BY <1>3, <1>4, SameNext

\* A block read to its end; one of length 0 has no FEDs that could lie.
LEMMA BlockEnds ==
  ASSUME NEW start \in Nat, FP!ReaderInv, FP!Accounted(start), FP!NoBlockNoFeds,
         fedb_pc = "done", fedb_ret = READ_OK,
         \/ fedb.block_length = 0
         \/ \A k \in DOMAIN FP!List : FP!LengthIsTrue(heap[FP!List[k]])
  PROVE  current = start + 2 + fedb.block_length
<1>1. RecordFormats \subseteq FP!AllFormats
  BY RecordFormatsAssumption DEF AllFormats, Cards, FP!AllFormats, FP!Cards
<1>2. FP!USHORT = USHORT
  BY DEF USHORT, USHRT_MAX, FP!USHORT, FP!USHRT_MAX
<1>3. FP!ListedInHeap
  BY <1>1, <1>2, BlockAssumption, FP!ListIsInHeap
<1>4. \A k \in DOMAIN FP!List : FP!LengthIsTrue(heap[k])
  <2>1. \A k \in DOMAIN FP!List : FP!List[k] = k
    BY DEF FP!ReaderInv, FP!OwnedOnce
  <2>2. fedb.block_length = 0 => DOMAIN FP!List = {}
    BY <1>3 DEF FP!NoBlockNoFeds, FP!ListedInHeap
  <2> QED BY <2>1, <2>2
<1>5. fedb_ret = FP!READ_OK
  BY DEF READ_OK, FP!READ_OK
<1> QED BY <1>1, <1>2, <1>4, <1>5, BlockAssumption, FP!EndOfBlock

-----------------------------------------------------------------------------
(***************************************************************************)
(* AccountInv, action by action.                                           *)
(***************************************************************************)

\* A reader that gives up claims nothing of its bytes.
LEMMA GivingUpAccounts == ASSUME ret' # READ_OK PROVE AccountInv'
  BY DEF AccountInv, CursorInv, CardInv

\* internal_read_fvmr has returned something else than READ_OK.
LEMMA FailedViewAccounts ==
  ASSUME NEW code \in {READ_EOF, READ_ERROR}, NEW view, ViewReturns(code, view)
  PROVE  AccountInv'
<1>1. ret' # READ_OK
  BY DEF ViewReturns, RecordReturns, READ_OK, READ_EOF, READ_ERROR
<1> QED BY <1>1, GivingUpAccounts

\* The same where a read fails.
LEMMA ViewFailsAccounts ==
  ASSUME RecordInv, NEW n \in Nat, ViewFails(n)
  PROVE  AccountInv'
<1>1. PICK code \in READ_CODES : GetFails(n, code) /\ ViewReturns(code, fvmr)
  BY DEF ViewFails
<1>2. code \in {READ_EOF, READ_ERROR}
  BY <1>1, Reading
<1> QED BY <1>1, <1>2, FailedViewAccounts

\* The header: behind it, with nothing listed.
LEMMA HeaderAccounts == ASSUME RecordInv, AccountInv, ReadHeader PROVE AccountInv'
<1>1. /\ pc = "header" /\ format_std \notin Cards /\ Frame /\ finger_views' = finger_views
  BY DEF ReadHeader
<1>2. CASE ret' # READ_OK
  BY <1>2, GivingUpAccounts
<1>3. ASSUME NEW n \in HeaderLengths(format_std), NEW views \in ViewCounts,
             Get(n), ViewLoop(0, views)
      PROVE  AccountInv'
  <2>1. pc' \in {"new_view", "done"} /\ format_std' \notin Cards /\ format_std' = format_std
    BY <1>1, <1>3 DEF ViewLoop, RecordReturns, Frame
  <2>2. ret = READ_OK /\ finger_views = <<>>
    BY <1>1 DEF RecordInv, PlaceInv
  <2>3. current' = n /\ n \in Nat
    <3>1. current = 0 /\ n \in Nat
      BY <1>1, <2>2, FormatLengths DEF AccountInv, CursorInv
    <3> QED BY <1>3, <3>1 DEF Get, Fedb!Get
  <2>4. ListedLength' = 0
    <3> DEFINE w == [i \in DOMAIN finger_views' |-> ViewLength(finger_views[i])']
    <3>1. DOMAIN w = 1 .. 0
      BY <1>1, <2>2
    <3>2. ListedLength' = SumFunction(w)
      BY DEF ListedLength
    <3> HIDE DEF w
    <3> QED BY <3>1, <3>2, SumType
  <2>5. AtHeader(n)'
    BY <2>1, <2>3, <2>4 DEF AtHeader
  <2> QED BY <2>1, <2>5 DEF AccountInv, CursorInv, CardInv
<1> QED BY <1>2, <1>3 DEF ReadHeader, RecordReturns, READ_OK, READ_EOF, READ_ERROR

\* The card formats: the first minutia is at byte 0.
LEMMA CardHeaderAccounts == ASSUME RecordInv, AccountInv, CardHeader PROVE AccountInv'
<1>1. /\ pc = "header" /\ format_std \in Cards /\ format_std' = format_std /\ ret' = ret
      /\ num_views' = 1 /\ pc' = "new_view" /\ current' = current
      /\ finger_views' = finger_views
  BY DEF CardHeader, Frame
<1>2. ret = READ_OK /\ finger_views = <<>> /\ current = 0
  BY <1>1 DEF RecordInv, PlaceInv, AccountInv, CardInv
<1> QED BY <1>1, <1>2 DEF AccountInv, CursorInv, CardInv

\* A new view: nothing has been read of it.
LEMMA StartViewAccounts == ASSUME RecordInv, AccountInv, StartView PROVE AccountInv'
<1>1. /\ pc = "new_view" /\ ret = READ_OK /\ format_std' = format_std
      /\ UNCHANGED <<current, num_views, finger_views>>
  BY DEF StartView, RecordInv, PlaceInv, Frame
<1>2. CASE RecordReturns(READ_ERROR)
  BY <1>2, GivingUpAccounts DEF RecordReturns, READ_OK, READ_ERROR
<1>3. CASE /\ fvmr' = NewView /\ UNCHANGED ret
           /\ pc' = IF format_std \in Cards THEN "card_fmd" ELSE "view_header"
  <2>1. CASE format_std \in Cards
    <3>1. current = 0 /\ num_views = 1 /\ finger_views = <<>>
      BY <1>1, <2>1 DEF AccountInv, CardInv
    <3>2. WholeMinutiae(fvmr', 0) /\ fvmr'.minutiae_data = 0
      BY <1>3 DEF NewView, WholeMinutiae
    <3>3. current' = fvmr'.minutiae_data * FmdLength(format_std')
      <4>1. FmdLength(format_std) \in Nat
        BY FormatLengths
      <4> QED BY <1>1, <3>1, <3>2, <4>1
    <3>4. pc' = "card_fmd"
      BY <1>3, <2>1
    <3> QED BY <1>1, <2>1, <3>1, <3>2, <3>3, <3>4 DEF AccountInv, CursorInv, CardInv, WholeMinutiae
  <2>2. CASE format_std \notin Cards
    <3>1. pc' = "view_header"
      BY <1>3, <2>2
    <3>2. ListedLength' = ListedLength /\ ListedTrue' = ListedTrue
      BY <1>1 DEF ListedLength, ListedTrue, ViewLength, LengthsAreTrue
    <3>3. \A header \in HeaderLengths(format_std) : AtHeader(header) => AtHeader(header)'
      BY <1>1, <3>1, <3>2 DEF AtHeader
    <3> QED BY <1>1, <1>3, <2>2, <3>1, <3>2, <3>3 DEF AccountInv, CursorInv, CardInv
  <2> QED BY <2>1, <2>2
<1> QED BY <1>2, <1>3 DEF StartView

(***************************************************************************)
(* A step inside a view that is no card: its claim is that of its place.   *)
(***************************************************************************)
LEMMA InViewAccounts ==
  ASSUME AccountInv, format_std \notin Cards, ret = READ_OK, pc # "header",
         UNCHANGED <<format_std, finger_views, ret>>,
         pc' # "header", pc' = "fedb" => FP!NoBlockNoFeds',
         ASSUME NEW header \in HeaderLengths(format_std), AtHeader(header)
         PROVE  AtHeader(header)'
  PROVE  AccountInv'
<1>1. ListedTrue' = ListedTrue
  BY DEF ListedTrue, LengthsAreTrue
<1> QED BY <1>1 DEF AccountInv, CursorInv, CardInv

\* The header of a view.
LEMMA ViewHeaderAccounts == ASSUME RecordInv, AccountInv, ReadViewHeader PROVE AccountInv'
<1>1. /\ pc = "view_header" /\ ret = READ_OK /\ format_std' = format_std
  BY DEF ReadViewHeader, RecordInv, PlaceInv, Frame
<1>2. CASE ViewFails(ViewHeaderLength(format_std))
  BY <1>2, FormatLengths, ViewFailsAccounts
<1>3. ASSUME NEW n \in MinutiaCounts,
             Get(ViewHeaderLength(format_std)),
             fvmr' = [fvmr EXCEPT !.number_of_minutiae = n],
             pc' = IF n > 0 THEN "fmd" ELSE "new_fedb",
             UNCHANGED <<record_length, finger_views, ret>>
      PROVE  AccountInv'
  <2>1. format_std \notin Cards
    BY <1>1 DEF AccountInv, CardInv
  <2>2. fvmr'.minutiae_data = 0
    BY <1>1, <1>3 DEF RecordInv, PlaceInv, TypeOK, ViewRecord
  <2>3. InHandLength' = ViewHeaderLength(format_std)
    BY <1>1, <2>1, <2>2, FormatLengths, MinutiaLengths DEF InHandLength
  <2>4. ListedLength' = ListedLength
    BY <1>1, <1>3 DEF ListedLength, ViewLength
  <2>5. current' = current + ViewHeaderLength(format_std)
    BY <1>3 DEF Get, Fedb!Get
  <2>6. pc' \in {"fmd", "new_fedb"}
    BY <1>3
  <2>7. ASSUME NEW header \in HeaderLengths(format_std), AtHeader(header)
        PROVE  AtHeader(header)'
    BY <1>1, <2>3, <2>4, <2>5, <2>6, <2>7 DEF AtHeader
  <2> QED BY ONLY AccountInv, <1>1, <1>3, <2>1, <2>6, <2>7, InViewAccounts
<1> QED BY <1>2, <1>3 DEF ReadViewHeader

\* One minutia.
LEMMA FmdAccounts == ASSUME RecordInv, AccountInv, ReadFmd PROVE AccountInv'
<1>1. /\ pc = "fmd" /\ ret = READ_OK /\ format_std' = format_std
  BY DEF ReadFmd, RecordInv, PlaceInv, Frame
<1>2. CASE ViewFails(FmdLength(format_std))
  BY <1>2, FormatLengths, ViewFailsAccounts
<1>3. CASE ViewReturns(READ_ERROR, fvmr)
  BY <1>3, FailedViewAccounts
<1>4. CASE /\ Get(FmdLength(format_std)) /\ InView
           /\ pc' = IF fvmr.minutiae_data + 1 < fvmr.number_of_minutiae
                      THEN "fmd" ELSE "new_fedb"
           /\ UNCHANGED <<record_length, finger_views, ret>>
  <2>1. format_std \notin Cards
    BY <1>1 DEF AccountInv, CardInv
  <2>2. fvmr'.minutiae_data = fvmr.minutiae_data + 1 /\ fvmr.minutiae_data \in Nat
    BY <1>4 DEF InView, RecordInv, TypeOK, ViewRecord
  <2>3. InHandLength' = InHandLength + 6
    BY <1>1, <2>1, <2>2, FormatLengths, MinutiaLengths DEF InHandLength
  <2>4. ListedLength' = ListedLength
    BY <1>1, <1>4 DEF ListedLength, ViewLength
  <2>5. current' = current + 6
    BY <1>4, <2>1, MinutiaLengths DEF Get, Fedb!Get
  <2>6. pc' \in {"fmd", "new_fedb"}
    BY <1>4
  <2>7. ASSUME NEW header \in HeaderLengths(format_std), AtHeader(header)
        PROVE  AtHeader(header)'
    <3>1. header \in Nat /\ ListedLength \in Nat /\ InHandLength \in Nat
      BY <2>1, FormatLengths, RecordSums
    <3> QED BY <1>1, <2>3, <2>4, <2>5, <2>6, <2>7, <3>1 DEF AtHeader
  <2> QED BY ONLY AccountInv, <1>1, <1>4, <2>1, <2>6, <2>7, InViewAccounts
<1> QED BY <1>2, <1>3, <1>4 DEF ReadFmd

\* How many minutiae of five, or of three, bytes a source holds.
LEMMA WholeDivision ==
  ASSUME NEW m \in Nat, NEW e \in Nat, NEW l \in {5, 3}, m * l <= e, e < m * l + l
  PROVE  e \div l = m
<1>1. CASE l = 5
  BY <1>1
<1>2. CASE l = 3
  BY <1>2
<1> QED BY <1>1, <1>2

\* One minutia more in eight bits.
LEMMA CountedInUchar == ASSUME NEW m \in Nat PROVE ((m % 256) + 1) % 256 = (m + 1) % 256
  OBVIOUS

\* A card view: every minutia is counted, and those the source holds are all.
LEMMA CardFmdAccounts == ASSUME RecordInv, AccountInv, ReadCardFmd PROVE AccountInv'
<1> DEFINE m == fvmr.minutiae_data
           l == FmdLength(format_std)
<1>1. /\ pc = "card_fmd" /\ format_std \in Cards /\ ret = READ_OK /\ format_std' = format_std
      /\ end' = end /\ num_views' = num_views
  BY DEF ReadCardFmd, RecordInv, PlaceInv, Frame
<1>2. /\ num_views = 1 /\ finger_views = <<>> /\ current = m * l
      /\ fvmr.number_of_minutiae = m % 256
  BY <1>1 DEF AccountInv, CardInv, WholeMinutiae
<1>3. m \in Nat /\ l \in {5, 3} /\ end \in Nat /\ current \in 0 .. end /\ fvmr \in ViewRecord
  BY <1>1, AtSource, MinutiaLengths DEF RecordInv, TypeOK, ViewRecord
<1>4. CASE /\ Get(l)
           /\ fvmr' = [fvmr EXCEPT !.minutiae_data = @ + 1,
                                   !.number_of_minutiae = (@ + 1) % 256]
           /\ UNCHANGED <<pc, record_length, finger_views, ret>>
  <2>1. /\ fvmr'.minutiae_data = m + 1
        /\ fvmr'.number_of_minutiae = (fvmr.number_of_minutiae + 1) % 256
    BY <1>3, <1>4 DEF ViewRecord
  <2>2. WholeMinutiae(fvmr', fvmr'.minutiae_data)
    BY <1>2, <1>3, <2>1, CountedInUchar DEF WholeMinutiae
  <2>3. current' = current + l
    BY <1>4 DEF Get, Fedb!Get
  <2>4. \A a \in Nat : /\ a * 5 + 5 = (a + 1) * 5
                       /\ a * 3 + 3 = (a + 1) * 3
    OBVIOUS
  <2>5. current' = fvmr'.minutiae_data * FmdLength(format_std')
    BY <1>1, <1>2, <1>3, <2>1, <2>3, <2>4
  <2> QED BY <1>1, <1>2, <1>4, <2>2, <2>5 DEF AccountInv, CursorInv, CardInv, WholeMinutiae
<1>5. CASE GetFails(l, READ_EOF) /\ ViewReturns(READ_OK, fvmr)
  <2>1. ~ Fits(current, l, end)
    BY <1>5 DEF GetFails, Fedb!GetFails, Fedb!Fits, Fits, Fedb!READ_EOF, Fedb!READ_ERROR,
                READ_EOF
  <2>2. m * l <= end /\ end < m * l + l
    BY <1>2, <1>3, <2>1 DEF Fits
  <2>3. end \div l = m
    BY <1>3, <2>2, WholeDivision
  <2>4. /\ finger_views' = <<fvmr>> /\ record_length' = CardLength(fvmr)
        /\ pc' = "done" /\ ret' = READ_OK
    BY <1>1, <1>2, <1>5 DEF ViewReturns, ViewLoop, RecordReturns, READ_OK, READ_EOF, READ_ERROR
  <2>5. Len(finger_views') = 1 /\ finger_views'[1] = fvmr
    BY <2>4
  <2>6. CardLength(fvmr)' = CardLength(fvmr') /\ CardLength(finger_views[1])' = CardLength(fvmr)
    BY <1>1, <2>5 DEF CardLength
  <2>7. WholeMinutiae(finger_views'[1], end' \div FmdLength(format_std'))
    BY <1>1, <1>2, <2>3, <2>5 DEF WholeMinutiae
  <2> QED BY <1>1, <1>2, <2>4, <2>5, <2>6, <2>7
          DEF AccountInv, CursorInv, CardInv, WholeMinutiae
<1>6. CASE ViewReturns(READ_ERROR, fvmr)
  BY <1>6, FailedViewAccounts
<1> QED BY <1>4, <1>5, <1>6 DEF ReadCardFmd

\* The block of a view starts right behind its minutiae.
LEMMA StartFedbAccounts == ASSUME RecordInv, AccountInv, StartFedb PROVE AccountInv'
<1>1. /\ pc = "new_fedb" /\ ret = READ_OK /\ format_std' = format_std /\ current' = current
  BY DEF StartFedb, RecordInv, PlaceInv, Frame
<1>2. CASE ViewReturns(READ_ERROR, fvmr)
  BY <1>2, FailedViewAccounts
<1>3. CASE /\ pc' = "fedb"
           /\ fedb_pc' = "block_length" /\ fedb' = Fedb!EmptyFedb
           /\ block_length' = 0 /\ fed' = 0 /\ heap' = <<>> /\ todo' = 0
           /\ fed_ret' = READ_OK /\ fedb_ret' = READ_OK
           /\ UNCHANGED <<record_length, finger_views, fvmr, ret>>
  <2>1. format_std \notin Cards
    BY <1>1 DEF AccountInv, CardInv
  <2>2. FP!NoBlockNoFeds'
    BY <1>3 DEF FP!NoBlockNoFeds
  <2>3. InHandLength' = InHandLength /\ ListedLength' = ListedLength
    BY <1>1, <1>3 DEF InHandLength, ListedLength, ViewLength
  <2>4. ASSUME NEW header \in HeaderLengths(format_std), AtHeader(header)
        PROVE  AtHeader(header)'
    <3>1. header + ListedLength + InHandLength \in Nat
      BY <2>1, FormatLengths, RecordSums
    <3>2. PICK start \in Nat : start = header + ListedLength + InHandLength
      BY <3>1
    <3>3. current' = start
      BY <1>1, <2>4, <3>2 DEF AtHeader
    <3>4. FP!Accounted(start)'
      <4>1. BlockStarts'
        BY FreshAccounted, PTL
      <4> QED BY <1>3, <3>3, <4>1 DEF BlockStarts, Fedb!EmptyFedb, FP!EmptyFedb
    <3> QED BY <1>3, <2>3, <3>2, <3>4 DEF AtHeader
  <2>5. pc' # "header" /\ pc # "header"
    BY <1>1, <1>3
  <2> QED BY ONLY AccountInv, <1>1, <1>3, <2>1, <2>2, <2>4, <2>5, InViewAccounts
<1> QED BY <1>2, <1>3 DEF StartFedb

\* A step of the block reader.
LEMMA ReadFedbAccounts == ASSUME RecordInv, AccountInv, ReadFedb PROVE AccountInv'
<1>1. /\ pc = "fedb" /\ ret = READ_OK /\ format_std' = format_std /\ Fedb!Next
      /\ UNCHANGED <<pc, finger_views, fvmr, ret>> /\ FP!ReaderInv
  BY BlockFrame DEF ReadFedb, RecordInv, PlaceInv, Frame, fmr_vars
<1>2. format_std \notin Cards
  BY <1>1 DEF AccountInv, CardInv
<1>3. FP!NoBlockNoFeds'
  BY <1>1, <1>2, BlockStepAccounts DEF AccountInv, CursorInv
<1>4. InHandLength' = InHandLength /\ ListedLength' = ListedLength
  BY <1>1 DEF InHandLength, ListedLength, ViewLength
<1>5. ASSUME NEW header \in HeaderLengths(format_std), AtHeader(header)
      PROVE  AtHeader(header)'
  <2>1. header + ListedLength + InHandLength \in Nat
    BY <1>2, FormatLengths, RecordSums
  <2>2. PICK start \in Nat : start = header + ListedLength + InHandLength
    BY <2>1
  <2>3. FP!Accounted(start)
    BY <1>1, <1>5, <2>2 DEF AtHeader
  <2>4. FP!Accounted(start)'
    BY <1>1, <2>3, BlockStepAccounts
  <2> QED BY <1>1, <1>4, <2>2, <2>4 DEF AtHeader
<1>6. pc' # "header" /\ pc # "header"
  BY <1>1
<1> QED BY ONLY AccountInv, <1>1, <1>2, <1>3, <1>5, <1>6, InViewAccounts

\* The view takes its block, and the bytes of both.
LEMMA FinishFedbAccounts == ASSUME RecordInv, AccountInv, FinishFedb PROVE AccountInv'
<1> DEFINE full == [block_length |-> fedb.block_length,
                    feds |-> [i \in DOMAIN fedb.extended_data |->
                                heap[fedb.extended_data[i]]]]
           extended == IF fedb.block_length # 0 THEN full ELSE NoExtended
           view == [fvmr EXCEPT !.partial = fedb.partial, !.extended = extended]
<1>1. /\ pc = "fedb" /\ ret = READ_OK /\ format_std' = format_std /\ fedb_pc = "done"
      /\ UNCHANGED <<current, num_views>>
      /\ IF fedb_ret = READ_ERROR THEN ViewReturns(READ_ERROR, fvmr)
                                  ELSE ViewReturns(fedb_ret, view)
  BY DEF FinishFedb, RecordInv, PlaceInv, Frame
<1>2. /\ fvmr \in ViewRecord /\ extended \in ExtendedRecord /\ fedb.partial \in BOOLEAN
      /\ fedb_ret \in READ_CODES
  <2>1. NoExtended \in ExtendedRecord
    BY NewViewType DEF NewView, ViewRecord
  <2> QED BY <2>1, BlockResult DEF RecordInv, TypeOK
<1>3. CASE fedb_ret # READ_OK
  BY <1>1, <1>2, <1>3, FailedViewAccounts DEF READ_CODES
<1>4. CASE fedb_ret = READ_OK
  <2>1. extended.block_length = fedb.block_length
    BY DEF NoExtended
  <2>2. LengthsAreTrue([fvmr EXCEPT !.extended = extended]) =>
          \/ fedb.block_length = 0
          \/ \A k \in DOMAIN FP!List : FP!LengthIsTrue(heap[FP!List[k]])
    <3>1. \A f : Fedb!LengthIsTrue(f) <=> FP!LengthIsTrue(f)
      BY DEF Fedb!LengthIsTrue, FP!LengthIsTrue, Fedb!FED_OTHER, FP!FED_OTHER,
             Fedb!FED_RIDGE_COUNT, FP!FED_RIDGE_COUNT, Fedb!FED_CORE_AND_DELTA,
             FP!FED_CORE_AND_DELTA, Fedb!FED_HEADER_LENGTH, FP!FED_HEADER_LENGTH,
             Fedb!SHRT_MAX, FP!SHRT_MAX, Fedb!RIDGE_COUNT_DATA_LENGTH,
             FP!RIDGE_COUNT_DATA_LENGTH
    <3>2. [fvmr EXCEPT !.extended = extended].extended = extended
      BY <1>2 DEF ViewRecord
    <3>3. fedb.block_length # 0 => extended.feds = full.feds
      OBVIOUS
    <3> QED BY <3>1, <3>2, <3>3 DEF LengthsAreTrue, FP!List
  <2> HIDE DEF extended
  <2>3. /\ view \in ViewRecord /\ view.minutiae_data = fvmr.minutiae_data
        /\ view.extended = extended
    BY ONLY <1>2 DEF ViewRecord
  <2>4. [fvmr EXCEPT !.extended = extended].extended = view.extended
    BY <1>2, <2>3 DEF ViewRecord
  <2> HIDE DEF view
  <2>5. /\ finger_views' = Append(finger_views, view) /\ pc' \in {"new_view", "done"}
        /\ ret' = READ_OK
    BY <1>1, <1>4 DEF ViewReturns, ViewLoop, RecordReturns, READ_OK, READ_EOF, READ_ERROR
  <2>6. format_std \notin Cards
    BY <1>1 DEF AccountInv, CardInv
  <2>7. /\ ListedLength' = ListedLength + ViewLength(view)
        /\ ListedTrue' => ListedTrue /\ LengthsAreTrue(view)
    BY <1>1, <2>3, <2>5, ListedGrows
  <2>8. ViewLength(view) = InHandLength + 2 + fedb.block_length
    BY <2>1, <2>3 DEF ViewLength, InHandLength, FEDB_HEADER_LENGTH
  <2>9. ASSUME ListedTrue', NEW header \in HeaderLengths(format_std), AtHeader(header)
        PROVE  AtHeader(header)'
    <3>1. /\ header \in Nat /\ ListedLength \in Nat /\ InHandLength \in Nat
          /\ header + ListedLength + InHandLength \in Nat
      BY <2>6, FormatLengths, RecordSums
    <3>2. PICK start \in Nat : start = header + ListedLength + InHandLength
      BY <3>1
    <3>3. FP!Accounted(start)
      BY <1>1, <2>9, <3>2 DEF AtHeader
    <3>4. \/ fedb.block_length = 0
          \/ \A k \in DOMAIN FP!List : FP!LengthIsTrue(heap[FP!List[k]])
      BY <2>2, <2>4, <2>7, <2>9 DEF LengthsAreTrue
    <3>5. FP!NoBlockNoFeds /\ FP!ReaderInv
      BY <1>1, <2>6 DEF AccountInv, CursorInv, RecordInv
    <3>6. current = start + 2 + fedb.block_length
      BY <1>1, <1>4, <3>3, <3>4, <3>5, BlockEnds
    <3>7. fedb.block_length \in Nat
      <4>1. fedb.block_length \in USHORT /\ USHORT \subseteq Nat
        BY BlockResult DEF ExtendedRecord, USHORT
      <4> QED BY <4>1
    <3>8. current' = header + ListedLength'
      BY <1>1, <2>7, <2>8, <3>1, <3>2, <3>6, <3>7
    <3> QED BY ONLY <2>5, <3>8 DEF AtHeader
  <2>10. \E header \in HeaderLengths(format_std) : ListedTrue' => AtHeader(header)'
    <3>1. HeaderLengths(format_std) # {}
      BY <2>6, AtSource, RecordFormatsAssumption DEF HeaderLengths, AllFormats
    <3> QED BY <1>1, <2>6, <2>7, <2>9, <3>1 DEF AccountInv, CursorInv
  <2> QED BY <1>1, <2>5, <2>6, <2>10 DEF AccountInv, CursorInv, CardInv
<1> QED BY <1>3, <1>4

-----------------------------------------------------------------------------
(***************************************************************************)
(* AccountInv is inductive, given RecordInv.                               *)
(***************************************************************************)
LEMMA StepAccounts == RecordInv /\ AccountInv /\ [Next]_vars => AccountInv'
<1> SUFFICES ASSUME RecordInv, AccountInv, [Next]_vars PROVE AccountInv'
  OBVIOUS
<1>1. CASE UNCHANGED vars
  <2>1. /\ UNCHANGED <<format_std, end, current, pc, num_views, record_length, finger_views>>
        /\ UNCHANGED <<fvmr, ret, fedb_pc, fedb, block_length, fed, heap, fed_ret, fedb_ret>>
    BY <1>1 DEF vars, fedb_vars, fmr_vars
  <2>2. /\ ListedLength' = ListedLength /\ InHandLength' = InHandLength
        /\ ListedTrue' = ListedTrue
    BY <2>1 DEF ListedLength, InHandLength, ListedTrue, ViewLength, LengthsAreTrue
  <2>3. \A start : FP!Accounted(start)' <=> FP!Accounted(start)
    <3>1. /\ FP!List' = FP!List /\ FP!InHandBytes' = FP!InHandBytes
          /\ FP!LengthOf(FP!List)' = FP!LengthOf(FP!List)
          /\ FP!BytesOf(FP!List)' = FP!BytesOf(FP!List)
      BY <2>1 DEF FP!List, FP!InHandBytes, FP!LengthOf, FP!BytesOf
    <3> QED BY <2>1, <3>1 DEF FP!Accounted
  <2>4. \A header : AtHeader(header)' <=> AtHeader(header)
    BY <2>1, <2>2, <2>3 DEF AtHeader
  <2>5. CursorInv'
    BY <2>1, <2>2, <2>4 DEF AccountInv, CursorInv, FP!NoBlockNoFeds
  <2>6. CardInv'
    BY <2>1 DEF AccountInv, CardInv, WholeMinutiae, CardLength
  <2> QED BY <2>5, <2>6 DEF AccountInv
<1>2. CASE Next
  BY <1>2, HeaderAccounts, CardHeaderAccounts, StartViewAccounts, ViewHeaderAccounts,
     FmdAccounts, CardFmdAccounts, StartFedbAccounts, ReadFedbAccounts, FinishFedbAccounts
  DEF Next
<1> QED BY <1>1, <1>2

\* What RecordAccounted says is what AccountInv says of a read that is over.
LEMMA AccountIsEnough == RecordInv /\ AccountInv => RecordAccounted
<1> SUFFICES ASSUME RecordInv, AccountInv, pc = "done", ret = READ_OK
             PROVE  RecordAccounted
  BY DEF RecordAccounted
<1>1. CASE format_std \in Cards
  <2> DEFINE n == end \div FmdLength(format_std)
  <2>1. /\ Len(finger_views) = 1 /\ finger_views[1].minutiae_data = n
        /\ finger_views[1].number_of_minutiae = n % 256
        /\ record_length = finger_views[1].number_of_minutiae * FmdLength(format_std)
    BY <1>1 DEF AccountInv, CardInv, WholeMinutiae, CardLength
  <2>2. n \in UCHAR => n % 256 = n
    <3> HIDE DEF n
    <3>1. UCHAR = 0 .. 255
      BY DEF UCHAR, UCHAR_MAX
    <3> QED BY <3>1
  <2> QED BY <1>1, <2>1, <2>2 DEF RecordAccounted
<1>2. CASE format_std \notin Cards
  <2>1. ListedTrue => \E header \in HeaderLengths(format_std) : current = header + ListedLength
    BY <1>2 DEF AccountInv, CursorInv, AtHeader
  <2> QED BY <1>2, <2>1 DEF RecordAccounted, ListedTrue, ListedLength
<1> QED BY <1>1, <1>2

(***************************************************************************)
(* READ_OK leaves the cursor right behind the record, for records of any   *)
(* number of views, minutiae and extended data whose FEDs have their true  *)
(* lengths; a card holds the whole minutiae of its source, each counted in *)
(* the record length unless an unsigned char cannot.                       *)
(***************************************************************************)
THEOREM RecordIsAccounted == Spec => []RecordAccounted
<1>1. Init => AccountInv
  BY DEF Init, AccountInv, CursorInv, CardInv
<1> QED BY <1>1, InitKeeps, StepKeeps, StepAccounts, AccountIsEnough, PTL DEF Spec

=============================================================================
