------------------------ MODULE ImagePrograms_proofs ------------------------
(***************************************************************************)
(* Proofs about the programs over image records and the callers of their   *)
(* libraries, for every format, wire, end of the source and failure.       *)
(*                                                                         *)
(* ImageReader, for every format, wire, end of the source and failure: a   *)
(* step keeps the counts and the cursor, and is a step of RecordRead or    *)
(* none.  Memory plays no part in that, so that the heap is left open:     *)
(* what a step does is either to stay within a part (Stays) or to return   *)
(* from it with a code (Returns).  Memory has an invariant of its own      *)
(* (HeapInv).                                                              *)
(*                                                                         *)
(* ImageFile: a reader keeps the promise of RecordRead and takes one of    *)
(* its steps at a time, a program that exits with success has seen all of  *)
(* its file, and memory is freed once.                                     *)
(*                                                                         *)
(* ImageWriter, for every edit and clone, and however many records are     *)
(* copied or made:                                                         *)
(*                                                                         *)
(* BufferIsEnough and MadeLengthIsTrue relate the lists the writers write  *)
(* to lengths kept elsewhere.  Layout is written as the pieces of a record *)
(* strung along the blocks in memory (Strung), so that what a step does to *)
(* memory says what it does to the list.  OutInv: what came out is how     *)
(* Layout begins.  MadeInv: what a maker added up so far is the length of  *)
(* Layout.                                                                 *)
(*                                                                         *)
(* OnlyPartialCrashes: only the writer of 2005, and only after a read that *)
(* failed, comes to a pointer that is NULL.  What keeps the others from it *)
(* is that a count in a header is true once the record was read (CountInv) *)
(* and stays true until it is written; the makers, which never compare the *)
(* two, do not make records of 2005.                                       *)
(***************************************************************************)
EXTENDS ImageFile, ImageWriter, SequenceTheorems, Sums, TLAPS

-----------------------------------------------------------------------------
(* The readers.                                                            *)

InPart == Pcs \ {"header", "new_part", "done"}

\* The count in the header, the parts that were taken, and the verdict.
CountInv ==
  /\ pc \in Pcs /\ ret \in READ_CODES
  /\ declared \in Nat /\ parts \in Nat
  /\ pc = "header" => declared = 0 /\ parts = 0
  /\ pc \notin {"header", "done"} => parts < declared
  /\ pc = "done" => parts <= declared /\ (ret = READ_OK => parts = declared)

\* The cursor stays in the source, and no read goes back.
CursorInv ==
  /\ format \in ImageFormats
  /\ start \in Nat /\ current \in Nat /\ end \in Nat /\ record_length \in Nat
  /\ start <= current /\ current <= end
  /\ pc = "header" => current = start
  /\ length \in Int
  /\ pc \in InPart \ {"part"} => length \in Nat

ReaderInv == CountInv /\ CursorInv

-----------------------------------------------------------------------------
(***************************************************************************)
(* The reader.                                                             *)
(***************************************************************************)

\* The control of PartReturns.
Returns(code) ==
  IF code = READ_OK THEN parts' = parts + 1 /\ PartLoop(parts + 1, declared)
                    ELSE RecordReturns(code) /\ UNCHANGED parts

\* Another read within the part.
Stays == pc' \in InPart /\ UNCHANGED <<parts, ret>>

\* The return codes are these strings.
LEMMA Codes == READ_CODES = {"READ_OK", "READ_EOF", "READ_ERROR"}
  BY DEF READ_CODES, READ_OK, READ_EOF, READ_ERROR

\* One part more is one element more of the sequence that RecordRead sees.
LEMMA OneMore ==
  ASSUME NEW n \in Nat
  PROVE  /\ [i \in 1 .. n + 1 |-> "whole"] = Append([i \in 1 .. n |-> "whole"], "whole")
         /\ Len([i \in 1 .. n |-> "whole"]) = n
<1> DEFINE s == [i \in 1 .. n |-> "whole"]
<1>1. s \in Seq({"whole"}) /\ Len(s) = n
  OBVIOUS
<1> HIDE DEF s
<1>2. Append(s, "whole") \in Seq({"whole"}) /\ Len(Append(s, "whole")) = n + 1
  BY <1>1
<1>3. \A i \in 1 .. n + 1 : Append(s, "whole")[i] = "whole"
  BY <1>1 DEF s
<1>4. [i \in 1 .. n + 1 |-> "whole"] \in Seq({"whole"})
  OBVIOUS
<1> QED
  BY <1>1, <1>2, <1>3, <1>4 DEF s

\* A step within a part keeps the counts, and RecordRead does not see it.
LEMMA StaysKeeps ==
  ASSUME CountInv, pc \in InPart \cup {"new_part"}, Stays, UNCHANGED declared
  PROVE  CountInv' /\ UNCHANGED Abstract!rvars
  BY DEF CountInv, InPart, Pcs, Stays, Abstract!rvars

\* Returning from a part is a step of RecordRead.
LEMMA ReturnsKeeps ==
  ASSUME CountInv, pc \in InPart \cup {"new_part"}, UNCHANGED declared,
         NEW code \in READ_CODES, Returns(code)
  PROVE  CountInv' /\ pc' \notin InPart /\ pc' # "header" /\ Abstract!RNext
<1> USE DEF InPart, Pcs, READ_OK, READ_EOF, READ_ERROR
<1>1. parts \in Nat /\ declared \in Nat /\ parts < declared /\ pc # "done" /\ ret \in READ_CODES
  BY DEF CountInv
<1> DEFINE wholes == [i \in 1 .. parts |-> "whole"]
<1>2. Len(wholes) = parts
  BY <1>1, OneMore
<1>3. CASE code = READ_OK
  <2>1. parts' = parts + 1 /\ PartLoop(parts + 1, declared)
    BY <1>3 DEF Returns
  <2>2. CASE parts + 1 < declared
    <3>1. pc' = "new_part" /\ UNCHANGED ret
      BY <2>1, <2>2 DEF PartLoop
    <3>2. CountInv'
      BY <1>1, <2>1, <2>2, <3>1 DEF CountInv
    <3>3. Abstract!TakeWhole
      BY <1>1, <1>2, <2>1, <2>2, <3>1, OneMore DEF Abstract!TakeWhole
    <3> QED
      BY <3>1, <3>2, <3>3 DEF Abstract!RNext
  <2>3. CASE ~ (parts + 1 < declared)
    <3>1. pc' = "done" /\ ret' = "READ_OK" /\ parts + 1 = declared
      BY <1>1, <2>1, <2>3 DEF PartLoop, RecordReturns
    <3>2. CountInv'
      BY <1>1, <2>1, <3>1, Codes DEF CountInv
    <3>3. Abstract!TakeWhole
      BY <1>1, <1>2, <2>1, <3>1, OneMore DEF Abstract!TakeWhole
    <3> QED
      BY <3>1, <3>2, <3>3 DEF Abstract!RNext
  <2> QED
    BY <2>2, <2>3
<1>4. CASE code # READ_OK
  <2>1. pc' = "done" /\ ret' = code /\ code \in {"READ_EOF", "READ_ERROR"} /\ parts' = parts
    BY <1>4, Codes DEF Returns, RecordReturns
  <2>2. CountInv'
    BY <1>1, <2>1, Codes DEF CountInv
  <2>3. Abstract!GiveUp
    BY <1>1, <1>2, <2>1 DEF Abstract!GiveUp
  <2> QED
    BY <2>1, <2>2, <2>3 DEF Abstract!RNext
<1> QED
  BY <1>3, <1>4

-----------------------------------------------------------------------------
\* What the wire holds are natural numbers.
LEMMA Wire ==
  /\ PartCounts \subseteq Nat /\ SubCounts \subseteq Nat
  /\ CodeLengths \subseteq Nat /\ Lengths \subseteq Nat
  /\ \A f \in ImageFormats : RecordLengths[f] \subseteq Nat /\ Ends[f] \subseteq Nat
<1>1. Halfwords \subseteq Nat
  BY SMT DEF Halfwords
<1>2. Words \subseteq Nat
  BY SMT, ModulusAssumption DEF Words
<1> QED
  BY ONLY <1>1, <1>2, CountsAssumption, LengthsAssumption, WireAssumption

\* The sizes of the fixed pieces are natural numbers.
LEMMA Sizes ==
  ASSUME format \in ImageFormats
  PROVE  /\ HeaderLength[format] \in Nat
         /\ \A n \in SubCounts : PartHeaderLength(n) \in Nat
<1>1. format \in {"FIR_ANSI", "FIR_ISO", "FRF", "IIR_2005", "IIR_2011"}
  BY ImageFormatsAssumption
  DEF AllImageFormats, FingerFormats, IrisFormats
<1>2. \A n \in SubCounts : n \in Nat
  BY Wire
<1> QED
  BY <1>1, <1>2
  DEF HeaderLength, PartHeaderLength, FingerFormats, FIVR_HEADER_LENGTH,
    FRF_FIB_LENGTH, IID_IBSH_LENGTH, IRH_LENGTH, QUALITY_BLOCK_LENGTH

\* So are the bytes of data that a part announces, where it has data.
LEMMA DataSizes ==
  ASSUME format \in ImageFormats, NEW l \in Lengths, NEW n \in SubCounts
  PROVE  /\ DataLength(l, n) \in Int
         /\ format \in {"FRF", "IIR_2005", "IIR_2011"} => DataLength(l, n) \in Nat
         /\ HasData(l) => DataLength(l, n) \in Nat
<1>1. format \in {"FIR_ANSI", "FIR_ISO", "FRF", "IIR_2005", "IIR_2011"}
  BY ImageFormatsAssumption
  DEF AllImageFormats, FingerFormats, IrisFormats
<1>2. l \in Nat /\ n \in Nat
  BY Wire
<1>3. CASE format \in FingerFormats
  BY <1>2, <1>3 DEF DataLength, HasData, FingerFormats, FIVR_HEADER_LENGTH
<1>4. CASE format = "FRF"
  <2>1. l - FRF_FIB_LENGTH - n * FRF_FPB_LENGTH - FRF_IIB_LENGTH \in Int
    BY <1>2 DEF FRF_FIB_LENGTH, FRF_FPB_LENGTH, FRF_IIB_LENGTH
  <2>2. DataLength(l, n)
          = (l - FRF_FIB_LENGTH - n * FRF_FPB_LENGTH - FRF_IIB_LENGTH) % UintModulus
    BY <1>4 DEF DataLength, FingerFormats
  <2>3. \A i \in Int : i % UintModulus \in Nat
    BY ModulusAssumption
  <2> QED
    BY <1>4, <2>1, <2>2, <2>3
<1>5. CASE format \in {"IIR_2005", "IIR_2011"}
  BY <1>2, <1>5 DEF DataLength, HasData, FingerFormats
<1> QED
  BY <1>1, <1>3, <1>4, <1>5 DEF FingerFormats

-----------------------------------------------------------------------------
(***************************************************************************)
(* A read within a part: the cursor went on or stayed, and the step stays  *)
(* in the part or returns from it.                                         *)
(***************************************************************************)
Onwards == current' \in Nat /\ current <= current' /\ current' <= end

GoesOn ==
  \/ Stays /\ (pc' # "part" => length' \in Nat)
  \/ \E code \in READ_CODES : Returns(code)

WithinPart ==
  /\ Frame /\ UNCHANGED <<declared, record_length>>
  /\ Onwards /\ length' \in Int /\ GoesOn

ReaderStep == ReaderInv' /\ (Abstract!RNext \/ UNCHANGED Abstract!rvars)

\* Such a read keeps the invariant, and is a step of RecordRead or none.
LEMMA WithinPartKeeps ==
  ASSUME ReaderInv, pc \in InPart \cup {"new_part"}, WithinPart
  PROVE  ReaderStep
<1>1. CountInv /\ CursorInv /\ UNCHANGED declared
  BY DEF ReaderInv, WithinPart
<1>2. CASE Stays /\ (pc' # "part" => length' \in Nat)
  <2>1. CountInv' /\ UNCHANGED Abstract!rvars
    BY <1>1, <1>2, StaysKeeps
  <2>2. CursorInv'
    BY <1>1, <1>2 DEF CursorInv, WithinPart, Onwards, Frame, Stays, InPart
  <2> QED
    BY <2>1, <2>2 DEF ReaderInv, ReaderStep
<1>3. ASSUME NEW code \in READ_CODES, Returns(code)
      PROVE  ReaderStep
  <2>1. CountInv' /\ pc' \notin InPart /\ pc' # "header" /\ Abstract!RNext
    BY <1>1, <1>3, ReturnsKeeps
  <2>2. CursorInv'
    BY <1>1, <2>1 DEF CursorInv, WithinPart, Onwards, Frame
  <2> QED
    BY <2>1, <2>2 DEF ReaderInv, ReaderStep
<1> QED
  BY <1>2, <1>3 DEF WithinPart, GoesOn

-----------------------------------------------------------------------------
(***************************************************************************)
(* The operators of the reader are of this form, whatever memory they      *)
(* leave behind.                                                           *)
(***************************************************************************)
\* A read that got its bytes moves the cursor on, within the source.
LEMMA Gets ==
  ASSUME CursorInv, NEW n \in Nat, Get(n)
  PROVE  Onwards
BY DEF CursorInv, Get, Fits, Onwards

\* A cursor left alone is within the source.
LEMMA Stands ==
  ASSUME CursorInv, UNCHANGED current
  PROVE  Onwards
BY DEF CursorInv, Onwards

\* A read that failed leaves the cursor alone.
LEMMA Fails ==
  ASSUME CursorInv, NEW n, NEW code, GetFails(n, code)
  PROVE  Onwards
BY Stands DEF GetFails

\* The part is done: PartReturns is Returns, with memory.
LEMMA PartGoesOn ==
  ASSUME NEW h, NEW code \in READ_CODES, PartReturns(h, code)
  PROVE  GoesOn
BY DEF PartReturns, Returns, GoesOn

\* An image is done (internal_read_iih): the next one follows, or the part is done.
LEMMA ImageGoesOn ==
  ASSUME NEW h, NEW code \in READ_CODES, ImageReturns(h, code), length' \in Nat
  PROVE  GoesOn
<1>1. READ_OK \in READ_CODES /\ READ_ERROR \in READ_CODES
  BY DEF READ_CODES
<1>2. CASE code = READ_OK /\ todo > 1
  <2>1. Stays
    BY <1>2 DEF ImageReturns, Stays, InPart, Pcs
  <2> QED
    BY <2>1 DEF GoesOn
<1>3. CASE code = READ_OK /\ ~ (todo > 1)
  <2>1. PartReturns(Give(h, image, part), READ_OK)
    BY <1>3 DEF ImageReturns
  <2> QED
    BY <1>1, <2>1, PartGoesOn
<1>4. CASE code # READ_OK
  <2>1. PartReturns(h, READ_ERROR)
    BY <1>4 DEF ImageReturns
  <2> QED
    BY <1>1, <2>1, PartGoesOn
<1> QED
  BY <1>2, <1>3, <1>4

\* What holds the data is done.
LEMMA HolderGoesOn ==
  ASSUME NEW h, NEW code \in READ_CODES, HolderReturns(h, code), length' \in Nat
  PROVE  GoesOn
BY PartGoesOn, ImageGoesOn DEF HolderReturns

\* Behind the codes of an image comes its data, or the image is done.
LEMMA AfterCodesGoesOn ==
  ASSUME NEW h, NEW l, AfterCodes(h, l), length' \in Nat
  PROVE  GoesOn
<1>1. CASE HasData(l)
  BY <1>1 DEF AfterCodes, GoesOn, Stays, InPart, Pcs
<1>2. CASE ~ HasData(l)
  <2>1. ImageReturns(h, READ_OK) /\ READ_OK \in READ_CODES
    BY <1>2 DEF AfterCodes, READ_CODES
  <2> QED
    BY <2>1, ImageGoesOn
<1> QED
  BY <1>1, <1>2

\* Data or codes that could not be read.
LEMMA DataFailsGoesOn ==
  ASSUME CursorInv, NEW kind, NEW n, DataFails(kind, n), length' \in Nat
  PROVE  Onwards /\ GoesOn
<1>1. {READ_EOF, READ_ERROR} \subseteq READ_CODES
  BY DEF READ_CODES
<1>2. ASSUME NEW code \in {READ_EOF, READ_ERROR},
             GetFails(n, code),
             HolderReturns(Append(heap, Block(kind, {Holder}, 0)), code)
      PROVE  Onwards /\ GoesOn
  BY <1>1, <1>2, Fails, HolderGoesOn
<1>3. ASSUME UNCHANGED current, HolderReturns(heap, READ_ERROR)
      PROVE  Onwards /\ GoesOn
  BY <1>1, <1>3, Stands, HolderGoesOn
<1> QED
  BY <1>2, <1>3 DEF DataFails

-----------------------------------------------------------------------------
\* A part begins (new_fivr and its like).
LEMMA StartPartKeeps == ASSUME ReaderInv, StartPart PROVE ReaderStep
<1>1. CursorInv /\ pc = "new_part" /\ READ_ERROR \in READ_CODES
  BY DEF ReaderInv, StartPart, READ_CODES
<1>2. Onwards /\ length' \in Int
  BY <1>1, Stands DEF CursorInv, StartPart
<1>3. Stays \/ Returns(READ_ERROR)
  BY DEF StartPart, Stays, InPart, Pcs, Returns, READ_OK, READ_ERROR
<1>4. pc' # "part" => Returns(READ_ERROR)
  BY DEF StartPart, Returns, READ_OK, READ_ERROR
<1>5. WithinPart
  BY <1>1, <1>2, <1>3, <1>4 DEF WithinPart, GoesOn, StartPart
<1> QED
  BY <1>1, <1>5, WithinPartKeeps

\* The header of a part, and the data it announces.
LEMMA ReadPartHeaderKeeps == ASSUME ReaderInv, ReadPartHeader PROVE ReaderStep
<1>1. CursorInv /\ pc \in InPart /\ {READ_OK, READ_EOF, READ_ERROR} \subseteq READ_CODES
  BY DEF ReaderInv, ReadPartHeader, READ_CODES, InPart, Pcs
<1>2. Frame /\ UNCHANGED <<declared, record_length>>
  BY DEF ReadPartHeader
<1>3. format \in {"FIR_ANSI", "FIR_ISO", "FRF", "IIR_2005", "IIR_2011"} /\ format \in ImageFormats
  BY <1>1, ImageFormatsAssumption
  DEF CursorInv, AllImageFormats, FingerFormats, IrisFormats
<1>4. PICK n \in SubCounts, l \in Lengths :
       \/ /\ Get(PartHeaderLength(n))
          /\ todo' = n /\ length' = DataLength(l, n)
          /\ LET h == Filled(heap, part, PartHeaderLength(n))
                 goes_on == CASE format = "FRF"      -> TRUE
                              [] format = "IIR_2005" -> n > 0
                              [] OTHER               -> HasData(l)
             IN IF goes_on
                  THEN /\ pc' = CASE format = "FRF" /\ n > 0 -> "point"
                                  [] format = "FRF" /\ n = 0 -> "tail"
                                  [] format = "IIR_2005"     -> "image"
                                  [] OTHER                   -> "data"
                       /\ heap' = h /\ UNCHANGED <<parts, ret>>
                  ELSE PartReturns(h, READ_OK)
       \/ \E code \in {READ_EOF, READ_ERROR} :
            /\ GetFails(PartHeaderLength(n), code)
            /\ PartReturns(heap, code)
            /\ UNCHANGED <<todo, length>>
  BY DEF ReadPartHeader
<1>5. n \in Nat /\ PartHeaderLength(n) \in Nat
  BY <1>3, Sizes, Wire
<1>6. CASE Get(PartHeaderLength(n)) /\ length' = DataLength(l, n)
           /\ PartReturns(Filled(heap, part, PartHeaderLength(n)), READ_OK)
  <2>1. Onwards /\ GoesOn
    BY <1>1, <1>5, <1>6, Gets, PartGoesOn
  <2>2. length' \in Int
    BY <1>3, <1>6, DataSizes
  <2> QED
    BY <1>1, <1>2, <2>1, <2>2, WithinPartKeeps DEF WithinPart
<1>7. CASE /\ Get(PartHeaderLength(n)) /\ length' = DataLength(l, n)
           /\ format \in {"FRF", "IIR_2005"} \/ HasData(l)
           /\ pc' \in {"point", "tail", "image", "data"} /\ UNCHANGED <<parts, ret>>
  <2>1. Onwards
    BY <1>1, <1>5, <1>7, Gets
  <2>2. length' \in Nat /\ length' \in Int
    BY <1>3, <1>7, DataSizes
  <2>3. Stays
    BY <1>7 DEF Stays, InPart, Pcs
  <2> QED
    BY <1>1, <1>2, <2>1, <2>2, <2>3, WithinPartKeeps DEF WithinPart, GoesOn
<1>8. ASSUME NEW code \in {READ_EOF, READ_ERROR},
             GetFails(PartHeaderLength(n), code), PartReturns(heap, code), UNCHANGED length
      PROVE  ReaderStep
  <2>1. Onwards /\ GoesOn
    BY <1>1, <1>8, Fails, PartGoesOn
  <2>2. length' \in Int
    BY <1>1, <1>8 DEF CursorInv
  <2> QED
    BY <1>1, <1>2, <2>1, <2>2, WithinPartKeeps DEF WithinPart
<1>9. ASSUME NEW goes_on \in BOOLEAN,
             goes_on => format \in {"FRF", "IIR_2005"} \/ HasData(l),
             Get(PartHeaderLength(n)), length' = DataLength(l, n),
             IF goes_on
               THEN /\ pc' = CASE format = "FRF" /\ n > 0 -> "point"
                               [] format = "FRF" /\ n = 0 -> "tail"
                               [] format = "IIR_2005"     -> "image"
                               [] OTHER                   -> "data"
                    /\ UNCHANGED <<parts, ret>>
               ELSE PartReturns(Filled(heap, part, PartHeaderLength(n)), READ_OK)
      PROVE  ReaderStep
  <2>1. CASE goes_on
    <3>1. pc' \in {"point", "tail", "image", "data"}
      BY <1>3, <1>5, <1>9, <2>1
    <3> QED
      BY <1>7, <1>9, <2>1, <3>1
  <2> QED
    BY <1>6, <1>9, <2>1
<1> QED
  BY <1>3, <1>4, <1>8, <1>9

\* What a read behind the header of a part starts from.
LEMMA Within ==
  ASSUME ReaderInv, pc \in InPart \ {"part"}
  PROVE  /\ CursorInv /\ pc \in InPart
         /\ length \in Nat /\ length \in Int
         /\ {READ_OK, READ_EOF, READ_ERROR} \subseteq READ_CODES
BY DEF ReaderInv, CursorInv, READ_CODES

\* A feature point (internal_read_fpb).
LEMMA ReadPointKeeps == ASSUME ReaderInv, ReadPoint PROVE ReaderStep
<1>1. pc \in InPart \ {"part"}
  BY DEF ReadPoint, InPart, Pcs
<1> USE Within, <1>1
<1>2. Frame /\ UNCHANGED <<declared, record_length, length>>
  BY DEF ReadPoint
<1>3. FRF_FPB_LENGTH \in Nat
  BY DEF FRF_FPB_LENGTH
<1>4. ASSUME Get(FRF_FPB_LENGTH), pc' = IF todo > 1 THEN "point" ELSE "tail",
             UNCHANGED <<parts, ret>>
      PROVE  Onwards /\ GoesOn
  <2>1. Stays
    BY <1>4 DEF Stays, InPart, Pcs
  <2> QED
    BY <1>2, <1>3, <1>4, <2>1, Gets DEF GoesOn
<1>5. ASSUME NEW code \in {READ_EOF, READ_ERROR}, GetFails(FRF_FPB_LENGTH, code),
             PartReturns(Append(heap, Block("point", {}, 0)), code)
      PROVE  Onwards /\ GoesOn
  BY <1>5, Fails, PartGoesOn
<1>6. ASSUME PartReturns(heap, READ_ERROR), UNCHANGED current
      PROVE  Onwards /\ GoesOn
  BY <1>6, Stands, PartGoesOn
<1>7. Onwards /\ GoesOn
  BY <1>4, <1>5, <1>6 DEF ReadPoint
<1> QED
  BY <1>2, <1>7, WithinPartKeeps DEF WithinPart

\* The image information block of a face.
LEMMA ReadTailKeeps == ASSUME ReaderInv, ReadTail PROVE ReaderStep
<1>1. pc \in InPart \ {"part"}
  BY DEF ReadTail, InPart, Pcs
<1> USE Within, <1>1
<1>2. Frame /\ UNCHANGED <<declared, record_length, length>>
  BY DEF ReadTail
<1>3. FRF_IIB_LENGTH \in Nat
  BY DEF FRF_IIB_LENGTH
<1>4. ASSUME Get(FRF_IIB_LENGTH), pc' = "data", UNCHANGED <<parts, ret>>
      PROVE  Onwards /\ GoesOn
  <2>1. Stays
    BY <1>4 DEF Stays, InPart, Pcs
  <2> QED
    BY <1>2, <1>3, <1>4, <2>1, Gets DEF GoesOn
<1>5. ASSUME NEW code \in {READ_EOF, READ_ERROR}, GetFails(FRF_IIB_LENGTH, code),
             PartReturns(heap, code)
      PROVE  Onwards /\ GoesOn
  BY <1>5, Fails, PartGoesOn
<1>6. Onwards /\ GoesOn
  BY <1>4, <1>5 DEF ReadTail
<1> QED
  BY <1>2, <1>6, WithinPartKeeps DEF WithinPart

\* Image data.
LEMMA ReadDataKeeps == ASSUME ReaderInv, ReadData PROVE ReaderStep
<1>1. pc \in InPart \ {"part"}
  BY DEF ReadData, InPart, Pcs
<1> USE Within, <1>1
<1>2. Frame /\ UNCHANGED <<declared, record_length, length>>
  BY DEF ReadData
<1>3. ASSUME Get(length),
             HolderReturns(Append(heap, Block("data", {Holder}, length)), READ_OK)
      PROVE  Onwards /\ GoesOn
  BY <1>2, <1>3, Gets, HolderGoesOn
<1>4. ASSUME DataFails("data", length)
      PROVE  Onwards /\ GoesOn
  BY <1>2, <1>4, DataFailsGoesOn
<1>5. Onwards /\ GoesOn
  BY <1>3, <1>4 DEF ReadData
<1> QED
  BY <1>2, <1>5, WithinPartKeeps DEF WithinPart

\* The header of an iris image (internal_read_iih).
LEMMA ReadImageKeeps == ASSUME ReaderInv, ReadImage PROVE ReaderStep
<1>1. pc \in InPart \ {"part"}
  BY DEF ReadImage, InPart, Pcs
<1> USE Within, <1>1
<1>2. Frame /\ UNCHANGED <<declared, record_length>>
  BY DEF ReadImage
<1>3. IIH_LENGTH + 2 \in Nat
  BY DEF IIH_LENGTH
<1>4. ASSUME NEW l \in Lengths, NEW code_length \in CodeLengths,
             Get(IIH_LENGTH + 2), length' = l,
             pc' = IF code_length # 0 THEN "pupil" ELSE "sclera_length",
             UNCHANGED <<parts, ret>>
      PROVE  Onwards /\ GoesOn /\ length' \in Int
  <2>1. Stays
    BY <1>4 DEF Stays, InPart, Pcs
  <2>2. l \in Nat
    BY Wire
  <2> QED
    BY <1>3, <1>4, <2>1, <2>2, Gets DEF GoesOn
<1>5. ASSUME NEW code \in {READ_EOF, READ_ERROR}, GetFails(IIH_LENGTH + 2, code),
             PartReturns(Append(heap, Block("image", {}, 0)), READ_ERROR), UNCHANGED length
      PROVE  Onwards /\ GoesOn /\ length' \in Int
  BY <1>5, Fails, PartGoesOn
<1>6. ASSUME PartReturns(heap, READ_ERROR), UNCHANGED <<current, length>>
      PROVE  Onwards /\ GoesOn /\ length' \in Int
  BY <1>6, Stands, PartGoesOn
<1>7. Onwards /\ GoesOn /\ length' \in Int
  BY <1>4, <1>5, <1>6 DEF ReadImage
<1> QED
  BY <1>2, <1>7, WithinPartKeeps DEF WithinPart

\* A Freeman code (internal_read_image_ancillary).
LEMMA ReadCodeKeeps == ASSUME ReaderInv, ReadCode PROVE ReaderStep
<1>1. pc \in InPart \ {"part"}
  BY DEF ReadCode, InPart, Pcs
<1> USE Within, <1>1
<1>2. Frame /\ UNCHANGED <<declared, record_length, length>>
  BY DEF ReadCode
<1>3. PICK n \in CodeLengths \ {0} :
       \/ /\ n >= FCCB_HEADER_LENGTH
          /\ Get(n)
          /\ LET h == Append(Filled(heap, image, FCCB_HEADER_LENGTH),
                             Block(pc, {image}, n - FCCB_HEADER_LENGTH))
             IN IF pc = "pupil"
                  THEN /\ pc' = "sclera_length" /\ heap' = h
                       /\ UNCHANGED <<parts, todo, ret>>
                  ELSE AfterCodes(h, length)
       \/ /\ n >= FCCB_HEADER_LENGTH /\ Fits(current, FCCB_HEADER_LENGTH, end)
          /\ DataFails(pc, n)
       \/ /\ n < FCCB_HEADER_LENGTH \/ ~ Fits(current, FCCB_HEADER_LENGTH, end)
          /\ HolderReturns(heap, READ_ERROR)
          /\ UNCHANGED current
  BY DEF ReadCode
<1>4. n \in Nat
  BY Wire
<1>5. ASSUME NEW h, Get(n),
             IF pc = "pupil"
               THEN /\ pc' = "sclera_length" /\ heap' = h
                    /\ UNCHANGED <<parts, todo, ret>>
               ELSE AfterCodes(h, length)
      PROVE  Onwards /\ GoesOn
  <2>1. Onwards
    BY <1>4, <1>5, Gets
  <2>2. CASE pc = "pupil"
    <3>1. Stays
      BY <1>5, <2>2 DEF Stays, InPart, Pcs
    <3> QED
      BY <1>2, <2>1, <3>1 DEF GoesOn
  <2>3. CASE pc # "pupil"
    BY <1>2, <1>5, <2>1, <2>3, AfterCodesGoesOn
  <2> QED
    BY <2>2, <2>3
<1>6. ASSUME DataFails(pc, n)
      PROVE  Onwards /\ GoesOn
  BY <1>2, <1>6, DataFailsGoesOn
<1>7. ASSUME HolderReturns(heap, READ_ERROR), UNCHANGED current
      PROVE  Onwards /\ GoesOn
  BY <1>2, <1>7, Stands, HolderGoesOn
<1>8. Onwards /\ GoesOn
  BY <1>3, <1>5, <1>6, <1>7
<1> QED
  BY <1>2, <1>8, WithinPartKeeps DEF WithinPart

\* The length of the second code.
LEMMA ReadScleraLengthKeeps == ASSUME ReaderInv, ReadScleraLength PROVE ReaderStep
<1>1. pc \in InPart \ {"part"}
  BY DEF ReadScleraLength, InPart, Pcs
<1> USE Within, <1>1
<1>2. Frame /\ UNCHANGED <<declared, record_length, length>>
  BY DEF ReadScleraLength
<1>3. ASSUME Get(2), pc' = "sclera", UNCHANGED <<parts, ret>>
      PROVE  Onwards /\ GoesOn
  <2>1. Stays
    BY <1>3 DEF Stays, InPart, Pcs
  <2> QED
    BY <1>2, <1>3, <2>1, Gets DEF GoesOn
<1>4. ASSUME NEW h, Get(2), AfterCodes(h, length)
      PROVE  Onwards /\ GoesOn
  BY <1>2, <1>4, Gets, AfterCodesGoesOn
<1>5. ASSUME NEW code \in {READ_EOF, READ_ERROR}, GetFails(2, code),
             HolderReturns(heap, code)
      PROVE  Onwards /\ GoesOn
  BY <1>2, <1>5, Fails, HolderGoesOn
<1>6. Onwards /\ GoesOn
  BY <1>3, <1>4, <1>5 DEF ReadScleraLength
<1> QED
  BY <1>2, <1>6, WithinPartKeeps DEF WithinPart

\* Reading the header declares how many parts there will be.
LEMMA ReadHeaderKeeps == ASSUME ReaderInv, ReadHeader PROVE ReaderStep
<1>1. /\ CursorInv /\ CountInv
      /\ pc = "header" /\ declared = 0 /\ parts = 0 /\ ret \in READ_CODES
  BY DEF ReaderInv, CountInv, ReadHeader
<1>2. Frame /\ UNCHANGED <<parts, length>>
  BY DEF ReadHeader
<1>3. format \in ImageFormats /\ HeaderLength[format] \in Nat /\ length \in Int
  BY <1>1, Sizes DEF CursorInv
<1>4. PICK n \in Countable(format), l \in RecordLengths[format] :
       \/ /\ Get(HeaderLength[format])
          /\ declared' = n /\ record_length' = l
          /\ heap' = Filled(heap, RECORD, HeaderLength[format])
          /\ PartLoop(0, n)
       \/ \E code \in {READ_EOF, READ_ERROR} :
            /\ GetFails(HeaderLength[format], code)
            /\ declared' \in {0, n} /\ record_length' \in {0, l}
            /\ RecordReturns(code)
            /\ UNCHANGED heap
  BY DEF ReadHeader
<1>5. n \in PartCounts
  BY DEF Countable
<1>6. n \in Nat /\ l \in Nat
  BY <1>3, <1>5, Wire
<1> USE DEF READ_OK, READ_EOF, READ_ERROR
<1>7. ASSUME Get(HeaderLength[format]), declared' = n, record_length' = l, PartLoop(0, n)
      PROVE  ReaderStep
  <2>1. Onwards
    BY <1>1, <1>3, <1>7, Gets
  <2>2. \/ pc' = "new_part" /\ 0 < n /\ ret' = ret
        \/ pc' = "done" /\ n = 0 /\ ret' = "READ_OK"
    BY <1>6, <1>7 DEF PartLoop, RecordReturns
  <2>3. CountInv'
    BY <1>1, <1>2, <1>6, <1>7, <2>2, Codes DEF CountInv, Pcs
  <2>4. CursorInv'
    BY <1>1, <1>2, <1>6, <1>7, <2>1, <2>2 DEF CursorInv, Onwards, Frame, InPart
  <2>5. Abstract!Declare
    BY <1>1, <1>2, <1>6, <1>7, <2>2 DEF Abstract!Declare
  <2> QED
    BY <2>3, <2>4, <2>5 DEF ReaderStep, ReaderInv, Abstract!RNext
<1>8. ASSUME NEW code \in {READ_EOF, READ_ERROR}, GetFails(HeaderLength[format], code),
             declared' \in {0, n}, record_length' \in {0, l}, RecordReturns(code)
      PROVE  ReaderStep
  <2>1. Onwards
    BY <1>1, <1>8, Fails
  <2>2. pc' = "done" /\ ret' = code
    BY <1>8 DEF RecordReturns
  <2>3. CountInv'
    BY <1>1, <1>2, <1>6, <1>8, <2>2, Codes DEF CountInv, Pcs
  <2>4. CursorInv'
    BY <1>1, <1>2, <1>6, <1>8, <2>1, <2>2 DEF CursorInv, Onwards, Frame, InPart
  <2>5. Abstract!Declare
    BY <1>1, <1>2, <1>6, <1>8, <2>2 DEF Abstract!Declare
  <2> QED
    BY <2>3, <2>4, <2>5 DEF ReaderStep, ReaderInv, Abstract!RNext
<1> QED
  BY <1>4, <1>7, <1>8

\* Every step of a reader keeps its invariant.
LEMMA ReaderKeeps == ASSUME ReaderInv, ReadNext PROVE ReaderStep
BY ReadHeaderKeeps, StartPartKeeps, ReadPartHeaderKeeps, ReadPointKeeps, ReadTailKeeps,
   ReadDataKeeps, ReadImageKeeps, ReadCodeKeeps, ReadScleraLengthKeeps
DEF ReadNext

\* The invariant holds before a record is read.
LEMMA BeginsWell ==
  ASSUME format \in ImageFormats, end \in Nat, Begin(0)
  PROVE  ReaderInv
<1>1. /\ start = 0 /\ current = 0 /\ pc = "header"
      /\ declared = 0 /\ record_length = 0 /\ parts = 0 /\ length = 0 /\ ret \in READ_CODES
  BY DEF Begin, READ_CODES
<1> QED
  BY <1>1 DEF ReaderInv, CountInv, CursorInv, Pcs, InPart

-----------------------------------------------------------------------------
(***************************************************************************)
(* Memory.  Nothing is freed while a record is read, and the first block   *)
(* stays that of the record.                                               *)
(***************************************************************************)

\* Memory of which nothing was freed.
Fresh(h) ==
  /\ h \in Seq(Blocks) /\ h # <<>>
  /\ h[RECORD].kind = "record"
  /\ \A i \in DOMAIN h : h[i].freed = 0

\* The locals of the readers, and what is left to be read of a part.
LocalsInv ==
  /\ declared \in Halfwords
  /\ part \in Nat /\ image \in Nat /\ todo \in Nat
  /\ pc \in {"point", "tail"} => format = "FRF"
  /\ pc \in {"point", "image", "pupil", "sclera_length", "sclera"} => todo > 0
  /\ pc = "data" /\ format = "IIR_2005" => todo > 0

HeapInv == Fresh(heap) /\ LocalsInv

\* A block as it is allocated.
LEMMA NewBlock ==
  ASSUME NEW kind \in Kinds, NEW owners \in SUBSET Nat, NEW n \in Nat
  PROVE  Block(kind, owners, n) \in Blocks /\ Block(kind, owners, n).freed = 0
BY DEF Block, Blocks

\* A block that was given to another, filled or freed.
LEMMA ChangedBlock ==
  ASSUME NEW b \in Blocks, NEW owner \in Nat, NEW n \in Nat
  PROVE  /\ LET c == [b EXCEPT !.owners = @ \cup {owner}]
            IN c \in Blocks /\ c.kind = b.kind /\ c.freed = b.freed
         /\ LET c == [b EXCEPT !.size = @ + n]
            IN c \in Blocks /\ c.kind = b.kind /\ c.freed = b.freed
         /\ LET c == [b EXCEPT !.freed = @ + 1]
            IN /\ c \in Blocks /\ c.kind = b.kind /\ c.freed = b.freed + 1
               /\ c.owners = b.owners
<1>1. b.size \in Nat /\ b.owners \in SUBSET Nat /\ b.freed \in Nat
  BY DEF Blocks
<1>2. b.size + n \in Nat /\ b.freed + 1 \in Nat /\ b.owners \cup {owner} \in SUBSET Nat
  BY <1>1
<1> DEFINE m == b.size + n
           f == b.freed + 1
           o == b.owners \cup {owner}
<1> HIDE DEF m, f, o
<1>3. /\ [b EXCEPT !.size = m] \in Blocks
      /\ [b EXCEPT !.size = m].kind = b.kind /\ [b EXCEPT !.size = m].freed = b.freed
  BY <1>2 DEF Blocks, m
<1>4. /\ [b EXCEPT !.freed = f] \in Blocks
      /\ [b EXCEPT !.freed = f].kind = b.kind /\ [b EXCEPT !.freed = f].freed = f
      /\ [b EXCEPT !.freed = f].owners = b.owners
  BY <1>2 DEF Blocks, f
<1>5. /\ [b EXCEPT !.owners = o] \in Blocks
      /\ [b EXCEPT !.owners = o].kind = b.kind /\ [b EXCEPT !.owners = o].freed = b.freed
  BY <1>2 DEF Blocks, o
<1> QED
  BY <1>3, <1>4, <1>5 DEF m, f, o

\* The record alone is fresh.
LEMMA BegunIsFresh == Fresh(Begun)
<1>1. Block("record", {}, 0) \in Blocks /\ Block("record", {}, 0).freed = 0
  BY NewBlock DEF Kinds
<1>2. Block("record", {}, 0).kind = "record"
  BY DEF Block
<1> DEFINE b == Block("record", {}, 0)
<1> HIDE DEF b
<1>3. <<b>> \in Seq(Blocks) /\ <<b>> # <<>> /\ <<b>>[1] = b /\ DOMAIN <<b>> = {1}
  BY <1>1 DEF b
<1> QED
  BY <1>1, <1>2, <1>3 DEF Fresh, Begun, RECORD, b

\* Memory stays fresh when a block is added, given an owner, or filled.
LEMMA FreshStays ==
  ASSUME NEW h, Fresh(h)
  PROVE  /\ \A kind \in Kinds, owners \in SUBSET Nat, n \in Nat :
              Fresh(Append(h, Block(kind, owners, n)))
         /\ \A i \in Nat, owner \in Nat : Fresh(Give(h, i, owner))
         /\ \A i \in Nat, n \in Nat : Fresh(Filled(h, i, n))
<1>1. /\ h \in Seq(Blocks) /\ Len(h) \in Nat /\ DOMAIN h = 1 .. Len(h)
      /\ RECORD \in DOMAIN h /\ h[RECORD].kind = "record"
      /\ \A i \in DOMAIN h : h[i] \in Blocks /\ h[i].freed = 0
  BY DEF Fresh, RECORD
<1>2. ASSUME NEW b \in Blocks, b.freed = 0
      PROVE  Fresh(Append(h, b))
  <2>1. /\ Append(h, b) \in Seq(Blocks) /\ DOMAIN Append(h, b) = 1 .. Len(h) + 1
        /\ \A i \in DOMAIN h : Append(h, b)[i] = h[i]
        /\ Append(h, b)[Len(h) + 1] = b
    BY <1>1
  <2>2. Append(h, b) # <<>>
    BY <1>1, <2>1
  <2> QED
    BY <1>1, <1>2, <2>1, <2>2 DEF Fresh
<1>3. ASSUME NEW i \in Nat, NEW b \in Blocks, i \in DOMAIN h => b.kind = h[i].kind /\ b.freed = 0
      PROVE  Fresh([h EXCEPT ![i] = b])
  <2> DEFINE g == [h EXCEPT ![i] = b]
  <2>1. /\ DOMAIN g = 1 .. Len(h)
        /\ \A j \in DOMAIN h : g[j] = IF j = i THEN b ELSE h[j]
    BY <1>1
  <2>2. g \in Seq(Blocks)
    <3>1. CASE i \in 1 .. Len(h)
      BY <1>1, <3>1, ExceptSeq
    <3>2. CASE i \notin 1 .. Len(h)
      <4>1. g = h
        BY <1>1, <3>2
      <4> QED
        BY <1>1, <4>1
    <3> QED
      BY <3>1, <3>2
  <2> HIDE DEF g
  <2>3. g # <<>>
    BY <1>1, <2>1
  <2> QED
    BY <1>1, <1>3, <2>1, <2>2, <2>3 DEF Fresh, g
<1>4. ASSUME NEW i \in Nat, NEW owner \in Nat
      PROVE  Fresh(Give(h, i, owner))
  <2>1. CASE i \in DOMAIN h
    <3> DEFINE b == [h[i] EXCEPT !.owners = @ \cup {owner}]
    <3>0. h[i] \in Blocks /\ h[i].freed = 0 /\ 0 \in Nat
      BY <1>1, <2>1
    <3>1. b \in Blocks /\ b.kind = h[i].kind /\ b.freed = 0
      BY ONLY <3>0, owner \in Nat, ChangedBlock
    <3>2. Give(h, i, owner) = [h EXCEPT ![i] = b]
      BY DEF Give
    <3> QED
      BY <1>3, <3>1, <3>2
  <2>2. CASE i \notin DOMAIN h
    <3>1. Give(h, i, owner) = h
      BY <1>1, <2>2 DEF Give
    <3> QED
      BY <3>1
  <2> QED
    BY <2>1, <2>2
<1>5. ASSUME NEW i \in Nat, NEW n \in Nat
      PROVE  Fresh(Filled(h, i, n))
  <2>1. CASE i \in DOMAIN h
    <3> DEFINE b == [h[i] EXCEPT !.size = @ + n]
    <3>0. h[i] \in Blocks /\ h[i].freed = 0 /\ 0 \in Nat
      BY <1>1, <2>1
    <3>1. b \in Blocks /\ b.kind = h[i].kind /\ b.freed = 0
      BY ONLY <3>0, n \in Nat, ChangedBlock
    <3>2. Filled(h, i, n) = [h EXCEPT ![i] = b]
      BY DEF Filled
    <3> QED
      BY <1>3, <3>1, <3>2
  <2>2. CASE i \notin DOMAIN h
    <3>1. Filled(h, i, n) = h
      BY <1>1, <2>2 DEF Filled
    <3> QED
      BY <3>1
  <2> QED
    BY <2>1, <2>2
<1> QED
  BY <1>2, <1>4, <1>5, NewBlock

-----------------------------------------------------------------------------
\* Where a step leads: what is left to be read is true of the next read.
TodoThere ==
  /\ todo' \in Nat
  /\ pc' \in {"point", "tail"} => format = "FRF"
  /\ pc' \in {"point", "image", "pupil", "sclera_length", "sclera"} => todo' > 0
  /\ pc' = "data" /\ format = "IIR_2005" => todo' > 0

\* The part is done, with the memory h.
LEMMA PartLeavesFresh ==
  ASSUME LocalsInv, NEW h, Fresh(h), NEW code, PartReturns(h, code)
  PROVE  Fresh(heap') /\ pc' \in {"new_part", "done"}
<1>1. part \in Nat /\ RECORD \in Nat
  BY DEF LocalsInv, RECORD
<1>2. CASE code = READ_OK
  <2>1. heap' = Give(h, part, RECORD) /\ PartLoop(parts + 1, declared)
    BY <1>2 DEF PartReturns
  <2>2. pc' \in {"new_part", "done"}
    BY <2>1 DEF PartLoop, RecordReturns
  <2> QED
    BY <1>1, <2>1, <2>2, FreshStays
<1>3. CASE code # READ_OK
  BY <1>3 DEF PartReturns, RecordReturns
<1> QED
  BY <1>2, <1>3

\* An image is done.
LEMMA ImageLeavesFresh ==
  ASSUME LocalsInv, todo > 0, NEW h, Fresh(h), NEW code, ImageReturns(h, code)
  PROVE  Fresh(heap') /\ TodoThere
<1>1. part \in Nat /\ image \in Nat /\ todo \in Nat /\ todo - 1 \in Nat
  BY DEF LocalsInv
<1>2. Fresh(Give(h, image, part))
  BY <1>1, FreshStays
<1>3. CASE code = READ_OK /\ todo > 1
  <2>1. heap' = Give(h, image, part) /\ pc' = "image" /\ todo' = todo - 1
    BY <1>3 DEF ImageReturns
  <2> QED
    BY <1>1, <1>2, <1>3, <2>1 DEF TodoThere
<1>4. CASE code = READ_OK /\ ~ (todo > 1)
  <2>1. PartReturns(Give(h, image, part), READ_OK) /\ todo' = todo - 1
    BY <1>4 DEF ImageReturns
  <2> QED
    BY <1>1, <1>2, <2>1, PartLeavesFresh DEF TodoThere
<1>5. CASE code # READ_OK
  <2>1. PartReturns(h, READ_ERROR) /\ todo' = todo
    BY <1>5 DEF ImageReturns
  <2> QED
    BY <1>1, <2>1, PartLeavesFresh DEF TodoThere
<1> QED
  BY <1>3, <1>4, <1>5

\* What holds data or a code is done.
LEMMA HolderLeavesFresh ==
  ASSUME LocalsInv, format = "IIR_2005" => todo > 0,
         NEW h, Fresh(h), NEW code, HolderReturns(h, code)
  PROVE  Fresh(heap') /\ TodoThere
<1>1. CASE format = "IIR_2005"
  BY <1>1, ImageLeavesFresh DEF HolderReturns
<1>2. CASE format # "IIR_2005"
  <2>1. PartReturns(h, code) /\ todo' = todo
    BY <1>2 DEF HolderReturns
  <2> QED
    BY <2>1, PartLeavesFresh DEF TodoThere, LocalsInv
<1> QED
  BY <1>1, <1>2

\* Data or a code could not be read.
LEMMA DataFailsFresh ==
  ASSUME HeapInv, format = "IIR_2005" => todo > 0,
         NEW kind \in Kinds, NEW n, DataFails(kind, n)
  PROVE  Fresh(heap') /\ TodoThere
<1>1. Holder \in Nat /\ LocalsInv
  BY DEF Holder, HeapInv, LocalsInv
<1>2. Fresh(heap) /\ Fresh(Append(heap, Block(kind, {Holder}, 0)))
  BY <1>1, FreshStays DEF HeapInv
<1> QED
  BY <1>1, <1>2, HolderLeavesFresh DEF DataFails

\* Behind the codes of an image.
LEMMA AfterCodesFresh ==
  ASSUME LocalsInv, todo > 0, NEW h, Fresh(h), NEW l, AfterCodes(h, l)
  PROVE  Fresh(heap') /\ TodoThere
<1>1. CASE HasData(l)
  BY <1>1 DEF AfterCodes, TodoThere, LocalsInv
<1>2. CASE ~ HasData(l)
  BY <1>2, ImageLeavesFresh DEF AfterCodes
<1> QED
  BY <1>1, <1>2

\* A step that leaves the rest of the locals as they are.
LEMMA HeapRests ==
  ASSUME HeapInv, Fresh(heap'), TodoThere, UNCHANGED <<format, declared>>,
         part' \in Nat, image' \in Nat
  PROVE  HeapInv'
BY DEF HeapInv, LocalsInv, TodoThere

\* What every step starts from.
LEMMA HeapParts ==
  ASSUME HeapInv
  PROVE  /\ LocalsInv /\ Fresh(heap) /\ RECORD \in Nat
         /\ part \in Nat /\ image \in Nat /\ todo \in Nat
         /\ {} \in SUBSET Nat /\ {part} \in SUBSET Nat /\ {image} \in SUBSET Nat
BY DEF HeapInv, LocalsInv, RECORD

\* The header of the record.
LEMMA HeaderKeepsHeap == ASSUME ReaderInv, HeapInv, ReadHeader PROVE HeapInv'
<1>1. format \in ImageFormats /\ HeaderLength[format] \in Nat
  BY Sizes DEF ReaderInv, CursorInv
<1>2. PartCounts \subseteq Halfwords /\ RECORD \in Nat
  BY CountsAssumption DEF RECORD
<1>3. Fresh(heap) /\ Fresh(Filled(heap, RECORD, HeaderLength[format]))
  BY <1>1, <1>2, FreshStays DEF HeapInv
<1>4. 0 \in Halfwords
  BY DEF Halfwords
<1>5. Fresh(heap') /\ declared' \in Halfwords /\ pc' \in {"new_part", "done"}
  BY <1>2, <1>3, <1>4 DEF ReadHeader, Countable, PartLoop, RecordReturns
<1>6. UNCHANGED <<part, image, todo>>
  BY DEF ReadHeader
<1> QED
  BY <1>5, <1>6 DEF HeapInv, LocalsInv

\* A part is allocated.
LEMMA StartKeepsHeap == ASSUME HeapInv, StartPart PROVE HeapInv'
<1>1. Fresh(heap) /\ Fresh(Append(heap, Block("part", {}, 0)))
  BY HeapParts, FreshStays DEF Kinds
<1>2. /\ UNCHANGED <<format, declared, image, todo>>
      /\ \/ heap' = Append(heap, Block("part", {}, 0)) /\ part' = Len(heap') /\ pc' = "part"
         \/ pc' = "done" /\ UNCHANGED <<heap, part>>
  BY DEF StartPart, Frame, RecordReturns
<1>3. Fresh(heap')
  BY <1>1, <1>2
<1>4. Len(heap') \in Nat
  BY <1>3 DEF Fresh
<1>5. part' \in Nat
  BY <1>2, <1>4, HeapParts
<1>6. TodoThere
  BY <1>2, HeapParts DEF TodoThere
<1> QED
  BY <1>2, <1>3, <1>5, <1>6, HeapParts, HeapRests

\* The header of a part.
LEMMA PartHeaderKeepsHeap == ASSUME ReaderInv, HeapInv, ReadPartHeader PROVE HeapInv'
<1>1. UNCHANGED <<format, declared, part, image>>
  BY DEF ReadPartHeader, Frame
<1>2. PICK n \in SubCounts, l \in Lengths :
       \/ /\ Get(PartHeaderLength(n))
          /\ todo' = n /\ length' = DataLength(l, n)
          /\ LET h == Filled(heap, part, PartHeaderLength(n))
                 goes_on == CASE format = "FRF"      -> TRUE
                              [] format = "IIR_2005" -> n > 0
                              [] OTHER               -> HasData(l)
             IN IF goes_on
                  THEN /\ pc' = CASE format = "FRF" /\ n > 0 -> "point"
                                  [] format = "FRF" /\ n = 0 -> "tail"
                                  [] format = "IIR_2005"     -> "image"
                                  [] OTHER                   -> "data"
                       /\ heap' = h /\ UNCHANGED <<parts, ret>>
                  ELSE PartReturns(h, READ_OK)
       \/ \E code \in {READ_EOF, READ_ERROR} :
            /\ GetFails(PartHeaderLength(n), code)
            /\ PartReturns(heap, code)
            /\ UNCHANGED <<todo, length>>
  BY DEF ReadPartHeader
<1> DEFINE h == Filled(heap, part, PartHeaderLength(n))
<1>3. n \in Nat /\ PartHeaderLength(n) \in Nat
  BY Wire, Sizes DEF ReaderInv, CursorInv
<1>4. Fresh(heap) /\ Fresh(h) /\ LocalsInv
  BY <1>3, HeapParts, FreshStays
<1> HIDE DEF h
<1>5. ASSUME PartReturns(h, READ_OK), todo' = n
      PROVE  Fresh(heap') /\ TodoThere
  BY <1>3, <1>4, <1>5, PartLeavesFresh DEF TodoThere
<1>6. ASSUME NEW code, PartReturns(heap, code), UNCHANGED todo
      PROVE  Fresh(heap') /\ TodoThere
  BY <1>4, <1>6, PartLeavesFresh, HeapParts DEF TodoThere
<1>7. ASSUME heap' = h, todo' = n,
             CASE format = "FRF"      -> TRUE
               [] format = "IIR_2005" -> n > 0
               [] OTHER               -> HasData(l),
             pc' = CASE format = "FRF" /\ n > 0 -> "point"
                     [] format = "FRF" /\ n = 0 -> "tail"
                     [] format = "IIR_2005"     -> "image"
                     [] OTHER                   -> "data"
      PROVE  Fresh(heap') /\ TodoThere
  <2>1. CASE format = "FRF"
    <3>1. (pc' = "point" /\ n > 0) \/ pc' = "tail"
      BY <1>3, <1>7, <2>1
    <3> QED
      BY <1>3, <1>4, <1>7, <2>1, <3>1 DEF TodoThere
  <2>2. CASE format = "IIR_2005"
    <3>1. pc' = "image" /\ n > 0
      BY <1>7, <2>2
    <3> QED
      BY <1>3, <1>4, <1>7, <3>1 DEF TodoThere
  <2>3. CASE format \notin {"FRF", "IIR_2005"}
    <3>1. pc' = "data"
      BY <1>7, <2>3
    <3> QED
      BY <1>3, <1>4, <1>7, <2>3, <3>1 DEF TodoThere
  <2> QED
    BY <2>1, <2>2, <2>3
<1>8. Fresh(heap') /\ TodoThere
  BY <1>2, <1>5, <1>6, <1>7 DEF h
<1> QED
  BY <1>1, <1>8, HeapParts, HeapRests

\* A feature point.
LEMMA PointKeepsHeap == ASSUME HeapInv, ReadPoint PROVE HeapInv'
<1>1. /\ Fresh(heap) /\ Fresh(Append(heap, Block("point", {part}, FRF_FPB_LENGTH)))
      /\ Fresh(Append(heap, Block("point", {}, 0)))
  BY HeapParts, FreshStays DEF Kinds, FRF_FPB_LENGTH
<1>2. UNCHANGED <<format, declared, part, image>> /\ todo > 0 /\ format = "FRF"
  BY DEF ReadPoint, Frame, HeapInv, LocalsInv
<1>3. ASSUME heap' = Append(heap, Block("point", {part}, FRF_FPB_LENGTH)), todo' = todo - 1,
             pc' = IF todo > 1 THEN "point" ELSE "tail"
      PROVE  Fresh(heap') /\ TodoThere
  BY <1>1, <1>2, <1>3, HeapParts DEF TodoThere
<1>4. ASSUME NEW h, Fresh(h), NEW code, PartReturns(h, code), UNCHANGED todo
      PROVE  Fresh(heap') /\ TodoThere
  BY <1>4, PartLeavesFresh, HeapParts DEF TodoThere
<1>5. Fresh(heap') /\ TodoThere
  BY <1>1, <1>3, <1>4 DEF ReadPoint
<1> QED
  BY <1>2, <1>5, HeapParts, HeapRests

\* The image information block.
LEMMA TailKeepsHeap == ASSUME HeapInv, ReadTail PROVE HeapInv'
<1>1. Fresh(heap) /\ Fresh(Filled(heap, part, FRF_IIB_LENGTH))
  BY HeapParts, FreshStays DEF FRF_IIB_LENGTH
<1>2. UNCHANGED <<format, declared, part, image, todo>> /\ format = "FRF"
  BY DEF ReadTail, Frame, HeapInv, LocalsInv
<1>3. ASSUME NEW code, PartReturns(heap, code)
      PROVE  Fresh(heap') /\ TodoThere
  BY <1>1, <1>2, <1>3, PartLeavesFresh, HeapParts DEF TodoThere
<1>4. Fresh(heap') /\ TodoThere
  BY <1>1, <1>2, <1>3, HeapParts DEF ReadTail, TodoThere
<1> QED
  BY <1>2, <1>4, HeapParts, HeapRests

\* Image data.
LEMMA DataKeepsHeap == ASSUME ReaderInv, HeapInv, ReadData PROVE HeapInv'
<1>1. /\ Holder \in Nat /\ {Holder} \in SUBSET Nat /\ length \in Nat
      /\ format = "IIR_2005" => todo > 0
  BY DEF Holder, ReadData, HeapInv, LocalsInv, ReaderInv, CursorInv, InPart, Pcs
<1>2. Fresh(Append(heap, Block("data", {Holder}, length)))
  BY <1>1, HeapParts, FreshStays DEF Kinds
<1>3. UNCHANGED <<format, declared, part, image>>
  BY DEF ReadData, Frame
<1>4. Fresh(heap') /\ TodoThere
  BY <1>1, <1>2, HeapParts, HolderLeavesFresh, DataFailsFresh DEF ReadData, Kinds
<1> QED
  BY <1>3, <1>4, HeapParts, HeapRests

\* The header of an iris image.
LEMMA ImageKeepsHeap == ASSUME HeapInv, ReadImage PROVE HeapInv'
<1>1. /\ Fresh(heap) /\ Fresh(Append(heap, Block("image", {}, IIH_LENGTH + 2)))
      /\ Fresh(Append(heap, Block("image", {}, 0)))
  <2>1. IIH_LENGTH + 2 \in Nat /\ 0 \in Nat /\ "image" \in Kinds
    BY DEF Kinds, IIH_LENGTH
  <2> QED
    BY <2>1, HeapParts, FreshStays
<1>2. UNCHANGED <<format, declared, part>> /\ todo > 0
  BY DEF ReadImage, Frame, HeapInv, LocalsInv
<1>3. ASSUME NEW code_length,
             heap' = Append(heap, Block("image", {}, IIH_LENGTH + 2)), image' = Len(heap'),
             pc' = IF code_length # 0 THEN "pupil" ELSE "sclera_length", UNCHANGED todo
      PROVE  Fresh(heap') /\ TodoThere /\ image' \in Nat
  <2>1. Fresh(heap')
    BY <1>1, <1>3
  <2>2. image' \in Nat
    BY <1>3, <2>1 DEF Fresh
  <2> QED
    BY <1>2, <1>3, <2>1, <2>2, HeapParts DEF TodoThere
<1>4. ASSUME NEW h, Fresh(h), PartReturns(h, READ_ERROR), UNCHANGED <<image, todo>>
      PROVE  Fresh(heap') /\ TodoThere /\ image' \in Nat
  BY <1>4, PartLeavesFresh, HeapParts DEF TodoThere
<1>5. Fresh(heap') /\ TodoThere /\ image' \in Nat
  BY <1>1, <1>3, <1>4 DEF ReadImage
<1> QED
  BY <1>2, <1>5, HeapParts, HeapRests

\* A Freeman code.
LEMMA CodeKeepsHeap == ASSUME HeapInv, ReadCode PROVE HeapInv'
<1>1. UNCHANGED <<format, declared, part, image>> /\ todo > 0 /\ pc \in Kinds
  BY DEF ReadCode, Frame, HeapInv, LocalsInv, Kinds, CodeKinds
<1>2. PICK n \in CodeLengths \ {0} :
       \/ /\ n >= FCCB_HEADER_LENGTH
          /\ Get(n)
          /\ LET h == Append(Filled(heap, image, FCCB_HEADER_LENGTH),
                             Block(pc, {image}, n - FCCB_HEADER_LENGTH))
             IN IF pc = "pupil"
                  THEN /\ pc' = "sclera_length" /\ heap' = h
                       /\ UNCHANGED <<parts, todo, ret>>
                  ELSE AfterCodes(h, length)
       \/ /\ n >= FCCB_HEADER_LENGTH /\ Fits(current, FCCB_HEADER_LENGTH, end)
          /\ DataFails(pc, n)
       \/ /\ n < FCCB_HEADER_LENGTH \/ ~ Fits(current, FCCB_HEADER_LENGTH, end)
          /\ HolderReturns(heap, READ_ERROR)
          /\ UNCHANGED current
  BY DEF ReadCode
<1> DEFINE h == Append(Filled(heap, image, FCCB_HEADER_LENGTH),
                       Block(pc, {image}, n - FCCB_HEADER_LENGTH))
<1>3. n >= FCCB_HEADER_LENGTH => Fresh(h)
  <2>1. Fresh(Filled(heap, image, FCCB_HEADER_LENGTH))
    BY HeapParts, FreshStays DEF FCCB_HEADER_LENGTH
  <2>2. n >= FCCB_HEADER_LENGTH => n - FCCB_HEADER_LENGTH \in Nat
    BY Wire DEF FCCB_HEADER_LENGTH
  <2> QED
    BY <1>1, <2>1, <2>2, HeapParts, FreshStays
<1> HIDE DEF h
<1>4. ASSUME Fresh(h),
             IF pc = "pupil"
               THEN /\ pc' = "sclera_length" /\ heap' = h
                    /\ UNCHANGED <<parts, todo, ret>>
               ELSE AfterCodes(h, length)
      PROVE  Fresh(heap') /\ TodoThere
  <2>1. CASE pc = "pupil"
    BY <1>1, <1>4, <2>1, HeapParts DEF TodoThere
  <2>2. CASE pc # "pupil"
    BY <1>1, <1>4, <2>2, HeapParts, AfterCodesFresh
  <2> QED
    BY <2>1, <2>2
<1>5. ASSUME DataFails(pc, n) \/ HolderReturns(heap, READ_ERROR)
      PROVE  Fresh(heap') /\ TodoThere
  BY <1>1, <1>5, HeapParts, DataFailsFresh, HolderLeavesFresh
<1>6. Fresh(heap') /\ TodoThere
  BY <1>2, <1>3, <1>4, <1>5 DEF h
<1> QED
  BY <1>1, <1>6, HeapParts, HeapRests

\* The length of the second code.
LEMMA ScleraLengthKeepsHeap == ASSUME HeapInv, ReadScleraLength PROVE HeapInv'
<1>1. UNCHANGED <<format, declared, part, image>> /\ todo > 0
  BY DEF ReadScleraLength, Frame, HeapInv, LocalsInv
<1>2. Fresh(heap) /\ Fresh(Filled(heap, image, 2))
  BY HeapParts, FreshStays
<1>3. ASSUME pc' = "sclera", heap' = Filled(heap, image, 2), UNCHANGED todo
      PROVE  Fresh(heap') /\ TodoThere
  BY <1>1, <1>2, <1>3, HeapParts DEF TodoThere
<1>4. Fresh(heap') /\ TodoThere
  BY <1>1, <1>2, <1>3, HeapParts, AfterCodesFresh, HolderLeavesFresh DEF ReadScleraLength
<1> QED
  BY <1>1, <1>4, HeapParts, HeapRests

\* The memory of the readers holds blocks none of which was freed.
LEMMA ReaderKeepsHeap == ASSUME ReaderInv, HeapInv, ReadNext PROVE HeapInv'
BY HeaderKeepsHeap, StartKeepsHeap, PartHeaderKeepsHeap, PointKeepsHeap, TailKeepsHeap,
   DataKeepsHeap, ImageKeepsHeap, CodeKeepsHeap, ScleraLengthKeepsHeap
DEF ReadNext

-----------------------------------------------------------------------------
(***************************************************************************)
(* What hangs on the record.  The blocks form a tree: parts are owned by   *)
(* the record, points and images by a part, data and codes by a part or an *)
(* image.  Only the part and the image in hand are owned by nothing yet,   *)
(* and what has been read is as long as the cursor went.                   *)
(***************************************************************************)
\* The bytes of the wire that memory holds.
SizesOf(h) == SumFunction([b \in DOMAIN h |-> h[b].size])

\* Which kind of block points to which.
MayOwn(a, b) ==
  \/ a = "record" /\ b = "part"
  \/ a = "part" /\ b \in {"point", "image"}
  \/ a \in {"part", "image"} /\ b \in {"data"} \cup CodeKinds

\* Blocks with owners that fit, but for those that may be loose.
Tree(h, loose) ==
  /\ h \in Seq(Blocks) /\ h # <<>> /\ h[RECORD].kind = "record"
  /\ \A i \in DOMAIN h \ {RECORD} :
       /\ h[i].kind # "record"
       /\ \A o \in h[i].owners : o \in DOMAIN h /\ MayOwn(h[o].kind, h[i].kind)
       /\ h[i].owners = {} => i \in loose

\* The parts on the list of the record.
Listed(h) == Below(h, {RECORD})

InHand(h, i, kind) == i \in DOMAIN h \ {RECORD} /\ h[i].kind = kind /\ h[i].owners = {}

ImageInHand ==
  pc \in {"pupil", "sclera_length", "sclera"} \/ (pc = "data" /\ format = "IIR_2005")

\* A read that failed may have left a point or an image behind, in the last block.
Loose ==
  IF pc = "done" /\ ret # READ_OK
    THEN {part, image, Len(heap)}
    ELSE (IF pc \in InPart THEN {part} ELSE {}) \cup (IF ImageInHand THEN {image} ELSE {})

TreeInv ==
  /\ Tree(heap, Loose)
  /\ Cardinality(Listed(heap)) = parts
  /\ pc \in InPart => InHand(heap, part, "part")
  /\ ImageInHand => InHand(heap, image, "image")
  /\ ImageInHand \/ pc = "image" => format = "IIR_2005"
  /\ pc # "done" \/ ret = READ_OK => current = start + SizesOf(heap)

\* The blocks of memory, one by one.
LEMMA TreeBlocks ==
  ASSUME NEW h, h \in Seq(Blocks), h # <<>>
  PROVE  /\ Len(h) \in Nat /\ DOMAIN h = 1 .. Len(h) /\ RECORD \in DOMAIN h
         /\ \A i \in DOMAIN h :
              /\ h[i] \in Blocks /\ h[i].size \in Nat /\ h[i].size \in Int
              /\ h[i].owners \subseteq Nat
<1>1. Len(h) \in Nat /\ DOMAIN h = 1 .. Len(h) /\ RECORD \in DOMAIN h
  BY DEF RECORD
<1>2. \A i \in DOMAIN h : h[i] \in Blocks
  BY <1>1
<1>3. \A b \in Blocks : b.size \in Nat /\ b.size \in Int /\ b.owners \subseteq Nat
  BY DEF Blocks
<1> QED BY <1>1, <1>2, <1>3

\* A part is listed when the record owns it.
LEMMA ListedOwned ==
  ASSUME NEW h
  PROVE  Listed(h) = {i \in DOMAIN h : RECORD \in h[i].owners}
BY DEF Listed, Below

\* There are only so many blocks.
LEMMA ListedFinite ==
  ASSUME NEW h, h \in Seq(Blocks), h # <<>>
  PROVE  IsFiniteSet(Listed(h))
<1>1. Listed(h) \subseteq 1 .. Len(h) /\ Len(h) \in Nat
  BY TreeBlocks, ListedOwned
<1>2. IsFiniteSet(1 .. Len(h))
  BY <1>1, FS_Interval
<1> QED BY <1>1, <1>2, FS_Subset

\* Owners and kinds are all that the tree is made of.
LEMMA TreeSame ==
  ASSUME NEW h, NEW loose, Tree(h, loose), NEW g, g \in Seq(Blocks), DOMAIN g = DOMAIN h,
         \A i \in DOMAIN h : g[i].kind = h[i].kind /\ g[i].owners = h[i].owners
  PROVE  Tree(g, loose) /\ Listed(g) = Listed(h)
<1>1. RECORD \in DOMAIN h /\ g # <<>>
  <2>1. h \in Seq(Blocks) /\ h # <<>>
    BY DEF Tree
  <2>2. RECORD \in DOMAIN h
    BY <2>1, TreeBlocks
  <2>3. g # <<>>
    BY <2>2
  <2> QED BY <2>2, <2>3
<1>2. Tree(g, loose)
  BY <1>1 DEF Tree
<1> QED BY <1>2, ListedOwned

\* Sums of sizes that are the same.
LEMMA SizesSame ==
  ASSUME NEW h, h \in Seq(Blocks), h # <<>>, NEW g, DOMAIN g = DOMAIN h,
         \A i \in DOMAIN h : g[i].size = h[i].size
  PROVE  SizesOf(g) = SizesOf(h)
<1> DEFINE w == [b \in DOMAIN h |-> h[b].size]
           v == [b \in DOMAIN g |-> g[b].size]
           n == Len(h)
<1>1. /\ n \in Nat /\ DOMAIN w = 1 .. n /\ DOMAIN v = 1 .. n
      /\ \A k \in 1 .. n : w[k] \in Int /\ v[k] = w[k]
  BY TreeBlocks
<1>2. SizesOf(h) = SumFunction(w) /\ SizesOf(g) = SumFunction(v)
  BY DEF SizesOf
<1> HIDE DEF w, v, n
<1>3. Weights(w, n)
  BY <1>1 DEF Weights
<1> QED BY <1>1, <1>2, <1>3, SumAgrees

\* A sum of sizes is a number.
LEMMA SizesAreNat ==
  ASSUME NEW h, h \in Seq(Blocks), h # <<>>
  PROVE  SizesOf(h) \in Nat
<1> DEFINE w == [b \in DOMAIN h |-> h[b].size]
           n == Len(h)
<1>1. n \in Nat /\ DOMAIN w = 1 .. n /\ \A k \in 1 .. n : w[k] \in Nat
  BY TreeBlocks
<1>2. SizesOf(h) = SumFunction(w)
  BY DEF SizesOf
<1> HIDE DEF w, n
<1> QED BY <1>1, <1>2, SumType

\* Owners of a new block of this kind.
OwnersFit(h, owners, kind) ==
  \A o \in owners : o \in DOMAIN h /\ o # RECORD /\ MayOwn(h[o].kind, kind)

\* Memory g is h and one block more, that holds n bytes.
Grown(h, g, kind, owners, n) ==
  /\ Listed(g) = Listed(h) /\ SizesOf(g) = SizesOf(h) + n
  /\ Len(g) = Len(h) + 1 /\ Len(g) \in DOMAIN g \ {RECORD}
  /\ g[Len(g)].kind = kind /\ g[Len(g)].owners = owners
  /\ \A i \in DOMAIN h : i \in DOMAIN g /\ g[i] = h[i]

\* Memory g is h with block x put on the list of its owner.
Given(h, g, x, owner) ==
  /\ Listed(g) = (IF owner = RECORD THEN Listed(h) \cup {x} ELSE Listed(h))
  /\ SizesOf(g) = SizesOf(h)
  /\ DOMAIN g = DOMAIN h /\ Len(g) = Len(h)
  /\ \A i \in DOMAIN h : g[i].kind = h[i].kind /\ (i # x => g[i].owners = h[i].owners)

\* A block is added.
LEMMA TreeAppend ==
  ASSUME NEW h, NEW loose, Tree(h, loose), NEW kind \in Kinds, kind # "record",
         NEW owners, OwnersFit(h, owners, kind), NEW n \in Nat,
         NEW g, g = Append(h, Block(kind, owners, n))
  PROVE  /\ Tree(g, loose \cup {Len(g)}) /\ (owners # {} => Tree(g, loose))
         /\ Grown(h, g, kind, owners, n)
<1> DEFINE b == Block(kind, owners, n)
           l == Len(h)
<1>1. h \in Seq(Blocks) /\ h # <<>>
  BY DEF Tree
<1>2. /\ l \in Nat /\ DOMAIN h = 1 .. l /\ RECORD \in DOMAIN h
      /\ \A i \in DOMAIN h : h[i].size \in Nat
  BY <1>1, TreeBlocks
<1>3. b \in Blocks /\ b.kind = kind /\ b.owners = owners /\ b.size = n
  <2>1. owners \in SUBSET Nat
    BY <1>2 DEF OwnersFit
  <2>2. b \in Blocks
    BY <2>1, NewBlock
  <2> QED BY <2>2 DEF Block
<1> HIDE DEF b
<1>4. /\ g \in Seq(Blocks) /\ Len(g) = l + 1 /\ DOMAIN g = 1 .. l + 1 /\ g[l + 1] = b
      /\ \A i \in 1 .. l : g[i] = h[i]
  BY <1>1, <1>2, <1>3 DEF b
<1> HIDE DEF l
<1>5. RECORD # l + 1 /\ l + 1 \in DOMAIN g /\ \A i \in 1 .. l : i # l + 1 /\ i \in 1 .. l + 1
  BY <1>2, <1>4 DEF RECORD
<1>6. \A i \in DOMAIN g : i = l + 1 \/ i \in 1 .. l
  BY <1>2, <1>4
<1>7. SizesOf(g) = SizesOf(h) + n
  <2> DEFINE w == [x \in DOMAIN h |-> h[x].size]
             v == [x \in DOMAIN g |-> g[x].size]
  <2>1. /\ DOMAIN w = 1 .. l /\ DOMAIN v = 1 .. l + 1 /\ v[l + 1] = n
        /\ \A k \in 1 .. l : v[k] = w[k] /\ w[k] \in Nat
    BY <1>2, <1>3, <1>4, <1>5
  <2>2. SizesOf(h) = SumFunction(w) /\ SizesOf(g) = SumFunction(v)
    BY DEF SizesOf
  <2> HIDE DEF w, v
  <2>3. \A k \in 1 .. l + 1 : v[k] \in Int
    <3>1. \A k \in 1 .. l + 1 : k = l + 1 \/ k \in 1 .. l
      BY <1>2
    <3> QED BY <2>1, <3>1
  <2>4. Weights(v, l + 1)
    BY <2>3 DEF Weights
  <2> QED BY <1>2, <2>1, <2>2, <2>4, SumGrows
<1>8. Listed(g) = Listed(h)
  BY <1>2, <1>3, <1>4, <1>5, <1>6, ListedOwned DEF OwnersFit
<1>9. Tree(g, loose \cup {Len(g)}) /\ (owners # {} => Tree(g, loose))
  <2>1. g # <<>> /\ g[RECORD].kind = "record"
    BY <1>1, <1>2, <1>4 DEF Tree
  <2>2. ASSUME NEW i \in DOMAIN g \ {RECORD}
        PROVE  /\ g[i].kind # "record"
               /\ \A o \in g[i].owners : o \in DOMAIN g /\ MayOwn(g[o].kind, g[i].kind)
               /\ g[i].owners = {} => i \in loose \/ (i = Len(g) /\ owners = {})
    <3>1. CASE i = l + 1
      BY <1>2, <1>3, <1>4, <1>5, <3>1 DEF OwnersFit
    <3>2. CASE i \in 1 .. l
      BY <1>2, <1>4, <1>5, <3>2 DEF Tree
    <3> QED BY <1>6, <3>1, <3>2
  <2> QED BY <1>4, <2>1, <2>2 DEF Tree
<1> QED BY <1>2, <1>3, <1>4, <1>5, <1>7, <1>8, <1>9 DEF l, Grown

\* A block takes in more of the wire.
LEMMA TreeFilled ==
  ASSUME NEW h, NEW loose, Tree(h, loose), NEW x \in DOMAIN h, NEW n \in Nat,
         NEW g, g = Filled(h, x, n)
  PROVE  /\ Tree(g, loose) /\ Listed(g) = Listed(h) /\ SizesOf(g) = SizesOf(h) + n
         /\ DOMAIN g = DOMAIN h /\ Len(g) = Len(h)
         /\ \A i \in DOMAIN h : g[i].kind = h[i].kind /\ g[i].owners = h[i].owners
<1> DEFINE b == [h[x] EXCEPT !.size = @ + n]
           l == Len(h)
<1>1. h \in Seq(Blocks) /\ h # <<>>
  BY DEF Tree
<1>2. /\ l \in Nat /\ DOMAIN h = 1 .. l /\ RECORD \in DOMAIN h
      /\ \A i \in DOMAIN h : h[i] \in Blocks /\ h[i].size \in Nat
  BY <1>1, TreeBlocks
<1>3. b \in Blocks /\ b.kind = h[x].kind /\ b.owners = h[x].owners /\ b.size = h[x].size + n
  <2>1. h[x] \in Blocks /\ 0 \in Nat
    BY <1>2
  <2>2. b \in Blocks /\ b.kind = h[x].kind
    BY <2>1, ChangedBlock
  <2>3. b.owners = h[x].owners /\ b.size = h[x].size + n
    BY <2>1 DEF Blocks
  <2> QED BY <2>2, <2>3
<1>4. g = [h EXCEPT ![x] = b]
  BY DEF Filled
<1> HIDE DEF b
<1>5. /\ g \in Seq(Blocks) /\ DOMAIN g = 1 .. l /\ Len(g) = l
      /\ \A i \in 1 .. l : g[i] = IF i = x THEN b ELSE h[i]
  <2>1. g \in Seq(Blocks)
    BY <1>1, <1>2, <1>3, <1>4, ExceptSeq
  <2> QED BY <1>2, <1>4, <2>1
<1> HIDE DEF l
<1>6. \A i \in DOMAIN h : g[i].kind = h[i].kind /\ g[i].owners = h[i].owners
  BY <1>2, <1>3, <1>5
<1>7. SizesOf(g) = SizesOf(h) + n
  <2> DEFINE w == [i \in DOMAIN h |-> h[i].size]
             v == [i \in DOMAIN g |-> g[i].size]
  <2>1. /\ DOMAIN w = 1 .. l /\ DOMAIN v = 1 .. l /\ v[x] = w[x] + n /\ w[x] \in Nat
        /\ \A k \in 1 .. l : w[k] \in Nat /\ (k # x => v[k] = w[k])
    BY <1>2, <1>3, <1>5
  <2>2. SizesOf(h) = SumFunction(w) /\ SizesOf(g) = SumFunction(v)
    BY DEF SizesOf
  <2>3. SizesOf(h) \in Nat
    BY <1>1, SizesAreNat
  <2> HIDE DEF w, v
  <2>4. \A k \in 1 .. l : v[k] \in Int /\ w[k] \in Int
    <3>1. v[x] \in Int
      BY <2>1
    <3> QED BY <2>1, <3>1
  <2>5. Weights(v, l) /\ Weights(w, l)
    BY <2>4 DEF Weights
  <2>6. /\ l \in Nat /\ x \in 1 .. l /\ DOMAIN w = 1 .. l /\ DOMAIN v = 1 .. l
        /\ \A k \in 1 .. l : k # x => v[k] = w[k]
    BY <1>2, <2>1
  <2>7. SumFunction(v) = SumFunction(w) + v[x] - w[x]
    BY ONLY <2>5, <2>6, SumChanges
  <2> QED BY <2>1, <2>2, <2>3, <2>7
<1> QED BY <1>2, <1>5, <1>6, <1>7, TreeSame DEF l

\* A block is put on the list of another.
LEMMA TreeGive ==
  ASSUME NEW h, NEW loose, Tree(h, loose), NEW x \in DOMAIN h \ {RECORD},
         NEW owner \in DOMAIN h, MayOwn(h[owner].kind, h[x].kind),
         NEW g, g = Give(h, x, owner)
  PROVE  Tree(g, loose \ {x}) /\ Given(h, g, x, owner)
<1> DEFINE b == [h[x] EXCEPT !.owners = @ \cup {owner}]
           l == Len(h)
<1>1. h \in Seq(Blocks) /\ h # <<>>
  BY DEF Tree
<1>2. /\ l \in Nat /\ DOMAIN h = 1 .. l /\ RECORD \in DOMAIN h
      /\ \A i \in DOMAIN h : h[i] \in Blocks
  BY <1>1, TreeBlocks
<1>3. /\ b \in Blocks /\ b.kind = h[x].kind /\ b.owners = h[x].owners \cup {owner}
      /\ b.size = h[x].size
  <2>1. h[x] \in Blocks /\ owner \in Nat
    BY <1>2
  <2>2. b \in Blocks /\ b.kind = h[x].kind
    BY <2>1, ChangedBlock
  <2>3. b.owners = h[x].owners \cup {owner} /\ b.size = h[x].size
    BY <2>1 DEF Blocks
  <2> QED BY <2>2, <2>3
<1>4. g = [h EXCEPT ![x] = b]
  BY DEF Give
<1> HIDE DEF b
<1>5. /\ g \in Seq(Blocks) /\ DOMAIN g = 1 .. l /\ Len(g) = l
      /\ \A i \in 1 .. l : g[i] = IF i = x THEN b ELSE h[i]
  <2>1. g \in Seq(Blocks)
    BY <1>1, <1>2, <1>3, <1>4, ExceptSeq
  <2> QED BY <1>2, <1>4, <2>1
<1> HIDE DEF l
<1>6. \A i \in DOMAIN h : /\ g[i].kind = h[i].kind /\ g[i].size = h[i].size
                          /\ g[i].owners = IF i = x THEN h[i].owners \cup {owner}
                                                    ELSE h[i].owners
  BY <1>2, <1>3, <1>5
<1>7. SizesOf(g) = SizesOf(h)
  BY <1>1, <1>2, <1>5, <1>6, SizesSame
<1>8. Listed(g) = IF owner = RECORD THEN Listed(h) \cup {x} ELSE Listed(h)
  <2>1. DOMAIN g = DOMAIN h
    BY <1>2, <1>5
  <2>2. \A i \in DOMAIN h :
          RECORD \in g[i].owners <=> RECORD \in h[i].owners \/ (i = x /\ owner = RECORD)
    BY <1>6
  <2>3. /\ Listed(g) = {i \in DOMAIN h : RECORD \in g[i].owners}
        /\ Listed(h) = {i \in DOMAIN h : RECORD \in h[i].owners}
    BY <2>1, ListedOwned
  <2>4. x \in DOMAIN h
    OBVIOUS
  <2>5. CASE owner = RECORD
    BY ONLY <2>2, <2>3, <2>4, <2>5
  <2>6. CASE owner # RECORD
    BY ONLY <2>2, <2>3, <2>6
  <2> QED BY <2>5, <2>6
<1>9. Tree(g, loose \ {x})
  <2>1. g # <<>> /\ g[RECORD].kind = "record"
    BY <1>2, <1>5, <1>6 DEF Tree
  <2>2. ASSUME NEW i \in DOMAIN g \ {RECORD}
        PROVE  /\ g[i].kind # "record"
               /\ \A o \in g[i].owners : o \in DOMAIN g /\ MayOwn(g[o].kind, g[i].kind)
               /\ g[i].owners = {} => i \in loose \ {x}
    <3>1. /\ DOMAIN g = DOMAIN h /\ i \in DOMAIN h \ {RECORD}
          /\ h[i].kind # "record" /\ (h[i].owners = {} => i \in loose)
          /\ \A o \in h[i].owners : o \in DOMAIN h /\ MayOwn(h[o].kind, h[i].kind)
      BY <1>2, <1>5 DEF Tree
    <3>2. \A o \in g[i].owners : o \in DOMAIN h /\ MayOwn(h[o].kind, h[i].kind)
      <4>1. g[i].owners \subseteq h[i].owners \cup {owner}
        BY <1>6, <3>1
      <4>2. owner \in g[i].owners => owner \in h[i].owners \/ i = x
        BY <1>6, <3>1
      <4> QED BY ONLY <3>1, <4>1, <4>2, owner \in DOMAIN h, MayOwn(h[owner].kind, h[x].kind)
    <3>3. g[i].owners = {} => h[i].owners = {} /\ i # x
      BY <1>6, <3>1
    <3> QED BY <1>6, <3>1, <3>2, <3>3
  <2> QED BY <1>5, <2>1, <2>2 DEF Tree
<1> QED BY <1>2, <1>5, <1>6, <1>7, <1>8, <1>9 DEF l, Given

\* More may be loose.
LEMMA TreeLoosens ==
  ASSUME NEW h, NEW a, Tree(h, a), NEW b, a \subseteq b
  PROVE  Tree(h, b)
BY DEF Tree

\* A tree with nothing loose is all reached from its record.
LEMMA TreeIsReached ==
  ASSUME NEW h, Tree(h, {})
  PROVE  Reached(h, RECORD) = DOMAIN h
<1> DEFINE one   == Below(h, {RECORD})
           two   == Below(h, one)
           three == Below(h, two)
<1>1. Reached(h, RECORD) = {RECORD} \cup one \cup two \cup three
  BY DEF Reached
<1>2. \A set, i : i \in Below(h, set) <=> i \in DOMAIN h /\ \E o \in h[i].owners : o \in set
  BY DEF Below
<1>3. /\ RECORD \in DOMAIN h
      /\ \A i \in DOMAIN h \ {RECORD} :
           /\ h[i].kind # "record"
           /\ \E o \in h[i].owners : o \in DOMAIN h /\ MayOwn(h[o].kind, h[i].kind)
  <2>1. h \in Seq(Blocks) /\ h # <<>>
    BY DEF Tree
  <2> QED BY <2>1, TreeBlocks DEF Tree
<1> HIDE DEF one, two, three
<1>4. ASSUME NEW i \in DOMAIN h \ {RECORD}, h[i].kind = "part" PROVE i \in one
  <2>1. RECORD \in h[i].owners
    BY <1>3, <1>4 DEF MayOwn, CodeKinds
  <2> QED BY <1>2, <2>1 DEF one
<1>5. ASSUME NEW i \in DOMAIN h \ {RECORD}, h[i].kind \in {"point", "image"} PROVE i \in two
  <2>1. PICK o \in h[i].owners : o \in DOMAIN h /\ MayOwn(h[o].kind, h[i].kind)
    BY <1>3
  <2>2. h[o].kind = "part" /\ o # RECORD
    BY <1>5, <2>1 DEF MayOwn, CodeKinds, Tree
  <2> QED BY <1>2, <1>4, <2>1, <2>2 DEF two
<1>6. ASSUME NEW i \in DOMAIN h \ {RECORD}, h[i].kind \notin {"part", "point", "image"}
      PROVE  i \in two \cup three
  <2>1. PICK o \in h[i].owners : o \in DOMAIN h /\ MayOwn(h[o].kind, h[i].kind)
    BY <1>3
  <2>2. h[o].kind \in {"part", "image"} /\ o # RECORD
    BY <1>6, <2>1 DEF MayOwn, CodeKinds, Tree
  <2>3. o \in one \cup two
    BY <1>4, <1>5, <2>1, <2>2
  <2> QED BY <1>2, <2>3 DEF two, three
<1>7. one \cup two \cup three \subseteq DOMAIN h
  BY <1>2 DEF one, two, three
<1> QED BY <1>1, <1>3, <1>4, <1>5, <1>6, <1>7

-----------------------------------------------------------------------------
\* The part in hand, with memory h.
InPartWith(h, loose) ==
  Tree(h, loose) /\ Cardinality(Listed(h)) = parts /\ InHand(h, part, "part")

\* The part is listed, and what it owns is reached from now on.
LEMMA PartDone ==
  ASSUME parts \in Nat, NEW h, InPartWith(h, {part}), PartReturns(h, READ_OK),
         current' = start' + SizesOf(h)
  PROVE  TreeInv'
<1>1. Tree(h, {part}) /\ Cardinality(Listed(h)) = parts /\ h \in Seq(Blocks) /\ h # <<>>
  BY DEF InPartWith, Tree
<1>2. /\ part \in DOMAIN h \ {RECORD} /\ RECORD \in DOMAIN h
      /\ h[part].owners = {} /\ MayOwn(h[RECORD].kind, h[part].kind)
  <2>1. h[RECORD].kind = "record" /\ RECORD \in DOMAIN h
    BY <1>1, TreeBlocks DEF Tree
  <2> QED BY <2>1 DEF InPartWith, InHand, MayOwn
<1>3. heap' = Give(h, part, RECORD) /\ parts' = parts + 1 /\ PartLoop(parts + 1, declared)
  BY DEF PartReturns
<1>4. /\ Tree(heap', {part} \ {part}) /\ SizesOf(heap') = SizesOf(h)
      /\ Listed(heap') = Listed(h) \cup {part}
  <2> DEFINE loose == {part}
             g     == Give(h, part, RECORD)
  <2>1. Tree(h, loose) /\ g = Give(h, part, RECORD)
    BY <1>1
  <2> HIDE DEF loose, g
  <2>2. /\ Tree(g, loose \ {part}) /\ SizesOf(g) = SizesOf(h)
        /\ Listed(g) = Listed(h) \cup {part}
    <3>1. Tree(g, loose \ {part}) /\ Given(h, g, part, RECORD)
      BY ONLY <1>2, <2>1, TreeGive
    <3> QED BY <3>1 DEF Given
  <2> QED BY <1>3, <2>2 DEF loose, g
<1>5. Cardinality(Listed(heap')) = parts'
  <2>1. part \notin Listed(h)
    BY <1>2, ListedOwned
  <2>2. IsFiniteSet(Listed(h))
    BY <1>1, ListedFinite
  <2>3. Cardinality(Listed(h) \cup {part}) = Cardinality(Listed(h)) + 1
    BY <2>1, <2>2, FS_AddElement
  <2> QED BY <1>1, <1>3, <1>4, <2>3
<1>6. pc' \in {"new_part", "done"} /\ (pc' = "done" => ret' = READ_OK)
  BY <1>3 DEF PartLoop, RecordReturns
<1>7. ~ ImageInHand' /\ pc' \notin InPart /\ pc' # "image" /\ Loose' = {}
  BY <1>6 DEF ImageInHand, InPart, Pcs, Loose
<1>8. {part} \ {part} = {}
  OBVIOUS
<1> QED BY <1>4, <1>5, <1>7, <1>8 DEF TreeInv

\* The part is lost, and with it at most what is in hand.
LEMMA PartGivenUp ==
  ASSUME NEW h, Tree(h, {part', image', Len(h)}), Cardinality(Listed(h)) = parts,
         NEW code, code # READ_OK, PartReturns(h, code)
  PROVE  TreeInv'
<1>1. heap' = h /\ parts' = parts /\ pc' = "done" /\ ret' = code
  BY DEF PartReturns, RecordReturns
<1>2. /\ ~ ImageInHand' /\ pc' \notin InPart /\ pc' # "image"
      /\ Loose' = {part', image', Len(heap')}
  BY <1>1 DEF ImageInHand, InPart, Pcs, Loose
<1> QED BY <1>1, <1>2 DEF TreeInv

\* The next read of the part, with no image in hand.
LEMMA PartStays ==
  ASSUME NEW h, InPartWith(h, {part'}), heap' = h, UNCHANGED <<part, parts>>,
         pc' \in InPart, ~ ImageInHand', pc' = "image" => format' = "IIR_2005",
         current' = start' + SizesOf(h)
  PROVE  TreeInv'
<1>1. pc' # "done"
  BY DEF InPart
<1>2. Loose' = {part'}
  BY <1>1 DEF Loose
<1> QED BY <1>1, <1>2 DEF TreeInv, InPartWith

\* The next read of the image in hand.
LEMMA ImageStays ==
  ASSUME NEW h, InPartWith(h, {part', image'}), InHand(h, image', "image"), heap' = h,
         UNCHANGED <<part, parts>>, pc' \in InPart, ImageInHand', format' = "IIR_2005",
         current' = start' + SizesOf(h)
  PROVE  TreeInv'
<1>1. pc' # "done"
  BY DEF InPart
<1>2. Loose' = {part', image'}
  BY <1>1 DEF Loose
<1> QED BY <1>1, <1>2 DEF TreeInv, InPartWith

\* The image is put on the list of its part, which may be done with it.
LEMMA ImageDone ==
  ASSUME parts \in Nat, NEW h, InPartWith(h, {part, image}), InHand(h, image, "image"),
         UNCHANGED part, ImageReturns(h, READ_OK), current' = start' + SizesOf(h),
         format' = "IIR_2005"
  PROVE  TreeInv'
<1> DEFINE g     == Give(h, image, part)
           loose == {part, image}
<1>1. /\ Tree(h, loose) /\ g = Give(h, image, part) /\ image \in DOMAIN h \ {RECORD}
      /\ part \in DOMAIN h \ {RECORD} /\ part \in DOMAIN h
      /\ MayOwn(h[part].kind, h[image].kind) /\ image # part /\ part # RECORD
  BY DEF InPartWith, InHand, MayOwn
<1> HIDE DEF g, loose
<1>2. Tree(g, loose \ {image}) /\ Given(h, g, image, part)
  BY ONLY <1>1, TreeGive
<1>3. loose \ {image} = {part}
  BY <1>1 DEF loose
<1>4. InPartWith(g, {part})
  BY <1>1, <1>2, <1>3 DEF InPartWith, InHand, Given
<1>5. CASE todo > 1
  <2>1. heap' = g /\ pc' = "image" /\ parts' = parts
    BY <1>5 DEF ImageReturns, g
  <2>2. pc' \in InPart /\ ~ ImageInHand'
    BY <2>1 DEF InPart, Pcs, ImageInHand
  <2> QED BY <1>2, <1>4, <2>1, <2>2, PartStays DEF Given
<1>6. CASE ~ (todo > 1)
  <2>1. PartReturns(g, READ_OK)
    BY <1>6 DEF ImageReturns, g
  <2> QED BY <1>2, <1>4, <2>1, PartDone DEF Given
<1> QED BY <1>5, <1>6

\* What holds data or a code is in hand, and its part with it.
HolderWith(h) ==
  IF format = "IIR_2005" THEN InPartWith(h, {part, image}) /\ InHand(h, image, "image")
                         ELSE InPartWith(h, {part})

\* What holds the data is done with it.
LEMMA HolderDone ==
  ASSUME parts \in Nat, NEW h, HolderWith(h), UNCHANGED part,
         HolderReturns(h, READ_OK), current' = start' + SizesOf(h), UNCHANGED format
  PROVE  TreeInv'
BY PartDone, ImageDone DEF HolderWith, HolderReturns

\* What holds the data is lost.
LEMMA HolderGivenUp ==
  ASSUME NEW h, HolderWith(h), UNCHANGED <<part, image>>,
         NEW code, code # READ_OK, HolderReturns(h, code)
  PROVE  TreeInv'
<1>1. PICK failure : failure # READ_OK /\ PartReturns(h, failure)
  BY DEF HolderReturns, ImageReturns, READ_OK, READ_ERROR
<1>2. PICK loose \in {{part, image}, {part}} : InPartWith(h, loose)
  BY DEF HolderWith
<1>3. loose \subseteq {part', image', Len(h)}
  BY <1>2
<1>4. Tree(h, {part', image', Len(h)}) /\ Cardinality(Listed(h)) = parts
  BY <1>2, <1>3, TreeLoosens DEF InPartWith
<1> QED BY <1>1, <1>4, PartGivenUp

\* Data or a code is attached to what holds it.
LEMMA HolderTakes ==
  ASSUME NEW h, HolderWith(h), NEW kind \in {"data"} \cup CodeKinds, NEW n \in Nat,
         NEW g, g = Append(h, Block(kind, {Holder}, n))
  PROVE  HolderWith(g) /\ SizesOf(g) = SizesOf(h) + n
<1>1. PICK loose \in {{part, image}, {part}} :
        /\ InPartWith(h, loose) /\ (format = "IIR_2005" => loose = {part, image})
        /\ (format # "IIR_2005" => loose = {part})
  BY DEF HolderWith
<1>2. /\ Holder \in DOMAIN h /\ RECORD \notin {Holder} /\ MayOwn(h[Holder].kind, kind)
  BY DEF HolderWith, InPartWith, InHand, MayOwn, Holder
<1>3. kind \in Kinds /\ kind # "record"
  BY DEF Kinds, CodeKinds
<1>4. Tree(g, loose) /\ Grown(h, g, kind, {Holder}, n)
  <2> DEFINE owners == {Holder}
  <2>1. /\ owners # {} /\ OwnersFit(h, owners, kind)
        /\ g = Append(h, Block(kind, owners, n)) /\ Tree(h, loose) /\ n \in Nat
    BY <1>1, <1>2 DEF InPartWith, OwnersFit
  <2> HIDE DEF owners
  <2>2. Tree(g, loose) /\ Grown(h, g, kind, owners, n)
    BY ONLY <1>3, <2>1, TreeAppend
  <2> QED BY <2>2 DEF owners
<1>5. InPartWith(g, loose) /\ (format = "IIR_2005" => InHand(g, image, "image"))
  BY <1>1, <1>4 DEF InPartWith, InHand, HolderWith, Grown
<1> QED BY <1>1, <1>4, <1>5 DEF HolderWith, Grown

\* Nothing is in hand.
LEMMA PartsStay ==
  ASSUME NEW h, Tree(h, {}), Cardinality(Listed(h)) = parts', heap' = h,
         pc' \in {"new_part", "done"},
         pc' # "done" \/ ret' = READ_OK => current' = start' + SizesOf(h)
  PROVE  TreeInv'
<1>1. pc' \notin InPart /\ ~ ImageInHand' /\ pc' # "image"
  BY DEF InPart, ImageInHand
<1>2. Tree(h, Loose')
  <2>1. {} \subseteq Loose'
    OBVIOUS
  <2> QED BY <2>1, TreeLoosens
<1> QED BY <1>1, <1>2 DEF TreeInv

\* What every step knows of the part in hand.
LEMMA PartAtHand ==
  ASSUME ReaderInv, TreeInv, pc \in InPart
  PROVE  /\ parts \in Nat /\ current = start + SizesOf(heap) /\ SizesOf(heap) \in Nat
         /\ start \in Nat /\ heap \in Seq(Blocks) /\ part \in DOMAIN heap
         /\ ~ ImageInHand => InPartWith(heap, {part})
         /\ ImageInHand => InPartWith(heap, {part, image}) /\ InHand(heap, image, "image")
<1>1. parts \in Nat /\ start \in Nat /\ pc # "done"
  BY DEF ReaderInv, CountInv, CursorInv, InPart
<1>2. heap \in Seq(Blocks) /\ heap # <<>>
  BY DEF TreeInv, Tree
<1>3. /\ ~ ImageInHand => InPartWith(heap, {part})
      /\ ImageInHand => InPartWith(heap, {part, image}) /\ InHand(heap, image, "image")
  <2>1. Loose = {part} \cup (IF ImageInHand THEN {image} ELSE {})
    BY <1>1 DEF Loose
  <2> QED BY <2>1 DEF TreeInv, InPartWith
<1>4. current = start + SizesOf(heap) /\ part \in DOMAIN heap
  BY <1>1 DEF TreeInv, InHand
<1> QED BY <1>1, <1>2, <1>3, <1>4, SizesAreNat

\* What is in hand when a read fails.
LEMMA TreeWhenFailing ==
  ASSUME ReaderInv, TreeInv, pc \in InPart, UNCHANGED <<part, image>>
  PROVE  Tree(heap, {part', image', Len(heap)}) /\ Cardinality(Listed(heap)) = parts
<1>1. PICK loose \in {{part}, {part, image}} : InPartWith(heap, loose)
  BY PartAtHand
<1>2. loose \subseteq {part', image', Len(heap)}
  BY <1>1
<1> QED BY <1>1, <1>2, TreeLoosens DEF InPartWith

\* A point or an image that could not be read is lost with the part.
LEMMA TreeWhenLost ==
  ASSUME ReaderInv, TreeInv, pc \in InPart, UNCHANGED <<part, image>>,
         NEW kind \in Kinds, kind # "record",
         NEW h, h = Append(heap, Block(kind, {}, 0))
  PROVE  Tree(h, {part', image', Len(h)}) /\ Cardinality(Listed(h)) = parts
<1>1. PICK loose \in {{part}, {part, image}} : InPartWith(heap, loose)
  BY PartAtHand
<1>2. Tree(h, loose \cup {Len(h)}) /\ Grown(heap, h, kind, {}, 0)
  <2> DEFINE owners == {}
  <2>1. /\ OwnersFit(heap, owners, kind) /\ 0 \in Nat /\ Tree(heap, loose)
        /\ h = Append(heap, Block(kind, owners, 0))
    BY <1>1 DEF OwnersFit, InPartWith
  <2> HIDE DEF owners
  <2>2. Tree(h, loose \cup {Len(h)}) /\ Grown(heap, h, kind, owners, 0)
    BY <2>1, TreeAppend
  <2> QED BY <2>2 DEF owners
<1>3. loose \cup {Len(h)} \subseteq {part', image', Len(h)}
  BY <1>1
<1> QED BY <1>1, <1>2, <1>3, TreeLoosens DEF InPartWith, Grown

-----------------------------------------------------------------------------
\* The header of the record.
LEMMA HeaderKeepsTree == ASSUME ReaderInv, TreeInv, ReadHeader PROVE TreeInv'
<1>1. /\ format \in ImageFormats /\ HeaderLength[format] \in Nat /\ pc = "header"
      /\ parts' = parts /\ start' = start /\ start \in Nat
  BY Sizes DEF ReaderInv, CursorInv, ReadHeader, Frame
<1>2. ~ ImageInHand /\ Loose = {} /\ pc # "done"
  BY <1>1 DEF ImageInHand, Loose, InPart
<1>3. Tree(heap, {}) /\ Cardinality(Listed(heap)) = parts /\ current = start + SizesOf(heap)
  BY <1>2 DEF TreeInv
<1>4. RECORD \in DOMAIN heap /\ SizesOf(heap) \in Nat
  <2>1. heap \in Seq(Blocks) /\ heap # <<>>
    BY <1>3 DEF Tree
  <2> QED BY <2>1, TreeBlocks, SizesAreNat
<1>5. ASSUME NEW n, Get(HeaderLength[format]), PartLoop(0, n),
             heap' = Filled(heap, RECORD, HeaderLength[format])
      PROVE  TreeInv'
  <2> DEFINE g == Filled(heap, RECORD, HeaderLength[format])
             m == HeaderLength[format]
  <2>1. g = Filled(heap, RECORD, m) /\ m \in Nat /\ heap' = g /\ current' = current + m
    BY <1>1, <1>5 DEF Get
  <2> HIDE DEF g, m
  <2>2. Tree(g, {}) /\ Listed(g) = Listed(heap) /\ SizesOf(g) = SizesOf(heap) + m
    BY <1>3, <1>4, <2>1, TreeFilled
  <2>3. pc' \in {"new_part", "done"}
    BY <1>5 DEF PartLoop, RecordReturns
  <2>4. current' = start' + SizesOf(g)
    BY <1>1, <1>3, <1>4, <2>1, <2>2
  <2> QED BY <1>1, <1>3, <2>1, <2>2, <2>3, <2>4, PartsStay
<1>6. ASSUME NEW code \in {READ_EOF, READ_ERROR}, RecordReturns(code), UNCHANGED heap
      PROVE  TreeInv'
  <2>1. pc' = "done" /\ ret' # READ_OK
    BY <1>6 DEF RecordReturns, READ_OK, READ_EOF, READ_ERROR
  <2> QED BY <1>1, <1>3, <1>6, <2>1, PartsStay
<1> QED BY <1>5, <1>6 DEF ReadHeader

\* A part is allocated.
LEMMA StartKeepsTree == ASSUME ReaderInv, TreeInv, StartPart PROVE TreeInv'
<1>1. pc = "new_part" /\ UNCHANGED <<parts, start, current>>
  BY DEF StartPart, Frame
<1>2. ~ ImageInHand /\ Loose = {} /\ pc # "done"
  BY <1>1 DEF ImageInHand, Loose, InPart
<1>3. Tree(heap, {}) /\ Cardinality(Listed(heap)) = parts /\ current = start + SizesOf(heap)
  BY <1>2 DEF TreeInv
<1>4. start \in Nat /\ SizesOf(heap) \in Nat
  BY <1>3, SizesAreNat DEF ReaderInv, CursorInv, Tree
<1>5. ASSUME heap' = Append(heap, Block("part", {}, 0)), part' = Len(heap'), pc' = "part"
      PROVE  TreeInv'
  <2> DEFINE g      == Append(heap, Block("part", {}, 0))
             owners == {}
  <2>1. g = Append(heap, Block("part", owners, 0)) /\ heap' = g /\ part' = Len(g)
    BY <1>5
  <2>2. /\ OwnersFit(heap, owners, "part") /\ 0 \in Nat
        /\ "part" \in Kinds /\ "part" # "record"
    BY DEF OwnersFit, Kinds
  <2> HIDE DEF g, owners
  <2>3. Tree(g, {} \cup {Len(g)}) /\ Grown(heap, g, "part", owners, 0)
    BY <1>3, <2>1, <2>2, TreeAppend
  <2>4. Tree(g, {part'}) /\ InHand(g, part', "part") /\ SizesOf(g) = SizesOf(heap)
        /\ Listed(g) = Listed(heap)
    BY <1>4, <2>1, <2>3 DEF Grown, InHand, owners
  <2>5. pc' \in InPart /\ ~ ImageInHand' /\ pc' \notin {"done", "image"}
    BY <1>5 DEF InPart, Pcs, ImageInHand
  <2>6. Loose' = {part'}
    BY <2>5 DEF Loose
  <2> QED BY <1>1, <1>3, <2>1, <2>4, <2>5, <2>6 DEF TreeInv
<1>6. ASSUME RecordReturns(READ_ERROR), UNCHANGED heap
      PROVE  TreeInv'
  <2>1. pc' = "done" /\ ret' # READ_OK
    BY <1>6 DEF RecordReturns, READ_OK, READ_ERROR
  <2> QED BY <1>1, <1>3, <1>6, <2>1, PartsStay
<1> QED BY <1>5, <1>6 DEF StartPart

\* What was filled in the part in hand is in the part in hand.
LEMMA PartFills ==
  ASSUME ReaderInv, TreeInv, pc \in InPart, ~ ImageInHand, NEW n \in Nat, Get(n), Frame,
         UNCHANGED part, NEW h, h = Filled(heap, part, n)
  PROVE  /\ InPartWith(h, {part}) /\ InPartWith(h, {part'}) /\ parts \in Nat
         /\ current' = start' + SizesOf(h)
<1>1. /\ parts \in Nat /\ current = start + SizesOf(heap) /\ SizesOf(heap) \in Nat
      /\ start \in Nat /\ part \in DOMAIN heap /\ InPartWith(heap, {part})
  BY PartAtHand
<1>2. current' = current + n /\ start' = start /\ part' = part
  BY DEF Get, Frame
<1>3. /\ Tree(h, {part}) /\ Listed(h) = Listed(heap) /\ SizesOf(h) = SizesOf(heap) + n
      /\ DOMAIN h = DOMAIN heap
      /\ \A i \in DOMAIN heap : h[i].kind = heap[i].kind /\ h[i].owners = heap[i].owners
  <2> DEFINE loose == {part}
  <2>1. Tree(heap, loose)
    BY <1>1 DEF InPartWith
  <2> HIDE DEF loose
  <2>2. Tree(h, loose) /\ Listed(h) = Listed(heap) /\ SizesOf(h) = SizesOf(heap) + n
    BY <1>1, <2>1, TreeFilled
  <2>3. /\ DOMAIN h = DOMAIN heap
        /\ \A i \in DOMAIN heap : h[i].kind = heap[i].kind /\ h[i].owners = heap[i].owners
    BY <1>1, <2>1, TreeFilled
  <2> QED BY <2>2, <2>3 DEF loose
<1>4. InPartWith(h, {part})
  BY <1>1, <1>3 DEF InPartWith, InHand
<1> QED BY <1>1, <1>2, <1>3, <1>4

\* The header of a part.
LEMMA PartHeaderKeepsTree == ASSUME ReaderInv, TreeInv, ReadPartHeader PROVE TreeInv'
<1>1. UNCHANGED <<part, image>> /\ Frame /\ pc \in InPart /\ ~ ImageInHand
  BY DEF ReadPartHeader, InPart, Pcs, ImageInHand
<1>2. PICK n \in SubCounts, l \in Lengths :
       \/ /\ Get(PartHeaderLength(n))
          /\ todo' = n /\ length' = DataLength(l, n)
          /\ LET h == Filled(heap, part, PartHeaderLength(n))
                 goes_on == CASE format = "FRF"      -> TRUE
                              [] format = "IIR_2005" -> n > 0
                              [] OTHER               -> HasData(l)
             IN IF goes_on
                  THEN /\ pc' = CASE format = "FRF" /\ n > 0 -> "point"
                                  [] format = "FRF" /\ n = 0 -> "tail"
                                  [] format = "IIR_2005"     -> "image"
                                  [] OTHER                   -> "data"
                       /\ heap' = h /\ UNCHANGED <<parts, ret>>
                  ELSE PartReturns(h, READ_OK)
       \/ \E code \in {READ_EOF, READ_ERROR} :
            /\ GetFails(PartHeaderLength(n), code)
            /\ PartReturns(heap, code)
            /\ UNCHANGED <<todo, length>>
  BY DEF ReadPartHeader
<1> DEFINE h == Filled(heap, part, PartHeaderLength(n))
<1>3. n \in Nat /\ PartHeaderLength(n) \in Nat
  BY Wire, Sizes DEF ReaderInv, CursorInv
<1>4. Get(PartHeaderLength(n)) => /\ InPartWith(h, {part}) /\ InPartWith(h, {part'})
                                  /\ parts \in Nat /\ current' = start' + SizesOf(h)
  BY <1>1, <1>3, PartFills
<1> HIDE DEF h
<1>5. ASSUME Get(PartHeaderLength(n)), PartReturns(h, READ_OK) PROVE TreeInv'
  BY <1>4, <1>5, PartDone
<1>6. ASSUME NEW code \in {READ_EOF, READ_ERROR}, PartReturns(heap, code) PROVE TreeInv'
  <2>1. code # READ_OK
    BY DEF READ_OK, READ_EOF, READ_ERROR
  <2> QED BY <1>1, <1>6, <2>1, TreeWhenFailing, PartGivenUp
<1>7. ASSUME Get(PartHeaderLength(n)), heap' = h, UNCHANGED parts,
             pc' = CASE format = "FRF" /\ n > 0 -> "point"
                     [] format = "FRF" /\ n = 0 -> "tail"
                     [] format = "IIR_2005"     -> "image"
                     [] OTHER                   -> "data"
      PROVE  TreeInv'
  <2>1. \/ pc' \in {"point", "tail"} \/ (pc' = "image" /\ format = "IIR_2005")
        \/ pc' = "data" /\ format # "IIR_2005"
    <3>1. CASE format = "FRF"
      BY <1>3, <1>7, <3>1
    <3>2. CASE format # "FRF"
      BY <1>7, <3>2
    <3> QED BY <3>1, <3>2
  <2>2. pc' \in InPart /\ ~ ImageInHand' /\ (pc' = "image" => format' = "IIR_2005")
    BY <1>1, <2>1 DEF InPart, Pcs, ImageInHand, Frame
  <2> QED BY <1>1, <1>4, <1>7, <2>2, PartStays
<1> QED BY <1>2, <1>5, <1>6, <1>7 DEF h

\* A feature point.
LEMMA PointKeepsTree == ASSUME ReaderInv, TreeInv, ReadPoint PROVE TreeInv'
<1>1. UNCHANGED <<part, image>> /\ Frame /\ pc \in InPart /\ ~ ImageInHand
  BY DEF ReadPoint, InPart, Pcs, ImageInHand
<1>2. /\ parts \in Nat /\ current = start + SizesOf(heap) /\ SizesOf(heap) \in Nat
      /\ start \in Nat /\ InPartWith(heap, {part})
  BY <1>1, PartAtHand
<1>3. ASSUME Get(FRF_FPB_LENGTH), UNCHANGED parts,
             heap' = Append(heap, Block("point", {part}, FRF_FPB_LENGTH)),
             pc' = IF todo > 1 THEN "point" ELSE "tail"
      PROVE  TreeInv'
  <2> DEFINE owners == {part}
             n      == FRF_FPB_LENGTH
             loose  == {part}
             kind   == "point"
             h      == Append(heap, Block("point", {part}, FRF_FPB_LENGTH))
  <2>1. /\ heap' = h /\ h = Append(heap, Block(kind, owners, n)) /\ n \in Nat
        /\ Tree(heap, loose) /\ owners # {} /\ kind \in Kinds /\ kind # "record"
        /\ current' = current + n /\ start' = start
    BY <1>1, <1>2, <1>3 DEF InPartWith, Kinds, Get, Frame, FRF_FPB_LENGTH
  <2>2. OwnersFit(heap, owners, kind)
    BY <1>2 DEF OwnersFit, InPartWith, InHand, MayOwn
  <2> HIDE DEF owners, n, loose, kind, h
  <2>3. Tree(h, loose) /\ Grown(heap, h, kind, owners, n)
    BY <2>1, <2>2, TreeAppend
  <2>4. InPartWith(h, {part'}) /\ current' = start' + SizesOf(h)
    BY <1>1, <1>2, <2>1, <2>3 DEF InPartWith, InHand, Grown, loose
  <2>5. pc' \in InPart /\ ~ ImageInHand' /\ pc' # "image"
    BY <1>3 DEF InPart, Pcs, ImageInHand
  <2> QED BY <1>1, <1>3, <2>1, <2>4, <2>5, PartStays
<1>4. ASSUME NEW code \in {READ_EOF, READ_ERROR},
             PartReturns(Append(heap, Block("point", {}, 0)), code)
      PROVE  TreeInv'
  <2>1. code # READ_OK /\ "point" \in Kinds /\ "point" # "record"
    BY DEF READ_OK, READ_EOF, READ_ERROR, Kinds
  <2> QED BY <1>1, <1>4, <2>1, TreeWhenLost, PartGivenUp
<1>5. ASSUME PartReturns(heap, READ_ERROR) PROVE TreeInv'
  <2>1. READ_ERROR # READ_OK
    BY DEF READ_OK, READ_ERROR
  <2> QED BY <1>1, <1>5, <2>1, TreeWhenFailing, PartGivenUp
<1> QED BY <1>3, <1>4, <1>5 DEF ReadPoint

\* The image information block.
LEMMA TailKeepsTree == ASSUME ReaderInv, HeapInv, TreeInv, ReadTail PROVE TreeInv'
<1>1. /\ UNCHANGED <<part, image>> /\ Frame /\ pc \in InPart /\ ~ ImageInHand
      /\ format = "FRF"
  BY DEF ReadTail, InPart, Pcs, ImageInHand, HeapInv, LocalsInv
<1>2. ASSUME Get(FRF_IIB_LENGTH), heap' = Filled(heap, part, FRF_IIB_LENGTH), pc' = "data",
             UNCHANGED parts
      PROVE  TreeInv'
  <2>1. FRF_IIB_LENGTH \in Nat
    BY DEF FRF_IIB_LENGTH
  <2> DEFINE h == Filled(heap, part, FRF_IIB_LENGTH)
  <2>2. InPartWith(h, {part'}) /\ current' = start' + SizesOf(h)
    BY <1>1, <1>2, <2>1, PartFills
  <2> HIDE DEF h
  <2>3. pc' \in InPart /\ ~ ImageInHand' /\ pc' # "image"
    BY <1>1, <1>2 DEF InPart, Pcs, ImageInHand, Frame
  <2> QED BY <1>1, <1>2, <2>2, <2>3, PartStays DEF h
<1>3. ASSUME NEW code \in {READ_EOF, READ_ERROR}, PartReturns(heap, code) PROVE TreeInv'
  <2>1. code # READ_OK
    BY DEF READ_OK, READ_EOF, READ_ERROR
  <2> QED BY <1>1, <1>3, <2>1, TreeWhenFailing, PartGivenUp
<1> QED BY <1>2, <1>3 DEF ReadTail

-----------------------------------------------------------------------------
\* What holds the data and codes that are read now.
LEMMA HolderAtHand ==
  ASSUME ReaderInv, TreeInv, pc \in {"data", "pupil", "sclera_length", "sclera"}
  PROVE  /\ HolderWith(heap) /\ pc \in InPart
         /\ parts \in Nat /\ start \in Nat /\ current = start + SizesOf(heap)
         /\ SizesOf(heap) \in Nat
         /\ pc # "data" => ImageInHand /\ format = "IIR_2005"
<1>1. pc \in InPart
  BY DEF InPart, Pcs
<1>2. (pc # "data" => ImageInHand) /\ (ImageInHand => format = "IIR_2005")
  BY DEF TreeInv, ImageInHand
<1>3. ImageInHand <=> format = "IIR_2005"
  BY <1>2 DEF ImageInHand
<1> QED BY <1>1, <1>2, <1>3, PartAtHand DEF HolderWith

\* Data or a code could not be read.
LEMMA DataFailsTree ==
  ASSUME ReaderInv, TreeInv, pc \in {"data", "pupil", "sclera"}, UNCHANGED <<part, image>>,
         NEW kind \in {"data"} \cup CodeKinds, NEW n, DataFails(kind, n)
  PROVE  TreeInv'
<1>1. HolderWith(heap)
  BY HolderAtHand
<1>2. HolderWith(Append(heap, Block(kind, {Holder}, 0)))
  <2>1. 0 \in Nat
    OBVIOUS
  <2> QED BY <1>1, <2>1, HolderTakes
<1>3. READ_EOF # READ_OK /\ READ_ERROR # READ_OK
  BY DEF READ_OK, READ_EOF, READ_ERROR
<1> QED BY <1>1, <1>2, <1>3, HolderGivenUp DEF DataFails

\* Image data.
LEMMA DataKeepsTree == ASSUME ReaderInv, TreeInv, ReadData PROVE TreeInv'
<1>1. UNCHANGED <<part, image>> /\ Frame /\ pc = "data" /\ "data" \in {"data"} \cup CodeKinds
  BY DEF ReadData
<1>2. /\ HolderWith(heap) /\ parts \in Nat /\ start \in Nat /\ SizesOf(heap) \in Nat
      /\ current = start + SizesOf(heap) /\ length \in Nat
  <2>1. length \in Nat
    BY <1>1 DEF ReaderInv, CursorInv, InPart, Pcs
  <2> QED BY <1>1, <2>1, HolderAtHand
<1>3. ASSUME Get(length),
             HolderReturns(Append(heap, Block("data", {Holder}, length)), READ_OK)
      PROVE  TreeInv'
  <2> DEFINE h == Append(heap, Block("data", {Holder}, length))
  <2>0. h = Append(heap, Block("data", {Holder}, length))
    OBVIOUS
  <2> HIDE DEF h
  <2>1. HolderWith(h) /\ SizesOf(h) = SizesOf(heap) + length
    <3>1. HolderWith(heap) /\ length \in Nat /\ "data" \in {"data"} \cup CodeKinds
      BY ONLY <1>1, <1>2
    <3> QED BY ONLY <2>0, <3>1, HolderTakes
  <2>2. current' = start' + SizesOf(h) /\ format' = format
    BY <1>1, <1>2, <1>3, <2>1 DEF Get, Frame
  <2> QED BY <1>1, <1>2, <1>3, <2>1, <2>2, HolderDone DEF h
<1>4. DataFails("data", length) => TreeInv'
  BY <1>1, DataFailsTree
<1> QED BY <1>3, <1>4 DEF ReadData

\* Behind the codes of an image.
LEMMA AfterCodesTree ==
  ASSUME parts \in Nat, NEW h, HolderWith(h), format = "IIR_2005", Frame,
         UNCHANGED <<part, image>>, current' = start' + SizesOf(h),
         NEW l, AfterCodes(h, l)
  PROVE  TreeInv'
<1>1. format' = "IIR_2005" /\ InPartWith(h, {part, image}) /\ InHand(h, image, "image")
  BY DEF Frame, HolderWith
<1>2. CASE HasData(l)
  <2>1. pc' = "data" /\ heap' = h /\ parts' = parts
    BY <1>2 DEF AfterCodes
  <2>2. pc' \in InPart /\ ImageInHand'
    BY <1>1, <2>1 DEF InPart, Pcs, ImageInHand
  <2> QED BY <1>1, <2>1, <2>2, ImageStays
<1>3. CASE ~ HasData(l)
  <2>1. ImageReturns(h, READ_OK)
    BY <1>3 DEF AfterCodes
  <2> QED BY <1>1, <2>1, ImageDone
<1> QED BY <1>2, <1>3

\* What was filled in the image in hand is in the image in hand.
LEMMA ImageFills ==
  ASSUME ReaderInv, TreeInv, pc \in {"pupil", "sclera_length", "sclera"}, NEW n \in Nat,
         NEW h, h = Filled(heap, image, n)
  PROVE  HolderWith(h) /\ SizesOf(h) = SizesOf(heap) + n /\ Holder = image
<1>1. /\ format = "IIR_2005" /\ InPartWith(heap, {part, image}) /\ InHand(heap, image, "image")
      /\ image \in DOMAIN heap
  BY HolderAtHand DEF HolderWith, InHand
<1>2. /\ Tree(h, {part, image}) /\ Listed(h) = Listed(heap) /\ SizesOf(h) = SizesOf(heap) + n
      /\ DOMAIN h = DOMAIN heap
      /\ \A i \in DOMAIN heap : h[i].kind = heap[i].kind /\ h[i].owners = heap[i].owners
  <2> DEFINE loose == {part, image}
  <2>1. Tree(heap, loose)
    BY <1>1 DEF InPartWith
  <2> HIDE DEF loose
  <2>2. Tree(h, loose) /\ Listed(h) = Listed(heap) /\ SizesOf(h) = SizesOf(heap) + n
    BY <1>1, <2>1, TreeFilled
  <2>3. /\ DOMAIN h = DOMAIN heap
        /\ \A i \in DOMAIN heap : h[i].kind = heap[i].kind /\ h[i].owners = heap[i].owners
    BY <1>1, <2>1, TreeFilled
  <2> QED BY <2>2, <2>3 DEF loose
<1>3. InPartWith(h, {part, image}) /\ InHand(h, image, "image")
  BY <1>1, <1>2 DEF InPartWith, InHand
<1> QED BY <1>1, <1>2, <1>3 DEF HolderWith, Holder

\* The header of an iris image.
LEMMA ImageKeepsTree == ASSUME ReaderInv, TreeInv, ReadImage PROVE TreeInv'
<1>1. /\ UNCHANGED part /\ Frame /\ pc = "image" /\ pc \in InPart /\ ~ ImageInHand
      /\ format = "IIR_2005" /\ format' = format
  BY DEF ReadImage, InPart, Pcs, ImageInHand, TreeInv, Frame
<1>2. /\ parts \in Nat /\ current = start + SizesOf(heap) /\ SizesOf(heap) \in Nat
      /\ start \in Nat /\ InPartWith(heap, {part})
  BY <1>1, PartAtHand
<1>3. ASSUME Get(IIH_LENGTH + 2), UNCHANGED parts, image' = Len(heap'),
             heap' = Append(heap, Block("image", {}, IIH_LENGTH + 2)),
             pc' \in {"pupil", "sclera_length"}
      PROVE  TreeInv'
  <2> DEFINE owners == {}
             n      == IIH_LENGTH + 2
             loose  == {part}
             kind   == "image"
             h      == Append(heap, Block("image", {}, IIH_LENGTH + 2))
  <2>1. /\ heap' = h /\ h = Append(heap, Block(kind, owners, n)) /\ n \in Nat
        /\ Tree(heap, loose) /\ kind \in Kinds /\ kind # "record"
        /\ current' = current + n /\ start' = start /\ image' = Len(h)
    BY <1>1, <1>2, <1>3 DEF InPartWith, Kinds, Get, Frame, IIH_LENGTH
  <2>2. OwnersFit(heap, owners, kind)
    BY DEF OwnersFit
  <2>3. owners = {} /\ loose = {part} /\ kind = "image"
    OBVIOUS
  <2> HIDE DEF owners, n, loose, kind, h
  <2>4. Tree(h, loose \cup {Len(h)}) /\ Grown(heap, h, kind, owners, n)
    BY <2>1, <2>2, TreeAppend
  <2>5. loose \cup {Len(h)} = {part', image'}
    BY <1>1, <2>1, <2>3
  <2>6. /\ InPartWith(h, {part', image'}) /\ InHand(h, image', "image")
        /\ current' = start' + SizesOf(h)
    BY <1>1, <1>2, <2>1, <2>3, <2>4, <2>5 DEF InPartWith, InHand, Grown
  <2>7. pc' \in InPart /\ ImageInHand'
    BY <1>3 DEF InPart, Pcs, ImageInHand
  <2> QED BY <1>1, <1>3, <2>1, <2>6, <2>7, ImageStays
<1>4. READ_ERROR # READ_OK /\ "image" \in Kinds /\ "image" # "record"
  BY DEF READ_OK, READ_ERROR, Kinds
<1>5. ASSUME PartReturns(Append(heap, Block("image", {}, 0)), READ_ERROR), UNCHANGED image
      PROVE  TreeInv'
  BY <1>1, <1>4, <1>5, TreeWhenLost, PartGivenUp
<1>6. ASSUME PartReturns(heap, READ_ERROR), UNCHANGED image PROVE TreeInv'
  BY <1>1, <1>4, <1>6, TreeWhenFailing, PartGivenUp
<1>7. ASSUME NEW code_length,
             pc' = IF code_length # 0 THEN "pupil" ELSE "sclera_length"
      PROVE  pc' \in {"pupil", "sclera_length"}
  BY <1>7
<1> QED BY <1>3, <1>5, <1>6, <1>7 DEF ReadImage

\* A Freeman code.
LEMMA CodeKeepsTree == ASSUME ReaderInv, TreeInv, ReadCode PROVE TreeInv'
<1>1. /\ UNCHANGED <<part, image>> /\ Frame /\ pc \in {"pupil", "sclera"}
      /\ pc \in {"data"} \cup CodeKinds
  BY DEF ReadCode, CodeKinds
<1>2. /\ HolderWith(heap) /\ format = "IIR_2005" /\ parts \in Nat /\ start \in Nat
      /\ current = start + SizesOf(heap) /\ SizesOf(heap) \in Nat
  BY <1>1, HolderAtHand
<1>3. PICK n \in CodeLengths \ {0} :
       \/ /\ n >= FCCB_HEADER_LENGTH
          /\ Get(n)
          /\ LET h == Append(Filled(heap, image, FCCB_HEADER_LENGTH),
                             Block(pc, {image}, n - FCCB_HEADER_LENGTH))
             IN IF pc = "pupil"
                  THEN /\ pc' = "sclera_length" /\ heap' = h
                       /\ UNCHANGED <<parts, todo, ret>>
                  ELSE AfterCodes(h, length)
       \/ /\ n >= FCCB_HEADER_LENGTH /\ Fits(current, FCCB_HEADER_LENGTH, end)
          /\ DataFails(pc, n)
       \/ /\ n < FCCB_HEADER_LENGTH \/ ~ Fits(current, FCCB_HEADER_LENGTH, end)
          /\ HolderReturns(heap, READ_ERROR)
          /\ UNCHANGED current
  BY DEF ReadCode
<1> DEFINE g == Filled(heap, image, FCCB_HEADER_LENGTH)
           h == Append(g, Block(pc, {image}, n - FCCB_HEADER_LENGTH))
<1>4. ASSUME n >= FCCB_HEADER_LENGTH, Get(n)
      PROVE  HolderWith(h) /\ current' = start' + SizesOf(h)
  <2>1. n \in Nat /\ FCCB_HEADER_LENGTH \in Nat /\ n - FCCB_HEADER_LENGTH \in Nat
    BY <1>4, Wire DEF FCCB_HEADER_LENGTH
  <2>2. HolderWith(g) /\ SizesOf(g) = SizesOf(heap) + FCCB_HEADER_LENGTH /\ Holder = image
    BY <1>1, <2>1, ImageFills
  <2>3. h = Append(g, Block(pc, {Holder}, n - FCCB_HEADER_LENGTH))
    BY <2>2
  <2> HIDE DEF g, h
  <2>4. HolderWith(h) /\ SizesOf(h) = SizesOf(g) + (n - FCCB_HEADER_LENGTH)
    <3> DEFINE rest == n - FCCB_HEADER_LENGTH
    <3>1. rest \in Nat
      BY <2>1
    <3>2. h = Append(g, Block(pc, {Holder}, rest))
      BY <2>3
    <3>3. pc \in {"data"} \cup CodeKinds /\ HolderWith(g)
      BY <1>1, <2>2
    <3> HIDE DEF rest
    <3>4. HolderWith(h) /\ SizesOf(h) = SizesOf(g) + rest
      BY ONLY <3>1, <3>2, <3>3, HolderTakes
    <3> QED BY <3>4 DEF rest
  <2>5. current' = start + SizesOf(heap) + n /\ start' = start
    BY <1>1, <1>2, <1>4 DEF Get, Frame
  <2> QED BY <1>2, <2>1, <2>2, <2>4, <2>5
<1> HIDE DEF g, h
<1>5. ASSUME HolderWith(h), current' = start' + SizesOf(h),
             IF pc = "pupil"
               THEN /\ pc' = "sclera_length" /\ heap' = h
                    /\ UNCHANGED <<parts, todo, ret>>
               ELSE AfterCodes(h, length)
      PROVE  TreeInv'
  <2>1. CASE pc = "pupil"
    <3>1. pc' \in InPart /\ ImageInHand' /\ format' = "IIR_2005"
      BY <1>1, <1>2, <1>5, <2>1 DEF InPart, Pcs, ImageInHand, Frame
    <3>2. InPartWith(h, {part', image'}) /\ InHand(h, image', "image")
      BY <1>1, <1>2, <1>5 DEF HolderWith
    <3> QED BY <1>1, <1>5, <2>1, <3>1, <3>2, ImageStays
  <2>2. CASE pc # "pupil"
    BY <1>1, <1>2, <1>5, <2>2, AfterCodesTree
  <2> QED BY <2>1, <2>2
<1>6. DataFails(pc, n) => TreeInv'
  BY <1>1, DataFailsTree
<1>7. HolderReturns(heap, READ_ERROR) => TreeInv'
  <2>1. READ_ERROR # READ_OK
    BY DEF READ_OK, READ_ERROR
  <2> QED BY <1>1, <1>2, <2>1, HolderGivenUp
<1> QED BY <1>3, <1>4, <1>5, <1>6, <1>7 DEF g, h

\* The length of the second code.
LEMMA ScleraLengthKeepsTree == ASSUME ReaderInv, TreeInv, ReadScleraLength PROVE TreeInv'
<1>1. UNCHANGED <<part, image>> /\ Frame /\ pc = "sclera_length"
  BY DEF ReadScleraLength
<1>2. /\ HolderWith(heap) /\ format = "IIR_2005" /\ parts \in Nat /\ start \in Nat
      /\ current = start + SizesOf(heap) /\ SizesOf(heap) \in Nat
  BY <1>1, HolderAtHand
<1> DEFINE h == Filled(heap, image, 2)
<1>3. Get(2) => HolderWith(h) /\ current' = start' + SizesOf(h)
  <2>1. HolderWith(h) /\ SizesOf(h) = SizesOf(heap) + 2
    BY <1>1, ImageFills
  <2> HIDE DEF h
  <2> QED BY <1>1, <1>2, <2>1 DEF Get, Frame
<1> HIDE DEF h
<1>4. ASSUME Get(2), pc' = "sclera", heap' = h, UNCHANGED parts PROVE TreeInv'
  <2>1. pc' \in InPart /\ ImageInHand' /\ format' = "IIR_2005"
    BY <1>1, <1>2, <1>4 DEF InPart, Pcs, ImageInHand, Frame
  <2>2. InPartWith(h, {part', image'}) /\ InHand(h, image', "image")
    BY <1>1, <1>2, <1>3, <1>4 DEF HolderWith
  <2> QED BY <1>1, <1>3, <1>4, <2>1, <2>2, ImageStays
<1>5. ASSUME Get(2), AfterCodes(h, length) PROVE TreeInv'
  BY <1>1, <1>2, <1>3, <1>5, AfterCodesTree
<1>6. ASSUME NEW code \in {READ_EOF, READ_ERROR}, HolderReturns(heap, code) PROVE TreeInv'
  <2>1. code # READ_OK
    BY DEF READ_OK, READ_EOF, READ_ERROR
  <2> QED BY <1>1, <1>2, <1>6, <2>1, HolderGivenUp
<1> QED BY <1>4, <1>5, <1>6 DEF ReadScleraLength, h

\* Memory stays a tree while a record is read.
LEMMA ReaderKeepsTree == ASSUME ReaderInv, HeapInv, TreeInv, ReadNext PROVE TreeInv'
BY HeaderKeepsTree, StartKeepsTree, PartHeaderKeepsTree, PointKeepsTree, TailKeepsTree,
   DataKeepsTree, ImageKeepsTree, CodeKeepsTree, ScleraLengthKeepsTree
DEF ReadNext

\* The record alone is a tree, of which nothing was read.
LEMMA BegunIsTree ==
  Tree(Begun, {}) /\ Cardinality(Listed(Begun)) = 0 /\ SizesOf(Begun) = 0
<1> DEFINE b == Block("record", {}, 0)
<1>1. b \in Blocks /\ b.kind = "record" /\ b.owners = {} /\ b.size = 0
  <2>1. b \in Blocks
    BY NewBlock DEF Kinds
  <2> QED BY <2>1 DEF Block
<1> HIDE DEF b
<1>2. Begun = <<b>>
  BY DEF Begun, b
<1>3. /\ Begun \in Seq(Blocks) /\ Begun # <<>> /\ DOMAIN Begun = {1} /\ Len(Begun) = 1
      /\ Begun[1] = b
  BY <1>1, <1>2
<1>4. Tree(Begun, {})
  BY <1>1, <1>3 DEF Tree, RECORD
<1>5. Listed(Begun) = {}
  BY <1>1, <1>3, ListedOwned
<1>6. SizesOf(Begun) = 0
  <2> DEFINE w == [x \in DOMAIN Begun |-> Begun[x].size]
             none == [x \in 1 .. 0 |-> 0]
  <2>1. DOMAIN w = 1 .. 0 + 1 /\ DOMAIN none = 1 .. 0 /\ w[1] = 0 /\ w[0 + 1] = 0
    BY <1>1, <1>3
  <2>2. SizesOf(Begun) = SumFunction(w)
    BY DEF SizesOf
  <2> HIDE DEF w, none
  <2>3. Weights(w, 0 + 1)
    BY <2>1 DEF Weights
  <2>4. SumFunction(none) = 0
    BY <2>1, SumType
  <2>5. SumFunction(w) = SumFunction(none) + w[0 + 1]
    <3>1. 0 \in Nat /\ \A k \in 1 .. 0 : w[k] = none[k]
      OBVIOUS
    <3> QED BY ONLY <2>1, <2>3, <3>1, SumGrows
  <2> QED BY <2>1, <2>2, <2>4, <2>5
<1> QED BY <1>4, <1>5, <1>6, FS_EmptySet

-----------------------------------------------------------------------------
(* The programs and the callers of the libraries.                          *)

(***************************************************************************)
(* What the programs know: declared lengths that were true so far do not   *)
(* add up to more than was read, and success is still possible only if     *)
(* every record conformed.                                                 *)
(***************************************************************************)
Counted ==
  /\ at \in {"loop", "read"} => total_length <= start
  /\ at \in {"free", "new"} => total_length <= current

FileInv ==
  /\ ReaderInv
  /\ at \in {"loop", "read", "free", "new", "exit"}
  /\ client \in {"program", "caller"}
  /\ client = "caller" => at = "read"
  /\ at = "loop" => pc = "header"
  /\ total_length \in Nat
  /\ client = "program" /\ honest => Counted
  /\ status = EXIT_SUCCESS => conforming
  /\ at = "exit" /\ status = EXIT_SUCCESS /\ honest => current = end

-----------------------------------------------------------------------------
(***************************************************************************)
(* The programs and callers.                                               *)
(***************************************************************************)

\* The invariant holds before the first record is read.
LEMMA InitFile == FInit => FileInv
<1> SUFFICES ASSUME FInit PROVE FileInv
  OBVIOUS
<1>1. format \in ImageFormats /\ end \in Ends[format] /\ Begin(0)
  BY DEF FInit, Init
<1>2. end \in Nat
  BY <1>1, Wire
<1>3. start = 0 /\ current = 0 /\ pc = "header"
  BY <1>1 DEF Begin
<1>4. ReaderInv
  BY <1>1, <1>2, BeginsWell
<1> QED
  BY <1>3, <1>4 DEF FInit, FileInv, Counted

\* Most steps of a client leave alone what the reader did.
LEMMA RestKeepsReader ==
  ASSUME ReaderInv, ReaderFrame
  PROVE  ReaderInv' /\ UNCHANGED Abstract!rvars
<1>1. CountInv'
  BY DEF ReaderInv, CountInv, ReaderFrame
<1>2. CursorInv'
  BY DEF ReaderInv, CursorInv, ReaderFrame
<1>3. UNCHANGED Abstract!rvars
  BY DEF ReaderFrame, Abstract!rvars
<1> QED
  BY <1>1, <1>2, <1>3 DEF ReaderInv

\* Every step keeps the invariant, and is one of RecordRead, none, or a new record.
FileStep == FileInv' /\ (Abstract!RNext \/ New \/ UNCHANGED Abstract!rvars)

\* The loop ends behind the sum of lengths, so that honest records fill the file.
LEMMA LoopKeeps == ASSUME FileInv, Loop PROVE FileStep
<1>1. ReaderFrame
  BY DEF Loop, ReaderFrame, image_vars
<1>2. ReaderInv' /\ UNCHANGED Abstract!rvars
  BY <1>1, RestKeepsReader DEF FileInv
<1>3. /\ total_length \in Nat /\ start \in Nat /\ end \in Nat /\ current \in Nat
      /\ current = start /\ current <= end /\ pc = "header"
      /\ client # "caller" /\ at = "loop"
  BY DEF FileInv, ReaderInv, CursorInv, Loop
<1>4. CASE total_length < end
  BY <1>1, <1>2, <1>3, <1>4 DEF Loop, FileInv, Counted, FileStep, ReaderFrame
<1>5. CASE ~ (total_length < end)
  <2>1. at' = "exit" /\ (status' = EXIT_SUCCESS => status = EXIT_SUCCESS)
    BY <1>5 DEF Loop, Exit, EXIT_SUCCESS, EXIT_FAILURE
  <2>2. client = "program" /\ honest => current = end
    BY <1>3, <1>5 DEF FileInv, Counted
  <2> QED
    BY <1>1, <1>2, <1>3, <2>1, <2>2 DEF Loop, FileInv, Counted, FileStep, ReaderFrame
<1> QED
  BY <1>4, <1>5

\* A read does not touch what the client knows.
LEMMA ReadKeeps == ASSUME FileInv, ReadStep PROVE FileStep
<1>1. ReaderInv /\ ReadNext /\ at = "read" /\ UNCHANGED client_vars
  BY DEF FileInv, ReadStep
<1>2. ReaderInv' /\ (Abstract!RNext \/ UNCHANGED Abstract!rvars)
  BY <1>1, ReaderKeeps DEF ReaderStep
<1>3. UNCHANGED <<start, end>>
  BY <1>1
  DEF ReadNext, ReadHeader, StartPart, ReadPartHeader, ReadPoint, ReadTail, ReadData,
    ReadImage, ReadCode, ReadScleraLength, Frame
<1>4. FileInv'
  BY <1>1, <1>2, <1>3 DEF FileInv, Counted, client_vars
<1> QED
  BY <1>2, <1>4 DEF FileStep

\* After a failed read no program exits with success.
LEMMA ReadFailedKeeps == ASSUME FileInv, ReadFailed PROVE FileStep
<1>1. ReaderFrame
  BY DEF ReadFailed, ReaderFrame, image_vars
<1>2. ReaderInv' /\ UNCHANGED Abstract!rvars
  BY <1>1, RestKeepsReader DEF FileInv
<1>3. FileInv'
  BY <1>2 DEF FileInv, ReadFailed, Exit, EXIT_SUCCESS, EXIT_FAILURE, Counted
<1> QED
  BY <1>2, <1>3 DEF FileStep

\* The sum may wrap around in the iris programs, and is then too small.
LEMMA SumIsSmall ==
  ASSUME NEW total \in Nat, NEW n \in Nat
  PROVE  Sum(total, n) \in Nat /\ Sum(total, n) <= total + n
<1>1. \A m \in Nat : m % UintModulus \in Nat /\ m % UintModulus <= m
  BY ModulusAssumption
<1> QED
  BY <1>1 DEF Sum

\* An honest record moves the sum of lengths no further than the cursor.
LEMMA ValidateKeeps == ASSUME FileInv, Validate PROVE FileStep
<1>1. ReaderFrame
  BY DEF Validate, ReaderFrame, image_vars
<1>2. ReaderInv' /\ UNCHANGED Abstract!rvars
  BY <1>1, RestKeepsReader DEF FileInv
<1>3. /\ total_length \in Nat /\ record_length \in Nat /\ start \in Nat /\ current \in Nat
      /\ at = "read" /\ client = "program" /\ client' = client
      /\ total_length' = Sum(total_length, record_length)
      /\ honest' = (honest /\ record_length = current - start)
      /\ honest => total_length <= start
  BY DEF FileInv, ReaderInv, CursorInv, Validate, Counted
<1>4. total_length' \in Nat /\ total_length' <= total_length + record_length
  BY <1>3, SumIsSmall
<1>5. honest' => total_length' <= current'
  <2>1. ASSUME honest' PROVE total_length' <= current'
    <3>1. honest /\ record_length = current - start
      BY <1>3, <2>1
    <3>2. current' = current
      BY <1>1 DEF ReaderFrame
    <3> QED
      BY <1>3, <1>4, <3>1, <3>2
  <2> QED
    BY <2>1
<1>6. /\ at' \in {"free", "exit"}
      /\ at' = "exit" => status' # EXIT_SUCCESS
      /\ status' = EXIT_SUCCESS => conforming'
  <2>1. PICK valid \in BOOLEAN :
          /\ conforming' = (conforming /\ valid)
          /\ IF format \in IrisFormats
               THEN /\ status' = IF valid /\ record_length # 0 THEN status ELSE EXIT_FAILURE
                    /\ at' = "free"
               ELSE IF valid THEN at' = "free" /\ UNCHANGED status
                             ELSE Exit(EXIT_FAILURE)
    BY DEF Validate
  <2>2. status = EXIT_SUCCESS => conforming
    BY DEF FileInv
  <2>3. CASE valid
    BY <2>1, <2>2, <2>3 DEF EXIT_SUCCESS, EXIT_FAILURE
  <2>4. CASE ~ valid
    BY <2>1, <2>4 DEF Exit, EXIT_SUCCESS, EXIT_FAILURE
  <2> QED
    BY <2>3, <2>4
<1>7. FileInv'
  BY <1>2, <1>3, <1>4, <1>5, <1>6 DEF FileInv, Counted
<1> QED
  BY <1>2, <1>7 DEF FileStep

\* Freeing changes memory only.
LEMMA FreeKeeps == ASSUME FileInv, Free PROVE FileStep
<1>1. ReaderInv' /\ UNCHANGED Abstract!rvars
  BY RestKeepsReader DEF FileInv, Free
<1>2. FileInv'
  BY <1>1 DEF FileInv, Counted, Free, ReaderFrame
<1> QED
  BY <1>1, <1>2 DEF FileStep

\* The next record begins where the cursor is.
LEMMA NewKeeps == ASSUME FileInv, New PROVE FileStep
<1>1. CASE at' = "loop"
  <2>1. /\ start' = current /\ current' = current /\ pc' = "header"
        /\ declared' = 0 /\ record_length' = 0 /\ parts' = 0 /\ length' = 0 /\ ret' = READ_OK
        /\ UNCHANGED <<format, end, status>>
    BY <1>1 DEF New, Exit
  <2>2. CountInv'
    BY <2>1 DEF CountInv, Pcs, READ_CODES
  <2>3. CursorInv'
    BY <2>1 DEF FileInv, ReaderInv, CursorInv, InPart
  <2>4. UNCHANGED <<client, total_length, honest, conforming>> /\ at = "new"
    BY DEF New
  <2> QED
    BY <1>1, <2>1, <2>2, <2>3, <2>4 DEF FileInv, ReaderInv, Counted, FileStep
<1>2. CASE at' # "loop"
  <2>1. ReaderFrame /\ Exit(EXIT_FAILURE)
    BY <1>2 DEF New, ReaderFrame, image_vars
  <2>2. ReaderInv' /\ UNCHANGED Abstract!rvars
    BY <2>1, RestKeepsReader DEF FileInv
  <2> QED
    BY <2>1, <2>2 DEF New, Exit, FileInv, Counted, FileStep, EXIT_SUCCESS, EXIT_FAILURE
<1> QED
  BY <1>1, <1>2

\* Callers change memory only.
LEMMA CallerKeeps ==
  ASSUME FileInv, CloneRecord \/ FreeClone \/ FreeRecord
  PROVE  FileStep
<1>1. /\ ReaderFrame
      /\ UNCHANGED <<client, at, total_length, status, honest, conforming>>
  BY DEF CloneRecord, FreeClone, FreeRecord, client_vars
<1>2. ReaderInv' /\ UNCHANGED Abstract!rvars
  BY <1>1, RestKeepsReader DEF FileInv
<1>3. FileInv'
  BY <1>1, <1>2 DEF FileInv, Counted, ReaderFrame
<1> QED
  BY <1>2, <1>3 DEF FileStep

\* A step that changes nothing.
LEMMA StutterKeeps == ASSUME FileInv, UNCHANGED file_vars PROVE FileStep
<1>1. ReaderFrame /\ UNCHANGED client_vars
  BY DEF file_vars, image_vars, ReaderFrame
<1>2. ReaderInv' /\ UNCHANGED Abstract!rvars
  BY <1>1, RestKeepsReader DEF FileInv
<1>3. FileInv'
  BY <1>1, <1>2 DEF FileInv, Counted, ReaderFrame, client_vars
<1> QED
  BY <1>2, <1>3 DEF FileStep

\* Every step keeps the invariant.
LEMMA StepKeeps == FileInv /\ [FNext]_file_vars => FileStep
BY LoopKeeps, ReadKeeps, ReadFailedKeeps, ValidateKeeps, FreeKeeps, NewKeeps,
   CallerKeeps, StutterKeeps
DEF FNext

-----------------------------------------------------------------------------
(***************************************************************************)
(* What is held and what was freed.                                        *)
(***************************************************************************)
HeapOK == heap \in Seq(Blocks) /\ heap # <<>> /\ heap[RECORD].kind = "record"

HasCodes == \E i \in DOMAIN heap : heap[i].kind \in CodeKinds

\* Only at these places may the record have been freed.
HeldInv ==
  /\ ~ RecordHeld => pc = "done" /\ (client = "caller" \/ at \in {"new", "exit"})
  /\ cloned => client = "caller" /\ pc = "done"
  /\ at = "free" => pc = "done"

CloneKinds == Kinds \cup {"shared", "null"}

CloneInv ==
  /\ clone # <<>> => cloned /\ RECORD \in DOMAIN clone /\ clone[RECORD].kind = "record"
  /\ \A i \in DOMAIN clone :
       /\ clone[i] \in [kind : CloneKinds, freed : Nat]
       /\ clone[i].kind = "shared" => HasCodes

RecordFreed ==
  \A i \in Reached(heap, RECORD) :
    heap[i].freed = IF RecordHeld \/ (format = "FRF" /\ heap[i].kind = "data") THEN 0 ELSE 1

CloneFreed ==
  \A i \in DOMAIN clone :
    clone[i].freed = IF CloneHeld \/ clone[i].kind = "null" THEN 0 ELSE 1

MemoryInv ==
  /\ FileInv /\ status \in {EXIT_SUCCESS, EXIT_FAILURE}
  /\ LocalsInv /\ HeapOK /\ HeldInv /\ CloneInv
  /\ ~ SharesCodes => (RecordHeld => Fresh(heap)) /\ RecordFreed /\ CloneFreed

\* What is reached are blocks of the heap, by their owners.
LEMMA ReachedBlocks ==
  ASSUME NEW h, NEW r \in DOMAIN h
  PROVE  /\ Reached(h, r) \subseteq DOMAIN h /\ r \in Reached(h, r)
         /\ \A g : DOMAIN g = DOMAIN h /\ (\A i \in DOMAIN h : g[i].owners = h[i].owners)
                     => Reached(g, r) = Reached(h, r)
<1>1. \A set : Below(h, set) \subseteq DOMAIN h
  BY DEF Below
<1>2. ASSUME NEW g, DOMAIN g = DOMAIN h, \A i \in DOMAIN h : g[i].owners = h[i].owners
      PROVE  Reached(g, r) = Reached(h, r)
  <2>1. \A set : Below(g, set) = Below(h, set)
    BY <1>2 DEF Below
  <2> QED
    BY <2>1 DEF Reached
<1>3. Reached(h, r) \subseteq DOMAIN h /\ r \in Reached(h, r)
  BY <1>1 DEF Reached
<1> QED
  BY <1>2, <1>3

\* Freeing some blocks counts for these alone.
LEMMA Freeing ==
  ASSUME HeapOK, NEW set
  PROVE  LET h == FreedAll(set)
         IN /\ h \in Seq(Blocks) /\ h # <<>> /\ DOMAIN h = DOMAIN heap
            /\ \A i \in DOMAIN heap :
                 /\ h[i].kind = heap[i].kind /\ h[i].owners = heap[i].owners
                 /\ h[i].freed = IF i \in set THEN heap[i].freed + 1 ELSE heap[i].freed
            /\ h[RECORD].kind = "record"
            /\ Reached(h, RECORD) = Reached(heap, RECORD)
            /\ set \cap DOMAIN heap = {} => h = heap
<1> DEFINE h == FreedAll(set)
           B(i) == [heap[i] EXCEPT !.freed = @ + 1]
<1>1. /\ Len(heap) \in Nat /\ DOMAIN heap = 1 .. Len(heap) /\ RECORD \in DOMAIN heap
      /\ \A i \in DOMAIN heap : heap[i] \in Blocks
  BY DEF HeapOK, RECORD
<1>2. ASSUME NEW i \in DOMAIN heap
      PROVE  /\ B(i) \in Blocks /\ B(i).kind = heap[i].kind
             /\ B(i).freed = heap[i].freed + 1 /\ B(i).owners = heap[i].owners
  <2>1. heap[i] \in Blocks /\ 0 \in Nat
    BY <1>1
  <2> QED
    BY <2>1, ChangedBlock
<1> HIDE DEF B
<1>3. h = [i \in 1 .. Len(heap) |-> IF i \in set THEN B(i) ELSE heap[i]]
  BY <1>1 DEF FreedAll, B
<1> HIDE DEF h
<1>4. /\ DOMAIN h = DOMAIN heap
      /\ \A i \in DOMAIN heap : h[i] = IF i \in set THEN B(i) ELSE heap[i]
  BY <1>1, <1>3
<1>5. \A i \in DOMAIN heap :
        /\ h[i] \in Blocks
        /\ h[i].kind = heap[i].kind /\ h[i].owners = heap[i].owners
        /\ h[i].freed = IF i \in set THEN heap[i].freed + 1 ELSE heap[i].freed
  BY <1>1, <1>2, <1>4
<1>6. h \in Seq(Blocks) /\ h # <<>>
  <2>1. h \in [1 .. Len(heap) -> Blocks]
    BY <1>1, <1>3, <1>4, <1>5
  <2>2. h \in Seq(Blocks)
    BY <1>1, <2>1
  <2> QED
    BY <1>1, <1>4, <2>2
<1>7. h[RECORD].kind = "record"
  BY <1>1, <1>5 DEF HeapOK
<1>8. Reached(h, RECORD) = Reached(heap, RECORD)
  BY <1>1, <1>4, <1>5, ReachedBlocks
<1>9. set \cap DOMAIN heap = {} => h = heap
  <2> SUFFICES ASSUME set \cap DOMAIN heap = {} PROVE h = heap
    OBVIOUS
  <2>1. h = [i \in 1 .. Len(heap) |-> heap[i]]
    BY <1>1, <1>3
  <2> QED
    BY <1>1, <2>1 DEF HeapOK
<1> QED
  BY <1>4, <1>5, <1>6, <1>7, <1>8, <1>9 DEF h

\* Of what is fresh nothing was freed.
LEMMA FreshIsHeld ==
  ASSUME Fresh(heap)
  PROVE  HeapOK /\ RecordHeld /\ RecordFreed
<1>1. HeapOK /\ RECORD \in DOMAIN heap
  BY DEF Fresh, HeapOK, RECORD
<1>2. Reached(heap, RECORD) \subseteq DOMAIN heap
  BY <1>1, ReachedBlocks
<1> QED
  BY <1>1, <1>2 DEF Fresh, RecordHeld, RecordFreed

-----------------------------------------------------------------------------
\* Nothing of the memory changes.
LEMMA BlocksRest ==
  ASSUME MemoryInv, FileInv', ReaderFrame, UNCHANGED <<heap, clone, client, cloned>>,
         status' \in {EXIT_SUCCESS, EXIT_FAILURE},
         RecordHeld \/ at' = at \/ at' = "exit",
         at' = "free" => pc = "done"
  PROVE  MemoryInv'
<1>1. LocalsInv'
  BY DEF MemoryInv, LocalsInv, ReaderFrame
<1>2. HeapOK' /\ CloneInv'
  BY DEF MemoryInv, HeapOK, CloneInv, HasCodes
<1>3. HeldInv'
  BY DEF MemoryInv, HeldInv, RecordHeld, ReaderFrame
<1>4. ~ SharesCodes' => (RecordHeld' => Fresh(heap')) /\ RecordFreed' /\ CloneFreed'
  BY DEF MemoryInv, SharesCodes, RecordHeld, RecordFreed, CloneHeld, CloneFreed, ReaderFrame
<1> QED
  BY <1>1, <1>2, <1>3, <1>4 DEF MemoryInv

\* While a record is read, nothing of it was freed, and there is no clone.
LEMMA ReadingIsFresh ==
  ASSUME MemoryInv, pc # "done" \/ client # "caller", RecordHeld
  PROVE  HeapInv /\ ~ cloned /\ clone = <<>>
BY DEF MemoryInv, HeldInv, HeapInv, SharesCodes, CloneInv

\* Fresh memory without a clone keeps all of this, before and after a step.
LEMMA FreshMemory ==
  ASSUME FileInv, at # "free", status \in {EXIT_SUCCESS, EXIT_FAILURE},
         HeapInv, ~ cloned, clone = <<>>
  PROVE  MemoryInv
<1>1. HeapOK /\ RecordHeld /\ RecordFreed
  BY FreshIsHeld DEF HeapInv
<1>2. HeldInv
  BY <1>1 DEF HeldInv
<1>3. CloneInv /\ CloneFreed
  BY DEF CloneInv, CloneFreed
<1> QED
  BY <1>1, <1>2, <1>3 DEF MemoryInv, HeapInv

\* The same of the next state.
LEMMA FreshMemoryNext ==
  ASSUME FileInv', at' # "free", status' \in {EXIT_SUCCESS, EXIT_FAILURE},
         HeapInv', ~ cloned', clone' = <<>>
  PROVE  MemoryInv'
<1>1. HeapOK' /\ RecordHeld' /\ RecordFreed'
  <2>1. Fresh(heap')
    BY DEF HeapInv
  <2>2. HeapOK' /\ RECORD \in DOMAIN heap'
    BY <2>1 DEF Fresh, HeapOK, RECORD
  <2>3. Reached(heap', RECORD) \subseteq DOMAIN heap'
    BY <2>2, ReachedBlocks
  <2> QED
    BY <2>1, <2>2, <2>3 DEF Fresh, RecordHeld, RecordFreed
<1>2. HeldInv'
  BY <1>1 DEF HeldInv
<1>3. CloneInv' /\ CloneFreed'
  BY DEF CloneInv, CloneFreed
<1> QED
  BY <1>1, <1>2, <1>3 DEF MemoryInv, HeapInv

\* A step of the reader.
LEMMA ReadKeepsMemory == ASSUME MemoryInv, FileInv', ReadStep PROVE MemoryInv'
<1>1. ReadNext /\ UNCHANGED client_vars /\ ReaderInv
  BY DEF ReadStep, MemoryInv, FileInv
<1>2. pc # "done"
  BY <1>1 DEF ReadNext, ReadHeader, StartPart, ReadPartHeader, ReadPoint, ReadTail, ReadData,
    ReadImage, ReadCode, ReadScleraLength
<1>3. RecordHeld
  BY <1>2 DEF MemoryInv, HeldInv
<1>4. HeapInv /\ ~ cloned /\ clone = <<>>
  BY <1>2, <1>3, ReadingIsFresh
<1>5. HeapInv'
  BY <1>1, <1>4, ReaderKeepsHeap
<1> QED
  BY <1>1, <1>4, <1>5, FreshMemoryNext DEF ReadStep, client_vars, MemoryInv

\* The next record.
LEMMA NewKeepsMemory == ASSUME MemoryInv, FileInv', New PROVE MemoryInv'
<1>1. CASE at' = "loop"
  <2>1. /\ heap' = Begun /\ pc' = "header"
        /\ declared' = 0 /\ part' = 0 /\ image' = 0 /\ todo' = 0
        /\ UNCHANGED <<status, clone, cloned>>
    BY <1>1 DEF New, Exit
  <2>2. ~ cloned /\ clone = <<>>
    BY DEF New, MemoryInv, FileInv, HeldInv, CloneInv
  <2>3. 0 \in Halfwords
    BY DEF Halfwords
  <2>4. HeapInv'
    BY <2>1, <2>3, BegunIsFresh DEF HeapInv, LocalsInv
  <2> QED
    BY <1>1, <2>1, <2>2, <2>4, FreshMemoryNext DEF MemoryInv
<1>2. CASE at' # "loop"
  <2>1. at' = "exit" /\ status' = EXIT_FAILURE /\ UNCHANGED <<image_vars, client, clone, cloned>>
    BY <1>2 DEF New, Exit
  <2> QED
    BY <2>1, BlocksRest DEF image_vars, ReaderFrame
<1> QED
  BY <1>1, <1>2

\* Freeing a record that is held frees all of it once.
LEMMA RecordIsFreed ==
  ASSUME MemoryInv, FileInv', ReaderFrame, RecordHeld, heap' = Freed,
         UNCHANGED <<client, status, clone, cloned>>,
         pc = "done", client = "caller" \/ at' = "new"
  PROVE  MemoryInv'
<1> DEFINE h == FreedAll(FreedBlocks)
<1>1. heap' = h
  BY DEF Freed
<1>2. /\ h \in Seq(Blocks) /\ h # <<>> /\ DOMAIN h = DOMAIN heap
      /\ \A i \in DOMAIN heap :
           /\ h[i].kind = heap[i].kind /\ h[i].owners = heap[i].owners
           /\ h[i].freed = IF i \in FreedBlocks THEN heap[i].freed + 1 ELSE heap[i].freed
      /\ h[RECORD].kind = "record"
      /\ Reached(h, RECORD) = Reached(heap, RECORD)
  BY Freeing DEF MemoryInv
<1> HIDE DEF h
<1>3. RECORD \in DOMAIN heap /\ heap[RECORD].kind = "record" /\ heap[RECORD].freed = 0
  BY DEF MemoryInv, HeapOK, RECORD, RecordHeld
<1>4. Reached(heap, RECORD) \subseteq DOMAIN heap /\ RECORD \in Reached(heap, RECORD)
  BY <1>3, ReachedBlocks
<1>5. RECORD \in FreedBlocks
  BY <1>3, <1>4 DEF FreedBlocks
<1>6. ~ RecordHeld'
  BY <1>1, <1>2, <1>3, <1>5 DEF RecordHeld
<1>7. LocalsInv' /\ HeapOK'
  BY <1>1, <1>2 DEF MemoryInv, LocalsInv, HeapOK, ReaderFrame
<1>8. HeldInv'
  BY DEF MemoryInv, HeldInv, ReaderFrame
<1>9. (HasCodes <=> HasCodes') /\ CloneInv'
  BY <1>1, <1>2 DEF MemoryInv, CloneInv, HasCodes
<1>10. ASSUME ~ SharesCodes' PROVE RecordFreed' /\ CloneFreed'
  <2>1. Fresh(heap) /\ CloneFreed
    BY <1>9, <1>10 DEF MemoryInv, SharesCodes, HasCodes
  <2>2. RecordFreed'
    BY <1>1, <1>2, <1>4, <1>6, <2>1 DEF RecordFreed, FreedBlocks, Fresh, ReaderFrame
  <2>3. CloneFreed'
    BY <2>1 DEF CloneFreed, CloneHeld
  <2> QED
    BY <2>2, <2>3
<1> QED
  BY <1>6, <1>7, <1>8, <1>9, <1>10 DEF MemoryInv

\* The program frees the record that it validated.
LEMMA FreeKeepsMemory == ASSUME MemoryInv, FileInv', Free PROVE MemoryInv'
<1>1. RecordHeld /\ pc = "done"
  BY DEF Free, MemoryInv, FileInv, HeldInv
<1> QED
  BY <1>1, RecordIsFreed DEF Free

\* A caller frees the record.
LEMMA FreeRecordKeepsMemory == ASSUME MemoryInv, FileInv', FreeRecord PROVE MemoryInv'
BY RecordIsFreed DEF FreeRecord, CallerGot, client_vars

\* Copies of the kinds of blocks.
LEMMA Copies ==
  ASSUME NEW i \in DOMAIN heap, heap[i].kind \in Kinds, NEW cloneimg \in BOOLEAN
  PROVE  /\ CopyBlock(i, cloneimg) \in [kind : CloneKinds, freed : Nat]
         /\ CopyBlock(i, cloneimg).freed = 0
         /\ CopyBlock(i, cloneimg).kind = "shared" => heap[i].kind \in CodeKinds
         /\ heap[i].kind = "record" => CopyBlock(i, cloneimg).kind = "record"
BY DEF CopyBlock, CloneKinds, Kinds, CodeKinds

\* A record is cloned, or not for want of memory.
LEMMA CloneKeepsMemory == ASSUME MemoryInv, FileInv', CloneRecord PROVE MemoryInv'
<1>1. /\ client = "caller" /\ pc = "done" /\ RecordHeld /\ ~ cloned /\ cloned' = TRUE
      /\ ReaderFrame /\ UNCHANGED <<client, at, status>>
  BY DEF CloneRecord, CallerGot
<1>2. Fresh(heap) /\ clone = <<>> /\ HeapOK /\ RECORD \in DOMAIN heap
  BY <1>1, ReadingIsFresh DEF MemoryInv, SharesCodes, CloneInv, Fresh, RECORD
<1>3. LocalsInv' /\ at # "free"
  BY <1>1 DEF MemoryInv, FileInv, LocalsInv, ReaderFrame
<1>4. ASSUME NEW cloneimg \in BOOLEAN,
             clone' = [i \in DOMAIN heap |-> CopyBlock(i, cloneimg)], UNCHANGED heap
      PROVE  MemoryInv'
  <2>1. \A i \in DOMAIN heap : heap[i].kind \in Kinds
    <3>1. \A i \in DOMAIN heap : heap[i] \in Blocks
      BY <1>2 DEF HeapOK
    <3> QED
      BY <3>1 DEF Blocks
  <2>2. /\ DOMAIN clone' = DOMAIN heap
        /\ \A i \in DOMAIN heap :
             /\ clone'[i] \in [kind : CloneKinds, freed : Nat] /\ clone'[i].freed = 0
             /\ clone'[i].kind = "shared" => HasCodes'
             /\ heap[i].kind = "record" => clone'[i].kind = "record"
    BY <1>4, <2>1, Copies DEF HasCodes
  <2>3. CloneInv'
    BY <1>1, <1>2, <2>2 DEF CloneInv, HeapOK
  <2>4. CloneHeld' /\ CloneFreed'
    BY <1>2, <2>2 DEF CloneHeld, CloneFreed
  <2>5. HeapOK' /\ Fresh(heap') /\ RecordHeld' /\ RecordFreed'
    BY <1>1, <1>2, <1>4, FreshIsHeld DEF HeapOK, RecordHeld, RecordFreed, ReaderFrame
  <2>6. HeldInv'
    BY <1>1, <1>3, <2>5 DEF HeldInv, ReaderFrame
  <2> QED
    BY <1>1, <1>3, <2>3, <2>4, <2>5, <2>6 DEF MemoryInv
<1>5. ASSUME NEW n \in DOMAIN heap, UNCHANGED clone,
             heap' = FreedAll({i \in DOMAIN heap : /\ heap[i].kind \in CodeKinds
                                                   /\ \A j \in heap[i].owners : j <= n})
      PROVE  MemoryInv'
  <2> DEFINE set == {i \in DOMAIN heap : /\ heap[i].kind \in CodeKinds
                                         /\ \A j \in heap[i].owners : j <= n}
  <2>1. /\ heap' \in Seq(Blocks) /\ heap' # <<>> /\ DOMAIN heap' = DOMAIN heap
        /\ \A i \in DOMAIN heap :
             /\ heap'[i].kind = heap[i].kind
             /\ heap'[i].freed = IF i \in set THEN heap[i].freed + 1 ELSE heap[i].freed
        /\ heap'[RECORD].kind = "record"
        /\ set \cap DOMAIN heap = {} => heap' = heap
    BY <1>2, <1>5, Freeing
  <2>2. HeapOK' /\ RecordHeld'
    BY <1>1, <1>2, <2>1 DEF HeapOK, RecordHeld, CodeKinds
  <2>3. HeldInv'
    BY <1>1, <1>3, <2>2 DEF HeldInv, ReaderFrame
  <2>4. CloneInv' /\ CloneFreed'
    BY <1>2, <1>5 DEF CloneInv, CloneFreed
  <2>5. ASSUME ~ SharesCodes' PROVE Fresh(heap') /\ RecordFreed'
    <3>1. heap' = heap
      BY <1>1, <2>1, <2>5 DEF SharesCodes
    <3> QED
      BY <1>1, <1>2, <3>1, FreshIsHeld DEF RecordHeld, RecordFreed, ReaderFrame
  <2> QED
    BY <1>1, <1>3, <2>2, <2>3, <2>4, <2>5 DEF MemoryInv
<1> QED
  BY <1>4, <1>5 DEF CloneRecord

\* Freeing a clone frees its blocks once, and of the record at most the codes.
LEMMA FreeCloneKeepsMemory == ASSUME MemoryInv, FileInv', FreeClone PROVE MemoryInv'
<1> DEFINE B(i) == [clone[i] EXCEPT !.freed = @ + 1]
           set == {i \in DOMAIN clone : clone[i].kind = "shared"}
<1>1. /\ client = "caller" /\ pc = "done" /\ CloneHeld
      /\ clone' = [i \in DOMAIN clone |-> IF clone[i].kind \in Kinds THEN B(i) ELSE clone[i]]
      /\ heap' = FreedAll(set)
      /\ ReaderFrame /\ UNCHANGED <<client, at, status, cloned>>
  BY DEF FreeClone, CallerGot
<1>2. /\ cloned /\ RECORD \in DOMAIN clone /\ clone[RECORD].kind = "record"
      /\ clone[RECORD].freed = 0
      /\ \A i \in DOMAIN clone :
           clone[i] \in [kind : CloneKinds, freed : Nat] /\ (clone[i].kind = "shared" => HasCodes)
  BY <1>1 DEF MemoryInv, CloneInv, CloneHeld
<1>3. ASSUME NEW i \in DOMAIN clone
      PROVE  /\ B(i) \in [kind : CloneKinds, freed : Nat]
             /\ B(i).kind = clone[i].kind /\ B(i).freed = clone[i].freed + 1
  BY <1>2
<1> HIDE DEF B
<1>4. /\ DOMAIN clone' = DOMAIN clone
      /\ \A i \in DOMAIN clone :
           /\ clone'[i] \in [kind : CloneKinds, freed : Nat] /\ clone'[i].kind = clone[i].kind
           /\ clone'[i].freed = IF clone[i].kind \in Kinds THEN clone[i].freed + 1
                                                          ELSE clone[i].freed
  BY <1>1, <1>2, <1>3
<1>5. /\ heap' \in Seq(Blocks) /\ heap' # <<>> /\ DOMAIN heap' = DOMAIN heap
      /\ \A i \in DOMAIN heap :
           /\ heap'[i].kind = heap[i].kind
           /\ heap'[i].freed = IF i \in set THEN heap[i].freed + 1 ELSE heap[i].freed
      /\ heap'[RECORD].kind = "record"
      /\ set \cap DOMAIN heap = {} => heap' = heap
  BY <1>1, Freeing DEF MemoryInv
<1>6. LocalsInv' /\ HeapOK'
  BY <1>1, <1>5 DEF MemoryInv, LocalsInv, HeapOK, ReaderFrame
<1>7. HeldInv'
  BY <1>1 DEF MemoryInv, HeldInv, FileInv, ReaderFrame
<1>8. HasCodes <=> HasCodes'
  BY <1>5 DEF HasCodes
<1>9. CloneInv'
  BY <1>1, <1>2, <1>4, <1>8 DEF CloneInv
<1>10. ASSUME ~ SharesCodes'
       PROVE  (RecordHeld' => Fresh(heap')) /\ RecordFreed' /\ CloneFreed'
  <2>1. ~ HasCodes /\ ~ SharesCodes
    BY <1>1, <1>2, <1>8, <1>10 DEF SharesCodes, HasCodes
  <2>2. \A i \in DOMAIN clone : clone[i].kind # "shared"
    BY <1>2, <2>1
  <2>3. heap' = heap
    BY <1>5, <2>2
  <2>4. (RecordHeld' => Fresh(heap')) /\ RecordFreed'
    BY <1>1, <2>1, <2>3 DEF MemoryInv, RecordHeld, RecordFreed, ReaderFrame
  <2>5. \A i \in DOMAIN clone : clone[i].freed = 0
    BY <1>1, <2>1 DEF MemoryInv, CloneFreed
  <2>6. ~ CloneHeld' /\ \A i \in DOMAIN clone : clone[i].kind \in Kinds \/ clone[i].kind = "null"
    BY <1>2, <1>4, <2>2, <2>5 DEF CloneHeld, CloneKinds, Kinds
  <2>7. "null" \notin Kinds
    BY DEF Kinds, CodeKinds
  <2> QED
    BY <1>4, <2>4, <2>5, <2>6, <2>7 DEF CloneFreed
<1> QED
  BY <1>1, <1>6, <1>7, <1>9, <1>10 DEF MemoryInv

\* The other steps of the programs leave memory alone.
LEMMA ClientKeepsMemory ==
  ASSUME MemoryInv, FileInv', Loop \/ ReadFailed \/ Validate \/ UNCHANGED file_vars
  PROVE  MemoryInv'
<1>1. ReaderFrame /\ UNCHANGED <<heap, clone, client, cloned>>
  BY DEF Loop, ReadFailed, Validate, file_vars, image_vars, client_vars, ReaderFrame
<1>2. status' \in {EXIT_SUCCESS, EXIT_FAILURE}
  BY DEF MemoryInv, Loop, ReadFailed, Validate, file_vars, client_vars, Exit
<1>3. (RecordHeld \/ at' = at \/ at' = "exit") /\ (at' = "free" => pc = "done")
  BY DEF MemoryInv, HeldInv, FileInv, Loop, ReadFailed, Validate, file_vars, client_vars, Exit
<1> QED
  BY <1>1, <1>2, <1>3, BlocksRest

\* Before anything is read.
LEMMA InitMemory == FInit => MemoryInv
<1> SUFFICES ASSUME FInit PROVE MemoryInv
  OBVIOUS
<1>1. FileInv /\ heap = Begun /\ 0 \in Halfwords /\ pc = "header"
  BY InitFile DEF FInit, Init, Begin, Halfwords
<1>2. HeapInv
  BY <1>1, BegunIsFresh DEF FInit, Init, Begin, HeapInv, LocalsInv
<1> QED
  BY <1>1, <1>2, FreshMemory DEF FInit

\* The types, from what is known.
LEMMA MemoryTypes == ASSUME MemoryInv PROVE TypeOK
<1>1. ReaderTypeOK
  <2>1. parts \in 0 .. declared
    BY DEF MemoryInv, FileInv, ReaderInv, CountInv, Pcs
  <2>2. start \in 0 .. end /\ current \in start .. end
    BY DEF MemoryInv, FileInv, ReaderInv, CursorInv
  <2> QED
    BY <2>1, <2>2
    DEF MemoryInv, FileInv, ReaderInv, CountInv, CursorInv, LocalsInv, HeapOK, ReaderTypeOK
<1>2. ClientTypeOK
  BY DEF MemoryInv, FileInv, CloneInv, CloneKinds, ClientTypeOK
<1> QED
  BY <1>1, <1>2 DEF TypeOK

-----------------------------------------------------------------------------
(***************************************************************************)
(* What hangs on the record, while it is read and after that: freeing      *)
(* marks blocks, and leaves the tree of them as it is.                     *)
(***************************************************************************)
\* The tree is the same in the next state.
SameTree ==
  /\ heap' \in Seq(Blocks) /\ DOMAIN heap' = DOMAIN heap
  /\ \A i \in DOMAIN heap : /\ heap'[i].kind = heap[i].kind
                            /\ heap'[i].owners = heap[i].owners
                            /\ heap'[i].size = heap[i].size

\* The tree that the reader left is still there.
LEMMA TreeRests ==
  ASSUME TreeInv, ReaderFrame, SameTree
  PROVE  TreeInv'
<1>1. heap \in Seq(Blocks) /\ heap # <<>> /\ Tree(heap, Loose)
  BY DEF TreeInv, Tree
<1>2. SizesOf(heap') = SizesOf(heap)
  BY <1>1, SizesSame DEF SameTree
<1>3. Tree(heap', Loose) /\ Listed(heap') = Listed(heap)
  BY <1>1, TreeSame DEF SameTree
<1>4. Len(heap') = Len(heap)
  BY <1>1 DEF SameTree
<1>5. Loose' = Loose /\ (ImageInHand' <=> ImageInHand)
  BY <1>4 DEF Loose, ImageInHand, ReaderFrame
<1>6. \A x, kind : InHand(heap, x, kind) => InHand(heap', x, kind)
  BY DEF InHand, SameTree
<1> QED BY <1>2, <1>3, <1>5, <1>6 DEF TreeInv, ReaderFrame

\* Freeing some blocks.
LEMMA FreeingIsSameTree ==
  ASSUME MemoryInv, NEW set, heap' = FreedAll(set)
  PROVE  SameTree
<1>1. /\ heap' \in Seq(Blocks) /\ DOMAIN heap' = DOMAIN heap
      /\ \A i \in DOMAIN heap : heap'[i].kind = heap[i].kind /\ heap'[i].owners = heap[i].owners
  BY Freeing DEF MemoryInv
<1>2. ASSUME NEW i \in DOMAIN heap PROVE heap'[i].size = heap[i].size
  <2>1. heap[i] \in Blocks
    <3>1. heap \in Seq(Blocks) /\ heap # <<>>
      BY DEF MemoryInv, HeapOK
    <3> QED BY <3>1, TreeBlocks
  <2>2. heap'[i] = IF i \in set THEN [heap[i] EXCEPT !.freed = @ + 1] ELSE heap[i]
    BY DEF FreedAll
  <2>3. [heap[i] EXCEPT !.freed = @ + 1].size = heap[i].size
    BY <2>1 DEF Blocks
  <2> QED BY <2>2, <2>3
<1> QED BY <1>1, <1>2 DEF SameTree

\* Nothing changes in memory.
LEMMA SameHeapIsSameTree == ASSUME MemoryInv, UNCHANGED heap PROVE SameTree
BY DEF SameTree, MemoryInv, HeapOK

\* A step of the reader.
LEMMA ReadKeepsTree == ASSUME MemoryInv, TreeInv, ReadStep PROVE TreeInv'
<1>1. ReadNext /\ ReaderInv
  BY DEF ReadStep, MemoryInv, FileInv
<1>2. pc # "done"
  BY <1>1 DEF ReadNext, ReadHeader, StartPart, ReadPartHeader, ReadPoint, ReadTail, ReadData,
    ReadImage, ReadCode, ReadScleraLength
<1>3. RecordHeld
  BY <1>2 DEF MemoryInv, HeldInv
<1>4. HeapInv
  BY <1>2, <1>3, ReadingIsFresh
<1> QED BY <1>1, <1>4, ReaderKeepsTree

\* The next record.
LEMMA NewKeepsTree == ASSUME MemoryInv, TreeInv, New PROVE TreeInv'
<1>1. CASE at' = "loop"
  <2>1. /\ heap' = Begun /\ pc' = "header" /\ parts' = 0
        /\ start' = current /\ current' = current /\ current \in Nat
    BY <1>1 DEF New, Exit, MemoryInv, FileInv, ReaderInv, CursorInv
  <2>2. pc' \notin InPart /\ ~ ImageInHand' /\ pc' \notin {"done", "image"}
    BY <2>1 DEF InPart, ImageInHand
  <2>3. Loose' = {}
    BY <2>2 DEF Loose
  <2>4. current' = start' + SizesOf(heap')
    BY <2>1, BegunIsTree
  <2> QED BY <2>1, <2>2, <2>3, <2>4, BegunIsTree DEF TreeInv
<1>2. CASE at' # "loop"
  <2>1. UNCHANGED image_vars
    BY <1>2 DEF New
  <2> QED BY <2>1, SameHeapIsSameTree, TreeRests DEF image_vars, ReaderFrame
<1> QED BY <1>1, <1>2

\* The steps of programs and callers, that free, clone or leave memory alone.
LEMMA ClientKeepsTree ==
  ASSUME MemoryInv, TreeInv,
         \/ Loop \/ ReadFailed \/ Validate \/ Free
         \/ CloneRecord \/ FreeClone \/ FreeRecord \/ UNCHANGED file_vars
  PROVE  TreeInv'
<1>1. ReaderFrame
  BY DEF Loop, ReadFailed, Validate, Free, CloneRecord, FreeClone, FreeRecord, file_vars,
    image_vars, ReaderFrame
<1>2. UNCHANGED heap \/ \E set : heap' = FreedAll(set)
  BY DEF Loop, ReadFailed, Validate, Free, CloneRecord, FreeClone, FreeRecord, Freed, file_vars,
    image_vars
<1>3. SameTree
  BY <1>2, SameHeapIsSameTree, FreeingIsSameTree
<1> QED BY <1>1, <1>3, TreeRests

\* Before anything is read.
LEMMA InitTree == FInit => TreeInv
<1> SUFFICES ASSUME FInit PROVE TreeInv
  OBVIOUS
<1>1. heap = Begun /\ pc = "header" /\ parts = 0 /\ current = 0 /\ start = 0
  BY DEF FInit, Init, Begin
<1>2. pc \notin InPart /\ ~ ImageInHand /\ Loose = {}
  BY <1>1 DEF InPart, ImageInHand, Loose
<1> QED BY <1>1, <1>2, BegunIsTree DEF TreeInv

\* When the record is done, its tree is what OnlyPartInHandIsLost speaks of.
LEMMA TreeIsEnough == ASSUME MemoryInv, TreeInv PROVE OnlyPartInHandIsLost
<1> SUFFICES ASSUME pc = "done"
             PROVE  /\ Cardinality(Below(heap, {RECORD})) = parts
                    /\ ret # READ_OK => Orphans \subseteq {part, image, Len(heap)}
                    /\ ret = READ_OK => /\ Reached(heap, RECORD) = DOMAIN heap
                                       /\ current - start = Size
  BY DEF OnlyPartInHandIsLost
<1>1. Tree(heap, Loose) /\ Cardinality(Listed(heap)) = parts
  BY DEF TreeInv
<1>2. ASSUME ret # READ_OK PROVE Orphans \subseteq {part, image, Len(heap)}
  <2>1. Loose = {part, image, Len(heap)}
    BY <1>2 DEF Loose
  <2> QED BY <1>1, <2>1 DEF Orphans, Tree
<1>3. ASSUME ret = READ_OK
      PROVE  Reached(heap, RECORD) = DOMAIN heap /\ current - start = Size
  <2>1. Loose = {}
    BY <1>3 DEF Loose, InPart, ImageInHand
  <2>2. Tree(heap, {}) /\ heap \in Seq(Blocks) /\ heap # <<>>
    BY <1>1, <2>1 DEF Tree
  <2>3. current = start + SizesOf(heap) /\ start \in Nat
    BY <1>3 DEF TreeInv, MemoryInv, FileInv, ReaderInv, CursorInv
  <2>4. SizesOf(heap) = Size
    BY DEF SizesOf, Size
  <2>5. SizesOf(heap) \in Nat
    BY <2>2, SizesAreNat
  <2> QED BY <2>2, <2>3, <2>4, <2>5, TreeIsReached
<1> QED BY <1>1, <1>2, <1>3 DEF Listed

-----------------------------------------------------------------------------
(***************************************************************************)
(* The theorems.                                                           *)
(***************************************************************************)

\* The invariant is inductive.
THEOREM FileInvariant == FSpec => []FileInv
<1>1. FileInv /\ [FNext]_file_vars => FileInv'
  BY StepKeeps DEF FileStep
<1> QED
  BY InitFile, <1>1, PTL DEF FSpec

\* A record that was read holds all the parts it declares (internal_read_fb and its like).
THEOREM ReadPromiseHolds == FSpec => []ReadPromise
<1>1. FileInv => ReadPromise
  <2> SUFFICES ASSUME FileInv PROVE ReadPromise
    OBVIOUS
  <2>1. CountInv
    BY DEF FileInv, ReaderInv
  <2>2. parts \in Nat /\ declared \in Nat /\ parts <= declared
    BY <2>1 DEF CountInv
  <2> DEFINE listed == [i \in 1 .. parts |-> "whole"]
  <2>3. Len(listed) = parts /\ DOMAIN listed = 1 .. parts /\ \A i \in 1 .. parts : listed[i] = "whole"
    BY <2>2, OneMore
  <2>4. pc = "done" /\ ret = READ_OK => parts = declared
    BY <2>1 DEF CountInv
  <2>5. ret \in {"READ_OK", "READ_EOF", "READ_ERROR"}
    BY <2>1, Codes DEF CountInv
  <2> QED
    BY <2>2, <2>3, <2>4, <2>5
    DEF ReadPromise, Abstract!Promise, READ_OK, READ_EOF, READ_ERROR
<1> QED
  BY <1>1, FileInvariant, PTL

\* Each reader implements RecordRead, record after record.
THEOREM ReadsRecordsHolds == FSpec => ReadsRecords
<1>1. FileInv /\ [FNext]_file_vars => [Abstract!RNext \/ New]_(Abstract!rvars)
  BY StepKeeps DEF FileStep
<1> QED
  BY <1>1, FileInvariant, PTL DEF FSpec, ReadsRecords

\* The exit status of firv, frfv and iibdbv tells of the whole file (main of these programs).
THEOREM SuccessIsCompleteHolds == FSpec => []SuccessIsComplete
<1>1. FileInv => SuccessIsComplete
  BY DEF FileInv, SuccessIsComplete
<1> QED
  BY <1>1, FileInvariant, PTL

\* What MemoryInv says of memory stays true.
LEMMA StepKeepsMemory == MemoryInv /\ [FNext]_file_vars => MemoryInv'
<1> SUFFICES ASSUME MemoryInv, [FNext]_file_vars PROVE MemoryInv'
  OBVIOUS
<1>1. FileInv'
  BY StepKeeps DEF MemoryInv, FileStep
<1> QED
  BY <1>1, ReadKeepsMemory, NewKeepsMemory, FreeKeepsMemory, FreeRecordKeepsMemory,
     CloneKeepsMemory, FreeCloneKeepsMemory, ClientKeepsMemory
  DEF FNext

\* What is held was not freed, and what was freed was freed once (free_fir, free_fb,
\* free_iibdb, clone_iibdb), for every format, wire, failure and order of the calls.
THEOREM MemoryIsFreedOnceHolds == FSpec => []MemoryIsFreedOnce
<1>1. MemoryInv => MemoryIsFreedOnce
  BY MemoryTypes DEF MemoryInv, RecordFreed, CloneFreed, MemoryIsFreedOnce
<1> QED
  BY InitMemory, StepKeepsMemory, <1>1, PTL DEF FSpec

\* Nothing of a record that was read is lost, and of one that was not only the part in hand
\* (internal_read_fb, internal_read_iibdb, read_fir and below).
THEOREM OnlyPartInHandIsLostHolds == FSpec => []OnlyPartInHandIsLost
<1>1. (MemoryInv /\ TreeInv) /\ [FNext]_file_vars => (MemoryInv /\ TreeInv)'
  <2> SUFFICES ASSUME MemoryInv, TreeInv, [FNext]_file_vars PROVE (MemoryInv /\ TreeInv)'
    OBVIOUS
  <2>1. MemoryInv'
    BY StepKeepsMemory
  <2>2. TreeInv'
    BY ReadKeepsTree, NewKeepsTree, ClientKeepsTree DEF FNext
  <2> QED BY <2>1, <2>2
<1>2. MemoryInv /\ TreeInv => OnlyPartInHandIsLost
  BY TreeIsEnough
<1> QED
  BY InitMemory, InitTree, <1>1, <1>2, PTL DEF FSpec

-----------------------------------------------------------------------------
(* Lists of pieces.                                                        *)

PieceKinds == {"all", "fields", "properties", "image_length"}
Pieces     == [block : Nat, piece : PieceKinds, size : Nat]
PieceLists == Seq(Pieces)

\* Two lists, one behind the other.
Join(a, b) == a \o b

\* What the proofs need of lists put together.
LEMMA Joined ==
  /\ <<>> \in PieceLists
  /\ \A a \in PieceLists : Join(a, <<>>) = a /\ Join(<<>>, a) = a
  /\ \A a, b \in PieceLists : Join(a, b) \in PieceLists
  /\ \A a, b, c \in PieceLists : Join(Join(a, b), c) = Join(a, Join(b, c))
<1> USE DEF PieceLists, Join
<1>1. \A a, b, c \in PieceLists : Join(Join(a, b), c) = Join(a, Join(b, c))
  BY ConcatAssociative
<1> QED BY <1>1

\* A piece, and a list of one.
LEMMA PieceType ==
  ASSUME NEW k \in Nat, NEW kind \in PieceKinds, NEW n \in Nat
  PROVE  /\ Piece(k, kind, n) \in Pieces /\ <<Piece(k, kind, n)>> \in PieceLists
         /\ Piece(k, kind, n).block = k /\ Piece(k, kind, n).piece = kind
         /\ Piece(k, kind, n).size = n
<1>1. Piece(k, kind, n) \in Pieces
  BY DEF Piece, Pieces
<1>2. \A p \in Pieces : <<p>> \in PieceLists
  BY DEF PieceLists
<1> QED BY <1>1, <1>2 DEF Piece

\* The bytes of lists put together.
LEMMA BytesJoined ==
  ASSUME NEW a \in PieceLists, NEW b \in PieceLists
  PROVE  Bytes(a) \in Nat /\ Bytes(Join(a, b)) = Bytes(a) + Bytes(b)
<1> DEFINE sizes(s) == [k \in DOMAIN s |-> s[k].size]
<1>1. \A s \in PieceLists :
        /\ Len(s) \in Nat /\ DOMAIN s = 1 .. Len(s)
        /\ \A k \in 1 .. Len(s) : s[k].size \in Nat
  <2>1. \A p \in Pieces : p.size \in Nat
    BY DEF Pieces
  <2>2. \A s \in PieceLists : \A k \in 1 .. Len(s) : s[k] \in Pieces
    BY DEF PieceLists
  <2>3. \A s \in PieceLists : Len(s) \in Nat /\ DOMAIN s = 1 .. Len(s)
    BY DEF PieceLists
  <2> QED BY <2>1, <2>2, <2>3
<1>2. ASSUME NEW s \in PieceLists
      PROVE  /\ sizes(s) \in Seq(Int) /\ Len(sizes(s)) = Len(s) /\ DOMAIN sizes(s) = 1 .. Len(s)
             /\ \A k \in 1 .. Len(s) : sizes(s)[k] \in Nat /\ sizes(s)[k] = s[k].size
  <2> DEFINE w == sizes(s)
             n == Len(s)
  <2>1. n \in Nat /\ w = [k \in 1 .. n |-> s[k].size] /\ \A k \in 1 .. n : s[k].size \in Nat
    BY <1>1
  <2> HIDE DEF w, n
  <2>2. DOMAIN w = 1 .. n /\ \A k \in 1 .. n : w[k] \in Nat /\ w[k] = s[k].size
    BY <2>1
  <2>3. w \in Seq(Int) /\ Len(w) = n
    BY <2>1
  <2> QED BY <2>2, <2>3 DEF w, n
<1>3. ASSUME NEW s \in PieceLists PROVE SumFunction(sizes(s)) \in Nat
  <2> DEFINE w == sizes(s)
  <2>1. Len(s) \in Nat /\ DOMAIN w = 1 .. Len(s) /\ \A k \in 1 .. Len(s) : w[k] \in Nat
    BY <1>1, <1>2
  <2> HIDE DEF w
  <2>2. SumFunction(w) \in Nat
    BY <2>1, SumType
  <2> QED BY <2>2 DEF w
<1>4. sizes(a \o b) = sizes(a) \o sizes(b)
  <2>1. a \o b \in PieceLists /\ Len(a \o b) = Len(a) + Len(b)
    BY DEF PieceLists
  <2> DEFINE l == sizes(a \o b)
             u == sizes(a)
             v == sizes(b)
             r == u \o v
  <2>2. l \in Seq(Int) /\ Len(l) = Len(a) + Len(b)
    BY <1>2, <2>1
  <2>3. u \in Seq(Int) /\ v \in Seq(Int) /\ Len(u) = Len(a) /\ Len(v) = Len(b)
    BY <1>2
  <2>4. ASSUME NEW k \in 1 .. Len(a) + Len(b) PROVE l[k] = r[k]
    <3>1. l[k] = (a \o b)[k].size
      BY <1>2, <2>1
    <3>2. CASE k <= Len(a)
      <4>1. k \in 1 .. Len(a)
        BY <1>1, <3>2
      <4>2. (a \o b)[k] = a[k]
        BY <4>1 DEF PieceLists
      <4>3. u[k] = a[k].size
        BY <1>2, <4>1
      <4> HIDE DEF u, v
      <4>4. (u \o v)[k] = u[k]
        BY <2>3, <4>1
      <4> QED BY <3>1, <4>2, <4>3, <4>4
    <3>3. CASE ~ (k <= Len(a))
      <4>1. k - Len(a) \in 1 .. Len(b)
        BY <1>1, <3>3
      <4>2. (a \o b)[k] = b[k - Len(a)]
        BY <3>3, <4>1 DEF PieceLists
      <4>3. v[k - Len(a)] = b[k - Len(a)].size
        BY <1>2, <4>1
      <4> HIDE DEF u, v
      <4>4. (u \o v)[k] = v[k - Len(a)]
        BY <1>1, <2>3, <3>3, <4>1
      <4> QED BY <3>1, <4>2, <4>3, <4>4
    <3> QED BY <3>2, <3>3
  <2> HIDE DEF l, u, v
  <2>5. r \in Seq(Int) /\ Len(r) = Len(a) + Len(b)
    <3>1. \A s1, s2 \in Seq(Int) : s1 \o s2 \in Seq(Int) /\ Len(s1 \o s2) = Len(s1) + Len(s2)
      BY ConcatProperties
    <3> QED BY <2>3, <3>1
  <2> HIDE DEF r
  <2>6. l = r
    BY <2>2, <2>4, <2>5, SeqEqual
  <2> QED BY <2>6 DEF l, u, v, r
<1>5. SumFunction(sizes(a) \o sizes(b)) = SumFunction(sizes(a)) + SumFunction(sizes(b))
  BY <1>2, SumConcat
<1> QED BY <1>3, <1>4, <1>5 DEF Bytes, Join

\* The bytes of one piece.
LEMMA BytesOfOne ==
  ASSUME NEW p \in Pieces
  PROVE  Bytes(<<p>>) = p.size /\ Bytes(<<>>) = 0
<1> DEFINE w == [k \in DOMAIN <<p>> |-> <<p>>[k].size]
           none == [k \in DOMAIN <<>> |-> <<>>[k].size]
<1>1. p.size \in Nat
  BY DEF Pieces
<1>2. DOMAIN none = 1 .. 0 /\ DOMAIN w = 1 .. 0 + 1 /\ w[0 + 1] = p.size /\ w[1] = p.size
  OBVIOUS
<1>3. Bytes(<<p>>) = SumFunction(w) /\ Bytes(<<>>) = SumFunction(none)
  BY DEF Bytes
<1> HIDE DEF w, none
<1>4. Weights(w, 0 + 1)
  BY <1>1, <1>2 DEF Weights
<1>5. SumFunction(none) = 0
  BY <1>2, SumType
<1>6. SumFunction(w) = SumFunction(none) + w[0 + 1]
  <2>1. 0 \in Nat /\ \A k \in 1 .. 0 : w[k] = none[k]
    OBVIOUS
  <2> QED BY ONLY <1>2, <1>4, <2>1, SumGrows
<1> QED BY <1>1, <1>2, <1>3, <1>5, <1>6

\* A piece more at the end.
LEMMA Appended ==
  ASSUME NEW s \in PieceLists, NEW e \in Pieces
  PROVE  /\ Append(s, e) = Join(s, <<e>>) /\ <<e>> \in PieceLists /\ Append(s, e) \in PieceLists
         /\ Len(s) \in Nat /\ Len(Append(s, e)) = Len(s) + 1
         /\ \A k \in 1 .. Len(s) : Append(s, e)[k] = s[k]
         /\ Append(s, e)[Len(s) + 1] = e
BY DEF PieceLists, Join

-----------------------------------------------------------------------------
(* The pieces of memory, in the order of its lists.                        *)

\* Block k of memory h is one of this kind that belongs to block i.
IsOf(h, k, i, kind) == h[k].kind = kind /\ i \in h[k].owners

\* The pieces p[k] of all those, in the order of the list.
Strung(h, i, kind, p) ==
  FlattenSeq([k \in DOMAIN h |-> IF IsOf(h, k, i, kind) THEN p[k] ELSE <<>>])

\* There are pieces for each of them.
Known(h, i, kind, p) == \A k \in DOMAIN h : IsOf(h, k, i, kind) => p[k] \in PieceLists

\* The lists that are strung together.
LEMMA StrungLists ==
  ASSUME NEW h \in Seq(Blocks), NEW i, NEW kind, NEW p, Known(h, i, kind, p)
  PROVE  \E ss \in Seq(PieceLists) :
           /\ Strung(h, i, kind, p) = FlattenSeq(ss)
           /\ Len(ss) = Len(h) /\ Len(h) \in Nat /\ DOMAIN h = 1 .. Len(h)
           /\ \A k \in 1 .. Len(h) : ss[k] = IF IsOf(h, k, i, kind) THEN p[k] ELSE <<>>
<1> DEFINE one(k) == IF IsOf(h, k, i, kind) THEN p[k] ELSE <<>>
           ss == [k \in DOMAIN h |-> one(k)]
<1>1. Len(h) \in Nat /\ DOMAIN h = 1 .. Len(h)
  OBVIOUS
<1>2. \A k \in 1 .. Len(h) : one(k) \in PieceLists
  BY <1>1, Joined DEF Known
<1>3. Strung(h, i, kind, p) = FlattenSeq(ss)
  BY DEF Strung
<1>4. ss \in Seq(PieceLists) /\ Len(ss) = Len(h) /\ \A k \in 1 .. Len(h) : ss[k] = one(k)
  <2> HIDE DEF one
  <2> QED BY <1>1, <1>2
<1> QED BY <1>1, <1>3, <1>4

\* They are a list of pieces, and none if there is none of the kind.
LEMMA StrungType ==
  ASSUME NEW h \in Seq(Blocks), NEW i, NEW kind, NEW p, Known(h, i, kind, p)
  PROVE  /\ Strung(h, i, kind, p) \in PieceLists
         /\ (\A k \in DOMAIN h : ~ IsOf(h, k, i, kind)) => Strung(h, i, kind, p) = <<>>
<1>1. PICK ss \in Seq(PieceLists) :
        /\ Strung(h, i, kind, p) = FlattenSeq(ss)
        /\ Len(ss) = Len(h) /\ Len(h) \in Nat /\ DOMAIN h = 1 .. Len(h)
        /\ \A k \in 1 .. Len(h) : ss[k] = IF IsOf(h, k, i, kind) THEN p[k] ELSE <<>>
  BY StrungLists
<1>2. FlattenSeq(ss) \in PieceLists
  <2>1. <<>> \in Seq(Pieces)
    OBVIOUS
  <2> QED BY <2>1, FlattenSeqGrows DEF PieceLists
<1>3. ASSUME \A k \in DOMAIN h : ~ IsOf(h, k, i, kind) PROVE FlattenSeq(ss) = <<>>
  <2>1. \A k \in 1 .. Len(ss) : ss[k] = <<>>
    BY <1>1, <1>3
  <2> QED BY <2>1, FlattenNothing DEF PieceLists
<1> QED BY <1>1, <1>2, <1>3

\* Memory that has grown by blocks of other kinds, or of other owners.
LEMMA StrungKeeps ==
  ASSUME NEW h \in Seq(Blocks), NEW g \in Seq(Blocks), Len(h) <= Len(g),
         NEW i, NEW kind, NEW p, NEW q, Known(h, i, kind, p),
         \A k \in DOMAIN g : IsOf(g, k, i, kind) <=> k \in DOMAIN h /\ IsOf(h, k, i, kind),
         \A k \in DOMAIN h : IsOf(h, k, i, kind) => q[k] = p[k]
  PROVE  Strung(g, i, kind, q) = Strung(h, i, kind, p)
<1>1. PICK ss \in Seq(PieceLists) :
        /\ Strung(h, i, kind, p) = FlattenSeq(ss)
        /\ Len(ss) = Len(h) /\ Len(h) \in Nat /\ DOMAIN h = 1 .. Len(h)
        /\ \A k \in 1 .. Len(h) : ss[k] = IF IsOf(h, k, i, kind) THEN p[k] ELSE <<>>
  BY StrungLists
<1>2. DOMAIN g = 1 .. Len(g) /\ Len(g) \in Nat
  OBVIOUS
<1>3. Known(g, i, kind, q)
  BY <1>1, <1>2 DEF Known
<1>4. PICK tt \in Seq(PieceLists) :
        /\ Strung(g, i, kind, q) = FlattenSeq(tt)
        /\ Len(tt) = Len(g)
        /\ \A k \in 1 .. Len(g) : tt[k] = IF IsOf(g, k, i, kind) THEN q[k] ELSE <<>>
  BY <1>3, StrungLists
<1>5. \A k \in 1 .. Len(ss) : tt[k] = ss[k]
  <2> TAKE k \in 1 .. Len(ss)
  <2>1. k \in DOMAIN h /\ k \in DOMAIN g /\ k \in 1 .. Len(h) /\ k \in 1 .. Len(g)
    BY ONLY <1>1, <1>2, Len(h) <= Len(g), k \in 1 .. Len(ss)
  <2>2. IsOf(g, k, i, kind) <=> IsOf(h, k, i, kind)
    BY <2>1
  <2>3. IsOf(h, k, i, kind) => q[k] = p[k]
    BY <2>1
  <2> QED BY ONLY <1>1, <1>4, <2>1, <2>2, <2>3
<1>6. \A k \in 1 .. Len(tt) : k > Len(ss) => tt[k] = <<>>
  BY <1>1, <1>2, <1>4
<1>7. FlattenSeq(tt) = FlattenSeq(ss)
  BY <1>1, <1>4, <1>5, <1>6, FlattenPadded DEF PieceLists
<1> QED BY <1>1, <1>4, <1>7

\* Memory where one block more belongs to i, behind the others.
LEMMA StrungGrows ==
  ASSUME NEW h \in Seq(Blocks), NEW g \in Seq(Blocks), Len(h) <= Len(g),
         NEW i, NEW kind, NEW p, NEW q, Known(h, i, kind, p),
         NEW x \in DOMAIN g, x <= Len(h) + 1, IsOf(g, x, i, kind), q[x] \in PieceLists,
         \A k \in DOMAIN g :
           k # x => (IsOf(g, k, i, kind) <=> k \in DOMAIN h /\ IsOf(h, k, i, kind)),
         \A k \in DOMAIN h : IsOf(h, k, i, kind) => k < x /\ q[k] = p[k]
  PROVE  Strung(g, i, kind, q) = Join(Strung(h, i, kind, p), q[x])
<1>1. PICK ss \in Seq(PieceLists) :
        /\ Strung(h, i, kind, p) = FlattenSeq(ss)
        /\ Len(ss) = Len(h) /\ Len(h) \in Nat /\ DOMAIN h = 1 .. Len(h)
        /\ \A k \in 1 .. Len(h) : ss[k] = IF IsOf(h, k, i, kind) THEN p[k] ELSE <<>>
  BY StrungLists
<1>2. DOMAIN g = 1 .. Len(g) /\ Len(g) \in Nat
  OBVIOUS
<1>3. Known(g, i, kind, q)
  BY <1>1, <1>2 DEF Known
<1>4. PICK tt \in Seq(PieceLists) :
        /\ Strung(g, i, kind, q) = FlattenSeq(tt)
        /\ Len(tt) = Len(g)
        /\ \A k \in 1 .. Len(g) : tt[k] = IF IsOf(g, k, i, kind) THEN q[k] ELSE <<>>
  BY <1>3, StrungLists
<1>5. x \in 1 .. Len(tt) /\ x <= Len(ss) + 1 /\ tt[x] = q[x]
  BY <1>1, <1>2, <1>4
<1>6. \A k \in 1 .. Len(tt) : k < x => tt[k] = ss[k]
  <2> TAKE k \in 1 .. Len(tt)
  <2>1. SUFFICES ASSUME k < x PROVE tt[k] = ss[k]
    OBVIOUS
  <2>2. k \in 1 .. Len(h) /\ k \in DOMAIN g
    BY <1>1, <1>2, <1>4, <1>5, <2>1
  <2>3. IsOf(g, k, i, kind) <=> IsOf(h, k, i, kind)
    BY <1>1, <2>1, <2>2
  <2> QED BY <1>1, <1>2, <1>4, <2>2, <2>3
<1>7. \A k \in 1 .. Len(tt) : k > x => tt[k] = <<>>
  <2> TAKE k \in 1 .. Len(tt)
  <2>1. SUFFICES ASSUME k > x PROVE tt[k] = <<>>
    OBVIOUS
  <2>2. k \in DOMAIN g /\ k # x
    BY <1>2, <1>4, <1>5, <2>1
  <2>3. ~ IsOf(g, k, i, kind)
    BY <1>1, <1>5, <2>1, <2>2
  <2> QED BY <1>2, <1>4, <2>2, <2>3
<1>8. \A k \in 1 .. Len(ss) : k >= x => ss[k] = <<>>
  <2> TAKE k \in 1 .. Len(ss)
  <2>1. SUFFICES ASSUME k >= x PROVE ss[k] = <<>>
    OBVIOUS
  <2>2. k \in DOMAIN h /\ k \in Nat /\ x \in Nat /\ ~ (k < x)
    BY ONLY <1>1, <1>5, <2>1, k \in 1 .. Len(ss)
  <2>3. ~ IsOf(h, k, i, kind)
    BY <2>2
  <2> QED BY ONLY <1>1, <2>3, k \in 1 .. Len(ss)
<1>9. FlattenSeq(tt) = FlattenSeq(ss) \o tt[x]
  <2>1. ss \in Seq(Seq(Pieces)) /\ tt \in Seq(Seq(Pieces))
    BY DEF PieceLists
  <2> QED BY ONLY <1>5, <1>6, <1>7, <1>8, <2>1, FlattenInsert
<1> QED BY <1>1, <1>4, <1>5, <1>9 DEF Join

-----------------------------------------------------------------------------
(* What the writer has to write.                                           *)

\* What a block holds that is written in one piece, and the parts.
Fill(h) == [k \in DOMAIN h |-> IF h[k].size > 0 THEN <<Piece(k, "all", h[k].size)>> ELSE <<>>]

PartOut(k) ==
  CASE format \in FingerFormats -> write_fivr(k)
    [] format = "FRF"           -> internal_write_fdb(k)
    [] format = "IIR_2005"      -> internal_write_ibsh(k)
    [] format = "IIR_2011"      -> internal_write_irh(k)

PartsOut == [k \in DOMAIN heap |-> PartOut(k)]

HeaderOut == <<Piece(RECORD, "all", HeaderLength[format])>>

\* A part of 2011 that is listed has been read up to its image length.
Whole(h) ==
  format = "IIR_2011" =>
    \A k \in DOMAIN h : IsOf(h, k, RECORD, "part") => h[k].size >= IRH_LENGTH

\* The pieces that blocks hold are pieces.
LEMMA FillType ==
  ASSUME NEW h \in Seq(Blocks)
  PROVE  /\ \A k \in DOMAIN h : Fill(h)[k] \in PieceLists
         /\ \A i, kind : Known(h, i, kind, Fill(h))
<1>1. \A k \in DOMAIN h : k \in Nat /\ h[k].size \in Nat
  <2>1. \A b \in Blocks : b.size \in Nat
    BY DEF Blocks
  <2>2. \A k \in DOMAIN h : k \in Nat /\ h[k] \in Blocks
    OBVIOUS
  <2> QED BY <2>1, <2>2
<1>2. ASSUME NEW k \in DOMAIN h PROVE Fill(h)[k] \in PieceLists
  <2>1. <<Piece(k, "all", h[k].size)>> \in PieceLists
    BY <1>1, PieceType DEF PieceKinds
  <2> QED BY <2>1, Joined DEF Fill
<1> QED BY <1>2 DEF Known

\* What is written of the blocks that belong to another.
LEMMA EachFilling ==
  ASSUME heap \in Seq(Blocks), NEW i, NEW kind
  PROVE  /\ Each(i, kind, Filling) = Strung(heap, i, kind, Fill(heap))
         /\ Each(i, kind, Filling) \in PieceLists
<1> DEFINE e == [k \in DOMAIN heap |->
                   IF heap[k].kind = kind /\ i \in heap[k].owners THEN Filling(k) ELSE <<>>]
           s == [k \in DOMAIN heap |-> IF IsOf(heap, k, i, kind) THEN Fill(heap)[k] ELSE <<>>]
<1>1. \A k \in DOMAIN heap : Filling(k) = Fill(heap)[k]
  BY DEF Filling, Fill
<1>2. e = s
  BY <1>1 DEF IsOf
<1>3. Each(i, kind, Filling) = FlattenSeq(e)
  BY DEF Each
<1>4. Strung(heap, i, kind, Fill(heap)) = FlattenSeq(s)
  BY DEF Strung
<1> HIDE DEF e, s
<1> QED BY <1>2, <1>3, <1>4, FillType, StrungType

\* What is written of the image.
LEMMA ImageDataType ==
  ASSUME heap \in Seq(Blocks), NEW i PROVE ImageData(i) \in PieceLists
BY EachFilling, Joined DEF ImageData

\* What is written of a code.
LEMMA CodeType ==
  ASSUME heap \in Seq(Blocks), NEW i \in Nat, NEW kind PROVE Code(i, kind) \in PieceLists
<1> DEFINE p == [k \in DOMAIN heap |-> <<Piece(i, "all", FCCB_HEADER_LENGTH)>> \o Filling(k)]
           e == [k \in DOMAIN heap |->
                   IF heap[k].kind = kind /\ i \in heap[k].owners
                     THEN <<Piece(i, "all", FCCB_HEADER_LENGTH)>> \o Filling(k) ELSE <<>>]
           s == [k \in DOMAIN heap |-> IF IsOf(heap, k, i, kind) THEN p[k] ELSE <<>>]
<1>1. \A k \in DOMAIN heap : Filling(k) = Fill(heap)[k]
  BY DEF Filling, Fill
<1>2. <<Piece(i, "all", FCCB_HEADER_LENGTH)>> \in PieceLists
  BY PieceType DEF PieceKinds, FCCB_HEADER_LENGTH
<1>3. \A k \in DOMAIN heap : p[k] \in PieceLists
  BY <1>1, <1>2, FillType, Joined DEF Join
<1>4. e = s
  BY DEF IsOf
<1>5. Code(i, kind) = FlattenSeq(e)
  BY DEF Code, Each
<1>6. Strung(heap, i, kind, p) = FlattenSeq(s)
  BY DEF Strung
<1> HIDE DEF p, e, s
<1>7. Known(heap, i, kind, p)
  BY <1>3 DEF Known
<1> QED BY <1>4, <1>5, <1>6, <1>7, StrungType

\* What is written of an iris of 2005, and of its eye.
LEMMA ImageType ==
  ASSUME heap \in Seq(Blocks), NEW i \in Nat PROVE internal_write_iih(i) \in PieceLists
<1> DEFINE a == <<Piece(i, "all", IIH_LENGTH + 2)>>
           b == <<Piece(i, "all", 2)>>
<1>1. a \in PieceLists /\ b \in PieceLists
  BY PieceType DEF PieceKinds, IIH_LENGTH
<1>2. /\ Code(i, "pupil") \in PieceLists /\ Code(i, "sclera") \in PieceLists
      /\ ImageData(i) \in PieceLists
  BY CodeType, ImageDataType
<1>3. internal_write_iih(i) = a \o Code(i, "pupil") \o b \o Code(i, "sclera") \o ImageData(i)
  BY DEF internal_write_iih
<1> HIDE DEF a, b
<1> QED BY <1>1, <1>2, <1>3, Joined DEF Join

LEMMA EyeType ==
  ASSUME heap \in Seq(Blocks), NEW i \in Nat PROVE internal_write_ibsh(i) \in PieceLists
<1> DEFINE a == <<Piece(i, "all", IID_IBSH_LENGTH)>>
           p == [k \in DOMAIN heap |-> internal_write_iih(k)]
           e == [k \in DOMAIN heap |->
                   IF heap[k].kind = "image" /\ i \in heap[k].owners
                     THEN internal_write_iih(k) ELSE <<>>]
           s == [k \in DOMAIN heap |-> IF IsOf(heap, k, i, "image") THEN p[k] ELSE <<>>]
<1>1. a \in PieceLists
  BY PieceType DEF PieceKinds, IID_IBSH_LENGTH
<1>2. \A k \in DOMAIN heap : k \in Nat
  OBVIOUS
<1>3. \A k \in DOMAIN heap : p[k] \in PieceLists
  BY <1>2, ImageType
<1>4. e = s
  BY DEF IsOf
<1>5. internal_write_ibsh(i) = a \o FlattenSeq(e)
  BY DEF internal_write_ibsh, Each
<1>6. Strung(heap, i, "image", p) = FlattenSeq(s)
  BY DEF Strung
<1> HIDE DEF a, p, e, s
<1>7. Known(heap, i, "image", p)
  BY <1>3 DEF Known
<1>8. FlattenSeq(s) \in PieceLists
  BY <1>6, <1>7, StrungType
<1> QED BY <1>1, <1>4, <1>5, <1>8, Joined DEF Join

\* What is written of a part.
LEMMA PartType ==
  ASSUME heap \in Seq(Blocks), format \in AllImageFormats, Whole(heap),
         NEW k \in DOMAIN heap, IsOf(heap, k, RECORD, "part")
  PROVE  PartOut(k) \in PieceLists
<1>0. /\ k \in Nat /\ heap[k] \in Blocks
      /\ ImageData(k) \in PieceLists
      /\ Each(k, "point", Filling) \in PieceLists
  BY EachFilling, ImageDataType
<1>1. CASE format \in FingerFormats
  <2>1. PartOut(k) = write_fivr(k)
    BY <1>1 DEF PartOut, FingerFormats
  <2>2. <<Piece(k, "all", FIVR_HEADER_LENGTH)>> \in PieceLists
    BY <1>0, PieceType DEF PieceKinds, FIVR_HEADER_LENGTH
  <2> QED BY <1>0, <2>1, <2>2, Joined DEF write_fivr, Join
<1>2. CASE format = "FRF"
  <2>1. PartOut(k) = internal_write_fdb(k)
    BY <1>2 DEF PartOut, FingerFormats
  <2>2. /\ <<Piece(k, "all", FRF_FIB_LENGTH)>> \in PieceLists
        /\ <<Piece(k, "all", FRF_IIB_LENGTH)>> \in PieceLists
    BY <1>0, PieceType DEF PieceKinds, FRF_FIB_LENGTH, FRF_IIB_LENGTH
  <2> QED BY <1>0, <2>1, <2>2, Joined DEF internal_write_fdb, Join
<1>3. CASE format = "IIR_2005"
  <2>1. PartOut(k) = internal_write_ibsh(k)
    BY <1>3 DEF PartOut, FingerFormats
  <2> QED BY <1>0, <2>1, EyeType
<1>4. CASE format = "IIR_2011"
  <2>1. PartOut(k) = internal_write_irh(k)
    BY <1>4 DEF PartOut, FingerFormats
  <2>2. heap[k].size - PROPERTIES_LENGTH - IMAGE_LENGTH_LENGTH \in Nat
    <3>1. heap[k].size \in Nat /\ heap[k].size >= IRH_LENGTH
      BY <1>0, <1>4 DEF Whole, Blocks
    <3> QED BY <3>1 DEF IRH_LENGTH, PROPERTIES_LENGTH, IMAGE_LENGTH_LENGTH
  <2> DEFINE n == heap[k].size - PROPERTIES_LENGTH - IMAGE_LENGTH_LENGTH
             l == <<Piece(k, "fields", n), Piece(k, "image_length", IMAGE_LENGTH_LENGTH),
                    Piece(k, "properties", PROPERTIES_LENGTH)>>
  <2>3. l \in PieceLists
    <3>0. /\ n \in Nat /\ PROPERTIES_LENGTH \in Nat /\ IMAGE_LENGTH_LENGTH \in Nat
          /\ {"fields", "image_length", "properties"} \subseteq PieceKinds
      BY <2>2 DEF PieceKinds, PROPERTIES_LENGTH, IMAGE_LENGTH_LENGTH
    <3> HIDE DEF n
    <3>1. /\ Piece(k, "fields", n) \in Pieces
          /\ Piece(k, "image_length", IMAGE_LENGTH_LENGTH) \in Pieces
          /\ Piece(k, "properties", PROPERTIES_LENGTH) \in Pieces
      BY <1>0, <3>0, PieceType
    <3> QED BY <3>1 DEF PieceLists
  <2>4. internal_write_irh(k) = l \o ImageData(k)
    BY DEF internal_write_irh
  <2> HIDE DEF l
  <2> QED BY <1>0, <2>1, <2>3, <2>4, Joined DEF Join
<1> QED BY <1>1, <1>2, <1>3, <1>4 DEF AllImageFormats, IrisFormats

\* What is written of a record, part by part.
LEMMA LayoutStrung ==
  ASSUME heap \in Seq(Blocks), format \in AllImageFormats, Whole(heap)
  PROVE  /\ Layout = Join(HeaderOut, Strung(heap, RECORD, "part", PartsOut))
         /\ HeaderOut \in PieceLists
         /\ Known(heap, RECORD, "part", PartsOut)
         /\ Layout \in PieceLists
<1> DEFINE s == [k \in DOMAIN heap |->
                   IF IsOf(heap, k, RECORD, "part") THEN PartsOut[k] ELSE <<>>]
<1>1. HeaderOut \in PieceLists
  <2>1. RECORD \in Nat /\ HeaderLength[format] \in Nat
    BY DEF RECORD, HeaderLength, AllImageFormats, FingerFormats, IrisFormats
  <2> QED BY <2>1, PieceType DEF HeaderOut, PieceKinds
<1>2. \A k \in DOMAIN heap : PartsOut[k] = PartOut(k)
  BY DEF PartsOut
<1>3. Known(heap, RECORD, "part", PartsOut)
  BY <1>2, PartType DEF Known
<1>4. Layout = HeaderOut \o FlattenSeq(s)
  <2>1. CASE format \in FingerFormats
    <3> DEFINE e == [k \in DOMAIN heap |->
                       IF heap[k].kind = "part" /\ RECORD \in heap[k].owners
                         THEN write_fivr(k) ELSE <<>>]
    <3>1. \A k \in DOMAIN heap : PartsOut[k] = write_fivr(k)
      BY <1>2, <2>1 DEF PartOut, FingerFormats
    <3>2. e = s
      BY <3>1 DEF IsOf
    <3>3. Layout = HeaderOut \o FlattenSeq(e)
      BY <2>1 DEF Layout, HeaderOut, Each, FingerFormats
    <3> QED BY <3>2, <3>3
  <2>2. CASE format = "FRF"
    <3> DEFINE e == [k \in DOMAIN heap |->
                       IF heap[k].kind = "part" /\ RECORD \in heap[k].owners
                         THEN internal_write_fdb(k) ELSE <<>>]
    <3>1. \A k \in DOMAIN heap : PartsOut[k] = internal_write_fdb(k)
      BY <1>2, <2>2 DEF PartOut, FingerFormats
    <3>2. e = s
      BY <3>1 DEF IsOf
    <3>3. Layout = HeaderOut \o FlattenSeq(e)
      BY <2>2 DEF Layout, HeaderOut, Each, FingerFormats
    <3> QED BY <3>2, <3>3
  <2>3. CASE format = "IIR_2005"
    <3> DEFINE e == [k \in DOMAIN heap |->
                       IF heap[k].kind = "part" /\ RECORD \in heap[k].owners
                         THEN internal_write_ibsh(k) ELSE <<>>]
    <3>1. \A k \in DOMAIN heap : PartsOut[k] = internal_write_ibsh(k)
      BY <1>2, <2>3 DEF PartOut, FingerFormats
    <3>2. e = s
      BY <3>1 DEF IsOf
    <3>3. Layout = HeaderOut \o FlattenSeq(e)
      BY <2>3 DEF Layout, HeaderOut, Each, FingerFormats
    <3> QED BY <3>2, <3>3
  <2>4. CASE format = "IIR_2011"
    <3> DEFINE e == [k \in DOMAIN heap |->
                       IF heap[k].kind = "part" /\ RECORD \in heap[k].owners
                         THEN internal_write_irh(k) ELSE <<>>]
    <3>1. \A k \in DOMAIN heap : PartsOut[k] = internal_write_irh(k)
      BY <1>2, <2>4 DEF PartOut, FingerFormats
    <3>2. e = s
      BY <3>1 DEF IsOf
    <3>3. Layout = HeaderOut \o FlattenSeq(e)
      BY <2>4 DEF Layout, HeaderOut, Each, FingerFormats
    <3> QED BY <3>2, <3>3
  <2> QED BY <2>1, <2>2, <2>3, <2>4 DEF AllImageFormats, IrisFormats
<1>5. Strung(heap, RECORD, "part", PartsOut) = FlattenSeq(s)
  BY DEF Strung
<1> HIDE DEF s
<1>6. FlattenSeq(s) \in PieceLists
  BY <1>3, <1>5, StrungType
<1> QED BY <1>1, <1>3, <1>4, <1>5, <1>6, Joined DEF Join

\* It is the same while memory and what is wanted of it are the same.
LEMMA LayoutSame ==
  ASSUME UNCHANGED <<heap, format, images>>
  PROVE  Layout' = Layout /\ (Whole(heap) => Whole(heap'))
<1>1. Layout' = Layout
  BY DEF Layout, Each, write_fivr, internal_write_fdb, internal_write_ibsh, internal_write_irh,
         internal_write_iih, Code, ImageData, Filling
<1> QED BY <1>1 DEF Whole

\* A list of pieces that another begins with.
Begins(o, l) ==
  /\ o \in PieceLists /\ Len(o) <= Len(l)
  /\ \A k \in 1 .. Len(o) : o[k] = l[k]

\* The first pieces of a list have no more bytes than the list.
LEMMA BytesBegun ==
  ASSUME NEW l \in PieceLists, NEW o, Begins(o, l)
  PROVE  /\ Bytes(o) \in Nat /\ Bytes(l) \in Nat /\ Bytes(o) <= Bytes(l)
         /\ Len(o) \in Nat /\ Len(l) \in Nat
         /\ Len(o) = Len(l) => o = l
<1>1. /\ Len(o) \in Nat /\ Len(l) \in Nat /\ DOMAIN o = 1 .. Len(o) /\ DOMAIN l = 1 .. Len(l)
      /\ \A k \in 1 .. Len(l) : l[k].size \in Nat
  <2>1. \A p \in Pieces : p.size \in Nat
    BY DEF Pieces
  <2>2. \A k \in 1 .. Len(l) : l[k] \in Pieces
    BY DEF PieceLists
  <2>3. Len(o) \in Nat /\ Len(l) \in Nat /\ DOMAIN o = 1 .. Len(o) /\ DOMAIN l = 1 .. Len(l)
    BY DEF Begins, PieceLists
  <2> QED BY <2>1, <2>2, <2>3
<1>2. Bytes(o) \in Nat /\ Bytes(l) \in Nat
  BY BytesJoined DEF Begins
<1>3. Bytes(o) <= Bytes(l)
  <2> DEFINE v == [k \in DOMAIN o |-> o[k].size]
             w == [k \in DOMAIN l |-> l[k].size]
  <2>1. /\ DOMAIN v = 1 .. Len(o) /\ DOMAIN w = 1 .. Len(l) /\ Len(o) \in 0 .. Len(l)
        /\ \A k \in 1 .. Len(l) : w[k] \in Nat
        /\ \A k \in 1 .. Len(o) : v[k] = w[k]
    BY <1>1 DEF Begins
  <2> HIDE DEF v, w
  <2>2. SumFunction(v) <= SumFunction(w)
    BY <1>1, <2>1, SumOfPart
  <2> QED BY <2>2 DEF Bytes, v, w
<1>4. ASSUME Len(o) = Len(l) PROVE o = l
  <2>1. o \in Seq(Pieces) /\ l \in Seq(Pieces) /\ \A k \in 1 .. Len(o) : o[k] = l[k]
    BY DEF Begins, PieceLists
  <2> QED BY <1>4, <2>1, SeqEqual
<1> QED BY <1>1, <1>2, <1>3, <1>4

\* The next piece of a list.
LEMMA BeginsMore ==
  ASSUME NEW l \in PieceLists, NEW o, Begins(o, l), Len(o) < Len(l)
  PROVE  LET p == l[Len(o) + 1]
         IN /\ p \in Pieces /\ Begins(Append(o, p), l)
            /\ Bytes(Append(o, p)) = Bytes(o) + p.size
            /\ Bytes(o) + p.size <= Bytes(l)
<1> DEFINE p == l[Len(o) + 1]
           more == Append(o, p)
<1>1. o \in PieceLists /\ Len(o) \in Nat /\ Len(l) \in Nat /\ p \in Pieces
  BY DEF Begins, PieceLists
<1> HIDE DEF p
<1>2. /\ more = Join(o, <<p>>) /\ <<p>> \in PieceLists /\ more \in PieceLists
      /\ Len(more) = Len(o) + 1
      /\ \A k \in 1 .. Len(o) : more[k] = o[k]
      /\ more[Len(o) + 1] = p
  BY <1>1, Appended
<1> HIDE DEF more
<1>3. Begins(more, l)
  <2>1. ASSUME NEW k \in 1 .. Len(more) PROVE more[k] = l[k]
    <3>1. CASE k = Len(o) + 1
      BY <1>2, <3>1 DEF p
    <3>2. CASE k # Len(o) + 1
      <4>1. k \in 1 .. Len(o)
        BY <1>1, <1>2, <3>2
      <4> QED BY <1>2, <4>1 DEF Begins
    <3> QED BY <3>1, <3>2
  <2> QED BY <1>1, <1>2, <2>1 DEF Begins
<1>4. Bytes(more) = Bytes(o) + p.size
  BY <1>1, <1>2, BytesJoined, BytesOfOne
<1>5. Bytes(more) <= Bytes(l)
  BY <1>3, BytesBegun
<1> QED BY <1>1, <1>3, <1>4, <1>5 DEF more, p

-----------------------------------------------------------------------------
(* A part of 2011 that is listed has been read up to its image length.     *)

LEMMA WholeAppend ==
  ASSUME NEW h \in Seq(Blocks), Whole(h), NEW b \in Blocks,
         b.kind = "part" => b.owners = {}
  PROVE  Append(h, b) \in Seq(Blocks) /\ Append(h, b) # <<>> /\ Whole(Append(h, b))
<1>1. /\ Len(h) \in Nat /\ DOMAIN h = 1 .. Len(h) /\ DOMAIN Append(h, b) = 1 .. Len(h) + 1
      /\ \A k \in 1 .. Len(h) : Append(h, b)[k] = h[k]
      /\ Append(h, b)[Len(h) + 1] = b
      /\ Append(h, b) \in Seq(Blocks) /\ Append(h, b) # <<>>
  OBVIOUS
<1>2. \A k \in 1 .. Len(h) + 1 : k \in 1 .. Len(h) \/ k = Len(h) + 1
  BY <1>1
<1> DEFINE g == Append(h, b)
<1> HIDE DEF g
<1>3. Whole(g)
  BY <1>1, <1>2 DEF Whole, IsOf, g
<1> QED BY <1>1, <1>3 DEF g

LEMMA WholeFilled ==
  ASSUME NEW h \in Seq(Blocks), h # <<>>, Whole(h), NEW x \in DOMAIN h, NEW n \in Nat
  PROVE  /\ Filled(h, x, n) \in Seq(Blocks) /\ Filled(h, x, n) # <<>>
         /\ DOMAIN Filled(h, x, n) = DOMAIN h
         /\ \A k \in DOMAIN h : /\ Filled(h, x, n)[k].kind = h[k].kind
                                /\ Filled(h, x, n)[k].owners = h[k].owners
         /\ Filled(h, x, n)[x].size = h[x].size + n
         /\ Whole(Filled(h, x, n))
<1> DEFINE c == [h[x] EXCEPT !.size = @ + n]
           g == [h EXCEPT ![x] = c]
<1>1. Len(h) \in Nat /\ DOMAIN h = 1 .. Len(h) /\ h[x] \in Blocks
  OBVIOUS
<1>2. c \in Blocks /\ c.kind = h[x].kind /\ c.owners = h[x].owners /\ c.size = h[x].size + n
      /\ h[x].size \in Nat
  <2>1. h[x].size \in Nat /\ h[x].size + n \in Nat
    BY <1>1 DEF Blocks
  <2> DEFINE m == h[x].size + n
  <2> HIDE DEF m
  <2>2. LET d == [h[x] EXCEPT !.size = m]
        IN d \in Blocks /\ d.kind = h[x].kind /\ d.owners = h[x].owners /\ d.size = m
    BY <1>1, <2>1 DEF Blocks, m
  <2> QED BY <2>1, <2>2 DEF m
<1>3. Filled(h, x, n) = g
  BY DEF Filled
<1> HIDE DEF c
<1>4. /\ g \in Seq(Blocks) /\ g # <<>> /\ DOMAIN g = DOMAIN h
      /\ g[x] = c /\ \A k \in DOMAIN h : k # x => g[k] = h[k]
  BY <1>1, <1>2
<1> HIDE DEF g
<1>5. Whole(g)
  <2>1. ASSUME format = "IIR_2011", NEW k \in DOMAIN g, IsOf(g, k, RECORD, "part")
        PROVE  g[k].size >= IRH_LENGTH
    <3>1. CASE k = x
      <4>1. h[x].size >= IRH_LENGTH
        BY <1>2, <1>4, <2>1, <3>1 DEF IsOf, Whole
      <4> QED BY <1>2, <1>4, <3>1, <4>1 DEF IRH_LENGTH
    <3>2. CASE k # x
      BY <1>4, <2>1, <3>2 DEF IsOf, Whole
    <3> QED BY <3>1, <3>2
  <2> QED BY <2>1 DEF Whole
<1> QED BY <1>2, <1>3, <1>4, <1>5

LEMMA WholeGiven ==
  ASSUME NEW h \in Seq(Blocks), h # <<>>, Whole(h), NEW x \in DOMAIN h, NEW o \in Nat,
         format = "IIR_2011" /\ o = RECORD => h[x].size >= IRH_LENGTH
  PROVE  Give(h, x, o) \in Seq(Blocks) /\ Give(h, x, o) # <<>> /\ Whole(Give(h, x, o))
<1> DEFINE c == [h[x] EXCEPT !.owners = @ \cup {o}]
           g == [h EXCEPT ![x] = c]
<1>1. Len(h) \in Nat /\ DOMAIN h = 1 .. Len(h) /\ h[x] \in Blocks
  OBVIOUS
<1>2. /\ c \in Blocks /\ c.kind = h[x].kind /\ c.owners = h[x].owners \cup {o}
      /\ c.size = h[x].size
  <2>1. h[x].owners \cup {o} \in SUBSET Nat
    BY <1>1 DEF Blocks
  <2> DEFINE m == h[x].owners \cup {o}
  <2> HIDE DEF m
  <2>2. LET d == [h[x] EXCEPT !.owners = m]
        IN d \in Blocks /\ d.kind = h[x].kind /\ d.owners = m /\ d.size = h[x].size
    BY <1>1, <2>1 DEF Blocks, m
  <2> QED BY <2>2 DEF m
<1>3. Give(h, x, o) = g
  BY DEF Give
<1> HIDE DEF c
<1>4. /\ g \in Seq(Blocks) /\ g # <<>> /\ DOMAIN g = DOMAIN h
      /\ g[x] = c /\ \A k \in DOMAIN h : k # x => g[k] = h[k]
  BY <1>1, <1>2
<1> HIDE DEF g
<1>5. Whole(g)
  <2>1. ASSUME format = "IIR_2011", NEW k \in DOMAIN g, IsOf(g, k, RECORD, "part")
        PROVE  g[k].size >= IRH_LENGTH
    <3>1. CASE k = x
      BY <1>2, <1>4, <2>1, <3>1 DEF IsOf, Whole
    <3>2. CASE k # x
      BY <1>4, <2>1, <3>2 DEF IsOf, Whole
    <3> QED BY <3>1, <3>2
  <2> QED BY <2>1 DEF Whole
<1> QED BY <1>3, <1>4, <1>5

\* Listed parts of 2011 are whole, and so is the one whose image is to be read.
SizedInv ==
  /\ Whole(heap)
  /\ format = "IIR_2011" /\ pc = "data" => heap[part].size >= IRH_LENGTH

\* A part of 2011 that returns.
LEMMA PartReturnsSized ==
  ASSUME format = "IIR_2011", NEW h \in Seq(Blocks), h # <<>>, Whole(h), part \in DOMAIN h,
         NEW code, code = READ_OK => h[part].size >= IRH_LENGTH,
         PartReturns(h, code), format' = format
  PROVE  SizedInv'
<1>1. RECORD \in Nat
  BY DEF RECORD
<1>2. CASE code = READ_OK
  <2>1. heap' = Give(h, part, RECORD) /\ pc' \in {"new_part", "done"}
    BY <1>2 DEF PartReturns, PartLoop, RecordReturns
  <2>2. Whole(Give(h, part, RECORD))
    BY <1>1, <1>2, WholeGiven
  <2> QED BY <2>1, <2>2 DEF SizedInv, Whole
<1>3. CASE code # READ_OK
  <2>1. heap' = h /\ pc' = "done"
    BY <1>3 DEF PartReturns, RecordReturns
  <2> QED BY <2>1 DEF SizedInv, Whole
<1> QED BY <1>2, <1>3

\* Reading keeps them so.
LEMMA ReaderKeepsSized ==
  ASSUME ReaderInv, HeapInv, TreeInv, SizedInv, ReadNext
  PROVE  SizedInv'
<1>0. format' = format
  BY DEF ReadNext, ReadHeader, StartPart, ReadPartHeader, ReadPoint, ReadTail, ReadData,
         ReadImage, ReadCode, ReadScleraLength, Frame
<1>1. CASE format # "IIR_2011"
  BY <1>0, <1>1 DEF SizedInv, Whole
<1>2. CASE format = "IIR_2011"
  <2>1. /\ heap \in Seq(Blocks) /\ heap # <<>> /\ heap[RECORD].kind = "record"
        /\ Whole(heap) /\ RECORD \in DOMAIN heap
    BY DEF HeapInv, Fresh, SizedInv, RECORD
  <2>2. ~ ReadPoint /\ ~ ReadTail
    BY <1>2 DEF ReadPoint, ReadTail, HeapInv, LocalsInv
  <2>3. ~ ReadImage /\ ~ ReadCode /\ ~ ReadScleraLength
    BY <1>2 DEF ReadImage, ReadCode, ReadScleraLength, TreeInv, ImageInHand
  <2>4. pc \in InPart => part \in DOMAIN heap
    BY DEF TreeInv, InHand
  <2>5. CASE ReadHeader
    <3>1. CASE heap' = Filled(heap, RECORD, HeaderLength[format])
      <4>1. HeaderLength[format] \in Nat
        BY <1>2 DEF HeaderLength
      <4>2. Whole(heap')
        BY <2>1, <3>1, <4>1, WholeFilled
      <4>3. pc' \in {"new_part", "done"}
        BY <2>5 DEF ReadHeader, PartLoop, RecordReturns
      <4> QED BY <1>0, <4>2, <4>3 DEF SizedInv, Whole
    <3>2. CASE UNCHANGED heap
      <4>1. pc' \in {"new_part", "done"}
        BY <2>5 DEF ReadHeader, PartLoop, RecordReturns
      <4> QED BY <1>0, <2>1, <3>2, <4>1 DEF SizedInv, Whole
    <3> QED BY <2>5, <3>1, <3>2 DEF ReadHeader
  <2>6. CASE StartPart
    <3>1. pc' \in {"part", "done"}
      BY <2>6 DEF StartPart, RecordReturns
    <3>2. CASE heap' = Append(heap, Block("part", {}, 0))
      <4>1. Block("part", {}, 0) \in Blocks /\ Block("part", {}, 0).owners = {}
        BY NewBlock DEF Kinds, Block
      <4>2. Whole(heap')
        BY <2>1, <3>2, <4>1, WholeAppend
      <4> QED BY <1>0, <3>1, <4>2 DEF SizedInv, Whole
    <3>3. CASE UNCHANGED heap
      BY <1>0, <2>1, <3>1, <3>3 DEF SizedInv, Whole
    <3> QED BY <2>6, <3>2, <3>3 DEF StartPart
  <2>7. CASE ReadPartHeader
    <3>1. part \in DOMAIN heap
      BY <2>4, <2>7 DEF ReadPartHeader, InPart, Pcs
    <3>2. PICK n \in SubCounts, l \in Lengths :
            \/ LET h == Filled(heap, part, PartHeaderLength(n))
               IN IF HasData(l) THEN pc' = "data" /\ heap' = h /\ UNCHANGED <<parts, ret>>
                                ELSE PartReturns(h, READ_OK)
            \/ \E code \in {READ_EOF, READ_ERROR} : PartReturns(heap, code)
      BY <1>2, <2>7 DEF ReadPartHeader, FingerFormats
    <3> DEFINE h == Filled(heap, part, PartHeaderLength(n))
    <3>3. PartHeaderLength(n) \in Nat /\ PartHeaderLength(n) >= IRH_LENGTH
      <4>1. n \in Nat
        BY Wire
      <4> QED BY <1>2, <4>1 DEF PartHeaderLength, FingerFormats, IRH_LENGTH, QUALITY_BLOCK_LENGTH
    <3>4. /\ h \in Seq(Blocks) /\ h # <<>> /\ Whole(h) /\ part \in DOMAIN h
          /\ h[part].size >= IRH_LENGTH
      <4>1. /\ h \in Seq(Blocks) /\ h # <<>> /\ Whole(h) /\ DOMAIN h = DOMAIN heap
            /\ h[part].size = heap[part].size + PartHeaderLength(n)
        BY <2>1, <3>1, <3>3, WholeFilled
      <4>2. heap[part].size \in Nat
        BY <2>1, <3>1, TreeBlocks
      <4> HIDE DEF h
      <4> QED BY <3>1, <3>3, <4>1, <4>2 DEF IRH_LENGTH
    <3> HIDE DEF h
    <3>5. CASE pc' = "data" /\ heap' = h /\ UNCHANGED part
      BY <1>0, <3>4, <3>5 DEF SizedInv, Whole
    <3>6. CASE PartReturns(h, READ_OK)
      BY <1>0, <1>2, <3>4, <3>6, PartReturnsSized
    <3>7. CASE \E code \in {READ_EOF, READ_ERROR} : PartReturns(heap, code)
      BY <1>0, <1>2, <2>1, <3>1, <3>7, PartReturnsSized DEF READ_OK, READ_EOF, READ_ERROR
    <3>8. UNCHANGED part
      BY <2>7 DEF ReadPartHeader
    <3> QED BY <3>2, <3>5, <3>6, <3>7, <3>8 DEF h
  <2>8. CASE ReadData
    <3>1. pc = "data" /\ part \in DOMAIN heap /\ heap[part].size >= IRH_LENGTH /\ length \in Nat
      BY <1>2, <2>4, <2>8 DEF ReadData, InPart, Pcs, SizedInv, ReaderInv, CursorInv
    <3>2. \/ PartReturns(Append(heap, Block("data", {part}, length)), READ_OK)
          \/ \E code \in {READ_EOF, READ_ERROR} :
               PartReturns(Append(heap, Block("data", {part}, 0)), code)
          \/ PartReturns(heap, READ_ERROR)
      BY <1>2, <2>8 DEF ReadData, DataFails, HolderReturns, Holder
    <3>3. ASSUME NEW n \in Nat
          PROVE  LET g == Append(heap, Block("data", {part}, n))
                 IN /\ g \in Seq(Blocks) /\ g # <<>> /\ Whole(g) /\ part \in DOMAIN g
                    /\ g[part].size >= IRH_LENGTH
      <4> DEFINE b == Block("data", {part}, n)
                 g == Append(heap, b)
      <4>1. b \in Blocks /\ b.kind = "data"
        <5>1. "data" \in Kinds /\ {part} \in SUBSET Nat
          BY <2>1, <3>1 DEF Kinds
        <5>2. b \in Blocks
          BY ONLY <5>1, n \in Nat, NewBlock
        <5> QED BY <5>2 DEF Block
      <4> HIDE DEF b
      <4>2. g \in Seq(Blocks) /\ g # <<>> /\ Whole(g)
        BY <2>1, <4>1, WholeAppend
      <4>3. part \in DOMAIN g /\ g[part] = heap[part]
        BY <2>1, <3>1, <4>1
      <4> QED BY <3>1, <4>2, <4>3 DEF b
    <3>4. CASE PartReturns(Append(heap, Block("data", {part}, length)), READ_OK)
      <4> DEFINE g == Append(heap, Block("data", {part}, length))
      <4>1. g \in Seq(Blocks) /\ g # <<>> /\ Whole(g) /\ part \in DOMAIN g /\ g[part].size >= IRH_LENGTH
        BY <3>1, <3>3
      <4>2. PartReturns(g, READ_OK)
        BY <3>4
      <4> HIDE DEF g
      <4> QED BY <1>0, <1>2, <4>1, <4>2, PartReturnsSized
    <3>5. CASE \E code \in {READ_EOF, READ_ERROR} :
                 PartReturns(Append(heap, Block("data", {part}, 0)), code)
      <4> DEFINE g == Append(heap, Block("data", {part}, 0))
      <4>1. g \in Seq(Blocks) /\ g # <<>> /\ Whole(g) /\ part \in DOMAIN g /\ g[part].size >= IRH_LENGTH
        BY <3>3
      <4>2. \E code \in {READ_EOF, READ_ERROR} : PartReturns(g, code)
        BY <3>5
      <4> HIDE DEF g
      <4> QED BY <1>0, <1>2, <4>1, <4>2, PartReturnsSized
    <3>6. CASE PartReturns(heap, READ_ERROR)
      BY <1>0, <1>2, <2>1, <3>1, <3>6, PartReturnsSized
    <3> QED BY <3>2, <3>4, <3>5, <3>6
  <2> QED BY <2>2, <2>3, <2>5, <2>6, <2>7, <2>8 DEF ReadNext
<1> QED BY <1>1, <1>2

\* What the invariant of the reader depends on.
LEMMA ReaderRests ==
  ASSUME ReaderInv,
         UNCHANGED <<format, end, start, current, pc, declared, record_length, parts, length, ret>>
  PROVE  ReaderInv'
BY DEF ReaderInv, CountInv, CursorInv

-----------------------------------------------------------------------------
(* A buffer is enough.                                                     *)

\* The invariant: what came out is the beginning of what is to come out.
OutInv ==
  /\ format \in AllImageFormats
  /\ heap \in Seq(Blocks) /\ heap # <<>> /\ Whole(heap) /\ heap[RECORD].kind = "record"
  /\ client # "maker" => ReaderInv /\ at \notin {"load_hdr", "load"}
  /\ client # "maker" /\ at = "read" => HeapInv /\ TreeInv /\ SizedInv
  /\ client = "maker" => at \notin {"read", "edited"} /\ format # "IIR_2011"
  /\ at = "edited" => client = "caller"
  /\ sink = "buffer" => client = "caller" /\ at \in {"write", "written", "crashed"}
  /\ sink = "buffer" => space \in Nat /\ Bytes(out) <= space
  /\ at \in {"load_hdr", "load", "write", "read", "edited"} => wret = WRITE_OK
  /\ at = "write" => Begins(out, Layout)
  /\ at \in {"load_hdr", "load"} => out = <<>>
  /\ at = "written" => wret = WRITE_ERROR \/ (wret = WRITE_OK /\ out = Layout)
  /\ at = "written" /\ sink = "buffer" /\ wret = WRITE_ERROR => Bytes(Layout) > space

\* Nothing at all begins every list.
LEMMA BeginsEmpty ==
  ASSUME NEW l \in PieceLists
  PROVE  Begins(<<>>, l) /\ Bytes(<<>>) = 0
<1>1. Piece(0, "all", 0) \in Pieces
  BY PieceType DEF PieceKinds
<1>2. Bytes(<<>>) = 0
  BY <1>1, BytesOfOne
<1>3. <<>> \in PieceLists /\ Len(<<>>) = 0 /\ Len(l) \in Nat
  BY DEF PieceLists
<1> QED BY <1>2, <1>3 DEF Begins

\* What there is to write.
LEMMA LayoutPieces == ASSUME OutInv PROVE Layout \in PieceLists /\ Begins(<<>>, Layout)
BY LayoutStrung, BeginsEmpty DEF OutInv

\* A step that leaves memory alone.
LEMMA MemoryRests ==
  ASSUME OutInv, UNCHANGED <<image_vars, images>>
  PROVE  /\ Layout' = Layout /\ (ReaderInv => ReaderInv')
         /\ (HeapInv /\ TreeInv /\ SizedInv => HeapInv' /\ TreeInv' /\ SizedInv')
         /\ Whole(heap) => Whole(heap')
<1>1. UNCHANGED <<heap, format, images>>
  BY DEF image_vars
<1>2. ReaderInv => ReaderInv'
  BY ReaderRests DEF image_vars
<1>3. HeapInv => HeapInv'
  BY DEF image_vars, HeapInv, LocalsInv, Fresh
<1>4. TreeInv => TreeInv'
  BY DEF image_vars, TreeInv, Tree, Loose, ImageInHand, InHand, Listed, Below, SizesOf
<1>5. SizedInv => SizedInv'
  BY DEF image_vars, SizedInv, Whole
<1> QED BY <1>1, <1>2, <1>3, <1>4, <1>5, LayoutSame

\* A record of which nothing was read yet.
BegunNow ==
  /\ pc = "header" /\ heap = Begun /\ ret = READ_OK
  /\ declared = 0 /\ parts = 0 /\ part = 0 /\ image = 0 /\ todo = 0
  /\ start \in Nat /\ current = start

LEMMA BegunMemory ==
  BegunNow => /\ HeapInv /\ TreeInv /\ SizedInv
              /\ heap \in Seq(Blocks) /\ heap # <<>> /\ heap[RECORD].kind = "record"
<1> SUFFICES ASSUME BegunNow
             PROVE  /\ HeapInv /\ TreeInv /\ SizedInv
                    /\ heap \in Seq(Blocks) /\ heap # <<>> /\ heap[RECORD].kind = "record"
  OBVIOUS
<1>1. pc = "header" /\ heap = Begun /\ Fresh(heap)
  BY BegunIsFresh DEF BegunNow
<1>2. heap \in Seq(Blocks) /\ heap # <<>> /\ heap[RECORD].kind = "record"
  BY <1>1 DEF Fresh
<1>3. LocalsInv
  BY <1>1 DEF BegunNow, LocalsInv, Halfwords
<1>4. TreeInv
  <2>1. pc \notin InPart /\ ~ ImageInHand /\ Loose = {} /\ pc # "image"
    BY <1>1 DEF InPart, ImageInHand, Loose
  <2> QED BY <1>1, <2>1, BegunIsTree DEF TreeInv, BegunNow
<1>5. SizedInv
  <2>1. DOMAIN heap = {RECORD}
    BY <1>1 DEF Begun, RECORD
  <2> QED BY <1>1, <1>2, <2>1 DEF SizedInv, Whole, IsOf
<1> QED BY <1>1, <1>2, <1>3, <1>4, <1>5 DEF HeapInv

LEMMA BegunMemoryNext ==
  (BegunNow => /\ HeapInv /\ TreeInv /\ SizedInv
               /\ heap \in Seq(Blocks) /\ heap # <<>> /\ heap[RECORD].kind = "record")'
BY BegunMemory, PTL

\* What there is to write is a list of pieces, now and after a step.
LEMMA LayoutNow ==
  heap \in Seq(Blocks) /\ format \in AllImageFormats /\ Whole(heap) => Layout \in PieceLists
BY LayoutStrung

LEMMA LayoutNext ==
  (heap \in Seq(Blocks) /\ format \in AllImageFormats /\ Whole(heap) => Layout \in PieceLists)'
BY LayoutNow, PTL

\* The invariant holds before anything is read or made.
LEMMA InitOut == WInit => OutInv
<1> SUFFICES ASSUME WInit PROVE OutInv
  OBVIOUS
<1>1. format \in ImageFormats /\ end \in Ends[format] /\ Begin(0)
  BY DEF WInit, Init
<1>2. ReaderInv
  BY <1>1, Wire, BeginsWell
<1>3. BegunNow
  BY <1>1 DEF BegunNow, Begin
<1>4. /\ HeapInv /\ TreeInv /\ SizedInv
      /\ heap \in Seq(Blocks) /\ heap # <<>> /\ heap[RECORD].kind = "record"
  BY <1>3, BegunMemory
<1>5. format \in AllImageFormats
  BY <1>1, ImageFormatsAssumption
<1>6. /\ sink = "file" /\ out = <<>> /\ wret = WRITE_OK
      /\ \/ client \in {"caller", "cpfrf"} /\ at = "read"
         \/ client = "maker" /\ at = "load_hdr" /\ format # "IIR_2011"
  BY DEF WInit, FingerFormats
<1> QED BY <1>2, <1>4, <1>5, <1>6 DEF OutInv, SizedInv

\* A step that leaves the record alone, and the sink.
LEMMA OutRests ==
  ASSUME OutInv, UNCHANGED <<image_vars, client, images, sink, space, out>>,
         wret' = wret, at' # "read", at' # "load", at' # "load_hdr",
         sink = "buffer" => at' \in {"write", "written", "crashed"},
         at' = "edited" => at = "edited",
         at' = "written" => at = "written" \/ (at = "write" /\ out = Layout),
         at' = "write" => at = "write" \/ (at = "load" /\ client = "maker")
  PROVE  OutInv'
<1>1. Layout' = Layout /\ (ReaderInv => ReaderInv')
  BY MemoryRests
<1>2. UNCHANGED <<heap, format>>
  BY DEF image_vars
<1>3. Begins(<<>>, Layout)
  BY LayoutPieces
<1>4. Whole(heap)' <=> Whole(heap)
  BY <1>2 DEF Whole
<1>5. at' = "write" => Begins(out', Layout')
  <2>1. at' = "write" => Begins(out, Layout)
    BY <1>3 DEF OutInv
  <2> QED BY <1>1, <2>1
<1>6. at' = "written" =>
        /\ wret' = WRITE_ERROR \/ (wret' = WRITE_OK /\ out' = Layout')
        /\ sink' = "buffer" /\ wret' = WRITE_ERROR => Bytes(Layout') > space'
  <2>1. WRITE_OK # WRITE_ERROR
    BY DEF WRITE_OK, WRITE_ERROR
  <2> QED BY <1>1, <2>1 DEF OutInv
<1>7. /\ client' # "maker" => ReaderInv' /\ at' \notin {"load_hdr", "load"}
      /\ client' = "maker" => at' \notin {"read", "edited"} /\ format' # "IIR_2011"
      /\ at' = "edited" => client' = "caller"
      /\ sink' = "buffer" => client' = "caller" /\ at' \in {"write", "written", "crashed"}
      /\ sink' = "buffer" => space' \in Nat /\ Bytes(out') <= space'
      /\ at' \in {"load_hdr", "load", "write", "read", "edited"} => wret' = WRITE_OK
  BY <1>1, <1>2 DEF OutInv
<1> QED BY <1>2, <1>4, <1>5, <1>6, <1>7 DEF OutInv, Begins

\* Reading, whole records or parts.
LEMMA ReadOut == ASSUME OutInv, Read PROVE OutInv'
<1>1. at = "read" /\ ReadNext /\ UNCHANGED <<client, at, sink, space, out, wret>>
  BY DEF Read
<1>2. client # "maker" /\ ReaderInv /\ HeapInv /\ TreeInv /\ SizedInv /\ sink # "buffer"
  BY <1>1 DEF OutInv
<1>3. ReaderInv' /\ HeapInv' /\ TreeInv' /\ SizedInv'
  BY <1>1, <1>2, ReaderKeeps, ReaderKeepsHeap, ReaderKeepsTree, ReaderKeepsSized DEF ReaderStep
<1>4. /\ heap' \in Seq(Blocks) /\ heap' # <<>> /\ heap'[RECORD].kind = "record"
      /\ Whole(heap)'
  BY <1>3 DEF HeapInv, Fresh, SizedInv
<1>5. format' = format
  BY <1>1 DEF ReadNext, ReadHeader, StartPart, ReadPartHeader, ReadPoint, ReadTail, ReadData,
         ReadImage, ReadCode, ReadScleraLength, Frame
<1> QED BY <1>1, <1>2, <1>3, <1>4, <1>5 DEF OutInv

\* The writer is given a record.
LEMMA StartOut ==
  ASSUME OutInv, client = "caller", at \in {"read", "edited"}, NEW with,
         StartsWriting(with), UNCHANGED image_vars
  PROVE  OutInv'
<1>1. /\ at' = "write" /\ out' = <<>> /\ wret' = wret /\ client' = client
      /\ sink' = "buffer" => space' \in Spaces \cup {record_length}
  BY DEF StartsWriting
<1>2. space' \in Nat \/ sink' # "buffer"
  <2>1. record_length \in Nat
    BY DEF OutInv, ReaderInv, CursorInv
  <2> QED BY <1>1, <2>1, WriterAssumption
<1>3. UNCHANGED <<heap, format>> /\ ReaderInv /\ ReaderInv'
  BY ReaderRests DEF image_vars, OutInv
<1>4. Whole(heap)'
  BY <1>3 DEF OutInv, Whole
<1>5. Layout' \in PieceLists
  BY <1>3, <1>4, LayoutNext DEF OutInv
<1> QED BY <1>1, <1>2, <1>3, <1>4, <1>5, BeginsEmpty, BytesOfOne DEF OutInv, Begins

\* A face without its image.
LEMMA RemovedType ==
  ASSUME NEW h \in Seq(Blocks), h # <<>>, h[RECORD].kind = "record", Whole(h), NEW i
  PROVE  LET g == Removed(h, i)
         IN g \in Seq(Blocks) /\ g # <<>> /\ g[RECORD].kind = "record" /\ Whole(g)
<1> DEFINE g == Removed(h, i)
           one(k) == IF h[k].kind = "data" THEN [h[k] EXCEPT !.owners = @ \ {i}] ELSE h[k]
<1>1. Len(h) \in Nat /\ DOMAIN h = 1 .. Len(h) /\ \A k \in 1 .. Len(h) : h[k] \in Blocks
  OBVIOUS
<1>2. ASSUME NEW k \in 1 .. Len(h)
      PROVE  one(k) \in Blocks /\ one(k).kind = h[k].kind /\ (h[k].kind # "data" => one(k) = h[k])
  <2> DEFINE b == h[k]
             o == b.owners \ {i}
  <2>1. b \in Blocks /\ o \in SUBSET Nat
    BY <1>1 DEF Blocks
  <2> HIDE DEF o
  <2>2. LET d == [b EXCEPT !.owners = o] IN d \in Blocks /\ d.kind = b.kind
    BY <2>1 DEF Blocks
  <2> QED BY <2>1, <2>2 DEF o
<1>3. g = [k \in 1 .. Len(h) |-> one(k)]
  BY <1>1 DEF Removed
<1> HIDE DEF g, one
<1>4. /\ g \in Seq(Blocks) /\ Len(g) = Len(h) /\ DOMAIN g = 1 .. Len(h)
      /\ \A k \in 1 .. Len(h) : g[k] = one(k)
  BY <1>1, <1>2, <1>3
<1>5. g # <<>> /\ RECORD \in 1 .. Len(h)
  BY <1>1, <1>4, EmptySeq DEF RECORD
<1>6. Whole(g)
  BY <1>1, <1>2, <1>4 DEF Whole, IsOf
<1> QED BY <1>2, <1>4, <1>5, <1>6 DEF g

\* add_image_to_fdb puts another image in the place of one, or none.
LEMMA AddImageOut == ASSUME OutInv, AddImage PROVE OutInv'
<1>1. /\ client = "caller" /\ at = "read" /\ at' = "edited" /\ format' = format
      /\ UNCHANGED <<client, sink, space, out, wret>>
      /\ UNCHANGED <<format, end, start, current, pc, declared, record_length, parts, length, ret>>
  BY DEF AddImage, ReadDone, ReaderStays
<1>2. /\ heap \in Seq(Blocks) /\ heap # <<>> /\ heap[RECORD].kind = "record" /\ Whole(heap)
      /\ sink # "buffer" /\ wret = WRITE_OK /\ ReaderInv
  BY <1>1 DEF OutInv
<1>3. ReaderInv'
  BY <1>1, <1>2, ReaderRests
<1>4. PICK i \in DOMAIN heap :
        \/ \E n \in ImageSizes \cup {Bytes(Each(i, "data", Filling))} :
             heap' = Append(Removed(heap, i), Block("data", {i}, n))
        \/ heap' = Removed(heap, i)
  BY DEF AddImage, Below
<1> DEFINE g == Removed(heap, i)
<1>5. g \in Seq(Blocks) /\ g # <<>> /\ g[RECORD].kind = "record" /\ Whole(g)
  BY <1>2, RemovedType
<1>6. i \in Nat /\ ImageSizes \cup {Bytes(Each(i, "data", Filling))} \subseteq Nat
  <2>1. Each(i, "data", Filling) \in PieceLists
    BY <1>2, EachFilling
  <2>2. Bytes(Each(i, "data", Filling)) \in Nat
    BY <2>1, BytesJoined
  <2>3. i \in Nat
    BY <1>2
  <2> QED BY <2>2, <2>3, WriterAssumption
<1> HIDE DEF g
<1>7. heap' \in Seq(Blocks) /\ heap' # <<>> /\ heap'[RECORD].kind = "record" /\ Whole(heap')
  <2>1. CASE heap' = g
    BY <1>5, <2>1
  <2>2. ASSUME NEW n \in Nat, heap' = Append(g, Block("data", {i}, n))
        PROVE  heap' \in Seq(Blocks) /\ heap' # <<>> /\ heap'[RECORD].kind = "record" /\ Whole(heap')
    <3> DEFINE b == Block("data", {i}, n)
    <3>1. b \in Blocks /\ b.kind = "data"
      BY <1>6, NewBlock DEF Kinds, Block
    <3>2. heap' = Append(g, b)
      BY <2>2
    <3> HIDE DEF b
    <3>3. Append(g, b) \in Seq(Blocks) /\ Append(g, b) # <<>> /\ Whole(Append(g, b))
      BY <1>5, <3>1, WholeAppend
    <3>4. Append(g, b)[RECORD] = g[RECORD]
      BY <1>5, <3>1 DEF RECORD
    <3> QED BY <1>5, <3>2, <3>3, <3>4
  <2> QED BY <1>4, <1>6, <2>1, <2>2 DEF g
<1>8. Whole(heap)'
  BY <1>1, <1>7 DEF Whole
<1> QED BY <1>1, <1>2, <1>3, <1>7, <1>8 DEF OutInv

\* A piece, the end, or what goes wrong.
LEMMA WriteOut == ASSUME OutInv, Write PROVE OutInv'
<1>0. UNCHANGED <<image_vars, client, images, sink, space>>
  BY DEF Write, WritePiece, FollowNull, CannotWrite, Written, ClientFrame
<1>1. Layout \in PieceLists
  BY LayoutPieces
<1>2. CASE FollowNull \/ Written
  <2>1. at = "write" /\ Len(out) = Len(Layout) /\ Begins(out, Layout)
    BY <1>2 DEF FollowNull, Written, OutInv
  <2>2. out = Layout
    BY <1>1, <2>1, BytesBegun
  <2>3. UNCHANGED <<out, wret>> /\ at' \in {"written", "crashed"}
    BY <1>2 DEF FollowNull, Written, ClientFrame
  <2> QED BY <1>0, <2>1, <2>2, <2>3, OutRests
<1>3. CASE WritePiece \/ CannotWrite
  <2>1. at = "write" /\ Len(out) < Len(Layout) /\ Begins(out, Layout) /\ wret = WRITE_OK
    BY <1>3 DEF WritePiece, CannotWrite, Writing, OutInv
  <2> DEFINE p == Layout[Len(out) + 1]
             more == Append(out, p)
  <2>2. /\ p \in Pieces /\ Begins(more, Layout) /\ Bytes(more) = Bytes(out) + p.size
        /\ Bytes(out) + p.size <= Bytes(Layout)
    BY <1>1, <2>1, BeginsMore
  <2>3. Following = p
    BY DEF Following
  <2>4. /\ Layout' = Layout /\ (ReaderInv => ReaderInv') /\ UNCHANGED <<heap, format>>
        /\ (Whole(heap)' <=> Whole(heap))
    BY <1>0, MemoryRests DEF image_vars, Whole
  <2>5. Bytes(out) \in Nat /\ Bytes(Layout) \in Nat /\ p.size \in Nat
    BY <1>1, <2>1, <2>2, BytesBegun DEF Pieces
  <2> HIDE DEF p
  <2>6. CASE WritePiece
    <3>1. at' = "write" /\ out' = more /\ wret' = wret /\ (sink = "buffer" => Bytes(more) <= space)
      BY <2>1, <2>2, <2>3, <2>6 DEF WritePiece, Room, ClientFrame
    <3>2. Begins(out', Layout')
      BY <2>2, <2>4, <3>1
    <3> HIDE DEF more
    <3>3. sink' = "buffer" => space' \in Nat /\ Bytes(out') <= space'
      BY <1>0, <3>1 DEF OutInv
    <3> QED BY <1>0, <2>1, <2>4, <3>1, <3>2, <3>3 DEF OutInv, Begins
  <2>7. CASE CannotWrite
    <3>1. at' = "written" /\ wret' = WRITE_ERROR /\ out' = out
      BY <2>7 DEF CannotWrite
    <3>2. sink = "buffer" => ~ (Bytes(out) + p.size <= space)
      BY <2>3, <2>7 DEF CannotWrite, Room
    <3>3. sink = "buffer" => Bytes(Layout) > space
      <4>1. sink = "buffer" => space \in Nat
        BY DEF OutInv
      <4> QED BY <2>2, <2>5, <3>2, <4>1
    <3> QED BY <1>0, <2>1, <2>4, <3>1, <3>3 DEF OutInv
  <2> QED BY <1>3, <2>6, <2>7
<1> QED BY <1>2, <1>3 DEF Write

\* cpfrf writes to its file, and begins each record anew.
LEMMA CopyOut == ASSUME OutInv, Copy PROVE OutInv'
<1>0. client = "cpfrf" /\ UNCHANGED <<client, images, sink, space, wret>> /\ sink # "buffer"
  <2>1. client = "cpfrf" /\ UNCHANGED <<client, images, sink, space, wret>>
    BY DEF Copy, CopyOne, NextCopy, CopyEnds, ClientFrame
  <2> QED BY <2>1 DEF OutInv
<1>1. CASE CopyOne
  <2>1. at = "read" /\ at' = "write" /\ out' = <<>> /\ UNCHANGED image_vars
    BY <1>1 DEF CopyOne, ReadDone
  <2>2. /\ Layout' = Layout /\ (ReaderInv => ReaderInv') /\ UNCHANGED <<heap, format>>
        /\ (Whole(heap)' <=> Whole(heap)) /\ Begins(<<>>, Layout)
    BY <1>0, <2>1, MemoryRests, LayoutPieces DEF image_vars, Whole
  <2>3. Begins(out', Layout')
    BY <2>1, <2>2
  <2> QED BY <1>0, <2>1, <2>2, <2>3 DEF OutInv, Begins
<1>2. CASE NextCopy /\ Exit(EXIT_FAILURE) /\ UNCHANGED <<image_vars, out, copied, taken>>
  <2>1. at' = "exit"
    BY <1>2 DEF Exit
  <2> QED BY <1>0, <1>2, <2>1, OutRests
<1>3. CASE CopyEnds
  <2>1. at' = "exit" /\ UNCHANGED <<image_vars, out>>
    BY <1>3 DEF CopyEnds, Exit
  <2> QED BY <1>0, <2>1, OutRests
<1>4. CASE /\ wret = WRITE_OK /\ out' = <<>> /\ at' = "read"
           /\ start' = current /\ pc' = "header" /\ heap' = Begun
           /\ declared' = 0 /\ record_length' = 0 /\ parts' = 0
           /\ part' = 0 /\ image' = 0 /\ todo' = 0 /\ length' = 0 /\ ret' = READ_OK
           /\ UNCHANGED <<format, source, end, current, status>>
  <2>1. ReaderInv
    BY <1>0 DEF OutInv
  <2>2. BegunNow'
    BY <1>4, <2>1 DEF BegunNow, ReaderInv, CursorInv, Begun, Block
  <2>3. /\ HeapInv' /\ TreeInv' /\ SizedInv'
        /\ heap' \in Seq(Blocks) /\ heap' # <<>> /\ heap'[RECORD].kind = "record"
    BY <2>2, BegunMemoryNext
  <2>4. ReaderInv'
    BY <1>4, <2>1 DEF ReaderInv, CountInv, CursorInv, InPart, Pcs, READ_CODES
  <2>5. Whole(heap)'
    BY <2>3 DEF SizedInv
  <2> QED BY <1>0, <1>4, <2>3, <2>4, <2>5 DEF OutInv
<1>5. NextCopy =>
        \/ /\ wret = WRITE_OK /\ out' = <<>> /\ at' = "read"
           /\ start' = current /\ pc' = "header" /\ heap' = Begun
           /\ declared' = 0 /\ record_length' = 0 /\ parts' = 0
           /\ part' = 0 /\ image' = 0 /\ todo' = 0 /\ length' = 0 /\ ret' = READ_OK
           /\ UNCHANGED <<format, source, end, current, status>>
        \/ Exit(EXIT_FAILURE) /\ UNCHANGED <<image_vars, out, copied, taken>>
  BY DEF NextCopy
<1> QED BY <1>1, <1>2, <1>3, <1>4, <1>5 DEF Copy

\* The blocks of a part that a maker loads.
MadePart(i) ==
  Block("part", {RECORD}, IF format = "FRF" THEN FRF_FIB_LENGTH + FRF_IIB_LENGTH
                                            ELSE FIVR_HEADER_LENGTH)
MadePoints(i, n)  == [k \in 1 .. n |-> Block("point", {i}, FRF_FPB_LENGTH)]
MadeData(i, size) == IF size > 0 THEN <<Block("data", {i}, size)>> ELSE <<>>

LEMMA MadeBlocks ==
  ASSUME NEW i \in Nat, NEW n \in Nat, NEW size \in Nat
  PROVE  /\ MadePart(i) \in Blocks /\ MadePoints(i, n) \in Seq(Blocks)
         /\ MadeData(i, size) \in Seq(Blocks)
<1>1. MadePart(i) \in Blocks
  BY NewBlock DEF MadePart, Kinds, RECORD, FRF_FIB_LENGTH, FRF_IIB_LENGTH, FIVR_HEADER_LENGTH
<1>2. Block("point", {i}, FRF_FPB_LENGTH) \in Blocks /\ Block("data", {i}, size) \in Blocks
  BY NewBlock DEF Kinds, FRF_FPB_LENGTH
<1>3. MadePoints(i, n) \in Seq(Blocks) /\ MadeData(i, size) \in Seq(Blocks)
  <2> DEFINE b == Block("point", {i}, FRF_FPB_LENGTH)
             d == Block("data", {i}, size)
  <2>1. b \in Blocks /\ d \in Blocks
    BY <1>2
  <2>2. MadePoints(i, n) = [k \in 1 .. n |-> b] /\ MadeData(i, size) = IF size > 0 THEN <<d>> ELSE <<>>
    BY DEF MadePoints, MadeData
  <2> HIDE DEF b, d
  <2> QED BY <2>1, <2>2
<1> QED BY <1>1, <1>3

\* What a maker loads.
LEMMA LoadsPart ==
  ASSUME LoadPart
  PROVE  \E n \in Nat, size \in Nat :
           LET i == Len(heap) + 1
           IN /\ heap' = heap \o <<MadePart(i)>> \o MadePoints(i, n) \o MadeData(i, size)
              /\ record_length' = record_length + MadeLength(n, size)
              /\ format # "FRF" => n = 0
<1> DEFINE i == Len(heap) + 1
<1>1. PICK n \in IF format = "FRF" THEN SubCounts ELSE {0}, size \in ImageSizes \cup {0} :
        /\ heap' = heap \o <<MadePart(i)>> \o MadePoints(i, n) \o MadeData(i, size)
        /\ record_length' = record_length + MadeLength(n, size)
  BY DEF LoadPart, MadePart, MadePoints, MadeData
<1>2. n \in Nat /\ size \in Nat /\ (format # "FRF" => n = 0)
  BY Wire, WriterAssumption
<1> QED BY <1>1, <1>2

\* The makers write to their file, and make no records of 2011.
LEMMA MakeOut == ASSUME OutInv, Make PROVE OutInv'
<1>0. UNCHANGED <<client, images, sink, space, wret, format>>
  BY DEF Make, LoadHdr, BadText, LoadPart, WriteMade, MakeEnds, ClientFrame, ReaderStays, image_vars
<1>1. CASE BadText \/ MakeEnds
  <2>1. at' = "exit" /\ UNCHANGED <<image_vars, out>> /\ sink # "buffer"
    BY <1>1 DEF BadText, MakeEnds, Exit, OutInv
  <2> QED BY <1>0, <2>1, OutRests
<1>2. CASE WriteMade
  <2>1. at = "load" /\ at' = "write" /\ UNCHANGED <<image_vars, out>> /\ client = "maker"
    BY <1>2 DEF WriteMade, OutInv
  <2> QED BY <1>0, <2>1, OutRests
<1>3. ASSUME at \in {"load_hdr", "load"}, at' = "load", out' = out,
             heap' \in Seq(Blocks), heap' # <<>>, heap'[RECORD].kind = "record"
      PROVE  OutInv'
  <2>1. client = "maker" /\ format # "IIR_2011" /\ out = <<>> /\ wret = WRITE_OK /\ sink # "buffer"
    BY <1>3 DEF OutInv
  <2>2. Whole(heap)'
    BY <1>0, <2>1 DEF Whole
  <2> QED BY <1>0, <1>3, <2>1, <2>2 DEF OutInv
<1>4. /\ heap \in Seq(Blocks) /\ heap # <<>> /\ heap[RECORD].kind = "record" /\ Whole(heap)
      /\ RECORD \in DOMAIN heap /\ format \in AllImageFormats
  BY DEF OutInv, RECORD
<1>5. CASE LoadHdr
  <2>1. heap' = Filled(heap, RECORD, HeaderLength[format])
    BY <1>5 DEF LoadHdr
  <2>2. HeaderLength[format] \in Nat
    BY <1>4 DEF HeaderLength, AllImageFormats, FingerFormats, IrisFormats
  <2>3. heap' \in Seq(Blocks) /\ heap' # <<>> /\ heap'[RECORD].kind = "record"
    BY <1>4, <2>1, <2>2, WholeFilled
  <2>4. at = "load_hdr" /\ at' = "load" /\ out' = out
    BY <1>5 DEF LoadHdr
  <2> QED BY <1>3, <2>3, <2>4
<1>6. CASE LoadPart
  <2> DEFINE i == Len(heap) + 1
  <2>1. PICK n \in Nat, size \in Nat :
          heap' = heap \o <<MadePart(i)>> \o MadePoints(i, n) \o MadeData(i, size)
    BY <1>6, LoadsPart
  <2>2. i \in Nat
    BY <1>4
  <2>3. /\ MadePart(i) \in Blocks /\ MadePoints(i, n) \in Seq(Blocks)
        /\ MadeData(i, size) \in Seq(Blocks)
    BY <2>2, MadeBlocks
  <2> DEFINE b == MadePart(i)
             p == MadePoints(i, n)
             d == MadeData(i, size)
  <2> HIDE DEF b, p, d
  <2>4. b \in Blocks /\ p \in Seq(Blocks) /\ d \in Seq(Blocks) /\ heap' = heap \o <<b>> \o p \o d
    BY <2>1, <2>3 DEF b, p, d
  <2>5. heap' \in Seq(Blocks) /\ heap' # <<>> /\ heap'[RECORD] = heap[RECORD]
    BY <1>4, <2>4 DEF RECORD
  <2>6. at = "load" /\ at' = "load" /\ out' = out
    BY <1>6 DEF LoadPart
  <2> QED BY <1>3, <1>4, <2>5, <2>6
<1> QED BY <1>1, <1>2, <1>5, <1>6 DEF Make

\* Every step keeps the invariant.
LEMMA OutStep == OutInv /\ [Next]_vars => OutInv'
<1> SUFFICES ASSUME OutInv, [Next]_vars PROVE OutInv'
  OBVIOUS
<1>1. CASE WriteRecord
  <2>1. client = "caller" /\ at = "read" /\ StartsWriting(TRUE) /\ UNCHANGED image_vars
    BY <1>1 DEF WriteRecord, ReadDone
  <2> QED BY <2>1, StartOut
<1>2. CASE WriteClone
  <2>1. client = "caller" /\ at = "read" /\ StartsWriting(FALSE) /\ UNCHANGED image_vars
    BY <1>2 DEF WriteClone, ReadDone
  <2> QED BY <2>1, StartOut
<1>3. CASE WriteEdited
  <2>1. client = "caller" /\ at = "edited" /\ StartsWriting(TRUE) /\ UNCHANGED image_vars
    BY <1>3 DEF WriteEdited, OutInv
  <2> QED BY <2>1, StartOut
<1>4. CASE UNCHANGED vars
  <2>1. UNCHANGED <<image_vars, client, at, images, sink, space, out, wret>>
    BY <1>4 DEF vars, writer_vars
  <2>2. /\ Layout' = Layout /\ (ReaderInv => ReaderInv') /\ UNCHANGED <<heap, format>>
        /\ (HeapInv /\ TreeInv /\ SizedInv => HeapInv' /\ TreeInv' /\ SizedInv')
        /\ (Whole(heap)' <=> Whole(heap))
    BY <2>1, MemoryRests DEF image_vars, Whole
  <2>3. at' = "write" => Begins(out', Layout')
    BY <2>1, <2>2 DEF OutInv
  <2> QED BY <2>1, <2>2, <2>3 DEF OutInv, Begins
<1> QED
  BY <1>1, <1>2, <1>3, <1>4, ReadOut, AddImageOut, WriteOut, CopyOut, MakeOut DEF Next

\* A buffer is enough exactly if all of the record has room there, and
\* nothing is ever put behind it.
THEOREM BufferIsEnoughHolds == Spec => []BufferIsEnough
<1>1. OutInv => BufferIsEnough
  <2> SUFFICES ASSUME OutInv, sink = "buffer" PROVE BufferIsEnough
    BY DEF BufferIsEnough
  <2>1. space \in Nat /\ Bytes(out) <= space
    BY DEF OutInv
  <2>2. ASSUME at = "written"
        PROVE  (wret = WRITE_OK <=> out = Layout) /\ (wret = WRITE_OK <=> Bytes(Layout) <= space)
    <3>1. Bytes(Layout) \in Nat
      BY LayoutPieces, BytesJoined
    <3>2. WRITE_OK # WRITE_ERROR
      BY DEF WRITE_OK, WRITE_ERROR
    <3>3. CASE wret = WRITE_OK
      BY <2>1, <2>2, <3>2, <3>3 DEF OutInv
    <3>4. CASE wret = WRITE_ERROR
      <4>1. Bytes(Layout) > space
        BY <2>2, <3>4 DEF OutInv
      <4> QED BY <2>1, <3>1, <3>2, <3>4, <4>1
    <3> QED BY <2>2, <3>3, <3>4 DEF OutInv
  <2> QED BY <2>1, <2>2 DEF BufferIsEnough
<1> QED BY InitOut, OutStep, <1>1, PTL DEF Spec

-----------------------------------------------------------------------------
(* The length that a maker adds up.                                        *)

\* Memory h with a part more, with n points and so many bytes of image.
Loaded(h, n, size) ==
  LET i == Len(h) + 1
  IN h \o <<MadePart(i)>> \o MadePoints(i, n) \o MadeData(i, size)

\* g is memory h, and then such blocks.
LoadedAs(g, h, n, size) ==
  LET i == Len(h) + 1
  IN /\ i \in Nat /\ DOMAIN h = 1 .. Len(h) /\ Len(h) \in Nat
     /\ g \in Seq(Blocks) /\ Len(g) = i + n + (IF size > 0 THEN 1 ELSE 0)
     /\ DOMAIN g = 1 .. Len(g)
     /\ \A k \in 1 .. Len(h) : k \in DOMAIN g /\ g[k] = h[k]
     /\ g[i].kind = "part" /\ g[i].owners = {RECORD}
     /\ \A k \in i + 1 .. i + n :
          g[k].kind = "point" /\ g[k].owners = {i} /\ g[k].size = FRF_FPB_LENGTH
     /\ size > 0 => /\ g[i + n + 1].kind = "data" /\ g[i + n + 1].owners = {i}
                    /\ g[i + n + 1].size = size
     /\ \A k \in DOMAIN g : \/ k \in 1 .. Len(h) \/ k = i \/ k \in i + 1 .. i + n
                            \/ size > 0 /\ k = i + n + 1

LEMMA LoadedBlocks ==
  ASSUME NEW h \in Seq(Blocks), NEW n \in Nat, NEW size \in Nat
  PROVE  LoadedAs(Loaded(h, n, size), h, n, size)
<1> DEFINE i == Len(h) + 1
           b == MadePart(i)
           p == MadePoints(i, n)
           d == MadeData(i, size)
<1>1. i \in Nat /\ DOMAIN h = 1 .. Len(h) /\ Len(h) \in Nat
  OBVIOUS
<1>2. b \in Blocks /\ p \in Seq(Blocks) /\ d \in Seq(Blocks)
  BY <1>1, MadeBlocks
<1>3. Len(p) = n /\ \A k \in 1 .. n : p[k] = Block("point", {i}, FRF_FPB_LENGTH)
  BY DEF MadePoints
<1>4. /\ size > 0 => Len(d) = 1 /\ d[1] = Block("data", {i}, size)
      /\ ~ (size > 0) => Len(d) = 0
  BY DEF MadeData
<1>5. Loaded(h, n, size) = h \o <<b>> \o p \o d
  BY DEF Loaded
<1> DEFINE g == h \o <<b>> \o p \o d
<1>6. g \in Seq(Blocks) /\ Len(g) = Len(h) + 1 + Len(p) + Len(d) /\ DOMAIN g = 1 .. Len(g)
  <2> HIDE DEF b, p, d
  <2> QED BY <1>2
<1>7. /\ \A k \in 1 .. Len(h) : g[k] = h[k]
      /\ g[Len(h) + 1] = b
      /\ \A k \in Len(h) + 2 .. Len(h) + 1 + Len(p) : g[k] = p[k - Len(h) - 1]
      /\ Len(d) = 1 => g[Len(h) + 1 + Len(p) + 1] = d[1]
  <2> HIDE DEF b, p, d
  <2> QED BY <1>2
<1> HIDE DEF g, b, p, d
<1>8. \A k \in i + 1 .. i + n : g[k] = Block("point", {i}, FRF_FPB_LENGTH)
  <2> TAKE k \in i + 1 .. i + n
  <2>1. k \in Len(h) + 2 .. Len(h) + 1 + Len(p) /\ k - Len(h) - 1 \in 1 .. n
    BY <1>1, <1>3
  <2> QED BY <1>3, <1>7, <2>1
<1>9. size > 0 => g[i + n + 1] = Block("data", {i}, size)
  BY <1>1, <1>3, <1>4, <1>7
<1>10. Len(g) = i + n + (IF size > 0 THEN 1 ELSE 0)
  BY <1>1, <1>3, <1>4, <1>6
<1>11. \A k \in 1 .. Len(h) : k \in 1 .. Len(g)
  BY <1>1, <1>10
<1>12. g[i].kind = "part" /\ g[i].owners = {RECORD}
  BY <1>1, <1>7 DEF b, MadePart, Block
<1>13. \A k \in i + 1 .. i + n :
         g[k].kind = "point" /\ g[k].owners = {i} /\ g[k].size = FRF_FPB_LENGTH
  BY <1>8 DEF Block
<1>14. size > 0 => /\ g[i + n + 1].kind = "data" /\ g[i + n + 1].owners = {i}
                   /\ g[i + n + 1].size = size
  BY <1>9 DEF Block
<1>15. \A k \in 1 .. Len(g) : \/ k \in 1 .. Len(h) \/ k = i \/ k \in i + 1 .. i + n
                              \/ size > 0 /\ k = i + n + 1
  BY <1>1, <1>10
<1>16. LoadedAs(g, h, n, size)
  BY <1>1, <1>6, <1>7, <1>10, <1>11, <1>12, <1>13, <1>14, <1>15 DEF LoadedAs
<1> QED BY <1>5, <1>16 DEF g, b, p, d

\* No block of memory belongs to one that is not there.
Owned(h) == \A k \in DOMAIN h : h[k].owners \subseteq DOMAIN h

LEMMA LoadedOwned ==
  ASSUME NEW h \in Seq(Blocks), h # <<>>, NEW n \in Nat, NEW size \in Nat, Owned(h)
  PROVE  Owned(Loaded(h, n, size))
<1> DEFINE g == Loaded(h, n, size)
           i == Len(h) + 1
<1>0. LoadedAs(g, h, n, size)
  BY LoadedBlocks
<1> HIDE DEF g
<1>1. /\ i \in Nat /\ DOMAIN h = 1 .. Len(h) /\ Len(h) \in Nat
      /\ Len(g) = i + n + (IF size > 0 THEN 1 ELSE 0)
      /\ DOMAIN g = 1 .. Len(g)
      /\ \A k \in 1 .. Len(h) : k \in DOMAIN g /\ g[k] = h[k]
  BY <1>0 DEF LoadedAs
<1>2. /\ g[i].owners = {RECORD}
      /\ \A k \in i + 1 .. i + n : g[k].owners = {i}
      /\ size > 0 => g[i + n + 1].owners = {i}
      /\ \A k \in DOMAIN g : \/ k \in 1 .. Len(h) \/ k = i \/ k \in i + 1 .. i + n
                             \/ size > 0 /\ k = i + n + 1
  BY <1>0 DEF LoadedAs
<1>3. i \in DOMAIN g /\ RECORD \in DOMAIN g
  BY <1>1 DEF RECORD
<1>4. \A k \in 1 .. Len(h) : h[k].owners \subseteq DOMAIN g
  BY <1>1 DEF Owned
<1>5. ASSUME NEW k \in DOMAIN g PROVE g[k].owners \subseteq DOMAIN g
  BY <1>1, <1>2, <1>3, <1>4
<1> QED BY <1>5 DEF Owned, g

\* The blocks that were there keep what is theirs.
LEMMA LoadedKeeps ==
  ASSUME NEW h \in Seq(Blocks), NEW n \in Nat, NEW size \in Nat,
         NEW k \in DOMAIN h, NEW kind \in {"point", "data"}
  PROVE  LET g == Loaded(h, n, size)
         IN Strung(g, k, kind, Fill(g)) = Strung(h, k, kind, Fill(h))
<1> DEFINE g == Loaded(h, n, size)
           i == Len(h) + 1
<1>0. LoadedAs(g, h, n, size)
  BY LoadedBlocks
<1> HIDE DEF g
<1>1. /\ i \in Nat /\ DOMAIN h = 1 .. Len(h) /\ Len(h) \in Nat
      /\ g \in Seq(Blocks) /\ Len(g) = i + n + (IF size > 0 THEN 1 ELSE 0)
      /\ DOMAIN g = 1 .. Len(g)
      /\ \A j \in 1 .. Len(h) : j \in DOMAIN g /\ g[j] = h[j]
  BY <1>0 DEF LoadedAs
<1>2. /\ g[i].kind = "part"
      /\ \A j \in i + 1 .. i + n : g[j].owners = {i}
      /\ size > 0 => g[i + n + 1].owners = {i}
      /\ \A j \in DOMAIN g : \/ j \in 1 .. Len(h) \/ j = i \/ j \in i + 1 .. i + n
                             \/ size > 0 /\ j = i + n + 1
  BY <1>0 DEF LoadedAs
<1>3. k # i
  BY <1>1
<1>4. ASSUME NEW j \in DOMAIN g
      PROVE  IsOf(g, j, k, kind) <=> j \in DOMAIN h /\ IsOf(h, j, k, kind)
  <2>1. CASE j \in 1 .. Len(h)
    BY <1>1, <2>1 DEF IsOf
  <2>2. CASE j \notin 1 .. Len(h)
    <3>1. g[j].kind = "part" \/ g[j].owners = {i}
      BY <1>2, <2>2
    <3> QED BY <1>1, <1>3, <2>2, <3>1 DEF IsOf
  <2> QED BY <2>1, <2>2
<1>5. \A j \in DOMAIN h : Fill(g)[j] = Fill(h)[j]
  BY <1>1 DEF Fill
<1>6. Known(h, k, kind, Fill(h))
  BY FillType
<1>7. Len(h) <= Len(g)
  BY <1>1
<1>8. Strung(g, k, kind, Fill(g)) = Strung(h, k, kind, Fill(h))
  <2>1. \A j \in DOMAIN g : IsOf(g, j, k, kind) <=> j \in DOMAIN h /\ IsOf(h, j, k, kind)
    BY <1>4
  <2>2. \A j \in DOMAIN h : IsOf(h, j, k, kind) => Fill(g)[j] = Fill(h)[j]
    BY <1>5
  <2>3. h \in Seq(Blocks) /\ g \in Seq(Blocks)
    BY <1>1
  <2> QED BY ONLY <1>6, <1>7, <2>1, <2>2, <2>3, StrungKeeps
<1> QED BY <1>8 DEF g

\* The points of the part that was loaded.
LEMMA LoadedPoints ==
  ASSUME NEW h \in Seq(Blocks), h # <<>>, Owned(h), NEW n \in Nat, NEW size \in Nat
  PROVE  LET g == Loaded(h, n, size)
             points == Strung(g, Len(h) + 1, "point", Fill(g))
         IN points \in PieceLists /\ Bytes(points) = n * FRF_FPB_LENGTH
<1> DEFINE i == Len(h) + 1
           at_(m) == Loaded(h, m, 0)
           points(g) == Strung(g, i, "point", Fill(g))
           S == {m \in Nat : points(at_(m)) \in PieceLists
                             /\ Bytes(points(at_(m))) = m * FRF_FPB_LENGTH}
           Loads(g, m, z) ==
             /\ g \in Seq(Blocks) /\ Len(g) = i + m + (IF z > 0 THEN 1 ELSE 0)
             /\ DOMAIN g = 1 .. Len(g) /\ Known(g, i, "point", Fill(g))
             /\ \A k \in DOMAIN g : IsOf(g, k, i, "point") <=> k \in i + 1 .. i + m
             /\ \A k \in i + 1 .. i + m : g[k].size = FRF_FPB_LENGTH
<1>0. /\ Len(h) \in Nat /\ DOMAIN h = 1 .. Len(h) /\ i \in Nat
      /\ \A k \in 1 .. Len(h) : i \notin h[k].owners
  <2>1. Len(h) \in Nat /\ DOMAIN h = 1 .. Len(h)
    OBVIOUS
  <2> QED BY <2>1 DEF Owned
<1>1. ASSUME NEW m \in Nat, NEW z \in Nat PROVE Loads(Loaded(h, m, z), m, z)
  <2> DEFINE g == Loaded(h, m, z)
  <2>0. LoadedAs(g, h, m, z)
    BY LoadedBlocks
  <2> HIDE DEF g
  <2>1. /\ g \in Seq(Blocks) /\ Len(g) = i + m + (IF z > 0 THEN 1 ELSE 0)
        /\ DOMAIN g = 1 .. Len(g)
        /\ \A k \in i + 1 .. i + m : g[k].size = FRF_FPB_LENGTH
    BY <2>0 DEF LoadedAs
  <2>2. Known(g, i, "point", Fill(g))
    BY <2>1, FillType
  <2>3. ASSUME NEW k \in DOMAIN g
        PROVE  IsOf(g, k, i, "point") <=> k \in i + 1 .. i + m
    <3>1. CASE k \in 1 .. Len(h)
      <4>1. g[k] = h[k]
        BY <2>0, <3>1 DEF LoadedAs
      <4> QED BY <1>0, <3>1, <4>1 DEF IsOf
    <3>2. CASE k = i
      <4>1. g[k].kind = "part"
        BY <2>0, <3>2 DEF LoadedAs
      <4> QED BY <1>0, <3>2, <4>1 DEF IsOf
    <3>3. CASE k \in i + 1 .. i + m
      <4>1. g[k].kind = "point" /\ g[k].owners = {i}
        BY <2>0, <3>3 DEF LoadedAs
      <4> QED BY <3>3, <4>1 DEF IsOf
    <3>4. CASE z > 0 /\ k = i + m + 1
      <4>1. g[k].kind = "data"
        BY <2>0, <3>4 DEF LoadedAs
      <4> QED BY <1>0, <3>4, <4>1 DEF IsOf
    <3> QED BY <2>0, <3>1, <3>2, <3>3, <3>4 DEF LoadedAs
  <2>4. Loads(g, m, z)
    BY <2>1, <2>2, <2>3
  <2> QED BY <2>4 DEF g
<1>a. FRF_FPB_LENGTH \in Nat /\ FRF_FPB_LENGTH > 0
  BY DEF FRF_FPB_LENGTH
<1> HIDE DEF i, Loads
<1>2. 0 \in S
  <2> DEFINE g == at_(0)
  <2>0. Loads(g, 0, 0)
    BY <1>1
  <2> HIDE DEF g
  <2>1. /\ g \in Seq(Blocks) /\ Known(g, i, "point", Fill(g))
        /\ \A k \in DOMAIN g : ~ IsOf(g, k, i, "point")
    BY <1>0, <2>0 DEF Loads
  <2> HIDE DEF g
  <2>2. points(g) = <<>>
    BY <2>1, StrungType
  <2>3. <<>> \in PieceLists /\ Bytes(<<>>) = 0
    BY Joined, BeginsEmpty
  <2> QED BY <2>2, <2>3 DEF g, FRF_FPB_LENGTH
<1>3. ASSUME NEW m \in S PROVE m + 1 \in S
  <2> DEFINE f == at_(m)
             g == at_(m + 1)
             x == i + m + 1
  <2>0. m \in Nat /\ Loads(f, m, 0) /\ Loads(g, m + 1, 0)
    <3>1. m \in Nat /\ m + 1 \in Nat
      OBVIOUS
    <3> QED BY <1>1, <3>1
  <2>1. m \in Nat /\ m + 1 \in Nat /\ x \in Nat
    BY <1>0
  <2>2. points(f) \in PieceLists /\ Bytes(points(f)) = m * FRF_FPB_LENGTH
    OBVIOUS
  <2> HIDE DEF f, g, S
  <2>3. /\ f \in Seq(Blocks) /\ Len(f) = i + m /\ DOMAIN f = 1 .. Len(f)
        /\ Known(f, i, "point", Fill(f))
        /\ \A k \in DOMAIN f : IsOf(f, k, i, "point") <=> k \in i + 1 .. i + m
        /\ \A k \in i + 1 .. i + m : f[k].size = FRF_FPB_LENGTH
    BY <1>0, <2>0 DEF Loads
  <2>4. /\ g \in Seq(Blocks) /\ Len(g) = x /\ DOMAIN g = 1 .. Len(g)
        /\ \A k \in DOMAIN g : IsOf(g, k, i, "point") <=> k \in i + 1 .. x
        /\ \A k \in i + 1 .. x : g[k].size = FRF_FPB_LENGTH
    <3>1. i + (m + 1) = x
      BY <1>0, <2>1
    <3> QED BY <1>0, <2>0, <2>1, <3>1 DEF Loads
  <2>a. x = i + m + 1
    OBVIOUS
  <2> HIDE DEF x
  <2>5. /\ x \in DOMAIN g /\ x <= Len(f) + 1 /\ Len(f) <= Len(g) /\ IsOf(g, x, i, "point")
        /\ x \in i + 1 .. x
    BY <1>0, <2>1, <2>3, <2>4, <2>a
  <2>6. Fill(g)[x] = <<Piece(x, "all", FRF_FPB_LENGTH)>>
    BY <1>a, <2>4, <2>5 DEF Fill
  <2>7. /\ Fill(g)[x] \in PieceLists /\ Bytes(Fill(g)[x]) = FRF_FPB_LENGTH
    <3>1. "all" \in PieceKinds
      BY DEF PieceKinds
    <3> QED BY <1>a, <2>1, <2>6, <3>1, PieceType, BytesOfOne
  <2>8. \A k \in DOMAIN g :
          k # x => (IsOf(g, k, i, "point") <=> k \in DOMAIN f /\ IsOf(f, k, i, "point"))
    BY <1>0, <2>1, <2>3, <2>4, <2>a
  <2>9. \A k \in DOMAIN f : IsOf(f, k, i, "point") => k < x /\ Fill(g)[k] = Fill(f)[k]
    <3> TAKE k \in DOMAIN f
    <3> SUFFICES ASSUME IsOf(f, k, i, "point") PROVE k < x /\ Fill(g)[k] = Fill(f)[k]
      OBVIOUS
    <3>1. k \in i + 1 .. i + m /\ k \in i + 1 .. x /\ k \in DOMAIN g
      BY <1>0, <2>1, <2>3, <2>4, <2>a
    <3>2. f[k].size = g[k].size
      BY <2>3, <2>4, <3>1
    <3> QED BY <1>0, <2>1, <2>a, <3>1, <3>2 DEF Fill
  <2>10. points(g) = Join(points(f), Fill(g)[x])
    BY <2>3, <2>4, <2>5, <2>7, <2>8, <2>9, StrungGrows
  <2> HIDE DEF points
  <2>11. points(g) \in PieceLists /\ Bytes(points(g)) = Bytes(points(f)) + FRF_FPB_LENGTH
    BY <2>2, <2>7, <2>10, Joined, BytesJoined
  <2>12. Bytes(points(g)) = (m + 1) * FRF_FPB_LENGTH
    BY <2>1, <2>2, <2>11 DEF FRF_FPB_LENGTH
  <2> QED BY <2>1, <2>11, <2>12 DEF S, g, points
<1>4. n \in S
  <2>1. S \subseteq Nat
    OBVIOUS
  <2> HIDE DEF S
  <2> QED BY <1>2, <1>3, <2>1, Induct
<1> DEFINE f == at_(n)
           g == Loaded(h, n, size)
<1>5. /\ f \in Seq(Blocks) /\ Len(f) = i + n /\ DOMAIN f = 1 .. Len(f)
      /\ Known(f, i, "point", Fill(f))
      /\ \A k \in DOMAIN f : IsOf(f, k, i, "point") <=> k \in i + 1 .. i + n
      /\ \A k \in i + 1 .. i + n : f[k].size = FRF_FPB_LENGTH
  <2>1. Loads(f, n, 0)
    BY <1>1
  <2> HIDE DEF f
  <2> QED BY <1>0, <2>1 DEF Loads
<1>6. /\ g \in Seq(Blocks) /\ Len(g) = i + n + (IF size > 0 THEN 1 ELSE 0)
      /\ DOMAIN g = 1 .. Len(g)
      /\ \A k \in DOMAIN g : IsOf(g, k, i, "point") <=> k \in i + 1 .. i + n
      /\ \A k \in i + 1 .. i + n : g[k].size = FRF_FPB_LENGTH
  <2>1. Loads(g, n, size)
    BY <1>1
  <2> HIDE DEF g
  <2> QED BY <1>0, <2>1 DEF Loads
<1>7. points(f) \in PieceLists /\ Bytes(points(f)) = n * FRF_FPB_LENGTH
  BY <1>4
<1> HIDE DEF S, f, g
<1>8. points(g) = points(f)
  <2>1. \A k \in DOMAIN g : IsOf(g, k, i, "point") <=> k \in DOMAIN f /\ IsOf(f, k, i, "point")
    BY <1>0, <1>5, <1>6
  <2>2. \A k \in DOMAIN f : IsOf(f, k, i, "point") => Fill(g)[k] = Fill(f)[k]
    <3> TAKE k \in DOMAIN f
    <3> SUFFICES ASSUME IsOf(f, k, i, "point") PROVE Fill(g)[k] = Fill(f)[k]
      OBVIOUS
    <3>1. k \in i + 1 .. i + n /\ k \in DOMAIN g
      BY <1>0, <1>5, <1>6
    <3> QED BY <1>5, <1>6, <3>1 DEF Fill
  <2>3. Len(f) <= Len(g)
    BY <1>0, <1>5, <1>6
  <2> QED BY <1>5, <1>6, <2>1, <2>2, <2>3, StrungKeeps
<1> QED BY <1>7, <1>8 DEF g, i

\* Its image.
LEMMA LoadedData ==
  ASSUME NEW h \in Seq(Blocks), h # <<>>, Owned(h), NEW n \in Nat, NEW size \in Nat
  PROVE  LET g == Loaded(h, n, size)
             data == Strung(g, Len(h) + 1, "data", Fill(g))
         IN data \in PieceLists /\ Bytes(data) = size
<1> DEFINE i == Len(h) + 1
           f == Loaded(h, n, 0)
           g == Loaded(h, n, size)
           x == i + n + 1
<1>0. /\ Len(h) \in Nat /\ DOMAIN h = 1 .. Len(h) /\ i \in Nat /\ x \in Nat
      /\ \A k \in 1 .. Len(h) : i \notin h[k].owners
  <2>1. Len(h) \in Nat /\ DOMAIN h = 1 .. Len(h)
    OBVIOUS
  <2> QED BY <2>1 DEF Owned
<1>1. LoadedAs(f, h, n, 0) /\ LoadedAs(g, h, n, size)
  BY LoadedBlocks
<1> HIDE DEF f, g
<1>2. ASSUME NEW m, NEW z \in Nat, LoadedAs(m, h, n, z), NEW k \in DOMAIN m, IsOf(m, k, i, "data")
      PROVE  z > 0 /\ k = x
  <2>1. CASE k \in 1 .. Len(h)
    <3>1. m[k] = h[k]
      BY <1>2, <2>1 DEF LoadedAs
    <3> QED BY <1>0, <1>2, <2>1, <3>1 DEF IsOf
  <2>2. CASE k = i
    <3>1. m[k].kind = "part"
      BY <1>2, <2>2 DEF LoadedAs
    <3> QED BY <1>2, <3>1 DEF IsOf
  <2>3. CASE k \in i + 1 .. i + n
    <3>1. m[k].kind = "point"
      BY <1>2, <2>3 DEF LoadedAs
    <3> QED BY <1>2, <3>1 DEF IsOf
  <2> QED BY <1>2, <2>1, <2>2, <2>3 DEF LoadedAs
<1>3. f \in Seq(Blocks) /\ Len(f) = i + n /\ Known(f, i, "data", Fill(f)) /\ DOMAIN f = 1 .. Len(f)
  <2>1. f \in Seq(Blocks) /\ Len(f) = i + n /\ DOMAIN f = 1 .. Len(f)
    BY <1>0, <1>1 DEF LoadedAs
  <2> QED BY <2>1, FillType
<1>4. \A k \in DOMAIN f : ~ IsOf(f, k, i, "data")
  BY <1>1, <1>2
<1>5. Strung(f, i, "data", Fill(f)) = <<>>
  BY <1>3, <1>4, StrungType
<1>6. g \in Seq(Blocks) /\ Known(g, i, "data", Fill(g)) /\ DOMAIN g = 1 .. Len(g)
  <2>1. g \in Seq(Blocks) /\ DOMAIN g = 1 .. Len(g)
    BY <1>1 DEF LoadedAs
  <2> QED BY <2>1, FillType
<1>7. <<>> \in PieceLists /\ Bytes(<<>>) = 0
  BY Joined, BeginsEmpty
<1>8. CASE size = 0
  <2>1. \A k \in DOMAIN g : ~ IsOf(g, k, i, "data")
    BY <1>1, <1>2, <1>8
  <2>2. Strung(g, i, "data", Fill(g)) = <<>>
    BY <1>6, <2>1, StrungType
  <2> QED BY <1>7, <1>8, <2>2 DEF g
<1>9. CASE size > 0
  <2>1. Len(g) = x /\ x \in DOMAIN g /\ IsOf(g, x, i, "data") /\ g[x].size = size
    <3>1. /\ Len(g) = x /\ g[x].kind = "data" /\ g[x].owners = {i} /\ g[x].size = size
      BY <1>0, <1>1, <1>9 DEF LoadedAs
    <3> QED BY <1>0, <1>6, <3>1 DEF IsOf
  <2>2. Fill(g)[x] = <<Piece(x, "all", size)>>
    BY <1>9, <2>1 DEF Fill
  <2>3. Fill(g)[x] \in PieceLists /\ Bytes(Fill(g)[x]) = size
    BY <1>0, <2>2, PieceType, BytesOfOne DEF PieceKinds
  <2>4. \A k \in DOMAIN g :
          k # x => (IsOf(g, k, i, "data") <=> k \in DOMAIN f /\ IsOf(f, k, i, "data"))
    BY <1>1, <1>2, <1>4
  <2>5. x <= Len(f) + 1 /\ Len(f) <= Len(g)
    BY <1>0, <1>3, <2>1
  <2>a. \A k \in DOMAIN f : IsOf(f, k, i, "data") => k < x /\ Fill(g)[k] = Fill(f)[k]
    BY <1>4
  <2> HIDE DEF x, i
  <2>b. Strung(g, i, "data", Fill(g)) = Join(Strung(f, i, "data", Fill(f)), Fill(g)[x])
    <3>1. Known(f, i, "data", Fill(f)) /\ f \in Seq(Blocks) /\ g \in Seq(Blocks)
      BY <1>3, <1>6
    <3>2. x \in DOMAIN g /\ IsOf(g, x, i, "data") /\ Fill(g)[x] \in PieceLists
      BY <2>1, <2>3
    <3> QED BY ONLY <3>1, <3>2, <2>4, <2>5, <2>a, StrungGrows
  <2>6. Strung(g, i, "data", Fill(g)) = Join(<<>>, Fill(g)[x])
    BY <1>5, <2>b
  <2>7. Strung(g, i, "data", Fill(g)) = Fill(g)[x]
    BY <2>3, <2>6, Joined
  <2> QED BY <2>3, <2>7 DEF g, i
<1> QED BY <1>8, <1>9

-----------------------------------------------------------------------------

\* What a maker writes of a part in memory h.
MadeOut(h, k) ==
  IF format = "FRF"
    THEN Join(Join(Join(<<Piece(k, "all", FRF_FIB_LENGTH)>>, Strung(h, k, "point", Fill(h))),
                   <<Piece(k, "all", FRF_IIB_LENGTH)>>),
              Strung(h, k, "data", Fill(h)))
    ELSE Join(<<Piece(k, "all", FIVR_HEADER_LENGTH)>>, Strung(h, k, "data", Fill(h)))

MakerFormats == FingerFormats \cup {"FRF"}

\* It is what the writer writes of it.
LEMMA MadePartsNow ==
  heap \in Seq(Blocks) /\ images /\ format \in MakerFormats
    => \A k \in DOMAIN heap : PartsOut[k] = MadeOut(heap, k)
<1> SUFFICES ASSUME heap \in Seq(Blocks), images, format \in MakerFormats, NEW k \in DOMAIN heap
             PROVE  PartsOut[k] = MadeOut(heap, k)
  OBVIOUS
<1>1. /\ Each(k, "data", Filling) = Strung(heap, k, "data", Fill(heap))
      /\ Each(k, "point", Filling) = Strung(heap, k, "point", Fill(heap))
      /\ PartsOut[k] = PartOut(k) /\ ImageData(k) = Each(k, "data", Filling)
  BY EachFilling DEF PartsOut, ImageData
<1>2. CASE format = "FRF"
  <2>1. PartOut(k) = internal_write_fdb(k)
    BY <1>2 DEF PartOut, FingerFormats
  <2> QED BY <1>1, <1>2, <2>1 DEF internal_write_fdb, MadeOut, Join
<1>3. CASE format \in FingerFormats
  <2>1. PartOut(k) = write_fivr(k) /\ format # "FRF"
    BY <1>3 DEF PartOut, FingerFormats
  <2> QED BY <1>1, <2>1 DEF write_fivr, MadeOut, Join
<1> QED BY <1>2, <1>3 DEF MakerFormats

LEMMA MadePartsNext ==
  (heap \in Seq(Blocks) /\ images /\ format \in MakerFormats
     => \A k \in DOMAIN heap : PartsOut[k] = MadeOut(heap, k))'
BY MadePartsNow, PTL

\* What there is to write, part by part, now and after a step.
LEMMA SplitNow ==
  heap \in Seq(Blocks) /\ format \in AllImageFormats /\ Whole(heap)
    => /\ Layout = Join(HeaderOut, Strung(heap, RECORD, "part", PartsOut))
       /\ HeaderOut \in PieceLists /\ Bytes(HeaderOut) = HeaderLength[format]
       /\ Known(heap, RECORD, "part", PartsOut)
<1> SUFFICES ASSUME heap \in Seq(Blocks), format \in AllImageFormats, Whole(heap)
             PROVE  /\ Layout = Join(HeaderOut, Strung(heap, RECORD, "part", PartsOut))
                    /\ HeaderOut \in PieceLists /\ Bytes(HeaderOut) = HeaderLength[format]
                    /\ Known(heap, RECORD, "part", PartsOut)
  OBVIOUS
<1>1. HeaderLength[format] \in Nat /\ RECORD \in Nat
  BY DEF RECORD, HeaderLength, AllImageFormats, FingerFormats, IrisFormats
<1>2. Bytes(HeaderOut) = HeaderLength[format]
  <2>1. "all" \in PieceKinds
    BY DEF PieceKinds
  <2> QED BY <1>1, <2>1, PieceType, BytesOfOne DEF HeaderOut
<1> QED BY <1>2, LayoutStrung

LEMMA SplitNext ==
  (heap \in Seq(Blocks) /\ format \in AllImageFormats /\ Whole(heap)
    => /\ Layout = Join(HeaderOut, Strung(heap, RECORD, "part", PartsOut))
       /\ HeaderOut \in PieceLists /\ Bytes(HeaderOut) = HeaderLength[format]
       /\ Known(heap, RECORD, "part", PartsOut))'
BY SplitNow, PTL

\* The parts that were there are written as before.
LEMMA MadeOutKeeps ==
  ASSUME NEW h \in Seq(Blocks), NEW n \in Nat, NEW size \in Nat, NEW k \in DOMAIN h
  PROVE  MadeOut(Loaded(h, n, size), k) = MadeOut(h, k)
<1>1. LET g == Loaded(h, n, size)
      IN /\ Strung(g, k, "point", Fill(g)) = Strung(h, k, "point", Fill(h))
         /\ Strung(g, k, "data", Fill(g)) = Strung(h, k, "data", Fill(h))
  BY LoadedKeeps
<1> QED BY <1>1 DEF MadeOut

\* The part that was loaded has the length that it was given.
LEMMA MadeOutBytes ==
  ASSUME NEW h \in Seq(Blocks), h # <<>>, Owned(h), NEW n \in Nat, NEW size \in Nat,
         format \in MakerFormats, format # "FRF" => n = 0
  PROVE  LET made == MadeOut(Loaded(h, n, size), Len(h) + 1)
         IN made \in PieceLists /\ Bytes(made) = MadeLength(n, size)
<1> DEFINE i == Len(h) + 1
           g == Loaded(h, n, size)
           points == Strung(g, i, "point", Fill(g))
           data == Strung(g, i, "data", Fill(g))
           one(b) == <<Piece(i, "all", b)>>
<1>1. points \in PieceLists /\ Bytes(points) = n * FRF_FPB_LENGTH
  BY LoadedPoints
<1>2. data \in PieceLists /\ Bytes(data) = size
  BY LoadedData
<1>3. ASSUME NEW b \in Nat PROVE one(b) \in PieceLists /\ Bytes(one(b)) = b
  <2>1. "all" \in PieceKinds /\ i \in Nat
    BY DEF PieceKinds
  <2> QED BY <2>1, PieceType, BytesOfOne
<1>4. FRF_FIB_LENGTH \in Nat /\ FRF_IIB_LENGTH \in Nat /\ FIVR_HEADER_LENGTH \in Nat
      /\ n * FRF_FPB_LENGTH \in Nat
  BY DEF FRF_FIB_LENGTH, FRF_IIB_LENGTH, FIVR_HEADER_LENGTH, FRF_FPB_LENGTH
<1>5. MadeOut(g, i) = IF format = "FRF"
                        THEN Join(Join(Join(one(FRF_FIB_LENGTH), points), one(FRF_IIB_LENGTH)), data)
                        ELSE Join(one(FIVR_HEADER_LENGTH), data)
  BY DEF MadeOut
<1> DEFINE made == MadeOut(g, i)
<1> HIDE DEF points, data, one, made
<1>6. CASE format = "FRF"
  <2>0. one(FRF_FIB_LENGTH) \in PieceLists /\ Bytes(one(FRF_FIB_LENGTH)) = FRF_FIB_LENGTH
    BY <1>3, <1>4
  <2>1. /\ Join(one(FRF_FIB_LENGTH), points) \in PieceLists
        /\ Bytes(Join(one(FRF_FIB_LENGTH), points)) = FRF_FIB_LENGTH + n * FRF_FPB_LENGTH
    <3>1. Join(one(FRF_FIB_LENGTH), points) \in PieceLists
      BY <1>1, <2>0, Joined
    <3>2. Bytes(Join(one(FRF_FIB_LENGTH), points)) = Bytes(one(FRF_FIB_LENGTH)) + Bytes(points)
      BY <1>1, <2>0, BytesJoined
    <3> QED BY <1>1, <2>0, <3>1, <3>2
  <2> DEFINE a == Join(one(FRF_FIB_LENGTH), points)
  <2> HIDE DEF a
  <2>2. /\ Join(a, one(FRF_IIB_LENGTH)) \in PieceLists
        /\ Bytes(Join(a, one(FRF_IIB_LENGTH))) = Bytes(a) + FRF_IIB_LENGTH
    <3> DEFINE l == one(FRF_IIB_LENGTH)
    <3>1. a \in PieceLists
      BY <2>1 DEF a
    <3>2. l \in PieceLists /\ Bytes(l) = FRF_IIB_LENGTH
      BY ONLY <1>3, <1>4
    <3> HIDE DEF l
    <3>3. Join(a, l) \in PieceLists
      BY ONLY <3>1, <3>2, Joined
    <3>4. Bytes(Join(a, l)) = Bytes(a) + Bytes(l)
      BY ONLY <3>1, <3>2, BytesJoined
    <3> QED BY <3>2, <3>3, <3>4 DEF l
  <2> DEFINE b == Join(a, one(FRF_IIB_LENGTH))
  <2> HIDE DEF b
  <2>3. Join(b, data) \in PieceLists /\ Bytes(Join(b, data)) = Bytes(b) + size
    BY <1>2, <2>2, Joined, BytesJoined DEF b
  <2>4. MadeLength(n, size) = FRF_FIB_LENGTH + FRF_IIB_LENGTH + n * FRF_FPB_LENGTH + size
    BY <1>6 DEF MadeLength, FingerFormats
  <2>5. made = Join(b, data)
    BY <1>5, <1>6 DEF a, b, made
  <2>6. Bytes(a) = FRF_FIB_LENGTH + n * FRF_FPB_LENGTH /\ Bytes(b) = Bytes(a) + FRF_IIB_LENGTH
    BY <2>1, <2>2 DEF a, b
  <2>7. Bytes(made) = MadeLength(n, size)
    BY <1>4, <2>3, <2>4, <2>5, <2>6
  <2> QED BY <2>3, <2>5, <2>7 DEF made
<1>7. CASE format \in FingerFormats
  <2>1. format # "FRF" /\ n = 0
    BY <1>7 DEF FingerFormats
  <2>2. MadeLength(n, size) = FIVR_HEADER_LENGTH + size
    BY <1>7 DEF MadeLength, FingerFormats
  <2>3. made = Join(one(FIVR_HEADER_LENGTH), data)
    BY <1>5, <2>1 DEF made
  <2>4. made \in PieceLists /\ Bytes(made) = FIVR_HEADER_LENGTH + size
    BY <1>2, <1>3, <1>4, <2>3, Joined, BytesJoined
  <2> QED BY <2>2, <2>4 DEF made
<1> QED BY <1>6, <1>7 DEF MakerFormats

\* The invariant: the length added up so far is that of what there is to write.
MadeInv ==
  client = "maker" =>
    /\ format \in MakerFormats /\ images
    /\ at = "load_hdr" => heap = Begun
    /\ at \in {"load_hdr", "load"} => Owned(heap)
    /\ at \in {"load", "write", "written"} => record_length = Bytes(Layout)

\* It holds before anything is made.
LEMMA InitMade == WInit => MadeInv
<1> SUFFICES ASSUME WInit, client = "maker" PROVE MadeInv
  BY DEF MadeInv
<1>1. at = "load_hdr" /\ format \in MakerFormats /\ images /\ heap = Begun
  BY DEF WInit, Init, Begin, MakerFormats
<1>2. Owned(heap)
  <2> DEFINE b == Block("record", {}, 0)
  <2>1. b.owners = {} /\ heap = <<b>>
    BY <1>1 DEF Block, Begun
  <2> HIDE DEF b
  <2> QED BY <2>1 DEF Owned
<1> QED BY <1>1, <1>2 DEF MadeInv

\* The header is loaded.
LEMMA LoadHdrMade == ASSUME OutInv, OutInv', MadeInv, LoadHdr PROVE MadeInv'
<1>1. /\ at = "load_hdr" /\ at' = "load" /\ client = "maker"
      /\ heap' = Filled(heap, RECORD, HeaderLength[format])
      /\ record_length' = HeaderLength[format]
      /\ UNCHANGED <<client, images, format>>
  BY DEF LoadHdr, OutInv, ClientFrame, ReaderStays
<1>2. /\ format \in MakerFormats /\ images /\ heap = Begun /\ Owned(heap)
      /\ heap \in Seq(Blocks) /\ heap # <<>> /\ Whole(heap) /\ format \in AllImageFormats
  BY <1>1 DEF MadeInv, OutInv
<1>3. RECORD \in DOMAIN heap /\ HeaderLength[format] \in Nat
  BY <1>2 DEF RECORD, HeaderLength, AllImageFormats, FingerFormats, IrisFormats
<1>4. /\ DOMAIN heap' = DOMAIN heap
      /\ \A k \in DOMAIN heap : heap'[k].kind = heap[k].kind /\ heap'[k].owners = heap[k].owners
  <2>1. heap \in Seq(Blocks) /\ heap # <<>> /\ Whole(heap)
    BY <1>2
  <2>2. LET g == Filled(heap, RECORD, HeaderLength[format])
        IN /\ DOMAIN g = DOMAIN heap
           /\ \A k \in DOMAIN heap : g[k].kind = heap[k].kind /\ g[k].owners = heap[k].owners
    BY ONLY <2>1, <1>3, WholeFilled
  <2> QED BY <1>1, <2>2
<1>5. Owned(heap')
  BY <1>2, <1>4 DEF Owned
<1>6. \A k \in DOMAIN heap' : ~ IsOf(heap', k, RECORD, "part")
  <2> DEFINE b == Block("record", {}, 0)
  <2>1. b.owners = {} /\ heap = <<b>>
    BY <1>2 DEF Block, Begun
  <2> HIDE DEF b
  <2>2. \A k \in DOMAIN heap : heap[k].owners = {}
    BY <2>1
  <2> QED BY <1>4, <2>2 DEF IsOf
<1>7. heap' \in Seq(Blocks) /\ format' \in AllImageFormats /\ Whole(heap)'
  BY DEF OutInv
<1>8. /\ Layout' = Join(HeaderOut', Strung(heap', RECORD, "part", PartsOut'))
      /\ HeaderOut' \in PieceLists /\ Bytes(HeaderOut') = HeaderLength[format']
      /\ Known(heap', RECORD, "part", PartsOut')
  BY <1>7, SplitNext
<1>9. Strung(heap', RECORD, "part", PartsOut') = <<>>
  BY <1>6, <1>7, <1>8, StrungType
<1>10. Bytes(Layout') = record_length'
  BY <1>1, <1>8, <1>9, Joined
<1> QED BY <1>1, <1>2, <1>5, <1>10 DEF MadeInv, Owned

\* A part is loaded.
LEMMA LoadPartMade == ASSUME OutInv, OutInv', MadeInv, LoadPart PROVE MadeInv'
<1>1. at = "load" /\ at' = "load" /\ client = "maker" /\ UNCHANGED <<client, images, format>>
  BY DEF LoadPart, OutInv, ClientFrame, ReaderStays
<1>2. /\ format \in MakerFormats /\ images /\ Owned(heap) /\ record_length = Bytes(Layout)
      /\ heap \in Seq(Blocks) /\ heap # <<>> /\ Whole(heap) /\ format \in AllImageFormats
  BY <1>1 DEF MadeInv, OutInv
<1>3. PICK n \in Nat, size \in Nat :
        /\ heap' = Loaded(heap, n, size)
        /\ record_length' = record_length + MadeLength(n, size)
        /\ format # "FRF" => n = 0
  BY LoadsPart DEF Loaded
<1> DEFINE i == Len(heap) + 1
<1>4. LoadedAs(heap', heap, n, size)
  BY <1>2, <1>3, LoadedBlocks
<1>5. Owned(heap')
  BY <1>2, <1>3, LoadedOwned
<1>6. heap' \in Seq(Blocks) /\ format' \in AllImageFormats /\ Whole(heap)'
  BY DEF OutInv
<1>7. /\ Layout' = Join(HeaderOut', Strung(heap', RECORD, "part", PartsOut'))
      /\ HeaderOut' \in PieceLists /\ Bytes(HeaderOut') = HeaderLength[format']
  BY <1>6, SplitNext
<1>8. /\ Layout = Join(HeaderOut, Strung(heap, RECORD, "part", PartsOut))
      /\ HeaderOut \in PieceLists /\ Bytes(HeaderOut) = HeaderLength[format]
      /\ Known(heap, RECORD, "part", PartsOut)
  BY <1>2, SplitNow
<1>9. \A k \in DOMAIN heap' : PartsOut'[k] = MadeOut(heap', k)
  <2>1. (\A k \in DOMAIN heap : PartsOut[k] = MadeOut(heap, k))'
    BY <1>1, <1>2, <1>6, MadePartsNext
  <2> QED BY <1>1, <2>1 DEF MadeOut
<1>10. \A k \in DOMAIN heap : PartsOut'[k] = PartsOut[k]
  <2> TAKE k \in DOMAIN heap
  <2>1. k \in DOMAIN heap'
    BY <1>4 DEF LoadedAs
  <2>2. PartsOut[k] = MadeOut(heap, k)
    BY <1>2, MadePartsNow
  <2>3. MadeOut(heap', k) = MadeOut(heap, k)
    BY <1>2, <1>3, MadeOutKeeps
  <2> QED BY <1>9, <2>1, <2>2, <2>3
<1>11. i \in DOMAIN heap' /\ IsOf(heap', i, RECORD, "part") /\ Len(heap) <= Len(heap')
  BY <1>4 DEF LoadedAs, IsOf
<1>12. PartsOut'[i] \in PieceLists /\ Bytes(PartsOut'[i]) = MadeLength(n, size)
  <2>1. PartsOut'[i] = MadeOut(Loaded(heap, n, size), i)
    BY <1>3, <1>9, <1>11
  <2> QED BY <1>2, <1>3, <2>1, MadeOutBytes
<1>13. \A k \in DOMAIN heap' :
         k # i => (IsOf(heap', k, RECORD, "part") <=> k \in DOMAIN heap /\ IsOf(heap, k, RECORD, "part"))
  <2> TAKE k \in DOMAIN heap'
  <2> SUFFICES ASSUME k # i
               PROVE  IsOf(heap', k, RECORD, "part") <=> k \in DOMAIN heap /\ IsOf(heap, k, RECORD, "part")
    OBVIOUS
  <2>1. CASE k \in 1 .. Len(heap)
    <3>1. heap'[k] = heap[k] /\ k \in DOMAIN heap
      BY <1>4, <2>1 DEF LoadedAs
    <3> QED BY <3>1 DEF IsOf
  <2>2. CASE k \notin 1 .. Len(heap)
    <3>1. heap'[k].kind # "part" /\ k \notin DOMAIN heap
      BY <1>4, <2>2 DEF LoadedAs
    <3> QED BY <3>1 DEF IsOf
  <2> QED BY <2>1, <2>2
<1>14. \A k \in DOMAIN heap :
         IsOf(heap, k, RECORD, "part") => k < i /\ PartsOut'[k] = PartsOut[k]
  BY <1>4, <1>10 DEF LoadedAs
<1>15. i <= Len(heap) + 1
  BY <1>2
<1> DEFINE old == Strung(heap, RECORD, "part", PartsOut)
           new == Strung(heap', RECORD, "part", PartsOut')
<1>16. new = Join(old, PartsOut'[i])
  <2> HIDE DEF i
  <2> QED BY ONLY <1>2, <1>6, <1>8, <1>11, <1>12, <1>13, <1>14, <1>15, StrungGrows
<1>17. old \in PieceLists
  BY <1>2, <1>8, StrungType
<1> HIDE DEF i, old, new
<1>18. new \in PieceLists /\ Bytes(new) = Bytes(old) + MadeLength(n, size)
  BY <1>12, <1>16, <1>17, Joined, BytesJoined
<1>19. /\ Bytes(Layout) = Bytes(HeaderOut) + Bytes(old)
       /\ Bytes(Layout') = Bytes(HeaderOut') + Bytes(new)
  BY <1>7, <1>8, <1>17, <1>18, BytesJoined DEF old, new
<1>20. /\ Bytes(HeaderOut') = Bytes(HeaderOut) /\ Bytes(HeaderOut) \in Nat
       /\ Bytes(old) \in Nat /\ MadeLength(n, size) \in Nat
  BY <1>1, <1>7, <1>8, <1>12, <1>17, BytesJoined
<1>21. Bytes(Layout') = record_length'
  BY <1>2, <1>3, <1>18, <1>19, <1>20
<1> QED BY <1>1, <1>2, <1>5, <1>21 DEF MadeInv, Owned

\* Every step keeps it.
LEMMA MadeStep == ASSUME OutInv, OutInv', MadeInv, [Next]_vars PROVE MadeInv'
<1>1. client' = client
  BY DEF Next, Read, WriteRecord, WriteClone, AddImage, WriteEdited, StartsWriting, Write,
         WritePiece, FollowNull, CannotWrite, Written, Copy, CopyOne, NextCopy, CopyEnds,
         Make, LoadHdr, BadText, LoadPart, WriteMade, MakeEnds, ClientFrame, vars, writer_vars
<1>2. CASE client # "maker"
  BY <1>1, <1>2 DEF MadeInv
<1>3. CASE client = "maker"
  <2>1. ~ Read /\ ~ WriteRecord /\ ~ WriteClone /\ ~ AddImage /\ ~ WriteEdited /\ ~ Copy
    BY <1>3 DEF Read, WriteRecord, WriteClone, AddImage, WriteEdited, Copy, CopyOne, NextCopy,
                CopyEnds, OutInv
  <2>2. CASE \/ Write \/ BadText \/ WriteMade \/ MakeEnds \/ UNCHANGED vars
    <3>1. UNCHANGED <<image_vars, images>>
      BY <2>2 DEF Write, WritePiece, FollowNull, CannotWrite, Written, BadText, WriteMade,
                  MakeEnds, ClientFrame, vars, writer_vars
    <3>2. /\ at' = "load_hdr" => at = "load_hdr"
          /\ at' \in {"load_hdr", "load"} => at \in {"load_hdr", "load"}
          /\ at' \in {"load", "write", "written"} => at \in {"load", "write", "written"}
      BY <2>2 DEF Write, WritePiece, FollowNull, CannotWrite, Written, Writing, BadText, WriteMade,
                  MakeEnds, Exit, ClientFrame, vars, writer_vars
    <3>3. Layout' = Layout /\ UNCHANGED <<heap, format, record_length>>
      BY <3>1, MemoryRests DEF image_vars
    <3> QED BY <1>1, <1>3, <3>1, <3>2, <3>3 DEF MadeInv, Owned
  <2> QED BY <2>1, <2>2, LoadHdrMade, LoadPartMade DEF Next, Make
<1> QED BY <1>2, <1>3

\* The length that a maker puts into its record is that of what it wrote,
\* whichever points and images its texts have.
THEOREM MadeLengthIsTrueHolds == Spec => []MadeLengthIsTrue
<1>1. OutInv /\ MadeInv => MadeLengthIsTrue
  BY DEF OutInv, MadeInv, MadeLengthIsTrue, WRITE_OK, WRITE_ERROR
<1> QED BY InitOut, InitMade, OutStep, MadeStep, <1>1, PTL DEF Spec

-----------------------------------------------------------------------------
(* The pointers that are NULL.                                             *)

WriterInv ==
  /\ client = "maker" => format # "IIR_2005"
  /\ client # "maker" => ReaderInv
  /\ client # "maker" /\ at \in {"write", "edited"} => pc = "done"
  /\ client # "maker" => at \notin {"load_hdr", "load"}
  /\ OnlyPartialCrashes

\* The invariant holds before anything is read or made.
LEMMA InitWriter == WInit => WriterInv
<1> SUFFICES ASSUME WInit PROVE WriterInv
  OBVIOUS
<1>1. format \in ImageFormats /\ end \in Ends[format] /\ Begin(0)
  BY DEF WInit, Init
<1>2. ReaderInv
  BY <1>1, Wire, BeginsWell
<1> QED
  BY <1>2 DEF WInit, WriterInv, OnlyPartialCrashes, FingerFormats

\* A step that leaves the record alone, and does not make the writer fall.
LEMMA RecordRests ==
  ASSUME WriterInv, UNCHANGED <<image_vars, client>>, at' # "crashed",
         at' \in {"load_hdr", "load"} => at \in {"load_hdr", "load"},
         at' \in {"write", "edited"} => at \in {"write", "edited"} \/ client = "maker" \/ pc = "done"
  PROVE  WriterInv'
<1>1. ReaderInv => ReaderInv'
  BY ReaderRests DEF image_vars
<1> QED
  BY <1>1 DEF WriterInv, OnlyPartialCrashes, image_vars

\* Reading, whole records or parts.
LEMMA ReadingKeeps == ASSUME WriterInv, Read PROVE WriterInv'
<1>1. client # "maker" => ReaderInv'
  BY ReaderKeeps DEF WriterInv, Read, ReaderStep
<1> QED
  BY <1>1 DEF WriterInv, Read, OnlyPartialCrashes, ReadNext, ReadHeader, StartPart, ReadPartHeader,
     ReadPoint, ReadTail, ReadData, ReadImage, ReadCode, ReadScleraLength, Frame

\* add_image_to_fdb changes a face, not the counts.
LEMMA AddImageKeeps == ASSUME WriterInv, AddImage PROVE WriterInv'
<1>1. /\ UNCHANGED <<format, end, start, current, pc, declared, record_length, parts, length, ret>>
      /\ UNCHANGED client /\ at' = "edited" /\ pc = "done"
  BY DEF AddImage, ReaderStays, ReadDone
<1>2. ReaderInv => ReaderInv'
  BY <1>1, ReaderRests
<1> QED
  BY <1>1, <1>2 DEF WriterInv, OnlyPartialCrashes

\* The writer meets a NULL pointer only where a count is not true.
LEMMA WriteKeeps == ASSUME WriterInv, Write PROVE WriterInv'
<1>1. CASE WritePiece \/ CannotWrite \/ Written
  BY <1>1, RecordRests DEF WritePiece, CannotWrite, Written, Writing, ClientFrame
<1>2. CASE FollowNull
  <2>1. UNCHANGED <<image_vars, client>> /\ at = "write" /\ at' = "crashed"
        /\ format = "IIR_2005" /\ parts < declared
    BY <1>2 DEF FollowNull, ClientFrame, ComesToNull
  <2>2. client # "maker" /\ CountInv /\ pc = "done"
    BY <2>1 DEF WriterInv, ReaderInv
  <2>3. parts \in Nat /\ declared \in Nat /\ (ret = READ_OK => parts = declared)
    BY <2>2 DEF CountInv
  <2>4. ret # READ_OK
    BY <2>1, <2>3
  <2>5. ReaderInv'
    BY <2>1, <2>2, ReaderRests DEF WriterInv, image_vars
  <2> QED
    BY <2>1, <2>2, <2>4, <2>5 DEF WriterInv, OnlyPartialCrashes, image_vars
<1> QED
  BY <1>1, <1>2 DEF Write

\* cpfrf begins each record where the one before it ends.
LEMMA CopyKeeps == ASSUME WriterInv, Copy PROVE WriterInv'
<1>1. CASE CopyOne \/ CopyEnds
  BY <1>1, RecordRests DEF CopyOne, CopyEnds, ReadDone, ClientFrame, Exit
<1>2. CASE NextCopy /\ UNCHANGED image_vars
  BY <1>2, RecordRests DEF NextCopy, Exit
<1>3. CASE NextCopy /\ pc' = "header"
  <2>1. client = "cpfrf" /\ UNCHANGED <<client, format, end>>
    BY <1>3 DEF NextCopy, image_vars
  <2>2. ReaderInv
    BY <2>1 DEF WriterInv
  <2>3. CASE UNCHANGED image_vars
    BY <1>2, <1>3, <2>3
  <2>4. CASE /\ at' = "read" /\ start' = current /\ UNCHANGED current
             /\ declared' = 0 /\ parts' = 0 /\ record_length' = 0 /\ length' = 0 /\ ret' = READ_OK
    <3>1. ReaderInv'
      BY <1>3, <2>1, <2>2, <2>4 DEF ReaderInv, CountInv, CursorInv, InPart, Pcs, READ_CODES
    <3> QED
      BY <2>1, <2>4, <3>1 DEF WriterInv, OnlyPartialCrashes
  <2> QED
    BY <1>3, <2>3, <2>4 DEF NextCopy
<1> QED
  BY <1>1, <1>2, <1>3 DEF Copy, NextCopy

\* The makers have their own way with the counts, and no eyes.
LEMMA MakeKeeps == ASSUME WriterInv, Make PROVE WriterInv'
<1>1. CASE LoadHdr \/ LoadPart
  BY <1>1 DEF WriterInv, OnlyPartialCrashes, LoadHdr, LoadPart, ReaderStays, ClientFrame
<1>2. CASE BadText \/ MakeEnds
  BY <1>2, RecordRests DEF BadText, MakeEnds, ClientFrame, Exit
<1>3. CASE WriteMade
  <2>1. client = "maker"
    BY <1>3 DEF WriterInv, WriteMade
  <2> QED
    BY <1>3, <2>1, RecordRests DEF WriteMade, ClientFrame
<1> QED
  BY <1>1, <1>2, <1>3 DEF Make

\* Every step keeps the invariant.
LEMMA WriterStep == WriterInv /\ [Next]_vars => WriterInv'
<1> SUFFICES ASSUME WriterInv, [Next]_vars PROVE WriterInv'
  OBVIOUS
<1>1. CASE WriteRecord \/ WriteClone \/ WriteEdited
  BY <1>1, RecordRests DEF WriteRecord, WriteClone, WriteEdited, StartsWriting, ReadDone
<1>2. CASE UNCHANGED vars
  <2>1. UNCHANGED <<image_vars, client, at>>
    BY <1>2 DEF vars, writer_vars
  <2>2. ReaderInv => ReaderInv'
    BY <2>1, ReaderRests DEF image_vars
  <2> QED
    BY <2>1, <2>2 DEF WriterInv, OnlyPartialCrashes, image_vars
<1> QED
  BY <1>1, <1>2, ReadingKeeps, AddImageKeeps, WriteKeeps, CopyKeeps, MakeKeeps DEF Next

-----------------------------------------------------------------------------

\* The writer only falls over a record of 2005 whose read had failed (iid.c:488).
THEOREM OnlyPartialCrashesHolds == Spec => []OnlyPartialCrashes
<1>1. WriterInv => OnlyPartialCrashes
  BY DEF WriterInv
<1> QED
  BY InitWriter, WriterStep, <1>1, PTL DEF Spec

=============================================================================
