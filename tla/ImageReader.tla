---------------------------- MODULE ImageReader -----------------------------
(***************************************************************************)
(* The readers of the image records: finger images (libfir: read_fir,      *)
(* read_fivr), faces (libfrf: internal_read_fb, internal_read_fdb,         *)
(* internal_read_fpb), and irises of 2005 and of 2011 (libiid:             *)
(* internal_read_iibdb and below, iid_ext.c).  They were written after one *)
(* pattern: a header with a count, that many parts, each allocated, read   *)
(* and put on the list of the record if it could be read.                  *)
(*                                                                         *)
(* Kept: every loop, allocation, list insertion and return code, and the   *)
(* bytes each read consumes.  Left out: the fields that are only stored.   *)
(***************************************************************************)
EXTENDS Bdb, Integers, SequencesExt

CONSTANTS
  ImageFormats,  \* the formats to read
  PartCounts,    \* values the count of the header may have
  SubCounts,     \* values a count in a part may have
  Lengths,       \* values a length field in a part may have
  CodeLengths,   \* values the length of a Freeman code may have
  RecordLengths, \* for each format, values the record length may have
  Ends,          \* for each format, where the source may end
  Failures,      \* may the disk fail, or an allocation?
  UintModulus    \* 2^32, what unsigned arithmetic is modulo of

FingerFormats == {"FIR_ANSI", "FIR_ISO"}
IrisFormats   == {"IIR_2005", "IIR_2011"}
AllImageFormats == FingerFormats \cup {"FRF"} \cup IrisFormats

ASSUME ImageFormatsAssumption == ImageFormats \subseteq AllImageFormats
ASSUME ModulusAssumption      == UintModulus \in Nat \ {0}
\* Counts on the wire have two bytes (SREAD) or one, lengths four (LREAD).
Halfwords == 0 .. 65535
Words     == 0 .. UintModulus - 1

ASSUME CountsAssumption ==
  PartCounts \subseteq Halfwords /\ SubCounts \subseteq Halfwords /\ CodeLengths \subseteq Halfwords
ASSUME LengthsAssumption == Lengths \subseteq Words
ASSUME WireAssumption ==
  \A f \in ImageFormats : RecordLengths[f] \subseteq Nat /\ Ends[f] \subseteq Nat
ASSUME FailuresAssumption == Failures \in BOOLEAN

VARIABLES
  format, source, end,
  start,         \* the cursor when the record was begun
  current,       \* the cursor
  pc,            \* the read that comes next
  heap,          \* every block of memory of this record, in order
  declared,      \* the count in the header
  record_length, \* the length in the header
  parts,         \* how many parts are on the list of the record
  part,          \* the part in hand, an index of heap
  image,         \* the iris image in hand (2005), an index of heap
  todo,          \* points or images of the part still to be read
  length,        \* the length field that tells how long the image data is
  ret            \* what the reader of the record returns

image_vars == <<format, source, end, start, current, pc, heap, declared,
                record_length, parts, part, image, todo, length, ret>>

(***************************************************************************)
(* Bytes of the fixed pieces.                                              *)
(***************************************************************************)
HeaderLength == [FIR_ANSI |-> 36, FIR_ISO |-> 32, FRF |-> 14,
                 IIR_2005 |-> 46, IIR_2011 |-> 16]

FIVR_HEADER_LENGTH == 14
FRF_FIB_LENGTH == 20
FRF_FPB_LENGTH == 8
FRF_IIB_LENGTH == 12
IID_IBSH_LENGTH == 3
IRH_LENGTH == 52                \* and 5 for each quality block
QUALITY_BLOCK_LENGTH == 5
IIH_LENGTH == 15 + 3 + 12 + 24  \* with mask, polar data and ellipses
FCCB_HEADER_LENGTH == 6

\* Of the array biometric_subtype_headers.
IID_MAX_EYES == 2

\* The counts a header may have; a third eye has no place in the 2005 record.
Countable(f) == IF f = "IIR_2005" THEN PartCounts \cap 0 .. IID_MAX_EYES
                                  ELSE PartCounts

\* The length of what a part begins with, up to the first allocation in it.
PartHeaderLength(n) ==
  CASE format \in FingerFormats -> FIVR_HEADER_LENGTH
    [] format = "FRF"           -> FRF_FIB_LENGTH
    [] format = "IIR_2005"      -> IID_IBSH_LENGTH
    [] format = "IIR_2011"      -> IRH_LENGTH + QUALITY_BLOCK_LENGTH * n

(***************************************************************************)
(* The bytes of image data in a part of length field l with n points.  The *)
(* check of fdb.c:158 for a length below 0 comes after unsigned arithmetic,*)
(* so that a block too short announces nearly 2^32 bytes.                  *)
(***************************************************************************)
DataLength(l, n) ==
  CASE format \in FingerFormats -> l - FIVR_HEADER_LENGTH
    [] format = "FRF" -> (l - FRF_FIB_LENGTH - n * FRF_FPB_LENGTH - FRF_IIB_LENGTH) % UintModulus
    [] OTHER -> l

\* Is there image data at all?
HasData(l) ==
  CASE format \in FingerFormats -> l > FIVR_HEADER_LENGTH
    [] format = "FRF" -> TRUE
    [] OTHER -> l # 0

(***************************************************************************)
(* Memory.  A block of the heap belongs to the blocks that point to it,    *)
(* holds `size' bytes of the wire, and has been freed so many times.       *)
(***************************************************************************)
CodeKinds == {"pupil", "sclera"}
Kinds == {"record", "part", "point", "image", "data"} \cup CodeKinds
Block(kind, owners, size) ==
  [kind |-> kind, owners |-> owners, size |-> size, freed |-> 0]
Blocks == [kind : Kinds, owners : SUBSET Nat, size : Nat, freed : Nat]

RECORD == 1  \* the block of the record itself
Begun  == <<Block("record", {}, 0)>>

Give(h, i, owner) == [h EXCEPT ![i].owners = @ \cup {owner}]
Filled(h, i, n)   == [h EXCEPT ![i].size = @ + n]

\* What is reached from block r; nothing is deeper than code in image in part.
Below(h, set)   == {i \in DOMAIN h : h[i].owners \cap set # {}}
Reached(h, r) ==
  LET parts_of == Below(h, {r})
      subs     == Below(h, parts_of)
  IN {r} \cup parts_of \cup subs \cup Below(h, subs)

Begin(at) ==
  /\ start = at /\ current = at
  /\ pc = "header"
  /\ heap = Begun
  /\ declared = 0 /\ record_length = 0 /\ parts = 0
  /\ part = 0 /\ image = 0 /\ todo = 0 /\ length = 0
  /\ ret = READ_OK

Init ==
  /\ format \in ImageFormats
  /\ source \in IF format \in FingerFormats THEN {"file"} ELSE Sources
  /\ end \in Ends[format]
  /\ Begin(0)

Frame == UNCHANGED <<format, source, end, start>>

Get(n) == Fits(current, n, end) /\ current' = current + n

\* As in the other readers, nobody reads on after a read that failed.
GetFails(n, code) ==
  /\ \/ ~ Fits(current, n, end) /\ code = READ_EOF
     \/ Failures /\ source = "file" /\ code = READ_ERROR
  /\ UNCHANGED current

RecordReturns(code) == pc' = "done" /\ ret' = code

\* Mutant: the last part is not read.
PartLoopShort(listed, n) ==
  IF listed + 1 < n THEN pc' = "new_part" /\ UNCHANGED ret
                    ELSE RecordReturns(READ_OK)

\* The loop over the parts, of which so many are on the list.
PartLoop(listed, n) ==
  IF listed < n THEN pc' = "new_part" /\ UNCHANGED ret
                ELSE RecordReturns(READ_OK)

\* The count may have been read although the header was cut behind it.
ReadHeader ==
  /\ pc = "header"
  /\ \E n \in Countable(format), l \in RecordLengths[format] :
       \/ /\ Get(HeaderLength[format])
          /\ declared' = n /\ record_length' = l
          /\ heap' = Filled(heap, RECORD, HeaderLength[format])
          /\ PartLoop(0, n)
       \/ \E code \in {READ_EOF, READ_ERROR} :
            /\ GetFails(HeaderLength[format], code)
            /\ declared' \in {0, n} /\ record_length' \in {0, l}
            /\ RecordReturns(code)
            /\ UNCHANGED heap
  /\ Frame /\ UNCHANGED <<parts, part, image, todo, length>>

StartPart ==
  /\ pc = "new_part"
  /\ \/ /\ heap' = Append(heap, Block("part", {}, 0))
        /\ part' = Len(heap')
        /\ pc' = "part"
        /\ UNCHANGED ret
     \/ Failures /\ RecordReturns(READ_ERROR) /\ UNCHANGED <<heap, part>>
  /\ Frame
  /\ UNCHANGED <<current, declared, record_length, parts, image, todo, length>>

\* Mutant: a part that could not be read is left out, and the next one read.
PartReturnsAnyhow(h, code) ==
  /\ heap' = IF code = READ_OK THEN Give(h, part, RECORD) ELSE h
  /\ parts' = IF code = READ_OK THEN parts + 1 ELSE parts
  /\ PartLoop(parts + 1, declared)

(***************************************************************************)
(* The reader of the part has returned `code', with memory `h'.  A part    *)
(* that could not be read is neither listed nor freed.                     *)
(***************************************************************************)
PartReturns(h, code) ==
  IF code = READ_OK
    THEN /\ heap' = Give(h, part, RECORD)
         /\ parts' = parts + 1
         /\ PartLoop(parts + 1, declared)
    ELSE /\ heap' = h
         /\ RecordReturns(code)
         /\ UNCHANGED parts

\* Mutant: the last image of an eye is not put on its list.
ImageReturnsLast(h, code) ==
  IF code = READ_OK
    THEN /\ todo' = todo - 1
         /\ IF todo > 1
              THEN heap' = Give(h, image, part) /\ pc' = "image" /\ UNCHANGED <<parts, ret>>
              ELSE PartReturns(h, READ_OK)
    ELSE PartReturns(h, READ_ERROR) /\ UNCHANGED todo

\* An iris image of 2005 that could not be read is a READ_ERROR of its eye.
ImageReturns(h, code) ==
  IF code = READ_OK
    THEN /\ todo' = todo - 1
         /\ IF todo > 1
              THEN heap' = Give(h, image, part) /\ pc' = "image" /\ UNCHANGED <<parts, ret>>
              ELSE PartReturns(Give(h, image, part), READ_OK)
    ELSE PartReturns(h, READ_ERROR) /\ UNCHANGED todo

ReadPartHeader ==
  /\ pc = "part"
  /\ \E n \in SubCounts, l \in Lengths :
       \/ /\ Get(PartHeaderLength(n))
          /\ todo' = n /\ length' = DataLength(l, n)
          /\ LET h == Filled(heap, part, PartHeaderLength(n))
                 goes_on == CASE format = "FRF"      -> TRUE
                              [] format = "IIR_2005" -> n > 0
                              [] OTHER               -> HasData(l)
             IN IF goes_on
                  THEN /\ pc' = CASE format = "FRF" /\ n > 0 -> "point"
                                  [] format = "FRF" /\ n = 0 -> "tail"
                                  [] format = "IIR_2005"     -> "image"
                                  [] OTHER                   -> "data"
                       /\ heap' = h /\ UNCHANGED <<parts, ret>>
                  ELSE PartReturns(h, READ_OK)
       \/ \E code \in {READ_EOF, READ_ERROR} :
            /\ GetFails(PartHeaderLength(n), code)
            /\ PartReturns(heap, code)
            /\ UNCHANGED <<todo, length>>
  /\ Frame /\ UNCHANGED <<declared, record_length, part, image>>

\* A feature point: allocated, read, listed; lost when it cannot be read.
ReadPoint ==
  /\ pc = "point"
  /\ \/ /\ Get(FRF_FPB_LENGTH)
        /\ heap' = Append(heap, Block("point", {part}, FRF_FPB_LENGTH))
        /\ todo' = todo - 1
        /\ pc' = IF todo > 1 THEN "point" ELSE "tail"
        /\ UNCHANGED <<parts, ret>>
     \/ \E code \in {READ_EOF, READ_ERROR} :
          /\ GetFails(FRF_FPB_LENGTH, code)
          /\ PartReturns(Append(heap, Block("point", {}, 0)), code)
          /\ UNCHANGED todo
     \/ /\ Failures /\ PartReturns(heap, READ_ERROR)
        /\ UNCHANGED <<current, todo>>
  /\ Frame /\ UNCHANGED <<declared, record_length, part, image, length>>

\* The Image Information Block.
ReadTail ==
  /\ pc = "tail"
  /\ \/ /\ Get(FRF_IIB_LENGTH)
        /\ heap' = Filled(heap, part, FRF_IIB_LENGTH)
        /\ pc' = "data"
        /\ UNCHANGED <<parts, ret>>
     \/ \E code \in {READ_EOF, READ_ERROR} :
          GetFails(FRF_IIB_LENGTH, code) /\ PartReturns(heap, code)
  /\ Frame /\ UNCHANGED <<declared, record_length, part, image, todo, length>>

-----------------------------------------------------------------------------
(* Data that is allocated, attached to the part or image in hand, and read. *)

Holder == IF format = "IIR_2005" THEN image ELSE part

HolderReturns(h, code) ==
  IF format = "IIR_2005" THEN ImageReturns(h, code)
                         ELSE PartReturns(h, code) /\ UNCHANGED todo

\* It stays attached when the source cannot fill it.
DataFails(kind, n) ==
  \/ \E code \in {READ_EOF, READ_ERROR} :
       /\ GetFails(n, code)
       /\ HolderReturns(Append(heap, Block(kind, {Holder}, 0)), code)
  \/ Failures /\ UNCHANGED current /\ HolderReturns(heap, READ_ERROR)

ReadData ==
  /\ pc = "data"
  /\ \/ /\ Get(length)
        /\ HolderReturns(Append(heap, Block("data", {Holder}, length)), READ_OK)
     \/ DataFails("data", length)
  /\ Frame /\ UNCHANGED <<declared, record_length, part, image, length>>

-----------------------------------------------------------------------------
(* Irises of 2005: an eye (IBSH) is a list of images (IIH), each with its   *)
(* boundaries as Freeman codes.                                             *)

\* Where an image goes on behind its codes.
AfterCodes(h, l) ==
  IF HasData(l) THEN pc' = "data" /\ heap' = h /\ UNCHANGED <<parts, todo, ret>>
                ELSE ImageReturns(h, READ_OK)

\* The fields before the first code, and the length of that code.
ReadImage ==
  /\ pc = "image"
  /\ \E l \in Lengths, code_length \in CodeLengths :
       \/ /\ Get(IIH_LENGTH + 2)
          /\ heap' = Append(heap, Block("image", {}, IIH_LENGTH + 2))
          /\ image' = Len(heap')
          /\ length' = l
          /\ pc' = IF code_length # 0 THEN "pupil" ELSE "sclera_length"
          /\ UNCHANGED <<parts, todo, ret>>
       \/ /\ \E code \in {READ_EOF, READ_ERROR} : GetFails(IIH_LENGTH + 2, code)
          /\ PartReturns(Append(heap, Block("image", {}, 0)), READ_ERROR)
          /\ UNCHANGED <<image, todo, length>>
       \/ /\ Failures /\ PartReturns(heap, READ_ERROR)
          /\ UNCHANGED <<current, image, todo, length>>
  /\ Frame /\ UNCHANGED <<declared, record_length, part>>

(***************************************************************************)
(* A Freeman code of the length announced: three fields, then the codes.   *)
(* A length below those fields asks malloc for a negative number of bytes. *)
(***************************************************************************)
ReadCode ==
  /\ pc \in {"pupil", "sclera"}
  /\ \E n \in CodeLengths \ {0} :
       \/ /\ n >= FCCB_HEADER_LENGTH
          /\ Get(n)
          /\ LET h == Append(Filled(heap, image, FCCB_HEADER_LENGTH),
                             Block(pc, {image}, n - FCCB_HEADER_LENGTH))
             IN IF pc = "pupil"
                  THEN /\ pc' = "sclera_length" /\ heap' = h
                       /\ UNCHANGED <<parts, todo, ret>>
                  ELSE AfterCodes(h, length)
       \/ /\ n >= FCCB_HEADER_LENGTH /\ Fits(current, FCCB_HEADER_LENGTH, end)
          /\ DataFails(pc, n)
       \/ /\ n < FCCB_HEADER_LENGTH \/ ~ Fits(current, FCCB_HEADER_LENGTH, end)
          /\ HolderReturns(heap, READ_ERROR)
          /\ UNCHANGED current
  /\ Frame /\ UNCHANGED <<declared, record_length, part, image, length>>

ReadScleraLength ==
  /\ pc = "sclera_length"
  /\ \/ /\ Get(2)
        /\ LET h == Filled(heap, image, 2)
           IN \/ /\ CodeLengths \ {0} # {}
                 /\ pc' = "sclera" /\ heap' = h /\ UNCHANGED <<parts, todo, ret>>
              \/ 0 \in CodeLengths /\ AfterCodes(h, length)
     \/ \E code \in {READ_EOF, READ_ERROR} :
          GetFails(2, code) /\ HolderReturns(heap, code)
  /\ Frame /\ UNCHANGED <<declared, record_length, part, image, length>>

ReadNext ==
  \/ ReadHeader \/ StartPart \/ ReadPartHeader
  \/ ReadPoint \/ ReadTail \/ ReadData
  \/ ReadImage \/ ReadCode \/ ReadScleraLength

-----------------------------------------------------------------------------
(* Properties of the reader.                                               *)

Pcs == {"header", "new_part", "part", "point", "tail", "data", "image",
        "pupil", "sclera_length", "sclera", "done"}

\* The types of the variables.
ReaderTypeOK ==
  /\ pc \in Pcs
  /\ heap \in Seq(Blocks) /\ heap # <<>>
  /\ declared \in Halfwords /\ record_length \in Nat
  /\ parts \in 0 .. declared
  /\ part \in Nat /\ image \in Nat /\ todo \in Nat /\ length \in Int
  /\ ret \in READ_CODES
  /\ start \in 0 .. end /\ current \in start .. end

Size == SumFunction([b \in DOMAIN heap |-> heap[b].size])

Orphans == {i \in DOMAIN heap \ {RECORD} : heap[i].owners = {}}

(***************************************************************************)
(* Whatever the result, all the parts listed stay with the record, and no  *)
(* more is lost than the part in hand and the point or image in it.  A     *)
(* record that was read has lost nothing: each part, image, code and data  *)
(* is reached from it, and their sizes are the bytes the cursor went over, *)
(* so that none of the bytes behind the record has been taken.             *)
(***************************************************************************)
OnlyPartInHandIsLost ==
  pc = "done" =>
    /\ Cardinality(Below(heap, {RECORD})) = parts
    /\ ret # READ_OK => Orphans \subseteq {part, image, Len(heap)}
    /\ ret = READ_OK => Reached(heap, RECORD) = DOMAIN heap /\ current - start = Size

\* The record as its caller sees it.
Abstract == INSTANCE RecordRead WITH
  declared <- declared,
  taken    <- [i \in 1 .. parts |-> "whole"],
  status   <- IF pc # "done" THEN "reading"
              ELSE CASE ret = READ_OK    -> "ok"
                     [] ret = READ_EOF   -> "eof"
                     [] ret = READ_ERROR -> "error"

(***************************************************************************)
(* READ_OK means that every part the header declares is on the list of the *)
(* record; no part of it is ever listed half read.                         *)
(***************************************************************************)
ReadPromise == Abstract!Promise

=============================================================================
