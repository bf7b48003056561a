---------------------------- MODULE ImageWriter -----------------------------
(***************************************************************************)
(* The writers of the image records (write_fir, internal_write_fb and      *)
(* _fdb, both internal_write_iibdb, and what they call), with those who    *)
(* have a record to write:                                                 *)
(*                                                                         *)
(*   caller     has read a record, all or a part of it, may then change    *)
(*              the image of a face or clone the irises, and writes it     *)
(*   cpfrf      copies a file of faces record by record                    *)
(*   maker      mkfir and mkfrf, which load the record from texts          *)
(*                                                                         *)
(* The record is the memory that ImageReader has left.  The wire is a      *)
(* sequence of pieces, each of which belongs to a block of that memory; of *)
(* a piece that comes out in part nothing is kept.                         *)
(***************************************************************************)
EXTENDS ImageReader, ImageClient

CONSTANTS
  Spaces,      \* sizes a buffer may have, besides the record length
  ImageSizes,  \* sizes of image files
  MaxMade      \* how many parts a text has at most

ASSUME WriterAssumption ==
  Spaces \subseteq Nat /\ ImageSizes \subseteq Nat \ {0} /\ MaxMade \in Nat

VARIABLES
  taken,    \* the pieces that were read into the record
  images,   \* are the images in what is written? not in some clones
  surplus,  \* the bytes of image that a face announces and does not have
  sink,     \* "file" or "buffer"
  space,    \* the size of the buffer
  out,      \* the pieces of this record that came out
  copied,   \* the bytes of the records before this one
  wret      \* what the writer returns

writer_vars == <<client, at, taken, images, surplus, sink, space, out, copied, wret, status>>
vars == <<image_vars, writer_vars>>

-----------------------------------------------------------------------------
(* The pieces of a record.                                                 *)

Piece(block, piece, size) == [block |-> block, piece |-> piece, size |-> size]
Bytes(pieces) == SumFunction([k \in DOMAIN pieces |-> pieces[k].size])

\* The fields of a representation of 2011 behind its bits, and its image length.
PROPERTIES_LENGTH   == 23
IMAGE_LENGTH_LENGTH == 4

\* What was read into block k of heap h: internal_read_irh reads the image length last.
ReadPieces(h, k, size) ==
  IF format = "IIR_2011" /\ h[k].kind = "part"
    THEN <<Piece(k, "fields", size - PROPERTIES_LENGTH - IMAGE_LENGTH_LENGTH),
           Piece(k, "properties", PROPERTIES_LENGTH),
           Piece(k, "image_length", IMAGE_LENGTH_LENGTH)>>
    ELSE <<Piece(k, "all", size)>>

\* What a step has read that makes heap h of heap g.
Gained(g, h) ==
  FlattenSeq([k \in DOMAIN h |->
    LET size == h[k].size - (IF k \in DOMAIN g THEN g[k].size ELSE 0)
    IN IF size > 0 THEN ReadPieces(h, k, size) ELSE <<>>])

\* The pieces of each block of a kind that belongs to block i, in the order of the list.
Each(i, kind, PiecesOf(_)) ==
  FlattenSeq([k \in DOMAIN heap |->
    IF heap[k].kind = kind /\ i \in heap[k].owners THEN PiecesOf(k) ELSE <<>>])

Filling(k) == IF heap[k].size > 0 THEN <<Piece(k, "all", heap[k].size)>> ELSE <<>>

\* image_data, of image_length bytes, unless it is NULL.
ImageData(i) == IF images THEN Each(i, "data", Filling) ELSE <<>>

write_fivr(i) == <<Piece(i, "all", FIVR_HEADER_LENGTH)>> \o ImageData(i)

\* Mutant: the feature points come behind the image information.
WriteFdbPointsLast(i) ==
  <<Piece(i, "all", FRF_FIB_LENGTH), Piece(i, "all", FRF_IIB_LENGTH)>> \o
  Each(i, "point", Filling) \o ImageData(i)

internal_write_fdb(i) ==
  <<Piece(i, "all", FRF_FIB_LENGTH)>> \o Each(i, "point", Filling) \o
  <<Piece(i, "all", FRF_IIB_LENGTH)>> \o ImageData(i)

\* A Freeman code, if its length is not 0.
Code(i, kind) ==
  Each(i, kind, LAMBDA k : <<Piece(i, "all", FCCB_HEADER_LENGTH)>> \o Filling(k))

internal_write_iih(i) ==
  <<Piece(i, "all", IIH_LENGTH + 2)>> \o Code(i, "pupil") \o
  <<Piece(i, "all", 2)>> \o Code(i, "sclera") \o ImageData(i)

internal_write_ibsh(i) ==
  <<Piece(i, "all", IID_IBSH_LENGTH)>> \o Each(i, "image", internal_write_iih)

\* The image length comes before the width.
internal_write_irh(i) ==
  <<Piece(i, "fields", heap[i].size - PROPERTIES_LENGTH - IMAGE_LENGTH_LENGTH),
    Piece(i, "image_length", IMAGE_LENGTH_LENGTH),
    Piece(i, "properties", PROPERTIES_LENGTH)>> \o ImageData(i)

\* What write_fir, write_fb or write_iibdb has to write.  A NULL eye is not of it.
Layout ==
  <<Piece(RECORD, "all", HeaderLength[format])>> \o
  CASE format \in FingerFormats -> Each(RECORD, "part", write_fivr)
    [] format = "FRF"           -> Each(RECORD, "part", internal_write_fdb)
    [] format = "IIR_2005"      -> Each(RECORD, "part", internal_write_ibsh)
    [] format = "IIR_2011"      -> Each(RECORD, "part", internal_write_irh)

-----------------------------------------------------------------------------

WInit ==
  /\ Init
  /\ \/ client = "caller" /\ at = "read"
     \/ client = "cpfrf" /\ at = "read" /\ format = "FRF" /\ source = "file"
     \/ /\ client = "maker" /\ at = "load_hdr"
        /\ format \in FingerFormats \cup {"FRF"} /\ source = "file" /\ end = 0
  /\ taken = <<>> /\ images = TRUE /\ surplus = 0
  /\ sink = "file" /\ space = 0 /\ out = <<>> /\ copied = 0
  /\ wret = WRITE_OK /\ status = EXIT_SUCCESS

ClientFrame == UNCHANGED <<client, taken, images, surplus, sink, space, copied, wret>>
ReaderStays == UNCHANGED <<format, source, end, start, current, pc, image, todo, length, ret>>

Read ==
  /\ at = "read" /\ ReadNext
  /\ taken' = taken \o Gained(heap, heap')
  /\ UNCHANGED <<client, at, images, surplus, sink, space, out, copied, wret, status>>

ReadDone == at = "read" /\ pc = "done"

\* push_fb and push_iibdb write into a buffer, for testiid one of the record length.
StartsWriting(with) ==
  /\ at' = "write" /\ out' = <<>> /\ images' = with
  /\ \/ sink' = "file" /\ space' = 0
     \/ format \notin FingerFormats /\ sink' = "buffer" /\ space' \in Spaces \cup {record_length}
  /\ UNCHANGED <<client, taken, surplus, copied, wret, status>>

WriteRecord ==
  /\ client = "caller" /\ ReadDone
  /\ StartsWriting(TRUE)
  /\ UNCHANGED image_vars

\* clone_iibdb without the images, and then the clone is written.
WriteClone ==
  /\ client = "caller" /\ ReadDone /\ ret = READ_OK /\ format \in IrisFormats
  /\ StartsWriting(FALSE)
  /\ UNCHANGED image_vars

Removed(h, i) ==
  [k \in DOMAIN h |-> IF h[k].kind = "data" THEN [h[k] EXCEPT !.owners = @ \ {i}] ELSE h[k]]

(***************************************************************************)
(* add_image_to_fdb, for a face that was read: its image is replaced, and  *)
(* the size of the file is added to block_length.  Without memory there is *)
(* no image any more; when the file cannot be read, image_len is still     *)
(* that of the old image.                                                  *)
(***************************************************************************)
AddImage ==
  /\ client = "caller" /\ ReadDone /\ ret = READ_OK /\ format = "FRF" /\ surplus = 0
  /\ \E i \in Below(heap, {RECORD}) :
       LET old == Bytes(Each(i, "data", Filling))
       IN \/ /\ \E size \in ImageSizes :
                  heap' = Append(Removed(heap, i), Block("data", {i}, size))
             /\ surplus' = old
          \/ Failures /\ heap' = Removed(heap, i) /\ surplus' = old
          \/ /\ Failures /\ heap' = Append(Removed(heap, i), Block("data", {i}, old))
             /\ UNCHANGED surplus
  /\ at' = "edited"
  /\ ReaderStays
  /\ UNCHANGED <<declared, record_length, parts, part>>
  /\ UNCHANGED <<client, taken, images, sink, space, out, copied, wret, status>>

WriteEdited ==
  /\ at = "edited"
  /\ StartsWriting(TRUE)
  /\ UNCHANGED image_vars

-----------------------------------------------------------------------------
(* The writer.                                                             *)

\* Mutant: a piece of one byte more fits.
RoomOneMore(n) == sink = "buffer" => Bytes(out) + n <= space + 1

Room(n) == sink = "buffer" => Bytes(out) + n <= space

Writing == at = "write" /\ Len(out) < Len(Layout)
Following   == Layout[Len(out) + 1]

WritePiece ==
  /\ Writing /\ Room(Following.size)
  /\ out' = Append(out, Following)
  /\ UNCHANGED <<image_vars, at, status>> /\ ClientFrame

\* As many eyes are written as the header counts; those that were not read are NULL.
ComesToNull == format = "IIR_2005" /\ parts < declared

\* A pointer that is NULL is followed.
FollowNull ==
  /\ at = "write" /\ Len(out) = Len(Layout) /\ ComesToNull
  /\ at' = "crashed"
  /\ UNCHANGED <<image_vars, out, status>> /\ ClientFrame

\* The buffer is full, or the disk.
CannotWrite ==
  /\ Writing
  /\ ~ Room(Following.size) \/ (Failures /\ sink = "file")
  /\ at' = "written" /\ wret' = WRITE_ERROR
  /\ UNCHANGED <<image_vars, client, taken, images, surplus, sink, space, out, copied, status>>

Written ==
  /\ at = "write" /\ Len(out) = Len(Layout) /\ ~ ComesToNull
  /\ at' = "written"
  /\ UNCHANGED <<image_vars, out, status>> /\ ClientFrame

Write == WritePiece \/ FollowNull \/ CannotWrite \/ Written

-----------------------------------------------------------------------------
(* cpfrf.  Whether a record is valid is only printed; how the last read     *)
(* failed is not asked.                                                     *)

CopyOne ==
  /\ client = "cpfrf" /\ ReadDone /\ ret = READ_OK
  /\ at' = "write" /\ out' = <<>>
  /\ UNCHANGED <<image_vars, status>> /\ ClientFrame

NextCopy ==
  /\ client = "cpfrf" /\ at = "written"
  /\ \/ /\ wret = WRITE_OK
        /\ copied' = copied + Bytes(out) /\ out' = <<>> /\ taken' = <<>>
        /\ start' = current /\ pc' = "header" /\ heap' = Begun
        /\ declared' = 0 /\ record_length' = 0 /\ parts' = 0
        /\ part' = 0 /\ image' = 0 /\ todo' = 0 /\ length' = 0 /\ ret' = READ_OK
        /\ at' = "read"
        /\ UNCHANGED <<format, source, end, current, status>>
     \/ /\ wret = WRITE_ERROR \/ Failures
        /\ Exit(EXIT_FAILURE) /\ UNCHANGED <<image_vars, out, copied, taken>>
  /\ UNCHANGED <<client, images, surplus, sink, space, wret>>

CopyEnds ==
  /\ client = "cpfrf" /\ ReadDone /\ ret # READ_OK
  /\ Exit(EXIT_SUCCESS)
  /\ UNCHANGED <<image_vars, out>> /\ ClientFrame

Copy == CopyOne \/ NextCopy \/ CopyEnds

-----------------------------------------------------------------------------
(* mkfir and mkfrf.  record_length is their total_length.                   *)

LoadHdr ==
  /\ at = "load_hdr"
  /\ \E n \in PartCounts :
       /\ declared' = n
       /\ heap' = Filled(heap, RECORD, HeaderLength[format])
       /\ record_length' = HeaderLength[format]
  /\ at' = "load"
  /\ ReaderStays
  /\ UNCHANGED <<parts, part, out, status>> /\ ClientFrame

\* A text that is not what it should be ends a maker, and its file is empty.
BadText ==
  /\ at \in {"load_hdr", "load"}
  /\ Exit(EXIT_FAILURE)
  /\ UNCHANGED <<image_vars, out>> /\ ClientFrame

\* Mutant: the length that the part is given does not have the points in it.
LengthWithoutPoints(n, size) ==
  CASE format \in FingerFormats -> FIVR_HEADER_LENGTH + size
    [] format = "FRF" -> FRF_FIB_LENGTH + FRF_IIB_LENGTH + size

\* The length that the part is given.
MadeLength(n, size) ==
  CASE format \in FingerFormats -> FIVR_HEADER_LENGTH + size
    [] format = "FRF" -> FRF_FIB_LENGTH + FRF_IIB_LENGTH + n * FRF_FPB_LENGTH + size

(***************************************************************************)
(* load_fivr, load_fdb: a part, with its points, and with an image if the  *)
(* file of it can be found, held and read.                                 *)
(***************************************************************************)
LoadPart ==
  /\ at = "load" /\ parts < MaxMade
  /\ \E n \in IF format = "FRF" THEN SubCounts ELSE {0}, size \in ImageSizes \cup {0} :
       LET i == Len(heap) + 1
       IN /\ heap' = heap
               \o <<Block("part", {RECORD}, IF format = "FRF" THEN FRF_FIB_LENGTH + FRF_IIB_LENGTH
                                                              ELSE FIVR_HEADER_LENGTH)>>
               \o [k \in 1 .. n |-> Block("point", {i}, FRF_FPB_LENGTH)]
               \o IF size > 0 THEN <<Block("data", {i}, size)>> ELSE <<>>
          /\ part' = i
          /\ record_length' = record_length + MadeLength(n, size)
  /\ parts' = parts + 1
  /\ ReaderStays
  /\ UNCHANGED <<declared, at, out, status>> /\ ClientFrame

\* The text has ended, or there is no memory for one part more.
WriteMade ==
  /\ at = "load"
  /\ at' = "write"
  /\ UNCHANGED <<image_vars, out, status>> /\ ClientFrame

MakeEnds ==
  /\ client = "maker" /\ at = "written"
  /\ Exit(EXIT_SUCCESS)
  /\ UNCHANGED <<image_vars, out>> /\ ClientFrame

Make == LoadHdr \/ BadText \/ LoadPart \/ WriteMade \/ MakeEnds

Next ==
  \/ Read \/ WriteRecord \/ WriteClone \/ AddImage \/ WriteEdited
  \/ Write \/ Copy \/ Make

Spec == WInit /\ [][Next]_vars

-----------------------------------------------------------------------------
(* Properties.                                                             *)

WriterTypeOK ==
  /\ at \in {"load_hdr", "load", "read", "edited", "write", "written", "crashed", "exit"}
  /\ \A k \in DOMAIN out : out[k].block \in DOMAIN heap /\ out[k].size \in Nat
  /\ images \in BOOLEAN /\ surplus \in Nat /\ space \in Nat /\ copied \in 0 .. end
  /\ wret \in WRITE_CODES /\ status \in {EXIT_SUCCESS, EXIT_FAILURE}

\* Those of the pieces that belong to these blocks.
Of(pieces, blocks) ==
  FlattenSeq([k \in DOMAIN pieces |->
    IF pieces[k].block \in blocks THEN <<pieces[k]>> ELSE <<>>])

\* What the record has of what was read, behind its header.
Kept ==
  Of(taken, {k \in Reached(heap, RECORD) \ {RECORD} : images \/ heap[k].kind # "data"})

\* What came out, behind the header, of what was read.
KeptOut == Of(Tail(out), {taken[k].block : k \in DOMAIN taken})

\* The image length of 2011 comes out in front of the properties.
Transposed(pieces) ==
  [k \in DOMAIN pieces |->
     CASE pieces[k].piece = "properties"   -> pieces[k + 1]
       [] pieces[k].piece = "image_length" -> pieces[k - 1]
       [] OTHER                            -> pieces[k]]

(***************************************************************************)
(* A record that was written after it was read is what was read of it,     *)
(* piece for piece and in that order: all of it, or after a read that      *)
(* failed the parts it had listed, whole; the same of a face whose image   *)
(* was replaced, but for its block length (surplus); all but the images of *)
(* a clone without.  The exception is the record of 2011.  And what cpfrf  *)
(* has copied, also when it says that all was written, is byte for byte as *)
(* much as it has read (fdb.c:188, fb.c:119, fir.c:168, both iid.c).       *)
(***************************************************************************)
CopyIsTrue ==
  /\ WriterTypeOK
  /\ at = "written" /\ wret = WRITE_OK /\ client # "maker" => KeptOut = Transposed(Kept)
  /\ client = "cpfrf" /\ (at # "exit" \/ status = EXIT_SUCCESS) => copied = start

(***************************************************************************)
(* testiid.c:82 pushes a record and reads what it pushed, which must be    *)
(* READ_OK and the same record: the pieces come out in the order in which  *)
(* the reader took them.  Of 2011 they do not.                             *)
(***************************************************************************)
PushedReadsBack ==
  at = "written" /\ wret = WRITE_OK /\ ret = READ_OK /\ client = "caller" /\ images
    => out = taken

(***************************************************************************)
(* The writer follows a pointer that is NULL only for a record of 2005     *)
(* whose read had failed after its header (iid.c:488): no record that is   *)
(* said to be read, and no record of another format, brings it down.       *)
(***************************************************************************)
OnlyPartialCrashes ==
  at = "crashed" => format = "IIR_2005" /\ ret # READ_OK /\ parts < declared

(***************************************************************************)
(* A record is pushed into a buffer exactly if all of it has room there;   *)
(* what is not WRITE_OK has left the buffer with whole pieces and no byte  *)
(* behind it (the OPUT of biomdimacro.h for every piece of every format).  *)
(***************************************************************************)
BufferIsEnough ==
  sink = "buffer" =>
    /\ Bytes(out) <= space
    /\ at = "written" => (wret = WRITE_OK <=> out = Layout)
    /\ at = "written" => (wret = WRITE_OK <=> Bytes(Layout) <= space)

(***************************************************************************)
(* The lengths that mkfir and mkfrf add up while they load the texts, with *)
(* points and images that may be missing, are those of the record they     *)
(* write (mkfir.c, mkfrf.c: total_length).                                 *)
(***************************************************************************)
MadeLengthIsTrue ==
  client = "maker" /\ at = "written" /\ wret = WRITE_OK => record_length = Bytes(out)
=============================================================================
