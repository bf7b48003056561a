----------------------------- MODULE ImageFile ------------------------------
(***************************************************************************)
(* What is done with image records: the programs that validate a file of   *)
(* them (firv, frfv, and the two iibdbv), record after record, and callers *)
(* of the libraries that read one record, may clone it (libiid), and free  *)
(* what they got.  The records are read by ImageReader.                    *)
(*                                                                         *)
(* Of the validation only those checks are followed that look at lengths   *)
(* and counts; the others may reject any record.                           *)
(***************************************************************************)
EXTENDS ImageReader, ImageClient

VARIABLES
  total_length, \* the lengths that the records so far announced
  clone,        \* the blocks of the clone, as copies of those of heap
  honest,       \* were all records as long as they announced?
  conforming,   \* did all records pass the validation?
  cloned        \* was a clone attempted?

client_vars == <<client, at, total_length, status, clone, honest, conforming, cloned>>
file_vars == <<image_vars, client_vars>>

FInit ==
  /\ Init
  /\ \/ client = "program" /\ source = "file" /\ at = "loop"
     \/ client = "caller" /\ at = "read"
  /\ total_length = 0
  /\ status = EXIT_SUCCESS
  /\ clone = <<>>
  /\ honest = TRUE /\ conforming = TRUE /\ cloned = FALSE

(***************************************************************************)
(* while (total_length < sb.st_size).  Behind the loop firv and frfv look  *)
(* at the result of the last read, which there was none of in an empty     *)
(* file; the iris programs have kept a status.                             *)
(***************************************************************************)
Loop ==
  /\ at = "loop"
  /\ IF total_length < end
       THEN at' = "read" /\ UNCHANGED status
       ELSE Exit(IF end = 0 /\ format \notin IrisFormats THEN EXIT_FAILURE ELSE status)
  /\ UNCHANGED <<image_vars, client, total_length, clone, honest, conforming, cloned>>

ReadStep ==
  /\ at = "read"
  /\ ReadNext
  /\ UNCHANGED client_vars

\* Mutant: the loop goes on with the next record.
ReadFailedGoesOn ==
  /\ client = "program" /\ at = "read" /\ pc = "done" /\ ret # READ_OK
  /\ at' = "new" /\ status' = EXIT_FAILURE
  /\ UNCHANGED <<image_vars, client, total_length, clone, honest, conforming, cloned>>

ReadFailed ==
  /\ client = "program" /\ at = "read" /\ pc = "done" /\ ret # READ_OK
  /\ Exit(EXIT_FAILURE)
  /\ UNCHANGED <<image_vars, client, total_length, clone, honest, conforming, cloned>>

FRF_MIN_RECORD_LENGTH == HeaderLength["FRF"] + FRF_FIB_LENGTH + FRF_IIB_LENGTH

\* The checks of lengths and counts in validate_fir, _fb and _iibdb.
MayConform ==
  CASE format \in FingerFormats ->
         declared > 0 /\ record_length >= HeaderLength[format] + declared * FIVR_HEADER_LENGTH
    [] format = "FRF"      -> declared > 0 /\ record_length >= FRF_MIN_RECORD_LENGTH
    [] format = "IIR_2005" -> \A eye \in Below(heap, {RECORD}) : Below(heap, {eye}) # {}
    [] format = "IIR_2011" -> declared > 0

\* Mutant: the header is counted once more.
SumWithHeader(total, n) == total + n + HeaderLength[format]

\* total_length is an unsigned int in the iris programs, and has 64 bits elsewhere.
Sum(total, n) ==
  IF format \in IrisFormats THEN (total + n) % UintModulus ELSE total + n

\* The record is counted, then validated; the verdict ends firv and frfv.
Validate ==
  /\ client = "program" /\ at = "read" /\ pc = "done" /\ ret = READ_OK
  /\ total_length' = Sum(total_length, record_length)
  /\ honest' = (honest /\ record_length = current - start)
  /\ \E valid \in BOOLEAN :
       /\ valid => MayConform
       /\ conforming' = (conforming /\ valid)
       /\ IF format \in IrisFormats
            THEN /\ status' = IF valid /\ record_length # 0 THEN status ELSE EXIT_FAILURE
                 /\ at' = "free"
            ELSE IF valid THEN at' = "free" /\ UNCHANGED status
                          ELSE Exit(EXIT_FAILURE)
  /\ UNCHANGED <<image_vars, client, clone, cloned>>

(***************************************************************************)
(* free_fir, free_fb, free_iibdb: the record and all that hangs on it, but *)
(* free_fdb leaves the image of a face.                                    *)
(***************************************************************************)
FreedBlocks ==
  {i \in Reached(heap, RECORD) : ~ (format = "FRF" /\ heap[i].kind = "data")}

FreedAll(set) ==
  [i \in DOMAIN heap |-> IF i \in set THEN [heap[i] EXCEPT !.freed = @ + 1] ELSE heap[i]]

Freed == FreedAll(FreedBlocks)

ReaderFrame == UNCHANGED <<format, source, end, start, current, pc, declared,
                           record_length, parts, part, image, todo, length, ret>>

Free ==
  /\ client = "program" /\ at = "free"
  /\ heap' = Freed
  /\ at' = "new"
  /\ ReaderFrame
  /\ UNCHANGED <<client, total_length, status, clone, honest, conforming, cloned>>

New ==
  /\ at = "new"
  /\ \/ /\ start' = current /\ pc' = "header" /\ heap' = Begun
        /\ declared' = 0 /\ record_length' = 0 /\ parts' = 0
        /\ part' = 0 /\ image' = 0 /\ todo' = 0 /\ length' = 0
        /\ ret' = READ_OK
        /\ at' = "loop"
        /\ UNCHANGED <<format, source, end, current, status>>
     \/ Failures /\ Exit(EXIT_FAILURE) /\ UNCHANGED image_vars
  /\ UNCHANGED <<client, total_length, clone, honest, conforming, cloned>>

-----------------------------------------------------------------------------
(* Callers.  Memory that was freed is marked in the block of the record.    *)

RecordHeld == heap[RECORD].freed = 0
CloneHeld  == clone # <<>> /\ clone[RECORD].freed = 0

CallerGot == client = "caller" /\ at = "read" /\ pc = "done"

\* Mutant: the image of the original is used.
CopyImageToo(i, cloneimg) ==
  [kind |-> IF heap[i].kind \in CodeKinds \cup {"data"} THEN "shared" ELSE heap[i].kind,
   freed |-> 0]

(***************************************************************************)
(* clone_iibdb copies the structures, and the images if asked to; the      *)
(* copy of an image of 2005 points to the Freeman codes of the original.   *)
(***************************************************************************)
CopyBlock(i, cloneimg) ==
  [kind |-> CASE heap[i].kind \in CodeKinds -> "shared"
              [] heap[i].kind = "data" /\ ~ cloneimg -> "null"
              [] OTHER -> heap[i].kind,
   freed |-> 0]

\* An allocation fails behind the first n blocks: what was copied is freed.
CloneRecord ==
  /\ CallerGot /\ format \in IrisFormats /\ ret = READ_OK
  /\ RecordHeld /\ ~ cloned
  /\ cloned' = TRUE
  /\ \/ \E cloneimg \in BOOLEAN :
          /\ clone' = [i \in DOMAIN heap |-> CopyBlock(i, cloneimg)]
          /\ UNCHANGED heap
     \/ \E n \in DOMAIN heap :
          /\ Failures
          /\ heap' = FreedAll({i \in DOMAIN heap : heap[i].kind \in CodeKinds /\ \A j \in heap[i].owners : j <= n})
          /\ UNCHANGED clone
  /\ ReaderFrame
  /\ UNCHANGED <<client, at, total_length, status, honest, conforming>>

FreeClone ==
  /\ CallerGot /\ CloneHeld
  /\ clone' = [i \in DOMAIN clone |->
                 IF clone[i].kind \in Kinds THEN [clone[i] EXCEPT !.freed = @ + 1] ELSE clone[i]]
  /\ heap' = FreedAll({i \in DOMAIN clone : clone[i].kind = "shared"})
  /\ ReaderFrame
  /\ UNCHANGED <<client, at, total_length, status, honest, conforming, cloned>>

FreeRecord ==
  /\ CallerGot /\ RecordHeld
  /\ heap' = Freed
  /\ ReaderFrame
  /\ UNCHANGED client_vars

FNext ==
  \/ Loop \/ ReadStep \/ ReadFailed \/ Validate \/ Free \/ New
  \/ CloneRecord \/ FreeClone \/ FreeRecord

FSpec     == FInit /\ [][FNext]_file_vars
FairSpec == FSpec /\ WF_file_vars(FNext)

-----------------------------------------------------------------------------
(* Properties.                                                             *)

ClientTypeOK ==
  /\ at \in {"loop", "read", "free", "new", "exit"}
  /\ total_length \in Nat
  /\ status \in {EXIT_SUCCESS, EXIT_FAILURE}
  /\ \A i \in DOMAIN clone : clone[i].kind \in Kinds \cup {"shared", "null"}

\* The types of the reader's variables and of the client's.
TypeOK == ReaderTypeOK /\ ClientTypeOK

SharesCodes == cloned /\ \E i \in DOMAIN heap : heap[i].kind \in CodeKinds

(***************************************************************************)
(* Freeing a record frees each of its blocks once, and nothing of a clone; *)
(* what is still held has not been freed; and nothing of what was held is  *)
(* left over, except the images of faces (fdb.c:48-58).  A clone that has  *)
(* Freeman codes is left out: it shares them (iid.h:329, iid.c:735).       *)
(***************************************************************************)
MemoryIsFreedOnce ==
  /\ TypeOK
  /\ ~ SharesCodes =>
       /\ \A i \in Reached(heap, RECORD) :
            heap[i].freed = IF RecordHeld \/ (format = "FRF" /\ heap[i].kind = "data") THEN 0 ELSE 1
       /\ \A i \in DOMAIN clone :
            clone[i].freed = IF CloneHeld \/ clone[i].kind = "null" THEN 0 ELSE 1

(***************************************************************************)
(* Between the start of one record and the next, every step is one that    *)
(* RecordRead allows: the count in the header is set once, parts are taken *)
(* whole and in order, and nothing is taken after a part that failed.      *)
(***************************************************************************)
ReadsRecords == [][Abstract!RNext \/ New]_(Abstract!rvars)

(***************************************************************************)
(* A program that exits with success has validated all of the file, as     *)
(* long as every record has the length it announces, and found that every  *)
(* record conforms.                                                        *)
(***************************************************************************)
SuccessIsComplete ==
  client = "program" /\ at = "exit" /\ status = EXIT_SUCCESS =>
    /\ conforming
    /\ honest => current = end

\* A file is always done with, also when its records announce no length.
Terminates == <>(at = "exit" \/ (CallerGot /\ ~ RecordHeld /\ ~ CloneHeld))

=============================================================================
