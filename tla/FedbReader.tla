----------------------------- MODULE FedbReader -----------------------------
(***************************************************************************)
(* The reader of one Finger Extended Data Block, libfmr/fedb.c:            *)
(* internal_read_fedb and what it calls (new_fed, internal_read_fed,       *)
(* internal_read_rcdb, internal_read_cddb, internal_read_cd,               *)
(* internal_read_dd).                                                      *)
(*                                                                         *)
(* A FEDB on the wire is a block length and a run of extended data records *)
(* (FED), each with a type, a length and a body.  The wire is read field   *)
(* by field from a file or a BDB that ends after `end' bytes; the values   *)
(* of the fields are whatever the wire holds, so each read takes any value *)
(* from the sets of the CONSTANTS.                                         *)
(*                                                                         *)
(* The heap is explicit: a FED is an entry of `heap', allocated by new_fed *)
(* in wire order; `fed' is the C local of that name (0 for NULL) and       *)
(* keeps its value from one turn of the loop to the next.                  *)
(***************************************************************************)
EXTENDS FmrDefs, Integers, SequencesExt

CONSTANTS
  Formats,       \* the formats to read
  BlockLengths,  \* the FEDB length fields a wire may carry (16 bits)
  FedLengths,    \* the FED length fields a wire may carry (16 bits)
  Counts,        \* the numbers of cores, and of deltas, a wire may carry
  Ends,          \* where the file or buffer may end, in bytes
  Failures       \* TRUE when malloc and the disk may fail

ASSUME FormatAssumption  == Formats \subseteq AllFormats
ASSUME LengthAssumption  == BlockLengths \subseteq USHORT /\ FedLengths \subseteq USHORT
ASSUME CountAssumption   == Counts \subseteq 0 .. 63
ASSUME EndAssumption     == Ends \subseteq Nat
ASSUME FailureAssumption == Failures \in BOOLEAN

VARIABLES
  format_std,    \* fedb->format_std, never changed
  source,        \* which macro half is used: "file" or "buffer"
  end,           \* bytes the source holds
  current,       \* bytes consumed so far
  pc,            \* the read that comes next
  fedb,          \* the FEDB: block_length, partial and the list of FEDs
  block_length,  \* the local of internal_read_fedb: bytes still to account for
  fed,           \* the local of internal_read_fedb: 0 or an index of heap
  heap,          \* every FED new_fed has returned, in order of allocation
  todo,          \* the loop counter of the body being read
  fed_ret,       \* what internal_read_fed returns
  ret            \* what internal_read_fedb returns

vars == <<format_std, source, end, current, pc, fedb, block_length, fed, heap, todo,
          fed_ret, ret>>

\* The cores, deltas and ridge counts of a FED are only counted; `angular' is
\* the core_type, then the delta_type, of the CDDB and `bytes' what was consumed.
FedRecord == [type    : FedTypes,
              length  : USHORT,
              elems   : Nat,
              angular : BOOLEAN,
              bytes   : Nat,
              partial : BOOLEAN,
              live    : BOOLEAN]

FedbRecord == [block_length : USHORT, partial : BOOLEAN, extended_data : Seq(Nat)]

BodyPcs == {"method", "rcd", "num_cores", "core", "num_deltas", "delta", "data"}
Pcs     == BodyPcs \cup {"block_length", "fed_header", "fed_return", "done"}

\* Mutant: the byte of the extraction method is not taken off.
ShortOfAll(n) == IF n + 1 > 32767 THEN n + 1 - 65536 ELSE n + 1

(***************************************************************************)
(* short block_length = length - 4 - 1: conversion of an int to 16 bits.   *)
(***************************************************************************)
Short(n) == IF n > 32767 THEN n - 65536 ELSE n

(***************************************************************************)
(* internal_read_cd, internal_read_dd: only ISO takes the type from the    *)
(* element; the others use the type of the block, which only the ANSI      *)
(* branch of internal_read_cddb ever sets.                                 *)
(***************************************************************************)
ElementAngular == IF format_std \in IsoFormats THEN BOOLEAN ELSE {heap[fed].angular}
HeaderAngular  == IF format_std = "ANSI" THEN BOOLEAN ELSE {FALSE}

-----------------------------------------------------------------------------

EmptyFedb == [block_length |-> 0, partial |-> FALSE, extended_data |-> <<>>]

NewFed(type, length) ==
  [type |-> type, length |-> length, elems |-> 0, angular |-> FALSE,
   bytes |-> FED_HEADER_LENGTH, partial |-> FALSE, live |-> TRUE]

Init ==
  /\ format_std \in Formats
  /\ source \in Sources
  /\ end \in Ends
  /\ current = 0
  /\ pc = "block_length"
  /\ fedb = EmptyFedb
  /\ block_length = 0
  /\ fed = 0
  /\ heap = <<>>
  /\ todo = 0
  /\ fed_ret = READ_OK
  /\ ret = READ_OK

\* Mutant: the size test is off by one.
GetBeyond(n) ==
  /\ Fits(current, n, end + 1)
  /\ current' = current + n

\* One GET macro of n bytes succeeds; the field is consumed.
Get(n) ==
  /\ Fits(current, n, end)
  /\ current' = current + n

(***************************************************************************)
(* One GET macro fails: at the end of the source it is eof_out; a file     *)
(* whose disk fails is err_out.  Nobody reads on after either, so where    *)
(* the cursor rests is not modelled.                                       *)
(***************************************************************************)
GetFails(n, code) ==
  /\ \/ ~ Fits(current, n, end) /\ code = READ_EOF
     \/ Failures /\ source = "file" /\ code = READ_ERROR
  /\ UNCHANGED current

\* malloc returns NULL.
AllocFails == Failures

\* free_fed(fed).
Freed(h) == [h EXCEPT ![fed] = [@ EXCEPT !.live = FALSE]]

(***************************************************************************)
(* err_out of internal_read_fedb: free whatever fed points to, which after *)
(* the first turn of the loop may be a FED that is already on the list.    *)
(***************************************************************************)
ErrOut ==
  /\ pc' = "done"
  /\ ret' = READ_ERROR
  /\ heap' = IF fed = 0 THEN heap ELSE Freed(heap)

\* Mutant: eof_out falls through to err_out's free_fed.
EofOutFrees ==
  /\ pc' = "done"
  /\ ret' = READ_EOF
  /\ heap' = IF fed = 0 THEN heap ELSE Freed(heap)

EofOut ==
  /\ pc' = "done"
  /\ ret' = READ_EOF
  /\ UNCHANGED heap

ReadBlockLength ==
  /\ pc = "block_length"
  /\ \/ \E n \in BlockLengths :
          /\ Get(2)
          /\ fedb' = [fedb EXCEPT !.block_length = n]
          /\ block_length' = n
          /\ IF n = 0
               THEN pc' = "done" /\ ret' = READ_OK
               ELSE pc' = "fed_header" /\ UNCHANGED ret
          /\ UNCHANGED heap
     \/ /\ GetFails(2, READ_EOF) /\ EofOut
        /\ UNCHANGED <<fedb, block_length>>
     \/ /\ GetFails(2, READ_ERROR) /\ ErrOut
        /\ UNCHANGED <<fedb, block_length>>
  /\ UNCHANGED <<format_std, source, end, fed, todo, fed_ret>>

\* The first read of the body of a FED of this type.
FirstRead(type) ==
  CASE type = FED_RIDGE_COUNT    -> "method"
    [] type = FED_CORE_AND_DELTA -> "num_cores"
    [] type = FED_OTHER          -> "data"

\* new_fed cannot allocate the data of an unknown FED shorter than its header.
DataFits(type, length) == type = FED_OTHER => length >= FED_HEADER_LENGTH

ReadFedHeader ==
  /\ pc = "fed_header"
  /\ \/ \E type \in FedTypes, length \in FedLengths :
          /\ Get(FED_HEADER_LENGTH)
          /\ \/ /\ length # 0 /\ length <= block_length
                /\ DataFits(type, length)
                /\ heap' = Append(heap, NewFed(type, length))
                /\ fed' = Len(heap) + 1
                /\ pc' = FirstRead(type)
                /\ UNCHANGED ret
             \/ /\ \/ length = 0 \/ length > block_length
                   \/ ~ DataFits(type, length)
                   \/ AllocFails
                /\ ErrOut
                /\ UNCHANGED fed
     \/ GetFails(FED_HEADER_LENGTH, READ_EOF) /\ EofOut /\ UNCHANGED fed
     \/ GetFails(FED_HEADER_LENGTH, READ_ERROR) /\ ErrOut /\ UNCHANGED fed
  /\ UNCHANGED <<format_std, source, end, fedb, block_length, todo, fed_ret>>

-----------------------------------------------------------------------------
(* The bodies.  Each read either consumes a field and says which read comes *)
(* next, or ends internal_read_fed with its code.                           *)

FedReturns(code) ==
  /\ pc' = "fed_return"
  /\ fed_ret' = code

BodyFails(n) ==
  /\ \E code \in READ_CODES : GetFails(n, code) /\ FedReturns(code)
  /\ UNCHANGED <<heap, todo>>

AllocFailsInBody ==
  /\ AllocFails /\ FedReturns(READ_ERROR)
  /\ UNCHANGED <<current, heap, todo>>

\* Mutant: the loop condition is off by one.
LoopOnceMore(n, here, after) ==
  /\ todo' = n
  /\ IF n >= 0
       THEN pc' = here /\ UNCHANGED fed_ret
       ELSE IF after = "fed_return"
              THEN FedReturns(READ_OK)
              ELSE pc' = after /\ UNCHANGED fed_ret

\* The loop over `n' more elements, each read at label `here', then `after'.
Loop(n, here, after) ==
  /\ todo' = n
  /\ IF n > 0
       THEN pc' = here /\ UNCHANGED fed_ret
       ELSE IF after = "fed_return"
              THEN FedReturns(READ_OK)
              ELSE pc' = after /\ UNCHANGED fed_ret

\* The FED in hand after n more bytes, which a new element has been linked for.
Consumed(n) == heap' = [heap EXCEPT ![fed] = [heap[fed] EXCEPT !.bytes = @ + n]]
\* Mutant: the element goes to the first FED of the block, not to the one in hand.
LinkedToFirst(n) ==
  heap' = [heap EXCEPT ![1] = [heap[1] EXCEPT !.bytes = @ + n, !.elems = @ + 1]]
Linked(n) ==
  heap' = [heap EXCEPT ![fed] = [heap[fed] EXCEPT !.bytes = @ + n, !.elems = @ + 1]]
Typed(angular) ==
  heap' = [heap EXCEPT ![fed] = [heap[fed] EXCEPT !.bytes = @ + 1, !.angular = angular]]

BodyFrame == UNCHANGED <<format_std, source, end, fedb, block_length, fed, ret>>

\* internal_read_rcdb: the extraction method, and how many bytes of counts follow.
ReadRidgeMethod ==
  /\ pc = "method"
  /\ \/ /\ Get(1) /\ Consumed(1)
        /\ Loop(Short(heap[fed].length - FED_HEADER_LENGTH - 1), "rcd", "fed_return")
     \/ BodyFails(1)
  /\ BodyFrame

ReadRidgeCount ==
  /\ pc = "rcd"
  /\ \/ /\ Get(RIDGE_COUNT_DATA_LENGTH) /\ Linked(RIDGE_COUNT_DATA_LENGTH)
        /\ Loop(todo - RIDGE_COUNT_DATA_LENGTH, "rcd", "fed_return")
     \/ BodyFails(RIDGE_COUNT_DATA_LENGTH)
     \/ AllocFailsInBody
  /\ BodyFrame

\* internal_read_cddb: core type and count, the cores, delta type and count, the deltas.
ReadNumCores ==
  /\ pc = "num_cores"
  /\ \/ \E n \in Counts, angular \in HeaderAngular :
          /\ Get(1)
          /\ Typed(angular)
          /\ Loop(n, "core", "num_deltas")
     \/ BodyFails(1)
  /\ BodyFrame

ReadCore ==
  /\ pc = "core"
  /\ \/ \E angular \in ElementAngular :
          \/ /\ Get(CoreSize(angular)) /\ Linked(CoreSize(angular))
             /\ Loop(todo - 1, "core", "num_deltas")
          \/ BodyFails(CoreSize(angular))
     \/ AllocFailsInBody
  /\ BodyFrame

ReadNumDeltas ==
  /\ pc = "num_deltas"
  /\ \/ \E n \in Counts, angular \in HeaderAngular :
          /\ Get(1)
          /\ Typed(angular)
          /\ Loop(n, "delta", "fed_return")
     \/ BodyFails(1)
  /\ BodyFrame

ReadDelta ==
  /\ pc = "delta"
  /\ \/ \E angular \in ElementAngular :
          \/ /\ Get(DeltaSize(angular)) /\ Linked(DeltaSize(angular))
             /\ Loop(todo - 1, "delta", "fed_return")
          \/ BodyFails(DeltaSize(angular))
     \/ AllocFailsInBody
  /\ BodyFrame

(***************************************************************************)
(* The bytes of an unknown FED, in one piece.  fread of an object of no    *)
(* bytes returns 0 without reaching end of file, which OREAD takes for an  *)
(* error; OSCAN of no bytes succeeds.                                      *)
(***************************************************************************)
ReadData ==
  /\ pc = "data"
  /\ LET n == heap[fed].length - FED_HEADER_LENGTH IN
       \/ /\ n > 0 \/ source = "buffer"
          /\ Get(n) /\ Consumed(n)
          /\ FedReturns(READ_OK)
          /\ UNCHANGED todo
       \/ /\ n = 0 /\ source = "file"
          /\ FedReturns(READ_ERROR)
          /\ UNCHANGED <<current, heap, todo>>
       \/ BodyFails(n)
  /\ BodyFrame

-----------------------------------------------------------------------------
\* Mutants: the test for elements asks for two, or for none.
HasSeveral     == heap[fed].elems > 1
HasAnyOrNone   == heap[fed].elems >= 0

\* The FED in hand has data worth keeping: !TAILQ_EMPTY of its elements.
HasElements == heap[fed].elems > 0

(***************************************************************************)
(* internal_read_fed has returned: it marks a FED with any element partial *)
(* (a complete one too), and internal_read_fedb takes it from there.       *)
(***************************************************************************)
FinishFed ==
  /\ pc = "fed_return"
  /\ LET partial == HasElements
         marked  == [heap EXCEPT ![fed] = [@ EXCEPT !.partial = partial]]
         list    == Append(fedb.extended_data, fed)
     IN \/ /\ fed_ret = READ_OK
           /\ heap' = marked
           /\ fedb' = [fedb EXCEPT !.extended_data = list]
           /\ block_length' = block_length - heap[fed].length
           /\ IF block_length' > 0
                THEN pc' = "fed_header" /\ UNCHANGED ret
                ELSE pc' = "done" /\ ret' = READ_OK
        \/ /\ fed_ret = READ_EOF
           /\ heap' = marked
           /\ fedb' = IF partial
                        THEN [fedb EXCEPT !.extended_data = list, !.partial = TRUE]
                        ELSE fedb
           /\ pc' = "done"
           /\ ret' = READ_EOF
           /\ UNCHANGED block_length
        \/ /\ fed_ret = READ_ERROR
           /\ heap' = Freed(marked)
           /\ pc' = "done"
           /\ ret' = READ_ERROR
           /\ UNCHANGED <<fedb, block_length>>
  /\ UNCHANGED <<format_std, source, end, current, fed, todo, fed_ret>>

Next ==
  \/ ReadBlockLength
  \/ ReadFedHeader
  \/ ReadRidgeMethod
  \/ ReadRidgeCount
  \/ ReadNumCores
  \/ ReadCore
  \/ ReadNumDeltas
  \/ ReadDelta
  \/ ReadData
  \/ FinishFed

Spec == Init /\ [][Next]_vars

-----------------------------------------------------------------------------
(* Properties.                                                             *)

List == fedb.extended_data

\* The types of the variables: cursor within the source, locals within C's range.
TypeOK ==
  /\ format_std \in Formats
  /\ source \in Sources
  /\ end \in Nat /\ current \in 0 .. end
  /\ pc \in Pcs
  /\ fedb \in FedbRecord
  /\ block_length \in USHORT
  /\ heap \in Seq(FedRecord)
  /\ fed \in 0 .. Len(heap)
  /\ todo \in Int
  /\ fed_ret \in READ_CODES
  /\ ret \in READ_CODES

(***************************************************************************)
(* Who owns a FED (add_fed_to_fedb and the returns of internal_read_fedb): *)
(* the list holds the FEDs of the wire in their order, each once; at most  *)
(* one is in hand beside them; and none is ever freed unless the reader    *)
(* fails, and then only the last one allocated.                            *)
(***************************************************************************)
OwnedOnce ==
  /\ \A i \in DOMAIN List : List[i] = i
  /\ Len(heap) - Len(List) \in {0, 1}
  /\ \A i \in DOMAIN heap : ~ heap[i].live => ret = READ_ERROR /\ i = Len(heap)

(***************************************************************************)
(* At the end of the source a FED that already holds elements is kept, on  *)
(* the list; only one that holds none may be lost (fedb.c:194-199).        *)
(***************************************************************************)
NoDataLostAtEof ==
  pc = "done" /\ ret = READ_EOF =>
    \A i \in DOMAIN heap : heap[i].elems > 0 => Contains(List, i)

SHRT_MAX == 32767

LengthOf(list) == SumFunction([k \in DOMAIN list |-> heap[list[k]].length])

\* A FED whose length is the one its contents have.
LengthIsTrue(f) ==
  \/ f.type = FED_OTHER
  \/ /\ f.type = FED_RIDGE_COUNT
     /\ f.length > FED_HEADER_LENGTH
     /\ f.length - FED_HEADER_LENGTH - 1 <= SHRT_MAX
     /\ (f.length - FED_HEADER_LENGTH - 1) % RIDGE_COUNT_DATA_LENGTH = 0
  \/ f.type = FED_CORE_AND_DELTA /\ f.bytes = f.length

(***************************************************************************)
(* The bytes left of the block are those that no listed FED accounts for,  *)
(* and READ_OK is returned exactly when none is left: a FED is never       *)
(* counted twice, skipped, or accepted beyond the end of the block.  Then  *)
(* the cursor is right behind the block, where the next view starts,       *)
(* whenever each FED's length is the one its contents have.                *)
(***************************************************************************)
BlockAccounted ==
  /\ ret = READ_OK => block_length = fedb.block_length - LengthOf(List)
  /\ pc = "done" /\ ret = READ_OK =>
       /\ block_length = 0
       /\ (\A i \in DOMAIN heap : LengthIsTrue(heap[i])) => current = 2 + fedb.block_length

(***************************************************************************)
(* A FED was read to its end if it is listed and not the one EOF cut.      *)
(***************************************************************************)
Complete(i) == Contains(List, i) /\ ~ (fedb.partial /\ i = Len(List))

(***************************************************************************)
(* A complete ridge count FED holds just the counts its length asks for    *)
(* (the last one may reach beyond it), as long as the length is one a      *)
(* short can hold: internal_read_rcdb computes it in 16 signed bits.       *)
(***************************************************************************)
HoldsItsCounts(f) ==
  LET body == f.length - FED_HEADER_LENGTH - 1
      room == RIDGE_COUNT_DATA_LENGTH * f.elems
  IN room >= body /\ (f.elems > 0 => room - RIDGE_COUNT_DATA_LENGTH < body)

RidgeBlockFilled ==
  \A i \in DOMAIN heap :
    /\ heap[i].type = FED_RIDGE_COUNT
    /\ Complete(i)
    /\ heap[i].length - FED_HEADER_LENGTH - 1 <= SHRT_MAX
    => HoldsItsCounts(heap[i])

(***************************************************************************)
(* fedb->partial says exactly that the end of the source cut a FED that    *)
(* holds elements, and that this FED is the last of the list.              *)
(***************************************************************************)
PartialExact ==
  fedb.partial <=>
    /\ pc = "done" /\ ret = READ_EOF /\ fed_ret = READ_EOF
    /\ List # <<>> /\ Last(List) = fed
    /\ heap[fed].elems > 0

(***************************************************************************)
(* The next FED is read into storage of its own: a FED on the list never   *)
(* changes again, and the list only grows at its tail.  (A failure may     *)
(* free the last one, which OwnedOnce bounds.)                             *)
(***************************************************************************)
Contents(f) == [f EXCEPT !.live = TRUE]

ListedFedsFrozen ==
  [][/\ IsPrefix(List, List')
     /\ \A i \in DOMAIN List :
          Contents(heap'[List[i]]) = Contents(heap[List[i]])]_vars

-----------------------------------------------------------------------------
(* What a comment of the repository says and the code does not do.         *)

(***************************************************************************)
(* fmr.h:589 "This function does a deep free": after read_fedb has failed, *)
(* free_fedb may be called, so nothing on the list has been freed already. *)
(***************************************************************************)
FreeableAfterError ==
  pc = "done" => \A i \in DOMAIN List : heap[List[i]].live

=============================================================================
