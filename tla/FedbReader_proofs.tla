------------------------- MODULE FedbReader_proofs --------------------------
(***************************************************************************)
(* Proofs about the reader of a Finger Extended Data Block, for every      *)
(* format, source length, field value and failure.                         *)
(*                                                                         *)
(* What the reader does after a FED depends on facts that its loop keeps   *)
(* and no single property states: `fed' is always the FED allocated last,  *)
(* it is the only one that can be off the list, and it fits in what is     *)
(* left of the block.  ReaderInv adds them to the properties; it is        *)
(* inductive, and the theorems follow from it.                             *)
(***************************************************************************)
EXTENDS FedbReader, SequenceTheorems, Sums, TLAPS

InFed == BodyPcs \cup {"fed_return"}

\* The reads that a FED of each type goes through.
Reads(type, p) ==
  \/ p = "fed_return"
  \/ type = FED_RIDGE_COUNT /\ p \in {"method", "rcd"}
  \/ type = FED_CORE_AND_DELTA /\ p \in {"num_cores", "core", "num_deltas", "delta"}
  \/ type = FED_OTHER /\ p = "data"

\* Where the loop is, and what it then knows of fed, the list and the heap.
LoopInv ==
  /\ fed = Len(heap)
  /\ pc = "block_length" => fed = 0
  /\ pc \in {"block_length", "fed_header"} => Len(List) = fed
  /\ pc \in InFed => fed # 0 /\ Len(List) = fed - 1
  /\ pc # "done" => ret = READ_OK /\ ~ fedb.partial
  /\ pc \notin {"done", "fed_return"} => fed_ret = READ_OK

\* The FED in hand: its type leads the reads, its length fits in the block.
FedInv ==
  pc \in InFed =>
    /\ Reads(heap[fed].type, pc)
    /\ heap[fed].length <= block_length
    /\ DataFits(heap[fed].type, heap[fed].length)

\* The ridge counts of the FED in hand: what is linked and what is to do
\* make up the body that its length declares.
RidgeInv ==
  pc \in InFed /\ heap[fed].type = FED_RIDGE_COUNT
               /\ heap[fed].length - FED_HEADER_LENGTH - 1 <= SHRT_MAX =>
    /\ pc = "method" => heap[fed].elems = 0
    /\ pc = "rcd" =>
         /\ todo > 0
         /\ todo = heap[fed].length - FED_HEADER_LENGTH - 1
                     - RIDGE_COUNT_DATA_LENGTH * heap[fed].elems
    /\ pc = "fed_return" /\ fed_ret = READ_OK => HoldsItsCounts(heap[fed])

ReaderInv ==
  /\ TypeOK /\ LoopInv /\ FedInv /\ RidgeInv
  /\ OwnedOnce /\ PartialExact /\ NoDataLostAtEof /\ RidgeBlockFilled

-----------------------------------------------------------------------------
(***************************************************************************)
(* Replacing the FED in hand keeps the heap a heap.                        *)
(***************************************************************************)
LEMMA HeapExcept ==
  ASSUME heap \in Seq(FedRecord), fed \in 1 .. Len(heap),
         NEW f \in FedRecord
  PROVE  LET h == [heap EXCEPT ![fed] = f] IN
           /\ h \in Seq(FedRecord)
           /\ Len(h) = Len(heap)
           /\ h[fed] = f
           /\ \A j \in 1 .. Len(heap) : j # fed => h[j] = heap[j]
  BY ExceptSeq

(***************************************************************************)
(* What every step inside a FED has in common: it changes the FED in hand  *)
(* only, neither its type nor its length, and goes on to a read of that    *)
(* type or to the end of the FED.                                          *)
(***************************************************************************)
BodyChange ==
  /\ BodyFrame
  /\ current' \in 0 .. end
  /\ heap' \in Seq(FedRecord)
  /\ Len(heap') = Len(heap)
  /\ \A j \in 1 .. Len(heap) : j # fed => heap'[j] = heap[j]
  /\ heap'[fed].type = heap[fed].type
  /\ heap'[fed].length = heap[fed].length
  /\ heap'[fed].live = heap[fed].live
  /\ todo' \in Int
  /\ Reads(heap[fed].type, pc')
  /\ fed_ret' \in READ_CODES
  /\ pc' # "fed_return" => fed_ret' = READ_OK

\* A step inside a FED keeps the invariant, if the FED's ridge counts stay in step.
LEMMA BodyChangeKeeps ==
  ASSUME ReaderInv, pc \in BodyPcs, BodyChange, RidgeInv'
  PROVE  ReaderInv'
<1>1. /\ fed \in 1 .. Len(heap) /\ fed' = fed /\ fed = Len(heap)
      /\ List' = List /\ Len(List) = fed - 1 /\ fedb' = fedb
      /\ ret = READ_OK /\ ret' = ret /\ ~ fedb.partial
      /\ heap[fed] \in FedRecord
  <2>1. pc \in InFed /\ pc # "done"
    BY DEF InFed, BodyPcs
  <2>2. heap \in Seq(FedRecord) /\ Len(heap) \in Nat /\ fed \in 0 .. Len(heap)
    BY DEF ReaderInv, TypeOK
  <2>3. fed = Len(heap) /\ fed # 0 /\ Len(List) = fed - 1 /\ ret = READ_OK /\ ~ fedb.partial
    BY <2>1 DEF ReaderInv, LoopInv
  <2> QED BY <2>2, <2>3 DEF BodyChange, BodyFrame, List
<1>a. pc' \in InFed /\ pc' \in Pcs
  BY <1>1 DEF BodyChange, InFed, Pcs, Reads, BodyPcs, FedRecord, FedTypes
<1>2. TypeOK'
  BY <1>1, <1>a DEF ReaderInv, TypeOK, BodyChange, BodyFrame
<1>3. LoopInv'
  BY <1>1, <1>a DEF ReaderInv, TypeOK, LoopInv, BodyChange, BodyFrame, InFed, BodyPcs
<1>4. FedInv'
  BY <1>1, <1>a DEF ReaderInv, FedInv, BodyChange, BodyFrame, InFed
<1>5. OwnedOnce'
  BY <1>1, <1>a DEF ReaderInv, OwnedOnce, BodyChange, TypeOK
<1>6. PartialExact' /\ NoDataLostAtEof'
  BY <1>1, <1>a DEF PartialExact, NoDataLostAtEof, InFed, BodyPcs
<1>7. RidgeBlockFilled'
  <2> SUFFICES ASSUME NEW i \in DOMAIN heap', heap'[i].type = FED_RIDGE_COUNT, Complete(i)',
                      heap'[i].length - FED_HEADER_LENGTH - 1 <= SHRT_MAX
               PROVE  HoldsItsCounts(heap'[i])
    BY DEF RidgeBlockFilled, HoldsItsCounts
  <2>1. List \in Seq(Nat) /\ DOMAIN List = 1 .. Len(List)
    BY DEF ReaderInv, TypeOK, FedbRecord, List
  <2>2. i # fed
    BY <1>1, <2>1 DEF ReaderInv, OwnedOnce, Complete, Contains
  <2>3. i \in DOMAIN heap /\ heap'[i] = heap[i]
    BY <2>2 DEF ReaderInv, TypeOK, BodyChange
  <2>4. Complete(i)
    BY <1>1 DEF Complete
  <2> QED BY <2>3, <2>4 DEF ReaderInv, RidgeBlockFilled
<1> QED BY <1>2, <1>3, <1>4, <1>5, <1>6, <1>7 DEF ReaderInv, BodyChange

\* What ReaderInv says of the FED in hand, for every action of a body.
LEMMA InHand ==
  ASSUME ReaderInv, pc \in InFed
  PROVE  /\ heap \in Seq(FedRecord) /\ fed \in 1 .. Len(heap)
         /\ heap[fed] \in FedRecord
         /\ current \in 0 .. end /\ end \in Nat
         /\ todo \in Int
         /\ Reads(heap[fed].type, pc)
         /\ DataFits(heap[fed].type, heap[fed].length)
  <1>1. heap \in Seq(FedRecord) /\ Len(heap) \in Nat /\ fed \in 0 .. Len(heap)
        /\ current \in 0 .. end /\ end \in Nat /\ todo \in Int
    BY DEF ReaderInv, TypeOK
  <1>2. fed # 0
    BY DEF ReaderInv, LoopInv
  <1>3. Reads(heap[fed].type, pc) /\ DataFits(heap[fed].type, heap[fed].length)
    BY DEF ReaderInv, FedInv
  <1> QED BY <1>1, <1>2, <1>3

(***************************************************************************)
(* A step inside a FED that fails: nothing is consumed or linked.          *)
(***************************************************************************)
BodyFailure ==
  /\ BodyFrame
  /\ UNCHANGED <<current, heap, todo>>
  /\ pc' = "fed_return"
  /\ fed_ret' \in {READ_EOF, READ_ERROR}

\* A read inside a FED that fails (eof_out, err_out of a body) keeps the invariant.
LEMMA BodyFailureKeeps ==
  ASSUME ReaderInv, pc \in BodyPcs, BodyFailure
  PROVE  ReaderInv'
<1>1. pc \in InFed
  BY DEF InFed
<1>2. Reads(heap[fed].type, pc')
  BY <1>1, InHand DEF BodyFailure, Reads, FedRecord, FedTypes
<1>3. BodyChange
  BY <1>1, <1>2, InHand DEF BodyChange, BodyFailure, READ_CODES, READ_OK, READ_EOF, READ_ERROR
<1>4. RidgeInv'
  BY DEF BodyFailure, RidgeInv, READ_OK, READ_EOF, READ_ERROR
<1> QED BY <1>3, <1>4, BodyChangeKeeps

\* So does every failing GET macro inside a FED.
LEMMA BodyFailsKeeps ==
  ASSUME ReaderInv, pc \in BodyPcs, BodyFrame, NEW n \in Nat, BodyFails(n) \/ AllocFailsInBody
  PROVE  ReaderInv'
<1>1. BodyFailure
  BY DEF BodyFailure, BodyFails, AllocFailsInBody, GetFails, FedReturns
<1> QED BY <1>1, BodyFailureKeeps

(***************************************************************************)
(* A step inside a FED that succeeds: n bytes are consumed and the FED in  *)
(* hand becomes f.                                                         *)
(***************************************************************************)
LEMMA BodyGetKeeps ==
  ASSUME ReaderInv, pc \in BodyPcs, BodyFrame,
         NEW n \in Nat, Get(n),
         NEW f \in FedRecord, heap' = [heap EXCEPT ![fed] = f],
         f.type = heap[fed].type, f.length = heap[fed].length, f.live = heap[fed].live,
         todo' \in Int,
         Reads(heap[fed].type, pc'),
         fed_ret' \in READ_CODES, pc' # "fed_return" => fed_ret' = READ_OK,
         heap'[fed] = f => RidgeInv'
  PROVE  ReaderInv'
<1>1. pc \in InFed
  BY DEF InFed
<1>2. /\ heap' \in Seq(FedRecord) /\ Len(heap') = Len(heap) /\ heap'[fed] = f
      /\ \A j \in 1 .. Len(heap) : j # fed => heap'[j] = heap[j]
  BY <1>1, InHand, HeapExcept
<1>3. current' \in 0 .. end
  BY <1>1, InHand DEF Get, Fits
<1>4. BodyChange
  BY <1>2, <1>3 DEF BodyChange
<1> QED BY <1>2, <1>4, BodyChangeKeeps

\* What linking an element, or reading the counts, may change of a FED.
LEMMA FedRecordExcept ==
  ASSUME NEW f \in FedRecord, NEW n \in Nat, NEW angular \in BOOLEAN
  PROVE  /\ [f EXCEPT !.bytes = @ + n] \in FedRecord
         /\ [f EXCEPT !.bytes = @ + n, !.elems = @ + 1] \in FedRecord
         /\ [f EXCEPT !.bytes = @ + 1, !.angular = angular] \in FedRecord
<1>1. f.bytes + n \in Nat /\ f.bytes + 1 \in Nat /\ f.elems + 1 \in Nat
  BY DEF FedRecord
<1>2. [f EXCEPT !.bytes = @ + n] \in FedRecord
  BY <1>1 DEF FedRecord
<1>3. [f EXCEPT !.bytes = @ + n, !.elems = @ + 1] \in FedRecord
  BY <1>1 DEF FedRecord
<1>4. [f EXCEPT !.bytes = @ + 1, !.angular = angular] \in FedRecord
  BY <1>1 DEF FedRecord
<1> QED BY <1>2, <1>3, <1>4

\* The 16-bit conversion of internal_read_rcdb changes nothing up to SHRT_MAX.
LEMMA ShortOf ==
  ASSUME NEW n \in Int
  PROVE  Short(n) \in Int /\ (n <= SHRT_MAX => Short(n) = n)
  BY DEF Short, SHRT_MAX

\* internal_read_rcdb, the extraction method: the counts still to come fill the body.
LEMMA RidgeMethodKeeps == ASSUME ReaderInv, ReadRidgeMethod PROVE ReaderInv'
<1> DEFINE f == [heap[fed] EXCEPT !.bytes = @ + 1]
           body == heap[fed].length - FED_HEADER_LENGTH - 1
<1>1. pc \in BodyPcs /\ pc \in InFed /\ BodyFrame
  BY DEF ReadRidgeMethod, BodyPcs, InFed
<1>2. CASE BodyFails(1)
  BY <1>1, <1>2, BodyFailsKeeps
<1>3. CASE Get(1) /\ Consumed(1) /\ Loop(Short(body), "rcd", "fed_return")
  <2>1. heap[fed] \in FedRecord /\ heap[fed].type = FED_RIDGE_COUNT
        /\ heap[fed].length \in Nat /\ fed' = fed
    BY <1>1, InHand DEF ReadRidgeMethod, Reads, FedRecord, USHORT, BodyFrame
  <2>2. f \in FedRecord /\ f.type = heap[fed].type /\ f.length = heap[fed].length
        /\ f.live = heap[fed].live /\ f.elems = heap[fed].elems
    BY <2>1, FedRecordExcept DEF FedRecord
  <2>3. body \in Int
    BY <2>1 DEF FED_HEADER_LENGTH
  <2>a. body <= SHRT_MAX => f.elems = 0
    BY <1>1, <2>1, <2>2 DEF ReadRidgeMethod, ReaderInv, RidgeInv
  <2>b. f.length - FED_HEADER_LENGTH - 1 = body
    BY <2>2
  <2>c. heap' = [heap EXCEPT ![fed] = f]
    BY <1>3 DEF Consumed
  <2> HIDE DEF f, body
  <2>4. todo' = Short(body) /\ todo' \in Int
        /\ pc' \in {"rcd", "fed_return"} /\ fed_ret' \in READ_CODES
        /\ (pc' = "rcd" => todo' > 0 /\ fed_ret' = READ_OK)
        /\ (pc' = "fed_return" => todo' <= 0)
    <3>1. fed_ret = READ_OK
      BY DEF ReadRidgeMethod, ReaderInv, LoopInv
    <3> QED BY <1>3, <2>3, <3>1, ShortOf DEF Loop, FedReturns, READ_CODES
  <2>5. ASSUME heap'[fed] = f PROVE RidgeInv'
    <3>1. CASE body <= SHRT_MAX
      <4>1. todo' = body /\ f.elems = 0
        BY <2>3, <2>4, <2>a, <3>1, ShortOf
      <4> QED BY <2>1, <2>3, <2>4, <2>5, <2>b, <4>1
              DEF RidgeInv, HoldsItsCounts, RIDGE_COUNT_DATA_LENGTH
    <3>2. CASE ~ (body <= SHRT_MAX)
      BY <2>1, <2>5, <2>b, <3>2 DEF RidgeInv
    <3> QED BY <3>1, <3>2
  <2>6. Reads(heap[fed].type, pc')
    BY <2>1, <2>4 DEF Reads
  <2>7. pc' # "fed_return" => fed_ret' = READ_OK
    BY <2>4
  <2> QED BY <1>1, <1>3, <2>2, <2>4, <2>5, <2>6, <2>7, <2>c, BodyGetKeeps
<1> QED BY <1>2, <1>3 DEF ReadRidgeMethod

\* internal_read_rcdb, one ridge count: three bytes less to come, one count more.
LEMMA RidgeCountKeeps == ASSUME ReaderInv, ReadRidgeCount PROVE ReaderInv'
<1> DEFINE f == [heap[fed] EXCEPT !.bytes = @ + RIDGE_COUNT_DATA_LENGTH, !.elems = @ + 1]
           body == heap[fed].length - FED_HEADER_LENGTH - 1
<1>1. pc \in BodyPcs /\ pc \in InFed /\ BodyFrame /\ RIDGE_COUNT_DATA_LENGTH \in Nat
  BY DEF ReadRidgeCount, BodyPcs, InFed, RIDGE_COUNT_DATA_LENGTH
<1>2. CASE BodyFails(RIDGE_COUNT_DATA_LENGTH) \/ AllocFailsInBody
  BY <1>1, <1>2, BodyFailsKeeps
<1>3. CASE /\ Get(RIDGE_COUNT_DATA_LENGTH) /\ Linked(RIDGE_COUNT_DATA_LENGTH)
           /\ Loop(todo - RIDGE_COUNT_DATA_LENGTH, "rcd", "fed_return")
  <2>1. heap[fed] \in FedRecord /\ heap[fed].type = FED_RIDGE_COUNT
        /\ heap[fed].length \in Nat /\ fed' = fed /\ heap[fed].elems \in Nat
    BY <1>1, InHand DEF ReadRidgeCount, Reads, FedRecord, USHORT, BodyFrame
  <2>2. f \in FedRecord
    BY <1>1, <2>1, FedRecordExcept
  <2>3. f.type = heap[fed].type /\ f.length = heap[fed].length
        /\ f.live = heap[fed].live /\ f.elems = heap[fed].elems + 1
    BY <2>1 DEF FedRecord
  <2>4. body \in Int
    BY <2>1 DEF FED_HEADER_LENGTH
  <2>5. body <= SHRT_MAX =>
          todo > 0 /\ todo = body - RIDGE_COUNT_DATA_LENGTH * heap[fed].elems
    BY <1>1, <2>1 DEF ReadRidgeCount, ReaderInv, RidgeInv
  <2>6. f.length - FED_HEADER_LENGTH - 1 = body
    BY <2>3
  <2>7. heap' = [heap EXCEPT ![fed] = f]
    BY <1>3 DEF Linked
  <2> HIDE DEF f, body
  <2>8. todo' = todo - RIDGE_COUNT_DATA_LENGTH /\ todo \in Int /\ todo' \in Int
        /\ pc' \in {"rcd", "fed_return"} /\ fed_ret' = READ_OK
        /\ (pc' = "rcd" <=> todo' > 0)
    <3>1. fed_ret = READ_OK /\ todo \in Int
      BY DEF ReadRidgeCount, ReaderInv, LoopInv, TypeOK
    <3> QED BY <1>3, <3>1 DEF Loop, FedReturns, RIDGE_COUNT_DATA_LENGTH
  <2>9. ASSUME heap'[fed] = f PROVE RidgeInv'
    <3>1. CASE body <= SHRT_MAX
      BY <2>1, <2>3, <2>4, <2>5, <2>6, <2>8, <2>9, <3>1
      DEF RidgeInv, HoldsItsCounts, RIDGE_COUNT_DATA_LENGTH
    <3>2. CASE ~ (body <= SHRT_MAX)
      BY <2>1, <2>6, <2>9, <3>2 DEF RidgeInv
    <3> QED BY <3>1, <3>2
  <2>10. Reads(heap[fed].type, pc')
    BY <2>1, <2>8 DEF Reads
  <2>11. fed_ret' \in READ_CODES
    BY <2>8 DEF READ_CODES
  <2> QED BY <1>1, <1>3, <2>2, <2>3, <2>7, <2>8, <2>9, <2>10, <2>11, BodyGetKeeps
<1> QED BY <1>2, <1>3 DEF ReadRidgeCount

(***************************************************************************)
(* A step inside a FED of another type cannot touch what is known of ridge *)
(* counts.                                                                 *)
(***************************************************************************)
LEMMA OtherGetKeeps ==
  ASSUME ReaderInv, pc \in BodyPcs, BodyFrame, heap[fed].type # FED_RIDGE_COUNT,
         NEW n \in Nat, Get(n),
         NEW f \in FedRecord, heap' = [heap EXCEPT ![fed] = f],
         f.type = heap[fed].type, f.length = heap[fed].length, f.live = heap[fed].live,
         todo' \in Int,
         Reads(heap[fed].type, pc'),
         fed_ret' = READ_OK
  PROVE  ReaderInv'
<1>1. fed' = fed /\ fed_ret' \in READ_CODES
  BY DEF BodyFrame, READ_CODES
<1>2. ASSUME heap'[fed] = f PROVE RidgeInv'
  BY <1>1, <1>2 DEF RidgeInv
<1> QED BY <1>1, <1>2, BodyGetKeeps

\* The loop over the cores, or over the deltas, of a block.
LEMMA CountedLoop ==
  ASSUME ReaderInv, pc \in BodyPcs, heap[fed].type = FED_CORE_AND_DELTA,
         NEW n \in Int, NEW here \in {"core", "delta"},
         NEW after \in {"num_deltas", "fed_return"},
         Loop(n, here, after)
  PROVE  todo' \in Int /\ fed_ret' = READ_OK /\ Reads(heap[fed].type, pc')
<1>1. fed_ret = READ_OK
  BY DEF ReaderInv, LoopInv, BodyPcs
<1>2. todo' = n /\ fed_ret' = READ_OK /\ pc' \in {here, after}
  BY <1>1 DEF Loop, FedReturns
<1> QED BY <1>2 DEF Reads

\* The two reads of a count, of cores and of deltas.
LEMMA CountKeeps ==
  ASSUME ReaderInv, pc \in {"num_cores", "num_deltas"}, BodyFrame,
         NEW n \in Counts, NEW angular \in HeaderAngular,
         NEW here \in {"core", "delta"}, NEW after \in {"num_deltas", "fed_return"},
         Get(1), Typed(angular), Loop(n, here, after)
  PROVE  ReaderInv'
<1> DEFINE f == [heap[fed] EXCEPT !.bytes = @ + 1, !.angular = angular]
<1>1. pc \in BodyPcs /\ pc \in InFed
  BY DEF BodyPcs, InFed
<1>2. heap[fed] \in FedRecord /\ heap[fed].type = FED_CORE_AND_DELTA
      /\ heap[fed].type # FED_RIDGE_COUNT
  BY <1>1, InHand DEF Reads, FED_CORE_AND_DELTA, FED_RIDGE_COUNT
<1>3. n \in Int
  BY CountAssumption
<1>a. angular \in BOOLEAN
  BY DEF HeaderAngular
<1>4. f \in FedRecord
  BY <1>2, <1>a, FedRecordExcept
<1>5. f.type = heap[fed].type /\ f.length = heap[fed].length /\ f.live = heap[fed].live
  BY <1>2 DEF FedRecord
<1>6. heap' = [heap EXCEPT ![fed] = f]
  BY DEF Typed
<1>7. todo' \in Int /\ fed_ret' = READ_OK /\ Reads(heap[fed].type, pc')
  BY <1>1, <1>2, <1>3, CountedLoop
<1> HIDE DEF f
<1> QED BY <1>1, <1>2, <1>4, <1>5, <1>6, <1>7, OtherGetKeeps

\* The two reads of an element, a core or a delta of n bytes.
LEMMA ElementKeeps ==
  ASSUME ReaderInv, pc \in {"core", "delta"}, BodyFrame,
         NEW n \in Nat, NEW here \in {"core", "delta"},
         NEW after \in {"num_deltas", "fed_return"},
         Get(n), Linked(n), Loop(todo - 1, here, after)
  PROVE  ReaderInv'
<1> DEFINE f == [heap[fed] EXCEPT !.bytes = @ + n, !.elems = @ + 1]
<1>1. pc \in BodyPcs /\ pc \in InFed
  BY DEF BodyPcs, InFed
<1>2. heap[fed] \in FedRecord /\ heap[fed].type = FED_CORE_AND_DELTA
      /\ heap[fed].type # FED_RIDGE_COUNT
  BY <1>1, InHand DEF Reads, FED_CORE_AND_DELTA, FED_RIDGE_COUNT
<1>3. todo - 1 \in Int
  BY <1>1, InHand
<1>4. f \in FedRecord
  BY <1>2, FedRecordExcept
<1>5. f.type = heap[fed].type /\ f.length = heap[fed].length /\ f.live = heap[fed].live
  BY <1>2 DEF FedRecord
<1>6. heap' = [heap EXCEPT ![fed] = f]
  BY DEF Linked
<1>7. todo' \in Int /\ fed_ret' = READ_OK /\ Reads(heap[fed].type, pc')
  BY <1>1, <1>2, <1>3, CountedLoop
<1> HIDE DEF f
<1> QED BY <1>1, <1>2, <1>4, <1>5, <1>6, <1>7, OtherGetKeeps

\* internal_read_cddb with internal_read_cd and internal_read_dd.
LEMMA CoreDeltaKeeps ==
  ASSUME ReaderInv, ReadNumCores \/ ReadCore \/ ReadNumDeltas \/ ReadDelta
  PROVE  ReaderInv'
<1>1. pc \in BodyPcs /\ BodyFrame /\ 1 \in Nat
  BY DEF ReadNumCores, ReadCore, ReadNumDeltas, ReadDelta, BodyPcs
<1>2. \A angular : CoreSize(angular) \in Nat /\ DeltaSize(angular) \in Nat
  BY DEF CoreSize, DeltaSize
<1>3. CASE ReadNumCores
  BY <1>1, <1>3, BodyFailsKeeps, CountKeeps DEF ReadNumCores
<1>4. CASE ReadNumDeltas
  BY <1>1, <1>4, BodyFailsKeeps, CountKeeps DEF ReadNumDeltas
<1>5. CASE ReadCore
  BY <1>1, <1>2, <1>5, BodyFailsKeeps, ElementKeeps DEF ReadCore
<1>6. CASE ReadDelta
  BY <1>1, <1>2, <1>6, BodyFailsKeeps, ElementKeeps DEF ReadDelta
<1> QED BY <1>3, <1>4, <1>5, <1>6

\* The data of an unknown FED.
LEMMA DataKeeps == ASSUME ReaderInv, ReadData PROVE ReaderInv'
<1> DEFINE n == heap[fed].length - FED_HEADER_LENGTH
           f == [heap[fed] EXCEPT !.bytes = @ + n]
<1>1. pc \in BodyPcs /\ pc \in InFed /\ BodyFrame
  BY DEF ReadData, BodyPcs, InFed
<1>2. heap[fed] \in FedRecord /\ heap[fed].type = FED_OTHER
      /\ heap[fed].type # FED_RIDGE_COUNT
  BY <1>1, InHand DEF ReadData, Reads, FED_OTHER, FED_RIDGE_COUNT
<1>3. n \in Nat
  <2>1. DataFits(heap[fed].type, heap[fed].length)
    BY <1>1, InHand
  <2>2. heap[fed].length \in USHORT
    BY ONLY <1>2 DEF FedRecord
  <2> QED BY ONLY <1>2, <2>1, <2>2 DEF DataFits, USHORT, FED_HEADER_LENGTH
<1>4. CASE BodyFails(n)
  BY <1>1, <1>3, <1>4, BodyFailsKeeps
<1>5. CASE FedReturns(READ_ERROR) /\ UNCHANGED <<current, heap, todo>>
  BY <1>1, <1>5, BodyFailureKeeps DEF BodyFailure, FedReturns
<1>6. CASE Get(n) /\ Consumed(n) /\ FedReturns(READ_OK) /\ UNCHANGED todo
  <2>1. f \in FedRecord
    BY <1>2, <1>3, FedRecordExcept
  <2>2. f.type = heap[fed].type /\ f.length = heap[fed].length /\ f.live = heap[fed].live
    BY <1>2 DEF FedRecord
  <2>3. heap' = [heap EXCEPT ![fed] = f]
    BY <1>6 DEF Consumed
  <2>4. todo' \in Int /\ fed_ret' = READ_OK /\ Reads(heap[fed].type, pc')
    BY <1>1, <1>6, InHand DEF FedReturns, Reads
  <2> HIDE DEF f, n
  <2> QED BY <1>1, <1>2, <1>3, <1>6, <2>1, <2>2, <2>3, <2>4, OtherGetKeeps
<1> QED BY <1>4, <1>5, <1>6 DEF ReadData

-----------------------------------------------------------------------------
(***************************************************************************)
(* The steps between FEDs.                                                 *)
(***************************************************************************)

\* What ReaderInv says between two FEDs: everything allocated is listed.
LEMMA BetweenFeds ==
  ASSUME ReaderInv, pc \in {"block_length", "fed_header"}
  PROVE  /\ heap \in Seq(FedRecord) /\ Len(heap) \in Nat /\ fed = Len(heap)
         /\ DOMAIN heap = 1 .. Len(heap)
         /\ fedb \in FedbRecord /\ List \in Seq(Nat) /\ Len(List) = Len(heap)
         /\ DOMAIN List = 1 .. Len(List)
         /\ \A i \in DOMAIN List : List[i] = i
         /\ ret = READ_OK /\ fed_ret = READ_OK /\ ~ fedb.partial
         /\ \A i \in DOMAIN heap : heap[i].live
         /\ current \in 0 .. end /\ end \in Nat /\ todo \in Int /\ block_length \in USHORT
<1>1. heap \in Seq(FedRecord) /\ Len(heap) \in Nat /\ DOMAIN heap = 1 .. Len(heap)
      /\ fedb \in FedbRecord
      /\ current \in 0 .. end /\ end \in Nat /\ todo \in Int /\ block_length \in USHORT
  BY DEF ReaderInv, TypeOK
<1>2. List \in Seq(Nat) /\ DOMAIN List = 1 .. Len(List)
  BY <1>1 DEF FedbRecord, List
<1>3. fed = Len(heap) /\ Len(List) = Len(heap) /\ ret = READ_OK /\ fed_ret = READ_OK
      /\ ~ fedb.partial
  BY DEF ReaderInv, LoopInv
<1>4. (\A i \in DOMAIN List : List[i] = i) /\ (\A i \in DOMAIN heap : heap[i].live)
  BY <1>3 DEF ReaderInv, OwnedOnce, READ_OK, READ_ERROR
<1> QED BY <1>1, <1>2, <1>3, <1>4

(***************************************************************************)
(* The read gives up between two FEDs: at the end of the source, or with   *)
(* an error that frees the FED `fed' points to.                            *)
(***************************************************************************)
LEMMA GiveUpKeeps ==
  ASSUME ReaderInv, pc \in {"block_length", "fed_header"},
         EofOut \/ ErrOut,
         current' \in 0 .. end,
         UNCHANGED <<format_std, source, end, fedb, block_length, fed, todo, fed_ret>>
  PROVE  ReaderInv'
<1>1. /\ heap' \in Seq(FedRecord) /\ Len(heap') = Len(heap) /\ DOMAIN heap' = 1 .. Len(heap)
      /\ \A i \in DOMAIN heap :
           /\ heap'[i].type = heap[i].type
           /\ heap'[i].length = heap[i].length
           /\ heap'[i].elems = heap[i].elems
           /\ ~ heap'[i].live => ret' = READ_ERROR /\ i = Len(heap)
  <2>1. CASE heap' = heap
    BY <2>1, BetweenFeds
  <2>2. CASE fed # 0 /\ ret' = READ_ERROR /\ heap' = Freed(heap)
    <3> DEFINE f == [heap[fed] EXCEPT !.live = FALSE]
    <3>1. fed \in 1 .. Len(heap) /\ heap[fed] \in FedRecord
      BY <2>2, BetweenFeds
    <3>2. f \in FedRecord /\ f.type = heap[fed].type /\ f.length = heap[fed].length
          /\ f.elems = heap[fed].elems
      BY <3>1 DEF FedRecord
    <3>3. heap' = [heap EXCEPT ![fed] = f]
      BY <2>2 DEF Freed
    <3> HIDE DEF f
    <3>4. /\ heap' \in Seq(FedRecord) /\ Len(heap') = Len(heap) /\ heap'[fed] = f
          /\ \A j \in 1 .. Len(heap) : j # fed => heap'[j] = heap[j]
      BY <3>1, <3>2, <3>3, BetweenFeds, HeapExcept
    <3> QED BY <2>2, <3>2, <3>4, BetweenFeds
  <2> QED BY <2>1, <2>2 DEF EofOut, ErrOut
<1>2. pc' = "done" /\ ret' \in {READ_EOF, READ_ERROR} /\ List' = List
  BY DEF EofOut, ErrOut, List
<1>3. TypeOK'
  BY <1>1, <1>2 DEF ReaderInv, TypeOK, Pcs, READ_CODES
<1>4. LoopInv' /\ FedInv' /\ RidgeInv'
  BY <1>1, <1>2, BetweenFeds DEF LoopInv, FedInv, RidgeInv, InFed, BodyPcs
<1>5. OwnedOnce'
  <2>1. \A i \in DOMAIN List' : List'[i] = i
    BY <1>2, BetweenFeds
  <2>2. Len(heap') - Len(List') \in {0, 1}
    <3>1. Len(heap') = Len(List') /\ Len(heap') \in Nat
      BY <1>1, <1>2, BetweenFeds
    <3> QED BY <3>1
  <2>3. \A i \in DOMAIN heap' : ~ heap'[i].live => ret' = READ_ERROR /\ i = Len(heap')
    BY <1>1, BetweenFeds
  <2> QED BY <2>1, <2>2, <2>3 DEF OwnedOnce
<1>6. PartialExact'
  BY <1>2, BetweenFeds DEF PartialExact, READ_OK, READ_EOF
<1>7. NoDataLostAtEof'
  BY <1>1, <1>2, BetweenFeds DEF NoDataLostAtEof, Contains
<1>8. RidgeBlockFilled'
  BY <1>1, <1>2, BetweenFeds DEF ReaderInv, RidgeBlockFilled, Complete, HoldsItsCounts
<1> QED BY <1>3, <1>4, <1>5, <1>6, <1>7, <1>8 DEF ReaderInv

\* The block length, when no FED has been allocated yet.
LEMMA BlockLengthKeeps == ASSUME ReaderInv, ReadBlockLength PROVE ReaderInv'
<1>1. CASE GetFails(2, READ_EOF) /\ EofOut /\ UNCHANGED <<fedb, block_length>>
  BY <1>1, GiveUpKeeps, BetweenFeds DEF ReadBlockLength, GetFails
<1>2. CASE GetFails(2, READ_ERROR) /\ ErrOut /\ UNCHANGED <<fedb, block_length>>
  BY <1>2, GiveUpKeeps, BetweenFeds DEF ReadBlockLength, GetFails
<1>3. ASSUME NEW n \in BlockLengths, Get(2),
             fedb' = [fedb EXCEPT !.block_length = n], block_length' = n,
             \/ n = 0 /\ pc' = "done" /\ ret' = READ_OK
             \/ pc' = "fed_header" /\ ret' = ret,
             heap' = heap
      PROVE  ReaderInv'
  <2>1. UNCHANGED <<format_std, source, end, fed, todo, fed_ret>> /\ pc = "block_length"
    BY DEF ReadBlockLength
  <2>2. fed = 0 /\ heap = <<>> /\ List = <<>> /\ List' = List
        /\ fedb' \in FedbRecord /\ ~ fedb'.partial /\ n \in USHORT
    <3>1. fed = 0
      BY <2>1 DEF ReaderInv, LoopInv
    <3>2. Len(heap) = 0 /\ Len(List) = 0 /\ heap = <<>> /\ List = <<>>
      BY <2>1, <3>1, BetweenFeds
    <3>3. n \in USHORT
      BY LengthAssumption
    <3> QED BY <1>3, <2>1, <3>1, <3>2, <3>3, BetweenFeds DEF FedbRecord, List
  <2>3. current' \in 0 .. end
    BY <1>3, <2>1, BetweenFeds DEF Get, Fits
  <2>4. pc' \in {"done", "fed_header"} /\ ret' = READ_OK
    BY <1>3, <2>1, BetweenFeds
  <2>5. TypeOK'
    BY <1>3, <2>1, <2>2, <2>3, <2>4 DEF ReaderInv, TypeOK, Pcs, READ_CODES
  <2>6. LoopInv' /\ FedInv' /\ RidgeInv'
    BY <1>3, <2>1, <2>2, <2>4, BetweenFeds DEF LoopInv, FedInv, RidgeInv, InFed, BodyPcs
  <2>7. OwnedOnce'
    BY <1>3, <2>2 DEF OwnedOnce
  <2>8. PartialExact' /\ NoDataLostAtEof' /\ RidgeBlockFilled'
    BY <1>3, <2>2, <2>4 DEF PartialExact, NoDataLostAtEof, RidgeBlockFilled, READ_OK, READ_EOF
  <2> QED BY <2>5, <2>6, <2>7, <2>8 DEF ReaderInv
<1> QED BY <1>1, <1>2, <1>3 DEF ReadBlockLength

\* A FED header: a FED is allocated only within the block, or the read gives up.
LEMMA FedHeaderKeeps == ASSUME ReaderInv, ReadFedHeader PROVE ReaderInv'
<1>1. pc = "fed_header"
      /\ UNCHANGED <<format_std, source, end, fedb, block_length, todo, fed_ret>>
  BY DEF ReadFedHeader
<1>2. CASE Get(FED_HEADER_LENGTH) \/ current' = current
  <2>1. current' \in 0 .. end
    BY <1>1, <1>2, BetweenFeds DEF Get, Fits, FED_HEADER_LENGTH
  <2>2. CASE (ErrOut \/ EofOut) /\ fed' = fed
    BY <1>1, <2>1, <2>2, GiveUpKeeps
  <2>3. ASSUME NEW type \in FedTypes, NEW length \in FedLengths,
               length # 0, length <= block_length, DataFits(type, length),
               heap' = Append(heap, NewFed(type, length)),
               fed' = Len(heap) + 1, pc' = FirstRead(type), ret' = ret
        PROVE  ReaderInv'
    <3> DEFINE f == NewFed(type, length)
    <3>1. f \in FedRecord /\ f.type = type /\ f.length = length /\ f.elems = 0 /\ f.live
      BY LengthAssumption DEF NewFed, FedRecord, FED_HEADER_LENGTH
    <3>2. heap' = Append(heap, f)
      BY <2>3
    <3> HIDE DEF f
    <3>3. /\ heap' \in Seq(FedRecord) /\ Len(heap') = Len(heap) + 1
          /\ DOMAIN heap' = 1 .. Len(heap) + 1
          /\ heap'[fed'] = f
          /\ \A i \in 1 .. Len(heap) : heap'[i] = heap[i]
      BY <1>1, <2>3, <3>1, <3>2, BetweenFeds, AppendProperties
    <3>4. pc' \in BodyPcs /\ pc' \in {"method", "num_cores", "data"} /\ Reads(type, pc')
      BY <2>3 DEF FirstRead, Reads, FedTypes, BodyPcs, FED_RIDGE_COUNT, FED_CORE_AND_DELTA,
                  FED_OTHER
    <3>5. List' = List
      BY <1>1 DEF List
    <3>6. TypeOK'
      BY <1>1, <2>1, <2>3, <3>3, <3>4, BetweenFeds DEF ReaderInv, TypeOK, Pcs
    <3>a. Len(heap) \in Nat /\ Len(List') = Len(heap) /\ Len(heap') = Len(heap) + 1
          /\ fed' = Len(heap) + 1
          /\ ret' = READ_OK /\ fed_ret' = READ_OK /\ ~ fedb'.partial
      BY <1>1, <2>3, <3>3, <3>5, BetweenFeds
    <3>7. LoopInv'
      BY <3>4, <3>a DEF LoopInv
    <3>8. FedInv' /\ RidgeInv'
      BY <1>1, <2>3, <3>1, <3>3, <3>4 DEF FedInv, RidgeInv
    <3>9. OwnedOnce'
      <4>1. (\A i \in DOMAIN List' : List'[i] = i) /\ Len(heap') - Len(List') \in {0, 1}
        BY <1>1, <3>5, <3>a, BetweenFeds
      <4>2. \A i \in DOMAIN heap' : heap'[i].live
        BY <1>1, <2>3, <3>1, <3>3, BetweenFeds
      <4> QED BY <4>1, <4>2 DEF OwnedOnce
    <3>10. PartialExact' /\ NoDataLostAtEof'
      BY <1>1, <3>4, BetweenFeds DEF PartialExact, NoDataLostAtEof, BodyPcs
    <3>11. RidgeBlockFilled'
      BY <1>1, <3>3, <3>5, BetweenFeds
      DEF ReaderInv, RidgeBlockFilled, Complete, Contains, HoldsItsCounts
    <3> QED BY <3>6, <3>7, <3>8, <3>9, <3>10, <3>11 DEF ReaderInv
  <2> QED BY <2>2, <2>3 DEF ReadFedHeader
<1> QED BY <1>2 DEF ReadFedHeader, GetFails

\* What ReaderInv says when internal_read_fed returns: all but fed is listed.
LEMMA AtFedReturn ==
  ASSUME ReaderInv, pc = "fed_return"
  PROVE  /\ heap \in Seq(FedRecord) /\ DOMAIN heap = 1 .. Len(heap)
         /\ fed = Len(heap) /\ fed \in 1 .. Len(heap) /\ fed \in Nat
         /\ heap[fed] \in FedRecord
         /\ fedb \in FedbRecord /\ List \in Seq(Nat) /\ Len(List) = fed - 1
         /\ DOMAIN List = 1 .. fed - 1
         /\ \A i \in DOMAIN List : List[i] = i
         /\ ret = READ_OK /\ ~ fedb.partial
         /\ \A i \in DOMAIN heap : heap[i].live
         /\ heap[fed].length \in Nat /\ heap[fed].length <= block_length
         /\ block_length \in USHORT
<1>1. pc \in InFed /\ pc # "done"
  BY DEF InFed
<1>2. heap \in Seq(FedRecord) /\ Len(heap) \in Nat /\ DOMAIN heap = 1 .. Len(heap)
      /\ fedb \in FedbRecord /\ block_length \in USHORT
  BY DEF ReaderInv, TypeOK
<1>3. fed = Len(heap) /\ fed # 0 /\ Len(List) = fed - 1 /\ ret = READ_OK /\ ~ fedb.partial
  BY <1>1 DEF ReaderInv, LoopInv
<1>4. List \in Seq(Nat) /\ DOMAIN List = 1 .. Len(List)
  BY <1>2 DEF FedbRecord, List
<1>5. (\A i \in DOMAIN List : List[i] = i) /\ (\A i \in DOMAIN heap : heap[i].live)
  BY <1>3 DEF ReaderInv, OwnedOnce, READ_OK, READ_ERROR
<1>6. heap[fed] \in FedRecord /\ heap[fed].length <= block_length
  BY <1>1, <1>2, <1>3 DEF ReaderInv, FedInv
<1>7. heap[fed].length \in Nat
  BY <1>6 DEF FedRecord, USHORT
<1> QED BY <1>2, <1>3, <1>4, <1>5, <1>6, <1>7

\* What FinishFed and err_out may do to the FED in hand.
LEMMA MarkedHeap ==
  ASSUME ReaderInv, pc = "fed_return", NEW partial \in BOOLEAN,
         NEW m, m = [heap EXCEPT ![fed] = [heap[fed] EXCEPT !.partial = partial]],
         NEW h, h = m \/ h = Freed(m)
  PROVE  /\ h \in Seq(FedRecord) /\ Len(h) = Len(heap) /\ DOMAIN h = 1 .. Len(heap)
         /\ \A i \in 1 .. Len(heap) :
              /\ h[i].type = heap[i].type
              /\ h[i].length = heap[i].length
              /\ h[i].elems = heap[i].elems
              /\ h[i].bytes = heap[i].bytes
              /\ i # fed => h[i].live
         /\ m[fed].live
<1> DEFINE f == [heap[fed] EXCEPT !.partial = partial]
           g == [f EXCEPT !.live = FALSE]
<1>1. /\ f \in FedRecord /\ f.type = heap[fed].type /\ f.length = heap[fed].length
      /\ f.elems = heap[fed].elems /\ f.bytes = heap[fed].bytes /\ f.live = heap[fed].live
  BY AtFedReturn DEF FedRecord
<1>2. m = [heap EXCEPT ![fed] = f]
  OBVIOUS
<1> HIDE DEF f
<1>3. /\ m \in Seq(FedRecord) /\ Len(m) = Len(heap) /\ m[fed] = f
      /\ \A i \in 1 .. Len(heap) : i # fed => m[i] = heap[i]
  <2>1. heap \in Seq(FedRecord) /\ fed \in 1 .. Len(heap)
    BY AtFedReturn
  <2> QED BY ONLY <1>1, <1>2, <2>1, ExceptSeq
<1>4. CASE h = m
  BY <1>1, <1>3, <1>4, AtFedReturn
<1>5. CASE h = Freed(m)
  <2>1. /\ g \in FedRecord /\ g.type = f.type /\ g.length = f.length /\ g.elems = f.elems
        /\ g.bytes = f.bytes
    BY <1>1 DEF FedRecord
  <2>2. h = [m EXCEPT ![fed] = g]
    BY <1>3, <1>5 DEF Freed
  <2> HIDE DEF g
  <2>3. /\ h \in Seq(FedRecord) /\ Len(h) = Len(m) /\ h[fed] = g
        /\ \A i \in 1 .. Len(m) : i # fed => h[i] = m[i]
    BY <1>3, <2>1, <2>2, AtFedReturn, ExceptSeq
  <2>4. \A i \in 1 .. Len(heap) :
           /\ h[i].type = heap[i].type
           /\ h[i].length = heap[i].length
           /\ h[i].elems = heap[i].elems
           /\ h[i].bytes = heap[i].bytes
    BY <1>1, <1>3, <2>1, <2>3
  <2>5. \A i \in 1 .. Len(heap) : i # fed => h[i].live
    BY <1>3, <2>3, AtFedReturn
  <2>6. m[fed].live
    BY <1>1, <1>3, AtFedReturn
  <2> QED BY <1>3, <2>3, <2>4, <2>5, <2>6, AtFedReturn
<1> QED BY <1>4, <1>5

\* internal_read_fed has returned: the FED is listed, left alone, or freed.
LEMMA FinishFedKeeps == ASSUME ReaderInv, FinishFed PROVE ReaderInv'
<1> DEFINE partial == heap[fed].elems > 0
           m    == [heap EXCEPT ![fed] = [heap[fed] EXCEPT !.partial = partial]]
           list == Append(fedb.extended_data, fed)
<1>1. pc = "fed_return" /\ pc \in InFed
      /\ UNCHANGED <<format_std, source, end, current, fed, todo, fed_ret>>
  BY DEF FinishFed, InFed
<1>2. partial \in BOOLEAN
  OBVIOUS
<1>3. heap' = m \/ heap' = Freed(m)
  BY DEF FinishFed, HasElements
<1> HIDE DEF partial
<1>4. /\ heap' \in Seq(FedRecord) /\ Len(heap') = Len(heap) /\ DOMAIN heap' = 1 .. Len(heap)
      /\ \A i \in 1 .. Len(heap) :
           /\ heap'[i].type = heap[i].type
           /\ heap'[i].length = heap[i].length
           /\ heap'[i].elems = heap[i].elems
           /\ heap'[i].bytes = heap[i].bytes
           /\ i # fed => heap'[i].live
      /\ m[fed].live
  BY <1>1, <1>2, <1>3, MarkedHeap
<1>5. /\ list \in Seq(Nat) /\ Len(list) = fed /\ DOMAIN list = 1 .. fed
      /\ \A i \in 1 .. fed : list[i] = i
  BY <1>1, AtFedReturn, AppendProperties DEF List
<1> HIDE DEF m, list
<1>6. CASE /\ fed_ret = READ_OK /\ heap' = m
           /\ fedb' = [fedb EXCEPT !.extended_data = list]
           /\ block_length' = block_length - heap[fed].length
           /\ IF block_length' > 0
                THEN pc' = "fed_header" /\ UNCHANGED ret
                ELSE pc' = "done" /\ ret' = READ_OK
  <2>1. fedb' \in FedbRecord /\ List' = list /\ ~ fedb'.partial
    BY <1>1, <1>5, <1>6, AtFedReturn DEF FedbRecord, List
  <2>2. block_length' \in USHORT
    <3>1. USHRT_MAX \in Nat
      BY DEF USHRT_MAX
    <3> QED BY <1>1, <1>6, <3>1, AtFedReturn DEF USHORT
  <2>3. pc' \in {"fed_header", "done"} /\ ret' = READ_OK /\ pc' \notin InFed
    BY <1>1, <1>6, AtFedReturn DEF InFed, BodyPcs
  <2>4. TypeOK'
    BY <1>1, <1>4, <2>1, <2>2, <2>3 DEF ReaderInv, TypeOK, Pcs, READ_CODES
  <2>5. LoopInv' /\ FedInv' /\ RidgeInv'
    BY <1>1, <1>4, <1>5, <1>6, <2>1, <2>3, AtFedReturn DEF LoopInv, FedInv, RidgeInv
  <2>6. OwnedOnce'
    <3>1. \A i \in DOMAIN List' : List'[i] = i
      BY <1>5, <2>1
    <3>a. Len(heap') = fed /\ Len(List') = fed /\ fed \in Nat
      BY <1>1, <1>4, <1>5, <2>1, AtFedReturn
    <3>2. \A i \in DOMAIN heap' : heap'[i].live
      BY <1>1, <1>4, <1>6, AtFedReturn
    <3> QED BY <3>1, <3>2, <3>a DEF OwnedOnce
  <2>7. PartialExact' /\ NoDataLostAtEof'
    BY <2>1, <2>3 DEF PartialExact, NoDataLostAtEof, READ_OK, READ_EOF
  <2>8. RidgeBlockFilled'
    <3> SUFFICES ASSUME NEW i \in DOMAIN heap', heap'[i].type = FED_RIDGE_COUNT,
                        Complete(i)', heap'[i].length - FED_HEADER_LENGTH - 1 <= SHRT_MAX
                 PROVE  HoldsItsCounts(heap[i])
      BY <1>1, <1>4, AtFedReturn DEF RidgeBlockFilled, HoldsItsCounts
    <3>1. CASE i = fed
      BY <1>1, <1>4, <1>6, <3>1 DEF ReaderInv, RidgeInv
    <3>2. CASE i # fed
      <4>1. i \in DOMAIN List /\ List[i] = i
        BY <1>1, <1>4, <3>2, AtFedReturn
      <4>2. Complete(i)
        BY <1>1, <4>1, AtFedReturn DEF Complete, Contains
      <4> QED BY <1>1, <1>4, <4>2, AtFedReturn DEF ReaderInv, RidgeBlockFilled
    <3> QED BY <3>1, <3>2
  <2> QED BY <2>4, <2>5, <2>6, <2>7, <2>8 DEF ReaderInv
<1>7. CASE /\ fed_ret = READ_EOF /\ heap' = m
           /\ fedb' = IF partial
                        THEN [fedb EXCEPT !.extended_data = list, !.partial = TRUE]
                        ELSE fedb
           /\ pc' = "done" /\ ret' = READ_EOF
           /\ UNCHANGED block_length
  <2>1. fedb' \in FedbRecord /\ fedb'.partial = partial /\ List' = IF partial THEN list ELSE List
    BY <1>1, <1>2, <1>5, <1>7, AtFedReturn DEF FedbRecord, List
  <2>2. pc' = "done" /\ ret' = READ_EOF /\ fed' = fed /\ fed_ret' = READ_EOF
    BY <1>1, <1>7
  <2>3. \A i \in 1 .. Len(heap) : heap'[i].live
    BY <1>1, <1>4, <1>7, AtFedReturn
  <2>4. TypeOK'
    BY <1>1, <1>4, <1>7, <2>1 DEF ReaderInv, TypeOK, Pcs, READ_CODES
  <2>5. LoopInv' /\ FedInv' /\ RidgeInv'
    BY <1>1, <1>4, <2>2, AtFedReturn DEF LoopInv, FedInv, RidgeInv, InFed, BodyPcs
  <2>6. CASE partial
    <3>1. List' = list /\ fedb'.partial /\ Len(List') = fed /\ Len(heap') = fed /\ fed \in Nat
      BY <1>1, <1>4, <1>5, <2>1, <2>6, AtFedReturn
    <3>2. OwnedOnce'
      BY <1>4, <1>5, <2>3, <3>1 DEF OwnedOnce
    <3>3. heap[fed].elems > 0
      BY <2>6 DEF partial
    <3>4. PartialExact'
      BY <1>1, <1>4, <1>5, <2>2, <3>1, <3>3, AtFedReturn DEF PartialExact, Last
    <3>5. NoDataLostAtEof'
      BY <1>4, <1>5, <3>1 DEF NoDataLostAtEof, Contains
    <3>6. RidgeBlockFilled'
      <4> SUFFICES ASSUME NEW i \in DOMAIN heap', heap'[i].type = FED_RIDGE_COUNT,
                          Complete(i)', heap'[i].length - FED_HEADER_LENGTH - 1 <= SHRT_MAX
                   PROVE  HoldsItsCounts(heap[i])
        BY <1>1, <1>4, AtFedReturn DEF RidgeBlockFilled, HoldsItsCounts
      <4>1. i # fed
        BY <3>1 DEF Complete
      <4>2. i \in DOMAIN List /\ List[i] = i
        BY <1>1, <1>4, <4>1, AtFedReturn
      <4>3. Complete(i)
        BY <1>1, <4>2, AtFedReturn DEF Complete, Contains
      <4> QED BY <1>1, <1>4, <4>3, AtFedReturn DEF ReaderInv, RidgeBlockFilled
    <3> QED BY <2>4, <2>5, <3>2, <3>4, <3>5, <3>6 DEF ReaderInv
  <2>7. CASE ~ partial
    <3>1. List' = List /\ ~ fedb'.partial /\ Len(List') = fed - 1 /\ Len(heap') = fed
          /\ fed \in Nat
      BY <1>1, <1>4, <2>1, <2>7, AtFedReturn
    <3>2. OwnedOnce'
      <4>1. \A i \in DOMAIN List' : List'[i] = i
        BY <1>1, <3>1, AtFedReturn
      <4> QED BY <1>4, <2>3, <3>1, <4>1 DEF OwnedOnce
    <3>3. ~ (heap'[fed].elems > 0)
      BY <1>1, <1>4, <2>7, AtFedReturn DEF partial
    <3>4. PartialExact'
      BY <2>2, <3>1, <3>3 DEF PartialExact
    <3>5. NoDataLostAtEof'
      <4> SUFFICES ASSUME NEW i \in DOMAIN heap', heap'[i].elems > 0
                   PROVE  Contains(List', i)
        BY DEF NoDataLostAtEof, Contains
      <4>1. i \in DOMAIN List /\ List[i] = i
        BY <1>1, <1>4, <3>3, AtFedReturn
      <4> QED BY <1>1, <3>1, <4>1, AtFedReturn DEF Contains
    <3>6. RidgeBlockFilled'
      BY <1>1, <1>4, <3>1, AtFedReturn
      DEF ReaderInv, RidgeBlockFilled, Complete, HoldsItsCounts
    <3> QED BY <2>4, <2>5, <3>2, <3>4, <3>5, <3>6 DEF ReaderInv
  <2> QED BY <2>6, <2>7
<1>8. CASE /\ fed_ret = READ_ERROR /\ heap' = Freed(m)
           /\ pc' = "done" /\ ret' = READ_ERROR
           /\ UNCHANGED <<fedb, block_length>>
  <2>1. List' = List /\ fedb' = fedb /\ fed' = fed /\ ~ fedb.partial /\ fed \in Nat
        /\ Len(List') = fed - 1 /\ Len(heap') = fed
    BY <1>1, <1>4, <1>8, AtFedReturn DEF List
  <2>2. TypeOK'
    BY <1>1, <1>4, <1>8 DEF ReaderInv, TypeOK, Pcs, READ_CODES
  <2>3. LoopInv' /\ FedInv' /\ RidgeInv'
    BY <1>1, <1>4, <1>8, AtFedReturn DEF LoopInv, FedInv, RidgeInv, InFed, BodyPcs
  <2>4. OwnedOnce'
    <3>1. \A i \in DOMAIN List' : List'[i] = i
      BY <1>1, <2>1, AtFedReturn
    <3>2. \A i \in DOMAIN heap' : ~ heap'[i].live => ret' = READ_ERROR /\ i = Len(heap')
      BY <1>4, <1>8, <2>1
    <3> QED BY <2>1, <3>1, <3>2 DEF OwnedOnce
  <2>5. PartialExact' /\ NoDataLostAtEof'
    BY <1>8, <2>1 DEF PartialExact, NoDataLostAtEof, READ_ERROR, READ_EOF
  <2>6. RidgeBlockFilled'
    BY <1>1, <1>4, <2>1, AtFedReturn
    DEF ReaderInv, RidgeBlockFilled, Complete, HoldsItsCounts
  <2> QED BY <2>2, <2>3, <2>4, <2>5, <2>6 DEF ReaderInv
<1> QED BY <1>6, <1>7, <1>8 DEF FinishFed, HasElements, partial, m, list

-----------------------------------------------------------------------------
(***************************************************************************)
(* ReaderInv is inductive.                                                 *)
(***************************************************************************)

\* A block that nothing has been read of: before the read, and with "done"
\* for a reader that waits for a record reader to start it.
Fresh ==
  /\ format_std \in Formats /\ source \in Sources
  /\ end \in Nat /\ current \in 0 .. end
  /\ pc \in {"block_length", "done"}
  /\ fedb = EmptyFedb /\ block_length = 0
  /\ fed = 0 /\ heap = <<>> /\ todo = 0
  /\ fed_ret = READ_OK /\ ret = READ_OK

\* It has the invariant.
LEMMA FreshReaderInv == Fresh => ReaderInv
<1> SUFFICES ASSUME Fresh PROVE ReaderInv
  OBVIOUS
<1>1. fedb \in FedbRecord /\ List = <<>> /\ ~ fedb.partial
  <2>1. 0 \in USHORT
    <3>1. USHRT_MAX \in Nat
      BY DEF USHRT_MAX
    <3> QED BY <3>1 DEF USHORT
  <2> QED BY <2>1 DEF Fresh, EmptyFedb, FedbRecord, List
<1>2. block_length \in USHORT
  BY <1>1 DEF Fresh, EmptyFedb, FedbRecord
<1>3. TypeOK
  BY <1>1, <1>2 DEF Fresh, TypeOK, Pcs, READ_CODES
<1>4. LoopInv /\ FedInv /\ RidgeInv
  BY <1>1 DEF Fresh, LoopInv, FedInv, RidgeInv, InFed, BodyPcs
<1>5. OwnedOnce /\ PartialExact /\ NoDataLostAtEof /\ RidgeBlockFilled
  BY <1>1 DEF Fresh, OwnedOnce, PartialExact, NoDataLostAtEof, RidgeBlockFilled,
              READ_OK, READ_EOF
<1> QED BY <1>3, <1>4, <1>5 DEF ReaderInv

\* So have the initial states.
LEMMA InitReaderInv == Init => ReaderInv
<1>1. Init => Fresh
  BY EndAssumption DEF Init, Fresh
<1> QED BY <1>1, FreshReaderInv

\* A step that does not touch the block keeps the invariant, also one in
\* which somebody else reads from the source.
LEMMA OthersKeep ==
  ASSUME ReaderInv, current' \in 0 .. end,
         UNCHANGED <<format_std, source, end, pc, fedb, block_length, fed, heap, todo,
                     fed_ret, ret>>
  PROVE  ReaderInv'
<1>1. List' = List /\ (\A i : Complete(i)' <=> Complete(i))
  BY DEF List, Complete
<1>2. TypeOK' /\ LoopInv' /\ FedInv' /\ RidgeInv'
  BY <1>1 DEF ReaderInv, TypeOK, LoopInv, FedInv, RidgeInv, HoldsItsCounts
<1>3. OwnedOnce' /\ PartialExact' /\ NoDataLostAtEof' /\ RidgeBlockFilled'
  BY <1>1 DEF ReaderInv, OwnedOnce, PartialExact, NoDataLostAtEof, RidgeBlockFilled,
              HoldsItsCounts
<1> QED BY <1>2, <1>3 DEF ReaderInv

\* So does every step of the reader.
LEMMA NextKeepsReaderInv == ReaderInv /\ [Next]_vars => ReaderInv'
<1> SUFFICES ASSUME ReaderInv, [Next]_vars PROVE ReaderInv'
  OBVIOUS
<1>1. CASE ReadBlockLength
  BY <1>1, BlockLengthKeeps
<1>2. CASE ReadFedHeader
  BY <1>2, FedHeaderKeeps
<1>3. CASE ReadRidgeMethod
  BY <1>3, RidgeMethodKeeps
<1>4. CASE ReadRidgeCount
  BY <1>4, RidgeCountKeeps
<1>5. CASE ReadNumCores \/ ReadCore \/ ReadNumDeltas \/ ReadDelta
  BY <1>5, CoreDeltaKeeps
<1>6. CASE ReadData
  BY <1>6, DataKeeps
<1>7. CASE FinishFed
  BY <1>7, FinishFedKeeps
<1>8. CASE UNCHANGED vars
  <2>1. current' \in 0 .. end
    BY <1>8 DEF vars, ReaderInv, TypeOK
  <2> QED BY <1>8, <2>1, OthersKeep DEF vars
<1> QED BY <1>1, <1>2, <1>3, <1>4, <1>5, <1>6, <1>7, <1>8 DEF Next

\* ReaderInv is an invariant of the reader.
LEMMA Inductive == Spec => []ReaderInv
  BY InitReaderInv, NextKeepsReaderInv, PTL DEF Spec

-----------------------------------------------------------------------------
(***************************************************************************)
(* The theorems.                                                           *)
(***************************************************************************)

\* internal_read_fedb keeps its cursor inside the source and its 16-bit
\* count of the bytes left in range, whatever the wire holds.
THEOREM TypesAreKept == Spec => []TypeOK
<1>1. ReaderInv => TypeOK
  BY DEF ReaderInv
<1> QED BY <1>1, Inductive, PTL

\* Every FED new_fed returns is on the list once and in wire order, or in
\* hand; only a failure frees one, and only the last one allocated.
THEOREM EveryFedOwnedOnce == Spec => []OwnedOnce
<1>1. ReaderInv => OwnedOnce
  BY DEF ReaderInv
<1> QED BY <1>1, Inductive, PTL

\* No FED that holds an element is lost at the end of the source.
THEOREM EofLosesNoElements == Spec => []NoDataLostAtEof
<1>1. ReaderInv => NoDataLostAtEof
  BY DEF ReaderInv
<1> QED BY <1>1, Inductive, PTL

\* fedb->partial is set exactly when the end of the source cut the last FED
\* of the list.
THEOREM PartialIsExact == Spec => []PartialExact
<1>1. ReaderInv => PartialExact
  BY DEF ReaderInv
<1> QED BY <1>1, Inductive, PTL

\* A ridge count FED that was read to its end holds as many counts as fill
\* the length it declares, for every length that a short can hold.
THEOREM RidgeBlocksAreFilled == Spec => []RidgeBlockFilled
<1>1. ReaderInv => RidgeBlockFilled
  BY DEF ReaderInv
<1> QED BY <1>1, Inductive, PTL

-----------------------------------------------------------------------------
(***************************************************************************)
(* The list only grows, and what is on it stays as it is.                  *)
(***************************************************************************)
ListedKept == \A i \in DOMAIN List : Contents(heap'[List[i]]) = Contents(heap[List[i]])

\* A list is a prefix of itself and of itself with one more element.
LEMMA AppendExtends ==
  ASSUME NEW s \in Seq(Nat), NEW e \in Nat
  PROVE  IsPrefix(s, s) /\ IsPrefix(s, Append(s, e))
<1> DEFINE t == Append(s, e)
<1>1. /\ t \in Seq(Nat) /\ Len(t) = Len(s) + 1 /\ Len(s) \in Nat
      /\ \A i \in 1 .. Len(s) : t[i] = s[i]
  BY AppendProperties, LenProperties
<1> HIDE DEF t
<1>2. SubSeq(t, 1, Len(s)) = SubSeq(s, 1, Len(s))
  BY <1>1, SubSeqProperties, SeqEqual
<1> QED BY <1>1, <1>2 DEF IsPrefix, t

\* A step of a body touches the FED in hand, which is not on the list.
LEMMA BodyLeavesList ==
  ASSUME ReaderInv, pc \in BodyPcs, BodyFrame,
         \/ heap' = heap
         \/ \E f : heap' = [heap EXCEPT ![fed] = f]
  PROVE  List' = List /\ ListedKept
<1>1. fed = Len(heap) /\ Len(List) = fed - 1 /\ heap \in Seq(FedRecord) /\ Len(heap) \in Nat
      /\ DOMAIN heap = 1 .. Len(heap) /\ fedb \in FedbRecord
  BY DEF ReaderInv, LoopInv, TypeOK, BodyPcs, InFed
<1>2. \A i \in DOMAIN List : List[i] = i /\ i \in DOMAIN heap /\ i # fed
  BY <1>1 DEF ReaderInv, OwnedOnce, FedbRecord, List
<1>3. \A i \in DOMAIN heap : i # fed => heap'[i] = heap[i]
  OBVIOUS
<1> QED BY <1>2, <1>3 DEF ListedKept, BodyFrame, List

\* Every step leaves the FEDs on the list as they are and the list a prefix.
LEMMA StepsLeaveList ==
  ASSUME ReaderInv, Next
  PROVE  ListedKept /\ (List' = List \/ List' = Append(List, fed))
<1>1. CASE ReadBlockLength
  <2>1. pc = "block_length" /\ fed = 0
    BY <1>1 DEF ReadBlockLength, ReaderInv, LoopInv
  <2>2. Len(List) = 0 /\ DOMAIN List = {}
    BY <2>1, BetweenFeds
  <2>3. fedb \in FedbRecord /\ (fedb' = fedb \/ \E n : fedb' = [fedb EXCEPT !.block_length = n])
    BY <1>1, <2>1, BetweenFeds DEF ReadBlockLength
  <2>4. List' = List
    BY <2>3 DEF List, FedbRecord
  <2> QED BY <2>2, <2>4 DEF ListedKept
<1>2. CASE ReadFedHeader
  <2>1. pc = "fed_header" /\ fedb' = fedb /\ List' = List
    BY <1>2 DEF ReadFedHeader, List
  <2>2. \A i \in DOMAIN List : List[i] = i /\ i \in 1 .. Len(heap)
    BY <2>1, BetweenFeds
  <2>3. CASE heap' = heap
    BY <2>1, <2>3 DEF ListedKept
  <2>4. CASE fed # 0 /\ heap' = Freed(heap)
    <3> DEFINE f == [heap[fed] EXCEPT !.live = FALSE]
    <3>1. fed \in 1 .. Len(heap) /\ heap[fed] \in FedRecord
      BY <2>1, <2>4, BetweenFeds
    <3>2. f \in FedRecord /\ Contents(f) = Contents(heap[fed])
      BY <3>1 DEF FedRecord, Contents
    <3>3. heap' = [heap EXCEPT ![fed] = f]
      BY <2>4 DEF Freed
    <3> HIDE DEF f
    <3>4. heap'[fed] = f /\ \A j \in 1 .. Len(heap) : j # fed => heap'[j] = heap[j]
      BY <2>1, <3>1, <3>2, <3>3, BetweenFeds, HeapExcept
    <3> QED BY <2>1, <2>2, <3>2, <3>4 DEF ListedKept
  <2>5. CASE \E f : heap' = Append(heap, f) /\ f \in FedRecord
    <3>1. \A j \in 1 .. Len(heap) : heap'[j] = heap[j]
      BY <2>1, <2>5, BetweenFeds, AppendProperties
    <3> QED BY <2>1, <2>2, <3>1 DEF ListedKept
  <2>6. \A type \in FedTypes, length \in FedLengths : NewFed(type, length) \in FedRecord
    BY LengthAssumption DEF NewFed, FedRecord, FED_HEADER_LENGTH
  <2> QED BY <1>2, <2>3, <2>4, <2>5, <2>6 DEF ReadFedHeader, ErrOut, EofOut
<1>3. CASE ReadRidgeMethod
  BY <1>3, BodyLeavesList
  DEF ReadRidgeMethod, BodyPcs, BodyFails, Consumed
<1>4. CASE ReadRidgeCount
  BY <1>4, BodyLeavesList
  DEF ReadRidgeCount, BodyPcs, BodyFails, AllocFailsInBody, Linked
<1>5. CASE ReadNumCores \/ ReadNumDeltas
  BY <1>5, BodyLeavesList
  DEF ReadNumCores, ReadNumDeltas, BodyPcs, BodyFails, Typed
<1>6. CASE ReadCore \/ ReadDelta
  BY <1>6, BodyLeavesList
  DEF ReadCore, ReadDelta, BodyPcs, BodyFails, AllocFailsInBody, Linked
<1>7. CASE ReadData
  BY <1>7, BodyLeavesList DEF ReadData, BodyPcs, BodyFails, Consumed
<1>8. CASE FinishFed
  <2>1. pc = "fed_return"
    BY <1>8 DEF FinishFed
  <2>2. \A i \in DOMAIN List : List[i] = i /\ i \in DOMAIN heap /\ i # fed
    BY <2>1, AtFedReturn
  <2>3. \A i \in DOMAIN heap : i # fed => heap'[i] = heap[i]
    BY <1>8 DEF FinishFed, Freed
  <2>4. List' = List \/ List' = Append(List, fed)
    <3>1. fedb \in FedbRecord
      BY <2>1, AtFedReturn
    <3> QED BY <1>8, <3>1 DEF FinishFed, List, FedbRecord
  <2> QED BY <2>2, <2>3, <2>4 DEF ListedKept
<1> QED BY <1>1, <1>2, <1>3, <1>4, <1>5, <1>6, <1>7, <1>8 DEF Next

\* The list of a FEDB grows only at its tail, and the contents of a FED that
\* is on it never change again.
THEOREM ListedNeverChanges == Spec => ListedFedsFrozen
<1>1. ASSUME ReaderInv, [Next]_vars
      PROVE  [/\ IsPrefix(List, List')
              /\ \A i \in DOMAIN List :
                   Contents(heap'[List[i]]) = Contents(heap[List[i]])]_vars
  <2>1. List \in Seq(Nat) /\ fed \in Nat
    BY <1>1 DEF ReaderInv, TypeOK, FedbRecord, List
  <2>2. CASE Next
    BY <1>1, <2>1, <2>2, StepsLeaveList, AppendExtends DEF ListedKept
  <2>3. CASE UNCHANGED vars
    BY <2>3
  <2> QED BY <1>1, <2>2, <2>3
<1> QED BY <1>1, Inductive, PTL DEF Spec, ListedFedsFrozen

-----------------------------------------------------------------------------
(***************************************************************************)
(* The bytes of the block.                                                 *)
(*                                                                         *)
(* BlockAccounted speaks of lengths that FEDs declare; the cursor moves by *)
(* the bytes that are read.  Accounted keeps both sums in step: a block    *)
(* that starts at byte `start' has been read up to the bytes of the listed *)
(* FEDs and of the one in hand.                                            *)
(***************************************************************************)
\* What a FED read to its end holds, whatever length it declares.
Filled(f) ==
  /\ f.type = FED_OTHER => f.bytes = f.length
  /\ f.type = FED_RIDGE_COUNT =>
       f.bytes = FED_HEADER_LENGTH + 1 + RIDGE_COUNT_DATA_LENGTH * f.elems

BytesOf(list) == SumFunction([k \in DOMAIN list |-> heap[list[k]].bytes])

InHandBytes == IF pc \in InFed THEN heap[fed].bytes ELSE 0

Accounted(start) ==
  ret = READ_OK =>
    /\ \A k \in DOMAIN List : Filled(heap[k])
    /\ pc \in {"method", "data"} => heap[fed].bytes = FED_HEADER_LENGTH /\ heap[fed].elems = 0
    /\ pc = "rcd" => Filled(heap[fed])
    /\ pc = "fed_return" /\ fed_ret = READ_OK => Filled(heap[fed])
    /\ block_length = fedb.block_length - LengthOf(List)
    /\ pc = "done" => block_length = 0
    /\ current = IF pc = "block_length" THEN start
                                        ELSE start + 2 + BytesOf(List) + InHandBytes

\* What is listed has been allocated.
ListedInHeap == \A k \in DOMAIN List : k \in DOMAIN heap /\ heap[k] \in FedRecord

LEMMA ListIsInHeap == ASSUME ReaderInv PROVE ListedInHeap
<1>1. List \in Seq(Nat) /\ Len(List) \in Nat /\ DOMAIN List = 1 .. Len(List)
  BY DEF ReaderInv, TypeOK, FedbRecord, List
<1>2. heap \in Seq(FedRecord) /\ Len(heap) \in Nat /\ DOMAIN heap = 1 .. Len(heap)
  BY DEF ReaderInv, TypeOK
<1>3. Len(heap) - Len(List) \in {0, 1}
  BY DEF ReaderInv, OwnedOnce
<1> DEFINE m == Len(heap)
           n == Len(List)
<1>4. m \in Nat /\ n \in Nat /\ m - n \in {0, 1}
  BY <1>1, <1>2, <1>3
<1> HIDE DEF m, n
<1>5. \A k \in 1 .. n : k \in 1 .. m
  BY ONLY <1>4
<1>6. \A k \in 1 .. Len(List) : k \in 1 .. Len(heap)
  BY <1>5 DEF m, n
<1>7. \A k \in 1 .. Len(heap) : heap[k] \in FedRecord
  BY <1>2, ElementOfSeq
<1> QED BY <1>1, <1>2, <1>6, <1>7 DEF ListedInHeap

\* The sums over the list are numbers.
LEMMA ListSums ==
  ASSUME ReaderInv
  PROVE  LengthOf(List) \in Nat /\ BytesOf(List) \in Nat
<1>1. List \in Seq(Nat) /\ Len(List) \in Nat /\ DOMAIN List = 1 .. Len(List)
  BY DEF ReaderInv, TypeOK, FedbRecord, List
<1>3. \A k \in DOMAIN List : List[k] = k
  BY DEF ReaderInv, OwnedOnce
<1>4. \A k \in 1 .. Len(List) : heap[List[k]] \in FedRecord
  BY <1>1, <1>3, ListIsInHeap DEF ListedInHeap
<1>5. \A f \in FedRecord : f.length \in Nat /\ f.bytes \in Nat
  <2>1. USHORT \subseteq Nat
    BY DEF USHORT
  <2> QED BY <2>1 DEF FedRecord
<1> DEFINE v == [k \in DOMAIN List |-> heap[List[k]].length]
           w == [k \in DOMAIN List |-> heap[List[k]].bytes]
<1>6. /\ DOMAIN v = 1 .. Len(List) /\ \A k \in 1 .. Len(List) : v[k] \in Nat
      /\ DOMAIN w = 1 .. Len(List) /\ \A k \in 1 .. Len(List) : w[k] \in Nat
  BY <1>1, <1>4, <1>5
<1>7. LengthOf(List) = SumFunction(v) /\ BytesOf(List) = SumFunction(w)
  BY DEF LengthOf, BytesOf
<1> HIDE DEF v, w
<1> QED BY <1>1, <1>6, <1>7, SumType

\* The sums over the list stay while the listed FEDs do.
LEMMA SumsStay ==
  ASSUME ReaderInv, List' = List,
         \A k \in DOMAIN List : /\ heap'[k].length = heap[k].length
                                /\ heap'[k].bytes = heap[k].bytes
  PROVE  LengthOf(List)' = LengthOf(List) /\ BytesOf(List)' = BytesOf(List)
<1>1. \A k \in DOMAIN List : List[k] = k
  BY DEF ReaderInv, OwnedOnce
<1> QED BY <1>1 DEF LengthOf, BytesOf

\* A step inside a FED: n bytes more of the source, and of the FED in hand.
LEMMA BodyAccounts ==
  ASSUME NEW start \in Nat, ReaderInv, Accounted(start), pc \in BodyPcs, BodyFrame,
         pc' \in InFed \ {"method", "data"},
         NEW n \in Nat, current' = current + n,
         NEW f \in FedRecord, heap' = [heap EXCEPT ![fed] = f],
         f.length = heap[fed].length, f.bytes = heap[fed].bytes + n,
         pc' = "rcd" => Filled(f),
         pc' = "fed_return" /\ fed_ret' = READ_OK => Filled(f)
  PROVE  Accounted(start)'
<1>1. /\ pc \in InFed /\ fed' = fed /\ fedb' = fedb /\ List' = List
      /\ block_length' = block_length /\ ret = READ_OK /\ ret' = READ_OK
  BY DEF BodyFrame, BodyPcs, InFed, List, ReaderInv, LoopInv
<1>2. /\ heap \in Seq(FedRecord) /\ fed \in 1 .. Len(heap) /\ heap[fed] \in FedRecord
      /\ fed = Len(heap) /\ Len(List) = fed - 1 /\ DOMAIN List = 1 .. Len(List)
      /\ current \in Nat
  <2>1. DOMAIN List = 1 .. Len(List)
    BY DEF ReaderInv, TypeOK, FedbRecord, List
  <2>2. fed = Len(heap) /\ Len(List) = fed - 1
    BY <1>1 DEF ReaderInv, LoopInv
  <2> QED BY <1>1, <2>1, <2>2, InHand
<1>3. heap'[fed] = f /\ \A j \in DOMAIN List : heap'[j] = heap[j]
  BY <1>2
<1>4. LengthOf(List)' = LengthOf(List) /\ BytesOf(List)' = BytesOf(List)
  BY <1>1, <1>3, SumsStay
<1>5. BytesOf(List) \in Nat /\ heap[fed].bytes \in Nat
  BY <1>2, ListSums DEF FedRecord
<1>6. current' = start + 2 + BytesOf(List)' + InHandBytes'
  <2>1. current = start + 2 + BytesOf(List) + heap[fed].bytes
    BY <1>1 DEF Accounted, InHandBytes, BodyPcs
  <2>2. InHandBytes' = heap[fed].bytes + n
    BY <1>1, <1>3 DEF InHandBytes
  <2> QED BY <1>4, <1>5, <2>1, <2>2
<1>7. pc' # "block_length" /\ pc' # "done"
  BY DEF InFed, BodyPcs
<1>8. \A k \in DOMAIN List' : Filled(heap[k]')
  BY <1>1, <1>3 DEF Accounted
<1>9. /\ pc' = "rcd" => Filled(heap[fed]')
      /\ pc' = "fed_return" /\ fed_ret' = READ_OK => Filled(heap[fed]')
  BY <1>1, <1>3
<1>10. block_length' = fedb'.block_length - LengthOf(List)'
  BY <1>1, <1>4 DEF Accounted
<1> QED BY <1>6, <1>7, <1>8, <1>9, <1>10 DEF Accounted

\* A read inside a FED that fails.
LEMMA FailureAccounts ==
  ASSUME NEW start \in Nat, ReaderInv, Accounted(start), pc \in BodyPcs, BodyFrame,
         NEW n \in Nat, BodyFails(n) \/ AllocFailsInBody
  PROVE  Accounted(start)'
<1>1. pc' = "fed_return" /\ fed_ret' # READ_OK /\ current' = current /\ heap' = heap
  BY DEF BodyFails, AllocFailsInBody, GetFails, FedReturns, READ_OK, READ_EOF, READ_ERROR
<1>2. pc \in InFed
  BY DEF InFed
<1>3. heap[fed] \in FedRecord /\ heap \in Seq(FedRecord) /\ current \in Nat
  BY <1>2, InHand
<1>4. heap' = [heap EXCEPT ![fed] = heap[fed]] /\ current' = current + 0
      /\ heap[fed].bytes = heap[fed].bytes + 0
  BY <1>1, <1>3 DEF FedRecord
<1>5. pc' \in InFed \ {"method", "data"}
  BY <1>1 DEF InFed, BodyPcs
<1> QED BY <1>1, <1>3, <1>4, <1>5, BodyAccounts

(***************************************************************************)
(* The end of the reader without READ_OK: nothing is claimed of the bytes. *)
(***************************************************************************)
LEMMA GiveUpAccounts ==
  ASSUME NEW start \in Nat, ret' # READ_OK
  PROVE  Accounted(start)'
  BY DEF Accounted

\* internal_read_fedb, the length of the block: nothing of it is listed yet.
LEMMA BlockLengthAccounts ==
  ASSUME NEW start \in Nat, ReaderInv, Accounted(start), ReadBlockLength
  PROVE  Accounted(start)'
<1>1. CASE EofOut \/ ErrOut
  BY <1>1, GiveUpAccounts DEF EofOut, ErrOut, READ_OK, READ_EOF, READ_ERROR
<1>2. ASSUME NEW n \in BlockLengths, Get(2),
             fedb' = [fedb EXCEPT !.block_length = n], block_length' = n,
             IF n = 0 THEN pc' = "done" /\ ret' = READ_OK
                      ELSE pc' = "fed_header" /\ UNCHANGED ret,
             UNCHANGED heap
      PROVE  Accounted(start)'
  <2>b. fedb \in FedbRecord /\ List \in Seq(Nat) /\ DOMAIN List = 1 .. Len(List)
    BY DEF ReaderInv, TypeOK, FedbRecord, List
  <2>1. fedb \in FedbRecord /\ Len(List) = 0 /\ DOMAIN List = 1 .. 0
    BY <2>b DEF ReadBlockLength, ReaderInv, LoopInv
  <2>a. n \in Int
    BY LengthAssumption DEF USHORT
  <2>2. LengthOf(List) = 0 /\ BytesOf(List) = 0
    <3> DEFINE v == [k \in DOMAIN List |-> heap[List[k]].length]
               w == [k \in DOMAIN List |-> heap[List[k]].bytes]
    <3>1. DOMAIN v = 1 .. 0 /\ DOMAIN w = 1 .. 0
      BY <2>1
    <3>2. LengthOf(List) = SumFunction(v) /\ BytesOf(List) = SumFunction(w)
      BY DEF LengthOf, BytesOf
    <3> HIDE DEF v, w
    <3> QED BY <3>1, <3>2, SumType
  <2>3. fedb'.block_length = n /\ List' = List
    BY <1>2, <2>1 DEF FedbRecord, List
  <2>4. LengthOf(List)' = 0 /\ BytesOf(List)' = 0
    BY <1>2, <2>2, <2>3 DEF LengthOf, BytesOf
  <2>5. pc' \in {"done", "fed_header"} /\ (pc' = "done" => n = 0)
    BY <1>2
  <2>6. ret = READ_OK /\ current = start /\ current' = start + 2
    BY <1>2 DEF ReadBlockLength, Accounted, ReaderInv, LoopInv, Get
  <2>7. InHandBytes' = 0
    BY <2>5 DEF InHandBytes, InFed, BodyPcs
  <2>8. \A k \in DOMAIN List' : Filled(heap[k]')
    BY <2>1, <2>3
  <2> QED BY <1>2, <2>3, <2>4, <2>5, <2>6, <2>7, <2>8, <2>a DEF Accounted
<1> QED BY <1>1, <1>2 DEF ReadBlockLength

\* A FED header: the FED in hand has its four bytes.
LEMMA FedHeaderAccounts ==
  ASSUME NEW start \in Nat, ReaderInv, Accounted(start), ReadFedHeader
  PROVE  Accounted(start)'
<1>1. CASE EofOut \/ ErrOut
  BY <1>1, GiveUpAccounts DEF EofOut, ErrOut, READ_OK, READ_EOF, READ_ERROR
<1>2. ASSUME NEW type \in FedTypes, NEW length \in FedLengths,
             Get(FED_HEADER_LENGTH),
             heap' = Append(heap, NewFed(type, length)),
             fed' = Len(heap) + 1, pc' = FirstRead(type), ret' = ret
      PROVE  Accounted(start)'
  <2> DEFINE f == NewFed(type, length)
  <2>1. pc = "fed_header" /\ fedb' = fedb /\ block_length' = block_length /\ List' = List
    BY DEF ReadFedHeader, List
  <2>2. f.type = type /\ f.elems = 0 /\ f.bytes = FED_HEADER_LENGTH
    BY DEF NewFed
  <2>3. heap' = Append(heap, f)
    BY <1>2
  <2> HIDE DEF f
  <2>4. /\ heap'[fed'] = f
        /\ \A k \in DOMAIN List : heap'[k] = heap[k]
    BY <1>2, <2>1, <2>3, BetweenFeds, AppendProperties
  <2>5. LengthOf(List)' = LengthOf(List) /\ BytesOf(List)' = BytesOf(List)
    BY <2>1, <2>4, SumsStay
  <2>6. pc' \in {"method", "num_cores", "data"} /\ pc' \in InFed
    BY <1>2 DEF FirstRead, FedTypes, InFed, BodyPcs, FED_RIDGE_COUNT, FED_CORE_AND_DELTA,
                FED_OTHER
  <2>7. InHandBytes' = FED_HEADER_LENGTH
    BY <2>2, <2>4, <2>6 DEF InHandBytes
  <2>8. ret = READ_OK /\ current = start + 2 + BytesOf(List) /\ BytesOf(List) \in Nat
    <3>1. ret = READ_OK
      BY <2>1, BetweenFeds
    <3>2. InHandBytes = 0
      BY <2>1 DEF InHandBytes, InFed, BodyPcs
    <3>3. BytesOf(List) \in Nat
      BY ListSums
    <3> QED BY <2>1, <3>1, <3>2, <3>3 DEF Accounted
  <2>9. current' = start + 2 + BytesOf(List)' + InHandBytes'
    BY <1>2, <2>5, <2>7, <2>8 DEF Get, FED_HEADER_LENGTH
  <2>10. \A k \in DOMAIN List' : Filled(heap[k]')
    BY <2>1, <2>4, <2>8 DEF Accounted
  <2>11. heap'[fed'].bytes = FED_HEADER_LENGTH /\ heap'[fed'].elems = 0
    BY <2>2, <2>4
  <2>12. block_length' = fedb'.block_length - LengthOf(List)'
    BY <2>1, <2>5, <2>8 DEF Accounted
  <2>13. pc' \notin {"rcd", "fed_return", "done", "block_length"}
    BY <2>6
  <2> QED BY <2>9, <2>10, <2>11, <2>12, <2>13 DEF Accounted
<1> QED BY <1>1, <1>2 DEF ReadFedHeader

\* internal_read_rcdb, the extraction method: one byte.
LEMMA RidgeMethodAccounts ==
  ASSUME NEW start \in Nat, ReaderInv, Accounted(start), ReadRidgeMethod
  PROVE  Accounted(start)'
<1> DEFINE f == [heap[fed] EXCEPT !.bytes = @ + 1]
           body == Short(heap[fed].length - FED_HEADER_LENGTH - 1)
<1>1. pc = "method" /\ pc \in BodyPcs /\ pc \in InFed /\ BodyFrame
  BY DEF ReadRidgeMethod, BodyPcs, InFed
<1>2. CASE BodyFails(1)
  BY <1>1, <1>2, FailureAccounts
<1>3. CASE Get(1) /\ Consumed(1) /\ Loop(body, "rcd", "fed_return")
  <2>1. heap[fed] \in FedRecord /\ heap[fed].type = FED_RIDGE_COUNT
    BY <1>1, InHand DEF Reads
  <2>2. heap[fed].bytes = FED_HEADER_LENGTH /\ heap[fed].elems = 0
    BY <1>1 DEF Accounted, ReaderInv, LoopInv
  <2>3. /\ f \in FedRecord /\ f.type = FED_RIDGE_COUNT /\ f.length = heap[fed].length
        /\ f.bytes = heap[fed].bytes + 1 /\ f.elems = heap[fed].elems
    BY <2>1, FedRecordExcept DEF FedRecord
  <2>4. heap' = [heap EXCEPT ![fed] = f]
    BY <1>3 DEF Consumed
  <2> HIDE DEF f, body
  <2>5. Filled(f)
    <3>1. f.bytes = FED_HEADER_LENGTH + 1 + RIDGE_COUNT_DATA_LENGTH * f.elems
      BY <2>2, <2>3 DEF FED_HEADER_LENGTH, RIDGE_COUNT_DATA_LENGTH
    <3>2. f.type # FED_OTHER
      BY <2>3 DEF FED_RIDGE_COUNT, FED_OTHER
    <3> QED BY <3>1, <3>2 DEF Filled
  <2>6. pc' \in InFed \ {"method", "data"}
    BY <1>3 DEF Loop, FedReturns, InFed, BodyPcs
  <2>7. current' = current + 1
    BY <1>3 DEF Get
  <2> QED BY <1>1, <2>3, <2>4, <2>5, <2>6, <2>7, BodyAccounts
<1> QED BY <1>2, <1>3 DEF ReadRidgeMethod

\* internal_read_rcdb, one ridge count: three bytes.
LEMMA RidgeCountAccounts ==
  ASSUME NEW start \in Nat, ReaderInv, Accounted(start), ReadRidgeCount
  PROVE  Accounted(start)'
<1> DEFINE f == [heap[fed] EXCEPT !.bytes = @ + RIDGE_COUNT_DATA_LENGTH, !.elems = @ + 1]
<1>1. pc = "rcd" /\ pc \in BodyPcs /\ pc \in InFed /\ BodyFrame
      /\ RIDGE_COUNT_DATA_LENGTH \in Nat
  BY DEF ReadRidgeCount, BodyPcs, InFed, RIDGE_COUNT_DATA_LENGTH
<1>2. CASE BodyFails(RIDGE_COUNT_DATA_LENGTH) \/ AllocFailsInBody
  BY <1>1, <1>2, FailureAccounts
<1>3. CASE /\ Get(RIDGE_COUNT_DATA_LENGTH) /\ Linked(RIDGE_COUNT_DATA_LENGTH)
           /\ Loop(todo - RIDGE_COUNT_DATA_LENGTH, "rcd", "fed_return")
  <2>1. heap[fed] \in FedRecord /\ heap[fed].type = FED_RIDGE_COUNT
    BY <1>1, InHand DEF Reads
  <2>2. Filled(heap[fed])
    BY <1>1 DEF Accounted, ReaderInv, LoopInv
  <2>3. f \in FedRecord
    BY <1>1, <2>1, FedRecordExcept
  <2>4. /\ f.type = FED_RIDGE_COUNT /\ f.length = heap[fed].length
        /\ f.bytes = heap[fed].bytes + RIDGE_COUNT_DATA_LENGTH
        /\ f.elems = heap[fed].elems + 1 /\ heap[fed].elems \in Nat
    BY <2>1 DEF FedRecord
  <2>5. heap' = [heap EXCEPT ![fed] = f]
    BY <1>3 DEF Linked
  <2> HIDE DEF f
  <2>6. Filled(f)
    <3>1. heap[fed].bytes = FED_HEADER_LENGTH + 1 + RIDGE_COUNT_DATA_LENGTH * heap[fed].elems
      BY <2>1, <2>2 DEF Filled
    <3>2. f.bytes = FED_HEADER_LENGTH + 1 + RIDGE_COUNT_DATA_LENGTH * f.elems
      BY <2>4, <3>1 DEF FED_HEADER_LENGTH, RIDGE_COUNT_DATA_LENGTH
    <3>3. f.type # FED_OTHER
      BY <2>4 DEF FED_RIDGE_COUNT, FED_OTHER
    <3> QED BY <3>2, <3>3 DEF Filled
  <2>7. pc' \in InFed \ {"method", "data"}
    BY <1>3 DEF Loop, FedReturns, InFed, BodyPcs
  <2>8. current' = current + RIDGE_COUNT_DATA_LENGTH
    BY <1>3 DEF Get
  <2> QED BY <1>1, <2>3, <2>4, <2>5, <2>6, <2>7, <2>8, BodyAccounts
<1> QED BY <1>2, <1>3 DEF ReadRidgeCount

\* A read of internal_read_cddb: n bytes of a FED that says its own length.
LEMMA CoreDeltaGetAccounts ==
  ASSUME NEW start \in Nat, ReaderInv, Accounted(start),
         pc \in {"num_cores", "core", "num_deltas", "delta"}, BodyFrame,
         NEW n \in Nat, Get(n),
         NEW f \in FedRecord, heap' = [heap EXCEPT ![fed] = f],
         f.type = heap[fed].type, f.length = heap[fed].length,
         f.bytes = heap[fed].bytes + n,
         NEW m, NEW here \in {"core", "delta"}, NEW after \in {"num_deltas", "fed_return"},
         Loop(m, here, after)
  PROVE  Accounted(start)'
<1>1. pc \in BodyPcs /\ pc \in InFed
  BY DEF BodyPcs, InFed
<1>2. f.type = FED_CORE_AND_DELTA
  BY <1>1, InHand DEF Reads
<1>3. Filled(f)
  BY <1>2 DEF Filled, FED_CORE_AND_DELTA, FED_OTHER, FED_RIDGE_COUNT
<1>4. pc' \in InFed \ {"method", "data"}
  BY DEF Loop, FedReturns, InFed, BodyPcs
<1>5. current' = current + n
  BY DEF Get
<1> QED BY <1>1, <1>3, <1>4, <1>5, BodyAccounts

\* The two reads of a count, of cores and of deltas.
LEMMA CountAccounts ==
  ASSUME NEW start \in Nat, ReaderInv, Accounted(start),
         pc \in {"num_cores", "num_deltas"}, BodyFrame,
         NEW n \in Counts, NEW angular \in HeaderAngular,
         NEW here \in {"core", "delta"}, NEW after \in {"num_deltas", "fed_return"},
         Get(1), Typed(angular), Loop(n, here, after)
  PROVE  Accounted(start)'
<1> DEFINE f == [heap[fed] EXCEPT !.bytes = @ + 1, !.angular = angular]
<1>1. pc \in {"num_cores", "core", "num_deltas", "delta"} /\ pc \in InFed
  BY DEF InFed, BodyPcs
<1>2. heap[fed] \in FedRecord /\ angular \in BOOLEAN
  BY <1>1, InHand DEF HeaderAngular
<1>3. f \in FedRecord
  BY <1>2, FedRecordExcept
<1>4. f.type = heap[fed].type /\ f.length = heap[fed].length /\ f.bytes = heap[fed].bytes + 1
  BY <1>2 DEF FedRecord
<1>5. heap' = [heap EXCEPT ![fed] = f]
  BY DEF Typed
<1> HIDE DEF f
<1> QED BY <1>1, <1>3, <1>4, <1>5, CoreDeltaGetAccounts

\* The two reads of an element, a core or a delta of n bytes.
LEMMA ElementAccounts ==
  ASSUME NEW start \in Nat, ReaderInv, Accounted(start),
         pc \in {"core", "delta"}, BodyFrame,
         NEW n \in Nat, NEW here \in {"core", "delta"},
         NEW after \in {"num_deltas", "fed_return"},
         Get(n), Linked(n), Loop(todo - 1, here, after)
  PROVE  Accounted(start)'
<1> DEFINE f == [heap[fed] EXCEPT !.bytes = @ + n, !.elems = @ + 1]
<1>1. pc \in {"num_cores", "core", "num_deltas", "delta"} /\ pc \in InFed
  BY DEF InFed, BodyPcs
<1>2. heap[fed] \in FedRecord
  BY <1>1, InHand
<1>3. f \in FedRecord
  BY <1>2, FedRecordExcept
<1>4. f.type = heap[fed].type /\ f.length = heap[fed].length /\ f.bytes = heap[fed].bytes + n
  BY <1>2 DEF FedRecord
<1>5. heap' = [heap EXCEPT ![fed] = f]
  BY DEF Linked
<1> DEFINE m == todo - 1
<1> HIDE DEF f
<1>6. Loop(m, here, after)
  OBVIOUS
<1> QED BY <1>1, <1>3, <1>4, <1>5, <1>6, CoreDeltaGetAccounts

\* internal_read_cddb with internal_read_cd and internal_read_dd.
LEMMA CoreDeltaAccounts ==
  ASSUME NEW start \in Nat, ReaderInv, Accounted(start),
         ReadNumCores \/ ReadCore \/ ReadNumDeltas \/ ReadDelta
  PROVE  Accounted(start)'
<1>1. pc \in BodyPcs /\ BodyFrame /\ 1 \in Nat
  BY DEF ReadNumCores, ReadCore, ReadNumDeltas, ReadDelta, BodyPcs
<1>2. \A angular : CoreSize(angular) \in Nat /\ DeltaSize(angular) \in Nat
  BY DEF CoreSize, DeltaSize
<1>3. CASE ReadNumCores
  BY <1>1, <1>3, FailureAccounts, CountAccounts DEF ReadNumCores
<1>4. CASE ReadNumDeltas
  BY <1>1, <1>4, FailureAccounts, CountAccounts DEF ReadNumDeltas
<1>5. CASE ReadCore
  BY <1>1, <1>2, <1>5, FailureAccounts, ElementAccounts DEF ReadCore
<1>6. CASE ReadDelta
  BY <1>1, <1>2, <1>6, FailureAccounts, ElementAccounts DEF ReadDelta
<1> QED BY <1>3, <1>4, <1>5, <1>6

\* The data of an unknown FED: all that its length leaves behind the header.
LEMMA DataAccounts ==
  ASSUME NEW start \in Nat, ReaderInv, Accounted(start), ReadData
  PROVE  Accounted(start)'
<1> DEFINE n == heap[fed].length - FED_HEADER_LENGTH
           f == [heap[fed] EXCEPT !.bytes = @ + n]
<1>1. pc = "data" /\ pc \in BodyPcs /\ pc \in InFed /\ BodyFrame
  BY DEF ReadData, BodyPcs, InFed
<1>2. heap[fed] \in FedRecord /\ heap[fed].type = FED_OTHER
  BY <1>1, InHand DEF Reads
<1>3. n \in Nat
  <2>1. DataFits(heap[fed].type, heap[fed].length)
    BY <1>1, InHand
  <2>2. heap[fed].length \in USHORT /\ heap[fed].length \in Nat
    <3>1. heap[fed].length \in USHORT
      BY <1>2 DEF FedRecord
    <3> QED BY <3>1 DEF USHORT
  <2>3. heap[fed].length >= 4
    BY <1>2, <2>1 DEF DataFits, FED_HEADER_LENGTH
  <2> QED BY <2>2, <2>3 DEF FED_HEADER_LENGTH
<1>4. CASE BodyFails(n)
  BY <1>1, <1>3, <1>4, FailureAccounts
<1>5. CASE FedReturns(READ_ERROR) /\ UNCHANGED <<current, heap, todo>>
  <2>1. heap[fed] = [heap[fed] EXCEPT !.bytes = @ + 0] /\ current \in Nat
    <3>1. \A r \in FedRecord : r = [r EXCEPT !.bytes = @ + 0]
      BY DEF FedRecord
    <3>2. current \in Nat
      BY <1>1, InHand
    <3> QED BY ONLY <1>2, <3>1, <3>2
  <2>2. heap' = [heap EXCEPT ![fed] = heap[fed]] /\ heap[fed].bytes = heap[fed].bytes + 0
        /\ current' = current + 0
    BY <1>1, <1>2, <1>5, <2>1, InHand DEF FedRecord
  <2>3. pc' = "fed_return" /\ fed_ret' # READ_OK /\ pc' \in InFed \ {"method", "data"}
    BY <1>5 DEF FedReturns, InFed, BodyPcs, READ_OK, READ_ERROR
  <2> QED BY <1>1, <1>2, <2>2, <2>3, BodyAccounts
<1>6. CASE Get(n) /\ Consumed(n) /\ FedReturns(READ_OK) /\ UNCHANGED todo
  <2>1. f \in FedRecord
    BY <1>2, <1>3, FedRecordExcept
  <2>2. f.type = FED_OTHER /\ f.length = heap[fed].length /\ f.bytes = heap[fed].bytes + n
    BY <1>2 DEF FedRecord
  <2>3. heap' = [heap EXCEPT ![fed] = f]
    BY <1>6 DEF Consumed
  <2>4. heap[fed].bytes = FED_HEADER_LENGTH
    BY <1>1 DEF Accounted, ReaderInv, LoopInv
  <2>5. f.bytes = f.length
    <3>1. heap[fed].length \in Int
      BY <1>2 DEF FedRecord, USHORT
    <3> QED BY <2>2, <2>4, <3>1 DEF FED_HEADER_LENGTH
  <2> HIDE DEF f, n
  <2>6. Filled(f)
    BY <2>2, <2>5 DEF Filled, FED_OTHER, FED_RIDGE_COUNT
  <2>7. pc' \in InFed \ {"method", "data"} /\ current' = current + n
    BY <1>6 DEF FedReturns, InFed, BodyPcs, Get
  <2>8. pc' # "rcd"
    BY <1>6 DEF FedReturns
  <2> QED BY <1>1, <1>3, <2>1, <2>2, <2>3, <2>6, <2>7, <2>8, BodyAccounts
<1> QED BY <1>4, <1>5, <1>6 DEF ReadData

\* internal_read_fed has returned: the FED in hand is listed, and both sums grow by it.
LEMMA FinishFedAccounts ==
  ASSUME NEW start \in Nat, ReaderInv, Accounted(start), FinishFed
  PROVE  Accounted(start)'
<1> DEFINE partial == heap[fed].elems > 0
           m    == [heap EXCEPT ![fed] = [heap[fed] EXCEPT !.partial = partial]]
           list == Append(List, fed)
<1>1. pc = "fed_return" /\ pc \in InFed /\ UNCHANGED <<current, fed>> /\ partial \in BOOLEAN
  BY DEF FinishFed, InFed
<1>2. CASE ret' # READ_OK
  BY <1>2, GiveUpAccounts
<1>3. CASE /\ fed_ret = READ_OK /\ heap' = m
           /\ fedb' = [fedb EXCEPT !.extended_data = list]
           /\ block_length' = block_length - heap[fed].length
           /\ IF block_length' > 0
                THEN pc' = "fed_header" /\ UNCHANGED ret
                ELSE pc' = "done" /\ ret' = READ_OK
  <2> HIDE DEF partial
  <2>1. /\ DOMAIN heap' = 1 .. fed
        /\ \A k \in 1 .. fed : /\ heap'[k].type = heap[k].type
                               /\ heap'[k].length = heap[k].length
                               /\ heap'[k].elems = heap[k].elems
                               /\ heap'[k].bytes = heap[k].bytes
    BY <1>1, <1>3, MarkedHeap, AtFedReturn
  <2> HIDE DEF m
  <2>2. /\ list \in Seq(Nat) /\ Len(list) = fed /\ DOMAIN list = 1 .. fed
        /\ \A k \in 1 .. fed : list[k] = k
    BY <1>1, AtFedReturn, AppendProperties
  <2>3. List' = list /\ fedb'.block_length = fedb.block_length
    BY <1>1, <1>3, AtFedReturn DEF FedbRecord, List
  <2> HIDE DEF list
  <2>4. \A k \in 1 .. fed : Filled(heap[k])
    BY <1>1, <1>3, AtFedReturn DEF Accounted
  <2>5. \A k \in 1 .. fed : heap[k].length \in Nat /\ heap[k].bytes \in Nat
    <3>1. \A k \in 1 .. fed : heap[k] \in FedRecord
      BY <1>1, AtFedReturn, ElementOfSeq
    <3>2. USHORT \subseteq Nat
      BY DEF USHORT
    <3> QED BY <3>1, <3>2 DEF FedRecord
  <2>6. LengthOf(List)' = LengthOf(List) + heap[fed].length
    <3> DEFINE w == [k \in DOMAIN List |-> heap[List[k]].length]
               v == [k \in DOMAIN list |-> heap'[list[k]].length]
    <3>1. DOMAIN w = 1 .. fed - 1 /\ \A k \in 1 .. fed - 1 : w[k] = heap[k].length
      BY <1>1, AtFedReturn
    <3>2. DOMAIN v = 1 .. fed /\ \A k \in 1 .. fed : v[k] = heap[k].length
      BY <2>1, <2>2
    <3>3. LengthOf(List) = SumFunction(w) /\ LengthOf(List)' = SumFunction(v)
      BY <2>3 DEF LengthOf
    <3> HIDE DEF w, v
    <3>4. fed - 1 \in Nat /\ fed - 1 + 1 = fed /\ \A k \in 1 .. fed - 1 : k \in 1 .. fed
      BY <1>1, AtFedReturn
    <3>5. Weights(v, fed) /\ fed \in 1 .. fed
      BY <1>1, <2>5, <3>2, AtFedReturn DEF Weights
    <3>6. SumFunction(v) = SumFunction(w) + v[fed]
      BY <3>1, <3>2, <3>4, <3>5, SumGrows
    <3> QED BY <3>2, <3>3, <3>5, <3>6
  <2>7. BytesOf(List)' = BytesOf(List) + heap[fed].bytes
    <3> DEFINE w == [k \in DOMAIN List |-> heap[List[k]].bytes]
               v == [k \in DOMAIN list |-> heap'[list[k]].bytes]
    <3>1. DOMAIN w = 1 .. fed - 1 /\ \A k \in 1 .. fed - 1 : w[k] = heap[k].bytes
      BY <1>1, AtFedReturn
    <3>2. DOMAIN v = 1 .. fed /\ \A k \in 1 .. fed : v[k] = heap[k].bytes
      BY <2>1, <2>2
    <3>3. BytesOf(List) = SumFunction(w) /\ BytesOf(List)' = SumFunction(v)
      BY <2>3 DEF BytesOf
    <3> HIDE DEF w, v
    <3>4. fed - 1 \in Nat /\ fed - 1 + 1 = fed /\ \A k \in 1 .. fed - 1 : k \in 1 .. fed
      BY <1>1, AtFedReturn
    <3>5. Weights(v, fed) /\ fed \in 1 .. fed
      BY <1>1, <2>5, <3>2, AtFedReturn DEF Weights
    <3>6. SumFunction(v) = SumFunction(w) + v[fed]
      BY <3>1, <3>2, <3>4, <3>5, SumGrows
    <3> QED BY <3>2, <3>3, <3>5, <3>6
  <2>8. /\ current = start + 2 + BytesOf(List) + heap[fed].bytes
        /\ block_length = fedb.block_length - LengthOf(List)
    BY <1>1, AtFedReturn DEF Accounted, InHandBytes
  <2>9. /\ LengthOf(List) \in Nat /\ BytesOf(List) \in Nat /\ block_length \in Int
        /\ fedb.block_length \in Int
        /\ heap[fed].length \in Nat /\ heap[fed].bytes \in Nat
        /\ heap[fed].length <= block_length
    <3>1. USHORT \subseteq Int
      BY DEF USHORT
    <3>2. fedb.block_length \in Int /\ block_length \in Int
      BY <1>1, <3>1, AtFedReturn DEF FedbRecord
    <3>3. fed \in 1 .. fed /\ heap[fed].length <= block_length
      BY <1>1, AtFedReturn
    <3> QED BY <2>5, <3>2, <3>3, ListSums
  <2>10. pc' \in {"fed_header", "done"} /\ InHandBytes' = 0
         /\ (pc' = "done" => block_length' = 0)
    <3>1. pc' \in {"fed_header", "done"} /\ (pc' = "done" => ~ (block_length' > 0))
      BY <1>3
    <3> QED BY <1>3, <2>9, <3>1 DEF InHandBytes, InFed, BodyPcs
  <2>11. current' = start + 2 + BytesOf(List)' + InHandBytes'
    BY <1>1, <2>7, <2>8, <2>9, <2>10
  <2>12. block_length' = fedb'.block_length - LengthOf(List)'
    BY <1>3, <2>3, <2>6, <2>8, <2>9
  <2>13. \A k \in DOMAIN List' : Filled(heap[k]')
    BY <2>1, <2>2, <2>3, <2>4 DEF Filled
  <2> QED BY <2>10, <2>11, <2>12, <2>13 DEF Accounted
<1> QED BY <1>2, <1>3 DEF FinishFed, HasElements, List, READ_OK, READ_EOF, READ_ERROR

(***************************************************************************)
(* The two sums stay in step whatever the reader does, for every place a   *)
(* block may start at.                                                     *)
(***************************************************************************)
LEMMA NextKeepsAccounted ==
  ASSUME NEW start \in Nat
  PROVE  ReaderInv /\ Accounted(start) /\ [Next]_vars => Accounted(start)'
<1> SUFFICES ASSUME ReaderInv, Accounted(start), [Next]_vars PROVE Accounted(start)'
  OBVIOUS
<1>1. CASE UNCHANGED vars
  BY <1>1 DEF vars, Accounted, List, LengthOf, BytesOf, InHandBytes
<1>2. CASE ReadBlockLength
  BY <1>2, BlockLengthAccounts
<1>3. CASE ReadFedHeader
  BY <1>3, FedHeaderAccounts
<1>4. CASE ReadRidgeMethod
  BY <1>4, RidgeMethodAccounts
<1>5. CASE ReadRidgeCount
  BY <1>5, RidgeCountAccounts
<1>6. CASE ReadNumCores \/ ReadCore \/ ReadNumDeltas \/ ReadDelta
  BY <1>6, CoreDeltaAccounts
<1>7. CASE ReadData
  BY <1>7, DataAccounts
<1>8. CASE FinishFed
  BY <1>8, FinishFedAccounts
<1> QED BY <1>1, <1>2, <1>3, <1>4, <1>5, <1>6, <1>7, <1>8 DEF Next

\* A block of which nothing has been read starts where the cursor is.
LEMMA FreshAccounts ==
  ASSUME NEW start \in Nat, pc = "block_length", current = start, block_length = 0,
         fedb = EmptyFedb
  PROVE  Accounted(start)
<1>1. List = <<>> /\ DOMAIN List = 1 .. 0 /\ fedb.block_length = 0
  BY DEF List, EmptyFedb
<1>2. LengthOf(List) = 0
  <2> DEFINE v == [k \in DOMAIN List |-> heap[List[k]].length]
  <2>1. DOMAIN v = 1 .. 0
    BY <1>1
  <2>2. LengthOf(List) = SumFunction(v)
    BY DEF LengthOf
  <2> HIDE DEF v
  <2> QED BY <2>1, <2>2, SumType
<1> QED BY <1>1, <1>2 DEF Accounted

(***************************************************************************)
(* A FED whose length is true holds as many bytes as it declares, once the *)
(* reader has read it to its end.  For ridge counts this rests on          *)
(* RidgeBlockFilled: the counts read are those the length asks for, and a  *)
(* length that leaves room for whole counts only is filled exactly.        *)
(***************************************************************************)
LEMMA TrueLengthIsFilled ==
  ASSUME NEW f \in FedRecord, Filled(f), LengthIsTrue(f),
         f.type = FED_RIDGE_COUNT /\ f.length - FED_HEADER_LENGTH - 1 <= SHRT_MAX
           => HoldsItsCounts(f)
  PROVE  f.bytes = f.length
<1>1. CASE f.type # FED_RIDGE_COUNT
  BY <1>1 DEF Filled, LengthIsTrue
<1>2. CASE f.type = FED_RIDGE_COUNT
  <2> DEFINE body == f.length - FED_HEADER_LENGTH - 1
             room == RIDGE_COUNT_DATA_LENGTH * f.elems
  <2>1. f.length \in Int /\ f.elems \in Nat
    <3>1. USHORT \subseteq Int
      BY DEF USHORT
    <3> QED BY <3>1 DEF FedRecord
  <2>2. /\ f.length > FED_HEADER_LENGTH /\ body <= SHRT_MAX
        /\ body % RIDGE_COUNT_DATA_LENGTH = 0
    BY <1>2 DEF LengthIsTrue, FED_RIDGE_COUNT, FED_OTHER, FED_CORE_AND_DELTA
  <2>3. room >= body /\ (f.elems > 0 => room - RIDGE_COUNT_DATA_LENGTH < body)
    BY <1>2, <2>2 DEF HoldsItsCounts
  <2>4. f.bytes = FED_HEADER_LENGTH + 1 + room
    BY <1>2 DEF Filled
  <2>5. ASSUME NEW b \in Int, NEW e \in Nat, b % 3 = 0, b >= 0, 3 * e >= b,
               e > 0 => 3 * e - 3 < b
        PROVE  3 * e = b
    <3>1. PICK q \in Int : b = 3 * q
      BY <2>5
    <3>2. CASE e = 0
      BY <2>5, <3>2
    <3>3. CASE e > 0
      <4>1. e >= q /\ e - 1 < q
        BY <2>5, <3>1, <3>3
      <4> QED BY <2>5, <3>1, <4>1
    <3> QED BY <3>2, <3>3, <2>5
  <2>6. room = body
    <3>1. body \in Int /\ body >= 0
      BY <2>1, <2>2 DEF FED_HEADER_LENGTH
    <3> HIDE DEF body
    <3> QED BY <2>1, <2>2, <2>3, <2>5, <3>1 DEF RIDGE_COUNT_DATA_LENGTH
  <2> QED BY <2>1, <2>4, <2>6 DEF FED_HEADER_LENGTH
<1> QED BY <1>1, <1>2

(***************************************************************************)
(* The block is read to its last byte: with READ_OK nothing is left of it, *)
(* and the cursor stands where the lengths say when they are true.         *)
(***************************************************************************)
LEMMA EndOfBlock ==
  ASSUME NEW start \in Nat, ReaderInv, Accounted(start), pc = "done", ret = READ_OK
  PROVE  /\ block_length = 0
         /\ (\A k \in DOMAIN List : LengthIsTrue(heap[k]))
              => current = start + 2 + fedb.block_length
<1>1. /\ block_length = 0 /\ block_length = fedb.block_length - LengthOf(List)
      /\ current = start + 2 + BytesOf(List)
      /\ \A k \in DOMAIN List : Filled(heap[k])
  <2>1. InHandBytes = 0
    BY DEF InHandBytes, InFed, BodyPcs
  <2>2. BytesOf(List) \in Nat
    BY ListSums
  <2> QED BY <2>1, <2>2 DEF Accounted
<1>2. ASSUME \A k \in DOMAIN List : LengthIsTrue(heap[k]) PROVE BytesOf(List) = LengthOf(List)
  <2>1. List \in Seq(Nat) /\ Len(List) \in Nat /\ DOMAIN List = 1 .. Len(List)
    BY DEF ReaderInv, TypeOK, FedbRecord, List
  <2>2. (\A k \in DOMAIN List : List[k] = k) /\ ListedInHeap
    BY ListIsInHeap DEF ReaderInv, OwnedOnce
  <2>3. ~ fedb.partial
    BY DEF ReaderInv, PartialExact, READ_OK, READ_EOF
  <2>4. \A k \in DOMAIN List : heap[k].bytes = heap[k].length /\ heap[k].length \in Nat
    <3> SUFFICES ASSUME NEW k \in DOMAIN List
                 PROVE  heap[k].bytes = heap[k].length /\ heap[k].length \in Nat
      OBVIOUS
    <3>1. k \in DOMAIN heap /\ heap[k] \in FedRecord
      BY <2>2 DEF ListedInHeap
    <3>2. Complete(k)
      <4>1. List[k] = k
        BY <2>2
      <4> QED BY ONLY k \in DOMAIN List, <2>3, <4>1 DEF Complete, Contains
    <3>3. heap[k].type = FED_RIDGE_COUNT /\ heap[k].length - FED_HEADER_LENGTH - 1 <= SHRT_MAX
            => HoldsItsCounts(heap[k])
      BY <3>1, <3>2 DEF ReaderInv, RidgeBlockFilled
    <3>4. USHORT \subseteq Nat
      BY DEF USHORT
    <3>5. heap[k].length \in Nat
      BY <3>1, <3>4 DEF FedRecord
    <3> QED BY <1>1, <1>2, <3>1, <3>3, <3>5, TrueLengthIsFilled
  <2> QED BY <2>2, <2>4 DEF BytesOf, LengthOf
<1>3. LengthOf(List) \in Nat /\ fedb.block_length \in Int
  <2>1. USHORT \subseteq Int
    BY DEF USHORT
  <2> QED BY <2>1, ListSums DEF ReaderInv, TypeOK, FedbRecord
<1> QED BY <1>1, <1>2, <1>3

\* What BlockAccounted says is what Accounted and ReaderInv say of a block from byte 0.
LEMMA AccountedIsEnough == ReaderInv /\ Accounted(0) => BlockAccounted
<1> SUFFICES ASSUME ReaderInv, Accounted(0) PROVE BlockAccounted
  OBVIOUS
<1>1. ret = READ_OK => block_length = fedb.block_length - LengthOf(List)
  BY DEF Accounted
<1>2. ASSUME pc = "done", ret = READ_OK
      PROVE  /\ block_length = 0
             /\ (\A i \in DOMAIN heap : LengthIsTrue(heap[i]))
                  => current = 0 + 2 + fedb.block_length
  BY <1>2, EndOfBlock, ListIsInHeap DEF ListedInHeap
<1> QED BY <1>1, <1>2 DEF BlockAccounted

\* A block of length 0 is over at once, with nothing allocated: what a record
\* reader that drops such a block relies on.
NoBlockNoFeds == fedb.block_length = 0 => pc \in {"block_length", "done"} /\ heap = <<>>

LEMMA NextKeepsNoBlock == ReaderInv /\ NoBlockNoFeds /\ [Next]_vars => NoBlockNoFeds'
<1> SUFFICES ASSUME ReaderInv, NoBlockNoFeds, [Next]_vars PROVE NoBlockNoFeds'
  OBVIOUS
<1>1. CASE UNCHANGED vars
  BY <1>1 DEF vars, NoBlockNoFeds
<1>2. CASE ReadBlockLength
  <2>1. pc = "block_length" /\ fed = 0 /\ fedb \in FedbRecord /\ heap = <<>>
    <3>1. pc = "block_length" /\ fed = 0 /\ fedb \in FedbRecord
      BY <1>2 DEF ReadBlockLength, ReaderInv, LoopInv, TypeOK
    <3> QED BY <3>1, BetweenFeds
  <2>2. CASE EofOut \/ ErrOut
    BY <2>1, <2>2 DEF EofOut, ErrOut, NoBlockNoFeds
  <2>3. ASSUME NEW n \in BlockLengths, fedb' = [fedb EXCEPT !.block_length = n],
               n = 0 => pc' = "done", UNCHANGED heap
        PROVE  NoBlockNoFeds'
    <3>1. fedb'.block_length = n
      BY <2>1, <2>3 DEF FedbRecord
    <3> QED BY <2>1, <2>3, <3>1 DEF NoBlockNoFeds
  <2> QED BY <1>2, <2>2, <2>3 DEF ReadBlockLength
<1>3. CASE pc \notin {"block_length", "done"} /\ fedb'.block_length = fedb.block_length
  BY <1>3 DEF NoBlockNoFeds
<1>4. CASE ReadFedHeader
  BY <1>3, <1>4 DEF ReadFedHeader
<1>5. CASE FinishFed
  <2>1. pc = "fed_return" /\ fedb \in FedbRecord
    BY <1>5 DEF FinishFed, ReaderInv, TypeOK
  <2>2. fedb'.block_length = fedb.block_length
    BY <1>5, <2>1 DEF FinishFed, FedbRecord
  <2> QED BY <1>3, <2>1, <2>2
<1>6. CASE pc \in BodyPcs /\ BodyFrame
  BY <1>3, <1>6 DEF BodyPcs, BodyFrame
<1> QED BY <1>1, <1>2, <1>4, <1>5, <1>6
        DEF Next, ReadRidgeMethod, ReadRidgeCount, ReadNumCores, ReadCore, ReadNumDeltas,
            ReadDelta, ReadData, BodyPcs

(***************************************************************************)
(* FEDs are never counted twice, skipped or accepted beyond the end of the *)
(* block, and after READ_OK the cursor is right behind it whenever each    *)
(* FED's length is the one its contents have: for blocks and lengths of    *)
(* any size.                                                               *)
(***************************************************************************)
THEOREM BlockIsAccounted == Spec => []BlockAccounted
<1>1. Init => ReaderInv /\ Accounted(0)
  BY InitReaderInv, FreshAccounts DEF Init
<1>2. ReaderInv /\ Accounted(0) /\ [Next]_vars => (ReaderInv /\ Accounted(0))'
  BY NextKeepsReaderInv, NextKeepsAccounted
<1>3. ReaderInv /\ Accounted(0) => BlockAccounted
  BY AccountedIsEnough
<1> QED BY <1>1, <1>2, <1>3, PTL DEF Spec

=============================================================================
