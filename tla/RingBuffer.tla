----------------------------- MODULE RingBuffer -----------------------------
(***************************************************************************)
(* ringbuffer_queue_pattern over ringbuffer_pattern: a queue in an array,  *)
(* between one thread that writes and one that reads, without a lock.  Each *)
(* thread owns one of two atomic indices and only loads the other; it asks *)
(* for a run of slots (write_ptr, read_ptr), copies, and then moves its    *)
(* index.  A range that wraps round the end of the array takes several     *)
(* rounds.                                                                 *)
(*                                                                         *)
(* A step is one access to memory that the threads share.  The loads have  *)
(* acquire and the updates release order, so that what one thread wrote    *)
(* before an update is seen by the other after loading it; a thread's own  *)
(* index is changed by nobody else.  Loading the other's index and working *)
(* out the run of slots is therefore one step.  size_t counts modulo       *)
(* IndexMod here, where the code counts modulo 2^64.                       *)
(***************************************************************************)
EXTENDS Integers, Sequences

CONSTANTS
    Capacity, \* N, the number of slots
    IndexMod, \* values of an index (2^64 in the code)
    Value,    \* elements
    NoValue,  \* what a slot holds before it is written
    MaxBatch  \* bound: elements named by one call

\* The slots follow the index past its largest value only if N divides 2^64.
ASSUME RingAssumption ==
    /\ Capacity \in Nat \ {0}
    /\ IndexMod \in Nat /\ IndexMod > Capacity /\ IndexMod % Capacity = 0
    /\ NoValue \notin Value
    /\ MaxBatch \in Nat

VARIABLES
    readIndex,
    writeIndex,
    data,
    prod, \* the producer's call: pc, want, and at, n, k of the batch; size
    cons  \* the consumer's call: the same, with op and out

vars == <<readIndex, writeIndex, data, prod, cons>>

Slot == 0 .. Capacity - 1
Index == 0 .. IndexMod - 1
NoSize == -1

Smaller(a, b) == IF a < b THEN a ELSE b

\* A definition whose comment begins with "Mutant" is a faulty variant of the
\* one after it.

\* Mutant: signed arithmetic.
UsedSigned == writeIndex - readIndex

\* wI - rI, in unsigned arithmetic.
Used == (writeIndex - readIndex) % IndexMod

\* Mutant: the elements that are available are not asked for.
RunToTheEnd(index, available, want) ==
    Smaller(want, Capacity - (index % Capacity))

\* ptr: how many of the wanted elements lie in one piece from an index on.
Run(index, available, want) ==
    Smaller(want, Smaller(available, Capacity - (index % Capacity)))

\* The thread's call returns, or goes into another round: no batch is held.
Returned(t) == [t EXCEPT !.pc = "idle", !.want = 0, !.at = 0, !.n = 0, !.k = 0]
AfterBatch(t) ==
    IF t.n = t.want THEN Returned(t)
    ELSE [t EXCEPT !.pc = "ptr", !.want = @ - t.n, !.at = 0, !.n = 0, !.k = 0]

TypeOK ==
    /\ readIndex \in Index /\ writeIndex \in Index
    /\ data \in [Slot -> Value \cup {NoValue}]
    /\ prod \in [pc : {"idle", "ptr", "copy", "update", "size"}, want : Nat,
                 at : Slot, n : Nat, k : Nat, size : Index \cup {NoSize}]
    /\ cons \in [pc : {"idle", "ptr", "copy", "update", "size"}, want : Nat,
                 at : Slot, n : Nat, k : Nat, size : Index \cup {NoSize},
                 op : {"pop", "drop", "front"}, out : Seq(Value)]

Init ==
    /\ readIndex = 0 /\ writeIndex = 0
    /\ data = [s \in Slot |-> NoValue]
    /\ prod = [pc |-> "idle", want |-> 0, at |-> 0, n |-> 0, k |-> 0, size |-> NoSize]
    /\ cons = [pc |-> "idle", want |-> 0, at |-> 0, n |-> 0, k |-> 0, size |-> NoSize,
               op |-> "pop", out |-> <<>>]

-----------------------------------------------------------------------------
(* The producer.                                                           *)

\* push_range; push_back is a range of one.
PushRange(count) ==
    /\ prod.pc = "idle"
    /\ prod' = [prod EXCEPT !.pc = "ptr", !.want = count, !.size = NoSize]
    /\ UNCHANGED <<readIndex, writeIndex, data, cons>>

\* write_ptr: no room ends the call.
WritePtr ==
    /\ prod.pc = "ptr"
    /\ LET n == Run(writeIndex, Capacity - Used, prod.want)
       IN  prod' = IF n = 0
                   THEN Returned(prod)
                   ELSE [prod EXCEPT !.pc = "copy", !.at = writeIndex % Capacity,
                                     !.n = n]
    /\ UNCHANGED <<readIndex, writeIndex, data, cons>>

\* Mutant: the producer moves its index before it copies.
CopyInLate ==
    /\ prod.pc = "copy"
    /\ \E v \in Value : data' = [data EXCEPT ![prod.at + prod.k] = v]
    /\ writeIndex' = IF prod.k = 0 THEN (writeIndex + prod.n) % IndexMod ELSE writeIndex
    /\ prod' = IF prod.k + 1 = prod.n THEN AfterBatch(prod) ELSE [prod EXCEPT !.k = @ + 1]
    /\ UNCHANGED <<readIndex, cons>>

\* memcpy into the slots, one at a time.
CopyIn ==
    /\ prod.pc = "copy"
    /\ \E v \in Value : data' = [data EXCEPT ![prod.at + prod.k] = v]
    /\ prod' = [prod EXCEPT !.k = @ + 1,
                            !.pc = IF prod.k + 1 = prod.n THEN "update" ELSE "copy"]
    /\ UNCHANGED <<readIndex, writeIndex, cons>>

\* write_ptr_update.
WriteUpdate ==
    /\ prod.pc = "update"
    /\ writeIndex' = (writeIndex + prod.n) % IndexMod
    /\ prod' = AfterBatch(prod)
    /\ UNCHANGED <<readIndex, data, cons>>

-----------------------------------------------------------------------------
(* The consumer.                                                           *)

\* The two pop_range, one of which returns nothing, and front.  pop_front is
\* a pop_range of one, called when there is an element.
Pop(op, count) ==
    /\ cons.pc = "idle"
    /\ op = "front" => count = 1
    /\ cons' = [cons EXCEPT !.pc = "ptr", !.op = op, !.want = count,
                            !.out = <<>>, !.size = NoSize]
    /\ UNCHANGED <<readIndex, writeIndex, data, prod>>

\* read_ptr: nothing to read ends the call.
ReadPtr ==
    /\ cons.pc = "ptr"
    /\ LET n == Run(readIndex, Used, cons.want)
       IN  cons' = IF n = 0
                   THEN Returned(cons)
                   ELSE [cons EXCEPT !.pc = IF cons.op = "drop" THEN "update" ELSE "copy",
                                     !.at = readIndex % Capacity, !.n = n]
    /\ UNCHANGED <<readIndex, writeIndex, data, prod>>

\* memcpy from the slots, one at a time; front goes no further.
CopyOut ==
    /\ cons.pc = "copy"
    /\ LET read == [cons EXCEPT !.out = Append(@, data[cons.at + cons.k])]
       IN  cons' = IF cons.op = "front" THEN Returned(read)
                   ELSE [read EXCEPT !.k = @ + 1,
                                     !.pc = IF cons.k + 1 = cons.n THEN "update" ELSE "copy"]
    /\ UNCHANGED <<readIndex, writeIndex, data, prod>>

\* read_ptr_update.
ReadUpdate ==
    /\ cons.pc = "update"
    /\ readIndex' = (readIndex + cons.n) % IndexMod
    /\ cons' = AfterBatch(cons)
    /\ UNCHANGED <<writeIndex, data, prod>>

-----------------------------------------------------------------------------
(* size, called by either thread: it loads the write index first and keeps *)
(* it in the field that the result goes to.                                *)

\* Mutant: the read index is loaded first, and used as the write index.
ProducerSizesSwapped ==
    \/ /\ prod.pc = "idle"
       /\ prod' = [prod EXCEPT !.pc = "size", !.size = readIndex]
       /\ UNCHANGED <<readIndex, writeIndex, data, cons>>
    \/ /\ prod.pc = "size"
       /\ prod' = [prod EXCEPT !.pc = "idle", !.size = (@ - writeIndex) % IndexMod]
       /\ UNCHANGED <<readIndex, writeIndex, data, cons>>

ProducerSizes ==
    \/ /\ prod.pc = "idle"
       /\ prod' = [prod EXCEPT !.pc = "size", !.size = writeIndex]
       /\ UNCHANGED <<readIndex, writeIndex, data, cons>>
    \/ /\ prod.pc = "size"
       /\ prod' = [prod EXCEPT !.pc = "idle", !.size = (@ - readIndex) % IndexMod]
       /\ UNCHANGED <<readIndex, writeIndex, data, cons>>

ConsumerSizes ==
    \/ /\ cons.pc = "idle"
       /\ cons' = [cons EXCEPT !.pc = "size", !.size = writeIndex]
       /\ UNCHANGED <<readIndex, writeIndex, data, prod>>
    \/ /\ cons.pc = "size"
       /\ cons' = [cons EXCEPT !.pc = "idle", !.size = (@ - readIndex) % IndexMod]
       /\ UNCHANGED <<readIndex, writeIndex, data, prod>>

-----------------------------------------------------------------------------

Next ==
    \/ \E count \in 0 .. MaxBatch : PushRange(count)
    \/ WritePtr
    \/ CopyIn
    \/ WriteUpdate
    \/ \E op \in {"pop", "drop", "front"}, count \in 0 .. MaxBatch : Pop(op, count)
    \/ ReadPtr
    \/ CopyOut
    \/ ReadUpdate
    \/ ProducerSizes
    \/ ConsumerSizes

Spec == Init /\ [][Next]_vars

-----------------------------------------------------------------------------
(* Properties.                                                             *)

\* The slots a thread has been given and works on.
Held(t) == IF t.pc \in {"copy", "update"} THEN t.at .. t.at + t.n - 1 ELSE {}

\* write_ptr and read_ptr each work from a value of the other's index that may
\* be old: the slots they give out are nevertheless never in use on both
\* sides, so that no element is copied while it is overwritten.
BatchesApart == Held(prod) \cap Held(cons) = {}

\* size loads the two indices at different moments.  What the consumer gets it
\* may remove, and what the producer gets leaves it at least the room it
\* computes from it, until the thread's own next call.
SizeIsSafe ==
    /\ cons.pc = "idle" /\ cons.size # NoSize => cons.size <= Used
    /\ prod.pc = "idle" /\ prod.size # NoSize => Used <= prod.size /\ prod.size <= Capacity

\* Whatever the interleaving of copies and updates, the two threads use a
\* bounded queue: nothing unread is overwritten, nothing is read twice, out of
\* order or before it is written.
Queue == INSTANCE Fifo WITH
    queue <- [i \in 1 .. Used |-> data[(readIndex + i - 1) % Capacity]],
    got <- SubSeq(cons.out, 1, Len(cons.out) - cons.k)
FifoSpec == Queue!Spec

=============================================================================
