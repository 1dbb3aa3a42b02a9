-------------------------------- MODULE Fifo --------------------------------
(***************************************************************************)
(* What a ring buffer promises to one producer and one consumer: a bounded *)
(* queue. A call may move its elements in several batches; every element   *)
(* read is the oldest one that has not been read.                          *)
(***************************************************************************)
EXTENDS Naturals, Sequences

CONSTANTS Value,    \* what the elements are
          Capacity  \* how many of them fit

VARIABLES queue,    \* elements written and not yet removed, oldest first
          got       \* what the consumer's current call has read

vars == <<queue, got>>

Init == queue = <<>> /\ got = <<>>

\* A batch of elements becomes visible to the consumer.
Push(n) ==
    /\ \E batch \in [1 .. n -> Value] : queue' = queue \o batch
    /\ Len(queue') <= Capacity
    /\ UNCHANGED got

\* A batch of elements is removed, and returned if the call returns them.
Pop(n, keep) ==
    /\ n <= Len(queue)
    /\ queue' = SubSeq(queue, n + 1, Len(queue))
    /\ got' = IF keep THEN got \o SubSeq(queue, 1, n) ELSE got

\* The oldest element is returned and stays.
Peek ==
    /\ queue # <<>>
    /\ got' = <<Head(queue)>>
    /\ UNCHANGED queue

\* A call of the consumer begins.
Call == got' = <<>> /\ UNCHANGED queue

Next ==
    \/ \E n \in 1 .. Capacity : Push(n)
    \/ \E n \in 1 .. Capacity, keep \in BOOLEAN : Pop(n, keep)
    \/ Peek
    \/ Call

Spec == Init /\ [][Next]_vars

=============================================================================
