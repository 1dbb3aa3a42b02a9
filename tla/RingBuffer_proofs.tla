------------------------- MODULE RingBuffer_proofs -------------------------
(***************************************************************************)
(* The ring buffer is correct whatever its capacity, the width of its      *)
(* indices, its elements and the length of its calls: the invariants of    *)
(* RingBuffer, and that it implements the bounded queue of Fifo.           *)
(***************************************************************************)
EXTENDS RingBuffer, SequenceTheorems, TLAPS

-----------------------------------------------------------------------------
(* Division with remainder.                                                *)

\* Every integer is a multiple of m and the remainder that % gives.
LEMMA DivMod ==
    ASSUME NEW m \in Nat \ {0}, NEW a \in Int
    PROVE  \E q \in Int, r \in 0 .. m - 1 : a = q * m + r /\ a % m = r
<1>1. a = (a \div m) * m + (a % m)
  OBVIOUS
<1>2. a \div m \in Int /\ a % m \in 0 .. m - 1
  OBVIOUS
<1>3. QED
  BY <1>1, <1>2

\* % gives that remainder and no other.
LEMMA ModUnique ==
    ASSUME NEW m \in Nat \ {0}, NEW q \in Int, NEW r \in 0 .. m - 1
    PROVE  (q * m + r) % m = r
OBVIOUS

LEMMA QuotientUnique ==
    ASSUME NEW m \in Nat \ {0}, NEW q \in Int, NEW p \in Int,
           NEW r \in 0 .. m - 1, NEW s \in 0 .. m - 1,
           q * m + r = p * m + s
    PROVE  q = p /\ r = s
OBVIOUS

LEMMA SumTimes == \A p, q, m \in Int : (p + q) * m = p * m + q * m
OBVIOUS

\* Multiples of the divisor do not change a remainder.
LEMMA ModShift ==
    ASSUME NEW m \in Nat \ {0}, NEW a \in Int, NEW q \in Int
    PROVE  (a + q * m) % m = a % m
<1>1. PICK p \in Int, r \in 0 .. m - 1 : a = p * m + r /\ a % m = r
  BY DivMod
<1>2. a + q * m = (p + q) * m + r
  BY <1>1, SumTimes
<1>3. ((p + q) * m + r) % m = r
  BY ModUnique
<1>4. QED
  BY <1>1, <1>2, <1>3

\* m consecutive numbers have m remainders: places that are less than a
\* capacity apart have slots of their own.
LEMMA ModDistinct ==
    ASSUME NEW m \in Nat \ {0}, NEW a \in Int,
           NEW i \in 0 .. m - 1, NEW j \in 0 .. m - 1,
           (a + i) % m = (a + j) % m
    PROVE  i = j
<1>1. a + i \in Int /\ a + j \in Int
  OBVIOUS
<1>2. PICK p \in Int, r \in 0 .. m - 1 : a + i = p * m + r /\ (a + i) % m = r
  BY <1>1, DivMod
<1>3. PICK q \in Int, s \in 0 .. m - 1 : a + j = q * m + s /\ (a + j) % m = s
  BY <1>1, DivMod
<1>4. p * m + j = q * m + i
  BY <1>2, <1>3
<1>5. QED
  BY <1>4, QuotientUnique

\* Slots follow one another up to the end of the array.
LEMMA ModNext ==
    ASSUME NEW m \in Nat \ {0}, NEW a \in Int, NEW j \in Nat, j < m - (a % m)
    PROVE  (a + j) % m = (a % m) + j
OBVIOUS

\* The sum and the difference of two unsigned numbers.
LEMMA ModSum ==
    ASSUME NEW m \in Nat \ {0}, NEW a \in 0 .. m - 1, NEW n \in 0 .. m
    PROVE  (a + n) % m = IF a + n < m THEN a + n ELSE a + n - m
OBVIOUS

LEMMA ModDifference ==
    ASSUME NEW m \in Nat \ {0}, NEW a \in 0 .. m - 1, NEW b \in 0 .. m - 1
    PROVE  (a - b) % m = IF b <= a THEN a - b ELSE a - b + m
OBVIOUS

-----------------------------------------------------------------------------
(* Indices and slots.                                                      *)

LEMMA UsedIs ==
    ASSUME readIndex \in Index, writeIndex \in Index
    PROVE  /\ Used = IF readIndex <= writeIndex THEN writeIndex - readIndex
                     ELSE writeIndex - readIndex + IndexMod
           /\ Used \in 0 .. IndexMod - 1
<1>1. IndexMod \in Nat \ {0}
  BY RingAssumption
<1>2. QED
  BY <1>1, ModDifference DEF Used, Index

\* An index that wraps round goes on at the slot that comes next.
LEMMA SlotOfWrapped ==
    ASSUME NEW x \in Int
    PROVE  /\ (x + IndexMod) % Capacity = x % Capacity
           /\ (x - IndexMod) % Capacity = x % Capacity
<1>1. Capacity \in Nat \ {0} /\ IndexMod \in Int /\ IndexMod % Capacity = 0
  BY RingAssumption
<1>2. PICK q \in Int, r \in 0 .. Capacity - 1 :
         IndexMod = q * Capacity + r /\ IndexMod % Capacity = r
  BY <1>1, DivMod
<1>3. IndexMod = q * Capacity /\ x + IndexMod = x + q * Capacity
  BY <1>1, <1>2
<1>4. (x + q * Capacity) % Capacity = x % Capacity
  BY <1>1, ModShift
<1>5. x - IndexMod \in Int /\ (x - IndexMod) + q * Capacity = x
  BY <1>1, <1>3
<1>6. ((x - IndexMod) + q * Capacity) % Capacity = (x - IndexMod) % Capacity
  BY <1>1, <1>5, ModShift
<1>7. QED
  BY <1>3, <1>4, <1>5, <1>6

\* What moving an index by the length of a batch does to it.
LEMMA IndexMoved ==
    ASSUME NEW x \in Index, NEW n \in 0 .. Capacity
    PROVE  /\ (x + n) % IndexMod = IF x + n < IndexMod THEN x + n ELSE x + n - IndexMod
           /\ (x + n) % IndexMod \in Index
           /\ \A i \in Nat : (((x + n) % IndexMod) + i) % Capacity = (x + n + i) % Capacity
<1>1. IndexMod \in Nat \ {0} /\ x \in 0 .. IndexMod - 1 /\ n \in 0 .. IndexMod
  BY RingAssumption DEF Index
<1>2. (x + n) % IndexMod = IF x + n < IndexMod THEN x + n ELSE x + n - IndexMod
  BY <1>1, ModSum
<1>3. ASSUME NEW i \in Nat
      PROVE  (((x + n) % IndexMod) + i) % Capacity = (x + n + i) % Capacity
  <2>1. x + n + i \in Int
    BY <1>1
  <2>2. ((x + n + i) - IndexMod) % Capacity = (x + n + i) % Capacity
    BY <2>1, SlotOfWrapped
  <2>3. CASE x + n < IndexMod
    BY <1>2, <2>3
  <2>4. CASE ~(x + n < IndexMod)
    <3>1. ((x + n) % IndexMod) + i = (x + n + i) - IndexMod
      BY <1>1, <1>2, <2>4
    <3>2. QED
      BY <2>2, <3>1
  <2>5. QED
    BY <2>3, <2>4
<1>4. QED
  BY <1>1, <1>2, <1>3 DEF Index

\* The slots from the write index on are those after the elements in use.
LEMMA SlotOfWrite ==
    ASSUME readIndex \in Index, writeIndex \in Index, NEW j \in Nat
    PROVE  (writeIndex + j) % Capacity = (readIndex + Used + j) % Capacity
<1>1. IndexMod \in Nat /\ readIndex \in Int /\ writeIndex \in Int
  BY RingAssumption DEF Index
<1>2. writeIndex + j \in Int
  BY <1>1
<1>3. CASE readIndex <= writeIndex
  BY <1>1, <1>3, UsedIs
<1>4. CASE ~(readIndex <= writeIndex)
  <2>1. readIndex + Used + j = (writeIndex + j) + IndexMod
    BY <1>1, <1>4, UsedIs
  <2>2. QED
    BY <1>2, <2>1, SlotOfWrapped
<1>5. QED
  BY <1>3, <1>4

-----------------------------------------------------------------------------
(* The inductive invariant.                                                *)

HoldsBatch(t) == t.pc \in {"copy", "update"}

\* The elements fit, and every slot in use has been written.
QueueInv ==
    /\ Used <= Capacity
    /\ \A i \in 0 .. Used - 1 : data[(readIndex + i) % Capacity] \in Value

\* The producer's batch begins at its index, in one piece and in free slots,
\* and what it has copied is there.  The room it found is still there: the
\* consumer only adds to it.
ProducerInv ==
    /\ prod.pc \in {"ptr", "copy", "update"} => prod.size = NoSize
    /\ prod.pc = "size" => prod.size = writeIndex
    /\ ~HoldsBatch(prod) => prod.k = 0
    /\ HoldsBatch(prod) =>
         /\ prod.at = writeIndex % Capacity
         /\ prod.n \in 1 .. prod.want
         /\ prod.n <= Capacity - Used
         /\ prod.at + prod.n <= Capacity
         /\ prod.k \in 0 .. prod.n
         /\ prod.k = prod.n <=> prod.pc = "update"
         /\ \A j \in 0 .. prod.k - 1 : data[prod.at + j] \in Value

\* The consumer's batch likewise, in slots in use; what it has copied is the
\* end of what the call returns.  A write index that size has loaded and that
\* is old by now gives no more than what is in use.
ConsumerInv ==
    /\ cons.pc \in {"ptr", "copy", "update"} => cons.size = NoSize
    /\ cons.pc = "size" =>
         cons.size \in Index /\ (cons.size - readIndex) % IndexMod <= Used
    /\ ~HoldsBatch(cons) => cons.k = 0
    /\ HoldsBatch(cons) =>
         /\ cons.at = readIndex % Capacity
         /\ cons.n \in 1 .. cons.want
         /\ cons.n <= Used
         /\ cons.at + cons.n <= Capacity
         /\ cons.k \in 0 .. cons.n /\ cons.k <= Len(cons.out)
         /\ cons.pc = "copy" => cons.op # "drop" /\ cons.k < cons.n
         /\ cons.pc = "update" =>
              cons.op # "front" /\ cons.k = IF cons.op = "drop" THEN 0 ELSE cons.n
         /\ \A j \in 1 .. cons.k :
              cons.out[Len(cons.out) - cons.k + j] = data[cons.at + j - 1]
    /\ cons.op = "front" /\ cons.pc \in {"ptr", "copy"} =>
         cons.want = 1 /\ cons.k = 0 /\ cons.out = <<>>

IInv == TypeOK /\ QueueInv /\ ProducerInv /\ ConsumerInv /\ SizeIsSafe

-----------------------------------------------------------------------------
(* What a call's record may be.                                            *)

ProducerState ==
    [pc : {"idle", "ptr", "copy", "update", "size"}, want : Nat,
     at : Slot, n : Nat, k : Nat, size : Index \cup {NoSize}]

ConsumerState ==
    [pc : {"idle", "ptr", "copy", "update", "size"}, want : Nat,
     at : Slot, n : Nat, k : Nat, size : Index \cup {NoSize},
     op : {"pop", "drop", "front"}, out : Seq(Value)]

LEMMA ReturnedTyped ==
    /\ \A t \in ProducerState : Returned(t) \in ProducerState
    /\ \A t \in ConsumerState : Returned(t) \in ConsumerState
<1>1. 0 \in Slot
  BY RingAssumption DEF Slot
<1>2. QED
  BY <1>1 DEF Returned, ProducerState, ConsumerState

\* The next round asks for less by the batch that is done.
LEMMA AfterBatchTyped ==
    /\ \A t \in ProducerState : t.n <= t.want => AfterBatch(t) \in ProducerState
    /\ \A t \in ConsumerState : t.n <= t.want => AfterBatch(t) \in ConsumerState
<1>1. 0 \in Slot
  BY RingAssumption DEF Slot
<1>2. ASSUME NEW t \in ProducerState, t.n <= t.want
      PROVE  AfterBatch(t) \in ProducerState
  <2>1. t.want - t.n \in Nat
    BY <1>2 DEF ProducerState
  <2>2. QED
    BY <1>1, <2>1, ReturnedTyped DEF AfterBatch, ProducerState
<1>3. ASSUME NEW t \in ConsumerState, t.n <= t.want
      PROVE  AfterBatch(t) \in ConsumerState
  <2>1. t.want - t.n \in Nat
    BY <1>3 DEF ConsumerState
  <2>2. QED
    BY <1>1, <2>1, ReturnedTyped DEF AfterBatch, ConsumerState
<1>4. QED
  BY <1>2, <1>3

LEMMA AfterBatchIs ==
    /\ \A t \in ProducerState : t.n <= t.want =>
         /\ AfterBatch(t) \in ProducerState /\ AfterBatch(t).pc \in {"idle", "ptr"}
         /\ AfterBatch(t).k = 0 /\ AfterBatch(t).size = t.size
    /\ \A t \in ConsumerState : t.n <= t.want =>
         /\ AfterBatch(t) \in ConsumerState /\ AfterBatch(t).pc \in {"idle", "ptr"}
         /\ AfterBatch(t).k = 0 /\ AfterBatch(t).size = t.size
         /\ AfterBatch(t).op = t.op /\ AfterBatch(t).out = t.out
<1>1. \A t \in ProducerState :
         /\ AfterBatch(t).pc \in {"idle", "ptr"}
         /\ AfterBatch(t).k = 0 /\ AfterBatch(t).size = t.size
  BY DEF AfterBatch, Returned, ProducerState
<1>2. \A t \in ConsumerState :
         /\ AfterBatch(t).pc \in {"idle", "ptr"}
         /\ AfterBatch(t).k = 0 /\ AfterBatch(t).size = t.size
         /\ AfterBatch(t).op = t.op /\ AfterBatch(t).out = t.out
  BY DEF AfterBatch, Returned, ConsumerState
<1>3. QED
  BY <1>1, <1>2, AfterBatchTyped

-----------------------------------------------------------------------------
(* Initial states.                                                         *)

LEMMA InitIInv == Init => IInv
<1> SUFFICES ASSUME Init PROVE IInv
  OBVIOUS
<1> USE RingAssumption
<1>1. TypeOK
  BY DEF Init, TypeOK, Index, Slot, NoSize
<1>2. Used = 0
  BY <1>1, UsedIs DEF Init, TypeOK
<1>3. QED
  BY <1>1, <1>2
     DEF Init, IInv, QueueInv, ProducerInv, ConsumerInv, SizeIsSafe, HoldsBatch, NoSize

-----------------------------------------------------------------------------
(* Steps of the producer.                                                  *)

\* A step that leaves the indices and the slots alone, and the consumer.
LEMMA ProducerFrame ==
    ASSUME IInv, UNCHANGED <<readIndex, writeIndex, data, cons>>
    PROVE  Used' = Used /\ QueueInv' /\ ConsumerInv'
           /\ (cons.pc = "idle" /\ cons.size # NoSize => cons.size <= Used)'
BY DEF IInv, Used, QueueInv, ConsumerInv, SizeIsSafe, HoldsBatch, Index

LEMMA PushRangeKeeps ==
    ASSUME IInv, NEW count \in 0 .. MaxBatch, PushRange(count)
    PROVE  IInv'
<1> USE RingAssumption
<1>1. Used' = Used /\ QueueInv' /\ ConsumerInv'
      /\ (cons.pc = "idle" /\ cons.size # NoSize => cons.size <= Used)'
  BY ProducerFrame DEF PushRange
<1>2. TypeOK'
  <2>1. count \in Nat
    BY RingAssumption
  <2>2. prod' = [prod EXCEPT !.pc = "ptr", !.want = count, !.size = NoSize]
    BY DEF PushRange
  <2>3. prod' \in ProducerState
    BY <2>1, <2>2 DEF IInv, TypeOK, ProducerState
  <2>4. QED
    BY <2>3 DEF IInv, TypeOK, PushRange, ProducerState
<1>3. ProducerInv'
  BY <1>1 DEF IInv, TypeOK, ProducerInv, PushRange, HoldsBatch, NoSize
<1>4. SizeIsSafe'
  BY <1>1 DEF IInv, TypeOK, SizeIsSafe, PushRange, NoSize
<1>5. QED
  BY <1>1, <1>2, <1>3, <1>4 DEF IInv

LEMMA WritePtrKeeps ==
    ASSUME IInv, WritePtr
    PROVE  IInv'
<1> USE RingAssumption
<1> DEFINE n == Run(writeIndex, Capacity - Used, prod.want)
<1>1. Used' = Used /\ QueueInv' /\ ConsumerInv'
      /\ (cons.pc = "idle" /\ cons.size # NoSize => cons.size <= Used)'
  BY ProducerFrame DEF WritePtr
<1>2. Used \in Nat /\ writeIndex \in Int /\ writeIndex % Capacity \in Slot
  BY UsedIs DEF IInv, TypeOK, Index, Slot
<1>3. /\ n \in Nat /\ n <= prod.want /\ n <= Capacity - Used
      /\ (writeIndex % Capacity) + n <= Capacity
  <2>1. prod.want \in Nat /\ Capacity \in Nat /\ Used <= Capacity
    BY DEF IInv, TypeOK, WritePtr, ProducerState, QueueInv
  <2>2. writeIndex % Capacity \in 0 .. Capacity - 1
    BY <1>2 DEF Slot
  <2> QED BY <1>2, <2>1, <2>2 DEF Run, Smaller
<1>4. prod' = IF n = 0 THEN Returned(prod)
              ELSE [prod EXCEPT !.pc = "copy", !.at = writeIndex % Capacity, !.n = n]
  BY DEF WritePtr
<1> HIDE DEF n
<1>5. TypeOK'
  <2>1. prod' \in ProducerState
    <3>1. CASE n = 0
      BY <1>4, <3>1, ReturnedTyped DEF IInv, TypeOK, ProducerState
    <3>2. CASE n # 0
      BY <1>2, <1>3, <1>4, <3>2 DEF IInv, TypeOK, ProducerState
    <3>3. QED
      BY <3>1, <3>2
  <2>2. QED
    BY <2>1 DEF IInv, TypeOK, WritePtr, ProducerState
<1>6. ProducerInv'
  <2>1. prod \in ProducerState /\ prod.pc = "ptr" /\ prod.k = 0 /\ prod.size = NoSize
    BY DEF IInv, TypeOK, ProducerState, ProducerInv, HoldsBatch, WritePtr
  <2>2. CASE n = 0
    BY <1>4, <2>1, <2>2 DEF ProducerInv, HoldsBatch, Returned, ProducerState
  <2>3. CASE n # 0
    <3>1. prod' = [prod EXCEPT !.pc = "copy", !.at = writeIndex % Capacity, !.n = n]
      BY <1>4, <2>3
    <3>2. /\ prod'.pc = "copy" /\ prod'.at = writeIndex % Capacity /\ prod'.n = n
          /\ prod'.k = 0 /\ prod'.want = prod.want /\ prod'.size = NoSize
      BY <2>1, <3>1 DEF ProducerState
    <3>3. QED
      BY <1>1, <1>2, <1>3, <2>1, <2>3, <3>2
         DEF ProducerInv, HoldsBatch, ProducerState, WritePtr
  <2>4. QED
    BY <2>2, <2>3
<1>7. SizeIsSafe'
  BY <1>1, <1>4 DEF IInv, TypeOK, SizeIsSafe, ProducerInv, WritePtr, Returned
<1>8. QED
  BY <1>1, <1>5, <1>6, <1>7 DEF IInv

\* The slot that the producer writes is not in use.
LEMMA SlotWritten ==
    ASSUME IInv, HoldsBatch(prod), NEW j \in 0 .. prod.n - 1
    PROVE  /\ prod.at + j \in Slot
           /\ prod.at + j = (readIndex + Used + j) % Capacity
           /\ \A i \in 0 .. Used - 1 : prod.at + j # (readIndex + i) % Capacity
<1>1. /\ Capacity \in Nat \ {0} /\ readIndex \in Int /\ writeIndex \in Int
      /\ prod.at = writeIndex % Capacity
      /\ prod.n <= Capacity - Used /\ prod.at + prod.n <= Capacity
      /\ prod.at \in Slot /\ prod.n \in Nat
  BY RingAssumption DEF IInv, TypeOK, ProducerInv, Index
<1>2. Used \in Nat /\ j \in Nat
  BY UsedIs, <1>1 DEF IInv, TypeOK
<1>3. prod.at + j = (writeIndex + j) % Capacity
  BY <1>1, <1>2, ModNext
<1>4. prod.at + j = (readIndex + Used + j) % Capacity
  BY <1>2, <1>3, SlotOfWrite DEF IInv, TypeOK
<1>5. ASSUME NEW i \in 0 .. Used - 1, prod.at + j = (readIndex + i) % Capacity
      PROVE  FALSE
  <2>1. Used + j \in 0 .. Capacity - 1 /\ i \in 0 .. Capacity - 1 /\ i # Used + j
    BY <1>1, <1>2
  <2>2. (readIndex + i) % Capacity = (readIndex + (Used + j)) % Capacity
    BY <1>1, <1>2, <1>4, <1>5
  <2>3. QED
    BY <1>1, <2>1, <2>2, ModDistinct
<1>6. QED
  BY <1>1, <1>2, <1>4, <1>5 DEF Slot
\* The slot that the consumer reads is in use.
LEMMA SlotRead ==
    ASSUME IInv, HoldsBatch(cons), NEW j \in 0 .. cons.n - 1
    PROVE  /\ cons.at + j \in Slot
           /\ cons.at + j = (readIndex + j) % Capacity
           /\ j \in 0 .. Used - 1
<1>1. /\ Capacity \in Nat \ {0} /\ readIndex \in Int
      /\ cons.at = readIndex % Capacity
      /\ cons.n <= Used /\ cons.at + cons.n <= Capacity
      /\ cons.at \in Slot /\ cons.n \in Nat
  BY RingAssumption DEF IInv, TypeOK, ConsumerInv, Index
<1>2. Used \in Nat /\ j \in Nat
  BY UsedIs, <1>1 DEF IInv, TypeOK
<1>3. (readIndex + j) % Capacity = (readIndex % Capacity) + j
  <2>1. j < Capacity - (readIndex % Capacity)
    BY <1>1, <1>2 DEF Slot
  <2>2. QED
    BY <1>1, <1>2, <2>1, ModNext
<1>4. QED
  BY <1>1, <1>2, <1>3 DEF Slot

LEMMA CopyInKeeps ==
    ASSUME IInv, CopyIn
    PROVE  IInv'
<1>1. /\ prod \in ProducerState /\ prod.pc = "copy" /\ prod.size = NoSize
      /\ prod.at = writeIndex % Capacity /\ prod.n \in 1 .. prod.want
      /\ prod.n <= Capacity - Used /\ prod.at + prod.n <= Capacity
      /\ prod.k \in 0 .. prod.n - 1
      /\ \A j \in 0 .. prod.k - 1 : data[prod.at + j] \in Value
  BY DEF IInv, TypeOK, ProducerInv, HoldsBatch, CopyIn, ProducerState
<1>2. PICK v \in Value : data' = [data EXCEPT ![prod.at + prod.k] = v]
  BY DEF CopyIn
<1>3. /\ prod' = [prod EXCEPT !.k = prod.k + 1,
                              !.pc = IF prod.k + 1 = prod.n THEN "update" ELSE "copy"]
      /\ UNCHANGED <<readIndex, writeIndex, cons>>
  BY DEF CopyIn
<1>4. Used' = Used /\ Used \in Nat
  BY <1>3, UsedIs DEF Used, IInv, TypeOK
<1>5. /\ prod.at + prod.k \in Slot
      /\ \A i \in 0 .. Used - 1 : prod.at + prod.k # (readIndex + i) % Capacity
  BY <1>1, SlotWritten DEF HoldsBatch
<1>6. data \in [Slot -> Value \cup {NoValue}]
  BY DEF IInv, TypeOK
<1>7. \A s \in Slot : data'[s] = IF s = prod.at + prod.k THEN v ELSE data[s]
  BY <1>2, <1>5, <1>6
<1>8. /\ prod'.pc \in {"copy", "update"}
      /\ prod'.pc = "update" <=> prod'.k = prod'.n
      /\ prod'.k = prod.k + 1 /\ prod'.n = prod.n /\ prod'.at = prod.at
      /\ prod'.want = prod.want /\ prod'.size = prod.size /\ prod' \in ProducerState
  <2>1. prod.k + 1 \in Nat /\ prod.k \in Int /\ prod.n \in Int
    BY <1>1 DEF ProducerState
  <2>2. CASE prod.k + 1 = prod.n
    <3>1. prod' = [prod EXCEPT !.k = prod.k + 1, !.pc = "update"]
      BY <1>3, <2>2
    <3>2. QED
      BY <1>1, <2>1, <2>2, <3>1 DEF ProducerState
  <2>3. CASE prod.k + 1 # prod.n
    <3>1. prod' = [prod EXCEPT !.k = prod.k + 1, !.pc = "copy"]
      BY <1>3, <2>3
    <3>2. QED
      BY <1>1, <2>1, <2>3, <3>1 DEF ProducerState
  <2>4. QED
    BY <2>2, <2>3
<1>9. TypeOK'
  BY <1>2, <1>3, <1>6, <1>8 DEF IInv, TypeOK, ProducerState
<1>10. \A i \in 0 .. Used - 1 : (readIndex + i) % Capacity \in Slot
                                 /\ data'[(readIndex + i) % Capacity] = data[(readIndex + i) % Capacity]
  <2>1. \A i \in 0 .. Used - 1 : (readIndex + i) % Capacity \in Slot
    BY RingAssumption, <1>4 DEF Slot, Index, IInv, TypeOK
  <2>2. QED
    BY <2>1, <1>5, <1>7
<1>11. QueueInv'
  BY <1>3, <1>4, <1>10 DEF IInv, QueueInv
<1>12. ProducerInv'
  <2>1. ASSUME NEW j \in 0 .. prod'.k - 1
        PROVE  data'[prod.at + j] \in Value
    <3>1. j \in 0 .. prod.n - 1 /\ prod.at + j \in Slot
      BY <1>1, <1>8, SlotWritten DEF HoldsBatch
    <3>2. QED
      BY <1>1, <1>7, <1>8, <3>1
  <2>2. QED
    BY <1>1, <1>3, <1>4, <1>8, <2>1 DEF ProducerInv, HoldsBatch
<1>13. ConsumerInv'
  <2>1. ASSUME HoldsBatch(cons), NEW j \in 1 .. cons.k
        PROVE  data'[cons.at + j - 1] = data[cons.at + j - 1]
    <3>1. j - 1 \in 0 .. cons.n - 1 /\ cons.at \in Nat
      BY <2>1 DEF IInv, TypeOK, ConsumerInv, Slot
    <3>2. cons.at + (j - 1) = (readIndex + (j - 1)) % Capacity /\ j - 1 \in 0 .. Used - 1
      BY <2>1, <3>1, SlotRead
    <3>3. cons.at + j - 1 = cons.at + (j - 1)
      BY <3>1
    <3>4. QED
      BY <1>10, <3>2, <3>3
  <2>2. QED
    BY <1>3, <1>4, <2>1 DEF IInv, ConsumerInv, HoldsBatch, Index
<1>14. SizeIsSafe'
  BY <1>3, <1>4, <1>8 DEF IInv, SizeIsSafe
<1>15. QED
  BY <1>9, <1>11, <1>12, <1>13, <1>14 DEF IInv

LEMMA WriteUpdateKeeps ==
    ASSUME IInv, WriteUpdate
    PROVE  IInv' /\ Used' = Used + prod.n
<1>1. /\ prod \in ProducerState /\ prod.pc = "update" /\ prod.size = NoSize
      /\ prod.n \in 1 .. prod.want /\ prod.n <= Capacity - Used /\ prod.k = prod.n
      /\ \A j \in 0 .. prod.n - 1 : data[prod.at + j] \in Value
      /\ readIndex \in Index /\ writeIndex \in Index
      /\ Capacity \in Nat /\ IndexMod \in Nat /\ Capacity < IndexMod
  BY RingAssumption DEF IInv, TypeOK, ProducerInv, HoldsBatch, WriteUpdate, ProducerState
<1>2. /\ writeIndex' = (writeIndex + prod.n) % IndexMod
      /\ prod' = AfterBatch(prod)
      /\ UNCHANGED <<readIndex, data, cons>>
  BY DEF WriteUpdate
<1>3. Used \in 0 .. IndexMod - 1
  BY <1>1, UsedIs
<1>4. prod.n \in 0 .. Capacity
  BY <1>1, <1>3 DEF ProducerState
<1>5. writeIndex' \in Index
      /\ writeIndex' = IF writeIndex + prod.n < IndexMod THEN writeIndex + prod.n
                       ELSE writeIndex + prod.n - IndexMod
  BY <1>1, <1>2, <1>4, IndexMoved
<1>6. Used' = IF readIndex <= writeIndex' THEN writeIndex' - readIndex
              ELSE writeIndex' - readIndex + IndexMod
  <2>1. IndexMod \in Nat \ {0} /\ readIndex \in 0 .. IndexMod - 1
        /\ writeIndex' \in 0 .. IndexMod - 1
    BY <1>1, <1>5 DEF Index
  <2>2. Used' = (writeIndex' - readIndex) % IndexMod
    BY <1>2 DEF Used
  <2>3. QED
    BY <2>1, <2>2, ModDifference
<1>7. Used' = Used + prod.n
  BY <1>1, <1>3, <1>4, <1>5, <1>6, UsedIs DEF Index
<1>8. /\ prod' \in ProducerState /\ prod'.pc \in {"idle", "ptr"} /\ prod'.k = 0
      /\ prod'.size = NoSize
  BY <1>1, <1>2, AfterBatchIs
<1>9. TypeOK'
  BY <1>2, <1>5, <1>8 DEF IInv, TypeOK, ProducerState
<1>10. QueueInv'
  <2>1. ASSUME NEW i \in 0 .. Used + prod.n - 1
        PROVE  data[(readIndex + i) % Capacity] \in Value
    <3>1. CASE i < Used
      BY <1>3, <3>1 DEF IInv, QueueInv
    <3>2. CASE ~(i < Used)
      <4>1. i - Used \in 0 .. prod.n - 1 /\ readIndex \in Int
        BY <1>1, <1>3, <1>4, <3>2 DEF Index
      <4>2. prod.at + (i - Used) = (readIndex + Used + (i - Used)) % Capacity
        BY <1>1, <4>1, SlotWritten DEF HoldsBatch
      <4>3. readIndex + Used + (i - Used) = readIndex + i
        BY <1>3, <4>1
      <4>4. QED
        BY <1>1, <4>1, <4>2, <4>3
    <3>3. QED
      BY <3>1, <3>2
  <2>2. QED
    BY <1>1, <1>2, <1>3, <1>4, <1>7, <2>1 DEF QueueInv
<1>11. ProducerInv'
  BY <1>8 DEF ProducerInv, HoldsBatch
<1>12. ConsumerInv'
  <2>1. cons.pc = "size" => (cons.size - readIndex) % IndexMod \in Int
    BY <1>1 DEF IInv, TypeOK, ConsumerInv, Index
  <2>2. QED
    BY <1>1, <1>2, <1>3, <1>4, <1>7, <2>1
       DEF IInv, TypeOK, ConsumerState, ConsumerInv, HoldsBatch
<1>13. SizeIsSafe'
  BY <1>1, <1>2, <1>3, <1>4, <1>7, <1>8 DEF IInv, TypeOK, SizeIsSafe, Index
<1>14. QED
  BY <1>7, <1>9, <1>10, <1>11, <1>12, <1>13 DEF IInv

LEMMA ProducerSizesKeeps ==
    ASSUME IInv, ProducerSizes
    PROVE  IInv'
<1>1. /\ prod \in ProducerState /\ prod.pc \in {"idle", "size"} /\ prod.k = 0
      /\ prod.pc = "size" => prod.size = writeIndex
      /\ readIndex \in Index /\ writeIndex \in Index
  BY DEF IInv, TypeOK, ProducerInv, HoldsBatch, ProducerSizes, ProducerState
<1>2. Used' = Used /\ QueueInv' /\ ConsumerInv'
      /\ (cons.pc = "idle" /\ cons.size # NoSize => cons.size <= Used)'
  BY ProducerFrame DEF ProducerSizes
<1>3. Used \in Index
  BY <1>1, UsedIs DEF Index
<1>4. /\ prod' \in ProducerState /\ prod'.k = 0
      /\ \/ prod'.pc = "size" /\ prod'.size = writeIndex'
         \/ prod'.pc = "idle" /\ prod'.size = Used
  <2>1. CASE prod.pc = "idle"
    <3>1. /\ prod' = [prod EXCEPT !.pc = "size", !.size = writeIndex]
          /\ writeIndex' = writeIndex
      BY <2>1 DEF ProducerSizes
    <3>2. QED
      BY <1>1, <3>1 DEF ProducerState
  <2>2. CASE prod.pc = "size"
    <3>1. prod' = [prod EXCEPT !.pc = "idle", !.size = Used]
      BY <1>1, <2>2 DEF ProducerSizes, Used
    <3>2. QED
      BY <1>1, <1>3, <3>1 DEF ProducerState
  <2>3. QED
    BY <1>1, <2>1, <2>2
<1>5. TypeOK'
  BY <1>4 DEF IInv, TypeOK, ProducerSizes, ProducerState
<1>6. ProducerInv'
  BY <1>4 DEF ProducerInv, HoldsBatch
<1>7. SizeIsSafe'
  BY <1>2, <1>3, <1>4, RingAssumption DEF IInv, QueueInv, SizeIsSafe, Index
<1>8. QED
  BY <1>2, <1>5, <1>6, <1>7 DEF IInv
-----------------------------------------------------------------------------
(* Steps of the consumer.                                                  *)

\* A step that leaves the indices and the slots alone, and the producer.
LEMMA ConsumerFrame ==
    ASSUME IInv, UNCHANGED <<readIndex, writeIndex, data, prod>>
    PROVE  Used' = Used /\ QueueInv' /\ ProducerInv'
           /\ (prod.pc = "idle" /\ prod.size # NoSize
                 => Used <= prod.size /\ prod.size <= Capacity)'
BY DEF IInv, Used, QueueInv, ProducerInv, SizeIsSafe, HoldsBatch

LEMMA PopKeeps ==
    ASSUME IInv, NEW op \in {"pop", "drop", "front"}, NEW count \in 0 .. MaxBatch,
           Pop(op, count)
    PROVE  IInv'
<1>1. Used' = Used /\ QueueInv' /\ ProducerInv'
      /\ (prod.pc = "idle" /\ prod.size # NoSize
            => Used <= prod.size /\ prod.size <= Capacity)'
  BY ConsumerFrame DEF Pop
<1>2. /\ cons \in ConsumerState /\ cons.k = 0 /\ cons.pc = "idle"
      /\ op = "front" => count = 1
      /\ cons' = [cons EXCEPT !.pc = "ptr", !.op = op, !.want = count,
                              !.out = <<>>, !.size = NoSize]
  BY DEF IInv, TypeOK, ConsumerInv, HoldsBatch, ConsumerState, Pop
<1>3. count \in Nat /\ <<>> \in Seq(Value)
  BY RingAssumption, EmptySeq
<1>4. /\ cons' \in ConsumerState /\ cons'.pc = "ptr" /\ cons'.op = op /\ cons'.k = 0
      /\ cons'.want = count /\ cons'.out = <<>> /\ cons'.size = NoSize
  BY <1>2, <1>3 DEF ConsumerState
<1>5. TypeOK'
  BY <1>4 DEF IInv, TypeOK, Pop, ConsumerState
<1>6. ConsumerInv'
  BY <1>2, <1>4 DEF ConsumerInv, HoldsBatch
<1>7. SizeIsSafe'
  BY <1>1, <1>4 DEF SizeIsSafe
<1>8. QED
  BY <1>1, <1>5, <1>6, <1>7 DEF IInv

LEMMA ReadPtrKeeps ==
    ASSUME IInv, ReadPtr
    PROVE  IInv'
<1> DEFINE n == Run(readIndex, Used, cons.want)
           held == IF cons.op = "drop" THEN "update" ELSE "copy"
<1>1. Used' = Used /\ QueueInv' /\ ProducerInv'
      /\ (prod.pc = "idle" /\ prod.size # NoSize
            => Used <= prod.size /\ prod.size <= Capacity)'
  BY ConsumerFrame DEF ReadPtr
<1>2. /\ cons \in ConsumerState /\ cons.k = 0 /\ cons.pc = "ptr" /\ cons.size = NoSize
      /\ cons.op = "front" => cons.want = 1 /\ cons.out = <<>>
  BY DEF IInv, TypeOK, ConsumerInv, HoldsBatch, ConsumerState, ReadPtr
<1>3. Used \in Nat /\ readIndex \in Int /\ readIndex % Capacity \in Slot
  BY RingAssumption, UsedIs DEF IInv, TypeOK, Index, Slot
<1>4. /\ n \in Nat /\ n <= cons.want /\ n <= Used
      /\ (readIndex % Capacity) + n <= Capacity
  BY <1>2, <1>3, RingAssumption DEF ConsumerState, Run, Smaller, Slot
<1>5. cons' = IF n = 0 THEN Returned(cons)
              ELSE [cons EXCEPT !.pc = held, !.at = readIndex % Capacity, !.n = n]
  BY DEF ReadPtr
<1>6. held \in {"copy", "update"} /\ (held = "update" <=> cons.op = "drop")
  OBVIOUS
<1> HIDE DEF n, held
<1>7. CASE n = 0
  <2>1. /\ cons' \in ConsumerState /\ cons'.pc = "idle" /\ cons'.k = 0
        /\ cons'.size = NoSize
    BY <1>2, <1>5, <1>7, ReturnedTyped DEF Returned, ConsumerState
  <2>2. TypeOK' /\ ConsumerInv' /\ SizeIsSafe'
    BY <1>1, <2>1 DEF IInv, TypeOK, ReadPtr, ConsumerState, ConsumerInv, HoldsBatch, SizeIsSafe
  <2>3. QED
    BY <1>1, <2>2 DEF IInv
<1>8. CASE n # 0
  <2>1. cons' = [cons EXCEPT !.pc = held, !.at = readIndex % Capacity, !.n = n]
    BY <1>5, <1>8
  <2>2. /\ cons' \in ConsumerState /\ cons'.pc = held /\ cons'.k = 0
        /\ cons'.at = readIndex % Capacity /\ cons'.n = n
        /\ cons'.want = cons.want /\ cons'.op = cons.op /\ cons'.out = cons.out
        /\ cons'.size = NoSize
    BY <1>2, <1>3, <1>4, <1>6, <2>1 DEF ConsumerState
  <2>3. TypeOK' /\ SizeIsSafe'
    BY <1>1, <1>6, <2>2 DEF IInv, TypeOK, ReadPtr, ConsumerState, SizeIsSafe
  <2>4. ConsumerInv'
    <3>1. readIndex' = readIndex /\ Len(cons.out) \in Nat
      BY <1>2, LenProperties DEF ReadPtr, ConsumerState
    <3>2. n \in 1 .. cons.want /\ 0 < n
      BY <1>2, <1>4, <1>8 DEF ConsumerState
    <3>3. QED
      BY <1>1, <1>2, <1>3, <1>4, <1>6, <2>2, <3>1, <3>2 DEF ConsumerInv, HoldsBatch
  <2>5. QED
    BY <1>1, <2>3, <2>4 DEF IInv
<1>9. QED
  BY <1>7, <1>8

LEMMA ConsumerSizesKeeps ==
    ASSUME IInv, ConsumerSizes
    PROVE  IInv'
<1>1. /\ cons \in ConsumerState /\ cons.pc \in {"idle", "size"} /\ cons.k = 0
      /\ readIndex \in Index /\ writeIndex \in Index
      /\ cons.pc = "size" =>
           cons.size \in Index /\ (cons.size - readIndex) % IndexMod <= Used
  BY DEF IInv, TypeOK, ConsumerInv, HoldsBatch, ConsumerSizes, ConsumerState
<1>2. Used' = Used /\ QueueInv' /\ ProducerInv'
      /\ (prod.pc = "idle" /\ prod.size # NoSize
            => Used <= prod.size /\ prod.size <= Capacity)'
  BY ConsumerFrame DEF ConsumerSizes
<1>3. CASE cons.pc = "idle"
  <2>1. cons' = [cons EXCEPT !.pc = "size", !.size = writeIndex]
        /\ UNCHANGED <<readIndex, writeIndex, data, prod>>
    BY <1>3 DEF ConsumerSizes
  <2>2. /\ cons' \in ConsumerState /\ cons'.pc = "size" /\ cons'.size = writeIndex
        /\ cons'.k = 0 /\ cons'.op = cons.op
    BY <1>1, <2>1 DEF ConsumerState
  <2>3. TypeOK' /\ SizeIsSafe'
    BY <1>2, <2>1, <2>2 DEF IInv, TypeOK, ConsumerState, SizeIsSafe
  <2>4. (cons'.size - readIndex') % IndexMod <= Used' /\ cons'.size \in Index
    BY <1>1, <1>2, <2>1, <2>2, UsedIs DEF Used
  <2>5. ConsumerInv'
    BY <2>1, <2>2, <2>4 DEF ConsumerInv, HoldsBatch, Index
  <2>6. QED
    BY <1>2, <2>3, <2>5 DEF IInv
<1>4. CASE cons.pc = "size"
  <2>1. cons' = [cons EXCEPT !.pc = "idle", !.size = (cons.size - readIndex) % IndexMod]
        /\ UNCHANGED <<readIndex, writeIndex, data, prod>>
    BY <1>4 DEF ConsumerSizes
  <2>2. (cons.size - readIndex) % IndexMod \in Index
    BY <1>1, <1>4, RingAssumption DEF Index
  <2>3. /\ cons' \in ConsumerState /\ cons'.pc = "idle" /\ cons'.k = 0
        /\ cons'.size = (cons.size - readIndex) % IndexMod
    BY <1>1, <2>1, <2>2 DEF ConsumerState
  <2>4. TypeOK' /\ SizeIsSafe'
    BY <1>1, <1>2, <1>4, <2>1, <2>3 DEF IInv, TypeOK, ConsumerState, SizeIsSafe
  <2>5. ConsumerInv'
    BY <2>3 DEF ConsumerInv, HoldsBatch
  <2>6. QED
    BY <1>2, <2>4, <2>5 DEF IInv
<1>5. QED
  BY <1>1, <1>3, <1>4
LEMMA CopyOutKeeps ==
    ASSUME IInv, CopyOut
    PROVE  IInv'
<1> DEFINE v == data[cons.at + cons.k]
           out == Append(cons.out, v)
<1>1. Used' = Used /\ QueueInv' /\ ProducerInv'
      /\ (prod.pc = "idle" /\ prod.size # NoSize
            => Used <= prod.size /\ prod.size <= Capacity)'
  BY ConsumerFrame DEF CopyOut
<1>2. /\ cons \in ConsumerState /\ cons.pc = "copy" /\ cons.size = NoSize
      /\ cons.at = readIndex % Capacity /\ cons.n \in 1 .. cons.want
      /\ cons.n <= Used /\ cons.at + cons.n <= Capacity
      /\ cons.k \in 0 .. cons.n - 1 /\ cons.k <= Len(cons.out) /\ cons.op # "drop"
      /\ \A j \in 1 .. cons.k :
           cons.out[Len(cons.out) - cons.k + j] = data[cons.at + j - 1]
  BY DEF IInv, TypeOK, ConsumerInv, HoldsBatch, ConsumerState, CopyOut
<1>3. /\ UNCHANGED <<readIndex, writeIndex, data, prod>>
      /\ cons' = LET read == [cons EXCEPT !.out = out]
                 IN  IF cons.op = "front" THEN Returned(read)
                     ELSE [read EXCEPT !.k = cons.k + 1,
                                       !.pc = IF cons.k + 1 = cons.n THEN "update" ELSE "copy"]
  BY <1>2 DEF CopyOut, ConsumerState
<1>4. v \in Value
  <2>1. cons.k \in 0 .. cons.n - 1
    BY <1>2
  <2>2. cons.at + cons.k = (readIndex + cons.k) % Capacity /\ cons.k \in 0 .. Used - 1
    BY <1>2, <2>1, SlotRead DEF HoldsBatch
  <2>3. QED
    BY <2>2 DEF IInv, QueueInv
<1>5. /\ cons.out \in Seq(Value) /\ Len(cons.out) \in Nat
      /\ out \in Seq(Value) /\ Len(out) = Len(cons.out) + 1
      /\ \A i \in 1 .. Len(cons.out) : out[i] = cons.out[i]
      /\ out[Len(cons.out) + 1] = v
  BY <1>2, <1>4, LenProperties, AppendProperties DEF ConsumerState
<1> HIDE DEF out
<1>6. [cons EXCEPT !.out = out] \in ConsumerState
  BY <1>2, <1>5 DEF ConsumerState
<1>7. CASE cons.op = "front"
  <2>1. cons' = Returned([cons EXCEPT !.out = out])
    BY <1>3, <1>7
  <2>2. /\ cons' \in ConsumerState /\ cons'.pc = "idle" /\ cons'.k = 0
        /\ cons'.size = NoSize
    BY <1>2, <1>6, <2>1, ReturnedTyped DEF Returned, ConsumerState
  <2>3. TypeOK' /\ ConsumerInv' /\ SizeIsSafe'
    BY <1>1, <1>3, <2>2 DEF IInv, TypeOK, ConsumerState, ConsumerInv, HoldsBatch, SizeIsSafe
  <2>4. QED
    BY <1>1, <2>3 DEF IInv
<1>8. CASE cons.op # "front"
  <2>1. cons' = [[cons EXCEPT !.out = out]
                   EXCEPT !.k = cons.k + 1,
                          !.pc = IF cons.k + 1 = cons.n THEN "update" ELSE "copy"]
    BY <1>3, <1>8
  <2>2. cons.k + 1 \in Nat /\ cons.k \in Int /\ cons.n \in Int
    BY <1>2 DEF ConsumerState
  <2>3. /\ cons' \in ConsumerState /\ cons'.k = cons.k + 1 /\ cons'.out = out
        /\ cons'.pc = (IF cons.k + 1 = cons.n THEN "update" ELSE "copy")
        /\ cons'.n = cons.n /\ cons'.at = cons.at /\ cons'.op = cons.op
        /\ cons'.want = cons.want /\ cons'.size = NoSize
    <3>1. CASE cons.k + 1 = cons.n
      <4>1. cons' = [[cons EXCEPT !.out = out] EXCEPT !.k = cons.k + 1, !.pc = "update"]
        BY <2>1, <3>1
      <4>2. QED
        BY <1>2, <1>6, <2>2, <3>1, <4>1 DEF ConsumerState
    <3>2. CASE cons.k + 1 # cons.n
      <4>1. cons' = [[cons EXCEPT !.out = out] EXCEPT !.k = cons.k + 1, !.pc = "copy"]
        BY <2>1, <3>2
      <4>2. QED
        BY <1>2, <1>6, <2>2, <3>2, <4>1 DEF ConsumerState
    <3>3. QED
      BY <3>1, <3>2
  <2>4. TypeOK' /\ SizeIsSafe'
    BY <1>1, <1>3, <2>3 DEF IInv, TypeOK, ConsumerState, SizeIsSafe
  <2>5. ASSUME NEW j \in 1 .. cons.k + 1
        PROVE  out[Len(out) - (cons.k + 1) + j] = data[cons.at + j - 1]
    <3>1. CASE j = cons.k + 1
      <4>1. Len(out) - (cons.k + 1) + j = Len(cons.out) + 1
            /\ cons.at + j - 1 = cons.at + cons.k
        BY <1>2, <1>5, <2>2, <3>1 DEF ConsumerState, Slot
      <4>2. QED
        BY <1>5, <4>1
    <3>2. CASE j # cons.k + 1
      <4>1. /\ j \in 1 .. cons.k
            /\ Len(out) - (cons.k + 1) + j = Len(cons.out) - cons.k + j
            /\ Len(cons.out) - cons.k + j \in 1 .. Len(cons.out)
        <5>1. /\ cons.k \in Nat /\ Len(cons.out) \in Nat /\ cons.k <= Len(cons.out)
              /\ Len(out) = Len(cons.out) + 1 /\ j \in 1 .. cons.k + 1 /\ j # cons.k + 1
          BY <1>2, <1>5, <2>2, <3>2 DEF ConsumerState
        <5>2. QED
          BY <5>1
      <4>2. QED
        BY <1>2, <1>5, <4>1
    <3>3. QED
      BY <3>1, <3>2
  <2>6. ConsumerInv'
    <3>1. /\ cons'.k \in 0 .. cons'.n /\ cons'.k <= Len(cons'.out)
          /\ cons'.n \in 1 .. cons'.want /\ cons'.n <= Used'
          /\ cons'.at + cons'.n <= Capacity /\ cons'.at = readIndex' % Capacity
      BY <1>1, <1>2, <1>3, <1>5, <2>2, <2>3
    <3>2. /\ cons'.pc \in {"copy", "update"} /\ cons'.op # "drop" /\ cons'.op # "front"
          /\ cons'.pc = "copy" => cons'.k < cons'.n
      BY <1>2, <1>8, <2>2, <2>3
    <3>3. cons'.pc = "update" => cons'.k = cons'.n
      BY <2>2, <2>3
    <3>4. \A j \in 1 .. cons'.k :
            cons'.out[Len(cons'.out) - cons'.k + j] = data'[cons'.at + j - 1]
      BY <1>3, <2>3, <2>5
    <3>5. QED
      BY <2>3, <3>1, <3>2, <3>3, <3>4 DEF ConsumerInv, HoldsBatch
  <2>7. QED
    BY <1>1, <2>4, <2>6 DEF IInv
<1>9. QED
  BY <1>7, <1>8

LEMMA ReadUpdateKeeps ==
    ASSUME IInv, ReadUpdate
    PROVE  IInv' /\ Used' = Used - cons.n
<1>1. /\ cons \in ConsumerState /\ cons.pc = "update" /\ cons.size = NoSize
      /\ cons.n \in 1 .. cons.want /\ cons.n <= Used
      /\ readIndex \in Index /\ writeIndex \in Index /\ Used <= Capacity
      /\ Capacity \in Nat /\ IndexMod \in Nat /\ Capacity < IndexMod
      /\ cons.op # "front"
  BY RingAssumption
     DEF IInv, TypeOK, QueueInv, ConsumerInv, HoldsBatch, ReadUpdate, ConsumerState
<1>2. /\ readIndex' = (readIndex + cons.n) % IndexMod
      /\ cons' = AfterBatch(cons)
      /\ UNCHANGED <<writeIndex, data, prod>>
  BY DEF ReadUpdate
<1>3. Used \in 0 .. IndexMod - 1
  BY <1>1, UsedIs
<1>4. cons.n \in 0 .. Capacity /\ cons.n \in Nat
  BY <1>1, <1>3 DEF ConsumerState
<1>5. /\ readIndex' \in Index
      /\ readIndex' = IF readIndex + cons.n < IndexMod THEN readIndex + cons.n
                      ELSE readIndex + cons.n - IndexMod
      /\ \A i \in Nat : (readIndex' + i) % Capacity = (readIndex + cons.n + i) % Capacity
  BY <1>1, <1>2, <1>4, IndexMoved
<1>6. Used' = IF readIndex' <= writeIndex THEN writeIndex - readIndex'
              ELSE writeIndex - readIndex' + IndexMod
  <2>1. IndexMod \in Nat \ {0} /\ readIndex' \in 0 .. IndexMod - 1
        /\ writeIndex \in 0 .. IndexMod - 1
    BY <1>1, <1>5 DEF Index
  <2>2. Used' = (writeIndex - readIndex') % IndexMod
    BY <1>2 DEF Used
  <2>3. QED
    BY <2>1, <2>2, ModDifference
<1>7. Used' = Used - cons.n
  <2>1. readIndex \in 0 .. IndexMod - 1 /\ writeIndex \in 0 .. IndexMod - 1
        /\ cons.n \in Nat /\ IndexMod \in Nat /\ cons.n <= Used
    BY <1>1, <1>4 DEF Index
  <2>2. Used = IF readIndex <= writeIndex THEN writeIndex - readIndex
               ELSE writeIndex - readIndex + IndexMod
    BY <1>1, UsedIs
  <2>3. CASE readIndex + cons.n < IndexMod
    BY <1>5, <1>6, <2>1, <2>2, <2>3
  <2>4. CASE ~(readIndex + cons.n < IndexMod)
    BY <1>5, <1>6, <2>1, <2>2, <2>4
  <2>5. QED
    BY <2>3, <2>4
<1>8. /\ cons' \in ConsumerState /\ cons'.pc \in {"idle", "ptr"} /\ cons'.k = 0
      /\ cons'.size = NoSize /\ cons'.op = cons.op
  BY <1>1, <1>2, AfterBatchIs
<1>9. TypeOK'
  BY <1>2, <1>5, <1>8 DEF IInv, TypeOK, ConsumerState
<1>10. QueueInv'
  <2>1. ASSUME NEW i \in 0 .. Used - cons.n - 1
        PROVE  data[(readIndex' + i) % Capacity] \in Value
    <3>1. cons.n + i \in 0 .. Used - 1 /\ i \in Nat /\ readIndex \in Int
      BY <1>1, <1>3, <1>4 DEF Index
    <3>2. (readIndex' + i) % Capacity = (readIndex + (cons.n + i)) % Capacity
      <4>1. readIndex + cons.n + i = readIndex + (cons.n + i)
        BY <1>4, <3>1
      <4>2. QED
        BY <1>5, <3>1, <4>1
    <3>3. QED
      BY <3>1, <3>2 DEF IInv, QueueInv
  <2>2. QED
    BY <1>1, <1>2, <1>3, <1>4, <1>7, <2>1 DEF QueueInv
<1>11. ProducerInv'
  BY <1>1, <1>2, <1>3, <1>4, <1>7 DEF IInv, TypeOK, ProducerInv, HoldsBatch
<1>12. ConsumerInv'
  BY <1>1, <1>8 DEF ConsumerInv, HoldsBatch
<1>13. SizeIsSafe'
  BY <1>1, <1>2, <1>3, <1>4, <1>7, <1>8 DEF IInv, TypeOK, SizeIsSafe, Index
<1>14. QED
  BY <1>7, <1>9, <1>10, <1>11, <1>12, <1>13 DEF IInv

-----------------------------------------------------------------------------
(* The invariants.                                                         *)

LEMMA NextKeepsIInv == IInv /\ [Next]_vars => IInv'
<1> SUFFICES ASSUME IInv, [Next]_vars PROVE IInv'
  OBVIOUS
<1>1. ASSUME NEW count \in 0 .. MaxBatch, PushRange(count) PROVE IInv'
  BY <1>1, PushRangeKeeps
<1>2. CASE WritePtr
  BY <1>2, WritePtrKeeps
<1>3. CASE CopyIn
  BY <1>3, CopyInKeeps
<1>4. CASE WriteUpdate
  BY <1>4, WriteUpdateKeeps
<1>5. ASSUME NEW op \in {"pop", "drop", "front"}, NEW count \in 0 .. MaxBatch,
             Pop(op, count)
      PROVE  IInv'
  BY <1>5, PopKeeps
<1>6. CASE ReadPtr
  BY <1>6, ReadPtrKeeps
<1>7. CASE CopyOut
  BY <1>7, CopyOutKeeps
<1>8. CASE ReadUpdate
  BY <1>8, ReadUpdateKeeps
<1>9. CASE ProducerSizes
  BY <1>9, ProducerSizesKeeps
<1>10. CASE ConsumerSizes
  BY <1>10, ConsumerSizesKeeps
<1>11. CASE UNCHANGED vars
  BY <1>11 DEF vars, IInv, TypeOK, QueueInv, ProducerInv, ConsumerInv, SizeIsSafe,
               HoldsBatch, Used
<1>12. QED
  BY <1>1, <1>2, <1>3, <1>4, <1>5, <1>6, <1>7, <1>8, <1>9, <1>10, <1>11 DEF Next

LEMMA IInvHolds == Spec => []IInv
BY InitIInv, NextKeepsIInv, PTL DEF Spec

\* The two calls go through their steps with the arguments and results that
\* the code's variables can hold.
THEOREM TypesHold == Spec => []TypeOK
<1>1. IInv => TypeOK
  BY DEF IInv
<1>2. QED
  BY <1>1, IInvHolds, PTL

LEMMA IInvKeepsApart == IInv => BatchesApart
<1> SUFFICES ASSUME IInv, NEW s \in Held(prod) \cap Held(cons) PROVE FALSE
  BY DEF BatchesApart
<1>1. HoldsBatch(prod) /\ HoldsBatch(cons)
  BY DEF Held, HoldsBatch
<1>2. /\ s \in prod.at .. prod.at + prod.n - 1 /\ s \in cons.at .. cons.at + cons.n - 1
      /\ prod.at \in Int /\ cons.at \in Int /\ prod.n \in Int /\ cons.n \in Int
  BY <1>1 DEF Held, HoldsBatch, IInv, TypeOK, Slot
<1>3. s - prod.at \in 0 .. prod.n - 1 /\ s - cons.at \in 0 .. cons.n - 1
      /\ prod.at + (s - prod.at) = s /\ cons.at + (s - cons.at) = s
  BY <1>2
<1>4. \A i \in 0 .. Used - 1 : s # (readIndex + i) % Capacity
  BY <1>1, <1>3, SlotWritten
<1>5. s = (readIndex + (s - cons.at)) % Capacity /\ s - cons.at \in 0 .. Used - 1
  BY <1>1, <1>3, SlotRead
<1>6. QED
  BY <1>4, <1>5

\* write_ptr and read_ptr never give out a slot that is in use on both sides.
THEOREM BatchesStayApart == Spec => []BatchesApart
BY IInvKeepsApart, IInvHolds, PTL

\* What size returns to a thread stays true, in the thread's favour, until its
\* own next call.
THEOREM SizesAreSafe == Spec => []SizeIsSafe
<1>1. IInv => SizeIsSafe
  BY DEF IInv
<1>2. QED
  BY <1>1, IInvHolds, PTL
-----------------------------------------------------------------------------
(* The ring buffer implements the queue.                                   *)

\* The queue that the indices and the slots stand for, and what the
\* consumer's call has returned of it.
queueBar == [i \in 1 .. Used |-> data[(readIndex + i - 1) % Capacity]]
gotBar == SubSeq(cons.out, 1, Len(cons.out) - cons.k)

\* A function on 1 .. n is a sequence of length n.
LEMMA FunctionIsSeq ==
    ASSUME NEW S, NEW n \in Nat, NEW f \in [1 .. n -> S]
    PROVE  f \in Seq(S) /\ Len(f) = n
<1>1. f \in Seq(S)
  BY SeqDef
<1>2. Len(f) \in Nat /\ DOMAIN f = 1 .. Len(f) /\ DOMAIN f = 1 .. n
  BY <1>1, LenProperties
<1>3. QED
  BY <1>1, <1>2

QueueBarFacts ==
    /\ queueBar \in Seq(Value) /\ Len(queueBar) = Used /\ Used \in 0 .. Capacity
    /\ \A i \in 1 .. Used : queueBar[i] = data[(readIndex + (i - 1)) % Capacity]

LEMMA QueueBarIs == IInv => QueueBarFacts
<1> SUFFICES ASSUME IInv PROVE QueueBarFacts
  OBVIOUS
<1>1. Used \in Nat /\ Used <= Capacity /\ readIndex \in Int
  BY UsedIs DEF IInv, TypeOK, QueueInv, Index
<1>2. ASSUME NEW i \in 1 .. Used
      PROVE  /\ queueBar[i] = data[(readIndex + (i - 1)) % Capacity]
             /\ queueBar[i] \in Value
  <2>1. i - 1 \in 0 .. Used - 1 /\ readIndex + i - 1 = readIndex + (i - 1)
    BY <1>1
  <2>2. queueBar[i] = data[(readIndex + i - 1) % Capacity]
    BY DEF queueBar
  <2>3. QED
    BY <2>1, <2>2 DEF IInv, QueueInv
<1>3. queueBar \in [1 .. Used -> Value]
  BY <1>2 DEF queueBar
<1>4. QED
  BY <1>1, <1>2, <1>3, FunctionIsSeq, RingAssumption DEF QueueBarFacts

\* The queue changes with the indices, and with slots that are in use.
LEMMA QueueBarSame ==
    ASSUME UNCHANGED <<readIndex, writeIndex>>,
           \A i \in 0 .. Used - 1 :
             data'[(readIndex + i) % Capacity] = data[(readIndex + i) % Capacity],
           readIndex \in Index, writeIndex \in Index
    PROVE  queueBar' = queueBar
<1>1. Used' = Used /\ Used \in Nat /\ readIndex \in Int
  BY UsedIs DEF Used, Index
<1>2. ASSUME NEW i \in 1 .. Used
      PROVE  data'[(readIndex' + i - 1) % Capacity] = data[(readIndex + i - 1) % Capacity]
  <2>1. i - 1 \in 0 .. Used - 1 /\ readIndex' + i - 1 = readIndex + (i - 1)
        /\ readIndex + i - 1 = readIndex + (i - 1)
    BY <1>1
  <2>2. QED
    BY <2>1
<1>3. QED
  BY <1>1, <1>2 DEF queueBar

\* Copying into free slots is not seen in the queue.
LEMMA CopyInHidden ==
    ASSUME IInv, CopyIn
    PROVE  queueBar' = queueBar /\ gotBar' = gotBar
<1>1. /\ prod.pc = "copy" /\ prod.k \in 0 .. prod.n - 1
      /\ \E v \in Value : data' = [data EXCEPT ![prod.at + prod.k] = v]
      /\ UNCHANGED <<readIndex, writeIndex, cons>>
  <2>1. prod.pc = "copy"
    BY DEF CopyIn
  <2>2. prod.k \in 0 .. prod.n - 1
    BY <2>1 DEF IInv, TypeOK, ProducerInv, HoldsBatch
  <2>3. QED
    BY <2>1, <2>2 DEF CopyIn
<1>2. \A i \in 0 .. Used - 1 : prod.at + prod.k # (readIndex + i) % Capacity
  BY <1>1, SlotWritten DEF HoldsBatch
<1>3. \A i \in 0 .. Used - 1 : (readIndex + i) % Capacity \in Slot
  BY RingAssumption, UsedIs DEF Slot, Index, IInv, TypeOK
<1>4. \A i \in 0 .. Used - 1 :
        data'[(readIndex + i) % Capacity] = data[(readIndex + i) % Capacity]
  BY <1>1, <1>2, <1>3 DEF IInv, TypeOK
<1>5. queueBar' = queueBar
  BY <1>1, <1>4, QueueBarSame DEF IInv, TypeOK
<1>6. QED
  BY <1>1, <1>5 DEF gotBar

\* Moving the write index appends the producer's batch.
LEMMA WriteUpdatePushes ==
    ASSUME IInv, WriteUpdate
    PROVE  \E n \in 1 .. Capacity : Queue!Push(n)
<1> DEFINE batch == [j \in 1 .. prod.n |-> data[prod.at + (j - 1)]]
<1>1. /\ prod.pc = "update" /\ prod.n \in Nat /\ prod.n >= 1
      /\ prod.n <= Capacity - Used /\ prod.k = prod.n
      /\ \A j \in 0 .. prod.n - 1 : data[prod.at + j] \in Value
      /\ readIndex \in Int
  BY DEF IInv, TypeOK, ProducerInv, HoldsBatch, WriteUpdate, Index
<1>2. UNCHANGED <<readIndex, data, cons>>
  BY DEF WriteUpdate
<1>3. IInv' /\ Used' = Used + prod.n
  BY WriteUpdateKeeps
<1>4. /\ queueBar \in Seq(Value) /\ Len(queueBar) = Used /\ Used \in 0 .. Capacity
      /\ \A i \in 1 .. Used : queueBar[i] = data[(readIndex + (i - 1)) % Capacity]
  BY QueueBarIs DEF QueueBarFacts
<1>5. /\ queueBar' \in Seq(Value) /\ Len(queueBar') = Used' /\ Used' \in 0 .. Capacity
      /\ \A i \in 1 .. Used' : queueBar'[i] = data[(readIndex + (i - 1)) % Capacity]
  <2>1. IInv' => QueueBarFacts'
    BY QueueBarIs, PTL
  <2>2. QED
    BY <1>2, <1>3, <2>1 DEF QueueBarFacts
<1>6. batch \in [1 .. prod.n -> Value]
  <2>1. \A j \in 1 .. prod.n : j - 1 \in 0 .. prod.n - 1
    BY <1>1
  <2>2. QED
    BY <1>1, <2>1
<1>7. /\ batch \in Seq(Value) /\ Len(batch) = prod.n
      /\ \A j \in 1 .. prod.n : batch[j] = data[prod.at + (j - 1)]
  BY <1>1, <1>6, FunctionIsSeq
<1> HIDE DEF batch
<1>8. /\ queueBar \o batch \in Seq(Value) /\ Len(queueBar \o batch) = Used + prod.n
      /\ \A i \in 1 .. Used + prod.n : (queueBar \o batch)[i] =
           IF i <= Used THEN queueBar[i] ELSE batch[i - Used]
  <2>1. queueBar \in Seq(Value) /\ batch \in Seq(Value)
    BY <1>4, <1>7
  <2>2. /\ queueBar \o batch \in Seq(Value)
        /\ Len(queueBar \o batch) = Len(queueBar) + Len(batch)
        /\ \A i \in 1 .. Len(queueBar) + Len(batch) : (queueBar \o batch)[i] =
             IF i <= Len(queueBar) THEN queueBar[i] ELSE batch[i - Len(queueBar)]
    BY <2>1, ConcatProperties, Zenon
  <2>3. QED
    BY <1>4, <1>7, <2>2
<1>9. ASSUME NEW i \in 1 .. Used + prod.n
      PROVE  queueBar'[i] = (queueBar \o batch)[i]
  <2>1. CASE i <= Used
    <3>1. i \in 1 .. Used /\ i \in 1 .. Used'
      BY <1>1, <1>3, <1>4, <2>1
    <3>2. QED
      BY <1>4, <1>5, <1>8, <2>1, <3>1
  <2>2. CASE ~(i <= Used)
    <3>1. /\ i - Used \in 1 .. prod.n /\ i - Used - 1 \in 0 .. prod.n - 1
          /\ readIndex + Used + (i - Used - 1) = readIndex + (i - 1)
      BY <1>1, <1>4, <2>2
    <3>2. prod.at + (i - Used - 1) = (readIndex + (i - 1)) % Capacity
      BY <1>1, <3>1, SlotWritten DEF HoldsBatch
    <3>3. batch[i - Used] = data[prod.at + (i - Used - 1)]
      BY <1>7, <3>1
    <3>4. QED
      <4>1. (queueBar \o batch)[i] = batch[i - Used]
        BY <1>8, <2>2
      <4>2. queueBar'[i] = data[(readIndex + (i - 1)) % Capacity]
        BY <1>3, <1>5
      <4>3. QED
        BY <3>2, <3>3, <4>1, <4>2
  <2>3. QED
    BY <2>1, <2>2
<1>10. queueBar' = queueBar \o batch
  BY <1>3, <1>5, <1>8, <1>9, SeqEqual
<1>11. UNCHANGED gotBar
  BY <1>2 DEF gotBar
<1>12. Len(queueBar') <= Capacity
  BY <1>5, RingAssumption
<1>13. prod.n \in 1 .. Capacity
  BY <1>1, <1>4, RingAssumption
<1>14. QED
  BY <1>6, <1>10, <1>11, <1>12, <1>13 DEF Queue!Push, queueBar, gotBar
\* What the producer does besides, and what leaves the slots and the indices
\* alone, is not seen in the queue.
LEMMA IndicesKept ==
    ASSUME UNCHANGED <<readIndex, writeIndex, data>>
    PROVE  queueBar' = queueBar
BY DEF queueBar, Used

\* A call of the consumer begins with nothing returned.
LEMMA PopCalls ==
    ASSUME IInv, NEW op \in {"pop", "drop", "front"}, NEW count \in 0 .. MaxBatch,
           Pop(op, count)
    PROVE  Queue!Call
<1>1. /\ cons' = [cons EXCEPT !.pc = "ptr", !.op = op, !.want = count,
                              !.out = <<>>, !.size = NoSize]
      /\ UNCHANGED <<readIndex, writeIndex, data>>
      /\ cons \in ConsumerState /\ cons.k = 0
  BY DEF Pop, IInv, TypeOK, ConsumerInv, HoldsBatch, ConsumerState
<1>2. cons'.out = <<>> /\ cons'.k = 0
  BY <1>1 DEF ConsumerState
<1>3. gotBar' = <<>>
  <2>1. Len(cons'.out) - cons'.k = 0
    BY <1>2
  <2>2. SubSeq(cons'.out, 1, 0) = <<>>
    BY SubSeqEmpty
  <2>3. QED
    BY <2>1, <2>2 DEF gotBar
<1>4. queueBar' = queueBar
  BY <1>1, IndicesKept
<1>5. QED
  BY <1>3, <1>4 DEF Queue!Call, queueBar, gotBar

\* Finding out what can be read is not seen in the queue.
LEMMA ReadPtrHidden ==
    ASSUME IInv, ReadPtr
    PROVE  queueBar' = queueBar /\ gotBar' = gotBar
<1>1. /\ cons \in ConsumerState /\ cons.pc = "ptr" /\ cons.k = 0
      /\ UNCHANGED <<readIndex, writeIndex, data>>
  BY DEF ReadPtr, IInv, TypeOK, ConsumerInv, HoldsBatch, ConsumerState
<1>2. cons'.out = cons.out /\ cons'.k = 0
  BY <1>1 DEF ReadPtr, Returned, ConsumerState
<1>3. QED
  BY <1>1, <1>2, IndicesKept DEF gotBar

LEMMA ConsumerSizesHidden ==
    ASSUME IInv, ConsumerSizes
    PROVE  queueBar' = queueBar /\ gotBar' = gotBar
<1>1. cons \in ConsumerState /\ UNCHANGED <<readIndex, writeIndex, data>>
  BY DEF ConsumerSizes, IInv, TypeOK, ConsumerState
<1>2. cons'.out = cons.out /\ cons'.k = cons.k
  BY <1>1 DEF ConsumerSizes, ConsumerState
<1>3. QED
  BY <1>1, <1>2, IndicesKept DEF gotBar

\* front returns the oldest element; the copying of the other calls is not
\* seen before they move the read index.
LEMMA CopyOutPeeks ==
    ASSUME IInv, CopyOut
    PROVE  Queue!Peek \/ (queueBar' = queueBar /\ gotBar' = gotBar)
<1> DEFINE v == data[cons.at + cons.k]
           out == Append(cons.out, v)
<1>1. /\ cons \in ConsumerState /\ cons.pc = "copy"
      /\ cons.n \in Nat /\ cons.n >= 1 /\ cons.n <= Used /\ cons.k \in 0 .. cons.n - 1
      /\ cons.k \in Nat /\ cons.k <= Len(cons.out) /\ cons.out \in Seq(Value)
      /\ cons.op = "front" => cons.k = 0 /\ cons.out = <<>>
      /\ cons.at \in Slot
  BY DEF IInv, TypeOK, ConsumerInv, HoldsBatch, ConsumerState, CopyOut
<1>2. /\ UNCHANGED <<readIndex, writeIndex, data, prod>>
      /\ cons' = LET read == [cons EXCEPT !.out = out]
                 IN  IF cons.op = "front" THEN Returned(read)
                     ELSE [read EXCEPT !.k = cons.k + 1,
                                       !.pc = IF cons.k + 1 = cons.n THEN "update" ELSE "copy"]
  BY <1>1 DEF CopyOut, ConsumerState
<1>3. queueBar' = queueBar
  BY <1>2, IndicesKept
<1>4. v = data[(readIndex + cons.k) % Capacity] /\ cons.k \in 0 .. Used - 1 /\ v \in Value
  BY <1>1, SlotRead DEF HoldsBatch, IInv, QueueInv
<1>5. /\ queueBar \in Seq(Value) /\ Len(queueBar) = Used /\ Used \in Nat
      /\ \A i \in 1 .. Used : queueBar[i] = data[(readIndex + (i - 1)) % Capacity]
  BY QueueBarIs, RingAssumption DEF QueueBarFacts
<1>6. /\ out \in Seq(Value) /\ Len(out) = Len(cons.out) + 1 /\ Len(cons.out) \in Nat
      /\ \A i \in 1 .. Len(cons.out) : out[i] = cons.out[i]
  BY <1>1, <1>4, AppendProperties, LenProperties
<1>7. CASE cons.op = "front"
  <2>1. cons.out = <<>> /\ cons.k = 0
    BY <1>1, <1>7
  <2>2. cons'.out = out /\ cons'.k = 0
    BY <1>1, <1>2, <1>7 DEF Returned, ConsumerState
  <2>3. queueBar # <<>> /\ Head(queueBar) = v
    <3>1. 1 \in 1 .. Used /\ Head(queueBar) = queueBar[1]
      BY <1>4, <1>5
    <3>2. queueBar[1] = data[(readIndex + 0) % Capacity]
      BY <1>5, <3>1
    <3>3. QED
      BY <1>4, <1>5, <2>1, <3>1, <3>2
  <2>4. gotBar' = <<v>>
    <3>1. out = <<v>>
      BY <2>1
    <3>2. gotBar' = SubSeq(out, 1, Len(out))
      <4>1. Len(out) - 0 = Len(out)
        BY <1>6
      <4>2. QED
        BY <2>2, <4>1 DEF gotBar
    <3>3. QED
      BY <1>6, <3>1, <3>2, SubSeqFull
  <2>5. QED
    BY <1>3, <2>3, <2>4 DEF Queue!Peek, queueBar, gotBar
<1>8. CASE cons.op # "front"
  <2>1. cons'.out = out /\ cons'.k = cons.k + 1
    BY <1>1, <1>2, <1>8 DEF ConsumerState
  <2> DEFINE l == Len(cons.out) - cons.k
  <2>2. l \in Nat /\ l <= Len(cons.out) /\ Len(out) - (cons.k + 1) = l
    BY <1>1, <1>6
  <2>3. gotBar = SubSeq(cons.out, 1, l) /\ gotBar' = SubSeq(out, 1, l)
    BY <2>1, <2>2 DEF gotBar
  <2> HIDE DEF l
  <2>4. \A i \in 1 .. l : cons.out[i] \in Value /\ out[i] = cons.out[i]
    BY <1>1, <1>6, <2>2, ElementOfSeq
  <2>5. SubSeq(cons.out, 1, l) = SubSeq(out, 1, l)
    BY <2>2, <2>4
  <2>6. QED
    BY <1>3, <2>3, <2>5
<1>9. QED
  BY <1>7, <1>8
\* Moving the read index removes the batch that has been copied, or dropped.
LEMMA ReadUpdatePops ==
    ASSUME IInv, ReadUpdate
    PROVE  \E n \in 1 .. Capacity, keep \in BOOLEAN : Queue!Pop(n, keep)
<1> DEFINE n == cons.n
           l == Len(cons.out) - cons.k
<1>1. /\ cons \in ConsumerState /\ cons.pc = "update" /\ cons.at \in Slot
      /\ n \in Nat /\ n >= 1 /\ n <= Used /\ n <= cons.want /\ readIndex \in Int
      /\ cons.k = IF cons.op = "drop" THEN 0 ELSE n
      /\ cons.k <= Len(cons.out) /\ cons.out \in Seq(Value)
      /\ \A j \in 1 .. cons.k : cons.out[l + j] = data[cons.at + j - 1]
  BY DEF IInv, TypeOK, ConsumerInv, HoldsBatch, ConsumerState, ReadUpdate, Index
<1>2. /\ readIndex' = (readIndex + n) % IndexMod
      /\ cons' = AfterBatch(cons)
      /\ UNCHANGED <<writeIndex, data, prod>>
  BY DEF ReadUpdate
<1>3. IInv' /\ Used' = Used - n
  BY ReadUpdateKeeps
<1>4. /\ queueBar \in Seq(Value) /\ Len(queueBar) = Used
      /\ Used \in Nat /\ Used <= Capacity /\ Capacity \in Nat
      /\ \A i \in 1 .. Used : queueBar[i] = data[(readIndex + (i - 1)) % Capacity]
  BY QueueBarIs, RingAssumption DEF QueueBarFacts
<1>5. /\ queueBar' \in Seq(Value) /\ Len(queueBar') = Used - n
      /\ \A i \in 1 .. Used - n : queueBar'[i] = data[(readIndex' + (i - 1)) % Capacity]
  <2>1. IInv' => QueueBarFacts'
    BY QueueBarIs, PTL
  <2>2. QED
    BY <1>2, <1>3, <2>1 DEF QueueBarFacts
<1>6. n \in 1 .. Capacity /\ n <= Len(queueBar)
  BY <1>1, <1>4
<1>7. Len(cons.out) \in Nat /\ l \in Nat /\ l <= Len(cons.out)
  BY <1>1, LenProperties
<1>8. /\ n \in Nat /\ n >= 1 /\ n <= Used /\ Used \in Nat /\ readIndex \in Int
       /\ l \in Nat /\ Len(cons.out) \in Nat /\ (cons.op # "drop" => Len(cons.out) = l + n)
  BY <1>1, <1>4, <1>7
<1>9. queueBar' = SubSeq(queueBar, n + 1, Len(queueBar))
  <2> DEFINE rest == SubSeq(queueBar, n + 1, Len(queueBar))
  <2>1. /\ rest \in Seq(Value) /\ Len(rest) = Used - n
        /\ \A i \in 1 .. Used - n : rest[i] = queueBar[n + i]
    <3>1. \A i \in n + 1 .. Used : queueBar[i] \in Value
      BY <1>1, <1>4, ElementOfSeq
    <3>2. n + 1 \in Int /\ Used \in Int /\ rest = SubSeq(queueBar, n + 1, Used)
      BY <1>1, <1>4
    <3>3. /\ rest \in Seq(Value)
          /\ Len(rest) = IF n + 1 <= Used THEN Used - (n + 1) + 1 ELSE 0
          /\ \A i \in 1 .. Used - (n + 1) + 1 : rest[i] = queueBar[(n + 1) + i - 1]
      BY <3>1, <3>2, SubSeqProperties
    <3> HIDE DEF rest
    <3>4. QED
      <4>1. \A i \in 1 .. Used - n : (n + 1) + i - 1 = n + i
                                     /\ i \in 1 .. Used - (n + 1) + 1
        BY <1>8
      <4>2. Len(rest) = Used - n
        BY <1>8, <3>3
      <4>3. QED
        BY <3>3, <4>1, <4>2
  <2>2. ASSUME NEW i \in 1 .. Used - n
        PROVE  queueBar'[i] = rest[i]
    <3>1. /\ i - 1 \in Nat /\ n + i \in 1 .. Used
          /\ readIndex + n + (i - 1) = readIndex + (n + i - 1)
      BY <1>8
    <3>2. (readIndex' + (i - 1)) % Capacity = (readIndex + n + (i - 1)) % Capacity
      <4>1. readIndex \in Index /\ n \in 0 .. Capacity
        BY <1>6 DEF IInv, TypeOK
      <4>2. QED
        BY <1>2, <3>1, <4>1, IndexMoved
    <3>3. queueBar[n + i] = data[(readIndex + (n + i - 1)) % Capacity]
      <4>1. (n + i) - 1 = n + i - 1
        BY <1>8
      <4>2. QED
        BY <1>4, <3>1, <4>1
    <3>4. QED
      BY <1>5, <2>1, <3>1, <3>2, <3>3
  <2> HIDE DEF rest
  <2>3. queueBar' = rest
    BY <1>5, <2>1, <2>2, SeqEqual
  <2>4. QED
    BY <2>3 DEF rest
<1>10. gotBar' = cons.out
  <2>1. cons'.out = cons.out /\ cons'.k = 0
    BY <1>1, <1>2, AfterBatchIs
  <2>2. Len(cons.out) - 0 = Len(cons.out)
    BY <1>7
  <2>3. QED
    BY <1>1, <2>1, <2>2, SubSeqFull DEF gotBar
<1>11. gotBar' = IF cons.op # "drop" THEN gotBar \o SubSeq(queueBar, 1, n) ELSE gotBar
  <2>1. CASE cons.op = "drop"
    <3>1. l = Len(cons.out)
      BY <1>1, <1>7, <2>1
    <3>2. gotBar = cons.out
      BY <1>1, <3>1, SubSeqFull DEF gotBar
    <3>3. QED
      BY <1>10, <2>1, <3>2
  <2>2. CASE cons.op # "drop"
    <3> DEFINE batch == SubSeq(queueBar, 1, n)
    <3>1. cons.k = n /\ l = Len(cons.out) - n
      BY <1>1, <2>2
    <3>2. /\ gotBar \in Seq(Value) /\ Len(gotBar) = l
          /\ \A i \in 1 .. l : gotBar[i] = cons.out[i]
      <4>1. \A i \in 1 .. l : cons.out[i] \in Value
        BY <1>1, <1>7, ElementOfSeq
      <4>2. 1 \in Int /\ l \in Int /\ gotBar = SubSeq(cons.out, 1, l)
        BY <1>7 DEF gotBar
      <4>3. /\ gotBar \in Seq(Value) /\ Len(gotBar) = IF 1 <= l THEN l - 1 + 1 ELSE 0
            /\ \A i \in 1 .. l - 1 + 1 : gotBar[i] = cons.out[1 + i - 1]
        BY <4>1, <4>2, SubSeqProperties
      <4>4. QED
        BY <1>7, <4>3
    <3>3. /\ batch \in Seq(Value) /\ Len(batch) = n
          /\ \A i \in 1 .. n : batch[i] = queueBar[i]
      <4>1. \A i \in 1 .. n : queueBar[i] \in Value
        BY <1>1, <1>4, ElementOfSeq
      <4>2. 1 \in Int /\ n \in Int
        BY <1>1
      <4>3. /\ batch \in Seq(Value) /\ Len(batch) = IF 1 <= n THEN n - 1 + 1 ELSE 0
            /\ \A i \in 1 .. n - 1 + 1 : batch[i] = queueBar[1 + i - 1]
        BY <4>1, <4>2, SubSeqProperties
      <4>4. QED
        BY <1>1, <4>3
    <3> HIDE DEF batch
    <3>4. /\ gotBar \o batch \in Seq(Value)
          /\ Len(gotBar \o batch) = Len(gotBar) + Len(batch)
          /\ \A i \in 1 .. Len(gotBar) + Len(batch) : (gotBar \o batch)[i] =
               IF i <= Len(gotBar) THEN gotBar[i] ELSE batch[i - Len(gotBar)]
      BY <3>2, <3>3, ConcatProperties, Zenon
    <3>5. Len(gotBar \o batch) = Len(cons.out)
      BY <1>1, <1>7, <3>1, <3>2, <3>3, <3>4
    <3>6. ASSUME NEW i \in 1 .. Len(cons.out)
          PROVE  cons.out[i] = (gotBar \o batch)[i]
      <4>1. CASE i <= l
        <5>1. i \in 1 .. l /\ i \in 1 .. Len(gotBar) + Len(batch) /\ i <= Len(gotBar)
          BY <1>1, <1>7, <3>2, <3>3, <4>1
        <5>2. QED
          BY <3>2, <3>4, <5>1
      <4>2. CASE ~(i <= l)
        <5>1. /\ i - l \in 1 .. n /\ i \in 1 .. Len(gotBar) + Len(batch)
              /\ ~(i <= Len(gotBar)) /\ l + (i - l) = i
          <6>1. Len(gotBar) = l /\ Len(batch) = n /\ Len(cons.out) = l + n
            BY <1>8, <2>2, <3>2, <3>3
          <6>2. QED
            BY <1>8, <4>2, <6>1
        <5>2. (gotBar \o batch)[i] = queueBar[i - l]
          BY <3>2, <3>3, <3>4, <5>1
        <5>3. i - l \in 1 .. Used /\ (i - l) - 1 \in 0 .. n - 1
          BY <1>1, <1>4, <5>1
        <5>4. queueBar[i - l] = data[cons.at + ((i - l) - 1)]
          BY <1>1, <1>4, <5>3, SlotRead DEF HoldsBatch
        <5>5. cons.out[i] = data[cons.at + (i - l) - 1]
          BY <1>1, <3>1, <5>1
        <5>6. cons.at + (i - l) - 1 = cons.at + ((i - l) - 1)
          BY <1>1, <1>7 DEF Slot
        <5>7. QED
          BY <5>2, <5>4, <5>5, <5>6
      <4>3. QED
        BY <4>1, <4>2
    <3>7. cons.out = gotBar \o batch
      BY <1>1, <3>4, <3>5, <3>6, SeqEqual
    <3>8. QED
      BY <1>10, <2>2, <3>7 DEF batch
  <2>3. QED
    BY <2>1, <2>2
<1>12. (cons.op # "drop") \in BOOLEAN
  OBVIOUS
<1>13. QED
  BY <1>6, <1>9, <1>11, <1>12 DEF Queue!Pop, queueBar, gotBar

-----------------------------------------------------------------------------

LEMMA InitIsQueueInit == Init => Queue!Init
<1> SUFFICES ASSUME Init PROVE Queue!Init
  OBVIOUS
<1>1. IInv /\ Used = 0
  <2>1. IInv
    BY InitIInv
  <2>2. QED
    BY <2>1, UsedIs DEF Init, IInv, TypeOK
<1>2. queueBar = <<>>
  BY <1>1, QueueBarIs, EmptySeq DEF QueueBarFacts
<1>3. gotBar = <<>>
  BY SubSeqEmpty DEF gotBar, Init
<1>4. QED
  BY <1>2, <1>3 DEF Queue!Init, queueBar, gotBar

\* Every step is a step of the queue, or is not seen in it.
LEMMA NextIsQueueNext ==
    IInv /\ [Next]_vars => [Queue!Next]_<<queueBar, gotBar>>
<1> DEFINE Hidden == queueBar' = queueBar /\ gotBar' = gotBar
<1> SUFFICES ASSUME IInv, [Next]_vars PROVE Queue!Next \/ Hidden
  OBVIOUS
<1>1. ASSUME NEW count \in 0 .. MaxBatch, PushRange(count) PROVE Hidden
  BY <1>1, IndicesKept DEF PushRange, gotBar
<1>2. CASE WritePtr
  BY <1>2, IndicesKept DEF WritePtr, gotBar
<1>3. CASE CopyIn
  BY <1>3, CopyInHidden
<1>4. CASE WriteUpdate
  BY <1>4, WriteUpdatePushes DEF Queue!Next
<1>5. ASSUME NEW op \in {"pop", "drop", "front"}, NEW count \in 0 .. MaxBatch,
             Pop(op, count)
      PROVE  Queue!Next
  BY <1>5, PopCalls DEF Queue!Next
<1>6. CASE ReadPtr
  BY <1>6, ReadPtrHidden
<1>7. CASE CopyOut
  BY <1>7, CopyOutPeeks DEF Queue!Next
<1>8. CASE ReadUpdate
  BY <1>8, ReadUpdatePops DEF Queue!Next
<1>9. CASE ProducerSizes
  BY <1>9, IndicesKept DEF ProducerSizes, gotBar
<1>10. CASE ConsumerSizes
  BY <1>10, ConsumerSizesHidden
<1>11. CASE UNCHANGED vars
  BY <1>11, IndicesKept DEF vars, gotBar
<1>12. QED
  BY <1>1, <1>2, <1>3, <1>4, <1>5, <1>6, <1>7, <1>8, <1>9, <1>10, <1>11 DEF Next

\* The calls of push_range, pop_range and front, cut into batches and
\* interleaved as they come, are operations of one bounded queue.
THEOREM ImplementsFifo == Spec => FifoSpec
<1>1. IInv /\ [Next]_vars => [Queue!Next]_(Queue!vars)
  BY NextIsQueueNext DEF Queue!vars, queueBar, gotBar
<1>2. QED
  BY IInvHolds, InitIsQueueInit, <1>1, PTL DEF Spec, FifoSpec, Queue!Spec
=============================================================================
