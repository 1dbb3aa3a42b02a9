------------------------ MODULE CommandBuffer_proofs ------------------------
(***************************************************************************)
(* Proofs about CommandBuffer, for every number of threads, commands and   *)
(* entities.                                                               *)
(*                                                                         *)
(* Recording: thread_storage gives every thread a T of its own, whatever   *)
(* the number of threads and slots, as it is used by command_buffer:       *)
(* between the calls of get the threads record, and execute runs.  It      *)
(* follows that the commands on a handle are all in one local, and that    *)
(* what the calls on it ask for is what these commands come to (Rec).      *)
(*                                                                         *)
(* Executing: when execute has returned, what the recorded calls ask for   *)
(* is what the world holds.  execute is one loop over turns, the j-th turn *)
(* of the q-th phase in the s-th local, and Past says which are behind it. *)
(* The invariant ExecInv relates the world to the locals as they were      *)
(* recorded, L, and to the turns that are past.  A cast may take the next  *)
(* command's entity along; its own turn then finds it cast already and     *)
(* changes nothing (Applied).                                              *)
(***************************************************************************)
EXTENDS CommandBuffer, FiniteSetTheorems, SequenceTheorems, WellFoundedInduction, TLAPS


-----------------------------------------------------------------------------
(* What a step of the buffer is to the storage.                            *)

LEMMA NextIsStorageNext == [Next]_vars => [StorageNext]_storageVars
<1> SUFFICES ASSUME [Next]_vars PROVE StorageNext \/ UNCHANGED storageVars
  OBVIOUS
<1>1. ASSUME NEW t \in Thread, Recording(t)
      PROVE  StorageNext \/ UNCHANGED storageVars
  <2>1. CASE GetBegin(t)
    BY <2>1 DEF StorageNext
  <2>2. CASE Get(t)
    BY <2>2 DEF StorageNext
  <2>3. CASE LetGo(t)
    BY <2>3 DEF StorageNext
  <2>4. ASSUME NEW h \in Known(t), Begin(t, h) \/ Destroy(t, h)
        PROVE  UNCHANGED storageVars
    BY <2>4 DEF Begin, Destroy, Record
  <2>5. ASSUME NEW types \in Given, Allocate(t, types)
        PROVE  UNCHANGED storageVars
    BY <2>5 DEF Allocate, Record
  <2>6. ASSUME NEW source \in Task[t], Instantiate(t, source)
        PROVE  UNCHANGED storageVars
    BY <2>6 DEF Instantiate, Record
  <2>7. ASSUME NEW d \in Diff, Cast(t, d)
        PROVE  UNCHANGED storageVars
    BY <2>7 DEF Cast, Record
  <2>8. ASSUME NEW h \in Known(t), SetComponent(t, h)
        PROVE  UNCHANGED storageVars
    BY <2>8 DEF SetComponent, Record
  <2>9. CASE PatchComponent(t)
    BY <2>9 DEF PatchComponent, Record
  <2>10. QED
    BY <1>1, <2>1, <2>2, <2>3, <2>4, <2>5, <2>6, <2>7, <2>8, <2>9 DEF Recording
<1>2. CASE ExecuteBegin
  BY <1>2 DEF ExecuteBegin, Enter
<1>3. CASE Executing
  <2> USE DEF Unchanged
  <2>1. CASE NextLocal
    BY <2>1 DEF NextLocal, Enter
  <2>2. CASE Spin
    BY <2>2 DEF Spin
  <2>3. CASE ExecuteAllocate
    BY <2>3 DEF ExecuteAllocate, Create
  <2>4. CASE ExecuteInstantiate
    BY <2>4 DEF ExecuteInstantiate, Create
  <2>5. CASE ExecuteResolve
    BY <2>5 DEF ExecuteResolve
  <2>6. CASE ExecuteCast
    BY <2>6 DEF ExecuteCast
  <2>7. CASE ExecuteSet
    BY <2>7 DEF ExecuteSet
  <2>8. CASE ExecuteDestroy
    BY <2>8 DEF ExecuteDestroy
  <2>9. QED
    BY <1>3, <2>1, <2>2, <2>3, <2>4, <2>5, <2>6, <2>7, <2>8 DEF Executing
<1>4. CASE UNCHANGED vars
  BY <1>4 DEF vars
<1>5. QED
  BY <1>1, <1>2, <1>3, <1>4 DEF Next

-----------------------------------------------------------------------------
(* The inductive invariant.                                                *)

Taken == 0 .. slots - 1

StorageTypes ==
    /\ DOMAIN ids = Slot
    /\ slots \in Nat
    /\ get \in [Thread -> [pc : {"out", "scan", "take", "store", "in"},
                           i : Nat, slot : Nat]]

\* The threads that have a slot, or have reserved one and not stored their id.
Holders == {t \in Thread : get[t].pc = "store" \/ \E s \in constructed : ids[s] = t}

\* There is a slot for each of them, and none is taken without one.
OneSlotEach == Cardinality(Holders) = slots

\* An id is stored in one slot at most, and the others hold what they held.
IdsSound ==
    /\ constructed \subseteq Taken
    /\ \A s \in Slot \ constructed : ids[s] = IdsBefore[s]
    /\ \A s \in constructed : ids[s] \in Thread
    /\ \A s, r \in constructed : ids[s] = ids[r] => s = r

\* What a thread in the middle of get knows: its id is not stored in what it
\* has passed in its search, nor will it be; a slot reserved is reserved by one
\* thread; and what a thread was let into is its own, or looked like it.
CallSound(t) ==
    /\ get[t].pc = "scan" => \A s \in constructed : s < get[t].i => ids[s] # t
    /\ get[t].pc \in {"take", "store"} => \A s \in constructed : ids[s] # t
    /\ get[t].pc = "store" =>
         /\ get[t].slot \in Taken /\ get[t].slot \notin constructed
         /\ \A u \in Thread \ {t} : get[u].pc = "store" => get[u].slot # get[t].slot
    /\ get[t].pc = "in" =>
         /\ get[t].slot \in Taken
         /\ \/ get[t].slot \in constructed /\ ids[get[t].slot] = t
            \/ IdsBefore[get[t].slot] = t

SlotInv ==
    StorageTypes /\ OneSlotEach /\ IdsSound /\ \A t \in Thread : CallSound(t)
-----------------------------------------------------------------------------
(* Initial states, and the steps of a thread.                              *)

LEMMA OwnersAreFew ==
    ASSUME NEW S \in SUBSET Thread
    PROVE  IsFiniteSet(S) /\ Cardinality(S) \in Nat /\ Cardinality(S) <= SlotCount
<1>1. IsFiniteSet(S) /\ Cardinality(S) <= Cardinality(Thread)
  BY StorageAssumption, FS_Subset
<1>2. Cardinality(S) \in Nat /\ Cardinality(Thread) \in Nat
  BY <1>1, StorageAssumption, FS_CardinalityType
<1>3. QED
  BY <1>1, <1>2, StorageAssumption

LEMMA SlotsAreThere ==
    ASSUME SlotInv
    PROVE  slots \in Nat /\ slots <= SlotCount /\ Taken \subseteq Slot
<1>1. slots \in Nat /\ Holders \in SUBSET Thread /\ Cardinality(Holders) = slots
  BY DEF SlotInv, StorageTypes, OneSlotEach, Holders
<1>2. slots <= SlotCount
  BY <1>1, OwnersAreFew
<1>3. QED
  BY <1>1, <1>2, StorageAssumption DEF Taken, Slot

LEMMA InitSlotInv == StorageInit => SlotInv
<1> SUFFICES ASSUME StorageInit PROVE SlotInv
  OBVIOUS
<1>1. /\ ids = IdsBefore /\ slots = 0 /\ constructed = {}
      /\ get = [t \in Thread |-> [pc |-> "out", i |-> 0, slot |-> 0]]
  BY DEF StorageInit
<1>2. StorageTypes
  BY <1>1, StorageAssumption DEF StorageTypes
<1>3. OneSlotEach
  <2>1. Holders = {}
    BY <1>1 DEF Holders
  <2>2. QED
    BY <1>1, <2>1, FS_EmptySet DEF OneSlotEach
<1>4. IdsSound
  BY <1>1 DEF IdsSound
<1>5. \A t \in Thread : CallSound(t)
  BY <1>1 DEF CallSound
<1>6. QED
  BY <1>2, <1>3, <1>4, <1>5 DEF SlotInv

\* A step that takes no slot and stores no id.
LEMMA SearchKeeps ==
    ASSUME SlotInv, NEW t \in Thread, GetBegin(t) \/ GetScan(t) \/ LetGo(t)
    PROVE  SlotInv'
<1>1. UNCHANGED <<ids, slots, constructed>> /\ Taken' = Taken
  BY DEF GetBegin, GetScan, LetGo, Taken
<1>2. /\ get' \in [Thread -> [pc : {"out", "scan", "take", "store", "in"},
                              i : Nat, slot : Nat]]
      /\ \A u \in Thread \ {t} : get'[u] = get[u]
      /\ get[t].pc # "store" /\ get'[t].pc # "store"
  <2> USE DEF SlotInv, StorageTypes
  <2>1. CASE GetBegin(t)
    BY <2>1 DEF GetBegin
  <2>2. CASE GetScan(t)
    <3>1. CASE get[t].i >= slots
      BY <2>2, <3>1 DEF GetScan
    <3>2. CASE ~(get[t].i >= slots) /\ ids[get[t].i] = t
      BY <2>2, <3>2 DEF GetScan
    <3>3. CASE ~(get[t].i >= slots) /\ ids[get[t].i] # t
      BY <2>2, <3>3 DEF GetScan
    <3>4. QED
      BY <3>1, <3>2, <3>3
  <2>3. CASE LetGo(t)
    BY <2>3 DEF LetGo
  <2>4. QED
    BY <2>1, <2>2, <2>3
<1>3. StorageTypes' /\ IdsSound'
  BY <1>1, <1>2 DEF SlotInv, StorageTypes, IdsSound
<1>4. OneSlotEach'
  <2>1. Holders' = Holders
    BY <1>1, <1>2 DEF Holders
  <2>2. QED
    BY <1>1, <2>1 DEF SlotInv, OneSlotEach
<1>5. ASSUME NEW u \in Thread \ {t}
      PROVE  CallSound(u)'
  BY <1>1, <1>2 DEF SlotInv, CallSound
<1>6. CallSound(t)'
  <2>0. constructed \subseteq Taken /\ slots \in Nat /\ constructed' = constructed
        /\ ids' = ids
    BY <1>1 DEF SlotInv, IdsSound, StorageTypes
  <2>1. CASE GetBegin(t)
    <3>1. get'[t].pc = "scan" /\ get'[t].i = 0
      BY <2>1 DEF GetBegin, SlotInv, StorageTypes
    <3>2. \A s \in constructed : ~(s < get'[t].i)
      <4>1. \A s \in Taken : s \in Nat
        BY <2>0 DEF Taken
      <4>2. QED
        BY <2>0, <3>1, <4>1
    <3>3. QED
      BY <2>0, <3>1, <3>2 DEF CallSound
  <2>2. CASE GetScan(t)
    <3>0. get[t].pc = "scan" /\ \A s \in constructed : s < get[t].i => ids[s] # t
      BY <2>2 DEF GetScan, SlotInv, CallSound
    <3>1. CASE get[t].i >= slots
      <4>1. get'[t].pc = "take"
        BY <2>2, <3>1 DEF GetScan, SlotInv, StorageTypes
      <4>2. \A s \in constructed : s < get[t].i
        BY <2>0, <3>1 DEF Taken, SlotInv, StorageTypes
      <4>3. QED
        BY <2>0, <3>0, <4>1, <4>2 DEF CallSound
    <3>2. CASE ~(get[t].i >= slots) /\ ids[get[t].i] = t
      <4>1. get'[t].pc = "in" /\ get'[t].slot = get[t].i
        BY <2>2, <3>2 DEF GetScan, SlotInv, StorageTypes
      <4>2. get[t].i \in Taken /\ get[t].i \in Slot
        <5>1. get[t].i \in Taken
          BY <2>0, <3>2 DEF Taken, SlotInv, StorageTypes
        <5>2. QED
          BY <5>1, SlotsAreThere
      <4>3. get[t].i \in constructed \/ IdsBefore[get[t].i] = t
        BY <3>2, <4>2 DEF SlotInv, IdsSound
      <4>4. QED
        BY <1>1, <2>0, <3>2, <4>1, <4>2, <4>3 DEF CallSound
    <3>3. CASE ~(get[t].i >= slots) /\ ids[get[t].i] # t
      <4>1. get'[t].pc = "scan" /\ get'[t].i = get[t].i + 1 /\ get[t].i \in Nat
        BY <2>2, <3>3 DEF GetScan, SlotInv, StorageTypes
      <4>2. \A s \in constructed : s < get[t].i + 1 => s < get[t].i \/ s = get[t].i
        BY <2>0, <4>1 DEF Taken
      <4>3. QED
        BY <2>0, <3>0, <3>3, <4>1, <4>2 DEF CallSound
    <3>4. QED
      BY <3>1, <3>2, <3>3
  <2>3. CASE LetGo(t)
    <3>1. get'[t].pc = "out"
      BY <2>3 DEF LetGo, SlotInv, StorageTypes
    <3>2. QED
      BY <3>1 DEF CallSound
  <2>4. QED
    BY <2>1, <2>2, <2>3
<1>7. QED
  BY <1>3, <1>4, <1>5, <1>6 DEF SlotInv

\* A slot is reserved: there is one, it is nobody's, and no id is stored in it.
LEMMA TakeKeeps ==
    ASSUME SlotInv, NEW t \in Thread, GetTake(t)
    PROVE  SlotInv'
<1>1. /\ get[t].pc = "take" /\ slots' = slots + 1 /\ slots \in Nat
      /\ get' = [get EXCEPT ![t].pc = "store", ![t].slot = slots]
      /\ UNCHANGED <<ids, constructed>>
  BY DEF GetTake, SlotInv, StorageTypes
<1>2. StorageTypes'
  <2>1. /\ get \in [Thread -> [pc : {"out", "scan", "take", "store", "in"},
                               i : Nat, slot : Nat]]
        /\ DOMAIN ids = Slot
    BY DEF SlotInv, StorageTypes
  <2>2. /\ get' \in [Thread -> [pc : {"out", "scan", "take", "store", "in"},
                                i : Nat, slot : Nat]]
    BY <1>1, <2>1
  <2>3. QED
    BY <1>1, <2>1, <2>2 DEF StorageTypes
<1>3. /\ get'[t].pc = "store" /\ get'[t].slot = slots
      /\ \A u \in Thread \ {t} : get'[u] = get[u]
  BY <1>1 DEF SlotInv, StorageTypes
<1>4. /\ Taken' = Taken \cup {slots} /\ slots \notin Taken
      /\ constructed \subseteq Taken
  BY <1>1 DEF Taken, SlotInv, IdsSound
<1>5. OneSlotEach'
  <2>1. t \notin Holders
    BY <1>1 DEF Holders, SlotInv, CallSound
  <2>2. Holders' = Holders \cup {t}
    BY <1>1, <1>3 DEF Holders
  <2>3. Cardinality(Holders \cup {t}) = Cardinality(Holders) + 1
    <3>1. Holders \in SUBSET Thread
      BY DEF Holders
    <3>2. QED
      BY <2>1, <3>1, OwnersAreFew, FS_AddElement
  <2>4. QED
    BY <1>1, <2>2, <2>3 DEF SlotInv, OneSlotEach
<1>6. IdsSound'
  BY <1>1, <1>4 DEF SlotInv, IdsSound
<1>7. CallSound(t)'
  <2>1. \A u \in Thread \ {t} : get'[u].pc = "store" => get'[u].slot # slots
    BY <1>3, <1>4 DEF SlotInv, CallSound
  <2>2. \A s \in constructed' : ids'[s] # t
    BY <1>1 DEF SlotInv, CallSound
  <2>3. slots \in Taken' /\ slots \notin constructed'
    BY <1>1, <1>4
  <2>4. QED
    BY <1>3, <2>1, <2>2, <2>3 DEF CallSound
<1>8. ASSUME NEW u \in Thread \ {t}
      PROVE  CallSound(u)'
  <2>1. get'[u] = get[u] /\ CallSound(u)
    BY <1>3 DEF SlotInv
  <2>2. ASSUME get[u].pc = "store", NEW w \in Thread \ {u}, get'[w].pc = "store"
        PROVE  get'[w].slot # get[u].slot
    <3>1. CASE w = t
      BY <1>3, <1>4, <2>1, <2>2, <3>1 DEF CallSound
    <3>2. CASE w # t
      BY <1>3, <2>1, <2>2, <3>2 DEF CallSound
    <3>3. QED
      BY <3>1, <3>2
  <2>3. get[u].pc = "store" => get[u].slot \in Taken' /\ get[u].slot \notin constructed'
    BY <1>1, <1>4, <2>1 DEF CallSound
  <2>4. Taken \subseteq Taken'
    BY <1>4
  <2>5. \A w \in Thread \ {u} : get[u].pc = "store" /\ get'[w].pc = "store"
                                   => get'[w].slot # get[u].slot
    BY <2>2
  <2>6. ids' = ids /\ constructed' = constructed
    BY <1>1
  <2>7. QED
    BY <2>1, <2>3, <2>4, <2>5, <2>6 DEF CallSound
<1>9. QED
  BY <1>2, <1>5, <1>6, <1>7, <1>8 DEF SlotInv

\* The id is stored in the slot reserved for it.
LEMMA StoreKeeps ==
    ASSUME SlotInv, NEW t \in Thread, GetStore(t)
    PROVE  SlotInv'
<1> DEFINE own == get[t].slot
<1>1. /\ get[t].pc = "store" /\ UNCHANGED slots /\ Taken' = Taken
      /\ ids' = [ids EXCEPT ![own] = t]
      /\ constructed' = constructed \cup {own}
      /\ get' = [get EXCEPT ![t].pc = "in"]
  BY DEF GetStore, Taken
<1>2. /\ own \in Taken /\ own \notin constructed
      /\ \A s \in constructed : ids[s] # t
      /\ \A u \in Thread \ {t} : get[u].pc = "store" => get[u].slot # own
  BY <1>1 DEF SlotInv, CallSound
<1>3. Taken \subseteq Slot /\ constructed \subseteq Taken
  BY SlotsAreThere DEF SlotInv, IdsSound
<1>4. /\ DOMAIN ids' = Slot /\ ids'[own] = t
      /\ \A s \in Slot : s # own => ids'[s] = ids[s]
  BY <1>1, <1>2, <1>3 DEF SlotInv, StorageTypes
<1>5. /\ get'[t].pc = "in" /\ get'[t].slot = own
      /\ \A u \in Thread \ {t} : get'[u] = get[u]
  BY <1>1 DEF SlotInv, StorageTypes
<1>6. StorageTypes'
  BY <1>1, <1>4 DEF SlotInv, StorageTypes
<1>7. OneSlotEach'
  <2>1. ASSUME NEW u \in Thread
        PROVE  (\E s \in constructed' : ids'[s] = u)
                   <=> u = t \/ \E s \in constructed : ids[s] = u
    BY <1>1, <1>2, <1>3, <1>4
  <2>2. Holders' = Holders
    BY <1>1, <1>5, <2>1 DEF Holders
  <2>3. QED
    BY <1>1, <2>2 DEF SlotInv, OneSlotEach
<1>8. IdsSound'
  <2>1. constructed' \subseteq Taken' /\ \A s \in Slot \ constructed' : ids'[s] = IdsBefore[s]
    BY <1>1, <1>2, <1>3, <1>4 DEF SlotInv, IdsSound
  <2>2. \A s \in constructed' : ids'[s] \in Thread
    BY <1>1, <1>3, <1>4 DEF SlotInv, IdsSound
  <2>3. \A s, r \in constructed' : ids'[s] = ids'[r] => s = r
    BY <1>1, <1>2, <1>3, <1>4 DEF SlotInv, IdsSound
  <2>4. QED
    BY <2>1, <2>2, <2>3 DEF IdsSound
<1>9. CallSound(t)'
  BY <1>1, <1>2, <1>4, <1>5 DEF CallSound
<1>10. ASSUME NEW u \in Thread \ {t}
       PROVE  CallSound(u)'
  <2>1. get'[u] = get[u] /\ CallSound(u)
    BY <1>5 DEF SlotInv
  <2>2. \A s \in constructed' : ids'[s] = u => s \in constructed /\ ids[s] = u
    BY <1>1, <1>3, <1>4
  <2>3. \A w \in Thread : get'[w].pc = "store" => w # t /\ get'[w] = get[w]
    BY <1>5
  <2>4. get[u].pc = "store" => get[u].slot \in Taken' /\ get[u].slot \notin constructed'
    BY <1>1, <1>2, <2>1 DEF CallSound
  <2>5. \A s \in constructed : s \in constructed' /\ ids'[s] = ids[s]
    BY <1>1, <1>2, <1>3, <1>4
  <2>6. \A w \in Thread \ {u} : get'[u].pc = "store" /\ get'[w].pc = "store"
                                   => get'[w].slot # get'[u].slot
    BY <2>1, <2>3 DEF CallSound
  <2>7. Taken' = Taken
    BY <1>1
  <2>8. QED
    BY <2>1, <2>2, <2>4, <2>5, <2>6, <2>7 DEF CallSound
<1>11. QED
  BY <1>6, <1>7, <1>8, <1>9, <1>10 DEF SlotInv

-----------------------------------------------------------------------------

LEMMA StepKeepsSlotInv == SlotInv /\ [StorageNext]_storageVars => SlotInv'
<1> SUFFICES ASSUME SlotInv, [StorageNext]_storageVars PROVE SlotInv'
  OBVIOUS
<1>1. ASSUME NEW t \in Thread, GetBegin(t) \/ Get(t) \/ LetGo(t)
      PROVE  SlotInv'
  BY <1>1, SearchKeeps, TakeKeeps, StoreKeeps DEF Get
<1>2. CASE UNCHANGED storageVars
  BY <1>2 DEF storageVars, SlotInv, StorageTypes, OneSlotEach, Holders, IdsSound,
              CallSound, Taken
<1>3. QED
  BY <1>1, <1>2 DEF StorageNext

LEMMA SlotInvMeansOneLocal == SlotInv => OneLocalPerThread
<1> SUFFICES ASSUME SlotInv, NEW t \in Thread, get[t].pc = "in", IdsBefore[get[t].slot] # t
             PROVE  /\ {s \in constructed : ids[s] = t} = {get[t].slot}
                    /\ \A u \in Thread \ {t} :
                           get[u].pc = "in" /\ get[u].slot = get[t].slot
                               => IdsBefore[get[t].slot] = u
  BY DEF OneLocalPerThread
<1>1. get[t].slot \in constructed /\ ids[get[t].slot] = t
  BY DEF SlotInv, CallSound
<1>2. \A s \in constructed : ids[s] = t => s = get[t].slot
  BY <1>1 DEF SlotInv, IdsSound
<1>3. \A u \in Thread \ {t} :
          get[u].pc = "in" /\ get[u].slot = get[t].slot => IdsBefore[get[t].slot] = u
  BY <1>1 DEF SlotInv, CallSound
<1>4. QED
  BY <1>1, <1>2, <1>3

\* Every thread that thread_storage::get lets in is alone with its T and is
\* given the same one whenever it asks, whatever the block of ids held before:
\* only a thread whose id was in the very slot may come in beside the owner.
THEOREM StorageIsThreads == StorageSpec => []OneLocalPerThread
<1>1. QED
  BY InitSlotInv, StepKeepsSlotInv, SlotInvMeansOneLocal, PTL DEF StorageSpec

\* The same of the locals of a command buffer, while threads record and while
\* it is executed.
THEOREM LocalsAreThreads == Spec => []OneLocalPerThread
<1>1. Init => SlotInv
  BY InitSlotInv DEF Init
<1>2. SlotInv /\ [Next]_vars => SlotInv'
  BY NextIsStorageNext, StepKeepsSlotInv
<1>3. QED
  BY <1>1, <1>2, SlotInvMeansOneLocal, PTL DEF Spec

-----------------------------------------------------------------------------
(* What follows needs that a slot with a thread's id in it is that thread's, *)
(* which is so when the block of ids did not hold any before.  Nothing in    *)
(* the code sees to it: context::malloc clears nothing.                      *)

ForeignIds == \A s \in Slot : IdsBefore[s] \notin Thread

StorageInv ==
    /\ slots \in Nat /\ slots <= SlotCount /\ Taken \subseteq Slot
    /\ DOMAIN get = Thread /\ DOMAIN ids = Slot
    /\ \A s, r \in Taken : ids[s] = ids[r] /\ ids[s] \in Thread => s = r
    /\ \A t \in Thread :
         /\ get[t].pc = "in" => get[t].slot \in Taken /\ ids[get[t].slot] = t
         /\ get[t].pc = "store" => get[t].slot \in Taken /\ ids[get[t].slot] \notin Thread

LEMMA SlotInvMeansStorageInv ==
    ASSUME ForeignIds, SlotInv
    PROVE  StorageInv
<1>1. /\ slots \in Nat /\ slots <= SlotCount /\ Taken \subseteq Slot
      /\ DOMAIN get = Thread /\ DOMAIN ids = Slot
  BY SlotsAreThere DEF SlotInv, StorageTypes
<1>2. \A s \in Taken : ids[s] \in Thread => s \in constructed
  BY <1>1 DEF SlotInv, IdsSound, ForeignIds
<1>3. \A s, r \in Taken : ids[s] = ids[r] /\ ids[s] \in Thread => s = r
  BY <1>2 DEF SlotInv, IdsSound
<1>4. ASSUME NEW t \in Thread, get[t].pc = "in"
      PROVE  get[t].slot \in Taken /\ ids[get[t].slot] = t
  BY <1>1, <1>4 DEF SlotInv, CallSound, ForeignIds
<1>5. ASSUME NEW t \in Thread, get[t].pc = "store"
      PROVE  get[t].slot \in Taken /\ ids[get[t].slot] \notin Thread
  BY <1>1, <1>2, <1>5 DEF SlotInv, CallSound
<1>6. QED
  BY <1>1, <1>3, <1>4, <1>5 DEF StorageInv

-----------------------------------------------------------------------------
(* The recorded locals.                                                    *)

Place == {"storage", "buffer", "lost"}
Local == [entities : Seq(Handles),
          allocates : Seq([e : Nat, types : SUBSET Type, where : Place]),
          instantiates : Seq([e : Nat, source : Ids]),
          casts : Seq([e : Nat, extend : SUBSET Type, shrink : SUBSET Type, where : Place]),
          sets : Seq([e : Nat, value : Handles]),
          patches : Seq(Nat),
          destroies : Seq(Handles)]
Wish == [types : SUBSET Type, ref : Handles \cup {Null}, set : BOOLEAN, patched : BOOLEAN,
         taken : SUBSET Type, undone : BOOLEAN, kept : BOOLEAN, destroyed : BOOLEAN]

\* The commands on a handle.
AllocateOf(l, h, j) == j \in DOMAIN l.allocates /\ l.entities[l.allocates[j].e] = h
InstantiateOf(l, h, j) == j \in DOMAIN l.instantiates /\ l.entities[l.instantiates[j].e] = h
CastOf(l, h, j) == j \in DOMAIN l.casts /\ l.entities[l.casts[j].e] = h
SetOf(l, h, j) == j \in DOMAIN l.sets /\ l.entities[l.sets[j].e] = h
PatchOf(l, h, j) == j \in DOMAIN l.patches /\ l.entities[l.patches[j]] = h
DestroyOf(l, h, j) == j \in DOMAIN l.destroies /\ l.destroies[j] = h

Mentions(l, h) == \/ \E e \in DOMAIN l.entities : l.entities[e] = h
                  \/ \E j \in DOMAIN l.destroies : l.destroies[j] = h

\* Every command is on an entity of the list.
Listed(l) ==
    /\ \A j \in DOMAIN l.allocates : l.allocates[j].e \in DOMAIN l.entities
    /\ \A j \in DOMAIN l.instantiates : l.instantiates[j].e \in DOMAIN l.entities
    /\ \A j \in DOMAIN l.casts : l.casts[j].e \in DOMAIN l.entities
    /\ \A j \in DOMAIN l.sets : l.sets[j].e \in DOMAIN l.entities
    /\ \A j \in DOMAIN l.patches : l.patches[j] \in DOMAIN l.entities

\* An entity is created by one command.
CreatedOnce(l) ==
    \A h \in Handles :
        /\ \A j, k \in Nat : AllocateOf(l, h, j) /\ AllocateOf(l, h, k) => j = k
        /\ \A j, k \in Nat : InstantiateOf(l, h, j) /\ InstantiateOf(l, h, k) => j = k
        /\ \A j, k \in Nat : ~ (AllocateOf(l, h, j) /\ InstantiateOf(l, h, k))
        /\ \A j \in Nat : AllocateOf(l, h, j) \/ InstantiateOf(l, h, j) => h.transient

\* The types and the reference that an entity begins with.
Origin(l, h, b, r) ==
    \/ ~ h.transient /\ b = FirstType[h.id] /\ r = FirstRef[h.id]
    \/ \E j \in Nat : AllocateOf(l, h, j) /\ b = l.allocates[j].types /\ r = Null
    \/ \E j \in Nat :
          /\ InstantiateOf(l, h, j)
          /\ b = FirstType[l.instantiates[j].source] /\ r = FirstRef[l.instantiates[j].source]

\* What the casts in A make of them.
TypesAfter(l, h, b, A) ==
    {x \in Type : /\ x \in b \/ \E j \in A : CastOf(l, h, j) /\ x \in l.casts[j].extend
                  /\ \A j \in A : CastOf(l, h, j) => x \notin l.casts[j].shrink}
RefAfter(l, h, r, A) ==
    IF \E j \in A : CastOf(l, h, j) /\ Ref \in l.casts[j].shrink THEN Null ELSE r

Refs == Handles \cup {Null}

\* The wish about a handle is what the commands of the one local that has any
\* come to.
CastsWished(l, h, w) ==
    /\ \A b \in SUBSET Type, r \in Refs :
          Origin(l, h, b, r) /\ ~ w.undone /\ ~ w.kept
              => w.types = TypesAfter(l, h, b, Nat)
    /\ \A j \in Nat : CastOf(l, h, j) => l.casts[j].shrink \subseteq w.taken
    /\ ~ w.kept => \A x \in w.taken : \E j \in Nat : CastOf(l, h, j) /\ x \in l.casts[j].shrink
    /\ ~ w.undone => \A j, k \in Nat :
          CastOf(l, h, j) /\ CastOf(l, h, k) /\ j < k
              => l.casts[k].extend \cap l.casts[j].shrink = {}
RefWished(l, h, w) ==
    /\ \A b \in SUBSET Type, r \in Refs :
          Origin(l, h, b, r) /\ ~ w.set /\ Ref \notin w.taken => w.ref = r
    /\ w.set <=> \E j \in Nat : SetOf(l, h, j)
    /\ \A j \in Nat : SetOf(l, h, j) /\ (\A k \in Nat : SetOf(l, h, k) => k <= j)
                          => w.ref = l.sets[j].value
    /\ w.patched <=> \E j \in Nat : PatchOf(l, h, j)
HandleOK(l, h, w) ==
    /\ CastsWished(l, h, w)
    /\ RefWished(l, h, w)
    /\ w.destroyed <=> \E j \in Nat : DestroyOf(l, h, j)

\* Which locals mention a handle.
Alone(L, s, h) == \A r \in Slot \ {s} : ~ Mentions(L[r], h)

Rec(L) ==
    /\ L \in [Slot -> Local]
    /\ allocates \in 0 .. MaxNew
    /\ said \in [Handles -> Wish]
    /\ \A s \in Slot : Listed(L[s]) /\ CreatedOnce(L[s])
    /\ \A s \in Slot, h \in Handles : Mentions(L[s], h) =>
          /\ s \in Taken /\ ids[s] \in Thread
          /\ IF h.transient THEN h.id < allocates ELSE h.id \in Task[ids[s]]
          /\ Alone(L, s, h)
    /\ \A h \in Subjects : h.transient =>
          \E s \in Slot : \E j \in Nat : AllocateOf(L[s], h, j) \/ InstantiateOf(L[s], h, j)
    /\ \A s \in Slot, h \in Subjects : Alone(L, s, h) => HandleOK(L[s], h, said[h])

-----------------------------------------------------------------------------
(* What is recorded of the other handles stays as it is.                   *)

SameAllocates(l, l2, g) == \A j \in Nat :
    /\ AllocateOf(l2, g, j) <=> AllocateOf(l, g, j)
    /\ AllocateOf(l, g, j) => l2.allocates[j].types = l.allocates[j].types
SameInstantiates(l, l2, g) == \A j \in Nat :
    /\ InstantiateOf(l2, g, j) <=> InstantiateOf(l, g, j)
    /\ InstantiateOf(l, g, j) => l2.instantiates[j].source = l.instantiates[j].source
SameCasts(l, l2, g) == \A j \in Nat :
    /\ CastOf(l2, g, j) <=> CastOf(l, g, j)
    /\ CastOf(l, g, j) => /\ l2.casts[j].extend = l.casts[j].extend
                          /\ l2.casts[j].shrink = l.casts[j].shrink
SameSets(l, l2, g) == \A j \in Nat :
    /\ SetOf(l2, g, j) <=> SetOf(l, g, j)
    /\ SetOf(l, g, j) => l2.sets[j].value = l.sets[j].value
SamePatches(l, l2, g) == \A j \in Nat : PatchOf(l2, g, j) <=> PatchOf(l, g, j)
SameDestroies(l, l2, g) == \A j \in Nat : DestroyOf(l2, g, j) <=> DestroyOf(l, g, j)

Same(l, l2, g) ==
    /\ SameAllocates(l, l2, g) /\ SameInstantiates(l, l2, g) /\ SameCasts(l, l2, g)
    /\ SameSets(l, l2, g) /\ SamePatches(l, l2, g) /\ SameDestroies(l, l2, g)

LEMMA SameOrigin ==
    ASSUME NEW l, NEW l2, NEW g, SameAllocates(l, l2, g), SameInstantiates(l, l2, g),
           NEW b, NEW r
    PROVE  Origin(l2, g, b, r) <=> Origin(l, g, b, r)
<1>1. (\E j \in Nat : AllocateOf(l2, g, j) /\ b = l2.allocates[j].types /\ r = Null)
      <=> (\E j \in Nat : AllocateOf(l, g, j) /\ b = l.allocates[j].types /\ r = Null)
    BY DEF SameAllocates
<1>2. (\E j \in Nat : /\ InstantiateOf(l2, g, j)
                      /\ b = FirstType[l2.instantiates[j].source]
                      /\ r = FirstRef[l2.instantiates[j].source])
      <=> (\E j \in Nat : /\ InstantiateOf(l, g, j)
                          /\ b = FirstType[l.instantiates[j].source]
                          /\ r = FirstRef[l.instantiates[j].source])
    BY DEF SameInstantiates
<1> QED BY <1>1, <1>2 DEF Origin

LEMMA SameTypesAfter ==
    ASSUME NEW l, NEW l2, NEW g, SameCasts(l, l2, g), NEW b
    PROVE  TypesAfter(l2, g, b, Nat) = TypesAfter(l, g, b, Nat)
<1>1. ASSUME NEW x
      PROVE  /\ (\E j \in Nat : CastOf(l2, g, j) /\ x \in l2.casts[j].extend)
                <=> (\E j \in Nat : CastOf(l, g, j) /\ x \in l.casts[j].extend)
             /\ (\A j \in Nat : CastOf(l2, g, j) => x \notin l2.casts[j].shrink)
                <=> (\A j \in Nat : CastOf(l, g, j) => x \notin l.casts[j].shrink)
    BY DEF SameCasts
<1> QED BY <1>1, Zenon DEF TypesAfter

LEMMA SameCastsWished ==
    ASSUME NEW l, NEW l2, NEW g, NEW w, CastsWished(l, g, w),
           SameAllocates(l, l2, g), SameInstantiates(l, l2, g), SameCasts(l, l2, g)
    PROVE  CastsWished(l2, g, w)
<1>1. ASSUME NEW b \in SUBSET Type, NEW r \in Refs, Origin(l2, g, b, r), ~ w.undone, ~ w.kept
      PROVE  w.types = TypesAfter(l2, g, b, Nat)
    BY <1>1, SameOrigin, SameTypesAfter DEF CastsWished
<1>2. \A j \in Nat : CastOf(l2, g, j) => l2.casts[j].shrink \subseteq w.taken
    BY DEF CastsWished, SameCasts
<1>3. ~ w.kept => \A x \in w.taken :
          \E j \in Nat : CastOf(l2, g, j) /\ x \in l2.casts[j].shrink
    BY DEF CastsWished, SameCasts
<1>4. ~ w.undone => \A j, k \in Nat :
          CastOf(l2, g, j) /\ CastOf(l2, g, k) /\ j < k
              => l2.casts[k].extend \cap l2.casts[j].shrink = {}
    BY DEF CastsWished, SameCasts
<1> QED BY <1>1, <1>2, <1>3, <1>4 DEF CastsWished

LEMMA SameRefWished ==
    ASSUME NEW l, NEW l2, NEW g, NEW w, RefWished(l, g, w),
           SameAllocates(l, l2, g), SameInstantiates(l, l2, g),
           SameSets(l, l2, g), SamePatches(l, l2, g)
    PROVE  RefWished(l2, g, w)
<1>1. ASSUME NEW b \in SUBSET Type, NEW r \in Refs, Origin(l2, g, b, r),
             ~ w.set, Ref \notin w.taken
      PROVE  w.ref = r
    BY <1>1, SameOrigin DEF RefWished
<1>2. w.set <=> \E j \in Nat : SetOf(l2, g, j)
    BY DEF RefWished, SameSets
<1>3. ASSUME NEW j \in Nat, SetOf(l2, g, j), \A k \in Nat : SetOf(l2, g, k) => k <= j
      PROVE  w.ref = l2.sets[j].value
    BY <1>3 DEF RefWished, SameSets
<1>4. w.patched <=> \E j \in Nat : PatchOf(l2, g, j)
    BY DEF RefWished, SamePatches
<1> QED BY <1>1, <1>2, <1>3, <1>4 DEF RefWished

LEMMA SameHandleOK ==
    ASSUME NEW l, NEW l2, NEW g, Same(l, l2, g), NEW w, HandleOK(l, g, w)
    PROVE  HandleOK(l2, g, w)
<1>1. w.destroyed <=> \E j \in Nat : DestroyOf(l2, g, j)
    BY DEF HandleOK, Same, SameDestroies
<1> QED BY <1>1, SameCastsWished, SameRefWished DEF HandleOK, Same

LEMMA SameTransitive ==
    ASSUME NEW l, NEW l1, NEW l2, NEW g, Same(l, l1, g), Same(l1, l2, g)
    PROVE  Same(l, l2, g)
<1>1. SameAllocates(l, l2, g) /\ SameInstantiates(l, l2, g)
    BY DEF Same, SameAllocates, SameInstantiates
<1>2. SameCasts(l, l2, g) /\ SameSets(l, l2, g)
    BY DEF Same, SameCasts, SameSets
<1>3. SamePatches(l, l2, g) /\ SameDestroies(l, l2, g)
    BY DEF Same, SamePatches, SameDestroies
<1> QED BY <1>1, <1>2, <1>3 DEF Same

-----------------------------------------------------------------------------
(* Appending to the lists of a local.                                      *)

LEMMA Appended ==
    ASSUME NEW X, NEW s \in Seq(X), NEW x \in X
    PROVE  /\ Append(s, x) \in Seq(X) /\ Len(s) \in Nat
           /\ DOMAIN s = 1 .. Len(s) /\ DOMAIN Append(s, x) = 1 .. Len(s) + 1
           /\ \A i \in DOMAIN s : Append(s, x)[i] = s[i]
           /\ Append(s, x)[Len(s) + 1] = x
           /\ Len(Append(s, x)) = Len(s) + 1
OBVIOUS

AllocateCommand == [e : Nat, types : SUBSET Type, where : Place]
InstantiateCommand == [e : Nat, source : Ids]
CastCommand == [e : Nat, extend : SUBSET Type, shrink : SUBSET Type, where : Place]
SetCommand == [e : Nat, value : Handles]

LEMMA LocalFields ==
    ASSUME NEW l \in Local
    PROVE  /\ l.entities \in Seq(Handles)
           /\ l.allocates \in Seq(AllocateCommand)
           /\ l.instantiates \in Seq(InstantiateCommand)
           /\ l.casts \in Seq(CastCommand)
           /\ l.sets \in Seq(SetCommand)
           /\ l.patches \in Seq(Nat)
           /\ l.destroies \in Seq(Handles)
BY DEF Local, AllocateCommand, InstantiateCommand, CastCommand, SetCommand

LEMMA CreatedOnceStill ==
    ASSUME NEW l, NEW l2, CreatedOnce(l),
           \A g \in Handles : \A j \in Nat : AllocateOf(l2, g, j) <=> AllocateOf(l, g, j),
           \A g \in Handles : \A j \in Nat : InstantiateOf(l2, g, j) <=> InstantiateOf(l, g, j)
    PROVE  CreatedOnce(l2)
BY DEF CreatedOnce

LEMMA SameWhenSame ==
    ASSUME NEW l, NEW l2, NEW g, l2.entities = l.entities
    PROVE  /\ l2.allocates = l.allocates => SameAllocates(l, l2, g)
           /\ l2.instantiates = l.instantiates => SameInstantiates(l, l2, g)
           /\ l2.casts = l.casts => SameCasts(l, l2, g)
           /\ l2.sets = l.sets => SameSets(l, l2, g)
           /\ l2.patches = l.patches => SamePatches(l, l2, g)
           /\ l2.destroies = l.destroies => SameDestroies(l, l2, g)
BY DEF SameAllocates, SameInstantiates, SameCasts, SameSets, SamePatches, SameDestroies,
       AllocateOf, InstantiateOf, CastOf, SetOf, PatchOf, DestroyOf

\* An entity is added to the list.
LEMMA EntityAppended ==
    ASSUME NEW l \in Local, Listed(l), CreatedOnce(l), NEW h \in Handles,
           NEW l2, l2 = [l EXCEPT !.entities = Append(@, h)]
    PROVE  /\ l2 \in Local /\ Listed(l2) /\ CreatedOnce(l2)
           /\ \A g \in Handles : Same(l, l2, g) /\ (Mentions(l2, g) <=> Mentions(l, g) \/ g = h)
           /\ l2.entities[Len(l.entities) + 1] = h
           /\ Len(l2.entities) = Len(l.entities) + 1
           /\ Len(l.entities) \in Nat
<1>1. /\ l2 \in Local /\ l2.entities = Append(l.entities, h)
      /\ l2.allocates = l.allocates /\ l2.instantiates = l.instantiates
      /\ l2.casts = l.casts /\ l2.sets = l.sets
      /\ l2.patches = l.patches /\ l2.destroies = l.destroies
    BY LocalFields, Appended DEF Local
<1>2. /\ \A i \in DOMAIN l.entities : i \in DOMAIN l2.entities /\ l2.entities[i] = l.entities[i]
      /\ DOMAIN l2.entities = DOMAIN l.entities \cup {Len(l.entities) + 1}
      /\ l2.entities[Len(l.entities) + 1] = h
      /\ Len(l2.entities) = Len(l.entities) + 1
      /\ Len(l.entities) \in Nat
    BY <1>1, LocalFields, Appended
<1>3. Listed(l2)
    BY <1>1, <1>2 DEF Listed
<1>4. ASSUME NEW g \in Handles PROVE Same(l, l2, g)
    BY <1>1, <1>2 DEF Same, Listed, SameAllocates, SameInstantiates, SameCasts, SameSets,
          SamePatches, SameDestroies, AllocateOf, InstantiateOf, CastOf, SetOf, PatchOf, DestroyOf
<1>5. CreatedOnce(l2)
    BY <1>4 DEF CreatedOnce, Same, SameAllocates, SameInstantiates
<1>6. ASSUME NEW g \in Handles PROVE Mentions(l2, g) <=> Mentions(l, g) \/ g = h
    BY <1>1, <1>2 DEF Mentions
<1> QED BY <1>1, <1>2, <1>3, <1>4, <1>5, <1>6

\* A command on the entity e is added to one of the lists.
LEMMA AllocateAppended ==
    ASSUME NEW l \in Local, Listed(l), CreatedOnce(l), NEW e \in DOMAIN l.entities,
           NEW h, h = l.entities[e],
           h.transient,
           \A j \in Nat : ~ AllocateOf(l, h, j) /\ ~ InstantiateOf(l, h, j),
           NEW c \in AllocateCommand, c.e = e,
           NEW l2, l2 = [l EXCEPT !.allocates = Append(@, c)]
    PROVE  /\ l2 \in Local /\ Listed(l2) /\ CreatedOnce(l2)
           /\ \A g \in Handles : Mentions(l2, g) <=> Mentions(l, g)
           /\ \A g \in Handles \ {h} : Same(l, l2, g)
           /\ \A j \in Nat : AllocateOf(l2, h, j) <=> j = Len(l.allocates) + 1
           /\ l2.allocates[Len(l.allocates) + 1] = c
           /\ Len(l.allocates) + 1 \in Nat
           /\ SameInstantiates(l, l2, h) /\ SameCasts(l, l2, h)
           /\ SameSets(l, l2, h) /\ SamePatches(l, l2, h)
           /\ SameDestroies(l, l2, h)
<1> DEFINE n == Len(l.allocates) + 1
<1>1. /\ l2 \in Local /\ l2.entities = l.entities /\ l2.allocates = Append(l.allocates, c)
      /\ l2.instantiates = l.instantiates /\ l2.casts = l.casts /\ l2.sets = l.sets
      /\ l2.patches = l.patches /\ l2.destroies = l.destroies
    BY LocalFields, Appended DEF Local, AllocateCommand
<1>2. /\ DOMAIN l2.allocates = DOMAIN l.allocates \cup {n} /\ n \notin DOMAIN l.allocates
      /\ \A i \in DOMAIN l.allocates : l2.allocates[i] = l.allocates[i]
      /\ l2.allocates[n] = c /\ n \in Nat
    BY <1>1, LocalFields, Appended
<1>3. Listed(l2)
    BY <1>1, <1>2 DEF Listed
<1>4. ASSUME NEW g \in Handles, NEW j \in Nat
      PROVE  AllocateOf(l2, g, j) <=> AllocateOf(l, g, j) \/ (g = h /\ j = n)
    BY <1>1, <1>2 DEF AllocateOf
<1>5. ASSUME NEW g \in Handles, g # h PROVE SameAllocates(l, l2, g)
    BY <1>2, <1>4, <1>5 DEF SameAllocates, AllocateOf
<1>6. h \in Handles
    BY LocalFields
<1>7. ASSUME NEW g \in Handles, NEW j \in Nat
      PROVE  InstantiateOf(l2, g, j) <=> InstantiateOf(l, g, j)
    BY <1>1 DEF InstantiateOf
<1>8. CreatedOnce(l2)
  <2>1. ASSUME NEW g \in Handles
        PROVE  /\ \A j, k \in Nat : AllocateOf(l2, g, j) /\ AllocateOf(l2, g, k) => j = k
               /\ \A j, k \in Nat : InstantiateOf(l2, g, j) /\ InstantiateOf(l2, g, k) => j = k
               /\ \A j, k \in Nat : ~ (AllocateOf(l2, g, j) /\ InstantiateOf(l2, g, k))
               /\ \A j \in Nat : AllocateOf(l2, g, j) \/ InstantiateOf(l2, g, j) => g.transient
    <3>1. /\ \A j, k \in Nat : AllocateOf(l, g, j) /\ AllocateOf(l, g, k) => j = k
          /\ \A j, k \in Nat : InstantiateOf(l, g, j) /\ InstantiateOf(l, g, k) => j = k
          /\ \A j, k \in Nat : ~ (AllocateOf(l, g, j) /\ InstantiateOf(l, g, k))
          /\ \A j \in Nat : AllocateOf(l, g, j) \/ InstantiateOf(l, g, j) => g.transient
        BY DEF CreatedOnce
    <3>2. CASE g = h
        BY <1>4, <1>7, <3>2
    <3>3. CASE g # h
        BY <1>4, <1>7, <3>1, <3>3
    <3> QED BY <3>2, <3>3
  <2> QED BY <2>1 DEF CreatedOnce
<1>9. \A g \in Handles : Mentions(l2, g) <=> Mentions(l, g)
    BY <1>1 DEF Mentions
<1>10. ASSUME NEW g \in Handles \ {h} PROVE Same(l, l2, g)
    BY <1>1, <1>5, SameWhenSame DEF Same
<1> QED BY <1>1, <1>2, <1>3, <1>4, <1>6, <1>8, <1>9, <1>10, SameWhenSame, ZenonT(40)

LEMMA InstantiateAppended ==
    ASSUME NEW l \in Local, Listed(l), CreatedOnce(l), NEW e \in DOMAIN l.entities,
           NEW h, h = l.entities[e],
           h.transient,
           \A j \in Nat : ~ AllocateOf(l, h, j) /\ ~ InstantiateOf(l, h, j),
           NEW c \in InstantiateCommand, c.e = e,
           NEW l2, l2 = [l EXCEPT !.instantiates = Append(@, c)]
    PROVE  /\ l2 \in Local /\ Listed(l2) /\ CreatedOnce(l2)
           /\ \A g \in Handles : Mentions(l2, g) <=> Mentions(l, g)
           /\ \A g \in Handles \ {h} : Same(l, l2, g)
           /\ \A j \in Nat : InstantiateOf(l2, h, j) <=> j = Len(l.instantiates) + 1
           /\ l2.instantiates[Len(l.instantiates) + 1] = c
           /\ Len(l.instantiates) + 1 \in Nat
           /\ SameAllocates(l, l2, h) /\ SameCasts(l, l2, h)
           /\ SameSets(l, l2, h) /\ SamePatches(l, l2, h)
           /\ SameDestroies(l, l2, h)
<1> DEFINE n == Len(l.instantiates) + 1
<1>1. /\ l2 \in Local /\ l2.entities = l.entities /\ l2.allocates = l.allocates
      /\ l2.instantiates = Append(l.instantiates, c) /\ l2.casts = l.casts /\ l2.sets = l.sets
      /\ l2.patches = l.patches /\ l2.destroies = l.destroies
    BY LocalFields, Appended DEF Local, InstantiateCommand
<1>2. /\ DOMAIN l2.instantiates = DOMAIN l.instantiates \cup {n}
      /\ n \notin DOMAIN l.instantiates
      /\ \A i \in DOMAIN l.instantiates : l2.instantiates[i] = l.instantiates[i]
      /\ l2.instantiates[n] = c /\ n \in Nat
    BY <1>1, LocalFields, Appended
<1>3. Listed(l2)
    BY <1>1, <1>2 DEF Listed
<1>4. ASSUME NEW g \in Handles, NEW j \in Nat
      PROVE  InstantiateOf(l2, g, j) <=> InstantiateOf(l, g, j) \/ (g = h /\ j = n)
    BY <1>1, <1>2 DEF InstantiateOf
<1>5. ASSUME NEW g \in Handles, g # h PROVE SameInstantiates(l, l2, g)
    BY <1>2, <1>4, <1>5 DEF SameInstantiates, InstantiateOf
<1>6. h \in Handles
    BY LocalFields
<1>7. ASSUME NEW g \in Handles, NEW j \in Nat
      PROVE  AllocateOf(l2, g, j) <=> AllocateOf(l, g, j)
    BY <1>1 DEF AllocateOf
<1>8. CreatedOnce(l2)
  <2>1. ASSUME NEW g \in Handles
        PROVE  /\ \A j, k \in Nat : AllocateOf(l2, g, j) /\ AllocateOf(l2, g, k) => j = k
               /\ \A j, k \in Nat : InstantiateOf(l2, g, j) /\ InstantiateOf(l2, g, k) => j = k
               /\ \A j, k \in Nat : ~ (AllocateOf(l2, g, j) /\ InstantiateOf(l2, g, k))
               /\ \A j \in Nat : AllocateOf(l2, g, j) \/ InstantiateOf(l2, g, j) => g.transient
    <3>1. /\ \A j, k \in Nat : AllocateOf(l, g, j) /\ AllocateOf(l, g, k) => j = k
          /\ \A j, k \in Nat : InstantiateOf(l, g, j) /\ InstantiateOf(l, g, k) => j = k
          /\ \A j, k \in Nat : ~ (AllocateOf(l, g, j) /\ InstantiateOf(l, g, k))
          /\ \A j \in Nat : AllocateOf(l, g, j) \/ InstantiateOf(l, g, j) => g.transient
        BY DEF CreatedOnce
    <3>2. CASE g = h
        BY <1>4, <1>7, <3>2
    <3>3. CASE g # h
        BY <1>4, <1>7, <3>1, <3>3
    <3> QED BY <3>2, <3>3
  <2> QED BY <2>1 DEF CreatedOnce
<1>9. \A g \in Handles : Mentions(l2, g) <=> Mentions(l, g)
    BY <1>1 DEF Mentions
<1>10. ASSUME NEW g \in Handles \ {h} PROVE Same(l, l2, g)
    BY <1>1, <1>5, SameWhenSame DEF Same
<1> QED BY <1>1, <1>2, <1>3, <1>4, <1>6, <1>8, <1>9, <1>10, SameWhenSame, ZenonT(40)

LEMMA CastAppended ==
    ASSUME NEW l \in Local, Listed(l), CreatedOnce(l), NEW e \in DOMAIN l.entities,
           NEW h, h = l.entities[e],
           NEW c \in CastCommand, c.e = e,
           NEW l2, l2 = [l EXCEPT !.casts = Append(@, c)]
    PROVE  /\ l2 \in Local /\ Listed(l2) /\ CreatedOnce(l2)
           /\ \A g \in Handles : Mentions(l2, g) <=> Mentions(l, g)
           /\ \A g \in Handles \ {h} : Same(l, l2, g)
           /\ \A j \in Nat : CastOf(l2, h, j) <=>
                 CastOf(l, h, j) \/ j = Len(l.casts) + 1
           /\ \A j \in Nat : CastOf(l, h, j) => l2.casts[j] = l.casts[j] /\ j <= Len(l.casts)
           /\ l2.casts[Len(l.casts) + 1] = c
           /\ Len(l.casts) + 1 \in Nat
           /\ SameAllocates(l, l2, h)
           /\ SameInstantiates(l, l2, h)
           /\ SameSets(l, l2, h)
           /\ SamePatches(l, l2, h)
           /\ SameDestroies(l, l2, h)
<1> DEFINE n == Len(l.casts) + 1
<1>1. /\ l2 \in Local /\ l2.entities = l.entities
      /\ l2.allocates = l.allocates
      /\ l2.instantiates = l.instantiates
      /\ l2.casts = Append(l.casts, c)
      /\ l2.sets = l.sets
      /\ l2.patches = l.patches
      /\ l2.destroies = l.destroies
    BY LocalFields, Appended DEF Local, CastCommand
<1>2. /\ DOMAIN l2.casts = DOMAIN l.casts \cup {n} /\ n \notin DOMAIN l.casts
      /\ \A i \in DOMAIN l.casts : l2.casts[i] = l.casts[i] /\ i <= Len(l.casts)
      /\ l2.casts[n] = c /\ n \in Nat
    BY <1>1, LocalFields, Appended
<1>3. Listed(l2)
    BY <1>1, <1>2 DEF Listed
<1>4. ASSUME NEW g \in Handles, NEW j \in Nat
      PROVE  CastOf(l2, g, j) <=> CastOf(l, g, j) \/ (g = h /\ j = n)
    BY <1>1, <1>2 DEF CastOf
<1>5. ASSUME NEW g \in Handles, g # h PROVE SameCasts(l, l2, g)
    BY <1>2, <1>4, <1>5 DEF SameCasts, CastOf
<1>6. h \in Handles
    BY LocalFields
<1>7. CreatedOnce(l2)
    BY <1>1 DEF CreatedOnce, AllocateOf, InstantiateOf
<1>8. \A g \in Handles : Mentions(l2, g) <=> Mentions(l, g)
    BY <1>1 DEF Mentions
<1>9. ASSUME NEW g \in Handles \ {h} PROVE Same(l, l2, g)
    BY <1>1, <1>5, SameWhenSame DEF Same
<1>10. \A j \in Nat : CastOf(l, h, j) => l2.casts[j] = l.casts[j] /\ j <= Len(l.casts)
    BY <1>2 DEF CastOf
<1> QED BY <1>1, <1>2, <1>3, <1>4, <1>6, <1>7, <1>8, <1>9, <1>10, SameWhenSame

LEMMA SetAppended ==
    ASSUME NEW l \in Local, Listed(l), CreatedOnce(l), NEW e \in DOMAIN l.entities,
           NEW h, h = l.entities[e],
           NEW c \in SetCommand, c.e = e,
           NEW l2, l2 = [l EXCEPT !.sets = Append(@, c)]
    PROVE  /\ l2 \in Local /\ Listed(l2) /\ CreatedOnce(l2)
           /\ \A g \in Handles : Mentions(l2, g) <=> Mentions(l, g)
           /\ \A g \in Handles \ {h} : Same(l, l2, g)
           /\ \A j \in Nat : SetOf(l2, h, j) <=>
                 SetOf(l, h, j) \/ j = Len(l.sets) + 1
           /\ \A j \in Nat : SetOf(l, h, j) => l2.sets[j] = l.sets[j] /\ j <= Len(l.sets)
           /\ l2.sets[Len(l.sets) + 1] = c
           /\ Len(l.sets) + 1 \in Nat
           /\ SameAllocates(l, l2, h)
           /\ SameInstantiates(l, l2, h)
           /\ SameCasts(l, l2, h)
           /\ SamePatches(l, l2, h)
           /\ SameDestroies(l, l2, h)
<1> DEFINE n == Len(l.sets) + 1
<1>1. /\ l2 \in Local /\ l2.entities = l.entities
      /\ l2.allocates = l.allocates
      /\ l2.instantiates = l.instantiates
      /\ l2.casts = l.casts
      /\ l2.sets = Append(l.sets, c)
      /\ l2.patches = l.patches
      /\ l2.destroies = l.destroies
    BY LocalFields, Appended DEF Local, SetCommand
<1>2. /\ DOMAIN l2.sets = DOMAIN l.sets \cup {n} /\ n \notin DOMAIN l.sets
      /\ \A i \in DOMAIN l.sets : l2.sets[i] = l.sets[i] /\ i <= Len(l.sets)
      /\ l2.sets[n] = c /\ n \in Nat
    BY <1>1, LocalFields, Appended
<1>3. Listed(l2)
    BY <1>1, <1>2 DEF Listed
<1>4. ASSUME NEW g \in Handles, NEW j \in Nat
      PROVE  SetOf(l2, g, j) <=> SetOf(l, g, j) \/ (g = h /\ j = n)
    BY <1>1, <1>2 DEF SetOf
<1>5. ASSUME NEW g \in Handles, g # h PROVE SameSets(l, l2, g)
    BY <1>2, <1>4, <1>5 DEF SameSets, SetOf
<1>6. h \in Handles
    BY LocalFields
<1>7. CreatedOnce(l2)
    BY <1>1 DEF CreatedOnce, AllocateOf, InstantiateOf
<1>8. \A g \in Handles : Mentions(l2, g) <=> Mentions(l, g)
    BY <1>1 DEF Mentions
<1>9. ASSUME NEW g \in Handles \ {h} PROVE Same(l, l2, g)
    BY <1>1, <1>5, SameWhenSame DEF Same
<1>10. \A j \in Nat : SetOf(l, h, j) => l2.sets[j] = l.sets[j] /\ j <= Len(l.sets)
    BY <1>2 DEF SetOf
<1> QED BY <1>1, <1>2, <1>3, <1>4, <1>6, <1>7, <1>8, <1>9, <1>10, SameWhenSame

LEMMA PatchAppended ==
    ASSUME NEW l \in Local, Listed(l), CreatedOnce(l), NEW e \in DOMAIN l.entities,
           NEW h, h = l.entities[e],
           NEW l2, l2 = [l EXCEPT !.patches = Append(@, e)]
    PROVE  /\ l2 \in Local /\ Listed(l2) /\ CreatedOnce(l2)
           /\ \A g \in Handles : Mentions(l2, g) <=> Mentions(l, g)
           /\ \A g \in Handles \ {h} : Same(l, l2, g)
           /\ \A j \in Nat : PatchOf(l2, h, j) <=>
                 PatchOf(l, h, j) \/ j = Len(l.patches) + 1
           /\ \A j \in Nat : PatchOf(l, h, j) => l2.patches[j] = l.patches[j] /\ j <= Len(l.patches)
           /\ l2.patches[Len(l.patches) + 1] = e
           /\ Len(l.patches) + 1 \in Nat
           /\ SameAllocates(l, l2, h)
           /\ SameInstantiates(l, l2, h)
           /\ SameCasts(l, l2, h)
           /\ SameSets(l, l2, h)
           /\ SameDestroies(l, l2, h)
<1> DEFINE n == Len(l.patches) + 1
<1>1. /\ l2 \in Local /\ l2.entities = l.entities
      /\ l2.allocates = l.allocates
      /\ l2.instantiates = l.instantiates
      /\ l2.casts = l.casts
      /\ l2.sets = l.sets
      /\ l2.patches = Append(l.patches, e)
      /\ l2.destroies = l.destroies
  <2>1. Append(l.patches, e) \in Seq(Nat)
    BY LocalFields, Appended
  <2> QED BY <2>1, LocalFields DEF Local
<1>2. /\ DOMAIN l2.patches = DOMAIN l.patches \cup {n} /\ n \notin DOMAIN l.patches
      /\ \A i \in DOMAIN l.patches : l2.patches[i] = l.patches[i] /\ i <= Len(l.patches)
      /\ l2.patches[n] = e /\ n \in Nat
    BY <1>1, LocalFields, Appended, SMTT(60)
<1>3. Listed(l2)
    BY <1>1, <1>2 DEF Listed
<1>4. ASSUME NEW g \in Handles, NEW j \in Nat
      PROVE  PatchOf(l2, g, j) <=> PatchOf(l, g, j) \/ (g = h /\ j = n)
    BY <1>1, <1>2 DEF PatchOf
<1>5. ASSUME NEW g \in Handles, g # h PROVE SamePatches(l, l2, g)
    BY <1>2, <1>4, <1>5 DEF SamePatches, PatchOf
<1>6. h \in Handles
    BY LocalFields
<1>7. CreatedOnce(l2)
    BY <1>1 DEF CreatedOnce, AllocateOf, InstantiateOf
<1>8. \A g \in Handles : Mentions(l2, g) <=> Mentions(l, g)
    BY <1>1 DEF Mentions
<1>9. ASSUME NEW g \in Handles \ {h} PROVE Same(l, l2, g)
    BY <1>1, <1>5, SameWhenSame DEF Same
<1>10. \A j \in Nat : PatchOf(l, h, j) => l2.patches[j] = l.patches[j] /\ j <= Len(l.patches)
    BY <1>2 DEF PatchOf
<1> QED BY <1>1, <1>2, <1>3, <1>4, <1>6, <1>7, <1>8, <1>9, <1>10, SameWhenSame

LEMMA DestroyAppended ==
    ASSUME NEW l \in Local, Listed(l), CreatedOnce(l), NEW h \in Handles,
           NEW l2, l2 = [l EXCEPT !.destroies = Append(@, h)]
    PROVE  /\ l2 \in Local /\ Listed(l2) /\ CreatedOnce(l2)
           /\ \A g \in Handles : Mentions(l2, g) <=> Mentions(l, g) \/ g = h
           /\ \A g \in Handles \ {h} : Same(l, l2, g)
           /\ \A j \in Nat : DestroyOf(l2, h, j) <=>
                 DestroyOf(l, h, j) \/ j = Len(l.destroies) + 1
           /\ \A j \in Nat : DestroyOf(l, h, j) =>
                l2.destroies[j] = l.destroies[j] /\ j <= Len(l.destroies)
           /\ l2.destroies[Len(l.destroies) + 1] = h
           /\ Len(l.destroies) + 1 \in Nat
           /\ SameAllocates(l, l2, h)
           /\ SameInstantiates(l, l2, h)
           /\ SameCasts(l, l2, h)
           /\ SameSets(l, l2, h)
           /\ SamePatches(l, l2, h)
<1> DEFINE n == Len(l.destroies) + 1
<1>1. /\ l2 \in Local /\ l2.entities = l.entities
      /\ l2.allocates = l.allocates
      /\ l2.instantiates = l.instantiates
      /\ l2.casts = l.casts
      /\ l2.sets = l.sets
      /\ l2.patches = l.patches
      /\ l2.destroies = Append(l.destroies, h)
    BY LocalFields, Appended DEF Local
<1>2. /\ DOMAIN l2.destroies = DOMAIN l.destroies \cup {n} /\ n \notin DOMAIN l.destroies
      /\ \A i \in DOMAIN l.destroies : l2.destroies[i] = l.destroies[i] /\ i <= Len(l.destroies)
      /\ l2.destroies[n] = h /\ n \in Nat
    BY <1>1, LocalFields, Appended
<1>3. Listed(l2)
    BY <1>1, <1>2 DEF Listed
<1>4. ASSUME NEW g \in Handles, NEW j \in Nat
      PROVE  DestroyOf(l2, g, j) <=> DestroyOf(l, g, j) \/ (g = h /\ j = n)
    BY <1>1, <1>2 DEF DestroyOf
<1>5. ASSUME NEW g \in Handles, g # h PROVE SameDestroies(l, l2, g)
    BY <1>2, <1>4, <1>5 DEF SameDestroies, DestroyOf
<1>6. h \in Handles
    OBVIOUS
<1>7. CreatedOnce(l2)
    BY <1>1 DEF CreatedOnce, AllocateOf, InstantiateOf
<1>8. \A g \in Handles : Mentions(l2, g) <=> Mentions(l, g) \/ g = h
    BY <1>1, <1>2 DEF Mentions
<1>9. ASSUME NEW g \in Handles \ {h} PROVE Same(l, l2, g)
    BY <1>1, <1>5, SameWhenSame DEF Same
<1>10. \A j \in Nat : DestroyOf(l, h, j) =>
           l2.destroies[j] = l.destroies[j] /\ j <= Len(l.destroies)
    BY <1>2 DEF DestroyOf
<1> QED BY <1>1, <1>2, <1>3, <1>4, <1>6, <1>7, <1>8, <1>9, <1>10, SameWhenSame

\* What is overwritten in the static buffer is the same but for its type.
LEMMA OverwrittenIs ==
    ASSUME NEW X, NEW s \in Seq(X),
           \A x \in X : [x EXCEPT !.where = "lost"] \in X
    PROVE  /\ Overwritten(s) \in Seq(X) /\ Len(Overwritten(s)) = Len(s)
           /\ DOMAIN Overwritten(s) = DOMAIN s
           /\ \A i \in DOMAIN s : \/ Overwritten(s)[i] = s[i]
                                  \/ Overwritten(s)[i] = [s[i] EXCEPT !.where = "lost"]
<1>1. DOMAIN s = 1 .. Len(s) /\ Len(s) \in Nat /\ \A i \in DOMAIN s : s[i] \in X
    OBVIOUS
<1>2. Overwritten(s) = [i \in 1 .. Len(s) |-> Overwritten(s)[i]]
    BY <1>1 DEF Overwritten
<1>3. \A i \in DOMAIN s : \/ Overwritten(s)[i] = s[i]
                          \/ Overwritten(s)[i] = [s[i] EXCEPT !.where = "lost"]
    BY DEF Overwritten
<1>4. \A i \in 1 .. Len(s) : Overwritten(s)[i] \in X
    BY <1>1, <1>3, ZenonT(40)
<1>5. Overwritten(s) \in [1 .. Len(s) -> X]
    BY <1>2, <1>4
<1> QED BY <1>1, <1>3, <1>5, IsASeq, LenProperties

LEMMA CastsOverwritten ==
    ASSUME NEW s \in Seq(CastCommand)
    PROVE  /\ Overwritten(s) \in Seq(CastCommand) /\ Len(Overwritten(s)) = Len(s)
           /\ DOMAIN Overwritten(s) = DOMAIN s
           /\ \A i \in DOMAIN s : /\ Overwritten(s)[i].e = s[i].e
                                  /\ Overwritten(s)[i].extend = s[i].extend
                                  /\ Overwritten(s)[i].shrink = s[i].shrink
<1>1. \A x \in CastCommand : /\ [x EXCEPT !.where = "lost"] \in CastCommand
                             /\ [x EXCEPT !.where = "lost"].e = x.e
                             /\ [x EXCEPT !.where = "lost"].extend = x.extend
                             /\ [x EXCEPT !.where = "lost"].shrink = x.shrink
    BY DEF CastCommand, Place
<1>2. \A i \in DOMAIN s : s[i] \in CastCommand
    OBVIOUS
<1>3. /\ Overwritten(s) \in Seq(CastCommand) /\ Len(Overwritten(s)) = Len(s)
      /\ DOMAIN Overwritten(s) = DOMAIN s
      /\ \A i \in DOMAIN s : \/ Overwritten(s)[i] = s[i]
                             \/ Overwritten(s)[i] = [s[i] EXCEPT !.where = "lost"]
    BY <1>1, OverwrittenIs
<1> QED BY <1>1, <1>2, <1>3

LEMMA AllocatesOverwritten ==
    ASSUME NEW s \in Seq(AllocateCommand)
    PROVE  /\ Overwritten(s) \in Seq(AllocateCommand) /\ Len(Overwritten(s)) = Len(s)
           /\ DOMAIN Overwritten(s) = DOMAIN s
           /\ \A i \in DOMAIN s : /\ Overwritten(s)[i].e = s[i].e
                                  /\ Overwritten(s)[i].types = s[i].types
<1>1. \A x \in AllocateCommand : /\ [x EXCEPT !.where = "lost"] \in AllocateCommand
                                 /\ [x EXCEPT !.where = "lost"].e = x.e
                                 /\ [x EXCEPT !.where = "lost"].types = x.types
    BY DEF AllocateCommand, Place
<1>2. \A i \in DOMAIN s : s[i] \in AllocateCommand
    OBVIOUS
<1>3. /\ Overwritten(s) \in Seq(AllocateCommand) /\ Len(Overwritten(s)) = Len(s)
      /\ DOMAIN Overwritten(s) = DOMAIN s
      /\ \A i \in DOMAIN s : \/ Overwritten(s)[i] = s[i]
                             \/ Overwritten(s)[i] = [s[i] EXCEPT !.where = "lost"]
    BY <1>1, OverwrittenIs
<1> QED BY <1>1, <1>2, <1>3

LEMMA InBufferIs ==
    ASSUME NEW l \in Local
    PROVE  /\ InBuffer(l) \in Local /\ InBuffer(l).entities = l.entities
           /\ InBuffer(l).casts = Overwritten(l.casts)
           /\ InBuffer(l).allocates = Overwritten(l.allocates)
           /\ InBuffer(l).instantiates = l.instantiates /\ InBuffer(l).sets = l.sets
           /\ InBuffer(l).patches = l.patches /\ InBuffer(l).destroies = l.destroies
<1>1. /\ Overwritten(l.casts) \in Seq(CastCommand)
      /\ Overwritten(l.allocates) \in Seq(AllocateCommand)
    BY LocalFields, CastsOverwritten, AllocatesOverwritten
<1> QED BY <1>1 DEF InBuffer, Local, CastCommand, AllocateCommand

Differences == [extend : SUBSET Type, shrink : SUBSET Type]

\* The last cast and another on the same entity become one.
LEMMA CastMergedIs ==
    ASSUME NEW l \in Local, Listed(l), CreatedOnce(l), l.casts # <<>>,
           NEW d \in Differences,
           NEW n, n = Len(l.casts), NEW h, h = l.entities[l.casts[n].e],
           NEW l2, l2 = CastMerged(l, d)
    PROVE  /\ l2 \in Local /\ Listed(l2) /\ CreatedOnce(l2)
           /\ \A g \in Handles : Mentions(l2, g) <=> Mentions(l, g)
           /\ \A g \in Handles \ {h} : Same(l, l2, g)
           /\ n \in Nat /\ CastOf(l, h, n)
           /\ \A j \in Nat : /\ CastOf(l2, h, j) <=> CastOf(l, h, j)
                             /\ CastOf(l, h, j) => j <= n
                             /\ CastOf(l, h, j) /\ j # n =>
                                   /\ l2.casts[j].extend = l.casts[j].extend
                                   /\ l2.casts[j].shrink = l.casts[j].shrink
           /\ l2.casts[n].extend = l.casts[n].extend \cup d.extend
           /\ l2.casts[n].shrink = l.casts[n].shrink \cup d.shrink
           /\ SameAllocates(l, l2, h) /\ SameInstantiates(l, l2, h)
           /\ SameSets(l, l2, h) /\ SamePatches(l, l2, h) /\ SameDestroies(l, l2, h)
<1> DEFINE o == Overwritten(l.casts)
           c == [e |-> o[n].e, extend |-> o[n].extend \cup d.extend,
                 shrink |-> o[n].shrink \cup d.shrink, where |-> WhereMerged(l.casts[n])]
<1>1. /\ l.casts \in Seq(CastCommand) /\ n \in Nat /\ DOMAIN l.casts = 1 .. n /\ n \in 1 .. n
    BY LocalFields, EmptySeq
<1>2. /\ o \in Seq(CastCommand) /\ Len(o) = n /\ DOMAIN o = 1 .. n
      /\ \A i \in 1 .. n : /\ o[i].e = l.casts[i].e
                           /\ o[i].extend = l.casts[i].extend /\ o[i].shrink = l.casts[i].shrink
    BY <1>1, CastsOverwritten
<1>3. l.casts[n] \in CastCommand /\ o[n] \in CastCommand
    BY <1>1, <1>2
<1>4. c \in CastCommand
    BY <1>3 DEF CastCommand, WhereMerged, Place, Differences
<1>5. [o EXCEPT ![n] = c] \in Seq(CastCommand)
    BY <1>1, <1>2, <1>4, ExceptSeq
<1>6. /\ l2 \in Local /\ l2.entities = l.entities
      /\ l2.casts = [o EXCEPT ![n] = c] /\ l2.allocates = Overwritten(l.allocates)
      /\ l2.instantiates = l.instantiates /\ l2.sets = l.sets
      /\ l2.patches = l.patches /\ l2.destroies = l.destroies
  <2>1. l2 = [InBuffer(l) EXCEPT !.casts = [o EXCEPT ![n] = c]]
    BY InBufferIs DEF CastMerged, Local
  <2> HIDE DEF c, o
  <2> QED BY <1>5, <2>1, InBufferIs DEF Local, CastCommand
<1>7. /\ DOMAIN l2.casts = 1 .. n
      /\ \A i \in 1 .. n : l2.casts[i] = IF i = n THEN c ELSE o[i]
    BY <1>2, <1>6
<1>8. /\ DOMAIN l2.allocates = DOMAIN l.allocates
      /\ \A i \in DOMAIN l.allocates : /\ l2.allocates[i].e = l.allocates[i].e
                                       /\ l2.allocates[i].types = l.allocates[i].types
    BY <1>6, LocalFields, AllocatesOverwritten
<1>9. \A i \in 1 .. n : l2.casts[i].e = l.casts[i].e
    BY <1>1, <1>2, <1>7
<1>10. \A g, j : CastOf(l2, g, j) <=> CastOf(l, g, j)
    BY <1>1, <1>6, <1>7, <1>9 DEF CastOf
<1>11. ASSUME NEW j, CastOf(l, h, j), j # n
       PROVE  /\ l2.casts[j].extend = l.casts[j].extend
              /\ l2.casts[j].shrink = l.casts[j].shrink
    BY <1>1, <1>2, <1>7, <1>11 DEF CastOf
<1>12. /\ l2.casts[n].extend = l.casts[n].extend \cup d.extend
       /\ l2.casts[n].shrink = l.casts[n].shrink \cup d.shrink
    BY <1>1, <1>2, <1>7
<1>13. \A g : /\ SameAllocates(l, l2, g)
              /\ \A j : AllocateOf(l2, g, j) <=> AllocateOf(l, g, j)
    BY <1>6, <1>8 DEF SameAllocates, AllocateOf
<1>14. ASSUME NEW g \in Handles \ {h} PROVE SameCasts(l, l2, g)
  <2>1. \A j : CastOf(l, g, j) => j # n /\ j \in 1 .. n
    BY <1>1, <1>14 DEF CastOf
  <2>2. \A i \in 1 .. n : i # n => l2.casts[i] = o[i]
    BY <1>7
  <2> QED BY <1>2, <1>10, <2>1, <2>2 DEF SameCasts
<1> HIDE DEF c, o
<1>15. Listed(l2)
    BY <1>1, <1>6, <1>7, <1>8, <1>9 DEF Listed
<1>16. CreatedOnce(l2)
  <2>1. \A g, j : InstantiateOf(l2, g, j) <=> InstantiateOf(l, g, j)
    BY <1>6 DEF InstantiateOf
  <2> QED BY <1>13, <2>1, CreatedOnceStill
<1>17. \A g \in Handles : Mentions(l2, g) <=> Mentions(l, g)
    BY <1>6 DEF Mentions
<1>18. \A g \in Handles \ {h} : Same(l, l2, g)
    BY <1>6, <1>13, <1>14, SameWhenSame DEF Same
<1>19. CastOf(l, h, n) /\ \A j : CastOf(l, h, j) => j <= n
    BY <1>1 DEF CastOf
<1> QED BY <1>1, <1>6, <1>10, <1>11, <1>12, <1>13, <1>15, <1>16, <1>17, <1>18, <1>19, SameWhenSame

\* A cast of an entity that is yet to be allocated.
LEMMA AllocateMergedIs ==
    ASSUME NEW l \in Local, Listed(l), CreatedOnce(l), l.allocates # <<>>,
           NEW d \in Differences,
           NEW n, n = Len(l.allocates), NEW h, h = l.entities[l.allocates[n].e],
           NEW l2, l2 = AllocateMerged(l, d)
    PROVE  /\ l2 \in Local /\ Listed(l2) /\ CreatedOnce(l2)
           /\ \A g \in Handles : Mentions(l2, g) <=> Mentions(l, g)
           /\ \A g \in Handles \ {h} : Same(l, l2, g)
           /\ n \in Nat /\ h \in Handles
           /\ \A j \in Nat : /\ AllocateOf(l, h, j) <=> j = n
                             /\ AllocateOf(l2, h, j) <=> j = n
           /\ l2.allocates[n].types = l.allocates[n].types \cup d.extend
           /\ SameInstantiates(l, l2, h) /\ SameCasts(l, l2, h)
           /\ SameSets(l, l2, h) /\ SamePatches(l, l2, h) /\ SameDestroies(l, l2, h)
<1> DEFINE o == Overwritten(l.allocates)
           c == [e |-> o[n].e, types |-> o[n].types \cup d.extend,
                 where |-> WhereMerged(l.allocates[n])]
<1>1. /\ l.allocates \in Seq(AllocateCommand) /\ n \in Nat
      /\ DOMAIN l.allocates = 1 .. n /\ n \in 1 .. n
    BY LocalFields, EmptySeq
<1>2. /\ o \in Seq(AllocateCommand) /\ Len(o) = n /\ DOMAIN o = 1 .. n
      /\ \A i \in 1 .. n : o[i].e = l.allocates[i].e /\ o[i].types = l.allocates[i].types
    BY <1>1, AllocatesOverwritten
<1>3. l.allocates[n] \in AllocateCommand /\ o[n] \in AllocateCommand
    BY <1>1, <1>2
<1>4. c \in AllocateCommand
    BY <1>3 DEF AllocateCommand, WhereMerged, Place, Differences
<1>5. [o EXCEPT ![n] = c] \in Seq(AllocateCommand)
    BY <1>1, <1>2, <1>4, ExceptSeq
<1>6. /\ l2 \in Local /\ l2.entities = l.entities
      /\ l2.allocates = [o EXCEPT ![n] = c] /\ l2.casts = Overwritten(l.casts)
      /\ l2.instantiates = l.instantiates /\ l2.sets = l.sets
      /\ l2.patches = l.patches /\ l2.destroies = l.destroies
  <2>1. l2 = [InBuffer(l) EXCEPT !.allocates = [o EXCEPT ![n] = c]]
    BY InBufferIs DEF AllocateMerged, Local
  <2> HIDE DEF c, o
  <2> QED BY <1>5, <2>1, InBufferIs DEF Local, AllocateCommand
<1>7. /\ DOMAIN l2.allocates = 1 .. n
      /\ \A i \in 1 .. n : l2.allocates[i] = IF i = n THEN c ELSE o[i]
    BY <1>2, <1>6
<1>8. /\ DOMAIN l2.casts = DOMAIN l.casts
      /\ \A i \in DOMAIN l.casts : /\ l2.casts[i].e = l.casts[i].e
                                   /\ l2.casts[i].extend = l.casts[i].extend
                                   /\ l2.casts[i].shrink = l.casts[i].shrink
    BY <1>6, LocalFields, CastsOverwritten, SMTT(60)
<1>9. \A i \in 1 .. n : l2.allocates[i].e = l.allocates[i].e
    BY <1>1, <1>2, <1>7
<1>10. \A g, j : AllocateOf(l2, g, j) <=> AllocateOf(l, g, j)
    BY <1>1, <1>6, <1>7, <1>9 DEF AllocateOf
<1>11. l2.allocates[n].types = l.allocates[n].types \cup d.extend
    BY <1>1, <1>2, <1>7
<1>12. \A g : SameCasts(l, l2, g)
    BY <1>6, <1>8 DEF SameCasts, CastOf
<1>13. h \in Handles
    BY <1>1, LocalFields DEF Listed
<1>14. AllocateOf(l, h, n) /\ \A j \in Nat : AllocateOf(l, h, j) => j = n
    BY <1>1, <1>13 DEF AllocateOf, CreatedOnce
<1>15. ASSUME NEW g \in Handles \ {h} PROVE SameAllocates(l, l2, g)
  <2>1. \A j : AllocateOf(l, g, j) => j # n /\ j \in 1 .. n
    BY <1>1, <1>15 DEF AllocateOf
  <2>2. \A i \in 1 .. n : i # n => l2.allocates[i] = o[i]
    BY <1>7
  <2> QED BY <1>2, <1>10, <2>1, <2>2 DEF SameAllocates
<1> HIDE DEF c, o
<1>16. Listed(l2)
    BY <1>1, <1>6, <1>7, <1>8, <1>9 DEF Listed
<1>17. CreatedOnce(l2)
  <2>1. \A g, j : InstantiateOf(l2, g, j) <=> InstantiateOf(l, g, j)
    BY <1>6 DEF InstantiateOf
  <2> QED BY <1>10, <2>1, CreatedOnceStill
<1>18. \A g \in Handles : Mentions(l2, g) <=> Mentions(l, g)
    BY <1>6 DEF Mentions
<1>19. \A g \in Handles \ {h} : Same(l, l2, g)
    BY <1>6, <1>12, <1>15, SameWhenSame DEF Same
<1> QED BY <1>1, <1>6, <1>10, <1>11, <1>12, <1>13, <1>14, <1>16, <1>17, <1>18, <1>19, SameWhenSame

-----------------------------------------------------------------------------
(* A command and the wish about its entity.                                *)

LEMMA UnmentionedHasNone ==
    ASSUME NEW l \in Local, Listed(l), NEW h \in Handles, ~ Mentions(l, h)
    PROVE  \A j \in Nat : /\ ~ AllocateOf(l, h, j) /\ ~ InstantiateOf(l, h, j)
                          /\ ~ CastOf(l, h, j) /\ ~ SetOf(l, h, j)
                          /\ ~ PatchOf(l, h, j) /\ ~ DestroyOf(l, h, j)
BY DEF Listed, Mentions, AllocateOf, InstantiateOf, CastOf, SetOf, PatchOf, DestroyOf

\* Nothing is recorded yet but where the entity comes from.
LEMMA HandleOKAtFirst ==
    ASSUME NEW l, NEW h, NEW b \in SUBSET Type, NEW r \in Refs,
           \A c \in SUBSET Type, q \in Refs : Origin(l, h, c, q) => c = b /\ q = r,
           \A j \in Nat : ~ CastOf(l, h, j) /\ ~ SetOf(l, h, j)
                          /\ ~ PatchOf(l, h, j) /\ ~ DestroyOf(l, h, j),
           NEW w, w.types = b, w.ref = r, w.taken = {},
           ~ w.set, ~ w.patched, ~ w.undone, ~ w.kept, ~ w.destroyed
    PROVE  HandleOK(l, h, w)
<1>1. TypesAfter(l, h, b, Nat) = b
    BY DEF TypesAfter
<1>2. CastsWished(l, h, w)
    BY <1>1 DEF CastsWished
<1>3. RefWished(l, h, w)
    BY DEF RefWished
<1> QED BY <1>2, <1>3 DEF HandleOK

\* The wish after a cast; kept says that the types taken stay.
AskedOf(w, d, kept) ==
    [w EXCEPT
        !.types = (@ \cup d.extend) \ d.shrink,
        !.ref = IF Ref \in d.shrink /\ ~ w.set THEN Null ELSE @,
        !.taken = @ \cup d.shrink,
        !.undone = @ \/ (w.taken \cap d.extend # {}),
        !.kept = @ \/ kept]

LEMMA AskedIs ==
    ASSUME NEW w \in Wish, NEW d \in Differences, NEW kept \in BOOLEAN,
           NEW w2, w2 = AskedOf(w, d, kept)
    PROVE  /\ w2 \in Wish
           /\ w2.types = (w.types \cup d.extend) \ d.shrink
           /\ w2.ref = IF Ref \in d.shrink /\ ~ w.set THEN Null ELSE w.ref
           /\ w2.taken = w.taken \cup d.shrink
           /\ w2.undone <=> w.undone \/ w.taken \cap d.extend # {}
           /\ w2.kept <=> w.kept \/ kept
           /\ w2.set = w.set /\ w2.patched = w.patched /\ w2.destroyed = w.destroyed
<1>1. /\ (w.types \cup d.extend) \ d.shrink \in SUBSET Type
      /\ w.taken \cup d.shrink \in SUBSET Type
      /\ (w.undone \/ (w.taken \cap d.extend # {})) \in BOOLEAN
      /\ (w.kept \/ kept) \in BOOLEAN
      /\ (IF Ref \in d.shrink /\ ~ w.set THEN Null ELSE w.ref) \in Handles \cup {Null}
    BY DEF Wish, Differences
<1> QED BY <1>1 DEF AskedOf, Wish

\* The references are not concerned.
LEMMA RefAfterAsked ==
    ASSUME NEW l, NEW l2, NEW h, NEW w \in Wish, NEW d \in Differences, NEW kept \in BOOLEAN,
           RefWished(l, h, w), NEW w2, w2 = AskedOf(w, d, kept),
           \A b \in SUBSET Type, r \in Refs : Origin(l2, h, b, r) =>
               \E c \in SUBSET Type : Origin(l, h, c, r),
           SameSets(l, l2, h), SamePatches(l, l2, h)
    PROVE  RefWished(l2, h, w2)
<1>1. /\ w2.ref = IF Ref \in d.shrink /\ ~ w.set THEN Null ELSE w.ref
      /\ w2.taken = w.taken \cup d.shrink
      /\ w2.set = w.set /\ w2.patched = w.patched
    BY AskedIs
<1>2. ASSUME NEW b \in SUBSET Type, NEW r \in Refs, Origin(l2, h, b, r),
             ~ w2.set, Ref \notin w2.taken
      PROVE  w2.ref = r
  <2>1. PICK c \in SUBSET Type : Origin(l, h, c, r)
    BY <1>2
  <2>2. w.ref = r
    BY <1>1, <1>2, <2>1 DEF RefWished
  <2> QED BY <1>1, <1>2, <2>2
<1>3. w.set <=> \E j \in Nat : SetOf(l, h, j)
    BY DEF RefWished
<1>4. w2.set <=> \E j \in Nat : SetOf(l2, h, j)
    BY <1>1, <1>3 DEF SameSets
<1>5. ASSUME NEW j \in Nat, SetOf(l2, h, j), \A k \in Nat : SetOf(l2, h, k) => k <= j
      PROVE  w2.ref = l2.sets[j].value
  <2>1. SetOf(l, h, j) /\ l2.sets[j].value = l.sets[j].value
        /\ \A k \in Nat : SetOf(l, h, k) => k <= j
    BY <1>5 DEF SameSets
  <2>2. w.ref = l.sets[j].value /\ w.set
    BY <1>3, <2>1 DEF RefWished
  <2> QED BY <1>1, <2>1, <2>2
<1>6. w2.patched <=> \E j \in Nat : PatchOf(l2, h, j)
    BY <1>1 DEF RefWished, SamePatches
<1> QED BY <1>2, <1>4, <1>5, <1>6 DEF RefWished

\* A cast of its own.
LEMMA CastWished ==
    ASSUME NEW l, NEW l2, NEW h, NEW w \in Wish, NEW d \in Differences, HandleOK(l, h, w),
           NEW kept \in BOOLEAN, ~ kept, NEW w2, w2 = AskedOf(w, d, kept),
           SameAllocates(l, l2, h), SameInstantiates(l, l2, h),
           SameSets(l, l2, h), SamePatches(l, l2, h), SameDestroies(l, l2, h),
           NEW n \in Nat,
           \A j \in Nat : CastOf(l2, h, j) <=> CastOf(l, h, j) \/ j = n,
           \A j \in Nat : CastOf(l, h, j) => l2.casts[j] = l.casts[j] /\ j < n,
           l2.casts[n].extend = d.extend, l2.casts[n].shrink = d.shrink
    PROVE  HandleOK(l2, h, w2)
<1>1. /\ w2.types = (w.types \cup d.extend) \ d.shrink
      /\ w2.taken = w.taken \cup d.shrink
      /\ w2.undone <=> w.undone \/ w.taken \cap d.extend # {}
      /\ (w2.kept <=> w.kept) /\ w2.destroyed = w.destroyed
    BY AskedIs
<1>2. /\ \A j \in Nat : CastOf(l, h, j) => l.casts[j].shrink \subseteq w.taken
      /\ ~ w.kept => \A x \in w.taken : \E j \in Nat : CastOf(l, h, j) /\ x \in l.casts[j].shrink
      /\ ~ w.undone => \A j, k \in Nat :
            CastOf(l, h, j) /\ CastOf(l, h, k) /\ j < k
                => l.casts[k].extend \cap l.casts[j].shrink = {}
    BY DEF HandleOK, CastsWished
<1>3. d.extend \subseteq Type /\ d.shrink \subseteq Type
    BY DEF Differences
<1>4. ASSUME NEW b \in SUBSET Type, NEW r \in Refs, Origin(l2, h, b, r), ~ w2.undone, ~ w2.kept
      PROVE  w2.types = TypesAfter(l2, h, b, Nat)
  <2>1. Origin(l, h, b, r)
    BY <1>4, SameOrigin
  <2>2. w.types = TypesAfter(l, h, b, Nat)
    BY <1>1, <1>4, <2>1 DEF HandleOK, CastsWished
  <2>3. ASSUME NEW x \in Type
        PROVE  (\E j \in Nat : CastOf(l2, h, j) /\ x \in l2.casts[j].extend)
               <=> x \in d.extend \/ (\E j \in Nat : CastOf(l, h, j) /\ x \in l.casts[j].extend)
    OBVIOUS
  <2>4. ASSUME NEW x \in Type
        PROVE  (\A j \in Nat : CastOf(l2, h, j) => x \notin l2.casts[j].shrink)
               <=> /\ x \notin d.shrink
                   /\ \A j \in Nat : CastOf(l, h, j) => x \notin l.casts[j].shrink
    OBVIOUS
  <2>5. ASSUME NEW x \in d.extend
        PROVE  \A j \in Nat : CastOf(l, h, j) => x \notin l.casts[j].shrink
    BY <1>1, <1>2, <1>4
  <2>6. ASSUME NEW x \in Type
        PROVE  x \in w2.types <=> x \in TypesAfter(l2, h, b, Nat)
    BY <1>1, <2>2, <2>3, <2>4, <2>5 DEF TypesAfter
  <2>7. w2.types \subseteq Type /\ TypesAfter(l2, h, b, Nat) \subseteq Type
    BY <1>1, <1>3 DEF Wish, TypesAfter
  <2> QED BY <2>6, <2>7
<1>5. \A j \in Nat : CastOf(l2, h, j) => l2.casts[j].shrink \subseteq w2.taken
    BY <1>1, <1>2
<1>6. ASSUME ~ w2.kept, NEW x \in w2.taken
      PROVE  \E j \in Nat : CastOf(l2, h, j) /\ x \in l2.casts[j].shrink
    BY <1>1, <1>2, <1>6
<1>7. ASSUME ~ w2.undone, NEW j \in Nat, NEW k \in Nat,
             CastOf(l2, h, j), CastOf(l2, h, k), j < k
      PROVE  l2.casts[k].extend \cap l2.casts[j].shrink = {}
  <2>1. j # n /\ CastOf(l, h, j) /\ l2.casts[j] = l.casts[j]
    BY <1>7
  <2>2. CASE k = n
    BY <1>1, <1>2, <1>7, <2>1, <2>2
  <2>3. CASE k # n
    BY <1>1, <1>2, <1>7, <2>1, <2>3
  <2> QED BY <2>2, <2>3
<1>8. CastsWished(l2, h, w2)
    BY <1>4, <1>5, <1>6, <1>7 DEF CastsWished
<1>9. RefWished(l2, h, w2)
  <2>1. \A b \in SUBSET Type, r \in Refs :
            Origin(l2, h, b, r) => \E c \in SUBSET Type : Origin(l, h, c, r)
    BY SameOrigin
  <2>2. RefWished(l, h, w)
    BY DEF HandleOK
  <2> QED BY <2>1, <2>2, RefAfterAsked
<1>10. w2.destroyed <=> \E j \in Nat : DestroyOf(l2, h, j)
    BY <1>1 DEF HandleOK, SameDestroies
<1> QED BY <1>8, <1>9, <1>10 DEF HandleOK

\* A cast that is merged into the last.
LEMMA MergedCastWished ==
    ASSUME NEW l, NEW l2, NEW h, NEW w \in Wish, NEW d \in Differences, HandleOK(l, h, w),
           NEW kept \in BOOLEAN, ~ kept, NEW w2, w2 = AskedOf(w, d, kept),
           SameAllocates(l, l2, h), SameInstantiates(l, l2, h),
           SameSets(l, l2, h), SamePatches(l, l2, h), SameDestroies(l, l2, h),
           NEW n \in Nat, CastOf(l, h, n),
           \A j \in Nat : /\ CastOf(l2, h, j) <=> CastOf(l, h, j)
                          /\ CastOf(l, h, j) => j <= n
                          /\ CastOf(l, h, j) /\ j # n =>
                                /\ l2.casts[j].extend = l.casts[j].extend
                                /\ l2.casts[j].shrink = l.casts[j].shrink,
           l2.casts[n].extend = l.casts[n].extend \cup d.extend,
           l2.casts[n].shrink = l.casts[n].shrink \cup d.shrink
    PROVE  HandleOK(l2, h, w2)
<1>1. /\ w2.types = (w.types \cup d.extend) \ d.shrink
      /\ w2.taken = w.taken \cup d.shrink
      /\ w2.undone <=> w.undone \/ w.taken \cap d.extend # {}
      /\ (w2.kept <=> w.kept) /\ w2.destroyed = w.destroyed
    BY AskedIs
<1>2. /\ \A j \in Nat : CastOf(l, h, j) => l.casts[j].shrink \subseteq w.taken
      /\ ~ w.kept => \A x \in w.taken : \E j \in Nat : CastOf(l, h, j) /\ x \in l.casts[j].shrink
      /\ ~ w.undone => \A j, k \in Nat :
            CastOf(l, h, j) /\ CastOf(l, h, k) /\ j < k
                => l.casts[k].extend \cap l.casts[j].shrink = {}
    BY DEF HandleOK, CastsWished
<1>3. d.extend \subseteq Type /\ d.shrink \subseteq Type
    BY DEF Differences
<1>4. ASSUME NEW b \in SUBSET Type, NEW r \in Refs, Origin(l2, h, b, r), ~ w2.undone, ~ w2.kept
      PROVE  w2.types = TypesAfter(l2, h, b, Nat)
  <2>1. Origin(l, h, b, r)
    BY <1>4, SameOrigin
  <2>2. w.types = TypesAfter(l, h, b, Nat)
    BY <1>1, <1>4, <2>1 DEF HandleOK, CastsWished
  <2>3. ASSUME NEW x \in Type
        PROVE  (\E j \in Nat : CastOf(l2, h, j) /\ x \in l2.casts[j].extend)
               <=> x \in d.extend \/ (\E j \in Nat : CastOf(l, h, j) /\ x \in l.casts[j].extend)
    OBVIOUS
  <2>4. ASSUME NEW x \in Type
        PROVE  (\A j \in Nat : CastOf(l2, h, j) => x \notin l2.casts[j].shrink)
               <=> /\ x \notin d.shrink
                   /\ \A j \in Nat : CastOf(l, h, j) => x \notin l.casts[j].shrink
    OBVIOUS
  <2>5. ASSUME NEW x \in d.extend
        PROVE  \A j \in Nat : CastOf(l, h, j) => x \notin l.casts[j].shrink
    BY <1>1, <1>2, <1>4
  <2>6. ASSUME NEW x \in Type
        PROVE  x \in w2.types <=> x \in TypesAfter(l2, h, b, Nat)
    BY <1>1, <2>2, <2>3, <2>4, <2>5 DEF TypesAfter
  <2>7. w2.types \subseteq Type /\ TypesAfter(l2, h, b, Nat) \subseteq Type
    BY <1>1, <1>3 DEF Wish, TypesAfter
  <2> QED BY <2>6, <2>7
<1>5. \A j \in Nat : CastOf(l2, h, j) => l2.casts[j].shrink \subseteq w2.taken
    BY <1>1, <1>2
<1>6. ASSUME ~ w2.kept, NEW x \in w2.taken
      PROVE  \E j \in Nat : CastOf(l2, h, j) /\ x \in l2.casts[j].shrink
  <2>1. CASE x \in d.shrink
    BY <2>1
  <2>2. CASE x \in w.taken
    <3>1. PICK j \in Nat : CastOf(l, h, j) /\ x \in l.casts[j].shrink
        BY <1>1, <1>2, <1>6, <2>2
    <3> QED BY <3>1
  <2> QED BY <1>1, <2>1, <2>2
<1>7. ASSUME ~ w2.undone, NEW j \in Nat, NEW k \in Nat,
             CastOf(l2, h, j), CastOf(l2, h, k), j < k
      PROVE  l2.casts[k].extend \cap l2.casts[j].shrink = {}
  <2>1. j # n /\ CastOf(l, h, j) /\ CastOf(l, h, k) /\ l2.casts[j].shrink = l.casts[j].shrink
    BY <1>7
  <2>2. l.casts[k].extend \cap l.casts[j].shrink = {} /\ l.casts[j].shrink \subseteq w.taken
        /\ w.taken \cap d.extend = {}
    BY <1>1, <1>2, <1>7, <2>1
  <2> QED BY <2>1, <2>2
<1>8. CastsWished(l2, h, w2)
    BY <1>4, <1>5, <1>6, <1>7 DEF CastsWished
<1>9. RefWished(l2, h, w2)
  <2>1. \A b \in SUBSET Type, r \in Refs :
            Origin(l2, h, b, r) => \E c \in SUBSET Type : Origin(l, h, c, r)
    BY SameOrigin
  <2>2. RefWished(l, h, w)
    BY DEF HandleOK
  <2> QED BY <2>1, <2>2, RefAfterAsked
<1>10. w2.destroyed <=> \E j \in Nat : DestroyOf(l2, h, j)
    BY <1>1 DEF HandleOK, SameDestroies
<1> QED BY <1>8, <1>9, <1>10 DEF HandleOK

\* A cast of what is yet to be allocated: what is taken stays.
LEMMA MergedAllocateWished ==
    ASSUME NEW l, NEW l2, NEW h, NEW w \in Wish, NEW d \in Differences, HandleOK(l, h, w),
           NEW kept \in BOOLEAN, d.shrink # {} => kept, NEW w2, w2 = AskedOf(w, d, kept),
           h.transient, \A j \in Nat : ~ InstantiateOf(l, h, j),
           SameInstantiates(l, l2, h), SameCasts(l, l2, h),
           SameSets(l, l2, h), SamePatches(l, l2, h), SameDestroies(l, l2, h),
           NEW n \in Nat,
           \A j \in Nat : (AllocateOf(l, h, j) <=> j = n) /\ (AllocateOf(l2, h, j) <=> j = n),
           l.allocates[n].types \in SUBSET Type,
           l2.allocates[n].types = l.allocates[n].types \cup d.extend
    PROVE  HandleOK(l2, h, w2)
<1>1. /\ w2.types = (w.types \cup d.extend) \ d.shrink
      /\ w2.taken = w.taken \cup d.shrink
      /\ w2.undone <=> w.undone \/ w.taken \cap d.extend # {}
      /\ w2.kept <=> w.kept \/ kept
      /\ w2.destroyed = w.destroyed
    BY AskedIs
<1>2. /\ \A j \in Nat : CastOf(l, h, j) => l.casts[j].shrink \subseteq w.taken
      /\ ~ w.kept => \A x \in w.taken : \E j \in Nat : CastOf(l, h, j) /\ x \in l.casts[j].shrink
      /\ ~ w.undone => \A j, k \in Nat :
            CastOf(l, h, j) /\ CastOf(l, h, k) /\ j < k
                => l.casts[k].extend \cap l.casts[j].shrink = {}
    BY DEF HandleOK, CastsWished
<1>3. d.extend \subseteq Type /\ d.shrink \subseteq Type
    BY DEF Differences
<1> DEFINE a == l.allocates[n].types
<1>4. \A b, r : Origin(l, h, b, r) <=> b = a /\ r = Null
    BY DEF Origin
<1>5. \A b, r : Origin(l2, h, b, r) <=> b = a \cup d.extend /\ r = Null
    BY DEF Origin, SameInstantiates
<1> HIDE DEF a
<1>6. ASSUME NEW b \in SUBSET Type, NEW r \in Refs, Origin(l2, h, b, r), ~ w2.undone, ~ w2.kept
      PROVE  w2.types = TypesAfter(l2, h, b, Nat)
  <2>1. a \in SUBSET Type /\ Null \in Refs /\ Origin(l, h, a, Null) /\ b = a \cup d.extend
    BY <1>4, <1>5, <1>6 DEF a, Refs
  <2>2. w.types = TypesAfter(l, h, a, Nat) /\ d.shrink = {}
    BY <1>1, <1>6, <2>1 DEF HandleOK, CastsWished
  <2>3. TypesAfter(l2, h, b, Nat) = TypesAfter(l, h, b, Nat)
    BY SameTypesAfter
  <2>4. ASSUME NEW x \in d.extend
        PROVE  \A j \in Nat : CastOf(l, h, j) => x \notin l.casts[j].shrink
    BY <1>1, <1>2, <1>6
  <2>5. ASSUME NEW x \in Type
        PROVE  x \in w2.types <=> x \in TypesAfter(l, h, b, Nat)
    BY <1>1, <2>1, <2>2, <2>4 DEF TypesAfter
  <2>6. w2.types \subseteq Type /\ TypesAfter(l, h, b, Nat) \subseteq Type
    BY <1>1, <1>3 DEF Wish, TypesAfter
  <2> QED BY <2>3, <2>5, <2>6
<1>7. \A j \in Nat : CastOf(l2, h, j) => l2.casts[j].shrink \subseteq w2.taken
    BY <1>1, <1>2 DEF SameCasts
<1>8. ASSUME ~ w2.kept, NEW x \in w2.taken
      PROVE  \E j \in Nat : CastOf(l2, h, j) /\ x \in l2.casts[j].shrink
    BY <1>1, <1>2, <1>8 DEF SameCasts
<1>9. ~ w2.undone => \A j, k \in Nat :
            CastOf(l2, h, j) /\ CastOf(l2, h, k) /\ j < k
                => l2.casts[k].extend \cap l2.casts[j].shrink = {}
    BY <1>1, <1>2 DEF SameCasts
<1>10. CastsWished(l2, h, w2)
    BY <1>6, <1>7, <1>8, <1>9 DEF CastsWished
<1>11. RefWished(l2, h, w2)
  <2>1. \A b \in SUBSET Type, r \in Refs :
            Origin(l2, h, b, r) => \E c \in SUBSET Type : Origin(l, h, c, r)
    BY <1>4, <1>5 DEF a
  <2>2. RefWished(l, h, w)
    BY DEF HandleOK
  <2> QED BY <2>1, <2>2, RefAfterAsked
<1>12. w2.destroyed <=> \E j \in Nat : DestroyOf(l2, h, j)
    BY <1>1 DEF HandleOK, SameDestroies
<1> QED BY <1>10, <1>11, <1>12 DEF HandleOK

LEMMA SetWished ==
    ASSUME NEW l, NEW l2, NEW h, NEW w \in Wish, HandleOK(l, h, w), NEW v \in Handles,
           NEW w2, w2 = [w EXCEPT !.ref = v, !.set = TRUE],
           SameAllocates(l, l2, h), SameInstantiates(l, l2, h), SameCasts(l, l2, h),
           SamePatches(l, l2, h), SameDestroies(l, l2, h),
           NEW n \in Nat,
           \A j \in Nat : SetOf(l2, h, j) <=> SetOf(l, h, j) \/ j = n,
           \A j \in Nat : SetOf(l, h, j) => j < n,
           l2.sets[n].value = v
    PROVE  w2 \in Wish /\ HandleOK(l2, h, w2)
<1>1. /\ w2 \in Wish /\ w2.ref = v /\ w2.set
      /\ w2.types = w.types /\ w2.taken = w.taken /\ w2.undone = w.undone
      /\ w2.kept = w.kept /\ w2.patched = w.patched /\ w2.destroyed = w.destroyed
    BY DEF Wish
<1>2. CastsWished(l, h, w2)
    BY <1>1, Zenon DEF HandleOK, CastsWished
<1>3. CastsWished(l2, h, w2)
    BY <1>2, SameCastsWished
<1>4. ASSUME NEW j \in Nat, SetOf(l2, h, j), \A k \in Nat : SetOf(l2, h, k) => k <= j
      PROVE  w2.ref = l2.sets[j].value
  <2>1. j = n
    BY <1>4
  <2> QED BY <1>1, <2>1
<1>5. w2.patched <=> \E j \in Nat : PatchOf(l2, h, j)
    BY <1>1 DEF HandleOK, RefWished, SamePatches
<1>6. RefWished(l2, h, w2)
    BY <1>1, <1>4, <1>5 DEF RefWished
<1>7. w2.destroyed <=> \E j \in Nat : DestroyOf(l2, h, j)
    BY <1>1 DEF HandleOK, SameDestroies
<1> QED BY <1>1, <1>3, <1>6, <1>7 DEF HandleOK

LEMMA PatchWished ==
    ASSUME NEW l, NEW l2, NEW h, NEW w \in Wish, HandleOK(l, h, w),
           NEW w2, w2 = [w EXCEPT !.patched = TRUE],
           SameAllocates(l, l2, h), SameInstantiates(l, l2, h), SameCasts(l, l2, h),
           SameSets(l, l2, h), SameDestroies(l, l2, h),
           NEW n \in Nat,
           \A j \in Nat : PatchOf(l2, h, j) <=> PatchOf(l, h, j) \/ j = n
    PROVE  w2 \in Wish /\ HandleOK(l2, h, w2)
<1>1. /\ w2 \in Wish /\ w2.ref = w.ref /\ w2.set = w.set
      /\ w2.types = w.types /\ w2.taken = w.taken /\ w2.undone = w.undone
      /\ w2.kept = w.kept /\ w2.patched /\ w2.destroyed = w.destroyed
    BY DEF Wish
<1>2. CastsWished(l, h, w2)
    BY <1>1, Zenon DEF HandleOK, CastsWished
<1>3. CastsWished(l2, h, w2)
    BY <1>2, SameCastsWished
<1>4. ASSUME NEW j \in Nat, SetOf(l2, h, j), \A k \in Nat : SetOf(l2, h, k) => k <= j
      PROVE  w2.ref = l2.sets[j].value
    BY <1>1, <1>4 DEF HandleOK, RefWished, SameSets
<1>5. w2.set <=> \E j \in Nat : SetOf(l2, h, j)
    BY <1>1 DEF HandleOK, RefWished, SameSets
<1>6. ASSUME NEW b \in SUBSET Type, NEW r \in Refs, Origin(l2, h, b, r),
             ~ w2.set, Ref \notin w2.taken
      PROVE  w2.ref = r
    BY <1>1, <1>6, SameOrigin DEF HandleOK, RefWished
<1>7. RefWished(l2, h, w2)
    BY <1>1, <1>4, <1>5, <1>6 DEF RefWished
<1>8. w2.destroyed <=> \E j \in Nat : DestroyOf(l2, h, j)
    BY <1>1 DEF HandleOK, SameDestroies
<1> QED BY <1>1, <1>3, <1>7, <1>8 DEF HandleOK

LEMMA DestroyWished ==
    ASSUME NEW l, NEW l2, NEW h, NEW w \in Wish, HandleOK(l, h, w),
           NEW w2, w2 = [w EXCEPT !.destroyed = TRUE],
           SameAllocates(l, l2, h), SameInstantiates(l, l2, h), SameCasts(l, l2, h),
           SameSets(l, l2, h), SamePatches(l, l2, h),
           NEW n \in Nat,
           \A j \in Nat : DestroyOf(l2, h, j) <=> DestroyOf(l, h, j) \/ j = n
    PROVE  w2 \in Wish /\ HandleOK(l2, h, w2)
<1>1. /\ w2 \in Wish /\ w2.ref = w.ref /\ w2.set = w.set
      /\ w2.types = w.types /\ w2.taken = w.taken /\ w2.undone = w.undone
      /\ w2.kept = w.kept /\ w2.patched = w.patched /\ w2.destroyed
    BY DEF Wish
<1>2. CastsWished(l, h, w2) /\ RefWished(l, h, w2)
    BY <1>1, Zenon DEF HandleOK, CastsWished, RefWished
<1>3. CastsWished(l2, h, w2) /\ RefWished(l2, h, w2)
    BY <1>2, SameCastsWished, SameRefWished
<1>4. w2.destroyed <=> \E j \in Nat : DestroyOf(l2, h, j)
    BY <1>1
<1> QED BY <1>1, <1>3, <1>4 DEF HandleOK

-----------------------------------------------------------------------------
(* A thread that records.                                                  *)

LEMMA HandlesAre ==
    /\ \A h \in Handles : h.transient \in BOOLEAN
    /\ \A h \in Handles : h.transient => h = New(h.id) /\ h.id \in 0 .. MaxNew - 1
    /\ \A h \in Handles : ~ h.transient => h = Old(h.id) /\ h.id \in Ids
    /\ \A n \in 0 .. MaxNew - 1 : New(n) \in Handles
    /\ \A id \in Ids : Old(id) \in Handles
    /\ \A n : New(n).transient /\ New(n).id = n
    /\ \A n : ~ Old(n).transient /\ Old(n).id = n
<1>1. /\ \A n : New(n).transient /\ New(n).id = n
      /\ \A n : ~ Old(n).transient /\ Old(n).id = n
    BY DEF New, Old
<1>2. /\ \A n \in 0 .. MaxNew - 1 : New(n) \in Handles
      /\ \A id \in Ids : Old(id) \in Handles
    BY Zenon DEF Handles
<1>3. ASSUME NEW h \in Handles
      PROVE  \/ \E id \in Ids : h = Old(id)
             \/ \E n \in 0 .. MaxNew - 1 : h = New(n)
    BY Zenon DEF Handles
<1>4. ASSUME NEW h \in Handles
      PROVE  /\ h.transient \in BOOLEAN
             /\ h.transient => h = New(h.id) /\ h.id \in 0 .. MaxNew - 1
             /\ ~ h.transient => h = Old(h.id) /\ h.id \in Ids
  <2>1. CASE \E id \in Ids : h = Old(id)
    BY <2>1 DEF Old
  <2>2. CASE \E n \in 0 .. MaxNew - 1 : h = New(n)
    BY <2>2 DEF New
  <2> QED BY <1>3, <2>1, <2>2
<1> QED BY <1>1, <1>2, <1>4

\* The thread's own local, and that nobody else knows the handle.
LEMMA MineIs ==
    ASSUME StorageInv, Rec(local), NEW t \in Thread, get[t].pc = "in"
    PROVE  /\ get[t].slot \in Slot /\ get[t].slot \in Taken /\ ids[get[t].slot] = t
           /\ Mine(t) = local[get[t].slot] /\ Mine(t) \in Local
           /\ Listed(Mine(t)) /\ CreatedOnce(Mine(t))
<1>1. get[t].slot \in Taken /\ ids[get[t].slot] = t
    BY DEF StorageInv
<1>2. get[t].slot \in Slot
    BY <1>1 DEF StorageInv
<1> QED BY <1>1, <1>2 DEF Rec, Mine

LEMMA KnownIsAlone ==
    ASSUME StorageInv, Rec(local), NEW t \in Thread, get[t].pc = "in", NEW h \in Handles,
           IF h.transient THEN Mentions(Mine(t), h) \/ h.id >= allocates ELSE h.id \in Task[t]
    PROVE  Alone(local, get[t].slot, h)
<1> DEFINE s == get[t].slot
<1>1. s \in Slot /\ s \in Taken /\ ids[s] = t /\ Mine(t) = local[s]
    BY MineIs
<1> HIDE DEF s
<1>2. ASSUME NEW r \in Slot \ {s}, Mentions(local[r], h) PROVE FALSE
  <2>1. /\ r \in Taken /\ ids[r] \in Thread
        /\ IF h.transient THEN h.id < allocates ELSE h.id \in Task[ids[r]]
        /\ Alone(local, r, h)
    BY <1>2 DEF Rec
  <2>2. CASE h.transient
    <3>1. h.id \in Int /\ allocates \in Int
        BY <2>2, HandlesAre, BufferAssumption DEF Rec
    <3>2. Mentions(local[s], h)
        BY <1>1, <2>1, <2>2, <3>1
    <3> QED BY <1>1, <1>2, <2>1, <3>2 DEF Alone
  <2>3. CASE ~ h.transient
    <3>1. Task[t] \cap Task[ids[r]] # {}
        BY <2>1, <2>3
    <3>2. ids[r] = ids[s]
        BY <1>1, <2>1, <3>1, BufferAssumption
    <3>3. r = s
        BY <1>1, <2>1, <3>2 DEF StorageInv
    <3> QED BY <1>2, <3>3
  <2> QED BY <2>2, <2>3
<1> QED BY <1>2 DEF Alone, s

LEMMA RecordKeeps ==
    ASSUME StorageInv, Rec(local), NEW t \in Thread, get[t].pc = "in",
           NEW h \in Handles, NEW l2 \in Local, NEW w2 \in Wish,
           local' = [local EXCEPT ![get[t].slot] = l2],
           said' = [said EXCEPT ![h] = w2], UNCHANGED storageVars,
           \/ /\ allocates' = allocates
              /\ IF h.transient THEN Mentions(Mine(t), h) ELSE h.id \in Task[t]
              /\ HandleOK(Mine(t), h, said[h]) => HandleOK(l2, h, w2)
              /\ (\E j \in Nat : AllocateOf(Mine(t), h, j) \/ InstantiateOf(Mine(t), h, j))
                     => (\E j \in Nat : AllocateOf(l2, h, j) \/ InstantiateOf(l2, h, j))
           \/ /\ allocates < MaxNew /\ allocates' = allocates + 1 /\ h = New(allocates)
              /\ HandleOK(l2, h, w2)
              /\ \E j \in Nat : AllocateOf(l2, h, j) \/ InstantiateOf(l2, h, j),
           Listed(l2), CreatedOnce(l2),
           \A g \in Handles : Mentions(l2, g) <=> Mentions(Mine(t), g) \/ g = h,
           \A g \in Handles \ {h} : Same(Mine(t), l2, g)
    PROVE  Rec(local)'
<1> DEFINE s == get[t].slot
           l == local[s]
<1>1. /\ s \in Slot /\ s \in Taken /\ ids[s] = t /\ Mine(t) = l
    BY MineIs
<1>2. /\ local \in [Slot -> Local] /\ allocates \in 0 .. MaxNew /\ said \in [Handles -> Wish]
      /\ MaxNew \in Nat
    BY BufferAssumption DEF Rec
<1>3. ids' = ids /\ slots' = slots /\ Taken' = Taken
    BY DEF storageVars, Taken
<1> HIDE DEF s
<1>4. local' = [local EXCEPT ![s] = l2]
    BY DEF s
<1>5. local'[s] = l2 /\ \A r \in Slot \ {s} : local'[r] = local[r]
    BY <1>1, <1>2, <1>4
<1>6. local' \in [Slot -> Local] /\ said' \in [Handles -> Wish] /\ allocates' \in 0 .. MaxNew
  <2>1. local' \in [Slot -> Local] /\ said' \in [Handles -> Wish]
    BY <1>2, <1>4
  <2>2. allocates' \in 0 .. MaxNew
    BY <1>2
  <2> QED BY <2>1, <2>2
<1>7. said'[h] = w2 /\ \A g \in Handles \ {h} : said'[g] = said[g]
    BY <1>2
<1>8. /\ Alone(local, s, h)
      /\ IF h.transient THEN h.id < allocates' ELSE h.id \in Task[t]
  <2>1. CASE /\ allocates' = allocates
             /\ IF h.transient THEN Mentions(Mine(t), h) ELSE h.id \in Task[t]
    <3>1. h.transient => h.id < allocates
        BY <1>1, <2>1 DEF Rec
    <3> QED BY <2>1, <3>1, KnownIsAlone DEF s
  <2>2. CASE allocates' = allocates + 1 /\ h = New(allocates)
    <3>1. h.transient /\ h.id = allocates
        BY <2>2, HandlesAre
    <3>2. h.id >= allocates /\ h.id < allocates'
        BY <1>2, <2>2, <3>1
    <3> QED BY <3>1, <3>2, KnownIsAlone DEF s
  <2> QED BY <2>1, <2>2
<1>9. \A r \in Slot : Listed(local'[r]) /\ CreatedOnce(local'[r])
    BY <1>5 DEF Rec
<1>10. ASSUME NEW r \in Slot, NEW g \in Handles
       PROVE  Mentions(local'[r], g) <=> Mentions(local[r], g) \/ (r = s /\ g = h)
    BY <1>1, <1>5
<1>11. ASSUME NEW r \in Slot, NEW g \in Handles, g # h
       PROVE  Alone(local', r, g) <=> Alone(local, r, g)
    BY <1>10, <1>11 DEF Alone
<1>12. Alone(local', s, h)
    BY <1>8, <1>10 DEF Alone
<1>13. ASSUME NEW r \in Slot, r # s PROVE ~ Alone(local', r, h)
    BY <1>1, <1>10, <1>13 DEF Alone
<1>14. ASSUME NEW r \in Slot, NEW g \in Handles, Mentions(local'[r], g)
       PROVE  /\ r \in Taken' /\ ids'[r] \in Thread
              /\ IF g.transient THEN g.id < allocates' ELSE g.id \in Task[ids'[r]]
              /\ Alone(local', r, g)
  <2>1. CASE g = h
    <3>1. r = s
        BY <1>8, <1>10, <1>14, <2>1 DEF Alone
    <3> QED BY <1>1, <1>3, <1>8, <1>12, <2>1, <3>1
  <2>2. CASE g # h
    <3>1. Mentions(local[r], g)
        BY <1>10, <1>14, <2>2
    <3>2. /\ r \in Taken /\ ids[r] \in Thread
          /\ IF g.transient THEN g.id < allocates ELSE g.id \in Task[ids[r]]
          /\ Alone(local, r, g)
        BY <3>1 DEF Rec
    <3>3. g.transient => g.id < allocates'
        BY <1>2, <3>2, HandlesAre
    <3> QED BY <1>3, <1>11, <2>2, <3>2, <3>3
  <2> QED BY <2>1, <2>2
<1>15. ASSUME NEW g \in Subjects', g # h PROVE g \in Subjects
  <2>1. g \in Handles /\ (~ g.transient \/ g.id < allocates')
    BY <1>15 DEF Subjects
  <2>2. CASE allocates' = allocates
    BY <2>1, <2>2 DEF Subjects
  <2>3. CASE allocates' = allocates + 1 /\ h = New(allocates)
    <3>1. g.transient => g.id # allocates /\ g.id \in Int
        BY <1>15, <2>1, <2>3, HandlesAre
    <3> QED BY <1>2, <2>1, <2>3, <3>1 DEF Subjects
  <2> QED BY <2>2, <2>3
<1>16. ASSUME NEW g \in Subjects', g.transient
       PROVE  \E r \in Slot : \E j \in Nat :
                  AllocateOf(local'[r], g, j) \/ InstantiateOf(local'[r], g, j)
  <2>1. CASE g # h
    <3>1. g \in Subjects /\ g \in Handles
        BY <1>15, <2>1 DEF Subjects
    <3>2. PICK r \in Slot, j \in Nat : AllocateOf(local[r], g, j) \/ InstantiateOf(local[r], g, j)
        BY <1>16, <3>1 DEF Rec
    <3>3. CASE r # s
        BY <1>5, <3>2, <3>3
    <3>4. CASE r = s
      <4>1. Same(l, l2, g)
        BY <1>1, <2>1, <3>1
      <4>2. AllocateOf(l2, g, j) \/ InstantiateOf(l2, g, j)
        BY <3>2, <3>4, <4>1 DEF Same, SameAllocates, SameInstantiates
      <4> QED BY <1>1, <1>5, <4>2
    <3> QED BY <3>3, <3>4
  <2>2. CASE g = h /\ allocates' = allocates + 1
    <3>1. allocates' # allocates
        BY <1>2, <2>2
    <3> QED BY <1>1, <1>5, <2>2, <3>1
  <2>3. CASE g = h /\ allocates' = allocates
    <3>1. g \in Subjects /\ allocates' # allocates + 1
        BY <1>2, <2>3 DEF Subjects
    <3>2. PICK r \in Slot, j \in Nat : AllocateOf(local[r], g, j) \/ InstantiateOf(local[r], g, j)
        BY <1>16, <3>1 DEF Rec
    <3>3. Mentions(local[r], g)
        BY <3>2 DEF AllocateOf, InstantiateOf, Mentions, Rec, Listed
    <3>4. r = s
        BY <1>8, <2>3, <3>3 DEF Alone
    <3> QED BY <1>1, <1>5, <2>3, <3>1, <3>2, <3>4
  <2> QED BY <2>1, <2>2, <2>3
<1>17. ASSUME NEW r \in Slot, NEW g \in Subjects', Alone(local', r, g)
       PROVE  HandleOK(local'[r], g, said'[g])
  <2>1. CASE g # h
    <3>1. g \in Subjects /\ g \in Handles
        BY <1>15, <2>1 DEF Subjects
    <3>2. HandleOK(local[r], g, said[g])
        BY <1>11, <1>17, <2>1, <3>1 DEF Rec
    <3>3. CASE r # s
        BY <1>5, <1>7, <2>1, <3>1, <3>2, <3>3
    <3>4. CASE r = s
      <4>1. Same(l, l2, g)
        BY <1>1, <2>1, <3>1
      <4>2. HandleOK(l2, g, said[g])
        BY <3>2, <3>4, <4>1, SameHandleOK
      <4> QED BY <1>5, <1>7, <2>1, <3>1, <3>4, <4>2
    <3> QED BY <3>3, <3>4
  <2>2. CASE g = h
    <3>1. r = s
        BY <1>13, <1>17, <2>2
    <3>2. HandleOK(l2, h, w2)
      <4>1. CASE allocates' = allocates
        <5>1. h \in Subjects /\ allocates' # allocates + 1
            BY <1>2, <2>2, <4>1 DEF Subjects
        <5>2. HandleOK(l, h, said[h])
            BY <1>1, <1>8, <5>1 DEF Rec
        <5> QED BY <1>1, <5>1, <5>2
      <4>2. CASE allocates' # allocates
        BY <4>2
      <4> QED BY <4>1, <4>2
    <3> QED BY <1>5, <1>7, <2>2, <3>1, <3>2
  <2> QED BY <2>1, <2>2
<1> QED BY <1>6, <1>9, <1>14, <1>16, <1>17 DEF Rec


LEMMA KnownIs ==
    ASSUME StorageInv, Rec(local), NEW t \in Thread, get[t].pc = "in", NEW h \in Known(t)
    PROVE  h \in Handles /\ IF h.transient THEN Mentions(Mine(t), h) ELSE h.id \in Task[t]
<1>1. Mine(t).entities \in Seq(Handles)
    BY MineIs, LocalFields
<1>2. CASE h \in {Old(id) : id \in Task[t]}
    BY <1>2, HandlesAre, BufferAssumption
<1>3. CASE h \in {g \in Range(Mine(t).entities) : g.transient}
  <2>1. PICK e \in DOMAIN Mine(t).entities : Mine(t).entities[e] = h
    BY <1>3 DEF Range
  <2> QED BY <1>1, <1>3, <2>1 DEF Mentions
<1> QED BY <1>2, <1>3 DEF Known

LEMMA BegunIs ==
    ASSUME StorageInv, Rec(local), NEW t \in Thread, get[t].pc = "in", Current(t) > 0
    PROVE  /\ Current(t) \in Nat /\ Current(t) \in DOMAIN Mine(t).entities
           /\ Begun(t) = Mine(t).entities[Current(t)] /\ Begun(t) \in Handles
           /\ Mentions(Mine(t), Begun(t))
           /\ Begun(t).transient \/ Begun(t).id \in Task[t]
           /\ said[Begun(t)] \in Wish
<1>1. /\ Mine(t).entities \in Seq(Handles) /\ get[t].slot \in Slot
      /\ ids[get[t].slot] = t /\ Mine(t) = local[get[t].slot]
    BY MineIs, LocalFields
<1>2. /\ Current(t) \in Nat /\ Current(t) \in DOMAIN Mine(t).entities
      /\ Begun(t) = Mine(t).entities[Current(t)] /\ Begun(t) \in Handles
    BY <1>1 DEF Current, Begun
<1>3. Mentions(Mine(t), Begun(t))
    BY <1>2 DEF Mentions
<1>4. Begun(t).transient \/ Begun(t).id \in Task[t]
    BY <1>1, <1>2, <1>3 DEF Rec
<1> QED BY <1>2, <1>3, <1>4 DEF Rec

\* The handle of the next entity is not mentioned yet.
LEMMA NewIs ==
    ASSUME StorageInv, Rec(local), NEW t \in Thread, get[t].pc = "in", allocates < MaxNew
    PROVE  /\ New(allocates) \in Handles /\ ~ Mentions(Mine(t), New(allocates))
           /\ allocates \in Nat
<1>1. get[t].slot \in Slot /\ Mine(t) = local[get[t].slot]
    BY MineIs
<1>2. allocates \in Nat /\ allocates \in 0 .. MaxNew - 1
    BY BufferAssumption DEF Rec
<1>3. New(allocates) \in Handles /\ New(allocates).transient /\ New(allocates).id = allocates
    BY <1>2, HandlesAre
<1> QED BY <1>1, <1>2, <1>3 DEF Rec

LEMMA BeginKeeps ==
    ASSUME StorageInv, Rec(local), NEW t \in Thread, get[t].pc = "in",
           NEW h \in Known(t), Begin(t, h)
    PROVE  Rec(local)'
<1> DEFINE l == Mine(t)
           l2 == [l EXCEPT !.entities = Append(@, h)]
<1>1. /\ local' = [local EXCEPT ![get[t].slot] = l2] /\ said' = [said EXCEPT ![h] = said[h]]
      /\ UNCHANGED storageVars /\ allocates' = allocates
    BY DEF Begin, Record
<1>2. /\ l \in Local /\ Listed(l) /\ CreatedOnce(l)
    BY MineIs
<1>3. h \in Handles /\ IF h.transient THEN Mentions(l, h) ELSE h.id \in Task[t]
    BY KnownIs
<1> HIDE DEF l
<1>4. /\ l2 \in Local /\ Listed(l2) /\ CreatedOnce(l2)
      /\ \A g \in Handles : Same(l, l2, g) /\ (Mentions(l2, g) <=> Mentions(l, g) \/ g = h)
    BY <1>2, <1>3, EntityAppended
<1>5. said[h] \in Wish
    BY <1>3 DEF Rec
<1>6. HandleOK(l, h, said[h]) => HandleOK(l2, h, said[h])
    BY <1>3, <1>4, SameHandleOK
<1>7. (\E j \in Nat : AllocateOf(l, h, j) \/ InstantiateOf(l, h, j))
          => (\E j \in Nat : AllocateOf(l2, h, j) \/ InstantiateOf(l2, h, j))
    BY <1>3, <1>4 DEF Same, SameAllocates, SameInstantiates
<1> HIDE DEF l2
<1> QED BY <1>1, <1>3, <1>4, <1>5, <1>6, <1>7, RecordKeeps DEF l

LEMMA AllocateKeeps ==
    ASSUME StorageInv, Rec(local), NEW t \in Thread, get[t].pc = "in",
           NEW types \in Given, Allocate(t, types)
    PROVE  Rec(local)'
<1> DEFINE l == Mine(t)
           h == New(allocates)
           e == Current(t) + 1
           c == [e |-> e, types |-> types, where |-> "storage"]
           l1 == [l EXCEPT !.entities = Append(@, h)]
           l2 == [l EXCEPT !.entities = Append(@, h), !.allocates = Append(@, c)]
           w2 == [Untouched EXCEPT !.types = types]
<1>1. /\ local' = [local EXCEPT ![get[t].slot] = l2] /\ UNCHANGED storageVars
      /\ said' = [said EXCEPT ![h] = w2]
      /\ allocates < MaxNew /\ allocates' = allocates + 1
    BY DEF Allocate, Record
<1>2. types \in SUBSET Type
    BY BufferAssumption
<1>3. l \in Local /\ Listed(l) /\ CreatedOnce(l)
    BY MineIs
<1>4. h \in Handles /\ ~ Mentions(l, h) /\ h.transient
    BY <1>1, NewIs, HandlesAre
<1>5. Len(l.entities) = Current(t)
    BY DEF Current
<1> HIDE DEF l, h
<1>6. /\ l1 \in Local /\ Listed(l1) /\ CreatedOnce(l1)
      /\ \A g \in Handles : Same(l, l1, g) /\ (Mentions(l1, g) <=> Mentions(l, g) \/ g = h)
      /\ l1.entities[e] = h /\ Len(l1.entities) = e /\ e \in Nat \ {0}
    BY <1>3, <1>4, <1>5, EntityAppended
<1>7. e \in DOMAIN l1.entities /\ c \in AllocateCommand /\ c.e = e
    BY <1>2, <1>6, LocalFields DEF AllocateCommand, Place
<1>8. l2 = [l1 EXCEPT !.allocates = Append(@, c)]
    BY <1>3 DEF Local
<1>9. \A j \in Nat : /\ ~ AllocateOf(l, h, j) /\ ~ InstantiateOf(l, h, j)
                     /\ ~ CastOf(l, h, j) /\ ~ SetOf(l, h, j)
                     /\ ~ PatchOf(l, h, j) /\ ~ DestroyOf(l, h, j)
    BY <1>3, <1>4, UnmentionedHasNone
<1>10. Same(l, l1, h)
    BY <1>4, <1>6
<1>11. \A j \in Nat : ~ AllocateOf(l1, h, j) /\ ~ InstantiateOf(l1, h, j)
    BY <1>9, <1>10 DEF Same, SameAllocates, SameInstantiates
<1> HIDE DEF l1, l2, c, e
<1>12. /\ l2 \in Local /\ Listed(l2) /\ CreatedOnce(l2)
       /\ \A g \in Handles : Mentions(l2, g) <=> Mentions(l1, g)
       /\ \A g \in Handles \ {h} : Same(l1, l2, g)
       /\ \A j \in Nat : AllocateOf(l2, h, j) <=> j = Len(l1.allocates) + 1
       /\ l2.allocates[Len(l1.allocates) + 1] = c
       /\ Len(l1.allocates) + 1 \in Nat
       /\ SameInstantiates(l1, l2, h) /\ SameCasts(l1, l2, h)
       /\ SameSets(l1, l2, h) /\ SamePatches(l1, l2, h) /\ SameDestroies(l1, l2, h)
  <2>1. l1 \in Local /\ Listed(l1) /\ CreatedOnce(l1) /\ h = l1.entities[e]
    BY <1>6
  <2> QED BY <1>4, <1>7, <1>8, <1>11, <2>1, AllocateAppended, SMTT(60)
<1>13. \A g \in Handles \ {h} : Same(l, l2, g)
    BY <1>6, <1>12, SameTransitive
<1>14. \A j \in Nat : /\ ~ InstantiateOf(l2, h, j)
                      /\ ~ CastOf(l2, h, j) /\ ~ SetOf(l2, h, j)
                      /\ ~ PatchOf(l2, h, j) /\ ~ DestroyOf(l2, h, j)
    BY <1>9, <1>10, <1>12 DEF Same, SameInstantiates, SameCasts, SameSets, SamePatches,
          SameDestroies
<1>15. \A b \in SUBSET Type, r \in Refs : Origin(l2, h, b, r) => b = types /\ r = Null
    BY <1>4, <1>12, <1>14 DEF Origin, c
<1>16. HandleOK(l2, h, w2)
  <2>1. /\ w2.types = types /\ w2.ref = Null /\ w2.taken = {}
        /\ ~ w2.set /\ ~ w2.patched /\ ~ w2.undone /\ ~ w2.kept /\ ~ w2.destroyed
    BY DEF Untouched
  <2> QED BY <1>2, <1>14, <1>15, <2>1, HandleOKAtFirst DEF Refs
<1>17. w2 \in Wish
    BY <1>2 DEF Wish, Untouched
<1>18. \A g \in Handles : Mentions(l2, g) <=> Mentions(l, g) \/ g = h
    BY <1>6, <1>12
<1>19. \E j \in Nat : AllocateOf(l2, h, j) \/ InstantiateOf(l2, h, j)
    BY <1>12
<1> HIDE DEF w2
<1> QED BY <1>1, <1>4, <1>12, <1>13, <1>16, <1>17, <1>18, <1>19, RecordKeeps DEF l, h

LEMMA InstantiateKeeps ==
    ASSUME StorageInv, Rec(local), NEW t \in Thread, get[t].pc = "in",
           NEW source \in Task[t], Instantiate(t, source)
    PROVE  Rec(local)'
<1> DEFINE l == Mine(t)
           h == New(allocates)
           e == Current(t) + 1
           c == [e |-> e, source |-> source]
           l1 == [l EXCEPT !.entities = Append(@, h)]
           l2 == [l EXCEPT !.entities = Append(@, h), !.instantiates = Append(@, c)]
           w2 == [Untouched EXCEPT !.types = FirstType[source], !.ref = FirstRef[source]]
<1>1. /\ local' = [local EXCEPT ![get[t].slot] = l2] /\ UNCHANGED storageVars
      /\ said' = [said EXCEPT ![h] = w2]
      /\ allocates < MaxNew /\ allocates' = allocates + 1
    BY DEF Instantiate, Record
<1>2. source \in Ids /\ FirstType[source] \in SUBSET Type /\ FirstRef[source] \in Refs
    BY BufferAssumption, HandlesAre DEF Refs
<1>3. l \in Local /\ Listed(l) /\ CreatedOnce(l)
    BY MineIs
<1>4. h \in Handles /\ ~ Mentions(l, h) /\ h.transient
    BY <1>1, NewIs, HandlesAre
<1>5. Len(l.entities) = Current(t)
    BY DEF Current
<1> HIDE DEF l, h
<1>6. /\ l1 \in Local /\ Listed(l1) /\ CreatedOnce(l1)
      /\ \A g \in Handles : Same(l, l1, g) /\ (Mentions(l1, g) <=> Mentions(l, g) \/ g = h)
      /\ l1.entities[e] = h /\ Len(l1.entities) = e /\ e \in Nat \ {0}
    BY <1>3, <1>4, <1>5, EntityAppended
<1>7. e \in DOMAIN l1.entities /\ c \in InstantiateCommand /\ c.e = e
    BY <1>2, <1>6, LocalFields DEF InstantiateCommand
<1>8. l2 = [l1 EXCEPT !.instantiates = Append(@, c)]
    BY <1>3 DEF Local
<1>9. \A j \in Nat : /\ ~ AllocateOf(l, h, j) /\ ~ InstantiateOf(l, h, j)
                     /\ ~ CastOf(l, h, j) /\ ~ SetOf(l, h, j)
                     /\ ~ PatchOf(l, h, j) /\ ~ DestroyOf(l, h, j)
    BY <1>3, <1>4, UnmentionedHasNone
<1>10. Same(l, l1, h)
    BY <1>4, <1>6
<1>11. \A j \in Nat : ~ AllocateOf(l1, h, j) /\ ~ InstantiateOf(l1, h, j)
    BY <1>9, <1>10 DEF Same, SameAllocates, SameInstantiates
<1> HIDE DEF l1, l2, c, e
<1>12. /\ l2 \in Local /\ Listed(l2) /\ CreatedOnce(l2)
       /\ \A g \in Handles : Mentions(l2, g) <=> Mentions(l1, g)
       /\ \A g \in Handles \ {h} : Same(l1, l2, g)
       /\ \A j \in Nat : InstantiateOf(l2, h, j) <=> j = Len(l1.instantiates) + 1
       /\ l2.instantiates[Len(l1.instantiates) + 1] = c
       /\ Len(l1.instantiates) + 1 \in Nat
       /\ SameAllocates(l1, l2, h) /\ SameCasts(l1, l2, h)
       /\ SameSets(l1, l2, h) /\ SamePatches(l1, l2, h) /\ SameDestroies(l1, l2, h)
  <2>1. l1 \in Local /\ Listed(l1) /\ CreatedOnce(l1) /\ h = l1.entities[e]
    BY <1>6
  <2>2. h.transient /\ c \in InstantiateCommand /\ c.e = e /\ e \in DOMAIN l1.entities
    BY <1>4, <1>7
  <2>3. /\ l2 \in Local /\ Listed(l2) /\ CreatedOnce(l2)
    BY <1>8, <1>11, <2>1, <2>2, InstantiateAppended
  <2>4. \A g \in Handles : Mentions(l2, g) <=> Mentions(l1, g)
    BY <1>8, <1>11, <2>1, <2>2, InstantiateAppended
  <2>5. \A g \in Handles \ {h} : Same(l1, l2, g)
    BY <1>8, <1>11, <2>1, <2>2, InstantiateAppended
  <2>6. /\ \A j \in Nat : InstantiateOf(l2, h, j) <=> j = Len(l1.instantiates) + 1
        /\ l2.instantiates[Len(l1.instantiates) + 1] = c
        /\ Len(l1.instantiates) + 1 \in Nat
    BY <1>8, <1>11, <2>1, <2>2, InstantiateAppended
  <2>7. /\ SameAllocates(l1, l2, h) /\ SameCasts(l1, l2, h)
        /\ SameSets(l1, l2, h) /\ SamePatches(l1, l2, h) /\ SameDestroies(l1, l2, h)
    BY <1>8, <1>11, <2>1, <2>2, InstantiateAppended
  <2> QED BY <2>3, <2>4, <2>5, <2>6, <2>7
<1>13. \A g \in Handles \ {h} : Same(l, l2, g)
    BY <1>6, <1>12, SameTransitive
<1>14. \A j \in Nat : /\ ~ AllocateOf(l2, h, j)
                      /\ ~ CastOf(l2, h, j) /\ ~ SetOf(l2, h, j)
                      /\ ~ PatchOf(l2, h, j) /\ ~ DestroyOf(l2, h, j)
    BY <1>9, <1>10, <1>12 DEF Same, SameAllocates, SameCasts, SameSets, SamePatches,
          SameDestroies
<1>15. \A b \in SUBSET Type, r \in Refs :
           Origin(l2, h, b, r) => b = FirstType[source] /\ r = FirstRef[source]
    BY <1>4, <1>12, <1>14 DEF Origin, c
<1>16. HandleOK(l2, h, w2)
  <2>1. /\ w2.types = FirstType[source] /\ w2.ref = FirstRef[source] /\ w2.taken = {}
        /\ ~ w2.set /\ ~ w2.patched /\ ~ w2.undone /\ ~ w2.kept /\ ~ w2.destroyed
    BY DEF Untouched
  <2> QED BY <1>2, <1>14, <1>15, <2>1, HandleOKAtFirst
<1>17. w2 \in Wish
    BY <1>2 DEF Wish, Untouched, Refs
<1>18. \A g \in Handles : Mentions(l2, g) <=> Mentions(l, g) \/ g = h
    BY <1>6, <1>12
<1>19. \E j \in Nat : AllocateOf(l2, h, j) \/ InstantiateOf(l2, h, j)
    BY <1>12
<1> HIDE DEF w2
<1> QED BY <1>1, <1>4, <1>12, <1>13, <1>16, <1>17, <1>18, <1>19, RecordKeeps DEF l, h


LEMMA DestroyKeeps ==
    ASSUME StorageInv, Rec(local), NEW t \in Thread, get[t].pc = "in",
           NEW h \in Known(t), Destroy(t, h)
    PROVE  Rec(local)'
<1> DEFINE l == Mine(t)
           l2 == [l EXCEPT !.destroies = Append(@, h)]
           w2 == [said[h] EXCEPT !.destroyed = TRUE]
<1>1. /\ local' = [local EXCEPT ![get[t].slot] = l2] /\ said' = [said EXCEPT ![h] = w2]
      /\ UNCHANGED storageVars /\ allocates' = allocates
    BY DEF Destroy, Record
<1>2. /\ l \in Local /\ Listed(l) /\ CreatedOnce(l)
    BY MineIs
<1>3. h \in Handles /\ IF h.transient THEN Mentions(l, h) ELSE h.id \in Task[t]
    BY KnownIs
<1>4. said[h] \in Wish
    BY <1>3 DEF Rec
<1> DEFINE w == said[h]
<1> HIDE DEF l
<1>5. l2 = [l EXCEPT !.destroies = Append(@, h)] /\ w2 = [w EXCEPT !.destroyed = TRUE]
    OBVIOUS
<1> HIDE DEF l2, w, w2
<1>6. /\ l2 \in Local /\ Listed(l2) /\ CreatedOnce(l2)
      /\ \A g \in Handles : Mentions(l2, g) <=> Mentions(l, g) \/ g = h
      /\ \A g \in Handles \ {h} : Same(l, l2, g)
      /\ \A j \in Nat : DestroyOf(l2, h, j) <=> DestroyOf(l, h, j) \/ j = Len(l.destroies) + 1
      /\ Len(l.destroies) + 1 \in Nat
      /\ SameAllocates(l, l2, h) /\ SameInstantiates(l, l2, h) /\ SameCasts(l, l2, h)
      /\ SameSets(l, l2, h) /\ SamePatches(l, l2, h)
    BY <1>2, <1>3, <1>5, DestroyAppended
<1>7. w2 \in Wish
    BY <1>4, <1>5 DEF w, Wish
<1>8. HandleOK(l, h, w) => HandleOK(l2, h, w2)
    BY <1>4, <1>5, <1>6, DestroyWished DEF w
<1>9. (\E j \in Nat : AllocateOf(l, h, j) \/ InstantiateOf(l, h, j))
          => (\E j \in Nat : AllocateOf(l2, h, j) \/ InstantiateOf(l2, h, j))
    BY <1>6 DEF SameAllocates, SameInstantiates
<1>10. local' = [local EXCEPT ![get[t].slot] = l2] /\ said' = [said EXCEPT ![h] = w2]
    BY <1>1 DEF l2, w2, w
<1> QED BY <1>1, <1>3, <1>6, <1>7, <1>8, <1>9, <1>10, RecordKeeps DEF l, w

\* A command on the entity begun last, as far as the others are concerned.
LEMMA CommandKeeps ==
    ASSUME StorageInv, Rec(local), NEW t \in Thread, get[t].pc = "in", Current(t) > 0,
           NEW h, h = Begun(t), NEW l, l = Mine(t),
           NEW l2 \in Local, NEW w2 \in Wish, Record(t, l2, h, w2), UNCHANGED allocates,
           Listed(l2), CreatedOnce(l2),
           \A g \in Handles : Mentions(l2, g) <=> Mentions(l, g),
           \A g \in Handles \ {h} : Same(l, l2, g),
           HandleOK(l, h, said[h]) => HandleOK(l2, h, w2),
           \A j \in Nat : AllocateOf(l2, h, j) <=> AllocateOf(l, h, j),
           \A j \in Nat : InstantiateOf(l2, h, j) <=> InstantiateOf(l, h, j)
    PROVE  Rec(local)'
<1>1. /\ local' = [local EXCEPT ![get[t].slot] = l2] /\ said' = [said EXCEPT ![h] = w2]
      /\ UNCHANGED storageVars /\ allocates' = allocates
    BY DEF Record
<1>2. /\ h \in Handles /\ Mentions(l, h) /\ (h.transient \/ h.id \in Task[t])
    BY BegunIs
<1>3. \A g \in Handles : Mentions(l2, g) <=> Mentions(l, g) \/ g = h
    BY <1>2
<1>4. (\E j \in Nat : AllocateOf(l, h, j) \/ InstantiateOf(l, h, j))
          => (\E j \in Nat : AllocateOf(l2, h, j) \/ InstantiateOf(l2, h, j))
    OBVIOUS
<1> QED BY <1>1, <1>2, <1>3, <1>4, RecordKeeps, ZenonT(40)

LEMMA SetComponentKeeps ==
    ASSUME StorageInv, Rec(local), NEW t \in Thread, get[t].pc = "in",
           NEW v \in Known(t), SetComponent(t, v)
    PROVE  Rec(local)'
<1> DEFINE l == Mine(t)
           h == Begun(t)
           e == Current(t)
           w == said[h]
           c == [e |-> e, value |-> v]
           l2 == [l EXCEPT !.sets = Append(@, c)]
           w2 == [w EXCEPT !.ref = v, !.set = TRUE]
<1>1. Record(t, l2, h, w2) /\ UNCHANGED allocates /\ e > 0
    BY DEF SetComponent
<1>2. l \in Local /\ Listed(l) /\ CreatedOnce(l)
    BY MineIs
<1>3. h \in Handles /\ h = l.entities[e] /\ e \in DOMAIN l.entities /\ e \in Nat /\ w \in Wish
    BY <1>1, BegunIs
<1>4. v \in Handles
    BY KnownIs
<1>5. c \in SetCommand /\ c.e = e /\ c.value = v
    BY <1>3, <1>4 DEF SetCommand
<1> HIDE DEF l, h, e, w, c
<1>6. l2 = [l EXCEPT !.sets = Append(@, c)] /\ w2 = [w EXCEPT !.ref = v, !.set = TRUE]
    OBVIOUS
<1> HIDE DEF l2, w2
<1>7. /\ l2 \in Local /\ Listed(l2) /\ CreatedOnce(l2)
      /\ \A g \in Handles : Mentions(l2, g) <=> Mentions(l, g)
      /\ \A g \in Handles \ {h} : Same(l, l2, g)
    BY <1>2, <1>3, <1>5, <1>6, SetAppended
<1>8. /\ \A j \in Nat : SetOf(l2, h, j) <=> SetOf(l, h, j) \/ j = Len(l.sets) + 1
      /\ \A j \in Nat : SetOf(l, h, j) => j <= Len(l.sets)
      /\ l2.sets[Len(l.sets) + 1] = c /\ Len(l.sets) + 1 \in Nat
    BY <1>2, <1>3, <1>5, <1>6, SetAppended
<1>9. /\ SameAllocates(l, l2, h) /\ SameInstantiates(l, l2, h) /\ SameCasts(l, l2, h)
      /\ SamePatches(l, l2, h) /\ SameDestroies(l, l2, h)
    BY <1>2, <1>3, <1>5, <1>6, SetAppended
<1>10. \A j \in Nat : SetOf(l, h, j) => j < Len(l.sets) + 1
    BY <1>2, <1>8, LocalFields
<1>11. w2 \in Wish
    BY <1>3, <1>4, <1>6 DEF Wish
<1>12. HandleOK(l, h, w) => HandleOK(l2, h, w2)
    BY <1>3, <1>4, <1>5, <1>6, <1>8, <1>9, <1>10, SetWished
<1>13. \A j \in Nat : /\ AllocateOf(l2, h, j) <=> AllocateOf(l, h, j)
                      /\ InstantiateOf(l2, h, j) <=> InstantiateOf(l, h, j)
    BY <1>9 DEF SameAllocates, SameInstantiates
<1> QED BY <1>1, <1>7, <1>11, <1>12, <1>13, CommandKeeps DEF l, h, e, w

LEMMA PatchComponentKeeps ==
    ASSUME StorageInv, Rec(local), NEW t \in Thread, get[t].pc = "in", PatchComponent(t)
    PROVE  Rec(local)'
<1> DEFINE l == Mine(t)
           h == Begun(t)
           e == Current(t)
           w == said[h]
           l2 == [l EXCEPT !.patches = Append(@, e)]
           w2 == [w EXCEPT !.patched = TRUE]
<1>1. Record(t, l2, h, w2) /\ UNCHANGED allocates /\ e > 0
    BY DEF PatchComponent
<1>2. l \in Local /\ Listed(l) /\ CreatedOnce(l)
    BY MineIs
<1>3. h \in Handles /\ h = l.entities[e] /\ e \in DOMAIN l.entities /\ e \in Nat /\ w \in Wish
    BY <1>1, BegunIs
<1> HIDE DEF l, h, e, w
<1>6. l2 = [l EXCEPT !.patches = Append(@, e)] /\ w2 = [w EXCEPT !.patched = TRUE]
    OBVIOUS
<1> HIDE DEF l2, w2
<1>7. /\ l2 \in Local /\ Listed(l2) /\ CreatedOnce(l2)
      /\ \A g \in Handles : Mentions(l2, g) <=> Mentions(l, g)
      /\ \A g \in Handles \ {h} : Same(l, l2, g)
    BY <1>2, <1>3, <1>6, PatchAppended
<1>8. \A j \in Nat : PatchOf(l2, h, j) <=> PatchOf(l, h, j) \/ j = Len(l.patches) + 1
    BY <1>2, <1>3, <1>6, PatchAppended
<1>10. Len(l.patches) + 1 \in Nat
    BY <1>2, LocalFields
<1>9. /\ SameAllocates(l, l2, h) /\ SameInstantiates(l, l2, h) /\ SameCasts(l, l2, h)
      /\ SameSets(l, l2, h) /\ SameDestroies(l, l2, h)
    BY <1>2, <1>3, <1>6, PatchAppended
<1>11. w2 \in Wish
    BY <1>3, <1>6 DEF Wish
<1>12. HandleOK(l, h, w) => HandleOK(l2, h, w2)
    BY <1>3, <1>6, <1>8, <1>9, <1>10, PatchWished
<1>13. \A j \in Nat : /\ AllocateOf(l2, h, j) <=> AllocateOf(l, h, j)
                      /\ InstantiateOf(l2, h, j) <=> InstantiateOf(l, h, j)
    BY <1>9 DEF SameAllocates, SameInstantiates
<1> QED BY <1>1, <1>7, <1>11, <1>12, <1>13, CommandKeeps DEF l, h, e, w

LEMMA AskedIsAskedOf ==
    ASSUME NEW t, NEW d, NEW w, w = said[Begun(t)], NEW kept \in BOOLEAN,
           kept <=> /\ ~ LastOf(Mine(t).casts, Current(t))
                    /\ LastOf(Mine(t).allocates, Current(t))
                    /\ d.shrink # {}
    PROVE  Asked(t, d) = AskedOf(w, d, kept)
<1> DEFINE P == /\ ~ LastOf(Mine(t).casts, Current(t))
                /\ LastOf(Mine(t).allocates, Current(t))
                /\ d.shrink # {}
<1>1. kept = P
    OBVIOUS
<1> QED BY <1>1 DEF Asked, AskedOf


LEMMA CastKeeps ==
    ASSUME StorageInv, Rec(local), NEW t \in Thread, get[t].pc = "in",
           NEW d \in Diff, Cast(t, d)
    PROVE  Rec(local)'
<1> DEFINE l == Mine(t)
           h == Begun(t)
           e == Current(t)
           w == said[h]
           w2 == Asked(t, d)
           new == [e |-> e, extend |-> d.extend, shrink |-> d.shrink, where |-> "storage"]
           appended == [l EXCEPT !.casts = Append(@, new)]
           l2 == IF LastOf(l.casts, e) THEN CastMerged(l, d)
                 ELSE IF LastOf(l.allocates, e) THEN AllocateMerged(l, d) ELSE appended
<1>1. Record(t, l2, h, w2) /\ UNCHANGED allocates /\ e > 0
    BY DEF Cast
<1>2. l \in Local /\ Listed(l) /\ CreatedOnce(l)
    BY MineIs
<1>3. h \in Handles /\ h = l.entities[e] /\ e \in DOMAIN l.entities /\ e \in Nat /\ w \in Wish
    BY <1>1, BegunIs
<1>4. d \in Differences
    BY BufferAssumption DEF Differences
<1>5. PICK kept \in BOOLEAN :
          kept <=> ~ LastOf(l.casts, e) /\ LastOf(l.allocates, e) /\ d.shrink # {}
    OBVIOUS
<1>6. w2 = AskedOf(w, d, kept)
    BY <1>5, AskedIsAskedOf
<1>7. w2 \in Wish
    BY <1>3, <1>4, <1>6, AskedIs
<1>8. new \in CastCommand /\ new.e = e /\ new.extend = d.extend /\ new.shrink = d.shrink
    BY <1>3, <1>4 DEF CastCommand, Place, Differences
<1>9. appended = [l EXCEPT !.casts = Append(@, new)]
    OBVIOUS
<1> HIDE DEF l, h, e, w, w2, new, appended
<1>10. ASSUME LastOf(l.casts, e) PROVE Rec(local)'
  <2> DEFINE n == Len(l.casts)
             m == CastMerged(l, d)
  <2>1. l.casts # <<>> /\ h = l.entities[l.casts[n].e] /\ l2 = m /\ ~ kept
    BY <1>3, <1>5, <1>10 DEF LastOf
  <2>2. n = Len(l.casts) /\ m = CastMerged(l, d)
    OBVIOUS
  <2> HIDE DEF n, m
  <2>3. /\ m \in Local /\ Listed(m) /\ CreatedOnce(m)
        /\ \A g \in Handles : Mentions(m, g) <=> Mentions(l, g)
    BY <1>2, <1>4, <2>1, <2>2, CastMergedIs
  <2>4. \A g \in Handles \ {h} : Same(l, m, g)
    BY <1>2, <1>4, <2>1, <2>2, CastMergedIs
  <2>5. /\ n \in Nat /\ CastOf(l, h, n)
        /\ m.casts[n].extend = l.casts[n].extend \cup d.extend
        /\ m.casts[n].shrink = l.casts[n].shrink \cup d.shrink
    BY <1>2, <1>4, <2>1, <2>2, CastMergedIs
  <2>6. \A j \in Nat : /\ CastOf(m, h, j) <=> CastOf(l, h, j)
                       /\ CastOf(l, h, j) => j <= n
                       /\ CastOf(l, h, j) /\ j # n =>
                             /\ m.casts[j].extend = l.casts[j].extend
                             /\ m.casts[j].shrink = l.casts[j].shrink
    BY <1>2, <1>4, <2>1, <2>2, CastMergedIs
  <2>7. /\ SameAllocates(l, m, h) /\ SameInstantiates(l, m, h)
        /\ SameSets(l, m, h) /\ SamePatches(l, m, h) /\ SameDestroies(l, m, h)
    BY <1>2, <1>4, <2>1, <2>2, CastMergedIs
  <2>8. HandleOK(l, h, w) => HandleOK(m, h, w2)
    <3>1. ~ kept /\ kept \in BOOLEAN /\ w \in Wish /\ d \in Differences
        BY <1>3, <1>4, <2>1
    <3> QED BY ONLY <1>6, <2>5, <2>6, <2>7, <3>1, MergedCastWished, ZenonT(60)
  <2>9. \A j \in Nat : /\ AllocateOf(m, h, j) <=> AllocateOf(l, h, j)
                       /\ InstantiateOf(m, h, j) <=> InstantiateOf(l, h, j)
    BY <2>7 DEF SameAllocates, SameInstantiates
  <2>10. Record(t, m, h, w2)
    BY <1>1, <2>1
  <2> QED BY <1>1, <1>7, <2>3, <2>4, <2>8, <2>9, <2>10, CommandKeeps DEF l, h, e, w
<1>11. ASSUME ~ LastOf(l.casts, e), LastOf(l.allocates, e) PROVE Rec(local)'
  <2> DEFINE n == Len(l.allocates)
             m == AllocateMerged(l, d)
  <2>1. /\ l.allocates # <<>> /\ h = l.entities[l.allocates[n].e] /\ l2 = m
        /\ d.shrink # {} => kept
    BY <1>3, <1>5, <1>11 DEF LastOf
  <2>2. n = Len(l.allocates) /\ m = AllocateMerged(l, d)
    OBVIOUS
  <2> HIDE DEF n, m
  <2>3. /\ m \in Local /\ Listed(m) /\ CreatedOnce(m)
        /\ \A g \in Handles : Mentions(m, g) <=> Mentions(l, g)
    BY <1>2, <1>4, <2>1, <2>2, AllocateMergedIs
  <2>4. \A g \in Handles \ {h} : Same(l, m, g)
    BY <1>2, <1>4, <2>1, <2>2, AllocateMergedIs
  <2>5. n \in Nat /\ m.allocates[n].types = l.allocates[n].types \cup d.extend
    BY <1>2, <1>4, <2>1, <2>2, AllocateMergedIs
  <2>6. \A j \in Nat : (AllocateOf(l, h, j) <=> j = n) /\ (AllocateOf(m, h, j) <=> j = n)
    BY <1>2, <1>4, <2>1, <2>2, AllocateMergedIs
  <2>7. /\ SameInstantiates(l, m, h) /\ SameCasts(l, m, h)
        /\ SameSets(l, m, h) /\ SamePatches(l, m, h) /\ SameDestroies(l, m, h)
    BY <1>2, <1>4, <2>1, <2>2, AllocateMergedIs
  <2>8. l.allocates[n].types \in SUBSET Type
    <3>1. n \in DOMAIN l.allocates
        BY <2>5, <2>6 DEF AllocateOf
    <3>2. l.allocates[n] \in AllocateCommand
        BY <1>2, <3>1, LocalFields
    <3> QED BY <3>2 DEF AllocateCommand
  <2>9. h.transient /\ \A j \in Nat : ~ InstantiateOf(l, h, j)
    BY <1>2, <1>3, <2>5, <2>6 DEF CreatedOnce
  <2>10. HandleOK(l, h, w) => HandleOK(m, h, w2)
    <3>1. (d.shrink # {} => kept) /\ kept \in BOOLEAN /\ w \in Wish /\ d \in Differences
        BY <1>3, <1>4, <2>1
    <3> QED BY ONLY <1>6, <2>5, <2>6, <2>7, <2>8, <2>9, <3>1, MergedAllocateWished, ZenonT(60)
  <2>11. \A j \in Nat : /\ AllocateOf(m, h, j) <=> AllocateOf(l, h, j)
                        /\ InstantiateOf(m, h, j) <=> InstantiateOf(l, h, j)
    BY <2>6, <2>7 DEF SameInstantiates
  <2>12. Record(t, m, h, w2)
    BY <1>1, <2>1
  <2> QED BY <1>1, <1>7, <2>3, <2>4, <2>10, <2>11, <2>12, CommandKeeps DEF l, h, e, w
<1>12. ASSUME ~ LastOf(l.casts, e), ~ LastOf(l.allocates, e) PROVE Rec(local)'
  <2> DEFINE m == appended
             n == Len(l.casts) + 1
  <2>1. l2 = m /\ ~ kept
    BY <1>5, <1>12
  <2>2. m = [l EXCEPT !.casts = Append(@, new)]
    BY <1>9
  <2> HIDE DEF m
  <2>3. /\ m \in Local /\ Listed(m) /\ CreatedOnce(m)
        /\ \A g \in Handles : Mentions(m, g) <=> Mentions(l, g)
    BY <1>2, <1>3, <1>8, <2>2, CastAppended
  <2>4. \A g \in Handles \ {h} : Same(l, m, g)
    BY <1>2, <1>3, <1>8, <2>2, CastAppended
  <2>5. \A j \in Nat : CastOf(m, h, j) <=> CastOf(l, h, j) \/ j = n
    BY <1>2, <1>3, <1>8, <2>2, CastAppended
  <2>6. \A j \in Nat : CastOf(l, h, j) => m.casts[j] = l.casts[j]
    <3>1. m.casts = Append(l.casts, new)
        BY <1>2, <2>2 DEF Local
    <3> QED BY <1>2, <1>8, <3>1, LocalFields, Appended DEF CastOf
  <2>7. m.casts[n] = new /\ n \in Nat
    BY <1>2, <1>3, <1>8, <2>2, CastAppended
  <2>8. /\ SameAllocates(l, m, h) /\ SameInstantiates(l, m, h)
        /\ SameSets(l, m, h) /\ SamePatches(l, m, h) /\ SameDestroies(l, m, h)
    BY <1>2, <1>3, <1>8, <2>2, CastAppended
  <2>9. \A j \in Nat : CastOf(l, h, j) => m.casts[j] = l.casts[j] /\ j < n
    BY <1>2, <2>6, LocalFields DEF CastOf
  <2> HIDE DEF n
  <2>10. HandleOK(l, h, w) => HandleOK(m, h, w2)
    BY <1>3, <1>4, <1>6, <1>8, <2>1, <2>5, <2>7, <2>8, <2>9, CastWished
  <2>11. \A j \in Nat : /\ AllocateOf(m, h, j) <=> AllocateOf(l, h, j)
                        /\ InstantiateOf(m, h, j) <=> InstantiateOf(l, h, j)
    BY <2>8 DEF SameAllocates, SameInstantiates
  <2>12. Record(t, m, h, w2)
    BY <1>1, <2>1
  <2> QED BY <1>1, <1>7, <2>3, <2>4, <2>10, <2>11, <2>12, CommandKeeps DEF l, h, e, w
<1> QED BY <1>10, <1>11, <1>12

\* The storage gives a slot, in which nothing is recorded yet.
LEMMA StorageKeeps ==
    ASSUME StorageInv, Rec(local), NEW t \in Thread,
           GetBegin(t) \/ Get(t) \/ LetGo(t), UNCHANGED bufferVars
    PROVE  Rec(local)'
<1>1. UNCHANGED <<local, allocates, said>>
    BY DEF bufferVars
<1>2. slots \in Nat /\ DOMAIN ids = Slot
    BY DEF StorageInv
<1>3. slots' = slots \/ slots' = slots + 1
    BY DEF GetBegin, Get, GetScan, GetTake, GetStore, LetGo
<1>4. Taken \subseteq Taken'
    BY <1>2, <1>3 DEF Taken
<1>5. ASSUME NEW s \in Slot, ids[s] \in Thread PROVE ids'[s] = ids[s]
  <2>1. CASE GetStore(t)
    <3>1. ids[get[t].slot] \notin Thread /\ ids' = [ids EXCEPT ![get[t].slot] = t]
        BY <2>1 DEF GetStore, StorageInv
    <3> QED BY <1>2, <1>5, <3>1
  <2>2. CASE ids' = ids
    BY <2>2
  <2> QED BY <2>1, <2>2 DEF GetBegin, Get, GetScan, GetTake, LetGo
<1>6. Subjects' = Subjects
    BY <1>1 DEF Subjects
<1>7. ASSUME NEW s \in Slot, NEW h \in Handles, Mentions(local[s], h)
      PROVE  /\ s \in Taken' /\ ids'[s] \in Thread
             /\ IF h.transient THEN h.id < allocates ELSE h.id \in Task[ids'[s]]
             /\ Alone(local, s, h)
    BY <1>4, <1>5, <1>7 DEF Rec
<1>8. /\ \A h \in Subjects : h.transient =>
             \E s \in Slot : \E j \in Nat :
                 AllocateOf(local[s], h, j) \/ InstantiateOf(local[s], h, j)
      /\ \A s \in Slot, h \in Subjects : Alone(local, s, h) => HandleOK(local[s], h, said[h])
    BY DEF Rec
<1>9. /\ local \in [Slot -> Local] /\ allocates \in 0 .. MaxNew /\ said \in [Handles -> Wish]
      /\ \A s \in Slot : Listed(local[s]) /\ CreatedOnce(local[s])
    BY DEF Rec
<1>10. Rec(local)' <=>
          /\ local' \in [Slot -> Local]
          /\ allocates' \in 0 .. MaxNew
          /\ said' \in [Handles -> Wish]
          /\ \A s \in Slot : Listed(local'[s]) /\ CreatedOnce(local'[s])
          /\ \A s \in Slot, h \in Handles : Mentions(local'[s], h) =>
                /\ s \in Taken' /\ ids'[s] \in Thread
                /\ IF h.transient THEN h.id < allocates' ELSE h.id \in Task[ids'[s]]
                /\ Alone(local', s, h)
          /\ \A h \in Subjects' : h.transient =>
                \E s \in Slot : \E j \in Nat :
                    AllocateOf(local'[s], h, j) \/ InstantiateOf(local'[s], h, j)
          /\ \A s \in Slot, h \in Subjects' :
                Alone(local', s, h) => HandleOK(local'[s], h, said'[h])
    BY DEF Rec
<1> QED BY <1>1, <1>6, <1>7, <1>8, <1>9, <1>10

LEMMA RecordingKeeps ==
    ASSUME StorageInv, Rec(local), NEW t \in Thread, Recording(t)
    PROVE  Rec(local)'
<1>1. CASE GetBegin(t) /\ UNCHANGED bufferVars
    BY <1>1, StorageKeeps
<1>2. CASE Get(t) /\ UNCHANGED bufferVars
    BY <1>2, StorageKeeps
<1>3. CASE LetGo(t) /\ UNCHANGED bufferVars
    BY <1>3, StorageKeeps
<1>4. ASSUME get[t].pc = "in", NEW h \in Known(t), Begin(t, h) \/ Destroy(t, h)
      PROVE  Rec(local)'
    BY <1>4, BeginKeeps, DestroyKeeps
<1>5. ASSUME get[t].pc = "in", NEW types \in Given, Allocate(t, types) PROVE Rec(local)'
    BY <1>5, AllocateKeeps
<1>6. ASSUME get[t].pc = "in", NEW source \in Task[t], Instantiate(t, source) PROVE Rec(local)'
    BY <1>6, InstantiateKeeps
<1>7. ASSUME get[t].pc = "in", NEW d \in Diff, Cast(t, d) PROVE Rec(local)'
    BY <1>7, CastKeeps
<1>8. ASSUME get[t].pc = "in", NEW h \in Known(t), SetComponent(t, h) PROVE Rec(local)'
    BY <1>8, SetComponentKeeps
<1>9. CASE get[t].pc = "in" /\ PatchComponent(t)
    BY <1>9, PatchComponentKeeps
<1> QED BY <1>1, <1>2, <1>3, <1>4, <1>5, <1>6, <1>7, <1>8, <1>9 DEF Recording

-----------------------------------------------------------------------------
(* How far execute is.                                                     *)

Order(phase) ==
    CASE phase = "record" -> 0
      [] phase = "allocate" -> 1
      [] phase = "instantiate" -> 2
      [] phase = "resolve" -> 3
      [] phase = "cast" -> 4
      [] phase = "set" -> 5
      [] phase = "destroy" -> 6
      [] OTHER -> 7

\* The j-th turn of the q-th phase in the local s is done.
Past(q, s, j) ==
    \/ q < Order(exec.phase)
    \/ q = Order(exec.phase) /\ (s < exec.i \/ (s = exec.i /\ j < exec.k))

LEMMA OrderIs ==
    /\ DOMAIN Phases = 1 .. 6 /\ Len(Phases) = 6
    /\ \A q \in 1 .. 6 : Order(Phases[q]) = q
    /\ \A q \in 1 .. 6 : Phases[q] \notin {"record", "spinning", "crashed", "done"}
    /\ Order("done") = 7
    /\ Order("allocate") = 1 /\ Order("instantiate") = 2 /\ Order("resolve") = 3
    /\ Order("cast") = 4 /\ Order("set") = 5 /\ Order("destroy") = 6
    /\ Phases[1] = "allocate" /\ Phases[2] = "instantiate" /\ Phases[3] = "resolve"
    /\ Phases[4] = "cast" /\ Phases[5] = "set" /\ Phases[6] = "destroy"
<1>1. /\ Phases[1] = "allocate" /\ Phases[2] = "instantiate" /\ Phases[3] = "resolve"
      /\ Phases[4] = "cast" /\ Phases[5] = "set" /\ Phases[6] = "destroy"
      /\ Len(Phases) = 6 /\ DOMAIN Phases = 1 .. 6
    BY DEF Phases
<1>2. /\ Order("allocate") = 1 /\ Order("instantiate") = 2 /\ Order("resolve") = 3
      /\ Order("cast") = 4 /\ Order("set") = 5 /\ Order("destroy") = 6 /\ Order("done") = 7
    BY DEF Order
<1>3. ASSUME NEW q \in 1 .. 6
      PROVE  /\ Order(Phases[q]) = q
             /\ Phases[q] \notin {"record", "spinning", "crashed", "done"}
  <2>1. q = 1 \/ q = 2 \/ q = 3 \/ q = 4 \/ q = 5 \/ q = 6
    OBVIOUS
  <2> QED BY <1>1, <1>2, <2>1
<1> QED BY <1>1, <1>2, <1>3

\* How much there is to do is the same once the handles are resolved.
LEMMA WorkIs ==
    ASSUME NEW L \in Local, NEW es
    PROVE  /\ \A p : Work(p, L) \in Nat
           /\ \A p : Work(p, [L EXCEPT !.entities = es]) = Work(p, L)
           /\ Work("allocate", L) = Len(L.allocates)
           /\ Work("instantiate", L) = Len(L.instantiates)
           /\ Work("cast", L) = Len(L.casts)
           /\ Work("destroy", L) = Len(L.destroies)
           /\ Work("resolve", L) = 1 /\ Work("set", L) = 1
<1> DEFINE m == [L EXCEPT !.entities = es]
<1>1. /\ Len(L.allocates) \in Nat /\ Len(L.instantiates) \in Nat
      /\ Len(L.casts) \in Nat /\ Len(L.destroies) \in Nat
    BY LocalFields
<1>2. /\ m.allocates = L.allocates /\ m.instantiates = L.instantiates
      /\ m.casts = L.casts /\ m.destroies = L.destroies
    BY DEF Local
<1> HIDE DEF m
<1>3. ASSUME NEW p PROVE Work(p, L) \in Nat /\ Work(p, m) = Work(p, L)
    BY <1>1, <1>2 DEF Work
<1> QED BY <1>3 DEF Work, m

LEMMA LeastOf ==
    ASSUME NEW S, S \subseteq Nat, S # {}
    PROVE  \E x \in S : \A y \in S : x <= y
<1> DEFINE R == OpToRel(<, Nat)
<1>1. IsWellFoundedOn(R, Nat)
    BY NatLessThanWellFounded
<1>2. \A x, y \in Nat : y < x => <<y, x>> \in R
    BY DEF OpToRel
<1> HIDE DEF R
<1>3. PICK x \in S : \A y \in S : ~ (<<y, x>> \in R)
    BY <1>1, WFMin
<1>4. ASSUME NEW y \in S PROVE x <= y
  <2>1. x \in Nat /\ y \in Nat /\ ~ (y < x)
    BY <1>2, <1>3
  <2> QED BY <2>1
<1> QED BY <1>3, <1>4

LEMMA GreatestOf ==
    ASSUME NEW n \in Nat, NEW S, S \subseteq 1 .. n, S # {}
    PROVE  Max(S) \in S /\ \A j \in S : j <= Max(S)
<1> DEFINE D == {n - j : j \in S}
<1>1. D \subseteq Nat /\ D # {}
  <2>1. ASSUME NEW j \in S PROVE n - j \in Nat
    OBVIOUS
  <2> QED BY <2>1
<1>2. PICK d \in D : \A y \in D : d <= y
    BY <1>1, LeastOf
<1>3. PICK m \in S : d = n - m
    OBVIOUS
<1>4. \A j \in S : m >= j
  <2>1. ASSUME NEW j \in S PROVE m >= j
    <3>1. n - j \in D /\ j \in Int /\ m \in Int
        OBVIOUS
    <3>2. n - m <= n - j
        BY <1>2, <1>3, <3>1
    <3> QED BY <3>1, <3>2
  <2> QED BY <2>1
<1>5. Max(S) \in S /\ \A j \in S : Max(S) >= j
    BY <1>4 DEF Max
<1> QED BY <1>5

\* One visit comes before the others.
LEMMA FirstVisit ==
    ASSUME NEW V, V \subseteq (1 .. 6) \X Nat, V # {},
           NEW v, v = CHOOSE x \in V : \A w \in V \ {x} : Before(x, w)
    PROVE  v \in V /\ \A w \in V \ {v} : Before(v, w)
<1> DEFINE P == {x[1] : x \in V}
<1>1. PICK p \in P : \A q \in P : p <= q
  <2>1. P \subseteq Nat /\ P # {}
    OBVIOUS
  <2> QED BY <2>1, LeastOf
<1> DEFINE I == {x[2] : x \in {y \in V : y[1] = p}}
<1>2. PICK i \in I : \A j \in I : i <= j
  <2>1. I \subseteq Nat /\ I # {}
    OBVIOUS
  <2> QED BY <2>1, LeastOf
<1>3. PICK x \in V : x[1] = p /\ x[2] = i
    OBVIOUS
<1>4. ASSUME NEW w \in V \ {x} PROVE Before(x, w)
  <2>1. w = <<w[1], w[2]>> /\ x = <<x[1], x[2]>> /\ w[1] \in Nat /\ w[2] \in Nat
        /\ x[1] \in Nat /\ x[2] \in Nat
    OBVIOUS
  <2>2. p <= w[1]
    BY <1>1
  <2>3. w[1] = p => i <= w[2]
    BY <1>2
  <2> QED BY <1>3, <2>1, <2>2, <2>3 DEF Before
<1> QED BY <1>4

-----------------------------------------------------------------------------
(* The columns.                                                            *)

\* Each entity is in one place of one column.
ColumnsOK(col) ==
    /\ col \in [SUBSET Type -> Seq(Nat)]
    /\ \A T, U \in SUBSET Type : \A i, j \in Nat :
          i \in DOMAIN col[T] /\ j \in DOMAIN col[U] /\ col[T][i] = col[U][j]
              => T = U /\ i = j

LEMMA InSequence ==
    ASSUME NEW s \in Seq(Nat), NEW x
    PROVE  /\ DOMAIN s = 1 .. Len(s) /\ Len(s) \in Nat /\ DOMAIN s \subseteq Nat
           /\ Contains(s, x) <=> \E j \in DOMAIN s : s[j] = x
BY DEF Contains

LEMMA InColumn ==
    ASSUME NEW col, ColumnsOK(col), NEW T \in SUBSET Type, NEW x, Contains(col[T], x)
    PROVE  /\ \A U \in SUBSET Type : Contains(col[U], x) => U = T
           /\ (CHOOSE types \in SUBSET Type : Contains(col[types], x)) = T
           /\ x \in Nat
           /\ \E p \in DOMAIN col[T] :
                 /\ col[T][p] = x /\ p \in Nat /\ p <= Len(col[T]) /\ p >= 1
                 /\ (CHOOSE j \in DOMAIN col[T] : col[T][j] = x) = p
<1>1. \A U \in SUBSET Type : col[U] \in Seq(Nat)
    BY DEF ColumnsOK
<1>2. PICK p \in DOMAIN col[T] : col[T][p] = x
    BY <1>1, InSequence
<1>3. p \in Nat /\ p <= Len(col[T]) /\ p >= 1 /\ x \in Nat
    BY <1>1, <1>2, InSequence
<1>4. ASSUME NEW U \in SUBSET Type, Contains(col[U], x) PROVE U = T
  <2>1. PICK j \in DOMAIN col[U] : col[U][j] = x
    BY <1>1, <1>4, InSequence
  <2>2. j \in Nat
    BY <1>1, InSequence
  <2> QED BY <1>2, <1>3, <2>1, <2>2 DEF ColumnsOK
<1>5. (CHOOSE types \in SUBSET Type : Contains(col[types], x)) = T
    BY <1>4
<1>6. ASSUME NEW j \in DOMAIN col[T], col[T][j] = x PROVE j = p
  <2>1. j \in Nat
    BY <1>1, InSequence
  <2> QED BY <1>2, <1>3, <1>6, <2>1 DEF ColumnsOK
<1>7. (CHOOSE j \in DOMAIN col[T] : col[T][j] = x) = p
    BY <1>2, <1>6
<1> QED BY <1>2, <1>3, <1>4, <1>5, <1>7

LEMMA SameColumn ==
    ASSUME NEW col, ColumnsOK(col), NEW T \in SUBSET Type, NEW U \in SUBSET Type, NEW x,
           Contains(col[T], x), Contains(col[U], x)
    PROVE  T = U
BY InColumn

\* Where the entries of a column without some come from.
CutFrom(n, p, count, moved) ==
    [j \in 1 .. n - count |->
        IF p - 1 < j /\ j <= p - 1 + moved THEN n - moved + (j - (p - 1)) ELSE j]

CutsOut(f, n, p, count) ==
    /\ f \in [1 .. n - count -> 1 .. n] /\ n - count \in Nat
    /\ \A j \in 1 .. n - count : ~ (p <= f[j] /\ f[j] < p + count)
    /\ \A i, j \in 1 .. n - count : f[i] = f[j] => i = j
    /\ \A i \in 1 .. n : ~ (p <= i /\ i < p + count) => \E j \in 1 .. n - count : f[j] = i

LEMMA CutFromIs ==
    ASSUME NEW n \in Nat, NEW p \in 1 .. n, NEW count \in 1 .. 2, p + count - 1 <= n,
           NEW moved, moved = IF count < n - (p - 1) - count THEN count
                              ELSE n - (p - 1) - count,
           NEW f, f = CutFrom(n, p, count, moved)
    PROVE  CutsOut(f, n, p, count)
<1>1. /\ moved \in Nat /\ moved <= count /\ moved <= n - (p - 1) - count
      /\ (moved = count \/ moved = n - (p - 1) - count) /\ n - count \in Nat
    OBVIOUS
<1>2. \A j \in 1 .. n - count : f[j] = IF p - 1 < j /\ j <= p - 1 + moved
                                        THEN n - moved + (j - (p - 1)) ELSE j
    BY DEF CutFrom
<1>3. ASSUME NEW j \in 1 .. n - count
      PROVE  f[j] \in 1 .. n /\ ~ (p <= f[j] /\ f[j] < p + count)
    BY <1>1, <1>2
<1>4. ASSUME NEW i \in 1 .. n - count, NEW j \in 1 .. n - count, f[i] = f[j]
      PROVE  i = j
    BY <1>1, <1>2, <1>4
<1>5. ASSUME NEW i \in 1 .. n, ~ (p <= i /\ i < p + count)
      PROVE  \E j \in 1 .. n - count : f[j] = i
  <2>1. CASE i > n - moved
    <3>1. i - n + moved + (p - 1) \in 1 .. n - count
        BY <1>1, <1>5, <2>1
    <3>2. f[i - n + moved + (p - 1)] = i
        BY <1>1, <1>2, <1>5, <2>1, <3>1
    <3> QED BY <3>1, <3>2
  <2>2. CASE i <= n - moved
    <3>1. i \in 1 .. n - count
        BY <1>1, <1>5, <2>2
    <3>2. f[i] = i
        BY <1>1, <1>2, <1>5, <2>2, <3>1
    <3> QED BY <3>1, <3>2
  <2> QED BY <1>1, <2>1, <2>2
<1>6. f \in [1 .. n - count -> 1 .. n]
    BY <1>3 DEF CutFrom
<1> QED BY <1>1, <1>3, <1>4, <1>5, <1>6 DEF CutsOut

\* No entry of the sequence is there twice.
OnceEach(s) == \A i, j \in Nat : i \in DOMAIN s /\ j \in DOMAIN s /\ s[i] = s[j] => i = j

\* The entries of w are entries of s, each from a place of its own.
Rearranges(w, s, m, f) ==
    /\ f \in [1 .. m -> 1 .. Len(s)] /\ \A i, j \in 1 .. m : f[i] = f[j] => i = j
    /\ w \in [1 .. m -> Nat] /\ \A j \in 1 .. m : w[j] = s[f[j]]

\* Sequences without repetition, and what w has of such an s.
Once(s) == s \in Seq(Nat) /\ OnceEach(s)
Drawn(w, s, m, f) == Once(w) /\ \A x : Contains(w, x) <=> \E j \in 1 .. m : s[f[j]] = x
Left(w, s, n, p, count) ==
    /\ Once(w)
    /\ \A x : Contains(w, x) <=> \E i \in 1 .. n : s[i] = x /\ ~ (p <= i /\ i < p + count)

LEMMA Rearranged ==
    ASSUME NEW s, Once(s), NEW m, m \in Nat, NEW f, NEW w, Rearranges(w, s, m, f)
    PROVE  Drawn(w, s, m, f)
<1>1. s \in Seq(Nat) /\ OnceEach(s)
    BY DEF Once
<1>2. /\ f \in [1 .. m -> 1 .. Len(s)] /\ \A i, j \in 1 .. m : f[i] = f[j] => i = j
      /\ w \in [1 .. m -> Nat] /\ \A j \in 1 .. m : w[j] = s[f[j]]
    BY DEF Rearranges
<1>3. Len(s) \in Nat /\ DOMAIN s = 1 .. Len(s) /\ \A i \in 1 .. Len(s) : s[i] \in Nat
    BY <1>1
<1>4. \A j \in 1 .. m : w[j] = s[f[j]] /\ f[j] \in 1 .. Len(s) /\ f[j] \in Nat
    BY <1>2, <1>3
<1>5. w \in Seq(Nat) /\ Len(w) = m /\ DOMAIN w = 1 .. m
  <2>1. w \in Seq(Nat)
    BY <1>2, SeqDef
  <2>2. Len(w) \in Nat /\ DOMAIN w = 1 .. Len(w) /\ DOMAIN w = 1 .. m
    BY <1>2, <2>1
  <2>3. /\ Len(w) # 0 => Len(w) \in 1 .. m
        /\ m # 0 => m \in 1 .. Len(w)
    BY <2>2
  <2>4. Len(w) <= m /\ m <= Len(w)
    <3>1. Len(w) # 0 => Len(w) <= m
        BY <2>2, <2>3
    <3>2. m # 0 => m <= Len(w)
        BY <2>2, <2>3
    <3> QED BY ONLY <2>2, <3>1, <3>2, m \in Nat
  <2>5. \A a, b \in Nat : a <= b /\ b <= a => a = b
    OBVIOUS
  <2>6. Len(w) = m
    BY ONLY <2>2, <2>4, <2>5, m \in Nat, Zenon
  <2> QED BY ONLY <2>1, <2>2, <2>6, Zenon
<1>6. ASSUME NEW i \in DOMAIN w, NEW j \in DOMAIN w, w[i] = w[j] PROVE i = j
  <2>1. s[f[i]] = s[f[j]] /\ f[i] \in DOMAIN s /\ f[j] \in DOMAIN s /\ f[i] \in Nat /\ f[j] \in Nat
    BY <1>3, <1>4, <1>5, <1>6
  <2>2. f[i] = f[j]
    BY ONLY <1>1, <2>1 DEF OnceEach
  <2> QED BY <1>2, <1>5, <2>2
<1>7. OnceEach(w)
    BY <1>6 DEF OnceEach
<1>8. ASSUME NEW x PROVE Contains(w, x) <=> \E j \in 1 .. m : s[f[j]] = x
    BY <1>4, <1>5 DEF Contains
<1> QED BY <1>5, <1>7, <1>8 DEF Drawn, Once

LEMMA CutOutBy ==
    ASSUME NEW s, Once(s), NEW n, n = Len(s), NEW p, NEW count,
           NEW f, CutsOut(f, n, p, count), NEW w, Rearranges(w, s, n - count, f)
    PROVE  Left(w, s, n, p, count)
<1> DEFINE m == n - count
<1>1. /\ f \in [1 .. m -> 1 .. Len(s)] /\ m \in Nat
      /\ \A i, j \in 1 .. m : f[i] = f[j] => i = j
    BY DEF CutsOut
<1>2. /\ \A j \in 1 .. m : ~ (p <= f[j] /\ f[j] < p + count)
      /\ \A i \in 1 .. n : ~ (p <= i /\ i < p + count) => \E j \in 1 .. m : f[j] = i
    BY DEF CutsOut
<1> HIDE DEF m
<1>3. Rearranges(w, s, m, f)
    BY DEF m
<1>4. Drawn(w, s, m, f)
    BY <1>1, <1>3, Rearranged
<1>5. Once(w) /\ \A x : Contains(w, x) <=> \E j \in 1 .. m : s[f[j]] = x
    BY <1>4 DEF Drawn
<1>6. ASSUME NEW x
      PROVE  Contains(w, x) <=>
                 \E i \in 1 .. n : s[i] = x /\ ~ (p <= i /\ i < p + count)
  <2>1. ASSUME NEW j \in 1 .. m, s[f[j]] = x
        PROVE  \E i \in 1 .. n : s[i] = x /\ ~ (p <= i /\ i < p + count)
    BY <1>1, <1>2, <2>1
  <2>2. ASSUME NEW i \in 1 .. n, s[i] = x, ~ (p <= i /\ i < p + count)
        PROVE  \E j \in 1 .. m : s[f[j]] = x
    BY <1>2, <2>2
  <2> QED BY <1>5, <2>1, <2>2
<1> QED BY <1>5, <1>6 DEF Left

\* The entries from p on, count of them, are gone, and the others are left.
LEMMA CutOut ==
    ASSUME NEW s \in Seq(Nat), NEW p \in 1 .. Len(s), NEW count \in 1 .. 2,
           p + count - 1 <= Len(s), OnceEach(s),
           NEW moved, moved = IF count < Len(s) - (p - 1) - count THEN count
                              ELSE Len(s) - (p - 1) - count,
           NEW w, w = [j \in 1 .. Len(s) - count |->
                          IF p - 1 < j /\ j <= p - 1 + moved
                          THEN s[Len(s) - moved + (j - (p - 1))] ELSE s[j]]
    PROVE  Left(w, s, Len(s), p, count)
<1> DEFINE n == Len(s)
           f == CutFrom(n, p, count, moved)
<1>1. /\ n \in Nat /\ p \in 1 .. n /\ p + count - 1 <= n /\ f = CutFrom(n, p, count, moved)
      /\ moved = IF count < n - (p - 1) - count THEN count ELSE n - (p - 1) - count
    OBVIOUS
<1>2. \A j \in 1 .. n - count :
          f[j] = IF p - 1 < j /\ j <= p - 1 + moved THEN n - moved + (j - (p - 1)) ELSE j
    BY DEF CutFrom
<1>3. \A j \in 1 .. n - count :
          w[j] = IF p - 1 < j /\ j <= p - 1 + moved
                 THEN s[n - moved + (j - (p - 1))] ELSE s[j]
    OBVIOUS
<1> HIDE DEF f
<1>4. \A j \in 1 .. n - count : w[j] = s[f[j]]
  <2>1. ASSUME NEW j \in 1 .. n - count PROVE w[j] = s[f[j]]
    <3>1. CASE p - 1 < j /\ j <= p - 1 + moved
        BY ONLY <1>2, <1>3, <3>1, j \in 1 .. n - count
    <3>2. CASE ~ (p - 1 < j /\ j <= p - 1 + moved)
        BY ONLY <1>2, <1>3, <3>2, j \in 1 .. n - count
    <3> QED BY <3>1, <3>2
  <2> QED BY <2>1
<1>5. CutsOut(f, n, p, count)
    BY <1>1, CutFromIs
<1>6. Rearranges(w, s, n - count, f)
  <2>1. /\ f \in [1 .. n - count -> 1 .. n]
        /\ \A i, j \in 1 .. n - count : f[i] = f[j] => i = j
    BY <1>5 DEF CutsOut
  <2>2. \A j \in 1 .. n - count : s[f[j]] \in Nat
    BY ONLY <2>1, s \in Seq(Nat), ElementOfSeq
  <2>3. DOMAIN w = 1 .. n - count /\ w = [j \in 1 .. n - count |-> w[j]]
    OBVIOUS
  <2>4. w \in [1 .. n - count -> Nat]
    BY ONLY <1>4, <2>2, <2>3
  <2> QED BY ONLY <1>4, <2>1, <2>4 DEF Rearranges
<1>7. n = Len(s)
    OBVIOUS
<1> HIDE DEF n
<1>8. Once(s)
    BY DEF Once
<1>9. Left(w, s, n, p, count)
    BY ONLY <1>5, <1>6, <1>7, <1>8, CutOutBy
<1> QED BY <1>7, <1>9

LEMMA ColumnsOnce ==
    ASSUME NEW col, ColumnsOK(col), NEW T \in SUBSET Type
    PROVE  col[T] \in Seq(Nat) /\ OnceEach(col[T])
BY DEF ColumnsOK, OnceEach

\* Every column has its entities once, and no two have one together.
LEMMA ColumnsAre ==
    ASSUME NEW col \in [SUBSET Type -> Seq(Nat)],
           \A T \in SUBSET Type : OnceEach(col[T]),
           \A T, U \in SUBSET Type : \A x : Contains(col[T], x) /\ Contains(col[U], x) => T = U
    PROVE  ColumnsOK(col)
<1>1. ASSUME NEW T \in SUBSET Type, NEW U \in SUBSET Type, NEW i \in Nat, NEW j \in Nat,
             i \in DOMAIN col[T], j \in DOMAIN col[U], col[T][i] = col[U][j]
      PROVE  T = U /\ i = j
  <2>1. PICK x : x = col[T][i]
    OBVIOUS
  <2>2. col[T] \in Seq(Nat) /\ col[U] \in Seq(Nat)
    OBVIOUS
  <2>3. Contains(col[T], x) /\ Contains(col[U], x)
    BY <1>1, <2>1, <2>2, InSequence
  <2>4. T = U
    BY <2>3
  <2> QED BY <1>1, <2>4 DEF OnceEach
<1> QED BY <1>1 DEF ColumnsOK

\* A column loses some of its entities.
Minus(w, s, S) ==
    /\ \A x : Contains(w, x) <=> Contains(s, x) /\ x \notin S
    /\ \A x \in S : Contains(s, x)
Loses(col2, col, S) ==
    \A U \in SUBSET Type : \A x :
        Contains(col2[U], x) <=> Contains(col[U], x) /\ x \notin S

LEMMA ColumnLoses ==
    ASSUME NEW col, ColumnsOK(col), NEW T \in SUBSET Type, NEW w, Once(w),
           NEW S, Minus(w, col[T], S), NEW col2, col2 = [col EXCEPT ![T] = w]
    PROVE  ColumnsOK(col2) /\ Loses(col2, col, S)
<1>0. /\ \A x : Contains(w, x) <=> Contains(col[T], x) /\ x \notin S
      /\ \A x \in S : Contains(col[T], x)
      /\ w \in Seq(Nat) /\ OnceEach(w)
    BY DEF Minus, Once
<1>1. /\ col \in [SUBSET Type -> Seq(Nat)] /\ col2 \in [SUBSET Type -> Seq(Nat)]
      /\ col2[T] = w /\ \A U \in SUBSET Type : U # T => col2[U] = col[U]
    BY <1>0 DEF ColumnsOK
<1>2. ASSUME NEW U \in SUBSET Type, NEW x
      PROVE  Contains(col2[U], x) <=> Contains(col[U], x) /\ x \notin S
  <2>1. CASE U = T
    BY <1>0, <1>1, <2>1
  <2>2. CASE U # T
    <3>1. x \in S => ~ Contains(col[U], x)
        BY <1>0, <2>2, SameColumn
    <3> QED BY <1>1, <2>2, <3>1
  <2> QED BY <2>1, <2>2
<1>3. \A U, V \in SUBSET Type : \A x : Contains(col2[U], x) /\ Contains(col2[V], x) => U = V
    BY <1>2, SameColumn
<1>4. \A U \in SUBSET Type : OnceEach(col2[U])
    BY <1>0, <1>1, ColumnsOnce
<1>5. Loses(col2, col, S)
    BY <1>2 DEF Loses
<1> QED BY <1>1, <1>3, <1>4, <1>5, ColumnsAre

LEMMA ContainsJoined ==
    ASSUME NEW old \in Seq(Nat), NEW s \in Seq(Nat), NEW x
    PROVE  Contains(old \o s, x) <=> Contains(old, x) \/ Contains(s, x)
<1> DEFINE n == Len(old)
           w == old \o s
<1>1. n \in Nat /\ Len(s) \in Nat /\ w \in Seq(Nat) /\ Len(w) = n + Len(s)
    OBVIOUS
<1>2. \A i \in 1 .. n + Len(s) : w[i] = IF i <= n THEN old[i] ELSE s[i - n]
    OBVIOUS
<1> HIDE DEF w
<1>3. ASSUME NEW i \in 1 .. n + Len(s), w[i] = x PROVE Contains(old, x) \/ Contains(s, x)
  <2>1. CASE i <= n
    <3>1. i \in 1 .. n /\ old[i] = x
        BY <1>1, <1>2, <1>3, <2>1
    <3> QED BY <3>1 DEF Contains
  <2>2. CASE ~ (i <= n)
    <3>1. i - n \in 1 .. Len(s) /\ s[i - n] = x
        BY <1>1, <1>2, <1>3, <2>2
    <3> QED BY <3>1 DEF Contains
  <2> QED BY <2>1, <2>2
<1>4. ASSUME NEW i \in 1 .. n, old[i] = x PROVE Contains(w, x)
  <2>1. i \in 1 .. Len(w) /\ w[i] = x
    BY <1>1, <1>2, <1>4
  <2> QED BY <2>1 DEF Contains
<1>5. ASSUME NEW i \in 1 .. Len(s), s[i] = x PROVE Contains(w, x)
  <2>1. i + n \in 1 .. Len(w) /\ ~ (i + n <= n) /\ (i + n) - n = i
    BY <1>1, <1>5
  <2>2. w[i + n] = x
    BY <1>1, <1>2, <1>5, <2>1
  <2> QED BY <2>1, <2>2 DEF Contains
<1>6. Contains(w, x) => Contains(old, x) \/ Contains(s, x)
    BY <1>1, <1>3 DEF Contains
<1>7. Contains(old, x) => Contains(w, x)
    BY <1>4 DEF Contains
<1>8. Contains(s, x) => Contains(w, x)
    BY <1>5 DEF Contains
<1> QED BY <1>6, <1>7, <1>8 DEF w

LEMMA OnceJoined ==
    ASSUME NEW old \in Seq(Nat), NEW s \in Seq(Nat), OnceEach(old), OnceEach(s),
           \A x : ~ (Contains(old, x) /\ Contains(s, x))
    PROVE  OnceEach(old \o s)
<1> DEFINE n == Len(old)
           w == old \o s
<1>1. n \in Nat /\ Len(s) \in Nat /\ w \in Seq(Nat) /\ DOMAIN w = 1 .. n + Len(s)
      /\ DOMAIN old = 1 .. n /\ DOMAIN s = 1 .. Len(s)
    OBVIOUS
<1>2. \A i \in 1 .. n + Len(s) : w[i] = IF i <= n THEN old[i] ELSE s[i - n]
    OBVIOUS
<1> HIDE DEF w, n
<1>3. ASSUME NEW i \in 1 .. n + Len(s), NEW j \in 1 .. n + Len(s), w[i] = w[j], i <= n
      PROVE  i = j
  <2>1. i \in DOMAIN old /\ i \in Nat /\ w[i] = old[i]
    BY <1>1, <1>2, <1>3
  <2>2. CASE j <= n
    <3>1. j \in DOMAIN old /\ j \in Nat /\ w[j] = old[j]
        BY <1>1, <1>2, <2>2
    <3> QED BY <1>3, <2>1, <3>1 DEF OnceEach
  <2>3. CASE ~ (j <= n)
    <3>1. j - n \in DOMAIN s /\ w[j] = s[j - n]
        BY <1>1, <1>2, <2>3
    <3>2. Contains(old, w[i]) /\ Contains(s, w[i])
        BY <1>3, <2>1, <3>1, InSequence
    <3> QED BY <3>2
  <2> QED BY <2>2, <2>3
<1>4. ASSUME NEW i \in 1 .. n + Len(s), NEW j \in 1 .. n + Len(s), w[i] = w[j],
             ~ (i <= n), ~ (j <= n)
      PROVE  i = j
  <2>1. /\ i - n \in DOMAIN s /\ j - n \in DOMAIN s /\ i - n \in Nat /\ j - n \in Nat
        /\ w[i] = s[i - n] /\ w[j] = s[j - n]
    BY <1>1, <1>2, <1>4
  <2>2. i - n = j - n
    BY <1>4, <2>1 DEF OnceEach
  <2> QED BY <1>1, <2>2
<1>5. ASSUME NEW i \in DOMAIN w, NEW j \in DOMAIN w, w[i] = w[j] PROVE i = j
    BY <1>1, <1>3, <1>4, <1>5
<1> QED BY <1>5 DEF OnceEach, w

\* A column gets entities that are in none.
Elsewhere(s, col) ==
    \A x : Contains(s, x) => \A U \in SUBSET Type : ~ Contains(col[U], x)
Gets(col2, col, T, s) ==
    \A U \in SUBSET Type : \A x :
        Contains(col2[U], x) <=> Contains(col[U], x) \/ (U = T /\ Contains(s, x))

LEMMA ColumnGets ==
    ASSUME NEW col, ColumnsOK(col), NEW T \in SUBSET Type, NEW s \in Seq(Nat), OnceEach(s),
           Elsewhere(s, col), NEW col2, col2 = [col EXCEPT ![T] = @ \o s]
    PROVE  ColumnsOK(col2) /\ Gets(col2, col, T, s)
<1> DEFINE w == col[T] \o s
<1>0. \A x : Contains(s, x) => \A U \in SUBSET Type : ~ Contains(col[U], x)
    BY DEF Elsewhere
<1>1. col[T] \in Seq(Nat) /\ OnceEach(col[T])
    BY ColumnsOnce
<1>2. w \in Seq(Nat) /\ \A x : Contains(w, x) <=> Contains(col[T], x) \/ Contains(s, x)
    BY <1>1, ContainsJoined
<1>3. OnceEach(w)
    BY <1>0, <1>1, OnceJoined
<1> HIDE DEF w
<1>4. /\ col \in [SUBSET Type -> Seq(Nat)] /\ col2 \in [SUBSET Type -> Seq(Nat)]
      /\ col2[T] = w /\ \A U \in SUBSET Type : U # T => col2[U] = col[U]
    BY <1>2 DEF ColumnsOK, w
<1>5. ASSUME NEW U \in SUBSET Type, NEW x
      PROVE  Contains(col2[U], x) <=> Contains(col[U], x) \/ (U = T /\ Contains(s, x))
    BY <1>2, <1>4
<1>6. \A U, V \in SUBSET Type : \A x : Contains(col2[U], x) /\ Contains(col2[V], x) => U = V
    BY <1>0, <1>5, SameColumn
<1>7. \A U \in SUBSET Type : OnceEach(col2[U])
    BY <1>3, <1>4, ColumnsOnce
<1>8. Gets(col2, col, T, s)
    BY <1>5 DEF Gets
<1> QED BY <1>4, <1>6, <1>7, <1>8, ColumnsAre

-----------------------------------------------------------------------------
(* What is true while execute runs, of the locals L as they were recorded. *)

\* Only the entities of the locals change.
Carried(L) ==
    /\ Rec(L)
    /\ DOMAIN local = Slot
    /\ \A s \in Taken : local[s] = [L[s] EXCEPT !.entities = local[s].entities]

Failed == exec.phase \in {"spinning", "crashed"} \/ Lost \/ Mistaken

ExecType(L) ==
    /\ exec = [phase |-> exec.phase, i |-> exec.i, k |-> exec.k, news |-> exec.news]
    /\ Taken # {}
    /\ \/ exec.phase = "done"
       \/ /\ \E q \in 1 .. 6 : exec.phase = Phases[q]
          /\ exec.i \in Taken /\ exec.k \in 1 .. Work(exec.phase, L[exec.i]) + 1

\* The locals whose turn it was have their handles resolved.
ResolvedLocal(l) == [l EXCEPT !.entities = [j \in DOMAIN @ |-> Resolved(@[j])]]
Mirrors(L) ==
    \A s \in Taken : local[s] = IF Past(3, s, 1) THEN ResolvedLocal(L[s]) ELSE L[s]

\* Each command so far has created an entity of its own.
Top == Count + Cardinality(DOMAIN exec.news)
NewsInv(L) ==
    /\ DOMAIN exec.news \subseteq 0 .. allocates - 1
    /\ \A n \in DOMAIN exec.news : exec.news[n] \in Nat /\ exec.news[n] >= Count
                                   /\ exec.news[n] < Top
    /\ \A n, m \in DOMAIN exec.news : exec.news[n] = exec.news[m] => n = m
    /\ \A s \in Taken, h \in Handles, j \in Nat :
          /\ AllocateOf(L[s], h, j) => (h.id \in DOMAIN exec.news <=> Past(1, s, j))
          /\ InstantiateOf(L[s], h, j) => (h.id \in DOMAIN exec.news <=> Past(2, s, j))

ColumnInv ==
    /\ ColumnsOK(column)
    /\ \A T \in SUBSET Type : \A x \in Nat : Contains(column[T], x) => x < Top

\* The entities that exist are alive until they are destroyed.
Created == {h \in Subjects : h.transient => h.id \in DOMAIN exec.news}
LivingInv(L) ==
    /\ \A h \in Created :
          Living(IdOf(h)) \/ (Order(exec.phase) >= 6 /\ said[h].destroyed)
    /\ \A s \in Taken : \A j \in DOMAIN L[s].destroies :
          Past(6, s, j) => ~ Living(L[s].destroies[j].id)

\* The casts that may have been applied to an entity: those whose turn it was,
\* and perhaps one more, which was batched with the one before.
PastCasts(l, s) == {j \in DOMAIN l.casts : Past(4, s, j)}
Applied(l, s) ==
    {PastCasts(l, s)} \cup
        IF exec.phase = "cast" /\ exec.i = s
        THEN {PastCasts(l, s) \cup ({exec.k} \cap DOMAIN l.casts)} ELSE {}

\* What the entity of h has become, if it began as b and r.
TypeIs(l, s, h, b, r) ==
    ~ said[h].undone \/ Order(exec.phase) < 4 =>
        \E A \in Applied(l, s) : \A T \in SUBSET Type : Contains(column[T], IdOf(h)) =>
            /\ T = TypesAfter(l, h, b, A)
            /\ ~ Past(5, s, 1) => ref[IdOf(h)] = IF Ref \in T THEN r ELSE Null
Final(w) == IF w.patched THEN Resolved(w.ref) ELSE w.ref
RefIs(s, h) ==
    ~ said[h].undone /\ ~ said[h].kept /\ Ref \in said[h].types /\ Past(5, s, 1)
        => ref[IdOf(h)] = Final(said[h])
DataInv(L) ==
    /\ DOMAIN ref = 0 .. Count + MaxNew - 1
    /\ \A s \in Taken, h \in Created : Alone(L, s, h) =>
          /\ \A b \in SUBSET Type, r \in Refs : Origin(L[s], h, b, r) => TypeIs(L[s], s, h, b, r)
          /\ RefIs(s, h)

ExecInv(L) ==
    ExecType(L) /\ Mirrors(L) /\ NewsInv(L) /\ ColumnInv /\ LivingInv(L) /\ DataInv(L)

\* Before execute: the world is as it was.
Start ==
    /\ exec = [phase |-> "record", i |-> 0, k |-> 1, news |-> <<>>]
    /\ column = FirstColumn
    /\ ref = [id \in 0 .. Count + MaxNew - 1 |-> IF id \in Ids THEN FirstRef[id] ELSE Null]

ExecRecord == exec = [phase |-> exec.phase, i |-> exec.i, k |-> exec.k, news |-> exec.news]
BufferInv ==
    IF exec.phase = "record" THEN Start /\ Rec(local)
    ELSE ExecRecord /\ \E L : Carried(L) /\ (Failed \/ ExecInv(L))

-----------------------------------------------------------------------------
(* What the locals keep.                                                   *)

LEMMA TakenIs ==
    ASSUME StorageInv
    PROVE  Taken \subseteq Slot /\ Taken \subseteq Nat /\ slots \in Nat
<1>1. slots \in Nat /\ Taken \subseteq Slot
    BY DEF StorageInv
<1> QED BY <1>1 DEF Taken

LEMMA RecStays ==
    ASSUME NEW L, Rec(L), UNCHANGED <<storageVars, allocates, said>>
    PROVE  Rec(L)'
<1>1. ids' = ids /\ slots' = slots /\ allocates' = allocates /\ said' = said
    BY DEF storageVars
<1>2. Taken' = Taken /\ Subjects' = Subjects
    BY <1>1 DEF Taken, Subjects
<1> QED BY <1>1, <1>2 DEF Rec

LEMMA CarriedFields ==
    ASSUME StorageInv, NEW L, Carried(L), NEW s \in Taken
    PROVE  /\ s \in Slot /\ L[s] \in Local /\ Listed(L[s]) /\ CreatedOnce(L[s])
           /\ local[s].allocates = L[s].allocates /\ local[s].instantiates = L[s].instantiates
           /\ local[s].casts = L[s].casts /\ local[s].sets = L[s].sets
           /\ local[s].patches = L[s].patches /\ local[s].destroies = L[s].destroies
           /\ \A p : Work(p, local[s]) = Work(p, L[s]) /\ Work(p, L[s]) \in Nat
<1>1. s \in Slot /\ L[s] \in Local /\ Listed(L[s]) /\ CreatedOnce(L[s])
    BY TakenIs DEF Carried, Rec
<1>2. PICK es : local[s] = [L[s] EXCEPT !.entities = es]
    BY DEF Carried
<1>3. \A p : Work(p, local[s]) = Work(p, L[s]) /\ Work(p, L[s]) \in Nat
    BY <1>1, <1>2, WorkIs
<1> QED BY <1>1, <1>2, <1>3 DEF Local

\* A step may change the entities of a local, and nothing else of it.
LEMMA CarriedStays ==
    ASSUME StorageInv, NEW L, Carried(L), UNCHANGED <<storageVars, allocates, said>>,
           \/ local' = local
           \/ \E i, es : local' = [local EXCEPT ![i].entities = es]
    PROVE  /\ Carried(L)'
           /\ Lost' <=> Lost
           /\ Mistaken' <=> Mistaken
<1>1. Rec(L)'
    BY RecStays DEF Carried
<1>2. Taken' = Taken /\ slots' = slots
    BY DEF Taken, storageVars
<1>3. DOMAIN local' = Slot /\ DOMAIN local = Slot
    BY DEF Carried
<1>4. ASSUME NEW s \in Taken
      PROVE  /\ local'[s] = [L[s] EXCEPT !.entities = local'[s].entities]
             /\ local'[s].allocates = local[s].allocates
             /\ local'[s].casts = local[s].casts
             /\ local'[s].destroies = local[s].destroies
  <2>1. s \in Slot /\ L[s] \in Local
    BY CarriedFields
  <2>2. PICK es : local[s] = [L[s] EXCEPT !.entities = es]
    BY DEF Carried
  <2>3. local'[s] = local[s] \/ \E fs : local'[s] = [local[s] EXCEPT !.entities = fs]
    BY <1>3, <2>1
  <2>4. PICK fs : local'[s] = [L[s] EXCEPT !.entities = fs]
    BY <2>1, <2>2, <2>3 DEF Local
  <2> QED BY <2>1, <2>2, <2>4 DEF Local
<1>5. Carried(L)'
    BY <1>1, <1>2, <1>3, <1>4 DEF Carried
<1>6. \A s \in 0 .. slots - 1 :
          /\ local'[s].allocates = local[s].allocates
          /\ local'[s].casts = local[s].casts
          /\ local'[s].destroies = local[s].destroies
    BY <1>4 DEF Taken
<1>7. Lost' <=> Lost
    BY <1>2, <1>6 DEF Lost, Recorded
<1>8. Mistaken' <=> Mistaken
    BY <1>2, <1>6 DEF Mistaken, Recorded
<1> QED BY <1>5, <1>7, <1>8

\* Nothing was lost, and no transient handle is to be destroyed.
LEMMA NothingFailed ==
    ASSUME StorageInv, NEW L, Carried(L), ~ Failed, NEW s \in Taken
    PROVE  /\ \A j \in DOMAIN L[s].casts : L[s].casts[j].where # "lost"
           /\ \A j \in DOMAIN L[s].allocates : L[s].allocates[j].where # "lost"
           /\ \A j \in DOMAIN L[s].destroies : ~ L[s].destroies[j].transient
<1>1. s \in 0 .. slots - 1
    BY DEF Taken
<1>2. ~ Lost /\ ~ Mistaken
    BY DEF Failed
<1>3. /\ \A j \in DOMAIN local[s].casts : local[s].casts[j].where # "lost"
      /\ \A j \in DOMAIN local[s].allocates : local[s].allocates[j].where # "lost"
    BY <1>1, <1>2 DEF Lost, Recorded
<1>4. \A j \in DOMAIN local[s].destroies : ~ local[s].destroies[j].transient
    BY <1>1, <1>2 DEF Mistaken, Recorded
<1> QED BY <1>3, <1>4, CarriedFields

-----------------------------------------------------------------------------
(* What a turn is to the others.                                           *)

LEMMA PhaseIs ==
    ASSUME NEW L, ExecType(L)
    PROVE  /\ Order(exec.phase) \in 1 .. 7
           /\ exec.phase \notin {"record", "spinning", "crashed"}
           /\ exec.phase = "done" <=> Order(exec.phase) = 7
           /\ exec.phase # "done" => exec.phase = Phases[Order(exec.phase)]
           /\ exec.phase = "allocate" <=> Order(exec.phase) = 1
           /\ exec.phase = "instantiate" <=> Order(exec.phase) = 2
           /\ exec.phase = "resolve" <=> Order(exec.phase) = 3
           /\ exec.phase = "cast" <=> Order(exec.phase) = 4
           /\ exec.phase = "set" <=> Order(exec.phase) = 5
           /\ exec.phase = "destroy" <=> Order(exec.phase) = 6
<1>1. CASE exec.phase = "done"
    BY <1>1 DEF Order
<1>2. ASSUME NEW q \in 1 .. 6, exec.phase = Phases[q]
      PROVE  /\ Order(exec.phase) = q
             /\ exec.phase \notin {"record", "spinning", "crashed", "done"}
    BY <1>2, OrderIs
<1>3. CASE \E q \in 1 .. 6 : exec.phase = Phases[q]
  <2>1. PICK q \in 1 .. 6 : exec.phase = Phases[q]
    BY <1>3
  <2>2. q = 1 \/ q = 2 \/ q = 3 \/ q = 4 \/ q = 5 \/ q = 6
    OBVIOUS
  <2> QED BY <1>2, <2>1, <2>2, OrderIs
<1> QED BY <1>1, <1>3 DEF ExecType

\* The turn of phase and local is over, and only its own turn has passed.
LEMMA PastTurn ==
    ASSUME NEW L, Carried(L), ExecType(L), StorageInv, exec.phase # "done",
           NEW news, exec' = [exec EXCEPT !.k = @ + 1, !.news = news],
           exec.k <= Work(exec.phase, L[exec.i]), Taken' = Taken
    PROVE  /\ ExecType(L)'
           /\ exec'.phase = exec.phase /\ exec'.i = exec.i /\ exec'.k = exec.k + 1
           /\ exec'.news = news
           /\ \A q, s, j \in Nat :
                 Past(q, s, j)' <=>
                     Past(q, s, j) \/ (q = Order(exec.phase) /\ s = exec.i /\ j = exec.k)
<1>1. /\ exec = [phase |-> exec.phase, i |-> exec.i, k |-> exec.k, news |-> exec.news]
      /\ exec.i \in Taken
    BY DEF ExecType
<1>2. exec.k \in Nat /\ exec.i \in Nat /\ exec.k >= 1
    BY TakenIs DEF ExecType
<1>3. /\ exec'.phase = exec.phase /\ exec'.i = exec.i /\ exec'.k = exec.k + 1
      /\ exec'.news = news
      /\ exec' = [phase |-> exec'.phase, i |-> exec'.i, k |-> exec'.k, news |-> exec'.news]
    BY <1>1
<1>4. ExecType(L)'
  <2>1. exec.k + 1 \in 1 .. Work(exec.phase, L[exec.i]) + 1
    <3>1. Work(exec.phase, L[exec.i]) \in Nat
        BY <1>1, CarriedFields
    <3> QED BY ONLY <1>2, <3>1, exec.k <= Work(exec.phase, L[exec.i])
  <2> QED BY <1>3, <2>1 DEF ExecType
<1>5. Order(exec.phase) \in Nat
    BY PhaseIs
<1>6. ASSUME NEW q \in Nat, NEW s \in Nat, NEW j \in Nat
      PROVE  Past(q, s, j)' <=>
                 Past(q, s, j) \/ (q = Order(exec.phase) /\ s = exec.i /\ j = exec.k)
    BY <1>2, <1>3, <1>5 DEF Past
<1> QED BY <1>3, <1>4, <1>6

\* What there is to visit.
LEMMA VisitsAre ==
    ASSUME StorageInv, NEW L, Carried(L)
    PROVE  /\ Visits \subseteq (1 .. 6) \X Nat
           /\ \A v \in Visits : v[1] \in 1 .. 6 /\ v[2] \in Taken /\ v = <<v[1], v[2]>>
           /\ \A q \in 1 .. 6, s \in Taken, j \in Nat :
                 1 <= j /\ j <= Work(Phases[q], L[s]) => <<q, s>> \in Visits
<1>1. Visits = {v \in (1 .. 6) \X Taken : Work(Phases[v[1]], local[v[2]]) > 0}
    BY OrderIs DEF Visits, Taken
<1>2. \A v \in (1 .. 6) \X Taken : v[1] \in 1 .. 6 /\ v[2] \in Taken /\ v = <<v[1], v[2]>>
    OBVIOUS
<1>3. ASSUME NEW q \in 1 .. 6, NEW s \in Taken, NEW j \in Nat,
             1 <= j, j <= Work(Phases[q], L[s])
      PROVE  <<q, s>> \in Visits
  <2>1. Work(Phases[q], local[s]) = Work(Phases[q], L[s]) /\ Work(Phases[q], L[s]) \in Nat
    BY CarriedFields
  <2>2. Work(Phases[q], local[s]) > 0
    BY <1>3, <2>1
  <2>3. <<q, s>> \in (1 .. 6) \X Taken /\ <<q, s>>[1] = q /\ <<q, s>>[2] = s
    OBVIOUS
  <2> QED BY <1>1, <2>2, <2>3
<1> QED BY <1>1, <1>2, <1>3, TakenIs

\* Where execute is when it goes on to the next visit.
LEMMA Entered ==
    ASSUME StorageInv, NEW L, Carried(L), Taken # {},
           exec = [phase |-> exec.phase, i |-> exec.i, k |-> exec.k, news |-> exec.news],
           NEW V, V \subseteq Visits, Enter(V)
    PROVE  /\ ExecType(L)' /\ Carried(L)' /\ exec'.news = exec.news
           /\ UNCHANGED <<storageVars, local, allocates, said, column, ref>>
           /\ Taken' = Taken /\ (Failed' <=> Lost \/ Mistaken)
           /\ \A q, s, j \in Nat :
                 1 <= j /\ <<q, s>> \in V => ~ Past(q, s, j)'
           /\ \A q, s, j \in Nat :
                 q \in 1 .. 6 /\ (\A v \in V : Before(<<q, s>>, v)) => Past(q, s, j)'
<1>1. UNCHANGED <<storageVars, local, allocates, said, column, ref>>
    BY DEF Enter
<1>2. Taken' = Taken /\ slots' = slots
    BY <1>1 DEF Taken, storageVars
<1>3. Carried(L)' /\ (Lost' <=> Lost) /\ (Mistaken' <=> Mistaken)
    BY <1>1, CarriedStays
<1>4. CASE V = {}
  <2>1. exec' = [exec EXCEPT !.phase = "done", !.i = 0, !.k = 1]
    BY <1>4 DEF Enter
  <2>2. /\ exec'.phase = "done" /\ exec'.news = exec.news
        /\ exec' = [phase |-> exec'.phase, i |-> exec'.i, k |-> exec'.k, news |-> exec'.news]
    BY <2>1
  <2>3. ExecType(L)'
    BY <1>2, <2>2 DEF ExecType
  <2>4. \A q, s, j \in Nat : q \in 1 .. 6 => Past(q, s, j)'
    BY <2>2, OrderIs DEF Past
  <2> QED BY <1>1, <1>2, <1>3, <1>4, <2>2, <2>3, <2>4 DEF Failed
<1>5. CASE V # {}
  <2>1. PICK v : /\ v = CHOOSE x \in V : \A w \in V \ {x} : Before(x, w)
                 /\ exec' = [exec EXCEPT !.phase = Phases[v[1]], !.i = v[2], !.k = 1]
    BY <1>5 DEF Enter
  <2>2. v \in V /\ \A w \in V \ {v} : Before(v, w)
    BY <1>5, <2>1, VisitsAre, FirstVisit
  <2>3. v[1] \in 1 .. 6 /\ v[2] \in Taken /\ v[2] \in Nat /\ v = <<v[1], v[2]>>
    BY <2>2, VisitsAre, TakenIs
  <2>4. /\ exec'.phase = Phases[v[1]] /\ exec'.i = v[2] /\ exec'.k = 1
        /\ exec'.news = exec.news
        /\ exec' = [phase |-> exec'.phase, i |-> exec'.i, k |-> exec'.k, news |-> exec'.news]
    BY <2>1
  <2>5. Order(exec'.phase) = v[1]
        /\ exec'.phase \notin {"record", "spinning", "crashed", "done"}
    BY <2>3, <2>4, OrderIs
  <2>6. ExecType(L)'
    <3>1. Work(exec'.phase, L[v[2]]) \in Nat
        BY <2>3, CarriedFields
    <3>2. 1 \in 1 .. Work(exec'.phase, L[v[2]]) + 1
        BY <3>1
    <3> QED BY <1>2, <2>3, <2>4, <3>2 DEF ExecType
  <2>7. \A q, s, j \in Nat :
            1 <= j => (Past(q, s, j)' <=> q < v[1] \/ (q = v[1] /\ s < v[2]))
    BY <2>3, <2>4, <2>5 DEF Past
  <2>8. \A q, s, j \in Nat :
            q < v[1] \/ (q = v[1] /\ s < v[2]) => Past(q, s, j)'
    BY <2>3, <2>4, <2>5 DEF Past
  <2>9. ASSUME NEW q \in Nat, NEW s \in Nat, NEW j \in Nat, 1 <= j, <<q, s>> \in V
        PROVE  ~ Past(q, s, j)'
    <3>1. <<q, s>> = v \/ Before(v, <<q, s>>)
        BY <2>2, <2>9
    <3>2. CASE <<q, s>> = v
        BY <2>3, <2>7, <2>9, <3>2
    <3>3. CASE Before(v, <<q, s>>)
        BY <2>3, <2>7, <2>9, <3>3 DEF Before
    <3> QED BY <3>1, <3>2, <3>3
  <2>10. ASSUME NEW q \in Nat, NEW s \in Nat, NEW j \in Nat,
                \A w \in V : Before(<<q, s>>, w)
         PROVE  Past(q, s, j)'
    <3>1. Before(<<q, s>>, v)
        BY <2>2, <2>10
    <3> QED BY <2>8, <3>1 DEF Before
  <2> QED BY <1>1, <1>2, <1>3, <2>4, <2>5, <2>6, <2>9, <2>10 DEF Failed
<1> QED BY <1>4, <1>5

\* Going on to the next visit changes nothing about the commands there are.
SamePast(L) ==
    \A q \in 1 .. 6, s \in Taken, j \in Nat :
        1 <= j /\ j <= Work(Phases[q], L[s]) => (Past(q, s, j)' <=> Past(q, s, j))

LEMMA BeginPast ==
    ASSUME StorageInv, NEW L, Carried(L), exec.phase = "record", Enter(Visits), Visits # {},
           exec = [phase |-> exec.phase, i |-> exec.i, k |-> exec.k, news |-> exec.news]
    PROVE  /\ SamePast(L)
           /\ \A q \in 1 .. 6, s \in Nat, j \in Nat : ~ Past(q, s, j)
<1>1. \A q \in 1 .. 6, s \in Nat, j \in Nat : ~ Past(q, s, j)
  <2>1. Order(exec.phase) = 0
    BY DEF Order
  <2> QED BY <2>1 DEF Past
<1>2. Taken # {}
    BY VisitsAre
<1>3. ASSUME NEW q \in 1 .. 6, NEW s \in Taken, NEW j \in Nat,
             1 <= j, j <= Work(Phases[q], L[s])
      PROVE  ~ Past(q, s, j)'
  <2>1. <<q, s>> \in Visits /\ s \in Nat /\ q \in Nat
    BY <1>3, VisitsAre, TakenIs
  <2> QED BY <1>2, <1>3, <2>1, Entered
<1> QED BY <1>1, <1>3, TakenIs DEF SamePast

LEMMA NextPast ==
    ASSUME StorageInv, NEW L, Carried(L), ExecType(L), NextLocal
    PROVE  /\ SamePast(L) /\ ExecType(L)' /\ Carried(L)' /\ exec'.news = exec.news
           /\ UNCHANGED <<storageVars, local, allocates, said, column, ref>>
           /\ Taken' = Taken /\ (Failed' <=> Failed)
           /\ Order(exec'.phase) >= Order(exec.phase)
<1>1. PICK p \in 1 .. 6 : /\ exec.phase = Phases[p] /\ exec.k > Turns
                          /\ Enter({v \in Visits : Before(<<p, exec.i>>, v)})
    BY OrderIs DEF NextLocal
<1> DEFINE V == {v \in Visits : Before(<<p, exec.i>>, v)}
<1>2. Order(exec.phase) = p /\ exec.phase \notin {"record", "spinning", "crashed", "done"}
    BY <1>1, OrderIs
<1>3. exec.i \in Taken /\ exec.i \in Nat /\ exec.k \in Nat
      /\ exec = [phase |-> exec.phase, i |-> exec.i, k |-> exec.k, news |-> exec.news]
      /\ Taken # {}
  <2>1. exec.i \in Taken /\ exec.k \in 1 .. Work(exec.phase, L[exec.i]) + 1
    BY <1>2 DEF ExecType
  <2> QED BY <2>1, TakenIs DEF ExecType
<1>4. /\ ExecType(L)' /\ Carried(L)' /\ exec'.news = exec.news
      /\ UNCHANGED <<storageVars, local, allocates, said, column, ref>>
      /\ Taken' = Taken /\ (Failed' <=> Lost \/ Mistaken)
    BY <1>1, <1>3, Entered
<1>5. /\ \A q, s, j \in Nat : 1 <= j /\ <<q, s>> \in V => ~ Past(q, s, j)'
      /\ \A q, s, j \in Nat :
             q \in 1 .. 6 /\ (\A v \in V : Before(<<q, s>>, v)) => Past(q, s, j)'
    BY <1>1, <1>3, Entered
<1>6. Turns = Work(exec.phase, L[exec.i]) /\ Turns \in Nat
    BY <1>3, CarriedFields DEF Turns, Now
<1>7. ASSUME NEW q \in 1 .. 6, NEW s \in Taken, NEW j \in Nat,
             1 <= j, j <= Work(Phases[q], L[s])
      PROVE  Past(q, s, j)' <=> Past(q, s, j)
  <2>1. <<q, s>> \in Visits /\ s \in Nat /\ q \in Nat
    BY <1>7, VisitsAre, TakenIs
  <2>2. CASE Before(<<p, exec.i>>, <<q, s>>)
    <3>1. ~ Past(q, s, j)'
        BY <1>5, <1>7, <2>1, <2>2
    <3>2. ~ Past(q, s, j)
        BY <1>2, <1>3, <2>1, <2>2 DEF Past, Before
    <3> QED BY <3>1, <3>2
  <2>3. CASE ~ Before(<<p, exec.i>>, <<q, s>>)
    <3>1. q < p \/ (q = p /\ (s < exec.i \/ s = exec.i))
        BY <1>3, <2>1, <2>3 DEF Before
    <3>2. q = p /\ s = exec.i => j < exec.k
        BY <1>1, <1>3, <1>6, <1>7
    <3>3. Past(q, s, j)
        BY <1>2, <3>1, <3>2 DEF Past
    <3>4. ASSUME NEW v \in V PROVE Before(<<q, s>>, v)
        <4>1. v[1] \in 1 .. 6 /\ v[2] \in Nat /\ Before(<<p, exec.i>>, v)
            BY VisitsAre, TakenIs
        <4> QED BY <1>3, <2>1, <3>1, <4>1 DEF Before
    <3> QED BY <1>5, <2>1, <3>3, <3>4
  <2> QED BY <2>2, <2>3
<1>8. Order(exec'.phase) >= p
  <2>1. CASE V = {}
    <3>1. exec'.phase = "done"
        BY <1>1, <1>3, <2>1 DEF Enter
    <3> QED BY <3>1, OrderIs
  <2>2. CASE V # {}
    <3>1. PICK v : /\ v = CHOOSE x \in V : \A w \in V \ {x} : Before(x, w)
                   /\ exec' = [exec EXCEPT !.phase = Phases[v[1]], !.i = v[2], !.k = 1]
        BY <1>1, <2>2 DEF Enter
    <3>2. v \in V
        BY <2>2, <3>1, VisitsAre, FirstVisit
    <3>3. v[1] \in 1 .. 6 /\ v[2] \in Nat /\ Before(<<p, exec.i>>, v)
        BY <3>2, VisitsAre, TakenIs
    <3>4. exec'.phase = Phases[v[1]]
        BY <1>3, <3>1
    <3>5. Order(exec'.phase) = v[1]
        BY <3>3, <3>4, OrderIs
    <3> QED BY <3>3, <3>5 DEF Before
  <2> QED BY <2>1, <2>2
<1>9. Failed <=> Lost \/ Mistaken
    BY <1>2 DEF Failed
<1> QED BY <1>2, <1>4, <1>7, <1>8, <1>9 DEF SamePast

-----------------------------------------------------------------------------
(* Handles and the entities they stand for.                                *)

LEMMA CountIs == Count \in Nat /\ Ids \subseteq Nat /\ \A id \in Ids : id < Count
<1>1. Count \in Nat
    BY BufferAssumption, FS_CardinalityType DEF Count
<1> QED BY <1>1 DEF Ids

LEMMA CommandMentions ==
    ASSUME NEW l \in Local, Listed(l), NEW h \in Handles, NEW j \in Nat
    PROVE  /\ AllocateOf(l, h, j) => Mentions(l, h)
           /\ InstantiateOf(l, h, j) => Mentions(l, h)
           /\ CastOf(l, h, j) => Mentions(l, h)
           /\ SetOf(l, h, j) => Mentions(l, h)
           /\ PatchOf(l, h, j) => Mentions(l, h)
           /\ DestroyOf(l, h, j) => Mentions(l, h)
BY UnmentionedHasNone

\* A local that mentions a handle is alone in it, and every handle has a local.
LEMMA HomeIs ==
    ASSUME StorageInv, NEW L, Rec(L), NEW h \in Handles
    PROVE  /\ \A s \in Slot : Mentions(L[s], h) =>
                 s \in Taken /\ h \in Subjects /\ Alone(L, s, h)
           /\ \A s, r \in Slot : Mentions(L[s], h) /\ Alone(L, r, h) => r = s
           /\ Taken # {} => \E s \in Taken : Alone(L, s, h)
<1>1. ASSUME NEW s \in Slot, Mentions(L[s], h)
      PROVE  s \in Taken /\ h \in Subjects /\ Alone(L, s, h)
    BY <1>1 DEF Rec, Subjects
<1>2. \A s, r \in Slot : Mentions(L[s], h) /\ Alone(L, r, h) => r = s
    BY DEF Alone
<1>3. ASSUME Taken # {} PROVE \E s \in Taken : Alone(L, s, h)
  <2>1. CASE \E s \in Slot : Mentions(L[s], h)
    BY <1>1, <2>1
  <2>2. CASE ~ \E s \in Slot : Mentions(L[s], h)
    BY <1>3, <2>2 DEF Alone
  <2> QED BY <2>1, <2>2
<1> QED BY <1>1, <1>2, <1>3

\* A transient handle of the buffer belongs to one creating command.
LEMMA CreatorIs ==
    ASSUME StorageInv, NEW L, Rec(L), NEW h \in Subjects, h.transient
    PROVE  \E s \in Taken, j \in Nat :
               /\ AllocateOf(L[s], h, j) \/ InstantiateOf(L[s], h, j)
               /\ Alone(L, s, h)
<1>1. PICK s \in Slot, j \in Nat : AllocateOf(L[s], h, j) \/ InstantiateOf(L[s], h, j)
    BY DEF Rec
<1>2. h \in Handles /\ L[s] \in Local /\ Listed(L[s])
    BY DEF Subjects, Rec
<1>3. Mentions(L[s], h)
    BY <1>1, <1>2, CommandMentions
<1> QED BY <1>1, <1>2, <1>3, HomeIs

LEMMA CreatedIs ==
    ASSUME StorageInv, NEW L, Rec(L), ExecType(L), NewsInv(L)
    PROVE  /\ Created \subseteq Subjects /\ Subjects \subseteq Handles
           /\ \A h \in Created : IdOf(h) \in Nat /\ IdOf(h) < Top
           /\ \A g, h \in Created : IdOf(g) = IdOf(h) => g = h
           /\ Order(exec.phase) >= 3 => Created = Subjects
           /\ Top \in Nat /\ Top <= Count + MaxNew /\ Top >= Count
           /\ IsFiniteSet(DOMAIN exec.news)
           /\ Cardinality(DOMAIN exec.news) <= allocates
<1>1. Created \subseteq Subjects /\ Subjects \subseteq Handles
    BY DEF Created, Subjects
<1>2. allocates \in Nat /\ allocates <= MaxNew /\ MaxNew \in Nat
    BY BufferAssumption DEF Rec
<1>3. /\ IsFiniteSet(DOMAIN exec.news) /\ Cardinality(DOMAIN exec.news) \in Nat
      /\ Cardinality(DOMAIN exec.news) <= allocates
  <2>1. DOMAIN exec.news \subseteq 0 .. allocates - 1
    BY DEF NewsInv
  <2>2. IsFiniteSet(0 .. allocates - 1) /\ Cardinality(0 .. allocates - 1) = allocates
    BY <1>2, FS_Interval
  <2> QED BY <2>1, <2>2, FS_Subset, FS_CardinalityType
<1>4. Top \in Nat /\ Top <= Count + MaxNew /\ Top >= Count
    BY <1>2, <1>3, CountIs DEF Top
<1>5. ASSUME NEW h \in Created
      PROVE  /\ IdOf(h) \in Nat /\ IdOf(h) < Top
             /\ ~ h.transient => IdOf(h) = h.id /\ h.id < Count /\ h = Old(h.id)
             /\ h.transient => /\ h.id \in DOMAIN exec.news /\ IdOf(h) = exec.news[h.id]
                               /\ IdOf(h) >= Count /\ h = New(h.id)
  <2>1. h \in Handles
    BY <1>1
  <2>2. CASE ~ h.transient
    <3>1. IdOf(h) = h.id /\ h.id \in Ids /\ h = Old(h.id)
        BY <2>1, <2>2, HandlesAre DEF IdOf
    <3>2. h.id \in Nat /\ h.id < Count
        BY <3>1, CountIs
    <3> QED BY <1>4, <2>2, <3>1, <3>2, CountIs
  <2>3. CASE h.transient
    <3>1. h.id \in DOMAIN exec.news /\ IdOf(h) = exec.news[h.id] /\ h = New(h.id)
        BY <2>1, <2>3, HandlesAre DEF IdOf, Created
    <3> QED BY <2>3, <3>1 DEF NewsInv
  <2> QED BY <2>2, <2>3
<1>6. ASSUME NEW g \in Created, NEW h \in Created, IdOf(g) = IdOf(h) PROVE g = h
  <2>1. CASE g.transient /\ h.transient
    BY <1>5, <1>6, <2>1 DEF NewsInv
  <2>2. CASE ~ g.transient /\ ~ h.transient
    BY <1>5, <1>6, <2>2
  <2>3. CASE g.transient /\ ~ h.transient
    BY <1>5, <1>6, <2>3, CountIs
  <2>4. CASE ~ g.transient /\ h.transient
    BY <1>5, <1>6, <2>4, CountIs
  <2> QED BY <2>1, <2>2, <2>3, <2>4
<1>7. ASSUME Order(exec.phase) >= 3, NEW h \in Subjects PROVE h \in Created
  <2>1. CASE h.transient
    <3>1. PICK s \in Taken, j \in Nat : AllocateOf(L[s], h, j) \/ InstantiateOf(L[s], h, j)
        BY <2>1, CreatorIs
    <3>2. Past(1, s, j) /\ Past(2, s, j)
        BY <1>7, PhaseIs DEF Past
    <3> QED BY <1>1, <3>1, <3>2 DEF NewsInv, Created
  <2>2. CASE ~ h.transient
    BY <2>2 DEF Created
  <2> QED BY <2>1, <2>2
<1> QED BY <1>1, <1>3, <1>4, <1>5, <1>6, <1>7

\* The commands of a resolved local name the ids of the entities.
LEMMA EntityIds ==
    ASSUME StorageInv, NEW L, Carried(L), ExecType(L), Mirrors(L), Order(exec.phase) >= 4,
           NEW s \in Taken, NEW e \in DOMAIN L[s].entities
    PROVE  /\ L[s].entities[e] \in Handles
           /\ local[s].entities[e].id = IdOf(L[s].entities[e])
<1>1. L[s] \in Local
    BY CarriedFields
<1>2. Past(3, s, 1)
    BY PhaseIs DEF Past
<1>3. local[s].entities = [j \in DOMAIN L[s].entities |-> Resolved(L[s].entities[j])]
    BY <1>1, <1>2 DEF Mirrors, ResolvedLocal, Local
<1>4. L[s].entities[e] \in Handles
    BY <1>1, LocalFields
<1>5. Resolved(L[s].entities[e]).id = IdOf(L[s].entities[e])
    BY DEF Resolved, IdOf, Old
<1> QED BY <1>3, <1>4, <1>5

LEMMA LivingIs ==
    ASSUME ColumnInv, NEW x
    PROVE  /\ \A T \in SUBSET Type : Contains(column[T], x) =>
                 Living(x) /\ TypesOf(x) = T /\ x \in Nat /\ x < Top
           /\ Living(x) => TypesOf(x) \in SUBSET Type /\ Contains(column[TypesOf(x)], x)
<1>1. ColumnsOK(column) /\ \A T \in SUBSET Type : \A y \in Nat : Contains(column[T], y) => y < Top
    BY DEF ColumnInv
<1>2. ASSUME NEW T \in SUBSET Type, Contains(column[T], x)
      PROVE  Living(x) /\ TypesOf(x) = T /\ x \in Nat /\ x < Top
  <2>1. x \in Nat
    BY <1>1, <1>2, InColumn
  <2>2. TypesOf(x) = T
    BY <1>1, <1>2, InColumn DEF TypesOf
  <2> QED BY <1>1, <1>2, <2>1, <2>2 DEF Living
<1> QED BY <1>2 DEF Living

-----------------------------------------------------------------------------
(* What the casts make of an entity.                                       *)

LEMMA OriginIs ==
    ASSUME NEW l \in Local, CreatedOnce(l), NEW h \in Handles, NEW b, NEW r, Origin(l, h, b, r)
    PROVE  /\ \A c, q : Origin(l, h, c, q) => c = b /\ q = r
           /\ Ref \notin b => r = Null
<1>1. \A id \in Ids : Ref \notin FirstType[id] => FirstRef[id] = Null
    BY BufferAssumption
<1>2. ASSUME NEW j \in DOMAIN l.instantiates PROVE l.instantiates[j].source \in Ids
  <2>1. l.instantiates \in Seq(InstantiateCommand)
    BY LocalFields
  <2>2. l.instantiates[j] \in InstantiateCommand
    BY ONLY <2>1, j \in DOMAIN l.instantiates
  <2> QED BY <2>2 DEF InstantiateCommand
<1>3. ASSUME NEW c, NEW q, Origin(l, h, c, q) PROVE c = b /\ q = r
    BY <1>3 DEF Origin, CreatedOnce
<1>4. ASSUME Ref \notin b PROVE r = Null
  <2>1. CASE ~ h.transient /\ b = FirstType[h.id] /\ r = FirstRef[h.id]
    BY <1>1, <1>4, <2>1, HandlesAre
  <2>2. CASE \E j \in Nat : AllocateOf(l, h, j) /\ b = l.allocates[j].types /\ r = Null
    BY <2>2
  <2>3. CASE \E j \in Nat : /\ InstantiateOf(l, h, j)
                            /\ b = FirstType[l.instantiates[j].source]
                            /\ r = FirstRef[l.instantiates[j].source]
    BY <1>1, <1>2, <1>4, <2>3 DEF InstantiateOf
  <2> QED BY <2>1, <2>2, <2>3 DEF Origin
<1> QED BY <1>3, <1>4

LEMMA TypesAfterSame ==
    ASSUME NEW l, NEW h, NEW b, NEW A, NEW B,
           \A j : CastOf(l, h, j) => (j \in A <=> j \in B)
    PROVE  TypesAfter(l, h, b, A) = TypesAfter(l, h, b, B)
<1>1. ASSUME NEW x
      PROVE  /\ (\E j \in A : CastOf(l, h, j) /\ x \in l.casts[j].extend)
                <=> (\E j \in B : CastOf(l, h, j) /\ x \in l.casts[j].extend)
             /\ (\A j \in A : CastOf(l, h, j) => x \notin l.casts[j].shrink)
                <=> (\A j \in B : CastOf(l, h, j) => x \notin l.casts[j].shrink)
    OBVIOUS
<1> QED BY <1>1, Zenon DEF TypesAfter

LEMMA TypesAfterNone ==
    ASSUME NEW l, NEW h, NEW b \in SUBSET Type
    PROVE  TypesAfter(l, h, b, {}) = b
BY DEF TypesAfter

\* One more cast, after those of A, or once more the last of them.
LEMMA CastApplies ==
    ASSUME NEW l, NEW h, NEW b, NEW A \in SUBSET Nat, NEW m \in Nat, CastOf(l, h, m),
           \A j \in A : CastOf(l, h, j) => j <= m,
           \A j, k \in Nat : CastOf(l, h, j) /\ CastOf(l, h, k) /\ j < k
               => l.casts[k].extend \cap l.casts[j].shrink = {},
           l.casts[m].extend \subseteq Type
    PROVE  (TypesAfter(l, h, b, A) \cup l.casts[m].extend) \ l.casts[m].shrink
               = TypesAfter(l, h, b, A \cup {m})
<1>1. ASSUME NEW x \in l.casts[m].extend, x \notin l.casts[m].shrink,
             NEW j \in A, CastOf(l, h, j)
      PROVE  x \notin l.casts[j].shrink
  <2>1. j = m \/ j < m
    BY <1>1
  <2> QED BY <1>1, <2>1
<1>2. ASSUME NEW x
      PROVE  x \in TypesAfter(l, h, b, A \cup {m}) <=>
                 /\ x \in Type
                 /\ x \in b \/ x \in l.casts[m].extend
                        \/ \E j \in A : CastOf(l, h, j) /\ x \in l.casts[j].extend
                 /\ x \notin l.casts[m].shrink
                 /\ \A j \in A : CastOf(l, h, j) => x \notin l.casts[j].shrink
    BY DEF TypesAfter
<1>3. ASSUME NEW x
      PROVE  x \in TypesAfter(l, h, b, A) <=>
                 /\ x \in Type
                 /\ x \in b \/ \E j \in A : CastOf(l, h, j) /\ x \in l.casts[j].extend
                 /\ \A j \in A : CastOf(l, h, j) => x \notin l.casts[j].shrink
    BY DEF TypesAfter
<1> DEFINE new == TypesAfter(l, h, b, A \cup {m})
           old == TypesAfter(l, h, b, A)
<1>4. ASSUME NEW x \in (old \cup l.casts[m].extend) \ l.casts[m].shrink PROVE x \in new
    BY <1>1, <1>2, <1>3
<1>5. ASSUME NEW x \in new PROVE x \in (old \cup l.casts[m].extend) \ l.casts[m].shrink
    BY <1>2, <1>3
<1> QED BY <1>4, <1>5

-----------------------------------------------------------------------------
(* What a step leaves as it was.                                           *)

LEMMA OrderIsNat == \A p : Order(p) \in Nat
BY DEF Order

LEMMA SameTurns ==
    ASSUME StorageInv, NEW L, Carried(L), SamePast(L), NEW s \in Taken
    PROVE  /\ \A j \in DOMAIN L[s].allocates : Past(1, s, j)' <=> Past(1, s, j)
           /\ \A j \in DOMAIN L[s].instantiates : Past(2, s, j)' <=> Past(2, s, j)
           /\ Past(3, s, 1)' <=> Past(3, s, 1)
           /\ \A j \in DOMAIN L[s].casts : Past(4, s, j)' <=> Past(4, s, j)
           /\ Past(5, s, 1)' <=> Past(5, s, 1)
           /\ \A j \in DOMAIN L[s].destroies : Past(6, s, j)' <=> Past(6, s, j)
<1>1. L[s] \in Local
    BY CarriedFields
<1>2. /\ DOMAIN L[s].allocates = 1 .. Len(L[s].allocates)
      /\ DOMAIN L[s].instantiates = 1 .. Len(L[s].instantiates)
      /\ DOMAIN L[s].casts = 1 .. Len(L[s].casts)
      /\ DOMAIN L[s].destroies = 1 .. Len(L[s].destroies)
    BY <1>1, LocalFields
<1>3. /\ Work(Phases[1], L[s]) = Len(L[s].allocates)
      /\ Work(Phases[2], L[s]) = Len(L[s].instantiates)
      /\ Work(Phases[3], L[s]) = 1
      /\ Work(Phases[4], L[s]) = Len(L[s].casts)
      /\ Work(Phases[5], L[s]) = 1
      /\ Work(Phases[6], L[s]) = Len(L[s].destroies)
    BY <1>1, WorkIs, OrderIs
<1>4. \A q \in 1 .. 6, j \in Nat :
          1 <= j /\ j <= Work(Phases[q], L[s]) => (Past(q, s, j)' <=> Past(q, s, j))
    BY DEF SamePast
<1>5. Past(3, s, 1)' <=> Past(3, s, 1)
    BY <1>3, <1>4
<1>6. Past(5, s, 1)' <=> Past(5, s, 1)
    BY <1>3, <1>4
<1>7. \A j \in DOMAIN L[s].allocates : Past(1, s, j)' <=> Past(1, s, j)
    BY <1>2, <1>3, <1>4
<1>8. \A j \in DOMAIN L[s].instantiates : Past(2, s, j)' <=> Past(2, s, j)
    BY <1>2, <1>3, <1>4
<1>9. \A j \in DOMAIN L[s].casts : Past(4, s, j)' <=> Past(4, s, j)
    BY <1>2, <1>3, <1>4
<1>10. \A j \in DOMAIN L[s].destroies : Past(6, s, j)' <=> Past(6, s, j)
    BY <1>2, <1>3, <1>4
<1> QED BY <1>5, <1>6, <1>7, <1>8, <1>9, <1>10

LEMMA AppliedKept ==
    ASSUME NEW l, NEW s, \A j \in DOMAIN l.casts : Past(4, s, j)' <=> Past(4, s, j),
           exec.phase = "cast" /\ exec.i = s => exec.k \notin DOMAIN l.casts
    PROVE  \A A \in Applied(l, s) : A \in Applied(l, s)'
<1>1. PastCasts(l, s)' = PastCasts(l, s)
    BY DEF PastCasts
<1>2. \A A \in Applied(l, s) : A = PastCasts(l, s)
    BY DEF Applied
<1>3. PastCasts(l, s)' \in Applied(l, s)'
    BY DEF Applied
<1> QED BY <1>1, <1>2, <1>3

LEMMA TypeKept ==
    ASSUME NEW l, NEW s, NEW h, NEW b, NEW r, TypeIs(l, s, h, b, r),
           said' = said, IdOf(h)' = IdOf(h),
           Order(exec'.phase) < 4 => Order(exec.phase) < 4,
           \A T \in SUBSET Type : Contains(column'[T], IdOf(h)) => Contains(column[T], IdOf(h)),
           Past(5, s, 1) => Past(5, s, 1)',
           ref'[IdOf(h)] = ref[IdOf(h)] \/ Past(5, s, 1)',
           \A A \in Applied(l, s) :
               \E B \in Applied(l, s)' : TypesAfter(l, h, b, B) = TypesAfter(l, h, b, A)
    PROVE  TypeIs(l, s, h, b, r)'
<1>1. SUFFICES ASSUME ~ said[h].undone \/ Order(exec'.phase) < 4
      PROVE  \E B \in Applied(l, s)' :
                \A T \in SUBSET Type : Contains(column'[T], IdOf(h)) =>
                    /\ T = TypesAfter(l, h, b, B)
                    /\ ~ Past(5, s, 1)' => ref'[IdOf(h)] = IF Ref \in T THEN r ELSE Null
    BY DEF TypeIs
<1>2. PICK A \in Applied(l, s) : \A T \in SUBSET Type : Contains(column[T], IdOf(h)) =>
            /\ T = TypesAfter(l, h, b, A)
            /\ ~ Past(5, s, 1) => ref[IdOf(h)] = IF Ref \in T THEN r ELSE Null
    BY <1>1 DEF TypeIs
<1>3. PICK B \in Applied(l, s)' : TypesAfter(l, h, b, B) = TypesAfter(l, h, b, A)
    OBVIOUS
<1> QED BY <1>2, <1>3

LEMMA RefKept ==
    ASSUME NEW s, NEW h, RefIs(s, h), said' = said, IdOf(h)' = IdOf(h),
           \/ ~ Past(5, s, 1)'
           \/ Past(5, s, 1) /\ exec'.news = exec.news /\ ref'[IdOf(h)] = ref[IdOf(h)]
    PROVE  RefIs(s, h)'
BY DEF RefIs, Final, Resolved, Old

\* On to the next visit: everything is as it was.
LEMMA NextLocalKeeps ==
    ASSUME StorageInv, NEW L, Carried(L), ExecInv(L), NextLocal
    PROVE  ExecInv(L)'
<1>1. /\ ExecType(L) /\ Mirrors(L) /\ NewsInv(L) /\ ColumnInv /\ LivingInv(L) /\ DataInv(L)
    BY DEF ExecInv
<1>2. /\ SamePast(L) /\ ExecType(L)' /\ exec'.news = exec.news
      /\ UNCHANGED <<storageVars, local, allocates, said, column, ref>>
      /\ Taken' = Taken /\ Order(exec'.phase) >= Order(exec.phase)
    BY <1>1, NextPast
<1>3. Order(exec.phase) \in Nat /\ Order(exec'.phase) \in Nat
    BY OrderIsNat
<1>4. Top' = Top /\ Subjects' = Subjects /\ Created' = Created /\ \A h : IdOf(h)' = IdOf(h)
    BY <1>2 DEF Top, Subjects, Created, IdOf
<1>5. \A s \in Taken : \A j \in Nat :
          /\ j \in DOMAIN L[s].allocates => (Past(1, s, j)' <=> Past(1, s, j))
          /\ j \in DOMAIN L[s].instantiates => (Past(2, s, j)' <=> Past(2, s, j))
          /\ j \in DOMAIN L[s].casts => (Past(4, s, j)' <=> Past(4, s, j))
          /\ j \in DOMAIN L[s].destroies => (Past(6, s, j)' <=> Past(6, s, j))
          /\ Past(3, s, 1)' <=> Past(3, s, 1)
          /\ Past(5, s, 1)' <=> Past(5, s, 1)
    BY <1>2, SameTurns
<1>6. Mirrors(L)'
    BY <1>1, <1>2, <1>5 DEF Mirrors, ResolvedLocal, Resolved
<1>7. NewsInv(L)'
  <2>1. \A s \in Taken, h \in Handles, j \in Nat :
          /\ AllocateOf(L[s], h, j) => (h.id \in DOMAIN exec.news <=> Past(1, s, j)')
          /\ InstantiateOf(L[s], h, j) => (h.id \in DOMAIN exec.news <=> Past(2, s, j)')
    BY <1>1, <1>5 DEF NewsInv, AllocateOf, InstantiateOf
  <2> QED BY <1>1, <1>2, <1>4, <2>1 DEF NewsInv
<1>8. ColumnInv'
    BY <1>1, <1>2, <1>4 DEF ColumnInv
<1>9. LivingInv(L)'
  <2>1. \A x : Living(x)' <=> Living(x)
    BY <1>2 DEF Living
  <2>2. \A s \in Taken : \A j \in DOMAIN L[s].destroies :
            Past(6, s, j)' <=> Past(6, s, j)
    BY <1>2, SameTurns
  <2>3. \A h \in Created : Living(IdOf(h)) \/ (Order(exec'.phase) >= 6 /\ said[h].destroyed)
    BY <1>1, <1>2, <1>3 DEF LivingInv
  <2> QED BY <1>1, <1>2, <1>4, <2>1, <2>2, <2>3 DEF LivingInv
<1>10. ASSUME NEW s \in Taken, NEW h \in Created, Alone(L, s, h)
       PROVE  /\ \A b \in SUBSET Type, r \in Refs :
                    Origin(L[s], h, b, r) => TypeIs(L[s], s, h, b, r)'
              /\ RefIs(s, h)'
  <2>1. exec.phase = "cast" /\ exec.i = s => exec.k \notin DOMAIN L[s].casts
    <3>1. ASSUME exec.phase = "cast", exec.i = s PROVE exec.k \notin DOMAIN L[s].casts
        <4>1. Turns = Len(L[s].casts) /\ DOMAIN L[s].casts = 1 .. Len(L[s].casts)
            <5>1. /\ L[s] \in Local /\ Turns = Work("cast", local[s])
                  /\ Work("cast", local[s]) = Work("cast", L[s])
                BY <3>1, CarriedFields DEF Turns, Now
            <5>2. Work("cast", L[s]) = Len(L[s].casts)
                BY <5>1, WorkIs
            <5>3. DOMAIN L[s].casts = 1 .. Len(L[s].casts)
                BY <5>1, LocalFields
            <5> QED BY <5>1, <5>2, <5>3
        <4>2. exec.k > Turns
            BY DEF NextLocal
        <4>3. exec.k \in Int /\ Len(L[s].casts) \in Int
            BY <1>1, <3>1, CarriedFields, LocalFields DEF ExecType
        <4> QED BY <4>1, <4>2, <4>3
    <3> QED BY <3>1
  <2>2. \A A \in Applied(L[s], s) : A \in Applied(L[s], s)'
    BY <1>2, <2>1, SameTurns, AppliedKept
  <2>3. ASSUME NEW b \in SUBSET Type, NEW r \in Refs, Origin(L[s], h, b, r)
        PROVE  TypeIs(L[s], s, h, b, r)'
    <3>1. TypeIs(L[s], s, h, b, r)
        BY <1>1, <1>10, <2>3 DEF DataInv
    <3> QED BY <1>2, <1>3, <1>4, <1>5, <2>2, <3>1, TypeKept
  <2>4. RefIs(s, h)
    BY <1>1, <1>10 DEF DataInv
  <2>5. RefIs(s, h)'
    BY <1>2, <1>4, <1>5, <2>4, RefKept
  <2> QED BY <2>3, <2>5
<1>11. DataInv(L)'
  <2>1. DOMAIN ref = 0 .. Count + MaxNew - 1
    BY <1>1 DEF DataInv
  <2> QED BY <1>2, <1>4, <1>10, <2>1 DEF DataInv, Alone
<1> QED BY <1>2, <1>6, <1>7, <1>8, <1>9, <1>11 DEF ExecInv

-----------------------------------------------------------------------------
(* execute begins.                                                         *)

LEMMA FirstColumns ==
    /\ ColumnsOK(FirstColumn)
    /\ \A T \in SUBSET Type : \A x :
          Contains(FirstColumn[T], x) <=> x \in Ids /\ FirstType[x] = T
<1>1. /\ FirstColumn \in [SUBSET Type -> Seq(Ids)]
      /\ \A types \in SUBSET Type :
            /\ Range(FirstColumn[types]) = {id \in Ids : FirstType[id] = types}
            /\ IsInjective(FirstColumn[types])
    BY BufferAssumption
<1>2. ASSUME NEW T \in SUBSET Type
      PROVE  /\ FirstColumn[T] \in Seq(Nat) /\ OnceEach(FirstColumn[T])
             /\ \A x : Contains(FirstColumn[T], x) <=> x \in Ids /\ FirstType[x] = T
  <2>1. FirstColumn[T] \in Seq(Ids)
    BY <1>1
  <2>2. FirstColumn[T] \in Seq(Nat)
    <3>1. /\ FirstColumn[T] \in [1 .. Len(FirstColumn[T]) -> Ids]
          /\ Len(FirstColumn[T]) \in Nat
        BY <2>1
    <3>2. FirstColumn[T] \in [1 .. Len(FirstColumn[T]) -> Nat]
        BY ONLY <3>1, CountIs
    <3> QED BY <3>1, <3>2, SeqDef
  <2>3. Range(FirstColumn[T]) = {FirstColumn[T][j] : j \in DOMAIN FirstColumn[T]}
    BY DEF Range
  <2>4. \A x : Contains(FirstColumn[T], x) <=> x \in Range(FirstColumn[T])
    BY <2>2, <2>3, InSequence
  <2>5. \A x : x \in Range(FirstColumn[T]) <=> x \in Ids /\ FirstType[x] = T
    BY <1>1
  <2>6. OnceEach(FirstColumn[T])
    BY <1>1 DEF OnceEach, IsInjective
  <2> QED BY <2>2, <2>4, <2>5, <2>6
<1>3. FirstColumn \in [SUBSET Type -> Seq(Nat)]
    BY <1>1, <1>2
<1>4. ASSUME NEW T \in SUBSET Type, NEW U \in SUBSET Type, NEW x,
             Contains(FirstColumn[T], x), Contains(FirstColumn[U], x)
      PROVE  T = U
  <2>1. FirstType[x] = T
    BY <1>2, <1>4
  <2>2. FirstType[x] = U
    BY <1>2, <1>4
  <2> QED BY <2>1, <2>2
<1> QED BY <1>2, <1>3, <1>4, ColumnsAre

LEMMA ExecuteBeginKeeps ==
    ASSUME StorageInv, NEW L, L = local, Rec(local), Start, ExecuteBegin
    PROVE  Carried(L)' /\ ExecInv(L)'
<1>1. /\ Rec(L) /\ L \in [Slot -> Local]
      /\ exec = [phase |-> exec.phase, i |-> exec.i, k |-> exec.k, news |-> exec.news]
      /\ exec.news = <<>> /\ exec.phase = "record"
      /\ column = FirstColumn
      /\ ref = [id \in 0 .. Count + MaxNew - 1 |-> IF id \in Ids THEN FirstRef[id] ELSE Null]
    BY DEF Start, Rec
<1>2. Carried(L)
  <2>1. ASSUME NEW s \in Taken PROVE L[s] = [L[s] EXCEPT !.entities = L[s].entities]
    <3>1. L[s] \in Local
        BY <1>1, TakenIs
    <3> QED BY <3>1 DEF Local
  <2> QED BY <1>1, <2>1 DEF Carried
<1>3. Visits # {} /\ Enter(Visits) /\ Taken # {}
    BY <1>2, VisitsAre DEF ExecuteBegin
<1>4. /\ ExecType(L)' /\ Carried(L)' /\ exec'.news = exec.news
      /\ UNCHANGED <<storageVars, local, allocates, said, column, ref>>
      /\ Taken' = Taken
    BY <1>1, <1>2, <1>3, Entered
<1>5. SamePast(L) /\ \A q \in 1 .. 6, s \in Nat, j \in Nat : ~ Past(q, s, j)
    BY <1>1, <1>2, <1>3, BeginPast
<1>6. \A s \in Taken : \A j \in Nat :
          /\ j \in DOMAIN L[s].allocates => ~ Past(1, s, j)'
          /\ j \in DOMAIN L[s].instantiates => ~ Past(2, s, j)'
          /\ j \in DOMAIN L[s].casts => ~ Past(4, s, j)'
          /\ j \in DOMAIN L[s].destroies => ~ Past(6, s, j)'
          /\ ~ Past(3, s, 1)' /\ ~ Past(5, s, 1)'
    BY <1>2, <1>5, SameTurns, TakenIs
<1>7. exec'.news = <<>> /\ DOMAIN exec'.news = {} /\ Top' = Count
    BY <1>1, <1>4, FS_EmptySet, CountIs DEF Top
<1>8. Subjects' = Subjects /\ Created' = {h \in Subjects : ~ h.transient}
  <2>1. \A h \in Subjects : h.transient \in BOOLEAN
    BY HandlesAre DEF Subjects
  <2> QED BY <1>4, <1>7, <2>1 DEF Created, Subjects
<1>9. ASSUME NEW h \in Created'
      PROVE  /\ h \in Subjects /\ h \in Handles /\ ~ h.transient
             /\ h.id \in Ids /\ h.id \in Nat /\ h.id < Count /\ IdOf(h)' = h.id
    BY <1>8, HandlesAre, CountIs DEF Subjects, IdOf
<1>10. Mirrors(L)'
    BY <1>4, <1>6 DEF Mirrors
<1>11. NewsInv(L)'
    BY <1>4, <1>6, <1>7 DEF NewsInv, AllocateOf, InstantiateOf
<1>12. ColumnInv'
  <2>1. \A T \in SUBSET Type : \A x \in Nat : Contains(FirstColumn[T], x) => x < Count
    BY FirstColumns, CountIs
  <2> QED BY <1>1, <1>4, <1>7, <2>1, FirstColumns DEF ColumnInv
<1>13. LivingInv(L)'
  <2>1. ASSUME NEW h \in Created' PROVE Living(IdOf(h))'
    <3>1. FirstType[h.id] \in SUBSET Type
        BY <1>9, BufferAssumption
    <3>2. Contains(FirstColumn[FirstType[h.id]], h.id)
        BY <1>9, <3>1, FirstColumns
    <3> QED BY <1>1, <1>4, <1>9, <3>1, <3>2 DEF Living
  <2>2. ASSUME NEW s \in Taken', NEW j \in DOMAIN L[s].destroies PROVE ~ Past(6, s, j)'
    <3>1. j \in Nat
        BY <1>4, <1>2, CarriedFields, LocalFields
    <3> QED BY <1>4, <1>6, <3>1
  <2> QED BY <2>1, <2>2 DEF LivingInv
<1>14. DataInv(L)'
  <2>1. DOMAIN ref' = 0 .. Count + MaxNew - 1
    BY <1>1, <1>4
  <2>2. ASSUME NEW s \in Taken, NEW h \in Created'
        PROVE  /\ \A b \in SUBSET Type, r \in Refs :
                     Origin(L[s], h, b, r) => TypeIs(L[s], s, h, b, r)'
               /\ RefIs(s, h)'
    <3>1. RefIs(s, h)'
        BY <1>6 DEF RefIs
    <3>2. L[s] \in Local /\ CreatedOnce(L[s])
        BY <1>2, CarriedFields
    <3>3. PastCasts(L[s], s)' = {}
        <4>1. DOMAIN L[s].casts \subseteq Nat
            BY <3>2, LocalFields
        <4> QED BY <1>6, <4>1 DEF PastCasts
    <3>4. {} \in Applied(L[s], s)'
        BY <3>3 DEF Applied
    <3>5. ASSUME NEW b \in SUBSET Type, NEW r \in Refs, Origin(L[s], h, b, r)
          PROVE  TypeIs(L[s], s, h, b, r)'
        <4>1. b = FirstType[h.id] /\ r = FirstRef[h.id] /\ (Ref \notin b => r = Null)
            <5>1. Origin(L[s], h, FirstType[h.id], FirstRef[h.id])
                BY <1>9 DEF Origin
            <5> QED BY <1>9, <3>2, <3>5, <5>1, OriginIs
        <4>2. ref'[h.id] = r
            <5>1. h.id \in 0 .. Count + MaxNew - 1
                BY <1>9, CountIs, BufferAssumption
            <5> QED BY <1>1, <1>4, <1>9, <4>1, <5>1
        <4>3. \A T \in SUBSET Type : Contains(column'[T], h.id) => T = b
            BY <1>1, <1>4, <1>9, <4>1, FirstColumns
        <4>4. TypesAfter(L[s], h, b, {}) = b
            BY TypesAfterNone
        <4> QED BY <1>9, <3>4, <4>1, <4>2, <4>3, <4>4 DEF TypeIs
    <3> QED BY <3>1, <3>5
  <2> QED BY <1>4, <2>1, <2>2 DEF DataInv
<1> QED BY <1>4, <1>10, <1>11, <1>12, <1>13, <1>14 DEF ExecInv

-----------------------------------------------------------------------------
(* Creating entities.                                                      *)

LEMMA TurnIs ==
    ASSUME StorageInv, NEW L, Carried(L), ExecType(L), NEW p, Turn(p), p # "done"
    PROVE  /\ exec.phase = p /\ exec.i \in Taken /\ exec.i \in Nat
           /\ exec.k \in Nat /\ exec.k >= 1
           /\ Turns = Work(p, L[exec.i]) /\ Turns \in Nat /\ exec.k <= Turns
<1>1. exec.phase = p /\ exec.k <= Turns
    BY DEF Turn
<1>2. exec.i \in Taken /\ exec.i \in Nat /\ exec.k \in Nat /\ exec.k >= 1
    BY <1>1, TakenIs DEF ExecType
<1>3. Turns = Work(p, L[exec.i]) /\ Turns \in Nat
    BY <1>1, <1>2, CarriedFields DEF Turns, Now
<1> QED BY <1>1, <1>2, <1>3

LEMMA OneMore ==
    ASSUME NEW f, IsFiniteSet(DOMAIN f), NEW n, n \notin DOMAIN f, NEW v,
           NEW g, g = [m \in DOMAIN f \cup {n} |-> IF m = n THEN v ELSE f[m]]
    PROVE  /\ DOMAIN g = DOMAIN f \cup {n} /\ g[n] = v
           /\ \A m \in DOMAIN f : g[m] = f[m]
           /\ Cardinality(DOMAIN g) = Cardinality(DOMAIN f) + 1
           /\ Cardinality(DOMAIN f) \in Nat
<1>1. /\ DOMAIN g = DOMAIN f \cup {n} /\ g[n] = v
      /\ \A m \in DOMAIN f : g[m] = f[m]
    OBVIOUS
<1> QED BY <1>1, FS_AddElement, FS_CardinalityType

LEMMA AtMost ==
    ASSUME NEW n \in Nat, NEW S \in SUBSET (0 .. n - 1)
    PROVE  IsFiniteSet(S) /\ Cardinality(S) \in Nat /\ Cardinality(S) <= n
<1>1. IsFiniteSet(0 .. n - 1) /\ Cardinality(0 .. n - 1) = n
    BY FS_Interval
<1> QED BY <1>1, FS_Subset, FS_CardinalityType

LEMMA AtTheEnd ==
    ASSUME ColumnInv, Top \in Nat, NEW T \in SUBSET Type,
           NEW col2, col2 = [column EXCEPT ![T] = Append(@, Top)]
    PROVE  /\ ColumnsOK(col2)
           /\ \A U \in SUBSET Type : \A x :
                 Contains(col2[U], x) <=> Contains(column[U], x) \/ (U = T /\ x = Top)
<1> DEFINE s == <<Top>>
<1>1. ColumnsOK(column) /\ column \in [SUBSET Type -> Seq(Nat)]
    BY DEF ColumnInv, ColumnsOK
<1>2. s \in Seq(Nat) /\ OnceEach(s) /\ \A x : Contains(s, x) <=> x = Top
  <2>1. s \in Seq(Nat) /\ DOMAIN s = {1} /\ s[1] = Top
    OBVIOUS
  <2> QED BY <2>1 DEF OnceEach, Contains
<1>3. ASSUME NEW U \in SUBSET Type, Contains(column[U], Top) PROVE FALSE
  <2>1. Top < Top
    BY <1>3 DEF ColumnInv
  <2> QED BY <2>1
<1>4. col2 = [column EXCEPT ![T] = @ \o s]
  <2>1. column[T] \in Seq(Nat)
    BY <1>1
  <2>2. Append(column[T], Top) = column[T] \o s
    BY <2>1, AppendIsConcat
  <2> QED BY <2>2
<1> HIDE DEF s
<1>5. Elsewhere(s, column)
    BY <1>2, <1>3 DEF Elsewhere
<1>6. ColumnsOK(col2) /\ Gets(col2, column, T, s)
    BY <1>1, <1>2, <1>4, <1>5, ColumnGets
<1> QED BY <1>2, <1>6 DEF Gets

LEMMA CreateKeeps ==
    ASSUME StorageInv, NEW L, Carried(L), ExecInv(L), NEW p, Turn(p),
           NEW e, NEW h \in Handles, NEW b \in SUBSET Type, NEW r \in Refs,
           e \in DOMAIN L[exec.i].entities, L[exec.i].entities[e] = h,
           Origin(L[exec.i], h, b, r),
           \/ p = "allocate" /\ AllocateOf(L[exec.i], h, exec.k)
           \/ p = "instantiate" /\ InstantiateOf(L[exec.i], h, exec.k),
           Create(e, b, r)
    PROVE  Carried(L)' /\ ExecInv(L)'
<1> DEFINE i == exec.i
           k == exec.k
           q == Order(exec.phase)
<1>1. /\ ExecType(L) /\ Mirrors(L) /\ NewsInv(L) /\ ColumnInv /\ LivingInv(L) /\ DataInv(L)
      /\ Rec(L)
    BY DEF ExecInv, Carried
<1>2. /\ exec.phase = p /\ i \in Taken /\ i \in Nat /\ i \in Slot /\ k \in Nat /\ k >= 1
      /\ k <= Work(p, L[i])
      /\ L[i] \in Local /\ Listed(L[i]) /\ CreatedOnce(L[i])
    BY <1>1, TurnIs, CarriedFields
<1>3. /\ q \in {1, 2} /\ (p = "allocate" <=> q = 1) /\ (p = "instantiate" <=> q = 2)
      /\ ~ Past(q, i, k) /\ \A m \in 3 .. 6, s, j \in Nat : ~ Past(m, s, j)
    BY <1>1, <1>2, PhaseIs DEF Past
<1>4. /\ h \in Subjects /\ h.transient /\ h.id \in Nat /\ h.id < allocates
      /\ \A s \in Slot : Mentions(L[s], h) => s = i
      /\ \A s \in Slot : Alone(L, s, h) => s = i
  <2>1. Mentions(L[i], h)
    BY <1>2, CommandMentions
  <2>2. h \in Subjects /\ Alone(L, i, h)
    BY <1>1, <1>2, <2>1, HomeIs
  <2>3. h.transient
    BY <1>2 DEF CreatedOnce
  <2>4. h.id \in Nat
    BY <2>3, HandlesAre, BufferAssumption
  <2> QED BY <1>1, <1>2, <2>1, <2>2, <2>3, <2>4, HomeIs DEF Subjects
<1>5. h.id \notin DOMAIN exec.news
    BY <1>1, <1>2, <1>3 DEF NewsInv
<1>6. Now.entities[e] = h
    BY <1>1, <1>2, <1>3 DEF Mirrors, Now
<1> DEFINE news2 == [n \in DOMAIN exec.news \cup {h.id} |->
                         IF n = h.id THEN Top ELSE exec.news[n]]
<1>7. /\ column' = [column EXCEPT ![b] = Append(@, Top)]
      /\ ref' = [ref EXCEPT ![Top] = r]
      /\ exec' = [exec EXCEPT !.k = @ + 1, !.news = news2]
      /\ UNCHANGED <<storageVars, allocates, commands, said, local>>
  <2>1. exec = [phase |-> exec.phase, i |-> exec.i, k |-> exec.k, news |-> exec.news]
    BY <1>1 DEF ExecType
  <2> QED BY <1>6, <2>1 DEF Create, Unchanged, Top
<1>8. Taken' = Taken /\ Subjects' = Subjects /\ said' = said /\ local' = local
      /\ allocates' = allocates
    BY <1>7 DEF Taken, storageVars, Subjects
<1>9. Carried(L)'
    BY <1>7, CarriedStays
<1>10. /\ ExecType(L)' /\ exec'.phase = exec.phase /\ exec'.news = news2
       /\ \A m, s, j \in Nat : Past(m, s, j)' <=> Past(m, s, j) \/ (m = q /\ s = i /\ j = k)
    BY <1>1, <1>2, <1>3, <1>7, <1>8, PastTurn
<1>11. /\ Created \subseteq Subjects /\ Subjects \subseteq Handles
       /\ \A g \in Created : IdOf(g) \in Nat /\ IdOf(g) < Top
       /\ Top \in Nat /\ Top >= Count /\ IsFiniteSet(DOMAIN exec.news)
    BY <1>1, CreatedIs
<1>12. /\ DOMAIN news2 = DOMAIN exec.news \cup {h.id} /\ news2[h.id] = Top
       /\ \A m \in DOMAIN exec.news : news2[m] = exec.news[m]
       /\ Cardinality(DOMAIN news2) = Cardinality(DOMAIN exec.news) + 1
       /\ Cardinality(DOMAIN exec.news) \in Nat
    BY <1>5, <1>11, OneMore, ZenonT(40)
<1> HIDE DEF news2
<1>13. Top' = Top + 1
    BY <1>10, <1>12, CountIs DEF Top
<1>14. DOMAIN news2 \subseteq 0 .. allocates - 1
  <2>1. DOMAIN exec.news \subseteq 0 .. allocates - 1 /\ allocates \in Nat
    BY <1>1, BufferAssumption DEF NewsInv, Rec
  <2> QED BY <1>4, <1>12, <2>1
<1>15. Top < Count + MaxNew
  <2>1. allocates \in Nat /\ allocates <= MaxNew /\ MaxNew \in Nat
    BY <1>1, BufferAssumption DEF Rec
  <2>3. Cardinality(DOMAIN news2) <= allocates
    BY <1>14, <2>1, AtMost
  <2> QED BY <1>12, <2>1, <2>3, CountIs DEF Top
<1>16. Mirrors(L)'
    BY <1>1, <1>3, <1>8, <1>10, TakenIs DEF Mirrors
<1>17. NewsInv(L)'
  <2>1. ASSUME NEW s \in Taken, NEW g \in Handles, NEW j \in Nat, AllocateOf(L[s], g, j)
        PROVE  g.id \in DOMAIN news2 <=> Past(1, s, j)'
    <3>1. /\ L[s] \in Local /\ Listed(L[s]) /\ CreatedOnce(L[s]) /\ s \in Slot /\ s \in Nat
        BY CarriedFields, TakenIs
    <3>2. g.transient /\ Mentions(L[s], g) /\ (g.id = h.id <=> g = h)
        BY <1>4, <2>1, <3>1, CommandMentions, HandlesAre DEF CreatedOnce
    <3>3. g.id \in DOMAIN exec.news <=> Past(1, s, j)
        BY <1>1, <2>1 DEF NewsInv
    <3>4. CASE g = h
        <4>1. s = i
            BY <1>4, <3>1, <3>2, <3>4
        <4>2. q = 1 /\ j = k
            BY <1>2, <1>3, <2>1, <3>4, <4>1 DEF CreatedOnce
        <4> QED BY <1>10, <1>12, <3>1, <3>4, <4>1, <4>2
    <3>5. CASE g # h
        <4>1. ~ (q = 1 /\ s = i /\ j = k)
            BY <1>3, <2>1, <3>5 DEF AllocateOf
        <4> QED BY <1>10, <1>12, <3>1, <3>2, <3>3, <3>5, <4>1
    <3> QED BY <3>4, <3>5
  <2>2. ASSUME NEW s \in Taken, NEW g \in Handles, NEW j \in Nat, InstantiateOf(L[s], g, j)
        PROVE  g.id \in DOMAIN news2 <=> Past(2, s, j)'
    <3>1. /\ L[s] \in Local /\ Listed(L[s]) /\ CreatedOnce(L[s]) /\ s \in Slot /\ s \in Nat
        BY CarriedFields, TakenIs
    <3>2. g.transient /\ Mentions(L[s], g) /\ (g.id = h.id <=> g = h)
        BY <1>4, <2>2, <3>1, CommandMentions, HandlesAre DEF CreatedOnce
    <3>3. g.id \in DOMAIN exec.news <=> Past(2, s, j)
        BY <1>1, <2>2 DEF NewsInv
    <3>4. CASE g = h
        <4>1. s = i
            BY <1>4, <3>1, <3>2, <3>4
        <4>2. q = 2 /\ j = k
            BY <1>2, <1>3, <2>2, <3>4, <4>1 DEF CreatedOnce
        <4> QED BY <1>10, <1>12, <3>1, <3>4, <4>1, <4>2
    <3>5. CASE g # h
        <4>1. ~ (q = 2 /\ s = i /\ j = k)
            BY <1>3, <2>2, <3>5 DEF InstantiateOf
        <4> QED BY <1>10, <1>12, <3>1, <3>2, <3>3, <3>5, <4>1
    <3> QED BY <3>4, <3>5
  <2>3. \A n \in DOMAIN exec.news : exec.news[n] \in Nat /\ exec.news[n] >= Count
                                    /\ exec.news[n] < Top
    BY <1>1 DEF NewsInv
  <2>4. \A n \in DOMAIN news2 : news2[n] \in Nat /\ news2[n] >= Count /\ news2[n] < Top'
    BY <1>11, <1>12, <1>13, <2>3
  <2>5. \A n, m \in DOMAIN news2 : news2[n] = news2[m] => n = m
    BY <1>1, <1>11, <1>12, <2>3 DEF NewsInv
  <2> QED BY <1>8, <1>10, <1>14, <2>1, <2>2, <2>4, <2>5 DEF NewsInv
<1>18. /\ ColumnsOK(column')
       /\ \A U \in SUBSET Type : \A x :
             Contains(column'[U], x) <=> Contains(column[U], x) \/ (U = b /\ x = Top)
    BY <1>1, <1>7, <1>11, AtTheEnd, ZenonT(40)
<1>19. ColumnInv'
  <2>1. ASSUME NEW U \in SUBSET Type, NEW x \in Nat, Contains(column'[U], x)
        PROVE  x < Top + 1
    BY <1>1, <1>11, <1>18, <2>1 DEF ColumnInv
  <2> QED BY <1>13, <1>18, <2>1 DEF ColumnInv
<1>20. /\ Created' = Created \cup {h} /\ h \notin Created
       /\ IdOf(h)' = Top /\ \A g \in Created : IdOf(g)' = IdOf(g)
  <2>1. \A g \in Subjects : g.transient => (g.id = h.id <=> g = h)
    BY <1>4, <1>11, HandlesAre
  <2>2. Created' = {g \in Subjects : g.transient => g.id \in DOMAIN news2}
    BY <1>8, <1>10 DEF Created
  <2>3. Created' = Created \cup {h} /\ h \notin Created
    BY <1>4, <1>5, <1>12, <2>1, <2>2 DEF Created
  <2>4. IdOf(h)' = Top
    BY <1>4, <1>10, <1>12 DEF IdOf
  <2>5. \A g \in Created : IdOf(g)' = IdOf(g)
    BY <1>10, <1>12 DEF IdOf, Created
  <2> QED BY <2>3, <2>4, <2>5
<1>21. LivingInv(L)'
  <2>1. \A g \in Created : \E T \in SUBSET Type : Contains(column[T], IdOf(g))
    BY <1>1, <1>3 DEF LivingInv, Living
  <2>2. \A g \in Created' : \E T \in SUBSET Type : Contains(column'[T], IdOf(g)')
    BY <1>18, <1>20, <2>1
  <2>3. \A g \in Created' : Living(IdOf(g))'
    BY <2>2 DEF Living
  <2>4. ASSUME NEW s \in Taken', NEW j \in DOMAIN L[s].destroies PROVE ~ Past(6, s, j)'
    <3>1. j \in Nat /\ s \in Nat
        BY <1>8, TakenIs, CarriedFields, LocalFields
    <3> QED BY <1>3, <1>10, <3>1
  <2> QED BY <2>3, <2>4 DEF LivingInv
<1>22. ASSUME NEW s \in Taken, NEW g \in Created, Alone(L, s, g)
       PROVE  /\ \A c \in SUBSET Type, v \in Refs :
                    Origin(L[s], g, c, v) => TypeIs(L[s], s, g, c, v)'
              /\ RefIs(s, g)'
  <2>1. s \in Nat /\ DOMAIN L[s].casts \subseteq Nat
    BY TakenIs, CarriedFields, LocalFields
  <2>2. /\ \A j \in DOMAIN L[s].casts : Past(4, s, j)' <=> Past(4, s, j)
        /\ exec.phase = "cast" /\ exec.i = s => exec.k \notin DOMAIN L[s].casts
        /\ ~ Past(5, s, 1) /\ ~ Past(5, s, 1)'
    <3>1. \A j \in DOMAIN L[s].casts : Past(4, s, j)' <=> Past(4, s, j)
        <4>1. 4 # q /\ 4 \in Nat
            BY <1>3
        <4>2. \A j \in Nat : Past(4, s, j)' <=> Past(4, s, j) \/ (4 = q /\ s = i /\ j = k)
            <5>1. s \in Nat
                BY <2>1
            <5>2. \A m, t, j \in Nat :
                      Past(m, t, j)' <=> Past(m, t, j) \/ (m = q /\ t = i /\ j = k)
                BY <1>10
            <5> QED BY ONLY <4>1, <5>1, <5>2, Zenon
        <4>3. \A j \in Nat : Past(4, s, j)' <=> Past(4, s, j)
            BY ONLY <4>1, <4>2, Zenon
        <4>4. DOMAIN L[s].casts \subseteq Nat
            BY <2>1
        <4> QED BY ONLY <4>3, <4>4, Zenon
    <3>2. exec.phase # "cast"
        BY <1>2
    <3>3. ~ Past(5, s, 1) /\ ~ Past(5, s, 1)'
        BY <1>3, <1>10, <2>1
    <3> QED BY <3>1, <3>2, <3>3
  <2>3. \A A \in Applied(L[s], s) : A \in Applied(L[s], s)'
    BY <2>2, AppliedKept
  <2>4. IdOf(g)' = IdOf(g) /\ IdOf(g) # Top /\ ref'[IdOf(g)] = ref[IdOf(g)]
    BY <1>7, <1>11, <1>20
  <2>5. \A T \in SUBSET Type :
            Contains(column'[T], IdOf(g)) => Contains(column[T], IdOf(g))
    BY <1>18, <2>4
  <2>6. ASSUME NEW c \in SUBSET Type, NEW v \in Refs, Origin(L[s], g, c, v)
        PROVE  TypeIs(L[s], s, g, c, v)'
    <3>1. TypeIs(L[s], s, g, c, v)
        BY <1>1, <1>22, <2>6 DEF DataInv
    <3> QED BY <1>8, <1>10, <2>2, <2>3, <2>4, <2>5, <3>1, TypeKept
  <2> QED BY <2>2, <2>6 DEF RefIs
<1>23. ASSUME NEW s \in Taken, Alone(L, s, h)
       PROVE  /\ \A c \in SUBSET Type, v \in Refs :
                    Origin(L[s], h, c, v) => TypeIs(L[s], s, h, c, v)'
              /\ RefIs(s, h)'
  <2>1. s = i
    BY <1>4, <1>23, TakenIs
  <2>2. ~ Past(5, s, 1)'
    BY <1>2, <1>3, <1>10, <2>1
  <2>3. {} \in Applied(L[s], s)'
    <3>1. DOMAIN L[s].casts \subseteq Nat
        BY <1>2, <2>1, LocalFields
    <3>2. PastCasts(L[s], s)' = {}
        BY <1>2, <1>3, <1>10, <2>1, <3>1 DEF PastCasts
    <3> QED BY <3>2 DEF Applied
  <2>4. ASSUME NEW c \in SUBSET Type, NEW v \in Refs, Origin(L[s], h, c, v)
        PROVE  TypeIs(L[s], s, h, c, v)'
    <3>1. c = b /\ v = r /\ (Ref \notin b => r = Null)
        BY <1>2, <2>1, <2>4, OriginIs
    <3>2. ref'[Top] = r
        <4>1. Top \in DOMAIN ref
            BY <1>1, <1>11, <1>15, CountIs, BufferAssumption DEF DataInv
        <4> QED BY <1>7, <4>1
    <3>3. \A T \in SUBSET Type : Contains(column'[T], Top) => T = b
        <4>1. \A T \in SUBSET Type : ~ Contains(column[T], Top)
            BY <1>1, <1>11 DEF ColumnInv
        <4> QED BY <1>18, <4>1
    <3>4. TypesAfter(L[s], h, b, {}) = b
        BY TypesAfterNone
    <3> QED BY <1>20, <2>3, <3>1, <3>2, <3>3, <3>4 DEF TypeIs
  <2> QED BY <2>2, <2>4 DEF RefIs
<1>24. DataInv(L)'
  <2>1. DOMAIN ref' = 0 .. Count + MaxNew - 1
    BY <1>1, <1>7 DEF DataInv
  <2>2. \A s \in Taken', g \in Created' : Alone(L, s, g) =>
            /\ \A c \in SUBSET Type, v \in Refs :
                  Origin(L[s], g, c, v) => TypeIs(L[s], s, g, c, v)'
            /\ RefIs(s, g)'
    BY <1>8, <1>20, <1>22, <1>23
  <2> QED BY <2>1, <2>2 DEF DataInv
<1> QED BY <1>9, <1>10, <1>16, <1>17, <1>19, <1>21, <1>24 DEF ExecInv

LEMMA ExecuteAllocateKeeps ==
    ASSUME StorageInv, NEW L, Carried(L), ExecInv(L), ~ Failed, ExecuteAllocate
    PROVE  Carried(L)' /\ ExecInv(L)'
<1> DEFINE i == exec.i
           k == exec.k
           a == L[i].allocates[k]
           h == L[i].entities[a.e]
<1>1. ExecType(L) /\ Turn("allocate")
    BY DEF ExecInv, ExecuteAllocate
<1>2. /\ i \in Taken /\ k \in Nat /\ k >= 1 /\ k <= Work("allocate", L[i])
      /\ L[i] \in Local /\ Listed(L[i])
      /\ Now.allocates = L[i].allocates
    BY <1>1, TurnIs, CarriedFields DEF Now
<1>3. k \in DOMAIN L[i].allocates /\ a \in AllocateCommand
  <2>1. /\ Work("allocate", L[i]) = Len(L[i].allocates) /\ Len(L[i].allocates) \in Nat
        /\ L[i].allocates \in Seq(AllocateCommand)
    BY <1>2, WorkIs, LocalFields
  <2>2. k \in DOMAIN L[i].allocates
    BY <1>2, <2>1
  <2> QED BY <2>1, <2>2
<1>4. a.where # "lost" /\ a.types \in SUBSET Type
    BY <1>2, <1>3, NothingFailed DEF AllocateCommand
<1>5. a.e \in DOMAIN L[i].entities /\ h \in Handles
  <2>1. a.e \in DOMAIN L[i].entities /\ L[i].entities \in Seq(Handles)
    BY <1>2, <1>3, LocalFields DEF Listed
  <2> QED BY <2>1
<1>6. AllocateOf(L[i], h, k)
    BY <1>3 DEF AllocateOf
<1>7. Origin(L[i], h, a.types, Null) /\ Null \in Refs
    BY <1>2, <1>6 DEF Origin, Refs
<1>8. Create(a.e, a.types, Null)
    BY <1>2, <1>4 DEF ExecuteAllocate, TypesRead
<1> HIDE DEF a, h
<1>9. L[exec.i].entities[a.e] = h
    BY DEF h
<1> QED BY <1>1, <1>4, <1>5, <1>6, <1>7, <1>8, <1>9, CreateKeeps

\* An entity of the world is as it was as long as entities are created.
LEMMA SourceIs ==
    ASSUME StorageInv, NEW L, Carried(L), ExecInv(L), Order(exec.phase) < 4, NEW id \in Ids
    PROVE  TypesOf(id) = FirstType[id] /\ ref[id] = FirstRef[id]
<1> DEFINE h == Old(id)
<1>1. /\ ExecType(L) /\ NewsInv(L) /\ ColumnInv /\ LivingInv(L) /\ DataInv(L) /\ Rec(L)
      /\ Taken # {}
    BY DEF ExecInv, Carried, ExecType
<1>2. h \in Handles /\ ~ h.transient /\ h.id = id
    BY HandlesAre
<1>3. h \in Created /\ IdOf(h) = id
    BY <1>2 DEF Created, Subjects, IdOf
<1>4. FirstType[id] \in SUBSET Type /\ FirstRef[id] \in Refs
    BY BufferAssumption, HandlesAre DEF Refs
<1> HIDE DEF h
<1>5. PICK s \in Taken : Alone(L, s, h)
    BY <1>1, <1>2, HomeIs
<1>6. /\ L[s] \in Local /\ CreatedOnce(L[s])
    BY CarriedFields
<1>7. Origin(L[s], h, FirstType[id], FirstRef[id])
    BY <1>2 DEF Origin
<1>8. TypeIs(L[s], s, h, FirstType[id], FirstRef[id])
    BY <1>1, <1>3, <1>4, <1>5, <1>7 DEF DataInv
<1>9. /\ \A j \in Nat : ~ Past(4, s, j) /\ ~ Past(5, s, j)
      /\ exec.phase # "cast"
  <2>1. Order(exec.phase) \in Nat
    BY OrderIsNat
  <2> QED BY <1>1, <2>1, PhaseIs DEF Past
<1>10. \A A \in Applied(L[s], s) : A = {}
  <2>1. DOMAIN L[s].casts \subseteq Nat
    BY <1>6, LocalFields
  <2>2. PastCasts(L[s], s) = {}
    BY <1>9, <2>1 DEF PastCasts
  <2> QED BY <1>9, <2>2 DEF Applied
<1>11. \A T \in SUBSET Type : Contains(column[T], id) =>
          /\ T = FirstType[id]
          /\ ref[id] = IF Ref \in T THEN FirstRef[id] ELSE Null
  <2>1. TypesAfter(L[s], h, FirstType[id], {}) = FirstType[id]
    BY <1>4, TypesAfterNone
  <2> QED BY <1>3, <1>8, <1>9, <1>10, <2>1 DEF TypeIs
<1>12. Living(id)
  <2>1. Order(exec.phase) \in Nat
    BY OrderIsNat
  <2> QED BY <1>1, <1>3, <2>1 DEF LivingInv
<1>13. TypesOf(id) \in SUBSET Type /\ Contains(column[TypesOf(id)], id)
    BY <1>1, <1>12, LivingIs
<1>14. Ref \notin FirstType[id] => FirstRef[id] = Null
    BY BufferAssumption
<1> QED BY <1>11, <1>13, <1>14

LEMMA ExecuteInstantiateKeeps ==
    ASSUME StorageInv, NEW L, Carried(L), ExecInv(L), ExecuteInstantiate
    PROVE  Carried(L)' /\ ExecInv(L)'
<1> DEFINE i == exec.i
           k == exec.k
           c == L[i].instantiates[k]
           h == L[i].entities[c.e]
<1>1. ExecType(L) /\ Turn("instantiate") /\ exec.phase = "instantiate"
    BY DEF ExecInv, ExecuteInstantiate, Turn
<1>2. /\ i \in Taken /\ k \in Nat /\ k >= 1 /\ k <= Work("instantiate", L[i])
      /\ L[i] \in Local /\ Listed(L[i])
      /\ Now.instantiates = L[i].instantiates
    BY <1>1, TurnIs, CarriedFields DEF Now
<1>3. k \in DOMAIN L[i].instantiates /\ c \in InstantiateCommand
  <2>1. /\ Work("instantiate", L[i]) = Len(L[i].instantiates)
        /\ Len(L[i].instantiates) \in Nat
        /\ L[i].instantiates \in Seq(InstantiateCommand)
    BY <1>2, WorkIs, LocalFields
  <2>2. k \in DOMAIN L[i].instantiates
    BY <1>2, <2>1
  <2> QED BY <2>1, <2>2
<1>4. /\ c.source \in Ids
      /\ FirstType[c.source] \in SUBSET Type /\ FirstRef[c.source] \in Refs
  <2>1. c.source \in Ids
    BY <1>3 DEF InstantiateCommand
  <2> QED BY <2>1, BufferAssumption, HandlesAre DEF Refs
<1>5. c.e \in DOMAIN L[i].entities /\ h \in Handles
  <2>1. c.e \in DOMAIN L[i].entities /\ L[i].entities \in Seq(Handles)
    BY <1>2, <1>3, LocalFields DEF Listed
  <2> QED BY <2>1
<1>6. InstantiateOf(L[i], h, k)
    BY <1>3 DEF InstantiateOf
<1>7. Origin(L[i], h, FirstType[c.source], FirstRef[c.source])
    BY <1>2, <1>6 DEF Origin
<1>8. TypesOf(c.source) = FirstType[c.source] /\ ref[c.source] = FirstRef[c.source]
    BY <1>1, <1>4, OrderIs, SourceIs
<1>9. Create(c.e, FirstType[c.source], FirstRef[c.source])
    BY <1>2, <1>8 DEF ExecuteInstantiate
<1> HIDE DEF c, h
<1>10. L[exec.i].entities[c.e] = h
    BY DEF h
<1> QED BY <1>1, <1>4, <1>5, <1>6, <1>7, <1>9, <1>10, CreateKeeps

\* Once it spins it has failed.
LEMMA SpinFails ==
    ASSUME StorageInv, NEW L, Carried(L), Spin,
           exec = [phase |-> exec.phase, i |-> exec.i, k |-> exec.k, news |-> exec.news]
    PROVE  Carried(L)' /\ Failed'
<1>1. Carried(L)'
    BY CarriedStays DEF Spin, Unchanged
<1>2. exec'.phase = "spinning"
    BY DEF Spin
<1> QED BY <1>1, <1>2 DEF Failed

-----------------------------------------------------------------------------
(* The turns that create nothing.                                          *)

\* A turn of one of the later phases.
LaterTurn(L, p) ==
    /\ Carried(L) /\ ExecInv(L)
    /\ Turn(p) /\ p \in {"resolve", "cast", "set", "destroy"}
    /\ exec' = [exec EXCEPT !.k = @ + 1]
    /\ UNCHANGED <<storageVars, allocates, said>>

LEMMA LaterTurnIs ==
    ASSUME StorageInv, NEW L, NEW p, LaterTurn(L, p)
    PROVE  /\ ExecType(L) /\ Mirrors(L) /\ NewsInv(L) /\ ColumnInv /\ LivingInv(L)
           /\ DataInv(L) /\ Rec(L) /\ ExecType(L)' /\ NewsInv(L)'
           /\ exec.phase = p /\ exec'.phase = p /\ exec'.news = exec.news
           /\ Order(p) \in 3 .. 6
           /\ (p = "resolve" <=> Order(p) = 3) /\ (p = "cast" <=> Order(p) = 4)
           /\ (p = "set" <=> Order(p) = 5) /\ (p = "destroy" <=> Order(p) = 6)
           /\ exec.i \in Taken /\ exec.i \in Nat /\ exec.k \in Nat /\ exec.k >= 1
           /\ exec.k <= Turns /\ Turns = Work(p, L[exec.i]) /\ Turns \in Nat
           /\ exec'.i = exec.i /\ exec'.k = exec.k + 1
           /\ Taken' = Taken /\ said' = said /\ Top' = Top
           /\ Created = Subjects /\ Created' = Created
           /\ \A h : IdOf(h)' = IdOf(h) /\ Resolved(h)' = Resolved(h)
           /\ \A q, s, j \in Nat :
                 Past(q, s, j)' <=>
                     Past(q, s, j) \/ (q = Order(p) /\ s = exec.i /\ j = exec.k)
<1>1. /\ ExecType(L) /\ Mirrors(L) /\ NewsInv(L) /\ ColumnInv /\ LivingInv(L)
      /\ DataInv(L) /\ Rec(L) /\ Carried(L) /\ Turn(p) /\ p # "done"
      /\ exec' = [exec EXCEPT !.k = @ + 1]
      /\ UNCHANGED <<storageVars, allocates, said>>
    BY DEF LaterTurn, ExecInv, Carried
<1>2. Taken' = Taken /\ Subjects' = Subjects
    BY <1>1 DEF storageVars, Taken, Subjects
<1>3. /\ exec.phase = p /\ exec.i \in Taken /\ exec.i \in Nat /\ exec.k \in Nat
      /\ exec.k >= 1 /\ exec.k <= Turns /\ Turns = Work(p, L[exec.i]) /\ Turns \in Nat
    BY <1>1, TurnIs
<1>4. /\ Order(p) \in 3 .. 6
      /\ (p = "resolve" <=> Order(p) = 3) /\ (p = "cast" <=> Order(p) = 4)
      /\ (p = "set" <=> Order(p) = 5) /\ (p = "destroy" <=> Order(p) = 6)
    BY OrderIs DEF LaterTurn
<1>5. exec' = [exec EXCEPT !.k = @ + 1, !.news = exec.news]
  <2>1. exec = [phase |-> exec.phase, i |-> exec.i, k |-> exec.k, news |-> exec.news]
    BY <1>1 DEF ExecType
  <2> QED BY <1>1, <2>1
<1>6. /\ ExecType(L)' /\ exec'.phase = p /\ exec'.i = exec.i /\ exec'.k = exec.k + 1
      /\ exec'.news = exec.news
      /\ \A q, s, j \in Nat :
            Past(q, s, j)' <=> Past(q, s, j) \/ (q = Order(p) /\ s = exec.i /\ j = exec.k)
    BY <1>1, <1>2, <1>3, <1>5, PastTurn
<1>7. /\ Created' = Created /\ Top' = Top
      /\ \A h : IdOf(h)' = IdOf(h) /\ Resolved(h)' = Resolved(h)
    BY <1>2, <1>6 DEF Created, Top, IdOf, Resolved, Old
<1>8. Created = Subjects
    BY <1>1, <1>3, <1>4, CreatedIs
<1>9. NewsInv(L)'
  <2>1. \A s \in Taken, j \in Nat :
            (Past(1, s, j)' <=> Past(1, s, j)) /\ (Past(2, s, j)' <=> Past(2, s, j))
    BY <1>4, <1>6, TakenIs
  <2>2. \A s \in Taken, h \in Handles, j \in Nat :
          /\ AllocateOf(L[s], h, j) => (h.id \in DOMAIN exec.news <=> Past(1, s, j)')
          /\ InstantiateOf(L[s], h, j) => (h.id \in DOMAIN exec.news <=> Past(2, s, j)')
    BY <1>1, <2>1 DEF NewsInv
  <2> QED BY <1>1, <1>2, <1>6, <1>7, <2>2 DEF NewsInv
<1> QED BY <1>1, <1>2, <1>3, <1>4, <1>6, <1>7, <1>8, <1>9

\* The turn has nothing to do with the entity of h.
LEMMA LaterTurnLeaves ==
    ASSUME StorageInv, NEW L, NEW p, LaterTurn(L, p), NEW s \in Taken, NEW h \in Created,
           Alone(L, s, h), s # exec.i \/ p = "resolve" \/ p = "destroy",
           \A T \in SUBSET Type : Contains(column'[T], IdOf(h)) => Contains(column[T], IdOf(h)),
           ref'[IdOf(h)] = ref[IdOf(h)]
    PROVE  /\ \A b \in SUBSET Type, r \in Refs :
                 Origin(L[s], h, b, r) => TypeIs(L[s], s, h, b, r)'
           /\ RefIs(s, h)'
<1>1. /\ exec.phase = p /\ exec'.phase = p /\ exec'.news = exec.news
      /\ Order(p) \in 3 .. 6
      /\ (p = "resolve" <=> Order(p) = 3) /\ (p = "cast" <=> Order(p) = 4)
      /\ (p = "set" <=> Order(p) = 5) /\ (p = "destroy" <=> Order(p) = 6)
      /\ said' = said /\ IdOf(h)' = IdOf(h) /\ DataInv(L)
      /\ \A q, j \in Nat : Past(q, s, j)' <=>
             Past(q, s, j) \/ (q = Order(p) /\ s = exec.i /\ j = exec.k)
    BY LaterTurnIs, TakenIs
<1>2. DOMAIN L[s].casts \subseteq Nat
    BY CarriedFields, LocalFields DEF LaterTurn
<1>3. /\ \A j \in DOMAIN L[s].casts : Past(4, s, j)' <=> Past(4, s, j)
      /\ exec.phase = "cast" /\ exec.i = s => exec.k \notin DOMAIN L[s].casts
      /\ Past(5, s, 1)' <=> Past(5, s, 1)
  <2>1. s # exec.i \/ Order(p) = 3 \/ Order(p) = 6
    BY <1>1
  <2>2. \A j \in Nat : (Past(4, s, j)' <=> Past(4, s, j)) /\ (Past(5, s, j)' <=> Past(5, s, j))
    BY <1>1, <2>1
  <2> QED BY <1>1, <1>2, <2>1, <2>2
<1>4. \A A \in Applied(L[s], s) : A \in Applied(L[s], s)'
    BY <1>3, AppliedKept
<1>5. ASSUME NEW b \in SUBSET Type, NEW r \in Refs, Origin(L[s], h, b, r)
      PROVE  TypeIs(L[s], s, h, b, r)'
  <2>1. TypeIs(L[s], s, h, b, r)
    BY <1>1, <1>5 DEF DataInv
  <2> QED BY <1>1, <1>3, <1>4, <2>1, TypeKept
<1>6. RefIs(s, h)'
  <2>1. RefIs(s, h)
    BY <1>1 DEF DataInv
  <2> QED BY <1>1, <1>3, <2>1, RefKept
<1> QED BY <1>5, <1>6

LEMMA ExecuteResolveKeeps ==
    ASSUME StorageInv, NEW L, Carried(L), ExecInv(L), ExecuteResolve, NEW i, i = exec.i
    PROVE  Carried(L)' /\ ExecInv(L)'
<1>1. /\ LaterTurn(L, "resolve") /\ UNCHANGED <<column, ref>>
      /\ local' = [local EXCEPT ![i].entities = [j \in DOMAIN @ |-> Resolved(@[j])]]
    BY DEF ExecuteResolve, LaterTurn, Unchanged
<1>2. /\ ExecType(L) /\ Mirrors(L) /\ NewsInv(L) /\ ColumnInv /\ LivingInv(L)
      /\ DataInv(L) /\ Rec(L) /\ ExecType(L)' /\ NewsInv(L)'
      /\ Order("resolve") = 3 /\ exec.phase = "resolve" /\ exec'.phase = "resolve"
      /\ i \in Taken /\ i \in Nat /\ exec.k \in Nat /\ exec.k >= 1
      /\ exec.k <= Turns /\ Turns = Work("resolve", L[i])
      /\ Taken' = Taken /\ said' = said /\ Top' = Top
      /\ Created' = Created
      /\ \A h : IdOf(h)' = IdOf(h) /\ Resolved(h)' = Resolved(h)
      /\ \A q, s, j \in Nat :
             Past(q, s, j)' <=> Past(q, s, j) \/ (q = 3 /\ s = i /\ j = exec.k)
    BY <1>1, LaterTurnIs, OrderIs
<1>3. Carried(L)'
  <2>1. PICK es : es = [j \in DOMAIN local[i].entities |-> Resolved(local[i].entities[j])]
    OBVIOUS
  <2>2. local' = [local EXCEPT ![i].entities = es]
    BY <1>1, <2>1
  <2> QED BY <1>1, <2>2, CarriedStays DEF LaterTurn
<1>4. Mirrors(L)'
  <2>1. exec.k = 1
    <3>1. L[i] \in Local
        BY <1>2, CarriedFields
    <3>2. Work("resolve", L[i]) = 1
        BY <3>1, WorkIs
    <3> QED BY <1>2, <3>2
  <2>2. ASSUME NEW s \in Taken
        PROVE  local'[s] = IF Past(3, s, 1)' THEN ResolvedLocal(L[s])' ELSE L[s]
    <3>1. s \in Nat /\ s \in Slot /\ DOMAIN local = Slot
        BY TakenIs DEF Carried
    <3>2. ResolvedLocal(L[s])' = ResolvedLocal(L[s])
        BY <1>2 DEF ResolvedLocal
    <3>3. local[s] = IF Past(3, s, 1) THEN ResolvedLocal(L[s]) ELSE L[s]
        BY <1>2 DEF Mirrors
    <3>4. CASE s = i
        <4>1. ~ Past(3, s, 1) /\ Past(3, s, 1)'
            BY <1>2, <2>1, <3>1, <3>4 DEF Past
        <4>2. local[i] = L[i] /\ i \in DOMAIN local
            BY <3>1, <3>3, <3>4, <4>1
        <4>3. local'[s] = ResolvedLocal(L[s])
            BY <1>1, <3>4, <4>2 DEF ResolvedLocal
        <4> QED BY <3>2, <4>1, <4>3
    <3>5. CASE s # i
        <4>1. Past(3, s, 1)' <=> Past(3, s, 1)
            BY <1>2, <3>1, <3>5
        <4>2. local'[s] = local[s]
            BY <1>1, <3>1, <3>5
        <4> QED BY <3>2, <3>3, <4>1, <4>2
    <3> QED BY <3>4, <3>5
  <2> QED BY <1>2, <2>2 DEF Mirrors
<1>5. ColumnInv'
    BY <1>1, <1>2 DEF ColumnInv
<1>6. LivingInv(L)'
  <2>1. \A x : Living(x)' <=> Living(x)
    BY <1>1 DEF Living
  <2>2. ASSUME NEW s \in Taken, NEW j \in DOMAIN L[s].destroies
        PROVE  Past(6, s, j)' <=> Past(6, s, j)
    <3>1. s \in Nat /\ j \in Nat
        BY TakenIs, CarriedFields, LocalFields
    <3> QED BY <1>2, <3>1
  <2> QED BY <1>2, <2>1, <2>2 DEF LivingInv
<1>7. DataInv(L)'
  <2>1. DOMAIN ref' = 0 .. Count + MaxNew - 1
    BY <1>1, <1>2 DEF DataInv
  <2>2. \A s \in Taken, h \in Created : Alone(L, s, h) =>
            /\ \A b \in SUBSET Type, r \in Refs :
                  Origin(L[s], h, b, r) => TypeIs(L[s], s, h, b, r)'
            /\ RefIs(s, h)'
    BY <1>1, LaterTurnLeaves
  <2> QED BY <1>2, <2>1, <2>2 DEF DataInv
<1> QED BY <1>2, <1>3, <1>4, <1>5, <1>6, <1>7 DEF ExecInv

-----------------------------------------------------------------------------
(* What the entities are when the casts are done.                          *)

LEMMA OriginExists ==
    ASSUME StorageInv, NEW L, Rec(L), NEW h \in Subjects, NEW s \in Taken, Alone(L, s, h)
    PROVE  \E b \in SUBSET Type, r \in Refs : Origin(L[s], h, b, r)
<1>1. s \in Slot /\ h \in Handles
    BY TakenIs DEF Subjects
<1>2. L[s] \in Local /\ Listed(L[s])
    BY <1>1 DEF Rec
<1>3. \A id \in Ids : FirstType[id] \in SUBSET Type /\ FirstRef[id] \in Refs
    BY BufferAssumption, HandlesAre DEF Refs
<1>4. CASE ~ h.transient
  <2>1. Origin(L[s], h, FirstType[h.id], FirstRef[h.id]) /\ h.id \in Ids
    BY <1>1, <1>4, HandlesAre DEF Origin
  <2> QED BY <1>3, <2>1
<1>5. CASE h.transient
  <2>1. PICK u \in Taken, j \in Nat :
            /\ AllocateOf(L[u], h, j) \/ InstantiateOf(L[u], h, j)
            /\ Alone(L, u, h)
    BY <1>5, CreatorIs
  <2>2. u = s
    <3>1. u \in Slot /\ L[u] \in Local /\ Listed(L[u])
        BY TakenIs DEF Rec
    <3>2. Mentions(L[u], h)
        BY <1>1, <2>1, <3>1, CommandMentions
    <3> QED BY <1>1, <3>1, <3>2, HomeIs
  <2>3. CASE AllocateOf(L[s], h, j)
    <3>1. L[s].allocates \in Seq(AllocateCommand) /\ j \in DOMAIN L[s].allocates
        BY <1>2, <2>3, LocalFields DEF AllocateOf
    <3>2. L[s].allocates[j] \in AllocateCommand
        BY ONLY <3>1
    <3>3. L[s].allocates[j].types \in SUBSET Type
        BY <3>2 DEF AllocateCommand
    <3>4. Origin(L[s], h, L[s].allocates[j].types, Null)
        BY <2>3 DEF Origin
    <3> QED BY <3>3, <3>4 DEF Refs
  <2>4. CASE InstantiateOf(L[s], h, j)
    <3>1. L[s].instantiates \in Seq(InstantiateCommand) /\ j \in DOMAIN L[s].instantiates
        BY <1>2, <2>4, LocalFields DEF InstantiateOf
    <3>2. L[s].instantiates[j] \in InstantiateCommand
        BY ONLY <3>1
    <3>3. L[s].instantiates[j].source \in Ids
        BY <3>2 DEF InstantiateCommand
    <3>4. Origin(L[s], h, FirstType[L[s].instantiates[j].source],
                 FirstRef[L[s].instantiates[j].source])
        BY <2>4 DEF Origin
    <3> QED BY <1>3, <3>3, <3>4
  <2> QED BY <2>1, <2>2, <2>3, <2>4
<1> QED BY <1>4, <1>5, <1>1, HandlesAre

\* An entity of a phase after the casts has the types that are asked for.
LEMMA FinalTypes ==
    ASSUME StorageInv, NEW L, Carried(L), ExecInv(L), Order(exec.phase) >= 5,
           NEW h \in Subjects, NEW s \in Taken, Alone(L, s, h),
           ~ said[h].undone, ~ said[h].kept,
           NEW b \in SUBSET Type, NEW r \in Refs, Origin(L[s], h, b, r)
    PROVE  /\ \A T \in SUBSET Type : Contains(column[T], IdOf(h)) => T = said[h].types
           /\ said[h].types = TypesAfter(L[s], h, b, Nat)
           /\ \A T \in SUBSET Type : Contains(column[T], IdOf(h)) /\ ~ Past(5, s, 1) =>
                 ref[IdOf(h)] = IF Ref \in T THEN r ELSE Null
<1>1. ExecType(L) /\ DataInv(L) /\ NewsInv(L) /\ Rec(L) /\ h \in Handles
    BY DEF ExecInv, Carried, Subjects
<1>2. h \in Created
    BY <1>1, OrderIsNat, CreatedIs
<1>3. s \in Slot /\ L[s] \in Local
    BY CarriedFields
<1>4. TypeIs(L[s], s, h, b, r)
    BY <1>1, <1>2 DEF DataInv
<1>5. \A A \in Applied(L[s], s) : A = DOMAIN L[s].casts
  <2>1. Order(exec.phase) \in Nat /\ exec.phase # "cast"
    BY <1>1, OrderIsNat, PhaseIs
  <2>2. \A j : Past(4, s, j)
    BY <2>1 DEF Past
  <2>3. PastCasts(L[s], s) = DOMAIN L[s].casts
    BY <2>2 DEF PastCasts
  <2> QED BY <2>1, <2>3 DEF Applied
<1>6. TypesAfter(L[s], h, b, DOMAIN L[s].casts) = TypesAfter(L[s], h, b, Nat)
  <2>1. DOMAIN L[s].casts \subseteq Nat
    BY <1>3, LocalFields
  <2>2. \A j : CastOf(L[s], h, j) => (j \in DOMAIN L[s].casts <=> j \in Nat)
    BY <2>1 DEF CastOf
  <2> QED BY <2>2, TypesAfterSame
<1>7. said[h].types = TypesAfter(L[s], h, b, Nat)
    BY <1>1, <1>3 DEF Rec, HandleOK, CastsWished
<1>8. PICK A \in Applied(L[s], s) : \A T \in SUBSET Type : Contains(column[T], IdOf(h)) =>
            /\ T = TypesAfter(L[s], h, b, A)
            /\ ~ Past(5, s, 1) => ref[IdOf(h)] = IF Ref \in T THEN r ELSE Null
    BY <1>4 DEF TypeIs
<1>9. TypesAfter(L[s], h, b, A) = said[h].types
    BY <1>5, <1>6, <1>7, <1>8
<1>10. \A T \in SUBSET Type : Contains(column[T], IdOf(h)) => T = said[h].types
    BY <1>8, <1>9
<1>11. ASSUME ~ Past(5, s, 1), NEW T \in SUBSET Type, Contains(column[T], IdOf(h))
       PROVE  ref[IdOf(h)] = IF Ref \in T THEN r ELSE Null
    BY <1>8, <1>11
<1> QED BY <1>7, <1>10, <1>11

\* In a resolved local, the commands on an entity are the commands on its handle.
LEMMA CommandsByIds ==
    ASSUME StorageInv, NEW L, Carried(L), ExecInv(L), Order(exec.phase) >= 4,
           NEW h \in Subjects, NEW i \in Taken
    PROVE  /\ \A e \in DOMAIN L[i].entities :
                 local[i].entities[e].id = IdOf(h) <=> L[i].entities[e] = h
           /\ \A e \in DOMAIN L[i].entities : L[i].entities[e] \in Subjects
           /\ {j \in DOMAIN local[i].sets : local[i].entities[local[i].sets[j].e].id = IdOf(h)}
                  = {j \in DOMAIN L[i].sets : SetOf(L[i], h, j)}
           /\ (\E j \in DOMAIN local[i].patches :
                   local[i].entities[local[i].patches[j]].id = IdOf(h))
                  <=> \E j \in Nat : PatchOf(L[i], h, j)
<1>1. ExecType(L) /\ Mirrors(L) /\ NewsInv(L) /\ Rec(L)
    BY DEF ExecInv, Carried
<1>2. /\ i \in Slot /\ L[i] \in Local /\ Listed(L[i])
      /\ local[i].sets = L[i].sets /\ local[i].patches = L[i].patches
    BY CarriedFields
<1>3. Created = Subjects /\ \A g, f \in Created : IdOf(g) = IdOf(f) => g = f
    BY <1>1, OrderIsNat, CreatedIs
<1>4. ASSUME NEW e \in DOMAIN L[i].entities
      PROVE  /\ local[i].entities[e].id = IdOf(h) <=> L[i].entities[e] = h
             /\ L[i].entities[e] \in Subjects
  <2>1. /\ L[i].entities[e] \in Handles
        /\ local[i].entities[e].id = IdOf(L[i].entities[e])
    BY <1>1, EntityIds
  <2>2. Mentions(L[i], L[i].entities[e])
    BY DEF Mentions
  <2>3. L[i].entities[e] \in Subjects
    BY <1>1, <1>2, <2>1, <2>2, HomeIs
  <2> QED BY <1>3, <2>1, <2>3
<1>5. \A j \in DOMAIN L[i].sets :
          local[i].entities[L[i].sets[j].e].id = IdOf(h) <=> SetOf(L[i], h, j)
    BY <1>2, <1>4 DEF Listed, SetOf
<1>6. \A j \in DOMAIN L[i].patches :
          local[i].entities[L[i].patches[j]].id = IdOf(h) <=> PatchOf(L[i], h, j)
    BY <1>2, <1>4 DEF Listed, PatchOf
<1>7. DOMAIN L[i].patches \subseteq Nat
    BY <1>2, LocalFields
<1>8. (\E j \in DOMAIN local[i].patches :
           local[i].entities[local[i].patches[j]].id = IdOf(h))
          <=> \E j \in Nat : PatchOf(L[i], h, j)
    BY <1>2, <1>6, <1>7 DEF PatchOf
<1> QED BY <1>2, <1>4, <1>5, <1>8

-----------------------------------------------------------------------------
(* Values are set and patched.                                             *)

\* The value an entity has after the sets of its local.
LEMMA SetLastIs ==
    ASSUME StorageInv, NEW L, LaterTurn(L, "set"), NEW i, i = exec.i,
           NEW h \in Subjects, Alone(L, i, h),
           ~ said[h].undone, ~ said[h].kept, Ref \in said[h].types
    PROVE  /\ SetLast(Now, IdOf(h), ref[IdOf(h)]) = said[h].ref
           /\ Ref \in TypesOf(IdOf(h))
<1> DEFINE id == IdOf(h)
           mine == {j \in DOMAIN L[i].sets : SetOf(L[i], h, j)}
<1>1. /\ Carried(L) /\ ExecInv(L) /\ Rec(L) /\ ColumnInv /\ LivingInv(L)
      /\ exec.phase = "set" /\ Order(exec.phase) = 5 /\ i \in Taken /\ i \in Nat
      /\ exec.k >= 1 /\ exec.k <= Work("set", L[i]) /\ exec.k \in Nat
      /\ Created = Subjects
    BY LaterTurnIs, OrderIs DEF LaterTurn
<1>2. i \in Slot /\ L[i] \in Local /\ local[i].sets = L[i].sets /\ h \in Handles
    BY <1>1, CarriedFields DEF Subjects
<1>3. ~ Past(5, i, 1)
  <2>1. Work("set", L[i]) = 1
    BY <1>2, WorkIs
  <2> QED BY <1>1, <2>1 DEF Past
<1>4. PICK b \in SUBSET Type, r \in Refs : Origin(L[i], h, b, r)
    BY <1>1, OriginExists
<1>5. /\ \A T \in SUBSET Type : Contains(column[T], id) => T = said[h].types
      /\ said[h].types = TypesAfter(L[i], h, b, Nat)
      /\ \A T \in SUBSET Type : Contains(column[T], id) =>
            ref[id] = IF Ref \in T THEN r ELSE Null
  <2>1. Order(exec.phase) >= 5
    BY <1>1
  <2>2. /\ \A T \in SUBSET Type : Contains(column[T], id) => T = said[h].types
        /\ said[h].types = TypesAfter(L[i], h, b, Nat)
    BY <1>1, <1>4, <2>1, FinalTypes
  <2>3. ASSUME NEW T \in SUBSET Type, Contains(column[T], id)
        PROVE  ref[id] = IF Ref \in T THEN r ELSE Null
    BY <1>1, <1>3, <1>4, <2>1, <2>3, FinalTypes
  <2> QED BY <2>2, <2>3
<1>6. Living(id)
    BY <1>1 DEF LivingInv
<1>7. TypesOf(id) = said[h].types /\ ref[id] = r
    BY <1>1, <1>5, <1>6, LivingIs
<1>8. HandleOK(L[i], h, said[h])
    BY <1>1, <1>2 DEF Rec
<1>9. Now.sets = L[i].sets
      /\ {j \in DOMAIN Now.sets : Now.entities[Now.sets[j].e].id = id} = mine
  <2>1. Order(exec.phase) >= 4
    BY <1>1
  <2>2. {j \in DOMAIN local[i].sets : local[i].entities[local[i].sets[j].e].id = id} = mine
    BY <1>1, <2>1, CommandsByIds
  <2>3. Now = local[i]
    BY DEF Now
  <2> QED BY <1>2, <2>2, <2>3
<1>10. mine \subseteq Nat /\ \A j \in Nat : SetOf(L[i], h, j) <=> j \in mine
  <2>1. DOMAIN L[i].sets \subseteq Nat
    BY <1>2, LocalFields
  <2> QED BY <2>1 DEF SetOf
<1> HIDE DEF mine, id
<1>11. CASE mine = {}
  <2>1. ~ said[h].set
    BY <1>8, <1>10, <1>11 DEF HandleOK, RefWished
  <2>2. Ref \notin said[h].taken
    <3>1. ASSUME Ref \in said[h].taken PROVE FALSE
        <4>1. \E j \in Nat : CastOf(L[i], h, j) /\ Ref \in L[i].casts[j].shrink
            BY <1>8, <3>1 DEF HandleOK, CastsWished
        <4>2. Ref \notin TypesAfter(L[i], h, b, Nat)
            BY <4>1 DEF TypesAfter
        <4> QED BY <1>5, <4>2
    <3> QED BY <3>1
  <2>3. said[h].ref = r
    BY <1>4, <1>8, <2>1, <2>2 DEF HandleOK, RefWished
  <2>4. SetLast(Now, id, ref[id]) = ref[id]
    BY <1>9, <1>11 DEF SetLast
  <2> QED BY <1>7, <2>3, <2>4 DEF id
<1>12. CASE mine # {}
  <2>1. /\ mine \subseteq 1 .. Len(L[i].sets) /\ Len(L[i].sets) \in Nat
    BY <1>2, LocalFields DEF mine
  <2>2. Max(mine) \in mine /\ \A j \in mine : j <= Max(mine)
    BY <1>12, <2>1, GreatestOf
  <2>3. said[h].ref = L[i].sets[Max(mine)].value
    <3>1. PICK m : m = Max(mine)
        OBVIOUS
    <3>2. m \in Nat /\ SetOf(L[i], h, m) /\ \A j \in Nat : SetOf(L[i], h, j) => j <= m
        BY <1>10, <2>2, <3>1
    <3>3. said[h].ref = L[i].sets[m].value
        BY <1>8, <3>2 DEF HandleOK, RefWished
    <3> QED BY <3>1, <3>3
  <2>4. SetLast(Now, id, ref[id]) = L[i].sets[Max(mine)].value
    BY <1>7, <1>9, <1>12 DEF SetLast
  <2> QED BY <1>7, <2>3, <2>4 DEF id
<1> QED BY <1>11, <1>12

LEMMA ExecuteSetKeeps ==
    ASSUME StorageInv, NEW L, Carried(L), ExecInv(L), ExecuteSet, NEW i, i = exec.i
    PROVE  Carried(L)' /\ ExecInv(L)'
<1>1. /\ LaterTurn(L, "set") /\ UNCHANGED <<column, local>>
      /\ ref' = [id \in DOMAIN ref |->
                    IF Living(id) THEN SetAndPatched(Now, id) ELSE ref[id]]
    BY DEF ExecuteSet, LaterTurn, Unchanged
<1>2. /\ ExecType(L) /\ Mirrors(L) /\ NewsInv(L) /\ ColumnInv /\ LivingInv(L)
      /\ DataInv(L) /\ Rec(L) /\ ExecType(L)' /\ NewsInv(L)'
      /\ Order("set") = 5 /\ exec.phase = "set" /\ exec'.phase = "set"
      /\ i \in Taken /\ i \in Nat /\ exec.k \in Nat /\ exec.k >= 1
      /\ exec.k <= Turns /\ Turns = Work("set", L[i]) /\ exec'.news = exec.news
      /\ Taken' = Taken /\ said' = said /\ Top' = Top
      /\ Created = Subjects /\ Created' = Created
      /\ \A h : IdOf(h)' = IdOf(h) /\ Resolved(h)' = Resolved(h)
    BY <1>1, LaterTurnIs, OrderIs
<1>3. \A q, s, j \in Nat :
          Past(q, s, j)' <=> Past(q, s, j) \/ (q = 5 /\ s = i /\ j = exec.k)
    BY <1>1, LaterTurnIs, OrderIs
<1>4. i \in Slot /\ L[i] \in Local
    BY <1>2, CarriedFields
<1>5. Carried(L)'
    BY <1>1, CarriedStays DEF LaterTurn
<1>6. exec.k = 1
  <2>1. Work("set", L[i]) = 1
    BY <1>4, WorkIs
  <2> QED BY <1>2, <2>1
<1>7. Mirrors(L)'
  <2>1. \A s \in Taken : Past(3, s, 1)' <=> Past(3, s, 1)
    BY <1>3, TakenIs
  <2>2. \A l : ResolvedLocal(l)' = ResolvedLocal(l)
    BY <1>2 DEF ResolvedLocal
  <2> QED BY <1>1, <1>2, <2>1, <2>2 DEF Mirrors
<1>8. ColumnInv'
    BY <1>1, <1>2 DEF ColumnInv
<1>9. LivingInv(L)'
  <2>1. \A x : Living(x)' <=> Living(x)
    BY <1>1 DEF Living
  <2>2. ASSUME NEW s \in Taken, NEW j \in DOMAIN L[s].destroies
        PROVE  Past(6, s, j)' <=> Past(6, s, j)
    <3>1. s \in Nat /\ j \in Nat
        BY TakenIs, CarriedFields, LocalFields
    <3> QED BY <1>3, <3>1
  <2> QED BY <1>2, <2>1, <2>2 DEF LivingInv
<1>10. ASSUME NEW h \in Created
       PROVE  /\ IdOf(h) \in DOMAIN ref /\ Living(IdOf(h))
              /\ ref'[IdOf(h)] = SetAndPatched(Now, IdOf(h))
  <2>1. IdOf(h) \in Nat /\ IdOf(h) < Top /\ Top <= Count + MaxNew /\ Top \in Nat
    BY <1>2, CreatedIs
  <2>2. IdOf(h) \in DOMAIN ref
    BY <1>2, <2>1, CountIs, BufferAssumption DEF DataInv
  <2>3. Living(IdOf(h))
    BY <1>2 DEF LivingInv
  <2> QED BY <1>1, <2>2, <2>3
<1>11. ASSUME NEW s \in Taken, NEW h \in Created, Alone(L, s, h), s # i
       PROVE  ref'[IdOf(h)] = ref[IdOf(h)]
  <2>1. ~ Mentions(L[i], h)
    BY <1>4, <1>11 DEF Alone
  <2>2. \A j \in Nat : ~ SetOf(L[i], h, j) /\ ~ PatchOf(L[i], h, j)
    BY <1>2, <1>4, <2>1, CarriedFields, UnmentionedHasNone DEF Created, Subjects
  <2>3. DOMAIN L[i].sets \subseteq Nat
    BY <1>4, LocalFields
  <2>4. /\ {j \in DOMAIN Now.sets : Now.entities[Now.sets[j].e].id = IdOf(h)} = {}
        /\ ~ \E j \in DOMAIN Now.patches : Now.entities[Now.patches[j]].id = IdOf(h)
    BY <1>2, <2>2, <2>3, CommandsByIds, SMTT(60) DEF Now
  <2>5. SetAndPatched(Now, IdOf(h)) = ref[IdOf(h)]
    BY <2>4 DEF SetAndPatched, SetLast
  <2> QED BY <1>10, <2>5
<1>12. ASSUME NEW h \in Created, Alone(L, i, h)
       PROVE  /\ \A b \in SUBSET Type, r \in Refs :
                    Origin(L[i], h, b, r) => TypeIs(L[i], i, h, b, r)'
              /\ RefIs(i, h)'
  <2>1. Past(5, i, 1)' /\ h \in Subjects
    BY <1>2, <1>3, <1>6
  <2>2. DOMAIN L[i].casts \subseteq Nat
    BY <1>4, LocalFields
  <2>3. \A A \in Applied(L[i], i) : A \in Applied(L[i], i)'
    BY <1>2, <1>3, <2>2, AppliedKept
  <2>4. ASSUME NEW b \in SUBSET Type, NEW r \in Refs, Origin(L[i], h, b, r)
        PROVE  TypeIs(L[i], i, h, b, r)'
    <3>1. TypeIs(L[i], i, h, b, r)
        BY <1>2, <1>12, <2>4 DEF DataInv
    <3> QED BY <1>1, <1>2, <2>1, <2>3, <3>1, TypeKept
  <2>5. ASSUME ~ said[h].undone, ~ said[h].kept, Ref \in said[h].types
        PROVE  ref'[IdOf(h)] = Final(said[h])
    <3>1. /\ SetLast(Now, IdOf(h), ref[IdOf(h)]) = said[h].ref
          /\ Ref \in TypesOf(IdOf(h))
        BY <1>1, <1>12, <2>1, <2>5, SetLastIs
    <3>2. (\E j \in DOMAIN Now.patches : Now.entities[Now.patches[j]].id = IdOf(h))
              <=> said[h].patched
        <4>1. HandleOK(L[i], h, said[h])
            BY <1>2, <1>4, <1>12, <2>1 DEF Rec
        <4>2. said[h].patched <=> \E j \in Nat : PatchOf(L[i], h, j)
            BY <4>1 DEF HandleOK, RefWished
        <4> QED BY <1>2, <2>1, <4>2, CommandsByIds DEF Now
    <3>3. SetAndPatched(Now, IdOf(h)) = Final(said[h])
        BY <3>1, <3>2 DEF SetAndPatched, Final
    <3> QED BY <1>10, <3>3
  <2>6. RefIs(i, h)'
    <3>1. Final(said[h])' = Final(said[h])
        BY <1>2 DEF Final
    <3> QED BY <1>2, <2>5, <3>1 DEF RefIs
  <2> QED BY <2>4, <2>6
<1>13. DataInv(L)'
  <2>1. DOMAIN ref' = 0 .. Count + MaxNew - 1
    BY <1>1, <1>2 DEF DataInv
  <2>2. ASSUME NEW s \in Taken, NEW h \in Created, Alone(L, s, h)
        PROVE  /\ \A b \in SUBSET Type, r \in Refs :
                     Origin(L[s], h, b, r) => TypeIs(L[s], s, h, b, r)'
               /\ RefIs(s, h)'
    <3>1. CASE s = i
        BY <1>12, <2>2, <3>1
    <3>2. CASE s # i
        BY <1>1, <1>11, <2>2, <3>2, LaterTurnLeaves
    <3> QED BY <3>1, <3>2
  <2> QED BY <1>2, <2>1, <2>2 DEF DataInv
<1> QED BY <1>2, <1>5, <1>7, <1>8, <1>9, <1>13 DEF ExecInv

-----------------------------------------------------------------------------
(* Slices of the columns.                                                  *)

\* The entities in count places from p on.
Cut(s, p, count) == {s[j] : j \in p .. p + count - 1}

LEMMA CutIs ==
    ASSUME NEW s, Once(s), NEW p \in 1 .. Len(s), NEW count \in 1 .. 2,
           p + count - 1 <= Len(s), NEW w, Left(w, s, Len(s), p, count)
    PROVE  Once(w) /\ Minus(w, s, Cut(s, p, count))
<1>1. /\ s \in Seq(Nat) /\ OnceEach(s) /\ Once(w)
      /\ \A x : Contains(w, x) <=>
            \E i \in 1 .. Len(s) : s[i] = x /\ ~ (p <= i /\ i < p + count)
    BY DEF Once, Left
<1>2. Len(s) \in Nat /\ DOMAIN s = 1 .. Len(s)
    BY <1>1
<1>3. ASSUME NEW x \in Cut(s, p, count) PROVE Contains(s, x)
  <2>1. PICK j \in p .. p + count - 1 : s[j] = x
    BY DEF Cut
  <2>2. j \in 1 .. Len(s)
    BY <1>2, <2>1
  <2> QED BY <1>1, <1>2, <2>1, <2>2, InSequence
<1>4. ASSUME NEW x, Contains(w, x) PROVE Contains(s, x) /\ x \notin Cut(s, p, count)
  <2>1. PICK i \in 1 .. Len(s) : s[i] = x /\ ~ (p <= i /\ i < p + count)
    BY <1>1, <1>4
  <2>2. ASSUME NEW j \in p .. p + count - 1, s[j] = x PROVE FALSE
    <3>1. j \in 1 .. Len(s) /\ j \in Nat /\ i \in Nat
        BY <1>2, <2>1
    <3>2. j = i
        BY <1>1, <1>2, <2>1, <2>2, <3>1 DEF OnceEach
    <3> QED BY <2>1, <3>2
  <2> QED BY <1>1, <1>2, <2>1, <2>2, InSequence DEF Cut
<1>5. ASSUME NEW x, Contains(s, x), x \notin Cut(s, p, count) PROVE Contains(w, x)
  <2>1. PICK i \in 1 .. Len(s) : s[i] = x
    BY <1>1, <1>2, <1>5, InSequence
  <2>2. ~ (p <= i /\ i < p + count)
    <3>1. ASSUME p <= i, i < p + count PROVE FALSE
        <4>1. i \in p .. p + count - 1
            BY <1>2, <2>1, <3>1
        <4> QED BY <1>5, <2>1, <4>1 DEF Cut
    <3> QED BY <3>1
  <2> QED BY <1>1, <2>1, <2>2
<1> QED BY <1>1, <1>3, <1>4, <1>5 DEF Minus

\* A slice of a sequence.
IsSlice(v, s, p, count) == v = SubSeq(s, p, p + count - 1)

LEMMA SubSeqIs ==
    ASSUME NEW s, Once(s), NEW p \in 1 .. Len(s), NEW count \in 1 .. 2,
           p + count - 1 <= Len(s), NEW w, IsSlice(w, s, p, count)
    PROVE  Once(w) /\ Len(w) = count /\ \A x : Contains(w, x) <=> x \in Cut(s, p, count)
<1>1. s \in Seq(Nat) /\ OnceEach(s) /\ Len(s) \in Nat /\ DOMAIN s = 1 .. Len(s)
    BY DEF Once
<1>2. /\ w \in Seq(Nat) /\ Len(w) = count /\ DOMAIN w = 1 .. count
      /\ \A j \in 1 .. count : w[j] = s[p + j - 1]
  <2>1. (p + count - 1) - p + 1 = count
    OBVIOUS
  <2>2. \A j \in p .. p + count - 1 : s[j] \in Nat
    BY <1>1
  <2>3. w = SubSeq(s, p, p + count - 1)
    BY DEF IsSlice
  <2> QED BY <1>1, <2>1, <2>2, <2>3, SubSeqProperties
<1>3. ASSUME NEW i \in DOMAIN w, NEW j \in DOMAIN w, w[i] = w[j] PROVE i = j
  <2>1. i \in 1 .. count /\ j \in 1 .. count
    BY <1>2
  <2>2. PICK a, b \in 1 .. Len(s) : a = p + i - 1 /\ b = p + j - 1
    <3>1. p + i - 1 \in 1 .. Len(s) /\ p + j - 1 \in 1 .. Len(s)
        BY <1>1, <2>1, SMTT(60)
    <3> QED BY <3>1
  <2>3. s[a] = s[b]
    BY <1>2, <1>3, <2>1, <2>2
  <2>4. a = b
    BY <1>1, <2>3 DEF OnceEach
  <2> QED BY <2>1, <2>2, <2>4
<1>4. Once(w)
    BY <1>2, <1>3 DEF Once, OnceEach
<1>5. ASSUME NEW x, Contains(w, x) PROVE x \in Cut(s, p, count)
  <2>1. PICK j \in 1 .. count : w[j] = x
    BY <1>2, <1>5, InSequence
  <2>2. p + j - 1 \in p .. p + count - 1 /\ s[p + j - 1] = x
    BY <1>2, <2>1
  <2> QED BY <2>2 DEF Cut
<1>6. ASSUME NEW x \in Cut(s, p, count) PROVE Contains(w, x)
  <2>1. PICK j \in p .. p + count - 1 : s[j] = x
    BY DEF Cut
  <2>2. j - p + 1 \in 1 .. count /\ p + (j - p + 1) - 1 = j
    BY <2>1
  <2>3. w[j - p + 1] = x
    BY <1>2, <2>1, <2>2
  <2> QED BY <1>2, <2>2, <2>3, InSequence
<1> QED BY <1>2, <1>4, <1>5, <1>6

\* The entities of s are moved from one column to another.
Moved(col2, col, S, new) ==
    \A U \in SUBSET Type : \A x :
        Contains(col2[U], x) <=>
            (x \notin S /\ Contains(col[U], x)) \/ (x \in S /\ U = new)

LEMMA ColumnMoves ==
    ASSUME NEW col, ColumnsOK(col), NEW T \in SUBSET Type, NEW new \in SUBSET Type, new # T,
           NEW w, Once(w), NEW S, Minus(w, col[T], S),
           NEW s, Once(s), \A x : Contains(s, x) <=> x \in S,
           NEW col2, col2 = [col EXCEPT ![T] = w, ![new] = @ \o s]
    PROVE  ColumnsOK(col2) /\ Moved(col2, col, S, new)
<1> DEFINE col1 == [col EXCEPT ![T] = w]
<1>1. ColumnsOK(col1) /\ Loses(col1, col, S)
    BY ColumnLoses
<1>2. col2 = [col1 EXCEPT ![new] = @ \o s]
    BY DEF ColumnsOK
<1> HIDE DEF col1
<1>3. Elsewhere(s, col1)
    BY <1>1 DEF Loses, Elsewhere
<1>4. s \in Seq(Nat) /\ OnceEach(s)
    BY DEF Once
<1>5. ColumnsOK(col2) /\ Gets(col2, col1, new, s)
    BY <1>1, <1>2, <1>3, <1>4, ColumnGets
<1>6. Moved(col2, col, S, new)
  <2>1. ASSUME NEW U \in SUBSET Type, NEW x
        PROVE  Contains(col2[U], x) <=>
                   (x \notin S /\ Contains(col[U], x)) \/ (x \in S /\ U = new)
    <3>1. Contains(col1[U], x) <=> Contains(col[U], x) /\ x \notin S
        BY <1>1 DEF Loses
    <3>2. Contains(col2[U], x) <=> Contains(col1[U], x) \/ (U = new /\ Contains(s, x))
        BY <1>5 DEF Gets
    <3> QED BY <3>1, <3>2
  <2> QED BY <2>1 DEF Moved
<1> QED BY <1>5, <1>6

\* Where an entity is, and the one behind it.
LEMMA PlaceIs ==
    ASSUME ColumnInv, NEW id, Living(id), NEW T, T = TypesOf(id), NEW s, s = column[T]
    PROVE  /\ T \in SUBSET Type /\ Once(s)
           /\ PlaceOf(id) \in 1 .. Len(s) /\ s[PlaceOf(id)] = id
           /\ \A next : Adjacent(id, next) =>
                 /\ PlaceOf(id) + 1 <= Len(s) /\ s[PlaceOf(id) + 1] = next
                 /\ next # id /\ Contains(s, next) /\ Living(next)
<1>1. ColumnsOK(column) /\ T \in SUBSET Type /\ Contains(column[T], id)
    BY LivingIs DEF ColumnInv
<1>2. s \in Seq(Nat) /\ OnceEach(s) /\ Len(s) \in Nat /\ DOMAIN s = 1 .. Len(s)
    BY <1>1, ColumnsOnce
<1>3. PlaceOf(id) \in 1 .. Len(s) /\ s[PlaceOf(id)] = id
  <2>1. PICK p \in DOMAIN column[T] :
            /\ column[T][p] = id /\ p \in Nat
            /\ (CHOOSE j \in DOMAIN column[T] : column[T][j] = id) = p
    BY <1>1, InColumn
  <2> QED BY <1>2, <2>1 DEF PlaceOf
<1>4. ASSUME NEW next, Adjacent(id, next)
      PROVE  /\ PlaceOf(id) + 1 <= Len(s) /\ s[PlaceOf(id) + 1] = next
             /\ next # id /\ Contains(s, next) /\ Living(next)
  <2>1. Living(next) /\ TypesOf(next) = T /\ PlaceOf(next) = PlaceOf(id) + 1
    BY <1>4 DEF Adjacent
  <2>2. Contains(column[T], next)
    BY <2>1, LivingIs
  <2>3. PICK p \in DOMAIN column[T] :
            /\ column[T][p] = next /\ p \in Nat
            /\ (CHOOSE j \in DOMAIN column[T] : column[T][j] = next) = p
    BY <1>1, <2>2, InColumn
  <2>4. PlaceOf(next) = p
    BY <2>1, <2>3 DEF PlaceOf
  <2> QED BY <1>2, <1>3, <2>1, <2>2, <2>3, <2>4
<1> QED BY <1>1, <1>2, <1>3, <1>4 DEF Once


\* A sequence without a slice.
IsWithout(w, s, p, count) ==
    w = [j \in 1 .. Len(s) - count |->
            LET moved == IF count < Len(s) - (p - 1) - count THEN count
                         ELSE Len(s) - (p - 1) - count
            IN  IF p - 1 < j /\ j <= p - 1 + moved
                THEN s[Len(s) - moved + (j - (p - 1))] ELSE s[j]]

\* id is in the place p, and if there are two next is behind it.
Picked(s, p, count, id, next, S) ==
    /\ s[p] = id
    /\ count = 2 => p + 1 <= Len(s) /\ s[p + 1] = next
    /\ S = IF count = 2 THEN {id, next} ELSE {id}
TakenOut(v, w, s, count, S) ==
    /\ Once(v) /\ Len(v) = count /\ \A x : Contains(v, x) <=> x \in S
    /\ Once(w) /\ Minus(w, s, S)

LEMMA SliceOfColumn ==
    ASSUME NEW s, Once(s), NEW p \in 1 .. Len(s), NEW count \in 1 .. 2,
           NEW id, NEW next, NEW S, Picked(s, p, count, id, next, S),
           NEW w, IsWithout(w, s, p, count), NEW v, IsSlice(v, s, p, count)
    PROVE  TakenOut(v, w, s, count, S)
<1>0. /\ s[p] = id /\ (count = 2 => p + 1 <= Len(s) /\ s[p + 1] = next)
      /\ S = IF count = 2 THEN {id, next} ELSE {id}
    BY DEF Picked
<1>1. s \in Seq(Nat) /\ OnceEach(s) /\ Len(s) \in Nat
    BY DEF Once
<1>2. p + count - 1 <= Len(s)
    BY <1>0, <1>1
<1>3. S = Cut(s, p, count)
  <2>1. CASE count = 1
    <3>1. p .. p + count - 1 = {p}
        BY <2>1
    <3> QED BY <1>0, <2>1, <3>1 DEF Cut
  <2>2. CASE count = 2
    <3>1. p .. p + count - 1 = {p, p + 1}
        BY <2>2
    <3> QED BY <1>0, <2>2, <3>1 DEF Cut
  <2> QED BY <2>1, <2>2
<1>4. Left(w, s, Len(s), p, count)
    BY <1>1, <1>2, CutOut DEF IsWithout
<1>5. Once(w) /\ Minus(w, s, S)
    BY <1>2, <1>3, <1>4, CutIs
<1>6. Once(v) /\ Len(v) = count /\ \A x : Contains(v, x) <=> x \in S
    BY <1>2, <1>3, SubSeqIs
<1> QED BY <1>5, <1>6 DEF TakenOut

\* The slice of an entity and perhaps the next, and the column without it.
LEMMA SliceIs ==
    ASSUME ColumnInv, NEW id, Living(id), NEW count \in 1 .. 2, NEW next,
           count = 2 => Adjacent(id, next),
           NEW S, S = IF count = 2 THEN {id, next} ELSE {id}
    PROVE  TakenOut(SliceOf(id, count), Without(id, count), column[TypesOf(id)], count, S)
<1>1. PICK T, s, p : T = TypesOf(id) /\ s = column[T] /\ p = PlaceOf(id)
    OBVIOUS
<1>2. /\ Once(s) /\ p \in 1 .. Len(s) /\ s[p] = id
      /\ count = 2 => p + 1 <= Len(s) /\ s[p + 1] = next
    BY <1>1, PlaceIs
<1>3. PICK w, v : w = Without(id, count) /\ v = SliceOf(id, count)
    OBVIOUS
<1>4. IsWithout(w, s, p, count) /\ IsSlice(v, s, p, count)
    BY <1>1, <1>3 DEF Without, SliceOf, IsWithout, IsSlice
<1>5. Picked(s, p, count, id, next, S)
    BY <1>2 DEF Picked
<1>6. TakenOut(v, w, s, count, S)
    BY <1>2, <1>4, <1>5, SliceOfColumn
<1> QED BY <1>1, <1>3, <1>6

-----------------------------------------------------------------------------
(* Casts.                                                                  *)

\* The entity that a cast is for.
CastFor(l, now, j, c, g) ==
    /\ CastOf(l, g, j) /\ \A h : CastOf(l, h, j) => h = g
    /\ now.entities[c.e].id = IdOf(g) /\ Living(IdOf(g))

LEMMA CastCommandIs ==
    ASSUME StorageInv, NEW L, Carried(L), ExecInv(L), ~ Failed, exec.phase = "cast",
           NEW i \in Taken, NEW j \in DOMAIN L[i].casts, NEW c, c = L[i].casts[j]
    PROVE  /\ local[i].casts[j] = c /\ c.extend \in SUBSET Type /\ c.shrink \in SUBSET Type
           /\ DiffsRead(c) = {[extend |-> c.extend, shrink |-> c.shrink]}
           /\ \E g \in Subjects : CastFor(L[i], local[i], j, c, g)
<1>1. /\ ExecType(L) /\ LivingInv(L) /\ NewsInv(L) /\ Rec(L) /\ Order(exec.phase) = 4
    BY OrderIs DEF ExecInv, Carried
<1>2. /\ L[i] \in Local /\ Listed(L[i]) /\ local[i].casts = L[i].casts
    BY CarriedFields
<1>3. c.extend \in SUBSET Type /\ c.shrink \in SUBSET Type
  <2>1. L[i].casts \in Seq(CastCommand)
    BY <1>2, LocalFields
  <2>2. L[i].casts[j] \in CastCommand
    BY ONLY <2>1, j \in DOMAIN L[i].casts
  <2> QED BY <2>2 DEF CastCommand
<1>4. DiffsRead(c) = {[extend |-> c.extend, shrink |-> c.shrink]}
  <2>1. c.where # "lost"
    BY NothingFailed
  <2> QED BY <2>1 DEF DiffsRead
<1>5. c.e \in DOMAIN L[i].entities
    BY <1>2 DEF Listed
<1>6. PICK g : g = L[i].entities[c.e]
    OBVIOUS
<1>7. CastOf(L[i], g, j) /\ \A h : CastOf(L[i], h, j) => h = g
    BY <1>6 DEF CastOf
<1>8. g \in Handles
  <2>1. L[i].entities \in Seq(Handles)
    BY <1>2, LocalFields
  <2> QED BY ONLY <1>5, <1>6, <2>1
<1>9. g \in Subjects
  <2>1. Mentions(L[i], g)
    BY <1>5, <1>6 DEF Mentions
  <2> QED BY <1>1, <1>8, <2>1, TakenIs, HomeIs
<1>10. local[i].entities[c.e].id = IdOf(g)
  <2>1. Order(exec.phase) >= 4
    BY <1>1
  <2> QED BY <1>5, <1>6, <1>9, <2>1, CommandsByIds
<1>11. Living(IdOf(g))
  <2>1. g \in Created
    BY <1>1, <1>9, CreatedIs
  <2> QED BY <1>1, <2>1 DEF LivingInv
<1>12. CastFor(L[i], local[i], j, c, g)
    BY <1>7, <1>10, <1>11 DEF CastFor
<1> QED BY <1>2, <1>3, <1>4, <1>9, <1>12

\* The cast m takes h from the types T to the types new, in the turn of k.
TakesTo(l, k, m, h, T, new) ==
    /\ CastOf(l, h, m)
    /\ new = (T \cup l.casts[m].extend) \ l.casts[m].shrink
    /\ m = k + 1 => ~ CastOf(l, h, k)

\* The turn of the cast k takes the entities S of the types T to the types new.
Casts(L, i, k, T, new, S) ==
    /\ i \in Taken /\ k \in DOMAIN L[i].casts
    /\ T \in SUBSET Type /\ new \in SUBSET Type
    /\ \A x \in S : Contains(column[T], x)
    /\ \A h \in Subjects : CastOf(L[i], h, k) => IdOf(h) \in S
    /\ \A h \in Subjects : IdOf(h) \in S => \E m \in {k, k + 1} : TakesTo(L[i], k, m, h, T, new)

MovedRefs(ref2, ref1, T, new, S) ==
    /\ DOMAIN ref2 = DOMAIN ref1
    /\ \A x \in DOMAIN ref1 :
          \/ x \notin S /\ ref2[x] = ref1[x]
          \/ x \in S /\ ref2[x] = ref1[x] /\ (new = T \/ (Ref \in new /\ Ref \in T))
          \/ x \in S /\ ref2[x] = Null /\ ~ (Ref \in new /\ Ref \in T)

LEMMA CastIs ==
    ASSUME StorageInv, NEW L, Carried(L), ExecInv(L), ~ Failed, ExecuteCast,
           NEW i, i = exec.i, NEW k, k = exec.k
    PROVE  \E T, new, S : /\ Casts(L, i, k, T, new, S)
                          /\ ColumnsOK(column') /\ Moved(column', column, S, new)
                          /\ MovedRefs(ref', ref, T, new, S)
<1>1. /\ ExecType(L) /\ ColumnInv /\ NewsInv(L) /\ Rec(L) /\ DataInv(L)
      /\ Turn("cast") /\ exec.phase = "cast"
    BY DEF ExecInv, Carried, ExecuteCast, Turn
<1>2. /\ i \in Taken /\ k \in Nat /\ k >= 1 /\ Turns = Work("cast", L[i]) /\ k <= Turns
      /\ Turns \in Nat
    BY <1>1, TurnIs
<1>3. /\ L[i] \in Local /\ local[i].casts = L[i].casts
      /\ DOMAIN L[i].casts = 1 .. Turns /\ k \in DOMAIN L[i].casts
  <2>1. L[i] \in Local /\ local[i].casts = L[i].casts
    BY <1>2, CarriedFields
  <2>2. Turns = Len(L[i].casts)
    BY <1>2, <2>1, WorkIs
  <2>3. DOMAIN L[i].casts = 1 .. Len(L[i].casts)
    BY <2>1, LocalFields
  <2>4. DOMAIN L[i].casts = 1 .. Turns
    BY ONLY <2>2, <2>3
  <2>5. k \in DOMAIN L[i].casts
    BY ONLY <1>2, <2>4
  <2> QED BY ONLY <2>1, <2>4, <2>5
<1>4. PICK c : c = L[i].casts[k]
    OBVIOUS
<1>5. /\ local[i].casts[k] = c /\ c.extend \in SUBSET Type /\ c.shrink \in SUBSET Type
      /\ DiffsRead(c) = {[extend |-> c.extend, shrink |-> c.shrink]}
    BY <1>1, <1>2, <1>3, <1>4, CastCommandIs
<1>6. PICK g \in Subjects :
          /\ CastOf(L[i], g, k) /\ \A h : CastOf(L[i], h, k) => h = g
          /\ local[i].entities[c.e].id = IdOf(g) /\ Living(IdOf(g))
  <2>1. \E g \in Subjects : CastFor(L[i], local[i], k, c, g)
    BY <1>1, <1>2, <1>3, <1>4, CastCommandIs
  <2> QED BY <2>1 DEF CastFor
<1>7. PICK id, T, d : /\ id = IdOf(g) /\ T = TypesOf(id)
                      /\ d = [extend |-> c.extend, shrink |-> c.shrink]
    OBVIOUS
<1>8. PICK new : new = (T \cup c.extend) \ c.shrink
    OBVIOUS
<1>9. PICK count : count = CastCount(id, d)
    OBVIOUS
<1>10. PICK slice : slice = SliceOf(id, count)
    OBVIOUS
<1>11. IF new = T THEN UNCHANGED <<column, ref>>
       ELSE /\ column' = [column EXCEPT ![T] = Without(id, Len(slice)), ![new] = @ \o slice]
            /\ ref' = IF Ref \in new \cap T THEN ref
                      ELSE [x \in DOMAIN ref |-> IF Contains(slice, x) THEN Null ELSE ref[x]]
  <2>1. /\ Now.casts[exec.k] = c /\ Now.entities[c.e].id = id
    BY <1>5, <1>6, <1>7 DEF Now
  <2>2. PICK diff \in DiffsRead(c) :
          IF (TypesOf(id) \cup diff.extend) \ diff.shrink = TypesOf(id)
          THEN UNCHANGED <<column, ref>>
          ELSE /\ column' = [column EXCEPT
                      ![TypesOf(id)] = Without(id, Len(SliceOf(id, CastCount(id, diff)))),
                      ![(TypesOf(id) \cup diff.extend) \ diff.shrink] =
                          @ \o SliceOf(id, CastCount(id, diff))]
               /\ ref' = IF Ref \in ((TypesOf(id) \cup diff.extend) \ diff.shrink)
                                    \cap TypesOf(id)
                         THEN ref
                         ELSE [x \in DOMAIN ref |->
                                 IF Contains(SliceOf(id, CastCount(id, diff)), x)
                                 THEN Null ELSE ref[x]]
    BY <2>1 DEF ExecuteCast
  <2>3. diff = d
    BY <1>5, <1>7, <2>2
  <2>4. diff.extend = c.extend /\ diff.shrink = c.shrink
    BY <1>7, <2>3
  <2> QED BY ONLY <1>7, <1>8, <1>9, <1>10, <2>2, <2>3, <2>4
<1>12. /\ T \in SUBSET Type /\ Contains(column[T], id) /\ new \in SUBSET Type /\ Living(id)
    BY <1>1, <1>5, <1>6, <1>7, <1>8, LivingIs
<1>13. PICK next : next = local[i].entities[L[i].casts[k + 1].e].id
    OBVIOUS
<1>14. /\ count \in 1 .. 2
       /\ count = 2 => /\ k + 1 \in DOMAIN L[i].casts /\ d \in DiffsRead(L[i].casts[k + 1])
                       /\ Adjacent(id, next)
  <2>1. count = IF /\ k < Turns
                   /\ d \in DiffsRead(L[i].casts[k + 1])
                   /\ Adjacent(id, next)
                THEN 2 ELSE 1
    BY <1>3, <1>9, <1>13 DEF CastCount, Now
  <2>2. k < Turns => k + 1 \in 1 .. Turns
    BY ONLY <1>2
  <2> QED BY ONLY <1>3, <2>1, <2>2
<1>15. PICK S : S = IF count = 2 THEN {id, next} ELSE {id}
    OBVIOUS
<1>16. /\ Once(slice) /\ Len(slice) = count
       /\ \A x : Contains(slice, x) <=> x \in S
       /\ Once(Without(id, count)) /\ Minus(Without(id, count), column[T], S)
  <2>1. TakenOut(SliceOf(id, count), Without(id, count), column[TypesOf(id)], count, S)
    BY <1>1, <1>12, <1>14, <1>15, SliceIs
  <2> QED BY <1>7, <1>10, <2>1 DEF TakenOut
<1>17. \A x \in S : Contains(column[T], x)
    BY <1>16 DEF Minus
<1>18. ColumnsOK(column') /\ Moved(column', column, S, new)
  <2>1. ColumnsOK(column)
    BY <1>1 DEF ColumnInv
  <2>2. CASE new = T
    <3>1. \A U \in SUBSET Type : \A x \in S : Contains(column[U], x) <=> U = new
        BY <1>12, <1>17, <2>1, <2>2, SameColumn
    <3> QED BY <1>11, <2>1, <2>2, <3>1 DEF Moved
  <2>3. CASE new # T
    <3>1. PICK w : w = Without(id, count)
        OBVIOUS
    <3>2. column' = [column EXCEPT ![T] = w, ![new] = @ \o slice]
        BY <1>11, <1>16, <2>3, <3>1
    <3> QED BY <1>12, <1>16, <2>1, <2>3, <3>1, <3>2, ColumnMoves
  <2> QED BY <2>2, <2>3
<1>19. MovedRefs(ref', ref, T, new, S)
  <2>1. CASE new = T
    BY <1>11, <2>1 DEF MovedRefs
  <2>2. CASE new # T /\ Ref \in new \cap T
    BY <1>11, <2>2 DEF MovedRefs
  <2>3. CASE new # T /\ Ref \notin new \cap T
    BY <1>11, <1>16, <2>3 DEF MovedRefs
  <2> QED BY <2>1, <2>2, <2>3
<1>20. \A h \in Subjects : CastOf(L[i], h, k) => IdOf(h) \in S
    BY <1>6, <1>7, <1>15
<1>21. ASSUME NEW h \in Subjects, IdOf(h) \in S
       PROVE  \E m \in {k, k + 1} : TakesTo(L[i], k, m, h, T, new)
  <2>1. \A f, e \in Subjects : IdOf(f) = IdOf(e) => f = e
    <3>1. Created = Subjects
        BY <1>1, OrderIs, CreatedIs
    <3> QED BY <1>1, <3>1, CreatedIs
  <2>2. CASE IdOf(h) = id
    <3>1. h = g
        BY <1>6, <1>7, <2>1, <2>2
    <3>2. CastOf(L[i], h, k) /\ k # k + 1
        BY <1>2, <1>6, <3>1
    <3>3. new = (T \cup L[i].casts[k].extend) \ L[i].casts[k].shrink
        BY <1>4, <1>8
    <3>4. TakesTo(L[i], k, k, h, T, new)
        BY ONLY <3>2, <3>3 DEF TakesTo
    <3> QED BY <3>4
  <2>3. CASE IdOf(h) # id
    <3>1. count = 2 /\ IdOf(h) = next
        BY <1>15, <1>21, <2>3
    <3>2. PICK e : e = L[i].casts[k + 1]
        OBVIOUS
    <3>3. DiffsRead(e) = {[extend |-> e.extend, shrink |-> e.shrink]}
        BY <1>1, <1>2, <1>14, <3>1, <3>2, CastCommandIs
    <3>4. e.extend = c.extend /\ e.shrink = c.shrink
        <4>1. d = [extend |-> e.extend, shrink |-> e.shrink]
            BY <1>14, <3>1, <3>2, <3>3
        <4> QED BY <1>7, <4>1
    <3>5. PICK f \in Subjects :
              /\ CastOf(L[i], f, k + 1) /\ local[i].entities[e.e].id = IdOf(f)
        <4>1. \E f \in Subjects : CastFor(L[i], local[i], k + 1, e, f)
            BY <1>1, <1>2, <1>14, <3>1, <3>2, CastCommandIs
        <4> QED BY <4>1 DEF CastFor
    <3>6. f = h
        BY <1>13, <2>1, <3>1, <3>2, <3>5
    <3>7. ~ CastOf(L[i], h, k)
        BY <1>6, <1>7, <2>3
    <3> QED BY <1>8, <3>2, <3>4, <3>5, <3>6, <3>7 DEF TakesTo
  <2> QED BY <2>2, <2>3
<1>22. Casts(L, i, k, T, new, S)
    BY <1>2, <1>3, <1>12, <1>17, <1>20, <1>21 DEF Casts
<1> QED BY <1>18, <1>19, <1>22

\* What a cast makes of an entity that it takes along.
AreTypes(T, l, h, b, A) == T = TypesAfter(l, h, b, A)
Taking(l, h, b, r, A, m, T, new) ==
    /\ AreTypes(new, l, h, b, A \cup {m})
    /\ Ref \in new /\ Ref \notin T => r = Null

LEMMA CastTakes ==
    ASSUME StorageInv, NEW L, Rec(L), NEW i, NEW k \in Nat, NEW T, NEW new, NEW S,
           Casts(L, i, k, T, new, S),
           NEW h \in Subjects, NEW m \in {k, k + 1}, TakesTo(L[i], k, m, h, T, new),
           ~ said[h].undone, Alone(L, i, h),
           NEW b \in SUBSET Type, NEW r \in Refs, Origin(L[i], h, b, r),
           NEW A, A \subseteq 1 .. k, AreTypes(T, L[i], h, b, A)
    PROVE  Taking(L[i], h, b, r, A, m, T, new)
<1>0. /\ T = TypesAfter(L[i], h, b, A)
      /\ CastOf(L[i], h, m) /\ (m = k + 1 => ~ CastOf(L[i], h, k))
      /\ new = (T \cup L[i].casts[m].extend) \ L[i].casts[m].shrink
    BY DEF TakesTo, AreTypes
<1>1. /\ i \in Slot /\ h \in Handles
    BY TakenIs DEF Casts, Subjects
<1>2. L[i] \in Local /\ CreatedOnce(L[i]) /\ HandleOK(L[i], h, said[h])
    BY <1>1 DEF Rec
<1>3. /\ m \in DOMAIN L[i].casts /\ L[i].casts[m].extend \subseteq Type
  <2>1. m \in DOMAIN L[i].casts
    BY <1>0 DEF CastOf
  <2>2. L[i].casts \in Seq(CastCommand)
    BY <1>2, LocalFields
  <2>3. L[i].casts[m] \in CastCommand
    BY ONLY <2>1, <2>2
  <2> QED BY <2>1, <2>3 DEF CastCommand
<1>4. \A j \in A : CastOf(L[i], h, j) => j <= m
    BY <1>0
<1>5. \A p, q \in Nat : CastOf(L[i], h, p) /\ CastOf(L[i], h, q) /\ p < q
          => L[i].casts[q].extend \cap L[i].casts[p].shrink = {}
    BY <1>2 DEF HandleOK, CastsWished
<1>6. A \in SUBSET Nat /\ m \in Nat
    OBVIOUS
<1>7. new = TypesAfter(L[i], h, b, A \cup {m})
    BY <1>0, <1>3, <1>4, <1>5, <1>6, CastApplies
<1>8. ASSUME Ref \in new, Ref \notin T PROVE r = Null
  <2>1. Ref \in Type
    BY BufferAssumption
  <2>2. \A j \in A : CastOf(L[i], h, j) => Ref \notin L[i].casts[j].shrink
    BY <1>7, <1>8 DEF TypesAfter
  <2>3. Ref \notin b
    BY <1>0, <1>8, <2>1, <2>2 DEF TypesAfter
  <2> QED BY <1>1, <1>2, <2>3, OriginIs
<1> QED BY <1>7, <1>8 DEF Taking, AreTypes

\* The casts of a local that its next turn counts in.
LEMMA AppliedAfterCast ==
    ASSUME NEW l, DOMAIN l.casts \subseteq Nat \ {0}, NEW i \in Nat, NEW k \in Nat,
           exec.phase = "cast", exec'.phase = "cast", exec.i = i, exec'.i = i,
           exec.k = k, exec'.k = k + 1, k \in DOMAIN l.casts,
           \A j \in Nat : Past(4, i, j) <=> j < k,
           \A j \in Nat : Past(4, i, j)' <=> j < k + 1,
           NEW A \in Applied(l, i)
    PROVE  /\ A \subseteq 1 .. k
           /\ A \cup {k} \in Applied(l, i)'
           /\ k + 1 \in DOMAIN l.casts => A \cup {k, k + 1} \in Applied(l, i)'
<1>1. PastCasts(l, i) = {j \in DOMAIN l.casts : j < k}
    BY DEF PastCasts
<1>2. PastCasts(l, i)' = {j \in DOMAIN l.casts : j < k + 1}
    BY DEF PastCasts
<1>3. A = PastCasts(l, i) \/ A = PastCasts(l, i) \cup {k}
    BY DEF Applied
<1>4. A \cup {k} = PastCasts(l, i)'
    BY <1>1, <1>2, <1>3
<1>5. A \cup {k} \in Applied(l, i)'
    BY <1>4 DEF Applied
<1>6. ASSUME k + 1 \in DOMAIN l.casts PROVE A \cup {k, k + 1} \in Applied(l, i)'
  <2>1. A \cup {k, k + 1} = PastCasts(l, i)' \cup ({k + 1} \cap DOMAIN l.casts)
    BY <1>4, <1>6
  <2> QED BY <2>1 DEF Applied
<1>7. A \subseteq 1 .. k
    BY <1>1, <1>3
<1> QED BY <1>5, <1>6, <1>7

LEMMA CastKeepsTypes ==
    ASSUME StorageInv, NEW L, LaterTurn(L, "cast"), NEW i, i = exec.i, NEW k, k = exec.k,
           NEW T, NEW new, NEW S, Casts(L, i, k, T, new, S),
           Moved(column', column, S, new), MovedRefs(ref', ref, T, new, S),
           NEW h \in Created, Alone(L, i, h),
           NEW b \in SUBSET Type, NEW r \in Refs, Origin(L[i], h, b, r)
    PROVE  TypeIs(L[i], i, h, b, r)'
<1>1. /\ Carried(L) /\ DataInv(L) /\ Rec(L) /\ ColumnInv /\ NewsInv(L) /\ ExecType(L)
      /\ Order("cast") = 4 /\ exec.phase = "cast" /\ exec'.phase = "cast"
      /\ i \in Taken /\ i \in Nat /\ k \in Nat /\ k >= 1
      /\ exec'.i = i /\ exec'.k = k + 1
      /\ said' = said /\ Created = Subjects /\ IdOf(h)' = IdOf(h)
    BY LaterTurnIs, OrderIs DEF LaterTurn
<1>2. \A q, s, j \in Nat : Past(q, s, j)' <=> Past(q, s, j) \/ (q = 4 /\ s = i /\ j = k)
    BY LaterTurnIs, OrderIs, SMTT(60)
<1>3. /\ \A j \in Nat : Past(4, i, j) <=> j < k
      /\ \A j \in Nat : Past(4, i, j)' <=> j < k + 1
      /\ ~ Past(5, i, 1) /\ ~ Past(5, i, 1)'
  <2>1. /\ \A j \in Nat : Past(4, i, j) <=> j < k
        /\ ~ Past(5, i, 1)
    BY <1>1 DEF Past
  <2> QED BY <1>1, <1>2, <2>1
<1>4. L[i] \in Local /\ DOMAIN L[i].casts \subseteq Nat \ {0} /\ k \in DOMAIN L[i].casts
  <2>1. L[i] \in Local
    BY <1>1, CarriedFields
  <2>2. DOMAIN L[i].casts = 1 .. Len(L[i].casts)
    BY <2>1, LocalFields
  <2> QED BY <2>1, <2>2 DEF Casts
<1>5. TypeIs(L[i], i, h, b, r)
    BY <1>1 DEF DataInv
<1>6. PICK id : id = IdOf(h) /\ id = IdOf(h)'
    BY <1>1
<1>7. SUFFICES ASSUME ~ said[h].undone
      PROVE  \E B \in Applied(L[i], i)' :
                \A U \in SUBSET Type : Contains(column'[U], id) =>
                    /\ U = TypesAfter(L[i], h, b, B)
                    /\ ref'[id] = IF Ref \in U THEN r ELSE Null
    BY <1>1, <1>6, OrderIs DEF TypeIs
<1>8. PICK A \in Applied(L[i], i) :
          \A U \in SUBSET Type : Contains(column[U], id) =>
              /\ U = TypesAfter(L[i], h, b, A)
              /\ ref[id] = IF Ref \in U THEN r ELSE Null
    BY <1>3, <1>5, <1>6, <1>7 DEF TypeIs
<1>9. /\ A \subseteq 1 .. k /\ A \cup {k} \in Applied(L[i], i)'
      /\ k + 1 \in DOMAIN L[i].casts => A \cup {k, k + 1} \in Applied(L[i], i)'
    BY <1>1, <1>3, <1>4, AppliedAfterCast
<1>10. id \in DOMAIN ref
  <2>1. IdOf(h) \in Nat /\ IdOf(h) < Top /\ Top <= Count + MaxNew /\ Top \in Nat
    BY <1>1, CreatedIs
  <2> QED BY <1>1, <1>6, <2>1, CountIs, BufferAssumption DEF DataInv
<1>11. CASE id \notin S
  <2>1. ~ CastOf(L[i], h, k)
    BY <1>1, <1>6, <1>11 DEF Casts
  <2>2. TypesAfter(L[i], h, b, A \cup {k}) = TypesAfter(L[i], h, b, A)
    BY <2>1, TypesAfterSame
  <2>3. ref'[id] = ref[id]
    BY <1>10, <1>11 DEF MovedRefs
  <2>4. \A U \in SUBSET Type : Contains(column'[U], id) => Contains(column[U], id)
    BY <1>11 DEF Moved
  <2> QED BY <1>8, <1>9, <2>2, <2>3, <2>4
<1>12. CASE id \in S
  <2>1. PICK m \in {k, k + 1} : TakesTo(L[i], k, m, h, T, new)
    BY <1>1, <1>6, <1>12 DEF Casts
  <2>2. T \in SUBSET Type /\ new \in SUBSET Type /\ Contains(column[T], id)
    BY <1>12 DEF Casts
  <2>3. T = TypesAfter(L[i], h, b, A) /\ ref[id] = IF Ref \in T THEN r ELSE Null
    BY <1>8, <2>2
  <2>4. /\ new = TypesAfter(L[i], h, b, A \cup {m})
        /\ Ref \in new /\ Ref \notin T => r = Null
    <3>1. AreTypes(T, L[i], h, b, A)
        BY <2>3 DEF AreTypes
    <3>2. Taking(L[i], h, b, r, A, m, T, new)
        BY <1>1, <1>7, <1>9, <2>1, <3>1, CastTakes, ZenonT(40)
    <3> QED BY <3>2 DEF Taking, AreTypes
  <2>5. ref'[id] = IF Ref \in new THEN r ELSE Null
    <3>1. CASE ref'[id] = ref[id] /\ (new = T \/ (Ref \in new /\ Ref \in T))
        BY <2>3, <3>1
    <3>2. CASE ref'[id] = Null /\ ~ (Ref \in new /\ Ref \in T)
        BY <2>4, <3>2
    <3> QED BY <1>10, <1>12, <3>1, <3>2 DEF MovedRefs
  <2>6. \A U \in SUBSET Type : Contains(column'[U], id) => U = new
    BY <1>12 DEF Moved
  <2>7. CASE m = k
    <3>1. PICK B \in Applied(L[i], i)' : B = A \cup {k}
        BY <1>9
    <3>2. TypesAfter(L[i], h, b, B) = new
        BY <2>4, <2>7, <3>1
    <3> QED BY ONLY <2>5, <2>6, <3>1, <3>2
  <2>8. CASE m = k + 1
    <3>1. k + 1 \in DOMAIN L[i].casts
        BY <2>1, <2>8 DEF TakesTo, CastOf
    <3>2. PICK B \in Applied(L[i], i)' : B = A \cup {k, k + 1}
        BY <1>9, <3>1
    <3>3. TypesAfter(L[i], h, b, A \cup {k, k + 1}) = TypesAfter(L[i], h, b, A \cup {k + 1})
        <4>1. \A j : CastOf(L[i], h, j) => (j \in A \cup {k, k + 1} <=> j \in A \cup {k + 1})
            BY <2>1, <2>8 DEF TakesTo
        <4> QED BY <4>1, TypesAfterSame
    <3>4. TypesAfter(L[i], h, b, B) = new
        BY <2>4, <2>8, <3>2, <3>3
    <3> QED BY ONLY <2>5, <2>6, <3>2, <3>4
  <2> QED BY <2>1, <2>7, <2>8
<1> QED BY <1>11, <1>12

LEMMA ExecuteCastKeeps ==
    ASSUME StorageInv, NEW L, Carried(L), ExecInv(L), ~ Failed, ExecuteCast,
           NEW i, i = exec.i, NEW k, k = exec.k
    PROVE  Carried(L)' /\ ExecInv(L)'
<1>1. LaterTurn(L, "cast") /\ UNCHANGED local
    BY DEF ExecuteCast, LaterTurn, Unchanged
<1>2. /\ ExecType(L) /\ Mirrors(L) /\ NewsInv(L) /\ ColumnInv /\ LivingInv(L)
      /\ DataInv(L) /\ Rec(L) /\ ExecType(L)' /\ NewsInv(L)'
      /\ Order("cast") = 4 /\ exec.phase = "cast" /\ exec'.phase = "cast"
      /\ i \in Taken /\ i \in Nat /\ k \in Nat
      /\ Taken' = Taken /\ said' = said /\ Top' = Top
      /\ Created = Subjects /\ Created' = Created
      /\ \A h : IdOf(h)' = IdOf(h) /\ Resolved(h)' = Resolved(h)
    BY <1>1, LaterTurnIs, OrderIs
<1>3. \A q, s, j \in Nat :
          Past(q, s, j)' <=> Past(q, s, j) \/ (q = 4 /\ s = i /\ j = k)
    BY <1>1, LaterTurnIs, OrderIs
<1>4. PICK T, new, S : /\ Casts(L, i, k, T, new, S)
                       /\ ColumnsOK(column') /\ Moved(column', column, S, new)
                       /\ MovedRefs(ref', ref, T, new, S)
    BY CastIs
<1>5. Carried(L)'
    BY <1>1, CarriedStays DEF LaterTurn
<1>6. Mirrors(L)'
  <2>1. \A s \in Taken : Past(3, s, 1)' <=> Past(3, s, 1)
    BY <1>3, TakenIs
  <2>2. \A l : ResolvedLocal(l)' = ResolvedLocal(l)
    BY <1>2 DEF ResolvedLocal
  <2> QED BY <1>1, <1>2, <2>1, <2>2 DEF Mirrors
<1>7. \A x : (\E U \in SUBSET Type : Contains(column'[U], x))
                 <=> \E U \in SUBSET Type : Contains(column[U], x)
    BY <1>4 DEF Moved, Casts
<1>8. ColumnInv'
  <2>1. ASSUME NEW U \in SUBSET Type, NEW x \in Nat, Contains(column'[U], x) PROVE x < Top
    BY <1>2, <1>7, <2>1 DEF ColumnInv
  <2> QED BY <1>2, <1>4, <2>1 DEF ColumnInv
<1>9. LivingInv(L)'
  <2>1. \A x : Living(x)' <=> Living(x)
    BY <1>7 DEF Living
  <2>2. ASSUME NEW s \in Taken, NEW j \in DOMAIN L[s].destroies
        PROVE  Past(6, s, j)' <=> Past(6, s, j)
    <3>1. s \in Nat /\ j \in Nat
        BY TakenIs, CarriedFields, LocalFields
    <3> QED BY <1>3, <3>1
  <2> QED BY <1>2, <2>1, <2>2 DEF LivingInv
<1>10. ASSUME NEW s \in Taken, NEW h \in Created, Alone(L, s, h), s # i
       PROVE  /\ \A b \in SUBSET Type, r \in Refs :
                    Origin(L[s], h, b, r) => TypeIs(L[s], s, h, b, r)'
              /\ RefIs(s, h)'
  <2>1. IdOf(h) \notin S
    <3>1. ASSUME IdOf(h) \in S PROVE FALSE
        <4>1. PICK m \in {k, k + 1} : CastOf(L[i], h, m)
            BY <1>2, <1>4, <3>1 DEF Casts, TakesTo
        <4>2. i \in Slot /\ L[i] \in Local /\ Listed(L[i]) /\ m \in Nat /\ h \in Handles
            BY <1>2, CarriedFields DEF Subjects
        <4>3. Mentions(L[i], h)
            BY <4>1, <4>2, CommandMentions
        <4> QED BY <1>10, <4>2, <4>3 DEF Alone
    <3> QED BY <3>1
  <2>2. \A U \in SUBSET Type : Contains(column'[U], IdOf(h)) => Contains(column[U], IdOf(h))
    BY <1>4, <2>1 DEF Moved
  <2>3. ref'[IdOf(h)] = ref[IdOf(h)]
    <3>1. IdOf(h) \in Nat /\ IdOf(h) < Top /\ Top <= Count + MaxNew /\ Top \in Nat
        BY <1>2, CreatedIs
    <3>2. IdOf(h) \in DOMAIN ref
        BY <1>2, <3>1, CountIs, BufferAssumption DEF DataInv
    <3> QED BY <1>4, <2>1, <3>2 DEF MovedRefs
  <2> QED BY <1>1, <1>10, <2>2, <2>3, LaterTurnLeaves
<1>11. ASSUME NEW h \in Created, Alone(L, i, h)
       PROVE  /\ \A b \in SUBSET Type, r \in Refs :
                    Origin(L[i], h, b, r) => TypeIs(L[i], i, h, b, r)'
              /\ RefIs(i, h)'
  <2>1. ~ Past(5, i, 1)'
    <3>1. ~ Past(5, i, 1)
        BY <1>2 DEF Past
    <3> QED BY <1>2, <1>3, <3>1
  <2>2. RefIs(i, h)'
    BY <2>1 DEF RefIs
  <2>3. ASSUME NEW b \in SUBSET Type, NEW r \in Refs, Origin(L[i], h, b, r)
        PROVE  TypeIs(L[i], i, h, b, r)'
    BY <1>1, <1>4, <1>11, <2>3, CastKeepsTypes
  <2> QED BY <2>2, <2>3
<1>12. DataInv(L)'
  <2>1. DOMAIN ref' = 0 .. Count + MaxNew - 1
    BY <1>2, <1>4 DEF DataInv, MovedRefs
  <2>2. \A s \in Taken, h \in Created : Alone(L, s, h) =>
            /\ \A b \in SUBSET Type, r \in Refs :
                  Origin(L[s], h, b, r) => TypeIs(L[s], s, h, b, r)'
            /\ RefIs(s, h)'
    BY <1>10, <1>11
  <2> QED BY <1>2, <2>1, <2>2 DEF DataInv
<1> QED BY <1>2, <1>5, <1>6, <1>8, <1>9, <1>12 DEF ExecInv

-----------------------------------------------------------------------------
(* Destroying.                                                             *)

\* The entity that is destroyed.
Destroyed(h, x) == h \in Subjects /\ IdOf(h) = x /\ said[h].destroyed

LEMMA DestroyCommandIs ==
    ASSUME StorageInv, NEW L, Carried(L), ExecInv(L), ~ Failed,
           NEW i \in Taken, NEW j \in DOMAIN L[i].destroies, NEW h, h = L[i].destroies[j]
    PROVE  local[i].destroies[j] = h /\ Destroyed(h, h.id)
<1>1. /\ L[i] \in Local /\ i \in Slot /\ local[i].destroies = L[i].destroies /\ Rec(L)
    BY CarriedFields DEF Carried
<1>2. h \in Handles /\ j \in Nat
  <2>1. L[i].destroies \in Seq(Handles)
    BY <1>1, LocalFields
  <2> QED BY ONLY <2>1, j \in DOMAIN L[i].destroies, h = L[i].destroies[j]
<1>3. IdOf(h) = h.id
  <2>1. ~ h.transient
    BY NothingFailed
  <2> QED BY <2>1 DEF IdOf
<1>4. h \in Subjects /\ Alone(L, i, h)
  <2>1. Mentions(L[i], h)
    BY DEF Mentions
  <2> QED BY <1>1, <1>2, <2>1, HomeIs
<1>5. said[h].destroyed
  <2>1. HandleOK(L[i], h, said[h])
    BY <1>1, <1>4 DEF Rec
  <2>2. DestroyOf(L[i], h, j)
    BY DEF DestroyOf
  <2> QED BY <1>2, <2>1, <2>2 DEF HandleOK
<1> QED BY <1>1, <1>3, <1>4, <1>5 DEF Destroyed

\* The turn of the destroy k takes the entities S away.
LEMMA DestroyIs ==
    ASSUME StorageInv, NEW L, Carried(L), ExecInv(L), ~ Failed, ExecuteDestroy,
           NEW i, i = exec.i, NEW k, k = exec.k, exec'.phase # "crashed"
    PROVE  \E S : /\ ColumnsOK(column') /\ Loses(column', column, S)
                  /\ \A x \in S : \E h : Destroyed(h, x)
                  /\ L[i].destroies[k].id \in S
                  /\ exec' = [exec EXCEPT !.k = @ + 1]
<1>1. /\ ExecType(L) /\ ColumnInv /\ Turn("destroy")
    BY DEF ExecInv, ExecuteDestroy
<1>2. /\ i \in Taken /\ k \in Nat /\ k >= 1 /\ Turns = Work("destroy", L[i]) /\ k <= Turns
      /\ Turns \in Nat /\ exec.phase = "destroy"
    BY <1>1, TurnIs
<1>3. /\ local[i].destroies = L[i].destroies
      /\ DOMAIN L[i].destroies = 1 .. Turns /\ k \in DOMAIN L[i].destroies
  <2>1. L[i] \in Local /\ local[i].destroies = L[i].destroies
    BY <1>2, CarriedFields
  <2>2. Turns = Len(L[i].destroies)
    BY <1>2, <2>1, WorkIs
  <2>3. DOMAIN L[i].destroies = 1 .. Len(L[i].destroies)
    BY <2>1, LocalFields
  <2>4. DOMAIN L[i].destroies = 1 .. Turns
    BY ONLY <2>2, <2>3
  <2>5. k \in DOMAIN L[i].destroies
    BY ONLY <1>2, <2>4
  <2> QED BY ONLY <2>1, <2>4, <2>5
<1>4. PICK h, id, T : h = L[i].destroies[k] /\ id = h.id /\ T = TypesOf(id)
    OBVIOUS
<1>5. Destroyed(h, id)
    BY <1>2, <1>3, <1>4, DestroyCommandIs
<1>6. PICK next : next = L[i].destroies[k + 1].id
    OBVIOUS
<1>7. PICK count : count = IF k < Turns /\ Adjacent(id, next) THEN 2 ELSE 1
    OBVIOUS
<1>8. /\ count \in 1 .. 2
      /\ count = 2 => k + 1 \in DOMAIN L[i].destroies /\ Adjacent(id, next)
  <2>1. k < Turns => k + 1 \in 1 .. Turns
    BY ONLY <1>2
  <2> QED BY ONLY <1>3, <1>7, <2>1
<1>9. Living(id) /\ column' = [column EXCEPT ![T] = Without(id, count)]
      /\ exec' = [exec EXCEPT !.k = @ + 1]
  <2>1. Now.destroies = L[i].destroies
    BY <1>3 DEF Now
  <2>2. IF Living(id)
        THEN /\ column' = [column EXCEPT ![T] = Without(id, count)]
             /\ exec' = [exec EXCEPT !.k = @ + 1]
        ELSE exec' = [exec EXCEPT !.phase = "crashed"] /\ UNCHANGED column
    BY <1>4, <1>6, <1>7, <2>1 DEF ExecuteDestroy
  <2>3. exec = [phase |-> exec.phase, i |-> exec.i, k |-> exec.k, news |-> exec.news]
    BY <1>1 DEF ExecType
  <2>4. exec' = [exec EXCEPT !.phase = "crashed"] => exec'.phase = "crashed"
    BY <2>3
  <2> QED BY <2>2, <2>4
<1>10. PICK S : S = IF count = 2 THEN {id, next} ELSE {id}
    OBVIOUS
<1>11. PICK w : w = Without(id, count)
    OBVIOUS
<1>12. Once(w) /\ Minus(w, column[T], S)
  <2>1. TakenOut(SliceOf(id, count), Without(id, count), column[TypesOf(id)], count, S)
    BY <1>1, <1>8, <1>9, <1>10, SliceIs
  <2> QED BY <1>4, <1>11, <2>1 DEF TakenOut
<1>13. ColumnsOK(column') /\ Loses(column', column, S)
  <2>1. ColumnsOK(column) /\ T \in SUBSET Type
    BY <1>1, <1>4, <1>9, LivingIs DEF ColumnInv
  <2>2. column' = [column EXCEPT ![T] = w]
    BY <1>9, <1>11
  <2> QED BY <1>12, <2>1, <2>2, ColumnLoses
<1>14. ASSUME NEW x \in S PROVE \E g : Destroyed(g, x)
  <2>1. CASE x = id
    BY <1>5, <2>1
  <2>2. CASE x # id
    <3>1. count = 2 /\ x = next
        BY <1>10, <1>14, <2>2
    <3>2. PICK g : g = L[i].destroies[k + 1]
        OBVIOUS
    <3>3. Destroyed(g, g.id)
        BY <1>2, <1>8, <3>1, <3>2, DestroyCommandIs
    <3> QED BY <1>6, <3>1, <3>2, <3>3
  <2> QED BY <2>1, <2>2
<1>15. L[i].destroies[k].id \in S
    BY <1>4, <1>10
<1> QED BY <1>9, <1>13, <1>14, <1>15

LEMMA ExecuteDestroyKeeps ==
    ASSUME StorageInv, NEW L, Carried(L), ExecInv(L), ~ Failed, ExecuteDestroy,
           NEW i, i = exec.i, NEW k, k = exec.k
    PROVE  Carried(L)' /\ (Failed' \/ ExecInv(L)')
<1>1. UNCHANGED <<local, ref>> /\ UNCHANGED <<storageVars, allocates, said>> /\ Turn("destroy")
    BY DEF ExecuteDestroy, Unchanged
<1>2. Carried(L)'
    BY <1>1, CarriedStays
<1>3. CASE exec'.phase = "crashed"
    BY <1>2, <1>3 DEF Failed
<1>4. CASE exec'.phase # "crashed"
  <2>1. PICK S : /\ ColumnsOK(column') /\ Loses(column', column, S)
                 /\ \A x \in S : \E h : Destroyed(h, x)
                 /\ L[i].destroies[k].id \in S
                 /\ exec' = [exec EXCEPT !.k = @ + 1]
    BY <1>4, DestroyIs
  <2>2. LaterTurn(L, "destroy")
    BY <1>1, <2>1 DEF LaterTurn
  <2>3. /\ ExecType(L) /\ Mirrors(L) /\ NewsInv(L) /\ ColumnInv /\ LivingInv(L)
        /\ DataInv(L) /\ Rec(L) /\ ExecType(L)' /\ NewsInv(L)'
        /\ Order("destroy") = 6 /\ exec.phase = "destroy" /\ exec'.phase = "destroy"
        /\ i \in Taken /\ i \in Nat /\ k \in Nat
        /\ Taken' = Taken /\ said' = said /\ Top' = Top
        /\ Created = Subjects /\ Created' = Created
        /\ \A h : IdOf(h)' = IdOf(h) /\ Resolved(h)' = Resolved(h)
    BY <2>2, LaterTurnIs, OrderIs
  <2>4. \A q, s, j \in Nat :
            Past(q, s, j)' <=> Past(q, s, j) \/ (q = 6 /\ s = i /\ j = k)
    BY <2>2, LaterTurnIs, OrderIs
  <2>5. \A U \in SUBSET Type : \A x :
            Contains(column'[U], x) <=> Contains(column[U], x) /\ x \notin S
    BY <2>1 DEF Loses
  <2>6. Mirrors(L)'
    <3>1. \A s \in Taken : Past(3, s, 1)' <=> Past(3, s, 1)
        BY <2>4, TakenIs
    <3>2. \A l : ResolvedLocal(l)' = ResolvedLocal(l)
        BY <2>3 DEF ResolvedLocal
    <3> QED BY <1>1, <2>3, <3>1, <3>2 DEF Mirrors
  <2>7. ColumnInv'
    <3>1. ASSUME NEW U \in SUBSET Type, NEW x \in Nat, Contains(column'[U], x) PROVE x < Top
        BY <2>3, <2>5, <3>1 DEF ColumnInv
    <3> QED BY <2>1, <2>3, <3>1 DEF ColumnInv
  <2>8. \A x : Living(x)' <=> Living(x) /\ x \notin S
    BY <2>5 DEF Living
  <2>9. LivingInv(L)'
    <3>1. ASSUME NEW h \in Created
          PROVE  Living(IdOf(h))' \/ (Order(exec'.phase) >= 6 /\ said[h].destroyed)
        <4>1. Living(IdOf(h)) \/ said[h].destroyed
            BY <2>3 DEF LivingInv
        <4>2. IdOf(h) \in S => said[h].destroyed
            <5>1. \A f, g \in Subjects : IdOf(f) = IdOf(g) => f = g
                BY <2>3, CreatedIs
            <5> QED BY <2>1, <2>3, <5>1 DEF Destroyed
        <4>3. Living(IdOf(h))' \/ said[h].destroyed
            BY <2>3, <2>8, <4>1, <4>2
        <4> QED BY <2>3, <4>3
    <3>2. ASSUME NEW s \in Taken, NEW j \in DOMAIN L[s].destroies, Past(6, s, j)'
          PROVE  ~ Living(L[s].destroies[j].id)'
        <4>1. s \in Nat /\ j \in Nat
            BY TakenIs, CarriedFields, LocalFields
        <4>2. Past(6, s, j) \/ (s = i /\ j = k)
            BY <2>4, <3>2, <4>1
        <4>3. CASE Past(6, s, j)
            BY <2>3, <2>8, <4>3 DEF LivingInv
        <4>4. CASE s = i /\ j = k
            BY <2>1, <2>8, <4>4
        <4> QED BY <4>2, <4>3, <4>4
    <3> QED BY <2>3, <3>1, <3>2 DEF LivingInv
  <2>10. DataInv(L)'
    <3>1. DOMAIN ref' = 0 .. Count + MaxNew - 1
        BY <1>1, <2>3 DEF DataInv
    <3>2. \A s \in Taken, h \in Created : Alone(L, s, h) =>
              /\ \A b \in SUBSET Type, r \in Refs :
                    Origin(L[s], h, b, r) => TypeIs(L[s], s, h, b, r)'
              /\ RefIs(s, h)'
        BY <1>1, <2>2, <2>5, LaterTurnLeaves
    <3> QED BY <2>3, <3>1, <3>2 DEF DataInv
  <2> QED BY <1>2, <2>3, <2>6, <2>7, <2>9, <2>10 DEF ExecInv
<1> QED BY <1>3, <1>4

-----------------------------------------------------------------------------
(* Every step keeps what is true of the buffer.                            *)

LEMMA InitBufferInv ==
    ASSUME Init
    PROVE  BufferInv
<1>1. /\ local = [s \in Slot |-> NoLocal] /\ allocates = 0
      /\ said = [h \in Handles |-> IF h.transient THEN Untouched
                                   ELSE [Untouched EXCEPT !.types = FirstType[h.id],
                                                          !.ref = FirstRef[h.id]]]
      /\ exec = [phase |-> "record", i |-> 0, k |-> 1, news |-> <<>>]
    BY DEF Init
<1>2. NoLocal \in Local /\ Listed(NoLocal) /\ \A h : ~ Mentions(NoLocal, h)
    BY DEF NoLocal, Local, Listed, Mentions
<1>3. \A h, j : /\ ~ AllocateOf(NoLocal, h, j) /\ ~ InstantiateOf(NoLocal, h, j)
                /\ ~ CastOf(NoLocal, h, j) /\ ~ SetOf(NoLocal, h, j)
                /\ ~ PatchOf(NoLocal, h, j) /\ ~ DestroyOf(NoLocal, h, j)
    BY DEF NoLocal, AllocateOf, InstantiateOf, CastOf, SetOf, PatchOf, DestroyOf
<1>4. CreatedOnce(NoLocal)
    BY <1>3 DEF CreatedOnce
<1>5. ASSUME NEW h \in Handles, ~ h.transient
      PROVE  /\ FirstType[h.id] \in SUBSET Type /\ FirstRef[h.id] \in Refs
             /\ h.id \in Ids
    BY <1>5, HandlesAre, BufferAssumption DEF Refs
<1>6. /\ Untouched = [types |-> {}, ref |-> Null, set |-> FALSE, patched |-> FALSE,
                      taken |-> {}, undone |-> FALSE, kept |-> FALSE, destroyed |-> FALSE]
      /\ Untouched \in Wish
    BY DEF Untouched, Wish
<1>7. said \in [Handles -> Wish]
  <2>1. ASSUME NEW h \in Handles PROVE said[h] \in Wish
    <3>1. CASE h.transient
        BY <1>1, <1>6, <3>1
    <3>2. CASE ~ h.transient
        BY <1>1, <1>5, <1>6, <3>2 DEF Wish, Refs
    <3> QED BY <3>1, <3>2
  <2> QED BY <1>1, <2>1
<1>8. \A h \in Subjects : h \in Handles /\ ~ h.transient
  <2>1. \A h \in Handles : h.transient => ~ (h.id < 0)
    BY HandlesAre, BufferAssumption
  <2> QED BY <1>1, <2>1 DEF Subjects
<1>9. ASSUME NEW h \in Subjects PROVE HandleOK(NoLocal, h, said[h])
  <2>1. PICK b, r, w : b = FirstType[h.id] /\ r = FirstRef[h.id] /\ w = said[h]
    OBVIOUS
  <2>2. b \in SUBSET Type /\ r \in Refs
    BY <1>5, <1>8, <2>1
  <2>3. \A c \in SUBSET Type, q \in Refs : Origin(NoLocal, h, c, q) => c = b /\ q = r
    BY <1>3, <2>1 DEF Origin
  <2>4. w = [Untouched EXCEPT !.types = b, !.ref = r]
    BY <1>1, <1>8, <2>1
  <2>5. /\ w.types = b /\ w.ref = r /\ w.taken = {}
        /\ ~ w.set /\ ~ w.patched /\ ~ w.undone /\ ~ w.kept /\ ~ w.destroyed
    BY <1>6, <2>4
  <2> QED BY <1>3, <2>1, <2>2, <2>3, <2>5, HandleOKAtFirst
<1>10. Rec(local)
  <2>1. allocates \in 0 .. MaxNew
    <3>1. MaxNew \in Nat
        BY BufferAssumption
    <3>2. allocates = 0
        BY <1>1
    <3> QED BY ONLY <3>1, <3>2
  <2>2. local \in [Slot -> Local] /\ \A s \in Slot : local[s] = NoLocal
    BY <1>1, <1>2
  <2>3. \A s \in Slot : Listed(local[s]) /\ CreatedOnce(local[s])
    BY <1>2, <1>4, <2>2
  <2>4. \A s \in Slot, h \in Handles : ~ Mentions(local[s], h)
    BY <1>2, <2>2
  <2>5. \A s \in Slot, h \in Subjects : HandleOK(local[s], h, said[h])
    BY <1>9, <2>2
  <2> QED BY <1>7, <1>8, <2>1, <2>2, <2>3, <2>4, <2>5 DEF Rec
<1>11. Start
    BY DEF Start, Init
<1>12. exec.phase = "record"
    BY <1>11 DEF Start
<1> QED BY <1>10, <1>11, <1>12 DEF BufferInv

LEMMA RecordingStart ==
    ASSUME Start, NEW t \in Thread, Recording(t)
    PROVE  Start'
<1> SUFFICES UNCHANGED <<exec, column, ref>>
    BY DEF Start
<1>1. CASE UNCHANGED bufferVars
    BY <1>1 DEF bufferVars
<1>2. ASSUME NEW h \in Known(t), Begin(t, h) \/ Destroy(t, h)
      PROVE  UNCHANGED <<exec, column, ref>>
    BY <1>2 DEF Begin, Destroy, Record
<1>3. ASSUME NEW types \in Given, Allocate(t, types) PROVE UNCHANGED <<exec, column, ref>>
    BY <1>3 DEF Allocate, Record
<1>4. ASSUME NEW source \in Task[t], Instantiate(t, source)
      PROVE  UNCHANGED <<exec, column, ref>>
    BY <1>4 DEF Instantiate, Record
<1>5. ASSUME NEW d \in Diff, Cast(t, d) PROVE UNCHANGED <<exec, column, ref>>
    BY <1>5 DEF Cast, Record
<1>6. ASSUME NEW h \in Known(t), SetComponent(t, h) PROVE UNCHANGED <<exec, column, ref>>
    BY <1>6 DEF SetComponent, Record
<1>7. CASE PatchComponent(t)
    BY <1>7 DEF PatchComponent, Record
<1> QED BY <1>1, <1>2, <1>3, <1>4, <1>5, <1>6, <1>7 DEF Recording

LEMMA ExecutingKeeps ==
    ASSUME StorageInv, NEW L, Carried(L), ExecInv(L), ~ Failed, Executing
    PROVE  Carried(L)' /\ (Failed' \/ ExecInv(L)')
<1>1. PICK i, k : i = exec.i /\ k = exec.k
    OBVIOUS
<1>2. CASE NextLocal
  <2>1. Carried(L)'
    BY <1>2, NextPast DEF ExecInv
  <2> QED BY <1>2, <2>1, NextLocalKeeps
<1>3. CASE Spin
  <2>1. exec = [phase |-> exec.phase, i |-> exec.i, k |-> exec.k, news |-> exec.news]
    BY DEF ExecInv, ExecType
  <2> QED BY <1>3, <2>1, SpinFails
<1>4. CASE ExecuteAllocate
    BY <1>4, ExecuteAllocateKeeps
<1>5. CASE ExecuteInstantiate
    BY <1>5, ExecuteInstantiateKeeps
<1>6. CASE ExecuteResolve
    BY <1>1, <1>6, ExecuteResolveKeeps
<1>7. CASE ExecuteCast
    BY <1>1, <1>7, ExecuteCastKeeps
<1>8. CASE ExecuteSet
    BY <1>1, <1>8, ExecuteSetKeeps
<1>9. CASE ExecuteDestroy
    BY <1>1, <1>9, ExecuteDestroyKeeps
<1> QED BY <1>2, <1>3, <1>4, <1>5, <1>6, <1>7, <1>8, <1>9 DEF Executing

\* While it executes nobody records.
LEMMA Executes ==
    ASSUME NEW L, ExecType(L)'
    PROVE  ExecRecord' /\ exec'.phase # "record"
<1>1. /\ exec' = [phase |-> exec'.phase, i |-> exec'.i, k |-> exec'.k, news |-> exec'.news]
      /\ exec'.phase = "done" \/ \E q \in 1 .. 6 : exec'.phase = Phases[q]
    BY DEF ExecType
<1> QED BY <1>1, OrderIs DEF ExecRecord

\* What has failed stays so.
LEMMA FailedStays ==
    ASSUME StorageInv, NEW L, Carried(L), Failed, ExecRecord, exec.phase # "record", Executing
    PROVE  Carried(L)' /\ Failed' /\ ExecRecord' /\ exec'.phase # "record"
<1>1. exec.phase \notin {"spinning", "crashed"} /\ (Lost \/ Mistaken)
  <2>1. \A q \in 1 .. 6 : Phases[q] \notin {"spinning", "crashed"}
    BY OrderIs
  <2>2. NextLocal => exec.phase \notin {"spinning", "crashed"}
    BY <2>1, OrderIs DEF NextLocal
  <2>3. exec.phase \notin {"spinning", "crashed"}
    BY <2>2 DEF Executing, Spin, ExecuteAllocate, ExecuteInstantiate, ExecuteResolve,
                ExecuteCast, ExecuteSet, ExecuteDestroy, Turn
  <2> QED BY <2>3 DEF Failed
<1>2. CASE NextLocal
  <2>1. PICK V : V \subseteq Visits /\ Enter(V)
    <3>1. PICK p \in DOMAIN Phases : Enter({v \in Visits : Before(<<p, exec.i>>, v)})
        BY <1>2 DEF NextLocal
    <3> QED BY <3>1
  <2>2. Taken # {}
    BY <1>1 DEF Lost, Mistaken, Recorded, Taken
  <2>3. ExecType(L)' /\ Carried(L)' /\ (Failed' <=> Lost \/ Mistaken)
    BY <2>1, <2>2, Entered DEF ExecRecord
  <2> QED BY <1>1, <2>3, Executes
<1>3. ASSUME UNCHANGED <<storageVars, allocates, said>>,
             \/ local' = local
             \/ \E i, es : local' = [local EXCEPT ![i].entities = es],
             exec' = [exec EXCEPT !.phase = "spinning"]
                 \/ exec' = [exec EXCEPT !.phase = "crashed"]
                 \/ \E k, news : exec' = [exec EXCEPT !.k = k, !.news = news]
      PROVE  Carried(L)' /\ Failed' /\ ExecRecord' /\ exec'.phase # "record"
  <2>1. Carried(L)' /\ (Lost' \/ Mistaken')
    BY <1>1, <1>3, CarriedStays
  <2>2. ExecRecord' /\ exec'.phase # "record"
    BY <1>3 DEF ExecRecord
  <2> QED BY <2>1, <2>2 DEF Failed
<1>4. exec' = [exec EXCEPT !.k = @ + 1] =>
          \E k, news : exec' = [exec EXCEPT !.k = k, !.news = news]
  <2>1. exec' = [exec EXCEPT !.k = @ + 1] =>
            exec' = [exec EXCEPT !.k = exec.k + 1, !.news = exec.news]
    BY DEF ExecRecord
  <2> QED BY <2>1
<1> USE DEF Unchanged
<1>5. CASE Spin
    BY <1>3, <1>5 DEF Spin
<1>6. ASSUME NEW e, NEW types, NEW value, Create(e, types, value)
      PROVE  Carried(L)' /\ Failed' /\ ExecRecord' /\ exec'.phase # "record"
    BY <1>3, <1>6 DEF Create
<1>7. CASE ExecuteAllocate
    BY <1>6, <1>7 DEF ExecuteAllocate
<1>8. CASE ExecuteInstantiate
    BY <1>6, <1>8 DEF ExecuteInstantiate
<1>9. CASE ExecuteResolve
  <2>1. exec' = [exec EXCEPT !.k = @ + 1]
    BY <1>9 DEF ExecuteResolve
  <2> QED BY <1>3, <1>4, <1>9, <2>1 DEF ExecuteResolve
<1>10. CASE ExecuteCast
  <2>1. exec' = [exec EXCEPT !.k = @ + 1]
    BY <1>10 DEF ExecuteCast
  <2> QED BY <1>3, <1>4, <1>10, <2>1 DEF ExecuteCast
<1>11. CASE ExecuteSet
  <2>1. exec' = [exec EXCEPT !.k = @ + 1]
    BY <1>11 DEF ExecuteSet
  <2> QED BY <1>3, <1>4, <1>11, <2>1 DEF ExecuteSet
<1>12. CASE ExecuteDestroy
  <2>1. exec' = [exec EXCEPT !.k = @ + 1] \/ exec' = [exec EXCEPT !.phase = "crashed"]
    BY <1>12 DEF ExecuteDestroy
  <2> QED BY <1>3, <1>4, <1>12, <2>1 DEF ExecuteDestroy
<1> QED BY <1>2, <1>5, <1>7, <1>8, <1>9, <1>10, <1>11, <1>12 DEF Executing

\* While execute runs its place is that of a phase.
LEMMA ExecutingRecord ==
    ASSUME StorageInv, NEW L, Carried(L), ExecInv(L), Executing
    PROVE  ExecRecord' /\ exec'.phase # "record"
<1>1. ExecRecord /\ exec.phase # "record"
    BY PhaseIs DEF ExecInv, ExecType, ExecRecord
<1>2. CASE NextLocal
  <2>1. ExecType(L)'
    BY <1>2, NextPast DEF ExecInv
  <2> QED BY <2>1, Executes
<1>3. ASSUME \/ exec' = [exec EXCEPT !.phase = "spinning"]
             \/ exec' = [exec EXCEPT !.phase = "crashed"]
             \/ \E k, news : exec' = [exec EXCEPT !.k = k, !.news = news]
      PROVE  ExecRecord' /\ exec'.phase # "record"
    BY <1>1, <1>3 DEF ExecRecord
<1>4. exec' = [exec EXCEPT !.k = @ + 1] =>
          \E k, news : exec' = [exec EXCEPT !.k = k, !.news = news]
  <2>1. exec' = [exec EXCEPT !.k = @ + 1] =>
            exec' = [exec EXCEPT !.k = exec.k + 1, !.news = exec.news]
    BY <1>1 DEF ExecRecord
  <2> QED BY <2>1
<1>5. CASE Spin
    BY <1>3, <1>5 DEF Spin
<1>6. ASSUME NEW e, NEW types, NEW value, Create(e, types, value)
      PROVE  ExecRecord' /\ exec'.phase # "record"
    BY <1>3, <1>6 DEF Create
<1>7. CASE ExecuteAllocate
    BY <1>6, <1>7 DEF ExecuteAllocate
<1>8. CASE ExecuteInstantiate
    BY <1>6, <1>8 DEF ExecuteInstantiate
<1>9. CASE ExecuteResolve
  <2>1. exec' = [exec EXCEPT !.k = @ + 1]
    BY <1>9 DEF ExecuteResolve
  <2> QED BY <1>3, <1>4, <1>9, <2>1 DEF ExecuteResolve
<1>10. CASE ExecuteCast
  <2>1. exec' = [exec EXCEPT !.k = @ + 1]
    BY <1>10 DEF ExecuteCast
  <2> QED BY <1>3, <1>4, <1>10, <2>1 DEF ExecuteCast
<1>11. CASE ExecuteSet
  <2>1. exec' = [exec EXCEPT !.k = @ + 1]
    BY <1>11 DEF ExecuteSet
  <2> QED BY <1>3, <1>4, <1>11, <2>1 DEF ExecuteSet
<1>12. CASE ExecuteDestroy
  <2>1. exec' = [exec EXCEPT !.k = @ + 1] \/ exec' = [exec EXCEPT !.phase = "crashed"]
    BY <1>12 DEF ExecuteDestroy
  <2> QED BY <1>3, <1>4, <1>12, <2>1 DEF ExecuteDestroy
<1> QED BY <1>2, <1>5, <1>7, <1>8, <1>9, <1>10, <1>11, <1>12 DEF Executing

\* A stuttering step.
LEMMA BufferInvStays ==
    ASSUME BufferInv, UNCHANGED <<ids, slots, constructed, get, local, allocates, commands,
                                  said, column, ref, exec>>
    PROVE  BufferInv'
<1>1. /\ ids' = ids /\ slots' = slots /\ local' = local /\ allocates' = allocates
      /\ said' = said /\ column' = column /\ ref' = ref /\ exec' = exec
    OBVIOUS
<1>2. Taken' = Taken /\ Subjects' = Subjects /\ Top' = Top /\ Created' = Created
    BY <1>1 DEF Taken, Subjects, Top, Created
<1>3. \A q, s, j : Past(q, s, j)' <=> Past(q, s, j)
    BY <1>1 DEF Past
<1>4. \A h : IdOf(h)' = IdOf(h) /\ Resolved(h)' = Resolved(h)
    BY <1>1 DEF IdOf, Resolved
<1>5. \A x : Living(x)' <=> Living(x)
    BY <1>1 DEF Living
<1>6. (Start' <=> Start) /\ \A L : Rec(L)' <=> Rec(L)
    BY <1>1, <1>2 DEF Start, Rec
<1>7. (Lost' <=> Lost) /\ (Mistaken' <=> Mistaken)
    BY <1>1 DEF Lost, Mistaken, Recorded
<1>8. \A L : Carried(L)' <=> Carried(L)
    BY <1>1, <1>2, <1>6 DEF Carried
<1>9. \A L : ExecType(L)' <=> ExecType(L)
    BY <1>1, <1>2 DEF ExecType
<1>10. \A L : Mirrors(L)' <=> Mirrors(L)
    BY <1>1, <1>2, <1>3, <1>4 DEF Mirrors, ResolvedLocal
<1>11. \A L : NewsInv(L)' <=> NewsInv(L)
    BY <1>1, <1>2, <1>3 DEF NewsInv
<1>12. ColumnInv' <=> ColumnInv
    BY <1>1, <1>2 DEF ColumnInv
<1>13. \A L : LivingInv(L)' <=> LivingInv(L)
    BY <1>1, <1>2, <1>3, <1>4, <1>5 DEF LivingInv
<1>14. \A l, s : Applied(l, s)' = Applied(l, s)
    BY <1>1, <1>3 DEF Applied, PastCasts
<1>15. \A l, s, h, b, r : TypeIs(l, s, h, b, r)' <=> TypeIs(l, s, h, b, r)
    BY <1>1, <1>3, <1>4, <1>14 DEF TypeIs
<1>16. \A s, h : RefIs(s, h)' <=> RefIs(s, h)
    BY <1>1, <1>3, <1>4 DEF RefIs, Final
<1>17. \A L : DataInv(L)' <=> DataInv(L)
    BY <1>1, <1>2, <1>15, <1>16 DEF DataInv
<1>18. \A L : ExecInv(L)' <=> ExecInv(L)
    BY <1>9, <1>10, <1>11, <1>12, <1>13, <1>17 DEF ExecInv
<1> QED BY <1>1, <1>6, <1>7, <1>8, <1>18 DEF BufferInv, ExecRecord, Failed

LEMMA StepKeepsBufferInv == StorageInv /\ BufferInv /\ [Next]_vars => BufferInv'
<1> SUFFICES ASSUME StorageInv, BufferInv, [Next]_vars PROVE BufferInv'
    OBVIOUS
<1>1. ASSUME NEW t \in Thread, Recording(t) PROVE BufferInv'
  <2>1. exec.phase = "record"
    BY <1>1 DEF Recording
  <2>2. Start /\ Rec(local)
    BY <2>1 DEF BufferInv
  <2>3. Start' /\ Rec(local)'
    BY <1>1, <2>2, RecordingStart, RecordingKeeps
  <2>4. exec'.phase = "record"
    BY <2>3 DEF Start
  <2> QED BY <2>3, <2>4 DEF BufferInv
<1>2. CASE ExecuteBegin
  <2>1. Start /\ Rec(local)
    BY <1>2 DEF ExecuteBegin, BufferInv
  <2>2. PICK L : L = local
    OBVIOUS
  <2>3. Carried(L)' /\ ExecInv(L)'
    BY <1>2, <2>1, <2>2, ExecuteBeginKeeps
  <2>4. ExecRecord' /\ exec'.phase # "record"
    BY <2>3, Executes DEF ExecInv
  <2> QED BY <2>3, <2>4 DEF BufferInv
<1>3. CASE Executing
  <2>1. exec.phase # "record"
    <3>1. NextLocal => exec.phase # "record"
        BY OrderIs DEF NextLocal
    <3> QED BY <1>3, <3>1 DEF Executing, Spin, ExecuteAllocate, ExecuteInstantiate,
                ExecuteResolve, ExecuteCast, ExecuteSet, ExecuteDestroy, Turn
  <2>2. PICK L : ExecRecord /\ Carried(L) /\ (Failed \/ ExecInv(L))
    BY <2>1 DEF BufferInv
  <2>3. CASE Failed
    <3>1. Carried(L)' /\ Failed' /\ ExecRecord' /\ exec'.phase # "record"
        BY <1>3, <2>1, <2>2, <2>3, FailedStays
    <3> QED BY <3>1 DEF BufferInv
  <2>4. CASE ~ Failed
    <3>1. Carried(L)' /\ (Failed' \/ ExecInv(L)')
        BY <1>3, <2>2, <2>4, ExecutingKeeps
    <3>2. ExecRecord' /\ exec'.phase # "record"
        BY <1>3, <2>1, <2>2, <2>4, ExecutingRecord
    <3> QED BY <3>1, <3>2 DEF BufferInv
  <2> QED BY <2>3, <2>4
<1>4. CASE UNCHANGED vars
  <2>1. UNCHANGED <<ids, slots, constructed, get, local, allocates, commands, said, column,
                    ref, exec>>
    BY <1>4 DEF vars, storageVars, bufferVars
  <2> QED BY <2>1, BufferInvStays
<1> QED BY <1>1, <1>2, <1>3, <1>4 DEF Next

-----------------------------------------------------------------------------
(* When execute has returned.                                              *)

\* What has become of h, which only the local s mentions.
Ended(L, s, h) ==
    /\ Carried(L) /\ ExecInv(L) /\ ~ Failed /\ Order(exec.phase) >= 5
    /\ s \in Taken /\ s \in Slot /\ h \in Created /\ h \in Subjects /\ h \in Handles
    /\ Alone(L, s, h) /\ HandleOK(L[s], h, said[h])
    /\ \A j : Past(5, s, j) /\ Past(6, s, j)

LEMMA DoneIs ==
    ASSUME StorageInv, BufferInv, Done, NEW h \in Subjects
    PROVE  \E L, s : Ended(L, s, h)
<1>1. exec.phase = "done" /\ ~ Failed
    BY DEF Done, Failed
<1>2. PICK L : Carried(L) /\ ExecInv(L)
    BY <1>1 DEF BufferInv
<1>3. ExecType(L) /\ NewsInv(L) /\ Rec(L) /\ h \in Handles
    BY <1>2 DEF ExecInv, Carried, Subjects
<1>4. Order(exec.phase) = 7
    BY <1>1, OrderIs
<1>5. PICK s \in Taken : Alone(L, s, h)
    BY <1>3, HomeIs DEF ExecType
<1>6. h \in Created /\ s \in Slot
    BY <1>3, <1>4, CreatedIs, TakenIs
<1>7. HandleOK(L[s], h, said[h])
    BY <1>3, <1>5, <1>6 DEF Rec
<1>8. \A j : Past(5, s, j) /\ Past(6, s, j)
    BY <1>4 DEF Past
<1>9. Ended(L, s, h)
    BY <1>1, <1>2, <1>3, <1>4, <1>5, <1>6, <1>7, <1>8 DEF Ended
<1> QED BY <1>9

LEMMA DoneMeansCasts ==
    ASSUME StorageInv, NEW L, NEW s, NEW h, Ended(L, s, h)
    PROVE  IF said[h].destroyed THEN ~ Living(IdOf(h))
           ELSE /\ Living(IdOf(h))
                /\ said[h].undone \/ said[h].kept \/ TypesOf(IdOf(h)) = said[h].types
<1>1. /\ Carried(L) /\ ExecInv(L) /\ ~ Failed /\ Order(exec.phase) >= 5
      /\ s \in Taken /\ s \in Slot /\ h \in Created /\ h \in Subjects /\ h \in Handles
      /\ Alone(L, s, h) /\ HandleOK(L[s], h, said[h])
      /\ \A j : Past(6, s, j)
    BY DEF Ended
<1>2. ColumnInv /\ LivingInv(L) /\ Rec(L)
    BY <1>1 DEF ExecInv, Carried
<1>3. CASE said[h].destroyed
  <2>1. PICK j \in Nat : DestroyOf(L[s], h, j)
    BY <1>1, <1>3 DEF HandleOK
  <2>2. j \in DOMAIN L[s].destroies /\ L[s].destroies[j] = h
    BY <2>1 DEF DestroyOf
  <2>3. ~ Living(h.id)
    BY <1>1, <1>2, <2>2 DEF LivingInv
  <2>4. IdOf(h) = h.id
    BY <1>1, <2>2, NothingFailed DEF IdOf
  <2> QED BY <1>3, <2>3, <2>4
<1>4. CASE ~ said[h].destroyed
  <2>1. Living(IdOf(h))
    BY <1>1, <1>2, <1>4 DEF LivingInv
  <2>2. ASSUME ~ said[h].undone, ~ said[h].kept
        PROVE  TypesOf(IdOf(h)) = said[h].types
    <3>1. PICK b \in SUBSET Type, r \in Refs : Origin(L[s], h, b, r)
        BY <1>1, <1>2, OriginExists
    <3>2. \A T \in SUBSET Type : Contains(column[T], IdOf(h)) => T = said[h].types
        BY <1>1, <2>2, <3>1, FinalTypes
    <3>3. TypesOf(IdOf(h)) \in SUBSET Type /\ Contains(column[TypesOf(IdOf(h))], IdOf(h))
        BY <1>2, <2>1, LivingIs
    <3> QED BY <3>2, <3>3
  <2> QED BY <1>4, <2>1, <2>2
<1> QED BY <1>3, <1>4

LEMMA DoneMeansReferences ==
    ASSUME StorageInv, NEW L, NEW s, NEW h, Ended(L, s, h),
           ~ said[h].undone, ~ said[h].kept, Ref \in said[h].types
    PROVE  ref[IdOf(h)] = IF said[h].patched THEN Old(IdOf(said[h].ref)) ELSE said[h].ref
<1>1. /\ ExecInv(L) /\ Carried(L) /\ s \in Taken /\ h \in Created /\ h \in Handles
      /\ Alone(L, s, h) /\ Past(5, s, 1)
    BY DEF Ended
<1>2. RefIs(s, h)
    BY <1>1 DEF ExecInv, DataInv
<1>3. ref[IdOf(h)] = Final(said[h])
    BY <1>1, <1>2 DEF RefIs
<1>4. Resolved(said[h].ref) = Old(IdOf(said[h].ref))
  <2>1. said[h].ref \in Handles \/ said[h].ref = Null
    BY <1>1 DEF Carried, Rec, Wish
  <2>2. ~ said[h].ref.transient => said[h].ref = Old(said[h].ref.id)
    BY <2>1, HandlesAre DEF Null, Old
  <2> QED BY <2>2 DEF Resolved, IdOf
<1> QED BY <1>3, <1>4 DEF Final

LEMMA BufferInvMeansCasts == StorageInv /\ BufferInv => CastsTakeEffect
<1> SUFFICES ASSUME StorageInv, BufferInv, Done, NEW h \in Subjects
             PROVE  IF said[h].destroyed THEN ~ Living(IdOf(h))
                    ELSE /\ Living(IdOf(h))
                         /\ said[h].undone \/ said[h].kept \/ TypesOf(IdOf(h)) = said[h].types
    BY DEF CastsTakeEffect
<1> QED BY DoneIs, DoneMeansCasts

LEMMA BufferInvMeansReferences == StorageInv /\ BufferInv => ReferencesResolved
<1> SUFFICES ASSUME StorageInv, BufferInv, Done, NEW h \in Subjects,
                    ~ said[h].undone, ~ said[h].kept, Ref \in said[h].types
             PROVE  ref[IdOf(h)] = IF said[h].patched THEN Old(IdOf(said[h].ref))
                                   ELSE said[h].ref
    BY DEF ReferencesResolved
<1> QED BY DoneIs, DoneMeansReferences

\* While threads record, every local's commands come to what the calls on its
\* handles ask for; while execute runs, the world is what the commands whose
\* turn is past make of it, unless execute hangs or reads what was lost.
THEOREM BufferInvHolds ==
    ASSUME ForeignIds
    PROVE  Spec => [](StorageInv /\ BufferInv)
<1>1. Init => SlotInv /\ BufferInv
    BY InitSlotInv, InitBufferInv DEF Init
<1>2. SlotInv /\ BufferInv /\ [Next]_vars => (SlotInv /\ BufferInv)'
    BY NextIsStorageNext, StepKeepsSlotInv, SlotInvMeansStorageInv, StepKeepsBufferInv
<1>3. SlotInv => StorageInv
    BY SlotInvMeansStorageInv
<1> QED BY <1>1, <1>2, <1>3, PTL DEF Spec

\* When execute has returned, however the locals were interleaved and the
\* commands were batched, every entity is gone or has the types that the calls
\* on it ask for.
THEOREM CastsAreTaken ==
    ASSUME ForeignIds
    PROVE  Spec => []CastsTakeEffect
<1> QED BY BufferInvHolds, BufferInvMeansCasts, PTL

\* And its reference is the one that was set last, led to the entity that was
\* created for the handle if it was patched.
THEOREM ReferencesAreResolved ==
    ASSUME ForeignIds
    PROVE  Spec => []ReferencesResolved
<1> QED BY BufferInvHolds, BufferInvMeansReferences, PTL
=============================================================================
