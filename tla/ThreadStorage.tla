---------------------------- MODULE ThreadStorage ----------------------------
(***************************************************************************)
(* thread_storage: one T for each thread that asks, found without a lock.  *)
(* A thread looks for its id among the slots that are taken, and takes the *)
(* next one when it does not find it.  Between the increment of size and   *)
(* the store of the id a slot is taken and says nothing, and what its      *)
(* bytes were before is what another thread reads.                         *)
(***************************************************************************)
EXTENDS Integers, FiniteSets

CONSTANTS
    Thread,
    SlotCount, \* chunked::capacity, at least one for each thread
    IdsBefore  \* what the block of ids holds when it comes from the pool: the
               \* ids of threads too, where another storage had the block

Slot == 0 .. SlotCount - 1

ASSUME StorageAssumption ==
    /\ IsFiniteSet(Thread)
    /\ SlotCount \in Nat /\ Cardinality(Thread) <= SlotCount
    /\ DOMAIN IdsBefore = Slot

VARIABLES
    ids,
    slots,       \* thread_storage::size
    constructed, \* slots in which a T has been constructed
    get          \* each thread's call of get: pc, the i of its loop, its slot

storageVars == <<ids, slots, constructed, get>>

StorageInit ==
    /\ ids = IdsBefore
    /\ slots = 0
    /\ constructed = {}
    /\ get = [t \in Thread |-> [pc |-> "out", i |-> 0, slot |-> 0]]

GetBegin(t) ==
    /\ get[t].pc = "out"
    /\ get' = [get EXCEPT ![t].pc = "scan", ![t].i = 0]
    /\ UNCHANGED <<ids, slots, constructed>>

\* One turn of the loop, which loads size afresh each time.
GetScan(t) ==
    /\ get[t].pc = "scan"
    /\ get' = IF get[t].i >= slots THEN [get EXCEPT ![t].pc = "take"]
              ELSE IF ids[get[t].i] = t
              THEN [get EXCEPT ![t].pc = "in", ![t].slot = get[t].i]
              ELSE [get EXCEPT ![t].i = @ + 1]
    /\ UNCHANGED <<ids, slots, constructed>>

\* Mutant: the slot is the one at which the loop stopped.
GetTakeSeen(t) ==
    /\ get[t].pc = "take"
    /\ slots' = slots + 1
    /\ get' = [get EXCEPT ![t].pc = "store", ![t].slot = get[t].i]
    /\ UNCHANGED <<ids, constructed>>

\* slot = size++.
GetTake(t) ==
    /\ get[t].pc = "take"
    /\ slots' = slots + 1
    /\ get' = [get EXCEPT ![t].pc = "store", ![t].slot = slots]
    /\ UNCHANGED <<ids, constructed>>

\* The id is stored and the T constructed; only this thread is concerned.
GetStore(t) ==
    /\ get[t].pc = "store"
    /\ ids' = [ids EXCEPT ![get[t].slot] = t]
    /\ constructed' = constructed \cup {get[t].slot}
    /\ get' = [get EXCEPT ![t].pc = "in"]
    /\ UNCHANGED slots

\* The thread lets go of the reference it was given.
LetGo(t) ==
    /\ get[t].pc = "in"
    /\ get' = [get EXCEPT ![t].pc = "out"]
    /\ UNCHANGED <<ids, slots, constructed>>

Get(t) == GetScan(t) \/ GetTake(t) \/ GetStore(t)

\* The storage by itself, with threads that call get as often as they like.
StorageNext == \E t \in Thread : GetBegin(t) \/ Get(t) \/ LetGo(t)
StorageSpec == StorageInit /\ [][StorageNext]_storageVars

-----------------------------------------------------------------------------

\* A thread works on a constructed T, on the same one in every call, and no
\* other thread ever works on it: the commands of two threads never mix.  The
\* block of ids comes from the pool as its last owner left it, so what this is
\* worth depends on the bytes that were there: a thread whose id was in the
\* very slot may be let in before its owner has written its own.  Nobody else
\* is, and nowhere else.
OneLocalPerThread ==
    \A t \in Thread : get[t].pc = "in" =>
        \/ IdsBefore[get[t].slot] = t
        \/ /\ {s \in constructed : ids[s] = t} = {get[t].slot}
           /\ \A u \in Thread \ {t} :
                  get[u].pc = "in" /\ get[u].slot = get[t].slot
                      => IdsBefore[get[t].slot] = u
=============================================================================
