------------------------------ MODULE ChunkPool ------------------------------
(***************************************************************************)
(* What the chunk lists of a world promise to the code that stores         *)
(* entities in chunks, without the lists: every chunk belongs to one       *)
(* archetype and holds a number of entities; allocate_slice hands out room *)
(* in a chunk of the archetype while one has room, and takes a new chunk   *)
(* only when all of them are full; a chunk that becomes empty goes back.   *)
(*                                                                         *)
(* ChunkList implements this module, and EntityTable relies on it.         *)
(***************************************************************************)
EXTENDS Integers, FiniteSets

CONSTANTS Chunk, Archetype, NoArchetype,
          Capacity,   \* entities that fit in a chunk, by bin
          MaxCount    \* bound: entities named by one call

Bin == DOMAIN Capacity

VARIABLES type,   \* archetype of a chunk, NoArchetype when it is not in use
          bin,    \* bin of a chunk, 0 when it is not in use
          count,  \* entities in a chunk
          call    \* the looping call in progress: left entities to place in g,
                  \* and, for a cast, the slice of c that they leave

vars == <<type, bin, count, call>>

Idle == [op |-> "idle"]

Init ==
    /\ type = [c \in Chunk |-> NoArchetype]
    /\ bin = [c \in Chunk |-> 0]
    /\ count = [c \in Chunk |-> 0]
    /\ call = Idle

Room(c) == Capacity[bin[c]] - count[c]
Roomy(g) == {c \in Chunk : type[c] = g /\ Room(c) > 0}

\* n more entities are stored in a chunk of g.
Put(g, c, n) ==
    /\ n > 0
    /\ type' = [type EXCEPT ![c] = g]
    /\ count' = [count EXCEPT ![c] = @ + n]

\* In a chunk that has room, or in a new one when none has.
PutWithRoom(g, c, n) ==
    \/ c \in Roomy(g) /\ n <= Room(c) /\ Put(g, c, n) /\ UNCHANGED bin
    \/ /\ Roomy(g) = {} /\ type[c] = NoArchetype
       /\ \E b \in Bin : n <= Capacity[b] /\ bin' = [bin EXCEPT ![c] = b]
       /\ Put(g, c, n)

\* n entities leave chunk c.
Take(c, n) ==
    /\ type[c] # NoArchetype
    /\ n \in 1 .. count[c]
    /\ count' = [count EXCEPT ![c] = @ - n]
    /\ type' = [type EXCEPT ![c] = IF count[c] = n THEN NoArchetype ELSE @]
    /\ bin' = [bin EXCEPT ![c] = IF count[c] = n THEN 0 ELSE @]

Allocate(g, n) ==
    /\ call = Idle
    /\ call' = [op |-> "allocate", g |-> g, left |-> n]
    /\ UNCHANGED <<type, bin, count>>

AllocateStep(c) ==
    /\ call.op = "allocate"
    /\ \E n \in 1 .. call.left :
           /\ PutWithRoom(call.g, c, n)
           /\ call' = IF n = call.left THEN Idle ELSE [call EXCEPT !.left = @ - n]

FreeSlice(c, n) ==
    /\ call = Idle
    /\ Take(c, n)
    /\ UNCHANGED call

CastSlice(c, n, g) ==
    /\ call = Idle
    /\ type[c] \notin {g, NoArchetype}
    /\ n \in 1 .. count[c]
    /\ call' = [op |-> "cast", g |-> g, left |-> n, c |-> c, n |-> n]
    /\ UNCHANGED <<type, bin, count>>

CastStep(c) ==
    /\ call.op = "cast"
    /\ \E n \in 1 .. call.left :
           /\ PutWithRoom(call.g, c, n)
           /\ call' = [call EXCEPT !.left = @ - n]

CastEnd ==
    /\ call.op = "cast"
    /\ call.left = 0
    /\ Take(call.c, call.n)
    /\ call' = Idle

\* A whole chunk changes archetype without moving an entity.
CastWhole(c, g) ==
    /\ call = Idle
    /\ type[c] \notin {g, NoArchetype}
    /\ type' = [type EXCEPT ![c] = g]
    /\ UNCHANGED <<bin, count, call>>

\* A slice is read back into one chunk, or into a new one.
Load(g, c, n) ==
    /\ call = Idle
    /\ \/ c \in Roomy(g) /\ n <= Room(c) /\ Put(g, c, n) /\ UNCHANGED bin
       \/ /\ \A d \in Roomy(g) : n > Room(d)
          /\ type[c] = NoArchetype
          /\ \E b \in Bin : n <= Capacity[b] /\ bin' = [bin EXCEPT ![c] = b]
          /\ Put(g, c, n)
    /\ UNCHANGED call

Clear ==
    /\ call = Idle
    /\ type' = [c \in Chunk |-> NoArchetype]
    /\ count' = [c \in Chunk |-> 0]
    /\ bin' = [c \in Chunk |-> 0]
    /\ UNCHANGED call

Next ==
    \/ \E g \in Archetype, n \in 1 .. MaxCount : Allocate(g, n)
    \/ \E c \in Chunk : AllocateStep(c)
    \/ \E c \in Chunk, n \in 1 .. MaxCount : FreeSlice(c, n)
    \/ \E c \in Chunk, n \in 1 .. MaxCount, g \in Archetype : CastSlice(c, n, g)
    \/ \E c \in Chunk : CastStep(c)
    \/ CastEnd
    \/ \E c \in Chunk, g \in Archetype : CastWhole(c, g)
    \/ \E c \in Chunk, n \in 1 .. MaxCount, g \in Archetype : Load(g, c, n)
    \/ Clear

Spec == Init /\ [][Next]_vars
=============================================================================
