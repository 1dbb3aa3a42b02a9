------------------------------ MODULE ChunkList ------------------------------
(***************************************************************************)
(* The chunk lists of a world: how an archetype finds room for entities.   *)
(*                                                                         *)
(* An archetype keeps its chunks in a doubly linked list, full ones first. *)
(* firstChunk and lastChunk are its ends, firstFree the first chunk that   *)
(* is not full, chunkCount and size count its chunks and entities.  All of *)
(* it is kept by a handful of functions that relink one chunk (link,       *)
(* unlink, remove, mark_free, unmark_free, add_chunk, remove_chunk), each  *)
(* correct only on lists the others leave in order.  They are operators    *)
(* here, from a record of the archetype's fields a and all chunks n to a   *)
(* record of the same, so that they compose as the calls do.               *)
(*                                                                         *)
(* Abstractions.                                                           *)
(*   - Entities are counted, not named (module EntityTable names them).    *)
(*   - Archetypes have one size of entity, so that a chunk's capacity      *)
(*     depends on its bin only.                                            *)
(*   - An archetype without chunks has the fields of a new one, whether    *)
(*     remove_chunk has freed it or get_archetype has just made it.        *)
(*   - A null pointer is never dereferenced: an operation that would is    *)
(*     not enabled (Linkable, Kept).                                       *)
(***************************************************************************)
EXTENDS Integers, FiniteSets

CONSTANTS
    Chunk,          \* chunks the allocator can hand out
    NoChunk,        \* the null chunk pointer
    Archetype,      \* archetypes
    NoArchetype,    \* the null archetype pointer
    Capacity,       \* archetype::chunkCapacity, by bin
    SmallThreshold, \* kSmallBinThreshold
    SmallHint,      \* fewest entities that outgrow kSmallBinSize
    LargeHint,      \* most entities that new_chunk puts in a fast bin
    LoadLargeHint,  \* most entities that deserialize_slice puts in one
    SizeMod,        \* values of archetype::size
    StaticCastable, \* pairs of archetypes that differ by tags only
    ReadSize,       \* sizes of an archetype that a file may hold
    AnyRelabel,     \* whether cast may relabel a full chunk of any archetype
    AnyLoad,        \* whether a slice may be read back that its bin cannot hold
    MaxCount        \* bound: entities named by one call

\* alloc_type.
Small == 0
Fast == 1
Large == 2
Bin == Small .. Large

ASSUME ChunkListAssumption ==
    /\ NoChunk \notin Chunk
    /\ NoArchetype \notin Archetype
    /\ IsFiniteSet(Chunk)
    /\ Capacity \in [Bin -> Nat]
    /\ {SmallThreshold, SmallHint, LargeHint, LoadLargeHint, MaxCount} \subseteq Nat
    /\ SizeMod \in Nat
    /\ \A b \in Bin : Capacity[b] < SizeMod
    /\ ReadSize \subseteq 0 .. SizeMod - 1
    /\ StaticCastable \subseteq Archetype \X Archetype
    /\ AnyRelabel \in BOOLEAN /\ AnyLoad \in BOOLEAN

VARIABLES
    arch, \* archetype: first, last, free, chunks, size
    node, \* chunk: type, bin, count, next, prev
    call  \* the looping call in progress

vars == <<arch, node, call>>

Pointer == Chunk \cup {NoChunk}

Header == [first : Pointer, last : Pointer, free : Pointer,
           chunks : Nat, size : 0 .. SizeMod - 1]
NewHeader == [first |-> NoChunk, last |-> NoChunk, free |-> NoChunk,
              chunks |-> 0, size |-> 0]

Node == [type : Archetype \cup {NoArchetype}, bin : Bin, count : Nat,
         next : Pointer, prev : Pointer]
NewNode(b) == [type |-> NoArchetype, bin |-> b, count |-> 0,
               next |-> NoChunk, prev |-> NoChunk]

Idle == [op |-> "idle"]

TypeOK ==
    /\ arch \in [Archetype -> Header]
    /\ node \in [Chunk -> Node]
    /\ \/ call = Idle
       \/ call.op = "allocate" /\ call.g \in Archetype /\ call.left \in Nat
       \/ /\ call.op = "cast" /\ call.g \in Archetype /\ call.left \in Nat
          /\ call.c \in Chunk /\ call.n \in Nat

-----------------------------------------------------------------------------
(* The functions that relink a chunk.  Definitions whose comment begins    *)
(* with "Mutant" are faulty variants of the one after them.                *)

\* Mutant: all the room there is, whatever was asked.
SmallerRoom(a, b) == b

Smaller(a, b) == IF a < b THEN a ELSE b

\* chunk::link: c comes after x.
Link(n, x, c) ==
    LET y == n[x].next
    IN  [d \in Chunk |->
            [n[d] EXCEPT !.next = CASE d = x -> c [] d = c -> y [] OTHER -> @,
                         !.prev = CASE d = c -> x [] d = y -> c [] OTHER -> @]]

\* chunk::unlink.
Unlink(n, c) ==
    [d \in Chunk |->
        [n[d] EXCEPT !.next = CASE d = c -> NoChunk
                                [] d = n[c].prev -> n[c].next
                                [] OTHER -> @,
                     !.prev = CASE d = c -> NoChunk
                                [] d = n[c].next -> n[c].prev
                                [] OTHER -> @]]

\* Mutant: the last chunk is removed and stays the last.
RemoveNotLast(l, c) ==
    [a |-> [l.a EXCEPT !.first = IF @ = c THEN l.n[c].next ELSE @],
     n |-> Unlink(l.n, c)]

\* world::remove.
Remove(l, c) ==
    [a |-> [l.a EXCEPT !.last = IF @ = c THEN l.n[c].prev ELSE @,
                       !.first = IF @ = c THEN l.n[c].next ELSE @],
     n |-> Unlink(l.n, c)]

Full(n, c) == n[c].count = Capacity[n[c].bin]

\* add_chunk.
AddChunk(l, g, c) ==
    LET a == [l.a EXCEPT !.size = (@ + l.n[c].count) % SizeMod, !.chunks = @ + 1]
        n == [l.n EXCEPT ![c].type = g]
        room == n[c].count < Capacity[n[c].bin]
    IN  IF a.first = NoChunk
        THEN [a |-> [a EXCEPT !.first = c, !.last = c,
                              !.free = IF room THEN c ELSE @],
              n |-> n]
        ELSE IF room
        THEN [a |-> [a EXCEPT !.last = c, !.free = IF @ = NoChunk THEN c ELSE @],
              n |-> Link(n, a.last, c)]
        ELSE [a |-> a, n |-> Link(n, a.first, c)]

\* remove_chunk; the archetype is freed with its last chunk.
RemoveChunk(l, c) ==
    LET r == Remove([a |-> [l.a EXCEPT !.size = (@ - l.n[c].count) % SizeMod,
                                       !.chunks = @ - 1,
                                       !.free = IF @ = c THEN l.n[c].next ELSE @],
                     n |-> l.n], c)
    IN  [a |-> IF r.a.first = NoChunk THEN NewHeader ELSE r.a, n |-> r.n]

\* Mutant: the chunk is not moved behind the full ones.
MarkFreeInPlace(l, c) ==
    [a |-> [l.a EXCEPT !.free = IF @ = NoChunk THEN c ELSE @], n |-> l.n]

\* mark_free: a chunk that was full goes to the end.
MarkFree(l, c) ==
    LET r == Remove(l, c)
    IN  [a |-> [r.a EXCEPT !.last = c,
                           !.free = IF @ = NoChunk THEN c ELSE @,
                           !.first = IF @ = NoChunk THEN c ELSE @],
         n |-> IF r.a.last = NoChunk THEN r.n ELSE Link(r.n, r.a.last, c)]

\* Mutants: a chunk that has become full stays firstFree; firstFree is lost.
UnmarkFreeStuck(l, c) == l
UnmarkFreeForget(l, c) == [l EXCEPT !.a.free = NoChunk]

\* unmark_free: a chunk that has become full joins the full ones, by moving
\* firstFree past it or by going to the front.
UnmarkFree(l, c) ==
    IF l.a.free = c
    THEN [l EXCEPT !.a.free = l.n[c].next]
    ELSE LET r == Remove(l, c)
         IN  [a |-> [r.a EXCEPT !.first = c, !.last = IF @ = NoChunk THEN c ELSE @],
              n |-> IF r.a.first = NoChunk
                    THEN r.n
                    ELSE Link([r.n EXCEPT ![c].next = r.n[r.a.first].next],
                              c, r.a.first)]

\* destroy_chunk: the allocator has the chunk again.
DestroyChunk(l, c) ==
    LET r == RemoveChunk(l, c) IN [r EXCEPT !.n[c] = NewNode(Small)]

\* resize_chunk.
ResizeChunk(l, c, count) ==
    IF count = 0
    THEN DestroyChunk(l, c)
    ELSE LET r == IF count = Capacity[l.n[c].bin] THEN UnmarkFree(l, c)
                  ELSE IF Full(l.n, c) THEN MarkFree(l, c)
                  ELSE l
         IN  [r EXCEPT !.n[c].count = count]

Lists(g) == [a |-> arch[g], n |-> node]

\* The state after the lists of g have become l.
Becomes(g, l) ==
    /\ arch' = [arch EXCEPT ![g] = l.a]
    /\ node' = l.n

Unused == {c \in Chunk : node[c].type = NoArchetype}

\* A list that has a first chunk has a last one to link to.
Linkable(g) == arch[g].first # NoChunk => arch[g].last # NoChunk

-----------------------------------------------------------------------------
(* Slices.                                                                 *)

\* new_chunk: the bin for a number of entities that look for room.  Their bytes
\* are compared to those of the whole bin, header included: an entity that just
\* fails to fit beside the header gets a small chunk of capacity 0.
BinFor(chunks, hint, most) ==
    CASE chunks < SmallThreshold /\ hint < SmallHint -> Small
      [] ~ (chunks < SmallThreshold /\ hint < SmallHint) /\ hint > most -> Large
      [] OTHER -> Fast

\* malloc_chunk and add_chunk.
NewChunk(l, g, c, b) == AddChunk([l EXCEPT !.n[c] = NewNode(b)], g, c)

\* The chunks that can serve the next allocate_slice of g.
Servers(g) == IF arch[g].free # NoChunk THEN {arch[g].free} ELSE Unused

\* allocate_slice: the lists after chunk c has served g with a part of the
\* count entities, and how many it took.
Offer(g, c, count) ==
    LET l == IF arch[g].free # NoChunk
             THEN Lists(g)
             ELSE NewChunk(Lists(g), g, c, BinFor(arch[g].chunks, count, LargeHint))
        start == l.n[c].count
        n == Smaller(count, (Capacity[l.n[c].bin] - start) % SizeMod)
    IN  [n |-> n,
         lists |-> ResizeChunk([l EXCEPT !.a.size = (@ + n) % SizeMod], c, start + n)]

AllocateSlice(g, c, count) == Becomes(g, Offer(g, c, count).lists)

\* Chunk c is still in use after that.  A new chunk of capacity 0 is not:
\* resize_chunk destroys it, and the caller, which constructs, duplicates or
\* casts entities in the slice next, reads the type that is then null.
Kept(g, c, count) == Offer(g, c, count).lists.n[c].type = g

\* free_slice of n entities of chunk c.
FreedSlice(l, c, n) ==
    ResizeChunk([l EXCEPT !.a.size = (@ - n) % SizeMod], c, l.n[c].count - n)

Allocate(g, count) ==
    /\ call = Idle
    /\ Cardinality(Unused) >= count     \* bound: malloc does not run out
    /\ call' = [op |-> "allocate", g |-> g, left |-> count]
    /\ UNCHANGED <<arch, node>>

AllocateStep(c) ==
    /\ call.op = "allocate"
    /\ c \in Servers(call.g) /\ Linkable(call.g) /\ Kept(call.g, c, call.left)
    /\ AllocateSlice(call.g, c, call.left)
    /\ LET left == call.left - Offer(call.g, c, call.left).n
       IN  call' = IF left = 0 THEN Idle ELSE [call EXCEPT !.left = left]

\* destroy of a slice, and cast to no archetype.
FreeSlice(c, n) ==
    LET g == node[c].type
    IN  /\ call = Idle
        /\ g # NoArchetype /\ Linkable(g)
        /\ n <= node[c].count
        /\ Becomes(g, FreedSlice(Lists(g), c, n))
        /\ UNCHANGED call

\* cast_slice: the size is reduced here, and again by the free_slice at the end.
CastSlice(c, n, g) ==
    /\ call = Idle
    /\ node[c].type \notin {g, NoArchetype}
    /\ n <= node[c].count
    /\ Cardinality(Unused) >= n         \* bound: malloc does not run out
    /\ ~ (n = node[c].count /\ <<node[c].type, g>> \in StaticCastable)
    /\ arch' = [arch EXCEPT ![node[c].type].size = (@ - n) % SizeMod]
    /\ call' = [op |-> "cast", g |-> g, left |-> n, c |-> c, n |-> n]
    /\ UNCHANGED node

CastStep(c) ==
    /\ call.op = "cast" /\ call.left > 0
    /\ c \in Servers(call.g) /\ Linkable(call.g) /\ Kept(call.g, c, call.left)
    /\ AllocateSlice(call.g, c, call.left)
    /\ call' = [call EXCEPT !.left = @ - Offer(call.g, c, call.left).n]

CastEnd ==
    LET g == node[call.c].type
    IN  /\ call.op = "cast" /\ call.left = 0
        /\ Linkable(g)
        /\ Becomes(g, FreedSlice(Lists(g), call.c, call.n))
        /\ call' = Idle

\* Where add_chunk may put a full chunk without getting ahead of lastChunk or
\* behind firstFree.
RelabelFits(c, g) ==
    Full(node, c) /\ arch[g].first # NoChunk =>
        Full(node, arch[g].first) /\ arch[g].first # arch[g].last

\* cast of a whole chunk to an archetype that differs by tags.
CastWhole(c, g) ==
    LET src == node[c].type
        l == RemoveChunk(Lists(src), c)
        m == AddChunk([a |-> arch[g], n |-> l.n], g, c)
    IN  /\ call = Idle
        /\ src \notin {g, NoArchetype}
        /\ <<src, g>> \in StaticCastable
        /\ Linkable(g)
        /\ ~ AnyRelabel => RelabelFits(c, g)
        /\ arch' = [arch EXCEPT ![src] = l.a, ![g] = m.a]
        /\ node' = m.n
        /\ UNCHANGED call

\* The chunks met from c on, following next.
Hops(n, c) ==
    LET hop[k \in 0 .. Cardinality(Chunk)] ==
            IF k = 0 THEN c
            ELSE IF hop[k - 1] = NoChunk THEN NoChunk
            ELSE n[hop[k - 1]].next
    IN  hop

\* Mutant: the first of them with any room.
FirstRoomy(n, c, count) ==
    LET hop == Hops(n, c)
        good == {k \in DOMAIN hop : hop[k] # NoChunk /\ ~ Full(n, hop[k])}
    IN  IF good = {} THEN NoChunk
        ELSE hop[CHOOSE k \in good : \A j \in good : k <= j]

\* The first of them with room for count more, NoChunk if there is none.
FirstFitting(n, c, count) ==
    LET hop == Hops(n, c)
        fits(d) == n[d].count + count <= Capacity[n[d].bin]
        good == {k \in DOMAIN hop : hop[k] # NoChunk /\ fits(hop[k])}
    IN  IF good = {} THEN NoChunk
        ELSE hop[CHOOSE k \in good : \A j \in good : k <= j]

\* deserialize_archetype and deserialize_slice: the archetype with the size that
\* is read, and a slice of count entities into chunk c, whose bin is chosen by
\* count.  The size is that of the whole archetype when it was written, and not
\* count: deserialize_single adds all of it for one slice.  A size of 0 stands
\* for the further slices that deserialize reads of an archetype; as the size of
\* an archetype it ends the call before the slice.
Load(g, c, count, size) ==
    LET found == FirstFitting(node, arch[g].free, count)
        b == BinFor(arch[g].chunks, count, LoadLargeHint)
        read == [Lists(g) EXCEPT !.a.size = (@ + size) % SizeMod]
        l == IF found # NoChunk THEN read ELSE NewChunk(read, g, c, b)
    IN  /\ call = Idle
        /\ Linkable(g)
        /\ size = 0 => arch[g].first # NoChunk
        /\ IF found # NoChunk THEN c = found ELSE c \in Unused
        /\ ~ AnyLoad /\ found = NoChunk => count <= Capacity[b]
        /\ Becomes(g, ResizeChunk(l, c, l.n[c].count + count))
        /\ UNCHANGED call

\* clear.
Clear ==
    /\ call = Idle
    /\ arch' = [g \in Archetype |-> NewHeader]
    /\ node' = [c \in Chunk |-> NewNode(Small)]
    /\ UNCHANGED call

-----------------------------------------------------------------------------

Init ==
    /\ arch = [g \in Archetype |-> NewHeader]
    /\ node = [c \in Chunk |-> NewNode(Small)]
    /\ call = Idle

Next ==
    \/ \E g \in Archetype, n \in 1 .. MaxCount : Allocate(g, n)
    \/ \E c \in Chunk : AllocateStep(c)
    \/ \E c \in Chunk, n \in 1 .. MaxCount : FreeSlice(c, n)
    \/ \E c \in Chunk, n \in 1 .. MaxCount, g \in Archetype : CastSlice(c, n, g)
    \/ \E c \in Chunk : CastStep(c)
    \/ CastEnd
    \/ \E c \in Chunk, g \in Archetype : CastWhole(c, g)
    \/ \E c \in Chunk, n \in 1 .. MaxCount, g \in Archetype, size \in ReadSize :
           Load(g, c, n, size)
    \/ Clear

Spec == Init /\ [][Next]_vars

-----------------------------------------------------------------------------
(* Properties.                                                             *)

Of(g) == {c \in Chunk : node[c].type = g}

\* From firstChunk the list meets every chunk of the archetype exactly once
\* and ends at lastChunk, and prev leads back: no chunk with entities is lost
\* to the loops over an archetype's chunks, and none is met twice.
ListsWellFormed ==
    \A g \in Archetype :
        LET hop == Hops(node, arch[g].first)
            size == Cardinality(Of(g))
        IN  /\ {hop[k] : k \in 0 .. size - 1} = Of(g)
            /\ hop[size] = NoChunk
            /\ arch[g].last = IF size = 0 THEN NoChunk ELSE hop[size - 1]
            /\ \A k \in 0 .. size - 1 :
                   node[hop[k]].prev = IF k = 0 THEN NoChunk ELSE hop[k - 1]
            /\ arch[g].chunks = size

\* The chunks from firstFree on are those that are not full, so that
\* allocate_slice finds room whenever a chunk of the archetype has some.
FreeSuffix ==
    \A g \in Archetype :
        LET hop == Hops(node, arch[g].free)
        IN  {hop[k] : k \in DOMAIN hop} \ {NoChunk} = {c \in Of(g) : ~ Full(node, c)}

\* No chunk holds more entities than fit, and none is kept empty.
NoneOverfull ==
    \A c \in Chunk : node[c].type # NoArchetype =>
        node[c].count \in 1 .. Capacity[node[c].bin]

\* The chunk that will serve the call is a new one of a bin that holds no entity.
BinHoldsNone(g, count) ==
    /\ arch[g].free = NoChunk
    /\ Capacity[BinFor(arch[g].chunks, count, LargeHint)] = 0

\* Every slice that allocate will return holds an entity, so that its loop
\* ends and the first entity of a slice can be taken, unless the entities are
\* too large for the bin that new_chunk chooses.
SlicesNotEmpty ==
    call.op = "allocate" /\ Linkable(call.g) /\ ~ BinHoldsNone(call.g, call.left) =>
        \A c \in Servers(call.g) : Offer(call.g, c, call.left).n > 0

\* The same of entities of any size, as callers that take the first entity of
\* the first slice believe.  It does not hold when Capacity[Small] is 0.
NoSliceEmpty ==
    call.op = "allocate" /\ Linkable(call.g) =>
        \A c \in Servers(call.g) : Offer(call.g, c, call.left).n > 0

Pool == INSTANCE ChunkPool WITH
            type <- [c \in Chunk |-> node[c].type],
            bin <- [c \in Chunk |-> node[c].bin],
            count <- [c \in Chunk |-> node[c].count]

\* The lists implement the pool that the rest of the world relies on:
\* allocate_slice takes room where there is some and a new chunk otherwise.
PoolSpec == Pool!Spec
=============================================================================
