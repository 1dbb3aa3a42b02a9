----------------------------- MODULE EntityTable -----------------------------
(***************************************************************************)
(* The entity table of a world and the entity columns of its chunks.       *)
(*                                                                         *)
(* An entity is a handle [id, v].  The table (world::entities) holds one   *)
(* record per id: the chunk the entity lives in, its index there, and the  *)
(* version that makes old handles of the id stale.  Ids that are not in    *)
(* use form a free list threaded through the records.  Every chunk starts  *)
(* with a dense array of the handles it stores, so the table and the       *)
(* chunks are inverses of one another, and every structural change has to  *)
(* rewrite both sides.                                                     *)
(*                                                                         *)
(* A world is driven by one thread.  The calls that loop over chunks       *)
(* (allocate, cast_slice, merge_chunks) are modelled one action per        *)
(* iteration; the variable call says which of them is running, and no      *)
(* other call starts before it returns.                                    *)
(*                                                                         *)
(* Abstractions.                                                           *)
(*   - Component columns are moved by the same copies as the handles and   *)
(*     are left out.                                                       *)
(*   - The free list is the sequence of ids reached from                   *)
(*     entities::free through nextFree, up to the sentinel 0.  In the code *)
(*     nextFree shares its bytes with the chunk pointer; here the record   *)
(*     of a free id has c = NoChunk.                                       *)
(*   - Which chunk with room an archetype offers is decided by its chunk   *)
(*     list (module ChunkList); here it is any of them, or a new one.      *)
(*   - Every chunk holds an entity at least.  new_chunk can hand out one   *)
(*     that holds none, with which allocate reads a null type (ChunkList). *)
(*   - merge_chunks walks over the small and fast chunks only: its loops   *)
(*     over large chunks at the front of the list, the first of which does *)
(*     not return, are left out (ChunkMerge has them).                     *)
(***************************************************************************)
EXTENDS Integers, Sequences, FiniteSets

CONSTANTS
    Chunk,          \* chunks the allocator can hand out
    NoChunk,        \* the null chunk pointer
    Archetype,      \* archetypes
    NoArchetype,    \* the null archetype pointer
    Capacity,       \* entities that fit in a chunk: chunkCapacity of its bin
    MaxIds,         \* ids the 24 bit field of a handle can name
    VersionCount,   \* values of the 8 bit version
    FreshVersion,   \* values an uninitialised version byte may hold
    Cleaning,       \* get_cleaning: archetype that keeps the tracked parts
    StaticCastable, \* pairs of archetypes that differ by tags only
    MaxCount,       \* bound: entities named by one call
    MaxIssues       \* bound: times one id is handed out

Id == 0 .. MaxIds - 1
Version == 0 .. VersionCount - 1
Handle == [id : Id, v : Version]

ASSUME ConstantsAssumption ==
    /\ NoChunk \notin Chunk
    /\ NoArchetype \notin Archetype
    /\ Capacity \in [Chunk -> Nat \ {0}]
    /\ MaxIds \in Nat \ {0}
    /\ VersionCount \in Nat /\ VersionCount > 1
    /\ FreshVersion \subseteq Version
    /\ Cleaning \in [Archetype -> Archetype \cup {NoArchetype}]
    /\ StaticCastable \subseteq Archetype \X Archetype
    /\ MaxCount \in Nat
    /\ MaxIssues \in Nat

VARIABLES
    typeOf,   \* chunk::type, NoArchetype for a chunk that is not in use
    ents,     \* entity column of a chunk; its length is chunk::count
    datas,    \* entities::datas, by id
    size,     \* entities::datas.size
    freeList, \* ids reachable from entities::free
    call,     \* the looping call in progress
    issued    \* history: versions handed out for each id, oldest first

vars == <<typeOf, ents, datas, size, freeList, call, issued>>

Record == [c : Chunk \cup {NoChunk}, i : Nat, v : Version]

\* What stands for a record past the end of the table.
NoRecord == [c |-> NoChunk, i |-> 0, v |-> 0]

Call == [op : {"idle", "allocate", "cast", "merge"},
         g : Archetype \cup {NoArchetype},
         c : Chunk \cup {NoChunk},
         start : Nat, count : Nat, k : Nat,
         order : Seq(Chunk)]

Idle == [op |-> "idle", g |-> NoArchetype, c |-> NoChunk,
         start |-> 0, count |-> 0, k |-> 0, order |-> <<>>]

TypeOK ==
    /\ typeOf \in [Chunk -> Archetype \cup {NoArchetype}]
    /\ ents \in [Chunk -> Seq(Handle)]
    /\ datas \in [Id -> Record]
    /\ size \in 0 .. MaxIds
    /\ freeList \in Seq(Id)
    /\ call \in Call
    /\ issued \in [Id -> Seq(Version)]

-----------------------------------------------------------------------------
(* Helpers.  A definition whose comment begins with "Mutant" is a faulty    *)
(* variant of the definition after it, which no specification uses: the    *)
(* properties have to tell the two apart.                                  *)

Smaller(a, b) == IF a < b THEN a ELSE b

\* The ids of the handles in a part of an entity column.
IdsOf(hs) == [i \in DOMAIN hs |-> hs[i].id]

\* Whether id is among the ids, and at which place.
Among(ids, id) == \E i \in DOMAIN ids : ids[i] = id
PlaceOf(ids, id) == CHOOSE i \in DOMAIN ids : ids[i] = id

\* Mutant: the chunk of a moved entity is not rewritten.
PlaceAtSameChunk(d, ids, c, start) ==
    [id \in Id |-> IF Among(ids, id)
                   THEN [d[id] EXCEPT !.i = start + PlaceOf(ids, id) - 1]
                   ELSE d[id]]

\* The records of the ids now say chunk c, places start, start + 1, ...
PlaceAt(d, ids, c, start) ==
    [id \in Id |-> IF Among(ids, id)
                   THEN [c |-> c, i |-> start + PlaceOf(ids, id) - 1,
                         v |-> d[id].v]
                   ELSE d[id]]

\* Mutants: the index counts from 1; the index is not rewritten.
ReindexFromZero(d, ids, start) ==
    [id \in Id |-> IF Among(ids, id)
                   THEN [d[id] EXCEPT !.i = start + PlaceOf(ids, id) - 2]
                   ELSE d[id]]
ReindexNothing(d, ids, start) == d

\* The same, by code that writes the index and leaves the chunk alone.
Reindex(d, ids, start) ==
    [id \in Id |-> IF Among(ids, id)
                   THEN [c |-> d[id].c, i |-> start + PlaceOf(ids, id) - 1,
                         v |-> d[id].v]
                   ELSE d[id]]

\* handle::recycle in the 8 bits of a record: the successor of a version,
\* passing over the largest one, which marks transient handles.
Transient == VersionCount - 1

\* Mutants: the version stays; the reserved version is not passed over.
RecycleSame(v) == v
RecyclePlain(v) == (v + 1) % VersionCount

Recycle(v) == IF v + 1 = Transient THEN (v + 2) % VersionCount
                                   ELSE (v + 1) % VersionCount

\* Walking nextFree stops at the sentinel 0, whichever id wrote it.
UpToZero(s) ==
    SubSeq(s, 1, Cardinality({i \in 1 .. Len(s) : \A j \in 1 .. i : s[j] # 0}))

\* Mutant: the last freed id does not lead on to the list before.
ThreadedAlone(ids) == UpToZero(ids)

\* free_entities puts the freed ids in front of the list.
Threaded(ids) == UpToZero(ids \o freeList)

\* The slice of the chunk's column that holds count handles from start.
Part(c, start, count) == SubSeq(ents[c], start + 1, start + count)

\* Mutant: as many handles as the hole is long, even if the tail is shorter.
TailLengthOfHole(c, start, count) == count

\* free_slice: the hole is filled with the handles at the end of the column.
TailLength(c, start, count) == Smaller(count, Len(ents[c]) - start - count)
Tail_(c, start, count) ==
    LET n == TailLength(c, start, count)
    IN  SubSeq(ents[c], Len(ents[c]) - n + 1, Len(ents[c]))
Filled(c, start, count) ==
    LET n == TailLength(c, start, count)
    IN  [j \in 1 .. Len(ents[c]) - count |->
            IF start < j /\ j <= start + n
            THEN ents[c][Len(ents[c]) - n + (j - start)]
            ELSE ents[c][j]]

\* Mutant: an empty chunk is kept.
TypeAfterKept(c, count) == typeOf[c]

\* A chunk that has become empty goes back to the allocator.
TypeAfter(c, count) == IF count = 0 THEN NoArchetype ELSE typeOf[c]

Slices == [c : Chunk, start : 0 .. MaxCount, count : 1 .. MaxCount]
IsSlice(s) == s.start + s.count <= Len(ents[s.c])
Full(s) == s.start = 0 /\ s.count = Len(ents[s.c])

\* Chunks that allocate_slice may return for archetype g.
HasRoom(g, c) == \/ typeOf[c] = g /\ Len(ents[c]) < Capacity[c]
                 \/ typeOf[c] = NoArchetype

\* Bound: a looping call starts when as many chunks are unused as it names
\* entities (malloc does not run out).
Unused == {c \in Chunk : typeOf[c] = NoArchetype}
RoomFor(count) == Cardinality(Unused) >= count

\* exist: what the table answers for a handle.
Exist(h) == h.id < size /\ datas[h.id].v = h.v

-----------------------------------------------------------------------------
(* Initial state: an empty world.                                          *)

Init ==
    /\ typeOf = [c \in Chunk |-> NoArchetype]
    /\ ents = [c \in Chunk |-> <<>>]
    /\ datas = [id \in Id |-> NoRecord]
    /\ size = 0
    /\ freeList = <<>>
    /\ call = Idle
    /\ issued = [id \in Id |-> <<>>]

-----------------------------------------------------------------------------
(* allocate(g, count), and instantiate_single, whose loop differs only in  *)
(* how it fills the component columns.                                     *)

Allocate(g, count) ==
    /\ call = Idle
    /\ RoomFor(count)
    /\ size + count <= MaxIds + Len(freeList)     \* bound: 24 bit ids
    /\ call' = [op |-> "allocate", g |-> g, c |-> NoChunk,
                start |-> 0, count |-> count, k |-> 0, order |-> <<>>]
    /\ UNCHANGED <<typeOf, ents, datas, size, freeList, issued>>

\* new_entities: the ids of the next n entities, free ones first.
NewIds(n) == [i \in 1 .. n |-> IF i <= Len(freeList) THEN freeList[i]
                                              ELSE size + i - Len(freeList) - 1]

\* The version of a new entity: what the record of a reused id says; an id
\* past the end gets a record whose bytes resize leaves uninitialised.
NewVersions(n) ==
    {w \in [1 .. n -> Version] :
        \A i \in 1 .. n : IF i <= Len(freeList)
                          THEN w[i] = datas[freeList[i]].v
                          ELSE w[i] \in FreshVersion}

NewEntities(c, n) ==
    LET ids == NewIds(n)
        used == Smaller(n, Len(freeList))
        start == Len(ents[c])
    IN  \E w \in NewVersions(n) :
            /\ ents' = [ents EXCEPT ![c] =
                           @ \o [i \in 1 .. n |-> [id |-> ids[i], v |-> w[i]]]]
            /\ datas' = [id \in Id |->
                           IF Among(ids, id)
                           THEN [c |-> c, i |-> start + PlaceOf(ids, id) - 1,
                                 v |-> w[PlaceOf(ids, id)]]
                           ELSE datas[id]]
            /\ issued' = [id \in Id |->
                           IF Among(ids, id)
                           THEN Append(issued[id], w[PlaceOf(ids, id)])
                           ELSE issued[id]]
            /\ size' = size + n - used
            /\ freeList' = SubSeq(freeList, used + 1, Len(freeList))

\* One iteration: allocate_slice, construct, new_entities.
AllocateStep(c) ==
    LET n == Smaller(call.count - call.k, Capacity[c] - Len(ents[c]))
    IN  /\ call.op = "allocate"
        /\ HasRoom(call.g, c)
        /\ NewEntities(c, n)
        /\ typeOf' = [typeOf EXCEPT ![c] = call.g]
        /\ call' = IF call.k + n = call.count
                   THEN Idle
                   ELSE [call EXCEPT !.k = @ + n]

-----------------------------------------------------------------------------
(* Destroying and casting slices.                                          *)

\* free_entities and free_slice.
Release(s) ==
    LET ids == IdsOf(Part(s.c, s.start, s.count))
        freed == [id \in Id |->
                    IF Among(ids, id)
                    THEN [c |-> NoChunk, i |-> 0, v |-> Recycle(datas[id].v)]
                    ELSE datas[id]]
    IN  /\ \A i \in DOMAIN ids : Len(issued[ids[i]]) < MaxIssues   \* bound
        /\ freeList' = Threaded(ids)
        /\ datas' = Reindex(freed, IdsOf(Tail_(s.c, s.start, s.count)), s.start)
        /\ ents' = [ents EXCEPT ![s.c] = Filled(s.c, s.start, s.count)]
        /\ typeOf' = [typeOf EXCEPT ![s.c] =
                         TypeAfter(s.c, Len(ents[s.c]) - s.count)]
        /\ UNCHANGED <<size, call, issued>>

\* cast_slice starts: k entities of the slice have been moved out so far.
BeginCastSlice(s, g) ==
    /\ RoomFor(s.count)
    /\ call' = [op |-> "cast", g |-> g, c |-> s.c,
                start |-> s.start, count |-> s.count, k |-> 0, order |-> <<>>]
    /\ UNCHANGED <<typeOf, ents, datas, size, freeList, issued>>

\* destroy(slice): an entity with tracked components is not freed but cast
\* to what remains of it; a remnant is left alone.
Destroy(s) ==
    LET g == typeOf[s.c]
    IN  /\ call = Idle
        /\ IsSlice(s)
        /\ \/ Cleaning[g] = NoArchetype /\ Release(s)
           \/ Cleaning[g] \notin {g, NoArchetype} /\ BeginCastSlice(s, Cleaning[g])

\* cast(slice, g).
Cast(s, g) ==
    /\ call = Idle
    /\ IsSlice(s)
    /\ \/ g = NoArchetype /\ Release(s)
       \/ /\ g \notin {NoArchetype, typeOf[s.c]}
          /\ ~ (Full(s) /\ <<typeOf[s.c], g>> \in StaticCastable)
          /\ BeginCastSlice(s, g)
       \/ /\ g \notin {NoArchetype, typeOf[s.c]}
          /\ Full(s) /\ <<typeOf[s.c], g>> \in StaticCastable
          /\ typeOf' = [typeOf EXCEPT ![s.c] = g]
          /\ UNCHANGED <<ents, datas, size, freeList, call, issued>>

\* One iteration of cast_slice: the next entities are copied to chunk c of
\* the target archetype.  The source column still lists them.
CastStep(c) ==
    LET n == Smaller(call.count - call.k, Capacity[c] - Len(ents[c]))
        moved == Part(call.c, call.start + call.k, n)
    IN  /\ call.op = "cast"
        /\ call.k < call.count
        /\ HasRoom(call.g, c)
        /\ ents' = [ents EXCEPT ![c] = @ \o moved]
        /\ datas' = PlaceAt(datas, IdsOf(moved), c, Len(ents[c]))
        /\ typeOf' = [typeOf EXCEPT ![c] = call.g]
        /\ call' = [call EXCEPT !.k = @ + n]
        /\ UNCHANGED <<size, freeList, issued>>

\* Mutant: the ids of the entities that were cast are freed with the slice.
CastEndFrees ==
    /\ call.op = "cast"
    /\ call.k = call.count
    /\ freeList' = Threaded(IdsOf(Part(call.c, call.start, call.count)))
    /\ datas' = Reindex(datas, IdsOf(Tail_(call.c, call.start, call.count)),
                        call.start)
    /\ ents' = [ents EXCEPT ![call.c] = Filled(call.c, call.start, call.count)]
    /\ typeOf' = [typeOf EXCEPT ![call.c] =
                     TypeAfter(call.c, Len(ents[call.c]) - call.count)]
    /\ call' = Idle
    /\ UNCHANGED <<size, issued>>

\* The free_slice that ends cast_slice.
CastEnd ==
    /\ call.op = "cast"
    /\ call.k = call.count
    /\ datas' = Reindex(datas, IdsOf(Tail_(call.c, call.start, call.count)),
                        call.start)
    /\ ents' = [ents EXCEPT ![call.c] = Filled(call.c, call.start, call.count)]
    /\ typeOf' = [typeOf EXCEPT ![call.c] =
                     TypeAfter(call.c, Len(ents[call.c]) - call.count)]
    /\ call' = Idle
    /\ UNCHANGED <<size, freeList, issued>>

-----------------------------------------------------------------------------
(* Whole-world operations.                                                 *)

\* merge_chunks of one archetype walks its list from both ends: dst is the
\* first chunk that is not full, src the last one that is left.  The sort that
\* precedes the walk is left to ChunkMerge: here the order is any.  So is the
\* case in which the last step empties the chunk that dst moves on to, after
\* which the code walks on from a chunk it has just returned.
Orders(g) ==
    LET own == {c \in Chunk : typeOf[c] = g}
    IN  {o \in UNION {[1 .. n -> own] : n \in 2 .. Cardinality(own)} :
            \A i, j \in DOMAIN o : o[i] = o[j] => i = j}

MergeChunks(g) ==
    /\ call = Idle
    /\ \E o \in Orders(g) :
           call' = [op |-> "merge", g |-> NoArchetype, c |-> NoChunk,
                    start |-> 0, count |-> 0, k |-> 0, order |-> o]
    /\ UNCHANGED <<typeOf, ents, datas, size, freeList, issued>>

\* Mutant: a source chunk that has become empty stays the source.
LastKept(order, after) == Len(order)

\* An emptied source chunk is destroyed and the one before it is next.
LastLeft(order, after) == IF after = 0 THEN Len(order) - 1 ELSE Len(order)

\* One step of the walk over the chunks, of an archetype without large ones.
MergeStep ==
    LET order == call.order
        dst == order[1]
        src == order[Len(order)]
        n == Smaller(Capacity[dst] - Len(ents[dst]), Len(ents[src]))
        moved == Part(src, Len(ents[src]) - n, n)
        after == Len(ents[src]) - n
        first == IF Len(ents[dst]) + n = Capacity[dst] THEN 2 ELSE 1
        last == LastLeft(order, after)
    IN  /\ call.op = "merge"
        /\ Len(order) > 1
        /\ dst # src
        /\ ents' = [ents EXCEPT ![dst] = @ \o moved,
                                ![src] = SubSeq(@, 1, after)]
        /\ datas' = PlaceAt(datas, IdsOf(moved), dst, Len(ents[dst]))
        /\ typeOf' = [typeOf EXCEPT ![src] = TypeAfter(src, after)]
        /\ call' = [call EXCEPT !.order = SubSeq(order, first, last)]
        /\ UNCHANGED <<size, freeList, issued>>

MergeEnd ==
    /\ call.op = "merge"
    /\ Len(call.order) <= 1
    /\ call' = Idle
    /\ UNCHANGED <<typeOf, ents, datas, size, freeList, issued>>

\* clear: the table starts over, and handles from before mean nothing.
Clear ==
    /\ call = Idle
    /\ typeOf' = [c \in Chunk |-> NoArchetype]
    /\ ents' = [c \in Chunk |-> <<>>]
    /\ datas' = [id \in Id |-> NoRecord]
    /\ size' = 0
    /\ freeList' = <<>>
    /\ issued' = [id \in Id |-> <<>>]
    /\ UNCHANGED call

-----------------------------------------------------------------------------

Step ==
    \/ CastEnd
    \/ MergeEnd
    \/ \E c \in Chunk : AllocateStep(c) \/ CastStep(c)
    \/ MergeStep

Next ==
    \/ \E g \in Archetype, count \in 1 .. MaxCount : Allocate(g, count)
    \/ \E c \in Chunk : AllocateStep(c)
    \/ \E s \in Slices : Destroy(s)
    \/ \E s \in Slices, g \in Archetype \cup {NoArchetype} : Cast(s, g)
    \/ \E c \in Chunk : CastStep(c)
    \/ CastEnd
    \/ \E g \in Archetype : MergeChunks(g)
    \/ MergeStep
    \/ MergeEnd
    \/ Clear

Spec == Init /\ [][Next]_vars

\* A call runs on its caller's thread until it returns.
FairSpec == Spec /\ WF_vars(Step)

-----------------------------------------------------------------------------
(* Properties.                                                             *)

\* Places of chunk c whose handle has already been moved out by the
\* cast_slice in progress.
MovedOut(c) ==
    IF call.op = "cast" /\ call.c = c
    THEN call.start + 1 .. call.start + call.k
    ELSE {}

\* The table and the chunks agree: the record of a stored handle names the
\* very place that stores it and carries the handle's version.  (new_entities,
\* move_entities, fill_entities and free_slice each rewrite only one side of
\* some of the pairs.)
Coherent ==
    \A c \in Chunk : \A j \in 1 .. Len(ents[c]) :
        j \notin MovedOut(c) =>
            /\ ents[c][j].id < size
            /\ datas[ents[c][j].id] = [c |-> c, i |-> j - 1, v |-> ents[c][j].v]

\* And conversely a record that names a chunk names a place that holds the
\* id's handle, so as_slice never leads outside a column.
NoDanglingRecord ==
    \A id \in Id : datas[id].c # NoChunk =>
        /\ datas[id].i < Len(ents[datas[id].c])
        /\ ents[datas[id].c][datas[id].i + 1] = [id |-> id, v |-> datas[id].v]

\* The free list holds no id twice and no id of a living entity, so
\* new_entities never hands out an id that is in use.
FreeListSound ==
    /\ \A i, j \in 1 .. Len(freeList) : freeList[i] = freeList[j] => i = j
    /\ \A i \in 1 .. Len(freeList) :
           freeList[i] < size /\ datas[freeList[i]].c = NoChunk

\* A chunk in use is never empty between calls (an empty one is destroyed),
\* and no chunk ever holds more than its capacity.
ChunksWellFilled ==
    \A c \in Chunk :
        /\ Len(ents[c]) <= Capacity[c]
        /\ typeOf[c] = NoArchetype <=> ents[c] = <<>>

LiveId(id) == datas[id].c # NoChunk

\* exist answers no for the handle of a destroyed entity, until its id has
\* been recycled so often that the 8 bit version comes round again.
StaleHandleRejected ==
    \A id \in Id : \A n \in 1 .. Len(issued[id]) :
        LET recycled == Len(issued[id]) - n + (IF LiveId(id) THEN 0 ELSE 1)
        IN  recycled \in 1 .. VersionCount - 2 => issued[id][n] # datas[id].v

\* A reused id never gets the version reserved for transient handles, so a
\* command buffer never takes a recycled entity for one of its own.
ReusedIdNotTransient ==
    \A id \in Id : \A n \in 2 .. Len(issued[id]) : issued[id][n] # Transient

HandlesIn(c) == {ents[c][j] : j \in (1 .. Len(ents[c])) \ MovedOut(c)}
Handles == UNION {HandlesIn(c) : c \in Chunk}

\* Casting moves entities and merging chunks packs them: no step of
\* cast_slice or merge_chunks creates, loses or duplicates a handle.
CastKeepsEntities ==
    [][call.op \in {"cast", "merge"} \/ call'.op \in {"cast", "merge"}
       => Handles' = Handles]_vars

\* Ids that no entity has and the free list does not offer are gone for good.
Lost == {id \in 0 .. size - 1 : ~ LiveId(id) /\ ~ Among(freeList, id)}

\* free_entities loses ids only when entity 0 is destroyed: its id is the
\* sentinel that ends the free list.
OnlyZeroLosesIds ==
    [][~ (Lost' \subseteq Lost) => LiveId(0) /\ ~ LiveId(0)']_vars

\* Every call returns: the loops of allocate and cast_slice end, and so does the
\* walk of merge_chunks over the small and fast chunks.  Its loop over large
\* chunks is not among them: it never advances, and a merge of an archetype
\* whose first chunk is large does not return.
CallReturns == call # Idle ~> call = Idle
=============================================================================
