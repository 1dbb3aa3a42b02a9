# Dots in TLA+

Dots is an entity component system in C++. Entities are stored column by column in
chunks of an archetype; a `world` owns archetypes, chunks and the table of entities and
is driven by one thread; a `pipeline` wraps a world and runs passes over it on other
threads, in an order derived from what the passes declare to read and write.

This directory holds specifications of the parts of Dots that are hard to test, the
configurations that check them with TLC, and proofs that TLAPS checks. `PROJECT.json`
lists the components, the runs, the properties, the source lines behind every
definition, and the hazards that the properties are for.

## 1. Inventory

| Component | State | Operations | What makes it correct |
|---|---|---|---|
| Entity table (`Database.cpp` 2788-2911) | `entities::datas` (chunk, index, version by id), the free list threaded through it, the entity column of every chunk | `new_entities`, `free_entities`, `move_entities`, `fill_entities`, `exist`, `clear` | table and columns are inverses; an id in use is not handed out; a stale handle is rejected |
| Chunk lists (`Database.cpp` 140-160, 852-859, 1183-1363, 1615-1639, 1721-1813) | per archetype `firstChunk`, `lastChunk`, `firstFree`, `chunkCount`, `size`; per chunk `next`, `prev`, `count`, bin | `add_chunk`, `remove_chunk`, `mark_free`, `unmark_free`, `resize_chunk`, `allocate_slice`, `free_slice`, `cast_slice`, `cast`, `deserialize_slice` | every chunk in its archetype's list once; full chunks before the others; room is found when there is some |
| Chunk merging (`Database.cpp` 1641-1719) | the same | `merge_chunks` | no chunk and no entity is lost |
| Pipeline (`Codebase.cpp` 1-680, `CodebaseImpl.hpp`, `DotsTest/test2.cpp` 197-345) | `dependencyEntries` (last writer and readers, by weak pointer), the dependencies of each pass, `eventmap` | `create_pass`, `create_custom_pass`, `sync_entry`, `sync_archetype`, `sync_all_ro`, `wait`, `forget`, `create_tasks`, `wait_for_dependencies`, `signal_pass` | passes that conflict run in the order of creation; the program waits for what it touches; every pass finishes |
| Batch iteration (`Database.cpp` 1923-1954, 3201-3209) | a cursor | `iter`, `next` | the slices cover the entities |
| Lifecycle (`Database.cpp` 285-291, 1027-1181, 1768-1789) | the types of an archetype, among them markers and the cleanup mark | `get_cleaning`, `get_casted`, `static_castable` | tracked components outlive `destroy`, and only those; a marker stands for its type until the type comes |
| Query cache (`Database.cpp` 739-850, 2668-2700, 2960-2993) | `queries` | `get_query_cache`, `update_queries`, `gc_meta` | a cached query holds the archetypes, and gives the masks, that an uncached one would |
| Prefabs and groups (`Database.cpp` 1371-1565, 1985-2292) | members of groups, the references in them | `instantiate`, `destroy`, `gather_reference` | a group is copied as a whole, references among its members lead to the copies, the sources stay as they were |
| Moving worlds (`Database.cpp` 1822-1886, 2293-2343) | two worlds | `move_context`, copy and move constructors | every entity ends up in one table |
| Serialization (`Database.cpp` 460-501, 1286-1368, 2345-2642) | a stream | `serialize`, `deserialize` (the world's and the pipeline's) | what is read is what was written |
| Change tracking (`Database.cpp` 188-193, 1566-1582, 2906-2950) | timestamps | `structural_change`, `chunk_filter` | no change is missed |
| Command buffer (`Codebase.cpp` 697-883, `Codebase.h` 416-504) | commands by thread, a scratch buffer by thread, the count of transient handles | recording, `execute` | every entity ends with what the calls on it ask for |
| Thread storage (`Codebase.h` 391-414) | slots by thread | `get` | one slot per thread |
| Ring buffers (`RingBuffer.h`) | two atomic indices | `write_ptr`, `read_ptr` and their updates | first in, first out, nothing overwritten |
| `Buffer.h`, `ChunkVector.h`, scratch stack, pools | blocks of memory | growth, shrinking | no access outside a block |
| `Set.h`, `Type.h`, column offsets | none | merge, difference, layout | agrees with sets; columns do not overlap |

**Interaction.** The pipeline derives from `world`: its calls first synchronise (wait
for passes) and then make the world's call. `allocate`, `cast`, `destroy` and
`merge_chunks` change the chunk lists and, in the same call, the entity table.
`remove_chunk` calls `update_queries`, which calls back into the pipeline
(`update_archetype`). Passes read chunks directly. A subclass of `pipeline` (in this
repository the one in the tests) supplies the events by which passes are waited for. A
command buffer is written by the threads of passes, each in a local that it finds
through a `thread_storage`, and executed by the program's thread, which makes the
pipeline's calls. `instantiate` and `serialize` of a group call the same functions for
each member, after rewriting the references in them. The query cache is told of every
archetype that is made or freed, from within `allocate`, `cast` and `destroy`.

**What is hard.** In the world: long sequences of legal calls over two structures that
have to stay inverses, lists kept in order by functions that rely on each other,
sentinels and small bit fields; caches that must follow what is made and freed; handles
rewritten in place and back. In the pipeline: registration on one thread, completion on
others, weak pointers that expire in between, and maps keyed by addresses that are used
again. Between threads: slots taken before they are marked, indices read at another
moment than they are used, commands rearranged between their recording and their
execution.

## 2. Modules

| Module | Models | Composition |
|---|---|---|
| `EntityTable` | entity table and entity columns under allocate, destroy, cast, merge, clear | stands on what `ChunkPool` promises |
| `EntityTable_proofs` | theorems about `EntityTable`: its structure, and the life of an entity | extends it |
| `ChunkPool` | what the chunk lists promise: room in a chunk of the archetype, or a new chunk when all are full | abstract |
| `ChunkList` | the lists, function by function | implements `ChunkPool` (`PoolSpec`) |
| `ChunkList_proofs` | theorems about `ChunkList` | extends it |
| `ChunkMerge` | `merge_chunks`, loop by loop | extends `ChunkList`; starts from every list it builds |
| `ChunkMerge_proofs` | theorems about `ChunkMerge` | extends it and `ChunkList_proofs` |
| `Pipeline` | passes, dependencies, events, the program's thread | on its own; entities are abstracted to entries |
| `Pipeline_proofs` | theorems about `Pipeline` | extends it |
| `ThreadStorage` | `thread_storage::get` by several threads | by itself (`StorageSpec`), and as part of `CommandBuffer` |
| `CommandBuffer` | the locals of a command buffer and `execute` | extends `ThreadStorage` |
| `CommandBuffer_proofs` | theorems about `ThreadStorage`, by itself and as `CommandBuffer` uses it, and about what `execute` makes of what is recorded | extends `CommandBuffer` |
| `Archetypes` | the archetypes of a world, the query cache with its masks, the lifecycle of tracked components | on its own; chunks are abstracted away |
| `Archetypes_proofs` | theorems about `Archetypes` | extends it |
| `Groups` | instances and serialization of groups by a world, the patching of references | on its own; chunks are abstracted away |
| `Groups_proofs` | theorems about `Groups` | extends it |
| `Fifo` | what a ring buffer promises: a bounded queue | abstract |
| `RingBuffer` | two threads on a ring buffer | implements `Fifo` (`FifoSpec`) |
| `RingBuffer_proofs` | theorems about `RingBuffer` | extends it |
| `MC...` | instances for TLC | |

**EntityTable.** `datas`, `size` and `freeList` are the table, `ents` the entity
columns, `typeOf` which chunks are in use. The calls that loop over chunks are one
action per round (`AllocateStep`, `CastStep`, `MergeStep`) with the locals of the loop
in `call`; everything else is one action per call. `issued` is a history variable: the
versions given out for each id. `PlaceAt` is `move_entities`, `Reindex` is
`fill_entities`, `Threaded` with `UpToZero` is `free_entities` seen from the list that
a later `new_entities` will walk. Which chunk serves an allocation is left open here,
which allows everything `ChunkList` does. Component columns are moved by the same
copies as the handles and are left out. The walk of `merge_chunks` over small and fast
chunks is modelled where it is defined; where it leaves the list is `ChunkMerge`'s
subject, and so are its two loops over large chunks in front (1684-1694), of which the
first never returns: `MergeStep` has neither. Every chunk holds an entity at least
here; those that hold none are `ChunkList`'s. `Cleaning` and `StaticCastable` are
constants: the results of `get_cleaning` and `static_castable` on the instance's
archetypes.

**ChunkList.** The functions that relink one chunk are operators from the fields of an
archetype and all chunks to the same, composed as the code's calls are: `ResizeChunk`
calls `UnmarkFree`, `MarkFree` or `DestroyChunk`, which calls `RemoveChunk`, which
calls `Remove`. Entities are counted. `size` is kept modulo `SizeMod`, with the double
subtraction of `cast_slice`, because `merge_chunks` reads it; `Load` adds the size that
a file gives for the archetype (`ReadSize`), which need not be that of the slice that
is read. A bin may have capacity 0: `new_chunk` compares the entities' bytes with the
whole bin, header included. `resize_chunk` then destroys the new chunk before the slice
in it is constructed, through a type that is null: undefined, and disabled in the model
(`Kept`). Two constants bound what the environment may do: `AnyRelabel` (may `cast`
relabel a full chunk where `add_chunk` breaks the order) and `AnyLoad` (may a slice be
read back that its bin cannot hold). Both are FALSE in the passing run, so its result
reads: *except for those two cases*, the lists are right.

**ChunkMerge.** One action per round of each loop of `merge_chunks`. A round that would
follow a null pointer, or a chunk already given back, is undefined in the code and
disabled in the model (`Held`). So is one that would read the type of a large chunk
just added, which `malloc_chunk` does not set: nothing is poured once a large chunk has
been added. `EndsInUse` says that this does not happen, and is violated (section 5), so
that no run has it. The call is followed to its end only: what it leaves need not be a
list that the other operations can work on.

**Pipeline.** `pass` holds each pass's phase, declaration, address and dependencies;
`entry` the last writer and the readers of every component of every archetype, every
archetype's entity list and every shared resource; `event` is `eventmap`; `main` is the
program's thread. A pass is alive (its weak pointer can be locked) while the program
holds it or its closure exists. `Requests` is what `setup_pass_dependency` asks, in
order, including the early `return` of `sync_type` and the skipping of entries already
asked for; `Register` handles one request. `CreateTasks`, `Run`, `Signal`, `Release`
are the closure of `schedule`. `CreateTasks` is a round: the query of a pass over what
has changed synchronises one archetype after the other, each when it has waited for the
one before (`todo`, `waits`); the round behind the last, and the only one of any other
pass, makes the tasks. A call of the program that synchronises several archetypes
(`Change`: two for a cast, two for each member of a group) is one step. `own` is
history: whether `eventmap` took the event that was made for the pass. The base class
`pipeline` leaves waiting to a subclass; the one modelled is the one in
`DotsTest/test2.cpp`, the only one in the repository. Three constants name what the
program and the machine may do: `ReuseStale` (a new pass may get an address that
`eventmap` still has), `MayDrop` (a pass may be dropped unscheduled), `SlowRelease`
(`wait` may be called, and may return, while a finished pass is still held). All are
FALSE in the passing runs; `OwnEventsAwaited` (section 6) is proved for any.

**ThreadStorage.** `get` is four steps: a turn of the search, the increment of `size`,
the store of the id together with the construction (nobody else is concerned with the
latter), and the return. `ids` begins with what the block from the pool holds
(`IdsBefore`), which may be ids that threads left there: `context::malloc` clears
nothing. `StorageSpec` is the storage alone, with threads that call `get` again and
again.

**CommandBuffer.** `local` holds the seven vectors of every local, indexed as in the
code by the place of an entity in `entities`. Recording is one action per call;
`execute` is one action per command and phase; `Visits` are the phases and locals with
something to do, gone through in the order `Before`. The order of the entities in a
chunk at the start is a constant, `FirstColumn`, as any may have come about. The
batches of neighbours are modelled as written: two gathering loops never advance
(`Spin`), two others take one neighbour more and then the neighbour again. `column` is
the order of the entities in the chunk of their type, on which the batches depend, and
`Without` is `free_slice` seen from it. `cast` keeps its merged type in a buffer that
is static to the thread (`where` of a command); a type that was overwritten there is
read as any type. What is recorded is otherwise intact: the blocks of `storage_t`,
whose `push` indexes past the end when a block is full (`Codebase.h` 459), and the 100
bytes of the buffer of `cast`, which it does not check (`Codebase.cpp` 699), are left
out. `said` is a history variable: what the calls on each handle ask for, whatever
`execute` makes of them.

**Archetypes.** `typeOf` is the archetype of every entity, `archetypes` and `queries`
are the world's maps. Every call goes through `WithArchetype` (`get_archetype`,
`add_archetype`, `update_queries`) and `Left` (the end of `remove_chunk`), in the order
of the code; a cached query is a bag, as the code's vector may hold an archetype twice,
with a mask for each archetype (`masks`): `MaskOf` when it is asked, none when
`update_queries` adds the archetype later. `get_casted` is one operator per phase. An
entity may be a metatype of others, and what those share with it changes when it is
cast: `stale` marks the archetypes concerned. A metatype that has been destroyed is a
null pointer in `get_shared_type` (`crashed`). What an archetype shares with its
metatypes, and they with theirs, is the least set closed under it (`Inherited`), which
the code reaches by recursion.

**Groups.** `ent` has one reference and the group of every entity. `Flattened` and
`Patch` are `flatten_group` and `chunk::patch`; `Joined` is the loop of the former over
one group, whose recursion is cut `MaxIds` deep. A group that lists entities twice at
every level grows without bound, so calls are made on groups that flatten to at most
`MaxIds` entities. `GroupToPrefab` rewrites the handles in the members to the numbers
of their places (`Place`), `Made` is where the copies of a member end up, `Resolve`
takes a number back to a handle. `stream` is what `serialize` writes, a record for each
member; `saved` is history. `Deserialize` is the world's; a pipeline's own
(`Codebase.cpp` 585-608) reads only the direct members of the first group, and is not
modelled. `Renamed` and `Image` belong to the properties: what a copy should be, said
without the detour by numbers.

**RingBuffer.** An action is one access to an index or a slot that the other thread
uses too. `want`, `at`, `n`, `k` are the locals of a call that moves a range in
batches. Indices count modulo `IndexMod`, which stands for 2^64. Sequential consistency
is assumed of what the code orders by acquire and release; a thread's relaxed load
reads only its own index.

## 3. Runs

| Run | Bounds | Shows |
|---|---|---|
| `entity_table` | 4 chunks of capacity 1, 2, 3, 3; 3 archetypes (plain, tracked, remnants); 4 ids; calls of at most 3 entities; an id handed out at most twice; 1.3 million states | table and columns stay inverses, the free list is sound, chunks are well filled, casting and merging keep the entities, only entity 0 loses ids |
| `entity_versions` | 3 chunks, 2 ids, 4 versions, each id handed out up to 6 times; fresh versions of any value; 74 thousand states | stale handles are rejected, reused ids never look transient, calls return |
| `chunk_list` | 4 chunks, 2 archetypes that differ by a tag, bins of 1, 2, 3 entities, sizes modulo 4 of which a file may hold 0 or 3; 78 thousand states | the lists are well formed and implement `ChunkPool` |
| `chunk_merge` | 4 chunks, bins of 1, 3, 4 entities; 186 thousand states | sorting loses no chunk, pouring no entity |
| `pipeline` | 3 passes over components of 2 archetypes, one of which sees a component of the other; 3 addresses; 3.7 million states | conflicting passes run in order, the program waits for what it touches and for the right event, `wait` waits for all |
| `pipeline_live` | 2 passes with a shared resource, an entity-less pass, random access; fairness; 155 thousand states | the same order, and every pass and every call finishes |
| `ring_buffer` | 3 slots, indices modulo 6, ranges of 0 to 3 elements of 2 values; 259 thousand states | no slot is used on both sides, `size` is safe to act on, the whole is a bounded queue |
| `command_buffer` | 2 threads, 2 entities that refer to each other in one chunk, 2 component types, 3 differences; 4 commands in all; a thread's id left in the block of ids; 775 thousand states | one local per thread; casts, sets and patches take effect across batches; `execute` returns |
| `archetypes` | 3 entities, one of which may be a metatype of the others; a tracked type with its marker, a shared type, both marks; 4 filters, one cached at a time; 197 thousand states | cached queries hold the right archetypes, marked entities complete and end as they should |
| `groups` | 3 entities in groups of any shape, up to 9 with copies; 2 copies a call, 3 edits, 2 calls; 431 thousand states | instances mirror the group, a round trip restores it, sources are put back |
| `chunk_list_relabel`, `pipeline_changed` | as `chunk_list`, `pipeline` | expected violations, section 5 |

Why the bounds are enough. A hole that only part of the tail fills, and a tail shorter
than the hole, need a chunk of three; a cast that spreads over two chunks while a third
keeps the rest, four chunks. A list has a first, an inner and a last chunk with three;
two archetypes trade chunks with four. In the pipeline every property relates two
passes, and a third is what can come between them: a reader between two writers, or a
pass that takes over an address. With 4 versions an id goes round the version twice in
6 issues. An id is handed out twice in `entity_table`, since the structure there does
not depend on its version. Three slots wrap a range of two at either of its elements,
and an index modulo 6 goes twice round the array before it wraps itself. A cast that
batches two neighbours while another of the same slice asks for something else needs
two entities and three commands; with a thread that has none of them, slots are taken
at once. The id that is left in the block is in the second slot, which its thread never
looks at before its own: one in the first slot would have two threads record in one
local (section 6). A merged type is overwritten by the second merge, in the fourth
command. A query sees an archetype come, go and come again with two entities of it, and
its shared types change with a third. Three entities form every shape that patching
tells apart: a chain, a group with two members, a member of two groups, a reference
outwards, inwards and across.

Bounds in guards: `MaxCount` (entities per call), `MaxIssues`, `MaxIds` (the 24 bit
ids), `MaxPass`, `MaxBatch`, `MaxCommands`, `MaxAll`, `MaxWrites`, `MaxEntities`,
`MaxNew`, `MaxQueries`, `MaxCopies`, `MaxEdits`, `MaxCalls`, and that a looping call
starts only when there are as many unused chunks as it names entities, which stands for
malloc not running out. In the code a version has 256 values, an id 24 bits, and a bin
hundreds of entities.

Symmetry is used for chunks of equal capacity, for addresses and, in `archetypes`, for
the two entities that are no metatype, in runs without liveness properties. Deadlock is
checked in the passing runs, except where the system stops: `chunk_merge` when the
merge it follows ends or where the code is undefined, `command_buffer` when the buffer
has been executed, `archetypes` and `groups` when their bounds are used up or a null
pointer is followed.

**Fairness.** `EntityTable!FairSpec` has weak fairness of the rounds of a call: a call
runs on its caller's thread and nothing else can disable it. `Pipeline!FairSpec` has
weak fairness of the rounds of the program's calls and of each closure: marl keeps
running every closure it has, and a closure that waits for an event gives up its
thread, so a waiting closure starves no other. Strong fairness of `Schedule` says that
the program schedules the passes it creates: it may be between other calls infinitely
often without ever being idle for ever. No fairness is assumed of the program's other
calls. `CommandBuffer!Spec` has weak fairness of the rounds of `execute`: they run on
the caller's thread, with nobody to wait for. None is assumed of the threads that
record.

## 4. Properties

`EntityTable`: `Coherent` and `NoDanglingRecord` are the two halves of the inverse;
`FreeListSound`; `ChunksWellFilled`; `CastKeepsEntities` (an action property over all
handles in the world); `OnlyZeroLosesIds`, which states exactly what the sentinel 0
costs; `StaleHandleRejected`, up to the version's round trip; `ReusedIdNotTransient`;
`CallReturns`, for the loops of `allocate` and `cast_slice` and for the walk of
`merge_chunks` over small and fast chunks. The loop of `merge_chunks` over large chunks
at the front of the list is excepted: it does not return (section 5).

`ChunkList`: `ListsWellFormed`, `FreeSuffix`, `NoneOverfull`, `SlicesNotEmpty` (what
lets `allocate`'s loop end; it leaves out, by name, a new chunk of a bin that holds no
entity, `BinHoldsNone`, and `NoSliceEmpty`, which does not, is violated), and the
refinement `PoolSpec` under which `type`, `bin` and `count` of `ChunkPool` are the
fields of the chunks. `ChunkMerge`: `SortKeepsChunks`, `PourKeepsEntities`.

`Pipeline`: `PassesInOrder` (the outcome is that of running passes in the order of
creation), `MainInOrder`, `WaitsForOwnEvent` (who waits for a pass that had an event
made for it finds that one, or none once it was set, however addresses are reused and
passes released), `WaitCompletes`, `PassesFinish`, `CallsReturn`. `Writes` and `Reads`,
on which conflicts are defined, are what `operation::get_parameter` gives a pass access
to, not what it registered: the two are derived separately, and that they fit is what
is checked.

`RingBuffer`: `BatchesApart`, `SizeIsSafe` and the refinement `FifoSpec`, which maps
the slots between the indices to the queue.

`ThreadStorage`: `OneLocalPerThread`, for any bytes in the block of ids. A thread whose
id was left in a slot may be let into that very slot before its owner has marked it,
which the property allows; nobody else is, and nowhere else.

`CommandBuffer`: `CastsTakeEffect` and `ReferencesResolved` compare the world after
`execute` with `said`; `ExecuteReturns`. They leave out, each by name, what the code
does otherwise (section 5).

`Archetypes`: `CacheExact` (a cached query holds the archetypes that a new one would,
whatever came and went; the masks are not part of it), `MasksExact` (it gives the masks
that a new one would, which is violated), `LifecycleSound`, `CleanedStays`.

`Groups`: `InstancesMirror` (the copies are the image of the group under the renaming
of its members), `RoundTrip` (the same for what a world reads back), `SourcesRestored`.
They leave out groups that list an entity twice, which the code asks its users not to
make, and the second of two copies that came of one (`Apart`).

Every property of a passing run is violated by a named faulty variant of a definition
(the definitions whose comment begins with "Mutant"; `PROJECT.json` pairs them).

## 5. Where the code does something else

Runs that TLC refutes, each with the line of the repository that says otherwise:

- `chunk_list_relabel`: a full chunk cast to an archetype that differs by tags is
  linked behind `firstChunk` even when `firstChunk` is the one with room. It then
  follows `firstFree`, and a later `allocate` returns an empty slice.
- `pipeline_changed`: a pass filtered by changed components waits for itself.

Further behaviour found with TLC that has no run of its own, because a run would repeat
one of these or only restate the code. The definitions named are in the modules:

- `EndsInUse` is violated by `merge_chunks`: when a step fills `dst` and empties its
  successor, the walk goes on from a chunk just given back; when a large chunk was
  added, its type, which nobody has set, is read. `CountLarge` never gets anywhere:
  merging an archetype that begins with a large chunk does not return.
- `NoSliceEmpty` is violated with `Capacity <- MCTightCapacity` and `SmallHint = 2`: an
  entity whose bytes are just below those of a small bin fits in none of it beside the
  header. `new_chunk` takes the small bin all the same, and `allocate` an empty slice
  of a chunk that is destroyed at once.
- `MasksExact` is violated in the instance of `archetypes`: an archetype that is made
  after a query was cached is added to it with an empty mask (`Database.cpp` 847), and
  disabled entities in it are not skipped where masks are compared as in
  `DotsTest/test.cpp` 523.
- `AnyLoad = TRUE` violates `NoneOverfull`.
- `ReuseStale = TRUE` violates `PassesInOrder`: `eventmap.insert` keeps the old entry
  of an address, so a pass at a used address starts out signalled.
- `SlowRelease = TRUE` brings about what `WaitsForOwnEvent` allows: `wait` forgets the
  event of a finished pass that can still be locked, and the next wait for it
  dereferences the end of `eventmap`.
- `MayDrop = TRUE` violates `PassesInOrder`: an expired reader hides the writer before
  it.
- `Cleaning <- CleaningInB` violates `MainInOrder`: `destroy` does not synchronise the
  archetype that remnants move to.
- `Kinds <- RandomKinds` violates `PassesFinish`: a random-access writer over two
  archetypes depends on itself.
- `Kinds <- PartlyKinds` violates `PassesInOrder`: `sync_type` returns at the first
  archetype without the component. So does `Kinds <- SeenKinds` with `Owner <-
  SeenOwner`: an entry read through a meta entity first and then written is registered
  as read.

Behaviour that the newer modules contain as the code has it, and that their properties
leave out by name:

- `CommandBuffer`: two equal allocations or instantiations in a row keep `execute` in
  its gathering loop for ever (`Spin`); destroying two neighbours destroys the second
  twice; `destroy` of a transient handle takes its number for an id (`Mistaken`); a
  type merged by a second cast is overwritten in the scratch buffer by the next merge
  (`Lost`); what a cast takes from an entity yet to be allocated stays (`kept`); a type
  taken and given back by two casts stays away (`undone`). A buffer is not emptied by
  `execute`.
- `Archetypes`: `is_cleaned` frees a dead entity with one type left whichever it is, so
  taking the cleanup mark from an entity with one tracked component frees it together
  with the component; a filter with a marker in `all` does not notice the cleanup mark;
  instantiating a dead entity, or making an archetype with a metatype that is dead,
  follows a null pointer; cached queries do not follow changes of metatypes.
- `Groups`: `serialize` replaces references that lead out of a group by null in the
  members themselves and does not put them back; a group that lists an entity twice
  loses its references; a member that is gone is a null pointer.

Behaviour outside the models, seen while reading for them: `pipeline::deserialize`
(`Codebase.cpp` 585-608) reads the members of the first group but not of the groups
among them, and `prefab_to_group` lets the number one past the end through;
`deserialize_archetype` gives null for size 0, which most callers read through;
`storage_t::push` and the buffer of `cast`, as said in section 2.

## 6. Proofs

Each theorem holds for every value of the constants that the module's assumption
admits; where it needs more, that is a named hypothesis of the theorem, listed here. A
theorem `Spec => []P` of a property that a run checks has the same `P`.

### Entity table

`EntityTable_proofs` proves, for every set of chunks with any positive capacities,
every set of archetypes, any numbers of ids and versions and any bounds, under
`ConstantsAssumption` alone:

| Theorem | States |
|---|---|
| `InitIInv`, `Invariance` | `IInv` holds initially and always |
| `TypeCorrect` | `Spec => []TypeOK` |
| `TableCoherent` | `Spec => []Coherent` |
| `FreeIdsUnused` | `Spec => []FreeListSound` |
| `ChunkCounts` | `Spec => []ChunksWellFilled` |

`IInv` is `TypeOK /\ ChunksWellFilled /\ CallOK /\ Coherent /\ FreeListSound`. None of
the last two is inductive alone. `Coherent` needs the free list to hold no id in use,
or `new_entities` would rewrite the record of a living entity; `FreeListSound` needs
`Coherent`, by which the ids of a freed slice are all different and have their records
in that slice. `CallOK` is what a looping call relies on between its rounds: that a
cast's slice lies within its chunk and its target is another archetype (so that source
and target chunk differ), that a merge's chunks are different and in use, that the ids
an allocation still needs exist.

The argument separates the data from the actions. `RightIn(Out)` says that every record
is right except for places in `Out`; `MoveEntities` shows that moving handles from one
chunk to the end of another keeps records right, with the places moved from added to
`Out`; `FillEntities` shows that filling a hole with the tail makes all of them right
again when `Out` was the hole. A step of cast or merge is an instance of the first, the
end of a cast and `Release` of the second. There is one lemma per action, and
`NextIInv` combines them.

Its second half builds on that invariant, under the same assumption:

| Theorem | States |
|---|---|
| `NoRecordDangles` | `Spec => []NoDanglingRecord` |
| `StaleHandlesRejected` | `Spec => []StaleHandleRejected` |
| `ReusedIdsNotTransient` | `Spec => []ReusedIdNotTransient` |
| `CastsKeepEntities` | `Spec => CastKeepsEntities`, an action property |
| `OnlyZeroLoses` | `Spec => OnlyZeroLosesIds`, an action property |

`LifeInv` adds three facts to `IInv`. `Stored` is the other half of the inverse.
`VersionsRun` says which versions an id was given: each is the one before it advanced
once (`Adv`), and the record of an id that is free is a step ahead. It is what makes a
stale handle differ from the living one until the versions have gone round, and
`Transient`, which `recycle` steps over, unreachable after the first issue. `ZeroEnds`
says that id 0, the sentinel, is not in the list it ends.

### Chunk lists

`ChunkList_proofs` proves `TypesHold`, `ListsStayWellFormed` (`ListsWellFormed`),
`FreeStaysSuffix` (`FreeSuffix`), `ChunksStayInCapacity` (`NoneOverfull`),
`SlicesHoldEntities` (`SlicesNotEmpty`) and `ImplementsPool` (`PoolSpec`), for any
chunks, archetypes and bins, those that hold no entity among them. Hypotheses: `~
AnyRelabel` and `~ AnyLoad`, the two cases in which the code does break its lists
(sections 2 and 5); the run has the same.

The properties follow the pointers; the invariant (`World`) instead has a witness: for
each archetype a sequence of its chunks, each once, whose neighbours are `prev` and
`next`, whose first `k` are exactly the full ones, with `firstFree` at place `k + 1`.
`ListsWellFormed` alone is not inductive: to unlink a chunk one has to know that its
neighbours agree about it, and to `mark_free` it, that what lies between the first and
the `firstFree` chunk is full. `UnusedEmpty` says that a chunk that is not in a list
holds nothing; `CallInv` ties the locals of a call in progress to the lists. One lemma
for each of the code's functions (`Remove`, `AddChunk`, `MarkFree`, `UnmarkFree`,
`ResizeChunk`) says what becomes of the sequence: `Without` a place or `Insert` at one.

### Chunk merging

`ChunkMerge_proofs` proves `SortLosesNoChunk` (`SortKeepsChunks`) and
`PouringLosesNoEntity` (`PourKeepsEntities`, an action property), under the hypotheses
of `ChunkList_proofs`, from the invariant `MergeInv` (`MergeInvariance`). Until
`merge_chunks` is called, that is `IInv` of `ChunkList_proofs`. While it sorts
(`SortInv`), the sequence of chunks is still the witness, with the cursor behind the
first `u`; which of them are full is no longer said, nor that `lastChunk` is the last
one, for the sort does not see to it. A round of the sort either walks on or takes the
chunk at `u + 1` out and puts it before one of the first `u` (`SortStepIs`);
`SortKeepsChunks` follows the pointers of the result. After the sort nothing is known
of the list (section 5 says why: `lastChunk`), and `PourKeepsEntities` holds without:
it needs only that no chunk is overfull (`Filled`).

`Entities` is a recursive function over the sets of chunks. That such a function
exists, and that two sums agree when one chunk gains what another loses, is induction
over finite sets, which the prover can follow when the induction is about a set instead
of a predicate: a set of sets that has `{}`, and `S` whenever it has `S` less its
chosen element, has all of them (`AllSubsets`), or else a smallest one that it lacks
would be missing.

### Pipeline

`Pipeline_proofs` proves for any number of passes, archetypes, types and resources:

| Theorem | States |
|---|---|
| `TypesHold` | `Spec => []TypeOK` |
| `PassesRunInOrder` | `Spec => []PassesInOrder` |
| `OwnEventsAwaited` | `Spec => []WaitsForOwnEvent` |
| `WaitWaitsForAll` | `WaitCompletes`, an action property |
| `ProgramWaitsItsTurn` | `MainInOrder`, an action property |

`OwnEventsAwaited` has no hypothesis. Its invariant, `OwnInv`, is that no two live
passes have one address, and that an event made for a pass is in `eventmap` until it is
set: `forget` and `clear` do nothing to the event of a pass that can be locked and is
not done. The others rest on the hypotheses in `Careful`: no address is reused while
`eventmap` has it, every pass is scheduled, finished passes are released before `wait`
goes on (`~ ReuseStale`, `~ MayDrop`, `~ SlowRelease`; the runs have the same, and
section 5 says what happens otherwise), and every kind of pass asks for all it uses
(`AsksForAll`). The last one compares `Requests`, the registrations of
`setup_pass_dependency`, with `Writes` and `Reads`, what the pass is then given. It
fails for passes over what has changed, for random-access writers where an earlier
archetype lacks the component, and for passes that see a component through a meta
entity before they write it: the code orders none of them right (`pipeline_changed`,
`PartlyKinds`, `SeenKinds`). It is a hypothesis since `Requests` flattens sequences by
recursion, out of the prover's reach; TLC evaluates it for the kinds of the runs,
except those over what has changed (`KindsAskForAll`). `ProgramWaitsItsTurn` also
supposes that `destroy` moves no remnants to an archetype it does not synchronise
(`NothingMoves`; `CleaningInB` shows why).

The argument is about one entry at a time. Two passes are `Separated` at an entry when
both have asked for it and one of the passes from the one to the other has asked to
write it: all conflicting passes are. A pass does not wait for every pass it is
separated from; the entry remembers only the last writer and the readers since. So the
invariant is that a pass's dependencies hold, for each pass it is separated from and
that is not done, either that one or one that is itself separated from it (`DepsInv`,
`Behind`); and that whoever has begun to run finds all it is separated from done
(`DoneInv`). `EntryInv` says that every pass that has asked for an entry is named by
it, is behind its last writer, or is done; `UsesInv` is the same for what the program
waits for. `LifeInv`, `RequestInv`, `EventInv` and `MainInv` say what a pass in each
phase and the program in each call have. `PassesInOrder` alone says nothing of passes
that have not begun, and so is not inductive. There is one lemma per action; `Register`
is the one where the rest is decided.

### Archetypes

`Archetypes_proofs`: `LifecycleIsSound` (`LifecycleSound`), `CleanedTypesStay`
(`CleanedStays`) and `CacheStaysExact` (`CacheExact`; which archetypes a query holds,
not their masks), for every set of types, keys, filters and entities.
`ArchetypesAssumption` has that the types are finitely many and that the cleanup and
disable marks are neither tracked nor copied (`DotsRuntime.cpp` 8-20).
`LifecycleIsSound` supposes `CallersSound`: callers do not make an entity with a
tracked type and its marker, or with nothing but the cleanup mark, and never add
markers or the mark in a cast. `CacheInv` is `CacheExact` without a bound on the
archetypes it speaks of, and inductive with `KeysInv`: no entity is its own metatype,
through others or not. The latter is needed in a cast, where the entity is moved before
its old archetype is taken from the bags: an entity that its own archetype led back to
would have changed, in between, which filters match that.

### Threads

`RingBuffer_proofs`: `TypesHold`, `BatchesStayApart` (`BatchesApart`), `SizesAreSafe`
(`SizeIsSafe`) and `ImplementsFifo` (`FifoSpec`), for any capacity, elements, lengths
of calls, and any `IndexMod` that is a multiple of the capacity. Without the last
(`RingAssumption`), the slots would jump when an index wraps round; in the code that is
after 2^64 elements, and with a capacity that is a power of two not at all.
`BatchesApart` relates the two threads' batches, yet each works from an index of the
other that it read some time ago. The invariant has, for each thread, that the distance
it believes in is at most the true one (`ProducerInv`, `ConsumerInv`), and that the
slots between the indices hold the queue (`QueueInv`). The lemmas before it are about
differences modulo `IndexMod`.

`CommandBuffer_proofs` begins with `StorageIsThreads` (`StorageSpec =>
[]OneLocalPerThread`) and `LocalsAreThreads`, the same of `CommandBuffer`'s
specification, each of whose steps is a step of the storage or none. Both are for any
number of threads and slots and any bytes in the block of ids. The invariant
(`SlotInv`) says that as many slots are taken as there are threads that have one or are
about to (`OneSlotEach`), and that a slot in which no id has been stored holds what it
held before (`IdsSound`).

### Command buffer

`CommandBuffer_proofs` proves `CastsAreTaken` (`CastsTakeEffect`) and
`ReferencesAreResolved` (`ReferencesResolved`), from `BufferInvHolds`, for any threads,
slots, types, existing entities in any order of their chunks, and any bounds on
commands, entities and handles. `BufferAssumption` has that the tasks of different
threads run over different entities, and that an entity without `Ref` has no reference.
Hypothesis: `ForeignIds`, that the block of ids comes from the pool without the id of a
thread that will ask. The code does not see to it. With such an id two threads may
record in one local, whose vectors are then changed by both at once, and there is
nothing left to prove of the commands; the run's block satisfies it as well.

Both properties speak of the world when `execute` has returned, so everything is in the
invariant. While threads record, it is `Rec`: the commands on a handle are all in one
local (`Alone`; this is where `OneLocalPerThread` is needed), and `said` is what they
come to (`HandleOK`). The latter does without the order of the casts: where nothing is
undone, the types of an entity are those it began with (`Origin`) and all that its
casts add, less all that they take (`TypesAfter`), so that merging two of them, or
batching them with others, changes nothing.

While `execute` runs, the invariant relates the world to the locals `L` as they were
recorded, which exist but are no longer in the state once handles have been resolved
(`Carried`, `Mirrors`). `Past` orders all turns of all phases and locals. `NewsInv`
says which handles have an entity by now, each one of its own; `ColumnInv` that an
entity is in one place of one column; `LivingInv` that what has been created lives
until its own destruction; `DataInv` that the types of an entity are what the casts
whose turn is past leave it, and its reference what the sets and patches do. The
batches of neighbours enter in `Applied`: when a cast has taken the next command's
entity along, that entity is one cast ahead of its turn, and the turn itself then
changes nothing, since casting twice is casting once. `Without` fills the hole in a
column from its end; `CutOut` shows that this loses no entity but those of the slice.
All of this holds until `execute` hangs, follows a null pointer, reads a type that was
overwritten, or is given a transient handle to destroy (`Failed`). There is one lemma
per action (`ExecuteCastKeeps` and so on).

### Groups

`Groups_proofs`, for any number of entities, members and copies, groups within groups
to any depth, and any bounds on edits and calls, with no hypothesis but
`GroupsAssumption`:

| Theorem | States |
|---|---|
| `GroupsInvHolds` | `Spec => []GroupsInv` |
| `SourcesRestoredHolds` | `Spec => SourcesRestored`, an action property |
| `InstancesMirrorHolds` | `Spec => InstancesMirror`, an action property |
| `RoundTripHolds` | `Spec => RoundTrip`, an action property |

The properties compare two states of one call, but hold only because of what earlier
calls left. A call rewrites the handles in what it flattens, so everything that lists
these entities through the group has to be flattened with it, or a number would stay
behind where a handle was. One would say that a group begins with its own entity; that
is not invariant. Where an entity is listed twice, both copies are made of the same
source, and the group of the second begins with the first copy. `Orderly` is what
remains: a group lists only entities that are `Tidy` (their group begins with
themselves, or its first handle has been lost), and an entity whose group begins with
another has that one's group, but for handles lost (`Alike`). It follows that what a
group is flattened to, if all there, holds with each entity its whole group
(`WholeIs`). `FirstOwn` keeps the second copies out of the groups that are edited.

- `InWorld` (`InOrder`): the handles of the living name ids that have been given out,
  and `ent` is `Orderly` and `FirstOwn`.
- `InStream`: so are the records on the stream, taken as a world of their own whose ids
  are their numbers (`RecordedOf`), and `deserialize` reads exactly as many as there
  are (`ReadAll`): each record that is read is one awaited, and those its group lists
  are awaited in turn.
- `InSaved`: the records on the stream are the entities saved, with numbers for
  handles.

Flattening is a recursive function, so what it returns is not known by expanding it:
`Deep` says what each level returns of the one above, `CountUp` that what holds at the
first level and is handed on holds at the last. That one may cut the recursion at
`MaxIds` is part of this: at level `n` a group is longer than `n`, not all there, or
flattened to its end (`Good`). `FlattenedSame`: where a renaming takes one world's
groups to another's (`Mirrored`), it takes what the ones are flattened to to what the
others are. For `InstancesMirror` the renaming takes an entity to its copy in one
instance, for `RoundTrip` a number to the entity read. The `Apart` of the properties,
no entity listed twice and the group its own, is what makes the renaming one to one.

### Model-checked only

- Liveness (`CallReturns`, `PassesFinish`, `CallsReturn`, `ExecuteReturns`): out of the
  prover's reach.
- That a given kind of pass satisfies `AsksForAll`.

Every other property of a passing run is the statement of a theorem.

## 7. Plan

Done, in this order: `EntityTable` with its proofs, `ChunkPool` and `ChunkList`,
`ChunkMerge`, `Pipeline`, `RingBuffer` over `Fifo`, `ThreadStorage` and
`CommandBuffer`, `Archetypes`, `Groups`; then the proofs of `RingBuffer`,
`ThreadStorage`, the rest of `EntityTable`, `Archetypes`, `ChunkList`, `Pipeline`,
`ChunkMerge`, `CommandBuffer` and `Groups`. Nothing of it is left.

## 8. Not modelled

Most of the repository's lines are vendored: `concurrentqueue.h`, boost::hana, gsl,
taskflow and its algorithms, with their tests. They are not the program and are left
alone; marl's events and closures are in `Pipeline` by the way they are used.

Of the program: values of components, their constructors and destructors, the columns
of masks, as no property here depends on them (a reference is modelled where references
are patched, and the masks that queries give are in `Archetypes`). The format of
streams and GUIDs. The C interface: wrappers. Sequential code on one object, which a
test reaches as well: `Buffer.h`, `ChunkVector.h`, the scratch stack, `Set.h`, the
layout of columns, the batches of `world::next`. Timestamps. Code that goes wrong with
its first call, where a model would have nothing to follow: `move_context`, the copy
constructor, `gc_meta` that changes an archetype, `destroy` of a slice with groups, the
loop of `merge_chunks` for a large chunk in front (these are listed as hazards, each at
its line). What goes wrong by size alone, in one thread: `storage_t::push` at the end
of a block (`Codebase.h` 459), the 100 bytes of the buffer of `cast` (`Codebase.cpp`
699). `pipeline::deserialize` (`Codebase.cpp` 585-608). Data races inside one call on
`dependencyEntries` and `eventmap`: each access is one step in `Pipeline`, and the race
is listed as a hazard. Archetypes that come and go while passes are pending.
