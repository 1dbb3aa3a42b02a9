---------------------------- MODULE CommandBuffer ----------------------------
(***************************************************************************)
(* command_buffer: threads record what is to be done to entities, each in  *)
(* a local of its own, and execute later does all of it on one thread.     *)
(*                                                                         *)
(* A command names an entry of the local's list of entities: a handle of   *)
(* the world, or a transient one for an entity that execute will create.   *)
(* execute goes over all locals once for each kind of command, in a fixed  *)
(* order, and batches neighbouring commands.  What the buffer does is thus *)
(* not the sequence of calls but a rearrangement of it.                    *)
(*                                                                         *)
(* Abstractions.                                                           *)
(*   - Type is a set of plain component types (no tags, no shared, tracked *)
(*     or buffer components, no groups).  One of them, Ref, holds an       *)
(*     entity reference; only its values are kept.                         *)
(*   - The entities of a type are in one chunk, in the order of column; a  *)
(*     chunk has room.                                                     *)
(*   - A handle is its id and whether it is transient: no handle of a      *)
(*     living entity is stale while commands are recorded.                 *)
(*   - local::cast leaves a merged type in a buffer that is static to the  *)
(*     thread.  Where says whether a recorded type is in the local's own   *)
(*     storage, in that buffer, or was in it before something else was;    *)
(*     a type that is lost may be read as any other.                       *)
(*   - What is recorded has room.  storage_t::push, where it grows, puts   *)
(*     size at (chunkSize + 1) * kChunkSize, one chunk beyond the one it   *)
(*     has added, and a merged type longer than the 100 bytes of the       *)
(*     static buffer goes past it; neither is modelled.                    *)
(*   - The values of IdsBefore are meant to be no threads here: a thread   *)
(*     that is let into a slot before it is constructed finds bytes there, *)
(*     of which the model makes an empty local.                            *)
(***************************************************************************)
EXTENDS ThreadStorage, Sequences, SequencesExt

CONSTANTS
    Type,
    Ref,       \* the component type that holds an entity reference
    FirstType, \* types of the entities that exist before, by id
    FirstRef,  \* and the references they hold
    FirstColumn, \* for each type, the order in which its chunk holds them
    Task,      \* for each thread, the existing entities its tasks run over
    Diff,      \* type_diffs the threads use
    Given,     \* entity types the threads allocate
    MaxCommands, \* bound: commands of each thread
    MaxAll,      \* bound: commands of all threads together
    MaxWrites,   \* bound: commands before which a thread may call write
    MaxEntities, \* bound: entities begun by one thread
    MaxNew       \* bound: transient handles given out

Count == Cardinality(DOMAIN FirstType)
Ids == 0 .. Count - 1

Old(id) == [id |-> id, transient |-> FALSE]
New(n) == [id |-> n, transient |-> TRUE]
Handles == {Old(id) : id \in Ids} \cup {New(n) : n \in 0 .. MaxNew - 1}
Null == Old(-1)    \* what the bytes of a new component are taken for

ASSUME BufferAssumption ==
    /\ Ref \in Type
    /\ IsFiniteSet(DOMAIN FirstType) /\ Ids = DOMAIN FirstType
    /\ FirstType \in [Ids -> SUBSET Type]
    /\ FirstRef \in [Ids -> {Old(id) : id \in Ids} \cup {Null}]
    /\ \A id \in Ids : Ref \notin FirstType[id] => FirstRef[id] = Null
    /\ FirstColumn \in [SUBSET Type -> Seq(Ids)]
    /\ \A types \in SUBSET Type :
          /\ Range(FirstColumn[types]) = {id \in Ids : FirstType[id] = types}
          /\ IsInjective(FirstColumn[types])
    /\ Task \in [Thread -> SUBSET Ids]
    /\ \A t, u \in Thread : t # u => Task[t] \cap Task[u] = {}
    /\ Diff \subseteq [extend : SUBSET Type, shrink : SUBSET Type]
    /\ Given \subseteq SUBSET Type
    /\ MaxCommands \in [Thread -> Nat]
    /\ MaxEntities \in Nat /\ MaxNew \in Nat
    /\ MaxWrites \in Nat /\ MaxAll \in Nat

VARIABLES
    local,     \* the locals, by slot
    allocates, \* transient handles given out
    commands,  \* commands recorded by each thread
    said,      \* history: what the calls on a handle ask for
    column,    \* the entities of each type, in the order of their chunk
    ref,       \* the value of Ref, by id
    exec       \* where execute is, and newEnts

bufferVars == <<local, allocates, commands, said, column, ref, exec>>
vars == <<storageVars, bufferVars>>

NoLocal == [entities |-> <<>>, allocates |-> <<>>, instantiates |-> <<>>,
            casts |-> <<>>, sets |-> <<>>, patches |-> <<>>, destroies |-> <<>>]

\* types and ref: what the entity should have in the end; undone: a cast gives
\* it back a type that an earlier one takes; fresh: its own commands begin
\* with an allocation; kept: it was fresh when types were taken from it.
Untouched == [types |-> {}, ref |-> Null, set |-> FALSE, patched |-> FALSE,
              taken |-> {}, undone |-> FALSE, kept |-> FALSE, destroyed |-> FALSE]

Init ==
    /\ StorageInit
    /\ local = [s \in Slot |-> NoLocal]
    /\ allocates = 0
    /\ commands = [t \in Thread |-> 0]
    /\ said = [h \in Handles |-> IF h.transient THEN Untouched
                                 ELSE [Untouched EXCEPT !.types = FirstType[h.id],
                                                        !.ref = FirstRef[h.id]]]
    /\ column = FirstColumn
    /\ ref = [id \in 0 .. Count + MaxNew - 1 |->
                 IF id \in Ids THEN FirstRef[id] ELSE Null]
    /\ exec = [phase |-> "record", i |-> 0, k |-> 1, news |-> <<>>]

-----------------------------------------------------------------------------
(* Recording.                                                              *)

Mine(t) == local[get[t].slot]
Current(t) == Len(Mine(t).entities)
Begun(t) == Mine(t).entities[Current(t)]

\* The thread makes a call on its local, and its own view of the handle.
Record(t, l, h, wish) ==
    /\ commands' = [commands EXCEPT ![t] = @ + 1]
    /\ local' = [local EXCEPT ![get[t].slot] = l]
    /\ said' = [said EXCEPT ![h] = wish]
    /\ UNCHANGED <<storageVars, column, ref, exec>>

\* begin.
Begin(t, h) ==
    /\ Current(t) < MaxEntities
    /\ Record(t, [Mine(t) EXCEPT !.entities = Append(@, h)], h, said[h])
    /\ UNCHANGED allocates

\* allocate; the number of the transient handle is global->allocates++.
Allocate(t, types) ==
    LET h == New(allocates)
    IN  /\ Current(t) < MaxEntities /\ allocates < MaxNew
        /\ Record(t, [Mine(t) EXCEPT
                         !.entities = Append(@, h),
                         !.allocates = Append(@, [e |-> Current(t) + 1, types |-> types,
                                                  where |-> "storage"])],
                  h, [Untouched EXCEPT !.types = types])
        /\ allocates' = allocates + 1

\* instantiate.
Instantiate(t, source) ==
    LET h == New(allocates)
    IN  /\ Current(t) < MaxEntities /\ allocates < MaxNew
        /\ Record(t, [Mine(t) EXCEPT
                         !.entities = Append(@, h),
                         !.instantiates = Append(@, [e |-> Current(t) + 1, source |-> source])],
                  h, [Untouched EXCEPT !.types = FirstType[source], !.ref = FirstRef[source]])
        /\ allocates' = allocates + 1

\* Writing to the static buffer: what was in it is lost, and so is what is
\* being merged if it was there itself, because it is read while written.
Overwritten(recorded) ==
    [i \in DOMAIN recorded |->
        IF recorded[i].where = "buffer" THEN [recorded[i] EXCEPT !.where = "lost"]
                                        ELSE recorded[i]]
InBuffer(l) == [l EXCEPT !.casts = Overwritten(@), !.allocates = Overwritten(@)]
WhereMerged(c) == IF c.where = "storage" THEN "buffer" ELSE "lost"

LastOf(recorded, e) == recorded # <<>> /\ recorded[Len(recorded)].e = e

\* type_diff::merge: the union of what is added and of what is taken.
CastMerged(l, d) ==
    [InBuffer(l) EXCEPT !.casts[Len(l.casts)] =
        [e |-> @.e, extend |-> @.extend \cup d.extend, shrink |-> @.shrink \cup d.shrink,
         where |-> WhereMerged(l.casts[Len(l.casts)])]]

\* The type to allocate is extended; what is substracted from it is thrown
\* away, for the result is merged from the type as it was.
AllocateMerged(l, d) ==
    [InBuffer(l) EXCEPT !.allocates[Len(l.allocates)] =
        [e |-> @.e, types |-> @.types \cup d.extend,
         where |-> WhereMerged(l.allocates[Len(l.allocates)])]]

Asked(t, d) ==
    LET h == Begun(t)
        fresh == ~ LastOf(Mine(t).casts, Current(t)) /\ LastOf(Mine(t).allocates, Current(t))
    IN  [said[h] EXCEPT
            !.types = (@ \cup d.extend) \ d.shrink,
            !.ref = IF Ref \in d.shrink /\ ~ said[h].set THEN Null ELSE @,
            !.taken = @ \cup d.shrink,
            !.undone = @ \/ (said[h].taken \cap d.extend # {}),
            !.kept = @ \/ (fresh /\ d.shrink # {})]

\* cast.
Cast(t, d) ==
    LET l == Mine(t)
        e == Current(t)
        new == [e |-> e, extend |-> d.extend, shrink |-> d.shrink, where |-> "storage"]
    IN  /\ e > 0
        /\ Record(t, IF LastOf(l.casts, e) THEN CastMerged(l, d)
                     ELSE IF LastOf(l.allocates, e) THEN AllocateMerged(l, d)
                     ELSE [l EXCEPT !.casts = Append(@, new)],
                  Begun(t), Asked(t, d))
        /\ UNCHANGED allocates

\* set_component, of Ref.
SetComponent(t, value) ==
    /\ Current(t) > 0
    /\ Record(t, [Mine(t) EXCEPT !.sets = Append(@, [e |-> Current(t), value |-> value])],
              Begun(t), [said[Begun(t)] EXCEPT !.ref = value, !.set = TRUE])
    /\ UNCHANGED allocates

\* patch_component, of Ref.
PatchComponent(t) ==
    /\ Current(t) > 0
    /\ Record(t, [Mine(t) EXCEPT !.patches = Append(@, Current(t))],
              Begun(t), [said[Begun(t)] EXCEPT !.patched = TRUE])
    /\ UNCHANGED allocates

\* destroy.
Destroy(t, h) ==
    /\ Record(t, [Mine(t) EXCEPT !.destroies = Append(@, h)],
              h, [said[h] EXCEPT !.destroyed = TRUE])
    /\ UNCHANGED allocates

\* Handles the thread has: the entities of its tasks, and those it created.
Known(t) == {Old(id) : id \in Task[t]} \cup
            {h \in Range(Mine(t).entities) : h.transient}

More == FoldFunction(LAMBDA m, n : m + n, 0, commands) < MaxAll

Recording(t) ==
    /\ exec.phase = "record"
    /\ \/ /\ GetBegin(t)
          /\ commands[t] < MaxWrites /\ More
          /\ UNCHANGED bufferVars
       \/ Get(t) /\ UNCHANGED bufferVars
       \/ LetGo(t) /\ UNCHANGED bufferVars
       \/ /\ get[t].pc = "in" /\ commands[t] < MaxCommands[t] /\ More
          /\ \/ \E h \in Known(t) : Begin(t, h) \/ Destroy(t, h)
             \/ \E types \in Given : Allocate(t, types)
             \/ \E source \in Task[t] : Instantiate(t, source)
             \/ \E d \in Diff : Cast(t, d)
             \/ \E h \in Known(t) : SetComponent(t, h)
             \/ PatchComponent(t)

-----------------------------------------------------------------------------
(* Executing.  Nobody records any more; no other thread touches the world. *)

Now == local[exec.i]

\* How many turns a phase takes in a local; in two phases it is one.
Work(phase, l) ==
    CASE phase = "allocate" -> Len(l.allocates)
      [] phase = "instantiate" -> Len(l.instantiates)
      [] phase = "cast" -> Len(l.casts)
      [] phase = "destroy" -> Len(l.destroies)
      [] OTHER -> 1
Turns == Work(exec.phase, Now)

\* The phases, each a loop over the locals; the loops that have nothing to do
\* are passed over.
Phases == <<"allocate", "instantiate", "resolve", "cast", "set", "destroy">>
Visits == {v \in (1 .. Len(Phases)) \X (0 .. slots - 1) : Work(Phases[v[1]], local[v[2]]) > 0}
Before(v, w) == v[1] < w[1] \/ (v[1] = w[1] /\ v[2] < w[2])

\* On to the first of these visits; execute returns when there is none.
Enter(visits) ==
    /\ exec' = IF visits = {} THEN [exec EXCEPT !.phase = "done", !.i = 0, !.k = 1]
               ELSE LET v == CHOOSE v \in visits : \A w \in visits \ {v} : Before(v, w)
                    IN  [exec EXCEPT !.phase = Phases[v[1]], !.i = v[2], !.k = 1]
    /\ UNCHANGED <<storageVars, local, allocates, commands, said, column, ref>>

\* execute is called when the tasks that record are done.
ExecuteBegin ==
    /\ exec.phase = "record"
    /\ \A t \in Thread : get[t].pc = "out"
    /\ Visits # {}
    /\ Enter(Visits)

NextLocal ==
    \E p \in DOMAIN Phases :
        /\ exec.phase = Phases[p]
        /\ exec.k > Turns
        /\ Enter({v \in Visits : Before(<<p, exec.i>>, v)})

Turn(phase) == exec.phase = phase /\ exec.k <= Turns
Unchanged == UNCHANGED <<storageVars, allocates, commands, said>>

\* The loop that gathers equal neighbours never moves its iterator: it goes
\* on for ever as soon as there are two.
Spin ==
    /\ \/ /\ Turn("allocate") /\ exec.k < Turns
          /\ LET a == Now.allocates[exec.k]
                 b == Now.allocates[exec.k + 1]
             IN  a.where = "lost" \/ b.where = "lost" \/ a.types = b.types
       \/ /\ Turn("instantiate") /\ exec.k < Turns
          /\ Now.instantiates[exec.k].source = Now.instantiates[exec.k + 1].source
    /\ exec' = [exec EXCEPT !.phase = "spinning"]
    /\ Unchanged /\ UNCHANGED <<local, column, ref>>

\* What is read through a recorded type.
TypesRead(a) == IF a.where = "lost" THEN SUBSET Type ELSE {a.types}
DiffsRead(c) == IF c.where = "lost" THEN [extend : SUBSET Type, shrink : SUBSET Type]
                ELSE {[extend |-> c.extend, shrink |-> c.shrink]}

\* The new entity goes to the end of the chunk of its types.
Create(e, types, value) ==
    LET id == Count + Cardinality(DOMAIN exec.news)
        h == Now.entities[e].id
    IN  /\ column' = [column EXCEPT ![types] = Append(@, id)]
        /\ ref' = [ref EXCEPT ![id] = value]
        /\ exec' = [exec EXCEPT !.k = @ + 1,
                               !.news = [n \in DOMAIN @ \cup {h} |-> IF n = h THEN id ELSE @[n]]]
        /\ Unchanged /\ UNCHANGED local

ExecuteAllocate ==
    /\ Turn("allocate")
    /\ LET a == Now.allocates[exec.k]
       IN  \E types \in TypesRead(a) :
               /\ exec.k < Turns =>
                      \E other \in TypesRead(Now.allocates[exec.k + 1]) : other # types
               /\ Create(a.e, types, Null)

TypesOf(id) == CHOOSE types \in SUBSET Type : Contains(column[types], id)
Living(id) == \E types \in SUBSET Type : Contains(column[types], id)
PlaceOf(id) == CHOOSE j \in DOMAIN column[TypesOf(id)] : column[TypesOf(id)][j] = id

\* instantiate_single: the components are copied as they are.
ExecuteInstantiate ==
    /\ Turn("instantiate")
    /\ exec.k < Turns => Now.instantiates[exec.k].source # Now.instantiates[exec.k + 1].source
    /\ LET c == Now.instantiates[exec.k]
       IN  Create(c.e, TypesOf(c.source), ref[c.source])

\* A transient handle becomes that of the entity created for it.
Resolved(h) == IF h.transient THEN Old(exec.news[h.id]) ELSE h

\* Mutant: the loop stays at the local.
ExecuteResolveStays ==
    /\ Turn("resolve")
    /\ local' = [local EXCEPT ![exec.i].entities = [j \in DOMAIN @ |-> Resolved(@[j])]]
    /\ Unchanged /\ UNCHANGED <<exec, column, ref>>

ExecuteResolve ==
    /\ Turn("resolve")
    /\ local' = [local EXCEPT ![exec.i].entities = [j \in DOMAIN @ |-> Resolved(@[j])]]
    /\ exec' = [exec EXCEPT !.k = @ + 1]
    /\ Unchanged /\ UNCHANGED <<column, ref>>

\* The entities in count places from the one of id on, and their column
\* without them: the hole is filled from the end.
SliceOf(id, count) == SubSeq(column[TypesOf(id)], PlaceOf(id), PlaceOf(id) + count - 1)
Without(id, count) ==
    LET old == column[TypesOf(id)]
        from == PlaceOf(id) - 1
        behind == Len(old) - from - count
        moved == IF count < behind THEN count ELSE behind
    IN  [j \in 1 .. Len(old) - count |->
            IF from < j /\ j <= from + moved THEN old[Len(old) - moved + (j - from)] ELSE old[j]]

\* canMerge: the next command's entity is in the next place.
Adjacent(id, next) ==
    Living(next) /\ TypesOf(next) = TypesOf(id) /\ PlaceOf(next) = PlaceOf(id) + 1

\* Mutant: whatever the next command asks for, its entity goes along.
CastCountAnyDiff(id, diff) ==
    IF exec.k < Turns /\ Adjacent(id, Now.entities[Now.casts[exec.k + 1].e].id) THEN 2 ELSE 1

\* The gathering loop again does not move, but its slice grows, so that it
\* takes at most one more.
CastCount(id, diff) ==
    IF /\ exec.k < Turns
       /\ diff \in DiffsRead(Now.casts[exec.k + 1])
       /\ Adjacent(id, Now.entities[Now.casts[exec.k + 1].e].id)
    THEN 2 ELSE 1

\* cast by get_casted: first extended, then shrunk.
ExecuteCast ==
    /\ Turn("cast")
    /\ LET id == Now.entities[Now.casts[exec.k].e].id
           old == TypesOf(id)
       IN  \E diff \in DiffsRead(Now.casts[exec.k]) :
               LET new == (old \cup diff.extend) \ diff.shrink
                   slice == SliceOf(id, CastCount(id, diff))
               IN  IF new = old THEN UNCHANGED <<column, ref>>
                   ELSE /\ column' = [column EXCEPT ![old] = Without(id, Len(slice)),
                                                    ![new] = @ \o slice]
                        /\ ref' = IF Ref \in new \cap old THEN ref
                                  ELSE [i \in DOMAIN ref |-> IF Contains(slice, i) THEN Null
                                                                                  ELSE ref[i]]
    /\ exec' = [exec EXCEPT !.k = @ + 1]
    /\ Unchanged /\ UNCHANGED local

\* The last value set for an entity, and the one it has before.
SetLast(l, id, before) ==
    LET mine == {j \in DOMAIN l.sets : l.entities[l.sets[j].e].id = id}
    IN  IF mine = {} \/ Ref \notin TypesOf(id) THEN before ELSE l.sets[Max(mine)].value

\* Mutant: the references are patched before the values are set.
SetAndPatchedEarly(l, id) ==
    LET patch == \E j \in DOMAIN l.patches : l.entities[l.patches[j]].id = id
    IN  SetLast(l, id, IF patch THEN Resolved(ref[id]) ELSE ref[id])

\* The sets of a local in their order, then its patches.
SetAndPatched(l, id) ==
    LET patch == /\ Ref \in TypesOf(id)
                 /\ \E j \in DOMAIN l.patches : l.entities[l.patches[j]].id = id
        value == SetLast(l, id, ref[id])
    IN  IF patch THEN Resolved(value) ELSE value

ExecuteSet ==
    /\ Turn("set")
    /\ ref' = [id \in DOMAIN ref |-> IF Living(id) THEN SetAndPatched(Now, id) ELSE ref[id]]
    /\ exec' = [exec EXCEPT !.k = @ + 1]
    /\ Unchanged /\ UNCHANGED <<local, column>>

\* destroy takes the id of the handle it was given, transient or not.  The
\* slice of an entity that is gone leads nowhere.
ExecuteDestroy ==
    /\ Turn("destroy")
    /\ LET id == Now.destroies[exec.k].id
           more == exec.k < Turns /\ Adjacent(id, Now.destroies[exec.k + 1].id)
       IN  IF Living(id)
           THEN /\ column' = [column EXCEPT ![TypesOf(id)] = Without(id, IF more THEN 2 ELSE 1)]
                /\ exec' = [exec EXCEPT !.k = @ + 1]
           ELSE exec' = [exec EXCEPT !.phase = "crashed"] /\ UNCHANGED column
    /\ Unchanged /\ UNCHANGED <<local, ref>>

Executing ==
    \/ NextLocal
    \/ Spin
    \/ ExecuteAllocate
    \/ ExecuteInstantiate
    \/ ExecuteResolve
    \/ ExecuteCast
    \/ ExecuteSet
    \/ ExecuteDestroy

Next ==
    \/ \E t \in Thread : Recording(t)
    \/ ExecuteBegin
    \/ Executing

\* execute runs on its caller's thread until it returns.
Spec == Init /\ [][Next]_vars /\ WF_vars(Executing)

-----------------------------------------------------------------------------
(* Properties.                                                             *)

Recorded(P(_)) == \E s \in 0 .. slots - 1 : P(local[s])

\* A merged type was overwritten before execute read it.
Lost == Recorded(LAMBDA l : \/ \E j \in DOMAIN l.casts : l.casts[j].where = "lost"
                            \/ \E j \in DOMAIN l.allocates : l.allocates[j].where = "lost")
\* A transient handle was given to destroy.
Mistaken == Recorded(LAMBDA l : \E j \in DOMAIN l.destroies : l.destroies[j].transient)

IdOf(h) == IF h.transient THEN exec.news[h.id] ELSE h.id
Done == exec.phase = "done" /\ ~ Lost /\ ~ Mistaken
Subjects == {h \in Handles : ~ h.transient \/ h.id < allocates}

\* Whatever was batched, moved and rearranged, in the end every entity is what
\* the calls on it ask for: it is gone if it was destroyed, and otherwise has
\* the types its casts leave it, in their order.  Two kinds of request come
\* out differently, by the code: types given back after they were taken stay
\* away, and types taken from an entity that is yet to be allocated stay.
CastsTakeEffect ==
    Done => \A h \in Subjects :
        IF said[h].destroyed THEN ~ Living(IdOf(h))
        ELSE /\ Living(IdOf(h))
             /\ said[h].undone \/ said[h].kept \/ TypesOf(IdOf(h)) = said[h].types

\* A component holds what was set last, and a reference that was patched leads
\* to the entity that was created for the handle, whichever thread asked for
\* it and however often either has been moved since.
ReferencesResolved ==
    Done => \A h \in Subjects :
        LET id == IdOf(h)
            value == said[h].ref
        IN  ~ said[h].destroyed /\ ~ said[h].undone /\ ~ said[h].kept /\ Ref \in said[h].types
              => ref[id] = IF said[h].patched THEN Old(IdOf(value)) ELSE value

\* execute returns, unless neighbours in a local ask for the same allocation or
\* the same instances, or it destroys neighbours or an entity twice.
ExecuteReturns ==
    exec.phase # "record" ~>
        \/ exec.phase = "done"
        \/ Lost
        \/ Recorded(LAMBDA l :
               \/ \E j \in 2 .. Len(l.allocates) :
                      l.allocates[j].types = l.allocates[j - 1].types
               \/ \E j \in 2 .. Len(l.instantiates) :
                      l.instantiates[j].source = l.instantiates[j - 1].source
               \/ Len(l.destroies) > 1)
=============================================================================
