------------------------------- MODULE Groups -------------------------------
(***************************************************************************)
(* Groups: an entity with a group component lists itself and its members,  *)
(* which may have groups of their own.  Instantiating such an entity       *)
(* copies all of them, serializing it saves all of them, and references    *)
(* among them become references among the copies.  For this the handles in *)
(* the members themselves are rewritten to transient ones, counting from   *)
(* 0, and back when the copies are made.                                   *)
(*                                                                         *)
(* Abstractions.                                                           *)
(*   - An entity has one component with a reference, and may have a group; *)
(*     data stands for its other components.  Metatypes, which are not     *)
(*     patched, are left out.                                              *)
(*   - Ids are not used again; allocation is EntityTable's subject.        *)
(*   - A group begins with its own entity, as the tests set it up, and no  *)
(*     group leads back to itself (flatten_group would not return).        *)
(*   - Nobody stores a transient handle in a component for himself.        *)
(*   - Destroying an entity that has a group is not modelled.              *)
(*   - deserialize is the world's.  A pipeline has its own, which reads    *)
(*     the members of the first group but not of the groups among them; it *)
(*     is not modelled, and RoundTrip is not true of it.                   *)
(***************************************************************************)
EXTENDS Integers, FiniteSets, Functions, SequencesExt

CONSTANTS
    Count,     \* entities there are at first; references and groups are set
               \* on these only
    MaxIds,    \* bound: ids given out, and members a group is serialized with
    MaxCopies, \* bound: copies made by one call
    MaxEdits,  \* bound: references and groups set, entities destroyed
    MaxCalls   \* bound: calls of instantiate, serialize and deserialize

ASSUME GroupsAssumption ==
    Count \in Nat /\ MaxIds \in Nat /\ Count <= MaxIds
    /\ MaxCopies \in Nat /\ MaxEdits \in Nat /\ MaxCalls \in Nat

Id == 0 .. MaxIds - 1
First == 0 .. Count - 1
Old(id) == [id |-> id, transient |-> FALSE]
New(n) == [id |-> n, transient |-> TRUE]
Null == Old(-1)
Handle == {Old(id) : id \in Id} \cup {New(n) : n \in Id} \cup {Null}

VARIABLES
    ent,     \* the living entities: data, reference, group (empty if none)
    next,    \* ids given out
    edits,   \* references and groups set, entities destroyed
    calls,   \* calls of instantiate, serialize and deserialize
    stream,  \* what serialize has written
    saved,   \* history: the entities it has written as they were, in order
    crashed

vars == <<ent, next, edits, calls, stream, saved, crashed>>

NoGroup == << >>

Init ==
    /\ ent = [e \in First |-> [data |-> e, ref |-> Null, group |-> NoGroup]]
    /\ next = Count /\ edits = 0 /\ calls = 0
    /\ stream = << >> /\ saved = << >> /\ crashed = FALSE

-----------------------------------------------------------------------------
(* Flattening and patching.                                                *)

Grouped(world, e) == e \in DOMAIN world /\ world[e].group # NoGroup
HasGroup(e) == Grouped(ent, e)

\* What a group leads to at once, but for its own entity, and at length.
Under(e) == IF HasGroup(e) THEN {h.id : h \in Range(Tail(ent[e].group))} ELSE {}
Beneath(S) ==
    LET at[n \in Nat] == IF n = 0 THEN S ELSE LET above == at[n - 1]
                                              IN  above \cup UNION {Under(e) : e \in above}
    IN  at[MaxIds]

\* The first handle of a group, and what each member after it comes to.
Joined(group, each) ==
    LET data[i \in 1 .. Len(group)] ==
            IF i = 1 THEN <<group[1].id>> ELSE data[i - 1] \o each[group[i].id]
    IN  data[Len(group)]

\* flatten_group: the entity itself, and for each member its own flattened
\* group if it has one, n deep.
Flattened(world, root) ==
    LET flat[n \in 0 .. MaxIds] ==
            [e \in Id \cup {Null.id} |->
                IF n = 0 \/ ~ Grouped(world, e) THEN <<e>>
                ELSE Joined(world[e].group, flat[n - 1])]
    IN  flat[MaxIds][root]
Flatten(root) == Flattened(ent, root)

\* chunk::patch of one entity, to what a patcher makes of each handle.
Patch(r, to) ==
    [r EXCEPT !.ref = to[@], !.group = [i \in DOMAIN @ |-> to[@[i]]]]

\* The loops patch an entity as often as it is among the members.  Patching it
\* more than twice is as patching it twice.
PatchAll(world, members, to) ==
    [e \in DOMAIN world |->
        LET times == Cardinality({i \in DOMAIN members : members[i] = e})
        IN  CASE times = 0 -> world[e]
              [] times = 1 -> Patch(world[e], to)
              [] OTHER -> Patch(Patch(world[e], to), to)]

\* The first place of an entity among the members.
Place(members, h) == SelectInSeq(members, LAMBDA e : h = Old(e))

\* Mutant: handles of other entities pass in any case.
GroupToPrefabKeeping(world, members, keepExternal) ==
    LET patch == [h \in Handle |->
            IF \E i \in DOMAIN members : h = Old(members[i])
            THEN New(Place(members, h) - 1)
            ELSE h]
    IN  PatchAll(world, members, patch)

\* group_to_prefab: a handle becomes the number of its first place.
GroupToPrefab(world, members, keepExternal) ==
    LET patch == [h \in Handle |->
            IF \E i \in DOMAIN members : h = Old(members[i])
            THEN New(Place(members, h) - 1)
            ELSE IF keepExternal THEN h ELSE Null]
    IN  PatchAll(world, members, patch)

\* A number becomes the handle of that place, in the patchers of
\* prefab_to_group and of instantiate_prefab.
Resolve(members) ==
    [h \in Handle |-> IF h.transient THEN Old(members[h.id + 1]) ELSE h]

\* Mutant: only the entity of the group itself is restored.
PrefabToGroupRoot(world, members) ==
    PatchAll(world, SubSeq(members, 1, 1), Resolve(members))

\* prefab_to_group.
PrefabToGroup(world, members) ==
    PatchAll(world, members, Resolve(members))

-----------------------------------------------------------------------------
(* The calls.                                                              *)

Crash == crashed' = TRUE /\ UNCHANGED <<ent, next, stream, saved>>

\* A handle is written to a component, or a group set up.
SetRef(e, h) ==
    /\ edits < MaxEdits
    /\ ent' = [ent EXCEPT ![e].ref = h]
    /\ edits' = edits + 1
    /\ UNCHANGED <<next, calls, stream, saved, crashed>>

SetGroup(e, members) ==
    /\ edits < MaxEdits
    /\ e \notin Beneath(Range(members))
    /\ edits' = edits + 1
    /\ ent' = [ent EXCEPT ![e].group =
                  [i \in 1 .. Len(members) + 1 |-> Old((<<e>> \o members)[i])]]
    /\ UNCHANGED <<next, calls, stream, saved, crashed>>

\* Mutant: the copies of the last instance are taken for those of all.
MadeLast(i, k, count) == next + (i - 1) * count + count - 1

\* The id of the k-th copy of the i-th member: all copies of a member are
\* allocated together.
Made(i, k, count) == next + (i - 1) * count + k - 1

\* instantiate_prefab: copies, whose handles are resolved instance by instance.
Copies(prefab, members, count) ==
    [id \in next .. next + Len(members) * count - 1 |->
        LET i == 1 + ((id - next) \div count)
            k == 1 + ((id - next) % count)
            instance == [j \in DOMAIN members |-> Made(j, k, count)]
        IN  Patch(prefab[members[i]], Resolve(instance))]

\* instantiate.  A member that is gone has no chunk to copy from.
Instantiate(e, count) ==
    LET members == Flatten(e)
    IN  IF ~ HasGroup(e)
        THEN /\ next' = next + count
             /\ ent' = [id \in DOMAIN ent \cup next .. next + count - 1 |->
                           IF id < next THEN ent[id] ELSE ent[e]]
             /\ UNCHANGED <<stream, saved, crashed>>
        ELSE IF ~ Range(members) \subseteq DOMAIN ent THEN Crash
        ELSE LET prefab == GroupToPrefab(ent, members, TRUE)
                 copies == Copies(prefab, members, count)
                 source == PrefabToGroup(prefab, members)
             IN  /\ next' = next + Len(members) * count
                 /\ ent' = [id \in DOMAIN ent \cup DOMAIN copies |->
                               IF id < next THEN source[id] ELSE copies[id]]
                 /\ UNCHANGED <<stream, saved, crashed>>

\* No entity is listed twice, and the group begins with its own entity (where
\* one is listed twice, the second of its copies has a group that does not).
Apart(e) ==
    IsInjective(Flatten(e)) /\ (HasGroup(e) => ent[e].group[1] = Old(e))

\* The entities and what they are now.
Now(members) == [i \in DOMAIN members |-> [id |-> members[i], was |-> ent[members[i]]]]

\* serialize: one record after the other.
Serialize(e) ==
    LET members == Flatten(e)
        prefab == GroupToPrefab(ent, members, FALSE)
    IN  IF ~ HasGroup(e)
        THEN /\ UNCHANGED <<ent, next, crashed>>
             /\ stream' = <<ent[e]>>
             /\ saved' = Now(<<e>>)
        ELSE IF ~ Range(members) \subseteq DOMAIN ent THEN Crash
        ELSE /\ UNCHANGED <<next, crashed>>
             /\ stream' = [i \in DOMAIN members |-> prefab[members[i]]]
             /\ ent' = PrefabToGroup(prefab, members)
             /\ saved' = IF Apart(e) THEN Now(members) ELSE << >>

\* The entities that are to be read for the i-th record, if it has a group.
Members(i) == IF stream[i].group = NoGroup THEN 0 ELSE Len(stream[i].group) - 1

\* How many records deserialize and deserialize_prefab read: until none is
\* awaited any more.
Read ==
    LET awaited[n \in 0 .. Len(stream)] ==
            IF n = 0 THEN 1 ELSE awaited[n - 1] - 1 + Members(n)
    IN  CHOOSE n \in DOMAIN stream : awaited[n] = 0 /\ \A m \in 1 .. n - 1 : awaited[m] > 0

\* world::deserialize, with no patcher of the caller's: the entities are allocated
\* one after the other, and if the first is a group, patched at the end.
Deserialize ==
    LET members == [i \in 1 .. Read |-> next + i - 1]
        world == [id \in DOMAIN ent \cup Range(members) |->
                     IF id < next THEN ent[id] ELSE stream[id - next + 1]]
    IN  /\ stream # << >>
        /\ next' = next + Read /\ next' <= MaxIds
        /\ ent' = IF stream[1].group = NoGroup THEN world ELSE PrefabToGroup(world, members)
        /\ UNCHANGED <<stream, saved, crashed>>

\* destroy, of an entity that has no group.
Destroy(e) ==
    /\ edits < MaxEdits /\ ~ HasGroup(e)
    /\ ent' = Restrict(ent, DOMAIN ent \ {e})
    /\ edits' = edits + 1
    /\ UNCHANGED <<next, calls, stream, saved, crashed>>

Edit ==
    \/ \E e, f \in First \cap DOMAIN ent : SetRef(e, Old(f))
    \/ \E e \in First \cap DOMAIN ent, n \in 1 .. Count - 1 :
           \E members \in Injection(1 .. n, First \cap DOMAIN ent) : SetGroup(e, members)
    \/ \E e \in First \cap DOMAIN ent : Destroy(e)

Copying ==
    /\ calls < MaxCalls /\ calls' = calls + 1 /\ UNCHANGED edits
    /\ \/ \E e \in DOMAIN ent, count \in 1 .. MaxCopies :
              next + count * Len(Flatten(e)) <= MaxIds /\ Instantiate(e, count)
       \/ \E e \in DOMAIN ent : Len(Flatten(e)) <= MaxIds /\ Serialize(e)
       \/ Deserialize

Next == ~ crashed /\ (Edit \/ Copying)

Spec == Init /\ [][Next]_vars

-----------------------------------------------------------------------------
(* Properties.  They leave out groups in which an entity is listed twice;  *)
(* the code asks "should user promise groups dont overlap?".                *)

Inside(h, S) == ~ h.transient /\ h.id \in S

\* Handles of what was copied along name the copies, and other handles are what
\* they were, or lost.
Renamed(ids, made, keepExternal) ==
    [h \in Handle |->
        IF \E i \in DOMAIN ids : h = Old(ids[i]) THEN Old(made[Place(ids, h)])
        ELSE IF keepExternal THEN h ELSE Null]

\* What lies beneath root now is the image of those entities as they were.
Image(those, root, keepExternal) ==
    LET ids == [i \in DOMAIN those |-> those[i].id]
        made == Flatten(root)'
    IN  Len(made) = Len(those)
        /\ \A i \in DOMAIN those :
               made[i] \notin DOMAIN ent
               /\ ent'[made[i]] = Patch(those[i].was, Renamed(ids, made, keepExternal))

\* An instance of a group is the image of the group: there is a copy of each
\* of its entities, and what refers to another, or lists it, refers to the
\* copy made with it, in no other instance and not in the source.
InstancesMirror ==
    [][\A e \in DOMAIN ent, count \in 1 .. MaxCopies :
          HasGroup(e) /\ Apart(e) /\ Instantiate(e, count) /\ ~ crashed' =>
              LET added == DOMAIN ent' \ DOMAIN ent
                  members == Flatten(e)
              IN  \E roots \in SUBSET added :
                      /\ Cardinality(roots) = count
                      /\ Cardinality(added) = count * Len(members)
                      /\ \A root \in roots : Image(Now(members), root, TRUE)
                      /\ added = UNION {Range(Flatten(root)') : root \in roots}]_vars

\* What a world reads back is the image of what was written, whatever has become
\* of the entities since, and no handle leads out of a group.
RoundTrip ==
    [][saved # << >> /\ Deserialize =>
          LET added == DOMAIN ent' \ DOMAIN ent
          IN  /\ Cardinality(added) = Len(saved)
              /\ \E root \in added : IF stream[1].group = NoGroup THEN ent'[root] = saved[1].was
                                     ELSE Image(saved, root, FALSE)]_vars

\* The handles written over in the members while copies are made are put back.
\* What serialize does not put back are handles that lead out of the group.
SourcesRestored ==
    [][\A e \in DOMAIN ent \cap DOMAIN ent' :
          \/ ent'[e] = ent[e]
          \/ edits' > edits
          \/ \E root \in DOMAIN ent :
                 /\ HasGroup(root) /\ Serialize(root)
                 /\ IsInjective(Flatten(root)) =>
                        /\ ~ Inside(ent[e].ref, Range(Flatten(root)))
                        /\ ent'[e] = [ent[e] EXCEPT !.ref = Null]]_vars
=============================================================================
