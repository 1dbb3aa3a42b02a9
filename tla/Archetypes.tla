----------------------------- MODULE Archetypes -----------------------------
(***************************************************************************)
(* Which archetype an entity is of, which archetypes the world has, and    *)
(* what its cached queries say of them.                                    *)
(*                                                                         *)
(* An entity has component types of its own and, through its metatypes,    *)
(* those of other entities.  A type may be tracked: when its entity is     *)
(* destroyed it stays, with a cleanup mark, until a cast takes it; and in  *)
(* an instance of the entity a marker stands for it until a cast gives the *)
(* instance the type itself.                                               *)
(*                                                                         *)
(* Abstractions.                                                           *)
(*   - An archetype is known by its key.  It is given back with its last   *)
(*     chunk, that is, here, with its last entity.                         *)
(*   - An Entity is a handle with its version: it is born at most once.    *)
(*   - A mask is the set of the types whose bits it has, not of their       *)
(*     positions among the 32 of the archetype.                            *)
(*   - A tracked type is no tag: in the sorted order of types its marker   *)
(*     comes before every tag.                                             *)
(*   - Callers pass types in the sorted order in which the code expects    *)
(*     them, metatypes that exist, and do not make an entity a metatype of *)
(*     itself, through others or not (get_shared_type would not return).   *)
(*   - Each call is about one entity that has no group.                    *)
(***************************************************************************)
EXTENDS Integers, FiniteSets, Bags, Functions

CONSTANTS
    Type,
    Cleanup,    \* cleanup_id
    Disable,    \* disable_id
    Cleaned,    \* the types with ManualCleaning
    MarkerOf,   \* the types with ManualCopying, and their markers (type + 1)
    Entity,
    Given,      \* entity types that are allocated
    Made,       \* entity types of which an archetype is asked for alone
    Diff,       \* type_diffs of the casts
    Filter,     \* filters of the queries
    MaxQueries  \* bound: queries cached at a time (none affects another)

Key == [types : SUBSET Type, metas : SUBSET Entity]
Copied == DOMAIN MarkerOf
Marker == {MarkerOf[t] : t \in Copied}

ASSUME ArchetypesAssumption ==
    /\ IsFiniteSet(Entity) /\ IsFiniteSet(Type)
    /\ {Cleanup, Disable} \subseteq Type /\ Cleaned \subseteq Type
    /\ {Cleanup, Disable} \cap (Cleaned \cup Copied) = {}
    /\ Copied \subseteq Type /\ MarkerOf \in [Copied -> Type]
    /\ \A t, u \in Copied : MarkerOf[t] = MarkerOf[u] => t = u
    /\ Marker \cap (Copied \cup Cleaned \cup {Cleanup, Disable}) = {}
    /\ Given \subseteq Key /\ Made \subseteq Key
    /\ Diff \subseteq [extend : Key, shrink : Key]
    /\ Filter \subseteq [all : Key, any : Key, none : Key,
                         shared : SUBSET Type, owned : SUBSET Type]
    /\ MaxQueries \in Nat

VARIABLES
    typeOf,     \* the key of every living entity
    archetypes, \* the keys in world::archetypes
    queries,    \* the filters cached, each with a bag of archetypes
    masks,      \* matched: for each query, the masks of its archetypes
    born,       \* history: the entities there have been
    stale,      \* for each query, the archetypes whose shared types have
                \* changed since; what it holds of them is not kept
    crashed

world == <<typeOf, archetypes, queries, masks>>
vars == <<world, born, stale, crashed>>

EmptyKey == [types |-> {}, metas |-> {}]

\* A map with one entry set.
With(f, x, y) == [z \in DOMAIN f \cup {x} |-> IF z = x THEN y ELSE f[z]]

Init ==
    /\ typeOf = << >> /\ archetypes = {} /\ queries = << >> /\ masks = << >>
    /\ born = {} /\ stale = << >> /\ crashed = FALSE

-----------------------------------------------------------------------------
(* Shared types and queries.                                               *)

\* The metatypes of a key, theirs, and so on: the least set that holds them all.
\* Those of an entity that is dead cannot be followed: get_archetype gives none
\* for it, and it is used.
Closed(types, found) == \A e \in found \cap DOMAIN types : types[e].metas \subseteq found
Inherited(types, key) ==
    {e \in Entity : \A found \in SUBSET Entity :
                        key.metas \subseteq found /\ Closed(types, found) => e \in found}
Resolvable(types, key) == Inherited(types, key) \subseteq DOMAIN types

\* get_shared_type.
Shared(types, key) ==
    UNION {types[e].types : e \in Inherited(types, key) \cap DOMAIN types}

\* archetype_filter::match.
Match(f, key, shared) ==
    LET components == key.types \cup shared
    IN  /\ f.all.types \subseteq components
        /\ f.any.types = {} \/ f.any.types \cap components # {}
        /\ key.types \cap (f.none.types \ f.shared) = {}
        /\ shared \cap (f.none.types \ f.owned) = {}
        /\ f.owned \subseteq key.types /\ f.shared \subseteq shared
        /\ f.all.metas \subseteq key.metas
        /\ f.any.metas = {} \/ f.any.metas \cap key.metas # {}
        /\ key.metas \cap f.none.metas = {}

\* The scan of all.types stops at a marker, and the two marks are tags, which
\* come last: next to a marker, the cleanup mark is not noticed.
IncludeCopy(f) == f.all.types \cap Marker # {}
IncludeClean(f) == ~ IncludeCopy(f) /\ Cleanup \in f.all.types
IncludeDisabled(f) == IncludeCopy(f) \/ f.all.types \cap {Cleanup, Disable} # {}

Included(f, key) ==
    /\ Cleanup \in key.types => IncludeClean(f)
    /\ Disable \in key.types => IncludeDisabled(f)
ValidGroup(f, types, key) == Included(f, key) /\ Match(f, key, Shared(types, key))

\* get_mask of the types that a filter checks.
MaskOf(f, key) == key.types \cap (f.all.types \cup f.any.types)

\* update_queries, when an archetype comes and when it goes.
QueriesWith(cached, types, key) ==
    [f \in DOMAIN cached |-> IF ValidGroup(f, types, key) THEN cached[f] (+) SetToBag({key})
                                                          ELSE cached[f]]
QueriesWithout(cached, types, key) ==
    [f \in DOMAIN cached |-> IF ValidGroup(f, types, key) THEN cached[f] (-) SetToBag({key})
                                                          ELSE cached[f]]

\* An archetype that update_queries adds to a query gets no mask.
MasksAfter(cached) ==
    [f \in DOMAIN cached |-> [key \in DOMAIN cached[f] |->
        IF key \in DOMAIN queries[f] THEN masks[f][key] ELSE {}]]

\* The first query for a filter looks at every archetype, and keeps the answer.
Query(f) ==
    /\ f \notin DOMAIN queries /\ Cardinality(DOMAIN queries) < MaxQueries
    /\ IF \A key \in archetypes : Included(f, key) => Resolvable(typeOf, key)
       THEN queries' = With(queries, f,
                               SetToBag({key \in archetypes : ValidGroup(f, typeOf, key)}))
            /\ masks' = With(masks, f, [key \in DOMAIN queries'[f] |-> MaskOf(f, key)])
            /\ stale' = With(stale, f, {})
            /\ UNCHANGED crashed
       ELSE crashed' = TRUE /\ UNCHANGED <<queries, masks, stale>>
    /\ UNCHANGED <<typeOf, archetypes, born>>

-----------------------------------------------------------------------------
(* The archetype of an entity that is destroyed, copied or cast.           *)

NoKey == [none |-> TRUE]

\* Mutant: the mark is not counted, and a single type taken for none.
GetCleaningOfTwo(key) ==
    IF Cleanup \in key.types THEN key
    ELSE IF Cardinality(key.types \cap Cleaned) <= 1 THEN NoKey
    ELSE [key EXCEPT !.types = {Cleanup} \cup (@ \cap Cleaned)]

\* get_cleaning: the mark and what is to be cleaned, if anything is.
WithTracked(key) == key.types \cap (Cleaned \cup Copied) # {}
GetCleaning(key) ==
    IF Cleanup \in key.types THEN key
    ELSE IF ~ WithTracked(key) \/ key.types \cap Cleaned = {} THEN NoKey
    ELSE [key EXCEPT !.types = {Cleanup} \cup (@ \cap Cleaned)]

\* Phase 0 of get_casted: markers take the place of the types in an instance.
Instanced(types) == {IF t \in Copied THEN MarkerOf[t] ELSE t : t \in types}

\* Mutant: the marker stays when its type is added.
CompletedNever(key, types) == types

\* Phase 2: adding a type ends what its marker stands for.
Completed(key, types) ==
    IF key.types \cap Marker = {} THEN types
    ELSE types \ {MarkerOf[t] : t \in types \cap Copied}

\* Phase 3: taking a type ends it as well.
Interrupted(key, shrink) ==
    IF key.types \cap Marker = {} THEN shrink
    ELSE shrink \cup {MarkerOf[t] : t \in shrink \cap Copied}

\* get_casted, of an entity that is not being copied.  Phase 5: a dead entity
\* with a single type left is given back, whichever type that is.
GetCasted(key, d) ==
    LET extended == key.types \cup d.extend.types
        whole == IF d.extend = EmptyKey THEN extended ELSE Completed(key, extended)
        rest == whole \ Interrupted(key, d.shrink.types)
    IN  IF Cleanup \in key.types /\ Cardinality(rest) = 1 THEN NoKey
        ELSE [types |-> rest, metas |-> (key.metas \cup d.extend.metas) \ d.shrink.metas]

-----------------------------------------------------------------------------
(* The calls.                                                              *)

\* Mutant: the archetype is put into the map and into no query.
WithArchetypeUnseen(w, key) == [w EXCEPT !.archetypes = @ \cup {key}]

\* get_archetype, with add_archetype if it is a new one.
WithArchetype(w, key) ==
    IF key \in w.archetypes THEN w
    ELSE [w EXCEPT !.archetypes = @ \cup {key},
                   !.queries = QueriesWith(@, w.typeOf, key)]

\* remove_chunk of the archetype's last chunk.
Left(w, key) ==
    IF \E e \in DOMAIN w.typeOf : w.typeOf[e] = key THEN w
    ELSE [w EXCEPT !.archetypes = @ \ {key},
                   !.queries = QueriesWithout(@, w.typeOf, key)]

World == [typeOf |-> typeOf, archetypes |-> archetypes, queries |-> queries]

\* The archetypes that this step makes, and those that it frees, have their
\* shared types worked out.
CanResolve(w) ==
    /\ \A key \in w.archetypes \ archetypes : Resolvable(typeOf, key)
    /\ \A key \in archetypes \ w.archetypes : Resolvable(w.typeOf, key)

Becomes(w) ==
    IF CanResolve(w)
    THEN /\ typeOf' = w.typeOf /\ archetypes' = w.archetypes
         /\ stale' = [f \in DOMAIN w.queries |-> stale[f] \cup
                {key \in w.archetypes : Shared(typeOf, key) # Shared(w.typeOf, key)}]
         /\ queries' = [f \in DOMAIN w.queries |->
                           Restrict(w.queries[f], DOMAIN w.queries[f] \ stale'[f])]
         /\ masks' = MasksAfter(queries')
         /\ UNCHANGED crashed
    ELSE crashed' = TRUE /\ UNCHANGED <<world, stale>>

Crash == crashed' = TRUE /\ UNCHANGED <<world, stale>>

\* get_archetype, called for the archetype alone.
GetArchetype(key) ==
    /\ key \notin archetypes /\ key.metas \subseteq DOMAIN typeOf
    /\ Becomes(WithArchetype(World, key))
    /\ UNCHANGED born

\* The entity is of key from now on, in a chunk of its archetype.
Placed(w, e, key) ==
    LET found == WithArchetype(w, key)
    IN  [found EXCEPT !.typeOf = With(@, e, key)]

\* A metatype exists when it is given, and does not lead back to the entity.
Fits(e, key) == e \notin Inherited(typeOf, key)

\* allocate.
Allocate(e, key) ==
    /\ e \notin born /\ key.metas \subseteq DOMAIN typeOf
    /\ born' = born \cup {e}
    /\ Becomes(Placed(World, e, key))

\* instantiate_single; get_casted has no archetype for an instance of a dead
\* entity, and allocate_slice uses it.
Instantiate(e, source) ==
    /\ e \notin born /\ source \in DOMAIN typeOf
    /\ born' = born \cup {e}
    /\ IF Cleanup \in typeOf[source].types THEN Crash
       ELSE Becomes(Placed(World, e, [typeOf[source] EXCEPT !.types = Instanced(@)]))

Freed(w, e) == [w EXCEPT !.typeOf = [other \in DOMAIN @ \ {e} |-> @[other]]]

\* cast, to the archetype of key or to none.
CastTo(e, key) ==
    LET old == typeOf[e]
    IN  /\ UNCHANGED born
        /\ IF key = old THEN UNCHANGED <<world, stale, crashed>>
           ELSE Becomes(Left(IF key = NoKey THEN Freed(World, e) ELSE Placed(World, e, key), old))

\* cast by a type_diff.
Cast(e, d) ==
    /\ e \in DOMAIN typeOf /\ d.extend.metas \subseteq DOMAIN typeOf
    /\ Fits(e, d.extend)
    /\ CastTo(e, GetCasted(typeOf[e], d))

\* destroy_single; the dead are left alone.
Destroy(e) ==
    /\ e \in DOMAIN typeOf
    /\ CastTo(e, GetCleaning(typeOf[e]))

\* clear.
Clear ==
    /\ typeOf' = << >> /\ archetypes' = {} /\ queries' = << >> /\ masks' = << >>
    /\ stale' = << >>
    /\ UNCHANGED <<born, crashed>>

Next ==
    /\ ~ crashed
    /\ \/ \E f \in Filter : Query(f)
       \/ \E key \in Made : GetArchetype(key)
       \/ \E e \in Entity, key \in Given : Allocate(e, key)
       \/ \E e, source \in Entity : Instantiate(e, source)
       \/ \E e \in Entity, d \in Diff : Cast(e, d)
       \/ \E e \in Entity : Destroy(e)
       \/ Clear

Spec == Init /\ [][Next]_vars

-----------------------------------------------------------------------------
(* Properties.                                                             *)

\* A cached query holds the archetypes that one would hold that is asked now: it
\* has every archetype of the world that it is to have, once, and none that has
\* been freed, however archetypes came and went since it was asked.  It does not
\* follow changes of the entities that are metatypes.  Of the masks in its
\* answer this says nothing (MasksExact).
CacheExact ==
    \A f \in DOMAIN queries :
        \A key \in archetypes \cup DOMAIN queries[f] :
            key \notin stale[f] =>
                /\ BagIn(key, queries[f]) <=> key \in archetypes /\ ValidGroup(f, typeOf, key)
                /\ BagIn(key, queries[f]) => queries[f][key] = 1

\* The masks of a cached query are those of one that is asked now: who compares
\* them with the masks of the entities skips those that have a type of the
\* query disabled, whenever their archetype came.  It does not hold of those that
\* update_queries has added.
MasksExact ==
    \A f \in DOMAIN queries :
        \A key \in DOMAIN queries[f] : masks[f][key] = MaskOf(f, key)

\* No entity is stuck between two states of its life: it has no type together
\* with its marker, so an instance is either complete or still to be completed,
\* whatever was added to it and taken from it in between; and once nothing is
\* left to clean up, the last cast has freed it.
LifecycleSound ==
    \A e \in DOMAIN typeOf :
        /\ \A t \in Copied : ~ {t, MarkerOf[t]} \subseteq typeOf[e].types
        /\ typeOf[e].types # {Cleanup}

\* What is to be cleaned up by hand stays, through its entity's destruction
\* and everything else, until a cast takes it, or takes the cleanup mark.
CleanedStays ==
    [][\A e \in DOMAIN typeOf, t \in Cleaned :
          t \in typeOf[e].types =>
              \/ e \in DOMAIN typeOf' /\ t \in typeOf'[e].types
              \/ Clear
              \/ \E d \in Diff : d.shrink.types \cap {t, Cleanup} # {} /\ Cast(e, d)]_vars
=============================================================================
