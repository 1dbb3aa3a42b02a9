------------------------- MODULE Archetypes_proofs -------------------------
(***************************************************************************)
(* Proofs about Archetypes, for every set of types and of entities: how    *)
(* the tracked types of an entity end.                                     *)
(***************************************************************************)
EXTENDS FiniteSetTheorems, Archetypes, TLAPS

\* An entity of this key is in one state of its life.
KeySound(key) ==
    /\ key \in Key
    /\ \A t \in Copied : ~ {t, MarkerOf[t]} \subseteq key.types
    /\ key.types # {Cleanup}

\* What callers ask for: no entity is born in two states of its life, and only
\* the world itself gives markers and the cleanup mark.
CallersSound ==
    /\ \A key \in Given : KeySound(key)
    /\ \A d \in Diff : d.extend.types \cap (Marker \cup {Cleanup}) = {}

LifeInv ==
    /\ DOMAIN typeOf \subseteq born
    /\ \A e \in DOMAIN typeOf : KeySound(typeOf[e])

-----------------------------------------------------------------------------
(* The archetype of an entity that is destroyed, copied or cast.           *)

\* A marker is not a tracked type itself, and stands for one type only.
LEMMA Markers ==
    /\ \A t \in Copied : /\ MarkerOf[t] \in Marker /\ MarkerOf[t] \in Type
                         /\ MarkerOf[t] \notin Copied /\ MarkerOf[t] \notin Cleaned
                         /\ MarkerOf[t] # Cleanup /\ t \in Type
    /\ \A m \in Marker : \E t \in Copied : m = MarkerOf[t]
    /\ Cleanup \in Type /\ Cleanup \notin Cleaned /\ Cleanup \notin Copied
    /\ Cleanup \notin Marker /\ Cleaned \subseteq Type /\ Cleaned \cap Marker = {}
BY ArchetypesAssumption DEF Marker

\* An instance has the markers of the tracked types, and none of the types.
LEMMA InstancedSound ==
    ASSUME NEW key, KeySound(key), Cleanup \notin key.types
    PROVE  KeySound([key EXCEPT !.types = Instanced(@)])
<1> DEFINE types == Instanced(key.types)
           k == [key EXCEPT !.types = Instanced(@)]
<1>1. key \in Key /\ key.types \in SUBSET Type
    BY DEF KeySound, Key
<1>2. \A u \in types : \/ u \in key.types /\ u \notin Copied
                       \/ \E t \in Copied : u = MarkerOf[t]
    BY DEF Instanced
<1>3. types \in SUBSET Type
    BY <1>1, <1>2, Markers
<1> HIDE DEF types
<1>4. k \in Key /\ k.types = types
    BY <1>1, <1>3 DEF Key, types
<1>5. \A t \in Copied : t \notin types
    BY <1>2, Markers
<1>6. Cleanup \notin types
    BY <1>2, Markers
<1> QED BY <1>4, <1>5, <1>6 DEF KeySound

\* What is left of a destroyed entity.
LEMMA CleaningSound ==
    ASSUME NEW key, KeySound(key), GetCleaning(key) # NoKey
    PROVE  KeySound(GetCleaning(key))
<1>1. CASE Cleanup \in key.types
    BY <1>1 DEF GetCleaning
<1>2. CASE Cleanup \notin key.types
  <2> DEFINE types == {Cleanup} \cup (key.types \cap Cleaned)
             k == [key EXCEPT !.types = {Cleanup} \cup (@ \cap Cleaned)]
  <2>1. key.types \cap Cleaned # {} /\ GetCleaning(key) = k
    BY <1>2 DEF GetCleaning
  <2>2. key \in Key /\ key.types \in SUBSET Type
    BY DEF KeySound, Key
  <2>3. types \in SUBSET Type
    BY <2>2, Markers
  <2>4. k \in Key /\ k.types = types
    BY <2>2, <2>3 DEF Key
  <2>5. types # {Cleanup}
    BY <1>2, <2>1
  <2>6. \A t \in Copied : MarkerOf[t] \notin types
    BY Markers
  <2> HIDE DEF types, k
  <2> QED BY <2>1, <2>4, <2>5, <2>6 DEF KeySound
<1> QED BY <1>1, <1>2

\* The types a cast leaves.
Rest(key, d) ==
    (IF d.extend = EmptyKey THEN key.types \cup d.extend.types
     ELSE Completed(key, key.types \cup d.extend.types)) \ Interrupted(key, d.shrink.types)

LEMMA CastedIs ==
    ASSUME NEW key, NEW d
    PROVE  GetCasted(key, d) =
               IF Cleanup \in key.types /\ Cardinality(Rest(key, d)) = 1 THEN NoKey
               ELSE [types |-> Rest(key, d),
                     metas |-> (key.metas \cup d.extend.metas) \ d.shrink.metas]
BY DEF GetCasted, Rest

LEMMA CastedSound ==
    ASSUME CallersSound, NEW key, KeySound(key), NEW d \in Diff,
           GetCasted(key, d) # NoKey
    PROVE  KeySound(GetCasted(key, d))
<1> DEFINE rest == Rest(key, d)
           all == key.types \cup d.extend.types
<1>1. /\ key.types \in SUBSET Type /\ key.metas \in SUBSET Entity
      /\ d.extend.types \in SUBSET Type /\ d.extend.metas \in SUBSET Entity
    BY ArchetypesAssumption DEF KeySound, Key
<1>2. d.extend.types \cap (Marker \cup {Cleanup}) = {}
    BY DEF CallersSound
<1>3. rest \subseteq all
    BY DEF Rest, Completed
<1>4. GetCasted(key, d) = [types |-> rest,
                           metas |-> (key.metas \cup d.extend.metas) \ d.shrink.metas]
    BY CastedIs
<1>5. ~ (Cleanup \in key.types /\ Cardinality(rest) = 1)
    BY CastedIs
<1>6. ASSUME NEW t \in Copied, t \in rest, MarkerOf[t] \in rest PROVE FALSE
  <2>1. MarkerOf[t] \in key.types
    BY <1>2, <1>3, <1>6, Markers
  <2>2. key.types \cap Marker # {}
    BY <2>1, Markers
  <2>3. CASE d.extend = EmptyKey
    <3>1. t \in key.types
      BY <2>3, <1>3, <1>6 DEF EmptyKey
    <3> QED BY <3>1, <2>1 DEF KeySound
  <2>4. CASE d.extend # EmptyKey
    <3>1. rest \subseteq all \ {MarkerOf[u] : u \in all \cap Copied}
      BY <2>2, <2>4 DEF Rest, Completed
    <3>2. t \in all \cap Copied
      BY <1>3, <1>6
    <3> HIDE DEF rest, all
    <3> QED BY <3>1, <3>2, <1>6
  <2> QED BY <2>3, <2>4
<1>7. rest # {Cleanup}
  <2> SUFFICES ASSUME rest = {Cleanup} PROVE FALSE
    OBVIOUS
  <2>1. Cleanup \in key.types
    BY <1>2, <1>3
  <2>2. Cardinality({Cleanup}) = 1
    BY FS_Singleton
  <2>3. Cardinality(rest) = 1
    <3> HIDE DEF rest
    <3> QED BY <2>2
  <2> QED BY <2>1, <2>3, <1>5
<1>8. GetCasted(key, d) \in Key
  <2>1. rest \in SUBSET Type /\ (key.metas \cup d.extend.metas) \ d.shrink.metas \in SUBSET Entity
    BY <1>1, <1>3
  <2> QED BY <2>1, <1>4 DEF Key
<1>9. GetCasted(key, d).types = rest
    BY <1>4
<1> HIDE DEF rest
<1> QED BY <1>6, <1>7, <1>8, <1>9 DEF KeySound

-----------------------------------------------------------------------------
(* The world that a step makes.                                            *)

IsWorld(w) == DOMAIN w = {"typeOf", "archetypes", "queries"}

LEMMA WorldIs ==
    /\ IsWorld(World)
    /\ World.typeOf = typeOf /\ World.archetypes = archetypes /\ World.queries = queries
BY DEF World, IsWorld

LEMMA WithArchetypeIs ==
    ASSUME NEW w, IsWorld(w), NEW key, NEW found, found = WithArchetype(w, key)
    PROVE  /\ IsWorld(found)
           /\ found.typeOf = w.typeOf
           /\ found.archetypes = w.archetypes \cup {key}
           /\ found.queries = IF key \in w.archetypes THEN w.queries
                              ELSE QueriesWith(w.queries, w.typeOf, key)
<1>1. CASE key \in w.archetypes
  <2>1. w.archetypes \cup {key} = w.archetypes
    BY <1>1
  <2> QED BY <1>1, <2>1 DEF WithArchetype
<1>2. CASE key \notin w.archetypes
    BY <1>2 DEF WithArchetype, IsWorld
<1> QED BY <1>1, <1>2

LEMMA PlacedIs ==
    ASSUME NEW w, IsWorld(w), NEW e, NEW key, NEW after, after = Placed(w, e, key)
    PROVE  /\ IsWorld(after)
           /\ after.typeOf = With(w.typeOf, e, key)
           /\ after.archetypes = w.archetypes \cup {key}
           /\ after.queries = IF key \in w.archetypes THEN w.queries
                              ELSE QueriesWith(w.queries, w.typeOf, key)
<1> DEFINE found == WithArchetype(w, key)
<1>1. /\ IsWorld(found)
      /\ found.typeOf = w.typeOf
      /\ found.archetypes = w.archetypes \cup {key}
      /\ found.queries = IF key \in w.archetypes THEN w.queries
                         ELSE QueriesWith(w.queries, w.typeOf, key)
    BY WithArchetypeIs
<1>2. after = [found EXCEPT !.typeOf = With(@, e, key)]
    BY DEF Placed
<1> HIDE DEF found
<1>3. /\ IsWorld(after) /\ after.typeOf = With(found.typeOf, e, key)
      /\ after.archetypes = found.archetypes /\ after.queries = found.queries
    BY <1>1, <1>2 DEF IsWorld
<1> QED BY <1>1, <1>3

LEMMA FreedIs ==
    ASSUME NEW w, IsWorld(w), NEW e, NEW after, after = Freed(w, e)
    PROVE  /\ IsWorld(after)
           /\ after.typeOf = [other \in DOMAIN w.typeOf \ {e} |-> w.typeOf[other]]
           /\ after.archetypes = w.archetypes /\ after.queries = w.queries
BY DEF Freed, IsWorld

LEMMA LeftIs ==
    ASSUME NEW w, IsWorld(w), NEW key, NEW after, after = Left(w, key)
    PROVE  /\ IsWorld(after) /\ after.typeOf = w.typeOf
           /\ \/ /\ \E e \in DOMAIN w.typeOf : w.typeOf[e] = key
                 /\ after = w
              \/ /\ ~ \E e \in DOMAIN w.typeOf : w.typeOf[e] = key
                 /\ after.archetypes = w.archetypes \ {key}
                 /\ after.queries = QueriesWithout(w.queries, w.typeOf, key)
<1>1. CASE \E e \in DOMAIN w.typeOf : w.typeOf[e] = key
    BY <1>1 DEF Left
<1>2. CASE ~ \E e \in DOMAIN w.typeOf : w.typeOf[e] = key
    BY <1>2 DEF Left, IsWorld
<1> QED BY <1>1, <1>2

\* Every step that changes the entities either places one of them, frees one,
\* or clears the world.
Places(e, key) ==
    /\ DOMAIN typeOf' = DOMAIN typeOf \cup {e}
    /\ typeOf'[e] = key
    /\ \A other \in DOMAIN typeOf : other # e => typeOf'[other] = typeOf[other]
Frees(e) ==
    /\ DOMAIN typeOf' = DOMAIN typeOf \ {e}
    /\ \A other \in DOMAIN typeOf : other # e => typeOf'[other] = typeOf[other]

LEMMA PlacedTypes ==
    ASSUME NEW e, NEW key, typeOf' = With(typeOf, e, key)
    PROVE  Places(e, key)
BY DEF With, Places

LEMMA FreedTypes ==
    ASSUME NEW e, typeOf' = [other \in DOMAIN typeOf \ {e} |-> typeOf[other]]
    PROVE  Frees(e)
BY DEF Frees

LEMMA BecomesPlaced ==
    ASSUME NEW e, NEW key, Becomes(Placed(World, e, key))
    PROVE  typeOf' = typeOf \/ Places(e, key)
<1> DEFINE after == Placed(World, e, key)
<1>1. after.typeOf = With(typeOf, e, key)
    BY WorldIs, PlacedIs
<1> HIDE DEF after
<1>2. typeOf' = typeOf \/ typeOf' = after.typeOf
    BY DEF Becomes, world, after
<1> QED BY <1>1, <1>2, PlacedTypes

\* What CastTo makes of the world, before the old archetype is looked at.
CastMiddle(e, key) == IF key = NoKey THEN Freed(World, e) ELSE Placed(World, e, key)

LEMMA CastMiddleIs ==
    ASSUME NEW e, NEW key
    PROVE  /\ IsWorld(CastMiddle(e, key))
           /\ CastMiddle(e, key).typeOf =
                  IF key = NoKey THEN [other \in DOMAIN typeOf \ {e} |-> typeOf[other]]
                  ELSE With(typeOf, e, key)
           /\ CastMiddle(e, key).archetypes =
                  IF key = NoKey THEN archetypes ELSE archetypes \cup {key}
           /\ CastMiddle(e, key).queries =
                  IF key = NoKey \/ key \in archetypes THEN queries
                  ELSE QueriesWith(queries, typeOf, key)
<1>1. CASE key = NoKey
    BY <1>1, WorldIs, FreedIs DEF CastMiddle
<1>2. CASE key # NoKey
    BY <1>2, WorldIs, PlacedIs DEF CastMiddle
<1> QED BY <1>1, <1>2

LEMMA CastToTypes ==
    ASSUME NEW e, NEW key, CastTo(e, key)
    PROVE  \/ typeOf' = typeOf
           \/ key = NoKey /\ Frees(e)
           \/ key # NoKey /\ Places(e, key)
<1> SUFFICES ASSUME typeOf' # typeOf
             PROVE  \/ key = NoKey /\ Frees(e)
                    \/ key # NoKey /\ Places(e, key)
    OBVIOUS
<1> DEFINE middle == CastMiddle(e, key)
           after == Left(middle, typeOf[e])
<1>1. Becomes(after)
  <2>1. key = typeOf[e] \/ Becomes(after)
    BY DEF CastTo, CastMiddle
  <2>2. key # typeOf[e]
    BY DEF CastTo, world
  <2> QED BY <2>1, <2>2
<1>2. after.typeOf = middle.typeOf
  <2> HIDE DEF middle
  <2>1. IsWorld(middle)
    BY CastMiddleIs DEF middle
  <2> QED BY <2>1, LeftIs
<1> HIDE DEF after, middle
<1>3. typeOf' = middle.typeOf
    BY <1>1, <1>2 DEF Becomes, world
<1>4. CASE key = NoKey
    BY <1>3, <1>4, CastMiddleIs, FreedTypes DEF middle
<1>5. CASE key # NoKey
  <2>1. typeOf' = With(typeOf, e, key)
    BY <1>3, <1>5, CastMiddleIs DEF middle
  <2>2. Places(e, key)
    BY <2>1, PlacedTypes
  <2> QED BY <1>5, <2>2
<1> QED BY <1>4, <1>5

\* How the entities change in a step, at all.
StepOfTypes ==
    \/ typeOf' = typeOf
    \/ Clear
    \/ \E e \in Entity, key \in Given : Allocate(e, key) /\ Places(e, key)
    \/ \E e, source \in Entity :
          /\ Instantiate(e, source) /\ Cleanup \notin typeOf[source].types
          /\ Places(e, [typeOf[source] EXCEPT !.types = Instanced(@)])
    \/ \E e \in Entity, d \in Diff :
          /\ Cast(e, d)
          /\ \/ GetCasted(typeOf[e], d) = NoKey /\ Frees(e)
             \/ /\ GetCasted(typeOf[e], d) # NoKey
                /\ Places(e, GetCasted(typeOf[e], d))
    \/ \E e \in Entity :
          /\ Destroy(e)
          /\ \/ GetCleaning(typeOf[e]) = NoKey /\ Frees(e)
             \/ /\ GetCleaning(typeOf[e]) # NoKey
                /\ Places(e, GetCleaning(typeOf[e]))

LEMMA TypesStep ==
    ASSUME [Next]_vars
    PROVE  StepOfTypes
<1>1. ASSUME NEW f \in Filter, Query(f) PROVE StepOfTypes
    BY <1>1 DEF Query, StepOfTypes
<1>2. ASSUME NEW key \in Made, GetArchetype(key) PROVE StepOfTypes
  <2> DEFINE after == WithArchetype(World, key)
  <2>1. after.typeOf = typeOf
    BY WorldIs, WithArchetypeIs
  <2> HIDE DEF after
  <2>2. typeOf' = typeOf
    BY <1>2, <2>1 DEF GetArchetype, Becomes, world, after
  <2> QED BY <2>2 DEF StepOfTypes
<1>3. ASSUME NEW e \in Entity, NEW key \in Given, Allocate(e, key) PROVE StepOfTypes
  <2>1. typeOf' = typeOf \/ Places(e, key)
    BY <1>3, BecomesPlaced DEF Allocate
  <2> QED BY <1>3, <2>1 DEF StepOfTypes
<1>4. ASSUME NEW e \in Entity, NEW source \in Entity, Instantiate(e, source) PROVE StepOfTypes
  <2> DEFINE key == [typeOf[source] EXCEPT !.types = Instanced(@)]
  <2>1. CASE Cleanup \in typeOf[source].types
    BY <1>4, <2>1 DEF Instantiate, Crash, world, StepOfTypes
  <2>2. CASE Cleanup \notin typeOf[source].types
    <3>1. Becomes(Placed(World, e, key))
      BY <1>4, <2>2 DEF Instantiate
    <3> HIDE DEF key
    <3>2. typeOf' = typeOf \/ Places(e, key)
      BY <3>1, BecomesPlaced
    <3> QED BY <1>4, <2>2, <3>2 DEF StepOfTypes, key
  <2> QED BY <2>1, <2>2
<1>5. ASSUME NEW e \in Entity, NEW d \in Diff, Cast(e, d) PROVE StepOfTypes
  <2>1. CastTo(e, GetCasted(typeOf[e], d))
    BY <1>5 DEF Cast
  <2> QED BY <1>5, <2>1, CastToTypes DEF StepOfTypes
<1>6. ASSUME NEW e \in Entity, Destroy(e) PROVE StepOfTypes
  <2>1. CastTo(e, GetCleaning(typeOf[e]))
    BY <1>6 DEF Destroy
  <2> QED BY <1>6, <2>1, CastToTypes DEF StepOfTypes
<1>7. CASE Clear
    BY <1>7 DEF StepOfTypes
<1>8. CASE UNCHANGED vars
    BY <1>8 DEF vars, world, StepOfTypes
<1> QED BY <1>1, <1>2, <1>3, <1>4, <1>5, <1>6, <1>7, <1>8 DEF Next

-----------------------------------------------------------------------------
(* The states of an entity's life.                                         *)

LEMMA LifePlaced ==
    ASSUME LifeInv, NEW e, NEW key, KeySound(key), Places(e, key),
           born \subseteq born', e \in born'
    PROVE  LifeInv'
<1>1. DOMAIN typeOf' \subseteq born'
    BY DEF LifeInv, Places
<1>2. ASSUME NEW other \in DOMAIN typeOf' PROVE KeySound(typeOf'[other])
    BY DEF LifeInv, Places
<1> QED BY <1>1, <1>2 DEF LifeInv

LEMMA LifeFreed ==
    ASSUME LifeInv, NEW e, Frees(e), born' = born
    PROVE  LifeInv'
<1>1. ASSUME NEW other \in DOMAIN typeOf' PROVE KeySound(typeOf'[other])
    BY DEF LifeInv, Frees
<1> QED BY <1>1 DEF LifeInv, Frees

LEMMA BornGrows ==
    ASSUME [Next]_vars
    PROVE  born \subseteq born'
BY DEF Next, Query, GetArchetype, Allocate, Instantiate, Cast, CastTo, Destroy, Clear, vars

LEMMA LifeStep ==
    ASSUME CallersSound, LifeInv, [Next]_vars
    PROVE  LifeInv'
<1>1. born \subseteq born'
    BY BornGrows
<1>2. CASE typeOf' = typeOf
    BY <1>1, <1>2 DEF LifeInv
<1>3. CASE Clear
    BY <1>3 DEF Clear, LifeInv
<1>4. ASSUME NEW e \in Entity, NEW key \in Given, Allocate(e, key), Places(e, key)
      PROVE  LifeInv'
  <2>1. KeySound(key) /\ e \in born'
    BY <1>4 DEF CallersSound, Allocate
  <2> QED BY <1>1, <1>4, <2>1, LifePlaced
<1>5. ASSUME NEW e \in Entity, NEW source \in Entity,
             Instantiate(e, source), Cleanup \notin typeOf[source].types,
             Places(e, [typeOf[source] EXCEPT !.types = Instanced(@)])
      PROVE  LifeInv'
  <2>1. KeySound(typeOf[source]) /\ e \in born'
    BY <1>5 DEF LifeInv, Instantiate
  <2>2. KeySound([typeOf[source] EXCEPT !.types = Instanced(@)])
    BY <1>5, <2>1, InstancedSound
  <2> QED BY <1>1, <1>5, <2>1, <2>2, LifePlaced
<1>6. ASSUME NEW e \in Entity, NEW d \in Diff, Cast(e, d),
             \/ GetCasted(typeOf[e], d) = NoKey /\ Frees(e)
             \/ GetCasted(typeOf[e], d) # NoKey /\ Places(e, GetCasted(typeOf[e], d))
      PROVE  LifeInv'
  <2>1. e \in DOMAIN typeOf /\ KeySound(typeOf[e]) /\ e \in born /\ born' = born
    BY <1>6 DEF LifeInv, Cast, CastTo
  <2>2. CASE GetCasted(typeOf[e], d) = NoKey
    BY <1>6, <2>1, <2>2, LifeFreed
  <2>3. CASE GetCasted(typeOf[e], d) # NoKey
    <3>1. KeySound(GetCasted(typeOf[e], d))
      BY <2>1, <2>3, CastedSound
    <3> QED BY <1>6, <2>1, <2>3, <3>1, LifePlaced
  <2> QED BY <2>2, <2>3
<1>7. ASSUME NEW e \in Entity, Destroy(e),
             \/ GetCleaning(typeOf[e]) = NoKey /\ Frees(e)
             \/ GetCleaning(typeOf[e]) # NoKey /\ Places(e, GetCleaning(typeOf[e]))
      PROVE  LifeInv'
  <2>1. e \in DOMAIN typeOf /\ KeySound(typeOf[e]) /\ e \in born /\ born' = born
    BY <1>7 DEF LifeInv, Destroy, CastTo
  <2>2. CASE GetCleaning(typeOf[e]) = NoKey
    BY <1>7, <2>1, <2>2, LifeFreed
  <2>3. CASE GetCleaning(typeOf[e]) # NoKey
    <3>1. KeySound(GetCleaning(typeOf[e]))
      BY <2>1, <2>3, CleaningSound
    <3> QED BY <1>7, <2>1, <2>3, <3>1, LifePlaced
  <2> QED BY <2>2, <2>3
<1> QED BY <1>2, <1>3, <1>4, <1>5, <1>6, <1>7, TypesStep DEF StepOfTypes

LEMMA LifeInvariance ==
    ASSUME CallersSound
    PROVE  Spec => []LifeInv
<1>1. Init => LifeInv
    BY DEF Init, LifeInv
<1>2. LifeInv /\ [Next]_vars => LifeInv'
    BY LifeStep
<1> QED BY <1>1, <1>2, PTL DEF Spec

\* No entity is stuck between two states of its life (get_casted, phases 0, 2,
\* 3 and 5; get_cleaning), when callers neither allocate one in two states nor
\* add markers and the cleanup mark themselves.
THEOREM LifecycleIsSound ==
    ASSUME CallersSound
    PROVE  Spec => []LifecycleSound
<1>1. LifeInv => LifecycleSound
    BY DEF LifeInv, KeySound, LifecycleSound
<1> QED BY <1>1, LifeInvariance, PTL

-----------------------------------------------------------------------------
(* The metatypes of an archetype.                                          *)

MetasKnown(types) == \A e \in DOMAIN types : types[e].metas \subseteq Entity

LEMMA InheritedClosed ==
    ASSUME NEW types, MetasKnown(types), NEW key, key.metas \subseteq Entity
    PROVE  /\ Inherited(types, key) \in SUBSET Entity
           /\ key.metas \subseteq Inherited(types, key)
           /\ Closed(types, Inherited(types, key))
BY DEF Inherited, Closed, MetasKnown

LEMMA InheritedLeast ==
    ASSUME NEW types, NEW key, NEW found \in SUBSET Entity,
           key.metas \subseteq found, Closed(types, found)
    PROVE  Inherited(types, key) \subseteq found
BY DEF Inherited

\* Entities that are no metatype of an archetype, through others or not, have
\* no effect on what it inherits.
LEMMA InheritedSame ==
    ASSUME NEW types, NEW after, MetasKnown(types), MetasKnown(after),
           NEW key, key.metas \subseteq Entity,
           \A e \in Inherited(types, key) :
              /\ e \in DOMAIN types <=> e \in DOMAIN after
              /\ e \in DOMAIN types => after[e] = types[e]
    PROVE  /\ Inherited(after, key) = Inherited(types, key)
           /\ Shared(after, key) = Shared(types, key)
<1> DEFINE now == Inherited(types, key)
           then == Inherited(after, key)
<1>1. now \in SUBSET Entity /\ key.metas \subseteq now /\ Closed(types, now)
    BY InheritedClosed
<1>2. then \in SUBSET Entity /\ key.metas \subseteq then /\ Closed(after, then)
    BY InheritedClosed
<1>3. Closed(after, now)
    BY <1>1 DEF Closed
<1>4. then \subseteq now
    BY <1>1, <1>3, InheritedLeast
<1>5. Closed(types, then)
    BY <1>2, <1>4 DEF Closed
<1>6. now \subseteq then
    BY <1>2, <1>5, InheritedLeast
<1>7. then = now
    BY <1>4, <1>6
<1>8. \A e \in now : e \in DOMAIN types => after[e].types = types[e].types
    OBVIOUS
<1> HIDE DEF now, then
<1>9. UNION {after[e].types : e \in now \cap DOMAIN after} =
          UNION {types[e].types : e \in now \cap DOMAIN types}
  <2>1. now \cap DOMAIN after = now \cap DOMAIN types
    BY DEF now
  <2> QED BY <1>8, <2>1
<1> QED BY <1>7, <1>9 DEF Shared, now, then

\* No entity is its own metatype, through others or not, and metatypes have
\* been born.
KeysInv ==
    /\ born \subseteq Entity /\ DOMAIN typeOf \subseteq born
    /\ \A e \in DOMAIN typeOf :
          /\ typeOf[e] \in Key /\ typeOf[e].metas \subseteq born
          /\ e \notin Inherited(typeOf, typeOf[e])

LEMMA KeysKnown ==
    ASSUME KeysInv
    PROVE  /\ MetasKnown(typeOf)
           /\ \A e \in DOMAIN typeOf : typeOf[e] \in Key /\ typeOf[e].metas \subseteq Entity
BY DEF KeysInv, MetasKnown

\* An entity is placed where nothing that it inherits leads back to it: no
\* other entity comes to lead back to itself either.
LEMMA KeysPlaced ==
    ASSUME KeysInv, NEW e \in Entity, NEW key \in Key, key.metas \subseteq born,
           Places(e, key), born \subseteq born', e \in born', born' \subseteq Entity,
           NEW reach \in SUBSET Entity, e \notin reach, key.metas \subseteq reach,
           Closed(typeOf, reach)
    PROVE  KeysInv'
<1>1. DOMAIN typeOf' \subseteq born'
    BY DEF KeysInv, Places
<1>2. ASSUME NEW other \in DOMAIN typeOf'
      PROVE  typeOf'[other] \in Key /\ typeOf'[other].metas \subseteq born'
    BY DEF KeysInv, Places
<1>3. Closed(typeOf', reach)
    BY DEF Closed, Places
<1>4. e \notin Inherited(typeOf', typeOf'[e])
  <2>1. typeOf'[e] = key
    BY DEF Places
  <2> QED BY <1>3, <2>1, InheritedLeast
<1>5. ASSUME NEW other \in DOMAIN typeOf, other # e
      PROVE  other \notin Inherited(typeOf', typeOf'[other])
  <2> DEFINE now == Inherited(typeOf, typeOf[other])
  <2>1. typeOf'[other] = typeOf[other]
    BY <1>5 DEF Places
  <2>2. now \in SUBSET Entity /\ typeOf[other].metas \subseteq now /\ Closed(typeOf, now)
    BY KeysKnown, InheritedClosed
  <2>3. other \notin now
    BY DEF KeysInv
  <2>4. CASE e \notin now
    <3>1. Closed(typeOf', now)
      BY <2>2, <2>4 DEF Closed, Places
    <3> QED BY <2>1, <2>2, <2>3, <3>1, InheritedLeast
  <2>5. CASE e \in now
    <3> DEFINE both == now \cup reach
    <3>1. Closed(typeOf', both)
      BY <2>2 DEF Closed, Places
    <3>2. Inherited(typeOf', typeOf[other]) \subseteq both
      BY <2>2, <3>1, InheritedLeast
    <3>3. other \notin reach
      <4> SUFFICES ASSUME other \in reach PROVE FALSE
        OBVIOUS
      <4>1. typeOf[other].metas \subseteq reach
        BY DEF Closed
      <4>2. now \subseteq reach
        BY <4>1, InheritedLeast
      <4> QED BY <2>5, <4>2
    <3> QED BY <2>1, <2>3, <3>2, <3>3
  <2> QED BY <2>4, <2>5
<1>6. ASSUME NEW other \in DOMAIN typeOf'
      PROVE  other \notin Inherited(typeOf', typeOf'[other])
  <2>1. other = e \/ other \in DOMAIN typeOf
    BY DEF Places
  <2> QED BY <1>4, <1>5, <2>1
<1> QED BY <1>1, <1>2, <1>6 DEF KeysInv

LEMMA KeysFreed ==
    ASSUME KeysInv, NEW e, Frees(e), born' = born
    PROVE  KeysInv'
<1>1. DOMAIN typeOf' \subseteq born'
    BY DEF KeysInv, Frees
<1>2. ASSUME NEW other \in DOMAIN typeOf'
      PROVE  /\ typeOf'[other] \in Key /\ typeOf'[other].metas \subseteq born'
             /\ other \notin Inherited(typeOf', typeOf'[other])
  <2> DEFINE now == Inherited(typeOf, typeOf[other])
  <2>1. other \in DOMAIN typeOf /\ typeOf'[other] = typeOf[other]
    BY DEF Frees
  <2>2. now \in SUBSET Entity /\ typeOf[other].metas \subseteq now /\ Closed(typeOf, now)
    BY <2>1, KeysKnown, InheritedClosed
  <2>3. Closed(typeOf', now)
    BY <2>2 DEF Closed, Frees
  <2>4. Inherited(typeOf', typeOf[other]) \subseteq now
    BY <2>2, <2>3, InheritedLeast
  <2> QED BY <2>1, <2>4 DEF KeysInv
<1> QED BY <1>1, <1>2 DEF KeysInv

LEMMA InstancedKey ==
    ASSUME NEW key \in Key
    PROVE  /\ [key EXCEPT !.types = Instanced(@)] \in Key
           /\ [key EXCEPT !.types = Instanced(@)].metas = key.metas
<1>1. key.types \in SUBSET Type
    BY DEF Key
<1>2. Instanced(key.types) \in SUBSET Type
    BY <1>1, Markers DEF Instanced
<1> QED BY <1>2 DEF Key

LEMMA CleaningKey ==
    ASSUME NEW key \in Key, GetCleaning(key) # NoKey
    PROVE  GetCleaning(key) \in Key /\ GetCleaning(key).metas = key.metas
<1>1. key.types \in SUBSET Type
    BY DEF Key
<1>2. {Cleanup} \cup (key.types \cap Cleaned) \in SUBSET Type
    BY <1>1, Markers
<1> QED BY <1>2 DEF GetCleaning, Key

LEMMA CastedKey ==
    ASSUME NEW key \in Key, NEW d \in Diff, GetCasted(key, d) # NoKey
    PROVE  /\ GetCasted(key, d) \in Key
           /\ GetCasted(key, d).types = Rest(key, d)
           /\ GetCasted(key, d).metas = (key.metas \cup d.extend.metas) \ d.shrink.metas
<1> DEFINE rest == Rest(key, d)
           metas == (key.metas \cup d.extend.metas) \ d.shrink.metas
<1>1. /\ key.types \in SUBSET Type /\ key.metas \in SUBSET Entity
      /\ d.extend.types \in SUBSET Type /\ d.extend.metas \in SUBSET Entity
    BY ArchetypesAssumption DEF Key
<1>2. rest \in SUBSET Type /\ metas \in SUBSET Entity
    BY <1>1 DEF Rest, Completed
<1>3. GetCasted(key, d) = [types |-> rest, metas |-> metas]
    BY CastedIs
<1> HIDE DEF rest, metas
<1>4. GetCasted(key, d) \in Key /\ GetCasted(key, d).types = rest /\ GetCasted(key, d).metas = metas
    BY <1>2, <1>3 DEF Key
<1> QED BY <1>4 DEF rest, metas

LEMMA KeysStep ==
    ASSUME KeysInv, [Next]_vars
    PROVE  KeysInv'
<1> USE KeysKnown
<1>1. born \subseteq born' /\ born' \subseteq Entity
  <2>1. born' \subseteq Entity
    BY DEF KeysInv, Next, Query, GetArchetype, Allocate, Instantiate, Cast, CastTo,
           Destroy, Clear, vars
  <2> QED BY <2>1, BornGrows
<1>2. CASE typeOf' = typeOf
    BY <1>1, <1>2 DEF KeysInv
<1>3. CASE Clear
    BY <1>3 DEF Clear, KeysInv
<1>4. Closed(typeOf, born) /\ born \in SUBSET Entity
    BY DEF Closed, KeysInv
<1>5. ASSUME NEW e \in Entity, NEW key \in Given, Allocate(e, key), Places(e, key)
      PROVE  KeysInv'
  <2>1. e \notin born /\ e \in born' /\ key.metas \subseteq born /\ key \in Key
    BY <1>5, ArchetypesAssumption DEF Allocate, KeysInv
  <2> QED BY <1>1, <1>4, <1>5, <2>1, KeysPlaced
<1>6. ASSUME NEW e \in Entity, NEW source \in Entity,
             Instantiate(e, source), Cleanup \notin typeOf[source].types,
             Places(e, [typeOf[source] EXCEPT !.types = Instanced(@)])
      PROVE  KeysInv'
  <2> DEFINE key == [typeOf[source] EXCEPT !.types = Instanced(@)]
  <2>1. /\ e \notin born /\ e \in born'
        /\ typeOf[source] \in Key /\ typeOf[source].metas \subseteq born
    BY <1>6 DEF Instantiate, KeysInv
  <2>2. key \in Key /\ key.metas \subseteq born
    BY <2>1, InstancedKey
  <2> HIDE DEF key
  <2>3. Places(e, key)
    BY <1>6 DEF key
  <2> QED BY <1>1, <1>4, <2>1, <2>2, <2>3, KeysPlaced
<1>7. ASSUME NEW e \in Entity, NEW d \in Diff, Cast(e, d),
             \/ GetCasted(typeOf[e], d) = NoKey /\ Frees(e)
             \/ GetCasted(typeOf[e], d) # NoKey /\ Places(e, GetCasted(typeOf[e], d))
      PROVE  KeysInv'
  <2> DEFINE key == GetCasted(typeOf[e], d)
             reach == Inherited(typeOf, typeOf[e]) \cup Inherited(typeOf, d.extend)
  <2>1. /\ e \in DOMAIN typeOf /\ e \in born /\ born' = born
        /\ d.extend.metas \subseteq born /\ d.extend.metas \subseteq Entity
        /\ typeOf[e] \in Key /\ typeOf[e].metas \subseteq born
        /\ e \notin Inherited(typeOf, typeOf[e]) /\ e \notin Inherited(typeOf, d.extend)
    BY <1>7 DEF KeysInv, Cast, CastTo, Fits
  <2>2. CASE key = NoKey
    BY <1>7, <2>1, <2>2, KeysFreed
  <2>3. CASE key # NoKey
    <3>1. key \in Key /\ key.metas \subseteq typeOf[e].metas \cup d.extend.metas
      BY <2>1, <2>3, CastedKey
    <3>2. /\ Inherited(typeOf, typeOf[e]) \in SUBSET Entity
          /\ typeOf[e].metas \subseteq Inherited(typeOf, typeOf[e])
          /\ Closed(typeOf, Inherited(typeOf, typeOf[e]))
      BY <2>1, InheritedClosed
    <3>3. /\ Inherited(typeOf, d.extend) \in SUBSET Entity
          /\ d.extend.metas \subseteq Inherited(typeOf, d.extend)
          /\ Closed(typeOf, Inherited(typeOf, d.extend))
      BY <2>1, InheritedClosed
    <3>4. /\ reach \in SUBSET Entity /\ e \notin reach /\ key.metas \subseteq reach
          /\ Closed(typeOf, reach)
      BY <2>1, <3>1, <3>2, <3>3 DEF Closed
    <3>5. Places(e, key) /\ key.metas \subseteq born
      BY <1>7, <2>1, <2>3, <3>1
    <3> HIDE DEF key, reach
    <3> QED BY <1>1, <2>1, <3>1, <3>4, <3>5, KeysPlaced
  <2> QED BY <2>2, <2>3
<1>8. ASSUME NEW e \in Entity, Destroy(e),
             \/ GetCleaning(typeOf[e]) = NoKey /\ Frees(e)
             \/ GetCleaning(typeOf[e]) # NoKey /\ Places(e, GetCleaning(typeOf[e]))
      PROVE  KeysInv'
  <2> DEFINE key == GetCleaning(typeOf[e])
             reach == Inherited(typeOf, typeOf[e])
  <2>1. /\ e \in DOMAIN typeOf /\ e \in born /\ born' = born
        /\ typeOf[e] \in Key /\ typeOf[e].metas \subseteq born
        /\ e \notin Inherited(typeOf, typeOf[e])
    BY <1>8 DEF KeysInv, Destroy, CastTo
  <2>2. CASE key = NoKey
    BY <1>8, <2>1, <2>2, KeysFreed
  <2>3. CASE key # NoKey
    <3>1. key \in Key /\ key.metas = typeOf[e].metas
      BY <2>1, <2>3, CleaningKey
    <3>2. reach \in SUBSET Entity /\ key.metas \subseteq reach /\ Closed(typeOf, reach)
      BY <2>1, <3>1, InheritedClosed
    <3>3. Places(e, key) /\ key.metas \subseteq born
      BY <1>8, <2>1, <2>3, <3>1
    <3> HIDE DEF key
    <3> QED BY <1>1, <2>1, <3>1, <3>2, <3>3, KeysPlaced
  <2> QED BY <2>2, <2>3
<1> QED BY <1>2, <1>3, <1>5, <1>6, <1>7, <1>8, TypesStep DEF StepOfTypes

LEMMA KeysInvariance == Spec => []KeysInv
<1>1. Init => KeysInv
    BY DEF Init, KeysInv
<1>2. KeysInv /\ [Next]_vars => KeysInv'
    BY KeysStep
<1> QED BY <1>1, <1>2, PTL DEF Spec

-----------------------------------------------------------------------------
(* What is to be cleaned up by hand.                                       *)

\* A cast that takes neither the type nor the mark leaves the type, and does
\* not take the entity for one with nothing left.
LEMMA CastKeepsCleaned ==
    ASSUME NEW key \in Key, NEW d \in Diff, NEW t \in Cleaned, t \in key.types,
           d.shrink.types \cap {t, Cleanup} = {}
    PROVE  GetCasted(key, d) # NoKey /\ t \in GetCasted(key, d).types
<1> DEFINE rest == Rest(key, d)
<1>1. key.types \in SUBSET Type /\ d.extend.types \in SUBSET Type
    BY ArchetypesAssumption DEF Key
<1>2. ASSUME NEW u \in {t, Cleanup}, u \in key.types PROVE u \in rest
  <2>1. u \notin Marker
    BY Markers
  <2>2. \A v \in Copied : u # MarkerOf[v]
    BY <2>1, Markers
  <2>3. u \notin Interrupted(key, d.shrink.types)
    BY <2>2 DEF Interrupted
  <2>4. u \in Completed(key, key.types \cup d.extend.types)
    BY <1>2, <2>2 DEF Completed
  <2> QED BY <1>2, <2>3, <2>4 DEF Rest
<1>3. t \in rest
    BY <1>2
<1>4. rest \in SUBSET Type
    BY <1>1 DEF Rest, Completed
<1>5. ~ (Cleanup \in key.types /\ Cardinality(rest) = 1)
  <2> SUFFICES ASSUME Cleanup \in key.types, Cardinality(rest) = 1 PROVE FALSE
    OBVIOUS
  <2>1. Cleanup \in rest
    BY <1>2
  <2>2. t # Cleanup
    BY Markers
  <2> HIDE DEF rest
  <2>3. IsFiniteSet(rest)
    BY <1>4, ArchetypesAssumption, FS_Subset
  <2>4. PICK u : rest = {u}
    BY <2>3, FS_Singleton
  <2> QED BY <1>3, <2>1, <2>2, <2>4
<1>6. GetCasted(key, d) = [types |-> rest,
                           metas |-> (key.metas \cup d.extend.metas) \ d.shrink.metas]
    BY <1>5, CastedIs
<1> HIDE DEF rest
<1> QED BY <1>3, <1>6 DEF NoKey

\* Its entity's destruction leaves it too.
LEMMA CleaningKeepsCleaned ==
    ASSUME NEW key \in Key, NEW t \in Cleaned, t \in key.types
    PROVE  GetCleaning(key) # NoKey /\ t \in GetCleaning(key).types
<1>1. CASE Cleanup \in key.types
    BY <1>1 DEF GetCleaning, NoKey, Key
<1>2. CASE Cleanup \notin key.types
  <2>1. GetCleaning(key) = [key EXCEPT !.types = {Cleanup} \cup (@ \cap Cleaned)]
    BY <1>2 DEF GetCleaning, WithTracked
  <2>2. GetCleaning(key).types = {Cleanup} \cup (key.types \cap Cleaned)
    BY <2>1 DEF Key
  <2>3. GetCleaning(key) # NoKey
    BY <2>1 DEF NoKey, Key
  <2> QED BY <2>2, <2>3
<1> QED BY <1>1, <1>2

\* No call but the ones that name it, or the cleanup mark, takes a type that is
\* to be cleaned by hand: destroy, the casts of other types, the calls about
\* other entities leave it, and its entity (get_cleaning, get_casted).
THEOREM CleanedTypesStay == Spec => CleanedStays
<1> DEFINE Kept == \A e \in DOMAIN typeOf, t \in Cleaned :
                      t \in typeOf[e].types =>
                          \/ e \in DOMAIN typeOf' /\ t \in typeOf'[e].types
                          \/ Clear
                          \/ \E d \in Diff : d.shrink.types \cap {t, Cleanup} # {} /\ Cast(e, d)
<1>1. ASSUME KeysInv, [Next]_vars PROVE Kept
  <2> SUFFICES ASSUME NEW e \in DOMAIN typeOf, NEW t \in Cleaned, t \in typeOf[e].types,
                      ~ Clear,
                      ~ \E d \in Diff : d.shrink.types \cap {t, Cleanup} # {} /\ Cast(e, d)
               PROVE  e \in DOMAIN typeOf' /\ t \in typeOf'[e].types
    OBVIOUS
  <2>1. e \in born /\ typeOf[e] \in Key
    BY <1>1 DEF KeysInv
  <2>2. CASE typeOf' = typeOf
    BY <2>2
  <2>3. ASSUME NEW other \in Entity, other # e, NEW key, Places(other, key) \/ Frees(other)
        PROVE  e \in DOMAIN typeOf' /\ t \in typeOf'[e].types
    BY <2>3 DEF Places, Frees
  <2>4. ASSUME NEW new \in Entity, NEW key \in Given, Allocate(new, key), Places(new, key)
        PROVE  e \in DOMAIN typeOf' /\ t \in typeOf'[e].types
    BY <2>1, <2>3, <2>4 DEF Allocate
  <2>5. ASSUME NEW new \in Entity, NEW source \in Entity, Instantiate(new, source),
               NEW key, Places(new, key)
        PROVE  e \in DOMAIN typeOf' /\ t \in typeOf'[e].types
    BY <2>1, <2>3, <2>5 DEF Instantiate
  <2>6. ASSUME NEW other \in Entity, NEW d \in Diff, Cast(other, d),
               \/ GetCasted(typeOf[other], d) = NoKey /\ Frees(other)
               \/ /\ GetCasted(typeOf[other], d) # NoKey
                  /\ Places(other, GetCasted(typeOf[other], d))
        PROVE  e \in DOMAIN typeOf' /\ t \in typeOf'[e].types
    <3>1. CASE other = e
      <4>1. d.shrink.types \cap {t, Cleanup} = {}
        BY <2>6, <3>1
      <4>2. GetCasted(typeOf[e], d) # NoKey /\ t \in GetCasted(typeOf[e], d).types
        BY <2>1, <4>1, CastKeepsCleaned
      <4> QED BY <2>6, <3>1, <4>2 DEF Places
    <3>2. CASE other # e
      BY <2>3, <2>6, <3>2
    <3> QED BY <3>1, <3>2
  <2>7. ASSUME NEW other \in Entity, Destroy(other),
               \/ GetCleaning(typeOf[other]) = NoKey /\ Frees(other)
               \/ /\ GetCleaning(typeOf[other]) # NoKey
                  /\ Places(other, GetCleaning(typeOf[other]))
        PROVE  e \in DOMAIN typeOf' /\ t \in typeOf'[e].types
    <3>1. CASE other = e
      <4>1. GetCleaning(typeOf[e]) # NoKey /\ t \in GetCleaning(typeOf[e]).types
        BY <2>1, CleaningKeepsCleaned
      <4> QED BY <2>7, <3>1, <4>1 DEF Places
    <3>2. CASE other # e
      BY <2>3, <2>7, <3>2
    <3> QED BY <3>1, <3>2
  <2> QED BY <1>1, <2>2, <2>4, <2>5, <2>6, <2>7, TypesStep DEF StepOfTypes
<1> HIDE DEF Kept
<1>2. KeysInv /\ [Next]_vars => [Kept]_vars
    BY <1>1
<1>3. Spec => [][Kept]_vars
    BY <1>2, KeysInvariance, PTL DEF Spec
<1> QED BY <1>3, PTL DEF CleanedStays, Kept

-----------------------------------------------------------------------------
(* The cached queries.                                                     *)

\* A bag has a key once, or not at all.
Exact(bag, key, has) ==
    /\ key \in DOMAIN bag <=> has
    /\ key \in DOMAIN bag => bag[key] = 1

\* What the query of f is to have of a key.
Belongs(f, types, keys, key) == key \in keys /\ ValidGroup(f, types, key)

\* CacheExact, of every key there may be.
CacheInv ==
    /\ DOMAIN stale = DOMAIN queries
    /\ \A f \in DOMAIN queries : \A key :
          key \notin stale[f] => Exact(queries[f], key, Belongs(f, typeOf, archetypes, key))

LEMMA CacheInvIs == CacheInv <=> DOMAIN stale = DOMAIN queries /\ CacheExact
<1>1. CacheInv => CacheExact
    BY DEF CacheInv, CacheExact, Exact, Belongs, BagIn, BagToSet
<1>2. ASSUME CacheExact, DOMAIN stale = DOMAIN queries PROVE CacheInv
  <2> SUFFICES ASSUME NEW f \in DOMAIN queries, NEW key, key \notin stale[f]
               PROVE  Exact(queries[f], key, Belongs(f, typeOf, archetypes, key))
    BY <1>2 DEF CacheInv
  <2>1. CASE key \in archetypes \cup DOMAIN queries[f]
    BY <1>2, <2>1 DEF CacheExact, Exact, Belongs, BagIn, BagToSet
  <2>2. CASE key \notin archetypes \cup DOMAIN queries[f]
    BY <2>2 DEF Exact, Belongs
  <2> QED BY <2>1, <2>2
<1> QED BY <1>1, <1>2 DEF CacheInv

\* A new archetype is put into the queries that it belongs to.
LEMMA WithExact ==
    ASSUME NEW cached, NEW types, NEW keys, NEW key, key \notin keys,
           NEW f \in DOMAIN cached, NEW k, Exact(cached[f], k, Belongs(f, types, keys, k))
    PROVE  Exact(QueriesWith(cached, types, key)[f], k, Belongs(f, types, keys \cup {key}, k))
<1> DEFINE after == cached[f] (+) SetToBag({key})
<1>1. CASE ~ ValidGroup(f, types, key)
    BY <1>1 DEF QueriesWith, Belongs, Exact
<1>2. CASE ValidGroup(f, types, key)
  <2>1. QueriesWith(cached, types, key)[f] = after
    BY <1>2 DEF QueriesWith
  <2>2. /\ DOMAIN after = DOMAIN cached[f] \cup {key}
        /\ key \notin DOMAIN cached[f] => after[key] = 1
        /\ \A q \in DOMAIN cached[f] : q # key /\ cached[f][q] = 1 => after[q] = 1
    BY DEF (+), SetToBag
  <2> HIDE DEF after
  <2>3. Exact(after, k, Belongs(f, types, keys \cup {key}, k))
    BY <1>2, <2>2 DEF Exact, Belongs
  <2> QED BY <2>1, <2>3
<1> QED BY <1>1, <1>2

\* An archetype that goes is taken from the queries that it belongs to.
LEMMA WithoutExact ==
    ASSUME NEW cached, NEW types, NEW after, NEW keys, NEW key,
           NEW f \in DOMAIN cached, NEW k, Exact(cached[f], k, Belongs(f, types, keys, k)),
           ValidGroup(f, after, key) <=> ValidGroup(f, types, key)
    PROVE  Exact(QueriesWithout(cached, after, key)[f], k, Belongs(f, types, keys \ {key}, k))
<1> DEFINE less == cached[f] (-) SetToBag({key})
<1>1. CASE ~ ValidGroup(f, after, key)
    BY <1>1 DEF QueriesWithout, Belongs, Exact
<1>2. CASE ValidGroup(f, after, key)
  <2>1. QueriesWithout(cached, after, key)[f] = less
    BY <1>2 DEF QueriesWithout
  <2>2. /\ DOMAIN less \subseteq DOMAIN cached[f]
        /\ cached[f][key] = 1 => key \notin DOMAIN less
        /\ \A q \in DOMAIN cached[f] :
              q # key /\ cached[f][q] = 1 => q \in DOMAIN less /\ less[q] = 1
    BY DEF (-), SetToBag
  <2> HIDE DEF less
  <2>3. Exact(less, k, Belongs(f, types, keys \ {key}, k))
    BY <2>2 DEF Exact, Belongs
  <2> QED BY <2>1, <2>3
<1> QED BY <1>1, <1>2

\* Of an archetype whose shared types are the same, a query thinks the same.
LEMMA SameGroup ==
    ASSUME NEW f, NEW types, NEW after, NEW key, Shared(types, key) = Shared(after, key)
    PROVE  ValidGroup(f, types, key) <=> ValidGroup(f, after, key)
BY DEF ValidGroup

LEMMA BecomesExact ==
    ASSUME CacheInv, NEW w, DOMAIN w.queries = DOMAIN queries, Becomes(w),
           \A f \in DOMAIN queries : \A key :
              key \notin stale[f] =>
                  Exact(w.queries[f], key, Belongs(f, typeOf, w.archetypes, key))
    PROVE  CacheInv'
<1>1. CASE ~ CanResolve(w)
  <2>1. UNCHANGED <<typeOf, archetypes, queries, stale>>
    BY <1>1 DEF Becomes, world
  <2> QED BY <2>1 DEF CacheInv, Belongs
<1>2. CASE CanResolve(w)
  <2> DEFINE changed == {key \in w.archetypes : Shared(typeOf, key) # Shared(w.typeOf, key)}
  <2>1. /\ typeOf' = w.typeOf /\ archetypes' = w.archetypes
        /\ stale' = [f \in DOMAIN w.queries |-> stale[f] \cup changed]
        /\ queries' = [f \in DOMAIN w.queries |->
                          Restrict(w.queries[f], DOMAIN w.queries[f] \ stale'[f])]
    BY <1>2 DEF Becomes
  <2>2. DOMAIN stale' = DOMAIN queries'
    BY <2>1
  <2>3. ASSUME NEW f \in DOMAIN queries', NEW key, key \notin stale'[f]
        PROVE  Exact(queries'[f], key, Belongs(f, typeOf', archetypes', key))
    <3>1. f \in DOMAIN queries /\ key \notin stale[f] /\ key \notin changed
      BY <2>1, <2>3
    <3>2. Exact(w.queries[f], key, Belongs(f, typeOf, w.archetypes, key))
      BY <3>1
    <3>3. Belongs(f, typeOf, w.archetypes, key) <=> Belongs(f, typeOf', archetypes', key)
      <4>1. CASE key \in w.archetypes
        <5>1. Shared(typeOf, key) = Shared(w.typeOf, key)
          BY <3>1, <4>1
        <5>2. ValidGroup(f, typeOf, key) <=> ValidGroup(f, typeOf', key)
          BY <2>1, <5>1, SameGroup
        <5> QED BY <2>1, <5>2 DEF Belongs
      <4>2. CASE key \notin w.archetypes
        BY <2>1, <4>2 DEF Belongs
      <4> QED BY <4>1, <4>2
    <3> HIDE DEF changed
    <3>4. queries'[f] = Restrict(w.queries[f], DOMAIN w.queries[f] \ stale'[f])
      BY <2>1, <2>3
    <3>5. /\ key \in DOMAIN queries'[f] <=> key \in DOMAIN w.queries[f]
          /\ key \in DOMAIN queries'[f] => queries'[f][key] = w.queries[f][key]
      BY <2>3, <3>4 DEF Restrict
    <3> QED BY <3>2, <3>3, <3>5 DEF Exact
  <2> QED BY <2>2, <2>3 DEF CacheInv
<1> QED BY <1>1, <1>2

LEMMA CacheQuery ==
    ASSUME CacheInv, NEW f \in Filter, Query(f)
    PROVE  CacheInv'
<1> DEFINE answer == SetToBag({key \in archetypes : ValidGroup(f, typeOf, key)})
<1>1. typeOf' = typeOf /\ archetypes' = archetypes
    BY DEF Query
<1>2. CASE queries' = queries /\ stale' = stale
    BY <1>1, <1>2 DEF CacheInv, Belongs
<1>3. CASE queries' = With(queries, f, answer) /\ stale' = With(stale, f, {})
  <2>1. DOMAIN stale' = DOMAIN queries'
    BY <1>3 DEF CacheInv, With
  <2>2. ASSUME NEW g \in DOMAIN queries', NEW key, key \notin stale'[g]
        PROVE  Exact(queries'[g], key, Belongs(g, typeOf', archetypes', key))
    <3>1. CASE g = f
      <4>1. queries'[g] = answer
        BY <1>3, <3>1 DEF With
      <4>2. Exact(answer, key, Belongs(f, typeOf, archetypes, key))
        BY DEF Exact, Belongs, SetToBag
      <4> QED BY <1>1, <3>1, <4>1, <4>2
    <3>2. CASE g # f
      <4>1. g \in DOMAIN queries /\ queries'[g] = queries[g] /\ stale'[g] = stale[g]
        BY <1>3, <3>2 DEF With, CacheInv
      <4> QED BY <1>1, <2>2, <4>1 DEF CacheInv
    <3> QED BY <3>1, <3>2
  <2> QED BY <2>1, <2>2 DEF CacheInv
<1> QED BY <1>2, <1>3 DEF Query

\* What get_archetype makes of the queries, before the entities change.
LEMMA AddedExact ==
    ASSUME CacheInv, NEW key, NEW after,
           after = IF key \in archetypes THEN queries ELSE QueriesWith(queries, typeOf, key),
           NEW f \in DOMAIN queries, NEW k, k \notin stale[f]
    PROVE  /\ DOMAIN after = DOMAIN queries
           /\ Exact(after[f], k, Belongs(f, typeOf, archetypes \cup {key}, k))
<1>1. Exact(queries[f], k, Belongs(f, typeOf, archetypes, k))
    BY DEF CacheInv
<1>2. CASE key \in archetypes
  <2>1. archetypes \cup {key} = archetypes
    BY <1>2
  <2> QED BY <1>1, <1>2, <2>1
<1>3. CASE key \notin archetypes
  <2>1. Exact(QueriesWith(queries, typeOf, key)[f], k,
              Belongs(f, typeOf, archetypes \cup {key}, k))
    BY <1>1, <1>3, WithExact
  <2> QED BY <1>3, <2>1 DEF QueriesWith
<1> QED BY <1>2, <1>3

LEMMA AddedDomain ==
    ASSUME NEW key
    PROVE  DOMAIN (IF key \in archetypes THEN queries ELSE QueriesWith(queries, typeOf, key))
               = DOMAIN queries
BY DEF QueriesWith

LEMMA CachePlaced ==
    ASSUME CacheInv, NEW e, NEW key, Becomes(Placed(World, e, key))
    PROVE  CacheInv'
<1> DEFINE w == Placed(World, e, key)
           after == IF key \in archetypes THEN queries ELSE QueriesWith(queries, typeOf, key)
<1>1. w.archetypes = archetypes \cup {key} /\ w.queries = after
    BY WorldIs, PlacedIs
<1>2. DOMAIN w.queries = DOMAIN queries
    BY <1>1, AddedDomain
<1>3. ASSUME NEW f \in DOMAIN queries, NEW k, k \notin stale[f]
      PROVE  Exact(w.queries[f], k, Belongs(f, typeOf, w.archetypes, k))
  <2>1. Exact(after[f], k, Belongs(f, typeOf, archetypes \cup {key}, k))
    BY <1>3, AddedExact
  <2> QED BY <1>1, <2>1
<1> HIDE DEF w
<1> QED BY <1>2, <1>3, BecomesExact DEF w

LEMMA CacheGet ==
    ASSUME CacheInv, NEW key, Becomes(WithArchetype(World, key))
    PROVE  CacheInv'
<1> DEFINE w == WithArchetype(World, key)
           after == IF key \in archetypes THEN queries ELSE QueriesWith(queries, typeOf, key)
<1>1. w.archetypes = archetypes \cup {key} /\ w.queries = after
    BY WorldIs, WithArchetypeIs
<1>2. DOMAIN w.queries = DOMAIN queries
    BY <1>1, AddedDomain
<1>3. ASSUME NEW f \in DOMAIN queries, NEW k, k \notin stale[f]
      PROVE  Exact(w.queries[f], k, Belongs(f, typeOf, w.archetypes, k))
  <2>1. Exact(after[f], k, Belongs(f, typeOf, archetypes \cup {key}, k))
    BY <1>3, AddedExact
  <2> QED BY <1>1, <2>1
<1> HIDE DEF w
<1> QED BY <1>2, <1>3, BecomesExact DEF w

\* The archetype that a cast leaves is taken from the queries when its entity is
\* already of the other: it inherits what it did, for the entity was no
\* metatype of itself.
LEMMA LeftSame ==
    ASSUME KeysInv, NEW e \in DOMAIN typeOf, NEW key, key = NoKey \/ key \in Key
    PROVE  Shared(CastMiddle(e, key).typeOf, typeOf[e]) = Shared(typeOf, typeOf[e])
<1> DEFINE after == CastMiddle(e, key).typeOf
<1>1. MetasKnown(typeOf) /\ typeOf[e].metas \subseteq Entity
    BY KeysKnown
<1>2. e \notin Inherited(typeOf, typeOf[e])
    BY DEF KeysInv
<1>3. /\ key = NoKey => after = [other \in DOMAIN typeOf \ {e} |-> typeOf[other]]
      /\ key # NoKey => after = With(typeOf, e, key)
    BY CastMiddleIs
<1>4. key # NoKey => key.metas \subseteq Entity
    BY DEF Key
<1> HIDE DEF after
<1>5. /\ \A other : other # e => (other \in DOMAIN after <=> other \in DOMAIN typeOf)
      /\ \A other \in DOMAIN typeOf : other # e => after[other] = typeOf[other]
    BY <1>3 DEF With
<1>6. MetasKnown(after)
    BY <1>1, <1>3, <1>4 DEF MetasKnown, With
<1>7. Shared(after, typeOf[e]) = Shared(typeOf, typeOf[e])
    BY <1>1, <1>2, <1>5, <1>6, InheritedSame
<1> QED BY <1>7 DEF after

LEMMA CacheCast ==
    ASSUME KeysInv, CacheInv, NEW e \in DOMAIN typeOf,
           NEW key, key = NoKey \/ key \in Key, CastTo(e, key)
    PROVE  CacheInv'
<1> DEFINE old == typeOf[e]
           middle == CastMiddle(e, key)
           w == Left(middle, old)
<1>1. CASE key = old
    BY <1>1 DEF CastTo, CacheInv, Belongs, world
<1>2. CASE key # old
  <2>1. Becomes(w)
    BY <1>2 DEF CastTo, CastMiddle
  <2>2. IsWorld(middle) /\ Shared(middle.typeOf, old) = Shared(typeOf, old)
    BY CastMiddleIs, LeftSame
  <2>3. DOMAIN middle.queries = DOMAIN queries
    <3>1. \/ middle.queries = queries
          \/ middle.queries = QueriesWith(queries, typeOf, key)
      BY CastMiddleIs
    <3> HIDE DEF middle
    <3> QED BY <3>1 DEF QueriesWith
  <2>4. ASSUME NEW f \in DOMAIN queries, NEW k, k \notin stale[f]
        PROVE  Exact(middle.queries[f], k, Belongs(f, typeOf, middle.archetypes, k))
    <3>1. CASE key = NoKey
      <4>1. middle.queries = queries /\ middle.archetypes = archetypes
        BY <3>1, CastMiddleIs
      <4> QED BY <2>4, <4>1 DEF CacheInv
    <3>2. CASE key # NoKey
      <4> DEFINE after == IF key \in archetypes THEN queries ELSE QueriesWith(queries, typeOf, key)
      <4>1. middle.queries = after /\ middle.archetypes = archetypes \cup {key}
        BY <3>2, CastMiddleIs
      <4>2. Exact(after[f], k, Belongs(f, typeOf, archetypes \cup {key}, k))
        BY <2>4, AddedExact
      <4> QED BY <4>1, <4>2
    <3> QED BY <3>1, <3>2
  <2> HIDE DEF middle, old
  <2>5. \/ w = middle
        \/ /\ w.archetypes = middle.archetypes \ {old}
           /\ w.queries = QueriesWithout(middle.queries, middle.typeOf, old)
    BY <2>2, LeftIs
  <2> HIDE DEF w
  <2>6. DOMAIN w.queries = DOMAIN queries
    BY <2>3, <2>5 DEF QueriesWithout
  <2>7. ASSUME NEW f \in DOMAIN queries, NEW k, k \notin stale[f]
        PROVE  Exact(w.queries[f], k, Belongs(f, typeOf, w.archetypes, k))
    <3>1. Exact(middle.queries[f], k, Belongs(f, typeOf, middle.archetypes, k))
      BY <2>4, <2>7
    <3>2. CASE w = middle
      BY <3>1, <3>2
    <3>3. CASE /\ w.archetypes = middle.archetypes \ {old}
               /\ w.queries = QueriesWithout(middle.queries, middle.typeOf, old)
      <4>1. ValidGroup(f, middle.typeOf, old) <=> ValidGroup(f, typeOf, old)
        BY <2>2, SameGroup
      <4>2. f \in DOMAIN middle.queries
        BY <2>3
      <4>3. Exact(QueriesWithout(middle.queries, middle.typeOf, old)[f], k,
                  Belongs(f, typeOf, middle.archetypes \ {old}, k))
        BY <3>1, <4>1, <4>2, WithoutExact
      <4> QED BY <3>3, <4>3
    <3> QED BY <2>5, <3>2, <3>3
  <2> QED BY <2>1, <2>6, <2>7, BecomesExact
<1> QED BY <1>1, <1>2

LEMMA CacheSame ==
    ASSUME CacheInv, UNCHANGED <<typeOf, archetypes, queries, stale>>
    PROVE  CacheInv'
BY DEF CacheInv, Belongs

LEMMA CacheStep ==
    ASSUME KeysInv, CacheInv, [Next]_vars
    PROVE  CacheInv'
<1>1. ASSUME NEW f \in Filter, Query(f) PROVE CacheInv'
    BY <1>1, CacheQuery
<1>2. ASSUME NEW key \in Made, GetArchetype(key) PROVE CacheInv'
    BY <1>2, CacheGet DEF GetArchetype
<1>3. ASSUME NEW e \in Entity, NEW key \in Given, Allocate(e, key) PROVE CacheInv'
    BY <1>3, CachePlaced DEF Allocate
<1>4. ASSUME NEW e \in Entity, NEW source \in Entity, Instantiate(e, source) PROVE CacheInv'
  <2>1. CASE Crash
    BY <2>1, CacheSame DEF Crash, world
  <2>2. CASE ~ Crash
    <3> DEFINE key == [typeOf[source] EXCEPT !.types = Instanced(@)]
    <3>1. Becomes(Placed(World, e, key))
      BY <1>4, <2>2 DEF Instantiate
    <3> HIDE DEF key
    <3> QED BY <3>1, CachePlaced
  <2> QED BY <2>1, <2>2
<1>5. ASSUME NEW e \in Entity, NEW d \in Diff, Cast(e, d) PROVE CacheInv'
  <2> DEFINE key == GetCasted(typeOf[e], d)
  <2>1. e \in DOMAIN typeOf /\ typeOf[e] \in Key /\ CastTo(e, key)
    BY <1>5 DEF Cast, KeysInv
  <2>2. key = NoKey \/ key \in Key
    BY <2>1, CastedKey
  <2> HIDE DEF key
  <2> QED BY <2>1, <2>2, CacheCast
<1>6. ASSUME NEW e \in Entity, Destroy(e) PROVE CacheInv'
  <2> DEFINE key == GetCleaning(typeOf[e])
  <2>1. e \in DOMAIN typeOf /\ typeOf[e] \in Key /\ CastTo(e, key)
    BY <1>6 DEF Destroy, KeysInv
  <2>2. key = NoKey \/ key \in Key
    BY <2>1, CleaningKey
  <2> HIDE DEF key
  <2> QED BY <2>1, <2>2, CacheCast
<1>7. CASE Clear
    BY <1>7 DEF Clear, CacheInv
<1>8. CASE UNCHANGED vars
    BY <1>8, CacheSame DEF vars, world
<1> QED BY <1>1, <1>2, <1>3, <1>4, <1>5, <1>6, <1>7, <1>8 DEF Next

\* A cached query has each archetype of the world that it is to have once, and
\* no other, however archetypes came and went since it was asked, except those
\* whose shared types changed (update_queries, get_query_cache).
THEOREM CacheStaysExact == Spec => []CacheExact
<1>1. Init => CacheInv
    BY DEF Init, CacheInv
<1>2. KeysInv /\ CacheInv /\ [Next]_vars => CacheInv'
    BY CacheStep
<1>3. CacheInv => CacheExact
    BY CacheInvIs
<1> QED BY <1>1, <1>2, <1>3, KeysInvariance, PTL DEF Spec

=============================================================================
