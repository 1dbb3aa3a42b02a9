------------------------- MODULE EntityTable_proofs -------------------------
(***************************************************************************)
(* Proofs about EntityTable, for every set of chunks and archetypes, every *)
(* capacity, and every number of ids and versions: first that records and  *)
(* columns agree, then, from that, the life of an entity: that a living id *)
(* is always stored somewhere, which versions its handles get, and which   *)
(* ids are lost.                                                           *)
(***************************************************************************)
EXTENDS EntityTable, SequenceTheorems, FiniteSetTheorems, TLAPS

Inj(s) == \A i, j \in DOMAIN s : s[i] = s[j] => i = j

-----------------------------------------------------------------------------
(* The operators of the model.                                             *)

\* A part of a column: its length, its handles, and its ids.
LEMMA PartProperties ==
    ASSUME NEW S, NEW s \in Seq(S), NEW m \in Nat, NEW n \in Nat,
           m + n <= Len(s)
    PROVE  /\ SubSeq(s, m + 1, m + n) \in Seq(S)
           /\ Len(SubSeq(s, m + 1, m + n)) = n
           /\ \A i \in 1 .. n : SubSeq(s, m + 1, m + n)[i] = s[m + i]
<1>1. \A i \in m + 1 .. m + n : s[i] \in S
    OBVIOUS
<1> QED BY <1>1, SubSeqProperties

\* The smaller of two numbers is one of them, and above 0 if they are.
LEMMA SmallerProperties ==
    ASSUME NEW a \in Nat, NEW b \in Nat
    PROVE  /\ Smaller(a, b) \in Nat /\ Smaller(a, b) <= a /\ Smaller(a, b) <= b
           /\ a > 0 /\ b > 0 => Smaller(a, b) > 0
BY DEF Smaller

\* An allocation of q entities of which k are done keeps its claim on unused
\* ids when it takes n more, u of them (the free list is L long) used before.
LEMMA ClaimArithmetic ==
    ASSUME NEW s \in Nat, NEW n \in Nat, NEW u \in Nat, NEW q \in Nat,
           NEW k \in Nat, NEW L \in Nat, NEW M \in Nat, s + q - k <= M + L
    PROVE  s + n - u + q - (k + n) <= M + (L - u)
OBVIOUS

\* In a sequence without repetitions an id is found at its own place.
LEMMA PlaceOfMember ==
    ASSUME NEW ids, Inj(ids), NEW i \in DOMAIN ids
    PROVE  Among(ids, ids[i]) /\ PlaceOf(ids, ids[i]) = i
<1>1. Among(ids, ids[i])
    BY DEF Among
<1>2. \A j \in DOMAIN ids : ids[j] = ids[i] => j = i
    BY DEF Inj
<1>3. PlaceOf(ids, ids[i]) \in DOMAIN ids /\ ids[PlaceOf(ids, ids[i])] = ids[i]
    BY DEF PlaceOf
<1> QED BY <1>1, <1>2, <1>3

\* The place of an id that is among the ids is one of their places.
LEMMA PlaceOfAmong ==
    ASSUME NEW ids, NEW id, Among(ids, id)
    PROVE  PlaceOf(ids, id) \in DOMAIN ids /\ ids[PlaceOf(ids, id)] = id
BY DEF Among, PlaceOf

\* The prefix that the sentinel leaves of a list.
LEMMA UpToZeroPrefix ==
    ASSUME NEW S, NEW s \in Seq(S)
    PROVE  \E n \in 0 .. Len(s) : /\ UpToZero(s) \in Seq(S)
                                  /\ Len(UpToZero(s)) = n
                                  /\ \A i \in 1 .. n : UpToZero(s)[i] = s[i]
<1> DEFINE Z == {i \in 1 .. Len(s) : \A j \in 1 .. i : s[j] # 0}
<1>1. Len(s) \in Nat
    OBVIOUS
<1>2. IsFiniteSet(1 .. Len(s)) /\ Cardinality(1 .. Len(s)) = Len(s)
  <2> DEFINE n == Len(s)
  <2> HIDE DEF n
  <2>1. n \in Nat
    BY <1>1 DEF n
  <2>2. /\ IsFiniteSet(1 .. n)
        /\ Cardinality(1 .. n) = IF 1 > n THEN 0 ELSE n - 1 + 1
    BY <2>1, FS_Interval
  <2> QED BY <2>1, <2>2 DEF n
<1>3. Cardinality(Z) \in 0 .. Len(s)
    BY <1>1, <1>2, Z \subseteq 1 .. Len(s), FS_Subset, FS_CardinalityType
<1>4. UpToZero(s) = SubSeq(s, 1, Cardinality(Z))
    BY DEF UpToZero
<1>5. ASSUME NEW n \in 0 .. Len(s)
      PROVE  /\ SubSeq(s, 1, n) \in Seq(S)
             /\ Len(SubSeq(s, 1, n)) = n
             /\ \A i \in 1 .. n : SubSeq(s, 1, n)[i] = s[i]
    OBVIOUS
<1> HIDE DEF Z
<1> QED BY <1>3, <1>4, <1>5

-----------------------------------------------------------------------------
(* The inductive invariant.                                                *)

\* What the call in progress relies on until it returns.
CallOK ==
    /\ call.op = "idle" => call = Idle
    /\ call.op = "allocate" =>
           /\ call.g \in Archetype
           /\ call.k < call.count
           /\ size + call.count - call.k <= MaxIds + Len(freeList)
    /\ call.op = "cast" =>
           /\ call.g \in Archetype
           /\ call.c \in Chunk
           /\ typeOf[call.c] \notin {call.g, NoArchetype}
           /\ call.start + call.count <= Len(ents[call.c])
           /\ call.k <= call.count
    /\ call.op = "merge" =>
           /\ Inj(call.order)
           /\ \A i \in 1 .. Len(call.order) : typeOf[call.order[i]] # NoArchetype

IInv ==
    /\ TypeOK
    /\ ChunksWellFilled
    /\ CallOK
    /\ Coherent
    /\ FreeListSound

\* The invariant gives every variable its type, field by field, so that the
\* proofs of the actions need not expand TypeOK.
LEMMA Types ==
    /\ Idle \in Call
    /\ NoRecord \in Record
    /\ \A v \in Version : Recycle(v) \in Version
<1>1. <<>> \in Seq(Chunk)
    OBVIOUS
<1>2. ASSUME NEW v \in Version PROVE Recycle(v) \in Version
  <2>1. \A n \in Nat : n % VersionCount \in 0 .. VersionCount - 1
    BY ConstantsAssumption
  <2>2. v + 1 \in Nat /\ v + 2 \in Nat
    BY DEF Version
  <2> QED BY <2>1, <2>2 DEF Version, Recycle
<1>3. 0 \in Version
    BY ConstantsAssumption DEF Version
<1> QED BY <1>1, <1>2, <1>3 DEF Idle, Call, NoRecord, Record

\* The empty world that world's constructor leaves satisfies the invariant.
THEOREM InitIInv == Init => IInv
<1> SUFFICES ASSUME Init PROVE IInv
    OBVIOUS
<1> USE DEF Init
<1>1. TypeOK
    BY Types, ConstantsAssumption DEF TypeOK, Id
<1>2. ChunksWellFilled
    BY ConstantsAssumption DEF ChunksWellFilled
<1>3. CallOK
    BY DEF CallOK, Idle
<1>4. Coherent /\ FreeListSound
    BY DEF Coherent, FreeListSound
<1> QED BY <1>1, <1>2, <1>3, <1>4 DEF IInv

\* A chunk that allocate_slice offers has room, for at least one entity.
LEMMA RoomOfChunk ==
    ASSUME IInv, NEW g \in Archetype, NEW c \in Chunk, HasRoom(g, c)
    PROVE  Len(ents[c]) \in Nat /\ Len(ents[c]) < Capacity[c] /\ Capacity[c] \in Nat
BY ConstantsAssumption DEF IInv, TypeOK, ChunksWellFilled, HasRoom

\* A call of allocate that starts has changed nothing yet.
LEMMA AllocateIInv ==
    ASSUME IInv, NEW g \in Archetype, NEW count \in 1 .. MaxCount, Allocate(g, count)
    PROVE  IInv'
<1> USE DEF Allocate, IInv
<1>1. TypeOK'
    BY Types DEF TypeOK, Call, Idle
<1>2. ChunksWellFilled'
    BY DEF ChunksWellFilled
<1>3. CallOK'
    BY DEF CallOK, Idle, TypeOK
<1>4. Coherent'
    BY DEF Coherent, MovedOut, Idle
<1>5. FreeListSound'
    BY DEF FreeListSound
<1> QED BY <1>1, <1>2, <1>3, <1>4, <1>5

\* new_entities: the ids are fresh, their records are rewritten, and no other.
LEMMA NewIdsProperties ==
    ASSUME IInv, NEW n \in Nat, size + n <= MaxIds + Len(freeList)
    PROVE  /\ Len(freeList) \in Nat
           /\ NewIds(n) \in [1 .. n -> Id]
           /\ Inj(NewIds(n))
           /\ \A i \in 1 .. n :
                 /\ NewIds(n)[i] < size + n - Smaller(n, Len(freeList))
                 /\ NewIds(n)[i] < size => i <= Len(freeList) /\ NewIds(n)[i] = freeList[i]
                 /\ i <= Len(freeList) => NewIds(n)[i] = freeList[i]
           /\ size + n - Smaller(n, Len(freeList)) \in size .. MaxIds
<1> DEFINE F == Len(freeList)
<1>1. /\ F \in Nat /\ size \in 0 .. MaxIds /\ freeList \in Seq(Id)
      /\ \A i \in 1 .. F : freeList[i] \in Id /\ freeList[i] < size
      /\ \A i, j \in 1 .. F : freeList[i] = freeList[j] => i = j
    BY DEF IInv, TypeOK, FreeListSound
<1>2. \A i \in 1 .. n : NewIds(n)[i] = IF i <= F THEN freeList[i] ELSE size + i - F - 1
    BY DEF NewIds
<1>3. MaxIds \in Nat
    BY ConstantsAssumption
<1>4. \A i \in 1 .. n : NewIds(n)[i] \in Id
    BY <1>1, <1>2, <1>3 DEF Id
<1>5. DOMAIN NewIds(n) = 1 .. n /\ NewIds(n) \in [1 .. n -> Id]
  <2> DEFINE e(i) == IF i <= Len(freeList) THEN freeList[i] ELSE size + i - Len(freeList) - 1
  <2>1. NewIds(n) = [i \in 1 .. n |-> e(i)]
    BY DEF NewIds
  <2>2. \A i \in 1 .. n : e(i) \in Id
    BY <1>2, <1>4
  <2> HIDE DEF e
  <2> QED BY <2>1, <2>2
<1>6. Inj(NewIds(n))
  <2> SUFFICES ASSUME NEW i \in 1 .. n, NEW j \in 1 .. n, NewIds(n)[i] = NewIds(n)[j]
               PROVE  i = j
    BY <1>5 DEF Inj
  <2>1. CASE i <= F /\ j <= F
    BY <2>1, <1>1, <1>2
  <2>2. CASE i > F /\ j > F
    BY <2>2, <1>1, <1>2
  <2>3. ASSUME NEW a \in 1 .. n, NEW b \in 1 .. n, a <= F, b > F
        PROVE  NewIds(n)[a] < size /\ NewIds(n)[b] >= size
    BY <2>3, <1>1, <1>2
  <2>4. NewIds(n)[i] \in Nat /\ size \in Nat
    BY <1>1, <1>4 DEF Id
  <2> QED BY <2>1, <2>2, <2>3, <2>4, <1>1
<1>7. size + n - Smaller(n, F) \in size .. MaxIds
    BY <1>1, <1>3 DEF Smaller
<1>8. \A i \in 1 .. n : NewIds(n)[i] < size + n - Smaller(n, F)
  <2> SUFFICES ASSUME NEW i \in 1 .. n
               PROVE  NewIds(n)[i] < size + n - Smaller(n, F)
    OBVIOUS
  <2>1. CASE i <= F
    <3>1. NewIds(n)[i] \in Nat /\ NewIds(n)[i] < size
      BY <2>1, <1>1, <1>2, <1>4 DEF Id
    <3> QED BY <3>1, <1>1, <1>7
  <2>2. CASE i > F
    <3>1. NewIds(n)[i] = size + i - F - 1
      BY <2>2, <1>1, <1>2
    <3>2. Smaller(n, F) = F
      BY <2>2, <1>1 DEF Smaller
    <3>3. size \in Int /\ F \in Int
      BY <1>1, <1>3
    <3> HIDE DEF F
    <3> QED BY <3>1, <3>2, <3>3
  <2> QED BY <2>1, <2>2, <1>1
<1>9. \A i \in 1 .. n : NewIds(n)[i] < size => i <= F
    BY <1>1, <1>2
<1> QED BY <1>1, <1>2, <1>5, <1>6, <1>7, <1>8, <1>9

\* One iteration of allocate takes at least one entity, as many as are still
\* asked for or as the chunk has room for, and there are ids for them.
LEMMA AllocateStepSize ==
    ASSUME IInv, NEW c \in Chunk, AllocateStep(c),
           NEW n, n = Smaller(call.count - call.k, Capacity[c] - Len(ents[c]))
    PROVE  /\ n \in Nat /\ n > 0 /\ n <= call.count - call.k
           /\ Len(ents[c]) \in Nat /\ Len(ents[c]) + n <= Capacity[c]
           /\ size + n <= MaxIds + Len(freeList)
<1> DEFINE start == Len(ents[c])
           a == call.count - call.k
           b == Capacity[c] - start
<1>1. /\ call.g \in Archetype /\ HasRoom(call.g, c)
      /\ call.count \in Nat /\ call.k \in Nat /\ call.k < call.count
      /\ size + call.count - call.k <= MaxIds + Len(freeList)
    BY DEF AllocateStep, IInv, CallOK, TypeOK, Call
<1>2. start \in Nat /\ Capacity[c] \in Nat /\ start < Capacity[c]
    BY <1>1, RoomOfChunk
<1>3. size \in Nat /\ Len(freeList) \in Nat /\ MaxIds \in Nat
    BY ConstantsAssumption DEF IInv, TypeOK
<1>4. a \in Nat /\ a > 0 /\ b \in Nat /\ b > 0
    BY <1>1, <1>2
<1> HIDE DEF a, b
<1>5. n \in Nat /\ n > 0 /\ n <= a /\ n <= b
    BY <1>4, SmallerProperties DEF a, b
<1> QED BY <1>5, <1>1, <1>2, <1>3 DEF a, b

\* One iteration of allocate: new_entities appends handles to the column and
\* writes their records; the ids are fresh, so no other handle is concerned.
LEMMA AllocateStepIInv ==
    ASSUME IInv, NEW c \in Chunk, AllocateStep(c)
    PROVE  IInv'
<1> DEFINE n == Smaller(call.count - call.k, Capacity[c] - Len(ents[c]))
           ids == NewIds(n)
           used == Smaller(n, Len(freeList))
           start == Len(ents[c])
           new(w) == [i \in 1 .. n |-> [id |-> ids[i], v |-> w[i]]]
<1>1. /\ call.op = "allocate" /\ call \in Call
      /\ call.g \in Archetype /\ HasRoom(call.g, c)
      /\ call.count \in Nat /\ call.k \in Nat /\ call.k < call.count
      /\ size + call.count - call.k <= MaxIds + Len(freeList)
    BY DEF AllocateStep, IInv, CallOK, TypeOK, Call
<1>2. start \in Nat /\ Capacity[c] \in Nat /\ start < Capacity[c]
    BY <1>1, RoomOfChunk
<1>3. size \in Nat /\ Len(freeList) \in Nat /\ MaxIds \in Nat
    BY ConstantsAssumption DEF IInv, TypeOK
<1>4. /\ n \in Nat /\ n > 0 /\ n <= call.count - call.k
      /\ start + n <= Capacity[c]
      /\ size + n <= MaxIds + Len(freeList)
    BY AllocateStepSize
<1>5. PICK w \in NewVersions(n) :
          /\ ents' = [ents EXCEPT ![c] = @ \o new(w)]
          /\ datas' = [id \in Id |->
                         IF Among(ids, id)
                         THEN [c |-> c, i |-> start + PlaceOf(ids, id) - 1,
                               v |-> w[PlaceOf(ids, id)]]
                         ELSE datas[id]]
          /\ issued' = [id \in Id |->
                         IF Among(ids, id)
                         THEN Append(issued[id], w[PlaceOf(ids, id)])
                         ELSE issued[id]]
          /\ size' = size + n - used
          /\ freeList' = SubSeq(freeList, used + 1, Len(freeList))
    BY DEF AllocateStep, NewEntities
<1>6. /\ typeOf' = [typeOf EXCEPT ![c] = call.g]
      /\ call' = IF call.k + n = call.count THEN Idle ELSE [call EXCEPT !.k = @ + n]
    BY DEF AllocateStep
<1>7. /\ ids \in [1 .. n -> Id] /\ Inj(ids)
      /\ \A i \in 1 .. n : /\ ids[i] < size + n - used
                           /\ ids[i] < size => i <= Len(freeList) /\ ids[i] = freeList[i]
                           /\ i <= Len(freeList) => ids[i] = freeList[i]
      /\ size + n - used \in size .. MaxIds
    BY <1>4, NewIdsProperties
<1>8. w \in [1 .. n -> Version]
    BY DEF NewVersions
<1> HIDE DEF n
<1> HIDE DEF ids
<1>9. \A id \in Id : Among(ids, id) => PlaceOf(ids, id) \in 1 .. n /\ ids[PlaceOf(ids, id)] = id
    BY <1>7, PlaceOfAmong
<1>10. \A i \in 1 .. n : Among(ids, ids[i]) /\ PlaceOf(ids, ids[i]) = i
    BY <1>7, PlaceOfMember
<1>11. /\ new(w) \in Seq(Handle) /\ Len(new(w)) = n
       /\ \A i \in 1 .. n : new(w)[i] = [id |-> ids[i], v |-> w[i]]
    BY <1>4, <1>7, <1>8 DEF Handle
<1> HIDE DEF new
<1>12. /\ ents \in [Chunk -> Seq(Handle)]
       /\ ents'[c] \in Seq(Handle) /\ Len(ents'[c]) = start + n
       /\ \A j \in 1 .. start : ents'[c][j] = ents[c][j]
       /\ \A j \in start + 1 .. start + n :
              ents'[c][j] = [id |-> ids[j - start], v |-> w[j - start]]
       /\ \A d \in Chunk : d # c => ents'[d] = ents[d]
  <2>1. ents \in [Chunk -> Seq(Handle)]
    BY DEF IInv, TypeOK
  <2>2. ents'[c] = ents[c] \o new(w)
    BY <1>5, <2>1
  <2>3. ents[c] \in Seq(Handle) /\ start = Len(ents[c])
    BY <2>1
  <2>4. /\ ents'[c] \in Seq(Handle) /\ Len(ents'[c]) = start + n
        /\ \A j \in 1 .. start + n :
              ents'[c][j] = IF j <= start THEN ents[c][j] ELSE new(w)[j - start]
    <3> DEFINE s == ents[c]
               t == new(w)
    <3>1. s \in Seq(Handle) /\ t \in Seq(Handle)
      BY <2>3, <1>11
    <3> HIDE DEF s, t
    <3>2. /\ s \o t \in Seq(Handle)
          /\ Len(s \o t) = Len(s) + Len(t)
          /\ \A i \in 1 .. Len(s) + Len(t) :
                (s \o t)[i] = IF i <= Len(s) THEN s[i] ELSE t[i - Len(s)]
      BY <3>1, ConcatProperties
    <3> QED BY <3>2, <2>2, <1>11 DEF s, t
  <2>5. \A j \in start + 1 .. start + n : j - start \in 1 .. n /\ ~ j <= start
    BY <1>2, <1>4
  <2>6. \A d \in Chunk : d # c => ents'[d] = ents[d]
    BY <1>5, <2>1
  <2>7. \A j \in 1 .. start : j \in 1 .. start + n /\ j <= start
    BY <1>2, <1>4
  <2>8. \A j \in start + 1 .. start + n : j \in 1 .. start + n
    BY <1>2, <1>4
  <2> HIDE DEF start
  <2> QED BY <2>1, <2>4, <2>5, <2>6, <2>7, <2>8, <1>11
<1>13. used \in 0 .. Len(freeList) /\ used <= n
    BY <1>3, <1>4 DEF Smaller
<1>14. /\ freeList' \in Seq(Id) /\ Len(freeList') = Len(freeList) - used
       /\ \A i \in 1 .. Len(freeList) - used : freeList'[i] = freeList[i + used]
  <2>1. freeList \in Seq(Id)
    BY DEF IInv, TypeOK
  <2> QED BY <2>1, <1>5, <1>13
<1>15. TypeOK'
  <2>1. typeOf' \in [Chunk -> Archetype \cup {NoArchetype}]
    BY <1>1, <1>6 DEF IInv, TypeOK
  <2>2. ents' \in [Chunk -> Seq(Handle)]
    BY <1>5, <1>12
  <2>3. datas' \in [Id -> Record]
    BY <1>2, <1>5, <1>8, <1>9 DEF IInv, TypeOK, Record
  <2>4. issued' \in [Id -> Seq(Version)]
    BY <1>5, <1>8, <1>9 DEF IInv, TypeOK
  <2>5. call' \in Call
    <3>1. call.k + n \in Nat
      BY <1>1, <1>4
    <3>2. [call EXCEPT !.k = @ + n] \in Call
      BY <3>1, <1>1 DEF Call
    <3> QED BY <3>2, <1>6, Types
  <2>6. size' \in 0 .. MaxIds
    BY <1>3, <1>5, <1>7
  <2> QED BY <2>1, <2>2, <2>3, <2>4, <2>5, <2>6, <1>14 DEF TypeOK
<1>16. ChunksWellFilled'
  <2>1. \A d \in Chunk : d # c => ents'[d] = ents[d] /\ typeOf'[d] = typeOf[d]
    BY <1>6, <1>12 DEF IInv, TypeOK
  <2>2. typeOf'[c] = call.g /\ ents'[c] # <<>> /\ Len(ents'[c]) <= Capacity[c]
    BY <1>1, <1>2, <1>4, <1>6, <1>12 DEF IInv, TypeOK
  <2>3. call.g # NoArchetype
    BY <1>1, ConstantsAssumption
  <2> QED BY <2>1, <2>2, <2>3 DEF ChunksWellFilled, IInv
<1>17. CallOK'
  <2>1. CASE call.k + n = call.count
    BY <2>1, <1>6 DEF CallOK, Idle
  <2>2. CASE call.k + n # call.count
    <3>1. call'.op = "allocate" /\ call'.g = call.g /\ call'.count = call.count /\ call'.k = call.k + n
      BY <2>2, <1>1, <1>6 DEF Call
    <3>2. call'.k < call'.count
      BY <3>1, <2>2, <1>1, <1>4
    <3>3. size' + call'.count - call'.k <= MaxIds + Len(freeList')
      <4>1. size + n - used + call.count - (call.k + n)
                <= MaxIds + (Len(freeList) - used)
        <5>1. /\ size \in Nat /\ n \in Nat /\ used \in Nat /\ call.count \in Nat
              /\ call.k \in Nat /\ Len(freeList) \in Nat /\ MaxIds \in Nat
              /\ size + call.count - call.k <= MaxIds + Len(freeList)
          BY <1>1, <1>3, <1>4, <1>13
        <5> HIDE DEF used
        <5> QED BY <5>1, ClaimArithmetic
      <4> QED BY <4>1, <3>1, <1>5, <1>14
    <3> QED BY <3>1, <3>2, <3>3, <1>1 DEF CallOK
  <2> QED BY <2>1, <2>2
<1>18. \A d \in Chunk : MovedOut(d) = {} /\ MovedOut(d)' = {}
  <2>1. call'.op # "cast"
    BY <1>1, <1>6 DEF Idle, Call
  <2> QED BY <1>1, <2>1 DEF MovedOut
<1>19. Coherent'
  <2> SUFFICES ASSUME NEW d \in Chunk, NEW j \in 1 .. Len(ents'[d])
               PROVE  /\ ents'[d][j].id < size'
                      /\ datas'[ents'[d][j].id] = [c |-> d, i |-> j - 1, v |-> ents'[d][j].v]
    BY DEF Coherent
  <2>1. CASE d = c /\ j > start
    <3>1. j - start \in 1 .. n
      BY <2>1, <1>2, <1>4, <1>12
    <3>2. ents'[d][j] = [id |-> ids[j - start], v |-> w[j - start]]
      BY <2>1, <1>12, <3>1, <1>2
    <3>3. ids[j - start] \in Id /\ PlaceOf(ids, ids[j - start]) = j - start /\ Among(ids, ids[j - start])
      BY <3>1, <1>7, <1>10
    <3>4. datas'[ids[j - start]] = [c |-> c, i |-> start + (j - start) - 1, v |-> w[j - start]]
      BY <3>3, <1>5
    <3>5. start + (j - start) - 1 = j - 1
      BY <1>2
    <3> QED BY <3>1, <3>2, <3>4, <3>5, <2>1, <1>5, <1>7
  <2>2. CASE ~ (d = c /\ j > start)
    <3>1. j \in 1 .. Len(ents[d]) /\ ents'[d][j] = ents[d][j]
      BY <2>2, <1>2, <1>4, <1>12
    <3>2. ents[d][j] \in Handle
      BY <3>1, <1>12
    <3>3. /\ ents[d][j].id < size
          /\ datas[ents[d][j].id] = [c |-> d, i |-> j - 1, v |-> ents[d][j].v]
      BY <3>1, <1>18 DEF IInv, Coherent
    <3>4. ~ Among(ids, ents[d][j].id)
      <4> SUFFICES ASSUME NEW i \in 1 .. n, ids[i] = ents[d][j].id PROVE FALSE
        BY <1>7 DEF Among
      <4>1. i \in 1 .. Len(freeList) /\ freeList[i] = ents[d][j].id
        BY <3>3, <1>7
      <4>2. datas[freeList[i]].c = NoChunk
        BY <4>1 DEF IInv, FreeListSound
      <4> QED BY <4>1, <4>2, <3>3, ConstantsAssumption
    <3>5. ents[d][j].id \in Id
      BY <3>2 DEF Handle
    <3>6. ents[d][j].id < size'
      BY <3>3, <3>5, <1>3, <1>5, <1>7 DEF Id
    <3> QED BY <3>1, <3>3, <3>4, <3>5, <3>6, <1>5
  <2> QED BY <2>1, <2>2
<1>20. FreeListSound'
  <2>1. ASSUME NEW i \in 1 .. Len(freeList')
        PROVE  freeList'[i] < size' /\ datas'[freeList'[i]].c = NoChunk
    <3> DEFINE k == i + used
    <3>1. k \in 1 .. Len(freeList) /\ freeList'[i] = freeList[k] /\ k > used
      BY <1>3, <1>13, <1>14
    <3>2. freeList[k] < size /\ datas[freeList[k]].c = NoChunk /\ freeList[k] \in Id
      BY <3>1 DEF IInv, FreeListSound, TypeOK
    <3>3. ~ Among(ids, freeList[k])
      <4> SUFFICES ASSUME NEW m \in 1 .. n, ids[m] = freeList[k] PROVE FALSE
        BY <1>7 DEF Among
      <4>1. m \in 1 .. Len(freeList) /\ freeList[m] = freeList[k]
        BY <3>2, <1>7
      <4>2. m = k
        BY <4>1, <3>1 DEF IInv, FreeListSound
      <4> QED BY <4>1, <4>2, <3>1, <1>3, <1>4 DEF Smaller
    <3>4. freeList[k] < size'
      BY <3>2, <1>3, <1>5, <1>7 DEF Id
    <3> QED BY <3>1, <3>2, <3>3, <3>4, <1>5
  <2>2. ASSUME NEW i \in 1 .. Len(freeList'), NEW j \in 1 .. Len(freeList'),
               freeList'[i] = freeList'[j]
        PROVE  i = j
    <3>1. i + used \in 1 .. Len(freeList) /\ j + used \in 1 .. Len(freeList)
      BY <1>3, <1>13, <1>14
    <3>2. freeList[i + used] = freeList[j + used]
      BY <2>2, <1>14
    <3>3. i + used = j + used
      BY <3>1, <3>2 DEF IInv, FreeListSound
    <3> QED BY <3>3, <1>13
  <2> QED BY <2>1, <2>2 DEF FreeListSound
<1> QED BY <1>15, <1>16, <1>17, <1>19, <1>20 DEF IInv

-----------------------------------------------------------------------------
(* Moving handles between columns.                                         *)

\* The record of the handle at place j of chunk c is right, in table d and
\* columns e.
RightIn(d, e, c, j) == d[e[c][j].id] = [c |-> c, i |-> j - 1, v |-> e[c][j].v]

\* Every handle's record is right, but for the places in Out.
AllRight(d, e, Out) ==
    \A c \in Chunk : \A j \in 1 .. Len(e[c]) :
        <<c, j>> \notin Out => RightIn(d, e, c, j)

\* Out names none of the places lo .. hi of chunk c.
Inside(Out, c, lo, hi) == \A j \in lo .. hi : <<c, j>> \notin Out

\* Handles whose records are right have different ids.
LEMMA RightInjective ==
    ASSUME NEW d, NEW e, NEW c1, NEW j1 \in Int, NEW c2, NEW j2 \in Int,
           RightIn(d, e, c1, j1), RightIn(d, e, c2, j2),
           e[c1][j1].id = e[c2][j2].id
    PROVE  c1 = c2 /\ j1 = j2
<1>1. d[e[c1][j1].id].c = c1 /\ d[e[c1][j1].id].i = j1 - 1
    BY DEF RightIn
<1>2. d[e[c1][j1].id].c = c2 /\ d[e[c1][j1].id].i = j2 - 1
    BY DEF RightIn
<1> QED BY <1>1, <1>2

\* The ids of a part of a column whose records are right are all different.
LEMMA IdsOfProperties ==
    ASSUME NEW hs \in Seq(Handle)
    PROVE  /\ DOMAIN IdsOf(hs) = 1 .. Len(hs)
           /\ \A i \in 1 .. Len(hs) : IdsOf(hs)[i] = hs[i].id /\ IdsOf(hs)[i] \in Id
<1>1. /\ Len(hs) \in Nat /\ DOMAIN hs = 1 .. Len(hs)
      /\ \A i \in 1 .. Len(hs) : hs[i] \in Handle
    BY LenProperties
<1>2. \A i \in 1 .. Len(hs) : IdsOf(hs)[i] = hs[i].id
    BY <1>1 DEF IdsOf
<1>3. \A h \in Handle : h.id \in Id
    BY DEF Handle
<1> QED BY <1>1, <1>2, <1>3 DEF IdsOf

\* The handles a move takes from src, and the column of dst after it.
Taken(e, src, m, n) == SubSeq(e[src], m + 1, m + n)
Joined(e, dst, hs) == e[dst] \o hs

\* Column col of dst holds the handles moved there, and the table d2 is right
\* for them and for everything that was right before and did not move.
MoveOK(e, d, src, dst, m, n, Out, col, d2) ==
    /\ d2 \in [Id -> Record]
    /\ \A id \in Id : d2[id].v = d[id].v
    /\ \A id \in Id : d[id].c = NoChunk => d2[id] = d[id]
    /\ col \in Seq(Handle) /\ Len(col) = Len(e[dst]) + n
    /\ \A j \in 1 .. Len(col) : RightIn(d2, [e EXCEPT ![dst] = col], dst, j)
    /\ \A j \in 1 .. Len(e[dst]) : col[j] = e[dst][j]
    /\ \A j \in Len(e[dst]) + 1 .. Len(e[dst]) + n :
          col[j] = e[src][m + (j - Len(e[dst]))]
    /\ \A c \in Chunk \ {dst} : \A j \in 1 .. Len(e[c]) :
          /\ <<c, j>> \notin Out
          /\ ~ (c = src /\ j \in m + 1 .. m + n)
          => RightIn(d2, e, c, j)

\* move_entities: n handles from place m of src are appended to dst and the
\* table follows.  Everything else that was right stays right.
LEMMA MoveEntities ==
    ASSUME NEW e \in [Chunk -> Seq(Handle)], NEW d \in [Id -> Record],
           NEW src \in Chunk, NEW dst \in Chunk, src # dst,
           NEW m \in Nat, NEW n \in Nat, m + n <= Len(e[src]),
           NEW Out, AllRight(d, e, Out),
           Inside(Out, src, m + 1, m + n), Inside(Out, dst, 1, Len(e[dst])),
           NEW moved, moved = Taken(e, src, m, n),
           NEW col, col = Joined(e, dst, moved),
           NEW d2, d2 = PlaceAt(d, IdsOf(moved), dst, Len(e[dst]))
    PROVE  MoveOK(e, d, src, dst, m, n, Out, col, d2)
<1> DEFINE ids == IdsOf(moved)
           L == Len(e[dst])
           s == e[dst]
           e2 == [e EXCEPT ![dst] = col]
<1>1. /\ moved \in Seq(Handle) /\ Len(moved) = n
      /\ \A i \in 1 .. n : moved[i] = e[src][m + i]
  <2>1. e[src] \in Seq(Handle)
    OBVIOUS
  <2> QED BY <2>1, PartProperties DEF Taken
<1>2. /\ DOMAIN ids = 1 .. n
      /\ \A i \in 1 .. n : ids[i] = e[src][m + i].id /\ ids[i] \in Id
  <2>1. /\ DOMAIN ids = 1 .. n
        /\ \A i \in 1 .. n : ids[i] = moved[i].id /\ ids[i] \in Id
    BY <1>1, IdsOfProperties
  <2>2. \A i \in 1 .. n : moved[i].id = e[src][m + i].id
    BY <1>1
  <2> QED BY <2>1, <2>2
<1>3. \A i \in 1 .. n : RightIn(d, e, src, m + i)
  <2> TAKE i \in 1 .. n
  <2>1. m + i \in m + 1 .. m + n /\ m + i \in 1 .. Len(e[src])
    OBVIOUS
  <2> QED BY <2>1 DEF AllRight, Inside
<1>4. Inj(ids)
  <2> SUFFICES ASSUME NEW i \in 1 .. n, NEW j \in 1 .. n, ids[i] = ids[j]
               PROVE  i = j
    BY <1>2 DEF Inj
  <2>1. e[src][m + i].id = e[src][m + j].id /\ m + i \in Int /\ m + j \in Int
    BY <1>2
  <2>2. m + i = m + j
    BY <2>1, <1>3, RightInjective
  <2> QED BY <2>2
<1> HIDE DEF ids
<1>5. \A i \in 1 .. n : Among(ids, ids[i]) /\ PlaceOf(ids, ids[i]) = i
    BY <1>2, <1>4, PlaceOfMember
<1>6. \A id : Among(ids, id) => PlaceOf(ids, id) \in 1 .. n /\ ids[PlaceOf(ids, id)] = id
    BY <1>2, PlaceOfAmong
<1>7. L \in Nat /\ s \in Seq(Handle) /\ Len(s) = L
    OBVIOUS
<1>8. d2 = [id \in Id |-> IF Among(ids, id)
                   THEN [c |-> dst, i |-> L + PlaceOf(ids, id) - 1, v |-> d[id].v]
                   ELSE d[id]]
    BY DEF PlaceAt, ids
<1>9. AllRight(d, e, Out) /\ Inside(Out, dst, 1, L)
    OBVIOUS
<1> HIDE DEF L, s
<1>10. d2 \in [Id -> Record]
  <2> SUFFICES ASSUME NEW id \in Id, Among(ids, id)
               PROVE  [c |-> dst, i |-> L + PlaceOf(ids, id) - 1, v |-> d[id].v] \in Record
    BY <1>8
  <2>1. L + PlaceOf(ids, id) - 1 \in Nat
    BY <1>6, <1>7
  <2>2. d[id].v \in Version
    BY DEF Record
  <2> QED BY <2>1, <2>2 DEF Record
<1>11. \A id \in Id : d2[id].v = d[id].v
  <2> TAKE id \in Id
  <2>1. CASE Among(ids, id)
    <3>1. d2[id] = [c |-> dst, i |-> L + PlaceOf(ids, id) - 1, v |-> d[id].v]
      BY <1>8, <2>1
    <3> QED BY <3>1
  <2>2. CASE ~ Among(ids, id)
    BY <1>8, <2>2
  <2> QED BY <2>1, <2>2
<1>12. \A i \in 1 .. n : d[ids[i]].c = src
  <2> TAKE i \in 1 .. n
  <2> DEFINE k == m + i
  <2>1. d[e[src][k].id] = [c |-> src, i |-> k - 1, v |-> e[src][k].v]
    <3>1. RightIn(d, e, src, k)
      BY <1>3
    <3> HIDE DEF k
    <3> QED BY <3>1 DEF RightIn
  <2>2. ids[i] = e[src][m + i].id
    BY <1>2
  <2> QED BY <2>1, <2>2
<1>13. \A id \in Id : d[id].c = NoChunk => d2[id] = d[id]
  <2>1. src # NoChunk
    BY ConstantsAssumption
  <2> QED BY <2>1, <1>6, <1>8, <1>12
<1>14. /\ col \in Seq(Handle) /\ Len(col) = L + n
       /\ \A j \in 1 .. L + n : col[j] = IF j <= L THEN s[j] ELSE moved[j - L]
  <2>1. col = s \o moved
    BY DEF s, Joined
  <2>2. /\ s \o moved \in Seq(Handle)
        /\ Len(s \o moved) = Len(s) + Len(moved)
        /\ \A j \in 1 .. Len(s) + Len(moved) :
              (s \o moved)[j] = IF j <= Len(s) THEN s[j] ELSE moved[j - Len(s)]
    BY <1>1, <1>7, ConcatProperties, ZenonT(40)
  <2> QED BY <2>1, <2>2, <1>1, <1>7
<1>15. /\ \A j \in 1 .. L : col[j] = s[j]
       /\ \A j \in L + 1 .. L + n : col[j] = e[src][m + (j - L)]
  <2>1. \A j \in 1 .. L : j \in 1 .. L + n /\ j <= L
    BY <1>7
  <2>2. \A j \in L + 1 .. L + n : j \in 1 .. L + n /\ ~ j <= L /\ j - L \in 1 .. n
    BY <1>7
  <2> QED BY <2>1, <2>2, <1>1, <1>14
<1>16. e2[dst] = col /\ \A c \in Chunk \ {dst} : e2[c] = e[c]
    OBVIOUS
<1> HIDE DEF e2
<1>17. ASSUME NEW j \in L + 1 .. L + n PROVE RightIn(d2, e2, dst, j)
  <2>1. j - L \in 1 .. n /\ L + (j - L) - 1 = j - 1
    BY <1>7
  <2>2. col[j] = e[src][m + (j - L)] /\ ids[j - L] = col[j].id /\ ids[j - L] \in Id
    BY <2>1, <1>2, <1>15
  <2>3. d2[ids[j - L]] = [c |-> dst, i |-> j - 1, v |-> d[ids[j - L]].v]
    BY <2>1, <2>2, <1>5, <1>8
  <2>4. d[ids[j - L]].v = col[j].v
    <3> DEFINE k == m + (j - L)
    <3>1. RightIn(d, e, src, k)
      BY <2>1, <1>3
    <3>2. ids[j - L] = e[src][k].id /\ col[j] = e[src][k]
      BY <2>1, <2>2, <1>2
    <3> HIDE DEF k
    <3> QED BY <3>1, <3>2 DEF RightIn
  <2> QED BY <2>2, <2>3, <2>4, <1>16 DEF RightIn
<1>18. ASSUME NEW c \in Chunk, NEW j \in 1 .. Len(e[c]), <<c, j>> \notin Out,
              ~ (c = src /\ j \in m + 1 .. m + n)
       PROVE  RightIn(d2, e, c, j)
  <2>1. RightIn(d, e, c, j)
    BY <1>18, <1>9 DEF AllRight
  <2>2. e[c][j] \in Handle
    BY <1>18, ElementOfSeq
  <2>3. e[c][j].id \in Id
    BY <2>2 DEF Handle
  <2>4. ~ Among(ids, e[c][j].id)
    <3> SUFFICES ASSUME NEW i \in 1 .. n, ids[i] = e[c][j].id PROVE FALSE
      BY <1>2 DEF Among
    <3>1. RightIn(d, e, src, m + i) /\ e[src][m + i].id = e[c][j].id
      BY <1>2, <1>3
    <3>2. c = src /\ j = m + i
      BY <3>1, <2>1, RightInjective
    <3> QED BY <3>2, <1>18
  <2> QED BY <2>1, <2>3, <2>4, <1>8 DEF RightIn
<1>19. ASSUME NEW j \in 1 .. L PROVE RightIn(d2, e2, dst, j)
  <2>1. j \in 1 .. Len(e[dst]) /\ <<dst, j>> \notin Out
    BY <1>9 DEF Inside, L
  <2>2. RightIn(d2, e, dst, j)
    BY <2>1, <1>18
  <2>3. e2[dst][j] = e[dst][j]
    BY <1>15, <1>16 DEF s
  <2> QED BY <2>2, <2>3 DEF RightIn
<1>20. \A j \in 1 .. Len(col) : RightIn(d2, e2, dst, j)
  <2>1. \A j \in 1 .. Len(col) : j \in 1 .. L \/ j \in L + 1 .. L + n
    BY <1>7, <1>14
  <2> QED BY <2>1, <1>17, <1>19
<1> QED BY <1>10, <1>11, <1>13, <1>14, <1>15, <1>18, <1>20 DEF L, s, e2, MoveOK

-----------------------------------------------------------------------------
(* Filling the hole that a slice leaves.                                   *)

Hole(c, start, count) == {<<c, j>> : j \in start + 1 .. start + count}

\* The column after a hole was filled: n of its handles come from the end, the
\* others stay, and none comes from the hole.
FilledOK(c, start, count, n, col) ==
    /\ n \in Nat /\ n <= count /\ start + count + n <= Len(ents[c])
    /\ col \in Seq(Handle) /\ Len(col) = Len(ents[c]) - count
    /\ \A j \in 1 .. Len(col) :
          \/ /\ j \in start + 1 .. start + n
             /\ col[j] = ents[c][Len(ents[c]) - n + (j - start)]
          \/ /\ j \notin start + 1 .. start + n
             /\ col[j] = ents[c][j]
             /\ j \in 1 .. Len(ents[c]) - n
             /\ j \notin start + 1 .. start + count

\* The column after free_slice: where each of its handles comes from.
LEMMA FilledProperties ==
    ASSUME ents \in [Chunk -> Seq(Handle)],
           NEW c \in Chunk, NEW start \in Nat, NEW count \in Nat,
           start + count <= Len(ents[c]),
           NEW n, n = TailLength(c, start, count),
           NEW col, col = Filled(c, start, count)
    PROVE  FilledOK(c, start, count, n, col)
<1> DEFINE L == Len(ents[c])
           s == ents[c]
<1>1. s \in Seq(Handle) /\ L \in Nat /\ L = Len(s) /\ start + count <= L
    OBVIOUS
<1>2. \A j \in 1 .. L : s[j] \in Handle
    BY <1>1
<1>3. /\ n \in Nat /\ n <= count /\ start + count + n <= L
      /\ n = count \/ start + count + n = L
  <2>1. n = IF count < L - start - count THEN count ELSE L - start - count
    BY DEF TailLength, Smaller
  <2>2. start + count <= L /\ L \in Nat
    BY <1>1
  <2> HIDE DEF L
  <2> QED BY <2>1, <2>2
<1>4. col = [j \in 1 .. L - count |->
                IF start < j /\ j <= start + n THEN s[L - n + (j - start)] ELSE s[j]]
    BY DEF Filled
<1> HIDE DEF L, s
<1>6. \A j \in 1 .. L - count : start < j /\ j <= start + n => L - n + (j - start) \in 1 .. L
    BY <1>1, <1>3
<1>7. \A j \in 1 .. L - count : j \in 1 .. L
    BY <1>1
<1>8. col \in Seq(Handle) /\ Len(col) = L - count
  <2>1. \A j \in 1 .. L - count :
            (IF start < j /\ j <= start + n THEN s[L - n + (j - start)] ELSE s[j]) \in Handle
    BY <1>2, <1>6, <1>7
  <2>2. L - count \in Nat
    BY <1>1
  <2> QED BY <1>4, <2>1, <2>2
<1>9. ASSUME NEW j \in 1 .. L - count
      PROVE  \/ /\ j \in start + 1 .. start + n
                /\ col[j] = s[L - n + (j - start)]
             \/ /\ j \notin start + 1 .. start + n
                /\ col[j] = s[j]
                /\ j \in 1 .. L - n
                /\ j \notin start + 1 .. start + count
  <2>1. CASE start < j /\ j <= start + n
    <3>1. j \in start + 1 .. start + n
      BY <2>1, <1>3
    <3>2. col[j] = s[L - n + (j - start)]
      BY <2>1, <1>4
    <3> QED BY <3>1, <3>2
  <2>2. CASE ~ (start < j /\ j <= start + n)
    <3>1. j \notin start + 1 .. start + n
      BY <2>2
    <3>2. col[j] = s[j]
      BY <2>2, <1>4
    <3>3. j \in 1 .. L - n /\ j \notin start + 1 .. start + count
      BY <2>2, <1>1, <1>3
    <3> QED BY <3>1, <3>2, <3>3
  <2> QED BY <2>1, <2>2
<1> QED BY <1>3, <1>8, <1>9 DEF L, s, FilledOK

\* The handles at the end of the column that free_slice moves into the hole.
LEMMA TailProperties ==
    ASSUME ents \in [Chunk -> Seq(Handle)],
           NEW c \in Chunk, NEW start \in Nat, NEW count \in Nat,
           start + count <= Len(ents[c]),
           NEW n, n = TailLength(c, start, count)
    PROVE  LET t == Tail_(c, start, count)
           IN  /\ t \in Seq(Handle) /\ Len(t) = n
               /\ \A i \in 1 .. n : t[i] = ents[c][Len(ents[c]) - n + i]
<1>1. n \in Nat /\ n <= count /\ start + count + n <= Len(ents[c])
  <2>1. FilledOK(c, start, count, n, Filled(c, start, count))
    BY FilledProperties
  <2> QED BY <2>1 DEF FilledOK
<1> DEFINE s == ents[c]
           m == Len(s) - n
<1>2. s \in Seq(Handle) /\ m \in Nat /\ m + n = Len(s) /\ n \in Nat
    BY <1>1
<1>3. Tail_(c, start, count) = SubSeq(s, m + 1, m + n)
    BY <1>2 DEF Tail_
<1> HIDE DEF m, s
<1>4. /\ SubSeq(s, m + 1, m + n) \in Seq(Handle)
      /\ Len(SubSeq(s, m + 1, m + n)) = n
      /\ \A i \in 1 .. n : SubSeq(s, m + 1, m + n)[i] = s[m + i]
    BY <1>2, PartProperties
<1> QED BY <1>3, <1>4 DEF m, s

\* The hole is filled with handles of the column, and the table d2 is right.
FillOK(d, d2, c, start, count, col) ==
    /\ d2 \in [Id -> Record]
    /\ \A id \in Id : d2[id].v = d[id].v /\ d2[id].c = d[id].c
    /\ col \in Seq(Handle) /\ Len(col) = Len(ents[c]) - count
    /\ \A j \in 1 .. Len(col) : RightIn(d2, [ents EXCEPT ![c] = col], c, j)
    /\ \A j \in 1 .. Len(col) : \E k \in 1 .. Len(ents[c]) :
          k \notin start + 1 .. start + count /\ col[j] = ents[c][k]
    /\ \A b \in Chunk \ {c} : \A j \in 1 .. Len(ents[b]) : RightIn(d2, ents, b, j)

\* fill_entities: when every record outside the hole is right, every record
\* is right once the hole is filled and the moved handles are reindexed.
LEMMA FillEntities ==
    ASSUME ents \in [Chunk -> Seq(Handle)], NEW d \in [Id -> Record],
           NEW c \in Chunk, NEW start \in Nat, NEW count \in Nat,
           start + count <= Len(ents[c]),
           AllRight(d, ents, Hole(c, start, count)),
           NEW col, col = Filled(c, start, count),
           NEW d2, d2 = Reindex(d, IdsOf(Tail_(c, start, count)), start)
    PROVE  FillOK(d, d2, c, start, count, col)
<1> DEFINE L == Len(ents[c])
           n == TailLength(c, start, count)
           ids == IdsOf(Tail_(c, start, count))
           e2 == [ents EXCEPT ![c] = col]
<1>1. /\ n \in Nat /\ n <= count /\ start + count + n <= L
      /\ col \in Seq(Handle) /\ Len(col) = L - count
      /\ \A j \in 1 .. Len(col) :
            \/ /\ j \in start + 1 .. start + n
               /\ col[j] = ents[c][L - n + (j - start)]
            \/ /\ j \notin start + 1 .. start + n
               /\ col[j] = ents[c][j]
               /\ j \in 1 .. L - n
               /\ j \notin start + 1 .. start + count
  <2> HIDE DEF AllRight
  <2> HIDE DEF n
  <2>1. n = TailLength(c, start, count)
    BY DEF n
  <2> HIDE DEF L, ids, e2
  <2>2. FilledOK(c, start, count, n, col)
    BY <2>1, FilledProperties
  <2> QED BY <2>2 DEF FilledOK, L
<1>2. L \in Nat
    OBVIOUS
<1>3. /\ DOMAIN ids = 1 .. n
      /\ \A i \in 1 .. n : ids[i] = ents[c][L - n + i].id /\ ids[i] \in Id
  <2> DEFINE t == Tail_(c, start, count)
  <2>1. /\ t \in Seq(Handle) /\ Len(t) = n
        /\ \A i \in 1 .. n : t[i] = ents[c][L - n + i]
    BY TailProperties
  <2> HIDE DEF t
  <2>2. /\ DOMAIN IdsOf(t) = 1 .. n
        /\ \A i \in 1 .. n : IdsOf(t)[i] = t[i].id /\ IdsOf(t)[i] \in Id
    BY <2>1, IdsOfProperties
  <2>3. \A i \in 1 .. n : t[i].id = ents[c][L - n + i].id
    BY <2>1
  <2> QED BY <2>2, <2>3 DEF t
<1>4. d2 = [id \in Id |-> IF Among(ids, id)
                   THEN [c |-> d[id].c, i |-> start + PlaceOf(ids, id) - 1, v |-> d[id].v]
                   ELSE d[id]]
    BY DEF Reindex
<1> HIDE DEF n, ids
<1>5. \A k \in 1 .. L : k \notin start + 1 .. start + count => RightIn(d, ents, c, k)
  <2> SUFFICES ASSUME NEW k \in 1 .. L, k \notin start + 1 .. start + count
               PROVE  <<c, k>> \notin Hole(c, start, count)
    BY DEF AllRight
  <2> QED BY DEF Hole
<1>6. \A b \in Chunk \ {c} : \A j \in 1 .. Len(ents[b]) : RightIn(d, ents, b, j)
  <2> SUFFICES ASSUME NEW b \in Chunk \ {c}, NEW j \in 1 .. Len(ents[b])
               PROVE  <<b, j>> \notin Hole(c, start, count)
    BY DEF AllRight
  <2> QED BY DEF Hole
<1> HIDE DEF L
<1>7. \A i \in 1 .. n : /\ L - n + i \in 1 .. L
                        /\ L - n + i \notin start + 1 .. start + count
    BY <1>1, <1>2
<1>8. \A i \in 1 .. n : RightIn(d, ents, c, L - n + i)
    BY <1>5, <1>7
<1>9. Inj(ids)
  <2> SUFFICES ASSUME NEW i \in 1 .. n, NEW j \in 1 .. n, ids[i] = ids[j]
               PROVE  i = j
    BY <1>3 DEF Inj
  <2>1. ents[c][L - n + i].id = ents[c][L - n + j].id
    BY <1>3
  <2>2. L - n + i \in Int /\ L - n + j \in Int
    BY <1>7
  <2>3. L - n + i = L - n + j
    BY <2>1, <2>2, <1>8, RightInjective
  <2> QED BY <2>3, <1>1, <1>2
<1>10. \A i \in 1 .. n : Among(ids, ids[i]) /\ PlaceOf(ids, ids[i]) = i
    BY <1>3, <1>9, PlaceOfMember
<1>11. \A id : Among(ids, id) => PlaceOf(ids, id) \in 1 .. n /\ ids[PlaceOf(ids, id)] = id
    BY <1>3, PlaceOfAmong
<1>12. d2 \in [Id -> Record]
  <2> SUFFICES ASSUME NEW id \in Id, Among(ids, id)
               PROVE  [c |-> d[id].c, i |-> start + PlaceOf(ids, id) - 1, v |-> d[id].v] \in Record
    BY <1>4
  <2>1. start + PlaceOf(ids, id) - 1 \in Nat
    BY <1>11
  <2>2. d[id].v \in Version /\ d[id].c \in Chunk \cup {NoChunk}
    BY DEF Record
  <2> QED BY <2>1, <2>2 DEF Record
<1>13. \A id \in Id : d2[id].v = d[id].v /\ d2[id].c = d[id].c
  <2> TAKE id \in Id
  <2>1. CASE Among(ids, id)
    <3>1. d2[id] = [c |-> d[id].c, i |-> start + PlaceOf(ids, id) - 1, v |-> d[id].v]
      BY <1>4, <2>1
    <3> QED BY <3>1
  <2>2. CASE ~ Among(ids, id)
    BY <1>4, <2>2
  <2> QED BY <2>1, <2>2
\* A handle that is right and is not moved stays right.
<1>14. ASSUME NEW b \in Chunk, NEW j \in 1 .. Len(ents[b]), RightIn(d, ents, b, j),
              b = c => j \in 1 .. L - n
       PROVE  RightIn(d2, ents, b, j)
  <2>1. ents[b][j] \in Handle
    BY ElementOfSeq
  <2>2. ents[b][j].id \in Id
    BY <2>1 DEF Handle
  <2>3. ~ Among(ids, ents[b][j].id)
    <3> SUFFICES ASSUME NEW i \in 1 .. n, ids[i] = ents[b][j].id PROVE FALSE
      BY <1>3 DEF Among
    <3>1. RightIn(d, ents, c, L - n + i) /\ ents[c][L - n + i].id = ents[b][j].id
      BY <1>3, <1>8
    <3>2. L - n + i \in Int /\ j \in Int
      BY <1>7
    <3>3. b = c /\ j = L - n + i
      BY <3>1, <3>2, <1>14, RightInjective
    <3> QED BY <3>3, <1>14, <1>1, <1>2
  <2>4. d2[ents[b][j].id] = d[ents[b][j].id]
    BY <2>2, <2>3, <1>4
  <2> QED BY <2>4, <1>14 DEF RightIn
<1>15. e2[c] = col /\ \A b \in Chunk \ {c} : e2[b] = ents[b]
    OBVIOUS
<1> HIDE DEF e2
<1>16. ASSUME NEW j \in 1 .. Len(col) PROVE RightIn(d2, e2, c, j)
  <2>1. CASE j \in start + 1 .. start + n
    <3> DEFINE i == j - start
               k == L - n + i
    <3>1. i \in 1 .. n /\ start + i - 1 = j - 1
      BY <2>1, <1>1
    <3>2. col[j] = ents[c][k]
      BY <2>1, <1>1
    <3>3. ids[i] = ents[c][k].id /\ ids[i] \in Id
      BY <3>1, <1>3
    <3>4. RightIn(d, ents, c, k)
      BY <3>1, <1>8
    <3> HIDE DEF k
    <3>5. d[ids[i]].c = c /\ d[ids[i]].v = ents[c][k].v
      BY <3>3, <3>4 DEF RightIn
    <3>6. d2[ids[i]] = [c |-> d[ids[i]].c, i |-> start + i - 1, v |-> d[ids[i]].v]
      BY <3>1, <3>3, <1>4, <1>10
    <3> HIDE DEF i
    <3> QED BY <3>1, <3>2, <3>3, <3>5, <3>6, <1>15 DEF RightIn
  <2>2. CASE j \notin start + 1 .. start + n
    <3>1. /\ col[j] = ents[c][j] /\ j \in 1 .. L - n
          /\ j \notin start + 1 .. start + count
      BY <2>2, <1>1
    <3>2. j \in 1 .. L
      BY <3>1, <1>1, <1>2
    <3>3. RightIn(d2, ents, c, j)
      BY <3>1, <3>2, <1>5, <1>14 DEF L
    <3> QED BY <3>1, <3>3, <1>15 DEF RightIn
  <2> QED BY <2>1, <2>2
<1>17. ASSUME NEW j \in 1 .. Len(col)
       PROVE  \E k \in 1 .. L : k \notin start + 1 .. start + count /\ col[j] = ents[c][k]
  <2>1. CASE j \in start + 1 .. start + n
    <3>1. j - start \in 1 .. n
      BY <2>1, <1>1
    <3>2. col[j] = ents[c][L - n + (j - start)]
      BY <2>1, <1>1
    <3> QED BY <3>1, <3>2, <1>7
  <2>2. CASE j \notin start + 1 .. start + n
    <3>1. /\ col[j] = ents[c][j] /\ j \in 1 .. L - n
          /\ j \notin start + 1 .. start + count
      BY <2>2, <1>1
    <3> QED BY <3>1, <1>1, <1>2
  <2> QED BY <2>1, <2>2
<1>18. ASSUME NEW b \in Chunk \ {c}, NEW j \in 1 .. Len(ents[b])
       PROVE  RightIn(d2, ents, b, j)
    BY <1>6, <1>14
<1> QED BY <1>1, <1>12, <1>13, <1>16, <1>17, <1>18 DEF L, e2, FillOK

-----------------------------------------------------------------------------
(* Every action preserves the invariant.                                   *)

\* Outside a cast every record is right.
LEMMA AllRightAtRest ==
    ASSUME Coherent, call.op # "cast"
    PROVE  AllRight(datas, ents, {})
BY DEF Coherent, MovedOut, AllRight, RightIn

\* The list that free_entities leaves is a prefix of the freed ids and the
\* list before.
LEMMA FreedList ==
    ASSUME NEW S, NEW s \in Seq(S), NEW t \in Seq(S),
           NEW f, f = UpToZero(s \o t)
    PROVE  /\ f \in Seq(S) /\ Len(f) <= Len(s) + Len(t)
           /\ \A i \in 1 .. Len(f) : f[i] = IF i <= Len(s) THEN s[i] ELSE t[i - Len(s)]
<1>1. /\ s \o t \in Seq(S)
      /\ Len(s \o t) = Len(s) + Len(t)
      /\ \A i \in 1 .. Len(s) + Len(t) :
            (s \o t)[i] = IF i <= Len(s) THEN s[i] ELSE t[i - Len(s)]
    BY ConcatProperties
<1>2. Len(s) \in Nat /\ Len(t) \in Nat
    OBVIOUS
<1> DEFINE st == s \o t
<1>3. PICK n \in 0 .. Len(st) : /\ f \in Seq(S)
                                /\ Len(f) = n
                                /\ \A i \in 1 .. n : f[i] = st[i]
    BY <1>1, UpToZeroPrefix
<1> HIDE DEF st
<1> QED BY <1>1, <1>2, <1>3 DEF st

\* free_entities and free_slice: the records of the slice are freed, the tail
\* moves into the hole and fill_entities rewrites its records.
LEMMA ReleaseIInv ==
    ASSUME IInv, call = Idle, NEW s \in Slices, IsSlice(s), Release(s)
    PROVE  IInv'
<1> DEFINE c == s.c
           start == s.start
           count == s.count
           L == Len(ents[c])
           part == Part(c, start, count)
           ids == IdsOf(part)
           freed == [id \in Id |->
                       IF Among(ids, id)
                       THEN [c |-> NoChunk, i |-> 0, v |-> Recycle(datas[id].v)]
                       ELSE datas[id]]
           col == Filled(c, start, count)
<1>1. /\ ents \in [Chunk -> Seq(Handle)] /\ datas \in [Id -> Record]
      /\ freeList \in Seq(Id) /\ size \in 0 .. MaxIds
      /\ typeOf \in [Chunk -> Archetype \cup {NoArchetype}]
    BY DEF IInv, TypeOK
<1>2. /\ c \in Chunk /\ start \in Nat /\ count \in Nat /\ count > 0
      /\ L \in Nat /\ start + count <= L
    BY <1>1, ConstantsAssumption DEF Slices, IsSlice
<1>3. /\ freeList' = UpToZero(ids \o freeList)
      /\ datas' = Reindex(freed, IdsOf(Tail_(c, start, count)), start)
      /\ ents' = [ents EXCEPT ![c] = col]
      /\ typeOf' = [typeOf EXCEPT ![c] = TypeAfter(c, L - count)]
      /\ UNCHANGED <<size, call, issued>>
    BY DEF Release, Threaded
<1>4. call.op # "cast" /\ \A d \in Chunk : MovedOut(d) = {} /\ MovedOut(d)' = {}
    BY <1>3 DEF Idle, MovedOut
<1>5. AllRight(datas, ents, {})
    BY <1>4, AllRightAtRest DEF IInv
<1>6. \A d \in Chunk : \A j \in 1 .. Len(ents[d]) :
          RightIn(datas, ents, d, j) /\ ents[d][j] \in Handle
          /\ ents[d][j].id \in Id /\ ents[d][j].id < size
  <2> TAKE d \in Chunk
  <2> TAKE j \in 1 .. Len(ents[d])
  <2>1. RightIn(datas, ents, d, j)
    BY <1>5 DEF AllRight
  <2>2. ents[d][j] \in Handle
    BY <1>1, ElementOfSeq
  <2> QED BY <2>1, <2>2, <1>4 DEF Handle, IInv, Coherent
<1>7. /\ part \in Seq(Handle) /\ Len(part) = count
      /\ \A i \in 1 .. count : part[i] = ents[c][start + i]
  <2> DEFINE e == ents[c]
  <2>1. e \in Seq(Handle) /\ start \in Nat /\ count \in Nat /\ start + count <= Len(e)
    BY <1>1, <1>2
  <2> HIDE DEF e, start, count
  <2>2. part = SubSeq(e, start + 1, start + count)
    BY DEF Part, e, start, count
  <2>3. /\ SubSeq(e, start + 1, start + count) \in Seq(Handle)
        /\ Len(SubSeq(e, start + 1, start + count)) = count
        /\ \A i \in 1 .. count : SubSeq(e, start + 1, start + count)[i] = e[start + i]
    BY <2>1, PartProperties
  <2> HIDE DEF part
  <2> QED BY <2>2, <2>3 DEF e
<1> HIDE DEF part
<1>8. /\ DOMAIN ids = 1 .. count
      /\ \A i \in 1 .. count : ids[i] = ents[c][start + i].id /\ ids[i] \in Id
  <2>1. /\ DOMAIN ids = 1 .. count
        /\ \A i \in 1 .. count : ids[i] = part[i].id /\ ids[i] \in Id
    BY <1>7, IdsOfProperties
  <2>2. \A i \in 1 .. count : part[i].id = ents[c][start + i].id
    BY <1>7
  <2> QED BY <2>1, <2>2
<1>9. ids \in Seq(Id) /\ Len(ids) = count
  <2>1. DOMAIN part = 1 .. count
    BY <1>7
  <2>2. ids = [i \in 1 .. count |-> part[i].id]
    BY <2>1 DEF IdsOf
  <2>3. \A i \in 1 .. count : part[i].id \in Id
    BY <1>7, <1>8
  <2> HIDE DEF ids
  <2> QED BY <2>2, <2>3, <1>2
<1> HIDE DEF ids
<1>10. \A id : Among(ids, id) => \E i \in 1 .. count : id = ents[c][start + i].id
    BY <1>8 DEF Among
<1>11. freed \in [Id -> Record]
  <2> SUFFICES ASSUME NEW id \in Id
               PROVE  [c |-> NoChunk, i |-> 0, v |-> Recycle(datas[id].v)] \in Record
    BY <1>1
  <2>1. datas[id].v \in Version
    BY <1>1 DEF Record
  <2> QED BY <2>1, Types DEF Record
\* A handle outside the slice has an id of its own.
<1>12. ASSUME NEW d \in Chunk, NEW j \in 1 .. Len(ents[d]),
              <<d, j>> \notin Hole(c, start, count)
       PROVE  ~ Among(ids, ents[d][j].id)
  <2> SUFFICES ASSUME NEW i \in 1 .. count, ents[d][j].id = ents[c][start + i].id
               PROVE  FALSE
    BY <1>10
  <2>1. start + i \in 1 .. L /\ start + i \in start + 1 .. start + count
    BY <1>2
  <2>2. RightIn(datas, ents, c, start + i) /\ RightIn(datas, ents, d, j)
    BY <2>1, <1>2, <1>6
  <2>3. start + i \in Int /\ j \in Int
    BY <2>1
  <2>4. d = c /\ j = start + i
    BY <2>2, <2>3, RightInjective
  <2> QED BY <2>1, <2>4, <1>12 DEF Hole
<1>13. AllRight(freed, ents, Hole(c, start, count))
  <2> SUFFICES ASSUME NEW d \in Chunk, NEW j \in 1 .. Len(ents[d]),
                      <<d, j>> \notin Hole(c, start, count)
               PROVE  RightIn(freed, ents, d, j)
    BY DEF AllRight
  <2>1. freed[ents[d][j].id] = datas[ents[d][j].id]
    BY <1>6, <1>12
  <2> HIDE DEF freed
  <2> QED BY <2>1, <1>6 DEF RightIn
<1>14. \A id \in Id : Among(ids, id) => freed[id].c = NoChunk
    OBVIOUS
<1>15. \A id \in Id : ~ Among(ids, id) => freed[id] = datas[id]
    OBVIOUS
<1> HIDE DEF freed
<1>16. /\ datas' \in [Id -> Record]
       /\ \A id \in Id : datas'[id].v = freed[id].v /\ datas'[id].c = freed[id].c
       /\ col \in Seq(Handle) /\ Len(col) = L - count
       /\ \A j \in 1 .. Len(col) : RightIn(datas', [ents EXCEPT ![c] = col], c, j)
       /\ \A j \in 1 .. Len(col) : \E k \in 1 .. L :
             k \notin start + 1 .. start + count /\ col[j] = ents[c][k]
       /\ \A b \in Chunk \ {c} : \A j \in 1 .. Len(ents[b]) : RightIn(datas', ents, b, j)
  <2> HIDE DEF col, c, start, count
  <2> SUFFICES  ASSUME NEW d2, d2 = Reindex(freed, IdsOf(Tail_(c, start, count)), start)
        PROVE  /\ d2 \in [Id -> Record]
               /\ \A id \in Id : d2[id].v = freed[id].v /\ d2[id].c = freed[id].c
               /\ col \in Seq(Handle) /\ Len(col) = L - count
               /\ \A j \in 1 .. Len(col) : RightIn(d2, [ents EXCEPT ![c] = col], c, j)
               /\ \A j \in 1 .. Len(col) : \E k \in 1 .. L :
                     k \notin start + 1 .. start + count /\ col[j] = ents[c][k]
               /\ \A b \in Chunk \ {c} : \A j \in 1 .. Len(ents[b]) : RightIn(d2, ents, b, j)
    BY <1>3
  <2>1. col = Filled(c, start, count)
    BY DEF col
  <2>2. /\ c \in Chunk /\ start \in Nat /\ count \in Nat
        /\ start + count <= Len(ents[c])
    BY <1>2 DEF L
  <2>3. ents \in [Chunk -> Seq(Handle)]
    BY <1>1
  <2> HIDE DEF L
  <2>4. FillOK(freed, d2, c, start, count, col)
    BY <2>1, <2>2, <2>3, <1>11, <1>13, FillEntities
  <2> QED BY <2>4 DEF L, FillOK
<1> HIDE DEF col, c, start, count
<1>17. ents' \in [Chunk -> Seq(Handle)] /\ ents'[c] = col /\ \A b \in Chunk \ {c} : ents'[b] = ents[b]
    BY <1>1, <1>2, <1>3, <1>16
<1>18. typeOf' \in [Chunk -> Archetype \cup {NoArchetype}]
    BY <1>1, <1>2, <1>3 DEF TypeAfter
<1> DEFINE z == Len(freeList')
<1>19. /\ freeList' \in Seq(Id) /\ z \in Nat /\ z <= count + Len(freeList)
       /\ \A i \in 1 .. z :
             freeList'[i] = IF i <= count THEN ids[i] ELSE freeList[i - count]
  <2> SUFFICES ASSUME NEW f, f = UpToZero(ids \o freeList)
               PROVE  /\ f \in Seq(Id) /\ Len(f) \in Nat /\ Len(f) <= count + Len(freeList)
                      /\ \A i \in 1 .. Len(f) :
                            f[i] = IF i <= count THEN ids[i] ELSE freeList[i - count]
    BY <1>3
  <2>1. freeList \in Seq(Id)
    BY <1>1
  <2>2. /\ f \in Seq(Id) /\ Len(f) <= Len(ids) + Len(freeList)
        /\ \A i \in 1 .. Len(f) :
              f[i] = IF i <= Len(ids) THEN ids[i] ELSE freeList[i - Len(ids)]
    BY <2>1, <1>9, FreedList
  <2>3. Len(ids) = count
    BY <1>9
  <2> QED BY <2>2, <2>3
<1>20. Len(freeList) \in Nat
    BY <1>1
<1>21. TypeOK'
    BY <1>3, <1>16, <1>17, <1>18, <1>19 DEF TypeOK, IInv
<1>22. ChunksWellFilled'
  <2>1. ASSUME NEW d \in Chunk, d # c
        PROVE  ents'[d] = ents[d] /\ typeOf'[d] = typeOf[d]
    BY <2>1, <1>1, <1>3, <1>17
  <2>2. Len(ents'[c]) <= Capacity[c]
    <3>1. L <= Capacity[c] /\ Capacity[c] \in Nat
      BY <1>2, ConstantsAssumption DEF IInv, ChunksWellFilled, L
    <3> QED BY <3>1, <1>2, <1>16, <1>17
  <2>3. typeOf'[c] = NoArchetype <=> ents'[c] = <<>>
    <3>1. typeOf[c] # NoArchetype
      <4>1. ents[c] # <<>>
        BY <1>2 DEF L
      <4> QED BY <4>1, <1>2 DEF IInv, ChunksWellFilled
    <3>2. ents'[c] = <<>> <=> L - count = 0
      BY <1>2, <1>16, <1>17
    <3>3. typeOf'[c] = IF L - count = 0 THEN NoArchetype ELSE typeOf[c]
      BY <1>1, <1>2, <1>3 DEF TypeAfter
    <3> QED BY <3>1, <3>2, <3>3
  <2> QED BY <2>1, <2>2, <2>3 DEF ChunksWellFilled, IInv
<1>23. CallOK'
    BY <1>3 DEF CallOK, Idle
<1>24. ASSUME NEW d \in Chunk, NEW j \in 1 .. Len(ents'[d])
       PROVE  ents'[d][j].id < size' /\ RightIn(datas', ents', d, j)
  <2>1. CASE d = c
    <3>1. j \in 1 .. Len(col)
      BY <2>1, <1>17
    <3>2. PICK k \in 1 .. L : col[j] = ents[c][k]
      BY <3>1, <1>16
    <3>3. ents[c][k].id < size
      BY <1>2, <1>6 DEF L
    <3>4. RightIn(datas', ents', c, j)
      BY <3>1, <1>3, <1>16
    <3> QED BY <2>1, <3>2, <3>3, <3>4, <1>3, <1>17
  <2>2. CASE d # c
    <3>1. ents'[d] = ents[d] /\ RightIn(datas', ents, d, j)
      BY <2>2, <1>16, <1>17
    <3> QED BY <3>1, <1>3, <1>6 DEF RightIn
  <2> QED BY <2>1, <2>2
<1>25. Coherent'
    BY <1>24 DEF Coherent, RightIn
\* The ids of the slice were in use, those of the list were not.
<1>26. \A i \in 1 .. Len(freeList) :
           freeList[i] \in Id /\ freeList[i] < size /\ ~ Among(ids, freeList[i])
  <2> TAKE i \in 1 .. Len(freeList)
  <2>1. freeList[i] \in Id /\ freeList[i] < size /\ datas[freeList[i]].c = NoChunk
    BY <1>1 DEF IInv, FreeListSound
  <2>2. ASSUME NEW k \in 1 .. count, freeList[i] = ents[c][start + k].id
        PROVE  FALSE
    <3>1. start + k \in 1 .. L
      BY <1>2
    <3>2. RightIn(datas, ents, c, start + k)
      BY <3>1, <1>2, <1>6 DEF L
    <3>3. datas[freeList[i]].c = c
      BY <2>2, <3>2 DEF RightIn
    <3> QED BY <3>3, <2>1, <1>2, ConstantsAssumption
  <2> QED BY <2>1, <2>2, <1>10
<1>27. \A i \in 1 .. count : ids[i] < size /\ Among(ids, ids[i])
  <2> TAKE i \in 1 .. count
  <2>1. start + i \in 1 .. L
    BY <1>2
  <2>2. ents[c][start + i].id < size
    BY <2>1, <1>2, <1>6 DEF L
  <2> QED BY <2>2, <1>8 DEF Among
<1>28. ASSUME NEW i \in 1 .. count, NEW j \in 1 .. count, ids[i] = ids[j]
       PROVE  i = j
  <2>1. start + i \in 1 .. L /\ start + j \in 1 .. L
    BY <1>2
  <2>2. RightIn(datas, ents, c, start + i) /\ RightIn(datas, ents, c, start + j)
    BY <2>1, <1>2, <1>6 DEF L
  <2>3. ents[c][start + i].id = ents[c][start + j].id
    BY <1>28, <1>8
  <2>4. start + i \in Int /\ start + j \in Int
    BY <2>1
  <2>5. start + i = start + j
    BY <2>2, <2>3, <2>4, RightInjective
  <2> QED BY <2>5, <1>2
<1>29. FreeListSound'
  <2>1. /\ z \in Nat /\ z <= count + Len(freeList)
        /\ \A i \in 1 .. z : freeList'[i] = IF i <= count THEN ids[i] ELSE freeList[i - count]
    BY <1>19
  <2>2. ASSUME NEW i \in 1 .. z
        PROVE  freeList'[i] < size' /\ datas'[freeList'[i]].c = NoChunk
    <3>1. CASE i <= count
      <4>1. i \in 1 .. count /\ freeList'[i] = ids[i]
        BY <3>1, <2>1, <1>2
      <4>2. ids[i] \in Id /\ Among(ids, ids[i]) /\ ids[i] < size
        BY <4>1, <1>8, <1>27
      <4> QED BY <4>1, <4>2, <1>3, <1>14, <1>16
    <3>2. CASE i > count
      <4>1. i - count \in 1 .. Len(freeList) /\ freeList'[i] = freeList[i - count]
        BY <3>2, <2>1, <1>2, <1>20
      <4>2. /\ freeList[i - count] \in Id /\ freeList[i - count] < size
            /\ ~ Among(ids, freeList[i - count])
        BY <4>1, <1>26
      <4>3. datas[freeList[i - count]].c = NoChunk
        BY <4>1 DEF IInv, FreeListSound
      <4> QED BY <4>1, <4>2, <4>3, <1>3, <1>15, <1>16
    <3> QED BY <3>1, <3>2, <1>2
  <2>3. ASSUME NEW i \in 1 .. z, NEW j \in 1 .. z, freeList'[i] = freeList'[j]
        PROVE  i = j
    <3>1. CASE i <= count /\ j <= count
      <4>1. i \in 1 .. count /\ j \in 1 .. count /\ ids[i] = ids[j]
        BY <3>1, <2>1, <2>3
      <4> QED BY <4>1, <1>28
    <3>2. CASE i > count /\ j > count
      <4>1. /\ i - count \in 1 .. Len(freeList) /\ j - count \in 1 .. Len(freeList)
            /\ freeList[i - count] = freeList[j - count]
        BY <3>2, <2>1, <2>3, <1>2, <1>20
      <4>2. i - count = j - count
        BY <4>1 DEF IInv, FreeListSound
      <4> QED BY <4>2, <1>2
    <3>3. ASSUME NEW a \in 1 .. z, NEW b \in 1 .. z, a <= count, b > count
          PROVE  freeList'[a] # freeList'[b]
      <4>1. a \in 1 .. count /\ freeList'[a] = ids[a] /\ Among(ids, ids[a])
        BY <3>3, <2>1, <1>2, <1>27
      <4>2. b - count \in 1 .. Len(freeList) /\ freeList'[b] = freeList[b - count]
        BY <3>3, <2>1, <1>2, <1>20
      <4>3. ~ Among(ids, freeList[b - count])
        BY <4>2, <1>26
      <4> QED BY <4>1, <4>2, <4>3
    <3> QED BY <3>1, <3>2, <3>3, <2>3, <1>2
  <2> QED BY <2>2, <2>3, <1>19 DEF FreeListSound
<1> QED BY <1>21, <1>22, <1>23, <1>25, <1>29 DEF IInv

\* A call of cast_slice that starts has changed nothing yet.
LEMMA BeginCastSliceIInv ==
    ASSUME IInv, call = Idle, NEW s \in Slices, IsSlice(s),
           NEW g \in Archetype, g # typeOf[s.c], BeginCastSlice(s, g)
    PROVE  IInv'
<1>1. /\ call' = [op |-> "cast", g |-> g, c |-> s.c,
                  start |-> s.start, count |-> s.count, k |-> 0, order |-> <<>>]
      /\ UNCHANGED <<typeOf, ents, datas, size, freeList, issued>>
    BY DEF BeginCastSlice
<1>2. /\ s.c \in Chunk /\ s.start \in Nat /\ s.count \in Nat /\ s.count > 0
      /\ s.start + s.count <= Len(ents[s.c]) /\ ents[s.c] \in Seq(Handle)
    BY ConstantsAssumption DEF Slices, IsSlice, IInv, TypeOK
<1>3. TypeOK'
  <2>1. <<>> \in Seq(Chunk)
    OBVIOUS
  <2>2. call' \in Call
    BY <2>1, <1>1, <1>2 DEF Call
  <2> QED BY <2>2, <1>1 DEF IInv, TypeOK
<1>4. typeOf[s.c] # NoArchetype
  <2>1. ents[s.c] # <<>>
    BY <1>2
  <2> QED BY <2>1, <1>2 DEF IInv, ChunksWellFilled
<1>5. CallOK'
    BY <1>1, <1>2, <1>4 DEF CallOK
<1>6. \A c \in Chunk : MovedOut(c) = {} /\ MovedOut(c)' = {}
    BY <1>1, <1>2 DEF MovedOut, Idle
<1>7. Coherent'
    BY <1>1, <1>6 DEF Coherent, IInv
<1> QED BY <1>1, <1>3, <1>5, <1>7 DEF IInv, ChunksWellFilled, FreeListSound

\* Tags come and go without moving an entity.
LEMMA RelabelIInv ==
    ASSUME IInv, call = Idle, NEW s \in Slices, NEW g \in Archetype,
           IsSlice(s),
           typeOf' = [typeOf EXCEPT ![s.c] = g],
           UNCHANGED <<ents, datas, size, freeList, call, issued>>
    PROVE  IInv'
<1>1. s.c \in Chunk /\ ents[s.c] # <<>>
    BY ConstantsAssumption DEF Slices, IsSlice, IInv, TypeOK
<1>2. TypeOK'
    BY <1>1 DEF IInv, TypeOK
<1>3. ChunksWellFilled'
    BY <1>1, ConstantsAssumption DEF IInv, TypeOK, ChunksWellFilled
<1>4. CallOK'
    BY DEF CallOK, Idle
<1>5. Coherent'
    BY DEF IInv, Coherent, MovedOut, Idle
<1> QED BY <1>2, <1>3, <1>4, <1>5 DEF IInv, FreeListSound

\* clear leaves an empty world.
LEMMA ClearIInv == ASSUME IInv, Clear PROVE IInv'
<1> USE DEF Clear
<1>1. TypeOK'
    BY Types, ConstantsAssumption DEF TypeOK, Id
<1>2. ChunksWellFilled'
    BY ConstantsAssumption DEF ChunksWellFilled
<1>3. CallOK'
    BY DEF CallOK, Idle
<1>4. Coherent' /\ FreeListSound'
    BY DEF Coherent, FreeListSound
<1> QED BY <1>1, <1>2, <1>3, <1>4 DEF IInv

\* While a slice is cast every record is right, but for the places already
\* moved out of it.
LEMMA AllRightInCast ==
    ASSUME Coherent, call.op = "cast"
    PROVE  AllRight(datas, ents, Hole(call.c, call.start, call.k))
<1> SUFFICES ASSUME NEW c \in Chunk, NEW j \in 1 .. Len(ents[c]),
                    <<c, j>> \notin Hole(call.c, call.start, call.k)
             PROVE  RightIn(datas, ents, c, j)
    BY DEF AllRight
<1>1. j \notin MovedOut(c)
    BY DEF MovedOut, Hole
<1> QED BY <1>1 DEF Coherent, RightIn

\* A merge that starts names chunks of the archetype, each once.
LEMMA MergeChunksIInv ==
    ASSUME IInv, NEW g \in Archetype, MergeChunks(g)
    PROVE  IInv'
<1>1. PICK o \in Orders(g) :
          call' = [op |-> "merge", g |-> NoArchetype, c |-> NoChunk,
                   start |-> 0, count |-> 0, k |-> 0, order |-> o]
    BY DEF MergeChunks
<1>2. call = Idle /\ UNCHANGED <<typeOf, ents, datas, size, freeList, issued>>
    BY DEF MergeChunks
<1> DEFINE own == {c \in Chunk : typeOf[c] = g}
<1>3. PICK n \in 2 .. Cardinality(own) : o \in [1 .. n -> own]
    BY DEF Orders
<1>4. Inj(o)
    BY DEF Orders, Inj
<1>5. n \in Nat
    OBVIOUS
<1> HIDE DEF own
<1>6. o \in Seq(own) /\ Len(o) = n
    BY <1>3, <1>5
<1>7. \A i \in 1 .. n : o[i] \in own
    BY <1>3
<1>8. \A c \in own : c \in Chunk /\ typeOf[c] = g
    BY DEF own
<1>9. o \in Seq(Chunk)
    BY <1>6, <1>8
<1>10. TypeOK'
  <2>1. call' \in Call
    BY <1>1, <1>9 DEF Call
  <2> QED BY <2>1, <1>2 DEF IInv, TypeOK
<1>11. CallOK'
    BY <1>1, <1>2, <1>4, <1>6, <1>7, <1>8, ConstantsAssumption DEF CallOK
<1>12. \A c \in Chunk : MovedOut(c) = {} /\ MovedOut(c)' = {}
    BY <1>1, <1>2 DEF MovedOut, Idle
<1>13. Coherent'
    BY <1>2, <1>12 DEF Coherent, IInv
<1> QED BY <1>2, <1>10, <1>11, <1>13 DEF IInv, ChunksWellFilled, FreeListSound

\* A merge that ends changes neither the table nor a column.
LEMMA MergeEndIInv == ASSUME IInv, MergeEnd PROVE IInv'
<1> USE DEF MergeEnd
<1>1. TypeOK'
    BY Types DEF IInv, TypeOK
<1>2. CallOK'
    BY DEF CallOK, Idle
<1>3. Coherent'
    BY DEF IInv, Coherent, MovedOut, Idle
<1> QED BY <1>1, <1>2, <1>3 DEF IInv, ChunksWellFilled, FreeListSound

\* A move keeps the free list apart from the living: no free record changes.
LEMMA FreeListKept ==
    ASSUME IInv, UNCHANGED <<size, freeList>>,
           \A id \in Id : datas[id].c = NoChunk => datas'[id].c = NoChunk
    PROVE  FreeListSound'
<1>1. \A i \in 1 .. Len(freeList) : freeList[i] \in Id
    BY DEF IInv, TypeOK
<1> QED BY <1>1 DEF IInv, FreeListSound

\* allocate_slice gives the target chunk room; the source is another chunk.
LEMMA CastStepIInv ==
    ASSUME IInv, NEW c \in Chunk, CastStep(c)
    PROVE  IInv'
<1> DEFINE L == Len(ents[c])
           n == Smaller(call.count - call.k, Capacity[c] - L)
           src == call.c
           m == call.start + call.k
           moved == Taken(ents, src, m, n)
           col == Joined(ents, c, moved)
           Out == Hole(call.c, call.start, call.k)
<1>1. /\ ents \in [Chunk -> Seq(Handle)] /\ datas \in [Id -> Record]
      /\ typeOf \in [Chunk -> Archetype \cup {NoArchetype}]
      /\ size \in 0 .. MaxIds /\ size \in Nat
    BY ConstantsAssumption DEF IInv, TypeOK
<1>2. /\ call \in Call /\ call.op = "cast" /\ call.g \in Archetype /\ src \in Chunk
      /\ call.start \in Nat /\ call.count \in Nat /\ call.k \in Nat
      /\ call.k < call.count /\ HasRoom(call.g, c)
      /\ typeOf[src] \notin {call.g, NoArchetype}
      /\ call.start + call.count <= Len(ents[src])
    BY DEF CastStep, IInv, CallOK, TypeOK, Call
<1>3. L \in Nat /\ L < Capacity[c] /\ Capacity[c] \in Nat
    BY <1>2, RoomOfChunk
<1>4. src # c
    BY <1>2 DEF HasRoom
<1>5. /\ n \in Nat /\ n > 0 /\ call.k + n <= call.count /\ L + n <= Capacity[c]
      /\ m \in Nat /\ m + n <= Len(ents[src])
  <2> DEFINE C == Capacity[c]
             S == Len(ents[src])
  <2>1. L \in Nat /\ C \in Nat /\ L < C /\ S \in Nat
    BY <1>1, <1>2, <1>3
  <2>2. /\ call.start \in Nat /\ call.count \in Nat /\ call.k \in Nat
        /\ call.k < call.count /\ call.start + call.count <= S
    BY <1>2
  <2> HIDE DEF L, C, S
  <2>3. /\ n \in Nat /\ n > 0 /\ call.k + n <= call.count /\ L + n <= C
    BY <2>1, <2>2 DEF Smaller, C
  <2> HIDE DEF n
  <2> QED BY <2>1, <2>2, <2>3 DEF C, S
<1>6. /\ ents' = [ents EXCEPT ![c] = col]
      /\ datas' = PlaceAt(datas, IdsOf(moved), c, L)
      /\ typeOf' = [typeOf EXCEPT ![c] = call.g]
      /\ call' = [call EXCEPT !.k = @ + n]
      /\ UNCHANGED <<size, freeList, issued>>
  <2>1. moved = Part(call.c, call.start + call.k, n)
    BY DEF Taken, Part
  <2> HIDE DEF moved, n
  <2>2. /\ ents' = [ents EXCEPT ![c] = @ \o moved]
        /\ datas' = PlaceAt(datas, IdsOf(moved), c, L)
        /\ typeOf' = [typeOf EXCEPT ![c] = call.g]
        /\ call' = [call EXCEPT !.k = @ + n]
        /\ UNCHANGED <<size, freeList, issued>>
    BY <2>1 DEF CastStep, n
  <2> QED BY <2>2, <1>1 DEF Joined
<1>7. AllRight(datas, ents, Out)
    BY <1>2, AllRightInCast DEF IInv
<1>8. Inside(Out, src, m + 1, m + n) /\ Inside(Out, c, 1, L)
    BY <1>2, <1>4, <1>5 DEF Inside, Hole
<1> HIDE DEF n
<1>9. MoveOK(ents, datas, src, c, m, n, Out, col, datas')
  <2> SUFFICES ASSUME NEW d2, d2 = PlaceAt(datas, IdsOf(moved), c, L)
               PROVE  MoveOK(ents, datas, src, c, m, n, Out, col, d2)
    BY <1>6
  <2>1. /\ moved = Taken(ents, src, m, n) /\ col = Joined(ents, c, moved)
        /\ d2 = PlaceAt(datas, IdsOf(moved), c, Len(ents[c]))
        /\ Inside(Out, c, 1, Len(ents[c]))
    BY <1>8
  <2> HIDE DEF moved, col, Out, m, L, src
  <2> QED BY <2>1, <1>1, <1>2, <1>4, <1>5, <1>7, <1>8, MoveEntities
<1> HIDE DEF moved, col
<1>10. col \in Seq(Handle) /\ Len(col) = L + n
    BY <1>9 DEF MoveOK
<1>11. /\ ents' \in [Chunk -> Seq(Handle)] /\ ents'[c] = col
       /\ \A b \in Chunk \ {c} : ents'[b] = ents[b]
    BY <1>1, <1>6, <1>10
<1>12. /\ call' \in Call /\ call'.op = "cast" /\ call'.g = call.g /\ call'.c = src
       /\ call'.start = call.start /\ call'.count = call.count /\ call'.k = call.k + n
  <2>1. call.k + n \in Nat
    BY <1>2, <1>5
  <2> QED BY <2>1, <1>2, <1>6 DEF Call
<1>13. /\ typeOf' \in [Chunk -> Archetype \cup {NoArchetype}] /\ typeOf'[c] = call.g
       /\ \A b \in Chunk \ {c} : typeOf'[b] = typeOf[b]
    BY <1>1, <1>2, <1>6
<1>14. datas' \in [Id -> Record]
    BY <1>9 DEF MoveOK
<1>15. TypeOK'
    BY <1>6, <1>11, <1>12, <1>13, <1>14 DEF IInv, TypeOK
<1>16. ChunksWellFilled'
  <2>1. Len(ents'[c]) <= Capacity[c] /\ ents'[c] # <<>>
    BY <1>3, <1>5, <1>10, <1>11
  <2>2. typeOf'[c] # NoArchetype
    BY <1>2, <1>13, ConstantsAssumption
  <2> QED BY <2>1, <2>2, <1>11, <1>13 DEF IInv, ChunksWellFilled
<1>17. CallOK'
  <2>1. typeOf'[src] = typeOf[src] /\ ents'[src] = ents[src]
    BY <1>2, <1>4, <1>11, <1>13
  <2> QED BY <2>1, <1>2, <1>5, <1>12 DEF CallOK
<1>18. Coherent'
  <2> SUFFICES ASSUME NEW d \in Chunk, NEW j \in 1 .. Len(ents'[d]), j \notin MovedOut(d)'
               PROVE  ents'[d][j].id < size' /\ RightIn(datas', ents', d, j)
    BY DEF Coherent, RightIn
  <2>1. CASE d = c
    <3>1. RightIn(datas', ents', c, j)
      BY <2>1, <1>6, <1>9, <1>11 DEF MoveOK
    <3>2. CASE j <= L
      <4>1. j \in 1 .. L /\ col[j] = ents[c][j]
        BY <3>2, <2>1, <1>3, <1>9, <1>10, <1>11 DEF MoveOK
      <4>2. j \notin MovedOut(c)
        BY <1>4 DEF MovedOut
      <4> QED BY <3>1, <4>1, <4>2, <2>1, <1>6, <1>11 DEF IInv, Coherent
    <3>3. CASE j > L
      <4> DEFINE k == m + (j - L)
      <4>1. j \in L + 1 .. L + n
        BY <3>3, <2>1, <1>3, <1>10, <1>11
      <4>2. k \in 1 .. Len(ents[src]) /\ k \in m + 1 .. m + n
        BY <4>1, <1>1, <1>3, <1>5, SMTT(60)
      <4>3. col[j] = ents[src][k]
        BY <4>1, <1>9 DEF MoveOK
      <4>4. k \notin MovedOut(src)
        BY <4>2, <1>2 DEF MovedOut
      <4>5. ents[src][k].id < size
        BY <4>2, <4>4, <1>2 DEF IInv, Coherent
      <4> QED BY <3>1, <4>3, <4>5, <2>1, <1>6, <1>11
    <3> QED BY <3>2, <3>3, <2>1, <1>3
  <2>2. CASE d # c
    <3>1. ents'[d] = ents[d]
      BY <2>2, <1>11
    <3>2. ~ (d = src /\ j \in m + 1 .. m + n) /\ <<d, j>> \notin Out
      <4> SUFFICES ASSUME d = src, j \in m + 1 .. m + n \/ <<d, j>> \in Out
                   PROVE  j \in MovedOut(d)'
        BY DEF Hole
      <4>1. j \in call.start + 1 .. call.start + (call.k + n)
        BY <1>2, <1>5, SMTT(60) DEF Hole
      <4> QED BY <4>1, <1>12 DEF MovedOut
    <3>3. RightIn(datas', ents, d, j)
      BY <2>2, <3>1, <3>2, <1>9 DEF MoveOK
    <3>4. j \notin MovedOut(d)
      BY <3>2 DEF MovedOut, Hole
    <3> QED BY <3>1, <3>3, <3>4, <1>6 DEF RightIn, IInv, Coherent
  <2> QED BY <2>1, <2>2
<1>19. FreeListSound'
    BY <1>6, <1>9, FreeListKept DEF MoveOK
<1> QED BY <1>15, <1>16, <1>17, <1>18, <1>19 DEF IInv

\* The free_slice that ends cast_slice: the handles in the hole have been moved
\* out, so filling it leaves every record right.
LEMMA CastEndIInv == ASSUME IInv, CastEnd PROVE IInv'
<1> DEFINE c == call.c
           start == call.start
           count == call.count
           L == Len(ents[c])
           col == Filled(c, start, count)
<1>1. /\ ents \in [Chunk -> Seq(Handle)] /\ datas \in [Id -> Record]
      /\ typeOf \in [Chunk -> Archetype \cup {NoArchetype}]
    BY DEF IInv, TypeOK
<1>2. /\ call \in Call /\ call.op = "cast" /\ c \in Chunk
      /\ start \in Nat /\ count \in Nat /\ call.k = count
      /\ typeOf[c] # NoArchetype
      /\ L \in Nat /\ start + count <= L
    BY DEF CastEnd, IInv, CallOK, TypeOK, Call
<1>3. /\ ents' = [ents EXCEPT ![c] = col]
      /\ datas' = Reindex(datas, IdsOf(Tail_(c, start, count)), start)
      /\ typeOf' = [typeOf EXCEPT ![c] = TypeAfter(c, L - count)]
      /\ call' = Idle
      /\ UNCHANGED <<size, freeList, issued>>
    BY DEF CastEnd
<1>4. AllRight(datas, ents, Hole(c, start, count))
    BY <1>2, AllRightInCast DEF IInv
<1>5. FillOK(datas, datas', c, start, count, col)
  <2> SUFFICES ASSUME NEW d2, d2 = Reindex(datas, IdsOf(Tail_(c, start, count)), start)
               PROVE  FillOK(datas, d2, c, start, count, col)
    BY <1>3
  <2>1. start + count <= Len(ents[c]) /\ col = Filled(c, start, count)
    BY <1>2
  <2> HIDE DEF c, start, count, L, col
  <2> QED BY <2>1, <1>1, <1>2, <1>4, FillEntities
<1> HIDE DEF col
<1>6. col \in Seq(Handle) /\ Len(col) = L - count
    BY <1>5 DEF FillOK
<1>7. /\ ents' \in [Chunk -> Seq(Handle)] /\ ents'[c] = col
      /\ \A b \in Chunk \ {c} : ents'[b] = ents[b]
    BY <1>1, <1>2, <1>3, <1>6
<1>8. /\ typeOf' \in [Chunk -> Archetype \cup {NoArchetype}]
      /\ typeOf'[c] = IF L - count = 0 THEN NoArchetype ELSE typeOf[c]
      /\ \A b \in Chunk \ {c} : typeOf'[b] = typeOf[b]
    BY <1>1, <1>2, <1>3 DEF TypeAfter
<1>9. TypeOK'
    BY <1>3, <1>5, <1>7, <1>8, Types DEF IInv, TypeOK, FillOK
<1>10. ChunksWellFilled'
  <2>1. L <= Capacity[c] /\ Capacity[c] \in Nat
    BY <1>2, ConstantsAssumption DEF IInv, ChunksWellFilled
  <2>2. Len(ents'[c]) <= Capacity[c] /\ (ents'[c] = <<>> <=> L - count = 0)
    BY <2>1, <1>2, <1>6, <1>7
  <2> QED BY <2>2, <1>2, <1>7, <1>8 DEF IInv, ChunksWellFilled
<1>11. CallOK'
    BY <1>3 DEF CallOK, Idle
<1>12. Coherent'
  <2> SUFFICES ASSUME NEW d \in Chunk, NEW j \in 1 .. Len(ents'[d])
               PROVE  ents'[d][j].id < size' /\ RightIn(datas', ents', d, j)
    BY DEF Coherent, RightIn
  <2>1. CASE d = c
    <3>1. j \in 1 .. Len(col) /\ RightIn(datas', ents', c, j)
      BY <2>1, <1>3, <1>5, <1>7 DEF FillOK
    <3>2. PICK k \in 1 .. L : k \notin start + 1 .. start + count /\ col[j] = ents[c][k]
      BY <3>1, <1>5 DEF FillOK
    <3>3. k \notin MovedOut(c)
      BY <3>2, <1>2 DEF MovedOut
    <3>4. ents[c][k].id < size
      BY <3>2, <3>3, <1>2 DEF IInv, Coherent
    <3> QED BY <2>1, <3>1, <3>2, <3>4, <1>3, <1>7
  <2>2. CASE d # c
    <3>1. ents'[d] = ents[d] /\ j \notin MovedOut(d)
      BY <2>2, <1>7 DEF MovedOut
    <3>2. RightIn(datas', ents, d, j)
      BY <2>2, <3>1, <1>5 DEF FillOK
    <3> QED BY <3>1, <3>2, <1>3 DEF RightIn, IInv, Coherent
  <2> QED BY <2>1, <2>2
<1>13. FreeListSound'
    BY <1>3, <1>5, FreeListKept DEF FillOK
<1> QED BY <1>9, <1>10, <1>11, <1>12, <1>13 DEF IInv

\* merge_chunks moves the end of one column to the end of another.
LEMMA MergeStepIInv == ASSUME IInv, MergeStep PROVE IInv'
<1> DEFINE order == call.order
           N == Len(order)
           dst == order[1]
           src == order[N]
           L == Len(ents[dst])
           S == Len(ents[src])
           n == Smaller(Capacity[dst] - L, S)
           m == S - n
           moved == Taken(ents, src, m, n)
           col == Joined(ents, dst, moved)
           rest == SubSeq(ents[src], 1, m)
           first == IF L + n = Capacity[dst] THEN 2 ELSE 1
           last == IF m = 0 THEN N - 1 ELSE N
<1>1. /\ ents \in [Chunk -> Seq(Handle)] /\ datas \in [Id -> Record]
      /\ typeOf \in [Chunk -> Archetype \cup {NoArchetype}]
      /\ order \in Seq(Chunk) /\ call \in Call
    BY DEF IInv, TypeOK, Call
<1>2. /\ call.op = "merge" /\ N > 1 /\ dst # src
      /\ Inj(order) /\ \A i \in 1 .. N : typeOf[order[i]] # NoArchetype
    BY DEF MergeStep, IInv, CallOK
<1>3. /\ N \in Nat /\ dst \in Chunk /\ src \in Chunk
      /\ typeOf[dst] # NoArchetype /\ typeOf[src] # NoArchetype
  <2>1. N \in Nat /\ 1 \in 1 .. N /\ N \in 1 .. N
    BY <1>1, <1>2
  <2> QED BY <2>1, <1>1, <1>2
<1>4. /\ L \in Nat /\ S \in Nat /\ Capacity[dst] \in Nat /\ L <= Capacity[dst]
      /\ S <= Capacity[src] /\ Capacity[src] \in Nat
    BY <1>1, <1>3, ConstantsAssumption DEF IInv, ChunksWellFilled
<1>5. /\ n \in Nat /\ L + n <= Capacity[dst] /\ n <= S
      /\ m \in Nat /\ m + n = S
  <2> DEFINE room == Capacity[dst] - L
  <2> HIDE DEF L, S, dst
  <2>1. room \in Nat
    BY <1>4
  <2>2. n = Smaller(room, S)
    OBVIOUS
  <2> HIDE DEF n
  <2>3. n \in Nat /\ n <= room /\ n <= S
    BY <2>1, <2>2, <1>4, SmallerProperties
  <2> QED BY <2>3, <1>4
<1>6. /\ ents' = [[ents EXCEPT ![dst] = col] EXCEPT ![src] = rest]
      /\ datas' = PlaceAt(datas, IdsOf(moved), dst, L)
      /\ typeOf' = [typeOf EXCEPT ![src] = TypeAfter(src, m)]
      /\ call' = [call EXCEPT !.order = SubSeq(@, first, last)]
      /\ UNCHANGED <<size, freeList, issued>>
  <2>1. moved = Part(src, m, n)
    BY DEF Taken, Part
  <2> HIDE DEF moved, n
  <2>2. /\ ents' = [ents EXCEPT ![dst] = @ \o moved, ![src] = SubSeq(@, 1, m)]
        /\ datas' = PlaceAt(datas, IdsOf(moved), dst, L)
        /\ typeOf' = [typeOf EXCEPT ![src] = TypeAfter(src, m)]
        /\ call' = [call EXCEPT !.order = SubSeq(@, first, last)]
        /\ UNCHANGED <<size, freeList, issued>>
    BY <2>1, <1>1 DEF MergeStep, LastLeft, n
  <2> HIDE DEF m, dst, src, first, last, L
  <2> QED BY <2>2, <1>1, <1>2, <1>3 DEF Joined
<1>7. AllRight(datas, ents, {})
    BY <1>2, AllRightAtRest DEF IInv
<1>8. Inside({}, src, m + 1, m + n) /\ Inside({}, dst, 1, L)
    BY DEF Inside
<1> HIDE DEF n
<1>9. MoveOK(ents, datas, src, dst, m, n, {}, col, datas')
  <2> SUFFICES ASSUME NEW d2, d2 = PlaceAt(datas, IdsOf(moved), dst, L)
               PROVE  MoveOK(ents, datas, src, dst, m, n, {}, col, d2)
    BY <1>6
  <2>1. /\ moved = Taken(ents, src, m, n) /\ col = Joined(ents, dst, moved)
        /\ d2 = PlaceAt(datas, IdsOf(moved), dst, Len(ents[dst]))
        /\ Inside({}, dst, 1, Len(ents[dst])) /\ m + n <= Len(ents[src])
    BY <1>5, <1>8
  <2> HIDE DEF moved, col, m, L, S, src, dst
  <2> QED BY <2>1, <1>1, <1>2, <1>3, <1>5, <1>7, <1>8, MoveEntities
<1> HIDE DEF moved, col
<1>10. col \in Seq(Handle) /\ Len(col) = L + n
    BY <1>9 DEF MoveOK
<1>11. /\ rest \in Seq(Handle) /\ Len(rest) = m
       /\ \A j \in 1 .. m : rest[j] = ents[src][j]
  <2> DEFINE s == ents[src]
  <2>1. s \in Seq(Handle) /\ 0 + m <= Len(s) /\ m \in Nat /\ 0 \in Nat
    BY <1>1, <1>3, <1>4, <1>5
  <2> HIDE DEF s, m
  <2>2. /\ SubSeq(s, 0 + 1, 0 + m) \in Seq(Handle)
        /\ Len(SubSeq(s, 0 + 1, 0 + m)) = m
        /\ \A j \in 1 .. m : SubSeq(s, 0 + 1, 0 + m)[j] = s[0 + j]
    BY <2>1, PartProperties
  <2>3. 0 + 1 = 1 /\ 0 + m = m /\ \A j \in 1 .. m : 0 + j = j
    BY <2>1
  <2> QED BY <2>2, <2>3 DEF s
<1> HIDE DEF rest, m, L, S, dst, src
<1>12. /\ ents' \in [Chunk -> Seq(Handle)] /\ ents'[dst] = col /\ ents'[src] = rest
       /\ \A b \in Chunk \ {dst, src} : ents'[b] = ents[b]
    BY <1>1, <1>2, <1>3, <1>6, <1>10, <1>11
<1>13. /\ typeOf' \in [Chunk -> Archetype \cup {NoArchetype}]
       /\ typeOf'[src] = IF m = 0 THEN NoArchetype ELSE typeOf[src]
       /\ \A b \in Chunk \ {src} : typeOf'[b] = typeOf[b]
    BY <1>1, <1>3, <1>6 DEF TypeAfter
\* The chunks that are left are some of the chunks there were, in their order.
<1>14. /\ call' \in Call /\ call'.op = "merge"
       /\ Inj(call'.order)
       /\ \A i \in 1 .. Len(call'.order) : typeOf'[call'.order[i]] # NoArchetype
  <2> DEFINE t == SubSeq(order, first, last)
  <2>1. first \in 1 .. 2 /\ last \in N - 1 .. N /\ (m = 0 => last = N - 1)
    BY <1>3
  <2>2. \A i \in first .. last : order[i] \in Chunk
    BY <2>1, <1>1, <1>2
  <2>3. first \in Int /\ last \in Int /\ last \in Nat
    BY <2>1, <1>2, <1>3
  <2>4. last <= N /\ first >= 1
    BY <2>1, <1>3
  <2>0. \A i, j \in 1 .. N : order[i] = order[j] => i = j
    BY <1>1, <1>2 DEF Inj
  <2> HIDE DEF N
  <2> HIDE DEF first, last, order
  <2>5. /\ t \in Seq(Chunk)
        /\ Len(t) = IF first <= last THEN last - first + 1 ELSE 0
        /\ \A i \in 1 .. last - first + 1 : t[i] = order[first + i - 1]
    BY <2>2, <2>3, SubSeqProperties
  <2> HIDE DEF t
  <2>6. \A i \in 1 .. Len(t) : /\ first + i - 1 \in 1 .. N
                               /\ first + i - 1 <= last
                               /\ t[i] = order[first + i - 1]
    BY <2>3, <2>4, <2>5, <1>3 DEF N
  <2>7. call' \in Call /\ call'.op = "merge" /\ call'.order = t
    BY <2>5, <1>1, <1>2, <1>6 DEF Call, t, order
  <2>8. Inj(t)
    <3> SUFFICES ASSUME NEW i \in 1 .. Len(t), NEW j \in 1 .. Len(t), t[i] = t[j]
                 PROVE  i = j
      BY <2>5 DEF Inj
    <3>1. first + i - 1 = first + j - 1
      BY <2>0, <2>6
    <3> QED BY <3>1, <2>3
  <2>9. ASSUME NEW i \in 1 .. Len(t) PROVE typeOf'[t[i]] # NoArchetype
    <3>1. t[i] \in Chunk /\ typeOf[t[i]] # NoArchetype
      BY <2>5, <2>6, <1>2
    <3>2. CASE m = 0
      <4>0. N \in 1 .. N
        BY <1>2, <1>3
      <4>1. first + i - 1 # N
        BY <3>2, <2>1, <2>6, <1>3
      <4>2. t[i] # src
        BY <4>1, <2>0, <2>4, <2>6, <4>0 DEF src
      <4> QED BY <3>1, <4>2, <1>13
    <3>3. CASE m # 0
      BY <3>1, <3>3, <1>13
    <3> QED BY <3>2, <3>3
  <2> QED BY <2>7, <2>8, <2>9
<1>15. TypeOK'
    BY <1>6, <1>9, <1>12, <1>13, <1>14 DEF IInv, TypeOK, MoveOK
<1>16. ChunksWellFilled'
  <2>1. Len(ents'[dst]) <= Capacity[dst]
    BY <1>5, <1>10, <1>12
  <2>2. typeOf'[dst] = NoArchetype <=> ents'[dst] = <<>>
    <3>1. ents[dst] # <<>>
      BY <1>3 DEF IInv, ChunksWellFilled
    <3>2. L > 0
      BY <3>1, <1>1, <1>3, <1>4 DEF L
    <3>3. ents'[dst] # <<>>
      BY <3>2, <1>4, <1>5, <1>10, <1>12
    <3> QED BY <3>3, <1>2, <1>3, <1>13
  <2>3. Len(ents'[src]) <= Capacity[src] /\ (ents'[src] = <<>> <=> m = 0)
    BY <1>4, <1>5, <1>11, <1>12
  <2> QED BY <2>1, <2>2, <2>3, <1>3, <1>12, <1>13 DEF IInv, ChunksWellFilled
<1>17. CallOK'
    BY <1>14 DEF CallOK
<1>18. \A c \in Chunk : MovedOut(c) = {} /\ MovedOut(c)' = {}
    BY <1>2, <1>14 DEF MovedOut
<1>19. \A c \in Chunk : \A j \in 1 .. Len(ents[c]) : ents[c][j].id < size
    BY <1>18 DEF IInv, Coherent
<1>20. Coherent'
  <2> SUFFICES ASSUME NEW d \in Chunk, NEW j \in 1 .. Len(ents'[d])
               PROVE  ents'[d][j].id < size' /\ RightIn(datas', ents', d, j)
    BY DEF Coherent, RightIn
  <2>1. CASE d = dst
    <3>1. j \in 1 .. Len(col) /\ ents'[d][j] = col[j]
      BY <2>1, <1>12
    <3>2. RightIn(datas', ents', d, j)
      <4>1. RightIn(datas', [ents EXCEPT ![dst] = col], dst, j)
        BY <3>1, <1>9 DEF MoveOK
      <4>2. [ents EXCEPT ![dst] = col][dst] = col
        BY <1>1, <1>3
      <4> QED BY <4>1, <4>2, <2>1, <1>12 DEF RightIn
    <3>3. CASE j <= L
      <4>1. j \in 1 .. L /\ col[j] = ents[dst][j]
        BY <3>1, <3>3, <1>4, <1>9 DEF MoveOK, L
      <4> QED BY <3>1, <3>2, <4>1, <1>3, <1>6, <1>19 DEF L
    <3>4. CASE j > L
      <4> DEFINE k == m + (j - L)
      <4>1. j \in L + 1 .. L + n
        BY <3>1, <3>4, <1>4, <1>10
      <4>2. k \in 1 .. S
        BY <4>1, <1>4, <1>5
      <4>3. col[j] = ents[src][k]
        BY <4>1, <1>9 DEF MoveOK, L
      <4> HIDE DEF k
      <4> QED BY <3>1, <3>2, <4>2, <4>3, <1>3, <1>6, <1>19 DEF S
    <3> QED BY <3>3, <3>4, <3>1, <1>4
  <2>2. CASE d = src
    <3>1. j \in 1 .. m /\ ents'[d][j] = ents[src][j]
      BY <2>2, <1>11, <1>12
    <3>2. j \in 1 .. S /\ j \notin m + 1 .. m + n
      BY <3>1, <1>4, <1>5
    <3>3. RightIn(datas', ents, src, j)
      BY <3>2, <1>2, <1>3, <1>9 DEF MoveOK, S
    <3>4. ents[src][j].id < size
      BY <3>2, <1>3, <1>19 DEF S
    <3> QED BY <2>2, <3>1, <3>3, <3>4, <1>6 DEF RightIn
  <2>3. CASE d \notin {dst, src}
    <3>1. ents'[d] = ents[d]
      BY <2>3, <1>12
    <3>2. RightIn(datas', ents, d, j)
      BY <2>3, <3>1, <1>9 DEF MoveOK
    <3> QED BY <3>1, <3>2, <1>6, <1>19 DEF RightIn
  <2> QED BY <2>1, <2>2, <2>3
<1>21. FreeListSound'
    BY <1>6, <1>9, FreeListKept DEF MoveOK
<1> QED BY <1>15, <1>16, <1>17, <1>20, <1>21 DEF IInv

-----------------------------------------------------------------------------
(* The theorems.                                                           *)

\* Every operation of the world preserves the invariant.
LEMMA NextIInv == IInv /\ [Next]_vars => IInv'
<1> SUFFICES ASSUME IInv, [Next]_vars PROVE IInv'
    OBVIOUS
<1>1. ASSUME NEW g \in Archetype, NEW count \in 1 .. MaxCount, Allocate(g, count)
      PROVE  IInv'
    BY <1>1, AllocateIInv
<1>2. ASSUME NEW c \in Chunk, AllocateStep(c) PROVE IInv'
    BY <1>2, AllocateStepIInv
<1>3. ASSUME NEW s \in Slices, Destroy(s) PROVE IInv'
  <2>1. call = Idle /\ IsSlice(s)
    BY <1>3 DEF Destroy
  <2>2. CASE Release(s)
    BY <2>1, <2>2, ReleaseIInv
  <2>3. CASE /\ Cleaning[typeOf[s.c]] \notin {typeOf[s.c], NoArchetype}
             /\ BeginCastSlice(s, Cleaning[typeOf[s.c]])
    <3>1. s.c \in Chunk
      BY DEF Slices
    <3>2. ents[s.c] # <<>>
      BY <2>1, <3>1, ConstantsAssumption DEF Slices, IsSlice, IInv, TypeOK
    <3>3. typeOf[s.c] \in Archetype
      BY <3>1, <3>2 DEF IInv, TypeOK, ChunksWellFilled
    <3>4. Cleaning[typeOf[s.c]] \in Archetype
      BY <3>3, <2>3, ConstantsAssumption
    <3> QED BY <2>1, <2>3, <3>4, BeginCastSliceIInv
  <2> QED BY <1>3, <2>2, <2>3 DEF Destroy
<1>4. ASSUME NEW s \in Slices, NEW g \in Archetype \cup {NoArchetype}, Cast(s, g)
      PROVE  IInv'
  <2>1. call = Idle /\ IsSlice(s)
    BY <1>4 DEF Cast
  <2>2. CASE Release(s)
    BY <2>1, <2>2, ReleaseIInv
  <2>3. CASE g \notin {NoArchetype, typeOf[s.c]} /\ BeginCastSlice(s, g)
    BY <2>1, <2>3, BeginCastSliceIInv
  <2>4. CASE /\ g \notin {NoArchetype, typeOf[s.c]}
             /\ typeOf' = [typeOf EXCEPT ![s.c] = g]
             /\ UNCHANGED <<ents, datas, size, freeList, call, issued>>
    BY <2>1, <2>4, RelabelIInv
  <2> QED BY <1>4, <2>2, <2>3, <2>4 DEF Cast
<1>5. ASSUME NEW c \in Chunk, CastStep(c) PROVE IInv'
    BY <1>5, CastStepIInv
<1>6. CASE CastEnd
    BY <1>6, CastEndIInv
<1>7. ASSUME NEW g \in Archetype, MergeChunks(g) PROVE IInv'
    BY <1>7, MergeChunksIInv
<1>8. CASE MergeStep
    BY <1>8, MergeStepIInv
<1>9. CASE MergeEnd
    BY <1>9, MergeEndIInv
<1>10. CASE Clear
    BY <1>10, ClearIInv
<1>11. CASE UNCHANGED vars
    BY <1>11 DEF vars, IInv, TypeOK, ChunksWellFilled, CallOK, Coherent, MovedOut,
                 FreeListSound
<1> QED BY <1>1, <1>2, <1>3, <1>4, <1>5, <1>6, <1>7, <1>8, <1>9, <1>10, <1>11 DEF Next

\* The inductive invariant holds throughout.
THEOREM Invariance == Spec => []IInv
<1>1. Init => IInv
    BY InitIInv
<1>2. IInv /\ [Next]_vars => IInv'
    BY NextIInv
<1> QED BY <1>1, <1>2, PTL DEF Spec

\* Type correctness of the table, the columns and the call in progress.
THEOREM TypeCorrect == Spec => []TypeOK
<1>1. IInv => TypeOK
    BY DEF IInv
<1> QED BY <1>1, Invariance, PTL

\* The records of the entity table and the handles in the chunks agree after
\* every step of every structural change.
THEOREM TableCoherent == Spec => []Coherent
<1>1. IInv => Coherent
    BY DEF IInv
<1> QED BY <1>1, Invariance, PTL

\* new_entities never hands out an id that is in use.
THEOREM FreeIdsUnused == Spec => []FreeListSound
<1>1. IInv => FreeListSound
    BY DEF IInv
<1> QED BY <1>1, Invariance, PTL

\* No chunk overflows, and a chunk is in use exactly when it holds entities.
THEOREM ChunkCounts == Spec => []ChunksWellFilled
<1>1. IInv => ChunksWellFilled
    BY DEF IInv
<1> QED BY <1>1, Invariance, PTL

-----------------------------------------------------------------------------
(* Versions.                                                               *)

\* Version v after its id has been recycled k times.
Adv(v, k) == IF k = 0 THEN v
             ELSE IF v = Transient THEN (k - 1) % Transient
             ELSE (v + k) % Transient

\* A remainder is below the modulus, and the next one is its successor or 0.
LEMMA NextRemainder ==
    ASSUME NEW P \in Nat, P > 0, NEW x \in Nat
    PROVE  /\ x % P \in 0 .. P - 1
           /\ (x + 1) % P = IF (x % P) + 1 = P THEN 0 ELSE (x % P) + 1
<1> DEFINE q == x \div P
           r == x % P
<1>1. q \in Int /\ r \in 0 .. P - 1 /\ x = P * q + r
    OBVIOUS
<1> HIDE DEF q, r
<1>2. (P * q + r + 1) % P = IF r + 1 = P THEN 0 ELSE r + 1
  <2>1. CASE r + 1 = P
    <3>1. P * q + r + 1 = P * (q + 1)
      BY <1>1, <2>1
    <3>2. (P * (q + 1)) % P = 0
      BY <1>1
    <3> QED BY <2>1, <3>1, <3>2
  <2>2. CASE r + 1 # P
    <3>1. r + 1 \in 0 .. P - 1
      BY <1>1, <2>2
    <3>2. (P * q + (r + 1)) % P = r + 1
      BY <1>1, <3>1
    <3>3. P * q + r + 1 = P * q + (r + 1)
      BY <1>1
    <3> QED BY <2>2, <3>2, <3>3
  <2> QED BY <2>1, <2>2
<1> QED BY <1>1, <1>2 DEF r

\* handle::recycle is one step of the cycle, which never meets the version
\* reserved for transient handles again.
LEMMA RecycleAdvances ==
    ASSUME NEW v \in Version, NEW k \in Nat
    PROVE  /\ Adv(v, k) \in Version
           /\ Recycle(Adv(v, k)) = Adv(v, k + 1)
           /\ k > 0 => Adv(v, k) # Transient
<1> DEFINE P == Transient
<1>1. P \in Nat /\ P > 0 /\ VersionCount = P + 1 /\ Version = 0 .. P
    BY ConstantsAssumption DEF Transient, Version
<1> HIDE DEF P
<1>2. \A x \in 0 .. P - 1 : Recycle(x) = IF x + 1 = P THEN 0 ELSE x + 1
  <2> TAKE x \in 0 .. P - 1
  <2>1. CASE x + 1 = P
    <3>1. (x + 2) % (P + 1) = 0
      <4>1. x + 2 = P + 1
        BY <1>1, <2>1
      <4> QED BY <1>1, <4>1
    <3> QED BY <2>1, <3>1, <1>1 DEF Recycle, P
  <2>2. CASE x + 1 # P
    <3>1. (x + 1) % (P + 1) = x + 1
      BY <1>1, <2>2
    <3> QED BY <2>2, <3>1, <1>1 DEF Recycle, P
  <2> QED BY <2>1, <2>2
<1>3. Recycle(P) = 0
  <2>1. P + 1 # P /\ (P + 1) % (P + 1) = 0
    BY <1>1
  <2> QED BY <2>1, <1>1 DEF Recycle, P
<1>4. \A x \in Nat : x % P \in 0 .. P - 1 /\ Recycle(x % P) = (x + 1) % P
  <2> TAKE x \in Nat
  <2>1. /\ x % P \in 0 .. P - 1
        /\ (x + 1) % P = IF (x % P) + 1 = P THEN 0 ELSE (x % P) + 1
    BY <1>1, NextRemainder
  <2>2. Recycle(x % P) = IF (x % P) + 1 = P THEN 0 ELSE (x % P) + 1
    BY <2>1, <1>2
  <2> QED BY <2>1, <2>2
<1>5. CASE k = 0
  <2>1. Adv(v, k) = v
    BY <1>5 DEF Adv
  <2>2. Adv(v, k + 1) = IF v = P THEN 0 % P ELSE (v + 1) % P
    BY <1>5 DEF Adv, P
  <2>3. 0 % P = 0
    BY <1>1
  <2>4. ASSUME v # P PROVE v \in Nat /\ v % P = v
    BY <2>4, <1>1
  <2>5. Recycle(v) = Adv(v, k + 1)
    <3>1. CASE v = P
      BY <3>1, <2>2, <2>3, <1>3
    <3>2. CASE v # P
      BY <3>2, <2>2, <2>4, <1>4
    <3> QED BY <3>1, <3>2
  <2> QED BY <1>5, <2>1, <2>5
<1>6. CASE k > 0
  <2>1. PICK x \in Nat : Adv(v, k) = x % P /\ Adv(v, k + 1) = (x + 1) % P
    <3>1. CASE v = P
      <4>1. k - 1 \in Nat /\ (k - 1) + 1 = (k + 1) - 1 /\ k # 0 /\ k + 1 # 0
        BY <1>6
      <4>2. Adv(v, k) = (k - 1) % P /\ Adv(v, k + 1) = ((k - 1) + 1) % P
        BY <4>1, <3>1 DEF Adv, P
      <4> QED BY <4>1, <4>2
    <3>2. CASE v # P
      <4>1. v + k \in Nat /\ (v + k) + 1 = v + (k + 1) /\ k # 0 /\ k + 1 # 0
        BY <1>6, <1>1
      <4>2. Adv(v, k) = (v + k) % P /\ Adv(v, k + 1) = ((v + k) + 1) % P
        BY <4>1, <3>2 DEF Adv, P
      <4> QED BY <4>1, <4>2
    <3> QED BY <3>1, <3>2
  <2>2. Adv(v, k) \in 0 .. P - 1 /\ Recycle(Adv(v, k)) = Adv(v, k + 1)
    BY <2>1, <1>4
  <2> QED BY <2>2, <1>1 DEF P
<1> QED BY <1>5, <1>6

\* The cycle is VersionCount - 1 long: a version comes round no earlier.
LEMMA AdvDiffers ==
    ASSUME NEW v \in Version, NEW k \in 1 .. VersionCount - 2
    PROVE  Adv(v, k) # v
<1> DEFINE P == Transient
<1>1. P \in Nat /\ P > 0 /\ VersionCount = P + 1 /\ Version = 0 .. P
    BY ConstantsAssumption DEF Transient, Version
<1> HIDE DEF P
<1>2. k \in 1 .. P - 1
    BY <1>1
<1>3. CASE v = P
    BY <1>3, <1>1, <1>2, RecycleAdvances DEF P
<1>4. CASE v # P
  <2>1. Adv(v, k) = (v + k) % P
    BY <1>2, <1>4 DEF Adv, P
  <2>2. v \in 0 .. P - 1
    BY <1>1, <1>4
  <2>3. CASE v + k < P
    <3>1. (v + k) % P = v + k
      BY <1>1, <1>2, <2>2, <2>3
    <3> QED BY <1>2, <2>1, <2>2, <3>1
  <2>4. CASE ~ (v + k < P)
    <3>1. v + k = P * 1 + (v + k - P) /\ v + k - P \in 0 .. P - 1
      BY <1>1, <1>2, <2>2, <2>4
    <3>2. (v + k) % P = v + k - P
      BY <1>1, <3>1
    <3> QED BY <1>1, <1>2, <2>1, <2>2, <3>2
  <2> QED BY <2>3, <2>4
<1> QED BY <1>3, <1>4

-----------------------------------------------------------------------------
(* The free list.                                                          *)

\* Walking the list stops at the sentinel and not before: what is left holds
\* no 0, and a list without it is left whole.
LEMMA UpToZeroStops ==
    ASSUME NEW S, NEW s \in Seq(S)
    PROVE  /\ ~ Among(UpToZero(s), 0)
           /\ ~ Among(s, 0) => UpToZero(s) = s
<1> DEFINE L == Len(s)
           Z == {i \in 1 .. L : \A j \in 1 .. i : s[j] # 0}
           n == Cardinality(Z)
<1>1. L \in Nat /\ DOMAIN s = 1 .. L
    OBVIOUS
<1> HIDE DEF L
<1>2. ASSUME NEW m \in Nat
      PROVE  IsFiniteSet(1 .. m) /\ Cardinality(1 .. m) = m
  <2>1. /\ IsFiniteSet(1 .. m)
        /\ Cardinality(1 .. m) = IF 1 > m THEN 0 ELSE m - 1 + 1
    BY FS_Interval
  <2> QED BY <2>1
<1>3. IsFiniteSet(Z) /\ n \in 0 .. L
    BY <1>1, <1>2, Z \subseteq 1 .. L, FS_Subset, FS_CardinalityType
<1>4. \A i \in Z : i <= n
  <2> TAKE i \in Z
  <2>1. i \in 1 .. L /\ 1 .. i \subseteq Z
    BY <1>1
  <2>2. Cardinality(1 .. i) = i
    BY <2>1, <1>2
  <2> HIDE DEF Z
  <2>3. Cardinality(1 .. i) <= Cardinality(Z)
    BY <2>1, <1>3, FS_Subset
  <2> QED BY <2>2, <2>3
<1>5. \A i \in 1 .. n : i \in Z
  <2> SUFFICES ASSUME NEW i \in 1 .. n, i \notin Z PROVE FALSE
    OBVIOUS
  <2>1. i \in 1 .. L
    BY <1>1, <1>3
  <2>2. \A j \in Z : j <= i - 1
    BY <2>1, <1>1
  <2>3. Z \subseteq 1 .. (i - 1) /\ i - 1 \in Nat
    BY <2>1, <2>2, <1>1
  <2> HIDE DEF Z
  <2>4. IsFiniteSet(1 .. (i - 1)) /\ Cardinality(1 .. (i - 1)) = i - 1
    BY <2>3, <1>2
  <2>5. Cardinality(Z) <= Cardinality(1 .. (i - 1))
    BY <2>3, <2>4, FS_Subset
  <2>6. n <= i - 1 /\ n \in Nat
    BY <2>4, <2>5, <1>3
  <2> HIDE DEF n
  <2> QED BY <2>1, <2>6
<1>6. UpToZero(s) = SubSeq(s, 1, n)
    BY DEF UpToZero, L
<1>7. \A i \in 1 .. n : s[i] # 0
    BY <1>5
<1>8. ~ Among(s, 0) => n = L
  <2> SUFFICES ASSUME ~ Among(s, 0) PROVE n = L
    OBVIOUS
  <2>1. \A i \in 1 .. L : s[i] # 0
    BY <1>1 DEF Among
  <2>2. CASE L = 0
    BY <2>2, <1>3
  <2>3. CASE L # 0
    <3>1. L \in Z
      BY <2>1, <2>3, <1>1
    <3> QED BY <3>1, <1>1, <1>3, <1>4
  <2> QED BY <2>2, <2>3
<1> HIDE DEF n, Z
<1>9. /\ DOMAIN SubSeq(s, 1, n) = 1 .. n
      /\ \A i \in 1 .. n : SubSeq(s, 1, n)[i] = s[i]
    BY <1>1, <1>3 DEF L
<1>10. ~ Among(UpToZero(s), 0)
    BY <1>6, <1>7, <1>9 DEF Among
<1>11. n = L => UpToZero(s) = s
    BY <1>6 DEF L
<1> QED BY <1>8, <1>10, <1>11

-----------------------------------------------------------------------------
(* The invariant.                                                          *)

\* The id of a living entity is in a column, at a place that counts.
Stored ==
    \A id \in Id : LiveId(id) =>
        \E c \in Chunk : \E j \in 1 .. Len(ents[c]) :
            j \notin MovedOut(c) /\ ents[c][j].id = id

\* Versions given out one after the other, s, and the record's version v lie on
\* the cycle of recycle one step apart; a dead id's record is a step ahead.
Run(s, v, dead) ==
    /\ \A m, n \in 1 .. Len(s) : n <= m => s[m] = Adv(s[n], m - n)
    /\ \A n \in 1 .. Len(s) : v = Adv(s[n], Len(s) - n + dead)

VersionsRun ==
    \A id \in Id : /\ id >= size => issued[id] = <<>>
                   /\ Run(issued[id], datas[id].v, IF LiveId(id) THEN 0 ELSE 1)

\* The sentinel is not in the list it ends.
ZeroEnds == ~ Among(freeList, 0)

LifeInv == IInv /\ Stored /\ VersionsRun /\ ZeroEnds

\* What a step that frees and creates nothing leaves alone.
Alike(id) == (LiveId(id)' <=> LiveId(id)) /\ datas'[id].v = datas[id].v
TableKept == /\ UNCHANGED <<size, freeList, issued>>
             /\ \A id \in Id : Alike(id)

\* A handle at a place that counts is a living entity's.
LEMMA StoredIsLive ==
    ASSUME IInv, NEW c \in Chunk, NEW j \in 1 .. Len(ents[c]), j \notin MovedOut(c)
    PROVE  /\ ents[c][j] \in Handle /\ ents[c][j].id \in Id
           /\ LiveId(ents[c][j].id)
           /\ datas[ents[c][j].id] = [c |-> c, i |-> j - 1, v |-> ents[c][j].v]
<1>1. ents[c][j] \in Handle
    BY ElementOfSeq DEF IInv, TypeOK
<1>2. datas[ents[c][j].id] = [c |-> c, i |-> j - 1, v |-> ents[c][j].v]
    BY DEF IInv, Coherent
<1> QED BY <1>1, <1>2, ConstantsAssumption DEF Handle, LiveId

\* Moving entities that live keeps every id's life and version.
LEMMA PlaceAtKeeps ==
    ASSUME NEW ids, NEW c \in Chunk, NEW start,
           \A id \in Id : Among(ids, id) => LiveId(id),
           datas' = PlaceAt(datas, ids, c, start)
    PROVE  \A id \in Id : Alike(id)
<1> SUFFICES ASSUME NEW id \in Id PROVE Alike(id)
    OBVIOUS
<1>1. datas'[id] = IF Among(ids, id)
                   THEN [c |-> c, i |-> start + PlaceOf(ids, id) - 1, v |-> datas[id].v]
                   ELSE datas[id]
    BY DEF PlaceAt
<1>2. CASE Among(ids, id)
    BY <1>1, <1>2, ConstantsAssumption DEF Alike, LiveId
<1>3. CASE ~ Among(ids, id)
    BY <1>1, <1>3 DEF Alike, LiveId
<1> QED BY <1>2, <1>3

\* Reindexing never changes whether an id lives, nor its version.
LEMMA ReindexKeeps ==
    ASSUME NEW d, NEW ids, NEW start, NEW id \in Id,
           NEW e, e = Reindex(d, ids, start)
    PROVE  e[id].c = d[id].c /\ e[id].v = d[id].v
<1>1. e[id] = IF Among(ids, id)
              THEN [c |-> d[id].c, i |-> start + PlaceOf(ids, id) - 1, v |-> d[id].v]
              ELSE d[id]
    BY DEF Reindex
<1>2. CASE Among(ids, id)
    BY <1>1, <1>2
<1>3. CASE ~ Among(ids, id)
    BY <1>1, <1>3
<1> QED BY <1>2, <1>3

\* A column that handles are appended to keeps its own and has the new ones.
LEMMA JoinKeeps ==
    ASSUME NEW s \in Seq(Handle), NEW t \in Seq(Handle)
    PROVE  /\ Len(s \o t) = Len(s) + Len(t)
           /\ \A i \in 1 .. Len(s) : i \in 1 .. Len(s \o t) /\ (s \o t)[i] = s[i]
           /\ \A i \in 1 .. Len(t) : /\ Len(s) + i \in 1 .. Len(s \o t)
                                     /\ (s \o t)[Len(s) + i] = t[i]
<1>1. /\ Len(s) \in Nat /\ Len(t) \in Nat
      /\ Len(s \o t) = Len(s) + Len(t)
      /\ \A i \in 1 .. Len(s) + Len(t) :
            (s \o t)[i] = IF i <= Len(s) THEN s[i] ELSE t[i - Len(s)]
    BY ConcatProperties
<1> QED BY <1>1

\* free_slice keeps every handle outside the hole.
LEMMA FillKeeps ==
    ASSUME ents \in [Chunk -> Seq(Handle)],
           NEW c \in Chunk, NEW start \in Nat, NEW count \in Nat,
           start + count <= Len(ents[c]),
           NEW k \in 1 .. Len(ents[c]), k \notin start + 1 .. start + count
    PROVE  \E j \in 1 .. Len(Filled(c, start, count)) :
               Filled(c, start, count)[j] = ents[c][k]
<1> DEFINE L == Len(ents[c])
           n == TailLength(c, start, count)
           col == Filled(c, start, count)
<1>1. FilledOK(c, start, count, n, col)
    BY FilledProperties
<1>2. n = count \/ start + count + n = L
  <2>1. n = IF count < L - start - count THEN count ELSE L - start - count
    BY DEF TailLength, Smaller
  <2>2. L \in Nat
    OBVIOUS
  <2> HIDE DEF L
  <2> QED BY <2>1, <2>2
<1> HIDE DEF n, col
<1>3. /\ n \in Nat /\ n <= count /\ start + count + n <= L
      /\ Len(col) = L - count
      /\ \A j \in 1 .. Len(col) :
            \/ j \in start + 1 .. start + n /\ col[j] = ents[c][L - n + (j - start)]
            \/ j \notin start + 1 .. start + n /\ col[j] = ents[c][j]
    BY <1>1 DEF FilledOK
<1>4. L \in Nat /\ k \in 1 .. L
    OBVIOUS
<1> HIDE DEF L
<1>5. CASE k > L - n
  <2> DEFINE j == start + (k - (L - n))
  <2>1. j \in 1 .. L - count /\ j \in start + 1 .. start + n
    BY <1>3, <1>4, <1>5
  <2>2. L - n + (j - start) = k
    BY <1>3, <1>4
  <2> HIDE DEF j
  <2> QED BY <2>1, <2>2, <1>3 DEF col
<1>6. CASE k <= L - n
  <2>1. k \in 1 .. L - count /\ k \notin start + 1 .. start + n
    BY <1>2, <1>3, <1>4, <1>6
  <2> QED BY <2>1, <1>3 DEF col
<1> QED BY <1>3, <1>4, <1>5, <1>6

-----------------------------------------------------------------------------
(* Steps that move entities.                                               *)

\* A step that leaves columns and table alone loses nobody, whatever call
\* starts or ends with it, as long as no place comes to count as moved out.
LEMMA StillKeeps ==
    ASSUME Stored, UNCHANGED <<ents, datas, size, freeList, issued>>,
           \A c \in Chunk : MovedOut(c)' \subseteq MovedOut(c)
    PROVE  TableKept /\ Stored'
BY DEF TableKept, Alike, LiveId, Stored

\* One iteration of cast_slice: the moved entities are stored in the target
\* chunk from now on, though the source column still lists them.
LEMMA CastStepKeeps ==
    ASSUME IInv, Stored, NEW c \in Chunk, CastStep(c)
    PROVE  TableKept /\ Stored'
<1> DEFINE L == Len(ents[c])
           n == Smaller(call.count - call.k, Capacity[c] - L)
           src == call.c
           m == call.start + call.k
           moved == Part(src, m, n)
<1>1. /\ ents \in [Chunk -> Seq(Handle)]
      /\ call \in Call /\ call.op = "cast" /\ call.g \in Archetype /\ src \in Chunk
      /\ call.start \in Nat /\ call.count \in Nat /\ call.k \in Nat
      /\ call.k < call.count /\ HasRoom(call.g, c)
      /\ typeOf[src] \notin {call.g, NoArchetype}
      /\ call.start + call.count <= Len(ents[src])
    BY DEF CastStep, IInv, CallOK, TypeOK, Call
<1>2. L \in Nat /\ L < Capacity[c] /\ Capacity[c] \in Nat
    BY <1>1, RoomOfChunk
<1>3. src # c
    BY <1>1 DEF HasRoom
<1>4. n \in Nat /\ call.k + n <= call.count
  <2> DEFINE a == call.count - call.k
             b == Capacity[c] - L
  <2>1. a \in Nat /\ b \in Nat
    BY <1>1, <1>2
  <2> HIDE DEF a, b
  <2>2. n \in Nat /\ n <= a
    BY <2>1, SmallerProperties DEF a, b
  <2> HIDE DEF n
  <2> QED BY <2>2, <1>1 DEF a
<1>5. m \in Nat /\ m + n <= Len(ents[src])
  <2> HIDE DEF n
  <2> QED BY <1>1, <1>4
<1>6. /\ ents' = [ents EXCEPT ![c] = @ \o moved]
      /\ datas' = PlaceAt(datas, IdsOf(moved), c, L)
      /\ call' = [call EXCEPT !.k = @ + n]
      /\ UNCHANGED <<size, freeList, issued>>
    BY DEF CastStep
<1>7. /\ moved \in Seq(Handle) /\ Len(moved) = n
      /\ \A i \in 1 .. n : moved[i] = ents[src][m + i]
  <2> DEFINE e == ents[src]
  <2>1. e \in Seq(Handle) /\ m + n <= Len(e)
    BY <1>1, <1>5
  <2> HIDE DEF e, n, m
  <2> QED BY <2>1, <1>4, <1>5, PartProperties DEF Part, e
<1> HIDE DEF moved, n, L, m
<1>8. \A i \in 1 .. n : /\ m + i \in 1 .. Len(ents[src])
                        /\ m + i \notin MovedOut(src)
  <2> DEFINE S == Len(ents[src])
             k == call.start + call.k
  <2>1. m = k /\ S \in Nat
    BY <1>1 DEF m
  <2> HIDE DEF S, k
  <2>2. \A i \in 1 .. n : m + i \in 1 .. S /\ m + i > k
    BY <1>4, <1>5, <2>1 DEF S
  <2>3. \A i \in 1 .. n : m + i \notin call.start + 1 .. k
    BY <1>4, <1>5, <2>1
  <2> QED BY <2>2, <2>3, <1>1 DEF MovedOut, S, k
<1>9. \A id \in Id : Among(IdsOf(moved), id) => LiveId(id)
  <2> SUFFICES ASSUME NEW id \in Id, Among(IdsOf(moved), id) PROVE LiveId(id)
    OBVIOUS
  <2>1. PICK i \in 1 .. n : moved[i].id = id
    BY <1>7, IdsOfProperties DEF Among
  <2> QED BY <2>1, <1>1, <1>7, <1>8, StoredIsLive
<1>10. TableKept
    BY <1>6, <1>9, PlaceAtKeeps DEF TableKept
<1>11. /\ ents'[c] = ents[c] \o moved
       /\ \A b \in Chunk \ {c} : ents'[b] = ents[b]
    BY <1>1, <1>6
<1>12. /\ \A j \in 1 .. Len(ents[c]) :
              j \in 1 .. Len(ents'[c]) /\ ents'[c][j] = ents[c][j]
       /\ \A i \in 1 .. n : /\ L + i \in 1 .. Len(ents'[c])
                            /\ ents'[c][L + i] = moved[i]
  <2> DEFINE s == ents[c]
  <2>1. s \in Seq(Handle) /\ L = Len(s)
    BY <1>1 DEF L
  <2> HIDE DEF s
  <2> QED BY <2>1, <1>7, <1>11, JoinKeeps DEF s
<1>13. /\ \A b \in Chunk : MovedOut(b) =
             IF b = src THEN call.start + 1 .. call.start + call.k ELSE {}
       /\ \A b \in Chunk : MovedOut(b)' =
             IF b = src THEN call.start + 1 .. call.start + (call.k + n) ELSE {}
    BY <1>1, <1>6 DEF MovedOut, Call
<1>14. ASSUME NEW id \in Id, LiveId(id)'
       PROVE  \E b \in Chunk : \E j \in 1 .. Len(ents'[b]) :
                  j \notin MovedOut(b)' /\ ents'[b][j].id = id
  <2>1. LiveId(id)
    BY <1>10, <1>14 DEF TableKept, Alike
  <2>0. PICK b \in Chunk : \E j \in 1 .. Len(ents[b]) :
            j \notin MovedOut(b) /\ ents[b][j].id = id
    BY <2>1 DEF Stored
  <2>2. PICK j \in 1 .. Len(ents[b]) : j \notin MovedOut(b) /\ ents[b][j].id = id
    BY <2>0
  <2>3. CASE b = c
    BY <2>2, <2>3, <1>3, <1>12, <1>13
  <2>4. CASE b \notin {c, src}
    BY <2>2, <2>4, <1>11, <1>13
  <2>5. CASE b = src
    <3>1. CASE j \in MovedOut(b)'
      <4> DEFINE i == j - m
      <4>0. /\ j \notin call.start + 1 .. call.start + call.k
            /\ j \in call.start + 1 .. call.start + (call.k + n)
        BY <2>2, <2>5, <3>1, <1>13
      <4>1. i \in 1 .. n /\ m + i = j
        <5> DEFINE a == call.start
                   k == call.k
        <5>1. m = a + k /\ a \in Nat /\ k \in Nat
          BY <1>1 DEF m
        <5>2. j \notin a + 1 .. a + k /\ j \in a + 1 .. a + (k + n)
          BY <4>0
        <5> HIDE DEF a, k
        <5>3. j > m /\ j <= m + n /\ j \in Int
          BY ONLY <5>1, <5>2, <1>4
        <5> QED BY <5>3, <1>4, <1>5
      <4> HIDE DEF i
      <4>2. /\ L + i \in 1 .. Len(ents'[c])
            /\ ents'[c][L + i].id = id
        BY <4>1, <2>2, <2>5, <1>7, <1>12
      <4> QED BY <4>2, <1>3, <1>13
    <3>2. CASE j \notin MovedOut(b)'
      BY <3>2, <2>2, <2>5, <1>3, <1>11
    <3> QED BY <3>1, <3>2
  <2> QED BY <2>3, <2>4, <2>5
<1> QED BY <1>10, <1>14 DEF Stored

\* The free_slice that ends cast_slice drops only places already moved out.
LEMMA CastEndKeeps ==
    ASSUME IInv, Stored, CastEnd
    PROVE  TableKept /\ Stored'
<1> DEFINE c == call.c
           start == call.start
           count == call.count
           tail == IdsOf(Tail_(c, start, count))
<1>1. /\ ents \in [Chunk -> Seq(Handle)]
      /\ call.op = "cast" /\ c \in Chunk
      /\ start \in Nat /\ count \in Nat /\ call.k = count
      /\ start + count <= Len(ents[c])
    BY DEF CastEnd, IInv, CallOK, TypeOK, Call
<1>2. /\ ents' = [ents EXCEPT ![c] = Filled(c, start, count)]
      /\ datas' = Reindex(datas, tail, start)
      /\ call' = Idle
      /\ UNCHANGED <<size, freeList, issued>>
    BY DEF CastEnd
<1> HIDE DEF tail
<1>3. TableKept
    BY <1>2, ReindexKeeps DEF TableKept, Alike, LiveId
<1>4. /\ MovedOut(c) = start + 1 .. start + count
      /\ \A b \in Chunk : MovedOut(b)' = {}
    BY <1>1, <1>2 DEF MovedOut, Idle
<1>5. ents'[c] = Filled(c, start, count) /\ \A b \in Chunk \ {c} : ents'[b] = ents[b]
    BY <1>1, <1>2
<1> HIDE DEF c, start, count
<1>6. ASSUME NEW id \in Id, LiveId(id)'
      PROVE  \E b \in Chunk : \E j \in 1 .. Len(ents'[b]) :
                 j \notin MovedOut(b)' /\ ents'[b][j].id = id
  <2>1. LiveId(id)
    BY <1>3, <1>6 DEF TableKept, Alike
  <2>0. PICK b \in Chunk : \E j \in 1 .. Len(ents[b]) :
            j \notin MovedOut(b) /\ ents[b][j].id = id
    BY <2>1 DEF Stored
  <2>2. PICK j \in 1 .. Len(ents[b]) : j \notin MovedOut(b) /\ ents[b][j].id = id
    BY <2>0
  <2>3. CASE b = c
    <3>1. \E i \in 1 .. Len(Filled(c, start, count)) :
              Filled(c, start, count)[i] = ents[c][j]
      <4>1. j \in 1 .. Len(ents[c]) /\ j \notin start + 1 .. start + count
        BY <2>2, <2>3, <1>4
      <4> QED BY ONLY <4>1, <1>1, FillKeeps
    <3> QED BY <3>1, <2>2, <2>3, <1>4, <1>5
  <2>4. CASE b # c
    BY <2>2, <2>4, <1>4, <1>5
  <2> QED BY <2>3, <2>4
<1> QED BY <1>3, <1>6 DEF Stored

\* merge_chunks: the end of the source column becomes the end of the target's.
LEMMA MergeStepKeeps ==
    ASSUME IInv, Stored, MergeStep
    PROVE  TableKept /\ Stored'
<1> DEFINE dst == call.order[1]
           src == call.order[Len(call.order)]
           L == Len(ents[dst])
           S == Len(ents[src])
           n == Smaller(Capacity[dst] - L, S)
           m == S - n
           moved == Part(src, m, n)
<1>1. /\ ents \in [Chunk -> Seq(Handle)]
      /\ call.op = "merge" /\ dst \in Chunk /\ src \in Chunk /\ dst # src
  <2>1. call \in Call /\ call.op = "merge" /\ Len(call.order) > 1 /\ dst # src
    BY DEF MergeStep, IInv, TypeOK
  <2>2. call.order \in Seq(Chunk)
    BY <2>1 DEF Call
  <2>3. 1 \in 1 .. Len(call.order) /\ Len(call.order) \in 1 .. Len(call.order)
    BY <2>1, <2>2
  <2> QED BY <2>1, <2>2, <2>3 DEF IInv, TypeOK
<1>2. /\ n \in Nat /\ n <= S /\ m \in Nat /\ m + n = S /\ S \in Nat
  <2> DEFINE room == Capacity[dst] - L
  <2>1. room \in Nat /\ S \in Nat
    BY <1>1, ConstantsAssumption DEF IInv, ChunksWellFilled
  <2> HIDE DEF room, S
  <2>2. n \in Nat /\ n <= S
    BY <2>1, SmallerProperties DEF room
  <2> HIDE DEF n
  <2> QED BY <2>1, <2>2
<1>3. /\ ents' = [ents EXCEPT ![dst] = @ \o moved, ![src] = SubSeq(@, 1, m)]
      /\ datas' = PlaceAt(datas, IdsOf(moved), dst, L)
      /\ call' = [call EXCEPT !.order = call'.order]
      /\ UNCHANGED <<size, freeList, issued>>
  <2> DEFINE o == SubSeq(call.order,
                         IF L + n = Capacity[dst] THEN 2 ELSE 1,
                         LastLeft(call.order, m))
  <2>1. /\ ents' = [ents EXCEPT ![dst] = @ \o moved, ![src] = SubSeq(@, 1, m)]
        /\ datas' = PlaceAt(datas, IdsOf(moved), dst, L)
        /\ call' = [call EXCEPT !.order = o]
        /\ UNCHANGED <<size, freeList, issued>>
    BY DEF MergeStep
  <2>2. call \in Call
    BY DEF IInv, TypeOK
  <2> HIDE DEF o, dst, src, L, m, moved
  <2> QED BY <2>1, <2>2 DEF Call
<1>4. /\ moved \in Seq(Handle) /\ Len(moved) = n
      /\ \A i \in 1 .. n : moved[i] = ents[src][m + i]
  <2> DEFINE e == ents[src]
  <2>1. e \in Seq(Handle) /\ m + n <= Len(e)
    BY <1>1, <1>2
  <2> HIDE DEF e, n, m
  <2> QED BY <2>1, <1>2, PartProperties DEF Part, e
<1> HIDE DEF moved, n, m
<1>5. \A b \in Chunk : MovedOut(b) = {} /\ MovedOut(b)' = {}
  <2>1. call'.op = "merge"
    BY <1>1, <1>3 DEF IInv, TypeOK, Call
  <2> QED BY <2>1, <1>1 DEF MovedOut
<1>6. \A id \in Id : Among(IdsOf(moved), id) => LiveId(id)
  <2> SUFFICES ASSUME NEW id \in Id, Among(IdsOf(moved), id) PROVE LiveId(id)
    OBVIOUS
  <2>1. PICK i \in 1 .. n : moved[i].id = id
    BY <1>4, IdsOfProperties DEF Among
  <2>2. m + i \in 1 .. Len(ents[src])
    BY <1>2
  <2>3. m + i \notin MovedOut(src) /\ ents[src][m + i].id = id
    BY <2>1, <1>1, <1>4, <1>5
  <2> QED BY <2>2, <2>3, <1>1, StoredIsLive
<1>7. TableKept
    BY <1>1, <1>3, <1>6, PlaceAtKeeps DEF TableKept
<1>8. /\ \A j \in 1 .. Len(ents[dst]) :
             j \in 1 .. Len(ents'[dst]) /\ ents'[dst][j] = ents[dst][j]
      /\ \A i \in 1 .. n : /\ L + i \in 1 .. Len(ents'[dst])
                           /\ ents'[dst][L + i] = moved[i]
  <2> DEFINE s == ents[dst]
  <2>1. s \in Seq(Handle) /\ L = Len(s)
    BY <1>1
  <2>2. ents'[dst] = s \o moved
    BY <1>1, <1>3
  <2> HIDE DEF s, L, dst
  <2>3. /\ \A j \in 1 .. Len(s) : j \in 1 .. Len(s \o moved) /\ (s \o moved)[j] = s[j]
        /\ \A i \in 1 .. Len(moved) : /\ Len(s) + i \in 1 .. Len(s \o moved)
                                       /\ (s \o moved)[Len(s) + i] = moved[i]
    BY ONLY <2>1, <1>4, JoinKeeps
  <2> QED BY ONLY <2>1, <2>2, <2>3, <1>4 DEF s
<1>9. \A j \in 1 .. m : j \in 1 .. Len(ents'[src]) /\ ents'[src][j] = ents[src][j]
  <2> DEFINE e == ents[src]
  <2>1. e \in Seq(Handle) /\ m <= Len(e)
    BY <1>1, <1>2
  <2>2. ents'[src] = SubSeq(e, 1, m)
    BY <1>1, <1>3
  <2> HIDE DEF e, src
  <2> QED BY <2>1, <2>2, <1>2 DEF e
<1>10. \A b \in Chunk \ {dst, src} : ents'[b] = ents[b]
    BY <1>1, <1>3
<1>11. ASSUME NEW id \in Id, LiveId(id)'
       PROVE  \E b \in Chunk : \E j \in 1 .. Len(ents'[b]) :
                  j \notin MovedOut(b)' /\ ents'[b][j].id = id
  <2>1. LiveId(id)
    BY <1>7, <1>11 DEF TableKept, Alike
  <2>0. PICK b \in Chunk : \E j \in 1 .. Len(ents[b]) : ents[b][j].id = id
    BY <2>1 DEF Stored
  <2>2. PICK j \in 1 .. Len(ents[b]) : ents[b][j].id = id
    BY <2>0
  <2> HIDE DEF L, dst, src
  <2>3. CASE b = dst
    BY <2>2, <2>3, <1>1, <1>5, <1>8
  <2>4. CASE b \notin {dst, src}
    BY <2>2, <2>4, <1>5, <1>10
  <2>5. CASE b = src
    <3>1. CASE j > m
      <4> DEFINE i == j - m
      <4>1. i \in 1 .. n /\ m + i = j
        BY <2>2, <2>5, <3>1, <1>2 DEF src
      <4> HIDE DEF i
      <4>2. L + i \in 1 .. Len(ents'[dst]) /\ ents'[dst][L + i].id = id
        BY <4>1, <2>2, <2>5, <1>4, <1>8
      <4> QED BY <4>2, <1>1, <1>5
    <3>2. CASE ~ (j > m)
      <4>1. j \in 1 .. m
        BY <3>2, <1>2
      <4> QED BY <4>1, <2>2, <2>5, <1>1, <1>5, <1>9
    <3> QED BY <3>1, <3>2
  <2> QED BY <2>3, <2>4, <2>5
<1> QED BY <1>7, <1>11 DEF Stored

-----------------------------------------------------------------------------
(* Steps that end or begin lives.                                          *)

Freed(id) == /\ LiveId(id) /\ ~ LiveId(id)'
             /\ datas'[id].v = Recycle(datas[id].v)

\* free_entities frees the ids ids, which go in front of the list.
FreesIds(ids) ==
    /\ ids \in Seq(Id)
    /\ freeList' = UpToZero(ids \o freeList)
    /\ \A id \in Id : IF Among(ids, id) THEN Freed(id) ELSE Alike(id)
    /\ UNCHANGED <<size, call, issued>>

\* destroy and cast to nothing free the ids of the slice and no other.
LEMMA ReleaseFrees ==
    ASSUME IInv, Stored, call = Idle, NEW s \in Slices, IsSlice(s), Release(s)
    PROVE  (\E ids : FreesIds(ids)) /\ Stored'
<1> DEFINE c == s.c
           start == s.start
           count == s.count
           part == Part(c, start, count)
           ids == IdsOf(part)
           freed == [id \in Id |->
                       IF Among(ids, id)
                       THEN [c |-> NoChunk, i |-> 0, v |-> Recycle(datas[id].v)]
                       ELSE datas[id]]
           tail == IdsOf(Tail_(c, start, count))
<1>1. /\ ents \in [Chunk -> Seq(Handle)] /\ c \in Chunk
      /\ start \in Nat /\ count \in Nat
      /\ start + count <= Len(ents[c])
    BY ConstantsAssumption DEF Slices, IsSlice, IInv, TypeOK
<1>2. /\ freeList' = UpToZero(ids \o freeList)
      /\ datas' = Reindex(freed, tail, start)
      /\ ents' = [ents EXCEPT ![c] = Filled(c, start, count)]
      /\ UNCHANGED <<size, call, issued>>
    BY DEF Release, Threaded
<1>3. \A b \in Chunk : MovedOut(b) = {} /\ MovedOut(b)' = {}
    BY <1>2 DEF MovedOut, Idle
<1>4. /\ part \in Seq(Handle) /\ Len(part) = count
      /\ \A i \in 1 .. count : part[i] = ents[c][start + i]
  <2> DEFINE e == ents[c]
  <2>1. e \in Seq(Handle) /\ start + count <= Len(e)
    BY <1>1
  <2> HIDE DEF e, start, count
  <2>2. part = SubSeq(e, start + 1, start + count)
    BY DEF Part, e, start, count
  <2>3. /\ SubSeq(e, start + 1, start + count) \in Seq(Handle)
        /\ Len(SubSeq(e, start + 1, start + count)) = count
        /\ \A i \in 1 .. count : SubSeq(e, start + 1, start + count)[i] = e[start + i]
    BY <2>1, <1>1, PartProperties
  <2> HIDE DEF part
  <2> QED BY <2>2, <2>3 DEF e
<1> HIDE DEF part
<1>5. /\ DOMAIN ids = 1 .. count
      /\ \A i \in 1 .. count : ids[i] = ents[c][start + i].id /\ ids[i] \in Id
  <2>1. /\ DOMAIN ids = 1 .. count
        /\ \A i \in 1 .. count : ids[i] = part[i].id /\ ids[i] \in Id
    BY <1>4, IdsOfProperties
  <2>2. \A i \in 1 .. count : part[i].id = ents[c][start + i].id
    BY <1>4
  <2> QED BY <2>1, <2>2
<1>6. ids \in Seq(Id)
  <2>1. ids = [i \in 1 .. count |-> part[i].id]
    BY <1>4 DEF IdsOf
  <2>2. \A i \in 1 .. count : part[i].id \in Id
    BY <1>4, <1>5
  <2>3. count \in Nat
    BY <1>1
  <2> HIDE DEF ids, count
  <2> QED BY <2>1, <2>2, <2>3
<1> HIDE DEF ids, tail
<1>7. ASSUME NEW id \in Id, Among(ids, id) PROVE Freed(id)
  <2>1. PICK i \in 1 .. count : ents[c][start + i].id = id
    BY <1>5, <1>7 DEF Among
  <2>2. start + i \in 1 .. Len(ents[c])
    BY <1>1
  <2>3. LiveId(id)
    BY <2>1, <2>2, <1>1, <1>3, StoredIsLive
  <2>4. freed[id].c = NoChunk /\ freed[id].v = Recycle(datas[id].v)
    BY <1>7
  <2> HIDE DEF freed
  <2>5. datas'[id].c = freed[id].c /\ datas'[id].v = freed[id].v
    BY <1>2, ReindexKeeps
  <2> QED BY <2>3, <2>4, <2>5 DEF Freed, LiveId
<1>8. ASSUME NEW id \in Id, ~ Among(ids, id) PROVE Alike(id)
  <2>1. freed[id] = datas[id]
    BY <1>8
  <2> HIDE DEF freed
  <2>2. datas'[id].c = freed[id].c /\ datas'[id].v = freed[id].v
    BY <1>2, ReindexKeeps
  <2> QED BY <2>1, <2>2 DEF Alike, LiveId
<1>9. FreesIds(ids)
    BY <1>2, <1>6, <1>7, <1>8 DEF FreesIds
<1>10. ents'[c] = Filled(c, start, count) /\ \A b \in Chunk \ {c} : ents'[b] = ents[b]
    BY <1>1, <1>2
<1> HIDE DEF c, start, count
<1>11. ASSUME NEW id \in Id, LiveId(id)'
       PROVE  \E b \in Chunk : \E j \in 1 .. Len(ents'[b]) :
                  j \notin MovedOut(b)' /\ ents'[b][j].id = id
  <2>1. LiveId(id) /\ ~ Among(ids, id)
    BY <1>7, <1>8, <1>11 DEF Alike, Freed
  <2>2. PICK b \in Chunk : \E j \in 1 .. Len(ents[b]) : ents[b][j].id = id
    BY <2>1 DEF Stored
  <2>3. PICK j \in 1 .. Len(ents[b]) : ents[b][j].id = id
    BY <2>2
  <2>4. CASE b = c
    <3>1. j \notin start + 1 .. start + count
      <4> SUFFICES ASSUME j \in start + 1 .. start + count PROVE FALSE
        OBVIOUS
      <4> DEFINE i == j - start
      <4>1. i \in 1 .. count /\ start + i = j
        BY <1>1
      <4> HIDE DEF i
      <4>2. ids[i] = id
        BY <4>1, <2>3, <2>4, <1>5
      <4> QED BY <4>1, <4>2, <2>1, <1>5 DEF Among
    <3>2. \E i \in 1 .. Len(Filled(c, start, count)) :
              Filled(c, start, count)[i] = ents[c][j]
      BY <3>1, <2>3, <2>4, <1>1, FillKeeps
    <3> QED BY <3>2, <2>3, <2>4, <1>3, <1>10
  <2>5. CASE b # c
    BY <2>3, <2>5, <1>3, <1>10
  <2> QED BY <2>4, <2>5
<1> QED BY <1>9, <1>11 DEF Stored

\* An id that is handed out: a reused one was dead and keeps the version of
\* its record, which is the version of the handle.
Born(id) == /\ LiveId(id)'
            /\ datas'[id].v \in Version
            /\ issued'[id] = Append(issued[id], datas'[id].v)
            /\ id < size => ~ LiveId(id) /\ datas'[id].v = datas[id].v

\* new_entities hands out ids, all those past the old end of the table and
\* the first ones of the free list.
HandsOut ==
    /\ size' \in Nat /\ size <= size'
    /\ \A id \in Id : \/ Born(id) /\ id < size'
                      \/ Alike(id) /\ issued'[id] = issued[id]
    /\ \A id \in Id : size <= id /\ id < size' => Born(id)
    /\ \A id \in Id : Among(freeList, id) => Born(id) \/ Among(freeList', id)
    /\ \A id : Among(freeList', id) => Among(freeList, id)

LEMMA AllocateStepHandsOut ==
    ASSUME IInv, Stored, NEW c \in Chunk, AllocateStep(c)
    PROVE  HandsOut /\ Stored'
<1> DEFINE n == Smaller(call.count - call.k, Capacity[c] - Len(ents[c]))
           F == Len(freeList)
           ids == NewIds(n)
           used == Smaller(n, F)
           start == Len(ents[c])
           new(w) == [i \in 1 .. n |-> [id |-> ids[i], v |-> w[i]]]
<1>1. PICK w \in NewVersions(n) :
          /\ ents' = [ents EXCEPT ![c] = @ \o new(w)]
          /\ datas' = [id \in Id |->
                         IF Among(ids, id)
                         THEN [c |-> c, i |-> start + PlaceOf(ids, id) - 1,
                               v |-> w[PlaceOf(ids, id)]]
                         ELSE datas[id]]
          /\ issued' = [id \in Id |->
                         IF Among(ids, id)
                         THEN Append(issued[id], w[PlaceOf(ids, id)])
                         ELSE issued[id]]
          /\ size' = size + n - used
          /\ freeList' = SubSeq(freeList, used + 1, F)
    BY DEF AllocateStep, NewEntities
<1>2. /\ call.op = "allocate"
      /\ call' = Idle \/ call' = [call EXCEPT !.k = @ + n]
    BY DEF AllocateStep
<1>3. \A b \in Chunk : MovedOut(b) = {} /\ MovedOut(b)' = {}
  <2>1. CASE call' = Idle
    BY <2>1, <1>2 DEF MovedOut, Idle
  <2>2. CASE call' = [call EXCEPT !.k = @ + n]
    <3>1. call \in Call
      BY DEF IInv, TypeOK
    <3>2. call'.op = "allocate"
      BY <2>2, <3>1, <1>2 DEF Call
    <3> QED BY <3>2, <1>2 DEF MovedOut
  <2> QED BY <2>1, <2>2, <1>2
<1>4. /\ n \in Nat /\ start \in Nat
      /\ size + n <= MaxIds + F
    BY AllocateStepSize
<1>5. /\ ents \in [Chunk -> Seq(Handle)] /\ freeList \in Seq(Id) /\ F \in Nat
      /\ size \in Nat /\ Id \subseteq Nat
    BY ConstantsAssumption DEF IInv, TypeOK, Id
<1>6. /\ ids \in [1 .. n -> Id] /\ Inj(ids)
      /\ \A i \in 1 .. n : /\ ids[i] < size + n - used
                           /\ ids[i] < size => i <= F /\ ids[i] = freeList[i]
                           /\ i <= F => ids[i] = freeList[i]
      /\ size + n - used \in size .. MaxIds
  <2> HIDE DEF n
  <2> QED BY <1>4, NewIdsProperties
<1>7. \A i \in 1 .. n : ids[i] = IF i <= F THEN freeList[i] ELSE size + i - F - 1
    BY DEF NewIds
<1>8. /\ w \in [1 .. n -> Version]
      /\ \A i \in 1 .. n : i <= F => w[i] = datas[freeList[i]].v
    BY DEF NewVersions
<1> HIDE DEF n
<1> HIDE DEF ids
<1>9. \A id : Among(ids, id) => PlaceOf(ids, id) \in 1 .. n /\ ids[PlaceOf(ids, id)] = id
    BY <1>6, PlaceOfAmong
<1>10. \A i \in 1 .. n : Among(ids, ids[i]) /\ PlaceOf(ids, ids[i]) = i
    BY <1>6, PlaceOfMember
<1>11. used \in 0 .. F /\ used <= n /\ (used = n \/ used = F)
    BY <1>4, <1>5 DEF Smaller
<1> HIDE DEF used, start
<1>12. ASSUME NEW id \in Id, Among(ids, id) PROVE Born(id) /\ id < size'
  <2> DEFINE p == PlaceOf(ids, id)
  <2>1. p \in 1 .. n /\ ids[p] = id
    BY <1>9, <1>12
  <2>2. /\ datas'[id] = [c |-> c, i |-> start + p - 1, v |-> w[p]]
        /\ issued'[id] = Append(issued[id], w[p])
    BY <1>1, <1>12
  <2> HIDE DEF p
  <2>3. /\ datas'[id].c = c /\ datas'[id].v = w[p] /\ w[p] \in Version
    BY <2>1, <2>2, <1>8
  <2>4. ASSUME id < size PROVE ~ LiveId(id) /\ w[p] = datas[id].v
    <3>1. p \in 1 .. F /\ freeList[p] = id
      BY <2>1, <2>4, <1>6
    <3>2. datas[freeList[p]].c = NoChunk
      BY <3>1 DEF IInv, FreeListSound
    <3> QED BY <3>1, <3>2, <2>1, <1>8 DEF LiveId
  <2>5. id < size'
    BY <2>1, <1>1, <1>6
  <2> QED BY <2>2, <2>3, <2>4, <2>5, ConstantsAssumption DEF Born, LiveId
<1>13. ASSUME NEW id \in Id, ~ Among(ids, id)
       PROVE  Alike(id) /\ issued'[id] = issued[id]
    BY <1>1, <1>13 DEF Alike, LiveId
<1>14. \A id \in Id : size <= id /\ id < size' => Born(id)
  <2> SUFFICES ASSUME NEW id \in Id, size <= id, id < size' PROVE Among(ids, id)
    BY <1>12
  <2>1. id < size + n - used /\ id \in Nat
    BY <1>1, <1>5
  <2>2. used = F
    BY <2>1, <1>4, <1>5, <1>11
  <2> DEFINE i == id - size + F + 1
  <2>3. i \in 1 .. n /\ ~ (i <= F) /\ size + i - F - 1 = id
    BY <2>1, <2>2, <1>4, <1>5, <1>11
  <2> HIDE DEF i, F
  <2>4. ids[i] = id
    BY <2>3, <1>7
  <2> QED BY <2>3, <2>4, <1>10
<1>15. /\ DOMAIN freeList = 1 .. F /\ DOMAIN freeList' = 1 .. F - used
       /\ \A i \in 1 .. F - used : freeList'[i] = freeList[used + i]
  <2>1. freeList' = SubSeq(freeList, used + 1, F)
    BY <1>1
  <2> QED BY <2>1, <1>5, <1>11
<1>16. ASSUME NEW id \in Id, Among(freeList, id) PROVE Born(id) \/ Among(freeList', id)
  <2>1. PICK k \in 1 .. F : freeList[k] = id
    BY <1>15, <1>16 DEF Among
  <2>2. CASE k <= used
    <3>1. k \in 1 .. n /\ ids[k] = id
      BY <2>1, <2>2, <1>4, <1>5, <1>6, <1>11
    <3> QED BY <3>1, <1>10, <1>12
  <2>3. CASE k > used
    <3> DEFINE i == k - used
    <3>1. i \in 1 .. F - used /\ used + i = k
      BY <2>3, <1>5, <1>11
    <3> HIDE DEF i
    <3>2. freeList'[i] = id
      BY <3>1, <2>1, <1>15
    <3> QED BY <3>1, <3>2, <1>15 DEF Among
  <2> QED BY <2>2, <2>3, <1>5, <1>11
<1>17. \A id : Among(freeList', id) => Among(freeList, id)
  <2> TAKE id
  <2> HAVE Among(freeList', id)
  <2>1. PICK i \in 1 .. F - used : freeList'[i] = id
    BY <1>15 DEF Among
  <2>2. used + i \in 1 .. F
    BY <1>5, <1>11
  <2> QED BY <2>1, <2>2, <1>15 DEF Among
<1>18. HandsOut
  <2>1. size' \in Nat /\ size <= size'
    BY <1>1, <1>5, <1>6
  <2> QED BY <2>1, <1>12, <1>13, <1>14, <1>16, <1>17 DEF HandsOut
<1>19. /\ new(w) \in Seq(Handle) /\ Len(new(w)) = n
       /\ \A i \in 1 .. n : new(w)[i].id = ids[i]
    BY <1>4, <1>6, <1>8 DEF Handle
<1> HIDE DEF new
<1>20. /\ \A j \in 1 .. Len(ents[c]) :
              j \in 1 .. Len(ents'[c]) /\ ents'[c][j] = ents[c][j]
       /\ \A i \in 1 .. n : /\ start + i \in 1 .. Len(ents'[c])
                            /\ ents'[c][start + i].id = ids[i]
       /\ \A b \in Chunk \ {c} : ents'[b] = ents[b]
  <2> DEFINE s == ents[c]
             t == new(w)
  <2>1. s \in Seq(Handle) /\ t \in Seq(Handle) /\ start = Len(s)
    BY <1>5, <1>19 DEF start
  <2>2. ents'[c] = s \o t /\ \A b \in Chunk \ {c} : ents'[b] = ents[b]
    BY <1>1, <1>5
  <2>3. Len(t) = n /\ \A i \in 1 .. n : t[i].id = ids[i]
    BY <1>19
  <2> HIDE DEF s, t
  <2> QED BY <2>1, <2>2, <2>3, JoinKeeps DEF s
<1>21. ASSUME NEW id \in Id, LiveId(id)'
       PROVE  \E b \in Chunk : \E j \in 1 .. Len(ents'[b]) :
                  j \notin MovedOut(b)' /\ ents'[b][j].id = id
  <2>1. CASE Among(ids, id)
    <3>1. PlaceOf(ids, id) \in 1 .. n /\ ids[PlaceOf(ids, id)] = id
      BY <2>1, <1>9
    <3> QED BY <3>1, <1>3, <1>20
  <2>2. CASE ~ Among(ids, id)
    <3>1. LiveId(id)
      BY <2>2, <1>13, <1>21 DEF Alike
    <3>2. PICK b \in Chunk : \E j \in 1 .. Len(ents[b]) : ents[b][j].id = id
      BY <3>1 DEF Stored
    <3> QED BY <3>2, <1>3, <1>20
  <2> QED BY <2>1, <2>2
<1> QED BY <1>18, <1>21 DEF Stored

-----------------------------------------------------------------------------
(* Every step.                                                             *)

\* A step moves entities, hands ids out, frees ids or clears the world, and
\* always leaves the ids of the living stored.
LEMMA StepKinds ==
    ASSUME IInv, Stored, [Next]_vars
    PROVE  /\ Stored'
           /\ \/ TableKept
              \/ HandsOut /\ call.op = "allocate" /\ call'.op \notin {"cast", "merge"}
              \/ (\E ids : FreesIds(ids)) /\ call = Idle
              \/ Clear
<1>0. ASSUME call = Idle,
             UNCHANGED <<ents, datas, size, freeList, issued>>,
             call' = Idle \/ call'.k = 0 \/ call'.op # "cast"
      PROVE  TableKept /\ Stored'
  <2>1. \A c \in Chunk : MovedOut(c)' = {}
    <3>1. CASE call'.op = "cast" /\ call'.k = 0
      <4>1. call'.start + 1 .. call'.start + 0 = {}
        <5>1. call' = Idle => call'.op = "idle"
          BY DEF Idle
        <5>2. ASSUME NEW m \in Nat PROVE m + 1 .. m + 0 = {}
          OBVIOUS
        <5> QED BY <1>0, <5>2, NextIInv DEF IInv, TypeOK, Call
      <4> QED BY <3>1, <4>1 DEF MovedOut
    <3>2. CASE ~ (call'.op = "cast" /\ call'.k = 0)
      BY <3>2, <1>0 DEF MovedOut, Idle
    <3> QED BY <3>1, <3>2
  <2> QED BY <2>1, <1>0, StillKeeps
<1>1. ASSUME NEW g \in Archetype, NEW count \in 1 .. MaxCount, Allocate(g, count)
      PROVE  TableKept /\ Stored'
    BY <1>0, <1>1 DEF Allocate
<1>2. ASSUME NEW c \in Chunk, AllocateStep(c)
      PROVE  /\ Stored'
             /\ HandsOut /\ call.op = "allocate" /\ call'.op \notin {"cast", "merge"}
  <2>1. call \in Call /\ call.op = "allocate"
    BY <1>2 DEF IInv, TypeOK, AllocateStep
  <2>2. call' = Idle \/ \E k : call' = [call EXCEPT !.k = k]
    BY <1>2 DEF AllocateStep
  <2>3. call'.op \notin {"cast", "merge"}
    <3>1. CASE call' = Idle
      BY <3>1 DEF Idle
    <3>2. ASSUME NEW k, call' = [call EXCEPT !.k = k] PROVE call'.op = "allocate"
      BY <3>2, <2>1 DEF Call
    <3> QED BY <2>2, <3>1, <3>2
  <2> QED BY <1>2, <2>1, <2>3, AllocateStepHandsOut
<1>3. ASSUME NEW s \in Slices, call = Idle, IsSlice(s), Release(s)
      PROVE  (\E ids : FreesIds(ids)) /\ Stored'
    BY <1>3, ReleaseFrees
<1>4. ASSUME NEW s \in Slices, NEW g, call = Idle, BeginCastSlice(s, g)
      PROVE  TableKept /\ Stored'
    BY <1>0, <1>4 DEF BeginCastSlice
<1>5. ASSUME NEW s \in Slices, Destroy(s)
      PROVE  Stored' /\ (TableKept \/ ((\E ids : FreesIds(ids)) /\ call = Idle))
    BY <1>3, <1>4, <1>5 DEF Destroy
<1>6. ASSUME NEW s \in Slices, NEW g \in Archetype \cup {NoArchetype}, Cast(s, g)
      PROVE  Stored' /\ (TableKept \/ ((\E ids : FreesIds(ids)) /\ call = Idle))
    BY <1>0, <1>3, <1>4, <1>6 DEF Cast
<1>7. ASSUME NEW c \in Chunk, CastStep(c) PROVE TableKept /\ Stored'
    BY <1>7, CastStepKeeps
<1>8. CASE CastEnd
    BY <1>8, CastEndKeeps
<1>9. ASSUME NEW g \in Archetype, MergeChunks(g) PROVE TableKept /\ Stored'
    BY <1>0, <1>9 DEF MergeChunks
<1>10. CASE MergeStep
    BY <1>10, MergeStepKeeps
<1>11. CASE MergeEnd
  <2>1. \A c \in Chunk : MovedOut(c)' = {}
    BY <1>11 DEF MergeEnd, MovedOut, Idle
  <2> QED BY <2>1, <1>11, StillKeeps DEF MergeEnd
<1>12. CASE Clear
    BY <1>12 DEF Clear, Stored, LiveId, NoRecord
<1>13. CASE UNCHANGED vars
    BY <1>13, StillKeeps DEF vars, MovedOut
<1> QED BY <1>1, <1>2, <1>5, <1>6, <1>7, <1>8, <1>9, <1>10, <1>11, <1>12, <1>13 DEF Next

\* The versions after an id is freed: its record moves on by one.
LEMMA RunFreed ==
    ASSUME NEW s \in Seq(Version), NEW v, Run(s, v, 0)
    PROVE  Run(s, Recycle(v), 1)
<1> SUFFICES ASSUME NEW n \in 1 .. Len(s)
             PROVE  Recycle(v) = Adv(s[n], Len(s) - n + 1)
    BY DEF Run
<1>1. s[n] \in Version /\ Len(s) - n \in Nat /\ Len(s) - n + 0 = Len(s) - n
    OBVIOUS
<1>2. v = Adv(s[n], Len(s) - n + 0)
    BY DEF Run
<1> QED BY <1>1, <1>2, RecycleAdvances

\* The versions after an id is handed out with the version of its record.
LEMMA RunBorn ==
    ASSUME NEW s \in Seq(Version), NEW v \in Version, Run(s, v, 1) \/ s = <<>>
    PROVE  Run(Append(s, v), v, 0)
<1> DEFINE L == Len(s)
           t == Append(s, v)
<1>1. /\ L \in Nat /\ Len(t) = L + 1 /\ t[L + 1] = v
      /\ \A n \in 1 .. L : t[n] = s[n]
    OBVIOUS
<1>2. \A n \in 1 .. L : v = Adv(t[n], L + 1 - n)
  <2> TAKE n \in 1 .. L
  <2>1. v = Adv(s[n], L - n + 1)
    BY DEF Run
  <2>2. L - n + 1 = L + 1 - n
    OBVIOUS
  <2> QED BY <1>1, <2>1, <2>2
<1>3. \A m, n \in 1 .. L : n <= m => t[m] = Adv(t[n], m - n)
    BY <1>1 DEF Run
<1>4. Adv(v, 0) = v
    BY DEF Adv
<1> HIDE DEF L, t
<1>5. ASSUME NEW m \in 1 .. L + 1, NEW n \in 1 .. L + 1, n <= m
      PROVE  t[m] = Adv(t[n], m - n)
  <2>1. CASE m = L + 1 /\ n = L + 1
    <3>1. m - n = 0
      BY <2>1, <1>1
    <3> QED BY <2>1, <3>1, <1>1, <1>4
  <2>2. CASE m = L + 1 /\ n # L + 1
    <3>1. n \in 1 .. L
      BY <2>2, <1>1
    <3> QED BY <2>2, <3>1, <1>1, <1>2
  <2>3. CASE m # L + 1
    <3>1. m \in 1 .. L /\ n \in 1 .. L
      BY <2>3, <1>1, <1>5
    <3> QED BY <3>1, <1>3, <1>5
  <2> QED BY <2>1, <2>2, <2>3
<1>6. ASSUME NEW n \in 1 .. L + 1 PROVE v = Adv(t[n], (L + 1) - n + 0)
  <2>1. L + 1 \in 1 .. L + 1 /\ n <= L + 1 /\ (L + 1) - n + 0 = (L + 1) - n
    BY <1>1
  <2> QED BY <2>1, <1>1, <1>5
<1> QED BY <1>1, <1>5, <1>6 DEF Run, t

\* Versions stay on their cycle.
LEMMA VersionsStay ==
    ASSUME LifeInv, [Next]_vars
    PROVE  VersionsRun'
<1> SUFFICES ASSUME NEW id \in Id
             PROVE  /\ id >= size' => issued'[id] = <<>>
                    /\ Run(issued'[id], datas'[id].v, IF LiveId(id)' THEN 0 ELSE 1)
    BY DEF VersionsRun
<1>1. /\ issued[id] \in Seq(Version) /\ datas[id].v \in Version
      /\ size \in Nat /\ id \in Nat
    BY ConstantsAssumption DEF LifeInv, IInv, TypeOK, Record, Id
<1>2. /\ id >= size => issued[id] = <<>>
      /\ Run(issued[id], datas[id].v, IF LiveId(id) THEN 0 ELSE 1)
    BY DEF LifeInv, VersionsRun
<1>3. ASSUME Alike(id), issued'[id] = issued[id], size' \in Nat, size <= size'
      PROVE  /\ id >= size' => issued'[id] = <<>>
             /\ Run(issued'[id], datas'[id].v, IF LiveId(id)' THEN 0 ELSE 1)
    BY <1>1, <1>2, <1>3 DEF Alike
<1>4. CASE TableKept
    BY <1>1, <1>3, <1>4 DEF TableKept
<1>5. CASE HandsOut
  <2>1. CASE Alike(id) /\ issued'[id] = issued[id]
    BY <2>1, <1>3, <1>5 DEF HandsOut
  <2>2. CASE Born(id) /\ id < size'
    <3>1. Run(issued[id], datas'[id].v, 1) \/ issued[id] = <<>>
      BY <2>2, <1>1, <1>2 DEF Born
    <3>2. Run(Append(issued[id], datas'[id].v), datas'[id].v, 0)
      BY <2>2, <3>1, <1>1, RunBorn DEF Born
    <3>3. ~ (id >= size')
      BY <2>2, <1>1, <1>5 DEF HandsOut
    <3> QED BY <2>2, <3>2, <3>3 DEF Born
  <2> QED BY <2>1, <2>2, <1>5 DEF HandsOut
<1>6. ASSUME NEW ids, FreesIds(ids)
      PROVE  /\ id >= size' => issued'[id] = <<>>
             /\ Run(issued'[id], datas'[id].v, IF LiveId(id)' THEN 0 ELSE 1)
  <2>1. UNCHANGED <<size, issued>>
    BY <1>6 DEF FreesIds
  <2>2. CASE Alike(id)
    BY <2>1, <2>2, <1>1, <1>3
  <2>3. CASE Freed(id)
    <3>1. Run(issued[id], Recycle(datas[id].v), 1)
      BY <2>3, <1>1, <1>2, RunFreed DEF Freed
    <3> QED BY <2>1, <2>3, <3>1, <1>2 DEF Freed
  <2> QED BY <2>2, <2>3, <1>6 DEF FreesIds
<1>7. CASE Clear
    BY <1>7 DEF Clear, Run
<1> QED BY <1>4, <1>5, <1>6, <1>7, StepKinds DEF LifeInv

\* The sentinel never comes into the list: it is cut off where it is freed.
LEMMA ZeroStaysOut ==
    ASSUME LifeInv, [Next]_vars
    PROVE  ZeroEnds'
<1>1. freeList \in Seq(Id) /\ ~ Among(freeList, 0)
    BY DEF LifeInv, IInv, TypeOK, ZeroEnds
<1>2. CASE TableKept
    BY <1>1, <1>2 DEF TableKept, ZeroEnds, Among
<1>3. CASE HandsOut
    BY <1>1, <1>3 DEF HandsOut, ZeroEnds, Among
<1>4. ASSUME NEW ids, FreesIds(ids) PROVE ZeroEnds'
  <2> DEFINE both == ids \o freeList
  <2>1. both \in Seq(Id) /\ freeList' = UpToZero(both)
    BY <1>1, <1>4 DEF FreesIds
  <2> HIDE DEF both
  <2>2. ~ Among(UpToZero(both), 0)
    BY <2>1, UpToZeroStops
  <2> QED BY <2>1, <2>2 DEF ZeroEnds, Among
<1>5. CASE Clear
    BY <1>5 DEF Clear, ZeroEnds, Among
<1> QED BY <1>2, <1>3, <1>4, <1>5, StepKinds DEF LifeInv

LEMMA InitLife == Init => LifeInv
<1> SUFFICES ASSUME Init PROVE LifeInv
    OBVIOUS
<1>1. IInv
    BY InitIInv
<1>2. Stored /\ ZeroEnds
    BY DEF Init, Stored, LiveId, NoRecord, ZeroEnds, Among
<1>3. VersionsRun
    BY DEF Init, VersionsRun, Run
<1> QED BY <1>1, <1>2, <1>3 DEF LifeInv

LEMMA NextLife == LifeInv /\ [Next]_vars => LifeInv'
<1> SUFFICES ASSUME LifeInv, [Next]_vars PROVE LifeInv'
    OBVIOUS
<1>1. IInv'
    BY NextIInv DEF LifeInv
<1>2. Stored'
    BY StepKinds DEF LifeInv
<1> QED BY <1>1, <1>2, VersionsStay, ZeroStaysOut DEF LifeInv

\* The ids and versions in use agree with the free list and with the history of
\* handles after every step (recycle, free_entities, new_entities).
THEOREM LifeInvariance == Spec => []LifeInv
<1>1. Init => LifeInv
    BY InitLife
<1>2. LifeInv /\ [Next]_vars => LifeInv'
    BY NextLife
<1> QED BY <1>1, <1>2, PTL DEF Spec

-----------------------------------------------------------------------------
(* The theorems.                                                           *)

\* The handles stored are those of the living, with their records' versions.
Living == {[id |-> id, v |-> datas[id].v] : id \in {i \in Id : LiveId(i)}}

\* A living id's record names the place that stores it.
LEMMA RecordNamesPlace ==
    ASSUME IInv, Stored, NEW id \in Id, LiveId(id)
    PROVE  \E c \in Chunk : \E j \in (1 .. Len(ents[c])) \ MovedOut(c) :
               /\ datas[id].c = c /\ datas[id].i = j - 1
               /\ ents[c][j] = [id |-> id, v |-> datas[id].v]
<1>1. PICK c \in Chunk : \E j \in 1 .. Len(ents[c]) :
          j \notin MovedOut(c) /\ ents[c][j].id = id
    BY DEF Stored
<1>2. PICK j \in 1 .. Len(ents[c]) : j \notin MovedOut(c) /\ ents[c][j].id = id
    BY <1>1
<1>3. /\ ents[c][j] \in Handle
      /\ datas[id] = [c |-> c, i |-> j - 1, v |-> ents[c][j].v]
    BY <1>2, StoredIsLive
<1>4. ents[c][j] = [id |-> id, v |-> datas[id].v]
    BY <1>2, <1>3 DEF Handle
<1>5. datas[id].c = c /\ datas[id].i = j - 1
    BY <1>3
<1>6. j \in (1 .. Len(ents[c])) \ MovedOut(c)
    BY <1>2
<1> QED BY <1>4, <1>5, <1>6

LEMMA HandlesAreLiving == IInv /\ Stored => Handles = Living
<1> SUFFICES ASSUME IInv, Stored PROVE Handles = Living
    OBVIOUS
<1>1. ASSUME NEW h \in Handles PROVE h \in Living
  <2>1. PICK c \in Chunk : h \in HandlesIn(c)
    BY <1>1 DEF Handles
  <2>2. PICK j \in (1 .. Len(ents[c])) \ MovedOut(c) : h = ents[c][j]
    BY <2>1 DEF HandlesIn
  <2>3. /\ h \in Handle /\ h.id \in Id /\ LiveId(h.id)
        /\ datas[h.id] = [c |-> c, i |-> j - 1, v |-> h.v]
    BY <2>2, StoredIsLive
  <2>4. h = [id |-> h.id, v |-> datas[h.id].v]
    BY <2>3 DEF Handle
  <2> QED BY <2>3, <2>4 DEF Living
<1>2. ASSUME NEW h \in Living PROVE h \in Handles
  <2>1. PICK id \in Id : LiveId(id) /\ h = [id |-> id, v |-> datas[id].v]
    BY <1>2 DEF Living
  <2>2. PICK c \in Chunk : \E j \in (1 .. Len(ents[c])) \ MovedOut(c) : h = ents[c][j]
    BY <2>1, RecordNamesPlace
  <2> QED BY <2>2 DEF Handles, HandlesIn
<1> QED BY <1>1, <1>2

\* A record that names a chunk names a place that holds the id's own handle,
\* so as_slice never leads outside a column.
THEOREM NoRecordDangles == Spec => []NoDanglingRecord
<1>1. LifeInv => NoDanglingRecord
  <2> SUFFICES ASSUME LifeInv, NEW id \in Id, LiveId(id)
               PROVE  /\ datas[id].i < Len(ents[datas[id].c])
                      /\ ents[datas[id].c][datas[id].i + 1] = [id |-> id, v |-> datas[id].v]
    BY DEF NoDanglingRecord, LiveId
  <2>1. PICK c \in Chunk : \E j \in (1 .. Len(ents[c])) \ MovedOut(c) :
            /\ datas[id].c = c /\ datas[id].i = j - 1
            /\ ents[c][j] = [id |-> id, v |-> datas[id].v]
    BY RecordNamesPlace DEF LifeInv
  <2>2. PICK j \in (1 .. Len(ents[c])) \ MovedOut(c) :
            /\ datas[id].c = c /\ datas[id].i = j - 1
            /\ ents[c][j] = [id |-> id, v |-> datas[id].v]
    BY <2>1
  <2>3. ents[c] \in Seq(Handle)
    BY DEF LifeInv, IInv, TypeOK
  <2>4. j - 1 < Len(ents[c]) /\ (j - 1) + 1 = j
    BY <2>3
  <2> QED BY <2>2, <2>4
<1> QED BY <1>1, LifeInvariance, PTL

\* exist refuses the handle of a destroyed entity until its id has been
\* recycled through every other version.
THEOREM StaleHandlesRejected == Spec => []StaleHandleRejected
<1>1. LifeInv => StaleHandleRejected
  <2> SUFFICES ASSUME LifeInv, NEW id \in Id, NEW n \in 1 .. Len(issued[id]),
                      NEW r, r = Len(issued[id]) - n + (IF LiveId(id) THEN 0 ELSE 1),
                      r \in 1 .. VersionCount - 2
               PROVE  issued[id][n] # datas[id].v
    BY DEF StaleHandleRejected
  <2>1. issued[id][n] \in Version
    BY DEF LifeInv, IInv, TypeOK
  <2>2. datas[id].v = Adv(issued[id][n], r)
    BY DEF LifeInv, VersionsRun, Run
  <2> QED BY <2>1, <2>2, AdvDiffers
<1> QED BY <1>1, LifeInvariance, PTL

\* recycle passes over the version of transient handles, so an id that is
\* handed out again never gets it.
THEOREM ReusedIdsNotTransient == Spec => []ReusedIdNotTransient
<1>1. LifeInv => ReusedIdNotTransient
  <2> SUFFICES ASSUME LifeInv, NEW id \in Id, NEW n \in 2 .. Len(issued[id])
               PROVE  issued[id][n] # Transient
    BY DEF ReusedIdNotTransient
  <2>1. issued[id] \in Seq(Version)
    BY DEF LifeInv, IInv, TypeOK
  <2>2. /\ 1 \in 1 .. Len(issued[id]) /\ n \in 1 .. Len(issued[id]) /\ 1 <= n
        /\ n - 1 \in Nat /\ n - 1 > 0
    BY <2>1
  <2>3. issued[id][1] \in Version
    BY <2>1, <2>2
  <2>4. issued[id][n] = Adv(issued[id][1], n - 1)
    BY <2>2 DEF LifeInv, VersionsRun, Run
  <2> QED BY <2>2, <2>3, <2>4, RecycleAdvances
<1> QED BY <1>1, LifeInvariance, PTL

\* Casting a slice and merging chunks move entities: no step of theirs creates,
\* loses or duplicates a handle.
THEOREM CastsKeepEntities == Spec => CastKeepsEntities
<1>1. LifeInv /\ LifeInv' /\ [Next]_vars
      => [call.op \in {"cast", "merge"} \/ call'.op \in {"cast", "merge"}
          => Handles' = Handles]_vars
  <2> SUFFICES ASSUME LifeInv, LifeInv', [Next]_vars,
                      call.op \in {"cast", "merge"} \/ call'.op \in {"cast", "merge"}
               PROVE  Handles' = Handles
    OBVIOUS
  <2>1. Handles = Living
    BY HandlesAreLiving DEF LifeInv
  <2>2. Handles' = Living'
    <3>1. (IInv /\ Stored => Handles = Living)'
      BY HandlesAreLiving, PTL
    <3> QED BY <3>1 DEF LifeInv
  <2>3. TableKept
    <3>1. ~ Clear
      BY DEF Clear, Idle
    <3>2. ASSUME NEW ids, FreesIds(ids), call = Idle PROVE FALSE
      BY <3>2 DEF FreesIds, Idle
    <3> QED BY <3>1, <3>2, StepKinds DEF LifeInv
  <2>4. Living' = Living
    BY <2>3 DEF Living, TableKept, Alike
  <2> QED BY <2>1, <2>2, <2>4
<1> QED BY <1>1, LifeInvariance, PTL DEF Spec, CastKeepsEntities

\* free_entities loses ids only in the step that destroys entity 0, whose id
\* is the sentinel that ends the free list.
THEOREM OnlyZeroLoses == Spec => OnlyZeroLosesIds
<1>1. LifeInv /\ [Next]_vars
      => [~ (Lost' \subseteq Lost) => LiveId(0) /\ ~ LiveId(0)']_vars
  <2> SUFFICES ASSUME LifeInv, [Next]_vars,
                      NEW id, id \in Lost', id \notin Lost
               PROVE  LiveId(0) /\ ~ LiveId(0)'
    OBVIOUS
  <2>1. /\ size \in 0 .. MaxIds /\ freeList \in Seq(Id)
        /\ Id = 0 .. MaxIds - 1 /\ MaxIds \in Nat \ {0}
    BY ConstantsAssumption DEF LifeInv, IInv, TypeOK, Id
  <2>2. id \in 0 .. size' - 1 /\ ~ LiveId(id)' /\ ~ Among(freeList', id)
    BY DEF Lost, Among
  <2>3. id < size => LiveId(id) \/ Among(freeList, id)
    BY <2>1, <2>2 DEF Lost
  <2>4. size' \in 0 .. MaxIds
    <3>1. IInv'
      BY NextIInv DEF LifeInv
    <3> QED BY <3>1 DEF IInv, TypeOK
  <2>5. id \in Id /\ id \in Nat /\ id < size'
    <3>1. id \in 0 .. size' - 1
      BY <2>2
    <3>2. MaxIds \in Nat
      BY ConstantsAssumption
    <3>3. size' \in Nat /\ size' <= MaxIds
      BY <2>4, <3>2
    <3>4. id \in Nat /\ id < size'
      <4>1. ASSUME NEW k \in Nat, id \in 0 .. k - 1 PROVE id \in Nat /\ id < k
        BY <4>1
      <4> QED BY <3>1, <3>3, <4>1
    <3>5. id \in 0 .. MaxIds - 1
      BY <3>2, <3>3, <3>4
    <3> QED BY <3>4, <3>5 DEF Id
  <2>6. CASE TableKept
    <3>1. size' = size /\ freeList' = freeList /\ Alike(id)
      BY <2>5, <2>6 DEF TableKept
    <3>2. ~ LiveId(id)
      BY <3>1, <2>2 DEF Alike
    <3>3. id < size
      BY <3>1, <2>1, <2>2
    <3>4. ~ Among(freeList, id)
      BY <3>1, <2>2 DEF Among
    <3> QED BY <3>2, <3>3, <3>4, <2>3
  <2>7. CASE HandsOut
    <3>1. ~ Born(id)
      BY <2>2 DEF Born
    <3>2. id < size
      <4>1. ~ (size <= id /\ id < size')
        BY <3>1, <2>5, <2>7 DEF HandsOut
      <4>2. size \in Nat
        BY <2>1
      <4> QED BY <4>1, <4>2, <2>5
    <3>3. ~ LiveId(id)
      BY <3>1, <2>2, <2>5, <2>7 DEF HandsOut, Alike
    <3>4. Among(freeList, id)
      BY <3>2, <3>3, <2>3
    <3>5. Among(freeList, id) => Born(id) \/ Among(freeList', id)
      BY <2>5, <2>7 DEF HandsOut, Among
    <3> QED BY <3>1, <3>4, <3>5, <2>2 DEF Among
  <2>8. ASSUME NEW ids, FreesIds(ids) PROVE LiveId(0) /\ ~ LiveId(0)'
    <3> DEFINE both == ids \o freeList
    <3>1. ids \in Seq(Id) /\ both \in Seq(Id) /\ freeList' = UpToZero(both)
      BY <2>1, <2>8 DEF FreesIds
    <3>2. \A i : Among(both, i) <=> Among(ids, i) \/ Among(freeList, i)
      <4>1. /\ Len(both) = Len(ids) + Len(freeList)
            /\ \A i \in 1 .. Len(ids) + Len(freeList) :
                  both[i] = IF i <= Len(ids) THEN ids[i] ELSE freeList[i - Len(ids)]
        BY <2>1, <3>1, ConcatProperties
      <4>2. /\ DOMAIN ids = 1 .. Len(ids) /\ DOMAIN freeList = 1 .. Len(freeList)
            /\ DOMAIN both = 1 .. Len(both)
            /\ Len(ids) \in Nat /\ Len(freeList) \in Nat
        BY <2>1, <3>1
      <4> HIDE DEF both
      <4>3. ASSUME NEW k \in 1 .. Len(ids)
            PROVE  k \in 1 .. Len(both) /\ both[k] = ids[k]
        BY <4>1, <4>2
      <4>4. ASSUME NEW k \in 1 .. Len(freeList)
            PROVE  Len(ids) + k \in 1 .. Len(both) /\ both[Len(ids) + k] = freeList[k]
        BY <4>1, <4>2
      <4>5. ASSUME NEW k \in 1 .. Len(both)
            PROVE  \/ k \in 1 .. Len(ids) /\ both[k] = ids[k]
                   \/ /\ k - Len(ids) \in 1 .. Len(freeList)
                      /\ both[k] = freeList[k - Len(ids)]
        BY <4>1, <4>2
      <4> QED BY <4>2, <4>3, <4>4, <4>5 DEF Among
    <3> HIDE DEF both
    <3>3. Among(both, id)
      <4>1. CASE Among(ids, id)
        BY <4>1, <3>2
      <4>2. CASE ~ Among(ids, id)
        <5>1. Alike(id) /\ size' = size
          BY <4>2, <2>5, <2>8 DEF FreesIds
        <5>2. Among(freeList, id)
          BY <5>1, <2>1, <2>2, <2>3 DEF Alike
        <5> QED BY <5>2, <3>2
      <4> QED BY <4>1, <4>2
    <3>4. both # UpToZero(both)
      BY <3>1, <3>3, <2>2 DEF Among
    <3>5. Among(both, 0)
      BY <3>1, <3>4, UpToZeroStops
    <3>6. Among(ids, 0) /\ 0 \in Id
      BY <3>2, <3>5, <2>1 DEF LifeInv, ZeroEnds
    <3> QED BY <3>6, <2>8 DEF FreesIds, Freed
  <2>9. CASE Clear
    BY <2>2, <2>9 DEF Clear
  <2> QED BY <2>6, <2>7, <2>8, <2>9, StepKinds DEF LifeInv
<1> QED BY <1>1, LifeInvariance, PTL DEF Spec, OnlyZeroLosesIds
=============================================================================
