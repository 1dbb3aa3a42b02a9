------------------------- MODULE ChunkMerge_proofs -------------------------
(***************************************************************************)
(* Proofs about ChunkMerge, for any chunks and archetypes: the sort that   *)
(* merge_chunks begins with loses no chunk, though it relinks the chunk    *)
(* under its cursor, and pouring loses no entity.                          *)
(*                                                                         *)
(* The list is witnessed by the sequence s of its m chunks, as it is in    *)
(* ChunkList_proofs; the sort has walked the first u of them.              *)
(***************************************************************************)
EXTENDS ChunkMerge, ChunkList_proofs

\* A chunk comes before the one at place p.
PutBefore(n, c, d) ==
    [x \in Chunk |->
        [n[x] EXCEPT !.next = CASE x = d -> c [] x = n[c].prev -> d [] OTHER -> @,
                     !.prev = CASE x = d -> n[c].prev [] x = c -> d [] OTHER -> @]]

LEMMA PutBeforeIs ==
    ASSUME NEW n \in Nodes, NEW c \in Chunk, NEW d \in Chunk, d # c, n[c].prev # d
    PROVE  /\ PutBefore(n, c, d) \in Nodes
           /\ SameButLinks(n, PutBefore(n, c, d))
           /\ \A x \in Chunk :
                 /\ PutBefore(n, c, d)[x].next =
                        IF x = d THEN c ELSE IF x = n[c].prev THEN d ELSE n[x].next
                 /\ PutBefore(n, c, d)[x].prev =
                        IF x = d THEN n[c].prev ELSE IF x = c THEN d ELSE n[x].prev
                 /\ x \notin {d, c, n[c].prev} => PutBefore(n, c, d)[x] = n[x]
<1>1. \A x \in Chunk : /\ n[x] \in Node /\ n[x].next \in Pointer /\ n[x].prev \in Pointer
    BY NodeFields
<1>2. c \in Pointer /\ d \in Pointer
    BY DEF Pointer
<1> DEFINE next(x) == IF x = d THEN c ELSE IF x = n[c].prev THEN d ELSE n[x].next
           prev(x) == IF x = d THEN n[c].prev ELSE IF x = c THEN d ELSE n[x].prev
           after == PutBefore(n, c, d)
<1>3. ASSUME NEW x \in Chunk
      PROVE  after[x] = [n[x] EXCEPT !.next = next(x), !.prev = prev(x)]
    BY DEF PutBefore
<1>4. \A x \in Chunk : next(x) \in Pointer /\ prev(x) \in Pointer
    BY <1>1, <1>2
<1>5. after = [x \in Chunk |-> after[x]]
    BY DEF PutBefore
<1> HIDE DEF after, next, prev
<1>6. ASSUME NEW x \in Chunk
      PROVE  /\ after[x] \in Node /\ after[x].next = next(x) /\ after[x].prev = prev(x)
             /\ after[x].type = n[x].type /\ after[x].bin = n[x].bin
             /\ after[x].count = n[x].count
  <2>1. n[x] \in Node /\ next(x) \in Pointer /\ prev(x) \in Pointer
    BY <1>1, <1>4
  <2>2. after[x] = [n[x] EXCEPT !.next = next(x), !.prev = prev(x)]
    BY <1>3
  <2> QED BY ONLY <2>1, <2>2 DEF Node
<1>7. after \in Nodes
    BY <1>5, <1>6 DEF Nodes
<1>8. ASSUME NEW x \in Chunk, x \notin {d, c, n[c].prev} PROVE after[x] = n[x]
  <2>1. next(x) = n[x].next /\ prev(x) = n[x].prev
    BY <1>8 DEF next, prev
  <2> QED BY <1>1, <1>6, <2>1, SameNode
<1> QED BY <1>6, <1>7, <1>8 DEF SameButLinks, after, next, prev

LEMMA PutBeforeLinked ==
    ASSUME NEW n \in Nodes, NEW s, NEW m, Sequence(s, m), Linked(n, s, m), NEW p \in 1 .. m,
           NEW d \in Chunk, ~ In(s, m, d)
    PROVE  /\ PutBefore(n, s[p], d) \in Nodes
           /\ SameButLinks(n, PutBefore(n, s[p], d))
           /\ Linked(PutBefore(n, s[p], d), Insert(s, m, p, d), m + 1)
<1> DEFINE after == PutBefore(n, s[p], d)
           t == Insert(s, m, p, d)
<1>1. m \in Nat /\ p \in Int /\ p \in 1 .. m + 1
    BY DEF Sequence
<1>2. n[s[p]].prev = At(s, m, p - 1)
    BY DEF Linked
<1>3. \A i \in Int : At(s, m, i) # d
    BY ChunkListAssumption DEF At, In
<1>4. s[p] \in Chunk /\ s[p] # d
    BY AtIs DEF In
<1>5. /\ after \in Nodes /\ SameButLinks(n, after)
      /\ \A x \in Chunk :
            /\ after[x].next = IF x = d THEN s[p]
                               ELSE IF x = At(s, m, p - 1) THEN d ELSE n[x].next
            /\ after[x].prev = IF x = d THEN At(s, m, p - 1)
                               ELSE IF x = s[p] THEN d ELSE n[x].prev
    BY <1>1, <1>2, <1>3, <1>4, PutBeforeIs
<1> HIDE DEF after
<1>6. \A i \in Int : At(t, m + 1, i) = IF i < p THEN At(s, m, i)
                                       ELSE IF i = p THEN d ELSE At(s, m, i - 1)
    BY <1>1, InsertAt
<1> HIDE DEF t
<1>7. ASSUME NEW i \in 1 .. m + 1
      PROVE  after[t[i]].next = At(t, m + 1, i + 1) /\ after[t[i]].prev = At(t, m + 1, i - 1)
  <2>1. t[i] = At(t, m + 1, i) /\ i \in Int
    BY <1>1 DEF At
  <2>2. CASE i < p
    <3>1. t[i] = s[i] /\ i \in 1 .. m /\ i # p /\ s[i] \in Chunk
      BY <1>1, <1>6, <2>1, <2>2, AtIs
    <3>2. s[i] # s[p] /\ s[i] # d
      BY <1>1, <1>3, <3>1, AtIs
    <3>3. after[s[i]].prev = At(s, m, i - 1)
      BY <1>5, <3>1, <3>2 DEF Linked
    <3>4. At(t, m + 1, i - 1) = At(s, m, i - 1)
      BY <1>1, <1>6, <2>1, <2>2
    <3>5. CASE i = p - 1
      <4>1. s[i] = At(s, m, p - 1)
        BY <3>1, <3>5, AtIs
      <4>2. after[s[i]].next = d
        BY <1>5, <3>1, <3>2, <4>1
      <4>3. At(t, m + 1, i + 1) = d
        BY <1>1, <1>6, <3>5
      <4> QED BY <3>1, <3>3, <3>4, <4>2, <4>3
    <3>6. CASE i # p - 1
      <4>1. s[i] # At(s, m, p - 1)
        BY <1>1, <3>1, <3>6, AtIs
      <4>2. after[s[i]].next = At(s, m, i + 1)
        BY <1>5, <3>1, <3>2, <4>1 DEF Linked
      <4>3. At(t, m + 1, i + 1) = At(s, m, i + 1)
        BY <1>1, <1>6, <2>1, <2>2, <3>6
      <4> QED BY <3>1, <3>3, <3>4, <4>2, <4>3
    <3> QED BY <3>5, <3>6
  <2>3. CASE i = p
    <3>1. t[i] = d
      BY <1>1, <1>6, <2>1, <2>3
    <3>2. after[d].next = s[p] /\ after[d].prev = At(s, m, p - 1)
      BY <1>4, <1>5
    <3>3. At(t, m + 1, i + 1) = s[p]
      <4>1. At(t, m + 1, p + 1) = At(s, m, p)
        BY <1>1, <1>6
      <4> QED BY <2>3, <4>1, AtIs
    <3>4. At(t, m + 1, i - 1) = At(s, m, p - 1)
      BY <1>1, <1>6, <2>1, <2>3
    <3> QED BY <3>1, <3>2, <3>3, <3>4
  <2>4. CASE i > p
    <3> DEFINE j == i - 1
    <3>1. t[i] = s[j] /\ j \in 1 .. m /\ j # p - 1 /\ j >= p /\ j \in Int /\ s[j] \in Chunk
      BY <1>1, <1>6, <2>1, <2>4, AtIs
    <3>2. s[j] # At(s, m, p - 1) /\ s[j] # d
      <4> HIDE DEF j
      <4> QED BY <1>1, <1>3, <3>1, AtIs
    <3>3. after[s[j]].next = At(s, m, j + 1)
      BY <1>5, <3>1, <3>2 DEF Linked
    <3>4. At(t, m + 1, i + 1) = At(s, m, j + 1)
      BY <1>1, <1>6, <2>1, <2>4
    <3>5. CASE j = p
      <4>1. after[s[j]].prev = d
        BY <1>4, <1>5, <3>2, <3>5
      <4>2. At(t, m + 1, i - 1) = d
        BY <1>1, <1>6, <2>1, <3>5
      <4> QED BY <3>1, <3>3, <3>4, <4>1, <4>2
    <3>6. CASE j # p
      <4>1. s[j] # s[p]
        BY <3>1, <3>6, AtIs
      <4>2. after[s[j]].prev = At(s, m, j - 1)
        BY <1>5, <3>1, <3>2, <4>1 DEF Linked
      <4>3. At(t, m + 1, i - 1) = At(s, m, j - 1)
        BY <1>1, <1>6, <2>1, <2>4, <3>6
      <4> QED BY <3>1, <3>3, <3>4, <4>2, <4>3
    <3> QED BY <3>5, <3>6
  <2> QED BY <1>1, <2>1, <2>2, <2>3, <2>4
<1>8. Linked(after, t, m + 1)
    BY <1>7 DEF Linked
<1> QED BY <1>5, <1>8 DEF after, t

LEMMA BeforeIs ==
    ASSUME NEW n, NEW c, NEW d
    PROVE  Before(n, c, d) = PutBefore(Unlink(n, d), c, d)
BY DEF Before, PutBefore

\* A chunk behind place q of the list moves before the one at place q.
LEMMA BeforeLinked ==
    ASSUME NEW n \in Nodes, NEW s, NEW m, Sequence(s, m), Linked(n, s, m),
           NEW p \in 1 .. m, NEW q \in 1 .. m, q < p,
           NEW t, t = Insert(Without(s, m, p), m - 1, q, s[p]),
           NEW after, after = Before(n, s[q], s[p])
    PROVE  /\ after \in Nodes /\ SameButLinks(n, after)
           /\ Sequence(t, m) /\ Linked(after, t, m)
           /\ \A x : In(t, m, x) <=> In(s, m, x)
           /\ \A i \in Int : i > p => At(t, m, i) = At(s, m, i)
           /\ At(t, m, 1) = IF q = 1 THEN s[p] ELSE s[1]
<1> DEFINE u == Unlink(n, s[p])
           w == Without(s, m, p)
<1>1. m \in Nat /\ p \in Int /\ q \in Int /\ q \in 1 .. m - 1 /\ m - 1 \in Nat /\ (m - 1) + 1 = m
      /\ s[p] \in Chunk
    BY AtIs DEF Sequence
<1>2. /\ u \in Nodes /\ SameButLinks(n, u) /\ Linked(u, w, m - 1)
    BY UnlinkLinked
<1>3. /\ Sequence(w, m - 1)
      /\ \A x : In(w, m - 1, x) <=> In(s, m, x) /\ x # s[p]
    BY WithoutIs
<1>4. \A i \in Int : At(w, m - 1, i) = IF i < p THEN At(s, m, i) ELSE At(s, m, i + 1)
    BY WithoutAt
<1>5. w[q] = s[q]
    BY <1>1 DEF Without
<1>6. after = PutBefore(u, w[q], s[p])
    BY <1>5, BeforeIs
<1>7. t = Insert(w, m - 1, q, s[p])
    OBVIOUS
<1> HIDE DEF u, w
<1>8. ~ In(w, m - 1, s[p])
    BY <1>3
<1>9. after \in Nodes /\ SameButLinks(u, after) /\ Linked(after, t, (m - 1) + 1)
    BY <1>1, <1>2, <1>3, <1>6, <1>7, <1>8, PutBeforeLinked
<1>10. q \in 1 .. (m - 1) + 1
    BY <1>1
<1>11. /\ Sequence(t, (m - 1) + 1)
       /\ \A x : In(t, (m - 1) + 1, x) <=> In(w, m - 1, x) \/ x = s[p]
    BY <1>1, <1>3, <1>7, <1>8, <1>10, InsertIs
<1>12. \A i \in Int : At(t, (m - 1) + 1, i) =
                          IF i < q THEN At(w, m - 1, i)
                          ELSE IF i = q THEN s[p] ELSE At(w, m - 1, i - 1)
    BY <1>3, <1>7, <1>10, InsertAt
<1>13. SameButLinks(n, after)
    BY <1>2, <1>9 DEF SameButLinks
<1>14. In(s, m, s[p])
    BY DEF In
<1>15. \A x : In(t, m, x) <=> In(s, m, x)
    BY <1>1, <1>3, <1>11, <1>14
<1>16. ASSUME NEW i \in Int, i > p PROVE At(t, m, i) = At(s, m, i)
  <2>1. At(t, m, i) = At(w, m - 1, i - 1)
    BY <1>1, <1>12, <1>16
  <2>2. i - 1 \in Int /\ ~ (i - 1 < p) /\ (i - 1) + 1 = i
    BY <1>1, <1>16
  <2> QED BY <1>4, <2>1, <2>2
<1>17. At(t, m, 1) = IF q = 1 THEN s[p] ELSE s[1]
  <2>1. CASE q = 1
    BY <1>1, <1>12, <2>1
  <2>2. CASE q # 1
    <3>1. 1 < q /\ 1 < p /\ 1 \in 1 .. m
      BY <1>1, <2>2
    <3>2. At(t, m, 1) = At(s, m, 1)
      BY <1>1, <1>4, <1>12, <3>1
    <3> QED BY <2>2, <3>1, <3>2, AtIs
  <2> QED BY <2>1, <2>2
<1> QED BY <1>1, <1>9, <1>11, <1>13, <1>15, <1>16, <1>17

-----------------------------------------------------------------------------
(* The inductive invariant.                                                *)

\* The list of g, of which lastChunk need not be the last while it is sorted.
Chain(g, s, m) ==
    ListOf([a |-> [first |-> arch[g].first, last |-> At(s, m, m)], n |-> node],
           ChunksOf(node, g), s, m)

SortInv ==
    /\ WorldType
    /\ \E g \in Archetype : \E s, m : \E u \in 1 .. m :
           /\ Chain(g, s, m)
           /\ call = [op |-> "sort", g |-> g, unsorted |-> At(s, m, u + 1)]

\* After the sort.
LaterInv ==
    \/ \E added \in SUBSET Chunk : \E g, left :
           call = [op |-> "large", g |-> g, left |-> left, added |-> added]
    \/ \E g, dst : call = [op |-> "pour", g |-> g, dst |-> dst]
    \/ \E g : call = [op |-> "merged", g |-> g]

\* No chunk holds more than fits, be it in a list or not.
Filled == node \in Nodes /\ \A c \in Chunk : node[c].count <= Capacity[node[c].bin]

MergeInv == Filled /\ (IInv \/ SortInv \/ LaterInv)

\* What Chain says.
LEMMA ChainIs ==
    ASSUME NEW g, NEW s, NEW m
    PROVE  Chain(g, s, m) <=> /\ Sequence(s, m) /\ Linked(node, s, m)
                              /\ \A c : In(s, m, c) <=> c \in ChunksOf(node, g)
                              /\ arch[g].first = At(s, m, 1)
BY DEF Chain, ListOf

\* Where following next from firstChunk leads.
LEMMA ChainHops ==
    ASSUME NEW g, NEW s, NEW m, Chain(g, s, m)
    PROVE  /\ m = Cardinality(ChunksOf(node, g)) /\ m \in 0 .. Cardinality(Chunk)
           /\ Cardinality(Chunk) \in Nat
           /\ Hops(node, arch[g].first) = [k \in 0 .. Cardinality(Chunk) |-> At(s, m, 1 + k)]
<1> DEFINE l == [a |-> [first |-> arch[g].first, last |-> At(s, m, m)], n |-> node]
           M == ChunksOf(node, g)
<1>0. l.n = node
    OBVIOUS
<1>1. ListOf(l, M, s, m)
    BY DEF Chain
<1> HIDE DEF l, M
<1>2. m = Cardinality(M) /\ m \in 0 .. Cardinality(Chunk) /\ Cardinality(Chunk) \in Nat
    BY <1>1, ListSize
<1>3. 1 \in 1 .. m + 1
    BY <1>2
<1>4. Hops(l.n, At(s, m, 1)) = [k \in 0 .. Cardinality(Chunk) |-> At(s, m, 1 + k)]
    BY ONLY <1>1, <1>3, HopsOfList
<1> QED BY <1>0, <1>2, <1>4, ChainIs DEF M

\* The sorted chunks are the first u.
LEMMA SortedIs ==
    ASSUME NEW g, NEW s, NEW m, Chain(g, s, m), NEW u \in 1 .. m,
           u + 1 \in 1 .. m, call.unsorted = s[u + 1]
    PROVE  Sorted(g) = [k \in 0 .. u - 1 |-> At(s, m, 1 + k)]
<1> DEFINE hop == Hops(node, arch[g].first)
           N == Cardinality(Chunk)
           end == CHOOSE k \in DOMAIN hop : hop[k] = call.unsorted
<1>1. /\ m \in 0 .. N /\ N \in Nat
      /\ hop = [k \in 0 .. N |-> At(s, m, 1 + k)]
    BY ChainHops
<1>2. Sequence(s, m)
    BY ChainIs
<1> HIDE DEF hop, N
<1>3. DOMAIN hop = 0 .. N /\ \A k \in 0 .. N : hop[k] = At(s, m, 1 + k)
    BY <1>1
<1>4. u \in 0 .. N /\ 1 + u = u + 1
    BY <1>1
<1>5. hop[u] = call.unsorted
    BY <1>2, <1>3, <1>4, AtIs
<1>6. end \in 0 .. N /\ hop[end] = call.unsorted
    BY <1>3, <1>4, <1>5
<1> HIDE DEF end
<1>7. At(s, m, 1 + end) = s[u + 1] /\ 1 + end \in Int
    BY <1>1, <1>3, <1>6
<1>8. 1 + end = u + 1
    BY <1>2, <1>7, AtIs
<1>9. end = u
    BY <1>1, <1>6, <1>8
<1>10. Sorted(g) = [k \in 0 .. end - 1 |-> hop[k]]
    BY DEF Sorted, hop, end
<1>11. \A k \in 0 .. u - 1 : hop[k] = At(s, m, 1 + k)
    BY <1>1, <1>3
<1> QED BY <1>9, <1>10, <1>11

\* What the sort does to the list: nothing but to the last pointer, or a move.
LEMMA SortStepCases ==
    ASSUME SortStep, DOMAIN Sorted(call.g) \subseteq Nat,
           NEW last,
           last = IF node[call.unsorted].next = NoChunk THEN call.unsorted ELSE arch[call.g].last
    PROVE  \/ arch' = [arch EXCEPT ![call.g].last = last] /\ node' = node
           \/ \E k \in DOMAIN Sorted(call.g) :
                 /\ node' = Before(node, Sorted(call.g)[k], call.unsorted)
                 /\ arch' = [arch EXCEPT ![call.g].last = last,
                                         ![call.g].first =
                                             IF @ = Sorted(call.g)[k] THEN call.unsorted ELSE @]
<1> DEFINE g == call.g
           d == call.unsorted
           hop == Sorted(g)
           worse == {k \in DOMAIN hop : Ahead(hop[k], d)}
           i == CHOOSE k \in worse : \A j \in worse : k <= j
           l == IF node[d].next = NoChunk THEN d ELSE arch[g].last
<1>1. IF worse = {}
      THEN arch' = [arch EXCEPT ![g].last = l] /\ UNCHANGED node
      ELSE /\ node' = Before(node, hop[i], d)
           /\ arch' = [arch EXCEPT ![g].last = l, ![g].first = IF @ = hop[i] THEN d ELSE @]
    BY Zenon DEF SortStep
<1>2. l = last
    OBVIOUS
<1>3. worse \subseteq DOMAIN hop /\ worse \subseteq Nat
    OBVIOUS
<1>4. worse # {} => i \in worse
  <2> HIDE DEF worse
  <2>1. worse # {} => \E k \in worse : \A j \in worse : k <= j
    BY <1>3, LeastNat
  <2> QED BY <2>1
<1> HIDE DEF worse, i, l
<1>5. CASE worse = {}
    BY <1>1, <1>2, <1>5
<1>6. CASE worse # {}
    BY <1>1, <1>2, <1>3, <1>4, <1>6
<1> QED BY <1>5, <1>6

\* The sort moves a chunk, or leaves it where it is, and goes on to the next.
LEMMA SortStepIs ==
    ASSUME SortInv, SortStep
    PROVE  SortInv' /\ SameButLinks(node, node') /\ node' \in Nodes
<1>0. PICK g \in Archetype :
          \E s, m : \E u \in 1 .. m :
              /\ Chain(g, s, m)
              /\ call = [op |-> "sort", g |-> g, unsorted |-> At(s, m, u + 1)]
    BY DEF SortInv
<1>1. PICK s, m :
          \E u \in 1 .. m :
              /\ Chain(g, s, m)
              /\ call = [op |-> "sort", g |-> g, unsorted |-> At(s, m, u + 1)]
    BY <1>0
<1>2. PICK u \in 1 .. m :
           /\ Chain(g, s, m)
           /\ call = [op |-> "sort", g |-> g, unsorted |-> At(s, m, u + 1)]
    BY <1>1
<1>3. call.g = g /\ call.unsorted = At(s, m, u + 1)
    BY <1>2
<1>4. /\ Sequence(s, m) /\ Linked(node, s, m)
      /\ \A c : In(s, m, c) <=> c \in ChunksOf(node, g)
      /\ arch[g].first = At(s, m, 1)
      /\ m \in Nat
    BY <1>2, ChainIs DEF Sequence
<1>5. WorldType /\ node \in Nodes
    BY DEF SortInv, WorldType
<1>6. u + 1 \in 1 .. m
    BY <1>3, <1>4 DEF SortStep, At
<1> DEFINE d == s[u + 1]
           rest == node[d].next
           last == IF rest = NoChunk THEN d ELSE arch[g].last
<1>7. call.unsorted = d /\ d \in Chunk
    BY <1>3, <1>4, <1>6, AtIs DEF At
<1>8. rest = At(s, m, (u + 1) + 1) /\ rest \in Pointer
    BY <1>4, <1>5, <1>6, <1>7, NodeFields DEF Linked
<1>9. arch[g] \in Header /\ last \in Pointer
    BY <1>5, <1>7 DEF WorldType, Header, Pointer
<1>10. call' = [op |-> "sort", g |-> g, unsorted |-> rest]
    BY <1>2, <1>7 DEF SortStep
<1>11. \/ arch' = [arch EXCEPT ![g].last = last] /\ node' = node
       \/ \E q \in 1 .. u :
             /\ node' = Before(node, s[q], d)
             /\ arch' = [arch EXCEPT ![g].last = last,
                                     ![g].first = IF @ = s[q] THEN d ELSE @]
  <2>1. Sorted(g) = [k \in 0 .. u - 1 |-> At(s, m, 1 + k)]
    BY <1>2, <1>6, <1>7, SortedIs
  <2> HIDE DEF d, last
  <2>2. DOMAIN Sorted(g) = 0 .. u - 1 /\ 0 .. u - 1 \subseteq Nat
    BY <2>1
  <2>3. last = IF node[call.unsorted].next = NoChunk THEN call.unsorted ELSE arch[call.g].last
    BY <1>3, <1>7 DEF last
  <2>4. ASSUME NEW k \in 0 .. u - 1
        PROVE  1 + k \in 1 .. u /\ Sorted(g)[k] = s[1 + k]
    <3>1. 1 + k \in 1 .. u /\ 1 + k \in 1 .. m
      BY <1>4
    <3> QED BY <1>4, <2>1, <3>1, AtIs
  <2>5. \/ arch' = [arch EXCEPT ![g].last = last] /\ node' = node
        \/ \E k \in 0 .. u - 1 :
              /\ node' = Before(node, Sorted(g)[k], d)
              /\ arch' = [arch EXCEPT ![g].last = last,
                                      ![g].first = IF @ = Sorted(g)[k] THEN d ELSE @]
    <3>1. DOMAIN Sorted(call.g) \subseteq Nat
      BY <1>3, <2>2
    <3>2. \/ arch' = [arch EXCEPT ![call.g].last = last] /\ node' = node
          \/ \E k \in DOMAIN Sorted(call.g) :
                /\ node' = Before(node, Sorted(call.g)[k], call.unsorted)
                /\ arch' = [arch EXCEPT ![call.g].last = last,
                                        ![call.g].first =
                                            IF @ = Sorted(call.g)[k] THEN call.unsorted ELSE @]
      BY <2>3, <3>1, SortStepCases
    <3> QED BY <1>3, <1>7, <2>2, <3>2
  <2> QED BY <2>4, <2>5
<1>12. u + 1 \in 1 .. m /\ (u + 1) + 1 \in Int /\ (u + 1) + 1 > u + 1
    BY <1>6
<1> HIDE DEF d, rest, last
<1>13. CASE arch' = [arch EXCEPT ![g].last = last] /\ node' = node
  <2>1. arch' \in [Archetype -> Header] /\ arch'[g].first = arch[g].first
    BY <1>5, <1>9, <1>13 DEF WorldType, Header
  <2>2. WorldType'
    BY <1>5, <1>13, <2>1 DEF WorldType
  <2>3. Chain(g, s, m)'
    BY <1>4, <1>13, <2>1 DEF Chain, ListOf, ChunksOf
  <2>4. SortInv'
    BY <1>8, <1>10, <1>12, <2>2, <2>3 DEF SortInv
  <2> QED BY <1>5, <1>13, <2>4 DEF SameButLinks
<1>14. ASSUME NEW q \in 1 .. u,
              node' = Before(node, s[q], d),
              arch' = [arch EXCEPT ![g].last = last, ![g].first = IF @ = s[q] THEN d ELSE @]
       PROVE  SortInv' /\ SameButLinks(node, node') /\ node' \in Nodes
  <2> DEFINE t == Insert(Without(s, m, u + 1), m - 1, q, s[u + 1])
             after == Before(node, s[q], s[u + 1])
  <2>1. q \in 1 .. m /\ q < u + 1
    BY <1>4
  <2>2. /\ after \in Nodes /\ SameButLinks(node, after)
        /\ Sequence(t, m) /\ Linked(after, t, m)
        /\ \A x : In(t, m, x) <=> In(s, m, x)
        /\ \A i \in Int : i > u + 1 => At(t, m, i) = At(s, m, i)
        /\ At(t, m, 1) = IF q = 1 THEN s[u + 1] ELSE s[1]
    BY <1>4, <1>5, <1>6, <2>1, BeforeLinked
  <2>3. node' = after
    BY <1>14 DEF d
  <2> HIDE DEF after, t
  <2>4. arch' \in [Archetype -> Header]
    BY <1>5, <1>7, <1>9, <1>14 DEF WorldType, Header, Pointer
  <2>5. WorldType'
    BY <2>2, <2>3, <2>4 DEF WorldType
  <2>6. arch'[g].first = IF arch[g].first = s[q] THEN d ELSE arch[g].first
    BY <1>5, <1>9, <1>14 DEF WorldType, Header
  <2>7. arch'[g].first = At(t, m, 1)
    <3>1. 1 \in 1 .. m /\ q \in Int
      BY <1>4, <1>6
    <3>2. At(s, m, 1) = s[1] /\ (s[1] = s[q] <=> q = 1)
      BY <1>4, <2>1, <3>1, AtIs
    <3> QED BY <1>4, <2>2, <2>6, <3>2 DEF d
  <2>8. \A c : c \in ChunksOf(after, g) <=> c \in ChunksOf(node, g)
    BY <2>2 DEF ChunksOf, SameButLinks
  <2>9. Chain(g, t, m)'
    BY <1>4, <2>2, <2>3, <2>7, <2>8 DEF Chain, ListOf, ChunksOf
  <2>10. call' = [op |-> "sort", g |-> g, unsorted |-> At(t, m, (u + 1) + 1)]
    BY <1>8, <1>10, <1>12, <2>2
  <2>11. SortInv'
    BY <1>12, <2>5, <2>9, <2>10 DEF SortInv
  <2> QED BY <2>2, <2>3, <2>11
<1> QED BY <1>11, <1>13, <1>14

\* The sort begins with the second chunk of the list.
LEMMA MergeIs ==
    ASSUME IInv, NEW g \in Archetype, Merge(g)
    PROVE  SortInv'
<1>1. WorldType /\ Listed(Lists(g), ChunksOf(node, g), FullOf(node))
    BY DEF IInv, World, ListInv
<1>2. PICK s, m, k : Good(Lists(g), ChunksOf(node, g), FullOf(node), s, m, k)
    BY <1>1 DEF Listed
<1>3. ListOf(Lists(g), ChunksOf(node, g), s, m)
    BY <1>2 DEF Good
<1>4. Lists(g).n = node /\ Lists(g).a = arch[g]
    BY DEF Lists
<1>5. Sequence(s, m) /\ Linked(node, s, m) /\ arch[g].first = At(s, m, 1) /\ m \in Nat
    BY <1>3, <1>4 DEF ListOf, Sequence
<1>6. Chain(g, s, m)
    BY <1>3, <1>4, <1>5, ChainIs DEF ListOf
<1>7. 1 \in 1 .. m /\ arch[g].first = s[1]
    BY <1>5 DEF Merge, At
<1>8. node[s[1]].next = At(s, m, 1 + 1)
    BY <1>5, <1>7 DEF Linked
<1>9. call' = [op |-> "sort", g |-> g, unsorted |-> At(s, m, 1 + 1)]
    BY <1>7, <1>8 DEF Merge
<1>10. arch' = arch /\ node' = node
    BY DEF Merge
<1>11. WorldType' /\ Chain(g, s, m)'
    BY <1>1, <1>6, <1>10 DEF WorldType, Chain
<1> QED BY <1>7, <1>9, <1>11 DEF SortInv

\* Which call is in progress.
LEMMA Phases ==
    /\ IInv => call.op \in {"idle", "allocate", "cast"}
    /\ SortInv => call.op = "sort"
    /\ LaterInv => call.op \in {"large", "pour", "merged"}
    /\ Next => call.op \in {"idle", "allocate", "cast"}
<1>1. IInv => call.op \in {"idle", "allocate", "cast"}
    BY DEF IInv, CallInv, Idle
<1>2. SortInv => call.op = "sort"
    BY DEF SortInv
<1>3. LaterInv => call.op \in {"large", "pour", "merged"}
    BY DEF LaterInv
<1>4. ASSUME NEW g, NEW n, Allocate(g, n) PROVE call = Idle
    BY <1>4 DEF Allocate
<1>5. ASSUME NEW c, NEW n, FreeSlice(c, n) PROVE call = Idle
    BY <1>5 DEF FreeSlice
<1>6. ASSUME NEW c, NEW n, NEW g, CastSlice(c, n, g) PROVE call = Idle
    BY <1>6 DEF CastSlice
<1>7. ASSUME NEW c, NEW g, CastWhole(c, g) PROVE call = Idle
    BY <1>7 DEF CastWhole
<1>8. ASSUME NEW g, NEW c, NEW n, NEW size, Load(g, c, n, size) PROVE call = Idle
    BY <1>8 DEF Load
<1>9. ASSUME Clear PROVE call = Idle
    BY <1>9 DEF Clear
<1>10. ASSUME NEW c, AllocateStep(c) PROVE call.op = "allocate"
    BY <1>10 DEF AllocateStep
<1>11. ASSUME NEW c, CastStep(c) PROVE call.op = "cast"
    BY <1>11 DEF CastStep
<1>12. ASSUME CastEnd PROVE call.op = "cast"
    BY <1>12 DEF CastEnd
<1>13. Idle.op = "idle"
    BY DEF Idle
<1>14. ASSUME Next PROVE call.op \in {"idle", "allocate", "cast"}
    BY <1>4, <1>5, <1>6, <1>7, <1>8, <1>9, <1>10, <1>11, <1>12, <1>13, <1>14, Zenon DEF Next
<1> QED BY <1>1, <1>2, <1>3, <1>14

\* No call of ChunkList overfills a chunk.
LEMMA IInvFilled == IInv => Filled
<1> SUFFICES ASSUME IInv PROVE Filled
    OBVIOUS
<1>1. node \in Nodes
    BY DEF IInv, World, WorldType
<1>2. ASSUME NEW c \in Chunk PROVE node[c].count <= Capacity[node[c].bin]
  <2>1. node[c].bin \in Bin
    BY <1>1, NodeFields
  <2>2. CASE node[c].type = NoArchetype
    BY <2>1, <2>2, CapacityIs DEF IInv, UnusedEmpty
  <2>3. CASE node[c].type # NoArchetype
    <3>1. node[c].count \in 1 .. Capacity[node[c].bin]
      BY <2>3 DEF IInv, World, NoneOverfull
    <3> QED BY <2>1, <3>1, CapacityIs
  <2> QED BY <2>2, <2>3
<1> QED BY <1>1, <1>2 DEF Filled

-----------------------------------------------------------------------------
(* Pouring.                                                                *)

\* Unlinking changes nothing but links, whatever the links are.
LEMMA UnlinkAnywhere ==
    ASSUME NEW n \in Nodes, NEW c \in Chunk
    PROVE  Unlink(n, c) \in Nodes /\ SameButLinks(n, Unlink(n, c))
<1> DEFINE after == Unlink(n, c)
           next(d) == CASE d = c -> NoChunk [] d = n[c].prev -> n[c].next [] OTHER -> n[d].next
           prev(d) == CASE d = c -> NoChunk [] d = n[c].next -> n[c].prev [] OTHER -> n[d].prev
<1>1. after = [d \in Chunk |-> after[d]]
    BY DEF Unlink
<1>2. ASSUME NEW d \in Chunk
      PROVE  after[d] = [n[d] EXCEPT !.next = next(d), !.prev = prev(d)]
    BY DEF Unlink
<1>3. ASSUME NEW d \in Chunk
      PROVE  /\ n[d] \in Node /\ next(d) \in Pointer /\ prev(d) \in Pointer
    BY NodeFields DEF Pointer
<1> HIDE DEF after, next, prev
<1>4. ASSUME NEW d \in Chunk
      PROVE  /\ after[d] \in Node /\ after[d].type = n[d].type
             /\ after[d].bin = n[d].bin /\ after[d].count = n[d].count
    BY <1>2, <1>3 DEF Node
<1> QED BY <1>1, <1>4 DEF Nodes, SameButLinks, after

\* What is destroyed is as new; the others keep what they hold.
LEMMA DestroyAnywhere ==
    ASSUME NEW l, l.n \in Nodes, NEW c \in Chunk, NEW r, r = DestroyChunk(l, c)
    PROVE  /\ r.n \in Nodes
           /\ r.n[c] = NewNode(Small)
           /\ \A d \in Chunk \ {c} : r.n[d].bin = l.n[d].bin /\ r.n[d].count = l.n[d].count
<1> DEFINE u == Unlink(l.n, c)
<1>1. RemoveChunk(l, c).n = u
    BY DEF RemoveChunk, Remove
<1>2. r.n = [u EXCEPT ![c] = NewNode(Small)]
    BY <1>1 DEF DestroyChunk
<1>3. u \in Nodes /\ SameButLinks(l.n, u)
    BY UnlinkAnywhere
<1>4. NewNode(Small) \in Node
    BY NewNodeIs DEF Bin, Small, Large
<1> HIDE DEF u
<1> QED BY <1>2, <1>3, <1>4 DEF Nodes, SameButLinks

\* k entities leave src for dst.
Moved(n, dst, src, k, r) ==
    /\ r \in Nodes
    /\ r[dst].count = n[dst].count + k
    /\ n[src].count = r[src].count + k
    /\ \A c \in Chunk \ {dst, src} : r[c].count = n[c].count

\* Both chunks of Pour are chunks, and what moves fits.
LEMMA PourIs ==
    ASSUME MergeInv, Pour
    PROVE  /\ Filled' /\ LaterInv'
           /\ \E dst, src \in Chunk, k \in Nat : dst # src /\ Moved(node, dst, src, k, node')
<1>1. \E g, dst : call = [op |-> "pour", g |-> g, dst |-> dst]
  <2>1. call.op = "pour"
    BY DEF Pour
  <2>2. LaterInv
    BY <2>1, Phases DEF MergeInv
  <2> QED BY <2>1, <2>2 DEF LaterInv
<1>2. PICK g, dst : call = [op |-> "pour", g |-> g, dst |-> dst]
    BY <1>1
<1>3. call.g = g /\ call.dst = dst
    BY <1>2
<1> DEFINE src == arch[g].last
           full == Capacity[node[dst].bin]
           k == Smaller(full - node[dst].count, node[src].count)
           n == Poured(dst, src, k)
           l == [a |-> arch[g], n |-> n]
           r == IF n[src].count = 0 THEN DestroyChunk(l, src) ELSE l
<1>4. dst # src /\ dst \in Held /\ src \in Held /\ node' = r.n
    BY <1>3 DEF Pour, Becomes
<1>5. dst \in Chunk /\ src \in Chunk
    BY <1>3, <1>4 DEF Held, Of
<1>6. \E d : call' = [call EXCEPT !.dst = d]
    BY <1>3 DEF Pour
<1>7. LaterInv'
    BY <1>2, <1>6 DEF LaterInv
<1> HIDE DEF src
<1>8. /\ node \in Nodes /\ node[dst] \in Node /\ node[src] \in Node
      /\ full \in Nat /\ node[dst].count \in Nat /\ node[src].count \in Nat
      /\ node[dst].count <= full
      /\ \A c \in Chunk : node[c].count <= Capacity[node[c].bin]
    BY <1>5, NodeFields, CapacityIs DEF MergeInv, Filled
<1>9. /\ k \in Nat /\ node[dst].count + k <= full /\ node[src].count - k \in Nat
      /\ node[src].count - k <= node[src].count
    BY <1>8 DEF Smaller
<1> HIDE DEF k
<1>10. /\ n \in [Chunk -> Node]
       /\ n[dst].count = node[dst].count + k /\ n[dst].bin = node[dst].bin
       /\ n[src].count = node[src].count - k /\ n[src].bin = node[src].bin
       /\ \A c \in Chunk \ {dst, src} : n[c] = node[c]
  <2>1. dst # src /\ dst \in Chunk /\ src \in Chunk
    BY <1>4, <1>5
  <2>2. node[dst].count + k \in Nat
    BY <1>8, <1>9
  <2> HIDE <1>4
  <2> QED BY <1>8, <1>9, <2>1, <2>2 DEF Poured, Nodes, Node
<1>11. n \in Nodes
    BY <1>10 DEF Nodes
<1> HIDE DEF n
<1>12. l.n = n
    OBVIOUS
<1> HIDE DEF l
<1>13. /\ r.n \in Nodes
       /\ \A c \in Chunk \ {src} : r.n[c].bin = n[c].bin /\ r.n[c].count = n[c].count
       /\ r.n[src].count = n[src].count
       /\ r.n[src].count <= Capacity[r.n[src].bin]
  <2>1. node[src].bin \in Bin /\ node[src].count <= Capacity[node[src].bin]
    BY <1>5, <1>8, NodeFields
  <2>2. Capacity[node[src].bin] \in Nat
    BY <2>1, CapacityIs
  <2>3. CASE n[src].count = 0
    <3>1. r = DestroyChunk(l, src)
      BY <2>3
    <3> HIDE DEF r
    <3>2. /\ r.n \in Nodes /\ r.n[src] = NewNode(Small)
          /\ \A c \in Chunk \ {src} : r.n[c].bin = l.n[c].bin /\ r.n[c].count = l.n[c].count
      BY <1>5, <1>11, <1>12, <3>1, DestroyAnywhere
    <3>3. Small \in Bin
      BY DEF Bin, Small, Large
    <3>4. /\ r.n[src].count = 0 /\ r.n[src].bin = Small
          /\ Capacity[Small] >= 0 /\ Capacity[Small] \in Nat
      BY <3>2, <3>3, NewNodeIs, CapacityIs
    <3> QED BY <1>12, <2>3, <3>2, <3>4
  <2>4. CASE n[src].count # 0
    <3>1. r.n = n
      BY <1>12, <2>4
    <3> QED BY <1>8, <1>9, <1>10, <1>11, <2>1, <2>2, <3>1
  <2> QED BY <2>3, <2>4
<1> HIDE DEF r
<1>14. node'[dst].count = node[dst].count + k /\ node'[dst].bin = node[dst].bin
    BY <1>4, <1>5, <1>10, <1>13
<1>15. node'[src].count = node[src].count - k
    BY <1>4, <1>10, <1>13
<1>16. \A c \in Chunk \ {dst, src} : node'[c].count = node[c].count /\ node'[c].bin = node[c].bin
    BY <1>4, <1>10, <1>13
<1>17. Moved(node, dst, src, k, node')
    BY <1>4, <1>8, <1>9, <1>13, <1>14, <1>15, <1>16 DEF Moved
<1>18. ASSUME NEW c \in Chunk PROVE node'[c].count <= Capacity[node'[c].bin]
  <2>1. CASE c = dst
    BY <1>9, <1>14, <2>1
  <2>2. CASE c = src
    BY <1>4, <1>13, <2>2
  <2>3. CASE c \notin {dst, src}
    BY <1>8, <1>16, <2>3
  <2> QED BY <2>1, <2>2, <2>3
<1>19. Filled'
    BY <1>4, <1>13, <1>18 DEF Filled
<1> QED BY <1>4, <1>5, <1>7, <1>9, <1>17, <1>19

-----------------------------------------------------------------------------
(* Every step.                                                             *)

\* What changes links only leaves the chunks as full as they were.
LEMMA FilledStays ==
    ASSUME Filled, node' \in Nodes, SameButLinks(node, node')
    PROVE  Filled'
BY DEF Filled, SameButLinks

\* What follows the sort does not lead back to it.
LEMMA MergeStepIs ==
    ASSUME MergeInv, MergeStep
    PROVE  MergeInv'
<1>1. CASE SortStep
  <2>1. SortInv /\ Filled
    BY <1>1, Phases DEF MergeInv, SortStep
  <2> QED BY <1>1, <2>1, SortStepIs, FilledStays DEF MergeInv
<1>2. ASSUME node' = node PROVE Filled'
    BY <1>2 DEF MergeInv, Filled
<1>3. CASE SortEnd
  <2>1. LaterInv'
    <3>1. {} \in SUBSET Chunk
      OBVIOUS
    <3> QED BY <1>3, <3>1 DEF SortEnd, LaterInv
  <2> QED BY <1>2, <1>3, <2>1 DEF MergeInv, SortEnd
<1>4. ASSUME call.op = "large"
      PROVE  \E added \in SUBSET Chunk : \E g, left :
                 call = [op |-> "large", g |-> g, left |-> left, added |-> added]
    BY <1>4, Phases DEF MergeInv, LaterInv
<1>5. CASE CountLarge
  <2>1. node' = node /\ \E left : call' = [call EXCEPT !.left = left]
    BY <1>5 DEF CountLarge
  <2>2. LaterInv'
    BY <1>4, <1>5, <2>1 DEF LaterInv, CountLarge
  <2> QED BY <1>2, <2>1, <2>2 DEF MergeInv
<1>6. ASSUME NEW c \in Chunk, NewLarge(c) PROVE MergeInv'
  <2>1. PICK added \in SUBSET Chunk :
            \E g, left : call = [op |-> "large", g |-> g, left |-> left, added |-> added]
    BY <1>4, <1>6 DEF NewLarge
  <2>2. PICK left : call' = [call EXCEPT !.left = left, !.added = call.added \cup {c}]
    BY <1>6 DEF NewLarge
  <2>3. added \cup {c} \in SUBSET Chunk
    OBVIOUS
  <2>4. PICK g, n : call = [op |-> "large", g |-> g, left |-> n, added |-> added]
    BY <2>1
  <2>5. call' = [op |-> "large", g |-> g, left |-> left, added |-> added \cup {c}]
    BY <2>2, <2>4
  <2>6. LaterInv'
    BY <2>3, <2>5 DEF LaterInv
  <2>7. Large \in Bin
    BY DEF Bin, Small, Large
  <2>8. /\ NewNode(Large) \in Node /\ NewNode(Large).count = 0 /\ NewNode(Large).bin = Large
        /\ Capacity[Large] >= 0 /\ Capacity[Large] \in Nat
    BY <2>7, NewNodeIs, CapacityIs
  <2>9. node' = [node EXCEPT ![c] = NewNode(Large)]
    BY <1>6 DEF NewLarge
  <2>10. Filled'
    BY <2>8, <2>9 DEF MergeInv, Filled, Nodes
  <2> QED BY <2>10, <2>6 DEF MergeInv
<1>7. CASE LargeEnd
  <2>1. node' = node /\ \E g, dst : call' = [op |-> "pour", g |-> g, dst |-> dst]
    BY <1>7 DEF LargeEnd
  <2>2. LaterInv'
    BY <2>1 DEF LaterInv
  <2> QED BY <1>2, <2>1, <2>2 DEF MergeInv
<1>8. CASE Pour
    BY <1>8, PourIs DEF MergeInv
<1>9. CASE MergeEnd
  <2>1. LaterInv' /\ node' = node
    BY <1>9 DEF MergeEnd, LaterInv
  <2> QED BY <1>2, <2>1 DEF MergeInv
<1> QED BY <1>1, <1>3, <1>5, <1>6, <1>7, <1>8, <1>9 DEF MergeStep

LEMMA MergeNextIs ==
    ASSUME ~ AnyRelabel, ~ AnyLoad, MergeInv, [MergeNext]_vars
    PROVE  MergeInv'
<1>1. ASSUME IInv' PROVE MergeInv'
  <2>1. Filled'
    BY <1>1, IInvFilled, PTL
  <2> QED BY <1>1, <2>1 DEF MergeInv
<1>2. CASE Next
  <2>1. IInv
    BY <1>2, Phases DEF MergeInv
  <2>2. IInv'
    BY <1>2, <2>1, StepIs
  <2> QED BY <1>1, <2>2
<1>3. ASSUME NEW g \in Archetype, Merge(g) PROVE MergeInv'
  <2>1. IInv
    BY <1>3, Phases DEF MergeInv, Merge, Idle
  <2>2. SortInv'
    BY <1>3, <2>1, MergeIs
  <2>3. Filled'
    BY <1>3 DEF Merge, MergeInv, Filled
  <2> QED BY <2>2, <2>3 DEF MergeInv
<1>4. CASE MergeStep
    BY <1>4, MergeStepIs
<1>5. CASE UNCHANGED vars
  <2>1. arch' = arch /\ node' = node /\ call' = call
    BY <1>5 DEF vars
  <2>2. IInv => IInv'
    BY <1>5, StepIs
  <2>3. SortInv => SortInv'
    BY <2>1 DEF SortInv, WorldType, Chain
  <2>4. LaterInv => LaterInv'
    BY <2>1 DEF LaterInv
  <2>5. Filled'
    BY <2>1 DEF MergeInv, Filled
  <2> QED BY <2>2, <2>3, <2>4, <2>5 DEF MergeInv
<1> QED BY <1>2, <1>3, <1>4, <1>5 DEF MergeNext

LEMMA SortIsGood == MergeInv => SortKeepsChunks
<1> SUFFICES ASSUME MergeInv, call.op = "sort"
             PROVE  LET hop == Hops(node, arch[call.g].first)
                        size == Cardinality(Of(call.g))
                    IN  {hop[k] : k \in 0 .. size - 1} = Of(call.g) /\ hop[size] = NoChunk
    BY DEF SortKeepsChunks
<1>1. SortInv
    BY Phases DEF MergeInv
<1>2. PICK g \in Archetype : \E s, m : Chain(g, s, m) /\ call.g = g
    BY <1>1 DEF SortInv
<1>3. PICK s, m : Chain(g, s, m) /\ call.g = g
    BY <1>2
<1> DEFINE hop == Hops(node, arch[g].first)
           N == Cardinality(Chunk)
           M == ChunksOf(node, g)
<1>4. m = Cardinality(M) /\ m \in 0 .. N /\ N \in Nat
      /\ hop = [k \in 0 .. N |-> At(s, m, 1 + k)]
    BY <1>3, ChainHops
<1>5. \A c : In(s, m, c) <=> c \in M
    BY <1>3, ChainIs
<1>6. Of(g) = M
    BY DEF Of, ChunksOf
<1> HIDE DEF hop, N, M
<1>7. \A j \in 0 .. m - 1 : hop[j] = s[j + 1] /\ j + 1 \in 1 .. m
    BY <1>4 DEF At
<1>8. {hop[j] : j \in 0 .. m - 1} = M
  <2>1. ASSUME NEW j \in 0 .. m - 1 PROVE hop[j] \in M
    BY <1>5, <1>7 DEF In
  <2>2. ASSUME NEW c \in M PROVE \E j \in 0 .. m - 1 : hop[j] = c
    <3>1. PICK i \in 1 .. m : s[i] = c
      BY <1>5 DEF In
    <3>2. i - 1 \in 0 .. m - 1 /\ (i - 1) + 1 = i
      BY <1>4
    <3> QED BY <1>7, <3>1, <3>2
  <2> QED BY <2>1, <2>2
<1>9. hop[m] = NoChunk
    BY <1>4 DEF At
<1> QED BY <1>3, <1>4, <1>6, <1>8, <1>9 DEF hop

-----------------------------------------------------------------------------
(* Sums.  Entities adds up the counts of a set in the order in which       *)
(* CHOOSE picks its elements.                                              *)

Picked(S) == CHOOSE d \in S : TRUE

Sums(f, n) ==
    \A S \in SUBSET Chunk :
        f[S] = IF S = {} THEN 0 ELSE n[Picked(S)].count + f[S \ {Picked(S)}]

LEMMA PickedIs ==
    ASSUME NEW S \in SUBSET Chunk
    PROVE  /\ Cardinality(S) \in Nat /\ Cardinality(S) <= Cardinality(Chunk)
           /\ Cardinality(Chunk) \in Nat
           /\ Cardinality(S) = 0 <=> S = {}
           /\ S # {} => /\ Picked(S) \in S /\ Picked(S) \in Chunk
                        /\ S \ {Picked(S)} \in SUBSET Chunk
                        /\ Cardinality(S \ {Picked(S)}) = Cardinality(S) - 1
<1>1. IsFiniteSet(Chunk)
    BY ChunkListAssumption
<1>2. IsFiniteSet(S) /\ Cardinality(S) <= Cardinality(Chunk)
    BY <1>1, FS_Subset
<1>3. Cardinality(S) \in Nat /\ Cardinality(Chunk) \in Nat
    BY <1>1, <1>2, FS_CardinalityType
<1>4. Cardinality(S) = 0 <=> S = {}
    BY <1>2, FS_EmptySet
<1>5. ASSUME S # {}
      PROVE  /\ Picked(S) \in S /\ Picked(S) \in Chunk
             /\ S \ {Picked(S)} \in SUBSET Chunk
             /\ Cardinality(S \ {Picked(S)}) = Cardinality(S) - 1
  <2>1. Picked(S) \in S
    BY <1>5 DEF Picked
  <2> QED BY <1>2, <2>1, FS_RemoveElement
<1> QED BY <1>2, <1>3, <1>4, <1>5

\* What holds of the empty set, and of a set when it holds without the element
\* picked, holds of all sets of chunks.
LEMMA AllSubsets ==
    ASSUME NEW X, {} \in X,
           \A S \in SUBSET Chunk : S # {} /\ S \ {Picked(S)} \in X => S \in X
    PROVE  SUBSET Chunk \subseteq X
<1> SUFFICES ASSUME NEW T \in SUBSET Chunk, T \notin X PROVE FALSE
    OBVIOUS
<1> DEFINE Bad == {Cardinality(S) : S \in (SUBSET Chunk) \ X}
<1>0. \A S \in SUBSET Chunk : Cardinality(S) \in Nat
    BY PickedIs
<1>1. Bad \subseteq Nat /\ Cardinality(T) \in Bad
    BY <1>0
<1>2. PICK k \in Bad : \A j \in Bad : k <= j
    BY <1>1, LeastNat
<1>3. PICK S \in (SUBSET Chunk) \ X : k = Cardinality(S)
    BY <1>2
<1>4. S # {} /\ S \ {Picked(S)} \notin X
    BY <1>3
<1>5. S \ {Picked(S)} \in SUBSET Chunk /\ Cardinality(S \ {Picked(S)}) = k - 1 /\ k \in Nat
    BY <1>3, <1>4, PickedIs
<1>6. k - 1 \in Bad
    BY <1>4, <1>5
<1> QED BY <1>2, <1>5, <1>6

\* There are such sums.
LEMMA SumsExist ==
    ASSUME NEW n \in Nodes
    PROVE  \E f \in [SUBSET Chunk -> Nat] : Sums(f, n)
<1> DEFINE Whole == SUBSET Chunk
           UpTo(f, k) ==
               \A S \in Whole : Cardinality(S) <= k =>
                   f[S] = IF S = {} THEN 0 ELSE n[Picked(S)].count + f[S \ {Picked(S)}]
           Reached == {k \in Nat : \E f \in [Whole -> Nat] : UpTo(f, k)}
<1>1. \A c \in Chunk : n[c].count \in Nat
    BY NodeFields
<1>2. 0 \in Reached
  <2> DEFINE f == [S \in Whole |-> 0]
  <2>1. ASSUME NEW S \in Whole, Cardinality(S) <= 0 PROVE S = {}
    <3>1. Cardinality(S) \in Nat /\ (Cardinality(S) = 0 <=> S = {})
      BY PickedIs
    <3> QED BY <2>1, <3>1
  <2>2. f \in [Whole -> Nat] /\ UpTo(f, 0)
    BY <2>1
  <2> QED BY <2>2
<1>3. ASSUME NEW k \in Nat, k \in Reached PROVE k + 1 \in Reached
  <2>1. PICK f \in [Whole -> Nat] : UpTo(f, k)
    BY <1>3
  <2> DEFINE Total(S) == IF S = {} THEN 0 ELSE n[Picked(S)].count + f[S \ {Picked(S)}]
             g == [S \in Whole |-> IF Cardinality(S) <= k THEN f[S] ELSE Total(S)]
  <2>2. ASSUME NEW S \in Whole
        PROVE  Total(S) \in Nat /\ (Cardinality(S) <= k => f[S] = Total(S))
    <3>1. S # {} => Picked(S) \in Chunk /\ S \ {Picked(S)} \in Whole
      BY PickedIs
    <3> QED BY <1>1, <2>1, <3>1
  <2> HIDE DEF Total
  <2>3. \A S \in Whole : g[S] = Total(S) /\ g[S] \in Nat
    BY <2>2
  <2>4. g \in [Whole -> Nat]
    BY <2>2, <2>3
  <2>5. ASSUME NEW S \in Whole, Cardinality(S) <= k + 1
        PROVE  g[S] = IF S = {} THEN 0 ELSE n[Picked(S)].count + g[S \ {Picked(S)}]
    <3>1. CASE S = {}
      BY <2>3, <3>1 DEF Total
    <3>2. CASE S # {}
      <4>1. /\ Cardinality(S) \in Nat /\ S \ {Picked(S)} \in Whole
            /\ Cardinality(S \ {Picked(S)}) = Cardinality(S) - 1
        BY <3>2, PickedIs
      <4>2. Cardinality(S \ {Picked(S)}) <= k
        BY <2>5, <4>1
      <4>3. g[S \ {Picked(S)}] = f[S \ {Picked(S)}]
        BY <4>1, <4>2
      <4> QED BY <2>3, <3>2, <4>3 DEF Total
    <3> QED BY <3>1, <3>2
  <2> HIDE DEF g
  <2>6. UpTo(g, k + 1)
    BY <2>5
  <2> HIDE DEF UpTo
  <2>7. k + 1 \in Nat /\ \E h \in [Whole -> Nat] : UpTo(h, k + 1)
    BY <2>4, <2>6
  <2> QED BY <2>7
<1> HIDE DEF Reached
<1>4. Nat \ Reached = {}
  <2> SUFFICES ASSUME Nat \ Reached # {} PROVE FALSE
    OBVIOUS
  <2>1. PICK k \in Nat \ Reached : \A j \in Nat \ Reached : k <= j
    BY LeastNat
  <2>2. k # 0
    BY <1>2
  <2>3. k - 1 \in Nat /\ ~ (k <= k - 1) /\ (k - 1) + 1 = k
    BY <2>2
  <2>4. k - 1 \in Reached
    BY <2>1, <2>3
  <2> QED BY <1>3, <2>1, <2>3, <2>4
<1>5. Cardinality(Chunk) \in Reached
  <2>1. Cardinality(Chunk) \in Nat
    BY ChunkListAssumption, FS_CardinalityType
  <2> QED BY <1>4, <2>1
<1>6. PICK f \in [Whole -> Nat] : UpTo(f, Cardinality(Chunk))
    BY <1>5 DEF Reached
<1>7. \A S \in Whole : Cardinality(S) <= Cardinality(Chunk)
    BY PickedIs
<1>8. Sums(f, n)
    BY <1>6, <1>7 DEF Sums
<1> QED BY <1>8

\* Entities is the sum over all chunks.
SumsFit ==
    node \in Nodes =>
        \A f \in [SUBSET Chunk -> Nat] : Sums(f, node) => Entities = f[Chunk]

LEMMA EntitiesAre == SumsFit
<1> SUFFICES ASSUME node \in Nodes, NEW f \in [SUBSET Chunk -> Nat], Sums(f, node)
             PROVE  Entities = f[Chunk]
    BY DEF SumsFit
<1> DEFINE Is(h) == h = [S \in SUBSET Chunk |->
                            IF S = {} THEN 0
                            ELSE LET c == CHOOSE d \in S : TRUE
                                 IN  node[c].count + h[S \ {c}]]
           sum == CHOOSE h : Is(h)
<1>1. Entities = sum[Chunk]
    BY DEF Entities
<1>2. Is(f)
    BY DEF Sums, Picked
<1> HIDE DEF Is
<1>3. Is(sum)
    BY <1>2
<1> HIDE DEF sum
<1>4. \A S \in SUBSET Chunk :
          sum[S] = IF S = {} THEN 0 ELSE node[Picked(S)].count + sum[S \ {Picked(S)}]
    BY <1>3 DEF Is, Picked
<1> DEFINE X == {S \in SUBSET Chunk : sum[S] = f[S]}
<1>5. {} \in X
    BY <1>4 DEF Sums
<1>6. ASSUME NEW S \in SUBSET Chunk, S # {}, S \ {Picked(S)} \in X PROVE S \in X
    BY <1>4, <1>6 DEF Sums
<1>7. SUBSET Chunk \subseteq X
  <2> HIDE DEF X
  <2> QED BY <1>5, <1>6, AllSubsets
<1> QED BY <1>1, <1>7

\* However they are summed, two states of the chunks hold equally many entities.
SameSum(n, r) ==
    \A f \in [SUBSET Chunk -> Nat], g \in [SUBSET Chunk -> Nat] :
        Sums(f, n) /\ Sums(g, r) => f[Chunk] = g[Chunk]

\* What one chunk gains and another loses does not change the sum.
LEMMA SumsAgree ==
    ASSUME NEW n \in Nodes, NEW r, NEW dst \in Chunk, NEW src \in Chunk, dst # src,
           NEW k \in Nat, Moved(n, dst, src, k, r)
    PROVE  SameSum(n, r)
<1> SUFFICES ASSUME NEW f \in [SUBSET Chunk -> Nat], Sums(f, n),
                    NEW g \in [SUBSET Chunk -> Nat], Sums(g, r)
             PROVE  f[Chunk] = g[Chunk]
    BY DEF SameSum
<1> DEFINE plus(S, c) == IF c \in S THEN k ELSE 0
           X == {S \in SUBSET Chunk : g[S] + plus(S, src) = f[S] + plus(S, dst)}
<1>1. {} \in X
    BY DEF Sums
<1>2. ASSUME NEW S \in SUBSET Chunk, S # {}, S \ {Picked(S)} \in X PROVE S \in X
  <2>1. PICK e \in Chunk : e = Picked(S) /\ e \in S
    BY <1>2, PickedIs
  <2>2. PICK T \in SUBSET Chunk : T = S \ {e}
    OBVIOUS
  <2>3. g[T] + plus(T, src) = f[T] + plus(T, dst)
    BY <1>2, <2>1, <2>2
  <2>4. g[S] = r[e].count + g[T] /\ f[S] = n[e].count + f[T]
    BY <1>2, <2>1, <2>2 DEF Sums
  <2>5. g[T] \in Nat /\ f[T] \in Nat /\ r[e].count \in Nat /\ n[e].count \in Nat
    BY NodeFields DEF Moved
  <2>6. \A c \in Chunk : c # e => plus(S, c) = plus(T, c)
    BY <2>2
  <2>7. plus(S, e) = k /\ plus(T, e) = 0
    BY <2>1, <2>2
  <2>8. plus(T, src) \in Nat /\ plus(T, dst) \in Nat
    OBVIOUS
  <2> HIDE DEF plus
  <2>9. g[S] + plus(S, src) = f[S] + plus(S, dst)
    <3>1. CASE e = dst
      <4>1. r[e].count = n[e].count + k /\ plus(S, src) = plus(T, src)
        BY <2>6, <3>1 DEF Moved
      <4> QED BY <2>3, <2>4, <2>5, <2>7, <2>8, <3>1, <4>1
    <3>2. CASE e = src
      <4>1. n[e].count = r[e].count + k /\ plus(S, dst) = plus(T, dst)
        BY <2>6, <3>2 DEF Moved
      <4> QED BY <2>3, <2>4, <2>5, <2>7, <2>8, <3>2, <4>1
    <3>3. CASE e \notin {dst, src}
      <4>1. /\ r[e].count = n[e].count
            /\ plus(S, src) = plus(T, src) /\ plus(S, dst) = plus(T, dst)
        BY <2>6, <3>3 DEF Moved
      <4> QED BY <2>3, <2>4, <2>5, <2>8, <4>1
    <3> QED BY <3>1, <3>2, <3>3
  <2> QED BY <2>9
<1>3. Chunk \in X
  <2>1. SUBSET Chunk \subseteq X
    <3> HIDE DEF X
    <3> QED BY <1>1, <1>2, AllSubsets
  <2> QED BY <2>1
<1>4. g[Chunk] + k = f[Chunk] + k /\ g[Chunk] \in Nat /\ f[Chunk] \in Nat
    BY <1>3
<1> QED BY <1>4

LEMMA PourKeeps ==
    ASSUME MergeInv, Pour
    PROVE  /\ Entities' = Entities
           /\ \A c \in Chunk : node'[c].count \in 0 .. Capacity[node'[c].bin]
<1>1. Filled' /\ node \in Nodes
    BY PourIs DEF MergeInv, Filled
<1>2. PICK dst \in Chunk, src \in Chunk, k \in Nat :
          dst # src /\ Moved(node, dst, src, k, node')
    BY PourIs
<1>3. PICK n, r : n = node /\ r = node'
    OBVIOUS
<1>4. n \in Nodes /\ r \in Nodes /\ Moved(n, dst, src, k, r) /\ dst # src
    BY <1>1, <1>2, <1>3 DEF Moved
<1>5. PICK f \in [SUBSET Chunk -> Nat] : Sums(f, n)
    BY <1>4, SumsExist
<1>6. PICK g \in [SUBSET Chunk -> Nat] : Sums(g, r)
    BY <1>4, SumsExist
<1>7. f[Chunk] = g[Chunk]
  <2>1. SameSum(n, r)
    BY ONLY <1>4, SumsAgree
  <2> QED BY <1>5, <1>6, <2>1 DEF SameSum
<1>8. Entities = f[Chunk]
    BY <1>1, <1>3, <1>5, EntitiesAre DEF SumsFit
<1>9. SumsFit'
    BY EntitiesAre, PTL
<1>10. Entities' = g[Chunk]
    BY <1>3, <1>4, <1>6, <1>9 DEF SumsFit, Sums
<1>11. ASSUME NEW c \in Chunk PROVE node'[c].count \in 0 .. Capacity[node'[c].bin]
  <2>1. r[c].count \in Nat /\ r[c].count <= Capacity[r[c].bin] /\ r[c].bin \in Bin
    BY <1>1, <1>3, <1>4, NodeFields DEF Filled
  <2>2. Capacity[r[c].bin] \in Nat
    BY <2>1, CapacityIs
  <2> QED BY <1>3, <2>1, <2>2
<1> QED BY <1>7, <1>8, <1>10, <1>11

-----------------------------------------------------------------------------
(* The theorems.                                                           *)

\* Whatever calls come before merge_chunks and however far it is, no chunk is
\* overfull; while it sorts, the list holds every chunk of its archetype once,
\* and the cursor is the chunk behind the part that it has walked.
THEOREM MergeInvariance ==
    ASSUME ~ AnyRelabel, ~ AnyLoad
    PROVE  MergeSpec => []MergeInv
<1>1. Init => MergeInv
    BY Initially, IInvFilled DEF MergeInv
<1>2. MergeInv /\ [MergeNext]_vars => MergeInv'
    BY MergeNextIs
<1> QED BY <1>1, <1>2, PTL DEF MergeSpec

\* While merge_chunks sorts the list in place, every chunk of the archetype is
\* met once from firstChunk on, from whatever lists the world has made.
THEOREM SortLosesNoChunk ==
    ASSUME ~ AnyRelabel, ~ AnyLoad
    PROVE  MergeSpec => []SortKeepsChunks
BY MergeInvariance, SortIsGood, PTL

\* When merge_chunks pours a chunk into another, no entity is lost or counted
\* twice, and no chunk is overfilled.
THEOREM PouringLosesNoEntity ==
    ASSUME ~ AnyRelabel, ~ AnyLoad
    PROVE  MergeSpec => PourKeepsEntities
<1>1. MergeInv /\ [MergeNext]_vars =>
          [Pour => /\ Entities' = Entities
                   /\ \A c \in Chunk : node'[c].count \in 0 .. Capacity[node'[c].bin]]_vars
    BY PourKeeps
<1> QED BY <1>1, MergeInvariance, PTL DEF MergeSpec, PourKeepsEntities
=============================================================================
