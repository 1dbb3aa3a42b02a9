-------------------------- MODULE ChunkList_proofs --------------------------
(***************************************************************************)
(* Proofs about ChunkList, for any chunks, archetypes, capacities and      *)
(* hints: however chunks are linked, unlinked, moved to the full ones and  *)
(* back, the lists stay lists.                                             *)
(*                                                                         *)
(* A list is witnessed by the sequence s of its m chunks, of which the     *)
(* first k are full.                                                       *)
(***************************************************************************)
EXTENDS ChunkList, FiniteSetTheorems, TLAPS

\* What pointer leads to place i of the list.
At(s, m, i) == IF i \in 1 .. m THEN s[i] ELSE NoChunk

Injective(s, m) == \A i, j \in 1 .. m : s[i] = s[j] => i = j
Sequence(s, m) == m \in Nat /\ s \in [1 .. m -> Chunk] /\ Injective(s, m)
In(s, m, c) == \E i \in 1 .. m : s[i] = c

\* The links of the chunks of a list.
Linked(n, s, m) ==
    \A i \in 1 .. m : n[s[i]].next = At(s, m, i + 1) /\ n[s[i]].prev = At(s, m, i - 1)

\* The list without the chunk at place p, and with c at place p.
Without(s, m, p) == [i \in 1 .. m - 1 |-> IF i < p THEN s[i] ELSE s[i + 1]]
Insert(s, m, p, c) ==
    [i \in 1 .. m + 1 |-> IF i < p THEN s[i] ELSE IF i = p THEN c ELSE s[i - 1]]

Nodes == [Chunk -> Node]

\* Nothing but links has changed, and only those of the chunks in S.
SameButLinks(n, after) ==
    \A d \in Chunk : /\ after[d].type = n[d].type
                     /\ after[d].bin = n[d].bin
                     /\ after[d].count = n[d].count
SameOutside(n, after, S) == \A d \in Chunk \ S : after[d] = n[d]

-----------------------------------------------------------------------------
(* Sequences of chunks.                                                    *)

LEMMA WithoutIs ==
    ASSUME NEW s, NEW m, Sequence(s, m), NEW p \in 1 .. m
    PROVE  /\ Sequence(Without(s, m, p), m - 1)
           /\ \A d : In(Without(s, m, p), m - 1, d) <=> In(s, m, d) /\ d # s[p]
<1> DEFINE t == Without(s, m, p)
<1>1. m \in Nat /\ m - 1 \in Nat /\ s \in [1 .. m -> Chunk]
    BY DEF Sequence
<1>2. \A i \in 1 .. m - 1 : /\ i < p => t[i] = s[i] /\ i \in 1 .. m
                            /\ ~ (i < p) => t[i] = s[i + 1] /\ i + 1 \in 1 .. m
    BY <1>1 DEF Without
<1>3. t \in [1 .. m - 1 -> Chunk]
    BY <1>1, <1>2 DEF Without
<1> HIDE DEF t
<1>4. ASSUME NEW i \in 1 .. m - 1, NEW j \in 1 .. m - 1, t[i] = t[j] PROVE i = j
    BY <1>1, <1>2, <1>4 DEF Sequence, Injective
<1>5. ASSUME NEW d, In(t, m - 1, d) PROVE In(s, m, d) /\ d # s[p]
  <2>1. PICK i \in 1 .. m - 1 : t[i] = d
    BY <1>5 DEF In
  <2> QED BY <1>1, <1>2, <2>1 DEF In, Sequence, Injective
<1>6. ASSUME NEW d, In(s, m, d), d # s[p] PROVE In(t, m - 1, d)
  <2>1. PICK j \in 1 .. m : s[j] = d
    BY <1>6 DEF In
  <2>2. j # p
    BY <1>6, <2>1
  <2>3. CASE j < p
    <3>1. j \in 1 .. m - 1 /\ t[j] = s[j]
      BY <1>1, <1>2, <2>3
    <3> QED BY <2>1, <3>1 DEF In
  <2>4. CASE j > p
    <3>1. j - 1 \in 1 .. m - 1 /\ ~ (j - 1 < p) /\ (j - 1) + 1 = j
      BY <1>1, <2>4
    <3>2. t[j - 1] = s[j]
      BY <1>2, <3>1
    <3> QED BY <2>1, <3>1, <3>2 DEF In
  <2> QED BY <1>1, <2>2, <2>3, <2>4
<1> QED BY <1>1, <1>3, <1>4, <1>5, <1>6 DEF Sequence, Injective, t

LEMMA InsertIs ==
    ASSUME NEW s, NEW m, Sequence(s, m), NEW p \in 1 .. m + 1,
           NEW c \in Chunk, ~ In(s, m, c)
    PROVE  /\ Sequence(Insert(s, m, p, c), m + 1)
           /\ \A d : In(Insert(s, m, p, c), m + 1, d) <=> In(s, m, d) \/ d = c
<1> DEFINE t == Insert(s, m, p, c)
<1>1. m \in Nat /\ m + 1 \in Nat /\ s \in [1 .. m -> Chunk]
    BY DEF Sequence
<1>2. \A i \in 1 .. m + 1 : /\ i < p => t[i] = s[i] /\ i \in 1 .. m
                            /\ i = p => t[i] = c
                            /\ i > p => t[i] = s[i - 1] /\ i - 1 \in 1 .. m
    BY <1>1 DEF Insert
<1>3. t \in [1 .. m + 1 -> Chunk]
    BY <1>1, <1>2 DEF Insert
<1> HIDE DEF t
<1>4. ASSUME NEW i \in 1 .. m + 1, NEW j \in 1 .. m + 1, t[i] = t[j] PROVE i = j
    BY <1>1, <1>2, <1>4 DEF Sequence, Injective, In
<1>5. ASSUME NEW d, In(t, m + 1, d) PROVE In(s, m, d) \/ d = c
  <2>1. PICK i \in 1 .. m + 1 : t[i] = d
    BY <1>5 DEF In
  <2> QED BY <1>1, <1>2, <2>1 DEF In
<1>6. ASSUME NEW d, In(s, m, d) PROVE In(t, m + 1, d)
  <2>1. PICK j \in 1 .. m : s[j] = d
    BY <1>6 DEF In
  <2>2. CASE j < p
    <3>1. j \in 1 .. m + 1 /\ t[j] = s[j]
      BY <1>1, <1>2, <2>2
    <3> QED BY <2>1, <3>1 DEF In
  <2>3. CASE ~ (j < p)
    <3>1. j + 1 \in 1 .. m + 1 /\ j + 1 > p /\ (j + 1) - 1 = j
      BY <1>1, <2>3
    <3>2. t[j + 1] = s[j]
      BY <1>2, <3>1
    <3> QED BY <2>1, <3>1, <3>2 DEF In
  <2> QED BY <2>2, <2>3
<1>7. In(t, m + 1, c)
    BY <1>1, <1>2 DEF In
<1> QED BY <1>1, <1>3, <1>4, <1>5, <1>6, <1>7 DEF Sequence, Injective, t

\* Where the places of the list go.
LEMMA WithoutAt ==
    ASSUME NEW s, NEW m, Sequence(s, m), NEW p \in 1 .. m, NEW i \in Int
    PROVE  At(Without(s, m, p), m - 1, i) = IF i < p THEN At(s, m, i) ELSE At(s, m, i + 1)
BY DEF At, Without, Sequence

LEMMA InsertAt ==
    ASSUME NEW s, NEW m, Sequence(s, m), NEW p \in 1 .. m + 1, NEW c, NEW i \in Int
    PROVE  At(Insert(s, m, p, c), m + 1, i) =
               IF i < p THEN At(s, m, i) ELSE IF i = p THEN c ELSE At(s, m, i - 1)
BY DEF At, Insert, Sequence

\* No two places of a list have the same chunk, and none has NoChunk.
LEMMA AtIs ==
    ASSUME NEW s, NEW m, Sequence(s, m)
    PROVE  /\ \A i \in 1 .. m : At(s, m, i) = s[i] /\ s[i] \in Chunk /\ s[i] # NoChunk
           /\ \A i \in Int : At(s, m, i) \in Pointer
           /\ \A i \in Int : i \notin 1 .. m => At(s, m, i) = NoChunk
           /\ \A i \in 1 .. m, j \in Int : At(s, m, j) = s[i] => j = i
           /\ \A i, j \in 1 .. m : i # j => s[i] # s[j]
BY ChunkListAssumption DEF At, Sequence, Injective, Pointer

-----------------------------------------------------------------------------
(* link and unlink.                                                        *)

LEMMA NodeFields ==
    ASSUME NEW n \in Nodes, NEW c \in Chunk
    PROVE  /\ n[c] \in Node /\ n[c].next \in Pointer /\ n[c].prev \in Pointer
           /\ n[c].type \in Archetype \cup {NoArchetype} /\ n[c].bin \in Bin /\ n[c].count \in Nat
BY DEF Nodes, Node

LEMMA SameNode ==
    ASSUME NEW a \in Node, NEW b \in Node, a.next = b.next, a.prev = b.prev,
           a.type = b.type, a.bin = b.bin, a.count = b.count
    PROVE  a = b
BY DEF Node

LEMMA UnlinkIs ==
    ASSUME NEW n \in Nodes, NEW c \in Chunk, n[c].next # c, n[c].prev # c
    PROVE  /\ Unlink(n, c) \in Nodes
           /\ SameButLinks(n, Unlink(n, c))
           /\ \A d \in Chunk :
                 /\ Unlink(n, c)[d].next =
                        IF d = c THEN NoChunk ELSE IF d = n[c].prev THEN n[c].next ELSE n[d].next
                 /\ Unlink(n, c)[d].prev =
                        IF d = c THEN NoChunk ELSE IF d = n[c].next THEN n[c].prev ELSE n[d].prev
                 /\ d \notin {c, n[c].next, n[c].prev} => Unlink(n, c)[d] = n[d]
<1>1. \A d \in Chunk : /\ n[d] \in Node /\ n[d].next \in Pointer /\ n[d].prev \in Pointer
    BY NodeFields
<1>2. NoChunk \in Pointer
    BY DEF Pointer
<1> DEFINE next(d) == IF d = c THEN NoChunk ELSE IF d = n[c].prev THEN n[c].next ELSE n[d].next
           prev(d) == IF d = c THEN NoChunk ELSE IF d = n[c].next THEN n[c].prev ELSE n[d].prev
           after == Unlink(n, c)
<1>3. ASSUME NEW d \in Chunk
      PROVE  after[d] = [n[d] EXCEPT !.next = next(d), !.prev = prev(d)]
    BY DEF Unlink
<1>4. \A d \in Chunk : next(d) \in Pointer /\ prev(d) \in Pointer
    BY <1>1, <1>2
<1>5. after = [d \in Chunk |-> after[d]]
    BY DEF Unlink
<1> HIDE DEF after, next, prev
<1>6. ASSUME NEW d \in Chunk
      PROVE  /\ after[d] \in Node /\ after[d].next = next(d) /\ after[d].prev = prev(d)
             /\ after[d].type = n[d].type /\ after[d].bin = n[d].bin
             /\ after[d].count = n[d].count
    BY <1>1, <1>3, <1>4 DEF Node
<1>7. after \in Nodes
    BY <1>5, <1>6 DEF Nodes
<1>8. ASSUME NEW d \in Chunk, d \notin {c, n[c].next, n[c].prev} PROVE after[d] = n[d]
  <2>1. next(d) = n[d].next /\ prev(d) = n[d].prev
    BY <1>8 DEF next, prev
  <2> QED BY <1>1, <1>6, <2>1, SameNode
<1> QED BY <1>6, <1>7, <1>8 DEF SameButLinks, after, next, prev

LEMMA LinkIs ==
    ASSUME NEW n \in Nodes, NEW x \in Chunk, NEW c \in Chunk, x # c, n[x].next # c
    PROVE  /\ Link(n, x, c) \in Nodes
           /\ SameButLinks(n, Link(n, x, c))
           /\ \A d \in Chunk :
                 /\ Link(n, x, c)[d].next =
                        IF d = x THEN c ELSE IF d = c THEN n[x].next ELSE n[d].next
                 /\ Link(n, x, c)[d].prev =
                        IF d = c THEN x ELSE IF d = n[x].next THEN c ELSE n[d].prev
                 /\ d \notin {c, x, n[x].next} => Link(n, x, c)[d] = n[d]
<1>1. \A d \in Chunk : /\ n[d] \in Node /\ n[d].next \in Pointer /\ n[d].prev \in Pointer
    BY NodeFields
<1>2. x \in Pointer /\ c \in Pointer
    BY DEF Pointer
<1> DEFINE next(d) == IF d = x THEN c ELSE IF d = c THEN n[x].next ELSE n[d].next
           prev(d) == IF d = c THEN x ELSE IF d = n[x].next THEN c ELSE n[d].prev
           after == Link(n, x, c)
<1>3. ASSUME NEW d \in Chunk
      PROVE  after[d] = [n[d] EXCEPT !.next = next(d), !.prev = prev(d)]
    BY DEF Link
<1>4. \A d \in Chunk : next(d) \in Pointer /\ prev(d) \in Pointer
    BY <1>1, <1>2
<1>5. after = [d \in Chunk |-> after[d]]
    BY DEF Link
<1> HIDE DEF after, next, prev
<1>6. ASSUME NEW d \in Chunk
      PROVE  /\ after[d] \in Node /\ after[d].next = next(d) /\ after[d].prev = prev(d)
             /\ after[d].type = n[d].type /\ after[d].bin = n[d].bin
             /\ after[d].count = n[d].count
    BY <1>1, <1>3, <1>4 DEF Node
<1>7. after \in Nodes
    BY <1>5, <1>6 DEF Nodes
<1>8. ASSUME NEW d \in Chunk, d \notin {c, x, n[x].next} PROVE after[d] = n[d]
  <2>1. next(d) = n[d].next /\ prev(d) = n[d].prev
    BY <1>8 DEF next, prev
  <2> QED BY <1>1, <1>6, <2>1, SameNode
<1> QED BY <1>6, <1>7, <1>8 DEF SameButLinks, after, next, prev

\* A chunk leaves the list it is in.
LEMMA UnlinkLinked ==
    ASSUME NEW n \in Nodes, NEW s, NEW m, Sequence(s, m), Linked(n, s, m), NEW p \in 1 .. m
    PROVE  /\ Unlink(n, s[p]) \in Nodes
           /\ SameButLinks(n, Unlink(n, s[p]))
           /\ Linked(Unlink(n, s[p]), Without(s, m, p), m - 1)
           /\ Unlink(n, s[p])[s[p]].next = NoChunk /\ Unlink(n, s[p])[s[p]].prev = NoChunk
           /\ \A d \in Chunk : ~ In(s, m, d) => Unlink(n, s[p])[d] = n[d]
<1> DEFINE after == Unlink(n, s[p])
           t == Without(s, m, p)
<1>1. m \in Nat /\ p \in Int
    BY DEF Sequence
<1>2. n[s[p]].next = At(s, m, p + 1) /\ n[s[p]].prev = At(s, m, p - 1)
    BY DEF Linked
<1>3. s[p] \in Chunk /\ n[s[p]].next # s[p] /\ n[s[p]].prev # s[p]
    BY <1>1, <1>2, AtIs
<1>4. /\ after \in Nodes /\ SameButLinks(n, after)
      /\ \A d \in Chunk :
            /\ after[d].next = IF d = s[p] THEN NoChunk
                               ELSE IF d = At(s, m, p - 1) THEN At(s, m, p + 1) ELSE n[d].next
            /\ after[d].prev = IF d = s[p] THEN NoChunk
                               ELSE IF d = At(s, m, p + 1) THEN At(s, m, p - 1) ELSE n[d].prev
            /\ d \notin {s[p], At(s, m, p + 1), At(s, m, p - 1)} => after[d] = n[d]
    BY <1>2, <1>3, UnlinkIs
<1> HIDE DEF after
<1>5. \A i \in Int : At(t, m - 1, i) = IF i < p THEN At(s, m, i) ELSE At(s, m, i + 1)
    BY WithoutAt
<1> HIDE DEF t
<1>6. ASSUME NEW i \in 1 .. m - 1
      PROVE  after[t[i]].next = At(t, m - 1, i + 1) /\ after[t[i]].prev = At(t, m - 1, i - 1)
  <2>1. t[i] = At(t, m - 1, i) /\ i \in Int
    BY <1>1 DEF At
  <2>2. CASE i < p
    <3>1. t[i] = s[i] /\ i \in 1 .. m /\ i # p /\ i # p + 1
      BY <1>1, <1>5, <2>1, <2>2, AtIs
    <3>2. s[i] \in Chunk /\ s[i] # s[p] /\ s[i] # At(s, m, p + 1)
      BY <1>1, <3>1, AtIs
    <3>3. after[s[i]].prev = At(s, m, i - 1)
      BY <1>4, <3>1, <3>2 DEF Linked
    <3>4. At(t, m - 1, i - 1) = At(s, m, i - 1)
      BY <1>1, <1>5, <2>1, <2>2
    <3>5. CASE i = p - 1
      <4>1. s[i] = At(s, m, p - 1)
        BY <3>1, <3>5, AtIs
      <4>2. after[s[i]].next = At(s, m, p + 1)
        BY <1>4, <3>2, <4>1
      <4>3. At(t, m - 1, i + 1) = At(s, m, p + 1)
        BY <1>1, <1>5, <3>5
      <4> QED BY <3>1, <3>3, <3>4, <4>2, <4>3
    <3>6. CASE i # p - 1
      <4>1. s[i] # At(s, m, p - 1)
        BY <1>1, <3>1, <3>6, AtIs
      <4>2. after[s[i]].next = At(s, m, i + 1)
        BY <1>4, <3>1, <3>2, <4>1 DEF Linked
      <4>3. At(t, m - 1, i + 1) = At(s, m, i + 1)
        BY <1>1, <1>5, <2>1, <2>2, <3>6
      <4> QED BY <3>1, <3>3, <3>4, <4>2, <4>3
    <3> QED BY <3>5, <3>6
  <2>3. CASE ~ (i < p)
    <3> DEFINE j == i + 1
    <3>1. t[i] = s[j] /\ j \in 1 .. m /\ j # p /\ j # p - 1 /\ j \in Int /\ p < j
      BY <1>1, <1>5, <2>1, <2>3, AtIs
    <3>2. s[j] \in Chunk /\ s[j] # s[p] /\ s[j] # At(s, m, p - 1)
      BY <1>1, <3>1, AtIs
    <3>3. after[s[j]].next = At(s, m, j + 1)
      BY <1>4, <3>1, <3>2 DEF Linked
    <3>4. At(t, m - 1, i + 1) = At(s, m, j + 1)
      BY <1>1, <1>5, <2>1, <2>3
    <3>5. CASE j = p + 1
      <4>1. s[j] = At(s, m, p + 1)
        BY <3>1, <3>5, AtIs
      <4>2. after[s[j]].prev = At(s, m, p - 1)
        BY <1>4, <3>2, <4>1
      <4>3. At(t, m - 1, i - 1) = At(s, m, p - 1)
        BY <1>1, <1>5, <2>1, <3>5
      <4> QED BY <3>1, <3>3, <3>4, <4>2, <4>3
    <3>6. CASE j # p + 1
      <4>1. s[j] # At(s, m, p + 1)
        BY <1>1, <3>1, <3>6, AtIs
      <4>2. after[s[j]].prev = At(s, m, j - 1)
        BY <1>4, <3>1, <3>2, <4>1 DEF Linked
      <4>3. i - 1 \in Int /\ ~ (i - 1 < p) /\ (i - 1) + 1 = j - 1
        BY <1>1, <2>1, <2>3, <3>6
      <4>4. At(t, m - 1, i - 1) = At(s, m, j - 1)
        BY <1>5, <4>3
      <4> QED BY <3>1, <3>3, <3>4, <4>2, <4>4
    <3> QED BY <3>5, <3>6
  <2> QED BY <2>2, <2>3
<1>7. Linked(after, t, m - 1)
    BY <1>6 DEF Linked
<1>8. after[s[p]].next = NoChunk /\ after[s[p]].prev = NoChunk
    BY <1>3, <1>4
<1>9. ASSUME NEW d \in Chunk, ~ In(s, m, d) PROVE after[d] = n[d]
  <2>1. \A i \in Int : At(s, m, i) # d
    BY <1>9, ChunkListAssumption DEF At, In
  <2>2. d # s[p]
    BY <1>9 DEF In
  <2> QED BY <1>1, <1>4, <2>1, <2>2
<1> QED BY <1>4, <1>7, <1>8, <1>9 DEF after, t

\* A chunk comes after the one at place p.
LEMMA LinkLinked ==
    ASSUME NEW n \in Nodes, NEW s, NEW m, Sequence(s, m), Linked(n, s, m), NEW p \in 1 .. m,
           NEW c \in Chunk, ~ In(s, m, c)
    PROVE  /\ Link(n, s[p], c) \in Nodes
           /\ SameButLinks(n, Link(n, s[p], c))
           /\ Linked(Link(n, s[p], c), Insert(s, m, p + 1, c), m + 1)
           /\ \A d \in Chunk : ~ In(s, m, d) /\ d # c => Link(n, s[p], c)[d] = n[d]
<1> DEFINE after == Link(n, s[p], c)
           t == Insert(s, m, p + 1, c)
<1>1. m \in Nat /\ p \in Int /\ p + 1 \in 1 .. m + 1
    BY DEF Sequence
<1>2. n[s[p]].next = At(s, m, p + 1)
    BY DEF Linked
<1>3. \A i \in Int : At(s, m, i) # c
    BY ChunkListAssumption DEF At, In
<1>4. s[p] \in Chunk /\ s[p] # c
    BY AtIs DEF In
<1>5. /\ after \in Nodes /\ SameButLinks(n, after)
      /\ \A d \in Chunk :
            /\ after[d].next = IF d = s[p] THEN c
                               ELSE IF d = c THEN At(s, m, p + 1) ELSE n[d].next
            /\ after[d].prev = IF d = c THEN s[p]
                               ELSE IF d = At(s, m, p + 1) THEN c ELSE n[d].prev
            /\ d \notin {c, s[p], At(s, m, p + 1)} => after[d] = n[d]
    BY <1>1, <1>2, <1>3, <1>4, LinkIs
<1> HIDE DEF after
<1>6. \A i \in Int : At(t, m + 1, i) = IF i < p + 1 THEN At(s, m, i)
                                       ELSE IF i = p + 1 THEN c ELSE At(s, m, i - 1)
    BY <1>1, InsertAt
<1> HIDE DEF t
<1>7. ASSUME NEW i \in 1 .. m + 1
      PROVE  after[t[i]].next = At(t, m + 1, i + 1) /\ after[t[i]].prev = At(t, m + 1, i - 1)
  <2>1. t[i] = At(t, m + 1, i) /\ i \in Int
    BY <1>1 DEF At
  <2>2. CASE i < p + 1
    <3>1. t[i] = s[i] /\ i \in 1 .. m /\ i # p + 1 /\ s[i] \in Chunk
      BY <1>1, <1>6, <2>1, <2>2, AtIs
    <3>2. s[i] # At(s, m, p + 1) /\ s[i] # c
      BY <1>1, <1>3, <3>1, AtIs
    <3>3. after[s[i]].prev = At(s, m, i - 1)
      BY <1>5, <3>1, <3>2 DEF Linked
    <3>4. At(t, m + 1, i - 1) = At(s, m, i - 1)
      BY <1>1, <1>6, <2>1, <2>2
    <3>5. CASE i = p
      <4>1. after[s[i]].next = c
        BY <1>5, <3>1, <3>5
      <4>2. At(t, m + 1, i + 1) = c
        BY <1>1, <1>6, <3>5
      <4> QED BY <3>1, <3>3, <3>4, <4>1, <4>2
    <3>6. CASE i # p
      <4>1. s[i] # s[p]
        BY <3>1, <3>6 DEF Sequence, Injective
      <4>2. after[s[i]].next = At(s, m, i + 1)
        BY <1>5, <3>1, <3>2, <4>1 DEF Linked
      <4>3. At(t, m + 1, i + 1) = At(s, m, i + 1)
        BY <1>1, <1>6, <2>1, <2>2, <3>6
      <4> QED BY <3>1, <3>3, <3>4, <4>2, <4>3
    <3> QED BY <3>5, <3>6
  <2>3. CASE i = p + 1
    <3>1. t[i] = c
      BY <1>1, <1>6, <2>1, <2>3
    <3>2. after[c].next = At(s, m, p + 1) /\ after[c].prev = s[p]
      BY <1>4, <1>5
    <3>3. At(t, m + 1, i + 1) = At(s, m, p + 1)
      BY <1>1, <1>6, <2>1, <2>3
    <3>4. At(t, m + 1, i - 1) = s[p]
      BY <1>1, <1>6, <2>1, <2>3, AtIs
    <3> QED BY <3>1, <3>2, <3>3, <3>4
  <2>4. CASE i > p + 1
    <3> DEFINE j == i - 1
    <3>1. t[i] = s[j] /\ j \in 1 .. m /\ j # p /\ j > p /\ j \in Int /\ s[j] \in Chunk
      BY <1>1, <1>6, <2>1, <2>4, AtIs
    <3>2. s[j] # s[p] /\ s[j] # c
      <4> HIDE DEF j
      <4> QED BY <1>3, <3>1, AtIs
    <3>3. after[s[j]].next = At(s, m, j + 1)
      BY <1>5, <3>1, <3>2 DEF Linked
    <3>4. At(t, m + 1, i + 1) = At(s, m, j + 1)
      BY <1>1, <1>6, <2>1, <2>4
    <3>5. CASE j = p + 1
      <4>1. s[j] = At(s, m, p + 1)
        BY <3>1, <3>5, AtIs
      <4>2. after[s[j]].prev = c
        BY <1>5, <3>1, <3>2, <4>1
      <4>3. At(t, m + 1, i - 1) = c
        BY <1>1, <1>6, <2>1, <3>5
      <4> QED BY <3>1, <3>3, <3>4, <4>2, <4>3
    <3>6. CASE j # p + 1
      <4>1. s[j] # At(s, m, p + 1)
        BY <1>1, <3>1, <3>6, AtIs
      <4>2. after[s[j]].prev = At(s, m, j - 1)
        BY <1>5, <3>1, <3>2, <4>1 DEF Linked
      <4>3. At(t, m + 1, i - 1) = At(s, m, j - 1)
        BY <1>1, <1>6, <2>1, <2>4, <3>6
      <4> QED BY <3>1, <3>3, <3>4, <4>2, <4>3
    <3> QED BY <3>5, <3>6
  <2> QED BY <1>1, <2>1, <2>2, <2>3, <2>4
<1>8. Linked(after, t, m + 1)
    BY <1>7 DEF Linked
<1>9. ASSUME NEW d \in Chunk, ~ In(s, m, d), d # c PROVE after[d] = n[d]
  <2>1. \A i \in Int : At(s, m, i) # d
    BY <1>9, ChunkListAssumption DEF At, In
  <2>2. d # s[p]
    BY <1>9 DEF In
  <2> QED BY <1>1, <1>5, <1>9, <2>1, <2>2
<1> QED BY <1>5, <1>8, <1>9 DEF after, t

\* unmark_free's way to the front: the first chunk is linked behind the new one.
FrontLink(n, c, first) == Link([n EXCEPT ![c].next = n[first].next], c, first)

LEMMA FrontLinked ==
    ASSUME NEW n \in Nodes, NEW s, NEW m, Sequence(s, m), Linked(n, s, m), m >= 1,
           NEW c \in Chunk, ~ In(s, m, c), n[c].prev = NoChunk
    PROVE  /\ FrontLink(n, c, s[1]) \in Nodes
           /\ SameButLinks(n, FrontLink(n, c, s[1]))
           /\ Linked(FrontLink(n, c, s[1]), Insert(s, m, 1, c), m + 1)
           /\ \A d \in Chunk : ~ In(s, m, d) /\ d # c => FrontLink(n, c, s[1])[d] = n[d]
<1> DEFINE mid == [n EXCEPT ![c].next = n[s[1]].next]
           after == Link(mid, c, s[1])
           t == Insert(s, m, 1, c)
<1>1. m \in Nat /\ 1 \in 1 .. m + 1 /\ 1 \in 1 .. m
    BY DEF Sequence
<1>2. n[s[1]].next = At(s, m, 2) /\ s[1] \in Chunk /\ At(s, m, 2) \in Pointer
    BY <1>1, AtIs DEF Linked
<1>3. \A i \in Int : At(s, m, i) # c
    BY ChunkListAssumption DEF At, In
<1>4. s[1] # c /\ At(s, m, 2) # s[1] /\ s[1] # NoChunk
    BY <1>1, AtIs DEF In
<1>5. /\ mid \in Nodes
      /\ mid[c].next = At(s, m, 2) /\ mid[c].prev = NoChunk
      /\ mid[c].type = n[c].type /\ mid[c].bin = n[c].bin /\ mid[c].count = n[c].count
      /\ \A d \in Chunk : d # c => mid[d] = n[d]
    BY <1>2 DEF Nodes, Node
<1> HIDE DEF mid
<1>6. /\ after \in Nodes /\ SameButLinks(mid, after)
      /\ \A d \in Chunk :
            /\ after[d].next = IF d = c THEN s[1]
                               ELSE IF d = s[1] THEN At(s, m, 2) ELSE mid[d].next
            /\ after[d].prev = IF d = s[1] THEN c
                               ELSE IF d = At(s, m, 2) THEN s[1] ELSE mid[d].prev
            /\ d \notin {s[1], c, At(s, m, 2)} => after[d] = mid[d]
    BY <1>2, <1>4, <1>5, LinkIs
<1> HIDE DEF after
<1>7. \A i \in Int : At(t, m + 1, i) = IF i < 1 THEN At(s, m, i)
                                       ELSE IF i = 1 THEN c ELSE At(s, m, i - 1)
    BY <1>1, InsertAt
<1> HIDE DEF t
<1>8. ASSUME NEW i \in 1 .. m + 1
      PROVE  after[t[i]].next = At(t, m + 1, i + 1) /\ after[t[i]].prev = At(t, m + 1, i - 1)
  <2>1. t[i] = At(t, m + 1, i) /\ i \in Int
    BY <1>1 DEF At
  <2>2. CASE i = 1
    <3>1. t[i] = c
      BY <1>7, <2>1, <2>2
    <3>2. after[c].next = s[1] /\ after[c].prev = NoChunk
      BY <1>3, <1>4, <1>5, <1>6
    <3>3. At(t, m + 1, i + 1) = s[1]
      BY <1>1, <1>7, <2>2, AtIs
    <3>4. At(t, m + 1, i - 1) = NoChunk
      BY <1>1, <2>2 DEF At
    <3> QED BY <3>1, <3>2, <3>3, <3>4
  <2>3. CASE i > 1
    <3> DEFINE j == i - 1
    <3>1. t[i] = s[j] /\ j \in 1 .. m /\ j \in Int /\ s[j] \in Chunk
      BY <1>1, <1>7, <2>1, <2>3, AtIs
    <3>2. s[j] # c /\ mid[s[j]].next = At(s, m, j + 1) /\ mid[s[j]].prev = At(s, m, j - 1)
      BY <1>1, <1>3, <1>5, <3>1, AtIs DEF Linked
    <3>3. At(t, m + 1, i + 1) = At(s, m, j + 1)
      BY <1>1, <1>7, <2>1, <2>3
    <3>4. CASE j = 1
      <4>1. after[s[j]].next = At(s, m, j + 1) /\ after[s[j]].prev = c
        BY <1>4, <1>6, <3>1, <3>2, <3>4
      <4>2. At(t, m + 1, i - 1) = c
        BY <1>1, <1>7, <2>1, <3>4
      <4> QED BY <3>1, <3>3, <4>1, <4>2
    <3>5. CASE j = 2
      <4>1. s[j] = At(s, m, 2) /\ s[j] # s[1] /\ At(s, m, j - 1) = s[1]
        <5> HIDE DEF j
        <5> QED BY <1>1, <3>1, <3>5, AtIs
      <4>2. after[s[j]].next = At(s, m, j + 1) /\ after[s[j]].prev = s[1]
        BY <1>6, <3>1, <3>2, <4>1
      <4>3. At(t, m + 1, i - 1) = At(s, m, j - 1)
        BY <1>1, <1>7, <2>1, <3>5
      <4> QED BY <3>1, <3>3, <4>1, <4>2, <4>3
    <3>6. CASE j # 1 /\ j # 2
      <4>1. s[j] # At(s, m, 2) /\ s[j] # s[1]
        <5> HIDE DEF j
        <5> QED BY <1>1, <3>1, <3>6, AtIs
      <4>2. after[s[j]].next = At(s, m, j + 1) /\ after[s[j]].prev = At(s, m, j - 1)
        BY <1>6, <3>1, <3>2, <4>1
      <4>3. At(t, m + 1, i - 1) = At(s, m, j - 1)
        BY <1>1, <1>7, <2>1, <2>3, <3>6
      <4> QED BY <3>1, <3>3, <4>2, <4>3
    <3> QED BY <3>4, <3>5, <3>6
  <2> QED BY <1>1, <2>1, <2>2, <2>3
<1>9. Linked(after, t, m + 1)
    BY <1>8 DEF Linked
<1>10. ASSUME NEW d \in Chunk, ~ In(s, m, d), d # c PROVE after[d] = n[d]
  <2>1. d # s[1] /\ At(s, m, 2) # d
    BY <1>1, <1>10, ChunkListAssumption DEF At, In
  <2> QED BY <1>5, <1>6, <1>10, <2>1
<1>11. SameButLinks(n, after)
    BY <1>5, <1>6 DEF SameButLinks
<1> QED BY <1>6, <1>9, <1>10, <1>11 DEF FrontLink, after, t, mid

-----------------------------------------------------------------------------
(* The lists of an archetype: its chunks are M, the full ones F.           *)

ListsType == [a : Header, n : Nodes]

ListOf(l, M, s, m) ==
    /\ Sequence(s, m) /\ Linked(l.n, s, m)
    /\ \A c : In(s, m, c) <=> c \in M
    /\ l.a.first = At(s, m, 1) /\ l.a.last = At(s, m, m)

Good(l, M, F, s, m, k) ==
    /\ ListOf(l, M, s, m)
    /\ k \in 0 .. m
    /\ \A i \in 1 .. m : s[i] \in F <=> i <= k
    /\ l.a.free = At(s, m, k + 1)
    /\ l.a.chunks = m

Listed(l, M, F) == \E s, m, k : Good(l, M, F, s, m, k)

\* What a relinking of chunks of M leaves alone.
Relinked(l, r, M) == SameButLinks(l.n, r.n) /\ SameOutside(l.n, r.n, M)

LEMMA HeaderFields ==
    ASSUME NEW l \in ListsType
    PROVE  /\ l.a \in Header /\ l.n \in Nodes
           /\ l.a.first \in Pointer /\ l.a.last \in Pointer /\ l.a.free \in Pointer
           /\ l.a.chunks \in Nat /\ l.a.size \in 0 .. SizeMod - 1
BY DEF ListsType, Header

LEMMA ListEnds ==
    ASSUME NEW l, NEW M, NEW s, NEW m, ListOf(l, M, s, m)
    PROVE  /\ m \in Nat /\ M \subseteq Chunk /\ NoChunk \notin M
           /\ m = 0 <=> l.a.first = NoChunk
           /\ m = 0 <=> l.a.last = NoChunk
           /\ m = 0 <=> M = {}
           /\ m > 0 => l.a.first = s[1] /\ l.a.last = s[m] /\ 1 \in 1 .. m /\ m \in 1 .. m
<1>1. m \in Nat
    BY DEF ListOf, Sequence
<1>2. \A c : c \in M => \E i \in 1 .. m : s[i] = c /\ c \in Chunk
    BY DEF ListOf, Sequence, In
<1>3. M \subseteq Chunk /\ NoChunk \notin M
    BY <1>2, ChunkListAssumption
<1>4. CASE m = 0
    BY <1>1, <1>2, <1>3, <1>4 DEF ListOf, At
<1>5. CASE m > 0
  <2>1. 1 \in 1 .. m /\ m \in 1 .. m
    BY <1>1, <1>5
  <2>2. s[1] \in Chunk /\ s[m] \in Chunk /\ s[1] \in M
    BY <2>1 DEF ListOf, Sequence, In
  <2>3. s[1] # NoChunk /\ s[m] # NoChunk
    BY <2>2, ChunkListAssumption
  <2> QED BY <1>1, <1>3, <1>5, <2>1, <2>2, <2>3 DEF ListOf, At
<1> QED BY <1>1, <1>4, <1>5

LEMMA RemoveIs ==
    ASSUME NEW l \in ListsType, NEW M, NEW s, NEW m, ListOf(l, M, s, m), NEW p \in 1 .. m,
           NEW c, c = s[p], NEW r, r = Remove(l, c)
    PROVE  /\ r \in ListsType
           /\ ListOf(r, M \ {c}, Without(s, m, p), m - 1)
           /\ r.a.free = l.a.free /\ r.a.chunks = l.a.chunks /\ r.a.size = l.a.size
           /\ Relinked(l, r, M)
           /\ r.n[c].next = NoChunk /\ r.n[c].prev = NoChunk
<1> DEFINE t == Without(s, m, p)
<1>1. /\ m \in Nat /\ p \in Int /\ Sequence(s, m) /\ Linked(l.n, s, m)
      /\ \A d : In(s, m, d) <=> d \in M
      /\ l.a.first = At(s, m, 1) /\ l.a.last = At(s, m, m)
    BY DEF ListOf, Sequence
<1>2. /\ l.n[c].next = At(s, m, p + 1) /\ l.n[c].prev = At(s, m, p - 1)
      /\ l.n[c].next \in Pointer /\ l.n[c].prev \in Pointer
    BY <1>1, AtIs DEF Linked
<1>3. r.n = Unlink(l.n, c)
    BY DEF Remove
<1>4. /\ r.n \in Nodes /\ SameButLinks(l.n, r.n) /\ Linked(r.n, t, m - 1)
      /\ r.n[c].next = NoChunk /\ r.n[c].prev = NoChunk
      /\ \A d \in Chunk : ~ In(s, m, d) => r.n[d] = l.n[d]
    BY <1>1, <1>3, HeaderFields, UnlinkLinked
<1>5. Relinked(l, r, M)
    BY <1>1, <1>4 DEF Relinked, SameOutside
<1>6. Sequence(t, m - 1) /\ \A d : In(t, m - 1, d) <=> d \in M \ {c}
    BY <1>1, WithoutIs
<1>7. r.a = [l.a EXCEPT !.last = IF @ = c THEN l.n[c].prev ELSE @,
                        !.first = IF @ = c THEN l.n[c].next ELSE @]
    BY DEF Remove
<1>8. /\ r.a \in Header /\ r.a.free = l.a.free /\ r.a.chunks = l.a.chunks /\ r.a.size = l.a.size
      /\ r.a.first = IF l.a.first = c THEN l.n[c].next ELSE l.a.first
      /\ r.a.last = IF l.a.last = c THEN l.n[c].prev ELSE l.a.last
    BY <1>2, <1>7, HeaderFields DEF Header
<1>9. r \in ListsType
  <2>1. r = [a |-> r.a, n |-> r.n]
    BY DEF Remove
  <2> QED BY <1>4, <1>8, <2>1 DEF ListsType
<1>10. \A i \in Int : At(t, m - 1, i) = IF i < p THEN At(s, m, i) ELSE At(s, m, i + 1)
    BY <1>1, WithoutAt
<1> HIDE DEF t
<1>11. r.a.first = At(t, m - 1, 1)
  <2>1. CASE p = 1
    <3>1. l.a.first = c
      BY <1>1, <2>1, AtIs
    <3> QED BY <1>2, <1>8, <1>10, <2>1, <3>1
  <2>2. CASE p # 1
    <3>1. 1 < p /\ 1 \in 1 .. m
      BY <1>1, <2>2
    <3>2. l.a.first # c
      BY <1>1, <2>2, <3>1, AtIs
    <3> QED BY <1>1, <1>8, <1>10, <3>1, <3>2
  <2> QED BY <2>1, <2>2
<1>12. r.a.last = At(t, m - 1, m - 1)
  <2>1. CASE p = m
    <3>1. l.a.last = c
      BY <1>1, <2>1, AtIs
    <3>2. At(t, m - 1, m - 1) = At(s, m, m - 1)
      BY <1>1, <1>10, <2>1
    <3> QED BY <1>2, <1>8, <2>1, <3>1, <3>2
  <2>2. CASE p # m
    <3>1. p < m /\ m \in 1 .. m
      BY <1>1, <2>2
    <3>2. l.a.last # c
      BY <1>1, <2>2, <3>1, AtIs
    <3>3. At(t, m - 1, m - 1) = At(s, m, m)
      BY <1>1, <1>10, <3>1
    <3> QED BY <1>1, <1>8, <3>2, <3>3
  <2> QED BY <2>1, <2>2
<1> QED BY <1>4, <1>5, <1>6, <1>8, <1>9, <1>11, <1>12 DEF ListOf, t

\* A chunk comes after the last one of the list, after the first one, or before.
LEMMA AppendIs ==
    ASSUME NEW l \in ListsType, NEW M, NEW s, NEW m, ListOf(l, M, s, m),
           NEW c \in Chunk, c \notin M, l.n[c].next = NoChunk, l.n[c].prev = NoChunk,
           NEW r, r.a.last = c, r.a.first = (IF m = 0 THEN c ELSE l.a.first),
           r.n = IF m = 0 THEN l.n ELSE Link(l.n, l.a.last, c)
    PROVE  /\ r.n \in Nodes
           /\ ListOf(r, M \cup {c}, Insert(s, m, m + 1, c), m + 1)
           /\ Relinked(l, r, M \cup {c})
<1> DEFINE t == Insert(s, m, m + 1, c)
<1>1. /\ m \in Nat /\ m + 1 \in 1 .. m + 1 /\ Sequence(s, m) /\ Linked(l.n, s, m)
      /\ \A d : In(s, m, d) <=> d \in M
      /\ l.a.first = At(s, m, 1) /\ l.a.last = At(s, m, m) /\ l.n \in Nodes
    BY HeaderFields DEF ListOf, Sequence
<1>2. Sequence(t, m + 1) /\ \A d : In(t, m + 1, d) <=> d \in M \cup {c}
    BY <1>1, InsertIs
<1>3. \A i \in Int : At(t, m + 1, i) = IF i < m + 1 THEN At(s, m, i)
                                       ELSE IF i = m + 1 THEN c ELSE At(s, m, i - 1)
    BY <1>1, InsertAt
<1>4. r.a.first = At(t, m + 1, 1) /\ r.a.last = At(t, m + 1, m + 1)
    BY <1>1, <1>3
<1>5. CASE m = 0
  <2>1. r.n = l.n
    BY <1>5
  <2>2. t[1] = c
    BY <1>5 DEF Insert
  <2>3. \A i \in 1 .. m + 1 : i = 1
    BY <1>5
  <2>4. At(t, m + 1, 2) = NoChunk /\ At(t, m + 1, 0) = NoChunk
    BY <1>5 DEF At
  <2> HIDE DEF t
  <2>5. Linked(r.n, t, m + 1)
    BY <2>1, <2>2, <2>3, <2>4 DEF Linked
  <2>6. Relinked(l, r, M \cup {c})
    BY <2>1 DEF Relinked, SameButLinks, SameOutside
  <2>7. ListOf(r, M \cup {c}, t, m + 1)
    BY <1>2, <1>4, <2>5 DEF ListOf
  <2> QED BY <1>1, <2>1, <2>6, <2>7 DEF t
<1>6. CASE m > 0
  <2>1. m \in 1 .. m /\ l.a.last = s[m]
    BY <1>1, <1>6 DEF At
  <2>2. r.n = Link(l.n, s[m], c) /\ ~ In(s, m, c)
    BY <1>1, <1>6, <2>1
  <2> DEFINE n == l.n
  <2>3. n \in Nodes /\ Linked(n, s, m) /\ r.n = Link(n, s[m], c)
    BY <1>1, <2>2
  <2> HIDE DEF n
  <2>4. /\ r.n \in Nodes /\ SameButLinks(n, r.n) /\ Linked(r.n, t, m + 1)
        /\ \A d \in Chunk : ~ In(s, m, d) /\ d # c => r.n[d] = n[d]
    BY <1>1, <2>1, <2>2, <2>3, LinkLinked
  <2>5. Relinked(l, r, M \cup {c})
    BY <1>1, <2>4 DEF Relinked, SameOutside, n
  <2> QED BY <1>2, <1>4, <2>4, <2>5 DEF ListOf
<1> QED BY <1>1, <1>5, <1>6

LEMMA SecondIs ==
    ASSUME NEW l \in ListsType, NEW M, NEW s, NEW m, ListOf(l, M, s, m), m >= 2,
           NEW c \in Chunk, c \notin M,
           NEW r, r.a.last = l.a.last, r.a.first = l.a.first, r.n = Link(l.n, l.a.first, c)
    PROVE  /\ r.n \in Nodes
           /\ ListOf(r, M \cup {c}, Insert(s, m, 2, c), m + 1)
           /\ Relinked(l, r, M \cup {c})
<1> DEFINE t == Insert(s, m, 2, c)
<1>1. /\ m \in Nat /\ 1 \in 1 .. m /\ 2 \in 1 .. m + 1 /\ Sequence(s, m) /\ Linked(l.n, s, m)
      /\ \A d : In(s, m, d) <=> d \in M
      /\ l.a.first = At(s, m, 1) /\ l.a.last = At(s, m, m) /\ l.n \in Nodes
    BY HeaderFields DEF ListOf, Sequence
<1>2. Sequence(t, m + 1) /\ \A d : In(t, m + 1, d) <=> d \in M \cup {c}
    BY <1>1, InsertIs
<1>3. \A i \in Int : At(t, m + 1, i) = IF i < 2 THEN At(s, m, i)
                                       ELSE IF i = 2 THEN c ELSE At(s, m, i - 1)
    BY <1>1, InsertAt
<1>4. r.a.first = At(t, m + 1, 1) /\ r.a.last = At(t, m + 1, m + 1)
    BY <1>1, <1>3
<1>5. l.a.first = s[1] /\ ~ In(s, m, c)
    BY <1>1 DEF At
<1>6. /\ r.n \in Nodes /\ SameButLinks(l.n, r.n) /\ Linked(r.n, Insert(s, m, 1 + 1, c), m + 1)
      /\ \A d \in Chunk : ~ In(s, m, d) /\ d # c => r.n[d] = l.n[d]
    BY <1>1, <1>5, LinkLinked
<1>7. 1 + 1 = 2
    OBVIOUS
<1>8. Relinked(l, r, M \cup {c})
    BY <1>1, <1>6 DEF Relinked, SameOutside
<1> QED BY <1>2, <1>4, <1>6, <1>7, <1>8 DEF ListOf

LEMMA FrontIs ==
    ASSUME NEW l \in ListsType, NEW M, NEW s, NEW m, ListOf(l, M, s, m), m >= 1,
           NEW c \in Chunk, c \notin M, l.n[c].prev = NoChunk,
           NEW r, r.a.last = l.a.last, r.a.first = c, r.n = FrontLink(l.n, c, l.a.first)
    PROVE  /\ r.n \in Nodes
           /\ ListOf(r, M \cup {c}, Insert(s, m, 1, c), m + 1)
           /\ Relinked(l, r, M \cup {c})
<1> DEFINE t == Insert(s, m, 1, c)
<1>1. /\ m \in Nat /\ 1 \in 1 .. m /\ 1 \in 1 .. m + 1 /\ Sequence(s, m) /\ Linked(l.n, s, m)
      /\ \A d : In(s, m, d) <=> d \in M
      /\ l.a.first = At(s, m, 1) /\ l.a.last = At(s, m, m) /\ l.n \in Nodes
    BY HeaderFields DEF ListOf, Sequence
<1>2. Sequence(t, m + 1) /\ \A d : In(t, m + 1, d) <=> d \in M \cup {c}
    BY <1>1, InsertIs
<1>3. \A i \in Int : At(t, m + 1, i) = IF i < 1 THEN At(s, m, i)
                                       ELSE IF i = 1 THEN c ELSE At(s, m, i - 1)
    BY <1>1, InsertAt
<1>4. r.a.first = At(t, m + 1, 1) /\ r.a.last = At(t, m + 1, m + 1)
    BY <1>1, <1>3
<1>5. l.a.first = s[1] /\ ~ In(s, m, c)
    BY <1>1 DEF At
<1>6. /\ r.n \in Nodes /\ SameButLinks(l.n, r.n) /\ Linked(r.n, t, m + 1)
      /\ \A d \in Chunk : ~ In(s, m, d) /\ d # c => r.n[d] = l.n[d]
    BY <1>1, <1>5, FrontLinked
<1>7. Relinked(l, r, M \cup {c})
    BY <1>1, <1>6 DEF Relinked, SameOutside
<1> QED BY <1>2, <1>4, <1>6, <1>7 DEF ListOf

-----------------------------------------------------------------------------
(* mark_free and unmark_free.                                              *)

LEMMA MarkFreeIs ==
    ASSUME NEW l \in ListsType, NEW M, NEW F, Listed(l, M, F), NEW c \in M, c \in F,
           NEW r, r = MarkFree(l, c)
    PROVE  /\ r \in ListsType /\ r.a.size = l.a.size
           /\ Listed(r, M, F \ {c})
           /\ Relinked(l, r, M)
<1>1. PICK s, m, k : Good(l, M, F, s, m, k)
    BY DEF Listed
<1>2. /\ ListOf(l, M, s, m) /\ k \in 0 .. m /\ m \in Nat /\ k \in Nat
      /\ \A i \in 1 .. m : s[i] \in F <=> i <= k
      /\ l.a.free = At(s, m, k + 1) /\ l.a.chunks = m /\ Sequence(s, m)
    BY <1>1 DEF Good, ListOf, Sequence
<1>3. PICK p \in 1 .. m : s[p] = c
    BY <1>2 DEF ListOf, In
<1>4. p <= k /\ m - 1 \in Nat /\ m \in 1 .. m /\ (m - 1) + 1 = m /\ c \in Chunk /\ p \in Nat
    BY <1>2, <1>3 DEF Sequence
<1> DEFINE v == m - 1
           q == Remove(l, c)
           t == Without(s, m, p)
           u == Insert(t, v, m, c)
<1>5. /\ q \in ListsType /\ ListOf(q, M \ {c}, t, v)
      /\ q.a.free = l.a.free /\ q.a.chunks = l.a.chunks /\ q.a.size = l.a.size
      /\ Relinked(l, q, M) /\ q.n[c].next = NoChunk /\ q.n[c].prev = NoChunk
  <2> HIDE DEF q
  <2>1. l \in ListsType /\ ListOf(l, M, s, m) /\ p \in 1 .. m /\ c = s[p]
    BY <1>2, <1>3
  <2>2. q = Remove(l, c)
    BY DEF q
  <2> QED BY ONLY <2>1, <2>2, RemoveIs
<1>6. /\ r.a = [q.a EXCEPT !.last = c, !.free = IF @ = NoChunk THEN c ELSE @,
                           !.first = IF @ = NoChunk THEN c ELSE @]
      /\ r.n = IF q.a.last = NoChunk THEN q.n ELSE Link(q.n, q.a.last, c)
      /\ r = [a |-> r.a, n |-> r.n]
    BY DEF MarkFree
<1> HIDE DEF q
<1>7. \A i \in Int : At(t, v, i) = IF i < p THEN At(s, m, i) ELSE At(s, m, i + 1)
    BY <1>2, WithoutAt
<1>8. Sequence(t, v) /\ v \in Nat /\ v + 1 = m
    BY <1>4, <1>5 DEF ListOf
<1> HIDE DEF t, v
<1>9. \A i \in Int : At(u, m, i) = IF i < m THEN At(t, v, i)
                                   ELSE IF i = m THEN c ELSE At(t, v, i - 1)
    BY <1>4, <1>8, InsertAt
<1> HIDE DEF u
<1>10. (v = 0 <=> q.a.first = NoChunk) /\ (v = 0 <=> q.a.last = NoChunk)
    BY <1>5, ListEnds
<1>11. /\ r.a \in Header /\ r.a.last = c
       /\ r.a.first = (IF v = 0 THEN c ELSE q.a.first)
       /\ r.a.free = IF l.a.free = NoChunk THEN c ELSE l.a.free
       /\ r.a.chunks = m /\ r.a.size = l.a.size
  <2>1. q.a \in Header /\ c \in Pointer
    BY <1>4, <1>5, HeaderFields DEF Pointer
  <2> QED BY <1>2, <1>5, <1>6, <1>10, <2>1 DEF Header
<1>12. r.n = IF v = 0 THEN q.n ELSE Link(q.n, q.a.last, c)
    BY <1>6, <1>10
<1>13. r.n \in Nodes /\ ListOf(r, M, u, m) /\ Relinked(q, r, M)
  <2> DEFINE W == M \ {c}
  <2>1. c \notin W /\ W \cup {c} = M /\ ListOf(q, W, t, v)
    BY <1>5
  <2> HIDE DEF W
  <2>2. /\ q \in ListsType /\ c \in Chunk /\ q.n[c].next = NoChunk /\ q.n[c].prev = NoChunk
        /\ r.a.last = c /\ r.a.first = (IF v = 0 THEN c ELSE q.a.first)
        /\ r.n = IF v = 0 THEN q.n ELSE Link(q.n, q.a.last, c)
    BY <1>4, <1>5, <1>11, <1>12
  <2>3. /\ r.n \in Nodes
        /\ ListOf(r, W \cup {c}, Insert(t, v, v + 1, c), v + 1)
        /\ Relinked(q, r, W \cup {c})
    BY ONLY <2>1, <2>2, AppendIs
  <2> QED BY <1>8, <2>1, <2>3 DEF u
<1>14. \A i \in 1 .. m : u[i] = At(u, m, i)
    BY <1>2 DEF At
<1>15. \A i \in 1 .. m : At(s, m, i) = s[i]
    BY <1>2 DEF At
<1>16. ASSUME NEW i \in 1 .. m PROVE u[i] \in F \ {c} <=> i <= k - 1
  <2>1. CASE i = m
    <3>1. u[i] = c
      BY <1>9, <1>14, <2>1
    <3> QED BY <1>2, <2>1, <3>1
  <2>2. CASE i < p /\ i < m
    <3>1. u[i] = s[i] /\ i # p
      BY <1>7, <1>9, <1>14, <1>15, <2>2
    <3>2. s[i] # c
      BY <1>2, <1>3, <3>1, AtIs
    <3> QED BY <1>2, <1>4, <2>2, <3>1, <3>2
  <2>3. CASE ~ (i < p) /\ i < m
    <3>1. u[i] = s[i + 1] /\ i + 1 # p /\ i + 1 \in 1 .. m
      BY <1>2, <1>4, <1>7, <1>9, <1>14, <1>15, <2>3
    <3>2. s[i + 1] # c
      BY <1>2, <1>3, <3>1, AtIs
    <3> QED BY <1>2, <1>4, <2>3, <3>1, <3>2
  <2> QED BY <1>2, <2>1, <2>2, <2>3
<1>17. r.a.free = At(u, m, (k - 1) + 1)
  <2>1. (k - 1) + 1 = k
    BY <1>2
  <2>2. CASE k = m
    <3>1. l.a.free = NoChunk
      BY <1>2, <2>2 DEF At
    <3> QED BY <1>2, <1>9, <1>11, <2>1, <2>2, <3>1
  <2>3. CASE k < m
    <3>1. k + 1 \in 1 .. m /\ l.a.free = s[k + 1] /\ s[k + 1] # NoChunk
      BY <1>2, <1>15, <2>3, AtIs
    <3>2. At(u, m, k) = At(s, m, k + 1)
      BY <1>2, <1>4, <1>7, <1>9, <2>3
    <3> QED BY <1>11, <1>15, <2>1, <3>1, <3>2
  <2> QED BY <1>2, <2>2, <2>3
<1>18. Listed(r, M, F \ {c})
  <2>1. k - 1 \in 0 .. m
    BY <1>2, <1>4, <1>3
  <2> QED BY <1>11, <1>13, <1>16, <1>17, <2>1 DEF Listed, Good
<1>19. Relinked(l, r, M)
    BY <1>5, <1>13 DEF Relinked, SameButLinks, SameOutside
<1>20. r \in ListsType
    BY <1>6, <1>11, <1>13 DEF ListsType
<1> QED BY <1>11, <1>18, <1>19, <1>20

LEMMA UnmarkFreeIs ==
    ASSUME NEW l \in ListsType, NEW M, NEW F, Listed(l, M, F), NEW c \in M, c \notin F,
           NEW r, r = UnmarkFree(l, c)
    PROVE  /\ r \in ListsType /\ r.a.size = l.a.size
           /\ Listed(r, M, F \cup {c})
           /\ Relinked(l, r, M)
<1>1. PICK s, m, k : Good(l, M, F, s, m, k)
    BY DEF Listed
<1>2. /\ ListOf(l, M, s, m) /\ k \in 0 .. m /\ m \in Nat /\ k \in Nat
      /\ \A i \in 1 .. m : s[i] \in F <=> i <= k
      /\ l.a.free = At(s, m, k + 1) /\ l.a.chunks = m /\ Sequence(s, m)
    BY <1>1 DEF Good, ListOf, Sequence
<1>3. PICK p \in 1 .. m : s[p] = c
    BY <1>2 DEF ListOf, In
<1>4. k < p /\ c \in Chunk /\ p \in Nat /\ p <= m
    BY <1>2, <1>3 DEF Sequence
<1>5. \A i \in 1 .. m : At(s, m, i) = s[i]
    BY <1>2 DEF At
<1>6. CASE l.a.free = c
  <2>1. p = k + 1
    BY <1>2, <1>3, <1>6, AtIs
  <2>2. /\ r.n = l.n /\ r = [a |-> r.a, n |-> r.n]
        /\ r.a = [l.a EXCEPT !.free = l.n[c].next]
    <3>1. r = [l EXCEPT !.a.free = l.n[c].next]
      BY <1>6 DEF UnmarkFree
    <3> QED BY <3>1 DEF ListsType
  <2>3. l.n[c].next = At(s, m, (k + 1) + 1) /\ l.n[c].next \in Pointer
    BY <1>2, <1>3, <2>1, AtIs DEF ListOf, Linked
  <2>4. /\ r.a \in Header /\ r.a.free = At(s, m, (k + 1) + 1) /\ r.a.chunks = m
        /\ r.a.size = l.a.size /\ r.a.first = l.a.first /\ r.a.last = l.a.last
    BY <1>2, <2>2, <2>3, HeaderFields DEF Header
  <2>5. r \in ListsType
    BY <2>2, <2>4 DEF ListsType
  <2>6. ListOf(r, M, s, m)
    BY <1>2, <2>2, <2>4 DEF ListOf
  <2>7. ASSUME NEW i \in 1 .. m PROVE s[i] \in F \cup {c} <=> i <= k + 1
    <3>1. s[i] = c <=> i = p
      BY <1>2, <1>3, AtIs
    <3> QED BY <1>2, <2>1, <3>1
  <2>8. k + 1 \in 0 .. m
    BY <1>2, <1>4
  <2>9. Listed(r, M, F \cup {c})
    BY <2>4, <2>6, <2>7, <2>8 DEF Listed, Good
  <2>10. Relinked(l, r, M)
    BY <2>2 DEF Relinked, SameButLinks, SameOutside
  <2> QED BY <2>4, <2>5, <2>9, <2>10
<1>7. CASE l.a.free # c
  <2> DEFINE v == m - 1
             q == Remove(l, c)
             t == Without(s, m, p)
             u == Insert(t, v, 1, c)
  <2>1. p # k + 1
    BY <1>2, <1>3, <1>5, <1>7
  <2>2. v \in Nat /\ v + 1 = m /\ v >= 1 /\ k + 1 < p /\ k + 1 \in 1 .. m
    BY <1>2, <1>4, <2>1
  <2>3. /\ q \in ListsType /\ ListOf(q, M \ {c}, t, v)
        /\ q.a.free = l.a.free /\ q.a.chunks = l.a.chunks /\ q.a.size = l.a.size
        /\ Relinked(l, q, M) /\ q.n[c].next = NoChunk /\ q.n[c].prev = NoChunk
    BY <1>2, <1>3, RemoveIs
  <2>4. /\ r.a = [q.a EXCEPT !.first = c, !.last = IF @ = NoChunk THEN c ELSE @]
        /\ r.n = IF q.a.first = NoChunk THEN q.n ELSE FrontLink(q.n, c, q.a.first)
        /\ r = [a |-> r.a, n |-> r.n]
    BY <1>7 DEF UnmarkFree, FrontLink
  <2> HIDE DEF q
  <2>5. \A i \in Int : At(t, v, i) = IF i < p THEN At(s, m, i) ELSE At(s, m, i + 1)
    BY <1>2, WithoutAt
  <2>6. Sequence(t, v)
    BY <2>3 DEF ListOf
  <2> HIDE DEF t, v
  <2>7. \A i \in Int : At(u, m, i) = IF i < 1 THEN At(t, v, i)
                                     ELSE IF i = 1 THEN c ELSE At(t, v, i - 1)
    <3>1. 1 \in 1 .. v + 1
      BY <2>2
    <3> QED BY <2>2, <2>6, <3>1, InsertAt
  <2> HIDE DEF u
  <2>8. q.a.first # NoChunk /\ q.a.last # NoChunk
    BY <2>2, <2>3, ListEnds
  <2>9. /\ r.a \in Header /\ r.a.first = c /\ r.a.last = q.a.last
        /\ r.a.free = l.a.free /\ r.a.chunks = m /\ r.a.size = l.a.size
    <3>1. q.a \in Header /\ c \in Pointer
      BY <1>4, <2>3, HeaderFields DEF Pointer
    <3> QED BY <1>2, <2>3, <2>4, <2>8, <3>1 DEF Header
  <2>10. r.n = FrontLink(q.n, c, q.a.first)
    BY <2>4, <2>8
  <2>11. r.n \in Nodes /\ ListOf(r, M, u, m) /\ Relinked(q, r, M)
    <3> DEFINE W == M \ {c}
    <3>1. c \notin W /\ W \cup {c} = M /\ ListOf(q, W, t, v)
      BY <2>3
    <3> HIDE DEF W
    <3>2. /\ q \in ListsType /\ c \in Chunk /\ q.n[c].prev = NoChunk /\ v >= 1
          /\ r.a.last = q.a.last /\ r.a.first = c
          /\ r.n = FrontLink(q.n, c, q.a.first)
      BY <1>4, <2>2, <2>3, <2>9, <2>10
    <3>3. /\ r.n \in Nodes
          /\ ListOf(r, W \cup {c}, Insert(t, v, 1, c), v + 1)
          /\ Relinked(q, r, W \cup {c})
      BY ONLY <3>1, <3>2, FrontIs
    <3> QED BY <2>2, <3>1, <3>3 DEF u
  <2>12. \A i \in 1 .. m : u[i] = At(u, m, i)
    BY <1>2 DEF At
  <2>13. ASSUME NEW i \in 1 .. m PROVE u[i] \in F \cup {c} <=> i <= k + 1
    <3>1. CASE i = 1
      <4>1. u[i] = c
        BY <2>7, <2>12, <3>1
      <4> QED BY <1>2, <3>1, <4>1
    <3>2. CASE i > 1 /\ i - 1 < p
      <4>1. u[i] = s[i - 1] /\ i - 1 # p /\ i - 1 \in 1 .. m
        BY <1>2, <1>5, <2>5, <2>7, <2>12, <3>2
      <4>2. s[i - 1] # c
        BY <1>2, <1>3, <4>1, AtIs
      <4> QED BY <1>2, <3>2, <4>1, <4>2
    <3>3. CASE i > 1 /\ ~ (i - 1 < p)
      <4>1. At(t, v, i - 1) = At(s, m, (i - 1) + 1) /\ (i - 1) + 1 = i
        BY <1>4, <2>5, <3>3
      <4>2. u[i] = s[i]
        BY <1>5, <2>7, <2>12, <3>3, <4>1
      <4>3. s[i] # c
        BY <1>2, <1>3, <1>4, <3>3, AtIs
      <4> QED BY <1>2, <1>4, <2>2, <3>3, <4>2, <4>3
    <3> QED BY <1>2, <3>1, <3>2, <3>3
  <2>14. r.a.free = At(u, m, (k + 1) + 1)
    <3>1. At(u, m, (k + 1) + 1) = At(t, v, k + 1)
      BY <1>2, <2>7
    <3> QED BY <1>2, <2>2, <2>5, <2>9, <3>1
  <2>15. k + 1 \in 0 .. m
    BY <1>2, <2>2
  <2>16. Listed(r, M, F \cup {c})
    BY <2>9, <2>11, <2>13, <2>14, <2>15 DEF Listed, Good
  <2>17. Relinked(l, r, M)
    BY <2>3, <2>11 DEF Relinked, SameButLinks, SameOutside
  <2>18. r \in ListsType
    BY <2>4, <2>9, <2>11 DEF ListsType
  <2> QED BY <2>9, <2>16, <2>17, <2>18
<1> QED BY <1>6, <1>7

-----------------------------------------------------------------------------
(* add_chunk and remove_chunk.                                             *)

\* What is not about the list of chunks M leaves it as it is.
LEMMA ListedFrame ==
    ASSUME NEW l, NEW r, NEW M, NEW F, NEW G, Listed(l, M, F),
           r.a.first = l.a.first, r.a.last = l.a.last,
           r.a.free = l.a.free, r.a.chunks = l.a.chunks,
           \A c \in M : /\ r.n[c].next = l.n[c].next /\ r.n[c].prev = l.n[c].prev
                        /\ c \in G <=> c \in F
    PROVE  Listed(r, M, G)
<1>1. PICK s, m, k : Good(l, M, F, s, m, k)
    BY DEF Listed
<1>2. \A i \in 1 .. m : s[i] \in M
    BY <1>1 DEF Good, ListOf, In
<1>3. Linked(r.n, s, m)
    BY <1>1, <1>2 DEF Good, ListOf, Linked
<1>4. Good(r, M, G, s, m, k)
    BY <1>1, <1>2, <1>3 DEF Good, ListOf
<1> QED BY <1>4 DEF Listed

LEMMA SizesWrap ==
    ASSUME NEW i \in Int
    PROVE  i % SizeMod \in 0 .. SizeMod - 1 /\ SizeMod \in Nat \ {0}
<1>1. SizeMod \in Nat /\ Capacity[Small] \in Nat /\ Capacity[Small] < SizeMod
    BY ChunkListAssumption DEF Bin, Small, Large
<1>2. SizeMod > 0
    BY <1>1
<1> QED BY <1>1, <1>2

LEMMA RemoveChunkIs ==
    ASSUME NEW l \in ListsType, NEW M, NEW F, Listed(l, M, F), NEW c \in M,
           NEW r, r = RemoveChunk(l, c)
    PROVE  /\ r \in ListsType
           /\ Listed(r, M \ {c}, F)
           /\ Relinked(l, r, M)
           /\ r.n[c].next = NoChunk /\ r.n[c].prev = NoChunk
<1>1. PICK s, m, k : Good(l, M, F, s, m, k)
    BY DEF Listed
<1>2. /\ ListOf(l, M, s, m) /\ k \in 0 .. m /\ m \in Nat /\ k \in Nat
      /\ \A i \in 1 .. m : s[i] \in F <=> i <= k
      /\ l.a.free = At(s, m, k + 1) /\ l.a.chunks = m /\ Sequence(s, m)
    BY <1>1 DEF Good, ListOf, Sequence
<1>3. PICK p \in 1 .. m : s[p] = c
    BY <1>2 DEF ListOf, In
<1>4. c \in Chunk /\ p \in Nat /\ p <= m
    BY <1>2, <1>3 DEF Sequence
<1> DEFINE v == m - 1
           b == [a |-> [l.a EXCEPT !.size = (@ - l.n[c].count) % SizeMod,
                                   !.chunks = @ - 1,
                                   !.free = IF @ = c THEN l.n[c].next ELSE @],
                 n |-> l.n]
           q == Remove(b, c)
           t == Without(s, m, p)
<1>5. /\ b \in ListsType /\ b.n = l.n /\ b.a.first = l.a.first /\ b.a.last = l.a.last
      /\ b.a.chunks = m - 1 /\ b.a.free = IF l.a.free = c THEN l.n[c].next ELSE l.a.free
  <2>1. l.a \in Header /\ l.n \in Nodes /\ l.n[c].count \in Nat /\ l.n[c].next \in Pointer
    BY <1>4, HeaderFields, NodeFields
  <2>2. (l.a.size - l.n[c].count) % SizeMod \in 0 .. SizeMod - 1
    <3>1. l.a.size - l.n[c].count \in Int
      BY <2>1, SizesWrap DEF Header
    <3> QED BY <3>1, SizesWrap
  <2>3. m - 1 \in Nat
    BY <1>2, <1>3
  <2>4. /\ b.a \in Header /\ b.a.first = l.a.first /\ b.a.last = l.a.last
        /\ b.a.chunks = m - 1 /\ b.a.free = IF l.a.free = c THEN l.n[c].next ELSE l.a.free
    BY <1>2, <2>1, <2>2, <2>3 DEF Header
  <2>5. b = [a |-> b.a, n |-> b.n] /\ b.n = l.n
    OBVIOUS
  <2> HIDE DEF b
  <2> QED BY <2>1, <2>4, <2>5 DEF ListsType
<1>6. r = [a |-> IF q.a.first = NoChunk THEN NewHeader ELSE q.a, n |-> q.n]
    BY DEF RemoveChunk
<1> HIDE DEF b
<1>7. ListOf(b, M, s, m)
    BY <1>2, <1>5 DEF ListOf
<1>8. /\ q \in ListsType /\ ListOf(q, M \ {c}, t, v)
      /\ q.a.free = b.a.free /\ q.a.chunks = m - 1
      /\ Relinked(b, q, M) /\ q.n[c].next = NoChunk /\ q.n[c].prev = NoChunk
    BY <1>3, <1>5, <1>7, RemoveIs
<1> HIDE DEF q
<1>9. \A i \in Int : At(t, v, i) = IF i < p THEN At(s, m, i) ELSE At(s, m, i + 1)
    BY <1>2, WithoutAt
<1>10. Sequence(t, v) /\ v \in Nat /\ v + 1 = m /\ q.a.chunks = v
    BY <1>2, <1>3, <1>8 DEF ListOf
<1> HIDE DEF t, v
<1>11. v = 0 <=> q.a.first = NoChunk
    BY <1>8, ListEnds
<1>12. \A i \in 1 .. m : At(s, m, i) = s[i]
    BY <1>2 DEF At
<1> DEFINE j == IF p <= k THEN k - 1 ELSE k
<1>13. j \in 0 .. v
    BY <1>2, <1>4, <1>10
<1>14. \A i \in 1 .. v : t[i] \in F <=> i <= j
  <2> TAKE i \in 1 .. v
  <2>1. t[i] = At(t, v, i)
    BY <1>10 DEF At
  <2>2. CASE i < p
    <3>1. t[i] = s[i] /\ i \in 1 .. m
      BY <1>4, <1>9, <1>10, <1>12, <2>1, <2>2
    <3> QED BY <1>2, <1>4, <2>2, <3>1
  <2>3. CASE ~ (i < p)
    <3>1. t[i] = s[i + 1] /\ i + 1 \in 1 .. m
      BY <1>4, <1>9, <1>10, <1>12, <2>1, <2>3
    <3> QED BY <1>2, <1>4, <2>3, <3>1
  <2> QED BY <1>4, <2>2, <2>3
<1>15. b.a.free = At(t, v, j + 1)
  <2>1. CASE l.a.free = c
    <3>1. p = k + 1
      BY <1>2, <1>3, <2>1, AtIs
    <3>2. l.n[c].next = At(s, m, (k + 1) + 1)
      BY <1>2, <1>3, <3>1 DEF ListOf, Linked
    <3> QED BY <1>2, <1>5, <1>9, <2>1, <3>1, <3>2
  <2>2. CASE l.a.free # c
    <3>1. p # k + 1
      BY <1>2, <1>3, <1>12, <2>2
    <3>2. CASE p <= k
      <4>1. j + 1 = k /\ ~ (k < p)
        BY <1>2, <1>4, <3>2
      <4> QED BY <1>2, <1>5, <1>9, <2>2, <4>1
    <3>3. CASE ~ (p <= k)
      <4>1. j + 1 = k + 1 /\ k + 1 < p
        BY <1>2, <1>4, <3>1, <3>3
      <4> QED BY <1>2, <1>5, <1>9, <2>2, <4>1
    <3> QED BY <3>2, <3>3
  <2> QED BY <2>1, <2>2
<1> HIDE DEF j
<1>16. r.n = q.n /\ r.a = IF v = 0 THEN NewHeader ELSE q.a
    BY <1>6, <1>11
<1>17. /\ r.a \in Header /\ r.a.first = At(t, v, 1) /\ r.a.last = At(t, v, v)
       /\ r.a.free = At(t, v, j + 1) /\ r.a.chunks = v
  <2>1. CASE v = 0
    <3>1. \A i : At(t, v, i) = NoChunk
      BY <2>1 DEF At
    <3>2. r.a = NewHeader /\ NoChunk \in Pointer /\ 0 \in 0 .. SizeMod - 1
      BY <1>16, <2>1, SizesWrap DEF Pointer
    <3> QED BY <2>1, <3>1, <3>2 DEF NewHeader, Header
  <2>2. CASE v # 0
    <3>1. r.a = q.a /\ q.a \in Header
      BY <1>8, <1>16, <2>2, HeaderFields
    <3> QED BY <1>8, <1>10, <1>15, <3>1 DEF ListOf
  <2> QED BY <2>1, <2>2
<1>18. r \in ListsType
    BY <1>6, <1>8, <1>16, <1>17 DEF ListsType
<1>19. ListOf(r, M \ {c}, t, v)
    BY <1>8, <1>16, <1>17 DEF ListOf
<1>20. Listed(r, M \ {c}, F)
    BY <1>13, <1>14, <1>17, <1>19 DEF Listed, Good
<1>21. Relinked(l, r, M)
    BY <1>5, <1>8, <1>16 DEF Relinked
<1> QED BY <1>8, <1>16, <1>18, <1>20, <1>21

\* Chunk c has become one of archetype g, and all contents are as they were.
Joined(n, after, g, c) ==
    \A d \in Chunk : /\ after[d].type = IF d = c THEN g ELSE n[d].type
                     /\ after[d].bin = n[d].bin
                     /\ after[d].count = n[d].count

\* The chunk joins at the end, or as the second one when it is full.
LEMMA AddChunkIs ==
    ASSUME NEW l \in ListsType, NEW M, NEW F, Listed(l, M, F),
           NEW c \in Chunk, c \notin M, l.n[c].next = NoChunk, l.n[c].prev = NoChunk,
           l.n[c].count <= Capacity[l.n[c].bin], c \in F <=> Full(l.n, c),
           c \in F /\ M # {} => l.a.first \in F /\ l.a.first # l.a.last,
           NEW g \in Archetype, NEW r, r = AddChunk(l, g, c)
    PROVE  /\ r \in ListsType
           /\ Listed(r, M \cup {c}, F)
           /\ Joined(l.n, r.n, g, c)
           /\ SameOutside(l.n, r.n, M \cup {c})
<1>1. PICK s, m, k : Good(l, M, F, s, m, k)
    BY DEF Listed
<1>2. /\ ListOf(l, M, s, m) /\ k \in 0 .. m /\ m \in Nat /\ k \in Nat
      /\ \A i \in 1 .. m : s[i] \in F <=> i <= k
      /\ l.a.free = At(s, m, k + 1) /\ l.a.chunks = m /\ Sequence(s, m)
    BY <1>1 DEF Good, ListOf, Sequence
<1> DEFINE n0 == [l.n EXCEPT ![c].type = g]
           b == [a |-> [l.a EXCEPT !.size = (@ + l.n[c].count) % SizeMod, !.chunks = @ + 1],
                 n |-> n0]
           room == n0[c].count < Capacity[n0[c].bin]
<1>3. /\ n0 \in Nodes /\ n0[c].type = g
      /\ n0[c].bin = l.n[c].bin /\ n0[c].count = l.n[c].count
      /\ n0[c].next = l.n[c].next /\ n0[c].prev = l.n[c].prev
      /\ \A d \in Chunk : d # c => n0[d] = l.n[d]
    BY HeaderFields DEF Nodes, Node
<1>4. /\ b \in ListsType /\ b.n = n0 /\ b.a.first = l.a.first /\ b.a.last = l.a.last
      /\ b.a.chunks = m + 1 /\ b.a.free = l.a.free
  <2>1. l.a \in Header /\ l.n[c].count \in Nat /\ m + 1 \in Nat
    BY <1>2, HeaderFields, NodeFields
  <2>2. (l.a.size + l.n[c].count) % SizeMod \in 0 .. SizeMod - 1
    <3>1. l.a.size + l.n[c].count \in Int
      BY <2>1, SizesWrap DEF Header
    <3> QED BY <3>1, SizesWrap
  <2>3. /\ b.a \in Header /\ b.a.first = l.a.first /\ b.a.last = l.a.last
        /\ b.a.chunks = m + 1 /\ b.a.free = l.a.free
    BY <1>2, <2>1, <2>2 DEF Header
  <2>4. b = [a |-> b.a, n |-> b.n] /\ b.n = n0
    OBVIOUS
  <2> HIDE DEF b, n0
  <2> QED BY <1>3, <2>3, <2>4 DEF ListsType
<1>5. room <=> c \notin F
  <2>1. l.n[c].count \in Nat /\ l.n[c].bin \in Bin /\ Capacity[l.n[c].bin] \in Nat
    BY HeaderFields, NodeFields, ChunkListAssumption
  <2> QED BY <1>3, <2>1 DEF Full
<1>6. /\ r = [a |-> r.a, n |-> r.n]
      /\ r.a = IF l.a.first = NoChunk
               THEN [b.a EXCEPT !.first = c, !.last = c, !.free = IF room THEN c ELSE @]
               ELSE IF room
               THEN [b.a EXCEPT !.last = c, !.free = IF @ = NoChunk THEN c ELSE @]
               ELSE b.a
      /\ r.n = IF l.a.first = NoChunk THEN n0
               ELSE IF room THEN Link(n0, l.a.last, c) ELSE Link(n0, l.a.first, c)
  <2>1. r = IF b.a.first = NoChunk
            THEN [a |-> [b.a EXCEPT !.first = c, !.last = c, !.free = IF room THEN c ELSE @],
                  n |-> n0]
            ELSE IF room
            THEN [a |-> [b.a EXCEPT !.last = c, !.free = IF @ = NoChunk THEN c ELSE @],
                  n |-> Link(n0, b.a.last, c)]
            ELSE [a |-> b.a, n |-> Link(n0, b.a.first, c)]
    BY DEF AddChunk
  <2> HIDE DEF b, n0, room
  <2> QED BY <1>4, <2>1
<1> HIDE DEF b, n0, room
<1>7. ListOf(b, M, s, m)
  <2>1. \A i \in 1 .. m : s[i] \in Chunk /\ s[i] # c
    BY <1>2 DEF ListOf, Sequence, In
  <2>2. Linked(b.n, s, m)
    BY <1>2, <1>3, <1>4, <2>1 DEF ListOf, Linked
  <2> QED BY <1>2, <1>4, <2>2 DEF ListOf
<1>8. /\ m = 0 <=> l.a.first = NoChunk
      /\ m = 0 <=> M = {}
      /\ m > 0 => l.a.first = s[1] /\ l.a.last = s[m] /\ 1 \in 1 .. m /\ m \in 1 .. m
    BY <1>2, ListEnds
<1>9. b.n[c].next = NoChunk /\ b.n[c].prev = NoChunk /\ c \in Pointer /\ b.a \in Header
    BY <1>3, <1>4, HeaderFields DEF Pointer
<1>10. ~ In(s, m, c)
    BY <1>2 DEF ListOf
<1>11. \A i \in 1 .. m : At(s, m, i) = s[i] /\ s[i] # NoChunk
    BY <1>2, AtIs
<1>12. ASSUME r.a \in Header, r.a.chunks = m + 1, r.n \in Nodes, Relinked(b, r, M \cup {c}),
              NEW u, NEW j \in 0 .. m + 1, ListOf(r, M \cup {c}, u, m + 1),
              \A i \in 1 .. m + 1 : u[i] \in F <=> i <= j,
              r.a.free = At(u, m + 1, j + 1)
       PROVE  /\ r \in ListsType
              /\ Listed(r, M \cup {c}, F)
              /\ Joined(l.n, r.n, g, c)
              /\ SameOutside(l.n, r.n, M \cup {c})
  <2>1. r \in ListsType
    BY <1>6, <1>12 DEF ListsType
  <2>2. Listed(r, M \cup {c}, F)
    BY <1>12 DEF Listed, Good
  <2>3. \A d \in Chunk : /\ r.n[d].type = n0[d].type
                         /\ r.n[d].bin = n0[d].bin
                         /\ r.n[d].count = n0[d].count
    BY <1>4, <1>12 DEF Relinked, SameButLinks
  <2>4. SameOutside(l.n, r.n, M \cup {c})
    BY <1>3, <1>4, <1>12 DEF Relinked, SameOutside
  <2>5. Joined(l.n, r.n, g, c)
    BY <1>3, <2>3 DEF Joined
  <2> QED BY <2>1, <2>2, <2>4, <2>5
<1>13. CASE m = 0 \/ room
  <2> DEFINE u == Insert(s, m, m + 1, c)
             j == IF room THEN k ELSE 1
  <2>1. /\ r.a \in Header /\ r.a.last = c /\ r.a.first = (IF m = 0 THEN c ELSE b.a.first)
        /\ r.a.chunks = m + 1
        /\ r.a.free = IF room /\ l.a.free = NoChunk THEN c ELSE l.a.free
        /\ r.n = IF m = 0 THEN b.n ELSE Link(b.n, b.a.last, c)
    <3>1. m = 0 => l.a.free = NoChunk
      BY <1>2 DEF At
    <3>2. CASE m = 0
      BY <1>4, <1>6, <1>8, <1>9, <3>1, <3>2 DEF Header
    <3>3. CASE m # 0
      BY <1>4, <1>6, <1>8, <1>9, <1>13, <3>3 DEF Header
    <3> QED BY <3>2, <3>3
  <2>2. /\ r.n \in Nodes
        /\ ListOf(r, M \cup {c}, u, m + 1)
        /\ Relinked(b, r, M \cup {c})
    <3> HIDE DEF j
    <3> QED BY ONLY <1>4, <1>7, <1>9, <2>1, AppendIs, c \in Chunk, c \notin M
  <2>3. \A i \in Int : At(u, m + 1, i) = IF i < m + 1 THEN At(s, m, i)
                                         ELSE IF i = m + 1 THEN c ELSE At(s, m, i - 1)
    <3>1. m + 1 \in 1 .. m + 1
      BY <1>2
    <3> QED BY <1>2, <3>1, InsertAt
  <2> HIDE DEF u
  <2>4. \A i \in 1 .. m + 1 : u[i] = At(u, m + 1, i)
    BY <1>2 DEF At
  <2>5. j \in 0 .. m + 1
    BY <1>2
  <2>6. \A i \in 1 .. m + 1 : u[i] \in F <=> i <= j
    <3> TAKE i \in 1 .. m + 1
    <3>1. CASE i = m + 1
      <4>1. u[i] = c
        BY <1>2, <2>3, <2>4, <3>1
      <4>2. CASE room
        BY <1>2, <1>5, <3>1, <4>1, <4>2
      <4>3. CASE ~ room
        BY <1>2, <1>5, <1>13, <3>1, <4>1, <4>3
      <4> QED BY <4>2, <4>3
    <3>2. CASE i # m + 1
      <4>1. i \in 1 .. m /\ i < m + 1
        BY <1>2, <3>2
      <4>2. u[i] = s[i] /\ room
        BY <1>2, <1>11, <1>13, <2>3, <2>4, <4>1
      <4> QED BY <1>2, <4>1, <4>2
    <3> QED BY <3>1, <3>2
  <2>7. r.a.free = At(u, m + 1, j + 1)
    <3>1. CASE ~ room
      <4>1. l.a.free = NoChunk /\ m = 0
        BY <1>2, <1>13, <3>1 DEF At
      <4> QED BY <2>1, <3>1, <4>1 DEF At
    <3>2. CASE room /\ k = m
      <4>1. l.a.free = NoChunk
        BY <1>2, <3>2 DEF At
      <4> QED BY <1>2, <2>1, <2>3, <3>2, <4>1
    <3>3. CASE room /\ k < m
      <4>1. k + 1 \in 1 .. m /\ l.a.free # NoChunk
        BY <1>2, <1>11, <3>3
      <4> QED BY <1>2, <2>1, <2>3, <3>3, <4>1
    <3> QED BY <1>2, <3>1, <3>2, <3>3
  <2> HIDE DEF j
  <2> QED BY <1>12, <2>1, <2>2, <2>5, <2>6, <2>7
<1>14. CASE m # 0 /\ ~ room
  <2> DEFINE u == Insert(s, m, 2, c)
  <2>1. m > 0 /\ c \in F /\ s[1] \in F /\ s[1] # s[m] /\ m >= 2 /\ k >= 1
    <3>1. m > 0 /\ c \in F /\ s[1] \in F /\ s[1] # s[m] /\ 1 \in 1 .. m
      BY <1>2, <1>5, <1>8, <1>14
    <3>2. m # 1
      BY <3>1
    <3> QED BY <1>2, <3>1, <3>2
  <2>2. /\ r.a \in Header /\ r.a.last = b.a.last /\ r.a.first = b.a.first
        /\ r.a.chunks = m + 1 /\ r.a.free = l.a.free
        /\ r.n = Link(b.n, b.a.first, c)
    BY <1>4, <1>6, <1>8, <1>9, <1>14
  <2>3. /\ r.n \in Nodes
        /\ ListOf(r, M \cup {c}, u, m + 1)
        /\ Relinked(b, r, M \cup {c})
    BY ONLY <1>4, <1>7, <2>1, <2>2, SecondIs, c \in Chunk, c \notin M
  <2>4. \A i \in Int : At(u, m + 1, i) = IF i < 2 THEN At(s, m, i)
                                         ELSE IF i = 2 THEN c ELSE At(s, m, i - 1)
    <3>1. 2 \in 1 .. m + 1
      BY <1>2, <2>1
    <3> QED BY <1>2, <3>1, InsertAt
  <2> HIDE DEF u
  <2>5. \A i \in 1 .. m + 1 : u[i] = At(u, m + 1, i)
    BY <1>2 DEF At
  <2>6. k + 1 \in 0 .. m + 1
    BY <1>2
  <2>7. \A i \in 1 .. m + 1 : u[i] \in F <=> i <= k + 1
    <3> TAKE i \in 1 .. m + 1
    <3>1. CASE i = 1
      <4>1. u[i] = s[1]
        BY <1>8, <1>11, <2>1, <2>4, <2>5, <3>1
      <4> QED BY <1>2, <2>1, <3>1, <4>1
    <3>2. CASE i = 2
      <4>1. u[i] = c
        BY <2>4, <2>5, <3>2
      <4> QED BY <1>2, <2>1, <3>2, <4>1
    <3>3. CASE i > 2
      <4>1. u[i] = s[i - 1] /\ i - 1 \in 1 .. m
        BY <1>2, <1>11, <2>4, <2>5, <3>3
      <4> QED BY <1>2, <3>3, <4>1
    <3> QED BY <1>2, <3>1, <3>2, <3>3
  <2>8. r.a.free = At(u, m + 1, (k + 1) + 1)
    <3>1. At(u, m + 1, (k + 1) + 1) = At(s, m, ((k + 1) + 1) - 1)
      BY <1>2, <2>1, <2>4
    <3>2. ((k + 1) + 1) - 1 = k + 1
      BY <1>2
    <3> QED BY <1>2, <2>2, <3>1, <3>2
  <2> QED BY <1>12, <2>2, <2>3, <2>6, <2>7, <2>8
<1> QED BY <1>13, <1>14

-----------------------------------------------------------------------------
(* Following next from a place of a list.                                  *)

LEMMA LeastNat ==
    ASSUME NEW S, S \subseteq Nat, S # {}
    PROVE  \E x \in S : \A y \in S : x <= y
<1> DEFINE R == OpToRel(<, Nat)
<1>1. IsWellFoundedOn(R, Nat)
    BY NatLessThanWellFounded
<1>2. \A x, y \in Nat : y < x => <<y, x>> \in R
    BY DEF OpToRel
<1> HIDE DEF R
<1>3. PICK x \in S : \A y \in S : ~ (<<y, x>> \in R)
    BY <1>1, WFMin
<1>4. ASSUME NEW y \in S PROVE x <= y
  <2>1. x \in Nat /\ y \in Nat /\ ~ (y < x)
    BY <1>2, <1>3
  <2> QED BY <2>1
<1> QED BY <1>3, <1>4

\* A function that follows next is the one that Hops defines.
LEMMA HopsAre ==
    ASSUME NEW n, NEW c, NEW f \in [0 .. Cardinality(Chunk) -> Pointer], f[0] = c,
           \A k \in 1 .. Cardinality(Chunk) :
               f[k] = IF f[k - 1] = NoChunk THEN NoChunk ELSE n[f[k - 1]].next
    PROVE  Hops(n, c) = f
<1> DEFINE N == Cardinality(Chunk)
           Is(h) == h = [k \in 0 .. N |->
                            IF k = 0 THEN c
                            ELSE IF h[k - 1] = NoChunk THEN NoChunk ELSE n[h[k - 1]].next]
           hop == Hops(n, c)
<1>1. N \in Nat
    BY ChunkListAssumption, FS_CardinalityType
<1> HIDE DEF N
<1>2. \A k \in 0 .. N : k # 0 => k \in 1 .. N
    BY <1>1
<1>3. Is(f)
  <2>1. \A k \in 0 .. N : f[k] = IF k = 0 THEN c
                                 ELSE IF f[k - 1] = NoChunk THEN NoChunk ELSE n[f[k - 1]].next
    BY <1>2 DEF N
  <2> QED BY <2>1 DEF N
<1>4. hop = CHOOSE h : Is(h)
    BY DEF Hops, N
<1> HIDE DEF Is, hop
<1>5. Is(hop)
    BY <1>3, <1>4
<1> USE DEF Is
<1>6. ASSUME NEW k \in 0 .. N, hop[k] # f[k] PROVE FALSE
  <2> DEFINE S == {j \in 0 .. N : hop[j] # f[j]}
  <2>1. S \subseteq Nat /\ k \in S
    <3>1. 0 .. N \subseteq Nat
      BY <1>1
    <3> QED BY <1>6, <3>1
  <2>2. PICK j \in S : \A y \in S : j <= y
    BY <2>1, LeastNat
  <2>3. j # 0
    BY <1>1, <1>3, <1>5, <2>2
  <2>4. j \in 1 .. N /\ j - 1 \in 0 .. N /\ hop[j - 1] = f[j - 1]
    <3>1. j \in 0 .. N /\ j - 1 \in 0 .. N /\ j \in 1 .. N /\ ~ (j <= j - 1)
      BY <1>1, <2>2, <2>3
    <3>2. j - 1 \notin S
      BY <2>2, <3>1
    <3> QED BY <3>1, <3>2
  <2>5. hop[j] = f[j]
    BY <1>3, <1>5, <2>2, <2>3, <2>4
  <2> QED BY <2>2, <2>5
<1> QED BY <1>3, <1>5, <1>6 DEF hop

LEMMA HopsOfList ==
    ASSUME NEW l, NEW M, NEW s, NEW m, ListOf(l, M, s, m), NEW p \in 1 .. m + 1
    PROVE  Hops(l.n, At(s, m, p)) = [k \in 0 .. Cardinality(Chunk) |-> At(s, m, p + k)]
<1> DEFINE f == [k \in 0 .. Cardinality(Chunk) |-> At(s, m, p + k)]
<1>1. m \in Nat /\ p \in Nat /\ 1 <= p /\ Cardinality(Chunk) \in Nat /\ Sequence(s, m)
    BY ChunkListAssumption, FS_CardinalityType DEF ListOf, Sequence
<1>2. f[0] = At(s, m, p) /\ f \in [0 .. Cardinality(Chunk) -> Pointer]
    BY <1>1, AtIs
<1>3. ASSUME NEW k \in 1 .. Cardinality(Chunk)
      PROVE  f[k] = IF f[k - 1] = NoChunk THEN NoChunk ELSE l.n[f[k - 1]].next
  <2>1. /\ k - 1 \in 0 .. Cardinality(Chunk) /\ k \in 0 .. Cardinality(Chunk)
        /\ p + (k - 1) = (p + k) - 1 /\ p + (k - 1) \in Int /\ p + k \in Int
    BY <1>1
  <2>2. f[k] = At(s, m, p + k) /\ f[k - 1] = At(s, m, p + (k - 1))
    BY <2>1
  <2>3. CASE p + (k - 1) \in 1 .. m
    <3> DEFINE i == p + (k - 1)
    <3>1. i \in 1 .. m /\ i + 1 = p + k
      BY <1>1, <2>1, <2>3
    <3>2. f[k - 1] = s[i] /\ f[k] = At(s, m, i + 1)
      BY <2>2, <3>1 DEF At
    <3> HIDE DEF i, f
    <3>3. s[i] # NoChunk
      BY <1>1, <3>1, AtIs
    <3> QED BY <3>1, <3>2, <3>3 DEF ListOf, Linked
  <2>4. CASE p + (k - 1) \notin 1 .. m
    <3>1. p + k \notin 1 .. m
      BY <1>1, <2>1, <2>4
    <3> QED BY <2>2, <2>4, <3>1 DEF At
  <2> QED BY <2>3, <2>4
<1> DEFINE n == l.n
           c == At(s, m, p)
<1>4. \A k \in 1 .. Cardinality(Chunk) :
          f[k] = IF f[k - 1] = NoChunk THEN NoChunk ELSE n[f[k - 1]].next
    BY <1>3
<1> HIDE DEF f, n, c
<1>5. f[0] = c
    BY <1>2 DEF c
<1>6. Hops(n, c) = f
    BY ONLY <1>2, <1>4, <1>5, HopsAre
<1> QED BY <1>6 DEF f, n, c

\* A list is as long as its chunks are many.
LEMMA ListSize ==
    ASSUME NEW l, NEW M, NEW s, NEW m, ListOf(l, M, s, m)
    PROVE  m = Cardinality(M) /\ m \in 0 .. Cardinality(Chunk) /\ Cardinality(Chunk) \in Nat
<1>1. m \in Nat /\ Sequence(s, m) /\ M \subseteq Chunk
    BY ListEnds DEF ListOf
<1>2. s \in [1 .. m -> M]
  <2>1. \A i \in 1 .. m : s[i] \in M
    BY DEF ListOf, In
  <2> QED BY <1>1, <2>1 DEF Sequence
<1>3. s \in Bijection(1 .. m, M)
  <2>1. s \in Injection(1 .. m, M)
    BY <1>1, <1>2 DEF Sequence, Injective, Injection, IsInjective
  <2>2. \A c \in M : \E i \in 1 .. m : s[i] = c
    BY DEF ListOf, In
  <2> QED BY <1>2, <2>1, <2>2 DEF Bijection, Surjection
<1>4. ExistsBijection(1 .. m, M)
    BY <1>3 DEF ExistsBijection
<1>5. IsFiniteSet(M) /\ Cardinality(M) <= Cardinality(Chunk) /\ Cardinality(Chunk) \in Nat
    BY <1>1, ChunkListAssumption, FS_Subset, FS_CardinalityType
<1>6. Cardinality(M) = m
    BY <1>1, <1>4, <1>5, FS_CountingElements
<1> QED BY <1>1, <1>5, <1>6

-----------------------------------------------------------------------------
(* resize_chunk.                                                           *)

FullOf(n) == {c \in Chunk : Full(n, c)}

LEMMA CapacityIs ==
    ASSUME NEW b \in Bin
    PROVE  Capacity[b] \in Nat /\ Capacity[b] >= 0 /\ Capacity[b] < SizeMod
BY ChunkListAssumption

LEMMA NewNodeIs ==
    ASSUME NEW b \in Bin
    PROVE  /\ NewNode(b) \in Node
           /\ NewNode(b).type = NoArchetype /\ NewNode(b).bin = b /\ NewNode(b).count = 0
           /\ NewNode(b).next = NoChunk /\ NewNode(b).prev = NoChunk
BY DEF NewNode, Node, Pointer

\* A chunk is destroyed.
LEMMA DestroyChunkIs ==
    ASSUME NEW l \in ListsType, NEW M, Listed(l, M, FullOf(l.n)), NEW c \in M,
           NEW r, r = DestroyChunk(l, c)
    PROVE  /\ r \in ListsType
           /\ Listed(r, M \ {c}, FullOf(r.n))
           /\ r.n[c] = NewNode(Small)
           /\ \A d \in Chunk \ {c} : /\ r.n[d].type = l.n[d].type
                                     /\ r.n[d].bin = l.n[d].bin
                                     /\ r.n[d].count = l.n[d].count
           /\ SameOutside(l.n, r.n, M)
<1> DEFINE q == RemoveChunk(l, c)
<1>1. c \in Chunk
  <2>1. PICK s, m, k : Good(l, M, FullOf(l.n), s, m, k)
    BY DEF Listed
  <2> QED BY <2>1, ListEnds DEF Good
<1>2. /\ q \in ListsType
      /\ Listed(q, M \ {c}, FullOf(l.n))
      /\ Relinked(l, q, M)
    BY RemoveChunkIs
<1>3. r = [q EXCEPT !.n[c] = NewNode(Small)]
    BY DEF DestroyChunk
<1> HIDE DEF q
<1>4. q.n \in Nodes /\ q.a \in Header
    BY <1>2, HeaderFields
<1>5. NewNode(Small) \in Node
    BY NewNodeIs DEF Bin, Small, Large
<1>6. /\ r \in ListsType /\ r.a = q.a
      /\ r.n[c] = NewNode(Small)
      /\ \A d \in Chunk \ {c} : r.n[d] = q.n[d]
    BY <1>1, <1>2, <1>3, <1>4, <1>5 DEF ListsType, Nodes
<1>7. \A d \in Chunk \ {c} : /\ r.n[d].type = l.n[d].type
                             /\ r.n[d].bin = l.n[d].bin
                             /\ r.n[d].count = l.n[d].count
    BY <1>2, <1>6 DEF Relinked, SameButLinks
<1>8. SameOutside(l.n, r.n, M)
    BY <1>2, <1>6 DEF Relinked, SameOutside
<1>9. M \subseteq Chunk
  <2>1. PICK s, m, k : Good(l, M, FullOf(l.n), s, m, k)
    BY DEF Listed
  <2> QED BY <2>1, ListEnds DEF Good
<1>10. \A d \in M \ {c} : d \in FullOf(r.n) <=> d \in FullOf(l.n)
    BY <1>7, <1>9 DEF FullOf, Full
<1> DEFINE W == M \ {c}
           F == FullOf(l.n)
           G == FullOf(r.n)
<1>11. \A d \in W : /\ r.n[d].next = q.n[d].next /\ r.n[d].prev = q.n[d].prev
                    /\ d \in G <=> d \in F
    BY <1>6, <1>9, <1>10
<1>12. Listed(q, W, F)
    BY <1>2
<1> HIDE DEF W, F, G
<1>13. Listed(r, W, G)
    BY ONLY <1>6, <1>11, <1>12, ListedFrame
<1> QED BY <1>6, <1>7, <1>8, <1>13 DEF W, G

\* The chunk is moved to the full ones, back from them, or destroyed.
LEMMA ResizeChunkIs ==
    ASSUME NEW l \in ListsType, NEW M, Listed(l, M, FullOf(l.n)), NEW c \in M,
           NEW count \in Nat, count <= Capacity[l.n[c].bin],
           count = Capacity[l.n[c].bin] => ~ Full(l.n, c),
           NEW r, r = ResizeChunk(l, c, count)
    PROVE  /\ r \in ListsType
           /\ Listed(r, IF count = 0 THEN M \ {c} ELSE M, FullOf(r.n))
           /\ count = 0 => r.n[c] = NewNode(Small)
           /\ count # 0 => /\ r.n[c].type = l.n[c].type /\ r.n[c].bin = l.n[c].bin
                           /\ r.n[c].count = count
           /\ \A d \in Chunk \ {c} : /\ r.n[d].type = l.n[d].type
                                     /\ r.n[d].bin = l.n[d].bin
                                     /\ r.n[d].count = l.n[d].count
           /\ SameOutside(l.n, r.n, M)
<1>1. M \subseteq Chunk
  <2>1. PICK s, m, k : Good(l, M, FullOf(l.n), s, m, k)
    BY DEF Listed
  <2> QED BY <2>1, ListEnds DEF Good
<1>2. CASE count = 0
  <2>1. r = DestroyChunk(l, c)
    BY <1>2 DEF ResizeChunk
  <2>2. /\ r \in ListsType
        /\ Listed(r, M \ {c}, FullOf(r.n))
        /\ r.n[c] = NewNode(Small)
        /\ \A d \in Chunk \ {c} : /\ r.n[d].type = l.n[d].type
                                  /\ r.n[d].bin = l.n[d].bin
                                  /\ r.n[d].count = l.n[d].count
        /\ SameOutside(l.n, r.n, M)
    BY <2>1, DestroyChunkIs
  <2> QED BY <1>2, <2>2
<1>3. CASE count # 0
  <2> DEFINE full == Full(l.n, c)
             fills == count = Capacity[l.n[c].bin]
             q == IF fills THEN UnmarkFree(l, c) ELSE IF full THEN MarkFree(l, c) ELSE l
             F == FullOf(l.n)
             G == IF fills THEN F \cup {c} ELSE IF full THEN F \ {c} ELSE F
  <2>1. r = [q EXCEPT !.n[c].count = count]
    BY <1>3 DEF ResizeChunk
  <2>2. (c \in F <=> full) /\ (fills => ~ full) /\ Listed(l, M, F)
    BY <1>1 DEF FullOf
  <2>3. full <=> l.n[c].count = Capacity[l.n[c].bin]
    BY DEF Full
  <2>4. fills <=> count = Capacity[l.n[c].bin]
    OBVIOUS
  <2> HIDE DEF full, F
  <2>5. q \in ListsType /\ Listed(q, M, G) /\ Relinked(l, q, M)
    <3>1. CASE fills
      BY <2>2, <3>1, UnmarkFreeIs
    <3>2. CASE ~ fills /\ full
      BY <2>2, <3>2, MarkFreeIs
    <3>3. CASE ~ fills /\ ~ full
      BY <2>2, <3>3 DEF Relinked, SameButLinks, SameOutside
    <3> QED BY <3>1, <3>2, <3>3
  <2>6. c \in G <=> fills
    BY <2>2
  <2>7. \A d \in Chunk \ {c} : d \in G <=> d \in F
    OBVIOUS
  <2> HIDE DEF q, G, fills
  <2>8. q.n \in Nodes /\ q.a \in Header
    BY <2>5, HeaderFields
  <2>9. /\ r \in ListsType /\ r.a = q.a
        /\ r.n[c].count = count /\ r.n[c].type = q.n[c].type /\ r.n[c].bin = q.n[c].bin
        /\ r.n[c].next = q.n[c].next /\ r.n[c].prev = q.n[c].prev
        /\ \A d \in Chunk \ {c} : r.n[d] = q.n[d]
    <3>1. /\ q.n[c] \in Node /\ c \in Chunk
          /\ q = [a |-> q.a, n |-> q.n]
      BY <1>1, <2>5, <2>8, NodeFields DEF ListsType
    <3>2. r.a = q.a /\ r.n = [q.n EXCEPT ![c].count = count] /\ r = [a |-> r.a, n |-> r.n]
      BY <2>1, <3>1
    <3>3. r.n \in Nodes
      BY <2>8, <3>1, <3>2 DEF Nodes, Node
    <3>4. r \in ListsType
      BY <2>8, <3>2, <3>3 DEF ListsType
    <3>5. r.n[c] = [q.n[c] EXCEPT !.count = count] /\ \A d \in Chunk \ {c} : r.n[d] = q.n[d]
      BY <2>8, <3>1, <3>2 DEF Nodes
    <3>6. /\ r.n[c].count = count /\ r.n[c].type = q.n[c].type /\ r.n[c].bin = q.n[c].bin
          /\ r.n[c].next = q.n[c].next /\ r.n[c].prev = q.n[c].prev
      BY <3>1, <3>5 DEF Node
    <3> QED BY <3>2, <3>4, <3>5, <3>6
  <2>10. /\ r.n[c].type = l.n[c].type /\ r.n[c].bin = l.n[c].bin
         /\ \A d \in Chunk \ {c} : /\ r.n[d].type = l.n[d].type
                                   /\ r.n[d].bin = l.n[d].bin
                                   /\ r.n[d].count = l.n[d].count
    BY <1>1, <2>5, <2>9 DEF Relinked, SameButLinks
  <2>11. SameOutside(l.n, r.n, M)
    BY <1>1, <2>5, <2>9 DEF Relinked, SameOutside
  <2>12. Listed(r, M, FullOf(r.n))
    <3> DEFINE H == FullOf(r.n)
    <3>1. c \in H <=> c \in G
      BY <1>1, <2>4, <2>6, <2>9, <2>10 DEF FullOf, Full
    <3>2. \A d \in Chunk \ {c} : d \in H <=> d \in F
      BY <2>10 DEF FullOf, Full, F
    <3>3. \A d \in M : /\ r.n[d].next = q.n[d].next /\ r.n[d].prev = q.n[d].prev
                       /\ d \in H <=> d \in G
      BY <1>1, <2>7, <2>9, <3>1, <3>2
    <3> HIDE DEF H
    <3>4. Listed(r, M, H)
      BY ONLY <2>5, <2>9, <3>3, ListedFrame
    <3> QED BY <3>4 DEF H
  <2> QED BY <1>3, <2>9, <2>10, <2>11, <2>12
<1> QED BY <1>2, <1>3

-----------------------------------------------------------------------------
(* The inductive invariant.                                                *)

ChunksOf(n, g) == {c \in Chunk : n[c].type = g}

WorldType == arch \in [Archetype -> Header] /\ node \in Nodes

ListInv == \A g \in Archetype : Listed(Lists(g), ChunksOf(node, g), FullOf(node))

\* A looping call has entities to place; those a cast leaves are still where
\* they were, in a chunk of another archetype.
CallInv ==
    \/ call = Idle
    \/ \E g \in Archetype, left \in Nat \ {0} :
           call = [op |-> "allocate", g |-> g, left |-> left]
    \/ \E g \in Archetype, left \in Nat, c \in Chunk, n \in Nat \ {0} :
           /\ call = [op |-> "cast", g |-> g, left |-> left, c |-> c, n |-> n]
           /\ node[c].type \notin {g, NoArchetype}
           /\ n <= node[c].count

World == WorldType /\ ListInv /\ NoneOverfull

\* A chunk that is not in use holds nothing.
UnusedEmpty == \A c \in Chunk : node[c].type = NoArchetype => node[c].count = 0

IInv == World /\ UnusedEmpty /\ CallInv

\* The lists r may take the place of those of g.
Keeps(g, r) ==
    /\ r \in ListsType
    /\ Listed(r, ChunksOf(r.n, g), FullOf(r.n))
    /\ \A d \in Chunk : IF node[d].type \in {g, NoArchetype}
                        THEN r.n[d].type \in {g, NoArchetype}
                        ELSE r.n[d] = node[d]
    /\ \A d \in ChunksOf(r.n, g) : r.n[d].count \in 1 .. Capacity[r.n[d].bin]

LEMMA ListsOf ==
    ASSUME World, NEW g \in Archetype
    PROVE  /\ Lists(g) \in ListsType /\ Lists(g).n = node /\ Lists(g).a = arch[g]
           /\ Listed(Lists(g), ChunksOf(node, g), FullOf(Lists(g).n))
BY DEF World, WorldType, ListInv, Lists, ListsType

LEMMA BecomesKeeps ==
    ASSUME World, NEW g \in Archetype, NEW r, Keeps(g, r), Becomes(g, r)
    PROVE  World'
<1>1. r \in ListsType /\ r = [a |-> r.a, n |-> r.n] /\ r.a \in Header /\ r.n \in Nodes
    BY HeaderFields DEF Keeps, ListsType
<1>2. node' = r.n /\ arch' = [arch EXCEPT ![g] = r.a]
    BY DEF Becomes
<1>3. WorldType'
    BY <1>1, <1>2 DEF World, WorldType
<1>4. NoArchetype \notin Archetype
    BY ChunkListAssumption
<1>5. NoneOverfull'
  <2> SUFFICES ASSUME NEW c \in Chunk, node'[c].type # NoArchetype
               PROVE  node'[c].count \in 1 .. Capacity[node'[c].bin]
    BY DEF NoneOverfull
  <2>1. CASE node'[c].type = g
    BY <1>2, <2>1 DEF Keeps, ChunksOf
  <2>2. CASE node'[c].type # g
    <3>1. node'[c] = node[c]
      BY <1>2, <2>2 DEF Keeps
    <3> QED BY <3>1 DEF World, NoneOverfull
  <2> QED BY <2>1, <2>2
<1>6. ListInv'
  <2> SUFFICES ASSUME NEW h \in Archetype
               PROVE  Listed([a |-> arch'[h], n |-> node'], ChunksOf(node', h), FullOf(node'))
    BY DEF ListInv, Lists
  <2>1. CASE h = g
    <3>1. [a |-> arch'[h], n |-> node'] = r
      BY <1>1, <1>2, <2>1 DEF World, WorldType
    <3> QED BY <1>2, <2>1, <3>1 DEF Keeps
  <2>2. CASE h # g
    <3> DEFINE l == [a |-> arch[h], n |-> node]
               q == [a |-> arch'[h], n |-> node']
               M == ChunksOf(node, h)
               F == FullOf(node)
               G == FullOf(node')
    <3>1. Listed(l, M, F)
      BY DEF World, ListInv, Lists
    <3>2. arch'[h] = arch[h]
      BY <1>2, <2>2 DEF World, WorldType
    <3>3. \A d \in M : d \in Chunk /\ node'[d] = node[d]
      BY <1>2, <1>4, <2>2 DEF Keeps, ChunksOf
    <3>4. ChunksOf(node', h) = M
      <4>1. ASSUME NEW d \in Chunk, node'[d].type = h PROVE node[d].type = h
        BY <1>2, <1>4, <2>2, <4>1 DEF Keeps
      <4> QED BY <3>3, <4>1 DEF ChunksOf
    <3>5. \A d \in M : /\ q.n[d].next = l.n[d].next /\ q.n[d].prev = l.n[d].prev
                       /\ d \in G <=> d \in F
      BY <3>3 DEF FullOf, Full
    <3>6. /\ q.a.first = l.a.first /\ q.a.last = l.a.last
          /\ q.a.free = l.a.free /\ q.a.chunks = l.a.chunks
      BY <3>2
    <3> HIDE DEF l, q, M, F, G
    <3>7. Listed(q, M, G)
      BY ONLY <3>1, <3>5, <3>6, ListedFrame
    <3> QED BY <3>4, <3>7 DEF q, G
  <2> QED BY <2>1, <2>2
<1> QED BY <1>3, <1>5, <1>6 DEF World

LEMMA Initially == Init => IInv
<1> SUFFICES ASSUME Init PROVE IInv
    OBVIOUS
<1>1. Small \in Bin
    BY DEF Bin, Small, Large
<1>2. /\ \A g \in Archetype : arch[g] = NewHeader
      /\ \A c \in Chunk : node[c] = NewNode(Small) /\ node[c].type = NoArchetype
    BY <1>1, NewNodeIs DEF Init
<1>3. NewHeader \in Header
  <2>1. NoChunk \in Pointer /\ 0 \in 0 .. SizeMod - 1
    BY SizesWrap DEF Pointer
  <2> QED BY <2>1 DEF NewHeader, Header
<1>4. WorldType
    BY <1>1, <1>3, NewNodeIs DEF Init, WorldType, Nodes
<1>5. ASSUME NEW g \in Archetype PROVE Listed(Lists(g), ChunksOf(node, g), FullOf(node))
  <2> DEFINE s == [i \in 1 .. 0 |-> NoChunk]
             l == Lists(g)
             M == ChunksOf(node, g)
             F == FullOf(node)
  <2>1. M = {}
    BY <1>2, ChunkListAssumption DEF ChunksOf
  <2>2. /\ l.a.first = NoChunk /\ l.a.last = NoChunk /\ l.a.free = NoChunk
        /\ l.a.chunks = 0
    BY <1>2 DEF Lists, NewHeader
  <2>3. \A i \in 1 .. 0 : FALSE
    OBVIOUS
  <2>4. s \in [1 .. 0 -> Chunk]
    BY <2>3
  <2> HIDE DEF l, M, F, s
  <2>5. \A i : At(s, 0, i) = NoChunk
    BY <2>3 DEF At
  <2>6. ListOf(l, M, s, 0)
    BY <2>1, <2>2, <2>3, <2>4, <2>5 DEF ListOf, Sequence, Injective, Linked, In
  <2>7. Good(l, M, F, s, 0, 0)
    BY <2>2, <2>3, <2>5, <2>6 DEF Good
  <2> QED BY <2>7 DEF Listed, l, M, F
<1>6. NoneOverfull
    BY <1>2 DEF NoneOverfull
<1>7. UnusedEmpty
    BY <1>1, <1>2, NewNodeIs DEF UnusedEmpty
<1> QED BY <1>4, <1>5, <1>6, <1>7 DEF Init, IInv, World, ListInv, CallInv

-----------------------------------------------------------------------------
(* Chunks that serve, and chunks that lose entities.                       *)

\* The contents of the chunks but c are as they were.
SameContents(n, after, c) ==
    \A d \in Chunk \ {c} : /\ after[d].type = n[d].type
                           /\ after[d].bin = n[d].bin
                           /\ after[d].count = n[d].count

\* Lists of g that differ from those of the world by the contents of c only.
Between(g, c, l) ==
    /\ l \in ListsType
    /\ c \in ChunksOf(l.n, g) /\ node[c].type \in {g, NoArchetype}
    /\ Listed(l, ChunksOf(l.n, g), FullOf(l.n))
    /\ SameContents(node, l.n, c)
    /\ SameOutside(node, l.n, ChunksOf(node, g) \cup {c})

LEMMA ResizeKeeps ==
    ASSUME World, NEW g \in Archetype, NEW c, NEW l, Between(g, c, l),
           NEW count \in Nat, count <= Capacity[l.n[c].bin],
           count = Capacity[l.n[c].bin] => ~ Full(l.n, c),
           NEW r, r = ResizeChunk(l, c, count)
    PROVE  /\ Keeps(g, r)
           /\ SameContents(node, r.n, c)
           /\ count = 0 => r.n[c] = NewNode(Small)
           /\ count # 0 => r.n[c].type = g /\ r.n[c].bin = l.n[c].bin /\ r.n[c].count = count
<1> DEFINE M == ChunksOf(l.n, g)
<1>1. /\ l \in ListsType /\ c \in M /\ c \in Chunk /\ l.n[c].type = g
      /\ node[c].type \in {g, NoArchetype} /\ Listed(l, M, FullOf(l.n))
      /\ SameContents(node, l.n, c)
      /\ SameOutside(node, l.n, ChunksOf(node, g) \cup {c})
    BY DEF Between, ChunksOf
<1> HIDE DEF M
<1>2. /\ r \in ListsType
      /\ Listed(r, IF count = 0 THEN M \ {c} ELSE M, FullOf(r.n))
      /\ count = 0 => r.n[c] = NewNode(Small)
      /\ count # 0 => /\ r.n[c].type = l.n[c].type /\ r.n[c].bin = l.n[c].bin
                      /\ r.n[c].count = count
      /\ \A d \in Chunk \ {c} : /\ r.n[d].type = l.n[d].type
                                /\ r.n[d].bin = l.n[d].bin
                                /\ r.n[d].count = l.n[d].count
      /\ SameOutside(l.n, r.n, M)
  <2>1. /\ l \in ListsType /\ Listed(l, M, FullOf(l.n)) /\ c \in M
        /\ count \in Nat /\ count <= Capacity[l.n[c].bin]
        /\ count = Capacity[l.n[c].bin] => ~ Full(l.n, c)
        /\ r = ResizeChunk(l, c, count)
    BY <1>1
  <2> QED BY ONLY <2>1, ResizeChunkIs
<1>3. SameContents(node, r.n, c)
    BY <1>1, <1>2 DEF SameContents
<1>4. NoArchetype # g /\ Small \in Bin
    BY ChunkListAssumption DEF Bin, Small, Large
<1>5. count = 0 => r.n[c].type = NoArchetype
    BY <1>2, <1>4, NewNodeIs
<1>6. ChunksOf(r.n, g) = IF count = 0 THEN M \ {c} ELSE M
    BY <1>1, <1>2, <1>4, <1>5 DEF ChunksOf, M
<1>7. Listed(r, ChunksOf(r.n, g), FullOf(r.n))
    BY <1>2, <1>6
<1>8. ASSUME NEW d \in Chunk
      PROVE  IF node[d].type \in {g, NoArchetype}
             THEN r.n[d].type \in {g, NoArchetype} ELSE r.n[d] = node[d]
  <2>1. CASE d = c
    <3>1. r.n[c].type \in {g, NoArchetype}
      BY <1>1, <1>2, <1>5
    <3> QED BY <1>1, <2>1, <3>1
  <2>2. CASE d # c /\ node[d].type \in {g, NoArchetype}
    <3>1. r.n[d].type = node[d].type
      BY <1>3, <2>2 DEF SameContents
    <3> QED BY <2>2, <3>1
  <2>3. CASE d # c /\ node[d].type \notin {g, NoArchetype}
    <3>1. l.n[d] = node[d]
      BY <1>1, <2>3 DEF SameOutside, ChunksOf
    <3>2. d \notin M
      BY <2>3, <3>1 DEF M, ChunksOf
    <3> QED BY <1>2, <2>3, <3>1, <3>2 DEF SameOutside
  <2> QED BY <2>1, <2>2, <2>3
<1>9. ASSUME NEW d \in Chunk, r.n[d].type = g PROVE r.n[d].count \in 1 .. Capacity[r.n[d].bin]
  <2>1. CASE d = c
    BY <1>1, <1>2, <1>4, <1>5, <1>9, <2>1
  <2>2. CASE d # c
    <3>1. node[d].type # NoArchetype /\ r.n[d].bin = node[d].bin /\ r.n[d].count = node[d].count
      BY <1>3, <1>4, <1>9, <2>2 DEF SameContents
    <3> QED BY <3>1 DEF World, NoneOverfull
  <2> QED BY <2>1, <2>2
<1>10. Keeps(g, r)
    BY <1>2, <1>7, <1>8, <1>9 DEF Keeps, ChunksOf
<1> QED BY <1>1, <1>2, <1>3, <1>10

\* Only archetype::size changes.
LEMMA SizeBetween ==
    ASSUME World, NEW g \in Archetype, NEW c \in Chunk, node[c].type = g, NEW i \in Int,
           NEW l, l = [Lists(g) EXCEPT !.a.size = i % SizeMod]
    PROVE  Between(g, c, l) /\ l.n = node
<1>1. /\ Lists(g) \in ListsType /\ Lists(g).n = node /\ Lists(g).a = arch[g]
      /\ Listed(Lists(g), ChunksOf(node, g), FullOf(node))
    BY ListsOf
<1>2. i % SizeMod \in 0 .. SizeMod - 1
    BY SizesWrap
<1>3. Lists(g).a \in Header /\ Lists(g).n \in Nodes
    BY <1>1, HeaderFields
<1>4. l = [Lists(g) EXCEPT !.a = [@ EXCEPT !.size = i % SizeMod]]
    OBVIOUS
<1>5. Lists(g) = [a |-> Lists(g).a, n |-> Lists(g).n]
    BY DEF Lists
<1> DEFINE k == Lists(g)
<1> HIDE DEF k
<1>6. l.n = k.n /\ l.a = [k.a EXCEPT !.size = i % SizeMod] /\ l = [a |-> l.a, n |-> l.n]
    BY <1>4, <1>5 DEF k
<1>7. /\ l.a \in Header /\ l.a.first = k.a.first /\ l.a.last = k.a.last
      /\ l.a.free = k.a.free /\ l.a.chunks = k.a.chunks
    BY <1>2, <1>3, <1>6 DEF Header, k
<1>8. l \in ListsType /\ l.n = node
    BY <1>1, <1>3, <1>6, <1>7 DEF ListsType, k
<1> DEFINE M == ChunksOf(node, g)
           F == FullOf(node)
<1>9. Listed(k, M, F)
    BY <1>1 DEF k
<1>10. \A d \in M : l.n[d].next = k.n[d].next /\ l.n[d].prev = k.n[d].prev /\ (d \in F <=> d \in F)
    BY <1>6
<1> HIDE DEF M, F
<1>11. Listed(l, M, F)
    BY ONLY <1>7, <1>9, <1>10, ListedFrame
<1> QED BY <1>8, <1>11 DEF Between, ChunksOf, SameContents, SameOutside, M, F

\* free_slice.
LEMMA FreedKeeps ==
    ASSUME World, NEW g \in Archetype, NEW c \in Chunk, node[c].type = g,
           NEW n \in 1 .. node[c].count, NEW r, r = FreedSlice(Lists(g), c, n)
    PROVE  /\ Keeps(g, r)
           /\ SameContents(node, r.n, c)
           /\ n = node[c].count => r.n[c] = NewNode(Small)
           /\ n # node[c].count => /\ r.n[c].type = g /\ r.n[c].bin = node[c].bin
                                   /\ r.n[c].count = node[c].count - n
<1> DEFINE l == [Lists(g) EXCEPT !.a.size = (@ - n) % SizeMod]
           count == node[c].count - n
<1>1. node[c].count \in 1 .. Capacity[node[c].bin] /\ Capacity[node[c].bin] \in Nat
  <2>1. g # NoArchetype /\ node[c].bin \in Bin
    BY ChunkListAssumption, NodeFields DEF World, WorldType
  <2> QED BY <2>1, CapacityIs DEF World, NoneOverfull
<1>2. Lists(g).n = node /\ Lists(g).a.size \in Int
  <2>1. Lists(g) \in ListsType /\ Lists(g).n = node
    BY ListsOf
  <2> QED BY <2>1, HeaderFields, SizesWrap
<1>3. r = ResizeChunk(l, c, count)
    BY <1>2 DEF FreedSlice
<1>4. Between(g, c, l) /\ l.n = node
  <2>1. Lists(g).a.size - n \in Int
    BY <1>2
  <2> QED BY <2>1, SizeBetween
<1>5. count \in Nat /\ count < Capacity[node[c].bin] /\ (n = node[c].count <=> count = 0)
    BY <1>1
<1> HIDE DEF l, count
<1>6. /\ Keeps(g, r)
      /\ SameContents(node, r.n, c)
      /\ count = 0 => r.n[c] = NewNode(Small)
      /\ count # 0 => r.n[c].type = g /\ r.n[c].bin = l.n[c].bin /\ r.n[c].count = count
  <2>1. /\ count \in Nat /\ count <= Capacity[l.n[c].bin]
        /\ count = Capacity[l.n[c].bin] => ~ Full(l.n, c)
        /\ World /\ g \in Archetype /\ Between(g, c, l)
        /\ r = ResizeChunk(l, c, count)
    BY <1>1, <1>3, <1>4, <1>5
  <2> QED BY ONLY <2>1, ResizeKeeps
<1>7. n # node[c].count => r.n[c].count = node[c].count - n
    BY <1>5, <1>6 DEF count
<1> QED BY <1>4, <1>5, <1>6, <1>7

LEMMA BinForIs ==
    ASSUME NEW chunks, NEW hint, NEW most
    PROVE  BinFor(chunks, hint, most) \in Bin
BY DEF BinFor, Bin, Small, Fast, Large

\* A chunk from the allocator joins the list.
LEMMA NewChunkIs ==
    ASSUME World, NEW g \in Archetype, NEW c \in Chunk, node[c].type = NoArchetype,
           NEW b \in Bin, Capacity[b] > 0, NEW l \in ListsType, l.n = node,
           Listed(l, ChunksOf(node, g), FullOf(node)),
           NEW r, r = NewChunk(l, g, c, b)
    PROVE  Between(g, c, r) /\ r.n[c].bin = b /\ r.n[c].count = 0
<1> DEFINE k == [l EXCEPT !.n[c] = NewNode(b)]
           M == ChunksOf(node, g)
           F == FullOf(k.n)
<1>1. /\ NewNode(b) \in Node /\ NewNode(b).bin = b /\ NewNode(b).count = 0
      /\ NewNode(b).next = NoChunk /\ NewNode(b).prev = NoChunk
    BY NewNodeIs
<1>2. /\ k \in ListsType /\ k.a = l.a /\ k.n[c] = NewNode(b)
      /\ \A d \in Chunk \ {c} : k.n[d] = node[d]
  <2>1. l = [a |-> l.a, n |-> l.n] /\ l.a \in Header /\ l.n \in Nodes
    BY HeaderFields DEF ListsType
  <2>2. k.a = l.a /\ k.n = [l.n EXCEPT ![c] = NewNode(b)] /\ k = [a |-> k.a, n |-> k.n]
    BY <2>1
  <2>3. k.n \in Nodes /\ k.n[c] = NewNode(b) /\ \A d \in Chunk \ {c} : k.n[d] = node[d]
    BY <1>1, <2>1, <2>2 DEF Nodes
  <2> HIDE DEF k
  <2> QED BY <2>1, <2>2, <2>3 DEF ListsType
<1>3. r = AddChunk(k, g, c)
    BY DEF NewChunk
<1> HIDE DEF k
<1>4. c \notin M /\ M \subseteq Chunk /\ g # NoArchetype
    BY ChunkListAssumption DEF ChunksOf
<1>5. Listed(k, M, F)
  <2> DEFINE G == FullOf(node)
  <2>1. \A d \in M : /\ k.n[d].next = l.n[d].next /\ k.n[d].prev = l.n[d].prev
                     /\ d \in F <=> d \in G
    BY <1>2, <1>4 DEF FullOf, Full
  <2>2. Listed(l, M, G)
    OBVIOUS
  <2>3. /\ k.a.first = l.a.first /\ k.a.last = l.a.last
        /\ k.a.free = l.a.free /\ k.a.chunks = l.a.chunks
    BY <1>2
  <2> HIDE DEF M, F, G
  <2> QED BY ONLY <2>1, <2>2, <2>3, ListedFrame
<1>6. c \notin F /\ ~ Full(k.n, c) /\ k.n[c].count <= Capacity[k.n[c].bin]
    BY <1>1, <1>2, CapacityIs DEF FullOf, Full
<1>7. k.n[c].next = NoChunk /\ k.n[c].prev = NoChunk
    BY <1>1, <1>2
<1>8. (c \in F <=> Full(k.n, c)) /\ (c \in F /\ M # {} => k.a.first \in F /\ k.a.first # k.a.last)
    BY <1>6
<1> HIDE DEF M, F
<1>9. /\ r \in ListsType
      /\ Listed(r, M \cup {c}, F)
      /\ Joined(k.n, r.n, g, c)
      /\ SameOutside(k.n, r.n, M \cup {c})
    BY <1>2, <1>3, <1>4, <1>5, <1>6, <1>7, <1>8, AddChunkIs
<1>10. FullOf(r.n) = F
    BY <1>9 DEF F, FullOf, Full, Joined
<1>11. ChunksOf(r.n, g) = M \cup {c}
    BY <1>2, <1>9 DEF ChunksOf, M, Joined
<1>12. SameContents(node, r.n, c)
    BY <1>2, <1>9 DEF SameContents, Joined
<1>13. SameOutside(node, r.n, M \cup {c})
    BY <1>2, <1>9 DEF SameOutside
<1>14. Between(g, c, r)
    BY <1>9, <1>10, <1>11, <1>12, <1>13 DEF Between, M
<1> QED BY <1>1, <1>2, <1>9, <1>14 DEF Joined

\* firstFree tells whether a chunk has room.
LEMMA FreeIs ==
    ASSUME World, NEW g \in Archetype
    PROVE  IF arch[g].free = NoChunk
           THEN \A d \in Chunk : node[d].type = g => Full(node, d)
           ELSE /\ arch[g].free \in Chunk /\ node[arch[g].free].type = g
                /\ ~ Full(node, arch[g].free)
<1> DEFINE M == ChunksOf(node, g)
           F == FullOf(node)
<1>1. PICK s, m, k : Good(Lists(g), M, F, s, m, k)
    BY DEF World, ListInv, Listed
<1>2. /\ Sequence(s, m) /\ m \in Nat /\ k \in 0 .. m
      /\ \A i \in 1 .. m : s[i] \in F <=> i <= k
      /\ arch[g].free = At(s, m, k + 1)
      /\ \A d : In(s, m, d) <=> d \in M
    BY <1>1 DEF Good, ListOf, Sequence, Lists
<1>3. CASE k = m
  <2>1. arch[g].free = NoChunk
    BY <1>2, <1>3 DEF At
  <2>2. ASSUME NEW d \in M PROVE d \in F
    <3>1. PICK i \in 1 .. m : s[i] = d
      BY <1>2 DEF In
    <3> QED BY <1>2, <1>3, <3>1
  <2> QED BY <2>1, <2>2 DEF FullOf, ChunksOf
<1>4. CASE k < m
  <2>1. k + 1 \in 1 .. m /\ ~ (k + 1 <= k)
    BY <1>2, <1>4
  <2>2. arch[g].free = s[k + 1] /\ s[k + 1] \in M /\ s[k + 1] \notin F /\ s[k + 1] # NoChunk
    BY <1>2, <2>1, AtIs DEF In
  <2> QED BY <2>2 DEF FullOf, ChunksOf
<1> QED BY <1>2, <1>3, <1>4

\* A chunk that stays in use after serving is not a new one of a bin that holds
\* none: allocate_slice would take 0 entities, and resize_chunk destroy it.
LEMMA KeptHolds ==
    ASSUME World, NEW g \in Archetype, NEW c \in Servers(g), NEW count \in Nat \ {0},
           Kept(g, c, count)
    PROVE  ~ BinHoldsNone(g, count)
<1> DEFINE b == BinFor(arch[g].chunks, count, LargeHint)
           k == [Lists(g) EXCEPT !.n[c] = NewNode(b)]
           l == NewChunk(Lists(g), g, c, b)
<1> SUFFICES ASSUME arch[g].free = NoChunk, Capacity[b] = 0
             PROVE  FALSE
    BY DEF BinHoldsNone
<1>1. c \in Chunk /\ b \in Bin /\ g # NoArchetype /\ SizeMod \in Nat /\ SizeMod > 0
    BY BinForIs, CapacityIs, ChunkListAssumption DEF Servers, Unused
<1>2. /\ k.n \in Nodes /\ k.n[c] = NewNode(b)
  <2>1. node \in Nodes /\ NewNode(b) \in Node
    BY <1>1, NewNodeIs DEF World, WorldType
  <2>2. k.n = [node EXCEPT ![c] = NewNode(b)]
    BY DEF Lists
  <2> QED BY <1>1, <2>1, <2>2 DEF Nodes
<1>3. /\ \A d \in Chunk : l.n[d].bin = k.n[d].bin /\ l.n[d].count = k.n[d].count
  <2> DEFINE n0 == [k.n EXCEPT ![c].type = g]
  <2>1. \A d \in Chunk : n0[d].bin = k.n[d].bin /\ n0[d].count = k.n[d].count
    BY <1>1, <1>2 DEF Nodes, Node
  <2>2. n0 \in Nodes
    BY <1>1, <1>2 DEF Nodes, Node
  <2> HIDE DEF n0
  <2>3. ASSUME NEW x, NEW d \in Chunk
        PROVE  Link(n0, x, c)[d].bin = n0[d].bin /\ Link(n0, x, c)[d].count = n0[d].count
    BY <2>2 DEF Link, Nodes, Node
  <2>4. \E x : l.n \in {n0, Link(n0, x, c)}
    <3>1. l = AddChunk(k, g, c)
      BY DEF NewChunk
    <3> HIDE DEF k, l
    <3>2. \/ l.n = n0 \/ l.n = Link(n0, k.a.last, c) \/ l.n = Link(n0, k.a.first, c)
      BY <3>1 DEF AddChunk, n0
    <3> QED BY <3>2
  <2> QED BY <2>1, <2>3, <2>4
<1> DEFINE n == Smaller(count, (Capacity[l.n[c].bin] - l.n[c].count) % SizeMod)
           lists == ResizeChunk([l EXCEPT !.a.size = (@ + n) % SizeMod], c, l.n[c].count + n)
<1>4. l.n[c].bin = b /\ l.n[c].count = 0
    BY <1>1, <1>2, <1>3, NewNodeIs
<1>5. Offer(g, c, count).lists = lists
    BY DEF Offer
<1> HIDE DEF l
<1>6. l.n[c].count + n = 0
  <2>1. (0 - 0) % SizeMod = 0
    BY <1>1
  <2> QED BY <1>4, <2>1 DEF Smaller
<1> HIDE DEF n
<1>7. lists = DestroyChunk([l EXCEPT !.a.size = (@ + n) % SizeMod], c)
    BY <1>6 DEF ResizeChunk
<1>8. ASSUME NEW m PROVE DestroyChunk(m, c).n[c] = NewNode(Small)
    BY <1>1 DEF DestroyChunk, RemoveChunk, Remove, Unlink
<1>9. NewNode(Small).type = NoArchetype
    BY DEF NewNode
<1> HIDE DEF lists
<1> QED BY <1>1, <1>5, <1>7, <1>8, <1>9 DEF Kept

\* allocate_slice: where the entities go, and how many.
LEMMA OfferKeeps ==
    ASSUME World, NEW g \in Archetype, NEW c \in Servers(g), NEW count \in Nat \ {0},
           ~ BinHoldsNone(g, count), NEW o, o = Offer(g, c, count)
    PROVE  /\ c \in Chunk /\ o.n \in 1 .. count
           /\ Keeps(g, o.lists)
           /\ SameContents(node, o.lists.n, c)
           /\ o.lists.n[c].type = g
           /\ \/ /\ node[c].type = g
                 /\ o.n <= Capacity[node[c].bin] - node[c].count
                 /\ o.lists.n[c].bin = node[c].bin
                 /\ o.lists.n[c].count = node[c].count + o.n
              \/ /\ node[c].type = NoArchetype
                 /\ \A d \in Chunk : node[d].type = g => Full(node, d)
                 /\ o.lists.n[c].bin \in Bin
                 /\ o.n <= Capacity[o.lists.n[c].bin]
                 /\ o.lists.n[c].count = o.n
<1> DEFINE l == IF arch[g].free # NoChunk
                THEN Lists(g)
                ELSE NewChunk(Lists(g), g, c, BinFor(arch[g].chunks, count, LargeHint))
           start == l.n[c].count
           room == (Capacity[l.n[c].bin] - start) % SizeMod
           n == Smaller(count, room)
           k == [l EXCEPT !.a.size = (@ + n) % SizeMod]
<1>1. o.n = n /\ o.lists = ResizeChunk(k, c, start + n)
    BY DEF Offer
<1>2. /\ Lists(g) \in ListsType /\ Lists(g).n = node
      /\ Listed(Lists(g), ChunksOf(node, g), FullOf(node))
    BY ListsOf
<1>3. /\ c \in Chunk /\ Between(g, c, l) /\ ~ Full(l.n, c)
      /\ l.n[c].bin \in Bin /\ start \in Nat /\ start <= Capacity[l.n[c].bin]
      /\ IF node[c].type = g THEN l.n[c].bin = node[c].bin /\ start = node[c].count
         ELSE /\ node[c].type = NoArchetype /\ start = 0
              /\ \A d \in Chunk : node[d].type = g => Full(node, d)
  <2>1. CASE arch[g].free # NoChunk
    <3>1. l = Lists(g) /\ c = arch[g].free /\ c \in Chunk /\ node[c].type = g /\ ~ Full(node, c)
      BY <2>1, FreeIs DEF Servers
    <3>2. Between(g, c, Lists(g))
      BY <1>2, <3>1 DEF Between, ChunksOf, SameContents, SameOutside
    <3>3. node[c].bin \in Bin /\ node[c].count \in Nat /\ node[c].count <= Capacity[node[c].bin]
      <4>1. node[c].bin \in Bin /\ node[c].count \in Nat /\ g # NoArchetype
        BY <3>1, NodeFields, ChunkListAssumption DEF World, WorldType
      <4> QED BY <3>1, <4>1, CapacityIs DEF World, NoneOverfull
    <3> QED BY <1>2, <3>1, <3>2, <3>3
  <2>2. CASE arch[g].free = NoChunk
    <3> DEFINE b == BinFor(arch[g].chunks, count, LargeHint)
    <3>1. c \in Chunk /\ node[c].type = NoArchetype /\ g # NoArchetype
      BY <2>2, ChunkListAssumption DEF Servers, Unused
    <3>2. l = NewChunk(Lists(g), g, c, b)
      BY <2>2
    <3>3. b \in Bin /\ Capacity[b] \in Nat /\ Capacity[b] > 0
      BY <2>2, BinForIs, CapacityIs DEF BinHoldsNone
    <3> HIDE DEF l, b
    <3>4. Between(g, c, l) /\ l.n[c].bin = b /\ l.n[c].count = 0
      BY <1>2, <3>1, <3>2, <3>3, NewChunkIs
    <3>5. ~ Full(l.n, c) /\ 0 <= Capacity[b]
      BY <3>3, <3>4, CapacityIs DEF Full
    <3>6. \A d \in Chunk : node[d].type = g => Full(node, d)
      BY <2>2, FreeIs
    <3> QED BY <3>1, <3>3, <3>4, <3>5, <3>6
  <2> QED BY <2>1, <2>2
<1> HIDE DEF l
<1>4. Capacity[l.n[c].bin] \in Nat /\ Capacity[l.n[c].bin] < SizeMod /\ SizeMod \in Nat
    BY <1>3, CapacityIs, ChunkListAssumption
<1>5. start < Capacity[l.n[c].bin]
    BY <1>3, <1>4 DEF Full
<1>6. room = Capacity[l.n[c].bin] - start /\ room >= 1
  <2> DEFINE x == Capacity[l.n[c].bin] - start
  <2>1. x \in 0 .. SizeMod - 1 /\ x >= 1 /\ SizeMod > 0
    BY <1>3, <1>4, <1>5
  <2>2. room = x % SizeMod
    OBVIOUS
  <2> HIDE DEF x, room
  <2>3. \A i, w \in Nat : w > 0 /\ i < w => i % w = i
    OBVIOUS
  <2>4. x % SizeMod = x
    BY <1>4, <2>1, <2>3
  <2> QED BY <2>1, <2>2, <2>4 DEF x
<1> HIDE DEF room, start
<1>7. n \in 1 .. count /\ n <= Capacity[l.n[c].bin] - start /\ n \in Nat
    BY <1>3, <1>4, <1>6 DEF Smaller
<1> HIDE DEF n
<1>8. Between(g, c, k) /\ k.n = l.n
  <2>1. l \in ListsType
    BY <1>3 DEF Between
  <2>2. l.a \in Header /\ l.a.size \in Int
    BY <2>1, HeaderFields, SizesWrap
  <2>3. (l.a.size + n) % SizeMod \in 0 .. SizeMod - 1
    BY <1>7, <2>2, SizesWrap
  <2>4. /\ k.n = l.n /\ k = [a |-> k.a, n |-> k.n]
        /\ k.a = [l.a EXCEPT !.size = (@ + n) % SizeMod]
    BY <2>1 DEF ListsType
  <2>5. /\ k.a \in Header /\ k.a.first = l.a.first /\ k.a.last = l.a.last
        /\ k.a.free = l.a.free /\ k.a.chunks = l.a.chunks
    BY <2>2, <2>3, <2>4 DEF Header
  <2>6. k \in ListsType
    BY <2>1, <2>4, <2>5, HeaderFields DEF ListsType
  <2> DEFINE M == ChunksOf(l.n, g)
             F == FullOf(l.n)
  <2>7. Listed(l, M, F)
    BY <1>3 DEF Between
  <2>8. \A d \in M : k.n[d].next = l.n[d].next /\ k.n[d].prev = l.n[d].prev /\ (d \in F <=> d \in F)
    BY <2>4
  <2> HIDE DEF M, F, k
  <2>9. Listed(k, M, F)
    BY ONLY <2>5, <2>7, <2>8, ListedFrame
  <2> QED BY <1>3, <2>4, <2>6, <2>9 DEF Between, M, F
<1> HIDE DEF k
<1> DEFINE after == start + n
           r == o.lists
<1>9. after \in Nat /\ after # 0 /\ after <= Capacity[l.n[c].bin]
    BY <1>3, <1>4, <1>7
<1>10. /\ after \in Nat /\ after <= Capacity[k.n[c].bin]
       /\ after = Capacity[k.n[c].bin] => ~ Full(k.n, c)
       /\ World /\ g \in Archetype /\ Between(g, c, k)
       /\ r = ResizeChunk(k, c, after)
    BY <1>1, <1>3, <1>8, <1>9
<1> HIDE DEF after, r
<1>11. /\ Keeps(g, r)
       /\ SameContents(node, r.n, c)
       /\ after # 0 => r.n[c].type = g /\ r.n[c].bin = k.n[c].bin /\ r.n[c].count = after
    BY ONLY <1>10, ResizeKeeps
<1>12. r.n[c].type = g /\ r.n[c].bin = l.n[c].bin /\ r.n[c].count = start + n
    BY <1>8, <1>9, <1>11 DEF after
<1>13. CASE node[c].type = g
    BY <1>1, <1>3, <1>7, <1>11, <1>12, <1>13 DEF r
<1>14. CASE node[c].type # g
  <2>1. start = 0 /\ start + n = n
    BY <1>3, <1>7, <1>14
  <2>2. /\ node[c].type = NoArchetype
        /\ \A d \in Chunk : node[d].type = g => Full(node, d)
    BY <1>3, <1>14
  <2>3. r.n[c].bin \in Bin /\ n <= Capacity[r.n[c].bin] /\ r.n[c].count = n
    BY <1>3, <1>4, <1>7, <1>12, <2>1
  <2>4. n \in 1 .. count /\ o.n = n
    BY <1>1, <1>7
  <2> QED BY <1>3, <1>11, <1>12, <2>2, <2>3, <2>4 DEF r
<1> QED BY <1>13, <1>14

-----------------------------------------------------------------------------
(* Reading a slice back.                                                   *)

Fits(d, count) == node[d].count + count <= Capacity[node[d].bin]

LEMMA FittingIs ==
    ASSUME World, NEW g \in Archetype, NEW count \in Nat \ {0},
           NEW f, f = FirstFitting(node, arch[g].free, count)
    PROVE  IF f = NoChunk
           THEN \A d \in Chunk : node[d].type = g => ~ Fits(d, count)
           ELSE f \in Chunk /\ node[f].type = g /\ Fits(f, count)
<1> DEFINE M == ChunksOf(node, g)
           F == FullOf(node)
           N == Cardinality(Chunk)
<1>1. PICK s, m, k : Good(Lists(g), M, F, s, m, k)
    BY DEF World, ListInv, Listed
<1>2. /\ ListOf(Lists(g), M, s, m) /\ Sequence(s, m) /\ m \in Nat /\ k \in 0 .. m
      /\ \A i \in 1 .. m : s[i] \in F <=> i <= k
      /\ arch[g].free = At(s, m, k + 1) /\ Lists(g).n = node
      /\ \A d : In(s, m, d) <=> d \in M
    BY <1>1 DEF Good, ListOf, Sequence, Lists
<1>3. k + 1 \in 1 .. m + 1 /\ k + 1 \in Int
    BY <1>2
<1> DEFINE hop == Hops(node, arch[g].free)
           good == {j \in DOMAIN hop : hop[j] # NoChunk /\ Fits(hop[j], count)}
<1>4. hop = [j \in 0 .. N |-> At(s, m, (k + 1) + j)]
    BY <1>2, <1>3, HopsOfList
<1>5. f = IF good = {} THEN NoChunk ELSE hop[CHOOSE j \in good : \A i \in good : j <= i]
    BY DEF FirstFitting, Fits
<1> HIDE DEF hop
<1>6. N \in Nat /\ m \in 0 .. N
    BY <1>2, ListSize
<1> HIDE DEF N
<1>7. \A j : j \in good <=> /\ j \in 0 .. N
                            /\ At(s, m, (k + 1) + j) # NoChunk
                            /\ Fits(At(s, m, (k + 1) + j), count)
    BY <1>4
<1> HIDE DEF good
<1>8. CASE good = {}
  <2>1. f = NoChunk
    BY <1>5, <1>8
  <2>2. ASSUME NEW d \in M PROVE ~ Fits(d, count)
    <3>1. PICK i \in 1 .. m : s[i] = d
      BY <1>2 DEF In
    <3>2. CASE i <= k
      <4>1. Full(node, d) /\ d \in Chunk
        BY <1>2, <3>1, <3>2 DEF FullOf
      <4>2. node[d].bin \in Bin /\ Capacity[node[d].bin] \in Nat
        BY <4>1, NodeFields, CapacityIs DEF World, WorldType
      <4> QED BY <4>1, <4>2 DEF Full, Fits
    <3>3. CASE i > k
      <4> DEFINE j == i - (k + 1)
      <4>1. j \in 0 .. N /\ (k + 1) + j = i /\ i \in Int
        BY <1>2, <1>6, <3>3
      <4>2. At(s, m, i) = d /\ d # NoChunk
        BY <1>2, <3>1, AtIs
      <4> HIDE DEF j
      <4> QED BY <1>7, <1>8, <4>1, <4>2
    <3> QED BY <1>2, <3>2, <3>3
  <2> QED BY <2>1, <2>2 DEF ChunksOf
<1>9. CASE good # {}
  <2>1. good \subseteq Nat
    BY <1>6, <1>7
  <2>2. \E j \in good : \A i \in good : j <= i
    BY <1>9, <2>1, LeastNat
  <2>3. PICK j \in good : f = hop[j]
    BY <1>5, <1>9, <2>2
  <2>4. f = At(s, m, (k + 1) + j) /\ f # NoChunk /\ Fits(f, count) /\ j \in Nat
    BY <1>4, <1>6, <1>7, <2>3
  <2>5. (k + 1) + j \in 1 .. m /\ f = s[(k + 1) + j]
    BY <2>4 DEF At
  <2>6. f \in M
    BY <1>2, <2>5 DEF In
  <2> QED BY <2>4, <2>6 DEF ChunksOf
<1> QED BY <1>8, <1>9

\* deserialize_slice: where the entities go.
LEMMA LoadKeeps ==
    ASSUME World, ~ AnyLoad, NEW g \in Archetype, NEW c \in Chunk, NEW count \in Nat \ {0},
           NEW size \in ReadSize, Load(g, c, count, size)
    PROVE  /\ World' /\ SameContents(node, node', c) /\ call = Idle /\ UNCHANGED call
           /\ node'[c].type = g
           /\ \/ /\ node[c].type = g /\ Fits(c, count)
                 /\ node'[c].bin = node[c].bin /\ node'[c].count = node[c].count + count
              \/ /\ node[c].type = NoArchetype
                 /\ \A d \in Chunk : node[d].type = g => ~ Fits(d, count)
                 /\ node'[c].bin \in Bin /\ count <= Capacity[node'[c].bin]
                 /\ node'[c].count = count
<1> DEFINE found == FirstFitting(node, arch[g].free, count)
           b == BinFor(arch[g].chunks, count, LoadLargeHint)
           read == [Lists(g) EXCEPT !.a.size = (@ + size) % SizeMod]
           l == IF found # NoChunk THEN read ELSE NewChunk(read, g, c, b)
           start == l.n[c].count
           r == ResizeChunk(l, c, start + count)
<1>1. /\ call = Idle /\ UNCHANGED call /\ Becomes(g, r)
      /\ IF found # NoChunk THEN c = found ELSE c \in Unused
      /\ found = NoChunk => count <= Capacity[b]
    BY DEF Load
<1>2. /\ Lists(g) \in ListsType /\ Lists(g).n = node
      /\ Listed(Lists(g), ChunksOf(node, g), FullOf(node))
    BY ListsOf
<1>3. Lists(g).a.size + size \in Int
    BY <1>2, HeaderFields, SizesWrap, ChunkListAssumption
<1>4. b \in Bin
    BY BinForIs
<1>5. IF found = NoChunk
      THEN \A d \in Chunk : node[d].type = g => ~ Fits(d, count)
      ELSE found \in Chunk /\ node[found].type = g /\ Fits(found, count)
    BY FittingIs
<1>6. read \in ListsType /\ read.n = node /\ Listed(read, ChunksOf(node, g), FullOf(node))
  <2> DEFINE all == (Lists(g).a.size + size) % SizeMod
             k == Lists(g)
             M == ChunksOf(node, g)
             F == FullOf(node)
  <2>1. all \in 0 .. SizeMod - 1
    BY <1>3, SizesWrap
  <2>2. k.a \in Header /\ k.n \in Nodes
    BY <1>2, HeaderFields
  <2>3. /\ read.n = k.n /\ read.a = [k.a EXCEPT !.size = all]
        /\ read = [a |-> read.a, n |-> read.n]
    BY DEF Lists
  <2> HIDE DEF all, k, read
  <2>4. /\ read.a \in Header /\ read.a.first = k.a.first /\ read.a.last = k.a.last
        /\ read.a.free = k.a.free /\ read.a.chunks = k.a.chunks
    BY <2>1, <2>2, <2>3 DEF Header
  <2>5. read \in ListsType /\ read.n = node
    BY <1>2, <2>2, <2>3, <2>4 DEF ListsType, k
  <2>6. Listed(k, M, F)
    BY <1>2 DEF k
  <2>7. \A d \in M : read.n[d].next = k.n[d].next /\ read.n[d].prev = k.n[d].prev /\ (d \in F <=> d \in F)
    BY <2>3
  <2> HIDE DEF M, F
  <2>8. Listed(read, M, F)
    BY ONLY <2>4, <2>6, <2>7, ListedFrame
  <2> QED BY <2>5, <2>8 DEF M, F
<1>7. /\ Between(g, c, l) /\ start \in Nat /\ l.n[c].bin \in Bin
      /\ start + count <= Capacity[l.n[c].bin]
      /\ IF node[c].type = g
         THEN Fits(c, count) /\ l.n[c].bin = node[c].bin /\ start = node[c].count
         ELSE /\ node[c].type = NoArchetype /\ start = 0
              /\ \A d \in Chunk : node[d].type = g => ~ Fits(d, count)
  <2>1. CASE found # NoChunk
    <3>1. l = read /\ c = found /\ node[c].type = g /\ Fits(c, count)
      BY <1>1, <1>5, <2>1
    <3>2. Between(g, c, read)
      BY <1>6, <3>1 DEF Between, ChunksOf, SameContents, SameOutside
    <3>3. node[c].bin \in Bin /\ node[c].count \in Nat
      BY NodeFields DEF World, WorldType
    <3> HIDE DEF found, read, l
    <3> QED BY <1>6, <3>1, <3>2, <3>3 DEF Fits
  <2>2. CASE found = NoChunk
    <3>1. /\ node[c].type = NoArchetype /\ g # NoArchetype /\ count <= Capacity[b]
          /\ Capacity[b] > 0
      BY <1>1, <1>4, <2>2, CapacityIs, ChunkListAssumption DEF Unused
    <3>2. l = NewChunk(read, g, c, b)
      BY <2>2
    <3>3. \A d \in Chunk : node[d].type = g => ~ Fits(d, count)
      BY <1>5, <2>2
    <3> HIDE DEF l, b, found, read
    <3>4. Between(g, c, l) /\ l.n[c].bin = b /\ l.n[c].count = 0
      BY <1>4, <1>6, <3>1, <3>2, NewChunkIs
    <3> QED BY <1>4, <3>1, <3>3, <3>4
  <2> QED BY <2>1, <2>2
<1> HIDE DEF l
<1> DEFINE after == start + count
<1>8. after \in Nat /\ after # 0
    BY <1>7
<1>9. after = Capacity[l.n[c].bin] => ~ Full(l.n, c)
    BY <1>7, <1>8 DEF Full
<1>10. /\ after \in Nat /\ after <= Capacity[l.n[c].bin]
       /\ after = Capacity[l.n[c].bin] => ~ Full(l.n, c)
       /\ World /\ g \in Archetype /\ Between(g, c, l)
       /\ r = ResizeChunk(l, c, after)
    BY <1>7, <1>8, <1>9
<1> HIDE DEF after, r
<1>11. /\ Keeps(g, r)
       /\ SameContents(node, r.n, c)
       /\ after # 0 => r.n[c].type = g /\ r.n[c].bin = l.n[c].bin /\ r.n[c].count = after
    BY ONLY <1>10, ResizeKeeps
<1>12. World'
    BY <1>1, <1>11, BecomesKeeps
<1>13. /\ SameContents(node, node', c) /\ node'[c].type = g
       /\ node'[c].bin = l.n[c].bin /\ node'[c].count = after
  <2>1. node' = r.n
    BY <1>1 DEF Becomes
  <2> QED BY <1>8, <1>11, <2>1
<1>14. CASE node[c].type = g
    BY <1>1, <1>7, <1>12, <1>13, <1>14 DEF after
<1>15. CASE node[c].type # g
  <2>1. after = count
    BY <1>7, <1>15 DEF after
  <2>2. count <= Capacity[node'[c].bin] /\ node'[c].bin \in Bin
    BY <1>7, <1>10, <1>13, <2>1
  <2> QED BY <1>1, <1>7, <1>12, <1>13, <1>15, <2>1, <2>2
<1> QED BY <1>14, <1>15

-----------------------------------------------------------------------------
(* A whole chunk changes lists.                                            *)

LEMMA CastWholeKeeps ==
    ASSUME World, ~ AnyRelabel, NEW c \in Chunk, NEW g \in Archetype, CastWhole(c, g)
    PROVE  /\ World' /\ SameContents(node, node', c) /\ call = Idle /\ UNCHANGED call
           /\ node[c].type \notin {g, NoArchetype} /\ node'[c].type = g
           /\ node'[c].bin = node[c].bin /\ node'[c].count = node[c].count
<1> DEFINE src == node[c].type
           l == RemoveChunk(Lists(src), c)
           k == [a |-> arch[g], n |-> l.n]
           m == AddChunk(k, g, c)
           F == FullOf(node)
           M == ChunksOf(node, src)
           W == ChunksOf(node, g)
<1>1. /\ call = Idle /\ UNCHANGED call
      /\ src \notin {g, NoArchetype} /\ RelabelFits(c, g)
      /\ arch' = [arch EXCEPT ![src] = l.a, ![g] = m.a]
      /\ node' = m.n
    BY DEF CastWhole
<1>2. src \in Archetype /\ NoArchetype \notin Archetype
    BY <1>1, NodeFields, ChunkListAssumption DEF World, WorldType
<1>3. /\ Lists(src) \in ListsType /\ Lists(src).n = node /\ Listed(Lists(src), M, F)
      /\ Lists(g) \in ListsType /\ Lists(g).a = arch[g] /\ Lists(g).n = node
      /\ Listed(Lists(g), W, F)
  <2>1. \A h \in Archetype : /\ Lists(h) \in ListsType /\ Lists(h).n = node
                             /\ Lists(h).a = arch[h]
                             /\ Listed(Lists(h), ChunksOf(node, h), FullOf(node))
    <3> TAKE h \in Archetype
    <3>1. /\ Lists(h) \in ListsType /\ Lists(h).n = node /\ Lists(h).a = arch[h]
          /\ Listed(Lists(h), ChunksOf(node, h), FullOf(Lists(h).n))
      BY ListsOf
    <3> QED BY <3>1
  <2> QED BY <1>2, <2>1
<1>4. c \in M /\ c \notin W /\ M \subseteq Chunk /\ W \subseteq Chunk
    BY <1>1 DEF ChunksOf
<1>5. /\ l \in ListsType /\ Listed(l, M \ {c}, F) /\ Relinked(Lists(src), l, M)
      /\ l.n[c].next = NoChunk /\ l.n[c].prev = NoChunk
  <2> HIDE DEF M, F, src
  <2> QED BY <1>3, <1>4, RemoveChunkIs
<1> HIDE DEF l
<1>6. SameButLinks(node, l.n) /\ SameOutside(node, l.n, M)
    BY <1>3, <1>5 DEF Relinked
<1>7. k \in ListsType /\ k.a = arch[g] /\ k.n = l.n /\ Listed(k, W, F)
  <2>1. k \in ListsType /\ k.a = arch[g] /\ k.n = l.n
    BY <1>3, <1>5, HeaderFields DEF ListsType
  <2>2. \A d \in W : d \in Chunk \ M
    BY <1>1 DEF ChunksOf
  <2>3. \A d \in W : /\ k.n[d].next = Lists(g).n[d].next /\ k.n[d].prev = Lists(g).n[d].prev
                     /\ d \in F <=> d \in F
    BY <1>3, <1>6, <2>1, <2>2 DEF SameOutside
  <2>4. /\ k.a.first = Lists(g).a.first /\ k.a.last = Lists(g).a.last
        /\ k.a.free = Lists(g).a.free /\ k.a.chunks = Lists(g).a.chunks
    BY <1>3, <2>1
  <2> DEFINE q == Lists(g)
  <2>5. /\ Listed(q, W, F)
        /\ k.a.first = q.a.first /\ k.a.last = q.a.last
        /\ k.a.free = q.a.free /\ k.a.chunks = q.a.chunks
        /\ \A d \in W : /\ k.n[d].next = q.n[d].next /\ k.n[d].prev = q.n[d].prev
                        /\ d \in F <=> d \in F
    BY <1>3, <2>3, <2>4
  <2> HIDE DEF k, q, W, F
  <2>6. Listed(k, W, F)
    BY ONLY <2>5, ListedFrame
  <2> QED BY <2>1, <2>6
<1> HIDE DEF k
<1>8. /\ k.n[c].count <= Capacity[k.n[c].bin]
      /\ c \in F <=> Full(k.n, c)
      /\ k.n[c].next = NoChunk /\ k.n[c].prev = NoChunk
  <2>1. k.n[c].count = node[c].count /\ k.n[c].bin = node[c].bin
    BY <1>6, <1>7 DEF SameButLinks
  <2>2. node[c].count <= Capacity[node[c].bin]
    <3>1. node[c].bin \in Bin
      BY NodeFields DEF World, WorldType
    <3> QED BY <1>1, <3>1, CapacityIs DEF World, NoneOverfull
  <2> QED BY <1>5, <1>7, <2>1, <2>2 DEF F, FullOf, Full
<1>9. c \in F /\ W # {} => k.a.first \in F /\ k.a.first # k.a.last
  <2> SUFFICES ASSUME c \in F, W # {} PROVE k.a.first \in F /\ k.a.first # k.a.last
    OBVIOUS
  <2>1. PICK s, i, j : Good(k, W, F, s, i, j)
    BY <1>7 DEF Listed
  <2>2. k.a.first # NoChunk /\ k.a.first \in Chunk
    <3>1. k.a.first \in Pointer
      BY <1>7, HeaderFields
    <3>2. k.a.first # NoChunk
      BY <2>1, ListEnds DEF Good
    <3> QED BY <3>1, <3>2 DEF Pointer
  <2> QED BY <1>1, <1>7, <2>2 DEF RelabelFits, F, FullOf
<1>10. /\ m \in ListsType
       /\ Listed(m, W \cup {c}, F)
       /\ Joined(k.n, m.n, g, c)
       /\ SameOutside(k.n, m.n, W \cup {c})
  <2> DEFINE r == m
  <2>1. r = AddChunk(k, g, c)
    OBVIOUS
  <2> HIDE DEF r, W, F
  <2>2. /\ k \in ListsType /\ Listed(k, W, F) /\ c \in Chunk /\ c \notin W /\ g \in Archetype
        /\ k.n[c].next = NoChunk /\ k.n[c].prev = NoChunk
        /\ k.n[c].count <= Capacity[k.n[c].bin] /\ (c \in F <=> Full(k.n, c))
        /\ (c \in F /\ W # {} => k.a.first \in F /\ k.a.first # k.a.last)
    BY <1>4, <1>7, <1>8, <1>9
  <2>3. /\ r \in ListsType /\ Listed(r, W \cup {c}, F)
        /\ Joined(k.n, r.n, g, c) /\ SameOutside(k.n, r.n, W \cup {c})
    BY ONLY <2>1, <2>2, AddChunkIs
  <2> QED BY <2>3 DEF r
<1> HIDE DEF m
<1>11. \A d \in Chunk : /\ m.n[d].type = IF d = c THEN g ELSE node[d].type
                        /\ m.n[d].bin = node[d].bin
                        /\ m.n[d].count = node[d].count
    BY <1>6, <1>7, <1>10 DEF SameButLinks, Joined
<1>12. FullOf(m.n) = F
    BY <1>11 DEF F, FullOf, Full
<1>13. /\ arch'[src] = l.a /\ arch'[g] = m.a
       /\ \A h \in Archetype \ {src, g} : arch'[h] = arch[h]
    BY <1>1, <1>2 DEF World, WorldType
<1>14. WorldType'
    BY <1>1, <1>5, <1>10, HeaderFields DEF World, WorldType
<1>15. NoneOverfull'
  <2> SUFFICES ASSUME NEW d \in Chunk, m.n[d].type # NoArchetype
               PROVE  m.n[d].count \in 1 .. Capacity[m.n[d].bin]
    BY <1>1 DEF NoneOverfull
  <2>1. node[d].type # NoArchetype
    BY <1>1, <1>11
  <2> QED BY <1>11, <2>1 DEF World, NoneOverfull
<1>16. ListInv'
  <2> SUFFICES ASSUME NEW h \in Archetype
               PROVE  Listed([a |-> arch'[h], n |-> m.n], ChunksOf(m.n, h), F)
    BY <1>1, <1>12 DEF ListInv, Lists
  <2> DEFINE q == [a |-> arch'[h], n |-> m.n]
  <2>1. CASE h = g
    <3>1. q = m
      BY <1>10, <1>13, <2>1 DEF ListsType
    <3>2. ChunksOf(m.n, h) = W \cup {c}
      BY <1>4, <1>11, <2>1 DEF ChunksOf
    <3> QED BY <1>10, <3>1, <3>2
  <2>2. CASE h = src
    <3> DEFINE V == M \ {c}
    <3>1. ChunksOf(m.n, h) = V
      BY <1>1, <1>4, <1>11, <2>2 DEF ChunksOf
    <3>2. \A d \in V : d \in Chunk \ (W \cup {c})
      BY <1>1 DEF ChunksOf
    <3>3. \A d \in V : m.n[d] = l.n[d]
      BY <1>7, <1>10, <3>2 DEF SameOutside
    <3>4. /\ Listed(l, V, F)
          /\ q.a.first = l.a.first /\ q.a.last = l.a.last
          /\ q.a.free = l.a.free /\ q.a.chunks = l.a.chunks
          /\ \A d \in V : /\ q.n[d].next = l.n[d].next /\ q.n[d].prev = l.n[d].prev
                          /\ d \in F <=> d \in F
      BY <1>5, <1>13, <2>2, <3>3
    <3> HIDE DEF q, V, F
    <3>5. Listed(q, V, F)
      BY ONLY <3>4, ListedFrame
    <3> QED BY <3>1, <3>5 DEF q
  <2>3. CASE h \notin {src, g}
    <3> DEFINE V == ChunksOf(node, h)
               j == [a |-> arch[h], n |-> node]
    <3>1. ChunksOf(m.n, h) = V
      BY <1>11, <2>3 DEF ChunksOf
    <3>2. \A d \in V : d \in Chunk \ (W \cup {c}) /\ d \in Chunk \ M
      BY <1>4, <2>3 DEF ChunksOf
    <3>3. \A d \in V : m.n[d] = node[d]
      BY <1>6, <1>7, <1>10, <3>2 DEF SameOutside
    <3>4. Listed(j, V, F)
      BY DEF World, ListInv, Lists
    <3>5. /\ Listed(j, V, F)
          /\ q.a.first = j.a.first /\ q.a.last = j.a.last
          /\ q.a.free = j.a.free /\ q.a.chunks = j.a.chunks
          /\ \A d \in V : /\ q.n[d].next = j.n[d].next /\ q.n[d].prev = j.n[d].prev
                          /\ d \in F <=> d \in F
      BY <1>13, <2>3, <3>3, <3>4
    <3> HIDE DEF q, V, F, j
    <3>6. Listed(q, V, F)
      BY ONLY <3>5, ListedFrame
    <3> QED BY <3>1, <3>6 DEF q
  <2> QED BY <2>1, <2>2, <2>3
<1>17. SameContents(node, node', c)
    BY <1>1, <1>11 DEF SameContents
<1> QED BY <1>1, <1>11, <1>14, <1>15, <1>16, <1>17 DEF World

-----------------------------------------------------------------------------
(* The steps, and the steps of the pool that they implement.               *)

\* n entities have come to chunk c of g, or have left chunk c.
Stored(g, c, n) ==
    /\ c \in Chunk /\ n \in Nat \ {0} /\ SameContents(node, node', c)
    /\ node'[c].type = g /\ node'[c].count = node[c].count + n
    /\ \/ node[c].type = g /\ node'[c].bin = node[c].bin
       \/ node[c].type = NoArchetype /\ node'[c].bin \in Bin
Freed(c, n) ==
    /\ c \in Chunk /\ SameContents(node, node', c)
    /\ IF n = node[c].count THEN node'[c] = NewNode(Small)
       ELSE /\ node'[c].type = node[c].type /\ node'[c].bin = node[c].bin
            /\ node'[c].count = node[c].count - n

LEMMA StoredInPool ==
    ASSUME NEW g \in Archetype, NEW c, NEW n, Stored(g, c, n), UnusedEmpty
    PROVE  /\ UnusedEmpty'
           /\ Pool!Put(g, c, n)
           /\ node[c].type = g => UNCHANGED [d \in Chunk |-> node[d].bin]
           /\ node[c].type = NoArchetype =>
                  \E b \in Bin : /\ b = node'[c].bin
                                 /\ [d \in Chunk |-> node[d].bin]' =
                                    [[d \in Chunk |-> node[d].bin] EXCEPT ![c] = b]
<1>1. g # NoArchetype /\ c \in Chunk /\ n > 0
    BY ChunkListAssumption DEF Stored
<1>2. \A d \in Chunk : d # c => /\ node'[d].type = node[d].type
                                /\ node'[d].bin = node[d].bin
                                /\ node'[d].count = node[d].count
    BY DEF Stored, SameContents
<1>3. UnusedEmpty'
    BY <1>1, <1>2 DEF Stored, UnusedEmpty
<1>4. Pool!Put(g, c, n)
  <2>1. [d \in Chunk |-> node'[d].type] = [[d \in Chunk |-> node[d].type] EXCEPT ![c] = g]
    BY <1>1, <1>2 DEF Stored
  <2>2. [d \in Chunk |-> node'[d].count] = [[d \in Chunk |-> node[d].count] EXCEPT ![c] = @ + n]
    BY <1>1, <1>2 DEF Stored
  <2> QED BY <1>1, <2>1, <2>2 DEF Pool!Put
<1>5. node[c].type = g => UNCHANGED [d \in Chunk |-> node[d].bin]
    BY <1>1, <1>2 DEF Stored
<1>6. ASSUME node[c].type = NoArchetype
      PROVE  /\ node'[c].bin \in Bin
             /\ [d \in Chunk |-> node'[d].bin] =
                [[d \in Chunk |-> node[d].bin] EXCEPT ![c] = node'[c].bin]
    BY <1>1, <1>2, <1>6 DEF Stored
<1> QED BY <1>3, <1>4, <1>5, <1>6

LEMMA FreedInPool ==
    ASSUME WorldType, NoneOverfull, UnusedEmpty, NEW c \in Chunk, node[c].type # NoArchetype,
           NEW n \in 1 .. node[c].count, Freed(c, n)
    PROVE  UnusedEmpty' /\ Pool!Take(c, n)
<1>1. node[c].count \in Nat /\ Small \in Bin /\ Small = 0
    BY NodeFields DEF WorldType, Bin, Small, Large
<1>2. \A d \in Chunk : d # c => /\ node'[d].type = node[d].type
                                /\ node'[d].bin = node[d].bin
                                /\ node'[d].count = node[d].count
    BY DEF Freed, SameContents
<1>3. IF n = node[c].count
      THEN node'[c].type = NoArchetype /\ node'[c].bin = 0 /\ node'[c].count = 0
      ELSE /\ node'[c].type = node[c].type /\ node'[c].bin = node[c].bin
           /\ node'[c].count = node[c].count - n
    BY <1>1, NewNodeIs DEF Freed
<1>4. UnusedEmpty'
    BY <1>2, <1>3 DEF UnusedEmpty
<1>5. [d \in Chunk |-> node'[d].count] = [[d \in Chunk |-> node[d].count] EXCEPT ![c] = @ - n]
  <2>1. node'[c].count = node[c].count - n
    BY <1>1, <1>3
  <2> QED BY <1>2, <2>1
<1>6. [d \in Chunk |-> node'[d].type] =
      [[d \in Chunk |-> node[d].type] EXCEPT ![c] = IF node[c].count = n THEN NoArchetype ELSE @]
    BY <1>2, <1>3
<1>7. [d \in Chunk |-> node'[d].bin] =
      [[d \in Chunk |-> node[d].bin] EXCEPT ![c] = IF node[c].count = n THEN 0 ELSE @]
    BY <1>2, <1>3
<1>8. Pool!Take(c, n)
  <2>1. /\ [d \in Chunk |-> node[d].count][c] = node[c].count
        /\ [d \in Chunk |-> node[d].type][c] = node[c].type
    OBVIOUS
  <2>2. [d \in Chunk |-> node[d].type][c] # NoArchetype
    BY <2>1
  <2>3. n \in 1 .. [d \in Chunk |-> node[d].count][c]
    BY <2>1
  <2> QED BY <1>5, <1>6, <1>7, <2>1, <2>2, <2>3 DEF Pool!Take
<1> QED BY <1>4, <1>8

\* A chunk serves allocate or cast.
LEMMA ServeIs ==
    ASSUME World, UnusedEmpty, NEW g \in Archetype, NEW c \in Servers(g), NEW count \in Nat \ {0},
           AllocateSlice(g, c, count), Kept(g, c, count),
           NEW n, n = Offer(g, c, count).n
    PROVE  /\ World' /\ UnusedEmpty'
           /\ n \in 1 .. count /\ Pool!PutWithRoom(g, c, n)
           /\ c \in Chunk /\ node[c].type \in {g, NoArchetype} /\ SameContents(node, node', c)
<1> DEFINE o == Offer(g, c, count)
<1>1. Becomes(g, o.lists)
    BY DEF AllocateSlice
<1>2. o = Offer(g, c, count) /\ o.n = n
    OBVIOUS
<1> HIDE DEF o
<1>3. /\ c \in Chunk /\ n \in 1 .. count
      /\ Keeps(g, o.lists)
      /\ SameContents(node, o.lists.n, c)
      /\ o.lists.n[c].type = g
      /\ \/ /\ node[c].type = g
            /\ n <= Capacity[node[c].bin] - node[c].count
            /\ o.lists.n[c].bin = node[c].bin
            /\ o.lists.n[c].count = node[c].count + n
         \/ /\ node[c].type = NoArchetype
            /\ \A d \in Chunk : node[d].type = g => Full(node, d)
            /\ o.lists.n[c].bin \in Bin
            /\ n <= Capacity[o.lists.n[c].bin]
            /\ o.lists.n[c].count = n
    BY <1>2, KeptHolds, OfferKeeps
<1>4. World'
    BY <1>1, <1>3, BecomesKeeps
<1>5. node' = o.lists.n
    BY <1>1 DEF Becomes
<1>6. NoArchetype # g
    BY ChunkListAssumption
<1>7. Stored(g, c, n)
  <2>1. node'[c].count = node[c].count + n
    <3>1. node[c].type = NoArchetype => node[c].count = 0 /\ 0 + n = n
      BY <1>3 DEF UnusedEmpty
    <3> QED BY <1>3, <1>5, <3>1
  <2> QED BY <1>3, <1>5, <2>1 DEF Stored
<1>8. /\ UnusedEmpty'
      /\ Pool!Put(g, c, n)
      /\ node[c].type = g => UNCHANGED [d \in Chunk |-> node[d].bin]
      /\ node[c].type = NoArchetype =>
             \E b \in Bin : /\ b = node'[c].bin
                            /\ [d \in Chunk |-> node[d].bin]' =
                               [[d \in Chunk |-> node[d].bin] EXCEPT ![c] = b]
    BY <1>7, StoredInPool
<1>9. \A d \in Chunk : /\ node[d].bin \in Bin /\ node[d].count \in Nat
                       /\ Capacity[node[d].bin] \in Nat
    BY NodeFields, CapacityIs DEF World, WorldType
<1>10. Pool!PutWithRoom(g, c, n)
  <2>1. CASE node[c].type = g
    <3>1. n <= Capacity[node[c].bin] - node[c].count /\ Capacity[node[c].bin] - node[c].count > 0
      BY <1>3, <1>6, <1>9, <2>1
    <3>2. c \in Pool!Roomy(g) /\ n <= Pool!Room(c)
      BY <1>3, <2>1, <3>1 DEF Pool!Roomy, Pool!Room
    <3> QED BY <1>8, <2>1, <3>2 DEF Pool!PutWithRoom
  <2>2. CASE node[c].type = NoArchetype
    <3>1. \A d \in Chunk : node[d].type = g => ~ (Capacity[node[d].bin] - node[d].count > 0)
      BY <1>3, <1>6, <1>9, <2>2 DEF Full
    <3>2. Pool!Roomy(g) = {}
      BY <3>1 DEF Pool!Roomy, Pool!Room
    <3>3. Pool!Bin = Bin
      BY ChunkListAssumption DEF Pool!Bin
    <3>4. n <= Capacity[node'[c].bin]
      BY <1>3, <1>5, <1>6, <2>2
    <3> QED BY <1>3, <1>8, <2>2, <3>2, <3>3, <3>4 DEF Pool!PutWithRoom
  <2> QED BY <1>3, <2>1, <2>2
<1> QED BY <1>3, <1>4, <1>5, <1>8, <1>10

LEMMA WorldStays ==
    ASSUME World, UnusedEmpty, UNCHANGED <<arch, node>>
    PROVE  World' /\ UnusedEmpty'
<1>1. arch' = arch /\ node' = node
    OBVIOUS
<1>2. WorldType' /\ ListInv' /\ NoneOverfull' /\ UnusedEmpty'
    BY <1>1 DEF World, WorldType, ListInv, Lists, NoneOverfull, UnusedEmpty
<1> QED BY <1>2 DEF World

LEMMA AllocateIs ==
    ASSUME IInv, NEW g \in Archetype, NEW n \in 1 .. MaxCount, Allocate(g, n)
    PROVE  IInv' /\ Pool!Allocate(g, n)
<1>1. n \in Nat \ {0}
    BY ChunkListAssumption
<1>2. World' /\ UnusedEmpty'
    BY WorldStays DEF IInv, Allocate
<1>3. CallInv'
    BY <1>1 DEF Allocate, CallInv
<1>4. Pool!Allocate(g, n)
    BY DEF Allocate, Pool!Allocate, Pool!Idle, Idle
<1> QED BY <1>2, <1>3, <1>4 DEF IInv

LEMMA AllocateStepIs ==
    ASSUME IInv, NEW c \in Chunk, AllocateStep(c)
    PROVE  IInv' /\ Pool!AllocateStep(c)
<1>1. PICK g \in Archetype, left \in Nat \ {0} :
          call = [op |-> "allocate", g |-> g, left |-> left]
    BY DEF IInv, CallInv, AllocateStep, Idle
<1>2. PICK n : n = Offer(g, c, left).n
    OBVIOUS
<1>3. /\ c \in Servers(g) /\ AllocateSlice(g, c, left) /\ Kept(g, c, left)
      /\ call' = IF left - n = 0 THEN Idle ELSE [call EXCEPT !.left = left - n]
    BY <1>1, <1>2 DEF AllocateStep
<1>4. /\ World /\ UnusedEmpty /\ g \in Archetype /\ c \in Servers(g) /\ left \in Nat \ {0}
      /\ AllocateSlice(g, c, left) /\ Kept(g, c, left) /\ n = Offer(g, c, left).n
    BY <1>3, <1>2 DEF IInv
<1>5. World' /\ UnusedEmpty' /\ n \in 1 .. left /\ Pool!PutWithRoom(g, c, n)
    BY ONLY <1>4, ServeIs
<1>6. call.op = "allocate" /\ call.g = g /\ call.left = left
    BY <1>1
<1>7. CASE n = left
  <2>1. call' = Idle
    BY <1>3, <1>7
  <2>2. Pool!AllocateStep(c)
    BY <1>5, <1>7, <1>6, <2>1 DEF Pool!AllocateStep, Pool!Idle, Idle,
                            Pool!PutWithRoom, Pool!Put, Pool!Roomy, Pool!Room
  <2> QED BY <1>5, <2>1, <2>2 DEF IInv, CallInv
<1>8. CASE n # left
  <2>1. left - n \in Nat \ {0}
    BY <1>5, <1>8
  <2>2. call' = [call EXCEPT !.left = left - n]
    BY <1>3, <2>1
  <2>3. call' = [op |-> "allocate", g |-> g, left |-> left - n]
    BY <1>1, <2>2
  <2>4. call' = [call EXCEPT !.left = @ - n]
    BY <1>1, <2>2
  <2>5. Pool!AllocateStep(c)
    BY <1>5, <1>8, <1>6, <2>4 DEF Pool!AllocateStep,
                            Pool!PutWithRoom, Pool!Put, Pool!Roomy, Pool!Room
  <2> QED BY <1>5, <2>1, <2>3, <2>5 DEF IInv, CallInv
<1> QED BY <1>7, <1>8

\* free_slice of chunk c.
LEMMA FreeIsTake ==
    ASSUME World, UnusedEmpty, NEW c \in Chunk, node[c].type # NoArchetype,
           NEW n \in 1 .. node[c].count,
           Becomes(node[c].type, FreedSlice(Lists(node[c].type), c, n))
    PROVE  World' /\ UnusedEmpty' /\ Pool!Take(c, n)
<1> DEFINE g == node[c].type
           r == FreedSlice(Lists(g), c, n)
<1>1. g \in Archetype
    BY NodeFields DEF World, WorldType
<1>2. r = FreedSlice(Lists(g), c, n) /\ g = node[c].type /\ Becomes(g, r)
    OBVIOUS
<1> HIDE DEF g, r
<1>3. /\ Keeps(g, r)
      /\ SameContents(node, r.n, c)
      /\ n = node[c].count => r.n[c] = NewNode(Small)
      /\ n # node[c].count => /\ r.n[c].type = g /\ r.n[c].bin = node[c].bin
                              /\ r.n[c].count = node[c].count - n
    BY <1>1, <1>2, FreedKeeps
<1>4. World'
    BY <1>1, <1>2, <1>3, BecomesKeeps
<1>5. node' = r.n
    BY <1>2 DEF Becomes
<1>6. Freed(c, n)
    BY <1>2, <1>3, <1>5 DEF Freed
<1> QED BY <1>4, <1>6, FreedInPool DEF World

LEMMA FreeSliceIs ==
    ASSUME IInv, NEW c \in Chunk, NEW n \in 1 .. MaxCount, FreeSlice(c, n)
    PROVE  IInv' /\ Pool!FreeSlice(c, n)
<1>1. /\ call = Idle /\ node[c].type # NoArchetype /\ n <= node[c].count /\ UNCHANGED call
      /\ Becomes(node[c].type, FreedSlice(Lists(node[c].type), c, n))
    BY DEF FreeSlice
<1>2. n \in 1 .. node[c].count
  <2>1. node[c].count \in Nat /\ MaxCount \in Nat
    BY NodeFields, ChunkListAssumption DEF IInv, World, WorldType
  <2> QED BY <1>1, <2>1
<1>3. World' /\ UnusedEmpty' /\ Pool!Take(c, n)
    BY <1>1, <1>2, FreeIsTake DEF IInv
<1>4. CallInv'
    BY <1>1 DEF CallInv
<1>5. Pool!FreeSlice(c, n)
    BY <1>1, <1>3 DEF Pool!FreeSlice, Pool!Idle, Idle
<1> QED BY <1>3, <1>4, <1>5 DEF IInv

LEMMA CastSliceIs ==
    ASSUME IInv, NEW c \in Chunk, NEW n \in 1 .. MaxCount, NEW g \in Archetype, CastSlice(c, n, g)
    PROVE  IInv' /\ Pool!CastSlice(c, n, g)
<1> DEFINE h == node[c].type
           l == [Lists(h) EXCEPT !.a.size = (arch[h].size - n) % SizeMod]
<1>1. /\ call = Idle /\ h \notin {g, NoArchetype} /\ n <= node[c].count
      /\ arch' = [arch EXCEPT ![h].size = (@ - n) % SizeMod]
      /\ call' = [op |-> "cast", g |-> g, left |-> n, c |-> c, n |-> n]
      /\ node' = node
    BY DEF CastSlice
<1>2. /\ World /\ UnusedEmpty /\ h \in Archetype /\ n \in Nat \ {0} /\ node[c].count \in Nat
      /\ arch[h] \in Header /\ arch \in [Archetype -> Header]
  <2>1. World /\ UnusedEmpty /\ node[c].type \in Archetype \cup {NoArchetype}
        /\ node[c].count \in Nat /\ MaxCount \in Nat
    BY NodeFields, ChunkListAssumption DEF IInv, World, WorldType
  <2> QED BY <1>1, <2>1 DEF World, WorldType
<1>3. arch[h].size - n \in Int
    BY <1>2, SizesWrap DEF Header
<1>4. Between(h, c, l) /\ l.n = node
    BY <1>2, <1>3, SizeBetween
<1>5. l.a = [arch[h] EXCEPT !.size = (@ - n) % SizeMod]
    BY DEF Lists
<1>6. Keeps(h, l)
  <2> HIDE DEF l
  <2>1. \A d \in ChunksOf(node, h) : node[d].count \in 1 .. Capacity[node[d].bin]
    BY <1>1, <1>2 DEF World, NoneOverfull, ChunksOf
  <2> QED BY <1>4, <2>1 DEF Keeps, Between
<1>7. Becomes(h, l)
    BY <1>1, <1>2, <1>4, <1>5 DEF Becomes
<1> HIDE DEF l
<1>8. World'
    BY <1>2, <1>6, <1>7, BecomesKeeps
<1>9. UnusedEmpty'
    BY <1>1, <1>2 DEF UnusedEmpty
<1>10. CallInv'
    BY <1>1, <1>2 DEF CallInv
<1>11. Pool!CastSlice(c, n, g)
  <2>1. n \in 1 .. node[c].count
    BY <1>1, <1>2
  <2> QED BY <1>1, <2>1 DEF Pool!CastSlice, Pool!Idle, Idle
<1> QED BY <1>8, <1>9, <1>10, <1>11 DEF IInv

LEMMA CastStepIs ==
    ASSUME IInv, NEW c \in Chunk, CastStep(c)
    PROVE  IInv' /\ Pool!CastStep(c)
<1>1. PICK g \in Archetype, left \in Nat, b \in Chunk, n \in Nat \ {0} :
          /\ call = [op |-> "cast", g |-> g, left |-> left, c |-> b, n |-> n]
          /\ node[b].type \notin {g, NoArchetype}
          /\ n <= node[b].count
    BY DEF IInv, CallInv, CastStep, Idle
<1>2. PICK k : k = Offer(g, c, left).n
    OBVIOUS
<1>3. /\ left \in Nat \ {0} /\ c \in Servers(g)
      /\ AllocateSlice(g, c, left) /\ Kept(g, c, left)
      /\ call' = [call EXCEPT !.left = @ - k]
    BY <1>1, <1>2 DEF CastStep
<1>4. /\ World' /\ UnusedEmpty'
      /\ k \in 1 .. left /\ Pool!PutWithRoom(g, c, k)
      /\ node[c].type \in {g, NoArchetype} /\ SameContents(node, node', c)
  <2>1. /\ World /\ UnusedEmpty /\ g \in Archetype /\ c \in Servers(g) /\ left \in Nat \ {0}
        /\ AllocateSlice(g, c, left) /\ Kept(g, c, left) /\ k = Offer(g, c, left).n
    BY <1>3, <1>2 DEF IInv
  <2> QED BY ONLY <2>1, ServeIs
<1>5. b # c /\ node'[b].type = node[b].type /\ node'[b].count = node[b].count
    BY <1>1, <1>4 DEF SameContents
<1>6. left - k \in Nat
    BY <1>3, <1>4
<1>7. call' = [op |-> "cast", g |-> g, left |-> left - k, c |-> b, n |-> n]
    BY <1>1, <1>3
<1>8. CallInv'
    BY <1>1, <1>5, <1>6, <1>7 DEF CallInv
<1>9. Pool!CastStep(c)
  <2>1. call.op = "cast" /\ call.g = g /\ call.left = left
    BY <1>1
  <2> QED BY <1>3, <1>4, <2>1 DEF Pool!CastStep,
                           Pool!PutWithRoom, Pool!Put, Pool!Roomy, Pool!Room
<1> QED BY <1>4, <1>8, <1>9 DEF IInv

LEMMA CastEndIs ==
    ASSUME IInv, CastEnd
    PROVE  IInv' /\ Pool!CastEnd
<1>1. PICK g \in Archetype, left \in Nat, c \in Chunk, n \in Nat \ {0} :
          /\ call = [op |-> "cast", g |-> g, left |-> left, c |-> c, n |-> n]
          /\ node[c].type \notin {g, NoArchetype}
          /\ n <= node[c].count
    BY DEF IInv, CallInv, CastEnd, Idle
<1>2. /\ left = 0 /\ call' = Idle
      /\ Becomes(node[c].type, FreedSlice(Lists(node[c].type), c, n))
    BY <1>1 DEF CastEnd
<1>3. n \in 1 .. node[c].count
  <2>1. node[c].count \in Nat
    BY NodeFields DEF IInv, World, WorldType
  <2> QED BY <1>1, <2>1
<1>4. World' /\ UnusedEmpty' /\ Pool!Take(c, n)
    BY <1>1, <1>2, <1>3, FreeIsTake DEF IInv
<1>5. CallInv'
    BY <1>2 DEF CallInv
<1>6. Pool!CastEnd
  <2>1. call.op = "cast" /\ call.left = 0 /\ call.c = c /\ call.n = n
    BY <1>1, <1>2
  <2> QED BY <1>2, <1>4, <2>1 DEF Pool!CastEnd, Pool!Idle, Idle, Pool!Take
<1> QED BY <1>4, <1>5, <1>6 DEF IInv

LEMMA CastWholeIs ==
    ASSUME ~ AnyRelabel, IInv, NEW c \in Chunk, NEW g \in Archetype, CastWhole(c, g)
    PROVE  IInv' /\ Pool!CastWhole(c, g)
<1>1. /\ World' /\ SameContents(node, node', c) /\ call = Idle /\ UNCHANGED call
      /\ node[c].type \notin {g, NoArchetype} /\ node'[c].type = g
      /\ node'[c].bin = node[c].bin /\ node'[c].count = node[c].count
    BY CastWholeKeeps DEF IInv
<1>2. /\ g # NoArchetype
      /\ \A d \in Chunk : d # c => /\ node'[d].type = node[d].type
                                   /\ node'[d].bin = node[d].bin
                                   /\ node'[d].count = node[d].count
    BY <1>1, ChunkListAssumption DEF SameContents
<1>3. UnusedEmpty'
    BY <1>1, <1>2 DEF IInv, UnusedEmpty
<1>4. CallInv'
    BY <1>1 DEF CallInv
<1>5. [d \in Chunk |-> node'[d].type] = [[d \in Chunk |-> node[d].type] EXCEPT ![c] = g]
    BY <1>1, <1>2
<1>6. /\ [d \in Chunk |-> node'[d].bin] = [d \in Chunk |-> node[d].bin]
      /\ [d \in Chunk |-> node'[d].count] = [d \in Chunk |-> node[d].count]
    BY <1>1, <1>2
<1>7. Pool!CastWhole(c, g)
    BY <1>1, <1>5, <1>6 DEF Pool!CastWhole, Pool!Idle, Idle
<1> QED BY <1>1, <1>3, <1>4, <1>7 DEF IInv

LEMMA LoadIs ==
    ASSUME ~ AnyLoad, IInv, NEW c \in Chunk, NEW n \in 1 .. MaxCount, NEW g \in Archetype,
           NEW size \in ReadSize, Load(g, c, n, size)
    PROVE  IInv' /\ Pool!Load(g, c, n)
<1>1. n \in Nat \ {0} /\ NoArchetype # g
    BY ChunkListAssumption
<1>2. /\ World' /\ SameContents(node, node', c) /\ call = Idle /\ UNCHANGED call
      /\ node'[c].type = g
      /\ \/ /\ node[c].type = g /\ Fits(c, n)
            /\ node'[c].bin = node[c].bin /\ node'[c].count = node[c].count + n
         \/ /\ node[c].type = NoArchetype
            /\ \A d \in Chunk : node[d].type = g => ~ Fits(d, n)
            /\ node'[c].bin \in Bin /\ n <= Capacity[node'[c].bin]
            /\ node'[c].count = n
    BY <1>1, LoadKeeps DEF IInv
<1>3. Stored(g, c, n)
  <2>1. node'[c].count = node[c].count + n
    <3>1. node[c].type = NoArchetype => node[c].count = 0 /\ 0 + n = n
      BY <1>1 DEF IInv, UnusedEmpty
    <3> QED BY <1>2, <3>1
  <2> QED BY <1>1, <1>2, <2>1 DEF Stored
<1>4. /\ UnusedEmpty'
      /\ Pool!Put(g, c, n)
      /\ node[c].type = g => UNCHANGED [d \in Chunk |-> node[d].bin]
      /\ node[c].type = NoArchetype =>
             \E b \in Bin : /\ b = node'[c].bin
                            /\ [d \in Chunk |-> node[d].bin]' =
                               [[d \in Chunk |-> node[d].bin] EXCEPT ![c] = b]
    BY <1>3, StoredInPool DEF IInv
<1>5. CallInv'
    BY <1>2 DEF CallInv
<1>6. \A d \in Chunk : /\ node[d].bin \in Bin /\ node[d].count \in Nat
                       /\ Capacity[node[d].bin] \in Nat
    BY NodeFields, CapacityIs DEF IInv, World, WorldType
<1>7. Pool!Load(g, c, n)
  <2>1. CASE node[c].type = g
    <3>1. n <= Capacity[node[c].bin] - node[c].count /\ Capacity[node[c].bin] - node[c].count > 0
      BY <1>1, <1>2, <1>6, <2>1 DEF Fits
    <3>2. c \in Pool!Roomy(g) /\ n <= Pool!Room(c)
      BY <2>1, <3>1 DEF Pool!Roomy, Pool!Room
    <3> QED BY <1>2, <1>4, <2>1, <3>2 DEF Pool!Load, Pool!Idle, Idle
  <2>2. CASE node[c].type = NoArchetype
    <3>1. \A d \in Chunk : node[d].type = g => n > Capacity[node[d].bin] - node[d].count
      BY <1>1, <1>2, <1>6, <2>2 DEF Fits
    <3>2. \A d \in Pool!Roomy(g) : n > Pool!Room(d)
      BY <3>1 DEF Pool!Roomy, Pool!Room
    <3>3. Pool!Bin = Bin
      BY ChunkListAssumption DEF Pool!Bin
    <3>4. n <= Capacity[node'[c].bin]
      BY <1>1, <1>2, <2>2
    <3> QED BY <1>2, <1>4, <2>2, <3>2, <3>3, <3>4 DEF Pool!Load, Pool!Idle, Idle
  <2> QED BY <1>2, <2>1, <2>2
<1> QED BY <1>2, <1>4, <1>5, <1>7 DEF IInv

LEMMA ClearIs ==
    ASSUME IInv, Clear
    PROVE  IInv' /\ Pool!Clear
<1>1. Init'
    BY DEF Clear, Init
<1>2. (Init => IInv)'
    BY Initially, PTL
<1>3. \A c \in Chunk : /\ node'[c].type = NoArchetype /\ node'[c].count = 0
                       /\ node'[c].bin = 0
  <2>1. Small \in Bin /\ Small = 0
    BY DEF Bin, Small, Large
  <2> QED BY <2>1, NewNodeIs DEF Clear
<1>4. Pool!Clear
    BY <1>3 DEF Clear, Pool!Clear, Pool!Idle, Idle
<1> QED BY <1>1, <1>2, <1>4

LEMMA StepIs ==
    ASSUME ~ AnyRelabel, ~ AnyLoad, IInv, [Next]_vars
    PROVE  IInv' /\ [Pool!Next]_(Pool!vars)
<1>1. CASE Next
  <2>1. ASSUME NEW g \in Archetype, NEW n \in 1 .. MaxCount, Allocate(g, n)
        PROVE  IInv' /\ Pool!Next
    BY <2>1, AllocateIs DEF Pool!Next
  <2>2. ASSUME NEW c \in Chunk, AllocateStep(c)
        PROVE  IInv' /\ Pool!Next
    BY <2>2, AllocateStepIs DEF Pool!Next
  <2>3. ASSUME NEW c \in Chunk, NEW n \in 1 .. MaxCount, FreeSlice(c, n)
        PROVE  IInv' /\ Pool!Next
    BY <2>3, FreeSliceIs DEF Pool!Next
  <2>4. ASSUME NEW c \in Chunk, NEW n \in 1 .. MaxCount, NEW g \in Archetype, CastSlice(c, n, g)
        PROVE  IInv' /\ Pool!Next
    BY <2>4, CastSliceIs DEF Pool!Next
  <2>5. ASSUME NEW c \in Chunk, CastStep(c)
        PROVE  IInv' /\ Pool!Next
    BY <2>5, CastStepIs DEF Pool!Next
  <2>6. ASSUME CastEnd
        PROVE  IInv' /\ Pool!Next
    BY <2>6, CastEndIs DEF Pool!Next
  <2>7. ASSUME NEW c \in Chunk, NEW g \in Archetype, CastWhole(c, g)
        PROVE  IInv' /\ Pool!Next
    BY <2>7, CastWholeIs DEF Pool!Next
  <2>8. ASSUME NEW c \in Chunk, NEW n \in 1 .. MaxCount, NEW g \in Archetype,
               NEW size \in ReadSize, Load(g, c, n, size)
        PROVE  IInv' /\ Pool!Next
    BY <2>8, LoadIs DEF Pool!Next
  <2>9. ASSUME Clear
        PROVE  IInv' /\ Pool!Next
    BY <2>9, ClearIs DEF Pool!Next
  <2> QED BY <1>1, <2>1, <2>2, <2>3, <2>4, <2>5, <2>6, <2>7, <2>8, <2>9 DEF Next
<1>2. CASE UNCHANGED vars
  <2>1. arch' = arch /\ node' = node /\ call' = call
    BY <1>2 DEF vars
  <2>2. World' /\ UnusedEmpty'
    BY <2>1, WorldStays DEF IInv
  <2>3. CallInv'
    BY <2>1 DEF IInv, CallInv
  <2>4. UNCHANGED Pool!vars
    BY <2>1 DEF Pool!vars
  <2> QED BY <2>2, <2>3, <2>4 DEF IInv
<1> QED BY <1>1, <1>2

-----------------------------------------------------------------------------
(* What the invariant says of the lists.                                   *)

LEMMA TypesAreGood == IInv => TypeOK
<1> SUFFICES ASSUME IInv PROVE TypeOK
    OBVIOUS
<1>1. arch \in [Archetype -> Header] /\ node \in [Chunk -> Node]
    BY DEF IInv, World, WorldType, Nodes
<1>2. \/ call = Idle
      \/ call.op = "allocate" /\ call.g \in Archetype /\ call.left \in Nat
      \/ /\ call.op = "cast" /\ call.g \in Archetype /\ call.left \in Nat
         /\ call.c \in Chunk /\ call.n \in Nat
    BY DEF IInv, CallInv
<1> QED BY <1>1, <1>2 DEF TypeOK

LEMMA ListsAreGood == IInv => ListsWellFormed
<1> SUFFICES ASSUME IInv, NEW g \in Archetype
             PROVE  LET hop == Hops(node, arch[g].first)
                        size == Cardinality(Of(g))
                    IN  /\ {hop[k] : k \in 0 .. size - 1} = Of(g)
                        /\ hop[size] = NoChunk
                        /\ arch[g].last = IF size = 0 THEN NoChunk ELSE hop[size - 1]
                        /\ \A k \in 0 .. size - 1 :
                               node[hop[k]].prev = IF k = 0 THEN NoChunk ELSE hop[k - 1]
                        /\ arch[g].chunks = size
    BY DEF ListsWellFormed
<1> DEFINE l == Lists(g)
           M == ChunksOf(node, g)
           F == FullOf(node)
           hop == Hops(node, arch[g].first)
           N == Cardinality(Chunk)
<1>1. Listed(l, M, F)
    BY DEF IInv, World, ListInv
<1>2. l.n = node /\ l.a = arch[g] /\ Of(g) = M
    BY DEF Lists, Of, ChunksOf
<1> HIDE DEF l, M, F
<1>3. PICK s, m, k : Good(l, M, F, s, m, k)
    BY <1>1 DEF Listed
<1>4. ListOf(l, M, s, m)
    BY <1>3 DEF Good
<1>5. m = Cardinality(M) /\ m \in 0 .. N /\ N \in Nat
    BY <1>4, ListSize
<1>6. /\ Sequence(s, m) /\ Linked(l.n, s, m)
      /\ \A c : In(s, m, c) <=> c \in M
      /\ l.a.first = At(s, m, 1) /\ l.a.last = At(s, m, m)
    BY <1>4 DEF ListOf
<1>7. 1 \in 1 .. m + 1
    BY <1>5
<1>8. Hops(l.n, At(s, m, 1)) = [j \in 0 .. N |-> At(s, m, 1 + j)]
    BY ONLY <1>4, <1>7, HopsOfList
<1>9. hop = [j \in 0 .. N |-> At(s, m, 1 + j)]
    BY <1>2, <1>6, <1>8
<1> HIDE DEF hop, N
<1>10. \A j \in 0 .. m - 1 :
           hop[j] = s[j + 1] /\ j + 1 \in 1 .. m /\ hop[j] = At(s, m, j + 1)
    BY <1>5, <1>9 DEF At
<1>11. {hop[j] : j \in 0 .. m - 1} = M
  <2>1. ASSUME NEW j \in 0 .. m - 1 PROVE hop[j] \in M
    BY <1>6, <1>10 DEF In
  <2>2. ASSUME NEW c \in M PROVE \E j \in 0 .. m - 1 : hop[j] = c
    <3>1. PICK i \in 1 .. m : s[i] = c
      BY <1>6 DEF In
    <3>2. i - 1 \in 0 .. m - 1 /\ (i - 1) + 1 = i
      BY <1>5
    <3> QED BY <1>10, <3>1, <3>2
  <2> QED BY <2>1, <2>2
<1>12. hop[m] = NoChunk
    BY <1>5, <1>9 DEF At
<1>13. arch[g].last = IF m = 0 THEN NoChunk ELSE hop[m - 1]
  <2>1. CASE m = 0
    BY <1>2, <1>6, <2>1 DEF At
  <2>2. CASE m # 0
    <3>1. m - 1 \in 0 .. m - 1 /\ (m - 1) + 1 = m
      BY <1>5, <2>2
    <3> QED BY <1>2, <1>6, <1>10, <2>2, <3>1
  <2> QED BY <2>1, <2>2
<1>14. ASSUME NEW j \in 0 .. m - 1
       PROVE  node[hop[j]].prev = IF j = 0 THEN NoChunk ELSE hop[j - 1]
  <2>1. node[hop[j]].prev = At(s, m, (j + 1) - 1)
    BY <1>2, <1>6, <1>10 DEF Linked
  <2>2. CASE j = 0
    BY <2>1, <2>2 DEF At
  <2>3. CASE j # 0
    <3>1. j - 1 \in 0 .. m - 1 /\ (j - 1) + 1 = (j + 1) - 1
      BY <1>5, <2>3
    <3> QED BY <1>10, <2>1, <2>3, <3>1
  <2> QED BY <2>2, <2>3
<1>15. arch[g].chunks = m
    BY <1>2, <1>3 DEF Good
<1> QED BY <1>2, <1>5, <1>11, <1>12, <1>13, <1>14, <1>15 DEF hop

LEMMA FreeIsGood == IInv => FreeSuffix
<1> SUFFICES ASSUME IInv, NEW g \in Archetype
             PROVE  LET hop == Hops(node, arch[g].free)
                    IN  {hop[k] : k \in DOMAIN hop} \ {NoChunk}
                        = {c \in Of(g) : ~ Full(node, c)}
    BY DEF FreeSuffix
<1> DEFINE l == Lists(g)
           M == ChunksOf(node, g)
           F == FullOf(node)
           hop == Hops(node, arch[g].free)
           N == Cardinality(Chunk)
           R == {c \in Of(g) : ~ Full(node, c)}
<1>1. Listed(l, M, F)
    BY DEF IInv, World, ListInv
<1>2. l.n = node /\ l.a = arch[g] /\ \A c : c \in R <=> c \in M /\ c \notin F
    BY DEF Lists, Of, ChunksOf, FullOf
<1> HIDE DEF l, M, F, R
<1>3. PICK s, m, k : Good(l, M, F, s, m, k)
    BY <1>1 DEF Listed
<1>4. ListOf(l, M, s, m)
    BY <1>3 DEF Good
<1>5. m \in 0 .. N /\ N \in Nat
    BY <1>4, ListSize
<1>6. Sequence(s, m) /\ \A c : In(s, m, c) <=> c \in M
    BY <1>4 DEF ListOf
<1>7. /\ k \in 0 .. m /\ l.a.free = At(s, m, k + 1)
      /\ \A i \in 1 .. m : s[i] \in F <=> i <= k
    BY <1>3 DEF Good
<1>8. k + 1 \in 1 .. m + 1
    BY <1>5, <1>7
<1>9. Hops(l.n, At(s, m, k + 1)) = [j \in 0 .. N |-> At(s, m, (k + 1) + j)]
    BY ONLY <1>4, <1>8, HopsOfList
<1>10. hop = [j \in 0 .. N |-> At(s, m, (k + 1) + j)]
    BY <1>2, <1>7, <1>9
<1> HIDE DEF hop, N
<1>11. ASSUME NEW j \in 0 .. N, hop[j] # NoChunk PROVE hop[j] \in R
  <2>1. (k + 1) + j \in 1 .. m /\ hop[j] = s[(k + 1) + j]
    BY <1>10, <1>11 DEF At
  <2>2. ~ ((k + 1) + j <= k)
    BY <1>5, <1>7
  <2> QED BY <1>2, <1>6, <1>7, <2>1, <2>2 DEF In
<1>12. ASSUME NEW c \in R PROVE \E j \in 0 .. N : hop[j] = c /\ c # NoChunk
  <2>1. PICK i \in 1 .. m : s[i] = c
    BY <1>2, <1>6 DEF In
  <2>2. i > k
    BY <1>2, <1>5, <1>7, <2>1
  <2>3. i - (k + 1) \in 0 .. N /\ (k + 1) + (i - (k + 1)) = i
    BY <1>5, <1>7, <2>2
  <2>4. hop[i - (k + 1)] = s[i]
    BY <1>10, <2>3 DEF At
  <2> QED BY <1>6, <2>1, <2>3, <2>4, AtIs
<1>13. DOMAIN hop = 0 .. N
    BY <1>10
<1>14. {hop[j] : j \in DOMAIN hop} \ {NoChunk} = R
    BY <1>11, <1>12, <1>13
<1> QED BY <1>14 DEF hop, R

LEMMA SlicesAreGood == IInv => SlicesNotEmpty
<1> SUFFICES ASSUME IInv, call.op = "allocate", ~ BinHoldsNone(call.g, call.left),
                    NEW c \in Servers(call.g)
             PROVE  Offer(call.g, c, call.left).n > 0
    BY DEF SlicesNotEmpty
<1>1. World /\ call.g \in Archetype /\ call.left \in Nat \ {0}
    BY DEF IInv, CallInv, Idle
<1>2. Offer(call.g, c, call.left).n \in 1 .. call.left
    BY <1>1, OfferKeeps
<1> QED BY <1>1, <1>2

LEMMA PoolStarts == Init => Pool!Init
<1> SUFFICES ASSUME Init PROVE Pool!Init
    OBVIOUS
<1>1. Small \in Bin /\ Small = 0
    BY DEF Bin, Small, Large
<1>2. \A c \in Chunk : /\ node[c].type = NoArchetype /\ node[c].bin = 0
                       /\ node[c].count = 0
    BY <1>1, NewNodeIs DEF Init
<1>3. call = Pool!Idle
    BY DEF Init, Idle, Pool!Idle
<1> QED BY <1>2, <1>3 DEF Pool!Init

-----------------------------------------------------------------------------
(* The theorems.  They are about calls that keep to what the lists can     *)
(* take: a full chunk is relabelled only where add_chunk keeps the order   *)
(* (~ AnyRelabel), and a slice is read back only where its bin can hold it *)
(* (~ AnyLoad).  Without the first, SlicesNotEmpty fails: see the run      *)
(* chunk_list_relabel.                                                     *)

\* The invariant is inductive, and every step of the lists is one of the pool.
THEOREM Invariance ==
    ASSUME ~ AnyRelabel, ~ AnyLoad
    PROVE  Spec => []IInv
<1>1. Init => IInv
    BY Initially
<1>2. IInv /\ [Next]_vars => IInv'
    BY StepIs
<1> QED BY <1>1, <1>2, PTL DEF Spec

\* Whatever is linked and unlinked, pointers stay pointers to chunks of the
\* world or null, and an archetype's size stays in its width.
THEOREM TypesHold ==
    ASSUME ~ AnyRelabel, ~ AnyLoad
    PROVE  Spec => []TypeOK
BY Invariance, TypesAreGood, PTL

\* link, unlink, mark_free, unmark_free, add_chunk and remove_chunk keep every
\* archetype's chunks in one list: following next from firstChunk meets each of
\* them once and ends at lastChunk, prev leads back, and chunkCount counts them.
THEOREM ListsStayWellFormed ==
    ASSUME ~ AnyRelabel, ~ AnyLoad
    PROVE  Spec => []ListsWellFormed
BY Invariance, ListsAreGood, PTL

\* The chunks from firstFree on are exactly those that are not full, whichever
\* chunks fill up or empty: resize_chunk moves them to their side in time.
THEOREM FreeStaysSuffix ==
    ASSUME ~ AnyRelabel, ~ AnyLoad
    PROVE  Spec => []FreeSuffix
BY Invariance, FreeIsGood, PTL

\* allocate_slice, cast_slice and deserialize_slice never put more entities in
\* a chunk than fit, and no chunk stays in use without any: the subtraction
\* chunkCapacity - count never wraps.
THEOREM ChunksStayInCapacity ==
    ASSUME ~ AnyRelabel, ~ AnyLoad
    PROVE  Spec => []NoneOverfull
<1>1. IInv => NoneOverfull
    BY DEF IInv, World
<1> QED BY <1>1, Invariance, PTL

\* The loop of allocate makes progress: each slice that allocate_slice returns
\* holds an entity, as the chunk that serves it is never full.  Bins may hold
\* none: where new_chunk takes a chunk of such a bin the property says nothing
\* (BinHoldsNone), as the slice is empty then.
THEOREM SlicesHoldEntities ==
    ASSUME ~ AnyRelabel, ~ AnyLoad
    PROVE  Spec => []SlicesNotEmpty
BY Invariance, SlicesAreGood, PTL

\* The linked lists implement the pool of chunks that the rest of the world
\* relies on: allocate_slice takes room where an archetype has some, a new chunk
\* only when it has none, and an emptied chunk goes back to the allocator.
THEOREM ImplementsPool ==
    ASSUME ~ AnyRelabel, ~ AnyLoad
    PROVE  Spec => PoolSpec
<1>1. IInv /\ [Next]_vars => [Pool!Next]_(Pool!vars)
    BY StepIs
<1> QED BY <1>1, Invariance, PoolStarts, PTL DEF Spec, PoolSpec, Pool!Spec
=============================================================================
