----------------------------- MODULE ChunkMerge -----------------------------
(***************************************************************************)
(* merge_chunks of one archetype: sort its list in place, try to make room *)
(* in large chunks, then pour the chunks at the end of the list into those *)
(* at the front.  It starts from any list that the operations of ChunkList *)
(* build.  The call is followed to its end and not beyond: what it leaves  *)
(* need not be a list that those operations can work on.                   *)
(*                                                                         *)
(* One action is one round of a loop of the code.  A round that would read *)
(* a null pointer, a chunk already given back to the allocator, or the     *)
(* type of a large chunk just added, which malloc_chunk does not set, is   *)
(* undefined and not enabled: the model stops there (Held).  So nothing is *)
(* poured once a large chunk has been added.                               *)
(***************************************************************************)
EXTENDS ChunkList

\* Chunks of the list up to, but without, the unsorted rest.
Sorted(g) ==
    LET hop == Hops(node, arch[g].first)
        end == CHOOSE k \in DOMAIN hop : hop[k] = call.unsorted
    IN  [k \in 0 .. end - 1 |-> hop[k]]

Merge(g) ==
    /\ call = Idle
    /\ arch[g].first # NoChunk
    /\ node[arch[g].first].next # NoChunk
    /\ call' = [op |-> "sort", g |-> g, unsorted |-> node[arch[g].first].next]
    /\ UNCHANGED <<arch, node>>

\* Whether the sort puts chunk d before chunk c.
Ahead(c, d) ==
    \/ node[c].bin < node[d].bin
    \/ node[c].count < node[d].count

\* Mutant: the chunk before c still leads to c.
BeforeOneWay(n, c, d) ==
    LET u == Unlink(n, d)
        p == u[c].prev
    IN  [x \in Chunk |->
            [u[x] EXCEPT !.next = IF x = d THEN c ELSE @,
                         !.prev = CASE x = d -> p [] x = c -> d [] OTHER -> @]]

\* Chunk d is unlinked and linked again before chunk c.
Before(n, c, d) ==
    LET u == Unlink(n, d)
        p == u[c].prev
    IN  [x \in Chunk |->
            [u[x] EXCEPT !.next = CASE x = d -> c [] x = p -> d [] OTHER -> @,
                         !.prev = CASE x = d -> p [] x = c -> d [] OTHER -> @]]

\* The next unsorted chunk goes before the first one that it is ahead of.
SortStep ==
    LET g == call.g
        d == call.unsorted
        rest == node[d].next
        hop == Sorted(g)
        worse == {k \in DOMAIN hop : Ahead(hop[k], d)}
        c == hop[CHOOSE k \in worse : \A j \in worse : k <= j]
        last == IF rest = NoChunk THEN d ELSE arch[g].last
    IN  /\ call.op = "sort"
        /\ d # NoChunk
        /\ IF worse = {}
           THEN /\ arch' = [arch EXCEPT ![g].last = last]
                /\ UNCHANGED node
           ELSE /\ node' = Before(node, c, d)
                /\ arch' = [arch EXCEPT ![g].last = last,
                                        ![g].first = IF @ = c THEN d ELSE @]
        /\ call' = [call EXCEPT !.unsorted = rest]

SortEnd ==
    /\ call.op = "sort"
    /\ call.unsorted = NoChunk
    /\ call' = [op |-> "large", g |-> call.g, left |-> arch[call.g].size, added |-> {}]
    /\ UNCHANGED <<arch, node>>

\* The loop over the large chunks at the front stays at the first one.
CountLarge ==
    LET g == call.g
    IN  /\ call.op = "large"
        /\ call.added = {} /\ node[arch[g].first].bin = Large
        /\ call' = [call EXCEPT !.left =
                       IF @ > Capacity[Large] THEN @ - Capacity[Large] ELSE 0]
        /\ UNCHANGED <<arch, node>>

\* A new large chunk takes the place of the first one.
NewLarge(c) ==
    LET g == call.g
    IN  /\ call.op = "large"
        /\ call.added = {} => node[arch[g].first].bin # Large
        /\ call.left > Capacity[Large]
        /\ c \in Unused \ call.added
        /\ node' = [node EXCEPT ![c] = NewNode(Large)]
        /\ arch' = [arch EXCEPT ![g].first = c]
        /\ call' = [call EXCEPT !.left = @ - Capacity[Large], !.added = @ \cup {c}]

LargeEnd ==
    LET g == call.g
    IN  /\ call.op = "large"
        /\ call.added = {} => node[arch[g].first].bin # Large
        /\ call.left <= Capacity[Large]
        /\ call' = [op |-> "pour", g |-> g, dst |-> arch[g].first]
        /\ UNCHANGED <<arch, node>>

\* The chunks that the merge may still read: those whose type is the archetype.
Held == Of(call.g)

\* Mutant: what is poured is not taken from the source.
PouredTwice(dst, src, n) == [node EXCEPT ![dst].count = @ + n]

\* n entities move from the end of src to the end of dst.
Poured(dst, src, n) == [node EXCEPT ![dst].count = @ + n, ![src].count = @ - n]

\* From the last chunk to dst, as much as fits.
Pour ==
    LET g == call.g
        dst == call.dst
        src == arch[g].last
        full == Capacity[node[dst].bin]
        n == Poured(dst, src, Smaller(full - node[dst].count, node[src].count))
        l == [a |-> arch[g], n |-> n]
    IN  /\ call.op = "pour"
        /\ dst # src
        /\ dst \in Held /\ src \in Held
        /\ Becomes(g, IF n[src].count = 0 THEN DestroyChunk(l, src) ELSE l)
        /\ call' = [call EXCEPT !.dst = IF n[@].count = full THEN n[@].next ELSE @]

MergeEnd ==
    LET g == call.g
    IN  /\ call.op = "pour"
        /\ call.dst = arch[g].last
        /\ call.dst \in Held
        /\ arch' = [arch EXCEPT ![g].free =
                       IF Full(node, call.dst) THEN NoChunk ELSE call.dst]
        /\ call' = [op |-> "merged", g |-> g]
        /\ UNCHANGED node

MergeStep ==
    \/ SortStep
    \/ SortEnd
    \/ CountLarge
    \/ \E c \in Chunk : NewLarge(c)
    \/ LargeEnd
    \/ Pour
    \/ MergeEnd

MergeNext ==
    \/ Next
    \/ \E g \in Archetype : Merge(g)
    \/ MergeStep

MergeSpec == Init /\ [][MergeNext]_vars

-----------------------------------------------------------------------------
(* Properties.                                                             *)

\* While the list is sorted in place, every chunk of the archetype is met
\* once from firstChunk: relinking the chunk under the cursor loses none.
SortKeepsChunks ==
    call.op = "sort" =>
        LET hop == Hops(node, arch[call.g].first)
            size == Cardinality(Of(call.g))
        IN  {hop[k] : k \in 0 .. size - 1} = Of(call.g) /\ hop[size] = NoChunk

\* How many there are.  (A chunk that nobody uses counts none.)
Entities ==
    LET sum[S \in SUBSET Chunk] ==
            IF S = {} THEN 0
            ELSE LET c == CHOOSE d \in S : TRUE IN node[c].count + sum[S \ {c}]
    IN  sum[Chunk]

\* Pouring loses no entity and overfills no chunk, whatever has become of the
\* list that merge_chunks walks.
PourKeepsEntities ==
    [][Pour => /\ Entities' = Entities
               /\ \A c \in Chunk : node'[c].count \in 0 .. Capacity[node'[c].bin]]_vars

\* What is poured goes from a chunk of the archetype to a chunk of the
\* archetype: neither is null, and neither has been given back.  This does not
\* hold of merge_chunks, and no run has it: see the README, section 5.
EndsInUse ==
    call.op = "pour" => call.dst \in Held /\ arch[call.g].last \in Held
=============================================================================
