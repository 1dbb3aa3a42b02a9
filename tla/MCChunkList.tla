----------------------------- MODULE MCChunkList -----------------------------
(* Instances of ChunkList for TLC.                                         *)
EXTENDS ChunkList, TLC

CONSTANTS c1, c2, c3, c4, A, B

MCChunk == {c1, c2, c3, c4}
MCArchetype == {A, B}

\* A small chunk takes one entity, a fast one two, a large one three.  Two
\* entities count as small, as in the code, where the test on the bytes they
\* need leaves out the chunk's header.
MCCapacity == [b \in Bin |-> b + 1]

\* Belongs to no run: an entity that does not fit in a small chunk beside its
\* header.  With it, and SmallHint = 2, NoSliceEmpty is violated.
MCTightCapacity == [b \in Bin |-> b]

MCReadSize == {0, 3}

MCStaticCastable == {<<A, B>>, <<B, A>>}

AlikeChunks == Permutations(MCChunk)
=============================================================================
