---------------------------- MODULE MCChunkMerge ----------------------------
(* Instances of ChunkMerge for TLC.                                        *)
EXTENDS ChunkMerge, TLC

CONSTANTS c1, c2, c3, c4, A

MCChunk == {c1, c2, c3, c4}
MCArchetype == {A}

\* Chunks of one, three and four entities: a large chunk can hold fewer
\* entities than a fast one.
MCCapacity == (Small :> 1) @@ (Fast :> 3) @@ (Large :> 4)

NoPairs == {}

MCReadSize == {0, 1, 9}

AlikeChunks == Permutations(MCChunk)
=============================================================================
