---------------------------- MODULE MCEntityTable ----------------------------
(* Instances of EntityTable for TLC.                                       *)
EXTENDS EntityTable, TLC

CONSTANTS c1, c2, c3, c4, A, B, R

MCArchetype == {A, B, R}

\* Entities of B are tracked: destroying them leaves remnants in R.
MCCleaning == [g \in MCArchetype |-> IF g = A THEN NoArchetype ELSE R]

\* A and B differ by a tag.
MCStaticCastable == {<<A, B>>, <<B, A>>}

\* Four chunks, of the three sizes a pool can give: in the larger ones a
\* slice leaves a hole that only part of the tail fills.
FourChunks == {c1, c2, c3, c4}
FourCapacities == [c \in FourChunks |-> CASE c = c1 -> 1
                                          [] c = c2 -> 2
                                          [] OTHER -> 3]

\* Three chunks, for the run that follows few entities for long: merging two
\* chunks can leave the target with room.
ThreeChunks == {c1, c2, c3}
ThreeCapacities == [c \in ThreeChunks |-> CASE c = c1 -> 1
                                            [] c = c2 -> 2
                                            [] OTHER -> 3]

AlikeChunks == Permutations({c3, c4})
=============================================================================
