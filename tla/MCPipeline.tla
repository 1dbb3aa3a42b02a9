----------------------------- MODULE MCPipeline -----------------------------
(* Instances of Pipeline for TLC.                                          *)
EXTENDS Pipeline

CONSTANTS a1, a2, a3, A, B, T, U, res

TwoAddr == {a1, a2}
ThreeAddr == {a1, a2, a3}
AlikeAddr == Permutations(ThreeAddr)
AlikeTwo == Permutations(TwoAddr)
MCArchetype == {A, B}
MCType == {T, U}
MCOrder == <<A, B>>
NoResource == {}
OneResource == {res}

\* A has T, B has T and U, and the entities of A see the U of one of B.
MCOwner == [at \in MCArchetype |->
              [t \in MCType |-> IF at = A /\ t = U THEN B ELSE at]]

\* A has T, B has U, and the entities of B see the T of one of A.
SeenOwner == [at \in MCArchetype |->
                [t \in MCType |-> IF t = T THEN A ELSE IF at = A THEN NoArchetype ELSE B]]

NoCleaning == [at \in MCArchetype |-> NoArchetype]
CleaningInB == [at \in MCArchetype |-> IF at = A THEN B ELSE NoArchetype]

Param(t, readonly, random) == [type |-> t, readonly |-> readonly, random |-> random]
Over(archs, params) == [NoKind EXCEPT !.archs = archs, !.params = params]
Using(kind, readonly) ==
    [kind EXCEPT !.resources = <<[entry |-> res, readonly |-> readonly]>>]

WriteT == Over(<<A>>, <<Param(T, FALSE, FALSE)>>)
ReadT == Over(<<A, B>>, <<Param(T, TRUE, FALSE)>>)
ReadTWriteU == Over(<<B>>, <<Param(T, TRUE, FALSE), Param(U, FALSE, FALSE)>>)
WriteTReadU == Over(<<A>>, <<Param(T, FALSE, FALSE), Param(U, TRUE, FALSE)>>)
ReadUOverA == Over(<<A>>, <<Param(U, TRUE, FALSE)>>)
WriteAnyT == Over(<<A>>, <<Param(T, FALSE, TRUE)>>)
ReadAnyT == Over(<<B, A>>, <<Param(T, TRUE, TRUE)>>)

\* Passes over components.
ComponentKinds == {WriteTReadU, ReadT, ReadTWriteU}

\* Passes that use a shared resource, one without entities, or any entity.
ResourceKinds == {Using(NoKind, FALSE), Using(ReadUOverA, TRUE), WriteAnyT, ReadAnyT}

\* One writer and one reader.
TwoKinds == {WriteT, ReadT}

\* Passes over what has changed.
ChangedKinds == {WriteT, [ReadT EXCEPT !.changed = <<T>>]}

\* What the theorems about Pipeline suppose of the kinds, of those that are not
\* passes over what has changed.
ASSUME KindsAskForAll == \A kind \in Kinds : kind.changed = <<>> => AsksForAll(kind)

\* The kinds below belong to no run: the README says what they show.

\* Passes that write any entity's component, over two archetypes.
RandomKinds == {Over(<<A, B>>, <<Param(T, FALSE, TRUE)>>)}

\* Passes that write any entity's U; A, met first, has none of its own.
PartlyKinds == {Over(<<B>>, <<Param(U, FALSE, TRUE)>>), ReadTWriteU}

\* Passes over an archetype that sees the T of the other, and the other.
SeenKinds == {Over(<<B, A>>, <<Param(T, FALSE, FALSE)>>)}
=============================================================================
