SPECIFICATION Spec
CONSTANTS
    c1 = c1
    c2 = c2
    c3 = c3
    c4 = c4
    A = A
    B = B
    R = R
    NoChunk = NoChunk
    NoArchetype = NoArchetype
    Chunk <- FourChunks
    Capacity <- FourCapacities
    Archetype <- MCArchetype
    Cleaning <- MCCleaning
    StaticCastable <- MCStaticCastable
    MaxIds = 4
    VersionCount = 4
    FreshVersion = {0}
    MaxCount = 3
    MaxIssues = 2
SYMMETRY AlikeChunks
INVARIANTS
    TypeOK
    Coherent
    NoDanglingRecord
    FreeListSound
    ChunksWellFilled
PROPERTIES
    CastKeepsEntities
    OnlyZeroLosesIds
