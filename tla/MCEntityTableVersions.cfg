SPECIFICATION FairSpec
CONSTANTS
    c1 = c1
    c2 = c2
    c3 = c3
    c4 = c4
    A = A
    B = B
    R = R
    NoChunk = NoChunk
    NoArchetype = NoArchetype
    Chunk <- ThreeChunks
    Capacity <- ThreeCapacities
    Archetype <- MCArchetype
    Cleaning <- MCCleaning
    StaticCastable <- MCStaticCastable
    MaxIds = 2
    VersionCount = 4
    FreshVersion = {0, 1, 2, 3}
    MaxCount = 2
    MaxIssues = 6
INVARIANTS
    StaleHandleRejected
    ReusedIdNotTransient
PROPERTIES
    CallReturns
