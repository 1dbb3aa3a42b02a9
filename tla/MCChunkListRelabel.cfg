SPECIFICATION Spec
CONSTANTS
    c1 = c1
    c2 = c2
    c3 = c3
    c4 = c4
    A = A
    B = B
    NoChunk = NoChunk
    NoArchetype = NoArchetype
    Chunk <- MCChunk
    Archetype <- MCArchetype
    Capacity <- MCCapacity
    StaticCastable <- MCStaticCastable
    SmallThreshold = 1
    SmallHint = 3
    LargeHint = 2
    LoadLargeHint = 2
    SizeMod = 4
    ReadSize <- MCReadSize
    AnyRelabel = TRUE
    AnyLoad = FALSE
    MaxCount = 3
SYMMETRY AlikeChunks
CHECK_DEADLOCK FALSE
INVARIANTS
    SlicesNotEmpty
