SPECIFICATION MergeSpec
CONSTANTS
    c1 = c1
    c2 = c2
    c3 = c3
    c4 = c4
    A = A
    NoChunk = NoChunk
    NoArchetype = NoArchetype
    Chunk <- MCChunk
    Archetype <- MCArchetype
    Capacity <- MCCapacity
    StaticCastable <- NoPairs
    SmallThreshold = 2
    SmallHint = 2
    LargeHint = 3
    LoadLargeHint = 3
    SizeMod = 16
    ReadSize <- MCReadSize
    AnyRelabel = FALSE
    AnyLoad = FALSE
    MaxCount = 4
CHECK_DEADLOCK FALSE
SYMMETRY AlikeChunks
INVARIANTS
    SortKeepsChunks
PROPERTIES
    PourKeepsEntities
