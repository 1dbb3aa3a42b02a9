SPECIFICATION Spec
CONSTANTS
    v1 = v1
    v2 = v2
    NoValue = NoValue
    Value <- MCValue
    Capacity = 3
    IndexMod = 6
    MaxBatch = 3
INVARIANTS
    TypeOK
    BatchesApart
    SizeIsSafe
PROPERTIES
    FifoSpec
