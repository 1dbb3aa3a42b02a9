SPECIFICATION FairSpec
CONSTANTS
    a1 = a1
    a2 = a2
    a3 = a3
    A = A
    B = B
    T = T
    U = U
    res = res
    MaxPass = 2
    NoPass = NoPass
    Addr <- TwoAddr
    NoAddr = NoAddr
    Archetype <- MCArchetype
    NoArchetype = NoArchetype
    Order <- MCOrder
    Type <- MCType
    Owner <- MCOwner
    Resource <- OneResource
    Kinds <- ResourceKinds
    Cleaning <- NoCleaning
    ReuseStale = FALSE
    MayDrop = FALSE
    SlowRelease = FALSE
INVARIANTS
    PassesInOrder
PROPERTIES
    PassesFinish
    CallsReturn
