SPECIFICATION Spec
CONSTANTS
    a1 = a1
    a2 = a2
    a3 = a3
    A = A
    B = B
    T = T
    U = U
    res = res
    MaxPass = 3
    NoPass = NoPass
    Addr <- ThreeAddr
    NoAddr = NoAddr
    Archetype <- MCArchetype
    NoArchetype = NoArchetype
    Order <- MCOrder
    Type <- MCType
    Owner <- MCOwner
    Resource <- NoResource
    Kinds <- ComponentKinds
    Cleaning <- NoCleaning
    ReuseStale = FALSE
    MayDrop = FALSE
    SlowRelease = FALSE
SYMMETRY AlikeAddr
INVARIANTS
    TypeOK
    PassesInOrder
    WaitsForOwnEvent
PROPERTIES
    MainInOrder
    WaitCompletes
