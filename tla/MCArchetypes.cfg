\* Terminates when every entity has been born and is gone, or in a crash.
SPECIFICATION Spec
CHECK_DEADLOCK FALSE
CONSTANTS
    e1 = e1
    e2 = e2
    e3 = e3
    T = T
    Copy = Copy
    S = S
    Cleanup = Cleanup
    Disable = Disable
    Type = {T, Copy, S, Cleanup, Disable}
    Cleaned = {T}
    Entity = {e1, e2, e3}
    MaxQueries = 1
    MarkerOf <- MCMarkerOf
    Made <- MCMade
    Given <- MCGiven
    Diff <- MCDiff
    Filter <- MCFilter
SYMMETRY MCSymmetry
INVARIANTS
    CacheExact
    LifecycleSound
PROPERTIES
    CleanedStays
