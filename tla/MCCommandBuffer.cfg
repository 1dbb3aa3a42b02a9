\* Terminates with execute: a buffer is executed once.
SPECIFICATION Spec
CHECK_DEADLOCK FALSE
CONSTANTS
    t1 = t1
    t2 = t2
    NoThread = NoThread
    A = A
    B = B
    Thread = {t1, t2}
    SlotCount = 2
    IdsBefore <- MCIdsBefore
    Type = {A, B}
    Ref = A
    FirstType <- MCFirstType
    FirstRef <- MCFirstRef
    FirstColumn <- MCFirstColumn
    Task <- MCTask
    Diff <- MCDiff
    Given <- MCGiven
    MaxCommands <- MCMaxCommands
    MaxAll = 4
    MaxWrites = 1
    MaxEntities = 2
    MaxNew = 2
INVARIANTS
    OneLocalPerThread
    CastsTakeEffect
    ReferencesResolved
PROPERTIES
    ExecuteReturns
