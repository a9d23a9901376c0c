SPECIFICATION Spec
CONSTANTS
    World = 2
    MaxStep = 4
    MaxLives = 2
    SaveEvery = 2
    Capacity = 2
    None = None
    Torn = Torn
INVARIANTS
    TypeOK
    PointerIsPaired
    DurableIsKept
    RefusedOnlyUncommitted
    LineageIsClean
    PassFailsOnlyUnsaved
PROPERTY PromiseKept
CHECK_DEADLOCK FALSE
