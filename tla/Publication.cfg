SPECIFICATION LiveSpec
CONSTANTS
    Workers = {w1}
    MaxStep = 3
    Window = 2
    EvalSteps = {2}
    MaxFaults = 2
    None = None
INVARIANTS
    TypeOK
    LeasedIsLoaded
PROPERTIES
    ServedInOrder
    Settles
CHECK_DEADLOCK FALSE
