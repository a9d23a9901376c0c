SPECIFICATION Spec
CONSTANTS
    Backends <- Megatron
    Workers = {w1}
    MaxStep = 4
    EvalEvery = 2
    RetainEvery = 1
    Lag = 1
    Capacity = 2
    SaveEvery = 2
    None = None
PROPERTY OnlyOfferedAreDeleted
CHECK_DEADLOCK FALSE
