SPECIFICATION Spec
CONSTANTS
    Backends <- Both
    Workers = {w1}
    MaxStep = 4
    EvalEvery = 2
    RetainEvery = 1
    Lag = 1
    Capacity = 1
    SaveEvery = 2
    None = None
INVARIANTS TypeOK EvalsKeepPace EndIsClean
PROPERTIES SeenInUseSurvive RunReturns
CHECK_DEADLOCK FALSE
