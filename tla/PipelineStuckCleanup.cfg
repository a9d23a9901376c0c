SPECIFICATION LiveSpec
CONSTANTS
    w1 = w1
    w2 = w2
    Workers = {w1, w2}
    Modes = {"packed"}
    ScenarioCount = 3
    MaxOffs <- OneOff
    MinBatch = 1
    MaxBatch = 1
    QueueSize = 2
    CollapseLimit = 3
    MaxSteps = 4
    Signals = FALSE
    Failures <- RolloutFailures
    Outcomes = {}
    None = None
PROPERTIES
    FailureIsPropagated
CHECK_DEADLOCK FALSE
