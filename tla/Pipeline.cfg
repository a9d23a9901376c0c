SPECIFICATION LiveSpec
CONSTANTS
    w1 = w1
    w2 = w2
    Workers = {w1, w2}
    Modes = {"packed", "local", "shared"}
    ScenarioCount = 3
    MaxOffs <- MostOff
    MinBatch = 1
    MaxBatch = 2
    QueueSize = 1
    CollapseLimit = 2
    MaxSteps = 3
    Signals = TRUE
    Failures <- MostFailures
    Outcomes = {"flat", "unusable", "errored"}
    None = None
INVARIANTS
    TypeOK
    TrainsFresh
    PackedForItsStep
    NothingLost
PROPERTY PipelineEnds
CHECK_DEADLOCK FALSE
