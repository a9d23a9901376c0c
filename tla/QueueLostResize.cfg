SPECIFICATION Spec
CONSTANTS
    g1 = g1
    g2 = g2
    g3 = g3
    Groups = {g1, g2}
    Records <- Unit
    Bytes <- Unit
    CapacityRecords = 2
    CapacityBytes = 3
    None = None
    Settings <- Growing
    MaxResizes = 1
    MaxCancels = 1
    MaxDropFailures = 0
    Schedules <- InOrder
SYMMETRY Symmetry
INVARIANT LimitSurvivesCancellation
CHECK_DEADLOCK FALSE
