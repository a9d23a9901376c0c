SPECIFICATION Spec
CONSTANTS
    g1 = g1
    g2 = g2
    g3 = g3
    Groups = {g1, g2}
    Records <- Unit
    Bytes <- Unit
    CapacityRecords = 2
    CapacityBytes = 3
    None = None
    Settings <- Pulsing
    MaxResizes = 4
    MaxCancels = 0
    MaxDropFailures = 0
    Schedules <- Resizing
SYMMETRY Symmetry
INVARIANTS
    MinimumIsHonoured
    LimitConverges
PROPERTY StoreSpec
CHECK_DEADLOCK FALSE
