SPECIFICATION LiveSpec
CONSTANTS
    g1 = g1
    g2 = g2
    g3 = g3
    Groups = {g1, g2}
    Records <- Unit
    Bytes <- Unit
    CapacityRecords = 2
    CapacityBytes = 3
    None = None
    Settings <- One
    MaxResizes = 0
    MaxCancels = 1
    MaxDropFailures = 1
    Schedules <- InOrder
PROPERTIES
    EveryPutEnds
    PackingStops
    OwnersEndEmpty
CHECK_DEADLOCK FALSE
