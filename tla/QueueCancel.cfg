SPECIFICATION LiveSpec
CONSTANTS
    g1 = g1
    g2 = g2
    g3 = g3
    Groups = {g1, g2, g3}
    Records <- Mixed
    Bytes <- Unit
    CapacityRecords = 2
    CapacityBytes = 3
    None = None
    Settings <- Fixed
    MaxResizes = 0
    MaxCancels = 1
    MaxDropFailures = 0
    Schedules <- InOrder
INVARIANTS
    RecordsBackEntries
    LeasesAreTracked
PROPERTY StopsOrWedges
CHECK_DEADLOCK FALSE
