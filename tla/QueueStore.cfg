SPECIFICATION Spec
CONSTANTS
    g1 = g1
    g2 = g2
    g3 = g3
    g4 = g4
    Groups = {g1, g2, g3, g4}
    Consumers = {c1, c2}
    Generations = {k1}
    Records <- MCRecords
    Bytes <- MCBytes
    CapacityRecords = 3
    CapacityBytes = 4
    InitialMaxReady = 2
    Sizes = {1, 3}
    MaxResizes = 2
    MaxTake = 2
    None = None
SYMMETRY Symmetry
INVARIANTS
    TypeOK
    UsageIsExact
PROPERTIES
    AcquiredInOrder
    LeaseIsStable
    MinimumIsExclusive
CHECK_DEADLOCK FALSE
