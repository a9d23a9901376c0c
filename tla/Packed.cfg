SPECIFICATION Spec
CHECK_DEADLOCK FALSE
CONSTANTS
    Topologies <- Meshes
    Capacity = 4
    MaxCancels = 1
    MaxFaults = 1
    None = None
INVARIANTS
    TypeOK
    BatchIsWhole
    StorageIsListed
    PackIsNeverRefused
PROPERTY
    Closes
