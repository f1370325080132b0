CONSTANTS
    MaxWP = 2
    FDs = {3, 4}
    Addrs = {8, 12, 16}
    AccessLens = {4, 8}
    ModifyEnabled = FALSE
    InstWatch = FALSE
    Concurrent = TRUE
    MaxEvents = 3
    MaxPending = 2
SPECIFICATION Spec
INVARIANTS
    NoOverlap
    ArmedDeviceAimed
    DeadEventReads
    FreshSignalRecognised
PROPERTIES
    SurvivorsAge
    ImplementsPool
CHECK_DEADLOCK FALSE
