CONSTANTS
    MaxWP = 2
    FDs = {3, 4}
    Addrs = {8, 11, 17, 26}
    AccessLens = {4, 8}
    ModifyEnabled = TRUE
    InstWatch = TRUE
    Concurrent = FALSE
    MaxEvents = 4
    MaxPending = 2
SPECIFICATION Spec
INVARIANTS
    QuietWhenDisarmed
    IInv
CHECK_DEADLOCK FALSE
