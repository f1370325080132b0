CONSTANTS
    None = None
    Threads = {v1, v2}
    FDs = {f1, f2, f3}
    HBP_NUM = 1
    MaxWP = 2
    MaxSessions = 3
    MaxEvents = 1
SPECIFICATION Spec
SYMMETRY Symmetric
INVARIANTS
    SlotsAgree
    OnlyArmedWatch
    NoneLeftPaused
    NothingLeftOfVCPU
    EventsResolve
CHECK_DEADLOCK FALSE
