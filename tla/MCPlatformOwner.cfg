CONSTANTS
    None = None
    Threads = {main, worker}
    Main = main
    FDs = {3, 4}
    MaxSessions = 2
SPECIFICATION Spec
INVARIANTS
    DeliveredToRegistrant
CHECK_DEADLOCK FALSE
