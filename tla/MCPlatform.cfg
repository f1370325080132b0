CONSTANTS
    None = None
    Threads = {main, worker}
    Main = main
    FDs = {3, 4}
    MaxSessions = 3
SPECIFICATION FairSpec
INVARIANTS
    MapsAgree
    NothingLeftBehind
    NoneLeftPaused
PROPERTIES
    HandlersEnd
CHECK_DEADLOCK FALSE
