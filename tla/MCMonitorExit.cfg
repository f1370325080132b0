SPECIFICATION FairSpec
CONSTANTS
    Main = m
    Workers = {w1}
    NoThread = none
    ArraySize = 1
    MaxArrays = 1
    MaxThreadNum = 1
    MaxForks = 1
    ClientCalls = TRUE
    FatalSignals = TRUE
INVARIANTS
    OneFiniProcess
PROPERTIES
    ListFrozen
    ExitCompletes
CHECK_DEADLOCK FALSE
