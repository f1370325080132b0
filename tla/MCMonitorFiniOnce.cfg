SPECIFICATION Spec
CONSTANTS
    Main = m
    Workers = {w1}
    NoThread = none
    ArraySize = 1
    MaxArrays = 1
    MaxThreadNum = 1
    MaxForks = 0
    ClientCalls = FALSE
    FatalSignals = FALSE
INVARIANTS
    FiniThreadOnce
CHECK_DEADLOCK FALSE
