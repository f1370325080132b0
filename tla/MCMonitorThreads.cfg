SPECIFICATION Spec
CONSTANTS
    Main = m
    Workers = {w1, w2}
    NoThread = none
    ArraySize = 1
    MaxArrays = 2
    MaxThreadNum = 2
    MaxForks = 1
    ClientCalls = FALSE
    FatalSignals = FALSE
SYMMETRY WorkerSymmetry
INVARIANTS
    NodesOwned
    InitOrder
    ExitWaits
CHECK_DEADLOCK FALSE
