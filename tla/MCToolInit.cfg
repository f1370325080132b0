CONSTANTS
    Threads = {t1, t2, t3}
    First = t1
    Registers = 4
    MAX_POSSIBLE_DEVICES = 128
SPECIFICATION Spec
INVARIANTS
    InitialisedOnce
    DevicesReachable
    TablesComplete
