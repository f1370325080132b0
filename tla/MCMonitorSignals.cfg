SPECIFICATION FairSpec
CONSTANTS
    rt = rt
    usr = usr
    winch = winch
    kill = kill
    t1 = t1
    t2 = t2
    Threads = {t1, t2}
    NoThread = none
    Signals = {rt, usr, winch, kill}
    NoSignal = nosig
    Avoid = {kill}
    Invalid = {}
    NoTerm = {winch}
    Stop = {}
    Ignored = {}
    OpenList = {}
    Candidates = {rt, usr}
    LastResort = winch
    Preference <- MCPreference
    EnvSignal = nosig
    Inherited = {}
    Requests <- MCRequests
    Acts = {"handler"}
    Handled = {usr}
    Arriving = {usr}
    MaxDepth = 1
    MaxCalls = 2
INVARIANTS
    SignalLeft
    BlockedIsMarked
    ReservedOpen
PROPERTIES
    LockGranted
CHECK_DEADLOCK FALSE
