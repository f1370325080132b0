CONSTANTS
    Contexts = {c1, c2}
    Builds <- FiveLogics
    Lens = {1, 2}
    Dists = {1}
    MaxSamples = 2
    MaxReports = 2
SPECIFICATION Spec
SYMMETRY Traces
INVARIANTS
    LeafMapResolves
    StaleAfterClean
    CatchupBehind
    ChargedOnce
    TotalsAttributed
    WatchedWithinSampled
CHECK_DEADLOCK FALSE
