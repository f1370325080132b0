SPECIFICATION FairSpec
CONSTANTS
    Cap = 20
    SampleTypes <- DeviceSampleTypes
    Chains = {0, 1}
    MaxHead = 32
    MaxLimit = 2
    MaxSignals = 2
    MaxLost = 2
INVARIANTS
    ParsedOnce
    EventWhole
    NoEmptyEvent
PROPERTIES
    SampleRead
CHECK_DEADLOCK FALSE
