SPECIFICATION FairSpec
CONSTANTS
    c1 = c1
    c2 = c2
    c3 = c3
    Calls = {c1, c2}
    SlowCalls = {}
    MaxCrashes = 1
    MaxResets = 2
CHECK_DEADLOCK FALSE
INVARIANT
    NoLostWrite
PROPERTY
    EveryCallEnds
