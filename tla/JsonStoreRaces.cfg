SPECIFICATION Spec
CONSTANTS
    c1 = c1
    c2 = c2
    c3 = c3
    Calls = {c1, c2, c3}
    SlowCalls = {}
    MaxCrashes = 0
    MaxResets = 0
CHECK_DEADLOCK FALSE
SYMMETRY CallSymmetry
INVARIANT
    MutualExclusion
PROPERTY
    ImplementsAtomicFile
