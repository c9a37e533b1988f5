SPECIFICATION MCSpec
CONSTANTS
    r1 = r1
    r2 = r2
    e1 = e1
    x1 = x1
    x2 = x2
    c1 = c1
    c2 = c2
    tracked = tracked
    new = new
    main = main
    sub = sub
    Files = {tracked, new}
    Untracked = {new}
    Slots = {main}
    Main = main
    Runs = {r1, r2}
    Changes <- SomeChanges
    Edits = {e1}
    Committed = Committed
    NoPatch = NoPatch
    Paths = {tracked, new}
    New = {new}
    Executions = {x1, x2}
    Callers = {c1, c2}
    Durations = {1, 9, 40}
    Window = 3
    Threshold = 8
CHECK_DEADLOCK FALSE
INVARIANTS
    FailedCommandsDiscarded
    OffersAreCurrent
    EditsAfterDiffSurvive
    KnownDriftIsOpen
PROPERTY
    ThrottleLifts
