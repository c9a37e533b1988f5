SPECIFICATION MCSpec
CONSTANTS
    a1 = a1
    c1 = c1
    c2 = c2
    a2 = a2
    Agents = {a1}
    Calls = {c1, c2}
    Policies <- OnePolicy
    Requested <- OwnedRequests
    DenialLimit = 2
    FailingUpTo = 2
    Cuts <- SourcesCut
    Requests <- SomeRequests
    Contexts <- SomeContexts
CHECK_DEADLOCK FALSE
INVARIANTS
    FullCountIsHandled
    GatesHold
    
PROPERTIES
    QuarantineConfines
    DecidedByPolicyInForce
    HotReloadConverges
