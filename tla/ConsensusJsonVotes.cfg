SPECIFICATION Spec
CONSTANTS
    alice = alice
    bob = bob
    dana = dana
    otto = otto
    build = build
    wipe = wipe
    wasm = wasm
    h1 = h1
    h2 = h2
    Commands = {wipe}
    Gated = {wipe}
    Dangerous = {wipe}
    Allowlisted = {wipe}
    Wasi = {}
    Emails = {alice, bob, dana, otto}
    Sessions <- FourSessions
    Handlers = {h1, h2}
    MaxActions = 1
    ViolationLimit = 1
    MaxRestarts = 1
    Store = "json"
SYMMETRY HandlerSymmetry
INVARIANTS
    TypeOK
    NoSelfAttestation
    OneVotePerRoleAndApprover
    DangerousVotesOverridden
    SpentApprovalStaysSpent
PROPERTIES
    ApprovalFollowsPending
    ImplementsQuorumGate
