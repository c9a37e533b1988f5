SPECIFICATION Spec
CONSTANTS
    alice = alice
    bob = bob
    dana = dana
    otto = otto
    build = build
    wipe = wipe
    wasm = wasm
    h1 = h1
    h2 = h2
    Commands = {wipe}
    Gated = {wipe}
    Dangerous = {}
    Allowlisted = {wipe}
    Wasi = {}
    Emails = {alice, bob, dana, otto}
    Sessions <- NoAdmin
    Handlers = {h1, h2}
    MaxActions = 1
    ViolationLimit = 1
    MaxRestarts = 0
    Store = "postgres"
SYMMETRY HandlerSymmetry
INVARIANTS
    OneVotePerRoleAndApprover
