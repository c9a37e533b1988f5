SPECIFICATION Spec
CONSTANTS
    alice = alice
    bob = bob
    dana = dana
    otto = otto
    build = build
    wipe = wipe
    wasm = wasm
    h1 = h1
    h2 = h2
    Commands = {wipe, build}
    Gated = {wipe}
    Dangerous = {wipe}
    Allowlisted = {wipe}
    Wasi = {}
    Emails = {alice, bob, dana, otto}
    Sessions <- ThreeSessions
    Handlers = {h1, h2}
    MaxActions = 1
    ViolationLimit = 1
    MaxRestarts = 0
    Store = "postgres"
SYMMETRY HandlerSymmetry
INVARIANT
    NothingRunsWithoutQuorum
