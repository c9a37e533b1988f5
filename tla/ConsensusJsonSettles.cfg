SPECIFICATION FairSpec
CONSTANTS
    alice = alice
    bob = bob
    dana = dana
    otto = otto
    build = build
    wipe = wipe
    wasm = wasm
    h1 = h1
    h2 = h2
    Commands = {build}
    Gated = {}
    Dangerous = {}
    Allowlisted = {}
    Wasi = {build}
    Emails = {alice, bob, dana, otto}
    Sessions <- NoAdmin
    Handlers = {h1}
    MaxActions = 2
    ViolationLimit = 1
    MaxRestarts = 1
    Store = "json"
PROPERTY
    EveryRequestIsSettled
