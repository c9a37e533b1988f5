SPECIFICATION MCSpec
CONSTANTS
    t1 = t1
    t2 = t2
    g1 = g1
    g2 = g2
    server = server
    k1 = k1
    k2 = k2
    s1 = s1
    Gateways = {g1, g2}
    Servers = {server}
    Keys = {k1, k2}
    Sessions = {s1}
    Remote = Remote
    Keyless = Keyless
    Calls = {t1, t2}
    MaxFaults = 2
    Messages <- AllMessages
    Texts <- ShortTexts
    Targets <- ShortTargets
    Replacements <- SomeReplacements
    LineNumbers = {0, 1, 2, 3}
    TextLimit = 5
CHECK_DEADLOCK FALSE
INVARIANTS
    DecidedCallsAreReceipted
    RecordsTellTheTruth
    EditClosesGate
    RoutedAsDeclared
    PatchTouchesOneSpot
    SigningKeyOnFile
    SignedReceiptsVerify
PROPERTY
    CallsAreAnswered
