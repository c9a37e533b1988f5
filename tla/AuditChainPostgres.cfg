SPECIFICATION Spec
CONSTANTS
    w1 = w1
    w2 = w2
    Writers = {w1, w2}
    MaxReceipts = 3
    Times = {0, 1, 2, 3}
    Clocked = FALSE
    Enforce = TRUE
    SeedRows = 0
    Store = "postgres"
CHECK_DEADLOCK FALSE
SYMMETRY WriterSymmetry
PROPERTY
    OnlyRacesFork
