SPECIFICATION Spec
CONSTANTS
    w1 = w1
    w2 = w2
    Writers = {w1, w2}
    MaxReceipts = 4
    Times = {0, 1, 2, 3, 4}
    Clocked = TRUE
    Enforce = FALSE
    SeedRows = 2
    Store = "json"
CHECK_DEADLOCK FALSE
SYMMETRY WriterSymmetry
INVARIANT
    AddedReceiptsVerify
