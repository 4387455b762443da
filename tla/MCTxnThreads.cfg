CONSTANTS
    Threads = {t1, t2}
    TxnInsts = {i1, i2}
    Ops <- AllOps
    CanFail = TRUE
    MaxOps = 2
SYMMETRY Symmetry
SPECIFICATION Spec
INVARIANT ProgramOrder
INVARIANT NothingLost
