CONSTANTS
    Threads = {t1, t2}
    TxnInsts = {i1, i2}
    Ops = {"write", "blockwrite", "maskpoll"}
    CanFail = FALSE
    MaxOps = 3
SYMMETRY Symmetry
SPECIFICATION Spec
INVARIANT AtMostOnce
INVARIANT BuffersAreOwned
PROPERTY FlushedInstIsStable
