\* A device that may refuse an operation.
CONSTANTS
    Threads = {t1, t2}
    TxnInsts = {i1, i2}
    Ops = {"write", "blockwrite"}
    CanFail = TRUE
    MaxOps = 2
SPECIFICATION Spec
INVARIANT BuffersAreOwned
