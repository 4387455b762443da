\* A partition of one column; no write fails.
CONSTANTS
    Devs = {d1}
    DevGens = {"AIE", "AIEML"}
    NumCols = 1
    NocCols = {0}
    CanFail = {}
    Ops = {"init", "teardown", "reset"}
SPECIFICATION Spec
INVARIANT BoundaryIsIsolated
