\* Two columns, one of them with a SHIM NOC, of either generation; any write
\* may fail but those of the registers the README names.
CONSTANTS
    Devs = {d1}
    DevGens = {"AIE", "AIEML"}
    NumCols = 2
    NocCols = {1}
    CanFail = {"clk", "colrst", "shimrst", "nsu", "zero", "npirst"}
    Ops = {"init", "teardown", "reset"}
SPECIFICATION Spec
INVARIANTS ProtectedRegsAreClosed InitOkIsComplete
PROPERTIES ColumnResetsAreQuiet ZeroizedWhileClocked
