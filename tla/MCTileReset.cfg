\* The partition may be reset after tiles were requested.
CONSTANTS
    Devs = {d1}
    DevGens = {"AIE", "AIEML"}
    NumCols = 2
    NumRows = 4
    MaxTiles = 1
    Allowed = {"reset_after_request"}
SPECIFICATION Spec
INVARIANT RequestedTilesAreClocked
