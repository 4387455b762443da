\* Lists of up to two tiles of two columns, on an array of either generation.
CONSTANTS
    Devs = {d1}
    DevGens = {"AIE", "AIEML"}
    NumCols = 2
    NumRows = 4
    MaxTiles = 2
    Allowed = {}
SPECIFICATION Spec
INVARIANTS RequestedTilesAreClocked UnusedTilesAreGated
PROPERTIES WritesReachClockedTiles RequestsNeverGateTilesInUse
