CONSTANTS
    NumCols = 6
    NumRows = 3
    StartCol = 4
    Gens = {"AIE", "AIEML"}
    NumChannels = 8
    MaxErrorBcIdsRvd = 6
    TileSets <- MCTileSets
    Users = {"u"}
    Requests <- MCRequests
    StaticTiles <- MCStatic
    Refused <- MCRefused
    MaxFaults = 1
SPECIFICATION Spec
INVARIANTS RuntimeBitsAreOwned FreeChannelsAreClean TimersAreSynchronized ColumnsAreSeparate ErrorsReachTheirL2
PROPERTY ImplementsPool
