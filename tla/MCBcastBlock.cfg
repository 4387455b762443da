\* A write of the first loop of XAie_SyncTimer may be refused.
CONSTANTS
    NumCols = 6
    NumRows = 3
    StartCol = 4
    Gens = {"AIEML"}
    NumChannels = 8
    MaxErrorBcIdsRvd = 6
    TileSets <- MCTileSets
    Users = {"u"}
    Requests <- MCRequests
    StaticTiles <- MCStatic
    Refused <- MCRefusedBlock
    MaxFaults = 1
SPECIFICATION Spec
INVARIANT TimersAreSynchronized
