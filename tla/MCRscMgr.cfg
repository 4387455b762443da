\* Two columns of an AIE tile with both modules, above a memory tile row, and
\* two clients: every interleaving of requests, failures, frees, releases and
\* loads.
CONSTANTS
    NumCols = 2
    MemTileNumRows = 1
    AieTileNumRows = 1
    MaxRscMem = 1
    MaxRscCore = 1
    MaxRscMemTile = 0
    MaxRscPl = 0
    Strays = {}
    Clients = {a, b}
    RscType = "PERFCNT"
    MaxReqs = 2
    MaxPerTile = 1
    MaxPayload = 1
SPECIFICATION Spec
SYMMETRY Symmetry
INVARIANTS RuntimeBitsAreHeld AvailRscStatIsTrue
PROPERTIES RequestsKeepReservations ImplementsPool
