\* Two tiles with one counter each, and callers that name the counter after
\* the module's last.
CONSTANTS
    NumCols = 2
    MemTileNumRows = 0
    AieTileNumRows = 1
    MaxRscMem = 1
    MaxRscCore = 0
    MaxRscMemTile = 0
    MaxRscPl = 0
    Strays = {1}
    Clients = {a, b}
    RscType = "PERFCNT"
    MaxReqs = 1
    MaxPerTile = 1
    MaxPayload = 1
SPECIFICATION Spec
PROPERTY RequestsStayInTheirModules
