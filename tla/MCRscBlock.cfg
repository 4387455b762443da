\* PC events of two cores (4 each, as on the hardware), and callers that ask
\* for a block of one more than a core has.
CONSTANTS
    NumCols = 2
    MemTileNumRows = 0
    AieTileNumRows = 1
    MaxRscMem = 0
    MaxRscCore = 4
    MaxRscMemTile = 0
    MaxRscPl = 0
    Strays = {}
    Clients = {a, b}
    RscType = "PC_EVENTS"
    MaxReqs = 1
    MaxPerTile = 5
    MaxPayload = 1
SPECIFICATION Spec
PROPERTY RequestsStayInTheirModules
