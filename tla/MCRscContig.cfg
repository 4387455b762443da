\* PC events of one core (4, as on the hardware; the MEM module has none),
\* requested one by one, in blocks and by name.
CONSTANTS
    NumCols = 1
    MemTileNumRows = 0
    AieTileNumRows = 1
    MaxRscMem = 0
    MaxRscCore = 4
    MaxRscMemTile = 0
    MaxRscPl = 0
    Strays = {}
    Clients = {a, b}
    RscType = "PC_EVENTS"
    MaxReqs = 1
    MaxPerTile = 4
    MaxPayload = 1
SPECIFICATION Spec
INVARIANT RuntimeBitsAreHeld
