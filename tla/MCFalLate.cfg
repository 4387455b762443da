\* The same objects, and a reset event may be given to a counter that is
\* already reserved.
CONSTANTS
    c1 = c1
    c2 = c2
    Objs = {c1, c2}
    Home <- Homes
    EventMods <- SomeEvents
    Crossing = {c1}
    Named = {c1}
    NumIds = 1
    NumChannels = 2
    SetAside <- CoreCounter
    CanFail <- Checked
    LateRst = TRUE
SPECIFICATION Spec
INVARIANT ChannelsAreReserved
