\* Two objects, a counter in each module, two channels.
CONSTANTS
    c1 = c1
    c2 = c2
    Objs = {c1, c2}
    Home <- Homes
    EventMods <- SomeEvents
    Crossing = {c1}
    Named = {c1}
    NumIds = 1
    NumChannels = 2
    SetAside <- CoreCounter
    CanFail <- Checked
    LateRst = FALSE
SPECIFICATION Spec
INVARIANTS PoolIsAccounted ChannelsAreReserved RunningCountersAreRouted
