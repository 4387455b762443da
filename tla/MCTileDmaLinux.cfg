CONSTANTS
    Gens = {"AIE", "AIEML"}
    Backends = {"linux"}
    NumItems = 3
    MaxQueueSize = 2
    NumChannels = 2
    ChNum <- MCChNum
    Timeouts = {0, 2}
    DefWaitTime = 2
SPECIFICATION Spec
INVARIANT BufferExclusive
