CONSTANTS
    Gens = {"AIE", "AIEML"}
    Backends = {"baremetal", "linux", "sim"}
    NumItems = 3
    MaxQueueSize = 2
    NumChannels = 2
    ChNum <- MCChNum
    Timeouts = {0, 2}
    DefWaitTime = 2
SPECIFICATION FairSpec
INVARIANTS LocksAreConserved ItemsInOrder PendingIsExact
PROPERTIES DoneMeansMoved AllReceived
