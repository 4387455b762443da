CONSTANTS
    NumCols = 6
    Gen = "AIEML"
    Cols = {0, 1, 2, 3, 4, 5}
    MemRows = {1}
    AieRows = {2, 3, 4}
    Requested <- MCRequested
    Errors <- MCResumeErrors
    Sizes = {1, 5}
    Racing = {"resume"}
    BottomHalf = FALSE
SPECIFICATION FairSpec
PROPERTY EveryErrorIsReported
CHECK_DEADLOCK FALSE
