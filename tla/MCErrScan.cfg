\* Errors may occur in the module that is being examined; no buffer is ever full.
CONSTANTS
    NumCols = 6
    Gen = "AIEML"
    Cols = {0, 1, 2, 3, 4, 5}
    MemRows = {1}
    AieRows = {2, 3, 4}
    Requested <- MCRequested
    Errors <- MCErrors
    Sizes = {5}
    Racing = {"scan"}
    BottomHalf = FALSE
SPECIFICATION FairSpec
PROPERTY GroupClearedWhenBacktracked
CHECK_DEADLOCK FALSE
