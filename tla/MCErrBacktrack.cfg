CONSTANTS
    NumCols = 6
    Gen = "AIEML"
    Cols = {0, 1, 2, 3, 4, 5}
    MemRows = {1}
    AieRows = {2, 3, 4}
    Requested <- MCRequested
    Errors <- MCErrors
    Sizes = {1, 5}
    Racing = {}
    BottomHalf = FALSE
SPECIFICATION FairSpec
INVARIANTS BacktrackedOnce ReportedErrorsAreDisabled RoutesAreInverse
PROPERTIES GroupClearedWhenBacktracked EveryErrorIsReported ChannelsAreReenabled
CHECK_DEADLOCK FALSE
