CONSTANTS
    LINE_MAX = 3
    HISTORY_MAX = 2
    HISTORY_DATA_MAX = 12
    Keys <- MCHistKeys
    InputBytes <- MCHistBytes
    Words <- MCHistWords
    InitHistories <- MCHistHistories
    QueryBound = 1
SPECIFICATION Spec
INVARIANTS InBounds NavShowsHistory HistorySurvivesRestart
CHECK_DEADLOCK FALSE
