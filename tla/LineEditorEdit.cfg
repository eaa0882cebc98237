CONSTANTS
    LINE_MAX = 4
    HISTORY_MAX = 2
    HISTORY_DATA_MAX = 12
    Keys <- MCEditKeys
    InputBytes <- MCEditBytes
    Words <- MCEditWords
    InitHistories <- MCEditHistories
    QueryBound = 1
SPECIFICATION Spec
INVARIANTS TypeOK SelectionIsShown
PROPERTIES ScreenFollowsLine EditsKeepCharacters
CHECK_DEADLOCK FALSE
