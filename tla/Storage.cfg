SPECIFICATION StorageSpec
CONSTANTS
    ShellFiles <- MCShellFiles
    IsoFiles <- MCIsoFiles
    INSTALL_UPDATE_MAX_ENTRIES = 3
    MaxFaults = 1
    UserNames = {"bob"}
    Passwords = {"h1", "h2"}
    UserProcs = {1, 2}
    DbBuffer = 4
    MaxDbLines = 4
    FcFiles = {"a", "b", "d/a"}
    FcDirs = {"/", "d"}
    FcParent <- MCFcParent
    FcBase <- MCFcBase
    FcJoin <- MCFcJoin
    FcBlocks = {1}
    ZipMax = 2
    Layers = {"doom", "bdt", "minizip"}
    MfPaths = {"t", "w"}
    TempPaths = {"t"}
    MfBytes = {"x"}
    MF_MAX = 1
    MfMaxSize = 2
    SqPages = {"x", "y"}
    SQ_CAPACITY = 1
    SqMax = 3
    VimChars = {"j"}
    USH_VIM_MAX_LINES = 3
    USH_VIM_MAX_LINE_LEN = 2
    USH_VIM_VIEW_ROWS = 2
    PfProcs = {1, 2}
    PfTexts <- MCPfTexts
    PfNames <- MCPfNames
    PfMails <- MCPfMails
    DB_MAX = 16
    LINE_MAX = 8
    NUM_BUF = 4
    BOOK_MAX = 2
    PfMax = 7
    PfBookMax = 11
    PfYears = {1900, 1996, 1999, 2000, 2024, 2100}
\* The programs end.
CHECK_DEADLOCK FALSE
INVARIANTS
    SqliteSound
PROPERTIES
    AccountsSound
    InstallerSound
    FileCommandsSound
    LayersStored
    VimSound
    
