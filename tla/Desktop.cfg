SPECIFICATION DesktopSpec
CONSTANTS
    USH_UWM_APP_COUNT = 2
    MaxPids = 2
    Folders <- MCFolders
    TypeOf <- MCTypeOf
    Name <- MCName
    ParentOf <- MCParentOf
    QuickPaths = {"s"}
    FX_ENTRY_MAX = 3
    FullRows = 2
    PreviewRows = 1
    MaxTask = 4
    Self = 2
    TM_MAX_ROWS = 3
    TmRows = 2
    Packages = {p1, p2}
    PG_MAX_PACKAGES = 2
    PG_QUERY_MAX = 2
    WindowRows = 1
    MaximizedRows = 2
    TERM_LINES = 2
    TERM_LINE_MAX = 3
    TERM_ANSI_MAX = 3
    TERM_INPUT_MAX = 2
    U64 = 8
    TermInput <- MCTermInput
    MinSize = 1
    FullSize = 3
    TERM_TTY_DISPLAY = 1
    JobMax = 3
    JobTtys = {1, 2}
    RsUsers = {"root"}
    RsOutput = {"$", " "}
    RSHD_OUT_LIMIT = 3
    RshClients = 2
    RsTyped = 6
\* The programs end when the user closes them.
CHECK_DEADLOCK FALSE
INVARIANTS
    SessionSound
    ListsShown
    TerminalSound
    RemoteSound
PROPERTIES
    ExplorerSound
    RightProcess
    WaitsEnd
