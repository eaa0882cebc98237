CONSTANTS
    Dirs <- MCDirs
    Installed <- MCInstalled
    DiskLogin = FALSE
    Faults = {}
    MaxProcs = 3
    Launchers <- MCPair
    Words <- MCWords
    Kind <- MCPairKind
    Lines <- MCPairLines
    Startup <- MCNoStartup
    Scripts <- MCScripts
    PIPELINE_MAX_STAGES = 4
    MaxLines = 1
SPECIFICATION Spec
INVARIANTS ContextReachesCommand
CHECK_DEADLOCK FALSE
