CONSTANTS
    Dirs <- MCDirs
    Installed <- MCInstalled
    DiskLogin = FALSE
    Faults = {"open", "ctx", "exec", "ret", "kill"}
    MaxProcs = 3
    Launchers <- MCRshd
    Words <- MCWords
    Kind <- MCRshdKind
    Lines <- MCRshdLines
    Startup <- MCNoStartup
    Scripts <- MCScripts
    PIPELINE_MAX_STAGES = 4
    MaxLines = 3
SPECIFICATION Spec
INVARIANTS ReturnIsOwn
CHECK_DEADLOCK FALSE
