CONSTANTS
    Dirs <- MCDirs
    Installed <- MCInstalled
    DiskLogin = TRUE
    Faults = {"open", "ctx", "exec", "ret", "kill"}
    MaxProcs = 3
    Launchers <- MCShell
    Words <- MCWords
    Kind <- MCShellKind
    Lines <- MCShellLines
    Startup <- MCStartup
    Scripts <- MCScripts
    PIPELINE_MAX_STAGES = 4
    MaxLines = 3
SPECIFICATION Spec
INVARIANTS TypeOK ContextReachesCommand ReturnIsOwn PipeConnects NothingLeftOpen
CHECK_DEADLOCK FALSE
