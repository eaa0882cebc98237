CONSTANTS
    Dirs <- MCDirs
    Installed <- MCInstalled
    DiskLogin = FALSE
    Faults = {}
    MaxProcs = 3
    Launchers <- MCShell
    Words <- MCWords
    Kind <- MCShellKind
    Lines <- MCExecLines
    Startup <- MCNoStartup
    Scripts <- MCScripts
    PIPELINE_MAX_STAGES = 4
    MaxLines = 1
SPECIFICATION Spec
INVARIANTS StartedWithArguments
CHECK_DEADLOCK FALSE
