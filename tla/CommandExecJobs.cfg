CONSTANTS
    Dirs <- MCDirs
    Installed <- MCInstalled
    DiskLogin = FALSE
    Faults = {"ctx", "exec"}
    MaxProcs = 3
    Launchers <- MCShell
    Words <- MCJobWords
    Kind <- MCShellKind
    Lines <- MCJobLines
    Startup <- MCNoStartup
    Scripts <- MCScripts
    PIPELINE_MAX_STAGES = 4
    MaxLines = 2
SPECIFICATION FairSpec
PROPERTIES PromptReturns ExitHappens
CHECK_DEADLOCK FALSE
