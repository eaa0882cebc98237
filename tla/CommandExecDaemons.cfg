CONSTANTS
    Dirs <- MCDirs
    Installed <- MCInstalled
    DiskLogin = FALSE
    Faults = {"exec"}
    MaxProcs = 2
    Launchers <- MCDaemons
    Words <- MCWords
    Kind <- MCDaemonsKind
    Lines <- MCDaemonsLines
    Startup <- MCNoStartup
    Scripts <- MCScripts
    PIPELINE_MAX_STAGES = 4
    MaxLines = 1
SPECIFICATION FairSpec
PROPERTIES PromptReturns
CHECK_DEADLOCK FALSE
