SPECIFICATION AgentSpec
CONSTANTS
    Tray = Tray
    Window = Window
    NoThread = NoThread
    NoIdentity = NoIdentity
    MaxConnections = 2
    MaxRuns = 2
CHECK_DEADLOCK FALSE
INVARIANTS
    OneRunAtATime
    PromptRestartRuns
    MenuShowsRun
PROPERTIES
    OneInstallation
    StoppedRunEnds
