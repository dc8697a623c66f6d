SPECIFICATION Spec
CONSTANTS
    chrome = chrome
    code = code
    App = {chrome, code}
    NoApp = NoApp
    Idle = Idle
    NoState = NoState
    NoEvent = NoEvent
    HeartbeatInterval = 2
    IdleThreshold = 2
    BlindRuns = {2}
    MaxTime = 5
    MaxRuns = 2
    MaxSetback = 1
SYMMETRY Symmetry
INVARIANTS
    OvercountBounded
    LogInTimestampOrder
    WellFormedStates
    ActiveNotOvercounted
    TimeAccountedFor
