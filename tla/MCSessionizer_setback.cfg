SPECIFICATION Spec
CONSTANTS
    chrome = chrome
    code = code
    w1 = w1
    w2 = w2
    State = {chrome, code}
    MaxTime = 4
    NoTime = NoTime
    NoSession = NoSession
    Workers = {w1, w2}
    BatchLimit = 2
    MaxCrashes = 1
    Heartbeat <- ClockSetBack
INVARIANTS
    NoDoubleClaim
    SessionsDeriveFromProcessed
    ClosedSessionIsRecomputable
    NeverOverReports
    NoWaitCycle
PROPERTIES
    SessionsOnlyGrow
    EveryHeartbeatProcessed
    ImplementsSessionLog
