SPECIFICATION ReadsSpec
CONSTANTS
    chrome = chrome
    code = code
    mail = mail
    browser = browser
    editor = editor
    w1 = w1
    State = {chrome, code, mail}
    MaxTime = 3
    NoTime = NoTime
    NoSession = NoSession
    Workers = {w1}
    BatchLimit = 2
    MaxCrashes = 0
    Heartbeat <- TwoDevices
    SessionId <- Ids
    Application <- Applications
    Requests <- SomeRequests
    Clock = {3, 4}
    DefaultSpan = 2
    MaxSpan = 3
    DayLength = 2
    NoCursor = NoCursor
CHECK_DEADLOCK FALSE
INVARIANTS
    NothingSkipped
    ListingDescends
    PartsWithinWhole
    AdjoiningWindowsAddUp
PROPERTIES
    PagingEnds
