SPECIFICATION Spec
CONSTANTS
    c1 = c1
    c2 = c2
    c3 = c3
    t1 = t1
    t2 = t2
    Tabs = {t1, t2}
    Calls = {c1, c2, c3}
    TabOf <- TwoTabs
    KindsOf <- Mixed
    NoCall = NoCall
    MaxExpired = 1
CHECK_DEADLOCK FALSE
INVARIANTS
    CookieIsUsable
    RefusedForCause
PROPERTIES
    CallsEnd
