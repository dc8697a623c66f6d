SPECIFICATION Spec
CONSTANTS
    c1 = c1
    c2 = c2
    c3 = c3
    c4 = c4
    t1 = t1
    t2 = t2
    u1 = u1
    u2 = u2
    Confirm = {c1, c2, c3, c4}
    TabOf <- TwoTabs
    UserOf <- TwoUsers
    NoUser = NoUser
    NoKey = NoKey
    NoSocket = NoSocket
    MaxAttempts = 2
    MaxRestarts = 1
CHECK_DEADLOCK FALSE
INVARIANTS
    CutOffForCause
    KeysAreOwners
    LiveIsRegistered
    OneActiveKey
PROPERTIES
    OwnerKept
    HangsUnconfirmed
