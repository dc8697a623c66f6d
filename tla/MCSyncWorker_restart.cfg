SPECIFICATION Spec
CONSTANTS
    tk = tk
    MaxEvents = 2
    Timestamp <- Steady
    BatchSize = 1
    UIThread = {tk}
    MaxRuns = 2
    MaxHiccups = 1
INVARIANTS
    SyncedIsStored
    NoLostWakeUp
    NoGapAtServer
PROPERTIES
    ImplementsDelivery
