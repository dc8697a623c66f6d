SPECIFICATION Spec
CONSTANTS
    tk = tk
    MaxEvents = 2
    Timestamp <- Ties
    BatchSize = 2
    UIThread = {tk}
    MaxRuns = 1
    MaxHiccups = 1
PROPERTIES
    StoppedWorkerEnds
    EverythingDelivered
