SPECIFICATION Spec
CONSTANTS
    tk = tk
    MaxEvents = 1
    Timestamp <- Once
    BatchSize = 1
    UIThread = {}
    MaxRuns = 1
    MaxHiccups = 0
INVARIANTS
    WorkerStopsBeforeClose
