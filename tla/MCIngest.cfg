SPECIFICATION IngestSpec
CONSTANTS
    Capacity = 2
    MaxRead = 2
    MaxBytes = 5
    MaxBatch = 3
    MaxDials = 2
    MaxCrashes = 1
INVARIANT RingSound
INVARIANT NoPartialBatch
INVARIANT StopIsClean
PROPERTY RingProgress
PROPERTY StopReturns
CHECK_DEADLOCK FALSE
