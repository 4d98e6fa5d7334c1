SPECIFICATION WalSpec
CONSTANTS
    SegmentSize = 32
    BufCells = 2
    MaxRecords = 4
    PayloadBytes <- MCPayloadBytes
    MaxSegment = 2
    MaxWalCrashes = 2
    MaxErrors = 1
    FsyncEntry = TRUE
INVARIANT SyncedSurvive
INVARIANT ReaderSound
PROPERTY RecoveryKeepsRecords
PROPERTY CrashLosesTail
CHECK_DEADLOCK FALSE
