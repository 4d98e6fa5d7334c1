SPECIFICATION Spec
CONSTANTS
    Instruments = {1, 2}
    Symbols = {2}
    Named = {2}
    DefaultInstrument = 1
    LockThreshold = 2
    Dues = {{}, {"Tick"}, {"Snapshot"}}
    Setups = {{"client"}, {"snapshots"}}
    MaxSeq = 3
    Capacity = 2
    WireCapacity = 1
    TradeRingCap = 2
    MaxSent = 4
    MaxBreaks = 1
INVARIANT FramesAccounted
INVARIANT ViewConsistent
INVARIANT OneInstrument
INVARIANT SnapshotSound
CHECK_DEADLOCK FALSE
