SPECIFICATION OrchSpec
CONSTANTS
    BasePrice = 100000
    Specs <- MCSpecs
    StormBatch = 4
    StormWarmBatches = 1
    StormPeakBatches = 2
    PollPeriod = 5000000
    MaxSteps = 2
    MaxStarts = 2
    CrashMinGapBps = 10
    CrashGapWindow = 8
    CrashMaxLevels = 64
    CrashBandTicks = 5
    CrashDropPct = 60
    CrashMinAggr = 3
    CrashCooldown = 2048
    IgnSeqWindow = 1024
    IgnTimeWindow = 0
    IgnMaxLevels = 64
    IgnMinMoveBps = 5
    IgnMinTrades = 8
    IgnMinConsecutive = 4
    IgnCooldown = 2048
    ArbReactionSeq = 64
    ArbReactionTime = 0
    ArbMaxLevels = 64
    ArbBandTicks = 4
    ArbMinTradeQty = 200
    ArbMinBurst = 4
    ArbRequireReversion = FALSE
    ArbReversionBps = 0
    ArbCooldown = 1024
    ArbMaxPending = 64
    StormSeqWindow = 4
    StormTimeWindow = 0
    StormMinWindow = 4
    StormWarmup = 4
    StormKSigma = 1
    StormMinConsecutive = 2
    StormCooldown = 8
    StormSigmaFloor = 1
    StormScale = 12
    QuoteWindow = 48
    QuoteRatio = 8
    SpoofQty = 1000
    SpoofWindow = 64
    PhantomSeqGap = 256
    PhantomTimeGap = 5000000
    PhantomMaxTracked = 4096
    PhantomMinQty = 100
    ClusterGap = 0
    ClusterTimeGap = 0
INVARIANT StormSound
INVARIANT StormOnTime
CHECK_DEADLOCK FALSE
