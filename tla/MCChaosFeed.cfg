SPECIFICATION Spec
CONSTANTS
    Listing <- MCListing
    Opening <- MCOpening
    MaxEvents = 7
    CrashMinGapBps = 10
    CrashGapWindow = 2
    CrashMaxLevels = 2
    CrashBandTicks = 5
    CrashDropPct = 50
    CrashMinAggr = 1
    CrashCooldown = 2
    IgnSeqWindow = 4
    IgnTimeWindow = 0
    IgnMaxLevels = 2
    IgnMinMoveBps = 10
    IgnMinTrades = 1
    IgnMinConsecutive = 2
    IgnCooldown = 2
    ArbReactionSeq = 3
    ArbReactionTime = 0
    ArbMaxLevels = 2
    ArbBandTicks = 4
    ArbMinTradeQty = 1
    ArbMinBurst = 1
    ArbRequireReversion = FALSE
    ArbReversionBps = 0
    ArbCooldown = 2
    ArbMaxPending = 2
    StormSeqWindow = 2
    StormTimeWindow = 0
    StormMinWindow = 2
    StormWarmup = 2
    StormKSigma = 1
    StormMinConsecutive = 1
    StormCooldown = 4
    StormSigmaFloor = 1
    StormScale = 12
    QuoteWindow = 3
    QuoteRatio = 2
    SpoofQty = 2
    SpoofWindow = 1
    PhantomSeqGap = 4
    PhantomTimeGap = 0
    PhantomMaxTracked = 2
    PhantomMinQty = 1
    ClusterGap = 1
    ClusterTimeGap = 0
INVARIANT CachesExact
INVARIANT RunDirected
INVARIANT FlagsEarned
INVARIANT EpisodesPure
PROPERTY BaselinePaused
CHECK_DEADLOCK FALSE
