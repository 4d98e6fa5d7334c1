SPECIFICATION BreakerSpec
CONSTANTS
    s1 = s1
    s2 = s2
    Senders <- MCSenders
    Intents <- MCIntents
    None = None
    Prices <- MCPrices
    Configs <- MCConfigs
    MaxPosition = 1
    MaxDailyLoss = 0
    MaxOrderToTrade = 1
    OtrWarmup = 1
    GapThreshold = 2
    Burst = 2
    MaxOrders = 4
    MaxGaps = 2
    MaxInterventions = 1
SYMMETRY SenderSymmetry
INVARIANT OvershootBounded
INVARIANT LateAllowOnce
PROPERTY HaltExplained
CHECK_DEADLOCK FALSE
