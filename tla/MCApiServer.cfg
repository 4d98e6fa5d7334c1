SPECIFICATION FairSpec
CONSTANTS
    p1 = p1
    p2 = p2
    Procs = {p1, p2}
    Kinds = {"FlashCrash", "PhantomLiquidity"}
    Bits = 4
    MaxTime = 2
    Equities <- MCEquities
    BadWrites <- MCBadWrites
    MaxDamaged = 1
    SecondMs = 2
    DamagedBelow <- MCDamaged
    KilledBelow <- MCKilled
    Specs <- MCSpecs
    GapLimit = 1
    MaxRequests = 4
INVARIANT AnswersEarned
INVARIANT RecordsFollowStorms
INVARIANT ArtefactsAgree
PROPERTY RequestsAnswered
CHECK_DEADLOCK FALSE
