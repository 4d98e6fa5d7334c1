SPECIFICATION LanesSpec
CONSTANTS
    OrderIds = {o1, o2}
    Prices = {1, 2}
    MaxQty = 2
    MAX_LEVELS = 2
    MaxBatch = 3
    AllowModify = FALSE
    AnonId = a0
    NoOrder = NoOrder
INVARIANT LanesMatchSerial
CHECK_DEADLOCK FALSE
