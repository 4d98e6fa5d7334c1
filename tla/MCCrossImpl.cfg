SPECIFICATION CrossSpec
CONSTANTS
    OrderIds = {o1, o2, o3}
    Prices = {1, 2, 3}
    MaxQty = 2
    MAX_LEVELS = 2
    AnonId = a0
    NoOrder = NoOrder
INVARIANT GridSound
INVARIANT BooksAgree
