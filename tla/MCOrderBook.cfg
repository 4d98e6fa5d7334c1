SPECIFICATION Spec
CONSTANTS
    OrderIds = {o1, o2, o3}
    Prices = {1, 2}
    MaxQty = 3
    NoOrder = NoOrder
INVARIANT CountsMatchOrders
INVARIANT QtysMatchOrders
