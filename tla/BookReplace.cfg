SPECIFICATION Spec
CONSTANTS
    OrderIds = {o1, o2, o3}
    Participants = {p1, p2}
    MinPrice = 1
    MaxPrice = 2
    Tick = 1
    MaxOrders = 2
    Policies = {"CancelAggressor", "CancelPassive", "CancelBoth"}
    MaxSeq = 3
    NoOrder = NoOrder
    Arrivals <- GoodArrivals
    Quantities = {1, 2}
    Types = {"Limit", "Market", "Ioc", "Fok"}
SYMMETRY Symmetric
INVARIANTS
    RejectedReplaceUntouched
