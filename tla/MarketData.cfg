CONSTANTS
    MinPrice = 1
    MaxPrice = 2
    MaxOrders = 2
    Stp = "CancelPassive"
    Commands <- MCCommands
    Recovered <- MCFresh
    MaxJournal = 3
    RingCapacity = 4
    MaxQueue = 4
    Subscribers = {s1}
    MaxConnects = 2
SPECIFICATION Spec
INVARIANTS MirrorExact TotalsExact LadderConverges
CHECK_DEADLOCK FALSE
