SPECIFICATION Spec
CONSTANTS
    MinPrice = 1
    MaxPrice = 2
    MaxOrders = 3
    Stp = "CancelAggressor"
    Commands <- MCCommands
    Journals <- MCJournals
    RollRecords = 2
    Restarts = {"clean", "torn", "rolling", "unresumed"}
    MaxRestarts = 1
    BatchSize = 2
    FromScratch = {TRUE, FALSE}
    MaxFaults = 2
INVARIANTS NeverCorrupt EventsExact TradesExact
PROPERTIES EventuallyIngested
