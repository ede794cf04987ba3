SPECIFICATION FairSpec
CONSTANTS
    Values = {a, b}
    Capacity = 2
    NoValue = NoValue
    MaxSent = 5
INVARIANTS
    NoRace
PROPERTIES
    RefinesChannel
    PushCompletes
    AllDelivered
