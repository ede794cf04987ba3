SPECIFICATION Spec
CONSTANTS
    Commands = {c1, c2}
    MaxSeq = 3
    MaxFaults = 2
    RollRecords = 2
    RingCapacity = 1
    Retention = 2
    NoFile = NoFile
    Torn = Torn
    Settings <- KillThenPowerLoss
PROPERTY
    NoAckLost
