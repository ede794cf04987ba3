SPECIFICATION Spec
CONSTANTS
    s1 = s1
    s2 = s2
    Sessions = {s1, s2}
    Scripts <- MCScripts
    InCapacity = 2
    OutCapacity = 2
    ReadChunk = 2
    DecoderCapacity = 3
    MaxFailures = 1
    MaxLost = 1
INVARIANTS
    InOrderOnce
    FillsConserved
PROPERTY
    PendingResolved
CHECK_DEADLOCK FALSE
