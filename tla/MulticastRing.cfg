SPECIFICATION FairSpec
CONSTANTS
    Consumers = {router, publisher}
    Gating = {router}
    Capacity = 2
    Words = {1, 2}
    LoadsReorder = FALSE
    MaxSent = 5
INVARIANTS
    NoTornRead
    GatingNeverLapped
PROPERTIES
    ProducerNeverStalled
    GatingSeesAll
