SPECIFICATION Spec
CONSTANTS
    Catalogue <- MCCatalogue
    Streams <- MCStreams
    Readers = {"session", "feed"}
    Instruments = {1}
    MinPrice = 1
    MaxPrice = 2
    MaxConnects = 2
INVARIANTS StreamIntact OverflowExplained
PROPERTIES EverythingDelivered
CHECK_DEADLOCK FALSE
