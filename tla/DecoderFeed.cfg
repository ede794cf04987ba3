SPECIFICATION Spec
CONSTANTS
    Catalogue <- MCCatalogue
    Streams <- MCSnapshot
    Readers = {"feed"}
    Instruments = {1}
    MinPrice = 1
    MaxPrice = 2
    MaxConnects = 2
INVARIANT NeverOverflows
CHECK_DEADLOCK FALSE
