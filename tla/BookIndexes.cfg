SPECIFICATION Spec
CONSTANTS
    WordBits = 2
    NumSlots = 7
    NotFound = NotFound
    Ids = {o1, o2, o3}
    Capacity = 8
    Homes = {0, 6, 7}
    Values <- Slots
    EmptySlot = EmptySlot
    Absent = Absent
INVARIANTS
    SearchExact
    AsIfNeverInserted
    IndexesMatch
