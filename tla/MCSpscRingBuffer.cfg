CONSTANTS
    Capacity = 4
    Item = {a, b}
    NoItem = NoItem
SPECIFICATION Spec
INVARIANTS TypeOK NoSlotRace
PROPERTIES RefinesFifo
