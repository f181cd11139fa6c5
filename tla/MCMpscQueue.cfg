CONSTANTS
    Producer = {p1, p2}
    Item = {a, b}
    NoItem = NoItem
    Node = {n1, n2, n3, n4}
    NULL = NULL
    Capacity = 1
    SizeMod = 16
SPECIFICATION FairSpec
INVARIANTS NoUseAfterFree NoLeak
PROPERTIES RefinesFifo RefusedHasReason AcceptedIsTaken
