CONSTANTS
    Capacity = 4
    MaxEvents = 7
    MAX_RETRIES = 3
    HighMark = 1
    CriticalMark = 2
SPECIFICATION FairSpec
INVARIANTS NoNullEvent ExactUntilOverflow
PROPERTIES LaneDrains
