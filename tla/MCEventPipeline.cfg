CONSTANTS
    EventKind <- AllKinds
    NotInTable = NotInTable
    MaxEvents = 3
    InboundCapacity = 2
    RingCapacity = 2
    HighMark = 1
    CriticalMark = 1
    TransactionalCapacity = 1
    BatchCapacity = 2
    DROP_BATCH_SIZE = 1
    MAX_RETRIES = 3
SPECIFICATION FairSpec
INVARIANTS InOnePlace LanesSound CriticalIsRealtime
PROPERTIES Settles ShutdownEnds
