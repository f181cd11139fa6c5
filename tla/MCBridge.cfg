CONSTANTS
    s1 = s1
    Caller = {c}
    Server = {s1, s2}
    Dispatcher = {d}
    Worker = {r, b}
    Realtime = {r}
    Batch = {b}
    Home <- Homes
    Obj = {o1, o2}
    NoObj = NoObj
    RingSize = 2
    kPoolCapacity = 1
    MaxEngines = 2
    MaxSubscribers = 2
CHECK_DEADLOCK FALSE
SPECIFICATION Spec
SYMMETRY Symmetric
INVARIANTS OneOwner PoolLimits SubscriberKept ShutdownIsClean
