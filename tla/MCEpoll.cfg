CONSTANTS
    Base = 6
    HeaderSize = 1
    MaxFrameSize = 4
    MaxEmptyFrames = 1
    c1 = c1
    c2 = c2
    c3 = c3
    Conn = {c1, c2, c3}
    NoConn = NoConn
    Stream <- Streams
    Cut <- Cuts
    MaxFd = 2
    numWorkers_ = 1
    maxEvents_ = 2
    kReadChunk = 3
CHECK_DEADLOCK FALSE
SPECIFICATION FairSpec
INVARIANTS DescriptorsCurrent StateStaysAlive OwnFramesOnly
PROPERTIES BytesAreRead StopEnds
