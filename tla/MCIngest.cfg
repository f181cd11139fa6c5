CONSTANTS
    Base = 6
    HeaderSize = 2
    MaxFrameSize = 10
    MaxEmptyFrames = 1
    Protocol = {"tcp", "udp"}
    c1 = c1
    c2 = c2
    Conn = {c1, c2}
    Stream <- Streams
    Datagram <- Datagrams
    NoDatagram = NoDatagram
    LengthSpace = 36
    MaxDatagrams = 3
    bufferSize = 8
    kBufferChunk = 6
    kCleanupInterval = 2
CHECK_DEADLOCK FALSE
SPECIFICATION FairSpec
INVARIANTS PiecesDoNotMatter ThreadsJoined DatagramsSound
PROPERTIES StopEnds
