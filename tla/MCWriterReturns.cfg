SPECIFICATION MCSpec
CONSTANTS
    p1 = p1
    p2 = p2
    s1 = s1
    s2 = s2
    Peer = {p1, p2}
    Sender = {s1, s2}
    Broadcaster = {s2}
    Base = 2
    Width = 3
    HandshakeLimit = 2
    WriterLimit = 5
    ReaderLimits = {2, 5}
    MaxLength = 5
    MaxMessages = 3
CHECK_DEADLOCK FALSE
INVARIANT FramesInv
PROPERTY FailedPeersLeave
PROPERTY SendsReturn
PROPERTY WholeIsRead
