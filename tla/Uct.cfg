SPECIFICATION FairSpec
CONSTANTS
    Transports <- MCTransports
    NComponents = 2
    MaxMds = 2
    SockBuf = 2
    Faults = {"setup", "alloc", "cuda", "link", "post", "crash"}
INVARIANTS
    UctTypeOK
    CleanUpOwned
    AllReleased
    DependencyOrder
    PeerAddressesRight
    ConnectedBeforeSend
    ClientSuccessMeansShown
    BufferHeldUntilSent
PROPERTIES
    SocketWaitEnds
    UctEnds
CHECK_DEADLOCK FALSE
