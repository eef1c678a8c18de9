CONSTANTS
    p1 = p1
    p2 = p2
    NoConn = NoConn
    NoPeer = NoPeer
    PeerSeq <- MCPeerSeq
    ConnIds = {1, 2, 3, 4, 5, 6}
    MaxWorkers = 3
    MaxFailures = 1
    MaxCloses = 2
SPECIFICATION Spec
INVARIANT PrimaryIsLiveOutbound
INVARIANT BackoffSchedule
PROPERTY PrimaryEventuallyHeld
CHECK_DEADLOCK FALSE
