CONSTANTS
    p1 = p1
    p2 = p2
    NoConn = NoConn
    NoPeer = NoPeer
    PeerSeq <- MCPeerSeq
    ConnIds = {1, 2, 3, 4}
    MaxWorkers = 3
    MaxFailures = 1
    MaxCloses = 1
SPECIFICATION Spec
INVARIANT AtMostOneSessionPerPeer
CHECK_DEADLOCK FALSE
