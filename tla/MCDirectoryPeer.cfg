CONSTANTS
    p1 = p1
    p2 = p2
    x1 = x1
    n1 = n1
    a1 = a1

    NoTopic = NoTopic
    None = None
    Procs <- MCObserverOnly
    Guids <- MCPeerGuids
    Names <- MCNames
    Addrs <- MCAddrs
    Serves <- MCObserverServes
    Wants <- MCObserverWants
    MaxTs = 1
    SeedInterval = 1
    IntervalMax = 2
    InitInterval = 2
    GroupingMax = 4
    MaxRegs = 1
    MaxLoss = 1
    MaxQueue = 2
    Crashable <- MCNoCrash
    Peers <- MCPeers
    PeerServes <- MCPeerServes

SPECIFICATION Spec

INVARIANT SearchScheduled

CHECK_DEADLOCK FALSE
