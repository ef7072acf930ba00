CONSTANTS
    p1 = p1
    p2 = p2
    x1 = x1
    n1 = n1
    a1 = a1

    NoTopic = NoTopic
    None = None
    Procs <- MCProcs
    Guids <- MCGuids
    Names <- MCNames
    Addrs <- MCAddrs
    Serves <- MCServes
    Wants <- MCWants
    MaxTs = 1
    SeedInterval = 1
    IntervalMax = 2
    InitInterval = 2
    GroupingMax = 4
    MaxRegs = 1
    MaxLoss = 1
    MaxQueue = 2
    Crashable <- MCCrashable
    Peers <- MCNoPeers
    PeerServes <- MCNoPeerServes

SPECIFICATION Spec

INVARIANT TypeOK
INVARIANT LocalOnlyWhileServing
INVARIANT SearchScheduled
PROPERTY Discovered

CHECK_DEADLOCK FALSE
