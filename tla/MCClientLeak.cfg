CONSTANTS
    s1 = s1
    s2 = s2
    n1 = n1
    a1 = a1
    a2 = a2
    k1 = k1
    k2 = k2
    NoTopic = NoTopic
    None = None
    Guids <- MCGuids
    Names <- MCNames
    Addrs <- MCAddrs
    Clients <- MCClients
    Name = n1
    MaxTs = 3

SPECIFICATION Spec

INVARIANT Reconciled
