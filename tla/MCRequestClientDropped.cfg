CONSTANTS
    s1 = s1
    s2 = s2
    n1 = n1
    a1 = a1
    a2 = a2
    NoTopic = NoTopic
    None = None
    Guids <- MCGuids
    Names <- MCNames
    Addrs <- MCAddrs
    Name = n1
    MaxTs = 4

SPECIFICATION Spec




INVARIANT ConnectedWhileProvided
