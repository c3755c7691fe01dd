SPECIFICATION FairSpec
CONSTANTS
    p1 = p1
    p2 = p2
    p3 = p3
    g1 = g1
    Peers = {p1, p2, p3}
    Groups = {g1}
    GroupOf <- OneGroup
    ChannelCap = 2
    MaxConnections = 2
    MaxRequests = 2
    Quitters = {p1}
    MaxMessages = 1
    MaxClears = 1
INVARIANT IndInv
INVARIANT MutualDiscovery
PROPERTY NeverDroppedWhileRegistered
PROPERTY HandlersProgress
CHECK_DEADLOCK FALSE
