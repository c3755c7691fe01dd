SPECIFICATION FairSpec
CONSTANTS
    a = a
    b = b
    s1 = s1
    Clients = {a, b}
    Sessions = {s1}
    Offerer <- OneOfferer
    Target <- OneTarget
    AppCapacity = 1
    MaxEarly = 1
    MaxNews <- NewsAtA
INVARIANT InOrder
INVARIANT DescriptionsMatch
PROPERTY ConnectEnds
PROPERTY AnswerResolves
CHECK_DEADLOCK FALSE
