SPECIFICATION FairSpec
CONSTANTS
    a1 = a1
    i1 = i1
    i2 = i2
    Anons = {a1}
    Target = target
    Nobody = nobody
    Ids = {i1, i2}
    NoId = noid
    Starts = {"fresh", "member"}
    PeerDoes = {"destroys", "leaves", "removes"}
    MaxRuns = 2
    MaxCrashes = 1
    MaxLeaves = 0
PROPERTY BootstrapSettles
 
CHECK_DEADLOCK FALSE
