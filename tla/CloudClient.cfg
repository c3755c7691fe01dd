SPECIFICATION Spec
CONSTANTS
    a1 = a1
    i1 = i1
    i2 = i2
    Anons = {a1}
    Target = target
    Nobody = nobody
    Ids = {i1, i2}
    NoId = noid
    Starts = {"fresh", "member", "reinstalled"}
    PeerDoes = {"destroys", "leaves", "removes"}
    MaxRuns = 2
    MaxCrashes = 0
    MaxLeaves = 1
 
PROPERTY FreshAccountSpared
CHECK_DEADLOCK FALSE
