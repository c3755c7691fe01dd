SPECIFICATION GroupsSpec
CONSTANTS
    u1 = u1
    u2 = u2
    a = a
    b = b
    t1 = t1
    Uids = {u1, u2}
    Devices = {a, b}
    Tokens = {t1}
    Nobody = Nobody
    Restarters = {a, b}
    MaxCount = 2
    MaxSweeps = 1
SYMMETRY MCSymmetry
INVARIANT NeverUndercounts
PROPERTY SparesOtherDevices
CHECK_DEADLOCK FALSE
