SPECIFICATION Spec
CONSTANTS
    a = a
    b = b
    t1 = t1
    t2 = t2
    t3 = t3
    f1 = f1
    f2 = f2
    Nobody = Nobody
    Devices = {a, b}
    Transfers = {t1, t2, t3}
    Files = {f1}
    From <- ThreeFrom
    To <- ThreeTo
    Messages = {t3}
    QuickSave = {t1}
    PinDevices = {}
    Concurrency = 2
    MaxAttempts = 1
    MaxFaults = 1
INVARIANT IndInv
PROPERTY FinalStays
PROPERTY CanceledStaysCanceled
CHECK_DEADLOCK FALSE
