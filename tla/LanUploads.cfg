SPECIFICATION FairSpec
CONSTANTS
    a = a
    b = b
    t1 = t1
    t2 = t2
    t3 = t3
    f1 = f1
    f2 = f2
    Nobody = Nobody
    Devices = {a, b}
    Transfers = {t1}
    Files = {f1, f2}
    From <- OneFrom
    To <- OneTo
    Messages = {}
    QuickSave = {}
    PinDevices = {b}
    Concurrency = 2
    MaxAttempts = 2
    MaxFaults = 2
INVARIANT FinishedMeansSaved
INVARIANT ReceiverSettles
PROPERTY ImplementsFileTransfer
PROPERTY TransferEnds
CHECK_DEADLOCK FALSE
