SPECIFICATION FairSpec
CONSTANTS
    n1 = "n1"  n2 = "n2"
    Announcements <- OneDevice
    SignalingAnnouncements = {}
    LocalIdentities = {}
    Poller = "poller"
    Rounds = {"poller", "refresh"}
    MaxProbeFailures = 2
    Accounts <- SmallAccounts
    CurrentDeviceId = "me"
    OwnCert = "certMe"
    OwnIps = {9}
    Sessions = {s1, s2}
    Modes = {"single", "multiple"}
    Waits = {w1, w2}
    MaxEvents = 2
    LanLists <- SmallLanLists
    SignaledLists <- SmallSignaledLists
    RowLists <- SmallRowLists
INVARIANT OwnWait
INVARIANT NoLostWakeup
INVARIANT OneUpload
PROPERTY WaitsEnd
