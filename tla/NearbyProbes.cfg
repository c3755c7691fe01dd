SPECIFICATION FairSpec
CONSTANTS
    n1 = "n1"  n2 = "n2"
    Announcements <- OneAddress
    SignalingAnnouncements <- AnnouncedToo
    LocalIdentities = {}
    Poller = "poller"
    Rounds = {"poller", "refresh"}
    MaxProbeFailures = 3
    Accounts <- SmallAccounts
    CurrentDeviceId = "me"
    OwnCert = "certMe"
    OwnIps = {9}
    Sessions = {s1}
    Modes = {"single"}
    Waits = {w1, w2}
    MaxEvents = 1
    LanLists <- SmallLanLists
    SignaledLists <- SmallSignaledLists
    RowLists <- SmallRowLists
PROPERTY GoneDevicesLeave
 
INVARIANT TwinLostToName
