SPECIFICATION FairSpec
CONSTANTS
    p1 = p1
    p2 = p2
    p3 = p3
    Peers = {p1, p2, p3}
    Confused = {p3}
    Apps = {"desktop", "service"}
    Threshold = 2
    MinPeers = 3
    Agree = 1
    LiveRange = 2
    Outlier = 1
    SeenLimit = 1
    MaxAttempts = 2
    MaxReconnects = 1
    MaxChain = 1
    FarHeight = 5
    MaxFaults = 1
    MaxLate = 2
INVARIANTS
    TypeOK
PROPERTIES
    ListenersReturn
    AnnouncedBlocksBringProgress
CHECK_DEADLOCK FALSE
