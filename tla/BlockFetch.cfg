SPECIFICATION FairSpec
CONSTANTS
    p1 = p1
    p2 = p2
    p3 = p3
    Peers = {p1, p2, p3}
    Top = 5
    Page = 4
    Quota = 1
    Retries = 5
    ReconnectAt = 3
    Enough = 2
    MaxFaults = 2
INVARIANTS
    TypeOK
    SmoothCallsGetAll
PROPERTIES
    ImplementsScan
    PunctualBlocksAreTaken
    ScanEndsUnlessDeaf
CHECK_DEADLOCK FALSE
