SPECIFICATION FairSpec
CONSTANTS
    None = None
    Garbled = Garbled
    Mixed = Mixed
    Small = Small
    Cut = Cut
    MaxRelease = 2
    PartCount = 2
    Chunks = 2
    MaxAttempts = 2
    MaxFaults = 2
INVARIANTS
    TypeOK
    SnapshotIsTheManifests
PROPERTIES
    SnapshotArrives
CHECK_DEADLOCK FALSE
