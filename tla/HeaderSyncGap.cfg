SPECIFICATION Spec
CONSTANTS
    p1 = p1
    p2 = p2
    main = main
    side = side
    Peers = {p1, p2}
    Branches = {main, side}
    Main = main
    ForkAt <- MCForkAt
    NoHash = NoHash
    MaxTip = 10
    MaxHeight = 11
    Ahead = 1
    InitialStores <- MCBoost
    InitialTips <- MCTips
    Depth = 2
    MaxHeaders = 3
    FlushAt = 5
    MaxReconnects = 1
    Checkpoints = {4}
    MaxMoves = 2
    MaxFaults = 2
INVARIANT HeadersSitAtTheirHeights
CHECK_DEADLOCK FALSE
