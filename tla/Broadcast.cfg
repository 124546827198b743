SPECIFICATION FairSpec
CONSTANTS
    PeerCount = 2
    Txs = {t1, t2}
    NoTx = NoTx
    MaxFaults = 2
INVARIANT
    TypeOK
PROPERTIES
    AnswersAreOwn
    BroadcastReturns
CHECK_DEADLOCK FALSE
