SPECIFICATION FairSpec
CONSTANTS
    r1 = r1
    r2 = r2
    r3 = r3
    b1 = b1
    b2 = b2
    t1 = t1
    t2 = t2
    NoWaiter = NoWaiter
    MaxBatch = 0
    Waiters = {r1, r2, b1}
    Requests = {r1, r2}
    Commands = {"headers", "ping", "reject"}
    Txids = {t1}
    Expects <- MCExpects
    TxidOf <- MCTxidOf
    Replies <- MCReplies
    Answered = {"ping"}
    MaxUnsolicited = 1
    MaxVolunteered = 1
INVARIANTS
    TypeOK
    NoStrandedRequest
    OwnReplyUnlessSpoiled
    WriterNeverLeaks
PROPERTY StopSilencesListener
CHECK_DEADLOCK FALSE
