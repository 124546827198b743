SPECIFICATION DispatcherSpec
CONSTANTS
    Waiters = {w1, w2, w3}
    Commands = {"block", "reject"}
    Txids = {t1, t2}
    Replies = {p}
    NoWaiter = NoWaiter
    MaxBatch = 2
SYMMETRY Symmetry
INVARIANT
    SenderInOneSlot
