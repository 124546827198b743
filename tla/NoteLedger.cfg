SPECIFICATION FairSpec
CONSTANTS
    Notes = {n1, n2}
    Txs = {tA, tB}
    WithChange = {tA}
    NoTx = NoTx
    Misplaced = {n2}
    ExpiryDelta = 1
    MaxHeight = 1
    MaxClock = 1
    MaxStops = 1
INVARIANTS
    TypeOK
    ScannedSpendsStaySpent
PROPERTIES
    RecoverySparesMined
    ImplementsVault
    NotesAreNotHeldForever
CHECK_DEADLOCK FALSE
