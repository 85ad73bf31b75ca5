SPECIFICATION Spec
CONSTANTS
    a = a
    b = b
    t1 = t1
    t2 = t2
    c1 = c1
    c2 = c2
    Default = "default"
    MainDataset = "ds"
    Quads <- MCQuads
    Initial <- MCInitial
    Repr <- MCRepr
    Tx = {t1, t2}
    Clients = {c1, c2}
    UpdateRequests <- MCUpdateRequests
    TxRequests <- MCTxRequests
    Bodies <- MCBodies
    Forbidden <- MCForbidden
    MaxGeneration = 2
SYMMETRY Symm
INVARIANTS
    FirstCommitterWins
PROPERTIES
    CommitOnSnapshot
    DecidedOnce
    AcknowledgedWritesCommitted
CHECK_DEADLOCK FALSE
