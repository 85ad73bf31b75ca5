SPECIFICATION Spec
CONSTANTS
    a = a
    b = b
    tt = tt
    bn = bn
    Default = "default"
    MainDataset = "ds"
    Quads <- MCQuads
    Repr <- MCRepr
    Ops <- MCOps
    MaxOps = 3
INVARIANTS
    RequestOutcome
    LogReplaysToResult
CHECK_DEADLOCK FALSE
