SPECIFICATION Spec
CONSTANTS
    a = a
    f = f
    h = h
    t = t
    r = r
    n = n
    c1 = c1
    c2 = c2
    Default = "default"
    MainDataset = "ds"
    Repr <- MCRepr
    Quads <- MCQuads
    Datasets = {"ds", "d2"}
    FileData <- MCFileData
    InitialRules = {}
    Clients = {c1, c2}
    Updates <- MCUpdates
    Bodies <- MCBodies
    Rulesets <- MCRulesets
    RulesetIds = {"x"}
    Contradictory <- MCContradictory
    Consequences <- MCConsequences
    MaxLog = 3
    MaxStores = 3
    MaxRequests = 3
SYMMETRY Symm
INVARIANTS
    QuadsDurable
    DatasetsDurable
    RulesDurable
    RestartSucceeds
CHECK_DEADLOCK FALSE
