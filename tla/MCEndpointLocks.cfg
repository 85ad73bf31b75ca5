SPECIFICATION Spec
CONSTANTS
    Requests = {1, 2}
    MaxWrites = 1
    FirstStore = "store2"
INVARIANTS
    CacheCurrent
    NoWaitCircle
PROPERTIES
    EveryRequestReturns
