CONSTANTS
    PreResolved <- MCPreResolved
    Stores <- MCStores
    Pool <- MCPool
    Core <- MCCore
    Alone <- MCAlone
    Heads <- MCHeads
    Policies <- MCPolicies
    MaxComponents = 3
SPECIFICATION Spec
INVARIANTS ReorderPreservesAnswers AgreesWithAlgebra BudgetIsPrefix PathsAreRelations ExplainMatchesRun
CHECK_DEADLOCK FALSE
