SPECIFICATION Spec
CONSTANTS
    Contradiction = Contradiction
    Facts <- PositiveFacts
    Rules <- PositiveRules
    Instances <- PositiveInstances
    Strata <- StrataByPartitioner
    RuleOrder <- PositiveOrder
    Updates <- PositiveUpdates
    Rulesets <- PositiveRulesets
INVARIANTS
    ClosureExact
    IndexComplete
    CutsBehindRemovals
