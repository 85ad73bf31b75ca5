SPECIFICATION FairSpec
CONSTANTS
    Contradiction = Contradiction
    Facts <- NegationFacts
    Rules <- NegationRules
    Instances <- NegationInstances
    Strata <- StrataByPartitioner
    RuleOrder <- NegationOrder
    Updates <- NegationUpdates
    Rulesets <- NegationRulesets
INVARIANTS
    ClosureExact
PROPERTIES
    CallsReturn
