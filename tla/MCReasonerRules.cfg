SPECIFICATION Spec
CONSTANTS
    Contradiction = Contradiction
    Facts <- ChangingFacts
    Rules <- ChangingRules
    Instances <- ChangingInstances
    Strata <- StrataByPartitioner
    RuleOrder <- ChangingOrder
    Updates <- ChangingUpdates
    Rulesets <- ChangingRulesets
INVARIANTS
    UndoExact
PROPERTIES
    RulesetKeepsBase
