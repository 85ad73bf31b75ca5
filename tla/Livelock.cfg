SPECIFICATION FairSpec
CONSTANTS
    Contradiction = Contradiction
    Facts <- ReachFacts
    Rules <- ReachRules
    Instances <- ReachInstances
    Strata <- StrataByPartitioner
    RuleOrder <- ReachOrder
    Updates <- ReachUpdates
    Rulesets <- ReachRulesets
PROPERTY CallsReturn
