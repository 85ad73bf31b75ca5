SPECIFICATION OwlSpec
CONSTANTS
    Programs <- MCPrograms
    Ontologies <- MCOntologies
    Domain = {1, 2}
CHECK_DEADLOCK FALSE
INVARIANTS
    EachRuleOnce
    AcyclicOrdered
    TreeExact
    SecondTripStable
    ReadingMeansTheSame
    AnnotationsFollowAxioms
    RulesSound
    RulesComplete
