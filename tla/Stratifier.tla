----------------------------- MODULE Stratifier -----------------------------
(***************************************************************************)
(* A run of RulePartitioner::order_rules on any of a set of rule vectors.  *)
(***************************************************************************)
EXTENDS RulePartitioner

CONSTANT Programs \* the rule vectors

ASSUME ProgramsAssumption ==
    \A rules \in Programs : rules \in Seq({rules[k] : k \in DOMAIN rules})

VARIABLE p \* the partitioner

Init == \E rules \in Programs : p = new(rules)

Start == p.status = "start" /\ p' = order_rules_step(p)

Place == p.status = "ordering" /\ p.ready_queue # << >> /\ p' = order_rules_step(p)

Search == p.status = "searching" /\ p' = order_rules_step(p)

NextPartition ==
    /\ p.status = "ordering"
    /\ p.ready_queue = << >>
    /\ p.partition # << >>
    /\ p' = order_rules_step(p)

Finish ==
    /\ p.status = "ordering"
    /\ p.ready_queue = << >>
    /\ p.partition = << >>
    /\ p' = order_rules_step(p)

Next == Start \/ Search \/ Place \/ NextPartition \/ Finish

Spec == Init /\ [][Next]_p

------------------------------------------------------------------------------
(* Properties.                                                             *)

RuleSet == RuleIds(p.rules)

\* Some rule depends on itself: each rule of some set feeds another of the set, or itself.
Cyclic ==
    \E S \in SUBSET RuleSet :
        S # {} /\ \A i \in S : \E j \in S : Edge(p.rules, i, j) # "none"

\* Rule i is in stratum k.
InStratum(i, k) == \E a \in DOMAIN p.stratification[k] : p.stratification[k][a] = i

\* However cycles are broken, an accepted program is split: every rule is materialised in
\* exactly one stratum, none is lost in a queue and none is placed twice.
EachRuleOnce ==
    p.status = "ok" =>
        /\ \A i \in RuleSet : \E k \in DOMAIN p.stratification : InStratum(i, k)
        /\ \A k \in DOMAIN p.stratification : \A a \in DOMAIN p.stratification[k] :
               /\ p.stratification[k][a] \in RuleSet
               /\ \A l \in DOMAIN p.stratification : \A b \in DOMAIN p.stratification[l] :
                      p.stratification[k][a] = p.stratification[l][b] => k = l /\ a = b

\* Rules that do not depend on themselves are all placed, no rule below one it consumes,
\* and strictly above every rule it negates.
AcyclicOrdered ==
    Finished(p) /\ ~Cyclic =>
        /\ p.status = "ok"
        /\ \A k, l \in DOMAIN p.stratification : \A i, j \in RuleSet :
               InStratum(i, k) /\ InStratum(j, l) =>
                   /\ Edge(p.rules, i, j) # "none" => k <= l
                   /\ Edge(p.rules, i, j) = "negative" => k < l
=============================================================================
