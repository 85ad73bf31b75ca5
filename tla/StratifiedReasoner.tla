------------------------- MODULE StratifiedReasoner -------------------------
(***************************************************************************)
(* The incremental reasoner with the strata that RulePartitioner gives it. *)
(***************************************************************************)
EXTENDS IncrementalReasoner
LOCAL INSTANCE RulePartitioner

CONSTANT RuleOrder \* the rules in the order of the vectors handed to the partitioner

ASSUME RuleOrderAssumption ==
    /\ RuleOrder \in Seq(Rules)
    /\ \A r \in Rules : \E k \in 1..Len(RuleOrder) : RuleOrder[k] = r

RECURSIVE order_rules_from(_)

order_rules_from(p) == IF Finished(p) THEN p ELSE order_rules_from(order_rules_step(p))

order_rules(rules) == order_rules_from(new(rules))

\* What the atoms of rule r match.
Pattern(r) ==
    LET of == {i \in Instances : i.rule = r}
    IN  [head |-> Heads(of) \ {Contradiction},
         pos  |-> UNION {i.pos : i \in of},
         neg  |-> UNION {i.neg : i \in of}]

\* The strata of each set of rules; none when the partitioner rejects it.
StrataTable ==
    [S \in SUBSET Rules |->
        LET names  == SelectSeq(RuleOrder, LAMBDA r : r \in S)
            result == order_rules([k \in 1..Len(names) |-> Pattern(names[k])])
            strata == IF result.status = "ok" THEN result.stratification ELSE << >>
        IN  [k \in 1..Len(strata) |->
                {names[strata[k][a]] : a \in 1..Len(strata[k])}]]

StrataByPartitioner(S) == StrataTable[S]
=============================================================================
