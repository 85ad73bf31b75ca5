----------------------------- MODULE MCReasoner -----------------------------
(* Programs for TLC.  Each is a set of facts, the ground instances of its     *)
(* rules, the order in which the rules are handed over, and what the clients  *)
(* send.                                                                      *)
EXTENDS StratifiedReasoner

MCInstance(r, h, p, n) == [rule |-> r, head |-> h, pos |-> p, neg |-> n]
RulesOf(I) == {i.rule : i \in I}
Inserts(S) == {[deletes |-> {}, inserts |-> {f}] : f \in S}
Deletes(S) == {[deletes |-> {f}, inserts |-> {}] : f \in S}
AtMostOne(S) == {{}} \cup {{f} : f \in S}

-----------------------------------------------------------------------------
(* Without negation: two ways to derive c, a cycle between c and d, and a    *)
(* contradiction that takes two rounds to derive.                            *)

PositiveFacts == {"a", "b", "c", "d", "e", "f", "g"}

PositiveInstances ==
    {MCInstance("ca", "c", {"a"}, {}),
     MCInstance("cb", "c", {"b"}, {}),
     MCInstance("dc", "d", {"c"}, {}),
     MCInstance("cd", "c", {"d"}, {}),
     MCInstance("fd", "f", {"d"}, {}),
     MCInstance("fe", "f", {"e"}, {}),
     MCInstance("ge", "g", {"e"}, {}),
     MCInstance("x", Contradiction, {"a", "g"}, {})}

PositiveRules == RulesOf(PositiveInstances)

PositiveOrder == <<"ca", "cb", "dc", "cd", "fd", "fe", "ge", "x">>

PositiveUpdates ==
    {u \in [deletes : AtMostOne({"a", "b", "d", "e"}), inserts : AtMostOne({"a", "b", "d", "e"})] :
        u.deletes # u.inserts}

PositiveRulesets ==
    {{}} \cup {PositiveRules \ S : S \in {{}, {"fd"}, {"ca"}, {"cd", "fd"}}}

-----------------------------------------------------------------------------
(* A chain of negations: e derives c, c blocks b, b blocks d.  Facts are only *)
(* added.                                                                     *)

NegationFacts == {"a", "b", "c", "d", "e", "f", "g", "h"}

NegationInstances ==
    {MCInstance("ce", "c", {"e"}, {}),
     MCInstance("b", "b", {"a"}, {"c"}),
     MCInstance("d", "d", {"a"}, {"b"}),
     MCInstance("fb", "f", {"b"}, {}),
     MCInstance("fd", "f", {"d"}, {}),
     MCInstance("ga", "g", {"a"}, {}),
     MCInstance("h", "h", {}, {})}

NegationRules == RulesOf(NegationInstances)

NegationOrder == <<"ce", "b", "d", "fb", "fd", "ga", "h">>

NegationUpdates ==
    Inserts(NegationFacts \ {"g", "h"})
        \cup {[deletes |-> {}, inserts |-> {"a", f}] : f \in {"c", "e"}}

NegationRulesets == {{}, NegationRules}

-----------------------------------------------------------------------------
(* Rulesets that a dataset's facts may contradict: x rejects an a without a   *)
(* c, y rejects a p beside a b, and ca with u cannot be stratified.           *)

ChangingFacts == {"a", "b", "c", "p", "q", "r"}

ChangingInstances ==
    {MCInstance("ca", "c", {"a"}, {}),
     MCInstance("wp", "p", {"a"}, {}),
     MCInstance("wq", "q", {"a"}, {}),
     MCInstance("wr", "r", {"a"}, {}),
     MCInstance("h", "r", {}, {}),
     MCInstance("u", "a", {"b"}, {"c"}),
     MCInstance("x", Contradiction, {"a"}, {"c"}),
     MCInstance("y", Contradiction, {"p", "b"}, {})}

ChangingRules == RulesOf(ChangingInstances)

ChangingOrder == <<"ca", "wp", "wq", "wr", "h", "u", "x", "y">>

ChangingUpdates == Inserts({"a", "b"}) \cup Deletes({"a", "c"})

Wide == {"wp", "wq", "wr"}

ChangingRulesets ==
    {{}} \cup {Wide \cup S : S \in {{"ca", "x"}, {"ca", "x", "y", "h"}, {"x"}, {"ca", "u"}}}

-----------------------------------------------------------------------------
(* Reachability that stops at visited nodes: p(x) <- p(y), edge(y, x), NOT    *)
(* q(x) and q(x) <- p(x).  The two nodes are 0 and 1; e and g are the edges.  *)

ReachFacts == {"p0", "p1", "q0", "q1", "e", "g"}

ReachInstances ==
    {MCInstance("reach", "p1", {"p0", "e"}, {"q1"}),
     MCInstance("reach", "p0", {"p1", "g"}, {"q0"}),
     MCInstance("visit", "q0", {"p0"}, {}),
     MCInstance("visit", "q1", {"p1"}, {})}

ReachRules == RulesOf(ReachInstances)

ReachOrder == <<"reach", "visit">>

ReachUpdates == Inserts({"p0", "e"})

ReachRulesets == {ReachRules}
=============================================================================
