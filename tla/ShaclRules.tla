----------------------------- MODULE ShaclRules -----------------------------
(***************************************************************************)
(* The constraints that become Datalog rules (shacl/src/translate.rs) and  *)
(* what those rules derive.  The rules of one shape only read the data,    *)
(* the shape's targets and helper predicates of their own, negation goes   *)
(* to helper predicates only, so the model is the set of facts below.      *)
(* Helper predicates are named by shape and property index: two property   *)
(* shapes with the same index share them, and so do sh:minCount and        *)
(* sh:hasValue of one property shape.                                      *)
(***************************************************************************)
EXTENDS ShaclEval

(* Filters in rule bodies are SPARQL expressions over the value ?v and,    *)
(* for sh:lessThan, the other value ?ov.                                   *)
Value == [expr |-> "Variable", name |-> "v"]
Constant(t) == [expr |-> "Constant", value |-> t]
Call(name, args) == [expr |-> "FunctionCall", name |-> name, args |-> args]
Binary(l, op, r) == [expr |-> "Binary", op |-> op, left |-> l, right |-> r]
Not(e) == [expr |-> "Unary", op |-> "!", arg |-> e]
AnyOf(es) == IF es = <<>> THEN Constant(Bool(FALSE))
             ELSE FoldLeft(LAMBDA acc, e : Binary(acc, "||", e), es[1], Tail(es))

KindTest == [iri |-> "ISIRI", bnode |-> "ISBLANK", literal |-> "ISLITERAL"]
node_kind_expr(kinds) == LET ks == Listed(kinds) IN AnyOf([i \in 1..Len(ks) |-> Call(KindTest[ks[i]], <<Value>>)])
language_in_expr(tags) ==
    AnyOf([i \in 1..Len(tags) |-> Call("LANGMATCHES", <<Call("LANG", <<Value>>), Constant(Str(tags[i]))>>)])
datatype_expr(dt) == Binary(Binary(Call("DATATYPE", <<Value>>), "=", Constant(dt)), "&&",
                            Call("IS_LEXICALLY_VALID", <<Value, Constant(dt)>>))
pattern_expr(arg) == Call("REGEX", <<Call("STR", <<Value>>)>> \o [i \in 1..Len(arg) |-> Constant(Str(arg[i]))])

(* What a value must satisfy to be reported; a blank node as a bound       *)
(* rejects every value.                                                    *)
FilterKinds == {"nodeKind", "languageIn", "datatype", "pattern"} \cup DOMAIN RangeOperator
violation_filter(c) ==
    CASE c[1] = "nodeKind" -> Not(node_kind_expr(c[2]))
      [] c[1] = "languageIn" -> Not(language_in_expr(c[2]))
      [] c[1] = "datatype" -> Not(datatype_expr(c[2]))
      [] c[1] = "pattern" -> Not(pattern_expr(c[2]))
      [] c[1] \in DOMAIN RangeOperator ->
            IF Kind(c[2]) = "bnode" THEN Constant(Bool(TRUE))
            ELSE Not(Binary(Value, RangeOperator[c[1]], Constant(c[2])))
LessThanOperator == [lessThan |-> "<", lessThanOrEquals |-> "<="]

(* The filtered rules ask about (value, other value) pairs.                *)
FilterOf(c) == IF c[1] \in FilterKinds THEN violation_filter(c)
               ELSE Not(Binary(Value, LessThanOperator[c[1]], [expr |-> "Variable", name |-> "ov"]))
Rejected(c, v, other) == eval_filter(FilterOf(c), ("v" :> v) @@ ("ov" :> other), DefaultGraph)

-----------------------------------------------------------------------------
(* Paths.  A simple path is its own predicate; any other is stored under a *)
(* predicate named by shape and property.  `nodes` are the nodes of the    *)
(* working store, violations found before included.                        *)

SameIndex(s, p) == {o \in ActiveProps(s) : o.idx = p.idx}
resolve_one_path(s, p, nodes) ==
    IF p.path.path = "Iri" THEN pairs(p.path, nodes)
    ELSE UNION {pairs(o.path, nodes) : o \in {x \in SameIndex(s, p) : x.path.path # "Iri"}}
ValuesIn(edges, n) == {e[2] : e \in {x \in edges : x[1] = n}}

-----------------------------------------------------------------------------
(* The helper predicates of a property shape.                              *)

int_has_val(s, p, targets, nodes) ==
    {n \in targets :
        \E o \in SameIndex(s, p) :
            LET values == ValuesIn(resolve_one_path(s, o, nodes), n)
            IN  \E c \in Range(o.constraints) :
                    \/ c[1] = "minCount" /\ c[2] > 0 /\ Cardinality(values) >= c[2]
                    \/ c[1] = "hasValue" /\ c[2] \in values}
int_in_list(s, p) ==
    UNION {UNION {Range(c[2]) : c \in {d \in Range(o.constraints) : d[1] = "in"}} : o \in SameIndex(s, p)}
has_class(s, p, i) ==
    UNION {class_target_instances(o.constraints[i][2])
           : o \in {x \in SameIndex(s, p) : Len(x.constraints) >= i /\ x.constraints[i][1] = "class"}}

(* (focus node, value) of the violations; has_val and members are the      *)
(* helper predicates a rule negates.                                       *)
CountViolations(c, targets, edges) ==
    CASE c[1] = "maxCount" /\ c[2] = 0 -> {e \in edges : e[1] \in targets}
      [] c[1] = "maxCount" /\ c[2] > 0 ->
            {<<n, TrueMark>> : n \in {x \in targets : Cardinality(ValuesIn(edges, x)) > c[2]}}
      [] OTHER -> {}
PresenceViolations(c, targets, has_val) ==
    IF c[1] = "hasValue" \/ (c[1] = "minCount" /\ c[2] > 0)
    THEN {<<n, Nil>> : n \in targets \ has_val} ELSE {}
MemberViolations(c, targets, edges, members) ==
    IF c[1] \in {"class", "in"} THEN {e \in edges : e[1] \in targets /\ e[2] \notin members} ELSE {}

(* The rules with a filter.  sh:lessThan puts the other value in the graph *)
(* position, which makes one violation for each pair.                      *)
Others(c, n) ==
    CASE c[1] \in DOMAIN LessThanOperator -> path_values(n, c[2])
      [] c[1] \in FilterKinds -> IF c[1] = "pattern" /\ c[2][1] \notin Regexes THEN {} ELSE {Iri("default")}
      [] OTHER -> {}
FilterViolations(c, targets, edges) ==
    UNION {{<<o, e[1], e[2]>> : o \in {x \in Others(c, e[1]) : Rejected(c, e[2], x)}}
           : e \in {x \in edges : x[1] \in targets}}

prop_constraint_rules(r, targets) ==
    {DefaultFact(e[1], r.viol, e[2])
     : e \in CountViolations(r.c, targets, r.edges) \cup PresenceViolations(r.c, targets, r.has_val)
             \cup MemberViolations(r.c, targets, r.edges, r.members)}
    \cup {Fact(f[1], f[2], r.viol, f[3]) : f \in FilterViolations(r.c, targets, r.edges)}

(* What the rules of a shape are made for: constraint, violation predicate *)
(* and the extensions of path and helper predicates.  Constraints on the   *)
(* focus node are on the pairs <<n, n>>; the two counts mean nothing there.*)
RulesFor(c, viol, edges, has_val, members) ==
    [c |-> c, viol |-> viol, edges |-> edges, has_val |-> has_val, members |-> members]
PropRules(si, s, p, edges, has_val) ==
    LET Members(i) == CASE p.constraints[i][1] = "class" -> has_class(s, p, i)
                        [] p.constraints[i][1] = "in" -> int_in_list(s, p)
                        [] OTHER -> {}
    IN  {RulesFor(p.constraints[i], Viol(si, p.idx, p.constraints[i][1], None), edges, has_val, Members(i))
         : i \in 1..Len(p.constraints)}
NodeRules(si, s, itself) ==
    LET Members(c) == CASE c[1] = "class" -> class_target_instances(c[2]) [] c[1] = "in" -> Range(c[2])
                        [] OTHER -> {}
        Has(c) == IF c[1] = "hasValue" THEN {c[2]} ELSE {}
        Rule(i, c) == RulesFor(c, Viol(si, NodeLevelBase + i, c[1], None), itself, Has(c), Members(c))
    IN  {Rule(i, s.node_constraints[i])
         : i \in {j \in 1..Len(s.node_constraints) : s.node_constraints[j][1] \notin {"minCount", "maxCount"}}}
        \cup {RulesFor(k, Viol(si, NodeKindPi, "nodeKind", None), itself, {}, {}) : k \in Range(s.node_kind)}
shapes_to_rules(si, s, targets, nodes) ==
    UNION {prop_constraint_rules(r, targets)
           : r \in UNION {PropRules(si, s, p, resolve_one_path(s, p, nodes), int_has_val(s, p, targets, nodes))
                          : p \in ActiveProps(s)}
                   \cup NodeRules(si, s, {<<n, n>> : n \in targets})}
=============================================================================
