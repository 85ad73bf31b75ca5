----------------------------- MODULE ShaclEval ------------------------------
(***************************************************************************)
(* Checking a node against a shape (shacl/src/evaluate.rs, the evaluation  *)
(* half of path.rs, and the target functions of lib.rs).                   *)
(*                                                                         *)
(* There are two evaluators: shape_conforms_for_node answers whether a     *)
(* node conforms to a shape another shape refers to; eval_all finds the    *)
(* violations of the shapes that have targets, for the constraints that    *)
(* are not Datalog rules.  The data are the triples of the default graph.  *)
(***************************************************************************)
EXTENDS ShaclShapes

DataTriples == Range(QuadsOf(Iri("default")))
DataNodes == graph_nodes(Iri("default"))
path_values(n, p) == {t.o : t \in {x \in DataTriples : x.s = n /\ x.p = p}}

-----------------------------------------------------------------------------
(* Property paths as sets of pairs.                                        *)

(* What is reached from `stack` along `edges`; `visited` is found already. *)
RECURSIVE Visit(_, _, _)
Visit(stack, visited, edges) ==
    IF stack = {} THEN visited
    ELSE LET cur == CHOOSE n \in stack : TRUE
             new == {e[2] : e \in {x \in edges : x[1] = cur}} \ visited
         IN  Visit((stack \ {cur}) \cup new, visited \cup new, edges)
Reversed(edges) == {<<e[2], e[1]>> : e \in edges}
Joined(R, S) == {<<x[1][1], x[2][2]>> : x \in {y \in R \X S : y[1][2] = y[2][1]}}

path_closure(edges, zero) == UNION {{<<s, n>> : n \in Visit({s}, {}, edges)} : s \in {e[1] : e \in edges}} \cup zero

(* `nodes` are the ones a reflexive path relates to themselves.            *)
RECURSIVE pairs(_, _)
pairs(path, nodes) ==
    LET zero == {<<n, n>> : n \in nodes}
    IN  CASE path.path = "Iri" -> {<<t.s, t.o>> : t \in {x \in DataTriples : x.p = path.iri}}
          [] path.path = "Inverse" -> Reversed(pairs(path.inner, nodes))
          [] path.path = "Sequence" ->
                LET first == pairs(path.steps[1], nodes)
                IN  IF Len(path.steps) = 1 THEN first
                    ELSE Joined(first, pairs([path EXCEPT !.steps = Tail(@)], nodes))
          [] path.path = "Alternative" -> UNION {pairs(b, nodes) : b \in Range(path.branches)}
          [] path.path = "ZeroOrOne" -> pairs(path.inner, nodes) \cup zero
          [] path.path = "OneOrMore" -> path_closure(pairs(path.inner, nodes), {})
          [] path.path = "ZeroOrMore" -> path_closure(pairs(path.inner, nodes), zero)

values_from(n, path) ==
    IF path.path = "Iri" THEN path_values(n, path.iri)
    ELSE {e[2] : e \in {x \in pairs(path, DataNodes) : x[1] = n}}
values_for(n, path) == IF path = NoPath THEN {n} ELSE values_from(n, path)

-----------------------------------------------------------------------------
(* Classes.                                                                *)

SubClassEdges == pairs([path |-> "Iri", iri |-> Iri("subClassOf")], {})
class_and_subclasses(c) == Visit({c}, {c}, Reversed(SubClassEdges))
class_target_instances(c) ==
    {t.s : t \in {x \in DataTriples : x.p = Iri("type") /\ x.o \in class_and_subclasses(c)}}
is_instance_of_class_or_subclass(v, c) ==
    LET types == path_values(v, Iri("type")) IN c \in Visit(types, types, SubClassEdges)

-----------------------------------------------------------------------------
(* Tests on one value.                                                     *)

matches_node_kind(t, kinds) ==
    (CASE Kind(t) = "iri" -> "iri" [] Kind(t) = "bnode" -> "bnode" [] OTHER -> "literal") \in kinds
has_datatype(t, dt) == eval_fn_datatype(t) = dt /\ is_well_formed_lexical(t)

(* A blank node has no lexical form and fails every test of one.           *)
lexical_form(t) == graph_element_to_string(t)
HasLength(t, from, to) ==
    lexical_form(t) # "none" /\ Len(lexical_form(t)) >= from /\ (to = -1 \/ Len(lexical_form(t)) <= to)
regex_with_flags(arg) == IF Len(arg) = 1 THEN "" ELSE arg[2]
MatchesPattern(t, arg) == lexical_form(t) # "none" /\ is_match(arg[1], regex_with_flags(arg), lexical_form(t))
lang_matches(tags, lang) ==
    \E i \in 1..Len(tags) : to_lowercase(tags[i]) = to_lowercase(lang)
                            \/ 1 \in At(to_lowercase(lang), to_lowercase(tags[i]) \o "-")
Language(t) == IF Kind(t) = "lang" THEN to_lowercase(t[3]) ELSE "none"
Languages(values) == {Language(v) : v \in values} \ {"none"}

(* Bounds: a text that reads as a number counts as one.                    *)
lit_to_comparable(t) == IF IsNum(t) THEN t ELSE None
bound_to_comparable(t) ==
    CASE IsNum(t) -> t
      [] IsLiteral(t) /\ ~ IsNum(t) -> IF t[2] \in DOMAIN LexicalInteger THEN IntLit(LexicalInteger[t[2]]) ELSE None
      [] OTHER -> None
RangeOperator == [minInclusive |-> ">=", maxInclusive |-> "<=", minExclusive |-> ">", maxExclusive |-> "<"]

(* Mutant: what cannot be compared is skipped.                             *)
SkipsIncomparable(bound, v, op) ==
    None \notin {bound, v} /\ ~ Ordered(op, compare_graph_elements(v, bound))

range_violates(bound, v, op) ==
    None \in {bound, v} \/ ~ Ordered(op, compare_graph_elements(v, bound))

(* sh:lessThan compares as SPARQL does, except for the spelling of         *)
(* booleans.                                                               *)
sparql_cmp_value(t) == CASE IsNum(t) \/ Kind(t) \in StringKinds -> t
                         [] IsBoolean(t) -> IF t[2] \in {"true", "false"} THEN t ELSE None
                         [] OTHER -> None
sparql_compare(a, b) ==
    IF None \in {sparql_cmp_value(a), sparql_cmp_value(b)} THEN Incomparable ELSE compare_graph_elements(a, b)

-----------------------------------------------------------------------------
(* Does a node conform to a shape that another shape refers to?            *)

RECURSIVE shape_conforms_for_node(_, _)
CountConforming(v, ids) == Cardinality({i \in 1..Len(ids) : shape_conforms_for_node(v, ids[i])})

(* sh:not, sh:and, sh:or and sh:xone hold for each of the values.          *)
prop_combinators_conform(c, values) ==
    \A v \in values :
        /\ c.negated = <<>> \/ CountConforming(v, c.negated) = 0
        /\ CountConforming(v, c.all) = Len(c.all)
        /\ c.any = <<>> \/ CountConforming(v, c.any) > 0
        /\ c.one = <<>> \/ CountConforming(v, c.one) = 1

constraint_conforms(c, n, values) ==
    LET arg == c[2]
        All(Test(_)) == \A v \in values : Test(v)
        others == path_values(n, arg)
    IN  CASE c[1] = "minCount" -> Cardinality(values) >= arg
          [] c[1] = "maxCount" -> Cardinality(values) <= arg
          [] c[1] = "class" -> All(LAMBDA v : is_instance_of_class_or_subclass(v, arg))
          [] c[1] = "datatype" -> All(LAMBDA v : has_datatype(v, arg))
          [] c[1] = "nodeKind" -> All(LAMBDA v : matches_node_kind(v, arg))
          [] c[1] = "hasValue" -> arg \in values
          [] c[1] = "in" -> values \subseteq Range(arg)
          [] c[1] = "minLength" -> All(LAMBDA v : HasLength(v, arg, -1))
          [] c[1] = "maxLength" -> All(LAMBDA v : HasLength(v, 0, arg))
          [] c[1] = "pattern" -> arg[1] \notin Regexes \/ All(LAMBDA v : MatchesPattern(v, arg))
          [] c[1] = "languageIn" -> All(LAMBDA v : Kind(v) = "lang" /\ lang_matches(arg, v[3]))
          [] c[1] = "uniqueLang" -> \A v, w \in values : v # w /\ Language(v) # "none" => Language(v) # Language(w)
          [] c[1] = "equals" -> values = others
          [] c[1] = "disjoint" -> values \cap others = {}
          [] c[1] \in {"lessThan", "lessThanOrEquals"} ->
                \A v \in values, o \in others :
                    sparql_compare(v, o) \in (IF c[1] = "lessThan" THEN {-1} ELSE {-1, 0})
          [] c[1] \in DOMAIN RangeOperator ->
                All(LAMBDA v : ~ range_violates(bound_to_comparable(arg), lit_to_comparable(v), RangeOperator[c[1]]))
          [] c[1] = "node" -> All(LAMBDA v : shape_conforms_for_node(v, arg))
          [] c[1] = "qualifiedValueShape" ->
                LET k == Cardinality({v \in values : shape_conforms_for_node(v, arg.id)})
                IN  k >= arg.min /\ (arg.max = -1 \/ k <= arg.max)

shape_conforms_for_node(n, id) ==
    LET s == parsed[id]
        Holds(cs, path) == \A c \in Range(cs) : constraint_conforms(c, n, values_for(n, path))
    IN  s.deactivated \/
        /\ \A k \in Range(s.node_kind) : matches_node_kind(n, k[2])
        /\ \A p \in Range(s.property_shapes) :
              p.deactivated \/ (/\ Holds(p.constraints, p.path)
                                /\ prop_combinators_conform(p.combinators, values_for(n, p.path)))
        /\ Holds(s.node_constraints, NoPath)
        /\ prop_combinators_conform(s.combinators, {n})

-----------------------------------------------------------------------------
(* Violations of a shape with targets.  A violation is a quad of the       *)
(* working store: graph, focus node, a predicate made for the shape, the   *)
(* property and the constraint, and the offending value.                   *)

Nil == Iri("urn:nil")
TrueMark == Iri("urn:true")
NodeLevelBase == 1000       \* NODE_LEVEL_PI_BASE
LogicalPi == -1
NodeKindPi == -2
Viol(si, pi, kind, pred) == [si |-> si, pi |-> pi, kind |-> kind, pred |-> pred]
Fact(g, n, viol, v) == [g |-> g, n |-> n, viol |-> viol, v |-> v]
DefaultFact(n, viol, v) == Fact(Iri("default"), n, viol, v)

ActiveProps(s) == {p \in Range(s.property_shapes) : ~ p.deactivated}

(* A value that also conforms to a sibling does not count.                 *)
eval_qualified_value(arg, values, siblings) ==
    LET k == Cardinality({v \in values : /\ shape_conforms_for_node(v, arg.id)
                                          /\ \A id \in siblings : ~ shape_conforms_for_node(v, id)})
    IN  (IF k < arg.min THEN {<<"qualifiedMinCount", Nil>>} ELSE {})
        \cup (IF arg.max # -1 /\ k > arg.max THEN {<<"qualifiedMaxCount", Nil>>} ELSE {})

(* sh:qualifiedValueShapesDisjoint: the qualified shapes of the shape's    *)
(* other properties with this path.                                        *)
SiblingShapes(s, p, arg) ==
    IF ~ arg.disjoint THEN {}
    ELSE UNION {{c[2].id : c \in {d \in Range(o.constraints) : d[1] = "qualifiedValueShape"}}
                : o \in {x \in Range(s.property_shapes) : x.path = p.path /\ x.idx # p.idx}} \ {arg.id}

(* One violation per value, per language used twice, or per bound.         *)
eval_prop_constraint(c, n, values, siblings) ==
    LET arg == c[2]
        Of(bad) == {<<c[1], v>> : v \in bad}
        others == path_values(n, arg)
        Tagged(l) == {v \in values : Language(v) = l}
        repeated == {l \in Languages(values) : Cardinality(Tagged(l)) > 1}
    IN  CASE c[1] = "minLength" -> Of({v \in values : ~ HasLength(v, arg, -1)})
          [] c[1] = "maxLength" -> Of({v \in values : ~ HasLength(v, 0, arg)})
          [] c[1] = "uniqueLang" -> Of({CHOOSE v \in Tagged(l) : TRUE : l \in repeated})
          [] c[1] = "equals" -> Of((values \ others) \cup (others \ values))
          [] c[1] = "disjoint" -> Of(values \cap others)
          [] c[1] = "node" -> Of({v \in values : ~ shape_conforms_for_node(v, arg)})
          [] c[1] = "qualifiedValueShape" -> eval_qualified_value(arg, values, siblings)
          [] OTHER -> {}

(* The four logical constraints, on the values of a property or on the     *)
(* focus node.                                                             *)
eval_prop_combinators(c, values) ==
    LET Of(kind, ids, Good(_)) ==
            {<<kind, v>> : v \in {x \in values : ids # <<>> /\ ~ Good(CountConforming(x, ids))}}
    IN  Of("not", c.negated, LAMBDA k : k = 0) \cup Of("or", c.any, LAMBDA k : k > 0)
        \cup Of("and", c.all, LAMBDA k : k = Len(c.all)) \cup Of("xone", c.one, LAMBDA k : k = 1)

(* What is checked of a shape: its properties' constraints on the values   *)
(* of the path, its own on the focus node.                                 *)
Check(pi, path, c, siblings) == [pi |-> pi, path |-> path, c |-> c, siblings |-> siblings]
ConstraintChecks(s) ==
    UNION {{Check(p.idx, p.path, c, IF c[1] = "qualifiedValueShape" THEN SiblingShapes(s, p, c[2]) ELSE {})
            : c \in Range(p.constraints)} : p \in ActiveProps(s)}
    \cup {Check(NodeLevelBase + i, NoPath, s.node_constraints[i], {}) : i \in 1..Len(s.node_constraints)}
LogicalChecks(s) ==
    {Check(p.idx, p.path, p.combinators, {}) : p \in ActiveProps(s)} \cup {Check(LogicalPi, NoPath, s.combinators, {})}
eval_all(si, s, targets) ==
    LET Facts(n, k, found) == {DefaultFact(n, Viol(si, k.pi, f[1], None), f[2]) : f \in found}
    IN  UNION {Facts(n, k, eval_prop_constraint(k.c, n, values_for(n, k.path), k.siblings))
               : n \in targets, k \in ConstraintChecks(s)}
        \cup UNION {Facts(n, k, eval_prop_combinators(k.c, values_for(n, k.path)))
                    : n \in targets, k \in LogicalChecks(s)}

(* sh:closed: one violation predicate for each predicate that is not       *)
(* allowed.                                                                *)
closed_violations(si, s, targets) ==
    IF ~ s.closed.on THEN {}
    ELSE {DefaultFact(t.s, Viol(si, LogicalPi, "closed", t.p), t.o)
          : t \in {x \in DataTriples : x.s \in targets /\ x.p \notin s.closed.allowed}}
=============================================================================
