----------------------------- MODULE SparqlPlan -----------------------------
(***************************************************************************)
(* The order in which a group graph pattern's components are evaluated     *)
(* (component_ordering.rs), what EXPLAIN reports of it (explain.rs), and   *)
(* the walks over a query's components that do not evaluate it.            *)
(*                                                                         *)
(* A component is a record whose field op is its QueryComponent variant;   *)
(* an expression is a record whose field expr is its Expression variant.   *)
(***************************************************************************)
EXTENDS SparqlPatterns

where_clause_of(query) == query.clause

NonFilters(clause) == SelectSeq(clause, LAMBDA c : c.op # "Filter")
Filters(clause) == SelectSeq(clause, LAMBDA c : c.op = "Filter")

-----------------------------------------------------------------------------
(* Variables of a component.  A Bind counts for its alias only, not for    *)
(* the variables its expression reads.                                     *)

RECURSIVE collect_component_vars(_)
RECURSIVE collect_expr_vars(_)

variables_in_components(clause) == UNION {collect_component_vars(c) : c \in Range(clause)}

collect_component_vars(c) ==
    CASE c.op = "BGP" -> UNION {pattern_variables(tp) : tp \in Range(c.patterns)}
      [] c.op = "PathPattern" -> term_variables(c.s) \cup term_variables(c.o)
      [] c.op = "Union" -> variables_in_components(c.left \o c.right)
      [] c.op \in {"Optional", "Minus", "Service", "Group"} -> variables_in_components(c.inner)
      [] c.op = "Graph" -> term_variables(c.term) \cup variables_in_components(c.inner)
      [] c.op = "Values" -> Range(c.vars)
      [] c.op = "Bind" -> {c.alias}
      [] c.op = "Filter" -> collect_expr_vars(c.condition)
      [] c.op = "Subquery" -> variables_in_components(where_clause_of(c.query))

collect_expr_vars(e) ==
    CASE e.expr = "Variable" -> {e.name}
      [] e.expr = "Binary" -> collect_expr_vars(e.left) \cup collect_expr_vars(e.right)
      [] e.expr = "Unary" -> collect_expr_vars(e.arg)
      [] e.expr = "FunctionCall" -> UNION {collect_expr_vars(a) : a \in Range(e.args)}
      [] e.expr = "In" -> collect_expr_vars(e.arg) \cup UNION {collect_expr_vars(a) : a \in Range(e.list)}
      [] e.expr \in {"Exists", "NotExists"} -> variables_in_components(e.inner)
      [] OTHER -> {}

(* Variables bound in every solution.  A component that may leave a        *)
(* variable unbound promises nothing.                                      *)
RECURSIVE must_bind_vars(_)
must_bind_sequence(clause) == UNION {must_bind_vars(c) : c \in Range(clause)}
must_bind_vars(c) ==
    CASE c.op \in {"BGP", "PathPattern"} -> collect_component_vars(c)
      [] c.op = "Union" -> must_bind_sequence(c.left) \cap must_bind_sequence(c.right)
      [] c.op = "Graph" -> must_bind_sequence(c.inner) \cup (IF IsVar(c.term) THEN {c.term[2]} ELSE {})
      [] c.op = "Group" -> must_bind_sequence(c.inner)
      [] c.op = "Values" -> {c.vars[i] : i \in {j \in 1..Len(c.vars) :
                                \A row \in Range(c.rows) : j <= Len(row) /\ row[j] # None}}
      [] OTHER -> {}

-----------------------------------------------------------------------------
(* Reordering.                                                             *)

should_reorder(clause) ==
    Len(clause) >= 2 /\ \E c \in Range(clause) : c.op \in {"Union", "Optional", "Minus"}

is_hard_barrier(c) == c.op \in {"Filter", "Bind", "Service"}
is_soft_barrier(c) == c.op \in {"Optional", "Minus"}
is_barrier(c) == is_hard_barrier(c) \/ is_soft_barrier(c)

(* Mutant: counts what the barrier must bind, not what it may bind.        *)
BarrierMustBindVars(c, guaranteed) == must_bind_vars(c) \ guaranteed

barrier_internal_only_vars(c, guaranteed) == collect_component_vars(c) \ guaranteed

connectedness(c, bound) == Cardinality(collect_component_vars(c) \cap bound)

(* usize::MAX, larger than any count of the model.                         *)
MaxCardinality == 1000
Saturated(n) == IF n > MaxCardinality THEN MaxCardinality ELSE n

RECURSIVE estimate_cardinality(_)
estimate_sequence(clause) ==
    IF clause = <<>> THEN MaxCardinality
    ELSE Min({estimate_cardinality(c) : c \in Range(clause)})
estimate_cardinality(c) ==
    CASE c.op = "BGP" -> IF c.patterns = <<>> THEN MaxCardinality
                         ELSE Min({cardinality_and_index(tp) : tp \in Range(c.patterns)})
      [] c.op = "Union" -> Saturated(estimate_sequence(c.left) + estimate_sequence(c.right))
      [] c.op = "Values" -> Len(c.rows)
      [] c.op = "Graph" -> estimate_sequence(c.inner)
      [] OTHER -> MaxCardinality

(* Most connected, then smallest, then earliest.                           *)
BestScore(score) ==
    LET Better(s, t) == s[1] > t[1] \/ (s[1] = t[1] /\ s[2] < t[2])
    IN  CHOOSE i \in DOMAIN score :
            \A j \in DOMAIN score \ {i} :
                Better(score[i], score[j]) \/ (i < j /\ ~ Better(score[j], score[i]))
pick_best(run, bound) ==
    BestScore([i \in 1..Len(run) |-> <<connectedness(run[i], bound), estimate_cardinality(run[i])>>])

RECURSIVE Greedy(_, _)
GreedyAfter(run, best, bound) ==
    <<run[best]>> \o Greedy(RemoveAt(run, best), bound \cup collect_component_vars(run[best]))
Greedy(run, bound) == IF run = <<>> THEN <<>> ELSE GreedyAfter(run, pick_best(run, bound), bound)

flush_run(run, bound) ==
    IF Len(run) >= 2 /\ \E c \in Range(run) : c.op = "Union" THEN Greedy(run, bound) ELSE run

(* The components from i on; `pending` is the run in front of them.  A     *)
(* soft barrier lets the conjuncts behind it that do not touch what it     *)
(* alone may bind go first.                                                *)
RECURSIVE OrderFrom(_, _, _, _, _)
OrderFrom(clause, i, pending, bound, guaranteed) ==
    LET flushed == flush_run(pending, bound)
        bound1 == bound \cup variables_in_components(pending)
        c == clause[i]
        before == guaranteed \cup must_bind_sequence(SubSeq(clause, 1, i - 1))
        internal == barrier_internal_only_vars(c, before)
        nexts == {j \in (i + 1)..Len(clause) : is_barrier(clause[j])}
        stop == IF nexts = {} THEN Len(clause) + 1 ELSE Min(nexts)
        behind == SubSeq(clause, i + 1, stop - 1)
        Independent(d) == collect_component_vars(d) \cap internal = {}
        hoisted == SelectSeq(behind, Independent)
        leftover == SelectSeq(behind, LAMBDA d : ~ Independent(d))
        bound2 == bound1 \cup variables_in_components(hoisted)
    IN  IF i > Len(clause) THEN flushed
        ELSE IF is_hard_barrier(c)
        THEN flushed \o <<c>> \o
             OrderFrom(clause, i + 1, <<>>, bound1 \cup collect_component_vars(c), guaranteed)
        ELSE IF is_soft_barrier(c)
        THEN flushed \o flush_run(hoisted, bound1) \o <<c>> \o
             OrderFrom(clause, stop, leftover, bound2 \cup collect_component_vars(c), guaranteed)
        ELSE OrderFrom(clause, i + 1, Append(pending, c), bound, guaranteed)

order_components(clause, bound, guaranteed) == OrderFrom(clause, 1, <<>>, bound, guaranteed)

(* What the evaluation of a group runs: the filters always last.           *)
GuaranteedBound(rows) == IF rows = <<>> THEN {} ELSE {v \in Bound(rows[1]) : \A r \in Range(rows) : v \in Bound(r)}
OrderedComponents(clause, bound, guaranteed) ==
    LET rest == NonFilters(clause)
    IN  (IF should_reorder(rest) THEN order_components(rest, bound, guaranteed) ELSE rest)
        \o Filters(clause)

-----------------------------------------------------------------------------
(* EXPLAIN: the same orders, computed from what must be bound instead of   *)
(* from the solutions at hand.                                             *)

RECURSIVE explain_components_with_bound(_, _)
(* Mutant: forgets what the components before have bound.                  *)
ExplainFromScratch(c, bound) ==
    IF c.op = "BGP" THEN [op |-> "BGP", patterns |-> order_patterns(c.patterns, {})] ELSE [op |-> c.op]

explain_component(c, bound) ==
    CASE c.op = "BGP" -> [op |-> "BGP", patterns |-> order_patterns(c.patterns, bound)]
      [] c.op \in {"Optional", "Graph"} ->
            [op |-> c.op, children |-> explain_components_with_bound(c.inner, bound)]
      [] c.op \in {"Minus", "Group"} ->
            [op |-> c.op, children |-> explain_components_with_bound(c.inner, {})]
      [] c.op = "Union" -> [op |-> c.op, left |-> explain_components_with_bound(c.left, {}),
                            right |-> explain_components_with_bound(c.right, {})]
      [] c.op = "Subquery" ->
            [op |-> c.op, children |-> explain_components_with_bound(where_clause_of(c.query), {})]
      [] OTHER -> [op |-> c.op]

explain_components_with_bound(clause, inherited) ==
    LET ordered == OrderedComponents(clause, inherited, inherited)
    IN  [i \in 1..Len(ordered) |->
            explain_component(ordered[i], inherited \cup must_bind_sequence(SubSeq(ordered, 1, i - 1)))]

explain_query(query) == explain_components_with_bound(where_clause_of(query), {})

-----------------------------------------------------------------------------
(* Walks.                                                                  *)

is_internal_variable(v) == v \in BridgeNames
VisibleOf(t) == IF IsVar(t) /\ ~ is_internal_variable(t[2]) THEN {t[2]} ELSE {}

(* What SELECT * projects.  MINUS counts although nothing of it is in      *)
(* scope; a variable inside a triple term does not.                        *)
RECURSIVE collect_vars_from_components(_)
VarsFromComponent(c) ==
    CASE c.op = "BGP" -> UNION {UNION {VisibleOf(t) : t \in Range(Positions(tp))} : tp \in Range(c.patterns)}
      [] c.op = "PathPattern" -> VisibleOf(c.s) \cup VisibleOf(c.o)
      [] c.op = "Subquery" ->
            IF c.query.form # "Select" THEN {}
            ELSE {e.var : e \in {f \in Range(c.query.projection) : f.elem # "Star"}}
      [] c.op \in {"Optional", "Minus", "Group", "Service"} -> collect_vars_from_components(c.inner)
      [] c.op = "Union" -> collect_vars_from_components(c.left \o c.right)
      [] c.op = "Graph" -> VisibleOf(c.term) \cup collect_vars_from_components(c.inner)
      [] c.op = "Bind" -> {c.alias}
      [] c.op = "Filter" -> {}
      [] c.op = "Values" -> {v \in Range(c.vars) : ~ is_internal_variable(v)}
collect_vars_from_components(clause) == UNION {VarsFromComponent(c) : c \in Range(clause)}

projection_variables(projection, clause) ==
    IF \E e \in Range(projection) : e.elem = "Star" THEN collect_vars_from_components(clause)
    ELSE {e.var : e \in Range(projection)}

(* Every SERVICE of a query, wherever it is nested except inside another.  *)
RECURSIVE collect_service_nodes(_)
collect_service_nodes(clause) ==
    UNION {CASE c.op = "Service" -> {c}
             [] c.op \in {"Optional", "Minus", "Group", "Graph"} -> collect_service_nodes(c.inner)
             [] c.op = "Union" -> collect_service_nodes(c.left \o c.right)
             [] c.op = "Subquery" -> collect_service_nodes(where_clause_of(c.query))
             [] OTHER -> {} : c \in Range(clause)}

(* CONSTRUCT WHERE uses its own patterns as the template.                  *)
RECURSIVE collect_bgps_from_components(_)
collect_bgps_from_components(clause) ==
    ConcatAll([i \in 1..Len(clause) |->
        LET c == clause[i]
        IN  CASE c.op = "BGP" -> c.patterns
              [] c.op \in {"Optional", "Minus", "Group", "Graph"} -> collect_bgps_from_components(c.inner)
              [] c.op = "Union" -> collect_bgps_from_components(c.left) \o collect_bgps_from_components(c.right)
              [] OTHER -> <<>>])

-----------------------------------------------------------------------------
(* Is the join graph of the patterns cyclic?  Ears are removed until the   *)
(* edges (the variable sets of the patterns) no longer change.             *)

RECURSIVE ReduceEdges(_)
ReduceEdges(edges) ==
    LET Contained(i) == \E j \in DOMAIN edges \ {i} :
                            /\ edges[i] \subseteq edges[j]
                            /\ edges[i] # edges[j] \/ i < j
        kept == [i \in {k \in DOMAIN edges : ~ Contained(k)} |-> edges[i]]
        Lonely(v) == Cardinality({i \in DOMAIN kept : v \in kept[i]}) = 1
        trimmed == [i \in DOMAIN kept |-> {v \in kept[i] : ~ Lonely(v)}]
        next == [i \in {k \in DOMAIN trimmed : trimmed[k] # {}} |-> trimmed[i]]
    IN  IF next = edges THEN edges ELSE ReduceEdges(next)

bgp_has_cyclic_join_graph(patterns) ==
    LET vars(i) == {t[2] : t \in {u \in Range(Positions(patterns[i])) : IsVar(u)}}
    IN  DOMAIN ReduceEdges([i \in {k \in 1..Len(patterns) : vars(k) # {}} |-> vars(i)]) # {}
=============================================================================
