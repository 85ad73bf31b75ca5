----------------------------- MODULE SparqlEval -----------------------------
(***************************************************************************)
(* Evaluation of group graph patterns, expressions, aggregates and whole   *)
(* queries (execute/components.rs, expressions.rs, functions.rs,           *)
(* aggregates.rs, solutions.rs, mod.rs).                                   *)
(*                                                                         *)
(* A value is a term or None (an error or an unbound variable); the result *)
(* of a condition is "true", "false" or "error".                           *)
(***************************************************************************)
EXTENDS SparqlPlan

CONSTANT PreResolved   \* results of SERVICE calls: a function from service keys to rows

Truth(b) == IF b THEN "true" ELSE "false"
IsTrue(t) == t = "true"

compatible(a, b) == \A v \in Bound(a) \cap Bound(b) : a[v] = b[v]
merge_solutions(outer, inner) == IF compatible(outer, inner) THEN <<outer @@ inner>> ELSE <<>>
JoinRows(outer, inner) ==
    FlatMapRows(LAMBDA a : FlatMapRows(LAMBDA b : merge_solutions(a, b), inner), outer)

(* A row of VALUES binds the variables it gives a value.                   *)
ValuesRow(vars, row) ==
    [v \in {vars[i] : i \in {j \in 1..Len(vars) : row[j] # None}} |->
        row[CHOOSE i \in 1..Len(vars) : vars[i] = v]]
join_solutions_with_values(rows, vars, data) ==
    LET usable == SelectSeq(data, LAMBDA d : Len(d) = Len(vars))
    IN  JoinRows(rows, [i \in 1..Len(usable) |-> ValuesRow(vars, usable[i])])

(* Groups, expressions and subqueries call each other; all of these calls  *)
(* go through Evaluate, which is told what to evaluate.                    *)
RECURSIVE Evaluate(_, _, _)
eval_components_budgeted(clause, rows, budget, ag) == Evaluate("group", <<clause, rows, budget>>, ag)
eval_expression_value_inner(e, row) == Evaluate("value", <<e, row>>, DefaultGraph)
eval_expression_bool(e, row, ag) == Evaluate("condition", <<e, row>>, ag)
execute_select_inner(q, ag) == Evaluate("select", <<q>>, ag)
EvalComponent(c, rows, budget, ag) == Evaluate("component", <<c, rows, budget>>, ag)
RunInOrder(ordered, rows, budget, ag) == Evaluate("components", <<ordered, rows, budget>>, ag)
eval_expr_in_group(e, group) == Evaluate("grouped", <<e, group>>, DefaultGraph)
eval_having_bool(e, group) == Evaluate("having", <<e, group>>, DefaultGraph)
SelectAnswer(q, solutions) == Evaluate("answer", <<q, solutions>>, DefaultGraph)

-----------------------------------------------------------------------------
(* Expressions.                                                            *)

ToTruth(t) == IF IsBoolean(t) THEN Truth(element_to_bool(t)) ELSE "error"

eval_fn_if(args, row) ==
    LET c == eval_expression_value_inner(args[1], row)
    IN  IF ~ IsBoolean(c) THEN None
        ELSE eval_expression_value_inner(args[IF element_to_bool(c) THEN 2 ELSE 3], row)

eval_fn_coalesce(args, row) ==
    LET good == {i \in 1..Len(args) : eval_expression_value_inner(args[i], row) # None}
    IN  IF good = {} THEN None ELSE eval_expression_value_inner(args[Min(good)], row)

Casts == {"xsd:string", "xsd:boolean", "xsd:integer", "xsd:decimal", "xsd:double", "xsd:float"}
eval_function_value(name, args, row) ==
    LET val(i) == eval_expression_value_inner(args[i], row)
    IN  CASE name = "COALESCE" -> eval_fn_coalesce(args, row)
          [] name = "IF" -> eval_fn_if(args, row)
          [] name \notin {"COALESCE", "IF"} /\ \E i \in 1..Len(args) : val(i) = None -> None
          [] OTHER ->
                CASE name \in Casts -> eval_xsd_cast(name, val(1))
                  [] name \in StringFunctions -> StringFunction(name, [i \in 1..Len(args) |-> val(i)])
                  [] name = "STR" -> eval_fn_str(val(1))
                  [] name = "LANG" -> eval_fn_lang(val(1))
                  [] name = "DATATYPE" -> eval_fn_datatype(val(1))
                  [] name = "ISNUMERIC" -> eval_fn_isnumeric(val(1))
                  [] name = "SAMETERM" -> Bool(val(1) = val(2))
                  [] name = "ABS" -> eval_fn_abs(val(1))
                  [] name = "ROUND" -> eval_fn_round(val(1))
                  [] name = "CEIL" -> eval_fn_ceil(val(1))
                  [] name = "FLOOR" -> eval_fn_floor(val(1))
                  [] OTHER -> None

(* Functions of several texts: an argument without one is an error.        *)
TextCondition(name, ts) ==
    LET text(i) == graph_element_to_string(ts[i])
        flags == IF Len(ts) < 3 \/ text(Len(ts)) = "none" THEN "" ELSE text(3)
    IN  IF None \in {ts[i] : i \in 1..Len(ts)} \/ "none" \in {text(1), text(2)} THEN "error"
        ELSE CASE name = "LANGMATCHES" -> Truth(eval_langmatches(text(1), text(2)))
               [] name = "REGEX" -> IF text(2) \notin Regexes THEN "error"
                                    ELSE Truth(is_match(text(2), flags, text(1)))

(* These exist as conditions only.                                         *)
eval_function_bool(name, args, row) ==
    LET val == eval_expression_value_inner(args[1], row)
    IN  CASE name = "BOUND" ->
                IF args[1].expr = "Variable" THEN Truth(args[1].name \in Bound(row)) ELSE "error"
          [] name \in {"ISIRI", "ISBLANK", "ISLITERAL"} ->
                IF val = None THEN "error"
                ELSE Truth(CASE name = "ISIRI" -> Kind(val) = "iri"
                             [] name = "ISBLANK" -> Kind(val) = "bnode"
                             [] name = "ISLITERAL" -> IsLiteral(val))
          [] name = "IS_LEXICALLY_VALID" -> IF val = None THEN "error" ELSE Truth(is_well_formed_lexical(val))
          [] name \in {"REGEX", "LANGMATCHES"} ->
                TextCondition(name, [i \in 1..Len(args) |-> eval_expression_value_inner(args[i], row)])
          [] OTHER -> ToTruth(eval_function_value(name, args, row))

Arithmetic == {"+", "-", "*", "/"}
ExpressionValue(e, row) ==
    CASE e.expr = "Variable" -> IF e.name \in Bound(row) THEN row[e.name] ELSE None
      [] e.expr = "Constant" -> e.value
      [] e.expr = "FunctionCall" -> eval_function_value(e.name, e.args, row)
      [] e.expr = "Binary" /\ e.op \in Arithmetic ->
            eval_binary_value(eval_expression_value_inner(e.left, row), e.op,
                              eval_expression_value_inner(e.right, row))
      [] \/ e.expr = "Binary" /\ e.op \notin Arithmetic
         \/ e.expr = "Unary" /\ e.op = "!" ->
            LET b == eval_expression_bool(e, row, DefaultGraph)
            IN  IF b = "error" THEN None ELSE Bool(IsTrue(b))
      [] e.expr = "Unary" /\ e.op = "+" -> eval_expression_value_inner(e.arg, row)
      [] e.expr = "Unary" /\ e.op = "-" -> arithmetic_negate(eval_expression_value_inner(e.arg, row))
      [] OTHER -> None

Ordered(op, ord) ==
    CASE op = "<" -> ord < 0 [] op = ">" -> ord > 0 [] op = "<=" -> ord <= 0 [] op = ">=" -> ord >= 0
      [] op = "=" -> ord = 0 [] op = "!=" -> ord # 0

InList(val, list, row) ==
    \E i \in 1..Len(list) : LET v == eval_expression_value_inner(list[i], row)
                            IN  v # None /\ values_equal(v, val)

(* An error inside && , || or ! counts as false.                           *)
ExpressionTruth(e, row, ag) ==
    LET sub(x) == IsTrue(eval_expression_bool(x, row, ag))
        l == eval_expression_value_inner(e.left, row)
        r == eval_expression_value_inner(e.right, row)
        arg == eval_expression_value_inner(e.arg, row)
        nonempty == eval_components_budgeted(e.inner, <<row>>, 1, ag) # <<>>
    IN  CASE e.expr = "Binary" /\ e.op = "&&" -> Truth(sub(e.left) /\ sub(e.right))
          [] e.expr = "Binary" /\ e.op = "||" -> Truth(sub(e.left) \/ sub(e.right))
          [] e.expr = "Binary" /\ e.op \in {"=", "!="} ->
                IF None \in {l, r} THEN "error" ELSE Truth(values_equal(l, r) = (e.op = "="))
          [] e.expr = "Binary" /\ e.op \in {"<", ">", "<=", ">="} ->
                IF None \in {l, r} \/ compare_graph_elements(l, r) = Incomparable THEN "error"
                ELSE Truth(Ordered(e.op, compare_graph_elements(l, r)))
          [] e.expr = "Binary" /\ e.op \in Arithmetic -> "error"
          [] e.expr = "Unary" /\ e.op = "!" -> Truth(~ sub(e.arg))
          [] e.expr \in {"In", "NotIn"} ->
                IF arg = None THEN "error" ELSE Truth(InList(arg, e.list, row) = (e.expr = "In"))
          [] e.expr = "FunctionCall" -> eval_function_bool(e.name, e.args, row)
          [] e.expr \in {"Exists", "NotExists"} -> Truth(nonempty = (e.expr = "Exists"))
          [] OTHER -> ToTruth(eval_expression_value_inner(e, row))

eval_filter(e, row, ag) == IsTrue(eval_expression_bool(e, row, ag))

-----------------------------------------------------------------------------
(* Group graph patterns.                                                   *)

eval_components(clause, rows, ag) == eval_components_budgeted(clause, rows, Unlimited, ag)

(* UNION arms and nested groups are evaluated on their own and joined.     *)
eval_independent_then_join(inner, rows, ag) == JoinRows(rows, eval_components(inner, <<EmptyRow>>, ag))

(* Mutant: drops a solution its OPTIONAL does not extend.                  *)
OptionalAsJoin(inner, row, ag) == eval_components(inner, <<row>>, ag)

EvalOptional(inner, row, ag) ==
    LET extended == eval_components(inner, <<row>>, ag)
    IN  IF extended = <<>> THEN <<row>> ELSE extended

EvalMinus(inner, rows, ag) ==
    LET vars == variables_in_components(inner)
        removed == eval_components(inner, <<EmptyRow>>, ag)
        Excluded(row) == \E m \in Range(removed) : compatible(row, m) /\ Bound(row) \cap Bound(m) # {}
    IN  SelectSeq(rows, LAMBDA row : Bound(row) \cap vars = {} \/ ~ Excluded(row))

(* GRAPH over a constant no quad ever mentioned gives nothing.             *)
EvalGraph(term, inner, row, ag) ==
    CASE IsVar(term) ->
            LET scoped == IF term[2] \in Bound(row) /\ row[term[2]] \in store.known
                          THEN FixedGraph(row[term[2]]) ELSE VariableGraph(term[2])
            IN  eval_components(inner, <<row>>, scoped)
      [] IsTripleTerm(term) -> <<>>
      [] OTHER -> IF term \in store.known THEN eval_components(inner, <<row>>, FixedGraph(term)) ELSE <<>>

EvalBind(e, alias, row) ==
    LET val == eval_expression_value_inner(e, row)
    IN  IF val = None THEN row ELSE Insert(row, alias, val)

service_key(c) == IF Kind(c.endpoint) = "iri" THEN <<c.endpoint, c.inner>> ELSE <<>>
EvalService(c, rows) ==
    IF service_key(c) \in DOMAIN PreResolved THEN JoinRows(rows, PreResolved[service_key(c)]) ELSE <<>>

eval_component(c, rows, budget, ag) ==
    CASE c.op = "BGP" -> eval_bgp(c.patterns, rows, budget, ag)
      [] c.op = "PathPattern" -> FlatMapRows(LAMBDA r : eval_path_pattern(c.s, c.path, c.o, r, ag), rows)
      [] c.op = "Subquery" -> JoinRows(rows, execute_select_inner(c.query, ag))
      [] c.op = "Filter" -> SelectSeq(rows, LAMBDA r : eval_filter(c.condition, r, ag))
      [] c.op = "Optional" -> FlatMapRows(LAMBDA r : EvalOptional(c.inner, r, ag), rows)
      [] c.op = "Union" -> eval_independent_then_join(c.left, rows, ag)
                           \o eval_independent_then_join(c.right, rows, ag)
      [] c.op = "Group" -> eval_independent_then_join(c.inner, rows, ag)
      [] c.op = "Minus" -> EvalMinus(c.inner, rows, ag)
      [] c.op = "Graph" -> FlatMapRows(LAMBDA r : EvalGraph(c.term, c.inner, r, ag), rows)
      [] c.op = "Bind" -> [i \in 1..Len(rows) |-> EvalBind(c.value, c.alias, rows[i])]
      [] c.op = "Values" -> join_solutions_with_values(rows, c.vars, c.rows)
      [] c.op = "Service" -> EvalService(c, rows)

(* Left to right over the chosen order; only the last component may stop   *)
(* early.                                                                  *)
RECURSIVE RunComponents(_, _, _, _)
RunComponents(ordered, rows, budget, ag) ==
    IF ordered = <<>> \/ rows = <<>> THEN rows
    ELSE RunComponents(Tail(ordered),
                       EvalComponent(Head(ordered), rows, IF Len(ordered) = 1 THEN budget ELSE Unlimited, ag),
                       budget, ag)

PlanFor(clause, rows) == OrderedComponents(clause, FirstBound(rows), GuaranteedBound(rows))

GroupSolutions(clause, rows, budget, ag) ==
    IF rows = <<>> THEN <<>> ELSE RunInOrder(PlanFor(clause, rows), rows, budget, ag)

-----------------------------------------------------------------------------
(* Aggregates.                                                             *)

RECURSIVE expr_has_aggregate(_)
expr_has_aggregate(e) ==
    CASE e.expr = "Aggregate" -> TRUE
      [] e.expr = "Binary" -> expr_has_aggregate(e.left) \/ expr_has_aggregate(e.right)
      [] e.expr = "Unary" -> expr_has_aggregate(e.arg)
      [] e.expr = "FunctionCall" -> \E i \in 1..Len(e.args) : expr_has_aggregate(e.args[i])
      [] OTHER -> FALSE
elem_has_aggregate(elem) == elem.elem = "Expression" /\ expr_has_aggregate(elem.value)

GroupKey(row, group_by) == [i \in 1..Len(group_by) |-> eval_expression_value_inner(group_by[i].key, row)]

(* An alias takes the key's value, or is unbound when the key has none.    *)
bind_group_aliases(row, group_by) ==
    LET key == GroupKey(row, group_by)
        I == {i \in 1..Len(group_by) : group_by[i].alias # ""}
        named == {group_by[i].alias : i \in I}
        val(v) == key[CHOOSE i \in I : group_by[i].alias = v]
    IN  [v \in {x \in named : val(x) # None} |-> val(v)] @@ Without(row, named)

(* No GROUP BY makes one group; so does GROUP BY over no solutions.        *)
group_by_solutions(rows, group_by) ==
    IF group_by = <<>> \/ rows = <<>> THEN <<rows>>
    ELSE LET keys == Deduplicated([i \in 1..Len(rows) |-> GroupKey(rows[i], group_by)])
             members(k) == SelectSeq(rows, LAMBDA r : GroupKey(r, group_by) = k)
         IN  [g \in 1..Len(keys) |->
                [i \in 1..Len(members(keys[g])) |-> bind_group_aliases(members(keys[g])[i], group_by)]]

ValuesOf(e, group, distinct) ==
    LET all == SelectSeq([i \in 1..Len(group) |-> eval_expression_value_inner(e, group[i])],
                         LAMBDA t : t # None)
    IN  IF distinct THEN Deduplicated(all) ELSE all

(* COUNT gives a native integer; the others give typed numbers.            *)
eval_aggregate_value(agg, group) ==
    LET vals == ValuesOf(agg.arg, group, agg.distinct)
        all == ValuesOf(agg.arg, group, FALSE)
    IN  CASE agg.name = "CountStar" -> NativeInt(Len(group))
          [] agg.name = "Count" -> NativeInt(Len(vals))
          [] agg.name = "Sum" -> sum_values(vals)
          [] agg.name = "Avg" -> avg_values(vals)
          [] agg.name = "Min" -> ExtremeOf(all, 1)
          [] agg.name = "Max" -> ExtremeOf(all, -1)
          [] agg.name = "Sample" -> IF all = <<>> THEN None ELSE all[1]

Representative(group) == IF group = <<>> THEN EmptyRow ELSE group[1]

GroupedValue(e, group) ==
    CASE e.expr = "Aggregate" -> eval_aggregate_value(e, group)
      [] e.expr = "Binary" -> eval_binary_value(eval_expr_in_group(e.left, group), e.op,
                                                eval_expr_in_group(e.right, group))
      [] OTHER -> eval_expression_value_inner(e, Representative(group))

(* HAVING compares with the order of "<" throughout, also for = and !=.    *)
HavingTruth(e, group) ==
    LET sub(x) == IsTrue(eval_having_bool(x, group))
        l == eval_expr_in_group(e.left, group)
        r == eval_expr_in_group(e.right, group)
    IN  CASE e.expr = "Binary" /\ e.op = "&&" -> Truth(sub(e.left) /\ sub(e.right))
          [] e.expr = "Binary" /\ e.op = "||" -> Truth(sub(e.left) \/ sub(e.right))
          [] e.expr = "Binary" /\ e.op \in {"=", "!=", "<", ">", "<=", ">="} ->
                IF None \in {l, r} \/ compare_graph_elements(l, r) = Incomparable THEN "error"
                ELSE Truth(Ordered(e.op, compare_graph_elements(l, r)))
          [] e.expr = "Binary" /\ e.op \in Arithmetic -> "error"
          [] e.expr = "Unary" /\ e.op = "!" -> Truth(~ sub(e.arg))
          [] OTHER -> eval_expression_bool(e, Representative(group), DefaultGraph)

(* One row per group: plain variables from its first member.               *)
RECURSIVE project_aggregate_row(_, _)
project_aggregate_row(projection, group) ==
    IF projection = <<>> THEN EmptyRow
    ELSE LET p == Head(projection)
             rep == Representative(group)
             val == CASE p.elem = "Variable" -> IF p.var \in Bound(rep) THEN rep[p.var] ELSE None
                      [] p.elem = "Expression" -> eval_expr_in_group(p.value, group)
                      [] p.elem = "Star" -> None
             rest == project_aggregate_row(Tail(projection), group)
         IN  IF val = None THEN rest ELSE rest @@ (p.var :> val)

-----------------------------------------------------------------------------
(* Projection and solution modifiers.                                      *)

(* An expression sees the aliases of the expressions before it.            *)
RECURSIVE ProjectFrom(_, _, _)
ProjectFrom(projection, row, extended) ==
    IF projection = <<>> THEN EmptyRow
    ELSE LET p == Head(projection)
             val == IF p.elem = "Expression" THEN eval_expression_value_inner(p.value, extended) ELSE None
             rest == ProjectFrom(Tail(projection), row, IF val = None THEN extended ELSE Insert(extended, p.var, val))
         IN  CASE p.elem = "Star" -> rest @@ row
               [] p.elem = "Variable" -> IF p.var \in Bound(row) THEN rest @@ (p.var :> row[p.var]) ELSE rest
               [] p.elem = "Expression" -> IF val = None THEN rest ELSE rest @@ (p.var :> val)
project_with_exprs_partial(row, projection) == ProjectFrom(projection, row, row)

(* How many solutions are enough: known only for a plain LIMIT.            *)
select_solution_budget(q) ==
    IF \/ q.limit = Unlimited \/ q.distinct \/ q.order_by # <<>> \/ q.group_by # <<>>
       \/ \E e \in Range(q.projection) : elem_has_aggregate(e)
    THEN Unlimited ELSE q.offset + q.limit

(* ORDER BY sees the projected row; an unbound key sorts first.            *)
CompareKeys(a, b) ==
    CASE a = None /\ b = None -> 0 [] a = None /\ b # None -> -1 [] a # None /\ b = None -> 1
      [] OTHER -> compare_graph_elements_total(a, b)
RECURSIVE Precedes(_, _, _)
Precedes(a, b, order_by) ==
    IF order_by = <<>> THEN FALSE
    ELSE LET c == CompareKeys(eval_expression_value_inner(order_by[1].key, a),
                              eval_expression_value_inner(order_by[1].key, b))
         IN  IF c = 0 THEN Precedes(a, b, Tail(order_by)) ELSE c = (IF order_by[1].ascending THEN -1 ELSE 1)
RECURSIVE InsertStable(_, _, _)
InsertStable(rows, r, order_by) ==
    IF rows = <<>> \/ ~ Precedes(r, rows[Len(rows)], order_by) THEN Append(rows, r)
    ELSE Append(InsertStable(SubSeq(rows, 1, Len(rows) - 1), r, order_by), rows[Len(rows)])
RECURSIVE sort_solutions(_, _)
sort_solutions(rows, order_by) ==
    IF rows = <<>> THEN <<>>
    ELSE InsertStable(sort_solutions(SubSeq(rows, 1, Len(rows) - 1), order_by), rows[Len(rows)], order_by)

Modified(q, rows) ==
    LET sorted == IF q.order_by = <<>> THEN rows ELSE sort_solutions(rows, q.order_by)
        unique == IF q.distinct THEN Deduplicated(sorted) ELSE sorted
    IN  Take(SubSeq(unique, q.offset + 1, Len(unique)), q.limit)

AggregateMode(q) == q.group_by # <<>> \/ \E e \in Range(q.projection) : elem_has_aggregate(e)
ProjectGroups(q, groups) ==
    [i \in 1..Len(groups) |-> project_aggregate_row(q.projection, groups[i])]
ProjectAll(q, solutions) ==
    IF AggregateMode(q)
    THEN ProjectGroups(q, SelectSeq(group_by_solutions(solutions, q.group_by),
                              LAMBDA g : \A h \in Range(q.having) : IsTrue(eval_having_bool(h, g))))
    ELSE [i \in 1..Len(solutions) |-> project_with_exprs_partial(solutions[i], q.projection)]

SelectRows(q, ag) ==
    IF q.form # "Select" THEN <<>>
    ELSE SelectAnswer(q, eval_components_budgeted(q.clause, <<EmptyRow>>, select_solution_budget(q), ag))

Evaluate(what, x, ag) ==
    CASE what = "group" -> GroupSolutions(x[1], x[2], x[3], ag)
      [] what = "value" -> ExpressionValue(x[1], x[2])
      [] what = "condition" -> ExpressionTruth(x[1], x[2], ag)
      [] what = "select" -> SelectRows(x[1], ag)
      [] what = "component" -> eval_component(x[1], x[2], x[3], ag)
      [] what = "components" -> RunComponents(x[1], x[2], x[3], ag)
      [] what = "grouped" -> GroupedValue(x[1], x[2])
      [] what = "having" -> HavingTruth(x[1], x[2])
      [] what = "answer" -> Modified(x[1], ProjectAll(x[1], x[2]))

-----------------------------------------------------------------------------
(* Whole queries.                                                          *)

(* FROM: the first graph the store knows; FROM NAMED is not looked at.     *)
dataset_active_graph(from) ==
    LET known == SelectSeq(from, LAMBDA g : g \in store.known)
    IN  IF known = <<>> THEN DefaultGraph ELSE FixedGraph(known[1])

(* What the network policy makes of the query's SERVICE calls.             *)
NetworkError(q, policy) ==
    LET loud == {c \in collect_service_nodes(q.clause) : ~ c.silent}
    IN  CASE policy = "Deny" -> IF loud # {} THEN "ServiceDenied" ELSE "ok"
          [] policy = "Ignore" -> "ok"
          [] policy = "Allow" -> IF \E c \in loud : service_key(c) \notin DOMAIN PreResolved
                                 THEN "ServiceNotImplemented" ELSE "ok"

Describe(q, solutions) ==
    LET Candidates(row) == IF q.resources = <<>> THEN {row[v] : v \in Bound(row)}
                           ELSE {resolve_term_to_gel(t, row) : t \in Range(q.resources)} \ {None}
        subjects == UNION {Candidates(r) : r \in Range(solutions)}
    IN  {[s |-> quad.s, p |-> quad.p, o |-> quad.o] : quad \in {x \in Range(store.quads) : x.s \in subjects}}

(* A blank node of the template is a fresh one in each solution.           *)
bind_template_term(t, row, i) ==
    CASE IsVar(t) -> IF t[2] \in Bound(row) THEN row[t[2]] ELSE None
      [] IsTripleTerm(t) -> None
      [] Kind(t) = "bnode" -> <<"bnode", t[2], i>>
      [] OTHER -> t
Construct(q, solutions) ==
    LET template == IF q.template = <<>> THEN collect_bgps_from_components(q.clause) ELSE q.template
        Triple(tp, i) == LET r == solutions[i]
                         IN  [s |-> bind_template_term(tp.s, r, i), p |-> bind_template_term(tp.p, r, i),
                              o |-> bind_template_term(tp.o, r, i)]
        all == {Triple(tp, i) : tp \in Range(template), i \in 1..Len(solutions)}
    IN  {t \in all : None \notin {t.s, t.p, t.o} /\ ~ IsLiteral(t.s) /\ Kind(t.p) = "iri"}

execute_inner(q, policy) ==
    LET ag == dataset_active_graph(q.from)
        all == eval_components(q.clause, <<EmptyRow>>, ag)
    IN  IF NetworkError(q, policy) # "ok" THEN [error |-> NetworkError(q, policy)]
        ELSE CASE q.form = "Select" -> [rows |-> execute_select_inner(q, ag),
                                        variables |-> projection_variables(q.projection, q.clause)]
               [] q.form = "Ask" -> [answer |-> eval_components_budgeted(q.clause, <<EmptyRow>>, 1, ag) # <<>>]
               [] q.form = "Describe" -> [triples |-> Describe(q, all)]
               [] q.form = "Construct" -> [triples |-> Construct(q, all)]
=============================================================================
