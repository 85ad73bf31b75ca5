---------------------------- MODULE SparqlQuery -----------------------------
(***************************************************************************)
(* A query from its text to its result: a client writes a WHERE clause     *)
(* component by component, chooses a query form, and the executor runs the *)
(* planned components one after the other, checking its deadline before    *)
(* each one.                                                               *)
(***************************************************************************)
EXTENDS SparqlEval

CONSTANTS Stores,         \* the stores a query may find
          Pool,           \* the components a clause is written from
          Core,           \* the ones a SELECT of more than two is written from
          Alone,          \* the ones that make a clause of their own
          MaxComponents,  \* bound: components of a clause
          Heads,          \* query forms with their modifiers, without a clause
          Policies        \* network policies a server is run with

VARIABLES query,     \* the head with its clause
          phase,     \* "writing", "running", "done", "timeout", "refused"
          todo,      \* components still to be evaluated, in planned order
          current,   \* the solutions so far
          result     \* what the client gets

vars == <<store, query, phase, todo, current, result>>

Init == /\ store \in Stores
        /\ query \in {[h EXCEPT !.clause = <<>>] : h \in Heads}
        /\ phase = "writing" /\ todo = <<>> /\ current = <<>> /\ result = [error |-> "none"]

Write(c) == /\ phase = "writing" /\ Len(query.clause) < MaxComponents
            /\ query.clause = <<>> \/ Range(query.clause) \cup {c} \subseteq Pool \ Alone
            /\ Len(query.clause) < 2 \/ (query.form = "Select" /\ Range(query.clause) \cup {c} \subseteq Core)
            /\ query' = [query EXCEPT !.clause = Append(@, c)]
            /\ UNCHANGED <<store, phase, todo, current, result>>

(* execute_inner up to the first component: the SERVICE calls are checked  *)
(* against the network policy before anything is evaluated.                *)
Start(policy) ==
    /\ phase = "writing" /\ query.clause # <<>>
    /\ IF NetworkError(query, policy) # "ok"
       THEN /\ phase' = "refused" /\ result' = [error |-> NetworkError(query, policy)]
            /\ UNCHANGED <<todo, current>>
       ELSE /\ phase' = "running" /\ current' = <<EmptyRow>> /\ todo' = PlanFor(query.clause, <<EmptyRow>>)
            /\ UNCHANGED result
    /\ UNCHANGED <<store, query>>

Budget == CASE query.form = "Ask" -> 1
            [] query.form = "Select" -> select_solution_budget(query)
            [] OTHER -> Unlimited

Step == /\ phase = "running" /\ todo # <<>> /\ current # <<>>
        /\ current' = EvalComponent(Head(todo), current, IF Len(todo) = 1 THEN Budget ELSE Unlimited,
                                     dataset_active_graph(query.from))
        /\ todo' = Tail(todo)
        /\ UNCHANGED <<store, query, phase, result>>

(* The deadline passed: the solutions found so far are dropped.            *)
Timeout == /\ phase = "running" /\ todo # <<>> /\ current # <<>>
           /\ phase' = "timeout" /\ result' = [error |-> "Timeout"]
           /\ todo' = <<>> /\ current' = <<>>
           /\ UNCHANGED <<store, query>>

Answer(rows) ==
    CASE query.form = "Select" -> [rows |-> SelectAnswer(query, rows),
                                   variables |-> projection_variables(query.projection, query.clause)]
      [] query.form = "Ask" -> [answer |-> rows # <<>>]
      [] query.form = "Describe" -> [triples |-> Describe(query, rows)]
      [] query.form = "Construct" -> [triples |-> Construct(query, rows)]

Finish == /\ phase = "running" /\ (todo = <<>> \/ current = <<>>)
          /\ phase' = "done" /\ result' = Answer(current)
          /\ UNCHANGED <<store, query, todo, current>>

Next == (\E c \in Pool : Write(c)) \/ (\E p \in Policies : Start(p)) \/ Step \/ Timeout \/ Finish
Spec == Init /\ [][Next]_vars

-----------------------------------------------------------------------------
(* What the answers are compared with.                                     *)

BagOf(rows) == [r \in Range(rows) |-> Cardinality({i \in 1..Len(rows) : rows[i] = r})]
ActiveGraph == dataset_active_graph(query.from)
Textual(clause) == NonFilters(clause) \o Filters(clause)
Unlimitedly(clause) == eval_components(clause, <<EmptyRow>>, ActiveGraph)

(* SPARQL's algebra, bottom up: each part is evaluated on its own and      *)
(* combined, in the order of the text.                                     *)
PatternMatches(tp, g) ==
    LET found == SelectSeq(store.quads, LAMBDA q : q.g = g)
    IN  FlatMapRows(LAMBDA q : BindAll(EmptyRow, Positions(tp), <<q.s, q.p, q.o>>),
                    SelectSeq(found, LAMBDA q : \A i \in 1..3 : IsVar(Positions(tp)[i])
                                                  \/ Positions(tp)[i] = <<q.s, q.p, q.o>>[i]))
RECURSIVE JoinMatches(_, _)
JoinMatches(patterns, g) ==
    IF patterns = <<>> THEN <<EmptyRow>>
    ELSE JoinRows(IF IsTripleTerm(Head(patterns).s) THEN eval_triple_pattern(Head(patterns), EmptyRow, Unlimited, FixedGraph(g))
                  ELSE PatternMatches(Head(patterns), g), JoinMatches(Tail(patterns), g))

RECURSIVE Algebra(_, _)
RECURSIVE Combine(_, _, _)
Satisfying(rows, filters, g) ==
    SelectSeq(rows, LAMBDA r : \A f \in Range(filters) : eval_filter(f.condition, r, FixedGraph(g)))
LeftJoin(left, right, filters, g) ==
    FlatMapRows(LAMBDA a : LET m == Satisfying(JoinRows(<<a>>, right), filters, g)
                           IN  IF m = <<>> THEN <<a>> ELSE m, left)
Combine(c, rows, g) ==
    CASE c.op = "BGP" -> JoinRows(rows, JoinMatches(c.patterns, g))
      [] c.op = "Optional" -> LeftJoin(rows, Algebra(NonFilters(c.inner), g), Filters(c.inner), g)
      [] c.op = "Union" -> JoinRows(rows, Algebra(c.left, g) \o Algebra(c.right, g))
      [] c.op = "Group" -> JoinRows(rows, Algebra(c.inner, g))
      [] c.op = "Minus" ->
            LET removed == Algebra(c.inner, g)
            IN  SelectSeq(rows, LAMBDA r : \A m \in Range(removed) :
                    ~ compatible(r, m) \/ Bound(r) \cap Bound(m) = {})
      [] c.op = "Graph" ->
            IF IsVar(c.term)
            THEN LET gs == Listed(distinct_graph_ids)
                 IN  JoinRows(rows, FlatMapRows(LAMBDA h : JoinRows(<<c.term[2] :> h>>, Algebra(c.inner, h)), gs))
            ELSE JoinRows(rows, Algebra(c.inner, c.term))
      [] c.op \in {"Bind", "Values", "Subquery", "PathPattern", "Service"} ->
            EvalComponent(c, rows, Unlimited, FixedGraph(g))
RECURSIVE Fold(_, _, _)
Fold(clause, rows, g) == IF clause = <<>> THEN rows ELSE Fold(Tail(clause), Combine(Head(clause), rows, g), g)
Algebra(clause, g) == Satisfying(Fold(NonFilters(clause), <<EmptyRow>>, g), Filters(clause), g)

(* An OPTIONAL is well designed when what it shares with the rest of the   *)
(* clause is bound before it.                                              *)
WellDesigned(clause) ==
    \A i \in 1..Len(clause) :
        clause[i].op = "Optional" =>
            LET others == UNION {collect_component_vars(clause[j]) : j \in 1..Len(clause) \ {i}}
            IN  collect_component_vars(clause[i]) \cap others \subseteq must_bind_sequence(SubSeq(clause, 1, i - 1))

(* A BIND inside OPTIONAL reads variables its component does not count.    *)
RECURSIVE ReadsOutside(_)
ReadsOutside(clause) ==
    \E c \in Range(clause) :
        \/ c.op = "Bind" /\ ~ (collect_expr_vars(c.value) \subseteq variables_in_components(clause))
        \/ c.op \in {"Optional", "Minus"} /\ ReadsOutside(c.inner)

(* `?x :p+ ?x` binds ?x twice, the second time over the first.             *)
BindsTwice(clause) == \E c \in Range(clause) : c.op = "PathPattern" /\ c.s = c.o
Regular(clause) == ~ ReadsOutside(clause) /\ ~ BindsTwice(clause)

(* The pairs of nodes a path relates.                                      *)
Compose(R, S) == {<<p[1][1], p[2][2]>> : p \in {x \in R \X S : x[1][2] = x[2][1]}}
RECURSIVE Closure(_)
Closure(R) == LET next == R \cup Compose(R, R) IN IF next = R THEN R ELSE Closure(next)
Identity(g) == {<<n, n>> : n \in graph_nodes(g)}
RECURSIVE Power(_, _, _)
Power(R, k, g) == IF k = 0 THEN Identity(g) ELSE Compose(R, Power(R, k - 1, g))
RECURSIVE PathRelation(_, _)
PathRelation(path, g) ==
    CASE path.path = "Iri" -> {<<q.s, q.o>> : q \in {x \in Range(QuadsOf(g)) : x.p = path.iri}}
      [] path.path = "NegatedSet" -> {<<q.s, q.o>> : q \in {x \in Range(QuadsOf(g)) : x.p \notin path.excluded}}
      [] path.path = "Inverse" -> {<<r[2], r[1]>> : r \in PathRelation(path.inner, g)}
      [] path.path = "Alternative" -> PathRelation(path.left, g) \cup PathRelation(path.right, g)
      [] path.path = "Sequence" -> IF path.steps = <<>> THEN Identity(g)
                                   ELSE Compose(PathRelation(path.steps[1], g),
                                                PathRelation([path EXCEPT !.steps = Tail(@)], g))
      [] path.path = "ZeroOrOne" -> PathRelation(path.inner, g) \cup Identity(g)
      [] path.path = "OneOrMore" -> Closure(PathRelation(path.inner, g))
      [] path.path = "ZeroOrMore" -> Closure(PathRelation(path.inner, g)) \cup Identity(g)
      [] path.path = "Repeat" ->
            LET R == PathRelation(path.inner, g)
                top == IF path.max = Unlimited THEN path.min + Cardinality(graph_nodes(g)) ELSE path.max
            IN  UNION {Power(R, k, g) : k \in path.min..top}

-----------------------------------------------------------------------------
(* The planner's order gives the same solutions, as a bag, as the order of *)
(* the text (order_components: hoisting over OPTIONAL and MINUS, greedy    *)
(* runs around UNION), unless a BIND inside an OPTIONAL reads a variable   *)
(* of another component or a path has the same variable at both ends.      *)
ReorderPreservesAnswers ==
    phase = "done" /\ Budget = Unlimited /\ Regular(query.clause) =>
        BagOf(current) = BagOf(RunInOrder(Textual(query.clause), <<EmptyRow>>, Unlimited, ActiveGraph))

(* Threading solutions from left to right (eval_component, with OPTIONAL   *)
(* and GRAPH evaluated once per solution and the index order of eval_bgp)  *)
(* gives what SPARQL's algebra gives, for well designed clauses.           *)
AgreesWithAlgebra ==
    phase = "done" /\ Budget = Unlimited /\ WellDesigned(query.clause) /\ Regular(query.clause) =>
        BagOf(current) = BagOf(Algebra(query.clause, ActiveGraph.graph))

(* Stopping early for LIMIT, OFFSET and ASK (select_solution_budget) finds *)
(* the first solutions of the full evaluation, and as many of them as      *)
(* there are.                                                              *)
BudgetIsPrefix ==
    phase = "done" /\ Budget # Unlimited => Take(current, Budget) = Take(Unlimitedly(query.clause), Budget)

(* A property path between two different terms relates exactly the pairs   *)
(* of nodes its relation relates (eval_path_pattern, transitive_closure,   *)
(* eval_sequence, eval_repeat_path, zero_hop_solutions).                   *)
PathsAreRelations ==
    \A c \in Range(query.clause) :
        phase = "done" /\ Budget = Unlimited /\ query.clause = <<c>> /\ c.op = "PathPattern" /\ c.s # c.o =>
            LET Ends(r) == <<resolve_term_to_gel(c.s, r), resolve_term_to_gel(c.o, r)>>
            IN  {Ends(r) : r \in Range(current)} =
                {e \in PathRelation(c.path, ActiveGraph.graph) :
                    /\ IsVar(c.s) \/ e[1] = c.s
                    /\ IsVar(c.o) \/ e[2] = c.o}

ExplainedBy(plan, before) ==
    LET i == Len(plan) - Len(todo) + 1
    IN  /\ plan[i].op = Head(todo).op
        /\ (plan[i].op = "BGP" /\ current # <<>>
            /\ \A c \in Range(SubSeq(before, 1, i - 1)) : c.op \in {"BGP", "PathPattern", "Minus"})
                => plan[i].patterns = order_patterns(Head(todo).patterns, FirstBound(current))

(* EXPLAIN shows the run: the component about to be evaluated is the one   *)
(* explain_query lists there, and the patterns of a BGP are joined in the  *)
(* order it lists them, as long as the components before it bind the same  *)
(* variables in every solution.                                            *)
ExplainMatchesRun ==
    phase = "running" /\ todo # <<>> => ExplainedBy(explain_query(query), PlanFor(query.clause, <<EmptyRow>>))
=============================================================================
