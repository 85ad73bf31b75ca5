--------------------------- MODULE ShaclValidate ----------------------------
(***************************************************************************)
(* Validation of a data graph against a shapes graph (shacl/src/lib.rs,    *)
(* sparql_constraints.rs, custom_components.rs): the order of the checks   *)
(* and evaluations, what stops them, and the report.                       *)
(***************************************************************************)
EXTENDS ShaclRules

CONSTANTS Stores,         \* data graphs
          ShapesGraphs    \* shapes graphs

VARIABLES phase,     \* what validate does next; "done" or "refused" at the end
          error,     \* why it was refused
          targets,   \* the target nodes of the active shapes
          facts,     \* the violations in the working store
          answers,   \* the rows the embedded queries returned
          results,   \* the validation results
          report     \* the report graph

vars == <<store, shapes, parsed, phase, error, targets, facts, answers, results, report>>

Found == parse_shapes
Shape(si) == parsed[Found[si]]
Active == {si \in 1..Len(Found) : ~ Shape(si).deactivated}

-----------------------------------------------------------------------------
(* Embedded queries.                                                       *)

RECURSIVE to_sparql_path(_)
to_sparql_path(path) ==
    CASE path.path = "Iri" -> path
      [] path.path = "Sequence" -> [path EXCEPT !.steps = [i \in 1..Len(@) |-> to_sparql_path(path.steps[i])]]
      [] path.path = "Alternative" ->
            FoldLeft(LAMBDA acc, b : [path |-> "Alternative", left |-> acc, right |-> to_sparql_path(b)],
                     to_sparql_path(path.branches[1]), Tail(path.branches))
      [] OTHER -> [path EXCEPT !.inner = to_sparql_path(path.inner)]

(* $PATH stands for the path of the property shape; outside of one it is   *)
(* a variable like any other.                                              *)
Substituted(c, path) ==
    IF c.op # "PathPattern" \/ c.path.path # "PATH" THEN c
    ELSE CASE path.path = "None" -> [op |-> "BGP", patterns |-> <<Pattern(c.s, Var("PATH"), c.o)>>]
           [] path.path = "Iri" -> [op |-> "BGP", patterns |-> <<Pattern(c.s, path.iri, c.o)>>]
           [] OTHER -> [c EXCEPT !.path = to_sparql_path(path)]
build_query_text(name, path) ==
    LET q == Queries[name] IN [q EXCEPT !.clause = [i \in 1..Len(@) |-> Substituted(q.clause[i], path)]]
check_query_syntax(name) == name \in DOMAIN Queries

(* VALUES with the bindings, before everything else.                       *)
inject_prebound(q, names, rows) ==
    IF q.form \in {"Select", "Ask"}
    THEN [q EXCEPT !.clause = <<[op |-> "Values", vars |-> names, rows |-> rows]>> \o @] ELSE q
inject_this_values(q, nodes) == inject_prebound(q, <<"this">>, [i \in 1..Len(nodes) |-> <<nodes[i]>>])

RECURSIVE HasAggregate(_)
HasAggregate(e) ==
    CASE e.expr \in {"In", "NotIn"} -> HasAggregate(e.arg) \/ \E i \in 1..Len(e.list) : HasAggregate(e.list[i])
      [] OTHER -> expr_has_aggregate(e)
grouped_by_this(q) == \E k \in Range(q.group_by) : k.key.expr = "Variable" /\ k.key.name = "this"

(* Mutant: also when the query has a LIMIT.                                *)
BatchableWithLimit(q) == q.form = "Select" /\ (IF q.group_by # <<>> THEN grouped_by_this(q) ELSE TRUE)

(* All focus nodes may be asked about at once when rows of one node do not *)
(* depend on the others.                                                   *)
is_batchable(q) ==
    /\ q.form = "Select" /\ q.limit = Unlimited /\ q.offset = 0
    /\ IF q.group_by # <<>> THEN grouped_by_this(q)
       ELSE /\ \A e \in Range(q.projection) : e.elem # "Expression" \/ ~ HasAggregate(e.value)
            /\ \A h \in Range(q.having) : ~ HasAggregate(h)
            /\ \A k \in Range(q.order_by) : ~ HasAggregate(k.key)
ensure_this_projected(q) ==
    IF \E e \in Range(q.projection) : e.elem = "Star" \/ e.var = "this" THEN q
    ELSE [q EXCEPT !.projection = Append(@, [elem |-> "Variable", var |-> "this"])]

(* run_select and run_ask: the rows, where a true ASK is one row; a query  *)
(* of the wrong form or with a SERVICE call is an error.                   *)
Runs(q, ask) == q.form = (IF ask THEN "Ask" ELSE "Select") /\ NetworkError(q, "Deny") = "ok"
RunQuery(q) ==
    IF q.form = "Ask" THEN eval_components_budgeted(q.clause, <<EmptyRow>>, 1, dataset_active_graph(q.from))
    ELSE execute_select_inner(q, dataset_active_graph(q.from))

-----------------------------------------------------------------------------
(* Targets.                                                                *)

Column0(rows, v) == {r[v] : r \in {x \in Range(rows) : v \in Bound(x)}}
eval_sparql_target(name) ==
    LET q == build_query_text(name, NoPath) IN Column0(execute_select_inner(q, dataset_active_graph(q.from)), "this")
TargetNodes(t) ==
    CASE t[1] = "Node" -> {t[2]}
      [] t[1] = "Class" -> class_target_instances(t[2])
      [] t[1] = "SubjectsOf" -> {x.s : x \in {y \in DataTriples : y.p = t[2]}}
      [] t[1] = "ObjectsOf" -> {x.o : x \in {y \in DataTriples : y.p = t[2]}}
      [] t[1] = "Sparql" -> eval_sparql_target(t[2])

(* The rules take a target node the data do not mention, the direct        *)
(* evaluation does not.                                                    *)
target_rules(s) == UNION {TargetNodes(t) : t \in Range(s.targets)}
data_targets(si) == targets[si] \cap store.known
TargetsFail(s) == \E t \in Range(s.targets) : t[1] = "Sparql" /\ ~ Runs(build_query_text(t[2], NoPath), FALSE)

-----------------------------------------------------------------------------
(* Results of embedded queries.  A request is one execution: for one focus *)
(* node and, with an ASK validator of a property, one value; or for all    *)
(* focus nodes (focus = None).                                             *)

Scope(id, severity, path, component) ==
    [id |-> id, severity |-> severity, path |-> path, component |-> component]
PropSeverity(s, p) == IF p.severity = "none" THEN s.severity ELSE p.severity
Request(q, ask, focus, value, nodes, scope) ==
    [q |-> q, ask |-> ask, focus |-> focus, value |-> value, nodes |-> nodes, scope |-> scope]

eval_one_constraint(k, scope, nodes) ==
    LET q == build_query_text(k.query, scope.path)
        own == IF k.severity = "none" THEN scope ELSE [scope EXCEPT !.severity = k.severity]
    IN  IF ~ k.is_ask /\ is_batchable(q)
        THEN {Request(inject_this_values(ensure_this_projected(q), Listed(nodes)), FALSE, None, None, nodes, own)}
        ELSE {Request(inject_this_values(q, <<n>>), k.is_ask, n, None, {n}, own) : n \in nodes}

sparql_constraints_eval_all(s, nodes) ==
    IF nodes = {} THEN {}
    ELSE UNION {eval_one_constraint(k, Scope(s.id, s.severity, NoPath, Iri("sparql")), nodes) : k \in Range(s.sparql)}
         \cup UNION {UNION {eval_one_constraint(k, Scope(p.id, PropSeverity(s, p), p.path, Iri("sparql")), nodes)
                            : k \in Range(p.sparql)} : p \in ActiveProps(s)}

(* A component's validator: a SELECT for the scope, or else an ASK about   *)
(* each value.                                                             *)
Prebound(i, extra, values) == inject_prebound(build_query_text(i.query, i.path), i.names \o extra, <<i.values \o values>>)
ValidatorRequests(i, select, ask, scope, nodes) ==
    LET With(v, path) == [query |-> v[1].query, path |-> path, names |-> i.names, values |-> i.values]
        Values(n) == IF scope.path = NoPath THEN {n} ELSE values_from(n, scope.path)
    IN  CASE select # <<>> ->
                {Request(Prebound(With(select, scope.path), <<"this">>, <<n>>), FALSE, n, None, {n}, scope) : n \in nodes}
          [] select = <<>> /\ ask # <<>> ->
                UNION {{Request(Prebound(With(ask, NoPath), <<"this", "value">>, <<n, v>>), TRUE, n, v, {n}, scope)
                        : v \in Values(n)} : n \in nodes}
          [] OTHER -> {}
eval_node_scope(s, i, nodes) ==
    ValidatorRequests(i, i.validators.node, i.validators.any, Scope(s.id, s.severity, NoPath, i.component), nodes)
eval_property_scope(s, p, i, nodes) ==
    ValidatorRequests(i, i.validators.property, i.validators.any, Scope(p.id, PropSeverity(s, p), p.path, i.component), nodes)
custom_components_eval_all(s, nodes) ==
    UNION {eval_node_scope(s, i, nodes) : i \in Range(s.invocations)}
    \cup UNION {UNION {eval_property_scope(s, p, i, nodes) : i \in Range(p.invocations)} : p \in ActiveProps(s)}

Result(mark, focus, scope, path, value) ==
    [mark |-> mark, focus |-> focus, severity |-> scope.severity, path |-> path, source |-> scope.id,
     component |-> scope.component, value |-> value]
row_value_and_path(row, path) ==
    [value |-> IF "value" \in Bound(row) THEN row["value"] ELSE None,
     path |-> IF "path" \in Bound(row) /\ IsIri(row["path"]) THEN [path |-> "Iri", iri |-> row["path"]] ELSE path]

(* Rows of a batch whose ?this is no focus node are dropped; an ASK that   *)
(* is false is one result.                                                 *)
ResultsOf(r, rows) ==
    LET Focus(row) == IF r.focus # None THEN r.focus ELSE IF "this" \in Bound(row) THEN row["this"] ELSE None
        Of(i) == LET found == row_value_and_path(rows[i], r.scope.path)
                 IN  Result(<<"row", r, i>>, Focus(rows[i]), r.scope, found.path, found.value)
    IN  IF r.ask THEN (IF rows # <<>> THEN {} ELSE {Result(<<"row", r, 0>>, r.focus, r.scope, r.scope.path, r.value)})
        ELSE {Of(i) : i \in {j \in 1..Len(rows) : Focus(rows[j]) \in r.nodes}}

-----------------------------------------------------------------------------
(* Results of the core constraints.                                        *)

KindsOf(p) ==
    {c[1] : c \in Range(p.constraints)} \cup {"not", "and", "or", "xone"}
    \cup (IF \E c \in Range(p.constraints) : c[1] = "qualifiedValueShape"
          THEN {"qualifiedMinCount", "qualifiedMaxCount"} ELSE {})

(* The metadata of a violation predicate: the last property shape with its *)
(* index, else the shape.                                                  *)
ViolMeta(viol) ==
    LET s == Shape(viol.si)
        props == SelectSeq(s.property_shapes, LAMBDA p : ~ p.deactivated /\ p.idx = viol.pi /\ viol.kind \in KindsOf(p))
        p == props[Len(props)]
    IN  IF props # <<>> THEN Scope(p.id, PropSeverity(s, p), p.path, Iri(viol.kind))
        ELSE Scope(s.id, s.severity, IF viol.pred = None THEN NoPath ELSE [path |-> "Iri", iri |-> viol.pred], Iri(viol.kind))
Valueless == {Iri("minCount"), Iri("maxCount"), Iri("uniqueLang")}
collect_violations ==
    {LET meta == ViolMeta(f.viol)
     IN  Result(<<"fact", f>>, f.n, meta, meta.path, IF meta.component \in Valueless \/ f.v \in {Nil, TrueMark} THEN None ELSE f.v)
     : f \in facts}

-----------------------------------------------------------------------------
(* The report graph.  Blank nodes are named by what they are made for.     *)

(* Mutant: lists come out in reverse.                                      *)
BackToFront(ids) == <<"list", [i \in 1..Len(ids) |-> ids[Len(ids) + 1 - i]]>>
build_rdf_list(ids) == <<"list", ids>>

RECURSIVE to_datastore(_, _)
PathNode(path, at) ==
    CASE path.path = "Iri" -> path.iri
      [] path.path = "Sequence" -> build_rdf_list([i \in 1..Len(path.steps) |-> to_datastore(path.steps[i], Append(at, i)).id])
      [] OTHER -> <<"bnode", at>>
PathPredicate(path) ==
    IF path.path = "Alternative" THEN "alternativePath"
    ELSE (CHOOSE r \in Range(PathOperators) : r[2] = path.path)[1]
to_datastore(path, at) ==
    LET Sub(ps) == [i \in 1..Len(ps) |-> to_datastore(ps[i], Append(at, i))]
        below == CASE path.path = "Iri" -> <<>>
                   [] path.path = "Sequence" -> Sub(path.steps)
                   [] path.path = "Alternative" -> Sub(path.branches)
                   [] OTHER -> Sub(<<path.inner>>)
        ids == [i \in 1..Len(below) |-> below[i].id]
        node == PathNode(path, at)
        own == CASE path.path \in {"Iri", "Sequence"} -> <<>>
                 [] path.path = "Alternative" -> <<<<node, PathPredicate(path), build_rdf_list(ids)>>>>
                 [] OTHER -> <<<<node, PathPredicate(path), ids[1]>>>>
    IN  [id |-> node, triples |-> ConcatAll([i \in 1..Len(below) |-> below[i].triples]) \o own]

(* Through its text form a literal becomes a typed one.                    *)
intern_result_term(t) ==
    CASE IsNum(t) -> Num(t[3], Numerator(t), Denominator(t))
      [] Kind(t) = "bool" -> <<"xbool", t[2]>>
      [] OTHER -> t
ReportNode == <<"bnode", <<"report">>>>
ResultNode(mark) == <<"bnode", <<"result", mark>>>>
ResultTriples(r) ==
    LET node == ResultNode(r.mark)
        path == to_datastore(r.path, <<"path", r.mark>>)
        With(given, p, o) == IF given THEN <<<<node, p, o>>>> ELSE <<>>
    IN  <<<<node, "type", Iri("ValidationResult")>>, <<node, "resultSeverity", Iri(r.severity)>>,
          <<node, "focusNode", intern_result_term(r.focus)>>>>
        \o (IF r.path = NoPath THEN <<>> ELSE path.triples \o <<<<node, "resultPath", path.id>>>>)
        \o With(r.value # None, "value", intern_result_term(r.value))
        \o <<<<node, "sourceShape", r.source>>, <<node, "sourceConstraintComponent", r.component>>>>
report_to_datastore(rs) ==
    LET all == Listed(rs)
    IN  <<<<ReportNode, "type", Iri("ValidationReport")>>,
          <<ReportNode, "conforms", Bool(rs = {})>>>>
        \o ConcatAll([i \in 1..Len(all) |-> <<<<ReportNode, "result", ResultNode(all[i].mark)>>>>
                                            \o ResultTriples(all[i])])

-----------------------------------------------------------------------------
(* validate.                                                               *)

Init == /\ store \in Stores /\ shapes \in ShapesGraphs /\ parsed = <<>> /\ phase = "parse"
        /\ error = "none" /\ targets = <<>> /\ facts = {} /\ answers = <<>> /\ results = {} /\ report = <<>>

Refuse(why) == phase' = "refused" /\ error' = why
Proceed(to) == phase' = to /\ error' = error

Parse == /\ phase = "parse" /\ Proceed("cycles")
         /\ parsed' = ParseAll(parse_constraint_components)
         /\ UNCHANGED <<store, shapes, targets, facts, answers, results, report>>

CheckCycles == /\ phase = "cycles"
               /\ IF find_shape_reference_cycle(Found) # <<>> THEN Refuse("cycle") ELSE Proceed("syntax")
               /\ UNCHANGED <<store, shapes, parsed, targets, facts, answers, results, report>>

(* The queries of active shapes and property shapes; of a component the    *)
(* validator that would be used.                                           *)
check_node_invocation_syntax(i) ==
    \A v \in Range(IF i.validators.node # <<>> THEN i.validators.node ELSE i.validators.any) : check_query_syntax(v.query)
check_property_invocation_syntax(i) ==
    \A v \in Range(IF i.validators.property # <<>> THEN i.validators.property ELSE i.validators.any) : check_query_syntax(v.query)
check_all_syntax(s) ==
    /\ \A i \in Range(s.invocations) : check_node_invocation_syntax(i)
    /\ \A p \in ActiveProps(s) : \A i \in Range(p.invocations) : check_property_invocation_syntax(i)
SyntaxOk(s) ==
    /\ \A t \in Range(s.targets) : t[1] = "Sparql" => check_query_syntax(t[2])
    /\ \A k \in Range(s.sparql) : check_query_syntax(k.query)
    /\ \A p \in ActiveProps(s) : \A k \in Range(p.sparql) : check_query_syntax(k.query)
CheckSyntax == /\ phase = "syntax"
               /\ IF \A si \in Active : SyntaxOk(Shape(si)) /\ check_all_syntax(Shape(si))
                  THEN Proceed("intern") ELSE Refuse("syntax")
               /\ UNCHANGED <<store, shapes, parsed, targets, facts, answers, results, report>>

(* A literal given as a target node becomes known to the data.             *)
InternTargets ==
    /\ phase = "intern" /\ Proceed("targets")
    /\ store' = [store EXCEPT !.known = @ \cup
            {t[2] : t \in {u \in UNION {Range(Shape(si).targets) : si \in 1..Len(Found)} : u[1] = "Node" /\ IsLiteral(u[2])}}]
    /\ UNCHANGED <<shapes, parsed, targets, facts, answers, results, report>>

(* The code resolves the targets anew wherever it needs them; the data do  *)
(* not change in between.                                                  *)
ResolveTargets ==
    /\ phase = "targets"
    /\ IF \E si \in Active : TargetsFail(Shape(si)) THEN Refuse("target") /\ UNCHANGED targets
       ELSE Proceed("direct") /\ targets' = [si \in Active |-> target_rules(Shape(si))]
    /\ UNCHANGED <<store, shapes, parsed, facts, answers, results, report>>

pre_compute_violations ==
    UNION {closed_violations(si, Shape(si), data_targets(si)) \cup eval_all(si, Shape(si), data_targets(si)) : si \in Active}
DirectChecks ==
    /\ phase = "direct" /\ Proceed("rules")
    /\ facts' = pre_compute_violations
    /\ UNCHANGED <<store, shapes, parsed, targets, answers, results, report>>

WorkNodes == DataNodes \cup UNION {{f.n, f.v} : f \in facts}
DatalogRules ==
    /\ phase = "rules" /\ Proceed("collect")
    /\ facts' = facts \cup UNION {shapes_to_rules(si, Shape(si), targets[si], WorkNodes) : si \in Active}
    /\ UNCHANGED <<store, shapes, parsed, targets, answers, results, report>>

Collect == /\ phase = "collect" /\ Proceed("queries")
           /\ results' = collect_violations
           /\ UNCHANGED <<store, shapes, parsed, targets, facts, answers, report>>

(* SPARQL constraints, then components.                                    *)
Requests ==
    UNION {LET nodes == data_targets(si)
           IN  sparql_constraints_eval_all(Shape(si), nodes) \cup custom_components_eval_all(Shape(si), nodes) : si \in Active}
AskQueries ==
    /\ phase = "queries"
    /\ LET requests == Requests
       IN  IF \E r \in requests : ~ Runs(r.q, r.ask) THEN Refuse("query") /\ UNCHANGED answers
           ELSE Proceed("answers") /\ answers' = [r \in requests |-> RunQuery(r.q)]
    /\ UNCHANGED <<store, shapes, parsed, targets, facts, results, report>>
ReadAnswers ==
    /\ phase = "answers" /\ Proceed("report")
    /\ results' = results \cup UNION {ResultsOf(r, answers[r]) : r \in DOMAIN answers}
    /\ UNCHANGED <<store, shapes, parsed, targets, facts, answers, report>>

Report == /\ phase = "report" /\ Proceed("done")
          /\ report' = report_to_datastore(results)
          /\ UNCHANGED <<store, shapes, parsed, targets, facts, answers, results>>

Next == Parse \/ CheckCycles \/ CheckSyntax \/ InternTargets \/ ResolveTargets \/ DirectChecks
        \/ DatalogRules \/ Collect \/ AskQueries \/ ReadAnswers \/ Report
Spec == Init /\ [][Next]_vars

-----------------------------------------------------------------------------
(* Where the two evaluators are meant to agree: not for a property shape   *)
(* with sh:minCount and sh:hasValue (shared helper predicate), not for     *)
(* counts on the focus node (skipped here, counted there), not for         *)
(* disjoint siblings (not looked at there), not for bounds that are not    *)
(* numbers and the language range "*" (read differently).                  *)
Kinds(cs) == {c[1] : c \in Range(cs)}
Comparable(s) ==
    LET all == UNION {Range(p.constraints) : p \in Range(s.property_shapes)} \cup Range(s.node_constraints)
    IN  /\ \A p \in Range(s.property_shapes) : ~ ({"minCount", "hasValue"} \subseteq Kinds(p.constraints))
        /\ \A p, o \in Range(s.property_shapes) : p.idx = o.idx => p = o
        /\ Kinds(s.node_constraints) \cap {"minCount", "maxCount"} = {}
        /\ \A c \in all : /\ c[1] = "qualifiedValueShape" => ~ c[2].disjoint
                          /\ c[1] \in DOMAIN RangeOperator => IsNum(c[2])
                          /\ c[1] = "languageIn" => "*" \notin Range(c[2])

(* The two evaluators agree: a target of a shape that occurs in the data   *)
(* has a result (other than for sh:closed) exactly when                    *)
(* shape_conforms_for_node, which evaluates the same shape when another    *)
(* one refers to it, says the node does not conform.  Top-level violations *)
(* come from Datalog rules with SPARQL filters and from eval_all, the      *)
(* answer for a reference from constraint_conforms.                        *)
NestedAgrees ==
    phase = "collect" =>
        \A si \in {x \in Active : Comparable(Shape(x))} :
            \A n \in data_targets(si) \cap DataNodes :
                (\E f \in facts : f.viol.si = si /\ f.n = n /\ f.viol.kind # "closed")
                    <=> ~ shape_conforms_for_node(n, Shape(si).id)

(* The shapes a shape's triples lead to, read off the graph.               *)
FirstOf(n, p) == IF get_objects(n, p) = <<>> THEN {} ELSE {get_objects(n, p)[1]}
Members(ts) == UNION {Range(rdf_list(t)) : t \in ts}
LogicalRefs(n) == FirstOf(n, "not") \cup Members(FirstOf(n, "and") \cup FirstOf(n, "or") \cup FirstOf(n, "xone"))
Properties(n) == {p \in Range(get_objects(n, "property")) : \E t \in FirstOf(p, "path") : parse_path(t) # NoPath}
References(n) ==
    UNION {LogicalRefs(m) \cup FirstOf(m, "node") \cup FirstOf(m, "qualifiedValueShape") : m \in {n} \cup Properties(n)}

(* Validation is refused for a cycle exactly when the references of some   *)
(* shape found in the graph lead back to themselves; otherwise             *)
(* shape_conforms_for_node, which has no guard of its own, would not       *)
(* return (find_shape_reference_cycle, shape_references).                  *)
RefusalExact ==
    phase \in {"syntax", "refused"} /\ error \in {"none", "cycle"} =>
        LET edges == UNION {{<<n, m>> : m \in References(n)} : n \in ShapeNodes}
            reached == Visit(Range(Found), Range(Found), edges)
        IN  (error = "cycle") <=> \E n \in reached : n \in Visit({n}, {}, edges)

RowBag(rows) == [r \in Range(rows) |-> Cardinality({i \in 1..Len(rows) : rows[i] = r})]

(* Asking about all focus nodes at once (eval_batched_select) finds the    *)
(* same rows for each node as asking about it alone.  A query grouped by   *)
(* ?this is compared for the nodes it has solutions for: alone, a node     *)
(* without solutions still makes one empty group.                          *)
BatchingInvisible ==
    phase = "report" =>
        \A r \in {x \in DOMAIN answers : x.focus = None} : \A n \in r.nodes :
            LET plain == [r.q EXCEPT !.clause = Tail(@)]
                together == SelectSeq(answers[r], LAMBDA row : "this" \in Bound(row) /\ row["this"] = n)
                alone == execute_select_inner(inject_this_values(plain, <<n>>), dataset_active_graph(r.q.from))
            IN  RowBag(together) = RowBag(alone) \/ (r.q.group_by # <<>> /\ together = <<>>)

Reader == INSTANCE ShaclShapes WITH shapes <- report
ReadBack(node) ==
    [mark |-> node[2][2], focus |-> Reader!get_object(node, "focusNode"),
     severity |-> Reader!get_object(node, "resultSeverity")[2],
     path |-> IF Reader!get_object(node, "resultPath") = None THEN NoPath
              ELSE Reader!parse_path(Reader!get_object(node, "resultPath")),
     source |-> Reader!get_object(node, "sourceShape"),
     component |-> Reader!get_object(node, "sourceConstraintComponent"), value |-> Reader!get_object(node, "value")]

(* The report graph says what was found: reading its result nodes back     *)
(* gives every result, with its path parsed again (report_to_datastore,    *)
(* to_datastore, parse_path).                                              *)
ReportReadsBack ==
    phase = "done" =>
        {ReadBack(n) : n \in Range(Reader!get_objects(ReportNode, "result"))}
            = {[r EXCEPT !.focus = intern_result_term(@), !.value = intern_result_term(@)] : r \in results}
=============================================================================
