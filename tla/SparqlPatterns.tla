--------------------------- MODULE SparqlPatterns ---------------------------
(***************************************************************************)
(* Triple patterns, basic graph patterns with their join order, and        *)
(* property paths (execute/bgp.rs, join_ordering.rs, execute/paths.rs).    *)
(*                                                                         *)
(* A solution (PartialSub) is a function from the variables it binds to    *)
(* terms; a solution list is a sequence.  The interning of terms is        *)
(* replaced by the set store.known: a term outside it matches no quad.     *)
(***************************************************************************)
EXTENDS SparqlValues, SequencesExt

VARIABLE store   \* [quads, reified: Seq of [g, s, p, o], known: a set of terms]

Listed(set) == FoldSet(LAMBDA x, acc : Append(acc, x), <<>>, set)   \* in some order

EmptyRow == [v \in {} |-> None]
Bound(row) == DOMAIN row
Insert(row, v, t) == (v :> t) @@ row
Without(row, vars) == [v \in DOMAIN row \ vars |-> row[v]]

(* A graph is fixed or the variable of a GRAPH clause.                     *)
FixedGraph(g) == [fixed |-> TRUE, graph |-> g]
VariableGraph(v) == [fixed |-> FALSE, graph |-> v]
DefaultGraph == FixedGraph(Iri("default"))

Pattern(s, p, o) == [s |-> s, p |-> p, o |-> o]
Positions(tp) == <<tp.s, tp.p, tp.o>>

-----------------------------------------------------------------------------
(* Matching.                                                               *)

Anything == <<"any">>
Never == <<"never">>

resolve_match_term(t, row) ==
    LET val == IF ~ IsVar(t) THEN t ELSE IF t[2] \in Bound(row) THEN row[t[2]] ELSE Anything
    IN  IF val = Anything \/ val \in store.known THEN val ELSE Never

Admits(m, t) == m = Anything \/ m = t

ResolveGraph(ag, row) ==
    IF ag.fixed THEN ag.graph
    ELSE IF ag.graph \in Bound(row) /\ row[ag.graph] \in store.known THEN row[ag.graph]
    ELSE Anything

quads_matching(quads, g, s, p, o) ==
    SelectSeq(quads, LAMBDA q : Admits(g, q.g) /\ Admits(s, q.s) /\ Admits(p, q.p) /\ Admits(o, q.o))

Take(seq, n) == IF n = -1 \/ n >= Len(seq) THEN seq ELSE SubSeq(seq, 1, n)
Unlimited == -1

(* Bind the variables among `terms` to `vals`, one solution, or none when  *)
(* a variable would need two values.                                       *)
BindAll(row, terms, vals) ==
    LET I == {i \in 1..Len(terms) : IsVar(terms[i])}
        name(i) == terms[i][2]
        ok == \A i \in I : /\ name(i) \in Bound(row) => row[name(i)] = vals[i]
                           /\ \A j \in I : name(i) = name(j) => vals[i] = vals[j]
        new == [v \in {name(i) : i \in I} |-> vals[CHOOSE i \in I : name(i) = v]]
    IN  IF ok THEN <<new @@ row>> ELSE <<>>

GraphTerm(ag) == IF ag.fixed THEN ag.graph ELSE Var(ag.graph)

(* Mutant: takes the limit on quads for every pattern.                     *)
NeverRepeats(tp, ag) == FALSE

pattern_repeats_variable(tp, ag) ==
    LET ts == Append(Positions(tp), GraphTerm(ag))
    IN  \E i, j \in 1..4 : i < j /\ IsVar(ts[i]) /\ ts[i] = ts[j]

RECURSIVE ConcatAll(_)
ConcatAll(seqs) == IF seqs = <<>> THEN <<>> ELSE Head(seqs) \o ConcatAll(Tail(seqs))
FlatMapRows(Op(_), rows) == ConcatAll([i \in 1..Len(rows) |-> Op(rows[i])])

(* The quad limit is only sound when every quad gives a solution.          *)
eval_triple_pattern_core(tp, forced, row, budget, ag) ==
    LET s == IF forced = None THEN resolve_match_term(tp.s, row) ELSE forced
        p == resolve_match_term(tp.p, row)
        o == resolve_match_term(tp.o, row)
        limit == IF forced = None /\ ~ pattern_repeats_variable(tp, ag) THEN budget ELSE Unlimited
        found == Take(quads_matching(store.quads, ResolveGraph(ag, row), s, p, o), limit)
        subject == IF forced = None THEN tp.s ELSE forced
        Extend(q) == BindAll(row, <<subject, tp.p, tp.o, GraphTerm(ag)>>, <<q.s, q.p, q.o, q.g>>)
    IN  IF Never \in {s, p, o} THEN <<>>
        ELSE Take(FlatMapRows(Extend, found), budget)

(* <<( s p o )>> as a subject: the reified triples that match it, with the *)
(* variables they bind.                                                    *)
IsTripleTerm(t) == Kind(t) = "pattern"
triple_term_candidates(inner, row) ==
    LET s == resolve_match_term(inner.s, row)
        p == resolve_match_term(inner.p, row)
        o == resolve_match_term(inner.o, row)
        Candidate(q) ==
            LET b == BindAll(row, Positions(inner), <<q.s, q.p, q.o>>)
            IN  IF b = <<>> THEN <<>> ELSE <<[id |-> q.g, row |-> b[1]]>>
    IN  IF Never \in {s, p, o} THEN <<>>
        ELSE FlatMapRows(Candidate, quads_matching(store.reified, Anything, s, p, o))

eval_triple_pattern(tp, row, budget, ag) ==
    IF IsTripleTerm(tp.s)
    THEN FlatMapRows(LAMBDA c : eval_triple_pattern_core(tp, c.id, c.row, Unlimited, ag),
                     triple_term_candidates(tp.s[2], row))
    ELSE eval_triple_pattern_core(tp, None, row, budget, ag)

-----------------------------------------------------------------------------
(* Join order of a basic graph pattern.                                    *)

term_variables(t) ==
    CASE IsVar(t) -> {t[2]}
      [] IsTripleTerm(t) -> {x[2] : x \in {y \in Range(Positions(t[2])) : IsVar(y)}}
      [] OTHER -> {}
pattern_variables(tp) == UNION {term_variables(t) : t \in Range(Positions(tp))}

bound_count(tp, bound) ==
    Cardinality({i \in 1..3 : IsVar(Positions(tp)[i]) /\ Positions(tp)[i][2] \in bound})

(* By the constants only, over all graphs; two indexes give the smaller    *)
(* of two counts, not the count of their intersection.                     *)
IsConstant(t) == ~ IsVar(t) /\ ~ IsTripleTerm(t)
CountQuads(Test(_)) == Cardinality({i \in 1..Len(store.quads) : Test(store.quads[i])})
Smaller(m, n) == IF m <= n THEN m ELSE n
cardinality_and_index(tp) ==
    LET s == IsConstant(tp.s)  p == IsConstant(tp.p)  o == IsConstant(tp.o)
        sp == CountQuads(LAMBDA q : q.s = tp.s /\ (p => q.p = tp.p))
        op == CountQuads(LAMBDA q : q.o = tp.o /\ (p => q.p = tp.p))
    IN  CASE \E t \in Range(Positions(tp)) : IsConstant(t) /\ t \notin store.known -> 0
          [] s /\ o -> Smaller(sp, op)
          [] s /\ ~ o -> sp
          [] ~ s /\ o -> op
          [] ~ s /\ ~ o -> CountQuads(LAMBDA q : p => q.p = tp.p)

(* Most bound variables first, then fewest quads; the last of equals, as   *)
(* Rust's max_by_key returns it.                                           *)
BestPattern(key) ==
    LET Better(s, t) == s[1] > t[1] \/ (s[1] = t[1] /\ s[2] < t[2])
    IN  CHOOSE i \in DOMAIN key :
            \A j \in DOMAIN key \ {i} : Better(key[i], key[j]) \/ (i > j /\ ~ Better(key[j], key[i]))

RECURSIVE order_patterns(_, _)
PatternsFrom(patterns, best, bound) ==
    <<patterns[best]>> \o
    order_patterns(RemoveAt(patterns, best), bound \cup pattern_variables(patterns[best]))
order_patterns(patterns, bound) ==
    IF patterns = <<>> THEN <<>>
    ELSE LET key == [i \in 1..Len(patterns) |->
                        <<bound_count(patterns[i], bound), cardinality_and_index(patterns[i])>>]
         IN  PatternsFrom(patterns, BestPattern(key), bound)

(* The solutions of one pattern over the rows before it; the budget of the *)
(* last one shrinks as rows are produced.                                  *)
RECURSIVE Budgeted(_, _, _, _)
BudgetedAfter(first, tp, rows, budget, ag) ==
    first \o Budgeted(tp, rows,
                      IF budget = Unlimited THEN Unlimited
                      ELSE IF Len(first) > budget THEN 0 ELSE budget - Len(first), ag)
Budgeted(tp, rows, budget, ag) ==
    IF rows = <<>> \/ budget = 0 THEN <<>>
    ELSE BudgetedAfter(eval_triple_pattern(tp, Head(rows), budget, ag), tp, Tail(rows), budget, ag)

RECURSIVE JoinPatterns(_, _, _, _)
JoinPatterns(patterns, rows, budget, ag) ==
    IF patterns = <<>> \/ rows = <<>> THEN rows
    ELSE JoinPatterns(Tail(patterns),
                      Budgeted(Head(patterns), rows,
                               IF Len(patterns) = 1 THEN budget ELSE Unlimited, ag),
                      budget, ag)

FirstBound(rows) == IF rows = <<>> THEN {} ELSE Bound(Head(rows))
eval_bgp(patterns, rows, budget, ag) ==
    JoinPatterns(order_patterns(patterns, FirstBound(rows)), rows, budget, ag)

-----------------------------------------------------------------------------
(* Property paths.                                                         *)

resolve_term_to_gel(t, row) ==
    IF IsVar(t) THEN (IF t[2] \in Bound(row) THEN row[t[2]] ELSE None)
    ELSE IF IsTripleTerm(t) THEN None ELSE t

QuadsOf(g) == quads_matching(store.quads, g, Anything, Anything, Anything)
graph_nodes(g) == UNION {{q.s, q.o} : q \in Range(QuadsOf(g))}
distinct_graph_ids == {q.g : q \in Range(store.quads)}

(* The graphs an evaluation ranges over, with the row that records it.     *)
GraphScopes(ag, row) ==
    LET g == ResolveGraph(ag, row)
    IN  IF g # Anything THEN <<[g |-> g, row |-> row, ag |-> ag]>>
        ELSE LET gs == Listed(distinct_graph_ids)
             IN  [i \in 1..Len(gs) |-> [g |-> gs[i], row |-> Insert(row, ag.graph, gs[i]), ag |-> FixedGraph(gs[i])]]

BindBoth(row, s, o, t, u) == Insert(Insert(row, s[2], t), o[2], u)

zero_hop_all_nodes(s, o, row, ag) ==
    FlatMapRows(LAMBDA scope : LET ns == Listed(graph_nodes(scope.g))
                               IN  [i \in 1..Len(ns) |-> BindBoth(scope.row, s, o, ns[i], ns[i])],
                GraphScopes(ag, row))

zero_hop_solutions(s, o, row, ag) ==
    LET a == resolve_term_to_gel(s, row)  b == resolve_term_to_gel(o, row)
    IN  CASE a # None /\ b # None -> IF a = b THEN <<row>> ELSE <<>>
          [] a # None /\ b = None -> IF IsVar(o) THEN <<Insert(row, o[2], a)>> ELSE <<>>
          [] a = None /\ b # None -> IF IsVar(s) THEN <<Insert(row, s[2], b)>> ELSE <<>>
          [] a = None /\ b = None -> IF IsVar(s) /\ IsVar(o) THEN zero_hop_all_nodes(s, o, row, ag) ELSE <<>>

(* A variable of the evaluator that no row or endpoint uses.               *)
BridgeNames == {"__path_bridge_0", "__path_bridge_1", "__path_bridge_2", "__path_bridge_3", "__path_bridge_4"}
fresh_bridge_var(row, s, o) ==
    Var(CHOOSE v \in BridgeNames : v \notin Bound(row) /\ Var(v) \notin {s, o})

RECURSIVE Deduplicated(_)
Deduplicated(rows) ==
    IF rows = <<>> THEN <<>>
    ELSE LET init == Deduplicated(SubSeq(rows, 1, Len(rows) - 1))
         IN  IF rows[Len(rows)] \in Range(init) THEN init ELSE Append(init, rows[Len(rows)])

RECURSIVE eval_path_pattern(_, _, _, _, _)
RECURSIVE eval_sequence(_, _, _, _, _)
RECURSIVE Reach(_, _, _, _, _)

(* Nodes reachable from the queue by one or more steps.                    *)
TcNext == "__tc_next"
Reach(queue, visited, path, row, ag) ==
    IF queue = {} THEN visited
    ELSE LET cur == CHOOSE t \in queue : TRUE
             next == {r[TcNext] : r \in Range(eval_path_pattern(cur, path, Var(TcNext), row, ag))}
         IN  Reach((queue \ {cur}) \cup (next \ visited), visited \cup next, path, row, ag)

(* Mutant: the start counts as reached by every path.                      *)
ReachableWithStart(start, path, row, include_zero, ag) == Reach({start}, {start}, path, row, ag)

reachable_from(start, path, row, include_zero, ag) ==
    Reach({start}, {}, path, row, ag) \cup (IF include_zero THEN {start} ELSE {})

transitive_closure(s, path, o, row, include_zero, ag) ==
    LET a == resolve_term_to_gel(s, row)  b == resolve_term_to_gel(o, row)
        BindTo(v, ts) == LET seq == Listed(ts) IN [i \in 1..Len(seq) |-> Insert(row, v, seq[i])]
        FromEveryNode(scope) ==
            ConcatAll([i \in 1..Cardinality(graph_nodes(scope.g)) |->
                LET t == Listed(graph_nodes(scope.g))[i]
                    us == Listed(reachable_from(t, path, scope.row, include_zero, scope.ag))
                IN  [j \in 1..Len(us) |-> BindBoth(scope.row, s, o, t, us[j])]])
    IN  CASE a # None /\ b # None ->
                IF b \in reachable_from(a, path, row, include_zero, ag) THEN <<row>> ELSE <<>>
          [] a # None /\ b = None ->
                IF IsVar(o) THEN BindTo(o[2], reachable_from(a, path, row, include_zero, ag)) ELSE <<>>
          [] a = None /\ b # None ->
                IF IsVar(s)
                THEN BindTo(s[2], reachable_from(b, [path |-> "Inverse", inner |-> path], row, include_zero, ag))
                ELSE <<>>
          [] a = None /\ b = None ->
                IF IsVar(s) /\ IsVar(o)
                THEN Deduplicated(FlatMapRows(FromEveryNode, GraphScopes(ag, row))) ELSE <<>>

(* A sequence threads a fresh variable through its steps.                  *)
eval_sequence(s, steps, o, row, ag) ==
    IF steps = <<>> THEN <<row>>
    ELSE IF Len(steps) = 1 THEN eval_path_pattern(s, steps[1], o, row, ag)
    ELSE LET mid == fresh_bridge_var(row, s, o)
             firsts == eval_path_pattern(s, steps[1], mid, row, ag)
             rest == FlatMapRows(LAMBDA r : eval_sequence(mid, Tail(steps), o, r, ag), firsts)
         IN  [i \in 1..Len(rest) |-> Without(rest[i], {mid[2]})]

eval_exact_repeat(s, path, o, row, k, ag) ==
    IF k = 0 THEN zero_hop_solutions(s, o, row, ag)
    ELSE eval_sequence(s, [i \in 1..k |-> path], o, row, ag)

eval_repeat_path(s, path, o, row, min, max, ag) ==
    IF max = Unlimited
    THEN eval_sequence(s, [i \in 1..min |-> path] \o <<[path |-> "ZeroOrMore", inner |-> path]>>, o, row, ag)
    ELSE ConcatAll([k \in 1..(IF max < min THEN 0 ELSE max - min + 1) |->
                        eval_exact_repeat(s, path, o, row, min + k - 1, ag)])

(* !(p | q): any quad whose predicate is not excluded; the graph variable  *)
(* stays unbound.                                                          *)
eval_negated_set(s, excluded, o, row, ag) ==
    LET a == resolve_match_term(s, row)  b == resolve_match_term(o, row)
        found == SelectSeq(quads_matching(store.quads, ResolveGraph(ag, row), a, Anything, b),
                           LAMBDA q : q.p \notin excluded)
    IN  IF Never \in {a, b} THEN <<>>
        ELSE FlatMapRows(LAMBDA q : BindAll(row, <<s, o>>, <<q.s, q.o>>), found)

eval_path_pattern(s, path, o, row, ag) ==
    CASE path.path = "Iri" -> eval_triple_pattern(Pattern(s, path.iri, o), row, Unlimited, ag)
      [] path.path = "Sequence" -> eval_sequence(s, path.steps, o, row, ag)
      [] path.path = "Alternative" ->
            eval_path_pattern(s, path.left, o, row, ag) \o eval_path_pattern(s, path.right, o, row, ag)
      [] path.path = "Inverse" -> eval_path_pattern(o, path.inner, s, row, ag)
      [] path.path = "ZeroOrOne" ->
            LET zero == zero_hop_solutions(s, o, row, ag)
            IN  zero \o SelectSeq(Deduplicated(eval_path_pattern(s, path.inner, o, row, ag)),
                                  LAMBDA r : r \notin Range(zero))
      [] path.path = "OneOrMore" -> transitive_closure(s, path.inner, o, row, FALSE, ag)
      [] path.path = "ZeroOrMore" -> transitive_closure(s, path.inner, o, row, TRUE, ag)
      [] path.path = "Repeat" -> eval_repeat_path(s, path.inner, o, row, path.min, path.max, ag)
      [] path.path = "NegatedSet" -> eval_negated_set(s, path.excluded, o, row, ag)
=============================================================================
