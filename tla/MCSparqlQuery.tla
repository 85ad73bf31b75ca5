--------------------------- MODULE MCSparqlQuery ----------------------------
(* Clauses of up to two components from the whole pool and of three from   *)
(* its core, over two small stores with a named graph, in six query heads. *)
EXTENDS SparqlQuery

a == Iri("a")
b == Iri("b")
c0 == Iri("c")
p == Iri("p")
q == Iri("q")
g1 == Iri("g1")
dg == Iri("default")
Quad(g, s, r, o) == [g |-> g, s |-> s, p |-> r, o |-> o]
MkStore(quads) ==
    [quads |-> quads,
     reified |-> <<[g |-> <<"tterm", "t1">>, s |-> a, p |-> p, o |-> b]>>,
     known |-> {a, b, c0, p, q, g1, dg, IntLit(1), IntLit(2), <<"tterm", "t1">>}]
MCStores == {
    MkStore(<<Quad(dg, a, p, b), Quad(dg, b, p, c0), Quad(dg, c0, p, b), Quad(dg, a, q, IntLit(1)),
              Quad(dg, b, q, IntLit(2)), Quad(dg, <<"tterm", "t1">>, q, IntLit(1)),
              Quad(g1, a, p, c0), Quad(g1, c0, q, IntLit(1))>>),
    MkStore(<<Quad(dg, a, p, b), Quad(dg, b, q, IntLit(1)), Quad(dg, a, p, a), Quad(dg, b, q, a),
              Quad(g1, b, p, a)>>)}

x == Var("x")
y == Var("y")
z == Var("z")
n == Var("n")
EVar(v) == [expr |-> "Variable", name |-> v]
EStr(t) == [expr |-> "Constant", value |-> Str(t)]
EIri(t) == [expr |-> "Constant", value |-> Iri(t)]
ENum(i) == [expr |-> "Constant", value |-> IntLit(i)]
EBin(l, o, r) == [expr |-> "Binary", op |-> o, left |-> l, right |-> r]
ECall(f, args) == [expr |-> "FunctionCall", name |-> f, args |-> args]
ENot(e) == [expr |-> "Unary", op |-> "!", arg |-> e]
Agg(f, v, d) == [expr |-> "Aggregate", name |-> f, arg |-> EVar(v), distinct |-> d]

Bgp(patterns) == [op |-> "BGP", patterns |-> patterns]
Path(s, path, o) == [op |-> "PathPattern", s |-> s, path |-> path, o |-> o]
Wrap(op, inner) == [op |-> op, inner |-> inner]
UnionOf(l, r) == [op |-> "Union", left |-> l, right |-> r]
GraphOf(t, inner) == [op |-> "Graph", term |-> t, inner |-> inner]
FilterOf(e) == [op |-> "Filter", condition |-> e]
BindAs(e, v) == [op |-> "Bind", value |-> e, alias |-> v]
ValuesOfVars(vs, rows) == [op |-> "Values", vars |-> vs, rows |-> rows]
ServiceAt(iri, inner, silent) == [op |-> "Service", endpoint |-> iri, inner |-> inner, silent |-> silent]

xpy == Bgp(<<Pattern(x, p, y)>>)
yqn == Bgp(<<Pattern(y, q, n)>>)
xqn == Bgp(<<Pattern(x, q, n)>>)
Column(v) == [elem |-> "Variable", var |-> v]
As(e, v) == [elem |-> "Expression", value |-> e, var |-> v]
Star == [elem |-> "Star", var |-> ""]

Head0 == [form |-> "Select", clause |-> <<>>, projection |-> <<Star>>, from |-> <<>>, distinct |-> FALSE,
          group_by |-> <<>>, having |-> <<>>, order_by |-> <<>>, offset |-> 0, limit |-> Unlimited,
          resources |-> <<>>, template |-> <<>>]
CountedByX == [Head0 EXCEPT
    !.projection = <<Column("x"), As(Agg("Count", "y", TRUE), "k"), As(EBin(Agg("Sum", "n", FALSE), "/", ENum(2)), "m")>>,
    !.group_by = <<[key |-> EVar("x"), alias |-> ""]>>,
    !.having = <<EBin(Agg("CountStar", "x", FALSE), ">=", ENum(1))>>,
    !.order_by = <<[key |-> EVar("k"), ascending |-> FALSE], [key |-> EVar("x"), ascending |-> TRUE]>>,
    !.distinct = TRUE]
SubQuery == [op |-> "Subquery", query |-> [CountedByX EXCEPT !.clause = <<Bgp(<<Pattern(x, p, y)>>), Wrap("Optional", <<xqn>>)>>]]

MCHeads == {Head0,
            [Head0 EXCEPT !.limit = 1, !.offset = 1],
            [Head0 EXCEPT !.form = "Ask", !.from = <<Iri("unknown"), g1>>],
            [CountedByX EXCEPT !.limit = 1],
            [Head0 EXCEPT !.form = "Describe", !.resources = <<x, b>>],
            [Head0 EXCEPT !.form = "Construct", !.template = <<Pattern(y, q, <<"bnode", "_:m">>), Pattern(n, p, x)>>]}
MCPolicies == {"Allow", "Deny"}

I(iri) == [path |-> "Iri", iri |-> iri]
P1(kind, inner) == [path |-> kind, inner |-> inner]
Seq2(l, r) == [path |-> "Sequence", steps |-> <<l, r>>]
Alt(l, r) == [path |-> "Alternative", left |-> l, right |-> r]
Rep(inner, min, max) == [path |-> "Repeat", inner |-> inner, min |-> min, max |-> max]
Paths == {P1("OneOrMore", I(p)), P1("ZeroOrMore", Seq2(I(p), I(p))), P1("ZeroOrOne", I(q)),
          P1("Inverse", P1("OneOrMore", Alt(I(p), I(q)))), Rep(I(p), 0, 2), Rep(I(p), 2, Unlimited),
          P1("OneOrMore", P1("Inverse", I(p))), [path |-> "NegatedSet", excluded |-> {q}],
          Seq2(P1("ZeroOrOne", I(p)), I(q)), Seq2(I(p), P1("Inverse", I(p)))}
PathComponents == {Path(s, r, o) : s \in {x, a}, r \in Paths, o \in {y, b}} \cup {Path(x, P1("OneOrMore", I(p)), x)}

MCAlone == PathComponents \ {Path(x, P1("OneOrMore", I(p)), y), Path(a, P1("ZeroOrOne", I(q)), y),
                              Path(x, P1("OneOrMore", I(p)), x)}
MCCore == {
    xpy, yqn,
    UnionOf(<<xpy>>, <<Bgp(<<Pattern(x, q, y)>>)>>),
    Wrap("Optional", <<yqn>>),
    Wrap("Optional", <<Bgp(<<Pattern(y, p, z)>>), FilterOf(EBin(EVar("z"), "!=", EVar("x")))>>),
    Wrap("Minus", <<xqn>>),
    Wrap("Minus", <<Bgp(<<Pattern(y, p, z)>>)>>),
    ValuesOfVars(<<"x", "y">>, <<<<a, None>>, <<b, c0>>, <<a, b>>>>),
    BindAs(EBin(EVar("n"), "+", ENum(1)), "z"),
    FilterOf(EBin(EVar("n"), "<", ENum(2)))}
MCPool == MCCore \cup {
    Bgp(<<Pattern(x, p, y), Pattern(y, p, z), Pattern(x, q, n)>>),
    Bgp(<<Pattern(x, Var("r"), x)>>),
    Bgp(<<Pattern(<<"pattern", Pattern(x, p, y)>>, q, n)>>),
    Wrap("Optional", <<BindAs(EBin(EVar("n"), "+", ENum(1)), "m")>>),
    Wrap("Group", <<xpy, Wrap("Optional", <<yqn>>)>>),
    GraphOf(Var("g"), <<xpy>>),
    GraphOf(Iri("unknown"), <<xpy>>),
    SubQuery,
    ServiceAt(Iri("remote"), <<xpy>>, FALSE),
    ServiceAt(Iri("absent"), <<xpy>>, TRUE),
    FilterOf([expr |-> "NotExists", inner |-> <<Bgp(<<Pattern(y, p, x)>>)>>]),
    FilterOf(EBin(ECall("BOUND", <<EVar("n")>>), "||", ENot(EBin(EVar("n"), ">", ENum(1))))),
    FilterOf([expr |-> "NotIn", arg |-> EVar("y"), list |-> <<[expr |-> "Constant", value |-> a], EVar("n")>>]),
    BindAs(ECall("COALESCE", <<ECall("xsd:boolean", <<EVar("n")>>), ECall("STR", <<EVar("x")>>)>>), "m"),
    BindAs(ECall("CONCAT", <<ECall("STRBEFORE", <<ECall("STR", <<EVar("y")>>), EStr("b")>>), EStr("x")>>), "m"),
    BindAs(ECall("SUBSTR", <<ECall("STRLANG", <<EStr("ab"), EStr("en-US")>>), ENum(2), ECall("STRLEN", <<EStr("x")>>)>>), "m"),
    BindAs(ECall("STRAFTER", <<ECall("STRDT", <<EStr("ab"), EIri("xsd:string")>>), ECall("LCASE", <<EStr("A")>>)>>), "m"),
    FilterOf(EBin(ECall("REGEX", <<ECall("STR", <<EVar("y")>>), EStr("^a")>>), "||",
                  ECall("STRENDS", <<ECall("STR", <<EVar("x")>>), ECall("LCASE", <<EStr("B")>>)>>))),
    FilterOf(ENot(ECall("LANGMATCHES", <<ECall("LANG", <<EVar("n")>>), EStr("*")>>))),
    BindAs(ECall("IRI", <<ECall("UCASE", <<ECall("STR", <<EVar("x")>>)>>)>>), "m"),
    BindAs(ECall("IF", <<EBin(EVar("x"), "=", EVar("y")), ENum(1), ECall("DATATYPE", <<EVar("n")>>)>>), "m")}
    \cup PathComponents
MCPreResolved == (<<Iri("remote"), <<xpy>>>> :> <<("x" :> a), ("x" :> c0 @@ "y" :> b)>>)
=============================================================================
