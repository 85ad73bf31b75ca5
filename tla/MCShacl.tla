------------------------------ MODULE MCShacl -------------------------------
(* Shapes graphs put together from a target, a place for constraints (the  *)
(* focus node, a property, a compound path) and one or two constraints;    *)
(* then shapes with embedded queries, and shapes that refer in a circle.   *)
EXTENDS ShaclValidate

a == Iri("a")
b == Iri("b")
c0 == Iri("c")
m0 == <<"bnode", "m">>
p0 == Iri("p")
q0 == Iri("q")
r0 == Iri("r")
C == Iri("C")
D == Iri("D")
dg == Iri("default")
Yes == <<"xbool", "true">>
List(ts) == <<"list", ts>>
T3(s, r, o) == [g |-> dg, s |-> s, p |-> r, o |-> o]
MkStore(quads) ==
    [quads |-> quads, reified |-> <<>>,
     known |-> {dg, C} \cup UNION {{quads[i].s, quads[i].p, quads[i].o} : i \in 1..Len(quads)}]
MCStores == {
    MkStore(<<T3(a, Iri("type"), C), T3(b, Iri("type"), D), T3(D, Iri("subClassOf"), C), T3(a, p0, b), T3(b, p0, c0),
              T3(c0, p0, a), T3(a, q0, IntLit(1)), T3(a, q0, IntLit(2)), T3(a, r0, IntLit(2)), T3(b, q0, Str("a")),
              T3(b, r0, Str("b")), T3(c0, q0, b), T3(c0, r0, b)>>),
    MkStore(<<T3(a, Iri("type"), D), T3(D, Iri("subClassOf"), C), T3(a, p0, m0), T3(m0, p0, Str("1")),
              T3(a, q0, <<"lang", "a", "en">>), T3(a, q0, <<"lang", "b", "EN">>), T3(a, q0, m0),
              T3(m0, q0, <<"odd", "x", "integer">>), T3(m0, q0, <<"xstr", "12">>), T3(a, r0, <<"lang", "a", "en">>),
              T3(b, q0, <<"xbool", "1">>), T3(b, r0, <<"xbool", "0">>), T3(b, Iri("type"), C)>>)}

S == Iri("S")
T == Iri("T")
U == Iri("U")
P1 == <<"bnode", "P1">>
P2 == <<"bnode", "P2">>
K1 == <<"bnode", "K1">>
X1 == <<"bnode", "X1">>
X2 == <<"bnode", "X2">>
About(s, fragment) == [i \in 1..Len(fragment) |-> <<s, fragment[i][1], fragment[i][2]>>]
Header == <<<<S, "type", Iri("NodeShape")>>>>
Inner == <<<<T, "property", X1>>, <<X1, "path", q0>>, <<X1, "minCount", IntLit(1)>>, <<X1, "maxLength", IntLit(1)>>,
           <<U, "type", Iri("NodeShape")>>, <<U, "nodeKind", Iri("IRI")>>, <<U, "or", List(<<C, T>>)>>>>

MCTargets == {
    <<<<S, "targetClass", C>>>>,
    <<<<S, "targetSubjectsOf", p0>>, <<S, "targetNode", Iri("absent")>>>>,
    <<<<S, "targetObjectsOf", q0>>, <<S, "targetNode", Str("lit")>>>>}
OneTarget == <<<<S, "targetClass", C>>, <<S, "targetObjectsOf", p0>>>>

(* One constraint each, some with an attribute.                            *)
Fragments == {
    <<<<"minCount", IntLit(2)>>>>, <<<<"maxCount", IntLit(0)>>>>, <<<<"maxCount", IntLit(1)>>>>,
    <<<<"class", C>>, <<"class", D>>>>, <<<<"datatype", Iri("xsd:integer")>>>>, <<<<"nodeKind", Iri("BlankNodeOrLiteral")>>>>,
    <<<<"hasValue", b>>>>, <<<<"in", List(<<IntLit(1), b, a>>)>>>>, <<<<"minLength", IntLit(2)>>>>,
    <<<<"maxLength", IntLit(1)>>, <<"deactivated", Str("true")>>>>, <<<<"pattern", Str("^a")>>>>,
    <<<<"pattern", Str(".")>>, <<"flags", Str("i")>>>>, <<<<"pattern", Str("(")>>>>,
    <<<<"languageIn", List(<<Str("en")>>)>>>>, <<<<"uniqueLang", Yes>>>>, <<<<"equals", r0>>>>, <<<<"disjoint", r0>>>>,
    <<<<"lessThan", r0>>>>, <<<<"lessThanOrEquals", r0>>>>, <<<<"minInclusive", IntLit(2)>>>>,
    <<<<"maxExclusive", IntLit(2)>>, <<"severity", Iri("Warning")>>>>, <<<<"minExclusive", m0>>>>, <<<<"node", T>>>>,
    <<<<"qualifiedValueShape", T>>, <<"qualifiedMinCount", IntLit(1)>>, <<"qualifiedMaxCount", IntLit(1)>>>>,
    <<<<"not", U>>>>, <<<<"and", List(<<T, U>>)>>>>, <<<<"or", List(<<U, T>>)>>>>, <<<<"xone", List(<<T, U, C>>)>>>>}

(* Where constraints go.                                                   *)
Property(node, path) == <<<<S, "property", node>>, <<node, "path", path>>>>
Compound == {
    <<List(<<p0, q0>>), <<>>>>,
    <<X2, <<<<X2, "zeroOrMorePath", p0>>>>>>,
    <<X2, <<<<X2, "oneOrMorePath", List(<<p0, K1>>)>>, <<K1, "alternativePath", List(<<p0, q0, r0>>)>>>>>>,
    <<X2, <<<<X2, "inversePath", K1>>, <<K1, "zeroOrOnePath", p0>>>>>>,
    <<X2, <<<<X2, "alternativePath", List(<<X2, q0>>)>>>>>>,
    <<X2, <<<<X2, "inversePath", X2>>>>>>}
OnFocus(f) == About(S, f)
OnProperty(f, path) == Property(P1, path) \o About(P1, f)
CoreGraphs ==
    {Header \o t \o OnFocus(f) \o Inner : t \in MCTargets, f \in Fragments}
    \cup {Header \o t \o OnProperty(f, q0) \o Inner : t \in MCTargets, f \in Fragments}
    \cup {Header \o OneTarget \o OnProperty(f \o h, q0) \o Inner : f, h \in Fragments}
    \cup {Header \o OneTarget \o OnFocus(f) \o OnProperty(h, p0) \o Inner : f, h \in Fragments}
    \cup {Header \o OneTarget \o OnProperty(f, k[1]) \o k[2] \o Inner : k \in Compound, f \in Fragments}
    \cup {Header \o OneTarget \o <<<<S, "path", q0>>>> \o OnFocus(f) \o Inner : f \in Fragments}

(* Two properties, a closed shape, disjoint qualified shapes, a class that *)
(* is a shape, deactivated shapes.                                         *)
OtherGraphs == {
    Header \o OneTarget \o OnProperty(<<<<"qualifiedValueShape", T>>, <<"qualifiedMinCount", IntLit(1)>>,
                                        <<"qualifiedValueShapesDisjoint", Yes>>>>, p0)
        \o Property(P2, p0) \o About(P2, <<<<"qualifiedValueShape", U>>, <<"qualifiedMaxCount", IntLit(0)>>>>) \o Inner,
    Header \o OneTarget \o <<<<S, "closed", Yes>>, <<S, "ignoredProperties", List(<<Iri("type"), Str("x")>>)>>>>
        \o OnProperty(<<<<"minCount", IntLit(1)>>, <<"hasValue", b>>>>, p0) \o Inner,
    <<<<C, "type", Iri("rdfs:Class")>>>> \o <<<<C, "property", P1>>, <<P1, "path", p0>>, <<P1, "nodeKind", Iri("IRI")>>,
        <<P1, "deactivated", <<"bool", "false">>>>, <<P1, "severity", Str("Info")>>>>,
    Header \o OneTarget \o <<<<S, "property", P2>>, <<S, "path", q0>>, <<S, "maxCount", IntLit(1)>>>> \o Property(P1, p0)
        \o <<<<P1, "maxCount", <<"odd", "1", "byte">>>>>>,
    Header \o OneTarget \o <<<<S, "deactivated", Yes>>, <<S, "in", List(<<>>)>>>>,
    Header \o OneTarget \o OnProperty(<<<<"languageIn", List(<<Str("*")>>)>>, <<"maxInclusive", Str("1")>>>>, q0)}

(* Shapes that refer to shapes, in a circle or not.                        *)
Ref(s, how, o) == <<s, how, IF how \in {"and", "or", "xone"} THEN List(<<o>>) ELSE o>>
Hows == {"not", "or", "node", "qualifiedValueShape"}
ViaProperty(node, how, o) == <<<<T, "property", node>>, <<node, "path", p0>>, Ref(node, how, o)>>
RefGraphs ==
    {<<<<S, "targetNode", a>>, Ref(S, h, T)>> \o ViaProperty(X1, k, o) : h, k \in Hows, o \in {S, T, U}}
    \cup {<<<<S, "targetNode", a>>, Ref(S, h, T), <<T, "property", X1>>, Ref(X1, k, S)>> : h, k \in Hows}
    \cup {<<<<S, "targetNode", a>>, <<T, "type", Iri("PropertyShape")>>, <<T, "path", q0>>, Ref(T, k, T)>> : k \in Hows}

-----------------------------------------------------------------------------
(* Queries.                                                                *)

EVar(v) == [expr |-> "Variable", name |-> v]
Column(v) == [elem |-> "Variable", var |-> v]
As(e, v) == [elem |-> "Expression", value |-> e, var |-> v]
Agg(f, v) == [expr |-> "Aggregate", name |-> f, arg |-> EVar(v), distinct |-> FALSE]
Bgp(s, r, o) == [op |-> "BGP", patterns |-> <<Pattern(s, r, o)>>]
This == Var("this")
Base == [form |-> "Select", clause |-> <<Bgp(This, q0, Var("value"))>>, projection |-> <<Column("this"), Column("value")>>,
         from |-> <<>>, distinct |-> FALSE, group_by |-> <<>>, having |-> <<>>, order_by |-> <<>>, offset |-> 0,
         limit |-> Unlimited, resources |-> <<>>, template |-> <<>>]
PathStep == [op |-> "PathPattern", s |-> This, path |-> [path |-> "PATH"], o |-> Var("value")]
MCQueries ==
    [rows |-> Base,
     noThis |-> [Base EXCEPT !.projection = <<Column("value")>>, !.distinct = TRUE],
     first |-> [Base EXCEPT !.limit = 1],
     afterFirst |-> [Base EXCEPT !.offset = 1],
     counted |-> [Base EXCEPT !.projection = <<As(Agg("Count", "value"), "k")>>],
     byThis |-> [Base EXCEPT !.projection = <<Column("this"), As(Agg("Count", "value"), "k")>>,
                             !.group_by = <<[key |-> EVar("this"), alias |-> ""]>>],
     byValue |-> [Base EXCEPT !.group_by = <<[key |-> EVar("value"), alias |-> ""]>>],
     having |-> [Base EXCEPT !.having = <<Binary(Agg("Count", "value"), ">", Constant(IntLit(1)))>>,
                             !.projection = <<Column("this")>>],
     path |-> [Base EXCEPT !.clause = <<PathStep>>, !.projection = <<[elem |-> "Star", var |-> ""]>>],
     ownPath |-> [Base EXCEPT !.clause = <<[PathStep EXCEPT !.path = [path |-> "OneOrMore", inner |-> [path |-> "Iri", iri |-> p0]]],
                                           Bgp(Var("value"), Var("path"), Var("y"))>>,
                              !.projection = <<Column("this"), Column("value"), Column("path")>>],
     filtered |-> [Base EXCEPT !.clause = Append(@, [op |-> "Filter", condition |-> Binary(EVar("value"), "=", EVar("size"))])],
     ask |-> [Base EXCEPT !.form = "Ask"],
     askSize |-> [Base EXCEPT !.form = "Ask", !.clause = <<[op |-> "Filter", condition |-> Binary(EVar("value"), "=", EVar("size"))]>>],
     remote |-> [Base EXCEPT !.clause = <<[op |-> "Service", endpoint |-> Iri("e"), inner |-> <<>>, silent |-> FALSE]>>],
     construct |-> [Base EXCEPT !.form = "Construct"]]
MCPreResolved == <<>>
Query(name) == <<"query", name>>
Names == DOMAIN MCQueries \cup {"broken"}

SparqlOn(s, form, name) == <<<<s, "sparql", K1>>, <<K1, form, Query(name)>>>>
SparqlTarget(name) == <<<<S, "target", X1>>, <<X1, "select", Query(name)>>>>
Parameter(node, name, optional) ==
    <<<<Iri("Sized"), "parameter", node>>, <<node, "path", Iri(name)>>>> \o (IF optional THEN <<<<node, "optional", Yes>>>> ELSE <<>>)
Component(which, form, name) ==
    <<<<Iri("Sized"), "type", Iri("ConstraintComponent")>>>> \o Parameter(X1, "size", FALSE) \o Parameter(X2, "unit", TRUE)
    \o <<<<Iri("Sized"), which, K1>>, <<K1, form, Query(name)>>>>
Whiches == {"validator", "nodeValidator", "propertyValidator"}
QueryGraphs ==
    {Header \o OneTarget \o SparqlOn(s, f, nm) \o OnProperty(<<>>, path)
        : s \in {S, P1}, f \in {"select", "ask"}, nm \in Names, path \in {q0, List(<<p0, q0>>)}}
    \cup {Header \o SparqlTarget(nm) \o <<<<S, "nodeKind", Iri("IRI")>>>> : nm \in Names}
    \cup {Header \o OneTarget \o Component(w, f, nm) \o OnProperty(<<<<"size", IntLit(1)>>>>, q0)
              \o <<<<S, "size", Str("a")>>, <<S, "unit", b>>>>
          : w \in Whiches, f \in {"select", "ask"}, nm \in {"filtered", "path", "ask", "askSize", "broken", "remote"}}
    \cup {Header \o OneTarget \o SparqlOn(S, "select", "rows") \o <<<<K1, "severity", Iri("Info")>>>>,
          Header \o SparqlOn(S, "select", "rows"),
          Header \o OneTarget \o <<<<S, "sparql", K1>>>>}

MCShapesGraphs == CoreGraphs \cup OtherGraphs \cup RefGraphs \cup QueryGraphs
=============================================================================
