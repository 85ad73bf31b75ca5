---------------------------- MODULE ShaclShapes -----------------------------
(***************************************************************************)
(* Reading a SHACL shapes graph (shacl/src/shapes.rs, path.rs, graph.rs):  *)
(* which nodes are shapes, what each one says, property paths, SPARQL      *)
(* constraints and constraint components, and the check for shapes that    *)
(* refer to themselves.                                                    *)
(*                                                                         *)
(* The shapes graph is a sequence of triples <<s, p, o>>, p a string.  An  *)
(* RDF list is one term <<"list", members>>.  The text of an embedded      *)
(* query is a term <<"query", name>>; Queries maps the names that parse to *)
(* their queries.  Messages are left out.                                  *)
(***************************************************************************)
EXTENDS SparqlEval

CONSTANT Queries

VARIABLES shapes,   \* the shapes graph
          parsed    \* parse_one_shape of every node that can be one; empty before the graph is read

-----------------------------------------------------------------------------
(* The graph.                                                              *)

get_objects(n, p) ==
    LET ts == SelectSeq(shapes, LAMBDA t : t[1] = n /\ t[2] = p) IN [i \in 1..Len(ts) |-> ts[i][3]]
First(seq) == IF seq = <<>> THEN None ELSE seq[1]
get_object(n, p) == First(get_objects(n, p))
rdf_list(n) == IF Kind(n) = "list" THEN n[2] ELSE <<>>
IsIri(t) == Kind(t) = "iri"

(* Numbers and booleans are read from the lexical form of any typed        *)
(* literal, whatever its datatype.                                         *)
IsTyped(t) == Kind(t) \in {"xstr", "xbool", "odd"} \/ (IsNum(t) /\ t[2] = "typed")
elem_to_u64(t) ==
    CASE IsNum(t) -> IF t[3] = "integer" /\ Numerator(t) >= 0 THEN Numerator(t) ELSE -1
      [] IsTyped(t) /\ ~ IsNum(t) -> IF t[2] \in DOMAIN LexicalInteger THEN LexicalInteger[t[2]] ELSE -1
      [] OTHER -> -1
elem_to_bool(t) == (Kind(t) = "bool" \/ IsTyped(t)) /\ ~ IsNum(t) /\ t[2] = "true"
literal_string(t) == IF Kind(t) = "str" \/ IsTyped(t) THEN <<Lexical(t)>> ELSE <<>>
is_deactivated(n) == elem_to_bool(get_object(n, "deactivated"))

-----------------------------------------------------------------------------
(* Paths, in the shape of SPARQL's except for the n-ary alternative.       *)

NoPath == [path |-> "None"]
PathOperators == <<<<"inversePath", "Inverse">>, <<"zeroOrMorePath", "ZeroOrMore">>,
                   <<"oneOrMorePath", "OneOrMore">>, <<"zeroOrOnePath", "ZeroOrOne">>>>

RECURSIVE parse_path_inner(_, _)
Wrapped(kind, inner) == IF inner = NoPath THEN NoPath ELSE [path |-> kind, inner |-> inner]
Sequenced(members) == CASE members = <<>> -> NoPath [] Len(members) = 1 -> members[1]
                        [] OTHER -> [path |-> "Sequence", steps |-> members]
ReadableMembers(list, seen) ==
    SelectSeq([i \in 1..Len(list) |-> parse_path_inner(list[i], seen)], LAMBDA m : m # NoPath)

(* A node met again on the way down is no path, and neither is anything    *)
(* around it, except that a list drops the members that are none.          *)
parse_path_inner(n, seen) ==
    LET ops == SelectSeq(PathOperators, LAMBDA r : get_objects(n, r[1]) # <<>>)
        below == seen \cup {n}
    IN  CASE n \in seen -> NoPath
          [] n \notin seen /\ IsIri(n) -> [path |-> "Iri", iri |-> n]
          [] n \notin seen /\ ~ IsIri(n) /\ rdf_list(n) # <<>> -> Sequenced(ReadableMembers(rdf_list(n), below))
          [] OTHER ->
                IF ops # <<>> THEN Wrapped(ops[1][2], parse_path_inner(get_object(n, ops[1][1]), below))
                ELSE LET branches == ReadableMembers(rdf_list(get_object(n, "alternativePath")), below)
                     IN  IF branches = <<>> THEN NoPath ELSE [path |-> "Alternative", branches |-> branches]
parse_path(n) == parse_path_inner(n, {})

-----------------------------------------------------------------------------
(* Constraints: predicate, kind, and how its value is read, in the order   *)
(* of parse_prop_constraints.                                              *)

ConstraintTable == <<
    <<"minCount", "number">>, <<"maxCount", "number">>, <<"class", "iris">>, <<"datatype", "iri">>,
    <<"nodeKind", "kind">>, <<"hasValue", "term">>, <<"in", "list">>, <<"minLength", "number">>,
    <<"maxLength", "number">>, <<"pattern", "pattern">>, <<"languageIn", "texts">>, <<"uniqueLang", "flag">>,
    <<"equals", "iri">>, <<"disjoint", "iri">>, <<"lessThan", "iri">>, <<"lessThanOrEquals", "iri">>,
    <<"minInclusive", "term">>, <<"maxInclusive", "term">>, <<"minExclusive", "term">>, <<"maxExclusive", "term">>,
    <<"node", "term">>, <<"qualifiedValueShape", "qualified">>>>

parse_node_kind == [IRI |-> {"iri"}, Literal |-> {"literal"}, BlankNode |-> {"bnode"},
                    BlankNodeOrIRI |-> {"bnode", "iri"}, BlankNodeOrLiteral |-> {"bnode", "literal"},
                    IRIOrLiteral |-> {"iri", "literal"}]

Qualified(n, id) ==
    [id |-> id, min |-> elem_to_u64(get_object(n, "qualifiedMinCount")),
     max |-> elem_to_u64(get_object(n, "qualifiedMaxCount")),
     disjoint |-> elem_to_bool(get_object(n, "qualifiedValueShapesDisjoint"))]

(* The readings of one row: no, one or (sh:class) several constraints.     *)
ReadConstraint(n, row) ==
    LET all == get_objects(n, row[1])
        v == First(all)
        One(b, arg) == IF b THEN <<<<row[1], arg>>>> ELSE <<>>
        IriArgs == SelectSeq(all, IsIri)
    IN  IF all = <<>> THEN <<>>
        ELSE CASE row[2] = "number" -> One(elem_to_u64(v) # -1, elem_to_u64(v))
               [] row[2] = "iris" -> [i \in 1..Len(IriArgs) |-> <<row[1], IriArgs[i]>>]
               [] row[2] = "iri" -> One(IsIri(v), v)
               [] row[2] = "kind" -> IF IsIri(v) /\ v[2] \in DOMAIN parse_node_kind
                                     THEN <<<<row[1], parse_node_kind[v[2]]>>>> ELSE <<>>
               [] row[2] = "term" -> One(TRUE, v)
               [] row[2] = "list" -> One(TRUE, rdf_list(v))
               [] row[2] = "pattern" -> One(literal_string(v) # <<>>,
                                            literal_string(v) \o literal_string(get_object(n, "flags")))
               [] row[2] = "texts" -> One(TRUE, ConcatAll([i \in 1..Len(rdf_list(v)) |-> literal_string(rdf_list(v)[i])]))
               [] row[2] = "flag" -> One(elem_to_bool(v), TRUE)
               [] row[2] = "qualified" -> One(TRUE, Qualified(n, v))
parse_prop_constraints(n) == ConcatAll([i \in 1..Len(ConstraintTable) |-> ReadConstraint(n, ConstraintTable[i])])

-----------------------------------------------------------------------------
(* SPARQL constraints and constraint components.                           *)

(* sh:select before sh:ask; a node with neither is skipped.                *)
ReadQuery(n) ==
    LET t == IF get_object(n, "select") # None THEN get_object(n, "select") ELSE get_object(n, "ask")
    IN  IF Kind(t) # "query" THEN <<>>
        ELSE <<[query |-> t[2], is_ask |-> get_object(n, "select") = None]>>
ReadSeverity(n) == IF IsIri(get_object(n, "severity")) THEN get_object(n, "severity")[2] ELSE "none"
parse_sparql_constraints(n) ==
    LET nodes == get_objects(n, "sparql")
        Read(m) == LET q == ReadQuery(m)
                   IN  IF q = <<>> THEN <<>>
                       ELSE <<[query |-> q[1].query, is_ask |-> q[1].is_ask, severity |-> ReadSeverity(m)]>>
    IN  ConcatAll([i \in 1..Len(nodes) |-> Read(nodes[i])])

(* A parameter's variable is named by its predicate's local name.          *)
ReadParameter(p) ==
    IF IsIri(get_object(p, "path"))
    THEN <<[path |-> get_object(p, "path")[2], optional |-> elem_to_bool(get_object(p, "optional"))]>> ELSE <<>>
Validator(c, p) == IF get_object(c, p) = None THEN <<>> ELSE ReadQuery(get_object(c, p))
ReadComponent(c) ==
    LET ps == get_objects(c, "parameter")
        parameters == ConcatAll([i \in 1..Len(ps) |-> ReadParameter(ps[i])])
        validators == [any |-> Validator(c, "validator"), node |-> Validator(c, "nodeValidator"),
                       property |-> Validator(c, "propertyValidator")]
    IN  IF parameters = <<>> \/ \A k \in DOMAIN validators : validators[k] = <<>> THEN <<>>
        ELSE <<[id |-> c, parameters |-> parameters, validators |-> validators]>>
SubjectsOfType(type) == LET ts == SelectSeq(shapes, LAMBDA t : t[2] = "type" /\ t[3] = Iri(type))
                        IN  [i \in 1..Len(ts) |-> ts[i][1]]
parse_constraint_components ==
    LET cs == SubjectsOfType("ConstraintComponent") IN ConcatAll([i \in 1..Len(cs) |-> ReadComponent(cs[i])])

(* A shape uses a component when it has a value for every parameter that   *)
(* is not optional; the first value counts.                                *)
find_component_invocations(n, components) ==
    LET Uses(c) == \A p \in Range(c.parameters) : p.optional \/ get_object(n, p.path) # None
        Given(c) == SelectSeq(c.parameters, LAMBDA p : get_object(n, p.path) # None)
        Invocation(c) == [component |-> c.id, validators |-> c.validators,
                          names |-> [i \in 1..Len(Given(c)) |-> Given(c)[i].path],
                          values |-> [i \in 1..Len(Given(c)) |-> get_object(n, Given(c)[i].path)]]
        used == SelectSeq(components, Uses)
    IN  [i \in 1..Len(used) |-> Invocation(used[i])]

-----------------------------------------------------------------------------
(* Shapes.                                                                 *)

Combinators(n) ==
    [negated |-> SubSeq(get_objects(n, "not"), 1, IF get_objects(n, "not") = <<>> THEN 0 ELSE 1),
     all |-> rdf_list(get_object(n, "and")), any |-> rdf_list(get_object(n, "or")),
     one |-> rdf_list(get_object(n, "xone"))]
NoCombinators == [negated |-> <<>>, all |-> <<>>, any |-> <<>>, one |-> <<>>]

PropShape(n, idx, path, components) ==
    [idx |-> idx, id |-> n, path |-> path, constraints |-> parse_prop_constraints(n),
     deactivated |-> is_deactivated(n), combinators |-> Combinators(n), severity |-> ReadSeverity(n),
     sparql |-> parse_sparql_constraints(n), invocations |-> find_component_invocations(n, components)]

(* The index of a property shape is its place among all sh:property        *)
(* values, also the ones that are skipped for want of a path.              *)
parse_property_shapes(n, components) ==
    LET ps == get_objects(n, "property")
        Read(i) == LET path == parse_path(get_object(ps[i], "path"))
                   IN  IF get_object(ps[i], "path") = None \/ path = NoPath THEN <<>>
                       ELSE <<PropShape(ps[i], i - 1, path, components)>>
    IN  ConcatAll([i \in 1..Len(ps) |-> Read(i)])

(* sh:path on the shape itself makes it one more property shape.           *)
DirectShape(n, others, components) ==
    LET path == parse_path(get_object(n, "path"))
        prop == PropShape(n, Len(others), path, components)
    IN  IF get_object(n, "path") = None \/ path = NoPath THEN <<>>
        ELSE IF prop.constraints = <<>> /\ prop.combinators = NoCombinators THEN <<>> ELSE <<prop>>

parse_targets(n) ==
    LET Named(p, kind) == LET os == SelectSeq(get_objects(n, p), IsIri)
                          IN  [i \in 1..Len(os) |-> <<kind, os[i]>>]
        nodes == get_objects(n, "targetNode")
        queries == SelectSeq(get_objects(n, "target"), LAMBDA t : Kind(get_object(t, "select")) = "query")
    IN  [i \in 1..Len(nodes) |-> <<"Node", nodes[i]>>]
        \o Named("targetClass", "Class") \o Named("targetSubjectsOf", "SubjectsOf") \o Named("targetObjectsOf", "ObjectsOf")
        \o [i \in 1..Len(queries) |-> <<"Sparql", get_object(queries[i], "select")[2]>>]
        \o (IF IsIri(n) /\ Iri("rdfs:Class") \in Range(get_objects(n, "type")) THEN <<<<"Class", n>>>> ELSE <<>>)

(* Which predicates a closed shape allows: its simple paths and the        *)
(* ignored ones.                                                           *)
parse_closed(n, props) ==
    [on |-> elem_to_bool(get_object(n, "closed")),
     allowed |-> {p.path.iri : p \in {x \in Range(props) : x.path.path = "Iri"}}
                 \cup {t \in Range(rdf_list(get_object(n, "ignoredProperties"))) : IsIri(t)}]

(* A shape with a path of its own has no constraints on the focus node,    *)
(* except sh:nodeKind and the logical ones, which are read here as well.   *)
ShapeOf(n, props, components) ==
    LET has_direct_path == get_object(n, "path") # None
        kind == ReadConstraint(n, <<"nodeKind", "kind">>)
    IN  [id |-> n, targets |-> parse_targets(n), property_shapes |-> props, closed |-> parse_closed(n, props),
         combinators |-> Combinators(n), node_kind |-> kind, deactivated |-> is_deactivated(n),
         node_constraints |-> IF has_direct_path THEN <<>>
                              ELSE SelectSeq(parse_prop_constraints(n), LAMBDA c : c[1] # "nodeKind"),
         severity |-> IF ReadSeverity(n) = "none" THEN "Violation" ELSE ReadSeverity(n),
         sparql |-> IF has_direct_path THEN <<>> ELSE parse_sparql_constraints(n),
         invocations |-> IF has_direct_path THEN <<>> ELSE find_component_invocations(n, components)]
parse_one_shape(n, components) ==
    LET props == parse_property_shapes(n, components)
    IN  ShapeOf(n, props \o DirectShape(n, props, components), components)

(* Nodes typed as shapes or classes, then nodes that declare a target.     *)
TargetPredicates == <<"targetNode", "targetClass", "targetSubjectsOf", "targetObjectsOf">>
parse_shapes ==
    LET SubjectsWith(p) == LET ts == SelectSeq(shapes, LAMBDA t : t[2] = p) IN [i \in 1..Len(ts) |-> ts[i][1]]
    IN  Deduplicated(SubjectsOfType("NodeShape") \o SubjectsOfType("PropertyShape") \o SubjectsOfType("rdfs:Class")
                     \o ConcatAll([i \in 1..4 |-> SubjectsWith(TargetPredicates[i])]))

(* Every node a shape may refer to.                                        *)
ShapeNodes == UNION {{t[1], t[3]} \cup Range(rdf_list(t[3])) : t \in Range(shapes)}
ParseAll(components) == [n \in ShapeNodes |-> parse_one_shape(n, components)]

-----------------------------------------------------------------------------
(* Which shapes a shape's evaluation may enter.                            *)

CombinedShapes(c) == c.negated \o c.all \o c.any \o c.one
constraint_refs(cs) ==
    LET refs == SelectSeq(cs, LAMBDA c : c[1] \in {"node", "qualifiedValueShape"})
    IN  [i \in 1..Len(refs) |-> IF refs[i][1] = "node" THEN refs[i][2] ELSE refs[i][2].id]

(* Mutant: misses the logical constraints of property shapes.              *)
NodeReferencesOnly(n) ==
    LET s == parsed[n]
    IN  CombinedShapes(s.combinators)
        \o ConcatAll([i \in 1..Len(s.property_shapes) |-> constraint_refs(s.property_shapes[i].constraints)])
        \o constraint_refs(s.node_constraints)

shape_references(n) ==
    LET s == parsed[n]
    IN  CombinedShapes(s.combinators)
        \o ConcatAll([i \in 1..Len(s.property_shapes) |->
                        constraint_refs(s.property_shapes[i].constraints)
                        \o CombinedShapes(s.property_shapes[i].combinators)])
        \o constraint_refs(s.node_constraints)

(* Depth first over the references in `todo`; `path` is the search stack   *)
(* and `done` the finished nodes.  The result is the cycle found, if any,  *)
(* and what is finished.                                                   *)
RECURSIVE dfs_find_cycle(_, _, _)
AfterFirst(first, todo, path) ==
    IF first.cycle # <<>> THEN first ELSE dfs_find_cycle(Tail(todo), path, first.done \cup {Head(todo)})
dfs_find_cycle(todo, path, done) ==
    IF todo = <<>> THEN [cycle |-> <<>>, done |-> done]
    ELSE IF Head(todo) \in done THEN dfs_find_cycle(Tail(todo), path, done)
    ELSE IF Head(todo) \in Range(path)
    THEN LET start == CHOOSE i \in 1..Len(path) : path[i] = Head(todo)
         IN  [cycle |-> Append(SubSeq(path, start, Len(path)), Head(todo)), done |-> done]
    ELSE AfterFirst(dfs_find_cycle(shape_references(Head(todo)), Append(path, Head(todo)), done), todo, path)
find_shape_reference_cycle(roots) == dfs_find_cycle(roots, <<>>, {}).cycle
=============================================================================
