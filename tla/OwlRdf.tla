------------------------------- MODULE OwlRdf -------------------------------
(***************************************************************************)
(* The translation of an ontology into RDF triples                         *)
(* (owl2rl2datalog/src/owl_to_rdf.rs).  A triple is <<node, predicate IRI, *)
(* node>>.                                                                 *)
(***************************************************************************)
EXTENDS OwlOntology, FiniteSetsExt, TLC

\* T(individual): an anonymous individual is the same node wherever it is named.
intern_individual(ind) ==
  IF ind[1] = "NamedIndividual" THEN IriNode(ind[2]) ELSE BlankNode(<<0>> \o ind[2])

\* T(annotation value); a value is an IRI or literal node or an individual.
annotation_value(v) ==
  IF v[1] \in {"NamedIndividual", "AnonymousIndividual"} THEN intern_individual(v) ELSE v

\* The rdf:List of `ids`, its cells made for the place `path`.
Cell(path, ids, i) == IF i > Len(ids) THEN IriNode("rdf:nil") ELSE BlankNode(path \o <<0, i>>)
rdf_list(path, ids) ==
  UNION {{<<Cell(path, ids, i), "rdf:first", ids[i]>>,
          <<Cell(path, ids, i), "rdf:rest", Cell(path, ids, i + 1)>>} : i \in DOMAIN ids}

\* The predicates that tie an expression's node to its arguments, in order, as
\* the functions that build the nodes emit them.
class_expression_list ==
  [ObjectUnionOf |-> <<"owl:unionOf">>, ObjectIntersectionOf |-> <<"owl:intersectionOf">>]
object_class_expression ==
  [ObjectComplementOf |-> <<"owl:complementOf">>, ObjectOneOf |-> <<"owl:oneOf">>,
   ObjectSomeValuesFrom |-> <<"owl:onProperty", "owl:someValuesFrom">>,
   ObjectAllValuesFrom |-> <<"owl:onProperty", "owl:allValuesFrom">>,
   ObjectHasValue |-> <<"owl:onProperty", "owl:hasValue">>,
   ObjectHasSelf |-> <<"owl:onProperty">>,
   ObjectMinCardinality |-> <<"owl:minCardinality", "owl:onProperty">>,
   ObjectMaxCardinality |-> <<"owl:maxCardinality", "owl:onProperty">>,
   ObjectExactCardinality |-> <<"owl:cardinality", "owl:onProperty">>,
   ObjectMinQualifiedCardinality |->
     <<"owl:minQualifiedCardinality", "owl:onProperty", "owl:onClass">>,
   ObjectMaxQualifiedCardinality |->
     <<"owl:maxQualifiedCardinality", "owl:onProperty", "owl:onClass">>,
   ObjectExactQualifiedCardinality |->
     <<"owl:qualifiedCardinality", "owl:onProperty", "owl:onClass">>]
data_class_expression ==
  [DataSomeValuesFrom |-> <<"owl:onProperties", "owl:someValuesFrom">>,
   DataAllValuesFrom |-> <<"owl:onProperties", "owl:allValuesFrom">>,
   DataHasValue |-> <<"owl:onProperty", "owl:hasValue">>,
   DataMinCardinality |-> <<"owl:minCardinality", "owl:onProperty">>,
   DataMaxCardinality |-> <<"owl:maxCardinality", "owl:onProperty">>,
   DataExactCardinality |-> <<"owl:cardinality", "owl:onProperty">>,
   DataMinQualifiedCardinality |->
     <<"owl:minQualifiedCardinality", "owl:onProperty", "owl:onDataRange">>,
   DataMaxQualifiedCardinality |->
     <<"owl:maxQualifiedCardinality", "owl:onProperty", "owl:onDataRange">>,
   DataExactQualifiedCardinality |->
     <<"owl:qualifiedCardinality", "owl:onProperty", "owl:onDataRange">>]
data_range_list ==
  [DataIntersectionOf |-> <<"owl:intersectionOf">>, DataUnionOf |-> <<"owl:unionOf">>]
data_range ==
  [DataComplementOf |-> <<"owl:datatypeComplementOf">>, DataOneOf |-> <<"owl:oneOf">>,
   DatatypeRestriction |-> <<"owl:onDatatype", "owl:withRestrictions">>]
StructurePredicates ==
  class_expression_list @@ object_class_expression @@ data_class_expression
  @@ data_range_list @@ data_range

StructureType(constructor) ==
  IF constructor \in DOMAIN DataRange THEN "rdfs:Datatype"
  ELSE IF constructor \in {"ObjectUnionOf", "ObjectIntersectionOf", "ObjectComplementOf",
                           "ObjectOneOf"} THEN "owl:Class"
  ELSE "owl:Restriction"

Encoded(id, triples) == [ok |-> TRUE, id |-> id, triples |-> triples]
NotEncoded(triples) == [ok |-> FALSE, id |-> IriNode("rdf:nil"), triples |-> triples]

\* owl:onProperty for one data property, owl:onProperties for a list of others.
data_restriction_node(node, path, ids) ==
  IF Len(ids) = 1 THEN {<<node, "owl:onProperty", ids[1]>>}
  ELSE {<<node, "owl:onProperties", Cell(path, ids, 1)>>} \cup rdf_list(path, ids)

\* The triples of a node for `form` whose arguments were encoded as `parts`;
\* owl:hasSelf has a value of its own.
StructureTriples(form, path, parts) ==
  LET node == BlankNode(path)
      preds == StructurePredicates[form[1]]
      roles == Roles(form[1])
      Tie(i) == IF roles[i] \notin DOMAIN ListOf THEN {<<node, preds[i], parts[i].id>>}
                ELSE IF roles[i] = "dprops"
                THEN data_restriction_node(node, path \o <<i>>, parts[i].id)
                ELSE {<<node, preds[i], Cell(path \o <<i>>, parts[i].id, 1)>>}
                     \cup rdf_list(path \o <<i>>, parts[i].id)
  IN {<<node, "rdf:type", IriNode(StructureType(form[1]))>>}
     \cup UNION {Tie(i) : i \in DOMAIN parts}
     \cup (IF form[1] = "ObjectHasSelf"
           THEN {<<node, "owl:hasSelf", Literal("xsd:boolean", "true")>>} ELSE {})

\* The nodes of named properties; an inverse has none.
named_object_property(x) ==
  IF x[1] = "NamedObjectProperty" THEN Encoded(IriNode(x[2]), {}) ELSE NotEncoded({})
non_negative_integer(n) == Literal("xsd:nonNegativeInteger", n)

\* class_expression, data_range, named_object_property and the sequences of
\* them: the node of an argument, or that it has none, and the triples added
\* on the way, also when an enclosing node is not formed.  A sequence stops at
\* the first member that has no node.
RECURSIVE class_expression(_, _, _)
class_expression(role, x, path) ==
  CASE role \in DOMAIN ListOf ->
         LET parts == [i \in DOMAIN x |->
                         class_expression(ListOf[role], x[i], path \o <<i>>)]
             failed == {i \in DOMAIN x : ~parts[i].ok}
         IN IF failed = {}
            THEN Encoded([i \in DOMAIN x |-> parts[i].id],
                         UNION {parts[i].triples : i \in DOMAIN x})
            ELSE NotEncoded(UNION {parts[i].triples : i \in 1..Min(failed)})
    [] role \in {"dprop", "iri"} -> Encoded(IriNode(x), {})
    [] role = "n" -> Encoded(non_negative_integer(x), {})
    [] role = "ind" -> Encoded(intern_individual(x), {})
    [] role \in {"lit", "node"} -> Encoded(x, {})
    [] role = "facet" -> Encoded(BlankNode(path), {<<BlankNode(path), x[1], x[2]>>})
    [] role = "oprop" -> named_object_property(x)
    [] role \in {"class", "range"} ->
         IF x[1] \in {"ClassName", "NamedDataRange"} THEN Encoded(IriNode(x[2]), {})
         ELSE LET roles == Roles(x[1])
                  parts == [i \in DOMAIN roles |->
                              class_expression(roles[i], x[i + 1], path \o <<i>>)]
                  inner == UNION {parts[i].triples : i \in DOMAIN parts}
              IN IF \A i \in DOMAIN parts : parts[i].ok
                 THEN Encoded(BlankNode(path), inner \cup StructureTriples(x, path, parts))
                 ELSE NotEncoded(inner)

\* emit_axiom_annotations: annotations of annotations are dropped.
annotation_triples(node, anns) ==
  {<<node, anns[j][1], annotation_value(anns[j][2])>> : j \in DOMAIN anns}
emit_axiom_annotations(triple, anns, path) ==
  IF anns = <<>> THEN {}
  ELSE {<<BlankNode(path), "rdf:type", IriNode("owl:Axiom")>>,
        <<BlankNode(path), "owl:annotatedSource", triple[1]>>,
        <<BlankNode(path), "owl:annotatedProperty", IriNode(triple[2])>>,
        <<BlankNode(path), "owl:annotatedTarget", triple[3]>>}
       \cup annotation_triples(BlankNode(path), anns)

\* What an axiom adds once its arguments have nodes: the triples its
\* annotations are about, in order, and the others.
Emitted(main, others) == [main |-> main, others |-> others]
One(s, p, o) == Emitted(<<<<s, p, o>>>>, {})

\* chain: an n-ary axiom as triples between neighbours.
chain(ids, predicate) ==
  Emitted([i \in 1..(Len(ids) - 1) |-> <<ids[i], predicate, ids[i + 1]>>], {})

\* all_disjoint: a node with a list of members and the axiom's annotations;
\* two members have a triple instead.
all_disjoint(type, members, anns, path) ==
  {<<BlankNode(path), "rdf:type", IriNode(type)>>,
   <<BlankNode(path), "owl:members", Cell(path, members, 1)>>}
  \cup rdf_list(path, members) \cup annotation_triples(BlankNode(path), anns)
Disjoint(predicate, type, ids, anns, path) ==
  IF Len(ids) = 2 THEN One(ids[1], predicate, ids[2])
  ELSE Emitted(<<>>, all_disjoint(type, ids, anns, path))

declaration(c, ids) ==
  LET type == [ClassDeclaration |-> "owl:Class", ObjectPropertyDeclaration |-> "owl:ObjectProperty",
               DataPropertyDeclaration |-> "owl:DatatypeProperty",
               DatatypeDeclaration |-> "rdfs:Datatype",
               AnnotationPropertyDeclaration |-> "owl:AnnotationProperty",
               NamedIndividualDeclaration |-> "owl:NamedIndividual"]
  IN One(ids[1], "rdf:type", IriNode(type[c]))

datatype_definition(ids) == One(ids[1], "owl:equivalentClass", ids[2])

class_axiom(c, ids, anns, path) ==
  CASE c = "SubClassOf" -> One(ids[1], "rdfs:subClassOf", ids[2])
    [] c = "EquivalentClasses" -> chain(ids[1], "owl:equivalentClass")
    [] c = "DisjointClasses" ->
         Disjoint("owl:disjointWith", "owl:AllDisjointClasses", ids[1], anns, path)
    [] c = "DisjointUnion" ->
         Emitted(<<<<ids[1], "owl:disjointUnionOf", Cell(path, ids[2], 1)>>>>,
                 {<<ids[1], "rdf:type", IriNode("owl:Class")>>} \cup rdf_list(path, ids[2]))

property_characteristic(c, ids) ==
  LET type == [FunctionalObjectProperty |-> "owl:FunctionalProperty",
               InverseFunctionalObjectProperty |-> "owl:InverseFunctionalProperty",
               ReflexiveObjectProperty |-> "owl:ReflexiveProperty",
               IrreflexiveObjectProperty |-> "owl:IrreflexiveProperty",
               SymmetricObjectProperty |-> "owl:SymmetricProperty",
               AsymmetricObjectProperty |-> "owl:AsymmetricProperty",
               TransitiveObjectProperty |-> "owl:TransitiveProperty"]
  IN One(ids[1], "rdf:type", IriNode(type[c]))

object_property_axiom(c, ids, anns, path) ==
  CASE c = "ObjectPropertyDomain" -> One(ids[1], "rdfs:domain", ids[2])
    [] c = "ObjectPropertyRange" -> One(ids[1], "rdfs:range", ids[2])
    [] c = "SubObjectPropertyOf" -> One(ids[1], "rdfs:subPropertyOf", ids[2])
    [] c = "SubObjectPropertyChainOf" ->
         Emitted(<<<<ids[2], "owl:propertyChainAxiom", Cell(path, ids[1], 1)>>>>,
                 rdf_list(path, ids[1]))
    [] c = "EquivalentObjectProperties" -> chain(ids[1], "owl:equivalentProperty")
    [] c = "DisjointObjectProperties" ->
         Disjoint("owl:propertyDisjointWith", "owl:AllDisjointProperties", ids[1], anns, path)
    [] c = "InverseObjectProperties" -> One(ids[1], "owl:inverseOf", ids[2])
    [] OTHER -> property_characteristic(c, ids)

data_property_axiom(c, ids, anns, path) ==
  CASE c = "SubDataPropertyOf" -> One(ids[1], "rdfs:subPropertyOf", ids[2])
    [] c = "EquivalentDataProperties" -> chain(ids[1], "owl:equivalentProperty")
    [] c = "DisjointDataProperties" ->
         Disjoint("owl:propertyDisjointWith", "owl:AllDisjointProperties", ids[1], anns, path)
    [] c = "DataPropertyDomain" -> One(ids[1], "rdfs:domain", ids[2])
    [] c = "DataPropertyRange" -> One(ids[1], "rdfs:range", ids[2])
    [] c = "FunctionalDataProperty" ->
         One(ids[1], "rdf:type", IriNode("owl:FunctionalProperty"))

\* The triple of a complex class, whose node `assertion` makes first, has the
\* same shape.
atomic_assertion_triple(c, ids) ==
  IF c = "ClassAssertion" THEN One(ids[2], "rdf:type", ids[1]) ELSE One(ids[2], ids[1][2], ids[3])

assertion(c, ids, anns, path) ==
  CASE c = "SameIndividual" -> chain(ids[1], "owl:sameAs")
    [] c = "DifferentIndividuals" ->
         Disjoint("owl:differentFrom", "owl:AllDifferent", ids[1], anns, path)
    [] OTHER -> atomic_assertion_triple(c, ids)

has_key(ids, path) ==
  Emitted(<<<<ids[1], "owl:hasKey", Cell(path, ids[2] \o ids[3], 1)>>>>,
          rdf_list(path, ids[2] \o ids[3]))

annotation_axiom(c, ids) ==
  CASE c = "AnnotationAssertion" -> One(ids[2], ids[1][2], ids[3])
    [] c = "SubAnnotationPropertyOf" -> One(ids[1], "rdfs:subPropertyOf", ids[2])
    [] c = "AnnotationPropertyDomain" -> One(ids[1], "rdfs:domain", ids[2])
    [] c = "AnnotationPropertyRange" -> One(ids[1], "rdfs:range", ids[2])

axiom(c, ids, anns, path) ==
  CASE c \in DOMAIN Entity -> declaration(c, ids)
    [] c \in ClassAxiom -> class_axiom(c, ids, anns, path)
    [] c \in ObjectPropertyAxiom -> object_property_axiom(c, ids, anns, path)
    [] c \in DataPropertyAxiom -> data_property_axiom(c, ids, anns, path)
    [] c \in Assertion -> assertion(c, ids, anns, path)
    [] c \in AnnotationAxiom -> annotation_axiom(c, ids)
    [] c = "HasKey" -> has_key(ids, path)
    [] c = "DatatypeDefinition" -> datatype_definition(ids)

\* skip: the forms without an RDF encoding, whatever their arguments are.
Unsupported(form) ==
  \/ form[1] \in {"NegativeObjectPropertyAssertion", "NegativeDataPropertyAssertion"}
  \/ form[1] = "NamedIndividualDeclaration" /\ form[2][1] = "AnonymousIndividual"

\* The triples added for the k-th axiom, and whether it was skipped.
axiom_triples(a, k) ==
  LET roles == Roles(a.form[1])
      parts == [i \in DOMAIN roles |->
                  IF Unsupported(a.form) THEN NotEncoded({})
                  ELSE class_expression(roles[i], a.form[i + 1], <<k, i>>)]
      Annotated(out) == out.others \cup UNION {{out.main[j]}
                                                 \cup emit_axiom_annotations(out.main[j], a.anns, <<k, 9, j>>)
                                               : j \in DOMAIN out.main}
      All(done) ==
        LET ok == \A i \in DOMAIN done : done[i].ok
        IN [skipped |-> ~ok,
            triples |-> UNION {done[i].triples : i \in DOMAIN done}
              \cup IF ~ok THEN {}
                   ELSE Annotated(axiom(a.form[1], [i \in DOMAIN done |-> done[i].id], a.anns, <<k>>))]
  IN All(parts \o <<>>)

\* ontology_header: an anonymous ontology with nothing to say has no header.
ontology_header(o) ==
  IF o.version = <<>> /\ o.imports = <<>> /\ o.anns = <<>> THEN {}
  ELSE LET subject == IF o.version = <<>> THEN BlankNode(<<0>>) ELSE IriNode(o.version[1])
       IN {<<subject, "rdf:type", IriNode("owl:Ontology")>>}
          \cup {<<subject, "owl:versionIRI", IriNode(o.version[2])>> : v \in 2..Len(o.version)}
          \cup {<<subject, "owl:imports", IriNode(o.imports[i])>> : i \in DOMAIN o.imports}
          \cup annotation_triples(subject, o.anns)

owl2rdf(o) ==
  LET Result(added) ==
        [graph |-> ontology_header(o) \cup UNION {added[k].triples : k \in DOMAIN added},
         skipped |-> {k \in DOMAIN added : added[k].skipped}]
  IN Result([k \in DOMAIN o.axioms |-> axiom_triples(o.axioms[k], k)] \o <<>>)
=============================================================================
