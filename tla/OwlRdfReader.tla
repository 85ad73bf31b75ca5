---------------------------- MODULE OwlRdfReader ----------------------------
(***************************************************************************)
(* Reading an ontology out of RDF triples (rdf_owl_translator): the        *)
(* declarations are collected first, then the blank nodes that are class   *)
(* expressions, then every triple that can state an axiom.  A document     *)
(* with a malformed list, two owl:members, a cycle among its class         *)
(* expressions or a literal where an individual belongs is refused.        *)
(***************************************************************************)
EXTENDS OwlOntology, FiniteSetsExt

Named(node) == node[1] = "iri"
Blank(node) == node[1] = "b"
Objects(g, s, p) == {t[3] : t \in {u \in g : u[1] = s /\ u[2] = p}}
Subjects(g, p, o) == {t[1] : t \in {u \in g : u[2] = p /\ u[3] = o}}
With(g, p) == {t \in g : t[2] = p}
The(set) == CHOOSE x \in set : TRUE

\* get_rdf_list_elements: the members, or a refusal.
RECURSIVE get_rdf_list_elements(_, _, _)
get_rdf_list_elements(g, node, visited) ==
  IF node = IriNode("rdf:nil") THEN [ok |-> TRUE, items |-> <<>>]
  ELSE LET first == Objects(g, node, "rdf:first")
           rest == Objects(g, node, "rdf:rest")
       IN IF node \in visited \/ Cardinality(first) # 1 \/ Cardinality(rest) # 1
          THEN [ok |-> FALSE, items |-> <<>>]
          ELSE LET tail == get_rdf_list_elements(g, The(rest), visited \cup {node})
               IN [tail EXCEPT !.items = <<The(first)>> \o @]
ListAt(g, node) == get_rdf_list_elements(g, node, {})

\* try_get_individual, for a node that is not a literal.
IsIndividual(node) == Named(node) \/ Blank(node)
try_get_individual(node) ==
  IF Named(node) THEN NamedIndividual(node[2]) ELSE AnonymousIndividual(node[2])

-----------------------------------------------------------------------------
\* get_initial_declarations: the named nodes of a type, stated or reified.
get_initial_declarations(g, type) ==
  {s \in Subjects(g, "rdf:type", IriNode(type)) \cup
         UNION {Objects(g, ax, "owl:annotatedSource") :
                ax \in {x \in Subjects(g, "owl:annotatedTarget", IriNode(type)) :
                          /\ <<x, "rdf:type", IriNode("owl:Axiom")>> \in g
                          /\ <<x, "owl:annotatedProperty", IriNode("rdf:type")>> \in g}} :
     Named(s)}

\* build_*_declarations.  The ends of rdfs:subClassOf are classes too, and a
\* node that is the inverse of a named property is its inverse, unless it is
\* declared itself.
build_class_declarations(g) ==
  LET subclass == With(g, "rdfs:subClassOf")
  IN get_initial_declarations(g, "owl:Class") \cup
     {n \in {t[1] : t \in subclass} \cup {t[3] : t \in subclass} : Named(n)}
build_data_range_declarations(g) ==
  get_initial_declarations(g, "rdfs:Datatype") \cup {IriNode("rdfs:Literal")}
build_object_property_declarations(g) ==
  LET declared == get_initial_declarations(g, "owl:ObjectProperty")
      inverses == {t \in With(g, "owl:inverseOf") : Named(t[3])}
  IN [s \in declared \cup {t[1] : t \in inverses} |->
        IF s \in declared THEN NamedObjectProperty(s[2])
        ELSE InverseObjectProperty(NamedObjectProperty(
               (CHOOSE t \in inverses : t[1] = s)[3][2]))]
build_data_property_declarations(g) == get_initial_declarations(g, "owl:DatatypeProperty")
build_annotation_property_declarations(g) == get_initial_declarations(g, "owl:AnnotationProperty")
build_individual_declarations(g) == get_initial_declarations(g, "owl:NamedIndividual")

\* create_annotation_value: an IRI declared as an individual is an individual.
create_annotation_value(individuals, node) ==
  IF node \in individuals \/ Blank(node) THEN try_get_individual(node) ELSE node
build_annotations(g, properties, individuals) ==
  {<<t[1], Annotation(t[2], create_annotation_value(individuals, t[3]))>> :
     t \in {u \in g : IriNode(u[2]) \in properties}}

\* The readings of a node as a property or a data range, with their fallbacks.
object_property_expression(D, id) ==
  IF id \in DOMAIN D.objects THEN D.objects[id]
  ELSE NamedObjectProperty(IF Named(id) THEN id[2] ELSE "owl:topObjectProperty")
data_property_expression(id) == IF Named(id) THEN id[2] ELSE "owl:topDataProperty"
\* object_or_data_property: a property declared as both falls back to the node
\* itself, not to its declared inverse.
IsData(D, id) == id \in D.datas /\ id \notin DOMAIN D.objects
object_or_data_property(D, id) ==
  [data |-> IsData(D, id),
   it |-> IF IsData(D, id) THEN id[2]
          ELSE IF id \in D.datas THEN NamedObjectProperty(id[2])
          ELSE object_property_expression(D, id)]
BuiltinDatatypes == {"xsd:integer", "xsd:string"}
data_range(D, id) ==
  NamedDataRange(IF id \in D.ranges \/ (Named(id) /\ id[2] \in BuiltinDatatypes)
                 THEN id[2] ELSE "owl:Literal")

-----------------------------------------------------------------------------
\* The blank nodes that are class expressions: an owl:Class with a defining
\* predicate, an owl:Restriction of a known shape.
is_owl_axiom_predicate == {"owl:intersectionOf", "owl:unionOf", "owl:complementOf", "owl:oneOf"}
DefiningTriples(g, id) == {t \in g : t[1] = id /\ t[2] \in is_owl_axiom_predicate}
AnonymousClasses(g) ==
  {id \in Subjects(g, "rdf:type", IriNode("owl:Class")) : Blank(id) /\ DefiningTriples(g, id) # {}}
Has(g, id, p) == Objects(g, id, p) # {}

\* The shapes of a restriction, in the order they are looked for.
RestrictionMarks == <<"owl:onProperties", "owl:someValuesFrom", "owl:allValuesFrom", "owl:hasValue",
                      "owl:hasSelf", "owl:onClass", "owl:onDataRange", "owl:minCardinality",
                      "owl:maxCardinality", "owl:cardinality">>
Mark(g, id) ==
  LET found == {i \in DOMAIN RestrictionMarks : Has(g, id, RestrictionMarks[i])}
  IN IF found = {} THEN "none" ELSE RestrictionMarks[Min(found)]
\* The qualified cardinalities, in the order they are looked for.
QualifiedMarks == <<"owl:maxQualifiedCardinality", "owl:minQualifiedCardinality",
                    "owl:qualifiedCardinality">>
Qualified(g, id) == {i \in DOMAIN QualifiedMarks : Has(g, id, QualifiedMarks[i])}
try_get_non_negative_integer_literal(node) ==
  node[1] = "lit" /\ node[2] \in {"xsd:integer", "xsd:int", "xsd:nonNegativeInteger"}
CardinalityPredicate(g, id) ==
  IF Mark(g, id) \in {"owl:onClass", "owl:onDataRange"} THEN QualifiedMarks[Min(Qualified(g, id))]
  ELSE Mark(g, id)
require_cardinality(g, id) == The(Objects(g, id, CardinalityPredicate(g, id)))

\* build_restriction answers with a shape, or the node is no class expression.
Restrictions(g) ==
  {id \in Subjects(g, "rdf:type", IriNode("owl:Restriction")) :
     /\ Blank(id) /\ Mark(g, id) # "none"
     /\ Mark(g, id) = "owl:onProperties" =>
          Has(g, id, "owl:allValuesFrom") \/ Has(g, id, "owl:someValuesFrom")
     /\ Mark(g, id) # "owl:onProperties" => Has(g, id, "owl:onProperty")
     /\ Mark(g, id) \in {"owl:onClass", "owl:onDataRange"} => Qualified(g, id) # {}
     /\ Mark(g, id) \in {"owl:onClass", "owl:onDataRange", "owl:minCardinality",
                         "owl:maxCardinality", "owl:cardinality"} =>
          try_get_non_negative_integer_literal(require_cardinality(g, id))}

\* The lists read while the expressions are collected.
CollectedLists(g) ==
  {The(DefiningTriples(g, id))[3] :
     id \in {n \in AnonymousClasses(g) : The(DefiningTriples(g, n))[2] # "owl:complementOf"}}
  \cup UNION {Objects(g, id, "owl:onProperties") :
              id \in {n \in Subjects(g, "rdf:type", IriNode("owl:Restriction")) : Blank(n)}}

\* The blank nodes an expression waits for; a cycle among them is refused.
Items(list) == {list.items[i] : i \in DOMAIN list.items}
Awaited(g, id) ==
  {n \in (IF DefiningTriples(g, id) # {} /\ <<id, "rdf:type", IriNode("owl:Class")>> \in g
          THEN LET t == The(DefiningTriples(g, id))
               IN CASE t[2] = "owl:complementOf" -> {t[3]}
                    [] t[2] = "owl:oneOf" -> {}
                    [] OTHER -> Items(ListAt(g, t[3]))
          ELSE IF Mark(g, id) \in {"owl:someValuesFrom", "owl:allValuesFrom", "owl:onClass"}
          THEN Objects(g, id, Mark(g, id)) ELSE {}) : Blank(n)}
\* OntologyDeclarations::build; anon are the blank nodes with an expression.
OntologyDeclarations(g) ==
  [classes |-> build_class_declarations(g), ranges |-> build_data_range_declarations(g),
   objects |-> build_object_property_declarations(g),
   datas |-> build_data_property_declarations(g),
   annotations |-> build_annotations(g, build_annotation_property_declarations(g),
                                     build_individual_declarations(g)),
   anon |-> AnonymousClasses(g) \cup Restrictions(g)]
RECURSIVE topological_sort(_, _)
topological_sort(awaited, left) ==
  LET ready == {id \in left : awaited[id] \cap left = {}}
  IN left = {} \/ (ready # {} /\ topological_sort(awaited, left \ ready))

\* The builders of anonymous expressions, which read the nested ones.  An
\* anonymous owl:Class first.
RECURSIVE class_expression(_, _, _)
ClassNode(g, D, id) ==
  LET defining == The(DefiningTriples(g, id))
      list == ListAt(g, defining[3]).items
      valid == SelectSeq(list, IsIndividual)
      Class(node) == class_expression(g, D, node)
  IN CASE defining[2] = "owl:complementOf" -> <<"ObjectComplementOf", Class(defining[3])>>
       [] defining[2] = "owl:oneOf" ->
            IF valid = <<>> /\ list # <<>> THEN Thing
            ELSE <<"ObjectOneOf", [i \in DOMAIN valid |-> try_get_individual(valid[i])]>>
       [] defining[2] = "owl:intersectionOf" ->
            <<"ObjectIntersectionOf", [i \in DOMAIN list |-> Class(list[i])]>>
       [] OTHER -> <<"ObjectUnionOf", [i \in DOMAIN list |-> Class(list[i])]>>

\* A restriction on several data properties.
build_restriction(g, D, id) ==
  LET all == Has(g, id, "owl:allValuesFrom")
      props == ListAt(g, The(Objects(g, id, "owl:onProperties"))).items
  IN <<IF all THEN "DataAllValuesFrom" ELSE "DataSomeValuesFrom",
       [i \in DOMAIN props |-> data_property_expression(props[i])],
       data_range(D, The(Objects(g, id, IF all THEN "owl:allValuesFrom"
                                        ELSE "owl:someValuesFrom")))>>

\* Those on the values of one property, by the predicate that marks them.
try_get_bool_literal(node) == node = Literal("xsd:boolean", "true")
build_restriction_rest(g, D, id, mark) ==
  LET value == The(Objects(g, id, mark))
      on == The(Objects(g, id, "owl:onProperty"))
      property == object_or_data_property(D, on)
      Quantified(object, data) ==
        IF property.data THEN <<data, <<property.it>>, data_range(D, value)>>
        ELSE <<object, property.it, class_expression(g, D, value)>>
  IN CASE mark = "owl:someValuesFrom" -> Quantified("ObjectSomeValuesFrom", "DataSomeValuesFrom")
       [] mark = "owl:allValuesFrom" -> Quantified("ObjectAllValuesFrom", "DataAllValuesFrom")
       [] mark = "owl:hasValue" ->
            CASE property.data -> <<"DataHasValue", property.it, value>>
              [] ~property.data /\ IsIndividual(value) ->
                   <<"ObjectHasValue", property.it, try_get_individual(value)>>
              [] OTHER -> Thing
       [] mark = "owl:hasSelf" ->
            IF try_get_bool_literal(value)
            THEN <<"ObjectHasSelf", object_property_expression(D, on)>> ELSE Thing

\* The cardinalities; an unqualified one is always of an object property, and
\* the exact one comes back qualified.
build_cardinality(g, D, id, mark) ==
  LET value == The(Objects(g, id, mark))
      property == The(Objects(g, id, "owl:onProperty"))
      n == require_cardinality(g, id)[3]
      Sorted(constructors) == constructors[Min(Qualified(g, id))]
  IN CASE mark = "owl:onClass" ->
            <<Sorted(<<"ObjectMaxQualifiedCardinality", "ObjectMinQualifiedCardinality",
                       "ObjectExactQualifiedCardinality">>),
              n, object_property_expression(D, property), class_expression(g, D, value)>>
       [] mark = "owl:onDataRange" ->
            <<Sorted(<<"DataMaxQualifiedCardinality", "DataMinQualifiedCardinality",
                       "DataExactQualifiedCardinality">>),
              n, data_property_expression(property), data_range(D, value)>>
       [] mark = "owl:minCardinality" ->
            <<"ObjectMinCardinality", n, object_property_expression(D, property)>>
       [] mark = "owl:maxCardinality" ->
            <<"ObjectMaxCardinality", n, object_property_expression(D, property)>>
       [] mark = "owl:cardinality" ->
            <<"ObjectExactQualifiedCardinality", n, object_property_expression(D, property), Thing>>

\* class_expression: a node without an expression is a class name or owl:Thing.
class_expression(g, D, id) ==
  LET mark == Mark(g, id)
  IN CASE id \notin D.anon ->
            IF Named(id) /\ (id \in D.classes \/ id \notin D.ranges) THEN ClassName(id[2]) ELSE Thing
       [] id \in D.anon /\ <<id, "rdf:type", IriNode("owl:Class")>> \in g -> ClassNode(g, D, id)
       [] OTHER ->
            CASE mark = "owl:onProperties" -> build_restriction(g, D, id)
              [] mark \in {"owl:someValuesFrom", "owl:allValuesFrom", "owl:hasValue", "owl:hasSelf"} ->
                   build_restriction_rest(g, D, id, mark)
              [] OTHER -> build_cardinality(g, D, id, mark)

-----------------------------------------------------------------------------
\* Slip: the target of the reified triple is not compared.
TargetIgnored(g, D, t) ==
  {d[2] : d \in {e \in D.annotations :
     {<<e[1], "rdf:type", IriNode("owl:Axiom")>>, <<e[1], "owl:annotatedSource", t[1]>>,
      <<e[1], "owl:annotatedProperty", IriNode(t[2])>>} \subseteq g}}

\* get_axiom_annotations: those of every reification of the triple.
get_axiom_annotations(g, D, t) ==
  {d[2] : d \in {e \in D.annotations :
     {<<e[1], "rdf:type", IriNode("owl:Axiom")>>, <<e[1], "owl:annotatedSource", t[1]>>,
      <<e[1], "owl:annotatedProperty", IriNode(t[2])>>,
      <<e[1], "owl:annotatedTarget", t[3]>>} \subseteq g}}

axiom_structural_predicate_ids ==
  {"rdf:type", "rdfs:subClassOf", "owl:equivalentClass", "owl:disjointWith",
   "owl:disjointUnionOf", "rdfs:subPropertyOf", "owl:propertyChainAxiom",
   "owl:equivalentProperty", "owl:propertyDisjointWith", "rdfs:domain", "rdfs:range",
   "owl:inverseOf", "owl:sameAs", "owl:differentFrom"}
IsProperty(D, p) == IriNode(p) \in DOMAIN D.objects \cup D.datas

\* rdf:type: the declarations, which keep no annotations ...
DeclarationTypes ==
  [ClassDeclaration |-> "owl:Class", DatatypeDeclaration |-> "rdfs:Datatype",
   ObjectPropertyDeclaration |-> "owl:ObjectProperty",
   DataPropertyDeclaration |-> "owl:DatatypeProperty",
   AnnotationPropertyDeclaration |-> "owl:AnnotationProperty"]
Statement(table, type) == CHOOSE c \in DOMAIN table : table[c] = type
InTable(table, type) == \E c \in DOMAIN table : table[c] = type
DeclarationForm(t, type) ==
  IF Named(t[1]) THEN {<<Statement(DeclarationTypes, type), t[1][2]>>} ELSE {}

\* ... the n-ary nodes, which state an axiom if they name their members ...
MemberTypes == {"owl:AllDisjointClasses", "owl:AllDisjointProperties", "owl:AllDifferent"}
MembersForm(g, D, type, items) ==
  LET listed == {items[i] : i \in DOMAIN items}
      Mapped(Op(_)) == [i \in DOMAIN items |-> Op(items[i])]
      Class(id) == class_expression(g, D, id)
      Object(id) == object_property_expression(D, id)
  IN CASE type = "owl:AllDisjointClasses" -> <<"DisjointClasses", Mapped(Class)>>
       [] type = "owl:AllDifferent" -> <<"DifferentIndividuals", Mapped(try_get_individual)>>
       [] OTHER -> IF items # <<>> /\ listed \subseteq D.datas /\ listed \cap DOMAIN D.objects = {}
                   THEN <<"DisjointDataProperties", Mapped(data_property_expression)>>
                   ELSE <<"DisjointObjectProperties", Mapped(Object)>>

\* ... the characteristics of properties ...
CharacteristicTypes ==
  [FunctionalObjectProperty |-> "owl:FunctionalProperty",
   InverseFunctionalObjectProperty |-> "owl:InverseFunctionalProperty",
   ReflexiveObjectProperty |-> "owl:ReflexiveProperty",
   IrreflexiveObjectProperty |-> "owl:IrreflexiveProperty",
   SymmetricObjectProperty |-> "owl:SymmetricProperty",
   AsymmetricObjectProperty |-> "owl:AsymmetricProperty",
   TransitiveObjectProperty |-> "owl:TransitiveProperty"]
CharacteristicForm(D, s, type) ==
  IF type = "owl:FunctionalProperty"
  THEN LET p == object_or_data_property(D, s)
       IN <<IF p.data THEN "FunctionalDataProperty" ELSE "FunctionalObjectProperty", p.it>>
  ELSE <<Statement(CharacteristicTypes, type), object_property_expression(D, s)>>

\* ... and otherwise a class assertion, of a named class only.
TypeForms(g, D, t) ==
  LET type == IF Named(t[3]) THEN t[3][2] ELSE "" IN
  CASE InTable(DeclarationTypes, type) -> DeclarationForm(t, type)
    [] type = "owl:NamedIndividual" -> {<<"NamedIndividualDeclaration", try_get_individual(t[1])>>}
    [] type \in MemberTypes ->
         {MembersForm(g, D, type, ListAt(g, head).items) : head \in Objects(g, t[1], "owl:members")}
    [] InTable(CharacteristicTypes, type) -> {CharacteristicForm(D, t[1], type)}
    [] type = "owl:Ontology" \/ ~Named(t[3]) -> {}
    [] OTHER -> {<<"ClassAssertion", class_expression(g, D, t[3]), try_get_individual(t[1])>>}

\* The statements about classes, about properties, and about individuals.
ClassForms(g, D, t) ==
  LET s == t[1] o == t[3] items == ListAt(g, o).items
      Class(id) == class_expression(g, D, id)
  IN
  CASE t[2] = "rdfs:subClassOf" -> {<<"SubClassOf", Class(s), Class(o)>>}
    [] t[2] = "owl:equivalentClass" ->
         IF s \in D.ranges /\ o \in D.ranges THEN {<<"DatatypeDefinition", s[2], NamedDataRange(o[2])>>}
         ELSE {<<"EquivalentClasses", <<Class(s), Class(o)>>>>}
    [] t[2] = "owl:disjointWith" -> {<<"DisjointClasses", <<Class(s), Class(o)>>>>}
    [] t[2] = "owl:disjointUnionOf" ->
         IF Named(s) THEN {<<"DisjointUnion", s[2], [i \in DOMAIN items |-> Class(items[i])]>>} ELSE {}

PropertyForms(g, D, t) ==
  LET s == t[1] o == t[3] items == ListAt(g, o).items
      Object(id) == object_property_expression(D, id)
      p == object_or_data_property(D, s)
      Either(data, object) == {IF p.data THEN data ELSE object}
  IN CASE t[2] = "rdfs:subPropertyOf" ->
            Either(<<"SubDataPropertyOf", p.it, data_property_expression(o)>>,
                   <<"SubObjectPropertyOf", p.it, Object(o)>>)
       [] t[2] = "owl:propertyChainAxiom" ->
            {<<"SubObjectPropertyChainOf", [i \in DOMAIN items |-> Object(items[i])], Object(s)>>}
       [] t[2] = "owl:equivalentProperty" ->
            Either(<<"EquivalentDataProperties", <<p.it, data_property_expression(o)>>>>,
                   <<"EquivalentObjectProperties", <<p.it, Object(o)>>>>)
       [] t[2] = "owl:propertyDisjointWith" -> {<<"DisjointObjectProperties", <<Object(s), Object(o)>>>>}
       [] t[2] = "rdfs:domain" ->
            Either(<<"DataPropertyDomain", p.it, class_expression(g, D, o)>>,
                   <<"ObjectPropertyDomain", p.it, class_expression(g, D, o)>>)
       [] t[2] = "rdfs:range" ->
            Either(<<"DataPropertyRange", p.it, data_range(D, o)>>,
                   <<"ObjectPropertyRange", p.it, class_expression(g, D, o)>>)
       [] t[2] = "owl:inverseOf" -> {<<"InverseObjectProperties", Object(s), Object(o)>>}

IndividualForms(D, t) ==
  LET s == try_get_individual(t[1]) IN
  CASE t[2] = "owl:sameAs" -> {<<"SameIndividual", <<s, try_get_individual(t[3])>>>>}
    [] t[2] = "owl:differentFrom" -> {<<"DifferentIndividuals", <<s, try_get_individual(t[3])>>>>}
    [] IriNode(t[2]) \in DOMAIN D.objects ->
         {<<"ObjectPropertyAssertion", D.objects[IriNode(t[2])], s, try_get_individual(t[3])>>}
    [] OTHER -> {<<"DataPropertyAssertion", t[2], s, t[3]>>}

\* extract_axiom: the statements of a triple (at most one).
extract_axiom(g, D, t) ==
  CASE t[2] = "rdf:type" -> TypeForms(g, D, t)
    [] t[2] \in {"rdfs:subClassOf", "owl:equivalentClass", "owl:disjointWith",
                 "owl:disjointUnionOf"} -> ClassForms(g, D, t)
    [] t[2] \in {"rdfs:subPropertyOf", "owl:propertyChainAxiom", "owl:equivalentProperty",
                 "owl:propertyDisjointWith", "rdfs:domain", "rdfs:range", "owl:inverseOf"} ->
         PropertyForms(g, D, t)
    [] OTHER -> IndividualForms(D, t)

\* The triples for which extract_axiom gives an error instead.
Refused(g, D, t) ==
  LET heads == Objects(g, t[1], "owl:members") IN
  \/ /\ t[2] = "rdf:type" /\ t[3] \in {IriNode(m) : m \in MemberTypes}
     /\ \/ Cardinality(heads) > 1
        \/ \E head \in heads : ~ListAt(g, head).ok
                               \/ (t[3] = IriNode("owl:AllDifferent")
                                   /\ \E n \in Items(ListAt(g, head)) : ~IsIndividual(n))
  \/ /\ t[2] = "owl:propertyChainAxiom" \/ (t[2] = "owl:disjointUnionOf" /\ Named(t[1]))
     /\ ~ListAt(g, t[3]).ok
  \/ /\ \/ t[2] \in {"owl:sameAs", "owl:differentFrom"}
        \/ t[2] \notin axiom_structural_predicate_ids /\ IriNode(t[2]) \in DOMAIN D.objects
     /\ ~IsIndividual(t[3])

\* extract_ontology_name: the first owl:Ontology, which a blank node is not.
extract_ontology_version_iri(g, iri) ==
  LET v == {n \in Objects(g, iri, "owl:versionIRI") : Named(n)}
  IN IF v = {} THEN <<>> ELSE <<The(v)[2]>>
extract_ontology_imports(g, iri) ==
  {n[2] : n \in {m \in Objects(g, iri, "owl:imports") : Named(m)}}
extract_ontology_name(g) ==
  LET found == Subjects(g, "rdf:type", IriNode("owl:Ontology"))
      iri == The(found)
  IN IF found = {} \/ ~Named(iri) THEN [version |-> <<>>, imports |-> {}]
     ELSE [version |-> <<iri[2]>> \o extract_ontology_version_iri(g, iri),
           imports |-> extract_ontology_imports(g, iri)]

\* rdf2owl: the axioms, in no particular order, or a refusal.
rdf2owl(g) ==
  LET D == OntologyDeclarations(g)
      awaited == [id \in D.anon |-> Awaited(g, id)]
      relevant == {t \in g : t[2] \in axiom_structural_predicate_ids \/ IsProperty(D, t[2])}
      sound == /\ \A head \in CollectedLists(g) : ListAt(g, head).ok
               /\ topological_sort(awaited, D.anon)
               /\ \A t \in relevant : ~Refused(g, D, t)
  IN IF ~sound THEN [ok |-> FALSE, axioms |-> {}, version |-> <<>>, imports |-> {}]
     ELSE [ok |-> TRUE, version |-> extract_ontology_name(g).version,
           imports |-> extract_ontology_name(g).imports,
           axioms |-> UNION {{Axiom(form, IF form[1] \in DOMAIN Entity THEN {}
                                          ELSE get_axiom_annotations(g, D, t)) :
                              form \in extract_axiom(g, D, t)} : t \in relevant}]
=============================================================================
