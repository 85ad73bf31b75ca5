---------------------------- MODULE OwlOntology ----------------------------
(***************************************************************************)
(* The abstract syntax of OWL 2 (owl_ontology/src/axioms.rs), shared by    *)
(* every reader and writer of ontologies.  An expression or an axiom is a  *)
(* tuple: its constructor and then its arguments, in the order of the Rust *)
(* enums.  The two tables give every constructor the roles of its          *)
(* arguments; what a role stands for is:                                   *)
(*   "class", "range", "oprop"  a nested expression                        *)
(*   "ind", "lit", "node"       an individual, a literal, a graph element  *)
(*   "dprop", "iri"             an IRI;   "n" a cardinality                *)
(*   "facet"                    <<facet IRI, literal>>                     *)
(* and the plural roles are sequences of these.  AnonymousClass and        *)
(* AnonymousObjectProperty are left out: nothing in the repository builds  *)
(* one.                                                                    *)
(***************************************************************************)
EXTENDS Naturals, Sequences, FiniteSets

\* The role of the members of a plural role.
ListOf == [classes |-> "class", ranges |-> "range", oprops |-> "oprop",
           dprops |-> "dprop", inds |-> "ind", lits |-> "lit", facets |-> "facet",
           args |-> "arg"]

ClassExpression ==
  [ObjectUnionOf |-> <<"classes">>, ObjectIntersectionOf |-> <<"classes">>,
   ObjectComplementOf |-> <<"class">>, ObjectOneOf |-> <<"inds">>,
   ObjectSomeValuesFrom |-> <<"oprop", "class">>,
   ObjectAllValuesFrom |-> <<"oprop", "class">>,
   ObjectHasValue |-> <<"oprop", "ind">>, ObjectHasSelf |-> <<"oprop">>,
   ObjectMinQualifiedCardinality |-> <<"n", "oprop", "class">>,
   ObjectMaxQualifiedCardinality |-> <<"n", "oprop", "class">>,
   ObjectExactQualifiedCardinality |-> <<"n", "oprop", "class">>,
   ObjectMinCardinality |-> <<"n", "oprop">>, ObjectMaxCardinality |-> <<"n", "oprop">>,
   ObjectExactCardinality |-> <<"n", "oprop">>,
   DataSomeValuesFrom |-> <<"dprops", "range">>, DataAllValuesFrom |-> <<"dprops", "range">>,
   DataHasValue |-> <<"dprop", "lit">>,
   DataMinQualifiedCardinality |-> <<"n", "dprop", "range">>,
   DataMaxQualifiedCardinality |-> <<"n", "dprop", "range">>,
   DataExactQualifiedCardinality |-> <<"n", "dprop", "range">>,
   DataMinCardinality |-> <<"n", "dprop">>, DataMaxCardinality |-> <<"n", "dprop">>,
   DataExactCardinality |-> <<"n", "dprop">>]

DataRange ==
  [DataIntersectionOf |-> <<"ranges">>, DataUnionOf |-> <<"ranges">>,
   DataComplementOf |-> <<"range">>, DataOneOf |-> <<"lits">>,
   DatatypeRestriction |-> <<"iri", "facets">>]

\* The constructors without nested expressions.
ClassName(iri) == <<"ClassName", iri>>
NamedDataRange(iri) == <<"NamedDataRange", iri>>
NamedObjectProperty(iri) == <<"NamedObjectProperty", iri>>
InverseObjectProperty(p) == <<"InverseObjectProperty", p>>
NamedIndividual(iri) == <<"NamedIndividual", iri>>
\* Numbered <<0, n>>, a place as those of blank nodes below.
AnonymousIndividual(n) == <<"AnonymousIndividual", n>>

Thing == ClassName("owl:Thing")

Entity == [ClassDeclaration |-> <<"iri">>, ObjectPropertyDeclaration |-> <<"iri">>,
           DataPropertyDeclaration |-> <<"iri">>, DatatypeDeclaration |-> <<"iri">>,
           AnnotationPropertyDeclaration |-> <<"iri">>, NamedIndividualDeclaration |-> <<"ind">>]

\* The property axioms with a single property as their argument.
Characteristics ==
  {"FunctionalObjectProperty", "InverseFunctionalObjectProperty", "ReflexiveObjectProperty",
   "IrreflexiveObjectProperty", "SymmetricObjectProperty", "AsymmetricObjectProperty",
   "TransitiveObjectProperty"}

\* SubObjectPropertyOf over a chain has a constructor of its own here.
OtherAxioms ==
  [SubClassOf |-> <<"class", "class">>, EquivalentClasses |-> <<"classes">>,
   DisjointClasses |-> <<"classes">>, DisjointUnion |-> <<"iri", "classes">>,
   ObjectPropertyDomain |-> <<"oprop", "class">>, ObjectPropertyRange |-> <<"oprop", "class">>,
   SubObjectPropertyOf |-> <<"oprop", "oprop">>,
   SubObjectPropertyChainOf |-> <<"oprops", "oprop">>,
   EquivalentObjectProperties |-> <<"oprops">>, DisjointObjectProperties |-> <<"oprops">>,
   InverseObjectProperties |-> <<"oprop", "oprop">>,
   SubDataPropertyOf |-> <<"dprop", "dprop">>, EquivalentDataProperties |-> <<"dprops">>,
   DisjointDataProperties |-> <<"dprops">>, DataPropertyDomain |-> <<"dprop", "class">>,
   DataPropertyRange |-> <<"dprop", "range">>, FunctionalDataProperty |-> <<"dprop">>,
   DatatypeDefinition |-> <<"iri", "range">>, HasKey |-> <<"class", "oprops", "dprops">>,
   SameIndividual |-> <<"inds">>, DifferentIndividuals |-> <<"inds">>,
   ClassAssertion |-> <<"class", "ind">>, ObjectPropertyAssertion |-> <<"oprop", "ind", "ind">>,
   NegativeObjectPropertyAssertion |-> <<"oprop", "ind", "ind">>,
   DataPropertyAssertion |-> <<"dprop", "ind", "lit">>,
   NegativeDataPropertyAssertion |-> <<"dprop", "ind", "lit">>,
   AnnotationAssertion |-> <<"iri", "node", "node">>,
   SubAnnotationPropertyOf |-> <<"iri", "iri">>, AnnotationPropertyDomain |-> <<"iri", "iri">>,
   AnnotationPropertyRange |-> <<"iri", "iri">>]

\* The constructors of each enum of axioms.
ClassAxiom == {"SubClassOf", "EquivalentClasses", "DisjointClasses", "DisjointUnion"}
ObjectPropertyAxiom ==
  Characteristics \cup {"ObjectPropertyDomain", "ObjectPropertyRange", "SubObjectPropertyOf",
   "SubObjectPropertyChainOf", "EquivalentObjectProperties", "DisjointObjectProperties",
   "InverseObjectProperties"}
DataPropertyAxiom ==
  {"SubDataPropertyOf", "EquivalentDataProperties", "DisjointDataProperties", "DataPropertyDomain",
   "DataPropertyRange", "FunctionalDataProperty"}
Assertion ==
  {"SameIndividual", "DifferentIndividuals", "ClassAssertion", "ObjectPropertyAssertion",
   "NegativeObjectPropertyAssertion", "DataPropertyAssertion", "NegativeDataPropertyAssertion"}
AnnotationAxiom ==
  {"AnnotationAssertion", "SubAnnotationPropertyOf", "AnnotationPropertyDomain",
   "AnnotationPropertyRange"}

\* The atoms of SWRL rules.  An argument is an individual, a literal or a
\* <<"Variable", name>>.
Atom == [ClassAtom |-> <<"class", "arg">>, DataRangeAtom |-> <<"range", "arg">>,
         PropertyAtom |-> <<"iri", "arg", "arg">>, BuiltInAtom |-> <<"iri", "args">>,
         SameIndividualAtom |-> <<"arg", "arg">>, DifferentIndividualsAtom |-> <<"arg", "arg">>]

\* The roles of the arguments of any expression, axiom or atom.
Roles(constructor) ==
  IF constructor \in DOMAIN ClassExpression THEN ClassExpression[constructor]
  ELSE IF constructor \in DOMAIN DataRange THEN DataRange[constructor]
  ELSE IF constructor \in DOMAIN Entity THEN Entity[constructor]
  ELSE IF constructor \in Characteristics THEN <<"oprop">>
  ELSE IF constructor \in DOMAIN Atom THEN Atom[constructor] ELSE OtherAxioms[constructor]

\* Optional values are <<>> or <<value>>.
Then(option, F(_)) == IF option = <<>> THEN <<>> ELSE F(option[1])

\* Annotations are <<property, value, annotations of the annotation>>, an
\* axiom is the statement it makes and its annotations.
Annotation(property, value) == <<property, value, <<>>>>
Axiom(form, annotations) == [form |-> form, anns |-> annotations]

\* RDF nodes: IRIs, literals and blank nodes; a blank node is named by the
\* place in the ontology it was made for, so that no two coincide.
IriNode(iri) == <<"iri", iri>>
Literal(type, value) == <<"lit", type, value>>
BlankNode(path) == <<"b", path>>

\* A SWRL rule, and an ontology: <<>>, <<IRI>> or <<IRI, version IRI>>, its
\* imports, annotations, axioms and rules.
Rule(body, head, annotations) == [body |-> body, head |-> head, anns |-> annotations]
Ontology(version, imports, annotations, axioms, rules) ==
  [version |-> version, imports |-> imports, anns |-> annotations, axioms |-> axioms,
   rules |-> rules]
=============================================================================
