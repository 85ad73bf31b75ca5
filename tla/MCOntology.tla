---------------------------- MODULE MCOntology ----------------------------
(* Every vector of up to three rules over three predicates, and a menu of    *)
(* ontologies with every constructor, for TLC.                               *)
EXTENDS OwlDocuments, SequencesExt

MCPredicates == {"p", "q", "r"}

\* A head, up to two of the predicates in the body, and one of them negated perhaps.
MCRules(heads, joins) ==
    {[head |-> {h}, pos |-> P, neg |-> N] :
        h \in heads,
        P \in {S \in SUBSET MCPredicates : Cardinality(S) <= joins},
        N \in {S \in SUBSET MCPredicates : Cardinality(S) <= 1}}

\* The first head is p and the second p or q: other vectors rename the predicates of these.
MCPrograms ==
    {<<a, b, c>> : a \in MCRules({"p"}, 1), b \in MCRules({"p", "q"}, 1),
                   c \in MCRules(MCPredicates, 1)}
        \cup {<<a, b>> : a \in MCRules({"p"}, 2), b \in MCRules({"p", "q"}, 2)}

-----------------------------------------------------------------------------
A == ClassName("A")
B == ClassName("B2")
pp == NamedObjectProperty("p")
qq == NamedObjectProperty("q")
inv == InverseObjectProperty(pp)
a1 == NamedIndividual("a")
b1 == NamedIndividual("b")
anon == AnonymousIndividual(<<0, 7>>)
anon2 == AnonymousIndividual(<<0, 3>>)
str == Literal("string", "s")
int == Literal("integer", "1")
xint == NamedDataRange("xsd:integer")
dt == NamedDataRange("dt")
note == Annotation("note", str)
noteIri == Annotation("note", IriNode("a"))
noteMeta == <<"note", str, <<Annotation("note", int)>>>>
some == <<"ObjectSomeValuesFrom", pp, B>>
facetRange == <<"DatatypeRestriction", "xsd:integer", <<<<"xsd:minInclusive", int>>>>>>

MCClassExpressions ==
  << A, <<"ObjectUnionOf", <<A, some>>>>, <<"ObjectIntersectionOf", <<some, B, A>>>>,
     <<"ObjectUnionOf", <<A>>>>,
     <<"ObjectComplementOf", <<"ObjectUnionOf", <<A, B>>>>>>, <<"ObjectOneOf", <<a1, anon>>>>, some,
     <<"ObjectAllValuesFrom", inv, <<"ObjectComplementOf", A>>>>, <<"ObjectHasValue", pp, a1>>,
     <<"ObjectHasValue", inv, anon>>, <<"ObjectHasSelf", pp>>,
     <<"ObjectMinQualifiedCardinality", 2, pp, B>>, <<"ObjectMaxQualifiedCardinality", 0, pp, some>>,
     <<"ObjectExactQualifiedCardinality", 1, pp, B>>, <<"ObjectMinCardinality", 2, pp>>,
     <<"ObjectMaxCardinality", 2, pp>>, <<"ObjectExactCardinality", 2, pp>>,
     <<"DataSomeValuesFrom", <<"d">>, xint>>, <<"DataSomeValuesFrom", <<"d", "e">>, xint>>,
     <<"DataAllValuesFrom", <<"d">>, <<"DataOneOf", <<int, str>>>>>>,
     <<"DataSomeValuesFrom", <<"d">>, <<"DataComplementOf", <<"DataUnionOf", <<xint, dt>>>>>>>>,
     <<"DataSomeValuesFrom", <<"d">>, <<"DataIntersectionOf", <<xint, facetRange>>>>>>,
     <<"DataHasValue", "d", str>>, <<"DataHasValue", "d", int>>,
     <<"DataMinQualifiedCardinality", 1, "d", xint>>, <<"DataMaxQualifiedCardinality", 1, "d", xint>>,
     <<"DataExactQualifiedCardinality", 1, "d", xint>>,
     <<"DataMinCardinality", 1, "d">>, <<"DataMaxCardinality", 1, "d">>,
     <<"DataExactCardinality", 1, "d">> >>

MCOtherForms ==
  << <<"SubClassOf", some, A>>, <<"EquivalentClasses", <<A, some>>>>, <<"EquivalentClasses", <<some, A>>>>,
     <<"EquivalentClasses", <<A, B, some>>>>, <<"EquivalentClasses", <<some, <<"ObjectHasSelf", pp>>>>>>,
     <<"DisjointClasses", <<A, B>>>>, <<"DisjointClasses", <<A, B, some>>>>,
     <<"DisjointUnion", "A", <<B, some>>>>, <<"ObjectPropertyDomain", pp, A>>,
     <<"ObjectPropertyDomain", inv, A>>, <<"ObjectPropertyRange", pp, some>>,
     <<"SubObjectPropertyOf", pp, qq>>, <<"SubObjectPropertyOf", pp, inv>>,
     <<"SubObjectPropertyChainOf", <<pp, qq>>, pp>>, <<"SubObjectPropertyChainOf", <<pp, inv>>, qq>>,
     <<"EquivalentObjectProperties", <<pp, qq>>>>, <<"EquivalentObjectProperties", <<inv, qq>>>>,
     <<"DisjointObjectProperties", <<pp, qq, pp>>>>, <<"DisjointObjectProperties", <<pp, qq>>>>,
     <<"InverseObjectProperties", pp, qq>>, <<"FunctionalObjectProperty", pp>>,
     <<"TransitiveObjectProperty", pp>>, <<"SymmetricObjectProperty", inv>>,
     <<"SubDataPropertyOf", "d", "e">>, <<"EquivalentDataProperties", <<"d", "e">>>>,
     <<"DisjointDataProperties", <<"d", "e">>>>, <<"DisjointDataProperties", <<"d", "e", "f">>>>,
     <<"EquivalentDataProperties", <<"d", "e", "f">>>>,
     <<"DataPropertyDomain", "d", A>>, <<"DataPropertyRange", "d", xint>>,
     <<"DataPropertyRange", "d", facetRange>>, <<"FunctionalDataProperty", "d">>,
     <<"DatatypeDefinition", "dt", xint>>, <<"DatatypeDefinition", "dt", facetRange>>,
     <<"HasKey", A, <<pp>>, <<"d">>>>, <<"HasKey", A, <<inv>>, <<>>>>, <<"HasKey", A, <<>>, <<>>>>,
     <<"SameIndividual", <<a1, b1>>>>, <<"SameIndividual", <<a1, b1, anon>>>>,
     <<"DifferentIndividuals", <<anon, b1>>>>, <<"DifferentIndividuals", <<a1, b1, anon>>>>,
     <<"ClassAssertion", A, a1>>, <<"ClassAssertion", some, anon>>,
     <<"ObjectPropertyAssertion", pp, a1, b1>>, <<"ObjectPropertyAssertion", pp, anon, anon2>>,
     <<"ObjectPropertyAssertion", inv, a1, b1>>,
     <<"NegativeObjectPropertyAssertion", pp, a1, b1>>, <<"DataPropertyAssertion", "d", a1, str>>,
     <<"DataPropertyAssertion", "d", a1, int>>, <<"NegativeDataPropertyAssertion", "d", a1, str>>,
     <<"AnnotationAssertion", "note", IriNode("a"), str>>, <<"SubAnnotationPropertyOf", "note", "note2">>,
     <<"AnnotationPropertyDomain", "note", "A">>, <<"AnnotationPropertyRange", "note", "A">>,
     <<"ClassDeclaration", "A">>, <<"ObjectPropertyDeclaration", "p">>, <<"DataPropertyDeclaration", "d">>,
     <<"DatatypeDeclaration", "dt">>, <<"AnnotationPropertyDeclaration", "note">>,
     <<"NamedIndividualDeclaration", a1>>, <<"NamedIndividualDeclaration", anon>> >>

MCForms == [i \in DOMAIN MCClassExpressions |-> <<"SubClassOf", A, MCClassExpressions[i]>>] \o MCOtherForms

Statements(forms, anns) == [i \in DOMAIN forms |-> Axiom(forms[i], anns)] \o <<>>
MCDeclarations ==
  Statements(<<<<"ClassDeclaration", "A">>, <<"ClassDeclaration", "B2">>,
               <<"ObjectPropertyDeclaration", "p">>, <<"ObjectPropertyDeclaration", "q">>,
               <<"DataPropertyDeclaration", "d">>, <<"DataPropertyDeclaration", "e">>,
               <<"DataPropertyDeclaration", "f">>, <<"DatatypeDeclaration", "dt">>,
               <<"AnnotationPropertyDeclaration", "note">>, <<"AnnotationPropertyDeclaration", "note2">>>>, <<>>)

MCOntologyOf(axioms) == Ontology(<<"o">>, <<>>, <<>>, axioms, <<>>)

\* Each form alone: undeclared, declared, and annotated.
MCSingle ==
  {MCOntologyOf(Statements(<<MCForms[i]>>, <<note>>)) : i \in DOMAIN MCForms}
    \cup {MCOntologyOf(MCDeclarations \o Statements(<<MCForms[i]>>, anns)) :
            i \in DOMAIN MCForms, anns \in {<<>>, <<noteMeta, noteIri>>}}

\* Statements that meet in a document: one stated twice, a shared blank node,
\* a property used before its declaration, rules that feed each other.
MCTogether ==
  {<<Axiom(<<"SubClassOf", A, B>>, <<note>>), Axiom(<<"SubClassOf", A, B>>, <<noteIri>>)>>,
   <<Axiom(<<"SubClassOf", A, B>>, <<note>>), Axiom(<<"SubClassOf", A, some>>, <<>>)>>,
   <<Axiom(<<"ObjectPropertyAssertion", pp, anon, b1>>, <<note>>),
     Axiom(<<"ObjectPropertyAssertion", qq, anon2, anon>>, <<>>)>>,
   <<Axiom(<<"DataPropertyAssertion", "d", a1, str>>, <<>>), Axiom(<<"DataPropertyDeclaration", "d">>, <<>>)>>,
   <<Axiom(<<"EquivalentClasses", <<A, B>>>>, <<note>>), Axiom(<<"DisjointClasses", <<A, B>>>>, <<noteIri>>)>>,
   <<Axiom(<<"SubClassOf", A, some>>, <<>>), Axiom(<<"ObjectPropertyDomain", pp, B>>, <<>>)>>,
   <<Axiom(<<"SubClassOf", <<"ObjectIntersectionOf", <<some, <<"ObjectSomeValuesFrom", inv, A>>>>>>, A>>, <<>>)>>,
   <<Axiom(<<"ObjectPropertyRange", pp, A>>, <<>>), Axiom(<<"SubClassOf", some, <<"ObjectHasValue", qq, a1>>>>, <<>>)>>,
   <<Axiom(<<"AnnotationAssertion", "note", BlankNode(<<0, 7>>), str>>, <<>>),
     Axiom(<<"ClassAssertion", A, anon>>, <<>>)>>,
   <<Axiom(<<"ClassDeclaration", "A">>, <<noteIri>>), Axiom(<<"ClassDeclaration", "A">>, <<note>>)>>}

\* Rules, and what stands before the axioms.
x == <<"Variable", "x">>
MCRule(body) == Rule(body, <<<<"ClassAtom", B, x>>>>, <<note>>)
MCHeaders ==
  {Ontology(<<>>, <<>>, <<>>, <<>>, <<>>), Ontology(<<>>, <<"i">>, <<note>>, <<>>, <<>>),
   Ontology(<<"o", "v">>, <<"i", "j">>, <<noteMeta, noteIri>>, MCDeclarations, <<>>)}
MCRuled ==
  {Ontology(<<"o">>, <<>>, <<>>, <<>>, <<MCRule(<<atom>>)>>) :
     atom \in {<<"ClassAtom", some, x>>, <<"DataRangeAtom", xint, x>>, <<"PropertyAtom", "p", x, a1>>,
               <<"PropertyAtom", "p", x, int>>, <<"BuiltInAtom", "swrlb:f", <<x, int, x>>>>,
               <<"BuiltInAtom", "swrlb:f", <<x, int>>>>, <<"SameIndividualAtom", x, anon>>,
               <<"DifferentIndividualsAtom", x, a1>>, <<"ClassAtom", A, <<"Variable", "urn:x">>>>}}

MCOntologies ==
  MCSingle \cup {MCOntologyOf(axioms) : axioms \in MCTogether}
    \cup {MCOntologyOf(MCDeclarations \o axioms) : axioms \in MCTogether} \cup MCHeaders \cup MCRuled
=============================================================================
