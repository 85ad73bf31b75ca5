---------------------------- MODULE OwlDocuments ----------------------------
(***************************************************************************)
(* Ontologies on their way through documents: an ontology is written in    *)
(* one of the syntaxes, the document is read back, and what was read may   *)
(* be written again in any syntax; or a document is compiled into rules,   *)
(* which are then split into strata (Stratifier).                          *)
(*                                                                         *)
(* Documents are the values of OwlFunctional, OwlManchester, OwlXml and,   *)
(* for RDF, the set of triples.  OWL/XML documents come from other tools.  *)
(***************************************************************************)
EXTENDS Stratifier, OwlOntology, FiniteSetsExt
LOCAL INSTANCE SequencesExt

Functional == INSTANCE OwlFunctional
Manchester == INSTANCE OwlManchester
Rdf == INSTANCE OwlRdf
RdfReader == INSTANCE OwlRdfReader
Xml == INSTANCE OwlXml
Rules == INSTANCE OwlRules

CONSTANTS
  Ontologies, \* what is first held in memory
  Domain      \* the elements of the interpretations rules are checked in

Semantics == INSTANCE OwlSemantics

VARIABLES
  stage,    \* "held", "saved", "loaded", "compiled", "failed"; "rules" without an ontology
  held,     \* the ontology in memory, or the one the document was written from
  via,      \* the format `held` was read from, or "none"
  document, \* <<format, content>>, or <<>>
  loaded,   \* the ontology read from the document, or <<>>
  theory,   \* the statements that were compiled
  compiled  \* the rules they were compiled into

vars == <<p, stage, held, via, document, loaded, theory, compiled>>

NoOntology == Ontology(<<>>, <<>>, <<>>, <<>>, <<>>)

FormsOf(axioms) == {ax.form : ax \in ToSet(axioms)}

-----------------------------------------------------------------------------
(* OWL/XML as other tools write it, with full or with abbreviated IRIs.    *)
(* Namespaces are left out, so the declared prefix stands for nothing.     *)

\* Every reader gives literals their datatype.
Typed(x) == Functional!fmt_rdf_literal(x)

Refer(style, iri) == IF style = "full" THEN <<"IRI", iri>> ELSE <<"abbreviatedIRI", "ex", iri>>
IriElement(iri) == Xml!Element("IRI", <<"text", "string", iri>>, <<>>)
LiteralElement(x) == Xml!Element("Literal", <<"text", Typed(x)[2], Typed(x)[3]>>, <<>>)
NodeId(n) == Xml!Element("AnonymousIndividual", <<"nodeID", n>>, <<>>)
NodeElement(x) ==
  CASE x[1] = "iri" -> IriElement(x[2]) [] x[1] = "b" -> NodeId(x[2]) [] OTHER -> LiteralElement(x)
IndividualElement(style, x) ==
  IF x[1] = "NamedIndividual" THEN Xml!Element(x[1], Refer(style, x[2]), <<>>) ELSE NodeId(x[2])

\* The elements of an argument.
RECURSIVE Elements(_, _, _)
Elements(style, role, x) ==
  LET Named(tag, iri) == <<Xml!Element(tag, Refer(style, iri), <<>>)>>
      Inner(first) == FlattenSeq([i \in 1..(Len(Roles(x[1])) + 1 - first) |->
                        Elements(style, Roles(x[1])[i + first - 1], x[i + first])])
      Plain(tag) == <<Xml!Element(tag, <<>>, Inner(1))>>
  IN  CASE role \in DOMAIN ListOf ->
             FlattenSeq([i \in DOMAIN x |-> Elements(style, ListOf[role], x[i])])
        [] role = "dprop" -> Named("DataProperty", x)
        [] role = "ind" -> <<IndividualElement(style, x)>>
        [] role = "lit" -> <<LiteralElement(x)>>
        [] role = "node" -> <<NodeElement(x)>>
        [] role = "facet" ->
             <<Xml!Element("FacetRestriction", <<"facet", x[1]>>, <<LiteralElement(x[2])>>)>>
        [] x[1] = "NamedObjectProperty" -> Named("ObjectProperty", x[2])
        [] x[1] = "InverseObjectProperty" ->
             <<Xml!Element("ObjectInverseOf", <<>>, Elements(style, "oprop", x[2]))>>
        [] x[1] = "ClassName" -> Named("Class", x[2])
        [] x[1] = "NamedDataRange" -> Named("Datatype", x[2])
        [] x[1] \in {"DatatypeRestriction", "DatatypeDefinition"} ->
             <<Xml!Element(x[1], <<>>, Named("Datatype", x[2]) \o Inner(2))>>
        [] x[1] = "DisjointUnion" -> <<Xml!Element(x[1], <<>>, Named("Class", x[2]) \o Inner(2))>>
        [] x[1] = "SubAnnotationPropertyOf" ->
             <<Xml!Element(x[1], <<>>, Named("AnnotationProperty", x[2]) \o Named("AnnotationProperty", x[3]))>>
        [] x[1] \in {"AnnotationPropertyDomain", "AnnotationPropertyRange"} ->
             <<Xml!Element(x[1], <<>>, Append(Named("AnnotationProperty", x[2]), IriElement(x[3])))>>
        [] x[1] = "AnnotationAssertion" ->
             <<Xml!Element(x[1], <<>>, Named("AnnotationProperty", x[2]) \o Inner(2))>>
        [] x[1] = "SubObjectPropertyChainOf" ->
             <<Xml!Element("SubObjectPropertyOf", <<>>,
                 <<Xml!Element("ObjectPropertyChain", <<>>, Elements(style, "oprops", x[2]))>>
                   \o Elements(style, "oprop", x[3]))>>
        [] x[1] = "NamedIndividualDeclaration" -> <<IndividualElement(style, x[2])>>
        [] x[1] \in DOMAIN Entity ->
             Named(CHOOSE tag \in DOMAIN Xml!EntityTags : Xml!EntityTags[tag] = x[1], x[2])
        [] Head(Roles(x[1])) = "n" ->
             <<Xml!Element(IF x[1] \in DOMAIN Functional!Unqualified THEN Functional!Unqualified[x[1]] ELSE x[1],
                           <<"cardinality", x[2]>>, Inner(2))>>
        [] OTHER -> Plain(x[1])

RECURSIVE AnnotationElements(_, _)
AnnotationElements(style, anns) ==
  [i \in DOMAIN anns |->
     Xml!Element("Annotation", <<>>,
       AnnotationElements(style, anns[i][3])
         \o <<Xml!Element("AnnotationProperty", Refer(style, anns[i][1]), <<>>),
              IF anns[i][2][1] = "AnonymousIndividual" THEN NodeId(anns[i][2][2])
              ELSE NodeElement(anns[i][2])>>)] \o <<>>

\* Declarations of anonymous individuals have no written form.
Writable(o) ==
  [o EXCEPT !.axioms = SelectSeq(@, LAMBDA ax : ax.form[1] # "NamedIndividualDeclaration"
                                                  \/ ax.form[2][1] = "NamedIndividual")]

\* Rules have no OWL/XML form here.
XmlDocument(style, o) ==
  LET Written(ax) ==
        LET anns == AnnotationElements(style, ax.anns)
            body == Elements(style, "form", ax.form)
        IN  IF ax.form[1] \in DOMAIN Entity THEN Xml!Element("Declaration", <<>>, anns \o body)
            ELSE Xml!Element(body[1][1], body[1][2], anns \o body[1][3])
  IN  Xml!Element("Ontology", o.version,
        <<Xml!Element("Prefix", <<"prefix", "ex", "">>, <<>>)>>
          \o [i \in DOMAIN o.imports |-> Xml!Element("Import", <<"text", "string", o.imports[i]>>, <<>>)]
          \o AnnotationElements(style, o.anns)
          \o [i \in DOMAIN o.axioms |-> Written(o.axioms[i])])

-----------------------------------------------------------------------------
(* Compilation.                                                            *)

\* The formats parse_frame_ontology_file reads; RDF goes to the store.
FrameFormats == {"functional", "manchester", "full", "abbreviated"}

parse_frame_ontology_file(doc) ==
  CASE doc[1] = "functional" -> Functional!parse(doc[2])
    [] doc[1] = "manchester" -> Manchester!parse(doc[2])
    [] OTHER -> Xml!parse(doc[2])

\* The ground triples of the assertions that are one triple.
AboxTriples(forms) ==
  UNION {Rdf!axiom_triples(Axiom(f, <<>>), 0).triples : f \in Rules!assert_abox(forms)}

\* The statements the store's triples make, or <<>>.
StoredForms(graph) ==
  LET Accepted(read) == IF read.ok THEN <<{ax.form : ax \in read.axioms}>> ELSE <<>>
  IN  Accepted(RdfReader!rdf2owl(graph))

\* A document is compiled into a store without other triples: <<statements,
\* rules>>, or <<>>.  The assertions of a frame document are triples before
\* the store is read for axioms.
compile_ontology_rules(doc) ==
  Then(Then(IF doc[1] \in FrameFormats THEN parse_frame_ontology_file(doc) ELSE <<NoOntology>>,
            LAMBDA read : <<FormsOf(read.axioms)>>),
       LAMBDA framed :
         Then(StoredForms(IF doc[1] \in FrameFormats THEN AboxTriples(framed) ELSE doc[2]),
              LAMBDA stored :
                <<<<framed \cup stored, UNION {Rules!owl2datalog(forms) : forms \in {framed, stored}}>>>>))

\* The stratifier's view of a rule: the triples its patterns match, among
\* those over the terms of the rules and one term that is none of them.
Other == <<"iri", "other">>
Stratified(rules) ==
  LET Patterns(r) == ToSet(r.body) \cup (IF r.head = <<>> THEN {} ELSE {r.head})
      all == UNION {Patterns(r) : r \in rules}
      Terms(i) == {pattern[i] : pattern \in {q \in all : q[i][1] # "var"}} \cup {Other}
      quads == Terms(1) \X Terms(2) \X Terms(3)
      Matched(pattern) == {q \in quads : \A i \in 1..3 : pattern[i][1] = "var" \/ pattern[i] = q[i]}
      View(r) == [head |-> IF r.head = <<>> THEN {} ELSE Matched(r.head),
                  pos |-> UNION {Matched(r.body[i]) : i \in DOMAIN r.body}, neg |-> {}]
  IN  FoldSet(LAMBDA r, s : Append(s, View(r)), <<>>, rules)

-----------------------------------------------------------------------------
(* Steps.                                                                  *)

OwlInit ==
  /\ \/ stage = "rules" /\ held = NoOntology /\ Init
     \/ stage = "held" /\ held \in Ontologies /\ p = new(<<>>)
  /\ via = "none" /\ document = <<>> /\ loaded = <<>> /\ theory = {} /\ compiled = {}

Saved(doc) ==
  /\ stage = "held"
  /\ stage' = "saved" /\ document' = doc
  /\ UNCHANGED <<p, held, via, loaded, theory, compiled>>

SaveFunctional == Saved(<<"functional", Functional!serialize(held)>>)
SaveManchester == Saved(<<"manchester", Manchester!serialize(held)>>)
SaveRdf == Saved(<<"rdf", Rdf!owl2rdf(held).graph>>)
\* Another tool's document, of an ontology no document here was read from.
ReceiveXml == via = "none" /\ \E style \in {"full", "abbreviated"} : Saved(<<style, XmlDocument(style, Writable(held))>>)

Load ==
  /\ stage = "saved"
  /\ stage' = "loaded"
  /\ loaded' = IF document[1] = "rdf" THEN <<RdfReader!rdf2owl(document[2])>>
               ELSE parse_frame_ontology_file(document)
  /\ UNCHANGED <<p, held, via, document, theory, compiled>>

\* What was read is used from here on.
Keep ==
  /\ stage = "loaded" /\ loaded # <<>> /\ document[1] # "rdf"
  /\ stage' = "held" /\ held' = loaded[1] /\ via' = document[1]
  /\ document' = <<>> /\ loaded' = <<>>
  /\ UNCHANGED <<p, theory, compiled>>

Compile ==
  /\ stage = "saved"
  /\ \E result \in {compile_ontology_rules(document)} :
         /\ stage' = IF result = <<>> THEN "failed" ELSE "compiled"
         /\ theory' = IF result = <<>> THEN theory ELSE result[1][1]
         /\ compiled' = IF result = <<>> THEN compiled ELSE result[1][2]
         /\ p' = IF result = <<>> THEN p ELSE new(Stratified(result[1][2]))
  /\ via' = "none" /\ document' = <<>>
  /\ UNCHANGED <<held, loaded>>

Stratify ==
  /\ stage \in {"rules", "compiled"}
  /\ Next
  /\ UNCHANGED <<stage, held, via, document, loaded, theory, compiled>>

OwlNext ==
  \/ SaveFunctional \/ SaveManchester \/ SaveRdf \/ ReceiveXml \/ Load \/ Keep \/ Compile \/ Stratify

OwlSpec == OwlInit /\ [][OwlNext]_vars

-----------------------------------------------------------------------------
(* Properties.                                                             *)

\* The expressions, individuals and nodes in an argument, itself included.
RECURSIVE Parts(_, _)
Parts(role, x) ==
  CASE role \in DOMAIN ListOf -> UNION {Parts(ListOf[role], x[i]) : i \in DOMAIN x}
    [] role \in {"iri", "dprop", "n", "facet"} -> {}
    [] role \in {"ind", "lit", "arg", "node"} \/ x[1] \in {"ClassName", "NamedDataRange", "NamedObjectProperty"} -> {x}
    [] x[1] = "InverseObjectProperty" -> {x} \cup Parts("oprop", x[2])
    [] OTHER -> {x} \cup UNION {Parts(Roles(x[1])[i], x[i + 1]) : i \in DOMAIN Roles(x[1])}

\* The argument with literals typed and anonymous individuals renamed by f.
RECURSIVE Renamed(_, _, _)
Renamed(f, role, x) ==
  CASE role \in DOMAIN ListOf -> [i \in DOMAIN x |-> Renamed(f, ListOf[role], x[i])] \o <<>>
    [] role \in {"iri", "dprop", "oprop", "n"} -> x
    [] role = "facet" -> <<x[1], Typed(x[2])>>
    [] x[1] \in {"AnonymousIndividual", "b"} -> <<x[1], f[x[2]]>>
    [] x[1] = "lit" -> Typed(x)
    [] x[1] \in {"ClassName", "NamedDataRange", "NamedIndividual", "Variable", "iri"} -> x
    [] OTHER -> <<x[1]>> \o [i \in DOMAIN Roles(x[1]) |-> Renamed(f, Roles(x[1])[i], x[i + 1])]

RECURSIVE RenamedAnnotations(_, _)
RenamedAnnotations(f, anns) ==
  [i \in DOMAIN anns |-> <<anns[i][1], Renamed(f, "node", anns[i][2]),
                           RenamedAnnotations(f, anns[i][3])>>] \o <<>>

\* What a faithful reader makes of a document.
Reread(f, o) ==
  LET Atoms(atoms) == [i \in DOMAIN atoms |-> Renamed(f, "form", atoms[i])] \o <<>>
  IN  Ontology(o.version, o.imports, RenamedAnnotations(f, o.anns),
        [i \in DOMAIN o.axioms |-> Axiom(Renamed(f, "form", o.axioms[i].form),
                                         RenamedAnnotations(f, o.axioms[i].anns))] \o <<>>,
        [i \in DOMAIN o.rules |-> Rule(Atoms(o.rules[i].body), Atoms(o.rules[i].head),
                                       RenamedAnnotations(f, o.rules[i].anns))] \o <<>>)

RECURSIVE AnnotationParts(_)
AnnotationParts(anns) == UNION {{anns[i][2]} \cup AnnotationParts(anns[i][3]) : i \in DOMAIN anns}

Anonymous(o) ==
  {x[2] : x \in {y \in AnnotationParts(o.anns)
                       \cup UNION {Parts("form", ax.form) \cup AnnotationParts(ax.anns) : ax \in ToSet(o.axioms)}
                       \cup UNION {UNION {Parts("form", atom) : atom \in ToSet(r.body \o r.head)} : r \in ToSet(o.rules)} :
                   y[1] \in {"AnonymousIndividual", "b"}}}

Renamings(o) == Bijection(Anonymous(o), {<<0, n>> : n \in 0..(Cardinality(Anonymous(o)) - 1)})

\* Rule arguments the functional syntax tells apart: no literal stands for an
\* individual, no individual for a value.
ArgumentsSorted(o) ==
  \A r \in ToSet(o.rules) : \A atom \in ToSet(r.body \o r.head) :
    CASE atom[1] = "BuiltInAtom" -> \A i \in DOMAIN atom[3] : atom[3][i][1] \in {"lit", "Variable"}
      [] atom[1] = "ClassAtom" -> atom[3][1] # "lit"
      [] atom[1] = "PropertyAtom" -> atom[3][1] # "lit"
      [] OTHER -> TRUE

\* A document in functional style or in OWL/XML is read as the ontology it was
\* written from, axiom by axiom: only the numbers of anonymous individuals
\* change, consistently over the whole document, and literals are typed.
\* OWL/XML has no rules.
TreeExact ==
  stage = "loaded" /\ document[1] \in FrameFormats \ {"manchester"} /\ ArgumentsSorted(held) =>
    LET o == IF document[1] = "functional" THEN Writable(held) ELSE [Writable(held) EXCEPT !.rules = <<>>]
    IN  \E f \in Renamings(o) : loaded = <<Reread(f, o)>>

\* What was read from a syntax is read from it again unchanged, whatever was
\* lost the first time and whatever other syntaxes it went through before.
SecondTripStable ==
  stage = "loaded" /\ document[1] = via => loaded = <<held>>

-----------------------------------------------------------------------------
(* What a reader may change is what leaves the meaning.                    *)

Forms(o) == FormsOf(o.axioms)
PartsOf(forms) == UNION {Parts("form", f) : f \in forms}
Constructors(forms) == {x[1] : x \in PartsOf(forms)}

\* Every name has a declaration.
Declared(o) ==
  LET declared == {f[2] : f \in {g \in Forms(o) : g[1] \in DOMAIN Entity \ {"NamedIndividualDeclaration"}}}
      annotating == {an[1] : an \in UNION {ToSet(ax.anns) : ax \in ToSet(o.axioms)}}
  IN  /\ \A name \in Semantics!Signature(Forms(o)) :
           name[1] = "individual" \/ name[2] \in declared \cup RdfReader!BuiltinDatatypes
      /\ annotating \subseteq declared

\* Statements the RDF reader gives another meaning: it knows no datatype
\* definitions with an undeclared range and no data ranges without a name.
Misread(forms) ==
  \/ \E f \in forms : f[1] = "DatatypeDefinition"
  \/ Constructors(forms) \cap DOMAIN DataRange # {}

\* Statements that have no form in a syntax and are left out of the document:
\* in RDF those over inverse properties, the negative assertions and the
\* assertions of complex classes; in Manchester syntax those that are about a
\* complex class or an inverse property, which no frame is for, and those
\* that restrict several data properties together.
Lost(format, f) ==
  LET inverse == "InverseObjectProperty" \in Constructors({f})
  IN  CASE format = "rdf" ->
             \/ inverse
             \/ f[1] \in {"NegativeObjectPropertyAssertion", "NegativeDataPropertyAssertion"}
             \/ f[1] = "ClassAssertion" /\ f[2][1] # "ClassName"
        [] format = "manchester" ->
             \/ f[1] = "SubClassOf" /\ f[2][1] # "ClassName"
             \/ f[1] \in Characteristics \cup {"ObjectPropertyDomain", "ObjectPropertyRange",
                                               "SubObjectPropertyOf", "InverseObjectProperties",
                                               "ObjectPropertyAssertion", "NegativeObjectPropertyAssertion"}
                /\ f[2][1] = "InverseObjectProperty"
             \/ \E x \in Parts("form", f) :
                  x[1] \in {"DataSomeValuesFrom", "DataAllValuesFrom"} /\ Len(x[2]) > 1
        [] OTHER -> FALSE

\* The statement as the RDF reader names its anonymous individuals.
Rebased(f) ==
  IF document[1] # "rdf" THEN f
  ELSE Renamed([n \in Anonymous(held) |-> <<0>> \o n], "form", f)

ReadForms == IF document[1] = "rdf" THEN {ax.form : ax \in loaded[1].axioms} ELSE Forms(loaded[1])

\* The RDF reader takes the nodes of restrictions and annotated axioms for
\* individuals of these classes.
Artefact(f) ==
  f[1] = "ClassAssertion" /\ f[2] \in {ClassName("owl:Restriction"), ClassName("owl:Axiom")}

\* Every statement read follows from the ones written, and every one written
\* that has a form in the syntax from those read: whatever the readers change
\* (pairs for lists, the order of symmetric statements, the sort of undeclared
\* properties, trivial unions and cardinalities), the models stay the same.
ReadingMeansTheSame ==
  stage = "loaded" /\ loaded # <<>> /\ ~(document[1] = "rdf" /\ Misread(Forms(held))) =>
    LET written == {Rebased(f) : f \in Forms(held)}
        read == {f \in ReadForms : ~Artefact(f)}
        kept == {f \in written : ~Lost(document[1], f)}
    IN  \/ read = written
        \/ \A I \in Semantics!Interpretations(Semantics!Signature(written \cup read)) :
             /\ (\A f \in written : Semantics!Satisfies(I, f)) => \A f \in read : Semantics!Satisfies(I, f)
             /\ Declared(held) /\ (\A f \in read : Semantics!Satisfies(I, f)) =>
                  \A f \in kept : Semantics!Satisfies(I, f)

\* An annotation stays with the statement it was made about, and with no
\* other: of the statements that are read as they were written, each has the
\* annotations of the axioms that make it.  RDF keeps annotations as a set
\* without the annotations on them, and none of those of a node that lists
\* members; Manchester syntax has none for functional data properties.
AnnotationsFollowAxioms ==
  stage = "loaded" /\ loaded # <<>> /\ Declared(held) =>
    CASE document[1] = "rdf" ->
           \A ax \in loaded[1].axioms :
             LET same == {h \in ToSet(held.axioms) : h.form = ax.form /\ h.form[1] \notin DOMAIN Entity}
                 flat == {[i \in DOMAIN h.anns |-> <<h.anns[i][1], Rdf!annotation_value(h.anns[i][2])>>] : h \in same}
             IN  same # {} => {<<an[1], Rdf!annotation_value(an[2])>> : an \in ax.anns}
                                \in {UNION {ToSet(s) : s \in flat}, {}}
      [] document[1] = "manchester" ->
           \A h \in ToSet(held.axioms) :
             LET same == {ax \in ToSet(loaded[1].axioms) : ax.form = h.form}
             IN  same # {} /\ h.form[1] \notin DOMAIN Entity \cup {"FunctionalDataProperty"} =>
                   {ax.anns : ax \in same} = {g.anns : g \in {k \in ToSet(held.axioms) : k.form = h.form}}
      [] OTHER -> TRUE

-----------------------------------------------------------------------------
(* Rules.                                                                  *)

\* The concepts representatives are made for.
Concepts ==
  LET classes == {x \in PartsOf(theory) : x[1] \in DOMAIN ClassExpression \cup {"ClassName"}}
      joined == UNION {{<<"ObjectIntersectionOf", <<f[2][i], f[2][j]>>>> : i, j \in DOMAIN f[2]} :
                         f \in {g \in theory : g[1] = "DisjointClasses"}}
  IN  classes \cup joined \cup {ClassName("owl:Nothing")}

\* The concept a class node stands for.
Concept(node) ==
  IF node[1] = "repr" THEN CHOOSE c \in Concepts : Rules!concept_representative(c) = node
  ELSE ClassName(node[2])

\* The rules, with concepts for class nodes and every property in place of a
\* variable predicate.
Instances(properties) ==
  LET Free(r) == \E i \in DOMAIN r.body : r.body[i][2][1] = "var"
      Put(property, pattern) ==
        CASE pattern = <<>> -> pattern
          [] pattern # <<>> /\ pattern[2][1] = "var" -> [pattern EXCEPT ![2] = IriNode(property)]
          [] pattern # <<>> /\ pattern[2] = IriNode("rdf:type") -> [pattern EXCEPT ![3] = Concept(@)]
          [] OTHER -> pattern
      With(property, r) == [head |-> Put(property, r.head),
                            body |-> [i \in DOMAIN r.body |-> Put(property, r.body[i])] \o <<>>]
  IN  {With("none", r) : r \in {s \in compiled : ~Free(s)}}
        \cup {With(property, r) : property \in properties, r \in {s \in compiled : Free(s)}}

\* No two concepts have representatives in common, which only their lengths
\* keep apart.
RepresentativesDiffer ==
  Cardinality({Rules!concept_representative(c) : c \in Concepts}) = Cardinality(Concepts)

FreshlyCompiled == stage = "compiled" /\ p.status = "start"

\* From document to rules, nothing is derived that does not follow: the rules
\* hold in every model of the ontology the document was written from.
RulesSound ==
  FreshlyCompiled /\ RepresentativesDiffer /\ ~(\E f \in Forms(held) : f[1] = "DatatypeDefinition") =>
    LET names == Semantics!Signature(Forms(held)) \cup Semantics!Signature({f \in theory : ~Artefact(f)})
        rules == Instances({name[2] : name \in {n \in names : n[1] = "property"}})
    IN  \A I \in Semantics!Interpretations(names) :
          (\A f \in Forms(held) : Semantics!Satisfies(I, f)) => \A r \in rules : Semantics!RuleHolds(I, r)

\* The statements whose whole meaning is a set of rules.
Expressible(f) ==
  LET Sub(x) == \A s \in ToSet(Rules!eli_sub_class_extractor(x)) : s # <<>>
      Super(x) == Rules!eli_super_class_extractor(x) # <<>>
      Flat(x) == ~\E y \in Parts("class", x) : y[1] = "ObjectIntersectionOf" /\
                    \E i \in DOMAIN y[2] : y[2][i][1] = "ObjectIntersectionOf"
  IN  CASE f[1] = "SubClassOf" -> Sub(f[2]) /\ Super(f[3]) /\ Flat(f[2])
        [] f[1] = "EquivalentClasses" ->
             \A i \in DOMAIN f[2] : Sub(f[2][i]) /\ Super(f[2][i]) /\ Flat(f[2][i])
        [] f[1] \in {"ObjectPropertyDomain", "ObjectPropertyRange", "DataPropertyDomain"} -> Super(f[3])
        [] f[1] = "DataPropertyRange" -> f[3][1] = "NamedDataRange"
        [] OTHER -> f[1] \in {"SubObjectPropertyOf", "SubObjectPropertyChainOf", "SubDataPropertyOf",
                              "SymmetricObjectProperty", "TransitiveObjectProperty"}

\* Nothing the rules could say is left out: an interpretation in which all of
\* them hold is a model of the statements that are expressible as rules.
RulesComplete ==
  FreshlyCompiled /\ RepresentativesDiffer =>
    LET names == Semantics!Signature({f \in theory : ~Artefact(f)})
        rules == Instances({name[2] : name \in {n \in names : n[1] = "property"}})
        direct == {f \in theory : Expressible(f)}
    IN  direct # {} =>
          \A I \in Semantics!Interpretations(names) :
            (\A r \in rules : Semantics!RuleHolds(I, r)) => \A f \in direct : Semantics!Satisfies(I, f)
=============================================================================
