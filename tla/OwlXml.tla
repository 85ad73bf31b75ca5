------------------------------- MODULE OwlXml -------------------------------
(***************************************************************************)
(* The reader of OWL/XML documents (owl_xml_parser).  An element is        *)
(* <<tag, content, child elements>>; its content is the attribute or the   *)
(* text the reader looks at:                                               *)
(*   <<"IRI", iri>>, <<"abbreviatedIRI", prefix, local name>>              *)
(*   <<"nodeID", label>>, <<"cardinality", n>>, <<"facet", iri>>           *)
(*   <<"text", type, text>>, and <<>> when there is none of these.         *)
(* A result is <<value>>, or <<>>: one error refuses the whole document.   *)
(***************************************************************************)
EXTENDS OwlOntology, SequencesExt

Element(tag, content, children) == <<tag, content, children>>
element_children(node) == node[3]

AllRead(options) ==
  IF \E i \in DOMAIN options : options[i] = <<>> THEN <<>>
  ELSE <<[i \in DOMAIN options |-> options[i][1]]>>
\* The constructor with the arguments read, when all of them are.
Build(constructor, options) ==
  Then(AllRead(options), LAMBDA args : <<<<constructor>> \o args>>)
Each(Read(_), nodes) == AllRead([i \in DOMAIN nodes |-> Read(nodes[i])] \o <<>>)

\* The namespace of every declared prefix.
collect_prefixes(root) ==
  LET declared == SelectSeq(element_children(root), LAMBDA c : c[1] = "Prefix")
  IN  [name \in {declared[i][2][2] : i \in DOMAIN declared} |->
         LET last == CHOOSE i \in DOMAIN declared :
                       /\ declared[i][2][2] = name
                       /\ \A j \in DOMAIN declared : declared[j][2][2] = name => j <= i
         IN  declared[last][2][3]]

resolve_iri(ctx, node) ==
  LET c == node[2]
  IN  CASE c # <<>> /\ c[1] = "IRI" -> <<c[2]>>
        [] c # <<>> /\ c[1] = "abbreviatedIRI" /\ c[2] \in DOMAIN ctx.prefixes ->
             <<ctx.prefixes[c[2]] \o c[3]>>
        [] OTHER -> <<>>

\* Labels are numbered in the order they are first met.
anon_individual_for_label(ctx, label) ==
  LET first == CHOOSE i \in DOMAIN ctx.labels :
                 ctx.labels[i] = label /\ \A j \in 1..(i - 1) : ctx.labels[j] # label
  IN  <<0, Cardinality({ctx.labels[j] : j \in 1..(first - 1)})>>

parse_anonymous_individual_node_id(ctx, node) ==
  IF node[2] = <<>> \/ node[2][1] # "nodeID" THEN <<>>
  ELSE <<anon_individual_for_label(ctx, node[2][2])>>

individual(ctx, node) ==
  CASE node[1] = "NamedIndividual" -> Build("NamedIndividual", <<resolve_iri(ctx, node)>>)
    [] node[1] = "AnonymousIndividual" ->
         Build("AnonymousIndividual", <<parse_anonymous_individual_node_id(ctx, node)>>)
    [] OTHER -> <<>>

\* Whatever the element is.
parse_literal(node) ==
  IF node[2] # <<>> /\ node[2][1] = "text" THEN Literal(node[2][2], node[2][3])
  ELSE Literal("string", "")

RECURSIVE object_property_expression(_, _)
object_property_expression(ctx, node) ==
  CASE node[1] = "ObjectProperty" -> Build("NamedObjectProperty", <<resolve_iri(ctx, node)>>)
    [] node[1] = "ObjectInverseOf" /\ element_children(node) # <<>> ->
         Build("InverseObjectProperty", <<object_property_expression(ctx, node[3][1])>>)
    [] OTHER -> <<>>

data_property_expression(ctx, node) == IF node[1] = "DataProperty" THEN resolve_iri(ctx, node) ELSE <<>>

literal_child(node) == IF node[1] = "Literal" THEN <<parse_literal(node)>> ELSE <<>>

facet_restriction(node) ==
  LET values == SelectSeq(element_children(node), LAMBDA c : c[1] = "Literal")
  IN  IF node[1] # "FacetRestriction" \/ node[2] = <<>> \/ values = <<>> THEN <<>>
      ELSE <<<<node[2][2], parse_literal(values[1])>>>>

\* A complement looks at its first child only.
RECURSIVE data_range(_, _)
data_range(ctx, node) ==
  LET kids == element_children(node)
  IN  CASE node[1] = "Datatype" -> Build("NamedDataRange", <<resolve_iri(ctx, node)>>)
        [] node[1] \in {"DataIntersectionOf", "DataUnionOf"} ->
             Build(node[1], <<Each(LAMBDA c : data_range(ctx, c), kids)>>)
        [] node[1] = "DataComplementOf" /\ kids # <<>> -> Build(node[1], <<data_range(ctx, kids[1])>>)
        [] node[1] = "DataOneOf" -> Build(node[1], <<Each(literal_child, kids)>>)
        [] node[1] = "DatatypeRestriction" /\ Len(kids) > 1 /\ kids[1][1] = "Datatype" ->
             Build(node[1], <<resolve_iri(ctx, kids[1]), Each(facet_restriction, Tail(kids))>>)
        [] OTHER -> <<>>

\* ------------------------------------------------------ class expressions

DATA_RANGE_TAGS == {"Datatype", "DataIntersectionOf", "DataUnionOf", "DataComplementOf", "DataOneOf",
                    "DatatypeRestriction"}

cardinality(node) == IF node[2] # <<>> /\ node[2][1] = "cardinality" THEN <<node[2][2]>> ELSE <<>>

\* The child elements when there are exactly two; the first when there is one.
two_children(node) == IF Len(element_children(node)) = 2 THEN <<node[3]>> ELSE <<>>
one_child(node) == IF element_children(node) = <<>> THEN <<>> ELSE <<node[3][1]>>

\* The properties in order and the one range, wherever it stands.
data_properties_then_range(ctx, node) ==
  LET kids == element_children(node)
      props == SelectSeq(kids, LAMBDA c : c[1] = "DataProperty")
      ranges == SelectSeq(kids, LAMBDA c : c[1] \in DATA_RANGE_TAGS)
  IN  IF props = <<>> \/ Len(ranges) # 1 \/ Len(props) + Len(ranges) # Len(kids) THEN <<>>
      ELSE Build(node[1], <<Each(LAMBDA c : data_property_expression(ctx, c), props),
                            data_range(ctx, ranges[1])>>)

\* The constructors of the qualified forms of the cardinality elements.
Qualified ==
  [ObjectMinCardinality |-> "ObjectMinQualifiedCardinality",
   ObjectMaxCardinality |-> "ObjectMaxQualifiedCardinality",
   ObjectExactCardinality |-> "ObjectExactQualifiedCardinality",
   DataMinCardinality |-> "DataMinQualifiedCardinality",
   DataMaxCardinality |-> "DataMaxQualifiedCardinality",
   DataExactCardinality |-> "DataExactQualifiedCardinality"]

DataCardinalities == {"DataMinCardinality", "DataMaxCardinality", "DataExactCardinality"}

\* Slip: the filler of a cardinality is looked for one child too far.
FillerMissed(ctx, node) ==
  Build(node[1], <<cardinality(node), data_property_expression(ctx, element_children(node)[1])>>)

DataCardinality(ctx, node) ==
  LET kids == element_children(node)
      start == <<cardinality(node), data_property_expression(ctx, kids[1])>>
  IN  CASE kids = <<>> -> <<>>
        [] Len(kids) = 1 -> Build(node[1], start)
        [] OTHER -> Build(Qualified[node[1]], Append(start, data_range(ctx, kids[2])))

RECURSIVE class_expression(_, _)
class_expression(ctx, node) ==
  LET kids == element_children(node)
      Class(i) == class_expression(ctx, kids[i])
      Role(i) == object_property_expression(ctx, kids[i])
      two == two_children(node) # <<>>
      one == one_child(node) # <<>>
  IN  CASE node[1] = "Class" -> Build("ClassName", <<resolve_iri(ctx, node)>>)
        [] node[1] \in {"ObjectIntersectionOf", "ObjectUnionOf"} ->
             Build(node[1], <<Each(LAMBDA c : class_expression(ctx, c), kids)>>)
        [] node[1] = "ObjectComplementOf" /\ one -> Build(node[1], <<Class(1)>>)
        [] node[1] = "ObjectOneOf" -> Build(node[1], <<Each(LAMBDA c : individual(ctx, c), kids)>>)
        [] node[1] \in {"ObjectSomeValuesFrom", "ObjectAllValuesFrom"} /\ two ->
             Build(node[1], <<Role(1), Class(2)>>)
        [] node[1] = "ObjectHasValue" /\ two -> Build(node[1], <<Role(1), individual(ctx, kids[2])>>)
        [] node[1] = "ObjectHasSelf" /\ one -> Build(node[1], <<Role(1)>>)
        [] node[1] \in DOMAIN Qualified \ DataCardinalities /\ one ->
             IF Len(kids) = 1 THEN Build(node[1], <<cardinality(node), Role(1)>>)
             ELSE Build(Qualified[node[1]], <<cardinality(node), Role(1), Class(2)>>)
        [] node[1] \in {"DataSomeValuesFrom", "DataAllValuesFrom"} ->
             data_properties_then_range(ctx, node)
        [] node[1] = "DataHasValue" /\ two ->
             Build(node[1], <<data_property_expression(ctx, kids[1]), literal_child(kids[2])>>)
        [] node[1] \in DataCardinalities -> DataCardinality(ctx, node)
        [] OTHER -> <<>>

\* ------------------------------------------------------------ annotations

parse_iri_text_element(ctx, node) ==
  CASE node[1] = "IRI" -> <<node[2][3]>>
    [] node[1] = "AbbreviatedIRI" -> resolve_iri(ctx, node)
    [] OTHER -> <<>>

parse_annotation_filler_as_graph_element(ctx, node) ==
  CASE node[1] = "Literal" -> <<parse_literal(node)>>
    [] node[1] \in {"IRI", "AbbreviatedIRI"} -> Build("iri", <<parse_iri_text_element(ctx, node)>>)
    [] node[1] = "AnonymousIndividual" -> Build("b", <<parse_anonymous_individual_node_id(ctx, node)>>)
    [] OTHER -> <<>>

\* The value of an annotation: an individual where an assertion has a node.
AnnotationValue(ctx, node) ==
  IF node[1] = "AnonymousIndividual" THEN individual(ctx, node)
  ELSE parse_annotation_filler_as_graph_element(ctx, node)

\* Of several properties or values the last one counts.
RECURSIVE parse_annotation(_, _)
parse_annotation(ctx, node) ==
  LET kids == element_children(node)
      metas == SelectSeq(kids, LAMBDA c : c[1] = "Annotation")
      props == SelectSeq(kids, LAMBDA c : c[1] = "AnnotationProperty")
      values == SelectSeq(kids, LAMBDA c : c[1] \notin {"Annotation", "AnnotationProperty"})
      read == AllRead(<<Each(LAMBDA c : resolve_iri(ctx, c), props),
                        Each(LAMBDA c : AnnotationValue(ctx, c), values),
                        Each(LAMBDA c : parse_annotation(ctx, c), metas)>>)
  IN  IF props = <<>> \/ values = <<>> \/ read = <<>> THEN <<>>
      ELSE <<<<Last(read[1][1]), Last(read[1][2]), read[1][3]>>>>

\* How many of the first children are annotations.
split_axiom_annotations(children) ==
  CHOOSE n \in 0..Len(children) :
    /\ \A i \in 1..n : children[i][1] = "Annotation"
    /\ n < Len(children) => children[n + 1][1] # "Annotation"

\* ------------------------------------------------------------------ axioms

parse_annotation_axiom(ctx, tag, kids) ==
  CASE tag = "AnnotationAssertion" /\ Len(kids) = 3 ->
         Build(tag, <<resolve_iri(ctx, kids[1]), parse_annotation_filler_as_graph_element(ctx, kids[2]),
                      parse_annotation_filler_as_graph_element(ctx, kids[3])>>)
    [] tag = "SubAnnotationPropertyOf" /\ Len(kids) = 2 ->
         Build(tag, <<resolve_iri(ctx, kids[1]), resolve_iri(ctx, kids[2])>>)
    [] tag \in {"AnnotationPropertyDomain", "AnnotationPropertyRange"} /\ Len(kids) = 2 ->
         Build(tag, <<resolve_iri(ctx, kids[1]), parse_iri_text_element(ctx, kids[2])>>)
    [] OTHER -> <<>>

EntityTags ==
  [Class |-> "ClassDeclaration", Datatype |-> "DatatypeDeclaration",
   ObjectProperty |-> "ObjectPropertyDeclaration", DataProperty |-> "DataPropertyDeclaration",
   AnnotationProperty |-> "AnnotationPropertyDeclaration",
   NamedIndividual |-> "NamedIndividualDeclaration"]

parse_entity(ctx, node) ==
  CASE node[1] \notin DOMAIN EntityTags -> <<>>
    [] node[1] = "NamedIndividual" -> Build(EntityTags[node[1]], <<individual(ctx, node)>>)
    [] OTHER -> Build(EntityTags[node[1]], <<resolve_iri(ctx, node)>>)

\* The annotations may also follow the entity.
parse_declaration(ctx, node) ==
  LET kids == element_children(node)
      entities == SelectSeq(kids, LAMBDA c : c[1] # "Annotation")
      read == AllRead(<<parse_entity(ctx, entities[1]),
                        Each(LAMBDA c : parse_annotation(ctx, c),
                             SelectSeq(kids, LAMBDA c : c[1] = "Annotation"))>>)
  IN  IF Len(entities) # 1 \/ read = <<>> THEN <<>> ELSE <<Axiom(read[1][1], read[1][2])>>

parse_class_axiom(ctx, tag, kids) ==
  LET Class(c) == class_expression(ctx, c)
  IN  CASE tag = "SubClassOf" /\ Len(kids) = 2 -> Build(tag, <<Class(kids[1]), Class(kids[2])>>)
        [] tag \in {"EquivalentClasses", "DisjointClasses"} /\ Len(kids) >= 2 ->
             Build(tag, <<Each(Class, kids)>>)
        [] tag = "DisjointUnion" /\ Len(kids) >= 3 ->
             Build(tag, <<resolve_iri(ctx, kids[1]), Each(Class, Tail(kids))>>)
        [] OTHER -> <<>>

\* <<constructor, read property or chain>>
sub_object_property_expression(ctx, node) ==
  LET links == Each(LAMBDA c : object_property_expression(ctx, c), element_children(node))
  IN  IF node[1] = "ObjectPropertyChain"
      THEN <<"SubObjectPropertyChainOf", IF Len(element_children(node)) < 2 THEN <<>> ELSE links>>
      ELSE <<"SubObjectPropertyOf", object_property_expression(ctx, node)>>

parse_object_property_axiom(ctx, tag, kids) ==
  LET Role(c) == object_property_expression(ctx, c)
      two == Len(kids) = 2
  IN  CASE tag = "SubObjectPropertyOf" /\ two ->
             LET sub == sub_object_property_expression(ctx, kids[1])
             IN  Build(sub[1], <<sub[2], Role(kids[2])>>)
        [] tag \in {"EquivalentObjectProperties", "DisjointObjectProperties"} /\ Len(kids) >= 2 ->
             Build(tag, <<Each(Role, kids)>>)
        [] tag \in {"ObjectPropertyDomain", "ObjectPropertyRange"} /\ two ->
             Build(tag, <<Role(kids[1]), class_expression(ctx, kids[2])>>)
        [] tag = "InverseObjectProperties" /\ two -> Build(tag, <<Role(kids[1]), Role(kids[2])>>)
        [] tag \in Characteristics /\ Len(kids) = 1 -> Build(tag, <<Role(kids[1])>>)
        [] OTHER -> <<>>

parse_data_property_axiom(ctx, tag, kids) ==
  LET Property(c) == data_property_expression(ctx, c)
      two == Len(kids) = 2
  IN  CASE tag = "SubDataPropertyOf" /\ two -> Build(tag, <<Property(kids[1]), Property(kids[2])>>)
        [] tag \in {"EquivalentDataProperties", "DisjointDataProperties"} /\ Len(kids) >= 2 ->
             Build(tag, <<Each(Property, kids)>>)
        [] tag = "DataPropertyDomain" /\ two ->
             Build(tag, <<Property(kids[1]), class_expression(ctx, kids[2])>>)
        [] tag = "DataPropertyRange" /\ two ->
             Build(tag, <<Property(kids[1]), data_range(ctx, kids[2])>>)
        [] tag = "FunctionalDataProperty" /\ Len(kids) = 1 -> Build(tag, <<Property(kids[1])>>)
        [] OTHER -> <<>>

\* Keys are sorted by their tags; there may be none.
parse_has_key(ctx, kids) ==
  LET oprops == SelectSeq(Tail(kids), LAMBDA c : c[1] \in {"ObjectProperty", "ObjectInverseOf"})
      dprops == SelectSeq(Tail(kids), LAMBDA c : c[1] = "DataProperty")
  IN  IF kids = <<>> \/ Len(oprops) + Len(dprops) # Len(kids) - 1 THEN <<>>
      ELSE Build("HasKey", <<class_expression(ctx, kids[1]),
                             Each(LAMBDA c : object_property_expression(ctx, c), oprops),
                             Each(LAMBDA c : data_property_expression(ctx, c), dprops)>>)

parse_datatype_definition(ctx, kids) ==
  IF Len(kids) # 2 \/ kids[1][1] # "Datatype" THEN <<>>
  ELSE Build("DatatypeDefinition", <<resolve_iri(ctx, kids[1]), data_range(ctx, kids[2])>>)

\* The third child of a data assertion is a literal whatever its tag.
parse_assertion(ctx, tag, kids) ==
  LET Ind(c) == individual(ctx, c)
  IN  CASE tag = "ClassAssertion" /\ Len(kids) = 2 ->
             Build(tag, <<class_expression(ctx, kids[1]), Ind(kids[2])>>)
        [] tag \in {"ObjectPropertyAssertion", "NegativeObjectPropertyAssertion"} /\ Len(kids) = 3 ->
             Build(tag, <<object_property_expression(ctx, kids[1]), Ind(kids[2]), Ind(kids[3])>>)
        [] tag \in {"DataPropertyAssertion", "NegativeDataPropertyAssertion"} /\ Len(kids) = 3 ->
             Build(tag, <<data_property_expression(ctx, kids[1]), Ind(kids[2]),
                          <<parse_literal(kids[3])>>>>)
        [] tag \in {"SameIndividual", "DifferentIndividuals"} /\ Len(kids) >= 2 ->
             Build(tag, <<Each(Ind, kids)>>)
        [] OTHER -> <<>>

\* Every axiom but a declaration: its leading annotations, then its form.
AxiomElement(ctx, node) ==
  LET n == split_axiom_annotations(element_children(node))
      kids == SubSeq(node[3], n + 1, Len(node[3]))
      tag == node[1]
      form == CASE tag \in ClassAxiom -> parse_class_axiom(ctx, tag, kids)
                [] tag \in ObjectPropertyAxiom -> parse_object_property_axiom(ctx, tag, kids)
                [] tag \in DataPropertyAxiom -> parse_data_property_axiom(ctx, tag, kids)
                [] tag = "HasKey" -> parse_has_key(ctx, kids)
                [] tag = "DatatypeDefinition" -> parse_datatype_definition(ctx, kids)
                [] tag \in Assertion -> parse_assertion(ctx, tag, kids)
                [] tag \in AnnotationAxiom -> parse_annotation_axiom(ctx, tag, kids)
                [] OTHER -> <<>>
  IN  Then(AllRead(<<form, Each(LAMBDA c : parse_annotation(ctx, c), SubSeq(node[3], 1, n))>>),
           LAMBDA read : <<Axiom(read[1], read[2])>>)

looks_like_owl_xml(root) == root[1] = "Ontology"

\* The labels in the order they are met.
RECURSIVE Labels(_)
Labels(node) ==
  (IF node[2] # <<>> /\ node[2][1] = "nodeID" THEN <<node[2][2]>> ELSE <<>>)
    \o FlattenSeq([i \in DOMAIN node[3] |-> Labels(node[3][i])])

\* A version without an ontology IRI is ignored; an element that is none of
\* these is an error.
parse(root) ==
  LET ctx == [prefixes |-> collect_prefixes(root), labels |-> Labels(root) \o <<>>]
      Tagged(tags) == SelectSeq(element_children(root), LAMBDA c : c[1] \in tags)
      imports == Tagged({"Import"})
      body == SelectSeq(element_children(root), LAMBDA c : c[1] \notin {"Prefix", "Import", "Annotation"})
      Read(c) == IF c[1] = "Declaration" THEN parse_declaration(ctx, c) ELSE AxiomElement(ctx, c)
  IN  IF ~looks_like_owl_xml(root) THEN <<>>
      ELSE Then(AllRead(<<Each(LAMBDA c : parse_annotation(ctx, c), Tagged({"Annotation"})), Each(Read, body)>>),
                LAMBDA r : <<Ontology(root[2], [i \in DOMAIN imports |-> imports[i][2][3]], r[1], r[2], <<>>)>>)
=============================================================================
