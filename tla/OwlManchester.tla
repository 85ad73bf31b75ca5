--------------------------- MODULE OwlManchester ---------------------------
(***************************************************************************)
(* The OWL 2 Manchester syntax serialiser (manchester_parser/serialize.rs) *)
(* and, below, the parser.                                                 *)
(* A document has a header and then blocks: a frame of an entity with its  *)
(* section lines, a line for an axiom that belongs to no entity ("misc"),  *)
(* or a rule.  What follows a section's keyword is a sequence of tokens:   *)
(*   <<"iri", i>>, <<"lit", type, value>>, <<"_:", label>>, <<"num", n>>,  *)
(*   <<"var", name>>, and <<"word", w>> for keywords and punctuation.      *)
(* The serialiser writes every IRI in full, so prefixes are left out.      *)
(***************************************************************************)
EXTENDS OwlOntology, SequencesExt

Word(w) == <<"word", w>>

\* What is written: the tokens, or that something in them has no written form.
Text(tokens) == [ok |-> TRUE, tokens |-> tokens]
NoText == [ok |-> FALSE, tokens |-> <<>>]
Together(parts) ==
  IF \A i \in DOMAIN parts : parts[i].ok
  THEN Text(FlattenSeq([i \in DOMAIN parts |-> parts[i].tokens])) ELSE NoText
Joined(parts, separator) ==
  Together([i \in DOMAIN parts |->
              IF i = 1 THEN parts[i] ELSE Together(<<Text(<<Word(separator)>>), parts[i]>>)])
Between(open, part, close) == Together(<<Text(<<Word(open)>>), part, Text(<<Word(close)>>)>>)

Parenthesised(bare, text) == IF bare THEN text ELSE Between("(", text, ")")

fmt_iri(iri) == Text(<<<<"iri", iri>>>>)
individual_key(x) == IF x[1] = "NamedIndividual" THEN <<"iri", x[2]>> ELSE <<"_:", x[2]>>
fmt_individual(x) == Text(<<individual_key(x)>>)

\* Only numbers and strings have a form of their own; the other native
\* literals are written with their datatype.  A float is written by its digits
\* and an f, which no reader takes for a number when it has no digits.
TypedNatives == [boolean |-> "xsd:boolean", double |-> "xsd:double", dateTime |-> "xsd:dateTime",
                 date |-> "xsd:date", time |-> "xsd:time", duration |-> "xsd:duration"]
fmt_rdf_literal(x) ==
  CASE x[2] \in DOMAIN TypedNatives -> Literal(TypedNatives[x[2]], x[3])
    [] x[2] = "float" /\ x[3] = "NaN" -> Word("NaNf")
    [] OTHER -> x
fmt_literal(x) == IF x[1] = "lit" THEN Text(<<fmt_rdf_literal(x)>>) ELSE NoText

\* An annotation is preceded by its own annotations.
RECURSIVE ann_prefix(_)
fmt_annotation(a) ==
  LET value == CASE a[2][1] = "iri" -> Text(<<a[2]>>)
                 [] a[2][1] \in {"NamedIndividual", "AnonymousIndividual"} -> fmt_individual(a[2])
                 [] OTHER -> fmt_literal(a[2])
  IN Together(<<ann_prefix(a[3]), fmt_iri(a[1]), value>>)
fmt_annotation_list(anns) == Joined([i \in DOMAIN anns |-> fmt_annotation(anns[i])], ",")
ann_prefix(anns) ==
  IF anns = <<>> THEN Text(<<>>)
  ELSE Together(<<Text(<<Word("Annotations:")>>), fmt_annotation_list(anns)>>)

\* A double inverse has no form.
fmt_obj_prop(x) ==
  CASE x[1] = "NamedObjectProperty" -> fmt_iri(x[2])
    [] x[1] = "InverseObjectProperty" /\ x[2][1] = "NamedObjectProperty" ->
         Together(<<Text(<<Word("inverse")>>), fmt_iri(x[2][2])>>)
    [] OTHER -> NoText

-----------------------------------------------------------------------------
(* Data ranges.                                                            *)

FacetWord == << <<"xsd:maxInclusive", "<=">>, <<"xsd:minInclusive", ">=">>, <<"xsd:maxExclusive", "<">>,
                <<"xsd:minExclusive", ">">>, <<"xsd:minLength", "minLength">>,
                <<"xsd:maxLength", "maxLength">>, <<"xsd:length", "length">>,
                <<"xsd:pattern", "pattern">>, <<"rdf:langRange", "langRange">> >>
fmt_facet(iri) ==
  LET known == {i \in DOMAIN FacetWord : FacetWord[i][1] = iri}
  IN IF known = {} THEN NoText ELSE Text(<<Word(FacetWord[CHOOSE i \in known : TRUE][2])>>)

RECURSIVE fmt_data_range(_)
fmt_data_primary(x) ==
  Parenthesised(x[1] \notin {"DataIntersectionOf", "DataUnionOf"}, fmt_data_range(x))
fmt_data_atomic(x) ==
  Parenthesised(x[1] \in {"NamedDataRange", "DatatypeRestriction", "DataOneOf"}, fmt_data_range(x))
join_data_range(list, word) ==
  IF Len(list) < 2 THEN NoText ELSE Joined([i \in DOMAIN list |-> fmt_data_primary(list[i])], word)
fmt_data_range(x) ==
  CASE x[1] = "NamedDataRange" -> fmt_iri(x[2])
    [] x[1] = "DataIntersectionOf" -> join_data_range(x[2], "and")
    [] x[1] = "DataUnionOf" -> join_data_range(x[2], "or")
    [] x[1] = "DataComplementOf" -> Together(<<Text(<<Word("not")>>), fmt_data_atomic(x[2])>>)
    [] x[1] = "DataOneOf" ->
         Between("{", Joined([i \in DOMAIN x[2] |-> fmt_literal(x[2][i])], ","), "}")
    [] x[1] = "DatatypeRestriction" ->
         LET facets == [i \in DOMAIN x[3] |->
                          Together(<<fmt_facet(x[3][i][1]), fmt_literal(x[3][i][2])>>)]
         IN Together(<<fmt_iri(x[2]), Between("[", Joined(facets, ","), "]")>>)

-----------------------------------------------------------------------------
(* Class expressions.                                                      *)

\* The word between the property of a restriction and its filler.
RestrictionWord ==
  [ObjectSomeValuesFrom |-> "some", ObjectAllValuesFrom |-> "only", ObjectHasValue |-> "value",
   ObjectHasSelf |-> "Self", ObjectMinQualifiedCardinality |-> "min",
   ObjectMaxQualifiedCardinality |-> "max", ObjectExactQualifiedCardinality |-> "exactly",
   ObjectMinCardinality |-> "min", ObjectMaxCardinality |-> "max",
   ObjectExactCardinality |-> "exactly", DataSomeValuesFrom |-> "some",
   DataAllValuesFrom |-> "only", DataHasValue |-> "value", DataMinQualifiedCardinality |-> "min",
   DataMaxQualifiedCardinality |-> "max", DataExactQualifiedCardinality |-> "exactly",
   DataMinCardinality |-> "min", DataMaxCardinality |-> "max", DataExactCardinality |-> "exactly"]

\* A restriction on several data properties has no form.
fmt_data_restriction(properties, word, x) ==
  IF Len(properties) # 1 THEN NoText
  ELSE Together(<<fmt_iri(properties[1]), Text(<<Word(word)>>), fmt_data_primary(x)>>)

RECURSIVE fmt_class_expr(_)
\* Slip: no parentheses.
BareOperand(x) == fmt_class_expr(x)
fmt_atomic_class(x) == Parenthesised(x[1] \in {"ClassName", "ObjectOneOf"}, fmt_class_expr(x))
join_class(list, word) == Joined([i \in DOMAIN list |-> fmt_atomic_class(list[i])], word)
fmt_class_expr(x) ==
  LET roles == Roles(x[1])
      p == IF roles[1] = "n" THEN 2 ELSE 1
      property == IF roles[p] = "dprop" THEN fmt_iri(x[p + 1]) ELSE fmt_obj_prop(x[p + 1])
      number == IF p = 1 THEN <<>> ELSE <<<<"num", x[2]>>>>
      filler == CASE Len(roles) = p -> Text(<<>>)
                  [] roles[p + 1] = "class" -> fmt_atomic_class(x[p + 2])
                  [] roles[p + 1] = "range" -> fmt_data_primary(x[p + 2])
                  [] roles[p + 1] = "ind" -> fmt_individual(x[p + 2])
                  [] OTHER -> fmt_literal(x[p + 2])
  IN CASE x[1] = "ClassName" -> fmt_iri(x[2])
       [] x[1] = "ObjectComplementOf" -> Together(<<Text(<<Word("not")>>), fmt_atomic_class(x[2])>>)
       [] x[1] = "ObjectIntersectionOf" -> join_class(x[2], "and")
       [] x[1] = "ObjectUnionOf" -> join_class(x[2], "or")
       [] x[1] = "ObjectOneOf" ->
            Between("{", Joined([i \in DOMAIN x[2] |-> fmt_individual(x[2][i])], ","), "}")
       [] x[1] \in {"DataSomeValuesFrom", "DataAllValuesFrom"} ->
            fmt_data_restriction(x[2], RestrictionWord[x[1]], x[3])
       [] OTHER -> Together(<<property, Text(<<Word(RestrictionWord[x[1]])>> \o number), filler>>)

-----------------------------------------------------------------------------
(* Axioms.  An Emission is a line in a frame, a bare frame, annotations of *)
(* a frame's declaration, a misc line, or nothing.                         *)

WhenWritten(text, emission(_)) == IF text.ok THEN emission(text.tokens) ELSE <<"None">>
FrameLine(kind, subject, section, anns, text) ==
  WhenWritten(Together(<<ann_prefix(anns), text>>),
              LAMBDA t : <<"FrameLine", <<kind, subject>>, [section |-> section, tokens |-> t]>>)
Misc(section, anns, text) ==
  WhenWritten(Together(<<ann_prefix(anns), text>>),
              LAMBDA t : <<"Misc", [section |-> section, tokens |-> t]>>)

DeclarationFrame ==
  [ClassDeclaration |-> "Class", ObjectPropertyDeclaration |-> "ObjectProperty",
   DataPropertyDeclaration |-> "DataProperty", DatatypeDeclaration |-> "Datatype",
   AnnotationPropertyDeclaration |-> "AnnotationProperty",
   NamedIndividualDeclaration |-> "Individual"]
decl_emission(key, anns) ==
  IF anns = <<>> THEN <<"FrameOnly", key>> ELSE <<"FrameAnnotations", key, anns>>
classify_declaration(x, anns) ==
  decl_emission(<<DeclarationFrame[x[1]],
                  IF x[1] = "NamedIndividualDeclaration" THEN individual_key(x[2]) ELSE <<"iri", x[2]>>>>,
                anns)

classify_datatype_definition(x, anns) ==
  FrameLine("Datatype", <<"iri", x[2]>>, "EquivalentTo", anns, fmt_data_range(x[3]))

\* The two members of a pair are each tried as the frame's subject.
OfMembers(list, frames, misc) ==
  LET tried == IF Len(list) = 2 THEN SelectSeq(frames, LAMBDA e : e[1] # "None") ELSE <<>>
  IN CASE Len(list) < 2 -> <<"None">> [] tried # <<>> -> tried[1] [] OTHER -> misc
\* Slip: the second member is tried first.
SecondMemberFirst(list, anns, section, misc) ==
  LET Frame(i) == IF list[3 - i][1] # "ClassName" THEN <<"None">>
                  ELSE FrameLine("Class", <<"iri", list[3 - i][2]>>, section, anns, fmt_class_expr(list[i]))
  IN OfMembers(list, <<Frame(1), Frame(2)>>,
       Misc(misc, anns, Joined([i \in DOMAIN list |-> fmt_class_expr(list[i])], ",")))
class_nary(list, anns, section, misc) ==
  LET Frame(i) == IF list[i][1] # "ClassName" THEN <<"None">>
                  ELSE FrameLine("Class", <<"iri", list[i][2]>>, section, anns, fmt_class_expr(list[3 - i]))
  IN OfMembers(list, <<Frame(1), Frame(2)>>,
       Misc(misc, anns, Joined([i \in DOMAIN list |-> fmt_class_expr(list[i])], ",")))
classify_class_axiom(x, anns) ==
  CASE x[1] = "SubClassOf" ->
         IF x[2][1] # "ClassName" THEN <<"None">>
         ELSE FrameLine("Class", <<"iri", x[2][2]>>, "SubClassOf", anns, fmt_class_expr(x[3]))
    [] x[1] = "EquivalentClasses" -> class_nary(x[2], anns, "EquivalentTo", "EquivalentClasses")
    [] x[1] = "DisjointClasses" -> class_nary(x[2], anns, "DisjointWith", "DisjointClasses")
    [] x[1] = "DisjointUnion" ->
         FrameLine("Class", <<"iri", x[2]>>, "DisjointUnionOf", anns,
                   Joined([i \in DOMAIN x[3] |-> fmt_class_expr(x[3][i])], ","))

\* Nothing keeps an empty key from being written.
classify_has_key(x, anns) ==
  IF x[2][1] # "ClassName" THEN <<"None">>
  ELSE FrameLine("Class", <<"iri", x[2][2]>>, "HasKey", anns,
                 Together([i \in DOMAIN x[3] |-> fmt_obj_prop(x[3][i])]
                          \o [i \in DOMAIN x[4] |-> fmt_iri(x[4][i])]))

\* Only a named property can head a frame.
obj_prop_frame_line(p, section, anns, text) ==
  IF p[1] # "NamedObjectProperty" THEN <<"None">>
  ELSE FrameLine("ObjectProperty", <<"iri", p[2]>>, section, anns, text)
CharacteristicWord ==
  [FunctionalObjectProperty |-> "Functional", InverseFunctionalObjectProperty |-> "InverseFunctional",
   ReflexiveObjectProperty |-> "Reflexive", IrreflexiveObjectProperty |-> "Irreflexive",
   SymmetricObjectProperty |-> "Symmetric", AsymmetricObjectProperty |-> "Asymmetric",
   TransitiveObjectProperty |-> "Transitive"]
obj_prop_characteristic(x, anns) ==
  obj_prop_frame_line(x[2], "Characteristics", anns, Text(<<Word(CharacteristicWord[x[1]])>>))
\* The misc form takes named properties only.
obj_prop_nary(list, anns, section, misc) ==
  LET Frame(i) == obj_prop_frame_line(list[i], section, anns, fmt_obj_prop(list[3 - i]))
  IN OfMembers(list, <<Frame(1), Frame(2)>>,
       IF \E i \in DOMAIN list : list[i][1] # "NamedObjectProperty" THEN <<"None">>
       ELSE Misc(misc, anns, Joined([i \in DOMAIN list |-> fmt_iri(list[i][2])], ",")))
classify_object_property_axiom(x, anns) ==
  CASE x[1] = "ObjectPropertyDomain" -> obj_prop_frame_line(x[2], "Domain", anns, fmt_class_expr(x[3]))
    [] x[1] = "ObjectPropertyRange" -> obj_prop_frame_line(x[2], "Range", anns, fmt_class_expr(x[3]))
    [] x[1] = "SubObjectPropertyOf" -> obj_prop_frame_line(x[2], "SubPropertyOf", anns, fmt_obj_prop(x[3]))
    [] x[1] = "SubObjectPropertyChainOf" ->
         IF Len(x[2]) < 2 THEN <<"None">>
         ELSE obj_prop_frame_line(x[3], "SubPropertyChain", anns,
                                  Joined([i \in DOMAIN x[2] |-> fmt_obj_prop(x[2][i])], "o"))
    [] x[1] = "EquivalentObjectProperties" -> obj_prop_nary(x[2], anns, "EquivalentTo", "EquivalentProperties")
    [] x[1] = "DisjointObjectProperties" -> obj_prop_nary(x[2], anns, "DisjointWith", "DisjointProperties")
    [] x[1] = "InverseObjectProperties" -> obj_prop_frame_line(x[2], "InverseOf", anns, fmt_obj_prop(x[3]))
    [] OTHER -> obj_prop_characteristic(x, anns)

data_prop_frame_line(p, section, anns, text) == FrameLine("DataProperty", <<"iri", p>>, section, anns, text)
data_prop_nary(list, anns, section, misc) ==
  CASE Len(list) < 2 -> <<"None">>
    [] Len(list) = 2 -> data_prop_frame_line(list[1], section, anns, fmt_iri(list[2]))
    [] OTHER -> Misc(misc, anns, Joined([i \in DOMAIN list |-> fmt_iri(list[i])], ","))
classify_data_property_axiom(x, anns) ==
  CASE x[1] = "SubDataPropertyOf" -> data_prop_frame_line(x[2], "SubPropertyOf", anns, fmt_iri(x[3]))
    [] x[1] = "EquivalentDataProperties" -> data_prop_nary(x[2], anns, "EquivalentTo", "EquivalentProperties")
    [] x[1] = "DisjointDataProperties" -> data_prop_nary(x[2], anns, "DisjointWith", "DisjointProperties")
    [] x[1] = "DataPropertyDomain" -> data_prop_frame_line(x[2], "Domain", anns, fmt_class_expr(x[3]))
    [] x[1] = "DataPropertyRange" -> data_prop_frame_line(x[2], "Range", anns, fmt_data_range(x[3]))
    [] x[1] = "FunctionalDataProperty" ->
         data_prop_frame_line(x[2], "Characteristics", anns, Text(<<Word("Functional")>>))

fact_line(x, anns, sign) ==
  IF x[2][1] # "NamedObjectProperty" THEN <<"None">>
  ELSE FrameLine("Individual", individual_key(x[3]), "Facts", anns,
                 Together(<<Text(sign), fmt_iri(x[2][2]), fmt_individual(x[4])>>))
data_fact_line(x, anns, sign) ==
  FrameLine("Individual", individual_key(x[3]), "Facts", anns,
            Together(<<Text(sign), fmt_iri(x[2]), fmt_literal(x[4])>>))
individual_nary(list, anns, section, misc) ==
  CASE Len(list) < 2 -> <<"None">>
    [] Len(list) = 2 -> FrameLine("Individual", individual_key(list[1]), section, anns, fmt_individual(list[2]))
    [] OTHER -> Misc(misc, anns, Joined([i \in DOMAIN list |-> fmt_individual(list[i])], ","))
classify_assertion(x, anns) ==
  CASE x[1] = "SameIndividual" -> individual_nary(x[2], anns, "SameAs", "SameIndividual")
    [] x[1] = "DifferentIndividuals" -> individual_nary(x[2], anns, "DifferentFrom", "DifferentIndividuals")
    [] x[1] = "ClassAssertion" ->
         FrameLine("Individual", individual_key(x[3]), "Types", anns, fmt_class_expr(x[2]))
    [] x[1] = "ObjectPropertyAssertion" -> fact_line(x, anns, <<>>)
    [] x[1] = "NegativeObjectPropertyAssertion" -> fact_line(x, anns, <<Word("not")>>)
    [] x[1] = "DataPropertyAssertion" -> data_fact_line(x, anns, <<>>)
    [] x[1] = "NegativeDataPropertyAssertion" -> data_fact_line(x, anns, <<Word("not")>>)

ann_prop_frame_line(x, section, anns) ==
  FrameLine("AnnotationProperty", <<"iri", x[2]>>, section, anns, fmt_iri(x[3]))
\* An annotation of any other subject has no form.
classify_annotation_axiom(x, anns) ==
  CASE x[1] = "AnnotationAssertion" -> <<"None">>
    [] x[1] = "SubAnnotationPropertyOf" -> ann_prop_frame_line(x, "SubPropertyOf", anns)
    [] x[1] = "AnnotationPropertyDomain" -> ann_prop_frame_line(x, "Domain", anns)
    [] x[1] = "AnnotationPropertyRange" -> ann_prop_frame_line(x, "Range", anns)

classify(a) ==
  LET x == a.form
  IN CASE x[1] \in DOMAIN Entity -> classify_declaration(x, a.anns)
       [] x[1] \in ClassAxiom -> classify_class_axiom(x, a.anns)
       [] x[1] \in ObjectPropertyAxiom -> classify_object_property_axiom(x, a.anns)
       [] x[1] \in DataPropertyAxiom -> classify_data_property_axiom(x, a.anns)
       [] x[1] = "DatatypeDefinition" -> classify_datatype_definition(x, a.anns)
       [] x[1] = "HasKey" -> classify_has_key(x, a.anns)
       [] x[1] \in Assertion -> classify_assertion(x, a.anns)
       [] x[1] \in AnnotationAxiom -> classify_annotation_axiom(x, a.anns)

-----------------------------------------------------------------------------
(* Rules and documents.                                                    *)

fmt_atom_arg(x) ==
  CASE x[1] = "Variable" -> Text(<<<<"var", x[2]>>>>)
    [] x[1] = "lit" -> fmt_literal(x)
    [] OTHER -> fmt_individual(x)
\* DataRangeAtom, SameIndividualAtom and DifferentIndividualsAtom have no form.
fmt_atom(x) ==
  LET Arguments(args) == Between("(", Joined([i \in DOMAIN args |-> fmt_atom_arg(args[i])], ","), ")")
  IN CASE x[1] = "ClassAtom" -> Together(<<fmt_class_expr(x[2]), Arguments(<<x[3]>>)>>)
       [] x[1] = "PropertyAtom" -> Together(<<fmt_iri(x[2]), Arguments(<<x[3], x[4]>>)>>)
       [] x[1] = "BuiltInAtom" -> Together(<<fmt_iri(x[2]), Arguments(x[3])>>)
       [] OTHER -> NoText
fmt_rule(r) ==
  LET Atoms(atoms) == Joined([i \in DOMAIN atoms |-> fmt_atom(atoms[i])], ",")
  IN Misc("Rule", r.anns, Joined(<<Atoms(r.body), Atoms(r.head)>>, "->"))

\* The Annotations: line of a header or a frame, if its annotations have a form.
AnnotationLines(anns) ==
  LET Line(list) == IF anns # <<>> /\ list.ok THEN <<list.tokens>> ELSE <<>>
  IN Line(fmt_annotation_list(anns))
emit_header(o) == [version |-> o.version, imports |-> o.imports, anns |-> AnnotationLines(o.anns)]

\* The frame of `key`, declared and filled by the emissions for it.
emit_frame(key, emissions) ==
  LET mine == SelectSeq(emissions, LAMBDA e : e[1] \in {"FrameLine", "FrameAnnotations"} /\ e[2] = key)
      lines == SelectSeq(mine, LAMBDA e : e[1] = "FrameLine")
      annotated == SelectSeq(mine, LAMBDA e : e[1] = "FrameAnnotations")
      anns == AnnotationLines(FlattenSeq([i \in DOMAIN annotated |-> annotated[i][3]]))
  IN [kind |-> key[1], subject |-> key[2],
      lines |-> [i \in DOMAIN anns |-> [section |-> "Annotations", tokens |-> anns[i]]]
                \o [i \in DOMAIN lines |-> lines[i][3]]]

\* ensure_frame: the frames in the order their entities are first met.
FrameOrder(emissions) ==
  LET framed == SelectSeq(emissions, LAMBDA e : e[1] \in {"FrameLine", "FrameOnly", "FrameAnnotations"})
      first == {i \in DOMAIN framed : \A j \in 1..(i - 1) : framed[j][2] # framed[i][2]}
  IN [i \in 1..Cardinality(first) |->
        framed[CHOOSE j \in first : Cardinality({k \in first : k < j}) = i - 1][2]]

\* The frames, then the misc lines, then the rules.
serialize(o) ==
  LET Frames(order, emissions) == [i \in DOMAIN order |-> emit_frame(order[i], emissions)]
      Singles(miscs) == [i \in DOMAIN miscs |-> [kind |-> "misc", subject |-> <<"iri", "">>, lines |-> <<miscs[i][2]>>]]
      Blocks(emissions, rules) ==
        Frames(FrameOrder(emissions) \o <<>>, emissions)
          \o Singles(SelectSeq(emissions \o rules, LAMBDA e : e[1] = "Misc"))
  IN [header |-> emit_header(o),
      blocks |-> Blocks([i \in DOMAIN o.axioms |-> classify(o.axioms[i])] \o <<>>,
                        [i \in DOMAIN o.rules |-> fmt_rule(o.rules[i])] \o <<>>)]

-----------------------------------------------------------------------------
(* The parser (manchester_parser/src), over the documents written above.  A *)
(* grammar function is the sequence of its alternatives in the order they   *)
(* are tried, each <<what it builds, its parts>>; a part is a terminal, a   *)
(* list, another function or a keyword.                                     *)

\* ParserContext: the known data properties and the labels of blank nodes in
\* the order they are met, which number the anonymous individuals.
anon_individual_for_label(labels, label) ==
  LET first == CHOOSE i \in DOMAIN labels :
                 labels[i] = label /\ \A j \in 1..(i - 1) : labels[j] # label
  IN <<0, Cardinality({labels[j] : j \in 1..(first - 1)})>>
is_known_data_property(ctx, iri) == iri \in ctx.known

\* The variable names that are identifiers; the others are whole IRIs.
Identifiers == {"x", "y", "z"}

-----------------------------------------------------------------------------
(* Terminals: <<the value read from a token>>, or <<>>.                    *)

full_iri(token) == IF token[1] = "iri" THEN <<token[2]>> ELSE <<>>
node_id(ctx, token) ==
  IF token[1] = "_:" THEN <<AnonymousIndividual(anon_individual_for_label(ctx.labels, token[2]))>>
  ELSE <<>>
individual(ctx, token) ==
  IF token[1] = "_:" THEN node_id(ctx, token)
  ELSE IF token[1] = "iri" THEN <<NamedIndividual(token[2])>> ELSE <<>>
literal(token) == IF token[1] = "lit" THEN <<token>> ELSE <<>>
unsigned_integer(token) == IF token[1] = "num" THEN <<token[2]>> ELSE <<>>
variable_arg(token) ==
  IF token[1] = "var" /\ token[2] \in Identifiers THEN <<<<"Variable", token[2]>>>> ELSE <<>>
facet(token) ==
  LET known == {i \in DOMAIN FacetWord : Word(FacetWord[i][2]) = token}
  IN IF known = {} THEN <<>> ELSE <<FacetWord[CHOOSE i \in known : TRUE][1]>>
object_property_characteristic(token) ==
  LET known == {c \in Characteristics : Word(CharacteristicWord[c]) = token}
  IN IF known = {} THEN <<>> ELSE <<CHOOSE c \in known : TRUE>>
keyword(word, token) == IF token = Word(word) THEN <<word>> ELSE <<>>

\* A bare IRI is a value, an object property, or a property known to be data
\* or not.
Terminal(ctx, part, token) ==
  LET name == full_iri(token)
      If(condition, value) == IF name # <<>> /\ condition THEN <<value>> ELSE <<>>
  IN CASE part = "iri" -> name
       [] part = "iri_value" -> If(TRUE, token)
       [] part = "named_oprop" -> If(TRUE, NamedObjectProperty(name[1]))
       [] part = "data_iri" -> If(is_known_data_property(ctx, name[1]), name[1])
       [] part = "other_oprop" -> If(~is_known_data_property(ctx, name[1]), NamedObjectProperty(name[1]))
       [] part = "node_id" -> node_id(ctx, token)
       [] part = "individual" -> individual(ctx, token)
       [] part = "literal" -> literal(token)
       [] part = "unsigned_integer" -> unsigned_integer(token)
       [] part = "variable_arg" -> variable_arg(token)
       [] part = "facet" -> facet(token)
       [] part = "characteristic" -> object_property_characteristic(token)
       [] OTHER -> keyword(part, token)

-----------------------------------------------------------------------------
(* The grammar.                                                            *)

\* Lists: what is repeated, and the word between two of them ("": none).
annotated_list ==
  [annotated_class |-> <<"item_class", ",">>, annotated_oprop |-> <<"item_oprop", ",">>,
   annotated_iri |-> <<"item_iri", ",">>, annotated_range |-> <<"item_range", ",">>,
   annotated_ind |-> <<"item_ind", ",">>, annotated_fact |-> <<"item_fact", ",">>,
   annotated_characteristic |-> <<"item_characteristic", ",">>]
Lists ==
  [disjuncts |-> <<"conjunction", "or">>, conjuncts |-> <<"primary", "and">>,
   data_disjuncts |-> <<"data_conjunction", "or">>, data_conjuncts |-> <<"data_primary", "and">>,
   chain |-> <<"object_property_expression", "o">>, key |-> <<"has_key_item", "">>,
   facets |-> <<"facet_restriction", ",">>, descriptions |-> <<"description", ",">>,
   individuals |-> <<"individual", ",">>, literals |-> <<"literal", ",">>, iris |-> <<"iri", ",">>,
   atom_args |-> <<"atom_arg", ",">>, atom_list |-> <<"atom", ",">>,
   annotations |-> <<"annotation", ",">>]

object_property_expression ==
  << <<"same", <<"inverse_oprop">>>>, <<"same", <<"named_oprop">>>> >>
inverse_oprop == << <<"InverseObjectProperty", <<"inverse", "named_oprop">>>> >>

description == << <<"ObjectUnionOf", <<"disjuncts">>>> >>
conjunction == << <<"ObjectIntersectionOf", <<"conjuncts">>>> >>
primary == << <<"ObjectComplementOf", <<"not", "restriction_or_atomic">>>>,
              <<"same", <<"restriction_or_atomic">>>> >>
\* The tails of a restriction on a property of the given sort: a filler is
\* taken wherever one can be read.
object_restriction_tail(p) ==
  << <<"ObjectSomeValuesFrom", <<p, "some", "primary">>>>, <<"ObjectAllValuesFrom", <<p, "only", "primary">>>>,
     <<"ObjectHasValue", <<p, "value", "individual">>>>, <<"ObjectHasSelf", <<p, "Self">>>>,
     <<"ObjectMinQualifiedCardinality", <<p, "min", "unsigned_integer", "primary">>>>,
     <<"ObjectMinCardinality", <<p, "min", "unsigned_integer">>>>,
     <<"ObjectMaxQualifiedCardinality", <<p, "max", "unsigned_integer", "primary">>>>,
     <<"ObjectMaxCardinality", <<p, "max", "unsigned_integer">>>>,
     <<"ObjectExactQualifiedCardinality", <<p, "exactly", "unsigned_integer", "primary">>>>,
     <<"ObjectExactCardinality", <<p, "exactly", "unsigned_integer">>>> >>
data_restriction_tail(d) ==
  << <<"DataSomeValuesFrom", <<d, "some", "data_primary">>>>,
     <<"DataAllValuesFrom", <<d, "only", "data_primary">>>>, <<"DataHasValue", <<d, "value", "literal">>>>,
     <<"DataMinQualifiedCardinality", <<d, "min", "unsigned_integer", "data_primary">>>>,
     <<"DataMinCardinality", <<d, "min", "unsigned_integer">>>>,
     <<"DataMaxQualifiedCardinality", <<d, "max", "unsigned_integer", "data_primary">>>>,
     <<"DataMaxCardinality", <<d, "max", "unsigned_integer">>>>,
     <<"DataExactQualifiedCardinality", <<d, "exactly", "unsigned_integer", "data_primary">>>>,
     <<"DataExactCardinality", <<d, "exactly", "unsigned_integer">>>> >>
\* literal_follows decides what `value` means, and whether the property is
\* known as a data property decides everything else.
restriction ==
  object_restriction_tail("inverse_oprop")
  \o << <<"DataHasValue", <<"iri", "value", "literal">>>>,
        <<"ObjectHasValue", <<"named_oprop", "value", "individual">>>> >>
  \o data_restriction_tail("data_iri") \o object_restriction_tail("other_oprop")
atomic == << <<"ObjectOneOf", <<"{", "individuals", "}">>>>, <<"second", <<"(", "description", ")">>>>,
             <<"ClassName", <<"iri">>>> >>

data_range == << <<"DataUnionOf", <<"data_disjuncts">>>> >>
data_conjunction == << <<"DataIntersectionOf", <<"data_conjuncts">>>> >>
data_primary == << <<"DataComplementOf", <<"not", "data_atomic">>>>, <<"same", <<"data_atomic">>>> >>
data_atomic == << <<"DataOneOf", <<"{", "literals", "}">>>>, <<"second", <<"(", "data_range", ")">>>>,
                  <<"same", <<"datatype_with_optional_facets">>>> >>
datatype_with_optional_facets ==
  << <<"DatatypeRestriction", <<"iri", "[", "facets", "]">>>>, <<"NamedDataRange", <<"iri">>>> >>
facet_restriction == << <<"tuple", <<"facet", "literal">>>> >>

annotation == << <<"annotation", <<"opt_annotations", "iri", "literal">>>>,
                 <<"annotation", <<"opt_annotations", "iri", "node_id">>>>,
                 <<"annotation", <<"opt_annotations", "iri", "iri_value">>>> >>
opt_leading_annotations == << <<"second", <<"Annotations:", "annotations">>>>, <<"none", <<>>>> >>

atom_arg == << <<"same", <<"variable_arg">>>>, <<"same", <<"literal">>>>, <<"same", <<"individual">>>> >>
class_atom == << <<"ClassAtom", <<"description", "(", "atom_arg", ")">>>> >>
generic_atom == << <<"generic", <<"iri", "(", "atom_args", ")">>>> >>
atom == << <<"same", <<"class_atom">>>>, <<"same", <<"generic_atom">>>> >>

has_key_item == << <<"object", <<"inverse_oprop">>>>, <<"data", <<"data_iri">>>>,
                   <<"object", <<"other_oprop">>>> >>
\* literal_follows decides here too.
fact == << <<"fact", <<"not", "iri", "literal">>>>, <<"fact", <<"not", "iri", "individual">>>>,
           <<"fact", <<"iri", "literal">>>>, <<"fact", <<"iri", "individual">>>> >>

Item(part) == << <<"tuple", <<"opt_annotations", part>>>> >>
Productions ==
  [object_property_expression |-> object_property_expression, inverse_oprop |-> inverse_oprop,
   description |-> description, conjunction |-> conjunction, primary |-> primary,
   restriction_or_atomic |-> restriction \o atomic, data_range |-> data_range,
   data_conjunction |-> data_conjunction, data_primary |-> data_primary, data_atomic |-> data_atomic,
   datatype_with_optional_facets |-> datatype_with_optional_facets,
   facet_restriction |-> facet_restriction, annotation |-> annotation,
   opt_annotations |-> opt_leading_annotations, atom_arg |-> atom_arg, class_atom |-> class_atom,
   generic_atom |-> generic_atom, atom |-> atom, has_key_item |-> has_key_item, fact |-> fact,
   item_class |-> Item("description"), item_oprop |-> Item("object_property_expression"),
   item_iri |-> Item("iri"), item_range |-> Item("data_range"), item_ind |-> Item("individual"),
   item_fact |-> Item("fact"), item_characteristic |-> Item("characteristic")]

\* What an alternative builds from the values of its parts.  A union or an
\* intersection of one is that one; a generic atom of two arguments is a
\* property atom.
Build(tag, vals) ==
  CASE tag = "none" -> <<>>
    [] tag = "same" -> vals[1]
    [] tag = "second" -> vals[2]
    [] tag = "tuple" -> vals
    [] tag \in {"ObjectUnionOf", "ObjectIntersectionOf", "DataUnionOf", "DataIntersectionOf"} ->
         IF Len(vals[1]) = 1 THEN vals[1][1] ELSE <<tag, vals[1]>>
    [] tag \in {"ObjectComplementOf", "DataComplementOf", "ObjectOneOf", "DataOneOf", "InverseObjectProperty"} ->
         <<tag, vals[2]>>
    [] tag \in {"ClassName", "NamedDataRange", "ObjectHasSelf", "object", "data"} -> <<tag, vals[1]>>
    [] tag \in {"DataSomeValuesFrom", "DataAllValuesFrom"} -> <<tag, <<vals[1]>>, vals[3]>>
    [] tag \in DOMAIN RestrictionWord /\ Roles(tag)[1] = "n" ->
         <<tag, vals[3], vals[1]>> \o SubSeq(vals, 4, Len(vals))
    [] tag = "generic" -> IF Len(vals[3]) = 2 THEN <<"PropertyAtom", vals[1], vals[3][1], vals[3][2]>>
                          ELSE <<"BuiltInAtom", vals[1], vals[3]>>
    [] tag = "annotation" -> <<vals[2], vals[3], vals[1]>>
    [] tag = "fact" -> <<Len(vals) = 3, vals[Len(vals) - 1], vals[Len(vals)]>>
    [] OTHER -> <<tag, vals[1], vals[3]>>

Parsed(vals, rest) == [ok |-> TRUE, vals |-> vals, rest |-> rest]
Failed == [ok |-> FALSE, vals |-> <<>>, rest |-> <<>>]

\* The parsers: `parts` read one after the other from the tokens, as far as
\* they go.  The first alternative that succeeds is taken and never revised.
RECURSIVE read(_, _, _), first_of(_, _, _)
first_of(ctx, alternatives, tokens) ==
  LET Or(r) == IF r.ok THEN Parsed(<<Build(alternatives[1][1], r.vals)>>, r.rest)
               ELSE first_of(ctx, Tail(alternatives), tokens)
  IN IF alternatives = <<>> THEN Failed ELSE Or(read(ctx, alternatives[1][2], tokens))
read(ctx, parts, tokens) ==
  LET AndThen(first, after) == IF ~first.ok \/ ~after.ok THEN Failed
                               ELSE Parsed(first.vals \o after.vals, after.rest)
      AndMore(first, more) == IF more.ok THEN Parsed(<<first.vals \o more.vals[1]>>, more.rest)
                              ELSE Parsed(<<first.vals>>, first.rest)
      ListFrom(first, separator) ==
        IF ~first.ok THEN Failed
        ELSE AndMore(first,
               IF separator = "" THEN read(ctx, <<parts[1]>>, first.rest)
               ELSE IF first.rest = <<>> \/ first.rest[1] # Word(separator) THEN Failed
               ELSE read(ctx, <<parts[1]>>, Tail(first.rest)))
      List(list) == ListFrom(read(ctx, <<list[1]>>, tokens), list[2])
      Token(values) == IF values = <<>> THEN Failed ELSE Parsed(values, Tail(tokens))
      First(part) ==
        CASE part \in DOMAIN Lists -> List(Lists[part])
          [] part \in DOMAIN annotated_list -> List(annotated_list[part])
          [] part \in DOMAIN Productions -> first_of(ctx, Productions[part], tokens)
          [] OTHER -> Token(IF tokens = <<>> THEN <<>> ELSE Terminal(ctx, part, tokens[1]))
      Rest(first) == AndThen(first, read(ctx, Tail(parts), first.rest))
  IN IF parts = <<>> THEN Parsed(<<>>, tokens) ELSE Rest(First(parts[1]))

\* The values of `parts` when they are all of the tokens: <<values>> or <<>>.
AllOf(ctx, parts, tokens) ==
  LET All(r) == IF r.ok /\ r.rest = <<>> THEN <<r.vals>> ELSE <<>> IN All(read(ctx, parts, tokens))

-----------------------------------------------------------------------------
(* Frames: what each section reads, an annotated list or annotations and   *)
(* one value, and the axiom that a value states of the frame's subject.    *)

class_section ==
  [SubClassOf |-> "annotated_class", EquivalentTo |-> "annotated_class",
   DisjointWith |-> "annotated_class", DisjointUnionOf |-> "descriptions", HasKey |-> "key"]
class_frame(iri, section, value) ==
  LET self == ClassName(iri)
      OfSort(sort) == LET chosen == SelectSeq(value, LAMBDA v : v[1] = sort)
                      IN [i \in DOMAIN chosen |-> chosen[i][2]]
  IN CASE section = "SubClassOf" -> <<"SubClassOf", self, value>>
       [] section = "EquivalentTo" -> <<"EquivalentClasses", <<self, value>>>>
       [] section = "DisjointWith" -> <<"DisjointClasses", <<self, value>>>>
       [] section = "DisjointUnionOf" -> <<"DisjointUnion", iri, value>>
       [] section = "HasKey" -> <<"HasKey", self, OfSort("object"), OfSort("data")>>

object_property_section ==
  [Domain |-> "annotated_class", Range |-> "annotated_class",
   Characteristics |-> "annotated_characteristic", SubPropertyOf |-> "annotated_oprop",
   SubPropertyChain |-> "chain", EquivalentTo |-> "annotated_oprop",
   DisjointWith |-> "annotated_oprop", InverseOf |-> "annotated_oprop"]
object_property_frame(iri, section, value) ==
  LET self == NamedObjectProperty(iri)
  IN CASE section = "Domain" -> <<"ObjectPropertyDomain", self, value>>
       [] section = "Range" -> <<"ObjectPropertyRange", self, value>>
       [] section = "Characteristics" -> <<value, self>>
       [] section = "SubPropertyOf" -> <<"SubObjectPropertyOf", self, value>>
       [] section = "SubPropertyChain" -> <<"SubObjectPropertyChainOf", value, self>>
       [] section = "EquivalentTo" -> <<"EquivalentObjectProperties", <<self, value>>>>
       [] section = "DisjointWith" -> <<"DisjointObjectProperties", <<self, value>>>>
       [] section = "InverseOf" -> <<"InverseObjectProperties", self, value>>
\* A chain has at least two members.
property_expression_chain(chain) == Len(chain) >= 2

\* The annotations before Functional are read and dropped.
data_property_section ==
  [Domain |-> "annotated_class", Range |-> "annotated_range", Characteristics |-> "Functional",
   SubPropertyOf |-> "annotated_iri", EquivalentTo |-> "annotated_iri", DisjointWith |-> "annotated_iri"]
data_property_frame(iri, section, value) ==
  CASE section = "Domain" -> <<"DataPropertyDomain", iri, value>>
    [] section = "Range" -> <<"DataPropertyRange", iri, value>>
    [] section = "Characteristics" -> <<"FunctionalDataProperty", iri>>
    [] section = "SubPropertyOf" -> <<"SubDataPropertyOf", iri, value>>
    [] section = "EquivalentTo" -> <<"EquivalentDataProperties", <<iri, value>>>>
    [] section = "DisjointWith" -> <<"DisjointDataProperties", <<iri, value>>>>

individual_section ==
  [Types |-> "annotated_class", Facts |-> "annotated_fact", SameAs |-> "annotated_ind",
   DifferentFrom |-> "annotated_ind"]
individual_frame(self, section, value) ==
  CASE section = "Types" -> <<"ClassAssertion", value, self>>
    [] section = "Facts" ->
         LET Sign(positive, negative) == IF value[1] THEN negative ELSE positive
         IN IF value[3][1] = "lit"
            THEN <<Sign("DataPropertyAssertion", "NegativeDataPropertyAssertion"), value[2], self, value[3]>>
            ELSE <<Sign("ObjectPropertyAssertion", "NegativeObjectPropertyAssertion"),
                   NamedObjectProperty(value[2]), self, value[3]>>
    [] section = "SameAs" -> <<"SameIndividual", <<self, value>>>>
    [] section = "DifferentFrom" -> <<"DifferentIndividuals", <<self, value>>>>

annotation_property_section ==
  [Domain |-> "annotated_iri", Range |-> "annotated_iri", SubPropertyOf |-> "annotated_iri"]
annotation_property_frame(iri, section, value) ==
  CASE section = "Domain" -> <<"AnnotationPropertyDomain", iri, value>>
    [] section = "Range" -> <<"AnnotationPropertyRange", iri, value>>
    [] section = "SubPropertyOf" -> <<"SubAnnotationPropertyOf", iri, value>>

datatype_section == [EquivalentTo |-> "data_range"]
datatype_frame(iri, value) == <<"DatatypeDefinition", iri, value>>

Sections ==
  [Class |-> class_section, ObjectProperty |-> object_property_section,
   DataProperty |-> data_property_section, Individual |-> individual_section,
   AnnotationProperty |-> annotation_property_section, Datatype |-> datatype_section]
Stated(kind, subject, section, value) ==
  CASE kind = "Class" -> class_frame(subject, section, value)
    [] kind = "ObjectProperty" -> object_property_frame(subject, section, value)
    [] kind = "DataProperty" -> data_property_frame(subject, section, value)
    [] kind = "Individual" -> individual_frame(subject, section, value)
    [] kind = "AnnotationProperty" -> annotation_property_frame(subject, section, value)
    [] kind = "Datatype" -> datatype_frame(subject, value)

\* The axioms of a section line of a frame: <<axioms>>, or <<>>.
SectionAxioms(ctx, kind, subject, line) ==
  LET Listed(part) == part \in DOMAIN annotated_list
      Axioms(part, values) ==
        CASE Listed(part) ->
               <<[i \in DOMAIN values[1] |->
                    Axiom(Stated(kind, subject, line.section, values[1][i][2]), values[1][i][1])]>>
          [] part = "chain" /\ ~property_expression_chain(values[2]) -> <<>>
          [] OTHER -> <<<<Axiom(Stated(kind, subject, line.section, values[2]),
                                IF part = "Functional" THEN <<>> ELSE values[1])>>>>
      Of(part) == Then(AllOf(ctx, IF Listed(part) THEN <<part>> ELSE <<"opt_annotations", part>>, line.tokens),
                       LAMBDA values : Axioms(part, values))
  IN IF line.section \notin DOMAIN Sections[kind] THEN <<>> ELSE Of(Sections[kind][line.section])

\* equivalent_or_disjoint_properties: the first property tells the sort.
equivalent_or_disjoint_properties(ctx, all, object, data) ==
  IF is_known_data_property(ctx, all[1]) THEN <<data, all>>
  ELSE <<object, [i \in DOMAIN all |-> NamedObjectProperty(all[i])]>>
misc(ctx, line) ==
  LET part == CASE line.section \in {"EquivalentClasses", "DisjointClasses"} -> "descriptions"
                [] line.section \in {"SameIndividual", "DifferentIndividuals"} -> "individuals"
                [] OTHER -> "iris"
      Form(list) == CASE line.section = "EquivalentProperties" ->
                           equivalent_or_disjoint_properties(ctx, list, "EquivalentObjectProperties",
                                                             "EquivalentDataProperties")
                      [] line.section = "DisjointProperties" ->
                           equivalent_or_disjoint_properties(ctx, list, "DisjointObjectProperties",
                                                             "DisjointDataProperties")
                      [] OTHER -> <<line.section, list>>
  IN Then(AllOf(ctx, <<"opt_annotations", part>>, line.tokens),
          LAMBDA values : <<<<Axiom(Form(values[2]), values[1])>>>>)

\* The parts of a document that are each read or not, put together.
AllRead(options) ==
  IF \E i \in DOMAIN options : options[i] = <<>> THEN <<>>
  ELSE <<FlattenSeq([i \in DOMAIN options |-> options[i][1]])>>
Noted(ctx, tokens) == Then(AllOf(ctx, <<"annotations">>, tokens), LAMBDA values : <<values[1]>>)

\* A frame: the declaration with the annotations of all its Annotations:
\* sections, then the axioms of the other sections; <<axioms>> or <<>>.
any_frame(ctx, block) ==
  LET subject == IF block.kind = "Individual" THEN individual(ctx, block.subject)
                 ELSE full_iri(block.subject)
      constructor == CHOOSE c \in DOMAIN DeclarationFrame : DeclarationFrame[c] = block.kind
      Annotated(notes) == AllRead([i \in DOMAIN notes |-> Noted(ctx, notes[i].tokens)] \o <<>>)
      OfLines(others, self) ==
        AllRead([i \in DOMAIN others |-> SectionAxioms(ctx, block.kind, self, others[i])] \o <<>>)
      Frame(self, anns) ==
        Then(OfLines(SelectSeq(block.lines, LAMBDA l : l.section # "Annotations"), self),
             LAMBDA axioms : <<<<Axiom(<<constructor, self>>, anns)>> \o axioms>>)
      Declared(self) == Then(Annotated(SelectSeq(block.lines, LAMBDA l : l.section = "Annotations")),
                             LAMBDA anns : Frame(self, anns))
  IN IF block.kind = "misc" THEN misc(ctx, block.lines[1]) ELSE Then(subject, Declared)

rule_frame(ctx, line) ==
  Then(AllOf(ctx, <<"opt_annotations", "atom_list", "->", "atom_list">>, line.tokens),
       LAMBDA values : <<<<Rule(values[2], values[4], values[1])>>>>)

\* The labels of blank nodes in the order of the document.
Labels(doc) ==
  LET tokens == FlattenSeq(doc.header.anns) \o
                FlattenSeq([i \in DOMAIN doc.blocks |->
                  <<doc.blocks[i].subject>> \o
                  FlattenSeq([j \in DOMAIN doc.blocks[i].lines |-> doc.blocks[i].lines[j].tokens])])
      blank == SelectSeq(tokens, LAMBDA t : t[1] = "_:")
  IN [i \in DOMAIN blank |-> blank[i][2]] \o <<>>

prescan_data_properties(doc) ==
  {doc.blocks[i].subject[2] : i \in {j \in DOMAIN doc.blocks : doc.blocks[j].kind = "DataProperty"}}

\* The ontology, or <<>>: an item that cannot be read leaves the document unread.
parse(doc) ==
  LET ctx == [known |-> prescan_data_properties(doc), labels |-> Labels(doc)]
      top_level_rule(b) == b.kind = "misc" /\ b.lines[1].section = "Rule"
      Ruled(rules) == AllRead([i \in DOMAIN rules |-> rule_frame(ctx, rules[i].lines[1])] \o <<>>)
      Stating(frames) == AllRead([i \in DOMAIN frames |-> any_frame(ctx, frames[i])] \o <<>>)
      Read(notes, axioms, rules) ==
        IF <<>> \in {notes, axioms, rules} THEN <<>>
        ELSE <<Ontology(doc.header.version, doc.header.imports, notes[1], axioms[1], rules[1])>>
  IN Read(AllRead([i \in DOMAIN doc.header.anns |-> Noted(ctx, doc.header.anns[i])] \o <<>>),
          Stating(SelectSeq(doc.blocks, LAMBDA b : ~top_level_rule(b))),
          Ruled(SelectSeq(doc.blocks, top_level_rule)))
=============================================================================
