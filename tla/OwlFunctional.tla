--------------------------- MODULE OwlFunctional ---------------------------
(***************************************************************************)
(* OWL 2 functional-style syntax, written and read (owl_functional_parser).*)
(* A document is the sequence of the items between the parentheses of      *)
(* Ontology(...), each a token or a form:                                  *)
(*   <<"iri", i>>, <<"lit", type, value>>, <<"_:", label>>, <<"num", n>>   *)
(*   <<keyword, items>>     keyword(items), with "" for bare parentheses   *)
(* White space, comments, prefixes and escapes are left out.               *)
(***************************************************************************)
EXTENDS OwlOntology, SequencesExt

\* What is written: the items, or that something in them has no written form.
Written(items) == [ok |-> TRUE, items |-> items]
Unwritten == [ok |-> FALSE, items |-> <<>>]
AllWritten(parts) ==
  IF \A i \in DOMAIN parts : parts[i].ok
  THEN Written(FlattenSeq([i \in DOMAIN parts |-> parts[i].items])) ELSE Unwritten
Form(keyword, parts) ==
  LET all == AllWritten(parts) IN IF all.ok THEN Written(<<<<keyword, all.items>>>>) ELSE Unwritten

fmt_iri(iri) == Written(<<<<"iri", iri>>>>)
fmt_individual(x) ==
  IF x[1] = "NamedIndividual" THEN fmt_iri(x[2]) ELSE Written(<<<<"_:", x[2]>>>>)

\* A literal held as a Rust number or boolean is written with its datatype.
NativeTypes == [integer |-> "xsd:integer", decimal |-> "xsd:decimal", float |-> "xsd:float",
                boolean |-> "xsd:boolean", double |-> "xsd:double", dateTime |-> "xsd:dateTime",
                date |-> "xsd:date", time |-> "xsd:time", duration |-> "xsd:duration"]
fmt_rdf_literal(x) ==
  IF x[2] \in DOMAIN NativeTypes THEN Literal(NativeTypes[x[2]], x[3]) ELSE x
fmt_literal(x) == IF x[1] = "lit" THEN Written(<<fmt_rdf_literal(x)>>) ELSE Unwritten
fmt_graph_element_as_subject_or_value(x) ==
  CASE x[1] = "iri" -> Written(<<x>>)
    [] x[1] = "b" -> Written(<<<<"_:", x[2]>>>>)
    [] x[1] = "lit" -> fmt_literal(x)

\* An annotation without a written value is dropped.
RECURSIVE fmt_axiom_annotations(_)
fmt_annotation(a) ==
  LET v == a[2]
      value == CASE v[1] = "iri" -> Written(<<v>>)
                 [] v[1] \in {"NamedIndividual", "AnonymousIndividual"} -> fmt_individual(v)
                 [] OTHER -> fmt_literal(v)
  IN Form("Annotation", <<Written(fmt_axiom_annotations(a[3])), fmt_iri(a[1]), value>>)
fmt_axiom_annotations(anns) == FlattenSeq([i \in DOMAIN anns |-> fmt_annotation(anns[i]).items])

-----------------------------------------------------------------------------
(* Expressions: an argument is written by its role.                        *)

\* The keywords of qualified cardinalities are those of the unqualified ones.
Unqualified ==
  [ObjectMinQualifiedCardinality |-> "ObjectMinCardinality",
   ObjectMaxQualifiedCardinality |-> "ObjectMaxCardinality",
   ObjectExactQualifiedCardinality |-> "ObjectExactCardinality",
   DataMinQualifiedCardinality |-> "DataMinCardinality",
   DataMaxQualifiedCardinality |-> "DataMaxCardinality",
   DataExactQualifiedCardinality |-> "DataExactCardinality"]

RECURSIVE Argument(_, _)
Compound(keyword, x) ==
  Form(keyword, [i \in DOMAIN Roles(x[1]) |-> Argument(Roles(x[1])[i], x[i + 1])])
fmt_obj_prop(x) ==
  IF x[1] = "NamedObjectProperty" THEN fmt_iri(x[2])
  ELSE Form("ObjectInverseOf", <<Argument("oprop", x[2])>>)
fmt_data_range(x) == IF x[1] = "NamedDataRange" THEN fmt_iri(x[2]) ELSE Compound(x[1], x)
fmt_class_expr(x) ==
  CASE x[1] = "ClassName" -> fmt_iri(x[2])
    [] x[1] \in DOMAIN Unqualified -> Compound(Unqualified[x[1]], x)
    [] OTHER -> Compound(x[1], x)
\* join_class, join_data_range, fmt_data_restriction: the members of a list
\* one after the other.
Argument(role, x) ==
  CASE role \in DOMAIN ListOf -> AllWritten([i \in DOMAIN x |-> Argument(ListOf[role], x[i])])
    [] role \in {"dprop", "iri"} -> fmt_iri(x)
    [] role = "n" -> Written(<<<<"num", x>>>>)
    [] role = "ind" -> fmt_individual(x)
    [] role = "lit" -> fmt_literal(x)
    [] role = "facet" -> AllWritten(<<fmt_iri(x[1]), fmt_literal(x[2])>>)
    [] role = "oprop" -> fmt_obj_prop(x)
    [] role = "range" -> fmt_data_range(x)
    [] role = "class" -> fmt_class_expr(x)

-----------------------------------------------------------------------------
(* Axioms: one item each, or none for what has no written form.            *)

Line(keyword, anns, parts) == Form(keyword, <<Written(fmt_axiom_annotations(anns))>> \o parts).items

fmt_declaration(x, anns) ==
  LET kind == [ClassDeclaration |-> "Class", ObjectPropertyDeclaration |-> "ObjectProperty",
               DataPropertyDeclaration |-> "DataProperty", DatatypeDeclaration |-> "Datatype",
               AnnotationPropertyDeclaration |-> "AnnotationProperty",
               NamedIndividualDeclaration |-> "NamedIndividual"]
      iri == IF x[1] = "NamedIndividualDeclaration" THEN x[2][2] ELSE x[2]
  IN IF x[1] = "NamedIndividualDeclaration" /\ x[2][1] = "AnonymousIndividual" THEN <<>>
     ELSE Line("Declaration", anns, <<Form(kind[x[1]], <<fmt_iri(iri)>>)>>)

fmt_class_nary(keyword, anns, list) == Line(keyword, anns, <<Argument("classes", list)>>)
fmt_class_axiom(x, anns) ==
  CASE x[1] = "SubClassOf" -> Line("SubClassOf", anns, <<fmt_class_expr(x[2]), fmt_class_expr(x[3])>>)
    [] x[1] \in {"EquivalentClasses", "DisjointClasses"} -> fmt_class_nary(x[1], anns, x[2])
    [] x[1] = "DisjointUnion" -> Line("DisjointUnion", anns, <<fmt_iri(x[2]), Argument("classes", x[3])>>)

unary_obj_prop_axiom(keyword, anns, p) == Line(keyword, anns, <<fmt_obj_prop(p)>>)
fmt_obj_prop_nary(keyword, anns, list) == Line(keyword, anns, <<Argument("oprops", list)>>)
fmt_sub_object_property_expression(chain, sub) ==
  IF chain THEN Form("ObjectPropertyChain", <<Argument("oprops", sub)>>) ELSE fmt_obj_prop(sub)
fmt_object_property_axiom(x, anns) ==
  CASE x[1] \in {"ObjectPropertyDomain", "ObjectPropertyRange"} ->
         Line(x[1], anns, <<fmt_obj_prop(x[2]), fmt_class_expr(x[3])>>)
    [] x[1] \in {"SubObjectPropertyOf", "SubObjectPropertyChainOf"} ->
         Line("SubObjectPropertyOf", anns,
              <<fmt_sub_object_property_expression(x[1] = "SubObjectPropertyChainOf", x[2]),
                fmt_obj_prop(x[3])>>)
    [] x[1] \in {"EquivalentObjectProperties", "DisjointObjectProperties"} ->
         fmt_obj_prop_nary(x[1], anns, x[2])
    [] x[1] = "InverseObjectProperties" -> Line(x[1], anns, <<fmt_obj_prop(x[2]), fmt_obj_prop(x[3])>>)
    [] OTHER -> unary_obj_prop_axiom(x[1], anns, x[2])

fmt_data_prop_nary(keyword, anns, list) == Line(keyword, anns, <<Argument("dprops", list)>>)
fmt_data_property_axiom(x, anns) ==
  CASE x[1] = "SubDataPropertyOf" -> Line(x[1], anns, <<fmt_iri(x[2]), fmt_iri(x[3])>>)
    [] x[1] \in {"EquivalentDataProperties", "DisjointDataProperties"} -> fmt_data_prop_nary(x[1], anns, x[2])
    [] x[1] = "DataPropertyDomain" -> Line(x[1], anns, <<fmt_iri(x[2]), fmt_class_expr(x[3])>>)
    [] x[1] = "DataPropertyRange" -> Line(x[1], anns, <<fmt_iri(x[2]), fmt_data_range(x[3])>>)
    [] x[1] = "FunctionalDataProperty" -> Line(x[1], anns, <<fmt_iri(x[2])>>)

fmt_has_key(x, anns) ==
  Line("HasKey", anns, <<fmt_class_expr(x[2]), Form("", <<Argument("oprops", x[3])>>),
                         Form("", <<Argument("dprops", x[4])>>)>>)

fmt_object_fact(x, anns) ==
  Line(x[1], anns, <<fmt_obj_prop(x[2]), fmt_individual(x[3]), fmt_individual(x[4])>>)
fmt_data_fact(x, anns) == Line(x[1], anns, <<fmt_iri(x[2]), fmt_individual(x[3]), fmt_literal(x[4])>>)
fmt_individual_nary(keyword, anns, list) == Line(keyword, anns, <<Argument("inds", list)>>)
fmt_assertion(x, anns) ==
  CASE x[1] \in {"SameIndividual", "DifferentIndividuals"} -> fmt_individual_nary(x[1], anns, x[2])
    [] x[1] = "ClassAssertion" -> Line(x[1], anns, <<fmt_class_expr(x[2]), fmt_individual(x[3])>>)
    [] x[1] \in {"ObjectPropertyAssertion", "NegativeObjectPropertyAssertion"} -> fmt_object_fact(x, anns)
    [] x[1] \in {"DataPropertyAssertion", "NegativeDataPropertyAssertion"} -> fmt_data_fact(x, anns)

fmt_annotation_axiom(x, anns) ==
  IF x[1] = "AnnotationAssertion"
  THEN Line(x[1], anns, <<fmt_iri(x[2]), fmt_graph_element_as_subject_or_value(x[3]),
                          fmt_graph_element_as_subject_or_value(x[4])>>)
  ELSE Line(x[1], anns, <<fmt_iri(x[2]), fmt_iri(x[3])>>)

fmt_axiom(a) ==
  LET x == a.form
  IN CASE x[1] \in DOMAIN Entity -> fmt_declaration(x, a.anns)
       [] x[1] \in ClassAxiom -> fmt_class_axiom(x, a.anns)
       [] x[1] \in ObjectPropertyAxiom -> fmt_object_property_axiom(x, a.anns)
       [] x[1] \in DataPropertyAxiom -> fmt_data_property_axiom(x, a.anns)
       [] x[1] = "DatatypeDefinition" -> Line(x[1], a.anns, <<fmt_iri(x[2]), fmt_data_range(x[3])>>)
       [] x[1] = "HasKey" -> fmt_has_key(x, a.anns)
       [] x[1] \in Assertion -> fmt_assertion(x, a.anns)
       [] x[1] \in AnnotationAxiom -> fmt_annotation_axiom(x, a.anns)

fmt_atom_arg(x) ==
  CASE x[1] = "Variable" -> Form("Variable", <<fmt_iri(x[2])>>)
    [] x[1] = "lit" -> fmt_literal(x)
    [] OTHER -> fmt_individual(x)
\* The keyword of a property atom is told by its second argument.
fmt_atom(x) ==
  LET PropertyKeyword == IF x[4][1] = "lit" THEN "DataPropertyAtom" ELSE "ObjectPropertyAtom"
  IN CASE x[1] = "ClassAtom" -> Form(x[1], <<fmt_class_expr(x[2]), fmt_atom_arg(x[3])>>)
       [] x[1] = "DataRangeAtom" -> Form(x[1], <<fmt_data_range(x[2]), fmt_atom_arg(x[3])>>)
       [] x[1] = "PropertyAtom" ->
            Form(PropertyKeyword, <<fmt_iri(x[2]), fmt_atom_arg(x[3]), fmt_atom_arg(x[4])>>)
       [] x[1] = "BuiltInAtom" ->
            Form(x[1], <<fmt_iri(x[2])>> \o [i \in DOMAIN x[3] |-> fmt_atom_arg(x[3][i])])
       [] OTHER -> Form(x[1], <<fmt_atom_arg(x[2]), fmt_atom_arg(x[3])>>)
fmt_rule(r) ==
  Line("DLSafeRule", r.anns, <<Form("Body", [i \in DOMAIN r.body |-> fmt_atom(r.body[i])]),
                               Form("Head", [i \in DOMAIN r.head |-> fmt_atom(r.head[i])])>>)

serialize(o) ==
  [i \in DOMAIN o.version |-> <<"iri", o.version[i]>>]
  \o [i \in DOMAIN o.imports |-> <<"Import", <<<<"iri", o.imports[i]>>>>>>]
  \o fmt_axiom_annotations(o.anns)
  \o FlattenSeq([i \in DOMAIN o.axioms |-> fmt_axiom(o.axioms[i])])
  \o FlattenSeq([i \in DOMAIN o.rules |-> fmt_rule(o.rules[i])])

-----------------------------------------------------------------------------
(* The parser.  A grammar function with one keyword to each alternative is *)
(* a table from the keyword to what its parentheses hold: <<what is built, *)
(* the roles of its arguments>>.                                           *)

class_expression ==
  [ObjectIntersectionOf |-> <<"ObjectIntersectionOf", <<"classes">>>>,
   ObjectUnionOf |-> <<"ObjectUnionOf", <<"classes">>>>,
   ObjectComplementOf |-> <<"ObjectComplementOf", <<"class">>>>,
   ObjectOneOf |-> <<"ObjectOneOf", <<"inds">>>>]
\* A cardinality is unqualified unless a filler follows.
object_restriction ==
  [ObjectSomeValuesFrom |-> <<"ObjectSomeValuesFrom", <<"oprop", "class">>>>,
   ObjectAllValuesFrom |-> <<"ObjectAllValuesFrom", <<"oprop", "class">>>>,
   ObjectHasValue |-> <<"ObjectHasValue", <<"oprop", "ind">>>>,
   ObjectHasSelf |-> <<"ObjectHasSelf", <<"oprop">>>>,
   ObjectMinCardinality |-> <<"ObjectMinQualifiedCardinality", <<"n", "oprop", "class">>>>,
   ObjectMaxCardinality |-> <<"ObjectMaxQualifiedCardinality", <<"n", "oprop", "class">>>>,
   ObjectExactCardinality |-> <<"ObjectExactQualifiedCardinality", <<"n", "oprop", "class">>>>]
data_restriction ==
  [DataSomeValuesFrom |-> <<"DataSomeValuesFrom", <<"dprops_then", "range">>>>,
   DataAllValuesFrom |-> <<"DataAllValuesFrom", <<"dprops_then", "range">>>>,
   DataHasValue |-> <<"DataHasValue", <<"dprop", "lit">>>>,
   DataMinCardinality |-> <<"DataMinQualifiedCardinality", <<"n", "dprop", "range">>>>,
   DataMaxCardinality |-> <<"DataMaxQualifiedCardinality", <<"n", "dprop", "range">>>>,
   DataExactCardinality |-> <<"DataExactQualifiedCardinality", <<"n", "dprop", "range">>>>]
compound_data_range ==
  [DataIntersectionOf |-> <<"DataIntersectionOf", <<"ranges">>>>,
   DataUnionOf |-> <<"DataUnionOf", <<"ranges">>>>,
   DataComplementOf |-> <<"DataComplementOf", <<"range">>>>,
   DataOneOf |-> <<"DataOneOf", <<"lits">>>>,
   DatatypeRestriction |-> <<"DatatypeRestriction", <<"iri", "facets">>>>]
\* i_arg is no literal, d_arg no individual.
atom ==
  [ClassAtom |-> <<"ClassAtom", <<"class", "i_arg">>>>,
   DataRangeAtom |-> <<"DataRangeAtom", <<"range", "d_arg">>>>,
   ObjectPropertyAtom |-> <<"ObjectPropertyAtom", <<"oprop", "i_arg", "i_arg">>>>,
   DataPropertyAtom |-> <<"PropertyAtom", <<"dprop", "i_arg", "d_arg">>>>,
   BuiltInAtom |-> <<"BuiltInAtom", <<"iri", "d_args">>>>,
   SameIndividualAtom |-> <<"SameIndividualAtom", <<"i_arg", "i_arg">>>>,
   DifferentIndividualsAtom |-> <<"DifferentIndividualsAtom", <<"i_arg", "i_arg">>>>]

entity ==
  [Class |-> "ClassDeclaration", Datatype |-> "DatatypeDeclaration",
   ObjectProperty |-> "ObjectPropertyDeclaration", DataProperty |-> "DataPropertyDeclaration",
   AnnotationProperty |-> "AnnotationPropertyDeclaration",
   NamedIndividual |-> "NamedIndividualDeclaration"]
class_axiom ==
  [SubClassOf |-> <<"class", "class">>, EquivalentClasses |-> <<"classes">>,
   DisjointClasses |-> <<"classes">>, DisjointUnion |-> <<"iri", "classes">>]
unary_object_property_axiom == [keyword \in Characteristics |-> <<"oprop">>]
object_property_axiom ==
  [SubObjectPropertyOf |-> <<"oprop", "oprop">>, EquivalentObjectProperties |-> <<"oprops">>,
   DisjointObjectProperties |-> <<"oprops">>, ObjectPropertyDomain |-> <<"oprop", "class">>,
   ObjectPropertyRange |-> <<"oprop", "class">>, InverseObjectProperties |-> <<"oprop", "oprop">>]
data_property_axiom ==
  [SubDataPropertyOf |-> <<"dprop", "dprop">>, EquivalentDataProperties |-> <<"dprops">>,
   DisjointDataProperties |-> <<"dprops">>, DataPropertyDomain |-> <<"dprop", "class">>,
   DataPropertyRange |-> <<"dprop", "range">>, FunctionalDataProperty |-> <<"dprop">>]
datatype_definition == [DatatypeDefinition |-> <<"iri", "range">>]
has_key == [HasKey |-> <<"class", "key_oprops", "key_dprops">>]
assertion ==
  [SameIndividual |-> <<"inds">>, DifferentIndividuals |-> <<"inds">>,
   ClassAssertion |-> <<"class", "ind">>, NegativeObjectPropertyAssertion |-> <<"oprop", "ind", "ind">>,
   ObjectPropertyAssertion |-> <<"oprop", "ind", "ind">>,
   NegativeDataPropertyAssertion |-> <<"dprop", "ind", "lit">>,
   DataPropertyAssertion |-> <<"dprop", "ind", "lit">>]
annotation_axiom ==
  [AnnotationAssertion |-> <<"iri", "subject", "value">>, SubAnnotationPropertyOf |-> <<"iri", "iri">>,
   AnnotationPropertyDomain |-> <<"iri", "iri">>, AnnotationPropertyRange |-> <<"iri", "iri">>]
axiom == [keyword \in DOMAIN class_axiom |-> class_axiom[keyword]]
         @@ unary_object_property_axiom @@ object_property_axiom @@ data_property_axiom
         @@ datatype_definition @@ has_key @@ assertion @@ annotation_axiom

\* Labels of blank nodes are numbered from 0 as they are met.
anon_individual_for_label(labels, label) ==
  LET first == CHOOSE i \in DOMAIN labels :
                 labels[i] = label /\ \A j \in 1..(i - 1) : labels[j] # label
  IN <<0, Cardinality({labels[j] : j \in 1..(first - 1)})>>

\* A reading is <<value>>, or <<>> when the items are not of that form.
AllRead(parts) ==
  IF \A i \in DOMAIN parts : parts[i] # <<>> THEN <<[i \in DOMAIN parts |-> parts[i][1]]>> ELSE <<>>
TokenKinds == {"iri", "lit", "num", "_:"}

iri(item) == IF item[1] = "iri" THEN <<item[2]>> ELSE <<>>
node_id(labels, item) ==
  IF item[1] = "_:" THEN <<anon_individual_for_label(labels, item[2])>> ELSE <<>>
individual(labels, item) ==
  LET id == node_id(labels, item)
  IN IF id # <<>> THEN <<AnonymousIndividual(id[1])>>
     ELSE IF item[1] = "iri" THEN <<NamedIndividual(item[2])>> ELSE <<>>
literal(item) == IF item[1] = "lit" THEN <<item>> ELSE <<>>
non_negative_integer(item) == IF item[1] = "num" THEN <<item[2]>> ELSE <<>>
annotation_subject(labels, item) ==
  LET id == node_id(labels, item)
  IN IF id # <<>> THEN <<BlankNode(id[1])>> ELSE IF item[1] = "iri" THEN <<item>> ELSE <<>>
annotation_value_as_graph_element(labels, item) ==
  IF item[1] = "lit" THEN literal(item) ELSE annotation_subject(labels, item)
variable_arg(item) ==
  IF item[1] = "Variable" /\ Len(item[2]) = 1 /\ item[2][1][1] = "iri"
  THEN <<<<"Variable", item[2][1][2]>>>> ELSE <<>>
i_arg(labels, item) == IF item[1] = "Variable" THEN variable_arg(item) ELSE individual(labels, item)
d_arg(item) == IF item[1] = "Variable" THEN variable_arg(item) ELSE literal(item)

\* An odd number of inverses swaps the arguments of an atom.
RECURSIVE unwrap_inverse(_)
unwrap_inverse(p) ==
  IF p[1] = "NamedObjectProperty" THEN <<p[2], FALSE>>
  ELSE LET inner == unwrap_inverse(p[2]) IN <<inner[1], ~inner[2]>>
object_property_atom(p, a, b) ==
  LET base == unwrap_inverse(p)
  IN IF base[2] THEN <<"PropertyAtom", base[1], b, a>> ELSE <<"PropertyAtom", base[1], a, b>>

\* The lists: many1_no_sep, and many0_no_sep, which may be empty.
many1_no_sep == [classes |-> "class", ranges |-> "range", oprops |-> "oprop", dprops |-> "dprop",
                 inds |-> "ind", lits |-> "lit"]
many0_no_sep == [d_args |-> "d_arg", dprops_then |-> "dprop", in_oprops |-> "oprop",
                 in_dprops |-> "dprop", atoms |-> "atom"]

\* The items of each of the arguments: one for each role, what is left for
\* the last one; data_properties_then_range takes the last item as the range.
data_properties_then_range(items) == <<Front(items), <<Last(items)>>>>
Split(roles, items) ==
  IF roles[1] = "dprops_then" THEN data_properties_then_range(items)
  ELSE [i \in DOMAIN roles |->
          IF i > Len(items) THEN <<>>
          ELSE SubSeq(items, i, IF i = Len(roles) THEN Len(items) ELSE i)] \o <<>>

RECURSIVE read(_, _, _)
Each(labels, member, items) == AllRead([i \in DOMAIN items |-> read(labels, member, <<items[i]>>)] \o <<>>)
Arguments(labels, roles, items) ==
  LET parts == Split(roles, items)
  IN IF items = <<>> THEN <<>>
     ELSE AllRead([i \in DOMAIN roles |-> read(labels, roles[i], parts[i])] \o <<>>)
\* The form that a table gives an item's keyword.
paren_form(labels, table, item) ==
  LET entry == table[item[1]]
      unqualified == entry[1] \in DOMAIN Unqualified /\ Len(item[2]) = 2
      args == Arguments(labels, IF unqualified THEN SubSeq(entry[2], 1, 2) ELSE entry[2], item[2])
  IN IF item[1] \notin DOMAIN table \/ args = <<>> THEN <<>>
     ELSE IF unqualified THEN <<<<item[1]>> \o args[1]>>
     ELSE IF entry[1] = "ObjectPropertyAtom"
     THEN <<object_property_atom(args[1][1], args[1][2], args[1][3])>>
     ELSE <<<<entry[1]>> \o args[1]>>
object_property_expression(labels, item) ==
  CASE item[1] = "iri" -> <<NamedObjectProperty(item[2])>>
    [] item[1] = "ObjectInverseOf" ->
         Then(read(labels, "oprop", item[2]), LAMBDA inner : <<InverseObjectProperty(inner)>>)
    [] OTHER -> <<>>
datatype_restriction_body(labels, items) ==
  IF items = <<>> \/ Len(items) % 2 = 1 THEN <<>>
  ELSE AllRead([i \in 1..(Len(items) \div 2) |->
                  AllRead(<<iri(items[2 * i - 1]), literal(items[2 * i])>>)] \o <<>>)
read(labels, role, items) ==
  LET item == items[1]
  IN CASE role = "facets" -> datatype_restriction_body(labels, items)
       [] role \in DOMAIN many0_no_sep -> Each(labels, many0_no_sep[role], items)
       [] role \in DOMAIN many1_no_sep -> IF items = <<>> THEN <<>> ELSE Each(labels, many1_no_sep[role], items)
       [] OTHER ->
     IF Len(items) # 1 THEN <<>>
     ELSE
     CASE role \in {"dprop", "iri"} -> iri(item)
       [] role = "n" -> non_negative_integer(item)
       [] role = "lit" -> literal(item)
       [] role = "ind" -> individual(labels, item)
       [] role = "subject" -> annotation_subject(labels, item)
       [] role = "value" -> annotation_value_as_graph_element(labels, item)
       [] role = "i_arg" -> i_arg(labels, item)
       [] role = "d_arg" -> d_arg(item)
       [] role = "oprop" -> object_property_expression(labels, item)
       [] role \in {"key_oprops", "key_dprops"} ->
            IF item[1] # "" THEN <<>>
            ELSE read(labels, IF role = "key_oprops" THEN "in_oprops" ELSE "in_dprops", item[2])
       [] item[1] \in TokenKinds ->
            CASE role = "class" /\ item[1] = "iri" -> <<ClassName(item[2])>>
              [] role = "range" /\ item[1] = "iri" -> <<NamedDataRange(item[2])>>
              [] OTHER -> <<>>
       [] role = "class" -> paren_form(labels, class_expression @@ object_restriction @@ data_restriction, item)
       [] role = "range" -> paren_form(labels, compound_data_range, item)
       [] role = "atom" -> paren_form(labels, atom, item)

\* The annotations of an annotation come first.
RECURSIVE annotation(_, _)
annotation(labels, item) ==
  LET n == Len(item[2])
      value == annotation_value_as_graph_element(labels, item[2][n])
      property == iri(item[2][n - 1])
      metas == AllRead([i \in 1..(n - 2) |-> annotation(labels, item[2][i])] \o <<>>)
  IN IF item[1] # "Annotation" \/ n < 2 THEN <<>>
     ELSE IF value = <<>> \/ property = <<>> \/ metas = <<>> THEN <<>>
     ELSE <<<<property[1], IF value[1][1] = "b" THEN AnonymousIndividual(value[1][2]) ELSE value[1],
              metas[1]>>>>

\* The number of leading items with the given keyword.
Leading(items, keyword) ==
  Cardinality({i \in DOMAIN items : \A j \in 1..i : items[j][1] = keyword})
axiom_annotations(labels, items) ==
  AllRead([i \in 1..Leading(items, "Annotation") |-> annotation(labels, items[i])] \o <<>>)

declaration(args) ==
  IF Len(args) # 1 \/ args[1][1] \notin DOMAIN entity \/ Len(args[1][2]) # 1 THEN <<>>
  ELSE LET name == iri(args[1][2][1])
           kind == entity[args[1][1]]
       IN IF name = <<>> THEN <<>>
          ELSE <<<<kind, IF kind = "NamedIndividualDeclaration" THEN NamedIndividual(name[1]) ELSE name[1]>>>>
\* A chain on the left of SubObjectPropertyOf.
sub_object_property_expression(labels, args) ==
  Then(AllRead(<<read(labels, "oprops", args[1][2]), read(labels, "oprop", Tail(args))>>),
       LAMBDA r : <<<<"SubObjectPropertyChainOf">> \o r>>)
Body(labels, item, keyword) == IF item[1] = keyword THEN read(labels, "atoms", item[2]) ELSE <<>>
dl_safe_rule(labels, args, anns) ==
  IF Len(args) # 2 THEN <<>>
  ELSE Then(AllRead(<<Body(labels, args[1], "Body"), Body(labels, args[2], "Head")>>),
            LAMBDA r : <<<<"Rule", Rule(r[1], r[2], anns)>>>>)

\* An axiom or a rule, <<"Axiom" or "Rule", it>>.
Item(labels, it) ==
  LET Stated(args) ==
        CASE it[1] = "Declaration" -> declaration(args)
          [] it[1] = "SubObjectPropertyOf" /\ args # <<>> /\ args[1][1] = "ObjectPropertyChain" ->
               sub_object_property_expression(labels, args)
          [] it[1] \in DOMAIN axiom -> Then(Arguments(labels, axiom[it[1]], args), LAMBDA r : <<<<it[1]>> \o r>>)
          [] OTHER -> <<>>
      Made(args, anns) ==
        IF it[1] = "DLSafeRule" THEN dl_safe_rule(labels, args, anns)
        ELSE Then(Stated(args), LAMBDA form : <<<<"Axiom", Axiom(form, anns)>>>>)
  IN IF it[1] \in TokenKinds THEN <<>>
     ELSE Then(axiom_annotations(labels, it[2]),
               LAMBDA anns : Made(SubSeq(it[2], Leading(it[2], "Annotation") + 1, Len(it[2])), anns))

RECURSIVE Labels(_)
Labels(items) ==
  FlattenSeq([i \in DOMAIN items |->
                CASE items[i][1] = "_:" -> <<items[i][2]>>
                  [] items[i][1] \in {"iri", "lit", "num"} -> <<>>
                  [] OTHER -> Labels(items[i][2])])

\* The ontology, or <<>>: an item that cannot be read is an error.
parse(doc) ==
  LET labels == Labels(doc)
      v == IF Leading(doc, "iri") > 2 THEN 2 ELSE Leading(doc, "iri")
      afterVersion == SubSeq(doc, v + 1, Len(doc))
      i == Leading(afterVersion, "Import")
      afterImports == SubSeq(afterVersion, i + 1, Len(afterVersion))
      body == SubSeq(afterImports, Leading(afterImports, "Annotation") + 1, Len(afterImports))
      OfKind(items, kind) == LET chosen == SelectSeq(items, LAMBDA it : it[1] = kind)
                             IN [j \in DOMAIN chosen |-> chosen[j][2]]
  IN Then(AllRead(<<AllRead([j \in 1..i |-> read(labels, "iri", afterVersion[j][2])] \o <<>>),
                    axiom_annotations(labels, afterImports),
                    AllRead([j \in DOMAIN body |-> Item(labels, body[j])] \o <<>>)>>),
          LAMBDA r : <<Ontology([j \in 1..v |-> doc[j][2]], r[1], r[2],
                                OfKind(r[3], "Axiom"), OfKind(r[3], "Rule"))>>)
=============================================================================
