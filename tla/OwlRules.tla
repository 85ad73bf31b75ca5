------------------------------ MODULE OwlRules ------------------------------
(***************************************************************************)
(* The compilation of an ontology to Datalog: owl2rl2datalog (property     *)
(* axioms, equality, assertions) and eli (class axioms).  A pattern is a   *)
(* triple of the default graph, a rule its head and its body patterns; a   *)
(* contradiction rule has no head.  Optional results are <<>> or <<x>>.    *)
(*                                                                         *)
(* Property chains inside restrictions, which no reader builds, are left   *)
(* out, and so are the anonymous classes OwlOntology leaves out.           *)
(***************************************************************************)
EXTENDS OwlOntology, SequencesExt

\* A variable is a name and the numbers appended to it.
Var(name) == <<"var", <<name>>>>
Pattern(s, predicate, o) == <<s, predicate, o>>
Contradiction == <<>>
DatalogRule(head, body) == [head |-> head, body |-> body]

\* ---------------------------------------------------------- owl2rl2datalog

type_pattern(var, class) == Pattern(var, IriNode("rdf:type"), class)

\* Slip: the inverse of a property is read as the property.
RECURSIVE InverseIgnored(_, _, _)
InverseIgnored(prop, s, o) ==
  IF prop[1] = "InverseObjectProperty" THEN InverseIgnored(prop[2], s, o)
  ELSE Pattern(s, IriNode(prop[2]), o)

RECURSIVE get_obj_prop_pattern(_, _, _)
get_obj_prop_pattern(prop, s, o) ==
  IF prop[1] = "InverseObjectProperty" THEN get_obj_prop_pattern(prop[2], o, s)
  ELSE Pattern(s, IriNode(prop[2]), o)

\* The named classes a domain or range is the intersection of; any other
\* expression in it is dropped.
RECURSIVE get_class_expression_ids(_)
get_class_expression_ids(class) ==
  CASE class[1] = "ClassName" -> <<IriNode(class[2])>>
    [] class[1] = "ObjectIntersectionOf" ->
         FlattenSeq([i \in DOMAIN class[2] |-> get_class_expression_ids(class[2][i])])
    [] OTHER -> <<>>

\* One rule for every class: what `body` matches makes `var` one of them.
Typing(var, body, classes) ==
  [i \in DOMAIN classes |-> DatalogRule(type_pattern(var, classes[i]), <<body>>)]

object_property_domain(prop, domain) ==
  Typing(Var("x"), get_obj_prop_pattern(prop, Var("x"), Var("y")), get_class_expression_ids(domain))

object_property_range(prop, range) ==
  Typing(Var("y"), get_obj_prop_pattern(prop, Var("x"), Var("y")), get_class_expression_ids(range))

symmetric_object_property(prop) ==
  <<DatalogRule(get_obj_prop_pattern(prop, Var("y"), Var("x")),
                <<get_obj_prop_pattern(prop, Var("x"), Var("y"))>>)>>

transitive_object_property(prop) ==
  <<DatalogRule(get_obj_prop_pattern(prop, Var("x"), Var("z")),
                <<get_obj_prop_pattern(prop, Var("x"), Var("y")),
                  get_obj_prop_pattern(prop, Var("y"), Var("z"))>>)>>

sub_object_property_of(sub, super) ==
  <<DatalogRule(get_obj_prop_pattern(super, Var("x"), Var("y")),
                <<get_obj_prop_pattern(sub, Var("x"), Var("y"))>>)>>

property_expression_chain_rule(links, super) ==
  LET var(i) == <<"var", <<"x", i>>>>
  IN  IF links = <<>> THEN <<>>
      ELSE <<DatalogRule(get_obj_prop_pattern(super, var(0), var(Len(links))),
                         [i \in DOMAIN links |->
                            get_obj_prop_pattern(links[i], var(i - 1), var(i))])>>

object_property_axiom2datalog(f) ==
  CASE f[1] = "ObjectPropertyDomain" -> object_property_domain(f[2], f[3])
    [] f[1] = "ObjectPropertyRange" -> object_property_range(f[2], f[3])
    [] f[1] = "SubObjectPropertyOf" -> sub_object_property_of(f[2], f[3])
    [] f[1] = "SubObjectPropertyChainOf" -> property_expression_chain_rule(f[2], f[3])
    [] f[1] = "SymmetricObjectProperty" -> symmetric_object_property(f[2])
    [] f[1] = "TransitiveObjectProperty" -> transitive_object_property(f[2])
    [] OTHER -> <<>>

data_property_domain(prop, domain) ==
  Typing(Var("x"), Pattern(Var("x"), IriNode(prop), Var("y")), get_class_expression_ids(domain))

\* Values get a type, literals among them.
data_property_range(prop, range) ==
  IF range[1] # "NamedDataRange" THEN <<>>
  ELSE Typing(Var("y"), Pattern(Var("x"), IriNode(prop), Var("y")), <<IriNode(range[2])>>)

sub_data_property_of(sub, super) ==
  <<DatalogRule(Pattern(Var("x"), IriNode(super), Var("y")),
                <<Pattern(Var("x"), IriNode(sub), Var("y"))>>)>>

data_property_axiom2datalog(f) ==
  CASE f[1] = "DataPropertyDomain" -> data_property_domain(f[2], f[3])
    [] f[1] = "DataPropertyRange" -> data_property_range(f[2], f[3])
    [] f[1] = "SubDataPropertyOf" -> sub_data_property_of(f[2], f[3])
    [] OTHER -> <<>>

SameAs(s, o) == Pattern(s, IriNode("owl:sameAs"), o)

get_symmetry_axiom == DatalogRule(SameAs(Var("y"), Var("x")), <<SameAs(Var("x"), Var("y"))>>)

get_transitivity_axiom ==
  DatalogRule(SameAs(Var("x"), Var("z")), <<SameAs(Var("x"), Var("y")), SameAs(Var("y"), Var("z"))>>)

get_subject_equality_axiom ==
  DatalogRule(Pattern(Var("s2"), Var("p"), Var("o")),
              <<SameAs(Var("s1"), Var("s2")), Pattern(Var("s1"), Var("p"), Var("o"))>>)

get_object_equality_axiom ==
  DatalogRule(Pattern(Var("s"), Var("p"), Var("o2")),
              <<SameAs(Var("o1"), Var("o2")), Pattern(Var("s"), Var("p"), Var("o1"))>>)

get_equality_axioms ==
  <<get_symmetry_axiom, get_subject_equality_axiom, get_object_equality_axiom, get_transitivity_axiom>>

\* --------------------------------------------------------------------- eli

\* The length of a value's Debug form: constructor(argument, ...), with
\* [element, ...] for a list.  An IRI is FullIri(IriReference("...")).
RECURSIVE DebugLength(_, _)
DebugLength(role, x) ==
  LET Separated(lengths) == FoldSeq(+, 2 * (IF lengths = <<>> THEN 0 ELSE Len(lengths) - 1), lengths)
      Arguments(name, roles) ==
        Len(name) + 2 + Separated([i \in DOMAIN roles |-> DebugLength(roles[i], x[i + 1])])
  IN  CASE role \in {"iri", "dprop"} -> 25 + Len(x)
        [] role = "n" -> 1
        [] role \in DOMAIN ListOf ->
             2 + Separated([i \in DOMAIN x |-> DebugLength(ListOf[role], x[i])])
        [] role = "facet" -> 24 + Len(x[1]) + Len(x[2][2]) + Len(x[2][3])
        [] role = "lit" -> 16 + Len(x[2]) + Len(x[3])
        [] role = "ind" /\ x[1] = "AnonymousIndividual" -> Len(x[1]) + 3
        [] role = "oprop" /\ x[1] = "InverseObjectProperty" -> Arguments(x[1], <<"oprop">>)
        [] OTHER -> Arguments(x[1], IF x[1] \in {"ClassName", "NamedObjectProperty", "NamedIndividual",
                                                "NamedDataRange"}
                                    THEN <<"iri">> ELSE Roles(x[1]))

\* The class that stands for a concept: only the length of the concept goes
\* into its name.
concept_representative(concept) == <<"repr", DebugLength("class", concept)>>

\* Every element is there, or the whole is not.
AllOf(options) ==
  IF \E i \in DOMAIN options : options[i] = <<>> THEN <<>>
  ELSE <<[i \in DOMAIN options |-> options[i][1]]>>

IsMinOne(c) == c[1] = "ObjectMinQualifiedCardinality" /\ c[2] = 1

\* The role and filler of an existential, also one written as a cardinality.
IsSome(c) == c[1] = "ObjectSomeValuesFrom" \/ IsMinOne(c)
RoleOf(c) == IF IsMinOne(c) THEN c[3] ELSE c[2]
FillerOf(c) == IF IsMinOne(c) THEN c[4] ELSE c[3]

RECURSIVE eli_class_extractor(_)
eli_class_extractor(c) ==
  CASE c[1] = "ClassName" -> <<<<"AtomicConcept", c[2]>>>>
    [] c[1] = "ObjectIntersectionOf" ->
         Then(AllOf([i \in DOMAIN c[2] |-> eli_class_extractor(c[2][i])] \o <<>>),
              LAMBDA parts : <<<<"Intersection", parts>>>>)
    [] IsSome(c) ->
         Then(eli_class_extractor(FillerOf(c)), LAMBDA filler : <<<<"SomeValuesFrom", RoleOf(c), filler>>>>)
    [] OTHER -> <<>>

\* Unions, on their own or under an existential, are split.
RECURSIVE eli_sub_class_extractor(_)
eli_sub_class_extractor(c) ==
  CASE c[1] = "ObjectUnionOf" ->
         FlattenSeq([i \in DOMAIN c[2] |-> eli_sub_class_extractor(c[2][i])])
    [] IsSome(c) /\ FillerOf(c)[1] = "ObjectUnionOf" ->
         FlattenSeq([i \in DOMAIN FillerOf(c)[2] |->
           eli_sub_class_extractor(<<"ObjectSomeValuesFrom", RoleOf(c), FillerOf(c)[2][i]>>)])
    [] OTHER -> <<eli_class_extractor(c)>>

RECURSIVE eli_super_class_extractor(_)
eli_super_class_extractor(c) ==
  CASE c[1] = "ClassName" -> <<<<IriNode(c[2])>>>>
    [] c[1] = "ObjectIntersectionOf" ->
         Then(AllOf([i \in DOMAIN c[2] |-> eli_super_class_extractor(c[2][i])] \o <<>>),
              LAMBDA parts : <<FlattenSeq(parts)>>)
    [] OTHER -> <<>>

\* Formulas: a disjunction of concepts below a conjunction of classes, and a
\* conjunction of classes below a normalized concept.
DirectInclusion(subs, supers) == <<"Direct", subs, supers>>
Normalized(subs, super) == <<"Normalized", subs, super>>
Atomic(class) == <<"AtomicNamedConcept", class>>

\* The formulas for a concept, and the concepts in it still to be normalized
\* as positive and as negative occurrences.
Occurrence(pos, neg, formulas) == [pos |-> pos, neg |-> neg, formulas |-> formulas]

sub_concept_some_values_from(role, filler, concept) ==
  Occurrence(<<filler>>, <<>>,
    <<Normalized(<<concept_representative(filler)>>,
                 <<"AllValuesFrom", InverseObjectProperty(role), concept_representative(concept)>>)>>)

\* Up to the loops over its parts, which are below: nothing for a union, an
\* existential or a cardinality above one.
concept_positive_occurrence_normalization(c) ==
  LET repr == concept_representative(c)
      Below(super) == <<Normalized(<<repr>>, super)>>
  IN  CASE c[1] = "ObjectComplementOf" ->
             Occurrence(<<>>, <<c[2]>>,
                        <<Normalized(<<repr, concept_representative(c[2])>>, <<"Bottom">>)>>)
        [] c[1] = "ObjectIntersectionOf" ->
             Occurrence(c[2], <<>>,
                        [i \in DOMAIN c[2] |->
                           Normalized(<<repr>>, Atomic(concept_representative(c[2][i])))])
        [] c[1] = "ObjectHasValue" -> Occurrence(<<>>, <<>>, Below(c))
        [] c[1] = "ClassName" -> Occurrence(<<>>, <<>>, Below(Atomic(IriNode(c[2]))))
        [] c[1] = "ObjectAllValuesFrom" ->
             Occurrence(<<>>, <<c[3]>>, Below(<<c[1], c[2], concept_representative(c[3])>>))
        [] c[1] = "ObjectMaxCardinality" /\ c[2] = 0 ->
             Occurrence(<<>>, <<>>, Below(<<"AtMostZeroValueFrom", c[3]>>))
        [] c[1] = "ObjectMaxCardinality" /\ c[2] = 1 ->
             Occurrence(<<>>, <<>>, Below(<<"AtMostOneValueFrom", c[3]>>))
        [] OTHER -> Occurrence(<<>>, <<>>, <<>>)

\* Also up to the loops over its parts.
concept_negative_occurrence_normalization(c) ==
  LET repr == concept_representative(c)
  IN  CASE c[1] = "ObjectUnionOf" ->
             Occurrence(<<>>, c[2],
                        [i \in DOMAIN c[2] |->
                           Normalized(<<concept_representative(c[2][i])>>, Atomic(repr))])
        [] IsSome(c) -> sub_concept_some_values_from(RoleOf(c), FillerOf(c), c)
        [] c[1] = "ObjectComplementOf" ->
             Occurrence(<<c[2]>>, <<>>,
                        <<Normalized(<<repr, concept_representative(c[2])>>, <<"Bottom">>)>>)
        [] c[1] = "ClassName" ->
             Occurrence(<<>>, <<>>, <<Normalized(<<IriNode(c[2])>>, Atomic(repr))>>)
        [] c[1] = "ObjectIntersectionOf" ->
             Occurrence(<<>>, c[2],
                        <<Normalized([i \in DOMAIN c[2] |-> concept_representative(c[2][i])],
                                     Atomic(repr))>>)
        [] OTHER -> Occurrence(<<>>, <<>>, <<>>)

\* Both occurrence normalizations: the formulas of the concept, then those of
\* its positive and of its negative parts.
RECURSIVE occurrence_normalization(_, _)
occurrence_normalization(positive, c) ==
  LET WithParts(o) ==
        o.formulas \o FlattenSeq([i \in DOMAIN o.pos |-> occurrence_normalization(TRUE, o.pos[i])])
                   \o FlattenSeq([i \in DOMAIN o.neg |-> occurrence_normalization(FALSE, o.neg[i])])
  IN  WithParts(IF positive THEN concept_positive_occurrence_normalization(c)
                ELSE concept_negative_occurrence_normalization(c))

\* Only subclass axioms get here from eli_axiom_extractor.
sub_class_axiom_normalization(sub, super) ==
  <<Normalized(<<concept_representative(sub)>>, Atomic(concept_representative(super)))>>
    \o occurrence_normalization(TRUE, super) \o occurrence_normalization(FALSE, sub)

SubClassFormulas(sub, super) ==
  LET Or(direct, normal) == IF direct # <<>> THEN direct ELSE normal
  IN  Or(Then(AllOf(eli_sub_class_extractor(sub)),
              LAMBDA subs : Then(eli_super_class_extractor(super),
                                 LAMBDA supers : <<DirectInclusion(subs, supers)>>)),
         sub_class_axiom_normalization(sub, super))

\* Every pair of the elements of a sequence, in order.
Pairs(s) == FlattenSeq([i \in DOMAIN s |-> [j \in 1..(Len(s) - i) |-> <<s[i], s[i + j]>>]])

\* The inclusions an axiom consists of, <<sub, super>>; without one it is dropped.
eli_axiom_extractor(f) ==
  LET pairs == Pairs(f[2])
      BothWays(pair) == <<pair, <<pair[2], pair[1]>>>>
      Apart(pair) == <<<<"ObjectIntersectionOf", pair>>, ClassName("owl:Nothing")>>
      inclusions == CASE f[1] = "SubClassOf" -> <<<<f[2], f[3]>>>>
                      [] f[1] = "EquivalentClasses" -> FlattenSeq([i \in DOMAIN pairs |-> BothWays(pairs[i])])
                      [] f[1] = "DisjointClasses" -> [i \in DOMAIN pairs |-> Apart(pairs[i])]
                      [] OTHER -> <<>>
  IN  IF inclusions = <<>> THEN <<>>
      ELSE <<FlattenSeq([i \in DOMAIN inclusions |-> SubClassFormulas(inclusions[i][1], inclusions[i][2])])>>

get_type_pattern(var, class) == Pattern(var, IriNode("rdf:type"), class)

get_role_pattern(role, s, o) == Pattern(s, role, o)

RECURSIVE get_single_role_pattern(_, _, _)
get_single_role_pattern(prop, s, o) ==
  IF prop[1] = "InverseObjectProperty" THEN get_single_role_pattern(prop[2], o, s)
  ELSE get_role_pattern(IriNode(prop[2]), s, o)

\* Not the node that assertions about an anonymous individual use.
individual_to_id(ind) == IF ind[1] = "NamedIndividual" THEN IriNode(ind[2]) ELSE <<"b", <<"label", ind[2]>>>>

\* An inverse of an inverse is refused.
get_single_obj_value_pattern(prop, var, ind) ==
  CASE prop[1] = "NamedObjectProperty" -> <<Pattern(var, IriNode(prop[2]), individual_to_id(ind))>>
    [] prop[1] = "InverseObjectProperty" /\ prop[2][1] = "NamedObjectProperty" ->
         <<Pattern(individual_to_id(ind), IriNode(prop[2][2]), var)>>
    [] OTHER -> <<>>

Witness(var, clause) == <<"var", Append(var[2], clause)>>

\* Slip: every existential of a conjunction has the same witness.
RECURSIVE OneWitness(_, _, _)
OneWitness(concept, var, clause) ==
  CASE concept[1] = "AtomicConcept" -> <<get_type_pattern(var, IriNode(concept[2]))>>
    [] concept[1] = "Intersection" ->
         FlattenSeq([i \in DOMAIN concept[2] |-> OneWitness(concept[2][i], var, 1)])
    [] concept[1] = "SomeValuesFrom" ->
         <<get_single_role_pattern(concept[2], var, Witness(var, clause))>>
           \o OneWitness(concept[3], Witness(var, clause), 1)

\* The body that concept var is an instance of.  A witness is named by its
\* clause, which nested intersections count from one again.
RECURSIVE translate_eli(_, _, _)
translate_eli(concept, var, clause) ==
  CASE concept[1] = "AtomicConcept" -> <<get_type_pattern(var, IriNode(concept[2]))>>
    [] concept[1] = "Intersection" ->
         FlattenSeq([i \in DOMAIN concept[2] |-> translate_eli(concept[2][i], var, i)])
    [] concept[1] = "SomeValuesFrom" ->
         <<get_single_role_pattern(concept[2], var, Witness(var, clause))>>
           \o translate_eli(concept[3], Witness(var, clause), 1)

translate_simple_subclass(sub, super) ==
  DatalogRule(get_type_pattern(Var("X"), super), translate_eli(sub, Var("X"), 1))

\* X is an instance of every class of a conjunction.
Instance(classes) == [i \in DOMAIN classes |-> get_type_pattern(Var("X"), classes[i])] \o <<>>

translate_empty_intersection(subs) == DatalogRule(Contradiction, Instance(subs))

get_atomic_normalized_rule(subs, class) == DatalogRule(get_type_pattern(Var("X"), class), Instance(subs))

get_universal_normalized_rule(subs, prop, class) ==
  DatalogRule(get_type_pattern(Var("Y"), class),
              Append(Instance(subs), get_single_role_pattern(prop, Var("X"), Var("Y"))))

get_at_most_one_normalized_rule(subs, prop) ==
  DatalogRule(SameAs(Var("Y1"), Var("Y2")),
              Instance(subs) \o <<get_single_role_pattern(prop, Var("X"), Var("Y1")),
                                  get_single_role_pattern(prop, Var("X"), Var("Y2"))>>)

get_at_most_zero_normalized_rule(subs, prop) ==
  DatalogRule(Contradiction, Append(Instance(subs), get_single_role_pattern(prop, Var("X"), Var("Y"))))

get_object_has_value_normalized_rule(subs, prop, ind) ==
  Then(get_single_obj_value_pattern(prop, Var("X"), ind),
       LAMBDA pattern : <<<<DatalogRule(pattern, Instance(subs))>>>>)

generate_axiom_rl(formula) ==
  LET subs == formula[2]
      super == formula[3]
  IN  IF formula[1] = "Direct"
      THEN <<FlattenSeq([i \in DOMAIN subs |->
               [j \in DOMAIN super |-> translate_simple_subclass(subs[i], super[j])]])>>
      ELSE CASE super[1] = "Bottom" -> <<<<translate_empty_intersection(subs)>>>>
             [] super[1] = "AtomicNamedConcept" -> <<<<get_atomic_normalized_rule(subs, super[2])>>>>
             [] super[1] \in {"AllValuesFrom", "ObjectAllValuesFrom"} ->
                  <<<<get_universal_normalized_rule(subs, super[2], super[3])>>>>
             [] super[1] = "ObjectHasValue" ->
                  get_object_has_value_normalized_rule(subs, super[2], super[3])
             [] super[1] = "AtMostOneValueFrom" ->
                  <<<<get_at_most_one_normalized_rule(subs, super[2])>>>>
             [] super[1] = "AtMostZeroValueFrom" ->
                  <<<<get_at_most_zero_normalized_rule(subs, super[2])>>>>

\* One formula that cannot be translated drops the whole axiom.
generate_tbox_rl(formulas) ==
  Then(AllOf([i \in DOMAIN formulas |-> generate_axiom_rl(formulas[i])] \o <<>>),
       LAMBDA rules : <<FlattenSeq(rules)>>)

eli_owl2datalog(f) == Then(eli_axiom_extractor(f), generate_tbox_rl)

\* ------------------------------------------------------------- the whole

class_axiom2datalog(f) == Then(eli_owl2datalog(f), LAMBDA rules : rules)

axiom2datalog(f) ==
  CASE f[1] \in ObjectPropertyAxiom -> object_property_axiom2datalog(f)
    [] f[1] \in ClassAxiom -> class_axiom2datalog(f)
    [] f[1] \in DataPropertyAxiom -> data_property_axiom2datalog(f)
    [] OTHER -> <<>>

\* The rules of every axiom and of equality; sorting and deduplication leave
\* the set.  Both functions look at the statements of an ontology's axioms.
owl2datalog(forms) ==
  UNION {ToSet(axiom2datalog(f)) : f \in forms} \cup ToSet(get_equality_axioms)

\* The assertions that are one triple; the others are reported and skipped.
assert_abox(forms) ==
  LET Ground(f) == CASE f[1] = "ClassAssertion" -> f[2][1] = "ClassName"
                     [] f[1] = "ObjectPropertyAssertion" -> f[2][1] = "NamedObjectProperty"
                     [] OTHER -> f[1] = "DataPropertyAssertion"
  IN  {f \in forms : Ground(f)}
=============================================================================
