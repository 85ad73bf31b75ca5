---------------------------- MODULE OwlSemantics ----------------------------
(***************************************************************************)
(* What axioms and rules mean: the direct semantics of OWL 2 over a small  *)
(* domain, against which the compilation to rules (OwlRules) is judged.    *)
(* An interpretation gives every class and datatype a set, every property  *)
(* a relation and every individual an element.  All anonymous individuals  *)
(* denote one element and all literals another; annotation properties are  *)
(* interpreted as RDF does.                                                *)
(***************************************************************************)
EXTENDS OwlOntology, SequencesExt

CONSTANT Domain \* the elements

Element1 == CHOOSE x \in Domain : TRUE

\* The names in an argument: <<sort, name>>.
RECURSIVE Names(_, _)
Names(role, x) ==
  CASE role \in DOMAIN ListOf -> UNION {Names(ListOf[role], x[i]) : i \in DOMAIN x}
    [] role \in {"n", "lit", "node", "facet", "iri"} -> {}
    [] role = "dprop" -> {<<"property", x>>}
    [] role = "oprop" -> IF x[1] = "NamedObjectProperty" THEN {<<"property", x[2]>>} ELSE Names(role, x[2])
    [] role = "ind" -> {<<"individual", IF x[1] = "NamedIndividual" THEN x[2] ELSE "_:">>}
    [] role \in {"class", "range"} /\ x[1] \in {"ClassName", "NamedDataRange"} -> {<<"class", x[2]>>}
    [] x[1] \in DOMAIN Entity -> {}
    [] x[1] \in {"DisjointUnion", "DatatypeDefinition", "DatatypeRestriction"} ->
         {<<"class", x[2]>>} \cup Names(Roles(x[1])[2], x[3])
    [] x[1] = "AnnotationAssertion" -> {}
    [] x[1] = "SubAnnotationPropertyOf" -> {<<"property", x[2]>>, <<"property", x[3]>>}
    [] x[1] \in AnnotationAxiom -> {<<"property", x[2]>>, <<"class", x[3]>>}
    [] OTHER -> UNION {Names(Roles(x[1])[i], x[i + 1]) : i \in DOMAIN Roles(x[1])}

Signature(forms) == UNION {Names("form", f) : f \in forms}

Universal == {"owl:Thing", "rdfs:Literal", "owl:Literal"}

Interpretations(names) ==
  LET Sort(sort) == {name[2] : name \in {n \in names : n[1] = sort}}
  IN  {[class |-> c, property |-> r, individual |-> i] :
         c \in [Sort("class") \ (Universal \cup {"owl:Nothing"}) -> SUBSET Domain],
         r \in [Sort("property") -> SUBSET (Domain \X Domain)],
         i \in [Sort("individual") -> Domain]}

\* ---------------------------------------------------------------- expressions

Class(I, iri) ==
  CASE iri \in Universal -> Domain [] iri = "owl:Nothing" -> {} [] OTHER -> I.class[iri]
Individual(I, x) == I.individual[IF x[1] = "NamedIndividual" THEN x[2] ELSE "_:"]

RECURSIVE Property(_, _)
Property(I, x) ==
  IF x[1] = "NamedObjectProperty" THEN I.property[x[2]] ELSE {<<e[2], e[1]>> : e \in Property(I, x[2])}

Successors(relation, x) == {e[2] : e \in {d \in relation : d[1] = x}}

\* The elements whose successors, those in `filler`, stand to n as the kind says.
Counted(constructor, n, relation, filler) ==
  {x \in Domain :
     LET k == Cardinality(Successors(relation, x) \cap filler)
     IN  CASE constructor \in {"ObjectMinCardinality", "ObjectMinQualifiedCardinality",
                               "DataMinCardinality", "DataMinQualifiedCardinality"} -> k >= n
           [] constructor \in {"ObjectMaxCardinality", "ObjectMaxQualifiedCardinality",
                               "DataMaxCardinality", "DataMaxQualifiedCardinality"} -> k <= n
           [] OTHER -> k = n}

\* Of classes and of data ranges.  A facet leaves one value; a restriction on
\* several data properties has no instances.
RECURSIVE Extension(_, _)
Extension(I, x) ==
  LET c == x[1]
      Has(relation, y) == {e \in Domain : <<e, y>> \in relation}
      Some(relation, filler) == {e \in Domain : Successors(relation, e) \cap filler # {}}
      Only(relation, filler) == {e \in Domain : Successors(relation, e) \subseteq filler}
  IN  CASE c \in {"ClassName", "NamedDataRange"} -> Class(I, x[2])
        [] c \in {"ObjectUnionOf", "DataUnionOf"} ->
             UNION {Extension(I, x[2][i]) : i \in DOMAIN x[2]}
        [] c \in {"ObjectIntersectionOf", "DataIntersectionOf"} ->
             {e \in Domain : \A i \in DOMAIN x[2] : e \in Extension(I, x[2][i])}
        [] c \in {"ObjectComplementOf", "DataComplementOf"} -> Domain \ Extension(I, x[2])
        [] c = "ObjectOneOf" -> {Individual(I, x[2][i]) : i \in DOMAIN x[2]}
        [] c = "DataOneOf" -> {Element1}
        [] c = "DatatypeRestriction" -> Class(I, x[2]) \cap {Element1}
        [] c = "ObjectSomeValuesFrom" -> Some(Property(I, x[2]), Extension(I, x[3]))
        [] c = "ObjectAllValuesFrom" -> Only(Property(I, x[2]), Extension(I, x[3]))
        [] c = "ObjectHasValue" -> Has(Property(I, x[2]), Individual(I, x[3]))
        [] c = "ObjectHasSelf" -> {e \in Domain : <<e, e>> \in Property(I, x[2])}
        [] c \in {"DataSomeValuesFrom", "DataAllValuesFrom"} /\ Len(x[2]) # 1 -> {}
        [] c = "DataSomeValuesFrom" -> Some(I.property[x[2][1]], Extension(I, x[3]))
        [] c = "DataAllValuesFrom" -> Only(I.property[x[2][1]], Extension(I, x[3]))
        [] c = "DataHasValue" -> Has(I.property[x[2]], Element1)
        [] Roles(c) = <<"n", "oprop">> -> Counted(c, x[2], Property(I, x[3]), Domain)
        [] Roles(c) = <<"n", "dprop">> -> Counted(c, x[2], I.property[x[3]], Domain)
        [] Roles(c) = <<"n", "oprop", "class">> -> Counted(c, x[2], Property(I, x[3]), Extension(I, x[4]))
        [] Roles(c) = <<"n", "dprop", "range">> -> Counted(c, x[2], I.property[x[3]], Extension(I, x[4]))

\* --------------------------------------------------------------------- axioms

Pairs(s) == {e \in (DOMAIN s) \X (DOMAIN s) : e[1] < e[2]}
AllEqual(s) == \A i, j \in DOMAIN s : s[i] = s[j]
AllDisjoint(s) == \A e \in Pairs(s) : s[e[1]] \cap s[e[2]] = {}
Inverted(r) == {<<e[2], e[1]>> : e \in r}
Composed(r, s) ==
  {e \in Domain \X Domain : \E y \in Domain : <<e[1], y>> \in r /\ <<y, e[2]>> \in s}
Sources(r) == {e[1] : e \in r}
Targets(r) == {e[2] : e \in r}
Functional(r) == \A d, e \in r : d[1] = e[1] => d[2] = e[2]

Holds(c, r) ==
  CASE c = "FunctionalObjectProperty" -> Functional(r)
    [] c = "InverseFunctionalObjectProperty" -> Functional(Inverted(r))
    [] c = "ReflexiveObjectProperty" -> \A x \in Domain : <<x, x>> \in r
    [] c = "IrreflexiveObjectProperty" -> \A x \in Domain : <<x, x>> \notin r
    [] c = "SymmetricObjectProperty" -> Inverted(r) = r
    [] c = "AsymmetricObjectProperty" -> Inverted(r) \cap r = {}
    [] c = "TransitiveObjectProperty" -> Composed(r, r) \subseteq r

\* Keys and declarations constrain nothing here.
Satisfies(I, f) ==
  LET c == f[1]
      Each(Of(_, _), s) == [i \in DOMAIN s |-> Of(I, s[i])] \o <<>>
      Data(J, d) == J.property[d]
      Edge2(r) == <<Individual(I, f[3]), Individual(I, f[4])>> \in r
      Valued(r) == <<Individual(I, f[3]), Element1>> \in r
  IN  CASE c = "SubClassOf" -> Extension(I, f[2]) \subseteq Extension(I, f[3])
        [] c = "EquivalentClasses" -> AllEqual(Each(Extension, f[2]))
        [] c = "DisjointClasses" -> AllDisjoint(Each(Extension, f[2]))
        [] c = "DisjointUnion" ->
             /\ AllDisjoint(Each(Extension, f[3]))
             /\ Class(I, f[2]) = UNION {Extension(I, f[3][i]) : i \in DOMAIN f[3]}
        [] c = "ObjectPropertyDomain" -> Sources(Property(I, f[2])) \subseteq Extension(I, f[3])
        [] c = "ObjectPropertyRange" -> Targets(Property(I, f[2])) \subseteq Extension(I, f[3])
        [] c = "SubObjectPropertyOf" -> Property(I, f[2]) \subseteq Property(I, f[3])
        [] c = "SubObjectPropertyChainOf" ->
             LET links == Each(Property, f[2])
             IN  FoldLeft(Composed, links[1], Tail(links)) \subseteq Property(I, f[3])
        [] c = "EquivalentObjectProperties" -> AllEqual(Each(Property, f[2]))
        [] c = "DisjointObjectProperties" -> AllDisjoint(Each(Property, f[2]))
        [] c = "InverseObjectProperties" -> Property(I, f[2]) = Inverted(Property(I, f[3]))
        [] c \in Characteristics -> Holds(c, Property(I, f[2]))
        [] c \in {"SubDataPropertyOf", "SubAnnotationPropertyOf"} ->
             I.property[f[2]] \subseteq I.property[f[3]]
        [] c = "EquivalentDataProperties" -> AllEqual(Each(Data, f[2]))
        [] c = "DisjointDataProperties" -> AllDisjoint(Each(Data, f[2]))
        [] c = "DataPropertyDomain" -> Sources(I.property[f[2]]) \subseteq Extension(I, f[3])
        [] c = "DataPropertyRange" -> Targets(I.property[f[2]]) \subseteq Extension(I, f[3])
        [] c = "FunctionalDataProperty" -> Functional(I.property[f[2]])
        [] c = "AnnotationPropertyDomain" -> Sources(I.property[f[2]]) \subseteq Class(I, f[3])
        [] c = "AnnotationPropertyRange" -> Targets(I.property[f[2]]) \subseteq Class(I, f[3])
        [] c = "DatatypeDefinition" -> Class(I, f[2]) = Extension(I, f[3])
        [] c = "SameIndividual" -> AllEqual(Each(Individual, f[2]))
        [] c = "DifferentIndividuals" ->
             LET s == Each(Individual, f[2]) IN \A e \in Pairs(s) : s[e[1]] # s[e[2]]
        [] c = "ClassAssertion" -> Individual(I, f[3]) \in Extension(I, f[2])
        [] c = "ObjectPropertyAssertion" -> Edge2(Property(I, f[2]))
        [] c = "NegativeObjectPropertyAssertion" -> ~Edge2(Property(I, f[2]))
        [] c = "DataPropertyAssertion" -> Valued(I.property[f[2]])
        [] c = "NegativeDataPropertyAssertion" -> ~Valued(I.property[f[2]])
        [] OTHER -> TRUE

\* ---------------------------------------------------------------------- rules

Variables(rule) ==
  {t \in UNION {ToSet(pattern) : pattern \in ToSet(rule.body) \cup (IF rule.head = <<>> THEN {} ELSE {rule.head})} :
     t[1] = "var"}

\* A pattern under the valuation v; the object of rdf:type is a concept.
Matches(I, v, pattern) ==
  LET Value(t) == CASE t[1] = "var" -> v[t]
                    [] t[1] = "iri" -> I.individual[t[2]]
                    [] OTHER -> I.individual["_:"]
      predicate == pattern[2][2]
  IN  CASE predicate = "rdf:type" -> Value(pattern[1]) \in Extension(I, pattern[3])
        [] predicate = "owl:sameAs" -> Value(pattern[1]) = Value(pattern[3])
        [] OTHER -> <<Value(pattern[1]), Value(pattern[3])>> \in I.property[predicate]

RuleHolds(I, rule) ==
  \A v \in [Variables(rule) -> Domain] :
    (\A i \in DOMAIN rule.body : Matches(I, v, rule.body[i])) =>
      rule.head # <<>> /\ Matches(I, v, rule.head)
=============================================================================
