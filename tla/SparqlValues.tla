---------------------------- MODULE SparqlValues ----------------------------
(***************************************************************************)
(* RDF terms as the query evaluator sees them (GraphElement, RdfLiteral),  *)
(* their comparison, arithmetic with type promotion, and casts.            *)
(*                                                                         *)
(* A term is a tuple whose first component is its kind.  The kinds keep    *)
(* the SHAPE of a literal apart from its value, because the evaluator      *)
(* joins by structural equality: a number computed by COUNT is a native    *)
(* literal and does not join with the same number read from data, which    *)
(* is a typed one.                                                         *)
(*   <<"iri", x>>  <<"bnode", x>>  <<"tterm", x>>   resources              *)
(*   <<"str", x>>  <<"xstr", x>>                    simple / xsd:string    *)
(*   <<"lang", x, l>>                               language tagged        *)
(*   <<"bool", x>> <<"xbool", x>>                   native / typed boolean *)
(*   <<"num", shape, type, n, d>>                   the number n / d       *)
(*   <<"odd", x, type>>                             x is not of its type   *)
(*   <<"none">>                                     error or unbound       *)
(***************************************************************************)
EXTENDS Integers, Sequences, FiniteSets, TLC

None == <<"none">>
Iri(x) == <<"iri", x>>
Str(x) == <<"str", x>>
Var(x) == <<"var", x>>
Num(type, n, d) == <<"num", "typed", type, n, d>>
IntLit(n) == Num("integer", n, 1)
NativeInt(n) == <<"num", "native", "integer", n, 1>>
Bool(b) == <<"bool", IF b THEN "true" ELSE "false">>

Kind(t) == t[1]
IsVar(t) == Kind(t) = "var"
IsLiteral(t) == Kind(t) \in {"str", "xstr", "lang", "bool", "xbool", "num", "odd"}
IsNum(t) == Kind(t) = "num"

(* Numbers are exact fractions; n / d in lowest terms with d > 0.          *)
Numerator(t) == t[4]
Denominator(t) == t[5]
RECURSIVE Gcd(_, _)
Gcd(a, b) == IF b = 0 THEN a ELSE Gcd(b, a % b)
Abs(n) == IF n < 0 THEN -n ELSE n
Reduced(type, n, d) ==
    LET g == Gcd(Abs(n), Abs(d))
        s == IF d < 0 THEN -1 ELSE 1
    IN  Num(type, s * (n \div g), s * (d \div g))

(* xsd:integer < xsd:decimal < xsd:float < xsd:double                      *)
TypeRank == [integer |-> 1, decimal |-> 2, float |-> 3, double |-> 4]
Wider(s, t) == IF TypeRank[s] >= TypeRank[t] THEN s ELSE t

(* Double wins over float, any floating operand over the exact ones; two   *)
(* integers stay integer except under division, which is decimal.          *)
ArithmeticType(op, s, t) ==
    IF Wider(s, t) = "integer" /\ op = "/" THEN "decimal" ELSE Wider(s, t)

eval_binary_value(l, op, r) ==
    IF ~ IsNum(l) \/ ~ IsNum(r) \/ op \notin {"+", "-", "*", "/"} THEN None
    ELSE LET type == ArithmeticType(op, l[3], r[3])
             a == Numerator(l)  b == Denominator(l)
             c == Numerator(r)  d == Denominator(r)
         IN  CASE op = "+" -> Reduced(type, a * d + c * b, b * d)
               [] op = "-" -> Reduced(type, a * d - c * b, b * d)
               [] op = "*" -> Reduced(type, a * c, b * d)
               [] op = "/" -> IF c = 0 THEN None ELSE Reduced(type, a * d, b * c)

arithmetic_negate(t) ==
    IF IsNum(t) THEN Num(t[3], -Numerator(t), Denominator(t)) ELSE None

Floor(n, d) == n \div d
eval_fn_abs(t) == IF IsNum(t) THEN Num(t[3], Abs(Numerator(t)), Denominator(t)) ELSE None
eval_fn_floor(t) == IF IsNum(t) THEN Num(t[3], Floor(Numerator(t), Denominator(t)), 1) ELSE None
eval_fn_ceil(t) == IF IsNum(t) THEN Num(t[3], -Floor(-Numerator(t), Denominator(t)), 1) ELSE None
eval_fn_round(t) ==
    IF IsNum(t) THEN Num(t[3], Floor(2 * Numerator(t) + Denominator(t), 2 * Denominator(t)), 1)
    ELSE None

-----------------------------------------------------------------------------
(* Lexical forms: only the ones the casts tell apart.                      *)

LexicalInteger == [x \in {"0", "1", "12"} |-> CASE x = "0" -> 0 [] x = "1" -> 1 [] x = "12" -> 12]
LexicalBoolean == [x \in {"true", "1", "false", "0"} |-> x \in {"true", "1"}]
Lexical(t) ==
    CASE Kind(t) = "num" /\ Denominator(t) = 1 -> ToString(Numerator(t))
      [] Kind(t) = "num" /\ Denominator(t) # 1 -> ToString(Numerator(t)) \o "/" \o ToString(Denominator(t))
      [] Kind(t) # "num" -> t[2]

graph_element_to_string(t) == IF IsLiteral(t) \/ Kind(t) = "iri" THEN Lexical(t) ELSE "none"
eval_fn_str(t) == IF IsLiteral(t) \/ Kind(t) = "iri" THEN Str(Lexical(t)) ELSE None
eval_fn_lang(t) == IF Kind(t) = "lang" THEN Str(t[3]) ELSE Str("")
eval_fn_isnumeric(t) == Bool(IsNum(t))
eval_fn_datatype(t) ==
    CASE Kind(t) \in {"str", "xstr"} -> Iri("xsd:string")
      [] Kind(t) = "lang" -> Iri("rdf:langString")
      [] Kind(t) \in {"bool", "xbool"} -> Iri("xsd:boolean")
      [] Kind(t) \in {"num", "odd"} -> Iri("xsd:" \o t[3])
      [] OTHER -> None

(* A typed boolean is true only in the spelling "true".                    *)
IsBoolean(t) == Kind(t) \in {"bool", "xbool"}
element_to_bool(t) == t[2] = "true"

cast_to_xsd_string(t) == IF IsLiteral(t) THEN Str(Lexical(t)) ELSE None
cast_to_xsd_boolean(t) ==
    CASE IsNum(t) -> <<"xbool", IF Numerator(t) # 0 THEN "true" ELSE "false">>
      [] IsLiteral(t) /\ ~ IsNum(t) /\ t[2] \in DOMAIN LexicalBoolean ->
            <<"xbool", IF LexicalBoolean[t[2]] THEN "true" ELSE "false">>
      [] OTHER -> None
Truncated(t) == IF Numerator(t) < 0 THEN -Floor(-Numerator(t), Denominator(t))
                ELSE Floor(Numerator(t), Denominator(t))
cast_to_xsd_integer(t) ==
    CASE IsNum(t) -> IntLit(Truncated(t))
      [] IsBoolean(t) /\ t[2] \in DOMAIN LexicalBoolean -> IntLit(IF LexicalBoolean[t[2]] THEN 1 ELSE 0)
      [] Kind(t) \in {"str", "xstr", "lang"} /\ t[2] \in DOMAIN LexicalInteger -> IntLit(LexicalInteger[t[2]])
      [] OTHER -> None
CastToNumber(type, t) ==
    CASE IsNum(t) -> Num(type, Numerator(t), Denominator(t))
      [] OTHER -> LET i == cast_to_xsd_integer(t)
                  IN  IF i = None THEN None ELSE Num(type, Numerator(i), 1)

eval_xsd_cast(target, t) ==
    CASE target = "xsd:string"  -> cast_to_xsd_string(t)
      [] target = "xsd:boolean" -> cast_to_xsd_boolean(t)
      [] target = "xsd:integer" -> cast_to_xsd_integer(t)
      [] target = "xsd:decimal" -> CastToNumber("decimal", t)
      [] target = "xsd:double"  -> CastToNumber("double", t)
      [] target = "xsd:float"   -> CastToNumber("float", t)

-----------------------------------------------------------------------------
(* String functions.  A string literal carries a tag (simple, xsd:string   *)
(* or a language) that the functions pass on.                              *)

literal_str_tag(t) == CASE Kind(t) = "str" -> <<"plain">> [] Kind(t) = "xstr" -> <<"xsd">>
                        [] Kind(t) = "lang" -> <<"lang", t[3]>> [] OTHER -> None
str_tag_to_element(x, tag) == CASE tag[1] = "plain" -> Str(x) [] tag[1] = "xsd" -> <<"xstr", x>>
                                [] tag[1] = "lang" -> <<"lang", x, tag[2]>>
str_args_compatible(tag1, tag2) == tag2[1] # "lang" \/ tag1 = tag2

At(text, part) == {i \in 1..(Len(text) - Len(part) + 1) : SubSeq(text, i, i + Len(part) - 1) = part}
eval_string_predicate(name, text, part) ==
    CASE name = "STRSTARTS" -> 1 \in At(text, part)
      [] name = "STRENDS" -> (Len(text) - Len(part) + 1) \in At(text, part)
      [] name = "CONTAINS" -> At(text, part) # {}

(* STRBEFORE and STRAFTER keep the tag unless the separator is missing.    *)
Least(S) == CHOOSE i \in S : \A j \in S : i <= j
eval_fn_strbefore(t, u) ==
    IF literal_str_tag(t) = None \/ literal_str_tag(u) = None THEN None
    ELSE IF ~ str_args_compatible(literal_str_tag(t), literal_str_tag(u)) THEN None
    ELSE IF At(t[2], u[2]) = {} THEN Str("")
    ELSE str_tag_to_element(SubSeq(t[2], 1, Least(At(t[2], u[2])) - 1), literal_str_tag(t))
eval_fn_strafter(t, u) ==
    IF literal_str_tag(t) = None \/ literal_str_tag(u) = None THEN None
    ELSE IF ~ str_args_compatible(literal_str_tag(t), literal_str_tag(u)) THEN None
    ELSE IF At(t[2], u[2]) = {} THEN Str("")
    ELSE str_tag_to_element(SubSeq(t[2], Least(At(t[2], u[2])) + Len(u[2]), Len(t[2])), literal_str_tag(t))

(* STRLEN and REPLACE-like functions know no native literals.              *)
eval_fn_strlen(t) == IF IsLiteral(t) /\ Kind(t) # "bool" /\ ~ (IsNum(t) /\ t[2] = "native")
                     THEN IntLit(Len(Lexical(t))) ELSE None

RECURSIVE JoinText(_)
JoinText(ts) == IF ts = <<>> THEN "" ELSE ts[1][2] \o JoinText(Tail(ts))
eval_fn_concat(ts) ==
    LET tags == {literal_str_tag(ts[i]) : i \in 1..Len(ts)}
    IN  IF None \in tags THEN None
        ELSE str_tag_to_element(JoinText(ts), IF Cardinality(tags) = 1 THEN CHOOSE tag \in tags : TRUE ELSE <<"plain">>)

(* Positions count from 1; 0 means 1.                                      *)
IsIndex(t) == IsNum(t) /\ t[3] = "integer" /\ Numerator(t) >= 0
eval_fn_substr(ts) ==
    LET tag == IF literal_str_tag(ts[1]) = None THEN <<"plain">> ELSE literal_str_tag(ts[1])
        from == IF Numerator(ts[2]) = 0 THEN 1 ELSE Numerator(ts[2])
        text == graph_element_to_string(ts[1])
        end == IF Len(ts) = 2 \/ from + Numerator(ts[Len(ts)]) - 1 > Len(text) THEN Len(text)
               ELSE from + Numerator(ts[Len(ts)]) - 1
    IN  IF text = "none" \/ \E i \in 2..Len(ts) : ~ IsIndex(ts[i]) THEN None
        ELSE str_tag_to_element(SubSeq(text, from, end), tag)

(* Both want a simple literal; the datatypes are the ones modelled here.   *)
eval_fn_strdt(t, u) ==
    CASE Kind(t) # "str" \/ Kind(u) # "iri" -> None
      [] OTHER -> CASE u[2] = "xsd:string" -> <<"xstr", t[2]>>
                    [] u[2] = "xsd:boolean" -> <<"xbool", t[2]>>
                    [] u[2] = "xsd:integer" -> IF t[2] \in DOMAIN LexicalInteger THEN IntLit(LexicalInteger[t[2]])
                                               ELSE <<"odd", t[2], "integer">>
                    [] OTHER -> None
eval_fn_strlang(t, u) ==
    IF Kind(t) # "str" \/ graph_element_to_string(u) = "none" THEN None
    ELSE <<"lang", t[2], graph_element_to_string(u)>>
eval_fn_iri_uri(t) == IF graph_element_to_string(t) = "none" THEN None ELSE Iri(graph_element_to_string(t))

(* Case folding: the upper-case strings that occur.                        *)
LowerOf == [EN |-> "en", A |-> "a", B |-> "b"] @@ ("en-US" :> "en-us")
to_lowercase(x) == IF x \in DOMAIN LowerOf THEN LowerOf[x] ELSE x
eval_fn_lcase(t) ==
    CASE literal_str_tag(t) # None -> str_tag_to_element(to_lowercase(t[2]), literal_str_tag(t))
      [] OTHER -> IF graph_element_to_string(t) = "none" THEN None ELSE Str(to_lowercase(graph_element_to_string(t)))
to_uppercase(x) == IF \E y \in DOMAIN LowerOf : LowerOf[y] = x THEN CHOOSE y \in DOMAIN LowerOf : LowerOf[y] = x ELSE x
eval_fn_ucase(t) ==
    CASE literal_str_tag(t) # None -> str_tag_to_element(to_uppercase(t[2]), literal_str_tag(t))
      [] OTHER -> IF graph_element_to_string(t) = "none" THEN None ELSE Str(to_uppercase(graph_element_to_string(t)))

eval_langmatches(lang, range) ==
    LET l == to_lowercase(lang)  r == to_lowercase(range)
    IN  IF r = "*" THEN l # "" ELSE l = r \/ 1 \in At(l, r \o "-")

(* The regular expressions that occur; any other text is not one.          *)
Regexes == {"^a", "."}
is_match(regex, flags, text) ==
    CASE regex = "^a" -> 1 \in At(text, "a") \/ (flags = "i" /\ 1 \in At(text, "A"))
      [] regex = "." -> text # ""

is_well_formed_lexical(t) == Kind(t) # "odd"

StringFunctions == {"STRSTARTS", "STRENDS", "CONTAINS", "STRBEFORE", "STRAFTER", "STRLEN", "CONCAT", "SUBSTR",
                    "STRDT", "STRLANG", "IRI", "LCASE", "UCASE"}
StringFunction(name, ts) ==
    CASE name \in {"STRSTARTS", "STRENDS", "CONTAINS"} ->
            IF "none" \in {graph_element_to_string(ts[1]), graph_element_to_string(ts[2])} THEN None
            ELSE Bool(eval_string_predicate(name, graph_element_to_string(ts[1]), graph_element_to_string(ts[2])))
      [] name = "STRBEFORE" -> eval_fn_strbefore(ts[1], ts[2])
      [] name = "STRAFTER" -> eval_fn_strafter(ts[1], ts[2])
      [] name = "STRLEN" -> eval_fn_strlen(ts[1])
      [] name = "CONCAT" -> eval_fn_concat(ts)
      [] name = "SUBSTR" -> eval_fn_substr(ts)
      [] name = "STRDT" -> eval_fn_strdt(ts[1], ts[2])
      [] name = "STRLANG" -> eval_fn_strlang(ts[1], ts[2])
      [] name = "IRI" -> eval_fn_iri_uri(ts[1])
      [] name = "LCASE" -> eval_fn_lcase(ts[1])
      [] name = "UCASE" -> eval_fn_ucase(ts[1])

-----------------------------------------------------------------------------
(* Comparison.                                                             *)

StringKinds == {"str", "xstr"}
SameNumber(a, b) == Numerator(a) * Denominator(b) = Numerator(b) * Denominator(a)

(* The operator "=": by value for numbers, strings and booleans, by        *)
(* structure for everything else.                                          *)
values_equal(a, b) ==
    CASE IsNum(a) /\ IsNum(b) -> SameNumber(a, b)
      [] Kind(a) \in StringKinds /\ Kind(b) \in StringKinds -> a[2] = b[2]
      [] IsBoolean(a) /\ IsBoolean(b) -> element_to_bool(a) = element_to_bool(b)
      [] OTHER -> a = b

StringOrder == <<"", "0", "1", "12", "2", "3", "4", "a", "b", "c", "default", "false", "g1", "p", "q", "true", "x", "y">>
StringRank(x) == CHOOSE i \in 1..Len(StringOrder) : StringOrder[i] = x

(* "<": -1, 0 or 1, or 2 when the two have no common order.                *)
Sign(n) == IF n < 0 THEN -1 ELSE IF n > 0 THEN 1 ELSE 0
Incomparable == 2
compare_graph_elements(a, b) ==
    CASE IsNum(a) /\ IsNum(b) ->
            Sign(Numerator(a) * Denominator(b) - Numerator(b) * Denominator(a))
      [] Kind(a) \in StringKinds /\ Kind(b) \in StringKinds -> Sign(StringRank(a[2]) - StringRank(b[2]))
      [] IsBoolean(a) /\ IsBoolean(b) /\ a[2] \in DOMAIN LexicalBoolean /\ b[2] \in DOMAIN LexicalBoolean ->
            LET n(t) == IF LexicalBoolean[t[2]] THEN 1 ELSE 0 IN Sign(n(a) - n(b))
      [] OTHER -> Incomparable

(* The total order of ORDER BY: by number, else by lexical form; a blank   *)
(* node has none and counts as the empty string.                           *)
OrderKey(t) == IF Kind(t) \in {"bnode", "tterm"} THEN "" ELSE Lexical(t)
compare_graph_elements_total(a, b) ==
    IF IsNum(a) /\ IsNum(b) THEN compare_graph_elements(a, b)
    ELSE Sign(StringRank(OrderKey(a)) - StringRank(OrderKey(b)))

-----------------------------------------------------------------------------
(* Folds over the values of a group.                                       *)

RECURSIVE SumFrom(_, _)
SumFrom(values, acc) ==
    IF values = <<>> THEN acc
    ELSE SumFrom(Tail(values), eval_binary_value(acc, "+", Head(values)))

sum_values(values) ==
    IF \E i \in 1..Len(values) : ~ IsNum(values[i]) THEN None
    ELSE SumFrom(values, IntLit(0))

RECURSIVE Extreme(_, _, _)
Extreme(values, sign, acc) ==
    IF values = <<>> \/ acc = None THEN acc
    ELSE LET c == compare_graph_elements(acc, Head(values))
         IN  Extreme(Tail(values), sign,
                IF c = Incomparable THEN None
                ELSE IF c = sign THEN Head(values) ELSE acc)

(* MIN and MAX fail as soon as two values have no common order.            *)
ExtremeOf(values, sign) ==
    IF values = <<>> THEN None ELSE Extreme(Tail(values), sign, Head(values))

avg_values(values) ==
    IF values = <<>> \/ sum_values(values) = None THEN None
    ELSE eval_binary_value(sum_values(values), "/", IntLit(Len(values)))
=============================================================================
