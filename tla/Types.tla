------------------------------- MODULE Types --------------------------------
(* The types of the semantic analyzer (semantic_analyzer.hpp) and what its    *)
(* helpers make of them.  A name is the sequence of characters of its token.  *)
EXTENDS Integers, Sequences

CONSTANT Nothing     \* an empty optional or a null pointer

\* Type::Kind, and a type.
Kinds ==
    {"Void", "Bool", "I2", "I8", "I16", "I32", "BigInt", "Float", "Fraction", "Vector",
     "Matrix", "Tensor", "Graph", "Option", "Result", "String", "Constant", "Custom",
     "Unknown", "Error"}
Type(kind, params, name) == [kind |-> kind, params |-> params, name |-> name]
Of(kind) == Type(kind, <<>>, <<>>)
Unknown == Of("Unknown")
Error == Of("Error")
Constant(repr) == Type("Constant", <<>>, repr)
Custom(name) == Type("Custom", <<>>, name)
OptionOf(payload) == Type("Option", <<payload>>, <<>>)
ResultOf(success, error) == Type("Result", <<success, error>>, <<>>)

\* type_from_token: the words with tokens of their own, then three names.
Words ==
    [t \in {"Void", "Bool", "I2", "I8", "I16", "I32", "T81BigInt", "T81Float",
            "T81Fraction", "Vector", "Matrix", "Tensor", "Graph"} |->
        IF t = "T81BigInt" THEN "BigInt"
        ELSE IF t = "T81Float" THEN "Float"
        ELSE IF t = "T81Fraction" THEN "Fraction" ELSE t]
Names == [n \in {<<"Option">>, <<"Result">>, <<"T81String">>} |->
             IF n = <<"T81String">> THEN "String" ELSE n[1]]
TypeFromToken(leaf) ==
    IF leaf.kind \in DOMAIN Words THEN Of(Words[leaf.kind])
    ELSE IF leaf.text \in DOMAIN Names THEN Of(Names[leaf.text])
    ELSE Custom(leaf.text)

-----------------------------------------------------------------------------

\* numeric_rank: the numeric kinds from the narrowest to the widest.
Ranks == <<"I2", "I8", "I16", "I32", "BigInt", "Fraction", "Float">>
Integers81 == {Ranks[i] : i \in 1..5}
IsInteger(type) == type.kind \in Integers81
IsNumeric(type) == \E i \in DOMAIN Ranks : Ranks[i] = type.kind
Rank(type) == IF IsNumeric(type) THEN CHOOSE i \in DOMAIN Ranks : Ranks[i] = type.kind
              ELSE 0

\* deduce_numeric_type: the wider of two numeric types; Nothing when it reports
\* that there is none, as for a fraction and a float.
DeduceNumeric(left, right) ==
    LET kinds == {left.kind, right.kind} IN
    IF "Error" \in kinds THEN Error
    ELSE IF "Unknown" \in kinds THEN Unknown
    ELSE IF ~IsNumeric(left) \/ ~IsNumeric(right) \/ kinds = {"Fraction", "Float"}
         THEN Nothing
    ELSE IF Rank(left) >= Rank(right) THEN left ELSE right

\* Parameter i of a type, where a missing one is unknown.
Param(type, i) == IF i \in DOMAIN type.params THEN type.params[i] ELSE Unknown

Longest(s, t) == IF Len(s) >= Len(t) THEN Len(s) ELSE Len(t)
Padded(params, n) ==
    [i \in 1..(IF n > Len(params) THEN n ELSE Len(params)) |->
        IF i \in DOMAIN params THEN params[i] ELSE Unknown]

\* n parameters of a type, the unknown ones taken from another.
FilledFrom(type, n, other) ==
    [type EXCEPT !.params =
        LET params == Padded(@, n) IN
        [i \in DOMAIN params |->
            IF params[i].kind = "Unknown" THEN Param(other, i) ELSE params[i]]]

\* refine_generic_type: what a declared type leaves open, its initializer settles.
RefineGeneric(declared, initializer) ==
    IF declared.kind = "Unknown" \/ declared.kind # initializer.kind THEN declared
    ELSE FilledFrom(declared,
                    IF declared.kind = "Result" THEN 2
                    ELSE Longest(declared.params, initializer.params),
                    initializer)

\* merge_expected_params: what a type leaves open, the expected type settles.
MergeExpected(type, expected) ==
    IF \/ expected = Nothing
       \/ type.kind # expected.kind
       \/ type.kind = "Custom" /\ type.name # expected.name
    THEN type
    ELSE FilledFrom(type, Longest(type.params, expected.params), expected)
=============================================================================
