--------------------------- MODULE Assignability ----------------------------
(* Which types equal each other, and which value may go where (is_assignable  *)
(* of semantic_analyzer.cpp).                                                 *)
EXTENDS Types

RECURSIVE Same(_, _)
\* Type::operator==: a custom type is its name, whatever its parameters.
Same(a, b) ==
    /\ a.kind = b.kind
    /\ IF a.kind \in {"Custom", "Constant"} THEN a.name = b.name
       ELSE /\ Len(a.params) = Len(b.params)
            /\ \A i \in DOMAIN a.params : Same(a.params[i], b.params[i])

\* What a vector literal may initialize besides a vector.
Containers == {"Matrix", "Tensor", "Graph"}

\* A number goes where its type or a wider one is expected.
Widens(target, value) == Rank(value) <= Rank(target)

RECURSIVE Assignable(_, _)
Assignable(target, value) ==
    LET kinds == {target.kind, value.kind}
        \* structural_params_assignable, parameter i
        Fits(i) ==
            LET t == Param(target, i)
                v == Param(value, i) IN
            IF "Constant" \in {t.kind, v.kind}
            THEN "Unknown" \in {t.kind, v.kind} \/ Same(t, v)
            ELSE Assignable(t, v)
    IN
    IF kinds \cap {"Error", "Unknown"} # {} \/ Same(target, value) THEN TRUE
    ELSE IF kinds \in {{"Option"}, {"Result"}}
         THEN \A i \in 1..2 : Assignable(Param(target, i), Param(value, i))
    ELSE IF IsNumeric(target) /\ IsNumeric(value) THEN Widens(target, value)
    ELSE IF target.kind \in Containers /\ value.kind = "Vector" THEN TRUE
    ELSE /\ target.kind = value.kind
         /\ target.kind \notin {"Custom", "Constant"}
         /\ {Len(target.params), Len(value.params)} # {0}
         /\ 0 \in {Len(target.params), Len(value.params)}
               \/ Len(target.params) = Len(value.params)
         /\ \A i \in 1..Longest(target.params, value.params) : Fits(i)
=============================================================================
