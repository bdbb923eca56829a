------------------------- MODULE AnalyzerProperties -------------------------
(* What the semantic analyzer promises, stated over the tree of the program   *)
(* as written: which declaration a name means, which type is written where,   *)
(* which calls and arms there are.  None of it looks at how the visitor goes. *)
EXTENDS Analyzer, Assignability

RECURSIVE PathsFrom(_)
PathsFrom(node) ==
    {<<>>} \cup (IF ~IsNode(node) THEN {}
                 ELSE UNION {{<<i>> \o path : path \in PathsFrom(node.parts[i])} :
                                i \in DOMAIN node.parts})

\* The nodes of some kinds, those within a node, and the innermost around one.
Paths == PathsFrom(tree)
AllOf(kinds) == {path \in Paths : IsNode(At(path)) /\ At(path).kind \in kinds}
Inside(path, outer) == IsStrictPrefix(outer, path)
Around(path, kinds) ==
    {SubSeq(path, 1, n) : n \in {k \in 0..(Len(path) - 1) :
                                    At(SubSeq(path, 1, k)).kind \in kinds}}
LongestOf(paths) == CHOOSE p \in paths : \A q \in paths : Len(q) <= Len(p)

\* One part of the source ends before another begins.
Precedes(p, q) ==
    \E k \in DOMAIN p \cap DOMAIN q :
        p[k] < q[k] /\ SubSeq(p, 1, k - 1) = SubSeq(q, 1, k - 1)

-----------------------------------------------------------------------------
(* Declarations and what they are seen from.  The language is lexically       *)
(* scoped and the nearest scope wins (spec/t81lang-spec.md:296-306).          *)

RECURSIVE PatternNames(_)
PatternNames(pattern) ==
    IF pattern.kind = "Binding" THEN {pattern.parts[1].text}
    ELSE IF pattern.kind = "Tuple" THEN Range(Texts(pattern.parts[1]))
    ELSE IF pattern.kind = "RecordPattern"
    THEN {pair.parts[2].text : pair \in Range(pattern.parts[1].parts)}
    ELSE IF pattern.kind = "Variant" THEN PatternNames(pattern.parts[2])
    ELSE {}

\* Blocks have scopes, and functions and loops because their bodies are blocks
\* (spec/t81lang-spec.md:812, loop_statement ::= "loop" block), and arms.
ScopeAround(path) ==
    IF At(path).kind = "Arm" THEN path
    ELSE LongestOf({<<>>} \cup Around(path, {"Block", "Function", "Loop", "Arm"}))

IsParameter(path) ==
    /\ At(path).kind = "Pair" /\ Len(path) > 2
    /\ At(SubSeq(path, 1, Len(path) - 2)).kind = "Function"

\* The declarations of a name that a place in the source sees: those of the
\* scopes around it that come before it, parameters and bindings from within,
\* and the functions of the program from everywhere.
Visible(name, place) ==
    LET Declares(d) ==
            LET node == At(d) IN
            \/ node.kind \in {"Var", "Let"} /\ node.parts[1].text = name
            \/ IsParameter(d) /\ node.parts[1].text = name
            \/ node.kind = "Arm" /\ name \in PatternNames(node.parts[2]) \ {<<"_">>}
            \/ node.kind = "Function" /\ node.parts[2].text = name
        Reaches(d) ==
            \/ Precedes(d, place)
            \/ At(d).kind \in {"Arm", "Function"} /\ Inside(place, d)
            \/ At(d).kind = "Function" /\ Len(d) = 1
    IN {d \in AllOf({"Var", "Let", "Pair", "Arm", "Function"}) \ {place} :
            /\ ScopeAround(d) = <<>> \/ Inside(place, ScopeAround(d))
            /\ Reaches(d) /\ Declares(d)}
\* The one in the innermost scope.
Meant(name, place) ==
    CHOOSE d \in Visible(name, place) :
        \A e \in Visible(name, place) : Len(ScopeAround(e)) <= Len(ScopeAround(d))

FunctionAround(path) == Around(path, {"Function"})
CalleeName(call) == At(call).parts[1].parts[1].text
IsCallOf(call, function) ==
    /\ Visible(CalleeName(call), call) # {}
    /\ Meant(CalleeName(call), call) = function

-----------------------------------------------------------------------------
(* Types as written.                                                          *)

AliasesOf(name) == {d \in AllOf({"Type"}) : At(d).parts[1].text = name}
RECURSIVE Instance(_, _)
\* A type, with types for the parameters of the alias it is the type of.
Instance(node, env) ==
    IF node = Absent THEN Unknown
    ELSE IF ~IsType(node) THEN Constant(node.parts[1].text)
    ELSE LET name == node.parts[1].text
             params == IF node.kind = "SimpleType" THEN <<>>
                       ELSE [i \in DOMAIN node.parts[2].parts |->
                                Instance(node.parts[2].parts[i], env)]
         IN IF name \in DOMAIN env THEN env[name]
            ELSE IF AliasesOf(name) = {}
            THEN [TypeFromToken(node.parts[1]) EXCEPT !.params = params]
            ELSE LET alias == At(CHOOSE d \in AliasesOf(name) : TRUE)
                     own == Texts(alias.parts[2])
                 IN Instance(alias.parts[3],
                             [p \in Range(own) |-> params[SelectInSeq(own, LAMBDA q : q = p)]])
Written(node) == Instance(node, Empty)

\* A value of one type may stand where another is written: an integer where a
\* wider integer, a fraction or a float is, and no other number where another
\* is (spec/t81lang-spec.md:236-249, :342-343); a vector where a container is.
\* What is not known of a type stands for any.
RECURSIVE Matches(_, _)
Matches(value, target) ==
    \/ "Unknown" \in {value.kind, target.kind}
    \/ /\ value.kind = target.kind /\ value.name = target.name
       /\ \A i \in DOMAIN value.params \cap DOMAIN target.params :
              Matches(value.params[i], target.params[i])
Goes(value, target) ==
    \/ Matches(value, target)
    \/ /\ IsInteger(value)
       /\ \/ IsInteger(target) /\ Rank(value) <= Rank(target)
          \/ target.kind \in {"Fraction", "Float"}
    \/ value.kind = "Vector" /\ target.kind \in Containers

\* What goes where, for the part of a node at the end of each path.
Stores ==
    LET typed(path, i, type) == [value |-> Part(path, i), type |-> Written(type)]
    IN {typed(p, 3, At(p).parts[2]) : p \in {q \in AllOf({"Var", "Let"}) :
                                                At(q).parts[3] # Absent}}
       \cup UNION {{typed(p, 2, At(d).parts[2]) :
                      d \in {e \in Visible(At(p).parts[1].text, p) :
                               /\ At(e).kind \in {"Var", "Let", "Pair"}
                               /\ e = Meant(At(p).parts[1].text, p)}} : p \in AllOf({"Assign"})}
Returns ==
    {[value |-> Part(p, 1),
      type |-> LET function == At(LongestOf(FunctionAround(p))) IN
               IF function.parts[4] = Absent THEN Of("Void") ELSE Written(function.parts[4])] :
        p \in {q \in AllOf({"Return"}) : /\ At(q).parts[1] # Absent
                                         /\ Len(LongestOf(FunctionAround(q))) = 1}}
Passed ==
    UNION {UNION {{[value |-> call \o <<2, i>>,
                    type |-> Written(function.parts[3].parts[i].parts[2])] :
                      i \in DOMAIN At(call).parts[2].parts} :
                     function \in {At(f) : f \in {g \in AllOf({"Function"}) :
                                              Len(g) = 1 /\ IsCallOf(call, g)}}} :
              call \in AllOf({"Call"})}

-----------------------------------------------------------------------------

\* The name that the next step resolves.
Named ==
    IF Visiting("Variable") \/ Visiting("Assign") THEN {NameHere(1)}
    ELSE IF Doing("call") THEN {CalleeName(Item.at)} ELSE {}
\* While no error is reported, a name means its nearest declaration in the
\* source, and it means nothing exactly when none is visible.
NamesAreLexical ==
    ~had_error => \A name \in Named :
        LET visible == Visible(name, Item.at) IN
        /\ IsDefined(name) <=> visible # {}
        /\ IsDefined(name) => Resolve(name).declared = Meant(name, Item.at)

\* What is evaluated: not a callee, nor a constant among the parameters of a type.
Expressions ==
    {path \in AllOf({"Literal", "Variable", "Binary", "Unary", "Grouping", "Vector", "Call",
                     "FieldAccess", "RecordLiteral", "EnumLiteral", "Assign", "Match"}) :
        /\ Around(path, {"GenericType"}) = {}
        /\ ~(Last(path) = 1 /\ At(Front(path)).kind = "Call")}

\* The variants of what a match is about, as declared, and what must be recorded
\* of its arms.
EnumNamed(name) == CHOOSE d \in AllOf({"Enum"}) : At(d).parts[2].text = name
Variants(match) ==
    LET type == facts.types[Part(match, 1)] IN
    IF type.kind = "Custom" THEN PairNames(At(EnumNamed(type.name)).parts[3])
    ELSE IF type.kind = "Option" THEN << <<"Some">>, <<"None">> >>
    ELSE << <<"Ok">>, <<"Err">> >>
MatchIsRecorded(path) ==
    /\ path \in DOMAIN facts.matches
    /\ LET info == facts.matches[path].arms
           arms == At(path).parts[2].parts
       IN /\ Len(info) = Len(arms)
          /\ \A i \in DOMAIN arms :
                /\ info[i].variant = arms[i].parts[1].text
                /\ Variants(path)[info[i].variant_id + 1] = info[i].variant
                /\ info[i].guarded <=> arms[i].parts[3] # Absent
\* The generator takes the types, the loops and the arms of a match from what
\* the analyzer recorded, arms by position and variants by number: in a program
\* it accepts everything is recorded, as the source has it.
AcceptedIsAnnotated ==
    Accepts =>
        /\ Expressions \subseteq DOMAIN facts.types
        /\ \A path \in AllOf({"Match"}) : MatchIsRecorded(path)
        /\ \A p, q \in AllOf({"Match"}) :
              LET type(m) == facts.types[Part(m, 1)]
                  id(m) == facts.matches[m].arms[1].enum_id
              IN (type(p).kind = "Custom" /\ type(q).kind = "Custom") =>
                    (id(p) = id(q) <=> type(p).name = type(q).name)
        /\ AllOf({"Vector"}) = facts.vectors
        /\ AllOf({"Loop"}) = DOMAIN facts.loops
        /\ \A p \in DOMAIN facts.loops :
              /\ facts.loops[p].depth = Cardinality(Around(p, {"Loop", "While"}))
              /\ \A q \in DOMAIN facts.loops \ {p} : facts.loops[p].id # facts.loops[q].id

CallsWithEffects(functions) ==
    \A call \in AllOf({"Call"}) : \A f \in functions :
        (IsEffectful(At(f)) /\ IsCallOf(call, f)) =>
            /\ FunctionAround(call) # {}
            /\ IsEffectful(At(LongestOf(FunctionAround(call))))
\* In a program that is accepted a function of the program marked @effect is
\* called from functions marked @effect only.
PureStaysPure ==
    Accepts => CallsWithEffects({f \in AllOf({"Function"}) : Len(f) = 1})

\* In a program that is accepted every value stored, returned or passed goes
\* where the source says: the context its type was checked in, kept on stacks,
\* is the one it stands in.
AcceptedIsWellTyped ==
    Accepts => \A use \in Stores \cup Returns \cup Passed :
                   Goes(facts.types[use.value], use.type)

\* In a program that is accepted a match has an arm for every variant, and no
\* two without a guard for one.
AcceptedMatchesCover ==
    Accepts => \A path \in AllOf({"Match"}) :
        LET arms == At(path).parts[2].parts
            variants == Variants(path)
        IN /\ \A v \in Range(variants) : \E i \in DOMAIN arms : arms[i].parts[1].text = v
           /\ \A i, j \in DOMAIN arms :
                 (/\ i # j /\ ~IsGuarded(arms[i]) /\ ~IsGuarded(arms[j])) =>
                     arms[i].parts[1].text # arms[j].parts[1].text

\* An alias is used in its own type, or in that of an alias it uses, and so on.
SelfAliased ==
    \E names \in SUBSET {At(d).parts[1].text : d \in AllOf({"Type"})} \ {{}} :
        \A name \in names : \E d \in AllOf({"Type"}) :
            /\ At(d).parts[1].text = name
            /\ \E use \in AllOf({"GenericType"}) :
                  Inside(use, d) /\ At(use).parts[1].text \in names

\* The analysis of every program in which no alias is used in its own type
\* ends, whatever else is wrong with the program.
AnalysisEnds == ~SelfAliased => <>Analyzed
=============================================================================
