------------------------------ MODULE Pipeline ------------------------------
(* A unit through the analyzer and, if it is accepted, through the generator, *)
(* as emit-ir and emit-bytecode take it.  The generator walks the tree of the *)
(* parser and asks the analyzer about its nodes; here what it asks is put     *)
(* into the nodes when they are handed over.                                  *)
EXTENDS AnalyzerProperties

CONSTANTS Missing, VariantIdBits, EnumIdBits,    \* see Lowering and EnumMeta
          MaxDigits                              \* see Parser

VARIABLES program, work, code, pools, regs, labels, vals, env, loops, scopes, calls, status

generatorVars ==
    <<program, work, code, pools, regs, labels, vals, env, loops, scopes, calls, status>>
pipelineVars == <<analyzerVars, generatorVars>>

Generator == INSTANCE Lowering WITH Stmts <- {}, Exprs <- {}, Programs <- {<<>>},
                                   Nil <- Nothing

-----------------------------------------------------------------------------
(* The tree as the generator sees it.                                         *)

Spelled(name) == FoldLeft(LAMBDA s, t : s \o t, "", name)

\* typed_expr of a node, with the kinds categorize and categorize_primitive
\* tell apart.
Typed(path) ==
    IF path \notin DOMAIN facts.types THEN "untyped"
    ELSE LET type == facts.types[path] IN
         IF IsInteger(type) THEN "int"
         ELSE IF type.kind = "Float" THEN "float"
         ELSE IF type.kind = "Fraction" THEN "fraction"
         ELSE IF type.kind = "Bool" THEN "bool" ELSE "other"

Operator ==
    [op \in {"Plus", "Minus", "Star", "Slash", "Percent", "Less", "LessEqual", "Greater",
             "GreaterEqual", "EqualEqual", "BangEqual", "AmpAmp", "PipePipe", "Bang"} |->
        IF op = "Plus" THEN "+" ELSE IF op = "Minus" THEN "-" ELSE IF op = "Star" THEN "*"
        ELSE IF op = "Slash" THEN "/" ELSE IF op = "Percent" THEN "%"
        ELSE IF op = "Less" THEN "<" ELSE IF op = "LessEqual" THEN "<="
        ELSE IF op = "Greater" THEN ">" ELSE IF op = "GreaterEqual" THEN ">="
        ELSE IF op = "EqualEqual" THEN "==" ELSE IF op = "BangEqual" THEN "!="
        ELSE IF op = "AmpAmp" THEN "&&" ELSE IF op = "PipePipe" THEN "||" ELSE "!"]

\* The pattern of an arm, as far as it can bind its payload.
RECURSIVE PatternOf(_)
PatternOf(pattern) ==
    IF pattern.kind = "NoPattern" THEN [pk |-> "none"]
    ELSE IF pattern.kind = "Binding"
    THEN IF pattern.parts[1].text = <<"_">> THEN [pk |-> "wild"]
         ELSE [pk |-> "identifier", name |-> Spelled(pattern.parts[1].text)]
    ELSE IF pattern.kind = "Variant"
    THEN [pk |-> "variant", inner |-> PatternOf(pattern.parts[2])]
    ELSE [pk |-> "other"]

\* resolve_variant_index and the id of the enum.
VariantIndex(name) ==
    VariantOf(tables.enums[BeforeDot(name)].variants, AfterDot(name)) - 1

RECURSIVE Annotated(_)
Parts(path, i) ==
    [j \in DOMAIN At(path).parts[i].parts |-> Annotated(path \o <<i, j>>)]
PartOrNothing(path, i) ==
    IF At(path).parts[i] = Absent THEN Nothing ELSE Annotated(Part(path, i))

ArmOf(match, i) ==
    LET arm == At(match).parts[2].parts[i]
        path == match \o <<2, i>>
        info == facts.matches[match].arms[i]
    IN [variant |-> Spelled(arm.parts[1].text), enumId |-> info.enum_id,
        variantId |-> info.variant_id, payload |-> info.payload.kind # "Unknown",
        pattern |-> PatternOf(arm.parts[2]), guard |-> PartOrNothing(path, 3),
        body |-> Annotated(Part(path, 4))]

\* std::stoll reads the digits in front, and vector_literal_data the elements.
Overlong(leaf) ==
    /\ leaf.kind \notin {"True", "False", "String"}
    /\ Len(IF IsDotted(leaf.text) THEN BeforeDot(leaf.text) ELSE leaf.text) > MaxDigits
LiteralOf(leaf) ==
    IF leaf.kind \in {"True", "False"} THEN "bool"
    ELSE IF leaf.kind = "String" THEN "string"
    ELSE IF Overlong(leaf) THEN "overlong" ELSE "number"
DataOf(path) ==
    IF path \notin facts.vectors THEN "missing"
    ELSE IF At(path).parts[1].parts = <<>> THEN "empty" ELSE "elements"

Expression(path, node) ==
    LET kind == node.kind
        part(i) == Annotated(Part(path, i))
        name == Spelled(node.parts[1].text)
        ty == Typed(path)
    IN IF kind = "Literal"
       THEN [k |-> "literal", ty |-> ty, of |-> LiteralOf(node.parts[1]),
             whole |-> IF node.parts[1].kind = "False" THEN 0 ELSE 1]
       ELSE IF kind = "Variable"
       THEN [k |-> "var", ty |-> ty, name |-> name,
             base |-> IF IsDotted(node.parts[1].text)
                      THEN Spelled(BeforeDot(node.parts[1].text)) ELSE Nothing]
       ELSE IF kind = "Binary"
       THEN [k |-> IF node.parts[2].kind \in {"AmpAmp", "PipePipe"} THEN "logical" ELSE "binary",
             op |-> Operator[node.parts[2].kind], left |-> part(1), right |-> part(3), ty |-> ty]
       ELSE IF kind = "Unary"
       THEN [k |-> "unary", op |-> Operator[node.parts[1].kind], right |-> part(2), ty |-> ty]
       ELSE IF kind \in {"Grouping", "FieldAccess"}
       THEN [k |-> "group", e |-> part(1), ty |-> ty]
       ELSE IF kind = "Assign"
       THEN [k |-> "assign", name |-> name, value |-> part(2), ty |-> ty]
       ELSE IF kind = "Call"
       THEN [k |-> "call", name |-> Spelled(CalleeName(path)), args |-> Parts(path, 2), ty |-> ty]
       ELSE IF kind = "RecordLiteral"
       THEN [k |-> "record", ty |-> ty,
             fields |-> [i \in DOMAIN node.parts[2].parts |-> Annotated(path \o <<2, i, 2>>)]]
       ELSE IF kind = "EnumLiteral"
       THEN [k |-> "enum", enumId |-> tables.enums[BeforeDot(node.parts[1].text)].id,
             variantId |-> VariantIndex(node.parts[1].text),
             payload |-> PartOrNothing(path, 2), ty |-> ty]
       ELSE IF kind = "Match"
       THEN [k |-> "match", scrutinee |-> part(1), ty |-> ty,
             meta |-> IF facts.matches[path].kind = "Custom" THEN "Enum"
                      ELSE facts.matches[path].kind,
             arms |-> [i \in DOMAIN node.parts[2].parts |-> ArmOf(path, i)]]
       ELSE [k |-> "vector", data |-> DataOf(path), ty |-> ty]

Statement(path, node) ==
    LET kind == node.kind
        part(i) == Annotated(Part(path, i))
    IN IF kind = "Expression" THEN [k |-> "expr", e |-> part(1)]
       ELSE IF kind \in {"Var", "Let"}
       THEN [k |-> "bind", name |-> Spelled(node.parts[1].text), init |-> PartOrNothing(path, 3)]
       ELSE IF kind = "Block" THEN [k |-> "block", body |-> Parts(path, 1)]
       ELSE IF kind = "If"
       THEN [k |-> "if", cond |-> part(1), then |-> part(2), otherwise |-> PartOrNothing(path, 3)]
       ELSE IF kind = "While" THEN [k |-> "while", cond |-> part(1), body |-> part(2)]
       ELSE IF kind = "Loop"
       THEN [k |-> "loop", body |-> Parts(path, 2),
             guard |-> IF node.parts[1].kind = "Guarded" THEN Annotated(path \o <<1, 1>>)
                       ELSE Nothing]
       ELSE IF kind = "Return" THEN [k |-> "return", value |-> PartOrNothing(path, 1)]
       ELSE [k |-> IF kind = "Break" THEN "break" ELSE "continue"]

\* A type, a record or an enum is declared once the analyzer knows its name.
Declaration(path, node) ==
    LET kind == node.kind
        name == node.parts[2].text
        known == \/ kind = "Record" /\ name \in DOMAIN tables.records
                 \/ kind = "Enum" /\ name \in DOMAIN tables.enums
    IN IF kind = "Function"
       THEN [k |-> "fn", name |-> Spelled(name), body |-> Parts(path, 5)]
       ELSE [k |-> "declaration",
             name |-> IF kind = "Type" THEN Spelled(node.parts[1].text)
                      ELSE IF known THEN Spelled(name) ELSE Nothing]

Annotated(path) ==
    LET node == At(path) IN
    IF node.kind \in {"Function", "Module", "Import", "Type", "Record", "Enum"}
    THEN Declaration(path, node)
    ELSE IF node.kind \in {"Expression", "Var", "Let", "Block", "If", "While", "Loop", "Return",
                           "Break", "Continue"}
    THEN Statement(path, node)
    ELSE Expression(path, node)

-----------------------------------------------------------------------------

PipelineInit == AnalyzerInit /\ Generator!Init

Analyze == AnalyzerNext /\ UNCHANGED generatorVars

\* A unit with an error is not lowered.
HandOver ==
    /\ Accepts /\ program = <<>>
    /\ program' = [i \in DOMAIN tree.parts |-> Annotated(<<i>>)]
    /\ work' = Generator!VisitAll(program')
    /\ UNCHANGED <<analyzerVars, code, pools, regs, labels, vals, env, loops, scopes, calls,
                   status>>

Lower == program # <<>> /\ Generator!Next /\ UNCHANGED analyzerVars

PipelineNext == Analyze \/ HandOver \/ Lower
PipelineSpec == PipelineInit /\ [][PipelineNext]_pipelineVars /\ WF_pipelineVars(PipelineNext)

-----------------------------------------------------------------------------

\* What is lowered: of the functions, main alone has its body visited.
IsLowered(path) ==
    /\ \A f \in FunctionAround(path) : At(f).parts[2].text = <<"main">>
    /\ Around(path, {"Vector", "GenericType"}) = {}
Callees == {Part(call, 1) : call \in AllOf({"Call"})}

\* The names in the generator's flat map when it comes to a name: those given
\* a value before, and what the arms around it take out whole.
Held(path) ==
    LET texts(kinds, there(_)) == {At(d).parts[1].text : d \in {e \in AllOf(kinds) : there(e)}}
        IsBefore(d) == Precedes(d, path) /\ IsLowered(d)
        IsAround(d) == Inside(path, d)
        Whole(arm) ==
            LET pattern == At(arm).parts[2] IN
            IF pattern.kind = "Variant" THEN pattern.parts[2] ELSE pattern
    IN texts({"Var", "Let", "Assign"}, IsBefore)
       \cup UNION {IF Whole(arm).kind = "Binding" THEN PatternNames(Whole(arm)) ELSE {} :
                      arm \in {a \in AllOf({"Arm"}) : IsAround(a)}}
HasNoRegister(path) ==
    LET name == At(path).parts[1].text IN
    /\ name \notin Held(path) \cup {<<"None">>}
    /\ IsDotted(name) => BeforeDot(name) \notin Held(path)

\* What the analyzer accepts and the generator throws at: the operator !, the use
\* of a name it holds no register for, a vector without elements, and a number
\* that std::stoll cannot hold.
Unimplemented ==
    \E path \in AllOf({"Unary", "Variable", "Vector", "Literal"}) \ Callees :
        /\ IsLowered(path)
        /\ LET node == At(path) IN
           \/ node.kind = "Unary" /\ node.parts[1].kind = "Bang"
           \/ /\ node.kind = "Variable" /\ HasNoRegister(path)
              /\ At(Front(path)).kind # "Expression"
           \/ node.kind = "Vector" /\ node.parts[1].parts = <<>>
           \/ node.kind = "Literal" /\ Overlong(node.parts[1])


\* The generator lowers every program the analyzer accepts.
LoweringIsTotal == status # "threw"
=============================================================================
