------------------------------ MODULE Grammar -------------------------------
(* The rules of the recursive-descent parser, one per function of parser.cpp  *)
(* and one per loop of it, as the items of work the function does in order.   *)
(* The items themselves are explained, and done, in Parser.                   *)
EXTENDS Integers, TLC, SequencesExt, Syntax

CONSTANTS MaxParameters,   \* parameters of a function (255)
          MaxGeneric       \* parameters of a generic type (8)

Expect(type) == [op |-> "consume", type |-> type, keep |-> FALSE]
Keep(type) == [op |-> "consume", type |-> type, keep |-> TRUE]
Call(rule) == [op |-> "call", rule |-> rule]
Build(kind, n) == [op |-> "build", kind |-> kind, n |-> n]
Push(tree) == [op |-> "push", tree |-> tree]
Drop(n) == [op |-> "drop", n |-> n]
AppendToList == [op |-> "append"]
Report == [op |-> "report"]
Throw == [op |-> "throw"]
LookAhead == [op |-> "look"]
Synchronize == [op |-> "synchronize"]
Catch(height) == [op |-> "catch", height |-> height]
When(test, yes, no) == [op |-> "when", test |-> test, yes |-> yes, no |-> no]

\* A choice by the current token: the first alternative whose types hold it.
Switch(alternatives, otherwise) ==
    [op |-> "switch", alternatives |-> alternatives, otherwise |-> otherwise]
Match(types, items) == [types |-> types, takes |-> "token", items |-> items]
MatchKeep(types, items) == [types |-> types, takes |-> "leaf", items |-> items]
Check(types, items) == [types |-> types, takes |-> "nothing", items |-> items]
\* if (match(types)) items
Optional(types, items) == Switch(<<Match(types, items)>>, <<>>)
\* if (match(types)) items; otherwise the pointer stays null
OrAbsent(types, items) == Switch(<<Match(types, items)>>, <<Push(Absent)>>)
\* if (!check(type)) items
Unless(type, items) == Switch(<<Check({type}, <<>>)>>, items)

Reads(word) == [is |-> "reads", words |-> {word}]
\* A fault for the runs to see: a list may grow one past its limit.
PastFull(limit) == [is |-> "full", limit |-> limit + 1]
Full(limit) == [is |-> "full", limit |-> limit]
IsPositive == [is |-> "positive"]
IsNumber == [is |-> "number"]
IsEnumName == [is |-> "enumName"]
IsTarget == [is |-> "target"]
IsAttribute(words) == [is |-> "attribute", words |-> words]
HasPart(part) == [is |-> "part", part |-> part]
HasAttributes(below) == [is |-> "attributes", below |-> below]
IsResultError == [is |-> "resultError"]

None == List(<<>>)
NoAttributes == FunctionAttributes(Absent, Absent)
NoStructural == StructuralAttributes(Absent, Absent)

TypeStart == {"Identifier", "I32", "I16", "I8", "I2", "Bool", "Void", "T81BigInt",
              "T81Float", "T81Fraction", "Vector", "Matrix", "Tensor", "Graph"}

\* parse: declarations up to the end of the text.
Program == <<
    Switch(<<Check({"Eof"}, <<>>)>>,
           <<Call("declaration"), AppendToList, Call("parse")>>)>>

-----------------------------------------------------------------------------
(* Declarations.                                                              *)

\* Both kinds of attributes are read before every declaration, and looked at
\* again only when it is none of the first five.
Declaration == <<
    Push(NoStructural), Call("structuralAttributes"),
    Push(NoAttributes), Call("functionAttributes"),
    Switch(<<
        Match({"Module"}, <<Drop(2), Call("path"), Expect("Semicolon"), Build("Module", 1)>>),
        Match({"Import"}, <<Drop(2), Call("path"), Expect("Semicolon"), Build("Import", 1)>>),
        Match({"Type"}, <<Drop(2), Call("typeDeclaration")>>),
        Match({"Record"}, <<Drop(1), Call("recordDeclaration")>>),
        Match({"Enum"}, <<Drop(1), Call("enumDeclaration")>>)>>,
      <<When(HasAttributes(1), <<Report>>, <<>>),
        Switch(<<Match({"Fn"}, <<Call("function")>>)>>,
          <<When(HasAttributes(0), <<Report>>, <<>>), Drop(2),
            Switch(<<Match({"Var"}, <<Call("varDeclaration")>>),
                     Match({"Let"}, <<Call("letDeclaration")>>)>>,
              <<Call("statement")>>)>>)>>)>>

Path == <<Keep("Identifier"), Call("pathSegments")>>
PathSegments == <<
    Optional({"Dot"}, <<Keep("Identifier"), Build("Path", 2), Call("pathSegments")>>)>>

\* One @schema or @module after the other, told from others by a look ahead.
StructuralRule == <<
    Switch(<<Check({"At"}, <<
        LookAhead,
        When(IsAttribute({"schema", "module"}),
          <<Expect("At"), Keep("Identifier"), Expect("LParen"),
            When(Reads("schema"), <<Drop(1), Call("schema")>>, <<Drop(1), Call("moduleOf")>>),
            Expect("RParen"), Call("structuralAttributes")>>,
          <<>>)>>)>>,
      <<>>)>>
SchemaRule == <<
    When(HasPart(1), <<Report>>, <<>>),
    Keep("Integer"),
    When(IsPositive, <<Build("WithSchema", 2)>>, <<Report, Drop(1)>>)>>
ModuleOfRule == <<
    When(HasPart(2), <<Report>>, <<>>), Call("path"), Build("WithModule", 2)>>

\* @effect and @tier; the last tier counts.
FunctionAttributesRule == <<
    Switch(<<Check({"At"}, <<
        LookAhead,
        When(IsAttribute({"effect", "tier"}),
          <<Expect("At"), Keep("Identifier"),
            When(Reads("effect"), <<Build("WithEffect", 2)>>,
              <<Drop(1), Expect("LParen"), Keep("Integer"), Expect("RParen"),
                When(IsPositive, <<Build("WithTier", 2)>>, <<Report, Drop(1)>>)>>),
            Call("functionAttributes")>>,
          <<>>)>>)>>,
      <<>>)>>

Function == <<
    Keep("Identifier"), Expect("LParen"), Push(None),
    Unless("RParen", <<Call("parameters")>>), Expect("RParen"),
    OrAbsent({"Arrow"}, <<Call("type")>>),
    Expect("LBrace"), Call("block"), Build("Function", 6)>>
Parameters == <<
    When(Full(MaxParameters), <<Report>>, <<>>),
    Keep("Identifier"), Expect("Colon"), Call("type"), Build("Pair", 2), AppendToList,
    Optional({"Comma"}, <<Call("parameters")>>)>>

TypeDeclaration == <<
    Keep("Identifier"), Push(None),
    Optional({"LBracket"}, <<Call("typeParameters"), Expect("RBracket")>>),
    Expect("Equal"), Call("type"), Expect("Semicolon"), Build("Type", 3)>>
TypeParameters == <<
    When(Full(MaxGeneric), <<Report>>,
      <<Keep("Identifier"), AppendToList,
        Optional({"Comma"}, <<Call("typeParameters")>>)>>)>>

\* A fault for the runs to see: the attributes are left behind.
RecordWithoutAttributes == <<
    Keep("Identifier"), Expect("LBrace"), Push(None), Call("fields"),
    Expect("RBrace"), Expect("Semicolon"), Push(NoStructural), Build("Record", 3)>>
RecordDeclaration == <<
    Keep("Identifier"), Expect("LBrace"), Push(None), Call("fields"),
    Expect("RBrace"), Expect("Semicolon"), Build("Record", 3)>>
Fields == <<
    Switch(<<Check({"RBrace", "Eof"}, <<>>)>>,
      <<Keep("Identifier"), Expect("Colon"), Call("type"), Expect("Semicolon"),
        Build("Pair", 2), AppendToList, Call("fields")>>)>>

EnumDeclaration == <<
    Keep("Identifier"), Expect("LBrace"), Push(None), Call("variants"),
    Expect("RBrace"), Expect("Semicolon"), Build("Enum", 3)>>
Variants == <<
    Switch(<<Check({"RBrace", "Eof"}, <<>>)>>,
      <<Keep("Identifier"), OrAbsent({"LParen"}, <<Call("type"), Expect("RParen")>>),
        Expect("Semicolon"), Build("Pair", 2), AppendToList, Call("variants")>>)>>

VarDeclaration == <<
    Keep("Identifier"), OrAbsent({"Colon"}, <<Call("type")>>),
    OrAbsent({"Equal"}, <<Call("expression")>>), Expect("Semicolon"), Build("Var", 3)>>
\* A fault for the runs to see: the declared type is read and forgotten.
LetWithoutType == <<
    Keep("Identifier"), OrAbsent({"Colon"}, <<Call("type"), Drop(1), Push(Absent)>>),
    Expect("Equal"), Call("expression"), Expect("Semicolon"), Build("Let", 3)>>
LetDeclaration == <<
    Keep("Identifier"), OrAbsent({"Colon"}, <<Call("type")>>),
    Expect("Equal"), Call("expression"), Expect("Semicolon"), Build("Let", 3)>>

-----------------------------------------------------------------------------
(* Statements.                                                                *)

Condition == <<Expect("LParen"), Call("expression"), Expect("RParen")>>

Statement == <<
    Switch(<<
        Match({"If"}, Condition \o
            <<Call("statement"), OrAbsent({"Else"}, <<Call("statement")>>), Build("If", 3)>>),
        Match({"While"}, Condition \o <<Call("statement"), Build("While", 2)>>),
        Check({"At", "Loop"}, <<Call("loop")>>),
        Match({"Break"}, <<Expect("Semicolon"), Build("Break", 0)>>),
        Match({"Continue"}, <<Expect("Semicolon"), Build("Continue", 0)>>),
        Match({"Return"},
          <<Switch(<<Check({"Semicolon"}, <<Push(Absent)>>)>>, <<Call("expression")>>),
            Expect("Semicolon"), Build("Return", 1)>>),
        Match({"LBrace"}, <<Call("block"), Build("Block", 1)>>)>>,
      <<Call("expression"), Expect("Semicolon"), Build("Expression", 1)>>)>>

Block == <<Push(None), Call("statements"), Expect("RBrace")>>
Statements == <<
    Switch(<<Check({"RBrace", "Eof"}, <<>>)>>,
           <<Call("declaration"), AppendToList, Call("statements")>>)>>

Loop == <<
    Switch(<<Match({"At"}, <<Call("annotation")>>)>>, <<Push(NoBound)>>),
    Expect("Loop"), Expect("LBrace"), Call("block"), Build("Loop", 2)>>
Annotation == <<
    Keep("Identifier"), When(Reads("bounded"), <<>>, <<Report>>), Drop(1),
    Expect("LParen"),
    Switch(<<
        MatchKeep({"Identifier", "Loop"},
          <<When(Reads("infinite"), <<Drop(1), Push(InfiniteBound)>>,
              <<When(Reads("loop"), <<Drop(1)>> \o Condition \o <<Build("Guarded", 1)>>,
                  <<Drop(1), Report, Push(NoBound)>>)>>)>>),
        MatchKeep({"Integer"},
          <<When(IsNumber, <<>>, <<Report, Drop(1), Push(Absent)>>), Build("Static", 1)>>)>>,
      <<Report, Push(NoBound)>>),
    Expect("RParen")>>

-----------------------------------------------------------------------------
(* Expressions.                                                               *)

Expression == <<
    Call("logicalOr"),
    Optional({"Equal"},
      <<Call("expression"), When(IsTarget, <<Build("Assign", 2)>>, <<Report, Drop(1)>>)>>)>>

\* The levels of the binary operators: the function of each, its loop, the
\* function it reads operands with, its operators.
Levels == <<
    [rule |-> "logicalOr", loop |-> "orLoop", operand |-> "logicalAnd",
     types |-> {"PipePipe"}],
    [rule |-> "logicalAnd", loop |-> "andLoop", operand |-> "equality",
     types |-> {"AmpAmp"}],
    [rule |-> "equality", loop |-> "equalityLoop", operand |-> "comparison",
     types |-> {"BangEqual", "EqualEqual"}],
    [rule |-> "comparison", loop |-> "comparisonLoop", operand |-> "term",
     types |-> {"Greater", "GreaterEqual", "Less", "LessEqual"}],
    [rule |-> "term", loop |-> "termLoop", operand |-> "factor",
     types |-> {"Minus", "Plus"}],
    [rule |-> "factor", loop |-> "factorLoop", operand |-> "unary",
     types |-> {"Slash", "Star", "Percent"}]>>

Operand(level) == <<Call(level.operand), Call(level.loop)>>
\* A fault for the runs to see: the right operand takes the rest of the level.
JoinFromTheRight(level) == <<
    Switch(<<MatchKeep(level.types, <<Call(level.rule), Build("Binary", 3)>>)>>, <<>>)>>
\* What was read so far is the left operand of the next operator of the level.
JoinFromTheLeft(level) == <<
    Switch(<<MatchKeep(level.types,
        <<Call(level.operand), Build("Binary", 3), Call(level.loop)>>)>>, <<>>)>>

Unary == <<
    Switch(<<MatchKeep({"Bang", "Minus"}, <<Call("unary"), Build("Unary", 2)>>)>>,
           <<Call("primary")>>)>>

Primary == <<
    Switch(<<
        Match({"Match"}, <<Call("match")>>),
        MatchKeep({"False", "True", "Integer", "Float", "String"}, <<Build("Literal", 1)>>),
        Match({"LBracket"},
          <<Push(None), Unless("RBracket", <<Call("expressions")>>),
            Expect("RBracket"), Build("Vector", 1)>>),
        Match({"LParen"}, <<Call("expression"), Expect("RParen"), Build("Grouping", 1)>>),
        MatchKeep({"Identifier"}, <<Call("name")>>)>>,
      <<Report, Throw>>)>>
Expressions == <<
    Call("expression"), AppendToList, Optional({"Comma"}, <<Call("expressions")>>)>>

\* What follows a name says what it names.
Name == <<
    When(IsEnumName,
      <<OrAbsent({"LParen"}, <<Call("expression"), Expect("RParen")>>),
        Build("EnumLiteral", 2)>>,
      <<Switch(<<
          Check({"LBracket"}, <<Call("genericType")>>),
          Match({"LBrace"}, <<Call("recordLiteral")>>),
          Match({"LParen"},
            <<Build("Variable", 1), Push(None), Unless("RParen", <<Call("expressions")>>),
              Expect("RParen"), Build("Call", 2), Call("fieldAccesses")>>)>>,
        <<Build("Variable", 1), Call("fieldAccesses")>>)>>)>>
FieldAccesses == <<
    Optional({"Dot"},
      <<Keep("Identifier"), Build("FieldAccess", 2), Call("fieldAccesses")>>)>>

RecordLiteral == <<
    Push(None), Unless("RBrace", <<Call("recordValues")>>),
    Expect("RBrace"), Build("RecordLiteral", 2)>>
RecordValues == <<
    Keep("Identifier"), Expect("Colon"), Call("expression"), Build("Pair", 2),
    AppendToList, Optional({"Comma", "Semicolon"}, <<Call("recordValues")>>)>>

MatchRule == Condition \o
    <<Expect("LBrace"), Push(None), Call("arms"), Expect("RBrace"), Build("Match", 2)>>
Arms == <<
    Switch(<<Check({"RBrace", "Eof"}, <<>>)>>,
      <<Call("arm"), AppendToList, Optional({"Semicolon", "Comma"}, <<Call("arms")>>)>>)>>
Arm == <<
    Keep("Identifier"), Push(NoPattern),
    Optional({"LParen"},
      <<Unless("RParen", <<Drop(1), Call("pattern")>>), Expect("RParen")>>),
    OrAbsent({"If"}, <<Call("expression")>>),
    Expect("FatArrow"), Call("expression"), Build("Arm", 4)>>

\* The payload of a nested variant is never null: the name of an empty pattern
\* is a default token, whose type is the first of the enumeration, Module.
Pattern == <<
    Switch(<<
        Match({"LBrace"},
          <<Push(None), Unless("RBrace", <<Call("bindings")>>),
            Expect("RBrace"), Build("RecordPattern", 1)>>),
        MatchKeep({"Identifier"},
          <<Switch(<<
              Match({"LParen"},
                <<Push(NoPattern), Unless("RParen", <<Drop(1), Call("pattern")>>),
                  Expect("RParen"), Build("Variant", 2)>>),
              Match({"Comma"}, <<Build("List", 1), Call("names"), Build("Tuple", 1)>>)>>,
            <<Build("Binding", 1)>>)>>)>>,
      <<Report, Push(NoPattern)>>)>>
Names == <<Keep("Identifier"), AppendToList, Optional({"Comma"}, <<Call("names")>>)>>
Bindings == <<
    Keep("Identifier"),
    Switch(<<Match({"Colon"}, <<Keep("Identifier"), Build("Pair", 2)>>)>>,
           <<Build("SameName", 1)>>),
    AppendToList, Optional({"Comma", "Semicolon"}, <<Call("bindings")>>)>>

-----------------------------------------------------------------------------
(* Types.                                                                     *)

TypeRule == <<
    Switch(<<MatchKeep(TypeStart,
        <<Switch(<<Check({"Less"}, <<Report, Drop(1), Push(Absent)>>),
                   Check({"LBracket"}, <<Call("genericType")>>)>>,
                 <<Build("SimpleType", 1)>>)>>)>>,
      <<Report, Push(Absent)>>)>>

\* The first parameter is a type, a later one a type or an expression.
GenericType == <<
    Expect("LBracket"), Push(None), Call("type"), AppendToList, Call("genericParameters")>>
GenericParameters == <<
    Switch(<<Match({"Comma"},
        <<When(Full(MaxGeneric), <<Report, Drop(2), Push(Absent)>>,
            <<When(IsResultError, <<Call("type")>>,
                <<Switch(<<Check(TypeStart, <<Call("type")>>)>>, <<Call("expression")>>)>>),
              AppendToList, Call("genericParameters")>>)>>)>>,
      <<Expect("RBracket"), Build("GenericType", 2)>>)>>

\* The rule each call names.
LevelOf(rule) == CHOOSE level \in Range(Levels) : rule \in {level.rule, level.loop}
LevelRules == {Levels[k].rule : k \in DOMAIN Levels}
LevelLoops == {Levels[k].loop : k \in DOMAIN Levels}
RuleNames ==
    LevelRules \cup LevelLoops \cup {"parse", "declaration", "path",
     "pathSegments", "structuralAttributes", "schema", "moduleOf",
     "functionAttributes", "function", "parameters", "typeDeclaration",
     "typeParameters", "recordDeclaration", "fields", "enumDeclaration",
     "variants", "varDeclaration", "letDeclaration", "statement", "block",
     "statements", "loop", "annotation", "expression", "unary", "primary",
     "expressions", "name", "fieldAccesses", "recordLiteral", "recordValues",
     "match", "arms", "arm", "pattern", "names", "bindings", "type", "genericType",
     "genericParameters"}
Rules == [rule \in RuleNames |->
    CASE rule = "parse" -> Program
      [] rule = "declaration" -> Declaration
      [] rule = "path" -> Path
      [] rule = "pathSegments" -> PathSegments
      [] rule = "structuralAttributes" -> StructuralRule
      [] rule = "schema" -> SchemaRule
      [] rule = "moduleOf" -> ModuleOfRule
      [] rule = "functionAttributes" -> FunctionAttributesRule
      [] rule = "function" -> Function
      [] rule = "parameters" -> Parameters
      [] rule = "typeDeclaration" -> TypeDeclaration
      [] rule = "typeParameters" -> TypeParameters
      [] rule = "recordDeclaration" -> RecordDeclaration
      [] rule = "fields" -> Fields
      [] rule = "enumDeclaration" -> EnumDeclaration
      [] rule = "variants" -> Variants
      [] rule = "varDeclaration" -> VarDeclaration
      [] rule = "letDeclaration" -> LetDeclaration
      [] rule = "statement" -> Statement
      [] rule = "block" -> Block
      [] rule = "statements" -> Statements
      [] rule = "loop" -> Loop
      [] rule = "annotation" -> Annotation
      [] rule = "expression" -> Expression
      [] rule = "unary" -> Unary
      [] rule = "primary" -> Primary
      [] rule = "expressions" -> Expressions
      [] rule = "name" -> Name
      [] rule = "fieldAccesses" -> FieldAccesses
      [] rule = "recordLiteral" -> RecordLiteral
      [] rule = "recordValues" -> RecordValues
      [] rule = "match" -> MatchRule
      [] rule = "arms" -> Arms
      [] rule = "arm" -> Arm
      [] rule = "pattern" -> Pattern
      [] rule = "names" -> Names
      [] rule = "bindings" -> Bindings
      [] rule = "type" -> TypeRule
      [] rule = "genericType" -> GenericType
      [] rule = "genericParameters" -> GenericParameters
      [] rule \in LevelRules -> Operand(LevelOf(rule))
      [] rule \in LevelLoops -> JoinFromTheLeft(LevelOf(rule))]
=============================================================================
