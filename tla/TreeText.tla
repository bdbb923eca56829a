------------------------------ MODULE TreeText ------------------------------
(* The text a syntax tree stands for, as the sequence of its lexemes.         *)
EXTENDS Integers, SequencesExt, Syntax

\* The pieces one after the other, a separator between each two.
Separated(pieces, separator) ==
    IF pieces = <<>> THEN <<>>
    ELSE FlattenSeq(<<pieces[1]>> \o
                    [i \in 1..(Len(pieces) - 1) |-> separator \o pieces[i + 1]])

W(word) == <<<<word>>>>        \* one lexeme of one character
Comma == W(",")
Semicolon == W(";")

RECURSIVE Unparse(_)
Unparse(tree) ==
    LET P(i) == Unparse(tree.parts[i])
        Elements(list) == [i \in 1..Len(list.parts) |-> Unparse(list.parts[i])]
        Commas(i) == Separated(Elements(tree.parts[i]), Comma)
        Braced(i) == W("{") \o FlattenSeq(Elements(tree.parts[i])) \o W("}")
        Parens(s) == W("(") \o s \o W(")")
        Given(before, i, after) ==
            IF tree.parts[i] = Absent THEN <<>> ELSE before \o P(i) \o after
        Pairs(list, middle, after) ==
            FlattenSeq([i \in 1..Len(list.parts) |->
                Unparse(list.parts[i].parts[1]) \o middle
                \o Unparse(list.parts[i].parts[2]) \o after])
        Is(kind) == tree.kind = kind
    IN
    CASE Is("Absent") -> <<>>
      [] IsLeaf(tree) -> <<tree.text>>
      [] Is("Literal") \/ Is("Variable") \/ Is("Binding") \/ Is("SimpleType") -> P(1)
      [] Is("Binary") -> P(1) \o P(2) \o P(3)
      [] Is("Unary") -> P(1) \o P(2)
      [] Is("Grouping") -> Parens(P(1))
      [] Is("Vector") -> W("[") \o Commas(1) \o W("]")
      [] Is("Call") -> P(1) \o Parens(Commas(2))
      [] Is("FieldAccess") -> P(1) \o W(".") \o P(2)
      [] Is("RecordLiteral") -> P(1) \o W("{") \o Commas(2) \o W("}")
      [] Is("Pair") -> P(1) \o W(":") \o P(2)
      [] Is("EnumLiteral") -> P(1) \o Given(W("("), 2, W(")"))
      [] Is("Assign") -> P(1) \o W("=") \o P(2)
      [] Is("Match") -> W("match") \o Parens(P(1)) \o W("{") \o Commas(2) \o W("}")
      [] Is("Arm") -> P(1) \o (IF tree.parts[2] = NoPattern THEN <<>> ELSE Parens(P(2)))
                      \o Given(W("if"), 3, <<>>) \o <<<<"=", ">">>>> \o P(4)
      [] Is("NoPattern") -> <<>>
      [] Is("Tuple") -> Commas(1)
      [] Is("RecordPattern") ->     \* a field bound to its own name is written once
            W("{") \o Separated([i \in 1..Len(tree.parts[1].parts) |->
                LET b == tree.parts[1].parts[i].parts
                IN IF b[1] = b[2] THEN Unparse(b[1]) ELSE Unparse(tree.parts[1].parts[i])],
                Comma) \o W("}")
      [] Is("Variant") -> P(1) \o Parens(P(2))
      [] Is("GenericType") -> P(1) \o W("[") \o Commas(2) \o W("]")
      [] Is("Expression") -> P(1) \o Semicolon
      [] Is("Var") \/ Is("Let") ->
            W(IF Is("Var") THEN "var" ELSE "let") \o P(1) \o Given(W(":"), 2, <<>>)
            \o Given(W("="), 3, <<>>) \o Semicolon
      [] Is("Block") -> Braced(1)
      [] Is("If") -> W("if") \o Parens(P(1)) \o P(2) \o Given(W("else"), 3, <<>>)
      [] Is("While") -> W("while") \o Parens(P(1)) \o P(2)
      [] Is("Return") -> W("return") \o P(1) \o Semicolon
      [] Is("Break") -> W("break") \o Semicolon
      [] Is("Continue") -> W("continue") \o Semicolon
      [] Is("NoBound") -> <<>>
      [] Is("Infinite") -> W("@") \o W("bounded") \o Parens(W("infinite"))
      [] Is("Static") -> W("@") \o W("bounded") \o Parens(P(1))
      [] Is("Guarded") -> W("@") \o W("bounded") \o Parens(W("loop") \o Parens(P(1)))
      [] Is("Loop") -> P(1) \o W("loop") \o Braced(2)
      [] Is("Attributes") ->
            Given(W("@"), 1, <<>>) \o Given(W("@") \o W("tier") \o W("("), 2, W(")"))
      [] Is("Function") -> P(1) \o W("fn") \o P(2) \o Parens(Commas(3))
                           \o Given(<<<<"-", ">">>>>, 4, <<>>) \o Braced(5)
      [] Is("Module") -> W("module") \o P(1) \o Semicolon
      [] Is("Import") -> W("import") \o P(1) \o Semicolon
      [] Is("Type") ->
            W("type") \o P(1)
            \o (IF tree.parts[2] = List(<<>>) THEN <<>>
                ELSE W("[") \o Commas(2) \o W("]"))
            \o W("=") \o P(3) \o Semicolon
      [] Is("Structural") ->
            Given(W("@") \o W("schema") \o W("("), 1, W(")"))
            \o Given(W("@") \o W("module") \o W("("), 2, W(")"))
      [] Is("Record") ->
            P(1) \o W("record") \o P(2) \o W("{")
            \o Pairs(tree.parts[3], W(":"), Semicolon) \o W("}") \o Semicolon
      [] Is("Enum") ->
            P(1) \o W("enum") \o P(2) \o W("{")
            \o FlattenSeq([i \in 1..Len(tree.parts[3].parts) |->
                  LET v == tree.parts[3].parts[i] IN
                  Unparse(v.parts[1])
                  \o (IF v.parts[2] = Absent THEN <<>> ELSE Parens(Unparse(v.parts[2])))
                  \o Semicolon])
            \o W("}") \o Semicolon
      [] Is("List") -> FlattenSeq([i \in 1..Len(tree.parts) |-> P(i)])

\* All nodes of a tree.
RECURSIVE Nodes(_)
Nodes(tree) ==
    {tree} \cup (IF IsNode(tree)
                 THEN UNION {Nodes(tree.parts[i]) : i \in 1..Len(tree.parts)}
                 ELSE {})
=============================================================================
