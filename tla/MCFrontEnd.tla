----------------------------- MODULE MCFrontEnd -----------------------------
(* The texts the front end is run on: programs spelled from their trees, with *)
(* comments and line ends between the tokens; the same programs with a token  *)
(* lost, doubled or replaced; and short texts over the characters that matter *)
(* to the lexer.                                                              *)
EXTENDS FrontEndProperties

\* ---- Trees.
X(word) == Leaf("Identifier", <<word>>)
Key(type, word) == Leaf(type, <<word>>)
Op(type, chars) == Leaf(type, chars)
One == LiteralExpr(Leaf("Integer", <<"1">>))
Half == LiteralExpr(Leaf("Float", <<"1", ".", "8">>))
Text == LiteralExpr(Leaf("String", <<"\"", "a", "\n", "/", "/", "\"">>))
True == LiteralExpr(Key("True", "true"))
V(word) == VariableExpr(X(word))
A == V("a")
B == V("b")
Dotted == VariableExpr(Leaf("Identifier", <<"a", ".", "b">>))
Or(l, r) == BinaryExpr(l, Op("PipePipe", <<"|", "|">>), r)
And(l, r) == BinaryExpr(l, Op("AmpAmp", <<"&", "&">>), r)
Same(l, r) == BinaryExpr(l, Op("EqualEqual", <<"=", "=">>), r)
Less(l, r) == BinaryExpr(l, Op("Less", <<"<">>), r)
Least(l, r) == BinaryExpr(l, Op("LessEqual", <<"<", "=">>), r)
Sum(l, r) == BinaryExpr(l, Op("Plus", <<"+">>), r)
Minus(l, r) == BinaryExpr(l, Op("Minus", <<"-">>), r)
Times(l, r) == BinaryExpr(l, Op("Star", <<"*">>), r)
Ratio(l, r) == BinaryExpr(l, Op("Slash", <<"/">>), r)
Not(e) == UnaryExpr(Op("Bang", <<"!">>), e)
Neg(e) == UnaryExpr(Op("Minus", <<"-">>), e)
Red == Leaf("Identifier", <<"Color", ".", "Red">>)
I32 == SimpleTypeExpr(Key("I32", "i32"))
Of(name, params) == GenericTypeExpr(X(name), List(params))
VectorOf == GenericTypeExpr(Key("Vector", "vector"), List(<<I32, Of("Option", <<I32>>), One>>))
Result == Of("Result", <<I32, SimpleTypeExpr(X("Color"))>>)

Exprs == <<
    Sum(A, Times(B, One)), Times(GroupingExpr(Sum(A, B)), One),
    Minus(Minus(A, B), Half), Ratio(Times(A, Neg(B)), A),
    Or(Or(And(A, Same(Less(A, Sum(B, One)), True)), A), B),
    And(Not(Not(A)), Least(Neg(A), B)),
    AssignExpr(X("a"), AssignExpr(X("b"), Or(A, Dotted))),
    CallExpr(A, List(<<>>)),
    FieldAccessExpr(FieldAccessExpr(CallExpr(A, List(<<Text, AssignExpr(X("b"), One)>>)),
                                    X("a")), X("b")),
    VectorLiteralExpr(List(<<>>)), VectorLiteralExpr(List(<<A, Sum(A, B)>>)),
    RecordLiteralExpr(X("Color"), List(<<Pair(X("a"), One), Pair(X("b"), Sum(A, B))>>)),
    EnumLiteralExpr(Red, Absent), EnumLiteralExpr(Red, Times(A, B)),
    Of("Option", <<VectorOf, One>>)>>

MCArms == <<
    MatchArm(X("Some"), BindingPattern(X("a")), Less(A, B), Sum(A, B)),
    MatchArm(X("Some"), TuplePattern(List(<<X("a"), X("b")>>)), Absent, A),
    MatchArm(X("Some"), RecordPattern(List(<<Pair(X("a"), X("b"))>>)), Absent, A),
    MatchArm(X("Some"), VariantPattern(X("Color"),
                            VariantPattern(X("Red"), BindingPattern(X("b")))), True, A),
    MatchArm(X("Some"), VariantPattern(X("Color"), NoPattern), Absent, B),
    MatchArm(X("None"), NoPattern, Absent, One)>>
Matches == [i \in 1..3 |-> MatchExpr(A, List(SubSeq(MCArms, 2 * i - 1, 2 * i)))]

\* ---- Statements and declarations.
Stmts ==
    [i \in 1..Len(Exprs) |-> ExpressionStmt(Exprs[i])]
    \o [i \in 1..Len(Matches) |-> LetStmt(X("b"), Absent, Matches[i])]
    \o <<
    VarStmt(X("a"), Absent, Absent), VarStmt(X("a"), VectorOf, Absent),
    LetStmt(X("b"), Result, Sum(A, One)),
    BlockStmt(List(<<>>)), BlockStmt(List(<<ReturnStmt(Absent), ReturnStmt(A)>>)),
    IfStmt(A, IfStmt(B, ExpressionStmt(A), ExpressionStmt(B)), Absent),
    IfStmt(A, BlockStmt(List(<<BreakStmt>>)), WhileStmt(B, ContinueStmt)),
    LoopStmt(NoBound, List(<<BreakStmt>>)), LoopStmt(InfiniteBound, List(<<>>)),
    LoopStmt(StaticBound(Leaf("Integer", <<"1", "8">>)), List(<<ExpressionStmt(A)>>)),
    LoopStmt(GuardedBound(Less(A, One)), List(<<LetStmt(X("a"), I32, One)>>))>>

Effect == Leaf("Identifier", <<"effect">>)
Digit1 == Leaf("Integer", <<"1">>)
Decls == <<
    ModuleDecl(Leaf("Identifier", <<"a", ".", "b">>)), ImportDecl(X("a")),
    TypeDecl(X("Color"), List(<<>>), Result), TypeDecl(X("Color"), List(<<X("a")>>), I32),
    RecordDecl(NoStructural, X("Color"), List(<<>>)),
    RecordDecl(StructuralAttributes(Digit1, Absent), X("Color"),
               List(<<Pair(X("a"), I32), Pair(X("b"), VectorOf)>>)),
    EnumDecl(NoStructural, X("Color"), List(<<Pair(X("Red"), Absent), Pair(X("b"), I32)>>)),
    EnumDecl(StructuralAttributes(Digit1, Absent), X("Color"), List(<<>>)),
    FunctionStmt(NoAttributes, X("a"), List(<<>>), Absent, List(<<>>)),
    FunctionStmt(FunctionAttributes(Effect, Digit1), X("a"),
                 List(<<Pair(X("a"), I32), Pair(X("b"), Result)>>), I32,
                 List(<<ExpressionStmt(A), ReturnStmt(Sum(A, B))>>)),
    FunctionStmt(FunctionAttributes(Effect, Absent), X("a"), List(<<>>), Absent,
                 List(<<FunctionStmt(NoAttributes, X("b"), List(<<>>), Absent, List(<<>>))>>))>>

Programs ==
    {List(<<s>>) : s \in Range(Stmts) \cup Range(Decls)}
    \cup {List(<<Decls[1], Decls[2], Decls[10], Stmts[1]>>), List(<<>>)}

\* ---- Texts.
\* What stands between a lexeme and the next one.
Between(lexeme) ==
    CASE lexeme = <<"@">> -> <<"\n", "/", "*", "a", "\n", "*", "/">>
      [] lexeme = <<";">> -> <<"/", "/", "a", "\n">>
      [] OTHER -> <<" ">>
Spell(lexemes) == FlattenSeq([i \in 1..Len(lexemes) |-> lexemes[i] \o Between(lexemes[i])])

Spelled == [p \in Programs |-> Spell(Unparse(p))]

Lost(lexemes) == {Spell(RemoveAt(lexemes, i)) : i \in 1..Len(lexemes)}
Replaced(lexemes, by) == {Spell(ReplaceAt(lexemes, i, <<by>>)) : i \in 1..Len(lexemes)}
Cut(lexemes) == {Spell(SubSeq(lexemes, 1, i)) : i \in 1..Len(lexemes)}

Broken == UNION {Lost(Unparse(p)) : p \in Programs}
          \cup UNION {Replaced(Unparse(List(<<Decls[i]>>)), ";") : i \in {4, 6, 7, 10}}
          \cup Cut(Unparse(List(<<Decls[10], Stmts[17]>>)))

\* Texts past a limit of the parser, or refused by a rule of their own.
Spaced(chars) == Spell([i \in 1..Len(chars) |-> <<chars[i]>>])
Refused == {
    Spaced(<<"fn", "a", "(", "a", ":", "i32", ",", "b", ":", "i32", ",", "a", ":", "i32",
             ")", "{", "}">>),
    Spaced(<<"type", "Color", "[", "a", ",", "b", ",", "a", ",", "b", "]", "=", "i32", ";">>),
    Spaced(<<"let", "a", ":", "Option", "[", "i32", ",", "1", ",", "1", ",", "1", "]", "=",
             "a", ";">>),
    Spaced(<<"let", "a", ":", "Result", "[", "i32", ",", "1", "]", "=", "a", ";">>),
    Spaced(<<"let", "a", ":", "Option", "<", "i32", ">", "=", "a", ";">>),
    Spaced(<<"@", "tier", "(", "0", ")", "fn", "a", "(", ")", "{", "}">>),
    <<"@", "tier", "(", "1", "1", "1", ")", "fn", " ", "a", "(", ")", "{", "}">>,
    <<"@", "bounded", "(", "1", "1", "1", ")", "loop", "{", "}">>,
    Spaced(<<"@", "schema", "(", "1", ")", "@", "schema", "(", "1", ")", "record", "a", "{",
             "}", ";">>),
    Spaced(<<"@", "schema", "(", "1", ")", "fn", "a", "(", ")", "{", "}">>),
    Spaced(<<"@", "effect", "let", "a", "=", "1", ";">>),
    Spaced(<<"@", "bounded", "(", "a", ")", "loop", "{", "}">>),
    Spaced(<<"@", "bounded", "(", ")", "loop", "{", "}">>),
    Spaced(<<"@", "a", "(", "1", ")", "loop", "{", "}">>),
    Spaced(<<"a", "+", "b", "=", "1", ";">>),
    <<"1", "t", "8", "1", ";">>}

ShortAlphabet == {"a", "1", ".", "\"", "/", "*", "\n", " ", "=", "@"}
Short == UNION {[1..n -> ShortAlphabet] : n \in 1..3}
         \cup {<<"1", "t", "8", "1", "a">>, <<"1", ".", "8", "t", "8", "1">>,
               <<"1", "t", "8">>, <<"/", "*", "/", "\n", "*", "/", "a">>, <<"?", "&", "|", ">", "=">>}

MCTexts == Range(Spelled) \cup Broken \cup Refused \cup Short
MCDigits == {"1", "8", "0"}
MCLetters ==
    DOMAIN Keywords \cup
    {"a", "b", "t", "Some", "None", "Color", "Red", "Option", "Result", "effect", "tier",
     "schema", "bounded", "infinite"}
MCCapitals == {"Some", "None", "Color", "Red", "Option", "Result"}

\* A text that was spelled from a program is read as that program, up to every
\* limit of the parser, and one past a limit is refused.
ParsesAsMeant ==
    Parsed =>
        /\ \A p \in Programs : Spelled[p] = source => ~had_error /\ Tree = p
        /\ source \in Refused => had_error
=============================================================================
