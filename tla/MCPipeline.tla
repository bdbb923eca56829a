----------------------------- MODULE MCPipeline -----------------------------
(* The programs analyzer and generator are run on: for each kind of check the *)
(* analyzer makes, the combinations of what the check tells apart, in         *)
(* programs it accepts and in programs it refuses.                            *)
EXTENDS Pipeline

\* ---- Trees.
I(word) == Leaf("Identifier", <<word>>)
Join(word, part) == Leaf("Identifier", <<word, ".", part>>)
Op(type) == Leaf(type, <<type>>)
Lit(type, text) == LiteralExpr(Leaf(type, <<text>>))
One == Lit("Integer", "1")
Half == Lit("Float", "1.5")
Text == Lit("String", "text")
Yes == Lit("True", "true")
V(word) == VariableExpr(I(word))
CallTo(callee, args) == CallExpr(VariableExpr(callee), List(args))
Apply(word, args) == CallTo(I(word), args)
Infix(op, l, r) == BinaryExpr(l, Op(op), r)
Sum(l, r) == Infix("Plus", l, r)
Array(elements) == VectorLiteralExpr(List(elements))

T(type) == SimpleTypeExpr(Leaf(type, <<type>>))
Named1(word) == SimpleTypeExpr(I(word))
G(word, params) == GenericTypeExpr(I(word), List(params))
OfWord(type, params) == GenericTypeExpr(Leaf(type, <<type>>), List(params))
I32 == T("I32")
Str == Named1("T81String")

Does(e) == ExpressionStmt(e)
LetIn(word, type, init) == LetStmt(I(word), type, init)
LetBe(word, init) == LetIn(word, Absent, init)
VarBe(word, init) == VarStmt(I(word), Absent, init)
Set(word, value) == AssignExpr(I(word), value)
Body(statements) == BlockStmt(List(statements))
Params(pairs) == List([i \in DOMAIN pairs |-> Pair(I(pairs[i][1]), pairs[i][2])])
Fn(word, params, type, body) ==
    FunctionStmt(FunctionAttributes(Absent, Absent), I(word), Params(params), type, List(body))
EffectFn(word, params, type, body) ==
    FunctionStmt(FunctionAttributes(I("effect"), Absent), I(word), Params(params), type,
                 List(body))
Main(body) == Fn("main", <<>>, I32, body)
Ends == ReturnStmt(One)
RecordOf(word, fields) == RecordDecl(StructuralAttributes(Absent, Absent), I(word), Params(fields))
EnumOf(word, variants) == EnumDecl(StructuralAttributes(Absent, Absent), I(word), Params(variants))
AliasOf(word, params, type) ==
    TypeDecl(I(word), List([i \in DOMAIN params |-> I(params[i])]), type)
Fields(pairs) == List([i \in DOMAIN pairs |-> Pair(I(pairs[i][1]), pairs[i][2])])
Program(statements) == List(statements)

On(word, pattern, guard, e) == MatchArm(I(word), pattern, guard, e)
Plain(word, e) == On(word, NoPattern, Absent, e)
Binds(word, name, e) == On(word, BindingPattern(I(name)), Absent, e)
MatchOf(e, arms) == MatchExpr(e, List(arms))

-----------------------------------------------------------------------------
\* ---- Declared types against initializers.
TypesWritten == {
    Absent, T("I2"), I32, T("T81Fraction"), T("T81Float"), T("Bool"), Str,
    G("Option", <<I32>>), G("Result", <<I32, Str>>), T("Vector"), OfWord("Vector", <<I32, One>>),
    OfWord("Tensor", <<T("I8")>>), Named1("Point")}
Values == {
    One, Half, Yes, Text, Array(<<>>), Array(<<One, Half>>), Apply("small", <<>>), Apply("Some", <<One>>),
    Apply("None", <<>>), Apply("Ok", <<Apply("small", <<>>)>>), Apply("Err", <<Text>>),
    RecordLiteralExpr(I("Point"), Fields(<<<<"x", One>>>>))}
Initialized(type, value) ==
    Program(<<RecordOf("Point", <<<<"x", I32>>>>),
              Fn("small", <<>>, T("I2"), <<>>), Main(<<LetIn("it", type, value)>>)>>)

\* ---- Operands.
Operands == {"I2", "I32", "T81Fraction", "T81Float", "Bool"}
Operators == {"Plus", "Percent", "EqualEqual", "Less", "AmpAmp"}
Operated(op, l, r) ==
    Program(<<Fn("l", <<>>, T(l), <<>>), Fn("r", <<>>, T(r), <<>>),
              Main(<<Does(Infix(op, Apply("l", <<>>), Apply("r", <<>>)))>>)>>)
\* A value that was computed, kept as another type and used again.
FractionAsFloat == <<"T81Fraction", "T81Float">>
Kept(from, to, with) ==
    Program(<<Fn("v", <<>>, T(from), <<>>), LetIn("x", T(to), Sum(Apply("v", <<>>), Apply("v", <<>>))),
              Does(Sum(V("x"), with)), Does(Set("x", UnaryExpr(Op("Minus"), V("x"))))>>)

\* ---- Scopes: a name declared and used where it may, or may not, be seen.
Uses == {Does(V("n")), Does(Set("n", One)), LetBe("m", V("n"))}
Places(use) == {
    Program(<<Main(<<use, LetBe("n", One), Ends>>)>>),
    Program(<<Main(<<LetBe("n", One), Body(<<LetBe("n", Yes), LetBe("k", V("n"))>>), use, Ends>>)>>),
    Program(<<Main(<<Body(<<LetBe("n", One)>>), use, Ends>>)>>),
    Program(<<Main(<<LetBe("n", V("n")), use, Ends>>)>>),
    Program(<<Main(<<LoopStmt(InfiniteBound, List(<<LetBe("n", One), use, BreakStmt>>)), Ends>>)>>),
    Program(<<LetBe("n", One),
              Main(<<LoopStmt(InfiniteBound, List(<<LetBe("n", Yes), use>>)), Ends>>)>>),
    Program(<<LetBe("n", One), Fn("f", <<<<"n", T("Bool")>>>>, Absent, <<Body(<<use>>)>>), use>>),
    Program(<<use, Fn("n", <<>>, I32, <<Ends>>)>>),
    Program(<<Main(<<Fn("n", <<>>, I32, <<use, Ends>>), use, Ends>>)>>),
    Program(<<Fn("f", <<<<"o", G("Option", <<I32>>)>>, <<"n", T("Bool")>>>>, Absent,
                 <<Does(MatchOf(V("o"), <<Binds("Some", "n", Sum(V("n"), One)),
                                          Plain("None", One)>>)), use>>)>>),
    Program(<<Fn("n", <<<<"n", I32>>, <<"m", I32>>>>, Absent, <<Body(<<use>>), use>>),
              LetBe("n", One)>>)}

\* An inner declaration that does not end, or does not begin, with its scope.
OutOfScope(use) == {
    Program(<<LetBe("n", One),
              Main(<<LoopStmt(InfiniteBound, List(<<LetBe("n", Yes), BreakStmt>>)), use, Ends>>)>>),
    Program(<<LetBe("n", One),
              Fn("other", <<<<"a", I32>>>>, I32, <<ReturnStmt(Sum(V("a"), V("a")))>>),
              Main(<<Fn("n", <<>>, I32, <<use, Ends>>), use, Ends>>)>>)}

\* ---- Calls, with and without effects, before and after and within.
Marked(effect, word, body) ==
    IF effect THEN EffectFn(word, <<<<"a", T("I8")>>>>, I32, body)
    ELSE Fn(word, <<<<"a", T("I8")>>>>, I32, body)
Callings(outer, inner) == {
    Program(<<Marked(outer, "f", <<ReturnStmt(Apply("g", <<V("a")>>))>>),
              Marked(inner, "g", <<Ends>>)>>),
    Program(<<Marked(inner, "g", <<Ends>>),
              Marked(outer, "f", <<Body(<<Does(Apply("g", <<V("a")>>))>>),
                                   Does(Apply("g", <<One>>)), Ends>>)>>),
    Program(<<Marked(inner, "g", <<Ends>>),
              Main(<<IF outer THEN EffectFn("h", <<>>, I32, <<ReturnStmt(Half)>>)
                     ELSE Fn("h", <<>>, I32, <<ReturnStmt(Text)>>),
                     Does(Apply("h", <<>>)), Ends>>)>>),
    Program(<<Marked(inner, "g", <<Ends>>),
              Main(<<EffectFn("h", <<>>, Absent,
                         <<LetIn("a", T("I8"), Lit("Integer", "1")), Does(Apply("g", <<V("a")>>))>>),
                     Does(Apply("h", <<>>)), Ends>>)>>)}
Calls == {
    Apply("f", <<>>), Apply("f", <<One, Half>>), Apply("f", <<Text, Half>>), Apply("missing", <<>>),
    Apply("v", <<>>), Apply("print", <<Text>>), Apply("print", <<One>>), Apply("print", <<>>),
    CallTo(Leaf("Identifier", <<"weights", ".", "load">>), <<Text>>),
    CallTo(Leaf("Identifier", <<"weights", ".", "load">>), <<Sum(Text, Text)>>),
    Apply("Some", <<>>), Apply("None", <<One>>), Apply("Ok", <<One>>)}
Calling(call) ==
    Program(<<Fn("f", <<<<"a", I32>>, <<"b", T("T81Float")>>>>, I32, <<Ends>>), LetBe("v", One),
              Does(call)>>)

\* ---- Returns, out of functions in functions.
Returning == {
    Program(<<Fn("f", <<>>, type, <<Fn("inner", <<>>, T("Bool"), <<ReturnStmt(Text)>>),
                                    Body(<<ReturnStmt(value)>>)>>),
              Fn("g", <<>>, Str, <<ReturnStmt(Text)>>)>>) :
        type \in {Absent, I32, Str}, value \in {Absent, One, Text}}
  \cup {Program(<<Fn("f", <<>>, Str, <<ReturnStmt(Text)>>), ReturnStmt(One)>>)}

-----------------------------------------------------------------------------
\* ---- Matches: lists of arms over an Option, and one of everything else.
SomeArms == {
    Binds("Some", "p", V("p")), On("Some", BindingPattern(I("p")), Yes, V("p")), Plain("None", One),
    Plain("Some", One), Plain("Other", One)}
OptionMatches ==
    {Program(<<Main(<<LetIn("o", G("Option", <<I32>>), Apply("Some", <<One>>)),
                      ReturnStmt(MatchOf(V("o"), arms))>>)>>) :
        arms \in {<<>>} \cup {<<a>> : a \in SomeArms} \cup (SomeArms \X SomeArms)
                 \cup (SomeArms \X SomeArms \X {Plain("None", One)})}

Shapes == <<
    RecordOf("Point", <<<<"x", I32>>, <<"y", T("Bool")>>>>),
    EnumOf("Inner", <<<<"A", I32>>, <<"B", Absent>>>>),
    EnumOf("Outer", <<<<"In", Named1("Inner")>>, <<"At", Named1("Point")>>,
                      <<"Two", G("Pair", <<I32, Str>>)>>, <<"No", Absent>>>>)>>
Of1(word, pattern, e) == On(word, pattern, Absent, e)
Deep(pattern) == Of1("In", pattern, One)
Fine == <<
    Deep(VariantPattern(I("A"), BindingPattern(I("i")))),
    Of1("At", RecordPattern(List(<<Pair(I("x"), I("i")), Pair(I("y"), I("_"))>>)), V("i")),
    Of1("Two", TuplePattern(List(<<I("i"), I("s")>>)), V("i")), Plain("No", One)>>
Others == {
    Deep(BindingPattern(I("i"))), Deep(VariantPattern(I("B"), NoPattern)),
    Deep(VariantPattern(I("C"), BindingPattern(I("i")))),
    Deep(VariantPattern(I("A"), VariantPattern(I("B"), NoPattern))),
    Deep(TuplePattern(List(<<I("i"), I("j")>>))),
    Deep(RecordPattern(List(<<Pair(I("x"), I("i"))>>)))}
EnumMatches ==
    LET over(arms) == Program(Shapes \o <<
            Main(<<LetBe("o", EnumLiteralExpr(Join("Outer", "No"), Absent)),
                   LetBe("i", EnumLiteralExpr(Join("Inner", "A"), One)),
                   Does(MatchOf(V("i"), <<Plain("B", Yes), Binds("A", "n", Yes)>>)),
                   ReturnStmt(MatchOf(V("o"), arms))>>)>>)
    IN {over(Fine)} \cup {over(<<other>> \o Tail(Fine)) : other \in Others}
       \cup {over(<<Fine[1],
                    Of1("At", RecordPattern(List(<<Pair(I("z"), I("i"))>>)), V("i")),
                    Fine[3], Fine[4]>>),
             over(<<Fine[1], Fine[2], Of1("Two", TuplePattern(List(<<I("i"), I("i")>>)), V("i")),
                    Of1("No", BindingPattern(I("i")), One)>>)}
MatchResults ==
    {Program(<<LetIn("r", G("Result", <<I32, Str>>), Apply("Ok", <<One>>)),
               LetIn("it", type, MatchOf(V("r"), <<Binds("Ok", "v", a), Binds("Err", "e", b)>>))>>) :
        type \in {Absent, G("Option", <<I32>>)},
        a \in {One, V("v"), Apply("None", <<>>)}, b \in {Half, Apply("Some", <<V("v")>>)}}
  \cup {Program(<<Does(MatchOf(One, <<Plain("A", One)>>))>>)}

\* ---- Loops and jumps, vectors, fields, literals.
Bounds == {NoBound, InfiniteBound, StaticBound(Leaf("Integer", <<"3">>)),
           StaticBound(Leaf("Integer", <<"0">>)), GuardedBound(Yes), GuardedBound(Text)}
Looping ==
    {Program(<<Main(<<LoopStmt(bound, List(<<LoopStmt(InfiniteBound, List(<<BreakStmt>>)),
                                             ContinueStmt>>)),
                      WhileStmt(Yes, Body(<<LoopStmt(InfiniteBound, List(<<>>))>>)), Ends>>)>>) :
        bound \in Bounds}
  \cup {Program(<<BreakStmt>>), Program(<<WhileStmt(One, Body(<<>>)), ContinueStmt>>),
        Program(<<IfStmt(Yes, Does(One), Absent), IfStmt(One, Does(One), Body(<<>>))>>)}
Elements == {Does(Array(<<a, b>>)) : a, b \in {One, Half, Text, Sum(One, One), V("none")}}
Fielded == {
    FieldAccessExpr(Apply("p", <<>>), I("x")), FieldAccessExpr(Apply("p", <<>>), I("z")),
    VariableExpr(Join("v", "x")), VariableExpr(Join("v", "z")), VariableExpr(Join("w", "x")),
    Set("v", One), Set("w", One), Set("p", One), GroupingExpr(UnaryExpr(Op("Minus"), One)),
    UnaryExpr(Op("Minus"), Text), UnaryExpr(Op("Bang"), Yes), UnaryExpr(Op("Bang"), One),
    RecordLiteralExpr(I("Point"), Fields(<<<<"x", Text>>, <<"y", Yes>>>>)),
    RecordLiteralExpr(I("Point"), Fields(<<<<"x", One>>, <<"x", One>>>>)),
    RecordLiteralExpr(I("Point"), Fields(<<<<"x", One>>, <<"z", V("none")>>>>)),
    RecordLiteralExpr(I("Nothing"), Fields(<<<<"x", One>>>>)),
    EnumLiteralExpr(Join("Inner", "A"), One), EnumLiteralExpr(Join("Inner", "A"), Yes),
    EnumLiteralExpr(Join("Inner", "A"), Absent), EnumLiteralExpr(Join("Inner", "B"), Absent),
    EnumLiteralExpr(Join("Inner", "B"), One), EnumLiteralExpr(Join("Inner", "C"), One),
    EnumLiteralExpr(Join("No", "A"), One)}
Expressing(e) ==
    Program(Shapes \o <<
        Fn("p", <<>>, Named1("Point"),
           <<ReturnStmt(RecordLiteralExpr(I("Point"), Fields(<<<<"x", One>>, <<"y", Yes>>>>)))>>),
        LetBe("v", Apply("p", <<>>)), Does(e)>>)

\* ---- Declarations.
Declarations == {
    ModuleDecl(I("m")), ModuleDecl(I("n")), ImportDecl(I("m")), ImportDecl(I("o")),
    AliasOf("A", <<>>, I32), AliasOf("A", <<"X">>, G("Option", <<I32>>)),
    RecordOf("R", <<<<"x", G("A", <<I32>>)>>>>), RecordOf("R", <<<<"x", I32>>, <<"x", I32>>>>),
    EnumOf("E", <<<<"A", G("B", <<I32, One>>)>>>>), EnumOf("E", <<<<"A", Absent>>, <<"A", I32>>>>),
    LetBe("v", RecordLiteralExpr(I("R"), Fields(<<<<"x", One>>>>))),
    VarStmt(I("w"), G("A", <<I32>>), Absent), VarStmt(I("w"), G("B", <<I32>>), Absent),
    VarStmt(I("u"), Absent, Absent), VarStmt(I("u"), G("Option", <<I32, I32>>), Absent),
    VarStmt(I("u"), G("Result", <<I32>>), Absent), Fn("v", <<>>, Absent, <<>>),
    VarStmt(I("w"), G("A", <<I32, GroupingExpr(One)>>), Absent)}
Declaring == {Program(<<a, b>>) : a, b \in Declarations}
\* Aliases of aliases, told by how they are written and where.
Chained ==
    LET alias(word, type) == AliasOf(word, <<"X">>, type)
        use(word) == G(word, <<I32>>)
        base == alias("A", G("Option", <<I32>>))
        links == {<<base, alias("B", use("A"))>>, <<alias("B", use("A")), base>>,
                  <<base, alias("C", G("Result", <<use("A"), Str>>)), alias("B", use("C"))>>,
                  <<base, alias("C", G("A", <<use("A")>>)), alias("B", G("Option", <<use("C")>>))>>,
                  <<base, alias("B", G("A", <<I32, I32>>))>>}
    IN {Program(chain \o <<VarStmt(I("w"), use("B"), init), Does(Set("w", value))>>) :
            chain \in links, init \in {Absent, Apply("None", <<>>)},
            value \in {Apply("None", <<>>), Apply("Some", <<One>>), V("w"),
                      Apply("Ok", <<Apply("None", <<>>)>>),
                      Apply("Some", <<Apply("Some", <<One>>)>>)}}

\* ---- Numbers with more digits in front than std::stoll takes.
Long == LiteralExpr(Leaf("Integer", <<"1", "2", "3", "4">>))
LongHalf == LiteralExpr(Leaf("Float", <<"1", "2", "3", "4", ".", "5">>))
Fits == LiteralExpr(Leaf("Float", <<"1", "2", "3", ".", "5">>))
Overlongs ==
    {Program(<<Fn("f", <<>>, I32, <<ReturnStmt(Long)>>), Main(<<Does(e), Ends>>)>>) :
        e \in {Long, LongHalf, Fits, Array(<<Long>>), Sum(One, Long), Apply("Some", <<Long>>)}}
  \cup {Program(<<LetIn("v", OfWord("Vector", <<I32, Long>>), Array(<<One>>))>>)}

\* ---- Names, by what declares them: some of them have no register.
Declared ==
    LET using(before, name) == Program(before \o <<Main(<<ReturnStmt(V(name))>>)>>)
        within(arm) == Program(Shapes \o <<
            Main(<<LetBe("o", EnumLiteralExpr(Join("Outer", "No"), Absent)),
                   ReturnStmt(MatchOf(V("o"), <<arm>> \o
                       SelectSeq(<<Deep(NoPattern), Of1("At", NoPattern, One),
                                   Of1("Two", NoPattern, One), Plain("No", One)>>,
                                 LAMBDA other : other.parts[1] # arm.parts[1])))>>)>>)
    IN {using(<<LetBe("n", One)>>, "n"), using(<<VarStmt(I("n"), I32, Absent)>>, "n"),
        using(<<Fn("n", <<>>, I32, <<Ends>>)>>, "n"), using(<<>>, "main"),
        using(<<>>, "Some"), using(<<>>, "None"),
        Program(<<Fn("f", <<<<"n", I32>>>>, I32, <<ReturnStmt(V("n"))>>)>>),
        within(Of1("In", VariantPattern(I("A"), BindingPattern(I("i"))), V("i"))),
        within(Of1("At", RecordPattern(List(<<Pair(I("x"), I("i"))>>)), V("i"))),
        within(Of1("Two", TuplePattern(List(<<I("i"), I("s")>>)), V("i")))}

MCSources ==
    {Initialized(type, value) : type \in TypesWritten, value \in Values}
    \cup {Operated(op, l, r) : op \in Operators, l, r \in Operands}
    \cup {Kept(from, to, with) : <<from, to>> \in Operands \X Operands \ {FractionAsFloat},
                                with \in {One, Half}}
    \cup Chained \cup Overlongs
    \cup UNION {Places(use) : use \in Uses}
    \cup UNION {Callings(outer, inner) : outer, inner \in BOOLEAN}
    \cup {Calling(call) : call \in Calls}
    \cup Returning \cup OptionMatches \cup EnumMatches \cup MatchResults \cup Looping
    \cup {Program(<<s>>) : s \in Elements}
    \cup {Expressing(e) : e \in Fielded} \cup Declaring \cup Declared

\* ---- The nodes of the trees.
RECURSIVE NodesOf(_)
NodesOf(node) ==
    IF ~IsNode(node) THEN {}
    ELSE {node} \cup UNION {NodesOf(node.parts[i]) : i \in DOMAIN node.parts}
NodesIn(sources, kinds) ==
    {node \in UNION {NodesOf(source) : source \in sources} : node.kind \in kinds}
StmtNodes == NodesIn(MCSources, StmtKinds)
ExprNodes == NodesIn(MCSources, ExprKinds)
TypeExprNodes == NodesIn(MCSources, TypeKinds)
\* TLC evaluates a definition once, but what stands for a CONSTANT at every use.
MCStmts == StmtNodes
MCExprs == ExprNodes
MCTypeExprs == TypeExprNodes

-----------------------------------------------------------------------------
\* docs/guides/match-patterns.md: the match that opens a variant in a variant.
GuideSources == {
    Program(<<
        RecordOf("Point", <<<<"x", I32>>, <<"y", I32>>>>),
        EnumOf("Inner", <<<<"Data", Named1("Point")>>, <<"Empty", Absent>>>>),
        EnumOf("Outer", <<<<"Nested", Named1("Inner")>>, <<"Missing", Absent>>>>),
        Main(<<VarStmt(I("value"), Named1("Outer"), Absent),
               ReturnStmt(MatchOf(GroupingExpr(V("value")), <<
                   Of1("Nested", VariantPattern(I("Data"), RecordPattern(
                           List(<<Pair(I("x"), I("px")), Pair(I("y"), I("y"))>>))),
                       Sum(V("px"), V("y"))),
                   Plain("Missing", UnaryExpr(Op("Minus"), One))>>))>>)>>)}
GuideStmts == NodesIn(GuideSources, StmtKinds)
GuideExprs == NodesIn(GuideSources, ExprKinds)
GuideTypeExprs == NodesIn(GuideSources, TypeKinds)

\* spec/t81lang-spec.md:306, :812: scopes are lexical and the nearest one wins.
ScopingSources == UNION {OutOfScope(use) : use \in Uses}
ScopingStmts == NodesIn(ScopingSources, StmtKinds)
ScopingExprs == NodesIn(ScopingSources, ExprKinds)
ScopingTypeExprs == NodesIn(ScopingSources, TypeKinds)

\* spec/t81lang-spec.md:249: a fraction is not converted to a float.
FractionSources ==
    {Kept("T81Fraction", "T81Float", with) : with \in {One, Half}}
    \cup {Program(<<Fn("v", <<>>, T("T81Fraction"), <<>>),
                    Fn("f", <<<<"a", T("T81Float")>>>>, T("T81Float"), <<Does(V("a")), body>>),
                    use>>) :
             body \in {ReturnStmt(Half), ReturnStmt(Apply("v", <<>>))},
             use \in {Does(One), Does(Apply("f", <<Apply("v", <<>>)>>))}}
FractionStmts == NodesIn(FractionSources, StmtKinds)
FractionExprs == NodesIn(FractionSources, ExprKinds)
FractionTypeExprs == NodesIn(FractionSources, TypeKinds)
=============================================================================
