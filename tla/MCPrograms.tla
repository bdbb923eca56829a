----------------------------- MODULE MCPrograms -----------------------------
(* Programs for the model checker: small T81Lang programs, as the syntax trees *)
(* that the parser builds and the analyzer has put types on.                   *)
EXTENDS Integers, Sequences

CONSTANT Nil

Num(n) == [k |-> "literal", of |-> "number", whole |-> n, ty |-> "int"]
Frac(n) == [k |-> "literal", of |-> "number", whole |-> n, ty |-> "float"]
Str == [k |-> "literal", of |-> "string", whole |-> 0, ty |-> "other"]
Bool(n) == [k |-> "literal", of |-> "bool", whole |-> n, ty |-> "bool"]
Of(name, ty) == [k |-> "var", name |-> name, base |-> Nil, ty |-> ty]
V(name) == Of(name, "int")
Group(e) == [k |-> "group", e |-> e, ty |-> e.ty]
Neg(e) == [k |-> "unary", op |-> "-", right |-> e, ty |-> e.ty]
Bin(op, l, r, ty) ==
  [k |-> "binary", op |-> op, left |-> l, right |-> r, ty |-> ty]
Add(l, r) == Bin("+", l, r, "int")
Cmp(op, l, r) == Bin(op, l, r, "bool")
Logic(op, l, r) ==
  [k |-> "logical", op |-> op, left |-> l, right |-> r, ty |-> "bool"]
Call(name, args, ty) == [k |-> "call", name |-> name, args |-> args, ty |-> ty]
Shown(e) == Call("print", <<e>>, "int")
Set(name, e) == [k |-> "assign", name |-> name, value |-> e, ty |-> e.ty]

Do(e) == [k |-> "expr", e |-> e]
Let(name, e) == [k |-> "bind", name |-> name, init |-> e]
Block(body) == [k |-> "block", body |-> body]
If(c, s, t) == [k |-> "if", cond |-> c, then |-> s, otherwise |-> t]
While(c, s) == [k |-> "while", cond |-> c, body |-> s]
Loop(g, body) == [k |-> "loop", guard |-> g, body |-> body]
Return(e) == [k |-> "return", value |-> e]
Break == [k |-> "break"]
Continue == [k |-> "continue"]
Fn(name, body) == [k |-> "fn", name |-> name, body |-> body]
Main(body) == <<Fn("main", body)>>

None == [pk |-> "none"]
Wild == [pk |-> "wild"]
Id(name) == [pk |-> "identifier", name |-> name]
Record(names) == [pk |-> "record", names |-> names]
Nested(tag, p) == [pk |-> "variant", tag |-> tag, inner |-> p]

\* Arms of an Option or Result, and of an enum, whose variants A, B and C have
\* the indices 0, 1 and 2.
ArmIn(enumId, variant, id, payload, p, guard, body) ==
  [variant |-> variant, enumId |-> enumId, variantId |-> id,
   payload |-> payload, pattern |-> p, guard |-> guard, body |-> body]
ArmOf(variant, id, payload, p, guard, body) ==
  ArmIn(IF id < 0 THEN -1 ELSE 1, variant, id, payload, p, guard, body)
SomeArm(p, guard, body) == ArmOf("Some", 0, TRUE, p, guard, body)
NoneArm(guard, body) == ArmOf("None", 1, FALSE, None, guard, body)
MatchOn(e, meta, arms) ==
  [k |-> "match", scrutinee |-> e, meta |-> meta, arms |-> arms, ty |-> "int"]
EnumIn(enumId, variant, id, payload) ==
  [k |-> "enum", variant |-> variant, enumId |-> enumId, variantId |-> id,
   payload |-> payload, ty |-> "other"]
Enum(variant, id, payload) == EnumIn(1, variant, id, payload)

Some(e) == Call("Some", <<e>>, "other")
NoneValue == Of("None", "other")

-----------------------------------------------------------------------------
(* Control flow: two names, effects that show, and every way out of a loop.   *)

Inc(x) == Do(Set(x, Add(V(x), Num(1))))
Say(n) == Do(Shown(Num(n)))
IsTrue(e) == Cmp("==", Shown(e), Num(0))      \* prints e, and holds

Conditions ==
  LET simple == {Cmp("<", V("x"), Num(1)), IsTrue(Num(7)), Bool(0)}
  IN simple \cup
     {Logic(op, l, r) : op \in {"&&", "||"}, l \in simple, r \in simple}

Bodies(c) ==
  {If(c, Say(1), Nil),
   If(c, Say(1), Say(2)),
   If(c, Block(<<Inc("x"), Say(1)>>), If(Cmp("==", V("x"), Num(1)), Say(3), Nil))}

Exits == {Break, Continue, Say(4), Return(V("x"))}

\* A loop whose every turn counts, a way out in it, and a loop around it.
Inside(c, exit) == <<Inc("x"), If(c, exit, Nil), Say(5)>>
Loops(c, exit) ==
  LET more == Cmp("<", V("x"), Num(2))
      stop == If(Cmp(">=", V("x"), Num(2)), Break, Nil)
  IN {While(more, Block(Inside(c, exit))),
      Loop(more, Inside(c, exit)),
      Loop(Nil, <<stop>> \o Inside(c, exit))}
Twice(s) ==
  {s,
   While(Cmp("<", V("y"), Num(2)), Block(<<Inc("y"), s, Say(6)>>)),
   Loop(Cmp("<", V("y"), Num(1)), <<Inc("y"), s, If(Bool(1), Continue, Nil)>>)}

In(x, s) == Main(<<Let("x", Num(x)), Let("y", Num(0)), s, Return(V("x"))>>)

FlowPrograms ==
  {In(x, s) : x \in {0, 1}, s \in UNION {Bodies(c) : c \in Conditions}}
  \cup UNION {{In(0, t) : t \in Twice(s)} :
              s \in UNION {Loops(c, e) : c \in {Cmp("<", V("x"), Num(2)),
                                                Bool(1)}, e \in Exits}}

-----------------------------------------------------------------------------
(* Matches: guards that look at the payload, arms in any order, a binding that *)
(* hides a name, a match inside an arm, a guard or a scrutinee.                 *)

Guards == {Nil, Cmp("<", V("v"), Num(1)), IsTrue(V("v"))}
Arms ==
  LET some(g, n) == SomeArm(Id("v"), g, Add(V("v"), Num(n)))
      none == NoneArm(Nil, Shown(Num(9)))
  IN UNION {{<<some(g, 0), none>>, <<none, some(g, 0)>>,
             <<some(g, 0), none, some(Nil, 10)>>,
             <<some(g, 0), some(Cmp("==", V("v"), Num(1)), 10), none,
               SomeArm(Wild, Nil, Num(20))>>,
             <<SomeArm(Id("x"), Nil, Set("y", V("x"))), none>>} : g \in Guards}

Scrutinees == {Some(Num(0)), Some(Shown(Num(5))), Some(V("x")), NoneValue}
Tests(e) == {MatchOn(e, "Option", arms) : arms \in Arms}

OptionPrograms ==
  {Main(<<Let("x", Num(3)), Let("y", Num(1)), Let("m", t), Do(Shown(V("m"))),
          Do(Shown(V("y"))), Return(V("x"))>>) :
     t \in UNION {Tests(e) : e \in Scrutinees}}

NestedMatches ==
  LET inner(e) == MatchOn(e, "Option",
                    <<SomeArm(Id("w"), Cmp("<", V("w"), V("v")), V("w")),
                      SomeArm(Wild, Nil, V("v")), NoneArm(Nil, Num(8))>>)
      outer(body, g) == <<SomeArm(Id("v"), g, body), SomeArm(Wild, Nil, Num(2)),
                          NoneArm(Nil, Num(6))>>
      bodies == {inner(Some(Num(1))), inner(Some(V("v"))), inner(NoneValue)}
  IN {Main(<<Let("x", Num(3)), Return(MatchOn(e, "Option", outer(b, g)))>>) :
        e \in {Some(Num(2)), Some(MatchOn(Some(Num(0)), "Option",
                                          outer(V("v"), Nil))), NoneValue},
        b \in bodies,
        g \in {Nil, Cmp("==", inner(Some(Num(1))), Num(1))}}

\* An enum with payloads on A and C, and a Result.  The enum's id is one that
\* encodes, one that reaches the sign bit, or one past the field.
EnumPrograms ==
  LET arm(n, name, id, payload, g, body) ==
        ArmIn(n, name, id, payload, IF payload THEN Id("v") ELSE None, g, body)
      a(n, g) == arm(n, "A", 0, TRUE, g, Add(V("v"), Num(10)))
      b(n) == arm(n, "B", 1, FALSE, Nil, Num(1))
      c(n) == arm(n, "C", 2, TRUE, Nil, V("v"))
      values(n) == {EnumIn(n, "A", 0, Num(0)), EnumIn(n, "A", 0, Num(4)),
                    EnumIn(n, "B", 1, Nil), EnumIn(n, "C", 2, Num(7))}
      small == Cmp("<", V("v"), Num(1))
  IN UNION {{Main(<<Let("e", e), Return(MatchOn(Of("e", "other"), "Enum", arms))>>) :
               e \in values(n),
               arms \in {<<a(n, Nil), b(n), c(n)>>, <<c(n), a(n, small), b(n), a(n, Nil)>>,
                         <<b(n), c(n), a(n, small)>>}} : n \in {1, 2, 4}}
     \cup
     {Main(<<Return(MatchOn(Call(how, <<Num(2)>>, "other"), "Result",
               <<ArmOf("Ok", 0, TRUE, Id("v"), g, Add(V("v"), Num(1))),
                 ArmOf("Err", 1, TRUE, Id("w"), Nil, Neg(V("w"))),
                 ArmOf("Ok", 0, TRUE, Wild, Nil, Num(5))>>))>>) :
        how \in {"Ok", "Err"}, g \in {Nil, Cmp("<", V("v"), Num(1))}}

\* Calls: the first argument that is lowered takes register 0, where answers
\* come back, so these programs keep nothing of their own there.
CallPrograms ==
  LET f(args) == Call("f", args, "int")
      g(args) == Call("g", args, "int")
  IN {Main(<<Let("p", f(<<Num(1)>>)), Let("q", g(args)),
             Let("r", f(<<Num(4), V("q")>>)), Return(V("r"))>>) :
        args \in {<<>>, <<Num(2)>>, <<Shown(Num(2)), Shown(Num(3))>>}}

MeaningPrograms ==
  FlowPrograms \cup OptionPrograms \cup NestedMatches \cup EnumPrograms
  \cup CallPrograms

-----------------------------------------------------------------------------
(* The rest of the language: every node, and what the generator refuses.      *)

OtherPrograms ==
  LET use(e) == Main(<<Let("x", Num(1)), Do(Set("x", e)), Do(e)>>)
      vector(data) == [k |-> "vector", data |-> data, ty |-> "other"]
      record(fs) == [k |-> "record", fields |-> fs, ty |-> "other"]
      dotted == [k |-> "var", name |-> "x.y", base |-> "x", ty |-> "int"]
      any == [k |-> "callAny", args |-> <<Num(1), Of("free", "int")>>,
              ty |-> "other"]
      not == [k |-> "unary", op |-> "!", right |-> Bool(1), ty |-> "bool"]
      many == Call("f", <<Num(1), Num(2), Num(3)>>, "int")
      decl(name) == [k |-> "declaration", name |-> name]
      mixed(op, l, r, ty) == Bin(op, l, r, ty)
      float == Bin("+", Num(1), Frac(2), "float")
  IN {use(e) : e \in
        {Group(Num(2)), Neg(Num(2)), vector("elements"), vector("empty"), vector("missing"),
         [Num(0) EXCEPT !.of = "overlong"], record(<<Num(1), Str>>), dotted,
         any, not, many, Str, Of("free", "int"), Call("None", <<>>, "other"),
         Call("weights.load", <<Str>>, "other"),
         Call("weights.load", <<V("x")>>, "other"), Call("print", <<>>, "int"),
         Call("Some", <<>>, "other"), Call("Err", <<Of("free", "int")>>, "other"),
         Enum("D", -1, Nil), Enum("D", -1, Num(1)), float,
         Bin("*", float, Num(3), "float"), Bin("%", float, Num(3), "float"),
         Bin("/", Num(6), Of("x", "fraction"), "fraction"),
         Cmp("<", float, Num(1)), Cmp("!=", Bool(1), Bool(0)),
         Cmp("==", Str, Str), Bin("-", Bool(1), Num(1), "int"),
         MatchOn(Of("x", "untyped"), Nil,
                 <<ArmOf("A", -1, TRUE, Id("v"), Num(1), Num(2)),
                   ArmOf("B", -1, FALSE, None, Nil, Num(3))>>)}}
     \cup {<<decl("Point"), decl(Nil), Let("t", Nil), Fn("f", <<Return(Nil)>>),
             Fn("main", <<Return(Nil), Break, Continue>>)>>}

AllPrograms == MeaningPrograms \cup OtherPrograms

-----------------------------------------------------------------------------
(* Programs on which the back end departs from the repository's documents.    *)

\* A block declares a name that is also declared around it.
ShadowingPrograms ==
  {Main(<<Let("x", Num(1)), If(Cmp("==", Num(c), Num(0)),
                               Block(<<Let("x", Num(2)), Do(Shown(V("x")))>>),
                               Nil),
          Return(V("x"))>>) : c \in {0, 1}}

\* A T81Float that is declared with an integer, assigned, and used again.
WideningPrograms ==
  LET f == Of("f", "float")
      sum(l, r) == Bin("+", l, r, "float")
  IN {Main(<<Let("f", Num(1)), Do(Set("f", e)), Return(sum(f, f))>>) :
        e \in {Num(2), sum(f, f)}}

-----------------------------------------------------------------------------
(* The nodes these programs are made of.                                      *)

Elements(s) == {s[i] : i \in DOMAIN s}
Within(n) ==
  CASE n.k \in {"block", "fn"} -> Elements(n.body)
    [] n.k = "loop" -> Elements(n.body) \cup {n.guard}
    [] n.k \in {"expr", "group"} -> {n.e}
    [] n.k = "bind" -> {n.init}
    [] n.k = "if" -> {n.cond, n.then, n.otherwise}
    [] n.k = "while" -> {n.cond, n.body}
    [] n.k \in {"return", "assign"} -> {n.value}
    [] n.k \in {"logical", "binary"} -> {n.left, n.right}
    [] n.k = "unary" -> {n.right}
    [] n.k \in {"call", "callAny"} -> Elements(n.args)
    [] n.k = "record" -> Elements(n.fields)
    [] n.k = "enum" -> {n.payload}
    [] n.k = "match" -> {n.scrutinee} \cup {a.guard : a \in Elements(n.arms)}
                                     \cup {a.body : a \in Elements(n.arms)}
    [] OTHER -> {}

RECURSIVE Closure(_)
Closure(nodes) ==
  LET more == UNION {Within(n) : n \in nodes} \ (nodes \cup {Nil})
  IN IF more = {} THEN nodes ELSE nodes \cup Closure(more)

Nodes == Closure(UNION {Elements(p) : p \in AllPrograms \cup ShadowingPrograms
                                             \cup WideningPrograms})
SuiteExprs == {n \in Nodes : n.k \in {"logical", "binary", "literal", "group",
                                     "unary", "var", "assign", "call", "callAny",
                                     "record", "vector", "enum", "match"}}
SuiteStmts == Nodes \ SuiteExprs
=============================================================================
