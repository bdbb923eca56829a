---------------------------- MODULE SourceMeaning ----------------------------
(* What a T81Lang program does, read off its syntax tree and not off the       *)
(* instructions the compiler makes of it: the reference that compiled          *)
(* programs are compared with.  A state holds, for each name, the values of    *)
(* its declarations from the outermost to the nearest.                         *)
EXTENDS Integers, Sequences, SequencesExt, TiscMachine

CONSTANTS Nil, Fuel     \* iterations after which a loop counts as endless

Fresh0 == [env |-> [x \in {} |-> <<>>], out |-> <<>>, v |-> Number(0),
           flow |-> "next", fuel |-> Fuel]

Going(s) == s.flow = "next"
Value(s, v) == [s EXCEPT !.v = v]
Flow(s, how) == [s EXCEPT !.flow = how]

Push(s, name, v) ==
  [s EXCEPT !.env = [x \in DOMAIN s.env \cup {name} |->
     IF x # name THEN s.env[x]
     ELSE IF x \in DOMAIN s.env THEN Append(s.env[x], v) ELSE <<v>>]]

\* Leaving a scope drops the declarations made since it was entered.
LeaveScope(before, after) ==
  [after EXCEPT !.env = [x \in DOMAIN before.env |->
     SubSeq(after.env[x], 1, Len(before.env[x]))]]

SourceOps == [op \in {"+", "-", "*", "/", "%"} |->
  CASE op = "+" -> "ADD" [] op = "-" -> "SUB" [] op = "*" -> "MUL"
    [] op = "/" -> "DIV" [] op = "%" -> "MOD"]
SourceRelations == [op \in {"<", "<=", ">", ">=", "==", "!="} |->
  CASE op = "<"  -> "Less"    [] op = "<=" -> "LessEqual"
    [] op = ">"  -> "Greater" [] op = ">=" -> "GreaterEqual"
    [] op = "==" -> "Equal"   [] op = "!=" -> "NotEqual"]

\* Does value v have the variant an arm names, and what is its payload?
HasVariant(arm, v) ==
  CASE arm.variant = "Some" -> v[1] = "some"
    [] arm.variant = "None" -> v[1] = "none"
    [] arm.variant = "Ok"   -> v[1] = "ok"
    [] arm.variant = "Err"  -> v[1] = "err"
    [] OTHER -> v[1] = "variant" /\ v[2] = arm.variant
Payload(v) == v[Len(v)]

RECURSIVE Fits(_, _), Bindings(_, _)
\* A nested variant pattern fits only a payload of that variant.
Fits(p, v) ==
  p.pk = "variant" => /\ HasVariant([variant |-> p.tag], v)
                      /\ p.inner # Nil => Fits(p.inner, Payload(v))
Bindings(p, v) ==
  CASE p.pk = "identifier" -> {<<p.name, v>>}
    [] p.pk = "variant" /\ p.inner # Nil -> Bindings(p.inner, Payload(v))
    [] OTHER -> {}

BindPattern(s, p, v) ==
  LET bound == Bindings(p, v)
  IN IF bound = {} THEN s
     ELSE LET b == CHOOSE b \in bound : TRUE IN Push(s, b[1], b[2])

RECURSIVE Means(_, _), InOrder(_, _, _), Arms(_, _, _)

\* Operands from left to right, or statements from first to last, each in the
\* state the one before it left; got collects the operands' values.
InOrder(xs, s, got) ==
  IF xs = <<>> \/ ~Going(s) THEN [s |-> s, got |-> got]
  ELSE LET t == Means(Head(xs), s) IN InOrder(Tail(xs), t, Append(got, t.v))

Scoped(stmts, s) == LeaveScope(s, InOrder(stmts, s, <<>>).s)

\* The first arm, in the order they are written, that fits and whose guard
\* holds; s.v is the value matched on.
Arms(arms, v, s) ==
  IF arms = <<>> THEN Flow(s, "trap")
  ELSE LET arm == Head(arms)
           fits == /\ HasVariant(arm, v)
                   /\ arm.payload => Fits(arm.pattern, Payload(v))
           inside == IF arm.payload
                     THEN BindPattern(s, arm.pattern, Payload(v)) ELSE s
           g == CASE ~fits -> Value(s, Number(0))
                  [] fits /\ arm.guard = Nil -> Value(inside, Number(1))
                  [] OTHER -> Means(arm.guard, inside)
       IN CASE ~Going(g) -> g
            [] Going(g) /\ IsZero(g.v) -> Arms(Tail(arms), v, LeaveScope(s, g))
            [] OTHER -> LeaveScope(s, Means(arm.body, g))

BinaryMeans(op, x, y, s) ==
  CASE op \in DOMAIN SourceRelations ->
         Value(s, Truth(Compare(SourceRelations[op], x, y)))
    [] op \notin DOMAIN SourceRelations /\ ~Applicable(SourceOps[op], x, y) ->
         Flow(s, "fault")
    [] OTHER -> Value(s, Number(Arithmetic(SourceOps[op], x[2], y[2])))

CallMeans(name, args, s) ==
  LET shows(event) == [s EXCEPT !.out = Append(@, event)]
  IN CASE name = "Some" -> Value(s, <<"some", args[1]>>)
       [] name = "Ok"   -> Value(s, <<"ok", args[1]>>)
       [] name = "Err"  -> Value(s, <<"err", args[1]>>)
       [] name = "None" -> Value(s, <<"none">>)
       [] name = "print" -> Value(shows(<<"print", args[1]>>), Number(0))
       [] OTHER -> Value(shows(<<"call", name, args>>),
                         <<"answer", name, args>>)

\* The expressions and statements a node evaluates first, in order.
First(x) ==
  LET some(e) == IF e = Nil THEN <<>> ELSE <<e>>
  IN CASE x.k = "assign" -> <<x.value>>
       [] x.k = "logical" -> <<x.left>>
       [] x.k = "unary" -> <<x.right>>
       [] x.k = "binary" -> <<x.left, x.right>>
       [] x.k = "call" -> x.args
       [] x.k = "enum" -> some(x.payload)
       [] x.k = "match" -> <<x.scrutinee>>
       [] x.k \in {"group", "expr"} -> <<x.e>>
       [] x.k = "bind" -> some(x.init)
       [] x.k \in {"if", "while"} -> <<x.cond>>
       [] x.k = "loop" -> some(x.guard)
       [] x.k = "return" -> some(x.value)
       [] OTHER -> <<>>

\* What an expression or a statement does in state s; got holds the values of
\* the operands, and t the state they left.  One statement on its own may be a
\* declaration, which then opens a scope.
Means(x, s) ==
  LET o == InOrder(First(x), s, <<>>)
      t == o.s
      got == o.got
      decided == ~IsZero(got[1])
      turn == Scoped(IF x.k = "while" THEN <<x.body>> ELSE x.body,
                     [t EXCEPT !.fuel = @ - 1])
      right == Means(x.right, t)
  IN IF ~Going(t) THEN t
     ELSE CASE x.k \in {"group", "expr"} -> t
       [] x.k = "literal" ->
            Value(t, IF x.of = "string" THEN <<"Symbol", 0>>
                                        ELSE Number(x.whole))
       [] x.k = "var" ->
            Value(t, IF x.name \in DOMAIN t.env THEN Last(t.env[x.name])
                                                ELSE <<"none">>)
       [] x.k = "assign" ->
            [t EXCEPT !.env[x.name] = Append(Front(@), got[1])]
       [] x.k = "logical" ->
            IF decided <=> x.op = "||" THEN Value(t, Truth(decided))
            ELSE IF Going(right) THEN Value(right, Truth(~IsZero(right.v)))
            ELSE right
       [] x.k = "unary" -> Value(t, <<got[1][1], 0 - got[1][2]>>)
       [] x.k = "binary" -> BinaryMeans(x.op, got[1], got[2], t)
       [] x.k = "call" -> CallMeans(x.name, got, t)
       [] x.k = "enum" -> Value(t, <<"variant", x.variant>> \o got)
       [] x.k = "match" -> Arms(x.arms, got[1], t)
       [] x.k = "block" -> Scoped(x.body, t)
       [] x.k = "bind" ->
            Push(t, x.name, IF x.init = Nil THEN Undef ELSE got[1])
       [] x.k = "if" ->
            IF decided THEN Scoped(<<x.then>>, t)
            ELSE IF x.otherwise # Nil THEN Scoped(<<x.otherwise>>, t)
            ELSE t
       [] x.k \in {"while", "loop"} ->
            CASE got # <<>> /\ ~decided -> t
              [] (got = <<>> \/ decided) /\ t.fuel = 0 -> Flow(t, "endless")
              [] OTHER ->
                   IF turn.flow = "break" THEN Flow(turn, "next")
                   ELSE IF turn.flow \in {"next", "continue"}
                   THEN Means(x, Flow(turn, "next"))
                   ELSE turn
       [] x.k = "return" -> Flow(t, IF x.value = Nil THEN "exit" ELSE "return")
       [] x.k \in {"break", "continue"} -> Flow(t, x.k)
       [] x.k = "fn" -> IF x.name = "main" THEN Scoped(x.body, t) ELSE t
       [] x.k = "declaration" -> t

\* What an observer sees: the prints and calls in order, how the program ends,
\* and the value it returns.
Meaning(program) ==
  LET s == InOrder(program, Fresh0, <<>>).s
  IN [out |-> s.out, end |-> s.flow,
      value |-> IF s.flow = "return" THEN s.v ELSE Nil]
=============================================================================
