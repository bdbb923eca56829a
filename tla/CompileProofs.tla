---------------------------- MODULE CompileProofs ----------------------------
(* The registers of the generated program (Lowering), for every program.  A     *)
(* register that anything names, an instruction, a variable, a hidden binding, *)
(* a result or an item of work, has been handed out by the counter, or it is   *)
(* register 0, where answers come back: RegisterInv.  The counter never goes   *)
(* back, so what is held stays held.  At the end of the module: the invariants *)
(* of the generator hold while the program is encoded and run (Compile), and   *)
(* what the generator returns is a program encode_program accepts.             *)
EXTENDS Compile, BalanceProofs

\* The kinds a register may have.
Kinds == {"Integer", "Float", "Fraction", "Boolean", "Unknown"}

\* A register below the counter n, an instruction whose registers are, and an
\* item of work whose registers are.
Held(r, n) == r \in Register /\ r.reg < n
Allocated(insn, n) ==
  \A i \in DOMAIN insn.args :
    insn.args[i].kind = "reg" =>
      insn.args[i].v \in Nat /\ (insn.args[i].v < n \/ insn.args[i].v = 0)
HoldsItem(item, n) ==
  /\ item.do = "emit" => Allocated(item.insn, n)
  /\ item.do \in {"yield", "copyTo"} => Held(item.reg, n)
  /\ item.do = "fresh" => item.primitive \in Kinds
  /\ item.do = "pushLoop" => item.info = LoopInfo(item.info.entry, item.info.exit)
  /\ item.do \in {"testVariant", "arm"} =>
       \A r \in {item.match.scrutinee, item.match.dest, item.match.flag,
                 item.match.payload} : Held(r, n)

\* The parts of the inductive invariant.
ValuesHeld == \A i \in DOMAIN vals : vals[i] # Missing => Held(vals[i], regs)
NamesHeld == \A x \in DOMAIN env : Held(env[x], regs)
ScopesHeld ==
  \A i \in DOMAIN scopes : \A j \in DOMAIN scopes[i] :
    scopes[i][j].previous # Nil => Held(scopes[i][j].previous, regs)
LoopsShaped == \A i \in DOMAIN loops : loops[i] = LoopInfo(loops[i].entry, loops[i].exit)
Status == {"running", "done", "threw"}

RegisterInv ==
  /\ regs \in Nat
  /\ ValuesHeld
  /\ NamesHeld
  /\ ScopesHeld
  /\ LoopsShaped
  /\ \A i \in DOMAIN work : HoldsItem(work[i], regs)
  /\ \A i \in DOMAIN code : Allocated(code[i], regs)
  /\ status \in Status

-----------------------------------------------------------------------------
(* What is held stays held. *)

\* The counter only grows, and so do the registers that are held.
LEMMA HeldGrows ==
  ASSUME NEW n \in Nat, NEW m \in Nat, m >= n
  PROVE  /\ \A r : Held(r, n) => Held(r, m)
         /\ \A insn : Allocated(insn, n) => Allocated(insn, m)
         /\ \A item : HoldsItem(item, n) => HoldsItem(item, m)
<1>1. \A r : Held(r, n) => Held(r, m)
  BY DEF Held, Register
<1>2. ASSUME NEW insn, Allocated(insn, n)
      PROVE  Allocated(insn, m)
  <2> SUFFICES ASSUME NEW i \in DOMAIN insn.args, insn.args[i].kind = "reg",
                      insn.args[i].v < n, insn.args[i].v \in Nat
               PROVE  insn.args[i].v < m
    BY <1>2 DEF Allocated
  <2> QED
    OBVIOUS
<1>3. ASSUME NEW item, HoldsItem(item, n)
      PROVE  HoldsItem(item, m)
  BY <1>1, <1>2, <1>3 DEF HoldsItem
<1> QED
  BY <1>1, <1>2, <1>3

\* The results, the names and the scopes that a step leaves alone.
LEMMA KeptIsHeld ==
  ASSUME RegisterInv, regs' \in Nat, regs' >= regs
  PROVE  /\ vals' = vals => ValuesHeld'
         /\ env' = env => NamesHeld'
         /\ scopes' = scopes => ScopesHeld'
         /\ loops' = loops => LoopsShaped'
<1>1. regs \in Nat /\ \A r : Held(r, regs) => Held(r, regs')
  BY HeldGrows DEF RegisterInv
<1>2. vals' = vals => ValuesHeld'
  BY <1>1 DEF RegisterInv, ValuesHeld
<1>3. env' = env => NamesHeld'
  BY <1>1 DEF RegisterInv, NamesHeld
<1>4. scopes' = scopes => ScopesHeld'
  BY <1>1 DEF RegisterInv, ScopesHeld
<1>5. loops' = loops => LoopsShaped'
  BY DEF RegisterInv, LoopsShaped
<1> QED
  BY <1>2, <1>3, <1>4, <1>5

\* A list of items that hold their registers.
Holds(s, n) == IsSeq(s) /\ \A i \in DOMAIN s : HoldsItem(s[i], n)
\* A list of instructions that do.
Allocates(s, n) == IsSeq(s) /\ \A i \in DOMAIN s : Allocated(s[i], n)

\* Two such lists, one after the other.
LEMMA HoldsCat ==
  ASSUME NEW s, NEW t, NEW n
  PROVE  /\ Holds(s, n) /\ Holds(t, n) => Holds(s \o t, n)
         /\ Allocates(s, n) /\ Allocates(t, n) => Allocates(s \o t, n)
  BY SeqCat, CatAt DEF Holds, Allocates

\* No item and no instruction, or one.
LEMMA HoldsNone ==
  ASSUME NEW n
  PROVE  /\ Holds(<<>>, n) /\ Allocates(<<>>, n)
         /\ \A item : HoldsItem(item, n) => Holds(<<item>>, n)
         /\ \A insn : Allocated(insn, n) => Allocates(<<insn>>, n)
<1>1. IsSeq(<<>>) /\ DOMAIN <<>> = {}
  BY DEF IsSeq
<1>2. \A x : IsSeq(<<x>>) /\ DOMAIN <<x>> = {1} /\ <<x>>[1] = x
  <2> TAKE x
  <2>1. IsSeq(<<x>>)
    BY SeqIn, <<x>> \in Seq({x})
  <2> QED
    BY <2>1
<1> QED
  BY <1>1, <1>2 DEF Holds, Allocates

\* The step at hand: the item is replaced by instructions and items of its own.
LEMMA RegisterStep ==
  ASSUME LabelInv, RegisterInv, work # <<>>,
         NEW emitted, NEW items, code' = code \o emitted, work' = items \o Tail(work),
         regs' \in Nat, regs' >= regs,
         Allocates(emitted, regs'), Holds(items, regs'),
         ValuesHeld', NamesHeld', ScopesHeld', LoopsShaped', status' \in Status
  PROVE  RegisterInv'
<1>1. /\ regs \in Nat /\ IsSeq(code) /\ IsSeq(work) /\ IsSeq(Tail(work))
      /\ \A i \in DOMAIN Tail(work) : i + 1 \in DOMAIN work /\ Tail(work)[i] = work[i + 1]
  BY HeadAndTail DEF LabelInv, RegisterInv
<1>2. Allocates(code, regs')
  BY <1>1, HeldGrows DEF RegisterInv, Allocates
<1>3. Holds(Tail(work), regs')
  BY <1>1, HeldGrows DEF RegisterInv, Holds
<1>4. Allocates(code', regs') /\ Holds(work', regs')
  BY <1>2, <1>3, HoldsCat
<1> QED
  BY <1>4 DEF RegisterInv, Allocates, Holds

\* A step that emits and leaves no work.
LEMMA EmittingStep ==
  ASSUME LabelInv, RegisterInv, work # <<>>, NEW emitted, Leaves(<<>>),
         code' = code \o emitted, regs' \in Nat, regs' >= regs, Allocates(emitted, regs'),
         ValuesHeld', NamesHeld', UNCHANGED <<loops, scopes, status>>
  PROVE  RegisterInv'
<1>1. ScopesHeld' /\ LoopsShaped' /\ status' \in Status /\ Holds(<<>>, regs')
  BY KeptIsHeld, HoldsNone DEF RegisterInv
<1> QED
  BY <1>1, RegisterStep DEF Leaves

\* A step that emits nothing.
LEMMA SilentStep ==
  ASSUME LabelInv, RegisterInv, work # <<>>, NEW items, Leaves(items),
         code' = code, regs' \in Nat, regs' >= regs, Holds(items, regs'),
         ValuesHeld', NamesHeld', ScopesHeld', LoopsShaped', status' \in Status
  PROVE  RegisterInv'
<1>1. code' = code \o <<>> /\ Allocates(<<>>, regs')
  BY HoldsNone DEF LabelInv, IsSeq
<1> QED
  BY <1>1, RegisterStep DEF Leaves

\* A step that only replaces the item by others.
LEMMA ExpandedStep ==
  ASSUME LabelInv, RegisterInv, work # <<>>, NEW items, Leaves(items), Holds(items, regs),
         UNCHANGED <<code, regs, vals, env, loops, scopes, status>>
  PROVE  RegisterInv'
<1>1. regs' \in Nat /\ regs' >= regs /\ Holds(items, regs') /\ status' \in Status
  BY DEF RegisterInv
<1> QED
  BY <1>1, KeptIsHeld, SilentStep

\* The results are there, and those that are recorded are held.
LEMMA ResultIsHeld ==
  ASSUME LabelInv, BalanceInv, RegisterInv, NEW i \in Nat, i < Len(vals), Result(i) # Missing
  PROVE  Held(Result(i), regs)
<1>1. vals \in Seq(Range(vals))
  BY DEF BalanceInv, IsSeq
<1>2. Len(vals) - i \in DOMAIN vals
  BY <1>1
<1> QED
  BY <1>2 DEF Result, RegisterInv, ValuesHeld

\* Results taken away, and one given, leave held results.
LEMMA TakenIsHeld ==
  ASSUME LabelInv, BalanceInv, RegisterInv, regs' \in Nat, regs' >= regs,
         NEW n \in 0..Len(vals)
  PROVE  /\ vals' = Without(n) => ValuesHeld'
         /\ \A r : vals' = Append(Without(n), r) /\ Held(r, regs') => ValuesHeld'
         /\ \A r : vals' = Append(vals, r) /\ (r = Missing \/ Held(r, regs')) => ValuesHeld'
<1>1. vals \in Seq(Range(vals)) /\ Len(vals) \in Nat /\ \A r : Held(r, regs) => Held(r, regs')
  BY HeldGrows DEF BalanceInv, IsSeq, RegisterInv
<1>2. /\ Without(n) \in Seq(Range(vals)) /\ Len(Without(n)) = Len(vals) - n
      /\ \A i \in 1..(Len(vals) - n) : Without(n)[i] = vals[i]
  BY <1>1 DEF Without
<1>3. \A i \in 1..Len(vals) : vals[i] # Missing => Held(vals[i], regs')
  BY <1>1 DEF RegisterInv, ValuesHeld
<1>4. ASSUME NEW s \in Seq(Range(vals)), NEW r, r = Missing \/ Held(r, regs'),
             vals' = Append(s, r),
             \A i \in 1..Len(s) : s[i] # Missing => Held(s[i], regs')
      PROVE  ValuesHeld'
  <2>1. s \in Seq(Range(vals) \cup {r})
    OBVIOUS
  <2>2. Len(vals') = Len(s) + 1 /\ Len(s) \in Nat /\ vals' \in Seq(Range(vals) \cup {r})
    BY <1>4, <2>1
  <2>3. \A i \in 1..Len(s) : vals'[i] = s[i]
    BY <1>4, <2>1
  <2>4. vals'[Len(s) + 1] = r
    BY <1>4, <2>1
  <2>5. DOMAIN vals' = 1..(Len(s) + 1)
    BY <2>2
  <2> QED
    BY <1>4, <2>2, <2>3, <2>4, <2>5 DEF ValuesHeld
<1>5. vals' = Without(n) => ValuesHeld'
  BY <1>1, <1>2, <1>3 DEF ValuesHeld
<1>6. \A i \in 1..Len(Without(n)) : Without(n)[i] # Missing => Held(Without(n)[i], regs')
  BY <1>1, <1>2, <1>3
<1>7. \A r : vals' = Append(Without(n), r) /\ Held(r, regs') => ValuesHeld'
  BY <1>2, <1>4, <1>6
<1>8. \A r : vals' = Append(vals, r) /\ (r = Missing \/ Held(r, regs')) => ValuesHeld'
  BY <1>1, <1>3, <1>4
<1> QED
  BY <1>5, <1>7, <1>8

\* A name bound to a held register, and the register a name has.
LEMMA BoundIsHeld ==
  ASSUME RegisterInv, regs' \in Nat, regs' >= regs
  PROVE  /\ \A name, r : env' = Bound(name, r) /\ Held(r, regs') => NamesHeld'
         /\ \A name : Lookup(name) # Nil => Held(Lookup(name), regs)
<1>1. regs \in Nat /\ \A r : Held(r, regs) => Held(r, regs')
  BY HeldGrows DEF RegisterInv
<1>2. ASSUME NEW name, NEW r, env' = Bound(name, r), Held(r, regs')
      PROVE  NamesHeld'
  <2>1. DOMAIN env' = DOMAIN env \cup {name}
    BY <1>2 DEF Bound
  <2>2. \A x \in DOMAIN env' : env'[x] = IF x = name THEN r ELSE env[x]
    BY <1>2 DEF Bound
  <2> QED
    BY <1>1, <1>2, <2>1, <2>2 DEF RegisterInv, NamesHeld
<1> QED
  BY <1>2 DEF Lookup, RegisterInv, NamesHeld

-----------------------------------------------------------------------------
(* Registers and kinds. *)

\* The next registers of the counter are held once it has passed them.
LEMMA FreshIsHeld ==
  ASSUME RegisterInv, NEW n \in Nat, NEW m \in Nat, n < m, NEW kind \in Kinds
  PROVE  Held(Typed(n, kind), m) /\ Typed(n, kind).reg = n /\ Typed(n, kind).primitive = kind
  BY DEF Held, Typed, Register, Kinds

\* The kinds that the generator works out are kinds.
LEMMA KindsAreKinds ==
  /\ \A ty : PrimitiveOr(ty, "Integer") \in Kinds /\ Category(ty) \in Kinds
  /\ \A a, b : Widest(a, b) \in Kinds
  /\ \A r, n : Held(r, n) => r.primitive \in Kinds /\ r.reg \in Nat
<1>1. \A ty : PrimitiveOr(ty, "Integer") \in Kinds /\ Category(ty) \in Kinds
  BY DEF PrimitiveOr, Category, Primitive, Kinds
<1>2. \A a, b : Widest(a, b) \in Kinds
  BY DEF Widest, Kinds
<1>3. \A r, n : Held(r, n) => r.primitive \in Kinds /\ r.reg \in Nat
  BY DEF Held, Register, Kinds
<1> QED
  BY <1>1, <1>2, <1>3

\* An operand that, if it is a register, has been handed out or is register 0.
Fits(a, n) == a.kind = "reg" => a.v \in Nat /\ (a.v < n \/ a.v = 0)

\* Held registers, register 0, numbers and labels are such operands.
LEMMA OperandsFit ==
  ASSUME NEW n
  PROVE  /\ \A r : Held(r, n) => Fits(Reg(r), n)
         /\ \A kind : Fits(Reg(Typed(0, kind)), n)
         /\ \A i : Fits(Imm(i), n) /\ Fits(Lab(i), n)
  BY DEF Fits, Held, Register, Reg, Imm, Lab, Typed

\* An instruction on such operands is allocated, whatever else it carries.
LEMMA InstructionFits ==
  ASSUME NEW op, NEW n
  PROVE  /\ Allocated(Insn(op, <<>>), n)
         /\ \A a : Fits(a, n) => Allocated(Insn(op, <<a>>), n)
         /\ \A a, b : Fits(a, n) /\ Fits(b, n) => Allocated(Insn(op, <<a, b>>), n)
         /\ \A a, b, c : Fits(a, n) /\ Fits(b, n) /\ Fits(c, n)
                          => Allocated(Insn(op, <<a, b, c>>), n)
         /\ \A args, x : Allocated(Insn(op, args), n) =>
              /\ Allocated(OfKind(Insn(op, args), x), n)
              /\ Allocated([Insn(op, args) EXCEPT !.literal = x], n)
              /\ Allocated([Insn(op, args) EXCEPT !.relation = x], n)
              /\ Allocated(OfKind([Insn(op, args) EXCEPT !.relation = x], x), n)
<1>1. \A args : Insn(op, args).args = args
  BY DEF Insn
<1>2. \A args, x : /\ OfKind(Insn(op, args), x).args = args
                   /\ [Insn(op, args) EXCEPT !.literal = x].args = args
                   /\ [Insn(op, args) EXCEPT !.relation = x].args = args
                   /\ OfKind([Insn(op, args) EXCEPT !.relation = x], x).args = args
  BY DEF Insn, OfKind
<1> QED
  BY <1>1, <1>2 DEF Allocated, Fits

-----------------------------------------------------------------------------
(* Lists of items. *)

\* Items that carry no register, and those that carry one.
LEMMA ItemsHold ==
  ASSUME NEW n
  PROVE  /\ \A item : item.do \notin {"emit", "yield", "copyTo", "fresh", "pushLoop",
                                      "testVariant", "arm"} => HoldsItem(item, n)
         /\ \A x : HoldsItem(Visit(x), n)
         /\ \A op, l : HoldsItem(JumpOn(op, l), n)
         /\ \A l : HoldsItem(EmitLabel(l), n) /\ HoldsItem(EmitJump(l), n)
         /\ \A insn : Allocated(insn, n) => HoldsItem(Emit(insn), n)
         /\ \A r : Held(r, n) => HoldsItem(Yield(r), n)
<1>1. \A l : Allocated(LabelInsn(l), n) /\ Allocated(Jump(l), n)
  BY InstructionFits, OperandsFit DEF LabelInsn, Jump
<1>2. \A item : item.do \notin {"emit", "yield", "copyTo", "fresh", "pushLoop",
                                "testVariant", "arm"} => HoldsItem(item, n)
  BY DEF HoldsItem
<1>3. \A insn : Allocated(insn, n) => HoldsItem(Emit(insn), n)
  BY DEF HoldsItem, Emit
<1>4. \A l : HoldsItem(EmitLabel(l), n) /\ HoldsItem(EmitJump(l), n)
  BY <1>1, <1>3 DEF EmitLabel, EmitJump
<1>5. \A x : HoldsItem(Visit(x), n)
  BY <1>2 DEF Visit
<1>6. \A op, l : HoldsItem(JumpOn(op, l), n)
  BY <1>2 DEF JumpOn
<1>7. \A r : Held(r, n) => HoldsItem(Yield(r), n)
  BY DEF HoldsItem, Yield
<1> QED
  BY <1>2, <1>3, <1>4, <1>5, <1>6, <1>7

\* Short lists.
LEMMA HoldsSome ==
  ASSUME NEW n
  PROVE  /\ \A a, b : HoldsItem(a, n) /\ HoldsItem(b, n) => Holds(<<a, b>>, n)
         /\ \A a, b, c : HoldsItem(a, n) /\ HoldsItem(b, n) /\ HoldsItem(c, n)
                          => Holds(<<a, b, c>>, n)
<1>1. \A a, b : IsSeq(<<a, b>>) /\ DOMAIN <<a, b>> = {1, 2}
  <2> TAKE a, b
  <2>1. IsSeq(<<a, b>>)
    BY SeqIn, <<a, b>> \in Seq({a, b})
  <2> QED
    BY <2>1
<1>2. \A a, b, c : IsSeq(<<a, b, c>>) /\ DOMAIN <<a, b, c>> = {1, 2, 3}
  <2> TAKE a, b, c
  <2>1. IsSeq(<<a, b, c>>)
    BY SeqIn, <<a, b, c>> \in Seq({a, b, c})
  <2> QED
    BY <2>1
<1> QED
  BY <1>1, <1>2 DEF Holds

\* The visits of a list of nodes.
LEMMA VisitsHold ==
  ASSUME NEW S, NEW nodes \in Seq(S), NEW n
  PROVE  Holds(VisitAll(nodes), n)
<1>1. VisitAll(nodes) \in Seq({Visit(nodes[i]) : i \in DOMAIN nodes})
  BY DEF VisitAll
<1>2. IsSeq(VisitAll(nodes))
  BY <1>1, SeqIn
<1>3. \A i \in DOMAIN VisitAll(nodes) : VisitAll(nodes)[i] = Visit(nodes[i])
  BY DEF VisitAll
<1> QED
  BY <1>2, <1>3, ItemsHold DEF Holds

-----------------------------------------------------------------------------
(* The steps that replace their item by others and do no more. *)

\* The visitors that expand into visits and jumps.
LEMMA StatementRegisters ==
  ASSUME LabelInv, RegisterInv,
         \/ ExpressionStatement \/ Block \/ Return \/ Break \/ Continue \/ Function
         \/ Declaration \/ If
  PROVE  RegisterInv'
<1>1. /\ work # <<>> /\ UNCHANGED <<code, regs, vals, env, loops, scopes, status>>
  BY DEF ExpressionStatement, Block, Return, Break, Continue, Function, Declaration, If,
     Visiting, Doing, Expands, others, fixed
<1>2. \E items : Leaves(items) /\ Holds(items, regs)
  <2>1. CASE ExpressionStatement
    <3>1. Leaves(<<Visit(Node.e), [do |-> "forget", n |-> 1]>>)
      BY <2>1 DEF ExpressionStatement, Expands
    <3>2. HoldsItem([do |-> "forget", n |-> 1], regs)
      BY ItemsHold
    <3> QED
      BY <3>1, <3>2, ItemsHold, HoldsSome
  <2>2. CASE Block
    BY <2>2, StatementParts, VisitsHold DEF Block, Expands
  <2>3. CASE Return
    <3> DEFINE halt == Emit(Insn("HALT", <<>>))
               value == IF Node.value = Nil THEN <<>>
                        ELSE <<Visit(Node.value), [do |-> "toR0"]>>
    <3>1. Leaves(value \o <<halt>>)
      BY <2>3 DEF Return, Expands
    <3>2. Holds(value, regs)
      <4>1. HoldsItem([do |-> "toR0"], regs)
        BY ItemsHold
      <4> QED
        BY <4>1, ItemsHold, HoldsSome, HoldsNone
    <3>3. Holds(<<halt>>, regs)
      BY InstructionFits, ItemsHold, HoldsNone
    <3> HIDE DEF value, halt
    <3> QED
      BY <3>1, <3>2, <3>3, HoldsCat
  <2>4. CASE Break \/ Continue
    <3>1. Leaves(<<>>) \/ \E l : Leaves(<<EmitJump(l)>>)
      BY <2>4 DEF Break, Continue, Expands
    <3> QED
      BY <3>1, ItemsHold, HoldsNone
  <2>5. CASE Function
    <3>1. Leaves(VisitAll(Node.body)) \/ Leaves(<<>>)
      BY <2>5 DEF Function
    <3>2. Node.body \in Seq(Stmts)
      BY <2>5, StatementParts DEF Function
    <3> QED
      BY <3>1, <3>2, VisitsHold, HoldsNone
  <2>6. CASE Declaration
    BY <2>6, HoldsNone DEF Declaration
  <2>7. CASE If
    <3> DEFINE branch == [do |-> "branch", node |-> Node, end |-> labels]
    <3>1. Leaves(<<Visit(Node.cond), branch, EmitLabel(labels)>>)
      BY <2>7 DEF If
    <3>2. HoldsItem(branch, regs)
      BY ItemsHold
    <3> HIDE DEF branch
    <3> QED
      BY <3>1, <3>2, ItemsHold, HoldsSome
  <2> QED
    BY <2>1, <2>2, <2>3, <2>4, <2>5, <2>6, <2>7
<1> QED
  BY <1>1, <1>2, ExpandedStep

\* The visitors of expressions do likewise.
LEMMA ExpressionRegisters ==
  ASSUME LabelInv, RegisterInv,
         \/ Binary \/ Grouping \/ Require \/ Unary \/ Assign \/ Construct \/ CallPrint
         \/ CallAnything \/ CallFunction \/ RecordLiteral \/ EnumLiteral \/ Match
  PROVE  RegisterInv'
<1>1. /\ work # <<>> /\ UNCHANGED <<code, regs, vals, env, loops, scopes, status>>
  BY DEF Binary, Grouping, Require, Unary, Assign, Construct, CallPrint, CallAnything,
     CallFunction, RecordLiteral, EnumLiteral, Match, Visiting, Doing, Expands, others, fixed
<1>2. \A what \in {"operate", "negate", "assignTo", "make", "call", "variant", "dispatch"} :
        \A x : HoldsItem(Then(what, x), regs)
  BY ItemsHold DEF Then
<1>3. /\ HoldsItem([do |-> "require"], regs) /\ HoldsItem([do |-> "note"], regs)
      /\ HoldsItem([do |-> "zero"], regs) /\ \A n : HoldsItem([do |-> "forget", n |-> n], regs)
  BY ItemsHold
<1>4. \E items : Leaves(items) /\ Holds(items, regs)
  <2>1. CASE Binary
    BY <2>1, <1>2, ItemsHold, HoldsSome DEF Binary, Expands
  <2>2. CASE Grouping \/ Require
    BY <2>2, <1>3, ItemsHold, HoldsSome, HoldsNone DEF Grouping, Require, Expands
  <2>3. CASE Unary \/ Assign \/ Construct \/ Match
    BY <2>3, <1>2, ItemsHold, HoldsSome DEF Unary, Assign, Construct, Match, Expands
  <2>4. CASE CallPrint
    BY <2>4, <1>3, ItemsHold, HoldsSome DEF CallPrint, Expands
  <2>5. CASE CallAnything
    <3>1. Node.args \in Seq(Exprs)
      BY <2>5, ExpressionParts DEF CallAnything
    <3>2. Leaves(VisitAll(Node.args) \o
                 <<[do |-> "forget", n |-> Len(Node.args)], [do |-> "zero"]>>)
      BY <2>5 DEF CallAnything, Expands
    <3>3. Holds(<<[do |-> "forget", n |-> Len(Node.args)], [do |-> "zero"]>>, regs)
      BY <1>3, HoldsSome
    <3> QED
      BY <3>1, <3>2, <3>3, VisitsHold, HoldsCat
  <2>6. CASE CallFunction
    <3>1. Node.args \in Seq(Exprs)
      BY <2>6, ExpressionParts DEF CallFunction
    <3>2. Leaves(VisitAll(Node.args) \o <<Then("call", Node)>>)
      BY <2>6 DEF CallFunction, Expands
    <3>3. Holds(<<Then("call", Node)>>, regs)
      BY <1>2, HoldsNone
    <3> QED
      BY <3>1, <3>2, <3>3, VisitsHold, HoldsCat
  <2>7. CASE RecordLiteral
    <3> DEFINE forget == [do |-> "forget", n |-> Len(Node.fields)]
               fresh == [do |-> "fresh", primitive |-> PrimitiveOr(Node.ty, "Integer")]
    <3>1. Node.fields \in Seq(Exprs)
      BY <2>7, ExpressionParts DEF RecordLiteral
    <3>2. Leaves(VisitAll(Node.fields) \o <<forget, fresh>>)
      BY <2>7 DEF RecordLiteral, Expands
    <3>3. HoldsItem(fresh, regs) /\ HoldsItem(forget, regs)
      BY <1>3, KindsAreKinds DEF HoldsItem
    <3> HIDE DEF forget, fresh
    <3>4. Holds(<<forget, fresh>>, regs)
      BY <3>3, HoldsSome
    <3> QED
      BY <3>1, <3>2, <3>4, VisitsHold, HoldsCat
  <2>8. CASE EnumLiteral
    <3> DEFINE payload == IF Node.payload = Nil THEN <<>> ELSE <<Visit(Node.payload)>>
    <3>1. Leaves(payload \o <<Then("variant", Node)>>)
      BY <2>8 DEF EnumLiteral, Expands
    <3>2. Holds(payload, regs) /\ Holds(<<Then("variant", Node)>>, regs)
      BY <1>2, ItemsHold, HoldsNone
    <3> HIDE DEF payload
    <3> QED
      BY <3>1, <3>2, HoldsCat
  <2> QED
    BY <2>1, <2>2, <2>3, <2>4, <2>5, <2>6, <2>7, <2>8
<1> QED
  BY <1>1, <1>4, ExpandedStep

-----------------------------------------------------------------------------
(* The steps that emit. *)

\* A step that asks for its operand has it, held.
LEMMA OperandIsHeld ==
  ASSUME LabelInv, BalanceInv, RegisterInv, Recorded(1),
         NEW what \in {"jumpOn", "bindTo", "branch", "toR0", "require", "negate", "assignTo",
                       "make", "note", "dispatch", "copyTo"}, Doing(what)
  PROVE  /\ 1 \in 0..Len(vals) /\ Held(Result(0), regs) /\ regs \in Nat
         /\ \A m \in Nat : m >= regs => Held(Result(0), m) /\ Fits(Reg(Result(0)), m)
         /\ work # <<>> /\ status = "running"
<1>1. work # <<>> /\ Head(work).do = what /\ status = "running"
  BY DEF Doing
<1>2. Takes("vals", Head(work)) = 1
  BY <1>1 DEF Takes
<1>3. Len(vals) \in Nat /\ 1 <= Len(vals)
  BY <1>1, <1>2, EnoughResults
<1>4. Result(0) # Missing
  BY DEF Recorded
<1>5. Held(Result(0), regs) /\ regs \in Nat
  BY <1>3, <1>4, ResultIsHeld DEF RegisterInv
<1>6. \A m \in Nat : m >= regs => Held(Result(0), m)
  BY <1>5, HeldGrows
<1> QED
  BY <1>1, <1>3, <1>5, <1>6, OperandsFit

\* A copy names its two registers and no other.
LEMMA CopyFits ==
  ASSUME NEW dest, NEW r, NEW n, Fits(Reg(dest), n), Fits(Reg(r), n)
  PROVE  Allocates(CopyTo(dest, r), n)
<1>1. Allocated(OfKind(Insn("MOV", <<Reg(dest), Reg(r)>>), dest.primitive), n)
  BY InstructionFits
<1>2. \/ CopyTo(dest, r) = <<>>
      \/ CopyTo(dest, r) = <<OfKind(Insn("MOV", <<Reg(dest), Reg(r)>>), dest.primitive)>>
  BY DEF CopyTo
<1> QED
  BY <1>1, <1>2, HoldsNone

\* The steps that only use up their operand.
LEMMA UsedRegisters ==
  ASSUME LabelInv, BalanceInv, RegisterInv, JumpOnCondition \/ NotePayload \/ BindTo
                                            \/ ReturnValue \/ CopyResult
  PROVE  RegisterInv'
<1>1. PICK what \in {"jumpOn", "note", "bindTo", "toR0", "copyTo"} : Doing(what) /\ Recorded(1)
  BY DEF JumpOnCondition, NotePayload, BindTo, ReturnValue, CopyResult
<1>2. /\ 1 \in 0..Len(vals) /\ Held(Result(0), regs) /\ Fits(Reg(Result(0)), regs)
      /\ regs \in Nat /\ work # <<>>
  BY <1>1, OperandIsHeld
<1>3. /\ Leaves(<<>>) /\ regs' = regs /\ vals' = Without(1) /\ UNCHANGED <<loops, scopes, status>>
  BY DEF JumpOnCondition, NotePayload, BindTo, ReturnValue, CopyResult, fixed
<1>4. regs' \in Nat /\ regs' >= regs
  BY <1>2, <1>3
<1>5. ValuesHeld'
  BY <1>2, <1>3, <1>4, TakenIsHeld
<1>6. NamesHeld'
  <2>1. CASE BindTo
    BY <2>1, <1>2, <1>3, <1>4, BoundIsHeld DEF BindTo
  <2>2. CASE env' = env
    BY <2>2, <1>4, KeptIsHeld
  <2> QED
    BY <2>1, <2>2 DEF JumpOnCondition, NotePayload, ReturnValue, CopyResult
<1>7. \E emitted : Emits(emitted) /\ Allocates(emitted, regs)
  <2>1. CASE JumpOnCondition
    <3>1. Allocated(JumpIf(Head(work).op, Head(work).label, Result(0)), regs)
      BY <1>2, InstructionFits, OperandsFit DEF JumpIf
    <3> QED
      BY <2>1, <3>1, HoldsNone DEF JumpOnCondition
  <2>2. CASE NotePayload
    <3>1. Allocated(Note(<<Reg(Result(0))>>), regs)
      BY <1>2, InstructionFits DEF Note
    <3> QED
      BY <2>2, <3>1, HoldsNone DEF NotePayload
  <2>3. CASE BindTo
    <3>1. code' = code \o <<>>
      BY <2>3 DEF BindTo, LabelInv, IsSeq
    <3> QED
      BY <3>1, HoldsNone DEF Emits
  <2>4. CASE ReturnValue
    BY <2>4, <1>2, OperandsFit, CopyFits DEF ReturnValue
  <2>5. CASE CopyResult
    <3>1. Head(work).do = "copyTo" /\ HoldsItem(Head(work), regs)
      BY <2>5, <1>2, HeadAndTail DEF CopyResult, Doing, LabelInv, RegisterInv
    <3>2. Fits(Reg(Head(work).reg), regs)
      BY <3>1, OperandsFit DEF HoldsItem
    <3> QED
      BY <2>5, <1>2, <3>2, CopyFits DEF CopyResult
  <2> QED
    BY <2>1, <2>2, <2>3, <2>4, <2>5
<1> QED
  BY <1>2, <1>3, <1>4, <1>5, <1>6, <1>7, EmittingStep DEF Emits

\* The counter's next register takes the result.
LEMMA GivenRegister ==
  ASSUME LabelInv, BalanceInv, RegisterInv, work # <<>>, Leaves(<<>>),
         regs' = regs + 1, UNCHANGED <<env, loops, scopes, status>>,
         NEW insn, code' = code \o <<insn>>, Allocated(insn, regs'),
         NEW n \in 0..Len(vals), NEW kind \in Kinds,
         vals' = Append(Without(n), Typed(regs, kind)) \/ vals' = Append(vals, Typed(regs, kind))
  PROVE  RegisterInv'
<1>1. regs' \in Nat /\ regs' >= regs /\ regs \in Nat
  BY DEF RegisterInv
<1>2. Held(Typed(regs, kind), regs')
  BY <1>1, FreshIsHeld
<1>3. ValuesHeld' /\ NamesHeld'
  BY <1>1, <1>2, TakenIsHeld, KeptIsHeld
<1>4. Allocates(<<insn>>, regs')
  BY HoldsNone
<1> QED
  BY <1>1, <1>3, <1>4, EmittingStep

\* The steps that emit one instruction on a register of their own.
LEMMA GivingRegisters ==
  ASSUME LabelInv, BalanceInv, RegisterInv, Literal \/ Handle \/ Zero \/ VectorLiteral
  PROVE  RegisterInv'
<1> DEFINE dest == Typed(regs, "Integer")
<1>0. work # <<>> /\ Leaves(<<>>) /\ regs' = regs + 1 /\ UNCHANGED <<env, loops, scopes, status>>
  BY DEF Literal, Handle, Zero, VectorLiteral, Visiting, Doing, fixed
<1>1. regs \in Nat /\ regs' \in Nat /\ regs < regs' /\ 0 \in 0..Len(vals) /\ "Integer" \in Kinds
      /\ "Boolean" \in Kinds
  BY <1>0, EnoughResults DEF RegisterInv, Kinds
<1>2. \A kind \in Kinds : Fits(Reg(Typed(regs, kind)), regs')
  BY <1>1, FreshIsHeld, OperandsFit
<1>3. CASE Literal
  <2> DEFINE kind == IF Node.of = "bool" THEN "Boolean" ELSE "Integer"
             d == Typed(regs, kind)
             text == [OfKind(Insn("LOADI", <<Reg(d)>>), kind) EXCEPT !.literal = "Symbol"]
             insn == IF Node.of = "string" THEN text ELSE LoadImm(d, Node.whole)
  <2>1. code' = code \o <<insn>> /\ vals' = Append(vals, d) /\ kind \in Kinds
    BY <1>1, <1>3 DEF Literal, Emits
  <2>2. Fits(Reg(d), regs')
    BY <1>2, <2>1
  <2>3. Allocated(LoadImm(d, Node.whole), regs')
    BY <2>2, OperandsFit, InstructionFits DEF LoadImm
  <2>4. Allocated(text, regs')
    <3>1. text.args = <<Reg(d)>>
      BY DEF OfKind, Insn
    <3> QED
      BY <2>2, <3>1 DEF Allocated, Fits
  <2>5. Allocated(insn, regs')
    BY <2>3, <2>4
  <2> HIDE DEF insn, kind
  <2> QED
    BY <1>0, <1>1, <2>1, <2>5, GivenRegister
<1>4. CASE Handle
  <2>1. /\ vals' = Append(vals, dest)
        /\ \/ code' = code \o <<Insn("MAKE_OPTION_NONE", <<Reg(dest)>>)>>
           \/ code' = code \o <<[Insn("WEIGHTS_LOAD", <<Reg(dest)>>) EXCEPT !.literal = "Symbol"]>>
    BY <1>4 DEF Handle, Emits
  <2>2. /\ Allocated(Insn("MAKE_OPTION_NONE", <<Reg(dest)>>), regs')
        /\ Allocated([Insn("WEIGHTS_LOAD", <<Reg(dest)>>) EXCEPT !.literal = "Symbol"], regs')
    BY <1>1, <1>2, InstructionFits
  <2> QED
    BY <1>0, <1>1, <2>1, <2>2, GivenRegister
<1>5. CASE Zero
  <2>1. code' = code \o <<Insn("LOADI", <<Reg(dest), Imm(0)>>)>> /\ vals' = Append(vals, dest)
    BY <1>5 DEF Zero, Emits
  <2>2. Allocated(Insn("LOADI", <<Reg(dest), Imm(0)>>), regs')
    BY <1>1, <1>2, InstructionFits, OperandsFit
  <2> QED
    BY <1>0, <1>1, <2>1, <2>2, GivenRegister
<1>6. CASE VectorLiteral
  <2> DEFINE insn == [Insn("LOADI", <<Reg(dest), Imm(pools.tensors + 1)>>) EXCEPT
                        !.literal = "Tensor"]
  <2>1. code' = code \o <<insn>> /\ vals' = Append(vals, dest)
    BY <1>6 DEF VectorLiteral, Emits
  <2>2. Allocated(insn, regs')
    BY <1>1, <1>2, InstructionFits, OperandsFit
  <2> HIDE DEF insn
  <2> QED
    BY <1>0, <1>1, <2>1, <2>2, GivenRegister
<1> QED
  BY <1>3, <1>4, <1>5, <1>6

\* Negate and Make read their operand into the next register.
LEMMA ReadingRegisters ==
  ASSUME LabelInv, BalanceInv, RegisterInv, Negate \/ Make
  PROVE  RegisterInv'
<1>0. /\ work # <<>> /\ Leaves(<<>>) /\ regs' = regs + 1 /\ UNCHANGED <<env, loops, scopes, status>>
      /\ (Doing("negate") \/ Doing("make")) /\ Recorded(1)
  BY DEF Negate, Make, Doing, fixed
<1>1. /\ regs \in Nat /\ regs' \in Nat /\ regs < regs' /\ regs' >= regs /\ 1 \in 0..Len(vals)
      /\ Held(Result(0), regs)
  BY <1>0, OperandIsHeld
<1>2. /\ Fits(Reg(Result(0)), regs') /\ Result(0).primitive \in Kinds /\ "Integer" \in Kinds
      /\ \A kind \in Kinds : Fits(Reg(Typed(regs, kind)), regs')
  BY <1>0, <1>1, OperandIsHeld, FreshIsHeld, OperandsFit, KindsAreKinds DEF Kinds
<1>3. CASE Negate
  <2> DEFINE dest == Typed(regs, Result(0).primitive)
             insn == OfKind(Insn("NEG", <<Reg(dest), Reg(Result(0))>>), dest.primitive)
  <2>1. code' = code \o <<insn>> /\ vals' = Append(Without(1), dest)
    BY <1>3 DEF Negate, Emits
  <2>2. Allocated(insn, regs')
    BY <1>2, InstructionFits
  <2> HIDE DEF insn
  <2> QED
    BY <1>0, <1>1, <1>2, <2>1, <2>2, GivenRegister
<1>4. CASE Make
  <2> DEFINE dest == Typed(regs, "Integer")
             insn == Insn(Makers[Node.name], <<Reg(dest), Reg(Result(0))>>)
  <2>1. code' = code \o <<insn>> /\ vals' = Append(Without(1), dest)
    BY <1>4 DEF Make, Emits
  <2>2. Allocated(insn, regs')
    BY <1>2, InstructionFits
  <2> HIDE DEF insn
  <2> QED
    BY <1>0, <1>1, <1>2, <2>1, <2>2, GivenRegister
<1> QED
  BY <1>3, <1>4

\* The steps that hand on registers and results without an instruction.
LEMMA HandedRegisters ==
  ASSUME LabelInv, BalanceInv, RegisterInv, YieldRegister \/ Fresh \/ Forget
  PROVE  RegisterInv'
<1>0. /\ work # <<>> /\ Leaves(<<>>) /\ regs' \in {regs, regs + 1}
      /\ UNCHANGED <<code, env, loops, scopes, status>>
  BY DEF YieldRegister, Fresh, Forget, Doing, fixed
<1>1. regs \in Nat /\ regs' \in Nat /\ regs' >= regs /\ 0 \in 0..Len(vals)
  BY <1>0, EnoughResults DEF RegisterInv
<1>2. HoldsItem(Head(work), regs)
  BY <1>0, HeadAndTail DEF LabelInv, RegisterInv
<1>3. ValuesHeld'
  <2>1. CASE YieldRegister
    <3>1. vals' = Append(vals, Head(work).reg) /\ Held(Head(work).reg, regs) /\ regs' = regs
      BY <2>1, <1>2 DEF YieldRegister, Doing, HoldsItem
    <3> QED
      BY <1>1, <3>1, TakenIsHeld
  <2>2. CASE Fresh
    <3>1. /\ vals' = Append(vals, Typed(regs, Head(work).primitive))
          /\ Head(work).primitive \in Kinds /\ regs' = regs + 1
      BY <2>2, <1>2 DEF Fresh, Doing, HoldsItem
    <3>2. Held(Typed(regs, Head(work).primitive), regs')
      BY <1>1, <3>1, FreshIsHeld
    <3> QED
      BY <1>1, <3>1, <3>2, TakenIsHeld
  <2>3. CASE Forget
    <3>1. Head(work).do = "forget" /\ vals' = Without(Head(work).n)
      BY <2>3 DEF Forget, Doing
    <3>2. Takes("vals", Head(work)) = Head(work).n
      BY <3>1 DEF Takes
    <3>3. Head(work).n \in 0..Len(vals)
      BY <1>0, <3>2, EnoughResults
    <3> QED
      BY <1>1, <3>1, <3>3, TakenIsHeld
  <2> QED
    BY <2>1, <2>2, <2>3
<1>4. NamesHeld' /\ ScopesHeld' /\ LoopsShaped' /\ status' \in Status
  BY <1>0, <1>1, KeptIsHeld DEF RegisterInv
<1> QED
  BY <1>0, <1>1, <1>3, <1>4, HoldsNone, SilentStep

\* A name is its register, or Missing, or a None of its own.
LEMMA VariableRegisters ==
  ASSUME LabelInv, BalanceInv, RegisterInv, Variable
  PROVE  RegisterInv'
<1> DEFINE found == IF Lookup(Node.name) # Nil \/ Node.base = Nil
                    THEN Lookup(Node.name)
                    ELSE Lookup(Node.base)
           dest == Typed(regs, "Integer")
           insn == Insn("MAKE_OPTION_NONE", <<Reg(dest)>>)
<1>0. work # <<>> /\ Leaves(<<>>) /\ UNCHANGED <<env, loops, scopes, status>>
  BY DEF Variable, Visiting, Doing, fixed
<1>1. regs \in Nat /\ 0 \in 0..Len(vals) /\ "Integer" \in Kinds /\ regs + 1 \in Nat
  BY <1>0, EnoughResults DEF RegisterInv, Kinds
<1>2. \/ /\ vals' = Append(vals, found) /\ found # Nil
         /\ UNCHANGED <<code, regs>>
      \/ code' = code \o <<insn>> /\ vals' = Append(vals, dest) /\ regs' = regs + 1
      \/ vals' = Append(vals, Missing) /\ UNCHANGED <<code, regs>>
  BY DEF Variable, Emits
<1>3. found # Nil => Held(found, regs)
  <2>1. \A name : Lookup(name) # Nil => Held(Lookup(name), regs)
    BY <1>1, BoundIsHeld DEF RegisterInv, NamesHeld, Lookup
  <2> QED
    BY <2>1
<1> HIDE DEF found
<1>4. CASE code' = code \o <<insn>> /\ vals' = Append(vals, dest) /\ regs' = regs + 1
  <2>1. Held(dest, regs')
    BY <1>1, <1>4, FreshIsHeld
  <2>2. Allocated(insn, regs')
    BY <2>1, OperandsFit, InstructionFits
  <2> QED
    BY <1>0, <1>1, <1>4, <2>2, GivenRegister
<1>5. CASE /\ vals' = Append(vals, Missing) \/ (vals' = Append(vals, found) /\ found # Nil)
           /\ UNCHANGED <<code, regs>>
  <2>1. regs' \in Nat /\ regs' >= regs
    BY <1>1, <1>5
  <2>2. ValuesHeld'
    BY <1>1, <1>3, <1>5, <2>1, TakenIsHeld
  <2>3. NamesHeld' /\ ScopesHeld' /\ LoopsShaped' /\ status' \in Status
    BY <1>0, <2>1, KeptIsHeld DEF RegisterInv
  <2> QED
    BY <1>0, <1>5, <2>1, <2>2, <2>3, HoldsNone, SilentStep
<1> QED
  BY <1>2, <1>4, <1>5

\* A list of items from a set of items that hold their registers.
LEMMA ListHolds ==
  ASSUME NEW n, NEW S, NEW s \in Seq(S), \A item \in S : HoldsItem(item, n)
  PROVE  Holds(s, n)
<1>1. IsSeq(s) /\ \A i \in DOMAIN s : s[i] \in S
  BY SeqIn
<1> QED
  BY <1>1 DEF Holds

\* The instruction at hand is emitted as it was allocated.
LEMMA EmitNextRegisters ==
  ASSUME LabelInv, RegisterInv, EmitNext
  PROVE  RegisterInv'
<1>1. /\ work # <<>> /\ Head(work).do = "emit" /\ Leaves(<<>>)
      /\ code' = code \o <<Head(work).insn>>
      /\ UNCHANGED <<regs, vals, env, loops, scopes, status>>
  BY DEF EmitNext, Doing, Emits, fixed
<1>2. HoldsItem(Head(work), regs)
  BY <1>1, HeadAndTail DEF LabelInv, RegisterInv
<1>3. Allocated(Head(work).insn, regs) /\ regs \in Nat
  BY <1>1, <1>2 DEF HoldsItem, RegisterInv
<1>4. Allocates(<<Head(work).insn>>, regs)
  BY <1>3, HoldsNone
<1>5. regs' \in Nat /\ regs' >= regs /\ Allocates(<<Head(work).insn>>, regs')
  BY <1>1, <1>3, <1>4
<1>6. ValuesHeld' /\ NamesHeld'
  BY <1>1, <1>5, KeptIsHeld
<1> QED
  BY <1>1, <1>5, <1>6, EmittingStep

\* A variant goes to the next register, its payload is the last result.
LEMMA MakeVariantRegisters ==
  ASSUME LabelInv, BalanceInv, RegisterInv, MakeVariant
  PROVE  RegisterInv'
<1> DEFINE kind == PrimitiveOr(Node.ty, "Integer")
           dest == Typed(regs, kind)
           id == Imm(GlobalVariantId(Node.enumId, Node.variantId))
           known == Node.variantId >= 0
           carried == IF Node.payload = Nil THEN 0 ELSE 1
           insn == CASE ~known -> Insn("TRAP", <<>>)
                     [] known /\ carried = 1 ->
                          Insn("MAKE_ENUM_VARIANT_PAYLOAD", <<Reg(dest), Reg(Result(0)), id>>)
                     [] OTHER -> Insn("MAKE_ENUM_VARIANT", <<Reg(dest), id>>)
<1>1. /\ work # <<>> /\ Head(work).do = "variant" /\ Leaves(<<>>) /\ code' = code \o <<insn>>
      /\ regs' = regs + 1 /\ UNCHANGED <<env, loops, scopes, status>>
      /\ vals' = Append(Without(carried), dest) /\ (known => Recorded(carried))
  BY DEF MakeVariant, Doing, fixed, Emits
<1>2. Takes("vals", Head(work)) = carried /\ carried \in {0, 1}
  BY <1>1 DEF Takes, Node
<1>3. carried \in 0..Len(vals) /\ Len(vals) \in Nat
  BY <1>1, <1>2, EnoughResults
<1>4. regs \in Nat /\ regs' \in Nat /\ regs < regs' /\ kind \in Kinds /\ regs' >= regs
  BY <1>1, KindsAreKinds DEF RegisterInv
<1>5. Fits(Reg(dest), regs') /\ Fits(id, regs')
  <2> HIDE DEF kind
  <2> QED
    BY <1>4, FreshIsHeld, OperandsFit
<1>6. known /\ carried = 1 => Fits(Reg(Result(0)), regs')
  <2> SUFFICES ASSUME known, carried = 1 PROVE Fits(Reg(Result(0)), regs')
    OBVIOUS
  <2>1. Result(0) # Missing
    BY <1>1 DEF Recorded
  <2>2. Held(Result(0), regs)
    BY <1>3, <2>1, ResultIsHeld
  <2> QED
    BY <1>4, <2>2, HeldGrows, OperandsFit
<1> HIDE DEF kind, dest, id
<1>7. Allocated(insn, regs')
  BY <1>5, <1>6, InstructionFits
<1> HIDE DEF insn, carried, known
<1> QED
  BY <1>1, <1>3, <1>4, <1>7, GivenRegister DEF dest

\* A name without an initializer gets the next register.
LEMMA DeclareRegisters ==
  ASSUME LabelInv, RegisterInv, Declare
  PROVE  RegisterInv'
<1>1. /\ work # <<>> /\ UNCHANGED <<code, vals, loops, scopes, status>>
      /\ regs \in Nat /\ "Integer" \in Kinds
  BY DEF Declare, Visiting, Doing, fixed, RegisterInv, Kinds
<1>2. CASE Node.init = Nil
  <2>1. env' = Bound(Node.name, Typed(regs, "Integer")) /\ regs' = regs + 1 /\ Leaves(<<>>)
    BY <1>2 DEF Declare
  <2>2. regs' \in Nat /\ regs' >= regs /\ Held(Typed(regs, "Integer"), regs')
    BY <1>1, <2>1, FreshIsHeld
  <2>3. NamesHeld'
    BY <2>1, <2>2, BoundIsHeld
  <2>4. ValuesHeld' /\ ScopesHeld' /\ LoopsShaped' /\ status' \in Status
    BY <1>1, <2>2, KeptIsHeld DEF RegisterInv
  <2> QED
    BY <1>1, <2>1, <2>2, <2>3, <2>4, HoldsNone, SilentStep
<1>3. CASE Node.init # Nil
  <2>1. Leaves(<<Visit(Node.init), Then("bindTo", Node)>>) /\ UNCHANGED <<regs, env>>
    BY <1>3 DEF Declare
  <2>2. HoldsItem(Then("bindTo", Node), regs)
    BY ItemsHold DEF Then
  <2>3. Holds(<<Visit(Node.init), Then("bindTo", Node)>>, regs)
    BY <2>2, ItemsHold, HoldsSome
  <2> QED
    BY <1>1, <2>1, <2>3, ExpandedStep
<1> QED
  BY <1>2, <1>3

\* An assignment copies to the name's register, or binds the name.
LEMMA AssignToRegisters ==
  ASSUME LabelInv, BalanceInv, RegisterInv, AssignTo
  PROVE  RegisterInv'
<1> DEFINE found == Lookup(Node.name)
<1>1. /\ Leaves(<<>>) /\ UNCHANGED <<regs, loops, scopes, status>>
      /\ Doing("assignTo") /\ Recorded(1)
  BY DEF AssignTo, fixed
<1>2. /\ 1 \in 0..Len(vals) /\ Held(Result(0), regs) /\ Fits(Reg(Result(0)), regs)
      /\ regs \in Nat /\ work # <<>>
  BY <1>1, OperandIsHeld
<1>3. regs' \in Nat /\ regs' >= regs
  BY <1>1, <1>2
<1>4. CASE found # Nil
  <2>1. code' = code \o CopyTo(found, Result(0)) /\ vals' = Append(Without(1), found)
        /\ env' = env
    BY <1>4 DEF AssignTo, Emits
  <2>2. Held(found, regs)
    BY <1>3, <1>4, BoundIsHeld
  <2>3. Allocates(CopyTo(found, Result(0)), regs')
    BY <1>1, <1>2, <2>2, OperandsFit, CopyFits
  <2>4. ValuesHeld' /\ NamesHeld'
    BY <1>1, <1>2, <1>3, <2>1, <2>2, TakenIsHeld, KeptIsHeld
  <2> QED
    BY <1>1, <1>2, <1>3, <2>1, <2>3, <2>4, EmittingStep
<1>5. CASE found = Nil
  <2>1. env' = Bound(Node.name, Result(0)) /\ UNCHANGED <<code, vals>>
    BY <1>5 DEF AssignTo
  <2>2. NamesHeld'
    BY <1>1, <1>2, <1>3, <2>1, BoundIsHeld
  <2>3. ValuesHeld' /\ ScopesHeld' /\ LoopsShaped' /\ status' \in Status
    BY <1>1, <1>3, <2>1, KeptIsHeld DEF RegisterInv
  <2> QED
    BY <1>1, <1>2, <1>3, <2>1, <2>2, <2>3, HoldsNone, SilentStep
<1> QED
  BY <1>4, <1>5

\* The loops that are open have an entry and an exit, and no more.
LEMMA PushAndPopRegisters ==
  ASSUME LabelInv, RegisterInv, PushLoop \/ PopLoop
  PROVE  RegisterInv'
<1>1. /\ work # <<>> /\ Leaves(<<>>) /\ UNCHANGED <<code, regs, vals, env, scopes, status>>
      /\ regs \in Nat /\ loops \in Seq(Range(loops))
  BY DEF PushLoop, PopLoop, Doing, RegisterInv, LabelInv, IsSeq
<1>2. LoopsShaped'
  <2>1. CASE PushLoop
    <3> DEFINE info == Head(work).info
    <3>1. loops' = Append(loops, info) /\ Head(work).do = "pushLoop"
      BY <2>1 DEF PushLoop, Doing
    <3>2. HoldsItem(Head(work), regs)
      BY <1>1, HeadAndTail DEF LabelInv, RegisterInv
    <3>3. info = LoopInfo(info.entry, info.exit)
      BY <3>1, <3>2 DEF HoldsItem
    <3> HIDE DEF info
    <3>4. loops \in Seq(Range(loops) \cup {info})
      BY <1>1
    <3>5. \A i \in DOMAIN loops' : loops'[i] = info \/ (i \in DOMAIN loops /\ loops'[i] = loops[i])
      BY <3>1, <3>4
    <3> QED
      BY <3>3, <3>5 DEF RegisterInv, LoopsShaped
  <2>2. CASE PopLoop
    <3>1. loops' = Front(loops)
      BY <2>2 DEF PopLoop
    <3>2. \A i \in DOMAIN Front(loops) : i \in DOMAIN loops /\ Front(loops)[i] = loops[i]
      BY <1>1 DEF Front
    <3> QED
      BY <3>1, <3>2 DEF RegisterInv, LoopsShaped
  <2> QED
    BY <2>1, <2>2
<1>3. regs' \in Nat /\ regs' >= regs /\ status' \in Status
  BY <1>1 DEF RegisterInv
<1>4. ValuesHeld' /\ NamesHeld' /\ ScopesHeld'
  BY <1>1, <1>3, KeptIsHeld
<1> QED
  BY <1>1, <1>2, <1>3, <1>4, HoldsNone, SilentStep

\* A conversion goes to the next register, when there is one to make.
LEMMA ConvertedIsHeld ==
  ASSUME NEW r, NEW kind \in Kinds, NEW next \in Nat, NEW n \in Nat, Held(r, n),
         next + Taken(r, kind) <= n
  PROVE  /\ Held(Converted(r, kind, next), n)
         /\ Allocates(Conversion(r, kind, next), n)
<1>1. CASE Keeps(r, kind)
  BY <1>1, HoldsNone DEF Converted, Conversion
<1>2. CASE ~Keeps(r, kind)
  <2>1. next < n
    BY <1>2 DEF Taken
  <2>2. Held(Typed(next, kind), n)
    BY <2>1 DEF Held, Typed, Register, Kinds
  <2> DEFINE op == IF kind = "Float" THEN "I2F" ELSE "I2FRAC"
             insn == OfKind(Insn(op, <<Reg(Typed(next, kind)), Reg(r)>>), kind)
  <2>3. Conversion(r, kind, next) = <<insn>> /\ Converted(r, kind, next) = Typed(next, kind)
    BY <1>2 DEF Conversion, Converted
  <2>4. Fits(Reg(Typed(next, kind)), n) /\ Fits(Reg(r), n)
    BY <2>2, OperandsFit
  <2>5. Allocated(insn, n)
    <3> HIDE DEF op
    <3> QED
      BY <2>4, InstructionFits
  <2> HIDE DEF insn
  <2> QED
    BY <2>2, <2>3, <2>5, HoldsNone
<1> QED
  BY <1>1, <1>2

\* Both operands are converted, and the result goes behind the conversions.
LEMMA OperateRegisters ==
  ASSUME LabelInv, BalanceInv, RegisterInv, Operate
  PROVE  RegisterInv'
<1> DEFINE l == Result(1)
           r == Result(0)
           kind == OperandKind(Node, l)
           atRight == regs + Taken(l, kind)
           atDest == atRight + Taken(r, kind)
           left == Converted(l, kind, regs)
           right == Converted(r, kind, atRight)
           type == IF Comparing(Node) THEN "Boolean" ELSE kind
           dest == Typed(atDest, type)
           args == <<Reg(dest), Reg(left), Reg(right)>>
           compare == [Insn("CMP", args) EXCEPT !.relation = Relations[Node.op]]
           op == Opcode(Node.op, Category(Node.ty))
           compute == Insn(op, args)
           insn == OfKind(IF Comparing(Node) THEN compare ELSE compute, dest.primitive)
           c1 == Conversion(l, kind, regs)
           c2 == Conversion(r, kind, atRight)
<1>1. /\ work # <<>> /\ Head(work).do = "operate" /\ Leaves(<<>>) /\ Recorded(2)
      /\ UNCHANGED <<env, loops, scopes, status>> /\ code' = code \o (c1 \o c2 \o <<insn>>)
      /\ vals' = Append(Without(2), dest) /\ regs' = atDest + 1
  BY DEF Operate, Doing, fixed, Emits
<1>2. 2 \in 0..Len(vals) /\ Len(vals) \in Nat
  <2>1. Takes("vals", Head(work)) = 2
    BY <1>1 DEF Takes
  <2> QED
    BY <1>1, <2>1, EnoughResults
<1>3. Held(l, regs) /\ Held(r, regs) /\ regs \in Nat
  <2>1. l # Missing /\ r # Missing
    BY <1>1 DEF Recorded
  <2> QED
    BY <1>2, <2>1, ResultIsHeld DEF RegisterInv
<1>4. kind \in Kinds /\ type \in Kinds
  <2>1. l.primitive \in Kinds
    BY <1>3, KindsAreKinds
  <2>2. kind \in Kinds
    BY <2>1, KindsAreKinds DEF OperandKind, Kinds
  <2> QED
    BY <2>2 DEF Kinds
<1> HIDE DEF kind, type, l, r
<1>5. /\ atRight \in Nat /\ atDest \in Nat /\ regs' \in Nat /\ regs' >= regs
      /\ regs + Taken(l, kind) <= regs' /\ atRight + Taken(r, kind) <= regs' /\ atDest < regs'
  <2>1. Taken(l, kind) \in {0, 1} /\ Taken(r, kind) \in {0, 1}
    BY DEF Taken
  <2> QED
    BY <1>1, <1>3, <2>1
<1> HIDE DEF atDest, atRight
<1>6. Held(l, regs') /\ Held(r, regs') /\ Held(dest, regs')
  BY <1>3, <1>4, <1>5, HeldGrows, FreshIsHeld
<1>7. /\ Held(left, regs') /\ Allocates(c1, regs')
      /\ Held(right, regs') /\ Allocates(c2, regs')
  BY <1>3, <1>4, <1>5, <1>6, ConvertedIsHeld DEF atRight
<1>8. Allocated(insn, regs')
  <2>1. insn.args = args
    BY DEF OfKind, Insn
  <2>2. Fits(Reg(dest), regs') /\ Fits(Reg(left), regs') /\ Fits(Reg(right), regs')
    BY <1>6, <1>7, OperandsFit
  <2> HIDE DEF insn, dest, left, right
  <2> QED
    BY <2>1, <2>2 DEF Allocated, Fits
<1> HIDE DEF c1, c2, insn, left, right, dest
<1>9. Allocates(c1 \o c2 \o <<insn>>, regs')
  BY <1>7, <1>8, HoldsCat, HoldsNone
<1>10. ValuesHeld' /\ NamesHeld'
  BY <1>1, <1>2, <1>5, <1>6, TakenIsHeld, KeptIsHeld
<1> QED
  BY <1>1, <1>5, <1>9, <1>10, EmittingStep

\* A call names at most two of its arguments' registers, and register 0.
LEMMA EmitCallRegisters ==
  ASSUME LabelInv, BalanceInv, RegisterInv, EmitCall
  PROVE  RegisterInv'
<1> DEFINE n == Len(Node.args)
           rest == SubSeq(vals, Len(vals) - n + 1, Len(vals))
           few == IF n < 2 THEN n ELSE 2
           passed == [i \in 1..few |-> Reg(rest[i])]
           dest == Typed(regs, "Integer")
           move == Insn("MOV", <<Reg(dest), Reg(Typed(0, "Integer"))>>)
<1>1. PICK id : code' = code \o <<Insn("CALL", <<Imm(id)>> \o passed), move>>
  BY DEF EmitCall, Emits
<1> DEFINE insn == Insn("CALL", <<Imm(id)>> \o passed)
<1>2. /\ work # <<>> /\ Head(work).do = "call" /\ Leaves(<<>>) /\ Recorded(n)
      /\ UNCHANGED <<env, loops, scopes, status>>
      /\ vals' = Append(Without(n), dest) /\ regs' = regs + 1
  BY DEF EmitCall, Doing
<1>3. n \in 0..Len(vals) /\ Len(vals) \in Nat
  <2>1. Takes("vals", Head(work)) = n
    BY <1>2 DEF Takes, Node
  <2> QED
    BY <1>2, <2>1, EnoughResults
<1>4. /\ regs \in Nat /\ regs' \in Nat /\ regs' >= regs /\ few \in 0..2 /\ few <= n
      /\ Held(dest, regs')
  <2> HIDE DEF n
  <2>1. regs \in Nat /\ few \in 0..2 /\ few <= n
    BY <1>3 DEF RegisterInv
  <2>2. regs' \in Nat /\ regs' >= regs /\ regs < regs'
    BY <1>2, <2>1
  <2> QED
    BY <2>1, <2>2, FreshIsHeld DEF Kinds
<1>5. \A i \in 1..few : Fits(passed[i], regs')
  <2> HIDE DEF n, few
  <2> TAKE i \in 1..few
  <2>1. n - i \in 0..(n - 1) /\ n - i \in Nat /\ n - i < Len(vals) /\ i \in Nat /\ i <= n
    BY <1>3, <1>4
  <2>2. Held(Result(n - i), regs)
    BY <1>2, <2>1, ResultIsHeld DEF Recorded
  <2>3. rest[i] = Result(n - i)
    <3>1. vals \in Seq(Range(vals))
      BY DEF BalanceInv, IsSeq
    <3>2. rest[i] = vals[Len(vals) - n + 1 + i - 1]
      BY <1>3, <2>1, <3>1
    <3> QED
      BY <1>3, <2>1, <3>2 DEF Result
  <2>4. Fits(Reg(rest[i]), regs')
    BY <1>4, <2>2, <2>3, HeldGrows, OperandsFit
  <2> QED
    BY <2>4
<1>6. Allocated(insn, regs')
  <2>1. insn.args = <<Imm(id)>> \o passed
    BY DEF Insn
  <2>2. IsSeq(<<Imm(id)>>) /\ IsSeq(passed)
    <3>1. <<Imm(id)>> \in Seq({Imm(id)})
      OBVIOUS
    <3>2. passed \in Seq({Reg(rest[i]) : i \in 1..few})
      <4> HIDE DEF few, rest
      <4> QED
        BY <1>4
    <3> QED
      BY <3>1, <3>2, SeqIn
  <2>3. \A i \in DOMAIN <<Imm(id)>> : Fits(<<Imm(id)>>[i], regs')
    BY OperandsFit
  <2>4. DOMAIN passed = 1..few
    OBVIOUS
  <2> HIDE DEF passed, insn
  <2>5. \A i \in DOMAIN (<<Imm(id)>> \o passed) : Fits((<<Imm(id)>> \o passed)[i], regs')
    BY <1>5, <2>2, <2>3, <2>4, CatAt
  <2> QED
    BY <2>1, <2>5 DEF Allocated, Fits
<1>7. Allocated(move, regs')
  BY <1>4, OperandsFit, InstructionFits
<1> HIDE DEF insn, move, dest, n
<1>8. Allocates(<<insn, move>>, regs')
  <2>1. IsSeq(<<insn, move>>)
    BY SeqIn, <<insn, move>> \in Seq({insn, move})
  <2>2. \A i \in DOMAIN <<insn, move>> : Allocated(<<insn, move>>[i], regs')
    BY <1>6, <1>7
  <2> QED
    BY <2>1, <2>2 DEF Allocates
<1>9. ValuesHeld' /\ NamesHeld'
  BY <1>2, <1>3, <1>4, TakenIsHeld, KeptIsHeld
<1>10. code' = code \o <<insn, move>>
  BY <1>1 DEF insn
<1> QED
  BY <1>2, <1>4, <1>8, <1>9, <1>10, EmittingStep

-----------------------------------------------------------------------------
(* The steps that leave many items. *)

\* Branch jumps on its condition and arranges both ways.
LEMMA BranchRegisters ==
  ASSUME LabelInv, BalanceInv, RegisterInv, Branch
  PROVE  RegisterInv'
<1>1. /\ Doing("branch") /\ Recorded(1) /\ vals' = Without(1)
      /\ UNCHANGED <<regs, env, loops, scopes, status>>
  BY DEF Branch, fixed
<1>2. /\ 1 \in 0..Len(vals) /\ Fits(Reg(Result(0)), regs) /\ regs \in Nat /\ work # <<>>
  BY <1>1, OperandIsHeld
<1>3. PICK l, items : /\ code' = code \o <<JumpIf("JZ", l, Result(0))>> /\ Leaves(items)
                      /\ \/ items = <<Visit(Node.then)>>
                         \/ items = <<Visit(Node.then), EmitJump(Head(work).end),
                                      EmitLabel(labels), Visit(Node.otherwise)>>
  BY DEF Branch, Emits
<1>4. Allocates(<<JumpIf("JZ", l, Result(0))>>, regs)
  <2>1. Allocated(JumpIf("JZ", l, Result(0)), regs)
    BY <1>2, InstructionFits, OperandsFit DEF JumpIf
  <2> QED
    BY <2>1, HoldsNone
<1>5. Holds(items, regs)
  <2>1. CASE items = <<Visit(Node.then)>>
    BY <2>1, ItemsHold, HoldsNone
  <2>2. CASE items = <<Visit(Node.then), EmitJump(Head(work).end),
                       EmitLabel(labels), Visit(Node.otherwise)>>
    <3> DEFINE a == Visit(Node.then)
               b == EmitJump(Head(work).end)
               c == EmitLabel(labels)
               d == Visit(Node.otherwise)
               S == {a, b, c, d}
    <3>1. \A item \in S : HoldsItem(item, regs)
      BY ItemsHold
    <3> HIDE DEF a, b, c, d
    <3>2. <<a, b, c, d>> \in Seq(S)
      OBVIOUS
    <3> HIDE DEF S
    <3>3. Holds(<<a, b, c, d>>, regs)
      BY <3>1, <3>2, ListHolds
    <3> QED
      BY <2>2, <3>3 DEF a, b, c, d
  <2> QED
    BY <1>3, <2>1, <2>2
<1>6. regs' \in Nat /\ regs' >= regs /\ regs' = regs
  BY <1>1, <1>2
<1>7. ValuesHeld' /\ NamesHeld' /\ ScopesHeld' /\ LoopsShaped' /\ status' \in Status
  BY <1>1, <1>2, <1>6, TakenIsHeld, KeptIsHeld DEF RegisterInv
<1> QED
  BY <1>2, <1>3, <1>4, <1>5, <1>6, <1>7, RegisterStep DEF Leaves

\* While opens its loop and arranges it.
LEMMA WhileRegisters ==
  ASSUME LabelInv, RegisterInv, While
  PROVE  RegisterInv'
<1> DEFINE a == EmitLabel(labels)
           b == Visit(Node.cond)
           c == JumpOn("JZ", labels + 1)
           d == Visit(Node.body)
           e == EmitJump(labels)
           f == EmitLabel(labels + 1)
           g == [do |-> "popLoop", record |-> FALSE]
           info == LoopInfo(labels, labels + 1)
           S == {a, b, c, d, e, f, g}
           items == <<a, b, c, d, e, f, g>>
<1>1. /\ work # <<>> /\ Leaves(items) /\ loops' = Append(loops, info)
      /\ UNCHANGED <<code, regs, vals, env, scopes, status>> /\ regs \in Nat
  BY DEF While, Visiting, Doing, RegisterInv
<1>2. \A item \in S : HoldsItem(item, regs)
  <2>1. HoldsItem(g, regs)
    BY ItemsHold
  <2> QED
    BY <2>1, ItemsHold
<1>3. LoopsShaped'
  <2>1. info = LoopInfo(info.entry, info.exit)
    BY DEF LoopInfo
  <2> HIDE DEF info
  <2>2. loops \in Seq(Range(loops) \cup {info})
    BY DEF LabelInv, IsSeq
  <2>3. \A i \in DOMAIN loops' : loops'[i] = info \/ (i \in DOMAIN loops /\ loops'[i] = loops[i])
    BY <1>1, <2>2
  <2> QED
    BY <2>1, <2>3 DEF RegisterInv, LoopsShaped
<1> HIDE DEF a, b, c, d, e, f, g
<1>4. items \in Seq(S)
  OBVIOUS
<1> HIDE DEF S, items
<1>5. regs' \in Nat /\ regs' >= regs /\ regs' = regs /\ status' \in Status
  BY <1>1 DEF RegisterInv
<1>6. ValuesHeld' /\ NamesHeld' /\ ScopesHeld'
  BY <1>1, <1>5, KeptIsHeld
<1> QED
  BY <1>1, <1>2, <1>3, <1>4, <1>5, <1>6, ListHolds, SilentStep

\* Loop arranges its guard, the item that opens it, and its body.
LEMMA LoopRegisters ==
  ASSUME LabelInv, RegisterInv, Loop
  PROVE  RegisterInv'
<1> DEFINE entry == labels
           exit == labels + 1
           guarded == Node.guard # Nil
           again == IF guarded THEN labels + 2 ELSE entry
           info == LoopInfo(again, exit)
           open == [do |-> "pushLoop", info |-> info]
           pop == [do |-> "popLoop", record |-> TRUE]
           a == EmitLabel(again)
           b == Visit(Node.guard)
           c == JumpOn("JZ", exit)
           d == EmitLabel(entry)
           first == IF guarded THEN <<a, b, c, d, open>> ELSE <<d, open>>
           body == VisitAll(Node.body)
           last == <<EmitJump(again), EmitLabel(exit), pop>>
           S == {a, b, c, d, open}
<1>1. /\ work # <<>> /\ Leaves(first \o body \o last) /\ Node.body \in Seq(Stmts)
      /\ UNCHANGED <<code, regs, vals, env, loops, scopes, status>>
  BY StatementParts DEF Loop, Visiting, Doing, fixed
<1>2. HoldsItem(open, regs) /\ HoldsItem(pop, regs)
  <2>1. info = LoopInfo(info.entry, info.exit)
    BY DEF LoopInfo
  <2> HIDE DEF info
  <2> QED
    BY <2>1, ItemsHold DEF HoldsItem
<1>3. \A item \in S : HoldsItem(item, regs)
  BY <1>2, ItemsHold
<1>4. Holds(last, regs)
  <2> HIDE DEF again, exit, pop
  <2> QED
    BY <1>2, ItemsHold, HoldsSome
<1>5. Holds(body, regs)
  BY <1>1, VisitsHold
<1> HIDE DEF open, a, b, c, d
<1>6. Holds(first, regs)
  <2>1. <<a, b, c, d, open>> \in Seq(S) /\ <<d, open>> \in Seq(S)
    OBVIOUS
  <2> HIDE DEF S
  <2>2. first \in Seq(S)
    BY <2>1
  <2> HIDE DEF first
  <2> QED
    BY <1>3, <2>2, ListHolds
<1> HIDE DEF first, body, last
<1>7. Holds(first \o body \o last, regs)
  BY <1>4, <1>5, <1>6, HoldsCat
<1> QED
  BY <1>1, <1>7, ExpandedStep

\* Logical's two loads write the register it yields.
LEMMA LogicalRegisters ==
  ASSUME LabelInv, RegisterInv, Logical
  PROVE  RegisterInv'
<1> DEFINE end == labels
           right == labels + 1
           false == labels + 2
           true == labels + 3
           dest == Typed(regs, "Boolean")
           a == Visit(Node.left)
           b == IF Node.op = "&&" THEN JumpOn("JZ", false) ELSE JumpOn("JNZ", true)
           c == EmitJump(right)
           d == EmitLabel(right)
           e == Visit(Node.right)
           f == JumpOn("JZ", false)
           g == EmitJump(true)
           h == EmitLabel(false)
           i == Emit(LoadImm(dest, 0))
           j == EmitJump(end)
           k == EmitLabel(true)
           l == Emit(LoadImm(dest, 1))
           m == EmitLabel(end)
           n == Yield(dest)
           S == {a, b, c, d, e, f, g, h, i, j, k, l, m, n}
           items == <<a, b, c, d, e, f, g, h, i, j, k, l, m, n>>
<1>1. /\ work # <<>> /\ Leaves(items) /\ regs' = regs + 1
      /\ UNCHANGED <<code, vals, env, loops, scopes, status>> /\ regs \in Nat
  BY DEF Logical, Visiting, Doing, fixed, RegisterInv
<1>2. regs' \in Nat /\ regs' >= regs /\ regs < regs' /\ status' \in Status
  BY <1>1 DEF RegisterInv
<1>3. \A item \in S : HoldsItem(item, regs')
  <2>1. Held(dest, regs')
    BY <1>1, <1>2, FreshIsHeld DEF Kinds
  <2> HIDE DEF dest
  <2>2. Fits(Reg(dest), regs')
    BY <2>1, OperandsFit
  <2>3. \A x : Allocated(LoadImm(dest, x), regs')
    BY <2>2, OperandsFit, InstructionFits DEF LoadImm
  <2>4. HoldsItem(i, regs') /\ HoldsItem(l, regs') /\ HoldsItem(n, regs') /\ HoldsItem(b, regs')
    BY <2>1, <2>3, ItemsHold
  <2> QED
    BY <2>4, ItemsHold
<1> HIDE DEF a, b, c, d, e, f, g, h, i, j, k, l, m, n
<1>4. items \in Seq(S)
  OBVIOUS
<1> HIDE DEF S, items
<1>5. ValuesHeld' /\ NamesHeld' /\ ScopesHeld' /\ LoopsShaped'
  BY <1>1, <1>2, KeptIsHeld
<1> QED
  BY <1>1, <1>2, <1>3, <1>4, <1>5, ListHolds, SilentStep

\* Dispatch gives the whole match its three registers.
LEMMA DispatchRegisters ==
  ASSUME LabelInv, BalanceInv, RegisterInv, Dispatch
  PROVE  RegisterInv'
<1> DEFINE kind == PrimitiveOr(Node.ty, "Integer")
           dest == Typed(regs, kind)
           flag == Typed(regs + 1, "Boolean")
           payload == Typed(regs + 2, "Integer")
           end == labels
           trap == labels + 1
           m == [node |-> Node, scrutinee |-> Result(0), dest |-> dest, flag |-> flag,
                 payload |-> payload, end |-> end, trap |-> trap,
                 heads |-> VariantHeads(Node.arms)]
           tests == [v \in DOMAIN m.heads |-> [do |-> "testVariant", match |-> m, v |-> v]]
           a == EmitLabel(trap)
           b == Emit(Insn("TRAP", <<>>))
           c == EmitLabel(end)
           d == Emit(Insn("NOP", <<>>))
           e == Yield(dest)
           S == {a, b, c, d, e}
           rest == <<a, b, c, d, e>>
<1>1. /\ Doing("dispatch") /\ Recorded(1) /\ Head(work).do = "dispatch" /\ vals' = Without(1)
      /\ Leaves(tests \o rest) /\ regs' = regs + 3
      /\ UNCHANGED <<code, env, loops, scopes, status>>
  BY DEF Dispatch, Doing, fixed
<1>2. /\ 1 \in 0..Len(vals) /\ Held(Result(0), regs) /\ regs \in Nat /\ work # <<>>
  BY <1>1, OperandIsHeld
<1>3. /\ regs' \in Nat /\ regs' >= regs /\ regs < regs' /\ regs + 1 < regs' /\ regs + 2 < regs'
      /\ regs + 1 \in Nat /\ regs + 2 \in Nat /\ status' \in Status
  BY <1>1, <1>2 DEF RegisterInv
<1>4. /\ Held(dest, regs') /\ Held(flag, regs') /\ Held(payload, regs')
      /\ Held(Result(0), regs')
  <2>1. kind \in Kinds /\ "Boolean" \in Kinds /\ "Integer" \in Kinds
    BY KindsAreKinds DEF Kinds
  <2> HIDE DEF kind
  <2> QED
    BY <1>2, <1>3, <2>1, FreshIsHeld, HeldGrows
<1>5. Holds(tests, regs')
  <2>1. IsMatch(Node)
    BY <1>1, <1>2, AtHand DEF IsItem, Node
  <2>2. IsSeq(Node.arms)
    BY <2>1, SyntaxAssumption DEF IsMatch, IsExpr
  <2>3. m.heads \in Seq(DOMAIN Node.arms)
    BY <2>2, ArmsAreListed
  <2>4. Len(m.heads) \in Nat /\ DOMAIN tests = 1..Len(m.heads)
    BY <2>3
  <2>5. m.scrutinee = Result(0) /\ m.dest = dest /\ m.flag = flag /\ m.payload = payload
    OBVIOUS
  <2> HIDE DEF m
  <2>6. \A v \in DOMAIN tests : tests[v].do = "testVariant" /\ tests[v].match = m
    OBVIOUS
  <2>7. tests \in Seq({tests[v] : v \in DOMAIN tests})
    BY <2>4
  <2>8. IsSeq(tests)
    BY <2>7, SeqIn
  <2> HIDE DEF tests, dest, flag, payload
  <2>9. \A v \in DOMAIN tests : HoldsItem(tests[v], regs')
    BY <1>4, <2>5, <2>6 DEF HoldsItem
  <2> QED
    BY <2>8, <2>9 DEF Holds
<1>6. \A item \in S : HoldsItem(item, regs')
  <2> HIDE DEF dest
  <2> QED
    BY <1>4, ItemsHold, InstructionFits
<1> HIDE DEF a, b, c, d, e, tests
<1>7. rest \in Seq(S)
  OBVIOUS
<1> HIDE DEF S, rest
<1>8. Holds(tests \o rest, regs')
  BY <1>5, <1>6, <1>7, ListHolds, HoldsCat
<1>9. ValuesHeld' /\ NamesHeld' /\ ScopesHeld' /\ LoopsShaped'
  BY <1>1, <1>2, <1>3, TakenIsHeld, KeptIsHeld
<1> QED
  BY <1>1, <1>2, <1>3, <1>8, <1>9, SilentStep

\* Two instructions that are allocated.
LEMMA AllocatesTwo ==
  ASSUME NEW n, NEW a, NEW b, Allocated(a, n), Allocated(b, n)
  PROVE  Allocates(<<a, b>>, n)
<1>1. IsSeq(<<a, b>>)
  BY SeqIn, <<a, b>> \in Seq({a, b})
<1>2. \A i \in DOMAIN <<a, b>> : Allocated(<<a, b>>[i], n)
  OBVIOUS
<1> QED
  BY <1>1, <1>2 DEF Allocates

\* The items that emit allocated instructions.
LEMMA EmitAllHolds ==
  ASSUME NEW n, NEW s, Allocates(s, n)
  PROVE  Holds(EmitAll(s), n)
<1>1. IsSeq(EmitAll(s))
  BY EmitAllCat DEF Allocates
<1>2. \A i \in DOMAIN EmitAll(s) : i \in DOMAIN s /\ EmitAll(s)[i] = Emit(s[i])
  BY DEF EmitAll
<1> QED
  BY <1>1, <1>2, ItemsHold DEF Holds, Allocates

\* A variant's test and its arms use the registers of the match.
LEMMA TestVariantRegisters ==
  ASSUME LabelInv, RegisterInv, TestVariant
  PROVE  RegisterInv'
<1> DEFINE m == Head(work).match
           v == Head(work).v
           arms == ArmsOf(m.node.arms, m.heads[v])
           last == v = Len(m.heads)
           next == IF last THEN m.trap ELSE labels
           test == EmitAll(VariantTest(m, arms, next))
           each == [a \in DOMAIN arms |->
                      [do |-> "arm", match |-> m, arms |-> arms, a |-> a, next |-> next]]
           label == IF last THEN <<>> ELSE <<EmitLabel(next)>>
           items == test \o each \o label
<1>1. /\ work # <<>> /\ Head(work).do = "testVariant" /\ Leaves(items)
      /\ UNCHANGED <<code, regs, vals, env, loops, scopes, status>>
  BY DEF TestVariant, Doing, fixed
<1>2. \A r \in {m.scrutinee, m.dest, m.flag, m.payload} : Held(r, regs)
  <2>1. HoldsItem(Head(work), regs)
    BY <1>1, HeadAndTail DEF LabelInv, RegisterInv
  <2> QED
    BY <1>1, <2>1 DEF HoldsItem
<1>3. Holds(test, regs)
  <2> HIDE DEF arms, next, m
  <2>1. Fits(Reg(m.flag), regs) /\ Fits(Reg(m.scrutinee), regs)
    BY <1>2, OperandsFit
  <2>2. \A jump : Allocated(JumpIf(jump, next, m.flag), regs)
    BY <2>1, OperandsFit, InstructionFits DEF JumpIf
  <2>3. /\ \A op : Allocated(Insn(op, <<Reg(m.flag), Reg(m.scrutinee)>>), regs)
        /\ \A op, id : Allocated(Insn(op, <<Reg(m.flag), Reg(m.scrutinee), Imm(id)>>), regs)
        /\ Allocated(Jump(next), regs)
    BY <2>1, OperandsFit, InstructionFits DEF Jump
  <2>4. Allocates(VariantTest(m, arms, next), regs)
    <3>1. CASE VariantTest(m, arms, next) = <<Jump(next)>>
      BY <2>3, <3>1, HoldsNone
    <3>2. CASE \E op \in {"OPTION_IS_SOME", "RESULT_IS_OK"}, jump \in {"JZ", "JNZ"} :
                 VariantTest(m, arms, next)
                   = <<Insn(op, <<Reg(m.flag), Reg(m.scrutinee)>>), JumpIf(jump, next, m.flag)>>
      BY <2>2, <2>3, <3>2, AllocatesTwo
    <3>3. CASE \E id :
                 VariantTest(m, arms, next)
                   = <<Insn("ENUM_IS_VARIANT", <<Reg(m.flag), Reg(m.scrutinee), Imm(id)>>),
                       JumpIf("JZ", next, m.flag)>>
      BY <2>2, <2>3, <3>3, AllocatesTwo
    <3> QED
      BY <3>1, <3>2, <3>3, VariantTestForms
  <2> QED
    BY <2>4, EmitAllHolds
<1>4. Holds(each, regs)
  <2>1. IsMatch(m.node)
    BY <1>1, AtHand DEF IsItem
  <2>2. IsSeq(m.node.arms)
    BY <2>1, SyntaxAssumption DEF IsMatch, IsExpr
  <2>3. arms \in Seq(DOMAIN m.node.arms)
    BY <2>2, ArmsAreListed
  <2>4. Len(arms) \in Nat /\ DOMAIN each = 1..Len(arms)
    BY <2>3
  <2> HIDE DEF arms, m, next
  <2>5. each \in Seq({each[a] : a \in DOMAIN each})
    BY <2>4
  <2>6. IsSeq(each)
    BY <2>5, SeqIn
  <2>7. \A a \in DOMAIN each : each[a].do = "arm" /\ each[a].match = m
    OBVIOUS
  <2> HIDE DEF each
  <2>8. \A a \in DOMAIN each : HoldsItem(each[a], regs)
    BY <1>2, <2>7 DEF HoldsItem
  <2> QED
    BY <2>6, <2>8 DEF Holds
<1>5. Holds(label, regs)
  BY ItemsHold, HoldsNone
<1> HIDE DEF test, each, label
<1>6. Holds(items, regs)
  BY <1>3, <1>4, <1>5, HoldsCat
<1> HIDE DEF items
<1> QED
  BY <1>1, <1>6, ExpandedStep

\* An arm reads the payload into the match's register, and remembers what that hides.
LEMMA ArmRegisters ==
  ASSUME LabelInv, BalanceInv, RegisterInv, Arm
  PROVE  RegisterInv'
<1> DEFINE m == Head(work).match
           arms == Head(work).arms
           a == Head(work).a
           arm == m.node.arms[arms[a]]
           last == a = Len(arms)
           nextArm == IF last THEN Head(work).next ELSE labels
           unwrap == Unwrap(m, arm)
           name == IF unwrap = <<>> THEN Nil ELSE BoundName(arm.pattern)
           scope == IF name = Nil THEN <<>> ELSE <<[name |-> name, previous |-> Lookup(name)]>>
           guard == IF arm.guard = Nil \/ m.node.meta = Nil
                    THEN <<>>
                    ELSE <<Emit(Note(<<>>)), Visit(arm.guard), JumpOn("JZ", nextArm)>>
           copy == [do |-> "copyTo", reg |-> m.dest]
           body == <<Visit(arm.body), copy, EmitJump(m.end)>>
           label == IF last THEN <<>> ELSE <<EmitLabel(nextArm)>>
           exit == [do |-> "exitScope"]
           items == guard \o body \o label \o <<exit>>
<1>1. /\ work # <<>> /\ Head(work).do = "arm" /\ Leaves(items) /\ code' = code \o unwrap
      /\ UNCHANGED <<regs, vals, loops, status>> /\ scopes' = Append(scopes, scope)
      /\ env' = (IF name = Nil THEN env ELSE Bound(name, m.payload))
  BY DEF Arm, Doing, Emits
<1>2. regs' \in Nat /\ regs' >= regs /\ regs' = regs /\ status' \in Status
  <2>1. regs' = regs /\ status' = status /\ regs \in Nat /\ status \in Status
    BY <1>1 DEF RegisterInv
  <2> HIDE DEF items, unwrap, scope, name
  <2> QED
    BY <2>1
<1>3. Held(m.scrutinee, regs) /\ Held(m.dest, regs) /\ Held(m.payload, regs)
  <2>1. HoldsItem(Head(work), regs)
    BY <1>1, HeadAndTail DEF LabelInv, RegisterInv
  <2> QED
    BY <1>1, <2>1 DEF HoldsItem
<1>4. Allocates(unwrap, regs)
  <2> HIDE DEF m, arm
  <2>1. \A op : Allocated(Insn(op, <<Reg(m.payload), Reg(m.scrutinee)>>), regs)
    BY <1>3, OperandsFit, InstructionFits
  <2> QED
    BY <2>1, UnwrapForms, HoldsNone
<1>5. Holds(items, regs)
  <2>1. Holds(guard, regs)
    <3>1. HoldsItem(Emit(Note(<<>>)), regs)
      BY ItemsHold, InstructionFits DEF Note
    <3> HIDE DEF m, arm, nextArm
    <3> QED
      BY <3>1, ItemsHold, HoldsSome, HoldsNone
  <2>2. Holds(body, regs)
    <3>1. HoldsItem(copy, regs)
      BY <1>3 DEF HoldsItem
    <3> HIDE DEF copy, m, arm
    <3> QED
      BY <3>1, ItemsHold, HoldsSome
  <2>3. Holds(label, regs) /\ Holds(<<exit>>, regs)
    BY ItemsHold, HoldsNone
  <2> HIDE DEF guard, body, label, exit
  <2> QED
    BY <2>1, <2>2, <2>3, HoldsCat
<1> HIDE DEF items, unwrap, arm, name
<1>6. NamesHeld'
  BY <1>1, <1>2, <1>3, BoundIsHeld, KeptIsHeld
<1>7. ScopesHeld'
  <2>1. \A j \in DOMAIN scope : scope[j].previous # Nil => Held(scope[j].previous, regs)
    <3>1. Lookup(name) # Nil => Held(Lookup(name), regs)
      BY <1>2, BoundIsHeld
    <3>2. CASE name = Nil
      BY <3>2
    <3>3. CASE name # Nil
      BY <3>1, <3>3
    <3> QED
      BY <3>2, <3>3
  <2> HIDE DEF scope
  <2>2. scopes \in Seq(Range(scopes) \cup {scope})
    BY DEF BalanceInv, IsSeq
  <2>3. \A i \in DOMAIN scopes' :
          scopes'[i] = scope \/ (i \in DOMAIN scopes /\ scopes'[i] = scopes[i])
    BY <1>1, <2>2
  <2> QED
    BY <1>2, <2>1, <2>3 DEF RegisterInv, ScopesHeld
<1>8. ValuesHeld' /\ LoopsShaped'
  BY <1>1, <1>2, KeptIsHeld
<1> QED
  BY <1>1, <1>2, <1>4, <1>5, <1>6, <1>7, <1>8, RegisterStep DEF Leaves

\* The names get back what the scope remembers.
LEMMA ExitScopeRegisters ==
  ASSUME LabelInv, BalanceInv, RegisterInv, ExitScope
  PROVE  RegisterInv'
<1> DEFINE bindings == Last(scopes)
           bound == {bindings[i].name : i \in DOMAIN bindings}
           of(x) == CHOOSE i \in DOMAIN bindings : bindings[i].name = x
           before(x) == bindings[of(x)].previous
<1>1. /\ work # <<>> /\ Head(work).do = "exitScope" /\ Leaves(<<>>)
      /\ env' = Restored(bindings, env) /\ scopes' = Front(scopes)
      /\ UNCHANGED <<code, regs, vals, loops, status>>
  BY DEF ExitScope, Doing
<1>2. regs' \in Nat /\ regs' >= regs /\ regs' = regs /\ status' \in Status
  BY <1>1 DEF RegisterInv
<1>3. scopes \in Seq(Range(scopes)) /\ Len(scopes) \in Nat /\ Len(scopes) # 0
  <2>1. Takes("scopes", Head(work)) = 1
    BY <1>1 DEF Takes
  <2>2. PICK k : Moves("scopes", Len(scopes), Head(work), k)
    BY <1>1, HeightsTail DEF BalanceInv, LabelInv
  <2> QED
    BY <2>1, <2>2 DEF Moves, BalanceInv, IsSeq
<1>4. \A j \in DOMAIN bindings : bindings[j].previous # Nil => Held(bindings[j].previous, regs)
  <2>1. bindings = scopes[Len(scopes)] /\ Len(scopes) \in DOMAIN scopes
    BY <1>3 DEF Last
  <2> QED
    BY <2>1 DEF RegisterInv, ScopesHeld
<1>5. NamesHeld'
  <2> SUFFICES ASSUME NEW x \in DOMAIN env'
               PROVE  Held(env'[x], regs)
    BY <1>2 DEF NamesHeld
  <2>1. /\ x \in DOMAIN env \cup bound /\ (x \in bound => before(x) # Nil)
        /\ env'[x] = IF x \in bound THEN before(x) ELSE env[x]
    BY <1>1 DEF Restored
  <2>2. CASE x \in bound
    <3>1. of(x) \in DOMAIN bindings
      BY <2>2
    <3> HIDE DEF bindings, of
    <3> QED
      BY <1>4, <2>1, <2>2, <3>1
  <2>3. CASE x \notin bound
    BY <2>1, <2>3 DEF RegisterInv, NamesHeld
  <2> QED
    BY <2>2, <2>3
<1>6. ScopesHeld'
  <2>1. \A i \in DOMAIN Front(scopes) : i \in DOMAIN scopes /\ Front(scopes)[i] = scopes[i]
    BY <1>3 DEF Front
  <2> QED
    BY <1>1, <1>2, <2>1 DEF RegisterInv, ScopesHeld
<1>7. ValuesHeld' /\ LoopsShaped'
  BY <1>1, <1>2, KeptIsHeld
<1> QED
  BY <1>1, <1>2, <1>5, <1>6, <1>7, HoldsNone, SilentStep

-----------------------------------------------------------------------------
(* The invariant. *)

\* At first no register is handed out, and none is named.
LEMMA InitRegisters ==
  ASSUME Init
  PROVE  RegisterInv
<1>1. program \in Seq(Stmts) /\ work = VisitAll(program)
  BY SyntaxAssumption DEF Init
<1>2. Holds(work, 0)
  BY <1>1, VisitsHold
<1>3. regs = 0 /\ code = <<>> /\ vals = <<>> /\ env = [x \in {} |-> Nil] /\ loops = <<>>
      /\ scopes = <<>> /\ status = "running"
  BY DEF Init
<1> QED
  BY <1>2, <1>3 DEF RegisterInv, ValuesHeld, NamesHeld, ScopesHeld, LoopsShaped, Holds, Status

\* Every step of the generator keeps the registers in order.
LEMMA RegisterInvStep ==
  ASSUME LabelInv, BalanceInv, RegisterInv, [Next]_vars
  PROVE  RegisterInv'
<1>1. CASE StatementStep
  BY <1>1, EmitNextRegisters, UsedRegisters, StatementRegisters, HandedRegisters,
     DeclareRegisters, BranchRegisters, WhileRegisters, LoopRegisters, PushAndPopRegisters
     DEF StatementStep
<1>2. CASE ExpressionStep
  BY <1>2, HandedRegisters, LogicalRegisters, ExpressionRegisters, OperateRegisters,
     GivingRegisters, ReadingRegisters, VariableRegisters, AssignToRegisters DEF ExpressionStep
<1>3. CASE CallStep
  BY <1>3, ExpressionRegisters, ReadingRegisters, GivingRegisters, UsedRegisters,
     EmitCallRegisters, HandedRegisters, MakeVariantRegisters DEF CallStep
<1>4. CASE MatchStep
  BY <1>4, ExpressionRegisters, DispatchRegisters, TestVariantRegisters, ArmRegisters,
     UsedRegisters, ExitScopeRegisters DEF MatchStep
<1>5. CASE MissingResult \/ Unsupported \/ Finish \/ UNCHANGED vars
  <2>1. UNCHANGED <<work, code, regs, vals, env, loops, scopes>>
    BY <1>5 DEF MissingResult, Unsupported, Throws, Finish, vars
  <2>2. status' \in Status
    BY <1>5 DEF MissingResult, Unsupported, Throws, Finish, vars, RegisterInv, Status
  <2> QED
    BY <2>1, <2>2 DEF RegisterInv, ValuesHeld, NamesHeld, ScopesHeld, LoopsShaped
<1> QED
  BY <1>1, <1>2, <1>3, <1>4, <1>5 DEF Next

\* Whatever is lowered, every register that anything names has been handed out, or is
\* register 0.
THEOREM RegisterInvariant == Spec => [](LabelInv /\ BalanceInv /\ RegisterInv)
<1>1. Init => RegisterInv
  BY InitRegisters
<1>2. LabelInv /\ BalanceInv /\ RegisterInv /\ [Next]_vars => RegisterInv'
  BY RegisterInvStep
<1> QED
  BY <1>1, <1>2, BalanceInvariant, PTL DEF Spec

\* A register that is held is a register below the counter, a label that is defined one
\* below the counter of labels.
LEMMA StateIsTyped ==
  ASSUME LabelInv, RegisterInv
  PROVE  TypeOK
<1>1. regs \in Nat /\ labels \in Nat /\ status \in {"running", "done", "threw"}
  BY DEF LabelInv, RegisterInv, Status
<1>2. /\ \A i \in DOMAIN vals : vals[i] # Missing => vals[i] \in Register /\ vals[i].reg < regs
      /\ \A x \in DOMAIN env : env[x] \in Register /\ env[x].reg < regs
      /\ \A i \in DOMAIN scopes : \A j \in DOMAIN scopes[i] :
           scopes[i][j].previous \in Register \cup {Nil}
  BY DEF RegisterInv, ValuesHeld, NamesHeld, ScopesHeld, Held
<1>3. /\ Defs(Image) \subseteq Label /\ Refs(Image) \subseteq Label
      /\ LoopLabels(loops) \subseteq Label
  BY DEF LabelInv, Label
<1>4. \A i \in DOMAIN loops : loops[i] \in [entry : Label, exit : Label]
  <2> TAKE i \in DOMAIN loops
  <2>1. loops[i].entry \in Label /\ loops[i].exit \in Label
    BY <1>3 DEF LoopLabels
  <2>2. loops[i] = [entry |-> loops[i].entry, exit |-> loops[i].exit]
    BY DEF RegisterInv, LoopsShaped, LoopInfo
  <2> QED
    BY <2>1, <2>2
<1>5. ASSUME NEW i \in DOMAIN code, NEW j \in DOMAIN code[i].args
      PROVE  LET arg == code[i].args[j] IN
             /\ arg.kind = "label" => arg.v \in Label
             /\ arg.kind = "reg" => (arg.v < regs \/ arg.v = 0)
  <2>1. code[i].args[j].kind = "reg" => (code[i].args[j].v < regs \/ code[i].args[j].v = 0)
    BY DEF RegisterInv, Allocated
  <2>2. code[i].args[j].kind = "label" => code[i].args[j].v \in Refers(Emit(code[i]))
    BY DEF Refers, Emit
  <2>3. Refers(Emit(code[i])) \subseteq Refs(Image)
    <3>1. IsSeq(EmitAll(code)) /\ IsSeq(work)
      BY EmitAllCat DEF LabelInv
    <3>2. i \in DOMAIN EmitAll(code) /\ EmitAll(code)[i] = Emit(code[i])
      BY DEF EmitAll
    <3>3. i \in DOMAIN Image /\ Image[i] = Emit(code[i])
      BY <3>1, <3>2, OldAt DEF Image
    <3> QED
      BY <3>3 DEF Refs
  <2> QED
    BY <1>3, <2>1, <2>2, <2>3
<1> QED
  BY <1>1, <1>2, <1>4, <1>5 DEF TypeOK

\* The generator's state keeps its types: no instruction names a register that was never
\* handed out (register 0 apart) or a label that was never taken, whatever the program.
THEOREM StateKeepsItsTypes == Spec => []TypeOK
<1>1. LabelInv /\ RegisterInv => TypeOK
  BY StateIsTyped
<1> QED
  BY <1>1, RegisterInvariant, PTL

-----------------------------------------------------------------------------
(* A program's way through the back end.                                       *)


\* A finished generator leaves only code: each label is defined there, and
\* every instruction and label has the shape the encoder asks for.
LEMMA FinishedIsEncodable ==
  ASSUME LabelInv, BalanceInv, status = "done"
  PROVE  Encodable(code)
<1> DEFINE image == EmitAll(code)
<1>1. /\ DOMAIN image = DOMAIN code /\ \A i \in DOMAIN code : image[i] = Emit(code[i])
      /\ IsSeq(image) /\ IsSeq(work) /\ work = <<>>
  BY EmitAllCat DEF EmitAll, LabelInv, BalanceInv
<1>2. Refs(image) \subseteq Defs(image)
  <2>1. Refs(image \o work) \subseteq Defs(image \o work)
    BY DEF LabelInv, Image
  <2> HIDE DEF image
  <2>2. /\ Defs(image \o work) = Defs(image) \cup Defs(work)
        /\ Refs(image \o work) = Refs(image) \cup Refs(work)
    BY <1>1, CatLabels
  <2>3. Defs(work) = {}
    BY <1>1 DEF Defs
  <2> QED
    BY <2>1, <2>2, <2>3
<1>3. ASSUME NEW i \in LabelDefs(code)
      PROVE  LabelIsWellFormed(code[i])
  <2>1. code[i] = LabelInsn(code[i].args[1].v)
    BY <1>3 DEF LabelDefs, IsLabel, LabelInv, WellFormed
  <2>2. \A l : LabelIsWellFormed(LabelInsn(l))
    BY DEF LabelIsWellFormed, LabelInsn, Insn, Lab
  <2> QED
    BY <2>1, <2>2
<1>4. ASSUME NEW l \in Defs(image)
      PROVE  l \in DOMAIN LabelPc(code)
  <2>1. PICK i \in DOMAIN code : l \in Def(Emit(code[i]))
    BY <1>1 DEF Defs
  <2>2. i \in LabelDefs(code) /\ LabelOf(code[i]) = l
    BY <2>1 DEF Def, DefinesLabel, Defined, Emit, LabelDefs, IsLabel, LabelOf
  <2> QED
    BY <2>2 DEF LabelPc
<1>5. ASSUME NEW i \in DOMAIN code
      PROVE  Resolvable(code[i], LabelPc(code))
  <2>1. Len(code[i].args) <= 3
    BY DEF LabelInv, WellFormed
  <2>2. ASSUME NEW j \in DOMAIN code[i].args, code[i].args[j].kind = "label"
        PROVE  code[i].args[j].v \in DOMAIN LabelPc(code)
    <3>1. code[i].args[j].v \in Refers(Emit(code[i]))
      BY <2>2 DEF Refers, Emit
    <3>2. code[i].args[j].v \in Refs(image)
      BY <1>1, <3>1 DEF Refs
    <3> HIDE DEF image
    <3> QED
      BY <1>2, <1>4, <3>2
  <2> QED
    BY <2>1, <2>2 DEF Resolvable
<1> HIDE DEF image
<1> QED
  BY <1>3, <1>5 DEF Encodable

\* The generator's invariants are kept by the whole back end: encoding and
\* running the program touch nothing of the generator's.
THEOREM GeneratorInvariants ==
  CompileSpec => [](LabelInv /\ BalanceInv /\ RegisterInv)
<1>1. CompileInit => LabelInv /\ BalanceInv /\ RegisterInv
  BY InitLabels, InitBalance, InitRegisters DEF CompileInit
<1>2. [CompileNext]_compileVars => [Next]_vars
  BY DEF CompileNext, Lower, Encode, Execute, compileVars
<1>3. LabelInv /\ BalanceInv /\ RegisterInv /\ [CompileNext]_compileVars
        => (LabelInv /\ BalanceInv /\ RegisterInv)'
  BY <1>2, LabelInvStep, BalanceInvStep, RegisterInvStep
<1> QED
  BY <1>1, <1>3, PTL DEF CompileSpec

\* encode_program never gives up on what the generator returned.
THEOREM LoweredProgramsEncode == CompileSpec => []LoweredIsEncodable
<1>1. LabelInv /\ BalanceInv => LoweredIsEncodable
  BY FinishedIsEncodable DEF LoweredIsEncodable
<1> QED
  BY <1>1, GeneratorInvariants, PTL
=============================================================================
