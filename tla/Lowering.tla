------------------------------ MODULE Lowering ------------------------------
(* IRGenerator (ir_generator.hpp): the visitor that turns the statements of  *)
(* an analysed program into TISC instructions.  The C++ recursion is a stack  *)
(* of work: visiting a node replaces it by what its visitor still has to do,  *)
(* in the visitor's order, and the values its locals hold lie on vals.        *)
EXTENDS Naturals, Sequences, FiniteSets, SequencesExt, EnumMeta, Lists

CONSTANTS
  Stmts, Exprs, \* the statement and the expression nodes there may be
  Programs,     \* the analysed programs: sequences of statement nodes
  Nil,          \* a null pointer or an empty optional
  Missing       \* an expression for which record_result never ran

VARIABLES
  program,      \* the statements generate() was given
  work,         \* what is left to do, next first
  code,         \* _program.instructions_
  pools,        \* the rest of _program, and _loop_infos
  regs, labels, \* _register_count, _label_count
  vals,         \* the registers that the visitors' locals hold
  env,          \* _variable_registers
  loops,        \* _loop_stack
  scopes,       \* _pattern_scopes
  calls,        \* _function_ids, as the sequence of names in id order
  status        \* "running", then "done" or "threw"

\* Stmt and Expr (ast.hpp): the kinds of nodes, and what each is made of.
IsStmt(s) ==
  /\ s.k \in {"expr", "block", "bind", "if", "while", "loop", "return", "break",
              "continue", "fn", "declaration"}
  /\ s.k = "expr" => s.e \in Exprs
  /\ s.k \in {"block", "loop", "fn"} => s.body \in Seq(Stmts)
  /\ s.k = "bind" => s.init \in Exprs \cup {Nil}
  /\ s.k = "if" => /\ s.cond \in Exprs /\ s.then \in Stmts
                   /\ s.otherwise \in Stmts \cup {Nil}
  /\ s.k = "while" => s.cond \in Exprs /\ s.body \in Stmts
  /\ s.k = "loop" => s.guard \in Exprs \cup {Nil}
  /\ s.k = "return" => s.value \in Exprs \cup {Nil}

IsExpr(e) ==
  /\ e.k \in {"logical", "binary", "literal", "group", "unary", "var", "assign",
              "call", "callAny", "record", "vector", "enum", "match"}
  /\ e.k \in {"logical", "binary"} => e.left \in Exprs /\ e.right \in Exprs
  /\ e.k = "binary" => e.op \in {"+", "-", "*", "/", "%",
                                 "<", "<=", ">", ">=", "==", "!="}
  /\ e.k = "group" => e.e \in Exprs
  /\ e.k = "unary" => e.right \in Exprs
  /\ e.k = "assign" => e.value \in Exprs
  /\ e.k \in {"call", "callAny"} => e.args \in Seq(Exprs)
  /\ e.k = "record" => e.fields \in Seq(Exprs)
  /\ e.k = "enum" => e.payload \in Exprs \cup {Nil}
  /\ e.k = "match" =>
       /\ e.scrutinee \in Exprs
       /\ IsSeq(e.arms)
       /\ \A i \in DOMAIN e.arms : /\ e.arms[i].guard \in Exprs \cup {Nil}
                                  /\ e.arms[i].body \in Exprs

ASSUME SyntaxAssumption ==
  /\ Programs \subseteq Seq(Stmts)
  /\ \A s \in Stmts : IsStmt(s)
  /\ \A e \in Exprs : IsExpr(e)

\* What few visitors touch.
fixed == <<program, pools, loops, scopes, calls, status>>
others == <<fixed, code, regs, labels, vals, env>>
vars == <<program, work, code, pools, regs, labels, vals, env, loops, scopes,
          calls, status>>

-----------------------------------------------------------------------------
(* Registers, operands and instructions (ir.hpp).                            *)

Typed(n, kind) == [reg |-> n, primitive |-> kind]

Reg(r) == [kind |-> "reg", v |-> r.reg]
Imm(n) == [kind |-> "imm", v |-> n]
Lab(l) == [kind |-> "label", v |-> l]

Insn(op, args) ==
  [op |-> op, args |-> args, primitive |-> "Unknown", relation |-> "None",
   literal |-> "Int"]

OfKind(insn, kind) == [insn EXCEPT !.primitive = kind]

LabelInsn(l) == Insn("LABEL", <<Lab(l)>>)
Jump(l) == Insn("JMP", <<Lab(l)>>)
JumpIf(op, l, r) == Insn(op, <<Lab(l), Reg(r)>>)
LoadImm(r, n) == OfKind(Insn("LOADI", <<Reg(r), Imm(n)>>), r.primitive)
Note(args) == [Insn("NOP", args) EXCEPT !.literal = "Symbol"]

\* copy_to_dest: nothing when the value is already there, and no conversion.
CopyTo(dest, r) ==
  IF r.reg = dest.reg
  THEN <<>>
  ELSE <<OfKind(Insn("MOV", <<Reg(dest), Reg(r)>>), dest.primitive)>>

-----------------------------------------------------------------------------
(* Types of expressions as the generator sees them.                          *)

\* categorize_primitive; "untyped" is a null type.
Primitive(ty) ==
  CASE ty \in {"untyped", "int"} -> "Integer"
    [] ty = "float" -> "Float"
    [] ty = "fraction" -> "Fraction"
    [] ty = "bool" -> "Boolean"
    [] OTHER -> "Unknown"

\* categorize: as above, but a Boolean has no numeric category.
Category(ty) == IF ty = "bool" THEN "Unknown" ELSE Primitive(ty)

PrimitiveOr(ty, default) ==
  IF Primitive(ty) = "Unknown" THEN default ELSE Primitive(ty)

\* merge_category: the widest of the two categories.
Widest(a, b) ==
  CASE "Float" \in {a, b} -> "Float"
    [] "Fraction" \in {a, b} -> "Fraction"
    [] "Integer" \in {a, b} -> "Integer"
    [] OTHER -> "Unknown"

Relations ==
  [op \in {"<", "<=", ">", ">=", "==", "!="} |->
     CASE op = "<"  -> "Less"    [] op = "<=" -> "LessEqual"
       [] op = ">"  -> "Greater" [] op = ">=" -> "GreaterEqual"
       [] op = "==" -> "Equal"   [] op = "!=" -> "NotEqual"]

ArithmeticOps == {"+", "-", "*", "/", "%"}

\* select_opcode: the integer, float and fraction forms; MOD has but one.
Opcodes ==
  [op \in ArithmeticOps |->
     CASE op = "+" -> <<"ADD", "FADD", "FRACADD">>
       [] op = "-" -> <<"SUB", "FSUB", "FRACSUB">>
       [] op = "*" -> <<"MUL", "FMUL", "FRACMUL">>
       [] op = "/" -> <<"DIV", "FDIV", "FRACDIV">>
       [] op = "%" -> <<"MOD", "MOD", "MOD">>]
Opcode(op, category) ==
  Opcodes[op][CASE category = "Float" -> 2 [] category = "Fraction" -> 3
                [] OTHER -> 1]

\* ensure_kind: which conversions it can make, and the registers they take.
Keeps(r, kind) == kind \in {"Unknown", r.primitive}
CanConvert(r, kind) ==
  \/ Keeps(r, kind)
  \/ r.primitive = "Integer" /\ kind \in {"Float", "Fraction"}
Converted(r, kind, next) == IF Keeps(r, kind) THEN r ELSE Typed(next, kind)
Conversion(r, kind, next) ==
  IF Keeps(r, kind)
  THEN <<>>
  ELSE <<OfKind(Insn(IF kind = "Float" THEN "I2F" ELSE "I2FRAC",
                     <<Reg(Typed(next, kind)), Reg(r)>>), kind)>>
Taken(r, kind) == IF Keeps(r, kind) THEN 0 ELSE 1

-----------------------------------------------------------------------------
(* The work stack.                                                           *)

Visit(node) == [do |-> "visit", node |-> node]
Emit(insn) == [do |-> "emit", insn |-> insn]
EmitLabel(l) == Emit(LabelInsn(l))
EmitJump(l) == Emit(Jump(l))
JumpOn(op, l) == [do |-> "jumpOn", op |-> op, label |-> l]
Yield(r) == [do |-> "yield", reg |-> r]
Then(what, node) == [do |-> what, node |-> node]

VisitAll(nodes) == [i \in DOMAIN nodes |-> Visit(nodes[i])]
EmitAll(insns) == [i \in DOMAIN insns |-> Emit(insns[i])]

Doing(what) == status = "running" /\ work # <<>> /\ Head(work).do = what
Visiting(kind) == Doing("visit") /\ Head(work).node.k = kind
Node == Head(work).node

\* The item at hand is done, and leaves this to do.
Leaves(items) == work' = items \o Tail(work)
Emits(insns) == code' = code \o insns

\* A visitor that only arranges what comes next.
Expands(items) == Leaves(items) /\ UNCHANGED others

\* ensure_expr_result: the n last results, and whether one was never recorded.
Result(i) == vals[Len(vals) - i]
Recorded(n) == \A i \in 0..(n - 1) : Result(i) # Missing
Without(n) == SubSeq(vals, 1, Len(vals) - n)

Bound(name, r) ==
  [x \in DOMAIN env \cup {name} |-> IF x = name THEN r ELSE env[x]]

Lookup(name) == IF name \in DOMAIN env THEN env[name] ELSE Nil

Init ==
  /\ program \in Programs
  /\ work = VisitAll(program)
  /\ code = <<>>
  /\ pools = [functions |-> <<>>, aliases |-> <<>>, tensors |-> 0,
              loops |-> <<>>]
  /\ regs = 0
  /\ labels = 0
  /\ vals = <<>>
  /\ env = [x \in {} |-> Nil]
  /\ loops = <<>>
  /\ scopes = <<>>
  /\ calls = <<>>
  /\ status = "running"

\* A runtime_error leaves generate(); nothing of the program survives it.
Throws ==
  /\ status' = "threw"
  /\ UNCHANGED <<program, work, code, pools, regs, labels, vals, env, loops,
                 scopes, calls>>

-----------------------------------------------------------------------------
(* Statements.                                                               *)

EmitNext ==
  /\ Doing("emit")
  /\ Emits(<<Head(work).insn>>)
  /\ Leaves(<<>>)
  /\ UNCHANGED <<fixed, regs, labels, vals, env>>

\* emit_jump_if_zero and emit_jump_if_not_zero on the condition just evaluated.
JumpOnCondition ==
  /\ Doing("jumpOn")
  /\ Recorded(1)
  /\ Emits(<<JumpIf(Head(work).op, Head(work).label, Result(0))>>)
  /\ Leaves(<<>>)
  /\ vals' = Without(1)
  /\ UNCHANGED <<fixed, regs, labels, env>>

ExpressionStatement ==
  /\ Visiting("expr")
  /\ Expands(<<Visit(Node.e), [do |-> "forget", n |-> 1]>>)

\* Results that nobody asks for, recorded or not.
Forget ==
  /\ Doing("forget")
  /\ vals' = Without(Head(work).n)
  /\ Leaves(<<>>)
  /\ UNCHANGED <<fixed, code, regs, labels, env>>

Block ==
  /\ Visiting("block")
  /\ Expands(VisitAll(Node.body))

\* Var and let alike: a name without an initializer gets a register of its own.
Declare ==
  /\ Visiting("bind")
  /\ \/ /\ Node.init = Nil
        /\ env' = Bound(Node.name, Typed(regs, "Integer"))
        /\ regs' = regs + 1
        /\ Leaves(<<>>)
     \/ /\ Node.init # Nil
        /\ Leaves(<<Visit(Node.init), Then("bindTo", Node)>>)
        /\ UNCHANGED <<regs, env>>
  /\ UNCHANGED <<fixed, code, labels, vals>>

\* bind_variable_from_initializer: the name shares the initializer's register.
BindTo ==
  /\ Doing("bindTo")
  /\ Recorded(1)
  /\ env' = Bound(Node.name, Result(0))
  /\ vals' = Without(1)
  /\ Leaves(<<>>)
  /\ UNCHANGED <<fixed, code, regs, labels>>

\* Faults for the runs to see: the end label is not counted, or not emitted.
IfUncounted ==
  /\ Visiting("if")
  /\ Leaves(<<Visit(Node.cond), [do |-> "branch", node |-> Node,
                                 end |-> labels], EmitLabel(labels)>>)
  /\ UNCHANGED <<fixed, code, regs, labels, vals, env>>

IfWithoutEnd ==
  /\ Visiting("if")
  /\ Leaves(<<Visit(Node.cond), [do |-> "branch", node |-> Node,
                                 end |-> labels]>>)
  /\ labels' = labels + 1
  /\ UNCHANGED <<fixed, code, regs, vals, env>>

If ==
  /\ Visiting("if")
  /\ Leaves(<<Visit(Node.cond), [do |-> "branch", node |-> Node,
                                 end |-> labels], EmitLabel(labels)>>)
  /\ labels' = labels + 1
  /\ UNCHANGED <<fixed, code, regs, vals, env>>

Branch ==
  /\ Doing("branch")
  /\ Recorded(1)
  /\ \/ /\ Node.otherwise # Nil
        /\ Emits(<<JumpIf("JZ", labels, Result(0))>>)
        /\ Leaves(<<Visit(Node.then), EmitJump(Head(work).end),
                    EmitLabel(labels), Visit(Node.otherwise)>>)
        /\ labels' = labels + 1
     \/ /\ Node.otherwise = Nil
        /\ Emits(<<JumpIf("JZ", Head(work).end, Result(0))>>)
        /\ Leaves(<<Visit(Node.then)>>)
        /\ labels' = labels
  /\ vals' = Without(1)
  /\ UNCHANGED <<fixed, regs, env>>

LoopInfo(entry, exit) == [entry |-> entry, exit |-> exit]

While ==
  /\ Visiting("while")
  /\ loops' = Append(loops, LoopInfo(labels, labels + 1))
  /\ Leaves(<<EmitLabel(labels), Visit(Node.cond), JumpOn("JZ", labels + 1),
              Visit(Node.body), EmitJump(labels), EmitLabel(labels + 1),
              [do |-> "popLoop", record |-> FALSE]>>)
  /\ labels' = labels + 2
  /\ UNCHANGED <<program, code, pools, regs, vals, env, scopes, calls, status>>

\* A guarded loop goes back to its guard; the loop is open only once its guard
\* has been lowered, so a guard's own expressions see the enclosing loop.
Loop ==
  /\ Visiting("loop")
  /\ LET entry == labels
         exit == labels + 1
         guarded == Node.guard # Nil
         again == IF guarded THEN labels + 2 ELSE entry
         open == [do |-> "pushLoop", info |-> LoopInfo(again, exit)]
     IN /\ Leaves((IF guarded
                   THEN <<EmitLabel(again), Visit(Node.guard),
                          JumpOn("JZ", exit), EmitLabel(entry), open>>
                   ELSE <<EmitLabel(entry), open>>)
                  \o VisitAll(Node.body)
                  \o <<EmitJump(again), EmitLabel(exit),
                       [do |-> "popLoop", record |-> TRUE]>>)
        /\ labels' = labels + (IF guarded THEN 3 ELSE 2)
  /\ UNCHANGED <<fixed, code, regs, vals, env>>

\* A fault for the runs to see: the loop goes under the ones around it.
PushLoopUnder ==
  /\ Doing("pushLoop")
  /\ loops' = <<Head(work).info>> \o loops
  /\ Leaves(<<>>)
  /\ UNCHANGED <<program, code, pools, regs, labels, vals, env, scopes, calls,
                 status>>

PushLoop ==
  /\ Doing("pushLoop")
  /\ loops' = Append(loops, Head(work).info)
  /\ Leaves(<<>>)
  /\ UNCHANGED <<program, code, pools, regs, labels, vals, env, scopes, calls,
                 status>>

PopLoop ==
  /\ Doing("popLoop")
  /\ pools' = IF Head(work).record
              THEN [pools EXCEPT !.loops = Append(@, Last(loops))]
              ELSE pools
  /\ loops' = Front(loops)
  /\ Leaves(<<>>)
  /\ UNCHANGED <<program, code, regs, labels, vals, env, scopes, calls, status>>

Return ==
  /\ Visiting("return")
  /\ Expands((IF Node.value = Nil
              THEN <<>>
              ELSE <<Visit(Node.value), [do |-> "toR0"]>>)
             \o <<Emit(Insn("HALT", <<>>))>>)

ReturnValue ==
  /\ Doing("toR0")
  /\ Recorded(1)
  /\ Emits(CopyTo(Typed(0, Result(0).primitive), Result(0)))
  /\ vals' = Without(1)
  /\ Leaves(<<>>)
  /\ UNCHANGED <<fixed, regs, labels, env>>

\* A fault for the runs to see: a break that goes on with the loop.
BreakToEntry ==
  /\ Visiting("break")
  /\ Expands(IF loops = <<>> THEN <<>> ELSE <<EmitJump(Last(loops).entry)>>)

\* Outside a loop neither statement leaves a trace.
Break ==
  /\ Visiting("break")
  /\ Expands(IF loops = <<>> THEN <<>> ELSE <<EmitJump(Last(loops).exit)>>)

Continue ==
  /\ Visiting("continue")
  /\ Expands(IF loops = <<>> THEN <<>> ELSE <<EmitJump(Last(loops).entry)>>)

\* Every function is listed; the body of main alone becomes code.
Function ==
  /\ Visiting("fn")
  /\ pools' = [pools EXCEPT !.functions = Append(@, Node.name)]
  /\ Leaves(IF Node.name = "main" THEN VisitAll(Node.body) ELSE <<>>)
  /\ UNCHANGED <<program, code, regs, labels, vals, env, loops, scopes, calls,
                 status>>

\* TypeDecl, RecordDecl and EnumDecl add metadata when the analyzer knows the
\* name; ModuleDecl and ImportDecl (name Nil) add nothing.
Declaration ==
  /\ Visiting("declaration")
  /\ pools' = IF Node.name = Nil
              THEN pools
              ELSE [pools EXCEPT !.aliases = Append(@, Node.name)]
  /\ Leaves(<<>>)
  /\ UNCHANGED <<program, code, regs, labels, vals, env, loops, scopes, calls,
                 status>>

-----------------------------------------------------------------------------
(* Expressions.                                                              *)

\* record_result of a register known beforehand.
YieldRegister ==
  /\ Doing("yield")
  /\ vals' = Append(vals, Head(work).reg)
  /\ Leaves(<<>>)
  /\ UNCHANGED <<fixed, code, regs, labels, env>>

\* && and ||: the right operand is reached only through its own label.
Logical ==
  /\ Visiting("logical")
  /\ LET end == labels
         right == labels + 1
         false == labels + 2
         true == labels + 3
         dest == Typed(regs, "Boolean")
     IN Leaves(<<Visit(Node.left),
                 IF Node.op = "&&" THEN JumpOn("JZ", false)
                                   ELSE JumpOn("JNZ", true),
                 EmitJump(right), EmitLabel(right), Visit(Node.right),
                 JumpOn("JZ", false), EmitJump(true),
                 EmitLabel(false), Emit(LoadImm(dest, 0)), EmitJump(end),
                 EmitLabel(true), Emit(LoadImm(dest, 1)), EmitLabel(end),
                 Yield(dest)>>)
  /\ labels' = labels + 4
  /\ regs' = regs + 1
  /\ UNCHANGED <<fixed, code, vals, env>>

Binary ==
  /\ Visiting("binary")
  /\ Expands(<<Visit(Node.left), Visit(Node.right), Then("operate", Node)>>)

Comparing(n) == n.op \in DOMAIN Relations

\* The kind both operands are brought to.  Two Booleans are compared as they are.
OperandKind(n, left) ==
  IF ~Comparing(n) THEN PrimitiveOr(n.ty, "Integer")
  ELSE IF n.left.ty = "bool" /\ n.right.ty = "bool" THEN "Unknown"
  ELSE LET widest == Widest(Category(n.left.ty), Category(n.right.ty))
       IN IF widest = "Unknown" THEN left.primitive ELSE widest

Operable(n, left, right) ==
  /\ CanConvert(left, OperandKind(n, left))
  /\ CanConvert(right, OperandKind(n, left))
  /\ n.op = "%" => OperandKind(n, left) = "Integer"

\* Operands are converted left then right, and the result's register comes last.
Operate ==
  /\ Doing("operate")
  /\ Recorded(2)
  /\ Operable(Node, Result(1), Result(0))
  /\ LET kind == OperandKind(Node, Result(1))
         atRight == regs + Taken(Result(1), kind)
         atDest == atRight + Taken(Result(0), kind)
         left == Converted(Result(1), kind, regs)
         right == Converted(Result(0), kind, atRight)
         dest == Typed(atDest, IF Comparing(Node) THEN "Boolean" ELSE kind)
         args == <<Reg(dest), Reg(left), Reg(right)>>
         insn == IF Comparing(Node)
                 THEN [Insn("CMP", args) EXCEPT
                         !.relation = Relations[Node.op]]
                 ELSE Insn(Opcode(Node.op, Category(Node.ty)), args)
     IN /\ Emits(Conversion(Result(1), kind, regs)
                 \o Conversion(Result(0), kind, atRight)
                 \o <<OfKind(insn, dest.primitive)>>)
        /\ vals' = Append(Without(2), dest)
        /\ regs' = atDest + 1
  /\ Leaves(<<>>)
  /\ UNCHANGED <<fixed, labels, env>>

\* std::stoll reads the digits in front and stops at what follows them.
Literal ==
  /\ Visiting("literal") /\ Node.of # "overlong"
  /\ LET kind == IF Node.of = "bool" THEN "Boolean" ELSE "Integer"
         dest == Typed(regs, kind)
     IN /\ Emits(<<IF Node.of = "string"
                   THEN [OfKind(Insn("LOADI", <<Reg(dest)>>), kind) EXCEPT
                           !.literal = "Symbol"]
                   ELSE LoadImm(dest, Node.whole)>>)
        /\ vals' = Append(vals, dest)
  /\ regs' = regs + 1
  /\ Leaves(<<>>)
  /\ UNCHANGED <<fixed, labels, env>>

\* A grouping or a field access is the value it wraps: records are opaque.
Grouping ==
  /\ Visiting("group")
  /\ Expands(<<Visit(Node.e), [do |-> "require"]>>)

Require ==
  /\ Doing("require")
  /\ Recorded(1)
  /\ Expands(<<>>)

Unary ==
  /\ Visiting("unary")
  /\ Expands(<<Visit(Node.right), Then("negate", Node)>>)

\* Of the unary operators the parser knows, minus alone has an instruction.
Negate ==
  /\ Doing("negate")
  /\ Recorded(1)
  /\ Node.op = "-"
  /\ LET dest == Typed(regs, Result(0).primitive)
     IN /\ Emits(<<OfKind(Insn("NEG", <<Reg(dest), Reg(Result(0))>>),
                          dest.primitive)>>)
        /\ vals' = Append(Without(1), dest)
  /\ regs' = regs + 1
  /\ Leaves(<<>>)
  /\ UNCHANGED <<fixed, labels, env>>

\* A name is its register, not a copy; a dotted name is the register of what
\* stands before the dot (Node.base).
Variable ==
  /\ Visiting("var")
  /\ LET found == IF Lookup(Node.name) # Nil \/ Node.base = Nil
                  THEN Lookup(Node.name)
                  ELSE Lookup(Node.base)
         dest == Typed(regs, "Integer")
     IN \/ /\ found # Nil
           /\ vals' = Append(vals, found)
           /\ UNCHANGED <<code, regs>>
        \/ /\ found = Nil /\ Node.name = "None"
           /\ Emits(<<Insn("MAKE_OPTION_NONE", <<Reg(dest)>>)>>)
           /\ vals' = Append(vals, dest)
           /\ regs' = regs + 1
        \/ /\ found = Nil /\ Node.name # "None"
           /\ vals' = Append(vals, Missing)
           /\ UNCHANGED <<code, regs>>
  /\ Leaves(<<>>)
  /\ UNCHANGED <<fixed, labels, env>>

\* An assignment writes the register the name shares with whatever else has it.
Assign ==
  /\ Visiting("assign")
  /\ Expands(<<Visit(Node.value), Then("assignTo", Node)>>)

AssignTo ==
  /\ Doing("assignTo")
  /\ Recorded(1)
  /\ LET found == Lookup(Node.name)
     IN \/ /\ found # Nil
           /\ Emits(CopyTo(found, Result(0)))
           /\ vals' = Append(Without(1), found)
           /\ env' = env
        \/ /\ found = Nil
           /\ env' = Bound(Node.name, Result(0))
           /\ UNCHANGED <<code, vals>>
  /\ Leaves(<<>>)
  /\ UNCHANGED <<fixed, regs, labels>>

-----------------------------------------------------------------------------
(* Calls and constructors.                                                   *)

Makers == [name \in {"Some", "Ok", "Err"} |->
             CASE name = "Some" -> "MAKE_OPTION_SOME"
               [] name = "Ok"   -> "MAKE_RESULT_OK"
               [] name = "Err"  -> "MAKE_RESULT_ERR"]

Builtins == DOMAIN Makers \cup {"None", "print", "weights.load"}

\* The constructors read their first argument and visit no other.
Construct ==
  /\ Visiting("call")
  /\ Node.name \in DOMAIN Makers /\ Node.args # <<>>
  /\ Expands(<<Visit(Head(Node.args)), Then("make", Node)>>)

Make ==
  /\ Doing("make")
  /\ Recorded(1)
  /\ LET dest == Typed(regs, "Integer")
     IN /\ Emits(<<Insn(Makers[Node.name], <<Reg(dest), Reg(Result(0))>>)>>)
        /\ vals' = Append(Without(1), dest)
  /\ regs' = regs + 1
  /\ Leaves(<<>>)
  /\ UNCHANGED <<fixed, labels, env>>

NamesWeights == Len(Node.args) = 1 /\ Node.args[1].k = "literal"

\* None() and weights.load("...") read no register.
Handle ==
  /\ Visiting("call")
  /\ LET dest == Typed(regs, "Integer")
     IN /\ \/ /\ Node.name = "None"
              /\ Emits(<<Insn("MAKE_OPTION_NONE", <<Reg(dest)>>)>>)
           \/ /\ Node.name = "weights.load" /\ NamesWeights
              /\ Emits(<<[Insn("WEIGHTS_LOAD", <<Reg(dest)>>) EXCEPT
                            !.literal = "Symbol"]>>)
        /\ vals' = Append(vals, dest)
  /\ regs' = regs + 1
  /\ Leaves(<<>>)
  /\ UNCHANGED <<fixed, labels, env>>

\* print leaves a NOP that names its operand, and yields 0.
CallPrint ==
  /\ Visiting("call")
  /\ Node.name = "print" /\ Len(Node.args) = 1
  /\ Expands(<<Visit(Node.args[1]), [do |-> "note"], [do |-> "zero"]>>)

NotePayload ==
  /\ Doing("note")
  /\ Recorded(1)
  /\ Emits(<<Note(<<Reg(Result(0))>>)>>)
  /\ vals' = Without(1)
  /\ Leaves(<<>>)
  /\ UNCHANGED <<fixed, regs, labels, env>>

Zero ==
  /\ Doing("zero")
  /\ LET dest == Typed(regs, "Integer")
     IN /\ Emits(<<Insn("LOADI", <<Reg(dest), Imm(0)>>)>>)
        /\ vals' = Append(vals, dest)
  /\ regs' = regs + 1
  /\ Leaves(<<>>)
  /\ UNCHANGED <<fixed, labels, env>>

\* A callee that is no name: its arguments are lowered for their effects.
CallAnything ==
  /\ Visiting("callAny")
  /\ Expands(VisitAll(Node.args) \o
             <<[do |-> "forget", n |-> Len(Node.args)], [do |-> "zero"]>>)

CallFunction ==
  /\ Visiting("call")
  /\ Node.name \notin Builtins
  /\ Expands(VisitAll(Node.args) \o <<Then("call", Node)>>)

\* Ids are given in the order of first calls, from 1; an instruction has room
\* for two arguments; the answer comes back in register 0.
EmitCall ==
  /\ Doing("call")
  /\ LET n == Len(Node.args)
         args == SubSeq(vals, Len(vals) - n + 1, Len(vals))
         known == Node.name \in Range(calls)
         id == IF known THEN CHOOSE i \in DOMAIN calls : calls[i] = Node.name
                        ELSE Len(calls) + 1
         passed == [i \in 1..(IF n < 2 THEN n ELSE 2) |-> Reg(args[i])]
         dest == Typed(regs, "Integer")
     IN /\ Recorded(n)
        /\ calls' = IF known THEN calls ELSE Append(calls, Node.name)
        /\ Emits(<<Insn("CALL", <<Imm(id)>> \o passed),
                   Insn("MOV", <<Reg(dest), Reg(Typed(0, "Integer"))>>)>>)
        /\ vals' = Append(Without(n), dest)
  /\ regs' = regs + 1
  /\ Leaves(<<>>)
  /\ UNCHANGED <<program, pools, labels, env, loops, scopes, status>>

\* The fields are lowered for their effects, and no instruction builds a record.
RecordLiteral ==
  /\ Visiting("record")
  /\ Expands(VisitAll(Node.fields) \o
             <<[do |-> "forget", n |-> Len(Node.fields)],
               [do |-> "fresh", primitive |-> PrimitiveOr(Node.ty, "Integer")]>>)

\* A fault for the runs to see: the counter read after it is incremented.
FreshPreIncremented ==
  /\ Doing("fresh")
  /\ vals' = Append(vals, Typed(regs + 1, Head(work).primitive))
  /\ regs' = regs + 1
  /\ Leaves(<<>>)
  /\ UNCHANGED <<fixed, code, labels, env>>

Fresh ==
  /\ Doing("fresh")
  /\ vals' = Append(vals, Typed(regs, Head(work).primitive))
  /\ regs' = regs + 1
  /\ Leaves(<<>>)
  /\ UNCHANGED <<fixed, code, labels, env>>

VectorLiteral ==
  /\ Visiting("vector") /\ Node.data = "elements"
  /\ LET dest == Typed(regs, "Integer")
         handle == pools.tensors + 1
     IN /\ pools' = [pools EXCEPT !.tensors = handle]
        /\ Emits(<<[Insn("LOADI", <<Reg(dest), Imm(handle)>>) EXCEPT
                      !.literal = "Tensor"]>>)
        /\ vals' = Append(vals, dest)
  /\ regs' = regs + 1
  /\ Leaves(<<>>)
  /\ UNCHANGED <<program, labels, env, loops, scopes, calls, status>>

EnumLiteral ==
  /\ Visiting("enum")
  /\ Expands((IF Node.payload = Nil THEN <<>> ELSE <<Visit(Node.payload)>>)
             \o <<Then("variant", Node)>>)

\* A variant the enum does not have (Node.variantId < 0) becomes a trap.
MakeVariant ==
  /\ Doing("variant")
  /\ LET dest == Typed(regs, PrimitiveOr(Node.ty, "Integer"))
         id == Imm(GlobalVariantId(Node.enumId, Node.variantId))
         known == Node.variantId >= 0
         carried == IF Node.payload = Nil THEN 0 ELSE 1
     IN /\ known => Recorded(carried)
        /\ Emits(<<CASE ~known -> Insn("TRAP", <<>>)
                     [] known /\ carried = 1 ->
                          Insn("MAKE_ENUM_VARIANT_PAYLOAD",
                               <<Reg(dest), Reg(Result(0)), id>>)
                     [] OTHER -> Insn("MAKE_ENUM_VARIANT", <<Reg(dest), id>>)>>)
        /\ vals' = Append(Without(carried), dest)
  /\ regs' = regs + 1
  /\ Leaves(<<>>)
  /\ UNCHANGED <<fixed, labels, env>>

-----------------------------------------------------------------------------
(* Match expressions.                                                        *)

Match ==
  /\ Visiting("match")
  /\ Expands(<<Visit(Node.scrutinee), Then("dispatch", Node)>>)

\* The members of a set of numbers, smallest first.
Rank(n, S) == Cardinality({m \in S : m <= n})
InOrder(S) == [r \in 1..Cardinality(S) |-> CHOOSE n \in S : Rank(n, S) = r]

\* The arms of one variant, and the variants in the order they first appear.
ArmsOf(arms, i) ==
  InOrder({j \in DOMAIN arms : arms[j].variant = arms[i].variant})
VariantHeads(arms) ==
  InOrder({i \in DOMAIN arms :
             \A j \in 1..(i - 1) : arms[j].variant # arms[i].variant})

\* The result's register and the trap belong to the whole match, and so do the
\* two registers every variant's test and payload go through.
Dispatch ==
  /\ Doing("dispatch")
  /\ Recorded(1)
  /\ LET dest == Typed(regs, PrimitiveOr(Node.ty, "Integer"))
         end == labels
         trap == labels + 1
         m == [node |-> Node, scrutinee |-> Result(0), dest |-> dest,
               flag |-> Typed(regs + 1, "Boolean"),
               payload |-> Typed(regs + 2, "Integer"),
               end |-> end, trap |-> trap, heads |-> VariantHeads(Node.arms)]
     IN Leaves([v \in DOMAIN m.heads |->
                  [do |-> "testVariant", match |-> m, v |-> v]]
               \o <<EmitLabel(trap), Emit(Insn("TRAP", <<>>)), EmitLabel(end),
                    Emit(Insn("NOP", <<>>)), Yield(dest)>>)
  /\ labels' = labels + 2
  /\ regs' = regs + 3
  /\ vals' = Without(1)
  /\ UNCHANGED <<fixed, code, env>>

IsEnum(node) == node.meta = "Enum"

\* The test of variant name and its jump to next.  The built-in names are
\* tested by name, whatever the scrutinee's type; an enum's by its id, taken
\* from the first arm that has one.
VariantTest(m, arms, next) ==
  LET name == m.node.arms[arms[1]].variant
      ids == SelectSeq(arms, LAMBDA a : m.node.arms[a].variantId >= 0)
      test(op, jump) ==
        <<Insn(op, <<Reg(m.flag), Reg(m.scrutinee)>>),
          JumpIf(jump, next, m.flag)>>
  IN CASE name = "Some" -> test("OPTION_IS_SOME", "JZ")
       [] name = "None" -> test("OPTION_IS_SOME", "JNZ")
       [] name = "Ok"   -> test("RESULT_IS_OK", "JZ")
       [] name = "Err"  -> test("RESULT_IS_OK", "JNZ")
       [] name \notin {"Some", "None", "Ok", "Err"}
            /\ IsEnum(m.node) /\ ids # <<>> ->
            LET arm == m.node.arms[ids[1]]
                id == Imm(GlobalVariantId(arm.enumId, arm.variantId))
            IN <<Insn("ENUM_IS_VARIANT",
                      <<Reg(m.flag), Reg(m.scrutinee), id>>),
                 JumpIf("JZ", next, m.flag)>>
       [] OTHER -> <<Jump(next)>>

\* A variant that does not match goes on to the next one, the last one to the
\* trap.
TestVariant ==
  /\ Doing("testVariant")
  /\ LET m == Head(work).match
         v == Head(work).v
         arms == ArmsOf(m.node.arms, m.heads[v])
         last == v = Len(m.heads)
         next == IF last THEN m.trap ELSE labels
     IN /\ Leaves(EmitAll(VariantTest(m, arms, next))
                  \o [a \in DOMAIN arms |->
                        [do |-> "arm", match |-> m, arms |-> arms, a |-> a,
                         next |-> next]]
                  \o (IF last THEN <<>> ELSE <<EmitLabel(next)>>))
        /\ labels' = IF last THEN labels ELSE labels + 1
  /\ UNCHANGED <<fixed, code, regs, vals, env>>

Unwrap(m, arm) ==
  LET unwrap(op) == <<Insn(op, <<Reg(m.payload), Reg(m.scrutinee)>>)>>
  IN CASE arm.variant = "Some" -> unwrap("OPTION_UNWRAP")
       [] arm.variant = "Ok"   -> unwrap("RESULT_UNWRAP_OK")
       [] arm.variant = "Err"  -> unwrap("RESULT_UNWRAP_ERR")
       [] arm.variant \notin {"Some", "Ok", "Err"}
            /\ IsEnum(m.node) /\ arm.payload -> unwrap("ENUM_UNWRAP_PAYLOAD")
       [] OTHER -> <<>>

\* bind_variant_payload: the one name a pattern gives the payload.  It looks
\* through one nested variant; record and tuple patterns bind nothing here.
Identifier(p) == IF p.pk = "identifier" THEN p.name ELSE Nil
BoundName(p) ==
  Identifier(IF p.pk = "variant" /\ p.inner # Nil THEN p.inner ELSE p)

\* One arm: a failed guard goes to the variant's next arm, the last arm's to the
\* next variant.  The arm's own scope closes after the next arm's label.
Arm ==
  /\ Doing("arm")
  /\ LET m == Head(work).match
         arms == Head(work).arms
         a == Head(work).a
         arm == m.node.arms[arms[a]]
         last == a = Len(arms)
         nextArm == IF last THEN Head(work).next ELSE labels
         unwrap == Unwrap(m, arm)
         name == IF unwrap = <<>> THEN Nil ELSE BoundName(arm.pattern)
     IN /\ Emits(unwrap)
        /\ env' = IF name = Nil THEN env ELSE Bound(name, m.payload)
        /\ scopes' = Append(scopes,
                            IF name = Nil
                            THEN <<>>
                            ELSE <<[name |-> name, previous |-> Lookup(name)]>>)
        /\ Leaves((IF arm.guard = Nil \/ m.node.meta = Nil
                   THEN <<>>
                   ELSE <<Emit(Note(<<>>)), Visit(arm.guard),
                          JumpOn("JZ", nextArm)>>)
                  \o <<Visit(arm.body), [do |-> "copyTo", reg |-> m.dest],
                       EmitJump(m.end)>>
                  \o (IF last THEN <<>> ELSE <<EmitLabel(nextArm)>>)
                  \o <<[do |-> "exitScope"]>>)
        /\ labels' = IF last THEN labels ELSE labels + 1
  /\ UNCHANGED <<program, pools, regs, vals, loops, calls, status>>

CopyResult ==
  /\ Doing("copyTo")
  /\ Recorded(1)
  /\ Emits(CopyTo(Head(work).reg, Result(0)))
  /\ vals' = Without(1)
  /\ Leaves(<<>>)
  /\ UNCHANGED <<fixed, regs, labels, env>>

\* A fault for the runs to see: a pattern's names outlive their arm.
NotRestored(bindings, e) == e

\* exit_pattern_scope: each name gets back the register it had, or none.  No
\* scope holds two bindings of a name, so their order does not matter.
Restored(bindings, e) ==
  LET bound == {bindings[i].name : i \in DOMAIN bindings}
      of(x) == CHOOSE i \in DOMAIN bindings : bindings[i].name = x
      before(x) == bindings[of(x)].previous
  IN [x \in {y \in DOMAIN e \cup bound : y \in bound => before(y) # Nil} |->
        IF x \in bound THEN before(x) ELSE e[x]]

\* A fault for the runs to see: the scope is restored from and not popped.
ExitScopeKept ==
  /\ Doing("exitScope")
  /\ env' = Restored(Last(scopes), env)
  /\ Leaves(<<>>)
  /\ UNCHANGED <<program, code, pools, regs, labels, vals, loops, scopes, calls,
                 status>>

ExitScope ==
  /\ Doing("exitScope")
  /\ env' = Restored(Last(scopes), env)
  /\ scopes' = Front(scopes)
  /\ Leaves(<<>>)
  /\ UNCHANGED <<program, code, pools, regs, labels, vals, loops, calls, status>>

-----------------------------------------------------------------------------
(* The ways out.                                                             *)

Operands ==
  [jumpOn |-> 1, bindTo |-> 1, branch |-> 1, toR0 |-> 1, operate |-> 2,
   require |-> 1, negate |-> 1, assignTo |-> 1, make |-> 1, note |-> 1,
   dispatch |-> 1, copyTo |-> 1]

\* ensure_expr_result and evaluate_expr throw when a result was never recorded.
MissingResult ==
  /\ status = "running" /\ work # <<>>
  /\ LET do == Head(work).do
         n == CASE do \in DOMAIN Operands -> Operands[do]
                [] do = "call" -> Len(Node.args)
                [] do = "variant" /\ Node.payload # Nil
                     /\ Node.variantId >= 0 -> 1
                [] OTHER -> 0
     IN ~Recorded(n)
  /\ Throws

\* What the generator refuses: a conversion it has no opcode for, a modulo of
\* other than integers, a unary operator other than minus, a constructor
\* without payload, print and weights.load with other arguments than theirs.
\* And what a library it calls refuses: a number std::stoll cannot hold, and a
\* tensor without elements, whose one dimension is not positive.
Unsupported ==
  /\ \/ Doing("operate") /\ Recorded(2) /\ ~Operable(Node, Result(1), Result(0))
     \/ Doing("negate") /\ Recorded(1) /\ Node.op # "-"
     \/ Visiting("call") /\ Node.name \in DOMAIN Makers /\ Node.args = <<>>
     \/ Visiting("call") /\ Node.name = "print" /\ Len(Node.args) # 1
     \/ Visiting("call") /\ Node.name = "weights.load" /\ ~NamesWeights
     \/ Visiting("literal") /\ Node.of = "overlong"
     \/ Visiting("vector") /\ Node.data \in {"empty", "missing"}
  /\ Throws

Finish ==
  /\ status = "running" /\ work = <<>>
  /\ status' = "done"
  /\ UNCHANGED <<program, work, code, pools, regs, labels, vals, env, loops,
                 scopes, calls>>

StatementStep ==
  \/ EmitNext \/ JumpOnCondition \/ ExpressionStatement \/ Forget \/ Block
  \/ Declare \/ BindTo \/ If \/ Branch \/ While \/ Loop \/ PushLoop \/ PopLoop
  \/ Return \/ ReturnValue \/ Break \/ Continue \/ Function \/ Declaration

ExpressionStep ==
  \/ YieldRegister \/ Logical \/ Binary \/ Operate \/ Literal \/ Grouping
  \/ Require \/ Unary \/ Negate \/ Variable \/ Assign \/ AssignTo

CallStep ==
  \/ Construct \/ Make \/ Handle \/ CallPrint \/ NotePayload \/ Zero \/ CallAnything
  \/ CallFunction \/ EmitCall \/ RecordLiteral \/ Fresh \/ VectorLiteral
  \/ EnumLiteral \/ MakeVariant

MatchStep ==
  \/ Match \/ Dispatch \/ TestVariant \/ Arm \/ CopyResult \/ ExitScope

Next ==
  StatementStep \/ ExpressionStep \/ CallStep \/ MatchStep
  \/ MissingResult \/ Unsupported \/ Finish

Spec == Init /\ [][Next]_vars /\ WF_vars(Next)

-----------------------------------------------------------------------------
(* Properties.                                                               *)

Register == [reg : Nat, primitive : {"Integer", "Float", "Fraction",
                                     "Boolean", "Unknown"}]
Label == 0..(labels - 1)

\* The types of the generator's state: registers and labels are handed out by
\* their counters, and a scope remembers registers or the absence of one.
TypeOK ==
  /\ regs \in Nat /\ labels \in Nat
  /\ \A i \in DOMAIN vals :
       vals[i] # Missing => vals[i] \in Register /\ vals[i].reg < regs
  /\ \A x \in DOMAIN env : env[x] \in Register /\ env[x].reg < regs
  /\ \A i \in DOMAIN loops : loops[i] \in [entry : Label, exit : Label]
  /\ \A i \in DOMAIN scopes : \A j \in DOMAIN scopes[i] :
       scopes[i][j].previous \in Register \cup {Nil}
  /\ \A i \in DOMAIN code : \A j \in DOMAIN code[i].args :
       LET arg == code[i].args[j] IN
       /\ arg.kind = "label" => arg.v \in Label
       /\ arg.kind = "reg" => (arg.v < regs \/ arg.v = 0)
  /\ status \in {"running", "done", "threw"}

\* The program as it will be: what is emitted, then what is still to do.
Image == EmitAll(code) \o work

DefinesLabel(item) == item.do = "emit" /\ item.insn.op = "LABEL"
Defined(item) == item.insn.args[1].v
Defines(items) ==
  {Defined(items[i]) : i \in {j \in DOMAIN items : DefinesLabel(items[j])}}

\* The labels an item of work refers to, now or when it is done.
Refers(item) ==
  CASE item.do = "emit" ->
         {item.insn.args[i].v :
            i \in {j \in DOMAIN item.insn.args :
                     item.insn.args[j].kind = "label"}}
    [] item.do = "jumpOn" -> {item.label}
    [] item.do = "branch" -> {item.end}
    [] item.do = "pushLoop" -> {item.info.entry, item.info.exit}
    [] item.do = "testVariant" -> {item.match.trap, item.match.end}
    [] item.do = "arm" -> {item.next, item.match.end}
    [] OTHER -> {}

\* No label is defined twice, anywhere in the program: encode_program would
\* silently keep the last place and send the other jumps astray.
LabelsAreUnique ==
  LET image == Image
      places == {i \in DOMAIN image : DefinesLabel(image[i])}
  IN \A i, j \in places : Defined(image[i]) = Defined(image[j]) => i = j

\* Every label a jump names, a visitor still holds or an open loop offers to
\* break and continue has its LABEL, emitted or certain to be: a finished
\* program never has a jump that encode_program cannot resolve.
JumpsHaveTargets ==
  LET image == Image
      defined == Defines(image)
  IN
  /\ \A i \in DOMAIN image : Refers(image[i]) \subseteq defined
  /\ \A i \in DOMAIN loops : {loops[i].entry, loops[i].exit} \subseteq defined

\* The exits of the open loops are still ahead, the innermost loop's first (or
\* it has just been emitted and the loop is about to be closed): a break always
\* leaves the innermost loop, and leaves it forwards.
BreakLeavesInnermost ==
  LET ahead(l) == {i \in DOMAIN work :
                     DefinesLabel(work[i]) /\ Defined(work[i]) = l}
      closing(k) == k = Len(loops) /\ Head(work).do = "popLoop"
  IN status = "running" =>
     \A k \in DOMAIN loops :
       /\ closing(k) \/ ahead(loops[k].exit) # {}
       /\ \A m \in 1..(k - 1) :
            \A i \in ahead(loops[k].exit), j \in ahead(loops[m].exit) : i < j

\* When generate() returns, every visitor has taken back what it pushed: no
\* loop is open, no pattern scope is open and no result is left over.
EverythingIsPopped ==
  status = "done" => vals = <<>> /\ loops = <<>> /\ scopes = <<>>
=============================================================================
