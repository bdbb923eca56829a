----------------------------- MODULE TiscMachine -----------------------------
(* The TISC machine that runs what the compiler emits.  It is not part of the  *)
(* repository: this is the machine its code generator counts on (registers,    *)
(* jumps to instruction numbers, answers of calls in register 0, a handle of    *)
(* an Option, Result or enum in one register).  A value is a tagged tuple, so   *)
(* that an operation on the wrong kind of value is a fault one can see.         *)
EXTENDS Integers, Sequences

CONSTANT Undef      \* what a register holds before anything is written to it

Number(n) == <<"int", n>>
Truth(b) == Number(IF b THEN 1 ELSE 0)
IsZero(v) == v = Number(0)
Numeric(v) == v # Undef /\ v[1] \in {"int", "float", "fraction"}

Compare(relation, x, y) ==
  CASE relation = "Less"         -> x[2] < y[2]
    [] relation = "LessEqual"    -> x[2] <= y[2]
    [] relation = "Greater"      -> x[2] > y[2]
    [] relation = "GreaterEqual" -> x[2] >= y[2]
    [] relation = "Equal"        -> x = y
    [] relation = "NotEqual"     -> x # y

\* The tag an arithmetic opcode works on, and the operator it applies.
ArithmeticTag ==
  [op \in {"ADD", "SUB", "MUL", "DIV", "MOD", "FADD", "FSUB", "FMUL", "FDIV",
           "FRACADD", "FRACSUB", "FRACMUL", "FRACDIV"} |->
     CASE op \in {"FADD", "FSUB", "FMUL", "FDIV"} -> "float"
       [] op \in {"FRACADD", "FRACSUB", "FRACMUL", "FRACDIV"} -> "fraction"
       [] OTHER -> "int"]

Arithmetic(op, x, y) ==
  CASE op \in {"ADD", "FADD", "FRACADD"} -> x + y
    [] op \in {"SUB", "FSUB", "FRACSUB"} -> x - y
    [] op \in {"MUL", "FMUL", "FRACMUL"} -> x * y
    [] op \in {"DIV", "FDIV", "FRACDIV"} -> x \div y
    [] op = "MOD" -> x % y

\* Division by zero faults; so does an operand of another kind.
Applicable(op, x, y) ==
  /\ {x, y} \cap {Undef} = {}
  /\ x[1] = ArithmeticTag[op] /\ y[1] = ArithmeticTag[op]
  /\ op \in {"DIV", "MOD", "FDIV", "FRACDIV"} => y[2] # 0

Start == [pc |-> 0, r |-> [n \in {} |-> Undef], out |-> <<>>,
          status |-> "runs"]

\* One instruction.  insns[i] is a tisc-json record together with what the IR
\* knows and the record leaves out: relation, literal and argument count.
Step(insns, m) ==
  LET i == insns[m.pc + 1]
      read(n) == IF n \in DOMAIN m.r THEN m.r[n] ELSE Undef
      write(n, v) ==
        [m EXCEPT !.pc = @ + 1,
                  !.r = [k \in DOMAIN m.r \cup {n} |->
                           IF k = n THEN v ELSE m.r[k]]]
      jump(target) == [m EXCEPT !.pc = target]
      skip == [m EXCEPT !.pc = @ + 1]
      stop(how) == [m EXCEPT !.status = how]
      fault == stop("faulted")
      handle(tag) == read(i.b) # Undef /\ read(i.b)[1] \in tag
      option == {"some", "none"}
      result == {"ok", "err"}
      enum == {"variant"}
      making(tag) == IF read(i.b) = Undef THEN fault
                     ELSE write(i.a, <<tag, read(i.b)>>)
      testing(tags, tag) == IF ~handle(tags) THEN fault
                            ELSE write(i.a, Truth(read(i.b)[1] = tag))
      unwrapping(tag) == IF ~handle({tag}) THEN fault
                         ELSE write(i.a, read(i.b)[2])
      args == SubSeq(<<read(i.b), read(i.c)>>, 1, i.passed)
  IN CASE i.opcode = "LOADI" ->
            write(i.a, IF i.literal = "Int" THEN Number(i.b)
                                            ELSE <<i.literal, i.b>>)
       [] i.opcode = "MOV" ->
            IF read(i.b) = Undef THEN fault ELSE write(i.a, read(i.b))
       [] i.opcode \in DOMAIN ArithmeticTag ->
            IF ~Applicable(i.opcode, read(i.b), read(i.c)) THEN fault
            ELSE write(i.a, <<ArithmeticTag[i.opcode],
                              Arithmetic(i.opcode, read(i.b)[2],
                                         read(i.c)[2])>>)
       [] i.opcode = "NEG" ->
            IF ~Numeric(read(i.b)) THEN fault
            ELSE write(i.a, <<read(i.b)[1], 0 - read(i.b)[2]>>)
       [] i.opcode \in {"I2F", "I2FRAC"} ->
            IF ~handle({"int"}) THEN fault
            ELSE write(i.a, <<IF i.opcode = "I2F" THEN "float" ELSE "fraction",
                              read(i.b)[2]>>)
       [] i.opcode = "CMP" ->
            IF Undef \in {read(i.b), read(i.c)} THEN fault
            ELSE write(i.a, Truth(Compare(i.relation, read(i.b), read(i.c))))
       [] i.opcode = "JMP" -> jump(i.a)
       [] i.opcode \in {"JZ", "JNZ"} ->
            IF read(i.a) = Undef THEN fault
            ELSE IF IsZero(read(i.a)) <=> i.opcode = "JZ" THEN jump(i.b)
            ELSE skip
       [] i.opcode = "CALL" ->
            IF \E k \in DOMAIN args : args[k] = Undef THEN fault
            ELSE [write(0, <<"answer", i.a, args>>) EXCEPT
                    !.out = Append(@, <<"call", i.a, args>>)]
       [] i.opcode = "NOP" ->
            IF i.literal = "Symbol" /\ i.prints
            THEN [skip EXCEPT !.out = Append(@, <<"print", read(i.a)>>)]
            ELSE skip
       [] i.opcode = "MAKE_OPTION_NONE" -> write(i.a, <<"none">>)
       [] i.opcode = "MAKE_OPTION_SOME" -> making("some")
       [] i.opcode = "MAKE_RESULT_OK" -> making("ok")
       [] i.opcode = "MAKE_RESULT_ERR" -> making("err")
       [] i.opcode = "OPTION_IS_SOME" -> testing(option, "some")
       [] i.opcode = "RESULT_IS_OK" -> testing(result, "ok")
       [] i.opcode = "OPTION_UNWRAP" -> unwrapping("some")
       [] i.opcode = "RESULT_UNWRAP_OK" -> unwrapping("ok")
       [] i.opcode = "RESULT_UNWRAP_ERR" -> unwrapping("err")
       [] i.opcode = "MAKE_ENUM_VARIANT" -> write(i.a, <<"variant", i.b>>)
       [] i.opcode = "MAKE_ENUM_VARIANT_PAYLOAD" ->
            IF read(i.b) = Undef THEN fault
            ELSE write(i.a, <<"variant", i.c, read(i.b)>>)
       [] i.opcode = "ENUM_IS_VARIANT" ->
            IF ~handle(enum) THEN fault
            ELSE write(i.a, Truth(read(i.b)[2] = i.c))
       [] i.opcode = "ENUM_UNWRAP_PAYLOAD" ->
            IF ~handle(enum) \/ Len(read(i.b)) # 3 THEN fault
            ELSE write(i.a, read(i.b)[3])
       [] i.opcode = "WEIGHTS_LOAD" -> write(i.a, <<"weights", 0>>)
       [] i.opcode = "HALT" -> stop("halted")
       [] i.opcode = "TRAP" -> stop("trapped")

\* A jump to the label after the last instruction, or a body without return,
\* runs off the end of the program.
Advance(insns, m) ==
  IF m.pc >= Len(insns) THEN [m EXCEPT !.status = "ranOff"]
  ELSE Step(insns, m)
=============================================================================
