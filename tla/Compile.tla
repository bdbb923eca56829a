------------------------------- MODULE Compile -------------------------------
(* A program through the back end: lowered by the IR generator, encoded by     *)
(* encode_program, and run on a TISC machine.                                  *)
EXTENDS Lowering, Encoder, TiscMachine

VARIABLES
  insns,        \* the encoded program, Unencodable, or Nil before encoding
  machine       \* the machine that runs it, or Nil

compileVars == <<vars, insns, machine>>

CompileInit ==
  /\ Init
  /\ insns = Nil
  /\ machine = Nil

Lower == Next /\ UNCHANGED <<insns, machine>>

\* What the machine knows of an instruction besides its record.
WithIR(record, insn) ==
  record @@ [relation |-> insn.relation, literal |-> insn.literal,
             prints |-> insn.op = "NOP" /\ insn.args # <<>>,
             passed |-> Len(insn.args) - 1]

\* Functions go by their names.
Named(record) ==
  IF record.opcode = "CALL" THEN [record EXCEPT !.a = calls[record.a]]
                            ELSE record

Encode ==
  /\ status = "done" /\ insns = Nil
  /\ insns' = EncodeProgram(code)
  /\ machine' = IF insns' = Unencodable THEN Nil ELSE Start
  /\ UNCHANGED vars

Loaded ==
  LET real == RealInsns(code)
  IN [i \in DOMAIN insns |->
        Named(WithIR(insns[i], IF real = <<>> THEN Insn("HALT", <<>>)
                                              ELSE real[i]))]

Execute ==
  /\ machine # Nil
  /\ machine.status = "runs"
  /\ machine' = Advance(Loaded, machine)
  /\ UNCHANGED <<vars, insns>>

CompileNext == Lower \/ Encode \/ Execute

CompileSpec == CompileInit /\ [][CompileNext]_compileVars
               /\ WF_compileVars(CompileNext)

-----------------------------------------------------------------------------
Stopped == machine # Nil /\ machine.status # "runs"

\* What the generator returns can always be encoded: every LABEL names a label,
\* every jump resolves to one of them and no instruction has more operands than
\* a record has fields.
LoweredIsEncodable == status = "done" => Encodable(code)

\* An instruction finds in its registers the kind of value it works on.
OperandsAreOfTheirKind == Stopped => machine.status # "faulted"

\* A program whose source comes to an end is compiled and comes to its end.
CompiledProgramsEnd ==
  <>(status = "threw" \/ insns = Unencodable \/ Stopped)
=============================================================================
