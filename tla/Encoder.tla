------------------------------- MODULE Encoder -------------------------------
(* encode_program (t81_lang_main.cpp:351-450): the instructions of a program  *)
(* as tisc-json records of an opcode and three numbers.  The first pass gives  *)
(* every label the number of instructions in front of it, the second resolves *)
(* operands; a label without LABEL instruction makes the whole program fail.  *)
EXTENDS Naturals, Sequences, FiniteSets, SequencesExt

CONSTANT Unencodable    \* what encode_program returns when it gives up

IsLabel(insn) == insn.op = "LABEL"
RealInsns(code) == SelectSeq(code, LAMBDA insn : ~IsLabel(insn))

LabelDefs(code) == {i \in DOMAIN code : IsLabel(code[i])}
LabelOf(insn) == insn.args[1].v

\* What the first pass asks of a LABEL.
LabelIsWellFormed(insn) ==
  Len(insn.args) = 1 /\ insn.args[1].kind = "label"

\* Labels are numbered from 0 and so are instructions.  A label that is defined
\* twice keeps its last place.
LabelPc(code) ==
  [l \in {LabelOf(code[i]) : i \in LabelDefs(code)} |->
     LET places == {i \in LabelDefs(code) : LabelOf(code[i]) = l}
         last == CHOOSE i \in places : \A j \in places : j <= i
     IN Cardinality((1..last) \ LabelDefs(code))]

\* An operand the instruction does not have is 0.
Resolved(insn, i, pcOf) ==
  IF i > Len(insn.args) THEN 0
  ELSE IF insn.args[i].kind = "label" THEN pcOf[insn.args[i].v]
  ELSE insn.args[i].v

\* A fault for the runs to see: the third operand does not count.
ResolvableTwo(insn, pcOf) ==
  /\ Len(insn.args) < 3
  /\ \A i \in DOMAIN insn.args :
       insn.args[i].kind = "label" => insn.args[i].v \in DOMAIN pcOf

Resolvable(insn, pcOf) ==
  /\ Len(insn.args) <= 3
  /\ \A i \in DOMAIN insn.args :
       insn.args[i].kind = "label" => insn.args[i].v \in DOMAIN pcOf

\* map_opcode_name is one name per opcode; the IR's names stand for them.  A
\* conditional jump has its target first in the IR and second in the record.
\* Relation, primitive kind and literal text have no place in a record.
EncodeInsn(insn, pcOf) ==
  LET at(i) == Resolved(insn, i, pcOf)
      conditional == insn.op \in {"JZ", "JNZ"}
  IN IF conditional
     THEN [opcode |-> insn.op, a |-> at(2), b |-> at(1), c |-> 0]
     ELSE [opcode |-> insn.op, a |-> at(1), b |-> at(2), c |-> at(3)]

\* Neither pass gives up.
Encodable(code) ==
  /\ \A i \in LabelDefs(code) : LabelIsWellFormed(code[i])
  /\ LET pcOf == LabelPc(code)
     IN \A i \in DOMAIN code \ LabelDefs(code) : Resolvable(code[i], pcOf)

EncodeProgram(code) ==
  LET pcOf == LabelPc(code)
      insns == RealInsns(code)
  IN IF ~Encodable(code) THEN Unencodable
     ELSE IF insns = <<>> THEN <<[opcode |-> "HALT", a |-> 0, b |-> 0, c |-> 0]>>
     ELSE [i \in DOMAIN insns |-> EncodeInsn(insns[i], pcOf)]
=============================================================================
