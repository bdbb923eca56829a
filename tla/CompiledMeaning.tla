--------------------------- MODULE CompiledMeaning ---------------------------
(* The compiled program against the meaning of its source (SourceMeaning).     *)
EXTENDS Compile

CONSTANTS
  Meaningful,   \* the programs whose meaning SourceMeaning gives
  Fuel          \* how often a loop may run before it counts as endless

Source == INSTANCE SourceMeaning

\* The compiled program does what its source says: the same prints and calls in
\* the same order, the same way of ending (a return is a halt with the value in
\* register 0, a match without arm a trap), and the same value.
CompiledMeansSource ==
  Stopped /\ program \in Meaningful =>
    LET meaning == Source!Meaning(program)
    IN meaning.end # "endless" =>
         /\ machine.out = meaning.out
         /\ machine.status = CASE meaning.end \in {"return", "exit"} -> "halted"
                               [] meaning.end = "next" -> "ranOff"
                               [] meaning.end = "trap" -> "trapped"
                               [] meaning.end = "fault" -> "faulted"
         /\ meaning.end = "return" => machine.r[0] = meaning.value
=============================================================================
