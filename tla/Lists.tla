------------------------------- MODULE Lists --------------------------------
(* Sequences of anything.                                                     *)
EXTENDS Sequences, Functions

IsSeq(s) == s \in Seq(Range(s))
=============================================================================
