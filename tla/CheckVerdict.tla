---------------------------- MODULE CheckVerdict ----------------------------
(***************************************************************************)
(* What `t81-lang check` promises about files that nobody edits meanwhile: *)
(* it ends, with exit code 0 when the files reachable from the entry form  *)
(* a well-formed program and with 1 when they do not.  No traversal, no    *)
(* order, no state map: the verdict is a function of the files.            *)
(***************************************************************************)
EXTENDS ImportGraph

CONSTANT None

VARIABLES disk, exit_code

Init == disk \in Disk /\ exit_code = None

Decide ==
  /\ exit_code = None
  /\ exit_code' = IF Accepts(disk) THEN 0 ELSE 1
  /\ UNCHANGED disk

Spec == Init /\ [][Decide]_<<disk, exit_code>> /\ WF_<<disk, exit_code>>(Decide)
=============================================================================
