------------------------------ MODULE MCCompile ------------------------------
(* The back end on the programs of MCPrograms, and on the few programs on which *)
(* it departs from its documents.                                               *)
EXTENDS CompiledMeaning

Suite == INSTANCE MCPrograms

AllPrograms == Suite!AllPrograms
MeaningPrograms == Suite!MeaningPrograms
ShadowingPrograms == Suite!ShadowingPrograms
WideningPrograms == Suite!WideningPrograms
SuiteStmts == Suite!SuiteStmts
SuiteExprs == Suite!SuiteExprs
=============================================================================
