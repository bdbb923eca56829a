SPECIFICATION CompileSpec
CONSTANTS
  Nil = Nil
  Missing = Missing
  Unencodable = Unencodable
  Undef = Undef
  Fuel = 8
  VariantIdBits = 2
  EnumIdBits = 2
  Stmts <- SuiteStmts
  Exprs <- SuiteExprs
  Programs <- AllPrograms
  Meaningful <- MeaningPrograms
INVARIANTS
  TypeOK
  LabelsAreUnique
  JumpsHaveTargets
  BreakLeavesInnermost
  EverythingIsPopped
  LoweredIsEncodable
  CompiledMeansSource
PROPERTY CompiledProgramsEnd
CHECK_DEADLOCK FALSE
