SPECIFICATION CompileSpec
CONSTANTS
  Nil = Nil
  Missing = Missing
  Unencodable = Unencodable
  Undef = Undef
  Fuel = 8
  VariantIdBits = 2
  EnumIdBits = 2
  Stmts <- SuiteStmts
  Exprs <- SuiteExprs
  Programs <- WideningPrograms
  Meaningful <- WideningPrograms
INVARIANT OperandsAreOfTheirKind
CHECK_DEADLOCK FALSE
