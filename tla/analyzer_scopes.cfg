SPECIFICATION PipelineSpec
CONSTANTS
    Nothing = Nothing
    Missing = Missing
    VariantIdBits = 2
    EnumIdBits = 3
    MaxDigits = 3
    Sources <- ScopingSources
    Stmts <- ScopingStmts
    Exprs <- ScopingExprs
    TypeExprs <- ScopingTypeExprs
    IsAssignable <- Assignable
    SameType <- Same
INVARIANT NamesAreLexical
CHECK_DEADLOCK FALSE
