SPECIFICATION PipelineSpec
CONSTANTS
    Nothing = Nothing
    Missing = Missing
    VariantIdBits = 2
    EnumIdBits = 3
    MaxDigits = 3
    Sources <- FractionSources
    Stmts <- FractionStmts
    Exprs <- FractionExprs
    TypeExprs <- FractionTypeExprs
    IsAssignable <- Assignable
    SameType <- Same
INVARIANT AcceptedIsWellTyped
CHECK_DEADLOCK FALSE
