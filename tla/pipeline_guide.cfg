SPECIFICATION PipelineSpec
CONSTANTS
    Nothing = Nothing
    Missing = Missing
    VariantIdBits = 2
    EnumIdBits = 3
    MaxDigits = 3
    Sources <- GuideSources
    Stmts <- GuideStmts
    Exprs <- GuideExprs
    TypeExprs <- GuideTypeExprs
    IsAssignable <- Assignable
    SameType <- Same
INVARIANT LoweringIsTotal
CHECK_DEADLOCK FALSE
