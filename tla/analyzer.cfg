SPECIFICATION PipelineSpec
CONSTANTS
    Nothing = Nothing
    Missing = Missing
    VariantIdBits = 2
    EnumIdBits = 3
    MaxDigits = 3
    Sources <- MCSources
    Stmts <- MCStmts
    Exprs <- MCExprs
    TypeExprs <- MCTypeExprs
    IsAssignable <- Assignable
    SameType <- Same
INVARIANTS
    AnalyzerTypeOK
    NamesAreLexical
    ErrorsAreReported
    AcceptedIsAnnotated
    PureStaysPure
    AcceptedIsWellTyped
    AcceptedMatchesCover
    
PROPERTY AnalysisEnds
CHECK_DEADLOCK FALSE
