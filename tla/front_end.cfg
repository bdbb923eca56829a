SPECIFICATION FrontEndSpec
CONSTANTS
    Letters <- MCLetters
    Digits <- MCDigits
    Texts <- MCTexts
    Capitals <- MCCapitals
    MaxParameters = 2
    MaxGeneric = 3
    MaxDigits = 2
INVARIANTS
    LexerTypeOK
    PositionsAreRight
    ParserTypeOK
    AcceptedIsWhatWasWritten
    OperatorsGroupByLevel
    ParsesAsMeant
PROPERTIES
    PeekedIsGiven
    LexerIsTokenStream
    ParsingEnds
CHECK_DEADLOCK FALSE
