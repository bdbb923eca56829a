------------------------------ MODULE FrontEnd ------------------------------
(* The lexer and the parser together: the parser asks for a token or for a    *)
(* look at the next one, and waits for it.                                    *)
EXTENDS Lexer, Parser

frontEndVars == <<lexerVars, parserVars>>

\* What the parser keeps of a token; where it stands only diagnostics say.
Lexeme(t) == [type |-> t.type, text |-> SubSeq(source, t.from + 1, t.to)]

Ask ==
    /\ wanted # "none"
    /\ IF wanted = "next" THEN NextToken ELSE PeekNextToken
    /\ UNCHANGED parserVars

Answer ==
    /\ Scan
    /\ IF asked' = "none"
       THEN Receive(Lexeme(IF asked = "peek" THEN ahead' ELSE given'[Len(given')]))
       ELSE UNCHANGED parserVars

Parse == asked = "none" /\ ParserStep /\ UNCHANGED lexerVars

FrontEndInit == LexerInit /\ ParserInit
FrontEndNext == Ask \/ Answer \/ Parse
FrontEndSpec == FrontEndInit /\ [][FrontEndNext]_frontEndVars /\ WF_frontEndVars(FrontEndNext)
=============================================================================
