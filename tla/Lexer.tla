------------------------------- MODULE Lexer --------------------------------
(* The lexer, one character at a time.  A caller asks for the next token, or  *)
(* for a look at it: looking runs the very same code and puts the cursor back. *)
EXTENDS Tokens, FiniteSets

VARIABLES
    source,       \* _source: the text
    current,      \* _current: how many of its characters are behind the cursor
    line_start,   \* _line_start: how many are before the current line
    token_start,  \* _token_start: how many are before the token being scanned
    line,         \* _line: the number of the current line
    phase,        \* the loop or the function the cursor is in
    asked,        \* the call in progress: "none", "next" or "peek"
    saved,        \* what peek_next_token put aside
    given,        \* the tokens next_token has returned
    ahead         \* the token the last look has returned since, or NoToken

cursor == <<current, line_start, token_start, line>>
lexerVars == <<source, current, line_start, token_start, line, phase, asked,
               saved, given, ahead>>

NoToken == [type |-> "None"]
Alnum == Letters \cup Digits

\* The character under the cursor, and the one after it.
Peek == IF current < Len(source) THEN source[current + 1] ELSE End
PeekNext == IF current + 1 < Len(source) THEN source[current + 2] ELSE End
AtEnd == current = Len(source)

LexerInit ==
    /\ source \in Texts
    /\ current = 0 /\ line_start = 0 /\ token_start = 0 /\ line = 1
    /\ phase = "idle" /\ asked = "none"
    /\ saved = <<0, 0, 0, 1>>
    /\ given = <<>> /\ ahead = NoToken

-----------------------------------------------------------------------------
(* Calls.                                                                     *)

NextToken ==
    /\ asked = "none"
    /\ asked' = "next" /\ phase' = "skip"
    /\ UNCHANGED <<source, cursor, saved, given, ahead>>

PeekNextToken ==
    /\ asked = "none"
    /\ asked' = "peek" /\ phase' = "skip"
    /\ saved' = <<current, line_start, token_start, line>>
    /\ UNCHANGED <<source, cursor, given, ahead>>

\* Faults for the runs to see: the look does not put back the line, or the
\* start of the token.
RestoreWithoutLine ==
    /\ current' = saved[1] /\ line_start' = saved[2]
    /\ token_start' = saved[3] /\ line' = line
RestoreWithoutToken ==
    /\ current' = saved[1] /\ line_start' = saved[2]
    /\ token_start' = token_start /\ line' = saved[4]
Restore ==
    /\ current' = saved[1] /\ line_start' = saved[2]
    /\ token_start' = saved[3] /\ line' = saved[4]

\* make_token and error_token: the lexeme runs from _token_start to the
\* cursor; the line is the one the cursor is on, and the column counts from
\* the start of that line.  (The message an error token carries in the place of
\* its lexeme is left out.)
TokenTo(type, to) ==
    [type |-> type, from |-> token_start, to |-> to,
     line |-> line, column |-> token_start - line_start + 1]

\* The scanned token is returned with the cursor at position to; to a look it
\* is returned with the cursor where it was.
Return(type, to) ==
    /\ IF asked = "peek"
       THEN Restore /\ ahead' = TokenTo(type, to) /\ UNCHANGED given
       ELSE /\ current' = to /\ UNCHANGED <<line_start, token_start, line>>
            /\ given' = Append(given, TokenTo(type, to)) /\ ahead' = NoToken
    /\ asked' = "none" /\ phase' = "idle"
    /\ UNCHANGED <<source, saved>>

-----------------------------------------------------------------------------
(* Steps of the cursor within a call.                                         *)

\* The cursor moves over n characters of which none ends a line.
Over(n, next) ==
    /\ current' = current + n /\ phase' = next
    /\ UNCHANGED <<line_start, token_start, line>>
    /\ UNCHANGED <<source, asked, saved, given, ahead>>

\* A fault for the runs to see: the start of the line is left where it was.
OverNewlineOnly ==
    /\ current' = current + 1 /\ line' = line + 1
    /\ UNCHANGED <<line_start, token_start, phase>>
    /\ UNCHANGED <<source, asked, saved, given, ahead>>
\* The cursor moves over a line end.
OverNewline ==
    /\ current' = current + 1 /\ line_start' = current + 1 /\ line' = line + 1
    /\ UNCHANGED <<token_start, phase>>
    /\ UNCHANGED <<source, asked, saved, given, ahead>>

SkipBlank == phase = "skip" /\ Peek \in Blanks /\ Over(1, "skip")

SkipNewline == phase = "skip" /\ Peek = Newline /\ OverNewline

OpensComment == Peek = "/" /\ PeekNext \in {"/", "*"}

SkipLineComment ==
    \/ phase = "skip" /\ Peek = "/" /\ PeekNext = "/" /\ Over(2, "line comment")
    \/ /\ phase = "line comment"
       /\ IF AtEnd \/ Peek = Newline THEN Over(0, "skip") ELSE Over(1, "line comment")

ClosesComment == Peek = "*" /\ PeekNext = "/"

SkipBlockComment ==
    \/ phase = "skip" /\ Peek = "/" /\ PeekNext = "*" /\ Over(2, "block comment")
    \/ /\ phase = "block comment"
       /\ CASE ClosesComment -> Over(2, "skip")
            [] AtEnd -> Over(0, "skip")
            [] Peek = Newline -> OverNewline
            [] OTHER -> Over(1, "block comment")

\* A fault for the runs to see: a word ends at every dot.
JoinsOnLetters == Peek \in Alnum
\* identifier: a dot belongs to the word when a letter or a digit follows it.
Joins ==
    \/ Peek \in Alnum
    \/ Peek = "." /\ PeekNext \in Alnum

\* next_token after the trivia: the first character says what is scanned.
StartToken ==
    /\ phase = "skip"
    /\ Peek \notin Blanks \cup {Newline} /\ ~OpensComment
    /\ token_start' = current
    /\ phase' = CASE Peek \in Letters -> "identifier"
                  [] Peek \in Digits -> "number"
                  [] Peek = Quote -> "string"
                  [] OTHER -> "symbol"
    /\ current' = IF phase' = "symbol" THEN current ELSE current + 1
    /\ UNCHANGED <<source, line_start, line, asked, saved, given, ahead>>

Symbol ==
    /\ phase = "symbol"
    /\ IF AtEnd THEN Return("Eof", current)
       ELSE IF <<Peek, PeekNext>> \in DOMAIN Double
       THEN Return(Double[<<Peek, PeekNext>>], current + 2)
       ELSE Return(IF Peek \in DOMAIN Single THEN Single[Peek] ELSE "Illegal", current + 1)

Identifier ==
    /\ phase = "identifier"
    /\ IF Joins
       THEN Over(1, "identifier")
       ELSE LET word == source[token_start + 1]
            IN Return(IF current = token_start + 1 /\ word \in DOMAIN Keywords
                      THEN Keywords[word] ELSE "Identifier", current)

\* number: a fraction needs a digit after the dot; t81 follows an integer only.
Number ==
    \/ /\ phase = "number"
       /\ IF Peek \in Digits THEN Over(1, "number")
          ELSE IF Peek = "." /\ PeekNext \in Digits THEN Over(1, "fraction")
          ELSE IF /\ current + 2 < Len(source)
                  /\ SubSeq(source, current + 1, current + 3) = <<"t", "8", "1">>
          THEN Return("Base81Integer", current + 3)
          ELSE Return("Integer", current)
    \/ /\ phase = "fraction"
       /\ IF Peek \in Digits THEN Over(1, "fraction") ELSE Return("Float", current)

\* string: it may span lines, and the cursor's line moves with it.
String ==
    /\ phase = "string"
    /\ IF AtEnd THEN Return("Illegal", current)
       ELSE IF Peek = Quote THEN Return("String", current + 1)
       ELSE IF Peek = Newline THEN OverNewline ELSE Over(1, "string")

Scan ==
    /\ asked # "none"
    /\ \/ SkipBlank \/ SkipNewline \/ SkipLineComment \/ SkipBlockComment
       \/ StartToken \/ Symbol \/ Identifier \/ Number \/ String

\* A caller that asks as it likes, once it has not yet seen the end.
LexerNext ==
    \/ (given # <<>> => given[Len(given)].type # "Eof") /\ NextToken
    \/ PeekNextToken
    \/ Scan

LexerSpec == LexerInit /\ [][LexerNext]_lexerVars

-----------------------------------------------------------------------------
(* Properties.                                                                *)

TokenType ==
    [type : TokenTypes, from : 0..Len(source), to : 0..Len(source),
     line : Nat \ {0}, column : Int]

\* The type invariant of the lexer: the cursor stays in the text, its marks
\* stay behind it, and a look keeps the mark of where it began.
LexerTypeOK ==
    /\ source \in Texts
    /\ current \in 0..Len(source)
    /\ line_start \in 0..current /\ token_start \in 0..current
    /\ line \in Nat \ {0}
    /\ phase \in {"idle", "skip", "line comment", "block comment", "symbol",
                  "identifier", "number", "fraction", "string"}
    /\ asked \in {"none", "next", "peek"} /\ (asked = "none" <=> phase = "idle")
    /\ saved \in (0..Len(source)) \X (0..Len(source)) \X (0..Len(source)) \X (Nat \ {0})
    /\ given \in Seq(TokenType)
    /\ ahead \in TokenType \cup {NoToken}

Newlines(from, to) == {i \in (from + 1)..to : source[i] = Newline}

\* Where the line of a position starts: no line end between, and one before.
StartsLine(start, position) ==
    /\ start \in 0..position
    /\ Newlines(start, position) = {}
    /\ start = 0 \/ source[start] = Newline

\* The line and the column of a token are those of its first character, for
\* every token that lies on one line (lexer.hpp: "the line number where the
\* token appears", "the column number where the token begins"): through line
\* ends in blanks, comments and strings, and after any number of looks ahead.
PositionIsRight(token) ==
    Newlines(token.from, token.to) = {} =>
        /\ token.line = 1 + Cardinality(Newlines(0, token.from))
        /\ StartsLine(token.from + 1 - token.column, token.from)

PositionsAreRight ==
    /\ given # <<>> => PositionIsRight(given[Len(given)])
    /\ ahead # NoToken => PositionIsRight(ahead)

\* A token a look has returned is the one the next look and the next call
\* return, to the line and the column: the parser decides on the one and
\* consumes the other.
PeekedIsGiven ==
    [][ahead # NoToken /\ asked' = "none" =>
          \/ ahead' = ahead
          \/ ahead' = NoToken /\ given' = Append(given, ahead)]_<<given, ahead>>
=============================================================================
