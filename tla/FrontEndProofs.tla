--------------------------- MODULE FrontEndProofs ---------------------------
(* The lexer and the parser, for every text.  First the lexer by itself: the  *)
(* cursor stays in the text, every token that lies on one line carries the    *)
(* line and the column of its first character, and a token looked at is the   *)
(* one given next.  Then the parser: whatever rules a text takes it through,  *)
(* through errors and their handlers, every function finds the values it      *)
(* takes and leaves one, so that the parser ends with the list of             *)
(* declarations alone.  Last the two together: the parser is one of the       *)
(* callers the lexer allows, and holds the token it was given last.           *)
EXTENDS FrontEnd, SequenceLemmas, FiniteSetTheorems

-----------------------------------------------------------------------------
(* The lexer.  The invariant says what the two marks of the cursor mean while *)
(* it moves, and that what a look has put aside means the same.               *)

\* The mark of the line is where the line of the position starts, and the
\* count is one more than the line ends before it.
Located(start, number, position) ==
    /\ StartsLine(start, position)
    /\ number = 1 + Cardinality(Newlines(0, position))

Marks == Located(line_start, line, current)
SavedMarks ==
    asked = "peek" =>
        /\ Located(saved[2], saved[4], saved[1])
        /\ saved[3] \in 0..saved[1]
\* What is not a word, a number or a string starts with no line end.
SymbolStarts == phase = "symbol" => current = token_start /\ Peek # Newline

LexerInv ==
    LexerTypeOK /\ Marks /\ SavedMarks /\ SymbolStarts /\ PositionsAreRight

-----------------------------------------------------------------------------
(* Line ends in a stretch of the text.                                        *)

\* The text that is read is a sequence of characters without the end mark.
LEMMA SourceIsText == ASSUME TextsAssumption, source \in Texts
                      PROVE  /\ source \in Seq(STRING)
                             /\ Len(source) \in Nat
                             /\ \A i \in 1..Len(source) : source[i] # End
BY DEF TextsAssumption

\* The line ends of a stretch are those of its two parts.
LEMMA NewlinesSplit ==
    ASSUME NEW a \in Nat, NEW b \in Nat, NEW c \in Nat, a <= b, b <= c
    PROVE  Newlines(a, c) = Newlines(a, b) \cup Newlines(b, c)
BY DEF Newlines

\* The line ends before a place are finitely many.
LEMMA NewlinesFinite ==
    ASSUME NEW p \in Nat
    PROVE  IsFiniteSet(Newlines(0, p)) /\ Cardinality(Newlines(0, p)) \in Nat
<1>1. IsFiniteSet(1..p)
  BY FS_Interval
<1>2. Newlines(0, p) \subseteq 1..p
  BY DEF Newlines
<1>3. QED
  BY <1>1, <1>2, FS_Subset, FS_CardinalityType

\* Over a stretch without a line end a position keeps its line.
LEMMA LocatedFurther ==
    ASSUME NEW start, NEW number, NEW p \in Nat, NEW q \in Nat, p <= q,
           Located(start, number, p), Newlines(p, q) = {}
    PROVE  Located(start, number, q)
<1>1. start \in 0..p /\ start \in Nat
  BY DEF Located, StartsLine
<1>2. Newlines(start, q) = Newlines(start, p) /\ Newlines(0, q) = Newlines(0, p)
  BY <1>1, NewlinesSplit
<1>3. QED
  BY <1>1, <1>2 DEF Located, StartsLine

\* Behind a line end starts the next line.
LEMMA LocatedBehindNewline ==
    ASSUME NEW start, NEW number \in Nat, NEW p \in Nat,
           Located(start, number, p), source[p + 1] = Newline
    PROVE  Located(p + 1, number + 1, p + 1)
<1>1. Newlines(p, p + 1) = {p + 1}
  BY DEF Newlines
<1>2. Newlines(0, p + 1) = Newlines(0, p) \cup {p + 1}
  BY <1>1, NewlinesSplit
<1>3. p + 1 \notin Newlines(0, p)
  BY DEF Newlines
<1>4. Cardinality(Newlines(0, p + 1)) = Cardinality(Newlines(0, p)) + 1
  BY <1>2, <1>3, NewlinesFinite, FS_AddElement
<1>5. Newlines(p + 1, p + 1) = {}
  BY DEF Newlines
<1>6. QED
  BY <1>4, <1>5, NewlinesFinite DEF Located, StartsLine

\* A position before p, with no line end in between, is on the line of p.
LEMMA LocatedBefore ==
    ASSUME NEW start, NEW number, NEW o \in Nat, NEW p \in Nat, o <= p,
           Located(start, number, p), Newlines(o, p) = {}
    PROVE  Located(start, number, o)
<1>1. start \in 0..p /\ start \in Nat /\ (start = 0 \/ source[start] = Newline)
  BY DEF Located, StartsLine
<1>2. start <= o
  <2>1. SUFFICES ASSUME start > o PROVE FALSE
    BY <1>1
  <2>2. start \in Newlines(o, p)
    BY <1>1, <2>1 DEF Newlines
  <2>3. QED
    BY <2>2
<1>3. Newlines(0, p) = Newlines(0, o)
  BY NewlinesSplit
<1>4. Newlines(start, o) \subseteq Newlines(start, p)
  BY <1>1 DEF Newlines
<1>5. QED
  BY <1>1, <1>2, <1>3, <1>4 DEF Located, StartsLine

\* One character, or two, that are no line ends.
LEMMA NoNewline ==
    ASSUME NEW p \in Nat
    PROVE  /\ Newlines(p, p) = {}
           /\ source[p + 1] # Newline => Newlines(p, p + 1) = {}
           /\ source[p + 1] # Newline /\ source[p + 2] # Newline => Newlines(p, p + 2) = {}
BY DEF Newlines

\* No token of two characters has a line end in it.
LEMMA DoubleIsVisible ==
    \A c, d : <<c, d>> \in DOMAIN Double => c \notin {Newline, End} /\ d \notin {Newline, End}
<1>1. DOMAIN Double = Pairs
  BY DEF Double
<1>2. \A c, d : <<c, d>> \in Pairs => c \notin {Newline, End} /\ d \notin {Newline, End}
  BY DEF Pairs, Newline, End
<1>3. QED
  BY <1>1, <1>2

-----------------------------------------------------------------------------
(* One lemma for each way the cursor moves.                                   *)

\* The ranges of the cursor's fields, as the invariant states them.
LEMMA InvFacts ==
    ASSUME TextsAssumption, LexerInv
    PROVE  /\ source \in Seq(STRING) /\ Len(source) \in Nat
           /\ current \in Nat /\ current <= Len(source)
           /\ line_start \in Nat /\ line_start <= current
           /\ token_start \in Nat /\ token_start <= current
           /\ line \in Nat \ {0}
<1>1. source \in Texts /\ current \in 0..Len(source) /\ line_start \in 0..current
      /\ token_start \in 0..current /\ line \in Nat \ {0}
  BY DEF LexerInv, LexerTypeOK
<1>2. source \in Seq(STRING) /\ Len(source) \in Nat
  BY <1>1, SourceIsText
<1>3. QED
  BY <1>1, <1>2

\* A token that ends where no line end follows the cursor is placed rightly.
LEMMA TokenIsPlaced ==
    ASSUME TextsAssumption, LexerInv,
           NEW type \in TokenTypes, NEW to \in current..Len(source)
    PROVE  TokenTo(type, to) \in TokenType /\ PositionIsRight(TokenTo(type, to))
<1> DEFINE scanned == TokenTo(type, to)
<1>1. scanned.from = token_start /\ scanned.to = to /\ scanned.line = line
      /\ scanned.column = token_start - line_start + 1 /\ scanned.type = type
  BY DEF TokenTo
<1>2. scanned \in TokenType
  BY InvFacts DEF TokenTo, TokenType
<1>3. ASSUME Newlines(token_start, to) = {}
      PROVE  Located(line_start, line, token_start)
  <2>1. Newlines(token_start, current) = {}
    BY <1>3, InvFacts, NewlinesSplit
  <2>2. QED
    BY <2>1, InvFacts, LocatedBefore DEF LexerInv, Marks
<1>4. token_start + 1 - (token_start - line_start + 1) = line_start
  BY InvFacts
<1>5. PositionIsRight(scanned)
  <2>1. SUFFICES ASSUME Newlines(token_start, to) = {}
                 PROVE  /\ line = 1 + Cardinality(Newlines(0, token_start))
                        /\ StartsLine(line_start, token_start)
    BY <1>1, <1>4 DEF PositionIsRight
  <2>2. QED
    BY <1>3, <2>1 DEF Located
<1>6. QED
  BY <1>2, <1>5

\* A step that returns nothing leaves what was returned in its place.
LEMMA TokensKeep ==
    ASSUME LexerInv, UNCHANGED <<source, given, ahead>>
    PROVE  /\ PositionsAreRight'
           /\ given' \in Seq(TokenType') /\ ahead' \in TokenType' \cup {NoToken}
<1>1. TokenType' = TokenType
  BY DEF TokenType
<1>2. PositionsAreRight'
  BY DEF LexerInv, PositionsAreRight, PositionIsRight, StartsLine, Newlines
<1>3. QED
  BY <1>1, <1>2 DEF LexerInv, LexerTypeOK

\* What a look has put aside stays put.
LEMMA SavedKeep ==
    ASSUME LexerInv, UNCHANGED <<source, asked, saved>>
    PROVE  SavedMarks'
<1>1. ASSUME asked = "peek"
      PROVE  /\ StartsLine(saved[2], saved[1])' /\ saved[3] \in 0..saved[1]
             /\ saved[4] = 1 + Cardinality(Newlines(0, saved[1])')
  BY <1>1 DEF LexerInv, SavedMarks, Located, StartsLine, Newlines
<1>2. QED
  BY <1>1 DEF SavedMarks, Located

\* The phases in which the cursor moves over a text of any length.
InText == {"skip", "line comment", "block comment",
           "identifier", "number", "fraction", "string"}

\* The cursor moves over characters that end no line.
LEMMA OverKeeps ==
    ASSUME TextsAssumption, LexerInv, asked # "none",
           NEW n \in Nat, NEW next \in InText,
           current + n <= Len(source), Newlines(current, current + n) = {},
           current' = current + n, phase' = next,
           UNCHANGED <<line_start, token_start, line>>,
           UNCHANGED <<source, asked, saved, given, ahead>>
    PROVE  LexerInv'
<1>1. LexerTypeOK'
  <2>1. source' \in Texts /\ Len(source') = Len(source)
    BY DEF LexerInv, LexerTypeOK
  <2>2. current' \in 0..Len(source') /\ line_start' \in 0..current'
        /\ token_start' \in 0..current' /\ line' \in Nat \ {0}
    BY <2>1, InvFacts
  <2>3. given' \in Seq(TokenType') /\ ahead' \in TokenType' \cup {NoToken}
    BY TokensKeep
  <2>4. QED
    BY <2>1, <2>2, <2>3 DEF LexerInv, LexerTypeOK, InText
<1>2. Marks'
  <2>1. Located(line_start, line, current + n)
    <3>1. current \in Nat /\ current + n \in Nat /\ current <= current + n
      BY InvFacts
    <3>2. Located(line_start, line, current)
      BY DEF LexerInv, Marks
    <3>3. QED
      BY <3>1, <3>2, LocatedFurther
  <2>2. QED
    BY <2>1 DEF Marks, Located, StartsLine, Newlines
<1>3. SavedMarks' /\ PositionsAreRight'
  BY SavedKeep, TokensKeep
<1>4. SymbolStarts'
  BY DEF SymbolStarts, InText
<1>5. QED
  BY <1>1, <1>2, <1>3, <1>4 DEF LexerInv

\* The cursor moves over a line end.
LEMMA OverNewlineKeeps ==
    ASSUME TextsAssumption, LexerInv, asked # "none", phase # "symbol",
           current < Len(source), source[current + 1] = Newline, OverNewline
    PROVE  LexerInv'
<1>1. LexerTypeOK'
  <2>1. source' \in Texts /\ Len(source') = Len(source)
    BY DEF LexerInv, LexerTypeOK, OverNewline
  <2>2. current' \in 0..Len(source') /\ line_start' \in 0..current'
        /\ token_start' \in 0..current' /\ line' \in Nat \ {0}
    BY <2>1, InvFacts DEF OverNewline
  <2>3. given' \in Seq(TokenType') /\ ahead' \in TokenType' \cup {NoToken}
    BY TokensKeep DEF OverNewline
  <2>4. QED
    BY <2>1, <2>2, <2>3 DEF LexerInv, LexerTypeOK, OverNewline
<1>2. Marks'
  <2>1. Located(current + 1, line + 1, current + 1)
    BY InvFacts, LocatedBehindNewline DEF LexerInv, Marks
  <2>2. QED
    BY <2>1 DEF Marks, Located, StartsLine, Newlines, OverNewline
<1>3. SavedMarks' /\ PositionsAreRight'
  BY SavedKeep, TokensKeep DEF OverNewline
<1>4. SymbolStarts'
  BY DEF SymbolStarts, OverNewline
<1>5. QED
  BY <1>1, <1>2, <1>3, <1>4 DEF LexerInv

\* The scanned token is returned.
LEMMA ReturnKeeps ==
    ASSUME TextsAssumption, LexerInv, asked # "none",
           NEW type \in TokenTypes, NEW to \in current..Len(source),
           Newlines(current, to) = {}, Return(type, to)
    PROVE  LexerInv'
<1> DEFINE scanned == TokenTo(type, to)
<1>1. scanned \in TokenType /\ PositionIsRight(scanned)
  BY TokenIsPlaced
<1>2. source' = source /\ TokenType' = TokenType
  BY DEF Return, TokenType
<1> HIDE DEF scanned
<1>3. Marks' /\ SavedMarks' /\ current' \in 0..Len(source) /\ line_start' \in 0..current'
      /\ token_start' \in 0..current' /\ line' \in Nat \ {0}
  <2>1. CASE asked = "peek"
    <3>1. current' = saved[1] /\ line_start' = saved[2] /\ token_start' = saved[3]
          /\ line' = saved[4] /\ asked' = "none"
      BY <2>1 DEF Return, Restore
    <3>2. Located(saved[2], saved[4], saved[1]) /\ saved[3] \in 0..saved[1]
          /\ saved[1] \in 0..Len(source) /\ saved[4] \in Nat \ {0}
      BY <2>1 DEF LexerInv, SavedMarks, LexerTypeOK
    <3>3. saved[2] \in 0..saved[1]
      BY <3>2 DEF Located, StartsLine
    <3>4. Marks'
      BY <1>2, <3>1, <3>2 DEF Marks, Located, StartsLine, Newlines
    <3>5. QED
      BY <3>1, <3>2, <3>3, <3>4 DEF SavedMarks
  <2>2. CASE asked # "peek"
    <3>1. current' = to /\ line_start' = line_start /\ token_start' = token_start
          /\ line' = line /\ asked' = "none"
      BY <2>2 DEF Return
    <3>2. Located(line_start, line, to)
      <4>1. current \in Nat /\ to \in Nat /\ current <= to
        BY InvFacts
      <4>2. Located(line_start, line, current)
        BY DEF LexerInv, Marks
      <4>3. QED
        BY <4>1, <4>2, LocatedFurther
    <3>3. Marks'
      BY <1>2, <3>1, <3>2 DEF Marks, Located, StartsLine, Newlines
    <3>4. QED
      BY <3>1, <3>3, InvFacts DEF SavedMarks
  <2>3. QED
    BY <2>1, <2>2
<1>4. /\ given' \in Seq(TokenType) /\ ahead' \in TokenType \cup {NoToken}
      /\ PositionsAreRight'
  <2>1. given \in Seq(TokenType) /\ ahead \in TokenType \cup {NoToken}
    BY DEF LexerInv, LexerTypeOK
  <2>2. CASE asked = "peek"
    <3>1. given' = given /\ ahead' = scanned
      BY <2>2 DEF Return, scanned
    <3>2. given # <<>> => PositionIsRight(given[Len(given)])
      BY DEF LexerInv, PositionsAreRight
    <3>3. PositionsAreRight'
      BY <1>1, <1>2, <3>1, <3>2
         DEF PositionsAreRight, PositionIsRight, StartsLine, Newlines
    <3>4. QED
      BY <1>1, <2>1, <3>1, <3>3
  <2>3. CASE asked # "peek"
    <3>1. given' = Append(given, scanned) /\ ahead' = NoToken
      BY <2>3 DEF Return, scanned
    <3>2. given' \in Seq(TokenType) /\ given'[Len(given')] = scanned
      BY <1>1, <2>1, <3>1
    <3>3. PositionsAreRight'
      BY <1>1, <1>2, <3>1, <3>2
         DEF PositionsAreRight, PositionIsRight, StartsLine, Newlines
    <3>4. QED
      BY <3>1, <3>2, <3>3
  <2>4. QED
    BY <2>2, <2>3
<1>5. phase' = "idle" /\ asked' = "none" /\ saved' = saved
  BY DEF Return
<1>6. LexerTypeOK'
  BY <1>2, <1>3, <1>4, <1>5 DEF LexerInv, LexerTypeOK
<1>7. SymbolStarts'
  BY <1>5 DEF SymbolStarts
<1>8. QED
  BY <1>3, <1>4, <1>6, <1>7 DEF LexerInv

-----------------------------------------------------------------------------
(* One lemma for each step of the lexer.                                      *)

\* What the two characters at the cursor say about the text.
LEMMA PeekFacts ==
    ASSUME TextsAssumption, LexerInv
    PROVE  /\ Peek # End => current + 1 <= Len(source) /\ Peek = source[current + 1]
           /\ PeekNext # End =>
                /\ current + 2 <= Len(source) /\ PeekNext = source[current + 2]
                /\ Peek = source[current + 1]
           /\ ~AtEnd => current + 1 <= Len(source) /\ Peek = source[current + 1]
           /\ \A i \in 1..Len(source) : source[i] # End
<1>1. source \in Texts
  BY DEF LexerInv, LexerTypeOK
<1>2. QED
  BY <1>1, SourceIsText, InvFacts DEF Peek, PeekNext, AtEnd

\* A letter, a digit or a quote neither ends a line nor the text.
LEMMA WordsAreVisible ==
    ASSUME TextsAssumption
    PROVE  \A c \in Alnum \cup {Quote} : c # Newline /\ c # End
BY DEF TextsAssumption, Alnum, Quote, Newline, End

\* The types a token is returned with.
LEMMA TypesAreTokens ==
    /\ \A t \in {"Identifier", "Integer", "Float", "Base81Integer", "String", "Eof",
                "Illegal"} : t \in TokenTypes
    /\ \A w \in DOMAIN Keywords : Keywords[w] \in TokenTypes
    /\ \A c \in DOMAIN Single : Single[c] \in TokenTypes
    /\ \A p \in DOMAIN Double : Double[p] \in TokenTypes
<1>1. \A t \in {"Identifier", "Integer", "Float", "Base81Integer", "String", "Eof",
                "Illegal"} : t \in TokenTypes
  BY DEF TokenTypes
<1>2. \A w \in DOMAIN Keywords : Keywords[w] \in TokenTypes
  BY DEF TokenTypes
<1>3. \A c \in DOMAIN Single : Single[c] \in TokenTypes
  BY DEF TokenTypes
<1>4. \A p \in DOMAIN Double : Double[p] \in TokenTypes
  BY DEF TokenTypes
<1>5. QED
  BY <1>1, <1>2, <1>3, <1>4

\* The invariant holds at the start,
LEMMA LexerInitInv == TextsAssumption /\ LexerInit => LexerInv
<1> SUFFICES ASSUME TextsAssumption, LexerInit PROVE LexerInv
  OBVIOUS
<1>1. source \in Texts /\ source \in Seq(STRING) /\ Len(source) \in Nat
  BY SourceIsText DEF LexerInit
<1>2. LexerTypeOK
  BY <1>1 DEF LexerInit, LexerTypeOK
<1>3. Marks
  <2>1. Newlines(0, 0) = {}
    BY DEF Newlines
  <2>2. QED
    BY <2>1, FS_EmptySet DEF Marks, Located, StartsLine, LexerInit
<1>4. SavedMarks /\ SymbolStarts /\ PositionsAreRight
  BY DEF LexerInit, SavedMarks, SymbolStarts, PositionsAreRight
<1>5. QED
  BY <1>2, <1>3, <1>4 DEF LexerInv

\* a call of the parser keeps it,
LEMMA CallKeeps ==
    ASSUME TextsAssumption, LexerInv, NextToken \/ PeekNextToken
    PROVE  LexerInv'
<1>1. UNCHANGED <<source, current, line_start, token_start, line, given, ahead>>
      /\ phase' = "skip" /\ asked' \in {"next", "peek"}
  BY DEF NextToken, PeekNextToken, cursor
<1>2. PositionsAreRight' /\ given' \in Seq(TokenType')
      /\ ahead' \in TokenType' \cup {NoToken}
  BY <1>1, TokensKeep
<1>3. saved' \in (0..Len(source)) \X (0..Len(source)) \X (0..Len(source)) \X (Nat \ {0})
  <2>1. CASE NextToken
    BY <2>1 DEF LexerInv, LexerTypeOK, NextToken
  <2>2. CASE PeekNextToken
    <3>1. saved' = <<current, line_start, token_start, line>>
      BY <2>2 DEF PeekNextToken
    <3>2. current \in 0..Len(source) /\ line_start \in 0..Len(source)
          /\ token_start \in 0..Len(source) /\ line \in Nat \ {0}
      BY InvFacts
    <3>3. QED
      BY <3>1, <3>2
  <2>3. QED
    BY <2>1, <2>2
<1>4. LexerTypeOK'
  BY <1>1, <1>2, <1>3 DEF LexerInv, LexerTypeOK
<1>5. Marks'
  BY <1>1 DEF LexerInv, Marks, Located, StartsLine, Newlines
<1>6. SavedMarks'
  <2>1. CASE PeekNextToken
    <3>1. saved'[1] = current /\ saved'[2] = line_start /\ saved'[3] = token_start
          /\ saved'[4] = line
      BY <2>1 DEF PeekNextToken
    <3>2. Located(line_start, line, current) /\ token_start \in 0..current
      BY DEF LexerInv, Marks, LexerTypeOK
    <3>3. QED
      BY <1>1, <3>1, <3>2 DEF SavedMarks, Located, StartsLine, Newlines
  <2>2. CASE NextToken
    BY <2>2 DEF NextToken, SavedMarks
  <2>3. QED
    BY <2>1, <2>2
<1>7. SymbolStarts'
  BY <1>1 DEF SymbolStarts
<1>8. QED
  BY <1>2, <1>4, <1>5, <1>6, <1>7 DEF LexerInv

\* The cursor moves over one character, over two, or stays.
LEMMA OverVisible ==
    ASSUME TextsAssumption, LexerInv, asked # "none", NEW next \in InText
    PROVE  /\ Over(0, next) => LexerInv'
           /\ Over(1, next) /\ Peek \notin {End, Newline} => LexerInv'
           /\ Over(1, next) /\ ~AtEnd /\ Peek # Newline => LexerInv'
           /\ Over(2, next) /\ Peek \notin {End, Newline} /\ PeekNext \notin {End, Newline}
                => LexerInv'
<1>1. current \in Nat /\ Len(source) \in Nat /\ current <= Len(source)
  BY InvFacts
<1>2. ASSUME Over(0, next) PROVE LexerInv'
  <2>1. current + 0 = current /\ current + 0 <= Len(source)
    BY <1>1
  <2>2. Newlines(current, current + 0) = {}
    BY <1>1, <2>1, NoNewline
  <2>3. QED
    BY <1>2, <2>1, <2>2, OverKeeps, 0 \in Nat DEF Over
<1>3. ASSUME Over(1, next), current + 1 <= Len(source), source[current + 1] # Newline
      PROVE  LexerInv'
  <2>1. Newlines(current, current + 1) = {}
    BY <1>1, <1>3, NoNewline
  <2>2. QED
    BY <1>3, <2>1, OverKeeps, 1 \in Nat DEF Over
<1>4. ASSUME Over(2, next), Peek \notin {End, Newline}, PeekNext \notin {End, Newline}
      PROVE  LexerInv'
  <2>1. current + 2 <= Len(source) /\ source[current + 1] # Newline
        /\ source[current + 2] # Newline
    BY <1>4, PeekFacts
  <2>2. Newlines(current, current + 2) = {}
    BY <1>1, <2>1, NoNewline
  <2>3. QED
    BY <1>4, <2>1, <2>2, OverKeeps, 2 \in Nat DEF Over
<1>5. QED
  BY <1>2, <1>3, <1>4, PeekFacts

\* as do the first character of a token,
LEMMA StartTokenKeeps ==
    ASSUME TextsAssumption, LexerInv, asked # "none", StartToken
    PROVE  LexerInv'
<1>1. UNCHANGED <<source, line_start, line, asked, saved, given, ahead>>
      /\ token_start' = current
  BY DEF StartToken
<1>2. \/ phase' = "symbol" /\ current' = current /\ Peek # Newline
      \/ /\ phase' \in {"identifier", "number", "string"}
         /\ current' = current + 1 /\ Peek \in Alnum \cup {Quote}
  BY DEF StartToken, Alnum
<1>3. PositionsAreRight' /\ given' \in Seq(TokenType')
      /\ ahead' \in TokenType' \cup {NoToken}
  BY <1>1, TokensKeep
<1>4. CASE phase' = "symbol"
  <2>1. current' = current /\ Peek # Newline
    BY <1>2, <1>4
  <2>2. current' \in 0..Len(source') /\ line_start' \in 0..current'
        /\ token_start' \in 0..current' /\ line' \in Nat \ {0}
    BY <1>1, <2>1, InvFacts
  <2>3. LexerTypeOK'
    BY <1>1, <1>3, <1>4, <2>2 DEF LexerInv, LexerTypeOK
  <2>4. Marks'
    BY <1>1, <2>1 DEF LexerInv, Marks, Located, StartsLine, Newlines
  <2>5. SymbolStarts'
    BY <1>1, <2>1 DEF SymbolStarts, Peek, Newline
  <2>6. QED
    BY <1>1, <1>3, <2>3, <2>4, <2>5, SavedKeep DEF LexerInv
<1>5. CASE phase' # "symbol"
  <2>1. current' = current + 1 /\ Peek \notin {Newline, End}
        /\ phase' \in {"identifier", "number", "string"}
    BY <1>2, <1>5, WordsAreVisible
  <2>2. current + 1 <= Len(source) /\ source[current + 1] # Newline
    BY <2>1, PeekFacts
  <2>3. current' \in 0..Len(source') /\ line_start' \in 0..current'
        /\ token_start' \in 0..current' /\ line' \in Nat \ {0}
    <3>1. current \in Nat /\ line_start <= current /\ line_start \in Nat
          /\ line \in Nat \ {0} /\ Len(source) \in Nat
      BY InvFacts
    <3>2. current' = current + 1 /\ current + 1 <= Len(source)
      BY <2>1, <2>2
    <3>3. QED
      BY <1>1, <3>1, <3>2
  <2>4. LexerTypeOK'
    BY <1>1, <1>3, <2>1, <2>3 DEF LexerInv, LexerTypeOK
  <2>5. Located(line_start, line, current + 1)
    <3>1. current \in Nat /\ current + 1 \in Nat /\ current <= current + 1
      BY InvFacts
    <3>2. Newlines(current, current + 1) = {}
      BY <2>2, <3>1, NoNewline
    <3>3. Located(line_start, line, current)
      BY DEF LexerInv, Marks
    <3>4. QED
      BY <3>1, <3>2, <3>3, LocatedFurther
  <2>6. Marks'
    BY <1>1, <2>1, <2>5 DEF Marks, Located, StartsLine, Newlines
  <2>7. SymbolStarts'
    BY <2>1 DEF SymbolStarts
  <2>8. QED
    BY <1>1, <1>3, <2>4, <2>6, <2>7, SavedKeep DEF LexerInv
<1>6. QED
  BY <1>4, <1>5

\* A token returned where the cursor is, or one character further on.
LEMMA ReturnHere ==
    ASSUME TextsAssumption, LexerInv, asked # "none", NEW type \in TokenTypes
    PROVE  /\ Return(type, current) => LexerInv'
           /\ Return(type, current + 1) /\ ~AtEnd /\ Peek # Newline => LexerInv'
           /\ Return(type, current + 1) /\ Peek \notin {End, Newline} => LexerInv'
<1>1. current \in Nat /\ Len(source) \in Nat /\ current <= Len(source)
  BY InvFacts
<1>2. Newlines(current, current) = {}
  BY <1>1, NoNewline
<1>3. ASSUME current + 1 <= Len(source), source[current + 1] # Newline
      PROVE  current + 1 \in current..Len(source) /\ Newlines(current, current + 1) = {}
  BY <1>1, <1>3, NoNewline
<1>4. current \in current..Len(source)
  BY <1>1
<1>5. Return(type, current) => LexerInv'
  BY <1>2, <1>4, ReturnKeeps
<1>6. QED
  BY <1>3, <1>5, PeekFacts, ReturnKeeps

\* a symbol, of one or two characters,
LEMMA SymbolKeeps ==
    ASSUME TextsAssumption, LexerInv, asked # "none", Symbol
    PROVE  LexerInv'
<1>1. Peek # Newline
  BY DEF Symbol, LexerInv, SymbolStarts
<1>2. CASE AtEnd
  <2>1. Return("Eof", current)
    BY <1>2 DEF Symbol
  <2>2. QED
    BY <2>1, TypesAreTokens, ReturnHere
<1>3. CASE ~AtEnd /\ <<Peek, PeekNext>> \in DOMAIN Double
  <2>1. Return(Double[<<Peek, PeekNext>>], current + 2)
    BY <1>3 DEF Symbol
  <2>2. PeekNext \notin {Newline, End}
    BY <1>3, DoubleIsVisible
  <2>3. current + 2 <= Len(source) /\ source[current + 1] # Newline
        /\ source[current + 2] # Newline
    BY <1>1, <2>2, PeekFacts
  <2>4. current \in Nat /\ Len(source) \in Nat
    BY InvFacts
  <2>5. Newlines(current, current + 2) = {}
    BY <2>3, <2>4, NoNewline
  <2>6. current + 2 \in current..Len(source)
    BY <2>3, <2>4
  <2>7. Double[<<Peek, PeekNext>>] \in TokenTypes
    <3>1. PICK p \in DOMAIN Double : p = <<Peek, PeekNext>>
      BY <1>3
    <3>2. Double[p] \in TokenTypes
      BY TypesAreTokens
    <3>3. QED
      BY <3>1, <3>2
  <2>8. QED
    BY <2>1, <2>5, <2>6, <2>7, ReturnKeeps
<1>4. CASE ~AtEnd /\ <<Peek, PeekNext>> \notin DOMAIN Double
  <2>1. \E type \in TokenTypes : Return(type, current + 1)
    <3>1. CASE Peek \in DOMAIN Single
      <4>1. Return(Single[Peek], current + 1)
        BY <1>4, <3>1 DEF Symbol
      <4>2. QED
        BY <3>1, <4>1, TypesAreTokens
    <3>2. CASE Peek \notin DOMAIN Single
      <4>1. Return("Illegal", current + 1)
        BY <1>4, <3>2 DEF Symbol
      <4>2. QED
        BY <4>1, TypesAreTokens
    <3>3. QED
      BY <3>1, <3>2
  <2>2. QED
    BY <1>1, <1>4, <2>1, ReturnHere
<1>5. QED
  BY <1>2, <1>3, <1>4

\* blanks and comments, line ends within a block comment among them,
LEMMA SkipKeeps ==
    ASSUME TextsAssumption, LexerInv, asked # "none",
           SkipBlank \/ SkipLineComment \/ SkipBlockComment
    PROVE  LexerInv'
<1>1. {"skip", "line comment", "block comment"} \subseteq InText
  BY DEF InText
<1>2. ASSUME OverNewline, Peek = Newline, phase # "symbol" PROVE LexerInv'
  <2>1. Peek # End
    BY <1>2 DEF Newline, End
  <2>2. current < Len(source) /\ source[current + 1] = Newline
    BY <1>2, <2>1, PeekFacts, InvFacts
  <2>3. QED
    BY <1>2, <2>2, OverNewlineKeeps
<1>3. \A c \in Blanks \cup {"/", "*"} : c \notin {End, Newline}
  BY DEF Blanks, End, Newline
<1>4. CASE SkipBlank
  <2>1. Over(1, "skip") /\ Peek \in Blanks
    BY <1>4 DEF SkipBlank
  <2>2. QED
    BY <1>1, <1>3, <2>1, OverVisible
<1>5. CASE SkipLineComment
  <2>1. \/ Over(2, "line comment") /\ Peek = "/" /\ PeekNext = "/"
        \/ Over(0, "skip")
        \/ Over(1, "line comment") /\ ~AtEnd /\ Peek # Newline
    BY <1>5 DEF SkipLineComment
  <2>2. QED
    BY <1>1, <1>3, <2>1, OverVisible
<1>6. CASE SkipBlockComment
  <2>1. \/ Over(2, "block comment") /\ Peek = "/" /\ PeekNext = "*"
        \/ Over(2, "skip") /\ Peek = "*" /\ PeekNext = "/"
        \/ Over(0, "skip")
        \/ OverNewline /\ Peek = Newline /\ phase = "block comment"
        \/ Over(1, "block comment") /\ ~AtEnd /\ Peek # Newline
    BY <1>6 DEF SkipBlockComment, ClosesComment
  <2>2. QED
    BY <1>1, <1>2, <1>3, <2>1, OverVisible
<1>7. QED
  BY <1>4, <1>5, <1>6

\* a line end between tokens,
LEMMA NewlineKeeps ==
    ASSUME TextsAssumption, LexerInv, asked # "none", SkipNewline
    PROVE  LexerInv'
<1>1. Peek = Newline /\ Peek # End /\ phase # "symbol" /\ OverNewline
  BY DEF SkipNewline, Newline, End
<1>2. current < Len(source) /\ source[current + 1] = Newline
  BY <1>1, PeekFacts, InvFacts
<1>3. QED
  BY <1>1, <1>2, OverNewlineKeeps

\* the characters of a name,
LEMMA IdentifierKeeps ==
    ASSUME TextsAssumption, LexerInv, asked # "none", Identifier
    PROVE  LexerInv'
<1>1. CASE Joins
  <2>1. Over(1, "identifier") /\ "identifier" \in InText
    BY <1>1 DEF Identifier, InText
  <2>2. Peek \in Alnum \/ Peek = "."
    BY <1>1 DEF Joins
  <2>3. Peek \notin {End, Newline}
    BY <2>2, WordsAreVisible DEF End, Newline
  <2>4. QED
    BY <2>1, <2>3, OverVisible
<1>2. CASE ~Joins
  <2>1. \E type \in TokenTypes : Return(type, current)
    <3>1. DEFINE word == source[token_start + 1]
    <3>2. CASE current = token_start + 1 /\ word \in DOMAIN Keywords
      <4>1. Return(Keywords[word], current)
        BY <1>2, <3>2 DEF Identifier
      <4>2. QED
        BY <3>2, <4>1, TypesAreTokens
    <3>3. CASE ~(current = token_start + 1 /\ word \in DOMAIN Keywords)
      <4>1. Return("Identifier", current)
        BY <1>2, <3>3 DEF Identifier
      <4>2. QED
        BY <4>1, TypesAreTokens
    <3>4. QED
      BY <3>2, <3>3
  <2>2. QED
    BY <2>1, ReturnHere
<1>3. QED
  BY <1>1, <1>2

\* those of a string, which may run over line ends,
LEMMA StringKeeps ==
    ASSUME TextsAssumption, LexerInv, asked # "none", String
    PROVE  LexerInv'
<1>1. phase = "string" /\ "string" \in InText
  BY DEF String, InText
<1>2. \/ AtEnd /\ Return("Illegal", current)
      \/ Peek = Quote /\ Return("String", current + 1)
      \/ ~AtEnd /\ Peek = Newline /\ OverNewline
      \/ ~AtEnd /\ Peek # Newline /\ Over(1, "string")
  BY DEF String
<1>3. Quote \notin {End, Newline}
  BY DEF Quote, End, Newline
<1>4. CASE AtEnd /\ Return("Illegal", current)
  BY <1>4, TypesAreTokens, ReturnHere
<1>5. CASE Peek = Quote /\ Return("String", current + 1)
  BY <1>3, <1>5, TypesAreTokens, ReturnHere
<1>6. CASE ~AtEnd /\ Peek = Newline /\ OverNewline
  <2>1. current < Len(source) /\ source[current + 1] = Newline
    BY <1>6, PeekFacts, InvFacts
  <2>2. QED
    BY <1>1, <1>6, <2>1, OverNewlineKeeps
<1>7. CASE ~AtEnd /\ Peek # Newline /\ Over(1, "string")
  BY <1>1, <1>7, OverVisible
<1>8. QED
  BY <1>2, <1>4, <1>5, <1>6, <1>7

\* and those of a number with its fraction and base.
LEMMA NumberKeeps ==
    ASSUME TextsAssumption, LexerInv, asked # "none", Number
    PROVE  LexerInv'
<1>1. {"number", "fraction"} \subseteq InText
  BY DEF InText
<1>2. \/ Over(1, "number") /\ Peek \in Digits
      \/ Over(1, "fraction") /\ (Peek \in Digits \/ Peek = ".")
      \/ /\ current + 2 < Len(source)
         /\ SubSeq(source, current + 1, current + 3) = <<"t", "8", "1">>
         /\ Return("Base81Integer", current + 3)
      \/ Return("Integer", current)
      \/ Return("Float", current)
  BY DEF Number
<1>3. \A c \in Digits \cup {"."} : c \notin {End, Newline}
  BY WordsAreVisible DEF Alnum, End, Newline
<1>4. CASE /\ current + 2 < Len(source)
           /\ SubSeq(source, current + 1, current + 3) = <<"t", "8", "1">>
           /\ Return("Base81Integer", current + 3)
  <2>1. current \in Nat /\ Len(source) \in Nat /\ source \in Seq(STRING)
    BY InvFacts
  <2>2. /\ source[current + 1] = "t" /\ source[current + 2] = "8"
        /\ source[current + 3] = "1"
    <3>1. DEFINE suffix == SubSeq(source, current + 1, current + 3)
    <3>2. \A i \in 1..3 : suffix[i] = source[current + i]
      <4>1. TAKE i \in 1..3
      <4>2. suffix = SubSeq(source, current + 1, current + 3)
        OBVIOUS
      <4>3. (current + 1) + i - 1 = current + i /\ i \in 1..((current + 3) - (current + 1) + 1)
        BY <2>1
      <4>4. QED
        BY <2>1, <4>2, <4>3
    <3>3. suffix = <<"t", "8", "1">>
      BY <1>4
    <3> HIDE DEF suffix
    <3>4. suffix[1] = "t" /\ suffix[2] = "8" /\ suffix[3] = "1"
      BY <3>3
    <3>5. QED
      BY <2>1, <3>2, <3>4
  <2>3. Newlines(current, current + 3) = {}
    BY <2>1, <2>2 DEF Newlines, Newline
  <2>4. current + 3 \in current..Len(source)
    BY <1>4, <2>1
  <2>5. QED
    BY <1>4, <2>3, <2>4, TypesAreTokens, ReturnKeeps
<1>5. CASE Over(1, "number") /\ Peek \in Digits
  BY <1>1, <1>3, <1>5, OverVisible
<1>6. CASE Over(1, "fraction") /\ (Peek \in Digits \/ Peek = ".")
  BY <1>1, <1>3, <1>6, OverVisible
<1>7. CASE Return("Integer", current) \/ Return("Float", current)
  BY <1>7, TypesAreTokens, ReturnHere
<1>8. QED
  BY <1>2, <1>4, <1>5, <1>6, <1>7

-----------------------------------------------------------------------------
(* The invariant is kept by every step, and its parts are the theorems.       *)

\* Every step keeps the invariant,
LEMMA LexerStepKeeps == TextsAssumption /\ LexerInv /\ [LexerNext]_lexerVars => LexerInv'
<1> SUFFICES ASSUME TextsAssumption, LexerInv, [LexerNext]_lexerVars PROVE LexerInv'
  OBVIOUS
<1>1. CASE NextToken \/ PeekNextToken
  BY <1>1, CallKeeps
<1>2. CASE Scan
  <2>1. asked # "none"
    BY <1>2 DEF Scan
  <2>2. CASE SkipBlank \/ SkipLineComment \/ SkipBlockComment
    BY <2>1, <2>2, SkipKeeps
  <2>3. CASE SkipNewline
    BY <2>1, <2>3, NewlineKeeps
  <2>4. CASE StartToken
    BY <2>1, <2>4, StartTokenKeeps
  <2>5. CASE Symbol
    BY <2>1, <2>5, SymbolKeeps
  <2>6. CASE Identifier
    BY <2>1, <2>6, IdentifierKeeps
  <2>7. CASE Number
    BY <2>1, <2>7, NumberKeeps
  <2>8. CASE String
    BY <2>1, <2>8, StringKeeps
  <2>9. QED
    BY <1>2, <2>2, <2>3, <2>4, <2>5, <2>6, <2>7, <2>8 DEF Scan
<1>3. CASE UNCHANGED lexerVars
  <2>1. UNCHANGED <<source, current, line_start, token_start, line, phase, asked,
                    saved, given, ahead>>
    BY <1>3 DEF lexerVars
  <2>2. PositionsAreRight' /\ SavedMarks'
    BY <2>1, TokensKeep, SavedKeep
  <2>3. LexerTypeOK' /\ Marks' /\ SymbolStarts'
    BY <2>1 DEF LexerInv, LexerTypeOK, TokenType, Marks, Located, StartsLine,
                Newlines, SymbolStarts, Peek
  <2>4. QED
    BY <2>2, <2>3 DEF LexerInv
<1>4. QED
  BY <1>1, <1>2, <1>3 DEF LexerNext

\* so it holds throughout.
LEMMA LexerInvHolds == LexerSpec => []LexerInv
<1>1. TextsAssumption
  BY TextsAssumption
<1>2. QED
  BY <1>1, LexerInitInv, LexerStepKeeps, PTL DEF LexerSpec

\* For every text the cursor stays in it, and every token returned lies in it:
\* no index of lexer.cpp leaves the buffer, through any number of looks.
THEOREM LexerIsTypeCorrect == LexerSpec => []LexerTypeOK
<1>1. LexerInv => LexerTypeOK
  BY DEF LexerInv
<1>2. QED
  BY <1>1, LexerInvHolds, PTL

\* For every text, a token on one line carries the line and the column of its
\* first character: make_token's positions, which every message of the parser
\* and of the analyzer repeats.
THEOREM TokensArePlaced == LexerSpec => []PositionsAreRight
<1>1. LexerInv => PositionsAreRight
  BY DEF LexerInv
<1>2. QED
  BY <1>1, LexerInvHolds, PTL

-----------------------------------------------------------------------------
(* Looking ahead.  The lexer as a function of the text and the place of the   *)
(* cursor: what a look has found is kept as the places its scan went through. *)

\* The lexer as a function: where the cursor is, and what one step of a scan
\* makes of it, the next place or, in the phase idle, the token returned.
Place(p, c, s, t, l) ==
  [phase |-> p, current |-> c, line_start |-> s, token_start |-> t, line |-> l]
Now == Place(phase, current, line_start, token_start, line)
Start(c) == Place("skip", c[1], c[2], c[3], c[4])

CharAt(text, c) == IF c < Len(text) THEN text[c + 1] ELSE End
CharAfter(text, c) == IF c + 1 < Len(text) THEN text[c + 2] ELSE End

Further(q, n, next) == Place(next, q.current + n, q.line_start, q.token_start, q.line)
NextLine(q) == Place(q.phase, q.current + 1, q.current + 1, q.token_start, q.line + 1)
Ended(q, type, to) ==
  [phase |-> "idle", to |-> to,
   token |-> [type |-> type, from |-> q.token_start, to |-> to,
              line |-> q.line, column |-> q.token_start - q.line_start + 1]]

Skipped(q, char, follows) ==
  CASE char \in Blanks -> Further(q, 1, "skip")
    [] char = Newline -> NextLine(q)
    [] char = "/" /\ follows = "/" -> Further(q, 2, "line comment")
    [] char = "/" /\ follows = "*" -> Further(q, 2, "block comment")
    [] OTHER ->
         LET next == CASE char \in Letters -> "identifier"
                       [] char \in Digits -> "number"
                       [] char = Quote -> "string"
                       [] OTHER -> "symbol"
         IN Place(next, IF next = "symbol" THEN q.current ELSE q.current + 1,
                  q.line_start, q.current, q.line)

SymbolOf(q, atEnd, char, follows) ==
  IF atEnd THEN Ended(q, "Eof", q.current)
  ELSE IF <<char, follows>> \in DOMAIN Double
  THEN Ended(q, Double[<<char, follows>>], q.current + 2)
  ELSE Ended(q, IF char \in DOMAIN Single THEN Single[char] ELSE "Illegal", q.current + 1)

WordOf(q, text, char, follows) ==
  IF char \in Alnum \/ (char = "." /\ follows \in Alnum)
  THEN Further(q, 1, "identifier")
  ELSE LET word == text[q.token_start + 1]
       IN Ended(q, IF q.current = q.token_start + 1 /\ word \in DOMAIN Keywords
                   THEN Keywords[word] ELSE "Identifier", q.current)

NumberOf(q, text, char, follows) ==
  IF char \in Digits THEN Further(q, 1, "number")
  ELSE IF char = "." /\ follows \in Digits THEN Further(q, 1, "fraction")
  ELSE IF /\ q.current + 2 < Len(text)
          /\ SubSeq(text, q.current + 1, q.current + 3) = <<"t", "8", "1">>
  THEN Ended(q, "Base81Integer", q.current + 3)
  ELSE Ended(q, "Integer", q.current)

StringOf(q, atEnd, char) ==
  IF atEnd THEN Ended(q, "Illegal", q.current)
  ELSE IF char = Quote THEN Ended(q, "String", q.current + 1)
  ELSE IF char = Newline THEN NextLine(q) ELSE Further(q, 1, "string")

Outcome(text, q) ==
  LET char == CharAt(text, q.current)
      follows == CharAfter(text, q.current)
      atEnd == q.current = Len(text)
  IN CASE q.phase = "skip" -> Skipped(q, char, follows)
       [] q.phase = "line comment" ->
            IF atEnd \/ char = Newline THEN Further(q, 0, "skip")
            ELSE Further(q, 1, "line comment")
       [] q.phase = "block comment" ->
            IF char = "*" /\ follows = "/" THEN Further(q, 2, "skip")
            ELSE IF atEnd THEN Further(q, 0, "skip")
            ELSE IF char = Newline THEN NextLine(q) ELSE Further(q, 1, "block comment")
       [] q.phase = "symbol" -> SymbolOf(q, atEnd, char, follows)
       [] q.phase = "identifier" -> WordOf(q, text, char, follows)
       [] q.phase = "number" -> NumberOf(q, text, char, follows)
       [] q.phase = "fraction" ->
            IF char \in Digits THEN Further(q, 1, "fraction")
            ELSE Ended(q, "Float", q.current)
       [] OTHER -> StringOf(q, atEnd, char)

\* A step of a scan that goes on from here to q, and one that returns.
GoesTo(q) ==
  /\ q.phase # "idle" /\ Now' = q /\ source' = source /\ asked' = asked
  /\ saved' = saved /\ given' = given /\ ahead' = ahead
ReturnsFrom(q) ==
  /\ q.phase = "idle" /\ source' = source /\ asked' = "none"
  /\ IF asked = "peek"
     THEN Restore /\ ahead' = q.token /\ given' = given
     ELSE given' = Append(given, q.token) /\ ahead' = NoToken

\* The place the cursor is at, field by field.
LEMMA NowParts ==
  /\ Now.phase = phase /\ Now.current = current /\ Now.line_start = line_start
  /\ Now.token_start = token_start /\ Now.line = line
  /\ Peek = CharAt(source, Now.current) /\ PeekNext = CharAfter(source, Now.current)
  /\ AtEnd = (Now.current = Len(source))
  BY DEF Now, Place, Peek, PeekNext, CharAt, CharAfter, AtEnd

\* Moving over characters goes to the place further on.
LEMMA OverGoes ==
  ASSUME NEW n, NEW next, next # "idle", Over(n, next)
  PROVE  GoesTo(Further(Now, n, next))
<1>1. Now' = Further(Now, n, next)
  BY NowParts DEF Over, Further, Now
<1>2. Further(Now, n, next).phase = next
  BY DEF Further, Place
<1> QED
  BY <1>1, <1>2 DEF Over, GoesTo

\* Moving over a line end goes to the next line.
LEMMA NewlineGoes ==
  ASSUME OverNewline, phase # "idle"
  PROVE  GoesTo(NextLine(Now))
<1>1. Now' = NextLine(Now)
  BY NowParts DEF OverNewline, NextLine, Now
<1>2. NextLine(Now).phase = phase
  BY NowParts DEF NextLine, Place
<1> QED
  BY <1>1, <1>2 DEF OverNewline, GoesTo

\* Returning a token ends the scan with it.
LEMMA ReturnEnds ==
  ASSUME NEW type, NEW to, Return(type, to)
  PROVE  ReturnsFrom(Ended(Now, type, to))
<1> DEFINE q == Ended(Now, type, to)
<1>1. q.phase = "idle" /\ q.token = TokenTo(type, to)
  BY NowParts DEF Ended, TokenTo
<1>0. SUFFICES ReturnsFrom(q)
  OBVIOUS
<1> HIDE DEF q
<1>2. source' = source /\ asked' = "none"
  BY DEF Return
<1>3. CASE asked = "peek"
  BY <1>1, <1>2, <1>3 DEF Return, ReturnsFrom
<1>4. CASE asked # "peek"
  BY <1>1, <1>2, <1>4 DEF Return, ReturnsFrom
<1> QED
  BY <1>3, <1>4

\* A step of a scan has the outcome the place says.
Follows == LET q == Outcome(source, Now) IN GoesTo(q) \/ ReturnsFrom(q)

\* The characters a trivia step looks for are different ones.
LEMMA TriviaDiffers ==
  /\ Newline \notin Blanks /\ "/" \notin Blanks /\ "/" # Newline /\ "*" # Newline
  BY DEF Blanks, Newline

\* Trivia.
LEMMA SkipFollows ==
  ASSUME SkipBlank \/ SkipNewline \/ SkipLineComment \/ SkipBlockComment
  PROVE  Follows
<1>1. CASE SkipBlank
  <2>1. Outcome(source, Now) = Further(Now, 1, "skip")
    BY <1>1, NowParts, TriviaDiffers DEF SkipBlank, Outcome, Skipped
  <2> QED
    BY <1>1, <2>1, OverGoes DEF SkipBlank, Follows
<1>2. CASE SkipNewline
  <2>1. Outcome(source, Now) = NextLine(Now)
    BY <1>2, NowParts, TriviaDiffers DEF SkipNewline, Outcome, Skipped
  <2> QED
    BY <1>2, <2>1, NewlineGoes DEF SkipNewline, Follows
<1>3. CASE phase = "skip" /\ Peek = "/" /\ PeekNext = "/" /\ Over(2, "line comment")
  <2>1. Outcome(source, Now) = Further(Now, 2, "line comment")
    BY <1>3, NowParts, TriviaDiffers DEF Outcome, Skipped
  <2> QED
    BY <1>3, <2>1, OverGoes DEF Follows
<1>4. CASE phase = "skip" /\ Peek = "/" /\ PeekNext = "*" /\ Over(2, "block comment")
  <2>1. Outcome(source, Now) = Further(Now, 2, "block comment")
    BY <1>4, NowParts, TriviaDiffers DEF Outcome, Skipped
  <2> QED
    BY <1>4, <2>1, OverGoes DEF Follows
<1>5. CASE /\ phase = "line comment"
           /\ IF AtEnd \/ Peek = Newline THEN Over(0, "skip") ELSE Over(1, "line comment")
  <2>1. Outcome(source, Now) = IF AtEnd \/ Peek = Newline THEN Further(Now, 0, "skip")
                               ELSE Further(Now, 1, "line comment")
    BY <1>5, NowParts DEF Outcome
  <2> QED
    BY <1>5, <2>1, OverGoes DEF Follows
<1>6. CASE /\ phase = "block comment"
           /\ CASE ClosesComment -> Over(2, "skip")
                [] AtEnd -> Over(0, "skip")
                [] Peek = Newline -> OverNewline
                [] OTHER -> Over(1, "block comment")
  <2>1. Outcome(source, Now) = IF ClosesComment THEN Further(Now, 2, "skip")
                               ELSE IF AtEnd THEN Further(Now, 0, "skip")
                               ELSE IF Peek = Newline THEN NextLine(Now)
                               ELSE Further(Now, 1, "block comment")
    BY <1>6, NowParts DEF Outcome, ClosesComment
  <2>2. CASE ClosesComment
    <3>1. Over(2, "skip")
      <4>1. Peek # Newline
        BY <2>2, TriviaDiffers DEF ClosesComment
      <4>2. ~AtEnd
        BY <2>2 DEF ClosesComment, Peek, AtEnd, End
      <4> QED
        BY <1>6, <2>2, <4>1, <4>2
    <3> QED
      BY <2>1, <2>2, <3>1, OverGoes DEF Follows
  <2>3. CASE ~ClosesComment /\ AtEnd
    <3>1. Over(0, "skip")
      <4>1. Peek # Newline
        BY <2>3 DEF Peek, AtEnd, End, Newline
      <4> QED
        BY <1>6, <2>3, <4>1
    <3> QED
      BY <2>1, <2>3, <3>1, OverGoes DEF Follows
  <2>4. CASE ~ClosesComment /\ ~AtEnd /\ Peek = Newline
    BY <1>6, <2>1, <2>4, NewlineGoes DEF Follows
  <2>5. CASE ~ClosesComment /\ ~AtEnd /\ Peek # Newline
    BY <1>6, <2>1, <2>5, OverGoes DEF Follows
  <2> QED
    BY <2>2, <2>3, <2>4, <2>5
<1> QED
  BY <1>1, <1>2, <1>3, <1>4, <1>5, <1>6 DEF SkipLineComment, SkipBlockComment

\* The first character of a token.
LEMMA StartFollows ==
  ASSUME StartToken, TextsAssumption
  PROVE  Follows
<1> DEFINE next == CASE Peek \in Letters -> "identifier"
                     [] Peek \in Digits -> "number"
                     [] Peek = Quote -> "string"
                     [] OTHER -> "symbol"
           q == Place(next, IF next = "symbol" THEN current ELSE current + 1,
                      line_start, current, line)
<1>1. /\ phase = "skip" /\ Peek \notin Blanks \cup {Newline} /\ ~OpensComment
      /\ token_start' = current /\ phase' = next
      /\ current' = IF next = "symbol" THEN current ELSE current + 1
      /\ UNCHANGED <<source, line_start, line, asked, saved, given, ahead>>
  BY DEF StartToken
<1>2. next # "idle"
  BY DEF TextsAssumption
<1>3. Outcome(source, Now) = q
  BY <1>1, NowParts DEF Outcome, Skipped, OpensComment
<1> HIDE DEF next
<1>4. Now' = q
  BY <1>1 DEF Now
<1>5. q.phase = next
  BY DEF Place
<1> QED
  BY <1>1, <1>2, <1>3, <1>4, <1>5 DEF Follows, GoesTo

\* Symbols.
LEMMA SymbolFollows ==
  ASSUME Symbol
  PROVE  Follows
<1>1. Outcome(source, Now) =
        IF AtEnd THEN Ended(Now, "Eof", current)
        ELSE IF <<Peek, PeekNext>> \in DOMAIN Double
        THEN Ended(Now, Double[<<Peek, PeekNext>>], current + 2)
        ELSE Ended(Now, IF Peek \in DOMAIN Single THEN Single[Peek] ELSE "Illegal",
                   current + 1)
  BY NowParts DEF Symbol, Outcome, SymbolOf
<1> QED
  BY <1>1, ReturnEnds DEF Symbol, Follows

\* identifier.
LEMMA WordFollows ==
  ASSUME Identifier
  PROVE  Follows
<1> DEFINE word == source[token_start + 1]
           type == IF current = token_start + 1 /\ word \in DOMAIN Keywords
                   THEN Keywords[word] ELSE "Identifier"
<1>1. Outcome(source, Now) = IF Joins THEN Further(Now, 1, "identifier")
                             ELSE Ended(Now, type, current)
  BY NowParts DEF Identifier, Outcome, WordOf, Joins
<1>2. IF Joins THEN Over(1, "identifier") ELSE Return(type, current)
  BY DEF Identifier
<1> HIDE DEF type
<1> QED
  BY <1>1, <1>2, OverGoes, ReturnEnds DEF Follows

\* string.
LEMMA StringFollows ==
  ASSUME String
  PROVE  Follows
<1>1. Outcome(source, Now) =
        IF AtEnd THEN Ended(Now, "Illegal", current)
        ELSE IF Peek = Quote THEN Ended(Now, "String", current + 1)
        ELSE IF Peek = Newline THEN NextLine(Now) ELSE Further(Now, 1, "string")
  BY NowParts DEF String, Outcome, StringOf
<1>2. phase # "idle"
  BY DEF String
<1> QED
  BY <1>1, <1>2, OverGoes, NewlineGoes, ReturnEnds DEF String, Follows

\* number.
LEMMA NumberFollows ==
  ASSUME Number
  PROVE  Follows
<1> DEFINE suffix == /\ current + 2 < Len(source)
                     /\ SubSeq(source, current + 1, current + 3) = <<"t", "8", "1">>
<1>1. CASE /\ phase = "number"
           /\ IF Peek \in Digits THEN Over(1, "number")
              ELSE IF Peek = "." /\ PeekNext \in Digits THEN Over(1, "fraction")
              ELSE IF suffix THEN Return("Base81Integer", current + 3)
              ELSE Return("Integer", current)
  <2>1. Outcome(source, Now) =
          IF Peek \in Digits THEN Further(Now, 1, "number")
          ELSE IF Peek = "." /\ PeekNext \in Digits THEN Further(Now, 1, "fraction")
          ELSE IF suffix THEN Ended(Now, "Base81Integer", current + 3)
          ELSE Ended(Now, "Integer", current)
    BY <1>1, NowParts DEF Outcome, NumberOf
  <2> HIDE DEF suffix
  <2> QED
    BY <1>1, <2>1, OverGoes, ReturnEnds DEF Follows
<1>2. CASE /\ phase = "fraction"
           /\ IF Peek \in Digits THEN Over(1, "fraction") ELSE Return("Float", current)
  <2>1. Outcome(source, Now) = IF Peek \in Digits THEN Further(Now, 1, "fraction")
                               ELSE Ended(Now, "Float", current)
    BY <1>2, NowParts DEF Outcome
  <2> QED
    BY <1>2, <2>1, OverGoes, ReturnEnds DEF Follows
<1> QED
  BY <1>1, <1>2 DEF Number

\* Every step of a scan has the outcome the place says.
LEMMA ScanFollows ==
  ASSUME Scan, TextsAssumption
  PROVE  Follows
  BY SkipFollows, StartFollows, SymbolFollows, WordFollows, StringFollows, NumberFollows
     DEF Scan

\* From every place of A a scan goes on within A or returns the token t.
Agrees(A, text, t) ==
  \A q \in A : LET o == Outcome(text, q)
              IN IF o.phase = "idle" THEN o.token = t ELSE o \in A
\* The places A of a scan so far, from the place it started at.
Passed(A, text, now) ==
  \A q \in A : LET o == Outcome(text, q)
              IN q = now \/ (o.phase # "idle" /\ o \in A)

\* Through the places of A a scan from here finds the token looked at.
Finds(A) ==
  /\ Agrees(A, source, ahead)
  /\ asked = "none" => Start(cursor) \in A
  /\ asked # "none" => Now \in A
  /\ asked = "peek" => Start(saved) \in A

\* A scan from here finds what a look has found; and a look still going on will
\* find what a scan from where it started finds.
LookedAhead ==
  /\ ahead # NoToken => \E A : Finds(A)
  /\ ahead = NoToken /\ asked = "peek" =>
       \E A : Passed(A, source, Now) /\ Now \in A /\ Start(saved) \in A

\* A call starts a scan where the cursor is.
LEMMA LookStarts ==
  ASSUME LookedAhead, NextToken \/ PeekNextToken
  PROVE  LookedAhead'
<1>1. /\ asked = "none" /\ asked' \in {"next", "peek"} /\ phase' = "skip"
      /\ source' = source /\ ahead' = ahead
      /\ current' = current /\ line_start' = line_start /\ token_start' = token_start
      /\ line' = line
      /\ asked' = "peek" => saved' = <<current, line_start, token_start, line>>
  BY DEF NextToken, PeekNextToken, cursor
<1>2. Now' = Start(cursor)
  BY <1>1 DEF Now, Start, cursor
<1>3. asked' = "peek" => Start(saved)' = Start(cursor)
  BY <1>1 DEF Start, cursor
<1>4. ASSUME ahead # NoToken
      PROVE  LookedAhead'
  <2>1. PICK A : Finds(A)
    BY <1>4 DEF LookedAhead
  <2>2. Finds(A)'
    BY <1>1, <1>2, <1>3, <2>1 DEF Finds
  <2> QED
    BY <1>1, <1>4, <2>2 DEF LookedAhead
<1>5. ASSUME ahead = NoToken
      PROVE  LookedAhead'
  <2>1. Passed({Now'}, source, Now')
    BY DEF Passed
  <2> QED
    BY <1>1, <1>2, <1>3, <1>5, <2>1 DEF LookedAhead
<1> QED
  BY <1>4, <1>5

\* A step within a scan stays on the way.
LEMMA StepOfScanKeepsLook ==
  ASSUME LookedAhead, asked # "none", NEW q, q = Outcome(source, Now), GoesTo(q)
  PROVE  LookedAhead'
<1>1. /\ q.phase # "idle" /\ Now' = q /\ source' = source /\ asked' = asked
      /\ ahead' = ahead /\ Start(saved)' = Start(saved)
  BY DEF GoesTo, Start
<1>2. ASSUME ahead # NoToken
      PROVE  LookedAhead'
  <2>1. PICK A : Finds(A)
    BY <1>2 DEF LookedAhead
  <2>2. q \in A
    BY <1>1, <2>1 DEF Agrees, Finds
  <2>3. Finds(A)'
    BY <1>1, <2>1, <2>2 DEF Finds
  <2> QED
    BY <1>1, <1>2, <2>3 DEF LookedAhead
<1>3. ASSUME ahead = NoToken, asked = "peek"
      PROVE  LookedAhead'
  <2>1. PICK A : Passed(A, source, Now) /\ Now \in A /\ Start(saved) \in A
    BY <1>3 DEF LookedAhead
  <2>2. Passed(A \cup {q}, source, q)
    BY <1>1, <2>1 DEF Passed
  <2> QED
    BY <1>1, <1>3, <2>1, <2>2 DEF LookedAhead
<1>4. ASSUME ahead = NoToken, asked # "peek"
      PROVE  LookedAhead'
  BY <1>1, <1>4 DEF LookedAhead
<1> QED
  BY <1>2, <1>3, <1>4

\* What a scan from a place a look has passed returns is what the look found.
LEMMA FindsTheSame ==
  ASSUME LookedAhead, asked # "none", ahead # NoToken,
         NEW q, q = Outcome(source, Now), ReturnsFrom(q)
  PROVE  q.token = ahead
<1>1. PICK A : Finds(A)
  BY DEF LookedAhead
<1> QED
  BY <1>1 DEF Finds, Agrees, ReturnsFrom

\* The end of a look goes back to where it started, with what was found.
LEMMA EndOfScanKeepsLook ==
  ASSUME LookedAhead, asked # "none", NEW q, q = Outcome(source, Now), ReturnsFrom(q)
  PROVE  LookedAhead'
<1>1. asked' = "none" /\ source' = source /\ q.phase = "idle"
  BY DEF ReturnsFrom
<1>2. CASE asked # "peek"
  <2>1. ahead' = NoToken
    BY <1>2 DEF ReturnsFrom
  <2> QED
    BY <1>1, <2>1 DEF LookedAhead
<1>3. CASE asked = "peek"
  <2>1. ahead' = q.token /\ Start(cursor)' = Start(saved)
    BY <1>3 DEF ReturnsFrom, Restore, Start, cursor
  <2>2. CASE ahead # NoToken
    <3>1. PICK A : Finds(A)
      BY <2>2 DEF LookedAhead
    <3>2. q.token = ahead
      BY <2>2, FindsTheSame
    <3>3. Finds(A)'
      BY <1>1, <1>3, <2>1, <3>1, <3>2 DEF Finds
    <3> QED
      BY <1>1, <2>1, <3>3 DEF LookedAhead
  <2>3. CASE ahead = NoToken
    <3>1. PICK A : Passed(A, source, Now) /\ Start(saved) \in A
      BY <1>3, <2>3 DEF LookedAhead
    <3>2. Agrees(A, source, q.token)
      BY <1>1, <3>1 DEF Passed, Agrees
    <3>3. Finds(A)'
      BY <1>1, <2>1, <3>1, <3>2 DEF Finds
    <3> QED
      BY <1>1, <3>3 DEF LookedAhead
  <2> QED
    BY <2>2, <2>3
<1> QED
  BY <1>2, <1>3

\* Every step of the lexer keeps it, and returns what a look has found.
LookIsRight ==
  ahead # NoToken /\ asked' = "none" =>
      \/ ahead' = ahead
      \/ ahead' = NoToken /\ given' = Append(given, ahead)

\* Every step keeps what has been looked at, and returns it.
LEMMA LookStays ==
  ASSUME LookedAhead, LexerNext \/ UNCHANGED lexerVars, TextsAssumption
  PROVE  LookedAhead' /\ (LookIsRight \/ UNCHANGED lexerVars)
<1>1. CASE NextToken \/ PeekNextToken
  <2>1. asked' # "none"
    BY <1>1 DEF NextToken, PeekNextToken
  <2> QED
    BY <1>1, <2>1, LookStarts DEF LookIsRight
<1>2. CASE Scan
  <2>1. asked # "none"
    BY <1>2 DEF Scan
  <2>2. PICK q : q = Outcome(source, Now) /\ (GoesTo(q) \/ ReturnsFrom(q))
    BY <1>2, ScanFollows DEF Follows
  <2>3. CASE GoesTo(q)
    <3>1. LookedAhead'
      BY <2>1, <2>2, <2>3, StepOfScanKeepsLook
    <3> QED
      BY <2>3, <3>1 DEF GoesTo, LookIsRight
  <2>4. CASE ReturnsFrom(q)
    <3>1. LookedAhead'
      BY <2>1, <2>2, <2>4, EndOfScanKeepsLook
    <3>2. ahead # NoToken => q.token = ahead
      BY <2>1, <2>2, <2>4, FindsTheSame
    <3> QED
      BY <2>4, <3>1, <3>2 DEF ReturnsFrom, LookIsRight
  <2> QED
    BY <2>2, <2>3, <2>4
<1>3. CASE UNCHANGED lexerVars
  <2>1. /\ ahead' = ahead /\ source' = source /\ asked' = asked
        /\ Now' = Now /\ Start(cursor)' = Start(cursor) /\ Start(saved)' = Start(saved)
    BY <1>3 DEF lexerVars, Now, Start, cursor
  <2>2. ASSUME NEW A, Finds(A)
        PROVE  Finds(A)'
    BY <2>1, <2>2 DEF Finds
  <2> QED
    BY <1>3, <2>1, <2>2 DEF LookedAhead
<1> QED
  BY <1>1, <1>2, <1>3 DEF LexerNext

\* What a look has found is what the scan from the place of the cursor finds,
\* at every moment of the calls.
LEMMA LookedAheadHolds == LexerSpec => []LookedAhead
<1>1. TextsAssumption
  BY TextsAssumption
<1>2. LexerInit => LookedAhead
  BY DEF LexerInit, LookedAhead
<1>3. LookedAhead /\ [LexerNext]_lexerVars => LookedAhead'
  BY <1>1, LookStays
<1> QED
  BY <1>2, <1>3, PTL DEF LexerSpec

\* For every text: a token a look has returned is the one the next look and
\* the next call return, whatever was skipped in between (lexer.cpp: peek and
\* scan run the same code over the same text).
THEOREM LookFindsWhatIsGiven == LexerSpec => PeekedIsGiven
<1>1. TextsAssumption
  BY TextsAssumption
<1>2. LookedAhead /\ [LexerNext]_lexerVars
        => [ahead # NoToken /\ asked' = "none" =>
              \/ ahead' = ahead
              \/ ahead' = NoToken /\ given' = Append(given, ahead)]_<<given, ahead>>
  BY <1>1, LookStays DEF LookIsRight, lexerVars
<1> QED
  BY <1>2, LookedAheadHolds, PTL DEF LexerSpec, PeekedIsGiven

-----------------------------------------------------------------------------
(* Ways through the items of a sequence.                                      *)

\* A way through the items of s, each of them a step of the relation R, from a
\* to b.
Leads(R, a, s, b) ==
  /\ IsSeq(s)
  /\ \E h : /\ h[0] = a /\ h[Len(s)] = b
            /\ \A i \in DOMAIN s : <<h[i - 1], s[i], h[i]>> \in R

\* Nothing to do leads nowhere else.
LEMMA LeadsNone ==
  ASSUME NEW R, NEW a
  PROVE  Leads(R, a, <<>>, a)
<1> DEFINE h == [i \in {0} |-> a]
<1>1. h[0] = a /\ Len(<<>>) = 0 /\ DOMAIN <<>> = {} /\ IsSeq(<<>>)
  BY DEF IsSeq
<1> HIDE DEF h
<1> QED
  BY <1>1 DEF Leads

\* One item is one step.
LEMMA LeadsOne ==
  ASSUME NEW R, NEW a, NEW x, NEW b, <<a, x, b>> \in R
  PROVE  Leads(R, a, <<x>>, b)
<1> DEFINE h == [i \in {0, 1} |-> IF i = 0 THEN a ELSE b]
<1>1. h[0] = a /\ h[1] = b /\ Len(<<x>>) = 1 /\ DOMAIN <<x>> = {1} /\ <<x>>[1] = x
  OBVIOUS
<1>2. IsSeq(<<x>>)
  <2>1. <<x>> \in Seq({x})
    OBVIOUS
  <2> QED
    BY <2>1, SeqIn
<1> HIDE DEF h
<1>3. \A i \in DOMAIN <<x>> : <<h[i - 1], <<x>>[i], h[i]>> \in R
  BY <1>1
<1> QED
  BY <1>1, <1>2, <1>3 DEF Leads

\* A larger relation leads where a smaller one does.
LEMMA LeadsMore ==
  ASSUME NEW R, NEW Q, \A x \in R : x \in Q, NEW a, NEW s, NEW b, Leads(R, a, s, b)
  PROVE  Leads(Q, a, s, b)
  BY DEF Leads

\* Two ways, one after the other.
LEMMA LeadsCat ==
  ASSUME NEW R, NEW a, NEW s, NEW b, NEW t, NEW c, Leads(R, a, s, b), Leads(R, b, t, c)
  PROVE  Leads(R, a, s \o t, c)
<1>1. PICK f : /\ IsSeq(s) /\ f[0] = a /\ f[Len(s)] = b
               /\ \A i \in DOMAIN s : <<f[i - 1], s[i], f[i]>> \in R
  BY DEF Leads
<1>2. PICK g : /\ IsSeq(t) /\ g[0] = b /\ g[Len(t)] = c
               /\ \A i \in DOMAIN t : <<g[i - 1], t[i], g[i]>> \in R
  BY DEF Leads
<1>3. /\ Len(s) \in Nat /\ Len(t) \in Nat /\ DOMAIN s = 1..Len(s) /\ DOMAIN t = 1..Len(t)
      /\ Len(s \o t) = Len(s) + Len(t) /\ IsSeq(s \o t)
  BY <1>1, <1>2, SeqLen, SeqCat
<1> DEFINE h == [i \in 0..(Len(s) + Len(t)) |-> IF i <= Len(s) THEN f[i] ELSE g[i - Len(s)]]
<1>4. h[0] = a
  BY <1>1, <1>3
<1>5. h[Len(s) + Len(t)] = c
  <2>1. CASE Len(t) = 0
    BY <1>1, <1>2, <1>3, <2>1
  <2>2. CASE Len(t) # 0
    BY <1>2, <1>3, <2>2
  <2> QED
    BY <2>1, <2>2
<1>6. ASSUME NEW i \in DOMAIN (s \o t)
      PROVE  <<h[i - 1], (s \o t)[i], h[i]>> \in R
  <2>1. i \in 1..(Len(s) + Len(t))
    BY <1>3, SeqLen
  <2>2. CASE i \in DOMAIN s /\ (s \o t)[i] = s[i]
    <3>1. h[i - 1] = f[i - 1] /\ h[i] = f[i]
      BY <1>3, <2>2
    <3> HIDE DEF h
    <3> QED
      BY <1>1, <2>2, <3>1
  <2>3. CASE i - Len(s) \in DOMAIN t /\ (s \o t)[i] = t[i - Len(s)]
    <3> DEFINE j == i - Len(s)
    <3>1. j \in 1..Len(t) /\ j \in Nat /\ i = Len(s) + j
      BY <1>3, <2>1, <2>3
    <3>2. h[i] = g[j]
      BY <1>3, <2>1, <3>1
    <3>3. h[i - 1] = g[j - 1]
      <4>1. CASE j = 1
        <5>1. i - 1 = Len(s) /\ j - 1 = 0
          BY <1>3, <3>1, <4>1
        <5> QED
          BY <1>1, <1>2, <1>3, <5>1
      <4>2. CASE j # 1
        BY <1>3, <2>1, <3>1, <4>2
      <4> QED
        BY <4>1, <4>2
    <3> HIDE DEF h, j
    <3>4. <<g[j - 1], t[j], g[j]>> \in R
      BY <1>2, <1>3, <3>1
    <3> USE DEF j
    <3> QED
      BY <2>3, <3>2, <3>3, <3>4
  <2> QED
    BY <1>1, <1>2, <2>2, <2>3, CatAt
<1> HIDE DEF h
<1> QED
  BY <1>3, <1>4, <1>5, <1>6 DEF Leads

\* The first step, and what is left after it.
LEMMA LeadsTail ==
  ASSUME NEW R, NEW a, NEW s, s # <<>>, NEW b, Leads(R, a, s, b)
  PROVE  \E m : <<a, Head(s), m>> \in R /\ Leads(R, m, Tail(s), b)
<1>1. PICK h : /\ IsSeq(s) /\ h[0] = a /\ h[Len(s)] = b
               /\ \A i \in DOMAIN s : <<h[i - 1], s[i], h[i]>> \in R
  BY DEF Leads
<1>2. /\ 1 \in DOMAIN s /\ Head(s) = s[1] /\ IsSeq(Tail(s))
      /\ \A i \in DOMAIN Tail(s) : i + 1 \in DOMAIN s /\ Tail(s)[i] = s[i + 1]
  BY <1>1, HeadAndTail
<1>3. Len(s) \in Nat /\ Len(s) # 0 /\ Len(Tail(s)) = Len(s) - 1
      /\ DOMAIN Tail(s) = 1..(Len(s) - 1)
  <2>1. s \in Seq(Range(s))
    BY <1>1 DEF IsSeq
  <2> QED
    BY <2>1
<1>4. <<a, Head(s), h[1]>> \in R
  BY <1>1, <1>2
<1> DEFINE g == [i \in 0..(Len(s) - 1) |-> h[i + 1]]
<1>5. g[0] = h[1] /\ g[Len(Tail(s))] = b
  <2>1. g[0] = h[0 + 1]
    BY <1>3
  <2>2. g[Len(s) - 1] = h[(Len(s) - 1) + 1] /\ (Len(s) - 1) + 1 = Len(s)
    BY <1>3
  <2> HIDE DEF g
  <2> QED
    BY <1>1, <1>3, <2>1, <2>2
<1>6. ASSUME NEW i \in DOMAIN Tail(s)
      PROVE  <<g[i - 1], Tail(s)[i], g[i]>> \in R
  <2>1. i \in 1..(Len(s) - 1) /\ g[i] = h[i + 1] /\ g[i - 1] = h[(i - 1) + 1] /\ (i - 1) + 1 = i
    BY <1>3
  <2>2. i + 1 \in DOMAIN s /\ Tail(s)[i] = s[i + 1] /\ (i + 1) - 1 = i
    BY <1>2, <2>1
  <2>3. <<h[(i + 1) - 1], s[i + 1], h[i + 1]>> \in R
    BY <1>1, <2>2
  <2> HIDE DEF g
  <2> QED
    BY <2>1, <2>2, <2>3
<1> HIDE DEF g
<1>7. Leads(R, h[1], Tail(s), b)
  BY <1>2, <1>5, <1>6 DEF Leads
<1> QED
  BY <1>4, <1>7

\* What is left of a way from a place on it.
LEMMA LeadsFrom ==
  ASSUME NEW R, NEW s, IsSeq(s), NEW h,
         \A i \in DOMAIN s : <<h[i - 1], s[i], h[i]>> \in R,
         NEW n \in 0..Len(s)
  PROVE  Leads(R, h[n], SubSeq(s, n + 1, Len(s)), h[Len(s)])
<1> DEFINE t == SubSeq(s, n + 1, Len(s))
           g == [i \in 0..(Len(s) - n) |-> h[n + i]]
<1>1. Len(s) \in Nat /\ n \in Nat /\ n <= Len(s) /\ DOMAIN s = 1..Len(s) /\ s \in Seq(Range(s))
  BY SeqLen DEF IsSeq
<1>2. /\ t \in Seq(Range(s)) /\ Len(t) = Len(s) - n
      /\ \A i \in 1..(Len(s) - n) : t[i] = s[n + i]
  <2>1. /\ n + 1 \in Int /\ Len(s) \in Int /\ \A i \in (n + 1)..Len(s) : s[i] \in Range(s)
        /\ Len(s) - (n + 1) + 1 = Len(s) - n /\ n + 1 <= Len(s) + 1
    BY <1>1
  <2>2. /\ t \in Seq(Range(s))
        /\ Len(t) = IF n + 1 <= Len(s) THEN Len(s) - (n + 1) + 1 ELSE 0
        /\ \A i \in 1..(Len(s) - (n + 1) + 1) : t[i] = s[(n + 1) + i - 1]
    BY <2>1, SubSeqProperties
  <2>3. \A i \in Nat : (n + 1) + i - 1 = n + i
    BY <1>1
  <2> HIDE DEF t
  <2> HIDE DEF g
  <2>6. \A l \in Nat : n <= l => (IF n + 1 <= l THEN l - (n + 1) + 1 ELSE 0) = l - n
    BY <1>1
  <2>4. Len(t) = Len(s) - n
    BY <1>1, <2>2, <2>6
  <2>5. ASSUME NEW i \in 1..(Len(s) - n) PROVE t[i] = s[n + i]
    <3>1. i \in 1..(Len(s) - (n + 1) + 1) /\ i \in Nat
      BY <1>1, <2>1
    <3> QED
      BY <2>2, <2>3, <3>1
  <2> QED
    BY <2>2, <2>4, <2>5
<1>3. IsSeq(t) /\ DOMAIN t = 1..(Len(s) - n)
  BY <1>2, SeqIn, SeqLen
<1>4. g[0] = h[n] /\ g[Len(t)] = h[Len(s)]
  <2>1. g[0] = h[n + 0] /\ n + 0 = n /\ g[Len(s) - n] = h[n + (Len(s) - n)]
        /\ n + (Len(s) - n) = Len(s)
    BY <1>1
  <2> HIDE DEF g, t
  <2> QED
    BY <1>2, <2>1
<1>5. ASSUME NEW i \in DOMAIN t
      PROVE  <<g[i - 1], t[i], g[i]>> \in R
  <2>1. i \in 1..(Len(s) - n) /\ t[i] = s[n + i]
    BY <1>2, <1>3
  <2>2. /\ g[i] = h[n + i] /\ g[i - 1] = h[n + (i - 1)]
        /\ n + (i - 1) = (n + i) - 1 /\ n + i \in DOMAIN s
    <3> HIDE DEF t
    <3> QED
      BY <1>1, <2>1
  <2>3. <<h[(n + i) - 1], s[n + i], h[n + i]>> \in R
    BY <2>2
  <2> HIDE DEF g, t
  <2> QED
    BY <2>1, <2>2, <2>3
<1> HIDE DEF g, t
<1> QED
  BY <1>3, <1>4, <1>5 DEF Leads, t

-----------------------------------------------------------------------------
(* The parser.  What an item of the grammar does is how many values it takes  *)
(* and leaves; the work left to do is a way from item to item.                *)

\* How many values there are above the list of declarations, and how many of
\* them the innermost active handler goes back to: -1 when there is none.
Heights == {d \in [height : Nat, base : Nat \cup {-1}] : d.base <= d.height}
At(height, base) == [height |-> height, base |-> base]
Bottom == At(0, -1)

\* The values a function is left by its caller: none, one or two; it leaves one
\* in their place.
NoValue == LevelRules \cup
  {"declaration", "path", "typeDeclaration", "varDeclaration", "letDeclaration",
   "statement", "block", "loop", "annotation", "expression", "unary", "primary",
   "match", "arm", "pattern", "type"}
OneValue == LevelLoops \cup
  {"pathSegments", "structuralAttributes", "schema", "moduleOf", "functionAttributes",
   "parameters", "typeParameters", "recordDeclaration", "fields", "enumDeclaration",
   "variants", "statements", "expressions", "name", "fieldAccesses", "recordLiteral",
   "recordValues", "arms", "names", "bindings", "genericType"}
TwoValues == {"function", "genericParameters"}
Gets(rule) == IF rule \in OneValue THEN 1 ELSE IF rule \in TwoValues THEN 2 ELSE 0

\* Only a declaration is called where no handler is active.
Calls(d, rule, k) ==
  /\ rule \in RuleNames
  /\ IF rule = "parse" THEN d = Bottom /\ k = Bottom
     ELSE /\ d.height = (k.height - 1) + Gets(rule) /\ k.height # 0 /\ k.base < k.height
          /\ d.base # -1 \/ rule = "declaration"

\* The values an alternative finds.
Taken(d, alternative) ==
  IF alternative.takes = "leaf" THEN At(d.height + 1, d.base) ELSE d

\* What an item does to the heights, given what T knows of the items in it.
\* Only the mark of a handler changes the base.
Moves(T, d, item, k) ==
  /\ d \in Heights /\ k \in Heights
  /\ item.op # "catch" => k.base = d.base
  /\ \/ item.op = "consume" /\ k.height = IF item.keep THEN d.height + 1 ELSE d.height
     \/ item.op = "call" /\ Calls(d, item.rule, k)
     \/ /\ item.op = "build" /\ item.n \in Nat
        /\ k.height # 0 /\ d.height = (k.height - 1) + item.n
     \/ item.op = "push" /\ k.height = d.height + 1
     \/ item.op = "drop" /\ item.n \in Nat /\ d.height = k.height + item.n
     \/ item.op = "append" /\ d.height = k.height + 1
     \/ item.op \in {"report", "look", "synchronize"} /\ k = d
     \/ item.op = "throw" /\ d.base # -1
     \/ /\ item.op = "catch" /\ item.height = d.height
        /\ k.height = d.height /\ d.base = d.height - 1 /\ k.base <= d.base
     \/ item.op = "when" /\ Leads(T, d, item.yes, k) /\ Leads(T, d, item.no, k)
     \/ /\ item.op = "switch" /\ DOMAIN item.alternatives \subseteq Nat
        /\ \A i \in DOMAIN item.alternatives :
              Leads(T, Taken(d, item.alternatives[i]), item.alternatives[i].items, k)
        /\ Leads(T, d, item.otherwise, k)

\* What T knows of an item is so.
Typed(T) == \A d, item, k : <<d, item, k>> \in T => Moves(T, d, item, k)

\* What an item, and what a list of items, does to the heights.
Goes(d, item, k) == \E T : Typed(T) /\ <<d, item, k>> \in T
Runs(d, items, k) == \E T : Typed(T) /\ Leads(T, d, items, k)

\* A larger set knows no less.
LEMMA MovesMore ==
  ASSUME NEW T, NEW Q, \A x \in T : x \in Q, NEW d, NEW item, NEW k, Moves(T, d, item, k)
  PROVE  Moves(Q, d, item, k)
<1>1. \A a, s, b : Leads(T, a, s, b) => Leads(Q, a, s, b)
  BY LeadsMore
<1> QED
  BY <1>1 DEF Moves

\* What several sets know, one set knows.
LEMMA TypedUnion ==
  ASSUME NEW F, \A T \in F : Typed(T)
  PROVE  Typed(UNION F)
<1> SUFFICES ASSUME NEW d, NEW item, NEW k, <<d, item, k>> \in UNION F
             PROVE  Moves(UNION F, d, item, k)
  BY DEF Typed
<1>1. PICK T \in F : <<d, item, k>> \in T
  OBVIOUS
<1>2. Moves(T, d, item, k)
  BY <1>1 DEF Typed
<1>3. \A x \in T : x \in UNION F
  OBVIOUS
<1> QED
  BY <1>2, <1>3, MovesMore

\* An item goes as it moves, once the lists in it run.
LEMMA GoesByMoves ==
  ASSUME NEW T, Typed(T), NEW d, NEW item, NEW k, Moves(T, d, item, k)
  PROVE  Goes(d, item, k)
<1> DEFINE Q == T \cup {<<d, item, k>>}
<1>1. \A x \in T : x \in Q
  OBVIOUS
<1>2. \A d1, i1, k1 : <<d1, i1, k1>> \in Q => Moves(T, d1, i1, k1)
  BY DEF Typed
<1> HIDE DEF Q
<1>3. Typed(Q)
  BY <1>1, <1>2, MovesMore DEF Typed
<1>4. <<d, item, k>> \in Q
  BY DEF Q
<1> QED
  BY <1>3, <1>4 DEF Goes

\* An item that goes moves, by what some set knows.
LEMMA MovesByGoes ==
  ASSUME NEW d, NEW item, NEW k, Goes(d, item, k)
  PROVE  \E T : Typed(T) /\ Moves(T, d, item, k)
  BY DEF Goes, Typed

\* An item that does nothing with lists goes as it moves.
LEMMA Goes0 ==
  ASSUME NEW d, NEW item, NEW k, Moves({}, d, item, k)
  PROVE  Goes(d, item, k)
<1>1. Typed({})
  BY DEF Typed
<1> QED
  BY <1>1, GoesByMoves

\* Nothing to do moves nothing.
LEMMA RunsNone ==
  ASSUME NEW d
  PROVE  Runs(d, <<>>, d)
<1>1. Typed({})
  BY DEF Typed
<1> QED
  BY <1>1, LeadsNone DEF Runs

\* One item.
LEMMA RunsOne ==
  ASSUME NEW d, NEW item, NEW k, Goes(d, item, k)
  PROVE  Runs(d, <<item>>, k)
  BY LeadsOne DEF Runs, Goes

\* One list after the other.
LEMMA RunsCat ==
  ASSUME NEW d, NEW s, NEW m, NEW t, NEW k, Runs(d, s, m), Runs(m, t, k)
  PROVE  Runs(d, s \o t, k)
<1>1. PICK S : Typed(S) /\ Leads(S, d, s, m)
  BY DEF Runs
<1>2. PICK T : Typed(T) /\ Leads(T, m, t, k)
  BY DEF Runs
<1> DEFINE Q == UNION {S, T}
<1>3. Typed(Q)
  <2>1. \A R \in {S, T} : Typed(R)
    BY <1>1, <1>2
  <2> QED
    BY <2>1, TypedUnion
<1>4. (\A x \in S : x \in Q) /\ (\A x \in T : x \in Q)
  OBVIOUS
<1> HIDE DEF Q
<1>5. Leads(Q, d, s, m)
  BY <1>1, <1>4, LeadsMore
<1>6. Leads(Q, m, t, k)
  BY <1>2, <1>4, LeadsMore
<1> QED
  BY <1>3, <1>5, <1>6, LeadsCat DEF Runs

\* The first item, and what is left after it.
LEMMA RunsTail ==
  ASSUME NEW d, NEW s, s # <<>>, NEW k, Runs(d, s, k)
  PROVE  \E m : Goes(d, Head(s), m) /\ Runs(m, Tail(s), k)
<1>1. PICK T : Typed(T) /\ Leads(T, d, s, k)
  BY DEF Runs
<1>2. PICK m : <<d, Head(s), m>> \in T /\ Leads(T, m, Tail(s), k)
  BY <1>1, LeadsTail
<1> QED
  BY <1>1, <1>2 DEF Runs, Goes

\* A choice by a test.
LEMMA GoesWhen ==
  ASSUME NEW d \in Heights, NEW k \in Heights, k.base = d.base, NEW test, NEW yes, NEW no,
         Runs(d, yes, k), Runs(d, no, k)
  PROVE  Goes(d, When(test, yes, no), k)
<1>1. PICK S : Typed(S) /\ Leads(S, d, yes, k)
  BY DEF Runs
<1>2. PICK T : Typed(T) /\ Leads(T, d, no, k)
  BY DEF Runs
<1> DEFINE Q == UNION {S, T}
           item == When(test, yes, no)
<1>3. Typed(Q)
  <2>1. \A R \in {S, T} : Typed(R)
    BY <1>1, <1>2
  <2> QED
    BY <2>1, TypedUnion
<1>4. (\A x \in S : x \in Q) /\ (\A x \in T : x \in Q)
  OBVIOUS
<1> HIDE DEF Q
<1>5. Leads(Q, d, yes, k) /\ Leads(Q, d, no, k)
  BY <1>1, <1>2, <1>4, LeadsMore
<1>6. item.op = "when" /\ item.yes = yes /\ item.no = no
  BY DEF When
<1> HIDE DEF item
<1>7. Moves(Q, d, item, k)
  BY <1>5, <1>6 DEF Moves
<1>8. Goes(d, item, k)
  BY <1>3, <1>7, GoesByMoves
<1> QED
  BY <1>8 DEF item

\* A choice by the token: each alternative finds the values as they were, or
\* the token on them.
LEMMA GoesSwitch ==
  ASSUME NEW d \in Heights, NEW k \in Heights, k.base = d.base,
         NEW alternatives, DOMAIN alternatives \subseteq Nat, NEW otherwise,
         \A i \in DOMAIN alternatives :
            Runs(Taken(d, alternatives[i]), alternatives[i].items, k),
         Runs(d, otherwise, k)
  PROVE  Goes(d, Switch(alternatives, otherwise), k)
<1> DEFINE Knows(i) == CHOOSE T : Typed(T)
                         /\ Leads(T, Taken(d, alternatives[i]), alternatives[i].items, k)
           item == Switch(alternatives, otherwise)
<1>1. PICK S : Typed(S) /\ Leads(S, d, otherwise, k)
  BY DEF Runs
<1>2. ASSUME NEW i \in DOMAIN alternatives
      PROVE  /\ Typed(Knows(i))
             /\ Leads(Knows(i), Taken(d, alternatives[i]), alternatives[i].items, k)
  BY DEF Runs
<1> HIDE DEF Knows
<1> DEFINE F == {S} \cup {Knows(i) : i \in DOMAIN alternatives}
           Q == UNION F
<1>3. \A R \in F : Typed(R)
  BY <1>1, <1>2
<1>4. \A R \in F : \A x \in R : x \in Q
  OBVIOUS
<1>5. S \in F /\ \A i \in DOMAIN alternatives : Knows(i) \in F
  OBVIOUS
<1> HIDE DEF F
<1>6. Typed(Q)
  BY <1>3, TypedUnion
<1> HIDE DEF Q
<1>7. Leads(Q, d, otherwise, k)
  BY <1>1, <1>4, <1>5, LeadsMore
<1>8. ASSUME NEW i \in DOMAIN alternatives
      PROVE  Leads(Q, Taken(d, alternatives[i]), alternatives[i].items, k)
  BY <1>2, <1>4, <1>5, LeadsMore
<1>9. item.op = "switch" /\ item.alternatives = alternatives /\ item.otherwise = otherwise
  BY DEF Switch
<1> HIDE DEF item
<1>10. Moves(Q, d, item, k)
  BY <1>7, <1>8, <1>9 DEF Moves
<1>11. Goes(d, item, k)
  BY <1>6, <1>10, GoesByMoves
<1> QED
  BY <1>11 DEF item

\* The rules of the grammar are called under a handler; what they do is said
\* from the values that are left alone, of which there are c.height.
Caught == {c \in Heights : c.base # -1}
Above(c, n) == At(c.height + n, c.base)
Turns(c, n, item, m) == Goes(Above(c, n), item, Above(c, m))
Does(c, n, items, m) == Runs(Above(c, n), items, Above(c, m))

\* Heights above a handler are heights, all of the same handler.
LEMMA AboveIsHeight ==
  ASSUME NEW c \in Caught, NEW n \in Nat
  PROVE  /\ Above(c, n) \in Heights /\ Above(c, n).base = c.base /\ c.base # -1
         /\ Above(c, n).height = c.height + n /\ c.height \in Nat
         /\ c.base \in Nat /\ c.base <= c.height
  BY DEF Caught, Heights, Above, At

\* A token is consumed.
LEMMA Consumes ==
  ASSUME NEW c \in Caught, NEW n \in Nat, NEW type
  PROVE  Turns(c, n, Expect(type), n) /\ Turns(c, n, Keep(type), n + 1)
<1>1. Moves({}, Above(c, n), Expect(type), Above(c, n))
  BY AboveIsHeight DEF Moves, Expect
<1>2. n + 1 \in Nat
  OBVIOUS
<1>3. Above(c, n + 1).height = Above(c, n).height + 1
  BY <1>2, AboveIsHeight
<1>4. Moves({}, Above(c, n), Keep(type), Above(c, n + 1))
  BY <1>2, <1>3, AboveIsHeight DEF Moves, Keep
<1> QED
  BY <1>1, <1>4, Goes0 DEF Turns

\* A value is pushed.
LEMMA Pushes ==
  ASSUME NEW c \in Caught, NEW n \in Nat, NEW tree
  PROVE  Turns(c, n, Push(tree), n + 1)
<1>2. n + 1 \in Nat
  OBVIOUS
<1>3. Above(c, n + 1).height = Above(c, n).height + 1
  BY <1>2, AboveIsHeight
<1>4. Moves({}, Above(c, n), Push(tree), Above(c, n + 1))
  BY <1>2, <1>3, AboveIsHeight DEF Moves, Push
<1> QED
  BY <1>4, Goes0 DEF Turns

\* Values become the parts of one.
LEMMA Builds ==
  ASSUME NEW c \in Caught, NEW n \in Nat, NEW kind, NEW p \in Nat
  PROVE  Turns(c, n + p, Build(kind, p), n + 1)
<1>2. n + 1 \in Nat /\ n + p \in Nat
  OBVIOUS
<1>3. Above(c, n + p).height = (Above(c, n + 1).height - 1) + p /\ Above(c, n + 1).height # 0
  BY <1>2, AboveIsHeight
<1>4. Moves({}, Above(c, n + p), Build(kind, p), Above(c, n + 1))
  BY <1>2, <1>3, AboveIsHeight DEF Moves, Build
<1> QED
  BY <1>4, Goes0 DEF Turns

\* Values are dropped.
LEMMA Drops ==
  ASSUME NEW c \in Caught, NEW n \in Nat, NEW p \in Nat
  PROVE  Turns(c, n + p, Drop(p), n)
<1>2. n + p \in Nat
  OBVIOUS
<1>3. Above(c, n + p).height = Above(c, n).height + p
  BY <1>2, AboveIsHeight
<1>4. Moves({}, Above(c, n + p), Drop(p), Above(c, n))
  BY <1>2, <1>3, AboveIsHeight DEF Moves, Drop
<1> QED
  BY <1>4, Goes0 DEF Turns

\* A value joins the list under it.
LEMMA Appends ==
  ASSUME NEW c \in Caught, NEW n \in Nat
  PROVE  Turns(c, n + 1, AppendToList, n)
<1>2. n + 1 \in Nat
  OBVIOUS
<1>3. Above(c, n + 1).height = Above(c, n).height + 1
  BY <1>2, AboveIsHeight
<1>4. Moves({}, Above(c, n + 1), AppendToList, Above(c, n))
  BY <1>2, <1>3, AboveIsHeight DEF Moves, AppendToList
<1> QED
  BY <1>4, Goes0 DEF Turns

\* A report, and a look at the token after this one, leave the values alone.
LEMMA LeavesAlone ==
  ASSUME NEW c \in Caught, NEW n \in Nat
  PROVE  Turns(c, n, Report, n) /\ Turns(c, n, LookAhead, n)
<1>1. Moves({}, Above(c, n), Report, Above(c, n))
  BY AboveIsHeight DEF Moves, Report
<1>2. Moves({}, Above(c, n), LookAhead, Above(c, n))
  BY AboveIsHeight DEF Moves, LookAhead
<1> QED
  BY <1>1, <1>2, Goes0 DEF Turns

\* A throw leads anywhere: what follows it is not done.
LEMMA Throws ==
  ASSUME NEW c \in Caught, NEW n \in Nat, NEW m \in Nat
  PROVE  Turns(c, n, Throw, m)
<1>1. Moves({}, Above(c, n), Throw, Above(c, m))
  BY AboveIsHeight DEF Moves, Throw
<1> QED
  BY <1>1, Goes0 DEF Turns

\* A function leaves one value in the place of those it gets.
LEMMA CallsTurn ==
  ASSUME NEW c \in Caught, NEW n \in Nat, NEW rule \in RuleNames, rule # "parse"
  PROVE  Turns(c, n + Gets(rule), Call(rule), n + 1)
<1>1. Gets(rule) \in Nat
  BY DEF Gets
<1>2. n + 1 \in Nat /\ n + Gets(rule) \in Nat
  BY <1>1
<1>3. Above(c, n + Gets(rule)).height = (Above(c, n + 1).height - 1) + Gets(rule)
      /\ Above(c, n + 1).height # 0 /\ Above(c, n + 1).base < Above(c, n + 1).height
  BY <1>1, <1>2, AboveIsHeight
<1>4. Calls(Above(c, n + Gets(rule)), rule, Above(c, n + 1))
  BY <1>2, <1>3, AboveIsHeight DEF Calls
<1>5. Moves({}, Above(c, n + Gets(rule)), Call(rule), Above(c, n + 1))
  BY <1>2, <1>4, AboveIsHeight DEF Moves, Call
<1> QED
  BY <1>5, Goes0 DEF Turns

\* A choice by a test.
LEMMA Chooses ==
  ASSUME NEW c \in Caught, NEW n \in Nat, NEW m \in Nat, NEW test, NEW yes, NEW no,
         Does(c, n, yes, m), Does(c, n, no, m)
  PROVE  Turns(c, n, When(test, yes, no), m)
  BY AboveIsHeight, GoesWhen DEF Turns, Does

\* An alternative, from the values with the token on them or without it.
Alternative(c, n, alternative, m) ==
  Runs(Taken(Above(c, n), alternative), alternative.items, Above(c, m))

\* A choice by the token.
LEMMA Switches ==
  ASSUME NEW c \in Caught, NEW n \in Nat, NEW m \in Nat,
         NEW alternatives, DOMAIN alternatives \subseteq Nat, NEW otherwise,
         \A i \in DOMAIN alternatives : Alternative(c, n, alternatives[i], m),
         Does(c, n, otherwise, m)
  PROVE  Turns(c, n, Switch(alternatives, otherwise), m)
<1>1. Goes(Above(c, n), Switch(alternatives, otherwise), Above(c, m))
  BY AboveIsHeight, GoesSwitch DEF Alternative, Does
<1> QED
  BY <1>1 DEF Turns

\* The three kinds of alternatives.
LEMMA Alternatives ==
  ASSUME NEW c \in Caught, NEW n \in Nat, NEW m, NEW types, NEW items
  PROVE  /\ Does(c, n, items, m) => Alternative(c, n, Match(types, items), m)
         /\ Does(c, n, items, m) => Alternative(c, n, Check(types, items), m)
         /\ Does(c, n + 1, items, m) => Alternative(c, n, MatchKeep(types, items), m)
<1>1. /\ Taken(Above(c, n), Match(types, items)) = Above(c, n)
      /\ Match(types, items).items = items
  BY DEF Taken, Match
<1>2. /\ Taken(Above(c, n), Check(types, items)) = Above(c, n)
      /\ Check(types, items).items = items
  BY DEF Taken, Check
<1>3. /\ Taken(Above(c, n), MatchKeep(types, items)) = Above(c, n + 1)
      /\ MatchKeep(types, items).items = items
  <2>1. /\ MatchKeep(types, items).takes = "leaf"
        /\ MatchKeep(types, items).items = items
    BY DEF MatchKeep
  <2>2. At(Above(c, n).height + 1, Above(c, n).base) = Above(c, n + 1)
    <3>1. /\ Above(c, n).height = c.height + n /\ Above(c, n).base = c.base
          /\ c.height \in Nat
      BY AboveIsHeight
    <3>2. (c.height + n) + 1 = c.height + (n + 1)
      BY <3>1
    <3> QED
      BY <3>1, <3>2 DEF Above
  <2> QED
    BY <2>1, <2>2 DEF Taken
<1> QED
  BY <1>1, <1>2, <1>3 DEF Alternative, Does

-----------------------------------------------------------------------------
(* Lists of items, one after the other, and alternatives.                     *)

\* One item, and one before others.
LEMMA OneItem ==
  ASSUME NEW c, NEW n, NEW a, NEW m, Turns(c, n, a, m)
  PROVE  Does(c, n, <<a>>, m)
  BY RunsOne DEF Turns, Does

\* One item before others.
LEMMA ItemBefore ==
  ASSUME NEW c, NEW n, NEW a, NEW m, NEW s, NEW k, Turns(c, n, a, m), Does(c, m, s, k)
  PROVE  Does(c, n, <<a>> \o s, k)
<1>1. Runs(Above(c, n), <<a>>, Above(c, m))
  BY RunsOne DEF Turns
<1> QED
  BY <1>1, RunsCat DEF Does

\* No item changes nothing.
LEMMA NoItems ==
  ASSUME NEW c, NEW n
  PROVE  Does(c, n, <<>>, n)
  BY RunsNone DEF Does

\* Two items, one after the other.
LEMMA TwoItems ==
  ASSUME NEW c, NEW n0, NEW a1, NEW n1, NEW a2, NEW n2, Turns(c, n0, a1, n1),
         Turns(c, n1, a2, n2)
  PROVE  Does(c, n0, <<a1, a2>>, n2)
<1>1. Does(c, n1, <<a2>>, n2)
  BY OneItem
<1>2. <<a1, a2>> = <<a1>> \o <<a2>>
  OBVIOUS
<1>3. Does(c, n0, <<a1>> \o <<a2>>, n2)
  BY <1>1, ItemBefore
<1> QED
  BY <1>2, <1>3

\* Three items, one after the other.
LEMMA ThreeItems ==
  ASSUME NEW c, NEW n0, NEW a1, NEW n1, NEW a2, NEW n2, NEW a3, NEW n3,
         Turns(c, n0, a1, n1), Turns(c, n1, a2, n2), Turns(c, n2, a3, n3)
  PROVE  Does(c, n0, <<a1, a2, a3>>, n3)
<1>1. Does(c, n1, <<a2, a3>>, n3)
  BY TwoItems
<1>2. <<a1, a2, a3>> = <<a1>> \o <<a2, a3>>
  OBVIOUS
<1>3. Does(c, n0, <<a1>> \o <<a2, a3>>, n3)
  BY <1>1, ItemBefore
<1> QED
  BY <1>2, <1>3

\* Four items, one after the other.
LEMMA FourItems ==
  ASSUME NEW c, NEW n0, NEW a1, NEW n1, NEW a2, NEW n2, NEW a3, NEW n3, NEW a4, NEW n4,
         Turns(c, n0, a1, n1), Turns(c, n1, a2, n2), Turns(c, n2, a3, n3),
         Turns(c, n3, a4, n4)
  PROVE  Does(c, n0, <<a1, a2, a3, a4>>, n4)
<1>1. Does(c, n1, <<a2, a3, a4>>, n4)
  BY ThreeItems
<1>2. <<a1, a2, a3, a4>> = <<a1>> \o <<a2, a3, a4>>
  OBVIOUS
<1>3. Does(c, n0, <<a1>> \o <<a2, a3, a4>>, n4)
  BY <1>1, ItemBefore
<1> QED
  BY <1>2, <1>3

\* Five items, one after the other.
LEMMA FiveItems ==
  ASSUME NEW c, NEW n0, NEW a1, NEW n1, NEW a2, NEW n2, NEW a3, NEW n3, NEW a4, NEW n4,
         NEW a5, NEW n5, Turns(c, n0, a1, n1), Turns(c, n1, a2, n2), Turns(c, n2, a3, n3),
         Turns(c, n3, a4, n4), Turns(c, n4, a5, n5)
  PROVE  Does(c, n0, <<a1, a2, a3, a4, a5>>, n5)
<1>1. Does(c, n1, <<a2, a3, a4, a5>>, n5)
  BY FourItems
<1>2. <<a1, a2, a3, a4, a5>> = <<a1>> \o <<a2, a3, a4, a5>>
  OBVIOUS
<1>3. Does(c, n0, <<a1>> \o <<a2, a3, a4, a5>>, n5)
  BY <1>1, ItemBefore
<1> QED
  BY <1>2, <1>3

\* Six items, one after the other.
LEMMA SixItems ==
  ASSUME NEW c, NEW n0, NEW a1, NEW n1, NEW a2, NEW n2, NEW a3, NEW n3, NEW a4, NEW n4,
         NEW a5, NEW n5, NEW a6, NEW n6, Turns(c, n0, a1, n1), Turns(c, n1, a2, n2),
         Turns(c, n2, a3, n3), Turns(c, n3, a4, n4), Turns(c, n4, a5, n5),
         Turns(c, n5, a6, n6)
  PROVE  Does(c, n0, <<a1, a2, a3, a4, a5, a6>>, n6)
<1>1. Does(c, n1, <<a2, a3, a4, a5, a6>>, n6)
  BY FiveItems
<1>2. <<a1, a2, a3, a4, a5, a6>> = <<a1>> \o <<a2, a3, a4, a5, a6>>
  OBVIOUS
<1>3. Does(c, n0, <<a1>> \o <<a2, a3, a4, a5, a6>>, n6)
  BY <1>1, ItemBefore
<1> QED
  BY <1>2, <1>3

\* Seven items, one after the other.
LEMMA SevenItems ==
  ASSUME NEW c, NEW n0, NEW a1, NEW n1, NEW a2, NEW n2, NEW a3, NEW n3, NEW a4, NEW n4,
         NEW a5, NEW n5, NEW a6, NEW n6, NEW a7, NEW n7, Turns(c, n0, a1, n1),
         Turns(c, n1, a2, n2), Turns(c, n2, a3, n3), Turns(c, n3, a4, n4),
         Turns(c, n4, a5, n5), Turns(c, n5, a6, n6), Turns(c, n6, a7, n7)
  PROVE  Does(c, n0, <<a1, a2, a3, a4, a5, a6, a7>>, n7)
<1>1. Does(c, n1, <<a2, a3, a4, a5, a6, a7>>, n7)
  BY SixItems
<1>2. <<a1, a2, a3, a4, a5, a6, a7>> = <<a1>> \o <<a2, a3, a4, a5, a6, a7>>
  OBVIOUS
<1>3. Does(c, n0, <<a1>> \o <<a2, a3, a4, a5, a6, a7>>, n7)
  BY <1>1, ItemBefore
<1> QED
  BY <1>2, <1>3

\* Eight items, one after the other.
LEMMA EightItems ==
  ASSUME NEW c, NEW n0, NEW a1, NEW n1, NEW a2, NEW n2, NEW a3, NEW n3, NEW a4, NEW n4,
         NEW a5, NEW n5, NEW a6, NEW n6, NEW a7, NEW n7, NEW a8, NEW n8,
         Turns(c, n0, a1, n1), Turns(c, n1, a2, n2), Turns(c, n2, a3, n3),
         Turns(c, n3, a4, n4), Turns(c, n4, a5, n5), Turns(c, n5, a6, n6),
         Turns(c, n6, a7, n7), Turns(c, n7, a8, n8)
  PROVE  Does(c, n0, <<a1, a2, a3, a4, a5, a6, a7, a8>>, n8)
<1>1. Does(c, n1, <<a2, a3, a4, a5, a6, a7, a8>>, n8)
  BY SevenItems
<1>2. <<a1, a2, a3, a4, a5, a6, a7, a8>> = <<a1>> \o <<a2, a3, a4, a5, a6, a7, a8>>
  OBVIOUS
<1>3. Does(c, n0, <<a1>> \o <<a2, a3, a4, a5, a6, a7, a8>>, n8)
  BY <1>1, ItemBefore
<1> QED
  BY <1>2, <1>3

\* Nine items, one after the other.
LEMMA NineItems ==
  ASSUME NEW c, NEW n0, NEW a1, NEW n1, NEW a2, NEW n2, NEW a3, NEW n3, NEW a4, NEW n4,
         NEW a5, NEW n5, NEW a6, NEW n6, NEW a7, NEW n7, NEW a8, NEW n8, NEW a9, NEW n9,
         Turns(c, n0, a1, n1), Turns(c, n1, a2, n2), Turns(c, n2, a3, n3),
         Turns(c, n3, a4, n4), Turns(c, n4, a5, n5), Turns(c, n5, a6, n6),
         Turns(c, n6, a7, n7), Turns(c, n7, a8, n8), Turns(c, n8, a9, n9)
  PROVE  Does(c, n0, <<a1, a2, a3, a4, a5, a6, a7, a8, a9>>, n9)
<1>1. Does(c, n1, <<a2, a3, a4, a5, a6, a7, a8, a9>>, n9)
  BY EightItems
<1>2. <<a1, a2, a3, a4, a5, a6, a7, a8, a9>> = <<a1>> \o <<a2, a3, a4, a5, a6, a7, a8, a9>>
  OBVIOUS
<1>3. Does(c, n0, <<a1>> \o <<a2, a3, a4, a5, a6, a7, a8, a9>>, n9)
  BY <1>1, ItemBefore
<1> QED
  BY <1>2, <1>3

\* A switch of one alternative.
LEMMA OneOf ==
  ASSUME NEW c \in Caught, NEW n \in Nat, NEW m \in Nat, NEW otherwise,
         Does(c, n, otherwise, m), NEW a1, Alternative(c, n, a1, m)
  PROVE  Turns(c, n, Switch(<<a1>>, otherwise), m)
<1> DEFINE alternatives == <<a1>>
<1>1. DOMAIN alternatives = 1..1 /\ DOMAIN alternatives \subseteq Nat
  OBVIOUS
<1>2. alternatives[1] = a1
  OBVIOUS
<1> HIDE DEF alternatives
<1>3. \A i \in 1..1 : i = 1
  OBVIOUS
<1>4. \A i \in DOMAIN alternatives : Alternative(c, n, alternatives[i], m)
  BY <1>1, <1>2, <1>3
<1>5. Turns(c, n, Switch(alternatives, otherwise), m)
  BY <1>1, <1>4, Switches
<1> QED
  BY <1>5 DEF alternatives

\* A switch of two alternatives.
LEMMA TwoOf ==
  ASSUME NEW c \in Caught, NEW n \in Nat, NEW m \in Nat, NEW otherwise,
         Does(c, n, otherwise, m), NEW a1, Alternative(c, n, a1, m), NEW a2,
         Alternative(c, n, a2, m)
  PROVE  Turns(c, n, Switch(<<a1, a2>>, otherwise), m)
<1> DEFINE alternatives == <<a1, a2>>
<1>1. DOMAIN alternatives = 1..2 /\ DOMAIN alternatives \subseteq Nat
  OBVIOUS
<1>2. alternatives[1] = a1 /\ alternatives[2] = a2
  OBVIOUS
<1> HIDE DEF alternatives
<1>3. \A i \in 1..2 : i = 1 \/ i = 2
  OBVIOUS
<1>4. \A i \in DOMAIN alternatives : Alternative(c, n, alternatives[i], m)
  BY <1>1, <1>2, <1>3
<1>5. Turns(c, n, Switch(alternatives, otherwise), m)
  BY <1>1, <1>4, Switches
<1> QED
  BY <1>5 DEF alternatives

\* A switch of three alternatives.
LEMMA ThreeOf ==
  ASSUME NEW c \in Caught, NEW n \in Nat, NEW m \in Nat, NEW otherwise,
         Does(c, n, otherwise, m), NEW a1, Alternative(c, n, a1, m), NEW a2,
         Alternative(c, n, a2, m), NEW a3, Alternative(c, n, a3, m)
  PROVE  Turns(c, n, Switch(<<a1, a2, a3>>, otherwise), m)
<1> DEFINE alternatives == <<a1, a2, a3>>
<1>1. DOMAIN alternatives = 1..3 /\ DOMAIN alternatives \subseteq Nat
  OBVIOUS
<1>2. alternatives[1] = a1 /\ alternatives[2] = a2 /\ alternatives[3] = a3
  OBVIOUS
<1> HIDE DEF alternatives
<1>3. \A i \in 1..3 : i = 1 \/ i = 2 \/ i = 3
  OBVIOUS
<1>4. \A i \in DOMAIN alternatives : Alternative(c, n, alternatives[i], m)
  BY <1>1, <1>2, <1>3
<1>5. Turns(c, n, Switch(alternatives, otherwise), m)
  BY <1>1, <1>4, Switches
<1> QED
  BY <1>5 DEF alternatives

\* A switch of five alternatives.
LEMMA FiveOf ==
  ASSUME NEW c \in Caught, NEW n \in Nat, NEW m \in Nat, NEW otherwise,
         Does(c, n, otherwise, m), NEW a1, Alternative(c, n, a1, m), NEW a2,
         Alternative(c, n, a2, m), NEW a3, Alternative(c, n, a3, m), NEW a4,
         Alternative(c, n, a4, m), NEW a5, Alternative(c, n, a5, m)
  PROVE  Turns(c, n, Switch(<<a1, a2, a3, a4, a5>>, otherwise), m)
<1> DEFINE alternatives == <<a1, a2, a3, a4, a5>>
<1>1. DOMAIN alternatives = 1..5 /\ DOMAIN alternatives \subseteq Nat
  OBVIOUS
<1>2. /\ alternatives[1] = a1 /\ alternatives[2] = a2 /\ alternatives[3] = a3
      /\ alternatives[4] = a4 /\ alternatives[5] = a5
  OBVIOUS
<1> HIDE DEF alternatives
<1>3. \A i \in 1..5 : i = 1 \/ i = 2 \/ i = 3 \/ i = 4 \/ i = 5
  OBVIOUS
<1>4. \A i \in DOMAIN alternatives : Alternative(c, n, alternatives[i], m)
  BY <1>1, <1>2, <1>3
<1>5. Turns(c, n, Switch(alternatives, otherwise), m)
  BY <1>1, <1>4, Switches
<1> QED
  BY <1>5 DEF alternatives

\* A switch of seven alternatives.
LEMMA SevenOf ==
  ASSUME NEW c \in Caught, NEW n \in Nat, NEW m \in Nat, NEW otherwise,
         Does(c, n, otherwise, m), NEW a1, Alternative(c, n, a1, m), NEW a2,
         Alternative(c, n, a2, m), NEW a3, Alternative(c, n, a3, m), NEW a4,
         Alternative(c, n, a4, m), NEW a5, Alternative(c, n, a5, m), NEW a6,
         Alternative(c, n, a6, m), NEW a7, Alternative(c, n, a7, m)
  PROVE  Turns(c, n, Switch(<<a1, a2, a3, a4, a5, a6, a7>>, otherwise), m)
<1> DEFINE alternatives == <<a1, a2, a3, a4, a5, a6, a7>>
<1>1. DOMAIN alternatives = 1..7 /\ DOMAIN alternatives \subseteq Nat
  OBVIOUS
<1>2. /\ alternatives[1] = a1 /\ alternatives[2] = a2 /\ alternatives[3] = a3
      /\ alternatives[4] = a4 /\ alternatives[5] = a5 /\ alternatives[6] = a6
      /\ alternatives[7] = a7
  OBVIOUS
<1> HIDE DEF alternatives
<1>3. \A i \in 1..7 : i = 1 \/ i = 2 \/ i = 3 \/ i = 4 \/ i = 5 \/ i = 6 \/ i = 7
  OBVIOUS
<1>4. \A i \in DOMAIN alternatives : Alternative(c, n, alternatives[i], m)
  BY <1>1, <1>2, <1>3
<1>5. Turns(c, n, Switch(alternatives, otherwise), m)
  BY <1>1, <1>4, Switches
<1> QED
  BY <1>5 DEF alternatives

\* The levels of the binary operators, by the names of their rules.
LEMMA LevelNames ==
  /\ LevelRules = {"logicalOr", "logicalAnd", "equality", "comparison", "term", "factor"}
  /\ LevelLoops = {"orLoop", "andLoop", "equalityLoop", "comparisonLoop", "termLoop",
                   "factorLoop"}
<1> DEFINE L == DOMAIN Levels
<1>1. L = {1, 2, 3, 4, 5, 6}
  BY DEF Levels
<1>2. /\ Levels[1].rule = "logicalOr" /\ Levels[1].loop = "orLoop"
      /\ Levels[2].rule = "logicalAnd" /\ Levels[2].loop = "andLoop"
      /\ Levels[3].rule = "equality" /\ Levels[3].loop = "equalityLoop"
      /\ Levels[4].rule = "comparison" /\ Levels[4].loop = "comparisonLoop"
      /\ Levels[5].rule = "term" /\ Levels[5].loop = "termLoop"
      /\ Levels[6].rule = "factor" /\ Levels[6].loop = "factorLoop"
  BY DEF Levels
<1>3. LevelRules = {Levels[k].rule : k \in L} /\ LevelLoops = {Levels[k].loop : k \in L}
  BY DEF LevelRules, LevelLoops
<1> HIDE DEF L
<1>4. LevelRules = {Levels[1].rule, Levels[2].rule, Levels[3].rule, Levels[4].rule,
                    Levels[5].rule, Levels[6].rule}
  BY <1>1, <1>3
<1>5. LevelLoops = {Levels[1].loop, Levels[2].loop, Levels[3].loop, Levels[4].loop,
                    Levels[5].loop, Levels[6].loop}
  BY <1>1, <1>3
<1> QED
  BY <1>2, <1>4, <1>5

\* Every rule but parse finds none, one or two values.
LEMMA GetsValues ==
  /\ RuleNames = {"parse"} \cup NoValue \cup OneValue \cup TwoValues
  /\ \A rule \in NoValue : rule # "parse" /\ Gets(rule) = 0
  /\ \A rule \in OneValue : rule # "parse" /\ Gets(rule) = 1
  /\ \A rule \in TwoValues : rule # "parse" /\ Gets(rule) = 2
<1>1. RuleNames = {"parse"} \cup NoValue \cup OneValue \cup TwoValues
  BY DEF RuleNames, NoValue, OneValue, TwoValues
<1>2. \A rule \in NoValue : rule # "parse" /\ rule \notin OneValue /\ rule \notin TwoValues
  BY LevelNames DEF NoValue, OneValue, TwoValues
<1>3. \A rule \in OneValue : rule # "parse"
  BY LevelNames DEF OneValue
<1>4. \A rule \in TwoValues : rule # "parse" /\ rule \notin OneValue
  BY LevelNames DEF OneValue, TwoValues
<1> QED
  BY <1>1, <1>2, <1>3, <1>4 DEF Gets

\* Calls, by how many values the function finds.
LEMMA CallsOnNone ==
  ASSUME NEW c \in Caught, NEW n \in Nat, NEW m \in Nat, m = n + 1, NEW rule \in NoValue
  PROVE  Turns(c, n, Call(rule), m)
<1>1. rule \in RuleNames /\ rule # "parse" /\ Gets(rule) = 0 /\ n + 0 = n
  BY GetsValues
<1> QED
  BY <1>1, CallsTurn

\* A function that is left one value.
LEMMA CallsOnOne ==
  ASSUME NEW c \in Caught, NEW n \in Nat, n # 0, NEW rule \in OneValue
  PROVE  Turns(c, n, Call(rule), n)
<1>1. rule \in RuleNames /\ rule # "parse" /\ Gets(rule) = 1
  BY GetsValues
<1>2. n - 1 \in Nat /\ (n - 1) + 1 = n
  OBVIOUS
<1> QED
  BY <1>1, <1>2, CallsTurn

\* A function that is left two values.
LEMMA CallsOnTwo ==
  ASSUME NEW c \in Caught, NEW n \in Nat, NEW m \in Nat, n = m + 1, m # 0,
         NEW rule \in TwoValues
  PROVE  Turns(c, n, Call(rule), m)
<1>1. rule \in RuleNames /\ rule # "parse" /\ Gets(rule) = 2
  BY GetsValues
<1>2. m - 1 \in Nat /\ (m - 1) + 1 = m /\ (m - 1) + 2 = n
  OBVIOUS
<1> QED
  BY <1>1, <1>2, CallsTurn

\* The items that do nothing with lists.
LEMMA Simple ==
  ASSUME NEW c \in Caught, NEW n \in Nat
  PROVE  /\ \A type : Turns(c, n, Expect(type), n)
         /\ Turns(c, n, Report, n) /\ Turns(c, n, LookAhead, n)
         /\ \A m \in Nat : /\ Turns(c, n, Throw, m)
                           /\ m = n + 1 => \A type : Turns(c, n, Keep(type), m)
                           /\ m = n + 1 => \A tree : Turns(c, n, Push(tree), m)
                           /\ n = m + 1 => Turns(c, n, AppendToList, m)
                           /\ \A p \in Nat : n = m + p => Turns(c, n, Drop(p), m)
                           /\ \A kind : \A p \in Nat :
                                m # 0 /\ n = (m - 1) + p => Turns(c, n, Build(kind, p), m)
<1>1. \A kind : \A m \in Nat : \A p \in Nat :
        m # 0 /\ n = (m - 1) + p => Turns(c, n, Build(kind, p), m)
  <2> SUFFICES ASSUME NEW kind, NEW m \in Nat, NEW p \in Nat, m # 0, n = (m - 1) + p
               PROVE  Turns(c, n, Build(kind, p), m)
    OBVIOUS
  <2>1. m - 1 \in Nat /\ (m - 1) + 1 = m
    OBVIOUS
  <2> QED
    BY <2>1, Builds
<1>2. \A m \in Nat : Turns(c, n, Throw, m)
  BY Throws
<1>3. \A m \in Nat : n = m + 1 => Turns(c, n, AppendToList, m)
  BY Appends
<1>4. \A m \in Nat : \A p \in Nat : n = m + p => Turns(c, n, Drop(p), m)
  BY Drops
<1>5. \A m \in Nat : m = n + 1 => \A type : Turns(c, n, Keep(type), m)
  BY Consumes
<1>6. \A m \in Nat : m = n + 1 => \A tree : Turns(c, n, Push(tree), m)
  BY Pushes
<1>7. (\A type : Turns(c, n, Expect(type), n)) /\ Turns(c, n, Report, n)
      /\ Turns(c, n, LookAhead, n)
  BY Consumes, LeavesAlone
<1> QED
  BY <1>1, <1>2, <1>3, <1>4, <1>5, <1>6, <1>7

\* if (match(types)) items, with a null pointer otherwise, and if not.
LEMMA Optionals ==
  ASSUME NEW c \in Caught, NEW n \in Nat, NEW types, NEW items
  PROVE  /\ Does(c, n, items, n) => Turns(c, n, Optional(types, items), n)
         /\ \A m \in Nat : m = n + 1 /\ Does(c, n, items, m)
                              => Turns(c, n, OrAbsent(types, items), m)
         /\ \A type : Does(c, n, items, n) => Turns(c, n, Unless(type, items), n)
<1>1. Does(c, n, <<>>, n)
  BY NoItems
<1>2. ASSUME Does(c, n, items, n) PROVE Turns(c, n, Optional(types, items), n)
  BY <1>1, <1>2, Alternatives, OneOf DEF Optional
<1>3. ASSUME NEW m \in Nat, m = n + 1, Does(c, n, items, m)
      PROVE  Turns(c, n, OrAbsent(types, items), m)
  <2>1. Does(c, n, <<Push(Absent)>>, m)
    BY <1>3, Simple, OneItem
  <2>2. Alternative(c, n, Match(types, items), m)
    BY <1>3, Alternatives
  <2> QED
    BY <1>3, <2>1, <2>2, OneOf DEF OrAbsent
<1>4. ASSUME NEW type, Does(c, n, items, n) PROVE Turns(c, n, Unless(type, items), n)
  <2>1. Alternative(c, n, Check({type}, <<>>), n)
    BY <1>1, Alternatives
  <2> QED
    BY <1>4, <2>1, OneOf DEF Unless
<1> QED
  BY <1>2, <1>3, <1>4

\* One list after the other.
LEMMA ListAfterList ==
  ASSUME NEW c, NEW n, NEW s, NEW m, NEW t, NEW k, Does(c, n, s, m), Does(c, m, t, k)
  PROVE  Does(c, n, s \o t, k)
  BY RunsCat DEF Does

-----------------------------------------------------------------------------
(* What each rule of the grammar does.                                        *)

\* A condition in parentheses.
LEMMA ConditionDoes ==
  ASSUME NEW c \in Caught, NEW n \in Nat, NEW m \in Nat, m = n + 1
  PROVE  Does(c, n, Condition, m)
<1>1. /\ Turns(c, n, Expect("LParen"), n)
      /\ Turns(c, m, Expect("RParen"), m)
  BY Simple
<1>2. Turns(c, n, Call("expression"), m)
  BY CallsOnNone DEF NoValue
<1> QED
  BY <1>1, <1>2, ThreeItems DEF Condition

\* declaration.
LEMMA DeclarationDoes ==
  ASSUME NEW c \in Caught
  PROVE  Does(c, 0, Declaration, 1)
<1>1. Turns(c, 2, Switch(<<Match({"Module"}, <<Drop(2), Call("path"), Expect("Semicolon"),
      Build("Module", 1)>>), Match({"Import"}, <<Drop(2), Call("path"),
      Expect("Semicolon"), Build("Import", 1)>>), Match({"Type"}, <<Drop(2),
      Call("typeDeclaration")>>), Match({"Record"}, <<Drop(1),
      Call("recordDeclaration")>>), Match({"Enum"}, <<Drop(1),
      Call("enumDeclaration")>>)>>, <<When(HasAttributes(1), <<Report>>, <<>>),
      Switch(<<Match({"Fn"}, <<Call("function")>>)>>, <<When(HasAttributes(0), <<Report>>,
      <<>>), Drop(2), Switch(<<Match({"Var"}, <<Call("varDeclaration")>>),
      Match({"Let"}, <<Call("letDeclaration")>>)>>, <<Call("statement")>>)>>)>>), 1)
  <2>1. Does(c, 2, <<Drop(2), Call("path"), Expect("Semicolon"), Build("Module", 1)>>, 1)
    <3>1. /\ Turns(c, 2, Drop(2), 0)
          /\ Turns(c, 0, Call("path"), 1)
          /\ Turns(c, 1, Expect("Semicolon"), 1)
          /\ Turns(c, 1, Build("Module", 1), 1)
      BY Simple, CallsOnNone DEF NoValue
    <3> QED
      BY <3>1, FourItems
  <2>2. Does(c, 2, <<Drop(2), Call("path"), Expect("Semicolon"), Build("Import", 1)>>, 1)
    <3>1. /\ Turns(c, 2, Drop(2), 0)
          /\ Turns(c, 0, Call("path"), 1)
          /\ Turns(c, 1, Expect("Semicolon"), 1)
          /\ Turns(c, 1, Build("Import", 1), 1)
      BY Simple, CallsOnNone DEF NoValue
    <3> QED
      BY <3>1, FourItems
  <2>3. Does(c, 2, <<Drop(2), Call("typeDeclaration")>>, 1)
    <3>1. /\ Turns(c, 2, Drop(2), 0)
          /\ Turns(c, 0, Call("typeDeclaration"), 1)
      BY Simple, CallsOnNone DEF NoValue
    <3> QED
      BY <3>1, TwoItems
  <2>4. Does(c, 2, <<Drop(1), Call("recordDeclaration")>>, 1)
    <3>1. /\ Turns(c, 2, Drop(1), 1)
          /\ Turns(c, 1, Call("recordDeclaration"), 1)
      BY Simple, CallsOnOne DEF OneValue
    <3> QED
      BY <3>1, TwoItems
  <2>5. Does(c, 2, <<Drop(1), Call("enumDeclaration")>>, 1)
    <3>1. /\ Turns(c, 2, Drop(1), 1)
          /\ Turns(c, 1, Call("enumDeclaration"), 1)
      BY Simple, CallsOnOne DEF OneValue
    <3> QED
      BY <3>1, TwoItems
  <2>6. Does(c, 2, <<When(HasAttributes(1), <<Report>>, <<>>),
        Switch(<<Match({"Fn"}, <<Call("function")>>)>>, <<When(HasAttributes(0),
        <<Report>>, <<>>), Drop(2), Switch(<<Match({"Var"}, <<Call("varDeclaration")>>),
        Match({"Let"}, <<Call("letDeclaration")>>)>>, <<Call("statement")>>)>>)>>, 1)
    <3>1. Turns(c, 2, When(HasAttributes(1), <<Report>>, <<>>), 2)
      <4>1. Does(c, 2, <<Report>>, 2)
        BY Simple, OneItem
      <4> QED
        BY <4>1, NoItems, Chooses
    <3>2. Turns(c, 2, Switch(<<Match({"Fn"}, <<Call("function")>>)>>,
          <<When(HasAttributes(0), <<Report>>, <<>>), Drop(2),
          Switch(<<Match({"Var"}, <<Call("varDeclaration")>>),
          Match({"Let"}, <<Call("letDeclaration")>>)>>, <<Call("statement")>>)>>), 1)
      <4>1. Does(c, 2, <<Call("function")>>, 1)
        BY CallsOnTwo, OneItem DEF TwoValues
      <4>2. Does(c, 2, <<When(HasAttributes(0), <<Report>>, <<>>), Drop(2),
            Switch(<<Match({"Var"}, <<Call("varDeclaration")>>),
            Match({"Let"}, <<Call("letDeclaration")>>)>>, <<Call("statement")>>)>>, 1)
        <5>1. Turns(c, 2, When(HasAttributes(0), <<Report>>, <<>>), 2)
          <6>1. Does(c, 2, <<Report>>, 2)
            BY Simple, OneItem
          <6> QED
            BY <6>1, NoItems, Chooses
        <5>2. Turns(c, 0, Switch(<<Match({"Var"}, <<Call("varDeclaration")>>),
              Match({"Let"}, <<Call("letDeclaration")>>)>>, <<Call("statement")>>), 1)
          <6>1. Does(c, 0, <<Call("varDeclaration")>>, 1)
            BY CallsOnNone, OneItem DEF NoValue
          <6>2. Does(c, 0, <<Call("letDeclaration")>>, 1)
            BY CallsOnNone, OneItem DEF NoValue
          <6>3. Does(c, 0, <<Call("statement")>>, 1)
            BY CallsOnNone, OneItem DEF NoValue
          <6> QED
            BY <6>1, <6>2, <6>3, Alternatives, TwoOf
        <5>3. Turns(c, 2, Drop(2), 0)
          BY Simple
        <5> QED
          BY <5>1, <5>2, <5>3, ThreeItems
      <4> QED
        BY <4>1, <4>2, Alternatives, OneOf
    <3> QED
      BY <3>1, <3>2, TwoItems
  <2> QED
    BY <2>1, <2>2, <2>3, <2>4, <2>5, <2>6, Alternatives, FiveOf
<1>2. /\ Turns(c, 0, Push(NoStructural), 1)
      /\ Turns(c, 1, Call("structuralAttributes"), 1)
      /\ Turns(c, 1, Push(NoAttributes), 2)
      /\ Turns(c, 2, Call("functionAttributes"), 2)
  BY Simple, CallsOnOne DEF OneValue
<1> QED
  BY <1>1, <1>2, FiveItems DEF Declaration

\* module_declaration: path.
LEMMA PathDoes ==
  ASSUME NEW c \in Caught
  PROVE  Does(c, 0, Path, 1)
<1>1. /\ Turns(c, 0, Keep("Identifier"), 1)
      /\ Turns(c, 1, Call("pathSegments"), 1)
  BY Simple, CallsOnOne DEF OneValue
<1> QED
  BY <1>1, TwoItems DEF Path

\* import_declaration: path segments.
LEMMA PathSegmentsDoes ==
  ASSUME NEW c \in Caught
  PROVE  Does(c, 1, PathSegments, 1)
<1>1. Turns(c, 1, Optional({"Dot"}, <<Keep("Identifier"), Build("Path", 2),
      Call("pathSegments")>>), 1)
  <2>1. Does(c, 1, <<Keep("Identifier"), Build("Path", 2), Call("pathSegments")>>, 1)
    <3>1. /\ Turns(c, 1, Keep("Identifier"), 2)
          /\ Turns(c, 2, Build("Path", 2), 1)
          /\ Turns(c, 1, Call("pathSegments"), 1)
      BY Simple, CallsOnOne DEF OneValue
    <3> QED
      BY <3>1, ThreeItems
  <2> QED
    BY <2>1, Optionals
<1> QED
  BY <1>1, OneItem DEF PathSegments

\* parse_structural_attributes: structural.
LEMMA StructuralDoes ==
  ASSUME NEW c \in Caught
  PROVE  Does(c, 1, StructuralRule, 1)
<1>1. Turns(c, 1, Switch(<<Check({"At"}, <<LookAhead, When(IsAttribute({"schema",
      "module"}), <<Expect("At"), Keep("Identifier"), Expect("LParen"),
      When(Reads("schema"), <<Drop(1), Call("schema")>>, <<Drop(1), Call("moduleOf")>>),
      Expect("RParen"), Call("structuralAttributes")>>, <<>>)>>)>>, <<>>), 1)
  <2>1. Does(c, 1, <<LookAhead, When(IsAttribute({"schema", "module"}), <<Expect("At"),
        Keep("Identifier"), Expect("LParen"), When(Reads("schema"), <<Drop(1),
        Call("schema")>>, <<Drop(1), Call("moduleOf")>>), Expect("RParen"),
        Call("structuralAttributes")>>, <<>>)>>, 1)
    <3>1. Turns(c, 1, When(IsAttribute({"schema", "module"}), <<Expect("At"),
          Keep("Identifier"), Expect("LParen"), When(Reads("schema"), <<Drop(1),
          Call("schema")>>, <<Drop(1), Call("moduleOf")>>), Expect("RParen"),
          Call("structuralAttributes")>>, <<>>), 1)
      <4>1. Does(c, 1, <<Expect("At"), Keep("Identifier"), Expect("LParen"),
            When(Reads("schema"), <<Drop(1), Call("schema")>>, <<Drop(1),
            Call("moduleOf")>>), Expect("RParen"), Call("structuralAttributes")>>, 1)
        <5>1. Turns(c, 2, When(Reads("schema"), <<Drop(1), Call("schema")>>, <<Drop(1),
              Call("moduleOf")>>), 1)
          <6>1. Does(c, 2, <<Drop(1), Call("schema")>>, 1)
            <7>1. /\ Turns(c, 2, Drop(1), 1)
                  /\ Turns(c, 1, Call("schema"), 1)
              BY Simple, CallsOnOne DEF OneValue
            <7> QED
              BY <7>1, TwoItems
          <6>2. Does(c, 2, <<Drop(1), Call("moduleOf")>>, 1)
            <7>1. /\ Turns(c, 2, Drop(1), 1)
                  /\ Turns(c, 1, Call("moduleOf"), 1)
              BY Simple, CallsOnOne DEF OneValue
            <7> QED
              BY <7>1, TwoItems
          <6> QED
            BY <6>1, <6>2, Chooses
        <5>2. /\ Turns(c, 1, Expect("At"), 1)
              /\ Turns(c, 1, Keep("Identifier"), 2)
              /\ Turns(c, 2, Expect("LParen"), 2)
              /\ Turns(c, 1, Expect("RParen"), 1)
              /\ Turns(c, 1, Call("structuralAttributes"), 1)
          BY Simple, CallsOnOne DEF OneValue
        <5> QED
          BY <5>1, <5>2, SixItems
      <4> QED
        BY <4>1, NoItems, Chooses
    <3>2. Turns(c, 1, LookAhead, 1)
      BY Simple
    <3> QED
      BY <3>1, <3>2, TwoItems
  <2> QED
    BY <2>1, NoItems, Alternatives, OneOf
<1> QED
  BY <1>1, OneItem DEF StructuralRule

\* parse_structural_attributes: schema.
LEMMA SchemaDoes ==
  ASSUME NEW c \in Caught
  PROVE  Does(c, 1, SchemaRule, 1)
<1>1. Turns(c, 1, When(HasPart(1), <<Report>>, <<>>), 1)
  <2>1. Does(c, 1, <<Report>>, 1)
    BY Simple, OneItem
  <2> QED
    BY <2>1, NoItems, Chooses
<1>2. Turns(c, 2, When(IsPositive, <<Build("WithSchema", 2)>>, <<Report, Drop(1)>>), 1)
  <2>1. Does(c, 2, <<Build("WithSchema", 2)>>, 1)
    BY Simple, OneItem
  <2>2. Does(c, 2, <<Report, Drop(1)>>, 1)
    <3>1. /\ Turns(c, 2, Report, 2)
          /\ Turns(c, 2, Drop(1), 1)
      BY Simple
    <3> QED
      BY <3>1, TwoItems
  <2> QED
    BY <2>1, <2>2, Chooses
<1>3. Turns(c, 1, Keep("Integer"), 2)
  BY Simple
<1> QED
  BY <1>1, <1>2, <1>3, ThreeItems DEF SchemaRule

\* parse_structural_attributes: module of.
LEMMA ModuleOfDoes ==
  ASSUME NEW c \in Caught
  PROVE  Does(c, 1, ModuleOfRule, 1)
<1>1. Turns(c, 1, When(HasPart(2), <<Report>>, <<>>), 1)
  <2>1. Does(c, 1, <<Report>>, 1)
    BY Simple, OneItem
  <2> QED
    BY <2>1, NoItems, Chooses
<1>2. /\ Turns(c, 1, Call("path"), 2)
      /\ Turns(c, 2, Build("WithModule", 2), 1)
  BY Simple, CallsOnNone DEF NoValue
<1> QED
  BY <1>1, <1>2, ThreeItems DEF ModuleOfRule

\* parse_function_attributes: function attributes.
LEMMA FunctionAttributesDoes ==
  ASSUME NEW c \in Caught
  PROVE  Does(c, 1, FunctionAttributesRule, 1)
<1>1. Turns(c, 1, Switch(<<Check({"At"}, <<LookAhead, When(IsAttribute({"effect",
      "tier"}), <<Expect("At"), Keep("Identifier"), When(Reads("effect"),
      <<Build("WithEffect", 2)>>, <<Drop(1), Expect("LParen"), Keep("Integer"),
      Expect("RParen"), When(IsPositive, <<Build("WithTier", 2)>>, <<Report,
      Drop(1)>>)>>), Call("functionAttributes")>>, <<>>)>>)>>, <<>>), 1)
  <2>1. Does(c, 1, <<LookAhead, When(IsAttribute({"effect", "tier"}), <<Expect("At"),
        Keep("Identifier"), When(Reads("effect"), <<Build("WithEffect", 2)>>, <<Drop(1),
        Expect("LParen"), Keep("Integer"), Expect("RParen"), When(IsPositive,
        <<Build("WithTier", 2)>>, <<Report, Drop(1)>>)>>), Call("functionAttributes")>>,
        <<>>)>>, 1)
    <3>1. Turns(c, 1, When(IsAttribute({"effect", "tier"}), <<Expect("At"),
          Keep("Identifier"), When(Reads("effect"), <<Build("WithEffect", 2)>>, <<Drop(1),
          Expect("LParen"), Keep("Integer"), Expect("RParen"), When(IsPositive,
          <<Build("WithTier", 2)>>, <<Report, Drop(1)>>)>>), Call("functionAttributes")>>,
          <<>>), 1)
      <4>1. Does(c, 1, <<Expect("At"), Keep("Identifier"), When(Reads("effect"),
            <<Build("WithEffect", 2)>>, <<Drop(1), Expect("LParen"), Keep("Integer"),
            Expect("RParen"), When(IsPositive, <<Build("WithTier", 2)>>, <<Report,
            Drop(1)>>)>>), Call("functionAttributes")>>, 1)
        <5>1. Turns(c, 2, When(Reads("effect"), <<Build("WithEffect", 2)>>, <<Drop(1),
              Expect("LParen"), Keep("Integer"), Expect("RParen"), When(IsPositive,
              <<Build("WithTier", 2)>>, <<Report, Drop(1)>>)>>), 1)
          <6>1. Does(c, 2, <<Build("WithEffect", 2)>>, 1)
            BY Simple, OneItem
          <6>2. Does(c, 2, <<Drop(1), Expect("LParen"), Keep("Integer"), Expect("RParen"),
                When(IsPositive, <<Build("WithTier", 2)>>, <<Report, Drop(1)>>)>>, 1)
            <7>1. Turns(c, 2, When(IsPositive, <<Build("WithTier", 2)>>, <<Report,
                  Drop(1)>>), 1)
              <8>1. Does(c, 2, <<Build("WithTier", 2)>>, 1)
                BY Simple, OneItem
              <8>2. Does(c, 2, <<Report, Drop(1)>>, 1)
                <9>1. /\ Turns(c, 2, Report, 2)
                      /\ Turns(c, 2, Drop(1), 1)
                  BY Simple
                <9> QED
                  BY <9>1, TwoItems
              <8> QED
                BY <8>1, <8>2, Chooses
            <7>2. /\ Turns(c, 2, Drop(1), 1)
                  /\ Turns(c, 1, Expect("LParen"), 1)
                  /\ Turns(c, 1, Keep("Integer"), 2)
                  /\ Turns(c, 2, Expect("RParen"), 2)
              BY Simple
            <7> QED
              BY <7>1, <7>2, FiveItems
          <6> QED
            BY <6>1, <6>2, Chooses
        <5>2. /\ Turns(c, 1, Expect("At"), 1)
              /\ Turns(c, 1, Keep("Identifier"), 2)
              /\ Turns(c, 1, Call("functionAttributes"), 1)
          BY Simple, CallsOnOne DEF OneValue
        <5> QED
          BY <5>1, <5>2, FourItems
      <4> QED
        BY <4>1, NoItems, Chooses
    <3>2. Turns(c, 1, LookAhead, 1)
      BY Simple
    <3> QED
      BY <3>1, <3>2, TwoItems
  <2> QED
    BY <2>1, NoItems, Alternatives, OneOf
<1> QED
  BY <1>1, OneItem DEF FunctionAttributesRule

\* function.
LEMMA FunctionDoes ==
  ASSUME NEW c \in Caught
  PROVE  Does(c, 2, Function, 1)
<1>1. Turns(c, 4, Unless("RParen", <<Call("parameters")>>), 4)
  <2>1. Does(c, 4, <<Call("parameters")>>, 4)
    BY CallsOnOne, OneItem DEF OneValue
  <2> QED
    BY <2>1, Optionals
<1>2. Turns(c, 4, OrAbsent({"Arrow"}, <<Call("type")>>), 5)
  <2>1. Does(c, 4, <<Call("type")>>, 5)
    BY CallsOnNone, OneItem DEF NoValue
  <2> QED
    BY <2>1, Optionals
<1>3. /\ Turns(c, 2, Keep("Identifier"), 3)
      /\ Turns(c, 3, Expect("LParen"), 3)
      /\ Turns(c, 3, Push(None), 4)
      /\ Turns(c, 4, Expect("RParen"), 4)
      /\ Turns(c, 5, Expect("LBrace"), 5)
      /\ Turns(c, 5, Call("block"), 6)
      /\ Turns(c, 6, Build("Function", 6), 1)
  BY Simple, CallsOnNone DEF NoValue
<1> QED
  BY <1>1, <1>2, <1>3, NineItems DEF Function

\* function: parameters.
LEMMA ParametersDoes ==
  ASSUME NEW c \in Caught
  PROVE  Does(c, 1, Parameters, 1)
<1>1. Turns(c, 1, When(Full(MaxParameters), <<Report>>, <<>>), 1)
  <2>1. Does(c, 1, <<Report>>, 1)
    BY Simple, OneItem
  <2> QED
    BY <2>1, NoItems, Chooses
<1>2. Turns(c, 1, Optional({"Comma"}, <<Call("parameters")>>), 1)
  <2>1. Does(c, 1, <<Call("parameters")>>, 1)
    BY CallsOnOne, OneItem DEF OneValue
  <2> QED
    BY <2>1, Optionals
<1>3. /\ Turns(c, 1, Keep("Identifier"), 2)
      /\ Turns(c, 2, Expect("Colon"), 2)
      /\ Turns(c, 2, Call("type"), 3)
      /\ Turns(c, 3, Build("Pair", 2), 2)
      /\ Turns(c, 2, AppendToList, 1)
  BY Simple, CallsOnNone DEF NoValue
<1> QED
  BY <1>1, <1>2, <1>3, SevenItems DEF Parameters

\* type_declaration.
LEMMA TypeDeclarationDoes ==
  ASSUME NEW c \in Caught
  PROVE  Does(c, 0, TypeDeclaration, 1)
<1>1. Turns(c, 2, Optional({"LBracket"}, <<Call("typeParameters"), Expect("RBracket")>>),
      2)
  <2>1. Does(c, 2, <<Call("typeParameters"), Expect("RBracket")>>, 2)
    <3>1. /\ Turns(c, 2, Call("typeParameters"), 2)
          /\ Turns(c, 2, Expect("RBracket"), 2)
      BY Simple, CallsOnOne DEF OneValue
    <3> QED
      BY <3>1, TwoItems
  <2> QED
    BY <2>1, Optionals
<1>2. /\ Turns(c, 0, Keep("Identifier"), 1)
      /\ Turns(c, 1, Push(None), 2)
      /\ Turns(c, 2, Expect("Equal"), 2)
      /\ Turns(c, 2, Call("type"), 3)
      /\ Turns(c, 3, Expect("Semicolon"), 3)
      /\ Turns(c, 3, Build("Type", 3), 1)
  BY Simple, CallsOnNone DEF NoValue
<1> QED
  BY <1>1, <1>2, SevenItems DEF TypeDeclaration

\* type_declaration: type parameters.
LEMMA TypeParametersDoes ==
  ASSUME NEW c \in Caught
  PROVE  Does(c, 1, TypeParameters, 1)
<1>1. Turns(c, 1, When(Full(MaxGeneric), <<Report>>, <<Keep("Identifier"), AppendToList,
      Optional({"Comma"}, <<Call("typeParameters")>>)>>), 1)
  <2>1. Does(c, 1, <<Report>>, 1)
    BY Simple, OneItem
  <2>2. Does(c, 1, <<Keep("Identifier"), AppendToList, Optional({"Comma"},
        <<Call("typeParameters")>>)>>, 1)
    <3>1. Turns(c, 1, Optional({"Comma"}, <<Call("typeParameters")>>), 1)
      <4>1. Does(c, 1, <<Call("typeParameters")>>, 1)
        BY CallsOnOne, OneItem DEF OneValue
      <4> QED
        BY <4>1, Optionals
    <3>2. /\ Turns(c, 1, Keep("Identifier"), 2)
          /\ Turns(c, 2, AppendToList, 1)
      BY Simple
    <3> QED
      BY <3>1, <3>2, ThreeItems
  <2> QED
    BY <2>1, <2>2, Chooses
<1> QED
  BY <1>1, OneItem DEF TypeParameters

\* record_declaration.
LEMMA RecordDeclarationDoes ==
  ASSUME NEW c \in Caught
  PROVE  Does(c, 1, RecordDeclaration, 1)
<1>1. /\ Turns(c, 1, Keep("Identifier"), 2)
      /\ Turns(c, 2, Expect("LBrace"), 2)
      /\ Turns(c, 2, Push(None), 3)
      /\ Turns(c, 3, Call("fields"), 3)
      /\ Turns(c, 3, Expect("RBrace"), 3)
      /\ Turns(c, 3, Expect("Semicolon"), 3)
      /\ Turns(c, 3, Build("Record", 3), 1)
  BY Simple, CallsOnOne DEF OneValue
<1> QED
  BY <1>1, SevenItems DEF RecordDeclaration

\* record_declaration: fields.
LEMMA FieldsDoes ==
  ASSUME NEW c \in Caught
  PROVE  Does(c, 1, Fields, 1)
<1>1. Turns(c, 1, Switch(<<Check({"RBrace", "Eof"}, <<>>)>>, <<Keep("Identifier"),
      Expect("Colon"), Call("type"), Expect("Semicolon"), Build("Pair", 2), AppendToList,
      Call("fields")>>), 1)
  <2>1. Does(c, 1, <<Keep("Identifier"), Expect("Colon"), Call("type"),
        Expect("Semicolon"), Build("Pair", 2), AppendToList, Call("fields")>>, 1)
    <3>1. /\ Turns(c, 1, Keep("Identifier"), 2)
          /\ Turns(c, 2, Expect("Colon"), 2)
          /\ Turns(c, 2, Call("type"), 3)
          /\ Turns(c, 3, Expect("Semicolon"), 3)
          /\ Turns(c, 3, Build("Pair", 2), 2)
          /\ Turns(c, 2, AppendToList, 1)
          /\ Turns(c, 1, Call("fields"), 1)
      BY Simple, CallsOnNone, CallsOnOne DEF NoValue, OneValue
    <3> QED
      BY <3>1, SevenItems
  <2> QED
    BY <2>1, NoItems, Alternatives, OneOf
<1> QED
  BY <1>1, OneItem DEF Fields

\* enum_declaration.
LEMMA EnumDeclarationDoes ==
  ASSUME NEW c \in Caught
  PROVE  Does(c, 1, EnumDeclaration, 1)
<1>1. /\ Turns(c, 1, Keep("Identifier"), 2)
      /\ Turns(c, 2, Expect("LBrace"), 2)
      /\ Turns(c, 2, Push(None), 3)
      /\ Turns(c, 3, Call("variants"), 3)
      /\ Turns(c, 3, Expect("RBrace"), 3)
      /\ Turns(c, 3, Expect("Semicolon"), 3)
      /\ Turns(c, 3, Build("Enum", 3), 1)
  BY Simple, CallsOnOne DEF OneValue
<1> QED
  BY <1>1, SevenItems DEF EnumDeclaration

\* enum_declaration: variants.
LEMMA VariantsDoes ==
  ASSUME NEW c \in Caught
  PROVE  Does(c, 1, Variants, 1)
<1>1. Turns(c, 1, Switch(<<Check({"RBrace", "Eof"}, <<>>)>>, <<Keep("Identifier"),
      OrAbsent({"LParen"}, <<Call("type"), Expect("RParen")>>), Expect("Semicolon"),
      Build("Pair", 2), AppendToList, Call("variants")>>), 1)
  <2>1. Does(c, 1, <<Keep("Identifier"), OrAbsent({"LParen"}, <<Call("type"),
        Expect("RParen")>>), Expect("Semicolon"), Build("Pair", 2), AppendToList,
        Call("variants")>>, 1)
    <3>1. Turns(c, 2, OrAbsent({"LParen"}, <<Call("type"), Expect("RParen")>>), 3)
      <4>1. Does(c, 2, <<Call("type"), Expect("RParen")>>, 3)
        <5>1. /\ Turns(c, 2, Call("type"), 3)
              /\ Turns(c, 3, Expect("RParen"), 3)
          BY Simple, CallsOnNone DEF NoValue
        <5> QED
          BY <5>1, TwoItems
      <4> QED
        BY <4>1, Optionals
    <3>2. /\ Turns(c, 1, Keep("Identifier"), 2)
          /\ Turns(c, 3, Expect("Semicolon"), 3)
          /\ Turns(c, 3, Build("Pair", 2), 2)
          /\ Turns(c, 2, AppendToList, 1)
          /\ Turns(c, 1, Call("variants"), 1)
      BY Simple, CallsOnOne DEF OneValue
    <3> QED
      BY <3>1, <3>2, SixItems
  <2> QED
    BY <2>1, NoItems, Alternatives, OneOf
<1> QED
  BY <1>1, OneItem DEF Variants

\* var_declaration.
LEMMA VarDeclarationDoes ==
  ASSUME NEW c \in Caught
  PROVE  Does(c, 0, VarDeclaration, 1)
<1>1. Turns(c, 1, OrAbsent({"Colon"}, <<Call("type")>>), 2)
  <2>1. Does(c, 1, <<Call("type")>>, 2)
    BY CallsOnNone, OneItem DEF NoValue
  <2> QED
    BY <2>1, Optionals
<1>2. Turns(c, 2, OrAbsent({"Equal"}, <<Call("expression")>>), 3)
  <2>1. Does(c, 2, <<Call("expression")>>, 3)
    BY CallsOnNone, OneItem DEF NoValue
  <2> QED
    BY <2>1, Optionals
<1>3. /\ Turns(c, 0, Keep("Identifier"), 1)
      /\ Turns(c, 3, Expect("Semicolon"), 3)
      /\ Turns(c, 3, Build("Var", 3), 1)
  BY Simple
<1> QED
  BY <1>1, <1>2, <1>3, FiveItems DEF VarDeclaration

\* let_declaration.
LEMMA LetDeclarationDoes ==
  ASSUME NEW c \in Caught
  PROVE  Does(c, 0, LetDeclaration, 1)
<1>1. Turns(c, 1, OrAbsent({"Colon"}, <<Call("type")>>), 2)
  <2>1. Does(c, 1, <<Call("type")>>, 2)
    BY CallsOnNone, OneItem DEF NoValue
  <2> QED
    BY <2>1, Optionals
<1>2. /\ Turns(c, 0, Keep("Identifier"), 1)
      /\ Turns(c, 2, Expect("Equal"), 2)
      /\ Turns(c, 2, Call("expression"), 3)
      /\ Turns(c, 3, Expect("Semicolon"), 3)
      /\ Turns(c, 3, Build("Let", 3), 1)
  BY Simple, CallsOnNone DEF NoValue
<1> QED
  BY <1>1, <1>2, SixItems DEF LetDeclaration

\* statement.
LEMMA StatementDoes ==
  ASSUME NEW c \in Caught
  PROVE  Does(c, 0, Statement, 1)
<1>1. Turns(c, 0, Switch(<<Match({"If"}, Condition \o <<Call("statement"),
      OrAbsent({"Else"}, <<Call("statement")>>), Build("If", 3)>>),
      Match({"While"}, Condition \o <<Call("statement"), Build("While", 2)>>),
      Check({"At", "Loop"}, <<Call("loop")>>), Match({"Break"}, <<Expect("Semicolon"),
      Build("Break", 0)>>), Match({"Continue"}, <<Expect("Semicolon"),
      Build("Continue", 0)>>),
      Match({"Return"}, <<Switch(<<Check({"Semicolon"}, <<Push(Absent)>>)>>,
      <<Call("expression")>>), Expect("Semicolon"), Build("Return", 1)>>),
      Match({"LBrace"}, <<Call("block"), Build("Block", 1)>>)>>, <<Call("expression"),
      Expect("Semicolon"), Build("Expression", 1)>>), 1)
  <2>1. Does(c, 0, Condition \o <<Call("statement"), OrAbsent({"Else"},
        <<Call("statement")>>), Build("If", 3)>>, 1)
    <3>1. Does(c, 0, Condition, 1)
      BY ConditionDoes
    <3>2. Does(c, 1, <<Call("statement"), OrAbsent({"Else"}, <<Call("statement")>>),
          Build("If", 3)>>, 1)
      <4>1. Turns(c, 2, OrAbsent({"Else"}, <<Call("statement")>>), 3)
        <5>1. Does(c, 2, <<Call("statement")>>, 3)
          BY CallsOnNone, OneItem DEF NoValue
        <5> QED
          BY <5>1, Optionals
      <4>2. /\ Turns(c, 1, Call("statement"), 2)
            /\ Turns(c, 3, Build("If", 3), 1)
        BY Simple, CallsOnNone DEF NoValue
      <4> QED
        BY <4>1, <4>2, ThreeItems
    <3> QED
      BY <3>1, <3>2, ListAfterList
  <2>2. Does(c, 0, Condition \o <<Call("statement"), Build("While", 2)>>, 1)
    <3>1. Does(c, 0, Condition, 1)
      BY ConditionDoes
    <3>2. Does(c, 1, <<Call("statement"), Build("While", 2)>>, 1)
      <4>1. /\ Turns(c, 1, Call("statement"), 2)
            /\ Turns(c, 2, Build("While", 2), 1)
        BY Simple, CallsOnNone DEF NoValue
      <4> QED
        BY <4>1, TwoItems
    <3> QED
      BY <3>1, <3>2, ListAfterList
  <2>3. Does(c, 0, <<Call("loop")>>, 1)
    BY CallsOnNone, OneItem DEF NoValue
  <2>4. Does(c, 0, <<Expect("Semicolon"), Build("Break", 0)>>, 1)
    <3>1. /\ Turns(c, 0, Expect("Semicolon"), 0)
          /\ Turns(c, 0, Build("Break", 0), 1)
      BY Simple
    <3> QED
      BY <3>1, TwoItems
  <2>5. Does(c, 0, <<Expect("Semicolon"), Build("Continue", 0)>>, 1)
    <3>1. /\ Turns(c, 0, Expect("Semicolon"), 0)
          /\ Turns(c, 0, Build("Continue", 0), 1)
      BY Simple
    <3> QED
      BY <3>1, TwoItems
  <2>6. Does(c, 0, <<Switch(<<Check({"Semicolon"}, <<Push(Absent)>>)>>,
        <<Call("expression")>>), Expect("Semicolon"), Build("Return", 1)>>, 1)
    <3>1. Turns(c, 0, Switch(<<Check({"Semicolon"}, <<Push(Absent)>>)>>,
          <<Call("expression")>>), 1)
      <4>1. Does(c, 0, <<Push(Absent)>>, 1)
        BY Simple, OneItem
      <4>2. Does(c, 0, <<Call("expression")>>, 1)
        BY CallsOnNone, OneItem DEF NoValue
      <4> QED
        BY <4>1, <4>2, Alternatives, OneOf
    <3>2. /\ Turns(c, 1, Expect("Semicolon"), 1)
          /\ Turns(c, 1, Build("Return", 1), 1)
      BY Simple
    <3> QED
      BY <3>1, <3>2, ThreeItems
  <2>7. Does(c, 0, <<Call("block"), Build("Block", 1)>>, 1)
    <3>1. /\ Turns(c, 0, Call("block"), 1)
          /\ Turns(c, 1, Build("Block", 1), 1)
      BY Simple, CallsOnNone DEF NoValue
    <3> QED
      BY <3>1, TwoItems
  <2>8. Does(c, 0, <<Call("expression"), Expect("Semicolon"), Build("Expression", 1)>>, 1)
    <3>1. /\ Turns(c, 0, Call("expression"), 1)
          /\ Turns(c, 1, Expect("Semicolon"), 1)
          /\ Turns(c, 1, Build("Expression", 1), 1)
      BY Simple, CallsOnNone DEF NoValue
    <3> QED
      BY <3>1, ThreeItems
  <2> QED
    BY <2>1, <2>2, <2>3, <2>4, <2>5, <2>6, <2>7, <2>8, Alternatives, SevenOf
<1> QED
  BY <1>1, OneItem DEF Statement

\* block.
LEMMA BlockDoes ==
  ASSUME NEW c \in Caught
  PROVE  Does(c, 0, Block, 1)
<1>1. /\ Turns(c, 0, Push(None), 1)
      /\ Turns(c, 1, Call("statements"), 1)
      /\ Turns(c, 1, Expect("RBrace"), 1)
  BY Simple, CallsOnOne DEF OneValue
<1> QED
  BY <1>1, ThreeItems DEF Block

\* block: statements.
LEMMA StatementsDoes ==
  ASSUME NEW c \in Caught
  PROVE  Does(c, 1, Statements, 1)
<1>1. Turns(c, 1, Switch(<<Check({"RBrace", "Eof"}, <<>>)>>, <<Call("declaration"),
      AppendToList, Call("statements")>>), 1)
  <2>1. Does(c, 1, <<Call("declaration"), AppendToList, Call("statements")>>, 1)
    <3>1. /\ Turns(c, 1, Call("declaration"), 2)
          /\ Turns(c, 2, AppendToList, 1)
          /\ Turns(c, 1, Call("statements"), 1)
      BY Simple, CallsOnNone, CallsOnOne DEF NoValue, OneValue
    <3> QED
      BY <3>1, ThreeItems
  <2> QED
    BY <2>1, NoItems, Alternatives, OneOf
<1> QED
  BY <1>1, OneItem DEF Statements

\* loop_statement: loop.
LEMMA LoopDoes ==
  ASSUME NEW c \in Caught
  PROVE  Does(c, 0, Loop, 1)
<1>1. Turns(c, 0, Switch(<<Match({"At"}, <<Call("annotation")>>)>>, <<Push(NoBound)>>), 1)
  <2>1. Does(c, 0, <<Call("annotation")>>, 1)
    BY CallsOnNone, OneItem DEF NoValue
  <2>2. Does(c, 0, <<Push(NoBound)>>, 1)
    BY Simple, OneItem
  <2> QED
    BY <2>1, <2>2, Alternatives, OneOf
<1>2. /\ Turns(c, 1, Expect("Loop"), 1)
      /\ Turns(c, 1, Expect("LBrace"), 1)
      /\ Turns(c, 1, Call("block"), 2)
      /\ Turns(c, 2, Build("Loop", 2), 1)
  BY Simple, CallsOnNone DEF NoValue
<1> QED
  BY <1>1, <1>2, FiveItems DEF Loop

\* parse_loop_annotation: annotation.
LEMMA AnnotationDoes ==
  ASSUME NEW c \in Caught
  PROVE  Does(c, 0, Annotation, 1)
<1>1. Turns(c, 1, When(Reads("bounded"), <<>>, <<Report>>), 1)
  <2>1. Does(c, 1, <<Report>>, 1)
    BY Simple, OneItem
  <2> QED
    BY <2>1, NoItems, Chooses
<1>2. Turns(c, 0, Switch(<<MatchKeep({"Identifier", "Loop"}, <<When(Reads("infinite"),
      <<Drop(1), Push(InfiniteBound)>>, <<When(Reads("loop"), <<Drop(1)>> \o Condition \o
      <<Build("Guarded", 1)>>, <<Drop(1), Report, Push(NoBound)>>)>>)>>),
      MatchKeep({"Integer"}, <<When(IsNumber, <<>>, <<Report, Drop(1), Push(Absent)>>),
      Build("Static", 1)>>)>>, <<Report, Push(NoBound)>>), 1)
  <2>1. Does(c, 1, <<When(Reads("infinite"), <<Drop(1), Push(InfiniteBound)>>,
        <<When(Reads("loop"), <<Drop(1)>> \o Condition \o <<Build("Guarded", 1)>>,
        <<Drop(1), Report, Push(NoBound)>>)>>)>>, 1)
    <3>1. Turns(c, 1, When(Reads("infinite"), <<Drop(1), Push(InfiniteBound)>>,
          <<When(Reads("loop"), <<Drop(1)>> \o Condition \o <<Build("Guarded", 1)>>,
          <<Drop(1), Report, Push(NoBound)>>)>>), 1)
      <4>1. Does(c, 1, <<Drop(1), Push(InfiniteBound)>>, 1)
        <5>1. /\ Turns(c, 1, Drop(1), 0)
              /\ Turns(c, 0, Push(InfiniteBound), 1)
          BY Simple
        <5> QED
          BY <5>1, TwoItems
      <4>2. Does(c, 1, <<When(Reads("loop"), <<Drop(1)>> \o Condition \o
            <<Build("Guarded", 1)>>, <<Drop(1), Report, Push(NoBound)>>)>>, 1)
        <5>1. Turns(c, 1, When(Reads("loop"), <<Drop(1)>> \o Condition \o
              <<Build("Guarded", 1)>>, <<Drop(1), Report, Push(NoBound)>>), 1)
          <6>1. Does(c, 1, <<Drop(1)>> \o Condition \o <<Build("Guarded", 1)>>, 1)
            <7>1. Does(c, 1, <<Drop(1)>>, 0)
              BY Simple, OneItem
            <7>2. Does(c, 0, Condition, 1)
              BY ConditionDoes
            <7>3. Does(c, 1, <<Build("Guarded", 1)>>, 1)
              BY Simple, OneItem
            <7> QED
              BY <7>1, <7>2, <7>3, ListAfterList
          <6>2. Does(c, 1, <<Drop(1), Report, Push(NoBound)>>, 1)
            <7>1. /\ Turns(c, 1, Drop(1), 0)
                  /\ Turns(c, 0, Report, 0)
                  /\ Turns(c, 0, Push(NoBound), 1)
              BY Simple
            <7> QED
              BY <7>1, ThreeItems
          <6> QED
            BY <6>1, <6>2, Chooses
        <5> QED
          BY <5>1, OneItem
      <4> QED
        BY <4>1, <4>2, Chooses
    <3> QED
      BY <3>1, OneItem
  <2>2. Does(c, 1, <<When(IsNumber, <<>>, <<Report, Drop(1), Push(Absent)>>),
        Build("Static", 1)>>, 1)
    <3>1. Turns(c, 1, When(IsNumber, <<>>, <<Report, Drop(1), Push(Absent)>>), 1)
      <4>1. Does(c, 1, <<Report, Drop(1), Push(Absent)>>, 1)
        <5>1. /\ Turns(c, 1, Report, 1)
              /\ Turns(c, 1, Drop(1), 0)
              /\ Turns(c, 0, Push(Absent), 1)
          BY Simple
        <5> QED
          BY <5>1, ThreeItems
      <4> QED
        BY <4>1, NoItems, Chooses
    <3>2. Turns(c, 1, Build("Static", 1), 1)
      BY Simple
    <3> QED
      BY <3>1, <3>2, TwoItems
  <2>3. Does(c, 0, <<Report, Push(NoBound)>>, 1)
    <3>1. /\ Turns(c, 0, Report, 0)
          /\ Turns(c, 0, Push(NoBound), 1)
      BY Simple
    <3> QED
      BY <3>1, TwoItems
  <2>4. /\ Alternative(c, 0, MatchKeep({"Identifier", "Loop"}, <<When(Reads("infinite"),
           <<Drop(1), Push(InfiniteBound)>>, <<When(Reads("loop"), <<Drop(1)>> \o
           Condition \o <<Build("Guarded", 1)>>, <<Drop(1), Report,
           Push(NoBound)>>)>>)>>), 1)
        /\ Alternative(c, 0, MatchKeep({"Integer"}, <<When(IsNumber, <<>>, <<Report,
           Drop(1), Push(Absent)>>), Build("Static", 1)>>), 1)
    BY <2>1, <2>2, Alternatives
  <2> QED
    BY <2>1, <2>2, <2>3, <2>4, Alternatives, TwoOf
<1>3. /\ Turns(c, 0, Keep("Identifier"), 1)
      /\ Turns(c, 1, Drop(1), 0)
      /\ Turns(c, 0, Expect("LParen"), 0)
      /\ Turns(c, 1, Expect("RParen"), 1)
  BY Simple
<1> QED
  BY <1>1, <1>2, <1>3, SixItems DEF Annotation

\* assignment: expression.
LEMMA ExpressionDoes ==
  ASSUME NEW c \in Caught
  PROVE  Does(c, 0, Expression, 1)
<1>1. Turns(c, 1, Optional({"Equal"}, <<Call("expression"), When(IsTarget,
      <<Build("Assign", 2)>>, <<Report, Drop(1)>>)>>), 1)
  <2>1. Does(c, 1, <<Call("expression"), When(IsTarget, <<Build("Assign", 2)>>, <<Report,
        Drop(1)>>)>>, 1)
    <3>1. Turns(c, 2, When(IsTarget, <<Build("Assign", 2)>>, <<Report, Drop(1)>>), 1)
      <4>1. Does(c, 2, <<Build("Assign", 2)>>, 1)
        BY Simple, OneItem
      <4>2. Does(c, 2, <<Report, Drop(1)>>, 1)
        <5>1. /\ Turns(c, 2, Report, 2)
              /\ Turns(c, 2, Drop(1), 1)
          BY Simple
        <5> QED
          BY <5>1, TwoItems
      <4> QED
        BY <4>1, <4>2, Chooses
    <3>2. Turns(c, 1, Call("expression"), 2)
      BY CallsOnNone DEF NoValue
    <3> QED
      BY <3>1, <3>2, TwoItems
  <2> QED
    BY <2>1, Optionals
<1>2. Turns(c, 0, Call("logicalOr"), 1)
  BY CallsOnNone, LevelNames DEF NoValue
<1> QED
  BY <1>1, <1>2, TwoItems DEF Expression

\* unary.
LEMMA UnaryDoes ==
  ASSUME NEW c \in Caught
  PROVE  Does(c, 0, Unary, 1)
<1>1. Turns(c, 0, Switch(<<MatchKeep({"Bang", "Minus"}, <<Call("unary"),
      Build("Unary", 2)>>)>>, <<Call("primary")>>), 1)
  <2>1. Does(c, 1, <<Call("unary"), Build("Unary", 2)>>, 1)
    <3>1. /\ Turns(c, 1, Call("unary"), 2)
          /\ Turns(c, 2, Build("Unary", 2), 1)
      BY Simple, CallsOnNone DEF NoValue
    <3> QED
      BY <3>1, TwoItems
  <2>2. Does(c, 0, <<Call("primary")>>, 1)
    BY CallsOnNone, OneItem DEF NoValue
  <2> QED
    BY <2>1, <2>2, Alternatives, OneOf
<1> QED
  BY <1>1, OneItem DEF Unary

\* primary.
LEMMA PrimaryDoes ==
  ASSUME NEW c \in Caught
  PROVE  Does(c, 0, Primary, 1)
<1>1. Turns(c, 0, Switch(<<Match({"Match"}, <<Call("match")>>),
      MatchKeep({"False", "True", "Integer", "Float", "String"}, <<Build("Literal", 1)>>),
      Match({"LBracket"}, <<Push(None), Unless("RBracket", <<Call("expressions")>>),
      Expect("RBracket"), Build("Vector", 1)>>), Match({"LParen"}, <<Call("expression"),
      Expect("RParen"), Build("Grouping", 1)>>),
      MatchKeep({"Identifier"}, <<Call("name")>>)>>, <<Report, Throw>>), 1)
  <2>1. Does(c, 0, <<Call("match")>>, 1)
    BY CallsOnNone, OneItem DEF NoValue
  <2>2. Does(c, 1, <<Build("Literal", 1)>>, 1)
    BY Simple, OneItem
  <2>3. Does(c, 0, <<Push(None), Unless("RBracket", <<Call("expressions")>>),
        Expect("RBracket"), Build("Vector", 1)>>, 1)
    <3>1. Turns(c, 1, Unless("RBracket", <<Call("expressions")>>), 1)
      <4>1. Does(c, 1, <<Call("expressions")>>, 1)
        BY CallsOnOne, OneItem DEF OneValue
      <4> QED
        BY <4>1, Optionals
    <3>2. /\ Turns(c, 0, Push(None), 1)
          /\ Turns(c, 1, Expect("RBracket"), 1)
          /\ Turns(c, 1, Build("Vector", 1), 1)
      BY Simple
    <3> QED
      BY <3>1, <3>2, FourItems
  <2>4. Does(c, 0, <<Call("expression"), Expect("RParen"), Build("Grouping", 1)>>, 1)
    <3>1. /\ Turns(c, 0, Call("expression"), 1)
          /\ Turns(c, 1, Expect("RParen"), 1)
          /\ Turns(c, 1, Build("Grouping", 1), 1)
      BY Simple, CallsOnNone DEF NoValue
    <3> QED
      BY <3>1, ThreeItems
  <2>5. Does(c, 1, <<Call("name")>>, 1)
    BY CallsOnOne, OneItem DEF OneValue
  <2>6. Does(c, 0, <<Report, Throw>>, 1)
    <3>1. /\ Turns(c, 0, Report, 0)
          /\ Turns(c, 0, Throw, 1)
      BY Simple
    <3> QED
      BY <3>1, TwoItems
  <2>7. /\ Alternative(c, 0,
           MatchKeep({"False", "True", "Integer", "Float", "String"}, <<Build("Literal", 1)>>),
           1)
        /\ Alternative(c, 0, MatchKeep({"Identifier"}, <<Call("name")>>), 1)
    BY <2>2, <2>5, Alternatives
  <2> QED
    BY <2>1, <2>2, <2>3, <2>4, <2>5, <2>6, <2>7, Alternatives, FiveOf
<1> QED
  BY <1>1, OneItem DEF Primary

\* primary: expressions.
LEMMA ExpressionsDoes ==
  ASSUME NEW c \in Caught
  PROVE  Does(c, 1, Expressions, 1)
<1>1. Turns(c, 1, Optional({"Comma"}, <<Call("expressions")>>), 1)
  <2>1. Does(c, 1, <<Call("expressions")>>, 1)
    BY CallsOnOne, OneItem DEF OneValue
  <2> QED
    BY <2>1, Optionals
<1>2. /\ Turns(c, 1, Call("expression"), 2)
      /\ Turns(c, 2, AppendToList, 1)
  BY Simple, CallsOnNone DEF NoValue
<1> QED
  BY <1>1, <1>2, ThreeItems DEF Expressions

\* primary: name.
LEMMA NameDoes ==
  ASSUME NEW c \in Caught
  PROVE  Does(c, 1, Name, 1)
<1>1. Turns(c, 1, When(IsEnumName, <<OrAbsent({"LParen"}, <<Call("expression"),
      Expect("RParen")>>), Build("EnumLiteral", 2)>>,
      <<Switch(<<Check({"LBracket"}, <<Call("genericType")>>),
      Match({"LBrace"}, <<Call("recordLiteral")>>),
      Match({"LParen"}, <<Build("Variable", 1), Push(None), Unless("RParen",
      <<Call("expressions")>>), Expect("RParen"), Build("Call", 2),
      Call("fieldAccesses")>>)>>, <<Build("Variable", 1), Call("fieldAccesses")>>)>>), 1)
  <2>1. Does(c, 1, <<OrAbsent({"LParen"}, <<Call("expression"), Expect("RParen")>>),
        Build("EnumLiteral", 2)>>, 1)
    <3>1. Turns(c, 1, OrAbsent({"LParen"}, <<Call("expression"), Expect("RParen")>>), 2)
      <4>1. Does(c, 1, <<Call("expression"), Expect("RParen")>>, 2)
        <5>1. /\ Turns(c, 1, Call("expression"), 2)
              /\ Turns(c, 2, Expect("RParen"), 2)
          BY Simple, CallsOnNone DEF NoValue
        <5> QED
          BY <5>1, TwoItems
      <4> QED
        BY <4>1, Optionals
    <3>2. Turns(c, 2, Build("EnumLiteral", 2), 1)
      BY Simple
    <3> QED
      BY <3>1, <3>2, TwoItems
  <2>2. Does(c, 1, <<Switch(<<Check({"LBracket"}, <<Call("genericType")>>),
        Match({"LBrace"}, <<Call("recordLiteral")>>),
        Match({"LParen"}, <<Build("Variable", 1), Push(None), Unless("RParen",
        <<Call("expressions")>>), Expect("RParen"), Build("Call", 2),
        Call("fieldAccesses")>>)>>, <<Build("Variable", 1), Call("fieldAccesses")>>)>>, 1)
    <3>1. Turns(c, 1, Switch(<<Check({"LBracket"}, <<Call("genericType")>>),
          Match({"LBrace"}, <<Call("recordLiteral")>>),
          Match({"LParen"}, <<Build("Variable", 1), Push(None), Unless("RParen",
          <<Call("expressions")>>), Expect("RParen"), Build("Call", 2),
          Call("fieldAccesses")>>)>>, <<Build("Variable", 1), Call("fieldAccesses")>>), 1)
      <4>1. Does(c, 1, <<Call("genericType")>>, 1)
        BY CallsOnOne, OneItem DEF OneValue
      <4>2. Does(c, 1, <<Call("recordLiteral")>>, 1)
        BY CallsOnOne, OneItem DEF OneValue
      <4>3. Does(c, 1, <<Build("Variable", 1), Push(None), Unless("RParen",
            <<Call("expressions")>>), Expect("RParen"), Build("Call", 2),
            Call("fieldAccesses")>>, 1)
        <5>1. Turns(c, 2, Unless("RParen", <<Call("expressions")>>), 2)
          <6>1. Does(c, 2, <<Call("expressions")>>, 2)
            BY CallsOnOne, OneItem DEF OneValue
          <6> QED
            BY <6>1, Optionals
        <5>2. /\ Turns(c, 1, Build("Variable", 1), 1)
              /\ Turns(c, 1, Push(None), 2)
              /\ Turns(c, 2, Expect("RParen"), 2)
              /\ Turns(c, 2, Build("Call", 2), 1)
              /\ Turns(c, 1, Call("fieldAccesses"), 1)
          BY Simple, CallsOnOne DEF OneValue
        <5> QED
          BY <5>1, <5>2, SixItems
      <4>4. Does(c, 1, <<Build("Variable", 1), Call("fieldAccesses")>>, 1)
        <5>1. /\ Turns(c, 1, Build("Variable", 1), 1)
              /\ Turns(c, 1, Call("fieldAccesses"), 1)
          BY Simple, CallsOnOne DEF OneValue
        <5> QED
          BY <5>1, TwoItems
      <4> QED
        BY <4>1, <4>2, <4>3, <4>4, Alternatives, ThreeOf
    <3> QED
      BY <3>1, OneItem
  <2> QED
    BY <2>1, <2>2, Chooses
<1> QED
  BY <1>1, OneItem DEF Name

\* primary: field accesses.
LEMMA FieldAccessesDoes ==
  ASSUME NEW c \in Caught
  PROVE  Does(c, 1, FieldAccesses, 1)
<1>1. Turns(c, 1, Optional({"Dot"}, <<Keep("Identifier"), Build("FieldAccess", 2),
      Call("fieldAccesses")>>), 1)
  <2>1. Does(c, 1, <<Keep("Identifier"), Build("FieldAccess", 2), Call("fieldAccesses")>>,
        1)
    <3>1. /\ Turns(c, 1, Keep("Identifier"), 2)
          /\ Turns(c, 2, Build("FieldAccess", 2), 1)
          /\ Turns(c, 1, Call("fieldAccesses"), 1)
      BY Simple, CallsOnOne DEF OneValue
    <3> QED
      BY <3>1, ThreeItems
  <2> QED
    BY <2>1, Optionals
<1> QED
  BY <1>1, OneItem DEF FieldAccesses

\* record_literal.
LEMMA RecordLiteralDoes ==
  ASSUME NEW c \in Caught
  PROVE  Does(c, 1, RecordLiteral, 1)
<1>1. Turns(c, 2, Unless("RBrace", <<Call("recordValues")>>), 2)
  <2>1. Does(c, 2, <<Call("recordValues")>>, 2)
    BY CallsOnOne, OneItem DEF OneValue
  <2> QED
    BY <2>1, Optionals
<1>2. /\ Turns(c, 1, Push(None), 2)
      /\ Turns(c, 2, Expect("RBrace"), 2)
      /\ Turns(c, 2, Build("RecordLiteral", 2), 1)
  BY Simple
<1> QED
  BY <1>1, <1>2, FourItems DEF RecordLiteral

\* record_literal: record values.
LEMMA RecordValuesDoes ==
  ASSUME NEW c \in Caught
  PROVE  Does(c, 1, RecordValues, 1)
<1>1. Turns(c, 1, Optional({"Comma", "Semicolon"}, <<Call("recordValues")>>), 1)
  <2>1. Does(c, 1, <<Call("recordValues")>>, 1)
    BY CallsOnOne, OneItem DEF OneValue
  <2> QED
    BY <2>1, Optionals
<1>2. /\ Turns(c, 1, Keep("Identifier"), 2)
      /\ Turns(c, 2, Expect("Colon"), 2)
      /\ Turns(c, 2, Call("expression"), 3)
      /\ Turns(c, 3, Build("Pair", 2), 2)
      /\ Turns(c, 2, AppendToList, 1)
  BY Simple, CallsOnNone DEF NoValue
<1> QED
  BY <1>1, <1>2, SixItems DEF RecordValues

\* match_expression: match.
LEMMA MatchDoes ==
  ASSUME NEW c \in Caught
  PROVE  Does(c, 0, MatchRule, 1)
<1>1. Does(c, 0, Condition, 1)
  BY ConditionDoes
<1>2. Does(c, 1, <<Expect("LBrace"), Push(None), Call("arms"), Expect("RBrace"),
      Build("Match", 2)>>, 1)
  <2>1. /\ Turns(c, 1, Expect("LBrace"), 1)
        /\ Turns(c, 1, Push(None), 2)
        /\ Turns(c, 2, Call("arms"), 2)
        /\ Turns(c, 2, Expect("RBrace"), 2)
        /\ Turns(c, 2, Build("Match", 2), 1)
    BY Simple, CallsOnOne DEF OneValue
  <2> QED
    BY <2>1, FiveItems
<1> QED
  BY <1>1, <1>2, ListAfterList DEF MatchRule

\* match_expression: arms.
LEMMA ArmsDoes ==
  ASSUME NEW c \in Caught
  PROVE  Does(c, 1, Arms, 1)
<1>1. Turns(c, 1, Switch(<<Check({"RBrace", "Eof"}, <<>>)>>, <<Call("arm"), AppendToList,
      Optional({"Semicolon", "Comma"}, <<Call("arms")>>)>>), 1)
  <2>1. Does(c, 1, <<Call("arm"), AppendToList, Optional({"Semicolon", "Comma"},
        <<Call("arms")>>)>>, 1)
    <3>1. Turns(c, 1, Optional({"Semicolon", "Comma"}, <<Call("arms")>>), 1)
      <4>1. Does(c, 1, <<Call("arms")>>, 1)
        BY CallsOnOne, OneItem DEF OneValue
      <4> QED
        BY <4>1, Optionals
    <3>2. /\ Turns(c, 1, Call("arm"), 2)
          /\ Turns(c, 2, AppendToList, 1)
      BY Simple, CallsOnNone DEF NoValue
    <3> QED
      BY <3>1, <3>2, ThreeItems
  <2> QED
    BY <2>1, NoItems, Alternatives, OneOf
<1> QED
  BY <1>1, OneItem DEF Arms

\* match_arm: arm.
LEMMA ArmDoes ==
  ASSUME NEW c \in Caught
  PROVE  Does(c, 0, Arm, 1)
<1>1. Turns(c, 2, Optional({"LParen"}, <<Unless("RParen", <<Drop(1), Call("pattern")>>),
      Expect("RParen")>>), 2)
  <2>1. Does(c, 2, <<Unless("RParen", <<Drop(1), Call("pattern")>>), Expect("RParen")>>,
        2)
    <3>1. Turns(c, 2, Unless("RParen", <<Drop(1), Call("pattern")>>), 2)
      <4>1. Does(c, 2, <<Drop(1), Call("pattern")>>, 2)
        <5>1. /\ Turns(c, 2, Drop(1), 1)
              /\ Turns(c, 1, Call("pattern"), 2)
          BY Simple, CallsOnNone DEF NoValue
        <5> QED
          BY <5>1, TwoItems
      <4> QED
        BY <4>1, Optionals
    <3>2. Turns(c, 2, Expect("RParen"), 2)
      BY Simple
    <3> QED
      BY <3>1, <3>2, TwoItems
  <2> QED
    BY <2>1, Optionals
<1>2. Turns(c, 2, OrAbsent({"If"}, <<Call("expression")>>), 3)
  <2>1. Does(c, 2, <<Call("expression")>>, 3)
    BY CallsOnNone, OneItem DEF NoValue
  <2> QED
    BY <2>1, Optionals
<1>3. /\ Turns(c, 0, Keep("Identifier"), 1)
      /\ Turns(c, 1, Push(NoPattern), 2)
      /\ Turns(c, 3, Expect("FatArrow"), 3)
      /\ Turns(c, 3, Call("expression"), 4)
      /\ Turns(c, 4, Build("Arm", 4), 1)
  BY Simple, CallsOnNone DEF NoValue
<1> QED
  BY <1>1, <1>2, <1>3, SevenItems DEF Arm

\* parse_match_pattern: pattern.
LEMMA PatternDoes ==
  ASSUME NEW c \in Caught
  PROVE  Does(c, 0, Pattern, 1)
<1>1. Turns(c, 0, Switch(<<Match({"LBrace"}, <<Push(None), Unless("RBrace",
      <<Call("bindings")>>), Expect("RBrace"), Build("RecordPattern", 1)>>),
      MatchKeep({"Identifier"}, <<Switch(<<Match({"LParen"}, <<Push(NoPattern),
      Unless("RParen", <<Drop(1), Call("pattern")>>), Expect("RParen"),
      Build("Variant", 2)>>), Match({"Comma"}, <<Build("List", 1), Call("names"),
      Build("Tuple", 1)>>)>>, <<Build("Binding", 1)>>)>>)>>, <<Report, Push(NoPattern)>>),
      1)
  <2>1. Does(c, 0, <<Push(None), Unless("RBrace", <<Call("bindings")>>), Expect("RBrace"),
        Build("RecordPattern", 1)>>, 1)
    <3>1. Turns(c, 1, Unless("RBrace", <<Call("bindings")>>), 1)
      <4>1. Does(c, 1, <<Call("bindings")>>, 1)
        BY CallsOnOne, OneItem DEF OneValue
      <4> QED
        BY <4>1, Optionals
    <3>2. /\ Turns(c, 0, Push(None), 1)
          /\ Turns(c, 1, Expect("RBrace"), 1)
          /\ Turns(c, 1, Build("RecordPattern", 1), 1)
      BY Simple
    <3> QED
      BY <3>1, <3>2, FourItems
  <2>2. Does(c, 1, <<Switch(<<Match({"LParen"}, <<Push(NoPattern), Unless("RParen",
        <<Drop(1), Call("pattern")>>), Expect("RParen"), Build("Variant", 2)>>),
        Match({"Comma"}, <<Build("List", 1), Call("names"), Build("Tuple", 1)>>)>>,
        <<Build("Binding", 1)>>)>>, 1)
    <3>1. Turns(c, 1, Switch(<<Match({"LParen"}, <<Push(NoPattern), Unless("RParen",
          <<Drop(1), Call("pattern")>>), Expect("RParen"), Build("Variant", 2)>>),
          Match({"Comma"}, <<Build("List", 1), Call("names"), Build("Tuple", 1)>>)>>,
          <<Build("Binding", 1)>>), 1)
      <4>1. Does(c, 1, <<Push(NoPattern), Unless("RParen", <<Drop(1), Call("pattern")>>),
            Expect("RParen"), Build("Variant", 2)>>, 1)
        <5>1. Turns(c, 2, Unless("RParen", <<Drop(1), Call("pattern")>>), 2)
          <6>1. Does(c, 2, <<Drop(1), Call("pattern")>>, 2)
            <7>1. /\ Turns(c, 2, Drop(1), 1)
                  /\ Turns(c, 1, Call("pattern"), 2)
              BY Simple, CallsOnNone DEF NoValue
            <7> QED
              BY <7>1, TwoItems
          <6> QED
            BY <6>1, Optionals
        <5>2. /\ Turns(c, 1, Push(NoPattern), 2)
              /\ Turns(c, 2, Expect("RParen"), 2)
              /\ Turns(c, 2, Build("Variant", 2), 1)
          BY Simple
        <5> QED
          BY <5>1, <5>2, FourItems
      <4>2. Does(c, 1, <<Build("List", 1), Call("names"), Build("Tuple", 1)>>, 1)
        <5>1. /\ Turns(c, 1, Build("List", 1), 1)
              /\ Turns(c, 1, Call("names"), 1)
              /\ Turns(c, 1, Build("Tuple", 1), 1)
          BY Simple, CallsOnOne DEF OneValue
        <5> QED
          BY <5>1, ThreeItems
      <4>3. Does(c, 1, <<Build("Binding", 1)>>, 1)
        BY Simple, OneItem
      <4> QED
        BY <4>1, <4>2, <4>3, Alternatives, TwoOf
    <3> QED
      BY <3>1, OneItem
  <2>3. Does(c, 0, <<Report, Push(NoPattern)>>, 1)
    <3>1. /\ Turns(c, 0, Report, 0)
          /\ Turns(c, 0, Push(NoPattern), 1)
      BY Simple
    <3> QED
      BY <3>1, TwoItems
  <2>4. Alternative(c, 0,
        MatchKeep({"Identifier"}, <<Switch(<<Match({"LParen"}, <<Push(NoPattern),
        Unless("RParen", <<Drop(1), Call("pattern")>>), Expect("RParen"),
        Build("Variant", 2)>>), Match({"Comma"}, <<Build("List", 1), Call("names"),
        Build("Tuple", 1)>>)>>, <<Build("Binding", 1)>>)>>), 1)
    BY <2>2, Alternatives
  <2> QED
    BY <2>1, <2>2, <2>3, <2>4, Alternatives, TwoOf
<1> QED
  BY <1>1, OneItem DEF Pattern

\* parse_match_pattern: names.
LEMMA NamesDoes ==
  ASSUME NEW c \in Caught
  PROVE  Does(c, 1, Names, 1)
<1>1. Turns(c, 1, Optional({"Comma"}, <<Call("names")>>), 1)
  <2>1. Does(c, 1, <<Call("names")>>, 1)
    BY CallsOnOne, OneItem DEF OneValue
  <2> QED
    BY <2>1, Optionals
<1>2. /\ Turns(c, 1, Keep("Identifier"), 2)
      /\ Turns(c, 2, AppendToList, 1)
  BY Simple
<1> QED
  BY <1>1, <1>2, ThreeItems DEF Names

\* parse_match_pattern: bindings.
LEMMA BindingsDoes ==
  ASSUME NEW c \in Caught
  PROVE  Does(c, 1, Bindings, 1)
<1>1. Turns(c, 2, Switch(<<Match({"Colon"}, <<Keep("Identifier"), Build("Pair", 2)>>)>>,
      <<Build("SameName", 1)>>), 2)
  <2>1. Does(c, 2, <<Keep("Identifier"), Build("Pair", 2)>>, 2)
    <3>1. /\ Turns(c, 2, Keep("Identifier"), 3)
          /\ Turns(c, 3, Build("Pair", 2), 2)
      BY Simple
    <3> QED
      BY <3>1, TwoItems
  <2>2. Does(c, 2, <<Build("SameName", 1)>>, 2)
    BY Simple, OneItem
  <2> QED
    BY <2>1, <2>2, Alternatives, OneOf
<1>2. Turns(c, 1, Optional({"Comma", "Semicolon"}, <<Call("bindings")>>), 1)
  <2>1. Does(c, 1, <<Call("bindings")>>, 1)
    BY CallsOnOne, OneItem DEF OneValue
  <2> QED
    BY <2>1, Optionals
<1>3. /\ Turns(c, 1, Keep("Identifier"), 2)
      /\ Turns(c, 2, AppendToList, 1)
  BY Simple
<1> QED
  BY <1>1, <1>2, <1>3, FourItems DEF Bindings

\* type.
LEMMA TypeDoes ==
  ASSUME NEW c \in Caught
  PROVE  Does(c, 0, TypeRule, 1)
<1>1. Turns(c, 0, Switch(<<MatchKeep(TypeStart, <<Switch(<<Check({"Less"}, <<Report,
      Drop(1), Push(Absent)>>), Check({"LBracket"}, <<Call("genericType")>>)>>,
      <<Build("SimpleType", 1)>>)>>)>>, <<Report, Push(Absent)>>), 1)
  <2>1. Does(c, 1, <<Switch(<<Check({"Less"}, <<Report, Drop(1), Push(Absent)>>),
        Check({"LBracket"}, <<Call("genericType")>>)>>, <<Build("SimpleType", 1)>>)>>, 1)
    <3>1. Turns(c, 1, Switch(<<Check({"Less"}, <<Report, Drop(1), Push(Absent)>>),
          Check({"LBracket"}, <<Call("genericType")>>)>>, <<Build("SimpleType", 1)>>), 1)
      <4>1. Does(c, 1, <<Report, Drop(1), Push(Absent)>>, 1)
        <5>1. /\ Turns(c, 1, Report, 1)
              /\ Turns(c, 1, Drop(1), 0)
              /\ Turns(c, 0, Push(Absent), 1)
          BY Simple
        <5> QED
          BY <5>1, ThreeItems
      <4>2. Does(c, 1, <<Call("genericType")>>, 1)
        BY CallsOnOne, OneItem DEF OneValue
      <4>3. Does(c, 1, <<Build("SimpleType", 1)>>, 1)
        BY Simple, OneItem
      <4> QED
        BY <4>1, <4>2, <4>3, Alternatives, TwoOf
    <3> QED
      BY <3>1, OneItem
  <2>2. Does(c, 0, <<Report, Push(Absent)>>, 1)
    <3>1. /\ Turns(c, 0, Report, 0)
          /\ Turns(c, 0, Push(Absent), 1)
      BY Simple
    <3> QED
      BY <3>1, TwoItems
  <2> QED
    BY <2>1, <2>2, Alternatives, OneOf
<1> QED
  BY <1>1, OneItem DEF TypeRule

\* parse_generic_type: generic type.
LEMMA GenericTypeDoes ==
  ASSUME NEW c \in Caught
  PROVE  Does(c, 1, GenericType, 1)
<1>1. /\ Turns(c, 1, Expect("LBracket"), 1)
      /\ Turns(c, 1, Push(None), 2)
      /\ Turns(c, 2, Call("type"), 3)
      /\ Turns(c, 3, AppendToList, 2)
      /\ Turns(c, 2, Call("genericParameters"), 1)
  BY Simple, CallsOnNone, CallsOnTwo DEF NoValue, TwoValues
<1> QED
  BY <1>1, FiveItems DEF GenericType

\* parse_generic_type: generic parameters.
LEMMA GenericParametersDoes ==
  ASSUME NEW c \in Caught
  PROVE  Does(c, 2, GenericParameters, 1)
<1>1. Turns(c, 2, Switch(<<Match({"Comma"}, <<When(Full(MaxGeneric), <<Report, Drop(2),
      Push(Absent)>>, <<When(IsResultError, <<Call("type")>>, <<Switch(<<Check(TypeStart,
      <<Call("type")>>)>>, <<Call("expression")>>)>>), AppendToList,
      Call("genericParameters")>>)>>)>>, <<Expect("RBracket"), Build("GenericType", 2)>>),
      1)
  <2>1. Does(c, 2, <<When(Full(MaxGeneric), <<Report, Drop(2), Push(Absent)>>,
        <<When(IsResultError, <<Call("type")>>, <<Switch(<<Check(TypeStart,
        <<Call("type")>>)>>, <<Call("expression")>>)>>), AppendToList,
        Call("genericParameters")>>)>>, 1)
    <3>1. Turns(c, 2, When(Full(MaxGeneric), <<Report, Drop(2), Push(Absent)>>,
          <<When(IsResultError, <<Call("type")>>, <<Switch(<<Check(TypeStart,
          <<Call("type")>>)>>, <<Call("expression")>>)>>), AppendToList,
          Call("genericParameters")>>), 1)
      <4>1. Does(c, 2, <<Report, Drop(2), Push(Absent)>>, 1)
        <5>1. /\ Turns(c, 2, Report, 2)
              /\ Turns(c, 2, Drop(2), 0)
              /\ Turns(c, 0, Push(Absent), 1)
          BY Simple
        <5> QED
          BY <5>1, ThreeItems
      <4>2. Does(c, 2, <<When(IsResultError, <<Call("type")>>, <<Switch(<<Check(TypeStart,
            <<Call("type")>>)>>, <<Call("expression")>>)>>), AppendToList,
            Call("genericParameters")>>, 1)
        <5>1. Turns(c, 2, When(IsResultError, <<Call("type")>>,
              <<Switch(<<Check(TypeStart, <<Call("type")>>)>>, <<Call("expression")>>)>>),
              3)
          <6>1. Does(c, 2, <<Call("type")>>, 3)
            BY CallsOnNone, OneItem DEF NoValue
          <6>2. Does(c, 2, <<Switch(<<Check(TypeStart, <<Call("type")>>)>>,
                <<Call("expression")>>)>>, 3)
            <7>1. Turns(c, 2, Switch(<<Check(TypeStart, <<Call("type")>>)>>,
                  <<Call("expression")>>), 3)
              <8>1. Does(c, 2, <<Call("type")>>, 3)
                BY CallsOnNone, OneItem DEF NoValue
              <8>2. Does(c, 2, <<Call("expression")>>, 3)
                BY CallsOnNone, OneItem DEF NoValue
              <8> QED
                BY <8>1, <8>2, Alternatives, OneOf
            <7> QED
              BY <7>1, OneItem
          <6> QED
            BY <6>1, <6>2, Chooses
        <5>2. /\ Turns(c, 3, AppendToList, 2)
              /\ Turns(c, 2, Call("genericParameters"), 1)
          BY Simple, CallsOnTwo DEF TwoValues
        <5> QED
          BY <5>1, <5>2, ThreeItems
      <4> QED
        BY <4>1, <4>2, Chooses
    <3> QED
      BY <3>1, OneItem
  <2>2. Does(c, 2, <<Expect("RBracket"), Build("GenericType", 2)>>, 1)
    <3>1. /\ Turns(c, 2, Expect("RBracket"), 2)
          /\ Turns(c, 2, Build("GenericType", 2), 1)
      BY Simple
    <3> QED
      BY <3>1, TwoItems
  <2> QED
    BY <2>1, <2>2, Alternatives, OneOf
<1> QED
  BY <1>1, OneItem DEF GenericParameters

\* A level of the operators reads an operand, and its loop the operators.
LEMMA LevelsDo ==
  ASSUME NEW c \in Caught, NEW k \in DOMAIN Levels
  PROVE  /\ Does(c, 0, Operand(Levels[k]), 1)
         /\ Does(c, 1, JoinFromTheLeft(Levels[k]), 1)
<1> DEFINE level == Levels[k]
<1>1. level.operand \in NoValue /\ level.loop \in OneValue
  <2>1. k \in {1, 2, 3, 4, 5, 6}
    BY DEF Levels
  <2>2. /\ Levels[1].operand = "logicalAnd" /\ Levels[1].loop = "orLoop"
        /\ Levels[2].operand = "equality" /\ Levels[2].loop = "andLoop"
        /\ Levels[3].operand = "comparison" /\ Levels[3].loop = "equalityLoop"
        /\ Levels[4].operand = "term" /\ Levels[4].loop = "comparisonLoop"
        /\ Levels[5].operand = "factor" /\ Levels[5].loop = "termLoop"
        /\ Levels[6].operand = "unary" /\ Levels[6].loop = "factorLoop"
    BY DEF Levels
  <2> QED
    BY <2>1, <2>2, LevelNames DEF NoValue, OneValue
<1> HIDE DEF level
<1>2. Does(c, 0, Operand(level), 1)
  <2>1. Turns(c, 0, Call(level.operand), 1)
    BY <1>1, CallsOnNone
  <2>2. Turns(c, 1, Call(level.loop), 1)
    BY <1>1, CallsOnOne
  <2> QED
    BY <2>1, <2>2, TwoItems DEF Operand
<1>3. Does(c, 1, JoinFromTheLeft(level), 1)
  <2>1. Does(c, 2, <<Call(level.operand), Build("Binary", 3), Call(level.loop)>>, 1)
    <3>1. Turns(c, 2, Call(level.operand), 3)
      BY <1>1, CallsOnNone
    <3>2. Turns(c, 3, Build("Binary", 3), 1)
      BY Simple
    <3>3. Turns(c, 1, Call(level.loop), 1)
      BY <1>1, CallsOnOne
    <3> QED
      BY <3>1, <3>2, <3>3, ThreeItems
  <2>2. Alternative(c, 1, MatchKeep(level.types,
          <<Call(level.operand), Build("Binary", 3), Call(level.loop)>>), 1)
    BY <2>1, Alternatives
  <2>3. Turns(c, 1, Switch(<<MatchKeep(level.types,
          <<Call(level.operand), Build("Binary", 3), Call(level.loop)>>)>>, <<>>), 1)
    BY <2>2, NoItems, OneOf
  <2> QED
    BY <2>3, OneItem DEF JoinFromTheLeft
<1> QED
  BY <1>2, <1>3 DEF level

\* The items of each rule.
LEMMA RulesByName ==
  /\ Rules["parse"] = Program
  /\ Rules["declaration"] = Declaration
  /\ Rules["path"] = Path
  /\ Rules["pathSegments"] = PathSegments
  /\ Rules["structuralAttributes"] = StructuralRule
  /\ Rules["schema"] = SchemaRule
  /\ Rules["moduleOf"] = ModuleOfRule
  /\ Rules["functionAttributes"] = FunctionAttributesRule
  /\ Rules["function"] = Function
  /\ Rules["parameters"] = Parameters
  /\ Rules["typeDeclaration"] = TypeDeclaration
  /\ Rules["typeParameters"] = TypeParameters
  /\ Rules["recordDeclaration"] = RecordDeclaration
  /\ Rules["fields"] = Fields
  /\ Rules["enumDeclaration"] = EnumDeclaration
  /\ Rules["variants"] = Variants
  /\ Rules["varDeclaration"] = VarDeclaration
  /\ Rules["letDeclaration"] = LetDeclaration
  /\ Rules["statement"] = Statement
  /\ Rules["block"] = Block
  /\ Rules["statements"] = Statements
  /\ Rules["loop"] = Loop
  /\ Rules["annotation"] = Annotation
  /\ Rules["expression"] = Expression
  /\ Rules["unary"] = Unary
  /\ Rules["primary"] = Primary
  /\ Rules["expressions"] = Expressions
  /\ Rules["name"] = Name
  /\ Rules["fieldAccesses"] = FieldAccesses
  /\ Rules["recordLiteral"] = RecordLiteral
  /\ Rules["recordValues"] = RecordValues
  /\ Rules["match"] = MatchRule
  /\ Rules["arms"] = Arms
  /\ Rules["arm"] = Arm
  /\ Rules["pattern"] = Pattern
  /\ Rules["names"] = Names
  /\ Rules["bindings"] = Bindings
  /\ Rules["type"] = TypeRule
  /\ Rules["genericType"] = GenericType
  /\ Rules["genericParameters"] = GenericParameters
  BY LevelNames DEF Rules, RuleNames

\* The rules of the levels.
LEMMA RulesByLevel ==
  ASSUME NEW rule
  PROVE  /\ rule \in LevelRules => Rules[rule] = Operand(LevelOf(rule))
         /\ rule \in LevelLoops => Rules[rule] = JoinFromTheLeft(LevelOf(rule))
  BY LevelNames DEF Rules, RuleNames

\* The level a rule names is one of the levels.
LEMMA LevelOfNames ==
  ASSUME NEW rule \in LevelRules \cup LevelLoops
  PROVE  \E k \in DOMAIN Levels : LevelOf(rule) = Levels[k]
<1>1. PICK k \in DOMAIN Levels : rule \in {Levels[k].rule, Levels[k].loop}
  BY DEF LevelRules, LevelLoops
<1>2. Levels[k] \in Range(Levels)
  BY DEF Range
<1>3. LevelOf(rule) \in Range(Levels)
  BY <1>1, <1>2 DEF LevelOf
<1> QED
  BY <1>3 DEF Range

\* Every function leaves one value in the place of those it was left.
LEMMA RulesDo ==
  ASSUME NEW c \in Caught, NEW rule \in RuleNames, rule # "parse"
  PROVE  Does(c, Gets(rule), Rules[rule], 1)
<1>1. CASE rule \in LevelRules
  <2>1. Gets(rule) = 0
    BY <1>1, GetsValues DEF NoValue
  <2> QED
    BY <1>1, <2>1, RulesByLevel, LevelOfNames, LevelsDo
<1>2. CASE rule \in LevelLoops
  <2>1. Gets(rule) = 1
    BY <1>2, GetsValues DEF OneValue
  <2> QED
    BY <1>2, <2>1, RulesByLevel, LevelOfNames, LevelsDo
<1>3. CASE rule \in NoValue \ LevelRules
  <2>1. Gets(rule) = 0
    BY <1>3, GetsValues
  <2> QED
    BY <1>3, <2>1, RulesByName, DeclarationDoes, PathDoes, TypeDeclarationDoes,
       VarDeclarationDoes, LetDeclarationDoes, StatementDoes, BlockDoes, LoopDoes,
       AnnotationDoes, ExpressionDoes, UnaryDoes, PrimaryDoes, MatchDoes, ArmDoes,
       PatternDoes, TypeDoes DEF NoValue
<1>4. CASE rule \in OneValue \ LevelLoops
  <2>1. Gets(rule) = 1
    BY <1>4, GetsValues
  <2> QED
    BY <1>4, <2>1, RulesByName, PathSegmentsDoes, StructuralDoes, SchemaDoes,
       ModuleOfDoes, FunctionAttributesDoes, ParametersDoes, TypeParametersDoes,
       RecordDeclarationDoes, FieldsDoes, EnumDeclarationDoes, VariantsDoes,
       StatementsDoes, ExpressionsDoes, NameDoes, FieldAccessesDoes, RecordLiteralDoes,
       RecordValuesDoes, ArmsDoes, NamesDoes, BindingsDoes, GenericTypeDoes DEF OneValue
<1>5. CASE rule \in TwoValues
  <2>1. Gets(rule) = 2
    BY <1>5, GetsValues
  <2> QED
    BY <1>5, <2>1, RulesByName, FunctionDoes, GenericParametersDoes DEF TwoValues
<1> QED
  BY <1>1, <1>2, <1>3, <1>4, <1>5, GetsValues

\* Parse leaves the list of declarations as it was, under no handler.
LEMMA ProgramRuns == Runs(Bottom, Program, Bottom)
<1> DEFINE top == At(1, -1)
<1>1. Bottom \in Heights /\ top \in Heights /\ Bottom.base = top.base
      /\ Bottom.height = 0 /\ top.height = 1 /\ top.base = -1
  BY DEF Bottom, Heights, At
<1> HIDE DEF top
<1>2. "declaration" \in RuleNames /\ "parse" \in RuleNames /\ Gets("declaration") = 0
  BY GetsValues DEF RuleNames, NoValue
<1>3. Goes(Bottom, Call("declaration"), top)
  <2>1. Calls(Bottom, "declaration", top)
    BY <1>1, <1>2 DEF Calls
  <2>2. Moves({}, Bottom, Call("declaration"), top)
    BY <1>1, <2>1 DEF Moves, Call
  <2> QED
    BY <2>2, Goes0
<1>4. Goes(top, AppendToList, Bottom)
  <2>1. Moves({}, top, AppendToList, Bottom)
    BY <1>1 DEF Moves, AppendToList
  <2> QED
    BY <2>1, Goes0
<1>5. Goes(Bottom, Call("parse"), Bottom)
  <2>1. Calls(Bottom, "parse", Bottom)
    BY <1>2 DEF Calls
  <2>2. Moves({}, Bottom, Call("parse"), Bottom)
    BY <1>1, <2>1 DEF Moves, Call
  <2> QED
    BY <2>2, Goes0
<1> DEFINE more == <<Call("declaration"), AppendToList, Call("parse")>>
           none == <<Check({"Eof"}, <<>>)>>
<1>6. Runs(Bottom, more, Bottom)
  <2>1. more = (<<Call("declaration")>> \o <<AppendToList>>) \o <<Call("parse")>>
    OBVIOUS
  <2> HIDE DEF more
  <2>2. Runs(Bottom, <<Call("declaration")>> \o <<AppendToList>>, Bottom)
    BY <1>3, <1>4, RunsOne, RunsCat
  <2> QED
    BY <1>5, <2>1, <2>2, RunsOne, RunsCat
<1>7. Runs(Bottom, <<>>, Bottom)
  BY RunsNone
<1>8. \A i \in DOMAIN none : Runs(Taken(Bottom, none[i]), none[i].items, Bottom)
  <2>1. DOMAIN none = {1} /\ none[1] = Check({"Eof"}, <<>>)
    OBVIOUS
  <2>2. none[1].takes # "leaf" /\ none[1].items = <<>>
    BY <2>1 DEF Check
  <2> HIDE DEF none
  <2> QED
    BY <1>7, <2>1, <2>2 DEF Taken
<1>9. DOMAIN none \subseteq Nat
  OBVIOUS
<1> HIDE DEF more, none
<1>10. Goes(Bottom, Switch(none, more), Bottom)
  BY <1>1, <1>6, <1>8, <1>9, GoesSwitch
<1>11. Program = <<Switch(none, more)>>
  BY DEF Program, none, more
<1> QED
  BY <1>10, <1>11, RunsOne

-----------------------------------------------------------------------------
(* The invariant of the parser, and what keeps it.                            *)

\* A stack of values of a height: the list of declarations, and the others.
Stack(v, d) == IsSeq(v) /\ d \in Heights /\ Len(v) = d.height + 1 /\ v[1].kind = "List"

\* The inductive invariant: what is left to do takes every value above the list
\* of declarations, and leaves no handler.
ParserInv ==
  /\ wanted \in {"none", "next", "peek"} /\ had_error \in BOOLEAN
  /\ \E d : Stack(values, d) /\ Runs(d, work, Bottom)

\* A value more.
LEMMA StackMore ==
  ASSUME NEW v, NEW d, Stack(v, d), NEW k \in Heights, k.height = d.height + 1, NEW x
  PROVE  Stack(Append(v, x), k)
<1>1. IsSeq(v) /\ d.height \in Nat /\ Len(v) = d.height + 1 /\ v[1].kind = "List"
  BY DEF Stack, Heights
<1>2. IsSeq(Append(v, x)) /\ Len(Append(v, x)) = Len(v) + 1
  BY <1>1, SeqAppend
<1>3. Append(v, x)[1] = v[1]
  <2>1. v \in Seq(Range(v) \cup {x})
    BY <1>1 DEF IsSeq
  <2> QED
    BY <1>1, <2>1
<1> QED
  BY <1>1, <1>2, <1>3 DEF Stack

\* The values up to one of them; none at all, when a list takes the place of
\* the list of declarations.
LEMMA StackCut ==
  ASSUME NEW v, NEW d, Stack(v, d), NEW n \in Nat, n <= d.height + 1
  PROVE  /\ IsSeq(SubSeq(v, 1, n)) /\ Len(SubSeq(v, 1, n)) = n
         /\ n # 0 => SubSeq(v, 1, n)[1].kind = "List"
<1>1. v \in Seq(Range(v)) /\ d.height \in Nat /\ Len(v) = d.height + 1 /\ v[1].kind = "List"
  BY DEF Stack, Heights, IsSeq
<1>2. /\ SubSeq(v, 1, n) \in Seq(Range(v)) /\ Len(SubSeq(v, 1, n)) = n
      /\ n # 0 => SubSeq(v, 1, n)[1] = v[1]
  BY <1>1
<1> QED
  BY <1>1, <1>2, SeqIn

\* What the item in turn does, and that the rest goes on from there.
LEMMA ItemMoves ==
  ASSUME ParserInv, work # <<>>
  PROVE  \E T, d, m : /\ Typed(T) /\ Stack(values, d) /\ Moves(T, d, Item, m)
                      /\ Runs(m, Rest, Bottom) /\ Runs(d, work, Bottom)
<1>1. PICK d : Stack(values, d) /\ Runs(d, work, Bottom)
  BY DEF ParserInv
<1>2. PICK m : Goes(d, Head(work), m) /\ Runs(m, Tail(work), Bottom)
  BY <1>1, RunsTail
<1>3. Head(work) = work[1]
  <2>1. IsSeq(work)
    BY <1>1 DEF Runs, Leads
  <2> QED
    BY <2>1, HeadAndTail
<1>4. PICK T : Typed(T) /\ Moves(T, d, work[1], m)
  BY <1>2, <1>3, MovesByGoes
<1> QED
  BY <1>1, <1>2, <1>4 DEF Item, Rest

\* A token is asked for, or nothing is.
LEMMA AsksForTokens ==
  ASSUME ParserInv, Advance \/ Stay
  PROVE  wanted' \in {"none", "next", "peek"}
  BY DEF ParserInv, Advance, Stay

\* The invariant, from its parts after the step.
LEMMA InvAfter ==
  ASSUME wanted' \in {"none", "next", "peek"}, had_error' \in BOOLEAN,
         NEW k, Stack(values', k), Runs(k, work', Bottom)
  PROVE  ParserInv'
  BY DEF ParserInv

\* A call starts the rule where the item stood.
LEMMA CallKeepsInv ==
  ASSUME ParserInv, DoCall
  PROVE  ParserInv'
<1>1. /\ work # <<>> /\ Item.op = "call" /\ values' = values /\ had_error' = had_error /\ Stay
      /\ work' = Rules[Item.rule]
                 \o (IF Item.rule = "declaration" THEN <<Catch(Len(values))>> ELSE <<>>)
                 \o Rest
  BY DEF DoCall, Doing
<1>2. PICK T, d, m : /\ Typed(T) /\ Stack(values, d) /\ Moves(T, d, Item, m)
                     /\ Runs(m, Rest, Bottom)
  BY <1>1, ItemMoves
<1>3. /\ d \in Heights /\ m \in Heights /\ m.base = d.base /\ Calls(d, Item.rule, m)
      /\ Len(values) = d.height + 1
  BY <1>1, <1>2 DEF Moves, Stack
<1>4. wanted' \in {"none", "next", "peek"} /\ had_error' \in BOOLEAN
  BY <1>1, AsksForTokens DEF ParserInv
<1>5. CASE Item.rule = "parse"
  <2>1. d = Bottom /\ m = Bottom /\ Rules[Item.rule] = Program
    BY <1>3, <1>5, RulesByName DEF Calls
  <2>2. work' = Program \o <<>> \o Rest
    BY <1>1, <1>5, <2>1
  <2>3. Runs(d, Program \o <<>>, m)
    BY <2>1, ProgramRuns, RunsNone, RunsCat
  <2>4. Runs(d, work', Bottom)
    BY <1>2, <2>2, <2>3, RunsCat
  <2> QED
    BY <1>1, <1>2, <1>4, <2>4, InvAfter
<1>6. CASE Item.rule = "declaration"
  <2> DEFINE c == At(d.height, d.height)
  <2>1. /\ d.height \in Nat /\ m.height \in Nat /\ d.base <= d.height
        /\ Gets(Item.rule) = 0 /\ m.height = d.height + 1 /\ Item.rule \in RuleNames
    <3>1. Gets(Item.rule) = 0
      BY <1>6, GetsValues DEF NoValue
    <3> QED
      BY <1>3, <1>6, <3>1 DEF Calls, Heights
  <2>2. c \in Caught /\ c.height = d.height /\ c.base = d.height
    BY <2>1 DEF Caught, Heights, At
  <2> HIDE DEF c
  <2>3. Runs(Above(c, 0), Rules[Item.rule], Above(c, 1))
    <3>1. Does(c, Gets(Item.rule), Rules[Item.rule], 1)
      BY <1>6, <2>1, <2>2, RulesDo
    <3> QED
      BY <2>1, <3>1 DEF Does
  <2>4. /\ Above(c, 1) \in Heights /\ Above(c, 1).height = d.height + 1
        /\ Above(c, 1).base = d.height
    BY <2>1, <2>2, AboveIsHeight
  <2>5. Moves({}, Above(c, 1), Catch(Len(values)), m)
    BY <1>3, <2>1, <2>4 DEF Moves, Catch
  <2>6. Runs(Above(c, 1), <<Catch(Len(values))>>, m)
    BY <2>5, Goes0, RunsOne
  <2>7. work' = (Rules[Item.rule] \o <<Catch(Len(values))>>) \o Rest
    BY <1>1, <1>6
  <2>8. Runs(Above(c, 0), work', Bottom)
    BY <1>2, <2>3, <2>6, <2>7, RunsCat
  <2>9. Stack(values', Above(c, 0))
    <3>1. Above(c, 0) \in Heights /\ Above(c, 0).height = d.height
      BY <2>1, <2>2, AboveIsHeight
    <3> QED
      BY <1>1, <1>2, <3>1 DEF Stack
  <2> QED
    BY <1>4, <2>8, <2>9, InvAfter
<1>7. CASE Item.rule # "parse" /\ Item.rule # "declaration"
  <2> DEFINE c == At(m.height - 1, m.base)
  <2>1. /\ Item.rule \in RuleNames /\ m.height \in Nat /\ m.height # 0 /\ m.base # -1
        /\ m.base \in Nat /\ m.base < m.height /\ d.height = (m.height - 1) + Gets(Item.rule)
    BY <1>3, <1>7 DEF Calls, Heights
  <2>2. c \in Caught /\ c.height = m.height - 1 /\ c.base = m.base
    BY <2>1 DEF Caught, Heights, At
  <2> HIDE DEF c
  <2>3. Runs(Above(c, Gets(Item.rule)), Rules[Item.rule], Above(c, 1))
    BY <1>7, <2>1, <2>2, RulesDo DEF Does
  <2>4. Above(c, Gets(Item.rule)) = d
    BY <1>3, <2>1, <2>2 DEF Above, At, Heights
  <2>5. Above(c, 1) = m
    BY <1>3, <2>1, <2>2 DEF Above, At, Heights
  <2>6. Runs(d, Rules[Item.rule] \o <<>>, m)
    BY <2>3, <2>4, <2>5, RunsNone, RunsCat
  <2>7. work' = (Rules[Item.rule] \o <<>>) \o Rest
    BY <1>1, <1>7
  <2>8. Runs(d, work', Bottom)
    BY <1>2, <2>6, <2>7, RunsCat
  <2> QED
    BY <1>1, <1>2, <1>4, <2>8, InvAfter
<1> QED
  BY <1>5, <1>6, <1>7

\* match: one of the alternatives goes on.
LEMMA SwitchKeepsInv ==
  ASSUME ParserInv, DoSwitch
  PROVE  ParserInv'
<1> DEFINE fits == {i \in DOMAIN Item.alternatives :
                      token.type \in Item.alternatives[i].types}
           first == CHOOSE i \in fits : \A j \in fits : i <= j
           chosen == Item.alternatives[first]
<1>1. /\ work # <<>> /\ Item.op = "switch" /\ had_error' = had_error
      /\ IF fits = {}
         THEN work' = Item.otherwise \o Rest /\ values' = values /\ Stay
         ELSE /\ work' = chosen.items \o Rest
              /\ values' = IF chosen.takes = "leaf" THEN Append(values, LeafOf(token))
                           ELSE values
              /\ IF chosen.takes = "nothing" THEN Stay ELSE Advance
  BY DEF DoSwitch, Doing
<1>2. PICK T, d, m : /\ Typed(T) /\ Stack(values, d) /\ Moves(T, d, Item, m)
                     /\ Runs(m, Rest, Bottom)
  BY <1>1, ItemMoves
<1>3. /\ d \in Heights /\ DOMAIN Item.alternatives \subseteq Nat
      /\ \A i \in DOMAIN Item.alternatives :
            Leads(T, Taken(d, Item.alternatives[i]), Item.alternatives[i].items, m)
      /\ Leads(T, d, Item.otherwise, m)
  BY <1>1, <1>2 DEF Moves
<1>4. wanted' \in {"none", "next", "peek"} /\ had_error' \in BOOLEAN
  <2>1. Advance \/ Stay
    BY <1>1
  <2> QED
    BY <1>1, <2>1, AsksForTokens DEF ParserInv
<1>5. CASE fits = {}
  <2>1. Runs(d, Item.otherwise, m)
    BY <1>2, <1>3 DEF Runs
  <2>2. work' = Item.otherwise \o Rest /\ values' = values
    BY <1>1, <1>5
  <2>3. Runs(d, work', Bottom)
    BY <1>2, <2>1, <2>2, RunsCat
  <2> QED
    BY <1>2, <1>4, <2>2, <2>3, InvAfter
<1>6. CASE fits # {}
  <2>1. first \in DOMAIN Item.alternatives
    <3>1. fits \subseteq Nat
      BY <1>3
    <3>2. fits \subseteq DOMAIN Item.alternatives
      OBVIOUS
    <3> HIDE DEF fits
    <3>3. \E i \in fits : \A j \in fits : i <= j
      BY <1>6, <3>1, LeastMember
    <3>4. first \in fits
      BY <3>3
    <3> QED
      BY <3>2, <3>4
  <2>2. /\ work' = chosen.items \o Rest
        /\ values' = IF chosen.takes = "leaf" THEN Append(values, LeafOf(token)) ELSE values
    BY <1>1, <1>6
  <2>3. Leads(T, Taken(d, chosen), chosen.items, m)
    BY <1>3, <2>1
  <2> HIDE DEF first, fits, chosen
  <2>4. Runs(Taken(d, chosen), work', Bottom)
    <3>1. Runs(Taken(d, chosen), chosen.items, m)
      BY <1>2, <2>3 DEF Runs
    <3> QED
      BY <1>2, <2>2, <3>1, RunsCat
  <2>5. Stack(values', Taken(d, chosen))
    <3>1. CASE chosen.takes = "leaf"
      <4>1. Taken(d, chosen) \in Heights /\ Taken(d, chosen).height = d.height + 1
        BY <1>3, <3>1 DEF Taken, Heights, At
      <4> QED
        BY <1>2, <2>2, <3>1, <4>1, StackMore
    <3>2. CASE chosen.takes # "leaf"
      BY <1>2, <2>2, <3>2 DEF Taken
    <3> QED
      BY <3>1, <3>2
  <2> QED
    BY <1>4, <2>4, <2>5, InvAfter
<1> QED
  BY <1>5, <1>6

\* A condition: one of the two lists goes on.
LEMMA WhenKeepsInv ==
  ASSUME ParserInv, DoWhen
  PROVE  ParserInv'
<1>1. /\ work # <<>> /\ Item.op = "when" /\ values' = values /\ had_error' = had_error /\ Stay
      /\ \/ work' = Item.yes \o Rest
         \/ work' = Item.no \o Rest
  BY DEF DoWhen, Doing
<1>2. PICK T, d, m : /\ Typed(T) /\ Stack(values, d) /\ Moves(T, d, Item, m)
                     /\ Runs(m, Rest, Bottom)
  BY <1>1, ItemMoves
<1>3. Leads(T, d, Item.yes, m) /\ Leads(T, d, Item.no, m)
  BY <1>1, <1>2 DEF Moves
<1>4. Runs(d, Item.yes, m) /\ Runs(d, Item.no, m)
  BY <1>2, <1>3 DEF Runs
<1>5. Runs(d, work', Bottom)
  BY <1>1, <1>2, <1>4, RunsCat
<1>6. wanted' \in {"none", "next", "peek"} /\ had_error' \in BOOLEAN
  BY <1>1, AsksForTokens DEF ParserInv
<1> QED
  BY <1>1, <1>2, <1>5, <1>6, InvAfter

\* consume: the token is kept or passed over, or it is the wrong one.
LEMMA ConsumeKeepsInv ==
  ASSUME ParserInv, DoConsume
  PROVE  ParserInv'
<1>1. /\ work # <<>> /\ Item.op = "consume" /\ work' = Rest /\ Advance
      /\ had_error' = (had_error \/ token.type # Item.type)
      /\ values' = IF ~Item.keep THEN values
                   ELSE Append(values, IF AtEof THEN Leaf("Illegal", <<>>) ELSE LeafOf(token))
  BY DEF DoConsume, Doing
<1>2. PICK T, d, m : /\ Typed(T) /\ Stack(values, d) /\ Moves(T, d, Item, m)
                     /\ Runs(m, Rest, Bottom)
  BY <1>1, ItemMoves
<1>3. /\ m \in Heights /\ d \in Heights
      /\ m.height = IF Item.keep THEN d.height + 1 ELSE d.height
  BY <1>1, <1>2 DEF Moves
<1>4. Stack(values', m)
  <2>1. CASE Item.keep
    BY <1>1, <1>2, <1>3, <2>1, StackMore
  <2>2. CASE ~Item.keep
    BY <1>1, <1>2, <1>3, <2>2 DEF Stack
  <2> QED
    BY <2>1, <2>2
<1>5. wanted' \in {"none", "next", "peek"}
  BY <1>1, AsksForTokens
<1>6. had_error' \in BOOLEAN
  BY <1>1
<1> QED
  BY <1>1, <1>2, <1>4, <1>5, <1>6, InvAfter

\* A node takes its values and stands in their place.
LEMMA BuildKeepsInv ==
  ASSUME ParserInv, DoBuild
  PROVE  ParserInv'
<1>1. work # <<>> /\ work' = Rest /\ had_error' = had_error /\ Stay
  BY DEF DoBuild, Doing
<1>2. PICK T, d, m : /\ Typed(T) /\ Stack(values, d) /\ Moves(T, d, Item, m)
                     /\ Runs(m, Rest, Bottom)
  BY <1>1, ItemMoves
<1>3. wanted' \in {"none", "next", "peek"} /\ had_error' \in BOOLEAN
  BY <1>1, AsksForTokens DEF ParserInv
<1>4. /\ d \in Heights /\ m \in Heights /\ d.height \in Nat /\ m.height \in Nat
      /\ Len(values) = d.height + 1
  BY <1>2 DEF Moves, Stack, Heights
<1>5. CASE /\ Item.op = "build"
           /\ values' = Append(Popped(Item.n), Make(Item.kind, Parts(Item.n)))
  <2>1. Item.n \in Nat /\ m.height # 0 /\ d.height = (m.height - 1) + Item.n
    BY <1>2, <1>5 DEF Moves
  <2> DEFINE k == At(m.height - 1, -1)
  <2>2. k \in Heights /\ k.height = m.height - 1 /\ m.height = k.height + 1
    BY <1>4, <2>1 DEF Heights, At
  <2>3. Len(values) - Item.n = m.height /\ m.height <= d.height + 1
    BY <1>4, <2>1
  <2>4. Popped(Item.n) = SubSeq(values, 1, m.height)
    BY <2>3 DEF Popped
  <2> HIDE DEF k
  <2>5. Stack(Popped(Item.n), k)
    <3>1. /\ IsSeq(SubSeq(values, 1, m.height)) /\ Len(SubSeq(values, 1, m.height)) = m.height
          /\ SubSeq(values, 1, m.height)[1].kind = "List"
      BY <1>2, <1>4, <2>1, <2>3, StackCut
    <3> QED
      BY <2>2, <2>4, <3>1 DEF Stack
  <2>6. Stack(values', m)
    BY <1>4, <1>5, <2>2, <2>5, StackMore
  <2> QED
    BY <1>1, <1>2, <1>3, <2>6, InvAfter
<1>6. CASE Item.op = "push" /\ values' = Append(values, Item.tree)
  <2>1. m.height = d.height + 1
    BY <1>2, <1>6 DEF Moves
  <2>2. Stack(values', m)
    BY <1>2, <1>4, <1>6, <2>1, StackMore
  <2> QED
    BY <1>1, <1>2, <1>3, <2>2, InvAfter
<1>7. CASE Item.op = "drop" /\ values' = Popped(Item.n)
  <2>1. Item.n \in Nat /\ d.height = m.height + Item.n
    BY <1>2, <1>7 DEF Moves
  <2>2. /\ Len(values) - Item.n = m.height + 1 /\ m.height + 1 \in Nat
        /\ m.height + 1 <= d.height + 1 /\ m.height + 1 # 0
    BY <1>4, <2>1
  <2>3. values' = SubSeq(values, 1, m.height + 1)
    BY <1>7, <2>2 DEF Popped
  <2>4. Stack(values', m)
    BY <1>2, <1>4, <2>2, <2>3, StackCut DEF Stack
  <2> QED
    BY <1>1, <1>2, <1>3, <2>4, InvAfter
<1>8. CASE /\ Item.op = "append"
           /\ values' = Append(Popped(2), List(Append(Under(1).parts, Under(0))))
  <2> DEFINE s == SubSeq(values, 1, m.height)
             x == List(Append(Under(1).parts, Under(0)))
  <2>1. d.height = m.height + 1
    BY <1>2, <1>8 DEF Moves
  <2>2. Len(values) - 2 = m.height /\ m.height <= d.height + 1
    BY <1>4, <2>1
  <2>3. values' = Append(s, x) /\ x.kind = "List"
    BY <1>8, <2>2 DEF Popped, List, Node
  <2>4. IsSeq(s) /\ Len(s) = m.height /\ (m.height # 0 => s[1].kind = "List")
    BY <1>2, <1>4, <2>2, StackCut
  <2> HIDE DEF s, x
  <2>5. IsSeq(values') /\ Len(values') = m.height + 1
    BY <2>3, <2>4, SeqAppend
  <2>6. values'[1].kind = "List"
    <3>1. s \in Seq(Range(s) \cup {x})
      BY <2>4 DEF IsSeq
    <3>2. CASE m.height = 0
      <4>1. Append(s, x)[1] = x
        BY <2>4, <3>1, <3>2
      <4> QED
        BY <2>3, <4>1
    <3>3. CASE m.height # 0
      <4>1. Append(s, x)[1] = s[1]
        BY <1>4, <2>4, <3>1, <3>3
      <4> QED
        BY <2>3, <2>4, <3>3, <4>1
    <3> QED
      BY <3>2, <3>3
  <2>7. Stack(values', m)
    BY <1>4, <2>5, <2>6 DEF Stack
  <2> QED
    BY <1>1, <1>2, <1>3, <2>7, InvAfter
<1> QED
  BY <1>5, <1>6, <1>7, <1>8 DEF DoBuild, Doing

\* report_error leaves the stack alone.
LEMMA ReportKeepsInv ==
  ASSUME ParserInv, DoReport \/ DoLook \/ DoSynchronize
  PROVE  ParserInv'
<1>1. /\ work # <<>> /\ Item.op \in {"report", "look", "synchronize"}
      /\ work' = Rest \/ work' = work
      /\ values' = values /\ had_error' \in {TRUE, had_error}
      /\ wanted' = "peek" \/ Advance \/ Stay
  BY DEF DoReport, DoLook, DoSynchronize, Doing, Stay
<1>2. PICK T, d, m : /\ Typed(T) /\ Stack(values, d) /\ Moves(T, d, Item, m)
                     /\ Runs(m, Rest, Bottom) /\ Runs(d, work, Bottom)
  BY <1>1, ItemMoves
<1>3. m = d
  BY <1>1, <1>2 DEF Moves
<1>4. wanted' \in {"none", "next", "peek"} /\ had_error' \in BOOLEAN
  BY <1>1, AsksForTokens DEF ParserInv
<1> QED
  BY <1>1, <1>2, <1>3, <1>4, InvAfter

\* declaration: the handler is set where the declaration starts, and taken away.
LEMMA CatchKeepsInv ==
  ASSUME ParserInv, DoCatch
  PROVE  ParserInv'
<1>1. /\ work # <<>> /\ Item.op = "catch" /\ work' = Rest
      /\ values' = values /\ had_error' = had_error /\ Stay
  BY DEF DoCatch, Doing
<1>2. PICK T, d, m : /\ Typed(T) /\ Stack(values, d) /\ Moves(T, d, Item, m)
                     /\ Runs(m, Rest, Bottom)
  BY <1>1, ItemMoves
<1>3. m \in Heights /\ m.height = d.height
  BY <1>1, <1>2 DEF Moves
<1>4. Stack(values', m)
  BY <1>1, <1>2, <1>3 DEF Stack
<1>5. wanted' \in {"none", "next", "peek"} /\ had_error' \in BOOLEAN
  BY <1>1, AsksForTokens DEF ParserInv
<1> QED
  BY <1>1, <1>2, <1>4, <1>5, InvAfter

\* A way through the work, place by place.
Way(T, h, d) ==
  /\ Typed(T) /\ IsSeq(work) /\ h[0] = d /\ h[Len(work)] = Bottom
  /\ \A i \in DOMAIN work : <<h[i - 1], work[i], h[i]>> \in T

\* There is a way through the work when it runs.
LEMMA WayExists ==
  ASSUME NEW d, Runs(d, work, Bottom)
  PROVE  \E T, h : Way(T, h, d)
  BY DEF Runs, Leads, Way

\* Each item of the work moves the heights on the way.
LEMMA WayMoves ==
  ASSUME NEW T, NEW h, NEW d, Way(T, h, d)
  PROVE  /\ Len(work) \in Nat /\ DOMAIN work = 1..Len(work)
         /\ \A i \in 1..Len(work) : Moves(T, h[i - 1], work[i], h[i])
<1>1. Len(work) \in Nat /\ DOMAIN work = 1..Len(work)
  BY SeqLen DEF Way
<1>2. \A i \in 1..Len(work) : Moves(T, h[i - 1], work[i], h[i])
  BY <1>1 DEF Way, Typed
<1> QED
  BY <1>1, <1>2

\* Up to the first mark of a handler the same handler is active.
LEMMA BaseIsKept ==
  ASSUME NEW T, NEW h, NEW d, Way(T, h, d), NEW n \in 0..Len(work),
         \A i \in 1..n : work[i].op # "catch"
  PROVE  h[n].base = d.base
<1> DEFINE Bad == {i \in 0..n : h[i].base # d.base}
<1>1. Len(work) \in Nat /\ n \in Nat /\ n <= Len(work) /\ h[0] = d
  BY WayMoves DEF Way
<1>2. SUFFICES ASSUME Bad # {} PROVE FALSE
  BY <1>1
<1>3. Bad \subseteq Nat
  BY <1>1
<1>4. \A i \in Bad : i \in 0..n /\ h[i].base # d.base
  OBVIOUS
<1>5. \A i \in 0..n : i \notin Bad => h[i].base = d.base
  OBVIOUS
<1> HIDE DEF Bad
<1>6. PICK i \in Bad : \A j \in Bad : i <= j
  BY <1>2, <1>3, LeastMember
<1>7. i \in 1..n /\ i - 1 \in 0..n /\ i - 1 \notin Bad
  BY <1>1, <1>4, <1>6
<1>8. i \in 1..Len(work) /\ work[i].op # "catch"
  BY <1>1, <1>7
<1>9. Moves(T, h[i - 1], work[i], h[i])
  BY <1>8, WayMoves
<1>10. h[i].base = h[i - 1].base
  BY <1>8, <1>9 DEF Moves
<1> QED
  BY <1>4, <1>5, <1>6, <1>7, <1>10

\* The handlers further on go back to no more values.
LEMMA BaseFalls ==
  ASSUME NEW T, NEW h, NEW d \in Heights, Way(T, h, d), NEW n \in 0..Len(work)
  PROVE  h[n].base <= d.base
<1> DEFINE Bad == {i \in 0..Len(work) : ~(h[i].base <= d.base)}
<1>1. Len(work) \in Nat /\ h[0] = d /\ d.base \in Int
  BY WayMoves DEF Way, Heights
<1>2. SUFFICES ASSUME Bad # {} PROVE FALSE
  OBVIOUS
<1>3. Bad \subseteq Nat
  BY <1>1
<1>4. \A i \in Bad : i \in 0..Len(work) /\ ~(h[i].base <= d.base)
  OBVIOUS
<1>5. \A i \in 0..Len(work) : i \notin Bad => h[i].base <= d.base
  OBVIOUS
<1> HIDE DEF Bad
<1>6. PICK i \in Bad : \A j \in Bad : i <= j
  BY <1>2, <1>3, LeastMember
<1>7. i \in 1..Len(work) /\ i - 1 \in 0..Len(work) /\ i - 1 \notin Bad
  BY <1>1, <1>4, <1>6
<1>8. Moves(T, h[i - 1], work[i], h[i])
  BY <1>7, WayMoves
<1>9. h[i].base <= h[i - 1].base /\ h[i].base \in Int /\ h[i - 1].base \in Int
  BY <1>8 DEF Moves, Heights
<1> QED
  BY <1>1, <1>4, <1>5, <1>6, <1>7, <1>9

\* An exception: what is left up to the handler is dropped, with its values.
LEMMA ThrowKeepsInv ==
  ASSUME ParserInv, DoThrow
  PROVE  ParserInv'
<1> DEFINE catches == {i \in DOMAIN work : work[i].op = "catch"}
           inner == CHOOSE i \in catches : \A j \in catches : i <= j
           after == SubSeq(work, inner + 1, Len(work))
<1>1. /\ work # <<>> /\ Item.op = "throw" /\ had_error' = had_error
      /\ values' = SubSeq(values, 1, work[inner].height)
      /\ work' = <<Synchronize, Push(Absent)>> \o after /\ Advance
  BY DEF DoThrow, Doing, Recover
<1>2. PICK T0, d, m0 : /\ Stack(values, d) /\ Moves(T0, d, Item, m0) /\ Runs(d, work, Bottom)
  BY <1>1, ItemMoves
<1>3. d.base # -1 /\ d \in Heights
  BY <1>1, <1>2 DEF Moves
<1>4. PICK T, h : Way(T, h, d)
  BY <1>2, WayExists
<1>5. Len(work) \in Nat /\ DOMAIN work = 1..Len(work)
  BY <1>4, WayMoves
<1>6. catches # {}
  <2>1. SUFFICES ASSUME catches = {} PROVE FALSE
    OBVIOUS
  <2>2. \A i \in 1..Len(work) : work[i].op # "catch"
    BY <1>5, <2>1
  <2>3. Len(work) \in 0..Len(work)
    BY <1>5
  <2>4. h[Len(work)].base = d.base
    BY <1>4, <2>2, <2>3, BaseIsKept
  <2>5. h[Len(work)].base = -1
    BY <1>4 DEF Way, Bottom, At
  <2> QED
    BY <1>3, <2>4, <2>5
<1>7. /\ inner \in 1..Len(work) /\ work[inner].op = "catch"
      /\ \A j \in 1..(inner - 1) : work[j].op # "catch"
  <2>1. catches \subseteq Nat
    BY <1>5
  <2>2. \A i \in catches : i \in 1..Len(work) /\ work[i].op = "catch"
    BY <1>5
  <2>3. \A i \in 1..Len(work) : i \notin catches => work[i].op # "catch"
    BY <1>5
  <2> HIDE DEF catches
  <2>4. \E i \in catches : \A j \in catches : i <= j
    BY <1>6, <2>1, LeastMember
  <2>5. inner \in catches /\ \A j \in catches : inner <= j
    BY <2>4
  <2> HIDE DEF inner
  <2>6. ASSUME NEW j \in 1..(inner - 1) PROVE work[j].op # "catch"
    <3>1. inner \in 1..Len(work)
      BY <2>2, <2>5
    <3>2. j \in 1..Len(work) /\ ~(inner <= j)
      BY <1>5, <3>1
    <3> QED
      BY <2>3, <2>5, <3>2
  <2> QED
    BY <2>2, <2>5, <2>6
<1> HIDE DEF inner, catches
<1> DEFINE p == h[inner - 1]
           k == h[inner]
           e == At(k.height - 1, k.base)
<1>8. Moves(T, p, work[inner], k)
  BY <1>4, <1>7, WayMoves
<1>9. p.base = d.base
  <2>1. inner - 1 \in 0..Len(work)
    BY <1>5, <1>7
  <2> QED
    BY <1>4, <1>7, <2>1, BaseIsKept
<1>10. /\ p \in Heights /\ k \in Heights /\ work[inner].height = p.height
       /\ k.height = p.height /\ p.base = p.height - 1 /\ k.base <= p.base
  BY <1>7, <1>8 DEF Moves
<1>11. Leads(T, k, after, Bottom)
  <2>1. inner \in 0..Len(work)
    BY <1>5, <1>7
  <2>2. IsSeq(work) /\ \A i \in DOMAIN work : <<h[i - 1], work[i], h[i]>> \in T
    BY <1>4 DEF Way
  <2>3. Leads(T, h[inner], SubSeq(work, inner + 1, Len(work)), h[Len(work)])
    BY <2>1, <2>2, LeadsFrom
  <2> QED
    BY <1>4, <2>3 DEF Way
<1> HIDE DEF k, p, after
<1>12. /\ k.height \in Nat /\ k.height # 0 /\ k.height <= d.height + 1
       /\ e \in Heights /\ e.height = k.height - 1 /\ e.base = k.base
  <2>1. /\ d.height \in Nat /\ d.base \in Nat /\ d.base <= d.height
        /\ p.height \in Nat /\ k.height \in Nat /\ k.base \in Nat \cup {-1}
    BY <1>3, <1>10 DEF Heights
  <2>2. /\ k.height # 0 /\ k.height <= d.height + 1
        /\ k.height - 1 \in Nat /\ k.base <= k.height - 1
    BY <1>9, <1>10, <2>1
  <2>3. e.height = k.height - 1 /\ e.base = k.base
    BY DEF At
  <2>4. e \in [height : Nat, base : Nat \cup {-1}]
    BY <2>1, <2>2 DEF At
  <2> HIDE DEF e
  <2> QED
    BY <2>1, <2>2, <2>3, <2>4 DEF Heights
<1> HIDE DEF e
<1>13. Goes(e, Synchronize, e)
  BY <1>12, Goes0 DEF Moves, Synchronize
<1>14. Goes(e, Push(Absent), k)
  <2>1. Moves({}, e, Push(Absent), k)
    BY <1>10, <1>12 DEF Moves, Push
  <2> QED
    BY <2>1, Goes0
<1>15. Runs(e, <<Synchronize, Push(Absent)>>, k)
  <2>1. <<Synchronize, Push(Absent)>> = <<Synchronize>> \o <<Push(Absent)>>
    OBVIOUS
  <2> QED
    BY <1>13, <1>14, <2>1, RunsOne, RunsCat
<1>16. Runs(e, work', Bottom)
  <2>1. Runs(k, after, Bottom)
    BY <1>4, <1>11 DEF Runs, Way
  <2> QED
    BY <1>1, <1>15, <2>1, RunsCat
<1>17. Stack(values', e)
  <2>1. values' = SubSeq(values, 1, k.height)
    BY <1>1, <1>10
  <2>2. /\ IsSeq(values') /\ Len(values') = k.height /\ values'[1].kind = "List"
    BY <1>2, <1>12, <2>1, StackCut
  <2>3. k.height = e.height + 1
    BY <1>12
  <2> QED
    BY <1>12, <2>2, <2>3 DEF Stack
<1>18. wanted' \in {"none", "next", "peek"} /\ had_error' \in BOOLEAN
  BY <1>1, AsksForTokens DEF ParserInv
<1> QED
  BY <1>16, <1>17, <1>18, InvAfter

\* The invariant says what the type invariant says.
LEMMA InvIsTyped ==
  ASSUME ParserInv
  PROVE  ParserTypeOK
<1>1. PICK d : Stack(values, d) /\ Runs(d, work, Bottom)
  BY DEF ParserInv
<1>2. PICK T, h : Way(T, h, d)
  BY <1>1, WayExists
<1>3. /\ d \in Heights /\ d.height \in Nat /\ d.base \in Int /\ d.base <= d.height
      /\ Len(values) = d.height + 1 /\ values[1].kind = "List"
  BY <1>1 DEF Stack, Heights
<1>4. Len(work) \in Nat /\ DOMAIN work = 1..Len(work)
  BY <1>2, WayMoves
<1>5. ASSUME NEW i \in DOMAIN work, work[i].op = "catch"
      PROVE  work[i].height <= Len(values)
  <2>1. Moves(T, h[i - 1], work[i], h[i])
    BY <1>2, <1>4, WayMoves
  <2>2. /\ work[i].height = h[i - 1].height /\ h[i - 1].base = h[i - 1].height - 1
        /\ h[i - 1].height \in Nat
    BY <1>5, <2>1 DEF Moves, Heights
  <2>3. i - 1 \in 0..Len(work)
    BY <1>4
  <2>4. h[i - 1].base <= d.base
    BY <1>2, <1>3, <2>3, BaseFalls
  <2> QED
    BY <1>3, <2>2, <2>4
<1>6. ASSUME work = <<>> PROVE Len(values) = 1
  <2>1. Len(work) = 0
    BY <1>6
  <2>2. d = Bottom
    BY <1>2, <2>1 DEF Way
  <2> QED
    BY <1>3, <2>2 DEF Bottom, At
<1>7. Len(values) >= 1
  BY <1>3
<1> QED
  BY <1>3, <1>5, <1>6, <1>7 DEF ParserTypeOK, ParserInv, Parsed, Tree

\* It holds at the start,
LEMMA ParserInitInv ==
  ASSUME ParserInit
  PROVE  ParserInv
<1>1. Bottom \in Heights /\ Bottom.height = 0
  BY DEF Bottom, Heights, At
<1>2. Runs(Bottom, <<Call("parse")>>, Bottom)
  <2>1. Calls(Bottom, "parse", Bottom)
    BY GetsValues DEF Calls
  <2>2. Moves({}, Bottom, Call("parse"), Bottom)
    BY <1>1, <2>1 DEF Moves, Call
  <2> QED
    BY <2>2, Goes0, RunsOne
<1>3. Stack(<<None>>, Bottom)
  <2>1. Len(<<None>>) = 1 /\ <<None>>[1] = None /\ None.kind = "List"
    BY DEF None, List, Node
  <2>2. IsSeq(<<None>>)
    <3>1. <<None>> \in Seq({None})
      OBVIOUS
    <3> QED
      BY <3>1, SeqIn
  <2> QED
    BY <1>1, <2>1, <2>2 DEF Stack
<1> QED
  BY <1>2, <1>3 DEF ParserInit, ParserInv

\* A token arrives.
LEMMA ReceiveKeepsInv ==
  ASSUME ParserInv, NEW t, Receive(t)
  PROVE  ParserInv'
<1>1. work' = work /\ values' = values /\ had_error' = had_error /\ wanted' = "none"
  BY DEF Receive
<1>2. PICK d : Stack(values, d) /\ Runs(d, work, Bottom)
  BY DEF ParserInv
<1> QED
  BY <1>1, <1>2, InvAfter DEF ParserInv

\* Nothing of the parser changes.
LEMMA StutterKeepsInv ==
  ASSUME ParserInv, UNCHANGED parserVars
  PROVE  ParserInv'
  BY DEF ParserInv, parserVars

\* Every step of the parser keeps it.
LEMMA StepKeepsInv ==
  ASSUME ParserInv, [FrontEndNext]_frontEndVars
  PROVE  ParserInv'
<1>1. CASE Ask
  BY <1>1, StutterKeepsInv DEF Ask
<1>2. CASE Answer
  BY <1>2, StutterKeepsInv, ReceiveKeepsInv DEF Answer
<1>3. CASE Parse
  <2>1. ParserStep
    BY <1>3 DEF Parse
  <2> QED
    BY <2>1, CallKeepsInv, SwitchKeepsInv, WhenKeepsInv, ConsumeKeepsInv, BuildKeepsInv,
       ReportKeepsInv, ThrowKeepsInv, CatchKeepsInv DEF ParserStep
<1>4. CASE UNCHANGED frontEndVars
  BY <1>4, StutterKeepsInv DEF frontEndVars
<1> QED
  BY <1>1, <1>2, <1>3, <1>4 DEF FrontEndNext

\* The inductive invariant of the parser, run as the front end runs it: what is
\* left to do takes every value that was built, and every throw has its handler.
THEOREM ParserInvariant == FrontEndSpec => []ParserInv
<1>1. FrontEndInit => ParserInv
  BY ParserInitInv DEF FrontEndInit
<1>2. ParserInv /\ [FrontEndNext]_frontEndVars => ParserInv'
  BY StepKeepsInv
<1> QED
  BY <1>1, <1>2, PTL DEF FrontEndSpec

\* For every text: the parser ends with the list of declarations and nothing
\* else, and no function finds fewer values than it takes (parser.cpp builds its
\* tree out of what its callees return, also behind a handled error).
THEOREM ValuesAreBalanced == FrontEndSpec => []ParserTypeOK
<1>1. ParserInv => ParserTypeOK
  BY InvIsTyped
<1> QED
  BY <1>1, ParserInvariant, PTL

-----------------------------------------------------------------------------
(* The two together.                                                          *)

\* What passes between the two: the lexer is at work only on what the parser
\* asks for, the token in the parser's hands is the last one it was given, and
\* behind the end of the text none is asked for.
Handover ==
  /\ asked # "none" => asked = wanted
  /\ given = <<>> => wanted = "next"
  /\ given # <<>> => token = Lexeme(given[Len(given)])
  /\ given # <<>> /\ wanted = "next" => given[Len(given)].type # "Eof"

\* A scan goes on, or returns one token to the call.
LEMMA ScanReturns ==
  ASSUME Scan, given \in Seq(TokenType)
  PROVE  /\ source' = source
         /\ \/ asked' = asked /\ given' = given
            \/ asked' = "none" /\ asked = "peek" /\ given' = given
            \/ asked' = "none" /\ asked # "peek" /\ given' # <<>>
<1>1. ASSUME NEW n, NEW next, Over(n, next)
      PROVE  source' = source /\ asked' = asked /\ given' = given
  BY <1>1 DEF Over
<1>2. ASSUME OverNewline
      PROVE  source' = source /\ asked' = asked /\ given' = given
  BY <1>2 DEF OverNewline
<1>3. ASSUME NEW type, NEW to, Return(type, to)
      PROVE  /\ source' = source /\ asked' = "none"
             /\ (asked = "peek" => given' = given) /\ (asked # "peek" => given' # <<>>)
  <2>1. ASSUME NEW x PROVE Append(given, x) # <<>>
    <3>1. IsSeq(given)
      BY SeqIn
    <3>2. Len(Append(given, x)) = Len(given) + 1 /\ Len(given) \in Nat
      BY <3>1, SeqAppend, SeqLen
    <3>3. Len(<<>>) = 0
      OBVIOUS
    <3> QED
      BY <3>2, <3>3
  <2> QED
    BY <1>3, <2>1 DEF Return
<1>4. CASE SkipBlank \/ SkipNewline \/ SkipLineComment
  BY <1>1, <1>2, <1>4 DEF SkipBlank, SkipNewline, SkipLineComment
<1>5. CASE SkipBlockComment
  BY <1>1, <1>2, <1>5 DEF SkipBlockComment
<1>6. CASE StartToken
  BY <1>6 DEF StartToken
<1>7. CASE Symbol
  BY <1>3, <1>7 DEF Symbol
<1>8. CASE Identifier
  BY <1>1, <1>3, <1>8 DEF Identifier
<1>9. CASE Number
  BY <1>1, <1>3, <1>9 DEF Number
<1>10. CASE String
  BY <1>1, <1>2, <1>3, <1>10 DEF String
<1> QED
  BY <1>4, <1>5, <1>6, <1>7, <1>8, <1>9, <1>10 DEF Scan

\* In the parser's hands are the type and the characters of the token.
LEMMA LexemeKeeps ==
  ASSUME source' = source, NEW t
  PROVE  Lexeme(t)' = Lexeme(t) /\ Lexeme(t).type = t.type
  BY DEF Lexeme

\* The parser takes no step while it waits, and asks for no token behind the end.
LEMMA ParserStepAsks ==
  ASSUME ParserStep
  PROVE  /\ wanted = "none" /\ token' = token
         /\ wanted' = "next" => token.type # "Eof"
<1>1. ASSUME wanted = "none", Advance \/ Stay
      PROVE  wanted' = "next" => token.type # "Eof"
  BY <1>1 DEF Advance, Stay, AtEof
<1>2. CASE DoCall \/ DoWhen \/ DoReport \/ DoCatch
  BY <1>1, <1>2 DEF DoCall, DoWhen, DoReport, DoCatch, Doing
<1>3. CASE DoSwitch
  BY <1>1, <1>3 DEF DoSwitch, Doing
<1>4. CASE DoConsume
  BY <1>1, <1>4 DEF DoConsume, Doing
<1>5. CASE DoBuild
  BY <1>1, <1>5 DEF DoBuild, Doing
<1>6. CASE DoLook
  BY <1>6 DEF DoLook, Doing
<1>7. CASE DoThrow
  BY <1>1, <1>7 DEF DoThrow, Doing, Recover
<1>8. CASE DoSynchronize
  BY <1>1, <1>8 DEF DoSynchronize, Doing
<1> QED
  BY <1>2, <1>3, <1>4, <1>5, <1>6, <1>7, <1>8 DEF ParserStep

\* Every step keeps what passes between the two.
LEMMA HandoverKeeps ==
  ASSUME Handover, ParserInv, given \in Seq(TokenType), [FrontEndNext]_frontEndVars
  PROVE  Handover'
<1>1. CASE Ask
  <2>1. /\ source' = source /\ given' = given /\ wanted' = wanted /\ token' = token
        /\ asked' = wanted
    <3>1. wanted \in {"next", "peek"}
      BY <1>1 DEF Ask, ParserInv
    <3> QED
      BY <1>1, <3>1 DEF Ask, NextToken, PeekNextToken, parserVars
  <2> QED
    BY <2>1, LexemeKeeps DEF Handover
<1>2. CASE Answer /\ asked' = "none"
  <2>1. /\ Scan /\ asked # "none" /\ asked = wanted
        /\ Receive(Lexeme(IF asked = "peek" THEN ahead' ELSE given'[Len(given')]))
    BY <1>2 DEF Answer, Scan, Handover
  <2>2. source' = source /\ wanted' = "none"
    BY <2>1, ScanReturns DEF Receive
  <2>3. CASE asked = "peek"
    <3>1. given' = given /\ token' = token
      BY <2>1, <2>3, ScanReturns DEF Receive
    <3> QED
      BY <1>2, <2>1, <2>2, <2>3, <3>1, LexemeKeeps DEF Handover
  <2>4. CASE asked # "peek"
    <3>1. wanted = "next"
      BY <2>1, <2>4 DEF ParserInv
    <3>2. given' # <<>> /\ token' = Lexeme(given'[Len(given')])
      BY <1>2, <2>1, <2>4, <3>1, ScanReturns DEF Receive
    <3>3. Lexeme(given[Len(given)])' = Lexeme(given'[Len(given')])
      BY <2>2 DEF Lexeme
    <3> QED
      BY <1>2, <2>2, <3>2, <3>3 DEF Handover
  <2> QED
    BY <2>3, <2>4
<1>3. CASE Answer /\ asked' # "none"
  <2>1. Scan /\ wanted' = wanted /\ token' = token
    BY <1>3 DEF Answer, parserVars
  <2>2. source' = source /\ given' = given /\ asked' = asked
    BY <1>3, <2>1, ScanReturns
  <2> QED
    BY <2>1, <2>2, LexemeKeeps DEF Handover
<1>4. CASE Parse
  <2>1. /\ asked = "none" /\ asked' = asked /\ given' = given /\ source' = source
        /\ wanted = "none" /\ token' = token /\ (wanted' = "next" => token.type # "Eof")
    BY <1>4, ParserStepAsks DEF Parse, lexerVars
  <2> QED
    BY <2>1, LexemeKeeps DEF Handover
<1>5. CASE UNCHANGED frontEndVars
  <2>1. /\ asked' = asked /\ given' = given /\ source' = source
        /\ wanted' = wanted /\ token' = token
    BY <1>5 DEF frontEndVars, lexerVars, parserVars
  <2> QED
    BY <2>1, LexemeKeeps DEF Handover
<1> QED
  BY <1>1, <1>2, <1>3, <1>4, <1>5 DEF FrontEndNext

\* What the parser does to the lexer is what its callers may do.
LEMMA StepsOfTheLexer ==
  ASSUME Handover, ParserInv, [FrontEndNext]_frontEndVars
  PROVE  [LexerNext]_lexerVars
<1>1. CASE Ask
  <2>1. wanted \in {"next", "peek"}
    BY <1>1 DEF Ask, ParserInv
  <2>2. wanted = "next" /\ given # <<>> => given[Len(given)].type # "Eof"
    BY DEF Handover
  <2> QED
    BY <1>1, <2>1, <2>2 DEF Ask, LexerNext
<1>2. CASE Answer
  BY <1>2 DEF Answer, LexerNext
<1>3. CASE Parse \/ UNCHANGED frontEndVars
  BY <1>3 DEF Parse, frontEndVars
<1> QED
  BY <1>1, <1>2, <1>3 DEF FrontEndNext

\* The invariant of the two together.
FrontEndInv == LexerInv /\ ParserInv /\ Handover

\* The two invariants hold together with what passes between.
LEMMA FrontEndInvariant == FrontEndSpec => []FrontEndInv
<1>1. TextsAssumption
  BY TextsAssumption
<1>2. FrontEndInit => FrontEndInv
  <2>1. FrontEndInit => LexerInv /\ ParserInv
    BY <1>1, LexerInitInv, ParserInitInv DEF FrontEndInit
  <2>2. FrontEndInit => Handover
    BY DEF FrontEndInit, LexerInit, ParserInit, Handover
  <2> QED
    BY <2>1, <2>2 DEF FrontEndInv
<1>3. FrontEndInv /\ [FrontEndNext]_frontEndVars => FrontEndInv'
  <2> SUFFICES ASSUME FrontEndInv, [FrontEndNext]_frontEndVars PROVE FrontEndInv'
    OBVIOUS
  <2>1. LexerInv /\ ParserInv /\ Handover /\ given \in Seq(TokenType)
    BY DEF FrontEndInv, LexerInv, LexerTypeOK
  <2>2. LexerInv'
    BY <1>1, <2>1, StepsOfTheLexer, LexerStepKeeps
  <2> QED
    BY <2>1, <2>2, StepKeepsInv, HandoverKeeps DEF FrontEndInv
<1> QED
  BY <1>2, <1>3, PTL DEF FrontEndSpec

\* The front end drives the lexer the way the lexer's own specification lets
\* its callers: whatever is proved of that one holds while a text is parsed.
THEOREM FrontEndDrivesLexer == FrontEndSpec => LexerSpec
<1>1. FrontEndInit => LexerInit
  BY DEF FrontEndInit
<1>2. FrontEndInv /\ [FrontEndNext]_frontEndVars => [LexerNext]_lexerVars
  BY StepsOfTheLexer DEF FrontEndInv
<1> QED
  BY <1>1, <1>2, FrontEndInvariant, PTL DEF FrontEndSpec, LexerSpec

\* So every token the parser reports a position of carries the right one.
THEOREM PositionsWhileParsing == FrontEndSpec => [](LexerTypeOK /\ PositionsAreRight)
  BY FrontEndDrivesLexer, LexerIsTypeCorrect, TokensArePlaced, PTL

\* And what the parser looks at is what it is given: a function that decides on
\* the next token consumes the one it decided on.
THEOREM LooksWhileParsing == FrontEndSpec => PeekedIsGiven
  BY FrontEndDrivesLexer, LookFindsWhatIsGiven, PTL

\* The token in the parser's hands is the last one the lexer gave, throughout:
\* none is skipped or seen twice, and none is asked for behind the end.
THEOREM TokensAreHandedOver == FrontEndSpec => []Handover
<1>1. FrontEndInv => Handover
  BY DEF FrontEndInv
<1> QED
  BY <1>1, FrontEndInvariant, PTL
=============================================================================
