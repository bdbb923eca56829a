---------------------------- MODULE TokenStream -----------------------------
(* What a lexer promises: the tokens of a text are given one after the other, *)
(* each the longest lexeme where the trivia before it ends, and nothing else  *)
(* ever happens.  Lexemes are described by what they look like, not by how    *)
(* they are scanned.                                                          *)
EXTENDS Tokens, FiniteSetsExt

VARIABLES text,    \* the text being read
          given    \* the tokens given so far, without their positions in lines

Alnum == Letters \cup Digits
AllIn(s, set) == \A i \in 1..Len(s) : s[i] \in set
Ends(p) == (p + 1)..Len(text)
Piece(p, e) == SubSeq(text, p + 1, e)

\* A word is letters, digits and inner dots, and starts with a letter.
IsWord(s) ==
    /\ s[1] \in Letters
    /\ \A i \in 2..Len(s) :
          \/ s[i] \in Alnum
          \/ s[i] = "." /\ i < Len(s) /\ s[i + 1] \in Alnum
IsFloat(s) ==
    \E d \in 2..(Len(s) - 1) :
        /\ s[d] = "."
        /\ AllIn(SubSeq(s, 1, d - 1) \o SubSeq(s, d + 1, Len(s)), Digits)
IsBase81(s) ==
    /\ Len(s) > 3 /\ SubSeq(s, Len(s) - 2, Len(s)) = <<"t", "8", "1">>
    /\ AllIn(SubSeq(s, 1, Len(s) - 3), Digits)
IsString(s) ==
    Len(s) >= 2 /\ {i \in 1..Len(s) : s[i] = Quote} = {1, Len(s)}

\* The type of a lexeme; "None" when the characters are no lexeme.
TypeOf(s) ==
    CASE Len(s) = 1 /\ s[1] \in DOMAIN Keywords -> Keywords[s[1]]
      [] Len(s) = 1 /\ s[1] \in DOMAIN Single -> Single[s[1]]
      [] Len(s) = 2 /\ s \in DOMAIN Double -> Double[s]
      [] AllIn(s, Digits) -> "Integer"
      [] IsFloat(s) -> "Float"
      [] IsBase81(s) -> "Base81Integer"
      [] IsString(s) -> "String"
      [] IsWord(s) -> "Identifier"
      [] OTHER -> "None"

\* A text without an end: a string that is never closed takes all that is left.
\* Any other character that starts no lexeme stands alone.
Lexeme(p) ==
    LET good == {e \in Ends(p) : TypeOf(Piece(p, e)) # "None"} IN
    CASE p = Len(text) -> [type |-> "Eof", from |-> p, to |-> p]
      [] p < Len(text) /\ good # {} ->
            LET e == Max(good) IN [type |-> TypeOf(Piece(p, e)), from |-> p, to |-> e]
      [] OTHER ->
            [type |-> "Illegal", from |-> p,
             to |-> IF text[p + 1] = Quote THEN Len(text) ELSE p + 1]

\* One piece of trivia: a blank or a line end, a comment up to the end of its
\* line, a comment up to the first mark that closes it or to the end.
IsTrivia(p, e) ==
    LET s == Piece(p, e)
        Starts(a, b) == Len(s) >= 2 /\ s[1] = a /\ s[2] = b
        closed == {i \in 4..Len(s) : s[i - 1] = "*" /\ s[i] = "/"}
    IN \/ Len(s) = 1 /\ s[1] \in Blanks \cup {Newline}
       \/ Starts("/", "/") /\ Newline \notin {s[i] : i \in 1..Len(s)}
       \/ Starts("/", "*") /\ closed \subseteq {Len(s)}

\* Where the trivia that starts at p ends.
RECURSIVE Skip(_)
Skip(p) ==
    LET ends == {e \in Ends(p) : IsTrivia(p, e)} IN
    IF ends = {} THEN p ELSE Skip(Max(ends))

Position == IF given = <<>> THEN 0 ELSE given[Len(given)].to

Init == text \in Texts /\ given = <<>>
Give == given' = Append(given, Lexeme(Skip(Position))) /\ UNCHANGED text
Next == Give
Spec == Init /\ [][Next]_<<text, given>>
=============================================================================
