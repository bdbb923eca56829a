------------------------------- MODULE Tokens -------------------------------
(* The vocabulary of the language: which spelling is which type of token.     *)
(* A text is a sequence of characters.  A character of the model is a string, *)
(* and a word that no property takes apart ("while", "Color") may stand as    *)
(* one letter: columns then count such characters.                            *)
EXTENDS Integers, Sequences, TLC

CONSTANTS Letters,   \* the letters, the keywords and names used whole among them
          Digits,    \* the decimal digits
          Texts      \* the source texts to read

Newline == "\n"
Quote == "\""
Blanks == {" ", "\t", "\r"}
End == "end of text"    \* what looking at a character finds where there is none

\* KEYWORDS of lexer.cpp: the word and the type of its token.
Keywords ==
       "module" :> "Module" @@ "import" :> "Import" @@ "type" :> "Type"
    @@ "const" :> "Const" @@ "export" :> "Export" @@ "fn" :> "Fn"
    @@ "let" :> "Let" @@ "var" :> "Var" @@ "if" :> "If" @@ "else" :> "Else"
    @@ "for" :> "For" @@ "in" :> "In" @@ "while" :> "While" @@ "loop" :> "Loop"
    @@ "record" :> "Record" @@ "enum" :> "Enum" @@ "break" :> "Break"
    @@ "continue" :> "Continue" @@ "return" :> "Return" @@ "match" :> "Match"
    @@ "true" :> "True" @@ "false" :> "False" @@ "void" :> "Void"
    @@ "bool" :> "Bool" @@ "i32" :> "I32" @@ "i16" :> "I16" @@ "i8" :> "I8"
    @@ "i2" :> "I2" @@ "T81BigInt" :> "T81BigInt" @@ "T81Float" :> "T81Float"
    @@ "T81Fraction" :> "T81Fraction"
    @@ [w \in {"T81Vector", "vector"} |-> "Vector"]
    @@ [w \in {"T81Matrix", "matrix"} |-> "Matrix"]
    @@ [w \in {"T81Tensor", "tensor"} |-> "Tensor"]
    @@ [w \in {"T81Graph", "graph"} |-> "Graph"]

\* The tokens of one character, and those of two.
Single ==
       "(" :> "LParen" @@ ")" :> "RParen" @@ "{" :> "LBrace" @@ "}" :> "RBrace"
    @@ "[" :> "LBracket" @@ "]" :> "RBracket" @@ "," :> "Comma" @@ ":" :> "Colon"
    @@ ";" :> "Semicolon" @@ "@" :> "At" @@ "?" :> "Question" @@ "+" :> "Plus"
    @@ "*" :> "Star" @@ "%" :> "Percent" @@ "^" :> "Caret" @@ "/" :> "Slash"
    @@ "-" :> "Minus" @@ "." :> "Dot" @@ "=" :> "Equal" @@ "!" :> "Bang"
    @@ "<" :> "Less" @@ ">" :> "Greater" @@ "&" :> "Amp" @@ "|" :> "Pipe"

Pairs == {<<"-", ">">>, <<".", ".">>, <<"=", ">">>, <<"=", "=">>, <<"!", "=">>,
          <<"<", "=">>, <<">", "=">>, <<"&", "&">>, <<"|", "|">>}
Double == [p \in Pairs |->
    CASE p = <<"-", ">">> -> "Arrow"      [] p = <<".", ".">> -> "DotDot"
      [] p = <<"=", ">">> -> "FatArrow"   [] p = <<"=", "=">> -> "EqualEqual"
      [] p = <<"!", "=">> -> "BangEqual"  [] p = <<"<", "=">> -> "LessEqual"
      [] p = <<">", "=">> -> "GreaterEqual"
      [] p = <<"&", "&">> -> "AmpAmp"     [] p = <<"|", "|">> -> "PipePipe"]

TokenTypes ==
    {Keywords[w] : w \in DOMAIN Keywords} \cup {Single[c] : c \in DOMAIN Single}
    \cup {Double[p] : p \in DOMAIN Double}
    \cup {"Identifier", "Integer", "Float", "Base81Integer", "String", "Eof", "Illegal"}

\* A letter or a digit is no other character, and the suffix of a base-81
\* literal is made of a letter and two digits.
TextsAssumption ==
    /\ Letters \cap Digits = {}
    /\ (Letters \cup Digits) \cap
          (DOMAIN Single \cup Blanks \cup {Newline, Quote, End}) = {}
    /\ "t" \in Letters /\ {"8", "1"} \subseteq Digits
    /\ \A text \in Texts : text \in Seq(STRING \ {End})
ASSUME TextsAssumption
=============================================================================
