------------------------- MODULE FrontEndProperties -------------------------
(* What the front end promises of a text and of the tree it makes of it.      *)
EXTENDS FrontEnd, TreeText

\* The lexer gives the tokens of the text, each the longest one where the
\* trivia before it ends, whatever the parser looks at in between.
Stream == INSTANCE TokenStream WITH
    text <- source,
    given <- [i \in 1..Len(given) |->
                 [type |-> given[i].type, from |-> given[i].from, to |-> given[i].to]]
LexerIsTokenStream == Stream!Spec

\* The lexemes the parser has consumed, and those of its tree.
Written == [i \in 1..Len(given) |-> Lexeme(given[i]).text]
Kept == Unparse(Tree)

\* The characters of names, literals, keywords and operators, in order.
Punctuation == {<<c>> : c \in {"(", ")", "{", "}", "[", "]", ",", ":", ";", ".", "@"}}
               \cup {<<"-", ">">>, <<"=", ">">>}
Words(lexemes) ==
    SelectSeq(FlattenSeq(SelectSeq(lexemes, LAMBDA l : l \notin Punctuation)),
              LAMBDA c : c # ".")
Attributes(lexemes) == Len(SelectSeq(lexemes, LAMBDA l : l = <<"@">>))

\* A program the parser accepts has all that was written in its tree, each word
\* once and in its order: no path through the rules accepts a text and loses or
\* swaps a part of it.  Texts with an attribute that is dropped are left out: one
\* before a declaration that has no use for it, or one given twice.
AcceptedIsWhatWasWritten ==
    Accepted /\ Attributes(Written) = Attributes(Kept) => Words(Written) = Words(Kept)

\* How tight an operator binds, by the grammar of the language's specification
\* (appendix A.3), and a node without one.
Binding(op) ==
    CASE op = <<"|", "|">> -> 1
      [] op = <<"&", "&">> -> 2
      [] op \in {<<"=", "=">>, <<"!", "=">>} -> 3
      [] op \in {<<"<">>, <<">">>, <<"<", "=">>, <<">", "=">>} -> 4
      [] op \in {<<"+">>, <<"-">>} -> 5
      [] op \in {<<"*">>, <<"/">>, <<"%">>} -> 6
Tightness(node) ==
    CASE node.kind = "Assign" -> 0
      [] node.kind = "Binary" -> Binding(node.parts[2].text)
      [] node.kind = "Unary" -> 7
      [] OTHER -> 8

\* In an accepted program every operand binds tighter than the operator it is
\* under, and an operator of the same level only stands on the left: with what
\* was written in its order, this leaves one tree for a text.
OperatorsGroupByLevel ==
    Accepted => \A node \in Nodes(Tree) :
        /\ node.kind = "Binary" =>
              /\ Tightness(node.parts[1]) >= Tightness(node)
              /\ Tightness(node.parts[3]) > Tightness(node)
        /\ node.kind = "Unary" => Tightness(node.parts[2]) >= 7

\* Every text is parsed to its end: recovery always gets past the token that
\* could not be read, however the handlers call each other.
ParsingEnds == <>Parsed
=============================================================================
