------------------------------- MODULE Parser -------------------------------
(* The parser: the call stack of its functions as the work still to do, and   *)
(* the trees they hold as a stack of values.  It asks the lexer for a token   *)
(* and goes on when it has it.                                                *)
EXTENDS Grammar

CONSTANTS Capitals,     \* the characters std::isupper holds of
          MaxDigits     \* digits of the longest number std::stoll accepts (18)

ASSUME ParserAssumption ==
    MaxParameters \in Nat /\ MaxGeneric \in Nat \ {0} /\ MaxDigits \in Nat

VARIABLES work,        \* what the functions in progress have left to do
          values,      \* the trees and lists they hold
          token,       \* _current: the type and the characters of the token ahead
          previous,    \* _previous
          lookahead,   \* the token peek_next_token returned
          wanted,      \* what is asked of the lexer: "none", "next" or "peek"
          had_error    \* _had_error: something was reported

parserVars == <<work, values, token, previous, lookahead, wanted, had_error>>

\* A default token: the first type of the enumeration, no characters.
NoLexeme == [type |-> "Module", text |-> <<>>]

ParserInit ==
    /\ work = <<Call("parse")>> /\ values = <<None>>
    /\ token = NoLexeme /\ previous = NoLexeme /\ lookahead = NoLexeme
    /\ wanted = "next"            \* the constructor primes the pump
    /\ had_error = FALSE

-----------------------------------------------------------------------------

Item == work[1]
Rest == Tail(work)
Under(n) == values[Len(values) - n]      \* the value n below the top
Popped(n) == SubSeq(values, 1, Len(values) - n)
Parts(n) == SubSeq(values, Len(values) - n + 1, Len(values))

AtEof == token.type = "Eof"
LeafOf(t) == Leaf(t.type, t.text)

\* advance: at the end it does nothing.
Advance ==
    IF AtEof THEN UNCHANGED <<previous, wanted>>
    ELSE previous' = token /\ wanted' = "next"
Stay == UNCHANGED <<previous, wanted>>

\* A name of one dot between two parts that start with a capital.
IsEnumLiteral(text) ==
    \E d \in 2..(Len(text) - 1) :
        /\ {i \in 1..Len(text) : text[i] = "."} = {d}
        /\ text[1] \in Capitals /\ text[d + 1] \in Capitals

\* std::stoll on the characters of a leaf.
Reads64(leaf) == leaf.kind = "Integer" /\ Len(leaf.text) <= MaxDigits

Holds(test) ==
    CASE test.is = "reads" -> Under(0).text \in {<<w>> : w \in test.words}
      [] test.is = "full" -> Len(Under(0).parts) >= test.limit
      [] test.is = "positive" ->
            Reads64(Under(0)) /\ \E i \in 1..Len(Under(0).text) : Under(0).text[i] # "0"
      [] test.is = "number" -> Reads64(Under(0))
      [] test.is = "enumName" -> IsEnumLiteral(Under(0).text)
      [] test.is = "target" -> Under(1).kind = "Variable"
      [] test.is = "attribute" ->
            lookahead.type = "Identifier" /\ lookahead.text \in {<<w>> : w \in test.words}
      [] test.is = "part" -> Under(0).parts[test.part] # Absent
      [] test.is = "attributes" ->
            \E i \in 1..2 : Under(test.below).parts[i] # Absent
      [] test.is = "resultError" ->
            Under(1).text = <<"Result">> /\ Len(Under(0).parts) = 1

\* The node of a kind over the values that are its parts.
Make(kind, p) ==
    CASE kind = "Path" -> Leaf(p[1].kind, p[1].text \o <<".">> \o p[2].text)
      [] kind = "WithSchema" -> StructuralAttributes(p[2], p[1].parts[2])
      [] kind = "WithModule" -> StructuralAttributes(p[1].parts[1], p[2])
      [] kind = "WithEffect" -> FunctionAttributes(p[2], p[1].parts[2])
      [] kind = "WithTier" -> FunctionAttributes(p[1].parts[1], p[2])
      [] kind = "SameName" -> Pair(p[1], p[1])
      [] kind = "Assign" -> AssignExpr(p[1].parts[1], p[2])
      [] kind = "Function" -> FunctionStmt(p[2], p[3], p[4], p[5], p[6])
      [] OTHER -> Node(kind, p)

-----------------------------------------------------------------------------
(* One action per kind of item.                                               *)

Doing(op) == wanted = "none" /\ work # <<>> /\ Item.op = op

DoCall ==
    /\ Doing("call")
    /\ work' = Rules[Item.rule]
               \o (IF Item.rule = "declaration" THEN <<Catch(Len(values))>> ELSE <<>>)
               \o Rest
    /\ UNCHANGED <<values, token, lookahead, had_error>> /\ Stay

DoSwitch ==
    /\ Doing("switch")
    /\ LET fits == {i \in DOMAIN Item.alternatives :
                        token.type \in Item.alternatives[i].types}
           first == CHOOSE i \in fits : \A j \in fits : i <= j
           chosen == Item.alternatives[first]
       IN IF fits = {}
          THEN work' = Item.otherwise \o Rest /\ UNCHANGED values /\ Stay
          ELSE /\ work' = chosen.items \o Rest
               /\ values' = IF chosen.takes = "leaf" THEN Append(values, LeafOf(token))
                            ELSE values
               /\ IF chosen.takes = "nothing" THEN Stay ELSE Advance
    /\ UNCHANGED <<token, lookahead, had_error>>

DoWhen ==
    /\ Doing("when")
    /\ work' = (IF Holds(Item.test) THEN Item.yes ELSE Item.no) \o Rest
    /\ UNCHANGED <<values, token, lookahead, had_error>> /\ Stay

\* consume: another token than the expected one is reported and consumed all
\* the same, and stands where the expected one would; at the end a dummy does.
DoConsume ==
    /\ Doing("consume")
    /\ work' = Rest
    /\ values' = IF ~Item.keep THEN values
                 ELSE Append(values, IF AtEof THEN Leaf("Illegal", <<>>) ELSE LeafOf(token))
    /\ had_error' = (had_error \/ token.type # Item.type)
    /\ Advance
    /\ UNCHANGED <<token, lookahead>>

DoBuild ==
    /\ \/ /\ Doing("build")
          /\ values' = Append(Popped(Item.n), Make(Item.kind, Parts(Item.n)))
       \/ Doing("push") /\ values' = Append(values, Item.tree)
       \/ Doing("drop") /\ values' = Popped(Item.n)
       \/ /\ Doing("append")
          /\ values' = Append(Popped(2), List(Append(Under(1).parts, Under(0))))
    /\ work' = Rest
    /\ UNCHANGED <<token, lookahead, had_error>> /\ Stay

DoReport ==
    /\ Doing("report")
    /\ work' = Rest /\ had_error' = TRUE
    /\ UNCHANGED <<values, token, lookahead>> /\ Stay

DoLook ==
    /\ Doing("look")
    /\ work' = Rest /\ wanted' = "peek"
    /\ UNCHANGED <<values, token, previous, lookahead, had_error>>

\* The handler of declaration: synchronize, whose first step consumes a token,
\* and a null declaration.
Recover(after) ==
    /\ work' = <<Synchronize, Push(Absent)>> \o after /\ Advance

\* An exception leaves every function up to the innermost declaration.
DoThrow ==
    /\ Doing("throw")
    /\ LET catches == {i \in DOMAIN work : work[i].op = "catch"}
           inner == CHOOSE i \in catches : \A j \in catches : i <= j
       IN /\ values' = SubSeq(values, 1, work[inner].height)
          /\ Recover(SubSeq(work, inner + 1, Len(work)))
    /\ UNCHANGED <<token, lookahead, had_error>>

DoCatch ==
    /\ Doing("catch")
    /\ work' = Rest
    /\ UNCHANGED <<values, token, lookahead, had_error>> /\ Stay

StartsStatement == {"Fn", "Let", "Var", "For", "If", "While", "Return"}
\* A fault for the runs to see: the end of the text is not asked for.
SynchronizePastTheEnd ==
    /\ Doing("synchronize")
    /\ IF previous.type = "Semicolon" \/ token.type \in StartsStatement
       THEN work' = Rest /\ Stay
       ELSE UNCHANGED work /\ Advance
    /\ UNCHANGED <<values, token, lookahead, had_error>>
\* synchronize: tokens are discarded until one after a semicolon, or one that
\* starts a statement.
DoSynchronize ==
    /\ Doing("synchronize")
    /\ IF AtEof \/ previous.type = "Semicolon" \/ token.type \in StartsStatement
       THEN work' = Rest /\ Stay
       ELSE UNCHANGED work /\ Advance
    /\ UNCHANGED <<values, token, lookahead, had_error>>

ParserStep == DoCall \/ DoSwitch \/ DoWhen \/ DoConsume \/ DoBuild \/ DoReport \/ DoLook
              \/ DoThrow \/ DoCatch \/ DoSynchronize

\* The lexer's answer arrives.
Receive(t) ==
    /\ wanted # "none" /\ wanted' = "none"
    /\ IF wanted = "next" THEN token' = t /\ UNCHANGED lookahead
                          ELSE lookahead' = t /\ UNCHANGED token
    /\ UNCHANGED <<work, values, previous, had_error>>

-----------------------------------------------------------------------------

Parsed == work = <<>> /\ wanted = "none"
Accepted == Parsed /\ ~had_error
Tree == values[1]

\* The type invariant of the parser: no function takes a value it was not left,
\* and every handler that is still active has the values it goes back to.
ParserTypeOK ==
    /\ wanted \in {"none", "next", "peek"} /\ had_error \in BOOLEAN
    /\ Len(values) >= 1
    /\ \A i \in DOMAIN work : work[i].op = "catch" => work[i].height <= Len(values)
    /\ Parsed => Len(values) = 1 /\ Tree.kind = "List"
=============================================================================
