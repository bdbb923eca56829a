------------------------------ MODULE Analyzer ------------------------------
(* SemanticAnalyzer (semantic_analyzer.cpp): the visitor that resolves the    *)
(* names of a program, types it and records what the generator will ask for.  *)
(* The C++ recursion is a stack of work: visiting a node replaces it by what  *)
(* its visitor still has to do, and the types its locals hold lie on results. *)
(* A node is known by its path from the root, as the code knows it by address.*)
EXTENDS Types, TreeShapes, FiniteSets, SequencesExt

CONSTANTS Sources,               \* the programs: lists of statements the parser accepts
          IsAssignable(_, _),    \* is_assignable of a target and a value
          SameType(_, _)         \* Type::operator==

ASSUME SourcesAssumption == \A source \in Sources : ListOf(source, Stmts)

VARIABLES tree,         \* _statements
          todo,         \* what the visitors in progress have left to do, next first
          results,      \* the types their locals hold
          symbols,      \* _scopes, each a function from names to symbols
          expected,     \* _expected_type_stack
          returns,      \* _function_return_stack
          effects,      \* _function_effect_stack
          open_loops,   \* _loop_stack
          matching,     \* the locals of the matches in progress
          tables,       \* what the declarations define
          facts,        \* what is recorded about expressions, matches, loops, vectors
          had_error     \* _had_error

stacks == <<symbols, expected, returns, effects, open_loops, matching>>
analyzerVars == <<tree, todo, results, stacks, tables, facts, had_error>>

-----------------------------------------------------------------------------
(* Trees, names and symbols.                                                  *)

\* The node at a path from the root, and the path of a part of it.
NodeAt(root, path) ==
    LET at[n \in 0..Len(path)] == IF n = 0 THEN root ELSE at[n - 1].parts[path[n]]
    IN at[Len(path)]
At(path) == NodeAt(tree, path)
Part(path, i) == Append(path, i)

\* A dotted name is split at its first dot.
Dot(name) == SelectInSeq(name, LAMBDA c : c = ".")
IsDotted(name) == Dot(name) \in 2..(Len(name) - 1)
BeforeDot(name) == SubSeq(name, 1, Dot(name) - 1)
AfterDot(name) == SubSeq(name, Dot(name) + 1, Len(name))

Extended(f, key, value) ==
    [x \in DOMAIN f \cup {key} |-> IF x = key THEN value ELSE f[x]]
Empty == [x \in {} |-> Nothing]

\* SemanticSymbol; its declaration is the path of the declaring node.
VariableSymbol(path, type) ==
    [kind |-> "Variable", type |-> type, params |-> <<>>, effectful |-> FALSE,
     declared |-> path]
FunctionSymbol(path) == [VariableSymbol(path, Unknown) EXCEPT !.kind = "Function"]

IsDefinedHere(name) == name \in DOMAIN Last(symbols)
Define(scopes, name, symbol) ==
    [scopes EXCEPT ![Len(scopes)] = Extended(@, name, symbol)]

\* A fault for the runs to see: names are looked for from the outside.
OutermostScope(name) == SelectInSeq(symbols, LAMBDA s : name \in DOMAIN s)
\* resolve_symbol: the innermost scope that has the name, 0 if none has.
Scope(name) == SelectLastInSeq(symbols, LAMBDA s : name \in DOMAIN s)
IsDefined(name) == Scope(name) # 0
Resolve(name) == symbols[Scope(name)][name]

\* current_expected_type
Wanted == IF expected = <<>> THEN Nothing ELSE Last(expected)

-----------------------------------------------------------------------------
(* The work.                                                                  *)

Then(what, path) == [do |-> what, at |-> path]
Visit(path) == Then("visit", path)
\* evaluate_expression with an expected type.
Eval(path, type) == [do |-> "eval", at |-> path, expects |-> type]
Yield(type) == [do |-> "yield", type |-> type]

VisitAll(path) == [i \in DOMAIN At(path).parts |-> Visit(Part(path, i))]
EvalAll(path) == [i \in DOMAIN At(path).parts |-> Eval(Part(path, i), Nothing)]

Item == todo[1]
Doing(what) == todo # <<>> /\ Item.do = what
Visiting(kind) == Doing("visit") /\ At(Item.at).kind = kind
Here == At(Item.at).parts
Below(i) == Part(Item.at, i)
NameHere(i) == Here[i].text

\* analyze_type_expr of a part, or a type in its place.
TypeOr(i, type) == IF Here[i] = Absent THEN Yield(type) ELSE Visit(Below(i))

Leaves(items) == todo' = items \o Tail(todo)
Result(i) == results[Len(results) - i]
Args(n) == SubSeq(results, Len(results) - n + 1, Len(results))
Gives(n, types) == results' = SubSeq(results, 1, Len(results) - n) \o types
Checks(ok) == had_error' = (had_error \/ ~ok)

\* A visitor that only arranges what comes next.
Expands(items) ==
    Leaves(items) /\ UNCHANGED <<tree, results, stacks, tables, facts, had_error>>
\* A visitor that makes types of its last n results, and may report.
Judges(n, types, ok) ==
    /\ Leaves(<<>>) /\ Gives(n, types) /\ Checks(ok)
    /\ UNCHANGED <<tree, stacks, tables, facts>>

Yielded == Doing("yield") /\ Judges(0, <<Item.type>>, TRUE)
Forget == Doing("forget") /\ Judges(1, <<>>, TRUE)

Evaluate ==
    /\ Doing("eval")
    /\ expected' = Append(expected, Item.expects)
    /\ Leaves(<<Visit(Item.at), Then("record", Item.at)>>)
    /\ UNCHANGED <<tree, results, symbols, returns, effects, open_loops, matching,
                   tables, facts, had_error>>

Record ==
    /\ Doing("record")
    /\ expected' = Front(expected)
    /\ facts' = [facts EXCEPT !.types = Extended(@, Item.at, Result(0))]
    /\ Leaves(<<>>)
    /\ UNCHANGED <<tree, results, symbols, returns, effects, open_loops, matching,
                   tables, had_error>>

-----------------------------------------------------------------------------
(* The three passes, and functions.                                           *)

\* All functions are declared, then all signatures recorded, then every
\* statement is analyzed.
AnalyzerInit ==
    /\ tree \in Sources
    /\ LET pass(what) == [i \in DOMAIN tree.parts |-> Then(what, <<i>>)]
       IN todo = pass("declare") \o pass("sign") \o pass("visit")
    /\ results = <<>>
    /\ symbols = <<Empty>>
    /\ expected = <<>> /\ returns = <<>> /\ effects = <<>>
    /\ open_loops = <<>> /\ matching = <<>>
    /\ tables = [records |-> Empty, enums |-> Empty, aliases |-> Empty, arities |-> Empty,
                 generics |-> {}, module |-> Nothing, imports |-> {}, next_enum |-> 0]
    /\ facts = [types |-> Empty, matches |-> Empty, loops |-> Empty, vectors |-> {}]
    /\ had_error = FALSE

\* The first two passes are over functions only.
PassesOver == Doing("declare") \/ Doing("sign")
SkipStatement == PassesOver /\ At(Item.at).kind # "Function" /\ Expands(<<>>)

DeclareFunction ==
    /\ Doing("declare") /\ At(Item.at).kind = "Function"
    /\ Leaves(<<>>)
    /\ Checks(~IsDefinedHere(NameHere(2)))
    /\ symbols' = IF IsDefinedHere(NameHere(2)) THEN symbols
                  ELSE Define(symbols, NameHere(2), FunctionSymbol(Item.at))
    /\ UNCHANGED <<tree, results, expected, returns, effects, open_loops, matching,
                   tables, facts>>

\* register_function_signatures
Sign ==
    /\ Doing("sign") /\ At(Item.at).kind = "Function"
    /\ Expands([i \in DOMAIN Here[3].parts |-> Visit(Below(3) \o <<i, 2>>)]
               \o <<TypeOr(4, Of("Void")), Then("signed", Item.at)>>)

IsEffectful(function) == function.parts[1].parts[1] # Absent

Signed ==
    /\ Doing("signed")
    /\ LET n == Len(Here[3].parts) IN
       /\ symbols' = [symbols EXCEPT ![Scope(NameHere(2))][NameHere(2)] =
                        [@ EXCEPT !.type = Result(0), !.params = Front(Args(n + 1)),
                                  !.effectful = IsEffectful(At(Item.at))]]
       /\ Gives(n + 1, <<>>)
    /\ Leaves(<<>>)
    /\ UNCHANGED <<tree, expected, returns, effects, open_loops, matching, tables, facts,
                   had_error>>

\* A function met for the first time here is one in another's body: it is
\* defined without its signature.
Function ==
    /\ Visiting("Function")
    /\ LET name == NameHere(2)
           symbol == IF IsDefined(name) THEN Resolve(name) ELSE FunctionSymbol(Item.at)
           known(i) == IF i \in DOMAIN symbol.params THEN symbol.params[i] ELSE Unknown
           parameter(i) == [do |-> "annotate", at |-> Below(3) \o <<i>>, type |-> known(i)]
       IN /\ symbols' = Append(IF IsDefined(name) THEN symbols
                               ELSE Define(symbols, name, symbol), Empty)
          /\ returns' = Append(returns, symbol.type)
          /\ effects' = Append(effects, IsEffectful(At(Item.at)))
          /\ Checks(Len(symbol.params) = Len(Here[3].parts))
          /\ Leaves([i \in DOMAIN Here[3].parts |-> parameter(i)]
                    \o VisitAll(Below(5)) \o <<Then("leave", Item.at)>>)
    /\ UNCHANGED <<tree, results, expected, open_loops, matching, tables, facts>>

\* A parameter has the type of the signature, or as written if that is unknown.
Annotate ==
    /\ Doing("annotate")
    /\ Expands(<<IF Item.type.kind = "Unknown" THEN Visit(Below(2)) ELSE Yield(Item.type),
                 Then("parameter", Item.at)>>)

Parameter ==
    /\ Doing("parameter")
    /\ Checks(~IsDefinedHere(NameHere(1)))
    /\ symbols' = IF IsDefinedHere(NameHere(1)) THEN symbols
                  ELSE Define(symbols, NameHere(1), VariableSymbol(Item.at, Result(0)))
    /\ Gives(1, <<>>)
    /\ Leaves(<<>>)
    /\ UNCHANGED <<tree, expected, returns, effects, open_loops, matching, tables, facts>>

\* A fault for the runs to see: the return type stays behind.
LeaveReturning ==
    /\ Doing("leave")
    /\ effects' = Front(effects) /\ symbols' = Front(symbols)
    /\ Leaves(<<>>)
    /\ UNCHANGED <<tree, results, expected, returns, open_loops, matching, tables, facts,
                   had_error>>
Leave ==
    /\ Doing("leave")
    /\ returns' = Front(returns) /\ effects' = Front(effects) /\ symbols' = Front(symbols)
    /\ Leaves(<<>>)
    /\ UNCHANGED <<tree, results, expected, open_loops, matching, tables, facts, had_error>>

-----------------------------------------------------------------------------
(* Statements.                                                                *)

ExpressionStatement ==
    /\ Visiting("Expression")
    /\ Expands(<<Eval(Below(1), Nothing), Then("forget", Item.at)>>)

\* Var and let alike; one that is defined already is not looked into.
Declare ==
    /\ Visiting("Var") \/ Visiting("Let")
    /\ Leaves(IF IsDefinedHere(NameHere(1)) THEN <<>>
              ELSE <<TypeOr(2, Unknown), Then("initialize", Item.at)>>)
    /\ Checks(~IsDefinedHere(NameHere(1)))
    /\ UNCHANGED <<tree, results, stacks, tables, facts>>

\* The initializer is evaluated with the declared type expected, known or not.
Initialize ==
    /\ Doing("initialize")
    /\ Expands(<<IF Here[3] = Absent THEN Yield(Unknown) ELSE Eval(Below(3), Result(0)),
                 Then("bind", Item.at)>>)

\* A fault for the runs to see: the initializer is not compared.
BindAnything ==
    /\ Doing("bind")
    /\ LET declared == Result(1)
           init == Result(0)
       IN /\ symbols' = Define(symbols, NameHere(1), VariableSymbol(Item.at,
                            IF declared.kind = "Unknown" THEN init ELSE declared))
          /\ Checks({declared.kind, init.kind} # {"Unknown"})
    /\ Gives(2, <<>>)
    /\ Leaves(<<>>)
    /\ UNCHANGED <<tree, expected, returns, effects, open_loops, matching, tables, facts>>
Bind ==
    /\ Doing("bind")
    /\ LET declared == Result(1)
           init == Result(0)
           both == "Unknown" \notin {declared.kind, init.kind}
           checked == IF both THEN RefineGeneric(declared, init) ELSE declared
           type == IF declared.kind = "Unknown" THEN init ELSE checked
       IN /\ symbols' = Define(symbols, NameHere(1), VariableSymbol(Item.at, type))
          /\ Checks(/\ {declared.kind, init.kind} # {"Unknown"}
                    /\ both => IsAssignable(checked, init))
    /\ Gives(2, <<>>)
    /\ Leaves(<<>>)
    /\ UNCHANGED <<tree, expected, returns, effects, open_loops, matching, tables, facts>>

Block ==
    /\ Visiting("Block")
    /\ symbols' = Append(symbols, Empty)
    /\ Leaves(VisitAll(Below(1)) \o <<Then("exit", Item.at)>>)
    /\ UNCHANGED <<tree, results, expected, returns, effects, open_loops, matching,
                   tables, facts, had_error>>

Exit ==
    /\ Doing("exit")
    /\ symbols' = Front(symbols)
    /\ Leaves(<<>>)
    /\ UNCHANGED <<tree, results, expected, returns, effects, open_loops, matching,
                   tables, facts, had_error>>

\* expect_condition_bool
Condition(i) == <<Eval(Below(i), Nothing), Then("condition", Item.at)>>
ConditionIsBool ==
    Doing("condition") /\ Judges(1, <<>>, IsAssignable(Of("Bool"), Result(0)))

If ==
    /\ Visiting("If")
    /\ Expands(Condition(1) \o <<Visit(Below(2))>>
               \o (IF Here[3] = Absent THEN <<>> ELSE <<Visit(Below(3))>>))

While ==
    /\ Visiting("While")
    /\ Expands(Condition(1) \o <<Then("enterLoop", Item.at), Visit(Below(2)),
                                 Then("leaveLoop", Item.at)>>)

IsZero(leaf) == \A i \in DOMAIN leaf.text : leaf.text[i] = "0"

\* The statements of the body belong to the scope around the loop.
Loop ==
    /\ Visiting("Loop")
    /\ LET bound == Here[1] IN
       /\ Checks(/\ bound.kind # "NoBound"
                 /\ bound.kind = "Static" => ~IsZero(bound.parts[1]))
       /\ Leaves((IF bound.kind # "Guarded" THEN <<>>
                  ELSE <<Eval(Below(1) \o <<1>>, Nothing), Then("condition", Item.at)>>)
                 \o <<Then("enterLoop", Item.at)>> \o VisitAll(Below(2))
                 \o <<Then("leaveLoop", Item.at)>>)
    /\ UNCHANGED <<tree, results, stacks, tables, facts>>

\* A while has no metadata, but it is a loop.
EnterLoop ==
    /\ Doing("enterLoop")
    /\ open_loops' = Append(open_loops, Item.at)
    /\ facts' = IF At(Item.at).kind = "While" THEN facts
                ELSE [facts EXCEPT !.loops = Extended(@, Item.at,
                        [id |-> Cardinality(DOMAIN @), depth |-> Len(open_loops),
                         bound |-> Here[1].kind])]
    /\ Leaves(<<>>)
    /\ UNCHANGED <<tree, results, symbols, expected, returns, effects, matching, tables,
                   had_error>>

LeaveLoop ==
    /\ Doing("leaveLoop")
    /\ open_loops' = Front(open_loops)
    /\ Leaves(<<>>)
    /\ UNCHANGED <<tree, results, symbols, expected, returns, effects, matching, tables,
                   facts, had_error>>

Jump == (Visiting("Break") \/ Visiting("Continue")) /\ Judges(0, <<>>, open_loops # <<>>)

Return ==
    /\ Visiting("Return")
    /\ LET bare == Here[1] = Absent IN
       /\ Checks(returns # <<>> /\ (bare => Last(returns).kind = "Void"))
       /\ Leaves(IF bare \/ returns = <<>> THEN <<>>
                 ELSE <<Eval(Below(1), Last(returns)), Then("returned", Item.at)>>)
    /\ UNCHANGED <<tree, results, stacks, tables, facts>>

Returned == Doing("returned") /\ Judges(1, <<>>, IsAssignable(Last(returns), Result(0)))

-----------------------------------------------------------------------------
(* Declarations.                                                              *)

Module ==
    /\ Visiting("Module")
    /\ Checks(tables.module = Nothing)
    /\ tables' = IF tables.module # Nothing THEN tables
                 ELSE [tables EXCEPT !.module = NameHere(1)]
    /\ Leaves(<<>>)
    /\ UNCHANGED <<tree, results, stacks, facts>>

Import ==
    /\ Visiting("Import")
    /\ Checks(NameHere(1) \notin tables.imports \cup {tables.module})
    /\ tables' = IF NameHere(1) = tables.module THEN tables
                 ELSE [tables EXCEPT !.imports = @ \cup {NameHere(1)}]
    /\ Leaves(<<>>)
    /\ UNCHANGED <<tree, results, stacks, facts>>

\* The last alias of a name stays, and its type is analyzed for its errors.
Alias ==
    /\ Visiting("Type")
    /\ LET name == NameHere(1)
           arity == Len(Here[2].parts)
       IN /\ Checks(/\ name \notin tables.generics
                    /\ name \in DOMAIN tables.arities => tables.arities[name] = arity)
          /\ tables' = [tables EXCEPT
                          !.arities = IF name \in DOMAIN @ THEN @
                                      ELSE Extended(@, name, arity),
                          !.generics = @ \cup {name},
                          !.aliases = Extended(@, name, [arity |-> arity, at |-> Below(3)])]
    /\ Leaves(<<Visit(Below(3)), Then("forget", Item.at)>>)
    /\ UNCHANGED <<tree, results, stacks, facts>>

\* A pair of a list whose name an earlier one has holds the place of its type
\* with another, which nothing looks at.
PairNames(list) == [i \in DOMAIN list.parts |-> list.parts[i].parts[1].text]
IsRepeated(names, i) == \E j \in 1..(i - 1) : names[j] = names[i]
HasRepeated(names) == \E i \in DOMAIN names : IsRepeated(names, i)
PairType(path, i) ==
    LET list == At(path) IN
    IF IsRepeated(PairNames(list), i) \/ list.parts[i].parts[2] = Absent THEN Yield(Unknown)
    ELSE Visit(path \o <<i, 2>>)
PairTypes(path) == [i \in DOMAIN At(path).parts |-> PairType(path, i)]

\* A field or a variant given twice is reported, and nothing is defined.
DeclareRecord ==
    /\ Visiting("Record")
    /\ LET defined == NameHere(2) \in DOMAIN tables.records
       IN /\ Checks(~defined /\ ~HasRepeated(PairNames(Here[3])))
          /\ Leaves(IF defined THEN <<>>
                    ELSE PairTypes(Below(3)) \o <<Then("defineRecord", Item.at)>>)
    /\ UNCHANGED <<tree, results, stacks, tables, facts>>

DefineRecord ==
    /\ Doing("defineRecord")
    /\ LET names == PairNames(Here[3])
           types == Args(Len(names))
       IN /\ tables' = IF HasRepeated(names) THEN tables
                       ELSE [tables EXCEPT !.records = Extended(@, NameHere(2),
                               [f \in Range(names) |-> types[SelectInSeq(names,
                                                          LAMBDA n : n = f)]])]
          /\ Gives(Len(names), <<>>)
    /\ Leaves(<<>>)
    /\ UNCHANGED <<tree, stacks, facts, had_error>>

DefineEnumWith(id) == [do |-> "defineEnum", at |-> Item.at, id |-> id]

\* A fault for the runs to see: the id is not taken.
DeclareEnumAgain ==
    /\ Visiting("Enum")
    /\ Leaves(PairTypes(Below(3)) \o <<DefineEnumWith(tables.next_enum)>>)
    /\ UNCHANGED <<tree, results, stacks, tables, facts, had_error>>
\* An enum takes its id before its variants are looked at.
DeclareEnum ==
    /\ Visiting("Enum")
    /\ LET defined == NameHere(2) \in DOMAIN tables.enums
       IN /\ Checks(~defined /\ ~HasRepeated(PairNames(Here[3])))
          /\ tables' = IF defined THEN tables ELSE [tables EXCEPT !.next_enum = @ + 1]
          /\ Leaves(IF defined THEN <<>>
                    ELSE PairTypes(Below(3)) \o <<DefineEnumWith(tables.next_enum)>>)
    /\ UNCHANGED <<tree, results, stacks, facts>>

DefineEnum ==
    /\ Doing("defineEnum")
    /\ LET pairs == Here[3].parts
           names == PairNames(Here[3])
           types == Args(Len(names))
           payload(i) == IF pairs[i].parts[2] = Absent THEN Nothing ELSE types[i]
       IN /\ tables' = IF HasRepeated(names) THEN tables
                       ELSE [tables EXCEPT !.enums = Extended(@, NameHere(2),
                               [id |-> Item.id,
                                variants |-> [i \in DOMAIN names |->
                                    [name |-> names[i], payload |-> payload(i)]]])]
          /\ Gives(Len(names), <<>>)
    /\ Leaves(<<>>)
    /\ UNCHANGED <<tree, stacks, facts, had_error>>

-----------------------------------------------------------------------------
(* Types written in the program.                                              *)

SimpleType == Visiting("SimpleType") /\ Judges(0, <<TypeFromToken(Here[1])>>, TRUE)

\* A later parameter may be a constant: an integer or a name.
IsType(node) == node.kind \in TypeKinds
IsConstant(node) ==
    \/ node.kind = "Variable"
    \/ node.kind = "Literal" /\ node.parts[1].kind \in {"Integer", "Base81Integer"}
GenericType ==
    /\ Visiting("GenericType")
    /\ LET params == Here[2].parts
           fits(i) == IsType(params[i]) \/ (i > 1 /\ IsConstant(params[i]))
           param(i) == IF IsType(params[i]) THEN Visit(Below(2) \o <<i>>)
                       ELSE Yield(IF fits(i) THEN Constant(params[i].parts[1].text)
                                  ELSE Error)
       IN /\ Checks(\A i \in DOMAIN params : fits(i))
          /\ Leaves([i \in DOMAIN params |-> param(i)] \o <<Then("generic", Item.at)>>)
    /\ UNCHANGED <<tree, results, stacks, tables, facts>>

\* merge_expected_params, then enforce_generic_arity: the first use of a type
\* fixes how many parameters it has.
Instantiates(n, type, ok) ==
    LET merged == MergeExpected(type, Wanted)
        arity == Len(merged.params)
        known == merged.kind = "Custom" /\ merged.name \in DOMAIN tables.arities
    IN /\ Leaves(<<>>)
       /\ Gives(n, <<merged>>)
       /\ tables' = IF known \/ merged.kind # "Custom" THEN tables
                    ELSE [tables EXCEPT !.arities = Extended(@, merged.name, arity)]
       /\ Checks(ok /\ (known => tables.arities[merged.name] = arity))
       /\ UNCHANGED <<tree, stacks, facts>>

IsAlias(name) == name \in DOMAIN tables.aliases /\ name \notin {<<"Option">>, <<"Result">>}

\* The parser reads at least one parameter, and a type as the error of a Result.
Generic ==
    /\ Doing("generic")
    /\ LET name == NameHere(1)
           n == Len(Here[2].parts)
           params == Args(n)
       IN \/ /\ name = <<"Option">>
             /\ Instantiates(n, OptionOf(params[1]), n = 1)
          \/ /\ name = <<"Result">>
             /\ Instantiates(n, ResultOf(params[1], IF n > 1 THEN params[2] ELSE Unknown),
                             n = 2)
          \/ /\ IsAlias(name) /\ tables.aliases[name].arity # n
             /\ Judges(n, <<Error>>, FALSE)
          \/ /\ ~IsAlias(name) /\ name \notin {<<"Option">>, <<"Result">>}
             /\ Instantiates(n, [TypeFromToken(Here[1]) EXCEPT !.params = params], TRUE)

\* A fault for the runs to see: the use is analyzed in place of the alias.
AliasRevisited ==
    /\ Doing("generic")
    /\ LET name == NameHere(1)
           n == Len(Here[2].parts)
       IN /\ IsAlias(name) /\ tables.aliases[name].arity = n
          /\ Gives(n, <<>>)
          /\ Leaves(<<Visit(Item.at)>>)
    /\ UNCHANGED <<tree, stacks, tables, facts, had_error>>
\* instantiate_alias analyzes the alias once more; the parameters go into an
\* environment that no visitor reads.
GenericAlias ==
    /\ Doing("generic")
    /\ LET name == NameHere(1)
           n == Len(Here[2].parts)
       IN /\ IsAlias(name) /\ tables.aliases[name].arity = n
          /\ Gives(n, <<>>)
          /\ Leaves(<<Visit(tables.aliases[name].at), Then("aliased", Item.at)>>)
    /\ UNCHANGED <<tree, stacks, tables, facts, had_error>>
Aliased == Doing("aliased") /\ Instantiates(1, Result(0), TRUE)

-----------------------------------------------------------------------------
(* Expressions.                                                               *)

\* A type, or the error type and a report where there is Nothing.
JudgesOr(n, type) ==
    Judges(n, <<IF type = Nothing THEN Error ELSE type>>, type # Nothing)

LiteralType(leaf) ==
    IF leaf.kind \in {"True", "False"} THEN Of("Bool")
    ELSE IF leaf.kind \in {"Integer", "Base81Integer"} THEN Of("I32")
    ELSE IF leaf.kind \in {"Float", "Base81Float"} THEN Of("Float")
    ELSE Of("String")
Literal == Visiting("Literal") /\ Judges(0, <<LiteralType(Here[1])>>, TRUE)

Grouping == Visiting("Grouping") /\ Expands(<<Eval(Below(1), Nothing)>>)

\* The fields of a record type; no other type has any.
FieldsOf(type) ==
    IF type.kind = "Custom" /\ type.name \in DOMAIN tables.records
    THEN tables.records[type.name] ELSE Empty
FieldType(type, field) ==
    IF field \in DOMAIN FieldsOf(type) THEN FieldsOf(type)[field] ELSE Nothing

\* A dotted name that nothing is called is a field of what stands before the dot.
VariableType(name) ==
    IF name \in {<<"Some">>, <<"None">>, <<"Ok">>, <<"Err">>} THEN Unknown
    ELSE IF IsDefined(name) THEN Resolve(name).type
    ELSE IF IsDotted(name) /\ IsDefined(BeforeDot(name))
         THEN FieldType(Resolve(BeforeDot(name)).type, AfterDot(name))
    ELSE Nothing
Variable == Visiting("Variable") /\ JudgesOr(0, VariableType(NameHere(1)))

\* An assignment to anything but a variable is reported and analyzed all the same.
Assign ==
    /\ Visiting("Assign")
    /\ LET name == NameHere(1) IN
       /\ Checks(IsDefined(name) /\ Resolve(name).kind = "Variable")
       /\ Leaves(IF IsDefined(name)
                 THEN <<Eval(Below(2), Resolve(name).type),
                        [do |-> "assigned", type |-> Resolve(name).type]>>
                 ELSE <<Eval(Below(2), Nothing), Then("forget", Item.at), Yield(Error)>>)
    /\ UNCHANGED <<tree, results, stacks, tables, facts>>
Assigned ==
    Doing("assigned") /\ Judges(1, <<Item.type>>, IsAssignable(Item.type, Result(0)))

\* widen_numeric
Widen(op, left, right) ==
    IF /\ op = "Percent"
       /\ {left.kind, right.kind} \cap {"Error", "Unknown"} = {}
       /\ ~IsInteger(left) \/ ~IsInteger(right)
    THEN Nothing
    ELSE DeduceNumeric(left, right)

\* The type of a binary expression, Nothing where the operands are refused.
BinaryType(op, left, right) ==
    LET comparable == DeduceNumeric(left, right) # Nothing
        logical == IsAssignable(Of("Bool"), left) /\ IsAssignable(Of("Bool"), right)
        BoolIf(test) == IF test THEN Of("Bool") ELSE Nothing
    IN IF op \in {"AmpAmp", "PipePipe"} THEN BoolIf(logical)
       ELSE IF op \in {"EqualEqual", "BangEqual"}
            THEN BoolIf(SameType(left, right) \/ comparable)
       ELSE IF op \in {"Greater", "GreaterEqual", "Less", "LessEqual"}
            THEN BoolIf(comparable)
       ELSE IF op = "Plus" /\ {left.kind, right.kind} = {"String"} THEN Of("String")
       ELSE Widen(op, left, right)

Binary ==
    /\ Visiting("Binary")
    /\ Expands(<<Eval(Below(1), Nothing), Eval(Below(3), Nothing), Then("operate", Item.at)>>)
Operate == Doing("operate") /\ JudgesOr(2, BinaryType(Here[2].kind, Result(1), Result(0)))

Unary ==
    /\ Visiting("Unary")
    /\ Expands(<<Eval(Below(2), Nothing), Then("negate", Item.at)>>)
Negate ==
    /\ Doing("negate")
    /\ JudgesOr(1, IF Here[1].kind = "Minus"
                   THEN IF IsNumeric(Result(0)) THEN Result(0) ELSE Nothing
                   ELSE IF IsAssignable(Of("Bool"), Result(0)) THEN Of("Bool") ELSE Nothing)

FieldAccess ==
    /\ Visiting("FieldAccess")
    /\ Expands(<<Eval(Below(1), Nothing), Then("field", Item.at)>>)
Field == Doing("field") /\ JudgesOr(1, FieldType(Result(0), NameHere(2)))

\* A field that is unknown is not evaluated; one that is given twice or missing
\* is reported.  The literal's type waits for its fields below theirs.
RecordLiteral ==
    /\ Visiting("RecordLiteral")
    /\ LET fields == FieldsOf(Custom(NameHere(1)))
           names == PairNames(Here[2])
           fits == /\ NameHere(1) \in DOMAIN tables.records
                   /\ Range(names) = DOMAIN fields
                   /\ Len(names) = Cardinality(DOMAIN fields)
           value(i) == [do |-> "value", at |-> Below(2) \o <<i>>,
                        type |-> IF names[i] \in DOMAIN fields THEN fields[names[i]] ELSE Nothing]
       IN /\ Checks(fits)
          /\ Gives(0, <<IF fits THEN Custom(NameHere(1)) ELSE Error>>)
          /\ Leaves([i \in DOMAIN names |-> value(i)])
    /\ UNCHANGED <<tree, stacks, tables, facts>>

FieldValue ==
    /\ Doing("value")
    /\ Expands(IF Item.type = Nothing THEN <<>>
               ELSE <<Eval(Below(2), Item.type), [do |-> "fit", type |-> Item.type]>>)

\* A field or a payload against the type it is declared with.
Fit ==
    /\ Doing("fit")
    /\ LET fits == IsAssignable(Item.type, Result(0)) IN
       Judges(2, <<IF fits THEN Result(1) ELSE Error>>, fits)

VariantOf(variants, name) == SelectInSeq(variants, LAMBDA v : v.name = name)

\* The payload of an enum's variant: Nothing where it has none, Absent where
\* there is no such enum or variant.
PayloadOf(enum, variant) ==
    IF enum \notin DOMAIN tables.enums THEN Absent
    ELSE LET variants == tables.enums[enum].variants
             i == VariantOf(variants, variant)
         IN IF i = 0 THEN Absent ELSE variants[i].payload

EnumLiteral ==
    /\ Visiting("EnumLiteral")
    /\ LET enum == BeforeDot(NameHere(1))
           payload == PayloadOf(enum, AfterDot(NameHere(1)))
           fits == payload # Absent /\ (payload = Nothing <=> Here[2] = Absent)
       IN /\ Checks(fits)
          /\ Gives(0, <<IF fits THEN Custom(enum) ELSE Error>>)
          /\ Leaves(IF ~fits \/ payload = Nothing THEN <<>>
                    ELSE <<Eval(Below(2), payload), [do |-> "fit", type |-> payload]>>)
    /\ UNCHANGED <<tree, stacks, tables, facts>>

-----------------------------------------------------------------------------
(* Vectors.                                                                   *)

VectorOf(type) == Type("Vector", <<type>>, <<>>)
Holds(path, type) ==
    /\ Leaves(<<>>) /\ Gives(0, <<type>>)
    /\ facts' = [facts EXCEPT !.vectors = @ \cup {path}]
    /\ UNCHANGED <<tree, stacks, tables, had_error>>

Element(path, i) == [do |-> "element", at |-> path, i |-> i]
NextElement(path, i) == <<Eval(path \o <<1, i>>, Nothing), Element(path, i)>>

\* An empty vector takes its type from where it stands.
EmptyVector ==
    /\ Visiting("Vector") /\ Here[1].parts = <<>>
    /\ LET kind == IF Wanted = Nothing THEN "Unknown" ELSE Wanted.kind IN
       \/ kind = "Vector" /\ Holds(Item.at, Wanted)
       \/ kind = "Tensor" /\ Holds(Item.at, VectorOf(Param(Wanted, 1)))
       \/ kind \notin {"Vector", "Tensor"} /\ Judges(0, <<Error>>, FALSE)
Vector ==
    /\ Visiting("Vector") /\ Here[1].parts # <<>>
    /\ Expands(<<Yield(Unknown)>> \o NextElement(Item.at, 1))

\* The type of the elements so far and of one more, Nothing where it is refused:
\* elements are literals of types that widen to a common one.
Common(type, element) ==
    IF type.kind = "Unknown" \/ SameType(type, element) THEN element
    ELSE IF IsNumeric(type) /\ IsNumeric(element) THEN DeduceNumeric(type, element)
    ELSE Nothing
IsElement(node, type) ==
    /\ type # Nothing /\ IsNumeric(type)
    /\ node.kind = "Literal" /\ node.parts[1].kind \in {"Integer", "Float"}

\* A fault for the runs to see: the element is refused without a report.
FailQuietly ==
    /\ Doing("element")
    /\ ~IsElement(Here[1].parts[Item.i], Common(Result(1), Result(0)))
    /\ Judges(2, <<Error>>, TRUE)
\* The first element that fails ends the visit; one in error has reported it.
FailElement ==
    /\ Doing("element")
    /\ ~IsElement(Here[1].parts[Item.i], Common(Result(1), Result(0)))
    /\ Judges(2, <<Error>>, Result(0).kind = "Error")
AddElement ==
    /\ Doing("element")
    /\ LET type == Common(Result(1), Result(0)) IN
       /\ IsElement(Here[1].parts[Item.i], type)
       /\ \/ /\ Item.i < Len(Here[1].parts)
             /\ Leaves(NextElement(Item.at, Item.i + 1))
             /\ Gives(2, <<type>>)
             /\ UNCHANGED facts
          \/ /\ Item.i = Len(Here[1].parts)
             /\ Leaves(<<>>)
             /\ Gives(2, <<MergeExpected(VectorOf(type), Wanted)>>)
             /\ facts' = [facts EXCEPT !.vectors = @ \cup {Item.at}]
    /\ UNCHANGED <<tree, stacks, tables, had_error>>

-----------------------------------------------------------------------------
(* Calls.  The callee is a name, and is not evaluated.                        *)

Outcome(type, ok) == [type |-> type, ok |-> ok]
Refused == Outcome(Error, FALSE)
WantedIs(kind) == Wanted # Nothing /\ Wanted.kind = kind

SomeOf(args) ==
    LET want == IF WantedIs("Option") THEN Param(Wanted, 1) ELSE Unknown
        fits == IsAssignable(want, args[1])
        payload == IF want.kind # "Unknown" /\ fits THEN want ELSE args[1]
    IN IF Len(args) # 1 THEN Refused
       ELSE Outcome(MergeExpected(OptionOf(payload), Wanted), fits)

NoneOf(args) ==
    IF ~WantedIs("Option") THEN Refused
    ELSE Outcome([Wanted EXCEPT !.params = Padded(@, 1)], args = <<>>)

\* Ok gives parameter 1 of the expected Result, Err parameter 2.
ResultOfCall(args, i) ==
    LET template == [Wanted EXCEPT !.params = Padded(@, 2)]
        want == template.params[i]
        given == IF want.kind = "Unknown" THEN args[1] ELSE want
    IN IF Len(args) # 1 \/ ~WantedIs("Result") THEN Refused
       ELSE Outcome(MergeExpected([template EXCEPT !.params[i] = given], Wanted),
                    IsAssignable(want, args[1]))

\* weights.load and print take one string, weights.load a literal one.
Builtin(args, type, ok) ==
    IF Len(args) = 1 /\ args[1].kind = "String" /\ ok THEN Outcome(type, TRUE) ELSE Refused

\* A fault for the runs to see: the caller's effects are not asked for.
CallOfAny(name, args) ==
    IF ~IsDefined(name) \/ Resolve(name).kind # "Function" THEN Refused
    ELSE LET function == Resolve(name) IN
         Outcome(function.type,
                 /\ Len(function.params) = Len(args)
                 /\ \A i \in DOMAIN args : IsAssignable(function.params[i], args[i]))
CallOf(name, args) ==
    IF ~IsDefined(name) \/ Resolve(name).kind # "Function" THEN Refused
    ELSE LET function == Resolve(name) IN
         Outcome(function.type,
                 /\ function.effectful => effects # <<>> /\ Last(effects)
                 /\ Len(function.params) = Len(args)
                 /\ \A i \in DOMAIN args : IsAssignable(function.params[i], args[i]))

Call ==
    /\ Visiting("Call")
    /\ Expands(EvalAll(Below(2)) \o <<Then("call", Item.at)>>)

Called ==
    /\ Doing("call")
    /\ LET name == Here[1].parts[1].text
           n == Len(Here[2].parts)
           args == Args(n)
           outcome ==
               IF name = <<"Some">> THEN SomeOf(args)
               ELSE IF name = <<"None">> THEN NoneOf(args)
               ELSE IF name = <<"Ok">> THEN ResultOfCall(args, 1)
               ELSE IF name = <<"Err">> THEN ResultOfCall(args, 2)
               ELSE IF name = <<"print">> THEN Builtin(args, Of("Void"), TRUE)
               ELSE IF name = <<"weights", ".", "load">>
                    THEN Builtin(args, Of("I32"), Here[2].parts[1].kind = "Literal")
               ELSE CallOf(name, args)
       IN Judges(n, <<outcome.type>>, outcome.ok)

-----------------------------------------------------------------------------
(* Matches.                                                                   *)

Match ==
    /\ Visiting("Match")
    /\ Expands(<<Eval(Below(1), Nothing), Then("open", Item.at)>>)

Variant(name, payload) == [name |-> name, payload |-> payload]

\* The variants a value of a type may be, Nothing for a type that has none.
VariantsOf(type) ==
    IF type.kind = "Option"
    THEN <<Variant(<<"Some">>, Param(type, 1)), Variant(<<"None">>, Nothing)>>
    ELSE IF type.kind = "Result"
    THEN <<Variant(<<"Ok">>, Param(type, 1)), Variant(<<"Err">>, Param(type, 2))>>
    ELSE IF type.kind = "Custom" /\ type.name \in DOMAIN tables.enums
    THEN tables.enums[type.name].variants
    ELSE Nothing
EnumId(type) == IF type.kind = "Custom" THEN tables.enums[type.name].id ELSE -1

\* Until an arm or the context has settled the result's type it is unknown.
Open ==
    /\ Doing("open")
    /\ \/ VariantsOf(Result(0)) = Nothing /\ Judges(1, <<Error>>, FALSE)
       \/ /\ VariantsOf(Result(0)) # Nothing
          /\ matching' = Append(matching,
                [scrutinee |-> Result(0),
                 result |-> IF Wanted = Nothing THEN Unknown ELSE Wanted,
                 valid |-> TRUE, seen |-> {}, unguarded |-> {}, arms |-> <<>>])
          /\ Gives(1, <<>>)
          /\ Leaves([i \in DOMAIN Here[2].parts |-> Then("arm", Below(2) \o <<i>>)]
                    \o <<Then("conclude", Item.at)>>)
          /\ UNCHANGED <<tree, symbols, expected, returns, effects, open_loops, tables,
                         facts, had_error>>

Frame == Last(matching)
Reframed(frame) == [matching EXCEPT ![Len(matching)] = frame]

Bound(names, types) == [fits |-> TRUE, names |-> names, types |-> types]
Unbound == [fits |-> FALSE, names |-> <<>>, types |-> <<>>]
Texts(list) == [i \in DOMAIN list.parts |-> list.parts[i].text]

\* bind_pattern_payload: the names a pattern gives, and their types.
PayloadBindings(pattern, payload) ==
    LET list == pattern.parts[1]
        fields == FieldsOf(payload)
    IN IF pattern.kind = "Binding" THEN Bound(<<list.text>>, <<payload>>)
       ELSE IF pattern.kind = "Tuple" /\ Len(payload.params) = Len(list.parts)
       THEN Bound(Texts(list), payload.params)
       ELSE IF /\ pattern.kind = "RecordPattern"
               /\ payload.kind = "Custom" /\ payload.name \in DOMAIN tables.records
               /\ Range(PairNames(list)) \subseteq DOMAIN fields
       THEN Bound([i \in DOMAIN list.parts |-> list.parts[i].parts[2].text],
                  [i \in DOMAIN list.parts |-> fields[PairNames(list)[i]]])
       ELSE Unbound

\* analyze_nested_variant: a variant within the payload, whose own payload may
\* be bound, and is never without a pattern.
Bindings(pattern, payload) ==
    IF pattern.kind = "Variant"
    THEN LET inner == IF payload.kind = "Custom"
                      THEN PayloadOf(payload.name, pattern.parts[1].text) ELSE Absent
         IN IF inner \in {Absent, Nothing} \/ pattern.parts[2].kind \in {"NoPattern", "Variant"}
            THEN Unbound
            ELSE PayloadBindings(pattern.parts[2], inner)
    ELSE PayloadBindings(pattern, payload)

\* What a pattern binds, the last binding of a name; "_" binds nothing.
ScopeOf(path, bound) ==
    [name \in Range(bound.names) \ {<<"_">>} |->
        VariableSymbol(path, bound.types[SelectLastInSeq(bound.names, LAMBDA n : n = name)])]

\* A pattern fits a variant that has a payload exactly when there is one.
ArmBindings(arm, variants) ==
    LET i == VariantOf(variants, arm.parts[1].text)
        pattern == arm.parts[2]
        payload == variants[i].payload
    IN IF i = 0 \/ (payload = Nothing <=> pattern.kind # "NoPattern") THEN Unbound
       ELSE IF payload = Nothing THEN Bound(<<>>, <<>>)
       ELSE Bindings(pattern, payload)

\* An arm is seen when its variant exists, whatever else is wrong with it.
IsGuarded(arm) == arm.parts[3] # Absent
Repeats(arm) == ~IsGuarded(arm) /\ arm.parts[1].text \in Frame.unguarded
Seeing(arm) ==
    LET name == arm.parts[1].text IN
    [Frame EXCEPT !.seen = @ \cup {name},
                  !.unguarded = IF IsGuarded(arm) THEN @ ELSE @ \cup {name},
                  !.valid = @ /\ ~Repeats(arm)]

\* A scope entered for a pattern that does not fit is left at once.
RefuseArm ==
    /\ Doing("arm")
    /\ LET arm == At(Item.at)
           variants == VariantsOf(Frame.scrutinee)
       IN /\ ~ArmBindings(arm, variants).fits
          /\ matching' = Reframed([(IF VariantOf(variants, arm.parts[1].text) = 0 THEN Frame
                                    ELSE Seeing(arm)) EXCEPT !.valid = FALSE])
    /\ Leaves(<<>>) /\ Checks(FALSE)
    /\ UNCHANGED <<tree, results, symbols, expected, returns, effects, open_loops, tables,
                   facts>>

\* Once the result's type is settled it is expected of every further arm.
EnterArm ==
    /\ Doing("arm")
    /\ LET arm == At(Item.at)
           bound == ArmBindings(arm, VariantsOf(Frame.scrutinee))
           wanted == IF Frame.result.kind = "Unknown" THEN Nothing ELSE Frame.result
       IN /\ bound.fits
          /\ symbols' = Append(symbols, ScopeOf(Item.at, bound))
          /\ matching' = Reframed(Seeing(arm))
          /\ Checks(~Repeats(arm))
          /\ Leaves((IF IsGuarded(arm) THEN Condition(3) ELSE <<>>)
                    \o <<Eval(Below(4), wanted), Then("close", Item.at)>>)
    /\ UNCHANGED <<tree, results, expected, returns, effects, open_loops, tables, facts>>

\* MatchMetadata::ArmInfo
ArmInfo(arm, type) ==
    LET variants == VariantsOf(Frame.scrutinee)
        i == VariantOf(variants, arm.parts[1].text)
    IN [variant |-> arm.parts[1].text, variant_id |-> i - 1,
        enum_id |-> EnumId(Frame.scrutinee), pattern |-> arm.parts[2].kind,
        guarded |-> IsGuarded(arm), type |-> type,
        payload |-> IF variants[i].payload = Nothing THEN Unknown ELSE variants[i].payload]

CloseArm ==
    /\ Doing("close")
    /\ LET type == Result(0)
           result == IF Frame.result.kind = "Unknown" THEN type ELSE Frame.result
           fits == type.kind = "Unknown" \/ IsAssignable(result, type)
       IN /\ matching' = Reframed([Frame EXCEPT
                            !.result = result, !.valid = @ /\ fits,
                            !.arms = Append(@, ArmInfo(At(Item.at), type))])
          /\ Checks(fits)
    /\ symbols' = Front(symbols)
    /\ Gives(1, <<>>)
    /\ Leaves(<<>>)
    /\ UNCHANGED <<tree, expected, returns, effects, open_loops, tables, facts>>

\* A fault for the runs to see: an arm for one variant is enough.
ConcludeWithAny ==
    /\ Doing("conclude")
    /\ LET type == IF Frame.valid /\ Frame.seen # {} THEN Frame.result ELSE Error IN
       /\ facts' = [facts EXCEPT !.matches = Extended(@, Item.at,
                       [kind |-> Frame.scrutinee.kind, result |-> Frame.result,
                        seen |-> Frame.seen, arms |-> Frame.arms])]
       /\ Checks(Frame.seen # {})
       /\ Gives(0, <<type>>)
    /\ matching' = Front(matching)
    /\ Leaves(<<>>)
    /\ UNCHANGED <<tree, symbols, expected, returns, effects, open_loops, tables>>
\* Every variant needs an arm, guarded or not.
Conclude ==
    /\ Doing("conclude")
    /\ LET variants == VariantsOf(Frame.scrutinee)
           covered == \A i \in DOMAIN variants : variants[i].name \in Frame.seen
           type == IF Frame.valid /\ covered THEN Frame.result ELSE Error
       IN /\ facts' = [facts EXCEPT !.matches = Extended(@, Item.at,
                          [kind |-> Frame.scrutinee.kind, result |-> Frame.result,
                           seen |-> Frame.seen, arms |-> Frame.arms])]
          /\ Checks(covered)
          /\ Gives(0, <<type>>)
    /\ matching' = Front(matching)
    /\ Leaves(<<>>)
    /\ UNCHANGED <<tree, symbols, expected, returns, effects, open_loops, tables>>

-----------------------------------------------------------------------------

WorkStep == Yielded \/ Forget \/ Evaluate \/ Record
FunctionStep ==
    \/ SkipStatement \/ DeclareFunction \/ Sign \/ Signed \/ Function \/ Annotate
    \/ Parameter \/ Leave
StatementStep ==
    \/ ExpressionStatement \/ Declare \/ Initialize \/ Bind \/ Block \/ Exit \/ If
    \/ ConditionIsBool \/ While \/ Loop \/ EnterLoop \/ LeaveLoop \/ Jump \/ Return
    \/ Returned
DeclarationStep ==
    \/ Module \/ Import \/ Alias \/ DeclareRecord \/ DefineRecord \/ DeclareEnum
    \/ DefineEnum
TypeStep == SimpleType \/ GenericType \/ Generic \/ GenericAlias \/ Aliased
ExpressionStep ==
    \/ Literal \/ Grouping \/ Variable \/ Assign \/ Assigned \/ Binary \/ Operate \/ Unary
    \/ Negate \/ FieldAccess \/ Field \/ RecordLiteral \/ FieldValue \/ Fit \/ EnumLiteral
    \/ EmptyVector \/ Vector \/ FailElement \/ AddElement \/ Call \/ Called
MatchStep == Match \/ Open \/ RefuseArm \/ EnterArm \/ CloseArm \/ Conclude

AnalyzerNext ==
    \/ WorkStep \/ FunctionStep \/ StatementStep \/ DeclarationStep \/ TypeStep
    \/ ExpressionStep \/ MatchStep
AnalyzerSpec ==
    AnalyzerInit /\ [][AnalyzerNext]_analyzerVars /\ WF_analyzerVars(AnalyzerNext)

Analyzed == todo = <<>>
Accepts == Analyzed /\ ~had_error

-----------------------------------------------------------------------------

HowMany(kinds) == Cardinality({i \in DOMAIN todo : todo[i].do \in kinds})

\* The analyzer keeps six stacks by hand, with early exits on every error.  Each
\* is as deep as the visitors in progress make it, and the end finds them all
\* as the start left them.
AnalyzerTypeOK ==
    /\ had_error \in BOOLEAN
    /\ \A i \in DOMAIN results : results[i].kind \in Kinds
    /\ Len(symbols) = 1 + HowMany({"exit", "leave", "close"})
    /\ Len(expected) = HowMany({"record"})
    /\ Len(returns) = HowMany({"leave"}) /\ Len(effects) = Len(returns)
    /\ Len(open_loops) = HowMany({"leaveLoop"}) - HowMany({"enterLoop"})
    /\ Len(matching) = HowMany({"conclude"})
    /\ Analyzed => results = <<>>

IsErroneous(type) ==
    type.kind = "Error" \/ \E i \in DOMAIN type.params : type.params[i].kind = "Error"
\* The analyzer goes on after an error with the error type, which fits
\* everything: it must not do so without having reported one.
ErrorsAreReported ==
    \/ had_error
    \/ /\ \A i \in DOMAIN results : ~IsErroneous(results[i])
       /\ \A path \in DOMAIN facts.types : ~IsErroneous(facts.types[path])
       /\ \A i \in DOMAIN symbols : \A name \in DOMAIN symbols[i] :
              ~IsErroneous(symbols[i][name].type)
=============================================================================
