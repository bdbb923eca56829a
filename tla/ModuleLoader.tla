---------------------------- MODULE ModuleLoader ----------------------------
(***************************************************************************)
(* run_check of the t81-lang driver: the recursive load_module over the    *)
(* import graph, then the semantic analysis of every loaded unit.  The C++ *)
(* recursion is the explicit stack; `call` is the argument of a call of    *)
(* load_module that has been made and has not yet looked at the state map. *)
(*                                                                         *)
(* The files belong to the user, who may edit, create or delete them while *)
(* the driver runs; Edit is that environment.                              *)
(***************************************************************************)
EXTENDS ImportGraph

CONSTANTS
  None,      \* no call pending, no exit code yet
  MaxEdits   \* bound on the edits the environment makes in one run

ASSUME LoaderAssumption == None \notin File /\ None \notin {0, 1} /\ MaxEdits \in Nat

VARIABLES
  disk,            \* the file system
  edits,           \* edits made so far (a bound, not part of the program)
  phase,           \* "start" | "load" | "analyse" | "exit"
  state,           \* the VisitState of each key
  stack,           \* the live load_module frames, outermost first
  call,            \* pending load_module argument, or None
  units,           \* the parsed units by key, Absent where none was emplaced
  pending,         \* keys of units the analysis loop has still to visit
  graph_error,
  semantic_error,
  exit_code,       \* what run_check returned, or None
  edge,            \* history: the (importer, dependency) calls made
  finished,        \* history: keys in the order of units.emplace
  diagnostics      \* history: what was printed, in order

loaderVars == <<state, stack, call, units, graph_error, edge, finished>>
vars == <<disk, edits, phase, state, stack, call, units, pending, graph_error,
          semantic_error, exit_code, edge, finished, diagnostics>>

Top == stack[Len(stack)]
Keys == {stack[i].key : i \in 1 .. Len(stack)}
FinishedKeys == {finished[i] : i \in 1 .. Len(finished)}

Report(d) == diagnostics' = Append(diagnostics, d)

\* A fault for the runs to see: the cycle printed from the bottom of the stack.
WholeStack(key) == Append([i \in 1 .. Len(stack) |-> stack[i].key], key)

\* std::find(stack, key) to the end, then the key again.
Cycle(key) ==
  LET from == CHOOSE i \in 1 .. Len(stack) : stack[i].key = key
  IN  Append([i \in 1 .. (Len(stack) - from + 1) |-> stack[from + i - 1].key], key)

Init ==
  /\ disk \in Disk
  /\ edits = 0
  /\ phase = "start"
  /\ state = [f \in File |-> "Unseen"]
  /\ stack = <<>>
  /\ call = None
  /\ units = [f \in File |-> Absent]
  /\ pending = {}
  /\ graph_error = FALSE
  /\ semantic_error = FALSE
  /\ exit_code = None
  /\ edge = {}
  /\ finished = <<>>
  /\ diagnostics = <<>>

\* The fs::exists test on the entry, before anything is loaded.
EntryMissing ==
  /\ phase = "start"
  /\ ~Exists(disk, Entry)
  /\ phase' = "exit"
  /\ exit_code' = 1
  /\ Report([kind |-> "no entry", file |-> Entry])
  /\ UNCHANGED <<disk, edits, pending, semantic_error, loaderVars>>

Start ==
  /\ phase = "start"
  /\ Exists(disk, Entry)
  /\ phase' = "load"
  /\ call' = Entry
  /\ UNCHANGED <<disk, edits, state, stack, units, pending, graph_error,
                 semantic_error, exit_code, edge, finished, diagnostics>>

\* A fault for the runs to see: a key that is being visited passes for loaded.
AlreadySeen ==
  /\ phase = "load"
  /\ call # None
  /\ state[call] # "Unseen"
  /\ call' = None
  /\ UNCHANGED <<disk, edits, phase, state, stack, units, pending, graph_error,
                 semantic_error, exit_code, edge, finished, diagnostics>>

\* load_module on a key that is Done.
AlreadyLoaded ==
  /\ phase = "load"
  /\ call # None
  /\ state[call] = "Done"
  /\ call' = None
  /\ UNCHANGED <<disk, edits, phase, state, stack, units, pending, graph_error,
                 semantic_error, exit_code, edge, finished, diagnostics>>

\* load_module on a key that is still on the stack.
CycleDetected ==
  /\ phase = "load"
  /\ call # None
  /\ state[call] = "Visiting"
  /\ graph_error' = TRUE
  /\ Report([kind |-> "cycle", file |-> call, path |-> Cycle(call)])
  /\ call' = None
  /\ UNCHANGED <<disk, edits, phase, state, stack, units, pending,
                 semantic_error, exit_code, edge, finished>>

\* A fault for the runs to see: the early return pops the stack and forgets the
\* state map.
ParseFailedStillVisiting ==
  /\ phase = "load"
  /\ call # None
  /\ state[call] = "Unseen"
  /\ ~Parsed(disk, call)
  /\ graph_error' = TRUE
  /\ state' = [state EXCEPT ![call] = "Visiting"]
  /\ Report([kind |-> "unparsed", file |-> call])
  /\ call' = None
  /\ UNCHANGED <<disk, edits, phase, stack, units, pending,
                 semantic_error, exit_code, edge, finished>>

\* parse_unit returns nothing: the file went away, or it does not parse.
ParseFailed ==
  /\ phase = "load"
  /\ call # None
  /\ state[call] = "Unseen"
  /\ ~Parsed(disk, call)
  /\ graph_error' = TRUE
  /\ state' = [state EXCEPT ![call] = "Done"]
  /\ Report([kind |-> "unparsed", file |-> call])
  /\ call' = None
  /\ UNCHANGED <<disk, edits, phase, stack, units, pending,
                 semantic_error, exit_code, edge, finished>>

Open ==
  /\ phase = "load"
  /\ call # None
  /\ state[call] = "Unseen"
  /\ Parsed(disk, call)
  /\ state' = [state EXCEPT ![call] = "Visiting"]
  /\ stack' = Append(stack, [key  |-> call,
                             unit |-> disk[call],
                             todo |-> disk[call].imports])
  /\ call' = None
  /\ UNCHANGED <<disk, edits, phase, units, pending, graph_error,
                 semantic_error, exit_code, edge, finished, diagnostics>>

\* The next import of the innermost live frame.
Importing ==
  /\ phase = "load"
  /\ call = None
  /\ stack # <<>>
  /\ Top.todo # <<>>

Dependency == Resolve(disk, Top.key, Top.unit, Head(Top.todo))

Advance == stack' = [stack EXCEPT ![Len(stack)].todo = Tail(@)]

\* A fault for the runs to see: a missing import ends the loop over the imports.
MissingImportBreaks ==
  /\ Importing
  /\ ~Exists(disk, Dependency)
  /\ graph_error' = TRUE
  /\ Report([kind |-> "missing", file |-> Top.key, import |-> Head(Top.todo)])
  /\ stack' = [stack EXCEPT ![Len(stack)].todo = <<>>]
  /\ UNCHANGED <<disk, edits, phase, state, call, units, pending,
                 semantic_error, exit_code, edge, finished>>

MissingImport ==
  /\ Importing
  /\ ~Exists(disk, Dependency)
  /\ graph_error' = TRUE
  /\ Report([kind |-> "missing", file |-> Top.key, import |-> Head(Top.todo)])
  /\ Advance
  /\ UNCHANGED <<disk, edits, phase, state, call, units, pending,
                 semantic_error, exit_code, edge, finished>>

Import ==
  /\ Importing
  /\ Exists(disk, Dependency)
  /\ call' = Dependency
  /\ edge' = edge \cup {<<Top.key, Dependency>>}
  /\ Advance
  /\ UNCHANGED <<disk, edits, phase, state, units, pending, graph_error,
                 semantic_error, exit_code, finished, diagnostics>>

Finish ==
  /\ phase = "load"
  /\ call = None
  /\ stack # <<>>
  /\ Top.todo = <<>>
  /\ units' = [units EXCEPT ![Top.key] = Top.unit]
  /\ state' = [state EXCEPT ![Top.key] = "Done"]
  /\ finished' = Append(finished, Top.key)
  /\ stack' = SubSeq(stack, 1, Len(stack) - 1)
  /\ UNCHANGED <<disk, edits, phase, call, pending, graph_error,
                 semantic_error, exit_code, edge, diagnostics>>

\* A fault for the runs to see: what was loaded is analysed and the graph's
\* errors are forgotten.
LoadedAnyway ==
  /\ phase = "load"
  /\ call = None
  /\ stack = <<>>
  /\ phase' = "analyse"
  /\ pending' = FinishedKeys
  /\ UNCHANGED <<disk, edits, semantic_error, exit_code, loaderVars, diagnostics>>

\* The outermost load_module has returned.
Loaded ==
  /\ phase = "load"
  /\ call = None
  /\ stack = <<>>
  /\ IF graph_error
       THEN phase' = "exit" /\ exit_code' = 1 /\ pending' = {}
       ELSE phase' = "analyse" /\ exit_code' = None /\ pending' = FinishedKeys
  /\ UNCHANGED <<disk, edits, semantic_error, loaderVars, diagnostics>>

\* A fault for the runs to see: the last unit's verdict is the verdict.
AnalyseLastWins(f) ==
  /\ phase = "analyse"
  /\ f \in pending
  /\ pending' = pending \ {f}
  /\ semantic_error' = ~units[f].sound
  /\ UNCHANGED <<disk, edits, phase, exit_code, loaderVars, diagnostics>>

\* One iteration over the unordered_map of units: any order is possible.
Analyse(f) ==
  /\ phase = "analyse"
  /\ f \in pending
  /\ pending' = pending \ {f}
  /\ semantic_error' = (semantic_error \/ ~units[f].sound)
  /\ IF units[f].sound
       THEN UNCHANGED diagnostics
       ELSE Report([kind |-> "semantic", file |-> f])
  /\ UNCHANGED <<disk, edits, phase, exit_code, loaderVars>>

\* A fault for the runs to see: the number of diagnostics as exit code.
ReturnCount ==
  /\ phase = "analyse"
  /\ pending = {}
  /\ phase' = "exit"
  /\ exit_code' = Len(diagnostics)
  /\ UNCHANGED <<disk, edits, pending, semantic_error, loaderVars, diagnostics>>

Return ==
  /\ phase = "analyse"
  /\ pending = {}
  /\ phase' = "exit"
  /\ exit_code' = IF semantic_error THEN 1 ELSE 0
  /\ UNCHANGED <<disk, edits, pending, semantic_error, loaderVars, diagnostics>>

\* The user creates, rewrites or deletes a file.
Edit(f, c) ==
  /\ edits < MaxEdits
  /\ c # disk[f]
  /\ disk' = [disk EXCEPT ![f] = c]
  /\ edits' = edits + 1
  /\ UNCHANGED <<phase, pending, semantic_error, exit_code, loaderVars, diagnostics>>

Load == EntryMissing \/ Start \/ AlreadyLoaded \/ CycleDetected \/ ParseFailed
        \/ Open \/ MissingImport \/ Import \/ Finish \/ Loaded

Check == Load \/ (\E f \in File : Analyse(f)) \/ Return

Next == Check \/ (\E f \in File, c \in Content \cup {Absent} : Edit(f, c))

\* run_check is straight-line code: it always takes its next step.
Spec == Init /\ [][Next]_vars /\ WF_vars(Check)

\* The same with the files left alone; Driver has the edits as steps of its own.
UneditedSpec == Init /\ [][Check]_vars /\ WF_vars(Check)

-----------------------------------------------------------------------------
(* Properties *)

VisitState == {"Unseen", "Visiting", "Done"}

Frame == [key : File, unit : Content, todo : Seq(Seq(Segment))]

\* Every variable keeps its type.
TypeOK ==
  /\ disk \in Disk
  /\ edits \in 0 .. MaxEdits
  /\ phase \in {"start", "load", "analyse", "exit"}
  /\ state \in [File -> VisitState]
  /\ stack \in Seq(Frame)
  /\ call \in File \cup {None}
  /\ units \in Disk
  /\ pending \subseteq File
  /\ graph_error \in BOOLEAN
  /\ semantic_error \in BOOLEAN
  /\ exit_code \in {None, 0, 1}
  /\ edge \subseteq File \X File
  /\ finished \in Seq(File)

\* The live frames are exactly the Visiting keys, no key has two frames, and
\* each frame was entered through an import of the one below it.  This is
\* what makes "the key is Visiting" mean "the key is an ancestor".
StackIsImportChain ==
  /\ Keys = {f \in File : state[f] = "Visiting"}
  /\ \A i, j \in 1 .. Len(stack) : stack[i].key = stack[j].key => i = j
  /\ \A i \in 1 .. Len(stack) - 1 : <<stack[i].key, stack[i+1].key>> \in edge

\* A pending call is the entry, or an import of the innermost frame.
CallIsImported ==
  call # None => IF stack = <<>> THEN call = Entry
                                 ELSE <<Top.key, call>> \in edge

\* While no error is met, an import that has been followed is Done, is about
\* to be entered, or is the frame above its importer.
EdgesAccounted ==
  ~graph_error =>
    \A e \in edge :
      /\ state[e[1]] # "Unseen"
      /\ \/ state[e[2]] = "Done"
         \/ stack # <<>> /\ Top.key = e[1] /\ call = e[2]
         \/ \E i \in 1 .. Len(stack) - 1 :
              stack[i].key = e[1] /\ stack[i+1].key = e[2]

\* Done without an error means emplaced, with the unit that was read.
FinishedIsDone ==
  /\ \A f \in FinishedKeys : state[f] = "Done" /\ units[f] \in Content
  /\ ~graph_error => {f \in File : state[f] = "Done"} \subseteq FinishedKeys

\* What each phase may rely on.
PhaseFacts ==
  /\ phase # "load" => stack = <<>> /\ call = None
  /\ phase = "load" => call = Entry \/ state[Entry] # "Unseen"
  /\ phase # "exit" => exit_code = None
  /\ phase = "analyse" \/ exit_code = 0 => ~graph_error /\ state[Entry] = "Done"
  /\ phase = "analyse" /\ ~semantic_error =>
       \A f \in FinishedKeys \ pending : units[f].sound
  /\ exit_code = 0 => \A f \in FinishedKeys : units[f].sound

\* Until an error is met, a unit is emplaced only after every unit it imports.
DependenciesFirst ==
  ~graph_error =>
    \A i \in 1 .. Len(finished) : \A f \in File :
      <<finished[i], f>> \in edge => \E j \in 1 .. i - 1 : finished[j] = f

\* The inductive strengthening of the safety properties.
LoaderInv ==
  /\ StackIsImportChain
  /\ CallIsImported
  /\ EdgesAccounted
  /\ FinishedIsDone
  /\ PhaseFacts
  /\ DependenciesFirst

\* Exit code 0 means: the entry was loaded, with everything it imports,
\* without a cycle, and every unit as it was read passed analysis.  It holds
\* whatever is edited meanwhile, for the graph and the units as read.
AcceptedMeansWellFormed ==
  exit_code = 0 =>
    /\ Entry \in FinishedKeys
    /\ \A e \in edge : {e[1], e[2]} \subseteq FinishedKeys
    /\ Acyclic(edge)
    /\ \A f \in FinishedKeys : units[f] \in Content /\ units[f].sound

\* A cycle that is printed is one: consecutive files import each other and
\* it ends where it began.
PrintedCycleIsReal ==
  \A n \in 1 .. Len(diagnostics) :
    diagnostics[n].kind = "cycle" =>
      LET path == diagnostics[n].path
      IN  /\ Len(path) > 1
          /\ path[1] = path[Len(path)]
          /\ \A i \in 1 .. Len(path) - 1 : <<path[i], path[i+1]>> \in edge

Diagnosed(kind, f) ==
  \E n \in 1 .. Len(diagnostics) :
    diagnostics[n].kind = kind /\ diagnostics[n].file = f

\* One bad module does not hide the others: when nobody edits the files, a
\* run that gets past the entry test names every reachable file that does
\* not parse and every importer of a missing file, and prints a cycle if and
\* only if there is one.
EveryGraphDefectReported ==
  phase \in {"analyse", "exit"} /\ Exists(disk, Entry) =>
    /\ \A f \in Reachable(disk) :
         /\ ~Parsed(disk, f) /\ Exists(disk, f) => Diagnosed("unparsed", f)
         /\ (\E t \in Targets(disk, f) : ~Exists(disk, t)) => Diagnosed("missing", f)
    /\ (\E f \in File : Diagnosed("cycle", f)) <=> ~Acyclic(ImportEdges(disk))

Verdict == INSTANCE CheckVerdict

\* With the files left alone, the run implements CheckVerdict: it ends, and
\* its exit code is the one the files deserve.
ImplementsVerdict == Verdict!Spec

\* docs/spec/language-scope.md:39, "Stable lexical ordering for module
\* traversal": the units are analysed, so diagnosed, in the order of their
\* keys.  Before is the lexical order of the keys.
LexicalOrder(Before(_, _)) ==
  \A m, n \in 1 .. Len(diagnostics) :
    /\ m < n
    /\ diagnostics[m].kind = "semantic"
    /\ diagnostics[n].kind = "semantic"
    => Before(diagnostics[m].file, diagnostics[n].file)
=============================================================================
