----------------------------- MODULE ImportGraph -----------------------------
(***************************************************************************)
(* The files a `t81-lang check` run can read, the way the driver turns an  *)
(* import into a file, and what it means for the files reachable from the  *)
(* entry to be a well-formed program.                                      *)
(*                                                                         *)
(* A file is named by its canonical path: the sequence of its directories  *)
(* followed by its stem.  A dotted import or module name is the sequence   *)
(* of its segments.  disk gives each file its content, or Absent.          *)
(***************************************************************************)
EXTENDS Integers, Sequences, FiniteSets

CONSTANTS
  Segment,   \* directory, file and module name segments
  File,      \* the canonical paths the run may touch
  Entry,     \* the file named on the command line
  Content,   \* what one file can hold, as far as the driver looks at it
  Absent     \* the content of a file that is not there

\* parses: Parser::had_error() is false; sound: SemanticAnalyzer::had_error()
\* is false; module_decl: the last `module` declaration, <<>> when there is
\* none; imports: the `import` declarations in order.
UnitType == [parses : BOOLEAN, sound : BOOLEAN,
             module_decl : Seq(Segment), imports : Seq(Seq(Segment))]

ASSUME GraphAssumption ==
  /\ File \subseteq Seq(Segment)
  /\ IsFiniteSet(File)
  /\ Entry \in File
  /\ Content \subseteq UnitType
  /\ Absent \notin Content

Disk == [File -> Content \cup {Absent}]

Exists(disk, path) == path \in File /\ disk[path] # Absent

Parent(path) == SubSeq(path, 1, Len(path) - 1)

\* parent_path() once for the file name and once more for every segment of
\* the module declaration after the first; no declaration pops nothing more.
ModuleRoot(importer, module_decl) ==
  LET extra == IF module_decl = <<>> THEN 0 ELSE Len(module_decl) - 1
  IN  SubSeq(importer, 1, Len(importer) - 1 - extra)

\* A file beside the importer wins; otherwise the import is relative to the
\* root that the importer's own module declaration implies.
Resolve(disk, importer, unit, import) ==
  LET direct == Parent(importer) \o import
  IN  IF Exists(disk, direct)
        THEN direct
        ELSE ModuleRoot(importer, unit.module_decl) \o import

-----------------------------------------------------------------------------
(* The meaning of a set of files, independent of how the driver walks it.  *)

Parsed(disk, f) == Exists(disk, f) /\ disk[f].parses

Targets(disk, f) ==
  IF Parsed(disk, f)
    THEN {Resolve(disk, f, disk[f], disk[f].imports[i]) :
            i \in DOMAIN disk[f].imports}
    ELSE {}

Closed(disk, S) == \A f \in S : Targets(disk, f) \cap File \subseteq S

\* The least set that holds the entry and the targets of its members.
Reachable(disk) ==
  {f \in File : \A S \in SUBSET File :
                   Entry \in S /\ Closed(disk, S) => f \in S}

\* Every non-empty set of vertices has one without a successor in the set.
Acyclic(edges) ==
  \A S \in (SUBSET File) \ {{}} :
    \E a \in S : \A b \in S : <<a, b>> \notin edges

ImportEdges(disk) ==
  {e \in File \X File : e[1] \in Reachable(disk) /\ e[2] \in Targets(disk, e[1])}

WellFormedGraph(disk) ==
  /\ \A f \in Reachable(disk) : /\ Parsed(disk, f)
                                /\ \A t \in Targets(disk, f) : Exists(disk, t)
  /\ Acyclic(ImportEdges(disk))

\* Semantic analysis sees one unit at a time.
Accepts(disk) ==
  /\ WellFormedGraph(disk)
  /\ \A f \in Reachable(disk) : disk[f].sound
=============================================================================
