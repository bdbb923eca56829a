--------------------------- MODULE MCModuleLoader ---------------------------
(***************************************************************************)
(* Instances of ModuleLoader: a root file, a package file, and a file of   *)
(* the package that can shadow the root file.                              *)
(***************************************************************************)
EXTENDS ModuleLoader

RootMain == <<"main">>
PkgUtil  == <<"pkg", "util">>
PkgMain  == <<"pkg", "main">>

MCSegment == {"main", "pkg", "util"}
MCFile  == {RootMain, PkgUtil, PkgMain}
MCEntry == RootMain

\* Import names: "main" is RootMain from the root, PkgMain from the package
\* when that file exists, and RootMain again through "module pkg.util".
Names == {<<"main">>, <<"pkg", "util">>}

Unit(imports, decl, sound) ==
  [parses |-> TRUE, sound |-> sound, module_decl |-> decl, imports |-> imports]

Unparsable ==
  [parses |-> FALSE, sound |-> FALSE, module_decl |-> <<>>, imports |-> <<>>]

\* Both files of the package, one of which may import the other.
Diamond == Unit(<<<<"pkg", "util">>, <<"pkg", "main">>>>, <<>>, TRUE)

MCContent ==
  {Unit(i, d, TRUE) : i \in {<<>>} \cup [1 .. 1 -> Names] \cup [1 .. 2 -> Names],
                      d \in {<<>>, <<"pkg", "util">>}}
  \cup {Unit(<<<<"pkg", "util">>>>, <<>>, FALSE), Unit(<<>>, <<>>, FALSE), Unparsable,
        Diamond}

\* Fewer contents for the runs with edits, where each edit multiplies them.
MCEditContent ==
  {Unit(i, <<"pkg", "util">>, TRUE) : i \in {<<>>} \cup [1 .. 1 -> Names]}
  \cup {Unit(<<<<"pkg", "util">>, <<"pkg", "main">>>>, <<"pkg", "util">>, TRUE),
        Unit(<<>>, <<>>, FALSE), Unparsable}

KeyBefore(a, b) == <<a, b>> \in {<<RootMain, PkgMain>>, <<RootMain, PkgUtil>>,
                                 <<PkgMain, PkgUtil>>}

TraversalIsLexical == LexicalOrder(KeyBefore)
=============================================================================
