------------------------------ MODULE MCDriver ------------------------------
(* The files of MCModuleLoader, any of which may be edited at any moment, and *)
(* every outcome of each phase.                                               *)
EXTENDS Driver, MCModuleLoader

\* A unit that analysis accepts and the generator throws on, and one that
\* lowers to an instruction the encoder has no room for.
Throwing == Unit(<<<<"pkg", "util">>>>, <<"pkg", "util">>, TRUE)
TooWide  == Unit(<<<<"main">>>>, <<"pkg", "util">>, TRUE)

MCLowers  == {c \in MCEditContent : c # Throwing}
MCEncodes == {c \in MCLowers : c # TooWide}
=============================================================================
