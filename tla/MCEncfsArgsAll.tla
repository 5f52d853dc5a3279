--------------------------- MODULE MCEncfsArgsAll ---------------------------
(*
The command lines of the three families together: every option in every
form, every spelling of the two directories, and the lines that fill fuseArgv.
*)
EXTENDS MCEncfsArgsOptions, MCEncfsArgsPaths, MCEncfsArgsCapacity

MCAllLines == MCOptionLines \cup MCPathLines \cup MCLongLines
=============================================================================
