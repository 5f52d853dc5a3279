----------------------------- MODULE MCEncfsArgsPaths -----------------------------
(*
Command lines that name the two directories in every spelling.
*)
EXTENDS MCEncfsArgs

\* Every spelling of a directory of up to four characters over two names.
Spellings == UNION {[1..n -> {"/", "a", "b"}] : n \in 1..4}

\* A raw directory and a mount point, as a daemon and in the foreground.
MCPathLines ==
    {f \o <<r, m>> : f \in {<<>>, <<Short("f")>>}, r, m \in Spellings}
=============================================================================
