----------------------------- MODULE MCEncfsArgs -----------------------------
(*
Words of command lines for the runs of EncfsArgs, and the command lines of
the run on the option to unmount.
*)
EXTENDS EncfsArgs

Short(c) == <<"-", c>>
Long(n)  == <<"-", "-", n>>

Repeat(w, n) == [i \in 1..n |-> w]

RawAndMount == <<<<"/", "r">>, <<"/", "m">>>>

\* The option to unmount in its two forms with the mount point, and a mount.
MCUnmountLines ==
    {<<u, <<"/", "m">>>> : u \in {Short("u"), Long("unmount")}}
        \cup {<<Short("f"), <<"/", "r">>, <<"/", "m">>>>}
=============================================================================
