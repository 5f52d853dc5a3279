------------------------------- MODULE MCEncfs -------------------------------
(*
Encfs for TLC: one command line for each way through main().
*)
EXTENDS Encfs

Short(c) == <<"-", c>>
Long(n)  == <<"-", "-", n>>

RawAndMount == <<<<"/", "r">>, <<"/", "m">>>>

\* Options in front of the two directories: a daemon, the foreground, an
\* idle time in both forms, one that is no number, the status lines, and
\* the three options that depend on each other.
Mounts ==
    {o \o RawAndMount : o \in
        {<<>>, <<Short("f")>>, <<Long("idle") \o <<"=", "1">>>>,
         <<Short("i"), <<"1">>, Short("f"), Long("annotate")>>,
         <<Short("i"), <<"x">>>>,
         <<Long("delaymount"), Long("ondemand"), Long("extpass") \o <<"=", "p">>>>}}

\* The rest: the exits of the switch, the refusals, an option that does not
\* exist, the unmount command, and a command line that fills fuseArgv.
Others ==
    {<<Long("version")>>, <<Short("H")>>, <<<<"/", "r">>>>, <<<<"r">>, <<"m">>>>,
     <<Long("delaymount")>> \o RawAndMount, <<Short("z")>> \o RawAndMount,
     <<Short("u"), <<"/", "m">>>>, <<Long("unmount"), <<"/", "m">>>>,
     [i \in 1..31 |-> Short("d")] \o RawAndMount}

MCCommandLines == Mounts \cup Others
MCMaxOpenFiles == 1
=============================================================================
