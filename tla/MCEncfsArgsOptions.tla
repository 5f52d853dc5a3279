----------------------------- MODULE MCEncfsArgsOptions -----------------------------
(*
Command lines that use every option, in every form getopt_long reads.
*)
EXTENDS MCEncfsArgs

Takes(n) == {o \in DOMAIN long_options : long_options[o].has_arg = n}

\* Arguments of options: a number, a negative one, and a text.
Values == {<<"5">>, <<"-", "1">>, <<"x">>}

\* One use of an option: alone, with its argument as the next word or in the
\* same word, in a cluster, unknown, and with an argument it does not take.
OptionUses ==
    {<<Short(c)>> : c \in DOMAIN optstring \cup {"V"}}
        \cup {<<Long(n)>> : n \in DOMAIN long_options \cup {"foreground"}}
        \cup {<<Short(c), v>> : c \in {"i", "o", "t", "c"}, v \in Values}
        \cup {<<Long(n), v>> : n \in Takes(1), v \in Values}
        \cup {<<Short("i") \o v>> : v \in Values}
        \cup {<<Long(n) \o <<"=">> \o v>> : n \in {"idle", "extpass", "verbose"}, v \in Values}
        \cup {<<<<"-", "f", "s">>>>, <<<<"-", "s", "V", "d">>>>, <<<<"-", "-">>>>}

\* An absolute and a relative directory, one that ends in "/", and the
\* empty argument.
Dirs == {<<"/", "r">>, <<"/", "m", "/">>, <<"r">>, <<>>}

Positioned == {<<>>} \cup {<<d>> : d \in Dirs} \cup {<<d, e>> : d, e \in Dirs}

\* The options the checks after the loop relate to one another: a delayed
\* mount is accepted only with --ondemand, and that only with --extpass, so
\* that it takes three of them for one to be accepted; -f lifts the check of
\* relative paths and -u leaves all of them out.
Interacting ==
    {<<Long("delaymount")>>, <<Long("ondemand")>>, <<Long("extpass") \o <<"=", "x">>>>,
     <<Short("f")>>, <<Short("u")>>, <<Short("N")>>, <<Short("i"), <<"5">>>>}

\* One use of an option with every choice of directories behind it; two uses
\* before, around and between two directories; three of the interacting
\* options before two absolute and two relative directories; and an argument
\* left over for the engine.  An option's argument that is due and missing takes the next
\* word, so the uses that end in an option are here too.
MCOptionLines ==
    ({u \o p : u \in OptionUses, p \in Positioned}
        \cup {u \o v \o RawAndMount : u, v \in OptionUses}
        \cup {<<RawAndMount[1]>> \o u \o <<RawAndMount[2]>> \o v : u, v \in OptionUses}
        \cup {u \o v \o w \o p : u, v, w \in Interacting,
                                   p \in {RawAndMount, <<<<"r">>, <<"m">>>>}}
        \cup {RawAndMount \o u \o <<<<"x">>>> : u \in OptionUses})
    \ {<<>>}
=============================================================================
