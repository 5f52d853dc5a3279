----------------------------- MODULE MCEncfsArgsCapacity -----------------------------
(*
Command lines that bring fuseArgv to its capacity and past it.
*)
EXTENDS MCEncfsArgs

\* Each family reaches the capacity by another store: an option's push, the
\* two of --nocache, -s, the leftover arguments, and the default flags.
MCLongLines ==
    UNION {
      { Repeat(Short("d"), n) \o RawAndMount,
        Repeat(Long("nocache"), n \div 2) \o RawAndMount,
        Repeat(Short("d"), n) \o <<Short("s")>> \o RawAndMount,
        Repeat(Short("d"), n) \o <<Long("no-default-flags")>> \o RawAndMount,
        Repeat(Short("d"), 20) \o RawAndMount \o Repeat(<<"x">>, n - 20),
        <<Long("no-default-flags")>> \o RawAndMount \o Repeat(<<"x">>, n) }
      : n \in 24..34 }
=============================================================================
