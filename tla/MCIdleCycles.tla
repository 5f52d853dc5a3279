---------------------------- MODULE MCIdleCycles ----------------------------
(*
Idle times at the edges of the int and of its products with 60 and with 6.
*)
EXTENDS IdleCycles

IntMax == 2147483647

\* The low word: small times, the last that 60 times and that 6 times fit,
\* the first that do not, and the ends of the int.
LowWords ==
    {-IntMax - 1, -1, 0, 1, 2, 3, LongestMinutes, LongestMinutes + 1,
     IntMax \div 6, IntMax \div 6 + 1, IntMax}

\* Negative, within 32 bits, beyond them, and the LONG_MAX of an overflow.
MCLongs == [high : {-1, 0, 1, IntMax}, low : LowWords]

MCMaxPolls == 13
=============================================================================
