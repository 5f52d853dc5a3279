----------------------------- MODULE IdleCycles -----------------------------
(***************************************************************************)
(* The idle time from the command line to the unmount: --idle's argument   *)
(* through strtol into the int idleTimeout, the int product that turns it  *)
(* into a number of polls, and the polls the monitor counts against it.    *)
(* The values keep the widths the program gives them.                      *)
(***************************************************************************)
EXTENDS Integers

CONSTANTS
    Longs,      \* the results of strtol the model starts from
    MaxPolls    \* bound on the idle polls in a row the model follows

\* A long is its two 32-bit words, each read as a signed number.
ASSUME /\ \A l \in Longs : l.high \in Int /\ l.low \in Int
       /\ MaxPolls \in Nat

VARIABLES
    optarg,         \* what strtol made of --idle's argument
    idleTimeout,    \* EncFS_Args::idleTimeout
    timeoutCycles,  \* idleMonitor's local of that name
    idleCycles,     \* polls in a row the context found the mount idle
    pc              \* where the idle time has got to

vars == <<optarg, idleTimeout, timeoutCycles, idleCycles, pc>>

ActivityCheckInterval == 10

W == 65536

\* n within the int, as the low 32 bits of a number in two halves leave it.
Wrap(high, low) == (((high + W \div 2) % W) - W \div 2) * W + low

\* k * n as an int product that wraps.
IntTimes(k, n) ==
    LET low == k * (n % W)
    IN  Wrap(k * (n \div W) + (low \div W), low % W)

\* n / d as C divides: towards zero.
IntDiv(n, d) == (n \div d) + (IF n < 0 /\ (n % d) # 0 THEN 1 ELSE 0)

\* The long fits the int it is assigned to.
FitsInt(l) == l.high = (IF l.low < 0 THEN -1 ELSE 0)

\* case 'i': the conversion of long to int keeps the low word.
CaseIdle ==
    /\ pc = "switch"
    /\ idleTimeout' = optarg.low
    /\ pc' = "init"
    /\ UNCHANGED <<optarg, timeoutCycles, idleCycles>>

\* encfs_init starts the monitor for a positive idle time only.
encfs_init ==
    /\ pc = "init"
    /\ pc' = IF idleTimeout > 0 THEN "start" ELSE "unmonitored"
    /\ UNCHANGED <<optarg, idleTimeout, timeoutCycles, idleCycles>>

\* Faulty variant: the division is made before the product.
Cycles_DivisionFirst(minutes) ==
    {IntTimes(60, IntDiv(minutes, ActivityCheckInterval))}

\* 60 * idleTimeout / ActivityCheckInterval.  The product of two ints that
\* overflows is undefined: a build wraps it and divides, or has folded the
\* expression into 6 * idleTimeout and wraps that.
Cycles(minutes) ==
    {IntDiv(IntTimes(60, minutes), ActivityCheckInterval), IntTimes(6, minutes)}

MonitorStart ==
    /\ pc = "start"
    /\ timeoutCycles' \in Cycles(idleTimeout)
    /\ pc' = "serving"
    /\ UNCHANGED <<optarg, idleTimeout, idleCycles>>

\* One poll of an idle mount: the context unmounts once the idle polls in a
\* row have reached the cycles it is given.
IdlePoll ==
    /\ pc = "serving"
    /\ idleCycles < MaxPolls
    /\ idleCycles' = idleCycles + 1
    /\ pc' = IF idleCycles' >= timeoutCycles THEN "unmounted" ELSE pc
    /\ UNCHANGED <<optarg, idleTimeout, timeoutCycles>>

\* One poll of a mount that was used since the last.
BusyPoll ==
    /\ pc = "serving"
    /\ idleCycles' = 0
    /\ UNCHANGED <<optarg, idleTimeout, timeoutCycles, pc>>

\* The mount is gone, or has no monitor, or was followed to the bound.
Settled ==
    /\ pc \in {"unmounted", "unmonitored"} \/ idleCycles = MaxPolls
    /\ UNCHANGED vars

Init ==
    /\ optarg \in Longs
    /\ idleTimeout = 0
    /\ timeoutCycles = 0
    /\ idleCycles = 0
    /\ pc = "switch"

Next ==
    \/ CaseIdle
    \/ encfs_init
    \/ MonitorStart
    \/ IdlePoll
    \/ BusyPoll
    \/ Settled

Spec == Init /\ [][Next]_vars

-----------------------------------------------------------------------------

\* The longest idle time whose product with 60 is an int.
LongestMinutes == 35791394

\* The polls that make up the minutes asked for.
PollsFor(minutes) == minutes * (60 \div ActivityCheckInterval)

\* For an idle time up to LongestMinutes the monitor unmounts after exactly
\* the polls that make up those minutes, idle in a row, and not one sooner:
\* the product in idleMonitor comes before the division, so that times
\* below ten minutes are not lost.
UnmountsAfterTheTimeAsked ==
    (FitsInt(optarg) /\ optarg.low \in 1..LongestMinutes) =>
        (pc = "unmounted" <=> idleCycles >= PollsFor(optarg.low))

\* "--idle=MINUTES  Auto unmount after period of inactivity": whatever
\* positive number is asked for, the mount stays for a minute without use at
\* the least.
UnmountsNoSoonerThanAMinute ==
    (optarg.high > 0 \/ (optarg.high = 0 /\ optarg.low # 0)) =>
        (pc = "unmounted" => idleCycles >= PollsFor(1))

=============================================================================
