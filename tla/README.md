# TLA+ models of the encfs mount program

`src/encfs/main.cpp` is the front end of encfs: it reads the command line,
builds a configuration, and then either unmounts a mount point or mounts an
encrypted directory and serves it until it is unmounted. While it serves, an
optional second thread unmounts the filesystem after a period without use.
This directory holds TLA+ specifications of that program, the TLC
configurations that check them, and `PROJECT.json`, which lists the runs, the
source lines behind every definition, and the findings.

## 1. The system

| Part | Code | State | Operations |
|---|---|---|---|
| OptionProcessor | `processArgs` 212-621, `PUSHARG` 198-202, `slashTerminate` 204-210 | `EncFS_Args` (isDaemon, isThreaded, isVerbose, idleTimeout, syslogTag, fuseArgv/fuseArgc), `EncFS_Opts`, the local `useDefaultFlags`, getopt's `optind` | one `getopt_long` call and one `switch` case per option; positional arguments; default flags; six checks; the mount point's slot in `fuseArgv` |
| main entry | `main` 663-700, `usage` 133-184, `FuseUsage` 186-196 | the exit status | pid info, `argc == 1`, `processArgs`, `usage`, dispatch to unmount or mount |
| UnmountCommand | `main` 691-697 | none | `unmountFS(unmountPoint)`, return 0 |
| ServeDriver | `main` 702-855 | `ctx`, `rootInfo`, `oldStderr`, `returnCode` | fill `encfs_oper`, `initFS`, set up `ctx`, `dup(stderr)`, `fuse_main`, report a quick failure, stop the monitor, clean up |
| encfs_init | 625-661 | `ctx->running`, `ctx->monitorThread`, `oldStderr` | start the monitor if `idleTimeout > 0`, close the saved stderr of a daemon |
| IdleSupervisor | `idleMonitor` 866-905 | `timeoutCycles`, `unmountres` | lock, loop on `running`: `usageAndUnmount`, timed wait; unlock |
| MountContext | `EncFS_Context` (outside `main.cpp`) | `running`, `wakeupMutex`, `wakeupCond`, `monitorThread`, the root, the idle count | `setRoot`, `usageAndUnmount` |
| External engine | `fuse_main` (libfuse) | mounted or not, open files | calls `encfs_init` once, serves, returns after an unmount |

How they interact. `processArgs` produces the configuration or refuses the
command line. `main` then unmounts and returns, or builds the context and
blocks in `fuse_main`. The engine calls `encfs_init` on its own thread of
control; that callback creates the monitor thread. The monitor and `main` share
`ctx->running`, `wakeupMutex` and `wakeupCond`: the flag is written by `main`
without the mutex and read by the monitor with it. The monitor ends the mount
by unmounting inside `usageAndUnmount`; anyone else may unmount from outside.
Either makes `fuse_main` return, after which `main` stops the monitor, joins
it, and releases the root.

What makes it hard:

* two threads and an engine interleave freely between `fuse_main`'s call and
  its return, and teardown must be ordered (flag, lock, signal, unlock, join,
  release);
* `encfs_init` may never run, and `pthread_create` may fail, while `main`
  tears down as if the thread existed;
* `oldStderr` is a global changed by the callback while `main` is blocked and
  read by `main` afterwards;
* the meaning of a command line depends on the order of its words, on which
  options take an argument, and on getopt moving non-options behind the
  options;
* `fuseArgv` has a fixed capacity that options, leftover arguments and default
  flags all draw on;
* directory containment is decided on strings;
* the exit status is decided at one assignment of `returnCode` and at four
  early returns and exits, and has to be right on every path through both
  parts.

What must hold, part by part:

* OptionProcessor: whatever is accepted for a mount satisfies every
  cross-field rule and gives the engine a complete argument vector within
  capacity; a raw directory under the mount point is refused; `--unmount` with
  a mount point is accepted in both forms.
* ServeDriver and IdleSupervisor: the root outlives the monitor; the wake-up
  at shutdown is never lost; shutdown ends without waiting for a poll
  interval; an unused mount is eventually unmounted; the monitor leaves its
  loop only when told to or after its own unmount; only a created thread is
  joined.
* main entry: the process returns success exactly when what was asked for
  was done; a failure of the option processor is reported with the usage
  text.
* encfs_init and ServeDriver: the diagnostic for a quick failure is written
  only to a descriptor that is still open.

## 2. Modules

| Module | Models | Lines of `main.cpp` |
|---|---|---|
| `Encfs` | `main` from entry to exit: composes `EncfsArgs` and `EncfsMount`, with the usage, the exits of the switch and the unmount command | 133-196, 663-700, 764-766 |
| `EncfsArgs` | OptionProcessor | 68, 198-621 |
| `EncfsMount` | ServeDriver, encfs_init, IdleSupervisor, with the engine and the context as environment | 75-84, 130, 625-661, 702-905 |
| `EncfsLifecycle` | what a mount promises, as two variables; `EncfsMount` is shown to implement it | |
| `IdleCycles` | the idle time from `--idle`'s argument to the unmount, at the widths of `long` and `int` | 218, 351-354, 639-643, 864-892 |
| `MCEncfsArgs`, `MCEncfsArgsOptions`, `MCEncfsArgsPaths`, `MCEncfsArgsCapacity`, `MCEncfsArgsAll` | sets of command lines for the runs of `EncfsArgs`; the last is the union of the three before it | |
| `MCEncfsMount`, `MCIdleCycles`, `MCEncfs` | values of the constants of `EncfsMount`, `IdleCycles` and `Encfs` | |

### Encfs

`Encfs` has the variables of `EncfsArgs` and of `EncfsMount` and three of its
own: `entry` (before, in or past `processArgs`), `status` (the exit status of
a process that ended without a mount) and `unmountFS` (what the call of that
name came to). `EncfsArgs` is instantiated as it is. `EncfsMount` is
instantiated with its `args` replaced by `ctxArgs`, the four fields of `out`
and `opts` the mount reads, which is what `ctx->args = encfsArgs` and
`ctx->opts = encfsArgs->opts` do: the mount runs on the configuration this
command line produced, not on an arbitrary one.

| Action | Code |
|---|---|
| `InitPidInfo` | lines 670-674: `init_encfs_pidinfo` succeeds, or a line on `cerr` and `EXIT_FAILURE` |
| `ProcessArgs` | one step of `EncfsArgs`, unless `argc == 1` |
| `LeftInProcessArgs` | `exit(EXIT_SUCCESS)` of `'V'` and of `'H'` after `FuseUsage`; the exception of `PUSHARG`'s assertion, which nothing in `main` catches |
| `Refused` | lines 683-686: `argc == 1` or `processArgs` returned false: `usage`, `EXIT_FAILURE` |
| `UnmountCommand` | lines 691-697: the line on `cout`, `unmountFS`, which unmounts or fails, `return 0` |
| `MountNext` | one step of `EncfsMount` once `processArgs` has accepted a mount; `MountStep(A)` is that for one action `A` of `EncfsMount`, which is what the fairness conditions are about |

`MainInitFS` of `EncfsMount` clears `delayMount` when `initFS` has given a
root (line 761), so the configuration is written once more after
`processArgs`; in `Encfs` that write lands in `opts`. It happens before
`fuse_main` is called, when nothing else reads the configuration.

### EncfsArgs

An argument is a sequence of symbols: `"/"`, `"-"`, `"="` and digits are the
characters the code inspects, and a name (of an option, of a directory) is one
symbol. `--idle=5` is `<<"-", "-", "idle", "=", "5">>`, `/a/b` is
`<<"/", "a", "/", "b">>`.

| Variable | Code |
|---|---|
| `cmdline` | `argv[1..]` as given |
| `argv`, `positional` | what `getopt_long` has not scanned yet, and the non-options it has moved behind the options (`argv[optind..]` after the loop) |
| `out` | `EncFS_Args` without `opts`; `out.fuseArgv` is `fuseArgv[0..fuseArgc-1]` |
| `opts` | `EncFS_Opts` |
| `useDefaultFlags` | the local |
| `euidRoot` | `geteuid() == 0` |
| `pc`, `result` | where `processArgs` is and how it ended |

| Action | Code |
|---|---|
| `SwitchOption` | one iteration of the loop: `getopt_long`, then the case of `Switch` with its assignments and pushes |
| `ExitFromSwitch` | the cases `'V'` and `'H'`, which leave the program with the results `version` and `fuse_usage` |
| `SkipNonOption`, `EndOfOptions` | getopt's permutation, `--`, and the `-1` that ends the loop |
| `Positionals` | lines 469-510: `-s`, the unmount branch, `rootDir` and `mountPoint` through `slashTerminate`, the leftover arguments |
| `DefaultFlags` | lines 512-534 |
| `Validate` | lines 543-621: the six checks in order, the first failure being the reason, then `fuseArgv[1] = mountPoint` |

`getopt_long` is modelled by what it does with the option string and the table
of long options this program gives it: clusters (`-fs`), arguments in the same
word (`-i5`, `--idle=5`) or in the next one whatever that word is, unknown
options, a missing argument, an argument where none is allowed. `strtol` is the
conversion of an optional sign and leading digits, 0 for anything else.
The cases `'?'` and `':'` of the switch change nothing (`Ignored`).
The case `'f'` is `Foreground`, on its own because it is the one place where
`main`'s view of the process and the engine's are set together. `toString` is
what `EncFS_Args::toString` streams for the log line of `main`: a mark for
each field it shows, the idle time, and every argument below `fuseArgc`.
`slashTerminate("")` reads the character before the string; the model takes
both outcomes. `PUSHARG`'s assertion ends `processArgs` with the result
`assert_failed`. Whether a directory exists or the user lets it be made is a
nondeterministic choice, except that the empty path never is a directory.
The environment variable `POSIXLY_CORRECT`, which switches getopt's permutation
off, is assumed unset; the Cygwin and Apple branches are left out.

### EncfsMount

| Variable | Code |
|---|---|
| `args` | `isDaemon`, `idleTimeout`, `annotate`, `delayMount` of the validated configuration |
| `main` | the main thread's position from `initFS` to the return |
| `engine`, `mounted`, `res`, `quick` | `fuse_main`: where it is, whether the kernel still has the mount, its result, and `endTime - startTime <= 1` |
| `running`, `wakeupMutex` | `ctx->running`, owner of `ctx->wakeupMutex` |
| `monitor`, `unmountres`, `timeoutCycles` | the monitor thread's position and locals; `"none"` means `monitorThread` was never written |
| `idleCycles`, `active`, `openFiles` | what `usageAndUnmount` counts |
| `oldStderr`, `dupFd` | the global and the descriptor it named |
| `root` | the root handle held by `ctx` |
| `emitted` | status and diagnostic lines written |

One action per step of each thread (`Main...`, `Monitor...`), and the
environment: `EngineFailsToStart`,
`EngineMounts`, `FsActivity`, `FileOpen`, `FileRelease`, `ExternalUnmount`,
`EngineReturns`, `EngineThrows`. `pthread_cond_timedwait` is three steps: the
wait that frees the mutex, the wake-up by signal or by deadline, and the
reacquisition of the mutex. `ctx->running` is not initialised before
`encfs_init`, so `Init` takes either value. Joining a thread handle that was
never written is undefined; the model takes both outcomes a build gives, an
error return and a crash. `usageAndUnmount` and the engine are modelled from
their description, since their code is not in `main.cpp`.

`encfs_init` runs on the engine's thread while the thread it creates is
already running, so it is not one step. With an idle time, `InitMonitor`
makes the two statements of the idle branch one at a time, in the order
`StartMonitor` gives them: `ctx->running = true` (line 643), then
`pthread_create` (lines 645-651), whose failure is only logged. `InitClose`
is the rest, the closing of the saved stderr of a daemon. The monitor may
make any number of steps between them, and the engine serves only once
`encfs_init` has returned. `EngineUp` is the engine from the mount to the
end of its serve loop, `encfs_init` included: an unmount from outside can
come at any point of it.

### EncfsLifecycle

The abstract mount has a phase (`none`, `failed`, `acquired`, `serving`,
`unmounted`, `stopped`, `released`) and a supervisor (`absent`, `active`,
`ended`). Its actions say what may follow what: the supervisor is started at
most once and only while the engine serves; it ends only after the filesystem
is unmounted or the serve loop has ended; the root is released only after the
loop has ended and with no supervisor alive. `EncfsMount` instantiates it with

| Abstract | `EncfsMount` |
|---|---|
| `mount` | `mountPhase`: from `root`, `main`, `engine` and `mounted` |
| `supervisor` | `supervisorPhase`: `monitor = "none"` is absent, `"done"` is ended, any other position is active |

and `ImplementsLifecycle` is the abstract specification under that mapping.
Every step of the four actors is one abstract step or none. The lines of
`main`, `encfs_init` and `idleMonitor` are mapped to `EncfsMount`, not to this
module.

### IdleCycles

`EncfsMount` runs with idle times of a minute; `IdleCycles` follows the number
itself. `optarg` is the `long` that `strtol` returns, as its two 32-bit words;
`CaseIdle` keeps the low word, as the assignment to the `int` `idleTimeout`
does; `encfs_init` starts the monitor for a positive value only;
`MonitorStart` computes `timeoutCycles` with an `int` product that wraps
(`IntTimes`, on 16-bit halves) and C's division towards zero (`IntDiv`). The
overflow of that product is undefined, so `Cycles` is the set of what builds
make of it: the wrapped product divided by 10, or the expression folded into
`6 * idleTimeout` and wrapped. `IdlePoll` and `BusyPoll` are the polls of an
unused and of a used mount.

## 3. Runs

| Run | Configuration | Checks | Result |
|---|---|---|---|
| `mount_safety` | `EncfsMountSafety.cfg` | `TypeOK`, `RootOutlivesMonitor`, `NoLostWakeup`, `NoPollOnceSignalled`, `MonitorExitsOnlyWhenStopped`, `FailureReportReachesOpenStderr`, `ImplementsLifecycle`, no deadlock | holds; 25,434 states |
| `mount_liveness` | `EncfsMountLiveness.cfg` | `ShutdownTerminates`, `IdleEventuallyUnmounts` | holds; 25,434 states |
| `mount_join` | `EncfsMountJoin.cfg` | `JoinOnlyCreatedThread` | violated |
| `idle_exact` | `IdleCyclesExact.cfg` | `UnmountsAfterTheTimeAsked` | holds; 488 states |
| `idle_overflow` | `IdleCyclesOverflow.cfg` | `UnmountsNoSoonerThanAMinute` | violated |
| `args_accepts` | `EncfsArgsAccepts.cfg` | `TypeOK`, `AcceptedMountIsWellFormed`, `PrefixCheckDecidesContainment`, `FuseArgvWithinCapacity`, `ForegroundIsPassedOn` | holds; 801,762 states |
| `args_unmount` | `EncfsArgsUnmount.cfg` | `UnmountTakesItsMountPoint` | violated |
| `args_rawdir` | `EncfsArgsRawDir.cfg` | `RawDirNeverUnderMountPoint` | violated |
| `args_null` | `EncfsArgsNull.cfg` | `FuseArgvEndsInNull` | violated |
| `entry_exit` | `EncfsExit.cfg` | `ExitStatusTellsOutcome`, `EveryRunServesOrEnds`, no deadlock | holds; 27,026 states |
| `entry_unmount` | `EncfsUnmount.cfg` | `UnmountStatusTellsOutcome` | violated |
| `entry_assert` | `EncfsAssert.cfg` | `FailureOfProcessArgsShowsUsage` | violated |

What the properties that hold say:

* `RootOutlivesMonitor`, `ImplementsLifecycle`: on every path to the cleanup
  the root is released after the monitor thread has ended.
* `NoLostWakeup`, `ShutdownTerminates`: the signal of `main` reaches the
  monitor whatever the monitor was doing, and the join returns without a
  deadline having to pass.
* `NoPollOnceSignalled`: once `main` holds the mutex for its signal the
  monitor makes no further call of `usageAndUnmount`. A poll of a filesystem
  that somebody else has unmounted is possible, but only before that point,
  while the context is whole.
* `MonitorExitsOnlyWhenStopped`, `IdleEventuallyUnmounts`: the monitor keeps
  polling until it is stopped or has unmounted, and an unused mount is
  unmounted. The first depends on the order of the two statements of
  `encfs_init`: the new thread may test `ctx->running` before `encfs_init`
  makes its next step, and with the flag set behind `pthread_create` it
  would leave its loop at once.
* `FailureReportReachesOpenStderr`: the report of a quick failure is never
  written to the descriptor `encfs_init` has closed.
* `AcceptedMountIsWellFormed`, `PrefixCheckDecidesContainment`,
  `FuseArgvWithinCapacity`: what `processArgs` accepts has passed every check
  whatever the order of the options, the comparison of strings is right for
  canonically spelt directories, and no store goes past `fuseArgv`. The
  arguments `toString` streams for the log line hold no `nullptr`: the slot
  of the mount point is filled before `main` gets there.
* `ForegroundIsPassedOn`: `main` and the engine each decide whether the
  process detaches, `main` from `isDaemon` and the engine from its
  arguments. Whenever `main` mounts with `isDaemon` cleared, `-f` is among
  the arguments of `fuse_main`, whatever other options came with it. The
  converse is outside `main.cpp`: `-d`, and an `-f` given after `--`, are
  read by the engine, and `isDaemon` stays set.
* `UnmountsAfterTheTimeAsked`: below the overflow the monitor unmounts after
  exactly the time asked for.
* `ExitStatusTellsOutcome`: over `processArgs` and the whole mount, the exit
  status is `EXIT_SUCCESS` exactly for `--version`, `-H`, the unmount command
  and a serve loop that returned 0.
* `EveryRunServesOrEnds`: no command line makes the program hang short of
  its purpose. The loop over `getopt_long` comes to its break, the checks,
  `initFS` and the start of the engine come to an end, and after the serve
  loop so do the stop of the monitor and the clean-up: a process that is not
  serving a mounted filesystem gets to serve one, or ends.

What the violated properties show:

* `mount_join`: with `--idle` set, `main` joins `ctx->monitorThread` even when
  `fuse_main` failed before `encfs_init` ran, or when `pthread_create` failed.
  The handle was never written.
* `idle_overflow`: above 35791394 minutes `60 * idleTimeout` overflows,
  which is undefined; `Cycles` gives it the two results a build can have.
  The trace TLC reports is `--idle=357913942` in a build that has folded the
  expression into `6 * idleTimeout`: `timeoutCycles` is -2147483644. In a
  build that wraps the product and then divides, `--idle=35791395` gives
  -214748359. In both the first idle poll unmounts. The property is stated
  for the idle times the `int` holds and does not speak of the narrowing of
  `strtol`'s `long`, by which `--idle=4294967297` is one minute.
* `args_unmount`: the table of long options gives `--unmount` an argument
  while `-u` takes none. `encfs --unmount /mnt` takes `/mnt` as that argument
  and fails with "Expecting one argument".
* `args_rawdir`: `encfs / //` and `encfs /a/b /a//`-style command lines pass
  the comparison of strings although the raw directory is the mount point or
  lies below it.
* `args_null`: the assertion before each store lets `fuseArgc` reach 32, so a
  command line with 30 pushes is accepted with no `nullptr` left behind the
  arguments, which `main` had put there because "libfuse expects null args".

* `entry_unmount`: `main` returns 0 after `unmountFS` whatever the call did;
  the line it writes is written before the call. A caller cannot tell a
  failed unmount from a successful one.
* `entry_assert`: the option processor is to give a configuration or a
  failure with a reason, and never to throw past its boundary; every failure
  makes `main` print the usage and exit non-zero. `PUSHARG` checks the room
  in `fuseArgv` with `rAssert`, which throws, and `main` calls `processArgs`
  outside any `try`: `encfs` with 31 times `-d` before the two directories
  ends by an uncaught exception, with no usage text.

Each property of a passing run has a faulty variant of a definition, named
`<definition>_<fault>` and defined just before it, under which the property
fails; `PROJECT.json` lists them under `mutants`.

## 4. Bounds

* `IdleTimeouts = {-1, 0, 1}`: no monitor for the first two, and
  `timeoutCycles = 6` for the third, so that an idle unmount needs six polls in
  a row and activity in between resets the count. Larger values repeat the same
  loop.
* `MaxOpenFiles = 1`: the monitor distinguishes only zero from non-zero.
* `MCLongs`: low words 1, 2, 3, the last and the first idle time on each side
  of the overflow of `60 * n` and of `6 * n`, 0, -1 and both ends of the
  `int`; high words for a negative number, a number within 32 bits, one beyond
  them, and `LONG_MAX`. `MaxPolls = 13` follows a mount of one and of two
  minutes to its unmount (6 and 12 polls) and one of three minutes to the
  bound without one.
* `MaxFuseArgs = 32` is the program's own capacity, not a bound of the model.
  `MCLongLines` has command lines of 24 to 34 pushes in six families, one for
  each kind of store, so the capacity is reached exactly, missed by one and
  exceeded.
* `MCOptionLines`: every short and long option, an unknown one of each kind,
  each option that takes an argument with a number, a negative number and a
  text as next word and in the same word, clusters, and `--`; one use with
  every choice of up to two directories out of an absolute, a relative, a
  slash-terminated and an empty one, and two uses before and around a fixed
  pair of directories. Two uses are enough for an argument swallowing the
  option after it and for each single dependency to be refused. A delayed
  mount is accepted only with `--ondemand`, and that only with `--extpass`,
  so it takes three options for one to pass the checks: `Interacting` has the
  seven options the checks relate (`--delaymount`, `--ondemand`,
  `--extpass=x`, `-f`, `-u`, `-N`, `-i 5`), and every three of them, in every
  order and with repetitions, come before a pair of absolute and a pair of
  relative directories.
* `MCCommandLines` of `MCEncfs`: sixteen command lines, one for each way
  through `main`: no argument at all (added by `Init`), `--version`, `-H`, one
  directory, relative directories as a daemon, `--delaymount` alone, an
  unknown option, `-u` and `--unmount` with a mount point, 31 times `-d` (the
  assertion), and mounts as a daemon, in the foreground, with `--idle=1`,
  with `-i 1 -f --annotate`, with an idle time that is no number, and with
  `--delaymount --ondemand --extpass=p`. The breadth of command lines is in
  `args_accepts`; this set is to reach every configuration the mount tells
  apart (daemon or not, monitor or not, status lines or not, `delayMount` set
  or not) from a real command line.
* `args_accepts` checks the union of `MCOptionLines`, `MCPathLines` and
  `MCLongLines`.
* `MCPathLines`: every string of one to four characters over `/`, `a`, `b` for
  each directory, as a daemon and with `-f`: all relations of two paths up to
  depth two, including a name that is a prefix of another (`/a`, `/ab`).

## 5. Fairness

`entry_exit` checks `FairSpec` of `Encfs`: weak fairness of the steps of
`main` before the mount (they are lines of one sequential function), and, for
the mount, of the main thread, of the monitor's own steps, of the engine's
start (`fuse_main`, once called, mounts or returns), of `encfs_init` (the
engine calls it once mounted, and it is straight-line code) and of the
engine's return once the filesystem is unmounted. As below,
nothing is assumed of the requests to the filesystem, of an outside unmount
or of the deadline of the timed wait, which is why `EveryRunServesOrEnds`
lets a served mount be served for ever.

`mount_liveness` checks `FairSpec`: weak fairness of the main thread, of the
monitor thread's own steps, of `encfs_init` and of the engine's return once
the filesystem is unmounted. Threads that can run are scheduled, the
statements of `encfs_init` follow one another, and `fuse_main` returns after
an unmount. `FairSpec` does not assume that a timed wait ever reaches its
deadline, so `ShutdownTerminates` shows that the signal alone ends the
monitor. `IdleEventuallyUnmounts` has weak fairness of `MonitorTimeout` as its
hypothesis, because `pthread_cond_timedwait` returns at its deadline; it is
the only property that relies on the timer. Nothing is assumed of the
environment's other actions: activity, opening and releasing files, and an
outside unmount may or may not happen.

## 6. Not modelled

* The wording of `usage`, `FuseUsage` and the log lines, and the note on
  `cerr` for `-s` with `--idle` (lines 769-776), which changes nothing.
  `EncFS_Args::toString` is modelled by what it streams, not by its text.
* The engine's own reading of its arguments (`-f`, `-d`, `-s`, `-o`): it is
  code of libfuse. `EncfsArgs` says what the engine is given, `EncfsMount`
  what it may do in return.
* `init_encfs_pidinfo` and `unmountFS`, which are outside `main.cpp`: each is
  a choice between success and failure.
* What `std::terminate` does with the process after the uncaught exception of
  `PUSHARG`'s assertion; the model ends the process with the status `aborted`,
  so no property is about that status.
* An exception out of `initFS` (lines 752-754, before the `try`): `initFS` is
  outside `main.cpp` and reports failure by a root that is null, which
  `MainInitFS` models.
* `getopt_long`'s abbreviated long options (`--idl=5`) and `--opt=` with an
  empty argument: `Short` and `Long` words name an option in full, and an
  argument is a word of the command line.
* A join that hangs. `pthread_join` on a handle that was never written is
  undefined; with glibc it returns an error or faults on the garbage
  pointer, and those are the outcomes of `MainJoin`. It could block only if
  the garbage named a live thread.
* Which paths exist. `Usable` is the answer of `isDirectory` and of
  `userAllowMkdir` for a path; the empty path is taken never to be usable,
  because no directory has that name and none can be made.
* A command line with an unknown option or an option without its argument
  is not refused: `getopt_long`'s `'?'` is reported and the loop goes on.
  This is the behaviour asked of the option processor, and the model keeps
  it; what such a command line turns into is checked like any other
  (`AcceptedMountIsWellFormed`).
* Logging, localisation, `MemoryPool`, OpenSSL set-up and shutdown.
* The filesystem callbacks and `EncFS_Context` beyond the fields and the one
  method `main.cpp` uses.
* `#ifdef __CYGWIN__` and `__APPLE__` branches.
* `strtol`'s reading of digits beyond the `long` (it returns `LONG_MAX`, which
  is one of the values `IdleCycles` starts from).

## 7. Plan

Modules are built in the order of what can go wrong unnoticed.

1. `EncfsMount`: the concurrent part. Done.
2. `EncfsArgs`: the sequential part with the largest input space. Done.
3. `EncfsLifecycle`: the abstract promise of a mount and `EncfsMount` shown
   to implement it by `INSTANCE ... WITH`, checked in `mount_safety`. Done.
   The liveness half of the promise (a stopped mount is released) is not
   made part of the abstract specification: the program does not keep it
   where `main` joins a handle that was never written (`mount_join`), and
   where it does keep it, `ShutdownTerminates` says so.
4. `IdleCycles`: `timeoutCycles` with the 32-bit product and the narrowing of
   `strtol`'s `long`. Done.
5. `Encfs`: `main` from entry to exit, composing `EncfsArgs` and `EncfsMount`:
   pid info, `argc == 1`, usage on refusal, the unmount command, the exit
   status for each way through. Done.
6. Three-option command lines for `EncfsArgs` restricted to the options that
   interact. Done (`Interacting` in `MCEncfsArgsOptions`).
7. Liveness of the whole program: every command line leads to the end of the
   process or to a served mount, under the fairness of `FairSpec`. Done
   (`EveryRunServesOrEnds` in `entry_exit`).
8. The two decisions on the background, `isDaemon` and the engine's
   arguments. Done for the half that is `main.cpp`'s (`ForegroundIsPassedOn`
   in `args_accepts`); the other half needs the engine's option parser, which
   is not in this repository.
9. `encfs_init` statement by statement, so that the order of
   `ctx->running = true` and `pthread_create` is something a property can
   depend on. Done (`InitMonitor`, `StartMonitor`).

Every function of `main.cpp` is now the subject of a module. What is left
outside is listed in section 6: code of other files and of libraries, of
which the models keep only the outcomes `main.cpp` can observe.
