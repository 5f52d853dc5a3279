----------------------------- MODULE EncfsMount -----------------------------
(***************************************************************************)
(* The life of one mount, from the point where main() has a validated      *)
(* EncFS_Args to its return: main() itself, the engine's blocking serve    *)
(* loop it sits in (fuse_main), the encfs_init callback the engine makes   *)
(* once, and the idleMonitor thread that callback starts.                  *)
(*                                                                         *)
(* Two threads of this program exist, main and the idle monitor.  They     *)
(* share ctx->running (written without the mutex), wakeupMutex and         *)
(* wakeupCond.  The engine and whoever unmounts the filesystem from        *)
(* outside are the environment.                                            *)
(***************************************************************************)
EXTENDS Integers

CONSTANTS
    IdleTimeouts,   \* the values of args->idleTimeout (minutes) a mount runs with
    MaxOpenFiles    \* bound on the files the engine holds open at one time

ASSUME /\ IdleTimeouts \subseteq Int
       /\ IdleTimeouts # {}
       /\ MaxOpenFiles \in Nat

\* Seconds between two polls of the idle monitor.
ActivityCheckInterval == 10

VARIABLES
    args,           \* the parts of EncFS_Args the mount reads
    main,           \* where the main thread is
    returnCode,     \* main()'s exit status
    root,           \* the root node handle of ctx
    engine,         \* where fuse_main is
    mounted,        \* the kernel still has the filesystem mounted
    res,            \* how fuse_main ended
    quick,          \* endTime - startTime <= 1
    running,        \* ctx->running
    wakeupMutex,    \* owner of ctx->wakeupMutex
    monitor,        \* where the idle monitor thread is
    unmountres,     \* idleMonitor's local of that name
    timeoutCycles,  \* idleMonitor's local of that name
    idleCycles,     \* polls in a row the context found the mount idle
    active,         \* a filesystem operation ran since the last poll
    openFiles,      \* number of files open through the mount
    oldStderr,      \* the global of that name
    dupFd,          \* state of the descriptor dup(STDERR_FILENO) returned
    emitted         \* status and diagnostic lines written so far

mainVars   == <<main, returnCode, root>>
engineVars == <<engine, mounted, res, quick>>
syncVars   == <<running, wakeupMutex>>
monVars    == <<monitor, unmountres, timeoutCycles>>
usageVars  == <<idleCycles, active, openFiles>>
ioVars     == <<oldStderr, dupFd, emitted>>
vars == <<args, mainVars, engineVars, syncVars, monVars, usageVars, ioVars>>

-----------------------------------------------------------------------------
\* Types

Free == "free"

MainPcs    == {"initFS", "mount", "fuse_main", "stop", "lock", "signal",
               "unlock", "join", "cleanup", "exit", "crashed"}
MonitorPcs == {"none", "start", "lock", "check", "usage", "timedwait",
               "wait", "woken", "unlock", "done"}
EnginePcs  == {"idle", "called", "mounted", "init", "close", "serving", "returned"}
Results    == {"none", "ok", "error", "exception"}
Lines      == {"fuse_main_start", "fuse_main_end", "fuse_failed"}

EncFS_Args == [isDaemon : BOOLEAN, idleTimeout : IdleTimeouts, annotate : BOOLEAN,
               delayMount : BOOLEAN]

\* fuse_main has mounted and not returned: it is about to call encfs_init, in
\* it, or in its serve loop.
EngineUp == {"mounted", "init", "close", "serving"}

\* The monitor thread exists and has not returned.
MonitorAlive == monitor \notin {"none", "done"}

\* main() has returned, or the process died in it.
MainFinished == main \in {"exit", "crashed"}

MaxCycles ==
    LET longest == CHOOSE m \in IdleTimeouts : \A n \in IdleTimeouts : n <= m
    IN  IF longest > 0 THEN (60 * longest) \div ActivityCheckInterval ELSE 0

-----------------------------------------------------------------------------
\* The main thread

MainStep(from, to) == main = from /\ main' = to

\* The entries of fuse_operations main() binds after zeroing the table; every
\* other entry stays zero and the engine serves it by default.
encfs_oper ==
    {"getattr", "readlink", "readdir", "mknod", "mkdir", "unlink", "rmdir",
     "symlink", "rename", "link", "chmod", "chown", "truncate", "utime",
     "open", "read", "write", "statfs", "flush", "release", "fsync", "init",
     "create", "ftruncate", "fgetattr", "utimens"}

\* The operation table, the context and the root node.  initFS is the
\* engine's: it hands back a root or nothing.  With a root, delayMount is
\* turned off in the options the context shares with the engine.
MainInitFS ==
    /\ main = "initFS"
    /\ returnCode' = "EXIT_FAILURE"
    /\ \/ root' = "held" /\ main' = "mount" /\ args' = [args EXCEPT !.delayMount = FALSE]
       \/ root' = "none" /\ main' = "cleanup" /\ UNCHANGED args
    /\ UNCHANGED <<engineVars, syncVars, monVars, usageVars, ioVars>>

\* Up to the call of fuse_main.  dup may fail, which leaves -1 in oldStderr.
MainCallEngine ==
    /\ MainStep("mount", "fuse_main")
    /\ IF args.isDaemon
         THEN \/ oldStderr' = "DUP" /\ dupFd' = "open"
              \/ oldStderr' = "NONE" /\ UNCHANGED dupFd
         ELSE UNCHANGED <<oldStderr, dupFd>>
    /\ emitted' = emitted \cup {l \in {"fuse_main_start"} : args.annotate}
    /\ engine' = "called"
    /\ UNCHANGED <<args, returnCode, root, mounted, res, quick, syncVars, monVars, usageVars>>

\* Faulty variant: the monitor is left alone when the loop has ended.
AfterLoop_NoStop == "cleanup"

\* The monitor is stopped if the mount was given an idle time.
AfterLoop == IF args.idleTimeout > 0 THEN "stop" ELSE "cleanup"

\* Faulty variant: the result of fuse_main is not looked at.
ReturnCodeFor_Any(r) == "EXIT_SUCCESS"

\* if (res == 0) returnCode = EXIT_SUCCESS
ReturnCodeFor(r) == IF r = "ok" THEN "EXIT_SUCCESS" ELSE returnCode

\* fuse_main is back: the status line, the exit status and the report to
\* the saved stderr, or the catch clauses.
MainLoopReturned ==
    /\ main = "fuse_main"
    /\ engine = "returned"
    /\ LET caught == res = "exception"
           report == res = "error" /\ args.isDaemon /\ oldStderr # "NONE" /\ quick
       IN  /\ returnCode' = ReturnCodeFor(res)
           /\ emitted' = emitted \cup {l \in {"fuse_main_end"} : args.annotate /\ ~caught}
                                 \cup {l \in {"fuse_failed"} : report}
           /\ dupFd' = IF report THEN "closed" ELSE dupFd
    /\ main' = AfterLoop
    /\ UNCHANGED <<args, root, engineVars, syncVars, monVars, usageVars, oldStderr>>

\* Faulty variant: the flag is left as it is.
MainStopMonitor_FlagKept ==
    /\ MainStep("stop", "lock")
    /\ UNCHANGED <<args, returnCode, root, engineVars, syncVars, monVars, usageVars, ioVars>>

\* ctx->running = false, outside the mutex.
MainStopMonitor ==
    /\ MainStep("stop", "lock")
    /\ running' = FALSE
    /\ UNCHANGED <<args, returnCode, root, engineVars, wakeupMutex, monVars, usageVars, ioVars>>

\* Faulty variant: the signal is sent without taking wakeupMutex.
MainLock_NotTaken ==
    /\ MainStep("lock", "signal")
    /\ UNCHANGED <<args, returnCode, root, engineVars, syncVars, monVars, usageVars, ioVars>>

MainLock ==
    /\ MainStep("lock", "signal")
    /\ wakeupMutex = Free
    /\ wakeupMutex' = "main"
    /\ UNCHANGED <<args, returnCode, root, engineVars, running, monVars, usageVars, ioVars>>

\* Faulty variant: the signal is forgotten.
Signalled_NoWake == monitor

\* pthread_cond_signal wakes the monitor if it is in its timed wait and does
\* nothing otherwise.
Signalled == IF monitor = "wait" THEN "woken" ELSE monitor

MainSignal ==
    /\ MainStep("signal", "unlock")
    /\ monitor' = Signalled
    /\ UNCHANGED <<args, returnCode, root, engineVars, syncVars, unmountres, timeoutCycles,
                   usageVars, ioVars>>

MainUnlock ==
    /\ MainStep("unlock", "join")
    /\ wakeupMutex' = Free
    /\ UNCHANGED <<args, returnCode, root, engineVars, running, monVars, usageVars, ioVars>>

\* Faulty variant: main() does not wait for the monitor thread.
ThreadEnded_NoWait == monitor # "none"

\* pthread_join returns once the thread has.
ThreadEnded == monitor = "done"

\* pthread_join(ctx->monitorThread).  When no thread was created the handle
\* was never written: the call returns an error at once or the process dies.
MainJoin ==
    /\ main = "join"
    /\ \/ ThreadEnded /\ main' = "cleanup"
       \/ monitor = "none" /\ main' \in {"cleanup", "crashed"}
    /\ UNCHANGED <<args, returnCode, root, engineVars, syncVars, monVars, usageVars, ioVars>>

\* rootInfo.reset(), ctx->setRoot(null), the pools, return.
MainCleanup ==
    /\ MainStep("cleanup", "exit")
    /\ root' = IF root = "held" THEN "released" ELSE root
    /\ UNCHANGED <<args, returnCode, engineVars, syncVars, monVars, usageVars, ioVars>>

MainNext ==
    \/ MainInitFS
    \/ MainCallEngine
    \/ MainLoopReturned
    \/ MainStopMonitor
    \/ MainLock
    \/ MainSignal
    \/ MainUnlock
    \/ MainJoin
    \/ MainCleanup

-----------------------------------------------------------------------------
\* The engine's one callback into this file

\* Faulty variant: the thread is created first and the flag set behind it.
StartMonitor_CreateFirst == <<"create", "running">>

\* The two statements of the idle branch in their order: ctx->running = true,
\* then pthread_create.
StartMonitor == <<"running", "create">>

\* One of the two.  A pthread_create that fails is only logged.
Statement(s) ==
    \/ s = "running" /\ running' = TRUE /\ UNCHANGED monitor
    \/ s = "create" /\ monitor' \in {"start", monitor} /\ UNCHANGED running

\* Faulty variant: oldStderr is closed and its number kept.
CloseOldStderr_NumberKept ==
    dupFd' = (IF oldStderr = "DUP" THEN "closed" ELSE dupFd) /\ UNCHANGED oldStderr

\* close(oldStderr); oldStderr = -1.
CloseOldStderr ==
    dupFd' = (IF oldStderr = "DUP" THEN "closed" ELSE dupFd) /\ oldStderr' = "NONE"

\* if (ctx->args->idleTimeout > 0): its two statements, one at a time, since
\* the new thread runs from the moment it is created.
InitMonitor ==
    /\ args.idleTimeout > 0
    /\ \E i \in 1..2 :
         /\ engine = <<"mounted", "init">>[i]
         /\ engine' = <<"init", "close">>[i]
         /\ Statement(StartMonitor[i])
    /\ UNCHANGED <<args, mainVars, mounted, res, quick, wakeupMutex, unmountres,
                   timeoutCycles, usageVars, ioVars>>

\* if (ctx->args->isDaemon && oldStderr >= 0), and the return to the engine.
InitClose ==
    /\ engine = "close" \/ (engine = "mounted" /\ args.idleTimeout <= 0)
    /\ engine' = "serving"
    /\ IF args.isDaemon /\ oldStderr # "NONE" THEN CloseOldStderr
                                              ELSE UNCHANGED <<oldStderr, dupFd>>
    /\ UNCHANGED <<args, mainVars, mounted, res, quick, syncVars, monVars, usageVars,
                   emitted>>

encfs_init ==
    /\ "init" \in encfs_oper
    /\ InitMonitor \/ InitClose

-----------------------------------------------------------------------------
\* The idle monitor thread

MonitorStep(from, to) == monitor = from /\ monitor' = to

\* Faulty variant: minutes turned into seconds, not into polls.
Cycles_NoDivision(minutes) == 60 * minutes

\* 60 * arg->idleTimeout / ActivityCheckInterval
Cycles(minutes) == (60 * minutes) \div ActivityCheckInterval

MonitorStart ==
    /\ MonitorStep("start", "lock")
    /\ timeoutCycles' = Cycles(args.idleTimeout)
    /\ unmountres' = FALSE
    /\ UNCHANGED <<args, mainVars, engineVars, syncVars, usageVars, ioVars>>

MonitorLock ==
    /\ MonitorStep("lock", "check")
    /\ wakeupMutex = Free
    /\ wakeupMutex' = "monitor"
    /\ UNCHANGED <<args, mainVars, engineVars, running, unmountres, timeoutCycles, usageVars, ioVars>>

\* while (ctx->running)
MonitorCheck ==
    /\ monitor = "check"
    /\ monitor' = IF running THEN "usage" ELSE "unlock"
    /\ UNCHANGED <<args, mainVars, engineVars, syncVars, unmountres, timeoutCycles, usageVars, ioVars>>

\* One poll of the context: a poll with no operation since the last one and
\* no file open is an idle cycle; after timeoutCycles of them in a row the
\* context unmounts the filesystem and answers true.
usageAndUnmount(cycles) ==
    LET idle  == IF ~active /\ openFiles = 0 THEN idleCycles + 1 ELSE 0
        unmnt == idle >= cycles
    IN  /\ active' = FALSE
        /\ idleCycles' = IF unmnt THEN 0 ELSE idle
        /\ mounted' = IF unmnt THEN FALSE ELSE mounted
        /\ unmountres' = unmnt

MonitorUsage ==
    /\ monitor = "usage"
    /\ usageAndUnmount(timeoutCycles)
    /\ monitor' = IF unmountres' THEN "unlock" ELSE "timedwait"
    /\ UNCHANGED <<args, mainVars, engine, res, quick, syncVars, timeoutCycles, openFiles, ioVars>>

\* Entering pthread_cond_timedwait gives up the mutex.
MonitorTimedWait ==
    /\ MonitorStep("timedwait", "wait")
    /\ wakeupMutex' = Free
    /\ UNCHANGED <<args, mainVars, engineVars, running, unmountres, timeoutCycles, usageVars, ioVars>>

\* The deadline of the timed wait passes.
MonitorTimeout ==
    /\ MonitorStep("wait", "woken")
    /\ UNCHANGED <<args, mainVars, engineVars, syncVars, unmountres, timeoutCycles, usageVars, ioVars>>

\* Faulty variant: an if where the while is; the thread ends after one wait.
AfterWait_NoLoop == "unlock"

\* The end of the loop body leads back to the test of ctx->running.
AfterWait == "check"

\* pthread_cond_timedwait returns with the mutex held again.
MonitorReacquire ==
    /\ MonitorStep("woken", AfterWait)
    /\ wakeupMutex = Free
    /\ wakeupMutex' = "monitor"
    /\ UNCHANGED <<args, mainVars, engineVars, running, unmountres, timeoutCycles, usageVars, ioVars>>

MonitorUnlock ==
    /\ MonitorStep("unlock", "done")
    /\ wakeupMutex' = Free
    /\ UNCHANGED <<args, mainVars, engineVars, running, unmountres, timeoutCycles, usageVars, ioVars>>

\* The steps of idleMonitor the scheduler owes the thread.
MonitorRun ==
    \/ MonitorStart
    \/ MonitorLock
    \/ MonitorCheck
    \/ MonitorUsage
    \/ MonitorTimedWait
    \/ MonitorReacquire
    \/ MonitorUnlock

idleMonitor == MonitorRun \/ MonitorTimeout

-----------------------------------------------------------------------------
\* The environment: the engine's serve loop and the world around the mount

\* fuse_main gives up before it mounts anything.
EngineFailsToStart ==
    /\ engine = "called"
    /\ engine' = "returned"
    /\ res' = "error"
    /\ quick' \in BOOLEAN
    /\ UNCHANGED <<args, mainVars, mounted, syncVars, monVars, usageVars, ioVars>>

EngineMounts ==
    /\ engine = "called"
    /\ engine' = "mounted"
    /\ mounted' = TRUE
    /\ UNCHANGED <<args, mainVars, res, quick, syncVars, monVars, usageVars, ioVars>>

Serving == engine = "serving" /\ mounted

FsActivity ==
    /\ Serving
    /\ active' = TRUE
    /\ UNCHANGED <<args, mainVars, engineVars, syncVars, monVars, idleCycles, openFiles, ioVars>>

FileOpen ==
    /\ Serving
    /\ {"open", "create"} \cap encfs_oper # {}
    /\ openFiles < MaxOpenFiles
    /\ openFiles' = openFiles + 1
    /\ active' = TRUE
    /\ UNCHANGED <<args, mainVars, engineVars, syncVars, monVars, idleCycles, ioVars>>

FileRelease ==
    /\ Serving
    /\ "release" \in encfs_oper
    /\ openFiles > 0
    /\ openFiles' = openFiles - 1
    /\ active' = TRUE
    /\ UNCHANGED <<args, mainVars, engineVars, syncVars, monVars, idleCycles, ioVars>>

\* Another process unmounts the mount point, or a signal ends the loop.
ExternalUnmount ==
    /\ engine \in EngineUp
    /\ mounted
    /\ mounted' = FALSE
    /\ UNCHANGED <<args, mainVars, engine, res, quick, syncVars, monVars, usageVars, ioVars>>

\* The serve loop ends once the filesystem is unmounted.
EngineReturns ==
    /\ engine \in {"mounted", "serving"}
    /\ ~mounted
    /\ engine' = "returned"
    /\ res' \in {"ok", "error"}
    /\ quick' \in BOOLEAN
    /\ UNCHANGED <<args, mainVars, mounted, syncVars, monVars, usageVars, ioVars>>

\* An exception leaves fuse_main.
EngineThrows ==
    /\ engine \in {"called", "mounted", "serving"}
    /\ engine' = "returned"
    /\ res' = "exception"
    /\ UNCHANGED <<args, mainVars, mounted, quick, syncVars, monVars, usageVars, ioVars>>

EngineNext ==
    \/ EngineFailsToStart
    \/ EngineMounts
    \/ encfs_init
    \/ FsActivity
    \/ FileOpen
    \/ FileRelease
    \/ EngineReturns
    \/ EngineThrows

\* The process is gone: nothing of it moves any more.
Terminated ==
    /\ MainFinished
    /\ UNCHANGED vars

-----------------------------------------------------------------------------
\* The specification

Init ==
    /\ args \in EncFS_Args
    /\ main = "initFS"
    /\ returnCode = "EXIT_FAILURE"
    /\ root = "none"
    /\ engine = "idle"
    /\ mounted = FALSE
    /\ res = "none"
    /\ quick = FALSE
    /\ running \in BOOLEAN
    /\ wakeupMutex = Free
    /\ monitor = "none"
    /\ unmountres = FALSE
    /\ timeoutCycles = 0
    /\ idleCycles = 0
    /\ active = FALSE
    /\ openFiles = 0
    /\ oldStderr = "STDERR_FILENO"
    /\ dupFd = "none"
    /\ emitted = {}

Next ==
    \/ MainNext
    \/ idleMonitor
    \/ EngineNext
    \/ ExternalUnmount
    \/ Terminated

Spec == Init /\ [][Next]_vars

\* Runnable threads run: the scheduler owes main and the monitor their next
\* step and the engine's thread the rest of encfs_init, and fuse_main comes
\* back once the filesystem is unmounted.  Nothing is assumed of the timer.
Fairness ==
    /\ WF_vars(MainNext)
    /\ WF_vars(MonitorRun)
    /\ WF_vars(encfs_init)
    /\ WF_vars(EngineReturns)

FairSpec == Spec /\ Fairness

-----------------------------------------------------------------------------
\* The mount as EncfsLifecycle sees it

mountPhase ==
    CASE root = "released"                     -> "released"
      [] root = "none" /\ main = "initFS"      -> "none"
      [] root = "none" /\ main # "initFS"      -> "failed"
      [] root = "held" /\ engine = "returned"  -> "stopped"
      [] root = "held" /\ engine \in {"idle", "called"} -> "acquired"
      [] root = "held" /\ engine \in EngineUp ->
             IF mounted THEN "serving" ELSE "unmounted"

supervisorPhase ==
    CASE monitor = "none" -> "absent"
      [] monitor = "done" -> "ended"
      [] OTHER            -> "active"

Lifecycle == INSTANCE EncfsLifecycle
                 WITH mount <- mountPhase, supervisor <- supervisorPhase

-----------------------------------------------------------------------------
\* Properties

\* Every variable has a value of its type.
TypeOK ==
    /\ args \in EncFS_Args
    /\ main \in MainPcs
    /\ returnCode \in {"EXIT_FAILURE", "EXIT_SUCCESS"}
    /\ root \in {"none", "held", "released"}
    /\ engine \in EnginePcs
    /\ mounted \in BOOLEAN
    /\ res \in Results
    /\ quick \in BOOLEAN
    /\ running \in BOOLEAN
    /\ wakeupMutex \in {Free, "main", "monitor"}
    /\ monitor \in MonitorPcs
    /\ unmountres \in BOOLEAN
    /\ timeoutCycles \in 0..MaxCycles
    /\ idleCycles \in 0..MaxCycles
    /\ active \in BOOLEAN
    /\ openFiles \in 0..MaxOpenFiles
    /\ oldStderr \in {"STDERR_FILENO", "DUP", "NONE"}
    /\ dupFd \in {"none", "open", "closed"}
    /\ emitted \subseteq Lines

\* main() releases the root node only when the idle monitor, which polls the
\* context that owns it, no longer runs: the join in main() comes before
\* rootInfo.reset() and ctx->setRoot(null).
RootOutlivesMonitor ==
    MonitorAlive => root = "held"

\* Once main() has signalled wakeupCond, the monitor is not left sleeping in
\* pthread_cond_timedwait: it either was woken by the signal or had not
\* entered the wait and will see running = false.  This is why main() takes
\* wakeupMutex around the signal although it writes running outside it.
NoLostWakeup ==
    main \in {"unlock", "join"} => monitor # "wait"

\* Once main() holds wakeupMutex for the signal, the monitor makes no further
\* poll of the context: it is outside the part of its loop the mutex covers,
\* and when it comes back in it finds ctx->running false.  So a poll of a
\* filesystem that was unmounted from outside, which may unmount again what
\* is no longer this mount, is confined to the time before the signal.
NoPollOnceSignalled ==
    main \in {"signal", "unlock", "join", "cleanup", "exit", "crashed"} =>
        monitor \notin {"usage", "timedwait"}

\* The idle monitor ends for one of two reasons only: its own poll unmounted
\* the filesystem, or main() has begun the shutdown.  The new thread may
\* reach its test of ctx->running before encfs_init has made another step,
\* so encfs_init has to set the flag before it creates the thread for the
\* loop not to fall through.
MonitorExitsOnlyWhenStopped ==
    monitor \in {"unlock", "done"} =>
        unmountres \/ main \notin {"initFS", "mount", "fuse_main", "stop"}

\* The "fuse failed" report is written through oldStderr only while that
\* descriptor is open: encfs_init closes it and main() must not use it after.
FailureReportReachesOpenStderr ==
    [][("fuse_failed" \in emitted' /\ "fuse_failed" \notin emitted)
           => (oldStderr = "DUP" /\ dupFd = "open")]_vars

\* After fuse_main has returned main() finishes, whatever the monitor was
\* doing, and without waiting for the poll interval to pass: the signal under
\* the mutex is enough to end the monitor and let the join return.
ShutdownTerminates ==
    engine = "returned" ~> MainFinished

\* A mount served with an idle monitor does not stay mounted and unused for
\* ever: where the deadline of the timed wait does pass, the monitor's polls
\* go on until usageAndUnmount unmounts it, unless the filesystem is used
\* again or the serve loop ends for another reason.
IdleEventuallyUnmounts ==
    WF_vars(MonitorTimeout) =>
        ((MonitorAlive /\ Serving) ~>
            (~mounted \/ active \/ openFiles > 0 \/ engine = "returned"))

\* pthread_join is called on a thread that was created.
JoinOnlyCreatedThread ==
    main = "join" => monitor # "none"

\* main(), encfs_init, idleMonitor and the engine together are a mount as
\* EncfsLifecycle has it: every step of theirs is a step of that lifecycle
\* or leaves it where it is.  The supervisor is started once, by the
\* callback and while the engine serves; it ends only after an unmount or
\* the end of the loop; the root is released after the loop has ended and
\* the supervisor, if there was one, has.
ImplementsLifecycle == Lifecycle!Spec

=============================================================================
