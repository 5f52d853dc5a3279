-------------------------------- MODULE Encfs --------------------------------
(***************************************************************************)
(* One run of the program, from the entry of main() to the end of the      *)
(* process: the pid information, processArgs as EncfsArgs has it, the      *)
(* usage for what it refuses, the unmount command, and the mount as        *)
(* EncfsMount has it, run with the configuration processArgs has filled.   *)
(***************************************************************************)
EXTENDS Integers, Sequences

CONSTANTS
    CommandLines,   \* the argument vectors, argv[0] left out, a run starts with
    MaxOpenFiles    \* bound on the files the engine holds open at one time

VARIABLES
    entry,          \* where main() is: before, in or past processArgs
    status,         \* exit status of a process that ended without a mount
    unmountFS,      \* what unmountFS(unmountPoint) came to
    cmdline, euidRoot, argv, positional, out, opts, useDefaultFlags, pc, result,
    main, returnCode, root, engine, mounted, res, quick, running, wakeupMutex,
    monitor, unmountres, timeoutCycles, idleCycles, active, openFiles,
    oldStderr, dupFd, emitted

entryVars == <<entry, status, unmountFS>>
argsVars  == <<cmdline, euidRoot, argv, positional, out, opts, useDefaultFlags, pc, result>>
mountVars == <<main, returnCode, root, engine, mounted, res, quick, running, wakeupMutex,
               monitor, unmountres, timeoutCycles, idleCycles, active, openFiles,
               oldStderr, dupFd>>
vars == <<entryVars, argsVars, mountVars, emitted>>

Args == INSTANCE EncfsArgs

\* ctx->args and ctx->opts: what the mount reads of the configuration.
ctxArgs ==
    [isDaemon |-> out.isDaemon, idleTimeout |-> out.idleTimeout,
     annotate |-> opts.annotate, delayMount |-> opts.delayMount]

Mount == INSTANCE EncfsMount WITH args <- ctxArgs, IdleTimeouts <- Int

-----------------------------------------------------------------------------

\* The process ends here with status s.
Exit(s) == entry' = "done" /\ status' = s

\* The usage text on cerr.
usage == emitted' = emitted \cup {"usage"}

\* The short text of FuseUsage and the engine's own help.
FuseUsage == emitted' = emitted \cup {"fuse_usage"}

\* init_encfs_pidinfo, which is not of this file, succeeds or fails.
InitPidInfo ==
    /\ entry = "pidinfo"
    /\ \/ entry' = "processArgs" /\ UNCHANGED <<status, emitted>>
       \/ Exit("EXIT_FAILURE") /\ emitted' = emitted \cup {"pidinfo_failed"}
    /\ UNCHANGED <<unmountFS, argsVars, mountVars>>

\* One step of processArgs, which main() calls unless argc is 1.
ProcessArgs ==
    /\ entry = "processArgs"
    /\ cmdline # <<>>
    /\ pc # "done"
    /\ Args!Next
    /\ UNCHANGED <<entryVars, mountVars, emitted>>

\* exit() from the switch, or the assertion of PUSHARG, an exception nothing
\* in main() catches.
LeftInProcessArgs ==
    /\ entry = "processArgs"
    /\ \/ result = "version" /\ Exit("EXIT_SUCCESS") /\ UNCHANGED emitted
       \/ result = "fuse_usage" /\ Exit("EXIT_SUCCESS") /\ FuseUsage
       \/ result = "assert_failed" /\ Exit("aborted") /\ UNCHANGED emitted
    /\ UNCHANGED <<unmountFS, argsVars, mountVars>>

\* argc == 1 || !processArgs(...)
Refused ==
    /\ entry = "processArgs"
    /\ cmdline = <<>> \/ result \in Args!Refusals
    /\ usage
    /\ Exit("EXIT_FAILURE")
    /\ UNCHANGED <<unmountFS, argsVars, mountVars>>

\* "Let's unmount if requested": the line on cout, unmountFS, return 0.
UnmountCommand ==
    /\ entry = "processArgs"
    /\ result = "ok"
    /\ opts.unmount
    /\ emitted' = emitted \cup {"unmounting"}
    /\ unmountFS' \in {"unmounted", "failed"}
    /\ Exit("EXIT_SUCCESS")
    /\ UNCHANGED <<argsVars, mountVars>>

\* A step A of the mount, on the configuration as processArgs left it.  The
\* one field the mount writes, delayMount, is offered both ways and A takes
\* the one that is its own.
MountStep(A) ==
    /\ entry = "processArgs"
    /\ Args!Mounting
    /\ opts' \in {opts, [opts EXCEPT !.delayMount = FALSE]}
    /\ UNCHANGED <<cmdline, euidRoot, argv, positional, out, useDefaultFlags, pc, result>>
    /\ A
    /\ UNCHANGED entryVars

\* The rest of main(), the engine and the monitor: EncfsMount's steps.
MountNext == MountStep(Mount!Next)

\* The process has ended before any mount.
Ended ==
    /\ entry = "done"
    /\ UNCHANGED vars

Init ==
    /\ entry = "pidinfo"
    /\ status = "none"
    /\ unmountFS = "none"
    /\ cmdline \in CommandLines \cup {<<>>}
    /\ Args!Defaults
    /\ Mount!Init

Next ==
    \/ InitPidInfo
    \/ ProcessArgs
    \/ LeftInProcessArgs
    \/ Refused
    \/ UnmountCommand
    \/ MountNext
    \/ Ended

Spec == Init /\ [][Next]_vars

\* main() is sequential code and runs on, line after line; fuse_main, once
\* called, mounts or returns, calls encfs_init once it has mounted, and
\* returns once the filesystem is unmounted; the monitor's thread is
\* scheduled.  Nothing is assumed of the requests to the filesystem or of the
\* deadline of the monitor's timed wait.
Fairness ==
    /\ WF_vars(InitPidInfo \/ ProcessArgs \/ LeftInProcessArgs \/ Refused \/ UnmountCommand)
    /\ WF_vars(MountStep(Mount!MainNext))
    /\ WF_vars(MountStep(Mount!MonitorRun))
    /\ WF_vars(MountStep(Mount!EngineFailsToStart \/ Mount!EngineMounts))
    /\ WF_vars(MountStep(Mount!encfs_init))
    /\ WF_vars(MountStep(Mount!EngineReturns))

FairSpec == Spec /\ Fairness

-----------------------------------------------------------------------------
\* Properties

\* What the process returns, once it has.
ExitStatus ==
    CASE entry = "done" -> status
      [] main = "exit"  -> returnCode
      [] OTHER          -> "none"

\* "Exit codes: 0 success; non-zero on argument-validation failure,
\* engine-loop failure, or unexpected exception."  Whatever the command line
\* and however the mount went, the process returns EXIT_SUCCESS exactly for
\* --version and -H, for the unmount command, and for a mount whose serve
\* loop returned 0: a refusal, the assertion of PUSHARG, a failed initFS, a
\* failed or thrown-out-of fuse_main all end otherwise, the mount's through
\* returnCode's initial value.
ExitStatusTellsOutcome ==
    ExitStatus # "none" =>
        (ExitStatus = "EXIT_SUCCESS" <=>
            \/ result \in {"version", "fuse_usage"}
            \/ result = "ok" /\ opts.unmount
            \/ res = "ok")

\* The unmount command is to "request the OS unmount that path and report
\* success/failure", and exit code 0 is success: an unmount command that
\* returns 0 after unmountFS has unmounted the mount point.
UnmountStatusTellsOutcome ==
    (unmountFS # "none" /\ ExitStatus = "EXIT_SUCCESS") => unmountFS = "unmounted"

\* processArgs is to "produce either a valid Configuration or a failure with
\* a human-readable reason; never throws past this boundary: all failures
\* are reported and cause the caller to print usage and terminate with a
\* non-zero status."  A process that ended because processArgs would not
\* take the command line has written the usage text, the assertion of PUSHARG
\* being a failure like the others.
FailureOfProcessArgsShowsUsage ==
    (entry = "done" /\ result \in Args!Refusals \cup {"assert_failed"})
        => "usage" \in emitted

\* The filesystem is mounted and fuse_main is in its serve loop, or on its way
\* to it through encfs_init.
Mounted == engine \in Mount!EngineUp /\ mounted

\* The program never hangs short of its purpose: whatever the command line,
\* the loop over getopt_long, the checks, initFS, the start of the engine
\* and, after the serve loop, the stop of the monitor and the clean-up all
\* come to an end, so that a process that is not serving a mounted filesystem
\* gets to serve one or ends.
EveryRunServesOrEnds ==
    ~Mounted ~> (Mounted \/ entry = "done" \/ Mount!MainFinished)

=============================================================================
