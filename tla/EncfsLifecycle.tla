--------------------------- MODULE EncfsLifecycle ---------------------------
(***************************************************************************)
(* What one mount promises, whoever drives it: the root is acquired, the   *)
(* filesystem is served until it is unmounted, at most one supervisor is   *)
(* started and only while the engine serves, it ends only after the        *)
(* filesystem is unmounted or the serve loop has ended, and the root is    *)
(* released only when the loop has ended and no supervisor is alive.       *)
(***************************************************************************)

VARIABLES
    mount,        \* how far the mount has got
    supervisor    \* the idle supervisor of this mount

vars == <<mount, supervisor>>

MountPhases == {"none", "failed", "acquired", "serving", "unmounted",
                "stopped", "released"}

SupervisorPhases == {"absent", "active", "ended"}

Init ==
    /\ mount = "none"
    /\ supervisor = "absent"

\* The root node of the filesystem is obtained, or the mount fails here.
AcquireRoot ==
    /\ mount = "none"
    /\ mount' \in {"acquired", "failed"}
    /\ UNCHANGED supervisor

\* The engine has mounted the filesystem and serves it.
StartServing ==
    /\ mount = "acquired"
    /\ mount' = "serving"
    /\ UNCHANGED supervisor

\* The engine's one callback starts the supervisor.
StartSupervisor ==
    /\ mount \in {"serving", "unmounted"}
    /\ supervisor = "absent"
    /\ supervisor' = "active"
    /\ UNCHANGED mount

\* The supervisor, or anyone else, unmounts the filesystem.
Unmount ==
    /\ mount = "serving"
    /\ mount' = "unmounted"
    /\ UNCHANGED supervisor

\* The serve loop returns: it never started, the filesystem is unmounted, or
\* an exception left it.
LoopEnds ==
    /\ mount \in {"acquired", "serving", "unmounted"}
    /\ mount' = "stopped"
    /\ UNCHANGED supervisor

\* The supervisor leaves a filesystem that is no longer served.
SupervisorEnds ==
    /\ supervisor = "active"
    /\ mount \in {"unmounted", "stopped"}
    /\ supervisor' = "ended"
    /\ UNCHANGED mount

\* The root is given up once nobody can use it any more.
ReleaseRoot ==
    /\ mount = "stopped"
    /\ supervisor # "active"
    /\ mount' = "released"
    /\ UNCHANGED supervisor

Next ==
    \/ AcquireRoot
    \/ StartServing
    \/ StartSupervisor
    \/ Unmount
    \/ LoopEnds
    \/ SupervisorEnds
    \/ ReleaseRoot

Spec == Init /\ [][Next]_vars

=============================================================================
