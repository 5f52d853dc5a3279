------------------------------ MODULE EncfsArgs ------------------------------
(***************************************************************************)
(* processArgs: the command line turned into an EncFS_Args, or refused.    *)
(*                                                                         *)
(* An argument is a sequence of symbols.  "/", "-", "=" and the digits are *)
(* the characters the code looks at; a letter of a path is one symbol and  *)
(* so is the name of an option, so that --idle is <<"-", "-", "idle">> and *)
(* /a/b is <<"/", "a", "/", "b">>.  The arguments pushed to fuseArgv are   *)
(* words of the same kind.                                                 *)
(***************************************************************************)
EXTENDS Integers, Sequences, SequencesExt, TLC

CONSTANTS
    CommandLines    \* the argument vectors, argv[0] left out, the model starts from

\* main() does not call processArgs when argc = 1.
ASSUME <<>> \notin CommandLines

\* Capacity of fuseArgv.
MaxFuseArgs == 32

VARIABLES
    cmdline,          \* argv[1..] as given; never changes
    euidRoot,         \* geteuid() = 0
    argv,             \* the arguments getopt_long has not scanned yet
    positional,       \* the non-options getopt_long has moved behind the options
    out,              \* the EncFS_Args being filled, opts apart
    opts,             \* out->opts
    useDefaultFlags,  \* the local of that name
    pc,               \* where processArgs is
    result            \* how processArgs ended

vars == <<cmdline, euidRoot, argv, positional, out, opts, useDefaultFlags, pc, result>>

-----------------------------------------------------------------------------
\* Words

Word(s)  == <<s>>
Null     == Word("nullptr")
NoOptarg == Word("(unset)")
Program  == Word("encfs")

IsOption(w)     == Len(w) >= 2 /\ w[1] = "-"
IsLong(w)       == Len(w) >= 3 /\ w[1] = "-" /\ w[2] = "-"
IsTerminator(w) == w = <<"-", "-">>

\* FileUtils' test, as the message for its failure words it: "beginning with '/'".
isAbsolutePath(path) == path # <<>> /\ Head(path) = "/"

\* Faulty variant: the path is taken as given.
slashTerminate_AsGiven(src) == {src}

\* An empty src makes the code read result[-1]: either outcome of the test.
slashTerminate(src) ==
    IF src = <<>> THEN {<<>>, <<"/">>}
    ELSE {IF Last(src) = "/" THEN src ELSE Append(src, "/")}

\* string::substr(0, n)
substr(s, n) == SubSeq(s, 1, IF n < Len(s) THEN n ELSE Len(s))

DigitOf == [c \in {ToString(d) : d \in 0..9} |-> CHOOSE d \in 0..9 : ToString(d) = c]

RECURSIVE LeadingDigits(_, _)
LeadingDigits(w, acc) ==
    IF w = <<>> \/ Head(w) \notin DOMAIN DigitOf THEN acc
    ELSE LeadingDigits(Tail(w), 10 * acc + DigitOf[Head(w)])

\* strtol(optarg, NULL, 10): an optional sign and the digits that follow it,
\* 0 when there are none.
strtol(w) ==
    IF w # <<>> /\ Head(w) = "-" THEN 0 - LeadingDigits(Tail(w), 0)
    ELSE LeadingDigits(w, 0)

-----------------------------------------------------------------------------
\* getopt_long

Opt(arg, val) == [has_arg |-> arg, val |-> val]

\* "HsSfvdmEi:o:t:c:u"
optstring ==
    [c \in {"H", "s", "S", "f", "v", "d", "m", "E", "u"} |-> Opt(0, c)] @@
    [c \in {"i", "o", "t", "c"} |-> Opt(1, c)]

long_options ==
    "fuse-debug"       :> Opt(0, "d") @@
    "forcedecode"      :> Opt(0, "D") @@
    "fuse-help"        :> Opt(0, "H") @@
    "idle"             :> Opt(1, "i") @@
    "anykey"           :> Opt(0, "k") @@
    "no-default-flags" :> Opt(0, "N") @@
    "ondemand"         :> Opt(0, "m") @@
    "delaymount"       :> Opt(0, "M") @@
    "public"           :> Opt(0, "P") @@
    "extpass"          :> Opt(1, "p") @@
    "stdinpass"        :> Opt(0, "S") @@
    "syslogtag"        :> Opt(1, "t") @@
    "annotate"         :> Opt(0, "LONG_OPT_ANNOTATE") @@
    "nocache"          :> Opt(0, "LONG_OPT_NOCACHE") @@
    "nodatacache"      :> Opt(0, "LONG_OPT_NODATACACHE") @@
    "noattrcache"      :> Opt(0, "LONG_OPT_NOATTRCACHE") @@
    "verbose"          :> Opt(0, "v") @@
    "version"          :> Opt(0, "V") @@
    "reverse"          :> Opt(0, "r") @@
    "reversewrite"     :> Opt(0, "R") @@
    "standard"         :> Opt(0, "1") @@
    "paranoia"         :> Opt(0, "2") @@
    "require-macs"     :> Opt(0, "LONG_OPT_REQUIRE_MAC") @@
    "insecure"         :> Opt(0, "LONG_OPT_INSECURE") @@
    "config"           :> Opt(1, "c") @@
    "unmount"          :> Opt(1, "u")

Scanned(r, arg, rest) == [res |-> r, optarg |-> arg, rest |-> rest]

\* One call of getopt_long on av, whose head is an option: the option it
\* returns, its argument, and what is left to scan.  A short option carries
\* its argument in the same word or is followed there by more short options;
\* a long one carries it behind "=".  An argument that is due and not carried
\* is the next word, whatever that word looks like.
getopt_long(av) ==
    LET w       == Head(av)
        long    == IsLong(w)
        name    == IF long THEN w[3] ELSE w[2]
        table   == IF long THEN long_options ELSE optstring
        carries == IF long THEN Len(w) > 4 /\ w[4] = "=" ELSE Len(w) > 2
        carried == SubSeq(w, IF long THEN 5 ELSE 3, Len(w))
        known   == name \in DOMAIN table /\ (long => Len(w) = 3 \/ carries)
        wants   == known /\ table[name].has_arg = 1
        cluster == IF ~long /\ carries THEN <<<<"-">> \o carried>> ELSE <<>>
    IN  CASE ~known \/ (~wants /\ long /\ carries)
                 -> Scanned("?", NoOptarg, cluster \o Tail(av))
          [] known /\ ~wants /\ ~(long /\ carries)
                 -> Scanned(table[name].val, NoOptarg, cluster \o Tail(av))
          [] wants /\ carries
                 -> Scanned(table[name].val, carried, Tail(av))
          [] wants /\ ~carries /\ Tail(av) # <<>>
                 -> Scanned(table[name].val, av[2], Tail(Tail(av)))
          [] wants /\ ~carries /\ Tail(av) = <<>>
                 -> Scanned("?", NoOptarg, <<>>)

-----------------------------------------------------------------------------
\* The switch

Same == [f \in {} |-> TRUE]

\* Faulty variant: the fields of out->opts are set on out, and out's on it.
Case_SwappedTargets(o, a, push) == [opts |-> a, out |-> o, push |-> push]

\* One case of the switch: the fields of out->opts and of out it sets, and
\* the arguments it pushes.
Case(o, a, push) == [opts |-> o, out |-> a, push |-> push]

\* '?', ':' and the default: an option getopt_long does not know, or one
\* whose argument is missing, changes nothing and the loop goes on.
Ignored == Case(Same, Same, <<>>)

\* Faulty variant: the process stays in the foreground and the engine is not
\* told to.
Foreground_NotPassedOn == Case(Same, [isDaemon |-> FALSE], <<>>)

\* case 'f': "run in foreground (don't spawn daemon)", for main() and, by the
\* argument pushed, for the engine.
Foreground == Case(Same, [isDaemon |-> FALSE], <<Word("-f")>>)

\* What the switch does for each option getopt_long returns: the fields of
\* out->opts and of out it sets, and the arguments it pushes for the engine.
\* 'N' clears useDefaultFlags; 'V' and 'H' leave the program and are not here.
Switch(optarg, root) ==
    "1" :> Case([configMode |-> "Config_Standard"], Same, <<>>) @@
    "2" :> Case([configMode |-> "Config_Paranoia"], Same, <<>>) @@
    "s" :> Case(Same, [isThreaded |-> FALSE], <<>>) @@
    "S" :> Case([useStdin |-> TRUE], Same, <<>>) @@
    "E" :> Case([useEnv |-> TRUE], Same, <<>>) @@
    "t" :> Case(Same, [syslogTag |-> optarg], <<>>) @@
    "LONG_OPT_ANNOTATE"    :> Case([annotate |-> TRUE], Same, <<>>) @@
    "LONG_OPT_REQUIRE_MAC" :> Case([requireMac |-> TRUE], Same, <<>>) @@
    "LONG_OPT_INSECURE"    :> Case([insecure |-> TRUE], Same, <<>>) @@
    "c" :> Case([config |-> optarg], Same, <<>>) @@
    "u" :> Case([unmount |-> TRUE], [isDaemon |-> FALSE], <<>>) @@
    "f" :> Foreground @@
    "v" :> Case(Same, [isVerbose |-> TRUE], <<>>) @@
    "d" :> Case(Same, Same, <<Word("-d")>>) @@
    "i" :> Case([idleTracking |-> TRUE], [idleTimeout |-> strtol(optarg)], <<>>) @@
    "k" :> Case([checkKey |-> FALSE], Same, <<>>) @@
    "D" :> Case([forceDecode |-> TRUE], Same, <<>>) @@
    "r" :> Case([reverseEncryption |-> TRUE, readOnly |-> TRUE], Same, <<>>) @@
    "R" :> Case([reverseEncryption |-> TRUE, readOnly |-> FALSE], Same, <<>>) @@
    "LONG_OPT_NOCACHE" :>
        Case([noCache |-> TRUE], Same,
             <<Word("-oattr_timeout=0"), Word("-oentry_timeout=0")>>) @@
    "LONG_OPT_NODATACACHE" :> Case([noCache |-> TRUE], Same, <<>>) @@
    "LONG_OPT_NOATTRCACHE" :>
        Case(Same, Same, <<Word("-oattr_timeout=0"), Word("-oentry_timeout=0")>>) @@
    "m" :> Case([mountOnDemand |-> TRUE], Same, <<>>) @@
    "M" :> Case([delayMount |-> TRUE], Same, <<>>) @@
    "N" :> Case(Same, Same, <<>>) @@
    "o" :> Case(Same, Same, <<Word("-o"), optarg>>) @@
    "p" :> Case([passwordProgram |-> optarg], Same, <<>>) @@
    "P" :> (IF root THEN Case([ownerCreate |-> TRUE], Same,
                              <<Word("-o"), Word("allow_other")>>)
                    ELSE Case(Same, Same, <<>>)) @@
    "?" :> Ignored

-----------------------------------------------------------------------------
\* PUSHARG

\* Faulty variant: nothing checks fuseArgc before the store.
Fits_Unchecked(push) == TRUE

\* rAssert(out->fuseArgc < MaxFuseArgs) holds before each of push in turn.
Fits(push) == Len(out.fuseArgv) + Len(push) <= MaxFuseArgs

\* PUSHARG for each of push in turn: o with those that went in before the
\* assertion, if it does, ends processArgs.
PUSHARG(o, push) ==
    [o EXCEPT !.fuseArgv =
        @ \o (IF Fits(push) THEN push ELSE SubSeq(push, 1, MaxFuseArgs - Len(@)))]

Return(r) == pc' = "done" /\ result' = r

\* The action goes on at next if push went in and ends in the assertion if not.
PushedThen(push, next) ==
    IF Fits(push) THEN pc' = next /\ UNCHANGED result
    ELSE Return("assert_failed")

-----------------------------------------------------------------------------
\* The option loop

AtOption ==
    /\ pc = "getopt"
    /\ argv # <<>>
    /\ IsOption(Head(argv))
    /\ ~IsTerminator(Head(argv))

\* getopt_long returns an option and the switch acts on it.
SwitchOption ==
    /\ AtOption
    /\ LET g == getopt_long(argv)
       IN  /\ g.res \notin {"V", "H"}
           /\ LET c == Switch(g.optarg, euidRoot)[g.res]
              IN  /\ opts' = c.opts @@ opts
                  /\ out' = PUSHARG(c.out @@ out, c.push)
                  /\ PushedThen(c.push, "getopt")
           /\ useDefaultFlags' = (useDefaultFlags /\ g.res # "N")
           /\ argv' = g.rest
    /\ UNCHANGED <<cmdline, euidRoot, positional>>

\* --version and -H, --fuse-help: exit(EXIT_SUCCESS) from inside the loop,
\* after the version or FuseUsage.
ExitFromSwitch ==
    /\ AtOption
    /\ getopt_long(argv).res \in {"V", "H"}
    /\ argv' = getopt_long(argv).rest
    /\ Return(IF getopt_long(argv).res = "H" THEN "fuse_usage" ELSE "version")
    /\ UNCHANGED <<cmdline, euidRoot, positional, out, opts, useDefaultFlags>>

\* getopt_long steps over a non-option and keeps it for after the options.
SkipNonOption ==
    /\ pc = "getopt"
    /\ argv # <<>>
    /\ ~IsOption(Head(argv))
    /\ positional' = Append(positional, Head(argv))
    /\ argv' = Tail(argv)
    /\ UNCHANGED <<cmdline, euidRoot, out, opts, useDefaultFlags, pc, result>>

\* Faulty variant: the loop has lost its "if (res == -1) break".
EndOfOptions_NoBreak ==
    /\ pc = "getopt"
    /\ argv # <<>> => IsTerminator(Head(argv))
    /\ UNCHANGED vars

\* getopt_long returns -1: nothing is left, or "--" ends the options and
\* what follows it is positional.
EndOfOptions ==
    /\ pc = "getopt"
    /\ argv # <<>> => IsTerminator(Head(argv))
    /\ positional' = positional \o (IF argv = <<>> THEN <<>> ELSE Tail(argv))
    /\ argv' = <<>>
    /\ pc' = "positionals"
    /\ UNCHANGED <<cmdline, euidRoot, out, opts, useDefaultFlags, result>>

-----------------------------------------------------------------------------
\* After the loop

\* -s for the engine, then the mount point alone for an unmount, or rootDir,
\* mountPoint and what is left over for the engine.
Positionals ==
    /\ pc = "positionals"
    /\ LET single == IF out.isThreaded THEN <<>> ELSE <<Word("-s")>>
           over   == IF opts.unmount THEN <<>> ELSE SubSeq(positional, 3, Len(positional))
           enough == IF opts.unmount THEN Len(positional) = 1 ELSE Len(positional) >= 2
       IN  \/ /\ ~Fits(single)
              /\ Return("assert_failed")
              /\ UNCHANGED <<out, opts>>
           \/ /\ Fits(single) /\ ~enough
              /\ out' = PUSHARG(out, single)
              /\ Return(IF opts.unmount THEN "expecting_one_argument"
                                        ELSE "missing_arguments")
              /\ UNCHANGED opts
           \/ /\ Fits(single) /\ enough /\ opts.unmount
              /\ out' = PUSHARG(out, single)
              /\ opts' = [opts EXCEPT !.unmountPoint = positional[1]]
              /\ Return("ok")
           \/ /\ Fits(single) /\ enough /\ ~opts.unmount
              /\ \E rootDir \in slashTerminate(positional[1]),
                    mountPoint \in slashTerminate(positional[2]) :
                     opts' = [opts EXCEPT !.rootDir = rootDir,
                                          !.unmountPoint = positional[2],
                                          !.mountPoint = mountPoint]
              /\ out' = PUSHARG(out, single \o over)
              /\ PushedThen(single \o over, "defaults")
    /\ UNCHANGED <<cmdline, euidRoot, argv, positional, useDefaultFlags>>

DefaultFlags ==
    /\ pc = "defaults"
    /\ LET push == IF useDefaultFlags
                     THEN <<Word("-o"), Word("use_ino"),
                            Word("-o"), Word("default_permissions")>>
                     ELSE <<>>
       IN  /\ out' = PUSHARG(out, push)
           /\ PushedThen(push, "validate")
    /\ UNCHANGED <<cmdline, euidRoot, argv, positional, opts, useDefaultFlags>>

RelativePathAsDaemon ==
    out.isDaemon /\ ~(isAbsolutePath(opts.mountPoint) /\ isAbsolutePath(opts.rootDir))

RawDirUnderMountPoint ==
    opts.mountPoint = substr(opts.rootDir, Len(opts.mountPoint))

\* Faulty variant: the dependency is not checked.
DelayMountAlone_Unchecked == FALSE

DelayMountAlone == opts.delayMount /\ ~opts.mountOnDemand

OnDemandWithoutProgram == opts.mountOnDemand /\ opts.passwordProgram = <<>>

\* The directory is there or the user lets it be made; no directory has the
\* empty name.
Usable(dir, found) == found /\ dir # <<>>

\* The checks in the order the code makes them, the first that fails being
\* the reason processArgs gives; the mount point for the engine when none does.
Validate ==
    /\ pc = "validate"
    /\ \E rootFound, mountFound \in BOOLEAN :
         LET checks == <<
                 <<RelativePathAsDaemon,   "relative_path_as_daemon">>,
                 <<RawDirUnderMountPoint,  "raw_dir_under_mount_point">>,
                 <<DelayMountAlone,        "delaymount_without_ondemand">>,
                 <<OnDemandWithoutProgram, "ondemand_without_program">>,
                 <<~Usable(opts.rootDir, rootFound),     "no_root_directory">>,
                 <<~Usable(opts.mountPoint, mountFound), "no_mount_point">> >>
             failed == SelectSeq(checks, LAMBDA c : c[1])
         IN  IF failed = <<>>
               THEN out' = [out EXCEPT !.fuseArgv[2] = opts.mountPoint] /\ Return("ok")
               ELSE UNCHANGED out /\ Return(Head(failed)[2])
    /\ UNCHANGED <<cmdline, euidRoot, argv, positional, opts, useDefaultFlags>>

\* processArgs has returned, thrown or left the program.
Terminated ==
    /\ pc = "done"
    /\ UNCHANGED vars

-----------------------------------------------------------------------------
\* The specification

\* The fields processArgs sets first, and those the constructor of EncFS_Opts
\* has set before it.
Defaults ==
    /\ euidRoot \in BOOLEAN
    /\ argv = cmdline
    /\ positional = <<>>
    /\ out = [isDaemon |-> TRUE, isThreaded |-> TRUE, isVerbose |-> FALSE,
              idleTimeout |-> 0, fuseArgv |-> <<Program, Null>>,
              syslogTag |-> Word("encfs")]
    /\ opts = [idleTracking |-> FALSE, checkKey |-> TRUE, forceDecode |-> FALSE,
               ownerCreate |-> FALSE, useStdin |-> FALSE, useEnv |-> FALSE,
               annotate |-> FALSE, reverseEncryption |-> FALSE,
               requireMac |-> FALSE, insecure |-> FALSE, unmount |-> FALSE,
               readOnly |-> FALSE, noCache |-> FALSE, mountOnDemand |-> FALSE,
               delayMount |-> FALSE, configMode |-> "Config_Prompt",
               config |-> <<>>, passwordProgram |-> <<>>, rootDir |-> <<>>,
               mountPoint |-> <<>>, unmountPoint |-> <<>>]
    /\ useDefaultFlags = TRUE
    /\ pc = "getopt"
    /\ result = "none"

Init == cmdline \in CommandLines /\ Defaults

Next ==
    \/ SwitchOption
    \/ ExitFromSwitch
    \/ SkipNonOption
    \/ EndOfOptions
    \/ Positionals
    \/ DefaultFlags
    \/ Validate
    \/ Terminated

Spec == Init /\ [][Next]_vars

-----------------------------------------------------------------------------
\* EncFS_Args::toString, the log line main() writes of what it mounts with: a
\* mark for each field it shows, the idle time if there is one, and every
\* argument below fuseArgc.
toString ==
    [marks   |-> {IF out.isDaemon THEN "daemon" ELSE "fg",
                  IF out.isThreaded THEN "threaded" ELSE "UP"}
                     \cup {f \in {"checkKey", "forceDecode", "ownerCreate", "useStdin",
                                  "annotate", "reverseEncryption", "mountOnDemand",
                                  "delayMount"} : opts[f]},
     timeout |-> IF out.idleTimeout > 0 THEN <<out.idleTimeout>> ELSE <<>>,
     args    |-> out.fuseArgv]

-----------------------------------------------------------------------------
\* Properties

\* An argument: its characters, or the symbols that stand for several.
Words == Seq(STRING)

Refusals ==
    {"expecting_one_argument", "missing_arguments", "relative_path_as_daemon",
     "raw_dir_under_mount_point", "delaymount_without_ondemand",
     "ondemand_without_program", "no_root_directory", "no_mount_point"}

\* Every variable has a value of its type.
TypeOK ==
    /\ cmdline \in Seq(Words)
    /\ euidRoot \in BOOLEAN
    /\ argv \in Seq(Words)
    /\ positional \in Seq(Words)
    /\ out \in [isDaemon : BOOLEAN, isThreaded : BOOLEAN, isVerbose : BOOLEAN,
                idleTimeout : Int, fuseArgv : Seq(Words), syslogTag : Words]
    /\ opts \in [idleTracking : BOOLEAN, checkKey : BOOLEAN, forceDecode : BOOLEAN,
                 ownerCreate : BOOLEAN, useStdin : BOOLEAN, useEnv : BOOLEAN,
                 annotate : BOOLEAN, reverseEncryption : BOOLEAN,
                 requireMac : BOOLEAN, insecure : BOOLEAN, unmount : BOOLEAN,
                 readOnly : BOOLEAN, noCache : BOOLEAN, mountOnDemand : BOOLEAN,
                 delayMount : BOOLEAN,
                 configMode : {"Config_Prompt", "Config_Standard", "Config_Paranoia"},
                 config : Words, passwordProgram : Words, rootDir : Words,
                 mountPoint : Words, unmountPoint : Words]
    /\ useDefaultFlags \in BOOLEAN
    /\ pc \in {"getopt", "positionals", "defaults", "validate", "done"}
    /\ result \in {"none", "ok", "version", "fuse_usage", "assert_failed"} \cup Refusals

\* processArgs returned true for a mount.
Mounting == pc = "done" /\ result = "ok" /\ ~opts.unmount

\* fuseArgv never holds more than its MaxFuseArgs entries, however many
\* options and leftover arguments push to it: every store of PUSHARG and of
\* the loop over the leftover arguments is behind the assertion.
FuseArgvWithinCapacity ==
    Len(out.fuseArgv) <= MaxFuseArgs

\* What main() mounts with has passed every cross-field check, whatever the
\* order the options came in and whichever of them changed isDaemon on the
\* way: a daemon has absolute paths, delay-mount has mount-on-demand,
\* mount-on-demand has a password program, both directories end in "/" as
\* the rest of the code assumes, and the engine's arguments start with the
\* program and the mount point with no empty slot left, so that toString,
\* which streams each of them for the log line, meets no nullptr.
AcceptedMountIsWellFormed ==
    Mounting =>
        /\ out.isDaemon => isAbsolutePath(opts.rootDir) /\ isAbsolutePath(opts.mountPoint)
        /\ opts.delayMount => opts.mountOnDemand
        /\ opts.mountOnDemand => opts.passwordProgram # <<>>
        /\ opts.rootDir # <<>> /\ Last(opts.rootDir) = "/"
        /\ opts.mountPoint # <<>> /\ Last(opts.mountPoint) = "/"
        /\ out.fuseArgv[1] = Program
        /\ out.fuseArgv[2] = opts.mountPoint
        /\ ~Contains(toString.args, Null)

\* "-f  run in foreground (don't spawn daemon)": whether the process goes to
\* the background is decided twice, by main() from isDaemon and by the engine
\* from its arguments.  A mount main() takes to be in the foreground, its
\* messages on stderr, is one the engine has been told by -f not to detach,
\* whatever came before and after the option that cleared isDaemon.
ForegroundIsPassedOn ==
    (Mounting /\ ~out.isDaemon) => Contains(out.fuseArgv, Word("-f"))

\* The directories a path names on the way down, "/" apart.
RECURSIVE Components(_)
Components(path) ==
    IF path = <<>> THEN <<>>
    ELSE IF Head(path) = "/" THEN Components(Tail(path))
    ELSE LET n == CHOOSE k \in 1..Len(path) :
                      /\ \A i \in 1..k : path[i] # "/"
                      /\ k = Len(path) \/ path[k + 1] = "/"
         IN  <<SubSeq(path, 1, n)>> \o Components(SubSeq(path, n + 1, Len(path)))

\* The raw directory is the mount point or lies below it.
Under(rootDir, mountPoint) ==
    /\ isAbsolutePath(rootDir) = isAbsolutePath(mountPoint)
    /\ IsPrefix(Components(mountPoint), Components(rootDir))

\* An absolute path with no empty component.
Canonical(path) ==
    /\ isAbsolutePath(path)
    /\ \A i \in 1..(Len(path) - 1) : ~(path[i] = "/" /\ path[i + 1] = "/")

\* processArgs came to the comparison of the two directories: it scanned the
\* options, found its two arguments and, as a daemon, found them absolute.
Compared ==
    /\ pc = "done"
    /\ ~opts.unmount
    /\ result \in {"ok"} \cup (Refusals \ {"missing_arguments", "relative_path_as_daemon"})

\* For directories spelt canonically, the comparison of the two strings in
\* processArgs refuses exactly the raw directories at or below the mount
\* point: slashTerminate on both sides is what keeps /a/bc apart from /a/b.
PrefixCheckDecidesContainment ==
    (Compared /\ Canonical(positional[1]) /\ Canonical(positional[2])) =>
        (result = "raw_dir_under_mount_point" <=> Under(positional[1], positional[2]))

\* "libfuse expects null args": main() fills fuseArgv with nullptr before
\* processArgs so that the arguments fuse_main is given end in one, and the
\* assertion of PUSHARG is what has to leave that one in place.
FuseArgvEndsInNull ==
    Mounting => Len(out.fuseArgv) < MaxFuseArgs

\* "The raw directory may not be a subdirectory of the mount point."
RawDirNeverUnderMountPoint ==
    Mounting => ~Under(opts.rootDir, opts.mountPoint)

\* "-u, --unmount   unmounts specified mountPoint": the option and the mount
\* point are a complete command line.
UnmountTakesItsMountPoint ==
    (/\ pc = "done"
     /\ Len(cmdline) = 2
     /\ cmdline[1] \in {<<"-", "u">>, <<"-", "-", "unmount">>}
     /\ ~IsOption(cmdline[2]))
        => (result = "ok" /\ opts.unmount /\ opts.unmountPoint = cmdline[2])

=============================================================================
