----------------------------- MODULE Application ----------------------------
(***************************************************************************)
(* Launching the server: Application::init, run, main and run_fiber, the     *)
(* pidfile, and the daemon that restarts a crashed child (application.cc,    *)
(* daemon.cc, FSUtil::IsRunningPidfile of util.cc).                          *)
(*                                                                         *)
(* Several launches share the pidfile and the address to listen on.  A       *)
(* launch is a terminal process that serves itself, or a daemon whose parent *)
(* forks one child after the other.  Process ids are not used again.         *)
(***************************************************************************)
EXTENDS Integers, FiniteSets

CONSTANTS
    Launches,
    Daemons,       \* those started with -d
    MaxCrashes     \* bound on the crashes of one launch

ASSUME ApplicationAssumption == Daemons \subseteq Launches /\ MaxCrashes \in Nat

VARIABLES
    family,        \* of the address: "ip", or "unix", a file that outlives its server
    proc,          \* per launch: where its serving process is
    restart_count, \* per launch
    pidfile,       \* the process it names, or NoPid
    addressTaken,  \* bind() fails
    overlapped,    \* history: a launch passed the check while another was under way
    gaveUp         \* history: a fork or the pidfile failed

appVars == <<family, proc, restart_count, pidfile, addressTaken, overlapped, gaveUp>>

NoPid == <<>>

\* The process that serves for launch l: the child of this restart.
Pid(l) == <<l, restart_count[l]>>

\* proc[l]: "new", "checked" (init is through), "main" (in Application::main),
\* "starting" (the pidfile is written), "serving", "crashed" (the parent waits
\* and sleeps), "ended".
AppInit ==
    /\ family \in {"ip", "unix"}
    /\ proc = [l \in Launches |-> "new"] /\ restart_count = [l \in Launches |-> 0]
    /\ pidfile = NoPid /\ addressTaken = FALSE
    /\ overlapped = FALSE /\ gaveUp = FALSE

Goes(l, p) == proc' = [proc EXCEPT ![l] = p]

Under(l) == proc[l] \in {"checked", "main", "starting", "serving", "crashed"}

\* IsRunningPidfile: the process the file names exists.
IsRunning ==
    \E l \in Launches : pidfile = Pid(l) /\ proc[l] \in {"main", "starting", "serving"}

\* Application::init
init(l) ==
    /\ proc[l] = "new"
    /\ IF IsRunning
       THEN Goes(l, "ended") /\ UNCHANGED overlapped
       ELSE /\ Goes(l, "checked")
            /\ overlapped' = (overlapped \/ \E k \in Launches \ {l} : Under(k))
    /\ UNCHANGED <<family, restart_count, pidfile, addressTaken, gaveUp>>

\* start_daemon: the child, or the process itself, is in main.
Fork(l) ==
    /\ proc[l] = "checked"
    /\ Goes(l, "main")
    /\ UNCHANGED <<family, restart_count, pidfile, addressTaken, overlapped, gaveUp>>

\* fork() < 0 ends the daemon.
ForkFails(l) ==
    /\ proc[l] = "checked" /\ l \in Daemons
    /\ Goes(l, "ended") /\ gaveUp' = TRUE
    /\ UNCHANGED <<family, restart_count, pidfile, addressTaken, overlapped>>

\* Mutant: the file names the process that was launched, not its last child.
FirstPid(l) == <<l, 0>>

\* "ofs << getpid()" in the child
WrittenPid(l) == Pid(l)

\* Application::main up to the start of the IOManager.
WritePidfile(l) ==
    /\ proc[l] = "main"
    /\ pidfile' = WrittenPid(l)
    /\ Goes(l, "starting")
    /\ UNCHANGED <<family, restart_count, addressTaken, overlapped, gaveUp>>

\* "return false" is the exit status 0: the daemon takes it for the end.
PidfileFails(l) ==
    /\ proc[l] = "main"
    /\ Goes(l, "ended") /\ gaveUp' = TRUE
    /\ UNCHANGED <<family, restart_count, pidfile, addressTaken, overlapped>>

\* run_fiber: bind and start, or _exit(0).
run_fiber(l) ==
    /\ proc[l] = "starting"
    /\ Goes(l, IF addressTaken THEN "ended" ELSE "serving")
    /\ addressTaken' = TRUE
    /\ UNCHANGED <<family, restart_count, pidfile, overlapped, gaveUp>>

\* The serving process dies before its work is done.
Crash(l) ==
    /\ proc[l] \in {"main", "starting", "serving"} /\ restart_count[l] < MaxCrashes
    /\ Goes(l, IF l \in Daemons THEN "crashed" ELSE "ended")
    /\ addressTaken' = IF proc[l] = "serving" THEN family = "unix" ELSE addressTaken
    /\ UNCHANGED <<family, restart_count, pidfile, overlapped, gaveUp>>

\* Mutant: the loop of the daemon is left when the child is gone.
LoopLeft == "ended"

\* After waitpid and sleep the daemon goes around its loop.
LoopAgain == "checked"

Restart(l) ==
    /\ proc[l] = "crashed"
    /\ restart_count' = [restart_count EXCEPT ![l] = @ + 1]
    /\ Goes(l, LoopAgain)
    /\ UNCHANGED <<family, pidfile, addressTaken, overlapped, gaveUp>>

LaunchStep(l) == Fork(l) \/ WritePidfile(l) \/ run_fiber(l) \/ Restart(l)

AppNext ==
    \E l \in Launches : init(l) \/ LaunchStep(l) \/ ForkFails(l) \/ PidfileFails(l) \/ Crash(l)

-----------------------------------------------------------------------------
(* Properties                                                               *)

\* As long as no two launches were under way at once, the pidfile names the
\* process that serves, after any number of restarts: a further launch is
\* refused.
PidfileNamesServer ==
    ~overlapped => \A l \in Launches : proc[l] = "serving" => pidfile = Pid(l)

\* When the child of a daemon has crashed, somebody serves again, whatever other
\* launches do meanwhile, unless a fork or the pidfile failed or the address is
\* a file, which nobody removes.
ServedAgain ==
    \A l \in Launches :
        (proc[l] = "crashed") ~>
            (gaveUp \/ family = "unix" \/ \E k \in Launches : proc[k] = "serving")
=============================================================================
