--------------------------- MODULE AgentUpdateProps ---------------------------
(* What the agent owes to its user while it replaces itself.                 *)
EXTENDS AgentUpdate

Contents == {"absent", "part", "whole"}
MainSteps == {"none", "new", "waiting", "refused", "init", "opening", "up", "closing"}
DaemonStates == {"none", "new", "watching", "delay", "starting", "stopping"}
UpdaterSteps == {"none", "wait", "backup", "delete", "move", "rollback", "start"}

\* The type invariant; boxes and posted messages belong to open windows, and
\* only one process of the program gets past its mutex.
AgentTypeOK ==
  /\ main \in [Mains -> MainSteps] /\ updater \in [Updaters -> UpdaterSteps]
  /\ asked \in [Mains -> Nat]
  /\ posted \in [Mains -> SUBSET {"exit", "close", "quit"}]
  /\ loading \in [Mains -> {"idle", "blind", "hashed", "verify"}]
  /\ daemon \in DaemonStates /\ exitSet \in BOOLEAN /\ enabled \in BOOLEAN
  /\ exe \in Contents /\ backup \in Contents /\ dest \in Contents
  /\ left \in [acts : Nat, faults : Nat]
  /\ noted \subseteq {"unverified", "doubled", "lost", "crashed"}
  /\ \A m \in Mains : main[m] # "up" => posted[m] = {} /\ asked[m] = 0
  /\ \A m, n \in Mains : main[m] \in Owning /\ main[n] \in Owning => m = n

\* At any moment the program or its backup is whole, whatever step of an update
\* fails or is cut short and whatever was downloaded, so that the old version
\* can be put back (updater.cpp) - unless two updaters work at once, on one
\* backup.
CanBeRestored == "doubled" \in noted \/ exe = "whole" \/ backup = "whole"

\* Something else than the program is installed only if no hash was known for
\* the download, or a process ended between the writing of a file and what
\* makes it good: the comparison of its hash, the end of a copy.
InstalledIsWhole == exe = "part" => noted \cap {"unverified", "crashed"} # {}

\* The watchdog does not start the program while an updater replaces it,
\* unless it was not told to exit or was told too late, or the program crashed.
UpdateIsLeftAlone ==
  (daemon = "starting" /\ \E u \in Updaters : updater[u] \notin {"none", "wait"}) =>
    noted \cap {"lost", "crashed"} # {}

\* A watchdog that nobody told to exit opens the program again when no process
\* of it is left, whatever fails on the way - but not while a process that found
\* another one running still says so: its box keeps the mutex, and the watchdog
\* takes it for the program.
WatchdogRestarts ==
  (daemon \in {"watching", "delay", "starting"} /\ ~ exitSet /\ enabled /\ ~ InUse) ~>
    \/ \E m \in Mains : main[m] \in {"up", "refused"}
    \/ exitSet \/ ~ enabled \/ exe # "whole"

=============================================================================
