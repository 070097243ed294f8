----------------------------- MODULE AgentUpdate -----------------------------
(* The Windows agent keeps itself running and replaces itself: the processes *)
(* of the main program (main.cpp, tray_app.cpp), its watchdog                *)
(* (daemon_main.cpp) and the updaters it starts (updater.cpp).  They share   *)
(* two mutexes, an event, the configuration and three files.                 *)
EXTENDS Integers, FiniteSets

CONSTANTS
  Mains,     \* bound: processes of the main program at one time
  Updaters,  \* bound: updaters at one time
  Limits     \* bounds a behaviour may have: what people do (acts) and what
             \* goes wrong (faults)

ASSUME AgentAssumption == IsFiniteSet(Updaters) /\ Limits \subseteq [acts : Nat, faults : Nat]

VARIABLES
  main,     \* where the processes of the program are
  posted,   \* to their windows: "exit" (WM_EXIT_COMMAND), "close" (WM_CLOSE),
            \* "quit" (g_running is false)
  asked,    \* how many "Install now?" boxes they show
  loading,  \* their downloads: "idle", "blind" (no hash is known), "hashed",
            \* "verify" (renamed, its hash is not compared yet)
  daemon,   \* the watchdog: between its two waits ("watching", "delay"), about
            \* to start the program, about to close its mutex
  exitSet,  \* its exit event
  enabled,  \* daemon_enabled in the configuration
  exe, backup, dest, \* the program, its copy, the download: "absent", "part", "whole"
  updater,  \* the step each updater is at
  left,     \* what is left of the bounds
  noted     \* not in the code: what happened so far

windowVars == <<main, posted, asked, loading>>
watchVars == <<daemon, exitSet, enabled>>
files == <<exe, backup, dest>>
agentVars == <<windowVars, watchVars, files, updater, left, noted>>

\* Who holds the mutex of the program, and whether it exists at all: a process
\* that waits for it or shows that it could not get it has a handle.
Owning == {"init", "opening", "up", "closing"}
Owned == \E m \in Mains : main[m] \in Owning
IsMainRunning == \E m \in Mains : main[m] \in Owning \cup {"waiting", "refused"}

\* A running program cannot be deleted or overwritten.
InUse == \E m \in Mains : main[m] # "none"

Act == left.acts > 0 /\ left' = [left EXCEPT !.acts = @ - 1]
Fault == left.faults > 0 /\ left' = [left EXCEPT !.faults = @ - 1]

Init ==
  /\ \E m \in Mains : main = [n \in Mains |-> IF n = m THEN "new" ELSE "none"]
  /\ posted = [m \in Mains |-> {}] /\ asked = [m \in Mains |-> 0]
  /\ loading = [m \in Mains |-> "idle"]
  /\ daemon = "none" /\ exitSet = FALSE /\ enabled = TRUE
  /\ exe = "whole" /\ backup = "absent" /\ dest = "absent"
  /\ updater = [u \in Updaters |-> "none"]
  /\ left \in Limits /\ noted = {}

-----------------------------------------------------------------------------
(* A process of the program starts                                           *)

\* CreateProcess, by the user, the watchdog or an updater.
Launch(m) == main[m] = "none" /\ exe = "whole" /\ main' = [main EXCEPT ![m] = "new"]

UserStarts(m) ==
  /\ Launch(m) /\ Act
  /\ UNCHANGED <<posted, asked, loading, watchVars, files, updater, noted>>

Moves(m, from, to) ==
  /\ main[m] = from /\ main' = [main EXCEPT ![m] = to]
  /\ UNCHANGED <<asked, loading, files, updater, left, noted>>

\* It owns the mutex, or another one has it: that one is told to exit if its
\* window is found, and waited for.
CreateMutex(m) ==
  /\ UNCHANGED watchVars
  /\ \/ ~ IsMainRunning /\ Moves(m, "new", "init") /\ UNCHANGED posted
     \/ /\ IsMainRunning /\ Moves(m, "new", "waiting")
        /\ posted' = [n \in Mains |-> IF main[n] = "up" THEN posted[n] \cup {"exit"} ELSE posted[n]]

MutexAcquired(m) == ~ Owned /\ Moves(m, "waiting", "init") /\ UNCHANGED <<posted, watchVars>>

\* Mutant: the result of the wait is not looked at.
RefusedGoesOn(m) == Owned /\ Moves(m, "waiting", "init") /\ UNCHANGED <<posted, watchVars>>

\* After 8 seconds it says that the other is still running.
Refused(m) == Owned /\ Moves(m, "waiting", "refused") /\ UNCHANGED <<posted, watchVars>>

Dismissed(m) == Moves(m, "refused", "none") /\ UNCHANGED <<posted, watchVars>>

\* No second watchdog is started beside one that has its mutex.
StartDaemon == daemon' = IF enabled /\ daemon = "none" THEN "new" ELSE daemon

StartDaemonIfNeeded(m) ==
  Moves(m, "init", "opening") /\ StartDaemon /\ UNCHANGED <<posted, exitSet, enabled>>

OpensWindow(m) == Moves(m, "opening", "up") /\ UNCHANGED <<posted, watchVars>>

-----------------------------------------------------------------------------
(* A window and how it ends                                                  *)

\* Posted messages come before input.
TakesInput(m) == main[m] = "up" /\ posted[m] = {}

\* Mutant: the event is opened, not set.
SignalNotSet(other) == noted' = noted \cup other /\ UNCHANGED exitSet

\* The event exists only while the watchdog has it open; the watchdog resets it
\* when it begins.  The signal comes late for one that has made up its mind.
SignalDaemonExit(other) ==
  /\ exitSet' = (exitSet \/ daemon \in {"watching", "delay", "starting"})
  /\ noted' = noted \cup other \cup (IF daemon \in {"new", "starting"} THEN {"lost"} ELSE {})

LeavesLoop(m) ==
  /\ main' = [main EXCEPT ![m] = "closing"]
  /\ posted' = [posted EXCEPT ![m] = {}] /\ asked' = [asked EXCEPT ![m] = 0]

\* The tray's Exit turns the watchdog off for good.
TrayExit(m) ==
  /\ TakesInput(m) /\ Act /\ LeavesLoop(m)
  /\ enabled' = FALSE /\ SignalDaemonExit({})
  /\ UNCHANGED <<loading, daemon, files, updater>>

ExitCommand(m) ==
  /\ main[m] = "up" /\ "exit" \in posted[m] /\ LeavesLoop(m)
  /\ SignalDaemonExit({})
  /\ UNCHANGED <<loading, daemon, enabled, files, updater, left>>

\* GET /exit also makes the loop end, possibly before WM_EXIT_COMMAND is
\* dispatched: the watchdog is not told then.
HttpExit(m) ==
  /\ main[m] = "up" /\ Act
  /\ posted' = [posted EXCEPT ![m] = @ \cup {"exit", "quit"}]
  /\ UNCHANGED <<main, asked, loading, watchVars, files, updater, noted>>

LoopEnds(m) ==
  /\ main[m] = "up" /\ "quit" \in posted[m] /\ LeavesLoop(m)
  /\ noted' = IF daemon = "none" THEN noted ELSE noted \cup {"lost"}
  /\ UNCHANGED <<loading, watchVars, files, updater, left>>

WindowCloses(m) ==
  /\ main[m] = "up" /\ "close" \in posted[m] /\ LeavesLoop(m)
  /\ UNCHANGED <<loading, watchVars, files, updater, left, noted>>

\* Mutant: the process ends with its download under way.
EndsAtOnce(m) ==
  /\ main[m] = "closing" /\ main' = [main EXCEPT ![m] = "none"]
  /\ loading' = [loading EXCEPT ![m] = "idle"]
  /\ UNCHANGED <<posted, asked, watchVars, files, updater, left, noted>>

\* The download is cancelled and its thread joined (~DownloadManager).
Ends(m) ==
  /\ loading[m] = "idle"
  /\ Moves(m, "closing", "none") /\ UNCHANGED <<posted, watchVars>>

\* It crashes, or cannot open its window, its port or its configuration.
Fails(m) ==
  /\ main[m] # "none" /\ Fault
  /\ main' = [main EXCEPT ![m] = "none"] /\ posted' = [posted EXCEPT ![m] = {}]
  /\ asked' = [asked EXCEPT ![m] = 0] /\ loading' = [loading EXCEPT ![m] = "idle"]
  /\ noted' = noted \cup {"crashed"}
  /\ UNCHANGED <<watchVars, files, updater>>

\* The settings turn the watchdog on or off.
SetDaemonEnabled(m) ==
  /\ TakesInput(m) /\ Act /\ enabled' = ~ enabled
  /\ IF enabled THEN SignalDaemonExit({}) /\ UNCHANGED daemon
     ELSE /\ daemon' = IF daemon = "none" THEN "new" ELSE daemon
          /\ UNCHANGED <<exitSet, noted>>
  /\ UNCHANGED <<windowVars, files, updater>>

-----------------------------------------------------------------------------
(* The download of a new version                                             *)

\* An update was found and the user wants it.  Its hash may not be available.
DownloadUpdate(m) ==
  /\ TakesInput(m) /\ loading[m] = "idle" /\ Act
  /\ \E way \in {"blind", "hashed"} : loading' = [loading EXCEPT ![m] = way]
  /\ UNCHANGED <<main, posted, asked, watchVars, files, updater, noted>>

\* WM_DOWNLOAD_COMPLETE: the window asks, if it is still there.
Asks(m) ==
  /\ loading' = [loading EXCEPT ![m] = "idle"]
  /\ asked' = IF main[m] = "up" THEN [asked EXCEPT ![m] = @ + 1] ELSE asked

\* Cancelled, no connection, an error status, or no way to rename: the older
\* file may have been deleted for that.
FetchFails(m) ==
  /\ loading[m] \in {"blind", "hashed"}
  /\ loading' = [loading EXCEPT ![m] = "idle"] /\ dest' \in {dest, "absent"}
  /\ UNCHANGED <<main, posted, asked, watchVars, exe, backup, updater, left, noted>>

\* What was received is renamed; it may not be the program.
FetchEnds(m) ==
  /\ dest' \in {"part", "whole"}
  /\ \/ /\ loading[m] = "blind" /\ Asks(m)
        /\ noted' = IF dest' = "part" THEN noted \cup {"unverified"} ELSE noted
     \/ /\ loading[m] = "hashed" /\ loading' = [loading EXCEPT ![m] = "verify"]
        /\ UNCHANGED <<asked, noted>>
  /\ UNCHANGED <<main, posted, watchVars, exe, backup, updater, left>>

Verify(m) ==
  /\ loading[m] = "verify"
  /\ IF dest = "whole" THEN Asks(m) /\ UNCHANGED dest
     ELSE dest' = "absent" /\ loading' = [loading EXCEPT ![m] = "idle"] /\ UNCHANGED asked
  /\ UNCHANGED <<main, posted, watchVars, exe, backup, updater, left, noted>>

Working == {u \in Updaters : updater[u] # "none"}

\* "Yes": the watchdog is told, the updater started, the window closed.  Boxes
\* that are open together may be answered before any message is dispatched.
Install(m) ==
  /\ TakesInput(m) /\ Act
  /\ \E started \in SUBSET (Updaters \ Working) :
       /\ started # {} /\ Cardinality(started) <= asked[m]
       /\ updater' = [u \in Updaters |-> IF u \in started THEN "wait" ELSE updater[u]]
       /\ asked' = [asked EXCEPT ![m] = @ - Cardinality(started)]
       /\ SignalDaemonExit(IF \E u \in started : started \cup Working # {u} THEN {"doubled"} ELSE {})
  /\ posted' = [posted EXCEPT ![m] = {"close"}]
  /\ UNCHANGED <<main, loading, daemon, enabled, files>>

\* The updater is missing: the program goes on, without its watchdog.
InstallFails(m) ==
  /\ TakesInput(m) /\ asked[m] > 0 /\ Fault
  /\ asked' = [asked EXCEPT ![m] = @ - 1] /\ SignalDaemonExit({})
  /\ UNCHANGED <<main, posted, loading, daemon, enabled, files, updater>>

-----------------------------------------------------------------------------
(* The watchdog                                                              *)

DaemonSteps(from, to) ==
  /\ daemon = from /\ daemon' = to
  /\ UNCHANGED <<posted, asked, loading, enabled, files, updater, left, noted>>

DaemonBegins == DaemonSteps("new", "watching") /\ exitSet' = FALSE /\ UNCHANGED main

\* Each second it looks at the event, the configuration and the mutex.
DaemonStops ==
  /\ exitSet \/ ~ enabled
  /\ \E from \in {"watching", "delay"} : DaemonSteps(from, "stopping")
  /\ UNCHANGED <<exitSet, main>>

DaemonMisses ==
  /\ ~ exitSet /\ enabled /\ ~ IsMainRunning
  /\ DaemonSteps("watching", "delay") /\ UNCHANGED <<exitSet, main>>

\* Mutant: the delay is not counted.
DelayNotCounted ==
  /\ ~ exitSet /\ enabled /\ IsMainRunning
  /\ DaemonSteps("delay", "watching") /\ UNCHANGED <<exitSet, main>>

\* Ten seconds are over, or the program runs again; the event is not looked at
\* once more.
DelayOver ==
  /\ ~ exitSet /\ enabled
  /\ DaemonSteps("delay", IF IsMainRunning THEN "watching" ELSE "starting")
  /\ UNCHANGED <<exitSet, main>>

StartMainProcess ==
  /\ DaemonSteps("starting", "watching") /\ UNCHANGED exitSet
  /\ (\E m \in Mains : Launch(m)) \/ (exe # "whole" /\ UNCHANGED main)

DaemonEnds == DaemonSteps("stopping", "none") /\ exitSet' = FALSE /\ UNCHANGED main

-----------------------------------------------------------------------------
(* An updater                                                                *)

Proceeds(u, from, to) ==
  /\ updater[u] = from /\ updater' = [updater EXCEPT ![u] = to]
  /\ UNCHANGED <<posted, asked, loading, watchVars>>

\* Mutant: the backup is not made again.
WaitThenDelete(u) ==
  /\ Proceeds(u, "wait", IF InUse THEN "none" ELSE "delete")
  /\ UNCHANGED <<main, files, left, noted>>

\* It waits at most 30 seconds for every process of that name.
WaitForProcessExit(u) ==
  /\ Proceeds(u, "wait", IF InUse THEN "none" ELSE "backup")
  /\ UNCHANGED <<main, files, left, noted>>

BackupFile(u) ==
  /\ UNCHANGED <<main, exe, dest, left, noted>>
  /\ \/ exe # "absent" /\ Proceeds(u, "backup", "delete") /\ backup' = exe
     \/ exe = "absent" /\ Proceeds(u, "backup", "none") /\ UNCHANGED backup

\* ReplaceFile deletes the program...
DeleteOld(u) ==
  /\ Proceeds(u, "delete", IF exe # "absent" /\ InUse THEN "rollback" ELSE "move")
  /\ exe' = IF InUse THEN exe ELSE "absent"
  /\ UNCHANGED <<main, backup, dest, left, noted>>

\* ... and moves the download to its place.
MoveNew(u) ==
  /\ UNCHANGED <<main, backup, left, noted>>
  /\ \/ /\ exe = "absent" /\ dest # "absent" /\ Proceeds(u, "move", "start")
        /\ exe' = dest /\ dest' = "absent"
     \/ /\ exe # "absent" \/ dest = "absent"
        /\ Proceeds(u, "move", "rollback") /\ UNCHANGED <<exe, dest>>

\* Nobody starts the program again after that.
Rollback(u) ==
  /\ Proceeds(u, "rollback", "none")
  /\ exe' = IF InUse \/ backup = "absent" THEN exe ELSE backup
  /\ UNCHANGED <<main, backup, dest, left, noted>>

StartProcess(u) ==
  /\ Proceeds(u, "start", "none") /\ UNCHANGED <<files, left, noted>>
  /\ (\E m \in Mains : Launch(m)) \/ (exe # "whole" /\ UNCHANGED main)

\* A step fails for another reason: a copy that fails leaves no file.
StepFails(u) ==
  /\ Fault /\ UNCHANGED <<main, dest, noted>>
  /\ \/ Proceeds(u, "backup", "none") /\ backup' \in {backup, "absent"} /\ UNCHANGED exe
     \/ /\ \E from \in {"delete", "move"} : Proceeds(u, from, "rollback")
        /\ UNCHANGED <<exe, backup>>
     \/ /\ Proceeds(u, "rollback", "none") /\ UNCHANGED backup
        /\ exe' = exe \/ (~ InUse /\ backup # "absent" /\ exe' = "absent")
     \/ Proceeds(u, "start", "none") /\ UNCHANGED <<exe, backup>>

\* It is killed, or the power fails: the copy it was making is cut.
UpdaterDies(u) ==
  /\ Fault /\ noted' = noted \cup {"crashed"} /\ UNCHANGED <<main, dest>>
  /\ updater[u] # "none" /\ Proceeds(u, updater[u], "none")
  /\ backup' = backup \/ (updater[u] = "backup" /\ exe # "absent" /\ backup' = "part")
  /\ \/ exe' = exe
     \/ /\ exe' = "part" /\ ~ InUse
        /\ \/ updater[u] = "move" /\ exe = "absent" /\ dest # "absent"
           \/ updater[u] = "rollback" /\ backup # "absent"

-----------------------------------------------------------------------------
(* The specification                                                         *)

Opening(m) == CreateMutex(m) \/ MutexAcquired(m) \/ Refused(m) \/ StartDaemonIfNeeded(m) \/ OpensWindow(m)

Dispatch(m) == ExitCommand(m) \/ LoopEnds(m) \/ WindowCloses(m)

Fetch(m) == FetchFails(m) \/ FetchEnds(m) \/ Verify(m)

People(m) ==
  \/ UserStarts(m) \/ Dismissed(m) \/ TrayExit(m) \/ HttpExit(m) \/ SetDaemonEnabled(m)
  \/ DownloadUpdate(m) \/ Install(m)

Watch == DaemonBegins \/ DaemonStops \/ DaemonMisses \/ DelayOver \/ StartMainProcess \/ DaemonEnds

Update(u) ==
  \/ WaitForProcessExit(u) \/ BackupFile(u) \/ DeleteOld(u) \/ MoveNew(u) \/ Rollback(u)
  \/ StartProcess(u)

Next ==
  \/ \E m \in Mains : \/ Opening(m) \/ Dispatch(m) \/ Fetch(m) \/ Ends(m) \/ People(m)
                      \/ Fails(m) \/ InstallFails(m)
  \/ Watch
  \/ \E u \in Updaters : Update(u) \/ StepFails(u) \/ UpdaterDies(u)

Spec == Init /\ [][Next]_agentVars

(* Fairness.  Processes run and time passes.  Nobody is assumed to start,    *)
(* exit or update anything, nor to dismiss a box.                            *)
Fairness ==
  /\ WF_agentVars(Watch)
  /\ \A m \in Mains : /\ WF_agentVars(Opening(m)) /\ WF_agentVars(Dispatch(m))
                      /\ WF_agentVars(Fetch(m)) /\ WF_agentVars(Ends(m))
  /\ \A u \in Updaters : WF_agentVars(Update(u))

FairSpec == Spec /\ Fairness

=============================================================================
