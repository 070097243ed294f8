-------------------------- MODULE AgentUpdateProofs --------------------------
(* Proofs about the agent's update of itself, for any number of processes    *)
(* and updaters: the files it needs survive every update (CanBeRestored) and *)
(* only a download that nobody could check is installed broken               *)
(* (InstalledIsWhole), and the watchdog does not start the program meanwhile *)
(* (UpdateIsLeftAlone).                                                      *)
EXTENDS AgentUpdateProps, FiniteSetTheorems, TLAPS

LEMMA TypeInit == Init => AgentTypeOK
<1> SUFFICES ASSUME Init PROVE AgentTypeOK
  OBVIOUS
<1> USE DEF Init, MainSteps, UpdaterSteps, DaemonStates, Contents, Owning
<1>1. PICK m \in Mains : main = [n \in Mains |-> IF n = m THEN "new" ELSE "none"]
  OBVIOUS
<1>2. /\ main \in [Mains -> MainSteps]
      /\ \A n \in Mains : main[n] \notin Owning
  BY <1>1
<1>3. posted \in [Mains -> SUBSET {"exit", "close", "quit"}] /\ \A n \in Mains : posted[n] = {}
  OBVIOUS
<1>4. left \in [acts : Nat, faults : Nat]
  BY AgentAssumption
<1>5. /\ updater \in [Updaters -> UpdaterSteps] /\ asked \in [Mains -> Nat]
      /\ \A n \in Mains : asked[n] = 0
      /\ loading \in [Mains -> {"idle", "blind", "hashed", "verify"}]
  OBVIOUS
<1>6. /\ daemon \in DaemonStates /\ exitSet \in BOOLEAN /\ enabled \in BOOLEAN
      /\ exe \in Contents /\ backup \in Contents /\ dest \in Contents
      /\ noted \subseteq {"unverified", "doubled", "lost", "crashed"}
  OBVIOUS
<1> QED
  BY <1>2, <1>3, <1>4, <1>5, <1>6 DEF AgentTypeOK

LEMMA TypeStep == AgentTypeOK /\ [Next]_agentVars => AgentTypeOK'
<1> SUFFICES ASSUME AgentTypeOK, [Next]_agentVars PROVE AgentTypeOK'
  OBVIOUS
<1> USE DEF AgentTypeOK, MainSteps, UpdaterSteps, DaemonStates, Contents, Owning,
            windowVars, watchVars, files, Act, Fault
<1>1. ASSUME NEW m \in Mains, UserStarts(m) PROVE AgentTypeOK'
  BY <1>1 DEF UserStarts, Launch
<1>2. ASSUME NEW m \in Mains, CreateMutex(m) PROVE AgentTypeOK'
  <2>1. CASE UNCHANGED posted
    <3>1. CASE ~ IsMainRunning /\ Moves(m, "new", "init")
      BY <1>2, <2>1, <3>1 DEF CreateMutex, Moves, IsMainRunning
    <3>2. CASE Moves(m, "new", "waiting")
      BY <1>2, <2>1, <3>2 DEF CreateMutex, Moves
    <3> QED
      BY <1>2, <3>1, <3>2 DEF CreateMutex
  <2>2. CASE posted' = [n \in Mains |-> IF main[n] = "up" THEN posted[n] \cup {"exit"} ELSE posted[n]]
    <3>1. \/ main' = [main EXCEPT ![m] = "waiting"]
          \/ main' = [main EXCEPT ![m] = "init"] /\ ~ IsMainRunning
      BY <1>2 DEF CreateMutex, Moves
    <3>2. main[m] = "new" /\ UNCHANGED <<asked, loading, updater, left, noted, watchVars, files>>
      BY <1>2 DEF CreateMutex, Moves
    <3>3. posted' \in [Mains -> SUBSET {"exit", "close", "quit"}]
      BY <2>2
    <3>4. \A n \in Mains : main'[n] # "up" => posted'[n] = {} /\ asked'[n] = 0
      BY <2>2, <3>1, <3>2
    <3>5. main' \in [Mains -> MainSteps]
      BY <3>1
    <3>6. \A k, n \in Mains : main'[k] \in Owning /\ main'[n] \in Owning => k = n
      BY <3>1, <3>2 DEF IsMainRunning
    <3> QED
      BY <3>2, <3>3, <3>4, <3>5, <3>6
  <2> QED
    BY <1>2, <2>1, <2>2 DEF CreateMutex
<1>3. ASSUME NEW m \in Mains, MutexAcquired(m) PROVE AgentTypeOK'
  BY <1>3 DEF MutexAcquired, Moves, Owned
<1>4. ASSUME NEW m \in Mains, Refused(m) PROVE AgentTypeOK'
  BY <1>4 DEF Refused, Moves
<1>5. ASSUME NEW m \in Mains, Dismissed(m) PROVE AgentTypeOK'
  BY <1>5 DEF Dismissed, Moves
<1>6. ASSUME NEW m \in Mains, StartDaemonIfNeeded(m) PROVE AgentTypeOK'
  BY <1>6 DEF StartDaemonIfNeeded, Moves, StartDaemon
<1>7. ASSUME NEW m \in Mains, OpensWindow(m) PROVE AgentTypeOK'
  BY <1>7 DEF OpensWindow, Moves
<1>8. ASSUME NEW m \in Mains, TrayExit(m) PROVE AgentTypeOK'
  <2>1. /\ updater' \in [Updaters -> UpdaterSteps] /\ left' \in [acts : Nat, faults : Nat]
        /\ daemon' \in DaemonStates
        /\ exe' \in Contents /\ backup' \in Contents /\ dest' \in Contents
    BY <1>8 DEF TrayExit
  <2>5. exitSet' \in BOOLEAN /\ enabled' \in BOOLEAN
    BY <1>8 DEF TrayExit, SignalDaemonExit
  <2>2. noted' \subseteq {"unverified", "doubled", "lost", "crashed"}
    BY <1>8 DEF TrayExit, TakesInput, LeavesLoop, SignalDaemonExit
  <2>3. /\ main' \in [Mains -> MainSteps] /\ asked' \in [Mains -> Nat]
        /\ posted' \in [Mains -> SUBSET {"exit", "close", "quit"}]
        /\ loading' \in [Mains -> {"idle", "blind", "hashed", "verify"}]
    BY <1>8 DEF TrayExit, TakesInput, LeavesLoop, SignalDaemonExit
  <2>4. /\ \A n \in Mains : main'[n] # "up" => posted'[n] = {} /\ asked'[n] = 0
        /\ \A k, n \in Mains : main'[k] \in Owning /\ main'[n] \in Owning => k = n
    BY <1>8 DEF TrayExit, TakesInput, LeavesLoop, SignalDaemonExit
  <2> QED
    BY <2>1, <2>2, <2>3, <2>4, <2>5
<1>9. ASSUME NEW m \in Mains, ExitCommand(m) PROVE AgentTypeOK'
  BY <1>9 DEF ExitCommand, LeavesLoop, SignalDaemonExit
<1>10. ASSUME NEW m \in Mains, HttpExit(m) PROVE AgentTypeOK'
  BY <1>10 DEF HttpExit
<1>11. ASSUME NEW m \in Mains, LoopEnds(m) PROVE AgentTypeOK'
  BY <1>11 DEF LoopEnds, LeavesLoop
<1>12. ASSUME NEW m \in Mains, WindowCloses(m) PROVE AgentTypeOK'
  BY <1>12 DEF WindowCloses, LeavesLoop
<1>13. ASSUME NEW m \in Mains, Ends(m) PROVE AgentTypeOK'
  BY <1>13 DEF Ends, Moves
<1>14. ASSUME NEW m \in Mains, Fails(m) PROVE AgentTypeOK'
  BY <1>14 DEF Fails
<1>15. ASSUME NEW m \in Mains, SetDaemonEnabled(m) PROVE AgentTypeOK'
  BY <1>15 DEF SetDaemonEnabled, TakesInput, SignalDaemonExit
<1>16. ASSUME NEW m \in Mains, DownloadUpdate(m) PROVE AgentTypeOK'
  BY <1>16 DEF DownloadUpdate, TakesInput
<1>17. ASSUME NEW m \in Mains, FetchFails(m) PROVE AgentTypeOK'
  BY <1>17 DEF FetchFails
<1>18. ASSUME NEW m \in Mains, FetchEnds(m) PROVE AgentTypeOK'
  <2>1. /\ updater' \in [Updaters -> UpdaterSteps] /\ left' \in [acts : Nat, faults : Nat]
        /\ daemon' \in DaemonStates /\ exitSet' \in BOOLEAN /\ enabled' \in BOOLEAN
        /\ exe' \in Contents /\ backup' \in Contents /\ dest' \in Contents
    BY <1>18 DEF FetchEnds, Asks
  <2>2. noted' \subseteq {"unverified", "doubled", "lost", "crashed"}
    BY <1>18 DEF FetchEnds, Asks
  <2>3. /\ main' \in [Mains -> MainSteps] /\ asked' \in [Mains -> Nat]
        /\ posted' \in [Mains -> SUBSET {"exit", "close", "quit"}]
        /\ loading' \in [Mains -> {"idle", "blind", "hashed", "verify"}]
    BY <1>18 DEF FetchEnds, Asks
  <2>4. /\ \A n \in Mains : main'[n] # "up" => posted'[n] = {} /\ asked'[n] = 0
        /\ \A k, n \in Mains : main'[k] \in Owning /\ main'[n] \in Owning => k = n
    BY <1>18 DEF FetchEnds, Asks
  <2> QED
    BY <2>1, <2>2, <2>3, <2>4
<1>19. ASSUME NEW m \in Mains, Verify(m) PROVE AgentTypeOK'
  BY <1>19 DEF Verify, Asks
<1>20. ASSUME NEW m \in Mains, Install(m) PROVE AgentTypeOK'
  <2>1. /\ updater' \in [Updaters -> UpdaterSteps] /\ left' \in [acts : Nat, faults : Nat]
        /\ daemon' \in DaemonStates /\ exitSet' \in BOOLEAN /\ enabled' \in BOOLEAN
        /\ exe' \in Contents /\ backup' \in Contents /\ dest' \in Contents
    BY <1>20 DEF Install, TakesInput, SignalDaemonExit, Working
  <2>2. noted' \subseteq {"unverified", "doubled", "lost", "crashed"}
    BY <1>20 DEF Install, TakesInput, SignalDaemonExit, Working
  <2>3. /\ main' \in [Mains -> MainSteps] /\ asked' \in [Mains -> Nat]
        /\ posted' \in [Mains -> SUBSET {"exit", "close", "quit"}]
        /\ loading' \in [Mains -> {"idle", "blind", "hashed", "verify"}]
    <3>1. PICK started \in SUBSET (Updaters \ Working) :
            /\ Cardinality(started) <= asked[m]
            /\ asked' = [asked EXCEPT ![m] = @ - Cardinality(started)]
      BY <1>20 DEF Install
    <3>2. Cardinality(started) \in Nat
      BY AgentAssumption, FS_Subset, FS_CardinalityType
    <3> QED
      BY <1>20, <3>1, <3>2 DEF Install
  <2>4. /\ \A n \in Mains : main'[n] # "up" => posted'[n] = {} /\ asked'[n] = 0
        /\ \A k, n \in Mains : main'[k] \in Owning /\ main'[n] \in Owning => k = n
    BY <1>20 DEF Install, TakesInput, SignalDaemonExit, Working
  <2> QED
    BY <2>1, <2>2, <2>3, <2>4
<1>21. ASSUME NEW m \in Mains, InstallFails(m) PROVE AgentTypeOK'
  BY <1>21 DEF InstallFails, TakesInput, SignalDaemonExit
<1>22. ASSUME DaemonBegins PROVE AgentTypeOK'
  BY <1>22 DEF DaemonBegins, DaemonSteps
<1>23. ASSUME DaemonStops PROVE AgentTypeOK'
  BY <1>23 DEF DaemonStops, DaemonSteps
<1>24. ASSUME DaemonMisses PROVE AgentTypeOK'
  BY <1>24 DEF DaemonMisses, DaemonSteps
<1>25. ASSUME DelayOver PROVE AgentTypeOK'
  BY <1>25 DEF DelayOver, DaemonSteps
<1>26. ASSUME StartMainProcess PROVE AgentTypeOK'
  BY <1>26 DEF StartMainProcess, DaemonSteps, Launch
<1>27. ASSUME DaemonEnds PROVE AgentTypeOK'
  BY <1>27 DEF DaemonEnds, DaemonSteps
<1>28. ASSUME NEW u \in Updaters, WaitForProcessExit(u) PROVE AgentTypeOK'
  BY <1>28 DEF WaitForProcessExit, Proceeds
<1>29. ASSUME NEW u \in Updaters, BackupFile(u) PROVE AgentTypeOK'
  BY <1>29 DEF BackupFile, Proceeds
<1>30. ASSUME NEW u \in Updaters, DeleteOld(u) PROVE AgentTypeOK'
  BY <1>30 DEF DeleteOld, Proceeds
<1>31. ASSUME NEW u \in Updaters, MoveNew(u) PROVE AgentTypeOK'
  BY <1>31 DEF MoveNew, Proceeds
<1>32. ASSUME NEW u \in Updaters, Rollback(u) PROVE AgentTypeOK'
  BY <1>32 DEF Rollback, Proceeds
<1>33. ASSUME NEW u \in Updaters, StartProcess(u) PROVE AgentTypeOK'
  BY <1>33 DEF StartProcess, Proceeds, Launch
<1>34. ASSUME NEW u \in Updaters, StepFails(u) PROVE AgentTypeOK'
  BY <1>34 DEF StepFails, Proceeds
<1>35. ASSUME NEW u \in Updaters, UpdaterDies(u) PROVE AgentTypeOK'
  BY <1>35 DEF UpdaterDies, Proceeds
<1>36. ASSUME UNCHANGED agentVars PROVE AgentTypeOK'
  BY <1>36 DEF agentVars
<1> QED
  BY <1>1, <1>2, <1>3, <1>4, <1>5, <1>6, <1>7, <1>8, <1>9, <1>10, <1>11, <1>12, <1>13, <1>14, <1>15, <1>16, <1>17, <1>18, <1>19, <1>20, <1>21, <1>22, <1>23, <1>24, <1>25, <1>26, <1>27, <1>28, <1>29, <1>30, <1>31, <1>32, <1>33, <1>34, <1>35, <1>36 DEF Next, Opening, Dispatch, Fetch, People, Watch, Update

-----------------------------------------------------------------------------
(* The files                                                                 *)

\* What excuses a broken program.
Excused == noted \cap {"unverified", "crashed"} # {}

Quiet(m) == main[m] \notin {"up", "closing"} => loading[m] = "idle"

\* An update by one updater: the program is whole until it is deleted, and its
\* copy is from then on.
OneUpdate ==
  /\ \A u, v \in Updaters : updater[u] # "none" /\ updater[v] # "none" => u = v
  /\ \A u \in Updaters :
       /\ updater[u] \in {"wait", "backup", "delete"} => exe = "whole"
       /\ updater[u] \in {"delete", "move", "rollback", "start"} => backup = "whole"

\* The inductive invariant of the files: only a whole program runs, a broken
\* download is still to be compared or excused, and so is what is made of it.
FilesInv ==
  /\ InUse => exe = "whole"
  /\ \A m \in Mains : Quiet(m)
  /\ dest = "part" => Excused \/ \E m \in Mains : loading[m] = "verify"
  /\ exe = "part" \/ backup = "part" => Excused
  /\ "doubled" \notin noted => OneUpdate /\ (exe = "whole" \/ backup = "whole")

\* A step that leaves the files and the updaters alone, starts only a whole
\* program and forgets no comparison.
Undisturbed ==
  /\ UNCHANGED <<files, updater>> /\ noted \subseteq noted'
  /\ \A m \in Mains : main'[m] # "none" => main[m] # "none" \/ exe = "whole"
  /\ \A m \in Mains : Quiet(m)'
  /\ \A m \in Mains : loading[m] = "verify" => loading'[m] = "verify" \/ Excused'

LEMMA UndisturbedStep == FilesInv /\ Undisturbed => FilesInv'
<1> SUFFICES ASSUME FilesInv, Undisturbed PROVE FilesInv'
  OBVIOUS
<1>1. UNCHANGED <<exe, backup, dest, updater>> /\ noted \subseteq noted'
  BY DEF Undisturbed, files
<1>2. InUse' => exe' = "whole"
  BY <1>1 DEF Undisturbed, FilesInv, InUse
<1>3. \A m \in Mains : Quiet(m)'
  BY DEF Undisturbed
<1>4. Excused => Excused'
  BY <1>1 DEF Excused
<1>5. dest' = "part" => Excused' \/ \E m \in Mains : loading'[m] = "verify"
  BY <1>1, <1>4 DEF Undisturbed, FilesInv
<1>6. exe' = "part" \/ backup' = "part" => Excused'
  BY <1>1, <1>4 DEF FilesInv
<1>7. "doubled" \notin noted' => OneUpdate' /\ (exe' = "whole" \/ backup' = "whole")
  BY <1>1 DEF FilesInv, OneUpdate
<1> QED
  BY <1>2, <1>3, <1>5, <1>6, <1>7 DEF FilesInv

LEMMA FilesStep == AgentTypeOK /\ FilesInv /\ [Next]_agentVars => FilesInv'
<1> SUFFICES ASSUME AgentTypeOK, FilesInv, [Next]_agentVars PROVE FilesInv'
  OBVIOUS
<1>t. /\ main \in [Mains -> MainSteps] /\ updater \in [Updaters -> UpdaterSteps]
      /\ loading \in [Mains -> {"idle", "blind", "hashed", "verify"}]
      /\ exe \in Contents /\ backup \in Contents /\ dest \in Contents
  BY DEF AgentTypeOK
<1>q. \A m \in Mains : Quiet(m)
  BY DEF FilesInv
<1>1. ASSUME NEW m \in Mains, UserStarts(m) PROVE Undisturbed
  BY <1>1, <1>t, <1>q DEF UserStarts, Launch, Undisturbed, Quiet
<1>2. ASSUME NEW m \in Mains, CreateMutex(m) PROVE Undisturbed
  BY <1>2, <1>t, <1>q DEF CreateMutex, Moves, Undisturbed, Quiet
<1>3. ASSUME NEW m \in Mains, MutexAcquired(m) PROVE Undisturbed
  BY <1>3, <1>t, <1>q DEF MutexAcquired, Moves, Undisturbed, Quiet
<1>4. ASSUME NEW m \in Mains, Refused(m) PROVE Undisturbed
  BY <1>4, <1>t, <1>q DEF Refused, Moves, Undisturbed, Quiet
<1>5. ASSUME NEW m \in Mains, Dismissed(m) PROVE Undisturbed
  BY <1>5, <1>t, <1>q DEF Dismissed, Moves, Undisturbed, Quiet
<1>6. ASSUME NEW m \in Mains, StartDaemonIfNeeded(m) PROVE Undisturbed
  BY <1>6, <1>t, <1>q DEF StartDaemonIfNeeded, Moves, Undisturbed, Quiet
<1>7. ASSUME NEW m \in Mains, OpensWindow(m) PROVE Undisturbed
  BY <1>7, <1>t, <1>q DEF OpensWindow, Moves, Undisturbed, Quiet
<1>8. ASSUME NEW m \in Mains, TrayExit(m) PROVE Undisturbed
  BY <1>8, <1>t, <1>q DEF TrayExit, LeavesLoop, SignalDaemonExit, TakesInput, Undisturbed, Quiet
<1>9. ASSUME NEW m \in Mains, ExitCommand(m) PROVE Undisturbed
  BY <1>9, <1>t, <1>q DEF ExitCommand, LeavesLoop, SignalDaemonExit, Undisturbed, Quiet
<1>10. ASSUME NEW m \in Mains, HttpExit(m) PROVE Undisturbed
  BY <1>10, <1>t, <1>q DEF HttpExit, Undisturbed, Quiet
<1>11. ASSUME NEW m \in Mains, LoopEnds(m) PROVE Undisturbed
  BY <1>11, <1>t, <1>q DEF LoopEnds, LeavesLoop, Undisturbed, Quiet
<1>12. ASSUME NEW m \in Mains, WindowCloses(m) PROVE Undisturbed
  BY <1>12, <1>t, <1>q DEF WindowCloses, LeavesLoop, Undisturbed, Quiet
<1>13. ASSUME NEW m \in Mains, Ends(m) PROVE Undisturbed
  BY <1>13, <1>t, <1>q DEF Ends, Moves, Undisturbed, Quiet
<1>14. ASSUME NEW m \in Mains, Fails(m) PROVE Undisturbed
  BY <1>14, <1>t, <1>q DEF Fails, Excused, Undisturbed, Quiet
<1>15. ASSUME NEW m \in Mains, SetDaemonEnabled(m) PROVE Undisturbed
  BY <1>15, <1>t, <1>q DEF SetDaemonEnabled, SignalDaemonExit, windowVars, Undisturbed, Quiet
<1>16. ASSUME NEW m \in Mains, DownloadUpdate(m) PROVE Undisturbed
  BY <1>16, <1>t, <1>q DEF DownloadUpdate, TakesInput, Undisturbed, Quiet
<1>17. ASSUME NEW m \in Mains, InstallFails(m) PROVE Undisturbed
  BY <1>17, <1>t, <1>q DEF InstallFails, SignalDaemonExit, Undisturbed, Quiet
<1>18. ASSUME DaemonBegins PROVE Undisturbed
  BY <1>18, <1>t, <1>q DEF DaemonBegins, DaemonSteps, Undisturbed, Quiet
<1>19. ASSUME DaemonStops PROVE Undisturbed
  BY <1>19, <1>t, <1>q DEF DaemonStops, DaemonSteps, Undisturbed, Quiet
<1>20. ASSUME DaemonMisses PROVE Undisturbed
  BY <1>20, <1>t, <1>q DEF DaemonMisses, DaemonSteps, Undisturbed, Quiet
<1>21. ASSUME DelayOver PROVE Undisturbed
  BY <1>21, <1>t, <1>q DEF DelayOver, DaemonSteps, Undisturbed, Quiet
<1>22. ASSUME StartMainProcess PROVE Undisturbed
  BY <1>22, <1>t, <1>q DEF StartMainProcess, DaemonSteps, Launch, Undisturbed, Quiet
<1>23. ASSUME DaemonEnds PROVE Undisturbed
  BY <1>23, <1>t, <1>q DEF DaemonEnds, DaemonSteps, Undisturbed, Quiet
<1>24. ASSUME UNCHANGED agentVars PROVE Undisturbed
  BY <1>24, <1>q DEF agentVars, windowVars, Undisturbed, Quiet
<1>25. ASSUME NEW m \in Mains, FetchFails(m) PROVE FilesInv'
  <2>1. InUse' => exe' = "whole"
    BY <1>25, <1>t, <1>q DEF FilesInv, FetchFails, InUse
  <2>2. \A n \in Mains : Quiet(n)'
    BY <1>25, <1>t, <1>q DEF FilesInv, FetchFails, Quiet
  <2>3. dest' = "part" => Excused' \/ \E n \in Mains : loading'[n] = "verify"
    BY <1>25, <1>t, <1>q DEF FilesInv, FetchFails, Excused, Quiet
  <2>4. exe' = "part" \/ backup' = "part" => Excused'
    BY <1>25, <1>t, <1>q DEF FilesInv, FetchFails, Excused, InUse, Quiet
  <2>5. "doubled" \notin noted' => OneUpdate' /\ (exe' = "whole" \/ backup' = "whole")
    BY <1>25, <1>t, <1>q DEF FilesInv, FetchFails, OneUpdate, InUse
  <2> QED
    BY <2>1, <2>2, <2>3, <2>4, <2>5 DEF FilesInv
<1>26. ASSUME NEW m \in Mains, FetchEnds(m) PROVE FilesInv'
  <2>1. InUse' => exe' = "whole"
    BY <1>26, <1>t, <1>q DEF FilesInv, FetchEnds, Asks, InUse
  <2>2. \A n \in Mains : Quiet(n)'
    BY <1>26, <1>t, <1>q DEF FilesInv, FetchEnds, Asks, Quiet
  <2>3. dest' = "part" => Excused' \/ \E n \in Mains : loading'[n] = "verify"
    BY <1>26, <1>t, <1>q DEF FilesInv, FetchEnds, Asks, Excused, Quiet
  <2>4. exe' = "part" \/ backup' = "part" => Excused'
    BY <1>26, <1>t, <1>q DEF FilesInv, FetchEnds, Asks, Excused, InUse, Quiet
  <2>5. "doubled" \notin noted' => OneUpdate' /\ (exe' = "whole" \/ backup' = "whole")
    BY <1>26, <1>t, <1>q DEF FilesInv, FetchEnds, Asks, OneUpdate, InUse
  <2> QED
    BY <2>1, <2>2, <2>3, <2>4, <2>5 DEF FilesInv
<1>27. ASSUME NEW m \in Mains, Verify(m) PROVE FilesInv'
  <2>1. InUse' => exe' = "whole"
    BY <1>27, <1>t, <1>q DEF FilesInv, Verify, Asks, InUse
  <2>2. \A n \in Mains : Quiet(n)'
    BY <1>27, <1>t, <1>q DEF FilesInv, Verify, Asks, Quiet
  <2>3. dest' = "part" => Excused' \/ \E n \in Mains : loading'[n] = "verify"
    BY <1>27, <1>t, <1>q DEF FilesInv, Verify, Asks, Excused, Quiet
  <2>4. exe' = "part" \/ backup' = "part" => Excused'
    BY <1>27, <1>t, <1>q DEF FilesInv, Verify, Asks, Excused, InUse, Quiet
  <2>5. "doubled" \notin noted' => OneUpdate' /\ (exe' = "whole" \/ backup' = "whole")
    BY <1>27, <1>t, <1>q DEF FilesInv, Verify, Asks, OneUpdate, InUse
  <2> QED
    BY <2>1, <2>2, <2>3, <2>4, <2>5 DEF FilesInv
<1>28. ASSUME NEW m \in Mains, Install(m) PROVE FilesInv'
  <2>1. InUse' => exe' = "whole"
    BY <1>28, <1>t, <1>q DEF FilesInv, Install, TakesInput, SignalDaemonExit, Working, files, InUse
  <2>2. \A n \in Mains : Quiet(n)'
    BY <1>28, <1>t, <1>q DEF FilesInv, Install, TakesInput, SignalDaemonExit, Working, files, Quiet
  <2>3. dest' = "part" => Excused' \/ \E n \in Mains : loading'[n] = "verify"
    BY <1>28, <1>t, <1>q DEF FilesInv, Install, TakesInput, SignalDaemonExit, Working, files, Excused, Quiet
  <2>4. exe' = "part" \/ backup' = "part" => Excused'
    BY <1>28, <1>t, <1>q DEF FilesInv, Install, TakesInput, SignalDaemonExit, Working, files, Excused, InUse, Quiet
  <2>5. "doubled" \notin noted' => OneUpdate' /\ (exe' = "whole" \/ backup' = "whole")
    BY <1>28, <1>t, <1>q DEF FilesInv, Install, TakesInput, SignalDaemonExit, Working, files, OneUpdate, InUse
  <2> QED
    BY <2>1, <2>2, <2>3, <2>4, <2>5 DEF FilesInv
<1>29. ASSUME NEW u \in Updaters, WaitForProcessExit(u) PROVE FilesInv'
  <2>1. InUse' => exe' = "whole"
    BY <1>29, <1>t, <1>q DEF FilesInv, WaitForProcessExit, Proceeds, files, InUse
  <2>2. \A n \in Mains : Quiet(n)'
    BY <1>29, <1>t, <1>q DEF FilesInv, WaitForProcessExit, Proceeds, files, Quiet
  <2>3. dest' = "part" => Excused' \/ \E n \in Mains : loading'[n] = "verify"
    BY <1>29, <1>t, <1>q DEF FilesInv, WaitForProcessExit, Proceeds, files, Excused, Quiet
  <2>4. exe' = "part" \/ backup' = "part" => Excused'
    BY <1>29, <1>t, <1>q DEF FilesInv, WaitForProcessExit, Proceeds, files, Excused, InUse, Quiet
  <2>5. "doubled" \notin noted' => OneUpdate' /\ (exe' = "whole" \/ backup' = "whole")
    BY <1>29, <1>t, <1>q DEF FilesInv, WaitForProcessExit, Proceeds, files, OneUpdate, InUse
  <2> QED
    BY <2>1, <2>2, <2>3, <2>4, <2>5 DEF FilesInv
<1>30. ASSUME NEW u \in Updaters, BackupFile(u) PROVE FilesInv'
  <2>1. InUse' => exe' = "whole"
    BY <1>30, <1>t, <1>q DEF FilesInv, BackupFile, Proceeds, InUse
  <2>2. \A n \in Mains : Quiet(n)'
    BY <1>30, <1>t, <1>q DEF FilesInv, BackupFile, Proceeds, Quiet
  <2>3. dest' = "part" => Excused' \/ \E n \in Mains : loading'[n] = "verify"
    BY <1>30, <1>t, <1>q DEF FilesInv, BackupFile, Proceeds, Excused, Quiet
  <2>4. exe' = "part" \/ backup' = "part" => Excused'
    BY <1>30, <1>t, <1>q DEF FilesInv, BackupFile, Proceeds, Excused, InUse, Quiet
  <2>5. "doubled" \notin noted' => OneUpdate' /\ (exe' = "whole" \/ backup' = "whole")
    BY <1>30, <1>t, <1>q DEF FilesInv, BackupFile, Proceeds, OneUpdate, InUse
  <2> QED
    BY <2>1, <2>2, <2>3, <2>4, <2>5 DEF FilesInv
<1>31. ASSUME NEW u \in Updaters, DeleteOld(u) PROVE FilesInv'
  <2>1. InUse' => exe' = "whole"
    BY <1>31, <1>t, <1>q DEF FilesInv, DeleteOld, Proceeds, InUse
  <2>2. \A n \in Mains : Quiet(n)'
    BY <1>31, <1>t, <1>q DEF FilesInv, DeleteOld, Proceeds, Quiet
  <2>3. dest' = "part" => Excused' \/ \E n \in Mains : loading'[n] = "verify"
    BY <1>31, <1>t, <1>q DEF FilesInv, DeleteOld, Proceeds, Excused, Quiet
  <2>4. exe' = "part" \/ backup' = "part" => Excused'
    BY <1>31, <1>t, <1>q DEF FilesInv, DeleteOld, Proceeds, Excused, InUse, Quiet
  <2>5. "doubled" \notin noted' => OneUpdate' /\ (exe' = "whole" \/ backup' = "whole")
    BY <1>31, <1>t, <1>q DEF FilesInv, DeleteOld, Proceeds, OneUpdate, InUse
  <2> QED
    BY <2>1, <2>2, <2>3, <2>4, <2>5 DEF FilesInv
<1>32. ASSUME NEW u \in Updaters, MoveNew(u) PROVE FilesInv'
  <2>1. InUse' => exe' = "whole"
    BY <1>32, <1>t, <1>q DEF FilesInv, MoveNew, Proceeds, InUse
  <2>2. \A n \in Mains : Quiet(n)'
    BY <1>32, <1>t, <1>q DEF FilesInv, MoveNew, Proceeds, Quiet
  <2>3. dest' = "part" => Excused' \/ \E n \in Mains : loading'[n] = "verify"
    BY <1>32, <1>t, <1>q DEF FilesInv, MoveNew, Proceeds, Excused, Quiet
  <2>4. exe' = "part" \/ backup' = "part" => Excused'
    BY <1>32, <1>t, <1>q DEF FilesInv, MoveNew, Proceeds, Excused, InUse, Quiet
  <2>5. "doubled" \notin noted' => OneUpdate' /\ (exe' = "whole" \/ backup' = "whole")
    BY <1>32, <1>t, <1>q DEF FilesInv, MoveNew, Proceeds, OneUpdate, InUse
  <2> QED
    BY <2>1, <2>2, <2>3, <2>4, <2>5 DEF FilesInv
<1>33. ASSUME NEW u \in Updaters, Rollback(u) PROVE FilesInv'
  <2>1. InUse' => exe' = "whole"
    BY <1>33, <1>t, <1>q DEF FilesInv, Rollback, Proceeds, InUse
  <2>2. \A n \in Mains : Quiet(n)'
    BY <1>33, <1>t, <1>q DEF FilesInv, Rollback, Proceeds, Quiet
  <2>3. dest' = "part" => Excused' \/ \E n \in Mains : loading'[n] = "verify"
    BY <1>33, <1>t, <1>q DEF FilesInv, Rollback, Proceeds, Excused, Quiet
  <2>4. exe' = "part" \/ backup' = "part" => Excused'
    BY <1>33, <1>t, <1>q DEF FilesInv, Rollback, Proceeds, Excused, InUse, Quiet
  <2>5. "doubled" \notin noted' => OneUpdate' /\ (exe' = "whole" \/ backup' = "whole")
    BY <1>33, <1>t, <1>q DEF FilesInv, Rollback, Proceeds, OneUpdate, InUse
  <2> QED
    BY <2>1, <2>2, <2>3, <2>4, <2>5 DEF FilesInv
<1>34. ASSUME NEW u \in Updaters, StartProcess(u) PROVE FilesInv'
  <2>1. InUse' => exe' = "whole"
    BY <1>34, <1>t, <1>q DEF FilesInv, StartProcess, Proceeds, Launch, files, InUse
  <2>2. \A n \in Mains : Quiet(n)'
    BY <1>34, <1>t, <1>q DEF FilesInv, StartProcess, Proceeds, Launch, files, Quiet
  <2>3. dest' = "part" => Excused' \/ \E n \in Mains : loading'[n] = "verify"
    BY <1>34, <1>t, <1>q DEF FilesInv, StartProcess, Proceeds, Launch, files, Excused, Quiet
  <2>4. exe' = "part" \/ backup' = "part" => Excused'
    BY <1>34, <1>t, <1>q DEF FilesInv, StartProcess, Proceeds, Launch, files, Excused, InUse, Quiet
  <2>5. "doubled" \notin noted' => OneUpdate' /\ (exe' = "whole" \/ backup' = "whole")
    BY <1>34, <1>t, <1>q DEF FilesInv, StartProcess, Proceeds, Launch, files, OneUpdate, InUse
  <2> QED
    BY <2>1, <2>2, <2>3, <2>4, <2>5 DEF FilesInv
<1>35. ASSUME NEW u \in Updaters, StepFails(u) PROVE FilesInv'
  <2>1. InUse' => exe' = "whole"
    BY <1>35, <1>t, <1>q DEF FilesInv, StepFails, Proceeds, InUse
  <2>2. \A n \in Mains : Quiet(n)'
    BY <1>35, <1>t, <1>q DEF FilesInv, StepFails, Proceeds, Quiet
  <2>3. dest' = "part" => Excused' \/ \E n \in Mains : loading'[n] = "verify"
    BY <1>35, <1>t, <1>q DEF FilesInv, StepFails, Proceeds, Excused, Quiet
  <2>4. exe' = "part" \/ backup' = "part" => Excused'
    BY <1>35, <1>t, <1>q DEF FilesInv, StepFails, Proceeds, Excused, InUse, Quiet
  <2>5. "doubled" \notin noted' => OneUpdate' /\ (exe' = "whole" \/ backup' = "whole")
    BY <1>35, <1>t, <1>q DEF FilesInv, StepFails, Proceeds, OneUpdate, InUse
  <2> QED
    BY <2>1, <2>2, <2>3, <2>4, <2>5 DEF FilesInv
<1>36. ASSUME NEW u \in Updaters, UpdaterDies(u) PROVE FilesInv'
  <2>1. InUse' => exe' = "whole"
    BY <1>36, <1>t, <1>q DEF FilesInv, UpdaterDies, Proceeds, InUse
  <2>2. \A n \in Mains : Quiet(n)'
    BY <1>36, <1>t, <1>q DEF FilesInv, UpdaterDies, Proceeds, Quiet
  <2>3. dest' = "part" => Excused' \/ \E n \in Mains : loading'[n] = "verify"
    BY <1>36, <1>t, <1>q DEF FilesInv, UpdaterDies, Proceeds, Excused, Quiet
  <2>4. exe' = "part" \/ backup' = "part" => Excused'
    BY <1>36, <1>t, <1>q DEF FilesInv, UpdaterDies, Proceeds, Excused, InUse, Quiet
  <2>5. "doubled" \notin noted' => OneUpdate' /\ (exe' = "whole" \/ backup' = "whole")
    BY <1>36, <1>t, <1>q DEF FilesInv, UpdaterDies, Proceeds, OneUpdate, InUse
  <2> QED
    BY <2>1, <2>2, <2>3, <2>4, <2>5 DEF FilesInv
<1> QED
  BY <1>1, <1>2, <1>3, <1>4, <1>5, <1>6, <1>7, <1>8, <1>9, <1>10, <1>11, <1>12, <1>13, <1>14, <1>15, <1>16, <1>17, <1>18, <1>19, <1>20, <1>21, <1>22, <1>23, <1>24, <1>25, <1>26, <1>27, <1>28, <1>29, <1>30, <1>31, <1>32, <1>33, <1>34, <1>35, <1>36, UndisturbedStep DEF Next, Opening, Dispatch, Fetch, People, Watch, Update

LEMMA FilesInit == Init => FilesInv
<1> SUFFICES ASSUME Init PROVE FilesInv
  OBVIOUS
<1>1. /\ exe = "whole" /\ backup = "absent" /\ dest = "absent"
      /\ \A u \in Updaters : updater[u] = "none"
      /\ \A m \in Mains : loading[m] = "idle"
  BY DEF Init
<1> QED
  BY <1>1 DEF FilesInv, Quiet, OneUpdate

-----------------------------------------------------------------------------
(* The watchdog while an update is under way                                 *)

\* A process that will tell the watchdog when it ends: nobody has told its
\* window to close, as the one who installs does after telling it.
Guards(m) == main[m] \in {"opening", "up"} /\ "close" \notin posted[m]

\* A watchdog that was told to exit will; else some window is open that tells
\* it, or that its mutex keeps from starting anything.
WatchInv ==
  /\ exitSet => daemon \in {"watching", "delay", "starting", "stopping"}
  /\ ((\E u \in Updaters : updater[u] # "none") /\ noted \cap {"lost", "crashed"} = {}) =>
       /\ daemon # "starting"
       /\ daemon \in {"none", "stopping"} \/ exitSet \/ \E m \in Mains : Guards(m)

LEMMA WatchInit == Init => WatchInv
  BY DEF Init, WatchInv

LEMMA SignalIs ==
  ASSUME NEW other, SignalDaemonExit(other)
  PROVE  /\ daemon \in {"watching", "delay", "starting"} => exitSet'
         /\ daemon \notin {"watching", "delay", "starting"} => (exitSet' <=> exitSet)
         /\ (daemon \in {"new", "starting"}) => "lost" \in noted'
         /\ noted \subseteq noted'
<1>1. exitSet' = (exitSet \/ daemon \in {"watching", "delay", "starting"})
  BY DEF SignalDaemonExit
<1>2. /\ daemon \in {"watching", "delay", "starting"} => exitSet'
      /\ daemon \notin {"watching", "delay", "starting"} => (exitSet' <=> exitSet)
  BY <1>1, Zenon
<1> QED
  BY <1>1, <1>2 DEF SignalDaemonExit

LEMMA Signalled ==
  ASSUME AgentTypeOK, WatchInv, NEW other, SignalDaemonExit(other), UNCHANGED daemon
  PROVE  WatchInv'
<1>1. daemon \in DaemonStates
  BY DEF AgentTypeOK
<1>2. /\ daemon \in {"watching", "delay", "starting"} => exitSet'
      /\ daemon \notin {"watching", "delay", "starting"} => (exitSet' <=> exitSet)
      /\ (daemon \in {"new", "starting"}) => "lost" \in noted'
  BY SignalIs
<1> QED
  BY <1>1, <1>2 DEF WatchInv, DaemonStates

LEMMA WatchStep == AgentTypeOK /\ WatchInv /\ [Next]_agentVars => WatchInv'
<1> SUFFICES ASSUME AgentTypeOK, WatchInv, [Next]_agentVars PROVE WatchInv'
  OBVIOUS
<1>t. /\ main \in [Mains -> MainSteps] /\ updater \in [Updaters -> UpdaterSteps]
      /\ posted \in [Mains -> SUBSET {"exit", "close", "quit"}]
      /\ daemon \in DaemonStates /\ exitSet \in BOOLEAN
      /\ \A m \in Mains : main[m] # "up" => posted[m] = {}
  BY DEF AgentTypeOK
<1> USE DEF WatchInv, Guards, windowVars, watchVars, files
<1>1. ASSUME NEW m \in Mains, UserStarts(m) PROVE WatchInv'
  BY <1>1, <1>t DEF UserStarts, Launch
<1>2. ASSUME NEW m \in Mains, CreateMutex(m) PROVE WatchInv'
  BY <1>2, <1>t DEF CreateMutex, Moves
<1>3. ASSUME NEW m \in Mains, MutexAcquired(m) PROVE WatchInv'
  BY <1>3, <1>t DEF MutexAcquired, Moves
<1>4. ASSUME NEW m \in Mains, Refused(m) PROVE WatchInv'
  BY <1>4, <1>t DEF Refused, Moves
<1>5. ASSUME NEW m \in Mains, Dismissed(m) PROVE WatchInv'
  BY <1>5, <1>t DEF Dismissed, Moves
<1>6. ASSUME NEW m \in Mains, StartDaemonIfNeeded(m) PROVE WatchInv'
  BY <1>6, <1>t DEF StartDaemonIfNeeded, Moves, StartDaemon
<1>7. ASSUME NEW m \in Mains, OpensWindow(m) PROVE WatchInv'
  BY <1>7, <1>t DEF OpensWindow, Moves
<1>8. ASSUME NEW m \in Mains, TrayExit(m) PROVE WatchInv'
  BY <1>8, Signalled DEF TrayExit
<1>9. ASSUME NEW m \in Mains, ExitCommand(m) PROVE WatchInv'
  BY <1>9, Signalled DEF ExitCommand
<1>10. ASSUME NEW m \in Mains, HttpExit(m) PROVE WatchInv'
  BY <1>10, <1>t DEF HttpExit
<1>11. ASSUME NEW m \in Mains, LoopEnds(m) PROVE WatchInv'
  BY <1>11, <1>t DEF LoopEnds, LeavesLoop
<1>12. ASSUME NEW m \in Mains, WindowCloses(m) PROVE WatchInv'
  BY <1>12, <1>t DEF WindowCloses, LeavesLoop
<1>13. ASSUME NEW m \in Mains, Ends(m) PROVE WatchInv'
  BY <1>13, <1>t DEF Ends, Moves
<1>14. ASSUME NEW m \in Mains, Fails(m) PROVE WatchInv'
  BY <1>14, <1>t DEF Fails
<1>15. ASSUME NEW m \in Mains, SetDaemonEnabled(m) PROVE WatchInv'
  BY <1>15, <1>t, SignalIs DEF SetDaemonEnabled, TakesInput
<1>16. ASSUME NEW m \in Mains, DownloadUpdate(m) PROVE WatchInv'
  BY <1>16, <1>t DEF DownloadUpdate, TakesInput
<1>17. ASSUME NEW m \in Mains, FetchFails(m) PROVE WatchInv'
  BY <1>17, <1>t DEF FetchFails
<1>18. ASSUME NEW m \in Mains, FetchEnds(m) PROVE WatchInv'
  BY <1>18, <1>t DEF FetchEnds, Asks
<1>19. ASSUME NEW m \in Mains, Verify(m) PROVE WatchInv'
  BY <1>19, <1>t DEF Verify, Asks
<1>20. ASSUME NEW m \in Mains, Install(m) PROVE WatchInv'
  BY <1>20, Signalled DEF Install
<1>21. ASSUME NEW m \in Mains, InstallFails(m) PROVE WatchInv'
  BY <1>21, Signalled DEF InstallFails
<1>22. ASSUME DaemonBegins PROVE WatchInv'
  BY <1>22, <1>t DEF DaemonBegins, DaemonSteps
<1>23. ASSUME DaemonStops PROVE WatchInv'
  BY <1>23, <1>t DEF DaemonStops, DaemonSteps
<1>24. ASSUME DaemonMisses PROVE WatchInv'
  BY <1>24, <1>t DEF DaemonMisses, DaemonSteps
<1>25. ASSUME DelayOver PROVE WatchInv'
  BY <1>25, <1>t DEF DelayOver, DaemonSteps, IsMainRunning, Owning
<1>26. ASSUME StartMainProcess PROVE WatchInv'
  BY <1>26, <1>t DEF StartMainProcess, DaemonSteps, Launch
<1>27. ASSUME DaemonEnds PROVE WatchInv'
  BY <1>27, <1>t DEF DaemonEnds, DaemonSteps
<1>28. ASSUME NEW u \in Updaters, WaitForProcessExit(u) PROVE WatchInv'
  BY <1>28, <1>t DEF WaitForProcessExit, Proceeds, InUse
<1>29. ASSUME NEW u \in Updaters, BackupFile(u) PROVE WatchInv'
  BY <1>29, <1>t DEF BackupFile, Proceeds
<1>30. ASSUME NEW u \in Updaters, DeleteOld(u) PROVE WatchInv'
  BY <1>30, <1>t DEF DeleteOld, Proceeds
<1>31. ASSUME NEW u \in Updaters, MoveNew(u) PROVE WatchInv'
  BY <1>31, <1>t DEF MoveNew, Proceeds
<1>32. ASSUME NEW u \in Updaters, Rollback(u) PROVE WatchInv'
  BY <1>32, <1>t DEF Rollback, Proceeds
<1>33. ASSUME NEW u \in Updaters, StartProcess(u) PROVE WatchInv'
  BY <1>33, <1>t DEF StartProcess, Proceeds, Launch
<1>34. ASSUME NEW u \in Updaters, StepFails(u) PROVE WatchInv'
  BY <1>34, <1>t DEF StepFails, Proceeds
<1>35. ASSUME NEW u \in Updaters, UpdaterDies(u) PROVE WatchInv'
  BY <1>35, <1>t DEF UpdaterDies, Proceeds
<1>36. ASSUME UNCHANGED agentVars PROVE WatchInv'
  BY <1>36 DEF agentVars
<1> QED
  BY <1>1, <1>2, <1>3, <1>4, <1>5, <1>6, <1>7, <1>8, <1>9, <1>10, <1>11, <1>12, <1>13, <1>14, <1>15, <1>16, <1>17, <1>18, <1>19, <1>20, <1>21, <1>22, <1>23, <1>24, <1>25, <1>26, <1>27, <1>28, <1>29, <1>30, <1>31, <1>32, <1>33, <1>34, <1>35, <1>36
  DEF Next, Opening, Dispatch, Fetch, People, Watch, Update

-----------------------------------------------------------------------------
(* The theorems                                                              *)

\* The variables keep their types, boxes and messages their windows, and the
\* mutex lets one process past it (WinMain).
THEOREM AgentTypes == Spec => []AgentTypeOK
  BY TypeInit, TypeStep, PTL DEF Spec

LEMMA FilesAlways == Spec => []FilesInv
<1>1. AgentTypeOK /\ AgentTypeOK' /\ FilesInv /\ [Next]_agentVars => FilesInv'
  BY FilesStep
<1> QED
  BY <1>1, FilesInit, AgentTypes, PTL DEF Spec

\* However many processes start, crash or exit, and whatever step of the
\* update fails: the program or its backup is whole, while one updater works
\* at a time (updater.cpp).
THEOREM OldVersionSurvives == Spec => []CanBeRestored
<1>1. FilesInv => CanBeRestored
  BY DEF FilesInv, CanBeRestored
<1> QED
  BY <1>1, FilesAlways, PTL

\* A program that is not whole was installed from a download without a hash, or
\* after a crash (downloadFileInternal, ReplaceFile, Rollback).
THEOREM BrokenIsExcused == Spec => []InstalledIsWhole
<1>1. FilesInv => InstalledIsWhole
  BY DEF FilesInv, InstalledIsWhole, Excused
<1> QED
  BY <1>1, FilesAlways, PTL

\* While an updater is past its wait the watchdog does not start the program,
\* but when it was told too late, or not at all, or a process crashed
\* (SignalDaemonExit, IsMainRunning, PerformUpdate).
THEOREM WatchdogLeavesUpdate == Spec => []UpdateIsLeftAlone
<1>1. WatchInv => UpdateIsLeftAlone
  BY DEF WatchInv, UpdateIsLeftAlone
<1>2. AgentTypeOK /\ AgentTypeOK' /\ WatchInv /\ [Next]_agentVars => WatchInv'
  BY WatchStep
<1> QED
  BY <1>1, <1>2, WatchInit, AgentTypes, PTL DEF Spec

=============================================================================
