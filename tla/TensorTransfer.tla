--------------------------- MODULE TensorTransfer ---------------------------
(* Pulls and pushes of models with tensor layers, by one server that may be  *)
(* restarted (PullModel, PushModel).                                         *)
EXTENDS TensorPull, TensorPush

tensorVars == <<transferVars, pullVars, pushVars>>

TensorInit == TransferInit /\ PullInit /\ PushInit

\* A crash, or the user stops the server.  Finished jobs are past.
Restart ==
  /\ Fault
  /\ job' = [j \in Jobs |-> IF job[j].phase = "ok" THEN job[j]
                            ELSE [job[j] EXCEPT !.phase = "idle", !.cancelled = FALSE,
                                                !.already = 0, !.completed = 0]]
  /\ task' = [w \in Tasks |-> IF job[w[1]].phase = "ok" THEN task[w] ELSE NewTask]
  /\ PullRestart /\ PushRestart

TensorNext ==
  \/ PullNext /\ UNCHANGED pushVars
  \/ PushNext /\ UNCHANGED pullVars
  \/ (\E j \in Jobs : TokenExpires(j) \/ ClientLeaves(j)) /\ UNCHANGED <<pullVars, pushVars>>
  \/ Restart

TensorSpec == TensorInit /\ [][TensorNext]_tensorVars

\* Tasks and the jobs that wait for them go on; a request is answered, a body
\* arrives unless its connection falls silent.
TensorFairness ==
  /\ \A w \in Tasks :
       /\ WF_tensorVars(w \in PullTasks /\ PullStep(w) /\ UNCHANGED pushVars)
       /\ WF_tensorVars(w \in PushTasks /\ PushStep(w) /\ UNCHANGED pullVars)
  /\ \A j \in Jobs :
       /\ WF_tensorVars((Wait(j) \/ WriteManifest(j)) /\ UNCHANGED pushVars)
       /\ WF_tensorVars((StartUploads(j) \/ UploadsEnd(j) \/ PushManifest(j)) /\ UNCHANGED pullVars)

TensorFairSpec == TensorSpec /\ TensorFairness

=============================================================================
