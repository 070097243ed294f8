--------------------------- MODULE LlamaServerProps ---------------------------
(* What one runner owes to the scheduler and to its clients.                 *)
EXTENDS LlamaServer

LoadSteps == {"begin", "look", "poll", "judge", "stop", "stopping", "reset", "start",
              "assign", "serving", "failed"}

\* The type invariant, and which goroutine a step of the load belongs to.
ServerTypeOK ==
  /\ \A g \in Gens : /\ state[g] \in {"none", "loading", "ready", "dying", "gone"}
                     /\ reap[g] \in {"none", "waiting", "copying", "done"}
  /\ cur \in Gens /\ counted \subseteq seen /\ seen \subseteq Buffers
  /\ load \in LoadSteps /\ stage \in {"first", "confirm"}
  /\ cur = 2 => retried
  /\ reap[cur] # "none"
  /\ \A r \in Requests : closer[r] # "idle" => comp[r] \in {"cut", Ended}

\* A runner never has two processes: the retry with the projector on the CPU
\* begins when the first process is gone, though an error may be reported
\* while that process still runs (retryWithMMProjCPUOffload).
OneProcess == Cardinality({g \in Gens : Alive(g)}) <= 1

\* Once a Close has returned no process of the runner is left, nor comes back,
\* unless the runner was closed while the load was starting it again.
ClosedMeansStopped ==
  (\E c \in Closers : closer[c] = "closed") =>
    \/ overtaken \/ load \in {"judge", "stop", "stopping", "reset", "start", "assign"}
    \/ \A g \in Gens : ~ Alive(g)

\* A load fails for lack of memory only if the process it waits for said so,
\* unless the output of the first one was still being read when the errors
\* were reset: the retry is judged by its own output (resetLoadAccounting).
VerdictIsOwn ==
  result = "oom" /\ load \in {"judge", "failed"} /\ ~ mixed =>
    "oom" \in said[cur]

\* What the current process has reported of its memory is counted, also when
\* the counts were reset for it (memoryParsingWriter, resetLoadAccounting).
ReportedMemoryIsCounted ==
  (retried => cur = 2) =>
  \A b \in said[cur] \cap Buffers :
    \/ b \in counted
    \/ \E i \in 1 .. Len(pipe[cur]) : pipe[cur][i] = b

\* Nobody waits for ever.  A load ends, ready or with an error, though its
\* process may stall, die or print, as long as its health does not change for
\* ever; everyone who closes the runner returns; a request gets a slot and then
\* an answer or an error, whoever closes the runner or dies meanwhile.
CallsReturn ==
  /\ (load = "begin") ~> (load \in {"serving", "failed"})
  /\ \A c \in Closers : (closer[c] = "killed") ~> (closer[c] = "closed" \/ overtaken)
  /\ \A r \in Requests : (comp[r] = "queued") ~> (comp[r] = Ended)

=============================================================================
