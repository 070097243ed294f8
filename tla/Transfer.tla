------------------------------ MODULE Transfer ------------------------------
(* What the downloads and uploads of package x/transfer have in common.  A   *)
(* job is a call of Download or Upload: it works on several blobs at once,   *)
(* one task each, under an errgroup.  The tasks of a job share its context,  *)
(* its progress, its token and its slots.                                    *)
EXTENDS Integers, FiniteSets

CONSTANTS
  Jobs, Blobs,
  Size,            \* units of data in a blob
  Concurrency,     \* tasks of a job that work at a time
  BodyConcurrency, \* tasks of a job that move a body at a time
  MaxRetries,
  Workloads        \* bounds: what the jobs may be asked for, and how much may go
                   \* wrong, clients that leave included

ASSUME TransferAssumption ==
  /\ IsFiniteSet(Blobs) /\ Size \in Nat \ {0} /\ MaxRetries \in Nat \ {0}
  /\ Workloads \subseteq
       [jobs : [Jobs -> [kind : {"pull", "push"}, layers : SUBSET Blobs]], faults : Nat]

VARIABLES
  job,    \* the jobs: what they are asked for, where they are, what they share
  task,   \* the tasks: where they are, what they report
  faults  \* how much may still go wrong

transferVars == <<job, task, faults>>

Tasks == Jobs \X Blobs
TasksOf(j) == {j} \X job[j].layers

\* n: bytes reported for the present attempt; prev: the token of the last
\* request; back: where a refreshed token is used.
NewTask == [pc |-> "none", attempt |-> 0, n |-> 0, slot |-> FALSE, err |-> "none",
            prev |-> 0, back |-> "none"]

TransferInit ==
  /\ \E load \in Workloads :
       /\ faults = load.faults
       /\ job = [j \in Jobs |-> [kind |-> load.jobs[j].kind, layers |-> load.jobs[j].layers,
                                 phase |-> "idle", cancelled |-> FALSE,
                                 already |-> 0, completed |-> 0, token |-> 0, valid |-> 0]]
  /\ task = [w \in Tasks |-> NewTask]

Fault == faults > 0 /\ faults' = faults - 1

\* Some steps go right, or wrong as one of the faults.
Right == UNCHANGED faults

At(w, pc) == task[w].pc = pc
Goto(w, pc) == task' = [task EXCEPT ![w].pc = pc]

\* progressTracker.add, of a number that may be negative.
Add(j, k) == job' = [job EXCEPT ![j].completed = @ + k]

\* The error of a task cancels the others of its job.
Failed(w, err) == [task[w] EXCEPT !.pc = "ended", !.slot = FALSE, !.err = err]
Cancelled(j) == [job[j] EXCEPT !.cancelled = TRUE]

-----------------------------------------------------------------------------
(* Slots, tokens, pauses.  What else a task keeps does not matter to them.   *)

Idle == {"none", "queued", "checked", "ended"}

SemAcquire(w, pc) ==
  /\ At(w, "queued") /\ ~ job[w[1]].cancelled
  /\ Cardinality({v \in TasksOf(w[1]) : task[v].pc \notin Idle}) < Concurrency
  /\ Goto(w, pc) /\ UNCHANGED <<job, faults>>

SemCancelled(w) ==
  /\ At(w, "queued") /\ job[w[1]].cancelled
  /\ task' = [task EXCEPT ![w] = Failed(w, "cancelled")] /\ UNCHANGED <<job, faults>>

HoldBody(w, from, pc) ==
  /\ At(w, from) /\ ~ job[w[1]].cancelled
  /\ Cardinality({v \in TasksOf(w[1]) : task[v].slot}) < BodyConcurrency
  /\ task' = [task EXCEPT ![w] = [@ EXCEPT !.pc = pc, !.slot = TRUE]]
  /\ UNCHANGED <<job, faults>>

\* A request with the token of the job: it is taken, or answered with 401.
Authorized(w) == job[w[1]].token >= job[w[1]].valid
Unauthorized(w, back) ==
  /\ ~ Authorized(w)
  /\ task' = [task EXCEPT ![w] = [@ EXCEPT !.pc = "refresh", !.back = back,
                          !.prev = job[w[1]].token]]

\* Mutant for TokensAreShared: each caller asks.
RefreshAlways(w) ==
  /\ At(w, "refresh") /\ \A b \in Blobs : task[<<w[1], b>>].pc # "getToken"
  /\ Goto(w, "getToken") /\ UNCHANGED <<job, faults>>

\* refreshToken: the caller that holds tokenMu asks for a token, unless there is
\* another one by now than the one that was refused.
RefreshToken(w) ==
  /\ At(w, "refresh") /\ \A b \in Blobs : task[<<w[1], b>>].pc # "getToken"
  /\ Goto(w, IF job[w[1]].token = task[w].prev THEN "getToken" ELSE task[w].back)
  /\ UNCHANGED <<job, faults>>

GetToken(w) ==
  /\ At(w, "getToken") /\ Goto(w, task[w].back)
  /\ job' = [job EXCEPT ![w[1]].token = @ + 1] /\ Right

BackedOff(w, pc) ==
  /\ At(w, "backoff") /\ ~ job[w[1]].cancelled /\ Goto(w, pc) /\ UNCHANGED <<job, faults>>

BackoffCancelled(w) ==
  /\ At(w, "backoff") /\ job[w[1]].cancelled
  /\ task' = [task EXCEPT ![w] = Failed(w, "cancelled")] /\ UNCHANGED <<job, faults>>

-----------------------------------------------------------------------------
(* The registry stops taking the token; the client of a job leaves.          *)

TokenExpires(j) ==
  /\ job[j].phase # "idle" /\ job[j].token = job[j].valid /\ Fault
  /\ job' = [job EXCEPT ![j].valid = @ + 1] /\ UNCHANGED task

ClientLeaves(j) ==
  /\ job[j].phase \in {"checking", "running"} /\ ~ job[j].cancelled /\ Fault
  /\ job' = [job EXCEPT ![j] = Cancelled(j)] /\ UNCHANGED task

=============================================================================
