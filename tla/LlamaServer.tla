----------------------------- MODULE LlamaServer -----------------------------
(* One llamaServerRunner (llm/llama_server.go, llm/status.go): the           *)
(* llama-server process it starts, the goroutine that reaps it, what is read *)
(* from its output, the load that waits for it and may start it again with   *)
(* the projector on the CPU, the requests it serves, and those who close it. *)
(*                                                                           *)
(* The scheduler calls Load, then WaitUntilRunning once more, grants the     *)
(* runner to requests and closes it; at shutdown it closes it at any time.   *)
EXTENDS Integers, Sequences, FiniteSets

CONSTANTS
  Requests,           \* completions and embeddings
  Slots,              \* numParallel
  None,
  Limits              \* bounds a behaviour may have: the lines its processes print,
                      \* how often a health changes to "loading model", the requests,
                      \* and the calls of Close that are not a request's

ASSUME ServerAssumption ==
  /\ Slots \in Nat \ {0} /\ Requests \cap {"unload", "shutdown"} = {}
  /\ Limits \subseteq [lines : Nat, flaps : Nat, requests : Nat, closes : Nat]

\* The first process and the one that replaces it.
Gens == 1 .. 2

\* What a line of output may be: a buffer of the text model or the projector
\* in GPU memory, out of memory, out of memory "retrying without pipeline
\* parallelism", or another error.
Buffers == {"text", "proj"}
Lines == Buffers \cup {"oom", "soft", "error"}
Memory(line) == IF line \in Buffers THEN {line} ELSE IF line = "error" THEN {} ELSE {"oom"}

\* Who calls Close: the scheduler when it unloads the runner or when it failed
\* to load, the shutdown, a completion whose stream broke.
Closers == {"unload", "shutdown"} \cup Requests

VARIABLES
  state,   \* of the processes
  pipe,    \* the lines of their output that have not been read
  reap,    \* their reapers: "waiting", "copying" (ProcessState is set, the rest
           \* of the output is copied), "done" (the channel is closed)
  said,    \* not in the code: what they said of memory
  cur,     \* the process that cmd, port and done belong to
  error,   \* StatusWriter.lastErrMsg
  seen,    \* memoryParsingWriter.buffers
  counted, \* vramByDevice
  retried, \* mmprojOffloadOOMRetried
  projector, \* whether the model has a projector, on the GPU
  load,    \* where the goroutine that loads is
  stage,   \* "first" in Load, "confirm" in the scheduler's second wait
  result,  \* of the wait
  loop,    \* fresh (output since it last looked), late (the deadline is over),
           \* loading (lastStatus is "loading model")
  left,    \* what is left of the bounds
  comp,    \* the requests
  closer,  \* where those who close are
  awaited, \* the process whose done they wait for
  mixed,     \* not in the code: the output of the first process was not
             \* read to its end when the accounting was reset
  overtaken  \* not in the code: a process was started after a Close had begun

processVars == <<state, pipe, reap, said>>
runnerVars == <<cur, error, seen, counted, retried, projector>>
closerVars == <<closer, awaited>>
loadVars == <<load, stage, result, loop>>
ghosts == <<mixed, overtaken>>
serverVars == <<processVars, runnerVars, loadVars, left, comp, closerVars, ghosts>>

Alive(g) == state[g] \in {"loading", "ready", "dying"}

\* s.cmd.ProcessState != nil
Exited(g) == reap[g] \in {"copying", "done"}

\* Errors, as what the code asks of their text: "oom" says out of memory,
\* "soft" does and ends with a recoverable line, "none" does not
\* (IsOutOfMemoryMessage, isRecoverableOutOfMemoryMessage).
OutOfMemory(text) == text \in {"oom", "soft"}
Recoverable(text) == text = "soft"

\* AppendError: any further error makes the last line another.
WithError(text, line) ==
  IF line = "error" /\ text = "none" THEN "none" ELSE IF line = "soft" THEN "soft" ELSE "oom"

Ended == "ended"

Init ==
  /\ state = [g \in Gens |-> IF g = 1 THEN "loading" ELSE "none"]
  /\ reap = [g \in Gens |-> IF g = 1 THEN "waiting" ELSE "none"]
  /\ pipe = [g \in Gens |-> <<>>] /\ said = [g \in Gens |-> {}]
  /\ cur = 1 /\ retried = FALSE /\ projector \in BOOLEAN
  /\ error = "none" /\ seen = {} /\ counted = {}
  /\ load = "begin" /\ stage = "first" /\ result = None
  /\ loop = [fresh |-> FALSE, late |-> FALSE, loading |-> FALSE]
  /\ left \in Limits
  /\ comp = [r \in Requests |-> "new"]
  /\ closer = [c \in Closers |-> "idle"] /\ awaited = [c \in Closers |-> None]
  /\ mixed = FALSE /\ overtaken = FALSE

-----------------------------------------------------------------------------
(* The process and its output                                                *)

\* It prints a line; a projector on the CPU has no buffer on the GPU.
Says(g, line) ==
  /\ state[g] \in {"loading", "ready"} /\ left.lines > 0
  /\ line = "proj" => projector /\ g = 1
  /\ pipe' = [pipe EXCEPT ![g] = Append(@, line)]
  /\ said' = [said EXCEPT ![g] = @ \cup Memory(line)]
  /\ left' = [left EXCEPT !.lines = @ - 1]
  /\ UNCHANGED <<state, reap, runnerVars, loadVars, comp, closerVars, ghosts>>

BecomesReady(g) ==
  /\ state[g] = "loading"
  /\ state' = [state EXCEPT ![g] = "ready"]
  /\ UNCHANGED <<pipe, reap, said, runnerVars, loadVars, left, comp, closerVars, ghosts>>

\* It exits, crashes, or a signal takes effect.
Dies(g) ==
  /\ Alive(g)
  /\ state' = [state EXCEPT ![g] = "gone"]
  /\ UNCHANGED <<pipe, reap, said, runnerVars, loadVars, left, comp, closerVars, ghosts>>

\* os/exec copies a line: memoryParsingWriter.Write, then StatusWriter.Write.
\* Both processes share the writers.
Copy(g) ==
  /\ pipe[g] # <<>>
  /\ LET line == Head(pipe[g])
     IN \/ /\ line \in Buffers /\ UNCHANGED error
           /\ seen' = seen \cup {line} /\ counted' = seen'
        \/ /\ line \notin Buffers /\ UNCHANGED <<seen, counted>>
           /\ error' = WithError(error, line)
  /\ pipe' = [pipe EXCEPT ![g] = Tail(@)]
  /\ loop' = [loop EXCEPT !.fresh = @ \/ load \in {"look", "poll"}]
  /\ UNCHANGED <<state, reap, said, cur, retried, projector, load, stage, result,
                 left, comp, closerVars, ghosts>>

\* cmd.Wait: first the process, then what is left in the pipe.
WaitedFor(g) ==
  /\ reap[g] = "waiting" /\ state[g] = "gone"
  /\ reap' = [reap EXCEPT ![g] = "copying"]
  /\ UNCHANGED <<state, pipe, said, runnerVars, loadVars, left, comp, closerVars, ghosts>>

\* The goroutine of startProcess, once cmd.Wait has returned.  doneErr is left
\* out: what it says of memory, lastErrMsg says as well.
CloseDone(g) ==
  /\ reap[g] = "copying" /\ pipe[g] = <<>>
  /\ reap' = [reap EXCEPT ![g] = "done"]
  /\ UNCHANGED <<state, pipe, said, runnerVars, loadVars, left, comp, closerVars, ghosts>>

-----------------------------------------------------------------------------
(* WaitUntilRunning                                                          *)

\* It starts load tracking anew.
BeginWait ==
  /\ load = "begin" /\ load' = "look"
  /\ loop' = [fresh |-> FALSE, late |-> FALSE, loading |-> FALSE]
  /\ UNCHANGED <<processVars, runnerVars, stage, result, left, comp, closerVars, ghosts>>

\* OLLAMA_LOAD_TIMEOUT passes without output that is new to the loop.
TimePasses ==
  /\ load \in {"look", "poll"} /\ ~ loop.fresh /\ ~ loop.late
  /\ loop' = [loop EXCEPT !.late = TRUE]
  /\ UNCHANGED <<processVars, runnerVars, load, stage, result, left, comp, closerVars, ghosts>>

\* WaitUntilRunning fails, with text in its error.
Fail(text) ==
  /\ load' = "judge" /\ result' = IF OutOfMemory(text) THEN "oom" ELSE "other"
  /\ UNCHANGED loop

\* The client of the load has left: ctx.Done.
Abandon ==
  /\ load = "look" /\ Fail("none")
  /\ UNCHANGED <<processVars, runnerVars, stage, left, comp, closerVars, ghosts>>

\* The top of the loop: done, activity, deadline, ProcessState.
Look ==
  /\ load = "look"
  /\ IF Exited(cur) \/ (loop.late /\ ~ loop.fresh) THEN Fail(error)
     ELSE /\ load' = "poll" /\ UNCHANGED result
          /\ loop' = [fresh |-> FALSE, late |-> loop.late /\ ~ loop.fresh,
                      loading |-> loop.loading]
  /\ UNCHANGED <<processVars, runnerVars, stage, left, comp, closerVars, ghosts>>

\* getServerStatus: what GET /health may come to, and what an error says.
Health(g) ==
  IF Exited(g) THEN {<<"error", error>>}
  ELSE CASE state[g] = "ready"   -> {<<"ok", "none">>, <<"no slot", "none">>,
                                     <<"not responding", "none">>, <<"error", "none">>}
         [] state[g] = "loading" -> {<<"loading", "none">>, <<"not responding", "none">>,
                                     <<"error", "none">>, <<"error", "oom">>}
         [] OTHER                -> {<<"not responding", "none">>, <<"error", "none">>}

\* Mutant: every "loading model" moves the deadline.
PollLoadingAlways ==
  /\ load = "poll" /\ <<"loading", "none">> \in Health(cur)
  /\ ~ loop.loading => left.flaps > 0
  /\ left' = [left EXCEPT !.flaps = IF loop.loading THEN @ ELSE @ - 1]
  /\ load' = "look" /\ loop' = [fresh |-> FALSE, late |-> FALSE, loading |-> TRUE]
  /\ UNCHANGED <<processVars, runnerVars, stage, result, comp, closerVars, ghosts>>

\* The deadline moves when the status becomes "loading model", not while it
\* stays so.
PollLoading ==
  /\ load = "poll" /\ <<"loading", "none">> \in Health(cur)
  /\ ~ loop.loading => left.flaps > 0
  /\ left' = [left EXCEPT !.flaps = IF loop.loading THEN @ ELSE @ - 1]
  /\ load' = "look"
  /\ loop' = [fresh |-> loop.fresh /\ loop.loading, late |-> loop.late /\ loop.loading,
              loading |-> TRUE]
  /\ UNCHANGED <<processVars, runnerVars, stage, result, comp, closerVars, ghosts>>

PollOther(status) ==
  /\ load = "poll" /\ <<status, "none">> \in Health(cur)
  /\ load' = "look" /\ loop' = [loop EXCEPT !.loading = FALSE]
  /\ UNCHANGED <<processVars, runnerVars, stage, result, left, comp, closerVars, ghosts>>

\* An error ends the wait if it, or what was printed, says out of memory and
\* the last of it is not recoverable.
PollError(text) ==
  /\ load = "poll" /\ <<"error", text>> \in Health(cur)
  /\ said' = IF text = "oom" /\ ~ Exited(cur) THEN [said EXCEPT ![cur] = @ \cup {"oom"}] ELSE said
  /\ IF /\ ~ Recoverable(error) /\ ~ Recoverable(text)
        /\ OutOfMemory(error) \/ OutOfMemory(text)
     THEN Fail("oom")
     ELSE load' = "look" /\ loop' = [loop EXCEPT !.loading = FALSE] /\ UNCHANGED result
  /\ UNCHANGED <<state, pipe, reap, runnerVars, stage, left, comp, closerVars, ghosts>>

\* WaitUntilRunning returns; Load does, or the scheduler's second wait.
PollReady ==
  /\ load = "poll" /\ <<"ok", "none">> \in Health(cur)
  /\ error' = "none"
  /\ \/ stage = "first" /\ stage' = "confirm" /\ load' = "begin" /\ UNCHANGED result
     \/ stage = "confirm" /\ load' = "serving" /\ result' = "ok" /\ UNCHANGED stage
  /\ UNCHANGED <<processVars, cur, seen, counted, retried, projector, loop, left, comp, closerVars, ghosts>>

-----------------------------------------------------------------------------
(* Load: once more with the projector on the CPU                             *)

MayRetry == stage = "first" /\ result = "oom" /\ ~ retried /\ projector

\* Mutant: it is not noted that the load was retried.
JudgeForgets ==
  /\ load = "judge" /\ load' = IF MayRetry THEN "stop" ELSE "failed"
  /\ UNCHANGED <<processVars, runnerVars, stage, result, loop, left, comp, closerVars, ghosts>>

\* Load, or the scheduler's second wait, returns the error.
Judge ==
  /\ load = "judge" /\ load' = IF MayRetry THEN "stop" ELSE "failed"
  /\ retried' = (retried \/ MayRetry)
  /\ UNCHANGED <<processVars, cur, error, seen, counted, projector, stage, result, loop, left,
                 comp, closerVars, ghosts>>

\* stopProcess kills a process that it does not know to have exited.
Kill(g) ==
  state' = [state EXCEPT ![g] = IF Alive(g) THEN "dying" ELSE @]

\* Mutant: the retry does not stop the process that reported the error.
RetryWithoutStop ==
  /\ load = "stop" /\ load' = "reset"
  /\ UNCHANGED <<processVars, runnerVars, stage, result, loop, left, comp, closerVars, ghosts>>

\* retryWithMMProjCPUOffload: stopProcess.
RetryStops ==
  /\ load = "stop"
  /\ \/ Exited(cur) /\ load' = "reset" /\ UNCHANGED state
     \/ ~ Exited(cur) /\ load' = "stopping" /\ Kill(cur)
  /\ UNCHANGED <<pipe, reap, said, runnerVars, stage, result, loop, left, comp, closerVars, ghosts>>

RetryStopped ==
  /\ load = "stopping" /\ reap[cur] = "done" /\ load' = "reset"
  /\ UNCHANGED <<processVars, runnerVars, stage, result, loop, left, comp, closerVars, ghosts>>

\* Mutant: the errors of the first process stay.
ResetMemoryOnly ==
  /\ load = "reset" /\ load' = "start"
  /\ counted' = {}
  /\ mixed' = (reap[cur] # "done")
  /\ UNCHANGED <<processVars, cur, error, seen, retried, projector, stage, result, loop, left,
                 comp, closerVars, overtaken>>

\* resetLoadAccounting; the writer keeps its own buffers.
ResetLoadAccounting ==
  /\ load = "reset" /\ load' = "start"
  /\ error' = "none" /\ counted' = {}
  /\ mixed' = (reap[cur] # "done")
  /\ UNCHANGED <<processVars, cur, seen, retried, projector, stage, result, loop, left,
                 comp, closerVars, overtaken>>

\* startProcess: the process runs before cmd, port and done are those of it.
StartProcess ==
  /\ load = "start"
  /\ \/ load' = "assign" /\ state' = [state EXCEPT ![2] = "loading"]
     \/ load' = "failed" /\ UNCHANGED state
  /\ UNCHANGED <<pipe, reap, said, runnerVars, stage, result, loop, left, comp, closerVars, ghosts>>

\* Mutant: the accounting is reset once the process has been started.
AssignThenReset ==
  /\ load = "assign" /\ load' = "begin"
  /\ cur' = 2 /\ reap' = [reap EXCEPT ![2] = "waiting"]
  /\ error' = "none" /\ counted' = {}
  /\ overtaken' = (\E c \in Closers : closer[c] # "idle")
  /\ UNCHANGED <<state, pipe, said, seen, retried, projector, stage, result, loop, left,
                 comp, closerVars, mixed>>

AssignProcess ==
  /\ load = "assign" /\ load' = "begin"
  /\ cur' = 2 /\ reap' = [reap EXCEPT ![2] = "waiting"]
  /\ overtaken' = (\E c \in Closers : closer[c] # "idle")
  /\ UNCHANGED <<state, pipe, said, error, seen, counted, retried, projector, stage, result, loop,
                 left, comp, closerVars, mixed>>

-----------------------------------------------------------------------------
(* Close                                                                     *)

\* When Close may be called: after a load that failed or served, at shutdown
\* whenever the runner is known, by a completion whose stream broke.
MayClose(c) ==
  CASE c = "unload"   -> load \in {"serving", "failed"}
    [] c = "shutdown" -> TRUE
    [] OTHER          -> comp[c] = "cut"

\* Mutant: it does not wait until the process is gone.
StopWithoutWaiting(c) ==
  /\ MayClose(c) /\ closer[c] = "idle" /\ (c \notin Requests => left.closes > 0)
  /\ left' = [left EXCEPT !.closes = IF c \in Requests THEN @ ELSE @ - 1]
  /\ closer' = [closer EXCEPT ![c] = "closed"]
  /\ IF Exited(cur) THEN UNCHANGED state ELSE Kill(cur)
  /\ UNCHANGED <<pipe, reap, said, runnerVars, loadVars, comp, awaited, ghosts>>

\* stopProcess: nothing to do if the process has exited.
Stop(c) ==
  /\ MayClose(c) /\ closer[c] = "idle" /\ (c \notin Requests => left.closes > 0)
  /\ left' = [left EXCEPT !.closes = IF c \in Requests THEN @ ELSE @ - 1]
  /\ IF Exited(cur) THEN closer' = [closer EXCEPT ![c] = "closed"] /\ UNCHANGED state
     ELSE closer' = [closer EXCEPT ![c] = "killed"] /\ Kill(cur)
  /\ UNCHANGED <<pipe, reap, said, runnerVars, loadVars, comp, awaited, ghosts>>

\* It reads done after the kill.
AwaitExit(c) ==
  /\ closer[c] = "killed"
  /\ closer' = [closer EXCEPT ![c] = "waiting"] /\ awaited' = [awaited EXCEPT ![c] = cur]
  /\ UNCHANGED <<processVars, runnerVars, loadVars, left, comp, ghosts>>

Stopped(c) ==
  /\ closer[c] = "waiting" /\ reap[awaited[c]] = "done"
  /\ closer' = [closer EXCEPT ![c] = "closed"]
  /\ UNCHANGED <<processVars, runnerVars, loadVars, left, comp, awaited, ghosts>>

-----------------------------------------------------------------------------
(* Completion and Embedding                                                  *)

Move(r, to) ==
  /\ comp' = [comp EXCEPT ![r] = to]
  /\ UNCHANGED <<processVars, runnerVars, loadVars, left, closerVars, ghosts>>

HoldsSlot(r) == comp[r] \in {"checking", "sending", "streaming", "cut"}
Free == Cardinality({r \in Requests : HoldsSlot(r)}) < Slots

Ask(r) ==
  /\ comp[r] = "new" /\ load = "serving" /\ left.requests > 0
  /\ comp' = [comp EXCEPT ![r] = "queued"]
  /\ left' = [left EXCEPT !.requests = @ - 1]
  /\ UNCHANGED <<processVars, runnerVars, loadVars, closerVars, ghosts>>

\* sem.Acquire
Acquire(r) == comp[r] = "queued" /\ Free /\ Move(r, "checking")

\* Its client leaves; the slot is released by defer.
Cancel(r) == comp[r] \in {"queued", "checking", "sending", "streaming"} /\ Move(r, Ended)

\* getServerStatusRetry: goes on only if the server is ready.
Check(r) ==
  /\ comp[r] = "checking"
  /\ \E answer \in Health(cur) : Move(r, IF answer[1] = "ok" THEN "sending" ELSE Ended)

\* POST: the process may have died since, or refuse the request.
Send(r) ==
  /\ comp[r] = "sending"
  /\ \/ state[cur] = "ready" /\ Move(r, "streaming")
     \/ Move(r, Ended)

\* The last event, or an event that ends the request with or without an error;
\* num_predict bounds the tokens.
Finish(r) ==
  /\ comp[r] = "streaming" /\ state[cur] = "ready"
  /\ Move(r, Ended)

\* The stream breaks off: a completion closes the runner, an embedding does
\* not.
Break(r) ==
  /\ comp[r] = "streaming"
  /\ Move(r, "cut") \/ Move(r, Ended)

Closed(r) == comp[r] = "cut" /\ closer[r] = "closed" /\ Move(r, Ended)

-----------------------------------------------------------------------------
(* The specification                                                         *)

Wait ==
  \/ BeginWait \/ Look \/ PollLoading \/ PollReady
  \/ \E status \in {"not responding", "no slot"} : PollOther(status)
  \/ \E text \in {"none", "oom", "soft"} : PollError(text)

Retry ==
  Judge \/ RetryStops \/ RetryStopped \/ ResetLoadAccounting \/ StartProcess \/ AssignProcess

Reaper(g) == WaitedFor(g) \/ CloseDone(g)

Close(c) == Stop(c) \/ AwaitExit(c) \/ Stopped(c)

Serve(r) ==
  Ask(r) \/ Acquire(r) \/ Cancel(r) \/ Check(r) \/ Send(r) \/ Finish(r) \/ Break(r) \/ Closed(r)

Next ==
  \/ \E g \in Gens : \/ (\E line \in Lines : Says(g, line)) \/ BecomesReady(g) \/ Dies(g)
                     \/ Copy(g) \/ Reaper(g)
  \/ Abandon \/ TimePasses \/ Wait \/ Retry
  \/ \E c \in Closers : Close(c)
  \/ \E r \in Requests : Serve(r)

Spec == Init /\ [][Next]_serverVars

(* Fairness.  The goroutines run, time passes, what is in a pipe is copied,  *)
(* and a killed process goes.  Slots are handed out first come first served. *)
(* That a process gets ready, exits or prints is not assumed, nor that       *)
(* anybody closes it; a broken completion does.                              *)
Fairness ==
  /\ WF_serverVars(Wait) /\ WF_serverVars(Retry) /\ WF_serverVars(TimePasses)
  /\ \A g \in Gens : /\ WF_serverVars(Copy(g)) /\ WF_serverVars(Reaper(g))
                     /\ WF_serverVars(state[g] = "dying" /\ Dies(g))
  /\ \A c \in Closers : WF_serverVars(AwaitExit(c) \/ Stopped(c))
  /\ \A r \in Requests :
       /\ SF_serverVars(Acquire(r))
       /\ WF_serverVars(Check(r) \/ Send(r) \/ Finish(r) \/ Closed(r))
       /\ WF_serverVars(comp[r] = "cut" /\ Stop(r))
       /\ WF_serverVars(state[cur] = "gone" /\ Break(r))

FairSpec == Spec /\ Fairness

=============================================================================
