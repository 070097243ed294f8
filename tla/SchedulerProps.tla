--------------------------- MODULE SchedulerProps ---------------------------
(* What the scheduler of ollama/server/sched.go promises, and what its     *)
(* documentation promises that the code does not keep.                     *)
EXTENDS Scheduler

\* r was handed n and its end has not been counted down yet.
Holds(r, n) ==
  /\ req[r].granted = n
  /\ \/ req[r].watcher = "watching"
     \/ \E i \in 1 .. Len(finishedCh) : finishedCh[i] = r
     \/ comp.pc = "finish" /\ comp.req = r

Holders(n) == {r \in Requests : Holds(r, n)}
Up == phase \in {"serving", "stopping"}   \* unloadAllRunners has not begun
OpenServers == {n \in Runners : run[n].server = "open"}

\* An event that will make processCompleted look at n.
ExpiryInFlight(n) ==
  \/ \E i \in 1 .. Len(expiredCh) : expiredCh[i] = n
  \/ run[n].retrying > 0 \/ run[n].fired > 0
  \/ run[n].mu \in {"failing", "pending", "completed", "timer", "api"}
  \/ comp.pc = "expire" /\ comp.run = n

-----------------------------------------------------------------------------
(* Safety.                                                                 *)

\* As long as no request has been handed a dead runner, refCount is the number
\* of requests that hold the runner: handlers, the pending loop and the load
\* waiter count up, processCompleted counts down, in three different ways of
\* finding the runner.
RefCountExact == ~raced => \A n \in Runners : run[n].ref = Cardinality(Holders(n))

\* A runner is not taken from those who hold it: it stays loaded under its key
\* and its server open, whatever timers, evictions and stop requests come in.
HeldRunnerStaysLoaded ==
  Up /\ ~raced => \A r \in Requests, n \in Runners :
                    Holds(r, n) => run[n].server = "open" /\ loaded[KeyOf(n)] = n

\* OLLAMA_MAX_LOADED_MODELS bounds the servers that run at any time, the one
\* being loaded included, though the limit is only tested at the head of the
\* pending loop.
OpenServersWithinLimit == Cardinality(OpenServers) <= MaxRunners

\* Every running server can be found from the scheduler's own state; one that
\* cannot is never unloaded and its memory is lost.
NoOrphanServer == \A n \in OpenServers : activeLoading = n \/ loaded[KeyOf(n)] = n

\* One model is loaded at a time, for the request the pending loop works on:
\* it never replaces a loaded runner ("Shouldn't happen") and never resumes
\* the load of another model (the panic in load).
LoadingIsExclusive ==
  /\ activeLoading # None => activeLoading = pend.req /\ loaded[KeyOf(activeLoading)] = None
  /\ pend.pc = "loading" => loaded[KeyOf(pend.req)] = None
  /\ pend.pc # "panic"

\* No lost wakeup: a loaded runner that nobody uses has a timer running or an
\* expired event on its way, so it cannot keep its memory for ever - as long as
\* no request was handed a dead runner, whose end may be counted down on another.
IdleRunnerWillExpire ==
  ~raced => \A n \in LoadedRunners :
              ~Busy(n) /\ Free(n) => run[n].timer = "armed" \/ ExpiryInFlight(n)

\* The pending loop only waits for unload events that will come: the runner it
\* waits for is still loaded, or its event is in the channel or about to be.
\* evictAllAndWait does not wait for more events than there are runners left.
WaitIsJustified ==
  LET announced == unloadedCh + (IF comp.pc \in {"vram", "notify"} THEN 1 ELSE 0) IN
  /\ pend.pc = "wait" => announced > 0 \/ loaded[KeyOf(pend.target)] = pend.target
  /\ pend.pc = "evict" => pend.await <= announced + Cardinality(LoadedRunners)

\* successCh and errCh have room for one answer; a request is answered once,
\* or the scheduler would block on the second answer.
AnsweredOnce ==
  [][\A r \in Requests : Answered(r) => UNCHANGED <<req[r].granted, req[r].failed>>]_vars

-----------------------------------------------------------------------------
(* Liveness, under Fairness.                                               *)

\* A request whose client waits is answered, unless a dead runner was handed out.
RequestsAreAnswered ==
  \A r \in Requests : (req[r].stage # "new") ~> (Answered(r) \/ req[r].done \/ raced)

\* Once all requests are over, every model is unloaded and every server closed.
ModelsAreUnloaded ==
  (\A r \in Requests : req[r].done) ~> (raced \/ (LoadedRunners = {} /\ OpenServers = {}))

-----------------------------------------------------------------------------
(* What comments and documentation say and the code does not do.           *)

\* "prevent unloading if > 0": the server of a request that is being served is
\* not closed.
ServedRequestsKeepTheirServer ==
  [][\A r \in Requests :
       LET n == req[r].granted IN
       n # None /\ ~req[r].done /\ n \in OpenServers => run'[n].server = "open"]_vars

=============================================================================
