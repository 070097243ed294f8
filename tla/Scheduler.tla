------------------------------ MODULE Scheduler ------------------------------
(***************************************************************************)
(* The model scheduler of the Ollama server (ollama/server/sched.go).      *)
(*                                                                         *)
(* HTTP handlers ask for a runner (a model served by a subprocess).  Two   *)
(* goroutines do the work: processPending loads models and makes room for  *)
(* them, processCompleted counts references down and unloads.  They meet   *)
(* the handlers, the keep-alive timers and the load waiters through four   *)
(* bounded channels, the map of loaded runners (loadedMu) and one mutex    *)
(* per runner (refMu).                                                     *)
(*                                                                         *)
(* A request is scheduled at most once and inserts at most one runner, so  *)
(* a runner (and its subprocess) is named by the request that loaded it.   *)
(*                                                                         *)
(* Grain.  A critical section that cannot block is one step.  loadedMu is  *)
(* held across steps only by unloadAllRunners (phase "closing").  refMu is *)
(* held while a runner comes up, while its memory is awaited after an      *)
(* unload, and by a sender that finds expiredCh full.                      *)
(***************************************************************************)
EXTENDS Integers, Sequences, FiniteSets

CONSTANTS
  Requests,          \* the LlmRequests, and the runners they load
  Keys,              \* what schedulerModelKey maps models to
  MLXKeys,           \* keys of models served by mlxrunner or imagegen
  KeepAlives,        \* the keep_alive durations in use; 0 is "do not keep"
  Forever,           \* the duration that never elapses (math.MaxInt64 ns)
  DefaultKeepAlive,  \* OLLAMA_KEEP_ALIVE
  MaxRunners,        \* OLLAMA_MAX_LOADED_MODELS
  MaxQueue,          \* OLLAMA_MAX_QUEUE, the capacity of every channel
  RefMod,            \* stands for 2^64, the modulus of refCount (a Go uint)
  Workloads,         \* bound: the keys and durations the requests may ask for
  MaxApiCalls,       \* bound: how often a handler asks to expire runners
  Signals,           \* TRUE iff the server may receive SIGINT or SIGTERM
  None

Runners == Requests

ASSUME ConfigAssumption ==
  /\ None \notin Requests
  /\ IsFiniteSet(Keys) /\ MLXKeys \subseteq Keys
  /\ KeepAlives \subseteq Nat /\ Forever \in Nat \ {0}
  /\ DefaultKeepAlive \in KeepAlives
  /\ MaxRunners \in Nat \ {0} /\ MaxQueue \in Nat \ {0} /\ RefMod \in Nat \ {0, 1}
  /\ Workloads \subseteq [Requests -> [key : Keys, keep : KeepAlives \cup {None}]]
  /\ MaxApiCalls \in Nat /\ Signals \in BOOLEAN

VARIABLES
  req,            \* the requests, each with the state of its handler
  run,            \* the runnerRefs and their subprocesses
  loaded, activeLoading,
  pendingCh, finishedCh, expiredCh,
  unloadedCh,     \* carries no data: the number of events in it
  pend, comp,     \* the local state of the two loops
  api,            \* handlers that expire runners: [todo, calls]
  phase,          \* of the process
  raced           \* history: a request was given a runner already closed

chans == <<pendingCh, finishedCh, expiredCh, unloadedCh>>
vars == <<req, run, loaded, activeLoading, chans, pend, comp, api, phase, raced>>

Request ==
  [key: Keys, keep: KeepAlives \cup {None},
   stage: {"new", "check", "use", "enqueue", "submitted"},  \* in getRunner
   seen: Runners \cup {None},               \* what getRunner found loaded
   done: BOOLEAN,                           \* its context is done
   granted: Runners \cup {None},            \* what successCh carries
   failed: {"no", "busy", "error"},         \* what errCh carries
   watcher: {"none", "watching", "sent"},   \* reports the end of the context
   oom: BOOLEAN]                            \* oomRetryAttempted

Runner ==
  [mu: {"free", "loader", "failing", "pending", "completed", "timer", "api",
        "draining"},                        \* who holds refMu across steps
   ref: 0 .. RefMod - 1, session: KeepAlives \cup {0, Forever},
   timer: {"nil", "armed", "elapsed"},      \* expireTimer
   fired: Nat,                              \* timer callbacks that wait for refMu
   retrying: Nat,                           \* goroutines that will send it again
   server: {"none", "open", "closed"}]      \* the llm.LlamaServer

\* processPending: the request it places, the runner it looks at or expires,
\* runners still to visit, the requireFull argument of load, and the number of
\* unload events evictAllAndWait still expects.
Pend ==
  [pc: {"select", "top", "check", "use", "fit", "loading", "find", "scan", "expire",
        "sendOne", "wait", "evictAll", "evict", "sendMany", "panic", "stopped"},
   req: Requests \cup {None}, target: Runners \cup {None}, list: Seq(Runners),
   todo: SUBSET Runners, full: BOOLEAN, await: Nat]

Comp ==
  [pc: {"select", "finish", "sending", "expire", "vram", "notify", "stopped"},
   req: Requests \cup {None}, run: Runners \cup {None}]

TypeOK ==
  /\ req \in [Requests -> Request]
  /\ run \in [Runners -> Runner]
  /\ loaded \in [Keys -> Runners \cup {None}]
  /\ activeLoading \in Runners \cup {None}
  /\ pendingCh \in Seq(Requests) /\ finishedCh \in Seq(Requests)
  /\ expiredCh \in Seq(Runners) /\ unloadedCh \in Nat
  /\ pend \in Pend /\ comp \in Comp
  /\ api \in [todo: SUBSET Runners, calls: 0 .. MaxApiCalls]
  /\ phase \in {"serving", "stopping", "closing", "unloaded", "exited", "crashed"}
  /\ raced \in BOOLEAN

Init ==
  /\ \E w \in Workloads :
       req = [r \in Requests |->
                [key |-> w[r].key, keep |-> w[r].keep, stage |-> "new", seen |-> None,
                 done |-> FALSE, granted |-> None, failed |-> "no",
                 watcher |-> "none", oom |-> FALSE]]
  /\ run = [n \in Runners |->
              [mu |-> "free", ref |-> 0, session |-> 0, timer |-> "nil", fired |-> 0,
               retrying |-> 0, server |-> "none"]]
  /\ loaded = [k \in Keys |-> None] /\ activeLoading = None
  /\ pendingCh = <<>> /\ finishedCh = <<>> /\ expiredCh = <<>> /\ unloadedCh = 0
  /\ pend = [pc |-> "select", req |-> None, target |-> None, list |-> <<>>,
             todo |-> {}, full |-> FALSE, await |-> 0]
  /\ comp = [pc |-> "select", req |-> None, run |-> None]
  /\ api = [todo |-> {}, calls |-> 0]
  /\ phase = "serving" /\ raced = FALSE

-----------------------------------------------------------------------------
(* Shared pieces.                                                          *)

Room(ch) == Len(ch) < MaxQueue
\* Mutant: an off-by-one in the test of refCount.
BusyIfShared(n) == run[n].ref > 1
Busy(n) == run[n].ref > 0

IncRef(ref) == (ref + 1) % RefMod
DecRef(ref) == (ref + RefMod - 1) % RefMod

Free(n) == run[n].mu = "free"
LoadedMuFree == phase # "closing"
LoadedRunners == {loaded[k] : k \in Keys} \ {None}
KeyOf(n) == req[n].key

\* `s.expiredCh <- runner` by a sender that holds refMu and leaves the runner
\* as rec: if the channel is full the sender sleeps with the mutex locked.
SendExpired(n, rec, sender) ==
  /\ run' = [run EXCEPT ![n] = [rec EXCEPT !.mu = IF Room(expiredCh) THEN "free" ELSE sender]]
  /\ expiredCh' = IF Room(expiredCh) THEN Append(expiredCh, n) ELSE expiredCh

\* Mutant: the idle runner is not put on expiredCh.
ExpireSilently(n, sender) ==
  /\ Free(n)
  /\ run' = [run EXCEPT ![n] = [@ EXCEPT !.timer = "nil", !.session = 0]]
  /\ UNCHANGED expiredCh

\* "Trigger an expiration to unload once it's done": stop the timer, forget
\* the keep-alive and, if the runner is idle, ask for the unload at once.
Expire(n, sender) ==
  LET rec == [run[n] EXCEPT !.timer = "nil", !.session = 0] IN
  /\ Free(n)
  /\ \/ ~Busy(n) /\ SendExpired(n, rec, sender)
     \/ Busy(n) /\ run' = [run EXCEPT ![n] = rec] /\ UNCHANGED expiredCh

\* needsReload may always say yes (the options differ, the ping times out);
\* it says no only of a runner whose server answers the ping.
NeedsReload(n, answer) == Free(n) /\ (~answer => run[n].server = "open")

\* Mutant: no test for a request without a keep_alive.
UseWithoutKeepAlive(r, n) ==
  /\ Free(n)
  /\ run' = [run EXCEPT ![n] = [@ EXCEPT !.ref = IncRef(run[n].ref), !.timer = "nil",
                        !.session = req[r].keep]]
  /\ req' = [req EXCEPT ![r] = [@ EXCEPT !.granted = n, !.watcher = "watching",
                        !.stage = "submitted"]]
  /\ raced' = (raced \/ run[n].server # "open")

\* Stopping the timer has no effect on a callback that already runs.
UseLoadedRunner(r, n) ==
  /\ Free(n)
  /\ run' = [run EXCEPT ![n] = [@ EXCEPT !.ref = IncRef(run[n].ref), !.timer = "nil",
                        !.session = IF req[r].keep = None THEN run[n].session ELSE req[r].keep]]
  /\ req' = [req EXCEPT ![r] = [@ EXCEPT !.granted = n, !.watcher = "watching",
                        !.stage = "submitted"]]
  /\ raced' = (raced \/ run[n].server # "open")

-----------------------------------------------------------------------------
(* getRunner, run by the handler of request r, and the request's context.  *)

GetRunner(r) ==
  LET n == loaded[KeyOf(r)] IN
  /\ req[r].stage = "new" /\ LoadedMuFree
  /\ req' = [req EXCEPT ![r] = [@ EXCEPT !.seen = n,
                        !.stage = IF n = None THEN "enqueue" ELSE "check"]]
  /\ UNCHANGED <<run, loaded, activeLoading, chans, pend, comp, api, phase, raced>>

HandlerCheck(r) ==
  /\ req[r].stage = "check"
  /\ \E reload \in BOOLEAN :
       /\ NeedsReload(req[r].seen, reload)
       /\ req' = [req EXCEPT ![r].stage = IF reload THEN "enqueue" ELSE "use"]
  /\ UNCHANGED <<run, loaded, activeLoading, chans, pend, comp, api, phase, raced>>

HandlerUse(r) ==
  /\ req[r].stage = "use"
  /\ UseLoadedRunner(r, req[r].seen)
  /\ UNCHANGED <<loaded, activeLoading, chans, pend, comp, api, phase>>

HandlerEnqueue(r) ==
  /\ req[r].stage = "enqueue"
  /\ req' = [req EXCEPT ![r] = [@ EXCEPT !.stage = "submitted",
                        !.failed = IF Room(pendingCh) THEN req[r].failed ELSE "busy"]]
  /\ pendingCh' = IF Room(pendingCh) THEN Append(pendingCh, r) ELSE pendingCh
  /\ UNCHANGED <<run, loaded, activeLoading, finishedCh, expiredCh, unloadedCh, pend,
                 comp, api, phase, raced>>

\* The handler returns with its answer, or the client goes away at any time.
CtxDone(r) ==
  /\ req[r].stage # "new" /\ ~req[r].done
  /\ req' = [req EXCEPT ![r].done = TRUE]
  /\ UNCHANGED <<run, loaded, activeLoading, chans, pend, comp, api, phase, raced>>

\* The goroutine started with the grant: `<-ctx.Done(); finished <- pending`.
Watch(r) ==
  /\ req[r].watcher = "watching" /\ req[r].done /\ Room(finishedCh)
  /\ req' = [req EXCEPT ![r].watcher = "sent"]
  /\ finishedCh' = Append(finishedCh, r)
  /\ UNCHANGED <<run, loaded, activeLoading, pendingCh, expiredCh, unloadedCh, pend,
                 comp, api, phase, raced>>

-----------------------------------------------------------------------------
(* processPending.                                                         *)

PendGoto(pc) == pend' = [pend EXCEPT !.pc = pc]
\* Mutant: no break after the error.
PendDoneWithoutBreak == PendGoto("top")
PendDone == pend' = [pend EXCEPT !.pc = "select", !.req = None, !.target = None]

\* A request whose context is already done is dropped without an answer.
PendTake ==
  LET r == Head(pendingCh) IN
  /\ pend.pc = "select" /\ pendingCh # <<>>
  /\ pendingCh' = Tail(pendingCh)
  /\ pend' = IF req[r].done THEN pend ELSE [pend EXCEPT !.pc = "top", !.req = r]
  /\ UNCHANGED <<req, run, loaded, activeLoading, finishedCh, expiredCh, unloadedCh,
                 comp, api, phase, raced>>

\* An unload event ends the wait for one, whichever runner it was for; with no
\* request to place it is ignored.
PendUnloaded ==
  /\ pend.pc \in {"select", "wait"} /\ unloadedCh > 0
  /\ unloadedCh' = unloadedCh - 1
  /\ pend' = IF pend.pc = "select" THEN pend
             ELSE [pend EXCEPT !.pc = "top", !.target = None]
  /\ UNCHANGED <<req, run, loaded, activeLoading, pendingCh, finishedCh, expiredCh,
                 comp, api, phase, raced>>

\* Mutant: an off-by-one in the test of the limit.
AboveLimit(count) == count > MaxRunners
AtLimit(count) == count >= MaxRunners

\* The head of the inner loop.  The snapshot that updateFreeSpace takes right
\* after is merged with this one; with no GPU in play (num_gpu 0) it is empty.
PendTop ==
  LET n == loaded[KeyOf(pend.req)]
      count == Cardinality(LoadedRunners)
  IN /\ pend.pc = "top" /\ LoadedMuFree
     /\ \/ n # None /\ pend' = [pend EXCEPT !.pc = "check", !.target = n]
        \/ n = None /\ AtLimit(count) /\ PendGoto("find")
        \/ /\ n = None /\ ~AtLimit(count)
           /\ \E toLock \in {LoadedRunners, {}} :
                pend' = [pend EXCEPT !.pc = "fit", !.full = (count > 0), !.todo = toLock]
     /\ UNCHANGED <<req, run, loaded, activeLoading, chans, comp, api, phase, raced>>

PendCheck ==
  /\ pend.pc = "check"
  /\ \E reload \in BOOLEAN : /\ NeedsReload(pend.target, reload)
                             /\ PendGoto(IF reload THEN "expire" ELSE "use")
  /\ UNCHANGED <<req, run, loaded, activeLoading, chans, comp, api, phase, raced>>

PendUse ==
  /\ pend.pc = "use"
  /\ UseLoadedRunner(pend.req, pend.target)
  /\ PendDone
  /\ UNCHANGED <<loaded, activeLoading, chans, comp, api, phase>>

\* updateFreeSpace locks every loaded runner in turn to read its memory use.
PendUpdateFreeSpace ==
  /\ pend.pc = "fit"
  /\ \E n \in pend.todo : Free(n) /\ pend' = [pend EXCEPT !.todo = @ \ {n}]
  /\ UNCHANGED <<req, run, loaded, activeLoading, chans, comp, api, phase, raced>>

CanLoad == pend.pc = "fit" /\ pend.todo = {} /\ LoadedMuFree

\* What the loop does when load returns true ("needs to evict").
PendNeedEvict(retried) ==
  PendGoto(IF ~pend.full THEN "top" ELSE IF retried THEN "evictAll" ELSE "find")

\* load(), first critical section: the model or its server cannot be created.
PendNoServer ==
  /\ CanLoad /\ activeLoading = None
  /\ req' = [req EXCEPT ![pend.req].failed = "error"]
  /\ PendDone
  /\ UNCHANGED <<run, loaded, activeLoading, chans, comp, api, phase, raced>>

\* load(), first critical section: the prediction exceeds the free memory.
PendPreflight ==
  /\ CanLoad /\ activeLoading = None
  /\ pend.full /\ LoadedRunners # {} /\ KeyOf(pend.req) \notin MLXKeys
  /\ PendNeedEvict(req[pend.req].oom)
  /\ UNCHANGED <<req, run, loaded, activeLoading, chans, comp, api, phase, raced>>

PendSpawn ==
  /\ CanLoad /\ activeLoading = None
  /\ activeLoading' = pend.req
  /\ run' = [run EXCEPT ![pend.req].server = "open"]
  /\ PendGoto("loading")
  /\ UNCHANGED <<req, loaded, chans, comp, api, phase, raced>>

\* A server kept from the previous attempt must be for the same model.
PendResume ==
  /\ CanLoad /\ activeLoading # None
  /\ PendGoto(IF KeyOf(activeLoading) = KeyOf(pend.req) THEN "loading" ELSE "panic")
  /\ UNCHANGED <<req, run, loaded, activeLoading, chans, comp, api, phase, raced>>

\* llama.Load succeeded: insert the runner, its refMu held by the goroutine
\* that waits until the server runs.  "Shouldn't happen": a runner is replaced.
PendLoadOk ==
  LET n == pend.req
      old == loaded[KeyOf(n)]
      Closed(x) == [run[x] EXCEPT !.server = "closed", !.timer = "nil"]
      session == IF req[n].keep = None THEN DefaultKeepAlive ELSE req[n].keep
  IN /\ pend.pc = "loading" /\ LoadedMuFree
     /\ old # None => Free(old)
     /\ run' = [x \in Runners |->
                  IF x = n THEN [run[n] EXCEPT !.mu = "loader", !.session = session]
                  ELSE IF x = old THEN Closed(old) ELSE run[x]]
     /\ activeLoading' = None
     /\ loaded' = [loaded EXCEPT ![KeyOf(n)] = n]
     /\ PendDone
     /\ UNCHANGED <<req, chans, comp, api, phase, raced>>

\* ErrLoadRequiredFull: activeLoading is kept for the next attempt.
PendLoadTooBig ==
  /\ pend.pc = "loading" /\ pend.full /\ KeyOf(pend.req) \in MLXKeys
  /\ PendNeedEvict(req[pend.req].oom)
  /\ UNCHANGED <<req, run, loaded, activeLoading, chans, comp, api, phase, raced>>

\* Mutants: one of the two statements is missing.
AbortWithoutReset == /\ run' = [run EXCEPT ![activeLoading].server = "closed"]
                     /\ UNCHANGED activeLoading
AbortWithoutClose == run' = run /\ activeLoading' = None

\* `s.activeLoading.Close(); s.activeLoading = nil`.
AbortLoading == /\ run' = [run EXCEPT ![activeLoading].server = "closed"]
                /\ activeLoading' = None

\* Any other error of llama.Load.  Out of memory is retried once, if the
\* context can shrink (whatever is loaded) or if there are others to evict.
PendLoadFails ==
  /\ pend.pc = "loading" /\ LoadedMuFree /\ activeLoading # None
  /\ AbortLoading
  /\ \/ /\ ~req[pend.req].oom
        /\ req' = [req EXCEPT ![pend.req].oom = TRUE]
        /\ PendNeedEvict(TRUE)
     \/ /\ req' = [req EXCEPT ![pend.req].failed = "error"]
        /\ PendDone
  /\ UNCHANGED <<loaded, chans, comp, api, phase, raced>>

\* load() closes activeLoading without loadedMu: after unloadAllRunners has
\* cleared it the call is on a nil interface and the server dies.
PendLoadFailsNil ==
  /\ pend.pc = "loading" /\ activeLoading = None
  /\ phase' = "crashed"
  /\ UNCHANGED <<req, run, loaded, activeLoading, chans, pend, comp, api, raced>>

\* The orders sort.Sort(ByDurationAndName) may leave a set of runners in (names
\* are abstracted, so ties fall either way).
Orders(S) ==
  {q \in [1 .. Cardinality(S) -> S] :
     \A i, j \in 1 .. Cardinality(S) :
        i < j => q[i] # q[j] /\ run[q[i]].session <= run[q[j]].session}

\* findRunnerToUnload: the snapshot, then one refMu at a time; the first idle
\* runner wins and else the one with the shortest duration.
PendFind ==
  /\ pend.pc = "find" /\ LoadedMuFree
  /\ \/ LoadedRunners = {} /\ PendGoto("top")
     \/ /\ LoadedRunners # {}
        /\ \E q \in Orders(LoadedRunners) :
             pend' = [pend EXCEPT !.pc = "scan", !.list = q, !.target = q[1]]
  /\ UNCHANGED <<req, run, loaded, activeLoading, chans, comp, api, phase, raced>>

PendScan ==
  /\ pend.pc = "scan"
  /\ \/ pend.list = <<>> /\ PendGoto("expire")
     \/ /\ pend.list # <<>> /\ Free(Head(pend.list))
        /\ pend' = IF ~Busy(Head(pend.list))
                   THEN [pend EXCEPT !.pc = "expire", !.target = Head(pend.list), !.list = <<>>]
                   ELSE [pend EXCEPT !.list = Tail(@)]
  /\ UNCHANGED <<req, run, loaded, activeLoading, chans, comp, api, phase, raced>>

PendExpire ==
  /\ pend.pc = "expire"
  /\ Expire(pend.target, "pending")
  /\ PendGoto(IF ~Busy(pend.target) /\ ~Room(expiredCh) THEN "sendOne" ELSE "wait")
  /\ UNCHANGED <<req, loaded, activeLoading, pendingCh, finishedCh, unloadedCh, comp,
                 api, phase, raced>>

\* evictAllAndWait: the snapshot, the loop that expires, the loop that waits.
PendEvictAll ==
  LET others == {loaded[k] : k \in Keys \ {KeyOf(pend.req)}} \ {None} IN
  /\ pend.pc = "evictAll" /\ LoadedMuFree
  /\ pend' = [pend EXCEPT !.pc = IF others = {} THEN "top" ELSE "evict",
                          !.todo = others, !.await = Cardinality(others)]
  /\ UNCHANGED <<req, run, loaded, activeLoading, chans, comp, api, phase, raced>>

PendEvict ==
  /\ pend.pc = "evict"
  /\ \E n \in pend.todo :
       LET blocked == ~Busy(n) /\ ~Room(expiredCh) IN
       /\ Expire(n, "pending")
       /\ pend' = [pend EXCEPT !.todo = @ \ {n},
                               !.pc = IF blocked THEN "sendMany" ELSE "evict"]
  /\ UNCHANGED <<req, loaded, activeLoading, pendingCh, finishedCh, unloadedCh, comp,
                 api, phase, raced>>

PendEvictWait ==
  /\ pend.pc = "evict" /\ pend.todo = {} /\ unloadedCh > 0
  /\ unloadedCh' = unloadedCh - 1
  /\ pend' = [pend EXCEPT !.await = @ - 1, !.pc = IF pend.await = 1 THEN "top" ELSE "evict"]
  /\ UNCHANGED <<req, run, loaded, activeLoading, pendingCh, finishedCh, expiredCh,
                 comp, api, phase, raced>>

-----------------------------------------------------------------------------
(* The goroutine load() leaves behind: it holds refMu of the new runner    *)
(* until the server runs or fails.                                         *)

\* Mutant: the request that loads the runner is not counted.
LoaderReadyUncounted(n) ==
  /\ run[n].mu = "loader" /\ run[n].server = "open"
  /\ run' = [run EXCEPT ![n].mu = "free"]
  /\ req' = [req EXCEPT ![n] = [@ EXCEPT !.granted = n, !.watcher = "watching"]]
  /\ UNCHANGED <<loaded, activeLoading, chans, pend, comp, api, phase, raced>>

LoaderReady(n) ==
  /\ run[n].mu = "loader" /\ run[n].server = "open"
  /\ run' = [run EXCEPT ![n] = [@ EXCEPT !.mu = "free", !.ref = IncRef(run[n].ref)]]
  /\ req' = [req EXCEPT ![n] = [@ EXCEPT !.granted = n, !.watcher = "watching"]]
  /\ UNCHANGED <<loaded, activeLoading, chans, pend, comp, api, phase, raced>>

LoaderFails(n) ==
  /\ run[n].mu = "loader"
  /\ req' = [req EXCEPT ![n].failed = "error"]
  /\ SendExpired(n, run[n], "failing")
  /\ UNCHANGED <<loaded, activeLoading, pendingCh, finishedCh, unloadedCh, pend, comp,
                 api, phase, raced>>

-----------------------------------------------------------------------------
(* processCompleted.                                                       *)

CompGoto(pc) == comp' = [comp EXCEPT !.pc = pc]
CompDone == comp' = [pc |-> "select", req |-> None, run |-> None]

\* The runner is looked up by the request's key, not taken from the request.
CompTakeFinished ==
  LET r == Head(finishedCh)
      n == loaded[KeyOf(r)]
  IN /\ comp.pc = "select" /\ finishedCh # <<>> /\ LoadedMuFree
     /\ finishedCh' = Tail(finishedCh)
     /\ comp' = IF n = None THEN comp ELSE [pc |-> "finish", req |-> r, run |-> n]
     /\ UNCHANGED <<req, run, loaded, activeLoading, pendingCh, expiredCh, unloadedCh,
                    pend, api, phase, raced>>

CompFinish ==
  LET n == comp.run
      rec == [run[n] EXCEPT !.ref = DecRef(@)]
  IN /\ comp.pc = "finish" /\ Free(n)
     /\ \/ /\ rec.ref > 0
           /\ run' = [run EXCEPT ![n] = rec] /\ UNCHANGED expiredCh /\ CompDone
        \/ /\ rec.ref = 0 /\ rec.session = 0
           /\ SendExpired(n, [rec EXCEPT !.timer = "nil"], "completed")
           /\ IF Room(expiredCh) THEN CompDone ELSE CompGoto("sending")
        \/ /\ rec.ref = 0 /\ rec.session > 0
           /\ run' = [run EXCEPT ![n] = [rec EXCEPT !.timer = "armed"]]
           /\ UNCHANGED expiredCh /\ CompDone
     /\ UNCHANGED <<req, loaded, activeLoading, pendingCh, finishedCh, unloadedCh, pend,
                    api, phase, raced>>

CompTakeExpired ==
  /\ comp.pc = "select" /\ expiredCh # <<>>
  /\ expiredCh' = Tail(expiredCh)
  /\ comp' = [pc |-> "expire", req |-> None, run |-> Head(expiredCh)]
  /\ UNCHANGED <<req, run, loaded, activeLoading, pendingCh, finishedCh, unloadedCh,
                 pend, api, phase, raced>>

\* "expired event with positive ref count, retrying".
CompRetryLater ==
  /\ comp.pc = "expire" /\ Free(comp.run) /\ Busy(comp.run)
  /\ run' = [run EXCEPT ![comp.run].retrying = @ + 1]
  /\ CompDone
  /\ UNCHANGED <<req, loaded, activeLoading, chans, pend, api, phase, raced>>

\* An idle runner: a duplicate event if its key is not loaded, an orphan to
\* close if another runner (another pid) is loaded for its key, or the unload
\* proper, after which refMu stays locked while the memory is awaited.
CompExpire ==
  LET n == comp.run
      current == loaded[KeyOf(n)]
      Closed(mu) == run' = [run EXCEPT ![n] = [@ EXCEPT !.server = "closed",
                                       !.timer = "nil", !.mu = mu]]
  IN /\ comp.pc = "expire" /\ Free(n) /\ ~Busy(n) /\ LoadedMuFree
     /\ \/ current = None /\ UNCHANGED <<run, loaded>> /\ CompDone
        \/ current \notin {None, n} /\ Closed("free") /\ UNCHANGED loaded /\ CompDone
        \/ /\ current = n
           /\ Closed("draining")
           /\ loaded' = [loaded EXCEPT ![KeyOf(n)] = None]
           /\ CompGoto("vram")
     /\ UNCHANGED <<req, activeLoading, chans, pend, api, phase, raced>>

\* waitForVRAMRecovery has finished.
CompRecovered ==
  /\ comp.pc = "vram"
  /\ run' = [run EXCEPT ![comp.run].mu = "free"]
  /\ CompGoto("notify")
  /\ UNCHANGED <<req, loaded, activeLoading, chans, pend, api, phase, raced>>

\* Mutant: a non-blocking send, dropped when the pending loop does not wait.
CompNotifyIfAwaited ==
  /\ comp.pc = "notify" /\ unloadedCh < MaxQueue
  /\ unloadedCh' = unloadedCh + (IF pend.pc \in {"select", "wait", "evict"} THEN 1 ELSE 0)
  /\ CompDone
  /\ UNCHANGED <<req, run, loaded, activeLoading, pendingCh, finishedCh, expiredCh,
                 pend, api, phase, raced>>

CompNotify ==
  /\ comp.pc = "notify" /\ unloadedCh < MaxQueue
  /\ unloadedCh' = unloadedCh + 1
  /\ CompDone
  /\ UNCHANGED <<req, run, loaded, activeLoading, pendingCh, finishedCh, expiredCh,
                 pend, api, phase, raced>>

-----------------------------------------------------------------------------
(* Timers, delayed events and senders that wait for room.                  *)

TimerFires(n) ==
  /\ run[n].timer = "armed" /\ run[n].session # Forever
  /\ run' = [run EXCEPT ![n] = [@ EXCEPT !.timer = "elapsed", !.fired = run[n].fired + 1]]
  /\ UNCHANGED <<req, loaded, activeLoading, chans, pend, comp, api, phase, raced>>

\* The callback does not look at refCount or at what became of the runner.
TimerCallback(n) ==
  /\ run[n].fired > 0 /\ Free(n)
  /\ SendExpired(n, [run[n] EXCEPT !.fired = @ - 1, !.timer = "nil"], "timer")
  /\ UNCHANGED <<req, loaded, activeLoading, pendingCh, finishedCh, unloadedCh, pend,
                 comp, api, phase, raced>>

RetryExpired(n) ==
  /\ run[n].retrying > 0 /\ Room(expiredCh)
  /\ run' = [run EXCEPT ![n].retrying = @ - 1]
  /\ expiredCh' = Append(expiredCh, n)
  /\ UNCHANGED <<req, loaded, activeLoading, pendingCh, finishedCh, unloadedCh, pend,
                 comp, api, phase, raced>>

\* A sender on a full expiredCh gets its turn and unlocks refMu.
BlockedSend(n) ==
  /\ run[n].mu \in {"failing", "pending", "completed", "timer", "api"} /\ Room(expiredCh)
  /\ SendExpired(n, run[n], run[n].mu)
  /\ pend' = IF run[n].mu # "pending" THEN pend
             ELSE [pend EXCEPT !.pc = IF @ = "sendOne" THEN "wait" ELSE "evict"]
  /\ IF run[n].mu = "completed" THEN CompDone ELSE UNCHANGED comp
  /\ UNCHANGED <<req, loaded, activeLoading, pendingCh, finishedCh, unloadedCh, api,
                 phase, raced>>

-----------------------------------------------------------------------------
(* Handlers that expire runners: `ollama stop`, keep_alive 0 on an empty   *)
(* prompt (expireRunner) and an out-of-memory error of a serving runner    *)
(* (expireRunnersForRuntimeOOM).  One at a time, MaxApiCalls in all.       *)

ApiLookup ==
  /\ api.todo = {} /\ api.calls < MaxApiCalls /\ LoadedMuFree /\ LoadedRunners # {}
  /\ \E S \in {{n} : n \in LoadedRunners} \cup {LoadedRunners} :
       api' = [todo |-> S, calls |-> api.calls + 1]
  /\ UNCHANGED <<req, run, loaded, activeLoading, chans, pend, comp, phase, raced>>

ApiExpire ==
  /\ \A n \in Runners : run[n].mu # "api"
  /\ \E n \in api.todo : Expire(n, "api") /\ api' = [api EXCEPT !.todo = @ \ {n}]
  /\ UNCHANGED <<req, loaded, activeLoading, pendingCh, finishedCh, unloadedCh, pend,
                 comp, phase, raced>>

-----------------------------------------------------------------------------
(* The signal handler of Serve: cancel the scheduler's context, close what *)
(* is being loaded, close what is loaded, let main return.                 *)

Signal ==
  /\ Signals /\ phase = "serving" /\ phase' = "stopping"
  /\ UNCHANGED <<req, run, loaded, activeLoading, chans, pend, comp, api, raced>>

CloseActive ==
  /\ phase = "stopping" /\ phase' = "closing"
  /\ run' = [n \in Runners |-> IF n = activeLoading THEN [run[n] EXCEPT !.server = "closed"]
                               ELSE run[n]]
  /\ activeLoading' = None
  /\ UNCHANGED <<req, loaded, chans, pend, comp, api, raced>>

CloseLoaded ==
  /\ phase = "closing" /\ phase' = "unloaded"
  /\ run' = [n \in Runners |-> IF n \in LoadedRunners THEN [run[n] EXCEPT !.server = "closed"]
                               ELSE run[n]]
  /\ UNCHANGED <<req, loaded, activeLoading, chans, pend, comp, api, raced>>

Exit ==
  /\ phase = "unloaded" /\ phase' = "exited"
  /\ UNCHANGED <<req, run, loaded, activeLoading, chans, pend, comp, api, raced>>

\* The loops notice the cancelled context only where they wait.
LoopsStop ==
  /\ phase # "serving"
  /\ \/ /\ pend.pc \in {"select", "wait"} \/ (pend.pc = "evict" /\ pend.todo = {})
        /\ PendGoto("stopped") /\ UNCHANGED comp
     \/ comp.pc = "select" /\ CompGoto("stopped") /\ UNCHANGED pend
  /\ UNCHANGED <<req, run, loaded, activeLoading, chans, api, phase, raced>>

-----------------------------------------------------------------------------
Handler(r) == \/ GetRunner(r) \/ HandlerCheck(r) \/ HandlerUse(r) \/ HandlerEnqueue(r)
              \/ CtxDone(r) \/ Watch(r)

PendPlace == PendTake \/ PendUnloaded \/ PendTop \/ PendCheck \/ PendUse
PendLoad == \/ PendUpdateFreeSpace \/ PendNoServer \/ PendPreflight \/ PendSpawn
            \/ PendResume \/ PendLoadOk \/ PendLoadTooBig \/ PendLoadFails
            \/ PendLoadFailsNil
PendMakeRoom == \/ PendFind \/ PendScan \/ PendExpire
                \/ PendEvictAll \/ PendEvict \/ PendEvictWait

Loader(n) == LoaderReady(n) \/ LoaderFails(n)

ProcessCompleted == \/ CompTakeFinished \/ CompFinish \/ CompTakeExpired
                    \/ CompRetryLater \/ CompExpire \/ CompRecovered \/ CompNotify

Events(n) == TimerFires(n) \/ TimerCallback(n) \/ RetryExpired(n) \/ BlockedSend(n)

Shutdown == Signal \/ CloseActive \/ CloseLoaded \/ Exit \/ LoopsStop

Next ==
  /\ phase \notin {"exited", "crashed"}
  /\ \/ \E r \in Requests : Handler(r) \/ Loader(r) \/ Events(r)
     \/ PendPlace \/ PendLoad \/ PendMakeRoom
     \/ ProcessCompleted
     \/ ApiLookup \/ ApiExpire
     \/ Shutdown

Spec == Init /\ [][Next]_vars

(* Fairness.  A goroutine that can run keeps running, and strongly so      *)
(* where it competes: a Go mutex hands itself to a waiter that has waited  *)
(* for long, blocked senders are served first come first served, and       *)
(* select chooses among its ready cases at random.  Loads and waits for    *)
(* memory have timeouts.  A request that was granted a runner is served    *)
(* and ends, one that failed ends too; no client has to give up before.    *)
Answered(r) == req[r].granted # None \/ req[r].failed # "no"

\* What is done for request r outside of the two loops, each step once.
Serve(r) == \/ GetRunner(r) \/ HandlerCheck(r) \/ HandlerUse(r) \/ HandlerEnqueue(r)
            \/ Loader(r) \/ (Answered(r) /\ CtxDone(r)) \/ Watch(r)

ProcessPending == PendPlace \/ PendLoad \/ PendMakeRoom

Fairness ==
  /\ SF_vars(ProcessPending) /\ SF_vars(ProcessCompleted)
  /\ SF_vars(CompTakeFinished) /\ SF_vars(CompTakeExpired)
  /\ SF_vars(ApiExpire)
  /\ \A r \in Requests : SF_vars(Serve(r)) /\ SF_vars(Events(r))

FairSpec == Spec /\ Fairness

=============================================================================
