--------------------------- MODULE SchedulerProofs ---------------------------
(* What the scheduler guarantees about the servers it runs and to those who  *)
(* use them, for any number of requests, models, runners and queue lengths:  *)
(* every step leaves the state well typed, one load at a time, no server     *)
(* lost, never more servers than OLLAMA_MAX_LOADED_MODELS, one answer to a   *)
(* request, an exact count of references, runners that stay while they are   *)
(* held, that do not stay for ever when they are not, and waits that end.    *)
EXTENDS SchedulerProps, TLAPS, FiniteSetTheorems

\* A handler that looks at a loaded runner has one.
SeenOK ==
  \A r \in Requests : req[r].stage \in {"check", "use"} => req[r].seen \in Runners

\* What the program counters of the two loops say about their local variables.
ControlOK ==
  /\ SeenOK
  /\ pend.pc \notin {"select", "stopped"} => pend.req \in Requests
  /\ pend.pc \in {"check", "use", "scan", "expire"} => pend.target \in Runners
  /\ pend.pc \in {"evict", "sendMany"} => pend.await > 0
  /\ \A m \in Runners : run[m].mu = "pending" =>
       /\ pend.pc \in {"sendOne", "sendMany"}
       /\ \A n \in Runners : run[n].mu = "pending" => m = n
  /\ comp.pc \in {"finish", "expire", "vram"} => comp.run \in Runners

TypeInv == TypeOK /\ ControlOK

-----------------------------------------------------------------------------
(* Lemmas on the operators of the model.                                   *)

\* Taking or leaving refMu keeps a runner well typed.
LEMMA WithMu ==
  ASSUME NEW rec \in Runner,
         NEW m \in {"free", "loader", "failing", "pending", "completed", "timer", "api",
                   "draining"}
  PROVE  [rec EXCEPT !.mu = m] \in Runner
  BY DEF Runner

\* A send on expiredCh changes the one runner it is about, and leaves its mutex
\* locked only if the channel is full.
LEMMA SendExpiredType ==
  ASSUME TypeOK, NEW n \in Runners, NEW rec \in Runner,
         NEW sender \in {"failing", "pending", "completed", "timer", "api"},
         SendExpired(n, rec, sender)
  PROVE  /\ run' \in [Runners -> Runner] /\ expiredCh' \in Seq(Runners)
         /\ \A m \in Runners \ {n} : run'[m] = run[m]
         /\ run'[n].mu = IF Room(expiredCh) THEN "free" ELSE sender
         /\ run'[n].server = rec.server
  <1>. DEFINE mu == IF Room(expiredCh) THEN "free" ELSE sender
              rec2 == [rec EXCEPT !.mu = mu]
  <1>1. rec2 \in Runner
    <2>1. mu \in {"free", "failing", "pending", "completed", "timer", "api"}
      OBVIOUS
    <2>. QED BY <2>1, WithMu
  <1>2. run' = [run EXCEPT ![n] = rec2]
    BY DEF SendExpired
  <1>3. /\ run' \in [Runners -> Runner]
        /\ \A m \in Runners : run'[m] = IF m = n THEN rec2 ELSE run[m]
    <2>. HIDE DEF rec2
    <2>. QED BY <1>1, <1>2 DEF TypeOK
  <1>4. rec2.mu = mu /\ rec2.server = rec.server
    BY DEF Runner
  <1>5. expiredCh' \in Seq(Runners)
    BY DEF SendExpired, TypeOK
  <1>. QED
    BY <1>3, <1>4, <1>5

\* So does asking a runner to expire.
LEMMA ExpireType ==
  ASSUME TypeOK, NEW n \in Runners, NEW sender \in {"pending", "api"}, Expire(n, sender)
  PROVE  /\ run' \in [Runners -> Runner] /\ expiredCh' \in Seq(Runners)
         /\ \A m \in Runners \ {n} : run'[m] = run[m]
         /\ run'[n].mu = IF ~Busy(n) /\ ~Room(expiredCh) THEN sender ELSE "free"
         /\ run'[n].server = run[n].server
  <1>. DEFINE rec == [run[n] EXCEPT !.timer = "nil", !.session = 0]
  <1>1. rec \in Runner /\ rec.mu = "free" /\ rec.server = run[n].server
    <2>1. run[n] \in Runner /\ run[n].mu = "free"
      BY DEF TypeOK, Expire, Free
    <2>2. \A r \in Runner : LET q == [r EXCEPT !.timer = "nil", !.session = 0]
                            IN  q \in Runner /\ q.mu = r.mu /\ q.server = r.server
      BY DEF Runner
    <2>. QED
      BY <2>1, <2>2
  <1>2. CASE ~Busy(n) /\ SendExpired(n, rec, sender)
    BY <1>1, <1>2, SendExpiredType
  <1>3. CASE Busy(n) /\ run' = [run EXCEPT ![n] = rec] /\ UNCHANGED expiredCh
    <2>. HIDE DEF rec
    <2>. QED BY <1>1, <1>3 DEF TypeOK
  <1>. QED
    BY <1>2, <1>3 DEF Expire

\* The loaded runners are finitely many: they are the values of a map.
LEMMA ValuesFinite ==
  ASSUME NEW f \in [Keys -> Runners \cup {None}], NEW S \in SUBSET {f[k] : k \in Keys}
  PROVE  IsFiniteSet(S) /\ Cardinality(S) \in Nat
  <1>. DEFINE values == {f[k] : k \in Keys}
  <1>1. IsFiniteSet(values)
    <2>1. f \in Surjection(Keys, values)
      BY DEF Surjection
    <2>. QED
      BY <2>1, FS_Surjection, ConfigAssumption
  <1>2. IsFiniteSet(S)
    BY <1>1, FS_Subset
  <1>. QED
    BY <1>2, FS_CardinalityType

\* In particular LoadedRunners is finite, which its count needs.
LEMMA LoadedFinite ==
  ASSUME loaded \in [Keys -> Runners \cup {None}]
  PROVE  /\ LoadedRunners \subseteq Runners
         /\ IsFiniteSet(LoadedRunners)
         /\ Cardinality(LoadedRunners) \in Nat
  <1>1. LoadedRunners \in SUBSET {loaded[k] : k \in Keys} /\ LoadedRunners \subseteq Runners
    BY DEF LoadedRunners
  <1>. QED
    BY <1>1, ValuesFinite

\* Counting a reference up or down stays within a uint.
LEMMA RefType ==
  ASSUME NEW x \in 0 .. RefMod - 1
  PROVE  IncRef(x) \in 0 .. RefMod - 1 /\ DecRef(x) \in 0 .. RefMod - 1
  BY ConfigAssumption DEF IncRef, DecRef

\* An update of one runner with a well typed record.
LEMMA UpdateRun ==
  ASSUME TypeOK, NEW n \in Runners, NEW rec \in Runner, run' = [run EXCEPT ![n] = rec]
  PROVE  /\ run' \in [Runners -> Runner]
         /\ \A m \in Runners : run'[m] = IF m = n THEN rec ELSE run[m]
  BY DEF TypeOK

\* An update of one request that keeps it well typed.
LEMMA UpdateReq ==
  ASSUME TypeOK, SeenOK, NEW r \in Requests, NEW rec \in Request,
         rec.stage \in {"check", "use"} => rec.seen \in Runners,
         req' = [req EXCEPT ![r] = rec]
  PROVE  req' \in [Requests -> Request] /\ SeenOK'
  BY DEF TypeOK, SeenOK

\* useLoadedRunner touches no mutex and no server.
LEMMA UseLoadedRunnerType ==
  ASSUME TypeOK, SeenOK, NEW r \in Requests, NEW n \in Runners, UseLoadedRunner(r, n)
  PROVE  /\ run' \in [Runners -> Runner] /\ req' \in [Requests -> Request] /\ raced' \in BOOLEAN
         /\ SeenOK'
         /\ \A m \in Runners : run'[m].mu = run[m].mu /\ run'[m].server = run[m].server
  <1>. DEFINE ref == IncRef(run[n].ref)
              session == IF req[r].keep = None THEN run[n].session ELSE req[r].keep
              rec == [run[n] EXCEPT !.ref = ref, !.timer = "nil", !.session = session]
              request == [req[r] EXCEPT !.granted = n, !.watcher = "watching",
                                        !.stage = "submitted"]
  <1>1. req[r] \in Request /\ run[n] \in Runner
    BY DEF TypeOK
  <1>2. rec \in Runner /\ rec.mu = run[n].mu /\ rec.server = run[n].server
    <2>1. ref \in 0 .. RefMod - 1 /\ session \in KeepAlives \cup {0, Forever}
      BY <1>1, RefType DEF Runner, Request
    <2>. HIDE DEF ref, session
    <2>. QED
      BY <1>1, <2>1 DEF Runner
  <1>3. request \in Request /\ request.stage = "submitted"
    BY <1>1 DEF Request
  <1>4. run' = [run EXCEPT ![n] = rec] /\ req' = [req EXCEPT ![r] = request]
    BY <1>1 DEF UseLoadedRunner, Runner, Request, TypeOK
  <1>5. raced' \in BOOLEAN
    BY DEF UseLoadedRunner, TypeOK
  <1>. HIDE DEF rec, request
  <1>. QED
    BY <1>2, <1>3, <1>4, <1>5, UpdateRun, UpdateReq

-----------------------------------------------------------------------------
(* One lemma per group of actions, one step per action.                    *)

\* Each step of a handler, of getRunner and of a watcher keeps TypeInv.
LEMMA HandlerType ==
  ASSUME TypeInv, NEW r \in Requests, Handler(r)
  PROVE  TypeInv'
  <1>. USE DEF TypeInv
  <1>1. /\ req[r] \in Request /\ SeenOK
        /\ req[r].stage \in {"check", "use"} => req[r].seen \in Runners
    BY DEF TypeOK, ControlOK, SeenOK
  <1>2. CASE GetRunner(r)
    <2>. DEFINE n == loaded[KeyOf(r)]
                stage == IF n = None THEN "enqueue" ELSE "check"
                rec == [req[r] EXCEPT !.seen = n, !.stage = stage]
    <2>1. n \in Runners \cup {None} /\ stage \in {"enqueue", "check"}
      BY <1>1 DEF TypeOK, KeyOf, Request
    <2>2. rec \in Request /\ (rec.stage \in {"check", "use"} => rec.seen \in Runners)
      <3>0. stage = "check" => n # None
        OBVIOUS
      <3>. HIDE DEF n, stage
      <3>. QED BY <1>1, <2>1, <3>0 DEF Request
    <2>3. req' = [req EXCEPT ![r] = rec]
      BY <1>2 DEF GetRunner
    <2>4. req' \in [Requests -> Request] /\ SeenOK'
      <3>. HIDE DEF rec
      <3>. QED BY <1>1, <2>2, <2>3, UpdateReq
    <2>. QED
      BY <1>2, <2>4 DEF GetRunner, TypeOK, ControlOK, chans
  <1>3. CASE HandlerCheck(r)
    <2>1. PICK stage \in {"enqueue", "use"} : req' = [req EXCEPT ![r].stage = stage]
      BY <1>3 DEF HandlerCheck
    <2>2. req' \in [Requests -> Request] /\ SeenOK'
      BY <1>1, <1>3, <2>1 DEF TypeOK, Request, SeenOK, HandlerCheck
    <2>. QED
      BY <1>3, <2>2 DEF HandlerCheck, TypeOK, ControlOK, chans
  <1>4. CASE HandlerUse(r)
    <2>1. req[r].seen \in Runners
      BY <1>1, <1>4 DEF HandlerUse
    <2>. QED
      BY <1>4, <2>1, UseLoadedRunnerType DEF HandlerUse, TypeOK, ControlOK, chans
  <1>5. CASE HandlerEnqueue(r)
    <2>. DEFINE failed == IF Room(pendingCh) THEN req[r].failed ELSE "busy"
                rec == [req[r] EXCEPT !.stage = "submitted", !.failed = failed]
    <2>1. failed \in {"no", "busy", "error"}
      BY <1>1 DEF Request
    <2>2. rec \in Request /\ rec.stage = "submitted"
      <3>. HIDE DEF failed
      <3>. QED BY <1>1, <2>1 DEF Request
    <2>3. req' = [req EXCEPT ![r] = rec]
      BY <1>5 DEF HandlerEnqueue
    <2>4. req' \in [Requests -> Request] /\ SeenOK'
      <3>. HIDE DEF rec
      <3>. QED BY <1>1, <2>2, <2>3, UpdateReq
    <2>5. pendingCh' \in Seq(Requests)
      BY <1>5 DEF HandlerEnqueue, TypeOK
    <2>. QED
      BY <1>5, <2>4, <2>5 DEF HandlerEnqueue, TypeOK, ControlOK, chans
  <1>6. CASE CtxDone(r)
    <2>. DEFINE rec == [req[r] EXCEPT !.done = TRUE]
    <2>1. req' \in [Requests -> Request] /\ SeenOK'
      <3>1. rec \in Request /\ (rec.stage \in {"check", "use"} => rec.seen \in Runners)
        BY <1>1 DEF Request
      <3>2. req' = [req EXCEPT ![r] = rec]
        BY <1>6 DEF CtxDone
      <3>. HIDE DEF rec
      <3>. QED BY <1>1, <3>1, <3>2, UpdateReq
    <2>. QED
      BY <1>6, <2>1 DEF CtxDone, TypeOK, ControlOK, chans
  <1>7. CASE Watch(r)
    <2>. DEFINE rec == [req[r] EXCEPT !.watcher = "sent"]
    <2>1. req' \in [Requests -> Request] /\ SeenOK'
      <3>1. rec \in Request /\ (rec.stage \in {"check", "use"} => rec.seen \in Runners)
        BY <1>1 DEF Request
      <3>2. req' = [req EXCEPT ![r] = rec]
        BY <1>7 DEF Watch
      <3>. HIDE DEF rec
      <3>. QED BY <1>1, <3>1, <3>2, UpdateReq
    <2>2. finishedCh' \in Seq(Requests)
      BY <1>7 DEF Watch, TypeOK
    <2>. QED
      BY <1>7, <2>1, <2>2 DEF Watch, TypeOK, ControlOK, chans
  <1>. QED
    BY <1>2, <1>3, <1>4, <1>5, <1>6, <1>7 DEF Handler

\* So does each step by which processPending takes a request and places it,
LEMMA PendPlaceType ==
  ASSUME TypeInv, PendPlace
  PROVE  TypeInv'
  <1>. USE DEF TypeInv
  <1>1. pend \in Pend
    BY DEF TypeOK
  <1>2. CASE PendTake
    <2>1. Head(pendingCh) \in Requests /\ pendingCh' \in Seq(Requests)
      BY <1>2 DEF PendTake, TypeOK
    <2>2. pend' \in Pend
      BY <1>1, <1>2, <2>1 DEF PendTake, Pend
    <2>3. ControlOK'
      BY <1>1, <1>2, <2>1 DEF PendTake, ControlOK, SeenOK, Pend
    <2>. QED
      BY <1>2, <2>1, <2>2, <2>3 DEF PendTake, TypeOK
  <1>3. CASE PendUnloaded
    <2>1. unloadedCh' \in Nat
      BY <1>3 DEF PendUnloaded, TypeOK
    <2>2. pend' \in Pend
      BY <1>1, <1>3 DEF PendUnloaded, Pend
    <2>3. ControlOK'
      BY <1>1, <1>3 DEF PendUnloaded, ControlOK, SeenOK, Pend
    <2>. QED
      BY <1>3, <2>1, <2>2, <2>3 DEF PendUnloaded, TypeOK
  <1>4. CASE PendTop
    <2>1. /\ loaded[KeyOf(pend.req)] \in Runners \cup {None}
          /\ LoadedRunners \subseteq Runners
      BY <1>4, LoadedFinite DEF PendTop, ControlOK, TypeOK, KeyOf, Request
    <2>2. pend' \in Pend
      <3>. DEFINE nonempty == Cardinality(LoadedRunners) > 0
      <3>0. nonempty \in BOOLEAN /\ {} \in SUBSET Runners
        OBVIOUS
      <3>1. \/ \E n \in Runners : pend' = [pend EXCEPT !.pc = "check", !.target = n]
            \/ PendGoto("find")
            \/ \E full \in BOOLEAN, toLock \in SUBSET Runners :
                 pend' = [pend EXCEPT !.pc = "fit", !.full = full, !.todo = toLock]
        BY <1>4, <2>1, <3>0, Zenon DEF PendTop
      <3>. QED
        BY <1>1, <3>1, ZenonT(60) DEF PendGoto, Pend
    <2>3. ControlOK'
      BY <1>1, <1>4, <2>1 DEF PendTop, PendGoto, ControlOK, SeenOK, Pend
    <2>. QED
      BY <1>4, <2>2, <2>3 DEF PendTop, TypeOK, chans
  <1>5. CASE PendCheck
    <2>1. PICK pc \in {"expire", "use"} : PendGoto(pc)
      BY <1>5 DEF PendCheck
    <2>2. pend' \in Pend
      BY <1>1, <2>1 DEF PendGoto, Pend
    <2>3. ControlOK'
      BY <1>1, <1>5, <2>1 DEF PendCheck, PendGoto, ControlOK, SeenOK, Pend
    <2>. QED
      BY <1>5, <2>2, <2>3 DEF PendCheck, TypeOK, chans
  <1>6. CASE PendUse
    <2>1. pend.req \in Requests /\ pend.target \in Runners /\ SeenOK
      BY <1>6 DEF PendUse, ControlOK
    <2>2. /\ run' \in [Runners -> Runner] /\ req' \in [Requests -> Request] /\ raced' \in BOOLEAN
          /\ SeenOK'
          /\ \A m \in Runners : run'[m].mu = run[m].mu
      BY <1>6, <2>1, UseLoadedRunnerType DEF PendUse
    <2>3. pend' \in Pend
      BY <1>1, <1>6 DEF PendUse, PendDone, Pend
    <2>4. ControlOK'
      BY <1>1, <1>6, <2>2 DEF PendUse, PendDone, ControlOK, Pend
    <2>. QED
      BY <1>6, <2>2, <2>3, <2>4 DEF PendUse, TypeOK, chans
  <1>. QED
    BY <1>2, <1>3, <1>4, <1>5, <1>6 DEF PendPlace

\* After a load that needs room the loop keeps its request.
LEMMA PendNeedEvictType ==
  ASSUME TypeInv, pend.req \in Requests, NEW retried \in BOOLEAN, PendNeedEvict(retried)
  PROVE  /\ pend' \in Pend /\ pend'.req = pend.req
         /\ pend'.pc \in {"top", "evictAll", "find"}
  BY DEF TypeInv, TypeOK, PendNeedEvict, PendGoto, Pend

\* each step of load and of updateFreeSpace,
LEMMA PendLoadType ==
  ASSUME TypeInv, PendLoad
  PROVE  TypeInv'
  <1>. USE DEF TypeInv
  <1>1. /\ pend \in Pend /\ pend.pc \in {"fit", "loading"}
        /\ pend.req \in Requests /\ req[pend.req] \in Request /\ run[pend.req] \in Runner
        /\ SeenOK
        /\ req[pend.req].stage \in {"check", "use"} => req[pend.req].seen \in Runners
        /\ \A m \in Runners : run[m].mu # "pending"
    BY DEF TypeOK, ControlOK, SeenOK, PendLoad, PendUpdateFreeSpace, PendNoServer,
           PendPreflight, PendSpawn, PendResume, PendLoadOk, PendLoadTooBig, PendLoadFails,
           PendLoadFailsNil, CanLoad, Runners
  <1>2. CASE PendUpdateFreeSpace
    <2>1. pend' \in Pend
      BY <1>1, <1>2 DEF PendUpdateFreeSpace, Pend
    <2>2. ControlOK'
      BY <1>1, <1>2 DEF PendUpdateFreeSpace, ControlOK, SeenOK, Pend
    <2>. QED
      BY <1>2, <2>1, <2>2 DEF PendUpdateFreeSpace, TypeOK, chans
  <1>3. CASE PendNoServer
    <2>. DEFINE rec == [req[pend.req] EXCEPT !.failed = "error"]
    <2>1. req' \in [Requests -> Request] /\ SeenOK'
      <3>1. rec \in Request /\ (rec.stage \in {"check", "use"} => rec.seen \in Runners)
        BY <1>1 DEF Request
      <3>2. req' = [req EXCEPT ![pend.req] = rec]
        BY <1>3 DEF PendNoServer
      <3>. HIDE DEF rec
      <3>. QED BY <1>1, <3>1, <3>2, UpdateReq
    <2>2. pend' \in Pend
      BY <1>1, <1>3 DEF PendNoServer, PendDone, Pend
    <2>3. ControlOK'
      BY <1>1, <1>3, <2>1 DEF PendNoServer, PendDone, ControlOK, Pend
    <2>. QED
      BY <1>3, <2>1, <2>2, <2>3 DEF PendNoServer, TypeOK, chans
  <1>4. CASE PendPreflight \/ PendLoadTooBig
    <2>1. /\ pend' \in Pend /\ pend'.req = pend.req
          /\ pend'.pc \in {"top", "evictAll", "find"}
      BY <1>1, <1>4, PendNeedEvictType DEF PendPreflight, PendLoadTooBig, Request
    <2>2. ControlOK'
      BY <1>1, <1>4, <2>1 DEF PendPreflight, PendLoadTooBig, ControlOK, SeenOK
    <2>. QED
      BY <1>4, <2>1, <2>2 DEF PendPreflight, PendLoadTooBig, TypeOK, chans
  <1>5. CASE PendSpawn
    <2>. DEFINE rec == [run[pend.req] EXCEPT !.server = "open"]
    <2>1. rec \in Runner /\ rec.mu # "pending"
      BY <1>1 DEF Runner, Runners
    <2>2. /\ run' \in [Runners -> Runner]
          /\ \A m \in Runners : run'[m].mu # "pending"
      <3>1. run' = [run EXCEPT ![pend.req] = rec]
        BY <1>5 DEF PendSpawn
      <3>. HIDE DEF rec
      <3>. QED BY <1>1, <2>1, <3>1, UpdateRun DEF Runners
    <2>3. pend' \in Pend
      BY <1>1, <1>5 DEF PendSpawn, PendGoto, Pend
    <2>4. ControlOK'
      BY <1>1, <1>5, <2>2 DEF PendSpawn, PendGoto, ControlOK, SeenOK, Pend
    <2>. QED
      BY <1>1, <1>5, <2>2, <2>3, <2>4 DEF PendSpawn, TypeOK, chans, Runners
  <1>6. CASE PendResume
    <2>1. PICK pc \in {"loading", "panic"} : PendGoto(pc)
      BY <1>6 DEF PendResume
    <2>2. pend' \in Pend
      BY <1>1, <2>1 DEF PendGoto, Pend
    <2>3. ControlOK'
      BY <1>1, <1>6, <2>1 DEF PendResume, PendGoto, ControlOK, SeenOK, Pend
    <2>. QED
      BY <1>6, <2>2, <2>3 DEF PendResume, TypeOK, chans
  <1>7. CASE PendLoadOk
    <2>. DEFINE n == pend.req
                old == loaded[KeyOf(n)]
                session == IF req[n].keep = None THEN DefaultKeepAlive ELSE req[n].keep
                rec(x) == IF x = n THEN [run[n] EXCEPT !.mu = "loader", !.session = session]
                          ELSE IF x = old THEN [run[x] EXCEPT !.server = "closed", !.timer = "nil"]
                          ELSE run[x]
    <2>1. session \in KeepAlives \cup {0, Forever} /\ KeyOf(n) \in Keys
      BY <1>1, ConfigAssumption DEF Request, KeyOf
    <2>2. \A x \in Runners : rec(x) \in Runner /\ rec(x).mu # "pending"
      <3>. TAKE x \in Runners
      <3>1. run[x] \in Runner /\ run[x].mu # "pending"
        BY <1>1 DEF TypeOK
      <3>2. CASE x = n
        <4>. HIDE DEF session
        <4>. QED BY <1>1, <2>1, <3>1, <3>2 DEF Runner
      <3>3. CASE x # n /\ x = old
        BY <3>1, <3>3, ZenonT(120) DEF Runner
      <3>. QED
        BY <3>1, <3>2, <3>3
    <2>3. run' = [x \in Runners |-> rec(x)]
      BY <1>7 DEF PendLoadOk
    <2>4. run' \in [Runners -> Runner] /\ \A m \in Runners : run'[m].mu # "pending"
      <3>. HIDE DEF rec
      <3>. QED BY <2>2, <2>3
    <2>5. loaded' \in [Keys -> Runners \cup {None}] /\ activeLoading' \in Runners \cup {None}
      BY <1>1, <1>7, <2>1 DEF PendLoadOk, TypeOK, Runners
    <2>6. pend' \in Pend
      BY <1>1, <1>7 DEF PendLoadOk, PendDone, Pend
    <2>7. ControlOK'
      BY <1>1, <1>7, <2>4 DEF PendLoadOk, PendDone, ControlOK, SeenOK, Pend
    <2>. QED
      BY <1>7, <2>4, <2>5, <2>6, <2>7 DEF PendLoadOk, TypeOK, chans
  <1>8. CASE PendLoadFails
    <2>. DEFINE rec == [run[activeLoading] EXCEPT !.server = "closed"]
    <2>1. activeLoading \in Runners
      BY <1>8 DEF PendLoadFails, TypeOK
    <2>2. rec \in Runner /\ rec.mu # "pending"
      <3>1. run[activeLoading] \in Runner
        BY <2>1 DEF TypeOK
      <3>. QED BY <1>1, <2>1, <3>1 DEF Runner
    <2>3. run' \in [Runners -> Runner] /\ \A m \in Runners : run'[m].mu # "pending"
      <3>1. run' = [run EXCEPT ![activeLoading] = rec]
        BY <1>8 DEF PendLoadFails, AbortLoading
      <3>. HIDE DEF rec
      <3>. QED BY <1>1, <2>1, <2>2, <3>1, UpdateRun
    <2>4. /\ req' \in [Requests -> Request] /\ SeenOK'
          /\ pend' \in Pend
          /\ pend'.pc \in {"top", "evictAll", "find", "select"}
          /\ pend'.pc # "select" => pend'.req = pend.req
      <3>1. CASE req' = [req EXCEPT ![pend.req].oom = TRUE] /\ PendNeedEvict(TRUE)
        <4>. DEFINE q == [req[pend.req] EXCEPT !.oom = TRUE]
        <4>1. q \in Request /\ (q.stage \in {"check", "use"} => q.seen \in Runners)
          BY <1>1 DEF Request
        <4>2. req' = [req EXCEPT ![pend.req] = q]
          BY <3>1
        <4>3. req' \in [Requests -> Request] /\ SeenOK'
          <5>. HIDE DEF q
          <5>. QED BY <1>1, <4>1, <4>2, UpdateReq
        <4>. QED
          BY <1>1, <3>1, <4>3, PendNeedEvictType
      <3>2. CASE req' = [req EXCEPT ![pend.req].failed = "error"] /\ PendDone
        <4>. DEFINE q == [req[pend.req] EXCEPT !.failed = "error"]
        <4>1. q \in Request /\ (q.stage \in {"check", "use"} => q.seen \in Runners)
          BY <1>1 DEF Request
        <4>2. req' = [req EXCEPT ![pend.req] = q]
          BY <3>2
        <4>3. req' \in [Requests -> Request] /\ SeenOK'
          <5>. HIDE DEF q
          <5>. QED BY <1>1, <4>1, <4>2, UpdateReq
        <4>. QED
          BY <1>1, <3>2, <4>3 DEF PendDone, Pend
      <3>. QED
        BY <1>8, <3>1, <3>2 DEF PendLoadFails
    <2>5. ControlOK'
      BY <1>1, <1>8, <2>3, <2>4 DEF PendLoadFails, ControlOK
    <2>. QED
      BY <1>8, <2>3, <2>4, <2>5 DEF PendLoadFails, AbortLoading, TypeOK, chans
  <1>9. CASE PendLoadFailsNil
    BY <1>9 DEF PendLoadFailsNil, TypeOK, ControlOK, SeenOK, chans
  <1>. QED
    BY <1>2, <1>3, <1>4, <1>5, <1>6, <1>7, <1>8, <1>9 DEF PendLoad

\* A sorted snapshot of some runners is a non-empty list of runners.
LEMMA OrdersType ==
  ASSUME NEW S \in SUBSET Runners, IsFiniteSet(S), S # {}, NEW q \in Orders(S)
  PROVE  q \in Seq(Runners) /\ q[1] \in Runners
  <1>1. Cardinality(S) \in Nat /\ Cardinality(S) # 0
    BY FS_CardinalityType, FS_EmptySet
  <1>2. q \in [1 .. Cardinality(S) -> S]
    BY DEF Orders
  <1>. QED
    BY <1>1, <1>2

\* each step of findRunnerToUnload and evictAllAndWait,
LEMMA PendMakeRoomType ==
  ASSUME TypeInv, PendMakeRoom
  PROVE  TypeInv'
  <1>. USE DEF TypeInv
  <1>1. pend \in Pend /\ pend.req \in Requests /\ \A m \in Runners : run[m].mu # "pending"
    BY DEF TypeOK, ControlOK, PendMakeRoom, PendFind, PendScan, PendExpire, PendEvictAll,
           PendEvict, PendEvictWait
  <1>2. CASE PendFind
    <2>1. \/ PendGoto("top")
          \/ \E q \in Seq(Runners) : q[1] \in Runners /\
               pend' = [pend EXCEPT !.pc = "scan", !.list = q, !.target = q[1]]
      <3>1. LoadedRunners \in SUBSET Runners /\ IsFiniteSet(LoadedRunners)
        BY LoadedFinite DEF TypeOK
      <3>. QED
        BY <1>2, <3>1, OrdersType DEF PendFind
    <2>2. pend' \in Pend
      BY <1>1, <2>1 DEF PendGoto, Pend
    <2>3. ControlOK'
      BY <1>1, <1>2, <2>1 DEF PendFind, PendGoto, ControlOK, SeenOK, Pend
    <2>. QED
      BY <1>2, <2>2, <2>3 DEF PendFind, TypeOK, chans
  <1>3. CASE PendScan
    <2>1. pend.list # <<>> => Head(pend.list) \in Runners /\ Tail(pend.list) \in Seq(Runners)
      BY <1>1 DEF Pend
    <2>2. pend' \in Pend
      <3>1. \/ PendGoto("expire")
            \/ \E n \in Runners, list \in Seq(Runners) :
                 pend' = [pend EXCEPT !.pc = "expire", !.target = n, !.list = list]
            \/ \E list \in Seq(Runners) : pend' = [pend EXCEPT !.list = list]
        <4>1. <<>> \in Seq(Runners)
          OBVIOUS
        <4>. QED
          BY <1>3, <2>1, <4>1, Zenon DEF PendScan
      <3>. QED
        BY <1>1, <3>1 DEF PendGoto, Pend
    <2>3. ControlOK'
      BY <1>1, <1>3, <2>1 DEF PendScan, PendGoto, ControlOK, SeenOK, Pend
    <2>. QED
      BY <1>3, <2>2, <2>3 DEF PendScan, TypeOK, chans
  <1>4. CASE PendExpire
    <2>. DEFINE n == pend.target
    <2>1. n \in Runners /\ Expire(n, "pending")
      BY <1>4 DEF PendExpire, ControlOK
    <2>2. /\ run' \in [Runners -> Runner] /\ expiredCh' \in Seq(Runners)
          /\ \A m \in Runners \ {n} : run'[m].mu # "pending"
          /\ run'[n].mu = IF ~Busy(n) /\ ~Room(expiredCh) THEN "pending" ELSE "free"
      BY <1>1, <2>1, ExpireType
    <2>3. pend' \in Pend
      BY <1>1, <1>4 DEF PendExpire, PendGoto, Pend
    <2>4. ControlOK'
      BY <1>1, <1>4, <2>2 DEF PendExpire, PendGoto, ControlOK, SeenOK, Pend
    <2>. QED
      BY <1>4, <2>2, <2>3, <2>4 DEF PendExpire, TypeOK
  <1>5. CASE PendEvictAll
    <2>. DEFINE others == {loaded[k] : k \in Keys \ {KeyOf(pend.req)}} \ {None}
                await == Cardinality(others)
    <2>1. /\ others \in SUBSET Runners /\ await \in Nat
          /\ others # {} => await > 0
      <3>1. LoadedRunners \in SUBSET Runners /\ IsFiniteSet(LoadedRunners)
        BY LoadedFinite DEF TypeOK
      <3>2. others \subseteq LoadedRunners
        BY DEF LoadedRunners
      <3>3. IsFiniteSet(others)
        BY <3>1, <3>2, FS_Subset
      <3>4. await \in Nat /\ (await = 0 <=> others = {})
        BY <3>3, FS_CardinalityType, FS_EmptySet
      <3>. QED
        BY <3>1, <3>2, <3>4
    <2>2. pend' = [pend EXCEPT !.pc = IF others = {} THEN "top" ELSE "evict",
                               !.todo = others, !.await = await]
      BY <1>5, Zenon DEF PendEvictAll
    <2>. HIDE DEF others, await
    <2>3. pend' \in Pend
      BY <1>1, <2>1, <2>2 DEF Pend
    <2>4. ControlOK'
      BY <1>1, <1>5, <2>1, <2>2 DEF PendEvictAll, ControlOK, SeenOK, Pend
    <2>. QED
      BY <1>5, <2>3, <2>4 DEF PendEvictAll, TypeOK, chans
  <1>6. CASE PendEvict
    <2>1. PICK n \in pend.todo :
            /\ Expire(n, "pending")
            /\ pend' = [pend EXCEPT !.todo = @ \ {n},
                          !.pc = IF ~Busy(n) /\ ~Room(expiredCh) THEN "sendMany" ELSE "evict"]
      BY <1>6 DEF PendEvict
    <2>2. n \in Runners
      BY <1>1 DEF Pend
    <2>3. /\ run' \in [Runners -> Runner] /\ expiredCh' \in Seq(Runners)
          /\ \A m \in Runners \ {n} : run'[m].mu # "pending"
          /\ run'[n].mu = IF ~Busy(n) /\ ~Room(expiredCh) THEN "pending" ELSE "free"
      BY <1>1, <2>1, <2>2, ExpireType
    <2>4. pend' \in Pend
      BY <1>1, <2>1 DEF Pend
    <2>5. ControlOK'
      BY <1>1, <1>6, <2>1, <2>3 DEF PendEvict, ControlOK, SeenOK, Pend
    <2>. QED
      BY <1>6, <2>3, <2>4, <2>5 DEF PendEvict, TypeOK
  <1>7. CASE PendEvictWait
    <2>1. unloadedCh' \in Nat /\ pend.await \in Nat /\ pend.await > 0
      BY <1>1, <1>7 DEF PendEvictWait, TypeOK, ControlOK, Pend
    <2>2. pend' \in Pend
      <3>1. PICK await \in Nat, pc \in {"top", "evict"} :
              pend' = [pend EXCEPT !.await = await, !.pc = pc]
        <4>1. pend.await - 1 \in Nat
          BY <2>1
        <4>. QED
          BY <1>7, <4>1, Zenon DEF PendEvictWait
      <3>. QED
        BY <1>1, <3>1 DEF Pend
    <2>3. ControlOK'
      BY <1>1, <1>7, <2>1 DEF PendEvictWait, ControlOK, SeenOK, Pend
    <2>. QED
      BY <1>7, <2>1, <2>2, <2>3 DEF PendEvictWait, TypeOK
  <1>. QED
    BY <1>2, <1>3, <1>4, <1>5, <1>6, <1>7 DEF PendMakeRoom

\* the goroutine that waits for a new runner,
LEMMA LoaderType ==
  ASSUME TypeInv, NEW n \in Runners, Loader(n)
  PROVE  TypeInv'
  <1>. USE DEF TypeInv
  <1>1. /\ req[n] \in Request /\ run[n] \in Runner /\ SeenOK
        /\ req[n].stage \in {"check", "use"} => req[n].seen \in Runners
    BY DEF TypeOK, ControlOK, SeenOK, Runners
  <1>2. CASE LoaderReady(n)
    <2>. DEFINE ref == IncRef(run[n].ref)
                rec == [run[n] EXCEPT !.mu = "free", !.ref = ref]
                q == [req[n] EXCEPT !.granted = n, !.watcher = "watching"]
    <2>1. rec \in Runner /\ rec.mu = "free"
      <3>1. ref \in 0 .. RefMod - 1
        BY <1>1, RefType DEF Runner
      <3>. HIDE DEF ref
      <3>. QED BY <1>1, <3>1 DEF Runner
    <2>2. q \in Request /\ (q.stage \in {"check", "use"} => q.seen \in Runners)
      BY <1>1 DEF Request
    <2>3. run' = [run EXCEPT ![n] = rec] /\ req' = [req EXCEPT ![n] = q]
      BY <1>2 DEF LoaderReady
    <2>4. /\ run' \in [Runners -> Runner] /\ req' \in [Requests -> Request] /\ SeenOK'
          /\ \A m \in Runners : run'[m] = IF m = n THEN rec ELSE run[m]
      <3>. HIDE DEF rec, q
      <3>. QED BY <1>1, <2>1, <2>2, <2>3, UpdateRun, UpdateReq DEF Runners
    <2>5. ControlOK'
      <3>. HIDE DEF rec
      <3>. QED BY <1>2, <2>1, <2>4 DEF LoaderReady, ControlOK
    <2>. QED
      BY <1>2, <2>4, <2>5 DEF LoaderReady, TypeOK, chans
  <1>3. CASE LoaderFails(n)
    <2>. DEFINE q == [req[n] EXCEPT !.failed = "error"]
    <2>1. req' \in [Requests -> Request] /\ SeenOK'
      <3>1. q \in Request /\ (q.stage \in {"check", "use"} => q.seen \in Runners)
        BY <1>1 DEF Request
      <3>2. req' = [req EXCEPT ![n] = q]
        BY <1>3 DEF LoaderFails
      <3>. HIDE DEF q
      <3>. QED BY <1>1, <3>1, <3>2, UpdateReq DEF Runners
    <2>2. /\ run' \in [Runners -> Runner] /\ expiredCh' \in Seq(Runners)
          /\ \A m \in Runners \ {n} : run'[m] = run[m]
          /\ run'[n].mu # "pending"
      BY <1>1, <1>3, SendExpiredType DEF LoaderFails
    <2>3. ControlOK'
      BY <1>3, <2>1, <2>2 DEF LoaderFails, ControlOK
    <2>. QED
      BY <1>3, <2>1, <2>2, <2>3 DEF LoaderFails, TypeOK
  <1>. QED
    BY <1>2, <1>3 DEF Loader

\* each step of processCompleted,
LEMMA ProcessCompletedType ==
  ASSUME TypeInv, ProcessCompleted
  PROVE  TypeInv'
  <1>. USE DEF TypeInv
  <1>1. comp \in Comp
    BY DEF TypeOK
  <1>2. CASE CompTakeFinished
    <2>. DEFINE r == Head(finishedCh)
                n == loaded[KeyOf(r)]
    <2>1. r \in Requests /\ finishedCh' \in Seq(Requests)
      BY <1>2 DEF CompTakeFinished, TypeOK
    <2>2. n \in Runners \cup {None}
      BY <2>1 DEF TypeOK, Request, KeyOf
    <2>3. comp' \in Comp /\ (comp' = comp \/ comp'.run \in Runners)
      BY <1>1, <1>2, <2>1, <2>2 DEF CompTakeFinished, Comp
    <2>4. ControlOK'
      BY <1>2, <2>3 DEF CompTakeFinished, ControlOK, SeenOK
    <2>. QED
      BY <1>2, <2>1, <2>3, <2>4 DEF CompTakeFinished, TypeOK
  <1>3. CASE CompFinish
    <2>. DEFINE n == comp.run
                ref == DecRef(run[n].ref)
                rec == [run[n] EXCEPT !.ref = ref]
    <2>1. n \in Runners /\ run[n] \in Runner /\ run[n].mu = "free"
      BY <1>3 DEF CompFinish, ControlOK, TypeOK, Free
    <2>2. \A timer \in {"nil", "armed"} :
            /\ [rec EXCEPT !.timer = timer] \in Runner
            /\ [rec EXCEPT !.timer = timer].mu = "free"
      <3>1. ref \in 0 .. RefMod - 1
        BY <2>1, RefType DEF Runner
      <3>. HIDE DEF ref, n
      <3>. QED BY <2>1, <3>1 DEF Runner
    <2>3. rec \in Runner /\ rec.mu = "free"
      <3>1. ref \in 0 .. RefMod - 1
        BY <2>1, RefType DEF Runner
      <3>. HIDE DEF ref, n
      <3>. QED BY <2>1, <3>1 DEF Runner
    <2>4. comp' \in Comp /\ comp'.pc \in {"select", "sending"}
      BY <1>1, <1>3 DEF CompFinish, CompDone, CompGoto, Comp
    <2>5. \/ SendExpired(n, [rec EXCEPT !.timer = "nil"], "completed")
          \/ \E new \in {rec, [rec EXCEPT !.timer = "armed"]} :
               run' = [run EXCEPT ![n] = new] /\ expiredCh' = expiredCh
      BY <1>3, Zenon DEF CompFinish
    <2>6. /\ run' \in [Runners -> Runner] /\ expiredCh' \in Seq(Runners)
          /\ \A m \in Runners \ {n} : run'[m] = run[m]
          /\ run'[n].mu # "pending"
      <3>. HIDE DEF n, rec
      <3>1. CASE SendExpired(n, [rec EXCEPT !.timer = "nil"], "completed")
        BY <2>1, <2>2, <3>1, SendExpiredType
      <3>2. CASE \E new \in {rec, [rec EXCEPT !.timer = "armed"]} :
                   run' = [run EXCEPT ![n] = new] /\ expiredCh' = expiredCh
        <4>1. PICK new \in {rec, [rec EXCEPT !.timer = "armed"]} :
                     run' = [run EXCEPT ![n] = new] /\ expiredCh' = expiredCh
          BY <3>2
        <4>2. new \in Runner /\ new.mu = "free"
          BY <2>2, <2>3, <4>1
        <4>3. expiredCh' \in Seq(Runners)
          BY <4>1 DEF TypeOK
        <4>. QED
          BY <2>1, <4>1, <4>2, <4>3, UpdateRun
      <3>. QED
        BY <2>5, <3>1, <3>2
    <2>7. ControlOK'
      <3>. HIDE DEF n
      <3>. QED BY <1>3, <2>4, <2>6 DEF CompFinish, ControlOK, SeenOK
    <2>. QED
      BY <1>3, <2>4, <2>6, <2>7 DEF CompFinish, TypeOK
  <1>4. CASE CompTakeExpired
    <2>1. Head(expiredCh) \in Runners /\ expiredCh' \in Seq(Runners)
      BY <1>4 DEF CompTakeExpired, TypeOK
    <2>2. comp' \in Comp /\ comp'.run \in Runners
      BY <1>4, <2>1 DEF CompTakeExpired, Comp
    <2>3. ControlOK'
      BY <1>4, <2>2 DEF CompTakeExpired, ControlOK, SeenOK
    <2>. QED
      BY <1>4, <2>1, <2>2, <2>3 DEF CompTakeExpired, TypeOK
  <1>5. CASE CompRetryLater
    <2>. DEFINE n == comp.run
                rec == [run[n] EXCEPT !.retrying = @ + 1]
    <2>1. n \in Runners /\ run[n] \in Runner /\ run[n].mu = "free"
      BY <1>5 DEF CompRetryLater, ControlOK, TypeOK, Free
    <2>2. rec \in Runner /\ rec.mu = "free"
      <3>. HIDE DEF n
      <3>. QED BY <2>1 DEF Runner
    <2>3. run' \in [Runners -> Runner] /\ \A m \in Runners : run'[m] = IF m = n THEN rec ELSE run[m]
      <3>1. run' = [run EXCEPT ![n] = rec]
        BY <1>5 DEF CompRetryLater
      <3>. HIDE DEF n, rec
      <3>. QED BY <2>1, <2>2, <3>1, UpdateRun
    <2>4. comp' \in Comp /\ comp'.pc = "select"
      BY <1>5 DEF CompRetryLater, CompDone, Comp
    <2>5. ControlOK'
      <3>. HIDE DEF n, rec
      <3>. QED BY <1>5, <2>2, <2>3, <2>4 DEF CompRetryLater, ControlOK, SeenOK
    <2>. QED
      BY <1>5, <2>3, <2>4, <2>5 DEF CompRetryLater, TypeOK, chans
  <1>6. CASE CompExpire
    <2>. DEFINE n == comp.run
                closed(mu) == [run[n] EXCEPT !.server = "closed", !.timer = "nil", !.mu = mu]
    <2>1. n \in Runners /\ run[n] \in Runner
      BY <1>6 DEF CompExpire, ControlOK, TypeOK
    <2>2. \A mu \in {"free", "draining"} : closed(mu) \in Runner /\ closed(mu).mu # "pending"
      <3>. HIDE DEF n
      <3>. QED BY <2>1 DEF Runner
    <2>3. \/ run' = run
          \/ \E mu \in {"free", "draining"} : run' = [run EXCEPT ![n] = closed(mu)]
      BY <1>6 DEF CompExpire
    <2>4. /\ run' \in [Runners -> Runner]
          /\ \A m \in Runners : run'[m] = run[m] \/ run'[m].mu # "pending"
      <3>. HIDE DEF n, closed
      <3>1. CASE run' = run
        BY <3>1 DEF TypeOK
      <3>2. CASE \E mu \in {"free", "draining"} : run' = [run EXCEPT ![n] = closed(mu)]
        BY <2>1, <2>2, <3>2, UpdateRun
      <3>. QED
        BY <2>3, <3>1, <3>2
    <2>5. loaded' \in [Keys -> Runners \cup {None}]
      BY <1>6 DEF CompExpire, TypeOK
    <2>6. comp' \in Comp /\ (comp'.pc = "vram" => comp'.run \in Runners)
                         /\ comp'.pc \in {"select", "vram"}
      BY <1>1, <1>6, <2>1 DEF CompExpire, CompDone, CompGoto, Comp
    <2>7. ControlOK'
      BY <1>6, <2>4, <2>6 DEF CompExpire, ControlOK, SeenOK
    <2>. QED
      BY <1>6, <2>4, <2>5, <2>6, <2>7 DEF CompExpire, TypeOK, chans
  <1>7. CASE CompRecovered
    <2>. DEFINE n == comp.run
                rec == [run[n] EXCEPT !.mu = "free"]
    <2>1. n \in Runners /\ run[n] \in Runner
      BY <1>7 DEF CompRecovered, ControlOK, TypeOK
    <2>2. rec \in Runner /\ rec.mu = "free"
      <3>. HIDE DEF n
      <3>. QED BY <2>1 DEF Runner
    <2>3. run' \in [Runners -> Runner] /\ \A m \in Runners : run'[m] = IF m = n THEN rec ELSE run[m]
      <3>1. run' = [run EXCEPT ![n] = rec]
        BY <1>7 DEF CompRecovered
      <3>. HIDE DEF n, rec
      <3>. QED BY <2>1, <2>2, <3>1, UpdateRun
    <2>4. comp' \in Comp /\ comp'.pc = "notify"
      BY <1>1, <1>7 DEF CompRecovered, CompGoto, Comp
    <2>5. ControlOK'
      <3>. HIDE DEF n, rec
      <3>. QED BY <1>7, <2>2, <2>3, <2>4 DEF CompRecovered, ControlOK, SeenOK
    <2>. QED
      BY <1>7, <2>3, <2>4, <2>5 DEF CompRecovered, TypeOK, chans
  <1>8. CASE CompNotify
    <2>1. comp' \in Comp /\ comp'.pc = "select" /\ unloadedCh' \in Nat
      BY <1>8 DEF CompNotify, CompDone, Comp, TypeOK
    <2>2. ControlOK'
      BY <1>8, <2>1 DEF CompNotify, ControlOK, SeenOK
    <2>. QED
      BY <1>8, <2>1, <2>2 DEF CompNotify, TypeOK
  <1>. QED
    BY <1>2, <1>3, <1>4, <1>5, <1>6, <1>7, <1>8 DEF ProcessCompleted

\* timers, delayed events and senders that wait for room,
LEMMA EventsType ==
  ASSUME TypeInv, NEW n \in Runners, Events(n)
  PROVE  TypeInv'
  <1>. USE DEF TypeInv
  <1>1. run[n] \in Runner
    BY DEF TypeOK
  <1>2. CASE TimerFires(n)
    <2>. DEFINE rec == [run[n] EXCEPT !.timer = "elapsed", !.fired = @ + 1]
    <2>1. rec \in Runner /\ rec.mu = run[n].mu
      <3>1. run[n].fired + 1 \in Nat
        BY <1>1 DEF Runner
      <3>2. \A fired \in Nat : LET q == [run[n] EXCEPT !.timer = "elapsed", !.fired = fired] IN
                               q \in Runner /\ q.mu = run[n].mu
        BY <1>1 DEF Runner
      <3>. QED
        BY <3>1, <3>2, Zenon
    <2>2. run' \in [Runners -> Runner] /\ \A m \in Runners : run'[m] = IF m = n THEN rec ELSE run[m]
      <3>1. run' = [run EXCEPT ![n] = rec]
        BY <1>2 DEF TimerFires
      <3>. HIDE DEF rec
      <3>. QED BY <2>1, <3>1, UpdateRun
    <2>3. ControlOK'
      <3>. HIDE DEF rec
      <3>. QED BY <1>2, <2>1, <2>2 DEF TimerFires, ControlOK, SeenOK
    <2>. QED
      BY <1>2, <2>2, <2>3 DEF TimerFires, TypeOK, chans
  <1>3. CASE TimerCallback(n)
    <2>. DEFINE rec == [run[n] EXCEPT !.fired = @ - 1, !.timer = "nil"]
    <2>1. rec \in Runner
      <3>1. run[n].fired - 1 \in Nat
        BY <1>1, <1>3 DEF TimerCallback, Runner
      <3>2. \A fired \in Nat : [run[n] EXCEPT !.fired = fired, !.timer = "nil"] \in Runner
        BY <1>1 DEF Runner
      <3>. QED
        BY <3>1, <3>2, Zenon
    <2>2. /\ run' \in [Runners -> Runner] /\ expiredCh' \in Seq(Runners)
          /\ \A m \in Runners \ {n} : run'[m] = run[m]
          /\ run'[n].mu # "pending"
      <3>1. SendExpired(n, rec, "timer")
        BY <1>3 DEF TimerCallback
      <3>. HIDE DEF rec
      <3>. QED BY <2>1, <3>1, SendExpiredType
    <2>3. ControlOK'
      BY <1>3, <2>2 DEF TimerCallback, ControlOK, SeenOK
    <2>. QED
      BY <1>3, <2>2, <2>3 DEF TimerCallback, TypeOK
  <1>4. CASE RetryExpired(n)
    <2>. DEFINE rec == [run[n] EXCEPT !.retrying = @ - 1]
    <2>1. rec \in Runner /\ rec.mu = run[n].mu
      <3>1. run[n].retrying - 1 \in Nat
        BY <1>1, <1>4 DEF RetryExpired, Runner
      <3>2. \A retrying \in Nat : LET q == [run[n] EXCEPT !.retrying = retrying] IN
                                  q \in Runner /\ q.mu = run[n].mu
        BY <1>1 DEF Runner
      <3>. QED
        BY <3>1, <3>2, Zenon
    <2>2. run' \in [Runners -> Runner] /\ \A m \in Runners : run'[m] = IF m = n THEN rec ELSE run[m]
      <3>1. run' = [run EXCEPT ![n] = rec]
        BY <1>4 DEF RetryExpired
      <3>. HIDE DEF rec
      <3>. QED BY <2>1, <3>1, UpdateRun
    <2>3. expiredCh' \in Seq(Runners)
      BY <1>4 DEF RetryExpired, TypeOK
    <2>4. ControlOK'
      <3>. HIDE DEF rec
      <3>. QED BY <1>4, <2>1, <2>2 DEF RetryExpired, ControlOK, SeenOK
    <2>. QED
      BY <1>4, <2>2, <2>3, <2>4 DEF RetryExpired, TypeOK
  <1>5. CASE BlockedSend(n)
    <2>. DEFINE sender == run[n].mu
    <2>1. /\ run' \in [Runners -> Runner] /\ expiredCh' \in Seq(Runners)
          /\ \A m \in Runners \ {n} : run'[m] = run[m]
          /\ run'[n].mu = "free"
      BY <1>1, <1>5, SendExpiredType DEF BlockedSend
    <2>2. pend' \in Pend
      BY <1>5 DEF BlockedSend, TypeOK, Pend
    <2>3. comp' \in Comp /\ (comp' = comp \/ comp'.pc = "select")
      BY <1>5 DEF BlockedSend, CompDone, TypeOK, Comp
    <2>4. CASE sender = "pending"
      <3>1. /\ pend.pc \in {"sendOne", "sendMany"}
            /\ \A m \in Runners : run[m].mu = "pending" => m = n
        BY <2>4 DEF ControlOK
      <3>2. \A m \in Runners : run'[m].mu # "pending"
        BY <2>1, <3>1
      <3>3. /\ pend'.req = pend.req /\ pend'.await = pend.await
            /\ pend'.pc = IF pend.pc = "sendOne" THEN "wait" ELSE "evict"
        BY <1>5, <2>4 DEF BlockedSend, TypeOK, Pend
      <3>4. ControlOK'
        BY <1>5, <2>3, <3>1, <3>2, <3>3 DEF BlockedSend, ControlOK, SeenOK
      <3>. QED
        BY <1>5, <2>1, <2>2, <2>3, <3>4 DEF BlockedSend, TypeOK
    <2>5. CASE sender # "pending"
      <3>1. pend' = pend
        BY <1>5, <2>5 DEF BlockedSend
      <3>2. ControlOK'
        BY <1>5, <2>1, <2>3, <2>5, <3>1 DEF BlockedSend, ControlOK, SeenOK
      <3>. QED
        BY <1>5, <2>1, <2>2, <2>3, <3>2 DEF BlockedSend, TypeOK
    <2>. QED
      BY <2>4, <2>5
  <1>. QED
    BY <1>2, <1>3, <1>4, <1>5 DEF Events

\* handlers that ask for an unload,
LEMMA ApiType ==
  ASSUME TypeInv, ApiLookup \/ ApiExpire
  PROVE  TypeInv'
  <1>. USE DEF TypeInv
  <1>1. api \in [todo: SUBSET Runners, calls: 0 .. MaxApiCalls] /\ MaxApiCalls \in Nat
    BY ConfigAssumption DEF TypeOK
  <1>2. CASE ApiLookup
    <2>1. LoadedRunners \subseteq Runners
      BY LoadedFinite DEF TypeOK
    <2>2. api' \in [todo: SUBSET Runners, calls: 0 .. MaxApiCalls]
      <3>1. PICK S \in SUBSET Runners : api' = [todo |-> S, calls |-> api.calls + 1]
        BY <1>2, <2>1 DEF ApiLookup
      <3>2. api.calls + 1 \in 0 .. MaxApiCalls
        BY <1>1, <1>2 DEF ApiLookup
      <3>. QED
        BY <3>1, <3>2
    <2>. QED
      BY <1>2, <2>2 DEF ApiLookup, TypeOK, ControlOK, SeenOK, chans
  <1>3. CASE ApiExpire
    <2>1. PICK n \in api.todo : Expire(n, "api") /\ api' = [api EXCEPT !.todo = @ \ {n}]
      BY <1>3 DEF ApiExpire
    <2>2. n \in Runners
      BY <1>1
    <2>3. /\ run' \in [Runners -> Runner] /\ expiredCh' \in Seq(Runners)
          /\ \A m \in Runners \ {n} : run'[m] = run[m]
          /\ run'[n].mu # "pending"
      BY <2>1, <2>2, ExpireType
    <2>4. api' \in [todo: SUBSET Runners, calls: 0 .. MaxApiCalls]
      BY <1>1, <2>1
    <2>5. ControlOK'
      BY <1>3, <2>3 DEF ApiExpire, ControlOK, SeenOK
    <2>. QED
      BY <1>3, <2>3, <2>4, <2>5 DEF ApiExpire, TypeOK
  <1>. QED
    BY <1>2, <1>3

\* and each step of the shutdown.
LEMMA ShutdownType ==
  ASSUME TypeInv, Shutdown
  PROVE  TypeInv'
  <1>. USE DEF TypeInv
  <1>1. CASE Signal \/ Exit
    BY <1>1 DEF Signal, Exit, TypeOK, ControlOK, SeenOK, chans
  <1>2. CASE CloseActive \/ CloseLoaded
    <2>1. \A n \in Runners : LET rec == [run[n] EXCEPT !.server = "closed"] IN
                             rec \in Runner /\ rec.mu = run[n].mu
      <3>1. \A rec \in Runner : LET q == [rec EXCEPT !.server = "closed"] IN
                                q \in Runner /\ q.mu = rec.mu
        BY DEF Runner
      <3>. QED
        BY <3>1 DEF TypeOK
    <2>2. \A n \in Runners : run'[n] = run[n] \/ run'[n] = [run[n] EXCEPT !.server = "closed"]
      BY <1>2 DEF CloseActive, CloseLoaded
    <2>3. \A n \in Runners : run'[n] \in Runner /\ run'[n].mu = run[n].mu
      BY <2>1, <2>2 DEF TypeOK
    <2>4. run' \in [Runners -> Runner]
      <3>1. run' = [n \in Runners |-> run'[n]]
        BY <1>2, Zenon DEF CloseActive, CloseLoaded
      <3>. QED
        BY <2>3, <3>1
    <2>5. ControlOK'
      BY <1>2, <2>3 DEF CloseActive, CloseLoaded, ControlOK, SeenOK
    <2>. QED
      BY <1>2, <2>4, <2>5 DEF CloseActive, CloseLoaded, TypeOK, chans
  <1>3. CASE LoopsStop
    <2>1. pend' \in Pend /\ comp' \in Comp
      BY <1>3 DEF LoopsStop, PendGoto, CompGoto, TypeOK, Pend, Comp
    <2>2. \/ comp' = comp /\ pend'.pc = "stopped"
          \/ pend' = pend /\ comp'.pc = "stopped"
      BY <1>3 DEF LoopsStop, PendGoto, CompGoto, TypeOK, Pend, Comp
    <2>3. ControlOK'
      BY <1>3, <2>2 DEF LoopsStop, ControlOK, SeenOK
    <2>. QED
      BY <1>3, <2>1, <2>3 DEF LoopsStop, TypeOK, chans
  <1>. QED
    BY <1>1, <1>2, <1>3 DEF Shutdown

\* TypeInv holds at the start,
LEMMA TypeInit == Init => TypeInv
  <1>. SUFFICES ASSUME Init PROVE TypeInv
    OBVIOUS
  <1>1. req \in [Requests -> Request] /\ SeenOK
    <2>1. PICK w \in Workloads :
            req = [r \in Requests |->
                     [key |-> w[r].key, keep |-> w[r].keep, stage |-> "new", seen |-> None,
                      done |-> FALSE, granted |-> None, failed |-> "no",
                      watcher |-> "none", oom |-> FALSE]]
      BY DEF Init
    <2>2. \A r \in Requests : w[r].key \in Keys /\ w[r].keep \in KeepAlives \cup {None}
      BY ConfigAssumption
    <2>. QED
      BY <2>1, <2>2 DEF Request, SeenOK
  <1>2. run \in [Runners -> Runner] /\ \A n \in Runners : run[n].mu = "free"
    BY ConfigAssumption DEF Init, Runner
  <1>3. pend \in Pend /\ pend.pc = "select" /\ comp \in Comp /\ comp.pc = "select"
    BY DEF Init, Pend, Comp
  <1>4. /\ pendingCh \in Seq(Requests) /\ finishedCh \in Seq(Requests)
        /\ expiredCh \in Seq(Runners) /\ unloadedCh \in Nat
    BY DEF Init
  <1>5. api \in [todo: SUBSET Runners, calls: 0 .. MaxApiCalls]
    BY ConfigAssumption DEF Init
  <1>6. /\ loaded \in [Keys -> Runners \cup {None}] /\ activeLoading \in Runners \cup {None}
        /\ phase = "serving" /\ raced = FALSE
    BY DEF Init
  <1>. QED
    BY <1>1, <1>2, <1>3, <1>4, <1>5, <1>6 DEF TypeInv, TypeOK, ControlOK

\* and it is inductive.
LEMMA TypeStep == TypeInv /\ [Next]_vars => TypeInv'
  <1>. SUFFICES ASSUME TypeInv, [Next]_vars PROVE TypeInv'
    OBVIOUS
  <1>1. CASE UNCHANGED vars
    BY <1>1 DEF vars, chans, TypeInv, TypeOK, ControlOK, SeenOK
  <1>2. CASE Next
    BY <1>2, HandlerType, LoaderType, EventsType, PendPlaceType, PendLoadType,
       PendMakeRoomType, ProcessCompletedType, ApiType, ShutdownType DEF Next, Runners
  <1>. QED
    BY <1>1, <1>2

\* Whatever the interleaving of handlers, loops, timers and shutdown, the state
\* stays well typed: a reference count is a uint, queues hold what their
\* channels carry, and each loop has the locals its position needs.
THEOREM TypeCorrect == Spec => []TypeOK
  <1>1. Spec => []TypeInv
    BY TypeInit, TypeStep, PTL DEF Spec
  <1>2. TypeInv => TypeOK
    BY DEF TypeInv
  <1>. QED
    BY <1>1, <1>2, PTL

-----------------------------------------------------------------------------
(* What most steps leave alone.                                            *)

\* A request keeps its model for good.
LEMMA KeysNeverChange ==
  ASSUME TypeInv, [Next]_vars, NEW r \in Requests
  PROVE  req'[r].key = req[r].key
  <1>. USE DEF TypeInv
  <1>1. req \in [Requests -> Request] /\ \A q \in Requests : req[q] \in Request
    BY DEF TypeOK
  <1>2. CASE UNCHANGED vars
    BY <1>2 DEF vars
  <1>3. ASSUME NEW q \in Requests, Handler(q) PROVE req'[r].key = req[r].key
    <2>1. CASE GetRunner(q)
      BY <1>1, <2>1 DEF GetRunner, Request
    <2>2. CASE HandlerUse(q)
      BY <1>1, <2>2 DEF HandlerUse, UseLoadedRunner, Request
    <2>3. CASE HandlerEnqueue(q)
      BY <1>1, <2>3 DEF HandlerEnqueue, Request
    <2>4. CASE HandlerCheck(q) \/ CtxDone(q) \/ Watch(q)
      BY <1>1, <2>4 DEF HandlerCheck, CtxDone, Watch, Request
    <2>. QED
      BY <1>3, <2>1, <2>2, <2>3, <2>4 DEF Handler
  <1>4. ASSUME NEW q \in Requests, Loader(q) PROVE req'[r].key = req[r].key
    <2>1. CASE LoaderReady(q)
      BY <1>1, <2>1 DEF LoaderReady, Request
    <2>2. CASE LoaderFails(q)
      BY <1>1, <2>2 DEF LoaderFails, Request
    <2>. QED
      BY <1>4, <2>1, <2>2 DEF Loader
  <1>5. ASSUME NEW q \in Requests, Events(q) PROVE req'[r].key = req[r].key
    BY <1>5 DEF Events, TimerFires, TimerCallback, RetryExpired, BlockedSend
  <1>6. CASE PendPlace
    <2>1. CASE PendUse
      BY <1>1, <2>1 DEF PendUse, UseLoadedRunner, Request, TypeOK
    <2>. QED
      BY <1>1, <1>6, <2>1 DEF PendPlace, PendTake, PendUnloaded, PendTop, PendCheck, Request
  <1>7. CASE PendLoad
    <2>1. \/ req' = req
          \/ req' = [req EXCEPT ![pend.req].failed = "error"]
          \/ req' = [req EXCEPT ![pend.req].oom = TRUE]
      BY <1>7 DEF PendLoad, PendUpdateFreeSpace, PendNoServer, PendPreflight, PendSpawn,
         PendResume, PendLoadOk, PendLoadTooBig, PendLoadFails, PendLoadFailsNil
    <2>. QED
      BY <1>1, <2>1 DEF Request
  <1>8. CASE PendMakeRoom
    BY <1>8 DEF PendMakeRoom, PendFind, PendScan, PendExpire, PendEvictAll, PendEvict,
       PendEvictWait
  <1>9. CASE ProcessCompleted
    BY <1>9 DEF ProcessCompleted, CompTakeFinished, CompFinish, CompTakeExpired,
       CompRetryLater, CompExpire, CompRecovered, CompNotify
  <1>10. CASE ApiLookup \/ ApiExpire \/ Shutdown
    BY <1>10 DEF ApiLookup, ApiExpire, Shutdown, Signal, CloseActive, CloseLoaded, Exit,
       LoopsStop
  <1>. QED
    BY <1>2, <1>3, <1>4, <1>5, <1>6, <1>7, <1>8, <1>9, <1>10 DEF Next

ServersUnchanged ==
  /\ UNCHANGED <<loaded, activeLoading>>
  /\ \A n \in Runners : run'[n].server = run[n].server

\* The steps of everybody but the two loops and the signal handler.
Others ==
  (\E n \in Requests : Handler(n) \/ Loader(n) \/ Events(n)) \/ ApiLookup \/ ApiExpire

\* Handlers, timers, the load waiter and requests to expire a runner neither
\* start nor stop a server, and leave the pending loop where it is or wake it
\* from a send.
LEMMA OthersLeaveServers ==
  ASSUME TypeInv, Others
  PROVE  /\ ServersUnchanged
         /\ pend'.req = pend.req
         /\ pend'.pc = pend.pc \/ pend'.pc \in {"wait", "evict"}
  <1>. USE DEF TypeInv, ServersUnchanged
  <1>1. ASSUME NEW n \in Requests, Handler(n) \/ Loader(n) \/ Events(n)
        PROVE  /\ ServersUnchanged
               /\ pend'.req = pend.req
               /\ pend'.pc = pend.pc \/ pend'.pc \in {"wait", "evict"}
    <2>1. /\ run[n] \in Runner /\ run \in [Runners -> Runner] /\ pend \in Pend
          /\ req[n] \in Request /\ SeenOK /\ n \in Runners
      BY DEF TypeOK, ControlOK, Runners
    <2>2. CASE Handler(n)
      <3>1. CASE HandlerUse(n)
        <4>1. req[n].seen \in Runners
          BY <2>1, <3>1 DEF HandlerUse, SeenOK, Runners
        <4>. QED
          BY <2>1, <3>1, <4>1, UseLoadedRunnerType DEF HandlerUse, Runners
      <3>. QED
        BY <2>2, <3>1 DEF Handler, GetRunner, HandlerCheck, HandlerEnqueue, CtxDone, Watch
    <2>3. CASE Loader(n)
      <3>1. CASE LoaderReady(n)
        BY <2>1, <3>1 DEF LoaderReady, Runner
      <3>2. CASE LoaderFails(n)
        BY <2>1, <3>2, SendExpiredType DEF LoaderFails
      <3>. QED
        BY <2>3, <3>1, <3>2 DEF Loader
    <2>4. CASE Events(n)
      <3>1. CASE TimerFires(n)
        BY <2>1, <3>1 DEF TimerFires, Runner
      <3>2. CASE TimerCallback(n)
        <4>. DEFINE rec == [run[n] EXCEPT !.fired = @ - 1, !.timer = "nil"]
        <4>1. rec \in Runner /\ rec.server = run[n].server
          <5>1. run[n].fired - 1 \in Nat
            BY <2>1, <3>2 DEF TimerCallback, Runner
          <5>2. \A fired \in Nat : LET q == [run[n] EXCEPT !.fired = fired, !.timer = "nil"] IN
                                   q \in Runner /\ q.server = run[n].server
            BY <2>1 DEF Runner
          <5>. QED
            BY <5>1, <5>2, Zenon
        <4>2. SendExpired(n, rec, "timer")
          BY <3>2 DEF TimerCallback
        <4>3. /\ \A m \in Runners \ {n} : run'[m] = run[m]
              /\ run'[n].server = run[n].server
          <5>. HIDE DEF rec
          <5>. QED BY <2>1, <4>1, <4>2, SendExpiredType
        <4>. QED
          BY <3>2, <4>3 DEF TimerCallback
      <3>3. CASE RetryExpired(n)
        BY <2>1, <3>3 DEF RetryExpired, Runner
      <3>4. CASE BlockedSend(n)
        BY <2>1, <3>4, SendExpiredType DEF BlockedSend, Pend
      <3>. QED
        BY <2>4, <3>1, <3>2, <3>3, <3>4 DEF Events
    <2>. QED
      BY <1>1, <2>2, <2>3, <2>4
  <1>2. CASE ApiLookup
    BY <1>2 DEF ApiLookup
  <1>3. CASE ApiExpire
    <2>1. PICK m \in api.todo : Expire(m, "api")
      BY <1>3 DEF ApiExpire
    <2>2. m \in Runners
      BY DEF TypeOK
    <2>. QED
      BY <1>3, <2>1, <2>2, ExpireType DEF ApiExpire
  <1>. QED
    BY <1>1, <1>2, <1>3 DEF Others

\* Neither do the steps of processCompleted, but for the unload.
LEMMA CompletedLeavesServers ==
  ASSUME TypeInv, ProcessCompleted, ~CompExpire
  PROVE  ServersUnchanged /\ UNCHANGED pend
  <1>. USE DEF TypeInv, ServersUnchanged
  <1>1. run \in [Runners -> Runner] /\ \A m \in Runners : run[m] \in Runner
    BY DEF TypeOK
  <1>2. CASE CompTakeFinished \/ CompTakeExpired \/ CompNotify
    BY <1>2 DEF CompTakeFinished, CompTakeExpired, CompNotify
  <1>3. CASE CompFinish
    <2>. DEFINE n == comp.run
                ref == DecRef(run[n].ref)
                rec == [run[n] EXCEPT !.ref = ref]
                nil == [rec EXCEPT !.timer = "nil"]
                armed == [rec EXCEPT !.timer = "armed"]
    <2>1. n \in Runners /\ run[n] \in Runner
      BY <1>3 DEF CompFinish, ControlOK, TypeOK
    <2>2. /\ rec.server = run[n].server /\ armed.server = run[n].server
          /\ nil \in Runner /\ nil.server = run[n].server
      <3>1. ref \in 0 .. RefMod - 1
        BY <2>1, RefType DEF Runner
      <3>. HIDE DEF ref, n
      <3>. QED BY <2>1, <3>1 DEF Runner
    <2>3. \/ SendExpired(n, nil, "completed")
          \/ \E new \in {rec, armed} : run' = [run EXCEPT ![n] = new]
      BY <1>3, Zenon DEF CompFinish
    <2>4. \A m \in Runners : run'[m].server = run[m].server
      <3>. HIDE DEF n, rec, nil, armed
      <3>. QED BY <1>1, <2>1, <2>2, <2>3, SendExpiredType
    <2>. QED
      BY <1>3, <2>4 DEF CompFinish
  <1>4. CASE CompRetryLater
    BY <1>1, <1>4 DEF CompRetryLater, Runner
  <1>5. CASE CompRecovered
    BY <1>1, <1>5 DEF CompRecovered, Runner
  <1>. QED
    BY <1>2, <1>3, <1>4, <1>5 DEF ProcessCompleted

\* And the pending loop only starts or stops servers where it loads.
LEMMA PendLeavesServers ==
  ASSUME TypeInv, PendPlace \/ PendMakeRoom
  PROVE  ServersUnchanged
  <1>. USE DEF TypeInv, ServersUnchanged
  <1>1. CASE PendTake \/ PendUnloaded \/ PendTop \/ PendCheck
    BY <1>1 DEF PendTake, PendUnloaded, PendTop, PendCheck
  <1>2. CASE PendUse
    <2>1. pend.req \in Requests /\ pend.target \in Runners /\ SeenOK
      BY <1>2 DEF PendUse, ControlOK
    <2>. QED
      BY <1>2, <2>1, UseLoadedRunnerType DEF PendUse
  <1>3. CASE PendFind \/ PendScan \/ PendEvictAll \/ PendEvictWait
    BY <1>3 DEF PendFind, PendScan, PendEvictAll, PendEvictWait
  <1>4. CASE PendExpire
    <2>1. pend.target \in Runners
      BY <1>4 DEF PendExpire, ControlOK
    <2>. QED
      BY <1>4, <2>1, ExpireType DEF PendExpire
  <1>5. CASE PendEvict
    <2>1. PICK n \in pend.todo : Expire(n, "pending")
      BY <1>5 DEF PendEvict
    <2>2. n \in Runners
      BY DEF TypeOK, Pend
    <2>. QED
      BY <1>5, <2>1, <2>2, ExpireType DEF PendEvict
  <1>. QED
    BY <1>1, <1>2, <1>3, <1>4, <1>5 DEF PendPlace, PendMakeRoom

-----------------------------------------------------------------------------
(* One load at a time.                                                     *)

\* LoadingIsExclusive is not inductive: it needs to know where in its loop
\* processPending can be while a server that did not fit is kept.
LoadingInv ==
  /\ LoadingIsExclusive
  /\ pend.pc \in {"select", "check", "use"} => activeLoading = None
  /\ pend.pc = "fit" => loaded[KeyOf(pend.req)] = None

\* LoadingInv is inductive.
LEMMA LoadingStep ==
  ASSUME TypeInv, LoadingInv, [Next]_vars
  PROVE  LoadingInv'
  <1>. USE DEF LoadingInv, LoadingIsExclusive
  <1>1. /\ pend \in Pend /\ loaded \in [Keys -> Runners \cup {None}]
        /\ activeLoading \in Runners \cup {None}
        /\ req \in [Requests -> Request] /\ \A r \in Requests : KeyOf(r) \in Keys
    BY DEF TypeInv, TypeOK, Request, KeyOf
  <1>2. \A r \in Requests : KeyOf(r)' = KeyOf(r)
    BY KeysNeverChange DEF KeyOf
  <1>3. pend.pc \notin {"select", "stopped"} => pend.req \in Requests
    BY DEF TypeInv, ControlOK
  <1>4. /\ pend'.pc \in {"fit", "loading"} => pend'.req \in Requests
        /\ activeLoading' \in Runners \cup {None}
    BY TypeStep DEF TypeInv, TypeOK, ControlOK
  <1>5. CASE UNCHANGED vars
    BY <1>1, <1>2, <1>3, <1>5 DEF vars, Runners
  <1>6. CASE Others
    <2>1. /\ UNCHANGED <<loaded, activeLoading>> /\ pend'.req = pend.req
          /\ pend'.pc = pend.pc \/ pend'.pc \in {"wait", "evict"}
      BY <1>6, OthersLeaveServers DEF ServersUnchanged, Runners
    <2>. QED
      BY <1>2, <1>3, <1>4, <2>1 DEF Runners
  <1>7. CASE ProcessCompleted
    <2>1. /\ UNCHANGED <<pend, activeLoading>>
          /\ \A k \in Keys : loaded'[k] = loaded[k] \/ loaded'[k] = None
      <3>1. CASE CompExpire
        BY <1>1, <3>1 DEF CompExpire
      <3>2. CASE ~CompExpire
        BY <1>7, <3>2, CompletedLeavesServers DEF ServersUnchanged
      <3>. QED
        BY <3>1, <3>2
    <2>. QED
      BY <1>1, <1>2, <1>3, <1>4, <2>1 DEF Runners
  <1>8. CASE PendPlace
    <2>1. UNCHANGED <<loaded, activeLoading>>
      BY <1>8, PendLeavesServers DEF ServersUnchanged
    <2>2. \/ activeLoading = None
          \/ pend'.req = pend.req /\ pend'.pc \notin {"select", "check", "use"}
      BY <1>1, <1>8 DEF PendPlace, PendTake, PendUnloaded, PendTop, PendCheck, PendUse,
         PendGoto, Pend
    <2>3. /\ pend'.pc \notin {"loading", "panic"}
          /\ pend'.pc = "fit" => pend'.req = pend.req /\ loaded[KeyOf(pend.req)] = None
      BY <1>1, <1>8 DEF PendPlace, PendTake, PendUnloaded, PendTop, PendCheck, PendUse,
         PendGoto, PendDone, Pend
    <2>. QED
      BY <1>1, <1>2, <1>4, <2>1, <2>2, <2>3 DEF Runners
  <1>9. CASE PendMakeRoom
    <2>1. UNCHANGED <<loaded, activeLoading>>
      BY <1>9, PendLeavesServers DEF ServersUnchanged
    <2>2. /\ pend'.req = pend.req
          /\ pend'.pc \notin {"select", "check", "use", "fit", "loading", "panic"}
      BY <1>1, <1>9 DEF PendMakeRoom, PendFind, PendScan, PendExpire, PendEvictAll,
         PendEvict, PendEvictWait, PendGoto, Pend
    <2>. QED
      BY <1>1, <1>2, <1>4, <2>1, <2>2 DEF Runners
  <1>10. CASE PendLoad
    <2>1. CASE PendUpdateFreeSpace
      BY <1>1, <1>2, <1>4, <2>1 DEF PendUpdateFreeSpace, Pend, Runners
    <2>2. CASE PendNoServer
      BY <1>1, <2>2 DEF PendNoServer, PendDone, Pend
    <2>3. CASE PendPreflight \/ PendLoadTooBig
      BY <1>1, <1>2, <1>4, <2>3 DEF PendPreflight, PendLoadTooBig, PendNeedEvict, PendGoto,
         Pend, Runners
    <2>4. CASE PendSpawn
      BY <1>1, <1>2, <1>3, <1>4, <2>4 DEF PendSpawn, CanLoad, PendGoto, Pend
    <2>5. CASE PendResume
      BY <1>1, <1>2, <1>4, <2>5 DEF PendResume, CanLoad, PendGoto, Pend, Runners
    <2>6. CASE PendLoadOk
      BY <1>1, <2>6 DEF PendLoadOk, PendDone, Pend
    <2>7. CASE PendLoadFails
      BY <1>1, <2>7 DEF PendLoadFails, AbortLoading, PendDone, PendNeedEvict, PendGoto, Pend
    <2>8. CASE PendLoadFailsNil
      BY <1>1, <1>2, <1>4, <2>8 DEF PendLoadFailsNil
    <2>. QED
      BY <1>10, <2>1, <2>2, <2>3, <2>4, <2>5, <2>6, <2>7, <2>8 DEF PendLoad
  <1>11. CASE Shutdown
    <2>1. /\ loaded' = loaded /\ activeLoading' \in {activeLoading, None}
          /\ \/ pend' = pend
             \/ pend'.pc = "stopped" /\ pend'.req = pend.req
      BY <1>1, <1>11 DEF Shutdown, Signal, CloseActive, CloseLoaded, Exit, LoopsStop,
         PendGoto, Pend
    <2>. QED
      BY <1>1, <1>2, <1>3, <1>4, <2>1 DEF Runners
  <1>. QED
    BY <1>5, <1>6, <1>7, <1>8, <1>9, <1>10, <1>11 DEF Next, Others

\* The pending loop loads one model at a time: the panic in load is never
\* reached and no loaded runner is ever replaced.
THEOREM LoadingExclusive == Spec => []LoadingIsExclusive
  <1>1. Init => LoadingInv
    BY DEF Init, LoadingInv, LoadingIsExclusive
  <1>2. LoadingInv => LoadingIsExclusive
    BY DEF LoadingInv
  <1>. QED
    BY <1>1, <1>2, TypeInit, TypeStep, LoadingStep, PTL DEF Spec

-----------------------------------------------------------------------------
(* The servers that run, and how many.                                     *)

\* NoOrphanServer is inductive, relative to LoadingInv: a load that replaced a
\* loaded runner would lose its server.
LEMMA NoOrphanStep ==
  ASSUME TypeInv, LoadingInv, NoOrphanServer, [Next]_vars
  PROVE  NoOrphanServer'
  <1>. USE DEF NoOrphanServer, OpenServers
  <1>1. /\ run \in [Runners -> Runner] /\ \A n \in Runners : run[n] \in Runner
        /\ loaded \in [Keys -> Runners \cup {None}]
        /\ \A r \in Requests : KeyOf(r) \in Keys
    BY DEF TypeInv, TypeOK, Request, KeyOf
  <1>2. \A r \in Runners : KeyOf(r)' = KeyOf(r)
    BY KeysNeverChange DEF KeyOf, Runners
  <1>3. pend.pc \notin {"select", "stopped"} => pend.req \in Requests
    BY DEF TypeInv, ControlOK
  <1>4. ASSUME ServersUnchanged PROVE NoOrphanServer'
    BY <1>2, <1>4 DEF ServersUnchanged
  <1>5. CASE UNCHANGED vars
    BY <1>2, <1>5 DEF vars
  <1>6. CASE Others \/ PendPlace \/ PendMakeRoom \/ (ProcessCompleted /\ ~CompExpire)
    BY <1>4, <1>6, OthersLeaveServers, PendLeavesServers, CompletedLeavesServers
  <1>7. CASE CompExpire
    <2>. DEFINE n == comp.run
    <2>1. n \in Runners /\ activeLoading' = activeLoading
      BY <1>7 DEF CompExpire, TypeInv, ControlOK
    <2>2. \/ run' = run /\ loaded' = loaded
          \/ /\ \A m \in Runners \ {n} : run'[m] = run[m]
             /\ run'[n].server = "closed"
             /\ \/ loaded' = loaded
                \/ loaded[KeyOf(n)] = n /\ loaded' = [loaded EXCEPT ![KeyOf(n)] = None]
      <3>. HIDE DEF n
      <3>1. \/ run' = run /\ loaded' = loaded
            \/ \E mu \in {"free", "draining"} :
                 /\ run' = [run EXCEPT ![n] = [@ EXCEPT !.server = "closed",
                                       !.timer = "nil", !.mu = mu]]
                 /\ \/ loaded' = loaded
                    \/ loaded[KeyOf(n)] = n /\ loaded' = [loaded EXCEPT ![KeyOf(n)] = None]
        BY <1>7 DEF CompExpire, n
      <3>2. ASSUME NEW mu,
                   run' = [run EXCEPT ![n] = [@ EXCEPT !.server = "closed",
                                      !.timer = "nil", !.mu = mu]]
            PROVE  run'[n].server = "closed" /\ \A m \in Runners \ {n} : run'[m] = run[m]
        <4>. DEFINE rec == [run[n] EXCEPT !.server = "closed", !.timer = "nil", !.mu = mu]
        <4>1. rec.server = "closed"
          BY <1>1, <2>1 DEF Runner
        <4>2. run' = [run EXCEPT ![n] = rec]
          BY <3>2
        <4>. HIDE DEF rec
        <4>. QED
          BY <1>1, <2>1, <4>1, <4>2
      <3>. QED
        BY <3>1, <3>2, Zenon
    <2>. QED
      BY <1>1, <1>2, <2>1, <2>2 DEF Runners
  <1>8. CASE PendLoad
    <2>1. CASE PendUpdateFreeSpace \/ PendNoServer \/ PendPreflight \/ PendResume
               \/ PendLoadTooBig \/ PendLoadFailsNil
      BY <1>4, <2>1 DEF PendUpdateFreeSpace, PendNoServer, PendPreflight, PendResume,
         PendLoadTooBig, PendLoadFailsNil, ServersUnchanged
    <2>2. CASE PendSpawn
      <3>1. /\ activeLoading = None /\ activeLoading' = pend.req /\ loaded' = loaded
            /\ \A m \in Runners \ {pend.req} : run'[m] = run[m]
        BY <1>1, <2>2 DEF PendSpawn, CanLoad
      <3>2. \A m \in Runners : m # None
        BY ConfigAssumption DEF Runners
      <3>. QED
        BY <1>2, <3>1, <3>2
    <2>3. CASE PendLoadOk
      <3>1. /\ pend.req \in Requests /\ loaded[KeyOf(pend.req)] = None
            /\ activeLoading \in {None, pend.req}
        BY <1>3, <2>3 DEF PendLoadOk, LoadingInv, LoadingIsExclusive
      <3>2. \A m \in Runners : run'[m].server = run[m].server
        <4>1. ASSUME NEW m \in Runners PROVE run'[m].server = run[m].server
          <5>1. \E session : run'[m] = IF m = pend.req
                                       THEN [run[m] EXCEPT !.mu = "loader", !.session = session]
                                       ELSE run[m]
            BY <2>3, <3>1, ConfigAssumption DEF PendLoadOk, Runners
          <5>. QED
            BY <1>1, <5>1 DEF Runner
        <4>. QED
          BY <4>1
      <3>3. loaded' = [loaded EXCEPT ![KeyOf(pend.req)] = pend.req] /\ activeLoading' = None
        BY <2>3 DEF PendLoadOk
      <3>. QED
        BY <1>1, <1>2, <3>1, <3>2, <3>3, ConfigAssumption DEF Runners
    <2>4. CASE PendLoadFails
      <3>1. /\ activeLoading \in Runners /\ loaded' = loaded
            /\ run' = [run EXCEPT ![activeLoading].server = "closed"]
        BY <2>4 DEF PendLoadFails, AbortLoading, TypeInv, TypeOK
      <3>2. [run[activeLoading] EXCEPT !.server = "closed"].server = "closed"
        BY <1>1, <3>1 DEF Runner
      <3>. QED
        BY <1>1, <1>2, <3>1, <3>2
    <2>. QED
      BY <1>8, <2>1, <2>2, <2>3, <2>4 DEF PendLoad
  <1>9. CASE Shutdown
    <2>1. CASE Signal \/ Exit \/ LoopsStop
      BY <1>4, <2>1 DEF Signal, Exit, LoopsStop, ServersUnchanged
    <2>2. CASE CloseActive \/ CloseLoaded
      <3>1. /\ loaded' = loaded
            /\ activeLoading' = activeLoading \/ CloseActive
        BY <2>2 DEF CloseActive, CloseLoaded
      <3>2. \A n \in Runners : \/ run'[n] = run[n] /\ (CloseActive => n # activeLoading)
                               \/ run'[n].server = "closed"
        <4>1. \A rec \in Runner : [rec EXCEPT !.server = "closed"].server = "closed"
          BY DEF Runner
        <4>. QED
          BY <1>1, <2>2, <4>1, ZenonT(120) DEF CloseActive, CloseLoaded
      <3>. QED
        BY <1>1, <1>2, <3>1, <3>2
    <2>. QED
      BY <1>9, <2>1, <2>2 DEF Shutdown
  <1>. QED
    BY <1>5, <1>6, <1>7, <1>8, <1>9 DEF Next, Others, ProcessCompleted

\* No running server is ever lost: each is the one being loaded or is found in
\* the map of loaded runners under the key of its model.
THEOREM ServersAreTracked == Spec => []NoOrphanServer
  <1>1. Init => NoOrphanServer
    BY DEF Init, NoOrphanServer, OpenServers
  <1>2. Init => LoadingInv
    BY DEF Init, LoadingInv, LoadingIsExclusive
  <1>. QED
    BY <1>1, <1>2, TypeInit, TypeStep, LoadingStep, NoOrphanStep, PTL DEF Spec

\* What makes the limit, tested in one place only, hold: while a server is
\* being loaded, or about to be, there is room for it.
LimitInv ==
  /\ Cardinality(LoadedRunners) <= MaxRunners
  /\ activeLoading # None \/ pend.pc \in {"fit", "loading"} =>
       Cardinality(LoadedRunners) < MaxRunners

\* LimitInv is inductive.
LEMMA LimitStep ==
  ASSUME TypeInv, LoadingInv, LimitInv, [Next]_vars
  PROVE  LimitInv'
  <1>. DEFINE count == Cardinality(LoadedRunners)
  <1>1. /\ loaded \in [Keys -> Runners \cup {None}]
        /\ loaded' \in [Keys -> Runners \cup {None}]
        /\ activeLoading \in Runners \cup {None} /\ pend \in Pend
        /\ \A r \in Requests : KeyOf(r) \in Keys
    BY TypeStep DEF TypeInv, TypeOK, Request, KeyOf
  <1>2. /\ IsFiniteSet(LoadedRunners) /\ count \in Nat
        /\ IsFiniteSet(LoadedRunners') /\ count' \in Nat
    <2>1. /\ LoadedRunners \in SUBSET {loaded[k] : k \in Keys}
          /\ LoadedRunners' \in SUBSET {loaded'[k] : k \in Keys}
      BY DEF LoadedRunners
    <2>. QED
      BY <1>1, <2>1, ValuesFinite
  <1>3. MaxRunners \in Nat /\ count <= MaxRunners
        /\ (activeLoading # None \/ pend.pc \in {"fit", "loading"} => count < MaxRunners)
    BY ConfigAssumption DEF LimitInv
  <1>4. ASSUME \A k \in Keys : loaded'[k] \in {loaded[k], None} PROVE count' <= count
    <2>1. LoadedRunners' \subseteq LoadedRunners
      BY <1>4 DEF LoadedRunners
    <2>. QED
      BY <1>2, <2>1, FS_Subset
  <1>. HIDE DEF count
  <1>5. SUFFICES /\ count' <= MaxRunners
                 /\ activeLoading' # None \/ pend'.pc \in {"fit", "loading"} => count' < MaxRunners
    BY DEF LimitInv, count
  <1>. USE <1>2, <1>3
  <1>6. CASE UNCHANGED vars
    <2>1. count' <= count
      BY <1>4, <1>6 DEF vars
    <2>. QED
      BY <1>6, <2>1 DEF vars
  <1>7. CASE Others
    <2>1. count' <= count
      BY <1>4, <1>7, OthersLeaveServers DEF ServersUnchanged
    <2>2. /\ activeLoading' = activeLoading
          /\ pend'.pc \in {"fit", "loading"} => pend'.pc = pend.pc
      BY <1>7, OthersLeaveServers DEF ServersUnchanged
    <2>. QED
      BY <2>1, <2>2
  <1>8. CASE ProcessCompleted
    <2>1. count' <= count
      <3>1. \A k \in Keys : loaded'[k] \in {loaded[k], None}
        <4>1. CASE CompExpire
          BY <1>1, <4>1 DEF CompExpire
        <4>2. CASE ~CompExpire
          BY <1>8, <4>2, CompletedLeavesServers DEF ServersUnchanged
        <4>. QED
          BY <4>1, <4>2
      <3>. QED
        BY <1>4, <3>1
    <2>2. UNCHANGED <<activeLoading, pend>>
      BY <1>8, CompletedLeavesServers DEF ServersUnchanged, CompExpire
    <2>. QED
      BY <2>1, <2>2
  <1>9. CASE PendPlace \/ PendMakeRoom
    <2>1. count' <= count
      BY <1>4, <1>9, PendLeavesServers DEF ServersUnchanged
    <2>2. activeLoading' = activeLoading
      BY <1>9, PendLeavesServers DEF ServersUnchanged
    <2>3. pend'.pc \in {"fit", "loading"} => count < MaxRunners
      <3>1. CASE PendTop
        <4>1. \/ \E n : pend' = [pend EXCEPT !.pc = "check", !.target = n]
              \/ pend' = [pend EXCEPT !.pc = "find"]
              \/ ~AtLimit(count)
          BY <3>1, Zenon DEF PendTop, PendGoto, count
        <4>2. ~AtLimit(count) => count < MaxRunners
          BY DEF AtLimit
        <4>3. ~AtLimit(count) \/ pend'.pc \in {"check", "find"}
          BY <1>1, <4>1 DEF Pend
        <4>. QED
          BY <4>2, <4>3
      <3>2. CASE ~PendTop
        BY <1>1, <1>9, <3>2 DEF PendPlace, PendTake, PendUnloaded, PendCheck, PendUse,
           PendMakeRoom, PendFind, PendScan, PendExpire, PendEvictAll, PendEvict,
           PendEvictWait, PendGoto, PendDone, Pend
      <3>. QED
        BY <3>1, <3>2
    <2>. QED
      BY <2>1, <2>2, <2>3
  <1>10. CASE PendLoad
    <2>1. pend.pc \in {"fit", "loading"} /\ count < MaxRunners
      BY <1>10 DEF PendLoad, PendUpdateFreeSpace, PendNoServer, PendPreflight, PendSpawn,
         PendResume, PendLoadOk, PendLoadTooBig, PendLoadFails, PendLoadFailsNil, CanLoad
    <2>2. CASE PendLoadOk
      <3>1. /\ loaded' = [loaded EXCEPT ![KeyOf(pend.req)] = pend.req]
            /\ activeLoading' = None /\ pend'.pc = "select"
        BY <1>1, <2>2 DEF PendLoadOk, PendDone, Pend
      <3>2. LoadedRunners' \subseteq LoadedRunners \cup {pend.req}
        BY <1>1, <3>1 DEF LoadedRunners
      <3>3. count' <= count + 1
        <4>1. /\ IsFiniteSet(LoadedRunners \cup {pend.req})
              /\ Cardinality(LoadedRunners \cup {pend.req}) <= count + 1
          <5>1. IsFiniteSet(LoadedRunners) /\ Cardinality(LoadedRunners) \in Nat
            BY DEF count
          <5>2. /\ IsFiniteSet(LoadedRunners \cup {pend.req})
                /\ Cardinality(LoadedRunners \cup {pend.req})
                     = IF pend.req \in LoadedRunners THEN count ELSE count + 1
            BY <5>1, FS_AddElement, Zenon DEF count
          <5>. QED
            BY <5>2
        <4>2. Cardinality(LoadedRunners \cup {pend.req}) \in Nat
          BY <4>1, FS_CardinalityType
        <4>3. count' <= Cardinality(LoadedRunners \cup {pend.req})
          BY <3>2, <4>1, FS_Subset DEF count
        <4>. QED
          BY <4>1, <4>2, <4>3
      <3>. QED
        BY <2>1, <3>1, <3>3
    <2>3. CASE ~PendLoadOk
      <3>1. loaded' = loaded
        BY <1>10, <2>3 DEF PendLoad, PendUpdateFreeSpace, PendNoServer, PendPreflight,
           PendSpawn, PendResume, PendLoadTooBig, PendLoadFails, PendLoadFailsNil
      <3>2. count' <= count
        BY <1>4, <3>1
      <3>. QED
        BY <2>1, <3>2
    <2>. QED
      BY <2>2, <2>3
  <1>11. CASE Shutdown
    <2>1. /\ loaded' = loaded /\ activeLoading' \in {activeLoading, None}
          /\ pend' = pend \/ pend'.pc = "stopped"
      BY <1>1, <1>11 DEF Shutdown, Signal, CloseActive, CloseLoaded, Exit, LoopsStop,
         PendGoto, Pend
    <2>2. count' <= count
      BY <1>4, <2>1
    <2>. QED
      BY <2>1, <2>2
  <1>. QED
    BY <1>6, <1>7, <1>8, <1>9, <1>10, <1>11 DEF Next, Others

\* OLLAMA_MAX_LOADED_MODELS bounds the servers that run, whatever the number of
\* models, requests and unload events: each open server is loaded or the one
\* being loaded, and there is room for the latter.
THEOREM LimitHolds == Spec => []OpenServersWithinLimit
  <1>1. Init => LoadingInv /\ NoOrphanServer /\ LimitInv
    <2>1. Init => LoadedRunners = {}
      BY DEF Init, LoadedRunners
    <2>2. Init => Cardinality(LoadedRunners) = 0
      BY <2>1, FS_EmptySet
    <2>3. Init => LoadingInv /\ NoOrphanServer
      BY DEF Init, LoadingInv, LoadingIsExclusive, NoOrphanServer, OpenServers
    <2>. QED
      <3>1. Init => activeLoading = None /\ pend.pc = "select"
        BY DEF Init
      <3>. QED
        BY <2>2, <2>3, <3>1, ConfigAssumption DEF LimitInv
  <1>2. TypeInv /\ NoOrphanServer /\ LimitInv => OpenServersWithinLimit
    <2>. SUFFICES ASSUME TypeInv, NoOrphanServer, LimitInv PROVE OpenServersWithinLimit
      OBVIOUS
    <2>1. /\ IsFiniteSet(LoadedRunners) /\ Cardinality(LoadedRunners) \in Nat
          /\ MaxRunners \in Nat
      BY LoadedFinite, ConfigAssumption DEF TypeInv, TypeOK
    <2>2. CASE activeLoading = None
      <3>1. OpenServers \subseteq LoadedRunners
        BY <2>2, ConfigAssumption DEF NoOrphanServer, OpenServers, LoadedRunners, Runners,
           TypeInv, TypeOK, Request, KeyOf
      <3>2. Cardinality(OpenServers) <= Cardinality(LoadedRunners)
        BY <2>1, <3>1, FS_Subset
      <3>3. Cardinality(OpenServers) \in Nat
        BY <2>1, <3>1, FS_Subset, FS_CardinalityType
      <3>. QED
        BY <2>1, <3>2, <3>3 DEF LimitInv, OpenServersWithinLimit
    <2>3. CASE activeLoading # None
      <3>. DEFINE S == LoadedRunners \cup {activeLoading}
      <3>1. OpenServers \subseteq S
        BY ConfigAssumption DEF NoOrphanServer, OpenServers, LoadedRunners, Runners,
           TypeInv, TypeOK, Request, KeyOf
      <3>2. IsFiniteSet(S) /\ Cardinality(S) <= Cardinality(LoadedRunners) + 1
        BY <2>1, FS_AddElement
      <3>3. Cardinality(OpenServers) <= Cardinality(S)
        BY <3>1, <3>2, FS_Subset
      <3>4. Cardinality(OpenServers) \in Nat /\ Cardinality(S) \in Nat
        BY <3>1, <3>2, FS_Subset, FS_CardinalityType
      <3>. QED
        BY <2>1, <2>3, <3>2, <3>3, <3>4 DEF LimitInv, OpenServersWithinLimit
    <2>. QED
      BY <2>2, <2>3
  <1>. QED
    BY <1>1, <1>2, TypeInit, TypeStep, LoadingStep, NoOrphanStep, LimitStep, PTL DEF Spec

-----------------------------------------------------------------------------
(* What a step does to one runner, field by field.                         *)

Has(q, x) == \E i \in 1 .. Len(q) : q[i] = x
Distinct(q) == \A i, j \in 1 .. Len(q) : q[i] = q[j] => i = j

\* getRunner writes what it found and where the handler goes on, and nothing else.
LEMMA GetRunnerWrites ==
  ASSUME TypeInv, NEW r \in Requests, GetRunner(r)
  PROVE  /\ req'[r].stage \in {"enqueue", "check"} /\ req[r].stage = "new"
         /\ \A q \in Requests :
              /\ q # r => req'[q] = req[q]
              /\ req'[q].seen = IF q = r THEN loaded[KeyOf(r)] ELSE req[q].seen
              /\ req'[q].granted = req[q].granted /\ req'[q].failed = req[q].failed
              /\ req'[q].watcher = req[q].watcher /\ req'[q].done = req[q].done
  <1>1. req \in [Requests -> Request] /\ req[r] \in Request
    BY DEF TypeInv, TypeOK
  <1>. QED
    BY <1>1 DEF GetRunner, Request

\* The request is submitted, or refused because the queue is full.
LEMMA EnqueueWrites ==
  ASSUME TypeInv, NEW r \in Requests, HandlerEnqueue(r)
  PROVE  \A q \in Requests :
           /\ q # r => req'[q] = req[q]
           /\ req'[q].granted = req[q].granted /\ req'[q].seen = req[q].seen
           /\ req'[q].watcher = req[q].watcher /\ req'[q].done = req[q].done
  <1>1. req \in [Requests -> Request] /\ req[r] \in Request
    BY DEF TypeInv, TypeOK
  <1>. QED
    BY <1>1 DEF HandlerEnqueue, Request

\* A queue to which an element was added.
LEMMA AppendHas ==
  ASSUME NEW S, NEW q \in Seq(S), NEW x \in S
  PROVE  /\ \A y : Has(Append(q, x), y) <=> Has(q, y) \/ y = x
         /\ Distinct(q) /\ ~Has(q, x) => Distinct(Append(q, x))
  <1>1. /\ Len(Append(q, x)) = Len(q) + 1 /\ Len(q) \in Nat
        /\ \A i \in 1 .. Len(q) : Append(q, x)[i] = q[i]
        /\ Append(q, x)[Len(q) + 1] = x
    OBVIOUS
  <1>. DEFINE a == Append(q, x)
  <1>. HIDE DEF a
  <1>. QED
    BY <1>1 DEF Has, Distinct, a

\* A queue from which the head was taken.
LEMMA TailHas ==
  ASSUME NEW S, NEW q \in Seq(S), q # <<>>
  PROVE  /\ Head(q) \in S /\ Tail(q) \in Seq(S) /\ Has(q, Head(q))
         /\ \A y : Has(q, y) <=> Has(Tail(q), y) \/ y = Head(q)
         /\ Distinct(q) => Distinct(Tail(q)) /\ ~Has(Tail(q), Head(q))
  <1>1. /\ Len(q) \in Nat \ {0} /\ Len(Tail(q)) = Len(q) - 1 /\ Head(q) = q[1]
        /\ \A i \in 1 .. Len(q) - 1 : Tail(q)[i] = q[i + 1]
        /\ Tail(q) \in Seq(S) /\ \A i \in 1 .. Len(q) : q[i] \in S
    OBVIOUS
  <1>. DEFINE t == Tail(q)  h == Head(q)
  <1>. HIDE DEF t, h
  <1>2. \A i \in 2 .. Len(q) : t[i - 1] = q[i] /\ i - 1 \in 1 .. Len(t)
    BY <1>1 DEF t
  <1>. QED
    BY <1>1, <1>2, SMTT(60) DEF Has, Distinct, t, h

Expected(n) == Has(expiredCh, n)
Senders == {"failing", "pending", "completed", "timer", "api"}

\* The runner n is left as rec, but for refMu, by who sends it on expiredCh.
SentAs(n, rec, sender) ==
  /\ \A m \in Runners \ {n} : run'[m] = run[m]
  /\ run'[n].ref = rec.ref /\ run'[n].session = rec.session /\ run'[n].timer = rec.timer
  /\ run'[n].fired = rec.fired /\ run'[n].retrying = rec.retrying
  /\ run'[n].server = rec.server
  /\ \/ run'[n].mu = "free" /\ \A m : Expected(m)' <=> Expected(m) \/ m = n
     \/ run'[n].mu = sender /\ expiredCh' = expiredCh

LEMMA SendExpiredDoes ==
  ASSUME TypeOK, NEW n \in Runners, NEW rec \in Runner, NEW sender \in Senders,
         SendExpired(n, rec, sender)
  PROVE  SentAs(n, rec, sender)
  <1>. DEFINE mu == IF Room(expiredCh) THEN "free" ELSE sender
              rec2 == [rec EXCEPT !.mu = mu]
  <1>1. run' = [run EXCEPT ![n] = rec2]
    BY DEF SendExpired
  <1>2. /\ rec2.ref = rec.ref /\ rec2.session = rec.session /\ rec2.timer = rec.timer
        /\ rec2.fired = rec.fired /\ rec2.retrying = rec.retrying
        /\ rec2.server = rec.server /\ rec2.mu = mu
    BY DEF Runner
  <1>3. run'[n] = rec2 /\ \A m \in Runners \ {n} : run'[m] = run[m]
    <2>. HIDE DEF rec2
    <2>. QED BY <1>1 DEF TypeOK
  <1>4. CASE Room(expiredCh)
    <2>1. \A m : Expected(m)' <=> Expected(m) \/ m = n
      BY <1>4, AppendHas DEF SendExpired, Expected, TypeOK
    <2>. QED
      BY <1>2, <1>3, <1>4, <2>1 DEF SentAs
  <1>5. CASE ~Room(expiredCh)
    BY <1>2, <1>3, <1>5 DEF SendExpired, SentAs
  <1>. QED
    BY <1>4, <1>5

\* A runner that is asked to expire.
Asked(n, sender) ==
  /\ \A m \in Runners \ {n} : run'[m] = run[m]
  /\ run[n].mu = "free" /\ run'[n].ref = run[n].ref /\ run'[n].session = 0 /\ run'[n].timer = "nil"
  /\ run'[n].fired = run[n].fired /\ run'[n].retrying = run[n].retrying
  /\ run'[n].server = run[n].server
  /\ \/ run'[n].mu = "free" /\ \A m : Expected(m)' <=> Expected(m) \/ m = n
     \/ run'[n].mu = sender /\ expiredCh' = expiredCh
     \/ run[n].ref > 0 /\ run'[n].mu = "free" /\ expiredCh' = expiredCh

LEMMA ExpireDoes ==
  ASSUME TypeOK, NEW n \in Runners, NEW sender \in Senders, Expire(n, sender)
  PROVE  Asked(n, sender)
  <1>. DEFINE rec == [run[n] EXCEPT !.timer = "nil", !.session = 0]
  <1>1. /\ rec \in Runner /\ run[n].mu = "free" /\ rec.mu = "free" /\ rec.server = run[n].server
        /\ rec.ref = run[n].ref /\ rec.session = 0 /\ rec.timer = "nil"
        /\ rec.fired = run[n].fired /\ rec.retrying = run[n].retrying
    <2>1. run[n] \in Runner /\ run[n].mu = "free"
      BY DEF TypeOK, Expire, Free
    <2>2. \A r \in Runner : LET q == [r EXCEPT !.timer = "nil", !.session = 0]
                            IN  /\ q \in Runner /\ q.mu = r.mu /\ q.server = r.server
                                /\ q.ref = r.ref /\ q.session = 0 /\ q.timer = "nil"
                                /\ q.fired = r.fired /\ q.retrying = r.retrying
      BY DEF Runner
    <2>. QED
      BY <2>1, <2>2
  <1>2. CASE ~Busy(n) /\ SendExpired(n, rec, sender)
    <2>1. SentAs(n, rec, sender)
      <3>. HIDE DEF rec
      <3>. QED BY <1>1, <1>2, SendExpiredDoes
    <2>. HIDE DEF rec
    <2>. QED BY <1>1, <2>1 DEF SentAs, Asked
  <1>3. CASE Busy(n) /\ run' = [run EXCEPT ![n] = rec] /\ UNCHANGED expiredCh
    <2>1. run'[n] = rec /\ \A m \in Runners \ {n} : run'[m] = run[m]
      <3>. HIDE DEF rec
      <3>. QED BY <1>3 DEF TypeOK
    <2>. HIDE DEF rec
    <2>. QED BY <1>1, <1>3, <2>1 DEF Asked, Busy
  <1>. QED
    BY <1>2, <1>3 DEF Expire

\* A runner that is given to a request.
Used(r, n) ==
  /\ \A m \in Runners \ {n} : run'[m] = run[m]
  /\ run[n].mu = "free" /\ run'[n].mu = "free" /\ run'[n].ref = IncRef(run[n].ref)
  /\ run'[n].timer = "nil"
  /\ run'[n].fired = run[n].fired /\ run'[n].retrying = run[n].retrying
  /\ run'[n].server = run[n].server
  /\ \A q \in Requests \ {r} : req'[q] = req[q]
  /\ req'[r].granted = n /\ req'[r].watcher = "watching" /\ req'[r].stage = "submitted"
  /\ req'[r].seen = req[r].seen /\ req'[r].failed = req[r].failed
  /\ raced' = (raced \/ run[n].server # "open")

LEMMA UseDoes ==
  ASSUME TypeOK, NEW r \in Requests, NEW n \in Runners, UseLoadedRunner(r, n)
  PROVE  Used(r, n)
  <1>. DEFINE ref == IncRef(run[n].ref)
              session == IF req[r].keep = None THEN run[n].session ELSE req[r].keep
              rec == [run[n] EXCEPT !.ref = ref, !.timer = "nil", !.session = session]
              request == [req[r] EXCEPT !.granted = n, !.watcher = "watching",
                                        !.stage = "submitted"]
  <1>1. req[r] \in Request /\ run[n] \in Runner
    BY DEF TypeOK
  <1>2. /\ rec.ref = ref /\ rec.mu = run[n].mu /\ rec.server = run[n].server /\ rec.timer = "nil"
        /\ rec.fired = run[n].fired /\ rec.retrying = run[n].retrying
    <2>. HIDE DEF ref, session
    <2>. QED BY <1>1 DEF Runner
  <1>3. /\ request.granted = n /\ request.watcher = "watching" /\ request.stage = "submitted"
        /\ request.seen = req[r].seen /\ request.failed = req[r].failed
    BY <1>1 DEF Request
  <1>4. run' = [run EXCEPT ![n] = rec] /\ req' = [req EXCEPT ![r] = request]
    BY DEF UseLoadedRunner
  <1>5. run[n].mu = "free" /\ raced' = (raced \/ run[n].server # "open")
    BY DEF UseLoadedRunner, Free
  <1>6. run'[n] = rec /\ \A m \in Runners \ {n} : run'[m] = run[m]
    <2>. HIDE DEF rec
    <2>. QED BY <1>4 DEF TypeOK
  <1>7. req'[r] = request /\ \A q \in Requests \ {r} : req'[q] = req[q]
    <2>. HIDE DEF request
    <2>. QED BY <1>4 DEF TypeOK
  <1>. HIDE DEF rec, request
  <1>. QED
    BY <1>2, <1>3, <1>5, <1>6, <1>7 DEF Used

\* Everything of a runner but refMu, the timer and the server.
SameCounts(n) ==
  run'[n].ref = run[n].ref /\ run'[n].fired = run[n].fired /\ run'[n].retrying = run[n].retrying

OnlyRunner(n) == \A m \in Runners \ {n} : run'[m] = run[m]

LEMMA SpawnDoes ==
  ASSUME TypeInv, PendSpawn
  PROVE  /\ pend.req \in Runners /\ OnlyRunner(pend.req) /\ SameCounts(pend.req)
         /\ run'[pend.req].mu = run[pend.req].mu /\ run'[pend.req].timer = run[pend.req].timer
  <1>1. pend.req \in Runners
    BY DEF PendSpawn, CanLoad, TypeInv, ControlOK, Runners
  <1>2. run \in [Runners -> Runner] /\ run[pend.req] \in Runner
    BY <1>1 DEF TypeInv, TypeOK
  <1>3. \A x \in Runner : LET q == [x EXCEPT !.server = "open"] IN
          /\ q.ref = x.ref /\ q.fired = x.fired /\ q.retrying = x.retrying
          /\ q.mu = x.mu /\ q.timer = x.timer
    BY DEF Runner
  <1>4. run'[pend.req] = [run[pend.req] EXCEPT !.server = "open"]
    BY <1>1, <1>2 DEF PendSpawn
  <1>. QED
    BY <1>1, <1>2, <1>3, <1>4 DEF PendSpawn, OnlyRunner, SameCounts

LEMMA LoadOkDoes ==
  ASSUME TypeInv, LoadingInv, PendLoadOk
  PROVE  /\ pend.req \in Runners /\ OnlyRunner(pend.req) /\ SameCounts(pend.req)
         /\ run'[pend.req].mu = "loader" /\ run'[pend.req].timer = run[pend.req].timer
         /\ run'[pend.req].server = run[pend.req].server
         /\ loaded[KeyOf(pend.req)] = None
  <1>1. pend.req \in Runners /\ loaded[KeyOf(pend.req)] = None
    BY DEF PendLoadOk, TypeInv, ControlOK, Runners, LoadingInv, LoadingIsExclusive
  <1>2. run[pend.req] \in Runner
    BY <1>1 DEF TypeInv, TypeOK
  <1>3. \A x \in Runner : \A s : LET q == [x EXCEPT !.mu = "loader", !.session = s] IN
          /\ q.ref = x.ref /\ q.fired = x.fired /\ q.retrying = x.retrying
          /\ q.mu = "loader" /\ q.timer = x.timer /\ q.server = x.server
    BY DEF Runner
  <1>4. /\ \E s : run'[pend.req] = [run[pend.req] EXCEPT !.mu = "loader", !.session = s]
        /\ \A m \in Runners \ {pend.req} : run'[m] = run[m]
    <2>1. None \notin Runners
      BY ConfigAssumption DEF Runners
    <2>. QED
      BY <1>1, <2>1 DEF PendLoadOk
  <1>. QED
    BY <1>1, <1>2, <1>3, <1>4 DEF OnlyRunner, SameCounts

LEMMA LoadFailsDoes ==
  ASSUME TypeInv, PendLoadFails
  PROVE  /\ activeLoading \in Runners /\ OnlyRunner(activeLoading) /\ SameCounts(activeLoading)
         /\ run'[activeLoading].mu = run[activeLoading].mu
         /\ run'[activeLoading].timer = run[activeLoading].timer
         /\ activeLoading' = None /\ loaded' = loaded
  <1>1. activeLoading \in Runners
    BY DEF PendLoadFails, TypeInv, TypeOK
  <1>2. run \in [Runners -> Runner] /\ run[activeLoading] \in Runner
    BY <1>1 DEF TypeInv, TypeOK
  <1>3. \A x \in Runner : LET q == [x EXCEPT !.server = "closed"] IN
          /\ q.ref = x.ref /\ q.fired = x.fired /\ q.retrying = x.retrying
          /\ q.mu = x.mu /\ q.timer = x.timer
    BY DEF Runner
  <1>4. run'[activeLoading] = [run[activeLoading] EXCEPT !.server = "closed"]
    BY <1>1, <1>2 DEF PendLoadFails, AbortLoading
  <1>. QED
    BY <1>1, <1>2, <1>3, <1>4 DEF PendLoadFails, AbortLoading, OnlyRunner, SameCounts

OnlyRequest(r) == \A q \in Requests \ {r} : req'[q] = req[q]

LEMMA LoaderReadyDoes ==
  ASSUME TypeOK, NEW n \in Runners, LoaderReady(n)
  PROVE  /\ OnlyRunner(n) /\ run[n].mu = "loader" /\ run'[n].mu = "free"
         /\ run'[n].ref = IncRef(run[n].ref) /\ run'[n].fired = run[n].fired
         /\ run'[n].retrying = run[n].retrying /\ run'[n].timer = run[n].timer
         /\ run[n].server = "open" /\ run'[n].server = "open"
         /\ OnlyRequest(n) /\ req'[n].granted = n /\ req'[n].watcher = "watching"
         /\ req'[n].stage = req[n].stage /\ req'[n].seen = req[n].seen
         /\ req'[n].failed = req[n].failed
  <1>. DEFINE ref == IncRef(run[n].ref)
              rec == [run[n] EXCEPT !.mu = "free", !.ref = ref]
              request == [req[n] EXCEPT !.granted = n, !.watcher = "watching"]
  <1>1. run[n] \in Runner /\ req[n] \in Request /\ run[n].mu = "loader" /\ run[n].server = "open"
    BY DEF TypeOK, LoaderReady, Runners
  <1>2. /\ rec.mu = "free" /\ rec.ref = ref /\ rec.fired = run[n].fired
        /\ rec.retrying = run[n].retrying /\ rec.timer = run[n].timer /\ rec.server = run[n].server
    <2>. HIDE DEF ref
    <2>. QED BY <1>1 DEF Runner
  <1>3. /\ request.granted = n /\ request.watcher = "watching" /\ request.stage = req[n].stage
        /\ request.seen = req[n].seen /\ request.failed = req[n].failed
    BY <1>1 DEF Request
  <1>4. run' = [run EXCEPT ![n] = rec] /\ req' = [req EXCEPT ![n] = request]
    BY DEF LoaderReady
  <1>5. run'[n] = rec /\ OnlyRunner(n)
    <2>. HIDE DEF rec
    <2>. QED BY <1>4 DEF TypeOK, OnlyRunner
  <1>6. req'[n] = request /\ OnlyRequest(n)
    <2>. HIDE DEF request
    <2>. QED BY <1>4 DEF TypeOK, OnlyRequest, Runners
  <1>. HIDE DEF rec, request
  <1>. QED
    BY <1>1, <1>2, <1>3, <1>5, <1>6

\* What a step writes to errCh of a request, and nothing else.
Refused(r, reply) ==
  /\ OnlyRequest(r) /\ req'[r].failed = reply /\ req'[r].granted = req[r].granted
  /\ req'[r].watcher = req[r].watcher /\ req'[r].stage = req[r].stage
  /\ req'[r].seen = req[r].seen

LEMMA RefusedIs ==
  ASSUME TypeOK, NEW r \in Requests, req' = [req EXCEPT ![r].failed = "error"]
  PROVE  Refused(r, "error")
  BY DEF TypeOK, Request, Refused, OnlyRequest

LEMMA LoaderFailsDoes ==
  ASSUME TypeOK, NEW n \in Runners, LoaderFails(n)
  PROVE  SentAs(n, run[n], "failing") /\ Refused(n, "error") /\ run[n].mu = "loader"
  <1>1. run[n] \in Runner
    BY DEF TypeOK
  <1>. QED
    BY <1>1, SendExpiredDoes, RefusedIs DEF LoaderFails, Senders, Runners

LEMMA TimerFiresDoes ==
  ASSUME TypeOK, NEW n \in Runners, TimerFires(n)
  PROVE  /\ OnlyRunner(n) /\ run'[n].mu = run[n].mu /\ run'[n].ref = run[n].ref
         /\ run[n].timer = "armed" /\ run'[n].timer = "elapsed"
         /\ run'[n].fired = run[n].fired + 1 /\ run[n].fired \in Nat
         /\ run'[n].retrying = run[n].retrying /\ run'[n].server = run[n].server
  <1>1. run[n] \in Runner /\ run[n].fired \in Nat /\ run[n].timer = "armed"
    BY DEF TypeOK, Runner, TimerFires
  <1>2. \A x \in Runner : \A f : LET q == [x EXCEPT !.timer = "elapsed", !.fired = f] IN
          /\ q.ref = x.ref /\ q.fired = f /\ q.retrying = x.retrying
          /\ q.mu = x.mu /\ q.timer = "elapsed" /\ q.server = x.server
    BY DEF Runner
  <1>3. run'[n] = [run[n] EXCEPT !.timer = "elapsed", !.fired = run[n].fired + 1]
    BY DEF TimerFires, TypeOK
  <1>. QED
    BY <1>1, <1>2, <1>3 DEF TimerFires, OnlyRunner, TypeOK

LEMMA TimerCallbackDoes ==
  ASSUME TypeOK, NEW n \in Runners, TimerCallback(n)
  PROVE  /\ OnlyRunner(n) /\ run[n].mu = "free" /\ run[n].fired # 0
         /\ run'[n].ref = run[n].ref /\ run'[n].retrying = run[n].retrying
         /\ run'[n].server = run[n].server
         /\ \/ run'[n].mu = "free" /\ \A m : Expected(m)' <=> Expected(m) \/ m = n
            \/ run'[n].mu = "timer" /\ expiredCh' = expiredCh
  <1>. DEFINE rec == [run[n] EXCEPT !.fired = @ - 1, !.timer = "nil"]
  <1>1. run[n] \in Runner /\ run[n].fired - 1 \in Nat /\ run[n].fired # 0
    BY DEF TypeOK, Runner, TimerCallback
  <1>2. \A f \in Nat : LET q == [run[n] EXCEPT !.fired = f, !.timer = "nil"] IN
          /\ q \in Runner /\ q.ref = run[n].ref /\ q.retrying = run[n].retrying
          /\ q.server = run[n].server
    BY <1>1 DEF Runner
  <1>3. /\ rec \in Runner /\ rec.ref = run[n].ref /\ rec.retrying = run[n].retrying
        /\ rec.server = run[n].server
    BY <1>1, <1>2, Zenon
  <1>4. SendExpired(n, rec, "timer") /\ run[n].mu = "free"
    BY DEF TimerCallback, Free
  <1>. HIDE DEF rec
  <1>5. SentAs(n, rec, "timer")
    BY <1>3, <1>4, SendExpiredDoes DEF Senders
  <1>. QED
    BY <1>1, <1>3, <1>4, <1>5 DEF SentAs, OnlyRunner

LEMMA RetryExpiredDoes ==
  ASSUME TypeOK, NEW n \in Runners, RetryExpired(n)
  PROVE  /\ OnlyRunner(n) /\ run'[n].mu = run[n].mu /\ run'[n].ref = run[n].ref
         /\ run[n].retrying # 0 /\ run'[n].timer = run[n].timer /\ run'[n].fired = run[n].fired
         /\ run'[n].server = run[n].server
         /\ \A m : Expected(m)' <=> Expected(m) \/ m = n
  <1>1. run[n] \in Runner
    BY DEF TypeOK
  <1>2. \A x \in Runner : \A f : LET q == [x EXCEPT !.retrying = f] IN
          /\ q.ref = x.ref /\ q.fired = x.fired
          /\ q.mu = x.mu /\ q.timer = x.timer /\ q.server = x.server
    BY DEF Runner
  <1>3. run'[n] = [run[n] EXCEPT !.retrying = run[n].retrying - 1]
    BY DEF RetryExpired, TypeOK
  <1>4. \A m : Expected(m)' <=> Expected(m) \/ m = n
    BY AppendHas DEF RetryExpired, Expected, TypeOK
  <1>5. run[n].retrying # 0
    BY <1>1 DEF RetryExpired
  <1>. QED
    BY <1>1, <1>2, <1>3, <1>4, <1>5 DEF RetryExpired, OnlyRunner, TypeOK

LEMMA BlockedSendDoes ==
  ASSUME TypeOK, NEW n \in Runners, BlockedSend(n)
  PROVE  /\ SentAs(n, run[n], run[n].mu) /\ run'[n].mu = "free" /\ run[n].mu \in Senders
         /\ pend'.req = pend.req /\ pend'.target = pend.target /\ pend'.list = pend.list
         /\ pend'.todo = pend.todo /\ pend'.await = pend.await
         /\ \/ run[n].mu # "pending" /\ pend' = pend
            \/ run[n].mu = "pending" /\ pend.pc = "sendOne" /\ pend'.pc = "wait"
            \/ run[n].mu = "pending" /\ pend.pc # "sendOne" /\ pend'.pc = "evict"
         /\ \/ comp' = comp
            \/ comp'.pc = "select" /\ comp'.run = None
  <1>1. run[n] \in Runner /\ run[n].mu \in Senders /\ Room(expiredCh)
    BY DEF TypeOK, BlockedSend, Senders
  <1>2. SentAs(n, run[n], run[n].mu)
    BY <1>1, SendExpiredDoes DEF BlockedSend
  <1>3. run'[n].mu = "free"
    BY <1>1, SendExpiredType DEF BlockedSend, Senders
  <1>. QED
    BY <1>1, <1>2, <1>3 DEF BlockedSend, CompDone, Pend, TypeOK

\* A runner that is counted down.
Counted(n) ==
  /\ OnlyRunner(n) /\ run[n].mu = "free"
  /\ run'[n].ref = DecRef(run[n].ref)
  /\ run'[n].fired = run[n].fired /\ run'[n].retrying = run[n].retrying
  /\ run'[n].server = run[n].server
  /\ \/ DecRef(run[n].ref) > 0 /\ run'[n].mu = "free" /\ expiredCh' = expiredCh
     \/ run'[n].mu = "free" /\ \A m : Expected(m)' <=> Expected(m) \/ m = n
     \/ run'[n].mu = "completed" /\ expiredCh' = expiredCh
     \/ run'[n].mu = "free" /\ run'[n].timer = "armed" /\ expiredCh' = expiredCh

LEMMA FinishDoes ==
  ASSUME TypeInv, CompFinish
  PROVE  /\ comp.pc = "finish" /\ comp.run \in Runners /\ Counted(comp.run)
         /\ \/ comp'.pc = "select" /\ comp'.run = None /\ run'[comp.run].mu = "free"
            \/ comp'.pc = "sending" /\ comp'.run = comp.run
  <1>. DEFINE n == comp.run
              ref == DecRef(run[n].ref)
              rec == [run[n] EXCEPT !.ref = ref]
              nil == [rec EXCEPT !.timer = "nil"]
              armed == [rec EXCEPT !.timer = "armed"]
              Like(x) == /\ x \in Runner /\ x.ref = ref /\ x.fired = run[n].fired /\ x.mu = run[n].mu
                         /\ x.retrying = run[n].retrying /\ x.server = run[n].server
  <1>1. n \in Runners /\ run[n] \in Runner /\ comp.pc = "finish" /\ run[n].mu = "free"
    BY DEF CompFinish, TypeInv, ControlOK, TypeOK, Free
  <1>2. Like(rec) /\ Like(nil) /\ Like(armed) /\ armed.timer = "armed" /\ rec.session = run[n].session
    <2>1. ref \in 0 .. RefMod - 1
      BY <1>1, RefType DEF Runner
    <2>. HIDE DEF ref, n
    <2>. QED BY <1>1, <2>1 DEF Runner
  <1>3. /\ CompDone => comp'.pc = "select" /\ comp'.run = None
        /\ CompGoto("sending") => comp'.pc = "sending" /\ comp'.run = comp.run
    BY DEF CompDone, CompGoto, TypeInv, TypeOK, Comp
  <1>4. \/ rec.ref > 0 /\ run' = [run EXCEPT ![n] = rec] /\ expiredCh' = expiredCh /\ CompDone
        \/ SendExpired(n, nil, "completed") /\ Room(expiredCh) /\ CompDone
        \/ SendExpired(n, nil, "completed") /\ CompGoto("sending")
        \/ run' = [run EXCEPT ![n] = armed] /\ expiredCh' = expiredCh /\ CompDone
    BY Zenon DEF CompFinish
  <1>. DEFINE Goal == /\ Counted(n)
                      /\ \/ comp'.pc = "select" /\ comp'.run = None /\ run'[n].mu = "free"
                         \/ comp'.pc = "sending" /\ comp'.run = comp.run
  <1>5. Goal
    <2>. HIDE DEF rec, nil, armed
    <2>1. CASE rec.ref > 0 /\ run' = [run EXCEPT ![n] = rec] /\ expiredCh' = expiredCh /\ CompDone
      <3>1. run'[n] = rec /\ OnlyRunner(n)
        BY <1>1, <2>1 DEF TypeInv, TypeOK, OnlyRunner
      <3>. HIDE DEF n
      <3>. QED BY <1>1, <1>2, <1>3, <2>1, <3>1 DEF Counted
    <2>2. CASE /\ SendExpired(n, nil, "completed")
               /\ (Room(expiredCh) /\ CompDone) \/ CompGoto("sending")
      <3>1. SentAs(n, nil, "completed")
        BY <1>1, <1>2, <2>2, SendExpiredDoes DEF TypeInv, Senders
      <3>2. Room(expiredCh) => run'[n].mu = "free"
        BY <1>1, <1>2, <2>2, SendExpiredType DEF TypeInv
      <3>3. \/ comp'.pc = "select" /\ comp'.run = None /\ Room(expiredCh)
            \/ comp'.pc = "sending" /\ comp'.run = comp.run
        BY <1>3, <2>2
      <3>. HIDE DEF n
      <3>. QED BY <1>1, <1>2, <3>1, <3>2, <3>3 DEF Counted, SentAs, OnlyRunner
    <2>3. CASE run' = [run EXCEPT ![n] = armed] /\ expiredCh' = expiredCh /\ CompDone
      <3>1. run'[n] = armed /\ OnlyRunner(n)
        BY <1>1, <2>3 DEF TypeInv, TypeOK, OnlyRunner
      <3>. HIDE DEF n
      <3>. QED BY <1>1, <1>2, <1>3, <2>3, <3>1 DEF Counted
    <2>. QED
      BY <1>4, <2>1, <2>2, <2>3
  <1>. QED
    BY <1>1, <1>5

LEMMA RetryLaterDoes ==
  ASSUME TypeInv, CompRetryLater
  PROVE  /\ comp.run \in Runners /\ comp.pc = "expire" /\ OnlyRunner(comp.run)
         /\ run'[comp.run].mu = run[comp.run].mu /\ run'[comp.run].ref = run[comp.run].ref
         /\ run'[comp.run].timer = run[comp.run].timer
         /\ run'[comp.run].fired = run[comp.run].fired
         /\ run'[comp.run].retrying = run[comp.run].retrying + 1
         /\ run[comp.run].retrying \in Nat /\ run[comp.run].ref > 0
         /\ run'[comp.run].server = run[comp.run].server
  <1>1. comp.run \in Runners /\ run[comp.run] \in Runner
    BY DEF CompRetryLater, TypeInv, ControlOK, TypeOK
  <1>2. \A x \in Runner : \A f : LET q == [x EXCEPT !.retrying = f] IN
          /\ q.ref = x.ref /\ q.fired = x.fired /\ q.retrying = f
          /\ q.mu = x.mu /\ q.timer = x.timer /\ q.server = x.server
    BY DEF Runner
  <1>3. run'[comp.run] = [run[comp.run] EXCEPT !.retrying = run[comp.run].retrying + 1]
    BY <1>1 DEF CompRetryLater, TypeInv, TypeOK
  <1>4. run[comp.run].retrying \in Nat
    BY <1>1 DEF Runner
  <1>. QED
    BY <1>1, <1>2, <1>3, <1>4 DEF CompRetryLater, OnlyRunner, TypeInv, TypeOK, Busy

\* processCompleted drops a duplicate event, closes an orphan or unloads.
LEMMA CompExpireDoes ==
  ASSUME TypeInv, CompExpire
  PROVE  /\ comp.run \in Runners /\ comp.pc = "expire" /\ OnlyRunner(comp.run)
         /\ run[comp.run].mu = "free" /\ run[comp.run].ref = 0
         /\ SameCounts(comp.run) /\ run'[comp.run].timer \in {"nil", run[comp.run].timer}
         /\ \/ run' = run /\ loaded' = loaded /\ loaded[KeyOf(comp.run)] = None
               /\ comp'.pc = "select" /\ comp'.run = None
            \/ /\ run'[comp.run].mu = "free" /\ loaded' = loaded
               /\ loaded[KeyOf(comp.run)] # comp.run /\ comp'.pc = "select" /\ comp'.run = None
            \/ /\ run'[comp.run].mu = "draining" /\ loaded[KeyOf(comp.run)] = comp.run
               /\ loaded' = [loaded EXCEPT ![KeyOf(comp.run)] = None]
               /\ comp'.pc = "vram" /\ comp'.run = comp.run
  <1>. DEFINE n == comp.run
              current == loaded[KeyOf(n)]
              rec(mu) == [run[n] EXCEPT !.server = "closed", !.timer = "nil", !.mu = mu]
  <1>1. /\ n \in Runners /\ run[n] \in Runner /\ comp.pc = "expire" /\ run[n].mu = "free"
        /\ run[n].ref = 0
    BY DEF CompExpire, TypeInv, ControlOK, TypeOK, Free, Busy, Runner
  <1>2. ASSUME NEW mu PROVE /\ rec(mu).ref = run[n].ref /\ rec(mu).fired = run[n].fired
          /\ rec(mu).retrying = run[n].retrying /\ rec(mu).timer = "nil" /\ rec(mu).mu = mu
    <2>. HIDE DEF n
    <2>. QED BY <1>1 DEF Runner
  <1>3. comp' = [pc |-> "select", req |-> None, run |-> None] => comp'.pc = "select" /\ comp'.run = None
    OBVIOUS
  <1>4. comp' = [comp EXCEPT !.pc = "vram"] => comp'.pc = "vram" /\ comp'.run = comp.run
    BY DEF TypeInv, TypeOK, Comp
  <1>5. \/ current = None /\ run' = run /\ loaded' = loaded /\ CompDone
        \/ current # n /\ run' = [run EXCEPT ![n] = rec("free")] /\ loaded' = loaded /\ CompDone
        \/ current = n /\ run' = [run EXCEPT ![n] = rec("draining")]
           /\ loaded' = [loaded EXCEPT ![KeyOf(n)] = None] /\ CompGoto("vram")
    BY DEF CompExpire
  <1>. HIDE DEF rec
  <1>6. \A mu : run' = [run EXCEPT ![n] = rec(mu)] => run'[n] = rec(mu) /\ OnlyRunner(n)
    BY <1>1 DEF TypeInv, TypeOK, OnlyRunner
  <1>7. CASE current = None /\ run' = run /\ loaded' = loaded /\ CompDone
    BY <1>1, <1>3, <1>7 DEF OnlyRunner, SameCounts, CompDone
  <1>8. CASE current # n /\ run' = [run EXCEPT ![n] = rec("free")] /\ loaded' = loaded /\ CompDone
    BY <1>1, <1>2, <1>3, <1>6, <1>8, ZenonT(120) DEF SameCounts, CompDone
  <1>9. CASE current = n /\ run' = [run EXCEPT ![n] = rec("draining")]
             /\ loaded' = [loaded EXCEPT ![KeyOf(n)] = None] /\ CompGoto("vram")
    BY <1>1, <1>2, <1>4, <1>6, <1>9, ZenonT(120) DEF SameCounts, CompGoto
  <1>. QED
    BY <1>5, <1>7, <1>8, <1>9

LEMMA RecoveredDoes ==
  ASSUME TypeInv, CompRecovered
  PROVE  /\ comp.run \in Runners /\ comp.pc = "vram" /\ OnlyRunner(comp.run)
         /\ SameCounts(comp.run) /\ run'[comp.run].mu = "free"
         /\ run'[comp.run].timer = run[comp.run].timer
         /\ run'[comp.run].server = run[comp.run].server
         /\ comp'.pc = "notify" /\ comp'.run = comp.run
  <1>1. comp.run \in Runners /\ run[comp.run] \in Runner
    BY DEF CompRecovered, TypeInv, ControlOK, TypeOK
  <1>2. \A x \in Runner : LET q == [x EXCEPT !.mu = "free"] IN
          /\ q.ref = x.ref /\ q.fired = x.fired /\ q.retrying = x.retrying
          /\ q.mu = "free" /\ q.timer = x.timer /\ q.server = x.server
    BY DEF Runner
  <1>3. run'[comp.run] = [run[comp.run] EXCEPT !.mu = "free"]
    BY <1>1 DEF CompRecovered, TypeInv, TypeOK
  <1>. QED
    BY <1>1, <1>2, <1>3 DEF CompRecovered, CompGoto, OnlyRunner, SameCounts, TypeInv, TypeOK, Comp

LEMMA CloseDoes ==
  ASSUME TypeInv, CloseActive \/ CloseLoaded
  PROVE  \A n \in Runners : SameCounts(n) /\ run'[n].mu = run[n].mu /\ run'[n].timer = run[n].timer
  <1>1. \A x \in Runner : LET q == [x EXCEPT !.server = "closed"] IN
          /\ q.ref = x.ref /\ q.fired = x.fired /\ q.retrying = x.retrying
          /\ q.mu = x.mu /\ q.timer = x.timer
    BY DEF Runner
  <1>2. ASSUME NEW n \in Runners
        PROVE  SameCounts(n) /\ run'[n].mu = run[n].mu /\ run'[n].timer = run[n].timer
    <2>1. run[n] \in Runner
      BY DEF TypeInv, TypeOK
    <2>2. run'[n] = run[n] \/ run'[n] = [run[n] EXCEPT !.server = "closed"]
      BY DEF CloseActive, CloseLoaded
    <2>. QED
      BY <1>1, <2>1, <2>2 DEF SameCounts
  <1>. QED
    BY <1>2

-----------------------------------------------------------------------------
(* A runner is known once it was loaded.                                   *)

Moving(n) ==
  run[n].mu # "free" \/ run[n].timer # "nil" \/ run[n].fired # 0 \/ run[n].retrying # 0

Named(n) ==
  \/ \E k \in Keys : loaded[k] = n
  \/ \E q \in Requests : req[q].seen = n
  \/ Expected(n)
  \/ comp.run = n \/ pend.target = n \/ n \in pend.todo \/ n \in api.todo
  \/ Has(pend.list, n)

\* Somebody has heard of n: it is loaded, or was once.
Known(n) == Moving(n) \/ Named(n)

\* A step that changes nothing of a runner keeps it still.
LEMMA StillMoves ==
  ASSUME NEW n \in Runners, run'[n] = run[n]
  PROVE  Moving(n)' => Moving(n)
  BY DEF Moving

LEMMA KnownHandler ==
  ASSUME TypeInv, NEW r \in Requests, Handler(r), NEW n \in Runners, Known(n)'
  PROVE  Known(n)
  <1>1. /\ req \in [Requests -> Request] /\ n # None
        /\ KeyOf(r) \in Keys
    BY ConfigAssumption DEF TypeInv, TypeOK, Runners, KeyOf, Request
  <1>2. CASE GetRunner(r)
    <2>1. \A q \in Requests : req'[q].seen = IF q = r THEN loaded[KeyOf(r)] ELSE req[q].seen
      BY <1>1, <1>2 DEF GetRunner, Request
    <2>. QED
      BY <1>1, <1>2, <2>1 DEF GetRunner, Known, Moving, Named, Expected, chans
  <1>3. CASE HandlerCheck(r) \/ HandlerEnqueue(r) \/ CtxDone(r) \/ Watch(r)
    <2>1. \A q \in Requests : req'[q].seen = req[q].seen
      <3>1. CASE HandlerEnqueue(r)
        BY <3>1, EnqueueWrites
      <3>. QED
        BY <1>1, <1>3, <3>1 DEF HandlerCheck, CtxDone, Watch, Request
    <2>2. UNCHANGED <<run, loaded, expiredCh, pend, comp, api>>
      BY <1>3 DEF HandlerCheck, HandlerEnqueue, CtxDone, Watch, chans
    <2>. QED
      BY <2>1, <2>2 DEF Known, Moving, Named, Expected
  <1>4. CASE HandlerUse(r)
    <2>. DEFINE m == req[r].seen
    <2>1. m \in Runners
      BY <1>4 DEF HandlerUse, TypeInv, ControlOK, SeenOK
    <2>2. Used(r, m)
      BY <1>4, <2>1, UseDoes DEF HandlerUse, TypeInv
    <2>3. \A q \in Requests : req'[q].seen = req[q].seen
      BY <2>2 DEF Used
    <2>4. UNCHANGED <<loaded, expiredCh, pend, comp, api>>
      BY <1>4 DEF HandlerUse, chans
    <2>5. Named(n)' <=> Named(n)
      BY <2>3, <2>4 DEF Named, Expected
    <2>6. n # m => run'[n] = run[n]
      BY <2>2 DEF Used
    <2>7. Named(m)
      BY DEF Named
    <2>. QED
      BY <2>5, <2>6, <2>7, StillMoves DEF Known
  <1>. QED
    BY <1>2, <1>3, <1>4 DEF Handler

LEMMA KnownLoader ==
  ASSUME TypeInv, NEW r \in Runners, Loader(r) \/ Events(r), NEW n \in Runners, Known(n)'
  PROVE  Known(n)
  <1>1. run[r] \in Runner
    BY DEF TypeInv, TypeOK
  <1>2. CASE LoaderReady(r)
    <2>1. \A q \in Requests : req'[q].seen = req[q].seen
      BY <1>2, LoaderReadyDoes DEF TypeInv, OnlyRequest
    <2>2. UNCHANGED <<loaded, expiredCh, pend, comp, api>>
      BY <1>2 DEF LoaderReady, chans
    <2>. QED
      BY <1>2, <2>1, <2>2, LoaderReadyDoes DEF TypeInv, Known, Moving, Named, Expected, OnlyRunner
  <1>3. CASE LoaderFails(r)
    <2>1. SentAs(r, run[r], "failing") /\ run[r].mu = "loader"
      BY <1>3, LoaderFailsDoes DEF TypeInv
    <2>2. \A q \in Requests : req'[q].seen = req[q].seen
      BY <1>3, LoaderFailsDoes DEF TypeInv, Refused, OnlyRequest
    <2>3. UNCHANGED <<loaded, pend, comp, api>>
      BY <1>3 DEF LoaderFails
    <2>4. n # r => (Expected(n)' <=> Expected(n))
      BY <2>1 DEF SentAs, Expected
    <2>5. n # r => run'[n] = run[n]
      BY <2>1 DEF SentAs
    <2>. QED
      BY <2>1, <2>2, <2>3, <2>4, <2>5 DEF Known, Moving, Named
  <1>4. CASE TimerFires(r)
    <2>1. UNCHANGED <<req, loaded, expiredCh, pend, comp, api>>
      BY <1>4 DEF TimerFires, chans
    <2>. QED
      BY <1>4, <2>1, TimerFiresDoes DEF TypeInv, Known, Moving, Named, Expected, OnlyRunner
  <1>5. CASE TimerCallback(r)
    <2>1. UNCHANGED <<req, loaded, pend, comp, api>>
      BY <1>5 DEF TimerCallback
    <2>2. n # r => (Expected(n)' <=> Expected(n))
      BY <1>5, TimerCallbackDoes DEF TypeInv, Expected
    <2>3. run[r].fired # 0 /\ (n # r => run'[n] = run[n])
      BY <1>5, TimerCallbackDoes DEF TypeInv, OnlyRunner
    <2>. QED
      BY <2>1, <2>2, <2>3 DEF Known, Moving, Named
  <1>6. CASE RetryExpired(r)
    <2>1. UNCHANGED <<req, loaded, pend, comp, api>>
      BY <1>6 DEF RetryExpired
    <2>2. n # r => (Expected(n)' <=> Expected(n))
      BY <1>6, RetryExpiredDoes DEF TypeInv
    <2>3. run[r].retrying # 0 /\ (n # r => run'[n] = run[n])
      BY <1>6, RetryExpiredDoes DEF TypeInv, OnlyRunner
    <2>. QED
      BY <2>1, <2>2, <2>3 DEF Known, Moving, Named
  <1>7. CASE BlockedSend(r)
    <2>1. SentAs(r, run[r], run[r].mu) /\ run[r].mu # "free" /\ comp'.run \in {comp.run, None}
      BY <1>7, BlockedSendDoes DEF TypeInv, Senders
    <2>2. pend'.target = pend.target /\ pend'.todo = pend.todo /\ pend'.list = pend.list
      BY <1>7, BlockedSendDoes DEF TypeInv
    <2>3. UNCHANGED <<req, loaded, api>>
      BY <1>7 DEF BlockedSend
    <2>4. n # r => (Expected(n)' <=> Expected(n))
      BY <2>1 DEF SentAs, Expected
    <2>5. n # r => run'[n] = run[n]
      BY <2>1 DEF SentAs
    <2>6. n # None
      BY ConfigAssumption DEF Runners
    <2>. QED
      BY <2>1, <2>2, <2>3, <2>4, <2>5, <2>6 DEF Known, Moving, Named
  <1>. QED
    BY <1>2, <1>3, <1>4, <1>5, <1>6, <1>7 DEF Loader, Events

\* A runner that is asked to expire was known.
LEMMA KnownAsked ==
  ASSUME NEW m \in Runners, NEW sender, Asked(m, sender), Named(m), NEW n \in Runners, Known(n)',
         UNCHANGED <<req, loaded, comp>>,
         pend'.target = pend.target /\ pend'.list = pend.list,
         pend'.todo \subseteq pend.todo /\ api'.todo \subseteq api.todo
  PROVE  Known(n)
  <1>1. n # m => (Expected(n)' <=> Expected(n)) /\ run'[n] = run[n]
    BY DEF Asked, Expected
  <1>. QED
    BY <1>1 DEF Known, Moving, Named

LEMMA KnownPlace ==
  ASSUME TypeInv, PendPlace, NEW n \in Runners, Known(n)'
  PROVE  Known(n)
  <1>1. n # None /\ pend \in Pend
    BY ConfigAssumption DEF TypeInv, TypeOK, Runners
  <1>2. CASE PendTake \/ PendUnloaded
    <2>1. UNCHANGED <<run, req, loaded, expiredCh, comp, api>>
      BY <1>2 DEF PendTake, PendUnloaded
    <2>2. pend'.target \in {pend.target, None} /\ pend'.todo = pend.todo /\ pend'.list = pend.list
      BY <1>1, <1>2 DEF PendTake, PendUnloaded, Pend
    <2>. QED
      BY <1>1, <2>1, <2>2 DEF Known, Moving, Named, Expected
  <1>3. CASE PendTop
    <2>1. UNCHANGED <<run, req, loaded, expiredCh, comp, api>>
      BY <1>3 DEF PendTop, chans
    <2>2. /\ pend'.target \in {pend.target, loaded[KeyOf(pend.req)]} /\ pend'.list = pend.list
          /\ pend'.todo \in {pend.todo, LoadedRunners, {}}
      <3>. DEFINE count == Cardinality(LoadedRunners)
      <3>1. \/ pend' = [pend EXCEPT !.pc = "check", !.target = loaded[KeyOf(pend.req)]]
            \/ pend' = [pend EXCEPT !.pc = "find"]
            \/ \E toLock \in {LoadedRunners, {}} :
                 pend' = [pend EXCEPT !.pc = "fit", !.full = (count > 0), !.todo = toLock]
        BY <1>3, Zenon DEF PendTop, PendGoto
      <3>. HIDE DEF count
      <3>2. ASSUME NEW full, NEW toLock,
                   pend' = [pend EXCEPT !.pc = "fit", !.full = full, !.todo = toLock]
            PROVE  pend'.target = pend.target /\ pend'.list = pend.list /\ pend'.todo = toLock
        BY <1>1, <3>2 DEF Pend
      <3>3. CASE \E toLock \in {LoadedRunners, {}} :
                   pend' = [pend EXCEPT !.pc = "fit", !.full = (count > 0), !.todo = toLock]
        <4>1. PICK toLock \in {LoadedRunners, {}} :
                pend' = [pend EXCEPT !.pc = "fit", !.full = (count > 0), !.todo = toLock]
          BY <3>3
        <4>2. pend'.target = pend.target /\ pend'.list = pend.list /\ pend'.todo = toLock
          BY <3>2, <4>1, Zenon
        <4>. QED
          BY <4>1, <4>2
      <3>. QED
        BY <1>1, <3>1, <3>3 DEF Pend
    <2>3. KeyOf(pend.req) \in Keys /\ \A m \in LoadedRunners : \E k \in Keys : loaded[k] = m
      BY <1>3 DEF PendTop, TypeInv, TypeOK, ControlOK, KeyOf, Request, LoadedRunners
    <2>. QED
      BY <1>1, <2>1, <2>2, <2>3 DEF Known, Moving, Named, Expected
  <1>4. CASE PendCheck
    <2>1. UNCHANGED <<run, req, loaded, expiredCh, comp, api>>
      BY <1>4 DEF PendCheck, chans
    <2>2. pend'.target = pend.target /\ pend'.list = pend.list /\ pend'.todo = pend.todo
      BY <1>1, <1>4 DEF PendCheck, PendGoto, Pend
    <2>. QED
      BY <2>1, <2>2 DEF Known, Moving, Named, Expected
  <1>5. CASE PendUse
    <2>1. UNCHANGED <<loaded, expiredCh, comp, api>>
      BY <1>5 DEF PendUse, chans
    <2>2. pend'.target = None /\ pend'.list = pend.list /\ pend'.todo = pend.todo
      BY <1>1, <1>5 DEF PendUse, PendDone, Pend
    <2>3. pend.req \in Requests /\ pend.target \in Runners
      BY <1>5 DEF PendUse, TypeInv, ControlOK
    <2>4. Used(pend.req, pend.target)
      BY <1>5, <2>3, UseDoes DEF PendUse, TypeInv
    <2>5. \A q \in Requests : req'[q].seen = req[q].seen
      BY <2>4 DEF Used
    <2>6. n # pend.target => run'[n] = run[n]
      BY <2>4 DEF Used
    <2>. QED
      BY <1>1, <2>1, <2>2, <2>5, <2>6 DEF Known, Moving, Named, Expected
  <1>. QED
    BY <1>2, <1>3, <1>4, <1>5 DEF PendPlace

LEMMA KnownLoad ==
  ASSUME TypeInv, LoadingInv, PendLoad, NEW n \in Runners, Known(n)'
  PROVE  Known(n) \/ (PendLoadOk /\ n = pend.req)
  <1>1. n # None /\ pend \in Pend /\ req \in [Requests -> Request]
    BY ConfigAssumption DEF TypeInv, TypeOK, Runners
  <1>2. /\ pend'.target \in {pend.target, None} /\ pend'.todo \subseteq pend.todo
        /\ pend'.list = pend.list
    BY <1>1 DEF PendLoad, PendUpdateFreeSpace, PendNoServer, PendPreflight,
       PendSpawn, PendResume, PendLoadOk, PendLoadTooBig, PendLoadFails, PendLoadFailsNil,
       PendNeedEvict, PendDone, PendGoto, Pend
  <1>3. UNCHANGED <<expiredCh, comp, api>>
    BY DEF PendLoad, PendUpdateFreeSpace, PendNoServer, PendPreflight, PendSpawn,
       PendResume, PendLoadOk, PendLoadTooBig, PendLoadFails, PendLoadFailsNil, chans
  <1>4. \A q \in Requests : req'[q].seen = req[q].seen
    <2>1. \/ req' = req
          \/ req' = [req EXCEPT ![pend.req].failed = "error"]
          \/ req' = [req EXCEPT ![pend.req].oom = TRUE]
      BY DEF PendLoad, PendUpdateFreeSpace, PendNoServer, PendPreflight, PendSpawn,
         PendResume, PendLoadOk, PendLoadTooBig, PendLoadFails, PendLoadFailsNil
    <2>. QED
      BY <1>1, <2>1 DEF Request
  <1>5. CASE PendLoadOk
    <2>1. pend.req \in Runners /\ OnlyRunner(pend.req)
      BY <1>5, LoadOkDoes
    <2>2. \A k \in Keys : loaded'[k] \in {loaded[k], pend.req}
      BY <1>5 DEF PendLoadOk, TypeInv, TypeOK
    <2>3. n # pend.req => run'[n] = run[n]
      BY <2>1 DEF OnlyRunner
    <2>. QED
      BY <1>1, <1>2, <1>3, <1>4, <1>5, <2>2, <2>3 DEF Known, Moving, Named, Expected
  <1>6. CASE ~PendLoadOk
    <2>1. loaded' = loaded
      BY <1>6 DEF PendLoad, PendUpdateFreeSpace, PendNoServer, PendPreflight, PendSpawn,
         PendResume, PendLoadTooBig, PendLoadFails, PendLoadFailsNil
    <2>2. Moving(n)' => Moving(n)
      <3>1. CASE PendSpawn
        BY <3>1, SpawnDoes DEF Moving, OnlyRunner, SameCounts
      <3>2. CASE PendLoadFails
        BY <3>2, LoadFailsDoes DEF Moving, OnlyRunner, SameCounts
      <3>3. CASE ~PendSpawn /\ ~PendLoadFails
        <4>1. run' = run
          BY <1>6, <3>3 DEF PendLoad, PendUpdateFreeSpace, PendNoServer, PendPreflight,
             PendResume, PendLoadTooBig, PendLoadFailsNil
        <4>. QED BY <4>1 DEF Moving
      <3>. QED
        BY <3>1, <3>2, <3>3
    <2>. QED
      BY <1>1, <1>2, <1>3, <1>4, <2>1, <2>2 DEF Known, Named, Expected
  <1>. QED
    BY <1>5, <1>6

LEMMA KnownRoom ==
  ASSUME TypeInv, PendMakeRoom, NEW n \in Runners, Known(n)'
  PROVE  Known(n)
  <1>1. n # None /\ pend \in Pend
    BY ConfigAssumption DEF TypeInv, TypeOK, Runners
  <1>2. CASE PendExpire
    <2>1. pend.target \in Runners
      BY <1>2 DEF PendExpire, TypeInv, ControlOK
    <2>2. Asked(pend.target, "pending")
      BY <1>2, <2>1, ExpireDoes DEF PendExpire, TypeInv, Senders
    <2>3. pend'.target = pend.target /\ pend'.list = pend.list /\ pend'.todo = pend.todo
      BY <1>1, <1>2 DEF PendExpire, PendGoto, Pend
    <2>. QED
      BY <1>2, <2>1, <2>2, <2>3, KnownAsked DEF PendExpire, Named
  <1>3. CASE PendEvict
    <2>1. PICK m \in pend.todo : Expire(m, "pending")
      BY <1>3 DEF PendEvict
    <2>2. m \in Runners
      BY <1>1 DEF Pend
    <2>3. Asked(m, "pending") /\ Named(m)
      BY <2>1, <2>2, ExpireDoes DEF TypeInv, Senders, Named
    <2>4. pend'.target = pend.target /\ pend'.list = pend.list /\ pend'.todo \subseteq pend.todo
      BY <1>1, <1>3 DEF PendEvict, Pend
    <2>. QED
      BY <1>3, <2>2, <2>3, <2>4, KnownAsked DEF PendEvict
  <1>4. CASE PendFind \/ PendScan \/ PendEvictAll \/ PendEvictWait
    <2>1. UNCHANGED <<run, req, loaded, expiredCh, comp, api>>
      BY <1>4 DEF PendFind, PendScan, PendEvictAll, PendEvictWait, chans
    <2>2. \A m \in LoadedRunners : \E k \in Keys : loaded[k] = m
      BY DEF LoadedRunners
    <2>3. n = pend'.target \/ Has(pend'.list, n) \/ n \in pend'.todo =>
            n = pend.target \/ Has(pend.list, n) \/ n \in pend.todo \/ n \in LoadedRunners
      <3>1. CASE PendFind
        <4>1. CASE pend' = [pend EXCEPT !.pc = "top"]
          BY <1>1, <4>1 DEF Pend
        <4>2. CASE \E q \in Orders(LoadedRunners) : LoadedRunners # {} /\
                     pend' = [pend EXCEPT !.pc = "scan", !.list = q, !.target = q[1]]
          <5>1. PICK q \in Orders(LoadedRunners) : LoadedRunners # {} /\
                     pend' = [pend EXCEPT !.pc = "scan", !.list = q, !.target = q[1]]
            BY <4>2
          <5>2. pend'.list = q /\ pend'.target = q[1] /\ pend'.todo = pend.todo
            BY <1>1, <5>1 DEF Pend
          <5>3. q \in Seq(Runners) /\ Len(q) = Cardinality(LoadedRunners) /\ Len(q) > 0
                /\ \A i \in 1 .. Len(q) : q[i] \in LoadedRunners
            <6>1. /\ IsFiniteSet(LoadedRunners) /\ Cardinality(LoadedRunners) \in Nat
                  /\ LoadedRunners \subseteq Runners
              BY LoadedFinite DEF TypeInv, TypeOK
            <6>2. Cardinality(LoadedRunners) # 0
              BY <5>1, <6>1, FS_EmptySet
            <6>. QED BY <6>1, <6>2 DEF Orders
          <5>. QED
            BY <5>2, <5>3 DEF Has
        <4>. QED
          BY <3>1, <4>1, <4>2 DEF PendFind, PendGoto
      <3>2. CASE PendScan
        <4>1. pend.list \in Seq(Runners)
          BY <1>1 DEF Pend
        <4>2. pend'.todo = pend.todo
          BY <1>1, <3>2 DEF PendScan, PendGoto, Pend
        <4>3. CASE pend.list = <<>>
          BY <1>1, <3>2, <4>3 DEF PendScan, PendGoto, Pend
        <4>4. CASE pend.list # <<>>
          <5>1. \/ pend'.target = Head(pend.list) /\ pend'.list = <<>>
                \/ pend'.target = pend.target /\ pend'.list = Tail(pend.list)
            BY <1>1, <3>2, <4>4 DEF PendScan, Pend
          <5>2. ~Has(<<>>, n)
            BY DEF Has
          <5>3. /\ Has(pend.list, Head(pend.list))
                /\ Has(Tail(pend.list), n) => Has(pend.list, n)
            BY <4>1, <4>4, TailHas
          <5>. QED
            BY <4>2, <5>1, <5>2, <5>3
        <4>. QED
          BY <4>3, <4>4
      <3>3. CASE PendEvictAll
        BY <1>1, <3>3 DEF PendEvictAll, Pend, LoadedRunners
      <3>4. CASE PendEvictWait
        BY <1>1, <3>4 DEF PendEvictWait, Pend
      <3>. QED
        BY <1>4, <3>1, <3>2, <3>3, <3>4
    <2>. QED
      BY <2>1, <2>2, <2>3 DEF Known, Moving, Named, Expected
  <1>. QED
    BY <1>2, <1>3, <1>4 DEF PendMakeRoom

LEMMA KnownCompleted ==
  ASSUME TypeInv, ProcessCompleted, NEW n \in Runners, Known(n)'
  PROVE  Known(n)
  <1>1. n # None
    BY ConfigAssumption DEF Runners
  <1>2. UNCHANGED <<req, pend, api>>
    BY DEF ProcessCompleted, CompTakeFinished, CompFinish, CompTakeExpired,
       CompRetryLater, CompExpire, CompRecovered, CompNotify
  <1>3. CASE CompTakeFinished
    <2>1. UNCHANGED <<run, loaded, expiredCh>>
      BY <1>3 DEF CompTakeFinished
    <2>2. comp'.run \in {comp.run, loaded[KeyOf(Head(finishedCh))]}
      BY <1>3 DEF CompTakeFinished
    <2>3. KeyOf(Head(finishedCh)) \in Keys
      <3>1. Head(finishedCh) \in Requests
        BY <1>3 DEF CompTakeFinished, TypeInv, TypeOK
      <3>. QED
        BY <3>1 DEF TypeInv, TypeOK, KeyOf, Request
    <2>. QED
      BY <1>2, <2>1, <2>2, <2>3 DEF Known, Moving, Named, Expected
  <1>4. CASE CompFinish
    <2>1. n # comp.run => run'[n] = run[n] /\ (Expected(n)' => Expected(n))
      BY <1>4, FinishDoes DEF Counted, OnlyRunner, Expected
    <2>2. comp'.run \in {comp.run, None} /\ loaded' = loaded
      BY <1>4, FinishDoes DEF CompFinish
    <2>. QED
      BY <1>1, <1>2, <2>1, <2>2 DEF Known, Moving, Named
  <1>5. CASE CompTakeExpired
    <2>1. UNCHANGED <<run, loaded>> /\ expiredCh # <<>> /\ expiredCh' = Tail(expiredCh)
          /\ comp'.run = Head(expiredCh) /\ expiredCh \in Seq(Runners)
      BY <1>5 DEF CompTakeExpired, TypeInv, TypeOK
    <2>2. /\ Expected(Head(expiredCh))
          /\ Expected(n)' => Expected(n)
      BY <2>1, TailHas DEF Expected
    <2>. QED
      BY <1>2, <2>1, <2>2 DEF Known, Moving, Named
  <1>6. CASE CompRetryLater
    <2>1. n # comp.run => run'[n] = run[n]
      BY <1>6, RetryLaterDoes DEF OnlyRunner
    <2>2. comp'.run = None /\ UNCHANGED <<loaded, expiredCh>>
      BY <1>6 DEF CompRetryLater, CompDone, chans
    <2>. QED
      BY <1>1, <1>2, <2>1, <2>2 DEF Known, Moving, Named, Expected
  <1>7. CASE CompExpire
    <2>1. n # comp.run => run'[n] = run[n]
      BY <1>7, CompExpireDoes DEF OnlyRunner
    <2>2. comp'.run \in {comp.run, None} /\ UNCHANGED expiredCh
      BY <1>7, CompExpireDoes DEF CompExpire, chans
    <2>3. \A k \in Keys : loaded'[k] \in {loaded[k], None}
      BY <1>7, CompExpireDoes DEF TypeInv, TypeOK
    <2>. QED
      BY <1>1, <1>2, <2>1, <2>2, <2>3 DEF Known, Moving, Named, Expected
  <1>8. CASE CompRecovered
    <2>1. n # comp.run => run'[n] = run[n]
      BY <1>8, RecoveredDoes DEF OnlyRunner
    <2>2. comp'.run = comp.run /\ UNCHANGED <<loaded, expiredCh>>
      BY <1>8, RecoveredDoes DEF CompRecovered, chans
    <2>. QED
      BY <1>2, <2>1, <2>2 DEF Known, Moving, Named, Expected
  <1>9. CASE CompNotify
    <2>1. comp'.run = None /\ UNCHANGED <<run, loaded, expiredCh>>
      BY <1>9 DEF CompNotify, CompDone
    <2>. QED
      BY <1>1, <1>2, <2>1 DEF Known, Moving, Named, Expected
  <1>. QED
    BY <1>3, <1>4, <1>5, <1>6, <1>7, <1>8, <1>9 DEF ProcessCompleted

LEMMA KnownOutside ==
  ASSUME TypeInv, ApiLookup \/ ApiExpire \/ Shutdown, NEW n \in Runners, Known(n)'
  PROVE  Known(n)
  <1>1. CASE ApiLookup
    <2>1. UNCHANGED <<run, req, loaded, expiredCh, comp, pend>> /\ api'.todo \subseteq LoadedRunners
      BY <1>1 DEF ApiLookup, chans
    <2>2. \A m \in LoadedRunners : \E k \in Keys : loaded[k] = m
      BY DEF LoadedRunners
    <2>. QED
      BY <2>1, <2>2 DEF Known, Moving, Named, Expected
  <1>2. CASE ApiExpire
    <2>1. PICK m \in api.todo : Expire(m, "api") /\ api' = [api EXCEPT !.todo = @ \ {m}]
      BY <1>2 DEF ApiExpire
    <2>2. m \in Runners /\ api'.todo \subseteq api.todo
      BY <2>1 DEF TypeInv, TypeOK
    <2>3. Asked(m, "api") /\ Named(m)
      BY <2>1, <2>2, ExpireDoes DEF TypeInv, Senders, Named
    <2>. QED
      BY <1>2, <2>2, <2>3, KnownAsked DEF ApiExpire
  <1>3. CASE Signal \/ Exit \/ LoopsStop
    <2>1. UNCHANGED <<run, req, loaded, expiredCh, api>>
      BY <1>3 DEF Signal, Exit, LoopsStop, chans
    <2>2. comp'.run = comp.run
      BY <1>3 DEF Signal, Exit, LoopsStop, CompGoto, TypeInv, TypeOK, Comp
    <2>3. pend'.target = pend.target /\ pend'.todo = pend.todo /\ pend'.list = pend.list
      BY <1>3 DEF Signal, Exit, LoopsStop, PendGoto, TypeInv, TypeOK, Pend
    <2>. QED
      BY <2>1, <2>2, <2>3 DEF Known, Moving, Named, Expected
  <1>4. CASE CloseActive \/ CloseLoaded
    <2>1. UNCHANGED <<req, loaded, expiredCh, comp, pend, api>>
      BY <1>4 DEF CloseActive, CloseLoaded, chans
    <2>2. Moving(n)' => Moving(n)
      BY <1>4, CloseDoes DEF Moving, SameCounts
    <2>. QED
      BY <2>1, <2>2 DEF Known, Named, Expected
  <1>. QED
    BY <1>1, <1>2, <1>3, <1>4 DEF Shutdown

\* Only a load makes a runner known.
LEMMA KnownStep ==
  ASSUME TypeInv, LoadingInv, [Next]_vars, NEW n \in Runners, Known(n)'
  PROVE  Known(n) \/ (PendLoadOk /\ n = pend.req)
  <1>1. CASE UNCHANGED vars
    BY <1>1 DEF vars, chans, Known, Moving, Named, Expected
  <1>2. CASE Next
    <2>1. \A r \in Requests : r \in Runners
      BY DEF Runners
    <2>. QED
      BY <1>2, <2>1, KnownHandler, KnownLoader, KnownPlace, KnownLoad, KnownRoom, KnownCompleted,
         KnownOutside DEF Next
  <1>. QED
    BY <1>1, <1>2

-----------------------------------------------------------------------------
(* Requests in line.                                                       *)

Queued(r) == Has(pendingCh, r)
InLine(r) == req[r].stage # "submitted" \/ Queued(r) \/ pend.req = r
Awaiting(r) == InLine(r) \/ run[r].mu = "loader"
Quiet(r) == req[r].granted = None /\ req[r].failed = "no" /\ req[r].watcher = "none"

\* A request is with its handler, in the channel or with the pending loop.
Places ==
  /\ \A r \in Requests : req[r].stage # "submitted" => ~Queued(r) /\ pend.req # r
  /\ ~Has(pendingCh, pend.req) /\ Distinct(pendingCh)
  /\ pend.pc = "select" => pend.req = None

\* Who is in line has no runner yet, of which nobody has heard, and who is in
\* line or loads was not answered.
LineInv ==
  /\ Places
  /\ \A r \in Requests : /\ InLine(r) => ~Known(r)
                         /\ Awaiting(r) => Quiet(r)

\* How the line moves.
LineGoes ==
  /\ Places'
  /\ \A r \in Requests : /\ InLine(r)' => InLine(r)
                         /\ Awaiting(r)' => Awaiting(r) /\ Quiet(r)'

\* A step that puts nobody in line and answers nobody who waits.
LEMMA LineRests ==
  ASSUME LineInv, pendingCh' = pendingCh, pend'.req = pend.req,
         pend'.pc = "select" => pend.pc = "select",
         \A r \in Requests : req'[r].stage # "submitted" => req[r].stage # "submitted",
         \A r \in Requests : Awaiting(r) /\ Awaiting(r)' => Quiet(r)',
         \A r \in Requests : run'[r].mu = "loader" => run[r].mu = "loader"
  PROVE  LineGoes
  BY DEF LineInv, Places, LineGoes, InLine, Awaiting, Queued, Distinct, Has

\* One that leaves the requests alone.
LEMMA LineStays ==
  ASSUME LineInv, UNCHANGED <<req, pendingCh>>, pend'.req = pend.req,
         pend'.pc = "select" => pend.pc = "select",
         \A r \in Requests : run'[r].mu = "loader" => run[r].mu = "loader"
  PROVE  LineGoes
  <1>1. \A r \in Requests : Awaiting(r) /\ Awaiting(r)' => Quiet(r)'
    BY DEF LineInv, Quiet
  <1>. QED
    BY <1>1, LineRests

LEMMA LineHandler ==
  ASSUME TypeInv, LineInv, NEW r \in Requests, Handler(r)
  PROVE  LineGoes
  <1>1. req \in [Requests -> Request] /\ r \in Runners /\ req[r] \in Request
    BY DEF TypeInv, TypeOK, Runners
  <1>2. CASE GetRunner(r) \/ HandlerCheck(r) \/ CtxDone(r)
    <2>1. UNCHANGED <<pendingCh, pend, run>>
      BY <1>2 DEF GetRunner, HandlerCheck, CtxDone, chans
    <2>2. \A q \in Requests :
            /\ req'[q].stage # "submitted" => req[q].stage # "submitted"
            /\ req'[q].granted = req[q].granted /\ req'[q].failed = req[q].failed
            /\ req'[q].watcher = req[q].watcher
      <3>1. CASE GetRunner(r)
        BY <3>1, GetRunnerWrites
      <3>. QED
        BY <1>1, <1>2, <3>1 DEF HandlerCheck, CtxDone, Request
    <2>3. \A q \in Requests : Awaiting(q) /\ Awaiting(q)' => Quiet(q)'
      BY <2>2 DEF Quiet, LineInv
    <2>. QED
      BY <2>1, <2>2, <2>3, LineRests
  <1>3. CASE Watch(r)
    <2>1. UNCHANGED <<pendingCh, pend, run>> /\ req[r].watcher = "watching"
      BY <1>3 DEF Watch
    <2>2. \A q \in Requests :
            /\ req'[q].stage # "submitted" => req[q].stage # "submitted"
            /\ q # r => req'[q] = req[q]
      BY <1>1, <1>3 DEF Watch, Request
    <2>3. \A q \in Requests : Awaiting(q) /\ Awaiting(q)' => Quiet(q)'
      BY <2>1, <2>2 DEF Quiet, LineInv
    <2>. QED
      BY <2>1, <2>2, <2>3, LineRests
  <1>4. CASE HandlerUse(r)
    <2>1. req[r].seen \in Runners /\ req[r].stage = "use"
      BY <1>4 DEF HandlerUse, TypeInv, ControlOK, SeenOK
    <2>2. Used(r, req[r].seen)
      BY <1>4, <2>1, UseDoes DEF HandlerUse, TypeInv
    <2>3. UNCHANGED <<pendingCh, pend>>
      BY <1>4 DEF HandlerUse, chans
    <2>4. \A m \in Requests : run'[m].mu = run[m].mu
      BY <2>1, <2>2 DEF Used, Runners
    <2>5. ~Awaiting(r)'
      <3>1. InLine(r) /\ ~Queued(r) /\ pend.req # r
        BY <2>1 DEF InLine, LineInv, Places
      <3>2. run[r].mu = "free"
        BY <3>1 DEF LineInv, Known, Moving
      <3>. QED
        BY <1>1, <2>2, <2>3, <2>4, <3>1, <3>2 DEF Awaiting, InLine, Queued, Used
    <2>6. \A q \in Requests : /\ req'[q].stage # "submitted" => req[q].stage # "submitted"
                              /\ q # r => req'[q] = req[q]
      BY <2>1, <2>2 DEF Used
    <2>7. \A q \in Requests : Awaiting(q) /\ Awaiting(q)' => Quiet(q)'
      BY <2>5, <2>6 DEF Quiet, LineInv
    <2>. QED
      BY <2>3, <2>4, <2>6, <2>7, LineRests
  <1>5. CASE HandlerEnqueue(r)
    <2>1. UNCHANGED <<pend, run>> /\ req[r].stage = "enqueue" /\ pendingCh \in Seq(Requests)
      BY <1>5 DEF HandlerEnqueue, TypeInv, TypeOK
    <2>2. ~Queued(r) /\ pend.req # r /\ InLine(r) /\ Quiet(r)
      BY <2>1 DEF LineInv, Places, InLine, Awaiting
    <2>3. run[r].mu = "free"
      BY <2>2 DEF LineInv, Known, Moving
    <2>4. /\ req'[r].stage = "submitted" /\ req'[r].granted = None /\ req'[r].watcher = "none"
          /\ Room(pendingCh) => req'[r].failed = "no"
          /\ \A q \in Requests \ {r} : req'[q] = req[q]
      BY <1>1, <1>5, <2>2 DEF HandlerEnqueue, Request, Quiet
    <2>5. CASE Room(pendingCh)
      <3>1. /\ \A y : Has(pendingCh', y) <=> Has(pendingCh, y) \/ y = r
            /\ Distinct(pendingCh')
        BY <1>5, <2>1, <2>2, <2>5, AppendHas DEF HandlerEnqueue, Queued, LineInv, Places
      <3>2. Places'
        BY <2>1, <2>2, <2>4, <3>1 DEF LineInv, Places, Queued
      <3>3. \A q \in Requests : /\ InLine(q)' => InLine(q)
                                /\ Awaiting(q)' => Awaiting(q) /\ Quiet(q)'
        BY <2>1, <2>2, <2>3, <2>4, <2>5, <3>1 DEF LineInv, Awaiting, InLine, Queued, Quiet
      <3>. QED
        BY <3>2, <3>3 DEF LineGoes
    <2>6. CASE ~Room(pendingCh)
      <3>1. pendingCh' = pendingCh
        BY <1>5, <2>6 DEF HandlerEnqueue
      <3>2. ~Awaiting(r)'
        BY <2>1, <2>2, <2>3, <2>4, <3>1 DEF Awaiting, InLine, Queued
      <3>3. \A q \in Requests : Awaiting(q) /\ Awaiting(q)' => Quiet(q)'
        BY <2>4, <3>2 DEF Quiet, LineInv
      <3>4. \A q \in Requests : req'[q].stage # "submitted" => req[q].stage # "submitted"
        BY <2>4
      <3>. QED
        BY <2>1, <3>1, <3>3, <3>4, LineRests
    <2>. QED
      BY <2>5, <2>6
  <1>. QED
    BY <1>2, <1>3, <1>4, <1>5 DEF Handler

\* The request the pending loop works on leaves the line for good.
LEMMA LineLeft ==
  ASSUME TypeInv, LineInv, NEW r \in Requests, pend.req = r, pend'.req = None, pendingCh' = pendingCh,
         OnlyRequest(r), req'[r].stage = req[r].stage,
         \A q \in Requests : run'[q].mu = "loader" => run[q].mu = "loader" \/ q = r,
         run'[r].mu = "loader" => Quiet(r)'
  PROVE  LineGoes /\ ~InLine(r)'
  <1>1. InLine(r) /\ req[r].stage = "submitted" /\ ~Queued(r) /\ r # None
    BY ConfigAssumption DEF LineInv, Places, InLine, Queued
  <1>2. ~InLine(r)'
    BY <1>1 DEF InLine, Queued
  <1>3. ~Has(pendingCh, None)
    BY ConfigAssumption DEF Has, TypeInv, TypeOK
  <1>4. Places'
    BY <1>1, <1>3, ConfigAssumption DEF LineInv, Places, OnlyRequest, Queued, Distinct, Has
  <1>5. ASSUME NEW q \in Requests, q # r
        PROVE  (InLine(q)' => InLine(q)) /\ (Awaiting(q)' => Awaiting(q) /\ Quiet(q)')
    BY <1>1, <1>5, ConfigAssumption DEF OnlyRequest, InLine, Awaiting, LineInv, Quiet, Queued
  <1>6. Awaiting(r)' => Awaiting(r) /\ Quiet(r)'
    BY <1>1, <1>2 DEF Awaiting
  <1>7. ASSUME NEW q \in Requests
        PROVE  (InLine(q)' => InLine(q)) /\ (Awaiting(q)' => Awaiting(q) /\ Quiet(q)')
    <2>1. CASE q = r
      BY <1>1, <1>2, <1>6, <2>1 DEF InLine, Awaiting, Quiet, Queued
    <2>2. CASE q # r
      BY <1>5, <2>2
    <2>. QED
      BY <2>1, <2>2
  <1>. QED
    BY <1>2, <1>4, <1>7 DEF LineGoes

LEMMA LinePlace ==
  ASSUME TypeInv, LineInv, PendPlace
  PROVE  LineGoes
  <1>1. pend \in Pend /\ pendingCh \in Seq(Requests) /\ None \notin Requests
    BY ConfigAssumption DEF TypeInv, TypeOK
  <1>2. CASE PendTake
    <2>1. UNCHANGED <<run, req>> /\ pend.req = None /\ pendingCh # <<>> /\ pendingCh' = Tail(pendingCh)
      BY <1>2 DEF PendTake, LineInv, Places
    <2>2. /\ Head(pendingCh) \in Requests /\ Has(pendingCh, Head(pendingCh))
          /\ \A y : Has(pendingCh, y) <=> Has(pendingCh', y) \/ y = Head(pendingCh)
          /\ Distinct(pendingCh') /\ ~Has(pendingCh', Head(pendingCh))
      BY <1>1, <2>1, TailHas DEF LineInv, Places
    <2>3. pend'.req \in {None, Head(pendingCh)} /\ (pend'.pc = "select" => pend'.req = None)
      BY <1>1, <1>2, <2>1 DEF PendTake, Pend
    <2>4. Places'
      BY <1>1, <2>1, <2>2, <2>3 DEF LineInv, Places, Queued
    <2>5. \A q \in Requests : InLine(q)' => InLine(q)
      BY <1>1, <2>1, <2>2, <2>3 DEF InLine, Queued
    <2>6. \A q \in Requests : Awaiting(q)' => Awaiting(q) /\ Quiet(q)'
      BY <2>1, <2>5 DEF Awaiting, LineInv, Quiet
    <2>. QED
      BY <2>4, <2>5, <2>6 DEF LineGoes
  <1>3. CASE PendUnloaded \/ PendTop \/ PendCheck
    <2>1. UNCHANGED <<run, req, pendingCh>>
      BY <1>3 DEF PendUnloaded, PendTop, PendCheck, chans
    <2>2. pend'.req = pend.req /\ (pend'.pc = "select" => pend.pc = "select")
      <3>1. CASE PendTop
        <4>. DEFINE count == Cardinality(LoadedRunners)
        <4>1. \/ pend' = [pend EXCEPT !.pc = "check", !.target = loaded[KeyOf(pend.req)]]
              \/ pend' = [pend EXCEPT !.pc = "find"]
              \/ \E toLock \in {LoadedRunners, {}} :
                   pend' = [pend EXCEPT !.pc = "fit", !.full = (count > 0), !.todo = toLock]
          BY <3>1, Zenon DEF PendTop, PendGoto
        <4>2. ASSUME NEW full, NEW toLock,
                     pend' = [pend EXCEPT !.pc = "fit", !.full = full, !.todo = toLock]
              PROVE  pend'.req = pend.req /\ pend'.pc = "fit"
          BY <1>1, <4>2 DEF Pend
        <4>3. CASE \E toLock \in {LoadedRunners, {}} :
                     pend' = [pend EXCEPT !.pc = "fit", !.full = (count > 0), !.todo = toLock]
          <5>1. pend'.req = pend.req /\ pend'.pc = "fit"
            BY <4>2, <4>3, Zenon
          <5>. QED BY <5>1
        <4>. HIDE DEF count
        <4>. QED
          BY <1>1, <4>1, <4>3 DEF Pend
      <3>2. CASE PendUnloaded \/ PendCheck
        BY <1>1, <3>2 DEF PendUnloaded, PendCheck, PendGoto, Pend
      <3>. QED
        BY <1>3, <3>1, <3>2
    <2>. QED
      BY <2>1, <2>2, LineStays
  <1>4. CASE PendUse
    <2>. DEFINE r == pend.req
    <2>1. r \in Requests /\ pend.target \in Runners
      BY <1>4 DEF PendUse, TypeInv, ControlOK
    <2>2. Used(r, pend.target) /\ pend'.req = None /\ pendingCh' = pendingCh
      BY <1>1, <1>4, <2>1, UseDoes DEF PendUse, PendDone, Pend, TypeInv, chans
    <2>3. InLine(r) /\ req[r].stage = "submitted"
      BY <2>1 DEF InLine, LineInv, Places
    <2>4. \A q \in Requests : run'[q].mu = run[q].mu
      BY <2>2 DEF Used, Runners
    <2>5. run[r].mu = "free"
      BY <2>1, <2>3 DEF LineInv, Known, Moving
    <2>6. OnlyRequest(r) /\ req'[r].stage = req[r].stage /\ run'[r].mu # "loader"
      BY <2>1, <2>2, <2>3, <2>4, <2>5 DEF Used, OnlyRequest
    <2>7. r = pend.req
      OBVIOUS
    <2>. HIDE DEF r
    <2>. QED
      BY <2>1, <2>2, <2>4, <2>6, <2>7, LineLeft
  <1>. QED
    BY <1>2, <1>3, <1>4 DEF PendPlace

LEMMA LineLoad ==
  ASSUME TypeInv, LoadingInv, LineInv, PendLoad
  PROVE  LineGoes /\ \A r \in Requests : PendLoadOk /\ r = pend.req => ~InLine(r)'
  <1>1. /\ pend \in Pend /\ pendingCh' = pendingCh /\ pend.req \in Requests
        /\ req \in [Requests -> Request] /\ \A r \in Requests : req[r] \in Request
    BY DEF TypeInv, TypeOK, ControlOK, PendLoad, PendUpdateFreeSpace, PendNoServer,
       PendPreflight, PendSpawn, PendResume, PendLoadOk, PendLoadTooBig, PendLoadFails,
       PendLoadFailsNil, CanLoad, chans
  <1>. PICK r \in Requests : r = pend.req
    BY <1>1
  <1>2. r \in Requests /\ r \in Runners /\ r = pend.req /\ Quiet(r) /\ run[r].mu = "free"
    BY <1>1 DEF LineInv, Awaiting, InLine, Known, Moving, Runners
  <1>3. CASE PendLoadOk
    <2>1. req' = req /\ pend'.req = None
      BY <1>1, <1>3 DEF PendLoadOk, PendDone, Pend
    <2>2. \A q \in Requests : run'[q].mu = "loader" => run[q].mu = "loader" \/ q = r
      BY <1>3, LoadOkDoes DEF OnlyRunner, Runners
    <2>3. Quiet(r)'
      BY <1>2, <2>1 DEF Quiet
    <2>. QED
      BY <1>1, <1>2, <2>1, <2>2, <2>3, LineLeft DEF OnlyRequest
  <1>4. CASE ~PendLoadOk
    <2>1. \A q \in Requests : run'[q].mu = run[q].mu
      <3>1. CASE PendSpawn
        BY <3>1, SpawnDoes DEF OnlyRunner, Runners
      <3>2. CASE PendLoadFails
        BY <3>2, LoadFailsDoes DEF OnlyRunner, Runners
      <3>3. CASE ~PendSpawn /\ ~PendLoadFails
        <4>1. run' = run
          BY <1>4, <3>3 DEF PendLoad, PendUpdateFreeSpace, PendNoServer, PendPreflight,
             PendResume, PendLoadTooBig, PendLoadFailsNil
        <4>. QED BY <4>1
      <3>. QED
        BY <3>1, <3>2, <3>3
    <2>2. \/ /\ pend'.req = pend.req /\ pend'.pc # "select"
             /\ req' = req \/ req' = [req EXCEPT ![pend.req].oom = TRUE]
          \/ /\ pend'.req = None
             /\ req' = [req EXCEPT ![pend.req].failed = "error"]
      BY <1>1, <1>4 DEF PendLoad, PendUpdateFreeSpace, PendNoServer, PendPreflight,
         PendSpawn, PendResume, PendLoadTooBig, PendLoadFails, PendLoadFailsNil,
         PendNeedEvict, PendDone, PendGoto, CanLoad, Pend
    <2>3. CASE pend'.req = None /\ req' = [req EXCEPT ![pend.req].failed = "error"]
      <3>1. Refused(r, "error")
        BY <1>2, <2>3, RefusedIs DEF TypeInv
      <3>. QED
        BY <1>1, <1>2, <1>4, <2>1, <2>3, <3>1, LineLeft DEF Refused
    <2>4. CASE /\ pend'.req = pend.req /\ pend'.pc # "select"
               /\ req' = req \/ req' = [req EXCEPT ![pend.req].oom = TRUE]
      <3>1. \A q \in Requests :
              /\ req'[q].stage = req[q].stage /\ req'[q].granted = req[q].granted
              /\ req'[q].failed = req[q].failed /\ req'[q].watcher = req[q].watcher
        <4>1. \A x \in Request : LET y == [x EXCEPT !.oom = TRUE] IN
                /\ y.stage = x.stage /\ y.granted = x.granted
                /\ y.failed = x.failed /\ y.watcher = x.watcher
          BY DEF Request
        <4>2. \A q \in Requests : req'[q] = req[q] \/ req'[q] = [req[q] EXCEPT !.oom = TRUE]
          BY <1>1, <2>4
        <4>. QED
          BY <1>1, <4>1, <4>2
      <3>2. \A q \in Requests : Awaiting(q) /\ Awaiting(q)' => Quiet(q)'
        BY <3>1 DEF LineInv, Quiet
      <3>. QED
        BY <1>1, <1>4, <2>1, <2>4, <3>1, <3>2, LineRests
    <2>. QED
      BY <2>2, <2>3, <2>4
  <1>. QED
    BY <1>3, <1>4

LEMMA LineRoom ==
  ASSUME TypeInv, LineInv, PendMakeRoom
  PROVE  LineGoes
  <1>1. pend \in Pend /\ UNCHANGED <<req, pendingCh>>
    BY DEF TypeInv, TypeOK, PendMakeRoom, PendFind, PendScan, PendExpire, PendEvictAll,
       PendEvict, PendEvictWait, chans
  <1>2. pend'.req = pend.req /\ pend'.pc # "select"
    BY <1>1 DEF PendMakeRoom, PendFind, PendScan, PendExpire, PendEvictAll, PendEvict,
       PendEvictWait, PendGoto, Pend
  <1>3. \A m \in Requests : run'[m].mu = "loader" => run[m].mu = "loader"
    <2>1. CASE PendExpire
      <3>1. pend.target \in Runners
        BY <2>1 DEF PendExpire, TypeInv, ControlOK
      <3>. QED
        BY <2>1, <3>1, ExpireDoes DEF PendExpire, TypeInv, Senders, Asked, Runners
    <2>2. CASE PendEvict
      <3>1. PICK n \in pend.todo : Expire(n, "pending")
        BY <2>2 DEF PendEvict
      <3>2. n \in Runners
        BY <1>1 DEF Pend
      <3>. QED
        BY <3>1, <3>2, ExpireDoes DEF TypeInv, Senders, Asked, Runners
    <2>3. CASE PendFind \/ PendScan \/ PendEvictAll \/ PendEvictWait
      BY <2>3 DEF PendFind, PendScan, PendEvictAll, PendEvictWait
    <2>. QED
      BY <2>1, <2>2, <2>3 DEF PendMakeRoom
  <1>. QED
    BY <1>1, <1>2, <1>3, LineStays

LEMMA LineLoader ==
  ASSUME TypeInv, LineInv, NEW n \in Runners, Loader(n) \/ Events(n)
  PROVE  LineGoes
  <1>1. CASE Events(n)
    <2>1. UNCHANGED <<req, pendingCh>> /\ pend'.req = pend.req
      BY <1>1, BlockedSendDoes DEF Events, TimerFires, TimerCallback, RetryExpired, BlockedSend, chans, TypeInv
    <2>2. pend'.pc = "select" => pend.pc = "select"
      BY <1>1, BlockedSendDoes DEF Events, TimerFires, TimerCallback, RetryExpired, TypeInv
    <2>3. \A m \in Requests : run'[m].mu = "loader" => run[m].mu = "loader"
      BY <1>1, BlockedSendDoes, TimerFiresDoes, TimerCallbackDoes, RetryExpiredDoes
         DEF Events, TypeInv, OnlyRunner, SentAs, Senders, Runners
    <2>. QED
      BY <2>1, <2>2, <2>3, LineStays
  <1>2. CASE Loader(n)
    <2>1. UNCHANGED <<pend, pendingCh>> /\ run[n].mu = "loader"
      BY <1>2 DEF Loader, LoaderReady, LoaderFails, chans
    <2>2. /\ run'[n].mu # "loader" /\ req'[n].stage = req[n].stage
          /\ \A m \in Requests \ {n} : run'[m] = run[m] /\ req'[m] = req[m]
      BY <1>2, LoaderReadyDoes, LoaderFailsDoes
         DEF Loader, TypeInv, OnlyRunner, OnlyRequest, SentAs, Senders, Refused, Runners
    <2>3. ~InLine(n)
      BY <2>1 DEF LineInv, Known, Moving, Runners
    <2>4. ~Awaiting(n)'
      BY <2>1, <2>2, <2>3 DEF Awaiting, InLine, Queued
    <2>5. \A q \in Requests : Awaiting(q) /\ Awaiting(q)' => Quiet(q)'
      BY <2>2, <2>4 DEF LineInv, Quiet
    <2>6. \A q \in Requests : /\ req'[q].stage # "submitted" => req[q].stage # "submitted"
                              /\ run'[q].mu = "loader" => run[q].mu = "loader"
      BY <2>2 DEF Runners
    <2>. QED
      BY <2>1, <2>5, <2>6, LineRests
  <1>. QED
    BY <1>1, <1>2

LEMMA LineOutside ==
  ASSUME TypeInv, LineInv, ProcessCompleted \/ ApiLookup \/ ApiExpire \/ Shutdown
  PROVE  LineGoes
  <1>1. CASE ProcessCompleted
    <2>1. UNCHANGED <<req, pend, pendingCh>>
      BY <1>1 DEF ProcessCompleted, CompTakeFinished, CompFinish, CompTakeExpired,
         CompRetryLater, CompExpire, CompRecovered, CompNotify, chans
    <2>2. \A m \in Requests : run'[m].mu = "loader" => run[m].mu = "loader"
      <3>1. CASE CompTakeFinished \/ CompTakeExpired \/ CompNotify
        BY <3>1 DEF CompTakeFinished, CompTakeExpired, CompNotify
      <3>2. CASE CompFinish
        BY <3>2, FinishDoes DEF Counted, OnlyRunner, Senders, Runners
      <3>3. CASE CompRetryLater
        BY <3>3, RetryLaterDoes DEF OnlyRunner, Runners
      <3>4. CASE CompExpire
        BY <3>4, CompExpireDoes DEF OnlyRunner, Runners
      <3>5. CASE CompRecovered
        BY <3>5, RecoveredDoes DEF OnlyRunner, Runners
      <3>. QED
        BY <1>1, <3>1, <3>2, <3>3, <3>4, <3>5 DEF ProcessCompleted
    <2>. QED
      BY <2>1, <2>2, LineStays
  <1>2. CASE ApiLookup
    BY <1>2, LineStays DEF ApiLookup, chans
  <1>3. CASE ApiExpire
    <2>1. PICK m \in api.todo : Expire(m, "api")
      BY <1>3 DEF ApiExpire
    <2>2. m \in Runners
      BY <2>1 DEF TypeInv, TypeOK
    <2>3. \A q \in Requests : run'[q].mu = "loader" => run[q].mu = "loader"
      BY <2>1, <2>2, ExpireDoes DEF TypeInv, Senders, Asked, Runners
    <2>. QED
      BY <1>3, <2>3, LineStays DEF ApiExpire
  <1>4. CASE Shutdown
    <2>1. UNCHANGED <<req, pendingCh>>
      BY <1>4 DEF Shutdown, Signal, CloseActive, CloseLoaded, Exit, LoopsStop, chans
    <2>2. pend'.req = pend.req /\ (pend'.pc = "select" => pend.pc = "select")
      BY <1>4 DEF Shutdown, Signal, CloseActive, CloseLoaded, Exit, LoopsStop, PendGoto,
         TypeInv, TypeOK, Pend
    <2>3. \A m \in Requests : run'[m].mu = "loader" => run[m].mu = "loader"
      <3>1. CASE CloseActive \/ CloseLoaded
        BY <3>1, CloseDoes DEF Runners
      <3>2. CASE Signal \/ Exit \/ LoopsStop
        BY <3>2 DEF Signal, Exit, LoopsStop
      <3>. QED
        BY <1>4, <3>1, <3>2 DEF Shutdown
    <2>. QED
      BY <2>1, <2>2, <2>3, LineStays
  <1>. QED
    BY <1>1, <1>2, <1>3, <1>4

LEMMA LineInit == Init => LineInv
  <1>. SUFFICES ASSUME Init PROVE LineInv
    OBVIOUS
  <1>1. /\ \A r \in Requests : req[r].seen = None /\ req[r].granted = None /\ req[r].failed = "no"
                              /\ req[r].watcher = "none" /\ req[r].stage = "new"
        /\ \A n \in Runners : run[n].mu = "free" /\ run[n].timer = "nil" /\ run[n].fired = 0
                              /\ run[n].retrying = 0
    BY DEF Init
  <1>2. /\ \A x : ~Has(pendingCh, x) /\ ~Has(expiredCh, x) /\ ~Has(pend.list, x)
        /\ Distinct(pendingCh)
    BY DEF Init, Has, Distinct
  <1>3. /\ pend.req = None /\ pend.target = None /\ pend.todo = {} /\ comp.run = None /\ api.todo = {}
        /\ \A k \in Keys : loaded[k] = None
    BY DEF Init
  <1>. QED
    BY <1>1, <1>2, <1>3, ConfigAssumption
    DEF LineInv, Places, InLine, Awaiting, Quiet, Queued, Known, Moving, Named, Expected, Runners

LEMMA LineStep ==
  ASSUME TypeInv, LoadingInv, LineInv, [Next]_vars
  PROVE  LineInv'
  <1>1. LineGoes /\ \A r \in Requests : PendLoadOk /\ r = pend.req => ~InLine(r)'
    <2>1. CASE UNCHANGED vars
      <3>1. UNCHANGED <<req, pendingCh, pend, run>>
        BY <2>1 DEF vars, chans
      <3>2. LineGoes
        BY <3>1, LineStays
      <3>3. ~PendLoadOk
        <4>1. PendLoadOk => pend'.pc = "select" /\ pend.pc = "loading"
          BY DEF PendLoadOk, PendDone, TypeInv, TypeOK, Pend
        <4>. QED BY <3>1, <4>1
      <3>. QED BY <3>2, <3>3
    <2>2. CASE PendLoad
      BY <2>2, LineLoad
    <2>3. CASE Next /\ ~PendLoad
      <3>1. LineGoes
        BY <2>3, LineHandler, LineLoader, LinePlace, LineRoom, LineOutside DEF Next, Runners
      <3>2. ~PendLoadOk
        BY <2>3 DEF PendLoad
      <3>. QED BY <3>1, <3>2
    <2>. QED
      BY <2>1, <2>2, <2>3
  <1>2. ASSUME NEW r \in Requests, InLine(r)' PROVE ~Known(r)'
    <2>1. InLine(r) /\ ~Known(r)
      BY <1>1, <1>2 DEF LineGoes, LineInv
    <2>2. ~(PendLoadOk /\ r = pend.req)
      BY <1>1, <1>2
    <2>. QED
      BY <2>1, <2>2, KnownStep DEF Runners
  <1>. QED
    BY <1>1, <1>2 DEF LineInv, LineGoes

\* The answers that a step gives are to those who wait for one.
LEMMA AnswersStep ==
  ASSUME TypeInv, LoadingInv, LineInv, [Next]_vars, NEW r \in Requests, ~Awaiting(r)
  PROVE  UNCHANGED <<req[r].granted, req[r].failed>>
  <1>1. /\ req \in [Requests -> Request] /\ req[r] \in Request /\ ~InLine(r)
        /\ run[r].mu # "loader"
    BY DEF TypeInv, TypeOK, Awaiting
  <1>2. CASE req' = req
    BY <1>2
  <1>3. ASSUME NEW q \in Requests, Handler(q)
        PROVE  UNCHANGED <<req[r].granted, req[r].failed>>
    <2>1. CASE GetRunner(q) \/ HandlerCheck(q) \/ CtxDone(q) \/ Watch(q)
      <3>1. CASE GetRunner(q)
        BY <3>1, GetRunnerWrites
      <3>. QED
        BY <1>1, <2>1, <3>1 DEF HandlerCheck, CtxDone, Watch, Request
    <2>2. CASE HandlerUse(q)
      <3>1. q # r /\ req[q].seen \in Runners
        BY <1>1, <2>2 DEF HandlerUse, InLine, TypeInv, ControlOK, SeenOK
      <3>. QED
        BY <2>2, <3>1, UseDoes DEF HandlerUse, Used, TypeInv
    <2>3. CASE HandlerEnqueue(q)
      BY <1>1, <2>3 DEF HandlerEnqueue, InLine
    <2>. QED
      BY <1>3, <2>1, <2>2, <2>3 DEF Handler
  <1>4. ASSUME NEW q \in Runners, Loader(q)
        PROVE  UNCHANGED <<req[r].granted, req[r].failed>>
    <2>1. q # r
      BY <1>1, <1>4 DEF Loader, LoaderReady, LoaderFails
    <2>2. req'[r] = req[r]
      BY <1>4, <2>1, LoaderReadyDoes, LoaderFailsDoes DEF Loader, TypeInv, OnlyRequest, Refused
    <2>. QED
      BY <2>2
  <1>5. CASE PendUse
    <2>1. pend.req \in Requests /\ pend.target \in Runners /\ pend.req # r
      BY <1>1, <1>5 DEF PendUse, TypeInv, ControlOK, InLine
    <2>. QED
      BY <1>5, <2>1, UseDoes DEF PendUse, Used, TypeInv
  <1>6. CASE PendLoad
    <2>1. pend.req # r
      BY <1>1 DEF InLine
    <2>. QED
      BY <1>1, <1>6, <2>1 DEF PendLoad, PendUpdateFreeSpace, PendNoServer, PendPreflight,
         PendSpawn, PendResume, PendLoadOk, PendLoadTooBig, PendLoadFails, PendLoadFailsNil
  <1>7. CASE (PendPlace /\ ~PendUse) \/ PendMakeRoom \/ ProcessCompleted \/ ApiLookup \/ ApiExpire
             \/ Shutdown \/ UNCHANGED vars
    <2>1. req' = req
      BY <1>7 DEF PendPlace, PendTake, PendUnloaded, PendTop, PendCheck, PendMakeRoom, PendFind,
         PendScan, PendExpire, PendEvictAll, PendEvict, PendEvictWait, ProcessCompleted,
         CompTakeFinished, CompFinish, CompTakeExpired, CompRetryLater, CompExpire,
         CompRecovered, CompNotify, ApiLookup, ApiExpire, Shutdown, Signal, CloseActive,
         CloseLoaded, Exit, LoopsStop, vars
    <2>. QED
      BY <1>2, <2>1
  <1>8. ASSUME NEW q \in Requests, Events(q)
        PROVE  UNCHANGED <<req[r].granted, req[r].failed>>
    <2>1. req' = req
      BY <1>8 DEF Events, TimerFires, TimerCallback, RetryExpired, BlockedSend
    <2>. QED
      BY <1>2, <2>1
  <1>. QED
    BY <1>3, <1>4, <1>5, <1>6, <1>7, <1>8 DEF Next, Runners

\* A request is answered once: the channels to its handler have room for one
\* answer, and the loop that would send another would wait for ever.
THEOREM OneAnswer == Spec => AnsweredOnce
  <1>1. Init => TypeInv /\ LoadingInv /\ LineInv
    <2>1. Init => LoadingInv
      BY DEF Init, LoadingInv, LoadingIsExclusive
    <2>. QED
      BY <2>1, TypeInit, LineInit
  <1>2. TypeInv /\ LoadingInv /\ LineInv /\ [Next]_vars => (TypeInv /\ LoadingInv /\ LineInv)'
    BY TypeStep, LoadingStep, LineStep
  <1>3. TypeInv /\ LoadingInv /\ LineInv /\ [Next]_vars =>
          [\A r \in Requests : Answered(r) => UNCHANGED <<req[r].granted, req[r].failed>>]_vars
    <2>1. TypeInv /\ LoadingInv /\ LineInv => \A r \in Requests : Answered(r) => ~Awaiting(r)
      BY DEF LineInv, Quiet, Answered
    <2>. QED
      BY <2>1, AnswersStep
  <1>. QED
    BY <1>1, <1>2, <1>3, PTL DEF Spec, AnsweredOnce

-----------------------------------------------------------------------------
(* References.                                                             *)

\* Runners are found under the key of their model, by the requests for it.
KeyInv ==
  /\ \A k \in Keys : loaded[k] # None => KeyOf(loaded[k]) = k
  /\ \A r \in Requests : /\ req[r].seen # None => KeyOf(req[r].seen) = KeyOf(r)
                         /\ req[r].granted # None => KeyOf(req[r].granted) = KeyOf(r)
  /\ pend.pc \in {"check", "use"} => KeyOf(pend.target) = KeyOf(pend.req)

LEMMA KeyStep ==
  ASSUME TypeInv, LoadingInv, KeyInv, [Next]_vars
  PROVE  KeyInv'
  <1>1. /\ \A n \in Runners \cup Requests : KeyOf(n)' = KeyOf(n) /\ KeyOf(n) \in Keys
        /\ loaded \in [Keys -> Runners \cup {None}] /\ pend \in Pend
        /\ req \in [Requests -> Request] /\ \A r \in Requests : req[r] \in Request
        /\ None \notin Runners
    BY KeysNeverChange, ConfigAssumption DEF KeyOf, Runners, TypeInv, TypeOK, Request
  <1>2. TypeInv'
    BY TypeStep
  <1>3. \A k \in Keys : loaded'[k] # None => KeyOf(loaded'[k]) = k
    <2>1. ASSUME NEW k \in Keys, loaded'[k] # loaded[k], loaded'[k] # None PROVE KeyOf(loaded'[k]) = k
      <3>1. PendLoadOk
        BY <2>1, OthersLeaveServers, PendLeavesServers, CompletedLeavesServers, CompExpireDoes, <1>1
           DEF Next, Others, ServersUnchanged, PendLoad, PendUpdateFreeSpace, PendNoServer,
           PendPreflight, PendSpawn, PendResume, PendLoadTooBig, PendLoadFails, PendLoadFailsNil,
           Shutdown, Signal, CloseActive, CloseLoaded, Exit, LoopsStop, vars
      <3>2. loaded' = [loaded EXCEPT ![KeyOf(pend.req)] = pend.req]
        BY <3>1 DEF PendLoadOk
      <3>. QED
        BY <1>1, <2>1, <3>2
    <2>. QED
      BY <1>1, <2>1 DEF KeyInv
  <1>. DEFINE Finds(r) ==
         /\ req'[r].seen \in {None, req[r].seen, loaded[KeyOf(r)]}
         /\ \/ req'[r].granted \in {None, req[r].granted, r}
            \/ req'[r].granted = req[r].seen /\ req[r].seen \in Runners
            \/ PendUse /\ r = pend.req /\ req'[r].granted = pend.target
  <1>4. ASSUME NEW r \in Requests PROVE Finds(r)
    <2>1. CASE UNCHANGED req
      BY <2>1
    <2>2. ASSUME NEW q \in Requests, Handler(q) PROVE Finds(r)
      <3>1. CASE GetRunner(q) \/ HandlerCheck(q) \/ HandlerEnqueue(q) \/ CtxDone(q) \/ Watch(q)
        <4>1. CASE GetRunner(q)
          BY <4>1, GetRunnerWrites
        <4>2. CASE HandlerEnqueue(q)
          BY <4>2, EnqueueWrites
        <4>. QED
          BY <1>1, <3>1, <4>1, <4>2 DEF HandlerCheck, CtxDone, Watch, Request
      <3>2. CASE HandlerUse(q)
        <4>1. req[q].seen \in Runners
          BY <3>2 DEF HandlerUse, TypeInv, ControlOK, SeenOK
        <4>. QED
          BY <3>2, <4>1, UseDoes DEF HandlerUse, Used, TypeInv
      <3>. QED
        BY <2>2, <3>1, <3>2 DEF Handler
    <2>3. ASSUME NEW q \in Runners, Loader(q) PROVE Finds(r)
      BY <2>3, LoaderReadyDoes, LoaderFailsDoes
         DEF Loader, OnlyRequest, Refused, TypeInv, Runners
    <2>4. CASE PendUse
      <3>1. pend.req \in Requests /\ pend.target \in Runners
        BY <2>4 DEF PendUse, TypeInv, ControlOK
      <3>. QED
        BY <2>4, <3>1, UseDoes DEF PendUse, Used, TypeInv
    <2>5. CASE PendLoad
      <3>1. \/ req' = req
            \/ req' = [req EXCEPT ![pend.req].failed = "error"]
            \/ req' = [req EXCEPT ![pend.req].oom = TRUE]
        BY <2>5 DEF PendLoad, PendUpdateFreeSpace, PendNoServer, PendPreflight, PendSpawn,
           PendResume, PendLoadOk, PendLoadTooBig, PendLoadFails, PendLoadFailsNil
      <3>. QED
        BY <1>1, <3>1 DEF Request
    <2>6. CASE (PendPlace /\ ~PendUse) \/ PendMakeRoom \/ ProcessCompleted \/ ApiLookup
               \/ ApiExpire \/ Shutdown \/ UNCHANGED vars \/ \E q \in Requests : Events(q)
      <3>1. req' = req
        BY <2>6 DEF PendPlace, PendTake, PendUnloaded, PendTop, PendCheck, PendMakeRoom, PendFind,
           PendScan, PendExpire, PendEvictAll, PendEvict, PendEvictWait, ProcessCompleted,
           CompTakeFinished, CompFinish, CompTakeExpired, CompRetryLater, CompExpire,
           CompRecovered, CompNotify, ApiLookup, ApiExpire, Shutdown, Signal, CloseActive,
           CloseLoaded, Exit, LoopsStop, vars,
           Events, TimerFires, TimerCallback, RetryExpired, BlockedSend
      <3>. QED
        BY <2>1, <3>1
    <2>. QED
      BY <2>2, <2>3, <2>4, <2>5, <2>6 DEF Next, Runners
  <1>5. \A r \in Requests :
          /\ req'[r].seen # None => KeyOf(req'[r].seen) = KeyOf(r)
          /\ req'[r].granted # None => KeyOf(req'[r].granted) = KeyOf(r)
    BY <1>1, <1>4 DEF KeyInv, PendUse
  <1>6. pend'.pc \in {"check", "use"} =>
          \/ pend'.req = pend.req /\ pend'.target = pend.target /\ pend.pc \in {"check", "use"}
          \/ pend'.req = pend.req /\ pend.req \in Requests /\ pend'.target = loaded[KeyOf(pend.req)]
    <2>1. CASE PendTop
      <3>. DEFINE count == Cardinality(LoadedRunners)
      <3>1. \/ pend' = [pend EXCEPT !.pc = "check", !.target = loaded[KeyOf(pend.req)]]
            \/ pend' = [pend EXCEPT !.pc = "find"]
            \/ \E toLock \in {LoadedRunners, {}} :
                 pend' = [pend EXCEPT !.pc = "fit", !.full = (count > 0), !.todo = toLock]
        BY <2>1, Zenon DEF PendTop, PendGoto
      <3>2. ASSUME NEW full, NEW toLock,
                   pend' = [pend EXCEPT !.pc = "fit", !.full = full, !.todo = toLock]
            PROVE  pend'.pc = "fit"
        BY <1>1, <3>2 DEF Pend
      <3>3. CASE \E toLock \in {LoadedRunners, {}} :
                   pend' = [pend EXCEPT !.pc = "fit", !.full = (count > 0), !.todo = toLock]
        <4>1. pend'.pc = "fit"
          BY <3>2, <3>3, Zenon
        <4>. QED BY <4>1
      <3>4. pend.req \in Requests
        BY <2>1 DEF PendTop, TypeInv, ControlOK
      <3>. HIDE DEF count
      <3>. QED
        BY <1>1, <3>1, <3>3, <3>4 DEF Pend
    <2>2. CASE PendPlace /\ ~PendTop
      BY <1>1, <2>2 DEF PendPlace, PendTake, PendUnloaded, PendCheck, PendUse, PendGoto,
         PendDone, Pend
    <2>3. CASE PendLoad
      BY <1>1, <2>3 DEF PendLoad, PendUpdateFreeSpace, PendNoServer, PendPreflight,
         PendSpawn, PendResume, PendLoadOk, PendLoadTooBig, PendLoadFails, PendLoadFailsNil,
         PendNeedEvict, PendDone, PendGoto, CanLoad, Pend
    <2>4. CASE PendMakeRoom
      BY <1>1, <2>4 DEF PendMakeRoom, PendFind, PendScan, PendExpire, PendEvictAll, PendEvict,
         PendEvictWait, PendGoto, Pend
    <2>5. CASE Shutdown
      BY <1>1, <2>5 DEF Shutdown, Signal, CloseActive, CloseLoaded, Exit, LoopsStop, PendGoto, Pend
    <2>6. ASSUME NEW n \in Runners, BlockedSend(n)
          PROVE  pend' = pend \/ pend'.pc \in {"wait", "evict"}
      BY <2>6, BlockedSendDoes DEF TypeInv
    <2>7. CASE UNCHANGED pend
      BY <2>7
    <2>. QED
      BY <2>1, <2>2, <2>3, <2>4, <2>5, <2>6, <2>7
      DEF Next, Handler, GetRunner, HandlerCheck, HandlerUse, HandlerEnqueue, CtxDone, Watch,
          Loader, LoaderReady, LoaderFails, Events, TimerFires, TimerCallback, RetryExpired,
          ProcessCompleted, CompTakeFinished, CompFinish, CompTakeExpired, CompRetryLater,
          CompExpire, CompRecovered, CompNotify, ApiLookup, ApiExpire, vars, Runners
  <1>7. pend'.pc \in {"check", "use"} => KeyOf(pend'.target) = KeyOf(pend'.req)
    <2>. SUFFICES ASSUME pend'.pc \in {"check", "use"} PROVE KeyOf(pend'.target) = KeyOf(pend'.req)
      OBVIOUS
    <2>1. pend'.target \in Runners
      BY <1>2 DEF TypeInv, ControlOK
    <2>. QED
      BY <1>1, <1>6, <2>1 DEF KeyInv
  <1>8. /\ \A k \in Keys : loaded'[k] \in Runners \cup {None}
        /\ \A r \in Requests : req'[r].seen \in Runners \cup {None}
                              /\ req'[r].granted \in Runners \cup {None}
        /\ pend'.pc \in {"check", "use"} => pend'.target \in Runners /\ pend'.req \in Requests
    BY <1>2 DEF TypeInv, TypeOK, ControlOK, Request
  <1>. QED
    BY <1>1, <1>3, <1>5, <1>7, <1>8 DEF KeyInv

LEMMA IncExact ==
  ASSUME NEW x \in Nat, x + 1 < RefMod
  PROVE  IncRef(x) = x + 1
  BY ConfigAssumption DEF IncRef

LEMMA DecExact ==
  ASSUME NEW x \in Nat, x > 0, x < RefMod
  PROVE  DecRef(x) = x - 1
  <1>1. RefMod \in Nat /\ RefMod > 0
    BY ConfigAssumption
  <1>2. (x + RefMod - 1) = RefMod * 1 + (x - 1) /\ x - 1 \in 0 .. RefMod - 1
    BY <1>1
  <1>. QED
    BY <1>1, <1>2 DEF DecRef

LEMMA KeyInit == Init => KeyInv
  BY DEF Init, KeyInv

Finished(r) == Has(finishedCh, r)
Counting(r) == comp.pc = "finish" /\ comp.req = r
Reporting(r) == req[r].watcher = "watching" \/ Finished(r) \/ Counting(r)

LEMMA HoldsIs == \A r, n : Holds(r, n) <=> req[r].granted = n /\ Reporting(r)
  BY DEF Holds, Reporting, Finished, Counting, Has

LEMMA HoldsNext == \A r, n : Holds(r, n)' <=> req'[r].granted = n /\ Reporting(r)'
  BY DEF Holds, Reporting, Finished, Counting, Has

\* A grant is watched, reported once and counted once.
WatchInv ==
  /\ \A r \in Requests : /\ req[r].watcher # "none" => req[r].granted # None
                         /\ Finished(r) => req[r].watcher = "sent"
  /\ Distinct(finishedCh)
  /\ comp.pc = "finish" => /\ comp.req \in Requests /\ req[comp.req].watcher = "sent"
                           /\ ~Finished(comp.req)

\* A step that grants, reports and counts nothing.
SameHolds ==
  /\ finishedCh' = finishedCh /\ raced' = raced
  /\ \A r \in Requests : /\ req'[r].granted = req[r].granted /\ req'[r].watcher = req[r].watcher
                         /\ Counting(r)' <=> Counting(r)
  /\ comp'.pc = "finish" => comp.pc = "finish" /\ comp'.run = comp.run /\ comp'.req = comp.req

\* A step that keeps what is in use: loaded, and open while the server is up.
KeepsUsed ==
  \A n \in Runners :
    /\ run'[n].ref = run[n].ref
    /\ run[n].ref # 0 /\ loaded[KeyOf(n)] = n =>
         /\ loaded'[KeyOf(n)] = n
         /\ Up' => Up /\ (run[n].server = "open" => run'[n].server = "open")

\* A request r is given the runner n.
Grants(r, n) ==
  /\ r \in Requests /\ n \in Runners /\ Awaiting(r) /\ Known(n)
  /\ OnlyRequest(r) /\ req'[r].granted = n /\ req'[r].watcher = "watching"
  /\ OnlyRunner(n) /\ run'[n].ref = IncRef(run[n].ref) /\ run'[n].server = run[n].server
  /\ raced' = (raced \/ run[n].server # "open")
  /\ UNCHANGED <<loaded, finishedCh, comp, phase>>

LEMMA UseGrants ==
  ASSUME TypeInv, NEW r \in Requests, HandlerUse(r)
  PROVE  \E n \in Runners : Grants(r, n)
  <1>1. req[r].seen \in Runners /\ Awaiting(r)
    BY DEF HandlerUse, TypeInv, ControlOK, SeenOK, Awaiting, InLine
  <1>2. Used(r, req[r].seen) /\ Known(req[r].seen)
    BY <1>1, UseDoes DEF HandlerUse, TypeInv, Known, Named
  <1>. QED
    BY <1>1, <1>2 DEF HandlerUse, Used, Grants, OnlyRequest, OnlyRunner, chans

LEMMA PendUseGrants ==
  ASSUME TypeInv, PendUse
  PROVE  \E r \in Requests, n \in Runners : Grants(r, n)
  <1>1. pend.req \in Requests /\ pend.target \in Runners /\ Awaiting(pend.req) /\ Known(pend.target)
    BY DEF PendUse, TypeInv, ControlOK, Awaiting, InLine, Known, Named
  <1>2. Used(pend.req, pend.target)
    BY <1>1, UseDoes DEF PendUse, TypeInv
  <1>3. PICK r \in Requests, n \in Runners : r = pend.req /\ n = pend.target
    BY <1>1
  <1>4. Used(r, n) /\ Awaiting(r) /\ Known(n)
    BY <1>1, <1>2, <1>3
  <1>5. UNCHANGED <<loaded, finishedCh, comp, phase>>
    BY DEF PendUse, chans
  <1>6. Grants(r, n)
    BY <1>3, <1>4, <1>5 DEF Used, Grants, OnlyRequest, OnlyRunner
  <1>. QED
    BY <1>6

LEMMA LoaderGrants ==
  ASSUME TypeInv, NEW n \in Runners, LoaderReady(n)
  PROVE  Grants(n, n)
  <1>1. n \in Requests /\ Awaiting(n) /\ Known(n)
    BY LoaderReadyDoes DEF TypeInv, Runners, Awaiting, Known, Moving
  <1>2. raced' = raced /\ raced \in BOOLEAN /\ run[n].server = "open"
    BY DEF LoaderReady, TypeInv, TypeOK
  <1>3. raced' = (raced \/ run[n].server # "open")
    BY <1>2
  <1>4. UNCHANGED <<loaded, finishedCh, comp, phase>>
    BY DEF LoaderReady, chans
  <1>. QED
    BY <1>1, <1>3, <1>4, LoaderReadyDoes DEF TypeInv, Grants

LEMMA PlainHandler ==
  ASSUME TypeInv, NEW r \in Requests, GetRunner(r) \/ HandlerCheck(r) \/ HandlerEnqueue(r) \/ CtxDone(r)
  PROVE  SameHolds /\ KeepsUsed
  <1>1. \A q \in Requests : req'[q].granted = req[q].granted /\ req'[q].watcher = req[q].watcher
    <2>1. req \in [Requests -> Request] /\ req[r] \in Request
      BY DEF TypeInv, TypeOK
    <2>2. CASE GetRunner(r)
      BY <2>2, GetRunnerWrites
    <2>3. CASE HandlerEnqueue(r)
      BY <2>3, EnqueueWrites
    <2>. QED
      BY <2>1, <2>2, <2>3 DEF Request, HandlerCheck, CtxDone
  <1>2. UNCHANGED <<run, loaded, finishedCh, comp, raced, phase>>
    BY DEF GetRunner, HandlerCheck, HandlerEnqueue, CtxDone, chans
  <1>. QED
    BY <1>1, <1>2 DEF SameHolds, KeepsUsed, Counting, Up, KeyOf

\* processCompleted sends while it holds refMu of one runner.
SendingInv ==
  \A m \in Runners : run[m].mu = "completed" => comp.pc = "sending" /\ comp.run = m

LEMMA SendingStep ==
  ASSUME TypeInv, LoadingInv, SendingInv, [Next]_vars
  PROVE  SendingInv'
  <1>1. CASE ProcessCompleted
    <2>1. CASE CompFinish
      <3>1. \A m \in Runners : run[m].mu # "completed"
        BY <2>1, FinishDoes DEF SendingInv
      <3>. QED
        BY <2>1, <3>1, FinishDoes DEF SendingInv, Counted, OnlyRunner
    <2>2. CASE CompTakeFinished \/ CompTakeExpired \/ CompNotify
      BY <2>2 DEF SendingInv, CompTakeFinished, CompTakeExpired, CompNotify
    <2>3. CASE CompRetryLater
      BY <2>3, RetryLaterDoes DEF SendingInv, OnlyRunner
    <2>4. CASE CompExpire
      BY <2>4, CompExpireDoes DEF SendingInv, OnlyRunner
    <2>5. CASE CompRecovered
      BY <2>5, RecoveredDoes DEF SendingInv, OnlyRunner
    <2>. QED
      BY <1>1, <2>1, <2>2, <2>3, <2>4, <2>5 DEF ProcessCompleted
  <1>2. ASSUME NEW n \in Runners, BlockedSend(n)
        PROVE  SendingInv'
    <2>1. /\ run'[n].mu = "free" /\ \A m \in Runners \ {n} : run'[m] = run[m]
          /\ run[n].mu # "completed" => comp' = comp
      BY <1>2, BlockedSendDoes DEF TypeInv, SentAs, BlockedSend
    <2>. QED
      BY <2>1 DEF SendingInv
  <1>3. CASE comp' = comp /\ \A m \in Runners : run'[m].mu = "completed" => run[m].mu = "completed"
    BY <1>3 DEF SendingInv
  <1>. DEFINE Same == \A m \in Runners : run'[m].mu = "completed" => run[m].mu = "completed"
  <1>4. ASSUME NEW r \in Requests, Handler(r) PROVE comp' = comp /\ Same
    <2>1. CASE HandlerUse(r)
      <3>1. req[r].seen \in Runners
        BY <2>1 DEF HandlerUse, TypeInv, ControlOK, SeenOK
      <3>. QED
        BY <2>1, <3>1, UseDoes DEF HandlerUse, Used, TypeInv
    <2>. QED
      BY <1>4, <2>1 DEF Handler, GetRunner, HandlerCheck, HandlerEnqueue, CtxDone, Watch
  <1>5. ASSUME NEW n \in Runners, Loader(n) \/ TimerFires(n) \/ TimerCallback(n) \/ RetryExpired(n)
        PROVE  comp' = comp /\ Same
    <2>1. comp' = comp
      BY <1>5 DEF Loader, LoaderReady, LoaderFails, TimerFires, TimerCallback, RetryExpired
    <2>. QED
      BY <1>5, <2>1, LoaderReadyDoes, LoaderFailsDoes, TimerFiresDoes, TimerCallbackDoes,
         RetryExpiredDoes DEF Loader, TypeInv, OnlyRunner, SentAs
  <1>6. CASE PendPlace
    <2>1. CASE PendUse
      <3>1. pend.req \in Requests /\ pend.target \in Runners
        BY <2>1 DEF PendUse, TypeInv, ControlOK
      <3>2. comp' = comp /\ Same
        BY <2>1, <3>1, UseDoes DEF PendUse, Used, TypeInv
      <3>. QED
        BY <1>3, <3>2
    <2>. QED
      BY <1>3, <1>6, <2>1 DEF PendPlace, PendTake, PendUnloaded, PendTop, PendCheck
  <1>7. CASE PendLoad
    <2>1. CASE PendLoadOk \/ PendSpawn \/ PendLoadFails
      <3>1. comp' = comp /\ Same
        BY <2>1, LoadOkDoes, SpawnDoes, LoadFailsDoes
           DEF OnlyRunner, PendLoadOk, PendSpawn, PendLoadFails
      <3>. QED
        BY <1>3, <3>1
    <2>. QED
      BY <1>3, <1>7, <2>1 DEF PendLoad, PendUpdateFreeSpace, PendNoServer, PendPreflight,
         PendResume, PendLoadTooBig, PendLoadFailsNil
  <1>8. CASE PendMakeRoom
    <2>1. CASE PendExpire
      <3>1. pend.target \in Runners
        BY <2>1 DEF PendExpire, TypeInv, ControlOK
      <3>2. Asked(pend.target, "pending")
        BY <2>1, <3>1, ExpireDoes DEF PendExpire, TypeInv, Senders
      <3>. QED
        BY <1>3, <2>1, <3>1, <3>2 DEF PendExpire, Asked
    <2>2. CASE PendEvict
      <3>1. PICK n \in pend.todo : Expire(n, "pending")
        BY <2>2 DEF PendEvict
      <3>2. n \in Runners
        BY DEF TypeInv, TypeOK, Pend
      <3>3. Asked(n, "pending")
        BY <3>1, <3>2, ExpireDoes DEF TypeInv, Senders
      <3>. QED
        BY <1>3, <2>2, <3>2, <3>3 DEF PendEvict, Asked
    <2>. QED
      BY <1>3, <1>8, <2>1, <2>2 DEF PendMakeRoom, PendFind, PendScan, PendEvictAll, PendEvictWait
  <1>9. CASE ApiLookup \/ ApiExpire
    <2>1. CASE ApiExpire
      <3>1. PICK n \in api.todo : Expire(n, "api")
        BY <2>1 DEF ApiExpire
      <3>2. n \in Runners
        BY DEF TypeInv, TypeOK
      <3>3. Asked(n, "api")
        BY <3>1, <3>2, ExpireDoes DEF TypeInv, Senders
      <3>. QED
        BY <1>3, <2>1, <3>2, <3>3 DEF ApiExpire, Asked
    <2>. QED
      BY <1>3, <1>9, <2>1 DEF ApiLookup
  <1>10. CASE Shutdown
    <2>1. CASE CloseActive \/ CloseLoaded
      BY <1>3, <2>1, CloseDoes DEF CloseActive, CloseLoaded
    <2>2. CASE Signal \/ Exit
      BY <1>3, <2>2 DEF Signal, Exit
    <2>3. CASE LoopsStop
      BY <2>3 DEF LoopsStop, CompGoto, SendingInv
    <2>. QED
      BY <1>10, <2>1, <2>2, <2>3 DEF Shutdown
  <1>11. CASE UNCHANGED vars
    BY <1>3, <1>11 DEF vars
  <1>. QED
    BY <1>1, <1>2, <1>3, <1>4, <1>5, <1>6, <1>7, <1>8, <1>9, <1>10, <1>11 DEF Next, Events, Runners

LEMMA PlainLoader ==
  ASSUME TypeInv, SendingInv, NEW n \in Runners, LoaderFails(n) \/ Events(n)
  PROVE  SameHolds /\ KeepsUsed
  <1>1. \A q \in Requests : req'[q].granted = req[q].granted /\ req'[q].watcher = req[q].watcher
    BY LoaderFailsDoes DEF TypeInv, Refused, OnlyRequest, Events, TimerFires, TimerCallback,
       RetryExpired, BlockedSend, Runners
  <1>2. UNCHANGED <<loaded, finishedCh, raced, phase>>
    BY DEF LoaderFails, Events, TimerFires, TimerCallback, RetryExpired, BlockedSend, chans
  <1>3. comp' = comp \/ (comp'.pc = "select" /\ comp.pc = "sending")
    BY BlockedSendDoes DEF TypeInv, SendingInv, BlockedSend, LoaderFails, Events, TimerFires, TimerCallback, RetryExpired
  <1>4. \A m \in Runners : run'[m].ref = run[m].ref /\ run'[m].server = run[m].server
    BY LoaderFailsDoes, TimerFiresDoes, TimerCallbackDoes, RetryExpiredDoes, BlockedSendDoes
       DEF Events, TypeInv, OnlyRunner, SentAs
  <1>. QED
    BY <1>1, <1>2, <1>3, <1>4 DEF SameHolds, KeepsUsed, Counting, Up, KeyOf

LEMMA PlainPend ==
  ASSUME TypeInv, LoadingInv, (PendPlace /\ ~PendUse) \/ PendLoad \/ PendMakeRoom
  PROVE  SameHolds /\ KeepsUsed
  <1>1. UNCHANGED <<finishedCh, raced, comp>>
    BY DEF PendPlace, PendTake, PendUnloaded, PendTop, PendCheck,
       PendLoad, PendUpdateFreeSpace, PendNoServer, PendPreflight, PendSpawn, PendResume,
       PendLoadOk, PendLoadTooBig, PendLoadFails, PendLoadFailsNil,
       PendMakeRoom, PendFind, PendScan, PendExpire, PendEvictAll, PendEvict, PendEvictWait, chans
  <1>2. \A q \in Requests : req'[q].granted = req[q].granted /\ req'[q].watcher = req[q].watcher
    <2>1. \/ req' = req
          \/ req' = [req EXCEPT ![pend.req].failed = "error"]
          \/ req' = [req EXCEPT ![pend.req].oom = TRUE]
      BY DEF PendPlace, PendTake, PendUnloaded, PendTop, PendCheck,
         PendLoad, PendUpdateFreeSpace, PendNoServer, PendPreflight, PendSpawn, PendResume,
         PendLoadOk, PendLoadTooBig, PendLoadFails, PendLoadFailsNil,
         PendMakeRoom, PendFind, PendScan, PendExpire, PendEvictAll, PendEvict, PendEvictWait
    <2>2. req \in [Requests -> Request] /\ \A q \in Requests : req[q] \in Request
      BY DEF TypeInv, TypeOK
    <2>. QED
      BY <2>1, <2>2 DEF Request
  <1>3. SameHolds
    BY <1>1, <1>2 DEF SameHolds, Counting
  <1>4. CASE PendPlace /\ ~PendUse
    <2>1. UNCHANGED <<run, loaded, phase>>
      BY <1>4 DEF PendPlace, PendTake, PendUnloaded, PendTop, PendCheck
    <2>. QED
      BY <1>3, <2>1 DEF KeepsUsed, Up, KeyOf
  <1>5. CASE PendMakeRoom
    <2>1. phase' = phase /\ ServersUnchanged
      BY <1>5, PendLeavesServers DEF PendMakeRoom, PendFind, PendScan, PendExpire, PendEvictAll,
         PendEvict, PendEvictWait
    <2>2. \A n \in Runners : run'[n].ref = run[n].ref
      <3>1. CASE PendExpire
        <4>1. pend.target \in Runners
          BY <3>1 DEF PendExpire, TypeInv, ControlOK
        <4>. QED
          BY <3>1, <4>1, ExpireDoes DEF PendExpire, TypeInv, Senders, Asked
      <3>2. CASE PendEvict
        <4>1. PICK n \in pend.todo : Expire(n, "pending")
          BY <3>2 DEF PendEvict
        <4>2. n \in Runners
          BY DEF TypeInv, TypeOK, Pend
        <4>. QED
          BY <4>1, <4>2, ExpireDoes DEF TypeInv, Senders, Asked
      <3>3. CASE PendFind \/ PendScan \/ PendEvictAll \/ PendEvictWait
        BY <3>3 DEF PendFind, PendScan, PendEvictAll, PendEvictWait
      <3>. QED
        BY <1>5, <3>1, <3>2, <3>3 DEF PendMakeRoom
    <2>. QED
      BY <1>3, <2>1, <2>2 DEF ServersUnchanged, KeepsUsed, Up, KeyOf
  <1>6. CASE PendLoad
    <2>1. /\ \A r \in Requests : KeyOf(r) \in Keys
          /\ loaded \in [Keys -> Runners \cup {None}] /\ None \notin Runners
          /\ Up' => Up
      BY <1>6, ConfigAssumption DEF TypeInv, TypeOK, Request, KeyOf, Runners, Up, PendLoad,
         PendUpdateFreeSpace, PendNoServer, PendPreflight, PendSpawn, PendResume, PendLoadOk,
         PendLoadTooBig, PendLoadFails, PendLoadFailsNil
    <2>2. CASE PendSpawn
      <3>1. loaded' = loaded /\ OnlyRunner(pend.req) /\ SameCounts(pend.req) /\ pend.req \in Runners
            /\ run'[pend.req].server = "open"
        <4>1. \A x \in Runner : [x EXCEPT !.server = "open"].server = "open"
          BY DEF Runner
        <4>. QED
          BY <2>2, <4>1, SpawnDoes DEF PendSpawn, TypeInv, TypeOK
      <3>. QED
        BY <1>3, <2>1, <3>1 DEF KeepsUsed, OnlyRunner, SameCounts
    <2>3. CASE PendLoadOk
      <3>1. /\ pend.req \in Runners /\ OnlyRunner(pend.req) /\ SameCounts(pend.req)
            /\ run'[pend.req].server = run[pend.req].server /\ loaded[KeyOf(pend.req)] = None
            /\ loaded' = [loaded EXCEPT ![KeyOf(pend.req)] = pend.req]
        BY <2>3, LoadOkDoes DEF PendLoadOk
      <3>. QED
        BY <1>3, <2>1, <3>1 DEF KeepsUsed, OnlyRunner, SameCounts, Runners
    <2>4. CASE PendLoadFails
      <3>1. /\ activeLoading \in Runners /\ OnlyRunner(activeLoading) /\ SameCounts(activeLoading)
            /\ loaded' = loaded /\ loaded[KeyOf(activeLoading)] = None
        BY <2>1, <2>4, LoadFailsDoes DEF LoadingInv, LoadingIsExclusive
      <3>. QED
        BY <1>3, <2>1, <3>1 DEF KeepsUsed, OnlyRunner, SameCounts
    <2>5. CASE ~PendSpawn /\ ~PendLoadOk /\ ~PendLoadFails
      <3>1. UNCHANGED <<run, loaded>>
        BY <1>6, <2>5 DEF PendLoad, PendUpdateFreeSpace, PendNoServer, PendPreflight,
           PendResume, PendLoadTooBig, PendLoadFailsNil
      <3>. QED
        BY <1>3, <2>1, <3>1 DEF KeepsUsed
    <2>. QED
      BY <2>2, <2>3, <2>4, <2>5
  <1>. QED
    BY <1>4, <1>5, <1>6

LEMMA PlainCompleted ==
  ASSUME TypeInv, ProcessCompleted, ~CompTakeFinished, ~CompFinish
  PROVE  SameHolds /\ KeepsUsed
  <1>1. UNCHANGED <<req, finishedCh, raced, phase>> /\ comp.pc # "finish" /\ comp'.pc # "finish"
    BY DEF ProcessCompleted, CompTakeExpired, CompRetryLater, CompExpire, CompRecovered,
       CompNotify, CompDone, CompGoto, chans, TypeInv, TypeOK, Comp
  <1>2. SameHolds
    BY <1>1 DEF SameHolds, Counting
  <1>3. CASE CompExpire
    <2>1. /\ comp.run \in Runners /\ OnlyRunner(comp.run) /\ SameCounts(comp.run)
          /\ run[comp.run].ref = 0
          /\ \/ loaded' = loaded
             \/ /\ loaded[KeyOf(comp.run)] = comp.run
                /\ loaded' = [loaded EXCEPT ![KeyOf(comp.run)] = None]
      BY <1>3, CompExpireDoes
    <2>2. /\ loaded \in [Keys -> Runners \cup {None}] /\ None \notin Runners
          /\ \A n \in Runners : KeyOf(n) \in Keys
      BY ConfigAssumption DEF TypeInv, TypeOK, Request, KeyOf, Runners
    <2>3. Up' <=> Up
      BY <1>1 DEF Up
    <2>4. ASSUME NEW n \in Runners, run[n].ref # 0, loaded[KeyOf(n)] = n
          PROVE  run'[n] = run[n] /\ loaded'[KeyOf(n)] = n
      <3>1. n # comp.run
        BY <2>1, <2>4
      <3>. QED
        BY <2>1, <2>2, <2>4, <3>1 DEF OnlyRunner
    <2>5. \A n \in Runners : run'[n].ref = run[n].ref
      BY <2>1 DEF OnlyRunner, SameCounts
    <2>. QED
      BY <1>2, <2>3, <2>4, <2>5 DEF KeepsUsed
  <1>4. CASE ~CompExpire
    <2>1. \A n \in Runners : run'[n].ref = run[n].ref
      BY <1>4, RetryLaterDoes, RecoveredDoes DEF ProcessCompleted, CompTakeExpired, CompNotify,
         OnlyRunner, SameCounts
    <2>2. ServersUnchanged
      BY <1>4, CompletedLeavesServers
    <2>. QED
      BY <1>1, <1>2, <2>1, <2>2 DEF ServersUnchanged, KeepsUsed, Up, KeyOf
  <1>. QED
    BY <1>3, <1>4

LEMMA PlainOutside ==
  ASSUME TypeInv, ApiLookup \/ ApiExpire \/ Shutdown \/ UNCHANGED vars
  PROVE  SameHolds /\ KeepsUsed
  <1>1. UNCHANGED <<req, finishedCh, raced, loaded>>
    BY DEF ApiLookup, ApiExpire, Shutdown, Signal, CloseActive, CloseLoaded, Exit, LoopsStop,
       vars, chans
  <1>2. comp' = comp \/ (comp.pc = "select" /\ comp'.pc = "stopped")
    BY DEF ApiLookup, ApiExpire, Shutdown, Signal, CloseActive, CloseLoaded, Exit, LoopsStop,
       CompGoto, vars, TypeInv, TypeOK, Comp
  <1>3. SameHolds
    BY <1>1, <1>2 DEF SameHolds, Counting
  <1>4. CASE ApiExpire
    <2>1. PICK n \in api.todo : Expire(n, "api")
      BY <1>4 DEF ApiExpire
    <2>2. n \in Runners
      BY DEF TypeInv, TypeOK
    <2>3. Asked(n, "api") /\ phase' = phase
      BY <1>4, <2>1, <2>2, ExpireDoes DEF TypeInv, Senders, ApiExpire
    <2>. QED
      BY <1>1, <1>3, <2>2, <2>3 DEF KeepsUsed, Asked, Up, KeyOf
  <1>5. CASE CloseActive \/ CloseLoaded
    <2>1. ~Up'
      BY <1>5 DEF CloseActive, CloseLoaded, Up
    <2>2. \A n \in Runners : run'[n].ref = run[n].ref
      BY <1>5, CloseDoes DEF SameCounts
    <2>. QED
      BY <1>1, <1>3, <2>1, <2>2 DEF KeepsUsed
  <1>6. CASE ApiLookup \/ Signal \/ Exit \/ LoopsStop \/ UNCHANGED vars
    <2>1. run' = run /\ (Up' => Up)
      BY <1>6 DEF ApiLookup, Signal, Exit, LoopsStop, vars, Up
    <2>. QED
      BY <1>1, <1>3, <2>1 DEF KeepsUsed
  <1>. QED
    BY <1>4, <1>5, <1>6 DEF Shutdown

\* The kinds of steps, as far as references go.
LEMMA ReferenceSteps ==
  ASSUME TypeInv, LoadingInv, SendingInv, [Next]_vars
  PROVE  \/ SameHolds /\ KeepsUsed
         \/ \E r \in Requests, n \in Runners : Grants(r, n)
         \/ \E r \in Requests : Watch(r)
         \/ CompTakeFinished \/ CompFinish
  <1>1. ASSUME NEW r \in Requests, Handler(r), ~Watch(r)
        PROVE  (SameHolds /\ KeepsUsed) \/ \E n \in Runners : Grants(r, n)
    BY <1>1, PlainHandler, UseGrants DEF Handler
  <1>2. ASSUME NEW n \in Runners, Loader(n) \/ Events(n)
        PROVE  (SameHolds /\ KeepsUsed) \/ Grants(n, n)
    BY <1>2, PlainLoader, LoaderGrants DEF Loader
  <1>. QED
    BY <1>1, <1>2, PendUseGrants, PlainPend, PlainCompleted, PlainOutside DEF Next, Runners

LEMMA WatchDoes ==
  ASSUME TypeInv, NEW r \in Requests, Watch(r)
  PROVE  /\ OnlyRequest(r) /\ req[r].watcher = "watching" /\ req'[r].watcher = "sent"
         /\ req'[r].granted = req[r].granted
         /\ finishedCh' = Append(finishedCh, r)
         /\ UNCHANGED <<run, loaded, comp, raced, phase>>
  <1>1. req \in [Requests -> Request] /\ req[r] \in Request
    BY DEF TypeInv, TypeOK
  <1>. QED
    BY <1>1 DEF Watch, Request, OnlyRequest

\* The end of a request is taken from the channel; it goes to the runner that
\* is loaded for the request's model.
LEMMA TakeDoes ==
  ASSUME TypeInv, CompTakeFinished
  PROVE  \E r \in Requests :
           /\ Finished(r) /\ \A q : Finished(q) <=> Finished(q)' \/ q = r
           /\ Distinct(finishedCh) => Distinct(finishedCh)' /\ ~Finished(r)'
           /\ UNCHANGED <<req, run, loaded, raced, phase>>
           /\ comp.pc = "select"
           /\ \/ loaded[KeyOf(r)] = None /\ comp' = comp
              \/ /\ loaded[KeyOf(r)] # None
                 /\ comp'.pc = "finish" /\ comp'.req = r /\ comp'.run = loaded[KeyOf(r)]
  <1>. DEFINE h == Head(finishedCh)
  <1>1. /\ h \in Requests /\ Has(finishedCh, h)
        /\ \A y : Has(finishedCh, y) <=> Has(Tail(finishedCh), y) \/ y = h
        /\ Distinct(finishedCh) => Distinct(Tail(finishedCh)) /\ ~Has(Tail(finishedCh), h)
    BY TailHas DEF CompTakeFinished, TypeInv, TypeOK
  <1>2. /\ comp.pc = "select" /\ finishedCh' = Tail(finishedCh)
        /\ UNCHANGED <<req, run, loaded, raced, phase>>
        /\ comp' = IF loaded[KeyOf(h)] = None THEN comp
                   ELSE [pc |-> "finish", req |-> h, run |-> loaded[KeyOf(h)]]
    BY DEF CompTakeFinished
  <1>3. PICK r \in Requests : r = h
    BY <1>1
  <1>4. /\ Finished(r) /\ \A q : Finished(q) <=> Finished(q)' \/ q = r
        /\ Distinct(finishedCh) => Distinct(finishedCh)' /\ ~Finished(r)'
    BY <1>1, <1>2, <1>3 DEF Finished, Has, Distinct
  <1>5. \/ loaded[KeyOf(r)] = None /\ comp' = comp
        \/ /\ loaded[KeyOf(r)] # None
           /\ comp'.pc = "finish" /\ comp'.req = r /\ comp'.run = loaded[KeyOf(r)]
    BY <1>2, <1>3
  <1>. QED
    BY <1>2, <1>4, <1>5

LEMMA FinishLeaves ==
  ASSUME TypeInv, CompFinish
  PROVE  UNCHANGED <<req, loaded, finishedCh, raced, phase>> /\ comp'.pc # "finish"
  <1>1. comp'.pc # "finish"
    BY FinishDoes
  <1>. QED
    BY <1>1 DEF CompFinish

LEMMA WatchInit == Init => WatchInv
  BY DEF Init, WatchInv, Finished, Has, Distinct

LEMMA WatchStep ==
  ASSUME TypeInv, LoadingInv, SendingInv, LineInv, WatchInv, [Next]_vars
  PROVE  WatchInv'
  <1>0. /\ finishedCh \in Seq(Requests) /\ None \notin Requests /\ Runners = Requests
        /\ \A r : Finished(r) => r \in Requests
    BY ConfigAssumption DEF TypeInv, TypeOK, Runners, Finished, Has
  <1>1. CASE SameHolds
    BY <1>1 DEF SameHolds, WatchInv, Finished, Has, Distinct
  <1>2. ASSUME NEW r \in Requests, NEW n \in Runners, Grants(r, n) PROVE WatchInv'
    <2>1. req[r].watcher = "none"
      BY <1>2 DEF Grants, LineInv, Quiet
    <2>2. ~Finished(r) /\ ~Counting(r)
      BY <2>1 DEF WatchInv, Counting
    <2>. QED
      BY <1>0, <1>2, <2>2 DEF WatchInv, Grants, OnlyRequest, Finished, Has, Distinct, Counting
  <1>3. ASSUME NEW r \in Requests, Watch(r) PROVE WatchInv'
    <2>1. /\ \A q : Finished(q)' <=> Finished(q) \/ q = r
          /\ Distinct(finishedCh) /\ ~Finished(r) => Distinct(finishedCh)'
      <3>1. /\ \A y : Has(Append(finishedCh, r), y) <=> Has(finishedCh, y) \/ y = r
            /\ Distinct(finishedCh) /\ ~Has(finishedCh, r) => Distinct(Append(finishedCh, r))
        BY <1>0, AppendHas
      <3>2. finishedCh' = Append(finishedCh, r)
        BY <1>3, WatchDoes
      <3>. QED
        BY <3>1, <3>2 DEF Finished, Has, Distinct
    <2>2. ~Finished(r) /\ ~Counting(r) /\ req[r].granted # None
      BY <1>3, WatchDoes DEF WatchInv, Counting
    <2>. QED
      BY <1>3, <2>1, <2>2, WatchDoes DEF WatchInv, OnlyRequest, Counting
  <1>4. CASE CompTakeFinished
    BY <1>4, TakeDoes DEF WatchInv
  <1>5. CASE CompFinish
    BY <1>5, FinishLeaves DEF WatchInv, Finished, Has, Distinct
  <1>. QED
    BY <1>1, <1>2, <1>3, <1>4, <1>5, ReferenceSteps

\* What the counting relies on: refCount does not wrap around.
FewRequests == IsFiniteSet(Requests) /\ Cardinality(Requests) < RefMod

\* Until a dead runner is handed out, refCount is exact; what is held is loaded
\* under its key and open while the server is up; and the runner found under
\* the key of a request that ended is the one it was given.
CountInv ==
  ~raced =>
    /\ \A n \in Runners : run[n].ref = Cardinality(Holders(n))
    /\ \A r \in Requests, n \in Runners :
         Holds(r, n) => loaded[KeyOf(n)] = n /\ (Up => run[n].server = "open")
    /\ comp.pc = "finish" => comp.run = req[comp.req].granted

LEMMA HoldersFinite ==
  ASSUME FewRequests, NEW n
  PROVE  /\ IsFiniteSet(Holders(n)) /\ Cardinality(Holders(n)) \in Nat
         /\ Cardinality(Holders(n)) <= Cardinality(Requests) /\ Cardinality(Requests) \in Nat
         /\ Holders(n) # {} => Cardinality(Holders(n)) # 0
  <1>1. Holders(n) \in SUBSET Requests
    BY DEF Holders
  <1>. QED
    BY <1>1, FS_Subset, FS_CardinalityType, FS_EmptySet DEF FewRequests

\* A runner that is held has a positive refCount.
LEMMA HeldIsBusy ==
  ASSUME FewRequests, TypeInv, CountInv, ~raced, NEW r \in Requests, NEW n \in Runners, Holds(r, n)
  PROVE  run[n].ref # 0
  <1>1. Holders(n) # {}
    BY DEF Holders
  <1>. QED
    BY <1>1, HoldersFinite DEF CountInv

LEMMA CountInit ==
  ASSUME Init
  PROVE  CountInv
  <1>1. None \notin Runners
    BY ConfigAssumption DEF Runners
  <1>2. \A r \in Requests, n \in Runners : ~Holds(r, n)
    BY <1>1 DEF Init, Holds
  <1>3. \A n \in Runners : Holders(n) = {}
    BY <1>2 DEF Holders
  <1>. QED
    BY <1>2, <1>3, FS_EmptySet DEF Init, CountInv

\* What the requests have in common with the runners they hold.
LEMMA HeldStays ==
  ASSUME FewRequests, TypeInv, WatchInv, CountInv, ~raced, SameHolds, KeepsUsed, [Next]_vars
  PROVE  CountInv'
  <1>1. \A r \in Requests : KeyOf(r)' = KeyOf(r)
    BY KeysNeverChange DEF KeyOf
  <1>2. ASSUME NEW r \in Requests, NEW n \in Runners PROVE Holds(r, n)' <=> Holds(r, n)
    BY HoldsIs, HoldsNext DEF SameHolds, Reporting, Finished, Has
  <1>3. \A n \in Runners : Holders(n)' = Holders(n)
    BY <1>2 DEF Holders
  <1>4. ASSUME NEW r \in Requests, NEW n \in Runners, Holds(r, n)'
        PROVE  loaded'[KeyOf(n)'] = n /\ (Up' => run'[n].server = "open")
    <2>1. Holds(r, n) /\ run[n].ref # 0
      BY <1>2, <1>4, HeldIsBusy
    <2>2. loaded[KeyOf(n)] = n /\ (Up => run[n].server = "open")
      BY <2>1 DEF CountInv
    <2>. QED
      BY <1>1, <2>1, <2>2 DEF KeepsUsed, Runners
  <1>5. comp'.pc = "finish" => comp'.run = req'[comp'.req].granted
    BY DEF SameHolds, CountInv, WatchInv
  <1>. QED
    BY <1>3, <1>4, <1>5 DEF CountInv, KeepsUsed

\* A grant: one holder more, and one more counted.
LEMMA HeldGrows ==
  ASSUME FewRequests, TypeInv, LoadingInv, NoOrphanServer, LineInv, WatchInv, CountInv,
         NEW r \in Requests, NEW n \in Runners, Grants(r, n), ~raced', [Next]_vars
  PROVE  CountInv'
  <1>0. /\ \A q \in Requests : KeyOf(q)' = KeyOf(q)
        /\ None \notin Requests /\ Runners = Requests /\ raced \in BOOLEAN
    BY KeysNeverChange, ConfigAssumption DEF KeyOf, TypeInv, TypeOK, Runners
  <1>1. ~raced /\ run[n].server = "open" /\ Quiet(r)
    BY <1>0 DEF Grants, LineInv
  <1>2. ~Finished(r) /\ ~Counting(r)
    BY <1>1 DEF WatchInv, Counting, Quiet
  <1>3. ASSUME NEW q \in Requests, NEW m \in Runners
        PROVE  Holds(q, m)' <=> Holds(q, m) \/ (q = r /\ m = n)
    <2>1. q # r => (Reporting(q)' <=> Reporting(q)) /\ req'[q] = req[q]
      BY DEF Grants, OnlyRequest, Reporting, Finished, Has, Counting
    <2>2. q = r => Reporting(q)' /\ req'[q].granted = n /\ ~Holds(q, m)
      BY <1>0, <1>1, HoldsIs DEF Grants, Reporting, Quiet
    <2>. QED
      BY <2>1, <2>2, HoldsIs, HoldsNext
  <1>4. ~Holds(r, n)
    BY <1>0, <1>1, HoldsIs DEF Quiet
  <1>5. loaded[KeyOf(n)] = n
    <2>1. activeLoading # n
      BY <1>0 DEF LoadingInv, LoadingIsExclusive, InLine, LineInv, Grants
    <2>. QED
      BY <1>1, <2>1 DEF NoOrphanServer, OpenServers
  <1>6. run'[n].ref = Cardinality(Holders(n)')
    <2>1. Holders(n)' = Holders(n) \cup {r} /\ r \notin Holders(n)
      BY <1>3, <1>4 DEF Holders
    <2>2. /\ Holders(n)' \in SUBSET Requests /\ IsFiniteSet(Holders(n))
          /\ Cardinality(Holders(n)) \in Nat
      BY <2>1, HoldersFinite DEF Holders
    <2>3. /\ Cardinality(Holders(n)') = Cardinality(Holders(n)) + 1
          /\ Cardinality(Holders(n)') <= Cardinality(Requests)
          /\ Cardinality(Requests) \in Nat /\ RefMod \in Nat
      BY <2>1, <2>2, FS_AddElement, FS_Subset, FS_CardinalityType, ConfigAssumption DEF FewRequests
    <2>4. Cardinality(Holders(n)) + 1 < RefMod
      BY <2>2, <2>3 DEF FewRequests
    <2>5. IncRef(Cardinality(Holders(n))) = Cardinality(Holders(n)) + 1
      BY <2>2, <2>4, IncExact
    <2>. QED
      BY <1>1, <2>3, <2>5 DEF CountInv, Grants
  <1>7. ASSUME NEW m \in Runners, m # n PROVE run'[m].ref = Cardinality(Holders(m)')
    <2>1. Holders(m)' = Holders(m)
      BY <1>3, <1>7 DEF Holders
    <2>. QED
      BY <1>1, <1>7, <2>1 DEF CountInv, Grants, OnlyRunner
  <1>8. ASSUME NEW q \in Requests, NEW m \in Runners, Holds(q, m)'
        PROVE  loaded'[KeyOf(m)'] = m /\ (Up' => run'[m].server = "open")
    <2>1. loaded[KeyOf(m)] = m /\ (Up => run[m].server = "open")
      BY <1>1, <1>3, <1>5, <1>8 DEF CountInv
    <2>. QED
      BY <1>0, <1>1, <2>1 DEF Grants, OnlyRunner, Up
  <1>9. comp'.pc = "finish" => comp'.run = req'[comp'.req].granted
    BY <1>1, <1>2 DEF CountInv, WatchInv, Grants, OnlyRequest, Counting
  <1>. QED
    BY <1>6, <1>7, <1>8, <1>9 DEF CountInv

\* A report on its way to processCompleted is still one report.
LEMMA HeldMoves ==
  ASSUME FewRequests, TypeInv, KeyInv, WatchInv, CountInv, ~raced',
         (\E r \in Requests : Watch(r)) \/ CompTakeFinished, [Next]_vars
  PROVE  CountInv'
  <1>0. /\ \A q \in Requests : KeyOf(q)' = KeyOf(q)
        /\ None \notin Requests /\ Runners = Requests /\ finishedCh \in Seq(Requests)
        /\ req \in [Requests -> Request] /\ \A q \in Requests : req[q] \in Request
    BY KeysNeverChange, ConfigAssumption DEF KeyOf, TypeInv, TypeOK, Runners
  <1>. DEFINE Same == /\ UNCHANGED <<run, loaded, raced, phase>>
                      /\ \A q \in Requests : /\ req'[q].granted = req[q].granted
                                             /\ Reporting(q)' <=> Reporting(q)
                      /\ comp'.pc = "finish" => comp'.run = req'[comp'.req].granted
  <1>1. ASSUME NEW r \in Requests, Watch(r) PROVE Same
    <2>1. \A q : Finished(q)' <=> Finished(q) \/ q = r
      <3>1. \A y : Has(Append(finishedCh, r), y) <=> Has(finishedCh, y) \/ y = r
        BY <1>0, AppendHas
      <3>. QED
        BY <1>1, <3>1, WatchDoes DEF Finished, Has
    <2>2. UNCHANGED <<run, loaded, comp, raced, phase>>
      BY <1>1, WatchDoes
    <2>3. ASSUME NEW q \in Requests
          PROVE  req'[q].granted = req[q].granted /\ (Reporting(q)' <=> Reporting(q))
      BY <1>1, <2>1, WatchDoes DEF OnlyRequest, Reporting, Counting
    <2>4. comp'.pc = "finish" => comp'.run = req'[comp'.req].granted
      BY <2>2, <2>3 DEF CountInv, WatchInv
    <2>. QED
      BY <2>2, <2>3, <2>4
  <1>2. ASSUME CompTakeFinished PROVE Same
    <2>1. PICK r \in Requests :
            /\ Finished(r) /\ \A q : Finished(q) <=> Finished(q)' \/ q = r
            /\ Distinct(finishedCh) => Distinct(finishedCh)' /\ ~Finished(r)'
            /\ UNCHANGED <<req, run, loaded, raced, phase>>
            /\ comp.pc = "select"
            /\ \/ loaded[KeyOf(r)] = None /\ comp' = comp
               \/ /\ loaded[KeyOf(r)] # None
                  /\ comp'.pc = "finish" /\ comp'.req = r /\ comp'.run = loaded[KeyOf(r)]
      BY <1>2, TakeDoes
    <2>2. loaded[KeyOf(r)] = req[r].granted /\ req[r].granted # None
      <3>1. req[r].watcher = "sent" /\ req[r].granted # None
        BY <2>1 DEF WatchInv
      <3>2. PICK n \in Runners : n = req[r].granted
        BY <1>0, <3>1 DEF Request
      <3>3. Holds(r, n)
        BY <2>1, <3>2, HoldsIs DEF Reporting
      <3>. QED
        BY <2>1, <3>1, <3>2, <3>3 DEF CountInv, KeyInv
    <2>3. \A q \in Requests : Reporting(q)' <=> Reporting(q)
      BY <2>1, <2>2 DEF Reporting, Counting
    <2>. QED
      BY <2>1, <2>2, <2>3
  <1>3. Same /\ ~raced
    BY <1>1, <1>2
  <1>. HIDE DEF Same
  <1>4. ASSUME NEW q \in Requests, NEW m \in Runners PROVE Holds(q, m)' <=> Holds(q, m)
    BY <1>3, HoldsIs, HoldsNext DEF Same
  <1>5. \A m \in Runners : Holders(m)' = Holders(m)
    BY <1>4 DEF Holders
  <1>. QED
    BY <1>0, <1>3, <1>4, <1>5 DEF Same, CountInv, Up

\* The end of a request is counted down on the runner it was given.
LEMMA HeldShrinks ==
  ASSUME FewRequests, TypeInv, WatchInv, CountInv, ~raced', CompFinish, [Next]_vars
  PROVE  CountInv'
  <1>0. /\ \A q \in Requests : KeyOf(q)' = KeyOf(q)
        /\ None \notin Requests /\ Runners = Requests
    BY KeysNeverChange, ConfigAssumption DEF KeyOf, TypeInv, TypeOK, Runners
  <1>1. /\ UNCHANGED <<req, loaded, finishedCh, raced, phase>> /\ ~raced
        /\ comp.pc = "finish" /\ comp'.pc # "finish" /\ comp.run \in Runners /\ Counted(comp.run)
    BY FinishLeaves, FinishDoes
  <1>2. PICK r \in Requests, n \in Runners : r = comp.req /\ n = comp.run
    BY <1>1 DEF WatchInv
  <1>3. req[r].granted = n /\ Counting(r) /\ req[r].watcher = "sent" /\ ~Finished(r)
    BY <1>1, <1>2 DEF CountInv, WatchInv, Counting
  <1>4. ASSUME NEW q \in Requests, NEW m \in Runners
        PROVE  Holds(q, m)' <=> Holds(q, m) /\ q # r
    <2>1. Reporting(q)' <=> Reporting(q) /\ q # r
      BY <1>1, <1>2, <1>3 DEF Reporting, Finished, Has, Counting
    <2>. QED
      BY <1>1, <2>1, HoldsIs, HoldsNext
  <1>5. Counted(n)
    BY <1>1, <1>2
  <1>6. run'[n].ref = Cardinality(Holders(n)')
    <2>1. Holders(n)' = Holders(n) \ {r} /\ r \in Holders(n)
      BY <1>3, <1>4, HoldsIs DEF Holders, Reporting
    <2>2. /\ IsFiniteSet(Holders(n)) /\ Cardinality(Holders(n)) \in Nat
          /\ Cardinality(Holders(n)) <= Cardinality(Requests) /\ Cardinality(Requests) \in Nat
          /\ Cardinality(Holders(n)) # 0
      BY <2>1, HoldersFinite
    <2>3. Cardinality(Holders(n)') = Cardinality(Holders(n)) - 1
      BY <2>1, <2>2, FS_RemoveElement
    <2>4. RefMod \in Nat /\ Cardinality(Holders(n)) < RefMod /\ Cardinality(Holders(n)) > 0
      BY <2>2, ConfigAssumption DEF FewRequests
    <2>5. DecRef(Cardinality(Holders(n))) = Cardinality(Holders(n)) - 1
      BY <2>2, <2>4, DecExact
    <2>. QED
      BY <1>1, <1>5, <2>3, <2>5 DEF CountInv, Counted
  <1>7. ASSUME NEW m \in Runners, m # n PROVE run'[m].ref = Cardinality(Holders(m)')
    <2>1. Holders(m)' = Holders(m)
      BY <1>3, <1>4, <1>7, HoldsIs DEF Holders
    <2>. QED
      BY <1>1, <1>5, <1>7, <2>1 DEF CountInv, Counted, OnlyRunner
  <1>8. ASSUME NEW q \in Requests, NEW m \in Runners, Holds(q, m)'
        PROVE  loaded'[KeyOf(m)'] = m /\ (Up' => run'[m].server = "open")
    <2>1. loaded[KeyOf(m)] = m /\ (Up => run[m].server = "open")
      BY <1>1, <1>4, <1>8 DEF CountInv
    <2>2. run'[m].server = run[m].server
      BY <1>5 DEF Counted, OnlyRunner
    <2>. QED
      BY <1>0, <1>1, <2>1, <2>2 DEF Up
  <1>. QED
    BY <1>1, <1>6, <1>7, <1>8 DEF CountInv

LEMMA CountStep ==
  ASSUME FewRequests, TypeInv, LoadingInv, SendingInv, NoOrphanServer, LineInv, KeyInv, WatchInv,
         CountInv, [Next]_vars
  PROVE  CountInv'
  <1>1. CASE raced'
    BY <1>1 DEF CountInv
  <1>2. CASE ~raced'
    <2>1. CASE SameHolds /\ KeepsUsed
      BY <1>2, <2>1, HeldStays DEF SameHolds
    <2>. QED
      BY <1>2, <2>1, HeldGrows, HeldMoves, HeldShrinks, ReferenceSteps
  <1>. QED
    BY <1>1, <1>2

LEMMA SendingInit == Init => SendingInv
  BY DEF Init, SendingInv

\* Everything the counting of references rests on, and its invariant.
RefInv == /\ TypeInv /\ LoadingInv /\ NoOrphanServer
          /\ SendingInv /\ LineInv /\ KeyInv /\ WatchInv /\ CountInv

LEMMA RefInit == Init => RefInv
  <1>1. Init => LoadingInv /\ NoOrphanServer
    BY DEF Init, LoadingInv, LoadingIsExclusive, NoOrphanServer, OpenServers
  <1>. QED
    BY <1>1, TypeInit, SendingInit, LineInit, KeyInit, WatchInit, CountInit DEF RefInv

LEMMA RefStep ==
  ASSUME FewRequests, RefInv, [Next]_vars
  PROVE  RefInv'
  BY TypeStep, LoadingStep, NoOrphanStep, SendingStep, LineStep, KeyStep, WatchStep, CountStep
     DEF RefInv

\* With fewer requests than refCount can count, it is the number of those who
\* hold the runner, whichever of the four places counted them up or down -
\* until a request is handed a dead runner.
THEOREM ReferencesAreCounted ==
  ASSUME FewRequests
  PROVE  Spec => []RefCountExact
  <1>1. RefInv => RefCountExact
    BY DEF RefInv, CountInv, RefCountExact
  <1>2. RefInv /\ [Next]_vars => RefInv'
    BY RefStep
  <1>. QED
    BY <1>1, <1>2, RefInit, PTL DEF Spec

\* A runner is not taken from those who hold it: neither timer nor eviction nor
\* stop request unloads it or closes its server before the server stops.
THEOREM RunnersAreKept ==
  ASSUME FewRequests
  PROVE  Spec => []HeldRunnerStaysLoaded
  <1>1. RefInv => HeldRunnerStaysLoaded
    BY DEF RefInv, CountInv, HeldRunnerStaysLoaded
  <1>2. RefInv /\ [Next]_vars => RefInv'
    BY RefStep
  <1>. QED
    BY <1>1, <1>2, RefInit, PTL DEF Spec

-----------------------------------------------------------------------------
(* Idle runners.                                                           *)

Expiring(n) == comp.pc = "expire" /\ comp.run = n
Idle(n) == run[n].ref = 0 /\ run[n].mu = "free"

\* Something will make processCompleted look at n.
Tended(n) ==
  \/ run[n].timer = "armed" \/ run[n].fired # 0 \/ run[n].retrying # 0
  \/ Expected(n) \/ Expiring(n)

\* A loaded runner that is idle is tended; the one whose memory is awaited is
\* not loaded, so that it may be left alone when refMu is given back.
IdleInv ==
  /\ comp.pc = "vram" => loaded[KeyOf(comp.run)] # comp.run
  /\ ~raced => \A n \in Runners : loaded[KeyOf(n)] = n /\ Idle(n) => Tended(n)

\* A step that leaves n as idle and as tended as it was.
Keeps(n) ==
  /\ loaded'[KeyOf(n)] = n => loaded[KeyOf(n)] = n
  /\ SameCounts(n) /\ run'[n].mu = run[n].mu
  /\ run[n].timer = "armed" => run'[n].timer = "armed"
  /\ Expected(n) => Expected(n)'
  /\ Expiring(n) => Expiring(n)'

Tends(n) ==
  \/ Keeps(n) \/ \E r \in Requests : Grants(r, n)
  \/ loaded'[KeyOf(n)] # n \/ ~Idle(n)' \/ Tended(n)'

\* A step that only touches one runner.
LEMMA KeepsOthers ==
  ASSUME NEW m, OnlyRunner(m), NEW n \in Runners \ {m},
         UNCHANGED <<loaded, comp>>, Expected(n) => Expected(n)'
  PROVE  Keeps(n)
  BY DEF OnlyRunner, Keeps, SameCounts, Expiring

LEMMA TendsHandler ==
  ASSUME TypeInv, NEW r \in Requests, Handler(r), NEW n \in Runners
  PROVE  Tends(n)
  <1>1. CASE HandlerUse(r)
    <2>1. PICK m \in Runners : Grants(r, m)
      <3>1. req[r].seen \in Runners
        BY <1>1 DEF HandlerUse, TypeInv, ControlOK, SeenOK
      <3>2. Used(r, req[r].seen) /\ Known(req[r].seen)
        BY <1>1, <3>1, UseDoes DEF HandlerUse, TypeInv, Known, Named
      <3>3. Awaiting(r)
        BY <1>1 DEF HandlerUse, Awaiting, InLine
      <3>. QED
        BY <1>1, <3>1, <3>2, <3>3 DEF HandlerUse, Used, Grants, OnlyRequest, OnlyRunner, chans
    <2>2. expiredCh' = expiredCh
      BY <1>1 DEF HandlerUse, chans
    <2>3. CASE n = m
      BY <2>1, <2>3 DEF Tends
    <2>4. CASE n # m
      <3>1. Expected(n) => Expected(n)'
        BY <2>2 DEF Expected
      <3>. QED
        BY <2>1, <2>4, <3>1, KeepsOthers DEF Grants, Tends
    <2>. QED
      BY <2>3, <2>4
  <1>2. CASE ~HandlerUse(r)
    BY <1>2 DEF Handler, GetRunner, HandlerCheck, HandlerEnqueue, CtxDone, Watch, chans,
       Tends, Keeps, SameCounts, Expected, Expiring
  <1>. QED
    BY <1>1, <1>2

LEMMA TendsPlace ==
  ASSUME TypeInv, PendPlace, NEW n \in Runners
  PROVE  Tends(n)
  <1>1. CASE PendUse
    <2>1. PICK r \in Requests, m \in Runners : Grants(r, m)
      BY <1>1, PendUseGrants
    <2>2. expiredCh' = expiredCh
      BY <1>1 DEF PendUse, chans
    <2>3. CASE n = m
      BY <2>1, <2>3 DEF Tends
    <2>4. CASE n # m
      <3>1. Expected(n) => Expected(n)'
        BY <2>2 DEF Expected
      <3>. QED
        BY <2>1, <2>4, <3>1, KeepsOthers DEF Grants, Tends
    <2>. QED
      BY <2>3, <2>4
  <1>2. CASE ~PendUse
    <2>1. UNCHANGED <<run, loaded, comp, expiredCh>>
      BY <1>2 DEF PendPlace, PendTake, PendUnloaded, PendTop, PendCheck, chans
    <2>. QED
      BY <2>1 DEF Tends, Keeps, SameCounts, Expected, Expiring
  <1>. QED
    BY <1>1, <1>2

LEMMA TendsLoad ==
  ASSUME TypeInv, LoadingInv, PendLoad, NEW n \in Runners
  PROVE  Tends(n)
  <1>1. UNCHANGED <<expiredCh, comp>>
    BY DEF PendLoad, PendUpdateFreeSpace, PendNoServer, PendPreflight, PendSpawn,
       PendResume, PendLoadOk, PendLoadTooBig, PendLoadFails, PendLoadFailsNil, chans
  <1>2. CASE PendLoadOk
    <2>1. /\ pend.req \in Runners /\ OnlyRunner(pend.req) /\ run'[pend.req].mu = "loader"
          /\ loaded' = [loaded EXCEPT ![KeyOf(pend.req)] = pend.req]
          /\ loaded \in [Keys -> Runners \cup {None}] /\ KeyOf(n) \in Keys
      BY <1>2, LoadOkDoes DEF PendLoadOk, TypeInv, TypeOK, Request, KeyOf, Runners
    <2>2. CASE n = pend.req
      <3>1. PICK m \in Runners : m = pend.req
        BY <2>1
      <3>2. run'[n].mu = "loader"
        BY <2>1, <2>2
      <3>. QED
        BY <3>2 DEF Tends, Idle
    <2>3. CASE n # pend.req
      BY <1>1, <2>1, <2>3 DEF Tends, Keeps, OnlyRunner, SameCounts, Expected, Expiring
    <2>. QED
      BY <2>2, <2>3
  <1>3. CASE ~PendLoadOk
    <2>1. loaded' = loaded
      BY <1>3 DEF PendLoad, PendUpdateFreeSpace, PendNoServer, PendPreflight, PendSpawn,
         PendResume, PendLoadTooBig, PendLoadFails, PendLoadFailsNil
    <2>2. SameCounts(n) /\ run'[n].mu = run[n].mu /\ run'[n].timer = run[n].timer
      <3>1. CASE PendSpawn
        BY <3>1, SpawnDoes DEF OnlyRunner, SameCounts
      <3>2. CASE PendLoadFails
        BY <3>2, LoadFailsDoes DEF OnlyRunner, SameCounts
      <3>3. CASE ~PendSpawn /\ ~PendLoadFails
        <4>1. run' = run
          BY <1>3, <3>3 DEF PendLoad, PendUpdateFreeSpace, PendNoServer, PendPreflight,
             PendResume, PendLoadTooBig, PendLoadFailsNil
        <4>. QED BY <4>1 DEF SameCounts
      <3>. QED
        BY <3>1, <3>2, <3>3
    <2>. QED
      BY <1>1, <2>1, <2>2 DEF Tends, Keeps, Expected, Expiring
  <1>. QED
    BY <1>2, <1>3

\* A runner asked to expire is busy, or looked at soon.
LEMMA TendsAsked ==
  ASSUME TypeInv, NEW m \in Runners, NEW sender \in Senders, Asked(m, sender),
         UNCHANGED <<loaded, comp>>, NEW n \in Runners
  PROVE  Tends(n)
  <1>1. run[m].ref \in Nat /\ "free" \notin Senders
    BY ConfigAssumption DEF TypeInv, TypeOK, Runner, Senders
  <1>2. CASE n = m
    <2>1. CASE run'[n].mu = "free" /\ \A x : Expected(x)' <=> Expected(x) \/ x = m
      <3>1. Expected(n)'
        BY <1>2, <2>1
      <3>. QED
        BY <3>1 DEF Tends, Tended
    <2>2. CASE run'[n].mu = sender \/ run[n].ref > 0
      BY <1>1, <1>2, <2>2 DEF Asked, Tends, Idle
    <2>. QED
      BY <1>2, <2>1, <2>2 DEF Asked
  <1>3. CASE n # m
    <2>1. Expected(n) => Expected(n)'
      BY DEF Asked, Expected
    <2>2. OnlyRunner(m)
      BY DEF Asked, OnlyRunner
    <2>. QED
      BY <1>3, <2>1, <2>2, KeepsOthers DEF Tends
  <1>. QED
    BY <1>2, <1>3

LEMMA TendsRoom ==
  ASSUME TypeInv, PendMakeRoom, NEW n \in Runners
  PROVE  Tends(n)
  <1>1. CASE PendExpire
    <2>1. PICK m \in Runners : m = pend.target
      BY <1>1 DEF PendExpire, TypeInv, ControlOK
    <2>2. Asked(m, "pending")
      BY <1>1, <2>1, ExpireDoes DEF PendExpire, TypeInv, Senders
    <2>. QED
      BY <1>1, <2>2, TendsAsked DEF PendExpire, Senders
  <1>2. CASE PendEvict
    <2>1. PICK m \in Runners : Expire(m, "pending")
      BY <1>2 DEF PendEvict, TypeInv, TypeOK, Pend
    <2>2. Asked(m, "pending")
      BY <2>1, ExpireDoes DEF TypeInv, Senders
    <2>. QED
      BY <1>2, <2>2, TendsAsked DEF PendEvict, Senders
  <1>3. CASE PendFind \/ PendScan \/ PendEvictAll \/ PendEvictWait
    <2>1. UNCHANGED <<run, loaded, comp, expiredCh>>
      BY <1>3 DEF PendFind, PendScan, PendEvictAll, PendEvictWait, chans
    <2>. QED
      BY <2>1 DEF Tends, Keeps, SameCounts, Expected, Expiring
  <1>. QED
    BY <1>1, <1>2, <1>3 DEF PendMakeRoom

LEMMA TendsLoader ==
  ASSUME TypeInv, SendingInv, NEW m \in Runners, Loader(m) \/ Events(m), NEW n \in Runners
  PROVE  Tends(n)
  <1>0. run[m] \in Runner /\ m \in Requests /\ "free" \notin Senders
    BY DEF TypeInv, TypeOK, Runners, Senders
  <1>. DEFINE Sends == /\ OnlyRunner(m)
                       /\ \/ run'[m].mu # "free" /\ expiredCh' = expiredCh
                          \/ \A x : Expected(x)' <=> Expected(x) \/ x = m
  <1>1. ASSUME Sends, UNCHANGED <<loaded, comp>> PROVE Tends(n)
    <2>1. CASE n = m
      <3>1. Expected(n)' \/ run'[n].mu # "free"
        BY <1>1, <2>1
      <3>. QED
        BY <3>1 DEF Tends, Tended, Idle
    <2>2. CASE n # m
      <3>1. Expected(n) => Expected(n)'
        BY <1>1 DEF Expected
      <3>. QED
        BY <1>1, <2>2, <3>1, KeepsOthers DEF Tends
    <2>. QED
      BY <2>1, <2>2
  <1>2. CASE LoaderReady(m)
    <2>1. Grants(m, m) /\ expiredCh' = expiredCh
      BY <1>2, LoaderGrants DEF LoaderReady, chans
    <2>2. CASE n # m
      <3>1. Expected(n) => Expected(n)'
        BY <2>1 DEF Expected
      <3>. QED
        BY <2>1, <2>2, <3>1, KeepsOthers DEF Grants, Tends
    <2>. QED
      BY <1>0, <2>1, <2>2 DEF Tends
  <1>3. CASE LoaderFails(m)
    <2>1. SentAs(m, run[m], "failing")
      BY <1>3, LoaderFailsDoes DEF TypeInv
    <2>2. Sends
      BY <2>1 DEF SentAs, OnlyRunner
    <2>. QED
      BY <1>1, <1>3, <2>2 DEF LoaderFails
  <1>4. CASE TimerFires(m)
    <2>1. /\ OnlyRunner(m) /\ run'[m].fired # 0
          /\ UNCHANGED <<loaded, comp, expiredCh>>
      <3>1. run'[m].fired = run[m].fired + 1 /\ run[m].fired \in Nat /\ OnlyRunner(m)
        BY <1>4, TimerFiresDoes DEF TypeInv
      <3>2. UNCHANGED <<loaded, comp, expiredCh>>
        BY <1>4 DEF TimerFires, chans
      <3>. QED
        BY <3>1, <3>2
    <2>2. CASE n # m
      <3>1. Expected(n) => Expected(n)'
        BY <2>1 DEF Expected
      <3>. QED
        BY <2>1, <2>2, <3>1, KeepsOthers DEF Tends
    <2>. QED
      BY <2>1, <2>2 DEF Tends, Tended
  <1>5. CASE TimerCallback(m)
    <2>1. Sends
      BY <1>5, TimerCallbackDoes DEF TypeInv
    <2>. QED
      BY <1>1, <1>5, <2>1 DEF TimerCallback
  <1>6. CASE RetryExpired(m)
    <2>1. Sends
      BY <1>6, RetryExpiredDoes DEF TypeInv
    <2>. QED
      BY <1>1, <1>6, <2>1 DEF RetryExpired
  <1>7. CASE BlockedSend(m)
    <2>1. SentAs(m, run[m], run[m].mu) /\ run'[m].mu = "free" /\ run[m].mu \in Senders
      BY <1>7, BlockedSendDoes DEF TypeInv
    <2>2. OnlyRunner(m) /\ \A x : Expected(x)' <=> Expected(x) \/ x = m
      BY <1>0, <2>1 DEF SentAs, OnlyRunner
    <2>3. comp' = comp \/ comp.pc = "sending"
      BY <1>7 DEF BlockedSend, SendingInv
    <2>4. loaded' = loaded
      BY <1>7 DEF BlockedSend
    <2>5. CASE n = m
      <3>1. Expected(n)'
        BY <2>2, <2>5
      <3>. QED
        BY <3>1 DEF Tends, Tended
    <2>6. CASE n # m
      <3>1. Expected(n) => Expected(n)'
        BY <2>2
      <3>. QED
        BY <2>2, <2>3, <2>4, <2>6, <3>1 DEF OnlyRunner, Tends, Keeps, SameCounts, Expiring
    <2>. QED
      BY <2>5, <2>6
  <1>. QED
    BY <1>2, <1>3, <1>4, <1>5, <1>6, <1>7 DEF Loader, Events

LEMMA TendsCompleted ==
  ASSUME TypeInv, IdleInv, ProcessCompleted, NEW n \in Runners
  PROVE  Tends(n)
  <1>0. /\ loaded \in [Keys -> Runners \cup {None}] /\ None \notin Runners
        /\ KeyOf(n) \in Keys /\ run[n].ref \in Nat
    BY ConfigAssumption DEF TypeInv, TypeOK, Request, KeyOf, Runners, Runner
  <1>1. CASE CompTakeFinished \/ CompNotify
    <2>1. UNCHANGED <<run, loaded, expiredCh>> /\ ~Expiring(n)
      BY <1>1 DEF CompTakeFinished, CompNotify, Expiring
    <2>. QED
      BY <2>1 DEF Tends, Keeps, SameCounts, Expected
  <1>2. CASE CompFinish
    <2>1. /\ Counted(comp.run) /\ comp.pc = "finish" /\ loaded' = loaded
          /\ DecRef(run[n].ref) \in Nat
      BY <1>0, <1>2, FinishDoes, ConfigAssumption DEF CompFinish, DecRef
    <2>2. CASE n = comp.run
      <3>1. \/ DecRef(run[n].ref) > 0 \/ run'[n].mu = "completed" \/ run'[n].timer = "armed"
            \/ Expected(n)'
        BY <2>1, <2>2 DEF Counted
      <3>. QED
        BY <2>1, <2>2, <3>1 DEF Counted, Tends, Idle, Tended
    <2>3. CASE n # comp.run
      <3>1. Expected(n) => Expected(n)'
        BY <2>1 DEF Counted, Expected
      <3>. QED
        BY <2>1, <2>3, <3>1 DEF Counted, OnlyRunner, Tends, Keeps, SameCounts, Expiring
    <2>. QED
      BY <2>2, <2>3
  <1>3. CASE CompTakeExpired
    <2>1. UNCHANGED <<run, loaded>> /\ comp.pc = "select" /\ expiredCh # <<>>
          /\ expiredCh' = Tail(expiredCh) /\ comp' = [pc |-> "expire", req |-> None, run |-> Head(expiredCh)]
          /\ expiredCh \in Seq(Runners)
      BY <1>3 DEF CompTakeExpired, TypeInv, TypeOK
    <2>2. Expected(n) => Expected(n)' \/ Expiring(n)'
      BY <2>1, TailHas DEF Expected, Expiring
    <2>3. ~Expiring(n)
      BY <2>1 DEF Expiring
    <2>. QED
      BY <2>1, <2>2, <2>3 DEF Tends, Keeps, SameCounts, Tended
  <1>4. CASE CompRetryLater
    <2>1. /\ run'[comp.run].retrying = run[comp.run].retrying + 1 /\ run[comp.run].retrying \in Nat
          /\ OnlyRunner(comp.run) /\ UNCHANGED <<loaded, expiredCh>>
      BY <1>4, RetryLaterDoes DEF CompRetryLater, chans
    <2>2. CASE n = comp.run
      BY <2>1, <2>2 DEF Tends, Tended
    <2>3. CASE n # comp.run
      BY <2>1, <2>3 DEF OnlyRunner, Tends, Keeps, SameCounts, Expiring, Expected
    <2>. QED
      BY <2>2, <2>3
  <1>5. CASE CompExpire
    <2>1. /\ OnlyRunner(comp.run) /\ expiredCh' = expiredCh
          /\ \/ loaded' = loaded /\ loaded[KeyOf(comp.run)] # comp.run
             \/ /\ loaded[KeyOf(comp.run)] = comp.run
                /\ loaded' = [loaded EXCEPT ![KeyOf(comp.run)] = None]
          /\ comp.run \in Runners
      BY <1>0, <1>5, CompExpireDoes, ConfigAssumption DEF CompExpire, chans, Runners
    <2>2. CASE n = comp.run
      BY <1>0, <2>1, <2>2 DEF Tends
    <2>3. CASE n # comp.run
      <3>1. loaded'[KeyOf(n)] = n => loaded[KeyOf(n)] = n
        BY <1>0, <2>1
      <3>. QED
        BY <2>1, <2>3, <3>1 DEF OnlyRunner, Tends, Keeps, SameCounts, Expiring, Expected
    <2>. QED
      BY <2>2, <2>3
  <1>6. CASE CompRecovered
    <2>1. /\ OnlyRunner(comp.run) /\ UNCHANGED <<loaded, expiredCh>>
          /\ loaded[KeyOf(comp.run)] # comp.run /\ comp.pc = "vram"
      BY <1>6, RecoveredDoes DEF CompRecovered, chans, IdleInv
    <2>2. CASE n = comp.run
      BY <2>1, <2>2 DEF Tends
    <2>3. CASE n # comp.run
      BY <2>1, <2>3 DEF OnlyRunner, Tends, Keeps, SameCounts, Expiring, Expected
    <2>. QED
      BY <2>2, <2>3
  <1>. QED
    BY <1>1, <1>2, <1>3, <1>4, <1>5, <1>6 DEF ProcessCompleted

LEMMA TendsOutside ==
  ASSUME TypeInv, ApiLookup \/ ApiExpire \/ Shutdown \/ UNCHANGED vars, NEW n \in Runners
  PROVE  Tends(n)
  <1>1. CASE ApiExpire
    <2>1. PICK m \in Runners : Expire(m, "api")
      BY <1>1 DEF ApiExpire, TypeInv, TypeOK
    <2>2. Asked(m, "api")
      BY <2>1, ExpireDoes DEF TypeInv, Senders
    <2>. QED
      BY <1>1, <2>2, TendsAsked DEF ApiExpire, Senders
  <1>2. CASE ApiLookup \/ Shutdown \/ UNCHANGED vars
    <2>1. UNCHANGED <<loaded, expiredCh>>
      BY <1>2 DEF ApiLookup, Shutdown, Signal, CloseActive, CloseLoaded, Exit, LoopsStop, vars, chans
    <2>2. comp' = comp \/ comp.pc = "select"
      BY <1>2 DEF ApiLookup, Shutdown, Signal, CloseActive, CloseLoaded, Exit, LoopsStop, vars
    <2>3. SameCounts(n) /\ run'[n].mu = run[n].mu /\ run'[n].timer = run[n].timer
      <3>1. CASE CloseActive \/ CloseLoaded
        BY <3>1, CloseDoes
      <3>2. CASE ~(CloseActive \/ CloseLoaded)
        BY <1>2, <3>2 DEF ApiLookup, Shutdown, Signal, Exit, LoopsStop, vars, SameCounts
      <3>. QED
        BY <3>1, <3>2
    <2>. QED
      BY <2>1, <2>2, <2>3 DEF Tends, Keeps, Expected, Expiring
  <1>. QED
    BY <1>1, <1>2

LEMMA TendsStep ==
  ASSUME TypeInv, LoadingInv, SendingInv, IdleInv, [Next]_vars, NEW n \in Runners
  PROVE  Tends(n)
  <1>1. \A r \in Requests : r \in Runners
    BY DEF Runners
  <1>. QED
    BY <1>1, TendsHandler, TendsPlace, TendsLoad, TendsRoom, TendsLoader, TendsCompleted,
       TendsOutside DEF Next

\* The runner whose memory is awaited is not loaded again.
LEMMA DrainingStep ==
  ASSUME TypeInv, LoadingInv, LineInv, comp.pc = "vram" => loaded[KeyOf(comp.run)] # comp.run,
         [Next]_vars, comp'.pc = "vram"
  PROVE  loaded'[req'[comp'.run].key] # comp'.run
  <1>0. /\ loaded \in [Keys -> Runners \cup {None}] /\ None \notin Runners
        /\ \A q \in Runners : KeyOf(q) \in Keys /\ KeyOf(q)' = KeyOf(q)
        /\ comp \in Comp
    BY KeysNeverChange, ConfigAssumption DEF TypeInv, TypeOK, Request, KeyOf, Runners
  <1>1. CASE CompExpire
    <2>1. /\ comp'.run = comp.run /\ comp.run \in Runners
          /\ loaded' = [loaded EXCEPT ![KeyOf(comp.run)] = None]
      BY <1>1, CompExpireDoes
    <2>2. PICK n \in Runners : n = comp.run
      BY <2>1
    <2>3. loaded'[KeyOf(n)'] = None /\ comp'.run = n
      BY <1>0, <2>1, <2>2
    <2>. QED
      BY <1>0, <2>3 DEF KeyOf
  <1>2. CASE ~CompExpire
    <2>1. comp' = comp
      <3>1. CASE ProcessCompleted
        BY <1>0, <1>2, <3>1, FinishDoes DEF ProcessCompleted, CompTakeFinished, CompTakeExpired,
           CompRetryLater, CompRecovered, CompNotify, CompGoto, CompDone, Comp
      <3>2. CASE Shutdown
        BY <1>0, <3>2 DEF Shutdown, Signal, CloseActive, CloseLoaded, Exit, LoopsStop, CompGoto, Comp
      <3>3. ASSUME NEW n \in Runners, BlockedSend(n) PROVE comp' = comp
        BY <3>3, BlockedSendDoes DEF TypeInv
      <3>4. CASE UNCHANGED comp
        BY <3>4
      <3>. QED
        BY <3>1, <3>2, <3>3, <3>4 DEF Next, Handler, GetRunner, HandlerCheck, HandlerUse,
           HandlerEnqueue, CtxDone, Watch, PendPlace, PendTake, PendUnloaded, PendTop, PendCheck,
           PendUse, PendLoad, PendUpdateFreeSpace, PendNoServer, PendPreflight, PendSpawn,
           PendResume, PendLoadOk, PendLoadTooBig, PendLoadFails, PendLoadFailsNil,
           PendMakeRoom, PendFind, PendScan, PendExpire, PendEvictAll, PendEvict, PendEvictWait,
           Loader, LoaderReady, LoaderFails, Events, TimerFires, TimerCallback, RetryExpired,
           ApiLookup, ApiExpire, vars, Runners
    <2>2. PICK n \in Runners : n = comp.run
      BY <2>1 DEF TypeInv, ControlOK
    <2>3. loaded[KeyOf(n)] # n
      BY <2>1, <2>2
    <2>4. loaded'[KeyOf(n)] # n
      <3>1. CASE PendLoadOk
        <4>1. /\ pend.req \in Requests /\ loaded' = [loaded EXCEPT ![KeyOf(pend.req)] = pend.req]
          BY <3>1, LoadOkDoes DEF PendLoadOk, Runners
        <4>2. PICK q \in Requests : q = pend.req
          BY <4>1
        <4>3. ~Known(q)
          BY <4>2 DEF LineInv, InLine
        <4>4. q # n
          BY <2>2, <4>3 DEF Known, Named
        <4>. QED
          BY <1>0, <2>3, <4>1, <4>2, <4>4
      <3>2. CASE ~PendLoadOk
        <4>1. loaded' = loaded
          BY <1>2, <3>2 DEF Next, Handler, GetRunner, HandlerCheck, HandlerUse,
           HandlerEnqueue, CtxDone, Watch, PendPlace, PendTake, PendUnloaded, PendTop, PendCheck,
           PendUse, PendLoad, PendUpdateFreeSpace, PendNoServer, PendPreflight, PendSpawn,
           PendResume, PendLoadTooBig, PendLoadFails, PendLoadFailsNil,
           PendMakeRoom, PendFind, PendScan, PendExpire, PendEvictAll, PendEvict, PendEvictWait,
           Loader, LoaderReady, LoaderFails, Events, TimerFires, TimerCallback, RetryExpired,
           BlockedSend, ProcessCompleted, CompTakeFinished, CompFinish, CompTakeExpired,
           CompRetryLater, CompRecovered, CompNotify, Shutdown, Signal, CloseActive, CloseLoaded,
           Exit, LoopsStop, ApiLookup, ApiExpire, vars
        <4>. QED
          BY <2>3, <4>1
      <3>. QED
        BY <3>1, <3>2
    <2>. QED
      BY <1>0, <2>1, <2>2, <2>4 DEF KeyOf
  <1>. QED
    BY <1>1, <1>2

LEMMA IdleStep ==
  ASSUME FewRequests, RefInv, IdleInv, [Next]_vars
  PROVE  IdleInv'
  <1>1. TypeInv /\ LoadingInv /\ SendingInv /\ LineInv /\ RefInv'
    BY RefStep DEF RefInv
  <1>2. comp'.pc = "vram" => loaded'[req'[comp'.run].key] # comp'.run
    BY <1>1, DrainingStep DEF IdleInv
  <1>3. \A r \in Requests : KeyOf(r)' = KeyOf(r)
    BY <1>1, KeysNeverChange DEF KeyOf
  <1>4. raced => raced'
    <2>1. raced \in BOOLEAN
      BY <1>1 DEF TypeInv, TypeOK
    <2>. QED
      BY <1>1, <2>1, ReferenceSteps, TakeDoes, FinishLeaves, WatchDoes DEF SameHolds, Grants
  <1>5. ASSUME ~raced', NEW n \in Runners, loaded'[KeyOf(n)'] = n, Idle(n)' PROVE Tended(n)'
    <2>1. Tends(n)
      BY <1>1, TendsStep
    <2>2. loaded'[KeyOf(n)] = n /\ ~raced
      BY <1>3, <1>4, <1>5 DEF Runners
    <2>3. CASE Keeps(n)
      <3>1. loaded[KeyOf(n)] = n /\ Idle(n)
        BY <1>5, <2>2, <2>3 DEF Keeps, SameCounts, Idle
      <3>2. Tended(n)
        BY <2>2, <3>1 DEF IdleInv
      <3>. QED
        BY <2>3, <3>2 DEF Tended, Keeps, SameCounts
    <2>4. ASSUME NEW r \in Requests, Grants(r, n) PROVE Tended(n)'
      <3>1. Holds(r, n)'
        BY <2>4, HoldsNext DEF Grants, Reporting
      <3>2. Holders(n)' \in SUBSET Requests /\ Holders(n)' # {}
        BY <3>1 DEF Holders
      <3>3. Cardinality(Holders(n)') # 0
        BY <3>2, FS_Subset, FS_EmptySet DEF FewRequests
      <3>4. run'[n].ref = Cardinality(Holders(n)')
        BY <1>1, <1>5 DEF RefInv, CountInv
      <3>. QED
        BY <1>5, <3>3, <3>4 DEF Idle
    <2>. QED
      BY <1>5, <2>1, <2>2, <2>3, <2>4 DEF Tends
  <1>. QED
    BY <1>2, <1>5 DEF IdleInv, KeyOf

\* No lost wakeup: a loaded runner that is idle has a timer or an expired event
\* on its way, from whichever goroutine made it idle.
THEOREM IdleRunnersExpire ==
  ASSUME FewRequests
  PROVE  Spec => []IdleRunnerWillExpire
  <1>1. Init => IdleInv
    <2>1. ASSUME Init PROVE IdleInv
      <3>1. \A n \in Runners : loaded[KeyOf(n)] # n
        <4>1. TypeInv /\ None \notin Runners
          BY <2>1, TypeInit, ConfigAssumption DEF Runners
        <4>2. \A n \in Runners : KeyOf(n) \in Keys
          BY <4>1 DEF TypeInv, TypeOK, Request, KeyOf, Runners
        <4>. QED
          BY <2>1, <4>1, <4>2 DEF Init
      <3>. QED
        BY <2>1, <3>1 DEF Init, IdleInv
    <2>. QED
      BY <2>1
  <1>2. RefInv /\ IdleInv => IdleRunnerWillExpire
    <2>1. ASSUME RefInv, IdleInv, ~raced, NEW n \in LoadedRunners, ~Busy(n), Free(n)
          PROVE  run[n].timer = "armed" \/ ExpiryInFlight(n)
      <3>1. n \in Runners /\ loaded[KeyOf(n)] = n
        BY <2>1 DEF RefInv, TypeInv, TypeOK, KeyInv, LoadedRunners
      <3>2. run[n] \in Runner
        BY <2>1, <3>1 DEF RefInv, TypeInv, TypeOK
      <3>3. Tended(n)
        BY <2>1, <3>1, <3>2 DEF IdleInv, Idle, Busy, Free, Runner
      <3>. QED
        BY <3>2, <3>3 DEF Tended, ExpiryInFlight, Expiring, Expected, Has, Runner
    <2>. QED
      BY <2>1 DEF IdleRunnerWillExpire
  <1>3. RefInv /\ IdleInv /\ [Next]_vars => RefInv' /\ IdleInv'
    BY RefStep, IdleStep
  <1>. QED
    BY <1>1, <1>2, <1>3, RefInit, PTL DEF Spec

-----------------------------------------------------------------------------
(* Waits for unload events.                                                *)

Awake(n) == loaded[KeyOf(n)] = n
Announced == unloadedCh + (IF comp.pc \in {"vram", "notify"} THEN 1 ELSE 0)

\* From the choice of a runner to the end of the wait, it is loaded or its
\* event is announced; evictAllAndWait expects no more events than there are
\* announced and runners left.
WaitInv ==
  /\ pend.pc \in {"check", "expire", "sendOne", "wait"} =>
       pend.target \in Runners /\ (Announced > 0 \/ Awake(pend.target))
  /\ pend.pc = "scan" =>
       \/ Announced > 0
       \/ Awake(pend.target) /\ \A i \in 1 .. Len(pend.list) : Awake(pend.list[i])
  /\ pend.pc \in {"evict", "sendMany"} =>
       pend.await <= Announced + Cardinality(LoadedRunners)

\* A step that takes no event: those announced stay, a runner leaves with an
\* announcement.
NewsStays ==
  /\ Announced' >= Announced
  /\ Announced' + Cardinality(LoadedRunners') >= Announced + Cardinality(LoadedRunners)
  /\ \A n \in Runners : Awake(n) => Awake(n)' \/ Announced' > 0

LEMMA AnnouncedType ==
  TypeInv => /\ Announced \in Nat
             /\ IsFiniteSet(LoadedRunners) /\ Cardinality(LoadedRunners) \in Nat
  BY LoadedFinite DEF TypeInv, TypeOK, Announced

LEMMA NewsCompleted ==
  ASSUME TypeInv, [Next]_vars, ProcessCompleted
  PROVE  NewsStays
  <1>0. /\ Announced \in Nat /\ Cardinality(LoadedRunners) \in Nat
        /\ Announced' \in Nat /\ Cardinality(LoadedRunners)' \in Nat
        /\ IsFiniteSet(LoadedRunners)'
        /\ \A n \in Runners : KeyOf(n)' = KeyOf(n)
        /\ loaded \in [Keys -> Runners \cup {None}] /\ unloadedCh \in Nat
        /\ comp \in Comp
    <2>1. TypeInv'
      BY TypeStep
    <2>2. (/\ Announced \in Nat
           /\ IsFiniteSet(LoadedRunners) /\ Cardinality(LoadedRunners) \in Nat)'
      BY <2>1, AnnouncedType, PTL
    <2>. QED
      BY <2>2, AnnouncedType, KeysNeverChange DEF TypeInv, TypeOK, KeyOf, Runners
  <1>1. CASE CompExpire
    <2>1. unloadedCh' = unloadedCh /\ comp.pc = "expire" /\ comp.run \in Runners
      BY <1>1, CompExpireDoes DEF CompExpire, chans
    <2>2. CASE loaded' = loaded
      BY <1>0, <2>1, <2>2 DEF NewsStays, Announced, Awake, LoadedRunners
    <2>3. CASE loaded' # loaded
      <3>1. loaded' = [loaded EXCEPT ![KeyOf(comp.run)] = None] /\ comp'.pc = "vram"
            /\ loaded[KeyOf(comp.run)] = comp.run
        BY <1>1, <2>3, CompExpireDoes
      <3>2. Announced' = unloadedCh + 1 /\ Announced = unloadedCh
        BY <1>0, <2>1, <3>1 DEF Announced
      <3>3. /\ LoadedRunners \in SUBSET (LoadedRunners' \cup {comp.run})
            /\ IsFiniteSet(LoadedRunners)'
        <4>1. ASSUME NEW m \in LoadedRunners, m # comp.run PROVE m \in LoadedRunners'
          <5>1. PICK k \in Keys : loaded[k] = m /\ m # None
            BY <4>1 DEF LoadedRunners
          <5>2. loaded'[k] = m
            BY <1>0, <3>1, <4>1, <5>1
          <5>. QED
            BY <5>1, <5>2 DEF LoadedRunners
        <4>. QED
          BY <1>0, <4>1
      <3>4. Cardinality(LoadedRunners) <= Cardinality(LoadedRunners') + 1
        <4>1. /\ IsFiniteSet(LoadedRunners' \cup {comp.run})
              /\ Cardinality(LoadedRunners' \cup {comp.run}) \in
                   {Cardinality(LoadedRunners'), Cardinality(LoadedRunners') + 1}
          BY <3>3, FS_AddElement
        <4>2. Cardinality(LoadedRunners) <= Cardinality(LoadedRunners' \cup {comp.run})
          BY <3>3, <4>1, FS_Subset
        <4>. QED
          BY <1>0, <4>1, <4>2
      <3>. QED
        BY <1>0, <3>2, <3>4 DEF NewsStays
    <2>. QED
      BY <2>2, <2>3
  <1>2. CASE ~CompExpire
    <2>1. loaded' = loaded
      BY <1>2 DEF ProcessCompleted, CompTakeFinished, CompFinish, CompTakeExpired,
         CompRetryLater, CompRecovered, CompNotify
    <2>2. Announced' >= Announced
      <3>1. CASE CompFinish
        BY <1>0, <3>1, FinishDoes DEF CompFinish, Announced
      <3>2. CASE CompNotify
        BY <1>0, <3>2 DEF CompNotify, CompDone, Announced
      <3>3. CASE CompRecovered
        BY <1>0, <3>3, RecoveredDoes DEF CompRecovered, Announced, chans
      <3>4. CASE CompTakeFinished \/ CompTakeExpired \/ CompRetryLater
        <4>1. comp.pc \notin {"vram", "notify"} /\ unloadedCh' = unloadedCh
          BY <3>4 DEF CompTakeFinished, CompTakeExpired, CompRetryLater, chans
        <4>. QED
          BY <1>0, <4>1 DEF Announced
      <3>. QED
        BY <1>2, <3>1, <3>2, <3>3, <3>4 DEF ProcessCompleted
    <2>. QED
      BY <1>0, <2>1, <2>2 DEF NewsStays, Awake, LoadedRunners
  <1>. QED
    BY <1>1, <1>2

LEMMA NewsElsewhere ==
  ASSUME TypeInv, SendingInv, [Next]_vars, ~PendUnloaded, ~PendEvictWait, ~PendLoadOk
  PROVE  NewsStays
  <1>1. CASE ProcessCompleted
    BY <1>1, NewsCompleted
  <1>2. CASE ~ProcessCompleted
    <2>0. /\ Announced \in Nat /\ Cardinality(LoadedRunners) \in Nat
          /\ \A n \in Runners : KeyOf(n)' = KeyOf(n)
      BY AnnouncedType, KeysNeverChange DEF KeyOf, Runners
    <2>1. UNCHANGED <<loaded, unloadedCh>>
      BY <1>2 DEF Next, Handler, GetRunner, HandlerCheck, HandlerUse,
         HandlerEnqueue, CtxDone, Watch, PendPlace, PendTake, PendTop, PendCheck,
         PendUse, PendLoad, PendUpdateFreeSpace, PendNoServer, PendPreflight, PendSpawn,
         PendResume, PendLoadTooBig, PendLoadFails, PendLoadFailsNil,
         PendMakeRoom, PendFind, PendScan, PendExpire, PendEvictAll, PendEvict,
         Loader, LoaderReady, LoaderFails, Events, TimerFires, TimerCallback, RetryExpired,
         BlockedSend, Shutdown, Signal, CloseActive, CloseLoaded, Exit, LoopsStop,
         ApiLookup, ApiExpire, vars, chans
    <2>2. Announced' = Announced
      <3>1. ASSUME NEW n \in Runners, BlockedSend(n)
            PROVE  comp' = comp \/ (comp.pc = "sending" /\ comp'.pc = "select")
        BY <3>1 DEF BlockedSend, CompDone, SendingInv
      <3>2. CASE Shutdown
        <4>1. comp' = comp \/ (comp.pc = "select" /\ comp'.pc = "stopped")
          BY <3>2 DEF Shutdown, Signal, CloseActive, CloseLoaded, Exit, LoopsStop, CompGoto, TypeInv,
             TypeOK, Comp
        <4>. QED
          BY <2>1, <4>1 DEF Announced
      <3>3. CASE UNCHANGED comp
        BY <2>1, <3>3 DEF Announced
      <3>. QED
        BY <1>2, <2>1, <3>1, <3>2, <3>3 DEF Next, Handler, GetRunner, HandlerCheck, HandlerUse,
         HandlerEnqueue, CtxDone, Watch, PendPlace, PendTake, PendTop, PendCheck,
         PendUse, PendLoad, PendUpdateFreeSpace, PendNoServer, PendPreflight, PendSpawn,
         PendResume, PendLoadTooBig, PendLoadFails, PendLoadFailsNil,
         PendMakeRoom, PendFind, PendScan, PendExpire, PendEvictAll, PendEvict,
         Loader, LoaderReady, LoaderFails, Events, TimerFires, TimerCallback, RetryExpired,
         ApiLookup, ApiExpire, vars, Runners, Announced
    <2>. QED
      BY <2>0, <2>1, <2>2 DEF NewsStays, Awake, LoadedRunners
  <1>. QED
    BY <1>1, <1>2

\* The stages of the pending loop between the choice of a runner and its unload.
OneAwaited == {"check", "expire", "sendOne", "wait"}
ManyAwaited == {"evict", "sendMany"}

\* The pending loop goes on waiting for what it waited for.
WaitGoes ==
  /\ pend'.pc \in OneAwaited => pend.pc \in OneAwaited /\ pend'.target = pend.target
  /\ pend'.pc \in ManyAwaited => pend.pc \in ManyAwaited /\ pend'.await = pend.await
  /\ pend'.pc = "scan" =>
       pend.pc = "scan" /\ pend'.target = pend.target /\ pend'.list = pend.list

LEMMA AnnouncedNext ==
  ASSUME TypeInv, [Next]_vars
  PROVE  /\ Announced' \in Nat /\ Cardinality(LoadedRunners') \in Nat
         /\ \A n \in Runners : KeyOf(n)' = KeyOf(n)
         /\ pend \in Pend /\ pend' \in Pend /\ None \notin Runners
  <1>1. TypeInv'
    BY TypeStep
  <1>2. (/\ Announced \in Nat
         /\ IsFiniteSet(LoadedRunners) /\ Cardinality(LoadedRunners) \in Nat)'
    BY <1>1, AnnouncedType, PTL
  <1>. QED
    BY <1>1, <1>2, KeysNeverChange, ConfigAssumption DEF TypeInv, TypeOK, KeyOf, Runners

LEMMA WaitLasts ==
  ASSUME TypeInv, WaitInv, NewsStays, WaitGoes, [Next]_vars
  PROVE  WaitInv'
  <1>0. /\ Announced \in Nat /\ Cardinality(LoadedRunners) \in Nat
        /\ Announced' \in Nat /\ Cardinality(LoadedRunners') \in Nat
        /\ \A n \in Runners : KeyOf(n)' = KeyOf(n)
        /\ pend \in Pend /\ pend' \in Pend
    BY AnnouncedType, AnnouncedNext
  <1>1. ASSUME pend'.pc \in OneAwaited
        PROVE  pend'.target \in Runners /\ (Announced' > 0 \/ Awake(pend.target)')
    <2>1. PICK n \in Runners : n = pend.target /\ pend'.target = n /\ (Announced > 0 \/ Awake(n))
      BY <1>1 DEF WaitGoes, WaitInv, OneAwaited
    <2>2. Announced' > 0 \/ Awake(n)'
      BY <1>0, <2>1 DEF NewsStays
    <2>. QED
      BY <2>1, <2>2 DEF Awake
  <1>2. ASSUME pend'.pc = "scan", ~(Announced' > 0)
        PROVE  Awake(pend.target)' /\ \A i \in 1 .. Len(pend'.list) : Awake(pend.list[i])'
    <2>1. ~(Announced > 0) /\ pend.pc = "scan" /\ pend'.target = pend.target /\ pend'.list = pend.list
      BY <1>0, <1>2 DEF NewsStays, WaitGoes
    <2>2. pend.target \in Runners /\ pend.list \in Seq(Runners)
      BY <1>0, <2>1 DEF TypeInv, ControlOK, Pend
    <2>3. \A n \in Runners : Awake(n) => Awake(n)'
      BY <1>2 DEF NewsStays
    <2>4. PICK n \in Runners : n = pend.target
      BY <2>2
    <2>5. Awake(n)'
      BY <2>1, <2>3, <2>4 DEF WaitInv
    <2>6. ASSUME NEW i \in 1 .. Len(pend'.list) PROVE Awake(pend.list[i])'
      <3>1. PICK m \in Runners : m = pend.list[i]
        BY <2>1, <2>2
      <3>2. Awake(m)'
        BY <2>1, <2>3, <3>1 DEF WaitInv
      <3>. QED
        BY <2>1, <3>1, <3>2 DEF Awake
    <2>. QED
      BY <2>1, <2>4, <2>5, <2>6 DEF Awake
  <1>3. ASSUME pend'.pc \in ManyAwaited
        PROVE  pend'.await <= Announced' + Cardinality(LoadedRunners')
    <2>1. pend'.await = pend.await /\ pend.await <= Announced + Cardinality(LoadedRunners)
      BY <1>3 DEF WaitGoes, WaitInv, ManyAwaited
    <2>. QED
      BY <1>0, <2>1 DEF NewsStays, Pend
  <1>. QED
    BY <1>1, <1>2, <1>3 DEF WaitInv, OneAwaited, ManyAwaited

LEMMA WaitTop ==
  ASSUME TypeInv, LoadingInv, KeyInv, WaitInv, PendTop, [Next]_vars
  PROVE  WaitInv'
  <1>0. /\ pend \in Pend /\ UNCHANGED <<req, loaded>> /\ pend.req \in Requests /\ None \notin Runners
        /\ loaded \in [Keys -> Runners \cup {None}] /\ KeyOf(pend.req) \in Keys
    BY AnnouncedNext DEF PendTop, TypeInv, TypeOK, ControlOK, KeyOf, Request
  <1>. DEFINE count == Cardinality(LoadedRunners)
              n == loaded[KeyOf(pend.req)]
  <1>1. \/ n # None /\ pend' = [pend EXCEPT !.pc = "check", !.target = n]
        \/ pend' = [pend EXCEPT !.pc = "find"]
        \/ \E toLock \in {LoadedRunners, {}} :
             pend' = [pend EXCEPT !.pc = "fit", !.full = (count > 0), !.todo = toLock]
    BY Zenon DEF PendTop, PendGoto
  <1>2. ASSUME NEW full, NEW toLock,
               pend' = [pend EXCEPT !.pc = "fit", !.full = full, !.todo = toLock]
        PROVE  pend'.pc = "fit"
    BY <1>0, <1>2 DEF Pend
  <1>3. CASE n # None /\ pend' = [pend EXCEPT !.pc = "check", !.target = n]
    <2>1. n \in Runners /\ KeyOf(n) = KeyOf(pend.req)
      BY <1>0, <1>3 DEF KeyInv
    <2>2. PICK m \in Runners : m = n /\ Awake(m)
      BY <2>1 DEF Awake
    <2>3. pend'.pc = "check" /\ pend'.target = m
      BY <1>0, <1>3, <2>2 DEF Pend
    <2>4. Awake(m)'
      BY <1>0, <2>2 DEF Awake, KeyOf
    <2>. QED
      BY <2>2, <2>3, <2>4 DEF WaitInv, Awake
  <1>4. CASE pend' = [pend EXCEPT !.pc = "find"]
    <2>1. pend'.pc = "find"
      BY <1>0, <1>4 DEF Pend
    <2>. QED
      BY <2>1 DEF WaitInv
  <1>5. CASE \E toLock \in {LoadedRunners, {}} :
               pend' = [pend EXCEPT !.pc = "fit", !.full = (count > 0), !.todo = toLock]
    <2>1. pend'.pc = "fit"
      BY <1>2, <1>5, Zenon
    <2>. QED
      BY <2>1 DEF WaitInv
  <1>. QED
    BY <1>1, <1>3, <1>4, <1>5

LEMMA WaitFind ==
  ASSUME TypeInv, KeyInv, WaitInv, PendFind, [Next]_vars
  PROVE  WaitInv'
  <1>0. pend \in Pend /\ UNCHANGED <<req, loaded>>
    BY DEF PendFind, TypeInv, TypeOK
  <1>1. CASE pend' = [pend EXCEPT !.pc = "top"]
    <2>1. pend'.pc = "top"
      BY <1>0, <1>1 DEF Pend
    <2>. QED
      BY <2>1 DEF WaitInv
  <1>2. ASSUME NEW q \in Orders(LoadedRunners), LoadedRunners # {},
               pend' = [pend EXCEPT !.pc = "scan", !.list = q, !.target = q[1]]
        PROVE  WaitInv'
    <2>1. pend'.pc = "scan" /\ pend'.list = q /\ pend'.target = q[1]
      BY <1>0, <1>2 DEF Pend
    <2>2. q \in Seq(LoadedRunners) /\ Len(q) # 0 /\ \A i \in 1 .. Len(q) : q[i] \in LoadedRunners
      <3>1. /\ IsFiniteSet(LoadedRunners) /\ Cardinality(LoadedRunners) \in Nat
            /\ LoadedRunners \subseteq Runners
        BY LoadedFinite DEF TypeInv, TypeOK
      <3>2. Cardinality(LoadedRunners) # 0
        BY <1>2, <3>1, FS_EmptySet
      <3>. QED BY <3>1, <3>2 DEF Orders
    <2>3. \A n \in LoadedRunners : Awake(n)'
      BY <1>0 DEF LoadedRunners, KeyInv, Awake, KeyOf
    <2>4. Len(q) \in Nat /\ q[1] \in LoadedRunners
      BY <2>2
    <2>5. Awake(q[1])' /\ \A i \in 1 .. Len(q) : Awake(q[i])'
      BY <2>2, <2>3, <2>4
    <2>. QED
      BY <2>1, <2>5 DEF WaitInv, Awake
  <1>. QED
    BY <1>1, <1>2 DEF PendFind, PendGoto

LEMMA WaitScan ==
  ASSUME TypeInv, WaitInv, PendScan, [Next]_vars
  PROVE  WaitInv'
  <1>0. /\ pend \in Pend /\ UNCHANGED <<req, loaded, comp, unloadedCh>> /\ pend.pc = "scan"
        /\ pend.target \in Runners /\ pend.list \in Seq(Runners)
    BY DEF PendScan, TypeInv, TypeOK, ControlOK, Pend, chans
  <1>1. /\ Announced' = Announced /\ \A n : Awake(n)' <=> Awake(n)
        /\ Announced > 0 \/ (Awake(pend.target) /\ \A n : Has(pend.list, n) => Awake(n))
    BY <1>0 DEF Announced, Awake, KeyOf, WaitInv, Has
  <1>2. \/ pend'.pc = "expire" /\ pend'.target = pend.target
        \/ pend'.pc = "expire" /\ pend'.target \in Runners /\ Has(pend.list, pend'.target)
        \/ /\ pend'.pc = "scan" /\ pend'.target = pend.target
           /\ \A n : Has(pend'.list, n) => Has(pend.list, n)
    <2>1. CASE pend.list = <<>>
      BY <1>0, <2>1 DEF PendScan, PendGoto, Pend
    <2>2. CASE pend.list # <<>>
      <3>1. /\ Head(pend.list) \in Runners /\ Has(pend.list, Head(pend.list))
            /\ \A n : Has(Tail(pend.list), n) => Has(pend.list, n)
        BY <1>0, <2>2, TailHas
      <3>2. \/ pend' = [pend EXCEPT !.pc = "expire", !.target = Head(pend.list), !.list = <<>>]
            \/ pend' = [pend EXCEPT !.list = Tail(@)]
        BY <2>2 DEF PendScan
      <3>3. \/ pend'.pc = "expire" /\ pend'.target = Head(pend.list)
            \/ pend'.pc = "scan" /\ pend'.target = pend.target /\ pend'.list = Tail(pend.list)
        BY <1>0, <3>2 DEF Pend
      <3>. QED
        BY <3>1, <3>3
    <2>. QED
      BY <2>1, <2>2
  <1>3. CASE pend'.pc = "expire"
    <2>1. PICK n \in Runners : n = pend'.target
      BY <1>0, <1>2, <1>3
    <2>2. Announced' > 0 \/ Awake(n)'
      BY <1>1, <1>2, <1>3, <2>1
    <2>. QED
      BY <1>3, <2>1, <2>2 DEF WaitInv, Awake
  <1>4. CASE pend'.pc = "scan"
    <2>1. pend'.target = pend.target /\ \A n : Has(pend'.list, n) => Has(pend.list, n)
      BY <1>2, <1>4
    <2>2. PICK n \in Runners : n = pend.target
      BY <1>0
    <2>3. Announced' > 0 \/ (Awake(n)' /\ \A m : Has(pend'.list, m) => Awake(m)')
      BY <1>1, <2>1, <2>2
    <2>4. \A i \in 1 .. Len(pend'.list) : Has(pend'.list, pend'.list[i])
      BY DEF Has
    <2>5. Announced' > 0 \/ \A i \in 1 .. Len(pend'.list) : loaded'[req'[pend'.list[i]].key] = pend'.list[i]
      BY <2>3, <2>4 DEF Awake, KeyOf
    <2>. QED
      BY <1>4, <2>1, <2>2, <2>3, <2>5 DEF WaitInv, Awake, KeyOf
  <1>. QED
    BY <1>2, <1>3, <1>4

LEMMA WaitEvictAll ==
  ASSUME TypeInv, WaitInv, PendEvictAll, [Next]_vars
  PROVE  WaitInv'
  <1>. DEFINE others == {loaded[k] : k \in Keys \ {KeyOf(pend.req)}} \ {None}
              count == Cardinality(others)
  <1>0. /\ pend \in Pend /\ UNCHANGED <<req, loaded, comp, unloadedCh>>
        /\ Announced \in Nat /\ IsFiniteSet(LoadedRunners) /\ Cardinality(LoadedRunners) \in Nat
    BY AnnouncedType DEF PendEvictAll, TypeInv, TypeOK, chans
  <1>1. Announced' = Announced /\ LoadedRunners' = LoadedRunners
    BY <1>0 DEF Announced, LoadedRunners
  <1>2. count \in Nat /\ count <= Cardinality(LoadedRunners)
    <2>1. others \in SUBSET LoadedRunners
      BY DEF LoadedRunners
    <2>. HIDE DEF others
    <2>. QED BY <1>0, <2>1, FS_Subset, FS_CardinalityType
  <1>3. pend' = [pend EXCEPT !.pc = IF others = {} THEN "top" ELSE "evict",
                             !.todo = others, !.await = count]
    BY DEF PendEvictAll
  <1>. HIDE DEF others, count
  <1>4. pend'.pc \in {"top", "evict"} /\ pend'.await = count
    BY <1>0, <1>3 DEF Pend
  <1>. QED
    BY <1>0, <1>1, <1>2, <1>4 DEF WaitInv

LEMMA WaitTaken ==
  ASSUME TypeInv, WaitInv, PendUnloaded \/ PendEvictWait \/ PendLoadOk, [Next]_vars
  PROVE  WaitInv'
  <1>0. /\ pend \in Pend /\ Announced \in Nat /\ Cardinality(LoadedRunners) \in Nat
        /\ unloadedCh \in Nat
    BY AnnouncedType DEF TypeInv, TypeOK
  <1>1. CASE PendUnloaded
    <2>1. pend'.pc \in {"select", "top"}
      BY <1>0, <1>1 DEF PendUnloaded, Pend
    <2>. QED
      BY <2>1 DEF WaitInv
  <1>2. CASE PendEvictWait
    <2>1. /\ unloadedCh' = unloadedCh - 1 /\ UNCHANGED <<comp, loaded>> /\ pend.pc = "evict"
          /\ pend'.await = pend.await - 1 /\ pend'.pc \in {"top", "evict"}
      BY <1>0, <1>2 DEF PendEvictWait, Pend
    <2>2. Announced' = Announced - 1 /\ LoadedRunners' = LoadedRunners
      BY <1>0, <2>1 DEF Announced, LoadedRunners
    <2>3. pend.await <= Announced + Cardinality(LoadedRunners) /\ pend.await \in Nat
      BY <1>0, <2>1 DEF WaitInv, Pend
    <2>. QED
      BY <1>0, <2>1, <2>2, <2>3 DEF WaitInv
  <1>3. CASE PendLoadOk
    <2>1. pend'.pc = "select"
      BY <1>0, <1>3 DEF PendLoadOk, PendDone, Pend
    <2>. QED
      BY <2>1 DEF WaitInv
  <1>. QED
    BY <1>1, <1>2, <1>3

LEMMA WaitGoesOn ==
  ASSUME TypeInv, [Next]_vars, ~PendUnloaded, ~PendEvictWait, ~PendLoadOk,
         ~PendTop, ~PendFind, ~PendScan, ~PendEvictAll
  PROVE  WaitGoes
  <1>0. pend \in Pend
    BY DEF TypeInv, TypeOK
  <1>1. CASE pend' = pend
    BY <1>1 DEF WaitGoes
  <1>2. CASE PendTake \/ PendCheck \/ PendUse
    BY <1>0, <1>2 DEF PendTake, PendCheck, PendUse, PendGoto, PendDone, Pend,
       WaitGoes, OneAwaited, ManyAwaited
  <1>3. CASE PendLoad
    <2>1. pend'.pc \in {"fit", "select", "loading", "panic", "top", "evictAll", "find"}
      BY <1>0, <1>3 DEF PendLoad, PendUpdateFreeSpace, PendNoServer, PendPreflight,
       PendSpawn, PendResume, PendLoadTooBig, PendLoadFails, PendLoadFailsNil,
       PendNeedEvict, PendDone, PendGoto, CanLoad, Pend
    <2>. QED
      BY <2>1 DEF WaitGoes, OneAwaited, ManyAwaited
  <1>4. CASE PendExpire
    <2>1. pend'.pc \in {"sendOne", "wait"} /\ pend'.target = pend.target /\ pend.pc = "expire"
      BY <1>0, <1>4 DEF PendExpire, PendGoto, Pend
    <2>. QED
      BY <2>1 DEF WaitGoes, OneAwaited, ManyAwaited
  <1>5. CASE PendEvict
    <2>1. pend'.pc \in {"evict", "sendMany"} /\ pend'.await = pend.await /\ pend.pc = "evict"
      BY <1>0, <1>5 DEF PendEvict, Pend
    <2>. QED
      BY <2>1 DEF WaitGoes, OneAwaited, ManyAwaited
  <1>6. ASSUME NEW n \in Runners, BlockedSend(n) PROVE WaitGoes
    <2>1. run[n].mu = "pending" => pend.pc \in {"sendOne", "sendMany"}
      BY DEF TypeInv, ControlOK
    <2>2. pend'.target = pend.target /\ pend'.await = pend.await
      BY <1>6, BlockedSendDoes DEF TypeInv
    <2>3. \/ pend' = pend
          \/ pend.pc = "sendOne" /\ pend'.pc = "wait"
          \/ pend.pc = "sendMany" /\ pend'.pc = "evict"
      BY <1>6, <2>1, BlockedSendDoes DEF TypeInv
    <2>. QED
      BY <2>2, <2>3 DEF WaitGoes, OneAwaited, ManyAwaited
  <1>7. CASE LoopsStop
    <2>1. pend' = pend \/ pend'.pc = "stopped"
      BY <1>0, <1>7 DEF LoopsStop, PendGoto, Pend
    <2>. QED
      BY <2>1 DEF WaitGoes, OneAwaited, ManyAwaited
  <1>. QED
    BY <1>1, <1>2, <1>3, <1>4, <1>5, <1>6, <1>7
       DEF Next, Handler, GetRunner, HandlerCheck, HandlerUse, HandlerEnqueue, CtxDone, Watch,
           PendPlace, PendMakeRoom, Loader, LoaderReady, LoaderFails, Events, TimerFires,
           TimerCallback, RetryExpired, ProcessCompleted, CompTakeFinished, CompFinish,
           CompTakeExpired, CompRetryLater, CompExpire, CompRecovered, CompNotify, Shutdown,
           Signal, CloseActive, CloseLoaded, Exit, ApiLookup, ApiExpire, vars, Runners

LEMMA WaitStep ==
  ASSUME TypeInv, LoadingInv, SendingInv, KeyInv, WaitInv, [Next]_vars
  PROVE  WaitInv'
  <1>1. CASE PendUnloaded \/ PendEvictWait \/ PendLoadOk
    BY <1>1, WaitTaken
  <1>2. CASE PendTop \/ PendFind \/ PendScan \/ PendEvictAll
    BY <1>2, WaitTop, WaitFind, WaitScan, WaitEvictAll
  <1>. QED
    BY <1>1, <1>2, WaitGoesOn, NewsElsewhere, WaitLasts

\* The pending loop waits for no unload event that nobody will send.
THEOREM WaitsEnd == Spec => []WaitIsJustified
  <1>1. Init => TypeInv /\ LoadingInv /\ SendingInv /\ KeyInv /\ WaitInv
    <2>1. Init => LoadingInv /\ WaitInv
      BY DEF Init, LoadingInv, LoadingIsExclusive, WaitInv
    <2>. QED
      BY <2>1, TypeInit, SendingInit, KeyInit
  <1>2. TypeInv /\ LoadingInv /\ SendingInv /\ KeyInv /\ WaitInv /\ [Next]_vars =>
          (TypeInv /\ LoadingInv /\ SendingInv /\ KeyInv /\ WaitInv)'
    BY TypeStep, LoadingStep, SendingStep, KeyStep, WaitStep
  <1>3. WaitInv => WaitIsJustified
    BY DEF WaitInv, WaitIsJustified, Announced, Awake
  <1>. QED
    BY <1>1, <1>2, <1>3, PTL DEF Spec
=============================================================================
