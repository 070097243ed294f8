----------------------------- MODULE TensorPush -----------------------------
(* Uploads of blobs and then of the manifest by package x/transfer           *)
(* (upload.go), for the pushes of models with tensor layers.  The blobs are  *)
(* there, and whole; the registry is another program.                        *)
EXTENDS Transfer

CONSTANTS MaxInitRetries, MaxPartRetries

ASSUME PushAssumption == MaxInitRetries \in Nat /\ MaxPartRetries \in 1 .. MaxRetries

VARIABLES
  send,     \* what the tasks of pushes keep beside their progress
  registry, \* the blobs it has recorded, the pushes whose manifest it took
  marked    \* not in the code: blobs taken for recorded though they were not,
            \* and the pushes whose transport read on after a failure

pushVars == <<send, registry, marked>>

\* inits, tries: attempts to announce the blob, and to send a part or to commit;
\* told: an attempt to announce it has left an error; landed: units of the body
\* that the storage has got; part: which one is sent, 0 for the whole blob.
NewSend == [inits |-> 0, tries |-> 0, told |-> FALSE, landed |-> 0, part |-> 0]

PushInit ==
  /\ send = [w \in Tasks |-> NewSend]
  /\ \E stored \in SUBSET UNION {job[j].layers : j \in {i \in Jobs : job[i].kind = "push"}} :
       registry = [stored |-> stored, manifests |-> {}]
  /\ marked = [presumed |-> {}, readOn |-> {}]

-----------------------------------------------------------------------------
(* A push asks which blobs the registry has, sends the others, and ends      *)

Upload(j) ==
  /\ job[j].kind = "push" /\ job[j].phase \in {"idle", "failed"}
  /\ job' = [job EXCEPT ![j] = [@ EXCEPT !.phase = "checking", !.cancelled = FALSE,
                        !.already = 0, !.completed = 0]]
  /\ task' = [w \in Tasks |-> IF w \in TasksOf(j) THEN [NewTask EXCEPT !.pc = "head"] ELSE task[w]]
  /\ send' = [w \in Tasks |-> IF w \in TasksOf(j) THEN NewSend ELSE send[w]]
  /\ UNCHANGED <<registry, marked, faults>>

\* A blob of which the registry answers anything else than 200 is to be sent.
Exists(w) ==
  /\ At(w, "head")
  /\ \/ Unauthorized(w, "head")
     \/ Authorized(w) /\ Goto(w, IF w[2] \in registry.stored THEN "checked" ELSE "queued")
  /\ UNCHANGED <<job, pushVars, faults>>

\* Mutant for PushedIsComplete: only a blob that is said to be missing is sent.
ExistsUnlessMissing(w) ==
  At(w, "head") /\ Fault /\ Goto(w, "checked") /\ UNCHANGED <<job, pushVars>>

ExistsUnknown(w) == At(w, "head") /\ Fault /\ Goto(w, "queued") /\ UNCHANGED <<job, pushVars>>

\* The first request that fails fails the push, without another attempt.
HeadFails(w) ==
  /\ \/ At(w, "head")
     \/ At(w, "getToken") /\ task[w].back = "head"
  /\ task' = [task EXCEPT ![w] = Failed(w, "error")]
  /\ job' = [job EXCEPT ![w[1]] = Cancelled(w[1])]
  /\ UNCHANGED pushVars

ExistsFails(w) == Fault /\ HeadFails(w)
ExistsCancelled(w) == job[w[1]].cancelled /\ Right /\ HeadFails(w)

\* Blobs that are there count as sent.
StartUploads(j) ==
  LET failed == \E w \in TasksOf(j) : task[w].err # "none"
      already == Cardinality({w \in TasksOf(j) : At(w, "checked")}) * Size
  IN
  /\ job[j].kind = "push" /\ job[j].phase = "checking"
  /\ \A w \in TasksOf(j) : task[w].pc \in {"checked", "queued", "ended"}
  /\ job' = [job EXCEPT ![j] = [@ EXCEPT !.phase = IF failed THEN "failed" ELSE "running",
                        !.already = already, !.completed = already]]
  /\ UNCHANGED <<task, pushVars, faults>>

UploadsEnd(j) ==
  /\ job[j].kind = "push" /\ job[j].phase = "running"
  /\ \A w \in TasksOf(j) : task[w].pc \in {"checked", "ended"}
  /\ job' = [job EXCEPT ![j].phase =
               IF \E w \in TasksOf(j) : task[w].err # "none" THEN "failed" ELSE "manifest"]
  /\ UNCHANGED <<task, pushVars, faults>>

\* With a token that is refused, another one and the next request.
PushManifest(j) ==
  /\ job[j].kind = "push" /\ job[j].phase = "manifest"
  /\ \/ /\ ~ job[j].cancelled /\ job[j].token >= job[j].valid /\ Right
        /\ job' = [job EXCEPT ![j].phase = "ok"]
        /\ registry' = [registry EXCEPT !.manifests = @ \cup {j}]
     \/ /\ ~ job[j].cancelled /\ job[j].token < job[j].valid /\ Right
        /\ job' = [job EXCEPT ![j].token = @ + 1] /\ UNCHANGED registry
     \/ /\ IF job[j].cancelled THEN Right ELSE Fault
        /\ job' = [job EXCEPT ![j].phase = "failed"] /\ UNCHANGED registry
  /\ UNCHANGED <<task, send, marked>>

-----------------------------------------------------------------------------
(* One blob: upload, uploadOnce                                              *)

\* An attempt ends with an error: what it reported is in n, or is taken back at
\* once if it was sent in parts.
FailsWith(w, err, late) ==
  LET reported == IF send[w].part = 0 THEN task[w].n ELSE 0 IN
  /\ task' = [task EXCEPT ![w] = [@ EXCEPT !.pc = "settle", !.err = err, !.slot = FALSE,
                          !.n = reported]]
  /\ Add(w[1], reported - task[w].n + late)

Fails(w, err) == FailsWith(w, err, 0)

\* The transport may read on when a request has been answered: a unit is reported
\* of which nobody who takes anything back knows.
ReadsOn(w, late) == marked' = IF late = 0 THEN marked ELSE [marked EXCEPT !.readOn = @ \cup {w[1]}]

CancelUpload(w) ==
  /\ \/ task[w].pc \in {"init", "hold", "put", "commit", "patch", "cdn", "finalize"}
     \/ At(w, "getToken") /\ task[w].back # "head"
  /\ job[w[1]].cancelled /\ Fails(w, "cancelled")
  /\ UNCHANGED <<pushVars, faults>>

\* A cancelled upload takes nothing back; any other error is retried.
RetryUpload(w) ==
  LET cancelled == task[w].err = "cancelled"
      attempt == task[w].attempt + 1
      over == cancelled \/ attempt >= MaxRetries
  IN  /\ At(w, "settle")
      /\ job' = [job EXCEPT ![w[1]] = [@ EXCEPT !.completed = IF cancelled THEN job[w[1]].completed ELSE job[w[1]].completed - task[w].n,
                            !.cancelled = job[w[1]].cancelled \/ over]]
      /\ task' = [task EXCEPT ![w] =
                    IF over THEN [Failed(w, task[w].err) EXCEPT !.n = 0]
                    ELSE [@ EXCEPT !.pc = "backoff", !.attempt = attempt, !.n = 0, !.err = "none"]]
      /\ send' = [send EXCEPT ![w] = NewSend] /\ UNCHANGED <<registry, marked, faults>>

\* The whole blob is reported at once.
Credit(w) ==
  /\ task' = [task EXCEPT ![w] = [@ EXCEPT !.pc = "ended", !.n = Size]] /\ Add(w[1], Size)

\* initUpload: 401 and a new token, 201 if the blob is recorded, 202 with the
\* address of the storage or without.
InitUpload(w) ==
  /\ At(w, "init") /\ send[w].inits < MaxInitRetries
  /\ \/ Unauthorized(w, "init") /\ send' = [send EXCEPT ![w].inits = @ + 1] /\ UNCHANGED job
     \/ Authorized(w) /\ w[2] \in registry.stored /\ Credit(w) /\ UNCHANGED send
     \/ /\ Authorized(w) /\ w[2] \notin registry.stored /\ Goto(w, "hold")
        /\ \E part \in {0, 1} : send' = [send EXCEPT ![w] = [NewSend EXCEPT !.part = part]]
        /\ UNCHANGED job
  /\ UNCHANGED <<registry, marked, faults>>

InitFails(w) ==
  /\ At(w, "init") /\ send[w].inits < MaxInitRetries /\ Fault
  /\ send' = [send EXCEPT ![w] = [@ EXCEPT !.inits = send[w].inits + 1, !.told = TRUE]]
  /\ UNCHANGED <<job, task, registry, marked>>

\* No attempt left: an error - unless every attempt was answered with 401, which
\* leaves none, and the blob is taken for recorded.
InitGivesUp(w) ==
  /\ At(w, "init") /\ send[w].inits = MaxInitRetries
  /\ IF send[w].told THEN Fails(w, "error") /\ UNCHANGED marked
     ELSE Credit(w) /\ marked' = [marked EXCEPT !.presumed = @ \cup ({w[2]} \ registry.stored)]
  /\ UNCHANGED <<send, registry, faults>>

\* No token: one part is tried again, anything else fails the attempt.
TokenFails(w) ==
  /\ At(w, "getToken") /\ task[w].back # "head" /\ Fault
  /\ IF task[w].back = "part" THEN Goto(w, "part") /\ UNCHANGED job ELSE Fails(w, "error")
  /\ UNCHANGED pushVars

-----------------------------------------------------------------------------
(* The body goes to the storage in one piece, then the registry is told      *)

Put(w) ==
  /\ At(w, "put") /\ task[w].n < Size
  /\ task' = [task EXCEPT ![w].n = @ + 1] /\ Add(w[1], 1)
  /\ UNCHANGED <<pushVars, faults>>

PutEnds(w) ==
  /\ At(w, "put") /\ task[w].n = Size
  /\ task' = [task EXCEPT ![w] = [@ EXCEPT !.pc = "commit", !.slot = FALSE]]
  /\ send' = [send EXCEPT ![w].landed = Size]
  /\ UNCHANGED <<job, registry, marked, faults>>

PutFails(w) ==
  /\ At(w, "put") /\ Fault
  /\ \E late \in 0 .. 1 :
       task[w].n + late <= Size /\ FailsWith(w, "error", late) /\ ReadsOn(w, late)
  /\ UNCHANGED <<send, registry>>

Complete(w) == send[w].landed = Size
Record(w) == registry' = [registry EXCEPT !.stored = IF Complete(w) THEN @ \cup {w[2]} ELSE @]

\* bodylessRegistryPUT, for both ways.
Commit(w) ==
  /\ task[w].pc \in {"commit", "finalize"} /\ send[w].tries < MaxRetries
  /\ \/ /\ Authorized(w) /\ Record(w) /\ UNCHANGED send
        /\ task' = [task EXCEPT ![w] = [@ EXCEPT !.pc = "ended", !.n = Size]]
     \/ Unauthorized(w, task[w].pc) /\ send' = [send EXCEPT ![w].tries = @ + 1] /\ UNCHANGED registry
  /\ UNCHANGED <<job, marked, faults>>

\* The answer may be lost when the blob is recorded.
CommitFails(w) ==
  /\ task[w].pc \in {"commit", "finalize"} /\ send[w].tries < MaxRetries /\ Fault
  /\ send' = [send EXCEPT ![w].tries = @ + 1]
  /\ Record(w) \/ UNCHANGED registry
  /\ UNCHANGED <<job, task, marked>>

CommitGivesUp(w) ==
  /\ task[w].pc \in {"commit", "finalize"} /\ send[w].tries = MaxRetries
  /\ Fails(w, "error") /\ UNCHANGED <<pushVars, faults>>

-----------------------------------------------------------------------------
(* ... or in parts, of one unit each, which the registry may redirect        *)

\* What is reported of the part that is being sent.
OfPart(w) == task[w].n - (send[w].part - 1)

Patch(w) ==
  /\ task[w].pc \in {"patch", "cdn"} /\ OfPart(w) = 0
  /\ task' = [task EXCEPT ![w].n = @ + 1] /\ Add(w[1], 1)
  /\ UNCHANGED <<pushVars, faults>>

PartEnds(w) ==
  /\ task[w].pc \in {"patch", "cdn"} /\ OfPart(w) = 1
  /\ At(w, "patch") => Authorized(w)
  /\ send' = [send EXCEPT ![w] = [@ EXCEPT !.landed = send[w].part,
                          !.part = send[w].part + 1, !.tries = 0]]
  /\ task' = [task EXCEPT ![w] = [@ EXCEPT !.slot = FALSE,
                          !.pc = IF send[w].part = Size THEN "finalize" ELSE "hold"]]
  /\ UNCHANGED <<job, registry, marked, faults>>

\* 307: what the registry took counts for nothing, the storage gets the part.
Redirected(w) ==
  /\ At(w, "patch") /\ Authorized(w)
  /\ task' = [task EXCEPT ![w] = [@ EXCEPT !.pc = "cdn", !.n = send[w].part - 1]]
  /\ \E late \in 0 .. 1 - OfPart(w) : Add(w[1], late - OfPart(w)) /\ ReadsOn(w, late)
  /\ UNCHANGED <<send, registry, faults>>

PartRefused(w) ==
  /\ At(w, "patch") /\ Unauthorized(w, "part") /\ UNCHANGED <<job, pushVars, faults>>

\* The part is tried again, or the attempt fails.
RetryPart(w) ==
  /\ At(w, "part")
  /\ IF send[w].tries + 1 = MaxPartRetries THEN Fails(w, "error") /\ UNCHANGED send
     ELSE /\ send' = [send EXCEPT ![w].tries = @ + 1]
          /\ task' = [task EXCEPT ![w] = [@ EXCEPT !.pc = "hold", !.slot = FALSE,
                                  !.n = send[w].part - 1]]
          /\ Add(w[1], - OfPart(w))
  /\ UNCHANGED <<registry, marked, faults>>

PartFails(w) ==
  /\ task[w].pc \in {"patch", "cdn"} /\ Fault /\ Goto(w, "part")
  /\ \E late \in 0 .. 1 - OfPart(w) : Add(w[1], late) /\ ReadsOn(w, late)
  /\ UNCHANGED <<send, registry>>

-----------------------------------------------------------------------------

\* A restart of the server ends its pushes; the registry goes on.
PushRestart == send' = [w \in Tasks |-> NewSend] /\ UNCHANGED <<registry, marked>>

Announces(w) ==
  \/ job[w[1]].phase = "running" /\ (SemAcquire(w, "init") \/ SemCancelled(w))
  \/ RefreshToken(w) \/ GetToken(w) \/ BackedOff(w, "init") \/ BackoffCancelled(w)
  \/ HoldBody(w, "hold", IF send[w].part = 0 THEN "put" ELSE "patch")

PushStep(w) ==
  \/ Announces(w) /\ UNCHANGED pushVars
  \/ Exists(w) \/ ExistsCancelled(w) \/ CancelUpload(w) \/ RetryUpload(w)
  \/ InitUpload(w) \/ InitGivesUp(w) \/ Put(w) \/ PutEnds(w) \/ Commit(w) \/ CommitGivesUp(w)
  \/ Patch(w) \/ PartEnds(w) \/ Redirected(w) \/ PartRefused(w) \/ RetryPart(w)

PushFault(w) ==
  \/ ExistsUnknown(w) \/ ExistsFails(w) \/ InitFails(w) \/ TokenFails(w) \/ PutFails(w)
  \/ CommitFails(w) \/ PartFails(w)

PushTasks == {w \in Tasks : job[w[1]].kind = "push"}

PushNext ==
  \/ \E j \in Jobs : Upload(j) \/ StartUploads(j) \/ UploadsEnd(j) \/ PushManifest(j)
  \/ \E w \in PushTasks : PushStep(w) \/ PushFault(w)

=============================================================================
