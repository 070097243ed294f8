------------------------------ MODULE Download ------------------------------
(***************************************************************************)
(* Pulling one blob (ollama/server/download.go and the part of PullModel   *)
(* in images.go that downloads, verifies and installs it).                 *)
(*                                                                         *)
(* Pull calls for one digest share a download: the first creates it,       *)
(* prepares its parts and starts it, the others join it.  Every part has a *)
(* worker that writes its range of the partial file and records in a part  *)
(* file how much of it is there, so that a later download resumes.  The    *)
(* last call that stops waiting cancels the download.                      *)
(*                                                                         *)
(* A call is made at most once and creates at most one download, so a      *)
(* download is named by the call that created it.  Calls are numbered in   *)
(* the order in which they begin.                                          *)
(*                                                                         *)
(* Grain.  A step is a file operation, an operation on the shared map, or  *)
(* the arrival of a block.  Writing a part file takes two steps, since it  *)
(* is truncated before it is written.                                      *)
(***************************************************************************)
EXTENDS Integers, FiniteSets

CONSTANTS
  NumCalls,     \* bound: how many pulls are made
  BlobSize,     \* length of the blob, in blocks
  PartSize,     \* length of every part but the last, in blocks
  MaxRetries,   \* maxRetries of download.go
  MaxFaults,    \* bound: how many faults happen, of whatever kinds
  None, Torn    \* no value; a part file that was truncated and not written

Calls == 1 .. NumCalls
Blocks == 0 .. BlobSize - 1
LastPart == (BlobSize - 1) \div PartSize
Parts == 0 .. LastPart
Content == [Blocks -> {"hole", "good", "bad"}]

ASSUME DownloadAssumption ==
  /\ NumCalls \in Nat /\ BlobSize \in Nat \ {0} /\ PartSize \in Nat \ {0}
  /\ MaxRetries \in Nat \ {0} /\ MaxFaults \in Nat
  /\ {None, Torn} \cap (Int \cup Content) = {} /\ None # Torn

VARIABLES
  call,       \* the pulls: [at, dl, left]
  stage,      \* per download: where its creator or its run goroutine is
  dl,         \* the blobDownloads
  manager,    \* blobDownloadManager: the download of this digest or None
  partial,    \* content of the file <blob>-partial, or None
  partFile,   \* per part: the blocks its part file records, Torn or None
  blob,       \* content of the blob file, or None
  manifest,   \* TRUE iff a manifest that names the blob was written
  faults      \* faults so far: [net, disk, corrupt, crash]

files == <<partial, partFile, blob, manifest>>
vars == <<call, stage, dl, manager, files, faults>>

-----------------------------------------------------------------------------
Offset(p) == p * PartSize
Size(p) == IF Offset(p) + PartSize > BlobSize THEN BlobSize - Offset(p) ELSE PartSize

NoPart ==
  [at |-> "idle",   \* where its worker is
   done |-> 0,      \* part.Completed
   got |-> 0,       \* blocks received by this attempt, not yet in done
   try |-> 0,
   seen |-> FALSE,  \* lastUpdated is set
   then |-> "ok"]   \* what the attempt ends with once its part file is written

NoDownload ==
  [refs |-> 0,             \* references
   cancellable |-> FALSE,  \* CancelFunc is set
   cancelled |-> FALSE,    \* the context of run is cancelled
   failed |-> FALSE,       \* b.err, or the first error of the workers
   parts |-> {},           \* b.Parts
   part |-> [p \in Parts |-> NoPart],
   completed |-> 0,        \* b.Completed
   removed |-> 0]          \* loop variable of the removal of part files

\* Stages in which a download works on the files; the manager then holds it.
Working == {"glob", "head", "parts", "spawned", "direct", "fetch", "remove"}

\* A call that has its answer, or whose process is gone.
Final == {"ok", "error", "lost"}

\* The length of a set of parts, from which Prepare gets b.Total: only the last
\* part may be shorter than the others.
Total(P) ==
  Cardinality(P) * PartSize - (IF LastPart \in P THEN PartSize - Size(LastPart) ELSE 0)

\* The sum of n over the parts: how many blocks they have when part p has n[p].
SumOverParts(n) == Cardinality({x \in Parts \X Blocks : x[2] < n[x[1]]})

Init ==
  /\ call = [c \in Calls |-> [at |-> "idle", dl |-> None, left |-> FALSE]]
  /\ stage = [d \in Calls |-> "none"]
  /\ dl = [d \in Calls |-> NoDownload]
  /\ manager = None
  /\ partial = None /\ blob = None /\ manifest = FALSE
  /\ partFile = [p \in Parts |-> None]
  /\ faults = [net |-> 0, disk |-> 0, corrupt |-> 0, crash |-> 0]

\* A call that stops waiting forgets its download.
Gone(at) == [at |-> at, dl |-> None, left |-> FALSE]
MoveCall(c, at) ==
  call' = [call EXCEPT ![c] = IF at \in {"enter", "wait"} THEN [@ EXCEPT !.at = at]
                              ELSE Gone(at)]

\* The stage of download d becomes at.
Proceed(d, at) == stage' = [stage EXCEPT ![d] = at]

FaultsLeft ==
  faults.net + faults.disk + faults.corrupt + faults.crash < MaxFaults

NetFault == FaultsLeft /\ faults' = [faults EXCEPT !.net = @ + 1]
DiskFault == FaultsLeft /\ faults' = [faults EXCEPT !.disk = @ + 1]
Corruption == FaultsLeft /\ faults' = [faults EXCEPT !.corrupt = @ + 1]

-----------------------------------------------------------------------------
(* The process dies and starts again.  PruneLayers removes files that no   *)
(* manifest names and that are older than an hour; the partial file is the *)
(* youngest of its kind.                                                   *)
Restart ==
  /\ call' = [c \in Calls |->
       IF call[c].at \in Final \cup {"idle"} THEN call[c]
       ELSE Gone("lost")]
  /\ stage' = [d \in Calls |-> "none"]
  /\ dl' = [d \in Calls |-> NoDownload]
  /\ manager' = None
  /\ faults' = [faults EXCEPT !.crash = @ + 1]
  /\ \E old \in SUBSET {p \in Parts : partFile[p] # None} :
       /\ partFile' = [p \in Parts |-> IF p \in old THEN None ELSE partFile[p]]
       /\ \/ partial' = partial
          \/ partial' = None /\ \A p \in Parts : partFile'[p] = None
  /\ \/ blob' = blob
     \/ blob' = None /\ ~manifest
  /\ UNCHANGED manifest

Crash == FaultsLeft /\ Restart

-----------------------------------------------------------------------------
(* downloadBlob.                                                           *)

\* os.Stat: a blob that is there is taken as it is.
Begin(c) ==
  /\ call[c].at = "idle" /\ \A b \in Calls : b < c => call[b].at # "idle"
  /\ MoveCall(c, IF blob # None THEN "install" ELSE "join")
  /\ UNCHANGED <<stage, dl, manager, files, faults>>

\* LoadOrStore.
Join(c) ==
  /\ call[c].at = "join"
  /\ IF manager = None
     THEN /\ manager' = c
          /\ call' = [call EXCEPT ![c] = [@ EXCEPT !.at = "prepare", !.dl = c]]
          /\ Proceed(c, "glob")
     ELSE /\ call' = [call EXCEPT ![c] = [@ EXCEPT !.at = "enter", !.dl = manager]]
          /\ UNCHANGED <<manager, stage>>
  /\ UNCHANGED <<dl, files, faults>>

\* The client disconnects: the context of its call is cancelled.
Leave(c) ==
  /\ call[c].at \in {"prepare", "enter", "wait"} /\ ~call[c].left
  /\ call' = [call EXCEPT ![c].left = TRUE]
  /\ UNCHANGED <<stage, dl, manager, files, faults>>

(* Prepare, run by the creator.                                            *)
PrepareFails(c) ==
  /\ MoveCall(c, "error") /\ Proceed(c, "abandoned") /\ manager' = None
  /\ UNCHANGED dl

Recorded == {p \in Parts : partFile[p] # None}

\* Reads the part files there are.
Glob(c) ==
  /\ stage[c] = "glob"
  /\ IF Recorded = {}
     THEN Proceed(c, "head") /\ UNCHANGED <<call, manager, dl>>
     ELSE IF \E p \in Recorded : partFile[p] = Torn
     THEN PrepareFails(c)
     ELSE /\ Proceed(c, "spawned")
          /\ dl' = [dl EXCEPT ![c] = [@ EXCEPT !.parts = Recorded,
               !.part = [p \in Parts |->
                  IF p \in Recorded THEN [NoPart EXCEPT !.done = partFile[p]]
                                    ELSE NoPart],
               !.completed = SumOverParts([p \in Parts |->
                  IF p \in Recorded THEN partFile[p] ELSE 0])]]
          /\ MoveCall(c, "enter") /\ UNCHANGED manager
  /\ UNCHANGED <<files, faults>>

\* Asks the registry for the size of the blob.
Head(c) ==
  /\ stage[c] = "head"
  /\ \/ Proceed(c, "parts") /\ UNCHANGED <<call, manager, dl, faults>>
     \/ call[c].left /\ PrepareFails(c) /\ UNCHANGED faults
     \/ NetFault /\ PrepareFails(c)
  /\ UNCHANGED files

\* newPart opens the file of the next part, then writes it; after the last one
\* the creator starts run in a goroutine of its own and goes on to wait.
NextPart(c) == Cardinality(dl[c].parts)

CreatePart(c) ==
  /\ stage[c] = "parts"
  /\ LET p == NextPart(c) IN
       /\ partFile[p] = None /\ partFile' = [partFile EXCEPT ![p] = Torn]
  /\ UNCHANGED <<call, stage, dl, manager, partial, blob, manifest, faults>>

EncodePart(c) ==
  /\ stage[c] = "parts"
  /\ LET p == NextPart(c)
         last == dl[c].parts \cup {p} = Parts
     IN
       /\ partFile[p] = Torn /\ partFile' = [partFile EXCEPT ![p] = 0]
       /\ dl' = [dl EXCEPT ![c].parts = @ \cup {p}]
       /\ IF last THEN Proceed(c, "spawned") /\ MoveCall(c, "enter")
                  ELSE UNCHANGED <<stage, call>>
  /\ UNCHANGED <<manager, partial, blob, manifest, faults>>

NewPartFails(c) ==
  /\ stage[c] = "parts" /\ DiskFault /\ PrepareFails(c)
  /\ UNCHANGED files

-----------------------------------------------------------------------------
(* Wait, run by every call that shares the download.                       *)
\* Mutant: the call is not counted.
AcquireUncounted(c) ==
  /\ call[c].at = "enter" /\ MoveCall(c, "wait")
  /\ UNCHANGED <<stage, dl, manager, files, faults>>

Acquire(c) ==
  /\ call[c].at = "enter" /\ MoveCall(c, "wait")
  /\ dl' = [dl EXCEPT ![call[c].dl].refs = @ + 1]
  /\ UNCHANGED <<stage, manager, files, faults>>

\* release: the last call that leaves cancels the context of run, whose
\* CancelFunc is nil until run has begun.
Release(d) ==
  /\ dl[d].refs = 1 => dl[d].cancellable
  /\ dl' = [dl EXCEPT ![d] = [@ EXCEPT !.refs = dl[d].refs - 1,
                      !.cancelled = dl[d].cancelled \/ dl[d].refs = 1]]
  /\ UNCHANGED <<stage, manager, files, faults>>

Answered(c) ==
  LET d == call[c].dl IN
  /\ call[c].at = "wait" /\ stage[d] = "closed" /\ Release(d)
  /\ MoveCall(c, IF dl[d].failed THEN "error" ELSE "verify")

GiveUp(c) ==
  /\ call[c].at = "wait" /\ call[c].left /\ Release(call[c].dl)
  /\ MoveCall(c, "error")

\* A nil CancelFunc is called in a goroutine nobody recovers: the server dies.
Panic(c) ==
  LET d == dl[call[c].dl] IN
  /\ call[c].at = "wait" /\ call[c].left
  /\ d.refs = 1 /\ ~d.cancellable
  /\ Restart

\* The ticker was chosen although the client is gone: nobody receives the
\* progress report, and the call keeps its reference for ever.
ReportToNobody(c) ==
  /\ call[c].at = "wait" /\ call[c].left
  /\ call' = [call EXCEPT ![c].at = "stuck"]
  /\ UNCHANGED <<stage, dl, manager, files, faults>>

-----------------------------------------------------------------------------
(* run.  Its errors are remembered, the map entry goes, then done is       *)
(* closed.                                                                 *)
Return(d, failed) ==
  /\ Proceed(d, "returned")
  /\ dl' = [dl EXCEPT ![d] = [NoDownload EXCEPT !.cancellable = TRUE, !.failed = failed,
                                   !.refs = dl[d].refs, !.cancelled = dl[d].cancelled]]
  /\ manager' = None

\* Sets CancelFunc, opens the partial file and gives it the length of all
\* parts together.  Blocks beyond the end of a file are holes too.
Cut(content, length) ==
  [b \in Blocks |-> IF content # None /\ b < length THEN content[b] ELSE "hole"]

\* Mutant: the entry of the map is deleted at once, not when run returns.
StartForgotten(d) ==
  /\ stage[d] = "spawned"
  /\ Proceed(d, "direct")
  /\ dl' = [dl EXCEPT ![d].cancellable = TRUE]
  /\ partial' = Cut(partial, Total(dl[d].parts))
  /\ manager' = None
  /\ UNCHANGED <<call, partFile, blob, manifest, faults>>

Start(d) ==
  /\ stage[d] = "spawned"
  /\ \/ /\ Proceed(d, "direct")
        /\ dl' = [dl EXCEPT ![d].cancellable = TRUE]
        /\ partial' = Cut(partial, Total(dl[d].parts))
        /\ UNCHANGED <<manager, faults>>
     \/ DiskFault /\ Return(d, TRUE) /\ UNCHANGED partial
  /\ UNCHANGED <<call, partFile, blob, manifest>>

\* Mutant: parts that were begun are taken for complete.
StartUntouched(d) ==
  dl' = [dl EXCEPT ![d].part = [p \in Parts |-> [@[p] EXCEPT !.at =
        IF p \in dl[d].parts /\ dl[d].part[p].done = 0 THEN "get" ELSE "ended"]]]

\* A worker starts for every part that is not complete.  (At most 16 run at a
\* time; with more parts than that the others wait, which is not modelled.)
StartWorkers(d) ==
  dl' = [dl EXCEPT ![d].part = [p \in Parts |-> [@[p] EXCEPT !.at =
        IF p \in dl[d].parts /\ dl[d].part[p].done # Size(p)
        THEN "get" ELSE "ended"]]]

\* The request for the direct URL is repeated for 30 seconds at most.
Direct(d) ==
  /\ stage[d] = "direct"
  /\ \/ /\ Proceed(d, "fetch") /\ StartWorkers(d)
        /\ UNCHANGED <<manager, faults>>
     \/ dl[d].cancelled /\ Return(d, TRUE) /\ UNCHANGED faults
     \/ NetFault /\ Return(d, TRUE)
  /\ UNCHANGED <<call, files>>

\* Mutant: done is closed only if there was no error.
CloseIfSuccessful(d) ==
  /\ stage[d] = "returned" /\ ~dl[d].failed /\ Proceed(d, "closed")
  /\ UNCHANGED <<call, dl, manager, files, faults>>

Close(d) ==
  /\ stage[d] = "returned" /\ Proceed(d, "closed")
  /\ UNCHANGED <<call, dl, manager, files, faults>>

-----------------------------------------------------------------------------
(* The workers: downloadChunk and the retries around it.                   *)

\* Part p of d becomes w; b.Completed changes by n; the first worker that
\* fails cancels the others.
Update(d, p, w, n) ==
  /\ dl' = [dl EXCEPT ![d] = [@ EXCEPT !.part[p] = w, !.completed = dl[d].completed + n,
                      !.failed = dl[d].failed \/ w.at = "failed"]]
  /\ UNCHANGED <<call, stage, manager>>

Stopped(d) == dl[d].cancelled \/ dl[d].failed

Ended(w, at) == [NoPart EXCEPT !.done = w.done, !.at = at]

Retry(w) ==
  IF w.try + 1 = MaxRetries THEN Ended(w, "failed")
  ELSE [w EXCEPT !.at = "get", !.try = @ + 1, !.then = "ok"]

\* What was received counts, and the part file is written before the attempt
\* ends.
Save(w, then) ==
  [w EXCEPT !.at = "save", !.done = @ + w.got, !.got = 0, !.then = then]

\* What was received is not counted.
Rollback(w) == [w EXCEPT !.got = 0]

\* Mutant: the writer starts at the beginning of the part.
StartsAtOffset(w, p) == Offset(p)

StartsAt(w, p) == Offset(p) + w.done

Fetching(d, p, at) == stage[d] = "fetch" /\ dl[d].part[p].at = at

Receive(d, p) ==
  LET w == dl[d].part[p] IN
  /\ Fetching(d, p, "get") /\ w.got < Size(p) - w.done
  /\ Update(d, p, [w EXCEPT !.got = @ + 1, !.seen = TRUE], 1)
  /\ \/ /\ partial' = [partial EXCEPT ![StartsAt(w, p) + w.got] = "good"]
        /\ UNCHANGED faults
     \/ /\ Corruption
        /\ partial' = [partial EXCEPT ![StartsAt(w, p) + w.got] = "bad"]
  /\ UNCHANGED <<partFile, blob, manifest>>

AllReceived(d, p) ==
  LET w == dl[d].part[p] IN
  /\ Fetching(d, p, "get") /\ w.got = Size(p) - w.done
  /\ Update(d, p, Save(w, "ok"), 0)
  /\ UNCHANGED <<files, faults>>

\* Mutant: b.Completed keeps what the part does not.
BreakWithoutRollback(d, p) ==
  LET w == dl[d].part[p] IN
  /\ Fetching(d, p, "get") /\ NetFault
  /\ \/ Update(d, p, Save(w, "retry"), 0)
     \/ Update(d, p, Retry(Rollback(w)), 0)
  /\ UNCHANGED files

\* The connection breaks: with an unexpected EOF what came is kept, with any
\* other error it is not.
Break(d, p) ==
  LET w == dl[d].part[p] IN
  /\ Fetching(d, p, "get") /\ NetFault
  /\ \/ Update(d, p, Save(w, "retry"), 0)
     \/ Update(d, p, Retry(Rollback(w)), -w.got)
  /\ UNCHANGED files

\* The partial file cannot be written; a full device ends the worker.  The block
\* whose write fails has been read, hence counted and seen; CopyN returns how
\* much was written, and no more than that is taken back.
WriteFails(d, p) ==
  LET w == dl[d].part[p] IN
  /\ Fetching(d, p, "get") /\ w.got < Size(p) - w.done /\ DiskFault
  /\ \/ Update(d, p, Retry(Rollback([w EXCEPT !.seen = TRUE])), 1 - w.got)
     \/ Update(d, p, Ended(w, "failed"), 1 - w.got)
  /\ UNCHANGED files

\* The connection stays open and nothing comes any more.
FallSilent(d, p) ==
  LET w == dl[d].part[p] IN
  /\ Fetching(d, p, "get") /\ NetFault
  /\ Update(d, p, [w EXCEPT !.at = "silent"], 0)
  /\ UNCHANGED files

\* 30 seconds after the last byte; a connection that never brought one is not
\* watched.
Watchdog(d, p) ==
  LET w == dl[d].part[p] IN
  /\ Fetching(d, p, "silent") /\ w.seen
  /\ Update(d, p, [Save(w, "stall") EXCEPT !.seen = FALSE], 0)
  /\ UNCHANGED <<files, faults>>

\* The context is cancelled, before or after the response came.
Stop(d, p) ==
  LET w == dl[d].part[p] IN
  /\ Stopped(d) /\ (Fetching(d, p, "get") \/ Fetching(d, p, "silent"))
  /\ \/ Update(d, p, Save(w, "cancel"), 0)
     \/ w.got = 0 /\ Update(d, p, Ended(w, "failed"), 0)
  /\ UNCHANGED <<files, faults>>

\* How the attempt ends.
Outcome(w) ==
  CASE w.then = "ok" -> Ended(w, "ended")
    [] w.then = "cancel" -> Ended(w, "failed")
    [] w.then = "retry" -> Retry(w)
    [] w.then = "stall" -> [w EXCEPT !.at = "get", !.then = "ok"]

\* writePart.
OpenPartFile(d, p) ==
  /\ Fetching(d, p, "save")
  /\ Update(d, p, [dl[d].part[p] EXCEPT !.at = "encode"], 0)
  /\ partFile' = [partFile EXCEPT ![p] = Torn]
  /\ UNCHANGED <<partial, blob, manifest, faults>>

WritePartFile(d, p) ==
  LET w == dl[d].part[p] IN
  /\ Fetching(d, p, "encode")
  /\ Update(d, p, Outcome(w), 0)
  /\ partFile' = [partFile EXCEPT ![p] = w.done]
  /\ UNCHANGED <<partial, blob, manifest, faults>>

WritePartFails(d, p) ==
  LET w == dl[d].part[p] IN
  /\ (Fetching(d, p, "save") \/ Fetching(d, p, "encode")) /\ DiskFault
  /\ IF w.then = "stall" THEN Update(d, p, Outcome(w), 0)
     ELSE \/ Update(d, p, Retry(w), 0)
          \/ Update(d, p, Ended(w, "failed"), 0)
  /\ UNCHANGED files

\* g.Wait returns.
AllEnded(d) ==
  /\ stage[d] = "fetch"
  /\ \A p \in Parts : dl[d].part[p].at \in {"ended", "failed"}
  /\ IF dl[d].failed THEN Return(d, TRUE)
     ELSE Proceed(d, "remove") /\ UNCHANGED <<dl, manager>>
  /\ UNCHANGED <<call, files, faults>>

\* The part files are removed by position, the blob file appears last.
RemovePartFile(d) ==
  LET i == dl[d].removed IN
  /\ stage[d] = "remove" /\ i < Cardinality(dl[d].parts)
  /\ \/ /\ partFile[i] # None
        /\ partFile' = [partFile EXCEPT ![i] = None]
        /\ dl' = [dl EXCEPT ![d].removed = @ + 1]
        /\ UNCHANGED <<stage, manager, faults>>
     \/ partFile[i] = None /\ Return(d, TRUE) /\ UNCHANGED <<partFile, faults>>
     \/ DiskFault /\ Return(d, TRUE) /\ UNCHANGED partFile
  /\ UNCHANGED <<call, partial, blob, manifest>>

Rename(d) ==
  /\ stage[d] = "remove" /\ dl[d].removed = Cardinality(dl[d].parts)
  /\ \/ blob' = partial /\ partial' = None /\ Return(d, FALSE) /\ UNCHANGED faults
     \/ DiskFault /\ Return(d, TRUE) /\ UNCHANGED <<blob, partial>>
  /\ UNCHANGED <<call, partFile, manifest>>

-----------------------------------------------------------------------------
(* The rest of PullModel: what was downloaded is verified and, if it is    *)
(* not what the digest says, removed in a second step.                     *)
Verify(c) ==
  /\ call[c].at = "verify"
  /\ MoveCall(c, IF blob = None THEN "error"
                 ELSE IF \A b \in Blocks : blob[b] = "good" THEN "install"
                 ELSE "mismatch")
  /\ UNCHANGED <<stage, dl, manager, files, faults>>

RemoveMismatch(c) ==
  /\ call[c].at = "mismatch" /\ MoveCall(c, "error")
  /\ blob' = None
  /\ UNCHANGED <<stage, dl, manager, partial, partFile, manifest, faults>>

Install(c) ==
  /\ call[c].at = "install" /\ MoveCall(c, "ok")
  /\ manifest' = TRUE
  /\ UNCHANGED <<stage, dl, manager, partial, partFile, blob, faults>>

-----------------------------------------------------------------------------
Prepare(c) ==
  Glob(c) \/ Head(c) \/ CreatePart(c) \/ EncodePart(c) \/ NewPartFails(c)

Pull(c) ==
  \/ Join(c) \/ Prepare(c) \/ Acquire(c)
  \/ Answered(c) \/ GiveUp(c) \/ Panic(c) \/ ReportToNobody(c)
  \/ Verify(c) \/ RemoveMismatch(c) \/ Install(c)

Run(d) ==
  \/ Start(d) \/ Direct(d) \/ AllEnded(d)
  \/ RemovePartFile(d) \/ Rename(d) \/ Close(d)

Work(d, p) ==
  \/ Receive(d, p) \/ AllReceived(d, p) \/ Watchdog(d, p) \/ Stop(d, p)
  \/ OpenPartFile(d, p) \/ WritePartFile(d, p)

Trouble(d, p) ==
  Break(d, p) \/ WriteFails(d, p) \/ FallSilent(d, p) \/ WritePartFails(d, p)

Next ==
  \/ Crash
  \/ \E c \in Calls : Begin(c) \/ Leave(c) \/ Pull(c) \/ Run(c)
  \/ \E d \in Calls, p \in Parts : Work(d, p) \/ Trouble(d, p)

\* Every goroutine goes on when it can.  Nothing makes a client call, leave,
\* or the network, the disk or the process fail.
Fairness ==
  /\ \A c \in Calls : WF_vars(Pull(c)) /\ WF_vars(Run(c))
  /\ \A d \in Calls, p \in Parts : WF_vars(Work(d, p))

Spec == Init /\ [][Next]_vars /\ Fairness

=============================================================================
