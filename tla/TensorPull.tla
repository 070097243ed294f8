----------------------------- MODULE TensorPull -----------------------------
(* Downloads of blobs by package x/transfer (download.go), for the pulls of  *)
(* models with tensor layers (pullWithTransfer in server/images.go).  Pulls  *)
(* share the directory of blobs, and nothing else.                           *)
EXTENDS Transfer, Sequences

CONSTANTS
  Large,       \* blobs whose partial files are kept and continued
  SlowRetries, \* slow attempts after which they count
  None

VARIABLES
  fetch,     \* what the tasks of pulls keep beside their progress
  disk,      \* the files of each blob: its temporary one and the finished one
  installed, \* the pulls whose manifest is written
  noted      \* not in the code: blobs of which a write was lost, and blobs that
             \* two pulls fetched at a time

pullVars == <<fetch, disk, installed, noted>>

\* A file is what its units are: right for their place, or not.
File == {None} \cup Seq(BOOLEAN)
Whole == [i \in 1 .. Size |-> TRUE]

\* from: units found in the temporary file; base: where the body begins; off: the
\* offset in the file; clean: the hash is right so far; fd: the file that is
\* open, by its present name; cause: why the watchdog cancelled.
NewFetch == [from |-> 0, base |-> 0, off |-> 0, clean |-> TRUE, fd |-> "none",
             cause |-> "none", silent |-> FALSE, slow |-> 0]

PullInit ==
  /\ fetch = [w \in Tasks |-> NewFetch]
  /\ disk = [b \in Blobs |-> [tmp |-> None, blob |-> None]]
  /\ installed = {} /\ noted = [lost |-> {}, shared |-> {}]

\* What becomes of open files when names are removed and replaced.
Renamed(b, f, name) ==
  [v \in Tasks |-> IF v[2] = b /\ f[v].fd \in DOMAIN name THEN [f[v] EXCEPT !.fd = name[@]] ELSE f[v]]
Unlinked == [tmp |-> "gone"]
Moved == [tmp |-> "blob", blob |-> "gone"]

RemoveTmp(b, f) ==
  /\ disk' = [disk EXCEPT ![b].tmp = None]
  /\ fetch' = Renamed(b, f, IF disk[b].tmp = None THEN <<>> ELSE Unlinked)

\* One unit written to an open file, behind a hole if the file was cut.
WrittenAt(file, off, unit) ==
  [i \in 1 .. (IF Len(file) > off THEN Len(file) ELSE off + 1) |->
     IF i = off + 1 THEN unit ELSE IF i <= Len(file) THEN file[i] ELSE FALSE]

WriteUnit(w, unit) ==
  LET b == w[2] name == fetch[w].fd
  IN  disk' = IF name = "gone" THEN disk
              ELSE [disk EXCEPT ![b][name] = WrittenAt(@, fetch[w].off, unit)]

-----------------------------------------------------------------------------
(* A pull starts, tries one blob again and again, and ends                   *)

Missing(j) == {b \in job[j].layers : disk[b].blob = None \/ Len(disk[b].blob) # Size}

\* Blobs that are there in the right size are not fetched; if all are, nothing
\* is reported.
Download(j) ==
  LET wanted == Missing(j)
      already == Cardinality(job[j].layers \ wanted) * Size
      others == {i \in Jobs \ {j} : job[i].kind = "pull" /\ job[i].phase = "running"}
  IN  /\ job[j].kind = "pull" /\ job[j].phase \in {"idle", "failed"}
      /\ job' = [job EXCEPT ![j] = [@ EXCEPT !.phase = IF wanted = {} THEN "manifest" ELSE "running",
                            !.cancelled = FALSE,
                            !.already = already,
                            !.completed = IF wanted = {} THEN 0 ELSE already]]
      /\ task' = [w \in Tasks |-> IF w \in {j} \X wanted THEN [NewTask EXCEPT !.pc = "queued"]
                                  ELSE IF w[1] = j THEN NewTask ELSE task[w]]
      /\ noted' = [noted EXCEPT !.shared = @ \cup
                     {b \in wanted : \E i \in others : task[<<i, b>>].pc \notin {"none", "ended"}}]
      /\ UNCHANGED <<fetch, disk, installed, faults>>

\* Mutant for TensorTypeOK: a failed attempt keeps its slot.
FailHolding(w, err, pc) == task' = [task EXCEPT ![w] = [@ EXCEPT !.pc = pc, !.err = err]]

\* downloadOnce fails; a body slot comes back as its response is closed.
Fail(w, err, pc) == task' = [task EXCEPT ![w] = [@ EXCEPT !.pc = pc, !.err = err,
                                         !.slot = pc = "drain"]]

\* What waits for others ends when the context is cancelled.
Interrupt(w) ==
  /\ task[w].pc \in {"hold", "resolve", "getToken", "ask", "read", "drain"}
  /\ job[w[1]].cancelled
  /\ Fail(w, IF At(w, "drain") THEN task[w].err ELSE "cancelled", "settle")
  /\ fetch' = [fetch EXCEPT ![w].fd = "none"]
  /\ UNCHANGED <<job, disk, installed, noted, faults>>

Counts(w) ==
  \/ task[w].err = "error"
  \/ task[w].err = "slow" /\ fetch[w].slow + 1 >= SlowRetries

\* Mutant for DoneReportsAll: only what this attempt received is taken back.
SettleReceived(w) ==
  LET attempt == task[w].attempt + IF Counts(w) THEN 1 ELSE 0
      over == task[w].err = "cancelled" \/ attempt >= MaxRetries
  IN  /\ At(w, "settle")
      /\ job' = [job EXCEPT ![w[1]] = [@ EXCEPT !.completed = job[w[1]].completed - (task[w].n - fetch[w].from),
                            !.cancelled = job[w[1]].cancelled \/ over]]
      /\ task' = [task EXCEPT ![w] =
                    IF over THEN [Failed(w, task[w].err) EXCEPT !.n = 0]
                    ELSE [@ EXCEPT !.pc = "hold", !.attempt = attempt, !.n = 0, !.err = "none"]]
      /\ fetch' = [fetch EXCEPT ![w] = NewFetch]
      /\ UNCHANGED <<disk, installed, noted, faults>>

\* What the attempt reported is taken back.  Stalls do not count against the
\* limit, the first slow attempts neither.
Settle(w) ==
  LET b == w[2] attempt == task[w].attempt + IF Counts(w) THEN 1 ELSE 0
      again == [fetch EXCEPT ![w] = [NewFetch EXCEPT !.slow =
                  fetch[w].slow + IF task[w].err = "slow" THEN 1 ELSE 0]]
      over == task[w].err = "cancelled" \/ attempt >= MaxRetries
  IN  /\ At(w, "settle")
      /\ job' = [job EXCEPT ![w[1]] = [@ EXCEPT !.completed = job[w[1]].completed - task[w].n,
                            !.cancelled = job[w[1]].cancelled \/ over]]
      /\ task' = [task EXCEPT ![w] =
                    IF over THEN [Failed(w, task[w].err) EXCEPT !.n = 0]
                    ELSE [@ EXCEPT !.pc = IF attempt > 0 THEN "backoff" ELSE "hold",
                                   !.attempt = attempt, !.n = 0, !.err = "none"]]
      /\ IF b \in Large THEN fetch' = again /\ UNCHANGED disk ELSE RemoveTmp(b, again)
      /\ UNCHANGED <<installed, noted, faults>>

\* g.Wait returns when every task has ended.
Wait(j) ==
  /\ job[j].kind = "pull" /\ job[j].phase = "running"
  /\ \A w \in TasksOf(j) : task[w].pc \in {"none", "ended"}
  /\ job' = [job EXCEPT ![j].phase =
               IF \E w \in TasksOf(j) : task[w].err # "none" THEN "failed" ELSE "manifest"]
  /\ UNCHANGED <<task, pullVars, faults>>

WriteManifest(j) ==
  /\ job[j].kind = "pull" /\ job[j].phase = "manifest"
  /\ job' = [job EXCEPT ![j].phase = "ok"] /\ installed' = installed \cup {j}
  /\ UNCHANGED <<task, fetch, disk, noted, faults>>

-----------------------------------------------------------------------------
(* One attempt: downloadOnce, save and copy                                  *)

\* The address of the blob is resolved with the token, unless that fails.
Resolve(w) ==
  /\ At(w, "resolve")
  /\ \/ Authorized(w) /\ Goto(w, "stat") /\ Right
     \/ Unauthorized(w, "resolve") /\ Right
  /\ UNCHANGED <<job, pullVars>>

RequestFails(w) ==
  /\ task[w].pc \in {"resolve", "getToken", "ask", "open"} /\ Fault
  /\ Fail(w, "error", "settle") /\ UNCHANGED <<job, pullVars>>

Stat(w) ==
  LET b == w[2] tmp == disk[b].tmp kept == b \in Large /\ tmp # None IN
  /\ At(w, "stat") /\ Goto(w, "ask")
  /\ IF kept /\ Len(tmp) > Size THEN RemoveTmp(b, fetch)
     ELSE /\ fetch' = [fetch EXCEPT ![w].from = IF kept /\ Len(tmp) < Size THEN Len(tmp) ELSE 0]
          /\ UNCHANGED disk
  /\ UNCHANGED <<job, installed, noted, faults>>

\* 200: the whole blob comes; 206: what is behind the units that are there; 401,
\* from a registry that has the blobs itself: an error.
Ask(w) ==
  /\ At(w, "ask")
  /\ \/ Goto(w, "open") /\ fetch' = [fetch EXCEPT ![w].from = 0]
     \/ Goto(w, "open") /\ fetch' = [fetch EXCEPT ![w].base = fetch[w].from]
     \/ ~ Authorized(w) /\ Fail(w, "error", "settle") /\ UNCHANGED fetch
  /\ UNCHANGED <<job, disk, installed, noted, faults>>

\* Mutant for PulledIsWhole: what is there is reported, but not hashed again.
OpenUnhashed(w) ==
  LET b == w[2] from == fetch[w].from tmp == disk[b].tmp
      continue == from > 0 /\ tmp # None /\ Len(tmp) >= from
      at == IF continue THEN from ELSE 0
  IN  /\ At(w, "open") /\ task' = [task EXCEPT ![w] = [@ EXCEPT !.pc = "read", !.n = at]]
      /\ Add(w[1], at)
      /\ disk' = IF continue THEN disk ELSE [disk EXCEPT ![b].tmp = <<>>]
      /\ fetch' = [fetch EXCEPT ![w] = [@ EXCEPT !.fd = "tmp", !.off = at, !.from = at]]
      /\ UNCHANGED <<installed, noted, faults>>

\* The units to continue behind are hashed and reported, or the file is created
\* anew, after its removal if it is shorter than it was.
Open(w) ==
  LET b == w[2] tmp == disk[b].tmp from == fetch[w].from
      continue == from > 0 /\ tmp # None /\ Len(tmp) >= from
      cut == from > 0 /\ tmp # None /\ Len(tmp) < from
      opened == [fetch[w] EXCEPT
                   !.fd = "tmp", !.from = IF continue THEN from ELSE 0,
                   !.off = IF continue THEN from ELSE 0,
                   !.clean = IF continue THEN \A i \in 1 .. from : tmp[i] ELSE fetch[w].base = 0]
  IN  /\ At(w, "open")
      /\ task' = [task EXCEPT ![w] = [@ EXCEPT !.pc = "read",
                              !.n = IF continue THEN from ELSE 0]]
      /\ Add(w[1], IF continue THEN from ELSE 0)
      /\ disk' = IF continue THEN disk ELSE [disk EXCEPT ![b].tmp = <<>>]
      /\ fetch' = [(IF cut THEN Renamed(b, fetch, Unlinked) ELSE fetch) EXCEPT ![w] = opened]
      /\ UNCHANGED <<installed, noted, faults>>

\* A unit arrives and is written, hashed and reported; nobody looks whether the
\* write went well.  After it the loop sees whether it was cancelled.
Receives(w, right, lost) ==
  LET f == fetch[w] unit == right /\ f.base + task[w].n - f.from < Size /\ f.base = f.from IN
  /\ At(w, "read") /\ ~ f.silent
  /\ Add(w[1], 1)
  /\ IF lost THEN UNCHANGED disk ELSE WriteUnit(w, unit)
  /\ noted' = IF lost THEN [noted EXCEPT !.lost = @ \cup {w[2]}] ELSE noted
  /\ fetch' = [fetch EXCEPT ![w] = [@ EXCEPT !.clean = fetch[w].clean /\ unit,
                            !.off = IF lost THEN fetch[w].off ELSE fetch[w].off + 1,
                            !.fd = IF f.cause = "none" THEN fetch[w].fd ELSE "none"]]
  /\ task' = [task EXCEPT ![w] = [@ EXCEPT !.n = task[w].n + 1,
                          !.pc = IF f.cause = "none" THEN task[w].pc ELSE "drain",
                          !.err = IF f.cause = "none" THEN task[w].err ELSE f.cause]]
  /\ UNCHANGED installed

BodyLeft(w) == fetch[w].base + task[w].n - fetch[w].from < Size
Receive(w) == BodyLeft(w) /\ Right /\ Receives(w, TRUE, FALSE)

\* The unit is wrong, or one too many, or the disk does not take it.
ReceiveBadly(w) ==
  /\ task[w].n <= Size /\ Fault
  /\ \/ Receives(w, FALSE, FALSE)
     \/ BodyLeft(w) /\ Receives(w, TRUE, TRUE)

BodyEnds(w) ==
  /\ At(w, "read") /\ ~ fetch[w].silent /\ Goto(w, "verify")
  /\ fetch' = [fetch EXCEPT ![w].fd = "none"]
  /\ UNCHANGED <<job, disk, installed, noted>>

EndOfBody(w) == ~ BodyLeft(w) /\ Right /\ BodyEnds(w)
EndsEarly(w) == BodyLeft(w) /\ Fault /\ BodyEnds(w)

Break(w) ==
  /\ At(w, "read") /\ Fault /\ Fail(w, "error", "settle")
  /\ fetch' = [fetch EXCEPT ![w].fd = "none"]
  /\ UNCHANGED <<job, disk, installed, noted>>

FallSilent(w) ==
  /\ task[w].pc \in {"read", "drain"} /\ ~ fetch[w].silent /\ Fault
  /\ fetch' = [fetch EXCEPT ![w].silent = TRUE]
  /\ UNCHANGED <<job, task, disk, installed, noted>>

SpeaksAgain(w) ==
  /\ task[w].pc \in {"read", "drain"} /\ fetch[w].silent
  /\ fetch' = [fetch EXCEPT ![w].silent = FALSE]
  /\ UNCHANGED <<job, task, disk, installed, noted, faults>>

\* It cancels a context of which the body knows nothing: the read goes on.
Watchdog(w) ==
  /\ At(w, "read") /\ fetch[w].cause = "none"
  /\ \/ fetch[w].silent /\ Right /\ fetch' = [fetch EXCEPT ![w].cause = "stalled"]
     \/ ~ fetch[w].silent /\ Fault /\ fetch' = [fetch EXCEPT ![w].cause = "slow"]
  /\ UNCHANGED <<job, task, disk, installed, noted>>

\* The rest of a body that was given up is read to its end.
Drain(w) ==
  /\ At(w, "drain") /\ ~ fetch[w].silent
  /\ Fail(w, task[w].err, "settle") /\ UNCHANGED <<job, pullVars, faults>>

Verify(w) ==
  /\ At(w, "verify")
  /\ IF fetch[w].clean /\ task[w].n = Size THEN Goto(w, "rename") /\ UNCHANGED <<disk, fetch>>
     ELSE Fail(w, "error", "settle") /\ RemoveTmp(w[2], fetch)
  /\ UNCHANGED <<job, installed, noted, faults>>

\* Mutant for JobsEnd: who has succeeded keeps its slot.
RenameHolding(w) ==
  /\ At(w, "rename") /\ disk[w[2]].tmp # None /\ Goto(w, "ended")
  /\ disk' = [disk EXCEPT ![w[2]] = [tmp |-> None, blob |-> disk[w[2]].tmp]]
  /\ fetch' = [Renamed(w[2], fetch, Moved) EXCEPT ![w] = NewFetch]
  /\ UNCHANGED <<job, installed, noted, faults>>

Rename(w) ==
  LET b == w[2] tmp == disk[b].tmp IN
  /\ At(w, "rename")
  /\ IF tmp = None THEN Fail(w, "error", "settle") /\ UNCHANGED <<disk, fetch>>
     ELSE /\ task' = [task EXCEPT ![w] = [@ EXCEPT !.pc = "ended", !.slot = FALSE]]
          /\ disk' = [disk EXCEPT ![b] = [tmp |-> None, blob |-> tmp]]
          /\ fetch' = [Renamed(b, fetch, Moved) EXCEPT ![w] = NewFetch]
  /\ UNCHANGED <<job, installed, noted, faults>>

-----------------------------------------------------------------------------
(* A crash, and what the next start prunes: temporary files and blobs that   *)
(* no manifest names, unless they are young.                                 *)

Named(b) == \E j \in installed : b \in job[j].layers

PullRestart ==
  /\ fetch' = [w \in Tasks |-> NewFetch]
  /\ \E young \in SUBSET (Blobs \X {"tmp", "blob"}) :
       disk' = [b \in Blobs |->
                  [tmp  |-> IF <<b, "tmp">> \in young THEN disk[b].tmp ELSE None,
                   blob |-> IF <<b, "blob">> \in young \/ Named(b) THEN disk[b].blob ELSE None]]
  /\ UNCHANGED <<installed, noted>>

Begins(w) ==
  \/ SemAcquire(w, "hold") \/ SemCancelled(w) \/ HoldBody(w, "hold", "resolve")
  \/ RefreshToken(w) \/ GetToken(w) \/ BackedOff(w, "hold") \/ BackoffCancelled(w)

PullStep(w) ==
  \/ Begins(w) /\ UNCHANGED pullVars
  \/ Interrupt(w) \/ Settle(w) \/ Resolve(w) \/ Stat(w) \/ Ask(w) \/ Open(w) \/ Receive(w)
  \/ EndOfBody(w) \/ Drain(w) \/ Verify(w) \/ Rename(w)

PullFault(w) ==
  \/ RequestFails(w) \/ ReceiveBadly(w) \/ EndsEarly(w) \/ Break(w)
  \/ FallSilent(w) \/ SpeaksAgain(w) \/ Watchdog(w)

PullTasks == {w \in Tasks : job[w[1]].kind = "pull"}

PullNext ==
  \/ \E j \in Jobs : Download(j) \/ Wait(j) \/ WriteManifest(j)
  \/ \E w \in PullTasks : PullStep(w) \/ PullFault(w)

=============================================================================
