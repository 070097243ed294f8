---------------------------- MODULE DownloadProofs ----------------------------
(* Proofs about the download of a blob: one download at a time works on its  *)
(* files, what these say is complete is complete, and what is counted while  *)
(* it works is what its parts have.                                          *)
EXTENDS DownloadProps, FiniteSetTheorems, TLAPS

\* A download that works is the one in the map.  OneWriter alone is not
\* inductive: it does not exclude that Join starts a second one.
WriterInv ==
  /\ DOMAIN stage = Calls
  /\ \A d \in Calls : stage[d] \in Working => manager = d

\* Steps of a download within its work.
LEMMA ProceedStays ==
  ASSUME WriterInv, NEW d \in Calls, NEW at, stage[d] \in Working,
         Proceed(d, at), manager' = manager
  PROVE  WriterInv'
BY DEF WriterInv, Proceed

\* Steps that end the work of a download, and take it out of the map.
LEMMA ProceedEnds ==
  ASSUME WriterInv, NEW d \in Calls, NEW at, at \notin Working,
         stage[d] \in Working, Proceed(d, at)
  PROVE  WriterInv'
BY DEF WriterInv, Proceed

\* The abandonment of a download that is being prepared.
LEMMA PrepareFailsEnds ==
  ASSUME WriterInv, NEW c \in Calls, stage[c] \in Working, PrepareFails(c)
  PROVE  WriterInv'
BY ProceedEnds DEF PrepareFails, Working

\* The return of run.
LEMMA ReturnEnds ==
  ASSUME WriterInv, NEW d \in Calls, NEW failed, stage[d] \in Working,
         Return(d, failed)
  PROVE  WriterInv'
BY ProceedEnds DEF Return, Working

\* Steps that touch neither the map nor a stage.
LEMMA Others ==
  ASSUME WriterInv, UNCHANGED <<stage, manager>>
  PROVE  WriterInv'
BY DEF WriterInv

\* Steps of Prepare.
LEMMA PrepareStep ==
  ASSUME WriterInv, NEW c \in Calls, Prepare(c)
  PROVE  WriterInv'
<1>1. CASE Glob(c)
  <2>1. stage[c] \in Working
    BY <1>1 DEF Glob, Working
  <2>2. \/ PrepareFails(c)
        \/ \E at : Proceed(c, at) /\ manager' = manager
    BY <1>1 DEF Glob
  <2> QED BY <2>1, <2>2, PrepareFailsEnds, ProceedStays
<1>2. CASE Head(c)
  <2>1. stage[c] \in Working
    BY <1>2 DEF Head, Working
  <2>2. PrepareFails(c) \/ (Proceed(c, "parts") /\ manager' = manager)
    BY <1>2 DEF Head
  <2> QED BY <2>1, <2>2, PrepareFailsEnds, ProceedStays
<1>3. CASE CreatePart(c)
  BY <1>3, Others DEF CreatePart
<1>4. CASE EncodePart(c)
  <2>1. stage[c] \in Working
    BY <1>4 DEF EncodePart, Working
  <2>2. manager' = manager /\ (UNCHANGED stage \/ Proceed(c, "spawned"))
    BY <1>4 DEF EncodePart
  <2> QED BY <2>1, <2>2, ProceedStays, Others
<1>5. CASE NewPartFails(c)
  BY <1>5, PrepareFailsEnds DEF NewPartFails, Working
<1> QED BY <1>1, <1>2, <1>3, <1>4, <1>5 DEF Prepare

\* Steps of the process as a whole.
LEMMA RestartStep ==
  ASSUME Restart
  PROVE  WriterInv'
BY DEF Restart, WriterInv, Working

\* Steps of the calls.
LEMMA PullStep ==
  ASSUME WriterInv, NEW c \in Calls, Pull(c)
  PROVE  WriterInv'
<1>1. CASE Join(c)
  <2>1. CASE manager = None
    <3>1. Proceed(c, "glob") /\ manager' = c
      BY <1>1, <2>1 DEF Join
    <3>2. \A d \in Calls : stage[d] \notin Working
      BY <2>1, DownloadAssumption DEF WriterInv, Calls
    <3> QED BY <3>1, <3>2 DEF WriterInv, Proceed
  <2>2. CASE manager # None
    BY <1>1, <2>2, Others DEF Join
  <2> QED BY <2>1, <2>2
<1>2. CASE Prepare(c)
  BY <1>2, PrepareStep
<1>3. CASE Acquire(c) \/ Answered(c) \/ GiveUp(c) \/ ReportToNobody(c)
  BY <1>3, Others DEF Acquire, Answered, GiveUp, ReportToNobody, Release
<1>4. CASE Panic(c)
  BY <1>4, RestartStep DEF Panic
<1>5. CASE Verify(c) \/ RemoveMismatch(c) \/ Install(c)
  BY <1>5, Others DEF Verify, RemoveMismatch, Install
<1> QED BY <1>1, <1>2, <1>3, <1>4, <1>5 DEF Pull

\* Steps of run.
LEMMA RunStep ==
  ASSUME WriterInv, NEW d \in Calls, Run(d)
  PROVE  WriterInv'
<1>1. CASE Start(d)
  <2>1. stage[d] \in Working
    BY <1>1 DEF Start, Working
  <2>2. Return(d, TRUE) \/ (Proceed(d, "direct") /\ manager' = manager)
    BY <1>1 DEF Start
  <2> QED BY <2>1, <2>2, ReturnEnds, ProceedStays
<1>2. CASE Direct(d)
  <2>1. stage[d] \in Working
    BY <1>2 DEF Direct, Working
  <2>2. Return(d, TRUE) \/ (Proceed(d, "fetch") /\ manager' = manager)
    BY <1>2 DEF Direct
  <2> QED BY <2>1, <2>2, ReturnEnds, ProceedStays
<1>3. CASE AllEnded(d)
  <2>1. stage[d] \in Working
    BY <1>3 DEF AllEnded, Working
  <2>2. Return(d, TRUE) \/ (Proceed(d, "remove") /\ manager' = manager)
    BY <1>3 DEF AllEnded
  <2> QED BY <2>1, <2>2, ReturnEnds, ProceedStays
<1>4. CASE RemovePartFile(d)
  <2>1. stage[d] \in Working
    BY <1>4 DEF RemovePartFile, Working
  <2>2. Return(d, TRUE) \/ UNCHANGED <<stage, manager>>
    BY <1>4 DEF RemovePartFile
  <2> QED BY <2>1, <2>2, ReturnEnds, Others
<1>5. CASE Rename(d)
  <2>1. stage[d] \in Working
    BY <1>5 DEF Rename, Working
  <2>2. Return(d, TRUE) \/ Return(d, FALSE)
    BY <1>5 DEF Rename
  <2> QED BY <2>1, <2>2, ReturnEnds
<1>6. CASE Close(d)
  <2>1. "closed" \notin Working /\ stage[d] \notin Working
    BY <1>6 DEF Close, Working
  <2> QED BY <1>6, <2>1 DEF Close, Proceed, WriterInv
<1> QED BY <1>1, <1>2, <1>3, <1>4, <1>5, <1>6 DEF Run

\* Steps of the workers.
LEMMA WorkStep ==
  ASSUME WriterInv, NEW d \in Calls, NEW p \in Parts,
         Work(d, p) \/ Trouble(d, p)
  PROVE  WriterInv'
<1>1. CASE Work(d, p)
  <2>1. UNCHANGED <<stage, manager>>
    BY <1>1 DEF Work, Receive, AllReceived, Watchdog, Stop, OpenPartFile,
                WritePartFile, Update
  <2> QED BY <2>1, Others
<1>2. CASE Trouble(d, p)
  <2>1. UNCHANGED <<stage, manager>>
    BY <1>2 DEF Trouble, Break, WriteFails, FallSilent, WritePartFails, Update
  <2> QED BY <2>1, Others
<1> QED BY <1>1, <1>2

\* The invariant.
LEMMA WriterAlways == Spec => []WriterInv
<1>1. Init => WriterInv
  BY DEF Init, WriterInv, Working
<1>2. WriterInv /\ [Next]_vars => WriterInv'
  <2> SUFFICES ASSUME WriterInv, [Next]_vars PROVE WriterInv'
    OBVIOUS
  <2>1. CASE Crash
    BY <2>1, RestartStep DEF Crash
  <2>2. ASSUME NEW c \in Calls, Begin(c) \/ Leave(c) PROVE WriterInv'
    BY <2>2, Others DEF Begin, Leave
  <2>3. ASSUME NEW c \in Calls, Pull(c) PROVE WriterInv'
    BY <2>3, PullStep
  <2>4. ASSUME NEW c \in Calls, Run(c) PROVE WriterInv'
    BY <2>4, RunStep
  <2>5. ASSUME NEW d \in Calls, NEW p \in Parts, Work(d, p) \/ Trouble(d, p)
        PROVE WriterInv'
    BY <2>5, WorkStep
  <2>6. CASE UNCHANGED vars
    BY <2>6, Others DEF vars
  <2> QED BY <2>1, <2>2, <2>3, <2>4, <2>5, <2>6 DEF Next
<1> QED BY <1>1, <1>2, PTL DEF Spec

\* Two downloads never work on the partial file and the part files at once,
\* for any number of calls, parts, faults and restarts.
THEOREM OneWriterAtATime == Spec => []OneWriter
<1>1. WriterInv => OneWriter
  BY DEF WriterInv, OneWriter
<1> QED BY <1>1, WriterAlways, PTL

-----------------------------------------------------------------------------
(* Arithmetic of the parts.                                                  *)

\* The last part begins within the blob and does not end before it.
LEMMA LastPartBounds ==
  /\ LastPart \in Nat
  /\ LastPart * PartSize <= BlobSize - 1 /\ BlobSize - 1 < LastPart * PartSize + PartSize
<1>1. BlobSize - 1 \in Nat /\ PartSize \in Nat /\ PartSize > 0
  BY DownloadAssumption
<1> QED BY <1>1 DEF LastPart

\* A part is not empty and lies within the blob.
LEMMA PartBounds ==
  ASSUME NEW p \in Parts
  PROVE  /\ Offset(p) \in Nat /\ Size(p) \in Nat \ {0} /\ Size(p) <= PartSize
         /\ Offset(p) + Size(p) <= BlobSize
<1>1. p \in Nat /\ LastPart \in Nat /\ p <= LastPart
  BY LastPartBounds DEF Parts, LastPart
<1>2. PartSize \in Nat /\ PartSize > 0 /\ BlobSize \in Nat
  BY DownloadAssumption
<1>3. Offset(p) \in Nat /\ p * PartSize <= LastPart * PartSize
  BY <1>1, <1>2 DEF Offset
<1>4. Offset(p) < BlobSize
  BY <1>1, <1>2, <1>3, LastPartBounds DEF Offset
<1> QED BY <1>2, <1>3, <1>4 DEF Size

\* Every block belongs to a part.
LEMMA PartOfBlock ==
  ASSUME NEW b \in Blocks
  PROVE  \E p \in Parts : b - Offset(p) \in 0 .. Size(p) - 1
<1> DEFINE p == b \div PartSize
<1>1. b \in Nat /\ b <= BlobSize - 1 /\ PartSize \in Nat /\ PartSize > 0 /\ BlobSize \in Nat
  BY DownloadAssumption DEF Blocks
<1>2. p \in Nat /\ p * PartSize <= b /\ b < p * PartSize + PartSize
  BY <1>1
<1>3. p <= LastPart
  <2>1. p * PartSize < LastPart * PartSize + PartSize
    BY <1>1, <1>2, LastPartBounds
  <2> QED BY <2>1, <1>1, <1>2, LastPartBounds
<1>4. p \in Parts
  BY <1>2, <1>3 DEF Parts, LastPart
<1>5. b - Offset(p) \in 0 .. Size(p) - 1
  BY <1>1, <1>2 DEF Offset, Size
<1> QED BY <1>4, <1>5

\* All parts together are the blob.
LEMMA TotalOfParts == Total(Parts) = BlobSize
<1>1. Cardinality(Parts) = LastPart + 1 /\ LastPart \in Parts
  BY FS_Interval, LastPartBounds DEF Parts, LastPart
<1>2. BlobSize \in Nat /\ PartSize \in Nat /\ LastPart \in Nat
  BY DownloadAssumption, LastPartBounds
<1>3. Size(LastPart) = BlobSize - LastPart * PartSize
  BY <1>2, LastPartBounds DEF Size, Offset
<1>4. (LastPart + 1) * PartSize = LastPart * PartSize + PartSize
  BY <1>2
<1> QED BY <1>1, <1>2, <1>3, <1>4 DEF Total

-----------------------------------------------------------------------------
(* The files of a download that no disk fault or crash disturbed.  The part  *)
(* files are there for all parts or for none, unless the download that works *)
(* is writing or removing them; what they and the workers count is in the    *)
(* partial file.                                                             *)

\* The first n blocks of part p have been written.
Covered(p, n) ==
  n # 0 => partial \in Content /\ \A i \in 0 .. n - 1 : partial[Offset(p) + i] # "hole"

\* What the part file of p records has been written.
Stored(p) == partFile[p] \in 0 .. Size(p) /\ Covered(p, partFile[p])
NoneStored == \A p \in Parts : partFile[p] = None
AllStored == \A p \in Parts : Stored(p)

\* A download without parts.
Fresh(d) ==
  dl[d].parts = {} /\ dl[d].part = [p \in Parts |-> NoPart] /\ dl[d].removed = 0

\* newPart has made k part files and may have opened the next one.
Begun(d) ==
  \E k \in Parts :
    /\ dl[d].parts = 0 .. k - 1 /\ dl[d].part = [p \in Parts |-> NoPart]
    /\ \A p \in Parts : /\ p < k => partFile[p] = 0
                        /\ p = k => partFile[p] \in {None, Torn}
                        /\ p > k => partFile[p] = None

\* All parts are known as their files record them.
Ready(d) ==
  /\ AllStored
  /\ dl[d].part = [p \in Parts |-> [NoPart EXCEPT !.done = partFile[p]]]

\* A worker: what it has counted and received has been written.
Workers ==
  [at : {"idle", "get", "silent", "save", "encode", "ended", "failed"},
   done : Nat, got : Nat, try : Nat, seen : BOOLEAN,
   then : {"ok", "retry", "cancel", "stall"}]

WorkerOK(w, p) ==
  /\ w \in Workers
  /\ w.done + w.got <= Size(p) /\ Covered(p, w.done + w.got)
  /\ IF w.at = "encode" THEN partFile[p] = Torn ELSE Stored(p)
  /\ w.at = "ended" => w.done = Size(p)
  /\ w.at \in {"save", "encode"} => w.got = 0 /\ (w.then = "ok" => w.done = Size(p))

\* All workers are sound.
Fetches(d) ==
  /\ DOMAIN dl[d].part = Parts
  /\ \A p \in Parts : /\ WorkerOK(dl[d].part[p], p)
                      /\ dl[d].part[p].at = "failed" => dl[d].failed

\* The partial file is the blob, and the first part files are gone.
Removes(d) ==
  /\ \A b \in Blocks : partial[b] # "hole"
  /\ dl[d].removed \in Nat
  /\ \A p \in Parts : IF p < dl[d].removed THEN partFile[p] = None ELSE Stored(p)

\* What holds of a download at each of its stages.
StageOK(d) ==
  /\ stage[d] \in {"none", "glob", "head"} => Fresh(d)
  /\ stage[d] \in {"parts", "spawned", "direct", "fetch"} => dl[d].removed = 0
  /\ stage[d] = "glob" => NoneStored \/ AllStored
  /\ stage[d] = "head" => NoneStored
  /\ stage[d] = "parts" => Begun(d)
  /\ stage[d] \in {"spawned", "direct"} => Ready(d)
  /\ stage[d] = "fetch" => Fetches(d)
  /\ stage[d] = "remove" => Removes(d)
  /\ stage[d] \in {"direct", "fetch", "remove"} => partial \in Content
  /\ stage[d] \in {"spawned", "direct", "fetch", "remove"} => dl[d].parts = Parts

\* What the variables are made of.
Shape ==
  /\ DOMAIN call = Calls /\ \A c \in Calls : DOMAIN call[c] = {"at", "dl", "left"}
  /\ DOMAIN dl = Calls
  /\ \A d \in Calls : DOMAIN dl[d] = {"refs", "cancellable", "cancelled", "failed", "parts",
                                      "part", "completed", "removed"}
  /\ DOMAIN partFile = Parts /\ partial \in Content \cup {None}

\* A call that has not joined has no download of its own.
Unbegun == \A c \in Calls : call[c].at \in {"idle", "join"} => stage[c] = "none"

\* The blob file has no holes.
BlobFull == blob # None => blob \in Content /\ \A b \in Blocks : blob[b] # "hole"

\* While nobody works there are part files for all parts or for none.
AllOrNothing == (\A d \in Calls : stage[d] \notin Working) => NoneStored \/ AllStored

\* The inductive invariant.
FilesInv == Shape /\ Unbegun /\ BlobFull /\ AllOrNothing /\ \A d \in Calls : StageOK(d)

\* Steps that leave the files and the parts of a download alone.
LEMMA StageKept ==
  ASSUME NEW d \in Calls, StageOK(d), UNCHANGED <<partial, partFile>>, stage'[d] = stage[d],
         dl'[d].parts = dl[d].parts, dl'[d].part = dl[d].part, dl'[d].removed = dl[d].removed,
         dl[d].failed => dl'[d].failed
  PROVE  StageOK(d)'
BY DEF StageOK, Fresh, Begun, Ready, Fetches, Removes, WorkerOK, Stored, Covered, NoneStored,
   AllStored

\* Downloads that do not work need nothing of the files.
LEMMA StageIdle ==
  ASSUME NEW d \in Calls, StageOK(d), stage'[d] = stage[d], stage[d] \notin Working,
         dl'[d] = dl[d]
  PROVE  StageOK(d)'
BY DEF StageOK, Fresh, Working

\* Steps of a call that touch neither stage, map nor files other than the blob.
LEMMA CallStep ==
  ASSUME FilesInv, UNCHANGED <<stage, dl, partial, partFile>>, BlobFull', 
         NEW c \in Calls, NEW x, DOMAIN x = {"at", "dl", "left"}, call' = [call EXCEPT ![c] = x],
         x.at \in {"idle", "join"} => call[c].at \in {"idle", "join"}
  PROVE  FilesInv'
<1>1. Shape'
  BY DEF FilesInv, Shape
<1>2. Unbegun'
  BY DEF FilesInv, Shape, Unbegun
<1>3. AllOrNothing'
  BY DEF FilesInv, AllOrNothing, NoneStored, AllStored, Stored, Covered
<1>4. \A d \in Calls : StageOK(d)'
  BY StageKept DEF FilesInv
<1> QED BY <1>1, <1>2, <1>3, <1>4 DEF FilesInv

\* Those steps.
LEMMA CallFiles ==
  ASSUME FilesInv, NEW c \in Calls,
         \/ Begin(c) \/ Leave(c) \/ ReportToNobody(c)
         \/ Verify(c) \/ RemoveMismatch(c) \/ Install(c)
  PROVE  FilesInv'
<1>1. UNCHANGED <<stage, dl, partial, partFile>> /\ BlobFull'
  BY DEF FilesInv, BlobFull, Begin, Leave, ReportToNobody, Verify, RemoveMismatch, Install, files
<1> QED 
  BY <1>1, CallStep DEF FilesInv, Shape, Begin, Leave, ReportToNobody,
     Verify, RemoveMismatch, Install, MoveCall, Gone

\* A call is not the absence of one.
LEMMA NoCall == None \notin Calls
BY DownloadAssumption DEF Calls

\* Wait changes the references of a download only.
LEMMA WaitFiles ==
  ASSUME FilesInv, NEW c \in Calls, Acquire(c) \/ Answered(c) \/ GiveUp(c)
  PROVE  FilesInv'
<1> DEFINE d == call[c].dl
<1>1. UNCHANGED <<stage, files>>
  BY DEF Acquire, Answered, GiveUp, Release
<1>2. \E x, y : dl' = [dl EXCEPT ![d] = [@ EXCEPT !.refs = x, !.cancelled = y]]
  <2>1. CASE Acquire(c)
    <3>1. dl' = [dl EXCEPT ![d] = [@ EXCEPT !.refs = dl[d].refs + 1,
                           !.cancelled = dl[d].cancelled]]
      BY <2>1 DEF Acquire, FilesInv, Shape
    <3> QED BY <3>1
  <2>2. CASE Release(d)
    <3>1. dl' = [dl EXCEPT ![d] = [@ EXCEPT !.refs = dl[d].refs - 1,
                           !.cancelled = dl[d].cancelled \/ dl[d].refs = 1]]
      BY <2>2 DEF Release
    <3> QED BY <3>1
  <2> QED BY <2>1, <2>2 DEF Answered, GiveUp
<1>3. /\ DOMAIN dl' = Calls
      /\ \A e \in Calls : /\ DOMAIN dl'[e] = DOMAIN dl[e]
                          /\ dl'[e].parts = dl[e].parts /\ dl'[e].part = dl[e].part
                          /\ dl'[e].removed = dl[e].removed /\ dl'[e].failed = dl[e].failed
  BY <1>2 DEF FilesInv, Shape
<1>4. Shape' /\ Unbegun'
  BY <1>1, <1>3 DEF FilesInv, Shape, Unbegun, Acquire, Answered, GiveUp, MoveCall, Gone, files
<1>5. BlobFull' /\ AllOrNothing'
  BY <1>1 DEF FilesInv, BlobFull, AllOrNothing, NoneStored, AllStored, Stored, Covered, files
<1>6. \A e \in Calls : StageOK(e)'
  BY <1>1, <1>3, StageKept DEF FilesInv, files
<1> QED BY <1>4, <1>5, <1>6 DEF FilesInv

\* A download that begins finds nobody at work.
LEMMA JoinFiles ==
  ASSUME WriterInv, FilesInv, NEW c \in Calls, Join(c)
  PROVE  FilesInv'
<1>1. UNCHANGED <<dl, files>>
  BY DEF Join
<1>2. Shape' /\ Unbegun' /\ BlobFull'
  <2>1. /\ \E at \in {"prepare", "enter"} : \E d :
              call' = [call EXCEPT ![c] = [call[c] EXCEPT !.at = at, !.dl = d]]
        /\ stage' = stage \/ stage' = [stage EXCEPT ![c] = "glob"]
    BY DEF Join, Proceed
  <2>2. PICK at \in {"prepare", "enter"} : \E d :
          call' = [call EXCEPT ![c] = [call[c] EXCEPT !.at = at, !.dl = d]]
    BY <2>1
  <2>3. /\ DOMAIN call' = Calls /\ \A b \in Calls : DOMAIN call'[b] = {"at", "dl", "left"}
        /\ call'[c].at = at /\ \A b \in Calls : b # c => call'[b] = call[b]
    BY <2>2 DEF FilesInv, Shape
  <2> QED BY <1>1, <2>1, <2>3 DEF FilesInv, Shape, Unbegun, BlobFull, files, WriterInv
<1>3. CASE manager # None
  <2>1. stage' = stage
    BY <1>3 DEF Join
  <2>2. \A d \in Calls : StageOK(d)'
    BY <1>1, <2>1, StageKept DEF FilesInv, files
  <2> QED BY <1>1, <1>2, <2>1, <2>2 DEF FilesInv, AllOrNothing, NoneStored, AllStored, Stored,
          Covered, files
<1>4. CASE manager = None
  <2>1. stage[c] = "none" /\ stage' = [stage EXCEPT ![c] = "glob"]
    BY <1>4 DEF Join, Proceed, FilesInv, Unbegun
  <2>2. \A d \in Calls : stage[d] \notin Working
    BY <1>4, NoCall DEF WriterInv
  <2>3. NoneStored \/ AllStored
    BY <2>2 DEF FilesInv, AllOrNothing
  <2>4. NoneStored' \/ AllStored'
    BY <1>1, <2>3 DEF NoneStored, AllStored, Stored, Covered, files
  <2>5. StageOK(c)'
    BY <1>1, <2>1, <2>4 DEF StageOK, FilesInv, Fresh, WriterInv
  <2>6. ASSUME NEW d \in Calls, d # c PROVE StageOK(d)'
    BY <1>1, <2>1, <2>2, <2>6, StageIdle DEF FilesInv
  <2> QED BY <1>2, <2>4, <2>5, <2>6 DEF FilesInv, AllOrNothing
<1> QED BY <1>3, <1>4

\* A download that works stops: the others do not work.
LEMMA Stops ==
  ASSUME WriterInv, FilesInv, NEW d \in Calls, stage[d] \in Working,
         NEW at, at \notin Working, at # "none",
         Proceed(d, at), NoneStored' \/ AllStored',
         \A e \in Calls : e # d => dl'[e] = dl[e]
  PROVE  AllOrNothing' /\ \A e \in Calls : StageOK(e)'
<1>1. AllOrNothing'
  BY DEF AllOrNothing
<1>2. StageOK(d)'
  BY DEF StageOK, Proceed, Working, WriterInv
<1>3. ASSUME NEW e \in Calls, e # d PROVE StageOK(e)'
  BY <1>3, StageIdle DEF WriterInv, Proceed, FilesInv
<1> QED BY <1>1, <1>2, <1>3

\* A download that works goes on.
LEMMA GoesOn ==
  ASSUME WriterInv, FilesInv, NEW d \in Calls, stage[d] \in Working,
         stage'[d] \in Working, StageOK(d)',
         \A e \in Calls : e # d => dl'[e] = dl[e] /\ stage'[e] = stage[e]
  PROVE  AllOrNothing' /\ \A e \in Calls : StageOK(e)'
<1>1. AllOrNothing'
  BY DEF AllOrNothing
<1>2. ASSUME NEW e \in Calls, e # d PROVE StageOK(e)'
  BY <1>2, StageIdle DEF WriterInv, FilesInv
<1> QED BY <1>1, <1>2

\* run returns.
LEMMA CloseFiles ==
  ASSUME WriterInv, FilesInv, NEW d \in Calls, Close(d)
  PROVE  FilesInv'
<1>1. /\ UNCHANGED <<dl, files, call>> /\ stage[d] = "returned"
      /\ stage' = [stage EXCEPT ![d] = "closed"]
  BY DEF Close, Proceed
<1>2. Shape' /\ Unbegun' /\ BlobFull'
  BY <1>1 DEF FilesInv, Shape, Unbegun, BlobFull, files, WriterInv
<1>3. AllOrNothing'
  BY <1>1 DEF FilesInv, AllOrNothing, NoneStored, AllStored, Stored, Covered, files,
     Working, WriterInv
<1>4. ASSUME NEW e \in Calls PROVE StageOK(e)'
  <2>1. CASE e = d
    BY <1>1, <2>1 DEF StageOK, WriterInv
  <2>2. CASE e # d
    BY <1>1, <2>2, StageKept DEF FilesInv, files, WriterInv
  <2> QED BY <2>1, <2>2
<1> QED BY <1>2, <1>3, <1>4 DEF FilesInv

\* The part files of an earlier download are read: of all parts, or none.
LEMMA GlobFiles ==
  ASSUME WriterInv, FilesInv, NEW c \in Calls, Glob(c)
  PROVE  FilesInv'
<1>1. /\ UNCHANGED files /\ stage[c] = "glob" /\ stage[c] \in Working
      /\ Fresh(c) /\ (NoneStored \/ AllStored)
  BY DEF Glob, FilesInv, StageOK, Working
<1>2. None \notin Int /\ Torn \notin Int /\ 0 \in Parts
  BY DownloadAssumption, LastPartBounds DEF Parts, LastPart
<1>3. BlobFull'
  BY <1>1 DEF FilesInv, BlobFull, files
<1>4. CASE Recorded = {}
  <2>1. NoneStored
    BY <1>4 DEF NoneStored, Recorded
  <2>2. stage' = [stage EXCEPT ![c] = "head"] /\ UNCHANGED <<call, dl>>
    BY <1>4 DEF Glob, Proceed
  <2>3. Shape' /\ Unbegun'
    BY <1>1, <2>2 DEF FilesInv, Shape, Unbegun, files, WriterInv
  <2>4. StageOK(c)'
    BY <1>1, <2>1, <2>2 DEF StageOK, Fresh, NoneStored, files, WriterInv
  <2> QED BY <1>1, <1>3, <2>2, <2>3, <2>4, GoesOn DEF FilesInv, Working, WriterInv
<1>5. CASE Recorded # {}
  <2>1. AllStored
    BY <1>1, <1>5 DEF NoneStored, Recorded
  <2>2. Recorded = Parts /\ \A p \in Parts : partFile[p] # Torn
    BY <1>2, <2>1, PartBounds DEF AllStored, Stored, Recorded
  <2>3. /\ stage' = [stage EXCEPT ![c] = "spawned"] /\ MoveCall(c, "enter")
        /\ \E n : dl' = [dl EXCEPT ![c] = [@ EXCEPT !.parts = Parts,
                !.part = [p \in Parts |-> [NoPart EXCEPT !.done = partFile[p]]],
                !.completed = n]]
    BY <1>5, <2>2 DEF Glob, Proceed
  <2>a. ASSUME NEW n, NEW q,
               dl' = [dl EXCEPT ![c] = [@ EXCEPT !.parts = Parts, !.part = q,
                                !.completed = n]]
        PROVE  /\ DOMAIN dl' = Calls /\ \A e \in Calls : DOMAIN dl'[e] = DOMAIN dl[e]
               /\ dl'[c].parts = Parts /\ dl'[c].removed = dl[c].removed /\ dl'[c].part = q
               /\ \A e \in Calls : e # c => dl'[e] = dl[e]
    <3>1. DOMAIN dl' = Calls /\ \A e \in Calls : e # c => dl'[e] = dl[e]
      BY <2>a DEF FilesInv, Shape
    <3>2. dl'[c] = [dl[c] EXCEPT !.parts = Parts, !.part = q, !.completed = n]
      BY <2>a DEF FilesInv, Shape
    <3>3. DOMAIN dl'[c] = DOMAIN dl[c]
      BY <3>2
    <3>4. dl'[c].parts = Parts /\ dl'[c].removed = dl[c].removed /\ dl'[c].part = q
      BY <3>2 DEF FilesInv, Shape
    <3> QED BY <3>1, <3>3, <3>4
  <2>k. /\ DOMAIN dl' = Calls /\ \A e \in Calls : DOMAIN dl'[e] = DOMAIN dl[e]
        /\ dl'[c].parts = Parts /\ dl'[c].removed = dl[c].removed
        /\ dl'[c].part = [p \in Parts |-> [NoPart EXCEPT !.done = partFile[p]]]
        /\ \A e \in Calls : e # c => dl'[e] = dl[e]
    BY <2>3, <2>a
  <2>m. DOMAIN call' = Calls /\ \A e \in Calls : DOMAIN call'[e] = DOMAIN call[e]
        /\ (call'[e].at \in {"idle", "join"} => call[e].at \in {"idle", "join"})
    BY <2>3 DEF FilesInv, Shape, MoveCall
  <2>4. Shape' /\ Unbegun'
    BY <1>1, <2>3, <2>k, <2>m DEF FilesInv, Shape, Unbegun, files, WriterInv
  <2>5. AllStored'
    BY <1>1, <2>1 DEF AllStored, Stored, Covered, files
  <2>6. StageOK(c)'
    <3>1. /\ dl'[c].parts = Parts
          /\ dl'[c].part = [p \in Parts |-> [NoPart EXCEPT !.done = partFile[p]]]
          /\ dl'[c].removed = 0
      BY <1>1, <2>k DEF Fresh
    <3>2. stage'[c] = "spawned" /\ partFile' = partFile
      BY <1>1, <2>3 DEF WriterInv, files
    <3> QED BY <2>5, <3>1, <3>2 DEF StageOK, Ready
  <2> QED BY <1>1, <1>3, <2>3, <2>k, <2>4, <2>6, GoesOn DEF FilesInv, Working, WriterInv
<1> QED BY <1>4, <1>5

MoreFaults == faults.disk \in Nat /\ faults'.disk \in Nat /\ faults.disk <= faults'.disk
FaultsTyped == faults \in [net : Nat, disk : Nat, corrupt : Nat, crash : Nat]

\* After a disk fault nothing is claimed.
LEMMA DiskFaultDisturbs ==
  ASSUME FaultsTyped, DiskFault
  PROVE  ~ Undisturbed'
BY DEF FaultsTyped, DiskFault, Undisturbed

\* The preparation fails where nothing is half done.
LEMMA PrepareFailsFiles ==
  ASSUME WriterInv, FilesInv, NEW c \in Calls, stage[c] \in Working, PrepareFails(c),
         UNCHANGED files, NoneStored \/ AllStored
  PROVE  FilesInv'
<1>1. Proceed(c, "abandoned") /\ UNCHANGED dl
  BY DEF PrepareFails
<1>2. Shape' /\ Unbegun' /\ BlobFull'
  BY <1>1 DEF FilesInv, Shape, Unbegun, BlobFull, files, WriterInv, PrepareFails,
     Proceed, MoveCall, Gone
<1>3. NoneStored' \/ AllStored'
  BY DEF NoneStored, AllStored, Stored, Covered, files
<1>4. AllOrNothing' /\ \A e \in Calls : StageOK(e)'
  BY <1>1, <1>3, Stops DEF Working
<1> QED BY <1>2, <1>4 DEF FilesInv

\* A download without part files makes its own.
LEMMA HeadFiles ==
  ASSUME WriterInv, FilesInv, NEW c \in Calls, Head(c)
  PROVE  FilesInv'
<1>1. UNCHANGED files /\ stage[c] \in Working /\ stage[c] = "head" /\ Fresh(c) /\ NoneStored
  BY DEF Head, Working, FilesInv, StageOK
<1>2. CASE PrepareFails(c)
  BY <1>1, <1>2, PrepareFailsFiles
<1>3. CASE Proceed(c, "parts") /\ UNCHANGED <<call, dl>>
  <2>1. stage' = [stage EXCEPT ![c] = "parts"] /\ stage'[c] = "parts"
    BY <1>3 DEF Proceed, WriterInv
  <2>2. Shape' /\ Unbegun' /\ BlobFull'
    BY <1>1, <1>3, <2>1 DEF FilesInv, Shape, Unbegun, BlobFull, files, WriterInv
  <2>3. 0 \in Parts /\ 0 .. 0 - 1 = {}
    BY LastPartBounds DEF Parts, LastPart
  <2>4. Begun(c)'
    <3>1. /\ dl'[c].parts = 0 .. 0 - 1 /\ dl'[c].part = [p \in Parts |-> NoPart]
          /\ \A p \in Parts : /\ p < 0 => partFile'[p] = 0
                              /\ p = 0 => partFile'[p] \in {None, Torn}
                              /\ p > 0 => partFile'[p] = None
      BY <1>1, <1>3, <2>3 DEF Fresh, NoneStored, files, Parts
    <3> QED BY <2>3, <3>1 DEF Begun
  <2>5. StageOK(c)'
    BY <1>1, <1>3, <2>1, <2>4 DEF StageOK, Fresh
  <2> QED BY <1>1, <1>3, <2>1, <2>2, <2>5, GoesOn DEF FilesInv, Working
<1> QED BY <1>2, <1>3 DEF Head

\* The part that newPart makes next.
LEMMA NextPartOfBegun ==
  ASSUME NEW c \in Calls, NEW k \in Parts, dl[c].parts = 0 .. k - 1
  PROVE  NextPart(c) = k
<1>1. k \in Nat
  BY DEF Parts
<1>2. Cardinality(0 .. k - 1) = IF 0 > k - 1 THEN 0 ELSE k - 1 - 0 + 1
  BY <1>1, FS_Interval
<1> QED BY <1>1, <1>2 DEF NextPart

\* newPart opens a part file.
LEMMA CreatePartFiles ==
  ASSUME WriterInv, FilesInv, NEW c \in Calls, CreatePart(c)
  PROVE  FilesInv'
<1>1. stage[c] = "parts" /\ stage[c] \in Working /\ UNCHANGED <<call, stage, dl, partial, blob>>
      /\ Begun(c) /\ dl[c].removed = 0
  BY DEF CreatePart, Working, FilesInv, StageOK
<1>2. PICK k \in Parts : 
    /\ dl[c].parts = 0 .. k - 1 /\ dl[c].part = [p \in Parts |-> NoPart]
    /\ \A p \in Parts : /\ p < k => partFile[p] = 0
                        /\ p = k => partFile[p] \in {None, Torn}
                        /\ p > k => partFile[p] = None
  BY <1>1 DEF Begun
<1>3. partFile' = [partFile EXCEPT ![k] = Torn]
  BY <1>2, NextPartOfBegun DEF CreatePart
<1>4. Shape' /\ Unbegun' /\ BlobFull'
  BY <1>1, <1>3 DEF FilesInv, Shape, Unbegun, BlobFull
<1>5. Begun(c)'
  <2>1. \A p \in Parts : /\ p < k => partFile'[p] = 0
                         /\ p = k => partFile'[p] \in {None, Torn}
                         /\ p > k => partFile'[p] = None
    BY <1>2, <1>3 DEF FilesInv, Shape, Parts
  <2> QED BY <1>1, <1>2, <2>1 DEF Begun
<1>6. StageOK(c)'
  BY <1>1, <1>5 DEF StageOK
<1> QED BY <1>1, <1>4, <1>6, GoesOn DEF FilesInv

\* newPart writes it; it may be the last.
LEMMA EncodePartFiles ==
  ASSUME WriterInv, FilesInv, NEW c \in Calls, EncodePart(c)
  PROVE  FilesInv'
<1>1. stage[c] = "parts" /\ stage[c] \in Working /\ UNCHANGED <<partial, blob>>
      /\ Begun(c) /\ dl[c].removed = 0
  BY DEF EncodePart, Working, FilesInv, StageOK
<1>2. PICK k \in Parts : 
    /\ dl[c].parts = 0 .. k - 1 /\ dl[c].part = [p \in Parts |-> NoPart]
    /\ \A p \in Parts : /\ p < k => partFile[p] = 0
                        /\ p = k => partFile[p] \in {None, Torn}
                        /\ p > k => partFile[p] = None
  BY <1>1 DEF Begun
<1>k. k \in Nat /\ k <= LastPart /\ LastPart \in Nat
  BY LastPartBounds DEF Parts, LastPart
<1>3. /\ partFile' = [partFile EXCEPT ![k] = 0]
      /\ dl' = [dl EXCEPT ![c].parts = @ \cup {k}]
      /\ IF dl[c].parts \cup {k} = Parts
         THEN stage' = [stage EXCEPT ![c] = "spawned"] /\ MoveCall(c, "enter")
         ELSE UNCHANGED <<stage, call>>
  BY <1>2, NextPartOfBegun DEF EncodePart, Proceed
<1>4. /\ DOMAIN dl' = Calls /\ \A e \in Calls : DOMAIN dl'[e] = DOMAIN dl[e]
      /\ dl'[c].parts = 0 .. k /\ dl'[c].removed = 0 /\ dl'[c].part = [p \in Parts |-> NoPart]
      /\ \A e \in Calls : e # c => dl'[e] = dl[e]
  <2>1. (0 .. k - 1) \cup {k} = 0 .. k
    BY <1>k
  <2>2. dl'[c] = [dl[c] EXCEPT !.parts = 0 .. k]
    BY <1>2, <1>3, <2>1 DEF FilesInv, Shape
  <2> QED BY <1>1, <1>2, <1>3, <2>2 DEF FilesInv, Shape
<1>5. \A p \in Parts : partFile'[p] = IF p <= k THEN 0 ELSE None
  BY <1>2, <1>3, <1>k DEF FilesInv, Shape, Parts
<1>6. /\ DOMAIN call' = Calls
      /\ \A e \in Calls : DOMAIN call'[e] = DOMAIN call[e]
                          /\ (call'[e].at \in {"idle", "join"} => call[e].at \in {"idle", "join"})
      /\ \A e \in Calls : stage[e] = "none" => stage'[e] = "none"
      /\ \A e \in Calls : e # c => stage'[e] = stage[e]
  BY <1>1, <1>3 DEF FilesInv, Shape, MoveCall, WriterInv
<1>7. Shape' /\ Unbegun' /\ BlobFull'
  BY <1>1, <1>3, <1>4, <1>6 DEF FilesInv, Shape, Unbegun, BlobFull
<1>8. CASE 0 .. k = Parts
  <2>1. stage'[c] = "spawned"
    BY <1>2, <1>3, <1>4, <1>8 DEF WriterInv, FilesInv, Shape
  <2>2. \A p \in Parts : partFile'[p] = 0
    BY <1>5, <1>8, <1>k
  <2>3. AllStored'
    BY <2>2, PartBounds DEF AllStored, Stored, Covered
  <2>4. [p \in Parts |-> [NoPart EXCEPT !.done = partFile'[p]]] = [p \in Parts |-> NoPart]
    BY <2>2 DEF NoPart
  <2>5. StageOK(c)'
    BY <1>4, <1>8, <2>1, <2>3, <2>4 DEF StageOK, Ready
  <2> QED BY <1>1, <1>4, <1>6, <1>7, <2>1, <2>5, GoesOn DEF FilesInv, Working
<1>9. CASE 0 .. k # Parts
  <2>1. stage'[c] = "parts"
    <3>1. (0 .. k - 1) \cup {k} = 0 .. k
      BY <1>k
    <3> QED BY <1>1, <1>2, <1>3, <1>9, <3>1
  <2>2. k + 1 \in Parts
    BY <1>9, <1>k DEF Parts, LastPart
  <2>3. dl'[c].parts = 0 .. (k + 1) - 1
    BY <1>4, <1>k
  <2>4. \A p \in Parts : /\ p < k + 1 => partFile'[p] = 0
                         /\ p = k + 1 => partFile'[p] \in {None, Torn}
                         /\ p > k + 1 => partFile'[p] = None
    BY <1>5, <1>k DEF Parts
  <2>5. Begun(c)'
    BY <1>4, <2>2, <2>3, <2>4 DEF Begun
  <2>6. StageOK(c)'
    BY <1>4, <2>1, <2>5 DEF StageOK
  <2> QED BY <1>1, <1>4, <1>6, <1>7, <2>1, <2>6, GoesOn DEF FilesInv, Working
<1> QED BY <1>8, <1>9

\* run ends, and the files are sound.
LEMMA ReturnFiles ==
  ASSUME WriterInv, FilesInv, NEW d \in Calls, NEW failed, stage[d] \in Working, Return(d, failed),
         call' = call, DOMAIN partFile' = Parts, partial' \in Content \cup {None}, BlobFull',
         NoneStored' \/ AllStored'
  PROVE  FilesInv'
<1>1. Proceed(d, "returned") /\ \A e \in Calls : e # d => dl'[e] = dl[e]
  BY DEF Return, FilesInv, Shape
<1>2. Shape'
  <2>1. DOMAIN dl' = Calls
    BY DEF Return, FilesInv, Shape
  <2>2. dl'[d] = [NoDownload EXCEPT !.cancellable = TRUE, !.failed = failed,
                                    !.refs = dl[d].refs, !.cancelled = dl[d].cancelled]
    BY DEF Return, FilesInv, Shape
  <2>3. DOMAIN dl'[d] = {"refs", "cancellable", "cancelled", "failed", "parts", "part",
                         "completed", "removed"}
    BY <2>2 DEF NoDownload
  <2> QED BY <1>1, <2>1, <2>3 DEF FilesInv, Shape
<1>3. Unbegun'
  BY <1>1 DEF FilesInv, Unbegun, Proceed, WriterInv, Working
<1>4. AllOrNothing' /\ \A e \in Calls : StageOK(e)'
  BY <1>1, Stops DEF Working
<1> QED BY <1>2, <1>3, <1>4 DEF FilesInv

\* The partial file gets the length of the blob and keeps what it has.
LEMMA StartFiles ==
  ASSUME WriterInv, FilesInv, FaultsTyped, Undisturbed', NEW d \in Calls, Start(d)
  PROVE  FilesInv'
<1>1. /\ stage[d] = "spawned" /\ stage[d] \in Working /\ Ready(d) /\ dl[d].parts = Parts
      /\ dl[d].removed = 0
      /\ stage' = [stage EXCEPT ![d] = "direct"] /\ dl' = [dl EXCEPT ![d].cancellable = TRUE]
      /\ partial' = Cut(partial, BlobSize) /\ UNCHANGED <<call, partFile, blob>>
  BY DiskFaultDisturbs, TotalOfParts DEF Start, Proceed, FilesInv, StageOK, Working
<1>2. \A b \in Blocks : b < BlobSize
  BY DownloadAssumption DEF Blocks
<1>3. partial' \in Content /\ (partial \in Content => partial' = partial)
  <2>1. None \notin Content
    BY DownloadAssumption
  <2>2. CASE partial \in Content
    BY <1>1, <1>2, <2>1, <2>2 DEF Cut, Content
  <2>3. CASE partial = None
    BY <1>1, <2>1, <2>3 DEF Cut, Content
  <2> QED BY <2>2, <2>3 DEF FilesInv, Shape
<1>4. /\ DOMAIN dl' = Calls /\ \A e \in Calls : DOMAIN dl'[e] = DOMAIN dl[e]
      /\ dl'[d].parts = Parts /\ dl'[d].removed = 0 /\ dl'[d].part = dl[d].part
      /\ \A e \in Calls : e # d => dl'[e] = dl[e]
  BY <1>1 DEF FilesInv, Shape
<1>5. Shape' /\ Unbegun' /\ BlobFull'
  BY <1>1, <1>3, <1>4 DEF FilesInv, Shape, Unbegun, BlobFull, WriterInv
<1>6. Ready(d)'
  BY <1>1, <1>3, <1>4 DEF Ready, AllStored, Stored, Covered
<1>7. stage'[d] = "direct"
  BY <1>1 DEF WriterInv
<1>8. StageOK(d)'
  BY <1>3, <1>4, <1>6, <1>7 DEF StageOK
<1> QED BY <1>1, <1>4, <1>5, <1>7, <1>8, GoesOn DEF FilesInv, Working

\* The workers start where their part files end.
LEMMA DirectFiles ==
  ASSUME WriterInv, FilesInv, NEW d \in Calls, Direct(d)
  PROVE  FilesInv'
<1>1. /\ stage[d] = "direct" /\ stage[d] \in Working /\ Ready(d) /\ dl[d].parts = Parts
      /\ dl[d].removed = 0 /\ partial \in Content /\ UNCHANGED <<call, files>>
  BY DEF Direct, FilesInv, StageOK, Working
<1>2. BlobFull' /\ AllStored'
  BY <1>1 DEF FilesInv, BlobFull, files, Ready, AllStored, Stored, Covered
<1>3. CASE Return(d, TRUE)
  BY <1>1, <1>2, <1>3, ReturnFiles DEF FilesInv, Shape, files
<1>4. CASE Proceed(d, "fetch") /\ StartWorkers(d)
  <2> DEFINE q == [p \in Parts |-> [dl[d].part[p] EXCEPT !.at =
        IF p \in dl[d].parts /\ dl[d].part[p].done # Size(p) THEN "get" ELSE "ended"]]
  <2>1. dl' = [dl EXCEPT ![d].part = q]
    BY <1>4 DEF StartWorkers
  <2>2. /\ DOMAIN dl' = Calls /\ \A e \in Calls : DOMAIN dl'[e] = DOMAIN dl[e]
        /\ dl'[d].parts = Parts /\ dl'[d].removed = 0 /\ dl'[d].part = q
        /\ \A e \in Calls : e # d => dl'[e] = dl[e]
    <3> HIDE DEF q
    <3> QED BY <1>1, <2>1 DEF FilesInv, Shape
  <2>3. stage' = [stage EXCEPT ![d] = "fetch"] /\ stage'[d] = "fetch"
    BY <1>4 DEF Proceed, WriterInv
  <2>4. Shape' /\ Unbegun'
    <3> HIDE DEF q
    <3> QED BY <1>1, <2>2, <2>3 DEF FilesInv, Shape, Unbegun, files, WriterInv
  <2>5. Fetches(d)'
    <3>1. ASSUME NEW p \in Parts
          PROVE  WorkerOK(dl[d].part[p], p)' /\ dl'[d].part[p].at # "failed"
      <4> DEFINE w == dl'[d].part[p]
      <4>1. dl[d].part[p] = [NoPart EXCEPT !.done = partFile[p]]
        BY <1>1 DEF Ready
      <4>2. /\ partFile[p] \in Nat /\ partFile[p] <= Size(p) /\ partFile' = partFile
            /\ Stored(p)'
        BY <1>1, <1>2, PartBounds DEF Ready, AllStored, Stored, files
      <4>3. w = [at |-> IF partFile[p] # Size(p) THEN "get" ELSE "ended", done |-> partFile[p],
                 got |-> 0, try |-> 0, seen |-> FALSE, then |-> "ok"]
        <5>1. w = [dl[d].part[p] EXCEPT !.at =
                     IF p \in dl[d].parts /\ dl[d].part[p].done # Size(p) THEN "get" ELSE "ended"]
          BY <2>2
        <5>2. dl[d].part[p].done = partFile[p]
          BY <4>1 DEF NoPart
        <5>3. w = [dl[d].part[p] EXCEPT !.at = IF partFile[p] # Size(p) THEN "get" ELSE "ended"]
          BY <1>1, <5>1, <5>2
        <5> HIDE DEF w
        <5> QED BY <4>1, <5>3 DEF NoPart
      <4>4. /\ w \in Workers /\ w.done = partFile[p] /\ w.got = 0
            /\ w.at \in {"get", "ended"} /\ (w.at = "ended" => w.done = Size(p))
        BY <4>2, <4>3 DEF Workers
      <4>5. w.done + w.got = partFile'[p] /\ partFile'[p] <= Size(p)
        BY <4>2, <4>4
      <4> QED BY <4>2, <4>4, <4>5 DEF WorkerOK, Stored
    <3>2. DOMAIN q = Parts
      OBVIOUS
    <3> HIDE DEF q
    <3> QED BY <2>2, <3>1, <3>2 DEF Fetches
  <2>6. StageOK(d)'
    <3> HIDE DEF q
    <3> QED BY <1>1, <2>2, <2>3, <2>5 DEF StageOK, files
  <2> HIDE DEF q
  <2> QED BY <1>1, <1>2, <2>2, <2>3, <2>4, <2>6, GoesOn DEF FilesInv, Working
<1> QED BY <1>3, <1>4 DEF Direct

\* When all workers have ended well, every block is there.
LEMMA AllEndedFiles ==
  ASSUME WriterInv, FilesInv, NEW d \in Calls, AllEnded(d)
  PROVE  FilesInv'
<1>1. /\ stage[d] = "fetch" /\ stage[d] \in Working /\ Fetches(d) /\ dl[d].parts = Parts
      /\ dl[d].removed = 0 /\ partial \in Content /\ UNCHANGED <<call, files>>
      /\ \A p \in Parts : dl[d].part[p].at \in {"ended", "failed"}
  BY DEF AllEnded, FilesInv, StageOK, Working
<1>2. BlobFull' /\ AllStored /\ AllStored'
  <2>1. AllStored
    BY <1>1 DEF Fetches, WorkerOK, AllStored
  <2> QED BY <1>1, <2>1 DEF FilesInv, BlobFull, files, AllStored, Stored, Covered
<1>3. CASE Return(d, TRUE)
  BY <1>1, <1>2, <1>3, ReturnFiles DEF FilesInv, Shape, files
<1>4. CASE ~ dl[d].failed /\ Proceed(d, "remove") /\ UNCHANGED dl
  <2>1. stage' = [stage EXCEPT ![d] = "remove"] /\ stage'[d] = "remove"
    BY <1>4 DEF Proceed, WriterInv
  <2>2. Shape' /\ Unbegun'
    BY <1>1, <1>4, <2>1 DEF FilesInv, Shape, Unbegun, files, WriterInv
  <2>3. \A b \in Blocks : partial[b] # "hole"
    <3> SUFFICES ASSUME NEW b \in Blocks PROVE partial[b] # "hole"
      OBVIOUS
    <3>1. PICK p \in Parts : b - Offset(p) \in 0 .. Size(p) - 1
      BY PartOfBlock
    <3>2. dl[d].part[p].done = Size(p) /\ dl[d].part[p].got = 0
      <4>1. WorkerOK(dl[d].part[p], p) /\ dl[d].part[p].at = "ended"
        BY <1>1, <1>4 DEF Fetches
      <4>2. dl[d].part[p].done = Size(p) /\ dl[d].part[p].got \in Nat
            /\ dl[d].part[p].done + dl[d].part[p].got <= Size(p)
        BY <4>1 DEF WorkerOK, Workers
      <4> QED BY <4>2, PartBounds
    <3>3. Covered(p, Size(p)) /\ Size(p) # 0
      <4>1. WorkerOK(dl[d].part[p], p) /\ Size(p) + 0 = Size(p)
        BY <1>1, PartBounds DEF Fetches
      <4> QED BY <3>2, <4>1, PartBounds DEF WorkerOK
    <3>4. partial[Offset(p) + (b - Offset(p))] # "hole"
      BY <3>1, <3>3 DEF Covered
    <3>5. Offset(p) + (b - Offset(p)) = b
      BY PartBounds, DownloadAssumption DEF Blocks
    <3> QED BY <3>4, <3>5
  <2>4. Removes(d)'
    BY <1>1, <1>2, <1>4, <2>3, PartBounds DEF Removes, AllStored, files, Parts
  <2>5. StageOK(d)'
    BY <1>1, <1>4, <2>1, <2>4 DEF StageOK, files
  <2> QED BY <1>1, <1>2, <1>4, <2>1, <2>2, <2>5, GoesOn DEF FilesInv, Working
<1> QED BY <1>3, <1>4 DEF AllEnded

\* A part file is removed.
LEMMA RemovePartFileFiles ==
  ASSUME WriterInv, FilesInv, FaultsTyped, Undisturbed', NEW d \in Calls, RemovePartFile(d)
  PROVE  FilesInv'
<1> DEFINE i == dl[d].removed
<1>1. /\ stage[d] = "remove" /\ stage[d] \in Working /\ Removes(d) /\ dl[d].parts = Parts
      /\ partial \in Content /\ i < Cardinality(dl[d].parts)
      /\ UNCHANGED <<call, partial, blob>>
  BY DEF RemovePartFile, FilesInv, StageOK, Working
<1>2. i \in Nat /\ i \in Parts
  <2>1. Cardinality(Parts) = LastPart + 1 /\ LastPart \in Nat
    BY FS_Interval, LastPartBounds DEF Parts, LastPart
  <2>2. i \in Nat /\ i < LastPart + 1
    BY <1>1, <2>1 DEF Removes
  <2> QED BY <2>1, <2>2 DEF Parts, LastPart
<1>3. Stored(i) /\ partFile[i] # None
  <2>1. Stored(i)
    BY <1>1, <1>2 DEF Removes
  <2> QED BY <2>1, <1>2, PartBounds, DownloadAssumption DEF Stored
<1>4. /\ partFile' = [partFile EXCEPT ![i] = None]
      /\ dl' = [dl EXCEPT ![d].removed = @ + 1] /\ UNCHANGED stage
  BY <1>3, DiskFaultDisturbs DEF RemovePartFile
<1>5. /\ DOMAIN dl' = Calls /\ \A e \in Calls : DOMAIN dl'[e] = DOMAIN dl[e]
      /\ dl'[d].parts = Parts /\ dl'[d].removed = i + 1
      /\ \A e \in Calls : e # d => dl'[e] = dl[e]
  BY <1>1, <1>4 DEF FilesInv, Shape
<1>6. Shape' /\ Unbegun' /\ BlobFull'
  BY <1>1, <1>4, <1>5 DEF FilesInv, Shape, Unbegun, BlobFull
<1>7. Removes(d)'
  <2>1. \A p \in Parts : IF p < i + 1 THEN partFile'[p] = None ELSE Stored(p)'
    <3> SUFFICES ASSUME NEW p \in Parts PROVE IF p < i + 1 THEN partFile'[p] = None ELSE Stored(p)'
      OBVIOUS
    <3>1. p \in Nat /\ (p = i \/ p < i \/ p > i)
      BY <1>2 DEF Parts
    <3>2. CASE p = i
      BY <1>2, <1>4, <3>2 DEF FilesInv, Shape
    <3>3. CASE p < i
      BY <1>1, <1>2, <1>4, <3>1, <3>3 DEF FilesInv, Shape, Removes
    <3>4. CASE p > i
      BY <1>1, <1>2, <1>4, <3>1, <3>4 DEF FilesInv, Shape, Removes, Stored, Covered
    <3> QED BY <3>1, <3>2, <3>3, <3>4
  <2> QED BY <1>1, <1>2, <1>5, <2>1 DEF Removes
<1>8. StageOK(d)'
  BY <1>1, <1>4, <1>5, <1>7 DEF StageOK
<1> QED BY <1>1, <1>4, <1>5, <1>6, <1>8, GoesOn DEF FilesInv

\* The partial file becomes the blob.
LEMMA RenameFiles ==
  ASSUME WriterInv, FilesInv, FaultsTyped, Undisturbed', NEW d \in Calls, Rename(d)
  PROVE  FilesInv'
<1>1. /\ stage[d] = "remove" /\ stage[d] \in Working /\ Removes(d) /\ dl[d].parts = Parts
      /\ partial \in Content /\ dl[d].removed = Cardinality(dl[d].parts)
      /\ blob' = partial /\ partial' = None /\ Return(d, FALSE) /\ UNCHANGED <<call, partFile>>
  BY DiskFaultDisturbs DEF Rename, FilesInv, StageOK, Working
<1>2. NoneStored'
  <2>1. Cardinality(Parts) = LastPart + 1 /\ LastPart \in Nat
    BY FS_Interval, LastPartBounds DEF Parts, LastPart
  <2>2. \A p \in Parts : p < LastPart + 1
    BY <2>1 DEF Parts, LastPart
  <2> QED BY <1>1, <2>1, <2>2 DEF Removes, NoneStored
<1>3. BlobFull'
  BY <1>1 DEF Removes, BlobFull
<1> QED BY <1>1, <1>2, <1>3, ReturnFiles DEF FilesInv, Shape

\* After this step the first n blocks of part p have been written.
WrittenNext(p, n) == \A i \in 0 .. n - 1 : partial'[Offset(p) + i] # "hole"

\* A worker of part p goes on as w.
LEMMA UpdateFiles ==
  ASSUME WriterInv, FilesInv, NEW d \in Calls, NEW p \in Parts, stage[d] = "fetch",
         NEW w \in Workers, NEW n, Update(d, p, w, n),
         w.done + w.got <= Size(p), WrittenNext(p, w.done + w.got),
         IF w.at = "encode" THEN partFile'[p] = Torn ELSE Stored(p)',
         w.at = "ended" => w.done = Size(p),
         w.at \in {"save", "encode"} => w.got = 0 /\ (w.then = "ok" => w.done = Size(p)),
         blob' = blob, partial' \in Content, DOMAIN partFile' = Parts,
         \A b \in Blocks : partial[b] # "hole" => partial'[b] # "hole",
         \A q \in Parts : q # p => partFile'[q] = partFile[q]
  PROVE  FilesInv'
<1>1. /\ stage[d] \in Working /\ Fetches(d) /\ dl[d].parts = Parts
      /\ dl[d].removed = 0 /\ partial \in Content /\ UNCHANGED <<call, stage>>
  BY DEF FilesInv, StageOK, Working, Update
<1>2. dl' = [dl EXCEPT ![d] = [@ EXCEPT !.part[p] = w, !.completed = dl[d].completed + n,
                      !.failed = dl[d].failed \/ w.at = "failed"]]
  BY DEF Update
<1>3. /\ DOMAIN dl' = Calls /\ \A e \in Calls : e # d => dl'[e] = dl[e]
      /\ dl'[d] = [dl[d] EXCEPT !.part[p] = w, !.completed = @ + n,
                                !.failed = @ \/ w.at = "failed"]
  BY <1>2 DEF FilesInv, Shape
<1>4. /\ DOMAIN dl'[d] = DOMAIN dl[d] /\ dl'[d].parts = dl[d].parts
      /\ dl'[d].removed = dl[d].removed
      /\ dl'[d].part = [dl[d].part EXCEPT ![p] = w]
      /\ dl'[d].failed = (dl[d].failed \/ w.at = "failed")
  BY <1>3 DEF FilesInv, Shape
<1>5. Shape' /\ Unbegun' /\ BlobFull'
  BY <1>1, <1>3, <1>4, ZenonT(120) DEF FilesInv, Shape, Unbegun, BlobFull
<1>6. Fetches(d)'
  <2>1. DOMAIN dl'[d].part = Parts /\ dl'[d].part[p] = w
        /\ \A q \in Parts : q # p => dl'[d].part[q] = dl[d].part[q]
    BY <1>1, <1>4 DEF Fetches
  <2>2. WorkerOK(dl[d].part[p], p)' /\ (dl'[d].part[p].at = "failed" => dl'[d].failed)
    BY <1>4, <2>1 DEF WorkerOK, Covered, WrittenNext
  <2>3. ASSUME NEW q \in Parts, q # p
        PROVE  WorkerOK(dl[d].part[q], q)' /\ (dl'[d].part[q].at = "failed" => dl'[d].failed)
    <3>1. WorkerOK(dl[d].part[q], q) /\ (dl[d].part[q].at = "failed" => dl[d].failed)
      BY <1>1 DEF Fetches
    <3>2. partFile'[q] = partFile[q] /\ dl'[d].part[q] = dl[d].part[q]
      BY <2>1, <2>3
    <3>3. ASSUME NEW k \in Nat, k <= Size(q), Covered(q, k) PROVE Covered(q, k)'
      <4>1. \A i \in 0 .. k - 1 : Offset(q) + i \in Blocks
        BY <3>3, PartBounds, DownloadAssumption DEF Blocks
      <4> QED BY <3>3, <4>1 DEF Covered
    <3>4. Stored(q) => Stored(q)'
      <4>1. SUFFICES ASSUME Stored(q) PROVE Stored(q)'
        OBVIOUS
      <4>2. partFile[q] \in Nat /\ partFile[q] <= Size(q) /\ Covered(q, partFile[q])
        BY <4>1, PartBounds DEF Stored
      <4>3. \A k \in Nat : k <= Size(q) /\ Covered(q, k) => Covered(q, k)'
        BY <3>3
      <4> QED BY <3>2, <4>1, <4>2, <4>3 DEF Stored, Covered
    <3>5. LET k == dl[d].part[q].done + dl[d].part[q].got IN
            k # 0 => \A i \in 0 .. k - 1 : partial'[Offset(q) + i] # "hole"
      <4> DEFINE k == dl[d].part[q].done + dl[d].part[q].got
      <4>1. k \in Nat /\ k <= Size(q) /\ Covered(q, k)
        BY <3>1 DEF WorkerOK, Workers
      <4> HIDE DEF k
      <4>2. \A i \in 0 .. k - 1 : Offset(q) + i \in Blocks
        BY <4>1, PartBounds, DownloadAssumption DEF Blocks
      <4>3. k # 0 => \A i \in 0 .. k - 1 : partial'[Offset(q) + i] # "hole"
        BY <4>1, <4>2 DEF Covered
      <4> QED BY <4>3 DEF k
    <3> QED BY <1>4, <3>1, <3>2, <3>4, <3>5 DEF WorkerOK, Covered
  <2> QED BY <2>1, <2>2, <2>3 DEF Fetches
<1>7. StageOK(d)'
  BY <1>1, <1>4, <1>6 DEF StageOK
<1> QED BY <1>1, <1>3, <1>5, <1>7, GoesOn DEF FilesInv

\* What is known of the worker of a part, and of the files beside it.
LEMMA WorkerFacts ==
  ASSUME WriterInv, FilesInv, NEW d \in Calls, NEW p \in Parts, stage[d] = "fetch"
  PROVE  LET w == dl[d].part[p] IN
         /\ w \in Workers /\ WorkerOK(w, p) /\ partial \in Content /\ DOMAIN partFile = Parts
         /\ w.done \in Nat /\ w.got \in Nat /\ w.done + w.got <= Size(p) /\ w.done <= Size(p)
         /\ \A i \in 0 .. w.done + w.got - 1 : partial[Offset(p) + i] # "hole"
         /\ \A i \in 0 .. w.done - 1 : partial[Offset(p) + i] # "hole"
<1> DEFINE w == dl[d].part[p]
<1>1. WorkerOK(w, p) /\ partial \in Content /\ DOMAIN partFile = Parts
  BY DEF FilesInv, Shape, StageOK, Fetches
<1> HIDE DEF w
<1>2. w \in Workers /\ w.done \in Nat /\ w.got \in Nat /\ w.done + w.got <= Size(p)
  BY <1>1 DEF WorkerOK, Workers
<1>3. w.done <= Size(p)
  BY <1>2, PartBounds
<1>4. \A i \in 0 .. w.done + w.got - 1 : partial[Offset(p) + i] # "hole"
  BY <1>1, <1>2 DEF WorkerOK, Covered
<1>5. \A i \in 0 .. w.done - 1 : i \in 0 .. w.done + w.got - 1
  BY <1>2
<1>6. \A i \in 0 .. w.done - 1 : partial[Offset(p) + i] # "hole"
  BY <1>4, <1>5
<1> QED BY <1>1, <1>2, <1>3, <1>4, <1>6 DEF w

\* Steps of a worker that leave the files alone.
LEMMA QuietUpdate ==
  ASSUME WriterInv, FilesInv, NEW d \in Calls, NEW p \in Parts, stage[d] = "fetch",
         NEW w \in Workers, NEW n, Update(d, p, w, n), UNCHANGED files, 
         dl[d].part[p].at # "encode", w.at # "encode",
         \/ w.done = dl[d].part[p].done /\ w.got \in {0, dl[d].part[p].got}
         \/ w.done = dl[d].part[p].done + dl[d].part[p].got /\ w.got = 0,
         w.at = "ended" => w.done = Size(p),
         w.at \in {"save", "encode"} => w.got = 0 /\ (w.then = "ok" => w.done = Size(p))
  PROVE  FilesInv'
<1>1. w.done + w.got <= Size(p) /\ WrittenNext(p, w.done + w.got)
  <2>1. w.done + w.got \in {dl[d].part[p].done, dl[d].part[p].done + dl[d].part[p].got}
    BY WorkerFacts
  <2> QED BY <2>1, WorkerFacts DEF WrittenNext, files
<1>2. Stored(p)'
  BY WorkerFacts DEF WorkerOK, Stored, Covered, files
<1>3. partial' \in Content /\ DOMAIN partFile' = Parts /\ blob' = blob
  BY WorkerFacts DEF files
<1> QED BY <1>1, <1>2, <1>3, UpdateFiles DEF files

\* What Save makes of a worker.
LEMMA SavedWorker ==
  ASSUME NEW w \in Workers, NEW then \in {"ok", "retry", "cancel", "stall"}, NEW seen \in BOOLEAN
  PROVE  LET v == [Save(w, then) EXCEPT !.seen = seen] IN
         /\ v \in Workers /\ v.at = "save" /\ v.then = then /\ v.got = 0
         /\ v.done = w.done + w.got
         /\ Save(w, then) = [Save(w, then) EXCEPT !.seen = w.seen] /\ w.seen \in BOOLEAN
<1>1. w.done \in Nat /\ w.got \in Nat /\ w.seen \in BOOLEAN /\ w.done + w.got \in Nat
  BY DEF Workers
<1>2. Save(w, then) \in Workers
  BY <1>1 DEF Save, Workers
<1>3. Save(w, then).at = "save" /\ Save(w, then).then = then /\ Save(w, then).got = 0
  BY DEF Save, Workers
<1>4. Save(w, then).done = w.done + w.got
  BY DEF Save, Workers
<1>5. Save(w, then).seen = w.seen
  BY DEF Save, Workers
<1> DEFINE u == Save(w, then)
           v == [u EXCEPT !.seen = seen]
<1> HIDE DEF u
<1>6. v \in Workers /\ v.at = u.at /\ v.then = u.then /\ v.got = u.got /\ v.done = u.done
  BY <1>2 DEF Workers, u
<1>7. u = [u EXCEPT !.seen = w.seen]
  BY <1>2, <1>5 DEF Workers, u
<1> QED BY <1>1, <1>3, <1>4, <1>6, <1>7 DEF u

\* The same for Ended.
LEMMA EndedWorker ==
  ASSUME NEW w \in Workers, NEW at \in {"ended", "failed"}
  PROVE  LET v == Ended(w, at) IN
         v \in Workers /\ v.at = at /\ v.got = 0 /\ v.done = w.done
<1>1. w.done \in Nat
  BY DEF Workers
<1>2. NoPart \in Workers /\ NoPart.got = 0
  BY DEF NoPart, Workers
<1> HIDE DEF NoPart
<1> QED BY <1>1, <1>2 DEF Ended, Workers

\* The same for Retry.
LEMMA RetriedWorker ==
  ASSUME NEW w \in Workers
  PROVE  LET v == Retry(w) IN
         v \in Workers /\ v.at \in {"get", "failed"} /\ v.got \in {0, w.got} /\ v.done = w.done
<1>1. CASE w.try + 1 = MaxRetries
  BY <1>1, EndedWorker DEF Retry
<1>2. CASE w.try + 1 # MaxRetries
  <2> DEFINE n == w.try + 1
             v == [w EXCEPT !.at = "get", !.try = n, !.then = "ok"]
  <2>1. n \in Nat /\ Retry(w) = v
    BY <1>2 DEF Retry, Workers
  <2> HIDE DEF n
  <2>2. v \in Workers
    BY <2>1 DEF Workers
  <2>3. v.at = "get" /\ v.got = w.got /\ v.done = w.done
    BY <2>1 DEF Workers
  <2> QED BY <2>1, <2>2, <2>3
<1> QED BY <1>1, <1>2

\* The same for Rollback.
LEMMA RolledBackWorker ==
  ASSUME NEW w \in Workers
  PROVE  LET v == Rollback(w) IN v \in Workers /\ v.at = w.at /\ v.got = 0 /\ v.done = w.done
BY DEF Rollback, Workers

\* The same for Outcome.
LEMMA OutcomeWorker ==
  ASSUME NEW w \in Workers, w.got = 0
  PROVE  LET v == Outcome(w) IN
         /\ v \in Workers /\ v.got = 0 /\ v.done = w.done
         /\ v.at \in {"get", "ended", "failed"} /\ (v.at = "ended" => w.then = "ok")
<1>1. w.then \in {"ok", "retry", "cancel", "stall"}
  BY DEF Workers
<1>2. CASE w.then = "stall"
  <2>1. Outcome(w) = [w EXCEPT !.at = "get", !.then = "ok"]
    BY <1>2 DEF Outcome
  <2> QED BY <2>1 DEF Workers
<1>3. CASE w.then = "ok"
  <2>1. Outcome(w) = Ended(w, "ended")
    BY <1>3 DEF Outcome
  <2> QED BY <1>3, <2>1, EndedWorker
<1>4. CASE w.then = "cancel"
  <2>1. Outcome(w) = Ended(w, "failed")
    BY <1>4 DEF Outcome
  <2> QED BY <2>1, EndedWorker
<1>5. CASE w.then = "retry"
  <2>1. Outcome(w) = Retry(w)
    BY <1>5 DEF Outcome
  <2> QED BY <2>1, RetriedWorker
<1> QED BY <1>1, <1>2, <1>3, <1>4, <1>5

\* A block arrives behind those that are there.
LEMMA ReceiveFiles ==
  ASSUME WriterInv, FilesInv, NEW d \in Calls, NEW p \in Parts, Receive(d, p)
  PROVE  FilesInv'
<1> DEFINE w == dl[d].part[p]
           v == [w EXCEPT !.got = @ + 1, !.seen = TRUE]
           b == Offset(p) + w.done + w.got
<1>1. /\ stage[d] = "fetch" /\ w.at = "get" /\ w.got < Size(p) - w.done
      /\ Update(d, p, v, 1) /\ UNCHANGED <<partFile, blob>>
      /\ partial' = [partial EXCEPT ![b] = "good"] \/ partial' = [partial EXCEPT ![b] = "bad"]
  BY DEF Receive, Fetching, StartsAt
<1>2. /\ w \in Workers /\ WorkerOK(w, p) /\ partial \in Content /\ DOMAIN partFile = Parts
      /\ w.done \in Nat /\ w.got \in Nat
      /\ \A i \in 0 .. w.done + w.got - 1 : partial[Offset(p) + i] # "hole"
  BY <1>1, WorkerFacts
<1> HIDE DEF w
<1>3. v \in Workers /\ v.at = "get" /\ v.done = w.done /\ v.got = w.got + 1
  <2>1. w.got + 1 \in Nat
    BY <1>2
  <2>2. v \in Workers
    BY <1>2, <2>1 DEF Workers
  <2>3. v.at = w.at /\ v.done = w.done /\ v.got = w.got + 1
    BY <1>2 DEF Workers
  <2> QED BY <1>1, <2>2, <2>3
<1> HIDE DEF v
<1>4. b \in Blocks /\ b = Offset(p) + (w.done + w.got)
  BY <1>1, <1>2, PartBounds, DownloadAssumption DEF Blocks
<1> HIDE DEF b
<1>5. /\ partial' \in Content /\ partial'[b] # "hole"
      /\ \A c \in Blocks : c # b => partial'[c] = partial[c]
  BY <1>1, <1>2, <1>4 DEF Content
<1>6. v.done + v.got = w.done + w.got + 1 /\ v.done + v.got <= Size(p)
  BY <1>1, <1>2, <1>3, PartBounds
<1>7. WrittenNext(p, v.done + v.got)
  <2> DEFINE n == w.done + w.got
  <2>n. n \in Nat /\ v.done + v.got = n + 1
    BY <1>2, <1>6
  <2> SUFFICES ASSUME NEW i \in 0 .. n PROVE partial'[Offset(p) + i] # "hole"
    BY <2>n DEF WrittenNext
  <2>1. CASE i = w.done + w.got
    BY <1>4, <1>5, <2>1
  <2>2. CASE i # w.done + w.got
    <3>1. i \in 0 .. w.done + w.got - 1
      BY <1>2, <2>n, <2>2
    <3>2. Offset(p) + i \in Blocks /\ Offset(p) + i # b
      BY <1>2, <1>4, <1>6, <2>n, <3>1, PartBounds, DownloadAssumption DEF Blocks
    <3> QED BY <1>2, <1>5, <3>1, <3>2
  <2> QED BY <2>1, <2>2
<1>8. Stored(p)'
  <2>1. Stored(p) /\ partFile' = partFile
    BY <1>1, <1>2 DEF WorkerOK
  <2>2. \A i \in 0 .. partFile[p] - 1 : Offset(p) + i \in Blocks
    BY <2>1, PartBounds, DownloadAssumption DEF Stored, Blocks
  <2> QED BY <1>5, <2>1, <2>2 DEF Stored, Covered
<1>9. \A c \in Blocks : partial[c] # "hole" => partial'[c] # "hole"
  BY <1>5
<1> QED BY <1>1, <1>2, <1>3, <1>5, <1>6, <1>7, <1>8, <1>9, UpdateFiles

\* The attempts that end, or are given another try, without a file operation.
LEMMA AttemptFiles ==
  ASSUME WriterInv, FilesInv, FaultsTyped, Undisturbed', NEW d \in Calls, NEW p \in Parts,
         AllReceived(d, p) \/ Watchdog(d, p) \/ Stop(d, p) \/ Break(d, p) \/ FallSilent(d, p)
  PROVE  FilesInv'
<1> DEFINE w == dl[d].part[p]
<1>1. stage[d] = "fetch" /\ w.at \in {"get", "silent"} /\ UNCHANGED files
  BY DEF AllReceived, Watchdog, Stop, Break, FallSilent, Fetching
<1>2. w \in Workers /\ w.done \in Nat /\ w.got \in Nat /\ w.done + w.got <= Size(p)
  BY <1>1, WorkerFacts
<1>3. ASSUME NEW then \in {"retry", "cancel", "stall"}, NEW seen \in BOOLEAN,
             Update(d, p, [Save(w, then) EXCEPT !.seen = seen], 0)
      PROVE  FilesInv'
  <2> DEFINE v == [Save(w, then) EXCEPT !.seen = seen]
  <2> HIDE DEF w
  <2>1. /\ v \in Workers /\ v.at = "save" /\ v.then = then /\ v.got = 0
        /\ v.done = w.done + w.got
    BY <1>2, SavedWorker
  <2> HIDE DEF v
  <2> QED BY <1>1, <1>3, <2>1, QuietUpdate DEF w, v
<1>4. ASSUME NEW n, Update(d, p, Retry(Rollback(w)), n) PROVE FilesInv'
  <2> DEFINE v == Retry(Rollback(w))
  <2> HIDE DEF w
  <2>1. v \in Workers /\ v.at \in {"get", "failed"} /\ v.got = 0 /\ v.done = w.done
    BY <1>2, RolledBackWorker, RetriedWorker
  <2> HIDE DEF v
  <2> QED BY <1>1, <1>4, <2>1, QuietUpdate DEF w, v
<1>5. CASE AllReceived(d, p)
  <2> DEFINE v == Save(w, "ok")
  <2>1. Update(d, p, v, 0) /\ w.got = Size(p) - w.done
    BY <1>5 DEF AllReceived
  <2> HIDE DEF w
  <2>2. /\ v \in Workers /\ v.at = "save" /\ v.then = "ok" /\ v.got = 0
        /\ v.done = w.done + w.got /\ v.done = Size(p)
    <3>1. Save(w, "ok") = [Save(w, "ok") EXCEPT !.seen = w.seen] /\ w.seen \in BOOLEAN
      BY <1>2, SavedWorker
    <3>2. /\ v \in Workers /\ v.at = "save" /\ v.then = "ok" /\ v.got = 0
          /\ v.done = w.done + w.got
      BY <1>2, <3>1, SavedWorker
    <3> HIDE DEF v
    <3> QED BY <1>2, <2>1, <3>2, PartBounds
  <2> HIDE DEF v
  <2> QED BY <1>1, <2>1, <2>2, QuietUpdate DEF w
<1>6. CASE Watchdog(d, p)
  BY <1>3, <1>6 DEF Watchdog
<1>7. CASE Stop(d, p)
  <2>1. CASE Update(d, p, Save(w, "cancel"), 0)
    <3>1. Save(w, "cancel") = [Save(w, "cancel") EXCEPT !.seen = w.seen] /\ w.seen \in BOOLEAN
      BY <1>2, SavedWorker
    <3> QED BY <1>3, <2>1, <3>1
  <2>2. CASE w.got = 0 /\ Update(d, p, Ended(w, "failed"), 0)
    <3> DEFINE v == Ended(w, "failed")
    <3> HIDE DEF w
    <3>1. v \in Workers /\ v.at = "failed" /\ v.got = 0 /\ v.done = w.done
      BY <1>2, <2>2, EndedWorker
    <3> HIDE DEF v
    <3> QED BY <1>1, <2>2, <3>1, QuietUpdate DEF w, v
  <2> QED BY <1>7, <2>1, <2>2 DEF Stop
<1>8. CASE Break(d, p)
  <2>1. CASE Update(d, p, Save(w, "retry"), 0)
    <3>1. Save(w, "retry") = [Save(w, "retry") EXCEPT !.seen = w.seen] /\ w.seen \in BOOLEAN
      BY <1>2, SavedWorker
    <3> QED BY <1>3, <2>1, <3>1
  <2> QED BY <1>4, <1>8, <2>1 DEF Break
<1>9. CASE FallSilent(d, p)
  <2> DEFINE v == [w EXCEPT !.at = "silent"]
  <2>1. Update(d, p, v, 0)
    BY <1>9 DEF FallSilent
  <2> HIDE DEF w
  <2>2. v \in Workers /\ v.at = "silent" /\ v.got = w.got /\ v.done = w.done
    BY <1>2 DEF Workers
  <2>3. /\ dl[d].part[p].at # "encode" /\ v.at \notin {"ended", "save", "encode"}
        /\ v.done = dl[d].part[p].done /\ v.got = dl[d].part[p].got
    BY <1>1, <2>2 DEF w
  <2> HIDE DEF v
  <2> QED BY <1>1, <2>1, <2>2, <2>3, QuietUpdate DEF w
<1> QED BY <1>5, <1>6, <1>7, <1>8, <1>9

\* writePart opens the part file.
LEMMA OpenPartFileFiles ==
  ASSUME WriterInv, FilesInv, NEW d \in Calls, NEW p \in Parts, OpenPartFile(d, p)
  PROVE  FilesInv'
<1> DEFINE w == dl[d].part[p]
           v == [w EXCEPT !.at = "encode"]
<1>1. /\ stage[d] = "fetch" /\ w.at = "save" /\ Update(d, p, v, 0)
      /\ UNCHANGED <<partial, blob>> /\ partFile' = [partFile EXCEPT ![p] = Torn]
  BY DEF OpenPartFile, Fetching
<1>2. /\ w \in Workers /\ WorkerOK(w, p) /\ partial \in Content /\ DOMAIN partFile = Parts
      /\ w.done \in Nat /\ w.got \in Nat /\ w.done + w.got <= Size(p)
      /\ \A i \in 0 .. w.done + w.got - 1 : partial[Offset(p) + i] # "hole"
  BY <1>1, WorkerFacts
<1> HIDE DEF w
<1>3. v \in Workers /\ v.at = "encode" /\ v.then = w.then /\ v.got = w.got /\ v.done = w.done
  BY <1>2 DEF Workers
<1> HIDE DEF v
<1>4. WrittenNext(p, v.done + v.got)
  BY <1>1, <1>2, <1>3 DEF WrittenNext
<1>5. v.at \in {"save", "encode"} => v.got = 0 /\ (v.then = "ok" => v.done = Size(p))
  BY <1>1, <1>2, <1>3 DEF WorkerOK
<1> QED BY <1>1, <1>2, <1>3, <1>4, <1>5, UpdateFiles

\* writePart writes what the worker has counted.
LEMMA WritePartFileFiles ==
  ASSUME WriterInv, FilesInv, NEW d \in Calls, NEW p \in Parts, WritePartFile(d, p)
  PROVE  FilesInv'
<1> DEFINE w == dl[d].part[p]
           v == Outcome(w)
<1>1. /\ stage[d] = "fetch" /\ w.at = "encode" /\ Update(d, p, v, 0)
      /\ UNCHANGED <<partial, blob>> /\ partFile' = [partFile EXCEPT ![p] = w.done]
  BY DEF WritePartFile, Fetching
<1>2. /\ w \in Workers /\ WorkerOK(w, p) /\ partial \in Content /\ DOMAIN partFile = Parts
      /\ w.done \in Nat /\ w.got \in Nat /\ w.done <= Size(p)
      /\ \A i \in 0 .. w.done - 1 : partial[Offset(p) + i] # "hole"
  BY <1>1, WorkerFacts
<1> HIDE DEF w
<1>3. w.got = 0 /\ (w.then = "ok" => w.done = Size(p))
  BY <1>1, <1>2 DEF WorkerOK
<1>4. /\ v \in Workers /\ v.got = 0 /\ v.done = w.done /\ v.at \in {"get", "ended", "failed"}
      /\ (v.at = "ended" => w.then = "ok")
  BY <1>2, <1>3, OutcomeWorker
<1> HIDE DEF v
<1>5. WrittenNext(p, v.done + v.got) /\ v.done + v.got <= Size(p)
  BY <1>1, <1>2, <1>4 DEF WrittenNext
<1>6. Stored(p)'
  BY <1>1, <1>2, PartBounds DEF Stored, Covered
<1> QED BY <1>1, <1>2, <1>3, <1>4, <1>5, <1>6, UpdateFiles

\* Whatever fails that is not a file operation leaves the files sound.
LEMMA FilesStep ==
  ASSUME WriterInv, FilesInv, FaultsTyped, Undisturbed', Next
  PROVE  FilesInv'
<1>1. ~ Restart
  BY DEF FaultsTyped, Undisturbed, Restart
<1>2. ASSUME NEW c \in Calls, Begin(c) \/ Leave(c) PROVE FilesInv'
  BY <1>2, CallFiles
<1>3. ASSUME NEW c \in Calls, Pull(c) PROVE FilesInv'
  <2>1. CASE Join(c)
    BY <2>1, JoinFiles
  <2>2. CASE Glob(c) \/ Head(c)
    BY <2>2, GlobFiles, HeadFiles
  <2>3. CASE CreatePart(c) \/ EncodePart(c)
    BY <2>3, CreatePartFiles, EncodePartFiles
  <2>4. ~ NewPartFails(c)
    BY DiskFaultDisturbs DEF NewPartFails
  <2>5. CASE Acquire(c) \/ Answered(c) \/ GiveUp(c)
    BY <2>5, WaitFiles
  <2>6. ~ Panic(c)
    BY <1>1 DEF Panic
  <2>7. CASE ReportToNobody(c) \/ Verify(c) \/ RemoveMismatch(c) \/ Install(c)
    BY <2>7, CallFiles
  <2> QED BY <1>3, <2>1, <2>2, <2>3, <2>4, <2>5, <2>6, <2>7 DEF Pull, Prepare
<1>4. ASSUME NEW d \in Calls, Run(d) PROVE FilesInv'
  BY <1>4, StartFiles, DirectFiles, AllEndedFiles, RemovePartFileFiles, RenameFiles, CloseFiles
     DEF Run
<1>5. ASSUME NEW d \in Calls, NEW p \in Parts, Work(d, p) \/ Trouble(d, p) PROVE FilesInv'
  <2>1. ~ WriteFails(d, p) /\ ~ WritePartFails(d, p)
    BY DiskFaultDisturbs DEF WriteFails, WritePartFails
  <2> QED BY <1>5, <2>1, ReceiveFiles, AttemptFiles, OpenPartFileFiles, WritePartFileFiles
          DEF Work, Trouble
<1> QED BY <1>1, <1>2, <1>3, <1>4, <1>5 DEF Next, Crash

\* Faults are counted and never taken back.
LEMMA FaultsStep ==
  ASSUME FaultsTyped, [Next]_vars
  PROVE  FaultsTyped' /\ MoreFaults /\ (Undisturbed' => Undisturbed)
<1> DEFINE Moves == UNCHANGED faults \/ NetFault \/ DiskFault \/ Corruption \/ Restart
<1> USE DEF FaultsTyped, MoreFaults, Undisturbed, NetFault, DiskFault, Corruption
<1>1. CASE UNCHANGED faults
  BY <1>1
<1>2. CASE NetFault \/ DiskFault \/ Corruption
  BY <1>2
<1>3. CASE Restart
  BY <1>3 DEF Restart
<1>4. Moves
  <2>1. CASE UNCHANGED vars
    BY <2>1 DEF vars
  <2>2. CASE Crash
    BY <2>2 DEF Crash
  <2>3. ASSUME NEW c \in Calls, Begin(c) \/ Leave(c) \/ Pull(c) PROVE Moves
    BY <2>3 DEF Begin, Leave, Pull, Join, Prepare, Glob, Head, CreatePart, EncodePart,
       NewPartFails, Acquire, Answered, GiveUp, Panic, ReportToNobody, Verify, RemoveMismatch,
       Install, Release
  <2>4. ASSUME NEW d \in Calls, Run(d) PROVE Moves
    BY <2>4 DEF Run, Start, Direct, AllEnded, RemovePartFile, Rename, Close
  <2>5. ASSUME NEW d \in Calls, NEW p \in Parts, Work(d, p) \/ Trouble(d, p) PROVE Moves
    BY <2>5 DEF Work, Trouble, Receive, AllReceived, Watchdog, Stop, OpenPartFile, WritePartFile,
       Break, WriteFails, FallSilent, WritePartFails
  <2> QED BY <2>1, <2>2, <2>3, <2>4, <2>5 DEF Next
<1> QED BY <1>1, <1>2, <1>3, <1>4

\* At the beginning there is no file.
LEMMA FilesInit == Init => FilesInv /\ FaultsTyped
<1> SUFFICES ASSUME Init PROVE FilesInv /\ FaultsTyped
  OBVIOUS
<1>1. Shape
  BY DEF Init, Shape, NoDownload
<1>2. \A d \in Calls : StageOK(d)
  BY DEF Init, StageOK, Fresh, NoDownload
<1>3. Unbegun /\ BlobFull /\ AllOrNothing
  BY DEF Init, Unbegun, BlobFull, AllOrNothing, NoneStored
<1>4. FaultsTyped
  BY DEF Init, FaultsTyped
<1> QED BY <1>1, <1>2, <1>3, <1>4 DEF FilesInv

\* FilesInv holds while nothing was disturbed.
LEMMA FilesAlways == Spec => [](WriterInv /\ FaultsTyped /\ (Undisturbed => FilesInv))
<1>1. FaultsTyped /\ WriterInv /\ (Undisturbed => FilesInv) /\ [Next]_vars =>
        FaultsTyped' /\ (Undisturbed' => FilesInv')
  <2> SUFFICES ASSUME FaultsTyped, WriterInv, Undisturbed => FilesInv, [Next]_vars, Undisturbed'
               PROVE  FilesInv'
    BY FaultsStep
  <2>1. FilesInv
    BY FaultsStep
  <2>2. CASE Next
    BY <2>1, <2>2, FilesStep
  <2>3. CASE UNCHANGED vars
    BY <2>1, <2>3 DEF vars, files, FilesInv, Shape, Unbegun, BlobFull, AllOrNothing, NoneStored,
       AllStored, StageOK, Fresh, Begun, Ready, Fetches, WorkerOK, Removes, Stored, Covered
  <2> QED BY <2>2, <2>3
<1> QED BY <1>1, FilesInit, WriterAlways, PTL DEF Spec

\* Unless a file operation failed or the process died, what a part file
\* records is in the partial file (writePart, downloadChunk, Prepare), for any
\* size of blob and parts, however often attempts break, stall or are cancelled
\* and downloads resume.
THEOREM NothingIsSkipped == Spec => []ResumeSkipsNothing
<1>1. WriterInv /\ (Undisturbed => FilesInv) => ResumeSkipsNothing
  <2> SUFFICES ASSUME WriterInv, FilesInv, NEW p \in Parts, partFile[p] \notin {None, Torn},
                      NEW i \in 0 .. partFile[p] - 1
               PROVE  partial # None /\ partial[Offset(p) + i] # "hole"
    BY DEF ResumeSkipsNothing
  <2>1. Stored(p) \/ partFile[p] = 0
    <3>1. CASE \A d \in Calls : stage[d] \notin Working
      BY <3>1 DEF FilesInv, AllOrNothing, NoneStored, AllStored
    <3>2. ASSUME NEW d \in Calls, stage[d] \in Working PROVE Stored(p) \/ partFile[p] = 0
      <4>1. StageOK(d)
        BY DEF FilesInv
      <4>2. CASE stage[d] \in {"glob", "head", "spawned", "direct"}
        BY <4>1, <4>2 DEF StageOK, NoneStored, AllStored, Ready
      <4>3. CASE stage[d] = "parts"
        <5>1. PICK k \in Parts : /\ p < k => partFile[p] = 0
                                 /\ p = k => partFile[p] \in {None, Torn}
                                 /\ p > k => partFile[p] = None
          BY <4>1, <4>3 DEF StageOK, Begun
        <5>2. p < k \/ p = k \/ p > k
          BY DEF Parts
        <5> QED BY <5>1, <5>2
      <4>4. CASE stage[d] = "fetch"
        <5>1. WorkerOK(dl[d].part[p], p)
          BY <4>1, <4>4 DEF StageOK, Fetches
        <5> QED BY <5>1 DEF WorkerOK
      <4>5. CASE stage[d] = "remove"
        BY <4>1, <4>5 DEF StageOK, Removes
      <4> QED BY <3>2, <4>2, <4>3, <4>4, <4>5 DEF Working
    <3> QED BY <3>1, <3>2
  <2>2. partFile[p] # 0
    OBVIOUS
  <2>3. Stored(p) /\ partial \in Content /\ None \notin Content
    BY <2>1, <2>2, DownloadAssumption DEF Stored, Covered
  <2> QED BY <2>2, <2>3 DEF Stored, Covered
<1> QED BY <1>1, FilesAlways, PTL

\* Unless a file operation failed or the process died, a blob that appears
\* under its name has no holes (Rename after all parts have ended).
THEOREM PublishedBlobsAreWhole == Spec => []PublishedIsWhole
<1>1. (Undisturbed => FilesInv) => PublishedIsWhole
  BY DEF FilesInv, BlobFull, PublishedIsWhole
<1> QED BY <1>1, FilesAlways, PTL

-----------------------------------------------------------------------------
(* Types, and the progress of a download as the sum over its parts.          *)

\* A sum over the parts is a number.
LEMMA SumIsFinite ==
  ASSUME NEW n
  PROVE  /\ IsFiniteSet({x \in Parts \X Blocks : x[2] < n[x[1]]})
         /\ SumOverParts(n) \in Nat
<1>1. IsFiniteSet(Parts) /\ IsFiniteSet(Blocks)
  BY FS_Interval, LastPartBounds, DownloadAssumption DEF Parts, Blocks
<1>2. IsFiniteSet(Parts \X Blocks)
  BY <1>1, FS_Product
<1>3. {x \in Parts \X Blocks : x[2] < n[x[1]]} \in SUBSET (Parts \X Blocks)
  OBVIOUS
<1> QED BY <1>2, <1>3, FS_Subset, FS_CardinalityType DEF SumOverParts

\* When one part has more, the sum grows by as much.
LEMMA SumGrows ==
  ASSUME NEW p \in Parts, NEW m, NEW n, m[p] \in Nat, n[p] \in 0 .. Size(p), m[p] <= n[p],
         \A q \in Parts : q # p => n[q] = m[q]
  PROVE  SumOverParts(n) = SumOverParts(m) + (n[p] - m[p])
<1> DEFINE S == {x \in Parts \X Blocks : x[2] < n[x[1]]}
           T == {x \in Parts \X Blocks : x[2] < m[x[1]]}
           D == {p} \X (m[p] .. n[p] - 1)
<1>1. /\ Size(p) \in Nat /\ Size(p) <= BlobSize /\ BlobSize \in Nat /\ n[p] \in Nat
      /\ n[p] <= BlobSize
  BY PartBounds, DownloadAssumption
<1>2. S = T \cup D
  BY <1>1 DEF Blocks
<1>3. T \cap D = {}
  BY <1>1 DEF Blocks
<1>4. IsFiniteSet(D) /\ Cardinality(D) = n[p] - m[p]
  <2>0. m[p] \in Int /\ n[p] - 1 \in Int /\ n[p] \in Int
    BY <1>1
  <2>1. IsFiniteSet(m[p] .. n[p] - 1) /\ Cardinality(m[p] .. n[p] - 1) = n[p] - m[p]
    <3>1. /\ IsFiniteSet(m[p] .. n[p] - 1)
          /\ Cardinality(m[p] .. n[p] - 1) =
               IF m[p] > n[p] - 1 THEN 0 ELSE (n[p] - 1) - m[p] + 1
      BY <2>0, FS_Interval
    <3> QED BY <2>0, <3>1
  <2>2. IsFiniteSet({p}) /\ Cardinality({p}) = 1
    BY FS_Singleton
  <2>3. IsFiniteSet(D) /\ Cardinality(D) = Cardinality({p}) * Cardinality(m[p] .. n[p] - 1)
    BY <2>1, <2>2, FS_Product
  <2> QED BY <1>1, <2>1, <2>2, <2>3
<1>5. IsFiniteSet(T) /\ SumOverParts(m) \in Nat /\ SumOverParts(m) = Cardinality(T)
  BY SumIsFinite DEF SumOverParts
<1>6. Cardinality(T \cap D) = 0
  BY <1>3, FS_EmptySet
<1>8. SumOverParts(n) = Cardinality(S)
  BY DEF SumOverParts
<1> HIDE DEF D, T, S
<1>7. Cardinality(T \cup D) = Cardinality(T) + Cardinality(D) - Cardinality(T \cap D)
  BY <1>4, <1>5, FS_Union
<1> QED BY <1>2, <1>4, <1>5, <1>6, <1>7, <1>8

\* When one part changes, the sum changes by as much.
LEMMA SumMoves ==
  ASSUME NEW p \in Parts, NEW m, NEW n, m[p] \in 0 .. Size(p), n[p] \in 0 .. Size(p),
         \A q \in Parts : q # p => n[q] = m[q]
  PROVE  SumOverParts(n) = SumOverParts(m) + (n[p] - m[p])
<1>1. m[p] \in Nat /\ n[p] \in Nat
  BY PartBounds
<1>2. CASE m[p] <= n[p]
  BY <1>1, <1>2, SumGrows
<1>3. CASE n[p] <= m[p]
  <2>1. SumOverParts(m) = SumOverParts(n) + (m[p] - n[p])
    <3>1. \A q \in Parts : q # p => m[q] = n[q]
      OBVIOUS
    <3> QED BY <1>1, <1>3, <3>1, SumGrows
  <2>2. SumOverParts(m) \in Nat /\ SumOverParts(n) \in Nat
    BY SumIsFinite
  <2> QED BY <1>1, <2>1, <2>2
<1> QED BY <1>1, <1>2, <1>3

\* Two ways to write the same sum.
LEMMA SumOfEqual ==
  ASSUME NEW m, NEW n, \A p \in Parts : n[p] = m[p]
  PROVE  SumOverParts(n) = SumOverParts(m)
<1>1. {x \in Parts \X Blocks : x[2] < n[x[1]]} = {x \in Parts \X Blocks : x[2] < m[x[1]]}
  OBVIOUS
<1> QED BY <1>1 DEF SumOverParts

\* Parts that have nothing add up to nothing.
LEMMA SumOfNothing ==
  ASSUME NEW n, \A p \in Parts : n[p] = 0
  PROVE  SumOverParts(n) = 0
<1>1. {x \in Parts \X Blocks : x[2] < n[x[1]]} = {}
  BY DownloadAssumption DEF Blocks
<1> QED BY <1>1, FS_EmptySet DEF SumOverParts

-----------------------------------------------------------------------------
CallRecord ==
  [at : {"idle", "join", "prepare", "enter", "wait", "stuck", "verify",
         "mismatch", "install"} \cup Final,
   dl : Calls \cup {None}, left : BOOLEAN]
Stages == {"none", "returned", "closed", "abandoned"} \cup Working

DownloadRecord ==
  [refs : Int, cancellable : BOOLEAN, cancelled : BOOLEAN, failed : BOOLEAN,
   parts : SUBSET Parts, part : [Parts -> Workers], completed : Nat, removed : Nat]

\* Who prepares a download is its creator, and who waits has one to wait for.
CallInv ==
  /\ call \in [Calls -> CallRecord] /\ stage \in [Calls -> Stages]
  /\ manager \in Calls \cup {None}
  /\ \A c \in Calls :
       /\ call[c].at \in {"enter", "wait", "stuck"} => call[c].dl \in Calls
       /\ stage[c] \in {"glob", "head", "parts"} =>
            call[c].at = "prepare" /\ call[c].dl = c
       /\ call[c].at \in {"idle", "join"} => stage[c] = "none"

\* The partial file is there while it is written.
ContentInv ==
  /\ partial \in Content \cup {None} /\ blob \in Content \cup {None} /\ manifest \in BOOLEAN
  /\ \A d \in Calls : stage[d] \in {"direct", "fetch"} => partial \in Content

\* What a part has, of what it has received too.
Counts(w, p) ==
  /\ w \in Workers /\ w.done + w.got <= Size(p) /\ w.try < MaxRetries
  /\ w.at \in {"save", "encode"} => w.got = 0
Counted(part) == [p \in Parts |-> part[p].done + part[p].got]

\* What is counted is there, but for a block of each file write that failed.
Near(completed, part) ==
  /\ SumOverParts(Counted(part)) <= completed
  /\ completed <= SumOverParts(Counted(part)) + faults.disk

\* A download counts what its parts count, and knows a beginning of them while
\* it makes their files.
DownloadOK(d) ==
  /\ dl[d] \in DownloadRecord
  /\ \A p \in Parts : Counts(dl[d].part[p], p)
  /\ Near(dl[d].completed, dl[d].part)
  /\ dl[d].removed <= Cardinality(Parts)
  /\ stage[d] \in {"none", "glob", "head"} => dl[d].parts = {}
  /\ stage[d] = "parts" => \E k \in Parts : dl[d].parts = 0 .. k - 1

PartFiles == partFile \in [Parts -> Nat \cup {Torn, None}]
             /\ \A p \in Parts : partFile[p] \in Nat => partFile[p] <= Size(p)

CountInv == PartFiles /\ dl = [d \in Calls |-> dl[d]] /\ \A d \in Calls : DownloadOK(d)

\* The references of a download are counted.
RefInv == \A d \in Calls : dl[d].refs = Cardinality(Holding(d))

\* One call moves.
LEMMA CallMoves ==
  ASSUME CallInv, NEW c \in Calls, NEW x \in CallRecord, call' = [call EXCEPT ![c] = x],
         UNCHANGED <<stage, manager>>,
         x.at \in {"enter", "wait", "stuck"} => x.dl \in Calls,
         stage[c] \in {"glob", "head", "parts"} => x.at = "prepare" /\ x.dl = c,
         x.at \in {"idle", "join"} => stage[c] = "none"
  PROVE  CallInv'
<1>1. call' \in [Calls -> CallRecord]
  BY DEF CallInv
<1>2. call'[c] = x /\ \A b \in Calls : b # c => call'[b] = call[b]
  BY DEF CallInv
<1> HIDE DEF CallRecord
<1> QED BY <1>1, <1>2 DEF CallInv

\* What Leave makes of a call.
LEMMA LeftCall ==
  ASSUME NEW x \in CallRecord
  PROVE  LET y == [x EXCEPT !.left = TRUE] IN
         y \in CallRecord /\ y.at = x.at /\ y.dl = x.dl
<1>1. \A l \in BOOLEAN : [x EXCEPT !.left = l] \in CallRecord
  BY DEF CallRecord
<1>2. [x EXCEPT !.left = TRUE] \in CallRecord
  BY <1>1
<1> QED BY <1>2 DEF CallRecord

\* Steps of the calls and downloads.
LEMMA CallInvStep ==
  ASSUME CallInv, [Next]_vars
  PROVE  CallInv'
<1> USE DEF CallInv, CallRecord, Stages, Final, Working
<1>1. CASE UNCHANGED vars
  BY <1>1 DEF vars
<1>2. CASE Restart
  BY <1>2 DEF Restart, Gone
<1>3. ASSUME NEW c \in Calls, Begin(c) \/ Leave(c) PROVE CallInv'
  <2>1. call[c] \in CallRecord /\ UNCHANGED <<stage, manager>>
    BY <1>3 DEF Begin, Leave
  <2>2. CASE Begin(c)
    <3>1. PICK at \in {"install", "join"} : call' = [call EXCEPT ![c] = Gone(at)]
      BY <2>2 DEF Begin, MoveCall
    <3>2. Gone(at) \in CallRecord /\ Gone(at).at = at /\ stage[c] = "none"
      BY <2>2 DEF Gone, Begin
    <3> QED BY <2>1, <3>1, <3>2, CallMoves
  <2>3. CASE Leave(c)
    <3>1. call' = [call EXCEPT ![c] = [call[c] EXCEPT !.left = TRUE]]
      BY <2>3 DEF Leave
    <3> QED BY <2>1, <2>3, <3>1, LeftCall, CallMoves DEF Leave
  <2> QED BY <1>3, <2>2, <2>3
<1>4. ASSUME NEW c \in Calls, Join(c) PROVE CallInv'
  <2>1. CASE manager = None
    <3> DEFINE x == [call[c] EXCEPT !.at = "prepare", !.dl = c]
    <3>1. /\ call' = [call EXCEPT ![c] = x] /\ manager' = c
          /\ stage' = [stage EXCEPT ![c] = "glob"]
      BY <1>4, <2>1 DEF Join, Proceed
    <3>2. x \in CallRecord /\ x.at = "prepare" /\ x.dl = c
      <4>1. call[c] \in CallRecord /\ c \in Calls \cup {None}
        OBVIOUS
      <4> QED BY ONLY <4>1 DEF CallRecord
    <3> HIDE DEF x
    <3>3. call' \in [Calls -> CallRecord] /\ stage' \in [Calls -> Stages]
      BY <3>1, <3>2
    <3>4. call'[c] = x /\ stage'[c] = "glob"
          /\ \A b \in Calls : b # c => call'[b] = call[b] /\ stage'[b] = stage[b]
      BY <3>1
    <3> HIDE DEF CallRecord, Stages
    <3> QED BY <3>1, <3>2, <3>3, <3>4
  <2>2. CASE manager # None
    <3> DEFINE x == [call[c] EXCEPT !.at = "enter", !.dl = manager]
    <3>1. call' = [call EXCEPT ![c] = x] /\ UNCHANGED <<manager, stage>> /\ call[c].at = "join"
      BY <1>4, <2>2 DEF Join
    <3>2. x \in CallRecord /\ x.at = "enter" /\ x.dl \in Calls
      <4>1. call[c] \in CallRecord /\ manager \in Calls
        BY <2>2
      <4> QED BY ONLY <4>1 DEF CallRecord
    <3> HIDE DEF x
    <3> QED BY <3>1, <3>2, CallMoves
  <2> QED BY <2>1, <2>2
<1>5. ASSUME NEW c \in Calls, stage[c] \in {"glob", "head", "parts"}, PrepareFails(c)
      PROVE  CallInv'
  BY <1>5 DEF PrepareFails, MoveCall, Gone, Proceed
<1>6. ASSUME NEW c \in Calls, NEW at \in {"head", "parts", "spawned"},
             stage[c] \in {"glob", "head", "parts"}, Proceed(c, at), manager' = manager,
             IF at = "spawned" THEN MoveCall(c, "enter") ELSE UNCHANGED call
      PROVE  CallInv'
  BY <1>6 DEF MoveCall, Gone, Proceed
<1>7. ASSUME NEW c \in Calls, Prepare(c) PROVE CallInv'
  <2>1. CASE Glob(c)
    BY <1>5, <1>6, <2>1 DEF Glob
  <2>2. CASE Head(c)
    BY <1>5, <1>6, <2>2 DEF Head
  <2>3. CASE CreatePart(c)
    BY <2>3 DEF CreatePart
  <2>4. CASE EncodePart(c)
    BY <1>6, <2>4 DEF EncodePart
  <2>5. CASE NewPartFails(c)
    BY <1>5, <2>5 DEF NewPartFails
  <2> QED BY <1>7, <2>1, <2>2, <2>3, <2>4, <2>5 DEF Prepare
<1>8. ASSUME NEW c \in Calls,
             \/ Acquire(c) \/ Answered(c) \/ GiveUp(c) \/ ReportToNobody(c)
             \/ Verify(c) \/ RemoveMismatch(c) \/ Install(c)
      PROVE  CallInv'
  <2>1. call[c] \in CallRecord /\ UNCHANGED <<stage, manager>>
        /\ call[c].at \notin {"idle", "join", "prepare"}
    BY <1>8 DEF Acquire, Answered, GiveUp, ReportToNobody, Verify, RemoveMismatch, Install, Release
  <2>2. CASE Acquire(c)
    <3> DEFINE x == [call[c] EXCEPT !.at = "wait"]
    <3>1. call' = [call EXCEPT ![c] = x] /\ call[c].dl \in Calls
      BY <2>2 DEF Acquire, MoveCall
    <3>2. x \in CallRecord /\ x.at = "wait" /\ x.dl = call[c].dl
      BY <2>1
    <3> HIDE DEF x
    <3> QED BY <2>1, <3>1, <3>2, CallMoves
  <2>3. CASE ReportToNobody(c)
    <3> DEFINE x == [call[c] EXCEPT !.at = "stuck"]
    <3>1. call' = [call EXCEPT ![c] = x] /\ call[c].dl \in Calls
      BY <2>3 DEF ReportToNobody
    <3>2. x \in CallRecord /\ x.at = "stuck" /\ x.dl = call[c].dl
      BY <2>1
    <3> HIDE DEF x
    <3> QED BY <2>1, <3>1, <3>2, CallMoves
  <2>4. CASE \E at \in {"error", "verify", "install", "mismatch", "ok"} : MoveCall(c, at)
    <3>1. PICK at \in {"error", "verify", "install", "mismatch", "ok"} :
            call' = [call EXCEPT ![c] = Gone(at)]
      BY <2>4 DEF MoveCall
    <3>2. Gone(at) \in CallRecord /\ Gone(at).at = at
      BY DEF Gone
    <3> QED BY <2>1, <3>1, <3>2, CallMoves
  <2> QED BY <1>8, <2>2, <2>3, <2>4 DEF Answered, GiveUp, Verify, RemoveMismatch, Install
<1>9. ASSUME NEW d \in Calls, NEW at \in Stages \ {"none", "glob", "head", "parts"}, 
             stage[d] \notin {"none", "glob", "head", "parts"},
             Proceed(d, at), UNCHANGED call, manager' \in {manager, None}
      PROVE  CallInv'
  BY <1>9 DEF Proceed
<1>10. ASSUME NEW d \in Calls, Run(d) PROVE CallInv'
  <2>1. CASE Start(d)
    BY <1>9, <2>1 DEF Start, Return
  <2>2. CASE Direct(d)
    BY <1>9, <2>2 DEF Direct, Return
  <2>3. CASE AllEnded(d)
    BY <1>9, <2>3 DEF AllEnded, Return
  <2>4. CASE RemovePartFile(d)
    BY <1>9, <2>4 DEF RemovePartFile, Return
  <2>5. CASE Rename(d) \/ Close(d)
    BY <1>9, <2>5 DEF Rename, Close, Return
  <2> QED BY <1>10, <2>1, <2>2, <2>3, <2>4, <2>5 DEF Run
<1>11. ASSUME NEW d \in Calls, NEW p \in Parts, Work(d, p) \/ Trouble(d, p) PROVE CallInv'
  BY <1>11, ZenonT(120) DEF Work, Trouble, Receive, AllReceived, Watchdog, Stop, OpenPartFile, WritePartFile,
     Break, WriteFails, FallSilent, WritePartFails, Update
<1> QED BY <1>1, <1>2, <1>3, <1>4, <1>7, <1>8, <1>10, <1>11 DEF Next, Crash, Pull, Panic

\* Steps of the files.
LEMMA ContentInvStep ==
  ASSUME CallInv, WriterInv, ContentInv, [Next]_vars
  PROVE  ContentInv'
<1> USE DEF CallInv, ContentInv, Stages, Working
<1>1. CASE UNCHANGED vars
  BY <1>1 DEF vars, files
<1>2. CASE Restart
  BY <1>2 DEF Restart
<1>3. ASSUME NEW c \in Calls, Begin(c) \/ Leave(c) \/ Pull(c), ~Restart PROVE ContentInv'
  <2>1. /\ partial' = partial /\ blob' \in {blob, None} /\ manifest' \in {manifest, TRUE}
        /\ \A d \in Calls : stage'[d] \in {"direct", "fetch"} => stage[d] = stage'[d]
    <3>1. partial' = partial /\ blob' \in {blob, None} /\ manifest' \in {manifest, TRUE}
      <4>1. CASE Prepare(c)
        BY <4>1 DEF Prepare, Glob, Head, CreatePart, EncodePart, NewPartFails, files
      <4>2. CASE Begin(c) \/ Leave(c) \/ Join(c)
        BY <4>2 DEF Begin, Leave, Join, files
      <4>3. CASE \/ Acquire(c) \/ Answered(c) \/ GiveUp(c) \/ ReportToNobody(c)
                 \/ Verify(c) \/ RemoveMismatch(c) \/ Install(c)
        BY <4>3 DEF Acquire, Answered, GiveUp, ReportToNobody, Verify, RemoveMismatch, Install,
           Release, files
      <4> QED BY <1>3, <4>1, <4>2, <4>3 DEF Pull, Panic
    <3>2. UNCHANGED stage \/ \E at \in Stages \ {"direct", "fetch"} : Proceed(c, at)
      <4>1. CASE Prepare(c)
        BY <4>1 DEF Prepare, Glob, Head, CreatePart, EncodePart, NewPartFails, PrepareFails
      <4>2. CASE Begin(c) \/ Leave(c) \/ Join(c)
        BY <4>2 DEF Begin, Leave, Join
      <4>3. CASE \/ Acquire(c) \/ Answered(c) \/ GiveUp(c) \/ ReportToNobody(c)
                 \/ Verify(c) \/ RemoveMismatch(c) \/ Install(c)
        BY <4>3 DEF Acquire, Answered, GiveUp, ReportToNobody, Verify, RemoveMismatch, Install,
           Release
      <4> QED BY <1>3, <4>1, <4>2, <4>3 DEF Pull, Panic
    <3> QED BY <3>1, <3>2, ZenonT(120) DEF Proceed
  <2> QED BY <2>1
<1>4. ASSUME NEW d \in Calls, Run(d) PROVE ContentInv'
  <2>1. CASE Start(d)
    <3>1. CASE partial' = Cut(partial, Total(dl[d].parts))
      <4>1. partial' \in Content
        BY <3>1 DEF Cut, Content
      <4> QED BY <2>1, <4>1 DEF Start
    <3>2. CASE Return(d, TRUE) /\ UNCHANGED partial
      BY <2>1, <3>2 DEF Start, Return, Proceed
    <3> QED BY <2>1, <3>1, <3>2 DEF Start
  <2>2. CASE Direct(d)
    BY <2>2 DEF Direct, Return, Proceed, files
  <2>3. CASE AllEnded(d)
    BY <2>3 DEF AllEnded, Return, Proceed, files
  <2>4. CASE RemovePartFile(d)
    BY <2>4 DEF RemovePartFile, Return, Proceed
  <2>5. CASE Rename(d)
    <3>1. \A e \in Calls : e # d => stage[e] \notin {"direct", "fetch"}
      BY <2>5 DEF Rename, WriterInv
    <3>2. \A e \in Calls : stage'[e] \notin {"direct", "fetch"}
      BY <2>5, <3>1 DEF Rename, Return, Proceed
    <3> QED BY <2>5, <3>2 DEF Rename
  <2>6. CASE Close(d)
    BY <2>6 DEF Close, Proceed, files
  <2> QED BY <1>4, <2>1, <2>2, <2>3, <2>4, <2>5, <2>6 DEF Run
<1>5. ASSUME NEW d \in Calls, NEW p \in Parts, Work(d, p) \/ Trouble(d, p) PROVE ContentInv'
  <2>1. CASE Receive(d, p)
    <3>1. partial \in Content /\ UNCHANGED <<stage, blob, manifest>>
      BY <2>1 DEF Receive, Fetching, Update
    <3>2. PICK b : \E x \in {"good", "bad"} : partial' = [partial EXCEPT ![b] = x]
      BY <2>1 DEF Receive
    <3>3. partial' \in Content
      <4>1. PICK x \in {"good", "bad"} : partial' = [partial EXCEPT ![b] = x]
        BY <3>2
      <4> QED BY ONLY <3>1, <4>1 DEF Content
    <3> QED BY <3>1, <3>3
  <2>2. CASE ~Receive(d, p)
    BY <1>5, <2>2 DEF Work, Trouble, AllReceived, Watchdog, Stop, OpenPartFile, WritePartFile,
       Break, WriteFails, FallSilent, WritePartFails, Update, files
  <2> QED BY <2>1, <2>2
<1> QED BY <1>1, <1>2, <1>3, <1>4, <1>5 DEF Next, Crash

\* At its end and at its beginning a download has nothing.
LEMMA EmptyDownload ==
  ASSUME MoreFaults, NEW d \in Calls, dl'[d] \in DownloadRecord, dl'[d].parts = {},
         dl'[d].part = [p \in Parts |-> NoPart], dl'[d].completed = 0, dl'[d].removed = 0
  PROVE  DownloadOK(d)'
<1>1. NoPart \in Workers /\ NoPart.done = 0 /\ NoPart.got = 0 /\ NoPart.try = 0
  BY DEF NoPart, Workers
<1>2. \A p \in Parts : Counts(NoPart, p)
  BY <1>1, PartBounds, DownloadAssumption DEF Counts
<1>3. SumOverParts(Counted(dl'[d].part)) = 0
  BY <1>1, SumOfNothing DEF Counted
<1>4. 0 \in Parts /\ {} = 0 .. 0 - 1 /\ 0 <= Cardinality(Parts)
  BY LastPartBounds, FS_Interval DEF Parts
<1>5. Near(dl[d].completed, dl[d].part)'
  BY <1>3 DEF Near, MoreFaults
<1> QED BY <1>2, <1>4, <1>5 DEF DownloadOK

\* Steps that change neither what the parts have nor which are known.
LEMMA DownloadMoves ==
  ASSUME MoreFaults, NEW d \in Calls, DownloadOK(d), dl'[d] \in DownloadRecord,
         \A p \in Parts : /\ Counts(dl'[d].part[p], p)
                          /\ dl'[d].part[p].done = dl[d].part[p].done
                          /\ dl'[d].part[p].got = dl[d].part[p].got,
         dl'[d].completed = dl[d].completed, dl'[d].parts = dl[d].parts,
         dl'[d].removed <= Cardinality(Parts),
         stage'[d] \in {"none", "glob", "head", "parts"} =>
           stage[d] \in {"none", "glob", "head"} \/ stage'[d] = stage[d]
  PROVE  DownloadOK(d)'
<1>1. SumOverParts(Counted(dl'[d].part)) = SumOverParts(Counted(dl[d].part))
  BY SumOfEqual DEF Counted
<1>2. stage'[d] = "parts" => \E k \in Parts : dl[d].parts = 0 .. k - 1
  <2>1. 0 \in Parts /\ {} = 0 .. 0 - 1
    BY LastPartBounds DEF Parts
  <2> QED BY <2>1 DEF DownloadOK
<1>3. Near(dl[d].completed, dl[d].part)'
  <2>1. Near(dl[d].completed, dl[d].part) /\ dl[d].completed \in Nat
    BY DEF DownloadOK, DownloadRecord
  <2>2. SumOverParts(Counted(dl[d].part)) \in Nat
    BY SumIsFinite
  <2> QED BY <1>1, <2>1, <2>2 DEF Near, MoreFaults
<1> QED BY <1>2, <1>3 DEF DownloadOK

\* A step that leaves a download and its stage alone.
LEMMA DownloadStays ==
  ASSUME MoreFaults, NEW d \in Calls, DownloadOK(d), dl'[d] = dl[d], stage'[d] = stage[d]
  PROVE  DownloadOK(d)'
BY DownloadMoves DEF DownloadOK

\* A worker that has more, or less, is counted with it; a block too many is
\* counted only with a fault.
LEMMA UpdateCounts ==
  ASSUME MoreFaults, CallInv, CountInv, NEW d \in Calls, NEW p \in Parts, NEW w, Counts(w, p), NEW n \in Int,
         NEW lost \in Nat, lost <= faults'.disk - faults.disk,
         n = (w.done + w.got) - (dl[d].part[p].done + dl[d].part[p].got) + lost,
         stage[d] = "fetch", Update(d, p, w, n)
  PROVE  dl' = [e \in Calls |-> dl'[e]] /\ \A e \in Calls : DownloadOK(e)'
<1> DEFINE old == dl[d].part
           new == dl'[d].part
<1>1. /\ dl' = [e \in Calls |-> dl'[e]] /\ \A e \in Calls : e # d => dl'[e] = dl[e]
      /\ stage' = stage
      /\ dl'[d] = [dl[d] EXCEPT !.part[p] = w, !.completed = dl[d].completed + n,
                      !.failed = dl[d].failed \/ w.at = "failed"]
  BY DEF Update, CountInv
<1>2. dl[d] \in DownloadRecord /\ old \in [Parts -> Workers] /\ w \in Workers
      /\ dl[d].completed \in Nat /\ dl[d].failed \in BOOLEAN
  BY DEF CountInv, DownloadOK, DownloadRecord, Counts
<1>3. /\ new = [old EXCEPT ![p] = w] /\ dl'[d].completed = dl[d].completed + n
      /\ dl'[d].parts = dl[d].parts /\ dl'[d].removed = dl[d].removed
  BY <1>1, <1>2 DEF DownloadRecord
<1>4. \A q \in Parts : new[q] = IF q = p THEN w ELSE old[q]
  BY <1>2, <1>3
<1>5. \A q \in Parts : Counts(new[q], q) /\ Counts(old[q], q)
  BY <1>4 DEF CountInv, DownloadOK
<1>6. dl'[d].completed \in Nat /\ Near(dl[d].completed, dl[d].part)'
  <2>1. \A q \in Parts : Counted(new)[q] \in 0 .. Size(q) /\ Counted(old)[q] \in 0 .. Size(q)
    BY <1>5, SMTT(60) DEF Counts, Counted, Workers
  <2>2. \A q \in Parts : q # p => Counted(new)[q] = Counted(old)[q]
    BY <1>4 DEF Counted
  <2>3. SumOverParts(Counted(new)) =
          SumOverParts(Counted(old)) + (Counted(new)[p] - Counted(old)[p])
    BY <2>1, <2>2, SumMoves
  <2>4. Counted(new)[p] = w.done + w.got /\ Counted(old)[p] = old[p].done + old[p].got
    BY <1>4 DEF Counted
  <2>5. Near(dl[d].completed, old)
    BY DEF CountInv, DownloadOK
  <2>6. SumOverParts(Counted(old)) \in Nat /\ SumOverParts(Counted(new)) \in Nat
    BY SumIsFinite
  <2>7. n = Counted(new)[p] - Counted(old)[p] + lost
    BY <2>4
  <2>8. Counted(new)[p] \in Int /\ Counted(old)[p] \in Int
    BY <1>2, <1>5, <2>4 DEF Counts, Workers
  <2>9. dl[d].part' = new
    OBVIOUS
  <2> DEFINE gain == Counted(new)[p] - Counted(old)[p]
             before == SumOverParts(Counted(old))
             after == SumOverParts(Counted(new))
             more == dl'[d].completed
  <2>10. /\ gain \in Int /\ before \in Nat /\ after \in Nat /\ after = before + gain
         /\ more = dl[d].completed + gain + lost /\ dl[d].completed \in Nat
         /\ before <= dl[d].completed /\ dl[d].completed <= before + faults.disk
    BY <1>2, <1>3, <2>3, <2>5, <2>6, <2>7, <2>8 DEF Near
  <2> HIDE DEF gain, before, after, more
  <2>11. after <= more /\ more <= after + faults'.disk /\ more \in Nat
    BY <2>10 DEF MoreFaults
  <2> QED BY <2>9, <2>11 DEF Near, more, after
<1>7. dl'[d] \in DownloadRecord
  <2>1. dl'[d].completed \in Nat
    BY <1>6
  <2>2. new \in [Parts -> Workers]
    BY <1>2, <1>3
  <2>3. (dl[d].failed \/ w.at = "failed") \in BOOLEAN
    BY <1>2
  <2> HIDE DEF new
  <2>4. dl'[d] = [dl[d] EXCEPT !.part = new, !.completed = dl'[d].completed, 
                      !.failed = dl[d].failed \/ w.at = "failed"]
    BY <1>1, <1>2, <1>3 DEF DownloadRecord, new
  <2> QED BY <1>2, <2>1, <2>2, <2>3, <2>4 DEF DownloadRecord
<1>8. DownloadOK(d)'
  BY <1>1, <1>3, <1>5, <1>6, <1>7 DEF CountInv, DownloadOK
<1>9. \A e \in Calls : e # d => DownloadOK(e)'
  BY <1>1, DownloadStays DEF CountInv
<1> QED BY <1>1, <1>8, <1>9

\* What becomes of a worker at the end of an attempt, and what it then counts.
LEMMA SavedCounts ==
  ASSUME NEW p \in Parts, NEW w, Counts(w, p), NEW then \in {"ok", "retry", "cancel", "stall"},
         NEW seen \in BOOLEAN
  PROVE  LET v == [Save(w, then) EXCEPT !.seen = seen] IN
         /\ Counts(v, p) /\ v.done + v.got = w.done + w.got
         /\ Save(w, then) = [Save(w, then) EXCEPT !.seen = w.seen] /\ w.seen \in BOOLEAN
<1> DEFINE u == Save(w, then)
           v == [u EXCEPT !.seen = seen]
<1>1. w \in Workers /\ w.done \in Nat /\ w.got \in Nat
  BY DEF Counts, Workers
<1>2. u \in Workers /\ u.try = w.try
  BY <1>1, SavedWorker, ZenonT(120) DEF Save, Workers
<1>3. /\ v \in Workers /\ v.at = "save" /\ v.got = 0 /\ v.done = w.done + w.got
      /\ u = [u EXCEPT !.seen = w.seen] /\ w.seen \in BOOLEAN
  BY <1>1, SavedWorker
<1> HIDE DEF u
<1>4. v.try = w.try
  BY <1>2 DEF Workers
<1> QED BY <1>1, <1>3, <1>4 DEF Counts, u

LEMMA EndedCounts ==
  ASSUME NEW p \in Parts, NEW w, Counts(w, p), NEW at \in {"ended", "failed"}
  PROVE  Counts(Ended(w, at), p) /\ Ended(w, at).done = w.done /\ Ended(w, at).got = 0
<1>1. w \in Workers /\ w.done \in Nat /\ w.got \in Nat /\ w.done + w.got <= Size(p)
  BY DEF Counts, Workers
<1>2. Ended(w, at).try = 0
  BY DEF Ended, NoPart
<1>3. w.done + 0 <= Size(p) /\ 0 < MaxRetries
  BY <1>1, PartBounds, DownloadAssumption
<1> QED BY <1>1, <1>2, <1>3, EndedWorker DEF Counts

LEMMA RetriedCounts ==
  ASSUME NEW p \in Parts, NEW w, Counts(w, p), w.got = 0
  PROVE  Counts(Retry(w), p) /\ Retry(w).done = w.done /\ Retry(w).got = 0
<1>1. w \in Workers /\ w.try \in Nat /\ w.try + 1 \in Nat /\ MaxRetries \in Nat
  BY DownloadAssumption DEF Counts, Workers
<1>2. CASE w.try + 1 = MaxRetries
  BY <1>2, EndedCounts DEF Retry
<1>3. CASE w.try + 1 # MaxRetries
  <2>1. Retry(w).try = w.try + 1 /\ Retry(w).at = "get"
    BY <1>1, <1>3 DEF Retry, Workers
  <2>2. Retry(w) \in Workers /\ Retry(w).done = w.done /\ Retry(w).got = 0
    BY <1>1, RetriedWorker
  <2> QED BY <1>1, <1>3, <2>1, <2>2 DEF Counts
<1> QED BY <1>2, <1>3

LEMMA RolledBackCounts ==
  ASSUME NEW p \in Parts, NEW w, Counts(w, p)
  PROVE  Counts(Rollback(w), p) /\ Rollback(w).done = w.done /\ Rollback(w).got = 0
<1>1. w \in Workers /\ w.done \in Nat /\ w.got \in Nat
  BY DEF Counts, Workers
<1>2. Rollback(w).try = w.try
  BY <1>1 DEF Rollback, Workers
<1> QED BY <1>1, <1>2, RolledBackWorker, PartBounds DEF Counts

LEMMA SeenCounts ==
  ASSUME NEW p \in Parts, NEW w, Counts(w, p)
  PROVE  LET v == [w EXCEPT !.seen = TRUE] IN Counts(v, p) /\ v.done = w.done
<1>1. w \in Workers
  BY DEF Counts
<1> DEFINE yes == TRUE
           v == [w EXCEPT !.seen = yes]
<1>2. yes \in BOOLEAN
  OBVIOUS
<1> HIDE DEF yes
<1>3. v \in Workers /\ v.done = w.done /\ v.got = w.got /\ v.try = w.try /\ v.at = w.at
  BY <1>1, <1>2 DEF Workers
<1>4. Counts(v, p)
  BY <1>3 DEF Counts
<1> QED BY <1>3, <1>4 DEF yes

LEMMA OutcomeCounts ==
  ASSUME NEW p \in Parts, NEW w, Counts(w, p), w.got = 0
  PROVE  Counts(Outcome(w), p) /\ Outcome(w).done = w.done /\ Outcome(w).got = 0
<1>1. w \in Workers /\ w.then \in {"ok", "retry", "cancel", "stall"}
  BY DEF Counts, Workers
<1>2. CASE w.then = "stall"
  <2>1. Outcome(w) = [w EXCEPT !.at = "get", !.then = "ok"]
    BY <1>2 DEF Outcome
  <2>2. Outcome(w).try = w.try /\ Outcome(w).at = "get"
    BY <1>1, <2>1 DEF Workers
  <2> QED BY <1>1, <2>2, OutcomeWorker DEF Counts
<1>3. CASE w.then = "ok"
  <2>1. Outcome(w) = Ended(w, "ended")
    BY <1>3 DEF Outcome
  <2> QED BY <2>1, EndedCounts
<1>4. CASE w.then = "cancel"
  <2>1. Outcome(w) = Ended(w, "failed")
    BY <1>4 DEF Outcome
  <2> QED BY <2>1, EndedCounts
<1>5. CASE w.then = "retry"
  <2>1. Outcome(w) = Retry(w)
    BY <1>5 DEF Outcome
  <2> QED BY <2>1, RetriedCounts
<1> QED BY <1>1, <1>2, <1>3, <1>4, <1>5

\* What the workers do is counted.
LEMMA WorkCounts ==
  ASSUME MoreFaults, CallInv, CountInv, NEW d \in Calls, NEW p \in Parts, Work(d, p) \/ Trouble(d, p)
  PROVE  CountInv'
<1> DEFINE w == dl[d].part[p]
           Does(v, n) == Counts(v, p) /\ n = (v.done + v.got) - (w.done + w.got) /\ Update(d, p, v, n)
           Ok == /\ stage[d] = "fetch"
                 /\ \E v : \E n \in Int : \E lost \in Nat :
                      /\ Counts(v, p) /\ Update(d, p, v, n) /\ lost <= faults'.disk - faults.disk
                      /\ n = (v.done + v.got) - (w.done + w.got) + lost
<1>1. Counts(w, p)
  BY DEF CountInv, DownloadOK
<1>2. /\ w.done \in Nat /\ w.got \in Nat /\ w.done + w.got <= Size(p) /\ w.seen \in BOOLEAN
      /\ Size(p) \in Nat /\ 0 \in Int /\ 1 \in Int /\ -w.got \in Int
  BY <1>1, PartBounds DEF Counts, Workers
<1>3. ASSUME NEW v, NEW n \in Int, Does(v, n), stage[d] = "fetch" PROVE Ok
  <2>1. 0 \in Nat /\ 0 <= faults'.disk - faults.disk
    BY DEF MoreFaults
  <2>2. v.done \in Int /\ v.got \in Int
    BY <1>3 DEF Counts, Workers
  <2>3. n = (v.done + v.got) - (w.done + w.got) + 0
    BY <1>2, <1>3, <2>2
  <2> QED BY <1>3, <2>1, <2>3
<1> HIDE DEF w, Ok
<1>4. ASSUME Receive(d, p) PROVE Ok
  <2> DEFINE g == w.got + 1
             v == [w EXCEPT !.got = g, !.seen = TRUE]
  <2>1. stage[d] = "fetch" /\ w.at = "get" /\ g <= Size(p) - w.done /\ g \in Nat
        /\ Update(d, p, [w EXCEPT !.got = @ + 1, !.seen = TRUE], 1)
    BY <1>2, <1>4 DEF Receive, Fetching, w
  <2>2. w \in Workers
    BY <1>1 DEF Counts
  <2>3. [w EXCEPT !.got = @ + 1, !.seen = TRUE] = v
    BY <2>2 DEF Workers
  <2> HIDE DEF g
  <2>4. \A s \in BOOLEAN : [w EXCEPT !.got = g, !.seen = s] \in Workers
    BY <2>1, <2>2 DEF Workers
  <2>5. v \in Workers
    BY <2>4
  <2>6. v.done = w.done /\ v.got = g /\ v.try = w.try /\ v.at = "get"
    BY <2>1, <2>2 DEF Workers
  <2>7. Counts(v, p)
    BY <1>1, <1>2, <2>1, <2>5, <2>6 DEF Counts
  <2>8. 1 = (v.done + v.got) - (w.done + w.got)
    BY <1>2, <2>6 DEF g
  <2> HIDE DEF v
  <2> QED BY <1>2, <1>3, <2>1, <2>3, <2>7, <2>8
<1>5. ASSUME NEW then \in {"ok", "retry", "cancel", "stall"}, NEW seen \in BOOLEAN,
             stage[d] = "fetch", Update(d, p, [Save(w, then) EXCEPT !.seen = seen], 0)
      PROVE  Ok
  <2> DEFINE v == [Save(w, then) EXCEPT !.seen = seen]
  <2>1. Counts(v, p) /\ v.done + v.got = w.done + w.got
    BY <1>1, SavedCounts
  <2> HIDE DEF v
  <2>2. 0 = (v.done + v.got) - (w.done + w.got)
    BY <1>2, <2>1
  <2> QED BY <1>2, <1>3, <1>5, <2>1, <2>2 DEF v
<1>6. ASSUME NEW then \in {"ok", "retry", "cancel", "stall"}, stage[d] = "fetch",
             Update(d, p, Save(w, then), 0)
      PROVE  Ok
  <2>1. w.seen \in BOOLEAN /\ Save(w, then) = [Save(w, then) EXCEPT !.seen = w.seen]
    BY <1>1, SavedCounts
  <2>2. Update(d, p, [Save(w, then) EXCEPT !.seen = w.seen], 0)
    BY <1>6, <2>1
  <2> QED BY <1>5, <1>6, <2>1, <2>2
<1>7. ASSUME NEW v, stage[d] = "fetch", Counts(v, p), v.done = w.done, v.got = 0, NEW n \in Int,
             n = -w.got, Update(d, p, v, n)
      PROVE  Ok
  <2>1. n = (v.done + v.got) - (w.done + w.got)
    BY <1>2, <1>7
  <2> QED BY <1>3, <1>7, <2>1
<1>8. ASSUME AllReceived(d, p) PROVE Ok
  BY <1>6, <1>8 DEF AllReceived, Fetching, w
<1>9. ASSUME Watchdog(d, p) PROVE Ok
  BY <1>5, <1>9 DEF Watchdog, Fetching, w
<1>10. ASSUME Stop(d, p) PROVE Ok
  <2>1. CASE Update(d, p, Save(w, "cancel"), 0)
    BY <1>6, <1>10, <2>1 DEF Stop, Fetching
  <2>2. CASE w.got = 0 /\ Update(d, p, Ended(w, "failed"), 0)
    BY <1>1, <1>7, <1>10, <2>2, EndedCounts DEF Stop, Fetching
  <2> QED BY <1>10, <2>1, <2>2 DEF Stop, w
<1>11. ASSUME OpenPartFile(d, p) PROVE Ok
  <2> DEFINE v == [w EXCEPT !.at = "encode"]
  <2>1. stage[d] = "fetch" /\ Update(d, p, v, 0) /\ w.at = "save" /\ w.got = 0 /\ w \in Workers
    BY <1>1, <1>11 DEF OpenPartFile, Fetching, Counts, w
  <2>2. v \in Workers /\ v.done = w.done /\ v.got = w.got /\ v.try = w.try
    BY <2>1 DEF Workers
  <2>3. Counts(v, p)
    BY <1>1, <2>1, <2>2 DEF Counts
  <2> HIDE DEF v
  <2>4. 0 = (v.done + v.got) - (w.done + w.got)
    BY <1>2, <2>2
  <2> QED BY <1>2, <1>3, <2>1, <2>3, <2>4
<1>12. ASSUME WritePartFile(d, p) PROVE Ok
  <2>1. stage[d] = "fetch" /\ Update(d, p, Outcome(w), 0) /\ w.got = 0
    BY <1>1, <1>12 DEF WritePartFile, Fetching, Counts, w
  <2> QED BY <1>1, <1>7, <2>1, OutcomeCounts
<1>13. ASSUME Break(d, p) PROVE Ok
  <2>1. stage[d] = "fetch"
    BY <1>13 DEF Break, Fetching
  <2>2. CASE Update(d, p, Save(w, "retry"), 0)
    BY <1>6, <2>1, <2>2
  <2>3. CASE Update(d, p, Retry(Rollback(w)), -w.got)
    BY <1>1, <1>2, <1>7, <2>1, <2>3, RolledBackCounts, RetriedCounts
  <2> QED BY <1>13, <2>2, <2>3 DEF Break, w
<1>14. ASSUME WriteFails(d, p) PROVE Ok
  <2> DEFINE s == [w EXCEPT !.seen = TRUE]
  <2>1. stage[d] = "fetch" /\ DiskFault
    BY <1>14 DEF WriteFails, Fetching
  <2>2. 1 \in Nat /\ 1 <= faults'.disk - faults.disk /\ 1 - w.got \in Int
    BY <1>2, <2>1 DEF MoreFaults, DiskFault
  <2>3. ASSUME NEW v, Counts(v, p), v.done = w.done, v.got = 0, Update(d, p, v, 1 - w.got) PROVE Ok
    <3>1. 1 - w.got = (v.done + v.got) - (w.done + w.got) + 1
      BY <1>2, <2>3
    <3> QED BY <2>1, <2>2, <2>3, <3>1 DEF Ok
  <2>4. Counts(s, p) /\ s.done = w.done
    BY <1>1, SeenCounts
  <2> HIDE DEF s
  <2>5. CASE Update(d, p, Ended(w, "failed"), 1 - w.got)
    BY <1>1, <2>3, <2>5, EndedCounts
  <2>6. CASE Update(d, p, Retry(Rollback(s)), 1 - w.got)
    BY <2>3, <2>4, <2>6, RolledBackCounts, RetriedCounts
  <2> QED BY <1>14, <2>5, <2>6 DEF WriteFails, w, s
<1>15. ASSUME FallSilent(d, p) PROVE Ok
  <2> DEFINE v == [w EXCEPT !.at = "silent"]
  <2>1. stage[d] = "fetch" /\ Update(d, p, v, 0) /\ w.at = "get" /\ w \in Workers
    BY <1>1, <1>15 DEF FallSilent, Fetching, Counts, w
  <2>2. v \in Workers /\ v.done = w.done /\ v.got = w.got /\ v.try = w.try /\ v.at = "silent"
    BY <2>1 DEF Workers
  <2>3. Counts(v, p) /\ 0 = (v.done + v.got) - (w.done + w.got)
    BY <1>1, <1>2, <2>1, <2>2 DEF Counts
  <2> QED BY <1>2, <1>3, <2>1, <2>3
<1>16. ASSUME WritePartFails(d, p) PROVE Ok
  <2>1. stage[d] = "fetch" /\ w.got = 0
    BY <1>1, <1>16 DEF WritePartFails, Fetching, Counts, w
  <2>2. CASE Update(d, p, Outcome(w), 0)
    BY <1>1, <1>7, <2>1, <2>2, OutcomeCounts
  <2>3. CASE Update(d, p, Retry(w), 0)
    BY <1>1, <1>7, <2>1, <2>3, RetriedCounts
  <2>4. CASE Update(d, p, Ended(w, "failed"), 0)
    BY <1>1, <1>7, <2>1, <2>4, EndedCounts
  <2> QED BY <1>16, <2>2, <2>3, <2>4 DEF WritePartFails, w
<1>17. Ok
  BY <1>4, <1>8, <1>9, <1>10, <1>11, <1>12, <1>13, <1>14, <1>15, <1>16 DEF Work, Trouble
<1>18. dl' = [e \in Calls |-> dl'[e]] /\ \A e \in Calls : DownloadOK(e)'
  BY <1>17, UpdateCounts DEF Ok, w
<1>19. PartFiles'
  <2>1. \/ partFile' = partFile
        \/ partFile' = [partFile EXCEPT ![p] = Torn]
        \/ partFile' = [partFile EXCEPT ![p] = w.done]
    BY DEF Work, Trouble, Receive, AllReceived, Watchdog, Stop, OpenPartFile, WritePartFile,
       Break, WriteFails, FallSilent, WritePartFails, files, w
  <2>2. w.done <= Size(p) /\ Torn \notin Nat
    BY <1>2, DownloadAssumption
  <2> QED BY <1>2, <2>1, <2>2 DEF CountInv, PartFiles
<1> QED BY <1>18, <1>19 DEF CountInv

\* Glob counts what the part files record.
LEMMA GlobCounts ==
  ASSUME MoreFaults, CallInv, CountInv, NEW c \in Calls, Glob(c)
  PROVE  CountInv'
<1>1. stage[c] = "glob" /\ UNCHANGED files
  BY DEF Glob
<1>2. PartFiles'
  BY <1>1 DEF CountInv, PartFiles, files
<1>3. CASE UNCHANGED dl /\ (Proceed(c, "head") \/ PrepareFails(c))
  <2>1. ASSUME NEW e \in Calls PROVE DownloadOK(e)'
    <3>1. stage'[e] = stage[e] \/ (e = c /\ stage'[e] \in {"head", "abandoned"})
      BY <1>3 DEF PrepareFails, Proceed, CallInv
    <3>2. stage'[e] \in {"none", "glob", "head", "parts"} =>
            stage[e] \in {"none", "glob", "head"} \/ stage'[e] = stage[e]
      BY <1>1, <3>1
    <3> QED BY <1>3, <3>2, DownloadMoves DEF CountInv, DownloadOK
  <2> QED BY <1>2, <1>3, <2>1 DEF CountInv
<1>4. CASE ~ (UNCHANGED dl /\ (Proceed(c, "head") \/ PrepareFails(c)))
  <2> DEFINE had == [p \in Parts |-> IF p \in Recorded THEN partFile[p] ELSE 0]
             new == [p \in Parts |->
                  IF p \in Recorded THEN [NoPart EXCEPT !.done = partFile[p]] ELSE NoPart]
             n == SumOverParts(had)
  <2>1. /\ Recorded # {} /\ ~ \E p \in Recorded : partFile[p] = Torn
        /\ stage' = [stage EXCEPT ![c] = "spawned"]
        /\ dl' = [dl EXCEPT ![c] = [@ EXCEPT !.parts = Recorded, !.part = new, !.completed = n]]
    BY <1>4 DEF Glob, PrepareFails, Proceed
  <2>2. n \in Nat /\ Recorded \subseteq Parts
    BY SumIsFinite DEF Recorded
  <2>3. ASSUME NEW p \in Parts
        PROVE  /\ Counts(new[p], p) /\ new[p] \in Workers
               /\ new[p].done + new[p].got = had[p]
    <3>1. had[p] \in Nat /\ had[p] <= Size(p)
      BY <2>1, PartBounds DEF CountInv, PartFiles, Recorded
    <3>2. NoPart \in Workers /\ NoPart.done = 0 /\ NoPart.got = 0 /\ NoPart.try = 0
          /\ NoPart.at = "idle"
      BY DEF NoPart, Workers
    <3> DEFINE k == had[p]
               v == [NoPart EXCEPT !.done = k]
    <3>3. new[p] = v
      <4>1. CASE p \in Recorded
        BY <4>1
      <4>2. CASE p \notin Recorded
        BY <3>2, <4>2 DEF Workers
      <4> QED BY <4>1, <4>2
    <3> HIDE DEF k, NoPart, new
    <3>4. v \in Workers /\ v.done = k /\ v.got = 0 /\ v.try = 0 /\ v.at = "idle"
      BY <3>1, <3>2 DEF Workers, k
    <3> HIDE DEF v
    <3>5. v.done + v.got = k
      BY <3>1, <3>4 DEF k
    <3> QED BY <3>1, <3>3, <3>4, <3>5, DownloadAssumption DEF Counts, k
  <2>4. n = SumOverParts(Counted(new))
    BY <2>3, SumOfEqual DEF Counted
  <2>5. new \in [Parts -> Workers]
    BY <2>3
  <2> HIDE DEF n, new, had
  <2>6. /\ dl' = [e \in Calls |-> dl'[e]] /\ \A e \in Calls : e # c => dl'[e] = dl[e]
        /\ dl'[c] = [dl[c] EXCEPT !.parts = Recorded, !.part = new, !.completed = n]
        /\ stage'[c] = "spawned" /\ \A e \in Calls : e # c => stage'[e] = stage[e]
    BY <2>1 DEF CountInv, CallInv
  <2>7. dl[c] \in DownloadRecord /\ dl[c].removed <= Cardinality(Parts)
    BY DEF CountInv, DownloadOK
  <2>8. /\ dl'[c] \in DownloadRecord /\ dl'[c].part = new /\ dl'[c].completed = n
        /\ dl'[c].removed = dl[c].removed
    BY <2>2, <2>5, <2>6, <2>7 DEF DownloadRecord
  <2>11. Near(dl[c].completed, dl[c].part)'
    BY <2>2, <2>4, <2>8 DEF Near, MoreFaults
  <2>9. DownloadOK(c)'
    BY <2>3, <2>6, <2>7, <2>8, <2>11 DEF DownloadOK
  <2>10. ASSUME NEW e \in Calls, e # c PROVE DownloadOK(e)'
    BY <2>6, <2>10, DownloadStays DEF CountInv
  <2> QED BY <1>2, <2>6, <2>9, <2>10 DEF CountInv
<1> QED BY <1>3, <1>4

\* newPart.
LEMMA EncodePartCounts ==
  ASSUME MoreFaults, CallInv, CountInv, NEW c \in Calls, EncodePart(c)
  PROVE  CountInv'
<1> DEFINE p == NextPart(c)
<1>1. PICK k \in Parts : dl[c].parts = 0 .. k - 1
  BY DEF EncodePart, CountInv, DownloadOK
<1>2. k \in Nat /\ k <= LastPart /\ LastPart \in Nat /\ p = k
  BY <1>1, FS_Interval, LastPartBounds DEF Parts, NextPart
<1>3. partFile' = [partFile EXCEPT ![k] = 0] /\ dl' = [dl EXCEPT ![c].parts = @ \cup {k}]
  BY <1>2 DEF EncodePart
<1>4. PartFiles'
  BY <1>2, <1>3, PartBounds DEF CountInv, PartFiles
<1>5. dl[c].parts \cup {k} = 0 .. k
  BY <1>1, <1>2
<1>6. /\ dl' = [e \in Calls |-> dl'[e]] /\ \A e \in Calls : e # c => dl'[e] = dl[e]
      /\ dl'[c] = [dl[c] EXCEPT !.parts = 0 .. k]
  BY <1>3, <1>5 DEF CountInv
<1>7. (k # LastPart => stage' = stage /\ k + 1 \in Parts)
      /\ (k = LastPart => stage' = [stage EXCEPT ![c] = "spawned"])
  <2>1. k = LastPart <=> dl[c].parts \cup {k} = Parts
    BY <1>2, <1>5 DEF Parts
  <2> QED BY <1>2, <2>1 DEF EncodePart, Proceed, Parts
<1>8. dl[c] \in DownloadRecord /\ 0 .. k \subseteq Parts
  BY <1>2 DEF CountInv, DownloadOK, Parts
<1>9. /\ dl'[c] \in DownloadRecord /\ dl'[c].parts = 0 .. k
      /\ dl'[c].part = dl[c].part /\ dl'[c].completed = dl[c].completed
      /\ dl'[c].removed = dl[c].removed
  BY <1>6, <1>8 DEF DownloadRecord
<1>10. stage[c] = "parts" /\ stage'[c] \in {"parts", "spawned"}
       /\ (stage'[c] = "parts" => \E j \in Parts : 0 .. k = 0 .. j - 1)
  <2>1. k + 1 - 1 = k /\ stage[c] = "parts" /\ DOMAIN stage = Calls
    BY <1>2 DEF EncodePart, CallInv
  <2>2. CASE k = LastPart
    BY <1>7, <2>1, <2>2
  <2>3. CASE k # LastPart
    <3>1. PICK j \in Parts : j = k + 1
      BY <1>7, <2>3
    <3>2. stage'[c] = "parts" /\ 0 .. k = 0 .. j - 1
      BY <1>2, <1>7, <2>1, <2>3, <3>1
    <3> QED BY <2>1, <3>1, <3>2
  <2> QED BY <2>2, <2>3
<1>13. Near(dl[c].completed, dl[c].part)'
  <2>1. Near(dl[c].completed, dl[c].part) /\ dl[c].completed \in Nat
    BY <1>8 DEF CountInv, DownloadOK, DownloadRecord
  <2>2. SumOverParts(Counted(dl[c].part)) \in Nat
    BY SumIsFinite
  <2> QED BY <1>9, <2>1, <2>2 DEF Near, MoreFaults
<1>11. DownloadOK(c)'
  BY <1>9, <1>10, <1>13 DEF CountInv, DownloadOK
<1>12. ASSUME NEW e \in Calls, e # c PROVE DownloadOK(e)'
  BY <1>6, <1>7, <1>12, DownloadStays DEF CountInv, CallInv
<1> QED BY <1>4, <1>6, <1>11, <1>12 DEF CountInv

\* Steps of the calls that touch one download's references at most.
LEMMA CallCounts ==
  ASSUME MoreFaults, CallInv, CountInv, NEW c \in Calls,
         \/ Begin(c) \/ Leave(c) \/ Join(c) \/ Head(c) \/ CreatePart(c) \/ NewPartFails(c)
         \/ Acquire(c) \/ Answered(c) \/ GiveUp(c) \/ ReportToNobody(c)
         \/ Verify(c) \/ RemoveMismatch(c) \/ Install(c) \/ Close(c)
  PROVE  CountInv'
<1>1. PartFiles'
  <2>1. partFile' = partFile \/ \E p : partFile' = [partFile EXCEPT ![p] = Torn]
    BY DEF Begin, Leave, Join, Head, CreatePart, NewPartFails, Acquire, Answered, GiveUp,
       ReportToNobody, Verify, RemoveMismatch, Install, Close, Release, files
  <2> QED BY <2>1, DownloadAssumption DEF CountInv, PartFiles
<1>2. ASSUME NEW e \in Calls
      PROVE  stage'[e] \in {"none", "glob", "head", "parts"} =>
               stage[e] \in {"none", "glob", "head"} \/ stage'[e] = stage[e]
  <2>1. \/ stage' = stage
        \/ \E at \in {"abandoned", "closed"} : stage' = [stage EXCEPT ![c] = at]
        \/ stage[c] = "none" /\ stage' = [stage EXCEPT ![c] = "glob"]
        \/ stage[c] = "head" /\ stage' = [stage EXCEPT ![c] = "parts"]
    BY DEF Begin, Leave, Join, Head, CreatePart, NewPartFails, Acquire, Answered, GiveUp,
       ReportToNobody, Verify, RemoveMismatch, Install, Close, Release, PrepareFails, Proceed, CallInv
  <2> QED BY <2>1 DEF CallInv
<1>3. CASE UNCHANGED dl
  <2>1. ASSUME NEW e \in Calls PROVE DownloadOK(e)'
    BY <1>2, <1>3, DownloadMoves DEF CountInv, DownloadOK
  <2> QED BY <1>1, <1>3, <2>1 DEF CountInv
<1>4. ASSUME NEW d \in Calls, NEW r \in Int, NEW x \in BOOLEAN,
             dl' = [dl EXCEPT ![d] = [@ EXCEPT !.refs = r, !.cancelled = x]]
      PROVE  CountInv'
  <2>1. /\ dl' = [e \in Calls |-> dl'[e]] /\ \A e \in Calls : e # d => dl'[e] = dl[e]
        /\ dl'[d] = [dl[d] EXCEPT !.refs = r, !.cancelled = x]
    BY <1>4 DEF CountInv
  <2>2. dl[d] \in DownloadRecord
    BY DEF CountInv, DownloadOK
  <2>3. /\ dl'[d] \in DownloadRecord /\ dl'[d].parts = dl[d].parts
        /\ dl'[d].part = dl[d].part /\ dl'[d].completed = dl[d].completed
        /\ dl'[d].removed = dl[d].removed
    BY <2>1, <2>2 DEF DownloadRecord
  <2>4. DownloadOK(d)'
    BY <1>2, <2>3, DownloadMoves DEF CountInv, DownloadOK
  <2>5. ASSUME NEW e \in Calls, e # d PROVE DownloadOK(e)'
    BY <1>2, <2>1, <2>5, DownloadMoves DEF CountInv, DownloadOK
  <2> QED BY <1>1, <2>1, <2>4, <2>5 DEF CountInv
<1>5. CASE Acquire(c)
  <2> DEFINE d == call[c].dl
             r == dl[d].refs + 1
  <2>1. d \in Calls
    BY <1>5 DEF Acquire, CallInv
  <2>2. dl[d] \in DownloadRecord
    BY <2>1 DEF CountInv, DownloadOK
  <2>3. r \in Int /\ dl[d].cancelled \in BOOLEAN
    BY <2>2 DEF DownloadRecord
  <2>4. dl' = [dl EXCEPT ![d] = [@ EXCEPT !.refs = r, !.cancelled = dl[d].cancelled]]
    <3>1. dl' = [dl EXCEPT ![d] = [@ EXCEPT !.refs = r]]
      BY <1>5 DEF Acquire
    <3>2. [dl[d] EXCEPT !.refs = r] = [dl[d] EXCEPT !.refs = r, !.cancelled = dl[d].cancelled]
      BY <2>2 DEF DownloadRecord
    <3> QED BY <3>1, <3>2
  <2> QED BY <1>4, <2>1, <2>3, <2>4
<1>6. ASSUME NEW d \in Calls, Release(d) PROVE CountInv'
  <2>1. dl[d] \in DownloadRecord
    BY DEF CountInv, DownloadOK
  <2>2. dl[d].refs - 1 \in Int /\ (dl[d].cancelled \/ dl[d].refs = 1) \in BOOLEAN
    BY <2>1 DEF DownloadRecord
  <2>3. dl' = [dl EXCEPT ![d] = [@ EXCEPT !.refs = dl[d].refs - 1,
                      !.cancelled = dl[d].cancelled \/ dl[d].refs = 1]]
    BY <1>6 DEF Release
  <2> QED BY <1>4, <2>2, <2>3
<1>7. UNCHANGED dl \/ Acquire(c) \/ \E d \in Calls : Release(d)
  BY DEF Begin, Leave, Join, Head, CreatePart, NewPartFails, Answered, GiveUp,
     ReportToNobody, Verify, RemoveMismatch, Install, Close, PrepareFails, CallInv
<1> QED BY <1>3, <1>5, <1>6, <1>7

\* run ends and keeps its references.
LEMMA ReturnCounts ==
  ASSUME MoreFaults, CallInv, CountInv, NEW d \in Calls, NEW failed \in BOOLEAN, Return(d, failed)
  PROVE  dl' = [e \in Calls |-> dl'[e]] /\ \A e \in Calls : DownloadOK(e)'
<1> DEFINE x == [NoDownload EXCEPT !.cancellable = TRUE, !.failed = failed,
                                   !.refs = dl[d].refs, !.cancelled = dl[d].cancelled]
<1>1. /\ dl' = [e \in Calls |-> dl'[e]] /\ dl'[d] = x /\ \A e \in Calls : e # d => dl'[e] = dl[e]
      /\ \A e \in Calls : e # d => stage'[e] = stage[e]
  BY DEF Return, Proceed, CountInv, CallInv
<1>2. dl[d].refs \in Int /\ dl[d].cancelled \in BOOLEAN
  BY DEF CountInv, DownloadOK, DownloadRecord
<1>3. NoDownload \in DownloadRecord
  <2>1. NoPart \in Workers
    BY DEF NoPart, Workers
  <2> HIDE DEF NoPart
  <2> QED BY <2>1 DEF NoDownload, DownloadRecord
<1>4. /\ NoDownload.parts = {} /\ NoDownload.part = [p \in Parts |-> NoPart]
      /\ NoDownload.completed = 0 /\ NoDownload.removed = 0
  BY DEF NoDownload
<1> HIDE DEF NoDownload
<1>5. \A y \in BOOLEAN : [NoDownload EXCEPT !.cancellable = y, !.failed = failed,
                 !.refs = dl[d].refs, !.cancelled = dl[d].cancelled] \in DownloadRecord
  BY <1>2, <1>3 DEF DownloadRecord
<1>6. /\ x \in DownloadRecord /\ x.parts = {} /\ x.part = [p \in Parts |-> NoPart]
      /\ x.completed = 0 /\ x.removed = 0
  BY <1>3, <1>4, <1>5 DEF DownloadRecord
<1> HIDE DEF x
<1>7. DownloadOK(d)'
  BY <1>1, <1>6, EmptyDownload
<1>8. ASSUME NEW e \in Calls, e # d PROVE DownloadOK(e)'
  BY <1>1, <1>8, DownloadStays DEF CountInv
<1> QED BY <1>1, <1>7, <1>8

\* The steps of run but Close.
LEMMA RunCounts ==
  ASSUME MoreFaults, CallInv, CountInv, NEW d \in Calls, Run(d), ~Close(d)
  PROVE  CountInv'
<1>1. dl[d] \in DownloadRecord /\ DOMAIN dl = Calls /\ stage \in [Calls -> Stages]
      /\ \A e \in Calls : DownloadOK(e)
  BY DEF CountInv, DownloadOK, CallInv
<1>2. PartFiles'
  <2>1. partFile' = partFile \/ \E p : partFile' = [partFile EXCEPT ![p] = None]
    BY DEF Run, Start, Direct, AllEnded, RemovePartFile, Rename, Return, files
  <2> QED BY <2>1, DownloadAssumption DEF CountInv, PartFiles
<1>3. CASE \E failed \in BOOLEAN : Return(d, failed)
  BY <1>2, <1>3, ReturnCounts DEF CountInv
<1>4. ASSUME dl'[d] \in DownloadRecord, dl' = [e \in Calls |-> dl'[e]], NEW at \in Working, 
             at \notin {"glob", "head", "parts"},
             stage' = stage \/ Proceed(d, at), stage[d] \notin {"glob", "head", "parts"},
             \A e \in Calls : e # d => dl'[e] = dl[e], dl'[d].removed <= Cardinality(Parts),
             dl'[d].parts = dl[d].parts, dl'[d].completed = dl[d].completed,
             \A p \in Parts : /\ Counts(dl'[d].part[p], p)
                              /\ dl'[d].part[p].done = dl[d].part[p].done
                              /\ dl'[d].part[p].got = dl[d].part[p].got
      PROVE  CountInv'
  <2>1. \A e \in Calls : e # d => stage'[e] = stage[e]
    BY <1>1, <1>4 DEF Proceed
  <2>2. stage'[d] \in {"none", "glob", "head", "parts"} => stage'[d] = stage[d]
    BY <1>1, <1>4 DEF Proceed, Working
  <2>3. DownloadOK(d)'
    BY <1>1, <1>4, <2>2, DownloadMoves
  <2>4. ASSUME NEW e \in Calls, e # d PROVE DownloadOK(e)'
    BY <1>1, <1>4, <2>1, <2>4, DownloadStays
  <2> QED BY <1>2, <1>4, <2>3, <2>4 DEF CountInv
<1>5. CASE Start(d)
  <2>1. CASE /\ Proceed(d, "direct") /\ dl' = [dl EXCEPT ![d].cancellable = TRUE]
    <3> DEFINE c == TRUE
               x == [dl[d] EXCEPT !.cancellable = c]
    <3>1. dl' = [e \in Calls |-> dl'[e]] /\ dl'[d] = x /\ \A e \in Calls : e # d => dl'[e] = dl[e]
      BY <1>1, <2>1
    <3>2. c \in BOOLEAN
      OBVIOUS
    <3> HIDE DEF c
    <3>3. /\ x \in DownloadRecord /\ x.parts = dl[d].parts /\ x.part = dl[d].part
          /\ x.completed = dl[d].completed /\ x.removed = dl[d].removed
      BY <1>1, <3>2 DEF DownloadRecord
    <3> HIDE DEF x
    <3>4. stage[d] = "spawned" /\ \A p \in Parts : Counts(x.part[p], p)
      BY <1>1, <1>5, <3>3 DEF Start, DownloadOK
    <3>5. x.removed <= Cardinality(Parts)
      BY <1>1, <3>3 DEF DownloadOK
    <3> QED BY <1>4, <2>1, <3>1, <3>3, <3>4, <3>5 DEF Working
  <2> QED BY <1>3, <1>5, <2>1 DEF Start
<1>6. CASE Direct(d)
  <2>1. CASE StartWorkers(d) /\ Proceed(d, "fetch")
    <3> DEFINE at(p) == IF p \in dl[d].parts /\ dl[d].part[p].done # Size(p)
                        THEN "get" ELSE "ended"
               new == [p \in Parts |-> [dl[d].part[p] EXCEPT !.at = at(p)]]
               x == [dl[d] EXCEPT !.part = new]
    <3>1. ASSUME NEW p \in Parts
          PROVE  /\ new[p] \in Workers /\ Counts(new[p], p)
                 /\ new[p].done = dl[d].part[p].done /\ new[p].got = dl[d].part[p].got
      <4>1. dl[d].part[p] \in Workers /\ Counts(dl[d].part[p], p) /\ at(p) \in {"get", "ended"}
        BY <1>1 DEF DownloadOK, Counts
      <4>2. new[p] = [dl[d].part[p] EXCEPT !.at = at(p)]
        OBVIOUS
      <4> HIDE DEF at, new
      <4>3. /\ new[p] \in Workers /\ new[p].at = at(p) /\ new[p].done = dl[d].part[p].done
            /\ new[p].got = dl[d].part[p].got /\ new[p].try = dl[d].part[p].try
        BY <4>1, <4>2 DEF Workers
      <4> QED BY <4>1, <4>3 DEF Counts
    <3>2. dl' = [e \in Calls |-> dl'[e]] /\ dl'[d] = x /\ \A e \in Calls : e # d => dl'[e] = dl[e]
      <4>1. dl' = [dl EXCEPT ![d].part = new]
        BY <2>1, <1>1 DEF StartWorkers
      <4> QED BY <1>1, <4>1
    <3>3. new \in [Parts -> Workers]
      BY <3>1
    <3> HIDE DEF new
    <3>4. /\ x \in DownloadRecord /\ x.parts = dl[d].parts /\ x.part = new
          /\ x.completed = dl[d].completed /\ x.removed = dl[d].removed
      BY <1>1, <3>3 DEF DownloadRecord
    <3> HIDE DEF x
    <3>5. stage[d] = "direct" /\ x.removed <= Cardinality(Parts)
      BY <1>1, <1>6, <3>4 DEF Direct, DownloadOK
    <3> QED BY <1>4, <2>1, <3>1, <3>2, <3>4, <3>5 DEF Working
  <2> QED BY <1>3, <1>6, <2>1 DEF Direct
<1>7. CASE AllEnded(d)
  <2>1. CASE Proceed(d, "remove") /\ UNCHANGED dl
    <3>1. /\ stage[d] = "fetch" /\ dl'[d] = dl[d] /\ dl' = [e \in Calls |-> dl'[e]]
          /\ \A e \in Calls : e # d => dl'[e] = dl[e]
      BY <1>7, <2>1 DEF AllEnded, CountInv
    <3>2. dl[d].removed <= Cardinality(Parts) /\ \A p \in Parts : Counts(dl[d].part[p], p)
      BY <1>1 DEF DownloadOK
    <3> QED BY <1>1, <1>4, <2>1, <3>1, <3>2 DEF Working
  <2> QED BY <1>3, <1>7, <2>1 DEF AllEnded
<1>8. CASE RemovePartFile(d)
  <2>1. CASE dl' = [dl EXCEPT ![d].removed = @ + 1] /\ UNCHANGED stage
    <3> DEFINE r == dl[d].removed + 1
               x == [dl[d] EXCEPT !.removed = r]
    <3>1. dl' = [e \in Calls |-> dl'[e]] /\ dl'[d] = x /\ \A e \in Calls : e # d => dl'[e] = dl[e]
      BY <1>1, <2>1
    <3>2. r \in Nat /\ r <= Cardinality(Parts)
      <4>1. IsFiniteSet(Parts) /\ dl[d].parts \in SUBSET Parts /\ dl[d].removed \in Nat
        BY <1>1, FS_Interval, LastPartBounds DEF DownloadRecord, Parts
      <4>2. Cardinality(dl[d].parts) <= Cardinality(Parts) /\ Cardinality(Parts) \in Nat
            /\ Cardinality(dl[d].parts) \in Nat
        BY <4>1, FS_Subset, FS_CardinalityType
      <4> QED BY <1>8, <4>1, <4>2 DEF RemovePartFile
    <3> HIDE DEF r
    <3>3. /\ x \in DownloadRecord /\ x.parts = dl[d].parts /\ x.part = dl[d].part
          /\ x.completed = dl[d].completed /\ x.removed = r
      BY <1>1, <3>2 DEF DownloadRecord
    <3> HIDE DEF x
    <3>4. stage[d] = "remove" /\ \A p \in Parts : Counts(x.part[p], p)
      BY <1>1, <1>8, <3>3 DEF RemovePartFile, DownloadOK
    <3> QED BY <1>4, <2>1, <3>1, <3>2, <3>3, <3>4 DEF Working
  <2> QED BY <1>3, <1>8, <2>1 DEF RemovePartFile
<1>9. CASE Rename(d)
  BY <1>3, <1>9 DEF Rename
<1> QED BY <1>5, <1>6, <1>7, <1>8, <1>9 DEF Run

\* A download that is not there has nothing.
LEMMA NothingCounts ==
  /\ NoDownload \in DownloadRecord /\ NoDownload.parts = {}
  /\ NoDownload.part = [p \in Parts |-> NoPart]
  /\ NoDownload.completed = 0 /\ NoDownload.removed = 0 /\ NoDownload.refs = 0
<1>1. NoPart \in Workers
  BY DEF NoPart, Workers
<1> HIDE DEF NoPart
<1> QED BY <1>1 DEF NoDownload, DownloadRecord

LEMMA RestartCounts ==
  ASSUME MoreFaults, CountInv, Restart
  PROVE  CountInv'
<1>1. \A e \in Calls : DownloadOK(e)'
  <2> SUFFICES ASSUME NEW e \in Calls PROVE DownloadOK(e)'
    OBVIOUS
  <2>1. dl'[e] = NoDownload
    BY DEF Restart
  <2> HIDE DEF NoDownload
  <2> QED BY <2>1, NothingCounts, EmptyDownload
<1>2. PartFiles'
  BY DownloadAssumption DEF Restart, CountInv, PartFiles
<1> QED BY <1>1, <1>2 DEF Restart, CountInv

LEMMA CountInvStep ==
  ASSUME MoreFaults, CallInv, CountInv, [Next]_vars
  PROVE  CountInv'
<1>1. CASE UNCHANGED vars
  <2>1. \A e \in Calls : DownloadOK(e)'
    BY <1>1, DownloadStays DEF CountInv, vars
  <2> QED BY <1>1, <2>1 DEF CountInv, PartFiles, vars, files
<1>2. CASE Restart
  BY <1>2, RestartCounts
<1>3. ASSUME NEW c \in Calls, Begin(c) \/ Leave(c) \/ Pull(c) PROVE CountInv'
  BY <1>2, <1>3, GlobCounts, EncodePartCounts, CallCounts DEF Pull, Prepare, Panic
<1>4. ASSUME NEW d \in Calls, Run(d) PROVE CountInv'
  BY <1>4, RunCounts, CallCounts
<1>5. ASSUME NEW d \in Calls, NEW p \in Parts, Work(d, p) \/ Trouble(d, p) PROVE CountInv'
  BY <1>5, WorkCounts
<1> QED BY <1>1, <1>2, <1>3, <1>4, <1>5 DEF Next, Crash

-----------------------------------------------------------------------------
(* The references of a download.                                             *)

LEMMA HoldingFinite ==
  ASSUME NEW d
  PROVE  /\ IsFiniteSet(Holding(d)) /\ Holding(d) \subseteq Calls
         /\ Cardinality(Holding(d)) \in 0 .. NumCalls
<1>1. IsFiniteSet(Calls) /\ Cardinality(Calls) = NumCalls /\ NumCalls \in Nat
  BY FS_Interval, DownloadAssumption DEF Calls
<1>2. Holding(d) \in SUBSET Calls
  BY DEF Holding
<1>3. IsFiniteSet(Holding(d)) /\ Cardinality(Holding(d)) <= Cardinality(Calls)
  BY <1>1, <1>2, FS_Subset
<1>4. Cardinality(Holding(d)) \in Nat
  BY <1>3, FS_CardinalityType
<1> QED BY <1>1, <1>2, <1>3, <1>4

\* Steps that leave the references and those who have them alone.
LEMMA RefsKept ==
  ASSUME RefInv, \A d \in Calls : dl'[d].refs = dl[d].refs,
         \A c \in Calls : \/ call'[c].at \in {"wait", "stuck"} /\ call[c].at \in {"wait", "stuck"}
                             /\ call'[c].dl = call[c].dl
                          \/ call'[c].at \notin {"wait", "stuck"}
                             /\ call[c].at \notin {"wait", "stuck"}
  PROVE  RefInv'
<1>1. ASSUME NEW d \in Calls PROVE Holding(d)' = Holding(d)
  BY DEF Holding
<1> QED BY <1>1 DEF RefInv

\* Steps of the calls that neither begin nor end to wait, and of run.
LEMMA OthersKeepRefs ==
  ASSUME CallInv, CountInv, RefInv, [Next]_vars, ~Restart,
         \A c \in Calls : ~Acquire(c) /\ ~Answered(c) /\ ~GiveUp(c)
  PROVE  RefInv'
<1> USE DEF CallInv, CountInv
<1>1. CASE UNCHANGED vars
  BY <1>1, RefsKept DEF vars
<1>2. ASSUME NEW c \in Calls, \/ Begin(c) \/ Leave(c) \/ Join(c) \/ Prepare(c)
                              \/ ReportToNobody(c) \/ Verify(c) \/ RemoveMismatch(c) \/ Install(c)
      PROVE  RefInv'
  <2>1. \A d \in Calls : dl'[d].refs = dl[d].refs
    <3>1. CASE UNCHANGED dl
      BY <3>1
    <3>2. CASE EncodePart(c)
      BY <3>2 DEF EncodePart, DownloadOK, DownloadRecord
    <3>3. CASE Glob(c) /\ ~UNCHANGED dl
      <4> DEFINE new == [p \in Parts |->
                  IF p \in Recorded THEN [NoPart EXCEPT !.done = partFile[p]] ELSE NoPart]
                 n == SumOverParts([p \in Parts |-> IF p \in Recorded THEN partFile[p] ELSE 0])
      <4>1. dl' = [dl EXCEPT ![c] = [@ EXCEPT !.parts = Recorded, !.part = new, !.completed = n]]
        BY <3>3 DEF Glob, PrepareFails
      <4> HIDE DEF new, n
      <4> QED BY <4>1 DEF DownloadOK, DownloadRecord
    <3> QED BY <1>2, <3>1, <3>2, <3>3 DEF Begin, Leave, Join, Prepare, Head, CreatePart,
            NewPartFails, ReportToNobody, Verify, RemoveMismatch, Install, PrepareFails
  <2>2. \A b \in Calls : b # c => call'[b] = call[b]
    BY <1>2 DEF Begin, Leave, Join, Prepare, Glob, Head, CreatePart, EncodePart, NewPartFails,
       ReportToNobody, Verify, RemoveMismatch, Install, PrepareFails, MoveCall
  <2>3. \/ call'[c].at \in {"wait", "stuck"} /\ call[c].at \in {"wait", "stuck"}
           /\ call'[c].dl = call[c].dl
        \/ call'[c].at \notin {"wait", "stuck"} /\ call[c].at \notin {"wait", "stuck"}
    <3> USE DEF CallRecord, MoveCall, Gone
    <3>1. CASE Begin(c)
      BY <3>1 DEF Begin
    <3>2. CASE Leave(c)
      BY <3>2 DEF Leave
    <3>3. CASE Join(c)
      <4>1. \E at \in {"prepare", "enter"} : \E d :
              call' = [call EXCEPT ![c] = [call[c] EXCEPT !.at = at, !.dl = d]]
        BY <3>3 DEF Join
      <4>2. call[c].at = "join"
        BY <3>3 DEF Join
      <4> QED BY <4>1, <4>2
    <3>4. CASE Prepare(c)
      <4>1. stage[c] \in {"glob", "head", "parts"}
        BY <3>4 DEF Prepare, Glob, Head, CreatePart, EncodePart, NewPartFails
      <4>2. call' = call \/ MoveCall(c, "enter") \/ MoveCall(c, "error")
        BY <3>4 DEF Prepare, Glob, Head, CreatePart, EncodePart, NewPartFails, PrepareFails
      <4>3. call[c].at = "prepare"
        BY <4>1
      <4> QED BY <4>2, <4>3
    <3>5. CASE ReportToNobody(c)
      BY <3>5 DEF ReportToNobody
    <3>6. CASE Verify(c)
      BY <3>6 DEF Verify
    <3>7. CASE RemoveMismatch(c) \/ Install(c)
      BY <3>7 DEF RemoveMismatch, Install
    <3> QED BY <1>2, <3>1, <3>2, <3>3, <3>4, <3>5, <3>6, <3>7
  <2>4. \A b \in Calls : 
          \/ call'[b].at \in {"wait", "stuck"} /\ call[b].at \in {"wait", "stuck"}
             /\ call'[b].dl = call[b].dl
          \/ call'[b].at \notin {"wait", "stuck"} /\ call[b].at \notin {"wait", "stuck"}
    BY <2>2, <2>3
  <2> QED BY <2>1, <2>4, RefsKept
<1>3. ASSUME NEW d \in Calls, Run(d) PROVE RefInv'
  <2>1. call' = call
    BY <1>3 DEF Run, Start, Direct, AllEnded, RemovePartFile, Rename, Close
  <2>2. ASSUME NEW failed, Return(d, failed), NEW e \in Calls PROVE dl'[e].refs = dl[e].refs
    <3>1. NoDownload \in DownloadRecord
      BY NothingCounts
    <3>2. dl' = [dl EXCEPT ![d] = [NoDownload EXCEPT !.cancellable = TRUE, !.failed = failed,
                                   !.refs = dl[d].refs, !.cancelled = dl[d].cancelled]]
      BY <2>2 DEF Return
    <3> HIDE DEF NoDownload
    <3> QED BY <3>1, <3>2 DEF DownloadRecord
  <2>3. ASSUME NEW e \in Calls PROVE dl'[e].refs = dl[e].refs
    <3>1. \A b \in Calls : dl[b] \in DownloadRecord
      BY DEF DownloadOK
    <3>2. \/ UNCHANGED dl
          \/ dl' = [dl EXCEPT ![d].cancellable = TRUE]
          \/ StartWorkers(d)
          \/ dl' = [dl EXCEPT ![d].removed = @ + 1]
          \/ \E failed : Return(d, failed)
      BY <1>3 DEF Run, Start, Direct, AllEnded, RemovePartFile, Rename, Close
    <3> QED BY <2>2, <3>1, <3>2 DEF StartWorkers, DownloadRecord
  <2> QED BY <2>1, <2>3, RefsKept
<1>4. ASSUME NEW d \in Calls, NEW p \in Parts, Work(d, p) \/ Trouble(d, p) PROVE RefInv'
  <2>1. PICK w, n : Update(d, p, w, n)
    BY <1>4 DEF Work, Trouble, Receive, AllReceived, Watchdog, Stop, OpenPartFile, WritePartFile,
       Break, WriteFails, FallSilent, WritePartFails
  <2>2. call' = call /\ \A e \in Calls : dl'[e].refs = dl[e].refs
    BY <2>1 DEF Update, DownloadOK, DownloadRecord
  <2> QED BY <2>2, RefsKept
<1> QED BY <1>1, <1>2, <1>3, <1>4 DEF Next, Crash, Pull, Panic

LEMMA RefInvStep ==
  ASSUME CallInv, CountInv, RefInv, [Next]_vars
  PROVE  RefInv'
<1>1. CASE Restart
  <2>1. ASSUME NEW d \in Calls PROVE dl'[d].refs = 0 /\ Holding(d)' = {}
    <3>1. \A c \in Calls : call'[c].at \in Final \cup {"idle"}
      BY <1>1 DEF Restart, Gone, Final
    <3> QED BY <1>1, <3>1 DEF Restart, Holding, Final, NoDownload
  <2> QED BY <2>1, FS_EmptySet DEF RefInv
<1>2. ASSUME NEW c \in Calls, Acquire(c) PROVE RefInv'
  <2>0. PICK d \in Calls : d = call[c].dl
    BY <1>2 DEF Acquire, CallInv
  <2>1. c \notin Holding(d) /\ dl[d] \in DownloadRecord
    BY <1>2, <2>0 DEF Acquire, CountInv, DownloadOK, Holding
  <2>2. /\ dl'[d].refs = dl[d].refs + 1
        /\ \A e \in Calls : e # d => dl'[e].refs = dl[e].refs
    BY <1>2, <2>0, <2>1 DEF Acquire, CountInv, DownloadRecord
  <2>3. call'[c].at = "wait" /\ call'[c].dl = d /\ \A b \in Calls : b # c => call'[b] = call[b]
    BY <1>2, <2>0 DEF Acquire, MoveCall, CallInv, CallRecord
  <2>4. Holding(d)' = Holding(d) \cup {c}
    BY <2>3 DEF Holding
  <2>5. \A e \in Calls : e # d => Holding(e)' = Holding(e)
    BY <1>2, <2>0, <2>3 DEF Acquire, Holding
  <2>6. Cardinality(Holding(d)') = Cardinality(Holding(d)) + 1
    BY <2>1, <2>4, HoldingFinite, FS_AddElement
  <2> QED BY <2>1, <2>2, <2>5, <2>6, HoldingFinite DEF RefInv
<1>3. ASSUME NEW c \in Calls, Answered(c) \/ GiveUp(c) PROVE RefInv'
  <2>0. PICK d \in Calls : d = call[c].dl
    BY <1>3 DEF Answered, GiveUp, CallInv
  <2>1. c \in Holding(d) /\ Release(d) /\ dl[d] \in DownloadRecord
    BY <1>3, <2>0 DEF Answered, GiveUp, CountInv, DownloadOK, Holding
  <2>2. /\ dl'[d].refs = dl[d].refs - 1
        /\ \A e \in Calls : e # d => dl'[e].refs = dl[e].refs
    BY <2>1 DEF Release, CountInv, DownloadRecord
  <2>3. call'[c].at \notin {"wait", "stuck"} /\ \A b \in Calls : b # c => call'[b] = call[b]
    BY <1>3 DEF Answered, GiveUp, MoveCall, Gone, CallInv, CallRecord
  <2>4. Holding(d)' = Holding(d) \ {c}
    BY <2>3 DEF Holding
  <2>5. \A e \in Calls : e # d => Holding(e)' = Holding(e)
    BY <2>0, <2>3 DEF Holding
  <2>6. Cardinality(Holding(d)') = Cardinality(Holding(d)) - 1
    BY <2>1, <2>4, HoldingFinite, FS_RemoveElement
  <2> QED BY <2>1, <2>2, <2>5, <2>6, HoldingFinite DEF RefInv
<1> QED BY <1>1, <1>2, <1>3, OthersKeepRefs

-----------------------------------------------------------------------------
ProgressInv == CallInv /\ ContentInv /\ CountInv /\ RefInv

LEMMA ProgressInit == Init => ProgressInv
<1> SUFFICES ASSUME Init PROVE ProgressInv
  OBVIOUS
<1>5. faults.disk = 0
  BY DEF Init
<1>1. CallInv
  BY DEF Init, CallInv, CallRecord, Stages, Final, Working
<1>2. ContentInv
  BY DEF Init, ContentInv
<1>3. CountInv
  <2>1. PartFiles
    BY DownloadAssumption DEF Init, PartFiles
  <2>2. ASSUME NEW d \in Calls PROVE DownloadOK(d)
    <3>1. dl[d] = NoDownload /\ stage[d] = "none"
      BY DEF Init
    <3>2. NoPart \in Workers /\ NoPart.done = 0 /\ NoPart.got = 0 /\ NoPart.try = 0
      BY DEF NoPart, Workers
    <3>3. \A p \in Parts : Counts(NoPart, p)
      BY <3>2, PartBounds, DownloadAssumption DEF Counts
    <3> HIDE DEF NoDownload, NoPart
    <3>4. dl[d].part = [p \in Parts |-> NoPart]
      BY <3>1, NothingCounts
    <3>5. SumOverParts(Counted(dl[d].part)) = 0
      BY <3>2, <3>4, SumOfNothing DEF Counted
    <3>6. 0 <= Cardinality(Parts)
      BY LastPartBounds, FS_Interval DEF Parts
    <3>7. Near(dl[d].completed, dl[d].part)
      BY <1>5, <3>1, <3>5, NothingCounts DEF Near
    <3> QED BY <3>1, <3>3, <3>4, <3>6, <3>7, NothingCounts DEF DownloadOK
  <2> QED BY <2>1, <2>2 DEF Init, CountInv
<1>4. RefInv
  <2>1. ASSUME NEW d \in Calls PROVE dl[d].refs = 0 /\ Holding(d) = {}
    BY DEF Init, Holding, NoDownload
  <2> QED BY <2>1, FS_EmptySet DEF RefInv
<1> QED BY <1>1, <1>2, <1>3, <1>4 DEF ProgressInv

LEMMA ProgressAlways == Spec => [](ProgressInv /\ FaultsTyped)
<1>1. ProgressInv /\ WriterInv /\ FaultsTyped /\ [Next]_vars => ProgressInv' /\ FaultsTyped'
  BY CallInvStep, ContentInvStep, CountInvStep, RefInvStep, FaultsStep DEF ProgressInv
<1> QED BY <1>1, ProgressInit, FilesInit, WriterAlways, PTL DEF Spec

\* The progress that is reported is what the parts have and receive
\* (b.Completed against part.Completed and the bytes of Write), after any
\* number of attempts that were kept, broken off or rolled back, and but for
\* the block that a failed write to the partial file leaves counted.
THEOREM ProgressIsExact == Spec => []ProgressExact
<1>1. CountInv => ProgressExact
  BY DEF CountInv, DownloadOK, Near, Counted, ProgressExact
<1> QED BY <1>1, ProgressAlways, PTL DEF ProgressInv

\* Every variable has its type; a part holds and records no more than it has,
\* and the references of a download are the calls that wait for it.
THEOREM DownloadTypes == Spec => []TypeOK
<1> DEFINE Typed == [refs : Nat, cancellable : BOOLEAN, cancelled : BOOLEAN,
                     failed : BOOLEAN, parts : SUBSET Parts, part : [Parts -> PartRecord],
                     completed : Nat, removed : 0 .. BlobSize]
<1>1. ProgressInv /\ FaultsTyped => TypeOK
  <2> SUFFICES ASSUME ProgressInv, FaultsTyped PROVE TypeOK
    OBVIOUS
  <2>1. BlobSize \in Nat /\ PartSize \in Nat /\ MaxRetries \in Nat
    BY DownloadAssumption
  <2>2. Cardinality(Parts) \in 0 .. BlobSize
    <3>1. Cardinality(Parts) = LastPart + 1 /\ LastPart \in Nat /\ LastPart <= BlobSize - 1
      <4>1. LastPart \in Nat /\ PartSize >= 1
        BY <2>1, LastPartBounds, DownloadAssumption
      <4>2. LastPart <= LastPart * PartSize
        BY <2>1, <4>1
      <4>3. Cardinality(0 .. LastPart) = LastPart + 1
        BY <4>1, FS_Interval
      <4> QED BY <2>1, <4>1, <4>2, <4>3, LastPartBounds DEF Parts
    <3> QED BY <2>1, <3>1
  <2>3. ASSUME NEW d \in Calls
        PROVE  /\ dl[d] \in Typed /\ dl[d].refs = Cardinality(Holding(d))
               /\ \A p \in Parts : dl[d].part[p].done + dl[d].part[p].got <= Size(p)
    <3>1. /\ dl[d] \in DownloadRecord /\ \A p \in Parts : Counts(dl[d].part[p], p)
          /\ dl[d].removed <= Cardinality(Parts)
      BY DEF ProgressInv, CountInv, DownloadOK
    <3>2. dl[d].refs = Cardinality(Holding(d)) /\ dl[d].refs \in Nat
      BY HoldingFinite DEF ProgressInv, RefInv
    <3>3. ASSUME NEW p \in Parts
          PROVE  /\ dl[d].part[p] \in PartRecord
                 /\ dl[d].part[p].done + dl[d].part[p].got <= Size(p)
      <4> DEFINE w == dl[d].part[p]
      <4>1. w \in Workers /\ w.done + w.got <= Size(p) /\ w.try < MaxRetries
        BY <3>1 DEF Counts
      <4> HIDE DEF w
      <4>2. w.try \in 0 .. MaxRetries
        BY <2>1, <4>1 DEF Workers
      <4>3. w \in PartRecord
        BY <4>1, <4>2 DEF Workers, PartRecord
      <4> QED BY <4>1, <4>3 DEF w
    <3>4. dl[d].part \in [Parts -> PartRecord]
      BY <3>1, <3>3 DEF DownloadRecord
    <3>5. dl[d].removed \in 0 .. BlobSize
      BY <2>1, <2>2, <3>1 DEF DownloadRecord
    <3>6. dl[d] \in Typed
      BY <3>1, <3>2, <3>4, <3>5 DEF DownloadRecord
    <3> QED BY <3>2, <3>3, <3>6
  <2>4. dl \in [Calls -> Typed]
    BY <2>3 DEF ProgressInv, CountInv
  <2>5. /\ partFile \in [Parts -> Nat \cup {Torn, None}]
        /\ \A p \in Parts : partFile[p] \in 0 .. Size(p) \cup {Torn, None}
    BY PartBounds DEF ProgressInv, CountInv, PartFiles
  <2>6. call \in [Calls -> CallRecord] /\ stage \in [Calls -> Stages]
        /\ manager \in Calls \cup {None}
    BY DEF ProgressInv, CallInv
  <2> QED BY <2>3, <2>4, <2>5, <2>6
          DEF TypeOK, ProgressInv, ContentInv, FaultsTyped, CallRecord, Stages
<1> QED BY <1>1, ProgressAlways, PTL

=============================================================================
