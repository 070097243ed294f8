------------------------ MODULE TensorTransferProofs ------------------------
(* Proofs about the transfer of tensor layers, for any number of jobs,       *)
(* blobs, parts and faults: tasks share new tokens (TokensAreShared), a      *)
(* manifest is pushed after its blobs (PushedIsComplete), what was pulled is *)
(* whole (PulledIsWhole), the types have their bounds (TensorTypeOK) and who *)
(* is done has reported the whole model (DoneReportsAll).                    *)
EXTENDS TensorTransferProps, FiniteSetTheorems, TLAPS

-----------------------------------------------------------------------------
(* Types, without the bounds of the type invariant.                          *)

JobType ==
  [kind : {"pull", "push"}, layers : SUBSET Blobs, phase : Phases, cancelled : BOOLEAN,
   already : Int, completed : Int, token : Int, valid : Int]

TaskType == [pc : Steps, attempt : Int, n : Int, slot : BOOLEAN, err : Errors,
             prev : Int, back : Steps]

FetchType == [from : Nat, base : Nat, off : Nat, clean : BOOLEAN,
              fd : {"none", "tmp", "blob", "gone"}, cause : {"none", "stalled", "slow"}, silent : BOOLEAN, slow : Int]

SendType == [inits : Int, tries : Int, told : BOOLEAN, landed : Int, part : Int]

Shape == job \in [Jobs -> JobType] /\ task \in [Tasks -> TaskType]

PushShape ==
  /\ send \in [Tasks -> SendType]
  /\ registry \in [stored : SUBSET Blobs, manifests : SUBSET Jobs]
  /\ marked \in [presumed : SUBSET Blobs, readOn : SUBSET Jobs]

\* What is open for writing is a file.
PullShape ==
  /\ fetch \in [Tasks -> FetchType]
  /\ disk \in [Blobs -> [tmp : File, blob : File]]
  /\ installed \subseteq Jobs /\ noted \in [lost : SUBSET Blobs, shared : SUBSET Blobs]
  /\ \A w \in Tasks :
       /\ fetch[w].fd = "tmp" => disk[w[2]].tmp \in Seq(BOOLEAN)
       /\ fetch[w].fd = "blob" => disk[w[2]].blob \in Seq(BOOLEAN)

LEMMA TaskIs == \A w \in Tasks : w[1] \in Jobs /\ w[2] \in Blobs /\ w = <<w[1], w[2]>>
  BY DEF Tasks

LEMMA NewTyped == NewTask \in TaskType /\ NewSend \in SendType /\ NewFetch \in FetchType
<1>1. NewTask \in TaskType
  BY DEF NewTask, TaskType, Steps, Errors
<1>2. NewSend \in SendType
  BY DEF NewSend, SendType
<1>3. NewFetch \in FetchType
  BY DEF NewFetch, FetchType
<1> QED
  BY <1>1, <1>2, <1>3

LEMMA SizeIs == Size \in Nat /\ Size > 0
  BY TransferAssumption

LEMMA TypesInit == TensorInit => Shape /\ PushShape /\ PullShape
<1> SUFFICES ASSUME TensorInit PROVE Shape /\ PushShape /\ PullShape
  OBVIOUS
<1> USE DEF TensorInit
<1>1. job \in [Jobs -> JobType] /\ task \in [Tasks -> TaskType]
  <2>1. PICK load \in Workloads :
          job = [j \in Jobs |-> [kind |-> load.jobs[j].kind, layers |-> load.jobs[j].layers,
                                 phase |-> "idle", cancelled |-> FALSE,
                                 already |-> 0, completed |-> 0, token |-> 0, valid |-> 0]]
    BY DEF TransferInit
  <2>2. \A j \in Jobs : load.jobs[j].kind \in {"pull", "push"} /\ load.jobs[j].layers \subseteq Blobs
    BY TransferAssumption
  <2> QED
    BY <2>1, <2>2, NewTyped DEF TransferInit, JobType, Phases
<1>2. PushShape
  BY <1>1, NewTyped DEF PushInit, PushShape, JobType
<1>3. PullShape
  BY NewTyped DEF PullInit, PullShape, File, NewFetch
<1> QED
  BY <1>1, <1>2, <1>3 DEF Shape

LEMMA StepNames ==
  /\ {"none", "queued", "checked", "ended", "hold", "resolve", "refresh", "getToken", "stat",
       "ask", "open", "read", "drain", "verify", "rename", "settle", "backoff",
       "head", "init", "put", "commit", "patch", "cdn", "part", "finalize"} \subseteq Steps
  /\ {"none", "error", "cancelled", "stalled", "slow"} \subseteq Errors
  BY DEF Steps, Errors

-----------------------------------------------------------------------------
(* A step of a task changes that task and what its job counts, and little of *)
(* it concerns the token of the job.                                         *)

Resting == {"none", "checked", "ended"}
Waiting == {"refresh", "getToken"}

TaskStep(w) ==
  /\ task' = [task EXCEPT ![w] = task'[w]] /\ task'[w] \in TaskType
  /\ task[w].pc \notin Resting
  /\ \/ task'[w].pc \notin Waiting /\ task'[w].back = task[w].back
     \/ /\ task'[w].pc = "refresh" /\ task'[w].back \notin Waiting
        /\ ~ Authorized(w) /\ task'[w].prev = job[w[1]].token

JobStep(w) ==
  LET j == w[1] IN
  /\ job' = [job EXCEPT ![j] = job'[j]] /\ job'[j] \in JobType
  /\ job'[j].kind = job[j].kind /\ job'[j].layers = job[j].layers
  /\ job'[j].phase = job[j].phase /\ job'[j].already = job[j].already
  /\ job'[j].token = job[j].token /\ job'[j].valid = job[j].valid

LEMMA TaskFields ==
  ASSUME NEW r \in TaskType, NEW pc \in Steps, NEW n \in Int
  PROVE  /\ \A slot \in BOOLEAN : [r EXCEPT !.pc = pc, !.slot = slot, !.n = n] \in TaskType
         /\ \A k \in Int, err \in Errors :
              [r EXCEPT !.pc = pc, !.attempt = k, !.n = n, !.err = err] \in TaskType
<1>1. ASSUME NEW slot \in BOOLEAN PROVE [r EXCEPT !.pc = pc, !.slot = slot, !.n = n] \in TaskType
  BY DEF TaskType
<1>2. ASSUME NEW k \in Int, NEW err \in Errors
      PROVE  [r EXCEPT !.pc = pc, !.attempt = k, !.n = n, !.err = err] \in TaskType
  <2>1. [r EXCEPT !.pc = pc, !.attempt = k] \in TaskType
    BY DEF TaskType
  <2>2. \A q \in TaskType : [q EXCEPT !.n = n, !.err = err] \in TaskType
    BY DEF TaskType
  <2> QED
    BY <2>1, <2>2
<1> QED
  BY <1>1, <1>2

LEMMA TaskSet ==
  ASSUME Shape, NEW w \in Tasks, NEW t \in TaskType, task' = [task EXCEPT ![w] = t],
         task[w].pc \notin Resting, t.pc \notin Waiting, t.back = task[w].back
  PROVE  TaskStep(w)
<1>1. task'[w] = t
  BY DEF Shape
<1> QED
  BY <1>1 DEF TaskStep

\* The ways a task is written: a field or two besides its place.
LEMMA TaskMoves ==
  ASSUME Shape, NEW w \in Tasks, task[w].pc \notin Resting, NEW pc \in Steps, pc \notin Waiting
  PROVE  /\ Goto(w, pc) => TaskStep(w)
         /\ \A err \in Errors : Fail(w, err, pc) => TaskStep(w)
         /\ \A n \in Int :
              task' = [task EXCEPT ![w] = [@ EXCEPT !.pc = pc, !.n = n]] => TaskStep(w)
         /\ \A slot \in BOOLEAN :
              task' = [task EXCEPT ![w] = [@ EXCEPT !.pc = pc, !.slot = slot]] => TaskStep(w)
         /\ \A slot \in BOOLEAN : \A n \in Int :
              task' = [task EXCEPT ![w] = [@ EXCEPT !.pc = pc, !.slot = slot, !.n = n]] => TaskStep(w)
<1>0. task[w] \in TaskType
  BY DEF Shape
<1>1. ASSUME Goto(w, pc) PROVE TaskStep(w)
  <2>1. [task[w] EXCEPT !.pc = pc] \in TaskType
    BY <1>0 DEF TaskType
  <2>2. task' = [task EXCEPT ![w] = [task[w] EXCEPT !.pc = pc]]
    BY <1>1 DEF Goto, Shape
  <2> QED
    BY <1>0, <2>1, <2>2, TaskSet DEF TaskType
<1>2. ASSUME NEW err \in Errors, Fail(w, err, pc) PROVE TaskStep(w)
  <2>1. \A slot \in BOOLEAN :
          LET t == [task[w] EXCEPT !.pc = pc, !.err = err, !.slot = slot]
          IN  t \in TaskType /\ t.pc = pc /\ t.back = task[w].back
    BY <1>0 DEF TaskType
  <2>2. PICK slot \in BOOLEAN : task' = [task EXCEPT ![w] =
                                   [task[w] EXCEPT !.pc = pc, !.err = err, !.slot = slot]]
    BY <1>2 DEF Fail
  <2> QED
    BY <1>0, <2>1, <2>2, TaskSet
<1>3. ASSUME NEW n \in Int, task' = [task EXCEPT ![w] = [@ EXCEPT !.pc = pc, !.n = n]]
      PROVE  TaskStep(w)
  <2>1. LET t == [task[w] EXCEPT !.pc = pc, !.n = n]
        IN  t \in TaskType /\ t.pc = pc /\ t.back = task[w].back
    BY <1>0 DEF TaskType
  <2> QED
    BY <1>0, <1>3, <2>1, TaskSet
<1>4. ASSUME NEW slot \in BOOLEAN, task' = [task EXCEPT ![w] = [@ EXCEPT !.pc = pc, !.slot = slot]]
      PROVE  TaskStep(w)
  <2>1. LET t == [task[w] EXCEPT !.pc = pc, !.slot = slot]
        IN  t \in TaskType /\ t.pc = pc /\ t.back = task[w].back
    BY <1>0 DEF TaskType
  <2> QED
    BY <1>0, <1>4, <2>1, TaskSet
<1>5. ASSUME NEW slot \in BOOLEAN, NEW n \in Int,
             task' = [task EXCEPT ![w] = [@ EXCEPT !.pc = pc, !.slot = slot, !.n = n]]
      PROVE  TaskStep(w)
  <2>1. LET t == [task[w] EXCEPT !.pc = pc, !.slot = slot, !.n = n]
        IN  t \in TaskType /\ t.pc = pc /\ t.back = task[w].back
    BY <1>0 DEF TaskType
  <2> QED
    BY <1>0, <1>5, <2>1, TaskSet
<1> QED
  BY <1>1, <1>2, <1>3, <1>4, <1>5

LEMMA Refused ==
  ASSUME Shape, NEW w \in Tasks, NEW back \in Steps, back \notin Waiting,
         task[w].pc \notin Resting, Unauthorized(w, back)
  PROVE  TaskStep(w)
<1> DEFINE t == [task[w] EXCEPT !.pc = "refresh", !.back = back, !.prev = job[w[1]].token]
<1>1. task[w] \in TaskType /\ job[w[1]].token \in Int
  BY TaskIs DEF Shape, JobType
<1>2. t \in TaskType
  BY <1>1, StepNames DEF TaskType
<1>3. t.pc = "refresh" /\ t.back = back /\ t.prev = job[w[1]].token
  BY <1>1 DEF TaskType
<1>4. task' = [task EXCEPT ![w] = t] /\ ~ Authorized(w)
  BY DEF Unauthorized, Shape
<1> HIDE DEF t
<1>5. task'[w] = t
  BY <1>4 DEF Shape
<1> QED
  BY <1>2, <1>3, <1>4, <1>5 DEF TaskStep

\* A task that ends with the whole blob reported.
LEMMA CreditEnds ==
  ASSUME Shape, NEW w \in Tasks, task[w].pc \notin Resting,
         task' = [task EXCEPT ![w] = [@ EXCEPT !.pc = "ended", !.n = Size]]
  PROVE  TaskStep(w)
<1>1. "ended" \in Steps /\ "ended" \notin Waiting /\ Size \in Int
  BY StepNames, TransferAssumption DEF Waiting
<1>2. \A n \in Int : task' = [task EXCEPT ![w] = [@ EXCEPT !.pc = "ended", !.n = n]] => TaskStep(w)
  BY <1>1, TaskMoves
<1> QED
  BY <1>1, <1>2

\* Where a refused request waits for a token.
LEMMA RefusedWaits ==
  ASSUME Shape, NEW w \in Tasks, NEW back, Unauthorized(w, back)
  PROVE  task'[w].pc = "refresh" /\ task'[w].back = back
<1> DEFINE t == [task[w] EXCEPT !.pc = "refresh", !.back = back, !.prev = job[w[1]].token]
<1>1. t.pc = "refresh" /\ t.back = back
  BY DEF Shape, TaskType
<1>2. task' = [task EXCEPT ![w] = t]
  BY DEF Unauthorized
<1> HIDE DEF t
<1> QED
  BY <1>1, <1>2 DEF Shape

\* What the steps do to their job.
LEMMA JobStays == ASSUME Shape, NEW w \in Tasks, UNCHANGED job PROVE JobStep(w)
  BY TaskIs DEF Shape, JobStep

LEMMA JobCounts ==
  ASSUME Shape, NEW w \in Tasks, NEW k \in Int, NEW c \in BOOLEAN,
         job' = [job EXCEPT ![w[1]] = [@ EXCEPT !.completed = k, !.cancelled = c]]
  PROVE  JobStep(w)
<1>1. w[1] \in Jobs /\ job[w[1]] \in JobType
  BY TaskIs DEF Shape
<1>2. [job[w[1]] EXCEPT !.completed = k, !.cancelled = c] \in JobType
  BY <1>1 DEF JobType
<1>3. job'[w[1]] = [job[w[1]] EXCEPT !.completed = k, !.cancelled = c]
  BY <1>1 DEF Shape
<1>4. job' = [job EXCEPT ![w[1]] = job'[w[1]]]
  BY <1>1, <1>3 DEF Shape
<1> QED
  BY <1>1, <1>2, <1>3, <1>4 DEF JobType, JobStep

LEMMA JobAdds ==
  ASSUME Shape, NEW w \in Tasks, NEW k \in Int, Add(w[1], k)
  PROVE  JobStep(w)
<1>1. w[1] \in Jobs /\ job[w[1]] \in JobType
  BY TaskIs DEF Shape
<1>2. job[w[1]].completed + k \in Int /\ job[w[1]].cancelled \in BOOLEAN
  BY <1>1 DEF JobType
<1>3. job' = [job EXCEPT ![w[1]] = [@ EXCEPT !.completed = job[w[1]].completed + k,
                                            !.cancelled = job[w[1]].cancelled]]
  BY <1>1 DEF Shape, Add, JobType
<1> QED
  BY <1>2, <1>3, JobCounts

LEMMA JobCancelled ==
  ASSUME Shape, NEW w \in Tasks, job' = [job EXCEPT ![w[1]] = Cancelled(w[1])]
  PROVE  JobStep(w)
<1>1. w[1] \in Jobs
  BY TaskIs
<1> QED
  BY <1>1 DEF Shape, JobType, Cancelled, JobStep

LEMMA JobSettles ==
  ASSUME Shape, NEW w \in Tasks, NEW k \in Int, NEW over \in BOOLEAN,
         job' = [job EXCEPT ![w[1]] = [@ EXCEPT !.completed = k,
                            !.cancelled = job[w[1]].cancelled \/ over]]
  PROVE  JobStep(w)
<1>1. w[1] \in Jobs
  BY TaskIs
<1>2. CASE over
  <2>1. job' = [job EXCEPT ![w[1]] = [@ EXCEPT !.completed = k, !.cancelled = TRUE]]
    BY <1>1, <1>2 DEF Shape
  <2> QED
    BY <2>1, JobCounts
<1>3. CASE ~ over
  <2>1. job[w[1]].cancelled \in BOOLEAN
    BY <1>1 DEF Shape, JobType
  <2>2. job' = [job EXCEPT ![w[1]] = [@ EXCEPT !.completed = k,
                           !.cancelled = job[w[1]].cancelled]]
    BY <1>1, <1>3, <2>1 DEF Shape
  <2> QED
    BY <2>1, <2>2, JobCounts
<1> QED
  BY <1>2, <1>3

\* An attempt of a push that fails.
LEMMA AttemptFails ==
  ASSUME Shape, PushShape, NEW w \in Tasks, NEW err \in Errors, NEW late \in Int,
         task[w].pc \notin Resting, FailsWith(w, err, late)
  PROVE  TaskStep(w) /\ JobStep(w)
<1> DEFINE reported == IF send[w].part = 0 THEN task[w].n ELSE 0
<1>1. reported \in Int /\ reported - task[w].n + late \in Int
  BY DEF Shape, TaskType
<1>2. JobStep(w)
  BY <1>1, JobAdds DEF FailsWith
<1>3. task' = [task EXCEPT ![w] = [@ EXCEPT !.pc = "settle", !.err = err, !.slot = FALSE,
                           !.n = reported]]
  BY DEF FailsWith, Shape
<1> HIDE DEF reported
<1>4. TaskStep(w)
  BY <1>1, <1>3, StepNames DEF Shape, TaskType, TaskStep, Resting, Waiting
<1> QED
  BY <1>2, <1>4

\* An attempt of a push that is settled.
LEMMA RetryUploadSteps ==
  ASSUME Shape, NEW w \in Tasks, RetryUpload(w)
  PROVE  TaskStep(w) /\ JobStep(w)
<1> DEFINE cancelled == task[w].err = "cancelled"
           over == cancelled \/ task[w].attempt + 1 >= MaxRetries
           ended == [task[w] EXCEPT !.pc = "ended", !.slot = FALSE, !.n = 0]
           again == [task[w] EXCEPT !.pc = "backoff", !.attempt = task[w].attempt + 1,
                                    !.n = 0, !.err = "none"]
           t == IF over THEN ended ELSE again
           k == IF cancelled THEN job[w[1]].completed ELSE job[w[1]].completed - task[w].n
<1>1. task' = [task EXCEPT ![w] = t]
  <2>1. [Failed(w, task[w].err) EXCEPT !.n = 0] = ended
    BY TaskIs DEF Failed, Shape, TaskType
  <2> HIDE DEF ended, over
  <2>2. task' = [task EXCEPT ![w] = IF over THEN [Failed(w, task[w].err) EXCEPT !.n = 0] ELSE again]
    BY DEF RetryUpload, over
  <2> QED
    BY <2>1, <2>2
<1>2. job' = [job EXCEPT ![w[1]] = [@ EXCEPT !.completed = k,
                         !.cancelled = job[w[1]].cancelled \/ over]]
  BY DEF RetryUpload
<1>3. task[w] \in TaskType /\ w[1] \in Jobs /\ job[w[1]] \in JobType
  BY TaskIs DEF Shape
<1>4. k \in Int
  BY <1>3 DEF TaskType, JobType
<1>5. over \in BOOLEAN
  OBVIOUS
<1>6. t \in TaskType /\ t.pc \in {"ended", "backoff"} /\ t.back = task[w].back
  <2>1. ended \in TaskType /\ again \in TaskType
    <3>1. task[w].attempt + 1 \in Int /\ 0 \in Int /\ FALSE \in BOOLEAN
      BY <1>3 DEF TaskType
    <3> QED
      BY <1>3, <3>1, TaskFields, StepNames
  <2>2. ended.pc = "ended" /\ ended.back = task[w].back /\ again.pc = "backoff" /\ again.back = task[w].back
    BY <1>3 DEF TaskType
  <2> HIDE DEF over, ended, again
  <2> QED
    BY <2>1, <2>2
<1>7. task[w].pc \notin Resting
  BY DEF RetryUpload, At, Resting
<1> HIDE DEF t, k, over
<1>8. t.pc \notin Waiting
  BY <1>6 DEF Waiting
<1> QED
  BY <1>1, <1>2, <1>4, <1>5, <1>6, <1>7, <1>8, TaskSet, JobSettles

LEMMA PushTaskSteps ==
  ASSUME Shape, PushShape, NEW w \in Tasks, PushStep(w) \/ PushFault(w)
  PROVE  \/ TaskStep(w) /\ JobStep(w)
         \/ RefreshToken(w) \/ GetToken(w)
<1> USE SizeIs, StepNames DEF Shape, At, Goto, Failed, Fault, Right, Unauthorized
<1>0. /\ w[1] \in Jobs /\ job[w[1]] \in JobType
      /\ task[w] \in TaskType /\ send[w] \in SendType /\ OfPart(w) \in Int
  BY TaskIs DEF PushShape, TaskType, SendType, OfPart
<1>1. CASE HoldBody(w, "hold", IF send[w].part = 0 THEN "put" ELSE "patch")
  <2>1. TaskStep(w)
    BY <1>0, <1>1 DEF HoldBody, TaskType, TaskStep, Resting, Waiting
  <2>2. JobStep(w)
    BY <1>0, <1>1, JobStays DEF HoldBody
  <2> QED
    BY <2>1, <2>2
<1>2. CASE SemAcquire(w, "init")
  <2>1. TaskStep(w)
    BY <1>0, <1>2 DEF SemAcquire, TaskType, TaskStep, Resting, Waiting
  <2>2. JobStep(w)
    BY <1>0, <1>2, JobStays DEF SemAcquire
  <2> QED
    BY <2>1, <2>2
<1>3. CASE SemCancelled(w)
  <2>1. TaskStep(w)
    BY <1>0, <1>3 DEF SemCancelled, TaskType, TaskStep, Resting, Waiting
  <2>2. JobStep(w)
    BY <1>0, <1>3, JobStays DEF SemCancelled
  <2> QED
    BY <2>1, <2>2
<1>4. CASE BackedOff(w, "init")
  <2>1. TaskStep(w)
    BY <1>0, <1>4 DEF BackedOff, TaskType, TaskStep, Resting, Waiting
  <2>2. JobStep(w)
    BY <1>0, <1>4, JobStays DEF BackedOff
  <2> QED
    BY <2>1, <2>2
<1>5. CASE BackoffCancelled(w)
  <2>1. TaskStep(w)
    BY <1>0, <1>5 DEF BackoffCancelled, TaskType, TaskStep, Resting, Waiting
  <2>2. JobStep(w)
    BY <1>0, <1>5, JobStays DEF BackoffCancelled
  <2> QED
    BY <2>1, <2>2
<1>6. CASE Exists(w)
  <2>1. TaskStep(w)
    BY <1>0, <1>6, Refused, TaskMoves, StepNames DEF Exists, At, Resting, Waiting
  <2>2. JobStep(w)
    BY <1>0, <1>6, JobStays DEF Exists
  <2> QED
    BY <2>1, <2>2
<1>7. CASE ExistsCancelled(w)
  <2>1. TaskStep(w)
    BY <1>0, <1>7 DEF ExistsCancelled, HeadFails, TaskType, TaskStep, Resting, Waiting
  <2>2. JobStep(w)
    BY <1>0, <1>7, JobCancelled DEF ExistsCancelled, HeadFails
  <2> QED
    BY <2>1, <2>2
<1>8. CASE CancelUpload(w)
  <2>1. /\ task[w].pc \notin Resting
        /\ FailsWith(w, "cancelled", 0)
    BY <1>8 DEF CancelUpload, Fails, Resting
  <2> QED
    BY <2>1, AttemptFails, StepNames
<1>9. CASE RetryUpload(w)
  BY <1>9, RetryUploadSteps
<1>10. CASE InitUpload(w)
  <2>1. TaskStep(w)
    BY <1>0, <1>10, Refused, CreditEnds, TaskMoves, StepNames DEF InitUpload, At, Credit, Resting, Waiting
  <2>2. JobStep(w)
    BY <1>0, <1>10, JobAdds, JobStays DEF InitUpload, Credit
  <2> QED
    BY <2>1, <2>2
<1>11. CASE InitGivesUp(w)
  <2>1. CASE send[w].told
    BY <1>11, <2>1, AttemptFails, StepNames DEF InitGivesUp, Fails, Resting
  <2>2. CASE ~ send[w].told
    <3>1. JobStep(w)
      BY <1>11, <2>2, JobAdds DEF InitGivesUp, Credit
    <3>2. TaskStep(w)
      BY <1>0, <1>11, <2>2, CreditEnds, TaskMoves, StepNames DEF InitGivesUp, At, Credit, Resting, Waiting
    <3> QED
      BY <3>1, <3>2
  <2> QED
    BY <2>1, <2>2
<1>12. CASE Put(w)
  <2>1. TaskStep(w)
    BY <1>0, <1>12 DEF Put, TaskType, TaskStep, Resting, Waiting
  <2>2. Add(w[1], 1)
    BY <1>12 DEF Put
  <2> QED
    BY <2>1, <2>2, JobAdds
<1>13. CASE PutEnds(w)
  <2>1. TaskStep(w)
    BY <1>0, <1>13 DEF PutEnds, TaskType, TaskStep, Resting, Waiting
  <2>2. JobStep(w)
    BY <1>0, <1>13, JobStays DEF PutEnds
  <2> QED
    BY <2>1, <2>2
<1>14. CASE Commit(w)
  <2>1. TaskStep(w)
    BY <1>0, <1>14, Refused, CreditEnds, TaskMoves, StepNames DEF Commit, Resting, Waiting
  <2>2. JobStep(w)
    BY <1>0, <1>14, JobStays DEF Commit, Record
  <2> QED
    BY <2>1, <2>2
<1>15. CASE CommitGivesUp(w)
  <2>1. /\ task[w].pc \notin Resting
        /\ FailsWith(w, "error", 0)
    BY <1>15 DEF CommitGivesUp, Fails, Resting
  <2> QED
    BY <2>1, AttemptFails, StepNames
<1>16. CASE Patch(w)
  <2>1. TaskStep(w)
    BY <1>0, <1>16 DEF Patch, TaskType, TaskStep, Resting, Waiting
  <2>2. Add(w[1], 1)
    BY <1>16 DEF Patch
  <2> QED
    BY <2>1, <2>2, JobAdds
<1>17. CASE PartEnds(w)
  <2>1. TaskStep(w)
    BY <1>0, <1>17 DEF PartEnds, TaskType, TaskStep, Resting, Waiting
  <2>2. JobStep(w)
    BY <1>0, <1>17, JobStays DEF PartEnds
  <2> QED
    BY <2>1, <2>2
<1>18. CASE Redirected(w)
  <2>1. send[w].part - 1 \in Int
    BY <1>0 DEF SendType
  <2>2. TaskStep(w)
    BY <1>0, <1>18, <2>1 DEF Redirected, TaskType, TaskStep, Resting, Waiting
  <2>3. PICK late \in 0 .. 1 - OfPart(w) : Add(w[1], late - OfPart(w))
    BY <1>18 DEF Redirected
  <2>4. late - OfPart(w) \in Int
    BY <1>0
  <2> QED
    BY <2>2, <2>3, <2>4, JobAdds
<1>19. CASE PartRefused(w)
  BY <1>19, Refused, JobStays DEF PartRefused, Resting, Waiting
<1>20. CASE RetryPart(w)
  <2>1. CASE send[w].tries + 1 = MaxPartRetries
    BY <1>20, <2>1, AttemptFails DEF RetryPart, Fails, Resting
  <2>2. CASE send[w].tries + 1 # MaxPartRetries
    <3>1. send[w].part - 1 \in Int /\ - OfPart(w) \in Int
      BY <1>0 DEF SendType
    <3>2. TaskStep(w)
      BY <1>0, <1>20, <2>2, <3>1, TaskMoves, StepNames DEF RetryPart, At, Resting, Waiting
    <3>3. Add(w[1], - OfPart(w))
      BY <1>20, <2>2 DEF RetryPart
    <3> QED
      BY <3>1, <3>2, <3>3, JobAdds
  <2> QED
    BY <2>1, <2>2
<1>21. CASE ExistsUnknown(w)
  <2>1. TaskStep(w)
    BY <1>0, <1>21 DEF ExistsUnknown, TaskType, TaskStep, Resting, Waiting
  <2>2. JobStep(w)
    BY <1>0, <1>21, JobStays DEF ExistsUnknown
  <2> QED
    BY <2>1, <2>2
<1>22. CASE ExistsFails(w)
  <2>1. TaskStep(w)
    BY <1>0, <1>22 DEF ExistsFails, HeadFails, TaskType, TaskStep, Resting, Waiting
  <2>2. JobStep(w)
    BY <1>0, <1>22, JobCancelled DEF ExistsFails, HeadFails
  <2> QED
    BY <2>1, <2>2
<1>23. CASE InitFails(w)
  <2>1. TaskStep(w)
    BY <1>0, <1>23 DEF InitFails, TaskType, TaskStep, Resting, Waiting
  <2>2. JobStep(w)
    BY <1>0, <1>23, JobStays DEF InitFails
  <2> QED
    BY <2>1, <2>2
<1>24. CASE TokenFails(w)
  <2>1. CASE task[w].back = "part"
    <3>1. JobStep(w)
      BY <1>24, <2>1, JobStays DEF TokenFails
    <3>2. TaskStep(w)
      BY <1>24, <2>1 DEF TokenFails, TaskType, TaskStep, Resting, Waiting
    <3> QED
      BY <3>1, <3>2
  <2>2. CASE task[w].back # "part"
    BY <1>24, <2>2, AttemptFails, StepNames DEF TokenFails, Fails, Resting
  <2> QED
    BY <2>1, <2>2
<1>25. CASE PutFails(w)
  <2>1. /\ task[w].pc \notin Resting
        /\ \E late \in 0 .. 1 : FailsWith(w, "error", late)
    BY <1>25 DEF PutFails, Resting
  <2> QED
    BY <2>1, AttemptFails, StepNames
<1>26. CASE CommitFails(w)
  <2>1. TaskStep(w)
    BY <1>0, <1>26 DEF CommitFails, Record, TaskType, TaskStep, Resting, Waiting
  <2>2. JobStep(w)
    BY <1>0, <1>26, JobStays DEF CommitFails, Record
  <2> QED
    BY <2>1, <2>2
<1>27. CASE PartFails(w)
  <2>1. TaskStep(w)
    BY <1>0, <1>27 DEF PartFails, TaskType, TaskStep, Resting, Waiting
  <2>2. JobStep(w)
    BY <1>0, <1>27, JobAdds DEF PartFails
  <2> QED
    BY <2>1, <2>2
<1> QED
  BY <1>1, <1>2, <1>3, <1>4, <1>5, <1>6, <1>7, <1>8, <1>9, <1>10, <1>11, <1>12, <1>13, <1>14, <1>15, <1>16, <1>17, <1>18, <1>19, <1>20, <1>21, <1>22, <1>23, <1>24, <1>25, <1>26, <1>27 DEF PushStep, PushFault, Announces

\* An attempt of a pull that is settled.
LEMMA SettleSteps ==
  ASSUME Shape, PullShape, NEW w \in Tasks, Settle(w)
  PROVE  TaskStep(w) /\ JobStep(w)
<1> DEFINE attempt == task[w].attempt + IF Counts(w) THEN 1 ELSE 0
           over == task[w].err = "cancelled" \/ attempt >= MaxRetries
           ended == [task[w] EXCEPT !.pc = "ended", !.slot = FALSE, !.n = 0]
           pc == IF attempt > 0 THEN "backoff" ELSE "hold"
           again == [task[w] EXCEPT !.pc = pc, !.attempt = attempt, !.n = 0, !.err = "none"]
           t == IF over THEN ended ELSE again
           k == job[w[1]].completed - task[w].n
<1>1. task' = [task EXCEPT ![w] = t]
  <2>1. [Failed(w, task[w].err) EXCEPT !.n = 0] = ended
    BY TaskIs DEF Failed, Shape, TaskType
  <2> HIDE DEF ended, over
  <2>2. task' = [task EXCEPT ![w] = IF over THEN [Failed(w, task[w].err) EXCEPT !.n = 0] ELSE again]
    BY DEF Settle, over
  <2> QED
    BY <2>1, <2>2
<1>2. job' = [job EXCEPT ![w[1]] = [@ EXCEPT !.completed = k,
                         !.cancelled = job[w[1]].cancelled \/ over]]
  BY DEF Settle
<1>3. task[w] \in TaskType /\ w[1] \in Jobs /\ job[w[1]] \in JobType
  BY TaskIs DEF Shape
<1>4. k \in Int
  BY <1>3 DEF TaskType, JobType
<1>5. over \in BOOLEAN
  OBVIOUS
<1>6. t \in TaskType /\ t.pc \notin Waiting /\ t.back = task[w].back
  <2>1. ended \in TaskType /\ again \in TaskType
    <3>1. attempt \in Int /\ 0 \in Int /\ FALSE \in BOOLEAN /\ pc \in Steps
      BY <1>3, StepNames DEF TaskType
    <3> HIDE DEF attempt, pc
    <3> QED
      BY <1>3, <3>1, TaskFields, StepNames
  <2>2. ended.pc = "ended" /\ ended.back = task[w].back /\ again.pc \in {"backoff", "hold"} /\ again.back = task[w].back
    BY <1>3 DEF TaskType
  <2> HIDE DEF over, ended, again
  <2> QED
    BY <2>1, <2>2 DEF Waiting
<1>7. task[w].pc \notin Resting
  BY DEF Settle, At, Resting
<1> HIDE DEF t, k, over
<1> QED
  BY <1>1, <1>2, <1>4, <1>5, <1>6, <1>7, TaskSet, JobSettles

LEMMA OpenSteps ==
  ASSUME Shape, PullShape, NEW w \in Tasks, Open(w)
  PROVE  TaskStep(w) /\ JobStep(w)
<1> DEFINE tmp == disk[w[2]].tmp
           continue == fetch[w].from > 0 /\ tmp # None /\ Len(tmp) >= fetch[w].from
           at == IF continue THEN fetch[w].from ELSE 0
<1>1. /\ task' = [task EXCEPT ![w] = [@ EXCEPT !.pc = "read", !.n = at]]
      /\ Add(w[1], at) /\ task[w].pc = "open"
  BY DEF Open, At
<1>2. at \in Int
  BY DEF PullShape, FetchType
<1> HIDE DEF at
<1>3. TaskStep(w)
  BY <1>1, <1>2, StepNames DEF Shape, TaskType, TaskStep, Resting, Waiting
<1> QED
  BY <1>1, <1>2, <1>3, JobAdds

LEMMA ReceivesSteps ==
  ASSUME Shape, PullShape, NEW w \in Tasks, NEW right, NEW lost, Receives(w, right, lost)
  PROVE  TaskStep(w) /\ JobStep(w)
<1>1. Add(w[1], 1) /\ task[w].pc = "read"
  BY DEF Receives, At
<1>2. task[w].n + 1 \in Int /\ fetch[w].cause \in Errors
  <2>1. task[w] \in TaskType /\ fetch[w] \in FetchType
    BY DEF Shape, PullShape
  <2>2. fetch[w].cause \in {"none", "stalled", "slow"}
    BY <2>1 DEF FetchType
  <2> QED
    BY <2>1, <2>2, StepNames DEF TaskType
<1>3. PICK pc \in {"read", "drain"}, err \in Errors :
        task' = [task EXCEPT ![w] = [@ EXCEPT !.n = task[w].n + 1, !.pc = pc,
                             !.err = err]]
  <2>1. CASE fetch[w].cause = "none"
    BY <1>1, <2>1 DEF Receives, Shape, TaskType
  <2>2. CASE fetch[w].cause # "none"
    BY <1>1, <1>2, <2>2 DEF Receives, Shape
  <2> QED
    BY <2>1, <2>2
<1>4. TaskStep(w)
  BY <1>1, <1>2, <1>3, StepNames DEF Shape, TaskType, TaskStep, Resting, Waiting
<1> QED
  BY <1>1, <1>4, JobAdds

LEMMA PullTaskSteps ==
  ASSUME Shape, PullShape, NEW w \in Tasks, PullStep(w) \/ PullFault(w)
  PROVE  \/ TaskStep(w) /\ JobStep(w)
         \/ RefreshToken(w) \/ GetToken(w)
<1> USE SizeIs, StepNames DEF Shape, At, Goto, Failed, Fault, Right, Unauthorized
<1>0. /\ w[1] \in Jobs /\ job[w[1]] \in JobType
      /\ task[w] \in TaskType /\ fetch[w] \in FetchType
  BY TaskIs DEF PullShape
<1>1. CASE HoldBody(w, "hold", "resolve")
  <2>1. TaskStep(w)
    BY <1>0, <1>1 DEF HoldBody, TaskType, TaskStep, Resting, Waiting
  <2>2. JobStep(w)
    BY <1>0, <1>1, JobStays DEF HoldBody
  <2> QED
    BY <2>1, <2>2
<1>2. CASE SemAcquire(w, "hold")
  <2>1. TaskStep(w)
    BY <1>0, <1>2 DEF SemAcquire, TaskType, TaskStep, Resting, Waiting
  <2>2. JobStep(w)
    BY <1>0, <1>2, JobStays DEF SemAcquire
  <2> QED
    BY <2>1, <2>2
<1>3. CASE SemCancelled(w)
  <2>1. TaskStep(w)
    BY <1>0, <1>3 DEF SemCancelled, TaskType, TaskStep, Resting, Waiting
  <2>2. JobStep(w)
    BY <1>0, <1>3, JobStays DEF SemCancelled
  <2> QED
    BY <2>1, <2>2
<1>4. CASE BackedOff(w, "hold")
  <2>1. TaskStep(w)
    BY <1>0, <1>4 DEF BackedOff, TaskType, TaskStep, Resting, Waiting
  <2>2. JobStep(w)
    BY <1>0, <1>4, JobStays DEF BackedOff
  <2> QED
    BY <2>1, <2>2
<1>5. CASE BackoffCancelled(w)
  <2>1. TaskStep(w)
    BY <1>0, <1>5 DEF BackoffCancelled, TaskType, TaskStep, Resting, Waiting
  <2>2. JobStep(w)
    BY <1>0, <1>5, JobStays DEF BackoffCancelled
  <2> QED
    BY <2>1, <2>2
<1>6. CASE Interrupt(w)
  <2>1. TaskStep(w)
    BY <1>0, <1>6 DEF Interrupt, Fail, TaskType, TaskStep, Resting, Waiting
  <2>2. JobStep(w)
    BY <1>0, <1>6, JobStays DEF Interrupt, Fail
  <2> QED
    BY <2>1, <2>2
<1>7. CASE Settle(w)
  BY <1>7, SettleSteps
<1>8. CASE Resolve(w)
  <2>1. TaskStep(w)
    BY <1>0, <1>8, Refused, TaskMoves, StepNames DEF Resolve, At, Resting, Waiting
  <2>2. JobStep(w)
    BY <1>0, <1>8, JobStays DEF Resolve
  <2> QED
    BY <2>1, <2>2
<1>9. CASE Stat(w)
  <2>1. TaskStep(w)
    BY <1>0, <1>9 DEF Stat, TaskType, TaskStep, Resting, Waiting
  <2>2. JobStep(w)
    BY <1>0, <1>9, JobStays DEF Stat
  <2> QED
    BY <2>1, <2>2
<1>10. CASE Ask(w)
  <2>1. TaskStep(w)
    BY <1>0, <1>10, TaskMoves, StepNames DEF Ask, At, Resting, Waiting
  <2>2. JobStep(w)
    BY <1>0, <1>10, JobStays DEF Ask, Fail
  <2> QED
    BY <2>1, <2>2
<1>11. CASE Open(w)
  BY <1>11, OpenSteps
<1>12. CASE Receive(w)
  BY <1>12, ReceivesSteps DEF Receive
<1>13. CASE EndOfBody(w)
  <2>1. TaskStep(w)
    BY <1>0, <1>13 DEF EndOfBody, BodyEnds, TaskType, TaskStep, Resting, Waiting
  <2>2. JobStep(w)
    BY <1>0, <1>13, JobStays DEF EndOfBody, BodyEnds
  <2> QED
    BY <2>1, <2>2
<1>14. CASE Drain(w)
  <2>1. TaskStep(w)
    BY <1>0, <1>14 DEF Drain, Fail, TaskType, TaskStep, Resting, Waiting
  <2>2. JobStep(w)
    BY <1>0, <1>14, JobStays DEF Drain, Fail
  <2> QED
    BY <2>1, <2>2
<1>15. CASE Verify(w)
  <2>1. TaskStep(w)
    BY <1>0, <1>15, TaskMoves, StepNames DEF Verify, At, Resting, Waiting
  <2>2. JobStep(w)
    BY <1>0, <1>15, JobStays DEF Verify, Fail
  <2> QED
    BY <2>1, <2>2
<1>16. CASE Rename(w)
  <2>1. TaskStep(w)
    BY <1>0, <1>16, TaskMoves, StepNames DEF Rename, At, Resting, Waiting
  <2>2. JobStep(w)
    BY <1>0, <1>16, JobStays DEF Rename, Fail
  <2> QED
    BY <2>1, <2>2
<1>17. CASE RequestFails(w)
  <2>1. TaskStep(w)
    BY <1>0, <1>17 DEF RequestFails, Fail, TaskType, TaskStep, Resting, Waiting
  <2>2. JobStep(w)
    BY <1>0, <1>17, JobStays DEF RequestFails, Fail
  <2> QED
    BY <2>1, <2>2
<1>18. CASE ReceiveBadly(w)
  BY <1>18, ReceivesSteps DEF ReceiveBadly
<1>19. CASE EndsEarly(w)
  <2>1. TaskStep(w)
    BY <1>0, <1>19 DEF EndsEarly, BodyEnds, TaskType, TaskStep, Resting, Waiting
  <2>2. JobStep(w)
    BY <1>0, <1>19, JobStays DEF EndsEarly, BodyEnds
  <2> QED
    BY <2>1, <2>2
<1>20. CASE Break(w)
  <2>1. TaskStep(w)
    BY <1>0, <1>20 DEF Break, Fail, TaskType, TaskStep, Resting, Waiting
  <2>2. JobStep(w)
    BY <1>0, <1>20, JobStays DEF Break, Fail
  <2> QED
    BY <2>1, <2>2
<1>21. CASE FallSilent(w)
  <2>1. TaskStep(w)
    BY <1>0, <1>21 DEF FallSilent, TaskType, TaskStep, Resting, Waiting
  <2>2. JobStep(w)
    BY <1>0, <1>21, JobStays DEF FallSilent
  <2> QED
    BY <2>1, <2>2
<1>22. CASE SpeaksAgain(w)
  <2>1. TaskStep(w)
    BY <1>0, <1>22 DEF SpeaksAgain, TaskType, TaskStep, Resting, Waiting
  <2>2. JobStep(w)
    BY <1>0, <1>22, JobStays DEF SpeaksAgain
  <2> QED
    BY <2>1, <2>2
<1>23. CASE Watchdog(w)
  <2>1. TaskStep(w)
    BY <1>0, <1>23 DEF Watchdog, TaskType, TaskStep, Resting, Waiting
  <2>2. JobStep(w)
    BY <1>0, <1>23, JobStays DEF Watchdog
  <2> QED
    BY <2>1, <2>2
<1> QED
  BY <1>1, <1>2, <1>3, <1>4, <1>5, <1>6, <1>7, <1>8, <1>9, <1>10, <1>11, <1>12, <1>13, <1>14, <1>15, <1>16, <1>17, <1>18, <1>19, <1>20, <1>21, <1>22, <1>23 DEF PullStep, PullFault, Begins

-----------------------------------------------------------------------------
(* Tokens: who asks for one does so alone, with a token that is not valid    *)
(* any more, and jobs that only have their manifest to send have no tasks    *)
(* that could ask.                                                           *)

Alone == \A v, w \in Tasks :
           v[1] = w[1] /\ task[v].pc = "getToken" /\ task[w].pc = "getToken" => v = w

Asks(w) ==
  LET j == w[1] IN
  /\ task[w].pc = "refresh" => task[w].prev < job[j].valid
  /\ task[w].pc = "getToken" => job[j].token < job[j].valid
  /\ task[w].back \notin Waiting
  /\ job[j].phase \in {"manifest", "ok"} => task[w].pc \in Resting
  /\ w[2] \notin job[j].layers => task[w].pc = "none"

TokenInv == Alone /\ TokensAreShared /\ \A w \in Tasks : Asks(w)

LEMMA TokenInit == TensorInit => TokenInv
<1> SUFFICES ASSUME TensorInit PROVE TokenInv
  OBVIOUS
<1>1. /\ \A j \in Jobs : job[j].phase = "idle" /\ job[j].token = 0 /\ job[j].valid = 0
      /\ \A w \in Tasks : task[w].pc = "none" /\ task[w].back = "none"
  BY DEF TensorInit, TransferInit, NewTask
<1> QED
  BY <1>1, TaskIs DEF TokenInv, Alone, Asks, TokensAreShared, Waiting, Resting

\* What a step of a task that is not about tokens keeps.
LEMMA TokenKept ==
  ASSUME Shape, TokenInv, NEW w \in Tasks, TaskStep(w), JobStep(w)
  PROVE  Shape' /\ TokenInv'
<1>1. w[1] \in Jobs
  BY TaskIs
<1>2. Shape'
  BY <1>1 DEF Shape, TaskStep, JobStep
<1>3. /\ \A v \in Tasks : v # w => task'[v] = task[v]
      /\ \A j \in Jobs : /\ job'[j].token = job[j].token /\ job'[j].valid = job[j].valid
                         /\ job'[j].phase = job[j].phase /\ job'[j].layers = job[j].layers
  BY <1>1 DEF Shape, TaskStep, JobStep
<1>4. /\ task'[w].pc # "getToken" /\ task'[w].back \notin Waiting
      /\ task'[w].pc = "refresh" => ~ Authorized(w) /\ task'[w].prev = job[w[1]].token
      /\ task[w].pc \notin Resting
  BY DEF TaskStep, TokenInv, Asks, Waiting
<1>5. job[w[1]].token \in Int /\ job[w[1]].valid \in Int
  BY <1>1 DEF Shape, JobType
<1>6. Alone' /\ TokensAreShared'
  BY <1>3, <1>4 DEF TokenInv, Alone, TokensAreShared
<1>7. ASSUME NEW v \in Tasks PROVE Asks(v)'
  <2>1. v[1] \in Jobs
    BY TaskIs
  <2>2. CASE v # w
    BY <1>3, <2>1, <2>2 DEF TokenInv, Asks
  <2>3. CASE v = w
    BY <1>3, <1>4, <1>5, <2>1, <2>3 DEF TokenInv, Asks, Authorized, Resting
  <2> QED
    BY <2>2, <2>3
<1> QED
  BY <1>2, <1>6, <1>7 DEF TokenInv

\* Who refreshes the token asks for one only if it is the one that was refused.
LEMMA RefreshKeeps ==
  ASSUME Shape, TokenInv, NEW w \in Tasks, RefreshToken(w)
  PROVE  Shape' /\ TokenInv'
<1>1. w[1] \in Jobs /\ w = <<w[1], w[2]>> /\ w[2] \in Blobs
  BY TaskIs
<1>2. /\ task[w].pc = "refresh" /\ UNCHANGED job
      /\ \A b \in Blobs : task[<<w[1], b>>].pc # "getToken"
      /\ task' = [task EXCEPT ![w].pc = IF job[w[1]].token = task[w].prev THEN "getToken" ELSE task[w].back]
  BY DEF RefreshToken, Goto, At
<1>3. \A v \in Tasks : v[1] = w[1] => task[v].pc # "getToken"
  BY <1>2, TaskIs
<1>4. /\ \A v \in Tasks : v # w => task'[v] = task[v]
      /\ task'[w].back = task[w].back /\ task'[w].pc \in {"getToken", task[w].back}
      /\ task'[w].pc = "getToken" => job[w[1]].token = task[w].prev
  BY <1>2 DEF Shape, TaskType, TokenInv, Asks, Waiting
<1>5. Shape'
  BY <1>2, StepNames DEF Shape, TaskType
<1>6. Alone' /\ TokensAreShared'
  BY <1>2, <1>3, <1>4, TaskIs DEF TokenInv, Alone, Asks, TokensAreShared, Waiting
<1>7. ASSUME NEW v \in Tasks PROVE Asks(v)'
  BY <1>2, <1>4 DEF TokenInv, Asks, Waiting, Resting
<1> QED
  BY <1>5, <1>6, <1>7 DEF TokenInv

LEMMA GetTokenKeeps ==
  ASSUME Shape, TokenInv, NEW w \in Tasks, GetToken(w)
  PROVE  Shape' /\ TokenInv'
<1>1. w[1] \in Jobs /\ job[w[1]] \in JobType
  BY TaskIs DEF Shape
<1>2. /\ task[w].pc = "getToken" /\ task' = [task EXCEPT ![w].pc = task[w].back]
      /\ job' = [job EXCEPT ![w[1]].token = @ + 1]
  BY DEF GetToken, Goto, At
<1>3. Shape'
  <2>1. job[w[1]].token + 1 \in Int
    BY <1>1 DEF JobType
  <2>2. job' \in [Jobs -> JobType]
    BY <1>1, <1>2, <2>1 DEF Shape, JobType
  <2>3. task' \in [Tasks -> TaskType]
    BY <1>2 DEF Shape, TaskType
  <2> QED
    BY <2>2, <2>3 DEF Shape
<1>4. /\ \A v \in Tasks : v # w => task'[v] = task[v]
      /\ task'[w].back = task[w].back /\ task'[w].pc = task[w].back
  BY <1>2 DEF Shape, TaskType
<1>5. /\ job'[w[1]].token = job[w[1]].token + 1
      /\ \A j \in Jobs : /\ j # w[1] => job'[j] = job[j]
                         /\ job'[j].valid = job[j].valid
                         /\ job'[j].phase = job[j].phase /\ job'[j].layers = job[j].layers
  BY <1>1, <1>2 DEF Shape, JobType
<1>6. job[w[1]].token \in Int /\ job[w[1]].valid \in Int /\ job[w[1]].token < job[w[1]].valid
  BY <1>1, <1>2 DEF TokenInv, Asks, JobType
<1>7. Alone' /\ TokensAreShared'
  <2>1. Alone'
    BY <1>2, <1>4 DEF TokenInv, Alone, Asks, Waiting
  <2>2. TokensAreShared'
    BY <1>5, <1>6 DEF TokenInv, TokensAreShared
  <2> QED
    BY <2>1, <2>2
<1>8. ASSUME NEW v \in Tasks PROVE Asks(v)'
  <2>1. v[1] \in Jobs
    BY TaskIs
  <2>2. CASE v = w
    BY <1>2, <1>4, <1>5, <2>1, <2>2 DEF TokenInv, Asks, Waiting, Resting
  <2>3. CASE v # w /\ v[1] = w[1]
    BY <1>2, <1>4, <1>5, <2>1, <2>3 DEF TokenInv, Alone, Asks
  <2>4. CASE v[1] # w[1]
    BY <1>4, <1>5, <2>1, <2>4 DEF TokenInv, Asks
  <2> QED
    BY <2>2, <2>3, <2>4
<1> QED
  BY <1>3, <1>7, <1>8 DEF TokenInv

\* What the other steps have in common, by which no task comes to wait for a token.
LEMMA TokensStay ==
  ASSUME TokenInv,
         \A j \in Jobs : /\ job'[j].token = job[j].token /\ job'[j].valid = job[j].valid
                        /\ job'[j].layers = job[j].layers,
         \A w \in Tasks :
           /\ \/ task'[w] = task[w]
              \/ task'[w].pc \notin Waiting /\ task'[w].back \notin Waiting
           /\ job'[w[1]].phase \in {"manifest", "ok"} => task'[w].pc \in Resting
           /\ w[2] \notin job[w[1]].layers => task'[w].pc = "none"
  PROVE  TokenInv'
<1>1. \A w \in Tasks : w[1] \in Jobs
  BY TaskIs
<1>2. Alone' /\ TokensAreShared'
  BY <1>1 DEF TokenInv, Alone, TokensAreShared, Waiting
<1>3. ASSUME NEW w \in Tasks PROVE Asks(w)'
  BY <1>1, <1>3 DEF TokenInv, Asks, Waiting
<1> QED
  BY <1>2, <1>3 DEF TokenInv

LEMMA SumTyped ==
  ASSUME NEW S \in SUBSET Blobs
  PROVE  Cardinality(S) \in Nat /\ Cardinality(S) * Size \in Nat
<1>1. IsFiniteSet(S)
  BY FS_Subset, TransferAssumption
<1>2. Cardinality(S) \in Nat
  BY <1>1, FS_CardinalityType
<1> QED
  BY <1>2, SizeIs

\* What changes in a job that begins, or is forgotten.
Begun(r, phase, a, k) ==
  [r EXCEPT !.phase = phase, !.cancelled = FALSE, !.already = a, !.completed = k]

LEMMA BegunFields ==
  \A r \in JobType, phase \in Phases, a \in Int, k \in Int :
     LET q == Begun(r, phase, a, k) IN
     /\ q \in JobType /\ q.phase = phase /\ q.already = a /\ q.completed = k
     /\ q.kind = r.kind /\ q.layers = r.layers /\ q.token = r.token /\ q.valid = r.valid
<1> SUFFICES ASSUME NEW r \in JobType, NEW phase \in Phases, NEW a \in Int, NEW k \in Int
             PROVE  LET q == Begun(r, phase, a, k) IN
                    /\ q \in JobType /\ q.phase = phase /\ q.already = a /\ q.completed = k
                    /\ q.kind = r.kind /\ q.layers = r.layers /\ q.token = r.token
                    /\ q.valid = r.valid
  OBVIOUS
<1> DEFINE q == [r EXCEPT !.phase = phase, !.cancelled = FALSE, !.already = a, !.completed = k]
<1>1. q \in JobType
  <2>1. \A c \in BOOLEAN : [r EXCEPT !.phase = phase, !.cancelled = c] \in JobType
    BY DEF JobType
  <2>2. [r EXCEPT !.phase = phase, !.cancelled = FALSE] \in JobType
    BY <2>1, Zenon
  <2>3. \A s \in JobType : [s EXCEPT !.already = a, !.completed = k] \in JobType
    BY DEF JobType
  <2> QED
    BY <2>2, <2>3
<1>2. /\ q.phase = phase /\ q.already = a /\ q.completed = k
      /\ q.kind = r.kind /\ q.layers = r.layers /\ q.token = r.token /\ q.valid = r.valid
  BY DEF JobType
<1> QED
  BY <1>1, <1>2 DEF Begun

\* ... as a step of the jobs.
LEMMA JobBegins ==
  ASSUME Shape, NEW j \in Jobs, NEW phase \in Phases, NEW a \in Int, NEW k \in Int,
         job' = [job EXCEPT ![j] = Begun(job[j], phase, a, k)]
  PROVE  /\ job' \in [Jobs -> JobType]
         /\ \A i \in Jobs : /\ job'[i].token = job[i].token /\ job'[i].valid = job[i].valid
                            /\ job'[i].layers = job[i].layers /\ job'[i].kind = job[i].kind
                            /\ i # j => job'[i] = job[i]
                            /\ i = j => job'[i].phase = phase
         /\ job'[j].already = a /\ job'[j].completed = k
<1>1. job[j] \in JobType
  BY DEF Shape
<1> QED
  BY <1>1, BegunFields DEF Shape

LEMMA DownloadTokens ==
  ASSUME Shape, TokenInv, NEW j \in Jobs, Download(j)
  PROVE  Shape' /\ TokenInv'
<1> DEFINE wanted == Missing(j)
           already == Cardinality(job[j].layers \ wanted) * Size
<1>1. job[j] \in JobType /\ wanted \subseteq job[j].layers /\ already \in Int
  BY SumTyped DEF Shape, JobType, Missing
<1>2. /\ job' = [job EXCEPT ![j] = [@ EXCEPT !.phase = IF wanted = {} THEN "manifest" ELSE "running",
                            !.cancelled = FALSE, !.already = already,
                            !.completed = IF wanted = {} THEN 0 ELSE already]]
      /\ task' = [w \in Tasks |-> IF w \in {j} \X wanted THEN [NewTask EXCEPT !.pc = "queued"]
                                  ELSE IF w[1] = j THEN NewTask ELSE task[w]]
  BY DEF Download
<1> HIDE DEF already, wanted
<1> DEFINE phase == IF wanted = {} THEN "manifest" ELSE "running"
           completed == IF wanted = {} THEN 0 ELSE already
<1>3. /\ job' \in [Jobs -> JobType]
      /\ \A i \in Jobs : /\ job'[i].token = job[i].token /\ job'[i].valid = job[i].valid
                         /\ job'[i].layers = job[i].layers
                         /\ i # j => job'[i].phase = job[i].phase
                         /\ i = j => job'[i].phase = phase
  <2>1. phase \in Phases /\ completed \in Int /\ FALSE \in BOOLEAN
    BY <1>1 DEF Phases
  <2>2. job' = [job EXCEPT ![j] = Begun(job[j], phase, already, completed)]
    BY <1>2 DEF Begun, Shape
  <2> HIDE DEF phase, completed
  <2> QED
    BY <1>1, <2>1, <2>2, JobBegins
<1>4. Shape'
  <2>1. [NewTask EXCEPT !.pc = "queued"] \in TaskType /\ NewTask \in TaskType
    BY NewTyped, StepNames DEF TaskType
  <2> QED
    BY <1>2, <1>3, <2>1 DEF Shape
<1>5. job'[j].phase \in {"manifest", "ok"} => wanted = {}
  BY <1>3
<1>6. \A w \in Tasks :
        /\ w[1] # j => task'[w] = task[w]
        /\ w[1] = j => /\ task'[w].pc \in {"queued", "none"} /\ task'[w].back = "none"
                       /\ task'[w].pc = "queued" => w[2] \in wanted
  BY <1>2 DEF NewTask
<1>7. ASSUME NEW w \in Tasks
      PROVE  /\ \/ task'[w] = task[w]
                \/ task'[w].pc \notin Waiting /\ task'[w].back \notin Waiting
             /\ job'[w[1]].phase \in {"manifest", "ok"} => task'[w].pc \in Resting
             /\ w[2] \notin job[w[1]].layers => task'[w].pc = "none"
  BY <1>1, <1>3, <1>5, <1>6, TaskIs DEF TokenInv, Asks, Waiting, Resting
<1> QED
  BY <1>3, <1>4, <1>7, TokensStay

\* A job goes on to a phase, and its tasks stay as they are.
LEMMA PhaseTokens ==
  ASSUME Shape, TokenInv, NEW j \in Jobs, UNCHANGED task, NEW phase \in Phases,
         job' = [job EXCEPT ![j].phase = phase],
         phase \in {"manifest", "ok"} => \A w \in Tasks : w[1] = j => task[w].pc \in Resting
  PROVE  Shape' /\ TokenInv'
<1>1. Shape'
  BY DEF Shape, JobType
<1>2. \A i \in Jobs : /\ job'[i].token = job[i].token /\ job'[i].valid = job[i].valid
                      /\ job'[i].layers = job[i].layers
                      /\ i # j => job'[i].phase = job[i].phase
                      /\ i = j => job'[i].phase = phase
  BY DEF Shape, JobType
<1> QED
  BY <1>1, <1>2, TaskIs, TokensStay DEF TokenInv, Asks

\* The tasks of a job are those of its layers; the others rest.
LEMMA OthersRest ==
  ASSUME TokenInv, NEW j \in Jobs, NEW w \in Tasks, w[1] = j, w \notin TasksOf(j)
  PROVE  task[w].pc = "none"
  BY TaskIs DEF TasksOf, TokenInv, Asks

LEMMA WaitTokens ==
  ASSUME Shape, TokenInv, NEW j \in Jobs, Wait(j) \/ WriteManifest(j) \/ UploadsEnd(j)
  PROVE  Shape' /\ TokenInv'
<1>1. \A w \in Tasks : w[1] = j => task[w].pc \in Resting
  BY OthersRest DEF Wait, WriteManifest, UploadsEnd, Resting, TokenInv, Asks
<1>2. PICK phase \in Phases : job' = [job EXCEPT ![j].phase = phase] /\ UNCHANGED task
  BY DEF Wait, WriteManifest, UploadsEnd, Phases
<1> QED
  BY <1>1, <1>2, PhaseTokens

LEMMA UploadTokens ==
  ASSUME Shape, TokenInv, NEW j \in Jobs, Upload(j)
  PROVE  Shape' /\ TokenInv'
<1>1. /\ job' = [job EXCEPT ![j] = [@ EXCEPT !.phase = "checking", !.cancelled = FALSE,
                            !.already = 0, !.completed = 0]]
      /\ task' = [w \in Tasks |-> IF w \in TasksOf(j) THEN [NewTask EXCEPT !.pc = "head"] ELSE task[w]]
  BY DEF Upload
<1>0. /\ job' \in [Jobs -> JobType]
      /\ \A i \in Jobs : /\ job'[i].token = job[i].token /\ job'[i].valid = job[i].valid
                         /\ job'[i].layers = job[i].layers
                         /\ i # j => job'[i] = job[i]
                         /\ i = j => job'[i].phase = "checking"
  <2>1. "checking" \in Phases /\ FALSE \in BOOLEAN /\ 0 \in Int
    BY DEF Phases
  <2>2. job' = [job EXCEPT ![j] = Begun(job[j], "checking", 0, 0)]
    BY <1>1 DEF Begun, Shape
  <2> QED
    BY <2>1, <2>2, JobBegins
<1>2. Shape'
  <2>1. [NewTask EXCEPT !.pc = "head"] \in TaskType
    BY NewTyped, StepNames DEF TaskType
  <2> QED
    BY <1>0, <1>1, <2>1 DEF Shape
<1>4. \A w \in Tasks :
        /\ w \notin TasksOf(j) => task'[w] = task[w]
        /\ w \in TasksOf(j) => task'[w].pc = "head" /\ task'[w].back = "none" /\ w[1] = j
                              /\ w[2] \in job[j].layers
  BY <1>1 DEF NewTask, TasksOf
<1> QED
  BY <1>0, <1>2, <1>4, TaskIs, TokensStay DEF TokenInv, Asks, Waiting, Resting

LEMMA StartTokens ==
  ASSUME Shape, TokenInv, NEW j \in Jobs, StartUploads(j)
  PROVE  Shape' /\ TokenInv'
<1> DEFINE already == Cardinality({w \in TasksOf(j) : At(w, "checked")}) * Size
<1>1. already \in Int
  <2>1. IsFiniteSet(TasksOf(j))
    <3>1. IsFiniteSet(job[j].layers)
      BY FS_Subset, TransferAssumption DEF Shape, JobType
    <3>2. IsFiniteSet({j})
      BY FS_Singleton
    <3> QED
      BY <3>1, <3>2, FS_Product DEF TasksOf
  <2>2. Cardinality({w \in TasksOf(j) : At(w, "checked")}) \in Nat
    BY <2>1, FS_Subset, FS_CardinalityType
  <2> QED
    BY <2>2, SizeIs
<1>2. PICK phase \in {"failed", "running"} :
        job' = [job EXCEPT ![j] = [@ EXCEPT !.phase = phase, !.already = already,
                           !.completed = already]]
  BY DEF StartUploads
<1>3. UNCHANGED task
  BY DEF StartUploads
<1> HIDE DEF already
<1>4. Shape'
  <2>1. phase \in Phases
    BY DEF Phases
  <2>2. job' \in [Jobs -> JobType]
    BY <1>1, <1>2, <2>1 DEF Shape, JobType
  <2> QED
    BY <1>3, <2>2 DEF Shape
<1>5. \A i \in Jobs : /\ job'[i].token = job[i].token /\ job'[i].valid = job[i].valid
                      /\ job'[i].layers = job[i].layers
                      /\ i # j => job'[i].phase = job[i].phase
                      /\ i = j => job'[i].phase \notin {"manifest", "ok"}
  BY <1>2 DEF Shape, JobType
<1> QED
  BY <1>3, <1>4, <1>5, TaskIs, TokensStay DEF TokenInv, Asks

\* The manifest is sent when no task is left: a new token is no other's.
LEMMA ManifestTokens ==
  ASSUME Shape, TokenInv, NEW j \in Jobs, PushManifest(j)
  PROVE  Shape' /\ TokenInv'
<1>1. \A w \in Tasks : w[1] = j => task[w].pc \in Resting
  BY DEF PushManifest, TokenInv, Asks
<1>2. UNCHANGED task
  BY DEF PushManifest
<1>3. CASE \E phase \in {"ok", "failed"} : job' = [job EXCEPT ![j].phase = phase]
  BY <1>1, <1>2, <1>3, PhaseTokens DEF Phases
<1>4. CASE job[j].token < job[j].valid /\ job' = [job EXCEPT ![j].token = @ + 1]
  <2>1. job[j].token \in Int /\ job[j].valid \in Int /\ job[j].token + 1 \in Int
    BY DEF Shape, JobType
  <2>2. Shape'
    BY <1>2, <1>4, <2>1 DEF Shape, JobType
  <2>3. \A i \in Jobs : /\ i # j => job'[i].token = job[i].token
                        /\ job'[i].valid = job[i].valid
                        /\ job'[i].phase = job[i].phase /\ job'[i].layers = job[i].layers
    BY <1>4 DEF Shape, JobType
  <2>4. job'[j].token = job[j].token + 1
    BY <1>4 DEF Shape, JobType
  <2>5. TokensAreShared'
    BY <1>4, <2>1, <2>3, <2>4 DEF TokenInv, TokensAreShared
  <2>6. ASSUME NEW w \in Tasks PROVE Asks(w)'
    BY <1>1, <1>2, <2>3, TaskIs DEF TokenInv, Asks, Resting
  <2>7. Alone'
    BY <1>2 DEF TokenInv, Alone
  <2> QED
    BY <2>2, <2>5, <2>6, <2>7 DEF TokenInv
<1> QED
  BY <1>3, <1>4 DEF PushManifest

LEMMA ExpiryTokens ==
  ASSUME Shape, TokenInv, NEW j \in Jobs, TokenExpires(j)
  PROVE  Shape' /\ TokenInv'
<1>1. UNCHANGED task /\ job' = [job EXCEPT ![j].valid = @ + 1]
  BY DEF TokenExpires
<1>2. \A i \in Jobs : job[i].token \in Int /\ job[i].valid \in Int
  BY DEF Shape, JobType
<1>3. Shape'
  <2>1. job[j].valid + 1 \in Int
    BY <1>2
  <2> QED
    BY <1>1, <2>1 DEF Shape, JobType
<1>4. \A i \in Jobs : /\ job'[i].token = job[i].token
                      /\ job'[i].valid \in {job[i].valid, job[i].valid + 1}
                      /\ job'[i].phase = job[i].phase /\ job'[i].layers = job[i].layers
  BY <1>1 DEF Shape, JobType
<1>5. TokensAreShared'
  BY <1>2, <1>4 DEF TokenInv, TokensAreShared
<1>6. ASSUME NEW w \in Tasks PROVE Asks(w)'
  <2>1. w[1] \in Jobs /\ task[w].prev \in Int
    BY TaskIs DEF Shape, TaskType
  <2> QED
    BY <1>1, <1>2, <1>4, <2>1 DEF TokenInv, Asks
<1> QED
  BY <1>1, <1>3, <1>5, <1>6 DEF TokenInv, Alone

LEMMA LeavingTokens ==
  ASSUME Shape, TokenInv, NEW j \in Jobs, ClientLeaves(j)
  PROVE  Shape' /\ TokenInv'
<1>1. UNCHANGED task /\ job' = [job EXCEPT ![j] = Cancelled(j)]
  BY DEF ClientLeaves
<1>2. Shape'
  BY <1>1 DEF Shape, JobType, Cancelled
<1>3. \A i \in Jobs : /\ job'[i].token = job[i].token /\ job'[i].valid = job[i].valid
                      /\ job'[i].layers = job[i].layers /\ job'[i].phase = job[i].phase
  BY <1>1 DEF Shape, JobType, Cancelled
<1> QED
  BY <1>1, <1>2, <1>3, TaskIs, TokensStay DEF TokenInv, Asks

LEMMA RestartTokens ==
  ASSUME Shape, TokenInv, Restart
  PROVE  Shape' /\ TokenInv'
<1>1. /\ job' = [j \in Jobs |-> IF job[j].phase = "ok" THEN job[j]
                                ELSE [job[j] EXCEPT !.phase = "idle", !.cancelled = FALSE,
                                                    !.already = 0, !.completed = 0]]
      /\ task' = [w \in Tasks |-> IF job[w[1]].phase = "ok" THEN task[w] ELSE NewTask]
  BY DEF Restart
<1>2. ASSUME NEW j \in Jobs
      PROVE  /\ job'[j] \in JobType
             /\ job'[j].token = job[j].token /\ job'[j].valid = job[j].valid
             /\ job'[j].layers = job[j].layers
             /\ job'[j].phase \in {"idle", "ok"} /\ (job'[j].phase = "ok" => job[j].phase = "ok")
  <2>1. CASE job[j].phase = "ok"
    BY <1>1, <2>1 DEF Shape
  <2>2. CASE job[j].phase # "ok"
    <3>1. job'[j] = Begun(job[j], "idle", 0, 0)
      BY <1>1, <2>2 DEF Begun
    <3>2. job[j] \in JobType /\ "idle" \in Phases /\ FALSE \in BOOLEAN /\ 0 \in Int
      BY DEF Shape, Phases
    <3>3. /\ job'[j] \in JobType /\ job'[j].phase = "idle"
          /\ job'[j].layers = job[j].layers /\ job'[j].token = job[j].token /\ job'[j].valid = job[j].valid
      BY <3>1, <3>2, BegunFields
    <3> QED
      BY <3>3
  <2> QED
    BY <2>1, <2>2
<1>3. Shape'
  BY <1>1, <1>2, NewTyped DEF Shape
<1>4. \A w \in Tasks : \/ task'[w] = task[w] /\ job[w[1]].phase = "ok"
                       \/ task'[w].pc = "none" /\ task'[w].back = "none"
  BY <1>1 DEF NewTask
<1> QED
  BY <1>2, <1>3, <1>4, TaskIs, TokensStay DEF TokenInv, Asks, Waiting, Resting

-----------------------------------------------------------------------------
(* Pushes: a blob is recorded, or taken for it, where its task says so.      *)

Committing == {"commit", "finalize"}
Known == registry.stored \cup marked.presumed

Sent(w) ==
  /\ task[w].pc = "checked" => w[2] \in Known
  /\ task[w].pc = "ended" /\ task[w].err = "none" => w[2] \in Known
  /\ task[w].pc = "settle" => task[w].err # "none"
  /\ task[w].pc \in Committing => Complete(w)
  /\ task[w].pc \in Waiting => task[w].back \notin {"checked", "ended", "settle"}
  /\ task[w].pc \in Waiting /\ task[w].back \in Committing => Complete(w)

PushInv ==
  /\ \A w \in PushTasks : Sent(w)
  /\ \A j \in Jobs : job[j].kind = "push" /\ job[j].phase \in {"manifest", "ok"} =>
                       job[j].layers \subseteq Known
  /\ PushedIsComplete

\* What a step of a task of a push does beside that task.
SendStep(w) ==
  /\ send' = [send EXCEPT ![w] = send'[w]] /\ send'[w] \in SendType
  /\ registry' \in [stored : SUBSET Blobs, manifests : SUBSET Jobs]
  /\ registry'.manifests = registry.manifests /\ registry.stored \subseteq registry'.stored
  /\ marked' \in [presumed : SUBSET Blobs, readOn : SUBSET Jobs]
  /\ marked.presumed \subseteq marked'.presumed
  /\ Sent(w)'

LEMMA SendStays ==
  ASSUME PushShape, NEW w \in Tasks, UNCHANGED pushVars, Sent(w)'
  PROVE  SendStep(w)
  BY DEF PushShape, SendStep, pushVars

LEMMA RegistryStays ==
  ASSUME PushShape, NEW w \in Tasks, UNCHANGED <<registry, marked>>, NEW r \in SendType,
         send' = [send EXCEPT ![w] = r], Sent(w)'
  PROVE  SendStep(w)
<1>1. send'[w] = r
  BY DEF PushShape
<1> QED
  BY <1>1 DEF PushShape, SendStep

\* A task goes where it must not show that its blob is known.
LEMMA SentOn ==
  ASSUME NEW w \in Tasks,
         task'[w].pc \notin {"checked", "ended", "settle"} \cup Committing \cup Waiting
  PROVE  Sent(w)'
  BY DEF Sent

LEMMA SentRefused ==
  ASSUME Shape, NEW w \in Tasks, NEW back, Unauthorized(w, back),
         back \notin {"checked", "ended", "settle"}, back \notin Committing
  PROVE  Sent(w)'
<1>1. task'[w].pc = "refresh" /\ task'[w].back = back
  BY DEF Shape, TaskType, Unauthorized
<1> QED
  BY <1>1 DEF Sent, Committing

LEMMA SentFails ==
  ASSUME Shape, NEW w \in Tasks, NEW err, err # "none", NEW late, FailsWith(w, err, late)
  PROVE  Sent(w)'
<1>1. task'[w].pc = "settle" /\ task'[w].err = err
  BY DEF Shape, TaskType, FailsWith
<1> QED
  BY <1>1 DEF Sent, Committing, Waiting

LEMMA SentFailed ==
  ASSUME Shape, NEW w \in Tasks, NEW err, err # "none",
         task' = [task EXCEPT ![w] = Failed(w, err)]
  PROVE  Sent(w)'
<1>1. task'[w].pc = "ended" /\ task'[w].err = err
  BY DEF Shape, TaskType, Failed
<1> QED
  BY <1>1 DEF Sent, Committing, Waiting

LEMMA SendFields ==
  \A r \in SendType :
     /\ \A k \in Int : /\ [r EXCEPT !.inits = k] \in SendType
                       /\ [r EXCEPT !.inits = k, !.told = TRUE] \in SendType
                       /\ [r EXCEPT !.tries = k] \in SendType
                       /\ [r EXCEPT !.part = k] \in SendType
                       /\ [r EXCEPT !.landed = k] \in SendType
     /\ \A k, l, n \in Int : [r EXCEPT !.landed = k, !.part = l, !.tries = n] \in SendType
<1> SUFFICES ASSUME NEW r \in SendType, NEW k \in Int, NEW l \in Int, NEW n \in Int
             PROVE  /\ [r EXCEPT !.inits = k] \in SendType
                    /\ [r EXCEPT !.inits = k, !.told = TRUE] \in SendType
                    /\ [r EXCEPT !.tries = k] \in SendType
                    /\ [r EXCEPT !.part = k] \in SendType
                    /\ [r EXCEPT !.landed = k] \in SendType
                    /\ [r EXCEPT !.landed = k, !.part = l, !.tries = n] \in SendType
  OBVIOUS
<1>1. \A c \in BOOLEAN : [r EXCEPT !.inits = k, !.told = c] \in SendType
  BY DEF SendType
<1>2. [r EXCEPT !.inits = k, !.told = TRUE] \in SendType
  BY <1>1, Zenon
<1> QED
  BY <1>2 DEF SendType

LEMMA PushSends ==
  ASSUME Shape, PushShape, TokenInv, NEW w \in PushTasks, Sent(w), PushStep(w) \/ PushFault(w)
  PROVE  SendStep(w)
<1> USE SizeIs DEF At, Goto
<1>0. /\ w \in Tasks /\ w[1] \in Jobs /\ w[2] \in Blobs /\ task[w] \in TaskType
      /\ send[w] \in SendType /\ task[w].back \notin Waiting
      /\ send[w].inits + 1 \in Int /\ send[w].tries + 1 \in Int /\ send[w].part + 1 \in Int
      /\ send[w].part \in Int
  BY TaskIs DEF PushTasks, Shape, PushShape, TokenInv, Asks, SendType
<1>1. CASE Announces(w) /\ UNCHANGED pushVars
  <2>1. Sent(w)'
    <3>1. CASE SemAcquire(w, "init")
      BY <1>0, <3>1, SentOn DEF SemAcquire, Shape, TaskType, Committing, Waiting
    <3>2. CASE SemCancelled(w) \/ BackoffCancelled(w)
      BY <1>0, <3>2, SentFailed DEF SemCancelled, BackoffCancelled
    <3>3. CASE RefreshToken(w)
      <4>1. /\ task'[w].pc \in {"getToken", task[w].back} /\ task'[w].back = task[w].back
            /\ task[w].pc = "refresh"
        BY <1>0, <3>3 DEF RefreshToken, Shape, TaskType
      <4> QED
        BY <1>0, <1>1, <4>1 DEF Sent, Waiting, Committing, Complete, pushVars
    <3>4. CASE GetToken(w)
      <4>1. task'[w].pc = task[w].back /\ task[w].pc = "getToken"
        BY <1>0, <3>4 DEF GetToken, Shape, TaskType
      <4> QED
        BY <1>0, <1>1, <4>1 DEF Sent, Waiting, Committing, Complete, pushVars
    <3>5. CASE BackedOff(w, "init")
      BY <1>0, <3>5, SentOn DEF BackedOff, Shape, TaskType, Committing, Waiting
    <3>6. CASE HoldBody(w, "hold", IF send[w].part = 0 THEN "put" ELSE "patch")
      BY <1>0, <3>6, SentOn DEF HoldBody, Shape, TaskType, Committing, Waiting
    <3> QED
      BY <1>1, <3>1, <3>2, <3>3, <3>4, <3>5, <3>6 DEF Announces
  <2> QED
    BY <1>0, <1>1, <2>1, SendStays
<1>2. CASE Exists(w)
  <2>1. CASE Unauthorized(w, "head")
    BY <1>0, <1>2, <2>1, SentRefused, SendStays DEF Exists, Committing
  <2>2. CASE Goto(w, IF w[2] \in registry.stored THEN "checked" ELSE "queued")
    <3>1. task'[w].pc = IF w[2] \in registry.stored THEN "checked" ELSE "queued"
      BY <1>0, <2>2 DEF Shape, TaskType
    <3>2. UNCHANGED pushVars
      BY <1>2 DEF Exists
    <3>3. Sent(w)'
      BY <3>1, <3>2 DEF Sent, Known, Committing, Waiting, pushVars
    <3> QED
      BY <1>0, <3>2, <3>3, SendStays
  <2> QED
    BY <1>2, <2>1, <2>2 DEF Exists
<1>3. CASE ExistsCancelled(w) \/ ExistsFails(w)
  BY <1>0, <1>3, SentFailed, SendStays DEF ExistsCancelled, ExistsFails, HeadFails
<1>4. CASE CancelUpload(w) \/ CommitGivesUp(w)
  BY <1>0, <1>4, SentFails, SendStays DEF CancelUpload, CommitGivesUp, Fails
<1>5. CASE RetryUpload(w)
  <2>1. \/ task'[w].pc = "ended" /\ task'[w].err = task[w].err
        \/ task'[w].pc = "backoff"
    BY <1>0, <1>5 DEF RetryUpload, Shape, TaskType, Failed
  <2>2. Sent(w)'
    BY <1>5, <2>1 DEF RetryUpload, Sent, Committing, Waiting
  <2> QED
    BY <1>0, <1>5, <2>2, NewTyped, RegistryStays DEF RetryUpload
<1>6. CASE InitUpload(w)
  <2>1. CASE Unauthorized(w, "init")
    <3>1. /\ send' = [send EXCEPT ![w] = [send[w] EXCEPT !.inits = send[w].inits + 1]]
          /\ UNCHANGED <<registry, marked>>
      BY <1>0, <1>6, <2>1 DEF InitUpload, Credit, Unauthorized, PushShape
    <3>2. Sent(w)'
      BY <1>0, <2>1, SentRefused DEF Committing
    <3> QED
      BY <1>0, <3>1, <3>2, SendFields, RegistryStays
  <2>2. CASE w[2] \in registry.stored /\ Credit(w) /\ UNCHANGED send
    <3>1. UNCHANGED pushVars
      BY <1>6, <2>2 DEF InitUpload, pushVars
    <3>2. task'[w].pc = "ended"
      BY <1>0, <2>2 DEF Credit, Shape, TaskType
    <3>3. Sent(w)'
      BY <2>2, <3>1, <3>2 DEF Sent, Known, Committing, Waiting, pushVars
    <3> QED
      BY <1>0, <3>1, <3>3, SendStays
  <2>3. CASE Goto(w, "hold") /\ \E part \in {0, 1} : send' = [send EXCEPT ![w] = [NewSend EXCEPT !.part = part]]
    <3>1. Sent(w)'
      BY <1>0, <2>3, SentOn DEF Shape, TaskType, Committing, Waiting
    <3>2. PICK part \in {0, 1} : send' = [send EXCEPT ![w] = [NewSend EXCEPT !.part = part]]
      BY <2>3
    <3>3. [NewSend EXCEPT !.part = part] \in SendType
      BY NewTyped DEF SendType
    <3>4. UNCHANGED <<registry, marked>>
      BY <1>6 DEF InitUpload
    <3> QED
      BY <1>0, <3>1, <3>2, <3>3, <3>4, RegistryStays
  <2> QED
    BY <1>6, <2>1, <2>2, <2>3 DEF InitUpload
<1>7. CASE InitGivesUp(w)
  <2>1. CASE send[w].told
    <3>1. UNCHANGED pushVars /\ FailsWith(w, "error", 0)
      BY <1>7, <2>1 DEF InitGivesUp, Fails, pushVars
    <3> QED
      BY <1>0, <3>1, SentFails, SendStays
  <2>2. CASE ~ send[w].told
    <3>1. /\ UNCHANGED <<send, registry>>
          /\ marked' = [marked EXCEPT !.presumed = @ \cup ({w[2]} \ registry.stored)]
      BY <1>7, <2>2 DEF InitGivesUp
    <3>2. task'[w].pc = "ended"
      BY <1>0, <1>7, <2>2 DEF InitGivesUp, Credit, Shape, TaskType
    <3>3. Sent(w)'
      BY <3>1, <3>2 DEF Sent, Known, Committing, Waiting, PushShape
    <3> QED
      BY <1>0, <3>1, <3>3 DEF SendStep, PushShape
  <2> QED
    BY <2>1, <2>2
<1>8. CASE Put(w) \/ Patch(w) \/ ExistsUnknown(w)
  <2>1. task'[w].pc \in {"put", "patch", "cdn", "queued"} /\ UNCHANGED pushVars
    BY <1>0, <1>8 DEF Put, Patch, ExistsUnknown, Shape, TaskType
  <2> QED
    BY <1>0, <2>1, SentOn, SendStays DEF Committing, Waiting
<1>9. CASE PutEnds(w)
  <2>1. /\ send' = [send EXCEPT ![w] = [send[w] EXCEPT !.landed = Size]]
        /\ UNCHANGED <<registry, marked>>
    BY <1>0, <1>9 DEF PutEnds, PushShape
  <2>2. task'[w].pc = "commit" /\ send'[w].landed = Size
    BY <1>0, <1>9, <2>1 DEF PutEnds, Shape, TaskType, PushShape, SendType
  <2>3. Sent(w)'
    BY <2>2 DEF Sent, Complete, Waiting
  <2>4. [send[w] EXCEPT !.landed = Size] \in SendType
    BY <1>0 DEF SendType
  <2> QED
    BY <1>0, <2>1, <2>3, <2>4, RegistryStays
<1>10. CASE PutFails(w)
  <2>1. PICK late \in 0 .. 1 : FailsWith(w, "error", late) /\ ReadsOn(w, late)
    BY <1>10 DEF PutFails
  <2>2. UNCHANGED <<send, registry>>
    BY <1>10 DEF PutFails
  <2>3. Sent(w)'
    BY <1>0, <2>1, SentFails
  <2> QED
    BY <1>0, <2>1, <2>2, <2>3 DEF ReadsOn, SendStep, PushShape
<1>11. CASE Commit(w)
  <2>1. CASE Record(w) /\ UNCHANGED send /\ task' = [task EXCEPT ![w] = [@ EXCEPT !.pc = "ended",
                                                                 !.n = Size]]
    <3>1. Complete(w)
      BY <1>11 DEF Commit, Sent, Committing
    <3>2. task'[w].pc = "ended"
      BY <1>0, <2>1 DEF Shape, TaskType
    <3>3. registry' = [registry EXCEPT !.stored = @ \cup {w[2]}] /\ UNCHANGED <<send, marked>>
      BY <1>11, <2>1, <3>1 DEF Commit, Record
    <3>4. Sent(w)'
      BY <3>2, <3>3 DEF Sent, Known, Committing, Waiting, PushShape
    <3> QED
      BY <1>0, <3>3, <3>4 DEF SendStep, PushShape
  <2>2. CASE Unauthorized(w, task[w].pc) /\ send' = [send EXCEPT ![w].tries = @ + 1] /\ UNCHANGED registry
    <3>1. Complete(w) /\ task[w].pc \in Committing
      BY <1>11 DEF Commit, Sent, Committing
    <3>2. send' = [send EXCEPT ![w] = [send[w] EXCEPT !.tries = send[w].tries + 1]] /\ UNCHANGED <<registry, marked>>
      BY <1>0, <1>11, <2>2 DEF Commit, PushShape
    <3>3. task'[w].pc = "refresh" /\ task'[w].back \in Committing
      BY <1>0, <2>2, <3>1 DEF Unauthorized, Shape, TaskType
    <3>4. send'[w].landed = Size
      BY <1>0, <3>1, <3>2 DEF PushShape, SendType, Complete
    <3>5. Sent(w)'
      BY <3>3, <3>4 DEF Sent, Complete, Committing
    <3> QED
      BY <1>0, <3>2, <3>5, SendFields, RegistryStays
  <2> QED
    BY <1>11, <2>1, <2>2 DEF Commit
<1>12. CASE CommitFails(w)
  <2>1. Complete(w) /\ UNCHANGED <<task, marked>> /\ task[w].pc \in Committing
    BY <1>12 DEF CommitFails, Sent, Committing
  <2>2. send' = [send EXCEPT ![w] = [send[w] EXCEPT !.tries = send[w].tries + 1]]
    BY <1>0, <1>12 DEF CommitFails, PushShape
  <2>3. send'[w].landed = Size /\ send'[w] \in SendType
    <3>1. [send[w] EXCEPT !.tries = send[w].tries + 1] \in SendType
      BY <1>0 DEF SendType
    <3>2. send'[w] = [send[w] EXCEPT !.tries = send[w].tries + 1]
      BY <1>0, <2>2 DEF PushShape
    <3> QED
      BY <1>0, <2>1, <3>1, <3>2 DEF SendType, Complete
  <2>4. registry' = registry \/ registry' = [registry EXCEPT !.stored = @ \cup {w[2]}]
    BY <1>12, <2>1 DEF CommitFails, Record
  <2>5. Sent(w)'
    BY <2>1, <2>3 DEF Sent, Complete, Committing, Waiting
  <2> QED
    BY <1>0, <2>1, <2>2, <2>3, <2>4, <2>5 DEF SendStep, PushShape
<1>13. CASE PartEnds(w)
  <2>1. /\ send' = [send EXCEPT ![w] = [send[w] EXCEPT !.landed = send[w].part, !.part = send[w].part + 1, !.tries = 0]]
        /\ UNCHANGED <<registry, marked>>
    BY <1>0, <1>13 DEF PartEnds, PushShape
  <2>2. send'[w].landed = send[w].part
    BY <1>0, <2>1 DEF PushShape, SendType
  <2>3. task'[w].pc = IF send[w].part = Size THEN "finalize" ELSE "hold"
    BY <1>0, <1>13 DEF PartEnds, Shape, TaskType
  <2>4. Sent(w)'
    BY <2>2, <2>3 DEF Sent, Complete, Committing, Waiting
  <2>5. [send[w] EXCEPT !.landed = send[w].part, !.part = send[w].part + 1, !.tries = 0] \in SendType
    <3>1. \A k, l, n \in Int : [send[w] EXCEPT !.landed = k, !.part = l, !.tries = n] \in SendType
      BY <1>0, SendFields
    <3>2. 0 \in Int
      OBVIOUS
    <3> QED
      BY <1>0, <3>1, <3>2, Zenon
  <2> QED
    BY <1>0, <2>1, <2>4, <2>5, RegistryStays
<1>14. CASE Redirected(w) \/ PartFails(w)
  <2>1. /\ UNCHANGED <<send, registry>> /\ task'[w].pc \in {"cdn", "part"}
        /\ \E late \in Int : ReadsOn(w, late)
    <3>1. CASE Redirected(w)
      <4>1. task'[w].pc = "cdn"
        BY <1>0, <3>1 DEF Redirected, Shape, TaskType
      <4>2. \E late \in Int : ReadsOn(w, late)
        BY <3>1 DEF Redirected, OfPart
      <4> QED
        BY <3>1, <4>1, <4>2 DEF Redirected
    <3>2. CASE PartFails(w)
      <4>1. task'[w].pc = "part"
        BY <1>0, <3>2 DEF PartFails, Goto, Shape, TaskType
      <4>2. \E late \in Int : ReadsOn(w, late)
        BY <3>2 DEF PartFails, OfPart
      <4> QED
        BY <3>2, <4>1, <4>2 DEF PartFails
    <3> QED
      BY <1>14, <3>1, <3>2
  <2>2. Sent(w)'
    BY <1>0, <2>1, SentOn DEF Committing, Waiting
  <2> QED
    BY <1>0, <2>1, <2>2 DEF ReadsOn, SendStep, PushShape
<1>15. CASE PartRefused(w)
  BY <1>0, <1>15, SentRefused, SendStays DEF PartRefused, Committing
<1>16. CASE RetryPart(w)
  <2>1. CASE send[w].tries + 1 = MaxPartRetries
    <3>1. FailsWith(w, "error", 0) /\ UNCHANGED pushVars
      BY <1>16, <2>1 DEF RetryPart, Fails, pushVars
    <3> QED
      BY <1>0, <3>1, SentFails, SendStays
  <2>2. CASE send[w].tries + 1 # MaxPartRetries
    <3>1. send' = [send EXCEPT ![w] = [send[w] EXCEPT !.tries = send[w].tries + 1]] /\ UNCHANGED <<registry, marked>>
      BY <1>0, <1>16, <2>2 DEF RetryPart, PushShape
    <3>2. task'[w].pc = "hold"
      BY <1>0, <1>16, <2>2 DEF RetryPart, Shape, TaskType
    <3>3. Sent(w)'
      BY <1>0, <3>2, SentOn DEF Committing, Waiting
    <3> QED
      BY <1>0, <3>1, <3>3, SendFields, RegistryStays
  <2> QED
    BY <2>1, <2>2
<1>17. CASE InitFails(w)
  <2>1. /\ send' = [send EXCEPT ![w] = [send[w] EXCEPT !.inits = send[w].inits + 1, !.told = TRUE]]
        /\ UNCHANGED <<task, registry, marked>> /\ task[w].pc = "init"
    BY <1>0, <1>17 DEF InitFails, PushShape
  <2>2. Sent(w)'
    BY <1>0, <2>1, SentOn DEF Committing, Waiting
  <2> QED
    BY <1>0, <2>1, <2>2, SendFields, RegistryStays
<1>18. CASE TokenFails(w)
  <2>1. CASE task[w].back = "part"
    <3>1. task'[w].pc = "part" /\ UNCHANGED pushVars
      BY <1>0, <1>18, <2>1 DEF TokenFails, Shape, TaskType
    <3> QED
      BY <1>0, <3>1, SentOn, SendStays DEF Committing, Waiting
  <2>2. CASE task[w].back # "part"
    BY <1>0, <1>18, <2>2, SentFails, SendStays DEF TokenFails, Fails
  <2> QED
    BY <2>1, <2>2
<1> QED
  BY <1>1, <1>2, <1>3, <1>4, <1>5, <1>6, <1>7, <1>8, <1>9, <1>10, <1>11, <1>12, <1>13, <1>14,
     <1>15, <1>16, <1>17, <1>18 DEF PushStep, PushFault

-----------------------------------------------------------------------------
(* Pulls: what their files are.                                              *)

\* What becomes of open files changes nothing else of those who have them open.
Reopened(f, g, b) ==
  /\ g \in [Tasks -> FetchType]
  /\ \A v \in Tasks : /\ v[2] # b \/ f[v].fd = "none" => g[v] = f[v]
                      /\ g[v].fd = "none" <=> f[v].fd = "none"
                      /\ g[v].from = f[v].from /\ g[v].cause = f[v].cause
                      /\ g[v].base = f[v].base /\ g[v].off = f[v].off /\ g[v].slow = f[v].slow

LEMMA RenamedIs ==
  ASSUME NEW f \in [Tasks -> FetchType], NEW b
  PROVE  /\ LET g == Renamed(b, f, Unlinked) IN
            /\ Reopened(f, g, b)
            /\ \A v \in Tasks : v[2] = b => g[v].fd = IF f[v].fd = "tmp" THEN "gone" ELSE f[v].fd
         /\ LET g == Renamed(b, f, Moved) IN
            /\ Reopened(f, g, b)
            /\ \A v \in Tasks : v[2] = b => g[v].fd = IF f[v].fd = "tmp" THEN "blob"
                                                      ELSE IF f[v].fd = "blob" THEN "gone" ELSE f[v].fd
         /\ Renamed(b, f, <<>>) = f
<1>1. \A v \in Tasks, fd \in {"none", "tmp", "blob", "gone"} :
        LET r == [f[v] EXCEPT !.fd = fd] IN
        /\ r \in FetchType /\ r.fd = fd /\ r.from = f[v].from /\ r.cause = f[v].cause
        /\ r.base = f[v].base /\ r.off = f[v].off /\ r.slow = f[v].slow
  BY DEF FetchType
<1>2. \A v \in Tasks : f[v] \in FetchType /\ f[v].fd \in {"none", "tmp", "blob", "gone"}
  BY DEF FetchType
<1>3. \A v \in Tasks : Renamed(b, f, Unlinked)[v] =
                         IF v[2] = b /\ f[v].fd = "tmp" THEN [f[v] EXCEPT !.fd = "gone"] ELSE f[v]
  BY DEF Renamed, Unlinked
<1>4. \A v \in Tasks : Renamed(b, f, Moved)[v] =
                         IF v[2] = b /\ f[v].fd = "tmp" THEN [f[v] EXCEPT !.fd = "blob"]
                         ELSE IF v[2] = b /\ f[v].fd = "blob" THEN [f[v] EXCEPT !.fd = "gone"] ELSE f[v]
  BY DEF Renamed, Moved
<1>5. Renamed(b, f, Unlinked) \in [Tasks -> FetchType] /\ Renamed(b, f, Moved) \in [Tasks -> FetchType]
  <2>1. \A name : /\ DOMAIN Renamed(b, f, name) = Tasks
                  /\ Renamed(b, f, name) = [v \in Tasks |-> Renamed(b, f, name)[v]]
    BY DEF Renamed
  <2> QED
    BY <1>1, <1>2, <1>3, <1>4, <2>1, ZenonT(120)
<1>6. Renamed(b, f, <<>>) = f
  BY DEF Renamed
<1>7. ASSUME NEW v \in Tasks
      PROVE  LET g == Renamed(b, f, Unlinked) IN
             /\ v[2] # b \/ f[v].fd = "none" => g[v] = f[v]
             /\ g[v].fd = "none" <=> f[v].fd = "none"
             /\ g[v].from = f[v].from /\ g[v].cause = f[v].cause
             /\ g[v].base = f[v].base /\ g[v].off = f[v].off /\ g[v].slow = f[v].slow
             /\ v[2] = b => g[v].fd = IF f[v].fd = "tmp" THEN "gone" ELSE f[v].fd
  <2>1. CASE v[2] = b /\ f[v].fd = "tmp"
    <3>1. Renamed(b, f, Unlinked)[v] = [f[v] EXCEPT !.fd = "gone"]
      BY <1>3, <2>1
    <3> QED
      BY <1>1, <2>1, <3>1
  <2>2. CASE ~ (v[2] = b /\ f[v].fd = "tmp")
    <3>1. Renamed(b, f, Unlinked)[v] = f[v]
      BY <1>3, <2>2
    <3> QED
      BY <2>2, <3>1
  <2> QED
    BY <2>1, <2>2
<1>8. ASSUME NEW v \in Tasks
      PROVE  LET g == Renamed(b, f, Moved) IN
             /\ v[2] # b \/ f[v].fd = "none" => g[v] = f[v]
             /\ g[v].fd = "none" <=> f[v].fd = "none"
             /\ g[v].from = f[v].from /\ g[v].cause = f[v].cause
             /\ g[v].base = f[v].base /\ g[v].off = f[v].off /\ g[v].slow = f[v].slow
             /\ v[2] = b => g[v].fd = IF f[v].fd = "tmp" THEN "blob"
                                      ELSE IF f[v].fd = "blob" THEN "gone" ELSE f[v].fd
  <2>1. CASE v[2] = b /\ f[v].fd = "tmp"
    <3>1. Renamed(b, f, Moved)[v] = [f[v] EXCEPT !.fd = "blob"]
      BY <1>4, <2>1
    <3> QED
      BY <1>1, <2>1, <3>1
  <2>2. CASE v[2] = b /\ f[v].fd = "blob"
    <3>1. Renamed(b, f, Moved)[v] = [f[v] EXCEPT !.fd = "gone"]
      BY <1>4, <2>2
    <3> QED
      BY <1>1, <2>2, <3>1
  <2>3. CASE ~ (v[2] = b /\ f[v].fd \in {"tmp", "blob"})
    <3>1. Renamed(b, f, Moved)[v] = f[v]
      BY <1>4, <2>3
    <3> QED
      BY <2>3, <3>1
  <2> QED
    BY <2>1, <2>2, <2>3
<1> QED
  BY <1>5, <1>6, <1>7, <1>8 DEF Reopened

\* The temporary file goes away, for whoever has it open.
LEMMA RemoveTmpIs ==
  ASSUME PullShape, NEW b \in Blobs, NEW f \in [Tasks -> FetchType], RemoveTmp(b, f),
         \A v \in Tasks : f[v].fd \in {"none", fetch[v].fd}
  PROVE  /\ Reopened(f, fetch', b)
         /\ disk' \in [Blobs -> [tmp : File, blob : File]]
         /\ \A c \in Blobs : /\ disk'[c].blob = disk[c].blob
                             /\ c # b => disk'[c] = disk[c]
         /\ \A v \in Tasks : /\ fetch'[v].fd = "tmp" => disk'[v[2]].tmp \in Seq(BOOLEAN)
                             /\ fetch'[v].fd = "blob" => disk'[v[2]].blob \in Seq(BOOLEAN)
<1>1. disk' = [disk EXCEPT ![b].tmp = None]
  BY DEF RemoveTmp
<1>2. /\ disk' \in [Blobs -> [tmp : File, blob : File]]
      /\ \A c \in Blobs : /\ disk'[c].blob = disk[c].blob
                          /\ c # b => disk'[c] = disk[c]
  BY <1>1 DEF PullShape, File
<1>3. CASE disk[b].tmp = None
  <2>1. fetch' = f
    BY <1>3, RenamedIs DEF RemoveTmp
  <2>2. \A c \in Blobs : disk'[c].tmp = disk[c].tmp
    BY <1>1, <1>3 DEF PullShape
  <2> QED
    BY <1>2, <2>1, <2>2, TaskIs DEF PullShape, Reopened
<1>4. CASE disk[b].tmp # None
  <2>1. /\ Reopened(f, fetch', b)
        /\ \A v \in Tasks : v[2] = b => fetch'[v].fd = IF f[v].fd = "tmp" THEN "gone" ELSE f[v].fd
    BY <1>4, RenamedIs DEF RemoveTmp
  <2>2. ASSUME NEW v \in Tasks
        PROVE  /\ fetch'[v].fd = "tmp" => disk'[v[2]].tmp \in Seq(BOOLEAN)
               /\ fetch'[v].fd = "blob" => disk'[v[2]].blob \in Seq(BOOLEAN)
    BY <1>2, <2>1, TaskIs DEF PullShape, Reopened
  <2> QED
    BY <1>2, <2>1, <2>2
<1> QED
  BY <1>3, <1>4

LEMMA FetchFields ==
  ASSUME NEW r \in FetchType
  PROVE  /\ \A fd \in {"none", "tmp", "blob", "gone"} : [r EXCEPT !.fd = fd] \in FetchType
         /\ \A k \in Nat : [r EXCEPT !.from = k] \in FetchType /\ [r EXCEPT !.base = k] \in FetchType
         /\ \A k \in Int : [r EXCEPT !.slow = k] \in FetchType
         /\ \A c \in {"none", "stalled", "slow"} : [r EXCEPT !.cause = c] \in FetchType
         /\ [r EXCEPT !.silent = TRUE] \in FetchType /\ [r EXCEPT !.silent = FALSE] \in FetchType
         /\ \A c \in BOOLEAN, k \in Nat, fd \in {"none", "tmp", "blob", "gone"} :
              [r EXCEPT !.clean = c, !.off = k, !.fd = fd] \in FetchType
<1>1. \A c \in BOOLEAN : [r EXCEPT !.silent = c] \in FetchType
  BY DEF FetchType
<1>2. [r EXCEPT !.silent = TRUE] \in FetchType /\ [r EXCEPT !.silent = FALSE] \in FetchType
  BY <1>1, Zenon
<1>3. ASSUME NEW c \in BOOLEAN, NEW k \in Nat, NEW fd \in {"none", "tmp", "blob", "gone"}
      PROVE  [r EXCEPT !.clean = c, !.off = k, !.fd = fd] \in FetchType
  <2>1. [r EXCEPT !.clean = c, !.off = k] \in FetchType
    BY DEF FetchType
  <2>2. \A q \in FetchType : [q EXCEPT !.fd = fd] \in FetchType
    BY DEF FetchType
  <2> QED
    BY <2>1, <2>2
<1>4. \A fd \in {"none", "tmp", "blob", "gone"} : [r EXCEPT !.fd = fd] \in FetchType
  BY DEF FetchType
<1>5. \A k \in Nat : [r EXCEPT !.from = k] \in FetchType /\ [r EXCEPT !.base = k] \in FetchType
  BY DEF FetchType
<1>6. \A k \in Int : [r EXCEPT !.slow = k] \in FetchType
  BY DEF FetchType
<1>7. \A c \in {"none", "stalled", "slow"} : [r EXCEPT !.cause = c] \in FetchType
  BY DEF FetchType
<1> QED
  BY <1>2, <1>3, <1>4, <1>5, <1>6, <1>7

\* A unit is written behind what the file has, over it, or behind a hole.
LEMMA WrittenIs ==
  \A file \in Seq(BOOLEAN), off \in Nat, unit \in BOOLEAN :
    /\ WrittenAt(file, off, unit) \in Seq(BOOLEAN)
    /\ off = Len(file) =>
         /\ Len(WrittenAt(file, off, unit)) = off + 1
         /\ WrittenAt(file, off, unit)[off + 1] = unit
         /\ \A i \in 1 .. off : WrittenAt(file, off, unit)[i] = file[i]
<1> SUFFICES ASSUME NEW file \in Seq(BOOLEAN), NEW off \in Nat, NEW unit \in BOOLEAN
             PROVE  /\ WrittenAt(file, off, unit) \in Seq(BOOLEAN)
                    /\ off = Len(file) =>
                         /\ Len(WrittenAt(file, off, unit)) = off + 1
                         /\ WrittenAt(file, off, unit)[off + 1] = unit
                         /\ \A i \in 1 .. off : WrittenAt(file, off, unit)[i] = file[i]
  OBVIOUS
<1> DEFINE q == WrittenAt(file, off, unit)
           m == IF Len(file) > off THEN Len(file) ELSE off + 1
<1>1. m \in Nat /\ Len(file) \in Nat
  OBVIOUS
<1>2. q = [i \in 1 .. m |-> IF i = off + 1 THEN unit ELSE IF i <= Len(file) THEN file[i] ELSE FALSE]
  BY DEF WrittenAt
<1>3. \A i \in 1 .. Len(file) : file[i] \in BOOLEAN
  OBVIOUS
<1> HIDE DEF m, q
<1>4. ASSUME NEW i \in 1 .. m PROVE q[i] \in BOOLEAN
  <2>1. CASE i = off + 1
    BY <1>2, <2>1
  <2>2. CASE i # off + 1 /\ i <= Len(file)
    <3>1. q[i] = file[i]
      BY <1>2, <2>2
    <3> QED
      BY <1>1, <1>3, <2>2, <3>1
  <2>3. CASE ~ (i = off + 1) /\ ~ (i <= Len(file))
    <3>1. q[i] = FALSE
      BY <1>2, <2>3, Zenon
    <3> QED
      BY <3>1, Zenon
  <2> QED
    BY <2>1, <2>2, <2>3
<1>5. q \in [1 .. m -> BOOLEAN]
  BY <1>2, <1>4, Zenon
<1>6. q \in Seq(BOOLEAN) /\ Len(q) = m
  BY <1>1, <1>5
<1>7. ASSUME off = Len(file)
      PROVE  /\ Len(q) = off + 1 /\ q[off + 1] = unit
             /\ \A i \in 1 .. off : q[i] = file[i]
  <2>1. m = off + 1
    BY <1>7 DEF m
  <2>2. off + 1 \in 1 .. m
    BY <2>1
  <2>3. q[off + 1] = unit
    BY <1>2, <2>2
  <2>4. ASSUME NEW i \in 1 .. off PROVE q[i] = file[i]
    <3>1. i \in 1 .. m /\ i # off + 1 /\ i <= Len(file)
      BY <1>7, <2>1
    <3> QED
      BY <1>2, <3>1, Zenon
  <2> QED
    BY <1>6, <2>1, <2>3, <2>4
<1> QED
  BY <1>6, <1>7 DEF q

-----------------------------------------------------------------------------
(* Pulls: the temporary file of a blob, unless a write was lost or two pulls *)
(* fetched it at a time, is what the task that fetches it knows of.          *)

Starting == {"none", "queued", "checked", "ended", "hold", "resolve", "stat", "backoff"} \cup Waiting
Clean(b) == b \notin noted.lost \cup noted.shared
Active(w) == task[w].pc \notin Resting

\* What a task knows, whatever happens to its blob.
AtWork(w) ==
  /\ Active(w) => job[w[1]].phase = "running"
  /\ fetch[w].fd # "none" <=> task[w].pc = "read"
  /\ task[w].pc \in {"settle", "drain"} => task[w].err # "none"
  /\ task[w].pc \in Starting => fetch[w].from = 0
  /\ task[w].pc \in Waiting => task[w].back = "resolve"
  /\ fetch[w].cause = "none" \/ task[w].pc \in {"read", "drain", "settle", "verify", "rename"}

\* The temporary file has what was reported, and the hash is that of the file.
Received(w) ==
  LET tmp == disk[w[2]].tmp IN
  /\ tmp \in Seq(BOOLEAN) /\ Len(tmp) = task[w].n
  /\ fetch[w].clean => \A i \in 1 .. task[w].n : tmp[i] = TRUE

Fetching(w) ==
  LET tmp == disk[w[2]].tmp IN
  /\ task[w].pc \in {"ask", "open"} /\ fetch[w].from > 0 => tmp # None /\ Len(tmp) = fetch[w].from
  /\ task[w].pc = "read" => fetch[w].fd = "tmp" /\ fetch[w].off = task[w].n /\ Received(w)
  /\ task[w].pc = "verify" => Received(w)
  /\ task[w].pc = "rename" => tmp = Whole

\* Blobs that were not missing, or that were fetched.
Fetched(w) ==
  /\ job[w[1]].phase = "running" /\ w[2] \in job[w[1]].layers
  /\ task[w].pc = "none" \/ (task[w].pc = "ended" /\ task[w].err = "none")
  => disk[w[2]].blob = Whole

Own(w) == AtWork(w) /\ (Clean(w[2]) => Fetching(w) /\ Fetched(w))

Unshared == \A v, w \in PullTasks :
              v # w /\ v[2] = w[2] /\ Active(v) /\ Active(w) => w[2] \in noted.shared

Entire(j) == \A b \in job[j].layers : Clean(b) => disk[b].blob = Whole

PullInv ==
  /\ \A w \in PullTasks : Own(w)
  /\ \A w \in Tasks \ PullTasks : fetch[w].fd = "none"
  /\ Unshared
  /\ \A b \in Blobs : Clean(b) => disk[b].blob \in {None, Whole}
  /\ \A j \in Jobs : j \in installed \/ (job[j].kind = "pull" /\ job[j].phase = "manifest") => Entire(j)

\* A step of a pull task changes its own fetch, and that of others only by what
\* becomes of their open file.
Beside(v, b) ==
  /\ v[2] # b \/ fetch[v].fd = "none" => fetch'[v] = fetch[v]
  /\ fetch'[v].fd = "none" <=> fetch[v].fd = "none"
  /\ fetch'[v].from = fetch[v].from /\ fetch'[v].cause = fetch[v].cause
  /\ fetch'[v].base = fetch[v].base /\ fetch'[v].off = fetch[v].off
  /\ fetch'[v].slow = fetch[v].slow

FilesStep(w) ==
  /\ PullShape'
  /\ \A v \in Tasks : v # w => Beside(v, w[2])
  /\ \A c \in Blobs : c # w[2] => disk'[c] = disk[c]
  /\ installed' = installed
  /\ noted.lost \subseteq noted'.lost /\ noted'.shared = noted.shared
  /\ disk'[w[2]].blob = disk[w[2]].blob \/ (Clean(w[2])' => disk'[w[2]].blob = Whole)

\* ... and goes on from an active task.
PlaceStep(w) ==
  /\ \A v \in Tasks : v # w => task'[v] = task[v]
  /\ Active(w)
  /\ \A j \in Jobs : /\ job'[j].kind = job[j].kind /\ job'[j].layers = job[j].layers
                     /\ job'[j].phase = job[j].phase

LEMMA PlaceSteps ==
  ASSUME Shape, NEW w \in Tasks, \/ TaskStep(w) /\ JobStep(w)
                                 \/ RefreshToken(w) \/ GetToken(w)
  PROVE  PlaceStep(w)
<1>0. w[1] \in Jobs
  BY TaskIs
<1>1. CASE TaskStep(w) /\ JobStep(w)
  BY <1>0, <1>1 DEF TaskStep, JobStep, PlaceStep, Active, Shape
<1>2. CASE RefreshToken(w)
  BY <1>0, <1>2 DEF RefreshToken, Goto, At, PlaceStep, Active, Shape, Resting
<1>3. CASE GetToken(w)
  BY <1>0, <1>3 DEF GetToken, Goto, At, PlaceStep, Active, Shape, JobType, Resting
<1> QED
  BY <1>1, <1>2, <1>3

\* What another task knows stays true.
LEMMA OthersKnow ==
  ASSUME Shape, PullShape, PullInv, NEW w \in PullTasks, NEW v \in PullTasks, v # w,
         PlaceStep(w), FilesStep(w)
  PROVE  Own(v)'
<1>0. v \in Tasks /\ w \in Tasks /\ v[1] \in Jobs /\ v[2] \in Blobs
  BY TaskIs DEF PullTasks
<1>1. /\ task'[v] = task[v] /\ Beside(v, w[2])
      /\ job'[v[1]].phase = job[v[1]].phase /\ job'[v[1]].layers = job[v[1]].layers
  BY <1>0 DEF PlaceStep, FilesStep
<1>2. Own(v)
  BY DEF PullInv
<1>3. AtWork(v)'
  BY <1>1, <1>2 DEF Own, AtWork, Beside, Active
<1>4. Clean(v[2])' => Clean(v[2])
  BY DEF FilesStep, Clean
<1>5. ASSUME Clean(v[2])' PROVE Fetching(v)' /\ Fetched(v)'
  <2>1. Fetching(v) /\ Fetched(v)
    BY <1>2, <1>4, <1>5 DEF Own
  <2>2. CASE v[2] # w[2]
    <3>1. fetch'[v] = fetch[v] /\ disk'[v[2]] = disk[v[2]]
      BY <1>0, <1>1, <2>2 DEF Beside, FilesStep
    <3> QED
      BY <1>1, <2>1, <3>1 DEF Fetching, Fetched, Received
  <2>3. CASE v[2] = w[2]
    <3>1. ~ Active(v)
      BY <1>4, <1>5, <2>3 DEF PullInv, Unshared, PlaceStep, Clean
    <3>2. Fetching(v)'
      BY <1>1, <3>1 DEF Fetching, Active, Resting
    <3>3. Fetched(v)'
      BY <1>1, <1>5, <2>1, <2>3 DEF Fetched, FilesStep
    <3> QED
      BY <3>2, <3>3
  <2> QED
    BY <2>2, <2>3
<1> QED
  BY <1>3, <1>5 DEF Own

LEMMA PullKept ==
  ASSUME Shape, PullShape, PullInv, NEW w \in PullTasks, PlaceStep(w), FilesStep(w), Own(w)'
  PROVE  PullShape' /\ PullInv'
<1>0. w \in Tasks /\ w[1] \in Jobs /\ w[2] \in Blobs
  BY TaskIs DEF PullTasks
<1>1. PullShape'
  BY DEF FilesStep
<1>2. PullTasks' = PullTasks
  BY TaskIs DEF PullTasks, PlaceStep
<1>3. \A v \in PullTasks : Own(v)'
  BY OthersKnow
<1>4. \A v \in Tasks \ PullTasks : fetch'[v].fd = "none"
  BY DEF PullInv, FilesStep, Beside
<1>5. Unshared'
  <2>1. \A v \in PullTasks : Active(v)' => Active(v)
    BY DEF PullTasks, PlaceStep, Active
  <2>2. noted'.shared = noted.shared
    BY DEF FilesStep
  <2> QED
    BY <1>2, <2>1, <2>2 DEF PullInv, Unshared
<1>6. \A b \in Blobs : /\ Clean(b)' => Clean(b)
                       /\ Clean(b)' => disk'[b].blob \in {disk[b].blob, Whole}
  BY <1>0 DEF FilesStep, Clean
<1>7. \A b \in Blobs : Clean(b)' => disk'[b].blob \in {None, Whole}
  BY <1>6 DEF PullInv
<1>8. ASSUME NEW j \in Jobs, j \in installed' \/ (job'[j].kind = "pull" /\ job'[j].phase = "manifest")
      PROVE  Entire(j)'
  <2>1. Entire(j)
    BY <1>8 DEF PullInv, FilesStep, PlaceStep
  <2>2. job'[j].layers = job[j].layers /\ job[j].layers \subseteq Blobs
    BY DEF PlaceStep, Shape, JobType
  <2> QED
    BY <1>6, <2>1, <2>2 DEF Entire
<1> QED
  BY <1>1, <1>2, <1>3, <1>4, <1>5, <1>7, <1>8 DEF PullInv

-----------------------------------------------------------------------------
(* Pulls: the steps of a task.                                               *)

\* A step that changes nothing but what its task keeps, and what is noted.
LEMMA FetchSet ==
  ASSUME PullShape, NEW w \in Tasks, NEW r \in FetchType, fetch' = [fetch EXCEPT ![w] = r],
         r.fd \in {"none", fetch[w].fd}, UNCHANGED <<disk, installed>>,
         noted' \in [lost : SUBSET Blobs, shared : SUBSET Blobs],
         noted.lost \subseteq noted'.lost, noted'.shared = noted.shared
  PROVE  FilesStep(w) /\ fetch'[w] = r
<1>1. /\ fetch' \in [Tasks -> FetchType] /\ fetch'[w] = r
      /\ \A v \in Tasks : v # w => fetch'[v] = fetch[v]
  BY DEF PullShape
<1>2. PullShape'
  BY <1>1 DEF PullShape
<1> QED
  BY <1>1, <1>2 DEF FilesStep, Beside

LEMMA FilesStay ==
  ASSUME PullShape, NEW w \in Tasks, UNCHANGED pullVars
  PROVE  FilesStep(w) /\ fetch'[w] = fetch[w]
  BY DEF pullVars, PullShape, FilesStep, Beside

\* Where nothing is known of the files.
LEMMA OwnFails ==
  ASSUME NEW w \in PullTasks, PlaceStep(w), AtWork(w), task'[w].pc = "settle",
         task'[w].err # "none", fetch'[w].fd = "none"
  PROVE  Own(w)'
<1>1. job'[w[1]].phase = "running"
  BY TaskIs DEF PullTasks, PlaceStep, AtWork
<1> QED
  BY <1>1 DEF Own, AtWork, Fetching, Fetched, Active, Starting, Waiting

LEMMA OwnStarts ==
  ASSUME NEW w \in PullTasks, PlaceStep(w), AtWork(w),
         task'[w].pc \in Starting \ {"none", "checked"},
         task'[w].pc = "ended" => task'[w].err # "none",
         task'[w].pc \in Waiting => task'[w].back = "resolve",
         fetch'[w].fd = "none", fetch'[w].from = 0, fetch'[w].cause = "none"
  PROVE  Own(w)'
<1>1. job'[w[1]].phase = "running"
  BY TaskIs DEF PullTasks, PlaceStep, AtWork
<1> QED
  BY <1>1 DEF Own, AtWork, Fetching, Fetched, Active, Starting, Waiting

LEMMA StartingTasks ==
  ASSUME NEW w \in Tasks, AtWork(w), task[w].pc \in Starting
  PROVE  fetch[w].fd = "none" /\ fetch[w].from = 0 /\ fetch[w].cause = "none"
  BY DEF AtWork, Starting, Waiting

LEMMA BeginsFetch ==
  ASSUME Shape, PullShape, NEW w \in PullTasks, Own(w), PlaceStep(w), Begins(w), UNCHANGED pullVars
  PROVE  FilesStep(w) /\ Own(w)'
<1>0. w \in Tasks /\ task[w] \in TaskType
  BY DEF PullTasks, Shape
<1>1. FilesStep(w) /\ fetch'[w] = fetch[w]
  BY <1>0, FilesStay
<1>2. /\ task[w].pc \in Starting /\ task'[w].pc \in Starting \ {"none", "checked"}
      /\ task'[w].pc = "ended" => task'[w].err # "none"
      /\ task'[w].pc \in Waiting => task'[w].back = "resolve"
  <2>0. task[w].pc \in Waiting => task[w].back = "resolve"
    BY DEF Own, AtWork
  <2> USE <1>0 DEF At, Goto, Failed, Starting, Waiting, TaskType, Shape
  <2>1. CASE SemAcquire(w, "hold")
    BY <2>1 DEF SemAcquire
  <2>2. CASE SemCancelled(w)
    BY <2>2 DEF SemCancelled
  <2>3. CASE HoldBody(w, "hold", "resolve")
    BY <2>3 DEF HoldBody
  <2>4. CASE RefreshToken(w)
    BY <2>0, <2>4 DEF RefreshToken
  <2>5. CASE GetToken(w)
    BY <2>0, <2>5 DEF GetToken
  <2>6. CASE BackedOff(w, "hold")
    BY <2>6 DEF BackedOff
  <2>7. CASE BackoffCancelled(w)
    BY <2>7 DEF BackoffCancelled
  <2> QED
    BY <2>1, <2>2, <2>3, <2>4, <2>5, <2>6, <2>7 DEF Begins
<1>3. AtWork(w)
  BY DEF Own
<1>4. fetch'[w].fd = "none" /\ fetch'[w].from = 0 /\ fetch'[w].cause = "none"
  BY <1>0, <1>1, <1>2, <1>3, StartingTasks
<1> QED
  BY <1>1, <1>2, <1>3, <1>4, OwnStarts

LEMMA ResolveFetch ==
  ASSUME Shape, PullShape, NEW w \in PullTasks, Own(w), PlaceStep(w), Resolve(w)
  PROVE  FilesStep(w) /\ Own(w)'
<1>0. w \in Tasks /\ task[w] \in TaskType
  BY DEF PullTasks, Shape
<1>1. FilesStep(w) /\ fetch'[w] = fetch[w]
  BY <1>0, FilesStay DEF Resolve
<1>2. /\ task[w].pc = "resolve" /\ task'[w].pc \in {"stat", "refresh"}
      /\ task'[w].pc = "refresh" => task'[w].back = "resolve"
  BY <1>0, RefusedWaits DEF Resolve, Goto, At, TaskType, Shape
<1>3. AtWork(w)
  BY DEF Own
<1>4. fetch'[w].fd = "none" /\ fetch'[w].from = 0 /\ fetch'[w].cause = "none"
  BY <1>0, <1>1, <1>2, <1>3, StartingTasks DEF Starting
<1> QED
  BY <1>1, <1>2, <1>3, <1>4, OwnStarts DEF Starting, Waiting

\* What an attempt that fails leaves.
LEMMA FailSets ==
  ASSUME Shape, NEW w \in Tasks, NEW err, NEW pc, Fail(w, err, pc)
  PROVE  task'[w].pc = pc /\ task'[w].err = err
  BY DEF Fail, Shape, TaskType

LEMMA RequestFailsFetch ==
  ASSUME Shape, PullShape, NEW w \in PullTasks, Own(w), PlaceStep(w), RequestFails(w)
  PROVE  FilesStep(w) /\ Own(w)'
<1>0. w \in Tasks
  BY DEF PullTasks
<1>1. FilesStep(w) /\ fetch'[w] = fetch[w]
  BY <1>0, FilesStay DEF RequestFails
<1>2. task'[w].pc = "settle" /\ task'[w].err = "error"
  BY <1>0, FailSets DEF RequestFails
<1>3. AtWork(w)
  BY DEF Own
<1>4. fetch[w].fd = "none"
  BY <1>3 DEF AtWork, RequestFails
<1> QED
  BY <1>1, <1>2, <1>3, <1>4, OwnFails

LEMMA DrainFetch ==
  ASSUME Shape, PullShape, NEW w \in PullTasks, Own(w), PlaceStep(w), Drain(w)
  PROVE  FilesStep(w) /\ Own(w)'
<1>0. w \in Tasks
  BY DEF PullTasks
<1>1. FilesStep(w) /\ fetch'[w] = fetch[w]
  BY <1>0, FilesStay DEF Drain
<1>2. task'[w].pc = "settle" /\ task'[w].err = task[w].err
  BY <1>0, FailSets DEF Drain
<1>3. AtWork(w)
  BY DEF Own
<1>4. fetch[w].fd = "none" /\ task[w].err # "none"
  BY <1>3 DEF AtWork, Drain, At
<1> QED
  BY <1>1, <1>2, <1>3, <1>4, OwnFails

LEMMA InterruptFetch ==
  ASSUME Shape, PullShape, NEW w \in PullTasks, Own(w), PlaceStep(w), Interrupt(w)
  PROVE  FilesStep(w) /\ Own(w)'
<1> DEFINE r == [fetch[w] EXCEPT !.fd = "none"]
<1>0. w \in Tasks /\ fetch[w] \in FetchType
  BY DEF PullTasks, PullShape
<1>1. fetch' = [fetch EXCEPT ![w] = r] /\ r \in FetchType /\ r.fd = "none"
  BY <1>0 DEF Interrupt, FetchType, PullShape
<1> HIDE DEF r
<1>2. FilesStep(w) /\ fetch'[w] = r
  BY <1>0, <1>1, FetchSet DEF Interrupt, PullShape
<1>3. AtWork(w)
  BY DEF Own
<1>4. task'[w].pc = "settle" /\ task'[w].err = IF At(w, "drain") THEN task[w].err ELSE "cancelled"
  BY <1>0, FailSets DEF Interrupt
<1>5. task'[w].err # "none"
  BY <1>3, <1>4 DEF AtWork, At
<1> QED
  BY <1>1, <1>2, <1>3, <1>4, <1>5, OwnFails

LEMMA BreakFetch ==
  ASSUME Shape, PullShape, NEW w \in PullTasks, Own(w), PlaceStep(w), Break(w)
  PROVE  FilesStep(w) /\ Own(w)'
<1> DEFINE r == [fetch[w] EXCEPT !.fd = "none"]
<1>0. w \in Tasks /\ fetch[w] \in FetchType
  BY DEF PullTasks, PullShape
<1>1. fetch' = [fetch EXCEPT ![w] = r] /\ r \in FetchType /\ r.fd = "none"
  BY <1>0 DEF Break, FetchType, PullShape
<1> HIDE DEF r
<1>2. FilesStep(w) /\ fetch'[w] = r
  BY <1>0, <1>1, FetchSet DEF Break, PullShape
<1>3. task'[w].pc = "settle" /\ task'[w].err = "error"
  BY <1>0, FailSets DEF Break
<1>4. AtWork(w)
  BY DEF Own
<1> QED
  BY <1>1, <1>2, <1>3, <1>4, OwnFails

LEMMA BodyEndsFetch ==
  ASSUME Shape, PullShape, NEW w \in PullTasks, Own(w), PlaceStep(w), BodyEnds(w)
  PROVE  FilesStep(w) /\ Own(w)'
<1> DEFINE r == [fetch[w] EXCEPT !.fd = "none"]
<1>0. w \in Tasks /\ w[1] \in Jobs /\ fetch[w] \in FetchType
  BY TaskIs DEF PullTasks, PullShape
<1>1. /\ fetch' = [fetch EXCEPT ![w] = r] /\ r \in FetchType /\ r.fd = "none"
      /\ r.clean = fetch[w].clean
  BY <1>0 DEF BodyEnds, FetchType, PullShape
<1> HIDE DEF r
<1>2. FilesStep(w) /\ fetch'[w] = r
  BY <1>0, <1>1, FetchSet DEF BodyEnds, PullShape
<1>3. task'[w].pc = "verify" /\ task'[w].n = task[w].n /\ task[w].pc = "read"
  BY <1>0 DEF BodyEnds, Goto, At, Shape, TaskType
<1>4. AtWork(w)'
  BY <1>0, <1>1, <1>2, <1>3 DEF Own, AtWork, Active, Resting, PlaceStep, Starting, Waiting
<1>5. ASSUME Clean(w[2])' PROVE Fetching(w)' /\ Fetched(w)'
  <2>1. Received(w)
    BY <1>3, <1>5 DEF Own, Fetching, Clean, BodyEnds
  <2>2. Received(w)'
    BY <1>1, <1>2, <1>3, <2>1 DEF Received, BodyEnds
  <2> QED
    BY <1>3, <2>2 DEF Fetching, Fetched
<1> QED
  BY <1>2, <1>4, <1>5 DEF Own

\* The silence of a connection, and the verdict of the watchdog.
LEMMA ReadingFetch ==
  ASSUME Shape, PullShape, NEW w \in PullTasks, Own(w), PlaceStep(w),
         FallSilent(w) \/ SpeaksAgain(w) \/ Watchdog(w)
  PROVE  FilesStep(w) /\ Own(w)'
<1>0. w \in Tasks /\ w[1] \in Jobs /\ fetch[w] \in FetchType
  BY TaskIs DEF PullTasks, PullShape
<1>1. PICK r \in FetchType :
        /\ fetch' = [fetch EXCEPT ![w] = r]
        /\ r.fd = fetch[w].fd /\ r.from = fetch[w].from /\ r.off = fetch[w].off
        /\ r.clean = fetch[w].clean
        /\ r.cause = fetch[w].cause \/ task[w].pc = "read"
  <2>1. \A c \in BOOLEAN : LET r == [fetch[w] EXCEPT !.silent = c] IN
          /\ r \in FetchType /\ r.fd = fetch[w].fd /\ r.from = fetch[w].from
          /\ r.off = fetch[w].off /\ r.clean = fetch[w].clean /\ r.cause = fetch[w].cause
    BY <1>0 DEF FetchType
  <2>2. \A c \in {"stalled", "slow"} : LET r == [fetch[w] EXCEPT !.cause = c] IN
          /\ r \in FetchType /\ r.fd = fetch[w].fd /\ r.from = fetch[w].from
          /\ r.off = fetch[w].off /\ r.clean = fetch[w].clean
    BY <1>0 DEF FetchType
  <2>3. CASE FallSilent(w)
    <3>1. \E c \in BOOLEAN : fetch' = [fetch EXCEPT ![w] = [fetch[w] EXCEPT !.silent = c]]
      BY <1>0, <2>3, Zenon DEF FallSilent, PullShape
    <3> QED
      BY <2>1, <3>1
  <2>4. CASE SpeaksAgain(w)
    <3>1. \E c \in BOOLEAN : fetch' = [fetch EXCEPT ![w] = [fetch[w] EXCEPT !.silent = c]]
      BY <1>0, <2>4, Zenon DEF SpeaksAgain, PullShape
    <3> QED
      BY <2>1, <3>1
  <2>5. CASE Watchdog(w)
    <3>1. \E c \in {"stalled", "slow"} :
            fetch' = [fetch EXCEPT ![w] = [fetch[w] EXCEPT !.cause = c]] /\ task[w].pc = "read"
      BY <1>0, <2>5 DEF Watchdog, PullShape, At
    <3> QED
      BY <2>2, <3>1
  <2> QED
    BY <2>3, <2>4, <2>5
<1>2. UNCHANGED <<task, disk, installed, noted>>
  BY DEF FallSilent, SpeaksAgain, Watchdog
<1>3. FilesStep(w) /\ fetch'[w] = r
  BY <1>0, <1>1, <1>2, FetchSet DEF PullShape
<1>4. task[w].pc \in {"read", "drain"}
  BY DEF FallSilent, SpeaksAgain, Watchdog, At
<1>5. AtWork(w)'
  BY <1>0, <1>1, <1>2, <1>3, <1>4 DEF Own, AtWork, Active, Resting, PlaceStep, Starting, Waiting
<1>6. ASSUME Clean(w[2])' PROVE Fetching(w)' /\ Fetched(w)'
  <2>1. Fetching(w)
    BY <1>2, <1>6 DEF Own, Clean
  <2> QED
    BY <1>1, <1>2, <1>3, <1>4, <2>1 DEF Fetching, Fetched, Received
<1> QED
  BY <1>3, <1>5, <1>6 DEF Own

\* The removal of a temporary file.
LEMMA FilesRemoved ==
  ASSUME PullShape, NEW w \in Tasks, NEW r \in FetchType, r.fd = "none",
         RemoveTmp(w[2], [fetch EXCEPT ![w] = r]), UNCHANGED <<installed, noted>>
  PROVE  FilesStep(w) /\ fetch'[w] = r
<1> DEFINE f == [fetch EXCEPT ![w] = r]
<1>0. w[2] \in Blobs
  BY TaskIs
<1>1. /\ f \in [Tasks -> FetchType] /\ f[w] = r
      /\ \A v \in Tasks : v # w => f[v] = fetch[v]
  BY DEF PullShape
<1>2. \A v \in Tasks : f[v].fd \in {"none", fetch[v].fd}
  BY <1>1
<1> HIDE DEF f
<1>3. RemoveTmp(w[2], f)
  BY DEF f
<1>4. /\ Reopened(f, fetch', w[2])
      /\ disk' \in [Blobs -> [tmp : File, blob : File]]
      /\ \A c \in Blobs : /\ disk'[c].blob = disk[c].blob
                          /\ c # w[2] => disk'[c] = disk[c]
      /\ \A v \in Tasks : /\ fetch'[v].fd = "tmp" => disk'[v[2]].tmp \in Seq(BOOLEAN)
                          /\ fetch'[v].fd = "blob" => disk'[v[2]].blob \in Seq(BOOLEAN)
  BY <1>0, <1>1, <1>2, <1>3, RemoveTmpIs
<1>5. PullShape'
  BY <1>4 DEF PullShape, Reopened
<1>6. \A v \in Tasks : v # w => Beside(v, w[2])
  BY <1>1, <1>4 DEF Reopened, Beside
<1> QED
  BY <1>0, <1>1, <1>4, <1>5, <1>6 DEF FilesStep, Reopened

\* What is fetched anew is NewFetch, but for the number of slow attempts.
LEMMA SettleFetch ==
  ASSUME Shape, PullShape, NEW w \in PullTasks, Own(w), PlaceStep(w), Settle(w)
  PROVE  FilesStep(w) /\ Own(w)'
<1> DEFINE slow == fetch[w].slow + IF task[w].err = "slow" THEN 1 ELSE 0
           r == [NewFetch EXCEPT !.slow = slow]
<1>0. w \in Tasks /\ fetch[w] \in FetchType /\ task[w] \in TaskType
  BY DEF PullTasks, PullShape, Shape
<1>1. slow \in Int
  BY <1>0 DEF FetchType
<1>2. /\ IF w[2] \in Large THEN fetch' = [fetch EXCEPT ![w] = r] /\ UNCHANGED disk
         ELSE RemoveTmp(w[2], [fetch EXCEPT ![w] = r])
      /\ UNCHANGED <<installed, noted>>
  BY DEF Settle
<1> HIDE DEF slow
<1>3. r \in FetchType /\ r.fd = "none" /\ r.from = 0 /\ r.cause = "none"
  BY <1>1, NewTyped DEF NewFetch, FetchType
<1> HIDE DEF r
<1>4. FilesStep(w) /\ fetch'[w] = r
  <2>1. CASE w[2] \in Large
    BY <1>0, <1>2, <1>3, <2>1, FetchSet DEF PullShape
  <2>2. CASE w[2] \notin Large
    BY <1>0, <1>2, <1>3, <2>2, FilesRemoved
  <2> QED
    BY <2>1, <2>2
<1>5. AtWork(w) /\ task[w].pc = "settle"
  BY DEF Own, Settle, At
<1>6. task[w].err # "none"
  BY <1>5 DEF AtWork
<1>7. \/ task'[w].pc = "ended" /\ task'[w].err = task[w].err
      \/ task'[w].pc \in {"backoff", "hold"}
  <2> DEFINE attempt == task[w].attempt + IF Counts(w) THEN 1 ELSE 0
             over == task[w].err = "cancelled" \/ attempt >= MaxRetries
             ended == [Failed(w, task[w].err) EXCEPT !.n = 0]
             pc == IF attempt > 0 THEN "backoff" ELSE "hold"
             again == [task[w] EXCEPT !.pc = pc, !.attempt = attempt, !.n = 0, !.err = "none"]
  <2>1. ended.pc = "ended" /\ ended.err = task[w].err
    BY <1>0 DEF Failed, TaskType
  <2>2. again.pc = pc
    BY <1>0 DEF TaskType
  <2>3. pc \in {"backoff", "hold"}
    OBVIOUS
  <2> HIDE DEF ended, pc, over
  <2>4. task' = [task EXCEPT ![w] = IF over THEN ended ELSE again]
    BY DEF Settle, over, ended, pc
  <2> HIDE DEF again
  <2>5. task'[w] = IF over THEN ended ELSE again
    BY <1>0, <2>4 DEF Shape
  <2> QED
    BY <2>1, <2>2, <2>3, <2>5
<1> QED
  BY <1>3, <1>4, <1>5, <1>6, <1>7, OwnStarts DEF Starting, Waiting

LEMMA StatFetch ==
  ASSUME Shape, PullShape, NEW w \in PullTasks, Own(w), PlaceStep(w), Stat(w)
  PROVE  FilesStep(w) /\ Own(w)'
<1> DEFINE tmp == disk[w[2]].tmp
           kept == w[2] \in Large /\ tmp # None
           from == IF kept /\ Len(tmp) < Size THEN Len(tmp) ELSE 0
           r == [fetch[w] EXCEPT !.from = from]
<1>0. w \in Tasks /\ w[1] \in Jobs /\ w[2] \in Blobs /\ fetch[w] \in FetchType
  BY TaskIs DEF PullTasks, PullShape
<1>1. task[w].pc = "stat" /\ task'[w].pc = "ask" /\ UNCHANGED <<installed, noted>>
  BY <1>0 DEF Stat, At, Goto, Shape, TaskType
<1>2. AtWork(w)
  BY DEF Own
<1>3. fetch[w].fd = "none" /\ fetch[w].from = 0 /\ fetch[w].cause = "none"
  BY <1>0, <1>1, <1>2, StartingTasks DEF Starting
<1>4. /\ FilesStep(w)
      /\ fetch'[w].fd = "none" /\ fetch'[w].cause = "none"
      /\ fetch'[w].from > 0 => disk'[w[2]].tmp # None /\ Len(disk'[w[2]].tmp) = fetch'[w].from
  <2>1. CASE kept /\ Len(tmp) > Size
    <3>1. RemoveTmp(w[2], fetch)
      BY <2>1 DEF Stat
    <3>2. fetch = [fetch EXCEPT ![w] = fetch[w]]
      BY DEF PullShape
    <3>3. FilesStep(w) /\ fetch'[w] = fetch[w]
      BY <1>0, <1>1, <1>3, <3>1, <3>2, FilesRemoved
    <3> QED
      BY <1>3, <3>3
  <2>2. CASE ~ (kept /\ Len(tmp) > Size)
    <3>1. fetch' = [fetch EXCEPT ![w] = r] /\ UNCHANGED disk
      BY <1>0, <2>2 DEF Stat, PullShape
    <3>2. kept => Len(tmp) \in Nat
      BY <1>0 DEF PullShape, File
    <3>3. from \in Nat /\ (from > 0 => tmp # None /\ Len(tmp) = from)
      BY <3>2
    <3> HIDE DEF from, kept, tmp
    <3>4. r \in FetchType /\ r.fd = "none" /\ r.cause = "none" /\ r.from = from
      BY <1>0, <1>3, <3>3 DEF FetchType
    <3> HIDE DEF r
    <3>5. FilesStep(w) /\ fetch'[w] = r
      BY <1>0, <1>1, <3>1, <3>4, FetchSet DEF PullShape
    <3> QED
      BY <3>1, <3>3, <3>4, <3>5 DEF tmp
  <2> QED
    BY <2>1, <2>2
<1>5. AtWork(w)'
  BY <1>0, <1>1, <1>2, <1>4 DEF AtWork, Active, Resting, PlaceStep, Starting, Waiting
<1>6. Fetching(w)' /\ Fetched(w)'
  BY <1>1, <1>4 DEF Fetching, Fetched
<1> QED
  BY <1>4, <1>5, <1>6 DEF Own

LEMMA AskFetch ==
  ASSUME Shape, PullShape, NEW w \in PullTasks, Own(w), PlaceStep(w), Ask(w)
  PROVE  FilesStep(w) /\ Own(w)'
<1>0. w \in Tasks /\ w[1] \in Jobs /\ w[2] \in Blobs /\ fetch[w] \in FetchType
  BY TaskIs DEF PullTasks, PullShape
<1>1. task[w].pc = "ask" /\ UNCHANGED <<disk, installed, noted>> /\ AtWork(w)
  BY DEF Ask, At, Own
<1>2. CASE Fail(w, "error", "settle") /\ UNCHANGED fetch
  <2>1. FilesStep(w) /\ fetch'[w] = fetch[w]
    BY <1>0, <1>1, <1>2, FilesStay DEF pullVars
  <2>2. task'[w].pc = "settle" /\ task'[w].err = "error"
    BY <1>0, <1>2, FailSets
  <2>3. fetch[w].fd = "none"
    BY <1>1 DEF AtWork
  <2> QED
    BY <1>1, <2>1, <2>2, <2>3, OwnFails
<1>3. CASE /\ Goto(w, "open")
           /\ \/ fetch' = [fetch EXCEPT ![w].from = 0]
              \/ fetch' = [fetch EXCEPT ![w].base = fetch[w].from]
  <2>1. PICK r \in FetchType : /\ fetch' = [fetch EXCEPT ![w] = r]
                               /\ r.fd = fetch[w].fd /\ r.cause = fetch[w].cause
                               /\ r.from \in {0, fetch[w].from}
    <3>1. LET r == [fetch[w] EXCEPT !.from = 0] IN
            r \in FetchType /\ r.fd = fetch[w].fd /\ r.cause = fetch[w].cause /\ r.from = 0
      BY <1>0 DEF FetchType
    <3>2. LET r == [fetch[w] EXCEPT !.base = fetch[w].from] IN
            r \in FetchType /\ r.fd = fetch[w].fd /\ r.cause = fetch[w].cause /\ r.from = fetch[w].from
      BY <1>0 DEF FetchType
    <3> QED
      BY <1>0, <1>3, <3>1, <3>2 DEF PullShape
  <2>2. FilesStep(w) /\ fetch'[w] = r
    BY <1>0, <1>1, <2>1, FetchSet DEF PullShape
  <2>3. task'[w].pc = "open"
    BY <1>0, <1>3 DEF Goto, Shape, TaskType
  <2>4. AtWork(w)'
    BY <1>0, <1>1, <2>1, <2>2, <2>3 DEF AtWork, Active, Resting, PlaceStep, Starting, Waiting
  <2>5. ASSUME Clean(w[2])' PROVE Fetching(w)' /\ Fetched(w)'
    <3>1. Fetching(w)
      BY <1>1, <2>5 DEF Own, Clean
    <3> QED
      BY <1>1, <2>1, <2>2, <2>3, <3>1 DEF Fetching, Fetched
  <2> QED
    BY <2>2, <2>4, <2>5 DEF Own
<1> QED
  BY <1>2, <1>3 DEF Ask

LEMMA WholeIs ==
  ASSUME NEW file \in Seq(BOOLEAN), Len(file) = Size, \A i \in 1 .. Size : file[i] = TRUE
  PROVE  file = Whole
<1>1. DOMAIN file = 1 .. Size /\ file = [i \in 1 .. Size |-> file[i]]
  OBVIOUS
<1>2. \A i \in 1 .. Size : Whole[i] = TRUE
  BY Zenon DEF Whole
<1>3. Whole = [i \in 1 .. Size |-> Whole[i]]
  BY DEF Whole
<1>4. \A i \in 1 .. Size : file[i] = Whole[i]
  BY <1>2, Zenon
<1> HIDE DEF Whole
<1> QED
  BY <1>1, <1>3, <1>4, Zenon

LEMMA VerifyFetch ==
  ASSUME Shape, PullShape, NEW w \in PullTasks, Own(w), PlaceStep(w), Verify(w)
  PROVE  FilesStep(w) /\ Own(w)'
<1>0. w \in Tasks /\ w[1] \in Jobs /\ w[2] \in Blobs /\ fetch[w] \in FetchType
  BY TaskIs DEF PullTasks, PullShape
<1>1. task[w].pc = "verify" /\ UNCHANGED <<installed, noted>> /\ AtWork(w)
  BY DEF Verify, At, Own
<1>2. fetch[w].fd = "none" /\ fetch = [fetch EXCEPT ![w] = fetch[w]]
  BY <1>0, <1>1 DEF AtWork, PullShape
<1>3. CASE ~ (fetch[w].clean /\ task[w].n = Size)
  <2>1. Fail(w, "error", "settle") /\ RemoveTmp(w[2], fetch)
    BY <1>3 DEF Verify
  <2>2. FilesStep(w) /\ fetch'[w] = fetch[w]
    BY <1>0, <1>1, <1>2, <2>1, FilesRemoved
  <2>3. task'[w].pc = "settle" /\ task'[w].err = "error"
    BY <1>0, <2>1, FailSets
  <2> QED
    BY <1>1, <1>2, <2>2, <2>3, OwnFails
<1>4. CASE fetch[w].clean /\ task[w].n = Size
  <2>1. Goto(w, "rename") /\ UNCHANGED <<disk, fetch>>
    BY <1>4 DEF Verify
  <2>2. FilesStep(w) /\ fetch'[w] = fetch[w]
    BY <1>0, <1>1, <2>1, FilesStay DEF pullVars
  <2>3. task'[w].pc = "rename"
    BY <1>0, <2>1 DEF Goto, Shape, TaskType
  <2>4. AtWork(w)'
    BY <1>0, <1>1, <2>2, <2>3 DEF AtWork, Active, Resting, PlaceStep, Starting, Waiting
  <2>5. ASSUME Clean(w[2])' PROVE Fetching(w)' /\ Fetched(w)'
    <3>1. Received(w)
      BY <1>1, <2>5 DEF Own, Clean, Fetching
    <3>2. disk[w[2]].tmp = Whole
      BY <1>4, <3>1, WholeIs DEF Received
    <3> QED
      BY <2>1, <2>3, <3>2 DEF Fetching, Fetched
  <2> QED
    BY <2>2, <2>4, <2>5 DEF Own
<1> QED
  BY <1>3, <1>4

LEMMA RenameFetch ==
  ASSUME Shape, PullShape, NEW w \in PullTasks, Own(w), PlaceStep(w), Rename(w)
  PROVE  FilesStep(w) /\ Own(w)'
<1> DEFINE b == w[2]
           g == Renamed(b, fetch, Moved)
<1>0. w \in Tasks /\ w[1] \in Jobs /\ b \in Blobs /\ fetch[w] \in FetchType
  BY TaskIs DEF PullTasks, PullShape
<1>1. task[w].pc = "rename" /\ UNCHANGED <<installed, noted>> /\ AtWork(w)
  BY DEF Rename, At, Own
<1>2. CASE disk[b].tmp = None
  <2>1. Fail(w, "error", "settle") /\ UNCHANGED <<disk, fetch>>
    BY <1>2 DEF Rename
  <2>2. FilesStep(w) /\ fetch'[w] = fetch[w]
    BY <1>0, <1>1, <2>1, FilesStay DEF pullVars
  <2>3. task'[w].pc = "settle" /\ task'[w].err = "error"
    BY <1>0, <2>1, FailSets
  <2>4. fetch[w].fd = "none"
    BY <1>1 DEF AtWork
  <2> QED
    BY <1>1, <2>2, <2>3, <2>4, OwnFails
<1>3. CASE disk[b].tmp # None
  <2>1. /\ disk' = [disk EXCEPT ![b] = [tmp |-> None, blob |-> disk[b].tmp]]
        /\ fetch' = [g EXCEPT ![w] = NewFetch]
        /\ task' = [task EXCEPT ![w] = [@ EXCEPT !.pc = "ended", !.slot = FALSE]]
    BY <1>3 DEF Rename
  <2>2. /\ Reopened(fetch, g, b)
        /\ \A v \in Tasks : v[2] = b => g[v].fd = IF fetch[v].fd = "tmp" THEN "blob"
                                                  ELSE IF fetch[v].fd = "blob" THEN "gone" ELSE fetch[v].fd
    BY RenamedIs DEF PullShape
  <2> HIDE DEF g
  <2>3. /\ fetch' \in [Tasks -> FetchType] /\ fetch'[w] = NewFetch
        /\ \A v \in Tasks : v # w => fetch'[v] = g[v]
    BY <1>0, <2>1, <2>2, NewTyped DEF Reopened
  <2>4. disk[b].tmp \in Seq(BOOLEAN)
    BY <1>0, <1>3 DEF PullShape, File
  <2>5. /\ disk' \in [Blobs -> [tmp : File, blob : File]]
        /\ disk'[b].tmp = None /\ disk'[b].blob = disk[b].tmp
        /\ \A c \in Blobs : c # b => disk'[c] = disk[c]
    BY <1>0, <2>1, <2>4 DEF PullShape, File
  <2>6. NewFetch.fd = "none" /\ NewFetch.from = 0 /\ NewFetch.cause = "none"
    BY DEF NewFetch
  <2>7. ASSUME NEW v \in Tasks
        PROVE  /\ fetch'[v].fd = "tmp" => disk'[v[2]].tmp \in Seq(BOOLEAN)
               /\ fetch'[v].fd = "blob" => disk'[v[2]].blob \in Seq(BOOLEAN)
    <3>0. v[2] \in Blobs
      BY TaskIs
    <3>1. CASE v = w
      BY <2>3, <2>6, <3>1
    <3>2. CASE v # w /\ v[2] = b
      <4>1. fetch'[v].fd # "tmp"
        BY <2>2, <2>3, <3>2
      <4> QED
        BY <2>4, <2>5, <3>2, <4>1
    <3>3. CASE v # w /\ v[2] # b
      BY <2>2, <2>3, <2>5, <3>0, <3>3 DEF PullShape, Reopened
    <3> QED
      BY <3>1, <3>2, <3>3
  <2>8. PullShape'
    BY <1>1, <2>3, <2>5, <2>7 DEF PullShape
  <2>9. \A v \in Tasks : v # w => Beside(v, b)
    BY <2>2, <2>3 DEF Reopened, Beside
  <2>10. Clean(b)' => disk'[b].blob = Whole
    BY <1>1, <2>5 DEF Own, Clean, Fetching
  <2>11. FilesStep(w)
    BY <1>1, <2>5, <2>8, <2>9, <2>10 DEF FilesStep
  <2>12. task'[w].pc = "ended"
    BY <1>0, <2>1 DEF Shape, TaskType
  <2>13. AtWork(w)'
    BY <2>3, <2>6, <2>12 DEF AtWork, Active, Resting, Waiting
  <2>14. Clean(b)' => Fetching(w)' /\ Fetched(w)'
    BY <2>10, <2>12 DEF Fetching, Fetched
  <2> QED
    BY <2>11, <2>13, <2>14 DEF Own
<1> QED
  BY <1>2, <1>3

\* What is hashed anew when a file is continued.
LEMMA OpenFetch ==
  ASSUME Shape, PullShape, NEW w \in PullTasks, Own(w), PlaceStep(w), Open(w)
  PROVE  FilesStep(w) /\ Own(w)'
<1> DEFINE b == w[2]
           tmp == disk[b].tmp
           from == fetch[w].from
           continue == from > 0 /\ tmp # None /\ Len(tmp) >= from
           cut == from > 0 /\ tmp # None /\ Len(tmp) < from
           at == IF continue THEN from ELSE 0
           clean == IF continue THEN \A i \in 1 .. from : tmp[i] ELSE fetch[w].base = 0
           opened == [fetch[w] EXCEPT !.fd = "tmp", !.from = at, !.off = at, !.clean = clean]
           g == IF cut THEN Renamed(b, fetch, Unlinked) ELSE fetch
<1>0. w \in Tasks /\ w[1] \in Jobs /\ b \in Blobs /\ fetch[w] \in FetchType /\ task[w] \in TaskType
  BY TaskIs DEF PullTasks, PullShape, Shape
<1>1. /\ task[w].pc = "open" /\ UNCHANGED <<installed, noted>> /\ AtWork(w)
      /\ task' = [task EXCEPT ![w] = [@ EXCEPT !.pc = "read", !.n = at]]
      /\ disk' = IF continue THEN disk ELSE [disk EXCEPT ![b].tmp = <<>>]
      /\ fetch' = [g EXCEPT ![w] = opened]
  BY DEF Open, At, Own
<1>2. at \in Nat /\ (at > 0 <=> continue) /\ (at > 0 => at = from)
  BY <1>0 DEF FetchType
<1>3. clean \in BOOLEAN
  OBVIOUS
<1>4. continue => tmp \in Seq(BOOLEAN)
  BY <1>0 DEF PullShape, File
<1>5. /\ opened \in FetchType /\ opened.fd = "tmp" /\ opened.off = at /\ opened.clean = clean
      /\ opened.cause = fetch[w].cause
  <2> HIDE DEF clean, at
  <2>1. \A k \in Nat, c \in BOOLEAN, r \in FetchType :
          /\ [r EXCEPT !.off = k, !.clean = c] \in FetchType
          /\ [r EXCEPT !.off = k, !.clean = c].off = k
          /\ [r EXCEPT !.off = k, !.clean = c].clean = c
          /\ [r EXCEPT !.off = k, !.clean = c].cause = r.cause
          /\ [r EXCEPT !.off = k, !.clean = c].fd = r.fd
    BY DEF FetchType
  <2>2. \A k \in Nat : LET q == [fetch[w] EXCEPT !.fd = "tmp", !.from = k] IN
          q \in FetchType /\ q.fd = "tmp" /\ q.cause = fetch[w].cause
    BY <1>0 DEF FetchType
  <2> DEFINE q == [fetch[w] EXCEPT !.fd = "tmp", !.from = at]
  <2>4. q \in FetchType /\ q.fd = "tmp" /\ q.cause = fetch[w].cause
    BY <1>2, <2>2
  <2>5. opened = [q EXCEPT !.off = at, !.clean = clean]
    BY <1>0 DEF FetchType
  <2> HIDE DEF opened, q
  <2>6. /\ [q EXCEPT !.off = at, !.clean = clean] \in FetchType
        /\ [q EXCEPT !.off = at, !.clean = clean].off = at
        /\ [q EXCEPT !.off = at, !.clean = clean].clean = clean
        /\ [q EXCEPT !.off = at, !.clean = clean].cause = q.cause
        /\ [q EXCEPT !.off = at, !.clean = clean].fd = q.fd
    BY <1>2, <1>3, <2>4 DEF FetchType
  <2> QED
    BY <2>4, <2>5, <2>6, Zenon
<1>6. Reopened(fetch, g, b)
  BY RenamedIs DEF PullShape, Reopened
<1>7. \A v \in Tasks : g[v].fd \in {fetch[v].fd, "gone"}
  <2>1. CASE cut
    <3>1. /\ Reopened(fetch, Renamed(b, fetch, Unlinked), b)
          /\ \A v \in Tasks : v[2] = b => Renamed(b, fetch, Unlinked)[v].fd =
                               IF fetch[v].fd = "tmp" THEN "gone" ELSE fetch[v].fd
      BY RenamedIs DEF PullShape
    <3>2. g = Renamed(b, fetch, Unlinked)
      BY <2>1
    <3> HIDE DEF g, cut
    <3>3. ASSUME NEW v \in Tasks PROVE g[v].fd \in {fetch[v].fd, "gone"}
      <4>1. CASE v[2] = b
        BY <3>1, <3>2, <4>1
      <4>2. CASE v[2] # b
        <5>1. g[v] = fetch[v]
          BY <3>1, <3>2, <4>2 DEF Reopened
        <5> QED BY <5>1
      <4> QED BY <4>1, <4>2
    <3> QED BY <3>3
  <2>2. CASE ~ cut
    BY <2>2
  <2> QED BY <2>1, <2>2
<1> HIDE DEF g, opened, at, clean
<1>8. /\ fetch' \in [Tasks -> FetchType] /\ fetch'[w] = opened
      /\ \A v \in Tasks : v # w => fetch'[v] = g[v]
  BY <1>0, <1>1, <1>5, <1>6 DEF Reopened
<1>9. /\ disk' \in [Blobs -> [tmp : File, blob : File]]
      /\ disk'[b].blob = disk[b].blob /\ disk'[b].tmp = IF continue THEN tmp ELSE <<>>
      /\ \A c \in Blobs : c # b => disk'[c] = disk[c]
  <2>1. CASE continue
    BY <1>0, <1>1, <2>1 DEF PullShape
  <2>2. CASE ~ continue
    <3>1. disk' = [disk EXCEPT ![b].tmp = <<>>]
      BY <1>1, <2>2
    <3>2. <<>> \in File /\ \A c \in Blobs : disk[c] \in [tmp : File, blob : File]
      BY DEF PullShape, File
    <3> HIDE DEF continue
    <3> QED
      BY <1>0, <2>2, <3>1, <3>2 DEF PullShape
  <2> QED
    BY <2>1, <2>2
<1>10. disk'[b].tmp \in Seq(BOOLEAN)
  <2>1. <<>> \in Seq(BOOLEAN)
    OBVIOUS
  <2> HIDE DEF continue, tmp
  <2> QED
    BY <1>4, <1>9, <2>1
<1>11. ASSUME NEW v \in Tasks
       PROVE  /\ fetch'[v].fd = "tmp" => disk'[v[2]].tmp \in Seq(BOOLEAN)
              /\ fetch'[v].fd = "blob" => disk'[v[2]].blob \in Seq(BOOLEAN)
  <2>0. v[2] \in Blobs
    BY TaskIs
  <2>1. CASE v = w
    BY <1>5, <1>8, <1>10, <2>1
  <2>2. CASE v # w /\ v[2] = b
    BY <1>7, <1>8, <1>9, <1>10, <2>2 DEF PullShape
  <2>3. CASE v # w /\ v[2] # b
    BY <1>7, <1>8, <1>9, <2>0, <2>3 DEF PullShape
  <2> QED
    BY <2>1, <2>2, <2>3
<1>12. PullShape'
  BY <1>1, <1>8, <1>9, <1>11 DEF PullShape
<1>13. \A v \in Tasks : v # w => Beside(v, b)
  BY <1>6, <1>8 DEF Reopened, Beside
<1>14. FilesStep(w)
  BY <1>1, <1>9, <1>12, <1>13 DEF FilesStep
<1>15. task'[w].pc = "read" /\ task'[w].n = at
  BY <1>0, <1>1 DEF Shape, TaskType
<1>16. AtWork(w)'
  BY <1>0, <1>1, <1>5, <1>8, <1>15 DEF AtWork, Active, Resting, PlaceStep, Starting, Waiting
<1>17. ASSUME Clean(b)' PROVE Fetching(w)' /\ Fetched(w)'
  <2>1. Fetching(w)
    BY <1>1, <1>17 DEF Own, Clean
  <2>2. Len(disk'[b].tmp) = at
    <3>1. CASE continue
      BY <1>1, <1>2, <1>9, <2>1, <3>1 DEF Fetching
    <3>2. CASE ~ continue
      BY <1>2, <1>9, <3>2
    <3> QED
      BY <3>1, <3>2
  <2>3. ASSUME clean, NEW i \in 1 .. at PROVE disk'[b].tmp[i] = TRUE
    <3>1. continue /\ at = from
      BY <1>2, <2>3
    <3>2. tmp[i]
      BY <2>3, <3>1 DEF clean
    <3>3. i \in 1 .. Len(tmp) /\ disk'[b].tmp = tmp
      BY <1>9, <2>2, <2>3, <3>1
    <3>4. tmp[i] \in BOOLEAN
      BY <1>4, <3>1, <3>3
    <3>5. tmp[i] = TRUE
      BY <3>2, <3>4, Zenon
    <3> QED
      BY <3>3, <3>5, Zenon
  <2>4. Received(w)'
    BY <1>5, <1>8, <1>10, <1>15, <2>2, <2>3 DEF Received
  <2> QED
    BY <1>5, <1>8, <1>15, <2>4 DEF Fetching, Fetched
<1> QED
  BY <1>14, <1>16, <1>17 DEF Own

\* A unit that is received, and written to the file that is open, or lost.
LEMMA ReceivesFetch ==
  ASSUME Shape, PullShape, NEW w \in PullTasks, Own(w), PlaceStep(w),
         NEW right \in BOOLEAN, NEW lost \in BOOLEAN, Receives(w, right, lost)
  PROVE  FilesStep(w) /\ Own(w)'
<1> DEFINE b == w[2]
           f == fetch[w]
           n == task[w].n
           unit == right /\ f.base + n - f.from < Size /\ f.base = f.from
           clean == f.clean /\ unit
           off == IF lost THEN f.off ELSE f.off + 1
           fd == IF f.cause = "none" THEN f.fd ELSE "none"
           r == [f EXCEPT !.clean = clean, !.off = off, !.fd = fd]
           file == disk[b][f.fd]
           q == WrittenAt(file, f.off, unit)
<1>0. w \in Tasks /\ w[1] \in Jobs /\ b \in Blobs /\ f \in FetchType /\ task[w] \in TaskType
  BY TaskIs DEF PullTasks, PullShape, Shape
<1>1. /\ task[w].pc = "read" /\ UNCHANGED installed /\ AtWork(w)
      /\ noted' = IF lost THEN [noted EXCEPT !.lost = @ \cup {b}] ELSE noted
  BY DEF Receives, At, Own
<1>2. fetch' = [fetch EXCEPT ![w] = r]
  BY <1>0 DEF Receives, PullShape
<1>3. /\ task'[w].n = n + 1
      /\ task'[w].pc = IF f.cause = "none" THEN "read" ELSE "drain"
      /\ f.cause # "none" => task'[w].err = f.cause
  <2>1. task' = [task EXCEPT ![w] = [@ EXCEPT !.n = n + 1,
                             !.pc = IF f.cause = "none" THEN "read" ELSE "drain",
                             !.err = IF f.cause = "none" THEN task[w].err ELSE f.cause]]
    BY <1>0, <1>1 DEF Receives, Shape
  <2> QED
    BY <1>0, <2>1 DEF Shape, TaskType
<1>4. IF lost THEN UNCHANGED disk ELSE WriteUnit(w, unit)
  BY DEF Receives
<1>5. clean \in BOOLEAN /\ unit \in BOOLEAN /\ off \in Nat /\ fd \in {"none", f.fd}
  BY <1>0 DEF FetchType
<1>6. n \in Int /\ f.fd \in {"tmp", "blob", "gone"}
  BY <1>0, <1>1 DEF TaskType, AtWork, FetchType
<1> HIDE DEF unit
<1>7. /\ r \in FetchType /\ r.fd = fd /\ r.off = off /\ r.clean = clean
      /\ r.from = f.from /\ r.cause = f.cause
  <2> HIDE DEF clean, off, fd, f
  <2>1. fd \in {"none", "tmp", "blob", "gone"}
    BY <1>5, <1>6
  <2>2. r \in FetchType
    BY <1>0, <1>5, <2>1, FetchFields
  <2> QED
    BY <1>0, <1>5, <2>1, <2>2 DEF FetchType
<1> HIDE DEF r
<1>8. fetch' \in [Tasks -> FetchType] /\ fetch'[w] = r /\ \A v \in Tasks : v # w => fetch'[v] = fetch[v]
  BY <1>0, <1>2, <1>7 DEF PullShape
<1>9. f.fd \in {"tmp", "blob"} => file \in Seq(BOOLEAN)
  BY <1>0 DEF PullShape
<1>10. /\ f.fd \in {"tmp", "blob"} => q \in Seq(BOOLEAN)
       /\ f.fd = "tmp" /\ f.off = Len(disk[b].tmp) =>
            /\ Len(q) = f.off + 1 /\ q[f.off + 1] = unit
            /\ \A i \in 1 .. f.off : q[i] = disk[b].tmp[i]
  <2>1. f.off \in Nat
    BY <1>0 DEF FetchType
  <2> HIDE DEF f
  <2>2. f.fd = "tmp" => file = disk[b].tmp
    OBVIOUS
  <2> HIDE DEF file
  <2>3. ASSUME file \in Seq(BOOLEAN)
        PROVE  /\ q \in Seq(BOOLEAN)
               /\ f.off = Len(file) => /\ Len(q) = f.off + 1 /\ q[f.off + 1] = unit
                                       /\ \A i \in 1 .. f.off : q[i] = file[i]
    <3>1. unit \in BOOLEAN
      BY <1>5
    <3>2. /\ WrittenAt(file, f.off, unit) \in Seq(BOOLEAN)
          /\ f.off = Len(file) =>
               /\ Len(WrittenAt(file, f.off, unit)) = f.off + 1
               /\ WrittenAt(file, f.off, unit)[f.off + 1] = unit
               /\ \A i \in 1 .. f.off : WrittenAt(file, f.off, unit)[i] = file[i]
      BY <2>1, <2>3, <3>1, WrittenIs, Zenon
    <3> QED
      BY <3>2, Zenon
  <2> HIDE DEF q
  <2> QED
    BY <1>9, <2>2, <2>3
<1> HIDE DEF q
<1>11. /\ disk' \in [Blobs -> [tmp : File, blob : File]]
       /\ disk'[b].tmp = IF ~ lost /\ f.fd = "tmp" THEN q ELSE disk[b].tmp
       /\ disk'[b].blob = IF ~ lost /\ f.fd = "blob" THEN q ELSE disk[b].blob
       /\ \A c \in Blobs : c # b => disk'[c] = disk[c]
  <2>1. CASE lost \/ f.fd = "gone"
    <3>1. disk' = disk
      BY <1>4, <2>1 DEF WriteUnit
    <3> QED
      BY <2>1, <3>1 DEF PullShape
  <2>2. CASE ~ lost /\ f.fd = "tmp"
    <3>1. disk' = [disk EXCEPT ![b].tmp = q]
      BY <1>0, <1>4, <2>2 DEF WriteUnit, PullShape, q
    <3> QED
      BY <1>0, <1>10, <2>2, <3>1 DEF PullShape, File
  <2>3. CASE ~ lost /\ f.fd = "blob"
    <3>1. disk' = [disk EXCEPT ![b].blob = q]
      BY <1>0, <1>4, <2>3 DEF WriteUnit, PullShape, q
    <3> QED
      BY <1>0, <1>10, <2>3, <3>1 DEF PullShape, File
  <2> QED
    BY <1>6, <2>1, <2>2, <2>3
<1>12. ASSUME NEW v \in Tasks
       PROVE  /\ fetch'[v].fd = "tmp" => disk'[v[2]].tmp \in Seq(BOOLEAN)
              /\ fetch'[v].fd = "blob" => disk'[v[2]].blob \in Seq(BOOLEAN)
  <2>0. v[2] \in Blobs
    BY TaskIs
  <2>1. fetch'[v].fd \in {"none", fetch[v].fd}
    BY <1>5, <1>7, <1>8
  <2>2. CASE v[2] = b
    BY <1>10, <1>11, <2>1, <2>2 DEF PullShape
  <2>3. CASE v[2] # b
    BY <1>11, <2>0, <2>1, <2>3 DEF PullShape
  <2> QED
    BY <2>2, <2>3
<1>13. /\ noted' \in [lost : SUBSET Blobs, shared : SUBSET Blobs]
       /\ noted.lost \subseteq noted'.lost /\ noted'.shared = noted.shared
       /\ lost => b \in noted'.lost
  BY <1>0, <1>1 DEF PullShape
<1>14. PullShape'
  BY <1>1, <1>8, <1>11, <1>12, <1>13 DEF PullShape
<1>15. \A v \in Tasks : v # w => Beside(v, b)
  BY <1>8 DEF Beside
<1>16. ASSUME Clean(b)'
       PROVE  /\ f.fd = "tmp" /\ f.off = n /\ disk[b].tmp \in Seq(BOOLEAN) /\ Len(disk[b].tmp) = n
              /\ f.clean => \A i \in 1 .. n : disk[b].tmp[i] = TRUE
              /\ ~ lost
  BY <1>1, <1>13, <1>16 DEF Own, Fetching, Received, Clean
<1>17. FilesStep(w)
  <2>1. Clean(b)' => disk'[b].blob = disk[b].blob
    BY <1>11, <1>16
  <2>2. CASE Clean(b)'
    BY <1>1, <1>11, <1>13, <1>14, <1>15, <2>1, <2>2 DEF FilesStep
  <2>3. CASE ~ Clean(b)'
    BY <1>1, <1>11, <1>13, <1>14, <1>15, <2>3 DEF FilesStep
  <2> QED
    BY <2>2, <2>3
<1>18. AtWork(w)'
  BY <1>0, <1>1, <1>3, <1>6, <1>7, <1>8 DEF AtWork, Active, Resting, PlaceStep, Starting, Waiting
<1>19. ASSUME Clean(b)' PROVE Fetching(w)' /\ Fetched(w)'
  <2>1. CASE f.cause # "none"
    BY <1>3, <2>1 DEF Fetching, Fetched
  <2>2. CASE f.cause = "none"
    <3>1. disk'[b].tmp = q /\ q \in Seq(BOOLEAN) /\ Len(q) = n + 1
      BY <1>10, <1>11, <1>16, <1>19
    <3>2. ASSUME fetch'[w].clean, NEW i \in 1 .. n + 1 PROVE q[i] = TRUE
      <4>1. f.clean /\ unit
        BY <1>7, <1>8, <3>2
      <4>2. CASE i = n + 1
        <5>1. q[i] = unit
          BY <1>10, <1>16, <1>19, <4>2
        <5>2. unit = TRUE
          BY <1>5, <4>1, Zenon
        <5> QED
          BY <5>1, <5>2, Zenon
      <4>3. CASE i # n + 1
        <5>1. i \in 1 .. n
          BY <1>6, <4>3
        <5>2. q[i] = disk[b].tmp[i] /\ disk[b].tmp[i] = TRUE
          BY <1>10, <1>16, <1>19, <4>1, <5>1
        <5> QED
          BY <5>2, Zenon
      <4> QED
        BY <4>2, <4>3
    <3>3. Received(w)'
      BY <1>3, <3>1, <3>2 DEF Received
    <3> QED
      BY <1>3, <1>7, <1>8, <1>16, <1>19, <2>2, <3>3 DEF Fetching, Fetched
  <2> QED
    BY <2>1, <2>2
<1> QED
  BY <1>17, <1>18, <1>19 DEF Own

LEMMA PullTaskFetches ==
  ASSUME Shape, PullShape, PullInv, NEW w \in PullTasks, PullStep(w) \/ PullFault(w)
  PROVE  PlaceStep(w) /\ FilesStep(w) /\ Own(w)'
<1>0. w \in Tasks /\ Own(w)
  BY DEF PullTasks, PullInv
<1>1. PlaceStep(w)
  BY <1>0, PullTaskSteps, PlaceSteps
<1>2. FilesStep(w) /\ Own(w)'
  <2>1. CASE Begins(w) /\ UNCHANGED pullVars
    BY <1>0, <1>1, <2>1, BeginsFetch
  <2>2. CASE Interrupt(w)
    BY <1>0, <1>1, <2>2, InterruptFetch
  <2>3. CASE Settle(w)
    BY <1>0, <1>1, <2>3, SettleFetch
  <2>4. CASE Resolve(w)
    BY <1>0, <1>1, <2>4, ResolveFetch
  <2>5. CASE Stat(w)
    BY <1>0, <1>1, <2>5, StatFetch
  <2>6. CASE Ask(w)
    BY <1>0, <1>1, <2>6, AskFetch
  <2>7. CASE Open(w)
    BY <1>0, <1>1, <2>7, OpenFetch
  <2>8. CASE Receive(w) \/ ReceiveBadly(w)
    <3>1. \E right, lost \in BOOLEAN : Receives(w, right, lost)
      BY <2>8, Zenon DEF Receive, ReceiveBadly
    <3> QED
      BY <1>0, <1>1, <3>1, ReceivesFetch
  <2>9. CASE EndOfBody(w) \/ EndsEarly(w)
    BY <1>0, <1>1, <2>9, BodyEndsFetch DEF EndOfBody, EndsEarly
  <2>10. CASE Drain(w)
    BY <1>0, <1>1, <2>10, DrainFetch
  <2>11. CASE Verify(w)
    BY <1>0, <1>1, <2>11, VerifyFetch
  <2>12. CASE Rename(w)
    BY <1>0, <1>1, <2>12, RenameFetch
  <2>13. CASE RequestFails(w)
    BY <1>0, <1>1, <2>13, RequestFailsFetch
  <2>14. CASE Break(w)
    BY <1>0, <1>1, <2>14, BreakFetch
  <2>15. CASE FallSilent(w) \/ SpeaksAgain(w) \/ Watchdog(w)
    BY <1>0, <1>1, <2>15, ReadingFetch
  <2> QED
    BY <2>1, <2>2, <2>3, <2>4, <2>5, <2>6, <2>7, <2>8, <2>9, <2>10, <2>11, <2>12, <2>13,
       <2>14, <2>15 DEF PullStep, PullFault
<1> QED
  BY <1>1, <1>2

LEMMA PullTaskKeeps ==
  ASSUME Shape, PullShape, PullInv, NEW w \in PullTasks, PullStep(w) \/ PullFault(w)
  PROVE  PullShape' /\ PullInv'
  BY PullTaskFetches, PullKept

-----------------------------------------------------------------------------
(* Steps of jobs.                                                            *)

\* A job goes on, the others do not.
JobGoes(j) ==
  /\ \A i \in Jobs : /\ job'[i].kind = job[i].kind /\ job'[i].layers = job[i].layers
                     /\ i # j => job'[i].phase = job[i].phase
  /\ \A w \in Tasks : w[1] # j => task'[w] = task[w]

LEMMA DownloadGoes ==
  ASSUME Shape, NEW j \in Jobs, Download(j)
  PROVE  /\ JobGoes(j)
         /\ job'[j].phase = IF Missing(j) = {} THEN "manifest" ELSE "running"
         /\ \A w \in Tasks : w[1] = j =>
              task'[w] = IF w[2] \in Missing(j) THEN [NewTask EXCEPT !.pc = "queued"] ELSE NewTask
<1> DEFINE wanted == Missing(j)
           already == Cardinality(job[j].layers \ wanted) * Size
<1>1. job[j] \in JobType /\ wanted \subseteq job[j].layers /\ already \in Int
  BY SumTyped DEF Shape, JobType, Missing
<1>2. /\ job' = [job EXCEPT ![j] = [@ EXCEPT !.phase = IF wanted = {} THEN "manifest" ELSE "running",
                            !.cancelled = FALSE, !.already = already,
                            !.completed = IF wanted = {} THEN 0 ELSE already]]
      /\ task' = [w \in Tasks |-> IF w \in {j} \X wanted THEN [NewTask EXCEPT !.pc = "queued"]
                                  ELSE IF w[1] = j THEN NewTask ELSE task[w]]
  BY DEF Download
<1> HIDE DEF already, wanted
<1> DEFINE phase == IF wanted = {} THEN "manifest" ELSE "running"
           completed == IF wanted = {} THEN 0 ELSE already
<1>3. \A i \in Jobs : /\ job'[i].kind = job[i].kind /\ job'[i].layers = job[i].layers
                      /\ i # j => job'[i] = job[i]
                      /\ i = j => job'[i].phase = phase
  <2>1. phase \in Phases /\ completed \in Int
    BY <1>1 DEF Phases
  <2>2. job' = [job EXCEPT ![j] = Begun(job[j], phase, already, completed)]
    BY <1>2 DEF Begun, Shape
  <2> HIDE DEF phase, completed
  <2> QED
    BY <1>1, <2>1, <2>2, JobBegins
<1>4. ASSUME NEW w \in Tasks, w[1] = j
      PROVE  task'[w] = IF w[2] \in wanted THEN [NewTask EXCEPT !.pc = "queued"] ELSE NewTask
  <2>1. w \in {j} \X wanted <=> w[2] \in wanted
    BY <1>4, TaskIs
  <2> QED
    BY <1>2, <1>4, <2>1
<1>5. \A w \in Tasks : w[1] # j => task'[w] = task[w]
  BY <1>2
<1> QED
  BY <1>3, <1>4, <1>5 DEF JobGoes, wanted

LEMMA UploadGoes ==
  ASSUME Shape, NEW j \in Jobs, Upload(j)
  PROVE  /\ JobGoes(j)
         /\ job'[j].phase = "checking"
         /\ \A w \in Tasks : task'[w] = task[w] \/ task'[w].pc = "head"
<1>1. /\ job' = [job EXCEPT ![j] = [@ EXCEPT !.phase = "checking", !.cancelled = FALSE,
                            !.already = 0, !.completed = 0]]
      /\ task' = [w \in Tasks |-> IF w \in TasksOf(j) THEN [NewTask EXCEPT !.pc = "head"] ELSE task[w]]
  BY DEF Upload
<1>2. \A i \in Jobs : /\ job'[i].kind = job[i].kind /\ job'[i].layers = job[i].layers
                      /\ i # j => job'[i] = job[i]
                      /\ i = j => job'[i].phase = "checking"
  <2>1. "checking" \in Phases /\ 0 \in Int
    BY DEF Phases
  <2>2. job' = [job EXCEPT ![j] = Begun(job[j], "checking", 0, 0)]
    BY <1>1 DEF Begun, Shape
  <2> QED
    BY <2>1, <2>2, JobBegins
<1>3. \A w \in Tasks : /\ w[1] # j => task'[w] = task[w]
                       /\ task'[w] = task[w] \/ task'[w].pc = "head"
  BY <1>1 DEF NewTask, TasksOf
<1> QED
  BY <1>2, <1>3 DEF JobGoes

LEMMA PhaseGoes ==
  ASSUME Shape, NEW j \in Jobs, NEW phase, UNCHANGED task, job' = [job EXCEPT ![j].phase = phase]
  PROVE  JobGoes(j) /\ job'[j].phase = phase
  BY DEF Shape, JobType, JobGoes

LEMMA StartGoes ==
  ASSUME Shape, NEW j \in Jobs, StartUploads(j)
  PROVE  JobGoes(j) /\ job'[j].phase \in {"failed", "running"} /\ UNCHANGED task
<1> DEFINE already == Cardinality({w \in TasksOf(j) : At(w, "checked")}) * Size
<1>1. UNCHANGED task
  BY DEF StartUploads
<1>2. PICK phase \in {"failed", "running"} :
        job' = [job EXCEPT ![j] = [@ EXCEPT !.phase = phase, !.already = already,
                           !.completed = already]]
  BY DEF StartUploads
<1> HIDE DEF already
<1> QED
  BY <1>1, <1>2 DEF Shape, JobType, JobGoes

\* A client that leaves, and a token that expires.
LEMMA OutsideGoes ==
  ASSUME Shape, NEW j \in Jobs, TokenExpires(j) \/ ClientLeaves(j)
  PROVE  /\ \A i \in Jobs : /\ job'[i].kind = job[i].kind /\ job'[i].layers = job[i].layers
                            /\ job'[i].phase = job[i].phase
         /\ UNCHANGED task
<1>1. CASE TokenExpires(j)
  BY <1>1 DEF TokenExpires, Shape, JobType
<1>2. CASE ClientLeaves(j)
  BY <1>2 DEF ClientLeaves, Cancelled, Shape, JobType
<1> QED
  BY <1>1, <1>2

LEMMA RestartGoes ==
  ASSUME Shape, Restart
  PROVE  /\ \A i \in Jobs : /\ job'[i].kind = job[i].kind /\ job'[i].layers = job[i].layers
                            /\ job'[i].phase = IF job[i].phase = "ok" THEN "ok" ELSE "idle"
         /\ \A w \in Tasks : task'[w] = IF job[w[1]].phase = "ok" THEN task[w] ELSE NewTask
<1>1. /\ job' = [j \in Jobs |-> IF job[j].phase = "ok" THEN job[j]
                                ELSE [job[j] EXCEPT !.phase = "idle", !.cancelled = FALSE,
                                                    !.already = 0, !.completed = 0]]
      /\ task' = [w \in Tasks |-> IF job[w[1]].phase = "ok" THEN task[w] ELSE NewTask]
  BY DEF Restart
<1>2. ASSUME NEW i \in Jobs
      PROVE  /\ job'[i].kind = job[i].kind /\ job'[i].layers = job[i].layers
             /\ job'[i].phase = IF job[i].phase = "ok" THEN "ok" ELSE "idle"
  <2>1. CASE job[i].phase = "ok"
    BY <1>1, <2>1 DEF Shape
  <2>2. CASE job[i].phase # "ok"
    <3>1. job'[i] = Begun(job[i], "idle", 0, 0)
      BY <1>1, <2>2 DEF Begun
    <3>2. job[i] \in JobType /\ "idle" \in Phases /\ 0 \in Int
      BY DEF Shape, Phases
    <3> QED
      BY <2>2, <3>1, <3>2, BegunFields
  <2> QED
    BY <2>1, <2>2
<1> QED
  BY <1>1, <1>2

-----------------------------------------------------------------------------
(* Pulls: the steps of jobs, and of pushes.                                  *)

\* What leaves pulls and their files alone.
LEMMA PullRests ==
  ASSUME Shape, PullShape, PullInv, UNCHANGED pullVars,
         \A i \in Jobs : /\ job'[i].kind = job[i].kind /\ job'[i].layers = job[i].layers
                         /\ job[i].kind = "pull" => job'[i].phase = job[i].phase,
         \A w \in PullTasks : task'[w] = task[w]
  PROVE  PullShape' /\ PullInv'
<1>1. UNCHANGED <<fetch, disk, installed, noted>>
  BY DEF pullVars
<1>2. PullShape'
  BY <1>1 DEF PullShape
<1>3. PullTasks' = PullTasks
  BY TaskIs DEF PullTasks
<1>4. ASSUME NEW w \in PullTasks PROVE Own(w)'
  <2>0. w[1] \in Jobs /\ job[w[1]].kind = "pull"
    BY TaskIs DEF PullTasks
  <2>1. Own(w)
    BY DEF PullInv
  <2>2. job'[w[1]].phase = job[w[1]].phase /\ job'[w[1]].layers = job[w[1]].layers
    BY <2>0
  <2> QED
    BY <1>1, <2>1, <2>2 DEF Own, AtWork, Active, Fetching, Received, Fetched, Clean
<1>5. Unshared'
  BY <1>1, <1>3 DEF PullInv, Unshared, Active
<1>6. \A b \in Blobs : Clean(b)' => disk'[b].blob \in {None, Whole}
  BY <1>1 DEF PullInv, Clean
<1>7. \A j \in Jobs : j \in installed' \/ (job'[j].kind = "pull" /\ job'[j].phase = "manifest")
                        => Entire(j)'
  BY <1>1 DEF PullInv, Entire, Clean
<1> QED
  BY <1>1, <1>2, <1>3, <1>4, <1>5, <1>6, <1>7 DEF PullInv

\* A job of a pull changes its phase, when none of its tasks is active any more.
LEMMA PullEnds ==
  ASSUME Shape, PullShape, PullInv, NEW j \in Jobs, job[j].kind = "pull", JobGoes(j),
         UNCHANGED <<task, fetch, disk, noted>>,
         \A w \in Tasks : w[1] = j => ~ Active(w),
         job'[j].phase # "running",
         installed \subseteq installed', installed' \subseteq installed \cup {j},
         j \in installed' \/ job'[j].phase = "manifest" => Entire(j)
  PROVE  PullShape' /\ PullInv'
<1>2. PullShape'
  BY DEF PullShape
<1>3. PullTasks' = PullTasks
  BY TaskIs DEF PullTasks, JobGoes
<1>4. ASSUME NEW w \in PullTasks PROVE Own(w)'
  <2>0. w \in Tasks /\ w[1] \in Jobs
    BY TaskIs DEF PullTasks
  <2>1. Own(w)
    BY DEF PullInv
  <2>2. CASE w[1] = j
    <3>1. AtWork(w)'
      BY <2>0, <2>1, <2>2 DEF Own, AtWork, Active
    <3>2. Clean(w[2]) <=> Clean(w[2])'
      BY DEF Clean
    <3>3. Fetching(w) => Fetching(w)'
      BY DEF Fetching, Received
    <3>4. Fetched(w)'
      BY <2>2 DEF Fetched
    <3> QED
      BY <2>1, <3>1, <3>2, <3>3, <3>4 DEF Own
  <2>3. CASE w[1] # j
    <3>1. job'[w[1]].phase = job[w[1]].phase /\ job'[w[1]].layers = job[w[1]].layers
      BY <2>0, <2>3 DEF JobGoes
    <3> QED
      BY <2>1, <3>1 DEF Own, AtWork, Active, Fetching, Received, Fetched, Clean
  <2> QED
    BY <2>2, <2>3
<1>5. Unshared'
  BY <1>3 DEF PullInv, Unshared, Active
<1>6. \A b \in Blobs : Clean(b)' => disk'[b].blob \in {None, Whole}
  BY DEF PullInv, Clean
<1>7. ASSUME NEW i \in Jobs, i \in installed' \/ (job'[i].kind = "pull" /\ job'[i].phase = "manifest")
      PROVE  Entire(i)'
  <2>1. Entire(i)
    BY <1>7 DEF PullInv, JobGoes
  <2> QED
    BY <2>1 DEF Entire, Clean, JobGoes
<1> QED
  BY <1>2, <1>3, <1>4, <1>5, <1>6, <1>7 DEF PullInv

LEMMA WaitKeeps ==
  ASSUME Shape, PullShape, TokenInv, PullInv, NEW j \in Jobs, Wait(j)
  PROVE  PullShape' /\ PullInv'
<1> DEFINE failed == \E w \in TasksOf(j) : task[w].err # "none"
<1>1. /\ job[j].kind = "pull" /\ job[j].phase = "running" /\ UNCHANGED <<task, pullVars>>
      /\ \A w \in TasksOf(j) : task[w].pc \in {"none", "ended"}
      /\ job' = [job EXCEPT ![j].phase = IF failed THEN "failed" ELSE "manifest"]
  BY DEF Wait
<1>2. \A w \in Tasks : w[1] = j => ~ Active(w)
  BY <1>1, OthersRest DEF Active, Resting
<1> HIDE DEF failed
<1>3. JobGoes(j) /\ job'[j].phase = IF failed THEN "failed" ELSE "manifest"
  BY <1>1, PhaseGoes
<1>4. ASSUME ~ failed, NEW b \in job[j].layers, Clean(b) PROVE disk[b].blob = Whole
  <2> DEFINE w == <<j, b>>
  <2>1. w \in TasksOf(j) /\ w \in Tasks /\ w[1] = j /\ w[2] = b
    BY DEF TasksOf, Tasks, Shape, JobType
  <2>2. w \in PullTasks
    BY <1>1, <2>1 DEF PullTasks
  <2> HIDE DEF w
  <2>3. Fetched(w)
    BY <1>4, <2>1, <2>2 DEF PullInv, Own
  <2>4. task[w].err = "none" /\ task[w].pc \in {"none", "ended"}
    BY <1>1, <1>4, <2>1 DEF failed
  <2> QED
    BY <1>1, <2>1, <2>3, <2>4 DEF Fetched
<1>5. j \in installed' \/ job'[j].phase = "manifest" => Entire(j)
  <2>1. CASE j \in installed'
    BY <1>1, <2>1 DEF PullInv, pullVars
  <2>2. CASE job'[j].phase = "manifest"
    BY <1>3, <1>4, <2>2 DEF Entire
  <2> QED
    BY <2>1, <2>2
<1> QED
  BY <1>1, <1>2, <1>3, <1>5, PullEnds DEF pullVars

LEMMA WriteManifestKeeps ==
  ASSUME Shape, PullShape, TokenInv, PullInv, NEW j \in Jobs, WriteManifest(j)
  PROVE  PullShape' /\ PullInv'
<1>1. /\ job[j].kind = "pull" /\ job[j].phase = "manifest" /\ UNCHANGED <<task, fetch, disk, noted>>
      /\ job' = [job EXCEPT ![j].phase = "ok"] /\ installed' = installed \cup {j}
  BY DEF WriteManifest
<1>2. \A w \in Tasks : w[1] = j => ~ Active(w)
  BY <1>1 DEF TokenInv, Asks, Active
<1>3. JobGoes(j) /\ job'[j].phase = "ok"
  BY <1>1, PhaseGoes
<1>4. Entire(j)
  BY <1>1 DEF PullInv
<1> QED
  BY <1>1, <1>2, <1>3, <1>4, PullEnds

\* A blob that is not missing is whole, and one that is begun a second time is
\* shared from now on.
LEMMA DownloadKeeps ==
  ASSUME Shape, PullShape, TokenInv, PullInv, NEW j \in Jobs, Download(j)
  PROVE  PullShape' /\ PullInv'
<1> DEFINE wanted == Missing(j)
           others == {i \in Jobs \ {j} : job[i].kind = "pull" /\ job[i].phase = "running"}
           shared == {b \in wanted : \E i \in others : task[<<i, b>>].pc \notin {"none", "ended"}}
           queued == [NewTask EXCEPT !.pc = "queued"]
<1>1. /\ job[j].kind = "pull" /\ job[j].phase \in {"idle", "failed"}
      /\ UNCHANGED <<fetch, disk, installed>>
      /\ noted' = [noted EXCEPT !.shared = @ \cup shared]
  BY DEF Download
<1>2. /\ JobGoes(j)
      /\ job'[j].phase = IF wanted = {} THEN "manifest" ELSE "running"
      /\ \A w \in Tasks : w[1] = j => task'[w] = IF w[2] \in wanted THEN queued ELSE NewTask
  BY DownloadGoes
<1>3. wanted \subseteq job[j].layers /\ job[j].layers \subseteq Blobs
  BY DEF Missing, Shape, JobType
<1>4. queued.pc = "queued" /\ NewTask.pc = "none"
  BY DEF NewTask
<1>5. PullTasks' = PullTasks
  BY <1>2, TaskIs DEF PullTasks, JobGoes
<1> HIDE DEF queued, shared
<1>6. noted'.lost = noted.lost /\ noted'.shared = noted.shared \cup shared
  BY <1>1 DEF PullShape
<1>7. \A b : Clean(b)' => Clean(b) /\ b \notin shared
  BY <1>6 DEF Clean
<1>8. shared \subseteq Blobs
  BY <1>3 DEF shared
<1>9. PullShape'
  BY <1>1, <1>6, <1>8 DEF PullShape
<1>10. ASSUME NEW b \in job[j].layers, b \notin wanted, Clean(b) PROVE disk[b].blob = Whole
  BY <1>3, <1>10 DEF Missing, PullInv
<1>11. \A w \in PullTasks : w[1] = j => ~ Active(w)
  BY <1>1 DEF PullInv, Own, AtWork
<1>12. ASSUME NEW w \in PullTasks PROVE Own(w)'
  <2>0. w \in Tasks /\ w[1] \in Jobs
    BY TaskIs DEF PullTasks
  <2>1. Own(w)
    BY DEF PullInv
  <2>2. CASE w[1] # j
    <3>1. /\ task'[w] = task[w] /\ job'[w[1]].phase = job[w[1]].phase
          /\ job'[w[1]].layers = job[w[1]].layers
      BY <1>2, <2>0, <2>2 DEF JobGoes
    <3> QED
      BY <1>1, <1>7, <2>1, <3>1 DEF Own, AtWork, Active, Fetching, Received, Fetched
  <2>3. CASE w[1] = j
    <3>1. task'[w].pc \in {"none", "queued"} /\ (task'[w].pc = "queued" <=> w[2] \in wanted)
      BY <1>2, <1>4, <2>0, <2>3
    <3>2. fetch[w].fd = "none" /\ fetch[w].from = 0 /\ fetch[w].cause = "none"
      <4>1. task[w].pc \in Starting
        BY <1>11, <2>3 DEF Active, Resting, Starting
      <4> QED
        BY <2>0, <2>1, <4>1, StartingTasks DEF Own
    <3>3. Active(w)' => job'[j].phase = "running"
      BY <1>2, <3>1 DEF Active, Resting
    <3>4. AtWork(w)'
      BY <1>1, <2>3, <3>1, <3>2, <3>3 DEF AtWork, Waiting
    <3>5. Clean(w[2])' => Fetched(w)'
      BY <1>1, <1>2, <1>7, <1>10, <2>3, <3>1 DEF Fetched, JobGoes
    <3>6. Fetching(w)'
      BY <3>1 DEF Fetching
    <3> QED
      BY <3>4, <3>5, <3>6 DEF Own
  <2> QED
    BY <2>2, <2>3
<1>13. ASSUME NEW v \in PullTasks, NEW w \in PullTasks, v # w, v[2] = w[2], Active(v)', Active(w)'
       PROVE  w[2] \in noted'.shared
  <2>0. v \in Tasks /\ w \in Tasks /\ v = <<v[1], v[2]>> /\ w = <<w[1], w[2]>> /\ v[1] \in Jobs /\ w[1] \in Jobs
    BY TaskIs DEF PullTasks
  <2>1. v[1] # w[1]
    BY <1>13, <2>0
  <2>2. CASE v[1] # j /\ w[1] # j
    <3>1. Active(v) /\ Active(w)
      BY <1>2, <1>13, <2>0, <2>2 DEF JobGoes, Active
    <3> QED
      BY <1>6, <1>13, <3>1 DEF PullInv, Unshared
  <2>3. \A x, y \in PullTasks : x \in Tasks /\ y \in Tasks /\ x[1] = j /\ y[1] # j /\ x[2] = y[2]
                                /\ Active(x)' /\ Active(y)' => x[2] \in shared
    <3> SUFFICES ASSUME NEW x \in PullTasks, NEW y \in PullTasks, x \in Tasks, y \in Tasks,
                        x[1] = j, y[1] # j, x[2] = y[2], Active(x)', Active(y)'
                 PROVE  x[2] \in shared
      OBVIOUS
    <3>1. x[2] \in wanted
      BY <1>2, <1>4 DEF Active, Resting
    <3>2. Active(y)
      BY <1>2 DEF JobGoes, Active
    <3>3. y[1] \in Jobs /\ y = <<y[1], x[2]>> /\ job[y[1]].kind = "pull"
      BY TaskIs DEF PullTasks
    <3>4. job[y[1]].phase = "running"
      BY <3>2 DEF PullInv, Own, AtWork
    <3>5. task[<<y[1], x[2]>>].pc \notin {"none", "ended"}
      BY <3>2, <3>3 DEF Active, Resting
    <3> QED
      BY <3>1, <3>3, <3>4, <3>5 DEF shared
  <2> QED
    BY <1>6, <1>13, <2>0, <2>1, <2>2, <2>3
<1>14. Unshared'
  BY <1>5, <1>13 DEF Unshared
<1>15. \A b \in Blobs : Clean(b)' => disk'[b].blob \in {None, Whole}
  BY <1>1, <1>7 DEF PullInv
<1>16. ASSUME NEW i \in Jobs, i \in installed' \/ (job'[i].kind = "pull" /\ job'[i].phase = "manifest")
       PROVE  Entire(i)'
  <2>1. Entire(i)
    <3>1. CASE i \in installed \/ i # j
      BY <1>1, <1>2, <1>16, <3>1 DEF PullInv, JobGoes
    <3>2. CASE i = j /\ i \notin installed
      <4>1. wanted = {}
        BY <1>1, <1>2, <1>16, <3>2
      <4> QED
        BY <1>10, <3>2, <4>1 DEF Entire
    <3> QED
      BY <3>1, <3>2
  <2> QED
    BY <1>1, <1>2, <1>7, <2>1 DEF Entire, JobGoes
<1>17. \A w \in Tasks \ PullTasks : fetch'[w].fd = "none"
  BY <1>1 DEF PullInv
<1> QED
  BY <1>5, <1>9, <1>12, <1>14, <1>15, <1>16, <1>17 DEF PullInv

\* A restart spares the blobs that manifests name.
LEMMA RestartKeeps ==
  ASSUME Shape, PullShape, TokenInv, PullInv, Restart
  PROVE  PullShape' /\ PullInv'
<1>1. /\ \A i \in Jobs : /\ job'[i].kind = job[i].kind /\ job'[i].layers = job[i].layers
                         /\ job'[i].phase = IF job[i].phase = "ok" THEN "ok" ELSE "idle"
      /\ \A w \in Tasks : task'[w] = IF job[w[1]].phase = "ok" THEN task[w] ELSE NewTask
  BY RestartGoes
<1>2. fetch' = [w \in Tasks |-> NewFetch] /\ UNCHANGED <<installed, noted>>
  BY DEF Restart, PullRestart
<1>3. PICK young \in SUBSET (Blobs \X {"tmp", "blob"}) :
        disk' = [b \in Blobs |->
                   [tmp  |-> IF <<b, "tmp">> \in young THEN disk[b].tmp ELSE None,
                    blob |-> IF <<b, "blob">> \in young \/ Named(b) THEN disk[b].blob ELSE None]]
  BY DEF Restart, PullRestart
<1>4. \A b \in Blobs : /\ disk'[b] \in [tmp : File, blob : File]
                       /\ disk'[b].blob \in {None, disk[b].blob}
                       /\ Named(b) => disk'[b].blob = disk[b].blob
  BY <1>3 DEF PullShape, File
<1>5. NewFetch.fd = "none" /\ NewFetch.from = 0 /\ NewFetch.cause = "none"
  BY DEF NewFetch
<1>6. PullShape'
  <2>1. disk' \in [Blobs -> [tmp : File, blob : File]]
    BY <1>3, <1>4
  <2> QED
    BY <1>2, <1>5, <2>1, NewTyped DEF PullShape
<1>7. PullTasks' = PullTasks
  BY <1>1, TaskIs DEF PullTasks
<1>8. \A w \in Tasks : task'[w].pc \in Resting
  <2>1. NewTask.pc = "none"
    BY DEF NewTask
  <2> QED
    BY <1>1, <2>1 DEF TokenInv, Asks, Resting
<1>9. ASSUME NEW w \in PullTasks PROVE Own(w)'
  <2>0. w \in Tasks /\ w[1] \in Jobs
    BY TaskIs DEF PullTasks
  <2>1. AtWork(w)'
    BY <1>2, <1>5, <1>8, <2>0 DEF AtWork, Active, Resting, Waiting
  <2>2. Fetching(w)' /\ Fetched(w)'
    BY <1>1, <1>8, <2>0 DEF Fetching, Fetched, Resting
  <2> QED
    BY <2>1, <2>2 DEF Own
<1>10. Unshared'
  BY <1>7, <1>8 DEF Unshared, Active, PullTasks
<1>11. \A b \in Blobs : Clean(b)' => disk'[b].blob \in {None, Whole}
  BY <1>2, <1>4 DEF PullInv, Clean
<1>12. ASSUME NEW i \in Jobs, i \in installed' \/ (job'[i].kind = "pull" /\ job'[i].phase = "manifest")
       PROVE  Entire(i)'
  <2>1. i \in installed /\ Entire(i) /\ job[i].layers \subseteq Blobs
    BY <1>1, <1>2, <1>12 DEF PullInv, Shape, JobType
  <2>2. \A b \in job[i].layers : disk'[b].blob = disk[b].blob
    BY <1>4, <2>1 DEF Named
  <2> QED
    BY <1>1, <1>2, <2>1, <2>2 DEF Entire, Clean
<1>13. \A w \in Tasks \ PullTasks : fetch'[w].fd = "none"
  BY <1>2, <1>5
<1> QED
  BY <1>6, <1>7, <1>9, <1>10, <1>11, <1>12, <1>13 DEF PullInv

LEMMA PullInvInit == TensorInit => PullInv
<1> SUFFICES ASSUME TensorInit PROVE PullInv
  OBVIOUS
<1>1. Shape /\ \A w \in Tasks : task[w].pc = "none"
  BY TypesInit DEF TensorInit, TransferInit, NewTask
<1>2. \A j \in Jobs : job[j].phase = "idle"
  BY DEF TensorInit, TransferInit
<1>3. /\ \A w \in Tasks : fetch[w].fd = "none" /\ fetch[w].from = 0 /\ fetch[w].cause = "none"
      /\ \A b \in Blobs : disk[b].blob = None
      /\ installed = {}
  BY DEF TensorInit, PullInit, NewFetch
<1>4. ASSUME NEW w \in PullTasks PROVE Own(w)
  <2>1. w \in Tasks /\ w[1] \in Jobs
    BY TaskIs DEF PullTasks
  <2>2. AtWork(w)
    BY <1>1, <1>3, <2>1 DEF AtWork, Active, Resting, Waiting
  <2> QED
    BY <1>1, <1>2, <2>1, <2>2 DEF Own, Fetching, Fetched
<1>5. Unshared
  BY <1>1 DEF Unshared, Active, Resting, PullTasks
<1> QED
  BY <1>2, <1>3, <1>4, <1>5 DEF PullInv

-----------------------------------------------------------------------------
(* Pushes: every step.                                                       *)

LEMMA PushInvInit == TensorInit => PushInv
<1> SUFFICES ASSUME TensorInit PROVE PushInv
  OBVIOUS
<1>1. \A w \in Tasks : task[w].pc = "none"
  BY DEF TensorInit, TransferInit, NewTask
<1>2. \A j \in Jobs : job[j].phase = "idle"
  BY DEF TensorInit, TransferInit
<1>3. registry.manifests = {}
  BY DEF TensorInit, PushInit
<1>4. \A w \in PushTasks : Sent(w)
  BY <1>1 DEF PushTasks, Sent, Committing, Waiting
<1> QED
  BY <1>2, <1>3, <1>4 DEF PushInv, PushedIsComplete

\* What leaves pushes and the registry alone.
LEMMA PushRests ==
  ASSUME Shape, PushShape, PushInv, UNCHANGED pushVars,
         \A i \in Jobs : /\ job'[i].kind = job[i].kind /\ job'[i].layers = job[i].layers
                         /\ job[i].kind = "push" => job'[i].phase = job[i].phase,
         \A w \in PushTasks : task'[w] = task[w]
  PROVE  PushShape' /\ PushInv'
<1>1. UNCHANGED <<send, registry, marked>>
  BY DEF pushVars
<1>2. PushTasks' = PushTasks
  BY TaskIs DEF PushTasks
<1>3. ASSUME NEW w \in PushTasks PROVE Sent(w)'
  <2>1. Sent(w)
    BY DEF PushInv
  <2> QED
    BY <1>1, <2>1 DEF Sent, Known, Complete
<1>4. PushedIsComplete'
  <2>1. registry.manifests \subseteq Jobs
    BY DEF PushShape
  <2> QED
    BY <1>1, <2>1 DEF PushInv, PushedIsComplete
<1> QED
  BY <1>1, <1>2, <1>3, <1>4 DEF PushShape, PushInv, Known

LEMMA PushTaskKeeps ==
  ASSUME Shape, PushShape, TokenInv, PushInv, NEW w \in PushTasks, PushStep(w) \/ PushFault(w)
  PROVE  PushShape' /\ PushInv'
<1>0. w \in Tasks /\ Sent(w)
  BY DEF PushTasks, PushInv
<1>1. PlaceStep(w)
  BY <1>0, PushTaskSteps, PlaceSteps
<1>2. SendStep(w)
  BY <1>0, PushSends
<1>3. PushShape'
  <2>1. send' \in [Tasks -> SendType]
    BY <1>0, <1>2 DEF SendStep, PushShape
  <2> QED
    BY <1>2, <2>1 DEF SendStep, PushShape
<1>4. PushTasks' = PushTasks
  BY <1>1, TaskIs DEF PushTasks, PlaceStep
<1>5. Known \subseteq Known'
  BY <1>2 DEF Known, SendStep
<1>6. ASSUME NEW v \in PushTasks PROVE Sent(v)'
  <2>1. CASE v = w
    BY <1>2, <2>1 DEF SendStep
  <2>2. CASE v # w
    <3>1. task'[v] = task[v] /\ send'[v] = send[v]
      BY <1>0, <1>1, <1>2, <2>2 DEF PlaceStep, SendStep, PushShape, PushTasks
    <3>2. Sent(v)
      BY DEF PushInv
    <3> QED
      BY <1>5, <3>1, <3>2 DEF Sent, Complete
  <2> QED
    BY <2>1, <2>2
<1>7. \A j \in Jobs : job'[j].kind = "push" /\ job'[j].phase \in {"manifest", "ok"} =>
                        job'[j].layers \subseteq Known'
  BY <1>1, <1>5 DEF PushInv, PlaceStep
<1>8. PushedIsComplete'
  <2>1. registry.manifests \subseteq Jobs /\ registry'.manifests = registry.manifests
    BY <1>2 DEF PushShape, SendStep
  <2> QED
    BY <1>1, <1>2, <2>1 DEF PushInv, PushedIsComplete, PlaceStep, SendStep
<1> QED
  BY <1>3, <1>4, <1>6, <1>7, <1>8 DEF PushInv

\* A job of a push goes on; what its tasks tell stays true.
LEMMA PushGoes ==
  ASSUME Shape, PushShape, PushInv, NEW j \in Jobs, JobGoes(j),
         UNCHANGED marked, send' \in [Tasks -> SendType], registry'.stored = registry.stored,
         registry' \in [stored : SUBSET Blobs, manifests : SUBSET Jobs],
         registry'.manifests \subseteq registry.manifests \cup {j},
         \A w \in Tasks : \/ task'[w] = task[w] /\ send'[w] = send[w]
                         \/ task'[w].pc = "head",
         job'[j].phase \in {"manifest", "ok"} \/ j \in registry'.manifests \ registry.manifests
           => job[j].layers \subseteq Known
  PROVE  PushShape' /\ PushInv'
<1>1. PushShape'
  BY DEF PushShape
<1>2. PushTasks' = PushTasks
  BY TaskIs DEF PushTasks, JobGoes
<1>3. Known' = Known
  BY DEF Known
<1>4. ASSUME NEW w \in PushTasks PROVE Sent(w)'
  <2>0. w \in Tasks
    BY DEF PushTasks
  <2>1. CASE task'[w] = task[w] /\ send'[w] = send[w]
    <3>1. Sent(w)
      BY DEF PushInv
    <3> QED
      BY <1>3, <2>1, <3>1 DEF Sent, Complete
  <2>2. CASE task'[w].pc = "head"
    BY <2>2 DEF Sent, Committing, Waiting
  <2> QED
    BY <2>0, <2>1, <2>2
<1>5. \A i \in Jobs : job'[i].kind = "push" /\ job'[i].phase \in {"manifest", "ok"} =>
                        job'[i].layers \subseteq Known'
  BY <1>3 DEF PushInv, JobGoes
<1>6. PushedIsComplete'
  <2>1. \A i \in registry'.manifests : i \in Jobs /\ job'[i].layers = job[i].layers
    BY DEF JobGoes
  <2> QED
    BY <2>1 DEF PushInv, PushedIsComplete, Known
<1> QED
  BY <1>1, <1>2, <1>4, <1>5, <1>6 DEF PushInv

LEMMA PushJobKeeps ==
  ASSUME Shape, PushShape, TokenInv, PushInv, NEW j \in Jobs,
         Upload(j) \/ StartUploads(j) \/ UploadsEnd(j) \/ PushManifest(j)
  PROVE  /\ PushShape' /\ PushInv'
         /\ job[j].kind = "push" /\ JobGoes(j)
<1>0. registry \in [stored : SUBSET Blobs, manifests : SUBSET Jobs]
  BY DEF PushShape
<1>1. CASE Upload(j)
  <2>1. /\ UNCHANGED <<registry, marked>> /\ job[j].kind = "push"
        /\ send' = [w \in Tasks |-> IF w \in TasksOf(j) THEN NewSend ELSE send[w]]
    BY <1>1 DEF Upload
  <2>2. send' \in [Tasks -> SendType]
    BY <2>1, NewTyped DEF PushShape
  <2>3. \A w \in Tasks : \/ task'[w] = task[w] /\ send'[w] = send[w]
                        \/ task'[w].pc = "head"
    BY <1>1, <2>1 DEF Upload, NewTask
  <2> QED
    BY <1>0, <1>1, <2>1, <2>2, <2>3, UploadGoes, PushGoes
<1>2. CASE StartUploads(j)
  <2>1. UNCHANGED pushVars /\ job[j].kind = "push"
    BY <1>2 DEF StartUploads
  <2>2. send' \in [Tasks -> SendType] /\ UNCHANGED <<task, send, registry, marked>>
    BY <1>2, <2>1 DEF pushVars, StartUploads, PushShape
  <2> QED
    BY <1>0, <1>2, <2>1, <2>2, StartGoes, PushGoes
<1>3. CASE UploadsEnd(j)
  <2> DEFINE failed == \E w \in TasksOf(j) : task[w].err # "none"
  <2>1. /\ UNCHANGED <<task, send, registry, marked>> /\ job[j].kind = "push"
        /\ job' = [job EXCEPT ![j].phase = IF failed THEN "failed" ELSE "manifest"]
        /\ \A w \in TasksOf(j) : task[w].pc \in {"checked", "ended"}
    BY <1>3 DEF UploadsEnd, pushVars
  <2> HIDE DEF failed
  <2>2. JobGoes(j) /\ job'[j].phase = IF failed THEN "failed" ELSE "manifest"
    BY <2>1, PhaseGoes
  <2>3. ASSUME ~ failed, NEW b \in job[j].layers PROVE b \in Known
    <3> DEFINE w == <<j, b>>
    <3>1. w \in TasksOf(j) /\ w \in Tasks /\ w[1] = j /\ w[2] = b
      BY DEF TasksOf, Tasks, Shape, JobType
    <3>2. w \in PushTasks
      BY <2>1, <3>1 DEF PushTasks
    <3> HIDE DEF w
    <3>3. task[w].err = "none" /\ task[w].pc \in {"checked", "ended"}
      BY <2>1, <2>3, <3>1 DEF failed
    <3> QED
      BY <3>1, <3>2, <3>3 DEF PushInv, Sent
  <2>4. send' \in [Tasks -> SendType]
    BY <2>1 DEF PushShape
  <2> QED
    BY <1>0, <2>1, <2>2, <2>3, <2>4, PushGoes
<1>4. CASE PushManifest(j)
  <2>1. /\ UNCHANGED <<task, send, marked>> /\ job[j].kind = "push" /\ job[j].phase = "manifest"
        /\ \/ registry' = [registry EXCEPT !.manifests = @ \cup {j}]
           \/ UNCHANGED registry
    BY <1>4 DEF PushManifest
  <2>2. job[j].layers \subseteq Known
    BY <2>1 DEF PushInv
  <2>3. /\ registry' \in [stored : SUBSET Blobs, manifests : SUBSET Jobs]
        /\ registry'.stored = registry.stored
        /\ registry'.manifests \subseteq registry.manifests \cup {j}
    BY <1>0, <2>1
  <2>4. JobGoes(j)
    <3>1. CASE \E phase \in {"ok", "failed"} : job' = [job EXCEPT ![j].phase = phase]
      BY <2>1, <3>1, PhaseGoes
    <3>2. CASE job' = [job EXCEPT ![j].token = @ + 1]
      BY <2>1, <3>2 DEF Shape, JobType, JobGoes
    <3> QED
      BY <1>4, <3>1, <3>2 DEF PushManifest
  <2>5. send' \in [Tasks -> SendType]
    BY <2>1 DEF PushShape
  <2> QED
    BY <2>1, <2>2, <2>3, <2>4, <2>5, PushGoes
<1> QED
  BY <1>1, <1>2, <1>3, <1>4

LEMMA PushRestartKeeps ==
  ASSUME Shape, PushShape, TokenInv, PushInv, Restart
  PROVE  PushShape' /\ PushInv'
<1>1. /\ \A i \in Jobs : /\ job'[i].kind = job[i].kind /\ job'[i].layers = job[i].layers
                         /\ job'[i].phase = IF job[i].phase = "ok" THEN "ok" ELSE "idle"
      /\ \A w \in Tasks : task'[w] = IF job[w[1]].phase = "ok" THEN task[w] ELSE NewTask
  BY RestartGoes
<1>2. send' = [w \in Tasks |-> NewSend] /\ UNCHANGED <<registry, marked>>
  BY DEF Restart, PushRestart
<1>3. PushShape'
  BY <1>2, NewTyped DEF PushShape
<1>4. PushTasks' = PushTasks
  BY <1>1, TaskIs DEF PushTasks
<1>5. ASSUME NEW w \in PushTasks PROVE Sent(w)'
  <2>0. w \in Tasks /\ w[1] \in Jobs /\ NewTask.pc = "none"
    BY TaskIs DEF PushTasks, NewTask
  <2>1. CASE job[w[1]].phase = "ok"
    <3>1. task'[w] = task[w] /\ task[w].pc \in Resting /\ Sent(w)
      BY <1>1, <2>0, <2>1 DEF TokenInv, Asks, PushInv
    <3> QED
      BY <1>2, <3>1 DEF Sent, Known, Resting, Committing, Waiting
  <2>2. CASE job[w[1]].phase # "ok"
    BY <1>1, <2>0, <2>2 DEF Sent, Committing, Waiting
  <2> QED
    BY <2>1, <2>2
<1>6. PushedIsComplete'
  <2>1. registry.manifests \subseteq Jobs
    BY DEF PushShape
  <2> QED
    BY <1>1, <1>2, <2>1 DEF PushInv, PushedIsComplete
<1> QED
  BY <1>1, <1>2, <1>3, <1>4, <1>5, <1>6 DEF PushInv, Known

-----------------------------------------------------------------------------
(* All together.                                                             *)

TensorInv == Shape /\ PushShape /\ PullShape /\ TokenInv /\ PushInv /\ PullInv

LEMMA TensorInvInit == TensorInit => TensorInv
  BY TypesInit, TokenInit, PushInvInit, PullInvInit DEF TensorInv

\* The tasks of pulls are not those of pushes.
LEMMA Apart ==
  ASSUME Shape
  PROVE  \A v, w \in Tasks : v \in PullTasks /\ w \in PushTasks => v # w
  BY DEF PullTasks, PushTasks

LEMMA TaskKeeps ==
  ASSUME TensorInv, NEW w \in Tasks,
         \/ w \in PullTasks /\ (PullStep(w) \/ PullFault(w)) /\ UNCHANGED pushVars
         \/ w \in PushTasks /\ (PushStep(w) \/ PushFault(w)) /\ UNCHANGED pullVars
  PROVE  TensorInv'
<1> USE DEF TensorInv
<1>1. \/ TaskStep(w) /\ JobStep(w)
      \/ RefreshToken(w) \/ GetToken(w)
  BY PullTaskSteps, PushTaskSteps
<1>2. Shape' /\ TokenInv'
  BY <1>1, TokenKept, RefreshKeeps, GetTokenKeeps
<1>3. PlaceStep(w)
  BY <1>1, PlaceSteps
<1>4. CASE w \in PullTasks /\ (PullStep(w) \/ PullFault(w)) /\ UNCHANGED pushVars
  <2>1. PullShape' /\ PullInv'
    BY <1>4, PullTaskKeeps
  <2>2. \A v \in PushTasks : task'[v] = task[v]
    BY <1>3, <1>4, Apart DEF PlaceStep, PushTasks
  <2>3. PushShape' /\ PushInv'
    BY <1>3, <1>4, <2>2, PushRests DEF PlaceStep
  <2> QED
    BY <1>2, <2>1, <2>3
<1>5. CASE w \in PushTasks /\ (PushStep(w) \/ PushFault(w)) /\ UNCHANGED pullVars
  <2>1. PushShape' /\ PushInv'
    BY <1>5, PushTaskKeeps
  <2>2. \A v \in PullTasks : task'[v] = task[v]
    BY <1>3, <1>5, Apart DEF PlaceStep, PullTasks
  <2>3. PullShape' /\ PullInv'
    BY <1>3, <1>5, <2>2, PullRests DEF PlaceStep
  <2> QED
    BY <1>2, <2>1, <2>3
<1> QED
  BY <1>4, <1>5

LEMMA PullJobKeeps ==
  ASSUME TensorInv, NEW j \in Jobs, Download(j) \/ Wait(j) \/ WriteManifest(j), UNCHANGED pushVars
  PROVE  TensorInv'
<1> USE DEF TensorInv
<1>1. Shape' /\ TokenInv'
  BY DownloadTokens, WaitTokens
<1>2. PullShape' /\ PullInv'
  BY DownloadKeeps, WaitKeeps, WriteManifestKeeps
<1>3. job[j].kind = "pull" /\ JobGoes(j)
  <2>1. CASE Download(j)
    BY <2>1, DownloadGoes DEF Download
  <2>2. CASE Wait(j)
    BY <2>2, PhaseGoes DEF Wait
  <2>3. CASE WriteManifest(j)
    BY <2>3, PhaseGoes DEF WriteManifest
  <2> QED
    BY <2>1, <2>2, <2>3
<1>4. \A w \in PushTasks : task'[w] = task[w]
  BY <1>3 DEF PushTasks, JobGoes
<1>5. PushShape' /\ PushInv'
  BY <1>3, <1>4, PushRests DEF JobGoes
<1> QED
  BY <1>1, <1>2, <1>5

LEMMA OtherJobKeeps ==
  ASSUME TensorInv, NEW j \in Jobs,
         \/ (Upload(j) \/ StartUploads(j) \/ UploadsEnd(j) \/ PushManifest(j)) /\ UNCHANGED pullVars
         \/ (TokenExpires(j) \/ ClientLeaves(j)) /\ UNCHANGED <<pullVars, pushVars>>
  PROVE  TensorInv'
<1> USE DEF TensorInv
<1>1. CASE (Upload(j) \/ StartUploads(j) \/ UploadsEnd(j) \/ PushManifest(j)) /\ UNCHANGED pullVars
  <2>1. Shape' /\ TokenInv'
    BY <1>1, UploadTokens, StartTokens, WaitTokens, ManifestTokens
  <2>2. PushShape' /\ PushInv' /\ job[j].kind = "push" /\ JobGoes(j)
    BY <1>1, PushJobKeeps
  <2>3. \A w \in PullTasks : task'[w] = task[w]
    BY <2>2 DEF PullTasks, JobGoes
  <2>4. PullShape' /\ PullInv'
    BY <1>1, <2>2, <2>3, PullRests DEF JobGoes
  <2> QED
    BY <2>1, <2>2, <2>4
<1>2. CASE (TokenExpires(j) \/ ClientLeaves(j)) /\ UNCHANGED <<pullVars, pushVars>>
  <2>1. Shape' /\ TokenInv'
    BY <1>2, ExpiryTokens, LeavingTokens
  <2>2. /\ \A i \in Jobs : /\ job'[i].kind = job[i].kind /\ job'[i].layers = job[i].layers
                           /\ job'[i].phase = job[i].phase
        /\ UNCHANGED task
    BY <1>2, OutsideGoes
  <2>3. PullShape' /\ PullInv'
    BY <1>2, <2>2, PullRests
  <2>4. PushShape' /\ PushInv'
    BY <1>2, <2>2, PushRests
  <2> QED
    BY <2>1, <2>3, <2>4
<1> QED
  BY <1>1, <1>2

LEMMA TensorInvStep == TensorInv /\ [TensorNext]_tensorVars => TensorInv'
<1> SUFFICES ASSUME TensorInv, [TensorNext]_tensorVars PROVE TensorInv'
  OBVIOUS
<1>1. CASE PullNext /\ UNCHANGED pushVars
  BY <1>1, PullJobKeeps, TaskKeeps DEF PullNext, PullTasks
<1>2. CASE PushNext /\ UNCHANGED pullVars
  BY <1>2, OtherJobKeeps, TaskKeeps DEF PushNext, PushTasks
<1>3. CASE (\E j \in Jobs : TokenExpires(j) \/ ClientLeaves(j)) /\ UNCHANGED <<pullVars, pushVars>>
  BY <1>3, OtherJobKeeps
<1>4. CASE Restart
  BY <1>4, RestartTokens, RestartKeeps, PushRestartKeeps DEF TensorInv
<1>5. CASE UNCHANGED tensorVars
  BY <1>5 DEF tensorVars, transferVars, pullVars, pushVars, TensorInv, Shape, PushShape, PullShape,
              TokenInv, Alone, TokensAreShared, Asks, PushInv, Sent, Known, Complete, PushedIsComplete,
              PushTasks, PullInv, PullTasks, Own, AtWork, Active, Fetching, Received, Fetched, Clean,
              Unshared, Entire
<1> QED
  BY <1>1, <1>2, <1>3, <1>4, <1>5 DEF TensorNext

\* What holds in every state of the transfers: the shape of jobs, tasks, files
\* and of the registry, what tasks know of tokens (TokenInv), what the tasks of
\* pushes have sent (PushInv) and what those of pulls have written (PullInv).
THEOREM TensorInvariance == TensorSpec => []TensorInv
<1> QED
  BY TensorInvInit, TensorInvStep, PTL DEF TensorSpec

\* Tasks whose requests are refused together get one new token among them
\* (tokenMu in getOrRefreshToken).
THEOREM TokensShared == TensorSpec => []TokensAreShared
<1>1. TensorInv => TokensAreShared
  BY DEF TensorInv, TokenInv
<1> QED
  BY <1>1, TensorInvariance, PTL

\* A manifest is pushed after all its blobs, whatever fails, is retried or
\* restarted (pushWithTransfer, transfer.Upload).
THEOREM PushIsComplete == TensorSpec => []PushedIsComplete
<1>1. TensorInv => PushedIsComplete
  BY DEF TensorInv, PushInv
<1> QED
  BY <1>1, TensorInvariance, PTL

\* A model that was pulled has its blobs whole, whatever was cut short,
\* continued, wrong or restarted (downloader.download, save, copy).
THEOREM PullIsWhole == TensorSpec => []PulledIsWhole
<1>1. TensorInv => PulledIsWhole
  BY DEF TensorInv, PullInv, PullShape, Entire, Clean, PulledIsWhole
<1> QED
  BY <1>1, TensorInvariance, PTL

-----------------------------------------------------------------------------
(* Counting: what the tasks report and what their job has counted.           *)

\* Where a task goes on, when its token is refreshed.
Where(w) == IF task[w].pc \in Waiting THEN task[w].back ELSE task[w].pc

Slots == {"resolve", "stat", "ask", "open", "read", "drain", "verify", "rename",
          "put", "patch", "cdn", "part"}

TaskBounds(w) ==
  task[w].attempt \in 0 .. MaxRetries /\ task[w].n \in 0 .. Size + 1 /\ task[w].prev \in Nat
SendBounds(w) ==
  /\ send[w].inits \in 0 .. MaxInitRetries /\ send[w].tries \in 0 .. MaxRetries
  /\ send[w].landed \in 0 .. Size /\ send[w].part \in 0 .. Size + 1
FetchBounds(w) ==
  /\ fetch[w].from \in 0 .. Size /\ fetch[w].base \in 0 .. Size /\ fetch[w].off \in 0 .. Size + 1
  /\ fetch[w].slow \in Nat

Slotted(w) ==
  /\ task[w].slot <=> Where(w) \in Slots
  /\ task[w].pc \in Waiting =>
       task[w].back \in {"head", "init", "commit", "finalize", "part", "resolve"}

\* What is reported, n, fits the step: s is what a push keeps.
Fit(at, n, err, s) ==
  /\ at \in {"none", "queued", "checked", "head", "init", "resolve", "stat", "ask", "open", "backoff"}
       => n = 0
  /\ at = "hold" => s.part \in 0 .. Size /\ n = IF s.part = 0 THEN 0 ELSE s.part - 1
  /\ at = "put" => s.part = 0 /\ n <= Size
  /\ at \in {"patch", "cdn", "part"} => s.part \in 1 .. Size /\ n \in {s.part - 1, s.part}
  /\ at \in {"hold", "patch", "cdn", "part"} /\ s.part # 0 => s.tries < MaxPartRetries
  /\ at \in {"commit", "finalize", "rename"} => n = Size
  /\ at = "ended" /\ err = "none" => n = Size

Reports(w) == Fit(Where(w), task[w].n, task[w].err, send[w])

\* A body begins no earlier than what is there ends.
Offsets(w) ==
  /\ task[w].pc \notin {"ask", "settle"} => fetch[w].from <= fetch[w].base
  /\ task[w].pc = "read" => fetch[w].off <= task[w].n

Measured(w) ==
  /\ TaskBounds(w) /\ SendBounds(w) /\ FetchBounds(w) /\ Slotted(w) /\ Reports(w)
  /\ w \in PullTasks => Offsets(w) /\ send[w].part = 0

\* The sum of what the blobs of L have reported, as a number of units.
Sum(L, n) == Cardinality({x \in L \X (1 .. Size + 1) : x[2] <= n[x[1]]})
Reported(j) == [b \in job[j].layers |-> task[<<j, b>>].n]
Settled(j) == {b \in job[j].layers : task[<<j, b>>].pc \in {"none", "checked"}}
Ruined(j) == \E w \in TasksOf(j) : task[w].pc = "ended" /\ task[w].err # "none"

Booked(j) ==
  LET r == job[j] IN
  /\ r.already \in Nat /\ r.token \in Nat /\ r.valid \in Nat
  /\ r.kind = "pull" => r.phase # "checking"
  /\ r.phase = "checking" =>
       \A w \in TasksOf(j) : \/ Where(w) \in {"head", "queued", "checked"}
                             \/ task[w].pc = "ended" /\ task[w].err # "none"
  /\ r.phase = "running" =>
       /\ r.already = Cardinality(Settled(j)) * Size
       /\ \A w \in TasksOf(j) : Where(w) # "head"
       /\ j \in marked.readOn \/ Ruined(j) \/ r.completed = r.already + Sum(r.layers, Reported(j))
  /\ r.phase \in {"manifest", "ok"} =>
       j \in marked.readOn \/ r.completed = 0 \/ r.completed = Cardinality(r.layers) * Size

Counting == (\A w \in Tasks : Measured(w)) /\ (\A j \in Jobs : Booked(j)) /\ faults \in Nat

-----------------------------------------------------------------------------
(* Sums.                                                                     *)

LEMMA SumIsFinite ==
  ASSUME NEW L, IsFiniteSet(L), NEW n
  PROVE  /\ IsFiniteSet({x \in L \X (1 .. Size + 1) : x[2] <= n[x[1]]})
         /\ Sum(L, n) \in Nat
<1>1. IsFiniteSet(1 .. Size + 1)
  BY FS_Interval, SizeIs
<1>2. IsFiniteSet(L \X (1 .. Size + 1))
  BY <1>1, FS_Product
<1>3. {x \in L \X (1 .. Size + 1) : x[2] <= n[x[1]]} \in SUBSET (L \X (1 .. Size + 1))
  OBVIOUS
<1> QED BY <1>2, <1>3, FS_Subset, FS_CardinalityType DEF Sum

\* When one blob has more, the sum grows by as much.
LEMMA SumGrows ==
  ASSUME NEW L, IsFiniteSet(L), NEW p \in L, NEW m, NEW n,
         m[p] \in 0 .. Size + 1, n[p] \in 0 .. Size + 1, m[p] <= n[p],
         \A q \in L : q # p => n[q] = m[q]
  PROVE  Sum(L, n) = Sum(L, m) + (n[p] - m[p])
<1> DEFINE S == {x \in L \X (1 .. Size + 1) : x[2] <= n[x[1]]}
           T == {x \in L \X (1 .. Size + 1) : x[2] <= m[x[1]]}
           D == {p} \X (m[p] + 1 .. n[p])
<1>1. m[p] \in Nat /\ n[p] \in Nat /\ m[p] <= Size + 1 /\ n[p] <= Size + 1 /\ Size \in Nat
  BY SizeIs
<1>2. S = T \cup D
  BY <1>1
<1>3. T \cap D = {}
  BY <1>1
<1>4. IsFiniteSet(D) /\ Cardinality(D) = n[p] - m[p]
  <2>0. m[p] + 1 \in Int /\ n[p] \in Int
    BY <1>1
  <2>1. IsFiniteSet(m[p] + 1 .. n[p]) /\ Cardinality(m[p] + 1 .. n[p]) = n[p] - m[p]
    <3>1. /\ IsFiniteSet(m[p] + 1 .. n[p])
          /\ Cardinality(m[p] + 1 .. n[p]) =
               IF m[p] + 1 > n[p] THEN 0 ELSE n[p] - (m[p] + 1) + 1
      BY <2>0, FS_Interval
    <3> QED BY <1>1, <3>1
  <2>2. IsFiniteSet({p}) /\ Cardinality({p}) = 1
    BY FS_Singleton
  <2>3. IsFiniteSet(D) /\ Cardinality(D) = Cardinality({p}) * Cardinality(m[p] + 1 .. n[p])
    BY <2>1, <2>2, FS_Product
  <2> QED BY <1>1, <2>1, <2>2, <2>3
<1>5. IsFiniteSet(T) /\ Sum(L, m) \in Nat /\ Sum(L, m) = Cardinality(T)
  BY SumIsFinite DEF Sum
<1>6. Cardinality(T \cap D) = 0
  BY <1>3, FS_EmptySet
<1>8. Sum(L, n) = Cardinality(S)
  BY DEF Sum
<1> HIDE DEF D, T, S
<1>7. Cardinality(T \cup D) = Cardinality(T) + Cardinality(D) - Cardinality(T \cap D)
  BY <1>4, <1>5, FS_Union
<1> QED BY <1>1, <1>2, <1>4, <1>5, <1>6, <1>7, <1>8

\* When one blob changes, the sum changes by as much.
LEMMA SumMoves ==
  ASSUME NEW L, IsFiniteSet(L), NEW p \in L, NEW m, NEW n,
         m[p] \in 0 .. Size + 1, n[p] \in 0 .. Size + 1,
         \A q \in L : q # p => n[q] = m[q]
  PROVE  Sum(L, n) = Sum(L, m) + (n[p] - m[p])
<1>1. m[p] \in Nat /\ n[p] \in Nat
  BY SizeIs
<1>2. CASE m[p] <= n[p]
  BY <1>1, <1>2, SumGrows
<1>3. CASE n[p] <= m[p]
  <2>1. Sum(L, m) = Sum(L, n) + (m[p] - n[p])
    <3>1. \A q \in L : q # p => m[q] = n[q]
      OBVIOUS
    <3> QED BY <1>1, <1>3, <3>1, SumGrows
  <2>2. Sum(L, m) \in Nat /\ Sum(L, n) \in Nat
    BY SumIsFinite
  <2> QED BY <1>1, <2>1, <2>2
<1> QED BY <1>1, <1>2, <1>3

LEMMA SumOfEqual ==
  ASSUME NEW L, NEW m, NEW n, \A q \in L : n[q] = m[q]
  PROVE  Sum(L, n) = Sum(L, m)
<1>1. {x \in L \X (1 .. Size + 1) : x[2] <= n[x[1]]} = {x \in L \X (1 .. Size + 1) : x[2] <= m[x[1]]}
  OBVIOUS
<1> QED BY <1>1 DEF Sum

\* Blobs are reported whole or not at all.
LEMMA SumOfWhole ==
  ASSUME NEW L, IsFiniteSet(L), NEW D \in SUBSET L, NEW n,
         \A q \in L : n[q] = IF q \in D THEN 0 ELSE Size
  PROVE  /\ Sum(L, n) = Cardinality(L \ D) * Size
         /\ Cardinality(D) * Size + Sum(L, n) = Cardinality(L) * Size
         /\ Cardinality(D) \in Nat
<1>0. Size \in Nat
  BY SizeIs
<1>1. {x \in L \X (1 .. Size + 1) : x[2] <= n[x[1]]} = (L \ D) \X (1 .. Size)
  BY <1>0
<1>2. IsFiniteSet(L \ D) /\ IsFiniteSet(D) /\ Cardinality(L \ D) \in Nat /\ Cardinality(D) \in Nat
  BY FS_Subset, FS_CardinalityType
<1>3. IsFiniteSet(1 .. Size) /\ Cardinality(1 .. Size) = Size
  <2>1. /\ IsFiniteSet(1 .. Size)
        /\ Cardinality(1 .. Size) = IF 1 > Size THEN 0 ELSE Size - 1 + 1
    BY <1>0, FS_Interval
  <2> QED BY <1>0, <2>1
<1>4. Sum(L, n) = Cardinality(L \ D) * Size
  <2>1. Cardinality((L \ D) \X (1 .. Size)) = Cardinality(L \ D) * Cardinality(1 .. Size)
    BY <1>2, <1>3, FS_Product
  <2> QED BY <1>1, <1>3, <2>1 DEF Sum
<1>5. Cardinality(L) = Cardinality(D) + Cardinality(L \ D)
  <2>1. L = D \cup (L \ D) /\ D \cap (L \ D) = {}
    OBVIOUS
  <2>2. Cardinality(D \cup (L \ D)) = Cardinality(D) + Cardinality(L \ D) - Cardinality(D \cap (L \ D))
    BY <1>2, FS_Union
  <2>3. Cardinality(D \cap (L \ D)) = 0
    BY <2>1, FS_EmptySet
  <2> QED BY <1>2, <2>1, <2>2, <2>3
<1>6. \A a, c, k \in Nat : a * k + c * k = (a + c) * k
  OBVIOUS
<1> QED BY <1>0, <1>2, <1>4, <1>5, <1>6

LEMMA LayersFinite ==
  ASSUME Shape, NEW j \in Jobs
  PROVE  IsFiniteSet(job[j].layers) /\ job[j].layers \subseteq Blobs
<1>1. job[j].layers \subseteq Blobs
  BY DEF Shape, JobType
<1> QED BY <1>1, TransferAssumption, FS_Subset

-----------------------------------------------------------------------------
(* What a step writes to a task and to its job, field by field.              *)

Becomes(w, pc, n, slot, err, attempt) ==
  /\ task'[w].pc = pc /\ task'[w].n = n /\ task'[w].slot = slot
  /\ task'[w].err = err /\ task'[w].attempt = attempt
  /\ task'[w].back = task[w].back /\ task'[w].prev = task[w].prev

LEMMA Written ==
  ASSUME Shape, NEW w \in Tasks, NEW pc, NEW n, NEW err, NEW attempt
  PROVE  /\ Goto(w, pc) =>
              Becomes(w, pc, task[w].n, task[w].slot, task[w].err, task[w].attempt)
         /\ task' = [task EXCEPT ![w] = [@ EXCEPT !.n = n]] =>
              Becomes(w, task[w].pc, n, task[w].slot, task[w].err, task[w].attempt)
         /\ task' = [task EXCEPT ![w] = [@ EXCEPT !.pc = pc, !.n = n]] =>
              Becomes(w, pc, n, task[w].slot, task[w].err, task[w].attempt)
         /\ task' = [task EXCEPT ![w] = [@ EXCEPT !.n = n, !.pc = pc, !.err = err]] =>
              Becomes(w, pc, n, task[w].slot, err, task[w].attempt)
         /\ task' = [task EXCEPT ![w] = [@ EXCEPT !.pc = pc, !.attempt = attempt, !.n = n,
                                         !.err = err]] =>
              Becomes(w, pc, n, task[w].slot, err, attempt)
<1>1. task[w] \in TaskType /\ task \in [Tasks -> TaskType]
  BY DEF Shape
<1> QED
  BY <1>1, ZenonT(120) DEF TaskType, Goto, Becomes

LEMMA WrittenSlot ==
  ASSUME Shape, NEW w \in Tasks, NEW pc, NEW n, NEW slot \in BOOLEAN, NEW err
  PROVE  /\ task' = [task EXCEPT ![w] = [@ EXCEPT !.pc = pc, !.slot = slot]] =>
              Becomes(w, pc, task[w].n, slot, task[w].err, task[w].attempt)
         /\ task' = [task EXCEPT ![w] = [@ EXCEPT !.pc = pc, !.slot = slot, !.n = n]] =>
              Becomes(w, pc, n, slot, task[w].err, task[w].attempt)
         /\ task' = [task EXCEPT ![w] = [@ EXCEPT !.pc = pc, !.slot = slot, !.err = err]] =>
              Becomes(w, pc, task[w].n, slot, err, task[w].attempt)
         /\ task' = [task EXCEPT ![w] = [@ EXCEPT !.pc = pc, !.err = err, !.slot = slot]] =>
              Becomes(w, pc, task[w].n, slot, err, task[w].attempt)
         /\ task' = [task EXCEPT ![w] = [@ EXCEPT !.pc = pc, !.err = err, !.slot = slot, !.n = n]] =>
              Becomes(w, pc, n, slot, err, task[w].attempt)
<1>1. task[w] \in TaskType /\ task \in [Tasks -> TaskType]
  BY DEF Shape
<1> QED
  BY <1>1, ZenonT(120) DEF TaskType, Becomes

LEMMA WrittenFailed ==
  ASSUME Shape, NEW w \in Tasks, NEW err
  PROVE  /\ task' = [task EXCEPT ![w] = Failed(w, err)] =>
              Becomes(w, "ended", task[w].n, FALSE, err, task[w].attempt)
         /\ task' = [task EXCEPT ![w] = [Failed(w, err) EXCEPT !.n = 0]] =>
              Becomes(w, "ended", 0, FALSE, err, task[w].attempt)
<1>1. task[w] \in TaskType /\ task \in [Tasks -> TaskType] /\ FALSE \in BOOLEAN
  BY DEF Shape
<1>2. ASSUME task' = [task EXCEPT ![w] = Failed(w, err)]
      PROVE  Becomes(w, "ended", task[w].n, FALSE, err, task[w].attempt)
  BY <1>1, <1>2, WrittenSlot DEF Failed
<1>3. ASSUME task' = [task EXCEPT ![w] = [Failed(w, err) EXCEPT !.n = 0]]
      PROVE  Becomes(w, "ended", 0, FALSE, err, task[w].attempt)
  <2>1. \A slot \in BOOLEAN :
          LET t == [task[w] EXCEPT !.pc = "ended", !.slot = slot, !.err = err] IN
          /\ [t EXCEPT !.n = 0].pc = "ended" /\ [t EXCEPT !.n = 0].n = 0
          /\ [t EXCEPT !.n = 0].slot = slot /\ [t EXCEPT !.n = 0].err = err
          /\ [t EXCEPT !.n = 0].attempt = task[w].attempt
          /\ [t EXCEPT !.n = 0].back = task[w].back /\ [t EXCEPT !.n = 0].prev = task[w].prev
    BY <1>1 DEF TaskType
  <2>2. task'[w] = [[task[w] EXCEPT !.pc = "ended", !.slot = FALSE, !.err = err] EXCEPT !.n = 0]
    BY <1>1, <1>3 DEF Failed
  <2> QED BY <1>1, <2>1, <2>2, Zenon DEF Becomes
<1> QED BY <1>2, <1>3

LEMMA WrittenFail ==
  ASSUME Shape, NEW w \in Tasks, NEW err, NEW pc, Fail(w, err, pc)
  PROVE  Becomes(w, pc, task[w].n, pc = "drain", err, task[w].attempt)
<1>1. (pc = "drain") \in BOOLEAN
  OBVIOUS
<1> QED BY <1>1, WrittenSlot DEF Fail

LEMMA WrittenFails ==
  ASSUME Shape, NEW w \in Tasks, NEW err, NEW late, FailsWith(w, err, late)
  PROVE  Becomes(w, "settle", IF send[w].part = 0 THEN task[w].n ELSE 0, FALSE, err, task[w].attempt)
<1> DEFINE reported == IF send[w].part = 0 THEN task[w].n ELSE 0
<1>1. task' = [task EXCEPT ![w] = [@ EXCEPT !.pc = "settle", !.err = err, !.slot = FALSE,
                           !.n = reported]]
  BY DEF FailsWith
<1> HIDE DEF reported
<1>2. FALSE \in BOOLEAN
  OBVIOUS
<1>3. Becomes(w, "settle", reported, FALSE, err, task[w].attempt)
  BY <1>1, <1>2, WrittenSlot
<1> QED BY <1>3 DEF reported

\* A request that is refused.
LEMMA WrittenRefused ==
  ASSUME Shape, NEW w \in Tasks, NEW back, Unauthorized(w, back)
  PROVE  /\ task'[w].pc = "refresh" /\ task'[w].back = back /\ task'[w].prev = job[w[1]].token
         /\ task'[w].n = task[w].n /\ task'[w].slot = task[w].slot
         /\ task'[w].err = task[w].err /\ task'[w].attempt = task[w].attempt
<1>1. task[w] \in TaskType /\ task \in [Tasks -> TaskType]
  BY DEF Shape
<1> QED BY <1>1 DEF TaskType, Unauthorized

\* What is added to the sum that a job reports.
Adds(w, k) == k \in Int /\ job'[w[1]].completed = job[w[1]].completed + k

LEMMA Added ==
  ASSUME Shape, NEW w \in Tasks
  PROVE  /\ UNCHANGED job => Adds(w, 0)
         /\ \A k \in Int : Add(w[1], k) => Adds(w, k)
         /\ job' = [job EXCEPT ![w[1]] = Cancelled(w[1])] => Adds(w, 0)
         /\ \A c \in Int : \A over :
              job' = [job EXCEPT ![w[1]] = [@ EXCEPT !.completed = c, !.cancelled = over]]
                => Adds(w, c - job[w[1]].completed)
<1>1. w[1] \in Jobs /\ job[w[1]] \in JobType /\ job \in [Jobs -> JobType]
  BY TaskIs DEF Shape
<1>2. job[w[1]].completed \in Int
  BY <1>1 DEF JobType
<1>3. UNCHANGED job => Adds(w, 0)
  BY <1>2 DEF Adds
<1>4. ASSUME NEW k \in Int, Add(w[1], k) PROVE Adds(w, k)
  BY <1>1, <1>2, <1>4 DEF Add, Adds, JobType
<1>5. ASSUME job' = [job EXCEPT ![w[1]] = Cancelled(w[1])] PROVE Adds(w, 0)
  <2>1. job'[w[1]].completed = job[w[1]].completed
    BY <1>1, <1>5 DEF Cancelled, JobType
  <2> QED BY <1>2, <2>1 DEF Adds
<1>6. ASSUME NEW c \in Int, NEW over,
             job' = [job EXCEPT ![w[1]] = [@ EXCEPT !.completed = c, !.cancelled = over]]
      PROVE  Adds(w, c - job[w[1]].completed)
  <2>1. job'[w[1]].completed = c
    BY <1>1, <1>6 DEF JobType
  <2> QED BY <1>2, <2>1 DEF Adds
<1> QED BY <1>3, <1>4, <1>5, <1>6

-----------------------------------------------------------------------------
(* A task of a push: what it reports fits its step, and its job counts it.   *)

\* A step adds to the job what it adds to the report of the task - unless the
\* transport reads on, or the task fails for good.
Tallied(w) ==
  \/ Adds(w, task'[w].n - task[w].n)
  \/ w[1] \in marked'.readOn
  \/ task'[w].pc = "ended" /\ task'[w].err # "none"

\* A task asks first whether the registry has its blob, and waits with the others.
Walks(w) ==
  /\ marked.readOn \subseteq marked'.readOn /\ task'[w].pc # "none"
  /\ task'[w].pc = "checked" \/ Where(w)' = "head" => Where(w) = "head"
  /\ Where(w) = "head" => \/ Where(w)' \in {"head", "checked", "queued"}
                          \/ task'[w].pc = "ended" /\ task'[w].err # "none"
  /\ task[w].pc = "queued" => job[w[1]].phase = "running"

Goes(w) ==
  /\ TaskBounds(w)' /\ SendBounds(w)' /\ FetchBounds(w)' /\ Slotted(w)' /\ Reports(w)'
  /\ Tallied(w) /\ Walks(w)

\* A step that goes on to pc.
LEMMA GoesTo ==
  ASSUME Shape, NEW w \in Tasks, Measured(w), NEW pc, pc \notin Waiting, pc \notin {"none", "head"},
         NEW n \in 0 .. Size + 1, NEW slot, NEW err, NEW attempt \in 0 .. MaxRetries,
         Becomes(w, pc, n, slot, err, attempt), slot <=> pc \in Slots,
         SendBounds(w)', FetchBounds(w)', Fit(pc, n, err, send'[w]),
         marked.readOn \subseteq marked'.readOn,
         pc = "checked" => Where(w) = "head",
         Where(w) = "head" => pc \in {"queued", "checked"} \/ (pc = "ended" /\ err # "none"),
         task[w].pc = "queued" => job[w[1]].phase = "running",
         Tallied(w)
  PROVE  Goes(w)
<1>1. /\ task'[w].pc = pc /\ task'[w].n = n /\ task'[w].slot = slot
      /\ task'[w].err = err /\ task'[w].attempt = attempt
      /\ task'[w].back = task[w].back /\ task'[w].prev = task[w].prev
  BY DEF Becomes
<1>2. Where(w)' = pc
  BY <1>1 DEF Where
<1>3. TaskBounds(w)'
  BY <1>1 DEF Measured, TaskBounds
<1>4. Slotted(w)'
  BY <1>1, <1>2 DEF Slotted
<1>5. Reports(w)'
  BY <1>1, <1>2 DEF Reports
<1>6. Walks(w)
  BY <1>1, <1>2 DEF Walks
<1> QED BY <1>3, <1>4, <1>5, <1>6 DEF Goes

\* What a step writes to what a push keeps.
SendIs(w, inits, tries, landed, part) ==
  /\ send'[w].inits = inits /\ send'[w].tries = tries
  /\ send'[w].landed = landed /\ send'[w].part = part

LEMMA SendWritten ==
  ASSUME PushShape, NEW w \in Tasks, NEW k
  PROVE  LET s == send[w] IN
         /\ send' = [send EXCEPT ![w].inits = @ + 1] => SendIs(w, s.inits + 1, s.tries, s.landed, s.part)
         /\ send' = [send EXCEPT ![w].tries = @ + 1] => SendIs(w, s.inits, s.tries + 1, s.landed, s.part)
         /\ send' = [send EXCEPT ![w].landed = k] => SendIs(w, s.inits, s.tries, k, s.part)
         /\ send' = [send EXCEPT ![w] = [@ EXCEPT !.landed = send[w].part, !.part = send[w].part + 1,
                                         !.tries = 0]] =>
              SendIs(w, s.inits, 0, s.part, s.part + 1)
         /\ send' = [send EXCEPT ![w] = NewSend] => SendIs(w, 0, 0, 0, 0)
         /\ send' = [send EXCEPT ![w] = [NewSend EXCEPT !.part = k]] => SendIs(w, 0, 0, 0, k)
<1>1. send \in [Tasks -> SendType] /\ send[w] \in SendType
  BY DEF PushShape
<1>2. /\ send' = [send EXCEPT ![w].inits = @ + 1] =>
           SendIs(w, send[w].inits + 1, send[w].tries, send[w].landed, send[w].part)
      /\ send' = [send EXCEPT ![w].tries = @ + 1] =>
           SendIs(w, send[w].inits, send[w].tries + 1, send[w].landed, send[w].part)
      /\ send' = [send EXCEPT ![w].landed = k] =>
           SendIs(w, send[w].inits, send[w].tries, k, send[w].part)
  BY <1>1 DEF SendType, SendIs
<1>3. send' = [send EXCEPT ![w] = [@ EXCEPT !.landed = send[w].part, !.part = send[w].part + 1,
                                    !.tries = 0]] =>
        SendIs(w, send[w].inits, 0, send[w].part, send[w].part + 1)
  BY <1>1 DEF SendType, SendIs
<1>4. send' = [send EXCEPT ![w] = NewSend] => SendIs(w, 0, 0, 0, 0)
  BY <1>1 DEF NewSend, SendIs
<1>5. send' = [send EXCEPT ![w] = [NewSend EXCEPT !.part = k]] => SendIs(w, 0, 0, 0, k)
  BY <1>1 DEF NewSend, SendIs
<1> QED BY <1>2, <1>3, <1>4, <1>5

\* ... when an attempt to announce the blob has failed.
LEMMA SendTold ==
  ASSUME PushShape, NEW w \in Tasks,
         send' = [send EXCEPT ![w] = [@ EXCEPT !.inits = send[w].inits + 1, !.told = TRUE]]
  PROVE  SendIs(w, send[w].inits + 1, send[w].tries, send[w].landed, send[w].part)
<1>1. send \in [Tasks -> SendType] /\ send[w] \in SendType
  BY DEF PushShape
<1>2. \A told \in BOOLEAN :
        LET r == [send[w] EXCEPT !.inits = send[w].inits + 1, !.told = told] IN
        /\ r.inits = send[w].inits + 1 /\ r.tries = send[w].tries
        /\ r.landed = send[w].landed /\ r.part = send[w].part
  BY <1>1 DEF SendType
<1>3. TRUE \in BOOLEAN
  OBVIOUS
<1>4. LET r == [send[w] EXCEPT !.inits = send[w].inits + 1, !.told = TRUE] IN
      /\ r.inits = send[w].inits + 1 /\ r.tries = send[w].tries
      /\ r.landed = send[w].landed /\ r.part = send[w].part
  BY <1>2, <1>3, Zenon
<1>5. send' = [send EXCEPT ![w] = [@ EXCEPT !.inits = send[w].inits + 1, !.told = TRUE]] =>
        send'[w] = [send[w] EXCEPT !.inits = send[w].inits + 1, !.told = TRUE]
  BY <1>1, Zenon
<1> DEFINE r == [send[w] EXCEPT !.inits = send[w].inits + 1, !.told = TRUE]
<1>6. /\ r.inits = send[w].inits + 1 /\ r.tries = send[w].tries
      /\ r.landed = send[w].landed /\ r.part = send[w].part
      /\ send' = [send EXCEPT ![w] = [@ EXCEPT !.inits = send[w].inits + 1, !.told = TRUE]] =>
           send'[w] = r
  BY <1>4, <1>5, Zenon
<1> HIDE DEF r
<1> QED BY <1>6 DEF SendIs

LEMMA SendStaysBounded ==
  ASSUME NEW w \in Tasks, Measured(w)
  PROVE  /\ UNCHANGED send => SendBounds(w)'
         /\ UNCHANGED fetch => FetchBounds(w)'
         /\ SendBounds(w) /\ FetchBounds(w) /\ TaskBounds(w) /\ Slotted(w) /\ Reports(w)
BY DEF Measured, SendBounds, FetchBounds

LEMMA SendIsBounded ==
  ASSUME NEW w \in Tasks, NEW inits \in 0 .. MaxInitRetries, NEW tries \in 0 .. MaxRetries,
         NEW landed \in 0 .. Size, NEW part \in 0 .. Size + 1, SendIs(w, inits, tries, landed, part)
  PROVE  SendBounds(w)'
BY DEF SendIs, SendBounds

LEMMA ReadsOnIs ==
  ASSUME PushShape, NEW w \in Tasks, NEW late, ReadsOn(w, late)
  PROVE  marked.readOn \subseteq marked'.readOn /\ (late = 0 \/ w[1] \in marked'.readOn)
BY DEF PushShape, ReadsOn

\* A request that is refused.
LEMMA RefusedGoes ==
  ASSUME Shape, NEW w \in Tasks, Measured(w), job[w[1]].token \in Nat,
         NEW back, Unauthorized(w, back),
         task[w].pc \in {"head", "init", "commit", "finalize", "patch", "resolve"},
         back = IF task[w].pc = "patch" THEN "part" ELSE task[w].pc,
         UNCHANGED <<job, marked>>, SendBounds(w)', FetchBounds(w)',
         task[w].pc = "patch" => send'[w] = send[w]
  PROVE  Goes(w)
<1>1. /\ task'[w].pc = "refresh" /\ task'[w].back = back /\ task'[w].prev = job[w[1]].token
      /\ task'[w].n = task[w].n /\ task'[w].slot = task[w].slot
      /\ task'[w].err = task[w].err /\ task'[w].attempt = task[w].attempt
  BY WrittenRefused
<1>2. Where(w) = task[w].pc /\ Where(w)' = back
  BY <1>1 DEF Where, Waiting
<1>3. TaskBounds(w) /\ Slotted(w) /\ Reports(w)
  BY DEF Measured
<1>4. TaskBounds(w)'
  BY <1>1, <1>3 DEF TaskBounds
<1>5. Slotted(w)'
  BY <1>1, <1>2, <1>3 DEF Slotted, Slots
<1>6. Reports(w)'
  BY <1>1, <1>2, <1>3 DEF Reports, Fit
<1>7. Tallied(w)
  <2>1. task'[w].n - task[w].n = 0
    BY <1>1, <1>3, SizeIs DEF TaskBounds
  <2> QED BY <2>1, Added DEF Tallied
<1>8. Walks(w)
  BY <1>1, <1>2 DEF Walks
<1> QED BY <1>4, <1>5, <1>6, <1>7, <1>8 DEF Goes

\* A token is asked for, or taken from who has asked.
LEMMA RefreshGoes ==
  ASSUME Shape, NEW w \in Tasks, Measured(w), RefreshToken(w) \/ GetToken(w),
         UNCHANGED <<send, fetch, marked>>
  PROVE  Goes(w)
<1>0. task[w].pc \in Waiting
  BY DEF RefreshToken, GetToken, At, Waiting
<1>1. /\ task'[w].pc \in {"getToken", task[w].back}
      /\ task'[w].back = task[w].back /\ task'[w].prev = task[w].prev
      /\ task'[w].n = task[w].n /\ task'[w].slot = task[w].slot
      /\ task'[w].err = task[w].err /\ task'[w].attempt = task[w].attempt
  <2>1. PICK pc \in {"getToken", task[w].back} : Goto(w, pc)
    BY DEF RefreshToken, GetToken
  <2>2. Becomes(w, pc, task[w].n, task[w].slot, task[w].err, task[w].attempt)
    BY <2>1, Written
  <2> QED BY <2>2 DEF Becomes
<1>2. TaskBounds(w) /\ Slotted(w) /\ Reports(w) /\ SendBounds(w)' /\ FetchBounds(w)'
  BY SendStaysBounded
<1>3. /\ Where(w) = task[w].back /\ Where(w)' = task[w].back
      /\ task[w].back \in {"head", "init", "commit", "finalize", "part", "resolve"}
  BY <1>0, <1>1, <1>2 DEF Where, Slotted, Waiting
<1>4. TaskBounds(w)'
  BY <1>1, <1>2 DEF TaskBounds
<1>5. Slotted(w)'
  BY <1>1, <1>2, <1>3 DEF Slotted
<1>6. Reports(w)'
  BY <1>1, <1>2, <1>3 DEF Reports
<1>7. Tallied(w)
  <2>1. task'[w].n - task[w].n = 0
    BY <1>1, <1>2, SizeIs DEF TaskBounds
  <2>2. w[1] \in Jobs /\ job[w[1]] \in JobType /\ job \in [Jobs -> JobType]
    BY TaskIs DEF Shape
  <2>3. job'[w[1]].completed = job[w[1]].completed /\ job[w[1]].completed \in Int
    BY <2>2 DEF RefreshToken, GetToken, JobType
  <2> QED BY <2>1, <2>3 DEF Tallied, Adds
<1>8. Walks(w)
  BY <1>0, <1>1, <1>3 DEF Walks, Waiting
<1> QED BY <1>2, <1>4, <1>5, <1>6, <1>7, <1>8 DEF Goes

\* An attempt of a push that fails.
LEMMA FailsGoes ==
  ASSUME Shape, NEW w \in Tasks, Measured(w), Where(w) # "head", task[w].pc # "queued",
         NEW err, NEW late \in Int, FailsWith(w, err, late), SendBounds(w)', FetchBounds(w)',
         marked.readOn \subseteq marked'.readOn, late = 0 \/ w[1] \in marked'.readOn
  PROVE  Goes(w)
<1> DEFINE reported == IF send[w].part = 0 THEN task[w].n ELSE 0
<1>1. task[w].n \in 0 .. Size + 1 /\ task[w].attempt \in 0 .. MaxRetries
  BY DEF Measured, TaskBounds
<1>2. reported \in 0 .. Size + 1 /\ reported \in Int /\ task[w].n \in Int
  BY <1>1, SizeIs
<1>3. Becomes(w, "settle", reported, FALSE, err, task[w].attempt)
  BY WrittenFails
<1>4. Add(w[1], reported - task[w].n + late)
  BY DEF FailsWith
<1> HIDE DEF reported
<1>5. Tallied(w)
  <2>0. reported - task[w].n + late \in Int
    BY <1>2
  <2>1. Adds(w, reported - task[w].n + late)
    BY <1>4, <2>0, Added
  <2>2. task'[w].n = reported
    BY <1>3 DEF Becomes
  <2>3. late = 0 => reported - task[w].n + late = reported - task[w].n
    BY <1>2
  <2> QED BY <2>1, <2>2, <2>3 DEF Tallied
<1>6. "settle" \notin Slots /\ "settle" \notin Waiting /\ Fit("settle", reported, err, send'[w])
  BY DEF Slots, Waiting, Fit
<1> QED BY <1>1, <1>2, <1>3, <1>5, <1>6, GoesTo

\* A task that ends with an error, or because others have.
LEMMA FailedGoes ==
  ASSUME Shape, NEW w \in Tasks, Measured(w), NEW err, err # "none",
         task' = [task EXCEPT ![w] = Failed(w, err)],
         UNCHANGED <<send, fetch, marked>>,
         task[w].pc = "queued" => job[w[1]].phase = "running"
  PROVE  Goes(w)
<1>1. task[w].n \in 0 .. Size + 1 /\ task[w].attempt \in 0 .. MaxRetries /\ SendBounds(w)' /\ FetchBounds(w)'
  BY SendStaysBounded DEF TaskBounds
<1>2. Becomes(w, "ended", task[w].n, FALSE, err, task[w].attempt)
  BY WrittenFailed
<1>3. Tallied(w)
  BY <1>2 DEF Tallied, Becomes
<1>4. "ended" \notin Slots /\ "ended" \notin Waiting /\ Fit("ended", task[w].n, err, send'[w])
  BY DEF Slots, Waiting, Fit
<1> QED BY <1>1, <1>2, <1>3, <1>4, GoesTo

\* A step that changes its place, and no number.
LEMMA GotoGoes ==
  ASSUME Shape, NEW w \in Tasks, Measured(w), NEW pc, pc \notin Waiting, pc \notin {"none", "head"},
         NEW slot \in BOOLEAN,
         Becomes(w, pc, task[w].n, slot, task[w].err, task[w].attempt),
         slot <=> pc \in Slots,
         SendBounds(w)', FetchBounds(w)', Fit(pc, task[w].n, task[w].err, send'[w]), UNCHANGED <<job, marked>>,
         pc = "checked" => Where(w) = "head",
         Where(w) = "head" => pc \in {"queued", "checked"},
         task[w].pc = "queued" => job[w[1]].phase = "running"
  PROVE  Goes(w)
<1>1. task[w].n \in 0 .. Size + 1 /\ task[w].attempt \in 0 .. MaxRetries
  BY DEF Measured, TaskBounds
<1>2. Tallied(w)
  <2>1. task'[w].n - task[w].n = 0
    BY <1>1, SizeIs DEF Becomes
  <2> QED BY <2>1, Added DEF Tallied
<1> QED BY <1>1, <1>2, GoesTo

\* The steps of a push.
LEMMA AnnouncesGoes ==
  ASSUME Shape, NEW w \in PushTasks, Measured(w), Announces(w), UNCHANGED <<pushVars, pullVars>>
  PROVE  Goes(w)
<1>0. /\ w \in Tasks /\ UNCHANGED <<send, fetch, marked>> /\ task[w].slot \in BOOLEAN
      /\ SendBounds(w)' /\ FetchBounds(w)' /\ Slotted(w) /\ Reports(w)
  BY SendStaysBounded DEF PushTasks, pushVars, pullVars, Shape, TaskType
<1>1. CASE SemAcquire(w, "init") /\ job[w[1]].phase = "running"
  <2>1. task[w].pc = "queued" /\ Goto(w, "init") /\ UNCHANGED job
    BY <1>1 DEF SemAcquire, At
  <2>2. Becomes(w, "init", task[w].n, task[w].slot, task[w].err, task[w].attempt)
    BY <1>0, <2>1, Written
  <2>3. Where(w) = "queued"
    BY <2>1 DEF Where, Waiting
  <2>4. task[w].n = 0 /\ ~ task[w].slot
    BY <1>0, <2>3 DEF Reports, Fit, Slotted, Slots
  <2>5. Fit("init", task[w].n, task[w].err, send'[w]) /\ "init" \notin Slots /\ "init" \notin Waiting
    BY <2>4 DEF Fit, Slots, Waiting
  <2> QED BY <1>0, <1>1, <2>1, <2>2, <2>3, <2>4, <2>5, GotoGoes
<1>2. CASE (SemCancelled(w) /\ job[w[1]].phase = "running") \/ BackoffCancelled(w)
  BY <1>0, <1>2, FailedGoes DEF SemCancelled, BackoffCancelled, At
<1>3. CASE RefreshToken(w) \/ GetToken(w)
  BY <1>0, <1>3, RefreshGoes
<1>4. CASE BackedOff(w, "init")
  <2>1. task[w].pc = "backoff" /\ Goto(w, "init") /\ UNCHANGED job
    BY <1>4 DEF BackedOff, At
  <2>2. Becomes(w, "init", task[w].n, task[w].slot, task[w].err, task[w].attempt)
    BY <1>0, <2>1, Written
  <2>3. Where(w) = "backoff"
    BY <2>1 DEF Where, Waiting
  <2>4. task[w].n = 0 /\ ~ task[w].slot
    BY <1>0, <2>3 DEF Reports, Fit, Slotted, Slots
  <2>5. Fit("init", task[w].n, task[w].err, send'[w]) /\ "init" \notin Slots /\ "init" \notin Waiting
    BY <2>4 DEF Fit, Slots, Waiting
  <2> QED BY <1>0, <2>1, <2>2, <2>3, <2>4, <2>5, GotoGoes
<1>5. CASE HoldBody(w, "hold", IF send[w].part = 0 THEN "put" ELSE "patch")
  <2>1. PICK pc : /\ pc = (IF send[w].part = 0 THEN "put" ELSE "patch")
                  /\ task[w].pc = "hold" /\ UNCHANGED job
                  /\ task' = [task EXCEPT ![w] = [@ EXCEPT !.pc = pc, !.slot = TRUE]]
    BY <1>5 DEF HoldBody, At
  <2>2. Becomes(w, pc, task[w].n, TRUE, task[w].err, task[w].attempt)
    <3>1. TRUE \in BOOLEAN
      OBVIOUS
    <3> QED BY <1>0, <2>1, <3>1, WrittenSlot
  <2>3. Where(w) = "hold"
    BY <2>1 DEF Where, Waiting
  <2>4. Fit("hold", task[w].n, task[w].err, send'[w])
    BY <1>0, <2>3 DEF Reports
  <2>5. Fit(pc, task[w].n, task[w].err, send'[w])
    BY <1>0, <2>1, <2>4, SizeIs DEF Fit
  <2>6. pc \in {"put", "patch"}
    BY <2>1
  <2>7. pc \in Slots /\ pc \notin Waiting /\ pc \notin {"none", "head"} /\ pc # "checked"
    BY <2>6 DEF Slots, Waiting
  <2> QED BY <1>0, <2>1, <2>2, <2>3, <2>5, <2>7, GotoGoes
<1> QED BY <1>1, <1>2, <1>3, <1>4, <1>5 DEF Announces

LEMMA ExistsGoes ==
  ASSUME Shape, NEW w \in PushTasks, Measured(w), job[w[1]].token \in Nat, UNCHANGED pullVars,
         Exists(w) \/ ExistsUnknown(w) \/ ExistsFails(w) \/ ExistsCancelled(w)
  PROVE  Goes(w)
<1>0. /\ w \in Tasks /\ UNCHANGED <<send, fetch, marked>> /\ task[w].slot \in BOOLEAN
      /\ SendBounds(w)' /\ FetchBounds(w)' /\ Slotted(w) /\ Reports(w)
  BY SendStaysBounded DEF PushTasks, pushVars, pullVars, Shape, TaskType, Exists, ExistsUnknown,
     ExistsFails, ExistsCancelled, HeadFails
<1>1. CASE ExistsFails(w) \/ ExistsCancelled(w)
  BY <1>0, <1>1, FailedGoes DEF ExistsFails, ExistsCancelled, HeadFails, At
<1>2. CASE Exists(w) /\ Unauthorized(w, "head")
  BY <1>0, <1>2, RefusedGoes DEF Exists, At
<1>3. CASE \E pc \in {"checked", "queued"} : Goto(w, pc) /\ At(w, "head") /\ UNCHANGED job
  <2>1. PICK pc \in {"checked", "queued"} : Goto(w, pc) /\ At(w, "head") /\ UNCHANGED job
    BY <1>3
  <2>2. Becomes(w, pc, task[w].n, task[w].slot, task[w].err, task[w].attempt)
    BY <1>0, <2>1, Written
  <2>3. task[w].pc = "head" /\ Where(w) = "head"
    BY <2>1 DEF At, Where, Waiting
  <2>4. task[w].n = 0 /\ ~ task[w].slot
    BY <1>0, <2>3 DEF Reports, Fit, Slotted, Slots
  <2>5. Fit(pc, task[w].n, task[w].err, send'[w]) /\ pc \notin Slots /\ pc \notin Waiting
    BY <2>4 DEF Fit, Slots, Waiting
  <2> QED BY <1>0, <2>1, <2>2, <2>3, <2>4, <2>5, GotoGoes
<1> QED BY <1>1, <1>2, <1>3 DEF Exists, ExistsUnknown

LEMMA CancelUploadGoes ==
  ASSUME Shape, NEW w \in PushTasks, Measured(w), UNCHANGED pullVars, CancelUpload(w)
  PROVE  Goes(w)
<1>1. /\ w \in Tasks /\ Where(w) # "head" /\ task[w].pc # "queued"
      /\ UNCHANGED <<send, fetch, marked>> /\ FailsWith(w, "cancelled", 0)
  BY DEF PushTasks, CancelUpload, Fails, At, Where, Waiting, pushVars, pullVars
<1> QED BY <1>1, FailsGoes, SendStaysBounded

LEMMA RetryUploadGoes ==
  ASSUME Shape, PushShape, NEW w \in PushTasks, Measured(w), Sent(w), UNCHANGED pullVars, RetryUpload(w)
  PROVE  Goes(w)
<1> DEFINE cancelled == task[w].err = "cancelled"
           over == cancelled \/ task[w].attempt + 1 >= MaxRetries
           c == IF cancelled THEN job[w[1]].completed ELSE job[w[1]].completed - task[w].n
<1>0. /\ w \in Tasks /\ w[1] \in Jobs /\ UNCHANGED <<fetch, marked>> /\ task[w].pc = "settle"
      /\ FetchBounds(w)' /\ TaskBounds(w) /\ Slotted(w) /\ send' = [send EXCEPT ![w] = NewSend]
  BY SendStaysBounded, TaskIs DEF PushTasks, RetryUpload, pullVars, At
<1>1. task[w].err # "none" /\ Where(w) = "settle" /\ ~ task[w].slot
  BY <1>0 DEF Sent, Where, Waiting, Slotted, Slots
<1>2. SendBounds(w)'
  <2>1. SendIs(w, 0, 0, 0, 0)
    BY <1>0, SendWritten
  <2>2. 0 \in 0 .. MaxInitRetries /\ 0 \in 0 .. MaxRetries /\ 0 \in 0 .. Size /\ 0 \in 0 .. Size + 1
    BY SizeIs, PushAssumption, TransferAssumption
  <2> QED BY <1>0, <2>1, <2>2, SendIsBounded
<1>3. /\ task[w].attempt \in Int /\ task[w].n \in Int /\ job[w[1]].completed \in Int
  BY <1>0 DEF Shape, TaskType, JobType
<1>4. Adds(w, c - job[w[1]].completed) /\ c \in Int
  <2>1. c \in Int
    BY <1>3
  <2>2. job' = [job EXCEPT ![w[1]] = [@ EXCEPT !.completed = c,
                                      !.cancelled = job[w[1]].cancelled \/ over]]
    BY DEF RetryUpload
  <2> HIDE DEF c, over
  <2> QED BY <1>0, <2>1, <2>2, Added
<1>5. CASE over
  <2>1. task' = [task EXCEPT ![w] = [Failed(w, task[w].err) EXCEPT !.n = 0]]
    BY <1>5 DEF RetryUpload
  <2>2. Becomes(w, "ended", 0, FALSE, task[w].err, task[w].attempt)
    BY <1>0, <2>1, WrittenFailed
  <2>3. Tallied(w)
    BY <1>1, <2>2 DEF Tallied, Becomes
  <2>4. "ended" \notin Slots /\ "ended" \notin Waiting /\ Fit("ended", 0, task[w].err, send'[w])
    BY <1>1 DEF Slots, Waiting, Fit
  <2>5. 0 \in 0 .. Size + 1 /\ task[w].attempt \in 0 .. MaxRetries
    BY <1>0, SizeIs DEF TaskBounds
  <2> QED BY <1>0, <1>1, <1>2, <2>2, <2>3, <2>4, <2>5, GoesTo
<1>6. CASE ~ over
  <2>1. task' = [task EXCEPT ![w] = [@ EXCEPT !.pc = "backoff", !.attempt = task[w].attempt + 1,
                                     !.n = 0, !.err = "none"]]
    BY <1>6 DEF RetryUpload
  <2>2. Becomes(w, "backoff", 0, task[w].slot, "none", task[w].attempt + 1)
    BY <1>0, <2>1, Written
  <2>3. Tallied(w)
    <3>1. c - job[w[1]].completed = 0 - task[w].n
      BY <1>3, <1>6
    <3>2. task'[w].n = 0
      BY <2>2 DEF Becomes
    <3> QED BY <1>4, <3>1, <3>2 DEF Tallied
  <2>4. "backoff" \notin Slots /\ "backoff" \notin Waiting /\ Fit("backoff", 0, "none", send'[w])
    BY DEF Slots, Waiting, Fit
  <2>5. 0 \in 0 .. Size + 1 /\ task[w].attempt + 1 \in 0 .. MaxRetries
    BY <1>0, <1>3, <1>6, SizeIs, TransferAssumption DEF TaskBounds
  <2> QED BY <1>0, <1>1, <1>2, <2>2, <2>3, <2>4, <2>5, GoesTo
<1> QED BY <1>5, <1>6

\* The whole blob is reported of a task that has reported nothing.
LEMMA CreditGoes ==
  ASSUME Shape, NEW w \in PushTasks, Measured(w), At(w, "init"), Credit(w),
         SendBounds(w)', FetchBounds(w)', marked.readOn \subseteq marked'.readOn
  PROVE  Goes(w)
<1>0. /\ w \in Tasks /\ task[w].pc = "init" /\ Where(w) = "init" /\ Size \in 0 .. Size + 1 /\ Size \in Int
      /\ task[w].attempt \in 0 .. MaxRetries
  BY SizeIs DEF PushTasks, At, Where, Waiting, Measured, TaskBounds
<1>1. task[w].n = 0 /\ ~ task[w].slot
  BY <1>0 DEF Measured, Reports, Fit, Slotted, Slots
<1>2. Becomes(w, "ended", Size, task[w].slot, task[w].err, task[w].attempt)
  BY <1>0, Written DEF Credit
<1>3. Tallied(w)
  <2>1. Adds(w, Size)
    BY <1>0, Added DEF Credit
  <2>2. task'[w].n - task[w].n = Size
    BY <1>0, <1>1, <1>2 DEF Becomes
  <2> QED BY <2>1, <2>2 DEF Tallied
<1>4. "ended" \notin Slots /\ "ended" \notin Waiting /\ Fit("ended", Size, task[w].err, send'[w])
  BY DEF Slots, Waiting, Fit
<1> QED BY <1>0, <1>1, <1>2, <1>3, <1>4, GoesTo

LEMMA InitGoes ==
  ASSUME Shape, PushShape, NEW w \in PushTasks, Measured(w), job[w[1]].token \in Nat, UNCHANGED pullVars,
         InitUpload(w) \/ InitFails(w) \/ InitGivesUp(w)
  PROVE  Goes(w)
<1> USE SizeIs, PushAssumption, TransferAssumption
<1>0. /\ w \in Tasks /\ task[w].pc = "init" /\ Where(w) = "init" /\ UNCHANGED fetch
      /\ SendBounds(w) /\ FetchBounds(w)' /\ TaskBounds(w) /\ Slotted(w) /\ Reports(w)
      /\ task[w].slot \in BOOLEAN
  BY SendStaysBounded DEF PushTasks, InitUpload, InitFails, InitGivesUp, At, Where, Waiting, pullVars,
     Shape, TaskType
<1>1. task[w].n = 0 /\ ~ task[w].slot
  BY <1>0 DEF Reports, Fit, Slotted, Slots
<1>2. CASE InitUpload(w)
  <2>0. UNCHANGED marked /\ send[w].inits < MaxInitRetries
    BY <1>2 DEF InitUpload
  <2>1. CASE Unauthorized(w, "init") /\ send' = [send EXCEPT ![w].inits = @ + 1] /\ UNCHANGED job
    <3>1. SendIs(w, send[w].inits + 1, send[w].tries, send[w].landed, send[w].part)
      BY <1>0, <2>1, SendWritten
    <3>2. send[w].inits + 1 \in 0 .. MaxInitRetries
      BY <1>0, <2>0 DEF SendBounds
    <3>3. SendBounds(w)'
      BY <1>0, <3>1, <3>2, SendIsBounded DEF SendBounds
    <3> QED BY <1>0, <2>0, <2>1, <3>3, RefusedGoes
  <2>2. CASE Credit(w) /\ UNCHANGED send
    BY <1>0, <2>0, <2>2, CreditGoes, SendStaysBounded DEF At
  <2>3. CASE /\ Goto(w, "hold") /\ UNCHANGED job
             /\ \E part \in {0, 1} : send' = [send EXCEPT ![w] = [NewSend EXCEPT !.part = part]]
    <3>1. PICK part \in {0, 1} : send' = [send EXCEPT ![w] = [NewSend EXCEPT !.part = part]]
      BY <2>3
    <3>2. SendIs(w, 0, 0, 0, part)
      BY <1>0, <3>1, SendWritten
    <3>3. SendBounds(w)'
      BY <1>0, <3>2, SendIsBounded
    <3>4. Becomes(w, "hold", task[w].n, task[w].slot, task[w].err, task[w].attempt)
      BY <1>0, <2>3, Written
    <3>5. Fit("hold", task[w].n, task[w].err, send'[w])
      BY <1>1, <3>2 DEF Fit, SendIs
    <3>6. "hold" \notin Slots /\ "hold" \notin Waiting
      BY DEF Slots, Waiting
    <3> QED BY <1>0, <1>1, <2>0, <2>3, <3>3, <3>4, <3>5, <3>6, GotoGoes
  <2> QED BY <1>2, <2>1, <2>2, <2>3 DEF InitUpload
<1>3. CASE InitFails(w)
  <2>1. /\ send' = [send EXCEPT ![w] = [@ EXCEPT !.inits = send[w].inits + 1, !.told = TRUE]]
        /\ UNCHANGED <<job, task, marked>> /\ send[w].inits < MaxInitRetries
    BY <1>3 DEF InitFails
  <2>2. SendIs(w, send[w].inits + 1, send[w].tries, send[w].landed, send[w].part)
    BY <1>0, <2>1, SendTold
  <2>3. send[w].inits + 1 \in 0 .. MaxInitRetries
    BY <1>0, <2>1 DEF SendBounds
  <2>4. SendBounds(w)'
    BY <1>0, <2>2, <2>3, SendIsBounded DEF SendBounds
  <2>5. Becomes(w, "init", task[w].n, task[w].slot, task[w].err, task[w].attempt)
    BY <1>0, <2>1 DEF Becomes
  <2>6. "init" \notin Slots /\ "init" \notin Waiting /\ Fit("init", task[w].n, task[w].err, send'[w])
    BY <1>1 DEF Slots, Waiting, Fit
  <2> QED BY <1>0, <1>1, <2>1, <2>4, <2>5, <2>6, GotoGoes
<1>4. CASE InitGivesUp(w)
  <2>0. UNCHANGED send /\ SendBounds(w)'
    BY <1>4, SendStaysBounded, <1>0 DEF InitGivesUp
  <2>1. CASE send[w].told
    <3>1. FailsWith(w, "error", 0) /\ UNCHANGED marked
      BY <1>4, <2>1 DEF InitGivesUp, Fails
    <3> QED BY <1>0, <2>0, <3>1, FailsGoes
  <2>2. CASE ~ send[w].told
    <3>1. Credit(w) /\ marked' = [marked EXCEPT !.presumed = @ \cup ({w[2]} \ registry.stored)]
      BY <1>4, <2>2 DEF InitGivesUp
    <3>2. marked'.readOn = marked.readOn
      BY <3>1 DEF PushShape
    <3> QED BY <1>0, <2>0, <3>1, <3>2, CreditGoes DEF At
  <2> QED BY <2>1, <2>2
<1> QED BY <1>2, <1>3, <1>4

LEMMA TokenFailsGoes ==
  ASSUME Shape, NEW w \in PushTasks, Measured(w), UNCHANGED pullVars, TokenFails(w)
  PROVE  Goes(w)
<1>0. /\ w \in Tasks /\ task[w].pc = "getToken" /\ Where(w) = task[w].back /\ task[w].back # "head"
      /\ UNCHANGED <<send, fetch, marked>> /\ SendBounds(w)' /\ FetchBounds(w)' /\ Slotted(w) /\ Reports(w)
      /\ task[w].slot \in BOOLEAN
  BY SendStaysBounded DEF PushTasks, TokenFails, At, Where, Waiting, pushVars, pullVars, Shape, TaskType
<1>1. CASE task[w].back = "part"
  <2>1. Goto(w, "part") /\ UNCHANGED job
    BY <1>1 DEF TokenFails
  <2>2. Becomes(w, "part", task[w].n, task[w].slot, task[w].err, task[w].attempt)
    BY <1>0, <2>1, Written
  <2>3. Fit("part", task[w].n, task[w].err, send'[w])
    BY <1>0, <1>1 DEF Reports
  <2>4. "part" \in Slots /\ "part" \notin Waiting /\ task[w].slot
    BY <1>0, <1>1 DEF Slots, Waiting, Slotted
  <2> QED BY <1>0, <1>1, <2>1, <2>2, <2>3, <2>4, GotoGoes
<1>2. CASE task[w].back # "part"
  <2>1. FailsWith(w, "error", 0)
    BY <1>2 DEF TokenFails, Fails
  <2> QED BY <1>0, <2>1, FailsGoes
<1> QED BY <1>1, <1>2

\* The body of a push in one piece.
LEMMA PutGoes ==
  ASSUME Shape, PushShape, NEW w \in PushTasks, Measured(w), UNCHANGED pullVars,
         Put(w) \/ PutEnds(w) \/ PutFails(w)
  PROVE  Goes(w)
<1> USE SizeIs
<1>0. /\ w \in Tasks /\ task[w].pc = "put" /\ Where(w) = "put" /\ UNCHANGED fetch
      /\ SendBounds(w) /\ FetchBounds(w)' /\ TaskBounds(w) /\ Slotted(w) /\ Reports(w)
      /\ task[w].slot \in BOOLEAN
  BY SendStaysBounded DEF PushTasks, Put, PutEnds, PutFails, At, Where, Waiting, pullVars,
     Shape, TaskType
<1>1. /\ send[w].part = 0 /\ task[w].n \in 0 .. Size /\ task[w].slot
      /\ task[w].n \in Int /\ task[w].attempt \in 0 .. MaxRetries
  BY <1>0 DEF Reports, Fit, Slotted, Slots, TaskBounds
<1>2. CASE Put(w)
  <2>1. /\ task' = [task EXCEPT ![w].n = @ + 1] /\ Add(w[1], 1) /\ task[w].n < Size
        /\ UNCHANGED <<send, marked>>
    BY <1>2 DEF Put, pushVars
  <2>2. Becomes(w, "put", task[w].n + 1, task[w].slot, task[w].err, task[w].attempt)
    <3>1. task' = [task EXCEPT ![w] = [@ EXCEPT !.n = task[w].n + 1]]
      BY <1>0, <2>1 DEF Shape
    <3> QED BY <1>0, <3>1, Written
  <2>3. Tallied(w)
    <3>0. 1 \in Int
      OBVIOUS
    <3>1. Adds(w, 1)
      BY <1>0, <2>1, <3>0, Added
    <3>2. task'[w].n - task[w].n = 1
      BY <1>1, <2>2 DEF Becomes
    <3> QED BY <3>1, <3>2 DEF Tallied
  <2>4. Fit("put", task[w].n + 1, task[w].err, send'[w]) /\ "put" \in Slots /\ "put" \notin Waiting
    BY <1>1, <2>1 DEF Fit, Slots, Waiting
  <2>5. task[w].n + 1 \in 0 .. Size + 1
    BY <1>1
  <2> QED BY <1>0, <1>1, <2>1, <2>2, <2>3, <2>4, <2>5, GoesTo, SendStaysBounded
<1>3. CASE PutEnds(w)
  <2>1. /\ task' = [task EXCEPT ![w] = [@ EXCEPT !.pc = "commit", !.slot = FALSE]]
        /\ send' = [send EXCEPT ![w].landed = Size] /\ UNCHANGED <<job, marked>> /\ task[w].n = Size
    BY <1>3 DEF PutEnds
  <2>2. Becomes(w, "commit", task[w].n, FALSE, task[w].err, task[w].attempt)
    BY <1>0, <2>1, WrittenSlot
  <2>3. SendIs(w, send[w].inits, send[w].tries, Size, send[w].part)
    BY <1>0, <2>1, SendWritten
  <2>4. SendBounds(w)'
    BY <1>0, <2>3, SendIsBounded DEF SendBounds
  <2>5. Fit("commit", task[w].n, task[w].err, send'[w]) /\ "commit" \notin Slots /\ "commit" \notin Waiting
    BY <2>1 DEF Fit, Slots, Waiting
  <2> QED BY <1>0, <2>1, <2>2, <2>4, <2>5, GotoGoes
<1>4. CASE PutFails(w)
  <2>1. PICK late \in 0 .. 1 : FailsWith(w, "error", late) /\ ReadsOn(w, late)
    BY <1>4 DEF PutFails
  <2>2. UNCHANGED send
    BY <1>4 DEF PutFails
  <2> QED BY <1>0, <2>1, <2>2, FailsGoes, ReadsOnIs, SendStaysBounded
<1> QED BY <1>2, <1>3, <1>4

LEMMA CommitGoes ==
  ASSUME Shape, PushShape, NEW w \in PushTasks, Measured(w), job[w[1]].token \in Nat, UNCHANGED pullVars,
         Commit(w) \/ CommitFails(w) \/ CommitGivesUp(w)
  PROVE  Goes(w)
<1> USE SizeIs
<1>0. /\ w \in Tasks /\ task[w].pc \in {"commit", "finalize"} /\ Where(w) = task[w].pc /\ UNCHANGED fetch
      /\ SendBounds(w) /\ FetchBounds(w)' /\ TaskBounds(w) /\ Slotted(w) /\ Reports(w)
      /\ task[w].slot \in BOOLEAN
  BY SendStaysBounded DEF PushTasks, Commit, CommitFails, CommitGivesUp, At, Where, Waiting, pullVars,
     Shape, TaskType
<1>1. task[w].n = Size /\ ~ task[w].slot /\ task[w].attempt \in 0 .. MaxRetries /\ task[w].n \in 0 .. Size + 1
  BY <1>0 DEF Reports, Fit, Slotted, Slots, TaskBounds
<1>2. ASSUME send' = [send EXCEPT ![w].tries = @ + 1], send[w].tries < MaxRetries PROVE SendBounds(w)'
  <2>1. SendIs(w, send[w].inits, send[w].tries + 1, send[w].landed, send[w].part)
    BY <1>0, <1>2, SendWritten
  <2>2. send[w].tries + 1 \in 0 .. MaxRetries
    BY <1>0, <1>2, TransferAssumption DEF SendBounds
  <2> QED BY <1>0, <2>1, <2>2, SendIsBounded DEF SendBounds
<1>3. CASE Commit(w)
  <2>1. UNCHANGED <<job, marked>> /\ send[w].tries < MaxRetries
    BY <1>3 DEF Commit
  <2>2. CASE UNCHANGED send /\ task' = [task EXCEPT ![w] = [@ EXCEPT !.pc = "ended", !.n = Size]]
    <3>1. Becomes(w, "ended", Size, task[w].slot, task[w].err, task[w].attempt)
      BY <1>0, <2>2, Written
    <3>2. Becomes(w, "ended", task[w].n, task[w].slot, task[w].err, task[w].attempt)
      BY <1>1, <3>1
    <3>3. Fit("ended", task[w].n, task[w].err, send'[w]) /\ "ended" \notin Slots /\ "ended" \notin Waiting
      BY <1>1 DEF Fit, Slots, Waiting
    <3> QED BY <1>0, <1>1, <2>1, <2>2, <3>2, <3>3, GotoGoes, SendStaysBounded
  <2>3. CASE Unauthorized(w, task[w].pc) /\ send' = [send EXCEPT ![w].tries = @ + 1]
    BY <1>0, <1>2, <2>1, <2>3, RefusedGoes
  <2> QED BY <1>3, <2>2, <2>3 DEF Commit
<1>4. CASE CommitFails(w)
  <2>1. UNCHANGED <<job, task, marked>> /\ SendBounds(w)'
    BY <1>2, <1>4 DEF CommitFails
  <2>2. Becomes(w, task[w].pc, task[w].n, task[w].slot, task[w].err, task[w].attempt)
    BY <2>1 DEF Becomes
  <2>3. /\ Fit(task[w].pc, task[w].n, task[w].err, send'[w])
        /\ task[w].pc \notin Slots /\ task[w].pc \notin Waiting /\ task[w].pc \notin {"none", "head", "checked"}
    BY <1>0, <1>1 DEF Fit, Slots, Waiting
  <2> QED BY <1>0, <1>1, <2>1, <2>2, <2>3, GotoGoes
<1>5. CASE CommitGivesUp(w)
  <2>1. FailsWith(w, "error", 0) /\ UNCHANGED <<send, marked>>
    BY <1>5 DEF CommitGivesUp, Fails, pushVars
  <2> QED BY <1>0, <2>1, FailsGoes, SendStaysBounded
<1> QED BY <1>3, <1>4, <1>5

\* ... and in parts.
LEMMA PartGoes ==
  ASSUME Shape, PushShape, NEW w \in PushTasks, Measured(w), job[w[1]].token \in Nat, UNCHANGED pullVars,
         Patch(w) \/ PartEnds(w) \/ Redirected(w) \/ PartRefused(w) \/ PartFails(w)
  PROVE  Goes(w)
<1> USE SizeIs, PushAssumption, TransferAssumption
<1>0. /\ w \in Tasks /\ task[w].pc \in {"patch", "cdn"} /\ Where(w) = task[w].pc /\ UNCHANGED fetch
      /\ SendBounds(w) /\ FetchBounds(w)' /\ TaskBounds(w) /\ Slotted(w) /\ Reports(w)
      /\ task[w].slot \in BOOLEAN
  BY SendStaysBounded DEF PushTasks, Patch, PartEnds, Redirected, PartRefused, PartFails, At, Where,
     Waiting, pullVars, Shape, TaskType
<1>1. /\ send[w].part \in 1 .. Size /\ task[w].n \in {send[w].part - 1, send[w].part} /\ task[w].slot
      /\ send[w].tries < MaxPartRetries /\ task[w].n \in 0 .. Size + 1 /\ task[w].n \in Int
      /\ send[w].part \in Int /\ task[w].attempt \in 0 .. MaxRetries
  <2>1. Fit(task[w].pc, task[w].n, task[w].err, send[w]) /\ task[w].slot
    BY <1>0 DEF Reports, Slotted, Slots
  <2> QED BY <1>0, <2>1 DEF Fit, TaskBounds
<1>2. CASE Patch(w)
  <2>1. /\ task' = [task EXCEPT ![w].n = @ + 1] /\ Add(w[1], 1) /\ OfPart(w) = 0
        /\ UNCHANGED <<send, marked>>
    BY <1>2 DEF Patch, pushVars
  <2>2. Becomes(w, task[w].pc, task[w].n + 1, task[w].slot, task[w].err, task[w].attempt)
    <3>1. task' = [task EXCEPT ![w] = [@ EXCEPT !.n = task[w].n + 1]]
      BY <1>0, <2>1 DEF Shape
    <3> QED BY <1>0, <3>1, Written
  <2>3. Tallied(w)
    <3>0. 1 \in Int
      OBVIOUS
    <3>1. Adds(w, 1)
      BY <1>0, <2>1, <3>0, Added
    <3>2. task'[w].n - task[w].n = 1
      BY <1>1, <2>2 DEF Becomes
    <3> QED BY <3>1, <3>2 DEF Tallied
  <2>4. task[w].n + 1 = send[w].part /\ task[w].n + 1 \in 0 .. Size + 1
    BY <1>1, <2>1 DEF OfPart
  <2>5. /\ Fit(task[w].pc, task[w].n + 1, task[w].err, send'[w])
        /\ task[w].pc \in Slots /\ task[w].pc \notin Waiting /\ task[w].pc \notin {"none", "head", "checked"}
    BY <1>0, <1>1, <2>1, <2>4 DEF Fit, Slots, Waiting
  <2> QED BY <1>0, <1>1, <2>1, <2>2, <2>3, <2>4, <2>5, GoesTo, SendStaysBounded
<1>3. CASE PartEnds(w)
  <2> DEFINE pc == IF send[w].part = Size THEN "finalize" ELSE "hold"
  <2>1. /\ task' = [task EXCEPT ![w] = [@ EXCEPT !.slot = FALSE, !.pc = pc]]
        /\ send' = [send EXCEPT ![w] = [@ EXCEPT !.landed = send[w].part, !.part = send[w].part + 1,
                                        !.tries = 0]]
        /\ UNCHANGED <<job, marked>> /\ OfPart(w) = 1
    BY <1>3 DEF PartEnds
  <2>2. Becomes(w, pc, task[w].n, FALSE, task[w].err, task[w].attempt)
    <3> HIDE DEF pc
    <3>1. FALSE \in BOOLEAN
      OBVIOUS
    <3> QED BY <1>0, <2>1, <3>1, WrittenSlot
  <2>3. SendIs(w, send[w].inits, 0, send[w].part, send[w].part + 1)
    BY <1>0, <2>1, SendWritten
  <2>4. SendBounds(w)'
    <3>1. 0 \in 0 .. MaxRetries /\ send[w].part \in 0 .. Size /\ send[w].part + 1 \in 0 .. Size + 1
      BY <1>1
    <3> QED BY <1>0, <2>3, <3>1, SendIsBounded DEF SendBounds
  <2>5. Fit(pc, task[w].n, task[w].err, send'[w])
    <3>1. task[w].n = send[w].part /\ send'[w].part = send[w].part + 1 /\ send'[w].tries = 0
      BY <1>1, <2>1, <2>3 DEF OfPart, SendIs
    <3>2. CASE send[w].part = Size
      BY <3>1, <3>2 DEF Fit
    <3>3. CASE send[w].part # Size
      <4>1. send'[w].part \in 0 .. Size /\ send'[w].part # 0 /\ task[w].n = send'[w].part - 1
        BY <1>1, <3>1, <3>3
      <4> QED BY <3>1, <3>3, <4>1 DEF Fit
    <3> QED BY <3>2, <3>3
  <2>6. pc \in {"finalize", "hold"}
    OBVIOUS
  <2>7. pc \notin Slots /\ pc \notin Waiting /\ pc \notin {"none", "head", "checked"}
    BY <2>6 DEF Slots, Waiting
  <2> HIDE DEF pc
  <2> QED BY <1>0, <2>1, <2>2, <2>4, <2>5, <2>7, GotoGoes
<1>4. CASE Redirected(w)
  <2>1. /\ task' = [task EXCEPT ![w] = [@ EXCEPT !.pc = "cdn", !.n = send[w].part - 1]]
        /\ UNCHANGED send
    BY <1>4 DEF Redirected
  <2>2. PICK late \in Int : Add(w[1], late - OfPart(w)) /\ ReadsOn(w, late)
    BY <1>1, <1>4 DEF Redirected, OfPart
  <2>3. Becomes(w, "cdn", send[w].part - 1, task[w].slot, task[w].err, task[w].attempt)
    BY <1>0, <2>1, Written
  <2>4. marked.readOn \subseteq marked'.readOn /\ (late = 0 \/ w[1] \in marked'.readOn)
    BY <1>0, <2>2, ReadsOnIs
  <2>5. Tallied(w)
    <3>1. late - OfPart(w) \in Int
      BY <1>1 DEF OfPart
    <3>2. Adds(w, late - OfPart(w))
      BY <1>0, <2>2, <3>1, Added
    <3>3. task'[w].n - task[w].n = 0 - OfPart(w)
      BY <1>1, <2>3 DEF Becomes, OfPart
    <3>4. late = 0 => late - OfPart(w) = task'[w].n - task[w].n
      BY <3>3
    <3> QED BY <2>4, <3>2, <3>4 DEF Tallied
  <2>6. send[w].part - 1 \in 0 .. Size + 1
    BY <1>1
  <2>7. Fit("cdn", send[w].part - 1, task[w].err, send'[w]) /\ "cdn" \in Slots /\ "cdn" \notin Waiting
    BY <1>1, <2>1 DEF Fit, Slots, Waiting
  <2> QED BY <1>0, <1>1, <2>1, <2>3, <2>4, <2>5, <2>6, <2>7, GoesTo, SendStaysBounded
<1>5. CASE PartRefused(w)
  <2>1. Unauthorized(w, "part") /\ UNCHANGED <<job, send, marked>> /\ task[w].pc = "patch"
    BY <1>5 DEF PartRefused, pushVars, At
  <2> QED BY <1>0, <2>1, RefusedGoes, SendStaysBounded
<1>6. CASE PartFails(w)
  <2>1. Goto(w, "part") /\ UNCHANGED send
    BY <1>6 DEF PartFails
  <2>2. PICK late \in Int : Add(w[1], late) /\ ReadsOn(w, late)
    BY <1>1, <1>6 DEF PartFails, OfPart
  <2>3. Becomes(w, "part", task[w].n, task[w].slot, task[w].err, task[w].attempt)
    BY <1>0, <2>1, Written
  <2>4. marked.readOn \subseteq marked'.readOn /\ (late = 0 \/ w[1] \in marked'.readOn)
    BY <1>0, <2>2, ReadsOnIs
  <2>5. Tallied(w)
    <3>1. Adds(w, late)
      BY <1>0, <2>2, Added
    <3>2. task'[w].n - task[w].n = 0
      BY <1>1, <2>3 DEF Becomes
    <3> QED BY <2>4, <3>1, <3>2 DEF Tallied
  <2>6. Fit("part", task[w].n, task[w].err, send'[w]) /\ "part" \in Slots /\ "part" \notin Waiting
    BY <1>1, <2>1 DEF Fit, Slots, Waiting
  <2> QED BY <1>0, <1>1, <2>1, <2>3, <2>4, <2>5, <2>6, GoesTo, SendStaysBounded
<1> QED BY <1>2, <1>3, <1>4, <1>5, <1>6

LEMMA RetryPartGoes ==
  ASSUME Shape, PushShape, NEW w \in PushTasks, Measured(w), UNCHANGED pullVars, RetryPart(w)
  PROVE  Goes(w)
<1> USE SizeIs, PushAssumption, TransferAssumption
<1>0. /\ w \in Tasks /\ task[w].pc = "part" /\ Where(w) = "part" /\ UNCHANGED <<fetch, marked>>
      /\ SendBounds(w) /\ FetchBounds(w)' /\ TaskBounds(w) /\ Slotted(w) /\ Reports(w)
  BY SendStaysBounded DEF PushTasks, RetryPart, At, Where, Waiting, pullVars
<1>1. /\ send[w].part \in 1 .. Size /\ task[w].n \in {send[w].part - 1, send[w].part}
      /\ send[w].tries < MaxPartRetries /\ task[w].n \in Int /\ send[w].tries \in Int
      /\ send[w].part \in Int /\ task[w].attempt \in 0 .. MaxRetries
  <2>1. Fit("part", task[w].n, task[w].err, send[w])
    BY <1>0 DEF Reports
  <2> QED BY <1>0, <2>1 DEF Fit, TaskBounds, SendBounds
<1>2. CASE send[w].tries + 1 = MaxPartRetries
  <2>1. FailsWith(w, "error", 0) /\ UNCHANGED send
    BY <1>2 DEF RetryPart, Fails
  <2> QED BY <1>0, <2>1, FailsGoes, SendStaysBounded
<1>3. CASE send[w].tries + 1 # MaxPartRetries
  <2>1. /\ send' = [send EXCEPT ![w].tries = @ + 1]
        /\ task' = [task EXCEPT ![w] = [@ EXCEPT !.pc = "hold", !.slot = FALSE, !.n = send[w].part - 1]]
        /\ Add(w[1], - OfPart(w))
    BY <1>3 DEF RetryPart
  <2>2. Becomes(w, "hold", send[w].part - 1, FALSE, task[w].err, task[w].attempt)
    BY <1>0, <2>1, WrittenSlot
  <2>3. SendIs(w, send[w].inits, send[w].tries + 1, send[w].landed, send[w].part)
    BY <1>0, <2>1, SendWritten
  <2>4. send[w].tries + 1 \in 0 .. MaxRetries /\ send[w].tries + 1 < MaxPartRetries
    BY <1>0, <1>1, <1>3 DEF SendBounds
  <2>5. SendBounds(w)'
    BY <1>0, <2>3, <2>4, SendIsBounded DEF SendBounds
  <2>6. Tallied(w)
    <3>1. - OfPart(w) = send[w].part - 1 - task[w].n /\ - OfPart(w) \in Int
      BY <1>1 DEF OfPart
    <3>2. Adds(w, - OfPart(w))
      BY <1>0, <2>1, <3>1, Added
    <3>3. task'[w].n = send[w].part - 1
      BY <2>2 DEF Becomes
    <3> QED BY <3>1, <3>2, <3>3 DEF Tallied
  <2>7. /\ send'[w].part = send[w].part /\ send'[w].tries = send[w].tries + 1
        /\ send[w].part - 1 \in 0 .. Size + 1
    BY <1>1, <2>3 DEF SendIs
  <2>8. Fit("hold", send[w].part - 1, task[w].err, send'[w]) /\ "hold" \notin Slots /\ "hold" \notin Waiting
    BY <1>1, <2>4, <2>7 DEF Fit, Slots, Waiting
  <2> QED BY <1>0, <1>1, <2>2, <2>5, <2>6, <2>7, <2>8, GoesTo
<1> QED BY <1>2, <1>3

LEMMA PushGoesOn ==
  ASSUME Shape, PushShape, NEW w \in PushTasks, Measured(w), Sent(w), job[w[1]].token \in Nat,
         UNCHANGED pullVars, PushStep(w) \/ PushFault(w)
  PROVE  Goes(w)
BY AnnouncesGoes, ExistsGoes, CancelUploadGoes, RetryUploadGoes, InitGoes, TokenFailsGoes, PutGoes,
   CommitGoes, PartGoes, RetryPartGoes DEF PushStep, PushFault

-----------------------------------------------------------------------------
(* A task of a pull: the same, and where its body is.                        *)

FetchIs(w, from, base, off, slow) ==
  /\ fetch'[w].from = from /\ fetch'[w].base = base
  /\ fetch'[w].off = off /\ fetch'[w].slow = slow

FetchAsBefore(w) == FetchIs(w, fetch[w].from, fetch[w].base, fetch[w].off, fetch[w].slow)

LEMMA FetchWritten ==
  ASSUME PullShape, NEW w \in Tasks, NEW k
  PROVE  LET f == fetch[w] IN
         /\ UNCHANGED fetch => FetchAsBefore(w)
         /\ fetch' = [fetch EXCEPT ![w].fd = k] => FetchAsBefore(w)
         /\ fetch' = [fetch EXCEPT ![w].cause = k] => FetchAsBefore(w)
         /\ fetch' = [fetch EXCEPT ![w].silent = k] => FetchAsBefore(w)
         /\ fetch' = [fetch EXCEPT ![w].from = k] => FetchIs(w, k, f.base, f.off, f.slow)
         /\ fetch' = [fetch EXCEPT ![w].base = k] => FetchIs(w, f.from, k, f.off, f.slow)
<1>1. fetch \in [Tasks -> FetchType] /\ fetch[w] \in FetchType
  BY DEF PullShape
<1> QED BY <1>1 DEF FetchType, FetchIs, FetchAsBefore

\* The steps that pulls have.
Fetches(w) == Goes(w) /\ Offsets(w)' /\ send'[w].part = 0

PullPlaces == {"hold", "resolve", "stat", "ask", "open", "read", "drain", "verify", "rename",
               "settle", "backoff", "ended"}

LEMMA PullGoesTo ==
  ASSUME Shape, NEW w \in PullTasks, Measured(w), AtWork(w), UNCHANGED pushVars,
         task[w].pc # "head",
         NEW pc \in PullPlaces, NEW n \in 0 .. Size + 1, NEW slot, NEW err,
         NEW attempt \in 0 .. MaxRetries, Becomes(w, pc, n, slot, err, attempt), slot <=> pc \in Slots,
         NEW from \in 0 .. Size, NEW base \in 0 .. Size, NEW off \in 0 .. Size + 1, NEW slow \in Nat,
         FetchIs(w, from, base, off, slow),
         pc \notin {"ask", "settle"} => from <= base, pc = "read" => off <= n,
         pc \in {"hold", "resolve", "stat", "ask", "open", "backoff"} => n = 0,
         pc = "rename" \/ (pc = "ended" /\ err = "none") => n = Size,
         Adds(w, n - task[w].n)
  PROVE  Fetches(w)
<1>0. /\ w \in Tasks /\ send'[w] = send[w] /\ marked' = marked /\ send[w].part = 0
      /\ pc \notin Waiting /\ pc \notin {"none", "head", "checked", "put", "patch", "cdn", "part",
                                         "commit", "finalize", "queued", "init"}
  BY DEF PullTasks, pushVars, Measured, PullPlaces, Waiting
<1>1. Where(w) # "head"
  BY DEF Where, AtWork, Waiting
<1>2. SendBounds(w)'
  BY <1>0 DEF Measured, SendBounds
<1>3. FetchBounds(w)'
  BY DEF FetchIs, FetchBounds
<1>4. Fit(pc, n, err, send'[w])
  BY <1>0, SizeIs DEF Fit
<1>5. task[w].pc = "queued" => job[w[1]].phase = "running"
  BY DEF AtWork, Active, Resting
<1>6. task'[w].n = n /\ task'[w].pc = pc
  BY DEF Becomes
<1>7. Tallied(w)
  BY <1>6 DEF Tallied
<1>8. Goes(w)
  BY <1>0, <1>1, <1>2, <1>3, <1>4, <1>5, <1>7, GoesTo
<1>9. Offsets(w)'
  BY <1>6 DEF Offsets, FetchIs
<1> QED BY <1>0, <1>8, <1>9 DEF Fetches

\* What is known of a task of a pull.
LEMMA PullMeasured ==
  ASSUME Shape, NEW w \in PullTasks, Measured(w)
  PROVE  /\ w \in Tasks /\ w[1] \in Jobs /\ w[2] \in Blobs /\ task[w].n \in 0 .. Size + 1
         /\ task[w].n \in Int /\ task[w].attempt \in 0 .. MaxRetries /\ task[w].slot \in BOOLEAN
         /\ fetch[w].from \in 0 .. Size /\ fetch[w].base \in 0 .. Size
         /\ fetch[w].off \in 0 .. Size + 1 /\ fetch[w].slow \in Nat
         /\ Slotted(w) /\ Reports(w) /\ Offsets(w) /\ send[w].part = 0
         /\ task[w].n - task[w].n = 0
<1>1. w \in Tasks /\ w[1] \in Jobs /\ w[2] \in Blobs
  BY TaskIs DEF PullTasks
<1>2. task[w].slot \in BOOLEAN /\ task[w].n \in Int
  BY <1>1 DEF Shape, TaskType
<1> QED BY <1>1, <1>2 DEF Measured, TaskBounds, FetchBounds

\* An attempt that fails keeps what it has reported until that is settled.
LEMMA PullFails ==
  ASSUME Shape, NEW w \in PullTasks, Measured(w), AtWork(w), UNCHANGED <<job, pushVars>>,
         task[w].pc # "head",
         NEW err, Fail(w, err, "settle"), FetchAsBefore(w)
  PROVE  Fetches(w)
<1>0. w \in Tasks
  BY DEF PullTasks
<1>1. Becomes(w, "settle", task[w].n, "settle" = "drain", err, task[w].attempt)
  BY <1>0, WrittenFail
<1>2. "settle" \in PullPlaces /\ "settle" \notin Slots
  BY DEF PullPlaces, Slots
<1>3. Adds(w, task[w].n - task[w].n)
  BY <1>0, PullMeasured, Added
<1> QED BY <1>1, <1>2, <1>3, PullMeasured, PullGoesTo DEF FetchAsBefore

\* A step that changes its place only.
LEMMA PullGoto ==
  ASSUME Shape, NEW w \in PullTasks, Measured(w), AtWork(w), UNCHANGED <<job, pushVars>>,
         task[w].pc # "head",
         NEW pc \in PullPlaces, NEW slot \in BOOLEAN,
         Becomes(w, pc, task[w].n, slot, task[w].err, task[w].attempt), slot <=> pc \in Slots,
         FetchAsBefore(w), pc \notin {"ask", "settle"} => fetch[w].from <= fetch[w].base, pc # "read",
         pc \in {"hold", "resolve", "stat", "ask", "open", "backoff"} => task[w].n = 0,
         pc = "rename" \/ (pc = "ended" /\ task[w].err = "none") => task[w].n = Size
  PROVE  Fetches(w)
<1>1. Adds(w, task[w].n - task[w].n)
  BY PullMeasured, Added
<1> QED BY <1>1, PullMeasured, PullGoesTo DEF FetchAsBefore

\* Steps that pulls have like pushes.
LEMMA BeginsGoes ==
  ASSUME Shape, PullShape, NEW w \in PullTasks, Measured(w), AtWork(w), Begins(w),
         UNCHANGED <<pullVars, pushVars>>
  PROVE  Fetches(w)
<1>0. /\ w \in Tasks /\ UNCHANGED <<send, fetch, marked>> /\ task[w].slot \in BOOLEAN
      /\ SendBounds(w)' /\ FetchBounds(w)' /\ Slotted(w) /\ Reports(w) /\ FetchAsBefore(w)
      /\ send[w].part = 0 /\ TRUE \in BOOLEAN /\ FALSE \in BOOLEAN
  BY SendStaysBounded, PullMeasured, FetchWritten DEF pushVars, pullVars
<1>1. /\ task[w].pc \in Starting
      /\ fetch[w].from = 0 /\ fetch[w].from <= fetch[w].base /\ fetch'[w] = fetch[w]
      /\ task[w].pc = "queued" => job[w[1]].phase = "running"
      /\ task[w].pc \in Waiting => task[w].back = "resolve"
  <2>1. task[w].pc \in Starting
    BY DEF Begins, SemAcquire, SemCancelled, HoldBody, RefreshToken, GetToken, BackedOff,
       BackoffCancelled, At, Starting, Waiting
  <2>2. fetch[w].from = 0 /\ fetch[w].base \in 0 .. Size
    BY <2>1, PullMeasured DEF AtWork
  <2> QED BY <1>0, <2>1, <2>2, SizeIs DEF AtWork, Active, Resting
<1>2. CASE SemAcquire(w, "hold") \/ BackedOff(w, "hold")
  <2>1. task[w].pc \in {"queued", "backoff"} /\ Goto(w, "hold") /\ UNCHANGED job
    BY <1>2 DEF SemAcquire, BackedOff, At
  <2>2. Becomes(w, "hold", task[w].n, task[w].slot, task[w].err, task[w].attempt)
    BY <1>0, <2>1, Written
  <2>3. Where(w) \in {"queued", "backoff"}
    BY <2>1 DEF Where, Waiting
  <2>4. task[w].n = 0 /\ ~ task[w].slot
    BY <1>0, <2>3 DEF Reports, Fit, Slotted, Slots
  <2>5. "hold" \in PullPlaces /\ "hold" \notin Slots
    BY DEF PullPlaces, Slots
  <2> QED BY <1>0, <1>1, <2>1, <2>2, <2>4, <2>5, PullGoto
<1>3. CASE SemCancelled(w) \/ BackoffCancelled(w)
  <2>1. task' = [task EXCEPT ![w] = Failed(w, "cancelled")] /\ UNCHANGED job
    BY <1>3 DEF SemCancelled, BackoffCancelled
  <2>2. Goes(w)
    BY <1>0, <1>1, <2>1, FailedGoes
  <2>3. Becomes(w, "ended", task[w].n, FALSE, "cancelled", task[w].attempt)
    BY <1>0, <2>1, WrittenFailed
  <2>4. Offsets(w)'
    BY <1>1, <2>3 DEF Offsets, Becomes
  <2> QED BY <1>0, <2>2, <2>4 DEF Fetches
<1>4. CASE HoldBody(w, "hold", "resolve")
  <2>1. /\ task[w].pc = "hold" /\ UNCHANGED job
        /\ task' = [task EXCEPT ![w] = [@ EXCEPT !.pc = "resolve", !.slot = TRUE]]
    BY <1>4 DEF HoldBody, At
  <2>2. Becomes(w, "resolve", task[w].n, TRUE, task[w].err, task[w].attempt)
    BY <1>0, <2>1, WrittenSlot
  <2>3. Where(w) = "hold"
    BY <2>1 DEF Where, Waiting
  <2>4. task[w].n = 0
    BY <1>0, <2>3 DEF Reports, Fit
  <2>5. "resolve" \in PullPlaces /\ "resolve" \in Slots
    BY DEF PullPlaces, Slots
  <2> QED BY <1>0, <1>1, <2>1, <2>2, <2>4, <2>5, PullGoto
<1>5. CASE RefreshToken(w) \/ GetToken(w)
  <2>1. Goes(w)
    BY <1>0, <1>5, RefreshGoes
  <2>2. PICK pc \in {"getToken", task[w].back} : Goto(w, pc)
    BY <1>5 DEF RefreshToken, GetToken
  <2>3. Becomes(w, pc, task[w].n, task[w].slot, task[w].err, task[w].attempt)
    BY <1>0, <2>2, Written
  <2>4. task[w].pc \in Waiting
    BY <1>5 DEF RefreshToken, GetToken, At, Waiting
  <2>5. task'[w].pc \in {"getToken", "resolve"}
    BY <1>1, <2>3, <2>4 DEF Becomes
  <2>6. Offsets(w)'
    BY <1>1, <2>5 DEF Offsets
  <2> QED BY <1>0, <2>1, <2>6 DEF Fetches
<1> QED BY <1>2, <1>3, <1>4, <1>5 DEF Begins

LEMMA ResolveGoes ==
  ASSUME Shape, PullShape, NEW w \in PullTasks, Measured(w), AtWork(w), Resolve(w), UNCHANGED pushVars,
         job[w[1]].token \in Nat
  PROVE  Fetches(w)
<1>0. /\ w \in Tasks /\ UNCHANGED <<job, send, fetch, marked>> /\ task[w].slot \in BOOLEAN
      /\ SendBounds(w)' /\ FetchBounds(w)' /\ Slotted(w) /\ Reports(w) /\ FetchAsBefore(w)
      /\ task[w].pc = "resolve" /\ Where(w) = "resolve" /\ send[w].part = 0
  BY SendStaysBounded, PullMeasured, FetchWritten DEF pushVars, pullVars, Resolve, At, Where, Waiting
<1>1. fetch[w].from <= fetch[w].base /\ fetch'[w] = fetch[w] /\ task[w].n = 0 /\ task[w].slot
  BY <1>0, PullMeasured DEF Offsets, Reports, Fit, Slotted, Slots
<1>2. CASE Goto(w, "stat")
  <2>1. Becomes(w, "stat", task[w].n, task[w].slot, task[w].err, task[w].attempt)
    BY <1>0, <1>2, Written
  <2>2. "stat" \in PullPlaces /\ "stat" \in Slots
    BY DEF PullPlaces, Slots
  <2> QED BY <1>0, <1>1, <2>1, <2>2, PullGoto
<1>3. CASE Unauthorized(w, "resolve")
  <2>1. Goes(w)
    BY <1>0, <1>3, RefusedGoes
  <2>2. task'[w].pc = "refresh"
    BY <1>0, <1>3, WrittenRefused
  <2> QED BY <1>0, <1>1, <2>1, <2>2 DEF Fetches, Offsets
<1> QED BY <1>2, <1>3 DEF Resolve

LEMMA PullFailsGoes ==
  ASSUME Shape, PullShape, NEW w \in PullTasks, Measured(w), AtWork(w), UNCHANGED pushVars,
         RequestFails(w) \/ Drain(w) \/ Break(w)
  PROVE  Fetches(w)
<1>0. w \in Tasks
  BY DEF PullTasks
<1>1. CASE RequestFails(w)
  BY <1>0, <1>1, PullFails, FetchWritten DEF RequestFails, pullVars
<1>2. CASE Drain(w)
  BY <1>0, <1>2, PullFails, FetchWritten DEF Drain, pullVars, At
<1>3. CASE Break(w)
  BY <1>0, <1>3, PullFails, FetchWritten DEF Break, At
<1> QED BY <1>1, <1>2, <1>3

LEMMA InterruptGoes ==
  ASSUME Shape, PullShape, NEW w \in PullTasks, Measured(w), AtWork(w), UNCHANGED pushVars, Interrupt(w)
  PROVE  Fetches(w)
<1>0. w \in Tasks
  BY DEF PullTasks
<1>1. PICK err : Fail(w, err, "settle")
  BY DEF Interrupt
<1>2. task[w].pc # "head" /\ UNCHANGED job /\ fetch' = [fetch EXCEPT ![w].fd = "none"]
  BY DEF Interrupt
<1>3. FetchAsBefore(w)
  BY <1>0, <1>2, FetchWritten
<1> QED BY <1>1, <1>2, <1>3, PullFails

\* Steps that change neither where a task is nor what it reports.
LEMMA ListensGoes ==
  ASSUME Shape, PullShape, NEW w \in PullTasks, Measured(w), AtWork(w), UNCHANGED pushVars,
         FallSilent(w) \/ SpeaksAgain(w) \/ Watchdog(w)
  PROVE  Fetches(w)
<1>0. w \in Tasks /\ task[w].pc \in {"read", "drain"} /\ UNCHANGED <<job, task>>
  BY DEF PullTasks, FallSilent, SpeaksAgain, Watchdog, At
<1>m. /\ w \in Tasks /\ task[w].n \in 0 .. Size + 1 /\ task[w].attempt \in 0 .. MaxRetries
      /\ fetch[w].from \in 0 .. Size /\ fetch[w].base \in 0 .. Size
      /\ fetch[w].off \in 0 .. Size + 1 /\ fetch[w].slow \in Nat
  BY PullMeasured
<1>1. FetchAsBefore(w)
  BY <1>0, FetchWritten DEF FallSilent, SpeaksAgain, Watchdog
<1>2. Becomes(w, task[w].pc, task[w].n, task[w].slot, task[w].err, task[w].attempt)
  BY <1>0 DEF Becomes
<1>3. task[w].pc \in PullPlaces /\ task[w].pc \in Slots /\ Where(w) = task[w].pc
  BY <1>0 DEF PullPlaces, Slots, Where, Waiting
<1>4. task[w].slot /\ fetch[w].from <= fetch[w].base /\ (task[w].pc = "read" => fetch[w].off <= task[w].n)
  BY <1>0, <1>3, PullMeasured DEF Slotted, Offsets
<1>5. Adds(w, task[w].n - task[w].n)
  BY <1>0, PullMeasured, Added
<1>6. PICK pc \in {"read", "drain"} : task[w].pc = pc
  BY <1>0
<1>7. /\ Becomes(w, pc, task[w].n, task[w].slot, task[w].err, task[w].attempt) /\ pc \in PullPlaces
      /\ pc \in Slots /\ (pc = "read" => fetch[w].off <= task[w].n)
  BY <1>2, <1>3, <1>4, <1>6
<1> QED BY ONLY Shape, w \in PullTasks, Measured(w), AtWork(w), UNCHANGED pushVars,
     <1>m, <1>1, <1>4, <1>5, <1>6, <1>7, PullGoesTo, ZenonT(120) DEF FetchAsBefore

LEMMA BodyEndsGoes ==
  ASSUME Shape, PullShape, NEW w \in PullTasks, Measured(w), AtWork(w), UNCHANGED pushVars, BodyEnds(w)
  PROVE  Fetches(w)
<1>0. w \in Tasks /\ task[w].pc = "read" /\ UNCHANGED job /\ Goto(w, "verify") /\ Where(w) = "read"
  BY DEF PullTasks, BodyEnds, At, Where, Waiting
<1>1. FetchAsBefore(w)
  BY <1>0, FetchWritten DEF BodyEnds
<1>2. Becomes(w, "verify", task[w].n, task[w].slot, task[w].err, task[w].attempt)
  BY <1>0, Written
<1>3. "verify" \in PullPlaces /\ "verify" \in Slots /\ task[w].slot /\ fetch[w].from <= fetch[w].base
  BY <1>0, PullMeasured DEF PullPlaces, Slots, Slotted, Offsets
<1> QED BY <1>0, <1>1, <1>2, <1>3, PullMeasured, PullGoto

LEMMA StatGoes ==
  ASSUME Shape, PullShape, NEW w \in PullTasks, Measured(w), AtWork(w), UNCHANGED pushVars, Stat(w)
  PROVE  Fetches(w)
<1> DEFINE tmp == disk[w[2]].tmp
           kept == w[2] \in Large /\ tmp # None
           from == IF kept /\ Len(tmp) < Size THEN Len(tmp) ELSE 0
<1>0. w \in Tasks /\ task[w].pc = "stat" /\ UNCHANGED job /\ Goto(w, "ask") /\ Where(w) = "stat"
  BY DEF PullTasks, Stat, At, Where, Waiting
<1>m. /\ w \in Tasks /\ task[w].n \in 0 .. Size + 1 /\ task[w].attempt \in 0 .. MaxRetries
      /\ fetch[w].from \in 0 .. Size /\ fetch[w].base \in 0 .. Size
      /\ fetch[w].off \in 0 .. Size + 1 /\ fetch[w].slow \in Nat
  BY PullMeasured
<1>1. /\ Becomes(w, "ask", task[w].n, task[w].slot, task[w].err, task[w].attempt)
      /\ "ask" \in PullPlaces /\ "ask" \in Slots
  BY <1>0, Written DEF PullPlaces, Slots
<1>2. task[w].slot /\ task[w].n = 0 /\ Adds(w, task[w].n - task[w].n)
  BY <1>0, PullMeasured, Added DEF Slotted, Reports, Fit, Slots
<1>3. CASE kept /\ Len(tmp) > Size
  <2>1. RemoveTmp(w[2], fetch)
    BY <1>3 DEF Stat
  <2>2. Reopened(fetch, fetch', w[2])
    BY <1>0, <2>1, PullMeasured, RemoveTmpIs DEF PullShape
  <2>3. FetchAsBefore(w)
    BY <1>0, <2>2 DEF Reopened, FetchAsBefore, FetchIs
  <2> QED BY <1>m, <1>0, <1>1, <1>2, <2>3, PullGoesTo, ZenonT(120) DEF FetchAsBefore
<1>4. CASE ~ (kept /\ Len(tmp) > Size)
  <2>1. fetch' = [fetch EXCEPT ![w].from = from]
    BY <1>0, <1>4 DEF Stat, PullShape
  <2>2. kept => Len(tmp) \in Nat
    BY <1>0, PullMeasured DEF PullShape, File
  <2>3. from \in 0 .. Size
    BY <2>2, SizeIs
  <2> HIDE DEF from
  <2>4. FetchIs(w, from, fetch[w].base, fetch[w].off, fetch[w].slow)
    BY <1>0, <2>1, FetchWritten
  <2>5. PICK k \in 0 .. Size : FetchIs(w, k, fetch[w].base, fetch[w].off, fetch[w].slow)
    BY <2>3, <2>4
  <2> QED BY ONLY Shape, w \in PullTasks, Measured(w), AtWork(w), UNCHANGED pushVars,
       <1>m, <1>0, <1>1, <1>2, <2>5, PullGoesTo, ZenonT(120)
<1> QED BY <1>3, <1>4

LEMMA AskGoes ==
  ASSUME Shape, PullShape, NEW w \in PullTasks, Measured(w), AtWork(w), UNCHANGED pushVars, Ask(w)
  PROVE  Fetches(w)
<1>0. w \in Tasks /\ task[w].pc = "ask" /\ UNCHANGED job /\ Where(w) = "ask"
  BY DEF PullTasks, Ask, At, Where, Waiting
<1>m. /\ w \in Tasks /\ task[w].n \in 0 .. Size + 1 /\ task[w].attempt \in 0 .. MaxRetries
      /\ fetch[w].from \in 0 .. Size /\ fetch[w].base \in 0 .. Size
      /\ fetch[w].off \in 0 .. Size + 1 /\ fetch[w].slow \in Nat
  BY PullMeasured
<1>1. /\ Goto(w, "open") => Becomes(w, "open", task[w].n, task[w].slot, task[w].err, task[w].attempt)
      /\ "open" \in PullPlaces /\ "open" \in Slots
  BY <1>0, Written DEF PullPlaces, Slots
<1>2. /\ task[w].slot /\ task[w].n = 0 /\ Adds(w, task[w].n - task[w].n)
      /\ 0 <= fetch[w].base /\ 0 \in 0 .. Size
  <2>1. task[w].slot /\ task[w].n = 0
    BY <1>0, PullMeasured DEF Slotted, Reports, Fit, Slots
  <2>2. Adds(w, task[w].n - task[w].n)
    BY <1>0, PullMeasured, Added
  <2> QED BY <1>m, <2>1, <2>2, SizeIs
<1>3. CASE Goto(w, "open") /\ fetch' = [fetch EXCEPT ![w].from = 0]
  <2>1. FetchIs(w, 0, fetch[w].base, fetch[w].off, fetch[w].slow)
    BY <1>0, <1>3, FetchWritten
  <2> QED BY <1>m, <1>0, <1>1, <1>2, <1>3, <2>1, PullGoesTo, ZenonT(120)
<1>4. CASE Goto(w, "open") /\ fetch' = [fetch EXCEPT ![w].base = fetch[w].from]
  <2>1. FetchIs(w, fetch[w].from, fetch[w].from, fetch[w].off, fetch[w].slow)
    BY <1>0, <1>4, FetchWritten
  <2>2. fetch[w].from <= fetch[w].from
    BY PullMeasured, SizeIs
  <2> QED BY <1>m, <1>0, <1>1, <1>2, <1>4, <2>1, <2>2, PullGoesTo, ZenonT(120)
<1>5. CASE Fail(w, "error", "settle") /\ UNCHANGED fetch
  BY <1>0, <1>5, PullFails, FetchWritten
<1> QED BY <1>3, <1>4, <1>5 DEF Ask

LEMMA VerifyGoes ==
  ASSUME Shape, PullShape, NEW w \in PullTasks, Measured(w), AtWork(w), UNCHANGED pushVars, Verify(w)
  PROVE  Fetches(w)
<1>0. w \in Tasks /\ task[w].pc = "verify" /\ UNCHANGED job /\ Where(w) = "verify"
  BY DEF PullTasks, Verify, At, Where, Waiting
<1>1. CASE task[w].n = Size /\ Goto(w, "rename") /\ UNCHANGED fetch
  <2>1. /\ Becomes(w, "rename", task[w].n, task[w].slot, task[w].err, task[w].attempt)
        /\ "rename" \in PullPlaces /\ "rename" \in Slots /\ task[w].slot
        /\ fetch[w].from <= fetch[w].base
    BY <1>0, <1>1, Written, PullMeasured DEF PullPlaces, Slots, Slotted, Offsets
  <2>2. FetchAsBefore(w)
    BY <1>0, <1>1, FetchWritten
  <2> QED BY <1>0, <1>1, <2>1, <2>2, PullMeasured, PullGoto
<1>2. CASE Fail(w, "error", "settle") /\ RemoveTmp(w[2], fetch)
  <2>1. Reopened(fetch, fetch', w[2])
    BY <1>0, <1>2, PullMeasured, RemoveTmpIs DEF PullShape
  <2>2. FetchAsBefore(w)
    BY <1>0, <2>1 DEF Reopened, FetchAsBefore, FetchIs
  <2> QED BY <1>0, <1>2, <2>2, PullFails
<1> QED BY <1>1, <1>2 DEF Verify

LEMMA NewFetchIs == /\ NewFetch.from = 0 /\ NewFetch.base = 0 /\ NewFetch.off = 0 /\ NewFetch.slow = 0
                    /\ 0 \in 0 .. Size /\ 0 \in 0 .. Size + 1
BY SizeIs DEF NewFetch

LEMMA RenameGoes ==
  ASSUME Shape, PullShape, NEW w \in PullTasks, Measured(w), AtWork(w), UNCHANGED pushVars, Rename(w)
  PROVE  Fetches(w)
<1>0. w \in Tasks /\ task[w].pc = "rename" /\ UNCHANGED job /\ Where(w) = "rename"
  BY DEF PullTasks, Rename, At, Where, Waiting
<1>1. CASE Fail(w, "error", "settle") /\ UNCHANGED fetch
  BY <1>0, <1>1, PullFails, FetchWritten
<1>2. CASE /\ task' = [task EXCEPT ![w] = [@ EXCEPT !.pc = "ended", !.slot = FALSE]]
           /\ fetch' = [Renamed(w[2], fetch, Moved) EXCEPT ![w] = NewFetch]
  <2>1. /\ Becomes(w, "ended", task[w].n, FALSE, task[w].err, task[w].attempt)
        /\ "ended" \in PullPlaces /\ "ended" \notin Slots /\ task[w].n = Size
    <3>1. FALSE \in BOOLEAN
      OBVIOUS
    <3> QED BY <1>0, <1>2, <3>1, WrittenSlot, PullMeasured DEF PullPlaces, Slots, Reports, Fit
  <2>2. FetchIs(w, 0, 0, 0, 0)
    <3>1. Renamed(w[2], fetch, Moved) \in [Tasks -> FetchType]
      BY RenamedIs DEF PullShape, Reopened
    <3>2. fetch'[w] = NewFetch
      BY <1>0, <1>2, <3>1
    <3> QED BY <3>2, NewFetchIs DEF FetchIs
  <2>3. Adds(w, task[w].n - task[w].n)
    BY <1>0, PullMeasured, Added
  <2>4. 0 <= 0 /\ 0 \in Nat
    OBVIOUS
  <2> QED BY <1>0, <2>1, <2>2, <2>3, <2>4, NewFetchIs, PullMeasured, PullGoesTo, ZenonT(120)
<1> QED BY <1>1, <1>2 DEF Rename

LEMMA SettleGoes ==
  ASSUME Shape, PullShape, NEW w \in PullTasks, Measured(w), AtWork(w), UNCHANGED pushVars, Settle(w)
  PROVE  Fetches(w)
<1> DEFINE attempt == task[w].attempt + IF Counts(w) THEN 1 ELSE 0
           slow == fetch[w].slow + IF task[w].err = "slow" THEN 1 ELSE 0
           r == [NewFetch EXCEPT !.slow = slow]
           over == task[w].err = "cancelled" \/ attempt >= MaxRetries
           c == job[w[1]].completed - task[w].n
           pc == IF attempt > 0 THEN "backoff" ELSE "hold"
<1>m. /\ w \in Tasks /\ w[1] \in Jobs /\ w[2] \in Blobs
      /\ task[w].n \in 0 .. Size + 1 /\ task[w].attempt \in 0 .. MaxRetries
      /\ fetch[w].slow \in Nat /\ task[w].n \in Int /\ job[w[1]].completed \in Int
  BY PullMeasured DEF Shape, JobType
<1>0. task[w].pc = "settle" /\ Where(w) = "settle" /\ task[w].err # "none" /\ ~ task[w].slot
  <2>1. task[w].pc = "settle" /\ Where(w) = "settle"
    BY DEF Settle, At, Where, Waiting
  <2> QED BY <2>1, PullMeasured DEF AtWork, Slotted, Slots
<1>1. slow \in Nat /\ attempt \in Nat
  BY <1>m, TransferAssumption
<1>2. FetchIs(w, 0, 0, 0, slow)
  <2>1. /\ r \in FetchType /\ r.fd = "none" /\ r.from = 0 /\ r.base = 0 /\ r.off = 0 /\ r.slow = slow
    <3>1. \A q \in FetchType, k \in Nat :
            LET p == [q EXCEPT !.slow = k] IN
            p \in FetchType /\ p.fd = q.fd /\ p.from = q.from /\ p.base = q.base /\ p.off = q.off /\ p.slow = k
      BY DEF FetchType
    <3>2. NewFetch \in FetchType /\ NewFetch.fd = "none"
      BY NewTyped DEF NewFetch
    <3> HIDE DEF slow
    <3> QED BY <1>1, <3>1, <3>2, NewFetchIs
  <2> DEFINE f == [fetch EXCEPT ![w] = r]
  <2>2. IF w[2] \in Large THEN fetch' = f ELSE RemoveTmp(w[2], f)
    BY DEF Settle
  <2> HIDE DEF r
  <2>3. /\ f \in [Tasks -> FetchType] /\ f[w] = r
        /\ \A v \in Tasks : f[v].fd \in {"none", fetch[v].fd}
    BY <1>m, <2>1 DEF PullShape
  <2> HIDE DEF f
  <2>4. CASE w[2] \in Large
    BY <2>1, <2>2, <2>3, <2>4 DEF FetchIs
  <2>5. CASE w[2] \notin Large
    <3>1. Reopened(f, fetch', w[2])
      BY <1>m, <2>2, <2>3, <2>5, RemoveTmpIs
    <3> QED BY <1>m, <2>1, <2>3, <3>1 DEF Reopened, FetchIs
  <2> QED BY <2>4, <2>5
<1>3. Adds(w, 0 - task[w].n)
  <2>1. c \in Int /\ c - job[w[1]].completed = 0 - task[w].n
    BY <1>m
  <2>2. job' = [job EXCEPT ![w[1]] = [@ EXCEPT !.completed = c,
                                      !.cancelled = job[w[1]].cancelled \/ over]]
    BY DEF Settle
  <2> HIDE DEF c, over
  <2>3. Adds(w, c - job[w[1]].completed)
    BY <1>m, <2>1, <2>2, Added
  <2> QED BY <2>1, <2>3
<1>4. 0 \in 0 .. Size /\ 0 \in 0 .. Size + 1 /\ 0 <= 0
  BY SizeIs
<1>5. CASE over
  <2>1. task' = [task EXCEPT ![w] = [Failed(w, task[w].err) EXCEPT !.n = 0]]
    BY <1>5 DEF Settle
  <2>2. /\ Becomes(w, "ended", 0, FALSE, task[w].err, task[w].attempt)
        /\ "ended" \in PullPlaces /\ "ended" \notin Slots
    BY <1>m, <2>1, WrittenFailed DEF PullPlaces, Slots
  <2> HIDE DEF slow
  <2> QED BY ONLY Shape, w \in PullTasks, Measured(w), AtWork(w), UNCHANGED pushVars,
       <1>m, <1>0, <1>1, <1>2, <1>3, <1>4, <2>2, PullGoesTo
<1>6. CASE ~ over
  <2>1. task' = [task EXCEPT ![w] = [@ EXCEPT !.pc = pc, !.attempt = attempt, !.n = 0, !.err = "none"]]
    BY <1>6 DEF Settle
  <2>2. attempt \in 0 .. MaxRetries
    BY <1>1, <1>6, TransferAssumption
  <2>3. pc \in {"hold", "backoff"}
    OBVIOUS
  <2> HIDE DEF pc, attempt, slow
  <2>4. /\ Becomes(w, pc, 0, task[w].slot, "none", attempt)
        /\ pc \in PullPlaces /\ pc \notin Slots
    BY <1>m, <2>1, <2>3, Written DEF PullPlaces, Slots
  <2> QED BY ONLY Shape, w \in PullTasks, Measured(w), AtWork(w), UNCHANGED pushVars,
       <1>m, <1>0, <1>1, <1>2, <1>3, <1>4, <2>2, <2>3, <2>4, PullGoesTo
<1> QED BY <1>5, <1>6

LEMMA OpenGoes ==
  ASSUME Shape, PullShape, NEW w \in PullTasks, Measured(w), AtWork(w), UNCHANGED pushVars, Open(w)
  PROVE  Fetches(w)
<1> DEFINE tmp == disk[w[2]].tmp
           from == fetch[w].from
           continue == from > 0 /\ tmp # None /\ Len(tmp) >= from
           cut == from > 0 /\ tmp # None /\ Len(tmp) < from
           at == IF continue THEN from ELSE 0
           clean == IF continue THEN \A i \in 1 .. from : tmp[i] ELSE fetch[w].base = 0
           opened == [fetch[w] EXCEPT !.fd = "tmp", !.from = at, !.off = at, !.clean = clean]
           g == IF cut THEN Renamed(w[2], fetch, Unlinked) ELSE fetch
<1>m. /\ w \in Tasks /\ task[w].n \in 0 .. Size + 1 /\ task[w].attempt \in 0 .. MaxRetries
      /\ fetch[w].from \in 0 .. Size /\ fetch[w].base \in 0 .. Size /\ fetch[w].slow \in Nat
      /\ fetch[w] \in FetchType
  BY PullMeasured DEF PullShape
<1>0. /\ task[w].pc = "open" /\ Where(w) = "open" /\ Add(w[1], at)
      /\ task' = [task EXCEPT ![w] = [@ EXCEPT !.pc = "read", !.n = at]]
      /\ fetch' = [g EXCEPT ![w] = opened]
  BY DEF Open, At, Where, Waiting
<1>1. task[w].slot /\ task[w].n = 0 /\ from <= fetch[w].base
  BY <1>0, PullMeasured DEF Slotted, Reports, Fit, Slots, Offsets
<1>2. at \in 0 .. Size /\ at \in 0 .. Size + 1 /\ at \in Int /\ at <= fetch[w].base /\ at <= at
  BY <1>m, <1>1, SizeIs
<1>3. FetchIs(w, at, fetch[w].base, at, fetch[w].slow)
  <2>1. Renamed(w[2], fetch, Unlinked) \in [Tasks -> FetchType] /\ fetch \in [Tasks -> FetchType]
    BY RenamedIs DEF PullShape, Reopened
  <2>2. g \in [Tasks -> FetchType]
    BY <2>1
  <2> HIDE DEF g, at, clean
  <2>3. opened.from = at /\ opened.base = fetch[w].base /\ opened.off = at /\ opened.slow = fetch[w].slow
    BY <1>m DEF FetchType
  <2> HIDE DEF opened
  <2>4. fetch'[w] = opened
    BY <1>m, <1>0, <2>2
  <2> QED BY <2>3, <2>4 DEF FetchIs
<1> HIDE DEF g, at, clean, opened, continue
<1>4. /\ Becomes(w, "read", at, task[w].slot, task[w].err, task[w].attempt)
      /\ "read" \in PullPlaces /\ "read" \in Slots
  BY <1>m, <1>0, Written DEF PullPlaces, Slots
<1>5. Adds(w, at - task[w].n)
  <2>1. at - task[w].n = at
    BY <1>1, <1>2
  <2> QED BY <1>m, <1>0, <1>2, <2>1, Added
<1> QED BY ONLY Shape, w \in PullTasks, Measured(w), AtWork(w), UNCHANGED pushVars,
     <1>m, <1>0, <1>1, <1>2, <1>3, <1>4, <1>5, PullGoesTo

LEMMA ReceivesGoes ==
  ASSUME Shape, PullShape, NEW w \in PullTasks, Measured(w), AtWork(w), UNCHANGED pushVars,
         NEW right, NEW lost, Receives(w, right, lost), BodyLeft(w) \/ task[w].n <= Size
  PROVE  Fetches(w)
<1> DEFINE f == fetch[w]
           clean == f.clean /\ right /\ f.base + task[w].n - f.from < Size /\ f.base = f.from
           off == IF lost THEN f.off ELSE f.off + 1
           fd == IF f.cause = "none" THEN f.fd ELSE "none"
           pc == IF f.cause = "none" THEN task[w].pc ELSE "drain"
           err == IF f.cause = "none" THEN task[w].err ELSE f.cause
<1>m. /\ w \in Tasks /\ task[w].n \in 0 .. Size + 1 /\ task[w].attempt \in 0 .. MaxRetries
      /\ f.from \in 0 .. Size /\ f.base \in 0 .. Size /\ f.slow \in Nat /\ f.off \in 0 .. Size + 1
      /\ task[w].n \in Int /\ f \in FetchType
  BY PullMeasured DEF PullShape
<1>0. /\ task[w].pc = "read" /\ Where(w) = "read" /\ Add(w[1], 1)
      /\ task' = [task EXCEPT ![w] = [@ EXCEPT !.n = task[w].n + 1, !.pc = pc, !.err = err]]
  BY DEF Receives, At, Where, Waiting
<1>1. task[w].slot /\ f.from <= f.base /\ f.off <= task[w].n
  BY <1>0, PullMeasured DEF Slotted, Slots, Offsets
<1>2. task[w].n + 1 \in 0 .. Size + 1 /\ off \in 0 .. Size + 1 /\ off <= task[w].n + 1
  BY <1>m, <1>1, SizeIs DEF BodyLeft
<1>3. FetchIs(w, f.from, f.base, off, f.slow)
  <2>1. fetch' = [fetch EXCEPT ![w] = [@ EXCEPT
                    !.clean = f.clean /\ right /\ f.base + task[w].n - f.from < Size /\ f.base = f.from,
                    !.off = IF lost THEN f.off ELSE f.off + 1,
                    !.fd = IF f.cause = "none" THEN f.fd ELSE "none"]]
    BY DEF Receives
  <2> DEFINE r == [f EXCEPT !.clean = clean, !.off = off, !.fd = fd]
  <2>2. fetch'[w] = r
    BY <1>m, <2>1 DEF PullShape
  <2> HIDE DEF clean, off, fd
  <2>3. r.from = f.from /\ r.base = f.base /\ r.off = off /\ r.slow = f.slow
    BY <1>m DEF FetchType
  <2> QED BY <2>2, <2>3 DEF FetchIs
<1>4. pc \in {"read", "drain"}
  BY <1>0
<1> HIDE DEF pc, err, off
<1>5. /\ Becomes(w, pc, task[w].n + 1, task[w].slot, err, task[w].attempt)
      /\ pc \in PullPlaces /\ pc \in Slots
  BY <1>m, <1>0, <1>4, Written DEF PullPlaces, Slots
<1>6. Adds(w, task[w].n + 1 - task[w].n)
  <2>1. task[w].n + 1 - task[w].n = 1 /\ 1 \in Int
    BY <1>m
  <2> QED BY <1>m, <1>0, <2>1, Added
<1>7. PICK n \in 0 .. Size + 1 : n = task[w].n + 1
  BY <1>2
<1>8. PICK k \in 0 .. Size + 1 : k = off
  BY <1>2
<1>9. /\ Becomes(w, pc, n, task[w].slot, err, task[w].attempt) /\ FetchIs(w, f.from, f.base, k, f.slow)
      /\ k <= n /\ Adds(w, n - task[w].n) /\ pc \in PullPlaces /\ pc \in Slots
  <2>1. Becomes(w, pc, n, task[w].slot, err, task[w].attempt) /\ pc \in PullPlaces /\ pc \in Slots
    BY <1>5, <1>7, Zenon
  <2>2. FetchIs(w, f.from, f.base, k, f.slow) /\ k <= n
    BY <1>2, <1>3, <1>7, <1>8, Zenon
  <2>3. Adds(w, n - task[w].n)
    BY <1>m, <1>6, <1>7 DEF Adds
  <2> QED BY <2>1, <2>2, <2>3
<1>10. /\ pc \notin {"hold", "resolve", "stat", "ask", "open", "backoff", "rename", "ended"}
       /\ task[w].pc # "head"
  BY <1>0, <1>4
<1> QED BY ONLY Shape, w \in PullTasks, Measured(w), AtWork(w), UNCHANGED pushVars,
     n \in 0 .. Size + 1, k \in 0 .. Size + 1, <1>m, <1>1, <1>9, <1>10, PullGoesTo

LEMMA PullGoesOn ==
  ASSUME Shape, PullShape, NEW w \in PullTasks, Measured(w), AtWork(w), job[w[1]].token \in Nat,
         UNCHANGED pushVars, PullStep(w) \/ PullFault(w)
  PROVE  Fetches(w)
<1>1. CASE Receive(w) \/ ReceiveBadly(w)
  BY <1>1, ReceivesGoes DEF Receive, ReceiveBadly
<1>2. CASE EndOfBody(w) \/ EndsEarly(w)
  BY <1>2, BodyEndsGoes DEF EndOfBody, EndsEarly
<1> QED BY <1>1, <1>2, BeginsGoes, ResolveGoes, PullFailsGoes, InterruptGoes, ListensGoes, StatGoes,
     AskGoes, VerifyGoes, RenameGoes, SettleGoes, OpenGoes DEF PullStep, PullFault

-----------------------------------------------------------------------------
(* Counting is kept by the steps of tasks.                                   *)

\* Of one job and its tasks.
Elsewhere(j) ==
  /\ \A i \in Jobs : i # j => job'[i] = job[i]
  /\ \A w \in Tasks : w[1] # j => task'[w] = task[w]
  /\ marked.readOn \subseteq marked'.readOn

LEMMA TasksOfIs ==
  ASSUME Shape, NEW j \in Jobs
  PROVE  \A w : w \in TasksOf(j) <=> w \in Tasks /\ w[1] = j /\ w[2] \in job[j].layers
<1>1. job[j].layers \subseteq Blobs
  BY LayersFinite
<1> QED BY <1>1 DEF TasksOf, Tasks

\* What is counted of a job depends on the job and on its tasks.
LEMMA BookedStays ==
  ASSUME Shape, NEW j \in Jobs, Booked(j), marked.readOn \subseteq marked'.readOn,
         job'[j].kind = job[j].kind, job'[j].layers = job[j].layers, job'[j].phase = job[j].phase,
         job'[j].already = job[j].already, job'[j].completed = job[j].completed,
         job'[j].token \in Nat, job'[j].valid \in Nat,
         \A w \in Tasks : w[1] = j => task'[w] = task[w]
  PROVE  Booked(j)'
<1>1. TasksOf(j)' = TasksOf(j) /\ \A w \in TasksOf(j) : task'[w] = task[w]
  BY TasksOfIs DEF TasksOf
<1>2. \A b \in job[j].layers : <<j, b>> \in TasksOf(j)
  BY DEF TasksOf
<1>3. Reported(j)' = Reported(j) /\ Settled(j)' = Settled(j)
  BY <1>1, <1>2 DEF Reported, Settled
<1>4. \A w \in TasksOf(j) : Where(w)' = Where(w)
  BY <1>1 DEF Where
<1>5. Ruined(j) => Ruined(j)'
  BY <1>1 DEF Ruined
<1> QED BY <1>1, <1>3, <1>4, <1>5 DEF Booked, Sum

LEMMA BookedElsewhere ==
  ASSUME Shape, NEW j \in Jobs, Elsewhere(j), NEW i \in Jobs, i # j, Booked(i)
  PROVE  Booked(i)'
<1>1. /\ job'[i] = job[i] /\ job[i].token \in Nat /\ job[i].valid \in Nat
      /\ \A w \in Tasks : w[1] = i => task'[w] = task[w]
  BY DEF Elsewhere, Booked
<1> QED BY <1>1, BookedStays DEF Elsewhere

\* What a step of a task leaves of its job.
JobOn(w) ==
  LET j == w[1] IN
  /\ job'[j].kind = job[j].kind /\ job'[j].layers = job[j].layers /\ job'[j].phase = job[j].phase
  /\ job'[j].already = job[j].already /\ job'[j].valid = job[j].valid /\ job'[j].token \in Nat
  /\ Elsewhere(j)

LEMMA JobsGoOn ==
  ASSUME Shape, NEW w \in Tasks, job[w[1]].token \in Nat, marked.readOn \subseteq marked'.readOn,
         \/ TaskStep(w) /\ JobStep(w)
         \/ RefreshToken(w) \/ GetToken(w)
  PROVE  JobOn(w)
<1>1. w[1] \in Jobs
  BY TaskIs
<1>2. \A v \in Tasks : v[1] # w[1] => task'[v] = task[v]
  BY PlaceSteps DEF PlaceStep
<1>3. CASE JobStep(w)
  BY <1>1, <1>2, <1>3 DEF JobStep, JobOn, Elsewhere, Shape
<1>4. CASE RefreshToken(w)
  BY <1>1, <1>2, <1>4 DEF RefreshToken, JobOn, Elsewhere
<1>5. CASE GetToken(w)
  BY <1>1, <1>2, <1>5 DEF GetToken, JobOn, Elsewhere, Shape, JobType
<1> QED BY <1>3, <1>4, <1>5

\* The job of a task that goes on has counted what the task reports.
LEMMA BookedOn ==
  ASSUME Shape, TokenInv, NEW w \in Tasks, Measured(w), Booked(w[1]), JobOn(w), PlaceStep(w), Goes(w)
  PROVE  Booked(w[1])'
<1> DEFINE j == w[1]
           L == job[j].layers
<1>0. /\ j \in Jobs /\ w[2] \in Blobs /\ w = <<j, w[2]>> /\ task[w].pc \notin Resting
      /\ Walks(w) /\ Tallied(w) /\ TaskBounds(w) /\ TaskBounds(w)' /\ Slotted(w)
  BY TaskIs DEF PlaceStep, Active, Goes, Measured
<1>1. w[2] \in L /\ w \in TasksOf(j)
  BY <1>0, TasksOfIs DEF TokenInv, Asks, Resting
<1>2. /\ TasksOf(j)' = TasksOf(j) /\ job'[j].layers = L
      /\ \A v \in TasksOf(j) : v # w => task'[v] = task[v] /\ Where(v)' = Where(v)
  BY <1>0, TasksOfIs DEF PlaceStep, TasksOf, Where
<1>3. Where(w) \notin Resting
  BY <1>0 DEF Where, Slotted, Resting
<1>4. Where(w) = "queued" => task[w].pc = "queued"
  BY <1>0 DEF Where, Slotted
<1>5. ASSUME job[j].phase = "checking", NEW v \in TasksOf(j)
      PROVE  \/ Where(v)' \in {"head", "queued", "checked"}
             \/ task'[v].pc = "ended" /\ task'[v].err # "none"
  <2>1. CASE v # w
    BY <1>0, <1>2, <1>5, <2>1 DEF Booked
  <2>2. CASE v = w
    <3>1. Where(w) # "queued"
      BY <1>0, <1>4, <1>5 DEF Walks
    <3>2. Where(w) = "head"
      BY <1>0, <1>1, <1>3, <1>5, <3>1 DEF Booked, Resting
    <3> QED BY <1>0, <2>2, <3>2 DEF Walks
  <2> QED BY <2>1, <2>2
<1>6. ASSUME job[j].phase = "running"
      PROVE  /\ job[j].already = Cardinality(Settled(j)') * Size
             /\ \A v \in TasksOf(j) : Where(v)' # "head"
             /\ \/ j \in marked'.readOn \/ Ruined(j)'
                \/ job'[j].completed = job[j].already + Sum(L, Reported(j)')
  <2>1. /\ job[j].already = Cardinality(Settled(j)) * Size /\ Where(w) # "head"
        /\ \A v \in TasksOf(j) : Where(v) # "head"
        /\ j \in marked.readOn \/ Ruined(j) \/ job[j].completed = job[j].already + Sum(L, Reported(j))
        /\ job[j].already \in Nat
    BY <1>0, <1>1, <1>6 DEF Booked
  <2>2. Where(w)' # "head" /\ task'[w].pc \notin {"none", "checked"}
    BY <1>0, <2>1 DEF Walks
  <2>3. Settled(j)' = Settled(j)
    <3>1. \A b \in L : <<j, b>> \in TasksOf(j)
      BY DEF TasksOf
    <3>2. \A b \in L : task'[<<j, b>>].pc \in {"none", "checked"} <=> task[<<j, b>>].pc \in {"none", "checked"}
      BY <1>0, <1>2, <2>2, <3>1 DEF Resting
    <3> QED BY <1>2, <3>2 DEF Settled
  <2>4. CASE j \in marked.readOn
    BY <1>0, <1>2, <2>1, <2>2, <2>3, <2>4 DEF Walks
  <2>5. CASE Ruined(j)
    <3>1. PICK v \in TasksOf(j) : task[v].pc = "ended" /\ task[v].err # "none"
      BY <2>5 DEF Ruined
    <3>2. task'[v] = task[v]
      BY <1>0, <1>2, <3>1 DEF Resting
    <3>3. Ruined(j)'
      BY <1>2, <3>1, <3>2 DEF Ruined
    <3> QED BY <1>2, <2>1, <2>2, <2>3, <3>3
  <2>6. CASE job[j].completed = job[j].already + Sum(L, Reported(j))
    <3>1. CASE j \in marked'.readOn
      BY <1>2, <2>1, <2>2, <2>3, <3>1
    <3>2. CASE task'[w].pc = "ended" /\ task'[w].err # "none"
      <4>1. Ruined(j)'
        BY <1>1, <1>2, <3>2 DEF Ruined
      <4> QED BY <1>2, <2>1, <2>2, <2>3, <4>1
    <3>3. CASE Adds(w, task'[w].n - task[w].n)
      <4>1. IsFiniteSet(L)
        BY <1>0, LayersFinite
      <4>2. /\ Reported(j)[w[2]] = task[w].n /\ Reported(j)'[w[2]] = task'[w].n
            /\ task[w].n \in 0 .. Size + 1 /\ task'[w].n \in 0 .. Size + 1
        BY <1>0, <1>1, <1>2 DEF Reported, TaskBounds
      <4>3. \A b \in L : b # w[2] => Reported(j)'[b] = Reported(j)[b]
        <5>1. ASSUME NEW b \in L, b # w[2] PROVE Reported(j)'[b] = Reported(j)[b]
          <6>1. <<j, b>> \in TasksOf(j) /\ <<j, b>> # w
            BY <1>0, <5>1 DEF TasksOf
          <6> QED BY <1>2, <6>1 DEF Reported
        <5> QED BY <5>1
      <4>4. Sum(L, Reported(j)') = Sum(L, Reported(j)) + (task'[w].n - task[w].n)
        <5>1. \A m, n : /\ m[w[2]] \in 0 .. Size + 1 /\ n[w[2]] \in 0 .. Size + 1
                        /\ \A b \in L : b # w[2] => n[b] = m[b]
                        => Sum(L, n) = Sum(L, m) + (n[w[2]] - m[w[2]])
          BY <1>1, <4>1, SumMoves
        <5> QED BY <4>2, <4>3, <5>1
      <4>5. Sum(L, Reported(j)) \in Nat /\ task'[w].n \in Int /\ task[w].n \in Int
        <5>1. \A n : Sum(L, n) \in Nat
          BY <4>1, SumIsFinite
        <5>2. task'[w].n \in Int /\ task[w].n \in Int
          BY <4>2, SizeIs
        <5> QED BY <5>1, <5>2
      <4>6. job'[j].completed = job[j].already + Sum(L, Reported(j)')
        <5> HIDE DEF L
        <5> QED BY <2>1, <2>6, <3>3, <4>4, <4>5 DEF Adds
      <4> QED BY <1>2, <2>1, <2>2, <2>3, <4>6
    <3> QED BY <1>0, <3>1, <3>2, <3>3 DEF Tallied
  <2> QED BY <2>1, <2>4, <2>5, <2>6
<1>7. job[j].phase \notin {"manifest", "ok"}
  BY <1>0 DEF TokenInv, Asks
<1>8. /\ job'[j].kind = job[j].kind /\ job'[j].phase = job[j].phase
      /\ job'[j].already = job[j].already /\ job'[j].valid \in Nat /\ job'[j].token \in Nat
      /\ job[j].already \in Nat /\ (job[j].kind = "pull" => job[j].phase # "checking")
  BY DEF JobOn, Booked
<1>9. Booked(j)' <=>
        LET r == job'[j] IN
        /\ r.already \in Nat /\ r.token \in Nat /\ r.valid \in Nat
        /\ r.kind = "pull" => r.phase # "checking"
        /\ r.phase = "checking" =>
             \A v \in TasksOf(j)' : \/ Where(v)' \in {"head", "queued", "checked"}
                                    \/ task'[v].pc = "ended" /\ task'[v].err # "none"
        /\ r.phase = "running" =>
             /\ r.already = Cardinality(Settled(j)') * Size
             /\ \A v \in TasksOf(j)' : Where(v)' # "head"
             /\ j \in marked'.readOn \/ Ruined(j)' \/ r.completed = r.already + Sum(r.layers, Reported(j)')
        /\ r.phase \in {"manifest", "ok"} =>
             j \in marked'.readOn \/ r.completed = 0 \/ r.completed = Cardinality(r.layers) * Size
  BY DEF Booked, Sum
<1> QED BY <1>2, <1>5, <1>6, <1>7, <1>8, <1>9

\* A task that does nothing keeps its measure, whatever becomes of its files.
LEMMA MeasuredStays ==
  ASSUME NEW w \in Tasks, Measured(w), task'[w] = task[w], send'[w] = send[w], FetchAsBefore(w),
         w \in PullTasks' => w \in PullTasks
  PROVE  Measured(w)'
<1>1. Where(w)' = Where(w)
  BY DEF Where
<1>2. TaskBounds(w)' /\ SendBounds(w)' /\ FetchBounds(w)' /\ Slotted(w)' /\ Reports(w)'
  BY <1>1 DEF Measured, TaskBounds, SendBounds, FetchBounds, Slotted, Reports, FetchAsBefore, FetchIs
<1>3. Offsets(w) => Offsets(w)'
  BY DEF Offsets, FetchAsBefore, FetchIs
<1> QED BY <1>2, <1>3 DEF Measured

LEMMA FaultsStay ==
  ASSUME NEW w \in Tasks, faults \in Nat,
         PullStep(w) \/ PullFault(w) \/ PushStep(w) \/ PushFault(w)
  PROVE  faults' \in Nat
<1>1. UNCHANGED faults \/ Fault
  BY DEF PullStep, PullFault, Begins, SemAcquire, SemCancelled, HoldBody, RefreshToken, GetToken,
     BackedOff, BackoffCancelled, Interrupt, Settle, Resolve, Stat, Ask, Open, Receive, EndOfBody,
     Drain, Verify, Rename, RequestFails, ReceiveBadly, EndsEarly, Break, FallSilent, SpeaksAgain,
     Watchdog, BodyEnds, Right, PushStep, PushFault, Announces, Exists, ExistsCancelled, CancelUpload,
     RetryUpload, InitUpload, InitGivesUp, Put, PutEnds, Commit, CommitGivesUp, Patch, PartEnds,
     Redirected, PartRefused, RetryPart, ExistsUnknown, ExistsFails, InitFails, TokenFails, PutFails,
     CommitFails, PartFails
<1>2. Fault => faults' = faults - 1 /\ faults > 0
  BY DEF Fault
<1> QED BY <1>1, <1>2

LEMMA TaskCounts ==
  ASSUME TensorInv, Counting, NEW w \in Tasks,
         \/ w \in PullTasks /\ (PullStep(w) \/ PullFault(w)) /\ UNCHANGED pushVars
         \/ w \in PushTasks /\ (PushStep(w) \/ PushFault(w)) /\ UNCHANGED pullVars
  PROVE  Counting'
<1>0. /\ Shape /\ PushShape /\ PullShape /\ TokenInv /\ PushInv /\ PullInv /\ w[1] \in Jobs
      /\ Measured(w) /\ Booked(w[1]) /\ job[w[1]].token \in Nat
  BY TaskIs DEF TensorInv, Counting, Booked
<1>1. \/ TaskStep(w) /\ JobStep(w)
      \/ RefreshToken(w) \/ GetToken(w)
  BY <1>0, PullTaskSteps, PushTaskSteps
<1>2. PlaceStep(w)
  BY <1>0, <1>1, PlaceSteps
<1>3. PullTasks' = PullTasks
  BY <1>2, TaskIs DEF PullTasks, PlaceStep
<1>4. /\ Goes(w) /\ Measured(w)'
      /\ \A v \in Tasks : v # w => send'[v] = send[v] /\ FetchAsBefore(v)
  <2>1. CASE w \in PullTasks /\ (PullStep(w) \/ PullFault(w)) /\ UNCHANGED pushVars
    <3>1. AtWork(w)
      BY <1>0, <2>1 DEF PullInv, Own
    <3>2. Fetches(w)
      BY <1>0, <2>1, <3>1, PullGoesOn
    <3>3. FilesStep(w)
      BY <1>0, <2>1, PullTaskFetches
    <3>4. \A v \in Tasks : v # w => send'[v] = send[v] /\ FetchAsBefore(v)
      BY <2>1, <3>3 DEF FilesStep, Beside, FetchAsBefore, FetchIs, pushVars
    <3> QED BY <1>3, <3>2, <3>4 DEF Fetches, Goes, Measured
  <2>2. CASE w \in PushTasks /\ (PushStep(w) \/ PushFault(w)) /\ UNCHANGED pullVars
    <3>1. Sent(w) /\ w \notin PullTasks
      BY <1>0, <2>2 DEF PushInv, PushTasks, PullTasks
    <3>2. Goes(w)
      BY <1>0, <2>2, <3>1, PushGoesOn
    <3>3. SendStep(w)
      BY <1>0, <2>2, <3>1, PushSends
    <3>4. \A v \in Tasks : v # w => send'[v] = send[v]
      BY <1>0, <3>3 DEF SendStep, PushShape
    <3>5. \A v \in Tasks : FetchAsBefore(v)
      BY <2>2 DEF pullVars, FetchAsBefore, FetchIs
    <3> QED BY <1>3, <3>1, <3>2, <3>4, <3>5 DEF Goes, Measured
  <2> QED BY <2>1, <2>2
<1>5. ASSUME NEW v \in Tasks PROVE Measured(v)'
  <2>1. CASE v = w
    BY <1>4, <2>1
  <2>2. CASE v # w
    <3>1. task'[v] = task[v] /\ Measured(v)
      BY <1>2, <2>2 DEF PlaceStep, Counting
    <3> QED BY <1>3, <1>4, <2>2, <3>1, MeasuredStays
  <2> QED BY <2>1, <2>2
<1>6. JobOn(w)
  BY <1>0, <1>1, <1>4, JobsGoOn DEF Goes, Walks
<1>7. ASSUME NEW j \in Jobs PROVE Booked(j)'
  <2>1. CASE j = w[1]
    BY <1>0, <1>2, <1>4, <1>6, <2>1, BookedOn
  <2>2. CASE j # w[1]
    BY <1>0, <1>6, <2>2, BookedElsewhere DEF JobOn, Counting
  <2> QED BY <2>1, <2>2
<1>8. faults' \in Nat
  BY FaultsStay DEF Counting
<1>9. Tasks' = Tasks
  BY DEF Tasks
<1> QED BY <1>5, <1>7, <1>8, <1>9 DEF Counting

-----------------------------------------------------------------------------
(* ... and by those of jobs.                                                 *)

\* A task that begins.
Fresh(w, pc) ==
  /\ task'[w].pc = pc /\ task'[w].attempt = 0 /\ task'[w].n = 0 /\ ~ task'[w].slot
  /\ task'[w].err = "none" /\ task'[w].prev = 0 /\ task'[w].back = "none"

LEMMA FreshIs ==
  ASSUME NEW w, NEW pc
  PROVE  /\ task'[w] = [NewTask EXCEPT !.pc = pc] => Fresh(w, pc)
         /\ task'[w] = NewTask => Fresh(w, "none")
BY DEF NewTask, Fresh

LEMMA MeasuredAnew ==
  ASSUME NEW w \in Tasks, NEW pc \in {"none", "queued", "head"}, Fresh(w, pc),
         SendBounds(w)', FetchBounds(w)',
         w \in PullTasks' => fetch'[w].from <= fetch'[w].base /\ send'[w].part = 0
  PROVE  Measured(w)'
<1>1. Where(w)' = pc
  BY DEF Fresh, Where, Waiting
<1>2. TaskBounds(w)'
  BY SizeIs, TransferAssumption DEF TaskBounds, Fresh
<1>3. Slotted(w)' /\ Reports(w)'
  BY <1>1 DEF Slotted, Reports, Fit, Fresh, Slots, Waiting
<1>4. w \in PullTasks' => Offsets(w)'
  BY DEF Offsets, Fresh
<1> QED BY <1>2, <1>3, <1>4 DEF Measured

\* A job goes on, and its tasks, the others stay.
LEMMA CountsOn ==
  ASSUME Shape, Counting, NEW j \in Jobs, Elsewhere(j), Booked(j)', faults' \in Nat,
         \A w \in Tasks : Measured(w)'
  PROVE  Counting'
<1>1. \A i \in Jobs : Booked(i)'
  BY BookedElsewhere DEF Counting
<1>2. Tasks' = Tasks
  BY DEF Tasks
<1> QED BY <1>1, <1>2 DEF Counting

\* ... when all tasks stay.
LEMMA TasksStay ==
  ASSUME Shape, Counting, UNCHANGED <<task, fetch, send>>,
         \A j \in Jobs : job'[j].kind = job[j].kind
  PROVE  \A w \in Tasks : Measured(w)'
<1>1. ASSUME NEW w \in Tasks PROVE Measured(w)'
  <2>1. w[1] \in Jobs /\ Measured(w)
    BY TaskIs DEF Counting
  <2>2. FetchAsBefore(w) /\ (w \in PullTasks' => w \in PullTasks)
    BY <2>1 DEF FetchAsBefore, FetchIs, PullTasks, Tasks
  <2> QED BY <2>1, <2>2, MeasuredStays
<1> QED BY <1>1

\* Who waits for its tasks, and none has failed: what was there before and what
\* they report is all there is.
LEMMA WaitBooks ==
  ASSUME Shape, NEW j \in Jobs, Booked(j), job[j].phase = "running",
         \A w \in TasksOf(j) : Measured(w) /\ task[w].pc \in {"none", "checked", "ended"}
                               /\ task[w].err = "none"
  PROVE  j \in marked.readOn \/ job[j].completed = Cardinality(job[j].layers) * Size
<1> DEFINE L == job[j].layers
<1>1. \A b \in L : Reported(j)[b] = IF b \in Settled(j) THEN 0 ELSE Size
  <2>1. ASSUME NEW b \in L PROVE Reported(j)[b] = IF b \in Settled(j) THEN 0 ELSE Size
    <3> DEFINE w == <<j, b>>
    <3>1. w \in TasksOf(j) /\ Reported(j)[b] = task[w].n
      BY DEF TasksOf, Reported
    <3>2. task[w].pc \in {"none", "checked", "ended"} /\ task[w].err = "none" /\ Reports(w)
      BY <3>1 DEF Measured
    <3>3. Fit(task[w].pc, task[w].n, task[w].err, send[w])
      BY <3>2 DEF Reports, Where, Waiting
    <3>4. b \in Settled(j) <=> task[w].pc \in {"none", "checked"}
      BY DEF Settled
    <3> QED BY <3>1, <3>2, <3>3, <3>4 DEF Fit
  <2> QED BY <2>1
<1>2. IsFiniteSet(L) /\ Settled(j) \subseteq L
  BY LayersFinite DEF Settled
<1>3. Cardinality(Settled(j)) * Size + Sum(L, Reported(j)) = Cardinality(L) * Size
  <2>1. \A D \in SUBSET L : \A n : (\A q \in L : n[q] = IF q \in D THEN 0 ELSE Size)
                               => Cardinality(D) * Size + Sum(L, n) = Cardinality(L) * Size
    BY <1>2, SumOfWhole
  <2> QED BY <1>1, <1>2, <2>1
<1>4. ~ Ruined(j)
  BY DEF Ruined
<1> QED BY <1>3, <1>4 DEF Booked

\* A job goes on to a phase.
LEMMA PhaseCounts ==
  ASSUME Shape, Counting, NEW j \in Jobs, NEW phase \in {"manifest", "ok", "failed"},
         UNCHANGED <<task, fetch, send, marked>>, faults' \in Nat,
         job' = [job EXCEPT ![j].phase = phase],
         phase \in {"manifest", "ok"} =>
           j \in marked.readOn \/ job[j].completed = 0 \/ job[j].completed = Cardinality(job[j].layers) * Size
  PROVE  Counting'
<1>1. /\ \A i \in Jobs : i # j => job'[i] = job[i]
      /\ job'[j].kind = job[j].kind /\ job'[j].layers = job[j].layers /\ job'[j].phase = phase
      /\ job'[j].already = job[j].already /\ job'[j].completed = job[j].completed
      /\ job'[j].token = job[j].token /\ job'[j].valid = job[j].valid
  BY DEF Shape, JobType
<1>2. Elsewhere(j)
  BY <1>1 DEF Elsewhere
<1>3. Booked(j)'
  BY <1>1 DEF Booked, Counting
<1>4. \A i \in Jobs : job'[i].kind = job[i].kind
  BY <1>1
<1> QED BY <1>2, <1>3, <1>4, TasksStay, CountsOn

LEMMA WaitCounts ==
  ASSUME TensorInv, Counting, NEW j \in Jobs,
         \/ Wait(j) /\ UNCHANGED pushVars
         \/ UploadsEnd(j) /\ UNCHANGED pullVars
  PROVE  Counting'
<1>0. /\ Shape /\ job[j].phase = "running" /\ UNCHANGED <<task, fetch, send, marked>>
      /\ faults' \in Nat /\ Booked(j)
  BY DEF TensorInv, Wait, UploadsEnd, pushVars, pullVars, Counting
<1>1. PICK phase : /\ phase = (IF \E w \in TasksOf(j) : task[w].err # "none" THEN "failed" ELSE "manifest")
                   /\ job' = [job EXCEPT ![j].phase = phase]
  BY DEF Wait, UploadsEnd
<1>2. ASSUME phase = "manifest"
      PROVE  j \in marked.readOn \/ job[j].completed = Cardinality(job[j].layers) * Size
  <2>1. \A w \in TasksOf(j) : task[w].err = "none" /\ task[w].pc \in {"none", "checked", "ended"}
    BY <1>1, <1>2 DEF Wait, UploadsEnd
  <2>2. \A w \in TasksOf(j) : Measured(w)
    BY <1>0, TasksOfIs DEF Counting
  <2> QED BY <1>0, <2>1, <2>2, WaitBooks
<1>3. phase \in {"manifest", "ok", "failed"} /\ phase # "ok"
  BY <1>1
<1> QED BY <1>0, <1>1, <1>2, <1>3, PhaseCounts

\* ... or its token or its context changes.
LEMMA ContextCounts ==
  ASSUME Shape, Counting, NEW j \in Jobs, UNCHANGED <<task, fetch, send, marked>>, faults' \in Nat,
         \A i \in Jobs : i # j => job'[i] = job[i],
         job'[j].kind = job[j].kind, job'[j].layers = job[j].layers, job'[j].phase = job[j].phase,
         job'[j].already = job[j].already, job'[j].completed = job[j].completed,
         job'[j].token \in Nat, job'[j].valid \in Nat
  PROVE  Counting'
<1>1. Elsewhere(j) /\ Booked(j)
  BY DEF Elsewhere, Counting
<1>2. Booked(j)'
  BY <1>1, BookedStays DEF Elsewhere
<1> QED BY <1>1, <1>2, TasksStay, CountsOn

LEMMA ManifestCounts ==
  ASSUME TensorInv, Counting, NEW j \in Jobs,
         \/ WriteManifest(j) /\ UNCHANGED pushVars
         \/ PushManifest(j) /\ UNCHANGED pullVars
  PROVE  Counting'
<1>0. /\ Shape /\ job[j].phase = "manifest" /\ UNCHANGED <<task, fetch, send, marked>>
      /\ faults' \in Nat /\ Booked(j) /\ job[j] \in JobType
  BY DEF TensorInv, WriteManifest, PushManifest, pushVars, pullVars, Counting, Right, Fault, Shape
<1>1. CASE job' = [job EXCEPT ![j].token = @ + 1]
  <2>1. /\ \A i \in Jobs : i # j => job'[i] = job[i]
        /\ job'[j].kind = job[j].kind /\ job'[j].layers = job[j].layers /\ job'[j].phase = job[j].phase
        /\ job'[j].already = job[j].already /\ job'[j].completed = job[j].completed
        /\ job'[j].token = job[j].token + 1 /\ job'[j].valid = job[j].valid
    BY <1>0, <1>1 DEF Shape, JobType
  <2>2. job'[j].token \in Nat /\ job'[j].valid \in Nat
    BY <1>0, <2>1 DEF Booked
  <2> QED BY <1>0, <2>1, <2>2, ContextCounts
<1>2. CASE \E phase \in {"ok", "failed"} : job' = [job EXCEPT ![j].phase = phase]
  BY <1>0, <1>2, PhaseCounts DEF Booked
<1> QED BY <1>1, <1>2 DEF WriteManifest, PushManifest

LEMMA OutsideCounts ==
  ASSUME TensorInv, Counting, NEW j \in Jobs, TokenExpires(j) \/ ClientLeaves(j),
         UNCHANGED <<pullVars, pushVars>>
  PROVE  Counting'
<1>0. /\ Shape /\ UNCHANGED <<task, fetch, send, marked>> /\ faults' \in Nat /\ Booked(j)
      /\ job[j] \in JobType /\ job[j].token \in Nat /\ job[j].valid \in Nat
  BY DEF TensorInv, TokenExpires, ClientLeaves, pushVars, pullVars, Counting, Fault, Shape, Booked
<1>1. CASE TokenExpires(j)
  <2>1. /\ \A i \in Jobs : i # j => job'[i] = job[i]
        /\ job'[j].kind = job[j].kind /\ job'[j].layers = job[j].layers /\ job'[j].phase = job[j].phase
        /\ job'[j].already = job[j].already /\ job'[j].completed = job[j].completed
        /\ job'[j].token = job[j].token /\ job'[j].valid = job[j].valid + 1
    BY <1>0, <1>1 DEF TokenExpires, Shape, JobType
  <2> QED BY <1>0, <2>1, ContextCounts
<1>2. CASE ClientLeaves(j)
  <2>1. /\ \A i \in Jobs : i # j => job'[i] = job[i]
        /\ job'[j].kind = job[j].kind /\ job'[j].layers = job[j].layers /\ job'[j].phase = job[j].phase
        /\ job'[j].already = job[j].already /\ job'[j].completed = job[j].completed
        /\ job'[j].token = job[j].token /\ job'[j].valid = job[j].valid
    BY <1>0, <1>2 DEF ClientLeaves, Cancelled, Shape, JobType
  <2> QED BY <1>0, <2>1, ContextCounts
<1> QED BY <1>1, <1>2

LEMMA SumOfNothing ==
  ASSUME NEW L, IsFiniteSet(L), NEW n, \A q \in L : n[q] = 0
  PROVE  Sum(L, n) = 0
<1>1. L \in SUBSET L /\ Cardinality(L \ L) = 0 /\ Cardinality(L \ L) * Size = 0
  <2>1. L \ L = {}
    OBVIOUS
  <2>2. Cardinality(L \ L) = 0
    BY <2>1, FS_EmptySet
  <2> QED BY <2>2, SizeIs
<1>2. \A q \in L : n[q] = IF q \in L THEN 0 ELSE Size
  OBVIOUS
<1>3. Sum(L, n) = Cardinality(L \ L) * Size
  BY <1>1, <1>2, SumOfWhole
<1> QED BY <1>1, <1>3

LEMMA DownloadCounts ==
  ASSUME TensorInv, Counting, NEW j \in Jobs, Download(j), UNCHANGED pushVars
  PROVE  Counting'
<1> DEFINE L == job[j].layers
           wanted == Missing(j)
           already == Cardinality(L \ wanted) * Size
           completed == IF wanted = {} THEN 0 ELSE already
           phase == IF wanted = {} THEN "manifest" ELSE "running"
<1>0. /\ Shape /\ PullShape /\ PullInv /\ TokenInv /\ UNCHANGED <<fetch, send, marked, faults>>
      /\ job[j].kind = "pull" /\ job[j].phase \in {"idle", "failed"} /\ Booked(j) /\ faults' \in Nat
  BY DEF TensorInv, Download, pushVars, Counting
<1>1. L \subseteq Blobs /\ wanted \subseteq L /\ already \in Nat /\ completed \in Nat
  <2>1. L \subseteq Blobs /\ L \ wanted \in SUBSET Blobs /\ wanted \subseteq L
    BY <1>0, LayersFinite DEF Missing
  <2>2. already \in Nat
    BY <2>1, SumTyped
  <2> QED BY <2>1, <2>2
<1>2. /\ \A i \in Jobs : /\ job'[i].token = job[i].token /\ job'[i].valid = job[i].valid
                         /\ job'[i].layers = job[i].layers /\ job'[i].kind = job[i].kind
                         /\ i # j => job'[i] = job[i]
      /\ job'[j].phase = phase /\ job'[j].already = already /\ job'[j].completed = completed
  <2>1. job' = [job EXCEPT ![j] = [@ EXCEPT !.phase = phase, !.cancelled = FALSE, !.already = already,
                                   !.completed = completed]]
    BY DEF Download
  <2>2. phase \in Phases /\ already \in Int /\ completed \in Int
    BY <1>1 DEF Phases
  <2>3. job' = [job EXCEPT ![j] = Begun(job[j], phase, already, completed)]
    BY <1>0, <2>1 DEF Begun, Shape
  <2> HIDE DEF phase, already, completed
  <2>4. \A i \in Jobs : /\ job'[i].token = job[i].token /\ job'[i].valid = job[i].valid
                        /\ job'[i].layers = job[i].layers /\ job'[i].kind = job[i].kind
                        /\ i # j => job'[i] = job[i]
                        /\ i = j => job'[i].phase = phase
    BY ONLY <1>0, j \in Jobs, <2>2, <2>3, JobBegins
  <2>5. job'[j].already = already /\ job'[j].completed = completed
    <3>1. job[j] \in JobType /\ job'[j] = Begun(job[j], phase, already, completed)
      BY <1>0, <2>3 DEF Shape
    <3> QED BY ONLY <2>2, <3>1, BegunFields
  <2> QED BY <2>4, <2>5
<1>3. /\ \A w \in Tasks : w[1] # j => task'[w] = task[w]
      /\ \A w \in Tasks : w[1] = j => Fresh(w, IF w[2] \in wanted THEN "queued" ELSE "none")
  BY <1>0, DownloadGoes, FreshIs DEF JobGoes
<1>4. ASSUME NEW w \in Tasks PROVE Measured(w)'
  <2>0. w[1] \in Jobs /\ Measured(w) /\ (w \in PullTasks' => w \in PullTasks)
    BY <1>2, TaskIs DEF Counting, PullTasks, Tasks
  <2>1. CASE w[1] # j
    BY <1>0, <1>3, <2>0, <2>1, MeasuredStays DEF FetchAsBefore, FetchIs
  <2>2. CASE w[1] = j
    <3>1. w \in PullTasks
      BY <1>0, <2>2 DEF PullTasks
    <3>2. AtWork(w)
      BY <1>0, <3>1 DEF PullInv, Own
    <3>3. task[w].pc \in Starting
      BY <1>0, <2>2, <3>2 DEF AtWork, Active, Resting, Starting
    <3>4. fetch'[w].from <= fetch'[w].base /\ send'[w].part = 0
      BY <1>0, <2>0, <3>1, <3>2, <3>3, SizeIs DEF Measured, FetchBounds, AtWork
    <3>5. SendBounds(w)' /\ FetchBounds(w)'
      BY <1>0, <2>0, SendStaysBounded
    <3>6. PICK pc \in {"none", "queued", "head"} : Fresh(w, pc)
      BY <1>3, <2>2
    <3> QED BY <3>4, <3>5, <3>6, MeasuredAnew
  <2> QED BY <2>1, <2>2
<1>5. Elsewhere(j)
  BY <1>0, <1>2, <1>3 DEF Elsewhere
<1>6. ASSUME phase = "running"
      PROVE  /\ already = Cardinality(Settled(j)') * Size
             /\ \A w \in TasksOf(j)' : Where(w)' # "head"
             /\ completed = already + Sum(L, Reported(j)')
  <2>1. \A w \in Tasks : w[1] = j => /\ task'[w].pc = (IF w[2] \in wanted THEN "queued" ELSE "none")
                                    /\ task'[w].n = 0
    BY <1>3 DEF Fresh
  <2>2. \A b \in L : LET w == <<j, b>> IN w \in Tasks /\ w[1] = j /\ w[2] = b
    BY <1>1 DEF Tasks
  <2>3. Settled(j)' = L \ wanted
    BY <1>2, <2>1, <2>2 DEF Settled
  <2>4. \A w \in TasksOf(j)' : w \in Tasks /\ w[1] = j
    BY <1>0, <1>2, TasksOfIs DEF TasksOf
  <2>5. \A w \in TasksOf(j)' : Where(w)' # "head"
    BY <2>1, <2>4 DEF Where, Waiting
  <2>6. \A b \in L : Reported(j)'[b] = 0
    BY <1>2, <2>1, <2>2 DEF Reported
  <2>7. Sum(L, Reported(j)') = 0
    <3>1. \A n : (\A q \in L : n[q] = 0) => Sum(L, n) = 0
      BY <1>0, LayersFinite, SumOfNothing
    <3> QED BY <2>6, <3>1
  <2>8. completed = already
    BY <1>6
  <2> HIDE DEF completed
  <2> QED BY <1>1, <2>3, <2>5, <2>7, <2>8
<1>7. phase \in {"running", "manifest"} /\ (phase = "manifest" => completed = 0)
  OBVIOUS
<1> HIDE DEF phase, already, completed
<1>8. Booked(j)'
  BY <1>0, <1>1, <1>2, <1>6, <1>7 DEF Booked, Sum
<1> QED BY <1>0, <1>4, <1>5, <1>8, CountsOn

LEMMA UploadCounts ==
  ASSUME TensorInv, Counting, NEW j \in Jobs, Upload(j), UNCHANGED pullVars
  PROVE  Counting'
<1>0. /\ Shape /\ PushShape /\ TokenInv /\ UNCHANGED <<fetch, marked, faults>>
      /\ job[j].kind = "push" /\ Booked(j) /\ faults' \in Nat
      /\ task' = [w \in Tasks |-> IF w \in TasksOf(j) THEN [NewTask EXCEPT !.pc = "head"] ELSE task[w]]
      /\ send' = [w \in Tasks |-> IF w \in TasksOf(j) THEN NewSend ELSE send[w]]
  BY DEF TensorInv, Upload, pullVars, Counting
<1>1. /\ \A i \in Jobs : /\ job'[i].token = job[i].token /\ job'[i].valid = job[i].valid
                         /\ job'[i].layers = job[i].layers /\ job'[i].kind = job[i].kind
                         /\ i # j => job'[i] = job[i]
      /\ job'[j].phase = "checking" /\ job'[j].already = 0 /\ job'[j].completed = 0
  <2>1. job' = [job EXCEPT ![j] = [@ EXCEPT !.phase = "checking", !.cancelled = FALSE, !.already = 0,
                                   !.completed = 0]]
    BY DEF Upload
  <2>2. "checking" \in Phases /\ 0 \in Int
    BY DEF Phases
  <2>3. job' = [job EXCEPT ![j] = Begun(job[j], "checking", 0, 0)]
    BY <1>0, <2>1 DEF Begun, Shape
  <2>4. \A i \in Jobs : /\ job'[i].token = job[i].token /\ job'[i].valid = job[i].valid
                        /\ job'[i].layers = job[i].layers /\ job'[i].kind = job[i].kind
                        /\ i # j => job'[i] = job[i]
                        /\ i = j => job'[i].phase = "checking"
    BY ONLY <1>0, j \in Jobs, <2>2, <2>3, JobBegins
  <2>5. job'[j].already = 0 /\ job'[j].completed = 0
    <3>1. job[j] \in JobType /\ job'[j] = Begun(job[j], "checking", 0, 0)
      BY <1>0, <2>3 DEF Shape
    <3> QED BY ONLY <2>2, <3>1, BegunFields
  <2> QED BY <2>4, <2>5
<1>2. /\ \A w \in Tasks : w \in TasksOf(j) => Fresh(w, "head") /\ send'[w] = NewSend
      /\ \A w \in Tasks : w \notin TasksOf(j) => task'[w] = task[w] /\ send'[w] = send[w]
  BY <1>0, FreshIs
<1>3. ASSUME NEW w \in Tasks PROVE Measured(w)'
  <2>0. w[1] \in Jobs /\ Measured(w) /\ (w \in PullTasks' => w \in PullTasks)
    BY <1>1, TaskIs DEF Counting, PullTasks, Tasks
  <2>1. CASE w \notin TasksOf(j)
    BY <1>0, <1>2, <2>0, <2>1, MeasuredStays DEF FetchAsBefore, FetchIs
  <2>2. CASE w \in TasksOf(j)
    <3>1. w \notin PullTasks'
      BY <1>0, <1>1, <2>2, TasksOfIs DEF PullTasks
    <3>2. SendBounds(w)' /\ FetchBounds(w)'
      <4>1. SendIs(w, 0, 0, 0, 0)
        BY <1>2, <2>2 DEF SendIs, NewSend
      <4>2. 0 \in 0 .. MaxInitRetries /\ 0 \in 0 .. MaxRetries /\ 0 \in 0 .. Size /\ 0 \in 0 .. Size + 1
        BY SizeIs, PushAssumption, TransferAssumption
      <4> QED BY <1>0, <2>0, <4>1, <4>2, SendIsBounded, SendStaysBounded
    <3>3. Fresh(w, "head") /\ "head" \in {"none", "queued", "head"}
      BY <1>2, <2>2
    <3> QED BY <3>1, <3>2, <3>3, MeasuredAnew
  <2> QED BY <2>1, <2>2
<1>4. Elsewhere(j)
  BY <1>0, <1>1, <1>2, TasksOfIs DEF Elsewhere
<1>5. \A w \in TasksOf(j)' : Where(w)' = "head"
  <2>1. \A w \in TasksOf(j)' : w \in Tasks /\ w \in TasksOf(j)
    BY <1>0, <1>1, TasksOfIs DEF TasksOf
  <2> QED BY <1>2, <2>1 DEF Fresh, Where, Waiting
<1>6. Booked(j)'
  BY <1>0, <1>1, <1>5 DEF Booked
<1> QED BY <1>0, <1>3, <1>4, <1>6, CountsOn

-----------------------------------------------------------------------------

\* Blobs that are recorded count as sent.
LEMMA StartBooks ==
  ASSUME Shape, NEW j \in Jobs, \A w \in TasksOf(j) : Measured(w), Booked(j), job[j].phase = "checking",
         \A w \in TasksOf(j) : task[w].pc \in {"checked", "queued"}
  PROVE  /\ Cardinality({w \in TasksOf(j) : At(w, "checked")}) = Cardinality(Settled(j))
         /\ Cardinality(Settled(j)) * Size \in Nat
         /\ Sum(job[j].layers, Reported(j)) = 0
<1> DEFINE L == job[j].layers
<1>1. \A b \in L : <<j, b>> \in TasksOf(j)
  BY DEF TasksOf
<1>2. {w \in TasksOf(j) : At(w, "checked")} = {j} \X Settled(j)
  BY <1>1 DEF TasksOf, At, Settled
<1>3. IsFiniteSet(L) /\ L \subseteq Blobs /\ Settled(j) \in SUBSET L
  BY LayersFinite DEF Settled
<1>4. IsFiniteSet(Settled(j)) /\ Cardinality(Settled(j)) \in Nat
  BY <1>3, FS_Subset, FS_CardinalityType
<1>5. IsFiniteSet({j}) /\ Cardinality({j}) = 1
  BY FS_Singleton
<1>6. Cardinality({j} \X Settled(j)) = Cardinality({j}) * Cardinality(Settled(j))
  BY <1>4, <1>5, FS_Product
<1>7. Cardinality({j} \X Settled(j)) = Cardinality(Settled(j))
  BY <1>4, <1>5, <1>6
<1>8. Cardinality(Settled(j)) * Size \in Nat
  BY <1>4, SizeIs
<1>9. \A b \in L : Reported(j)[b] = 0
  <2>1. ASSUME NEW b \in L PROVE Reported(j)[b] = 0
    <3> DEFINE w == <<j, b>>
    <3>1. Reports(w) /\ task[w].pc \in {"checked", "queued"} /\ Reported(j)[b] = task[w].n
      BY <1>1 DEF Measured, Reported
    <3> QED BY <3>1 DEF Reports, Where, Waiting, Fit
  <2> QED BY <2>1
<1>10. Sum(L, Reported(j)) = 0
  BY <1>3, <1>9, SumOfNothing
<1> QED BY <1>2, <1>7, <1>8, <1>10

LEMMA StartCounts ==
  ASSUME TensorInv, Counting, NEW j \in Jobs, StartUploads(j), UNCHANGED pullVars
  PROVE  Counting'
<1> DEFINE already == Cardinality({w \in TasksOf(j) : At(w, "checked")}) * Size
<1>0. /\ Shape /\ job[j].phase = "checking" /\ job[j].kind = "push"
      /\ UNCHANGED <<task, fetch, send, marked>> /\ faults' \in Nat /\ Booked(j)
      /\ \A w \in TasksOf(j) : task[w].pc \in {"checked", "queued", "ended"}
      /\ \A w \in TasksOf(j) : Measured(w)
  BY TasksOfIs DEF TensorInv, StartUploads, pushVars, pullVars, Counting
<1>1. PICK phase : /\ phase = (IF \E w \in TasksOf(j) : task[w].err # "none" THEN "failed" ELSE "running")
                   /\ job' = [job EXCEPT ![j] = [@ EXCEPT !.phase = phase, !.already = already,
                                                 !.completed = already]]
  BY DEF StartUploads
<1>2. already \in Nat
  <2>1. IsFiniteSet(TasksOf(j))
    <3>1. IsFiniteSet(job[j].layers) /\ IsFiniteSet({j})
      BY <1>0, LayersFinite, FS_Singleton
    <3> QED BY <3>1, FS_Product DEF TasksOf
  <2>2. Cardinality({w \in TasksOf(j) : At(w, "checked")}) \in Nat
    BY <2>1, FS_Subset, FS_CardinalityType
  <2> QED BY <2>2, SizeIs
<1>3. ASSUME phase = "running"
      PROVE  /\ already = Cardinality(Settled(j)) * Size
             /\ already = already + Sum(job[j].layers, Reported(j))
             /\ \A w \in TasksOf(j) : Where(w) # "head"
  <2>1. \A w \in TasksOf(j) : task[w].err = "none"
    BY <1>1, <1>3
  <2>2. \A w \in TasksOf(j) : task[w].pc \in {"checked", "queued"}
    BY <1>0, <2>1 DEF Booked, Where, Waiting
  <2>3. /\ Cardinality({w \in TasksOf(j) : At(w, "checked")}) = Cardinality(Settled(j))
        /\ Sum(job[j].layers, Reported(j)) = 0
    BY <1>0, <2>2, StartBooks
  <2>4. \A w \in TasksOf(j) : Where(w) # "head"
    BY <2>2 DEF Where, Waiting
  <2> QED BY <1>2, <2>3, <2>4
<1> HIDE DEF already
<1>4. /\ \A i \in Jobs : i # j => job'[i] = job[i]
      /\ job'[j].kind = job[j].kind /\ job'[j].layers = job[j].layers /\ job'[j].phase = phase
      /\ job'[j].already = already /\ job'[j].completed = already
      /\ job'[j].token = job[j].token /\ job'[j].valid = job[j].valid
  BY <1>0, <1>1 DEF Shape, JobType
<1>5. Elsewhere(j)
  BY <1>0, <1>4 DEF Elsewhere
<1>6. /\ TasksOf(j)' = TasksOf(j) /\ Reported(j)' = Reported(j) /\ Settled(j)' = Settled(j)
      /\ \A w \in TasksOf(j) : Where(w)' = Where(w)
  BY <1>0, <1>4 DEF TasksOf, Reported, Settled, Where
<1>7. phase \in {"running", "failed"}
  BY <1>1
<1>8. Booked(j)'
  BY <1>0, <1>2, <1>3, <1>4, <1>6, <1>7 DEF Booked, Sum
<1>9. \A i \in Jobs : job'[i].kind = job[i].kind
  BY <1>4
<1> QED BY <1>0, <1>5, <1>8, <1>9, TasksStay, CountsOn

\* A restart: who is done has its tasks at rest, the others begin anew.
LEMMA RestartCounts ==
  ASSUME TensorInv, Counting, Restart
  PROVE  Counting'
<1>0. /\ Shape /\ TokenInv /\ faults' \in Nat
      /\ fetch' = [w \in Tasks |-> NewFetch] /\ send' = [w \in Tasks |-> NewSend] /\ UNCHANGED marked
  <2>1. Shape /\ TokenInv
    BY DEF TensorInv
  <2>2. faults' \in Nat
    <3>1. faults > 0 /\ faults' = faults - 1
      BY DEF Restart, Fault
    <3>2. faults \in Nat
      BY DEF Counting
    <3> QED BY <3>1, <3>2
  <2>3. fetch' = [w \in Tasks |-> NewFetch]
    BY DEF Restart, PullRestart
  <2>4. send' = [w \in Tasks |-> NewSend] /\ UNCHANGED marked
    BY DEF Restart, PushRestart
  <2> QED BY <2>1, <2>2, <2>3, <2>4
<1>1. /\ \A i \in Jobs : /\ job'[i].kind = job[i].kind /\ job'[i].layers = job[i].layers
                         /\ job'[i].phase = IF job[i].phase = "ok" THEN "ok" ELSE "idle"
      /\ \A w \in Tasks : task'[w] = IF job[w[1]].phase = "ok" THEN task[w] ELSE NewTask
  BY <1>0, RestartGoes
<1>2. \A i \in Jobs : /\ job'[i].token = job[i].token /\ job'[i].valid = job[i].valid
                      /\ job[i].phase = "ok" => job'[i] = job[i]
                      /\ job[i].phase # "ok" => job'[i].already = 0 /\ job'[i].completed = 0
  <2>1. job' = [j \in Jobs |-> IF job[j].phase = "ok" THEN job[j]
                               ELSE [job[j] EXCEPT !.phase = "idle", !.cancelled = FALSE,
                                                   !.already = 0, !.completed = 0]]
    BY DEF Restart
  <2>2. ASSUME NEW i \in Jobs, job[i].phase # "ok"
        PROVE  /\ job'[i].token = job[i].token /\ job'[i].valid = job[i].valid
               /\ job'[i].already = 0 /\ job'[i].completed = 0
    <3>1. job'[i] = Begun(job[i], "idle", 0, 0)
      BY <2>1, <2>2 DEF Begun
    <3>2. job[i] \in JobType /\ "idle" \in Phases /\ 0 \in Int
      BY <1>0 DEF Shape, Phases
    <3> QED BY <3>1, <3>2, BegunFields
  <2>3. \A i \in Jobs : job[i].phase = "ok" => job'[i] = job[i]
    BY <2>1
  <2> QED BY <2>2, <2>3
<1>3. ASSUME NEW w \in Tasks PROVE Measured(w)'
  <2>1. /\ fetch'[w] = NewFetch /\ send'[w] = NewSend /\ w[1] \in Jobs /\ Measured(w)
    BY <1>0, TaskIs DEF Counting
  <2>2. fetch'[w].from = 0 /\ fetch'[w].base = 0 /\ fetch'[w].off = 0 /\ fetch'[w].slow = 0
    BY <2>1 DEF NewFetch
  <2>3. send'[w].inits = 0 /\ send'[w].tries = 0 /\ send'[w].landed = 0 /\ send'[w].part = 0
    BY <2>1 DEF NewSend
  <2>4. SendBounds(w)' /\ FetchBounds(w)'
    BY <2>2, <2>3, SizeIs, PushAssumption, TransferAssumption DEF SendBounds, FetchBounds
  <2>5. CASE job[w[1]].phase # "ok"
    <3>1. Fresh(w, "none")
      BY <1>1, <2>1, <2>5, FreshIs
    <3> QED BY <2>2, <2>3, <2>4, <3>1, MeasuredAnew
  <2>6. CASE job[w[1]].phase = "ok"
    <3>1. task'[w] = task[w] /\ task[w].pc \in Resting
      BY <1>0, <1>1, <2>1, <2>6 DEF TokenInv, Asks
    <3>2. TaskBounds(w)' /\ Slotted(w)' /\ Where(w)' = task[w].pc
      BY <2>1, <3>1 DEF Measured, TaskBounds, Slotted, Where, Resting, Waiting
    <3>3. Reports(w)'
      BY <2>1, <3>1, <3>2 DEF Measured, Reports, Fit, Where, Resting, Waiting
    <3>4. w \in PullTasks' => Offsets(w)'
      BY <2>2, <3>1 DEF Offsets, Resting
    <3> QED BY <2>3, <2>4, <3>2, <3>3, <3>4 DEF Measured
  <2> QED BY <2>5, <2>6
<1>4. ASSUME NEW j \in Jobs PROVE Booked(j)'
  <2>1. Booked(j)
    BY DEF Counting
  <2>2. CASE job[j].phase = "ok"
    BY <1>0, <1>2, <2>1, <2>2 DEF Booked
  <2>3. CASE job[j].phase # "ok"
    BY <1>1, <1>2, <2>1, <2>3 DEF Booked
  <2> QED BY <2>2, <2>3
<1>5. Tasks' = Tasks
  BY DEF Tasks
<1> QED BY <1>0, <1>3, <1>4, <1>5 DEF Counting

LEMMA CountingInit == TensorInit => Counting
<1> SUFFICES ASSUME TensorInit PROVE Counting
  OBVIOUS
<1>1. PICK load \in Workloads :
        /\ faults = load.faults
        /\ job = [j \in Jobs |-> [kind |-> load.jobs[j].kind, layers |-> load.jobs[j].layers,
                                  phase |-> "idle", cancelled |-> FALSE,
                                  already |-> 0, completed |-> 0, token |-> 0, valid |-> 0]]
  BY DEF TensorInit, TransferInit
<1>2. faults \in Nat
  BY <1>1, TransferAssumption
<1>3. ASSUME NEW w \in Tasks PROVE Measured(w)
  <2>1. task[w] = NewTask /\ send[w] = NewSend /\ fetch[w] = NewFetch
    BY DEF TensorInit, TransferInit, PushInit, PullInit
  <2>2. /\ task[w].pc = "none" /\ task[w].attempt = 0 /\ task[w].n = 0 /\ ~ task[w].slot
        /\ task[w].prev = 0
    BY <2>1 DEF NewTask
  <2>3. fetch[w].from = 0 /\ fetch[w].base = 0 /\ fetch[w].off = 0 /\ fetch[w].slow = 0
    BY <2>1 DEF NewFetch
  <2>4. send[w].inits = 0 /\ send[w].tries = 0 /\ send[w].landed = 0 /\ send[w].part = 0
    BY <2>1 DEF NewSend
  <2>5. TaskBounds(w) /\ SendBounds(w) /\ FetchBounds(w)
    BY <2>2, <2>3, <2>4, SizeIs, PushAssumption, TransferAssumption DEF TaskBounds, SendBounds, FetchBounds
  <2>6. Slotted(w) /\ Reports(w) /\ Offsets(w)
    BY <2>2, <2>3 DEF Slotted, Slots, Waiting, Where, Reports, Fit, Offsets
  <2> QED BY <2>4, <2>5, <2>6 DEF Measured
<1>4. ASSUME NEW j \in Jobs PROVE Booked(j)
  BY <1>1 DEF Booked
<1> QED BY <1>2, <1>3, <1>4 DEF Counting

LEMMA CountingStays ==
  ASSUME TensorInv, Counting, UNCHANGED tensorVars
  PROVE  Counting'
<1>0. /\ Shape /\ UNCHANGED <<job, task, fetch, send, marked>> /\ faults' \in Nat
  BY DEF tensorVars, transferVars, pullVars, pushVars, TensorInv, Counting
<1>1. \A w \in Tasks : Measured(w)'
  BY <1>0, TasksStay
<1>2. ASSUME NEW j \in Jobs PROVE Booked(j)'
  BY <1>0, BookedStays DEF Counting, Booked
<1>3. Tasks' = Tasks
  BY DEF Tasks
<1> QED BY <1>0, <1>1, <1>2, <1>3 DEF Counting

LEMMA CountingStep == TensorInv /\ Counting /\ [TensorNext]_tensorVars => Counting'
<1> SUFFICES ASSUME TensorInv, Counting, [TensorNext]_tensorVars PROVE Counting'
  OBVIOUS
<1>1. CASE PullNext /\ UNCHANGED pushVars
  BY <1>1, DownloadCounts, WaitCounts, ManifestCounts, TaskCounts DEF PullNext, PullTasks
<1>2. CASE PushNext /\ UNCHANGED pullVars
  BY <1>2, UploadCounts, StartCounts, WaitCounts, ManifestCounts, TaskCounts DEF PushNext, PushTasks
<1>3. CASE (\E j \in Jobs : TokenExpires(j) \/ ClientLeaves(j)) /\ UNCHANGED <<pullVars, pushVars>>
  BY <1>3, OutsideCounts
<1>4. CASE Restart
  BY <1>4, RestartCounts
<1>5. CASE UNCHANGED tensorVars
  BY <1>5, CountingStays
<1> QED
  BY <1>1, <1>2, <1>3, <1>4, <1>5 DEF TensorNext

\* What the tasks report, and their jobs count, in every state of the transfers.
THEOREM TransfersCount == TensorSpec => [](TensorInv /\ Counting)
<1>1. TensorInit => TensorInv /\ Counting
  BY TensorInvInit, CountingInit
<1>2. TensorInv /\ Counting /\ [TensorNext]_tensorVars => (TensorInv /\ Counting)'
  BY TensorInvStep, CountingStep
<1> QED
  BY <1>1, <1>2, PTL DEF TensorSpec

\* A task holds a slot of the job's semaphore while it moves a body and only
\* then (sem, bodySem in download and upload), and reports no more than its blob
\* has, but for a unit too many (progressReader, copy).
THEOREM TensorTypes == TensorSpec => []TensorTypeOK
<1>1. ASSUME TensorInv, Counting PROVE TensorTypeOK
  <2>0. Shape /\ PushShape /\ PullShape
    BY <1>1 DEF TensorInv
  <2>1. job \in [Jobs -> [kind : {"pull", "push"}, layers : SUBSET Blobs, phase : Phases,
                          cancelled : BOOLEAN, already : Nat, completed : Int, token : Nat, valid : Nat]]
    <3>1. \A j \in Jobs : job[j] \in JobType /\ job[j].already \in Nat /\ job[j].token \in Nat
                          /\ job[j].valid \in Nat
      BY <1>1, <2>0 DEF Shape, Counting, Booked
    <3> QED BY <2>0, <3>1 DEF Shape, JobType
  <2>2. task \in [Tasks -> [pc : Steps, attempt : 0 .. MaxRetries, n : 0 .. Size + 1, slot : BOOLEAN,
                            err : Errors, prev : Nat, back : Steps]]
    <3>1. \A w \in Tasks : task[w] \in TaskType /\ TaskBounds(w)
      BY <1>1, <2>0 DEF Shape, Counting, Measured
    <3> QED BY <2>0, <3>1 DEF Shape, TaskType, TaskBounds
  <2>3. fetch \in [Tasks -> [from : 0 .. Size, base : 0 .. Size, off : 0 .. Size + 1, clean : BOOLEAN,
                             fd : {"none", "tmp", "blob", "gone"}, silent : BOOLEAN,
                             cause : {"none", "stalled", "slow"}, slow : Nat]]
    <3>1. \A w \in Tasks : fetch[w] \in FetchType /\ FetchBounds(w)
      BY <1>1, <2>0 DEF PullShape, Counting, Measured
    <3> QED BY <2>0, <3>1 DEF PullShape, FetchType, FetchBounds
  <2>4. send \in [Tasks -> [inits : 0 .. MaxInitRetries, tries : 0 .. MaxRetries, told : BOOLEAN,
                            landed : 0 .. Size, part : 0 .. Size + 1]]
    <3>1. \A w \in Tasks : send[w] \in SendType /\ SendBounds(w)
      BY <1>1, <2>0 DEF PushShape, Counting, Measured
    <3> QED BY <2>0, <3>1 DEF PushShape, SendType, SendBounds
  <2>5. \A w \in Tasks :
          task[w].slot <=> \/ task[w].pc \in {"resolve", "stat", "ask", "open", "read", "drain",
                                              "verify", "rename", "put", "patch", "cdn", "part"}
                           \/ /\ task[w].pc \in {"refresh", "getToken"}
                              /\ task[w].back \in {"resolve", "part"}
    BY <1>1 DEF Counting, Measured, Slotted, Slots, Where, Waiting
  <2>6. faults \in Nat
    BY <1>1 DEF Counting
  <2> QED BY <2>0, <2>1, <2>2, <2>3, <2>4, <2>5, <2>6 DEF PullShape, PushShape, TensorTypeOK
<1>2. TensorInv /\ Counting => TensorTypeOK
  BY <1>1
<1> QED
  BY <1>2, TransfersCount, PTL

\* Who is done has reported the whole model: what failed attempts had reported
\* was taken back, and what was there before is counted once (progressTracker
\* in download and upload).
THEOREM DoneIsReported == TensorSpec => []DoneReportsAll
<1>1. TensorInv /\ Counting => DoneReportsAll
  BY DEF Counting, Booked, DoneReportsAll
<1> QED
  BY <1>1, TransfersCount, PTL

=============================================================================
