--------------------------- MODULE LlamaServerProofs --------------------------
(* One runner has at most one process, none once it is closed, and judges a  *)
(* process by what that process reported, proved from IInv: the order of the *)
(* two processes, where their errors and buffers went, and which of them     *)
(* those who close it wait for.                                              *)
EXTENDS LlamaServerProps, FiniteSetTheorems, TLAPS

Shape ==
  /\ state \in [Gens -> {"none", "loading", "ready", "dying", "gone"}]
  /\ pipe \in [Gens -> Seq(Lines)]
  /\ reap \in [Gens -> {"none", "waiting", "copying", "done"}]
  /\ said \in [Gens -> SUBSET (Buffers \cup {"oom"})]
  /\ cur \in Gens
  /\ error \in {"none", "soft", "oom"} /\ seen \subseteq Buffers /\ counted \subseteq seen
  /\ retried \in BOOLEAN /\ projector \in BOOLEAN
  /\ load \in LoadSteps /\ stage \in {"first", "confirm"}
  /\ comp \in [Requests -> {"new", "queued", "checking", "sending", "streaming", "cut", Ended}]
  /\ closer \in [Closers -> {"idle", "killed", "waiting", "closed"}]
  /\ awaited \in [Closers -> {None} \cup Gens]

\* The steps of the load from the verdict to the second process.
Retrying == {"stop", "stopping", "reset", "start", "assign"}

\* There is a second process only after the retry, which began once, and only
\* when the first one was gone.
Order ==
  /\ cur = 2 => retried
  /\ load \in Retrying => cur = 1 /\ retried
  /\ load \in {"reset", "start", "assign"} => Exited(1)
  /\ load = "assign" => state[2] # "none"
  /\ \A g \in Gens : Exited(g) => state[g] = "gone"
  /\ state[2] # "none" => Exited(1) /\ (cur = 2 \/ load = "assign")
  /\ reap[2] # "none" => cur = 2
  /\ cur = 2 => state[2] # "none" /\ reap[2] # "none"
  /\ reap[1] # "none"

\* The newest process.
Latest == IF state[2] = "none" THEN 1 ELSE 2

\* What is said of memory comes from a process that said it; it is from the
\* newest one unless the first was still being read when errors were reset.
Own ==
  /\ \A g \in Gens : \A i \in 1 .. Len(pipe[g]) : Memory(pipe[g][i]) \subseteq said[g]
  /\ \A g \in Gens : reap[g] = "done" => pipe[g] = <<>>
  /\ mixed => load \in {"start", "assign", "failed"} \/ cur = 2
  /\ ~ mixed =>
       /\ load = "start" \/ state[2] # "none" => reap[1] = "done"
       /\ load = "start" => error = "none"
       /\ error # "none" => "oom" \in said[Latest]
       /\ result = "oom" /\ load \in {"judge", "failed"} \cup Retrying => "oom" \in said[cur]

\* The buffers g reported are counted or still in its pipe.
Known(g) ==
  \A b \in said[g] \cap Buffers :
    b \in counted \/ \E i \in 1 .. Len(pipe[g]) : pipe[g][i] = b

Counted ==
  /\ ~ retried => Known(1)
  /\ Known(2)
  /\ state[2] = "none" => said[2] = {} /\ pipe[2] = <<>>

\* Who closes waits for the current process, and it has gone when he returns.
Closing ==
  /\ \A r \in Requests : closer[r] # "idle" => comp[r] \in {"cut", Ended}
  /\ ~ overtaken =>
       \A c \in Closers : /\ closer[c] = "waiting" => awaited[c] = cur
                          /\ closer[c] = "closed" => Exited(cur)

IInv == Shape /\ Order /\ Own /\ Counted /\ Closing

\* A step of a request leaves the processes, the load and those who close
\* alone, and a request that is cut or has ended can only end.
Moves(r) ==
  /\ UNCHANGED <<processVars, runnerVars, loadVars, closerVars, ghosts>>
  /\ \E to \in {"queued", "checking", "sending", "streaming", "cut", Ended} :
       comp' = [comp EXCEPT ![r] = to] /\ (comp[r] \in {"cut", Ended} => to = Ended)

\* Every step of a request is such a step.
LEMMA ServeMoves ==
  ASSUME NEW r \in Requests, Serve(r)
  PROVE  Moves(r)
<1>1. CASE Ask(r)
  BY <1>1 DEF Ask, Moves, Ended
<1>2. CASE Acquire(r)
  BY <1>2 DEF Acquire, Move, Moves, Ended
<1>3. CASE Cancel(r)
  BY <1>3 DEF Cancel, Move, Moves, Ended
<1>4. CASE Check(r)
  <2>1. comp[r] = "checking" /\ (Move(r, "sending") \/ Move(r, Ended))
    BY <1>4 DEF Check
  <2> QED
    BY <2>1 DEF Move, Moves, Ended
<1>5. CASE Send(r)
  BY <1>5 DEF Send, Move, Moves, Ended
<1>6. CASE Finish(r)
  BY <1>6 DEF Finish, Move, Moves, Ended
<1>7. CASE Break(r)
  BY <1>7 DEF Break, Move, Moves, Ended
<1>8. CASE Closed(r)
  BY <1>8 DEF Closed, Move, Moves, Ended
<1> QED
  BY <1>1, <1>2, <1>3, <1>4, <1>5, <1>6, <1>7, <1>8 DEF Serve

\* What an error of the health check does: it goes on, or it fails for lack of
\* memory if the errors or the answer say so; the answer is the process's own.
Ends(text) ==
  /\ UNCHANGED <<state, pipe, reap, runnerVars, stage, comp, closerVars, ghosts>>
  /\ load = "poll"
  /\ said' = IF text = "oom" /\ ~ Exited(cur) THEN [said EXCEPT ![cur] = @ \cup {"oom"}] ELSE said
  /\ Exited(cur) => text = error
  /\ \/ load' = "look" /\ result' = result
     \/ load' = "judge" /\ result' = "oom" /\ (OutOfMemory(error) \/ text = "oom")

\* The branch for an error of WaitUntilRunning does that.
LEMMA PollErrorEnds ==
  ASSUME NEW text, PollError(text)
  PROVE  Ends(text)
<1>1. Exited(cur) => text = error
  BY DEF PollError, Health
<1>2. OutOfMemory("oom")
  BY DEF OutOfMemory
<1>3. CASE /\ ~ Recoverable(error) /\ ~ Recoverable(text)
           /\ OutOfMemory(error) \/ OutOfMemory(text)
  <2>1. load' = "judge" /\ result' = "oom"
    BY <1>2, <1>3 DEF PollError, Fail
  <2>2. OutOfMemory(error) \/ text = "oom"
    BY <1>3 DEF Recoverable, OutOfMemory
  <2> QED
    BY <1>1, <2>1, <2>2 DEF PollError, Ends
<1>4. CASE ~ (/\ ~ Recoverable(error) /\ ~ Recoverable(text)
              /\ OutOfMemory(error) \/ OutOfMemory(text))
  <2>1. load' = "look" /\ result' = result
    BY <1>4 DEF PollError
  <2> QED
    BY <1>1, <2>1 DEF PollError, Ends
<1> QED
  BY <1>3, <1>4

\* Every step keeps the shape of the state.
LEMMA ShapeStep ==
  ASSUME Shape, [Next]_serverVars
  PROVE  Shape'
<1>1. ASSUME NEW g \in Gens, NEW line \in Lines, Says(g, line) PROVE Shape'
  BY <1>1, ServerAssumption, SMTT(30)
    DEF processVars, runnerVars, loadVars, closerVars, ghosts, Shape, Alive, Buffers, Lines,
        Gens, Closers, LoadSteps, Says, Memory
<1>2. ASSUME NEW g \in Gens, BecomesReady(g) PROVE Shape'
  BY <1>2, ServerAssumption, SMTT(30)
    DEF processVars, runnerVars, loadVars, closerVars, ghosts, Shape, Alive, Buffers, Lines,
        Gens, Closers, LoadSteps, BecomesReady
<1>3. ASSUME NEW g \in Gens, Dies(g) PROVE Shape'
  BY <1>3, ServerAssumption, SMTT(30)
    DEF processVars, runnerVars, loadVars, closerVars, ghosts, Shape, Alive, Buffers, Lines,
        Gens, Closers, LoadSteps, Dies
<1>4. ASSUME NEW g \in Gens, Copy(g) PROVE Shape'
  <2>1. Head(pipe[g]) \in Lines /\ Tail(pipe[g]) \in Seq(Lines)
    BY <1>4, SMT DEF Copy, Shape
  <2>2. \A text, line : WithError(text, line) \in {"none", "soft", "oom"}
    BY SMT DEF WithError
  <2>3. error' \in {"none", "soft", "oom"} /\ seen' \subseteq Buffers /\ counted' \subseteq seen'
    BY <1>4, <2>2, SMT DEF Copy, Shape
  <2>4. pipe' \in [Gens -> Seq(Lines)]
    BY <1>4, <2>1, SMT DEF Copy, Shape
  <2>5. UNCHANGED <<state, reap, said, cur, retried, projector, load, stage, comp, closer, awaited>>
    BY <1>4 DEF Copy, closerVars
  <2> QED
    BY <2>3, <2>4, <2>5, SMT DEF Shape
<1>5. ASSUME NEW g \in Gens, WaitedFor(g) PROVE Shape'
  BY <1>5, ServerAssumption, SMTT(30)
    DEF processVars, runnerVars, loadVars, closerVars, ghosts, Shape, Alive, Buffers, Lines,
        Gens, Closers, LoadSteps, WaitedFor
<1>6. ASSUME NEW g \in Gens, CloseDone(g) PROVE Shape'
  BY <1>6, ServerAssumption, SMTT(30)
    DEF processVars, runnerVars, loadVars, closerVars, ghosts, Shape, Alive, Buffers, Lines,
        Gens, Closers, LoadSteps, CloseDone
<1>7. ASSUME Abandon PROVE Shape'
  BY <1>7, ServerAssumption, SMTT(30)
    DEF processVars, runnerVars, loadVars, closerVars, ghosts, Shape, Alive, Buffers, Lines,
        Gens, Closers, LoadSteps, Abandon, Fail, OutOfMemory
<1>8. ASSUME TimePasses PROVE Shape'
  BY <1>8, ServerAssumption, SMTT(30)
    DEF processVars, runnerVars, loadVars, closerVars, ghosts, Shape, Alive, Buffers, Lines,
        Gens, Closers, LoadSteps, TimePasses
<1>9. ASSUME BeginWait PROVE Shape'
  BY <1>9, ServerAssumption, SMTT(30)
    DEF processVars, runnerVars, loadVars, closerVars, ghosts, Shape, Alive, Buffers, Lines,
        Gens, Closers, LoadSteps, BeginWait
<1>10. ASSUME Look PROVE Shape'
  BY <1>10, ServerAssumption, SMTT(30)
    DEF processVars, runnerVars, loadVars, closerVars, ghosts, Shape, Alive, Buffers, Lines,
        Gens, Closers, LoadSteps, Look, Fail, OutOfMemory
<1>11. ASSUME PollLoading PROVE Shape'
  BY <1>11, ServerAssumption, SMTT(30)
    DEF processVars, runnerVars, loadVars, closerVars, ghosts, Shape, Alive, Buffers, Lines,
        Gens, Closers, LoadSteps, PollLoading
<1>12. ASSUME PollReady PROVE Shape'
  BY <1>12, ServerAssumption, SMTT(30)
    DEF processVars, runnerVars, loadVars, closerVars, ghosts, Shape, Alive, Buffers, Lines,
        Gens, Closers, LoadSteps, PollReady
<1>13. ASSUME NEW status, PollOther(status) PROVE Shape'
  <2>1. /\ load = "poll" /\ load' = "look"
        /\ UNCHANGED <<processVars, runnerVars, stage, result, comp, closerVars, ghosts>>
    BY <1>13 DEF PollOther
  <2> QED
    BY <2>1, SMTT(30)
      DEF processVars, runnerVars, loadVars, closerVars, ghosts, Shape, LoadSteps
<1>14. ASSUME NEW text, PollError(text) PROVE Shape'
  <2>1. said' \in [Gens -> SUBSET (Buffers \cup {"oom"})]
    <3>1. \/ said' = said
          \/ said' = [said EXCEPT ![cur] = @ \cup {"oom"}]
      BY <1>14, PollErrorEnds DEF Ends
    <3> QED
      BY <3>1, SMTT(60) DEF Shape
  <2>2. load' \in LoadSteps
    BY <1>14, PollErrorEnds DEF Ends, LoadSteps
  <2>3. UNCHANGED <<state, pipe, reap, runnerVars, stage, comp, closerVars>>
    BY <1>14, PollErrorEnds DEF Ends
  <2> QED
    BY <2>1, <2>2, <2>3, SMT DEF Shape, runnerVars, closerVars
<1>15. ASSUME Judge PROVE Shape'
  BY <1>15, ServerAssumption, SMTT(30)
    DEF processVars, runnerVars, loadVars, closerVars, ghosts, Shape, Alive, Buffers, Lines,
        Gens, Closers, LoadSteps, Judge, MayRetry
<1>16. ASSUME RetryStops PROVE Shape'
  BY <1>16, ServerAssumption, SMTT(30)
    DEF processVars, runnerVars, loadVars, closerVars, ghosts, Shape, Alive, Buffers, Lines,
        Gens, Closers, LoadSteps, RetryStops, Kill
<1>17. ASSUME RetryStopped PROVE Shape'
  BY <1>17, ServerAssumption, SMTT(30)
    DEF processVars, runnerVars, loadVars, closerVars, ghosts, Shape, Alive, Buffers, Lines,
        Gens, Closers, LoadSteps, RetryStopped
<1>18. ASSUME ResetLoadAccounting PROVE Shape'
  BY <1>18, ServerAssumption, SMTT(30)
    DEF processVars, runnerVars, loadVars, closerVars, ghosts, Shape, Alive, Buffers, Lines,
        Gens, Closers, LoadSteps, ResetLoadAccounting
<1>19. ASSUME StartProcess PROVE Shape'
  BY <1>19, ServerAssumption, SMTT(30)
    DEF processVars, runnerVars, loadVars, closerVars, ghosts, Shape, Alive, Buffers, Lines,
        Gens, Closers, LoadSteps, StartProcess
<1>20. ASSUME AssignProcess PROVE Shape'
  BY <1>20, ServerAssumption, SMTT(30)
    DEF processVars, runnerVars, loadVars, closerVars, ghosts, Shape, Alive, Buffers, Lines,
        Gens, Closers, LoadSteps, AssignProcess
<1>21. ASSUME NEW c \in Closers, Stop(c) PROVE Shape'
  BY <1>21, ServerAssumption, SMTT(60)
    DEF processVars, runnerVars, loadVars, closerVars, ghosts, Shape, Alive, Buffers, Lines,
        Gens, Closers, LoadSteps, Stop, MayClose, Kill
<1>22. ASSUME NEW c \in Closers, AwaitExit(c) PROVE Shape'
  BY <1>22, ServerAssumption, SMTT(30)
    DEF processVars, runnerVars, loadVars, closerVars, ghosts, Shape, Alive, Buffers, Lines,
        Gens, Closers, LoadSteps, AwaitExit
<1>23. ASSUME NEW c \in Closers, Stopped(c) PROVE Shape'
  BY <1>23, ServerAssumption, SMTT(30)
    DEF processVars, runnerVars, loadVars, closerVars, ghosts, Shape, Alive, Buffers, Lines,
        Gens, Closers, LoadSteps, Stopped
<1>24. ASSUME NEW r \in Requests, Serve(r) PROVE Shape'
  BY <1>24, ServeMoves, SMTT(30)
    DEF processVars, runnerVars, loadVars, closerVars, ghosts, Shape, LoadSteps, Moves, Ended
<1>25. CASE UNCHANGED serverVars
  BY <1>25, SMTT(30)
    DEF serverVars, processVars, runnerVars, loadVars, closerVars, ghosts, Shape, Alive,
        Buffers, Lines, Gens, Closers, LoadSteps
<1> QED
  BY <1>1, <1>2, <1>3, <1>4, <1>5, <1>6, <1>7, <1>8, <1>9, <1>10, <1>11, <1>12, <1>13,
     <1>14, <1>15, <1>16, <1>17, <1>18, <1>19, <1>20, <1>21, <1>22, <1>23, <1>24, <1>25
  DEF Next, Wait, Retry, Reaper, Close

\* Every step keeps the order of the two processes.
LEMMA OrderStep ==
  ASSUME Shape, Order, [Next]_serverVars
  PROVE  Order'
<1>1. ASSUME NEW g \in Gens, NEW line \in Lines, Says(g, line) PROVE Order'
  BY <1>1, SMTT(30)
    DEF processVars, runnerVars, loadVars, closerVars, ghosts, Shape, Order, Retrying, Exited,
        Alive, Gens, Says, Memory
<1>2. ASSUME NEW g \in Gens, BecomesReady(g) PROVE Order'
  BY <1>2, SMTT(30)
    DEF processVars, runnerVars, loadVars, closerVars, ghosts, Shape, Order, Retrying, Exited,
        Alive, Gens, BecomesReady
<1>3. ASSUME NEW g \in Gens, Dies(g) PROVE Order'
  BY <1>3, SMTT(30)
    DEF processVars, runnerVars, loadVars, closerVars, ghosts, Shape, Order, Retrying, Exited,
        Alive, Gens, Dies
<1>4. ASSUME NEW g \in Gens, Copy(g) PROVE Order'
  BY <1>4, SMTT(30)
    DEF processVars, runnerVars, loadVars, closerVars, ghosts, Shape, Order, Retrying, Exited,
        Alive, Gens, Copy, WithError
<1>5. ASSUME NEW g \in Gens, WaitedFor(g) PROVE Order'
  BY <1>5, SMTT(30)
    DEF processVars, runnerVars, loadVars, closerVars, ghosts, Shape, Order, Retrying, Exited,
        Alive, Gens, WaitedFor
<1>6. ASSUME NEW g \in Gens, CloseDone(g) PROVE Order'
  BY <1>6, SMTT(30)
    DEF processVars, runnerVars, loadVars, closerVars, ghosts, Shape, Order, Retrying, Exited,
        Alive, Gens, CloseDone
<1>7. ASSUME Abandon PROVE Order'
  BY <1>7, SMTT(30)
    DEF processVars, runnerVars, loadVars, closerVars, ghosts, Shape, Order, Retrying, Exited,
        Alive, Gens, Abandon, Fail, OutOfMemory
<1>8. ASSUME TimePasses PROVE Order'
  BY <1>8, SMTT(30)
    DEF processVars, runnerVars, loadVars, closerVars, ghosts, Shape, Order, Retrying, Exited,
        Alive, Gens, TimePasses
<1>9. ASSUME BeginWait PROVE Order'
  BY <1>9, SMTT(30)
    DEF processVars, runnerVars, loadVars, closerVars, ghosts, Shape, Order, Retrying, Exited,
        Alive, Gens, BeginWait
<1>10. ASSUME Look PROVE Order'
  BY <1>10, SMTT(30)
    DEF processVars, runnerVars, loadVars, closerVars, ghosts, Shape, Order, Retrying, Exited,
        Alive, Gens, Look, Fail, OutOfMemory
<1>11. ASSUME PollLoading PROVE Order'
  BY <1>11, SMTT(30)
    DEF processVars, runnerVars, loadVars, closerVars, ghosts, Shape, Order, Retrying, Exited,
        Alive, Gens, PollLoading
<1>12. ASSUME PollReady PROVE Order'
  BY <1>12, SMTT(30)
    DEF processVars, runnerVars, loadVars, closerVars, ghosts, Shape, Order, Retrying, Exited,
        Alive, Gens, PollReady
<1>13. ASSUME NEW status, PollOther(status) PROVE Order'
  <2>1. /\ load = "poll" /\ load' = "look"
        /\ UNCHANGED <<processVars, runnerVars, stage, result, comp, closerVars, ghosts>>
    BY <1>13 DEF PollOther
  <2> QED
    BY <2>1, SMTT(30)
      DEF processVars, runnerVars, loadVars, closerVars, ghosts, Shape, Order, Retrying,
          Exited, Gens
<1>14. ASSUME NEW text, PollError(text) PROVE Order'
  BY <1>14, PollErrorEnds, SMTT(30)
    DEF Ends, Buffers, processVars, runnerVars, loadVars, closerVars, ghosts, Shape, Order,
        Retrying, Exited, Gens
<1>15. ASSUME Judge PROVE Order'
  BY <1>15, SMTT(30)
    DEF processVars, runnerVars, loadVars, closerVars, ghosts, Shape, Order, Retrying, Exited,
        Alive, Gens, Judge, MayRetry
<1>16. ASSUME RetryStops PROVE Order'
  BY <1>16, SMTT(30)
    DEF processVars, runnerVars, loadVars, closerVars, ghosts, Shape, Order, Retrying, Exited,
        Alive, Gens, RetryStops, Kill
<1>17. ASSUME RetryStopped PROVE Order'
  BY <1>17, SMTT(30)
    DEF processVars, runnerVars, loadVars, closerVars, ghosts, Shape, Order, Retrying, Exited,
        Alive, Gens, RetryStopped
<1>18. ASSUME ResetLoadAccounting PROVE Order'
  BY <1>18, SMTT(30)
    DEF processVars, runnerVars, loadVars, closerVars, ghosts, Shape, Order, Retrying, Exited,
        Alive, Gens, ResetLoadAccounting
<1>19. ASSUME StartProcess PROVE Order'
  BY <1>19, SMTT(30)
    DEF processVars, runnerVars, loadVars, closerVars, ghosts, Shape, Order, Retrying, Exited,
        Alive, Gens, StartProcess
<1>20. ASSUME AssignProcess PROVE Order'
  BY <1>20, SMTT(30)
    DEF processVars, runnerVars, loadVars, closerVars, ghosts, Shape, Order, Retrying, Exited,
        Alive, Gens, AssignProcess
<1>21. ASSUME NEW c \in Closers, Stop(c) PROVE Order'
  BY <1>21, SMTT(30)
    DEF processVars, runnerVars, loadVars, closerVars, ghosts, Shape, Order, Retrying, Exited,
        Alive, Gens, Stop, MayClose, Kill
<1>22. ASSUME NEW c \in Closers, AwaitExit(c) PROVE Order'
  BY <1>22, SMTT(30)
    DEF processVars, runnerVars, loadVars, closerVars, ghosts, Shape, Order, Retrying, Exited,
        Alive, Gens, AwaitExit
<1>23. ASSUME NEW c \in Closers, Stopped(c) PROVE Order'
  BY <1>23, SMTT(30)
    DEF processVars, runnerVars, loadVars, closerVars, ghosts, Shape, Order, Retrying, Exited,
        Alive, Gens, Stopped
<1>24. ASSUME NEW r \in Requests, Serve(r) PROVE Order'
  BY <1>24, ServeMoves, SMTT(30)
    DEF processVars, runnerVars, loadVars, closerVars, ghosts, Shape, Order, Retrying, Exited,
        Gens, Moves, Ended
<1>25. CASE UNCHANGED serverVars
  BY <1>25, SMTT(30)
    DEF serverVars, processVars, runnerVars, loadVars, closerVars, ghosts, Shape, Order,
        Retrying, Exited, Alive, Gens
<1> QED
  BY <1>1, <1>2, <1>3, <1>4, <1>5, <1>6, <1>7, <1>8, <1>9, <1>10, <1>11, <1>12, <1>13,
     <1>14, <1>15, <1>16, <1>17, <1>18, <1>19, <1>20, <1>21, <1>22, <1>23, <1>24, <1>25
  DEF Next, Wait, Retry, Reaper, Close

\* Every step keeps errors with the process that reported them.
LEMMA OwnStep ==
  ASSUME Shape, Order, Counted, Own, [Next]_serverVars
  PROVE  Own'
<1>1. ASSUME NEW g \in Gens, NEW line \in Lines, Says(g, line) PROVE Own'
  BY <1>1, SMTT(30)
    DEF processVars, runnerVars, loadVars, closerVars, ghosts, Shape, Order, Own, Retrying,
        Latest, Exited, Alive, Gens, Lines, Buffers, Memory, OutOfMemory, Recoverable, Says
<1>2. ASSUME NEW g \in Gens, BecomesReady(g) PROVE Own'
  BY <1>2, SMTT(30)
    DEF processVars, runnerVars, loadVars, closerVars, ghosts, Shape, Order, Own, Retrying,
        Latest, Exited, Alive, Gens, Lines, Buffers, Memory, OutOfMemory, Recoverable,
        BecomesReady
<1>3. ASSUME NEW g \in Gens, Dies(g) PROVE Own'
  BY <1>3, SMTT(30)
    DEF processVars, runnerVars, loadVars, closerVars, ghosts, Shape, Order, Own, Retrying,
        Latest, Exited, Alive, Gens, Lines, Buffers, Memory, OutOfMemory, Recoverable, Dies
<1>4. ASSUME NEW g \in Gens, Copy(g) PROVE Own'
  <2>1. /\ pipe[g] \in Seq(Lines) /\ pipe[g] # <<>> /\ pipe'[g] = Tail(pipe[g])
        /\ UNCHANGED <<state, reap, said, cur, load, result, ghosts>>
    BY <1>4, SMT DEF Copy, Shape
  <2>2. \A k \in Gens : k # g => pipe'[k] = pipe[k]
    BY <1>4, SMT DEF Copy, Shape
  <2>3. Head(pipe[g]) = pipe[g][1] /\ 1 \in 1 .. Len(pipe[g])
    BY <2>1, SMT
  <2>4. Memory(Head(pipe[g])) \subseteq said[g]
    BY <2>3 DEF Own
  <2>5. error' # "none" => error # "none" \/ "oom" \in said[g]
    BY <1>4, <2>4, SMT DEF Copy, WithError, Memory, Buffers
  <2>6. reap[g] # "done"
    BY <2>1 DEF Own
  <2>7. \A k \in Gens : \A i \in 1 .. Len(pipe'[k]) : Memory(pipe'[k][i]) \subseteq said[k]
    <3> SUFFICES ASSUME NEW i \in 1 .. Len(pipe'[g])
                 PROVE  Memory(pipe'[g][i]) \subseteq said[g]
      BY <2>2 DEF Own
    <3>1. i + 1 \in 1 .. Len(pipe[g]) /\ pipe'[g][i] = pipe[g][i + 1]
      BY <2>1, SMT
    <3> QED
      BY <3>1 DEF Own
  <2>8. \A k \in Gens : reap[k] = "done" => pipe'[k] = <<>>
    BY <2>2, <2>6 DEF Own
  <2>9. ~ mixed /\ load = "start" => error' = "none"
    <3> SUFFICES ASSUME ~ mixed, load = "start" PROVE error' = "none"
      OBVIOUS
    <3>1. reap[1] = "done" /\ state[2] = "none"
      BY SMT DEF Own, Order, Retrying
    <3>2. g = 1
      BY <3>1, <2>1, SMT DEF Counted, Gens
    <3> QED
      BY <3>1, <3>2, <2>6
  <2>10. ~ mixed /\ error' # "none" => "oom" \in said[Latest]
    <3>1. CASE g = Latest
      BY <3>1, <2>5 DEF Own
    <3>2. CASE g # Latest /\ state[2] # "none"
      <4>1. g = 1
        BY <3>2 DEF Latest, Gens
      <4> QED
        BY <4>1, <3>2, <2>6 DEF Own
    <3>3. CASE g # Latest /\ state[2] = "none"
      BY <3>3, <2>1, SMT DEF Latest, Gens, Counted
    <3> QED
      BY <3>1, <3>2, <3>3
  <2> QED
    BY <2>1, <2>7, <2>8, <2>9, <2>10, SMT DEF Own, Latest, ghosts
<1>5. ASSUME NEW g \in Gens, WaitedFor(g) PROVE Own'
  BY <1>5, SMTT(30)
    DEF processVars, runnerVars, loadVars, closerVars, ghosts, Shape, Order, Own, Retrying,
        Latest, Exited, Alive, Gens, Lines, Buffers, Memory, OutOfMemory, Recoverable, WaitedFor
<1>6. ASSUME NEW g \in Gens, CloseDone(g) PROVE Own'
  BY <1>6, SMTT(30)
    DEF processVars, runnerVars, loadVars, closerVars, ghosts, Shape, Order, Own, Retrying,
        Latest, Exited, Alive, Gens, Lines, Buffers, Memory, OutOfMemory, Recoverable, CloseDone
<1>7. ASSUME Abandon PROVE Own'
  BY <1>7, SMTT(30)
    DEF processVars, runnerVars, loadVars, closerVars, ghosts, Shape, Order, Own, Retrying,
        Latest, Exited, Alive, Gens, Lines, Buffers, Memory, OutOfMemory, Recoverable, Abandon,
        Fail
<1>8. ASSUME TimePasses PROVE Own'
  BY <1>8, SMTT(30)
    DEF processVars, runnerVars, loadVars, closerVars, ghosts, Shape, Order, Own, Retrying,
        Latest, Exited, Alive, Gens, Lines, Buffers, Memory, OutOfMemory, Recoverable, TimePasses
<1>9. ASSUME BeginWait PROVE Own'
  BY <1>9, SMTT(30)
    DEF processVars, runnerVars, loadVars, closerVars, ghosts, Shape, Order, Own, Retrying,
        Latest, Exited, Alive, Gens, Lines, Buffers, Memory, OutOfMemory, Recoverable, BeginWait
<1>10. ASSUME Look PROVE Own'
  BY <1>10, SMTT(30)
    DEF processVars, runnerVars, loadVars, closerVars, ghosts, Shape, Order, Own, Retrying,
        Latest, Exited, Alive, Gens, Lines, Buffers, Memory, OutOfMemory, Recoverable, Look, Fail
<1>11. ASSUME PollLoading PROVE Own'
  BY <1>11, SMTT(30)
    DEF processVars, runnerVars, loadVars, closerVars, ghosts, Shape, Order, Own, Retrying,
        Latest, Exited, Alive, Gens, Lines, Buffers, Memory, OutOfMemory, Recoverable, PollLoading
<1>12. ASSUME PollReady PROVE Own'
  BY <1>12, SMTT(30)
    DEF processVars, runnerVars, loadVars, closerVars, ghosts, Shape, Order, Own, Retrying,
        Latest, Exited, Alive, Gens, Lines, Buffers, Memory, OutOfMemory, Recoverable, PollReady
<1>13. ASSUME NEW status, PollOther(status) PROVE Own'
  <2>1. /\ load = "poll" /\ load' = "look"
        /\ UNCHANGED <<processVars, runnerVars, stage, result, comp, closerVars, ghosts>>
    BY <1>13 DEF PollOther
  <2> QED
    BY <2>1, SMTT(30)
      DEF processVars, runnerVars, loadVars, closerVars, ghosts, Shape, Order, Own, Retrying,
          Latest, Exited, Gens
<1>14. ASSUME NEW text, PollError(text) PROVE Own'
  BY <1>14, PollErrorEnds, SMTT(30)
    DEF Ends, Buffers, OutOfMemory, processVars, runnerVars, loadVars, closerVars, ghosts,
        Shape, Order, Own, Retrying, Latest, Exited, Gens
<1>15. ASSUME Judge PROVE Own'
  BY <1>15, SMTT(30)
    DEF processVars, runnerVars, loadVars, closerVars, ghosts, Shape, Order, Own, Retrying,
        Latest, Exited, Alive, Gens, Lines, Buffers, Memory, OutOfMemory, Recoverable, Judge,
        MayRetry
<1>16. ASSUME RetryStops PROVE Own'
  BY <1>16, SMTT(30)
    DEF processVars, runnerVars, loadVars, closerVars, ghosts, Shape, Order, Own, Retrying,
        Latest, Exited, Alive, Gens, Lines, Buffers, Memory, OutOfMemory, Recoverable, RetryStops,
        Kill
<1>17. ASSUME RetryStopped PROVE Own'
  BY <1>17, SMTT(30)
    DEF processVars, runnerVars, loadVars, closerVars, ghosts, Shape, Order, Own, Retrying,
        Latest, Exited, Alive, Gens, Lines, Buffers, Memory, OutOfMemory, Recoverable,
        RetryStopped
<1>18. ASSUME ResetLoadAccounting PROVE Own'
  <2>1. /\ load = "reset" /\ load' = "start" /\ error' = "none"
        /\ mixed' = (reap[cur] # "done")
        /\ UNCHANGED <<processVars, cur, result>>
    BY <1>18 DEF ResetLoadAccounting
  <2>2. cur = 1 /\ ~ mixed /\ state[2] = "none"
    BY <2>1, SMT DEF Own, Order, Retrying
  <2>3. result = "oom" => "oom" \in said[cur]
    BY <2>1, <2>2 DEF Own, Retrying
  <2>4. UNCHANGED <<pipe, reap, said, state, cur, result>>
    BY <2>1 DEF processVars
  <2>5. \A g \in Gens : \A i \in 1 .. Len(pipe'[g]) : Memory(pipe'[g][i]) \subseteq said'[g]
    BY <2>4 DEF Own
  <2>6. \A g \in Gens : reap'[g] = "done" => pipe'[g] = <<>>
    BY <2>4 DEF Own
  <2>7. ~ mixed' => reap'[1] = "done"
    BY <2>1, <2>2, <2>4
  <2> QED
    BY <2>1, <2>3, <2>4, <2>5, <2>6, <2>7 DEF Own
<1>19. ASSUME StartProcess PROVE Own'
  BY <1>19, SMTT(30)
    DEF processVars, runnerVars, loadVars, closerVars, ghosts, Shape, Order, Own, Retrying,
        Latest, Exited, Alive, Gens, Lines, Buffers, Memory, OutOfMemory, Recoverable,
        StartProcess
<1>20. ASSUME AssignProcess PROVE Own'
  BY <1>20, SMTT(30)
    DEF processVars, runnerVars, loadVars, closerVars, ghosts, Shape, Order, Own, Retrying,
        Latest, Exited, Alive, Gens, Lines, Buffers, Memory, OutOfMemory, Recoverable,
        AssignProcess
<1>21. ASSUME NEW c \in Closers, Stop(c) PROVE Own'
  BY <1>21, SMTT(30)
    DEF processVars, runnerVars, loadVars, closerVars, ghosts, Shape, Order, Own, Retrying,
        Latest, Exited, Alive, Gens, Lines, Buffers, Memory, OutOfMemory, Recoverable, Stop,
        MayClose, Kill
<1>22. ASSUME NEW c \in Closers, AwaitExit(c) PROVE Own'
  BY <1>22, SMTT(30)
    DEF processVars, runnerVars, loadVars, closerVars, ghosts, Shape, Order, Own, Retrying,
        Latest, Exited, Alive, Gens, Lines, Buffers, Memory, OutOfMemory, Recoverable, AwaitExit
<1>23. ASSUME NEW c \in Closers, Stopped(c) PROVE Own'
  BY <1>23, SMTT(30)
    DEF processVars, runnerVars, loadVars, closerVars, ghosts, Shape, Order, Own, Retrying,
        Latest, Exited, Alive, Gens, Lines, Buffers, Memory, OutOfMemory, Recoverable, Stopped
<1>24. ASSUME NEW r \in Requests, Serve(r) PROVE Own'
  BY <1>24, ServeMoves, SMTT(30)
    DEF processVars, runnerVars, loadVars, closerVars, ghosts, Shape, Order, Own, Retrying,
        Latest, Exited, Gens, Moves, Ended
<1>25. CASE UNCHANGED serverVars
  BY <1>25, SMTT(30)
    DEF serverVars, processVars, runnerVars, loadVars, closerVars, ghosts, Shape, Order, Own,
        Retrying, Latest, Exited, Alive, Gens, Lines, Buffers, Memory, OutOfMemory, Recoverable
<1> QED
  BY <1>1, <1>2, <1>3, <1>4, <1>5, <1>6, <1>7, <1>8, <1>9, <1>10, <1>11, <1>12, <1>13,
     <1>14, <1>15, <1>16, <1>17, <1>18, <1>19, <1>20, <1>21, <1>22, <1>23, <1>24, <1>25
  DEF Next, Wait, Retry, Reaper, Close

\* Every step keeps reported buffers counted or still in the pipe.
LEMMA CountedStep ==
  ASSUME Shape, Order, Counted, [Next]_serverVars
  PROVE  Counted'
<1>1. ASSUME NEW g \in Gens, NEW line \in Lines, Says(g, line) PROVE Counted'
  <2>1. state[g] # "none" /\ UNCHANGED <<state, retried, counted>>
    BY <1>1 DEF Says, runnerVars
  <2>2. \A k \in Gens : k # g => said'[k] = said[k] /\ pipe'[k] = pipe[k]
    BY <1>1, SMT DEF Says, Shape
  <2>3. said'[g] = said[g] \cup Memory(line) /\ pipe'[g] = Append(pipe[g], line)
    BY <1>1, SMT DEF Says, Shape
  <2>4. pipe[g] \in Seq(Lines)
    BY DEF Shape
  <2>5. Memory(line) \cap Buffers \subseteq {line}
    BY SMT DEF Memory, Buffers
  <2>6. Known(g) => Known(g)'
    <3> SUFFICES ASSUME Known(g), NEW b \in said'[g] \cap Buffers, b \notin counted'
                 PROVE  \E i \in 1 .. Len(pipe'[g]) : pipe'[g][i] = b
      BY DEF Known
    <3>1. CASE b = line
      BY <3>1, <2>3, <2>4, SMT
    <3>2. CASE b # line
      <4>1. b \in said[g] \cap Buffers /\ b \notin counted
        BY <3>2, <2>1, <2>3, <2>5
      <4>2. PICK i \in 1 .. Len(pipe[g]) : pipe[g][i] = b
        BY <4>1 DEF Known
      <4> QED
        BY <4>2, <2>3, <2>4, SMT
    <3> QED
      BY <3>1, <3>2
  <2> QED
    BY <2>1, <2>2, <2>6, SMT DEF Counted, Known, Gens
<1>2. ASSUME NEW g \in Gens, BecomesReady(g) PROVE Counted'
  BY <1>2, SMTT(30)
    DEF processVars, runnerVars, loadVars, closerVars, ghosts, Shape, Order, Counted, Known,
        Retrying, Gens, Lines, Buffers, Exited, Alive, BecomesReady
<1>3. ASSUME NEW g \in Gens, Dies(g) PROVE Counted'
  BY <1>3, SMTT(30)
    DEF processVars, runnerVars, loadVars, closerVars, ghosts, Shape, Order, Counted, Known,
        Retrying, Gens, Lines, Buffers, Exited, Alive, Dies
<1>4. ASSUME NEW g \in Gens, Copy(g) PROVE Counted'
  <2>1. /\ pipe[g] \in Seq(Lines) /\ pipe[g] # <<>> /\ pipe'[g] = Tail(pipe[g])
        /\ UNCHANGED <<state, said, retried>>
    BY <1>4, SMT DEF Copy, Shape
  <2>2. \A k \in Gens : k # g => pipe'[k] = pipe[k]
    BY <1>4, SMT DEF Copy, Shape
  <2>3. counted \subseteq counted' /\ (Head(pipe[g]) \in Buffers => Head(pipe[g]) \in counted')
    BY <1>4, SMT DEF Copy, Shape
  <2>4. \A i \in 1 .. Len(pipe[g]) :
          pipe[g][i] = Head(pipe[g]) \/ \E j \in 1 .. Len(pipe'[g]) : pipe'[g][j] = pipe[g][i]
    <3> TAKE i \in 1 .. Len(pipe[g])
    <3>1. CASE i = 1
      BY <3>1, <2>1, SMT
    <3>2. CASE i # 1
      <4>1. i - 1 \in 1 .. Len(pipe'[g]) /\ pipe'[g][i - 1] = pipe[g][i]
        BY <3>2, <2>1, SMT
      <4> QED
        BY <4>1
    <3> QED
      BY <3>1, <3>2
  <2>5. \A k \in Gens : Known(k) => Known(k)'
    <3> SUFFICES ASSUME NEW k \in Gens, Known(k), NEW b \in said[k] \cap Buffers, b \notin counted'
                 PROVE  \E j \in 1 .. Len(pipe'[k]) : pipe'[k][j] = b
      BY <2>1 DEF Known
    <3>1. PICK i \in 1 .. Len(pipe[k]) : pipe[k][i] = b
      BY <2>3 DEF Known
    <3>2. CASE k = g
      BY <3>1, <3>2, <2>3, <2>4
    <3>3. CASE k # g
      BY <3>1, <3>3, <2>2
    <3> QED
      BY <3>2, <3>3
  <2>6. state[2] = "none" => g # 2
    BY <2>1 DEF Counted
  <2> QED
    BY <2>1, <2>2, <2>5, <2>6, SMT DEF Counted, Gens
<1>5. ASSUME NEW g \in Gens, WaitedFor(g) PROVE Counted'
  BY <1>5, SMTT(30)
    DEF processVars, runnerVars, loadVars, closerVars, ghosts, Shape, Order, Counted, Known,
        Retrying, Gens, Lines, Buffers, Exited, Alive, WaitedFor
<1>6. ASSUME NEW g \in Gens, CloseDone(g) PROVE Counted'
  BY <1>6, SMTT(30)
    DEF processVars, runnerVars, loadVars, closerVars, ghosts, Shape, Order, Counted, Known,
        Retrying, Gens, Lines, Buffers, Exited, Alive, CloseDone
<1>7. ASSUME Abandon PROVE Counted'
  BY <1>7, SMTT(30)
    DEF processVars, runnerVars, loadVars, closerVars, ghosts, Shape, Order, Counted, Known,
        Retrying, Gens, Lines, Buffers, Exited, Alive, Abandon, Fail, OutOfMemory
<1>8. ASSUME TimePasses PROVE Counted'
  BY <1>8, SMTT(30)
    DEF processVars, runnerVars, loadVars, closerVars, ghosts, Shape, Order, Counted, Known,
        Retrying, Gens, Lines, Buffers, Exited, Alive, TimePasses
<1>9. ASSUME BeginWait PROVE Counted'
  BY <1>9, SMTT(30)
    DEF processVars, runnerVars, loadVars, closerVars, ghosts, Shape, Order, Counted, Known,
        Retrying, Gens, Lines, Buffers, Exited, Alive, BeginWait
<1>10. ASSUME Look PROVE Counted'
  BY <1>10, SMTT(30)
    DEF processVars, runnerVars, loadVars, closerVars, ghosts, Shape, Order, Counted, Known,
        Retrying, Gens, Lines, Buffers, Exited, Alive, Look, Fail, OutOfMemory
<1>11. ASSUME PollLoading PROVE Counted'
  BY <1>11, SMTT(30)
    DEF processVars, runnerVars, loadVars, closerVars, ghosts, Shape, Order, Counted, Known,
        Retrying, Gens, Lines, Buffers, Exited, Alive, PollLoading
<1>12. ASSUME PollReady PROVE Counted'
  BY <1>12, SMTT(30)
    DEF processVars, runnerVars, loadVars, closerVars, ghosts, Shape, Order, Counted, Known,
        Retrying, Gens, Lines, Buffers, Exited, Alive, PollReady
<1>13. ASSUME NEW status, PollOther(status) PROVE Counted'
  <2>1. /\ load = "poll" /\ load' = "look"
        /\ UNCHANGED <<processVars, runnerVars, stage, result, comp, closerVars, ghosts>>
    BY <1>13 DEF PollOther
  <2> QED
    BY <2>1, SMTT(30) DEF processVars, runnerVars, loadVars, closerVars, ghosts, Counted, Known
<1>14. ASSUME NEW text, PollError(text) PROVE Counted'
  <2>1. \A k \in Gens : said'[k] \cap Buffers = said[k] \cap Buffers
    <3>1. \/ said' = said
          \/ said' = [said EXCEPT ![cur] = @ \cup {"oom"}]
      BY <1>14, PollErrorEnds DEF Ends
    <3>2. "oom" \notin Buffers
      BY DEF Buffers
    <3> SUFFICES ASSUME NEW k \in Gens PROVE said'[k] \cap Buffers = said[k] \cap Buffers
      OBVIOUS
    <3>3. said'[k] = said[k] \/ said'[k] = said[k] \cup {"oom"}
      BY <3>1, SMT DEF Shape
    <3> QED
      BY <3>2, <3>3, SMT
  <2>2. UNCHANGED <<state, pipe, retried, counted>>
    BY <1>14, PollErrorEnds DEF Ends, runnerVars
  <2>3. state[2] = "none" => cur # 2
    BY DEF Order
  <2>4. state[2] = "none" => said'[2] = said[2]
    BY <1>14, <2>3, PollErrorEnds, SMT DEF Ends, Shape, Gens
  <2> QED
    BY <2>1, <2>2, <2>4, SMT DEF Counted, Known, Gens
<1>15. ASSUME Judge PROVE Counted'
  BY <1>15, SMTT(30)
    DEF processVars, runnerVars, loadVars, closerVars, ghosts, Shape, Order, Counted, Known,
        Retrying, Gens, Lines, Buffers, Exited, Alive, Judge, MayRetry
<1>16. ASSUME RetryStops PROVE Counted'
  BY <1>16, SMTT(30)
    DEF processVars, runnerVars, loadVars, closerVars, ghosts, Shape, Order, Counted, Known,
        Retrying, Gens, Lines, Buffers, Exited, Alive, RetryStops, Kill
<1>17. ASSUME RetryStopped PROVE Counted'
  BY <1>17, SMTT(30)
    DEF processVars, runnerVars, loadVars, closerVars, ghosts, Shape, Order, Counted, Known,
        Retrying, Gens, Lines, Buffers, Exited, Alive, RetryStopped
<1>18. ASSUME ResetLoadAccounting PROVE Counted'
  BY <1>18, SMTT(30)
    DEF processVars, runnerVars, loadVars, closerVars, ghosts, Shape, Order, Counted, Known,
        Retrying, Gens, Lines, Buffers, Exited, Alive, ResetLoadAccounting
<1>19. ASSUME StartProcess PROVE Counted'
  BY <1>19, SMTT(30)
    DEF processVars, runnerVars, loadVars, closerVars, ghosts, Shape, Order, Counted, Known,
        Retrying, Gens, Lines, Buffers, Exited, Alive, StartProcess
<1>20. ASSUME AssignProcess PROVE Counted'
  BY <1>20, SMTT(30)
    DEF processVars, runnerVars, loadVars, closerVars, ghosts, Shape, Order, Counted, Known,
        Retrying, Gens, Lines, Buffers, Exited, Alive, AssignProcess
<1>21. ASSUME NEW c \in Closers, Stop(c) PROVE Counted'
  BY <1>21, SMTT(30)
    DEF processVars, runnerVars, loadVars, closerVars, ghosts, Shape, Order, Counted, Known,
        Retrying, Gens, Lines, Buffers, Exited, Alive, Stop, MayClose, Kill
<1>22. ASSUME NEW c \in Closers, AwaitExit(c) PROVE Counted'
  BY <1>22, SMTT(30)
    DEF processVars, runnerVars, loadVars, closerVars, ghosts, Shape, Order, Counted, Known,
        Retrying, Gens, Lines, Buffers, Exited, Alive, AwaitExit
<1>23. ASSUME NEW c \in Closers, Stopped(c) PROVE Counted'
  BY <1>23, SMTT(30)
    DEF processVars, runnerVars, loadVars, closerVars, ghosts, Shape, Order, Counted, Known,
        Retrying, Gens, Lines, Buffers, Exited, Alive, Stopped
<1>24. ASSUME NEW r \in Requests, Serve(r) PROVE Counted'
  BY <1>24, ServeMoves, SMTT(30)
    DEF processVars, runnerVars, loadVars, closerVars, ghosts, Counted, Known, Moves, Ended
<1>25. CASE UNCHANGED serverVars
  BY <1>25, SMTT(30)
    DEF serverVars, processVars, runnerVars, loadVars, closerVars, ghosts, Shape, Order,
        Counted, Known, Retrying, Gens, Lines, Buffers, Exited, Alive
<1> QED
  BY <1>1, <1>2, <1>3, <1>4, <1>5, <1>6, <1>7, <1>8, <1>9, <1>10, <1>11, <1>12, <1>13,
     <1>14, <1>15, <1>16, <1>17, <1>18, <1>19, <1>20, <1>21, <1>22, <1>23, <1>24, <1>25
  DEF Next, Wait, Retry, Reaper, Close

\* Every step keeps those who close with the process they closed.
LEMMA ClosingStep ==
  ASSUME Shape, Order, Closing, [Next]_serverVars
  PROVE  Closing'
<1>1. ASSUME NEW g \in Gens, NEW line \in Lines, Says(g, line) PROVE Closing'
  BY <1>1, ServerAssumption, SMTT(30)
    DEF processVars, runnerVars, loadVars, closerVars, ghosts, Shape, Order, Closing, Exited,
        Gens, Alive, Closers, Says, Memory
<1>2. ASSUME NEW g \in Gens, BecomesReady(g) PROVE Closing'
  BY <1>2, ServerAssumption, SMTT(30)
    DEF processVars, runnerVars, loadVars, closerVars, ghosts, Shape, Order, Closing, Exited,
        Gens, Alive, Closers, BecomesReady
<1>3. ASSUME NEW g \in Gens, Dies(g) PROVE Closing'
  BY <1>3, ServerAssumption, SMTT(30)
    DEF processVars, runnerVars, loadVars, closerVars, ghosts, Shape, Order, Closing, Exited,
        Gens, Alive, Closers, Dies
<1>4. ASSUME NEW g \in Gens, Copy(g) PROVE Closing'
  BY <1>4, ServerAssumption, SMTT(30)
    DEF processVars, runnerVars, loadVars, closerVars, ghosts, Shape, Order, Closing, Exited,
        Gens, Alive, Closers, Copy, WithError
<1>5. ASSUME NEW g \in Gens, WaitedFor(g) PROVE Closing'
  BY <1>5, ServerAssumption, SMTT(30)
    DEF processVars, runnerVars, loadVars, closerVars, ghosts, Shape, Order, Closing, Exited,
        Gens, Alive, Closers, WaitedFor
<1>6. ASSUME NEW g \in Gens, CloseDone(g) PROVE Closing'
  BY <1>6, ServerAssumption, SMTT(30)
    DEF processVars, runnerVars, loadVars, closerVars, ghosts, Shape, Order, Closing, Exited,
        Gens, Alive, Closers, CloseDone
<1>7. ASSUME Abandon PROVE Closing'
  BY <1>7, ServerAssumption, SMTT(30)
    DEF processVars, runnerVars, loadVars, closerVars, ghosts, Shape, Order, Closing, Exited,
        Gens, Alive, Closers, Abandon, Fail, OutOfMemory
<1>8. ASSUME TimePasses PROVE Closing'
  BY <1>8, ServerAssumption, SMTT(30)
    DEF processVars, runnerVars, loadVars, closerVars, ghosts, Shape, Order, Closing, Exited,
        Gens, Alive, Closers, TimePasses
<1>9. ASSUME BeginWait PROVE Closing'
  BY <1>9, ServerAssumption, SMTT(30)
    DEF processVars, runnerVars, loadVars, closerVars, ghosts, Shape, Order, Closing, Exited,
        Gens, Alive, Closers, BeginWait
<1>10. ASSUME Look PROVE Closing'
  BY <1>10, ServerAssumption, SMTT(30)
    DEF processVars, runnerVars, loadVars, closerVars, ghosts, Shape, Order, Closing, Exited,
        Gens, Alive, Closers, Look, Fail, OutOfMemory
<1>11. ASSUME PollLoading PROVE Closing'
  BY <1>11, ServerAssumption, SMTT(30)
    DEF processVars, runnerVars, loadVars, closerVars, ghosts, Shape, Order, Closing, Exited,
        Gens, Alive, Closers, PollLoading
<1>12. ASSUME PollReady PROVE Closing'
  BY <1>12, ServerAssumption, SMTT(30)
    DEF processVars, runnerVars, loadVars, closerVars, ghosts, Shape, Order, Closing, Exited,
        Gens, Alive, Closers, PollReady
<1>13. ASSUME NEW status, PollOther(status) PROVE Closing'
  <2>1. /\ load = "poll" /\ load' = "look"
        /\ UNCHANGED <<processVars, runnerVars, stage, result, comp, closerVars, ghosts>>
    BY <1>13 DEF PollOther
  <2> QED
    BY <2>1, SMTT(30) DEF processVars, runnerVars, loadVars, closerVars, ghosts, Closing, Exited
<1>14. ASSUME NEW text, PollError(text) PROVE Closing'
  BY <1>14, PollErrorEnds, SMTT(30)
    DEF Ends, Buffers, processVars, runnerVars, loadVars, closerVars, ghosts, Closing, Exited
<1>15. ASSUME Judge PROVE Closing'
  BY <1>15, ServerAssumption, SMTT(30)
    DEF processVars, runnerVars, loadVars, closerVars, ghosts, Shape, Order, Closing, Exited,
        Gens, Alive, Closers, Judge, MayRetry
<1>16. ASSUME RetryStops PROVE Closing'
  BY <1>16, ServerAssumption, SMTT(30)
    DEF processVars, runnerVars, loadVars, closerVars, ghosts, Shape, Order, Closing, Exited,
        Gens, Alive, Closers, RetryStops, Kill
<1>17. ASSUME RetryStopped PROVE Closing'
  BY <1>17, ServerAssumption, SMTT(30)
    DEF processVars, runnerVars, loadVars, closerVars, ghosts, Shape, Order, Closing, Exited,
        Gens, Alive, Closers, RetryStopped
<1>18. ASSUME ResetLoadAccounting PROVE Closing'
  BY <1>18, ServerAssumption, SMTT(30)
    DEF processVars, runnerVars, loadVars, closerVars, ghosts, Shape, Order, Closing, Exited,
        Gens, Alive, Closers, ResetLoadAccounting
<1>19. ASSUME StartProcess PROVE Closing'
  BY <1>19, ServerAssumption, SMTT(30)
    DEF processVars, runnerVars, loadVars, closerVars, ghosts, Shape, Order, Closing, Exited,
        Gens, Alive, Closers, StartProcess
<1>20. ASSUME AssignProcess PROVE Closing'
  BY <1>20, ServerAssumption, SMTT(30)
    DEF processVars, runnerVars, loadVars, closerVars, ghosts, Shape, Order, Closing, Exited,
        Gens, Alive, Closers, AssignProcess
<1>21. ASSUME NEW c \in Closers, Stop(c) PROVE Closing'
  BY <1>21, ServerAssumption, SMTT(30)
    DEF processVars, runnerVars, loadVars, closerVars, ghosts, Shape, Order, Closing, Exited,
        Gens, Alive, Closers, Stop, MayClose, Kill
<1>22. ASSUME NEW c \in Closers, AwaitExit(c) PROVE Closing'
  BY <1>22, ServerAssumption, SMTT(30)
    DEF processVars, runnerVars, loadVars, closerVars, ghosts, Shape, Order, Closing, Exited,
        Gens, Alive, Closers, AwaitExit
<1>23. ASSUME NEW c \in Closers, Stopped(c) PROVE Closing'
  BY <1>23, ServerAssumption, SMTT(30)
    DEF processVars, runnerVars, loadVars, closerVars, ghosts, Shape, Order, Closing, Exited,
        Gens, Alive, Closers, Stopped
<1>24. ASSUME NEW r \in Requests, Serve(r) PROVE Closing'
  <2>1. /\ UNCHANGED <<closer, awaited, overtaken, reap, cur>>
        /\ \E to \in {"queued", "checking", "sending", "streaming", "cut", Ended} :
             comp' = [comp EXCEPT ![r] = to] /\ (comp[r] \in {"cut", Ended} => to = Ended)
    BY <1>24, ServeMoves DEF Moves, processVars, runnerVars, closerVars, ghosts
  <2>2. \A q \in Requests : comp[q] \in {"cut", Ended} => comp'[q] \in {"cut", Ended}
    BY <2>1 DEF Shape
  <2> QED
    BY <2>1, <2>2, SMT DEF Closing, Exited
<1>25. CASE UNCHANGED serverVars
  BY <1>25, SMTT(30)
    DEF serverVars, processVars, runnerVars, loadVars, closerVars, ghosts, Shape, Order,
        Closing, Exited, Gens, Alive, Closers
<1> QED
  BY <1>1, <1>2, <1>3, <1>4, <1>5, <1>6, <1>7, <1>8, <1>9, <1>10, <1>11, <1>12, <1>13,
     <1>14, <1>15, <1>16, <1>17, <1>18, <1>19, <1>20, <1>21, <1>22, <1>23, <1>24, <1>25
  DEF Next, Wait, Retry, Reaper, Close

\* It holds at first.
LEMMA InitHolds == Init => IInv
<1> SUFFICES ASSUME Init PROVE IInv
  OBVIOUS
<1> USE DEF Init, Gens
<1>1. Shape
  <2>1. pipe \in [Gens -> Seq(Lines)] /\ said \in [Gens -> SUBSET (Buffers \cup {"oom"})]
    <3>1. <<>> \in Seq(Lines)
      BY SMT
    <3> QED
      BY <3>1, SMT
  <2>2. /\ state \in [Gens -> {"none", "loading", "ready", "dying", "gone"}]
        /\ reap \in [Gens -> {"none", "waiting", "copying", "done"}]
    BY SMT
  <2>3. /\ comp \in [Requests -> {"new", "queued", "checking", "sending", "streaming", "cut",
                                 Ended}]
        /\ closer \in [Closers -> {"idle", "killed", "waiting", "closed"}]
        /\ awaited \in [Closers -> {None} \cup Gens]
    OBVIOUS
  <2>4. cur \in Gens
    BY SMT
  <2>5. /\ error \in {"none", "soft", "oom"} /\ seen \subseteq Buffers
        /\ counted \subseteq seen /\ retried \in BOOLEAN /\ projector \in BOOLEAN
    OBVIOUS
  <2>6. load \in LoadSteps /\ stage \in {"first", "confirm"}
    BY DEF LoadSteps
  <2> QED
    BY <2>1, <2>2, <2>3, <2>4, <2>5, <2>6 DEF Shape
<1>2. Order
  BY SMT DEF Order, Retrying, Exited
<1>3. Own
  BY SMT DEF Own, Retrying
<1>4. Counted
  BY SMT DEF Counted, Known
<1>5. Closing
  BY SMT DEF Closing, Closers
<1> QED
  BY <1>1, <1>2, <1>3, <1>4, <1>5 DEF IInv

\* It holds in every state.
THEOREM Invariance == Spec => []IInv
<1>1. IInv /\ [Next]_serverVars => IInv'
  BY ShapeStep, OrderStep, OwnStep, CountedStep, ClosingStep DEF IInv
<1> QED
  BY <1>1, InitHolds, PTL DEF Spec

\* The state has its type, and the second process is the retry's.
THEOREM ServerTypes == Spec => []ServerTypeOK
<1>1. IInv => ServerTypeOK
  <2> SUFFICES ASSUME IInv PROVE ServerTypeOK
    OBVIOUS
  <2>1. reap[cur] # "none"
    BY SMT DEF IInv, Shape, Order, Gens
  <2> QED
    BY <2>1, SMT DEF IInv, Shape, Order, Closing, ServerTypeOK
<1> QED
  BY <1>1, Invariance, PTL

\* A runner never has two processes.
THEOREM NeverTwoProcesses == Spec => []OneProcess
<1>1. IInv => OneProcess
  <2> SUFFICES ASSUME IInv PROVE OneProcess
    OBVIOUS
  <2>1. ~ Alive(1) \/ ~ Alive(2)
    BY SMT DEF IInv, Order, Alive, Gens
  <2>2. PICK k \in Gens : {g \in Gens : Alive(g)} \subseteq {k}
    BY <2>1, SMT DEF Gens
  <2>3. Cardinality({k}) = 1 /\ IsFiniteSet({k})
    BY FS_Singleton
  <2> QED
    BY <2>2, <2>3, FS_Subset DEF OneProcess
<1> QED
  BY <1>1, Invariance, PTL

\* A Close that has returned leaves no process behind.
THEOREM ClosedIsStopped == Spec => []ClosedMeansStopped
<1>1. IInv => ClosedMeansStopped
  <2> SUFFICES ASSUME IInv, NEW c \in Closers, closer[c] = "closed", ~ overtaken,
                      load \notin {"judge", "stop", "stopping", "reset", "start", "assign"},
                      NEW g \in Gens
               PROVE  ~ Alive(g)
    BY DEF ClosedMeansStopped
  <2>1. Exited(cur)
    BY DEF IInv, Closing
  <2>2. state[cur] = "gone"
    BY <2>1 DEF IInv, Shape, Order
  <2>3. g # cur => state[g] \in {"none", "gone"}
    BY SMT DEF IInv, Shape, Order, Gens
  <2> QED
    BY <2>2, <2>3 DEF Alive
<1> QED
  BY <1>1, Invariance, PTL

\* The retry is judged by its own output.
THEOREM VerdictsAreOwn == Spec => []VerdictIsOwn
<1>1. IInv => VerdictIsOwn
  BY DEF IInv, Own, VerdictIsOwn
<1> QED
  BY <1>1, Invariance, PTL

\* What the current process reported of its memory is counted.
THEOREM MemoryIsCounted == Spec => []ReportedMemoryIsCounted
<1>1. IInv => ReportedMemoryIsCounted
  <2> SUFFICES ASSUME IInv, retried => cur = 2, NEW b \in said[cur] \cap Buffers, b \notin counted
               PROVE  \E i \in 1 .. Len(pipe[cur]) : pipe[cur][i] = b
    BY DEF ReportedMemoryIsCounted
  <2>1. Known(cur)
    BY SMT DEF IInv, Shape, Counted, Order, Gens
  <2> QED
    BY <2>1 DEF Known
<1> QED
  BY <1>1, Invariance, PTL

=============================================================================
