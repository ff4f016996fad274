--------------------------- MODULE JobQueueProofs ---------------------------
(***************************************************************************)
(* Safety of the job queue, for every set of jobs and engines and any      *)
(* number of faults: type correctness and what a step may do to the        *)
(* tables, cancellation, the chain of attempts, the agreement of jobs with *)
(* their attempts, the limits of the lanes, and the rows of the takes;     *)
(* then how rows, the memories of sender and observers, and the engines    *)
(* agree, and what follows: no cursor passes its engine, one model runs on *)
(* the card at a time, a published result is the output of one run.        *)
(***************************************************************************)
EXTENDS JobQueue, FiniteSetTheorems, TLAPS

-----------------------------------------------------------------------------
\* A job without an attempt waits or was cancelled; it never ran.
NotStarted ==
  \A j \in Jobs :
    job[j].attempt = 0 => job[j].status \in {"queued", "cancelled"}

\* A terminal event is the last of a run.
EngineEnds == \A a \in Attempts : E!HasTerminal(a) => E!Over(a)

\* What is inductive with the types: what is sent has an attempt, and a run
\* whose terminal event was read does not go on.
TypeInv == TypeOK /\ NotStarted /\ EngineEnds

-----------------------------------------------------------------------------
(* Type correctness.                                                       *)

\* Recording the provenance keeps the shape of an attempt row.
LEMMA ProvenanceType ==
  ASSUME NEW row \in Attempt, NEW prov \in BOOLEAN
  PROVE  [row EXCEPT !.prov = prov] \in Attempt
BY DEF Attempt

\* What the values a step writes are made of.
LEMMA Constants ==
  /\ NoAttempt \in Attempt
  /\ NoWorker \in Worker
  /\ E!Unknown \in E!Remote
BY DEF NoAttempt, Attempt, NoWorker, Worker, E!Unknown, E!Remote

\* The retry policy only lets a job go on within its limit.
LEMMA RetryWithinLimit ==
  ASSUME NEW j \in Jobs, TypeOK, Retryable(j)
  PROVE  /\ job[j].attempt \in Ordinals
         /\ job[j].attempt + 1 \in Ordinals
         /\ Current(j) \in Attempts
         /\ att[Current(j)] \in Attempt
         /\ RetryMode(att[Current(j)]) \in {"full", "offload"}
BY QueueAssumption
   DEF TypeOK, Retryable, RetryPending, RetryBudget, RetryMode, Job, Attempt,
       Ordinals, Attempts, Current

\* The takes only ever end.
LEMMA TakeType ==
  ASSUME TypeOK, NEW j \in Jobs, NEW jrow, NEW row
  PROVE  TakeAfter(j, jrow, row) \in
           [Jobs -> {"queued", "failed", "cancelled"}]
BY DEF TypeOK, TakeAfter

\* Every step of an engine keeps the type of what it knows.
LEMMA EngineType ==
  ASSUME E!EngineTypeOK, NEW a \in Attempts,
         \/ E!Advance(a) \/ E!Accept(a) \/ E!Cancel(a)
         \/ E!Abandon(a) \/ E!Jam(a)
  PROVE  E!EngineTypeOK'
<1> USE DEF E!EngineTypeOK, E!Remote
<1>1. CASE E!Accept(a)
  BY <1>1 DEF E!Accept
<1>2. CASE E!Cancel(a)
  BY <1>2 DEF E!Cancel
<1>3. CASE E!Advance(a)
  <2>1. CASE E!Register(a)
    BY <2>1 DEF E!Register
  <2>2. CASE E!Reject(a)
    BY <2>2, Constants DEF E!Reject
  <2>3. CASE E!Start(a)
    BY <2>3 DEF E!Start
  <2>4. CASE E!Emit(a)
    BY <2>4 DEF E!Emit
  <2>5. CASE E!Seal(a)
    BY <2>5 DEF E!Seal
  <2>6. ASSUME NEW t \in E!Terminal, E!End(a, t) PROVE E!EngineTypeOK'
    BY <2>6 DEF E!End
  <2>7. CASE E!Finish(a)
    BY <2>7 DEF E!Finish
  <2> QED BY <1>3, <2>1, <2>2, <2>3, <2>4, <2>5, <2>6, <2>7 DEF E!Advance
<1>4. CASE E!Abandon(a)
  BY <1>4 DEF E!Abandon
<1>5. CASE E!Jam(a)
  BY <1>5 DEF E!Jam
<1> QED BY <1>1, <1>2, <1>3, <1>4, <1>5

\* A crash leaves an engine with nothing.
LEMMA CrashType ==
  ASSUME E!EngineTypeOK, NEW e \in Engines, E!Crash(e)
  PROVE  E!EngineTypeOK'
BY Constants DEF E!EngineTypeOK, E!Crash

\* A run ends with its terminal event and is not started again.
LEMMA EngineEndsKept ==
  ASSUME E!EngineTypeOK, EngineEnds,
         \/ \E a \in Attempts : \/ E!Advance(a) \/ E!Accept(a) \/ E!Cancel(a)
                                \/ E!Abandon(a) \/ E!Jam(a)
         \/ \E e \in Engines : E!Crash(e)
  PROVE  EngineEnds'
<1> USE DEF EngineEnds, E!EngineTypeOK, E!Remote, E!Over, E!HasTerminal
<1>1. ASSUME NEW e \in Engines, E!Crash(e) PROVE EngineEnds'
  BY <1>1 DEF E!Crash, E!Unknown
<1>2. ASSUME NEW a \in Attempts, E!Accept(a) PROVE EngineEnds'
  BY <1>2 DEF E!Accept
<1>3. ASSUME NEW a \in Attempts, E!Cancel(a) PROVE EngineEnds'
  BY <1>3 DEF E!Cancel
<1>4. ASSUME NEW a \in Attempts, E!Advance(a) PROVE EngineEnds'
  <2>1. CASE E!Register(a)
    BY <2>1 DEF E!Register
  <2>2. CASE E!Reject(a)
    BY <2>2 DEF E!Reject, E!Unknown
  <2>3. CASE E!Start(a)
    BY <2>3 DEF E!Start
  <2>4. CASE E!Emit(a)
    BY <2>4 DEF E!Emit
  <2>5. CASE E!Seal(a)
    BY <2>5 DEF E!Seal
  <2>6. ASSUME NEW t \in E!Terminal, E!End(a, t) PROVE EngineEnds'
    BY <2>6 DEF E!End
  <2>7. CASE E!Finish(a)
    BY <2>7 DEF E!Finish
  <2> QED BY <1>4, <2>1, <2>2, <2>3, <2>4, <2>5, <2>6, <2>7 DEF E!Advance
<1>5. ASSUME NEW a \in Attempts, E!Abandon(a) \/ E!Jam(a) PROVE EngineEnds'
  BY <1>5 DEF E!Abandon, E!Jam
<1> QED BY <1>1, <1>2, <1>3, <1>4, <1>5

\* The observer goes from one place of its loop to another.
LEMMA WorkerType ==
  ASSUME TypeOK, NEW a \in Attempts,
         NEW pc \in {"off", "poll", "asked", "absent", "safe", "resend",
                     "sent", "stream"},
         GoTo(a, pc)
  PROVE  worker' \in [Attempts -> Worker]
BY DEF TypeOK, GoTo, NoWorker, Worker

\* recovery.uncertain changes a status only.
LEMMA InterruptedType ==
  ASSUME TypeOK, NEW a \in Attempts
  PROVE  Interrupted(a) \in [Jobs -> Job]
BY SMTT(30) DEF TypeOK, Interrupted, Job, JobStatus, Attempts

\* The transaction of a terminal event writes rows of the right shape.
LEMMA AcceptType ==
  ASSUME TypeOK, NEW a \in Attempts, NEW t \in Terminal, AcceptTerminal(a, t)
  PROVE  /\ job' \in [Jobs -> Job]
         /\ att' \in [Attempts -> Attempt]
         /\ take' \in [Jobs -> {"queued", "failed", "cancelled"}]
<1> DEFINE j == a[1]
           jrow == [job[j] EXCEPT !.status = IF job[j].cancel THEN "cancelled"
                                             ELSE EndStatus(t)]
           row == [att[a] EXCEPT !.status = EndStatus(t), !.terminal = t,
                                 !.seq = @ + 1]
<1>1. j \in Jobs /\ job[j] \in Job /\ att[a] \in Attempt
  BY DEF TypeOK, Attempts
<1>2. EndStatus(t) \in {"succeeded", "failed", "cancelled"}
  BY DEF EndStatus
<1>3. jrow \in Job
  BY <1>1, <1>2 DEF Job, JobStatus
<1>4. row \in Attempt
  <2>1. att[a].seq + 1 \in Nat
    BY <1>1 DEF Attempt
  <2> QED BY <1>1, <1>2, <2>1 DEF Attempt
<1>5. /\ job' = [job EXCEPT ![j] = jrow]
      /\ att' = [att EXCEPT ![a] = row]
      /\ take' = TakeAfter(j, jrow, row)
  BY DEF AcceptTerminal
<1>6. take' \in [Jobs -> {"queued", "failed", "cancelled"}]
  BY <1>1, <1>5, TakeType
<1> QED BY <1>1, <1>3, <1>4, <1>5, <1>6 DEF TypeOK

\* An acknowledgement changes a status only.
LEMMA AcknowledgedType ==
  ASSUME TypeOK, NEW a
  PROVE  Acknowledged(a) \in [Attempts -> Attempt]
<1> DEFINE row == [att[a] EXCEPT !.status = "submitted"]
<1>1. a \in Attempts => row \in Attempt
  BY DEF TypeOK, Attempt
<1>2. Acknowledged(a) \in {att, [att EXCEPT ![a] = row]}
  BY DEF Acknowledged
<1> QED BY <1>1, <1>2 DEF TypeOK

\* The main loop, its failures and a user keep the types.
LEMMA MainLoopType ==
  ASSUME TypeOK, NEW j \in Jobs,
         NotStarted, MainLoop(j) \/ SendFails(j) \/ RequestCancel(j)
  PROVE  TypeOK'
<1>1. CASE Screen(j)
  BY <1>1 DEF Screen, TypeOK, E!EngineTypeOK, durable
<1>2. CASE Reserve(j)
  <2>1. 1 \in Ordinals /\ <<j, 1>> \in Attempts
    BY QueueAssumption DEF Ordinals, Attempts
  <2>2. [NoAttempt EXCEPT !.status = "prepared"] \in Attempt
    BY DEF NoAttempt, Attempt
  <2> DEFINE jrow == [job[j] EXCEPT !.status = "running", !.attempt = 1]
  <2>6. job' = [job EXCEPT ![j] = jrow]
    BY <1>2 DEF Reserve
  <2>7. jrow \in Job
    <3>1. 1 \in 0..MaxAttempts
      BY QueueAssumption
    <3> QED BY <3>1 DEF TypeOK, Job, JobStatus
  <2>3. job' \in [Jobs -> Job]
    BY <2>6, <2>7 DEF TypeOK
  <2>4. att' \in [Attempts -> Attempt]
    BY <1>2, <2>1, <2>2 DEF Reserve, TypeOK
  <2>5. step' \in [Jobs -> {"idle", "screened", "claimed", "captured", "sent"}]
    BY <1>2 DEF Reserve, TypeOK
  <2> QED BY <1>2, <2>3, <2>4, <2>5 DEF Reserve, TypeOK, E!EngineTypeOK
<1>3. CASE ReserveRetry(j)
  <2>1. Retryable(j)
    BY <1>3 DEF ReserveRetry
  <2>2. /\ job[j].attempt + 1 \in Ordinals
        /\ <<j, job[j].attempt + 1>> \in Attempts
        /\ RetryMode(att[Current(j)]) \in {"full", "offload"}
    BY <2>1, RetryWithinLimit DEF Attempts
  <2>3. [NoAttempt EXCEPT !.status = "prepared",
                          !.mode = RetryMode(att[Current(j)])] \in Attempt
    BY <2>2 DEF NoAttempt, Attempt
  <2>4. job' \in [Jobs -> Job]
    BY <1>3, <2>2 DEF ReserveRetry, TypeOK, Job, JobStatus, Ordinals
  <2>5. att' \in [Attempts -> Attempt]
    BY <1>3, <2>2, <2>3 DEF ReserveRetry, TypeOK
  <2>6. step' \in [Jobs -> {"idle", "screened", "claimed", "captured", "sent"}]
    BY <1>3 DEF ReserveRetry, TypeOK
  <2> QED BY <1>3, <2>4, <2>5, <2>6 DEF ReserveRetry, TypeOK, E!EngineTypeOK
<1>4. CASE Capture(j)
  <2>1. att' \in [Attempts -> Attempt]
    <3> DEFINE c == Current(j)
               row == [att[c] EXCEPT !.prov = j \in Musical]
    <3>1. att' = [att EXCEPT ![c] = row]
      BY <1>4 DEF Capture
    <3>2. c \in Attempts => att[c] \in Attempt
      BY DEF TypeOK
    <3>3. c \in Attempts => row \in Attempt
      BY <3>2, ProvenanceType, (j \in Musical) \in BOOLEAN
    <3> QED BY <3>1, <3>3 DEF TypeOK
  <2>2. step' \in [Jobs -> {"idle", "screened", "claimed", "captured", "sent"}]
    BY <1>4 DEF Capture, TypeOK
  <2> QED BY <1>4, <2>1, <2>2 DEF Capture, TypeOK, E!EngineTypeOK
<1>5. CASE Send(j)
  <2>1. job[j].status = "running" /\ job[j].attempt \in 0..MaxAttempts
    BY <1>5 DEF Send, SendAuthority, TypeOK, Job
  <2>2. job[j].attempt \in Ordinals
    BY <2>1, QueueAssumption DEF NotStarted, Ordinals
  <2>3. Current(j) \in Attempts
    BY <2>2 DEF Current, Attempts
  <2> QED BY <1>5, <2>3 DEF Send, TypeOK, E!EngineTypeOK, durable
<1>6. CASE Acknowledge(j)
  <2>1. att' \in [Attempts -> Attempt]
    BY <1>6, AcknowledgedType DEF Acknowledge
  <2> QED BY <1>6, <2>1 DEF Acknowledge, TypeOK, E!EngineTypeOK
<1>7. CASE SendStops(j)
  BY <1>7 DEF SendStops, TypeOK, E!EngineTypeOK, durable
<1>8. CASE CloseVram(j)
  <2>1. job[j].attempt \in Ordinals
    BY <1>8 DEF CloseVram, RetryBudget, TypeOK, Job, Ordinals
  <2>2. job' \in [Jobs -> Job]
    BY <1>8, <2>1 DEF CloseVram, TypeOK, Job
  <2>3. take' \in [Jobs -> {"queued", "failed", "cancelled"}]
    BY <1>8, TakeType DEF CloseVram
  <2> QED BY <1>8, <2>2, <2>3 DEF CloseVram, TypeOK, E!EngineTypeOK, server
<1>9. CASE SendFails(j)
  BY <1>9, QueueAssumption
     DEF SendFails, Fault, TypeOK, E!EngineTypeOK, durable
<1>10. CASE RequestCancel(j)
  <2>1. job' \in [Jobs -> Job]
    <3> DEFINE jrow == [job[j] EXCEPT !.cancel = TRUE,
                 !.status = IF job[j].attempt = 0 THEN "cancelled" ELSE @]
    <3>1. jrow \in Job
      BY DEF TypeOK, Job, JobStatus
    <3>2. job' = [job EXCEPT ![j] = jrow]
      BY <1>10 DEF RequestCancel
    <3> QED BY <3>1, <3>2 DEF TypeOK
  <2>2. take' \in [Jobs -> {"queued", "failed", "cancelled"}]
    BY <1>10, TakeType DEF RequestCancel, TypeOK
  <2> QED
    BY <1>10, <2>1, <2>2 DEF RequestCancel, TypeOK, E!EngineTypeOK, server
<1> QED
  BY <1>1, <1>2, <1>3, <1>4, <1>5, <1>6, <1>7, <1>8, <1>9, <1>10 DEF MainLoop

\* The observer of an attempt keeps the types.
LEMMA ObserverType ==
  ASSUME TypeOK, NEW a \in Attempts, Observer(a)
  PROVE  TypeOK'
<1> USE DEF E!EngineTypeOK
<1>0. a[1] \in Jobs /\ att[a] \in Attempt /\ worker[a] \in Worker
  BY DEF TypeOK, Attempts
<1>1. CASE Spawn(a)
  BY <1>1 DEF Spawn, TypeOK, NoWorker, Worker, durable
<1>2. CASE Retire(a)
  BY <1>2, WorkerType DEF Retire, TypeOK, durable
<1>3. CASE Ask(a)
  <2>1. /\ job[a[1]].cancel \in BOOLEAN
        /\ EngineIdle(EngineOf[a[1]]) \in BOOLEAN
    BY <1>0 DEF TypeOK, Job, EngineIdle, E!Idle
  <2>2. worker' \in [Attempts -> Worker]
    <3> DEFINE next == [worker[a] EXCEPT !.pc = "asked",
                          !.cancelled = job[a[1]].cancel,
                          !.idle = EngineIdle(EngineOf[a[1]])]
    <3>1. next \in Worker
      BY <1>0, <2>1 DEF Worker
    <3>2. worker' = [worker EXCEPT ![a] = next]
      BY <1>3 DEF Ask
    <3> QED BY <3>1, <3>2 DEF TypeOK
  <2> QED BY <1>3, <2>2 DEF Ask, TypeOK, durable
<1>4. CASE Answer(a)
  <2>1. worker' \in [Attempts -> Worker]
    BY <1>4, WorkerType DEF Answer, TypeOK, Worker
  <2>2. job' \in [Jobs -> Job] /\ suspended' \in SUBSET Attempts
    BY <1>4, InterruptedType DEF Answer, TypeOK
  <2> QED BY <1>4, <2>1, <2>2 DEF Answer, TypeOK
<1>5. CASE Suspend(a)
  BY <1>5, WorkerType, InterruptedType DEF Suspend, TypeOK
<1>6. CASE AcceptLost(a)
  <2>1. "retryable" \in Terminal
    BY DEF Terminal, E!Terminal
  <2>2. /\ job' \in [Jobs -> Job]
        /\ att' \in [Attempts -> Attempt]
        /\ take' \in [Jobs -> {"queued", "failed", "cancelled"}]
    BY <1>6, <2>1, AcceptType DEF AcceptLost
  <2> QED BY <1>6, <2>2, WorkerType DEF AcceptLost, TypeOK
<1>7. CASE Repeat(a)
  BY <1>7 DEF Repeat, TypeOK, Worker, durable
<1>8. CASE PrepareResend(a)
  BY <1>8, ZenonT(40) DEF PrepareResend, TypeOK, Worker, durable
<1>9. CASE ResendRefused(a)
  BY <1>9, WorkerType, InterruptedType DEF ResendRefused, TypeOK
<1>10. CASE Resend(a)
  <2>1. worker' \in [Attempts -> Worker]
    BY <1>10, WorkerType DEF Resend
  <2> QED BY <1>10, <2>1 DEF Resend, TypeOK, durable
<1>11. CASE ResendAcknowledged(a)
  <2>1. att' \in [Attempts -> Attempt]
    BY <1>11, AcknowledgedType DEF ResendAcknowledged
  <2> QED BY <1>11, <2>1, WorkerType DEF ResendAcknowledged, TypeOK
<1>12. CASE AcceptProgress(a)
  <2>1. att' \in [Attempts -> Attempt]
    <3> DEFINE row == [att[a] EXCEPT !.seq = @ + 1]
    <3>1. att[a].seq + 1 \in Nat
      BY <1>0 DEF Attempt
    <3>2. row \in Attempt
      BY <1>0, <3>1 DEF Attempt
    <3>3. att' = [att EXCEPT ![a] = row]
      BY <1>12 DEF AcceptProgress
    <3> QED BY <3>2, <3>3 DEF TypeOK
  <2> QED BY <1>12, <2>1 DEF AcceptProgress, TypeOK, server
<1>13. CASE AcceptEnd(a)
  <2>1. remote[a].terminal \in Terminal
    BY <1>13 DEF AcceptEnd, E!HasTerminal, TypeOK, E!Remote, Terminal
  <2>2. /\ job' \in [Jobs -> Job]
        /\ att' \in [Attempts -> Attempt]
        /\ take' \in [Jobs -> {"queued", "failed", "cancelled"}]
    BY <1>13, <2>1, AcceptType DEF AcceptEnd
  <2>3. worker' \in [Attempts -> Worker]
    BY <1>13, WorkerType DEF AcceptEnd
  <2> QED BY <1>13, <2>2, <2>3 DEF AcceptEnd, TypeOK
<1>14. CASE ObserverFails(a)
  <2>1. faults' \in 0..MaxFaults
    BY <1>14, QueueAssumption DEF ObserverFails, Fault, TypeOK
  <2> QED
    BY <1>14, <2>1, WorkerType, InterruptedType DEF ObserverFails, TypeOK
<1>15. CASE StreamEnds(a)
  BY <1>15, WorkerType DEF StreamEnds, TypeOK, durable
<1> QED
  BY <1>1, <1>2, <1>3, <1>4, <1>5, <1>6, <1>7, <1>8, <1>9, <1>10, <1>11,
     <1>12, <1>13, <1>14, <1>15 DEF Observer

-----------------------------------------------------------------------------
(* What a step does to the durable state.                                  *)

\* recovery.startup, as a function of the jobs.
Recovered == [j \in Jobs |-> [job[j] EXCEPT
                !.status = IF @ = "running" THEN "interrupted" ELSE @]]

\* The ways in which a step may change the tables job, job_attempt and take.
DurableStep ==
  \/ UNCHANGED durable
  \/ \E j \in Jobs : \/ Reserve(j) \/ ReserveRetry(j) \/ Capture(j)
                     \/ CloseVram(j) \/ RequestCancel(j)
                     \/ /\ att' = Acknowledged(Current(j))
                        /\ UNCHANGED <<job, take>>
  \/ \E a \in Attempts : \/ job' = Interrupted(a) /\ UNCHANGED <<att, take>>
                         \/ \E t \in Terminal : AcceptTerminal(a, t)
                         \/ AcceptProgress(a)
                         \/ att' = Acknowledged(a) /\ UNCHANGED <<job, take>>
  \/ job' = Recovered /\ UNCHANGED <<att, take>>

\* Every step of the queue is one of them.
LEMMA DurableSteps ==
  ASSUME TypeOK, [Next]_vars
  PROVE  DurableStep
<1>1. CASE UNCHANGED vars
  BY <1>1 DEF vars, durable, DurableStep
<1>2. ASSUME NEW j \in Jobs, MainLoop(j) PROVE DurableStep
  BY <1>2 DEF MainLoop, Screen, Send, Acknowledge, SendStops, durable,
              DurableStep
<1>3. ASSUME NEW j \in Jobs, SendFails(j) \/ RequestCancel(j) PROVE DurableStep
  BY <1>3 DEF SendFails, durable, DurableStep
<1>4. ASSUME NEW a \in Attempts, Observer(a) PROVE DurableStep
  <2>1. CASE Spawn(a) \/ Retire(a) \/ Ask(a) \/ Repeat(a) \/ PrepareResend(a)
             \/ Resend(a) \/ StreamEnds(a)
    BY <2>1 DEF Spawn, Retire, Ask, Repeat, PrepareResend, Resend, StreamEnds,
                durable, DurableStep
  <2>2. CASE Answer(a) \/ Suspend(a) \/ ResendRefused(a) \/ ObserverFails(a)
    BY <2>2 DEF Answer, Suspend, ResendRefused, ObserverFails, durable,
                DurableStep
  <2>3. CASE AcceptLost(a)
    BY <2>3 DEF AcceptLost, DurableStep, Terminal, E!Terminal
  <2>4. CASE AcceptEnd(a)
    <3>1. remote[a].terminal \in Terminal
      BY <2>4 DEF AcceptEnd, E!HasTerminal, TypeOK, E!EngineTypeOK, E!Remote,
                  Terminal
    <3> QED BY <2>4, <3>1 DEF AcceptEnd, DurableStep
  <2>5. CASE ResendAcknowledged(a) \/ AcceptProgress(a)
    BY <2>5 DEF ResendAcknowledged, DurableStep
  <2> QED BY <1>4, <2>1, <2>2, <2>3, <2>4, <2>5 DEF Observer
<1>5. ASSUME NEW a \in Attempts,
             Engine(a) \/ EngineFails(a) \/ Deliver(a) \/ SendCancel(a)
      PROVE  DurableStep
  BY <1>5 DEF Engine, EngineFails, Deliver, SendCancel, durable, DurableStep
<1>6. ASSUME NEW e \in Engines, EngineCrash(e) PROVE DurableStep
  BY <1>6 DEF EngineCrash, durable, DurableStep
<1>7. CASE ServerCrash
  BY <1>7 DEF ServerCrash, Recovered, DurableStep
<1> QED BY <1>1, <1>2, <1>3, <1>4, <1>5, <1>6, <1>7 DEF Next

-----------------------------------------------------------------------------
(* Type correctness, concluded.                                            *)

\* No step makes a job run that has no attempt.
LEMMA NotStartedKept ==
  ASSUME TypeOK, NotStarted, DurableStep
  PROVE  NotStarted'
<1> USE DEF NotStarted
<1>1. CASE UNCHANGED <<job, att>>
  BY <1>1
<1>2. ASSUME NEW j \in Jobs, Reserve(j) \/ ReserveRetry(j) PROVE NotStarted'
  <2>1. CASE Reserve(j)
    BY <2>1 DEF Reserve, TypeOK
  <2>2. CASE ReserveRetry(j)
    <3>1. job[j].attempt \in Ordinals
      BY <2>2, RetryWithinLimit DEF ReserveRetry
    <3>2. job' = [job EXCEPT ![j] =
                    [job[j] EXCEPT !.status = "running",
                                   !.attempt = job[j].attempt + 1]]
      BY <2>2 DEF ReserveRetry
    <3>3. job[j].attempt + 1 # 0
      BY <3>1 DEF Ordinals
    <3> QED BY <3>2, <3>3 DEF TypeOK, Job
  <2> QED BY <1>2, <2>1, <2>2
<1>3. ASSUME NEW j \in Jobs, Capture(j) \/ CloseVram(j) PROVE NotStarted'
  <2>1. CASE Capture(j)
    BY <2>1 DEF Capture
  <2>2. CASE CloseVram(j)
    BY <2>2 DEF CloseVram, TypeOK, Job
  <2> QED BY <1>3, <2>1, <2>2
<1>4. ASSUME NEW j \in Jobs, RequestCancel(j) PROVE NotStarted'
  BY <1>4 DEF RequestCancel, TypeOK, Job
<1>5. ASSUME NEW a \in Attempts, job' = Interrupted(a) PROVE NotStarted'
  BY <1>5, QueueAssumption
     DEF Interrupted, Live, Attempts, Ordinals, TypeOK, Job
<1>6. ASSUME NEW a \in Attempts, NEW t \in Terminal, AcceptTerminal(a, t)
      PROVE  NotStarted'
  BY <1>6, QueueAssumption
     DEF AcceptTerminal, Live, Attempts, Ordinals, TypeOK, Job
<1>7. CASE job' = Recovered
  BY <1>7, SMTT(30) DEF Recovered, TypeOK, Job
<1>8. ASSUME NEW a \in Attempts, AcceptProgress(a) PROVE NotStarted'
  BY <1>8 DEF AcceptProgress
<1> QED
  BY <1>1, <1>2, <1>3, <1>4, <1>5, <1>6, <1>7, <1>8 DEF DurableStep, durable

\* It holds when the server starts for the first time.
LEMMA TypeInit == Init => TypeInv
<1> SUFFICES ASSUME Init PROVE TypeInv
  OBVIOUS
<1>1. NotStarted
  BY DEF Init, NotStarted
<1>2. EngineEnds
  BY DEF Init, EngineEnds, E!EngineInit, E!HasTerminal, E!Unknown
<1>3. job \in [Jobs -> Job]
  BY QueueAssumption DEF Init, Job, JobStatus, Ordinals
<1>4. 0 \in 0..MaxFaults
  BY QueueAssumption
<1> QED
  BY <1>1, <1>2, <1>3, <1>4, Constants
     DEF Init, TypeInv, TypeOK, E!EngineInit, E!EngineTypeOK

\* It is inductive.
LEMMA TypeKept == TypeInv /\ [Next]_vars => TypeInv'
<1> SUFFICES ASSUME TypeInv, [Next]_vars PROVE TypeInv'
  OBVIOUS
<1> USE DEF TypeInv
<1>1. NotStarted'
  BY DurableSteps, NotStartedKept
<1>2. EngineEnds'
  <2>1. CASE UNCHANGED vars
    BY <2>1 DEF vars, EngineEnds, E!Over, E!HasTerminal
  <2>2. ASSUME NEW j \in Jobs, MainLoop(j) \/ SendFails(j) \/ RequestCancel(j)
        PROVE  EngineEnds'
    BY <2>2 DEF MainLoop, Screen, Reserve, ReserveRetry, Capture, Send,
                Acknowledge, SendStops, CloseVram, SendFails, RequestCancel,
                EngineEnds, E!Over, E!HasTerminal
  <2>3. ASSUME NEW a \in Attempts, Observer(a) PROVE EngineEnds'
    BY <2>3 DEF Observer, Spawn, Retire, Ask, Answer, Suspend, AcceptLost,
                Repeat, PrepareResend, ResendRefused, Resend,
                ResendAcknowledged, AcceptProgress, AcceptEnd, StreamEnds,
                ObserverFails, EngineEnds, E!Over, E!HasTerminal
  <2>4. ASSUME NEW a \in Attempts, Engine(a) \/ EngineFails(a) \/ SendCancel(a)
        PROVE  EngineEnds'
    BY <2>4, EngineEndsKept DEF Engine, EngineFails, SendCancel, TypeOK
  <2>5. ASSUME NEW a \in Attempts, Deliver(a) PROVE EngineEnds'
    BY <2>5, EngineEndsKept
       DEF Deliver, TypeOK, EngineEnds, E!Over, E!HasTerminal
  <2>6. ASSUME NEW e \in Engines, EngineCrash(e) PROVE EngineEnds'
    BY <2>6, EngineEndsKept DEF EngineCrash, TypeOK
  <2>7. CASE ServerCrash
    BY <2>7 DEF ServerCrash, EngineEnds, E!Over, E!HasTerminal
  <2> QED BY <2>1, <2>2, <2>3, <2>4, <2>5, <2>6, <2>7 DEF Next
<1>3. TypeOK'
  <2>1. CASE UNCHANGED vars
    BY <2>1 DEF vars, durable, server, TypeOK, E!EngineTypeOK
  <2>2. ASSUME NEW j \in Jobs, MainLoop(j) \/ SendFails(j) \/ RequestCancel(j)
        PROVE  TypeOK'
    BY <2>2, MainLoopType
  <2>3. ASSUME NEW a \in Attempts, Observer(a) PROVE TypeOK'
    BY <2>3, ObserverType
  <2>4. ASSUME NEW a \in Attempts, Engine(a) PROVE TypeOK'
    BY <2>4, EngineType DEF Engine, TypeOK, durable, server
  <2>5. ASSUME NEW a \in Attempts, Deliver(a) PROVE TypeOK'
    <3>1. E!EngineTypeOK'
      BY <2>5, EngineType DEF Deliver, TypeOK, E!EngineTypeOK
    <3> QED BY <2>5, <3>1 DEF Deliver, TypeOK, durable, server
  <2>6. ASSUME NEW a \in Attempts, SendCancel(a) PROVE TypeOK'
    <3>1. E!EngineTypeOK'
      BY <2>6, EngineType DEF SendCancel, TypeOK
    <3> QED BY <2>6, <3>1 DEF SendCancel, TypeOK, durable
  <2>7. ASSUME NEW e \in Engines, EngineCrash(e) PROVE TypeOK'
    <3>1. E!EngineTypeOK'
      BY <2>7, CrashType DEF EngineCrash, TypeOK
    <3>2. faults' \in 0..MaxFaults
      BY <2>7, QueueAssumption DEF EngineCrash, Fault, TypeOK
    <3> QED BY <2>7, <3>1, <3>2 DEF EngineCrash, TypeOK, durable, server
  <2>8. CASE ServerCrash
    <3>1. faults' \in 0..MaxFaults
      BY <2>8, QueueAssumption DEF ServerCrash, Fault, TypeOK
    <3>2. job' \in [Jobs -> Job]
      BY <2>8, SMTT(30) DEF ServerCrash, TypeOK, Job, JobStatus
    <3> QED
      BY <2>8, <3>1, <3>2, Constants DEF ServerCrash, TypeOK, E!EngineTypeOK
  <2>9. ASSUME NEW a \in Attempts, EngineFails(a) PROVE TypeOK'
    <3>1. E!EngineTypeOK'
      BY <2>9, EngineType DEF EngineFails, TypeOK
    <3>2. faults' \in 0..MaxFaults
      BY <2>9, QueueAssumption DEF EngineFails, Fault, TypeOK
    <3> QED BY <2>9, <3>1, <3>2 DEF EngineFails, TypeOK, durable, server
  <2> QED BY <2>1, <2>2, <2>3, <2>4, <2>5, <2>6, <2>7, <2>8, <2>9 DEF Next
<1> QED BY <1>1, <1>2, <1>3

\* Every variable keeps its type, whatever fails and in whatever order: no
\* ordinal passes the limit of the job, no event without an attempt.
THEOREM TypeCorrect == Spec => []TypeOK
<1>1. TypeInv => TypeOK
  BY DEF TypeInv
<1> QED BY <1>1, TypeInit, TypeKept, PTL DEF Spec

-----------------------------------------------------------------------------
(* Cancellation.                                                           *)

\* No step records a success of a cancelled job.
LEMMA CancelWinsKept ==
  ASSUME TypeOK, CancelWins, DurableStep
  PROVE  CancelWins'
<1> USE DEF CancelWins, TypeOK
<1>1. CASE UNCHANGED <<job, att>>
  BY <1>1
<1>2. ASSUME NEW j \in Jobs, Reserve(j) \/ ReserveRetry(j) PROVE CancelWins'
  <2>1. PICK n : job' = [job EXCEPT ![j].status = "running", ![j].attempt = n]
    BY <1>2 DEF Reserve, ReserveRetry
  <2> QED BY <2>1 DEF Job
<1>3. ASSUME NEW j \in Jobs, Capture(j) \/ CloseVram(j) PROVE CancelWins'
  <2>1. CASE Capture(j)
    BY <2>1 DEF Capture
  <2>2. CASE CloseVram(j)
    BY <2>2 DEF CloseVram, Job
  <2> QED BY <1>3, <2>1, <2>2
<1>4. ASSUME NEW j \in Jobs, RequestCancel(j) PROVE CancelWins'
  BY <1>4 DEF RequestCancel, Job, Ended
<1>5. ASSUME NEW a \in Attempts, job' = Interrupted(a) PROVE CancelWins'
  BY <1>5 DEF Interrupted, Job, Attempts
<1>6. ASSUME NEW a \in Attempts, NEW t \in Terminal, AcceptTerminal(a, t)
      PROVE  CancelWins'
  BY <1>6 DEF AcceptTerminal, Job, Attempts
<1>7. CASE job' = Recovered
  BY <1>7 DEF Recovered, Job
<1>8. ASSUME NEW a \in Attempts, AcceptProgress(a) PROVE CancelWins'
  BY <1>8 DEF AcceptProgress
<1> QED
  BY <1>1, <1>2, <1>3, <1>4, <1>5, <1>6, <1>7, <1>8 DEF DurableStep, durable

\* A success that arrives after a committed cancellation is never recorded,
\* from the engine, after a restart or through a retry (EventConsumer.accept).
THEOREM CancellationWins == Spec => []CancelWins
<1> DEFINE Inv == TypeInv /\ CancelWins
<1>1. Init => Inv
  BY TypeInit DEF Init, CancelWins
<1>2. Inv /\ [Next]_vars => Inv'
  BY TypeKept, DurableSteps, CancelWinsKept DEF TypeInv
<1> QED BY <1>1, <1>2, PTL DEF Spec

-----------------------------------------------------------------------------
(* Attempts.                                                               *)

\* The chain survives a step that writes the row of the current attempt of
\* one job only, and adds an attempt only after one that failed retryably.
LEMMA ChainGrows ==
  ASSUME TypeOK, AttemptChain, NEW j \in Jobs,
         \A i \in Jobs \ {j} : job'[i].attempt = job[i].attempt,
         \A b \in Attempts \ {<<j, job'[j].attempt>>} : att'[b] = att[b],
         \/ job'[j].attempt = job[j].attempt
         \/ /\ job'[j].attempt = job[j].attempt + 1
            /\ job[j].attempt \in Ordinals =>
                 /\ att[Current(j)].status = "failed"
                 /\ att[Current(j)].terminal \in {"retryable", "vram"}
  PROVE  AttemptChain'
<1> SUFFICES ASSUME NEW i \in Jobs, NEW k \in Ordinals
             PROVE  /\ k < job'[i].attempt =>
                         /\ att'[<<i, k>>].status = "failed"
                         /\ att'[<<i, k>>].terminal \in {"retryable", "vram"}
                    /\ k > job'[i].attempt => att'[<<i, k>>] = NoAttempt
  BY DEF AttemptChain
<1>1. <<i, k>> \in Attempts /\ job[i].attempt \in Nat /\ k \in Nat
  BY QueueAssumption DEF TypeOK, Job, Attempts, Ordinals
<1>2. k # job'[i].attempt \/ i # j => att'[<<i, k>>] = att[<<i, k>>]
  BY <1>1
<1>3. CASE job'[i].attempt = job[i].attempt
  BY <1>1, <1>2, <1>3 DEF AttemptChain
<1>4. CASE job'[i].attempt # job[i].attempt
  <2>1. i = j /\ job'[i].attempt = job[i].attempt + 1
    BY <1>4
  <2>2. CASE k < job[i].attempt
    BY <1>1, <1>2, <2>1, <2>2 DEF AttemptChain
  <2>3. CASE k = job[i].attempt
    BY <1>1, <1>2, <2>1, <2>3 DEF Current
  <2>4. CASE k > job[i].attempt
    BY <1>1, <1>2, <2>1, <2>4 DEF AttemptChain
  <2> QED BY <1>1, <2>2, <2>3, <2>4
<1> QED BY <1>3, <1>4

\* No step breaks the chain: the only new rows follow a retryable failure.
LEMMA AttemptChainKept ==
  ASSUME TypeOK, AttemptChain, DurableStep
  PROVE  AttemptChain'
<1>1. CASE UNCHANGED <<job, att>>
  BY <1>1 DEF AttemptChain
<1>2. ASSUME NEW j \in Jobs, Reserve(j) PROVE AttemptChain'
  <2>1. /\ job[j].attempt = 0
        /\ job' = [job EXCEPT ![j] = [job[j] EXCEPT !.status = "running",
                                                    !.attempt = 1]]
        /\ \E r : att' = [att EXCEPT ![<<j, 1>>] = r]
    BY <1>2 DEF Reserve, Dispatchable
  <2>2. job'[j].attempt = 1 /\ 0 \notin Ordinals
    BY <2>1 DEF TypeOK, Job, Ordinals
  <2> QED BY <2>1, <2>2, ChainGrows DEF TypeOK
<1>3. ASSUME NEW j \in Jobs, ReserveRetry(j) PROVE AttemptChain'
  <2> DEFINE n == job[j].attempt + 1
  <2>1. /\ job' = [job EXCEPT ![j] = [job[j] EXCEPT !.status = "running",
                                                    !.attempt = n]]
        /\ \E r : att' = [att EXCEPT ![<<j, n>>] = r]
        /\ att[Current(j)].status = "failed"
        /\ att[Current(j)].terminal \in {"retryable", "vram"}
    BY <1>3 DEF ReserveRetry, Retryable, RetryPending, RetryBudget
  <2>2. job'[j].attempt = n
    BY <2>1 DEF TypeOK, Job
  <2> QED BY <2>1, <2>2, ChainGrows DEF TypeOK
<1>4. ASSUME NEW j \in Jobs, Capture(j) PROVE AttemptChain'
  <2>1. job' = job /\ \E r : att' = [att EXCEPT ![Current(j)] = r]
    BY <1>4 DEF Capture
  <2> QED BY <2>1, ChainGrows DEF TypeOK, Current
<1>5. ASSUME NEW j \in Jobs, CloseVram(j) PROVE AttemptChain'
  BY <1>5 DEF CloseVram, AttemptChain, TypeOK, Job
<1>6. ASSUME NEW j \in Jobs, RequestCancel(j) PROVE AttemptChain'
  BY <1>6 DEF RequestCancel, AttemptChain, TypeOK, Job
<1>7. ASSUME NEW a, att' = Acknowledged(a), job' = job PROVE AttemptChain'
  <2>1. CASE att' = att
    BY <1>7, <2>1 DEF AttemptChain
  <2>2. CASE att' # att
    <3>1. /\ job[a[1]].status = "running"
          /\ att[a].status = "prepared"
          /\ \E r : att' = [att EXCEPT ![a] = r]
      BY <1>7, <2>2 DEF Acknowledged
    <3>2. a \in Attempts
      BY <2>2, <3>1 DEF TypeOK
    <3>3. a[1] \in Jobs /\ a[2] \in Ordinals /\ a = <<a[1], a[2]>>
      BY <3>2 DEF Attempts
    <3>4. ~ a[2] < job[a[1]].attempt /\ ~ a[2] > job[a[1]].attempt
      BY <3>1, <3>3 DEF AttemptChain, NoAttempt
    <3>5. a[2] = job[a[1]].attempt
      BY <3>3, <3>4, QueueAssumption DEF TypeOK, Job, Ordinals
    <3> QED BY <1>7, <3>1, <3>3, <3>5, ChainGrows DEF TypeOK
  <2> QED BY <2>1, <2>2
<1>8. ASSUME NEW a \in Attempts, job' = Interrupted(a), att' = att
      PROVE  AttemptChain'
  BY <1>8, ZenonT(40) DEF Interrupted, AttemptChain, TypeOK, Job, Attempts
<1>9. ASSUME NEW a \in Attempts, NEW t \in Terminal, AcceptTerminal(a, t)
      PROVE  AttemptChain'
  <2>1. a[1] \in Jobs /\ a = <<a[1], a[2]>> /\ a[2] = job[a[1]].attempt
    BY <1>9 DEF AcceptTerminal, Live, Attempts
  <2>2. /\ \E s : job' = [job EXCEPT ![a[1]] = [job[a[1]] EXCEPT !.status = s]]
        /\ \E r : att' = [att EXCEPT ![a] = r]
    BY <1>9 DEF AcceptTerminal
  <2>3. \A i \in Jobs : job'[i].attempt = job[i].attempt
    BY <2>1, <2>2 DEF TypeOK, Job
  <2> QED BY <2>1, <2>2, <2>3, ChainGrows DEF TypeOK
<1>10. ASSUME NEW a \in Attempts, AcceptProgress(a) PROVE AttemptChain'
  <2>1. a[1] \in Jobs /\ a = <<a[1], a[2]>> /\ a[2] = job[a[1]].attempt
    BY <1>10 DEF AcceptProgress, Live, Attempts
  <2>2. job' = job /\ \E r : att' = [att EXCEPT ![a] = r]
    BY <1>10 DEF AcceptProgress
  <2> QED BY <2>1, <2>2, ChainGrows DEF TypeOK
<1>11. CASE job' = Recovered /\ att' = att
  BY <1>11 DEF Recovered, AttemptChain, TypeOK, Job
<1> QED
  BY <1>1, <1>2, <1>3, <1>4, <1>5, <1>6, <1>7, <1>8, <1>9, <1>10, <1>11
     DEF DurableStep, durable

\* Every attempt but the current one ended in a retryable error, and no
\* attempt exists beyond it: a retry is the only way to a new attempt.
THEOREM AttemptsAreAChain == Spec => []AttemptChain
<1> DEFINE Inv == TypeInv /\ AttemptChain
<1>1. Init => Inv
  BY TypeInit DEF Init, AttemptChain, Attempts, Ordinals
<1>2. Inv /\ [Next]_vars => Inv'
  BY TypeKept, DurableSteps, AttemptChainKept DEF TypeInv
<1> QED BY <1>1, <1>2, PTL DEF Spec

-----------------------------------------------------------------------------
(* Jobs and attempts.                                                      *)

\* What JobFollowsAttempt says of a job row and the end of its attempt.
Agree(jrow, t) ==
  /\ jrow.status \in {"running", "interrupted"} <=> t = "none"
  /\ t # "none" => jrow.status = IF jrow.cancel THEN "cancelled"
                                 ELSE EndStatus(t)

\* JobFollowsAttempt, said with Agree.
LEMMA AgreeEverywhere ==
  JobFollowsAttempt <=>
    \A j \in Jobs :
      job[j].attempt > 0 => Agree(job[j], att[Current(j)].terminal)
BY DEF JobFollowsAttempt, Agree, Reserved

\* It is enough to look at the job a step is about.
LEMMA AgreeLocally ==
  ASSUME TypeOK, JobFollowsAttempt, NEW j \in Jobs,
         \A i \in Jobs \ {j} : job'[i] = job[i],
         \A b \in Attempts : b[1] # j => att'[b] = att[b],
         job'[j].attempt > 0 =>
           Agree(job'[j], att'[<<j, job'[j].attempt>>].terminal)
  PROVE  JobFollowsAttempt'
<1> SUFFICES ASSUME NEW i \in Jobs, job'[i].attempt > 0
             PROVE  Agree(job'[i], att'[<<i, job'[i].attempt>>].terminal)
  BY DEF JobFollowsAttempt, Agree, Reserved, Current
<1>1. CASE i = j
  BY <1>1
<1>2. CASE i # j
  <2>1. job'[i] = job[i] /\ job[i].attempt \in Ordinals
    BY <1>2 DEF TypeOK, Job, Ordinals
  <2>2. <<i, job[i].attempt>> \in Attempts
    BY <2>1 DEF Attempts
  <2>3. att'[<<i, job'[i].attempt>>] = att[<<i, job[i].attempt>>]
    BY <1>2, <2>1, <2>2
  <2> QED BY <2>1, <2>3, AgreeEverywhere DEF Current
<1> QED BY <1>1, <1>2

\* Every step that settles one of the two settles the other.
LEMMA FollowsKept ==
  ASSUME TypeOK, NotStarted, JobFollowsAttempt, DurableStep
  PROVE  JobFollowsAttempt'
<1> USE DEF Agree
<1>1. CASE UNCHANGED <<job, att>>
  BY <1>1 DEF JobFollowsAttempt, Reserved, Current
<1>2. ASSUME NEW j \in Jobs, Reserve(j) \/ ReserveRetry(j)
      PROVE  JobFollowsAttempt'
  <2>1. PICK n, r :
          /\ n \in Ordinals
          /\ r.terminal = "none"
          /\ job' = [job EXCEPT ![j] = [job[j] EXCEPT !.status = "running",
                                                      !.attempt = n]]
          /\ att' = [att EXCEPT ![<<j, n>>] = r]
    <3>1. CASE Reserve(j)
      <4>1. 1 \in Ordinals
        BY QueueAssumption DEF Ordinals
      <4>2. [NoAttempt EXCEPT !.status = "prepared"].terminal = "none"
        BY DEF NoAttempt
      <4>3. /\ job' = [job EXCEPT ![j] = [job[j] EXCEPT !.status = "running",
                                                       !.attempt = 1]]
            /\ att' = [att EXCEPT ![<<j, 1>>] =
                         [NoAttempt EXCEPT !.status = "prepared"]]
        BY <3>1 DEF Reserve
      <4> QED BY <4>1, <4>2, <4>3
    <3>2. CASE ReserveRetry(j)
      <4> DEFINE row == [NoAttempt EXCEPT !.status = "prepared",
                                          !.mode = RetryMode(att[Current(j)])]
      <4>1. job[j].attempt + 1 \in Ordinals
        BY <3>2, RetryWithinLimit DEF ReserveRetry
      <4>2. row.terminal = "none"
        BY DEF NoAttempt
      <4>3. /\ job' = [job EXCEPT ![j] =
                         [job[j] EXCEPT !.status = "running",
                                        !.attempt = job[j].attempt + 1]]
            /\ att' = [att EXCEPT ![<<j, job[j].attempt + 1>>] = row]
        BY <3>2 DEF ReserveRetry
      <4> QED BY <4>1, <4>2, <4>3
    <3> QED BY <1>2, <3>1, <3>2
  <2>2. job'[j].attempt = n /\ job'[j].status = "running"
    BY <2>1 DEF TypeOK, Job
  <2>3. att'[<<j, n>>].terminal = "none"
    BY <2>1 DEF TypeOK, Attempts
  <2>4. Agree(job'[j], att'[<<j, job'[j].attempt>>].terminal)
    BY <2>2, <2>3
  <2>5. /\ \A i \in Jobs \ {j} : job'[i] = job[i]
        /\ \A b \in Attempts : b[1] # j => att'[b] = att[b]
    BY <2>1 DEF TypeOK
  <2> HIDE DEF Agree
  <2> QED BY <2>4, <2>5, AgreeLocally
<1>3. ASSUME NEW j \in Jobs, Capture(j) PROVE JobFollowsAttempt'
  <2>1. /\ job' = job
        /\ att' = [att EXCEPT ![Current(j)] =
                     [att[Current(j)] EXCEPT !.prov = j \in Musical]]
    BY <1>3 DEF Capture
  <2>2. job[j].attempt > 0 => Current(j) \in Attempts
    BY DEF TypeOK, Job, Ordinals, Current, Attempts
  <2>3. job[j].attempt > 0 =>
          att'[Current(j)].terminal = att[Current(j)].terminal
    BY <2>1, <2>2 DEF TypeOK, Attempt
  <2> QED
    BY <2>1, <2>2, <2>3, AgreeLocally, AgreeEverywhere DEF TypeOK, Current
<1>4. ASSUME NEW j \in Jobs, CloseVram(j) PROVE JobFollowsAttempt'
  <2>1. /\ job' = [job EXCEPT ![j] = [job[j] EXCEPT !.max = job[j].attempt]]
        /\ att' = att
    BY <1>4 DEF CloseVram
  <2>2. /\ job'[j].attempt = job[j].attempt /\ job'[j].status = job[j].status
        /\ job'[j].cancel = job[j].cancel
    BY <2>1 DEF TypeOK, Job
  <2> QED BY <2>1, <2>2, AgreeLocally, AgreeEverywhere, ZenonT(40)
     DEF TypeOK, Current
<1>5. ASSUME NEW j \in Jobs, RequestCancel(j) PROVE JobFollowsAttempt'
  <2>1. /\ att' = att
        /\ \A i \in Jobs \ {j} : job'[i] = job[i]
        /\ job'[j].attempt = job[j].attempt
        /\ job[j].attempt > 0 => job'[j].status = job[j].status
        /\ job[j].status \notin Ended
    BY <1>5 DEF RequestCancel, TypeOK, Job
  <2>2. \A t : EndStatus(t) \in Ended
    BY DEF EndStatus, Ended
  <2>3. job[j].attempt > 0 => att[Current(j)].terminal = "none"
    BY <2>1, <2>2, AgreeEverywhere DEF Ended
  <2> QED
    BY <2>1, <2>3, AgreeLocally, AgreeEverywhere DEF Current
<1>6. ASSUME NEW a, att' = Acknowledged(a), job' = job
      PROVE  JobFollowsAttempt'
  <2>1. \A b \in Attempts : att'[b].terminal = att[b].terminal
    BY <1>6 DEF Acknowledged, TypeOK, Attempt
  <2> SUFFICES ASSUME NEW i \in Jobs, job[i].attempt > 0
               PROVE  Agree(job[i], att'[<<i, job[i].attempt>>].terminal)
    BY <1>6 DEF JobFollowsAttempt, Reserved, Current
  <2>2. Current(i) \in Attempts
    BY DEF TypeOK, Job, Ordinals, Current, Attempts
  <2> QED BY <2>1, <2>2, AgreeEverywhere DEF Current
<1>7. ASSUME NEW a \in Attempts, job' = Interrupted(a), att' = att
      PROVE  JobFollowsAttempt'
  <2>1. CASE job' = job
    BY <1>7, <2>1 DEF JobFollowsAttempt, Reserved, Current
  <2>2. CASE job' # job
    <3>1. /\ Live(a) /\ a[1] \in Jobs
          /\ job' = [job EXCEPT ![a[1]] =
                       [job[a[1]] EXCEPT !.status = "interrupted"]]
      BY <1>7, <2>2 DEF Interrupted, Attempts
    <3>2. job'[a[1]].attempt = a[2] /\ a = <<a[1], a[2]>>
      BY <3>1 DEF Live, TypeOK, Job, Attempts
    <3>3. job'[a[1]].status = "interrupted" /\ att[a].terminal = "none"
      BY <3>1 DEF Live, TypeOK, Job
    <3> QED BY <1>7, <3>1, <3>2, <3>3, AgreeLocally DEF TypeOK
  <2> QED BY <2>1, <2>2
<1>8. ASSUME NEW a \in Attempts, NEW t \in Terminal, AcceptTerminal(a, t)
      PROVE  JobFollowsAttempt'
  <2> DEFINE jrow == [job[a[1]] EXCEPT
                        !.status = IF job[a[1]].cancel THEN "cancelled"
                                   ELSE EndStatus(t)]
             row == [att[a] EXCEPT !.status = EndStatus(t), !.terminal = t,
                                   !.seq = @ + 1]
  <2>1. /\ job' = [job EXCEPT ![a[1]] = jrow]
        /\ att' = [att EXCEPT ![a] = row]
        /\ job[a[1]].attempt = a[2]
    BY <1>8 DEF AcceptTerminal, Live
  <2>2. a[1] \in Jobs /\ a = <<a[1], a[2]>>
    BY DEF Attempts
  <2>3. jrow.attempt = a[2] /\ jrow.cancel = job[a[1]].cancel
        /\ jrow.status = IF job[a[1]].cancel THEN "cancelled" ELSE EndStatus(t)
    BY <2>1, <2>2 DEF TypeOK, Job
  <2>4. row.terminal = t
    BY DEF TypeOK, Attempt
  <2>5. t # "none" /\ EndStatus(t) \notin {"running", "interrupted"}
    BY DEF Terminal, E!Terminal, EndStatus
  <2>6. Agree(jrow, t)
    BY <2>3, <2>5
  <2>7. job'[a[1]] = jrow /\ att'[<<a[1], a[2]>>] = row
    BY <2>1, <2>2 DEF TypeOK
  <2>8. /\ \A i \in Jobs \ {a[1]} : job'[i] = job[i]
        /\ \A b \in Attempts : b[1] # a[1] => att'[b] = att[b]
    BY <2>1 DEF TypeOK
  <2> HIDE DEF jrow, row, Agree
  <2> QED BY <2>2, <2>3, <2>4, <2>6, <2>7, <2>8, AgreeLocally
<1>9. ASSUME NEW a \in Attempts, AcceptProgress(a) PROVE JobFollowsAttempt'
  <2>1. job' = job /\ att' = [att EXCEPT ![a] = [att[a] EXCEPT !.seq = @ + 1]]
    BY <1>9 DEF AcceptProgress
  <2>2. \A b \in Attempts : att'[b].terminal = att[b].terminal
    BY <2>1 DEF TypeOK, Attempt
  <2> SUFFICES ASSUME NEW i \in Jobs, job[i].attempt > 0
               PROVE  Agree(job[i], att'[<<i, job[i].attempt>>].terminal)
    BY <2>1 DEF JobFollowsAttempt, Reserved, Current
  <2>3. Current(i) \in Attempts
    BY DEF TypeOK, Job, Ordinals, Current, Attempts
  <2> QED BY <2>2, <2>3, AgreeEverywhere DEF Current
<1>10. CASE job' = Recovered /\ att' = att
  BY <1>10, SMTT(30)
     DEF Recovered, JobFollowsAttempt, Reserved, Current, TypeOK, Job
<1> QED
  BY <1>1, <1>2, <1>3, <1>4, <1>5, <1>6, <1>7, <1>8, <1>9, <1>10
     DEF DurableStep, durable

\* Through crashes, lost attempts and cancellations a job is settled exactly
\* when its current attempt is, and says the same, cancellation first.
THEOREM JobsFollowAttempts == Spec => []JobFollowsAttempt
<1> DEFINE Inv == TypeInv /\ JobFollowsAttempt
<1>1. Init => Inv
  BY TypeInit DEF Init, JobFollowsAttempt
<1>2. Inv /\ [Next]_vars => Inv'
  BY TypeKept, DurableSteps, FollowsKept DEF TypeInv
<1> QED BY <1>1, <1>2, PTL DEF Spec

\* A job that ended goes on only by an automatic retry with budget left, and
\* no attempt is added once a cancellation is recorded.
THEOREM EndsAreFinal == Spec => EndIsFinal
<1> DEFINE Final == \A j \in Jobs :
       /\ job[j].status \in Ended /\ job'[j].status # job[j].status
            => RetryPending(job[j], att[Current(j)])
       /\ job[j].cancel => job'[j].attempt = job[j].attempt
<1>1. ASSUME TypeInv, [Next]_vars PROVE Final
  <2> USE <1>1 DEF TypeInv, TypeOK
  <2>1. CASE UNCHANGED <<job, att>>
    BY <2>1
  <2>2. ASSUME NEW j \in Jobs, Reserve(j) PROVE Final
    BY <2>2 DEF Reserve, Dispatchable, Ended, Job
  <2>3. ASSUME NEW j \in Jobs, ReserveRetry(j) PROVE Final
    <3>1. RetryPending(job[j], att[Current(j)]) /\ ~job[j].cancel
      BY <2>3 DEF ReserveRetry, Retryable, RetryPending, RetryBudget
    <3>2. \A i \in Jobs \ {j} : job'[i] = job[i]
      BY <2>3 DEF ReserveRetry
    <3> QED BY <3>1, <3>2
  <2>4. ASSUME NEW j \in Jobs, Capture(j) PROVE Final
    BY <2>4 DEF Capture
  <2>5. ASSUME NEW j \in Jobs, CloseVram(j) PROVE Final
    BY <2>5 DEF CloseVram, Job
  <2>6. ASSUME NEW j \in Jobs, RequestCancel(j) PROVE Final
    BY <2>6 DEF RequestCancel, Job
  <2>7. ASSUME NEW a \in Attempts, job' = Interrupted(a) PROVE Final
    BY <2>7 DEF Interrupted, Live, Reserved, Ended, Job, Attempts
  <2>8. ASSUME NEW a \in Attempts, NEW t \in Terminal, AcceptTerminal(a, t)
        PROVE  Final
    BY <2>8 DEF AcceptTerminal, Live, Reserved, Ended, Job, Attempts
  <2>9. ASSUME NEW a \in Attempts, AcceptProgress(a) PROVE Final
    BY <2>9 DEF AcceptProgress
  <2>10. CASE job' = Recovered
    BY <2>10 DEF Recovered, Ended, Job
  <2> QED
    BY <2>1, <2>2, <2>3, <2>4, <2>5, <2>6, <2>7, <2>8, <2>9, <2>10,
       DurableSteps DEF DurableStep, durable
<1> QED BY <1>1, TypeInit, TypeKept, PTL DEF Spec, EndIsFinal

-----------------------------------------------------------------------------
(* Lanes.                                                                  *)

\* A job takes no slot when it was not made to run and its current attempt
\* was not opened.
LEMMA KeepsSlot ==
  ASSUME NEW i \in Jobs,
         job'[i].attempt = job[i].attempt,
         job'[i].status \in {"running", "interrupted"} => Reserved(i),
         job'[i].status = "running" => job[i].status = "running",
         \A k \in Ordinals :
           /\ att'[<<i, k>>].terminal = "none" =>
                att[<<i, k>>].terminal = "none"
           /\ att'[<<i, k>>].status # "none" => att[<<i, k>>].status # "none"
  PROVE  Occupied(i)' => Occupied(i)
BY DEF Occupied, Reserved, ActiveAttempt

\* Only a reservation makes a job take a slot of its lane: not recovery, and
\* not the observer, which interrupts jobs that still hold one.
LEMMA SlotsTaken ==
  ASSUME TypeOK, DurableStep
  PROVE  \/ \A i \in Jobs : Occupied(i)' => Occupied(i)
         \/ \E j \in Jobs :
              /\ LaneFree(j)
              /\ \A i \in Jobs \ {j} : Occupied(i)' => Occupied(i)
<1> DEFINE Kept == \A i \in Jobs : Occupied(i)' => Occupied(i)
<1>1. CASE UNCHANGED <<job, att>>
  BY <1>1 DEF Occupied, Reserved, ActiveAttempt
<1>2. ASSUME NEW j \in Jobs, Reserve(j) \/ ReserveRetry(j)
      PROVE  /\ LaneFree(j)
             /\ \A i \in Jobs \ {j} : Occupied(i)' => Occupied(i)
  <2>1. LaneFree(j)
    BY <1>2 DEF Reserve, ReserveRetry, MayReserve
  <2>2. /\ \A i \in Jobs \ {j} : job'[i] = job[i]
        /\ \A b \in Attempts : b[1] # j => att'[b] = att[b]
    BY <1>2 DEF Reserve, ReserveRetry, TypeOK
  <2>3. ASSUME NEW i \in Jobs \ {j} PROVE Occupied(i)' => Occupied(i)
    <3>1. \A k \in Ordinals : att'[<<i, k>>] = att[<<i, k>>]
      BY <2>2 DEF Attempts
    <3>2. job'[i] = job[i]
      BY <2>2
    <3> QED BY <3>1, <3>2 DEF Occupied, Reserved, ActiveAttempt
  <2> QED BY <2>1, <2>3
<1>3. ASSUME \A i \in Jobs :
               /\ job'[i].attempt = job[i].attempt
               /\ job'[i].status \in {"running", "interrupted"} => Reserved(i)
               /\ job'[i].status = "running" => job[i].status = "running",
             \A b \in Attempts :
               /\ att'[b].terminal = "none" => att[b].terminal = "none"
               /\ att'[b].status # "none" => att[b].status # "none"
      PROVE  Kept
  BY <1>3, KeepsSlot DEF Attempts
<1>4. ASSUME NEW a, NEW r, att' = [att EXCEPT ![a] = r], a \in Attempts =>
             /\ r.terminal = "none" => att[a].terminal = "none"
             /\ r.status # "none" => att[a].status # "none"
      PROVE  \A b \in Attempts :
               /\ att'[b].terminal = "none" => att[b].terminal = "none"
               /\ att'[b].status # "none" => att[b].status # "none"
  BY <1>4 DEF TypeOK
<1>5. ASSUME NEW j \in Jobs, Capture(j) PROVE Kept
  <2> DEFINE r == [att[Current(j)] EXCEPT !.prov = j \in Musical]
  <2>1. job' = job /\ att' = [att EXCEPT ![Current(j)] = r]
    BY <1>5 DEF Capture
  <2>2. Current(j) \in Attempts => /\ r.terminal = att[Current(j)].terminal
                                   /\ r.status = att[Current(j)].status
    BY DEF TypeOK, Attempt
  <2> HIDE DEF r
  <2> QED BY <2>1, <2>2, <1>3, <1>4 DEF Reserved
<1>6. ASSUME NEW j \in Jobs, CloseVram(j) PROVE Kept
  BY <1>6, <1>3 DEF CloseVram, Reserved, TypeOK, Job
<1>7. ASSUME NEW j \in Jobs, RequestCancel(j) PROVE Kept
  BY <1>7, <1>3 DEF RequestCancel, Reserved, TypeOK, Job
<1>8. ASSUME NEW a, att' = Acknowledged(a), job' = job PROVE Kept
  BY <1>8, <1>3 DEF Acknowledged, Reserved, TypeOK, Attempt
<1>9. ASSUME NEW a \in Attempts, job' = Interrupted(a), att' = att PROVE Kept
  BY <1>9, <1>3 DEF Interrupted, Live, Reserved, TypeOK, Job, Attempts
<1>10. ASSUME NEW a \in Attempts, NEW t \in Terminal, AcceptTerminal(a, t)
       PROVE  Kept
  <2>1. PICK r, x :
          /\ att' = [att EXCEPT ![a] = r]
          /\ job' = [job EXCEPT ![a[1]] = [job[a[1]] EXCEPT !.status = x]]
          /\ x \in {"cancelled", EndStatus(t)}
    BY <1>10 DEF AcceptTerminal
  <2>2. ~Reserved(a[1])'
    BY <2>1 DEF Reserved, EndStatus, TypeOK, Job, Attempts
  <2>3. ASSUME NEW i \in Jobs \ {a[1]} PROVE Occupied(i)' => Occupied(i)
    <3>1. job'[i] = job[i]
      BY <2>1 DEF TypeOK
    <3>2. \A k \in Ordinals : att'[<<i, k>>] = att[<<i, k>>]
      BY <2>1 DEF TypeOK, Attempts
    <3> QED BY <3>1, <3>2 DEF Occupied, Reserved, ActiveAttempt
  <2> QED BY <2>2, <2>3 DEF Occupied
<1>11. ASSUME NEW a \in Attempts, AcceptProgress(a) PROVE Kept
  BY <1>11, <1>3 DEF AcceptProgress, Reserved, TypeOK, Attempt
<1>12. CASE job' = Recovered /\ att' = att
  BY <1>12, <1>3 DEF Recovered, Reserved, TypeOK, Job
<1> QED
  BY <1>1, <1>2, <1>5, <1>6, <1>7, <1>8, <1>9, <1>10, <1>11, <1>12
     DEF DurableStep, durable

\* A reservation finds a free slot and takes one; nothing else takes any.
LEMMA LaneLimitsKept ==
  ASSUME TypeOK, LaneLimits, DurableStep
  PROVE  LaneLimits'
<1> DEFINE Cpu == Occupants("cpu")
           Gpu == Occupants("gpu")
<1>1. /\ IsFiniteSet(Cpu) /\ Cardinality(Cpu) \in Nat
      /\ IsFiniteSet(Gpu) /\ Cardinality(Gpu) \in Nat
  <2>1. Cpu \subseteq Jobs /\ Gpu \subseteq Jobs
    BY DEF Occupants
  <2> QED BY <2>1, QueueAssumption, FS_Subset, FS_CardinalityType
<1>2. CASE \A i \in Jobs : Occupied(i)' => Occupied(i)
  <2>1. Cpu' \subseteq Cpu
    BY <1>2 DEF Occupants
  <2>2. Cardinality(Cpu') <= Cardinality(Cpu) /\ Cardinality(Cpu') \in Nat
    BY <1>1, <2>1, FS_Subset, FS_CardinalityType
  <2>3. Cardinality(Cpu') <= 2
    BY <1>1, <2>2 DEF LaneLimits
  <2> QED BY <1>2, <2>3 DEF LaneLimits
<1>3. ASSUME NEW j \in Jobs, LaneFree(j),
             \A i \in Jobs \ {j} : Occupied(i)' => Occupied(i)
      PROVE  LaneLimits'
  <2>1. CASE Lane[j] = "gpu"
    <3>1. Cardinality(Gpu) < 1
      BY <1>3, <2>1 DEF LaneFree, LaneLimit
    <3>2. Gpu = {}
      BY <1>1, <3>1, FS_EmptySet
    <3>3. \A i \in Jobs : Lane[i] = "gpu" /\ Occupied(i)' => i = j
      BY <1>3, <3>2 DEF Occupants
    <3>4. Cpu' \subseteq Cpu
      BY <1>3, <2>1 DEF Occupants
    <3>5. Cardinality(Cpu') <= Cardinality(Cpu) /\ Cardinality(Cpu') \in Nat
      BY <1>1, <3>4, FS_Subset, FS_CardinalityType
    <3>6. Cardinality(Cpu') <= 2
      BY <1>1, <3>5 DEF LaneLimits
    <3> QED BY <3>3, <3>6 DEF LaneLimits
  <2>2. CASE Lane[j] = "cpu"
    <3>1. Cardinality(Cpu) < 2
      BY <1>3, <2>2 DEF LaneFree, LaneLimit
    <3>2. /\ IsFiniteSet(Cpu \cup {j})
          /\ Cardinality(Cpu \cup {j}) <= Cardinality(Cpu) + 1
          /\ Cardinality(Cpu \cup {j}) \in Nat
      <4>1. /\ IsFiniteSet(Cpu \cup {j})
            /\ \/ Cardinality(Cpu \cup {j}) = Cardinality(Cpu)
               \/ Cardinality(Cpu \cup {j}) = Cardinality(Cpu) + 1
        BY <1>1, FS_AddElement
      <4> QED BY <1>1, <4>1
    <3>3. Cpu' \subseteq Cpu \cup {j}
      BY <1>3 DEF Occupants
    <3>4. /\ Cardinality(Cpu') <= Cardinality(Cpu \cup {j})
          /\ Cardinality(Cpu') \in Nat
      BY <3>2, <3>3, FS_Subset, FS_CardinalityType
    <3>5. Cardinality(Cpu') <= 2
      BY <1>1, <3>1, <3>2, <3>4
    <3>6. \A i \in Jobs : Lane[i] = "gpu" /\ Occupied(i)' => Occupied(i)
      BY <1>3, <2>2
    <3> QED BY <3>5, <3>6 DEF LaneLimits
  <2> QED BY <2>1, <2>2, QueueAssumption
<1> QED BY <1>2, <1>3, SlotsTaken

\* One gpu reservation and two cpu reservations at most, however reservation,
\* retry, crash and recovery interleave (occupancy_filters, ADR-0018).
THEOREM LanesAreLimited == Spec => []LaneLimits
<1> DEFINE Inv == TypeInv /\ LaneLimits
<1>1. Init => Inv
  <2> SUFFICES ASSUME Init PROVE LaneLimits
    BY TypeInit
  <2>1. \A i \in Jobs : ~Occupied(i)
    BY DEF Init, Occupied, Reserved
  <2>2. Occupants("cpu") = {}
    BY <2>1 DEF Occupants
  <2>3. Cardinality(Occupants("cpu")) <= 2
    BY <2>2, FS_EmptySet
  <2> QED BY <2>1, <2>3 DEF LaneLimits
<1>2. Inv /\ [Next]_vars => Inv'
  BY TypeKept, DurableSteps, LaneLimitsKept DEF TypeInv
<1> QED BY <1>1, <1>2, PTL DEF Spec

-----------------------------------------------------------------------------
(* The history of an attempt.                                              *)

\* A settled row says how it ended, and only generations have provenance.
RowShape ==
  \A a \in Attempts : /\ att[a].terminal # "none" => att[a].status \in Ended
                      /\ att[a].prov => a[1] \in Musical

\* What a step may do to the row r of an attempt.
RowStep(r, s) == /\ r.terminal # "none" => s = r
                 /\ s.seq >= r.seq
                 /\ r.prov => s.prov

\* Every step keeps the shape of the rows and what they already record.
LEMMA RowSteps ==
  ASSUME TypeOK, AttemptChain, RowShape, DurableStep
  PROVE  /\ RowShape'
         /\ \A a \in Attempts : RowStep(att[a], att'[a])
<1> DEFINE Good == RowShape' /\ \A a \in Attempts : RowStep(att[a], att'[a])
<1>0. \A a \in Attempts : RowStep(att[a], att[a])
  BY DEF RowStep, TypeOK, Attempt
<1>1. CASE att' = att
  BY <1>0, <1>1 DEF RowShape
\* It is enough to look at the row that is written.
<1>2. ASSUME NEW a, NEW r, att' = [att EXCEPT ![a] = r],
             a \in Attempts =>
               /\ RowStep(att[a], r)
               /\ r.terminal # "none" => r.status \in Ended
               /\ r.prov => a[1] \in Musical
      PROVE  Good
  BY <1>0, <1>2 DEF RowShape, TypeOK
<1>3. ASSUME NEW j \in Jobs, NEW n, NEW r, n > job[j].attempt,
             att' = [att EXCEPT ![<<j, n>>] = r],
             r.terminal = "none", r.seq = 0, ~r.prov
      PROVE  Good
  <2>1. <<j, n>> \in Attempts => att[<<j, n>>] = NoAttempt
    BY <1>3 DEF AttemptChain, Attempts
  <2>2. <<j, n>> \in Attempts => RowStep(att[<<j, n>>], r)
    BY <1>3, <2>1 DEF RowStep, NoAttempt
  <2> QED BY <1>2, <1>3, <2>2
<1>4. ASSUME NEW j \in Jobs, Reserve(j) PROVE Good
  <2> DEFINE r == [NoAttempt EXCEPT !.status = "prepared"]
  <2>1. att' = [att EXCEPT ![<<j, 1>>] = r] /\ job[j].attempt = 0
    BY <1>4 DEF Reserve, Dispatchable
  <2>2. r.terminal = "none" /\ r.seq = 0 /\ ~r.prov
    BY DEF NoAttempt
  <2>3. 1 > job[j].attempt
    BY <2>1
  <2> HIDE DEF r, Good
  <2> QED BY <1>3, <2>1, <2>2, <2>3
<1>5. ASSUME NEW j \in Jobs, ReserveRetry(j) PROVE Good
  <2> DEFINE r == [NoAttempt EXCEPT !.status = "prepared",
                                    !.mode = RetryMode(att[Current(j)])]
             n == job[j].attempt + 1
  <2>1. att' = [att EXCEPT ![<<j, n>>] = r]
    BY <1>5 DEF ReserveRetry
  <2>2. r.terminal = "none" /\ r.seq = 0 /\ ~r.prov
    BY DEF NoAttempt
  <2>3. n > job[j].attempt
    BY QueueAssumption DEF TypeOK, Job
  <2> HIDE DEF r, n, Good
  <2> QED BY <1>3, <2>1, <2>2, <2>3
<1>6. ASSUME NEW j \in Jobs, Capture(j) PROVE Good
  <2> DEFINE c == Current(j)
             r == [att[c] EXCEPT !.prov = j \in Musical]
  <2>1. att' = [att EXCEPT ![c] = r] /\ att[c].terminal = "none"
    BY <1>6 DEF Capture, SendAuthority
  <2>2. c \in Attempts => /\ r.terminal = att[c].terminal /\ r.seq = att[c].seq
                          /\ r.prov <=> j \in Musical
                          /\ att[c].seq \in Nat
    BY ZenonT(40) DEF TypeOK, Attempt
  <2>3. c[1] = j
    BY DEF Current
  <2>4. c \in Attempts /\ att[c].prov => j \in Musical
    BY <2>3 DEF RowShape
  <2> HIDE DEF c, r, Good
  <2>5. c \in Attempts => RowStep(att[c], r)
    BY <2>1, <2>2, <2>4 DEF RowStep
  <2> QED BY <1>2, <2>1, <2>2, <2>3, <2>5
<1>7. ASSUME NEW a, att' = Acknowledged(a) PROVE Good
  <2> DEFINE r == [att[a] EXCEPT !.status = "submitted"]
  <2>1. CASE att' = att
    BY <1>1, <2>1
  <2>2. CASE att' # att
    <3>1. att' = [att EXCEPT ![a] = r] /\ att[a].status = "prepared"
      BY <1>7, <2>2 DEF Acknowledged
    <3>2. a \in Attempts => /\ r.terminal = att[a].terminal
                            /\ r.seq = att[a].seq /\ att[a].seq \in Nat
                            /\ r.prov = att[a].prov
      BY DEF TypeOK, Attempt
    <3>3. a \in Attempts => att[a].terminal = "none"
      BY <3>1 DEF RowShape, Ended
    <3>4. a \in Attempts => RowStep(att[a], r)
      BY <3>2, <3>3 DEF RowStep
    <3>5. a \in Attempts => (r.prov => a[1] \in Musical)
      BY <3>2 DEF RowShape
    <3> HIDE DEF r, Good
    <3> QED BY <1>2, <3>1, <3>2, <3>3, <3>4, <3>5
  <2> QED BY <2>1, <2>2
<1>8. ASSUME NEW a \in Attempts, NEW t \in Terminal, AcceptTerminal(a, t)
      PROVE  Good
  <2> DEFINE r == [att[a] EXCEPT !.status = EndStatus(t), !.terminal = t,
                                 !.seq = @ + 1]
  <2>1. att' = [att EXCEPT ![a] = r] /\ att[a].terminal = "none"
    BY <1>8 DEF AcceptTerminal, Live
  <2>2. /\ r.status = EndStatus(t) /\ r.seq = att[a].seq + 1
        /\ att[a].seq \in Nat /\ r.prov = att[a].prov
    BY DEF TypeOK, Attempt
  <2>3. EndStatus(t) \in Ended
    BY DEF EndStatus, Ended
  <2>4. RowStep(att[a], r)
    BY <2>1, <2>2 DEF RowStep
  <2>5. r.prov => a[1] \in Musical
    BY <2>2 DEF RowShape
  <2> HIDE DEF r, Good
  <2> QED BY <1>2, <2>1, <2>2, <2>3, <2>4, <2>5
<1>9. ASSUME NEW a \in Attempts, AcceptProgress(a) PROVE Good
  <2> DEFINE r == [att[a] EXCEPT !.seq = @ + 1]
  <2>1. att' = [att EXCEPT ![a] = r] /\ att[a].terminal = "none"
    BY <1>9 DEF AcceptProgress, Live
  <2>2. /\ r.terminal = att[a].terminal /\ r.seq = att[a].seq + 1
        /\ att[a].seq \in Nat /\ r.prov = att[a].prov
    BY DEF TypeOK, Attempt
  <2>3. RowStep(att[a], r)
    BY <2>1, <2>2 DEF RowStep
  <2>4. r.prov => a[1] \in Musical
    BY <2>2 DEF RowShape
  <2> HIDE DEF r, Good
  <2> QED BY <1>2, <2>1, <2>2, <2>3, <2>4
<1>10. ASSUME NEW j \in Jobs, CloseVram(j) \/ RequestCancel(j) PROVE Good
  BY <1>1, <1>10 DEF CloseVram, RequestCancel
<1> QED
  BY <1>1, <1>4, <1>5, <1>6, <1>7, <1>8, <1>9, <1>10 DEF DurableStep, durable

\* The row of an attempt is history once it is settled; until then its cursor
\* only advances and its provenance stays, whoever writes it.
THEOREM HistoryIsKept == Spec => AttemptHistory
<1> DEFINE Inv == TypeInv /\ AttemptChain /\ RowShape
           Step == \A a \in Attempts :
                     /\ att[a].terminal # "none" => att'[a] = att[a]
                     /\ att'[a].seq >= att[a].seq
                     /\ att[a].prov => att'[a].prov
<1>1. Init => Inv
  <2> SUFFICES ASSUME Init PROVE Inv
    OBVIOUS
  <2>1. AttemptChain /\ RowShape
    BY DEF Init, AttemptChain, RowShape, Attempts, Ordinals, NoAttempt
  <2> QED BY <2>1, TypeInit
<1>2. Inv /\ [Next]_vars => Inv' /\ Step
  BY TypeKept, DurableSteps, AttemptChainKept, RowSteps DEF TypeInv, RowStep
<1> QED BY <1>1, <1>2, PTL DEF Spec, AttemptHistory

-----------------------------------------------------------------------------
(* Provenance.                                                             *)

\* The attempt is with an engine, on its way to one, or about to be sent again.
Reached(a) == \/ a \in wire
              \/ remote[a].state # "absent"
              \/ worker[a].pc = "resend"

Evidenced == \A a \in Attempts : Reached(a) => HasEvidence(a)

\* Evidence is never lost: provenance stays, and analysis jobs get none.
LEMMA EvidenceStays ==
  ASSUME TypeOK, TypeOK', RowShape, RowShape', NEW a \in Attempts,
         RowStep(att[a], att'[a]), HasEvidence(a)
  PROVE  HasEvidence(a)'
<1>1. /\ att[a].prov \in BOOLEAN /\ att'[a].prov \in BOOLEAN
      /\ att[a].prov => att'[a].prov
      /\ att'[a].prov => a[1] \in Musical
  BY DEF TypeOK, Attempt, RowStep, RowShape
<1>2. att[a].prov <=> a[1] \in Musical
  BY DEF HasEvidence
<1>3. att'[a].prov <=> a[1] \in Musical
  BY <1>1, <1>2
<1>4. (a[1] \in Musical) \in BOOLEAN
  OBVIOUS
<1> QED BY <1>1, <1>3, <1>4 DEF HasEvidence

\* An engine only learns of an attempt through a POST.
LEMMA EnginesDoNotInvent ==
  ASSUME TypeOK, NEW a \in Attempts,
         E!Advance(a) \/ E!Cancel(a) \/ E!Abandon(a) \/ E!Jam(a),
         NEW b \in Attempts, remote'[b].state # "absent"
  PROVE  remote[b].state # "absent"
<1> USE DEF TypeOK, E!EngineTypeOK, E!Remote
<1>1. CASE E!Cancel(a)
  BY <1>1 DEF E!Cancel
<1>2. CASE E!Advance(a)
  <2>1. CASE E!Register(a)
    BY <2>1 DEF E!Register
  <2>2. CASE E!Reject(a)
    BY <2>2 DEF E!Reject, E!Unknown
  <2>3. CASE E!Start(a)
    BY <2>3 DEF E!Start
  <2>4. CASE E!Emit(a)
    BY <2>4 DEF E!Emit
  <2>5. CASE E!Seal(a)
    BY <2>5 DEF E!Seal
  <2>6. ASSUME NEW t \in E!Terminal, E!End(a, t)
        PROVE  remote[b].state # "absent"
    BY <2>6 DEF E!End, E!Running
  <2>7. CASE E!Finish(a)
    BY <2>7 DEF E!Finish
  <2> QED BY <1>2, <2>1, <2>2, <2>3, <2>4, <2>5, <2>6, <2>7 DEF E!Advance
<1>3. CASE E!Abandon(a) \/ E!Jam(a)
  BY <1>3 DEF E!Abandon, E!Jam, E!Running
<1> QED BY <1>1, <1>2, <1>3

\* Whatever reaches an engine had its provenance checked on the way.
LEMMA ReachedSteps ==
  ASSUME TypeOK, Evidenced, [Next]_vars
  PROVE  \A b \in Attempts : Reached(b)' => HasEvidence(b)
<1> DEFINE Good == \A b \in Attempts : Reached(b)' => HasEvidence(b)
<1>0. \A b \in Attempts : Reached(b) => HasEvidence(b)
  BY DEF Evidenced
<1>1. CASE UNCHANGED <<wire, remote, worker>>
  BY <1>0, <1>1 DEF Reached
<1>2. ASSUME NEW j \in Jobs, Send(j) PROVE Good
  BY <1>0, <1>2 DEF Send, Reached
<1>3. ASSUME NEW j \in Jobs, MainLoop(j) \/ SendFails(j) \/ RequestCancel(j)
      PROVE  Good
  <2>1. CASE SendFails(j)
    BY <1>0, <2>1 DEF SendFails, Reached
  <2> QED
    BY <1>1, <1>2, <1>3, <2>1
       DEF MainLoop, Screen, Reserve, ReserveRetry, Capture, Acknowledge,
           SendStops, CloseVram, RequestCancel, server
<1>4. ASSUME NEW a \in Attempts, Observer(a) PROVE Good
  <2> USE DEF TypeOK
  \* A step that only moves the coroutine, and not to "resend".
  <2>1. ASSUME NEW pc, pc # "resend", GoTo(a, pc), remote' = remote,
               wire' \subseteq wire
        PROVE  Good
    BY <1>0, <2>1 DEF GoTo, Reached, NoWorker
  <2>2. CASE Spawn(a)
    BY <1>0, <2>2 DEF Spawn, Reached, NoWorker
  <2>3. CASE Ask(a)
    BY <1>0, <2>3 DEF Ask, Reached, Worker
  <2>4. CASE Answer(a)
    <3>1. CASE \E pc \in {"off", "stream"} : GoTo(a, pc)
      BY <2>1, <2>4, <3>1 DEF Answer
    <3>2. CASE worker' = [worker EXCEPT ![a].pc = "absent"]
      BY <1>0, <2>4, <3>2 DEF Answer, Reached, Worker
    <3> QED BY <2>4, <3>1, <3>2 DEF Answer
  <2>5. CASE Retire(a) \/ Suspend(a) \/ AcceptLost(a) \/ ResendRefused(a)
             \/ ResendAcknowledged(a) \/ StreamEnds(a)
    BY <2>1, <2>5 DEF Retire, Suspend, AcceptLost, ResendRefused,
                      ResendAcknowledged, StreamEnds
  <2>6. CASE Repeat(a)
    BY <1>0, <2>6 DEF Repeat, Reached, Worker
  <2>7. CASE PrepareResend(a)
    BY <1>0, <2>7 DEF PrepareResend, MayResend, Reached, Worker
  <2>8. CASE Resend(a)
    <3>1. HasEvidence(a)
      BY <1>0, <2>8 DEF Resend, Reached
    <3> QED BY <1>0, <2>8, <3>1 DEF Resend, GoTo, Reached, NoWorker
  <2>9. CASE AcceptProgress(a)
    BY <1>1, <2>9 DEF AcceptProgress, server
  <2>10. CASE AcceptEnd(a) \/ ObserverFails(a)
    BY <2>1, <2>10 DEF AcceptEnd, ObserverFails
  <2> QED
    BY <1>4, <2>2, <2>3, <2>4, <2>5, <2>6, <2>7, <2>8, <2>9, <2>10
       DEF Observer
<1>5. ASSUME NEW a \in Attempts, Engine(a) \/ EngineFails(a) \/ SendCancel(a)
      PROVE  Good
  <2>1. /\ wire' = wire /\ worker' = worker
        /\ E!Advance(a) \/ E!Cancel(a) \/ E!Abandon(a) \/ E!Jam(a)
    BY <1>5 DEF Engine, EngineFails, SendCancel, server
  <2> QED BY <1>0, <2>1, EnginesDoNotInvent DEF Reached
<1>6. ASSUME NEW a \in Attempts, Deliver(a) PROVE Good
  BY <1>0, <1>6 DEF Deliver, E!Accept, Reached, server, TypeOK,
                    E!EngineTypeOK, E!Remote
<1>7. ASSUME NEW e \in Engines, EngineCrash(e) PROVE Good
  BY <1>0, <1>7 DEF EngineCrash, E!Crash, E!Unknown, Reached, server
<1>8. CASE ServerCrash
  BY <1>0, <1>8 DEF ServerCrash, Reached, NoWorker
<1>9. CASE UNCHANGED vars
  BY <1>1, <1>9 DEF vars, server
<1> QED BY <1>3, <1>4, <1>5, <1>6, <1>7, <1>8, <1>9 DEF Next

\* No generation is known to an engine without its provenance on record, sent
\* for the first time or again by an observer after a crash (ADR-0060).
THEOREM ProvenanceComesFirst == Spec => []SentWithProvenance
<1> DEFINE Inv == TypeInv /\ AttemptChain /\ RowShape /\ Evidenced
<1>1. Init => Inv
  <2> SUFFICES ASSUME Init PROVE Inv
    OBVIOUS
  <2>1. AttemptChain /\ RowShape
    BY DEF Init, AttemptChain, RowShape, Attempts, Ordinals, NoAttempt
  <2>2. Evidenced
    BY DEF Init, Evidenced, Reached, E!EngineInit, E!Unknown, NoWorker
  <2> QED BY <2>1, <2>2, TypeInit
<1>2. Inv /\ [Next]_vars => Inv'
  <2> SUFFICES ASSUME Inv, [Next]_vars PROVE Inv'
    OBVIOUS
  <2>1. TypeInv' /\ AttemptChain' /\ RowShape'
        /\ \A a \in Attempts : RowStep(att[a], att'[a])
    BY TypeKept, DurableSteps, AttemptChainKept, RowSteps DEF TypeInv
  <2>2. \A a \in Attempts : HasEvidence(a) => HasEvidence(a)'
    BY <2>1, EvidenceStays DEF TypeInv
  <2>3. Evidenced'
    BY <2>2, ReachedSteps DEF TypeInv, Evidenced
  <2> QED BY <2>1, <2>3
<1>3. Inv => SentWithProvenance
  BY DEF Evidenced, Reached, SentWithProvenance
<1> QED BY <1>1, <1>2, <1>3, PTL DEF Spec

-----------------------------------------------------------------------------
(* The takes of a generation.                                              *)

\* The end of a job is definitive: no automatic retry follows it.
Definitive(jrow, row) ==
  \/ jrow.status = "cancelled"
  \/ jrow.status = "failed" /\ ~RetryPending(jrow, row)

\* What the takes of a job with these rows are.
TakeFor(jrow, row) == IF Definitive(jrow, row) THEN jrow.status ELSE "queued"

LEMMA TakesEverywhere ==
  TakesFollowJob <=>
    \A j \in Musical : take[j] = TakeFor(job[j], att[Current(j)])
BY DEF TakesFollowJob, TakeFor, Definitive

\* A job that was never reserved has no row that could matter.
LEMMA NoRowNoRetry ==
  ASSUME NEW jrow \in Job, jrow.attempt = 0, NEW r, NEW s
  PROVE  TakeFor(jrow, r) = TakeFor(jrow, s)
BY DEF TakeFor, Definitive, RetryPending, RetryBudget

\* It is enough to look at the job a step is about.
LEMMA TakesLocally ==
  ASSUME TypeOK, TakesFollowJob, NEW j \in Jobs,
         \A i \in Jobs \ {j} : job'[i] = job[i],
         \A b \in Attempts : b[1] # j => att'[b] = att[b],
         \A i \in Jobs \ {j} : take'[i] = take[i],
         j \in Musical =>
           take'[j] = TakeFor(job'[j], att'[<<j, job'[j].attempt>>])
  PROVE  TakesFollowJob'
<1> SUFFICES ASSUME NEW i \in Musical
             PROVE  take'[i] = TakeFor(job'[i], att'[<<i, job'[i].attempt>>])
  BY DEF TakesFollowJob, TakeFor, Definitive, Current
<1>0. i \in Jobs /\ take[i] = TakeFor(job[i], att[<<i, job[i].attempt>>])
  BY QueueAssumption, TakesEverywhere DEF Current
<1>1. CASE i = j
  BY <1>1
<1>2. CASE i # j
  <2>1. job'[i] = job[i] /\ job[i] \in Job /\ take'[i] = take[i]
    BY <1>0, <1>2 DEF TypeOK
  <2>2. CASE job[i].attempt = 0
    BY <1>0, <2>1, <2>2, NoRowNoRetry
  <2>3. CASE job[i].attempt # 0
    <3>1. <<i, job[i].attempt>> \in Attempts
      BY <1>0, <2>1, <2>3 DEF Job, Ordinals, Attempts
    <3>2. att'[<<i, job[i].attempt>>] = att[<<i, job[i].attempt>>]
      BY <1>2, <3>1
    <3> QED BY <1>0, <2>1, <3>2
  <2> QED BY <2>2, <2>3
<1> QED BY <1>1, <1>2

\* While a job waits or runs its takes wait; a failure with a retry left also
\* leaves them so.
LEMMA TakesWait ==
  ASSUME NEW jrow \in Job, NEW row,
         \/ jrow.status \in {"queued", "running", "interrupted", "succeeded"}
         \/ RetryPending(jrow, row)
  PROVE  TakeFor(jrow, row) = "queued"
BY DEF TakeFor, Definitive, RetryPending, RetryBudget

\* The transaction that ends a job ends its waiting takes.
LEMMA TakesSettle ==
  ASSUME TypeOK, NEW j \in Jobs, NEW jrow \in Job, NEW row,
         jrow.status \in Ended, take' = TakeAfter(j, jrow, row)
  PROVE  /\ \A i \in Jobs \ {j} : take'[i] = take[i]
         /\ j \in Musical /\ take[j] = "queued" =>
              take'[j] = TakeFor(jrow, row)
<1>1. take' = take \/ \E t : take' = [take EXCEPT ![j] = t]
  BY DEF TakeAfter
<1>2. ASSUME j \in Musical, take[j] = "queued"
      PROVE  take'[j] = TakeFor(jrow, row)
  <2>1. CASE Definitive(jrow, row)
    <3>1. take' = [take EXCEPT ![j] = IF @ = "queued" THEN jrow.status ELSE @]
      BY <1>2, <2>1 DEF TakeAfter, Definitive, RetryPending, RetryBudget
    <3> QED BY <1>2, <2>1, <3>1 DEF TakeFor, TypeOK
  <2>2. CASE ~Definitive(jrow, row)
    <3>1. take' = take
      BY <2>2 DEF TakeAfter, Definitive
    <3> QED BY <1>2, <2>2, <3>1 DEF TakeFor
  <2> QED BY <2>1, <2>2
<1>3. \A i \in Jobs \ {j} : take'[i] = take[i]
  BY <1>1 DEF TypeOK
<1> QED BY <1>2, <1>3

\* Every step that ends a job for good ends its takes, and no other does.
LEMMA TakesFollowKept ==
  ASSUME TypeOK, TypeOK', NotStarted, TakesFollowJob, DurableStep
  PROVE  TakesFollowJob'
<1>0. /\ \A j \in Jobs : job[j] \in Job /\ job'[j] \in Job
      /\ \A j \in Jobs : job[j].status = "queued" /\ j \in Musical
                           => take[j] = "queued"
      /\ \A j \in Musical : take[j] = TakeFor(job[j], att[Current(j)])
  BY TakesEverywhere, TakesWait DEF TypeOK
<1>1. CASE UNCHANGED durable
  BY <1>1 DEF durable, TakesFollowJob, Current
<1>2. ASSUME NEW j \in Jobs, Reserve(j) \/ ReserveRetry(j)
      PROVE  TakesFollowJob'
  <2>1. PICK n, r :
          /\ job' = [job EXCEPT ![j] = [job[j] EXCEPT !.status = "running",
                                                      !.attempt = n]]
          /\ att' = [att EXCEPT ![<<j, n>>] = r]
          /\ take' = take
    <3>1. CASE Reserve(j)
      BY <3>1, ZenonT(40) DEF Reserve
    <3>2. CASE ReserveRetry(j)
      BY <3>2 DEF ReserveRetry
    <3> QED BY <1>2, <3>1, <3>2
  <2>2. job'[j].status = "running"
    BY <2>1 DEF TypeOK, Job
  <2>3. job[j].status = "queued" \/ RetryPending(job[j], att[Current(j)])
    BY <1>2 DEF Reserve, ReserveRetry, Dispatchable, Retryable
  <2>4. j \in Musical => take[j] = "queued"
    BY <1>0, <2>3, TakesWait
  <2>5. TakeFor(job'[j], att'[<<j, job'[j].attempt>>]) = "queued"
    BY <1>0, <2>2, TakesWait
  <2>6. /\ \A i \in Jobs \ {j} : job'[i] = job[i]
        /\ \A b \in Attempts : b[1] # j => att'[b] = att[b]
    BY <2>1 DEF TypeOK
  <2> QED BY <2>1, <2>4, <2>5, <2>6, TakesLocally, ZenonT(40)
\* The row of a reserved job changes and nothing else.
<1>3. ASSUME NEW j \in Jobs, Reserved(j), job' = job, take' = take,
             \A b \in Attempts : b[1] # j => att'[b] = att[b]
      PROVE  TakesFollowJob'
  <2>1. job[j].status \in {"running", "interrupted"}
    BY <1>3 DEF Reserved
  <2>2. TakeFor(job'[j], att'[<<j, job'[j].attempt>>]) = "queued"
    BY <1>0, <1>3, <2>1, TakesWait
  <2>3. j \in Musical => take[j] = "queued"
    BY <1>0, <2>1, TakesWait
  <2> QED BY <1>3, <2>2, <2>3, TakesLocally
<1>4. ASSUME NEW j \in Jobs, Capture(j) PROVE TakesFollowJob'
  <2>1. /\ Reserved(j) /\ job' = job /\ take' = take
        /\ \A b \in Attempts : b[1] # j => att'[b] = att[b]
    BY <1>4 DEF Capture, SendAuthority, Reserved, Current, TypeOK
  <2> QED BY <1>3, <2>1
<1>5. ASSUME NEW a, att' = Acknowledged(a), UNCHANGED <<job, take>>
      PROVE  TakesFollowJob'
  <2>1. CASE att' = att
    BY <1>5, <2>1 DEF TakesFollowJob, Current
  <2>2. CASE att' # att
    <3>1. /\ job[a[1]].status = "running"
          /\ \E r : att' = [att EXCEPT ![a] = r]
      BY <1>5, <2>2 DEF Acknowledged
    <3>3. a \in Attempts
      BY <2>2, <3>1 DEF TypeOK
    <3>2. /\ a[1] \in Jobs /\ Reserved(a[1])
          /\ \A b \in Attempts : b[1] # a[1] => att'[b] = att[b]
      BY <3>1, <3>3 DEF Attempts, Reserved, TypeOK
    <3> QED BY <1>3, <1>5, <3>2
  <2> QED BY <2>1, <2>2
<1>6. ASSUME NEW a \in Attempts, AcceptProgress(a) PROVE TakesFollowJob'
  <2>1. /\ a[1] \in Jobs /\ Reserved(a[1]) /\ job' = job /\ take' = take
        /\ \A b \in Attempts : b[1] # a[1] => att'[b] = att[b]
    BY <1>6 DEF AcceptProgress, Live, Attempts, TypeOK
  <2> QED BY <1>3, <2>1
<1>7. ASSUME NEW j \in Jobs, CloseVram(j) PROVE TakesFollowJob'
  <2> DEFINE closed == [job[j] EXCEPT !.max = job[j].attempt]
             row == att[Current(j)]
  <2>1. /\ RetryBudget(job[j], row) /\ row.terminal = "vram"
        /\ job' = [job EXCEPT ![j] = closed]
        /\ take' = TakeAfter(j, closed, row)
        /\ att' = att
    BY <1>7 DEF CloseVram
  <2>2. job'[j] = closed /\ \A i \in Jobs \ {j} : job'[i] = job[i]
    BY <2>1 DEF TypeOK
  <2>3. closed.status = "failed" /\ closed.attempt = job[j].attempt
    BY <1>0, <2>1 DEF RetryBudget, Job
  <2>9. closed \in Job /\ closed.status \in Ended
    BY <1>0, <2>2, <2>3 DEF Ended
  <2>4. /\ \A i \in Jobs \ {j} : take'[i] = take[i]
        /\ j \in Musical /\ take[j] = "queued" =>
             take'[j] = TakeFor(closed, row)
    <3> HIDE DEF closed, row
    <3> QED BY <2>1, <2>9, TakesSettle
  <2>5. ~RetryPending(closed, row)
    BY <1>0, <2>2, <2>3 DEF RetryPending, RetryBudget, Job, closed
  <2>6. TakeFor(closed, row) = "failed"
    BY <2>3, <2>5 DEF TakeFor, Definitive
  <2>7. CASE j \in Musical /\ take[j] # "queued"
    <3>1. take[j] = "failed"
      BY <1>0, <2>1, <2>7 DEF TakeFor, Definitive, RetryBudget
    <3>2. take' = [take EXCEPT ![j] = IF @ = "queued" THEN "failed" ELSE @]
      BY <2>1, <2>3, <2>5, <2>7 DEF TakeAfter
    <3>3. take'[j] = "failed"
      BY <3>1, <3>2 DEF TypeOK
    <3> QED BY <2>1, <2>2, <2>3, <2>4, <2>6, <3>3, TakesLocally DEF Current
  <2>8. CASE ~(j \in Musical /\ take[j] # "queued")
    BY <2>1, <2>2, <2>3, <2>4, <2>8, TakesLocally DEF Current
  <2> QED BY <2>7, <2>8
<1>8. ASSUME NEW j \in Jobs, RequestCancel(j) PROVE TakesFollowJob'
  <2> DEFINE jrow == [job[j] EXCEPT !.cancel = TRUE,
                        !.status = IF job[j].attempt = 0 THEN "cancelled"
                                   ELSE @]
  <2>1. /\ job[j].status \notin Ended
        /\ job' = [job EXCEPT ![j] = jrow] /\ att' = att
        /\ take' = IF job[j].attempt = 0 THEN TakeAfter(j, jrow, NoAttempt)
                   ELSE take
    BY <1>8 DEF RequestCancel
  <2>2. job'[j] = jrow /\ \A i \in Jobs \ {j} : job'[i] = job[i]
    BY <2>1 DEF TypeOK
  <2>3. /\ jrow.attempt = job[j].attempt
        /\ jrow.status = IF job[j].attempt = 0 THEN "cancelled"
                         ELSE job[j].status
    BY <1>0 DEF Job
  <2>4. job[j].status \in {"queued", "running", "interrupted"}
    BY <1>0, <2>1 DEF Ended, Job, JobStatus
  <2>5. j \in Musical => take[j] = "queued"
    BY <1>0, <2>4, TakesWait
  <2>6. CASE job[j].attempt = 0
    <3>3. jrow \in Job /\ jrow.status \in Ended /\ jrow.attempt = 0
      BY <1>0, <2>2, <2>3, <2>6 DEF Ended
    <3> HIDE DEF jrow
    <3>1. /\ \A i \in Jobs \ {j} : take'[i] = take[i]
          /\ j \in Musical => take'[j] = TakeFor(jrow, NoAttempt)
      BY <2>1, <2>5, <2>6, <3>3, TakesSettle
    <3>2. TakeFor(jrow, NoAttempt) = TakeFor(jrow, att[<<j, jrow.attempt>>])
      BY <3>3, NoRowNoRetry
    <3> QED BY <2>1, <2>2, <3>1, <3>2, TakesLocally
  <2>7. CASE job[j].attempt # 0
    <3>2. jrow \in Job /\ jrow.status = job[j].status
      BY <1>0, <2>2, <2>3, <2>7
    <3> HIDE DEF jrow
    <3>1. TakeFor(jrow, att[<<j, jrow.attempt>>]) = "queued"
      BY <2>4, <3>2, TakesWait
    <3> QED BY <2>1, <2>2, <2>5, <2>7, <3>1, TakesLocally
  <2> QED BY <2>6, <2>7
<1>9. ASSUME NEW a \in Attempts, job' = Interrupted(a), UNCHANGED <<att, take>>
      PROVE  TakesFollowJob'
  <2>1. CASE job' = job
    BY <1>9, <2>1 DEF TakesFollowJob, Current
  <2>2. CASE job' # job
    <3>1. /\ a[1] \in Jobs /\ Reserved(a[1])
          /\ job' = [job EXCEPT ![a[1]] =
                       [job[a[1]] EXCEPT !.status = "interrupted"]]
      BY <1>9, <2>2 DEF Interrupted, Live, Attempts
    <3>2. /\ job'[a[1]].status = "interrupted"
          /\ \A i \in Jobs \ {a[1]} : job'[i] = job[i]
      BY <3>1 DEF TypeOK, Job
    <3>3. TakeFor(job'[a[1]], att'[<<a[1], job'[a[1]].attempt>>]) = "queued"
      BY <1>0, <3>1, <3>2, TakesWait
    <3>4. a[1] \in Musical => take[a[1]] = "queued"
      BY <1>0, <3>1, TakesWait DEF Reserved
    <3> QED BY <1>9, <3>1, <3>2, <3>3, <3>4, TakesLocally
  <2> QED BY <2>1, <2>2
<1>10. ASSUME NEW a \in Attempts, NEW t \in Terminal, AcceptTerminal(a, t)
       PROVE  TakesFollowJob'
  <2> DEFINE j == a[1]
             jrow == [job[j] EXCEPT !.status = IF job[j].cancel
                                               THEN "cancelled"
                                               ELSE EndStatus(t)]
             row == [att[a] EXCEPT !.status = EndStatus(t), !.terminal = t,
                                   !.seq = @ + 1]
  <2>1. /\ job' = [job EXCEPT ![j] = jrow]
        /\ att' = [att EXCEPT ![a] = row]
        /\ take' = TakeAfter(j, jrow, row)
        /\ Reserved(j) /\ job[j].attempt = a[2]
        /\ j \in Jobs /\ a = <<j, a[2]>>
    BY <1>10 DEF AcceptTerminal, Live, Attempts
  <2>2. /\ job'[j] = jrow /\ \A i \in Jobs \ {j} : job'[i] = job[i]
        /\ att'[a] = row /\ \A b \in Attempts : b[1] # j => att'[b] = att[b]
    BY <2>1 DEF TypeOK
  <2>3. jrow.attempt = a[2] /\ jrow.status \in Ended
    BY <1>0, <2>1 DEF Job, EndStatus, Ended
  <2>4. j \in Musical => take[j] = "queued"
    BY <1>0, <2>1, TakesWait DEF Reserved
  <2>5. jrow \in Job
    BY <1>0, <2>1, <2>2
  <2> HIDE DEF jrow, row, j
  <2>6. /\ \A i \in Jobs \ {j} : take'[i] = take[i]
        /\ j \in Musical => take'[j] = TakeFor(jrow, row)
    BY <2>1, <2>3, <2>4, <2>5, TakesSettle
  <2> QED BY <2>1, <2>2, <2>3, <2>6, TakesLocally
<1>11. CASE job' = Recovered /\ UNCHANGED <<att, take>>
  <2> SUFFICES ASSUME NEW j \in Musical
               PROVE  take[j] = TakeFor(job'[j], att[<<j, job'[j].attempt>>])
    BY <1>11 DEF TakesFollowJob, TakeFor, Definitive, Current
  <2>1. /\ j \in Jobs /\ job'[j].attempt = job[j].attempt
        /\ \/ job'[j] = job[j]
           \/ job[j].status = "running" /\ job'[j].status = "interrupted"
    BY <1>0, <1>11, QueueAssumption DEF Recovered, Job
  <2> QED BY <1>0, <2>1, TakesWait DEF Current
<1> QED
  BY <1>1, <1>2, <1>4, <1>5, <1>6, <1>7, <1>8, <1>9, <1>10, <1>11
     DEF DurableStep, durable

\* The takes a generation reserved end with it, with its status, and stay
\* queued exactly while an automatic retry may still fill them.
THEOREM TakesEndWithJob == Spec => []TakesFollowJob
<1> DEFINE Inv == TypeInv /\ TakesFollowJob
<1>1. Init => Inv
  BY TypeInit, QueueAssumption DEF Init, TakesFollowJob
<1>2. Inv /\ [Next]_vars => Inv'
  BY TypeKept, DurableSteps, TakesFollowKept DEF TypeInv
<1> QED BY <1>1, <1>2, PTL DEF Spec

-----------------------------------------------------------------------------
(* Offloading.                                                             *)

\* What OffloadTransition says of one attempt of a job.
Offloaded(j, k) ==
  LET before == att[<<j, k - 1>>]
  IN  /\ att[<<j, k>>].mode = "offload" => HasOffload[j] /\ k > 1
      /\ k > 1 =>
           /\ before.mode = "full" =>
                (att[<<j, k>>].mode = "offload" <=> before.terminal = "vram")
           /\ before.mode = "offload" =>
                /\ att[<<j, k>>].mode = "offload"
                /\ before.terminal = "retryable"

\* Only the row of a new attempt, and the end of the current one, matter.
LEMMA OffloadLocally ==
  ASSUME TypeOK, OffloadTransition, NEW j \in Jobs,
         job'[j].attempt = job[j].attempt,
         \A k \in Ordinals : att'[<<j, k>>].mode = att[<<j, k>>].mode,
         \A k \in Ordinals : k # job[j].attempt =>
           att'[<<j, k>>].terminal = att[<<j, k>>].terminal
  PROVE  \A k \in 1..job'[j].attempt : Offloaded(j, k)'
<1> SUFFICES ASSUME NEW k \in 1..job[j].attempt PROVE Offloaded(j, k)'
  OBVIOUS
<1>1. /\ job[j].attempt \in 0..MaxAttempts /\ MaxAttempts \in Nat
      /\ k \in Ordinals /\ k \in Nat
  BY QueueAssumption DEF TypeOK, Job, Ordinals
<1>2. Offloaded(j, k)
  BY DEF OffloadTransition, Offloaded
<1>3. k > 1 => k - 1 \in Ordinals /\ k - 1 # job[j].attempt
  BY <1>1 DEF Ordinals
<1> QED BY <1>1, <1>2, <1>3 DEF Offloaded

\* Every new attempt is offloaded for a reason, and once.
LEMMA OffloadKept ==
  ASSUME TypeOK, OffloadTransition, DurableStep
  PROVE  OffloadTransition'
<1>0. (\A j \in Jobs : \A k \in 1..job'[j].attempt : Offloaded(j, k)')
        => OffloadTransition'
  BY DEF OffloadTransition, Offloaded
<1>00. \A j \in Jobs, k \in Ordinals : <<j, k>> \in Attempts
  BY DEF Attempts
\* Attempts and modes stay, and one attempt at most is written: a current one.
<1>1. ASSUME \A j \in Jobs : job'[j].attempt = job[j].attempt,
             \A b \in Attempts : att'[b].mode = att[b].mode,
             \A b \in Attempts : b # Current(b[1]) =>
               att'[b].terminal = att[b].terminal
      PROVE  OffloadTransition'
  <2> SUFFICES ASSUME NEW j \in Jobs
               PROVE  \A k \in 1..job'[j].attempt : Offloaded(j, k)'
    BY <1>0
  <2>1. \A k \in Ordinals : k # job[j].attempt => <<j, k>> # Current(j)
    BY DEF Current
  <2> QED BY <1>00, <1>1, <2>1, OffloadLocally
<1>2. CASE UNCHANGED durable
  BY <1>1, <1>2 DEF durable
<1>3. ASSUME NEW j \in Jobs, NEW n \in Ordinals, NEW row,
             n = job[j].attempt + 1,
             job' = [job EXCEPT ![j] = [job[j] EXCEPT !.status = "running",
                                                      !.attempt = n]],
             att' = [att EXCEPT ![<<j, n>>] = row],
             row.mode = "offload" => HasOffload[j] /\ n > 1,
             n > 1 /\ att[Current(j)].mode = "full" =>
               (row.mode = "offload" <=> att[Current(j)].terminal = "vram"),
             n > 1 /\ att[Current(j)].mode = "offload" =>
               /\ row.mode = "offload"
               /\ att[Current(j)].terminal = "retryable"
      PROVE  OffloadTransition'
  <2>1. /\ job'[j].attempt = n /\ att'[<<j, n>>] = row
        /\ \A i \in Jobs \ {j} : job'[i] = job[i]
        /\ \A b \in Attempts \ {<<j, n>>} : att'[b] = att[b]
        /\ n \in Nat /\ job[j].attempt \in Nat /\ MaxAttempts \in Nat
        /\ job[j].attempt \in 0..MaxAttempts
    BY <1>3, <1>00, QueueAssumption DEF TypeOK, Job, Ordinals
  <2>2. ASSUME NEW i \in Jobs \ {j}
        PROVE  \A k \in 1..job'[i].attempt : Offloaded(i, k)'
    <3>1. \A k \in Ordinals : att'[<<i, k>>] = att[<<i, k>>]
      BY <1>00, <2>1
    <3> QED BY <2>1, <3>1, OffloadLocally
  <2>3. ASSUME NEW k \in 1..n PROVE Offloaded(j, k)'
    <3>1. CASE k = n
      <4>1. n > 1 => /\ Current(j) = <<j, k - 1>> /\ Current(j) \in Attempts
                     /\ Current(j) # <<j, n>>
        BY <1>3, <1>00, <2>1, <3>1 DEF Current, Ordinals
      <4> QED BY <1>3, <2>1, <3>1, <4>1 DEF Offloaded
    <3>2. CASE k # n
      <4>1. /\ k \in 1..job[j].attempt /\ k \in Ordinals /\ k \in Nat
            /\ k > 1 => k - 1 \in Ordinals /\ k - 1 # n
        BY <1>3, <2>1, <3>2 DEF Ordinals
      <4>2. Offloaded(j, k)
        BY <4>1 DEF OffloadTransition, Offloaded
      <4>3. /\ att'[<<j, k>>] = att[<<j, k>>]
            /\ k > 1 => att'[<<j, k - 1>>] = att[<<j, k - 1>>]
        BY <1>00, <2>1, <3>2, <4>1
      <4> QED BY <4>2, <4>3 DEF Offloaded
    <3> QED BY <3>1, <3>2
  <2> QED BY <1>0, <2>1, <2>2, <2>3
<1>4. ASSUME NEW j \in Jobs, Reserve(j) PROVE OffloadTransition'
  <2> DEFINE row == [NoAttempt EXCEPT !.status = "prepared"]
  <2>1. /\ job[j].attempt = 0 /\ row.mode = "full"
        /\ job' = [job EXCEPT ![j] = [job[j] EXCEPT !.status = "running",
                                                    !.attempt = 1]]
        /\ att' = [att EXCEPT ![<<j, 1>>] = row]
    BY <1>4 DEF Reserve, Dispatchable, NoAttempt
  <2>2. 1 \in Ordinals /\ 1 = job[j].attempt + 1 /\ ~(1 > 1)
    BY <2>1, QueueAssumption DEF Ordinals
  <2>3. row.mode # "offload"
    BY <2>1
  <2> HIDE DEF row
  <2> QED BY <1>3, <2>1, <2>2, <2>3
<1>5. ASSUME NEW j \in Jobs, ReserveRetry(j) PROVE OffloadTransition'
  <2> DEFINE last == att[Current(j)]
             n == job[j].attempt + 1
             row == [NoAttempt EXCEPT !.status = "prepared",
                                      !.mode = RetryMode(last)]
  <2>1. /\ Retryable(j)
        /\ job' = [job EXCEPT ![j] = [job[j] EXCEPT !.status = "running",
                                                    !.attempt = n]]
        /\ att' = [att EXCEPT ![<<j, n>>] = row]
    BY <1>5 DEF ReserveRetry
  <2>2. /\ job[j].attempt \in Ordinals /\ n \in Ordinals
        /\ Current(j) \in Attempts /\ last \in Attempt
    BY <2>1, RetryWithinLimit
  <2>3. /\ last.terminal \in {"retryable", "vram"}
        /\ last.terminal = "vram" => last.mode = "full"
        /\ RetryMode(last) # last.mode => HasOffload[j]
    BY <2>1 DEF Retryable, RetryPending, RetryBudget, HasRetryMode
  <2>4. row.mode = RetryMode(last)
    BY DEF NoAttempt
  <2>5. last.mode = "offload" => HasOffload[j]
    <3>1. job[j].attempt \in 1..job[j].attempt
      BY <2>2, QueueAssumption DEF Ordinals
    <3> QED BY <3>1 DEF OffloadTransition, Current
  <2>6. row.mode = "offload" => HasOffload[j] /\ n > 1
    BY <2>2, <2>3, <2>4, <2>5, QueueAssumption DEF RetryMode, Attempt, Ordinals
  <2>7. /\ last.mode = "full" =>
             (row.mode = "offload" <=> last.terminal = "vram")
        /\ last.mode = "offload" =>
             row.mode = "offload" /\ last.terminal = "retryable"
    BY <2>3, <2>4 DEF RetryMode
  <2> HIDE DEF row
  <2> QED BY <1>3, <2>1, <2>2, <2>6, <2>7
<1>6. ASSUME NEW j \in Jobs, Capture(j) \/ CloseVram(j) \/ RequestCancel(j)
      PROVE  OffloadTransition'
  <2>1. \A i \in Jobs : job'[i].attempt = job[i].attempt
    <3>1. CASE Capture(j)
      BY <3>1 DEF Capture
    <3>2. CASE CloseVram(j)
      BY <3>2 DEF CloseVram, TypeOK, Job
    <3>3. CASE RequestCancel(j)
      BY <3>3 DEF RequestCancel, TypeOK, Job
    <3> QED BY <1>6, <3>1, <3>2, <3>3
  <2>2. \A b \in Attempts : att'[b].mode = att[b].mode
                            /\ att'[b].terminal = att[b].terminal
    <3>1. CASE Capture(j)
      BY <3>1 DEF Capture, TypeOK, Attempt
    <3>2. CASE att' = att
      BY <3>2
    <3> QED BY <1>6, <3>1, <3>2 DEF CloseVram, RequestCancel
  <2> QED BY <1>1, <2>1, <2>2
<1>7. ASSUME NEW a, att' = Acknowledged(a), UNCHANGED <<job, take>>
      PROVE  OffloadTransition'
  <2>1. \A b \in Attempts : att'[b].mode = att[b].mode
                            /\ att'[b].terminal = att[b].terminal
    BY <1>7 DEF Acknowledged, TypeOK, Attempt
  <2> QED BY <1>1, <1>7, <2>1
<1>8. ASSUME NEW a \in Attempts, job' = Interrupted(a), att' = att
      PROVE  OffloadTransition'
  <2>1. \A i \in Jobs : job'[i].attempt = job[i].attempt
    BY <1>8 DEF Interrupted, TypeOK, Job, Attempts
  <2> QED BY <1>1, <1>8, <2>1
<1>9. ASSUME NEW a \in Attempts, NEW t \in Terminal, AcceptTerminal(a, t)
      PROVE  OffloadTransition'
  <2>1. /\ \E s : job' = [job EXCEPT ![a[1]] = [job[a[1]] EXCEPT !.status = s]]
        /\ att' = [att EXCEPT ![a] = [att[a] EXCEPT
                     !.status = EndStatus(t), !.terminal = t, !.seq = @ + 1]]
    BY <1>9 DEF AcceptTerminal
  <2>5. a[1] \in Jobs /\ a = Current(a[1])
    BY <1>9 DEF AcceptTerminal, Live, Attempts, Current
  <2>2. \A i \in Jobs : job'[i].attempt = job[i].attempt
    BY <2>1, <2>5 DEF TypeOK, Job
  <2>3. \A b \in Attempts : att'[b].mode = att[b].mode
    BY <2>1 DEF TypeOK, Attempt
  <2>4. \A b \in Attempts : b # Current(b[1]) => att'[b] = att[b]
    BY <2>1, <2>5 DEF TypeOK
  <2> QED BY <1>1, <2>2, <2>3, <2>4
<1>10. ASSUME NEW a \in Attempts, AcceptProgress(a) PROVE OffloadTransition'
  <2>1. /\ job' = job
        /\ att' = [att EXCEPT ![a] = [att[a] EXCEPT !.seq = @ + 1]]
    BY <1>10 DEF AcceptProgress
  <2>2. \A b \in Attempts : att'[b].mode = att[b].mode
                            /\ att'[b].terminal = att[b].terminal
    BY <2>1 DEF TypeOK, Attempt
  <2> QED BY <1>1, <2>1, <2>2
<1>11. CASE job' = Recovered /\ att' = att
  <2>1. \A i \in Jobs : job'[i].attempt = job[i].attempt
    BY <1>11 DEF Recovered, TypeOK, Job
  <2> QED BY <1>1, <1>11, <2>1
<1> QED
  BY <1>2, <1>4, <1>5, <1>6, <1>7, <1>8, <1>9, <1>10, <1>11
     DEF DurableStep, durable

\* The one change of mode of a job's attempts: from full to offload, after
\* VRAM_EXCEEDED and where the catalogue offers the mode.  Attempts after it
\* stay offloaded, and none follows a second VRAM_EXCEEDED.
THEOREM OffloadComesOnce == Spec => []OffloadTransition
<1> DEFINE Inv == TypeInv /\ OffloadTransition
<1>1. Init => Inv
  BY TypeInit DEF Init, OffloadTransition
<1>2. Inv /\ [Next]_vars => Inv'
  BY TypeKept, DurableSteps, OffloadKept DEF TypeInv
<1> QED BY <1>1, <1>2, PTL DEF Spec

-----------------------------------------------------------------------------
(* Memory of the server, memory of the engines, and the disk.              *)
(*                                                                         *)
(* Of an attempt: what the main loop, its observer, the network, the       *)
(* engine and the disk may know at the same time.                          *)

Sending == {"claimed", "captured", "sent"}

\* The main loop is about to send the attempt, or waits for the answer.
Posting(a) == a = Current(a[1]) /\ step[a[1]] \in Sending

\* No engine was asked for the attempt, and nothing was written for it.
Untouched(a) ==
  a \notin wire /\ remote[a].state = "absent" /\ a \notin output

\* An attempt that is not reserved yet is known to nobody.
Unborn(a) == a[2] > job[a[1]].attempt => Untouched(a) /\ worker[a].pc = "off"

\* A claim is sent once, before it has an observer.
Claimed(a) == Posting(a) =>
  /\ Live(a) /\ worker[a].pc = "off"
  /\ step[a[1]] # "sent" => Untouched(a)

\* A POST on its way has a sender that waits, and meets an engine that never
\* ran the attempt.
Posted(a) == a \in wire =>
  /\ Live(a) /\ att[a].seq = 0
  /\ remote[a].state = "absent" /\ a \notin output
  /\ (Posting(a) /\ step[a[1]] = "sent") \/ worker[a].pc = "sent"

\* What an observer saw is still so when it acts: it is the only one that
\* could send the attempt meanwhile.
Seen(a) ==
  /\ worker[a].pc \notin {"off", "poll"} => Live(a)
  /\ worker[a].pc = "asked" /\ worker[a].idle =>
       remote[a].state \in {"absent", "ended"}
  /\ worker[a].pc = "absent" /\ worker[a].idle => remote[a].state = "absent"
  /\ worker[a].pc \in {"safe", "resend"} => Untouched(a) /\ att[a].seq = 0
  /\ worker[a].pc = "stream" => remote[a].state # "validating"

\* A run has its directory from start to success, and only one run has it.
Ran(a) ==
  /\ remote[a].state \in {"validating", "loading"} => a \notin output
  /\ remote[a].state \in {"busy", "sealing"} => a \in output
  /\ E!Over(a) /\ remote[a].terminal = "done" => a \in output
  /\ remote[a].state = "jammed" => remote[a].terminal # "done"
  /\ att[a].terminal = "done" =>
       /\ a \in output
       /\ remote[a].state \in {"absent", "closing", "ended"}
       /\ remote[a].state = "closing" => remote[a].terminal = "done"

\* The cursor of a live attempt is behind the run that it follows.
Follows(a) == Live(a) =>
  /\ remote[a].state = "validating" => att[a].seq = 0
  /\ Known(a) => att[a].seq <= remote[a].seq

Local(a) == /\ Unborn(a) /\ Claimed(a) /\ Posted(a)
            /\ Seen(a) /\ Ran(a) /\ Follows(a)

\* The main loop is busy with one job, and what it sends has an attempt.
OneAtATime ==
  /\ \A i, j \in Jobs : step[i] # "idle" /\ step[j] # "idle" => i = j
  /\ \A j \in Jobs : step[j] \in Sending => job[j].attempt \in Ordinals

(* Of the card: an attempt is hot from its POST until its engine is idle.   *)

Gpu(j) == Lane[j] = "gpu"
Hot(a) == a \in wire \/ remote[a].state \notin {"absent", "ended"}

OneHot ==
  \A a, b \in Attempts : Gpu(a[1]) /\ Gpu(b[1]) /\ Hot(a) /\ Hot(b) => a = b

\* While a gpu job is reserved, only its attempt can be hot.
Held == \A b \in Attempts, i \in Jobs :
  Gpu(b[1]) /\ Hot(b) /\ Gpu(i) /\ Reserved(i) => b = Current(i)

\* The main loop screened a gpu job when nothing was hot, and nothing became
\* so since.
Cold ==
  /\ \A i \in Jobs : Gpu(i) => ~Reserved(i)
  /\ \A b \in Attempts : Gpu(b[1]) => ~Hot(b)
Screened == \A j \in Jobs : step[j] = "screened" /\ Gpu(j) => Cold

Card == OneHot /\ Held /\ Screened

MemoryInv == OneAtATime /\ (\A a \in Attempts : Local(a)) /\ Card

\* What the rows alone provide.
RowsInv == TypeInv /\ AttemptChain /\ JobFollowsAttempt /\ LaneLimits

-----------------------------------------------------------------------------
(* Steps that leave an attempt or the card as they are.                    *)

SameJob(j) == /\ job'[j].attempt = job[j].attempt
              /\ Reserved(j)' <=> Reserved(j)
SameRow(b) == /\ Live(b)' <=> Live(b)
              /\ att'[b].seq = att[b].seq
              /\ att'[b].terminal = att[b].terminal
SamePost(b) == /\ b[2] > job'[b[1]].attempt => b[2] > job[b[1]].attempt
               /\ Posting(b)' <=> Posting(b)
               /\ Posting(b) => step'[b[1]] = step[b[1]]
SameRun(b) == /\ b \in wire' <=> b \in wire
              /\ b \in output' <=> b \in output
              /\ remote'[b].state = remote[b].state
              /\ remote'[b].seq = remote[b].seq
              /\ remote'[b].terminal = remote[b].terminal
Same(b) == SameRow(b) /\ SamePost(b) /\ SameRun(b) /\ worker'[b] = worker[b]

LEMMA Unconcerned ==
  ASSUME NEW b \in Attempts, Local(b), Same(b)
  PROVE  Local(b)'
<1> USE DEF Same, SameRow, SamePost, SameRun
<1>1. Unborn(b)' /\ Claimed(b)'
  BY DEF Local, Unborn, Claimed, Untouched
<1>2. Posted(b)'
  BY DEF Local, Posted
<1>3. Seen(b)'
  BY DEF Local, Seen, Untouched
<1>4. Ran(b)'
  BY DEF Local, Ran, E!Over
<1>5. Follows(b)'
  BY DEF Local, Follows, Known, E!Known, E!Running, E!Over
<1> QED BY <1>1, <1>2, <1>3, <1>4, <1>5 DEF Local

\* The rows of jobs and attempts whose fields other than these change.
Quiet == (\A j \in Jobs : SameJob(j)) /\ (\A b \in Attempts : SameRow(b))

LEMMA QuietRows ==
  ASSUME TypeOK, NotStarted,
         \/ UNCHANGED <<job, att>>
         \/ \E j \in Jobs : Capture(j) \/ CloseVram(j) \/ RequestCancel(j)
         \/ \E a \in Attempts :
              \/ att' = Acknowledged(a) /\ job' = job
              \/ job' = Interrupted(a) /\ att' = att
         \/ job' = Recovered /\ att' = att
  PROVE  Quiet
<1>1. ASSUME \A j \in Jobs : SameJob(j),
             \A b \in Attempts : /\ att'[b].seq = att[b].seq
                                 /\ att'[b].terminal = att[b].terminal
      PROVE  Quiet
  BY <1>1 DEF Quiet, SameJob, SameRow, Live, Attempts
<1>2. ASSUME att' = att, \A j \in Jobs : SameJob(j) PROVE Quiet
  BY <1>1, <1>2
<1>3. ASSUME job' = job,
             \A b \in Attempts : /\ att'[b].seq = att[b].seq
                                 /\ att'[b].terminal = att[b].terminal
      PROVE  Quiet
  BY <1>1, <1>3 DEF SameJob, Reserved
<1>4. CASE UNCHANGED <<job, att>>
  BY <1>3, <1>4
<1>5. ASSUME NEW j \in Jobs, Capture(j) PROVE Quiet
  BY <1>3, <1>5 DEF Capture, TypeOK, Attempt
<1>6. ASSUME NEW j \in Jobs, CloseVram(j) PROVE Quiet
  BY <1>2, <1>6 DEF CloseVram, SameJob, Reserved, TypeOK, Job
<1>7. ASSUME NEW j \in Jobs, RequestCancel(j) PROVE Quiet
  <2>1. /\ att' = att
        /\ \A i \in Jobs \ {j} : job'[i] = job[i]
        /\ job'[j].attempt = job[j].attempt
        /\ job[j].attempt # 0 => job'[j].status = job[j].status
        /\ job[j].attempt = 0 => job'[j].status = "cancelled"
    <3> DEFINE jrow == [job[j] EXCEPT !.cancel = TRUE,
                          !.status = IF job[j].attempt = 0 THEN "cancelled"
                                     ELSE @]
    <3>1. job' = [job EXCEPT ![j] = jrow] /\ att' = att
      BY <1>7 DEF RequestCancel
    <3>2. /\ jrow.attempt = job[j].attempt
          /\ jrow.status = IF job[j].attempt = 0 THEN "cancelled"
                           ELSE job[j].status
      BY DEF TypeOK, Job
    <3>3. job'[j] = jrow /\ \A i \in Jobs \ {j} : job'[i] = job[i]
      BY <3>1 DEF TypeOK
    <3> QED BY <3>1, <3>2, <3>3
  <2>2. \A i \in Jobs : SameJob(i)
    BY <2>1 DEF SameJob, Reserved, NotStarted
  <2> QED BY <1>2, <2>1, <2>2
<1>8. ASSUME NEW a \in Attempts, att' = Acknowledged(a), job' = job PROVE Quiet
  BY <1>3, <1>8 DEF Acknowledged, TypeOK, Attempt
<1>9. ASSUME NEW a \in Attempts, job' = Interrupted(a), att' = att PROVE Quiet
  BY <1>2, <1>9 DEF Interrupted, Live, SameJob, Reserved, TypeOK, Job, Attempts
<1>10. CASE job' = Recovered /\ att' = att
  BY <1>2, <1>10 DEF Recovered, SameJob, Reserved, TypeOK, Job
<1> QED BY <1>4, <1>5, <1>6, <1>7, <1>8, <1>9, <1>10

\* A step of the main loop for j concerns the current attempt of j only.
LEMMA OneSender ==
  ASSUME TypeOK, Quiet, NEW j \in Jobs, NEW s, step' = [step EXCEPT ![j] = s],
         \A b \in Attempts \ {Current(j)} : b \in wire' <=> b \in wire,
         UNCHANGED <<remote, output, worker>>
  PROVE  \A b \in Attempts \ {Current(j)} : Same(b)
<1> TAKE b \in Attempts \ {Current(j)}
<1>1. b[1] \in Jobs /\ job'[b[1]].attempt = job[b[1]].attempt
  BY DEF Quiet, SameJob, Attempts
<1>2. b[1] # j => step'[b[1]] = step[b[1]]
  BY <1>1 DEF TypeOK
<1>3. ~(b[1] = j /\ b = Current(b[1]))
  BY DEF Current
<1>4. SamePost(b)
  BY <1>1, <1>2, <1>3 DEF SamePost, Posting, Current
<1> QED BY <1>4 DEF Same, SameRun, Quiet

\* A step of the observer of a concerns a only.
LEMMA OneObserver ==
  ASSUME TypeOK, Quiet, NEW a \in Attempts, NEW w,
         worker' = [worker EXCEPT ![a] = w],
         \A b \in Attempts \ {a} : b \in wire' <=> b \in wire,
         UNCHANGED <<remote, output, step>>
  PROVE  /\ \A b \in Attempts \ {a} : Same(b)
         /\ SameRow(a) /\ SamePost(a) /\ worker'[a] = w
<1>1. \A b \in Attempts : SamePost(b)
  BY DEF SamePost, Posting, Current, Quiet, SameJob, Attempts
<1>2. \A b \in Attempts \ {a} : worker'[b] = worker[b]
  BY DEF TypeOK
<1>3. worker'[a] = w
  BY DEF TypeOK
<1> QED BY <1>1, <1>2, <1>3 DEF Same, SameRun, Quiet

\* A step of the engine that has a concerns a only.
LEMMA OneRun ==
  ASSUME TypeOK, UNCHANGED <<job, att, step, worker>>, NEW a \in Attempts,
         \A b \in Attempts \ {a} : SameRun(b)
  PROVE  /\ \A b \in Attempts \ {a} : Same(b)
         /\ SameRow(a) /\ SamePost(a)
<1>1. \A b \in Attempts : SamePost(b) /\ SameRow(b)
  BY DEF SamePost, Posting, Current, SameRow, Live, Reserved
<1> QED BY <1>1 DEF Same

\* A step that starts nothing keeps what is said of the card.
LEMMA Cooler ==
  ASSUME Card,
         \A b \in Attempts : Gpu(b[1]) /\ Hot(b)' => Hot(b),
         \A i \in Jobs : Gpu(i) => (Reserved(i)' => Reserved(i)),
         \A i \in Jobs : Gpu(i) => job'[i].attempt = job[i].attempt,
         \A i \in Jobs :
           Gpu(i) /\ step'[i] = "screened" => step[i] = "screened"
  PROVE  Card'
<1>1. OneHot'
  BY DEF Card, OneHot, Gpu
<1>2. Held'
  BY DEF Card, Held, Gpu, Current
<1>3. Screened'
  BY DEF Card, Screened, Cold, Gpu
<1> QED BY <1>1, <1>2, <1>3 DEF Card

\* So does one that leaves the rows and heats nothing.
LEMMA StaysCool ==
  ASSUME Card, Quiet, step' = step,
         \A b \in Attempts : Hot(b)' => Hot(b)
  PROVE  Card'
<1>1. \A i \in Jobs : /\ Reserved(i)' => Reserved(i)
                      /\ job'[i].attempt = job[i].attempt
  BY DEF Quiet, SameJob
<1> QED BY <1>1, Cooler

-----------------------------------------------------------------------------
(* Observers.                                                              *)

\* What an observer that runs tells of its attempt.
LEMMA Observed ==
  ASSUME MemoryInv, NEW a \in Attempts, worker[a].pc # "off"
  PROVE  /\ ~Posting(a) /\ ~(a[2] > job[a[1]].attempt)
         /\ a \in wire => worker[a].pc = "sent" /\ remote[a].state = "absent"
BY DEF MemoryInv, Local, Unborn, Claimed, Posted

\* An observer that moves without writing rows that matter: only what it has
\* seen is to be shown.
LEMMA ObserverMoves ==
  ASSUME TypeOK, MemoryInv, Quiet, NEW a \in Attempts, NEW w,
         worker' = [worker EXCEPT ![a] = w],
         UNCHANGED <<remote, output, step>>,
         ~Posting(a), ~(a[2] > job[a[1]].attempt), Seen(a)',
         wire' = wire \ {a}
  PROVE  MemoryInv'
<1>1. /\ \A b \in Attempts \ {a} : Same(b)
      /\ SameRow(a) /\ SamePost(a) /\ worker'[a] = w
  BY OneObserver
<1>2. \A b \in Attempts \ {a} : Local(b)'
  BY <1>1, Unconcerned DEF MemoryInv
<1>3. Local(a)
  BY DEF MemoryInv
<1>4. Local(a)'
  <2>1. Unborn(a)' /\ Claimed(a)' /\ Posted(a)'
    BY <1>1 DEF SamePost, Unborn, Claimed, Posted
  <2>2. Ran(a)'
    BY <1>1, <1>3 DEF SameRow, Local, Ran, E!Over
  <2>3. Follows(a)'
    BY <1>1, <1>3 DEF SameRow, Local, Follows, Known, E!Known, E!Running,
                      E!Over
  <2> QED BY <2>1, <2>2, <2>3 DEF Local
<1>5. Card'
  BY StaysCool DEF MemoryInv, Hot
<1>6. OneAtATime'
  BY DEF MemoryInv, OneAtATime, Quiet, SameJob
<1> QED BY <1>2, <1>4, <1>5, <1>6 DEF MemoryInv

\* The same for one that goes back to the start of its round or stops.
LEMMA ObserverRests ==
  ASSUME TypeOK, MemoryInv, Quiet, NEW a \in Attempts,
         NEW pc \in {"off", "poll"}, GoTo(a, pc), worker[a].pc # "off",
         UNCHANGED <<remote, output, step>>, wire' = wire \ {a}
  PROVE  MemoryInv'
<1> DEFINE w == [NoWorker EXCEPT !.pc = pc,
                                 !.resent = pc # "off" /\ worker[a].resent]
<1>1. worker' = [worker EXCEPT ![a] = w] /\ w.pc = pc
  BY DEF GoTo, NoWorker
<1> HIDE DEF w
<1>2. worker'[a].pc = pc
  BY <1>1 DEF TypeOK
<1>3. Seen(a)'
  BY <1>2 DEF Seen
<1> QED BY <1>1, <1>3, Observed, ObserverMoves

\* An attempt whose row is open and that was reserved is live.
LEMMA OpenIsLive ==
  ASSUME TypeOK, AttemptChain, JobFollowsAttempt, NEW a \in Attempts,
         att[a].terminal = "none", ~(a[2] > job[a[1]].attempt)
  PROVE  Live(a)
<1>1. /\ a[1] \in Jobs /\ a[2] \in Ordinals /\ a = <<a[1], a[2]>>
      /\ job[a[1]].attempt \in Nat /\ a[2] \in Nat /\ a[2] >= 1
  BY QueueAssumption DEF Attempts, Ordinals, TypeOK, Job
<1>2. ~(a[2] < job[a[1]].attempt)
  BY <1>1 DEF AttemptChain
<1>3. job[a[1]].attempt = a[2] /\ job[a[1]].attempt > 0
  BY <1>1, <1>2
<1>4. Agree(job[a[1]], att[Current(a[1])].terminal)
  BY <1>1, <1>3, AgreeEverywhere
<1> QED BY <1>1, <1>3, <1>4 DEF Agree, Live, Reserved, Current

\* The rounds of an observer that end no attempt.
LEMMA ObserverLooks ==
  ASSUME RowsInv, MemoryInv, NEW a \in Attempts,
         \/ Spawn(a) \/ Retire(a) \/ Ask(a) \/ Answer(a) \/ Suspend(a)
         \/ Repeat(a) \/ PrepareResend(a) \/ ResendRefused(a)
         \/ ResendAcknowledged(a) \/ StreamEnds(a) \/ ObserverFails(a)
  PROVE  MemoryInv'
<1> USE DEF RowsInv, TypeInv
<1>0. TypeOK /\ NotStarted /\ Local(a) /\ worker[a] \in Worker
  BY DEF MemoryInv, TypeOK
<1>1. job' = Interrupted(a) /\ att' = att => Quiet
  BY QuietRows
<1>2. UNCHANGED <<job, att>> => Quiet
  BY QuietRows
<1>3. a \notin wire /\ wire' = wire => wire' = wire \ {a}
  OBVIOUS
<1>4. CASE Spawn(a)
  <2>0. /\ a[1] \in Jobs /\ step[a[1]] = "idle"
        /\ job[a[1]].attempt = a[2] /\ a[2] \in Nat
    BY <1>4, QueueAssumption DEF Spawn, MainIdle, Live, Attempts, Ordinals
  <2>1. /\ Quiet /\ wire' = wire /\ ~Posting(a) /\ ~(a[2] > job[a[1]].attempt)
        /\ worker[a].pc = "off"
        /\ worker' = [worker EXCEPT ![a] = [NoWorker EXCEPT !.pc = "poll"]]
        /\ UNCHANGED <<remote, output, step>>
    BY <1>2, <1>4, <2>0 DEF Spawn, Posting, Sending, durable
  <2>2. a \notin wire
    BY <1>0, <2>1 DEF Local, Posted
  <2>3. worker'[a].pc = "poll"
    BY <1>0, <2>1 DEF TypeOK, NoWorker
  <2>4. Seen(a)'
    BY <2>3 DEF Seen
  <2> QED BY <1>0, <1>3, <2>1, <2>2, <2>4, ObserverMoves
<1>5. CASE \/ Retire(a) \/ Suspend(a) \/ ResendRefused(a)
           \/ StreamEnds(a) \/ ObserverFails(a)
  <2>1. /\ Quiet /\ worker[a].pc # "off"
        /\ UNCHANGED <<remote, output, step>>
        /\ \E pc \in {"off", "poll"} : GoTo(a, pc)
    BY <1>1, <1>2, <1>5
       DEF Retire, Suspend, ResendRefused, StreamEnds, ObserverFails,
           MayRepeat, durable
  <2>2. wire' = wire \ {a}
    <3>1. CASE ObserverFails(a)
      BY <3>1 DEF ObserverFails
    <3>2. CASE Retire(a) \/ Suspend(a) \/ ResendRefused(a) \/ StreamEnds(a)
      <4>1. wire' = wire /\ worker[a].pc # "sent"
        BY <3>2 DEF Retire, Suspend, ResendRefused, StreamEnds, MayRepeat
      <4> QED BY <1>3, <2>1, <4>1, Observed
    <3> QED BY <1>5, <3>1, <3>2
  <2> QED BY <1>0, <2>1, <2>2, ObserverRests
<1>6. ASSUME NEW w, worker' = [worker EXCEPT ![a] = w], Quiet,
             UNCHANGED <<remote, output, step, wire>>,
             worker[a].pc # "off", a \notin wire, Live(a),
             w.pc = "asked" /\ w.idle =>
               remote[a].state \in {"absent", "ended"},
             w.pc = "absent" /\ w.idle => remote[a].state = "absent",
             w.pc \in {"safe", "resend"} => Untouched(a) /\ att[a].seq = 0,
             w.pc = "stream" => remote[a].state # "validating"
      PROVE  MemoryInv'
  <2>1. worker'[a] = w /\ (Live(a)' <=> Live(a)) /\ att'[a].seq = att[a].seq
    BY <1>0, <1>6 DEF TypeOK, Quiet, SameRow
  <2>2. Seen(a)'
    BY <1>6, <2>1 DEF Seen, Untouched
  <2> QED BY <1>0, <1>3, <1>6, <2>2, Observed, ObserverMoves
<1>7. CASE Ask(a)
  <2> DEFINE w == [worker[a] EXCEPT !.pc = "asked",
                                    !.cancelled = job[a[1]].cancel,
                                    !.idle = EngineIdle(EngineOf[a[1]])]
  <2>1. /\ worker' = [worker EXCEPT ![a] = w]
        /\ UNCHANGED <<remote, output, step, wire, job, att>>
        /\ worker[a].pc = "poll" /\ att[a].terminal = "none"
    BY <1>7 DEF Ask, durable
  <2>2. a \notin wire /\ ~(a[2] > job[a[1]].attempt)
    BY <2>1, Observed
  <2>3. Live(a)
    BY <1>0, <2>1, <2>2, OpenIsLive
  <2>4. w.pc = "asked" /\ w.idle = EngineIdle(EngineOf[a[1]])
    BY <1>0 DEF Worker
  <2>5. EngineIdle(EngineOf[a[1]]) => remote[a].state \in {"absent", "ended"}
    BY DEF EngineIdle, E!Idle, Home
  <2> HIDE DEF w
  <2>6. w.idle => remote[a].state \in {"absent", "ended"}
    BY <2>4, <2>5
  <2> QED BY <1>2, <1>6, <2>1, <2>2, <2>3, <2>4, <2>6
<1>8. CASE Answer(a)
  <2>1. /\ worker[a].pc = "asked"
        /\ UNCHANGED <<att, remote, output, step, wire>>
    BY <1>8 DEF Answer
  <2>2. a \notin wire /\ Live(a)
    BY <1>0, <2>1, Observed DEF Local, Seen
  <2>3. CASE ~Known(a)
    <3> DEFINE w == [worker[a] EXCEPT !.pc = "absent"]
    <3>1. worker' = [worker EXCEPT ![a] = w] /\ job' = job
      BY <1>8, <2>3 DEF Answer
    <3>2. w.pc = "absent" /\ w.idle = worker[a].idle
      BY <1>0 DEF Worker
    <3>3. worker[a].idle => remote[a].state = "absent"
      BY <1>0, <2>1, <2>3 DEF Local, Seen, Known, E!Known, E!Over
    <3> HIDE DEF w
    <3>4. w.idle => remote[a].state = "absent"
      BY <3>2, <3>3
    <3> QED BY <1>2, <1>6, <2>1, <2>2, <3>1, <3>2, <3>4
  <2>4. CASE Known(a) /\ remote[a].seq < att[a].seq
    <3>1. job' = Interrupted(a) /\ GoTo(a, "off")
      BY <1>8, <2>4 DEF Answer
    <3> QED BY <1>0, <1>1, <1>3, <2>1, <2>2, <3>1, ObserverRests
  <2>5. CASE Known(a) /\ ~(remote[a].seq < att[a].seq)
    <3> DEFINE w == [NoWorker EXCEPT !.pc = "stream",
                       !.resent = "stream" # "off" /\ worker[a].resent]
    <3>1. worker' = [worker EXCEPT ![a] = w] /\ job' = job
      BY <1>8, <2>5 DEF Answer, GoTo
    <3>2. w.pc = "stream"
      BY DEF NoWorker
    <3>3. remote[a].state # "validating"
      BY <2>5 DEF Known, E!Known, E!Running, E!Over
    <3> HIDE DEF w
    <3> QED BY <1>2, <1>6, <2>1, <2>2, <3>1, <3>2, <3>3
  <2> QED BY <2>3, <2>4, <2>5
<1>9. CASE Repeat(a)
  <2> DEFINE w == [worker[a] EXCEPT !.pc = "safe"]
  <2>1. /\ worker' = [worker EXCEPT ![a] = w]
        /\ UNCHANGED <<remote, output, step, wire, job, att>>
        /\ worker[a].pc = "absent" /\ worker[a].idle
        /\ att[a].seq = 0 /\ a \notin output
    BY <1>9 DEF Repeat, MayRepeat, SafeAbsent, durable
  <2>2. a \notin wire /\ Live(a) /\ remote[a].state = "absent"
    BY <1>0, <2>1, Observed DEF Local, Seen
  <2>3. w.pc = "safe"
    BY <1>0 DEF Worker
  <2> HIDE DEF w
  <2> QED BY <1>2, <1>6, <2>1, <2>2, <2>3 DEF Untouched
<1>10. CASE PrepareResend(a)
  <2> DEFINE w == [worker[a] EXCEPT !.pc = "resend", !.resent = TRUE]
  <2>1. /\ worker' = [worker EXCEPT ![a] = w]
        /\ UNCHANGED <<remote, output, step, wire, job, att>>
        /\ worker[a].pc = "safe"
    BY <1>10 DEF PrepareResend, durable
  <2>2. Live(a) /\ Untouched(a) /\ att[a].seq = 0
    BY <1>0, <2>1 DEF Local, Seen
  <2>3. w.pc = "resend"
    BY <1>0 DEF Worker
  <2> HIDE DEF w
  <2> QED BY <1>2, <1>6, <2>1, <2>2, <2>3 DEF Untouched
<1>11. CASE ResendAcknowledged(a)
  <2> DEFINE w == [NoWorker EXCEPT !.pc = "stream",
                     !.resent = "stream" # "off" /\ worker[a].resent]
  <2>1. /\ worker' = [worker EXCEPT ![a] = w]
        /\ UNCHANGED <<remote, output, step, wire, job>>
        /\ worker[a].pc = "sent" /\ Known(a) /\ att' = Acknowledged(a)
    BY <1>11 DEF ResendAcknowledged, GoTo
  <2>2. remote[a].state \notin {"absent", "validating"}
    BY <2>1 DEF Known, E!Known, E!Running, E!Over
  <2>3. a \notin wire /\ Live(a)
    BY <1>0, <2>1, <2>2, Observed DEF Local, Seen
  <2>4. Quiet
    BY <1>0, <2>1, QuietRows
  <2>5. w.pc = "stream"
    BY DEF NoWorker
  <2> HIDE DEF w
  <2> QED BY <1>6, <2>1, <2>2, <2>3, <2>4, <2>5
<1> QED BY <1>4, <1>5, <1>7, <1>8, <1>9, <1>10, <1>11

\* Sending an attempt again heats the card for its own job only.
LEMMA ResendsOnce ==
  ASSUME RowsInv, MemoryInv, NEW a \in Attempts, Resend(a)
  PROVE  MemoryInv'
<1> USE DEF RowsInv, TypeInv
<1>0. /\ TypeOK /\ NotStarted /\ Local(a)
      /\ worker[a].pc = "resend"
      /\ UNCHANGED <<job, att, remote, output, step>>
  BY DEF MemoryInv, Resend, durable
<1>1. Quiet
  BY <1>0, QuietRows
<1>2. /\ Untouched(a) /\ att[a].seq = 0 /\ Live(a)
      /\ ~Posting(a) /\ ~(a[2] > job[a[1]].attempt)
  BY <1>0, Observed DEF Local, Seen
<1>3. CASE ~(Live(a) /\ ~job[a[1]].cancel)
  <2>1. GoTo(a, "poll") /\ wire' = wire
    BY <1>3 DEF Resend
  <2>2. wire' = wire \ {a}
    BY <1>2, <2>1 DEF Untouched
  <2> QED BY <1>0, <1>1, <2>1, <2>2, ObserverRests
<1>4. CASE Live(a) /\ ~job[a[1]].cancel
  <2> DEFINE w == [NoWorker EXCEPT !.pc = "sent",
                     !.resent = "sent" # "off" /\ worker[a].resent]
  <2>1. worker' = [worker EXCEPT ![a] = w] /\ wire' = wire \cup {a}
    BY <1>4 DEF Resend, GoTo
  <2>2. w.pc = "sent"
    BY DEF NoWorker
  <2> HIDE DEF w
  <2>3. \A b \in Attempts \ {a} : b \in wire' <=> b \in wire
    BY <2>1
  <2>4. /\ \A b \in Attempts \ {a} : Same(b)
        /\ SameRow(a) /\ SamePost(a) /\ worker'[a] = w
    BY <1>0, <1>1, <2>1, <2>3, OneObserver
  <2>5. \A b \in Attempts \ {a} : Local(b)'
    BY <2>4, Unconcerned DEF MemoryInv
  <2>6. Local(a)'
    <3>1. Unborn(a)' /\ Claimed(a)'
      BY <1>2, <2>4 DEF SamePost, Unborn, Claimed
    <3>2. Posted(a)' /\ Seen(a)'
      BY <1>0, <1>2, <2>2, <2>4 DEF SameRow, Posted, Seen, Untouched
    <3>3. Ran(a)' /\ Follows(a)'
      BY <1>0, <2>4 DEF SameRow, Local, Ran, Follows, Known, E!Known,
                        E!Running, E!Over
    <3> QED BY <3>1, <3>2, <3>3 DEF Local
  <2>7. OneAtATime'
    BY <1>0 DEF MemoryInv, OneAtATime
  <2>8. Card'
    <3>1. \A b \in Attempts : Hot(b)' => b = a \/ Hot(b)
      BY <1>0, <2>1 DEF Hot
    <3>2. CASE ~Gpu(a[1])
      <4>1. \A b \in Attempts : Gpu(b[1]) /\ Hot(b)' => Hot(b)
        BY <3>1, <3>2
      <4> QED BY <1>0, <1>1, <4>1, Cooler DEF MemoryInv, Quiet, SameJob
    <3>3. CASE Gpu(a[1])
      <4>1. a[1] \in Jobs /\ Reserved(a[1]) /\ a = Current(a[1])
        BY <1>2 DEF Live, Attempts, Current
      <4>2. \A b \in Attempts : Gpu(b[1]) /\ Hot(b) => b = a
        BY <3>3, <4>1 DEF MemoryInv, Card, Held
      <4>3. \A i \in Jobs : Gpu(i) /\ Reserved(i) => i = a[1]
        BY <1>0, <3>3, <4>1 DEF LaneLimits, Gpu, Occupied
      <4>4. OneHot'
        BY <3>1, <4>2 DEF OneHot, Gpu
      <4>5. Held'
        BY <1>0, <3>1, <4>1, <4>2, <4>3 DEF Held, Gpu, Reserved, Current
      <4>6. Screened'
        <5>1. \A j \in Jobs : Gpu(j) => step[j] # "screened"
          BY <3>3, <4>1 DEF MemoryInv, Card, Screened, Cold
        <5> QED BY <1>0, <5>1 DEF Screened, Gpu
      <4> QED BY <4>4, <4>5, <4>6 DEF Card
    <3> QED BY <3>2, <3>3
  <2> QED BY <2>5, <2>6, <2>7, <2>8 DEF MemoryInv
<1> QED BY <1>3, <1>4

\* What the transaction of a terminal event changes of its job and its row.
LEMMA EndsOne ==
  ASSUME TypeOK, NEW a \in Attempts, NEW t \in Terminal, AcceptTerminal(a, t)
  PROVE  /\ \A b \in Attempts \ {a} : SameRow(b)
         /\ Live(a) /\ ~Live(a)' /\ att'[a].terminal = t
         /\ \A i \in Jobs : /\ job'[i].attempt = job[i].attempt
                            /\ Reserved(i)' => Reserved(i)
<1> DEFINE s == IF job[a[1]].cancel THEN "cancelled" ELSE EndStatus(t)
           row == [att[a] EXCEPT !.status = EndStatus(t), !.terminal = t,
                                 !.seq = @ + 1]
<1>1. /\ job' = [job EXCEPT ![a[1]] = [job[a[1]] EXCEPT !.status = s]]
      /\ att' = [att EXCEPT ![a] = row]
      /\ Live(a) /\ a[1] \in Jobs
  BY DEF AcceptTerminal, Attempts
<1>2. s \in Ended /\ row.terminal = t /\ t # "none"
  BY DEF EndStatus, Ended, TypeOK, Attempt, Terminal, E!Terminal
<1> HIDE DEF s, row
<1>3. /\ att'[a] = row /\ \A b \in Attempts \ {a} : att'[b] = att[b]
      /\ \A i \in Jobs \ {a[1]} : job'[i] = job[i]
      /\ job'[a[1]].attempt = job[a[1]].attempt /\ job'[a[1]].status = s
  BY <1>1 DEF TypeOK, Job
<1>4. \A b \in Attempts \ {a} : Live(b)' <=> Live(b)
  <2> TAKE b \in Attempts \ {a}
  <2>1. CASE b[1] = a[1]
    <3>1. b[2] # a[2]
      BY <2>1 DEF Attempts
    <3> QED BY <1>1, <1>3, <2>1, <3>1 DEF Live
  <2>2. CASE b[1] # a[1]
    BY <1>3, <2>2 DEF Live, Reserved, Attempts
  <2> QED BY <2>1, <2>2
<1>5. Reserved(a[1]) /\ ~Live(a)'
  BY <1>1, <1>2, <1>3 DEF Live, Reserved, Ended
<1> QED BY <1>1, <1>2, <1>3, <1>4, <1>5 DEF SameRow, Reserved

\* An attempt ends: nobody observes, sends or runs it for its job any more.
LEMMA EndsAttempt ==
  ASSUME RowsInv, MemoryInv, NEW a \in Attempts, NEW t \in Terminal,
         AcceptTerminal(a, t), NEW pc \in {"off", "poll"}, GoTo(a, pc),
         UNCHANGED <<remote, output, step, wire>>,
         worker[a].pc \notin {"off", "sent"},
         t = "done" => E!Over(a) /\ remote[a].terminal = "done"
  PROVE  MemoryInv'
<1> DEFINE w == [NoWorker EXCEPT !.pc = pc,
                                 !.resent = pc # "off" /\ worker[a].resent]
<1>0. TypeOK /\ Local(a)
  BY DEF RowsInv, TypeInv, MemoryInv
<1>1. worker' = [worker EXCEPT ![a] = w] /\ w.pc = pc
  BY DEF GoTo, NoWorker
<1> HIDE DEF w
<1>2. worker'[a].pc = pc /\ \A b \in Attempts \ {a} : worker'[b] = worker[b]
  BY <1>0, <1>1 DEF TypeOK
<1>3. /\ \A b \in Attempts \ {a} : SameRow(b)
      /\ ~Live(a)' /\ att'[a].terminal = t
      /\ \A i \in Jobs : /\ job'[i].attempt = job[i].attempt
                         /\ Reserved(i)' => Reserved(i)
  BY <1>0, EndsOne
<1>4. \A b \in Attempts : SamePost(b) /\ SameRun(b)
  BY <1>3 DEF SamePost, SameRun, Posting, Current, Attempts
<1>5. \A b \in Attempts \ {a} : Local(b)'
  BY <1>2, <1>3, <1>4, Unconcerned DEF MemoryInv, Same
<1>6. a \notin wire /\ ~Posting(a) /\ ~(a[2] > job[a[1]].attempt)
  BY Observed
<1>7. Local(a)'
  <2>1. Unborn(a)' /\ Claimed(a)' /\ Posted(a)'
    BY <1>4, <1>6 DEF SamePost, Unborn, Claimed, Posted
  <2>2. Seen(a)' /\ Follows(a)'
    BY <1>2, <1>3 DEF Seen, Follows
  <2>3. Ran(a)'
    BY <1>0, <1>3 DEF Local, Ran, E!Over
  <2> QED BY <2>1, <2>2, <2>3 DEF Local
<1>8. Card'
  BY <1>3, Cooler DEF MemoryInv, Hot
<1>9. OneAtATime'
  BY <1>3 DEF MemoryInv, OneAtATime
<1> QED BY <1>5, <1>7, <1>8, <1>9 DEF MemoryInv

\* The cursor moves within what the engine has.
LEMMA CursorMoves ==
  ASSUME RowsInv, MemoryInv, NEW a \in Attempts, AcceptProgress(a)
  PROVE  MemoryInv'
<1>0. TypeOK /\ Local(a)
  BY DEF RowsInv, TypeInv, MemoryInv
<1>1. /\ worker[a].pc = "stream" /\ att[a].seq < remote[a].seq
      /\ att' = [att EXCEPT ![a] = [att[a] EXCEPT !.seq = @ + 1]]
      /\ UNCHANGED <<job, remote, output, step, wire, worker>>
  BY DEF AcceptProgress, server
<1>2. /\ att'[a].seq = att[a].seq + 1 /\ att'[a].terminal = att[a].terminal
      /\ \A b \in Attempts \ {a} : att'[b] = att[b]
      /\ att[a].seq \in Nat /\ remote[a].seq \in Nat
  BY <1>0, <1>1 DEF TypeOK, Attempt, E!EngineTypeOK, E!Remote
<1>3. /\ \A b \in Attempts :
           (Live(b)' <=> Live(b)) /\ SamePost(b) /\ SameRun(b)
      /\ \A b \in Attempts \ {a} : SameRow(b)
  BY <1>1, <1>2
     DEF SameRow, SamePost, SameRun, Live, Reserved, Posting, Current
<1>4. \A b \in Attempts \ {a} : Local(b)'
  BY <1>1, <1>3, Unconcerned DEF MemoryInv, Same
<1>5. a \notin wire /\ ~Posting(a) /\ ~(a[2] > job[a[1]].attempt)
  BY <1>1, Observed
<1>6. Local(a)'
  <2>1. Unborn(a)' /\ Claimed(a)' /\ Posted(a)'
    BY <1>1, <1>3, <1>5 DEF SamePost, Unborn, Claimed, Posted
  <2>2. Seen(a)' /\ Ran(a)'
    BY <1>0, <1>1, <1>2, <1>3 DEF Local, Seen, Ran, E!Over
  <2>3. Follows(a)'
    <3>1. remote[a].state # "validating"
      BY <1>0, <1>1 DEF Local, Seen
    <3> QED BY <1>1, <1>2, <3>1 DEF Follows
  <2> QED BY <2>1, <2>2, <2>3 DEF Local
<1>7. Card'
  BY <1>1, Cooler DEF MemoryInv, Hot, Reserved
<1>8. OneAtATime'
  BY <1>1 DEF MemoryInv, OneAtATime
<1> QED BY <1>4, <1>6, <1>7, <1>8 DEF MemoryInv

LEMMA ObserverSteps ==
  ASSUME RowsInv, MemoryInv, NEW a \in Attempts, Observer(a)
  PROVE  MemoryInv'
<1>1. CASE AcceptLost(a)
  <2>1. /\ AcceptTerminal(a, "retryable") /\ GoTo(a, "off")
        /\ UNCHANGED <<remote, output, step, wire>>
        /\ worker[a].pc = "absent" /\ "retryable" \in Terminal
    BY <1>1 DEF AcceptLost, Terminal, E!Terminal
  <2> QED BY <2>1, EndsAttempt
<1>2. CASE AcceptEnd(a)
  <2>1. /\ AcceptTerminal(a, remote[a].terminal) /\ E!Over(a)
        /\ UNCHANGED <<remote, output, step, wire>>
        /\ worker[a].pc = "stream"
    BY <1>2 DEF AcceptEnd, RowsInv, TypeInv, EngineEnds
  <2>2. remote[a].terminal \in Terminal
    BY <1>2 DEF AcceptEnd, E!HasTerminal, RowsInv, TypeInv, TypeOK,
                E!EngineTypeOK, E!Remote, Terminal
  <2>3. PICK pc \in {"off", "poll"} : GoTo(a, pc)
    BY <1>2 DEF AcceptEnd
  <2> QED BY <2>1, <2>2, <2>3, EndsAttempt
<1> QED
  BY <1>1, <1>2, ObserverLooks, ResendsOnce, CursorMoves DEF Observer

-----------------------------------------------------------------------------
(* Engines and the network.                                                *)

\* A step of the engine of a that was hot before: what is to be shown is
\* about a only.
LEMMA EngineMoves ==
  ASSUME TypeOK, MemoryInv, NEW a \in Attempts,
         UNCHANGED <<job, att, step, worker>>,
         \A b \in Attempts \ {a} : SameRun(b), Hot(a),
         Posted(a)', Seen(a)', Ran(a)', Follows(a)'
  PROVE  MemoryInv'
<1>1. /\ \A b \in Attempts \ {a} : Same(b)
      /\ SameRow(a) /\ SamePost(a) /\ worker'[a] = worker[a]
  BY OneRun
<1>2. \A b \in Attempts \ {a} : Local(b)'
  BY <1>1, Unconcerned DEF MemoryInv
<1>3. ~Untouched(a) /\ Local(a)
  BY DEF Hot, Untouched, MemoryInv
<1>4. Unborn(a)' /\ Claimed(a)'
  <2>1. ~(a[2] > job[a[1]].attempt)
    BY <1>3 DEF Local, Unborn
  <2>2. Posting(a) => step[a[1]] = "sent"
    BY <1>3 DEF Local, Claimed
  <2> QED BY <1>1, <1>3, <2>1, <2>2
          DEF SamePost, SameRow, Local, Unborn, Claimed
<1>5. Card'
  <2>1. \A b \in Attempts : Hot(b)' => Hot(b)
    BY DEF Hot, SameRun
  <2> QED BY <2>1, Cooler DEF MemoryInv, Reserved
<1>6. OneAtATime'
  BY DEF MemoryInv, OneAtATime
<1> QED BY <1>2, <1>4, <1>5, <1>6 DEF MemoryInv, Local

\* A run advances: its directory is there from start to success.
LEMMA RunAdvances ==
  ASSUME TypeOK, EngineEnds, MemoryInv, NEW a \in Attempts,
         Engine(a) \/ EngineFails(a)
  PROVE  MemoryInv'
<1> DEFINE r == remote[a]
<1>0. /\ UNCHANGED <<job, att, step, worker, wire>>
      /\ Local(a) /\ r \in E!Remote /\ att[a].seq \in Nat
      /\ remote \in [Attempts -> E!Remote]
  BY DEF Engine, EngineFails, durable, server, MemoryInv, TypeOK,
         E!EngineTypeOK, Attempt
<1> USE DEF E!Remote
\* What is to be shown of each step, in terms of the new state of the run.
<1>1. ASSUME r.state \notin {"absent", "ended"},
             \E s : remote' = [remote EXCEPT ![a] = s],
             \A b \in Attempts \ {a} : b \in output' <=> b \in output,
             remote'[a].state # "validating",
             remote'[a].state = "absent" => r.state = "validating",
             Ran(a)',
             Live(a) /\ Known(a)' => att[a].seq <= remote'[a].seq
      PROVE  MemoryInv'
  <2>1. \A b \in Attempts \ {a} : remote'[b] = remote[b]
    BY <1>0, <1>1
  <2>2. \A b \in Attempts \ {a} : SameRun(b)
    BY <1>0, <1>1, <2>1 DEF SameRun
  <2>3. a \notin wire /\ Hot(a)
    BY <1>0, <1>1 DEF Local, Posted, Hot
  <2>4. Posted(a)'
    BY <1>0, <2>3 DEF Posted
  <2>5. Live(a)' <=> Live(a)
    BY <1>0 DEF Live, Reserved
  <2>6. Seen(a)'
    BY <1>0, <1>1, <2>5 DEF Local, Seen, Untouched
  <2>7. Follows(a)'
    BY <1>0, <1>1, <2>5 DEF Follows
  <2> QED BY <1>0, <1>1, <2>2, <2>3, <2>4, <2>6, <2>7, EngineMoves
<1>2. r.state = "validating" /\ Live(a) => att[a].seq = 0
  BY <1>0 DEF Local, Follows
<1>3. r.state \in {"loading", "busy", "sealing", "closing"} /\ Live(a) =>
        att[a].seq <= r.seq
  BY <1>0 DEF Local, Follows, Known, E!Known, E!Running, E!Over
<1>4. Ran(a)
  BY <1>0 DEF Local
<1>5. Known(a)' <=> remote'[a].state \in
        {"loading", "busy", "sealing", "closing", "ended", "jammed"}
  BY DEF Known, E!Known, E!Running, E!Over
<1>6. E!Over(a)' <=> remote'[a].state \in {"closing", "ended", "jammed"}
  BY DEF E!Over
<1>7. E!Over(a) <=> r.state \in {"closing", "ended", "jammed"}
  BY DEF E!Over
<1>8. Ran(a)' <=>
        /\ remote'[a].state \in {"validating", "loading"} => a \notin output'
        /\ remote'[a].state \in {"busy", "sealing"} => a \in output'
        /\ remote'[a].state \in {"closing", "ended", "jammed"}
             /\ remote'[a].terminal = "done" => a \in output'
        /\ remote'[a].state = "jammed" => remote'[a].terminal # "done"
        /\ att[a].terminal = "done" =>
             /\ a \in output'
             /\ remote'[a].state \in {"absent", "closing", "ended"}
             /\ remote'[a].state = "closing" => remote'[a].terminal = "done"
  BY <1>0, <1>6 DEF Ran
<1>9. CASE E!Register(a)
  <2>1. /\ r.state = "validating" /\ output' = output
        /\ remote' = [remote EXCEPT ![a] = [r EXCEPT !.state = "loading"]]
    BY <1>9 DEF E!Register
  <2>2. remote'[a].state = "loading" /\ remote'[a].seq = r.seq
    BY <1>0, <2>1
  <2>3. Ran(a)'
    BY <1>4, <1>8, <2>1, <2>2 DEF Ran
  <2>4. r.seq \in Nat
    BY <1>0
  <2>5. Live(a) => att[a].seq <= remote'[a].seq
    BY <1>2, <2>1, <2>2, <2>4
  <2> QED BY <1>1, <2>1, <2>2, <2>3, <2>5
<1>10. CASE E!Reject(a)
  <2>1. /\ r.state = "validating" /\ output' = output
        /\ remote' = [remote EXCEPT ![a] = E!Unknown]
    BY <1>10 DEF E!Reject
  <2>2. remote'[a].state = "absent"
    BY <1>0, <2>1 DEF E!Unknown
  <2>3. Ran(a)'
    BY <1>4, <1>8, <2>1, <2>2 DEF Ran
  <2> QED BY <1>1, <1>5, <2>1, <2>2, <2>3
<1>11. CASE E!Start(a)
  <2>1. /\ r.state = "loading" /\ output' = output \cup {a}
        /\ remote' = [remote EXCEPT ![a] = [r EXCEPT !.state = "busy"]]
    BY <1>11 DEF E!Start
  <2>2. remote'[a].state = "busy" /\ remote'[a].seq = r.seq
    BY <1>0, <2>1
  <2>3. Ran(a)'
    BY <1>4, <1>8, <2>1, <2>2 DEF Ran
  <2> QED BY <1>1, <1>3, <2>1, <2>2, <2>3
<1>12. CASE E!Emit(a)
  <2>1. /\ r.state \in {"loading", "busy", "sealing"} /\ output' = output
        /\ remote' = [remote EXCEPT ![a] = [r EXCEPT !.seq = @ + 1]]
    BY <1>12 DEF E!Emit, E!Running
  <2>2. remote'[a].state = r.state /\ remote'[a].seq = r.seq + 1
    BY <1>0, <2>1
  <2>3. Ran(a)'
    BY <1>4, <1>8, <2>1, <2>2 DEF Ran
  <2>4. r.seq \in Nat
    BY <1>0
  <2>5. Live(a) => att[a].seq <= remote'[a].seq
    BY <1>0, <1>3, <2>1, <2>2, <2>4
  <2> QED BY <1>1, <2>1, <2>2, <2>3, <2>5
<1>13. CASE E!Seal(a)
  <2>1. /\ r.state = "busy" /\ output' = output
        /\ remote' = [remote EXCEPT ![a] = [r EXCEPT !.state = "sealing"]]
    BY <1>13 DEF E!Seal
  <2>2. remote'[a].state = "sealing" /\ remote'[a].seq = r.seq
    BY <1>0, <2>1
  <2>3. Ran(a)'
    BY <1>4, <1>8, <2>1, <2>2 DEF Ran
  <2> QED BY <1>1, <1>3, <2>1, <2>2, <2>3
<1>14. ASSUME NEW t \in E!Terminal, E!End(a, t) PROVE MemoryInv'
  <2>1. /\ r.state \in {"loading", "busy", "sealing"} /\ output' = output
        /\ t = "done" => r.state = "sealing"
        /\ remote' = [remote EXCEPT ![a] =
                        [r EXCEPT !.state = "closing", !.terminal = t,
                                  !.seq = @ + 1]]
    BY <1>14 DEF E!End, E!Running, E!MayEnd
  <2>2. /\ remote'[a].state = "closing" /\ remote'[a].seq = r.seq + 1
        /\ remote'[a].terminal = t
    BY <1>0, <2>1
  <2>3. Ran(a)'
    BY <1>4, <1>8, <2>1, <2>2 DEF Ran
  <2>4. r.seq \in Nat
    BY <1>0
  <2>5. Live(a) => att[a].seq <= remote'[a].seq
    BY <1>0, <1>3, <2>1, <2>2, <2>4
  <2> QED BY <1>1, <2>1, <2>2, <2>3, <2>5
<1>15. CASE E!Finish(a)
  <2>1. /\ r.state = "closing"
        /\ output' = IF r.terminal = "done" THEN output ELSE output \ {a}
        /\ remote' = [remote EXCEPT ![a] = [r EXCEPT !.state = "ended"]]
    BY <1>15 DEF E!Finish
  <2>2. /\ remote'[a].state = "ended" /\ remote'[a].seq = r.seq
        /\ remote'[a].terminal = r.terminal
    BY <1>0, <2>1
  <2>3. Ran(a)'
    BY <1>4, <1>7, <1>8, <2>1, <2>2 DEF Ran
  <2> QED BY <1>1, <1>3, <2>1, <2>2, <2>3
<1>16. CASE E!Abandon(a)
  <2>1. /\ r.state \in {"loading", "busy", "sealing"}
        /\ output' = output \ {a}
        /\ remote' = [remote EXCEPT ![a] = [r EXCEPT !.state = "ended"]]
    BY <1>16 DEF E!Abandon, E!Running
  <2>2. r.terminal = "none"
    BY <1>7, <2>1 DEF EngineEnds, E!HasTerminal
  <2>3. /\ remote'[a].state = "ended" /\ remote'[a].seq = r.seq
        /\ remote'[a].terminal = "none"
    BY <1>0, <2>1, <2>2
  <2>4. Ran(a)'
    BY <1>4, <1>8, <2>1, <2>3 DEF Ran
  <2> QED BY <1>1, <1>3, <2>1, <2>3, <2>4
<1>17. CASE E!Jam(a)
  <2>1. /\ r.state \in {"loading", "busy", "sealing", "closing"}
        /\ r.terminal # "done" /\ output' \in {output, output \ {a}}
        /\ remote' = [remote EXCEPT ![a] = [r EXCEPT !.state = "jammed"]]
    BY <1>17 DEF E!Jam, E!Running
  <2>2. /\ remote'[a].state = "jammed" /\ remote'[a].seq = r.seq
        /\ remote'[a].terminal = r.terminal
    BY <1>0, <2>1
  <2>3. Ran(a)'
    BY <1>4, <1>8, <2>1, <2>2 DEF Ran
  <2> QED BY <1>1, <1>3, <2>1, <2>2, <2>3
<1> QED
  BY <1>9, <1>10, <1>11, <1>12, <1>13, <1>14, <1>15, <1>16, <1>17
     DEF Engine, EngineFails, E!Advance

\* A POST arrives: only one that its sender still waits for is handled.
LEMMA PostArrives ==
  ASSUME TypeOK, MemoryInv, NEW a \in Attempts, Deliver(a)
  PROVE  MemoryInv'
<1>0. /\ a \in wire /\ wire' = wire \ {a}
      /\ UNCHANGED <<job, att, step, worker>>
      /\ Local(a) /\ remote[a].state = "absent"
      /\ remote \in [Attempts -> E!Remote]
  BY DEF Deliver, durable, server, MemoryInv, TypeOK, E!EngineTypeOK, Local,
         Posted
<1>1. /\ Live(a) /\ att[a].seq = 0 /\ a \notin output
      /\ worker[a].pc \in {"off", "sent"}
  BY <1>0 DEF Local, Posted, Claimed
<1>2. /\ output' = output
      /\ \A b \in Attempts \ {a} : remote'[b] = remote[b]
      /\ remote'[a].state \in {"absent", "validating"}
      /\ att[a].terminal # "done"
  <2>1. att[a].terminal # "done"
    BY <1>1 DEF Live
  <2> QED BY <1>0, <2>1 DEF Deliver, E!Accept, E!Remote
<1>3. \A b \in Attempts \ {a} : SameRun(b)
  BY <1>0, <1>2 DEF SameRun
<1>4. Live(a)' <=> Live(a)
  BY <1>0 DEF Live, Reserved
<1>5. Posted(a)'
  BY <1>0 DEF Posted
<1>6. Seen(a)'
  BY <1>0, <1>1, <1>4 DEF Seen
<1>7. Ran(a)' /\ Follows(a)'
  BY <1>0, <1>1, <1>2 DEF Ran, Follows, Known, E!Known, E!Running, E!Over
<1>8. Hot(a)
  BY <1>0 DEF Hot
<1> QED BY <1>0, <1>3, <1>5, <1>6, <1>7, <1>8, EngineMoves

\* A cancellation only leaves a mark for the thread of the run.
LEMMA CancelArrives ==
  ASSUME TypeOK, MemoryInv, NEW a \in Attempts, SendCancel(a)
  PROVE  MemoryInv'
<1>1. /\ UNCHANGED <<job, att, step, worker, wire, output>>
      /\ remote' = remote
            \/ remote' =
                 [remote EXCEPT ![a] = [remote[a] EXCEPT !.cancel = TRUE]]
  BY DEF SendCancel, E!Cancel, durable
<1>2. \A b \in Attempts : /\ remote'[b].state = remote[b].state
                          /\ remote'[b].seq = remote[b].seq
                          /\ remote'[b].terminal = remote[b].terminal
  BY <1>1 DEF TypeOK, E!EngineTypeOK, E!Remote
<1>3. \A b \in Attempts : SameRun(b) /\ worker'[b] = worker[b]
  BY <1>1, <1>2 DEF SameRun
<1>4. \A b \in Attempts : Same(b)
  BY <1>1, <1>3 DEF Same, SameRow, SamePost, Live, Reserved, Posting, Current
<1>5. \A b \in Attempts : Local(b)'
  BY <1>4, Unconcerned DEF MemoryInv
<1>6. Card'
  BY <1>1, <1>2, Cooler DEF MemoryInv, Hot, Reserved
<1>7. OneAtATime'
  BY <1>1 DEF MemoryInv, OneAtATime
<1> QED BY <1>5, <1>6, <1>7 DEF MemoryInv

\* An engine forgets its attempts; the directory of a success stays.
LEMMA EngineForgets ==
  ASSUME TypeOK, MemoryInv, NEW e \in Engines, EngineCrash(e)
  PROVE  MemoryInv'
<1>0. /\ UNCHANGED <<job, att, step, worker>>
      /\ remote \in [Attempts -> E!Remote]
  BY DEF EngineCrash, durable, server, TypeOK, E!EngineTypeOK
<1>1. ASSUME NEW b \in Attempts, Home[b] = e
      PROVE  /\ b \notin wire' /\ remote'[b] = E!Unknown
             /\ b \in output' => b \in output
             /\ b \in output /\ ~E!Running(b) => b \in output'
  BY <1>1 DEF EngineCrash, E!Crash, Home
<1>2. ASSUME NEW b \in Attempts, Home[b] # e PROVE SameRun(b)
  BY <1>2 DEF EngineCrash, E!Crash, Home, SameRun
<1>3. \A b \in Attempts : SameRow(b) /\ SamePost(b) /\ worker'[b] = worker[b]
  BY <1>0 DEF SameRow, SamePost, Live, Reserved, Posting, Current
<1>4. ASSUME NEW b \in Attempts PROVE Local(b)'
  <2>1. Local(b)
    BY DEF MemoryInv
  <2>2. CASE Home[b] # e
    BY <1>2, <1>3, <2>1, <2>2, Unconcerned DEF Same
  <2>3. CASE Home[b] = e
    <3>1. /\ remote'[b].state = "absent" /\ b \notin wire'
          /\ b \in output' => b \in output
      BY <1>1, <2>3 DEF E!Unknown
    <3>2. Unborn(b)' /\ Claimed(b)' /\ Posted(b)'
      BY <1>3, <2>1, <3>1
         DEF SameRow, SamePost, Local, Unborn, Claimed, Posted, Untouched
    <3>3. Seen(b)' /\ Follows(b)'
      BY <1>3, <2>1, <3>1 DEF SameRow, Local, Seen, Follows, Untouched, Known,
                              E!Known, E!Running, E!Over
    <3>4. att[b].terminal = "done" => b \in output'
      BY <1>1, <2>1, <2>3 DEF Local, Ran, E!Running
    <3>5. Ran(b)'
      BY <1>0, <3>1, <3>4 DEF Ran, E!Over
    <3> QED BY <3>2, <3>3, <3>5 DEF Local
  <2> QED BY <2>2, <2>3
<1>5. \A b \in Attempts : Hot(b)' => Hot(b)
  BY <1>1, <1>2 DEF Hot, SameRun, E!Unknown
<1>6. Card'
  BY <1>0, <1>5, Cooler DEF MemoryInv, Reserved
<1>7. OneAtATime'
  BY <1>0 DEF MemoryInv, OneAtATime
<1> QED BY <1>4, <1>6, <1>7 DEF MemoryInv

\* The server forgets everything but its rows; the engines go on.
LEMMA ServerForgets ==
  ASSUME RowsInv, MemoryInv, ServerCrash
  PROVE  MemoryInv'
<1>0. /\ TypeOK /\ job' = Recovered /\ att' = att
      /\ UNCHANGED <<remote, output>> /\ wire' = {}
      /\ step' = [j \in Jobs |-> "idle"]
      /\ worker' = [a \in Attempts |-> NoWorker]
  BY DEF ServerCrash, Recovered, RowsInv, TypeInv
<1>1. Quiet
  BY <1>0, QuietRows DEF RowsInv, TypeInv
<1>2. ASSUME NEW b \in Attempts PROVE Local(b)'
  <2>1. /\ worker'[b].pc = "off" /\ b \notin wire' /\ b[1] \in Jobs
        /\ step'[b[1]] = "idle" /\ SameRow(b) /\ SameJob(b[1]) /\ Local(b)
    BY <1>0, <1>1 DEF NoWorker, Attempts, Quiet, MemoryInv
  <2>2. Unborn(b)' /\ Claimed(b)' /\ Posted(b)'
    BY <1>0, <2>1 DEF SameJob, Local, Unborn, Claimed, Posted, Posting,
                      Sending, Untouched
  <2>3. Seen(b)' /\ Follows(b)'
    BY <1>0, <2>1 DEF SameRow, Local, Seen, Follows, Known, E!Known, E!Running,
                      E!Over
  <2>4. Ran(b)'
    BY <1>0, <2>1 DEF Local, Ran, E!Over
  <2> QED BY <2>2, <2>3, <2>4 DEF Local
<1>3. Card'
  <2>1. \A b \in Attempts : Hot(b)' => Hot(b)
    BY <1>0 DEF Hot
  <2> QED BY <1>0, <1>1, <2>1, Cooler DEF MemoryInv, Quiet, SameJob
<1>4. OneAtATime'
  BY <1>0 DEF OneAtATime, Sending
<1> QED BY <1>2, <1>3, <1>4 DEF MemoryInv

-----------------------------------------------------------------------------
(* The main loop.                                                          *)

\* The main loop moves on, or gives up, without a new attempt: what is to be
\* shown is about the current attempt of j and the card.
LEMMA SenderMoves ==
  ASSUME TypeOK, MemoryInv, Quiet, NEW j \in Jobs, NEW s,
         step' = [step EXCEPT ![j] = s],
         s # "idle" => MainIdle \/ step[j] # "idle",
         s \in Sending => step[j] \in Sending,
         \A b \in Attempts \ {Current(j)} : b \in wire' <=> b \in wire,
         UNCHANGED <<remote, output, worker>>,
         NEW c, c = Current(j), c \in Attempts => Local(c)',
         Card'
  PROVE  MemoryInv'
<1>1. \A b \in Attempts \ {c} : Same(b)
  BY OneSender
<1>2. \A b \in Attempts \ {c} : Local(b)'
  BY <1>1, Unconcerned DEF MemoryInv
<1>3. OneAtATime'
  <2>1. step'[j] = s /\ \A i \in Jobs \ {j} : step'[i] = step[i]
    BY DEF TypeOK
  <2> QED BY <2>1 DEF MemoryInv, OneAtATime, MainIdle, Quiet, SameJob
<1>4. ASSUME NEW b \in Attempts PROVE Local(b)'
  BY <1>2
<1> QED BY <1>3, <1>4 DEF MemoryInv

\* Of the current attempt of j, when the main loop gives it up.
LEMMA GivenUp ==
  ASSUME TypeOK, Quiet, NEW j \in Jobs, NEW s, s \notin Sending,
         step' = [step EXCEPT ![j] = s],
         UNCHANGED <<remote, output, worker>>,
         NEW a \in Attempts, a = Current(j), Local(a),
         a \in wire' => a \in wire,
         a \in wire' => worker[a].pc = "sent"
  PROVE  Local(a)'
<1>1. /\ a[1] = j /\ step'[j] = s /\ SameRow(a) /\ SameJob(j)
  BY DEF Current, TypeOK, Quiet
<1>2. ~Posting(a)'
  BY <1>1 DEF Posting
<1>3. Unborn(a)' /\ Claimed(a)'
  BY <1>1, <1>2 DEF SameJob, Local, Unborn, Claimed, Untouched
<1>4. Posted(a)' /\ Seen(a)'
  BY <1>1 DEF SameRow, Local, Posted, Seen, Untouched
<1>5. Ran(a)' /\ Follows(a)'
  BY <1>1 DEF SameRow, Local, Ran, Follows, Known, E!Known, E!Running, E!Over
<1> QED BY <1>3, <1>4, <1>5 DEF Local

\* A claim gives up or is acknowledged.
LEMMA SenderStops ==
  ASSUME RowsInv, MemoryInv, NEW j \in Jobs,
         Acknowledge(j) \/ SendStops(j) \/ SendFails(j)
  PROVE  MemoryInv'
<1>c. PICK c : c = Current(j)
  OBVIOUS
<1>0. /\ TypeOK /\ step' = [step EXCEPT ![j] = "idle"]
      /\ UNCHANGED <<job, remote, output, worker>>
      /\ wire' = wire \/ wire' = wire \ {c}
  BY <1>c DEF RowsInv, TypeInv, Acknowledge, SendStops, SendFails, durable
<1>1. Quiet
  <2>1. CASE Acknowledge(j)
    <3>1. att' = Acknowledged(c) /\ job' = job
      BY <1>c, <2>1 DEF Acknowledge
    <3>2. c \notin Attempts => att' = att
      BY <1>0, <3>1 DEF Acknowledged, TypeOK
    <3> QED BY <1>0, <3>1, <3>2, QuietRows DEF RowsInv, TypeInv
  <2>2. CASE SendStops(j) \/ SendFails(j)
    <3>1. UNCHANGED <<job, att>>
      BY <2>2 DEF SendStops, SendFails, durable
    <3> QED BY <1>0, <3>1, QuietRows DEF RowsInv, TypeInv
  <2> QED BY <2>1, <2>2
<1>2. ASSUME c \in Attempts PROVE Local(c)'
  <2>0. Local(c) /\ c = Current(c[1]) /\ c[1] = j
    BY <1>c, <1>2 DEF MemoryInv, Current
  <2>1. ASSUME c \in wire' PROVE worker[c].pc = "sent"
    <3>1. c \in wire /\ wire' = wire
      BY <1>0, <2>1
    <3>2. CASE worker[c].pc # "sent"
      <4>1. step[j] = "sent" /\ remote[c].state = "absent"
        BY <2>0, <3>1, <3>2 DEF Local, Posted
      <4>2. ~Known(c) /\ ~Refused(c)
        BY <3>1, <4>1 DEF Known, E!Known, E!Running, E!Over, Refused
      <4> QED BY <1>c, <2>1, <4>1, <4>2 DEF Acknowledge, SendStops, SendFails
    <3> QED BY <3>2
  <2>2. c \in wire' => c \in wire
    BY <1>0
  <2> QED BY <1>0, <1>1, <1>2, <1>c, <2>0, <2>1, <2>2, GivenUp DEF Sending
<1>3. Card'
  <2>1. \A b \in Attempts : Hot(b)' => Hot(b)
    BY <1>0 DEF Hot
  <2>2. \A i \in Jobs : step'[i] = "screened" => step[i] = "screened"
    BY <1>0 DEF TypeOK
  <2> QED BY <1>0, <2>1, <2>2, Cooler DEF MemoryInv, Reserved
<1>4. \A b \in Attempts \ {c} : b \in wire' <=> b \in wire
  BY <1>0
<1> QED BY <1>0, <1>1, <1>2, <1>3, <1>4, <1>c, SenderMoves DEF Sending

\* The provenance is on record: nothing else changes.
LEMMA SenderCaptures ==
  ASSUME RowsInv, MemoryInv, NEW j \in Jobs, Capture(j)
  PROVE  MemoryInv'
<1>0. /\ TypeOK /\ step' = [step EXCEPT ![j] = "captured"]
      /\ step[j] = "claimed"
      /\ UNCHANGED <<job, remote, output, worker, wire>>
  BY DEF RowsInv, TypeInv, Capture
<1>1. Quiet
  BY <1>0, QuietRows DEF RowsInv, TypeInv
<1>2. ASSUME NEW c \in Attempts, c = Current(j) PROVE Local(c)'
  <2>1. /\ Local(c) /\ c[1] = j /\ step'[j] = "captured" /\ SameRow(c)
        /\ Posting(c)
    BY <1>0, <1>1, <1>2 DEF MemoryInv, Current, TypeOK, Quiet, Posting, Sending
  <2>2. Unborn(c)' /\ Claimed(c)'
    BY <1>0, <2>1 DEF SameRow, Local, Unborn, Claimed, Untouched
  <2>3. c \notin wire
    BY <1>0, <2>1 DEF Local, Claimed, Untouched
  <2>4. Posted(c)' /\ Seen(c)'
    BY <1>0, <2>1, <2>3 DEF SameRow, Local, Posted, Seen, Untouched
  <2>5. Ran(c)' /\ Follows(c)'
    BY <1>0, <2>1 DEF SameRow, Local, Ran, Follows, Known, E!Known, E!Running,
                      E!Over
  <2> QED BY <2>2, <2>4, <2>5 DEF Local
<1>3. Card'
  <2>1. \A i \in Jobs : step'[i] = "screened" => step[i] = "screened"
    BY <1>0 DEF TypeOK
  <2> QED BY <1>0, <2>1, Cooler DEF MemoryInv, Hot, Reserved
<1> QED BY <1>0, <1>1, <1>2, <1>3, SenderMoves DEF Sending

\* The first POST of an attempt goes to a card on which nothing is hot.
LEMMA SenderSends ==
  ASSUME RowsInv, MemoryInv, NEW j \in Jobs, Send(j)
  PROVE  MemoryInv'
<1>c. PICK c : c = Current(j)
  OBVIOUS
<1>0. /\ TypeOK /\ step' = [step EXCEPT ![j] = "sent"]
      /\ step[j] = "captured" /\ wire' = wire \cup {c}
      /\ UNCHANGED <<job, att, remote, output, worker>>
      /\ att[c].seq = 0
  BY <1>c DEF RowsInv, TypeInv, Send, SendAuthority, durable
<1>1. Quiet
  BY <1>0, QuietRows DEF RowsInv, TypeInv
<1>2. /\ c \in Attempts /\ c[1] = j /\ Posting(c) /\ Local(c)
      /\ step'[j] = "sent" /\ SameRow(c)
  <2>1. job[j].attempt \in Ordinals
    BY <1>0 DEF MemoryInv, OneAtATime, Sending
  <2> QED BY <1>0, <1>1, <1>c, <2>1
          DEF Current, Attempts, Posting, Sending, MemoryInv, TypeOK, Quiet
<1>3. /\ Live(c) /\ worker[c].pc = "off"
      /\ c \notin wire /\ remote[c].state = "absent" /\ c \notin output
  BY <1>0, <1>2 DEF Local, Claimed, Untouched
<1>4. Posting(c)'
  BY <1>0, <1>2, <1>c DEF Posting, Current, Sending
<1>5. Local(c)'
  <2>1. ~(c[2] > job[j].attempt)
    BY <1>0, <1>c, QueueAssumption DEF Current, TypeOK, Job
  <2>2. Unborn(c)' /\ Claimed(c)'
    BY <1>0, <1>2, <1>3, <2>1 DEF SameRow, Unborn, Claimed
  <2>3. Posted(c)' /\ Seen(c)'
    BY <1>0, <1>2, <1>3, <1>4 DEF SameRow, Posted, Seen
  <2>4. Ran(c)' /\ Follows(c)'
    BY <1>0, <1>2 DEF SameRow, Local, Ran, Follows, Known, E!Known, E!Running,
                      E!Over
  <2> QED BY <2>2, <2>3, <2>4 DEF Local
<1>6. Card'
  <2>1. \A b \in Attempts : Hot(b)' => b = c \/ Hot(b)
    BY <1>0 DEF Hot
  <2>2. \A i \in Jobs : step'[i] = "screened" => step[i] = "screened" /\ i # j
    BY <1>0 DEF TypeOK
  <2>3. CASE ~Gpu(j)
    <3>1. \A b \in Attempts : Gpu(b[1]) /\ Hot(b)' => Hot(b)
      BY <1>2, <2>1, <2>3
    <3> QED BY <1>0, <2>2, <3>1, Cooler DEF MemoryInv, Reserved
  <2>4. CASE Gpu(j)
    <3>1. Reserved(j) /\ ~Hot(c)
      BY <1>2, <1>3 DEF Live, Hot
    <3>2. \A b \in Attempts : Gpu(b[1]) => ~Hot(b)
      BY <1>c, <2>4, <3>1 DEF MemoryInv, Card, Held
    <3>3. \A i \in Jobs : Gpu(i) /\ Reserved(i) => i = j
      BY <2>4, <3>1 DEF RowsInv, LaneLimits, Gpu, Occupied
    <3>4. OneHot'
      BY <2>1, <3>2 DEF OneHot, Gpu
    <3>5. Held'
      BY <1>0, <1>c, <2>1, <3>2, <3>3 DEF Held, Gpu, Reserved, Current
    <3>6. Screened'
      <4>1. \A i \in Jobs : step[i] = "screened" => i = j
        BY <1>0 DEF MemoryInv, OneAtATime
      <4> QED BY <2>2, <4>1 DEF Screened
    <3> QED BY <3>4, <3>5, <3>6 DEF Card
  <2> QED BY <2>3, <2>4
<1>7. \A b \in Attempts \ {c} : b \in wire' <=> b \in wire
  BY <1>0
<1> QED BY <1>0, <1>1, <1>5, <1>6, <1>7, <1>c, SenderMoves DEF Sending

\* Screening: no gpu job is reserved and every gpu engine is idle, so nothing
\* on the card is hot - a POST on its way would belong to a reserved job.
LEMMA SenderScreens ==
  ASSUME RowsInv, MemoryInv, NEW j \in Jobs, Screen(j)
  PROVE  MemoryInv'
<1>0. /\ TypeOK /\ step' = [step EXCEPT ![j] = "screened"] /\ MainIdle
      /\ UNCHANGED <<job, att, remote, output, worker, wire>>
  BY DEF RowsInv, TypeInv, Screen, durable
<1>1. Quiet
  BY <1>0, QuietRows DEF RowsInv, TypeInv
<1>2. ASSUME NEW c \in Attempts, c = Current(j) PROVE Local(c)'
  <2>1. Local(c) /\ c[1] = j /\ step[j] = "idle"
    BY <1>0, <1>2 DEF MemoryInv, Current, MainIdle
  <2>2. c \in wire => worker[c].pc = "sent"
    BY <2>1 DEF Local, Posted
  <2> QED BY <1>0, <1>1, <1>2, <2>1, <2>2, GivenUp DEF Sending
<1>3. Card'
  <2>1. step'[j] = "screened" /\ \A i \in Jobs \ {j} : step'[i] = "idle"
    BY <1>0 DEF TypeOK, MainIdle
  <2>2. OneHot' /\ Held'
    BY <1>0 DEF MemoryInv, Card, OneHot, Held, Hot, Reserved, Current, Gpu
  <2>3. Gpu(j) => Cold
    <3> SUFFICES ASSUME Gpu(j) PROVE Cold
      OBVIOUS
    <3>1. \A i \in Jobs : Gpu(i) => ~Reserved(i) /\ EngineIdle(EngineOf[i])
      BY DEF Screen, Preflight, Gpu
    <3>2. ASSUME NEW b \in Attempts, Gpu(b[1]) PROVE ~Hot(b)
      <4>1. b[1] \in Jobs
        BY DEF Attempts
      <4>2. remote[b].state \in {"absent", "ended"}
        BY <3>1, <3>2, <4>1 DEF EngineIdle, E!Idle, Home
      <4>3. b \in wire => Reserved(b[1])
        BY DEF MemoryInv, Local, Posted, Live
      <4> QED BY <3>1, <3>2, <4>1, <4>2, <4>3 DEF Hot
    <3> QED BY <3>1, <3>2 DEF Cold
  <2>4. Cold' <=> Cold
    BY <1>0 DEF Cold, Hot, Reserved, Gpu
  <2>5. Screened'
    BY <2>1, <2>3, <2>4 DEF Screened, Gpu
  <2> QED BY <2>2, <2>5 DEF Card
<1> QED BY <1>0, <1>1, <1>2, <1>3, SenderMoves DEF Sending

\* A reservation makes a new attempt live, of which nobody knows; what the
\* screening found of the card still holds when it commits.
LEMMA SenderClaims ==
  ASSUME RowsInv, MemoryInv, NEW j \in Jobs, Reserve(j) \/ ReserveRetry(j)
  PROVE  MemoryInv'
<1>0. /\ TypeOK /\ step[j] = "screened" /\ ~Reserved(j)
      /\ step' = [step EXCEPT ![j] = "claimed"]
      /\ UNCHANGED <<output, worker, remote, wire>>
  <2>1. job[j].status \in {"queued", "failed"}
    BY DEF Reserve, ReserveRetry, Dispatchable, Retryable, RetryPending,
           RetryBudget
  <2> QED BY <2>1 DEF RowsInv, TypeInv, Reserved, Reserve, ReserveRetry
<1>1. PICK n, r :
        /\ n \in Ordinals /\ n > job[j].attempt
        /\ r.seq = 0 /\ r.terminal = "none"
        /\ job' = [job EXCEPT ![j] = [job[j] EXCEPT !.status = "running",
                                                    !.attempt = n]]
        /\ att' = [att EXCEPT ![<<j, n>>] = r]
  <2>1. CASE Reserve(j)
    <3> DEFINE row == [NoAttempt EXCEPT !.status = "prepared"]
    <3>1. 1 \in Ordinals /\ 1 > job[j].attempt
      BY <2>1, QueueAssumption DEF Reserve, Dispatchable, Ordinals
    <3>2. row.seq = 0 /\ row.terminal = "none"
      BY DEF NoAttempt
    <3>3. /\ job' = [job EXCEPT ![j] = [job[j] EXCEPT !.status = "running",
                                                      !.attempt = 1]]
          /\ att' = [att EXCEPT ![<<j, 1>>] = row]
      BY <2>1 DEF Reserve
    <3> QED BY <3>1, <3>2, <3>3
  <2>2. CASE ReserveRetry(j)
    <3> DEFINE row == [NoAttempt EXCEPT !.status = "prepared",
                                        !.mode = RetryMode(att[Current(j)])]
               n == job[j].attempt + 1
    <3>1. Retryable(j)
      BY <2>2 DEF ReserveRetry
    <3>2. n \in Ordinals /\ n > job[j].attempt
      BY <1>0, <3>1, RetryWithinLimit, QueueAssumption DEF Ordinals
    <3>3. row.seq = 0 /\ row.terminal = "none"
      BY DEF NoAttempt
    <3>4. /\ job' = [job EXCEPT ![j] = [job[j] EXCEPT !.status = "running",
                                                      !.attempt = n]]
          /\ att' = [att EXCEPT ![<<j, n>>] = row]
      BY <2>2 DEF ReserveRetry
    <3> QED BY <3>2, <3>3, <3>4
  <2> QED BY <2>1, <2>2
<1>2. PICK a : a = <<j, n>>
  OBVIOUS
<1>3. /\ a \in Attempts /\ a[1] = j /\ a[2] = n /\ n \in Nat
      /\ job'[j].attempt = n /\ job'[j].status = "running"
      /\ \A i \in Jobs \ {j} : job'[i] = job[i]
      /\ att'[a] = r /\ \A b \in Attempts \ {a} : att'[b] = att[b]
      /\ step'[j] = "claimed" /\ \A i \in Jobs \ {j} : step'[i] = step[i]
      /\ job[j].attempt \in Nat
  BY <1>0, <1>1, <1>2, QueueAssumption DEF Attempts, Ordinals, TypeOK, Job
<1>4. ASSUME NEW b \in Attempts \ {a} PROVE Same(b)
  <2>1. SameRun(b) /\ worker'[b] = worker[b] /\ att'[b] = att[b]
    BY <1>0, <1>3 DEF SameRun
  <2>2. CASE b[1] # j
    <3>1. /\ b[1] \in Jobs /\ job'[b[1]] = job[b[1]]
          /\ step'[b[1]] = step[b[1]]
      BY <1>3, <2>2 DEF Attempts
    <3> QED BY <2>1, <3>1 DEF Same, SameRow, SamePost, Live, Reserved, Posting,
                              Current
  <2>3. CASE b[1] = j
    <3>1. b[2] # n /\ b[2] \in Nat /\ b # <<j, n>>
      BY <1>2, <2>3, QueueAssumption DEF Attempts, Ordinals
    <3>2. ~Live(b) /\ ~Live(b)'
      BY <1>0, <1>3, <2>3, <3>1 DEF Live
    <3>3. ~Posting(b) /\ ~Posting(b)'
      BY <1>0, <1>3, <2>3, <3>1 DEF Posting, Current, Sending
    <3>4. b[2] > n => b[2] > job[j].attempt
      BY <1>1, <1>3, <3>1
    <3> QED BY <1>3, <2>1, <2>3, <3>2, <3>3, <3>4 DEF Same, SameRow, SamePost
  <2> QED BY <2>2, <2>3
<1>5. \A b \in Attempts \ {a} : Local(b)'
  BY <1>4, Unconcerned DEF MemoryInv
<1>6. Local(a)'
  <2>1. Untouched(a) /\ worker[a].pc = "off"
    BY <1>1, <1>3 DEF MemoryInv, Local, Unborn
  <2>2. Live(a)' /\ ~(n > job'[j].attempt)
    BY <1>1, <1>3 DEF Live, Reserved
  <2>3. Unborn(a)' /\ Claimed(a)'
    BY <1>0, <1>3, <2>1, <2>2 DEF Unborn, Claimed, Untouched
  <2>4. Posted(a)' /\ Seen(a)' /\ Follows(a)'
    BY <1>0, <2>1 DEF Posted, Seen, Follows, Untouched, Known, E!Known,
                      E!Running, E!Over
  <2>5. Ran(a)'
    BY <1>0, <1>1, <1>3, <2>1 DEF Ran, Untouched, E!Over
  <2> QED BY <2>3, <2>4, <2>5 DEF Local
<1>7. OneAtATime'
  <2>1. n \in Ordinals
    BY <1>1
  <2> QED BY <1>0, <1>3, <2>1 DEF MemoryInv, OneAtATime
<1>8. Card'
  <2>1. \A i \in Jobs : step'[i] = "screened" => step[i] = "screened" /\ i # j
    BY <1>3
  <2>2. \A b \in Attempts : Hot(b)' <=> Hot(b)
    BY <1>0 DEF Hot
  <2>3. CASE ~Gpu(j)
    <3>1. \A i \in Jobs : Gpu(i) => job'[i] = job[i]
      BY <1>3, <2>3
    <3> QED BY <2>1, <2>2, <3>1, Cooler DEF MemoryInv, Reserved
  <2>4. CASE Gpu(j)
    <3>1. \A b \in Attempts : Gpu(b[1]) => ~Hot(b)'
      BY <1>0, <2>2, <2>4 DEF MemoryInv, Card, Screened, Cold
    <3>2. \A i \in Jobs : step'[i] # "screened"
      BY <1>0, <1>3 DEF MemoryInv, OneAtATime
    <3> QED BY <3>1, <3>2 DEF Card, OneHot, Held, Screened, Gpu
  <2> QED BY <2>3, <2>4
<1> QED BY <1>5, <1>6, <1>7, <1>8 DEF MemoryInv

\* Requests that only write rows.
LEMMA RowsOnly ==
  ASSUME TypeOK, MemoryInv, Quiet,
         UNCHANGED <<step, worker, remote, output, wire>>
  PROVE  MemoryInv'
<1>1. \A b \in Attempts : Same(b)
  BY DEF Same, SamePost, SameRun, Posting, Current, Quiet, SameJob, Attempts
<1>2. \A b \in Attempts : Local(b)'
  BY <1>1, Unconcerned DEF MemoryInv
<1>3. Card'
  BY StaysCool DEF MemoryInv, Hot
<1>4. OneAtATime'
  BY DEF MemoryInv, OneAtATime, Quiet, SameJob
<1> QED BY <1>2, <1>3, <1>4 DEF MemoryInv

LEMMA SenderSteps ==
  ASSUME RowsInv, MemoryInv, NEW j \in Jobs,
         MainLoop(j) \/ SendFails(j) \/ RequestCancel(j)
  PROVE  MemoryInv'
<1>1. CASE CloseVram(j) \/ RequestCancel(j)
  <2>1. /\ TypeOK /\ NotStarted
        /\ UNCHANGED <<step, worker, remote, output, wire>>
    BY <1>1 DEF RowsInv, TypeInv, CloseVram, RequestCancel, server
  <2>2. Quiet
    BY <1>1, <2>1, QuietRows
  <2> QED BY <2>1, <2>2, RowsOnly
<1> QED
  BY <1>1, SenderScreens, SenderClaims, SenderCaptures, SenderSends,
     SenderStops DEF MainLoop

-----------------------------------------------------------------------------
(* What follows from the memories.                                         *)

LEMMA MemoryKept == RowsInv /\ MemoryInv /\ [Next]_vars => MemoryInv'
<1> SUFFICES ASSUME RowsInv, MemoryInv, [Next]_vars PROVE MemoryInv'
  OBVIOUS
<1>0. TypeOK /\ NotStarted /\ EngineEnds
  BY DEF RowsInv, TypeInv
<1>1. ASSUME NEW j \in Jobs, MainLoop(j) \/ SendFails(j) \/ RequestCancel(j)
      PROVE  MemoryInv'
  BY <1>1, SenderSteps
<1>2. ASSUME NEW a \in Attempts,
             \/ Observer(a) \/ Engine(a) \/ EngineFails(a)
             \/ Deliver(a) \/ SendCancel(a)
      PROVE  MemoryInv'
  BY <1>0, <1>2, ObserverSteps, RunAdvances, PostArrives, CancelArrives
<1>3. ASSUME NEW e \in Engines, EngineCrash(e) PROVE MemoryInv'
  BY <1>0, <1>3, EngineForgets
<1>4. CASE ServerCrash
  BY <1>4, ServerForgets
<1>5. CASE UNCHANGED vars
  <2>1. UNCHANGED <<job, att, step, worker, remote, output, wire>>
    BY <1>5 DEF vars, durable, server
  <2> QED BY <1>0, <2>1, QuietRows, RowsOnly
<1> QED BY <1>1, <1>2, <1>3, <1>4, <1>5 DEF Next

LEMMA MemoryInit == Init => MemoryInv
<1> SUFFICES ASSUME Init PROVE MemoryInv
  OBVIOUS
<1>1. ASSUME NEW a \in Attempts PROVE Local(a)
  <2>1. /\ a[1] \in Jobs /\ step[a[1]] = "idle" /\ worker[a].pc = "off"
        /\ a \notin wire /\ a \notin output
        /\ remote[a].state = "absent" /\ att[a].terminal = "none"
    BY DEF Init, Attempts, E!EngineInit, E!Unknown, NoWorker, NoAttempt
  <2> QED BY <2>1 DEF Local, Unborn, Untouched, Claimed, Posting, Sending,
                      Posted, Seen, Ran, Follows, Known, E!Known, E!Running,
                      E!Over
<1>2. \A b \in Attempts : ~Hot(b)
  BY DEF Init, Hot, E!EngineInit, E!Unknown
<1>3. \A j \in Jobs : step[j] = "idle"
  BY DEF Init
<1> QED BY <1>1, <1>2, <1>3
        DEF MemoryInv, OneAtATime, Sending, Card, OneHot, Held, Screened

\* Rows and memories keep each other: the invariant of the queue.
THEOREM MemoriesAgree == Spec => [](RowsInv /\ MemoryInv)
<1>1. RowsInv /\ MemoryInv /\ [Next]_vars => MemoryInv'
  BY MemoryKept
<1>2. TypeInv /\ [Next]_vars => TypeInv'
  BY TypeKept
<1> QED
  BY <1>1, <1>2, TypeInit, MemoryInit, AttemptsAreAChain, JobsFollowAttempts,
     LanesAreLimited, PTL DEF Spec, RowsInv

\* The durable cursor of a live attempt is never ahead of an engine that has
\* the attempt: events are read in order by one observer, and an attempt of
\* which something was received is not sent again (safe_absent).
THEOREM CursorIsBehind == Spec => []CursorBehindEngine
<1>1. MemoryInv => CursorBehindEngine
  BY DEF MemoryInv, Local, Follows, CursorBehindEngine
<1> QED BY <1>1, MemoriesAgree, PTL

\* One gpu engine at most runs a generation, though the server decides on
\* health that may be stale, resends on the health of one engine only, and
\* engines go on with attempts the server has given up.
THEOREM OneRunOnCard == Spec => []OneGpuRun
<1>1. MemoryInv => OneGpuRun
  BY DEF MemoryInv, Card, OneHot, OneGpuRun, Gpu, Hot, Running, E!Running
<1> QED BY <1>1, MemoriesAgree, PTL

\* The directory of an attempt holds the output of one run, and that of a job
\* that succeeded stays on disk, through crashes of server and engines.
THEOREM OutputIsOneRun == Spec => OutputKept
<1>1. ASSUME RowsInv, MemoryInv, NEW j \in Jobs, job[j].status = "succeeded"
      PROVE  Current(j) \in output
  <2>1. job[j].attempt \in Ordinals /\ job[j].attempt > 0
    BY <1>1, QueueAssumption
       DEF RowsInv, TypeInv, TypeOK, NotStarted, Job, Ordinals
  <2>2. Current(j) \in Attempts
    BY <2>1 DEF Current, Attempts
  <2>3. att[Current(j)].terminal = "done"
    <3>1. Agree(job[j], att[Current(j)].terminal)
      BY <1>1, <2>1, AgreeEverywhere DEF RowsInv
    <3> QED BY <1>1, <3>1 DEF Agree, EndStatus
  <2> QED BY <1>1, <2>2, <2>3 DEF MemoryInv, Local, Ran
<1>2. ASSUME RowsInv, MemoryInv
      PROVE  \A j \in Jobs :
               job[j].status = "succeeded" => Current(j) \in output
  BY <1>1, <1>2
<1>3. ASSUME RowsInv, MemoryInv
      PROVE  \A a \in Attempts :
               remote[a].state = "loading" /\ remote'[a].state = "busy"
                 => a \notin output
  BY <1>3 DEF MemoryInv, Local, Ran
<1> QED BY <1>2, <1>3, MemoriesAgree, PTL DEF OutputKept

=============================================================================
