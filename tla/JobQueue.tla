------------------------------ MODULE JobQueue ------------------------------
(***************************************************************************)
(* The durable job queue of the server (apps/server/app/queue) driving the *)
(* generation engines over HTTP: reservation of attempts, the send path,   *)
(* the observer coroutine of each attempt, recovery after a crash of the   *)
(* server or of an engine, automatic retry and cancellation.               *)
(*                                                                         *)
(* Durable (SQLite): job, att, take.  Disk: output.  In memory of the      *)
(* server: step, worker, suspended, cancelSent.  In memory of an engine:   *)
(* remote.  Every SQLite transaction takes the writer lock first           *)
(* (admission.writer), so each one is a single step here.  An HTTP         *)
(* exchange that can be overtaken is split: the engine starts to handle a  *)
(* POST while its sender waits, registers the attempt some time later, and *)
(* the sender may have given up by then.                                   *)
(*                                                                         *)
(* Abstracted: candidate order (any dispatchable job may be next), routing *)
(* and frozen payloads (fixed per job), the SSE feed and VRAM residency.   *)
(***************************************************************************)
EXTENDS Naturals, FiniteSets

CONSTANTS
  Jobs,          \* logical jobs that run on an engine
  Engines,       \* configured engine processes
  Lane,          \* Lane[j]: "gpu" or "cpu"
  EngineOf,      \* EngineOf[j]: the engine the resolver selects
  HasOffload,    \* HasOffload[j]: the model declares an offload mode
  Musical,       \* the generations; the others are analysis jobs
  MaxAttempts,   \* job.max_attempts, 3 in the code
  Cancellable,   \* bound: the jobs a user may cancel
  Unreliable,    \* bound: the engines whose child or disk may fail them
  Progress,      \* bound, Progress[a]: non-terminal events of attempt a
  MaxFaults      \* bound: crashes and failed HTTP exchanges of a behaviour

ASSUME QueueAssumption ==
  /\ IsFiniteSet(Jobs)
  /\ Lane \in [Jobs -> {"gpu", "cpu"}]
  /\ EngineOf \in [Jobs -> Engines]
  /\ HasOffload \in [Jobs -> BOOLEAN]
  /\ Musical \subseteq Jobs
  /\ MaxAttempts \in 1..3
  /\ Cancellable \subseteq Jobs
  /\ Unreliable \subseteq Engines
  /\ Progress \in [Jobs \X (1..MaxAttempts) -> Nat]
  /\ MaxFaults \in Nat

VARIABLES
  job,         \* table job: status, attempt (ordinal), max, cancel
  att,         \* table job_attempt, by <<job, ordinal>>
  take,        \* status of the takes a generation reserves
  output,      \* attempts whose directory tmp/<attempt> exists
  step,        \* where the main loop is in sending the job's attempt
  worker,      \* the observer coroutine (_consume) of each attempt
  suspended,   \* attempts no longer observed until the server restarts
  cancelSent,  \* attempts whose DELETE the engine acknowledged
  remote,      \* what the engine process knows of each attempt
  wire,        \* POSTs whose sender waits and no engine has begun to handle
  faults       \* faults so far

durable == <<job, att, take>>
server  == <<step, worker, suspended, cancelSent>>
vars == <<durable, output, server, remote, wire, faults>>

-----------------------------------------------------------------------------
Ordinals == 1..MaxAttempts
Attempts == Jobs \X Ordinals

JobStatus == {"queued", "running", "interrupted",
              "succeeded", "failed", "cancelled"}
Ended == {"succeeded", "failed", "cancelled"}

Home == [a \in Attempts |-> EngineOf[a[1]]]

\* The engines, as the server sees them through /v1.
E == INSTANCE EngineContract
Terminal == E!Terminal

Job == [status: JobStatus, attempt: 0..MaxAttempts, max: Ordinals,
        cancel: BOOLEAN]
Attempt == [status: {"none", "prepared", "submitted",
                     "succeeded", "failed", "cancelled"},
            seq: Nat, terminal: Terminal \cup {"none"},
            mode: {"full", "offload"}, prov: BOOLEAN]
Worker == [pc: {"off", "poll", "asked", "absent", "safe", "resend", "sent",
                "stream"},
           resent: BOOLEAN, cancelled: BOOLEAN, idle: BOOLEAN]

NoAttempt == [status |-> "none", seq |-> 0, terminal |-> "none",
              mode |-> "full", prov |-> FALSE]
NoWorker == [pc |-> "off", resent |-> FALSE, cancelled |-> FALSE,
             idle |-> FALSE]

TypeOK ==
  /\ job \in [Jobs -> Job]
  /\ att \in [Attempts -> Attempt]
  /\ take \in [Jobs -> {"queued", "failed", "cancelled"}]
  /\ step \in [Jobs -> {"idle", "screened", "claimed", "captured", "sent"}]
  /\ worker \in [Attempts -> Worker]
  /\ suspended \in SUBSET Attempts
  /\ cancelSent \in SUBSET Attempts
  /\ E!EngineTypeOK
  /\ wire \in SUBSET Attempts
  /\ faults \in 0..MaxFaults

Init ==
  /\ job = [j \in Jobs |-> [status |-> "queued", attempt |-> 0,
                            max |-> MaxAttempts, cancel |-> FALSE]]
  /\ att = [a \in Attempts |-> NoAttempt]
  /\ take = [j \in Jobs |-> "queued"]
  /\ step = [j \in Jobs |-> "idle"]
  /\ worker = [a \in Attempts |-> NoWorker]
  /\ suspended = {}
  /\ cancelSent = {}
  /\ E!EngineInit
  /\ wire = {}
  /\ faults = 0

-----------------------------------------------------------------------------
(* Reservations. *)

Reserved(j) == job[j].status \in {"running", "interrupted"}

ActiveAttempt(j) ==
  \E k \in Ordinals : /\ k = job[j].attempt
                      /\ att[<<j, k>>].status # "none"
                      /\ att[<<j, k>>].terminal = "none"

\* occupancy_filters: which reservations hold a slot of their lane.
Occupied(j) ==
  /\ Reserved(j)
  /\ \/ job[j].status = "running"
     \/ ActiveAttempt(j)
     \/ Lane[j] = "gpu"

Occupants(lane) == {j \in Jobs : Lane[j] = lane /\ Occupied(j)}
LaneLimit == [gpu |-> 1, cpu |-> 2]
LaneFree(j) == Cardinality(Occupants(Lane[j])) < LaneLimit[Lane[j]]
EngineFree(j) == ~ \E i \in Jobs : EngineOf[i] = EngineOf[j] /\ Occupied(i)

\* The attempt the job is on, and whether it may still receive events.
Current(j) == <<j, job[j].attempt>>
Live(a) == /\ Reserved(a[1])
           /\ job[a[1]].attempt = a[2]
           /\ att[a].terminal = "none"

-----------------------------------------------------------------------------
(* Retry policy, on a job row and the row of its current attempt. *)

\* Mutant of HasRetryMode: out of memory while offloaded is tried again.
RetryModeAlways(row) == TRUE

\* terminal_takes.retry_mode has an answer.
HasRetryMode(row) == row.terminal = "vram" => row.mode = "full"
RetryMode(row) == IF row.terminal = "vram" THEN "offload" ELSE row.mode

\* retry.eligible(..., for_cleanup=True); the backoff date is abstracted.
RetryBudget(jrow, row) ==
  /\ jrow.status = "failed"
  /\ ~jrow.cancel
  /\ jrow.attempt >= 1
  /\ jrow.attempt < jrow.max
  /\ row.status = "failed"
  /\ row.terminal \in {"retryable", "vram"}

RetryPending(jrow, row) == RetryBudget(jrow, row) /\ HasRetryMode(row)

\* Mutant of TakeAfter: the takes end with every failed attempt.
TakeAfterAnyEnd(j, jrow, row) ==
  IF j \in Musical /\ jrow.status \in {"failed", "cancelled"}
  THEN [take EXCEPT ![j] = IF @ = "queued" THEN jrow.status ELSE @]
  ELSE take

\* terminalize_placeholders: the takes follow a definitive end of the job.
TakeAfter(j, jrow, row) ==
  IF /\ j \in Musical
     /\ jrow.status \in {"failed", "cancelled"}
     /\ ~RetryPending(jrow, row)
  THEN [take EXCEPT ![j] = IF @ = "queued" THEN jrow.status ELSE @]
  ELSE take

-----------------------------------------------------------------------------
(* Engines and the network.                                                *)

Running(a) == E!Running(a)
EngineIdle(e) == E!Idle(e)
Known(a) == E!Known(a)

\* The engine begins to handle a POST: it takes it, repeats the acknowledgement
\* of an attempt it knows, or answers BUSY.
Deliver(a) ==
  /\ a \in wire
  /\ wire' = wire \ {a}
  /\ IF remote[a].state = "absent" /\ EngineIdle(EngineOf[a[1]])
     THEN E!Accept(a)
     ELSE UNCHANGED <<remote, output>>
  /\ UNCHANGED <<durable, server, faults>>

\* The answer to a POST of a that was not acknowledged.
Refused(a) == a \notin wire /\ remote[a].state = "absent"

Engine(a) == E!Advance(a) /\ UNCHANGED <<durable, server, wire, faults>>

Fault == faults < MaxFaults /\ faults' = faults + 1

\* The engine cannot unload its child, or cannot remove a directory.
EngineFails(a) ==
  /\ Fault
  /\ EngineOf[a[1]] \in Unreliable
  /\ E!Abandon(a) \/ E!Jam(a)
  /\ UNCHANGED <<durable, server, wire>>

\* An engine process dies and restarts; requests it had not answered fail.
EngineCrash(e) ==
  LET mine == {a \in Attempts : EngineOf[a[1]] = e}
  IN  /\ Fault
      /\ \E a \in mine : remote[a] # E!Unknown \/ a \in wire
      /\ E!Crash(e)
      /\ wire' = wire \ mine
      /\ UNCHANGED <<durable, server>>

-----------------------------------------------------------------------------
(* The main loop: dispatcher._dispatch_page and runtime._retry_page.  One  *)
(* job at a time goes through screened -> claimed -> captured -> sent.     *)

MainIdle == \A j \in Jobs : step[j] = "idle"

\* admission._query and _eligible.
Dispatchable(j) == /\ job[j].status = "queued"
                   /\ job[j].attempt = 0
                   /\ ~job[j].cancel

\* retry.eligible, and the catalogue has the mode the policy asks for.
Retryable(j) ==
  /\ RetryPending(job[j], att[Current(j)])
  /\ RetryMode(att[Current(j)]) # att[Current(j)].mode => HasOffload[j]

\* Mutant of Preflight: only the target engine and the rows are looked at.
PreflightTarget(j) ==
  /\ EngineIdle(EngineOf[j])
  /\ Lane[j] = "gpu" => \A i \in Jobs : Lane[i] = "gpu" => ~Reserved(i)

\* Fresh health of the target (and, for a gpu job, of every gpu engine).
Preflight(j) ==
  /\ EngineIdle(EngineOf[j])
  /\ Lane[j] = "gpu" =>
       \A i \in Jobs : Lane[i] = "gpu" =>
                         ~Reserved(i) /\ EngineIdle(EngineOf[i])

\* Reads only: what it saw may be stale when the reservation commits.
Screen(j) ==
  /\ MainIdle
  /\ Dispatchable(j) \/ Retryable(j)
  /\ Preflight(j)
  /\ step' = [step EXCEPT ![j] = "screened"]
  /\ UNCHANGED <<durable, output, worker, suspended, cancelSent, remote, wire,
                 faults>>

MayReserve(j) ==
  /\ LaneFree(j)
  /\ \/ Dispatchable(j) /\ (Lane[j] = "gpu" => EngineFree(j))
     \/ Retryable(j) /\ EngineFree(j)

\* admission.reserve: the first attempt, and the job runs.
Reserve(j) ==
  /\ step[j] = "screened"
  /\ Dispatchable(j) /\ MayReserve(j)
  /\ job' = [job EXCEPT ![j].status = "running", ![j].attempt = 1]
  /\ att' = [att EXCEPT ![<<j, 1>>] = [NoAttempt EXCEPT !.status = "prepared"]]
  /\ step' = [step EXCEPT ![j] = "claimed"]
  /\ UNCHANGED <<take, output, worker, suspended, cancelSent, remote, wire,
                 faults>>

\* retry.reserve: the next attempt, same frozen request, maybe offloaded.
ReserveRetry(j) ==
  LET last == att[Current(j)]
      next == job[j].attempt + 1
      mode == RetryMode(last)
  IN  /\ step[j] = "screened"
      /\ Retryable(j) /\ MayReserve(j)
      /\ mode # last.mode =>
           ~ \E k \in 1..job[j].attempt : att[<<j, k>>].mode = "offload"
      /\ job' = [job EXCEPT ![j].status = "running", ![j].attempt = next]
      /\ att' = [att EXCEPT ![<<j, next>>] = [NoAttempt EXCEPT
                                            !.status = "prepared",
                                            !.mode = mode]]
      /\ step' = [step EXCEPT ![j] = "claimed"]
      /\ UNCHANGED <<take, output, worker, suspended, cancelSent, remote,
                     wire, faults>>

\* A generation is only sent with its provenance on record.
HasEvidence(a) == att[a].prov = (a[1] \in Musical)

\* _send_authority for a claim that was never sent.
SendAuthority(j) ==
  LET row == att[Current(j)]
  IN  /\ job[j].status = "running"
      /\ ~job[j].cancel
      /\ row.status = "prepared"
      /\ row.terminal = "none"
      /\ row.seq = 0

\* The model is loaded, health is fresh: the provenance of a generation is
\* written once (capture_provenance); an analysis job has none.
Capture(j) ==
  /\ step[j] = "claimed"
  /\ SendAuthority(j)
  /\ att' = [att EXCEPT ![Current(j)].prov = j \in Musical]
  /\ step' = [step EXCEPT ![j] = "captured"]
  /\ UNCHANGED <<job, take, output, worker, suspended, cancelSent, remote,
                 wire, faults>>

\* may_send, then the POST; a cancellation may commit before the engine gets
\* it, and is then sent to the engine once the attempt is known there.
Send(j) ==
  /\ step[j] = "captured"
  /\ SendAuthority(j)
  /\ HasEvidence(Current(j))
  /\ wire' = wire \cup {Current(j)}
  /\ step' = [step EXCEPT ![j] = "sent"]
  /\ UNCHANGED <<durable, output, worker, suspended, cancelSent, remote,
                 faults>>

\* admission.acknowledge, for the attempt row of a.
Acknowledged(a) ==
  IF /\ job[a[1]].status = "running"
     /\ ~job[a[1]].cancel
     /\ att[a].status = "prepared"
  THEN [att EXCEPT ![a].status = "submitted"]
  ELSE att

Acknowledge(j) ==
  /\ step[j] = "sent"
  /\ Known(Current(j))
  /\ att' = Acknowledged(Current(j))
  /\ step' = [step EXCEPT ![j] = "idle"]
  /\ UNCHANGED <<job, take, output, worker, suspended, cancelSent, remote,
                 wire, faults>>

\* Mutant of SendStops: a reservation that is refused keeps the main loop.
SendStopsLate(j) ==
  /\ \/ step[j] \in {"claimed", "captured"} /\ ~SendAuthority(j)
     \/ step[j] = "sent" /\ Refused(Current(j))
  /\ step' = [step EXCEPT ![j] = "idle"]
  /\ UNCHANGED <<durable, output, worker, suspended, cancelSent, remote, wire,
                 faults>>

\* A check of the send path says no, or the engine refused the POST.
SendStops(j) ==
  /\ \/ step[j] = "screened" /\ ~MayReserve(j)
     \/ step[j] \in {"claimed", "captured"} /\ ~SendAuthority(j)
     \/ step[j] = "sent" /\ Refused(Current(j))
  /\ step' = [step EXCEPT ![j] = "idle"]
  /\ UNCHANGED <<durable, output, worker, suspended, cancelSent, remote, wire,
                 faults>>

\* A load, health or submit exchange fails; the claim, if any, stays durable.
SendFails(j) ==
  /\ Fault
  /\ step[j] # "idle"
  /\ step' = [step EXCEPT ![j] = "idle"]
  /\ wire' = wire \ {Current(j)}
  /\ UNCHANGED <<durable, output, worker, suspended, cancelSent, remote>>

\* close_impossible_vram: out of memory, and no offload left to try.
CloseVram(j) ==
  LET row == att[Current(j)]
      closed == [job[j] EXCEPT !.max = job[j].attempt]
  IN  /\ MainIdle
      /\ RetryBudget(job[j], row)
      /\ row.terminal = "vram"
      /\ row.mode = "offload" \/ ~HasOffload[j]
      /\ job' = [job EXCEPT ![j] = closed]
      /\ take' = TakeAfter(j, closed, row)
      /\ UNCHANGED <<att, output, server, remote, wire, faults>>

-----------------------------------------------------------------------------
(* The observer of an attempt: runtime._consume.                           *)

\* recovery.uncertain
Interrupted(a) ==
  IF Live(a) THEN [job EXCEPT ![a[1]].status = "interrupted"] ELSE job

\* What the coroutine remembers from one round to the next is only resent.
GoTo(a, pc) ==
  worker' = [worker EXCEPT ![a] =
    [NoWorker EXCEPT !.pc = pc, !.resent = pc # "off" /\ worker[a].resent]]

\* The main loop spawns an observer for every live attempt that has none.
Spawn(a) ==
  /\ MainIdle
  /\ Live(a)
  /\ worker[a].pc = "off"
  /\ a \notin suspended
  /\ worker' = [worker EXCEPT ![a] = [NoWorker EXCEPT !.pc = "poll"]]
  /\ UNCHANGED <<durable, output, step, suspended, cancelSent, remote, wire,
                 faults>>

\* recovery.current says the attempt is settled.
Retire(a) ==
  /\ worker[a].pc = "poll"
  /\ att[a].terminal # "none"
  /\ GoTo(a, "off")
  /\ UNCHANGED <<durable, output, step, suspended, cancelSent, remote, wire,
                 faults>>

\* A round starts: the row and its cancellation, then the engine's health.
\* The observer acts later on what it saw here.
Ask(a) ==
  /\ worker[a].pc = "poll"
  /\ att[a].terminal = "none"
  /\ worker' = [worker EXCEPT ![a].pc = "asked",
                              ![a].cancelled = job[a[1]].cancel,
                              ![a].idle = EngineIdle(EngineOf[a[1]])]
  /\ UNCHANGED <<durable, output, step, suspended, cancelSent, remote, wire,
                 faults>>

\* The answer to the status request; a cursor that went back is not followed.
Answer(a) ==
  /\ worker[a].pc = "asked"
  /\ IF ~Known(a)
     THEN /\ worker' = [worker EXCEPT ![a].pc = "absent"]
          /\ UNCHANGED <<job, suspended>>
     ELSE IF remote[a].seq < att[a].seq
     THEN /\ job' = Interrupted(a)
          /\ suspended' = suspended \cup {a}
          /\ GoTo(a, "off")
     ELSE /\ GoTo(a, "stream")
          /\ UNCHANGED <<job, suspended>>
  /\ UNCHANGED <<att, take, output, step, cancelSent, remote, wire, faults>>

\* Mutants of SafeAbsent: no check at all; no look at the disk.
SafeAlways(a) == TRUE
SafeBlind(a) == att[a].seq = 0

\* safe_absent: nothing was ever received and nothing is on disk.
SafeAbsent(a) == att[a].seq = 0 /\ a \notin output

\* Absent and cancelled when looked at: interrupted, and no longer observed.
Suspend(a) ==
  /\ worker[a].pc = "absent"
  /\ worker[a].cancelled
  /\ job' = Interrupted(a)
  /\ suspended' = suspended \cup {a}
  /\ GoTo(a, "off")
  /\ UNCHANGED <<att, take, output, step, cancelSent, remote, wire, faults>>

EndStatus(t) == CASE t = "done"      -> "succeeded"
                  [] t = "cancelled" -> "cancelled"
                  [] OTHER           -> "failed"

\* Mutant of AcceptTerminal: the event decides, whatever was cancelled.
AcceptTerminalBlind(a, t) ==
  LET j    == a[1]
      jrow == [job[j] EXCEPT !.status = EndStatus(t)]
      row  == [att[a] EXCEPT !.status = EndStatus(t), !.terminal = t,
                             !.seq = @ + 1]
  IN  /\ Live(a)
      /\ job' = [job EXCEPT ![j] = jrow]
      /\ att' = [att EXCEPT ![a] = row]
      /\ take' = TakeAfter(j, jrow, row)

\* EventConsumer.accept of the terminal event t: cursor, attempt, job and
\* takes in one transaction; a cancellation already committed wins.
AcceptTerminal(a, t) ==
  LET j    == a[1]
      jrow == [job[j] EXCEPT !.status = IF job[j].cancel THEN "cancelled"
                                        ELSE EndStatus(t)]
      row  == [att[a] EXCEPT !.status = EndStatus(t), !.terminal = t,
                             !.seq = @ + 1]
  IN  /\ Live(a)
      /\ job' = [job EXCEPT ![j] = jrow]
      /\ att' = [att EXCEPT ![a] = row]
      /\ take' = TakeAfter(j, jrow, row)

\* Mutant of AcceptLost: a doubtful attempt stays interrupted, unobserved.
AcceptLostSuspends(a) ==
  /\ worker[a].pc = "absent"
  /\ ~worker[a].cancelled
  /\ worker[a].resent \/ ~SafeAbsent(a)
  /\ job' = Interrupted(a)
  /\ suspended' = suspended \cup {a}
  /\ GoTo(a, "off")
  /\ UNCHANGED <<att, take, output, step, cancelSent, remote, wire, faults>>

\* The engine confirmed it does not have the attempt and resending is not
\* safe: a retryable error the server writes itself (lost_event).
AcceptLost(a) ==
  /\ worker[a].pc = "absent"
  /\ ~worker[a].cancelled
  /\ worker[a].resent \/ ~SafeAbsent(a)
  /\ AcceptTerminal(a, "retryable")
  /\ GoTo(a, "off")
  /\ UNCHANGED <<output, step, suspended, cancelSent, remote, wire, faults>>

\* recovery.other_active
OtherActive(j) ==
  \E i \in Jobs \ {j} : /\ Occupied(i)
                        /\ Lane[i] = Lane[j] \/ EngineOf[i] = EngineOf[j]

\* Mutant of MayResend: an attempt whose provenance is missing is sent.
MayResendBlind(a) == ~OtherActive(a[1]) /\ EngineIdle(EngineOf[a[1]])

\* _resend_preflight and the provenance captured before the first send.
MayResend(a) ==
  /\ HasEvidence(a)
  /\ ~OtherActive(a[1])
  /\ EngineIdle(EngineOf[a[1]])

\* Absent, never sent again by this observer, nothing received or written.
MayRepeat(a) == /\ worker[a].pc = "absent"
                /\ ~worker[a].cancelled
                /\ ~worker[a].resent
                /\ SafeAbsent(a)

\* The engine was idle before it said it does not have the attempt, so no
\* earlier POST can still be registered: sending it again is considered.
Repeat(a) ==
  /\ MayRepeat(a)
  /\ worker[a].idle
  /\ worker' = [worker EXCEPT ![a].pc = "safe"]
  /\ UNCHANGED <<durable, output, step, suspended, cancelSent, remote, wire,
                 faults>>

PrepareResend(a) ==
  /\ worker[a].pc = "safe"
  /\ MayResend(a)
  /\ worker' = [worker EXCEPT ![a].pc = "resend", ![a].resent = TRUE]
  /\ UNCHANGED <<durable, output, step, suspended, cancelSent, remote, wire,
                 faults>>

\* RECOVERY_BUSY or RECOVERY_ADMISSION: wait and look again.
ResendRefused(a) ==
  /\ \/ MayRepeat(a) /\ ~worker[a].idle
     \/ worker[a].pc = "safe" /\ ~MayResend(a)
  /\ job' = Interrupted(a)
  /\ GoTo(a, "poll")
  /\ UNCHANGED <<att, take, output, step, suspended, cancelSent, remote, wire,
                 faults>>

\* The row is read again before the same identifier is sent a second time.
Resend(a) ==
  /\ worker[a].pc = "resend"
  /\ IF Live(a) /\ ~job[a[1]].cancel
     THEN GoTo(a, "sent") /\ wire' = wire \cup {a}
     ELSE GoTo(a, "poll") /\ UNCHANGED wire
  /\ UNCHANGED <<durable, output, step, suspended, cancelSent, remote, faults>>

ResendAcknowledged(a) ==
  /\ worker[a].pc = "sent"
  /\ Known(a)
  /\ att' = Acknowledged(a)
  /\ GoTo(a, "stream")
  /\ UNCHANGED <<job, take, output, step, suspended, cancelSent, remote, wire,
                 faults>>

\* The next event of the stream is not the terminal: only the cursor moves.
AcceptProgress(a) ==
  /\ worker[a].pc = "stream"
  /\ Live(a)
  /\ att[a].seq < remote[a].seq
  /\ E!HasTerminal(a) => att[a].seq + 1 < remote[a].seq
  /\ att' = [att EXCEPT ![a].seq = @ + 1]
  /\ UNCHANGED <<job, take, output, server, remote, wire, faults>>

\* The terminal commits; the observer returns, or its stream timeout fires
\* during the commit and it goes round once more.
AcceptEnd(a) ==
  /\ worker[a].pc = "stream"
  /\ E!HasTerminal(a)
  /\ att[a].seq + 1 = remote[a].seq
  /\ AcceptTerminal(a, remote[a].terminal)
  /\ \E pc \in {"off", "poll"} : GoTo(a, pc)
  /\ UNCHANGED <<output, step, suspended, cancelSent, remote, wire, faults>>

\* Everything was read of an attempt that has no terminal event to come.
NothingToRead(a) == E!Mute(a) /\ att[a].seq = remote[a].seq

\* The stream closes without a terminal event: nothing is written, and the
\* observer goes round.
StreamEnds(a) ==
  /\ worker[a].pc = "stream"
  /\ NothingToRead(a)
  /\ remote[a].state = "ended"
  /\ GoTo(a, "poll")
  /\ UNCHANGED <<durable, output, step, suspended, cancelSent, remote, wire,
                 faults>>

\* The observer finds out that its exchange can no longer succeed: the engine
\* forgot the attempt, refused it, or keeps the stream open and silent.
ObserverBroken(a) ==
  \/ worker[a].pc = "stream" /\ ~Known(a)
  \/ /\ worker[a].pc = "stream"
     /\ NothingToRead(a)
     /\ remote[a].state = "jammed"
  \/ worker[a].pc = "sent" /\ Refused(a)

\* The except clause of the loop: uncertain, a delay, and another look.
ObserverFails(a) ==
  /\ worker[a].pc \notin {"off"}
  /\ \/ ObserverBroken(a) /\ UNCHANGED faults
     \/ ~ObserverBroken(a) /\ Fault
  /\ job' = Interrupted(a)
  /\ GoTo(a, "poll")
  /\ wire' = wire \ {a}
  /\ UNCHANGED <<att, take, output, step, suspended, cancelSent, remote>>

-----------------------------------------------------------------------------
(* Cancellation. *)

\* cancellation.request, from the API.
RequestCancel(j) ==
  LET jrow == [job[j] EXCEPT !.cancel = TRUE,
                 !.status = IF job[j].attempt = 0 THEN "cancelled" ELSE @]
  IN  /\ j \in Cancellable
      /\ job[j].status \notin Ended
      /\ ~job[j].cancel
      /\ job' = [job EXCEPT ![j] = jrow]
      /\ take' = IF job[j].attempt = 0 THEN TakeAfter(j, jrow, NoAttempt)
                 ELSE take
      /\ UNCHANGED <<att, output, server, remote, wire, faults>>

\* runtime._cancel: DELETE to an engine that has the attempt and whose health
\* names no other one.
SendCancel(a) ==
  /\ MainIdle
  /\ Live(a) /\ job[a[1]].cancel
  /\ a \notin cancelSent
  /\ E!Cancel(a)
  /\ \A b \in Attempts :
       EngineOf[b[1]] = EngineOf[a[1]] /\ Known(b) /\ remote[b].state # "ended"
         => b = a
  /\ cancelSent' = cancelSent \cup {a}
  /\ UNCHANGED <<durable, step, worker, suspended, wire, faults>>

-----------------------------------------------------------------------------
\* The server dies and starts again: everything in memory is gone, and
\* recovery.startup turns what was running into interrupted.
ServerCrash ==
  /\ Fault
  /\ job' = [j \in Jobs |-> [job[j] EXCEPT
               !.status = IF @ = "running" THEN "interrupted" ELSE @]]
  /\ step' = [j \in Jobs |-> "idle"]
  /\ worker' = [a \in Attempts |-> NoWorker]
  /\ suspended' = {}
  /\ cancelSent' = {}
  /\ wire' = {}
  /\ UNCHANGED <<att, take, output, remote>>

MainLoop(j) == \/ Screen(j) \/ Reserve(j) \/ ReserveRetry(j) \/ Capture(j)
               \/ Send(j) \/ Acknowledge(j) \/ SendStops(j) \/ CloseVram(j)

Observer(a) == \/ Spawn(a) \/ Retire(a) \/ Ask(a) \/ Answer(a) \/ Suspend(a)
               \/ AcceptLost(a) \/ Repeat(a) \/ PrepareResend(a)
               \/ ResendRefused(a) \/ Resend(a) \/ ResendAcknowledged(a)
               \/ AcceptProgress(a) \/ AcceptEnd(a) \/ StreamEnds(a)
               \/ ObserverFails(a)

Next ==
  \/ \E j \in Jobs : MainLoop(j) \/ SendFails(j) \/ RequestCancel(j)
  \/ \E a \in Attempts : Observer(a) \/ Engine(a) \/ EngineFails(a)
                         \/ Deliver(a) \/ SendCancel(a)
  \/ \E e \in Engines : EngineCrash(e)
  \/ ServerCrash

Spec == Init /\ [][Next]_vars

\* The loop of runtime._run comes round every poll_s: each of its stages and
\* each observer it spawned keeps being scheduled.  Spawning and cancelling
\* happen once per round, between two dispatches, so they cannot be skipped
\* for ever by dispatches that come and go.  An engine thread and the network
\* make progress; faults are bounded, and no user action is fair.
Fairness ==
  /\ \A j \in Jobs : WF_vars(MainLoop(j))
  /\ \A a \in Attempts :
       /\ WF_vars(Observer(a)) /\ SF_vars(Spawn(a)) /\ SF_vars(SendCancel(a))
       /\ WF_vars(Engine(a)) /\ WF_vars(Deliver(a))

FairSpec == Spec /\ Fairness

-----------------------------------------------------------------------------
(* Safety. *)

\* Lane limits survive every interleaving of reservation, retry, crash and
\* recovery: one gpu reservation, two cpu reservations (ADR-0018).
LaneLimits ==
  /\ \A i, j \in Jobs : /\ Lane[i] = "gpu" /\ Lane[j] = "gpu"
                        /\ Occupied(i) /\ Occupied(j)
                        => i = j
  /\ Cardinality(Occupants("cpu")) <= 2

\* At most one gpu engine generates at any moment, whatever the server
\* believes: the card holds one resident model (ADR-0007).
OneGpuRun ==
  \A a, b \in Attempts :
    /\ Lane[a[1]] = "gpu" /\ Lane[b[1]] = "gpu"
    /\ Running(a) /\ Running(b)
    => a = b

\* The attempts of a job are a chain: every one but the last ended in a
\* retryable error, and those after the last do not exist (ADR-0043).
AttemptChain ==
  \A j \in Jobs : \A k \in Ordinals :
    /\ k < job[j].attempt =>
         /\ att[<<j, k>>].status = "failed"
         /\ att[<<j, k>>].terminal \in {"retryable", "vram"}
    /\ k > job[j].attempt => att[<<j, k>>] = NoAttempt

\* A job is settled exactly when its current attempt is, and the job says
\* what the attempt says, except that a cancellation committed first wins.
JobFollowsAttempt ==
  \A j \in Jobs : job[j].attempt > 0 =>
    LET t == att[Current(j)].terminal
    IN  /\ Reserved(j) <=> t = "none"
        /\ t # "none" => job[j].status = IF job[j].cancel THEN "cancelled"
                                         ELSE EndStatus(t)

\* No success after a committed cancellation: a late done leaves the job
\* cancelled and no take can be made ready from it (ADR-0043).
CancelWins == \A j \in Jobs : job[j].cancel => job[j].status # "succeeded"

\* The takes of a generation end with it, and only when no automatic retry
\* is pending (terminal_takes).
TakesFollowJob ==
  \A j \in Musical :
    LET definitive == job[j].status = "cancelled"
                      \/ /\ job[j].status = "failed"
                         /\ ~RetryPending(job[j], att[Current(j)])
    IN  take[j] = IF definitive THEN job[j].status ELSE "queued"

\* The change to offload happens once, only where the model has the mode and
\* only after running out of memory in full.  It is not undone: an offloaded
\* attempt is tried again, offloaded, after a retryable error, and not at all
\* after a second VRAM_EXCEEDED (ADR-0043).
OffloadTransition ==
  \A j \in Jobs : \A k \in 1..job[j].attempt :
    /\ att[<<j, k>>].mode = "offload" => HasOffload[j] /\ k > 1
    /\ k > 1 =>
         LET before == att[<<j, k - 1>>]
         IN  /\ before.mode = "full" =>
                  (att[<<j, k>>].mode = "offload" <=> before.terminal = "vram")
             /\ before.mode = "offload" =>
                  /\ att[<<j, k>>].mode = "offload"
                  /\ before.terminal = "retryable"

\* The durable cursor never runs ahead of an engine that has the attempt, so
\* the "cursor went back" branch of the observer is only a defence.
CursorBehindEngine ==
  \A a \in Attempts :
    Live(a) /\ Known(a) => att[a].seq <= remote[a].seq

\* No generation reaches an engine without its provenance row (ADR-0060).
SentWithProvenance ==
  \A a \in Attempts : remote[a].state # "absent" => HasEvidence(a)

(* Action properties. *)

\* A settled attempt is never rewritten; cursors and provenance never go back.
AttemptHistory ==
  [][\A a \in Attempts :
       /\ att[a].terminal # "none" => att'[a] = att[a]
       /\ att'[a].seq >= att[a].seq
       /\ att[a].prov => att'[a].prov]_vars

\* A definitive end is final: only a failed job with budget left goes on, and
\* never once a cancellation is recorded.
EndIsFinal ==
  [][\A j \in Jobs :
       /\ job[j].status \in Ended /\ job'[j].status # job[j].status
            => RetryPending(job[j], att[Current(j)])
       /\ job[j].cancel => job'[j].attempt = job[j].attempt]_vars

\* The output of an attempt is that of one run: a job that succeeded has it on
\* disk, through crashes of both sides, for post.audio to read, and a run of
\* the engine never starts on the directory of an earlier run of the same
\* attempt (ADR-0090: the outputs would be mixed).
OutputKept ==
  /\ [](\A j \in Jobs : job[j].status = "succeeded" => Current(j) \in output)
  /\ [][\A a \in Attempts :
          remote[a].state = "loading" /\ remote'[a].state = "busy"
            => a \notin output]_vars

(* Liveness. *)

\* An engine that is busy until it is restarted.
Jammed(e) ==
  \E b \in Attempts : EngineOf[b[1]] = e /\ remote[b].state = "jammed"

\* What the engine leaves without an answer until it is restarted: an attempt
\* that ended without a terminal event, and one it does not know and is too
\* busy to take.
Unanswered(a) ==
  E!Mute(a) \/ (~Known(a) /\ Jammed(EngineOf[a[1]]))

\* An attempt whose provenance was captured and that nobody cancels is
\* settled, whatever crashes: streamed, sent again, or declared lost, unless
\* its engine never answers for it.  (The attempts are finitely many and each
\* is live once, so that one that stays live for ever is seen as well here as
\* with a leads-to of its own.)
ObservedSettles ==
  []<>(\A a \in Attempts :
         Live(a) /\ HasEvidence(a) => job[a[1]].cancel \/ Unanswered(a))

\* Reservations that recovery leaves as they are: never captured, cancelled,
\* or ended in the engine without a terminal event.  Whether they end depends
\* on the engine knowing, or forgetting, them.
Wedged(j) ==
  Reserved(j) /\ (job[j].cancel \/ ~HasEvidence(Current(j))
                                \/ E!Mute(Current(j)))

\* No job stays queued: it is reserved or cancelled, unless a reservation is
\* wedged or an engine jammed.
QueueMoves ==
  []<>(\/ \A j \in Jobs : job[j].status # "queued"
       \/ \E i \in Jobs : Wedged(i)
       \/ \E e \in Engines : Jammed(e))

\* ADR-0090: an interrupted generation always ends, it is never left hanging.
InterruptedSettles ==
  \A j \in Jobs : job[j].status = "interrupted" ~> job[j].status \in Ended
=============================================================================
