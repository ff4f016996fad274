------------------------ MODULE CpuPublicationProofs ------------------------
(***************************************************************************)
(* What the CPU worker guarantees for any posts, takes, slots, crashes and *)
(* faults: the rows, the disk and the processes agree, what is prepared    *)
(* can be published, and the promises of TakeLedger are kept.              *)
(*                                                                         *)
(* A step of the worker is about one post.  The inductive invariant is     *)
(* therefore said post by post (Local), every action is shown to leave the *)
(* other posts alone (Frame), and to keep what is said of its own.         *)
(***************************************************************************)
EXTENDS CpuPublication, TLAPS

-----------------------------------------------------------------------------
(* The inductive invariant.                                                *)

Settled(t) == intent[t] \in {"committed", "failed", "cancelled"}

\* The stages of a take in the hands of the thread, and those in which the
\* execution runs.
TakeSteps == {"packaged", "sealed", "prepared", "renamed", "committed",
              "rejecting"}
Running == TakeSteps \cup {"consuming", "replaying", "finishing"}
Launching == {"reserved", "marked", "launched"}
Leaving == {"unwinding", "closing", "failing"}

\* The states a post and its execution may have together.
Pairs == {<<"queued", "none">>, <<"failed", "none">>, <<"cancelled", "none">>,
          <<"running", "none">>, <<"running", "prepared">>,
          <<"running", "running">>, <<"running", "interrupted">>,
          <<"interrupted", "prepared">>, <<"interrupted", "running">>,
          <<"interrupted", "interrupted">>,
          <<"succeeded", "finished">>, <<"cancelled", "cancelled">>}

Rows(p) ==
  /\ <<job[p].status, cpu[p].state>> \in Pairs
  /\ cpu[p].state = "none" => /\ cpu[p].identity = "none"
                              /\ \A t \in TakesOf[p] : intent[t] = "none"
  /\ cpu[p].state # "none" => \A t \in TakesOf[p] : intent[t] # "none"
  /\ cpu[p].state \in CpuEnded => \A t \in TakesOf[p] : Settled(t)
  /\ cpu[p].state = "finished" => \A t \in TakesOf[p] :
       beats[t] = (IF take[t] = "ready" THEN "blocked" ELSE "failed")
  /\ cpu[p].state # "finished" => \A t \in TakesOf[p] : beats[t] = "blocked"
  /\ job[p].status \notin Ended => p \in raw
  /\ p \in sweeping => job[p].status = "cancelled"

Lists(p) ==
  \A t \in TakesOf[p] :
    /\ take[t] = (CASE intent[t] = "committed" -> "ready"
                    [] intent[t] = "failed" -> "failed"
                    [] intent[t] = "cancelled" -> "cancelled"
                    [] OTHER -> "queued")
    /\ t \in final => intent[t] \in {"prepared", "committed", "cancelled"}
    /\ intent[t] = "committed" => t \in final /\ stage[t] = "none"
    /\ intent[t] = "prepared" =>
         /\ t \in marker
         /\ stage[t] = (IF t \in final THEN "none" ELSE "package")

Processes(p) ==
  /\ cpu[p].identity = "none" => ~Alive(p)
  /\ cpu[p].state \in CpuEnded => ~Alive(p)
  /\ owner[p] = "closed" => ~Alive(p)
  /\ owner[p] = "none" /\ worker[p].pc \notin {"idle", "resuming", "failing"}
       => ~Alive(p)
  /\ \/ cpu[p].state = "none"
     \/ worker[p].pc \in {"resuming", "planning", "reserved", "marked"}
     => owner[p] = "none"
  /\ child[p].todo \subseteq TakesOf[p]
  /\ (child[p].good \cup child[p].bad) \subseteq TakesOf[p] \ child[p].todo
  /\ Alive(p) => \A t \in child[p].todo : intent[t] = "reserved"

\* What the thread knows of the rows, by the stage it is in.
Thread(p) ==
  LET w == worker[p]
  IN /\ w.pc \in {"planning"} \cup Launching \cup Running =>
          job[p].status = "running"
     /\ w.pc = "planning" =>
          /\ cpu[p].state = (IF w.resume THEN "prepared" ELSE "none")
          /\ w.skip = {} /\ w.seen = {} /\ w.take = {}
     /\ w.pc \in Launching =>
          cpu[p].state = "prepared" /\ w.seen = {} /\ w.take = {}
     /\ w.pc \in {"marked", "launched"} => cpu[p].identity = "launching"
     /\ w.pc \in Running => cpu[p].state = "running"
     /\ w.pc = "clearing" => job[p].status = "succeeded"
     /\ w.pc \in Leaving => job[p].status \in {"running", "succeeded"}

Progress(p) ==
  LET w == worker[p]
  IN /\ w.pc \in Launching \cup Running =>
          /\ w.skip \subseteq TakesOf[p]
          /\ w.seen \subseteq TakesOf[p] \ w.skip
          /\ w.take \subseteq w.seen \cup w.skip
          /\ w.seen \cap child[p].todo = {}
          /\ \A t \in w.skip : intent[t] \notin {"none", "reserved"}
          /\ \A t \in TakesOf[p] \ (w.skip \cup w.seen) :
               intent[t] = "reserved"
          /\ \A t \in w.seen \ w.take : Settled(t)
     /\ w.pc \in {"consuming", "replaying", "finishing"} => w.take = {}
     /\ w.pc \in TakeSteps => \E t \in TakesOf[p] : w.take = {t}
     /\ \/ w.pc \in {"replaying", "finishing"}
        \/ w.pc \in TakeSteps /\ w.take \cap w.skip # {}
        => w.seen = TakesOf[p] \ w.skip /\ owner[p] \in {"none", "closed"}
     /\ \/ w.pc \in {"launched", "consuming"}
        \/ w.pc \in TakeSteps /\ w.take \cap w.skip = {}
        => w.skip \cap (child[p].todo \cup child[p].good \cup child[p].bad) = {}
     /\ w.pc = "finishing" => \A t \in TakesOf[p] : Settled(t)

\* The take in the hands of the thread.
Held(p) ==
  LET w == worker[p]
  IN \A t \in w.take :
       /\ w.pc \in {"packaged", "sealed", "rejecting"} =>
            t \in w.seen /\ intent[t] = "reserved"
       /\ w.pc = "sealed" => t \in marker /\ stage[t] = "package"
       /\ w.pc \in {"prepared", "renamed"} => intent[t] = "prepared"
       /\ w.pc = "renamed" => t \in final
       /\ w.pc = "committed" => Settled(t)

Local(p) ==
  Rows(p) /\ Lists(p) /\ Processes(p) /\ Thread(p) /\ Progress(p) /\ Held(p)

\* A server that is down, or not up yet, has no thread.
Still == server # "up" => \A p \in Posts : worker[p].pc = "idle"

IInv == TypeOK /\ Still /\ \A p \in Posts : Local(p)

-----------------------------------------------------------------------------
(* A step and the thread it belongs to.                                    *)

\* Go writes the stage and nothing else.
LEMMA GoKeeps ==
  ASSUME TypeOK, NEW p \in Posts, NEW pc, Go(p, pc)
  PROVE  /\ worker'[p].pc = pc
         /\ worker'[p].resume = worker[p].resume
         /\ worker'[p].skip = worker[p].skip
         /\ worker'[p].seen = worker[p].seen
         /\ worker'[p].take = worker[p].take
BY DEF TypeOK, Go

\* So does an error, which goes by the custody.
LEMMA ThrowKeeps ==
  ASSUME TypeOK, NEW p \in Posts, Throw(p)
  PROVE  /\ worker'[p].pc = (IF owner[p] = "none" THEN "failing"
                                                  ELSE "unwinding")
         /\ worker'[p].resume = worker[p].resume
         /\ worker'[p].skip = worker[p].skip
         /\ worker'[p].seen = worker[p].seen
         /\ worker'[p].take = worker[p].take
BY GoKeeps DEF Throw

\* Nothing is asked of a thread that has left the execution.
LEMMA Away ==
  ASSUME NEW p \in Posts, worker'[p].pc \in Leaving \cup {"idle", "resuming"}
  PROVE  Progress(p)' /\ Held(p)'
BY DEF Leaving, Progress, Held, Launching, Running, TakeSteps

\* A group that is killed keeps its list of takes, and loses what it sent.
LEMMA KilledKeeps ==
  ASSUME TypeOK, NEW p \in Posts, NEW phase, Killed(p, phase)
  PROVE  /\ child'[p].phase = phase
         /\ child'[p].todo = child[p].todo
         /\ child'[p].good \subseteq child[p].good
         /\ child'[p].bad \subseteq child[p].bad
BY DEF TypeOK, Killed

-----------------------------------------------------------------------------
(* One lemma for each action: what is said of its post is kept.            *)

\* A queued post that is claimed has no execution yet.
LEMMA ClaimJobKeeps ==
  ASSUME TypeOK, NEW p \in Posts, Local(p), ClaimJob(p)
  PROVE  Local(p)'
<1>1. Rows(p)'
  BY CpuAssumption
     DEF TypeOK, Local, ClaimJob, Idle, rows, disk, memory, tasks, budgets,
         Rows, Settled, Pairs, Ended, CpuEnded, Thread, Launching, Running,
         TakeSteps, Leaving
<1>2. Lists(p)'
  BY CpuAssumption
     DEF TypeOK, Local, ClaimJob, Idle, rows, disk, memory, tasks, budgets,
         Lists, Rows, Pairs, CpuEnded, Settled, Thread, Launching, Running,
         TakeSteps, Leaving, Progress, Held
<1>3. Processes(p)'
  BY CpuAssumption
     DEF TypeOK, Local, ClaimJob, Idle, rows, disk, memory, tasks, budgets,
         Processes, Alive, CpuEnded, Rows, Pairs, Progress, Held, Thread,
         Launching, Running, TakeSteps, Leaving
<1>4. Thread(p)'
  BY CpuAssumption
     DEF TypeOK, Local, ClaimJob, Idle, rows, disk, memory, tasks, budgets,
         Thread, Launching, Running, TakeSteps, Leaving, Rows, Pairs
<1>5. Progress(p)'
  BY CpuAssumption
     DEF TypeOK, Local, ClaimJob, Idle, rows, disk, memory, tasks, budgets,
         Progress, Launching, Running, TakeSteps, Settled, Rows, Pairs,
         Processes, Thread, Leaving
<1>6. Held(p)'
  BY CpuAssumption
     DEF TypeOK, Local, ClaimJob, Idle, rows, disk, memory, tasks, budgets,
         Held, Settled, Progress, Rows
<1> QED BY <1>1, <1>2, <1>3, <1>4, <1>5, <1>6 DEF Local

\* What is read before the barrier changes nothing of the post.
LEMMA ReadResumeKeeps ==
  ASSUME TypeOK, NEW p \in Posts, Local(p), ReadResume(p)
  PROVE  Local(p)'
<1>1. Rows(p)'
  BY CpuAssumption
     DEF TypeOK, Local, ReadResume, Idle, Resumable, rows, disk, memory,
         tasks, budgets, Rows, Settled, Pairs, Ended, CpuEnded, Thread,
         Launching, Running, TakeSteps, Leaving
<1>2. Lists(p)'
  BY CpuAssumption
     DEF TypeOK, Local, ReadResume, Idle, Resumable, rows, disk, memory,
         tasks, budgets, Lists, Rows, Pairs, CpuEnded, Settled, Thread,
         Launching, Running, TakeSteps, Leaving, Progress, Held
<1>3. Processes(p)'
  BY CpuAssumption
     DEF TypeOK, Local, ReadResume, Idle, Resumable, rows, disk, memory,
         tasks, budgets, Processes, Alive, CpuEnded, Rows, Pairs, Progress,
         Held, Thread, Launching, Running, TakeSteps, Leaving
<1>4. Thread(p)'
  BY CpuAssumption
     DEF TypeOK, Local, ReadResume, Idle, Resumable, rows, disk, memory,
         tasks, budgets, Thread, Launching, Running, TakeSteps, Leaving,
         Rows, Pairs
<1>5. Progress(p)'
  BY CpuAssumption
     DEF TypeOK, Local, ReadResume, Idle, Resumable, rows, disk, memory,
         tasks, budgets, Progress, Launching, Running, TakeSteps, Settled,
         Rows, Pairs, Processes, Thread, Leaving
<1>6. Held(p)'
  BY CpuAssumption
     DEF TypeOK, Local, ReadResume, Idle, Resumable, rows, disk, memory,
         tasks, budgets, Held, Settled, Progress, Rows
<1> QED BY <1>1, <1>2, <1>3, <1>4, <1>5, <1>6 DEF Local

\* A resumed execution forgets the identity of a group proved dead.
LEMMA ClaimResumeKeeps ==
  ASSUME TypeOK, NEW p \in Posts, Local(p), ClaimResume(p)
  PROVE  Local(p)'
<1>1. /\ worker[p].pc = "resuming" /\ intent' = intent
      /\ child' = child /\ owner' = owner
      /\ \/ worker'[p].pc = "idle" /\ cpu' = cpu /\ job' = job
         \/ /\ worker'[p].pc = "planning" /\ worker'[p].resume
            /\ worker'[p].skip = {} /\ worker'[p].seen = {}
            /\ worker'[p].take = {}
            /\ job'[p].status = "running"
            /\ cpu'[p].state = "prepared" /\ cpu'[p].identity = "none"
            /\ Dead(p)
  <2>1. CASE /\ worker' = [worker EXCEPT ![p] = Idle]
             /\ UNCHANGED <<job, cpu, resumed>>
    BY <2>1 DEF ClaimResume, Idle, TypeOK
  <2>2. CASE ~ /\ worker' = [worker EXCEPT ![p] = Idle]
               /\ UNCHANGED <<job, cpu, resumed>>
    <3>1. /\ Dead(p)
          /\ worker'[p] = [Idle EXCEPT !.pc = "planning", !.resume = TRUE]
      BY <2>2 DEF ClaimResume, TypeOK
    <3>2. job'[p].status = "running"
      BY <2>2 DEF ClaimResume, TypeOK
    <3>3. cpu'[p].state = "prepared" /\ cpu'[p].identity = "none"
      BY <2>2 DEF ClaimResume, TypeOK
    <3> QED BY <3>1, <3>2, <3>3 DEF ClaimResume, Idle
  <2> QED BY <2>1, <2>2
<1>2. Rows(p)'
  BY CpuAssumption
     DEF TypeOK, Local, ClaimResume, Dead, Idle, rows, disk, memory, tasks,
         budgets, Rows, Settled, Pairs, Ended, CpuEnded, Thread, Launching,
         Running, TakeSteps, Leaving
<1>3. Lists(p)'
  BY CpuAssumption
     DEF TypeOK, Local, ClaimResume, Dead, Idle, rows, disk, memory, tasks,
         budgets, Lists, Rows, Pairs, CpuEnded, Settled, Thread, Launching,
         Running, TakeSteps, Leaving, Progress, Held
<1>4. Processes(p)'
  BY <1>1 DEF Local, Processes, Alive, Dead, CpuEnded
<1>5. Thread(p)'
  BY <1>1 DEF Local, Thread, Launching, Running, TakeSteps, Leaving
<1>6. Progress(p)'
  BY <1>1 DEF Progress, Launching, Running, TakeSteps
<1>7. Held(p)'
  BY <1>1 DEF Held
<1> QED BY <1>2, <1>3, <1>4, <1>5, <1>6, <1>7 DEF Local

\* The intents appear with the execution, all reserved.
LEMMA ReserveKeeps ==
  ASSUME TypeOK, NEW p \in Posts, Local(p), Reserve(p)
  PROVE  Local(p)'
<1>1. /\ worker[p].pc = "planning" /\ ~worker[p].resume
      /\ job' = job /\ child' = child /\ owner' = owner /\ stage' = stage
  BY DEF Reserve, disk
<1>2. Rows(p)'
  BY CpuAssumption
     DEF TypeOK, Local, Reserve, SetIntents, Throw, Go, rows, disk, memory,
         tasks, budgets, Rows, Settled, Pairs, Ended, CpuEnded, Thread,
         Launching, Running, TakeSteps, Leaving
<1>3. Lists(p)'
  BY CpuAssumption
     DEF TypeOK, Local, Reserve, SetIntents, Throw, Go, rows, disk, memory,
         tasks, budgets, Lists, Rows, Pairs, CpuEnded, Settled, Thread,
         Launching, Running, TakeSteps, Leaving, Progress, Held
<1>4. Processes(p)'
  BY CpuAssumption
     DEF TypeOK, Local, Reserve, SetIntents, Throw, Go, rows, disk, memory,
         tasks, budgets, Processes, Alive, CpuEnded, Rows, Pairs, Progress,
         Held, Thread, Launching, Running, TakeSteps, Leaving
<1>5. Thread(p)'
  <2>1. CASE Throw(p) /\ cpu' = cpu
    <3>1. worker'[p].pc \in {"failing", "unwinding"}
      BY <2>1, ThrowKeeps
    <3> QED BY <1>1, <2>1, <3>1 DEF Local, Thread, Leaving, Launching,
               Running, TakeSteps
  <2>2. CASE cpu' = [cpu EXCEPT ![p].state = "prepared"] /\ Go(p, "reserved")
    <3>1. worker'[p].pc = "reserved" /\ worker'[p].seen = worker[p].seen
          /\ worker'[p].take = worker[p].take
      BY <2>2, GoKeeps
    <3>2. cpu'[p].state = "prepared"
      BY <2>2 DEF TypeOK
    <3> QED BY <1>1, <3>1, <3>2 DEF Local, Thread, Leaving, Launching,
               Running, TakeSteps
  <2> QED BY <2>1, <2>2 DEF Reserve
<1>6. Progress(p)'
  <2>1. CASE Throw(p)
    BY <2>1, ThrowKeeps, Away DEF Leaving
  <2>2. CASE Go(p, "reserved") /\ SetIntents(TakesOf[p], "reserved")
    <3>1. /\ worker'[p].pc = "reserved" /\ worker'[p].skip = {}
          /\ worker'[p].seen = {} /\ worker'[p].take = {}
      BY <1>1, <2>2, GoKeeps DEF Local, Thread
    <3>2. \A t \in TakesOf[p] : intent'[t] = "reserved"
      BY <2>2, CpuAssumption DEF SetIntents, TypeOK
    <3> QED BY <3>1, <3>2 DEF Progress, Launching, Running, TakeSteps
  <2> QED BY <2>1, <2>2 DEF Reserve
<1>7. Held(p)'
  BY CpuAssumption
     DEF TypeOK, Local, Reserve, SetIntents, Throw, Go, rows, disk, memory,
         tasks, budgets, Held, Settled, Progress, Rows
<1> QED BY <1>2, <1>3, <1>4, <1>5, <1>6, <1>7 DEF Local

\* What a resumed execution removes belongs to reserved intents.
LEMMA PrepareResumeKeeps ==
  ASSUME TypeOK, NEW p \in Posts, Local(p), PrepareResume(p)
  PROVE  Local(p)'
<1>1. /\ worker[p].pc = "planning" /\ worker[p].resume
      /\ worker[p].seen = {} /\ worker[p].take = {}
      /\ cpu[p].state = "prepared" /\ job[p].status = "running"
      /\ owner[p] = "none" /\ \A t \in TakesOf[p] : intent[t] # "none"
      /\ job' = job /\ intent' = intent /\ child' = child /\ owner' = owner
  BY DEF PrepareResume, Local, Thread, Processes, Rows, Launching, Running,
     TakeSteps
<1>2. \/ Throw(p) /\ cpu' = cpu
      \/ /\ worker' = [worker EXCEPT
              ![p].pc = "reserved",
              ![p].skip = TakesOf[p] \ {t \in TakesOf[p] :
                                          intent[t] = "reserved"}]
         /\ cpu' = cpu
      \/ /\ worker' = [worker EXCEPT
              ![p].pc = "replaying",
              ![p].skip = TakesOf[p] \ {t \in TakesOf[p] :
                                          intent[t] = "reserved"}]
         /\ cpu' = [cpu EXCEPT ![p].state = "running"]
         /\ \A t \in TakesOf[p] : intent[t] # "reserved"
  BY DEF PrepareResume
<1>3. \/ worker'[p].pc \in {"failing", "unwinding"} /\ cpu' = cpu
      \/ /\ worker'[p].pc = "reserved" /\ cpu' = cpu
         /\ worker'[p].seen = {} /\ worker'[p].take = {}
         /\ worker'[p].skip = TakesOf[p] \ {t \in TakesOf[p] :
                                              intent[t] = "reserved"}
      \/ /\ worker'[p].pc = "replaying" /\ cpu'[p].state = "running"
         /\ worker'[p].seen = {} /\ worker'[p].take = {}
         /\ worker'[p].skip = TakesOf[p]
         /\ \A t \in TakesOf[p] : intent[t] # "reserved"
  <2>1. CASE Throw(p) /\ cpu' = cpu
    BY <2>1, ThrowKeeps
  <2> DEFINE skip == TakesOf[p] \ {t \in TakesOf[p] : intent[t] = "reserved"}
  <2>2. CASE worker' = [worker EXCEPT ![p].pc = "reserved", ![p].skip = skip]
             /\ cpu' = cpu
    BY <1>1, <2>2 DEF TypeOK
  <2>3. CASE /\ worker' = [worker EXCEPT ![p].pc = "replaying",
                                         ![p].skip = skip]
             /\ cpu' = [cpu EXCEPT ![p].state = "running"]
             /\ \A t \in TakesOf[p] : intent[t] # "reserved"
    <3>1. worker'[p].pc = "replaying" /\ worker'[p].seen = {}
          /\ worker'[p].take = {} /\ worker'[p].skip = skip
      BY <1>1, <2>3 DEF TypeOK
    <3>2. cpu'[p].state = "running"
      BY <2>3 DEF TypeOK
    <3> QED BY <2>3, <3>1, <3>2
  <2> QED BY <1>2, <2>1, <2>2, <2>3
<1>4. Rows(p)'
  BY CpuAssumption
     DEF TypeOK, Local, PrepareResume, Throw, Go, rows, disk, memory, tasks,
         budgets, Rows, Settled, Pairs, Ended, CpuEnded, Thread, Launching,
         Running, TakeSteps, Leaving
<1>5. Lists(p)'
  BY CpuAssumption
     DEF TypeOK, Local, PrepareResume, Throw, Go, rows, disk, memory, tasks,
         budgets, Lists, Rows, Pairs, CpuEnded, Settled, Thread, Launching,
         Running, TakeSteps, Leaving, Progress, Held
<1>6. Processes(p)'
  BY CpuAssumption
     DEF TypeOK, Local, PrepareResume, Throw, Go, rows, disk, memory, tasks,
         budgets, Processes, Alive, CpuEnded, Rows, Pairs, Progress, Held,
         Thread, Launching, Running, TakeSteps, Leaving
<1>7. Thread(p)'
  BY <1>1, <1>3 DEF Thread, Leaving, Launching, Running, TakeSteps
<1>8. Progress(p)'
  BY <1>1, <1>3, Away
     DEF Leaving, Progress, Launching, Running, TakeSteps
<1>9. Held(p)'
  BY CpuAssumption
     DEF TypeOK, Local, PrepareResume, Throw, Go, rows, disk, memory, tasks,
         budgets, Held, Settled, Progress, Rows
<1> QED BY <1>4, <1>5, <1>6, <1>7, <1>8, <1>9 DEF Local

\* The mark comes before any process.
LEMMA MarkLaunchingKeeps ==
  ASSUME TypeOK, NEW p \in Posts, Local(p), MarkLaunching(p)
  PROVE  Local(p)'
<1>1. Rows(p)'
  BY CpuAssumption
     DEF TypeOK, Local, MarkLaunching, Go, rows, disk, memory, tasks,
         budgets, Rows, Settled, Pairs, Ended, CpuEnded, Thread, Launching,
         Running, TakeSteps, Leaving
<1>2. Lists(p)'
  BY CpuAssumption
     DEF TypeOK, Local, MarkLaunching, Go, rows, disk, memory, tasks,
         budgets, Lists, Rows, Pairs, CpuEnded, Settled, Thread, Launching,
         Running, TakeSteps, Leaving, Progress, Held
<1>3. Processes(p)'
  BY CpuAssumption
     DEF TypeOK, Local, MarkLaunching, Go, rows, disk, memory, tasks,
         budgets, Processes, Alive, CpuEnded, Rows, Pairs, Progress, Held,
         Thread, Launching, Running, TakeSteps, Leaving
<1>4. Thread(p)'
  BY CpuAssumption
     DEF TypeOK, Local, MarkLaunching, Go, rows, disk, memory, tasks,
         budgets, Thread, Launching, Running, TakeSteps, Leaving, Rows,
         Pairs
<1>5. Progress(p)'
  BY CpuAssumption
     DEF TypeOK, Local, MarkLaunching, Go, rows, disk, memory, tasks,
         budgets, Progress, Launching, Running, TakeSteps, Settled, Rows,
         Pairs, Processes, Thread, Leaving
<1>6. Held(p)'
  BY CpuAssumption
     DEF TypeOK, Local, MarkLaunching, Go, rows, disk, memory, tasks,
         budgets, Held, Settled, Progress, Rows
<1> QED BY <1>1, <1>2, <1>3, <1>4, <1>5, <1>6 DEF Local

\* A new group works on the takes that are not skipped.
LEMMA LaunchKeeps ==
  ASSUME TypeOK, NEW p \in Posts, Local(p), Launch(p)
  PROVE  Local(p)'
<1>1. /\ worker[p].pc = "marked" /\ worker'[p].pc = "launched"
      /\ owner'[p] = "starting" /\ intent' = intent /\ cpu' = cpu
      /\ child'[p].phase = "gated" /\ child'[p].good = {} /\ child'[p].bad = {}
      /\ child'[p].todo = TakesOf[p] \ worker[p].skip
  BY GoKeeps DEF Launch, TypeOK, rows
<1>2. /\ \A t \in TakesOf[p] \ worker[p].skip : intent[t] = "reserved"
      /\ cpu[p].state = "prepared" /\ cpu[p].identity = "launching"
  BY <1>1 DEF Local, Thread, Progress, Launching
<1>3. Rows(p)'
  BY CpuAssumption
     DEF TypeOK, Local, Launch, Go, rows, disk, memory, tasks, budgets,
         Rows, Settled, Pairs, Ended, CpuEnded, Thread, Launching, Running,
         TakeSteps, Leaving
<1>4. Lists(p)'
  BY CpuAssumption
     DEF TypeOK, Local, Launch, Go, rows, disk, memory, tasks, budgets,
         Lists, Rows, Pairs, CpuEnded, Settled, Thread, Launching, Running,
         TakeSteps, Leaving, Progress, Held
<1>5. Processes(p)'
  BY <1>1, <1>2 DEF Processes, CpuEnded
<1>6. Thread(p)'
  BY CpuAssumption
     DEF TypeOK, Local, Launch, Go, rows, disk, memory, tasks, budgets,
         Thread, Launching, Running, TakeSteps, Leaving, Rows, Pairs
<1>7. Progress(p)'
  BY CpuAssumption
     DEF TypeOK, Local, Launch, Go, rows, disk, memory, tasks, budgets,
         Progress, Launching, Running, TakeSteps, Settled, Rows, Pairs,
         Processes, Thread, Leaving
<1>8. Held(p)'
  BY CpuAssumption
     DEF TypeOK, Local, Launch, Go, rows, disk, memory, tasks, budgets,
         Held, Settled, Progress, Rows
<1> QED BY <1>3, <1>4, <1>5, <1>6, <1>7, <1>8 DEF Local

\* A group that may exist keeps the mark of its launch.
LEMMA LaunchFailsKeeps ==
  ASSUME TypeOK, NEW p \in Posts, Local(p), LaunchFails(p)
  PROVE  Local(p)'
<1>1. /\ worker[p].pc = "marked" /\ worker'[p].pc = "failing"
      /\ owner' = owner /\ intent' = intent
      /\ cpu[p].state = "prepared" /\ cpu[p].identity = "launching"
      /\ owner[p] = "none"
  BY GoKeeps DEF LaunchFails, Local, Thread, Processes, Launching
<1>2. \/ child' = child /\ cpu'[p].state = "prepared"
      \/ /\ cpu' = cpu /\ child'[p].todo = {} /\ child'[p].good = {}
         /\ child'[p].bad = {}
  <2>1. CASE cpu' = [cpu EXCEPT ![p].identity = "none"] /\ child' = child
    BY <1>1, <2>1 DEF TypeOK
  <2>2. CASE /\ child' = [child EXCEPT ![p] = [NoChild EXCEPT !.phase = "gated"]]
             /\ cpu' = cpu
    BY <2>2 DEF NoChild, TypeOK
  <2> QED BY <2>1, <2>2 DEF LaunchFails
<1>3. Rows(p)'
  BY CpuAssumption
     DEF TypeOK, Local, LaunchFails, Go, NoChild, rows, disk, memory, tasks,
         budgets, Rows, Settled, Pairs, Ended, CpuEnded, Thread, Launching,
         Running, TakeSteps, Leaving
<1>4. Lists(p)'
  BY CpuAssumption
     DEF TypeOK, Local, LaunchFails, Go, NoChild, rows, disk, memory, tasks,
         budgets, Lists, Rows, Pairs, CpuEnded, Settled, Thread, Launching,
         Running, TakeSteps, Leaving, Progress, Held
<1>5. Processes(p)'
  BY <1>1, <1>2 DEF Local, Processes, Alive, CpuEnded
<1>6. Thread(p)'
  BY CpuAssumption
     DEF TypeOK, Local, LaunchFails, Go, NoChild, rows, disk, memory, tasks,
         budgets, Thread, Launching, Running, TakeSteps, Leaving, Rows,
         Pairs
<1>7. Progress(p)'
  BY CpuAssumption
     DEF TypeOK, Local, LaunchFails, Go, NoChild, rows, disk, memory, tasks,
         budgets, Progress, Launching, Running, TakeSteps, Settled, Rows,
         Pairs, Processes, Thread, Leaving
<1>8. Held(p)'
  BY CpuAssumption
     DEF TypeOK, Local, LaunchFails, Go, NoChild, rows, disk, memory, tasks,
         budgets, Held, Settled, Progress, Rows
<1> QED BY <1>3, <1>4, <1>5, <1>6, <1>7, <1>8 DEF Local

\* The execution runs with the identity of its leader.
LEMMA StartRunningKeeps ==
  ASSUME TypeOK, NEW p \in Posts, Local(p), StartRunning(p)
  PROVE  Local(p)'
<1>1. /\ worker[p].pc = "launched" /\ intent' = intent /\ job' = job
  BY DEF StartRunning
<1>2. \/ worker'[p].pc \in {"failing", "unwinding"} /\ owner' = owner
         /\ child' = child /\ cpu' = cpu
      \/ /\ worker'[p].pc = "consuming" /\ owner'[p] = "owned"
         /\ worker'[p].skip = worker[p].skip
         /\ worker'[p].seen = worker[p].seen
         /\ worker'[p].take = worker[p].take
         /\ cpu'[p].state = "running" /\ cpu'[p].identity = "leader"
         /\ child'[p].todo = child[p].todo /\ child'[p].good = child[p].good
         /\ child'[p].bad = child[p].bad
         /\ child'[p].phase = "gone" <=> child[p].phase = "gone"
  <2>1. CASE Throw(p) /\ owner' = owner /\ child' = child /\ cpu' = cpu
    BY <2>1, ThrowKeeps
  <2>2. CASE Go(p, "consuming")
    <3>0. ~Throw(p)
      BY <2>2, GoKeeps, ThrowKeeps
    <3>1. /\ owner'[p] = "owned"
          /\ cpu'[p].state = "running" /\ cpu'[p].identity = "leader"
      BY <3>0 DEF StartRunning, TypeOK
    <3>2. /\ child'[p].todo = child[p].todo /\ child'[p].good = child[p].good
          /\ child'[p].bad = child[p].bad
          /\ child'[p].phase = "gone" <=> child[p].phase = "gone"
      BY <3>0 DEF StartRunning, TypeOK
    <3> QED BY <2>2, <3>1, <3>2, GoKeeps
  <2> QED BY <2>1, <2>2 DEF StartRunning
<1>3. Rows(p)'
  BY CpuAssumption
     DEF TypeOK, Local, StartRunning, Throw, Go, rows, disk, memory, tasks,
         budgets, Rows, Settled, Pairs, Ended, CpuEnded, Thread, Launching,
         Running, TakeSteps, Leaving
<1>4. Lists(p)'
  BY CpuAssumption
     DEF TypeOK, Local, StartRunning, Throw, Go, rows, disk, memory, tasks,
         budgets, Lists, Rows, Pairs, CpuEnded, Settled, Thread, Launching,
         Running, TakeSteps, Leaving, Progress, Held
<1>5. Processes(p)'
  BY <1>1, <1>2 DEF Local, Processes, Alive, CpuEnded, Thread, Launching
<1>6. Thread(p)'
  BY CpuAssumption
     DEF TypeOK, Local, StartRunning, Throw, Go, rows, disk, memory, tasks,
         budgets, Thread, Launching, Running, TakeSteps, Leaving, Rows,
         Pairs
<1>7. Progress(p)'
  BY <1>1, <1>2 DEF Local, Progress, Thread, Launching, Running, TakeSteps,
     Settled
<1>8. Held(p)'
  BY CpuAssumption
     DEF TypeOK, Local, StartRunning, Throw, Go, rows, disk, memory, tasks,
         budgets, Held, Settled, Progress, Rows
<1> QED BY <1>3, <1>4, <1>5, <1>6, <1>7, <1>8 DEF Local

\* The group writes in the staging of reserved takes only.
LEMMA ChildStartsKeeps ==
  ASSUME TypeOK, NEW p \in Posts, NEW t \in TakesOf[p],
         Local(p), ChildStarts(p, t)
  PROVE  Local(p)'
<1>1. /\ intent[t] = "reserved" /\ intent' = intent /\ take' = take
      /\ final' = final /\ marker' = marker
      /\ \A x \in TakesOf[p] \ {t} : stage'[x] = stage[x]
  BY DEF ChildStarts, Local, Processes, Alive, TypeOK, rows
<1>2. Rows(p)'
  BY CpuAssumption
     DEF TypeOK, Local, ChildStarts, rows, disk, memory, tasks, budgets,
         Rows, Settled, Pairs, Ended, CpuEnded, Thread, Launching, Running,
         TakeSteps, Leaving
<1>3. Lists(p)'
  BY <1>1 DEF Local, Lists
<1>4. Processes(p)'
  BY CpuAssumption
     DEF TypeOK, Local, ChildStarts, rows, disk, memory, tasks, budgets,
         Processes, Alive, CpuEnded, Rows, Pairs, Progress, Held, Thread,
         Launching, Running, TakeSteps, Leaving
<1>5. Thread(p)'
  BY CpuAssumption
     DEF TypeOK, Local, ChildStarts, rows, disk, memory, tasks, budgets,
         Thread, Launching, Running, TakeSteps, Leaving, Rows, Pairs
<1>6. Progress(p)'
  BY CpuAssumption
     DEF TypeOK, Local, ChildStarts, rows, disk, memory, tasks, budgets,
         Progress, Launching, Running, TakeSteps, Settled, Rows, Pairs,
         Processes, Thread, Leaving
<1>7. Held(p)'
  BY CpuAssumption
     DEF TypeOK, Local, ChildStarts, rows, disk, memory, tasks, budgets,
         Held, Settled, Progress, Rows
<1> QED BY <1>2, <1>3, <1>4, <1>5, <1>6, <1>7 DEF Local

\* A result is sent once, for a take the group still had.
LEMMA ChildSendsKeeps ==
  ASSUME TypeOK, NEW p \in Posts, NEW t \in TakesOf[p],
         Local(p), ChildSends(p, t)
  PROVE  Local(p)'
<1>1. /\ intent[t] = "reserved" /\ intent' = intent /\ cpu' = cpu
      /\ owner' = owner /\ worker' = worker
  BY DEF ChildSends, Local, Processes, Alive, TypeOK, rows, memory
<1>2. /\ child'[p].phase = child[p].phase
      /\ child'[p].todo = child[p].todo \ {t}
      /\ child'[p].good \subseteq child[p].good \cup {t}
      /\ child'[p].bad \subseteq child[p].bad \cup {t}
  <2>1. CASE child' = [child EXCEPT ![p].todo = @ \ {t}, ![p].good = @ \cup {t}]
    BY <2>1 DEF TypeOK
  <2>2. CASE child' = [child EXCEPT ![p].todo = @ \ {t}, ![p].bad = @ \cup {t}]
    BY <2>2 DEF TypeOK
  <2> QED BY <2>1, <2>2 DEF ChildSends
<1>3. Rows(p)'
  BY CpuAssumption
     DEF TypeOK, Local, ChildSends, rows, disk, memory, tasks, budgets,
         Rows, Settled, Pairs, Ended, CpuEnded, Thread, Launching, Running,
         TakeSteps, Leaving
<1>4. Lists(p)'
  BY CpuAssumption
     DEF TypeOK, Local, ChildSends, rows, disk, memory, tasks, budgets,
         Lists, Rows, Pairs, CpuEnded, Settled, Thread, Launching, Running,
         TakeSteps, Leaving, Progress, Held
<1>5. Processes(p)'
  BY <1>1, <1>2 DEF Local, Processes, Alive
<1>6. Thread(p)'
  BY CpuAssumption
     DEF TypeOK, Local, ChildSends, rows, disk, memory, tasks, budgets,
         Thread, Launching, Running, TakeSteps, Leaving, Rows, Pairs
<1>7. Progress(p)'
  BY <1>1, <1>2
     DEF Local, Progress, Processes, Launching, Running, TakeSteps, Settled
<1>8. Held(p)'
  BY CpuAssumption
     DEF TypeOK, Local, ChildSends, rows, disk, memory, tasks, budgets,
         Held, Settled, Progress, Rows
<1> QED BY <1>3, <1>4, <1>5, <1>6, <1>7, <1>8 DEF Local

\* A group that has sent everything only waits to be closed.
LEMMA ChildClosesKeeps ==
  ASSUME TypeOK, NEW p \in Posts, Local(p), ChildCloses(p)
  PROVE  Local(p)'
<1>1. Rows(p)'
  BY CpuAssumption
     DEF TypeOK, Local, ChildCloses, rows, disk, memory, tasks, budgets,
         Rows, Settled, Pairs, Ended, CpuEnded, Thread, Launching, Running,
         TakeSteps, Leaving
<1>2. Lists(p)'
  BY CpuAssumption
     DEF TypeOK, Local, ChildCloses, rows, disk, memory, tasks, budgets,
         Lists, Rows, Pairs, CpuEnded, Settled, Thread, Launching, Running,
         TakeSteps, Leaving, Progress, Held
<1>3. Processes(p)'
  BY CpuAssumption
     DEF TypeOK, Local, ChildCloses, rows, disk, memory, tasks, budgets,
         Processes, Alive, CpuEnded, Rows, Pairs, Progress, Held, Thread,
         Launching, Running, TakeSteps, Leaving
<1>4. Thread(p)'
  BY CpuAssumption
     DEF TypeOK, Local, ChildCloses, rows, disk, memory, tasks, budgets,
         Thread, Launching, Running, TakeSteps, Leaving, Rows, Pairs
<1>5. Progress(p)'
  BY CpuAssumption
     DEF TypeOK, Local, ChildCloses, rows, disk, memory, tasks, budgets,
         Progress, Launching, Running, TakeSteps, Settled, Rows, Pairs,
         Processes, Thread, Leaving
<1>6. Held(p)'
  BY CpuAssumption
     DEF TypeOK, Local, ChildCloses, rows, disk, memory, tasks, budgets,
         Held, Settled, Progress, Rows
<1> QED BY <1>1, <1>2, <1>3, <1>4, <1>5, <1>6 DEF Local

\* A process without a live owner ends.
LEMMA ChildDiesKeeps ==
  ASSUME TypeOK, NEW p \in Posts, Local(p), ChildDies(p)
  PROVE  Local(p)'
<1>1. Rows(p)'
  BY CpuAssumption
     DEF TypeOK, Local, ChildDies, rows, disk, memory, tasks, budgets, Rows,
         Settled, Pairs, Ended, CpuEnded, Thread, Launching, Running,
         TakeSteps, Leaving
<1>2. Lists(p)'
  BY CpuAssumption
     DEF TypeOK, Local, ChildDies, rows, disk, memory, tasks, budgets,
         Lists, Rows, Pairs, CpuEnded, Settled, Thread, Launching, Running,
         TakeSteps, Leaving, Progress, Held
<1>3. Processes(p)'
  BY CpuAssumption
     DEF TypeOK, Local, ChildDies, rows, disk, memory, tasks, budgets,
         Processes, Alive, CpuEnded, Rows, Pairs, Progress, Held, Thread,
         Launching, Running, TakeSteps, Leaving
<1>4. Thread(p)'
  BY CpuAssumption
     DEF TypeOK, Local, ChildDies, rows, disk, memory, tasks, budgets,
         Thread, Launching, Running, TakeSteps, Leaving, Rows, Pairs
<1>5. Progress(p)'
  BY CpuAssumption
     DEF TypeOK, Local, ChildDies, rows, disk, memory, tasks, budgets,
         Progress, Launching, Running, TakeSteps, Settled, Rows, Pairs,
         Processes, Thread, Leaving
<1>6. Held(p)'
  BY CpuAssumption
     DEF TypeOK, Local, ChildDies, rows, disk, memory, tasks, budgets, Held,
         Settled, Progress, Rows
<1> QED BY <1>1, <1>2, <1>3, <1>4, <1>5, <1>6 DEF Local

\* A closed owner has no group left.
LEMMA OwnerClosesKeeps ==
  ASSUME TypeOK, NEW p \in Posts, Local(p), OwnerCloses(p)
  PROVE  Local(p)'
<1>1. Rows(p)'
  BY CpuAssumption
     DEF TypeOK, Local, OwnerCloses, rows, disk, memory, tasks, budgets,
         Rows, Settled, Pairs, Ended, CpuEnded, Thread, Launching, Running,
         TakeSteps, Leaving
<1>2. Lists(p)'
  BY CpuAssumption
     DEF TypeOK, Local, OwnerCloses, rows, disk, memory, tasks, budgets,
         Lists, Rows, Pairs, CpuEnded, Settled, Thread, Launching, Running,
         TakeSteps, Leaving, Progress, Held
<1>3. Processes(p)'
  BY CpuAssumption
     DEF TypeOK, Local, OwnerCloses, rows, disk, memory, tasks, budgets,
         Processes, Alive, CpuEnded, Rows, Pairs, Progress, Held, Thread,
         Launching, Running, TakeSteps, Leaving
<1>4. Thread(p)'
  BY CpuAssumption
     DEF TypeOK, Local, OwnerCloses, rows, disk, memory, tasks, budgets,
         Thread, Launching, Running, TakeSteps, Leaving, Rows, Pairs
<1>5. Progress(p)'
  BY CpuAssumption
     DEF TypeOK, Local, OwnerCloses, rows, disk, memory, tasks, budgets,
         Progress, Launching, Running, TakeSteps, Settled, Rows, Pairs,
         Processes, Thread, Leaving
<1>6. Held(p)'
  BY CpuAssumption
     DEF TypeOK, Local, OwnerCloses, rows, disk, memory, tasks, budgets,
         Held, Settled, Progress, Rows
<1> QED BY <1>1, <1>2, <1>3, <1>4, <1>5, <1>6 DEF Local

\* A group that is stopped sends nothing more.
LEMMA OwnerStopsKeeps ==
  ASSUME TypeOK, NEW p \in Posts, Local(p), OwnerStops(p)
  PROVE  Local(p)'
<1>1. /\ owner[p] = "owned" /\ worker' = worker /\ sweeping' = sweeping
      /\ job' = job /\ cpu' = cpu /\ intent' = intent /\ take' = take
      /\ beats' = beats /\ stage' = stage /\ final' = final
      /\ marker' = marker /\ raw' = raw
  BY DEF OwnerStops, rows, disk, tasks
<1>2. /\ child'[p].todo = child[p].todo
      /\ child'[p].good \subseteq child[p].good
      /\ child'[p].bad \subseteq child[p].bad
      /\ child'[p].phase \in {"gone", child[p].phase}
      /\ \/ owner'[p] = "closed" /\ child'[p].phase = "gone"
         \/ owner'[p] = "unknown"
  <2>1. CASE Killed(p, "gone") /\ owner' = [owner EXCEPT ![p] = "closed"]
    BY <2>1, KilledKeeps DEF TypeOK
  <2>2. ASSUME NEW phase \in {"gone", child[p].phase}, Killed(p, phase),
               owner' = [owner EXCEPT ![p] = "unknown"]
        PROVE  /\ child'[p].todo = child[p].todo
               /\ child'[p].good \subseteq child[p].good
               /\ child'[p].bad \subseteq child[p].bad
               /\ child'[p].phase = phase /\ owner'[p] = "unknown"
    BY <2>2, KilledKeeps DEF TypeOK
  <2> QED BY <2>1, <2>2 DEF OwnerStops
<1>3. Rows(p)'
  BY <1>1 DEF Local, Rows, Settled
<1>4. Lists(p)'
  BY <1>1 DEF Local, Lists
<1>5. Processes(p)'
  BY <1>1, <1>2 DEF Local, Processes, Alive, Thread, Launching
<1>6. Thread(p)'
  BY <1>1 DEF Local, Thread
<1>7. Progress(p)'
  BY <1>1, <1>2 DEF Local, Progress, Settled
<1>8. Held(p)'
  BY <1>1 DEF Local, Held, Settled
<1> QED BY <1>3, <1>4, <1>5, <1>6, <1>7, <1>8 DEF Local

\* The take the thread holds is reserved and was not seen before.
LEMMA ReceiveKeeps ==
  ASSUME TypeOK, NEW p \in Posts, NEW t \in TakesOf[p],
         Local(p), Receive(p, t)
  PROVE  Local(p)'
<1>1. /\ worker[p].pc = "consuming" /\ t \notin worker[p].seen
      /\ t \in child[p].good \cup child[p].bad
      /\ worker'[p].pc \in {"packaged", "rejecting"} /\ worker'[p].take = {t}
      /\ worker'[p].seen = worker[p].seen \cup {t}
      /\ worker'[p].skip = worker[p].skip
      /\ intent' = intent /\ child' = child /\ owner' = owner
  BY DEF Receive, TypeOK, rows
<1>2. intent[t] = "reserved" /\ t \notin worker[p].skip
      /\ t \notin child[p].todo /\ worker[p].take = {}
  BY <1>1 DEF Local, Processes, Progress, Launching, Running, TakeSteps
<1>3. Rows(p)'
  BY CpuAssumption
     DEF TypeOK, Local, Receive, Current, rows, disk, memory, tasks,
         budgets, Rows, Settled, Pairs, Ended, CpuEnded, Thread, Launching,
         Running, TakeSteps, Leaving
<1>4. Lists(p)'
  BY CpuAssumption
     DEF TypeOK, Local, Receive, Current, rows, disk, memory, tasks,
         budgets, Lists, Rows, Pairs, CpuEnded, Settled, Thread, Launching,
         Running, TakeSteps, Leaving, Progress, Held
<1>5. Processes(p)'
  BY CpuAssumption
     DEF TypeOK, Local, Receive, Current, rows, disk, memory, tasks,
         budgets, Processes, Alive, CpuEnded, Rows, Pairs, Progress, Held,
         Thread, Launching, Running, TakeSteps, Leaving
<1>6. Thread(p)'
  BY CpuAssumption
     DEF TypeOK, Local, Receive, Current, rows, disk, memory, tasks,
         budgets, Thread, Launching, Running, TakeSteps, Leaving, Rows,
         Pairs
<1>7. Progress(p)'
  BY <1>1, <1>2
     DEF Local, Progress, Processes, Launching, Running, TakeSteps, Settled
<1>8. Held(p)'
  BY <1>1, <1>2 DEF Held
<1> QED BY <1>3, <1>4, <1>5, <1>6, <1>7, <1>8 DEF Local

\* The marker is there before the intent is prepared.
LEMMA WriteMarkerKeeps ==
  ASSUME TypeOK, NEW p \in Posts, NEW t \in TakesOf[p],
         Local(p), WriteMarker(p, t)
  PROVE  Local(p)'
<1>1. /\ worker[p].pc = "packaged" /\ worker[p].take = {t}
      /\ child' = child /\ owner' = owner
  BY DEF WriteMarker, Current
<1>2. Rows(p)'
  BY CpuAssumption
     DEF TypeOK, Local, WriteMarker, Current, Go, Throw, rows, disk, memory,
         tasks, budgets, Rows, Settled, Pairs, Ended, CpuEnded, Thread,
         Launching, Running, TakeSteps, Leaving
<1>3. Lists(p)'
  BY CpuAssumption
     DEF TypeOK, Local, WriteMarker, Current, Go, Throw, rows, disk, memory,
         tasks, budgets, Lists, Rows, Pairs, CpuEnded, Settled, Thread,
         Launching, Running, TakeSteps, Leaving, Progress, Held
<1>4. Processes(p)'
  BY CpuAssumption
     DEF TypeOK, Local, WriteMarker, Current, Go, Throw, rows, disk, memory,
         tasks, budgets, Processes, Alive, CpuEnded, Rows, Pairs, Progress,
         Held, Thread, Launching, Running, TakeSteps, Leaving
<1>5. Thread(p)'
  BY CpuAssumption
     DEF TypeOK, Local, WriteMarker, Current, Go, Throw, rows, disk, memory,
         tasks, budgets, Thread, Launching, Running, TakeSteps, Leaving,
         Rows, Pairs
<1>6. Progress(p)'
  <2>1. CASE Throw(p)
    BY <2>1, ThrowKeeps, Away DEF Leaving
  <2>2. CASE Go(p, "sealed") /\ marker' = marker \cup {t} /\ stage[t] = "package"
    <3>1. /\ worker'[p].pc = "sealed" /\ worker'[p].take = {t}
          /\ worker'[p].seen = worker[p].seen
          /\ worker'[p].skip = worker[p].skip
      BY <1>1, <2>2, GoKeeps
    <3>2. intent' = intent
      BY <1>1, <2>2, CpuAssumption DEF TypeOK, WriteMarker, rows
    <3> QED BY <1>1, <3>1, <3>2
            DEF Local, Progress, Held, Launching, Running, TakeSteps,
                Settled
  <2> QED BY <2>1, <2>2 DEF WriteMarker
<1>7. Held(p)'
  <2>1. CASE Throw(p)
    BY <2>1, ThrowKeeps, Away DEF Leaving
  <2>2. CASE Go(p, "sealed") /\ marker' = marker \cup {t} /\ stage[t] = "package"
    <3>1. /\ worker'[p].pc = "sealed" /\ worker'[p].take = {t}
          /\ worker'[p].seen = worker[p].seen
      BY <1>1, <2>2, GoKeeps
    <3>2. /\ intent' = intent /\ t \in marker'
          /\ stage' = stage /\ stage[t] = "package"
      BY <1>1, <2>2, CpuAssumption DEF TypeOK, WriteMarker, rows
    <3> QED BY <1>1, <3>1, <3>2 DEF Local, Held, Settled
  <2> QED BY <2>1, <2>2 DEF WriteMarker
<1> QED BY <1>2, <1>3, <1>4, <1>5, <1>6, <1>7 DEF Local

\* A prepared intent has its marker and its package.
LEMMA PrepareIntentKeeps ==
  ASSUME TypeOK, NEW p \in Posts, NEW t \in TakesOf[p],
         Local(p), PrepareIntent(p, t)
  PROVE  Local(p)'
<1>1. /\ worker[p].pc = "sealed" /\ worker[p].take = {t}
      /\ child' = child /\ owner' = owner
  BY DEF PrepareIntent, Current
<1>2. Rows(p)'
  BY CpuAssumption
     DEF TypeOK, Local, PrepareIntent, Current, Go, Throw, rows, disk,
         memory, tasks, budgets, Rows, Settled, Pairs, Ended, CpuEnded,
         Thread, Launching, Running, TakeSteps, Leaving
<1>3. Lists(p)'
  BY CpuAssumption
     DEF TypeOK, Local, PrepareIntent, Current, Go, Throw, rows, disk,
         memory, tasks, budgets, Lists, Rows, Pairs, CpuEnded, Settled,
         Thread, Launching, Running, TakeSteps, Leaving, Progress, Held
<1>4. Processes(p)'
  BY CpuAssumption
     DEF TypeOK, Local, PrepareIntent, Current, Go, Throw, rows, disk,
         memory, tasks, budgets, Processes, Alive, CpuEnded, Rows, Pairs,
         Progress, Held, Thread, Launching, Running, TakeSteps, Leaving
<1>5. Thread(p)'
  BY CpuAssumption
     DEF TypeOK, Local, PrepareIntent, Current, Go, Throw, rows, disk,
         memory, tasks, budgets, Thread, Launching, Running, TakeSteps,
         Leaving, Rows, Pairs
<1>6. Progress(p)'
  <2>1. CASE Throw(p)
    BY <2>1, ThrowKeeps, Away DEF Leaving
  <2>2. CASE Go(p, "prepared") /\ intent' = [intent EXCEPT ![t] = "prepared"]
    <3>1. /\ worker'[p].pc = "prepared" /\ worker'[p].take = {t}
          /\ worker'[p].seen = worker[p].seen
          /\ worker'[p].skip = worker[p].skip
      BY <1>1, <2>2, GoKeeps
    <3>2. /\ intent'[t] = "prepared"
          /\ \A x \in TakesOf[p] \ {t} : intent'[x] = intent[x]
      BY <1>1, <2>2, CpuAssumption DEF TypeOK, PrepareIntent, rows
    <3> QED BY <1>1, <3>1, <3>2
            DEF Local, Progress, Held, Launching, Running, TakeSteps,
                Settled
  <2> QED BY <2>1, <2>2 DEF PrepareIntent
<1>7. Held(p)'
  <2>1. CASE Throw(p)
    BY <2>1, ThrowKeeps, Away DEF Leaving
  <2>2. CASE Go(p, "prepared") /\ intent' = [intent EXCEPT ![t] = "prepared"]
    <3>1. /\ worker'[p].pc = "prepared" /\ worker'[p].take = {t}
          /\ worker'[p].seen = worker[p].seen
      BY <1>1, <2>2, GoKeeps
    <3>2. intent'[t] = "prepared"
      BY <1>1, <2>2, CpuAssumption DEF TypeOK, PrepareIntent, rows
    <3> QED BY <1>1, <3>1, <3>2 DEF Local, Held, Settled
  <2> QED BY <2>1, <2>2 DEF PrepareIntent
<1> QED BY <1>2, <1>3, <1>4, <1>5, <1>6, <1>7 DEF Local

\* The package is in one of the two places, before and after.
LEMMA RenameKeeps ==
  ASSUME TypeOK, NEW p \in Posts, NEW t \in TakesOf[p],
         Local(p), Rename(p, t)
  PROVE  Local(p)'
<1>1. /\ worker[p].pc = "prepared" /\ worker[p].take = {t}
      /\ child' = child /\ owner' = owner
  BY DEF Rename, Current
<1>2. Rows(p)'
  BY CpuAssumption
     DEF TypeOK, Local, Rename, Current, Go, Throw, rows, disk, memory,
         tasks, budgets, Rows, Settled, Pairs, Ended, CpuEnded, Thread,
         Launching, Running, TakeSteps, Leaving
<1>3. Lists(p)'
  BY CpuAssumption
     DEF TypeOK, Local, Rename, Current, Go, Throw, rows, disk, memory,
         tasks, budgets, Lists, Rows, Pairs, CpuEnded, Settled, Thread,
         Launching, Running, TakeSteps, Leaving, Progress, Held
<1>4. Processes(p)'
  BY CpuAssumption
     DEF TypeOK, Local, Rename, Current, Go, Throw, rows, disk, memory,
         tasks, budgets, Processes, Alive, CpuEnded, Rows, Pairs, Progress,
         Held, Thread, Launching, Running, TakeSteps, Leaving
<1>5. Thread(p)'
  BY CpuAssumption
     DEF TypeOK, Local, Rename, Current, Go, Throw, rows, disk, memory,
         tasks, budgets, Thread, Launching, Running, TakeSteps, Leaving,
         Rows, Pairs
<1>6. Progress(p)'
  <2>1. CASE Throw(p)
    BY <2>1, ThrowKeeps, Away DEF Leaving
  <2>2. CASE Go(p, "renamed") /\ final' = final \cup {t}
    <3>1. /\ worker'[p].pc = "renamed" /\ worker'[p].take = {t}
          /\ worker'[p].seen = worker[p].seen
          /\ worker'[p].skip = worker[p].skip
      BY <1>1, <2>2, GoKeeps
    <3>2. intent' = intent
      BY <1>1, <2>2, CpuAssumption DEF TypeOK, Rename, rows
    <3> QED BY <1>1, <3>1, <3>2
            DEF Local, Progress, Held, Launching, Running, TakeSteps,
                Settled
  <2> QED BY <2>1, <2>2 DEF Rename
<1>7. Held(p)'
  <2>1. CASE Throw(p)
    BY <2>1, ThrowKeeps, Away DEF Leaving
  <2>2. CASE Go(p, "renamed") /\ final' = final \cup {t}
    <3>1. /\ worker'[p].pc = "renamed" /\ worker'[p].take = {t}
          /\ worker'[p].seen = worker[p].seen
      BY <1>1, <2>2, GoKeeps
    <3>2. intent' = intent /\ t \in final'
      BY <1>1, <2>2, CpuAssumption DEF TypeOK, Rename, rows
    <3> QED BY <1>1, <3>1, <3>2 DEF Local, Held, Settled
  <2> QED BY <2>1, <2>2 DEF Rename
<1> QED BY <1>2, <1>3, <1>4, <1>5, <1>6, <1>7 DEF Local

\* A committed intent has its directory in place.
LEMMA CommitIntentKeeps ==
  ASSUME TypeOK, NEW p \in Posts, NEW t \in TakesOf[p],
         Local(p), CommitIntent(p, t)
  PROVE  Local(p)'
<1>1. /\ worker[p].pc = "renamed" /\ worker[p].take = {t}
      /\ child' = child /\ owner' = owner
  BY DEF CommitIntent, Current
<1>2. Rows(p)'
  BY CpuAssumption
     DEF TypeOK, Local, CommitIntent, Current, Go, Throw, rows, disk,
         memory, tasks, budgets, Rows, Settled, Pairs, Ended, CpuEnded,
         Thread, Launching, Running, TakeSteps, Leaving
<1>3. Lists(p)'
  BY CpuAssumption
     DEF TypeOK, Local, CommitIntent, Current, Go, Throw, rows, disk,
         memory, tasks, budgets, Lists, Rows, Pairs, CpuEnded, Settled,
         Thread, Launching, Running, TakeSteps, Leaving, Progress, Held
<1>4. Processes(p)'
  BY CpuAssumption
     DEF TypeOK, Local, CommitIntent, Current, Go, Throw, rows, disk,
         memory, tasks, budgets, Processes, Alive, CpuEnded, Rows, Pairs,
         Progress, Held, Thread, Launching, Running, TakeSteps, Leaving
<1>5. Thread(p)'
  BY CpuAssumption
     DEF TypeOK, Local, CommitIntent, Current, Go, Throw, rows, disk,
         memory, tasks, budgets, Thread, Launching, Running, TakeSteps,
         Leaving, Rows, Pairs
<1>6. Progress(p)'
  <2>1. CASE Throw(p)
    BY <2>1, ThrowKeeps, Away DEF Leaving
  <2>2. CASE Go(p, "committed") /\ intent' = [intent EXCEPT ![t] = "committed"]
    <3>1. /\ worker'[p].pc = "committed" /\ worker'[p].take = {t}
          /\ worker'[p].seen = worker[p].seen
          /\ worker'[p].skip = worker[p].skip
      BY <1>1, <2>2, GoKeeps
    <3>2. /\ intent'[t] = "committed"
          /\ \A x \in TakesOf[p] \ {t} : intent'[x] = intent[x]
      BY <1>1, <2>2, CpuAssumption DEF TypeOK, CommitIntent, rows
    <3> QED BY <1>1, <3>1, <3>2
            DEF Local, Progress, Held, Launching, Running, TakeSteps,
                Settled
  <2> QED BY <2>1, <2>2 DEF CommitIntent
<1>7. Held(p)'
  <2>1. CASE Throw(p)
    BY <2>1, ThrowKeeps, Away DEF Leaving
  <2>2. CASE Go(p, "committed") /\ intent' = [intent EXCEPT ![t] = "committed"]
    <3>1. /\ worker'[p].pc = "committed" /\ worker'[p].take = {t}
          /\ worker'[p].seen = worker[p].seen
      BY <1>1, <2>2, GoKeeps
    <3>2. intent'[t] = "committed"
      BY <1>1, <2>2, CpuAssumption DEF TypeOK, CommitIntent, rows
    <3> QED BY <1>1, <3>1, <3>2 DEF Local, Held, Settled
  <2> QED BY <2>1, <2>2 DEF CommitIntent
<1> QED BY <1>2, <1>3, <1>4, <1>5, <1>6, <1>7 DEF Local

\* A failed take was never prepared.
LEMMA FailTakeKeeps ==
  ASSUME TypeOK, NEW p \in Posts, NEW t \in TakesOf[p],
         Local(p), FailTake(p, t)
  PROVE  Local(p)'
<1>1. /\ worker[p].pc = "rejecting" /\ worker[p].take = {t}
      /\ child' = child /\ owner' = owner
  BY DEF FailTake, Current
<1>2. Rows(p)'
  BY CpuAssumption
     DEF TypeOK, Local, FailTake, Current, Go, Throw, rows, disk, memory,
         tasks, budgets, Rows, Settled, Pairs, Ended, CpuEnded, Thread,
         Launching, Running, TakeSteps, Leaving
<1>3. Lists(p)'
  BY CpuAssumption
     DEF TypeOK, Local, FailTake, Current, Go, Throw, rows, disk, memory,
         tasks, budgets, Lists, Rows, Pairs, CpuEnded, Settled, Thread,
         Launching, Running, TakeSteps, Leaving, Progress, Held
<1>4. Processes(p)'
  BY CpuAssumption
     DEF TypeOK, Local, FailTake, Current, Go, Throw, rows, disk, memory,
         tasks, budgets, Processes, Alive, CpuEnded, Rows, Pairs, Progress,
         Held, Thread, Launching, Running, TakeSteps, Leaving
<1>5. Thread(p)'
  BY CpuAssumption
     DEF TypeOK, Local, FailTake, Current, Go, Throw, rows, disk, memory,
         tasks, budgets, Thread, Launching, Running, TakeSteps, Leaving,
         Rows, Pairs
<1>6. Progress(p)'
  <2>1. CASE Throw(p)
    BY <2>1, ThrowKeeps, Away DEF Leaving
  <2>2. CASE Go(p, "committed") /\ intent' = [intent EXCEPT ![t] = "failed"]
    <3>1. /\ worker'[p].pc = "committed" /\ worker'[p].take = {t}
          /\ worker'[p].seen = worker[p].seen
          /\ worker'[p].skip = worker[p].skip
      BY <1>1, <2>2, GoKeeps
    <3>2. /\ intent'[t] = "failed"
          /\ \A x \in TakesOf[p] \ {t} : intent'[x] = intent[x]
      BY <1>1, <2>2, CpuAssumption DEF TypeOK, FailTake, rows
    <3> QED BY <1>1, <3>1, <3>2
            DEF Local, Progress, Held, Launching, Running, TakeSteps,
                Settled
  <2> QED BY <2>1, <2>2 DEF FailTake
<1>7. Held(p)'
  <2>1. CASE Throw(p)
    BY <2>1, ThrowKeeps, Away DEF Leaving
  <2>2. CASE Go(p, "committed") /\ intent' = [intent EXCEPT ![t] = "failed"]
    <3>1. /\ worker'[p].pc = "committed" /\ worker'[p].take = {t}
          /\ worker'[p].seen = worker[p].seen
      BY <1>1, <2>2, GoKeeps
    <3>2. intent'[t] = "failed"
      BY <1>1, <2>2, CpuAssumption DEF TypeOK, FailTake, rows
    <3> QED BY <1>1, <3>1, <3>2 DEF Local, Held, Settled
  <2> QED BY <2>1, <2>2 DEF FailTake
<1> QED BY <1>2, <1>3, <1>4, <1>5, <1>6, <1>7 DEF Local

\* The thread goes on with nothing in its hands.
LEMMA PublishedKeeps ==
  ASSUME TypeOK, NEW p \in Posts, Local(p), Published(p)
  PROVE  Local(p)'
<1>1. /\ worker[p].pc = "committed" /\ worker'[p].take = {}
      /\ worker'[p].pc = (IF worker[p].take \cap worker[p].skip = {}
                          THEN "consuming" ELSE "replaying")
      /\ worker'[p].seen = worker[p].seen /\ worker'[p].skip = worker[p].skip
  BY DEF Published, TypeOK
<1>2. intent' = intent /\ child' = child /\ owner' = owner
  BY DEF Published, rows
<1>3. Rows(p)'
  BY CpuAssumption
     DEF TypeOK, Local, Published, rows, disk, memory, tasks, budgets, Rows,
         Settled, Pairs, Ended, CpuEnded, Thread, Launching, Running,
         TakeSteps, Leaving
<1>4. Lists(p)'
  BY CpuAssumption
     DEF TypeOK, Local, Published, rows, disk, memory, tasks, budgets,
         Lists, Rows, Pairs, CpuEnded, Settled, Thread, Launching, Running,
         TakeSteps, Leaving, Progress, Held
<1>5. Processes(p)'
  BY CpuAssumption
     DEF TypeOK, Local, Published, rows, disk, memory, tasks, budgets,
         Processes, Alive, CpuEnded, Rows, Pairs, Progress, Held, Thread,
         Launching, Running, TakeSteps, Leaving
<1>6. Thread(p)'
  BY CpuAssumption
     DEF TypeOK, Local, Published, rows, disk, memory, tasks, budgets,
         Thread, Launching, Running, TakeSteps, Leaving, Rows, Pairs
<1>7. Progress(p)'
  BY <1>1, <1>2
     DEF Local, Progress, Held, Launching, Running, TakeSteps, Settled
<1>8. Held(p)'
  BY CpuAssumption
     DEF TypeOK, Local, Published, rows, disk, memory, tasks, budgets, Held,
         Settled, Progress, Rows
<1> QED BY <1>3, <1>4, <1>5, <1>6, <1>7, <1>8 DEF Local

\* Only a closed group whose results were all taken is joined.
LEMMA JoinKeeps ==
  ASSUME TypeOK, NEW p \in Posts, Local(p), Join(p)
  PROVE  Local(p)'
<1>1. /\ worker[p].pc = "consuming" /\ intent' = intent /\ child' = child
      /\ owner' = owner
  BY DEF Join, rows
<1>2. Rows(p)'
  BY CpuAssumption
     DEF TypeOK, Local, Join, Go, Throw, rows, disk, memory, tasks, budgets,
         Rows, Settled, Pairs, Ended, CpuEnded, Thread, Launching, Running,
         TakeSteps, Leaving
<1>3. Lists(p)'
  BY CpuAssumption
     DEF TypeOK, Local, Join, Go, Throw, rows, disk, memory, tasks, budgets,
         Lists, Rows, Pairs, CpuEnded, Settled, Thread, Launching, Running,
         TakeSteps, Leaving, Progress, Held
<1>4. Processes(p)'
  BY CpuAssumption
     DEF TypeOK, Local, Join, Go, Throw, rows, disk, memory, tasks, budgets,
         Processes, Alive, CpuEnded, Rows, Pairs, Progress, Held, Thread,
         Launching, Running, TakeSteps, Leaving
<1>5. Thread(p)'
  BY CpuAssumption
     DEF TypeOK, Local, Join, Go, Throw, rows, disk, memory, tasks, budgets,
         Thread, Launching, Running, TakeSteps, Leaving, Rows, Pairs
<1>6. Progress(p)'
  <2>1. CASE Throw(p)
    BY <2>1, ThrowKeeps, Away DEF Leaving
  <2>2. CASE /\ Go(p, IF worker[p].skip = {} THEN "finishing" ELSE "replaying")
             /\ owner[p] = "closed"
             /\ worker[p].seen = TakesOf[p] \ worker[p].skip
    <3>1. /\ worker'[p].pc = (IF worker[p].skip = {} THEN "finishing"
                              ELSE "replaying")
          /\ worker'[p].take = worker[p].take
          /\ worker'[p].seen = worker[p].seen
          /\ worker'[p].skip = worker[p].skip
      BY <2>2, GoKeeps
    <3> QED BY <1>1, <2>2, <3>1
            DEF Local, Progress, Launching, Running, TakeSteps, Settled
  <2> QED BY <2>1, <2>2 DEF Join
<1>7. Held(p)'
  BY CpuAssumption
     DEF TypeOK, Local, Join, Go, Throw, rows, disk, memory, tasks, budgets,
         Held, Settled, Progress, Rows
<1> QED BY <1>2, <1>3, <1>4, <1>5, <1>6, <1>7 DEF Local

\* A skipped take that is prepared is published from where it is.
LEMMA ReplayKeeps ==
  ASSUME TypeOK, NEW p \in Posts, Local(p), Replay(p)
  PROVE  Local(p)'
<1>1. /\ worker[p].pc = "replaying" /\ intent' = intent /\ child' = child
      /\ owner' = owner /\ \A t \in TakesOf[p] : intent[t] \in IntentStates
  BY CpuAssumption DEF Replay, rows, TypeOK
<1>2. Rows(p)'
  BY CpuAssumption
     DEF TypeOK, Local, Replay, Go, rows, disk, memory, tasks, budgets,
         Rows, Settled, Pairs, Ended, CpuEnded, Thread, Launching, Running,
         TakeSteps, Leaving
<1>3. Lists(p)'
  BY CpuAssumption
     DEF TypeOK, Local, Replay, Go, rows, disk, memory, tasks, budgets,
         Lists, Rows, Pairs, CpuEnded, Settled, Thread, Launching, Running,
         TakeSteps, Leaving, Progress, Held
<1>4. Processes(p)'
  BY CpuAssumption
     DEF TypeOK, Local, Replay, Go, rows, disk, memory, tasks, budgets,
         Processes, Alive, CpuEnded, Rows, Pairs, Progress, Held, Thread,
         Launching, Running, TakeSteps, Leaving
<1>5. Thread(p)'
  BY CpuAssumption
     DEF TypeOK, Local, Replay, Go, rows, disk, memory, tasks, budgets,
         Thread, Launching, Running, TakeSteps, Leaving, Rows, Pairs
<1>6. Progress(p)'
  <2>1. CASE Go(p, "finishing") /\ \A t \in worker[p].skip : intent[t] # "prepared"
    <3>1. /\ worker'[p].pc = "finishing" /\ worker'[p].take = worker[p].take
          /\ worker'[p].seen = worker[p].seen
          /\ worker'[p].skip = worker[p].skip
      BY <2>1, GoKeeps
    <3> QED BY <1>1, <2>1, <3>1
            DEF Local, Progress, Launching, Running, TakeSteps, Settled,
                IntentStates
  <2>2. ASSUME NEW t \in worker[p].skip,
               worker' = [worker EXCEPT ![p].pc = "prepared", ![p].take = {t}]
        PROVE  Progress(p)'
    <3>1. /\ worker'[p].pc = "prepared" /\ worker'[p].take = {t}
          /\ worker'[p].seen = worker[p].seen
          /\ worker'[p].skip = worker[p].skip
      BY <2>2 DEF TypeOK
    <3> QED BY <1>1, <2>2, <3>1
            DEF Local, Progress, Launching, Running, TakeSteps, Settled
  <2> QED BY <2>1, <2>2 DEF Replay
<1>7. Held(p)'
  BY CpuAssumption
     DEF TypeOK, Local, Replay, Go, rows, disk, memory, tasks, budgets,
         Held, Settled, Progress, Rows
<1> QED BY <1>2, <1>3, <1>4, <1>5, <1>6, <1>7 DEF Local

\* The execution finishes when every intent is settled.
LEMMA FinishKeeps ==
  ASSUME TypeOK, NEW p \in Posts, Local(p), Finish(p)
  PROVE  Local(p)'
<1>1. /\ worker[p].pc = "finishing" /\ intent' = intent /\ take' = take
      /\ raw' = raw /\ sweeping' = sweeping
  BY DEF Finish, disk, tasks
<1>2. /\ job[p].status = "running" /\ cpu[p].state = "running" /\ p \notin sweeping
      /\ \A t \in TakesOf[p] : Settled(t)
      /\ \A t \in TakesOf[p] : beats[t] = "blocked"
      /\ \A t \in TakesOf[p] :
           take[t] = "ready" <=> intent[t] \notin {"failed", "cancelled"}
  BY <1>1 DEF Local, Rows, Lists, Thread, Progress, Running, Settled
<1>3. Rows(p)'
  <2>1. CASE job' = job /\ cpu' = cpu /\ beats' = beats
    BY <1>1, <2>1 DEF Local, Rows, Settled
  <2>2. CASE /\ cpu' = [cpu EXCEPT ![p].state = "finished",
                                  ![p].custody = "confirmed"]
             /\ job' = [job EXCEPT ![p].status = "succeeded"]
             /\ beats' = [t \in Takes |->
                  IF t \in TakesOf[p] /\ intent[t] \in {"failed", "cancelled"}
                  THEN "failed" ELSE beats[t]]
    <3>1. job'[p].status = "succeeded"
      BY <2>2 DEF TypeOK
    <3>2. cpu'[p].state = "finished"
      BY <2>2 DEF TypeOK
    <3>3. \A t \in TakesOf[p] :
            beats'[t] = (IF take[t] = "ready" THEN "blocked" ELSE "failed")
      BY <1>2, <2>2, CpuAssumption
    <3> QED BY <1>1, <1>2, <3>1, <3>2, <3>3
            DEF Local, Rows, Pairs, CpuEnded, Ended, Settled
  <2> QED BY <2>1, <2>2 DEF Finish
<1>4. Lists(p)'
  BY CpuAssumption
     DEF TypeOK, Local, Finish, Go, Throw, rows, disk, memory, tasks,
         budgets, Lists, Rows, Pairs, CpuEnded, Settled, Thread, Launching,
         Running, TakeSteps, Leaving, Progress, Held
<1>5. Processes(p)'
  BY CpuAssumption
     DEF TypeOK, Local, Finish, Go, Throw, rows, disk, memory, tasks,
         budgets, Processes, Alive, CpuEnded, Rows, Pairs, Progress, Held,
         Thread, Launching, Running, TakeSteps, Leaving
<1>6. Thread(p)'
  BY CpuAssumption
     DEF TypeOK, Local, Finish, Go, Throw, rows, disk, memory, tasks,
         budgets, Thread, Launching, Running, TakeSteps, Leaving, Rows,
         Pairs
<1>7. Progress(p)'
  BY CpuAssumption
     DEF TypeOK, Local, Finish, Go, Throw, rows, disk, memory, tasks,
         budgets, Progress, Launching, Running, TakeSteps, Settled, Rows,
         Pairs, Processes, Thread, Leaving
<1>8. Held(p)'
  BY CpuAssumption
     DEF TypeOK, Local, Finish, Go, Throw, rows, disk, memory, tasks,
         budgets, Held, Settled, Progress, Rows
<1> QED BY <1>3, <1>4, <1>5, <1>6, <1>7, <1>8 DEF Local

\* The WAVs go after the post has succeeded.
LEMMA ClearKeeps ==
  ASSUME TypeOK, NEW p \in Posts, Local(p), Clear(p)
  PROVE  Local(p)'
<1>1. Rows(p)'
  BY CpuAssumption
     DEF TypeOK, Local, Clear, Idle, rows, disk, memory, tasks, budgets,
         Rows, Settled, Pairs, Ended, CpuEnded, Thread, Launching, Running,
         TakeSteps, Leaving
<1>2. Lists(p)'
  BY CpuAssumption
     DEF TypeOK, Local, Clear, Idle, rows, disk, memory, tasks, budgets,
         Lists, Rows, Pairs, CpuEnded, Settled, Thread, Launching, Running,
         TakeSteps, Leaving, Progress, Held
<1>3. Processes(p)'
  BY CpuAssumption
     DEF TypeOK, Local, Clear, Idle, rows, disk, memory, tasks, budgets,
         Processes, Alive, CpuEnded, Rows, Pairs, Progress, Held, Thread,
         Launching, Running, TakeSteps, Leaving
<1>4. Thread(p)'
  BY CpuAssumption
     DEF TypeOK, Local, Clear, Idle, rows, disk, memory, tasks, budgets,
         Thread, Launching, Running, TakeSteps, Leaving, Rows, Pairs
<1>5. Progress(p)'
  BY CpuAssumption
     DEF TypeOK, Local, Clear, Idle, rows, disk, memory, tasks, budgets,
         Progress, Launching, Running, TakeSteps, Settled, Rows, Pairs,
         Processes, Thread, Leaving
<1>6. Held(p)'
  BY CpuAssumption
     DEF TypeOK, Local, Clear, Idle, rows, disk, memory, tasks, budgets,
         Held, Settled, Progress, Rows
<1> QED BY <1>1, <1>2, <1>3, <1>4, <1>5, <1>6 DEF Local

\* An error leaves the rows and the disk as they are.
LEMMA RaiseKeeps ==
  ASSUME TypeOK, NEW p \in Posts, Local(p), Raise(p)
  PROVE  Local(p)'
<1>1. /\ worker[p].pc \notin {"idle", "resuming", "failing", "unwinding",
                              "closing", "marked"}
      /\ worker'[p].pc \in {"failing", "unwinding"}
      /\ job' = job /\ cpu' = cpu
  BY ThrowKeeps DEF Raise, rows
<1>2. worker[p].pc \in Stages
  BY DEF TypeOK
<1>3. Rows(p)'
  BY CpuAssumption
     DEF TypeOK, Local, Raise, Go, Throw, rows, disk, memory, tasks,
         budgets, Rows, Settled, Pairs, Ended, CpuEnded, Thread, Launching,
         Running, TakeSteps, Leaving
<1>4. Lists(p)'
  BY CpuAssumption
     DEF TypeOK, Local, Raise, Go, Throw, rows, disk, memory, tasks,
         budgets, Lists, Rows, Pairs, CpuEnded, Settled, Thread, Launching,
         Running, TakeSteps, Leaving, Progress, Held
<1>5. Processes(p)'
  BY CpuAssumption
     DEF TypeOK, Local, Raise, Go, Throw, rows, disk, memory, tasks,
         budgets, Processes, Alive, CpuEnded, Rows, Pairs, Progress, Held,
         Thread, Launching, Running, TakeSteps, Leaving
<1>6. Thread(p)'
  BY <1>1, <1>2
     DEF Local, Thread, Leaving, Launching, Running, TakeSteps, Stages
<1>7. Progress(p)'
  BY CpuAssumption
     DEF TypeOK, Local, Raise, Go, Throw, rows, disk, memory, tasks,
         budgets, Progress, Launching, Running, TakeSteps, Settled, Rows,
         Pairs, Processes, Thread, Leaving
<1>8. Held(p)'
  BY CpuAssumption
     DEF TypeOK, Local, Raise, Go, Throw, rows, disk, memory, tasks,
         budgets, Held, Settled, Progress, Rows
<1> QED BY <1>3, <1>4, <1>5, <1>6, <1>7, <1>8 DEF Local

\* The group is stopped before anything else.
LEMMA UnwindKeeps ==
  ASSUME TypeOK, NEW p \in Posts, Local(p), Unwind(p)
  PROVE  Local(p)'
<1>1. /\ worker[p].pc = "unwinding" /\ worker'[p].pc = "closing"
      /\ job' = job /\ cpu' = cpu /\ intent' = intent
  BY GoKeeps DEF Unwind, rows
<1>2. /\ child'[p].todo = child[p].todo
      /\ child'[p].good \subseteq child[p].good
      /\ child'[p].bad \subseteq child[p].bad
      /\ \/ /\ owner'[p] \in {"closed", "unknown"} /\ owner[p] # "none"
            /\ child'[p].phase = "gone"
         \/ owner' = owner /\ child' = child
  <2>1. CASE /\ owner[p] = "owned" /\ Killed(p, "gone")
             /\ owner' = [owner EXCEPT ![p] = "closed"]
    BY <2>1, KilledKeeps DEF TypeOK
  <2>2. CASE /\ owner[p] = "starting"
             /\ child' = [child EXCEPT ![p].phase = "gone"]
             /\ owner' = [owner EXCEPT ![p] = "unknown"]
    BY <2>2 DEF TypeOK
  <2>3. CASE UNCHANGED <<child, owner>>
    BY <2>3
  <2> QED BY <2>1, <2>2, <2>3 DEF Unwind
<1>3. Rows(p)'
  BY CpuAssumption
     DEF TypeOK, Local, Unwind, Go, Killed, rows, disk, memory, tasks,
         budgets, Rows, Settled, Pairs, Ended, CpuEnded, Thread, Launching,
         Running, TakeSteps, Leaving
<1>4. Lists(p)'
  BY CpuAssumption, ZenonT(40)
     DEF TypeOK, Local, Unwind, Go, Killed, rows, disk, memory, tasks,
         budgets, Lists, Rows, Pairs, CpuEnded, Settled, Thread, Launching,
         Running, TakeSteps, Leaving, Progress, Held
<1>5. Processes(p)'
  BY <1>1, <1>2 DEF Local, Processes, Alive, Rows
<1>6. Thread(p)'
  BY <1>1 DEF Local, Thread, Launching, Running, TakeSteps, Leaving
<1>7. Progress(p)'
  BY <1>1, Away DEF Leaving
<1>8. Held(p)'
  BY <1>1, Away DEF Leaving
<1> QED BY <1>3, <1>4, <1>5, <1>6, <1>7, <1>8 DEF Local

\* An execution is interrupted with its group closed.
LEMMA InterruptKeeps ==
  ASSUME TypeOK, NEW p \in Posts, Local(p), Interrupt(p)
  PROVE  Local(p)'
<1>1. Rows(p)'
  BY CpuAssumption
     DEF TypeOK, Local, Interrupt, Go, rows, disk, memory, tasks, budgets,
         Rows, Settled, Pairs, Ended, CpuEnded, Thread, Launching, Running,
         TakeSteps, Leaving
<1>2. Lists(p)'
  BY CpuAssumption
     DEF TypeOK, Local, Interrupt, Go, rows, disk, memory, tasks, budgets,
         Lists, Rows, Pairs, CpuEnded, Settled, Thread, Launching, Running,
         TakeSteps, Leaving, Progress, Held
<1>3. Processes(p)'
  BY CpuAssumption
     DEF TypeOK, Local, Interrupt, Go, rows, disk, memory, tasks, budgets,
         Processes, Alive, CpuEnded, Rows, Pairs, Progress, Held, Thread,
         Launching, Running, TakeSteps, Leaving
<1>4. Thread(p)'
  BY CpuAssumption
     DEF TypeOK, Local, Interrupt, Go, rows, disk, memory, tasks, budgets,
         Thread, Launching, Running, TakeSteps, Leaving, Rows, Pairs
<1>5. Progress(p)'
  BY CpuAssumption
     DEF TypeOK, Local, Interrupt, Go, rows, disk, memory, tasks, budgets,
         Progress, Launching, Running, TakeSteps, Settled, Rows, Pairs,
         Processes, Thread, Leaving
<1>6. Held(p)'
  BY CpuAssumption
     DEF TypeOK, Local, Interrupt, Go, rows, disk, memory, tasks, budgets,
         Held, Settled, Progress, Rows
<1> QED BY <1>1, <1>2, <1>3, <1>4, <1>5, <1>6 DEF Local

\* The post fails only when its execution is none or over.
LEMMA FailPlanKeeps ==
  ASSUME TypeOK, NEW p \in Posts, Local(p), FailPlan(p)
  PROVE  Local(p)'
<1>1. /\ cpu' = cpu /\ intent' = intent /\ take' = take /\ beats' = beats
      /\ raw' = raw /\ sweeping' = sweeping
  BY DEF FailPlan, disk, tasks
<1>2. /\ job[p].status \notin {"queued", "running"} =>
           job'[p].status = job[p].status
      /\ job[p].status \in {"queued", "running"} =>
           job'[p].status = (IF cpu[p].state \in CpuEnded \cup {"none"}
                             THEN "failed" ELSE "interrupted")
  BY DEF FailPlan, TypeOK
<1>3. Rows(p)'
  BY <1>1, <1>2 DEF Local, Rows, Pairs, Ended, CpuEnded, Settled
<1>4. Lists(p)'
  BY CpuAssumption
     DEF TypeOK, Local, FailPlan, Idle, rows, disk, memory, tasks, budgets,
         Lists, Rows, Pairs, CpuEnded, Settled, Thread, Launching, Running,
         TakeSteps, Leaving, Progress, Held
<1>5. Processes(p)'
  BY CpuAssumption
     DEF TypeOK, Local, FailPlan, Idle, rows, disk, memory, tasks, budgets,
         Processes, Alive, CpuEnded, Rows, Pairs, Progress, Held, Thread,
         Launching, Running, TakeSteps, Leaving
<1>6. Thread(p)'
  BY CpuAssumption
     DEF TypeOK, Local, FailPlan, Idle, rows, disk, memory, tasks, budgets,
         Thread, Launching, Running, TakeSteps, Leaving, Rows, Pairs
<1>7. Progress(p)'
  BY CpuAssumption
     DEF TypeOK, Local, FailPlan, Idle, rows, disk, memory, tasks, budgets,
         Progress, Launching, Running, TakeSteps, Settled, Rows, Pairs,
         Processes, Thread, Leaving
<1>8. Held(p)'
  BY CpuAssumption
     DEF TypeOK, Local, FailPlan, Idle, rows, disk, memory, tasks, budgets,
         Held, Settled, Progress, Rows
<1> QED BY <1>3, <1>4, <1>5, <1>6, <1>7, <1>8 DEF Local

\* A request ends a post that waits, which has no execution.
LEMMA RequestCancelKeeps ==
  ASSUME TypeOK, NEW p \in Posts, Local(p), RequestCancel(p)
  PROVE  Local(p)'
<1>1. Rows(p)'
  BY CpuAssumption
     DEF TypeOK, Local, RequestCancel, rows, disk, memory, tasks, budgets,
         Rows, Settled, Pairs, Ended, CpuEnded, Thread, Launching, Running,
         TakeSteps, Leaving
<1>2. Lists(p)'
  BY CpuAssumption
     DEF TypeOK, Local, RequestCancel, rows, disk, memory, tasks, budgets,
         Lists, Rows, Pairs, CpuEnded, Settled, Thread, Launching, Running,
         TakeSteps, Leaving, Progress, Held
<1>3. Processes(p)'
  BY CpuAssumption
     DEF TypeOK, Local, RequestCancel, rows, disk, memory, tasks, budgets,
         Processes, Alive, CpuEnded, Rows, Pairs, Progress, Held, Thread,
         Launching, Running, TakeSteps, Leaving
<1>4. Thread(p)'
  BY CpuAssumption
     DEF TypeOK, Local, RequestCancel, rows, disk, memory, tasks, budgets,
         Thread, Launching, Running, TakeSteps, Leaving, Rows, Pairs
<1>5. Progress(p)'
  BY CpuAssumption
     DEF TypeOK, Local, RequestCancel, rows, disk, memory, tasks, budgets,
         Progress, Launching, Running, TakeSteps, Settled, Rows, Pairs,
         Processes, Thread, Leaving
<1>6. Held(p)'
  BY CpuAssumption
     DEF TypeOK, Local, RequestCancel, rows, disk, memory, tasks, budgets,
         Held, Settled, Progress, Rows
<1> QED BY <1>1, <1>2, <1>3, <1>4, <1>5, <1>6 DEF Local

\* A queued post has no execution to end.
LEMMA CancelQueuedKeeps ==
  ASSUME TypeOK, NEW p \in Posts, Local(p), CancelQueued(p)
  PROVE  Local(p)'
<1>1. Rows(p)'
  BY CpuAssumption
     DEF TypeOK, Local, CancelQueued, rows, disk, memory, tasks, budgets,
         Rows, Settled, Pairs, Ended, CpuEnded, Thread, Launching, Running,
         TakeSteps, Leaving
<1>2. Lists(p)'
  BY CpuAssumption
     DEF TypeOK, Local, CancelQueued, rows, disk, memory, tasks, budgets,
         Lists, Rows, Pairs, CpuEnded, Settled, Thread, Launching, Running,
         TakeSteps, Leaving, Progress, Held
<1>3. Processes(p)'
  BY CpuAssumption
     DEF TypeOK, Local, CancelQueued, rows, disk, memory, tasks, budgets,
         Processes, Alive, CpuEnded, Rows, Pairs, Progress, Held, Thread,
         Launching, Running, TakeSteps, Leaving
<1>4. Thread(p)'
  BY CpuAssumption
     DEF TypeOK, Local, CancelQueued, rows, disk, memory, tasks, budgets,
         Thread, Launching, Running, TakeSteps, Leaving, Rows, Pairs
<1>5. Progress(p)'
  BY CpuAssumption
     DEF TypeOK, Local, CancelQueued, rows, disk, memory, tasks, budgets,
         Progress, Launching, Running, TakeSteps, Settled, Rows, Pairs,
         Processes, Thread, Leaving
<1>6. Held(p)'
  BY CpuAssumption
     DEF TypeOK, Local, CancelQueued, rows, disk, memory, tasks, budgets,
         Held, Settled, Progress, Rows
<1> QED BY <1>1, <1>2, <1>3, <1>4, <1>5, <1>6 DEF Local

\* The group of a live execution is stopped.
LEMMA CancelRunningKeeps ==
  ASSUME TypeOK, NEW p \in Posts, Local(p), CancelRunning(p)
  PROVE  Local(p)'
<1>1. Rows(p)'
  BY CpuAssumption
     DEF TypeOK, Local, CancelRunning, Killed, Executing, rows, disk,
         memory, tasks, budgets, Rows, Settled, Pairs, Ended, CpuEnded,
         Thread, Launching, Running, TakeSteps, Leaving
<1>2. Lists(p)'
  BY CpuAssumption
     DEF TypeOK, Local, CancelRunning, Killed, Executing, rows, disk,
         memory, tasks, budgets, Lists, Rows, Pairs, CpuEnded, Settled,
         Thread, Launching, Running, TakeSteps, Leaving, Progress, Held
<1>3. Processes(p)'
  BY CpuAssumption
     DEF TypeOK, Local, CancelRunning, Killed, Executing, rows, disk,
         memory, tasks, budgets, Processes, Alive, CpuEnded, Rows, Pairs,
         Progress, Held, Thread, Launching, Running, TakeSteps, Leaving
<1>4. Thread(p)'
  BY CpuAssumption
     DEF TypeOK, Local, CancelRunning, Killed, Executing, rows, disk,
         memory, tasks, budgets, Thread, Launching, Running, TakeSteps,
         Leaving, Rows, Pairs
<1>5. Progress(p)'
  BY CpuAssumption
     DEF TypeOK, Local, CancelRunning, Killed, Executing, rows, disk,
         memory, tasks, budgets, Progress, Launching, Running, TakeSteps,
         Settled, Rows, Pairs, Processes, Thread, Leaving
<1>6. Held(p)'
  BY CpuAssumption
     DEF TypeOK, Local, CancelRunning, Killed, Executing, rows, disk,
         memory, tasks, budgets, Held, Settled, Progress, Rows
<1> QED BY <1>1, <1>2, <1>3, <1>4, <1>5, <1>6 DEF Local

\* Every open intent is cancelled with the execution.
LEMMA CancelInterruptedKeeps ==
  ASSUME TypeOK, NEW p \in Posts, Local(p), CancelInterrupted(p)
  PROVE  Local(p)'
<1>1. /\ job[p].status = "interrupted" /\ beats' = beats /\ stage' = stage
      /\ final' = final /\ marker' = marker /\ raw' = raw
      /\ sweeping' = sweeping \cup {p} /\ job'[p].status = "cancelled"
  BY DEF CancelInterrupted, disk, TypeOK
<1>2. /\ cpu[p].state \notin CpuEnded \cup {"none"}
      /\ SetIntents(Open(p), "cancelled")
      /\ take' = [t \in Takes |->
           IF t \in Open(p) THEN "cancelled" ELSE take[t]]
  BY <1>1 DEF CancelInterrupted, Local, Rows, Pairs, CpuEnded
<1>3. cpu'[p].state = "cancelled"
  BY <1>2 DEF CancelInterrupted, TypeOK
<1>4. \A t \in TakesOf[p] :
        /\ intent'[t] = IF intent[t] \in {"reserved", "prepared"}
                        THEN "cancelled" ELSE intent[t]
        /\ take'[t] = IF intent[t] \in {"reserved", "prepared"}
                      THEN "cancelled" ELSE take[t]
        /\ intent[t] \in IntentStates /\ intent[t] # "none"
  BY <1>2, CpuAssumption DEF SetIntents, Open, TypeOK, Local, Rows
<1>5. Rows(p)'
  BY <1>1, <1>2, <1>3, <1>4
     DEF Local, Rows, Pairs, CpuEnded, Ended, Settled, IntentStates
<1>6. Lists(p)'
  BY <1>1, <1>4 DEF Local, Lists
<1>7. Processes(p)'
  BY CpuAssumption
     DEF TypeOK, Local, CancelInterrupted, Open, SetIntents, Live,
         Executing, Dead, rows, disk, memory, tasks, budgets, Processes,
         Alive, CpuEnded, Rows, Pairs, Progress, Held, Thread, Launching,
         Running, TakeSteps, Leaving
<1>8. Thread(p)'
  BY CpuAssumption
     DEF TypeOK, Local, CancelInterrupted, Open, SetIntents, Live,
         Executing, Dead, rows, disk, memory, tasks, budgets, Thread,
         Launching, Running, TakeSteps, Leaving, Rows, Pairs
<1>9. Progress(p)'
  BY CpuAssumption
     DEF TypeOK, Local, CancelInterrupted, Open, SetIntents, Live,
         Executing, Dead, rows, disk, memory, tasks, budgets, Progress,
         Launching, Running, TakeSteps, Settled, Rows, Pairs, Processes,
         Thread, Leaving
<1>10. Held(p)'
  BY CpuAssumption
     DEF TypeOK, Local, CancelInterrupted, Open, SetIntents, Live,
         Executing, Dead, rows, disk, memory, tasks, budgets, Held, Settled,
         Progress, Rows
<1> QED BY <1>5, <1>6, <1>7, <1>8, <1>9, <1>10 DEF Local

\* The staging that goes belongs to a cancelled post.
LEMMA RemoveStagesKeeps ==
  ASSUME TypeOK, NEW p \in Posts, Local(p), RemoveStages(p)
  PROVE  Local(p)'
<1>1. /\ p \in sweeping /\ intent' = intent /\ worker' = worker
      /\ marker' = marker /\ final' = final
  BY DEF RemoveStages, rows
<1>2. job[p].status = "cancelled"
  BY <1>1 DEF Local, Rows
<1>3. Rows(p)'
  BY CpuAssumption
     DEF TypeOK, Local, RemoveStages, rows, disk, memory, tasks, budgets,
         Rows, Settled, Pairs, Ended, CpuEnded, Thread, Launching, Running,
         TakeSteps, Leaving
<1>4. Lists(p)'
  BY CpuAssumption
     DEF TypeOK, Local, RemoveStages, rows, disk, memory, tasks, budgets,
         Lists, Rows, Pairs, CpuEnded, Settled, Thread, Launching, Running,
         TakeSteps, Leaving, Progress, Held
<1>5. Processes(p)'
  BY CpuAssumption
     DEF TypeOK, Local, RemoveStages, rows, disk, memory, tasks, budgets,
         Processes, Alive, CpuEnded, Rows, Pairs, Progress, Held, Thread,
         Launching, Running, TakeSteps, Leaving
<1>6. Thread(p)'
  BY CpuAssumption
     DEF TypeOK, Local, RemoveStages, rows, disk, memory, tasks, budgets,
         Thread, Launching, Running, TakeSteps, Leaving, Rows, Pairs
<1>7. Progress(p)'
  BY CpuAssumption
     DEF TypeOK, Local, RemoveStages, rows, disk, memory, tasks, budgets,
         Progress, Launching, Running, TakeSteps, Settled, Rows, Pairs,
         Processes, Thread, Leaving
<1>8. Held(p)'
  BY <1>1, <1>2 DEF Local, Held, Thread, Running, TakeSteps, Settled
<1> QED BY <1>3, <1>4, <1>5, <1>6, <1>7, <1>8 DEF Local

\* The markers that go belong to a post that has ended.
LEMMA SweepKeeps ==
  ASSUME TypeOK, NEW p \in Posts, Local(p), Sweep(p)
  PROVE  Local(p)'
<1>1. /\ job[p].status \in Ended /\ marker' = marker \ TakesOf[p]
      /\ intent' = intent /\ take' = take /\ stage' = stage /\ final' = final
      /\ worker' = worker
  BY DEF Sweep, rows, memory
<1>2. \A t \in TakesOf[p] : intent[t] # "prepared"
  BY <1>1 DEF Local, Rows, Pairs, Ended, CpuEnded, Settled
<1>3. Rows(p)'
  BY CpuAssumption
     DEF TypeOK, Local, Sweep, rows, disk, memory, tasks, budgets, Rows,
         Settled, Pairs, Ended, CpuEnded, Thread, Launching, Running,
         TakeSteps, Leaving
<1>4. Lists(p)'
  BY <1>1, <1>2 DEF Local, Lists
<1>5. Processes(p)'
  BY CpuAssumption
     DEF TypeOK, Local, Sweep, rows, disk, memory, tasks, budgets,
         Processes, Alive, CpuEnded, Rows, Pairs, Progress, Held, Thread,
         Launching, Running, TakeSteps, Leaving
<1>6. Thread(p)'
  BY CpuAssumption
     DEF TypeOK, Local, Sweep, rows, disk, memory, tasks, budgets, Thread,
         Launching, Running, TakeSteps, Leaving, Rows, Pairs
<1>7. Progress(p)'
  BY CpuAssumption
     DEF TypeOK, Local, Sweep, rows, disk, memory, tasks, budgets, Progress,
         Launching, Running, TakeSteps, Settled, Rows, Pairs, Processes,
         Thread, Leaving
<1>8. Held(p)'
  BY <1>1 DEF Local, Held, Thread, Running, TakeSteps, Ended, Settled
<1> QED BY <1>3, <1>4, <1>5, <1>6, <1>7, <1>8 DEF Local

-----------------------------------------------------------------------------
(* A step of one post, and the others.                                     *)

\* The disjuncts of Next for one post.
Step(p) == \/ Execute(p) \/ Group(p) \/ Cancel(p)
           \/ LaunchFails(p) \/ OwnerStops(p) \/ Raise(p) \/ RequestCancel(p)

\* Nothing of what Local says of q is touched.
Same(q) ==
  /\ job'[q] = job[q] /\ cpu'[q] = cpu[q] /\ worker'[q] = worker[q]
  /\ owner'[q] = owner[q] /\ child'[q] = child[q]
  /\ q \in raw' <=> q \in raw
  /\ q \in sweeping' <=> q \in sweeping
  /\ \A t \in TakesOf[q] :
       /\ intent'[t] = intent[t] /\ take'[t] = take[t]
       /\ beats'[t] = beats[t] /\ stage'[t] = stage[t]
       /\ t \in final' <=> t \in final
       /\ t \in marker' <=> t \in marker

\* What a step leaves alone is said of the next state, part by part.
LEMMA SameRows ==
  ASSUME NEW q \in Posts, Rows(q), Same(q)
  PROVE  Rows(q)'
BY DEF Same, Rows, Settled

\* The same for Lists.
LEMMA SameLists ==
  ASSUME NEW q \in Posts, Lists(q), Same(q)
  PROVE  Lists(q)'
BY DEF Same, Lists

\* The same for Processes.
LEMMA SameProcesses ==
  ASSUME NEW q \in Posts, Processes(q), Same(q)
  PROVE  Processes(q)'
BY DEF Same, Processes, Alive

\* The same for Thread.
LEMMA SameThread ==
  ASSUME NEW q \in Posts, Thread(q), Same(q)
  PROVE  Thread(q)'
BY DEF Same, Thread

\* The same for Progress.
LEMMA SameProgress ==
  ASSUME NEW q \in Posts, Progress(q), Same(q)
  PROVE  Progress(q)'
BY DEF Same, Progress, Settled

\* The same for Held.
LEMMA SameHeld ==
  ASSUME TypeOK, NEW q \in Posts, Progress(q), Held(q), Same(q)
  PROVE  Held(q)'
<1>1. worker[q].take \subseteq TakesOf[q]
      \/ worker[q].pc \notin Launching \cup Running
  BY DEF Progress
<1> QED BY <1>1 DEF Same, Held, Settled, Launching, Running, TakeSteps

\* What is said of a post that a step leaves alone is kept.
LEMMA SameKeeps ==
  ASSUME TypeOK, NEW q \in Posts, Local(q), Same(q)
  PROVE  Local(q)'
BY SameRows, SameLists, SameProcesses, SameThread, SameProgress, SameHeld
   DEF Local

\* TypeOK in parts, so that a step is asked about what it writes.
JobType == job \in [Posts -> [status: JobStates, cancel: BOOLEAN]]
CpuType == cpu \in [Posts -> [state: CpuStates,
                              custody: {"unknown", "confirmed"},
                              identity: {"none", "launching", "leader"}]]
TakeType ==
  /\ intent \in [Takes -> IntentStates]
  /\ take \in [Takes -> {"queued", "ready", "failed", "cancelled"}]
  /\ beats \in [Takes -> {"blocked", "failed"}]
DiskType ==
  /\ stage \in [Takes -> {"none", "partial", "package"}]
  /\ final \subseteq Takes /\ marker \subseteq Takes /\ raw \subseteq Posts
ChildType ==
  child \in [Posts -> [phase: {"gone", "gated", "working", "done"},
                       todo: SUBSET Takes, good: SUBSET Takes,
                       bad: SUBSET Takes]]
WorkerRow == [pc: Stages, resume: BOOLEAN, skip: SUBSET Takes,
              seen: SUBSET Takes, take: SUBSET Takes, live: SUBSET Posts]
WorkerType == worker \in [Posts -> WorkerRow]
RestType ==
  /\ server \in {"down", "cleaning", "up"}
  /\ owner \in [Posts -> {"none", "starting", "owned", "closed", "unknown"}]
  /\ resumed \subseteq Posts /\ sweeping \subseteq Posts
  /\ crashes \in 0..MaxCrashes /\ faults \in 0..MaxFaults

\* The parts are all of it.
LEMMA TypeParts ==
  /\ TypeOK <=> /\ JobType /\ CpuType /\ TakeType /\ DiskType /\ ChildType
                /\ WorkerType /\ RestType
  /\ TypeOK' <=> /\ JobType' /\ CpuType' /\ TakeType' /\ DiskType'
                 /\ ChildType' /\ WorkerType' /\ RestType'
BY DEF TypeOK, JobType, CpuType, TakeType, DiskType, ChildType, WorkerType,
   WorkerRow, RestType

\* What the helpers of the actions write is well typed.
LEMMA GoType ==
  ASSUME WorkerType, NEW p \in Posts, NEW pc \in Stages, Go(p, pc)
  PROVE  WorkerType'
BY DEF WorkerType, WorkerRow, Go

\* So is the stage an error leads to.
LEMMA ThrowType ==
  ASSUME WorkerType, NEW p \in Posts, Throw(p)
  PROVE  WorkerType'
BY GoType DEF Throw, Stages

\* So is what a kill leaves of the group.
LEMMA KilledType ==
  ASSUME ChildType, NEW p \in Posts,
         NEW phase \in {"gone", "gated", "working", "done"}, Killed(p, phase)
  PROVE  ChildType'
<1>1. PICK good \in SUBSET child[p].good, bad \in SUBSET child[p].bad :
        child' = [child EXCEPT ![p].phase = phase, ![p].good = good,
                               ![p].bad = bad]
  BY DEF Killed
<1>2. good \subseteq Takes /\ bad \subseteq Takes
  BY DEF ChildType
<1>3. [child[p] EXCEPT !.phase = phase, !.good = good, !.bad = bad]
        \in [phase: {"gone", "gated", "working", "done"},
             todo: SUBSET Takes, good: SUBSET Takes, bad: SUBSET Takes]
  BY <1>2 DEF ChildType
<1> QED BY <1>1, <1>3 DEF ChildType

\* A kill is of one group.
LEMMA KilledOthers ==
  ASSUME TypeOK, NEW p \in Posts, NEW phase, Killed(p, phase)
  PROVE  \A q \in Posts \ {p} : child'[q] = child[q]
BY DEF TypeOK, Killed

\* What is said of a post is kept by every step of that post.
LEMMA StepKeeps ==
  ASSUME TypeOK, NEW p \in Posts, Local(p), Step(p)
  PROVE  Local(p)'
<1>1. CASE ClaimJob(p)
  BY <1>1, ClaimJobKeeps
<1>2. CASE ReadResume(p)
  BY <1>2, ReadResumeKeeps
<1>3. CASE ClaimResume(p)
  BY <1>3, ClaimResumeKeeps
<1>4. CASE Reserve(p)
  BY <1>4, ReserveKeeps
<1>5. CASE PrepareResume(p)
  BY <1>5, PrepareResumeKeeps
<1>6. CASE MarkLaunching(p)
  BY <1>6, MarkLaunchingKeeps
<1>7. CASE Launch(p)
  BY <1>7, LaunchKeeps
<1>8. CASE LaunchFails(p)
  BY <1>8, LaunchFailsKeeps
<1>9. CASE StartRunning(p)
  BY <1>9, StartRunningKeeps
<1>10. ASSUME NEW t \in TakesOf[p], ChildStarts(p, t)
      PROVE  Local(p)'
  BY <1>10, ChildStartsKeeps
<1>11. ASSUME NEW t \in TakesOf[p], ChildSends(p, t)
      PROVE  Local(p)'
  BY <1>11, ChildSendsKeeps
<1>12. CASE ChildCloses(p)
  BY <1>12, ChildClosesKeeps
<1>13. CASE ChildDies(p)
  BY <1>13, ChildDiesKeeps
<1>14. CASE OwnerCloses(p)
  BY <1>14, OwnerClosesKeeps
<1>15. CASE OwnerStops(p)
  BY <1>15, OwnerStopsKeeps
<1>16. ASSUME NEW t \in TakesOf[p], Receive(p, t)
      PROVE  Local(p)'
  BY <1>16, ReceiveKeeps
<1>17. ASSUME NEW t \in TakesOf[p], WriteMarker(p, t)
      PROVE  Local(p)'
  BY <1>17, WriteMarkerKeeps
<1>18. ASSUME NEW t \in TakesOf[p], PrepareIntent(p, t)
      PROVE  Local(p)'
  BY <1>18, PrepareIntentKeeps
<1>19. ASSUME NEW t \in TakesOf[p], Rename(p, t)
      PROVE  Local(p)'
  BY <1>19, RenameKeeps
<1>20. ASSUME NEW t \in TakesOf[p], CommitIntent(p, t)
      PROVE  Local(p)'
  BY <1>20, CommitIntentKeeps
<1>21. ASSUME NEW t \in TakesOf[p], FailTake(p, t)
      PROVE  Local(p)'
  BY <1>21, FailTakeKeeps
<1>22. CASE Published(p)
  BY <1>22, PublishedKeeps
<1>23. CASE Join(p)
  BY <1>23, JoinKeeps
<1>24. CASE Replay(p)
  BY <1>24, ReplayKeeps
<1>25. CASE Finish(p)
  BY <1>25, FinishKeeps
<1>26. CASE Clear(p)
  BY <1>26, ClearKeeps
<1>27. CASE Raise(p)
  BY <1>27, RaiseKeeps
<1>28. CASE Unwind(p)
  BY <1>28, UnwindKeeps
<1>29. CASE Interrupt(p)
  BY <1>29, InterruptKeeps
<1>30. CASE FailPlan(p)
  BY <1>30, FailPlanKeeps
<1>31. CASE RequestCancel(p)
  BY <1>31, RequestCancelKeeps
<1>32. CASE CancelQueued(p)
  BY <1>32, CancelQueuedKeeps
<1>33. CASE CancelRunning(p)
  BY <1>33, CancelRunningKeeps
<1>34. CASE CancelInterrupted(p)
  BY <1>34, CancelInterruptedKeeps
<1>35. CASE RemoveStages(p)
  BY <1>35, RemoveStagesKeeps
<1>36. CASE Sweep(p)
  BY <1>36, SweepKeeps
<1> QED BY <1>1, <1>2, <1>3, <1>4, <1>5, <1>6, <1>7, <1>8, <1>9, <1>10,
           <1>11, <1>12, <1>13, <1>14, <1>15, <1>16, <1>17, <1>18, <1>19,
           <1>20, <1>21, <1>22, <1>23, <1>24, <1>25, <1>26, <1>27, <1>28,
           <1>29, <1>30, <1>31, <1>32, <1>33, <1>34, <1>35, <1>36
     DEF Step, Execute, Group, Cancel

\* A step of a post leaves every other post alone.
LEMMA Frame ==
  ASSUME TypeOK, NEW p \in Posts, Step(p)
  PROVE  \A q \in Posts \ {p} : Same(q)
<1>1. CASE ClaimJob(p)
  BY <1>1, CpuAssumption
     DEF ClaimJob, Idle, rows, disk, memory, tasks, budgets, Fault, TypeOK,
         Same
<1>2. CASE ReadResume(p)
  BY <1>2, CpuAssumption
     DEF ReadResume, Idle, Resumable, rows, disk, memory, tasks, budgets,
         Fault, TypeOK, Same
<1>3. CASE ClaimResume(p)
  BY <1>3, CpuAssumption
     DEF ClaimResume, Dead, Idle, rows, disk, memory, tasks, budgets, Fault,
         TypeOK, Same
<1>4. CASE Reserve(p)
  BY <1>4, CpuAssumption
     DEF Reserve, SetIntents, Throw, Go, rows, disk, memory, tasks, budgets,
         Fault, TypeOK, Same
<1>5. CASE PrepareResume(p)
  BY <1>5, CpuAssumption
     DEF PrepareResume, Throw, Go, rows, disk, memory, tasks, budgets,
         Fault, TypeOK, Same
<1>6. CASE MarkLaunching(p)
  BY <1>6, CpuAssumption
     DEF MarkLaunching, Go, rows, disk, memory, tasks, budgets, Fault,
         TypeOK, Same
<1>7. CASE Launch(p)
  BY <1>7, CpuAssumption
     DEF Launch, Go, rows, disk, memory, tasks, budgets, Fault, TypeOK, Same
<1>8. CASE LaunchFails(p)
  BY <1>8, CpuAssumption
     DEF LaunchFails, Go, NoChild, rows, disk, memory, tasks, budgets,
         Fault, TypeOK, Same
<1>9. CASE StartRunning(p)
  BY <1>9, CpuAssumption
     DEF StartRunning, Throw, Go, rows, disk, memory, tasks, budgets, Fault,
         TypeOK, Same
<1>10. CASE \E t \in TakesOf[p] : ChildStarts(p, t)
  BY <1>10, CpuAssumption
     DEF ChildStarts, rows, disk, memory, tasks, budgets, Fault, TypeOK,
         Same
<1>11. CASE \E t \in TakesOf[p] : ChildSends(p, t)
  BY <1>11, CpuAssumption
     DEF ChildSends, rows, disk, memory, tasks, budgets, Fault, TypeOK, Same
<1>12. CASE ChildCloses(p)
  BY <1>12, CpuAssumption
     DEF ChildCloses, rows, disk, memory, tasks, budgets, Fault, TypeOK,
         Same
<1>13. CASE ChildDies(p)
  BY <1>13, CpuAssumption
     DEF ChildDies, rows, disk, memory, tasks, budgets, Fault, TypeOK, Same
<1>14. CASE OwnerCloses(p)
  BY <1>14, CpuAssumption
     DEF OwnerCloses, rows, disk, memory, tasks, budgets, Fault, TypeOK,
         Same
<1>15. CASE OwnerStops(p)
  BY <1>15, KilledOthers DEF OwnerStops, rows, disk, tasks, TypeOK, Same
<1>16. CASE \E t \in TakesOf[p] : Receive(p, t)
  BY <1>16, CpuAssumption
     DEF Receive, Current, rows, disk, memory, tasks, budgets, Fault,
         TypeOK, Same
<1>17. CASE \E t \in TakesOf[p] : WriteMarker(p, t)
  BY <1>17, CpuAssumption
     DEF WriteMarker, Current, Go, Throw, rows, disk, memory, tasks,
         budgets, Fault, TypeOK, Same
<1>18. CASE \E t \in TakesOf[p] : PrepareIntent(p, t)
  BY <1>18, CpuAssumption
     DEF PrepareIntent, Current, Go, Throw, rows, disk, memory, tasks,
         budgets, Fault, TypeOK, Same
<1>19. CASE \E t \in TakesOf[p] : Rename(p, t)
  BY <1>19, CpuAssumption
     DEF Rename, Current, Go, Throw, rows, disk, memory, tasks, budgets,
         Fault, TypeOK, Same
<1>20. CASE \E t \in TakesOf[p] : CommitIntent(p, t)
  BY <1>20, CpuAssumption
     DEF CommitIntent, Current, Go, Throw, rows, disk, memory, tasks,
         budgets, Fault, TypeOK, Same
<1>21. CASE \E t \in TakesOf[p] : FailTake(p, t)
  BY <1>21, CpuAssumption
     DEF FailTake, Current, Go, Throw, rows, disk, memory, tasks, budgets,
         Fault, TypeOK, Same
<1>22. CASE Published(p)
  BY <1>22, CpuAssumption
     DEF Published, rows, disk, memory, tasks, budgets, Fault, TypeOK, Same
<1>23. CASE Join(p)
  BY <1>23, CpuAssumption
     DEF Join, Go, Throw, rows, disk, memory, tasks, budgets, Fault, TypeOK,
         Same
<1>24. CASE Replay(p)
  BY <1>24, CpuAssumption
     DEF Replay, Go, rows, disk, memory, tasks, budgets, Fault, TypeOK, Same
<1>25. CASE Finish(p)
  BY <1>25, CpuAssumption
     DEF Finish, Go, Throw, rows, disk, memory, tasks, budgets, Fault,
         TypeOK, Same
<1>26. CASE Clear(p)
  BY <1>26, CpuAssumption
     DEF Clear, Idle, rows, disk, memory, tasks, budgets, Fault, TypeOK,
         Same
<1>27. CASE Raise(p)
  BY <1>27, CpuAssumption
     DEF Raise, Go, Throw, rows, disk, memory, tasks, budgets, Fault,
         TypeOK, Same
<1>28. CASE Unwind(p)
  BY <1>28, KilledOthers DEF Unwind, Go, rows, disk, tasks, TypeOK, Same
<1>29. CASE Interrupt(p)
  BY <1>29, CpuAssumption
     DEF Interrupt, Go, rows, disk, memory, tasks, budgets, Fault, TypeOK,
         Same
<1>30. CASE FailPlan(p)
  BY <1>30, CpuAssumption
     DEF FailPlan, Idle, rows, disk, memory, tasks, budgets, Fault, TypeOK,
         Same
<1>31. CASE RequestCancel(p)
  BY <1>31, CpuAssumption
     DEF RequestCancel, rows, disk, memory, tasks, budgets, Fault, TypeOK,
         Same
<1>32. CASE CancelQueued(p)
  BY <1>32, CpuAssumption
     DEF CancelQueued, rows, disk, memory, tasks, budgets, Fault, TypeOK,
         Same
<1>33. CASE CancelRunning(p)
  BY <1>33, CpuAssumption
     DEF CancelRunning, Killed, Executing, rows, disk, memory, tasks,
         budgets, Fault, TypeOK, Same
<1>34. CASE CancelInterrupted(p)
  <2>1. \A q \in Posts \ {p} : \A t \in TakesOf[q] :
           intent'[t] = intent[t] /\ take'[t] = take[t]
    <3>1. \A q \in Posts \ {p} : \A t \in TakesOf[q] :
             t \in Takes /\ t \notin Open(p)
      BY CpuAssumption DEF Open
    <3> QED BY <1>34, <3>1 DEF CancelInterrupted, SetIntents, TypeOK
  <2>2. \A q \in Posts \ {p} : cpu'[q] = cpu[q] /\ job'[q] = job[q]
    BY <1>34 DEF CancelInterrupted, TypeOK
  <2> QED BY <1>34, <2>1, <2>2 DEF CancelInterrupted, disk, TypeOK, Same
<1>35. CASE RemoveStages(p)
  BY <1>35, CpuAssumption
     DEF RemoveStages, rows, disk, memory, tasks, budgets, Fault, TypeOK,
         Same
<1>36. CASE Sweep(p)
  BY <1>36, CpuAssumption
     DEF Sweep, rows, disk, memory, tasks, budgets, Fault, TypeOK, Same
<1> QED BY <1>1, <1>2, <1>3, <1>4, <1>5, <1>6, <1>7, <1>8, <1>9, <1>10,
           <1>11, <1>12, <1>13, <1>14, <1>15, <1>16, <1>17, <1>18, <1>19,
           <1>20, <1>21, <1>22, <1>23, <1>24, <1>25, <1>26, <1>27, <1>28,
           <1>29, <1>30, <1>31, <1>32, <1>33, <1>34, <1>35, <1>36
     DEF Step, Execute, Group, Cancel

\* A thread moves in a server that is up.
LEMMA StepStill ==
  ASSUME TypeOK, NEW p \in Posts, Step(p)
  PROVE  /\ server' = server
         /\ worker' = worker \/ server = "up" \/ worker[p].pc # "idle"
<1>1. CASE ClaimJob(p)
  BY <1>1, CpuAssumption
     DEF ClaimJob, Idle, rows, disk, memory, tasks, budgets, Fault, TypeOK
<1>2. CASE ReadResume(p)
  BY <1>2, CpuAssumption
     DEF ReadResume, Idle, Resumable, rows, disk, memory, tasks, budgets,
         Fault, TypeOK
<1>3. CASE ClaimResume(p)
  BY <1>3, CpuAssumption
     DEF ClaimResume, Dead, Idle, rows, disk, memory, tasks, budgets, Fault,
         TypeOK
<1>4. CASE Reserve(p)
  BY <1>4, CpuAssumption
     DEF Reserve, SetIntents, Throw, Go, rows, disk, memory, tasks, budgets,
         Fault, TypeOK
<1>5. CASE PrepareResume(p)
  BY <1>5, CpuAssumption
     DEF PrepareResume, Throw, Go, rows, disk, memory, tasks, budgets,
         Fault, TypeOK
<1>6. CASE MarkLaunching(p)
  BY <1>6, CpuAssumption
     DEF MarkLaunching, Go, rows, disk, memory, tasks, budgets, Fault,
         TypeOK
<1>7. CASE Launch(p)
  BY <1>7, CpuAssumption
     DEF Launch, Go, rows, disk, memory, tasks, budgets, Fault, TypeOK
<1>8. CASE LaunchFails(p)
  BY <1>8, CpuAssumption
     DEF LaunchFails, Go, NoChild, rows, disk, memory, tasks, budgets,
         Fault, TypeOK
<1>9. CASE StartRunning(p)
  BY <1>9, CpuAssumption
     DEF StartRunning, Throw, Go, rows, disk, memory, tasks, budgets, Fault,
         TypeOK
<1>10. CASE \E t \in TakesOf[p] : ChildStarts(p, t)
  BY <1>10, CpuAssumption
     DEF ChildStarts, rows, disk, memory, tasks, budgets, Fault, TypeOK
<1>11. CASE \E t \in TakesOf[p] : ChildSends(p, t)
  BY <1>11, CpuAssumption
     DEF ChildSends, rows, disk, memory, tasks, budgets, Fault, TypeOK
<1>12. CASE ChildCloses(p)
  BY <1>12, CpuAssumption
     DEF ChildCloses, rows, disk, memory, tasks, budgets, Fault, TypeOK
<1>13. CASE ChildDies(p)
  BY <1>13, CpuAssumption
     DEF ChildDies, rows, disk, memory, tasks, budgets, Fault, TypeOK
<1>14. CASE OwnerCloses(p)
  BY <1>14, CpuAssumption
     DEF OwnerCloses, rows, disk, memory, tasks, budgets, Fault, TypeOK
<1>15. CASE OwnerStops(p)
  BY <1>15, CpuAssumption
     DEF OwnerStops, Killed, rows, disk, memory, tasks, budgets, Fault,
         TypeOK
<1>16. CASE \E t \in TakesOf[p] : Receive(p, t)
  BY <1>16, CpuAssumption
     DEF Receive, Current, rows, disk, memory, tasks, budgets, Fault, TypeOK
<1>17. CASE \E t \in TakesOf[p] : WriteMarker(p, t)
  BY <1>17, CpuAssumption
     DEF WriteMarker, Current, Go, Throw, rows, disk, memory, tasks,
         budgets, Fault, TypeOK
<1>18. CASE \E t \in TakesOf[p] : PrepareIntent(p, t)
  BY <1>18, CpuAssumption
     DEF PrepareIntent, Current, Go, Throw, rows, disk, memory, tasks,
         budgets, Fault, TypeOK
<1>19. CASE \E t \in TakesOf[p] : Rename(p, t)
  BY <1>19, CpuAssumption
     DEF Rename, Current, Go, Throw, rows, disk, memory, tasks, budgets,
         Fault, TypeOK
<1>20. CASE \E t \in TakesOf[p] : CommitIntent(p, t)
  BY <1>20, CpuAssumption
     DEF CommitIntent, Current, Go, Throw, rows, disk, memory, tasks,
         budgets, Fault, TypeOK
<1>21. CASE \E t \in TakesOf[p] : FailTake(p, t)
  BY <1>21, CpuAssumption
     DEF FailTake, Current, Go, Throw, rows, disk, memory, tasks, budgets,
         Fault, TypeOK
<1>22. CASE Published(p)
  BY <1>22, CpuAssumption
     DEF Published, rows, disk, memory, tasks, budgets, Fault, TypeOK
<1>23. CASE Join(p)
  BY <1>23, CpuAssumption
     DEF Join, Go, Throw, rows, disk, memory, tasks, budgets, Fault, TypeOK
<1>24. CASE Replay(p)
  BY <1>24, CpuAssumption
     DEF Replay, Go, rows, disk, memory, tasks, budgets, Fault, TypeOK
<1>25. CASE Finish(p)
  BY <1>25, CpuAssumption
     DEF Finish, Go, Throw, rows, disk, memory, tasks, budgets, Fault,
         TypeOK
<1>26. CASE Clear(p)
  BY <1>26, CpuAssumption
     DEF Clear, Idle, rows, disk, memory, tasks, budgets, Fault, TypeOK
<1>27. CASE Raise(p)
  BY <1>27, CpuAssumption
     DEF Raise, Go, Throw, rows, disk, memory, tasks, budgets, Fault, TypeOK
<1>28. CASE Unwind(p)
  BY <1>28, CpuAssumption
     DEF Unwind, Go, Killed, rows, disk, memory, tasks, budgets, Fault,
         TypeOK
<1>29. CASE Interrupt(p)
  BY <1>29, CpuAssumption
     DEF Interrupt, Go, rows, disk, memory, tasks, budgets, Fault, TypeOK
<1>30. CASE FailPlan(p)
  BY <1>30, CpuAssumption
     DEF FailPlan, Idle, rows, disk, memory, tasks, budgets, Fault, TypeOK
<1>31. CASE RequestCancel(p)
  BY <1>31, CpuAssumption
     DEF RequestCancel, rows, disk, memory, tasks, budgets, Fault, TypeOK
<1>32. CASE CancelQueued(p)
  BY <1>32, CpuAssumption
     DEF CancelQueued, rows, disk, memory, tasks, budgets, Fault, TypeOK
<1>33. CASE CancelRunning(p)
  BY <1>33, CpuAssumption
     DEF CancelRunning, Killed, Executing, rows, disk, memory, tasks,
         budgets, Fault, TypeOK
<1>34. CASE CancelInterrupted(p)
  BY <1>34, CpuAssumption
     DEF CancelInterrupted, Open, SetIntents, Live, Executing, Dead, rows,
         disk, memory, tasks, budgets, Fault, TypeOK
<1>35. CASE RemoveStages(p)
  BY <1>35, CpuAssumption
     DEF RemoveStages, rows, disk, memory, tasks, budgets, Fault, TypeOK
<1>36. CASE Sweep(p)
  BY <1>36, CpuAssumption
     DEF Sweep, rows, disk, memory, tasks, budgets, Fault, TypeOK
<1> QED BY <1>1, <1>2, <1>3, <1>4, <1>5, <1>6, <1>7, <1>8, <1>9, <1>10,
           <1>11, <1>12, <1>13, <1>14, <1>15, <1>16, <1>17, <1>18, <1>19,
           <1>20, <1>21, <1>22, <1>23, <1>24, <1>25, <1>26, <1>27, <1>28,
           <1>29, <1>30, <1>31, <1>32, <1>33, <1>34, <1>35, <1>36
     DEF Step, Execute, Group, Cancel

\* The types are kept by every step of a post.
LEMMA TypeKept ==
  ASSUME TypeOK, NEW p \in Posts, Step(p)
  PROVE  TypeOK'
<1> SUFFICES /\ JobType' /\ CpuType' /\ TakeType' /\ DiskType' /\ ChildType'
             /\ WorkerType' /\ RestType'
  BY TypeParts
<1> JobType /\ CpuType /\ TakeType /\ DiskType /\ ChildType /\ WorkerType
    /\ RestType
  BY TypeParts
<1>1. CASE ClaimJob(p)
  <2>1. JobType'
    BY <1>1, CpuAssumption
       DEF JobType, ClaimJob, rows, JobStates
  <2>2. WorkerType'
    BY <1>1, CpuAssumption
       DEF WorkerType, ClaimJob, Idle, memory, WorkerRow, Stages
  <2>3. CpuType' /\ TakeType' /\ DiskType' /\ ChildType' /\ RestType'
    BY <1>1 DEF CpuType, TakeType, DiskType, ChildType, RestType, ClaimJob,
       rows, disk, memory, tasks, budgets
  <2> QED BY <2>1, <2>2, <2>3
<1>2. CASE ReadResume(p)
  <2>1. WorkerType'
    <3>1. [Idle EXCEPT !.pc = "resuming", !.live = Live] \in WorkerRow
      BY DEF Idle, WorkerRow, Stages, Live, Executing
    <3> QED BY <1>2, <3>1 DEF ReadResume, WorkerType
  <2>2. JobType' /\ CpuType' /\ TakeType' /\ DiskType'
       /\ ChildType' /\ RestType'
    BY <1>2 DEF JobType, CpuType, TakeType, DiskType, ChildType, RestType,
       ReadResume, rows, disk, memory, tasks, budgets
  <2> QED BY <2>1, <2>2
<1>3. CASE ClaimResume(p)
  <2>1. JobType'
    BY <1>3, CpuAssumption
       DEF JobType, ClaimResume, rows, JobStates
  <2>2. CpuType'
    BY <1>3, CpuAssumption
       DEF CpuType, ClaimResume, rows, CpuStates
  <2>3. WorkerType'
    <3>1. /\ [Idle EXCEPT !.pc = "planning", !.resume = TRUE] \in WorkerRow
          /\ Idle \in WorkerRow
      BY DEF Idle, WorkerRow, Stages
    <3> QED BY <1>3, <3>1 DEF ClaimResume, WorkerType
  <2>4. RestType'
    BY <1>3, CpuAssumption
       DEF RestType, ClaimResume, tasks, memory, budgets
  <2>5. TakeType' /\ DiskType' /\ ChildType'
    BY <1>3 DEF TakeType, DiskType, ChildType, ClaimResume, rows, disk,
       memory, tasks, budgets
  <2> QED BY <2>1, <2>2, <2>3, <2>4, <2>5
<1>4. CASE Reserve(p)
  <2>1. CpuType'
    BY <1>4, CpuAssumption
       DEF CpuType, Reserve, rows, CpuStates
  <2>2. TakeType'
    BY <1>4, CpuAssumption
       DEF TakeType, Reserve, SetIntents, rows, IntentStates
  <2>3. WorkerType'
    BY <1>4, CpuAssumption
       DEF WorkerType, Reserve, Throw, Go, memory, WorkerRow, Stages
  <2>4. JobType' /\ DiskType' /\ ChildType' /\ RestType'
    BY <1>4 DEF JobType, DiskType, ChildType, RestType, Reserve, rows, disk,
       memory, tasks, budgets
  <2> QED BY <2>1, <2>2, <2>3, <2>4
<1>5. CASE PrepareResume(p)
  <2>1. CpuType'
    BY <1>5, CpuAssumption, SMTT(30)
       DEF CpuType, PrepareResume, rows, CpuStates
  <2>2. DiskType'
    BY <1>5, CpuAssumption
       DEF DiskType, PrepareResume, disk
  <2>3. WorkerType'
    BY <1>5, CpuAssumption
       DEF WorkerType, PrepareResume, Throw, Go, memory, WorkerRow, Stages
  <2>4. JobType' /\ TakeType' /\ ChildType' /\ RestType'
    BY <1>5 DEF JobType, TakeType, ChildType, RestType, PrepareResume, rows,
       disk, memory, tasks, budgets
  <2> QED BY <2>1, <2>2, <2>3, <2>4
<1>6. CASE MarkLaunching(p)
  <2>1. CpuType'
    BY <1>6, CpuAssumption
       DEF CpuType, MarkLaunching, rows, CpuStates
  <2>2. WorkerType'
    BY <1>6, CpuAssumption, SMTT(30)
       DEF WorkerType, MarkLaunching, Go, memory, WorkerRow, Stages
  <2>3. JobType' /\ TakeType' /\ DiskType' /\ ChildType' /\ RestType'
    BY <1>6 DEF JobType, TakeType, DiskType, ChildType, RestType,
       MarkLaunching, rows, disk, memory, tasks, budgets
  <2> QED BY <2>1, <2>2, <2>3
<1>7. CASE Launch(p)
  <2>1. ChildType'
    BY <1>7, CpuAssumption
       DEF ChildType, Launch
  <2>2. WorkerType'
    BY <1>7, GoType DEF Launch, Stages
  <2>3. RestType'
    BY <1>7, CpuAssumption
       DEF RestType, Launch, tasks, memory, budgets
  <2>4. JobType' /\ CpuType' /\ TakeType' /\ DiskType'
    BY <1>7 DEF JobType, CpuType, TakeType, DiskType, Launch, rows, disk,
       memory, tasks, budgets
  <2> QED BY <2>1, <2>2, <2>3, <2>4
<1>8. CASE LaunchFails(p)
  <2>1. CpuType'
    BY <1>8, CpuAssumption
       DEF CpuType, LaunchFails, rows, CpuStates
  <2>2. ChildType'
    BY <1>8, CpuAssumption
       DEF ChildType, LaunchFails, NoChild
  <2>3. WorkerType'
    BY <1>8, GoType DEF LaunchFails, Stages
  <2>4. RestType'
    BY <1>8, CpuAssumption
       DEF RestType, LaunchFails, tasks, memory, budgets, Fault
  <2>5. JobType' /\ TakeType' /\ DiskType'
    BY <1>8 DEF JobType, TakeType, DiskType, LaunchFails, rows, disk,
       memory, tasks, budgets
  <2> QED BY <2>1, <2>2, <2>3, <2>4, <2>5
<1>9. CASE StartRunning(p)
  <2>1. CpuType'
    BY <1>9, CpuAssumption
       DEF CpuType, StartRunning, rows, CpuStates
  <2>2. ChildType'
    BY <1>9, CpuAssumption, SMTT(30)
       DEF ChildType, StartRunning
  <2>3. WorkerType'
    BY <1>9, CpuAssumption, SMTT(30)
       DEF WorkerType, StartRunning, Throw, Go, memory, WorkerRow, Stages
  <2>4. RestType'
    BY <1>9, CpuAssumption
       DEF RestType, StartRunning, tasks, memory, budgets
  <2>5. JobType' /\ TakeType' /\ DiskType'
    BY <1>9 DEF JobType, TakeType, DiskType, StartRunning, rows, disk,
       memory, tasks, budgets
  <2> QED BY <2>1, <2>2, <2>3, <2>4, <2>5
<1>10. CASE \E t \in TakesOf[p] : ChildStarts(p, t)
  <2> PICK t \in TakesOf[p] : ChildStarts(p, t)
    BY <1>10
  <2>1. DiskType'
    BY CpuAssumption
       DEF DiskType, ChildStarts, disk
  <2>2. JobType' /\ CpuType' /\ TakeType' /\ ChildType'
       /\ WorkerType' /\ RestType'
    BY DEF JobType, CpuType, TakeType, ChildType, WorkerType, RestType,
       ChildStarts, rows, disk, memory, tasks, budgets
  <2> QED BY <2>1, <2>2
<1>11. CASE \E t \in TakesOf[p] : ChildSends(p, t)
  <2> PICK t \in TakesOf[p] : ChildSends(p, t)
    BY <1>11
  <2>1. DiskType'
    BY CpuAssumption
       DEF DiskType, ChildSends, disk
  <2>2. ChildType'
    BY CpuAssumption
       DEF ChildType, ChildSends
  <2>3. RestType'
    BY CpuAssumption
       DEF RestType, ChildSends, tasks, memory, budgets, Fault
  <2>4. JobType' /\ CpuType' /\ TakeType' /\ WorkerType'
    BY DEF JobType, CpuType, TakeType, WorkerType, ChildSends, rows, disk,
       memory, tasks, budgets
  <2> QED BY <2>1, <2>2, <2>3, <2>4
<1>12. CASE ChildCloses(p)
  <2>1. ChildType'
    BY <1>12, CpuAssumption, SMTT(30)
       DEF ChildType, ChildCloses
  <2>2. JobType' /\ CpuType' /\ TakeType' /\ DiskType'
       /\ WorkerType' /\ RestType'
    BY <1>12 DEF JobType, CpuType, TakeType, DiskType, WorkerType, RestType,
       ChildCloses, rows, disk, memory, tasks, budgets
  <2> QED BY <2>1, <2>2
<1>13. CASE ChildDies(p)
  <2>1. ChildType'
    BY <1>13, CpuAssumption
       DEF ChildType, ChildDies
  <2>2. JobType' /\ CpuType' /\ TakeType' /\ DiskType'
       /\ WorkerType' /\ RestType'
    BY <1>13 DEF JobType, CpuType, TakeType, DiskType, WorkerType, RestType,
       ChildDies, rows, disk, memory, tasks, budgets
  <2> QED BY <2>1, <2>2
<1>14. CASE OwnerCloses(p)
  <2>1. ChildType'
    BY <1>14, CpuAssumption, SMTT(30)
       DEF ChildType, OwnerCloses
  <2>2. RestType'
    BY <1>14, CpuAssumption
       DEF RestType, OwnerCloses, tasks, memory, budgets
  <2>3. JobType' /\ CpuType' /\ TakeType' /\ DiskType' /\ WorkerType'
    BY <1>14 DEF JobType, CpuType, TakeType, DiskType, WorkerType,
       OwnerCloses, rows, disk, memory, tasks, budgets
  <2> QED BY <2>1, <2>2, <2>3
<1>15. CASE OwnerStops(p)
  <2>1. ChildType'
    <3>1. child[p].phase \in {"gone", "gated", "working", "done"}
      BY DEF ChildType
    <3> QED BY <1>15, <3>1, KilledType DEF OwnerStops
  <2>2. RestType'
    BY <1>15, CpuAssumption
       DEF RestType, OwnerStops, tasks, memory, budgets, Fault
  <2>3. JobType' /\ CpuType' /\ TakeType' /\ DiskType' /\ WorkerType'
    BY <1>15 DEF JobType, CpuType, TakeType, DiskType, WorkerType,
       OwnerStops, rows, disk, memory, tasks, budgets
  <2> QED BY <2>1, <2>2, <2>3
<1>16. CASE \E t \in TakesOf[p] : Receive(p, t)
  <2> PICK t \in TakesOf[p] : Receive(p, t)
    BY <1>16
  <2>1. WorkerType'
    BY CpuAssumption
       DEF WorkerType, Receive, memory, WorkerRow, Stages
  <2>2. JobType' /\ CpuType' /\ TakeType' /\ DiskType'
       /\ ChildType' /\ RestType'
    BY DEF JobType, CpuType, TakeType, DiskType, ChildType, RestType,
       Receive, rows, disk, memory, tasks, budgets
  <2> QED BY <2>1, <2>2
<1>17. CASE \E t \in TakesOf[p] : WriteMarker(p, t)
  <2> PICK t \in TakesOf[p] : WriteMarker(p, t)
    BY <1>17
  <2>1. DiskType'
    BY CpuAssumption
       DEF DiskType, WriteMarker, disk
  <2>2. WorkerType'
    BY GoType, ThrowType DEF WriteMarker, Stages
  <2>3. JobType' /\ CpuType' /\ TakeType' /\ ChildType' /\ RestType'
    BY DEF JobType, CpuType, TakeType, ChildType, RestType, WriteMarker,
       rows, disk, memory, tasks, budgets
  <2> QED BY <2>1, <2>2, <2>3
<1>18. CASE \E t \in TakesOf[p] : PrepareIntent(p, t)
  <2> PICK t \in TakesOf[p] : PrepareIntent(p, t)
    BY <1>18
  <2>1. TakeType'
    BY CpuAssumption
       DEF TakeType, PrepareIntent, rows, IntentStates
  <2>2. WorkerType'
    BY CpuAssumption, SMTT(30)
       DEF WorkerType, PrepareIntent, Go, Throw, memory, WorkerRow, Stages
  <2>3. JobType' /\ CpuType' /\ DiskType' /\ ChildType' /\ RestType'
    BY DEF JobType, CpuType, DiskType, ChildType, RestType, PrepareIntent,
       rows, disk, memory, tasks, budgets
  <2> QED BY <2>1, <2>2, <2>3
<1>19. CASE \E t \in TakesOf[p] : Rename(p, t)
  <2> PICK t \in TakesOf[p] : Rename(p, t)
    BY <1>19
  <2>1. DiskType'
    BY CpuAssumption
       DEF DiskType, Rename, disk
  <2>2. WorkerType'
    BY GoType, ThrowType DEF Rename, Stages
  <2>3. JobType' /\ CpuType' /\ TakeType' /\ ChildType' /\ RestType'
    BY DEF JobType, CpuType, TakeType, ChildType, RestType, Rename, rows,
       disk, memory, tasks, budgets
  <2> QED BY <2>1, <2>2, <2>3
<1>20. CASE \E t \in TakesOf[p] : CommitIntent(p, t)
  <2> PICK t \in TakesOf[p] : CommitIntent(p, t)
    BY <1>20
  <2>1. TakeType'
    BY CpuAssumption
       DEF TakeType, CommitIntent, rows, IntentStates
  <2>2. WorkerType'
    BY GoType, ThrowType DEF CommitIntent, Stages
  <2>3. JobType' /\ CpuType' /\ DiskType' /\ ChildType' /\ RestType'
    BY DEF JobType, CpuType, DiskType, ChildType, RestType, CommitIntent,
       rows, disk, memory, tasks, budgets
  <2> QED BY <2>1, <2>2, <2>3
<1>21. CASE \E t \in TakesOf[p] : FailTake(p, t)
  <2> PICK t \in TakesOf[p] : FailTake(p, t)
    BY <1>21
  <2>1. TakeType'
    BY CpuAssumption
       DEF TakeType, FailTake, rows, IntentStates
  <2>2. WorkerType'
    BY GoType, ThrowType DEF FailTake, Stages
  <2>3. JobType' /\ CpuType' /\ DiskType' /\ ChildType' /\ RestType'
    BY DEF JobType, CpuType, DiskType, ChildType, RestType, FailTake, rows,
       disk, memory, tasks, budgets
  <2> QED BY <2>1, <2>2, <2>3
<1>22. CASE Published(p)
  <2>1. WorkerType'
    <3>1. ASSUME NEW pc \in {"consuming", "replaying"}
          PROVE  [worker[p] EXCEPT !.take = {}, !.pc = pc] \in WorkerRow
      <4>1. worker[p] \in WorkerRow /\ pc \in Stages
        BY DEF WorkerType, Stages
      <4> QED BY <4>1 DEF WorkerRow
    <3>2. \E pc \in {"consuming", "replaying"} :
            worker' = [worker EXCEPT ![p] =
                         [worker[p] EXCEPT !.take = {}, !.pc = pc]]
      BY <1>22 DEF Published
    <3> QED BY <3>1, <3>2 DEF WorkerType
  <2>2. JobType' /\ CpuType' /\ TakeType' /\ DiskType'
       /\ ChildType' /\ RestType'
    BY <1>22 DEF JobType, CpuType, TakeType, DiskType, ChildType, RestType,
       Published, rows, disk, memory, tasks, budgets
  <2> QED BY <2>1, <2>2
<1>23. CASE Join(p)
  <2>1. WorkerType'
    BY <1>23, CpuAssumption, SMTT(30)
       DEF WorkerType, Join, Go, Throw, memory, WorkerRow, Stages
  <2>2. JobType' /\ CpuType' /\ TakeType' /\ DiskType'
       /\ ChildType' /\ RestType'
    BY <1>23 DEF JobType, CpuType, TakeType, DiskType, ChildType, RestType,
       Join, rows, disk, memory, tasks, budgets
  <2> QED BY <2>1, <2>2
<1>24. CASE Replay(p)
  <2>1. WorkerType'
    BY <1>24, CpuAssumption
       DEF WorkerType, Replay, Go, memory, WorkerRow, Stages
  <2>2. JobType' /\ CpuType' /\ TakeType' /\ DiskType'
       /\ ChildType' /\ RestType'
    BY <1>24 DEF JobType, CpuType, TakeType, DiskType, ChildType, RestType,
       Replay, rows, disk, memory, tasks, budgets
  <2> QED BY <2>1, <2>2
<1>25. CASE Finish(p)
  <2>1. JobType'
    BY <1>25, CpuAssumption
       DEF JobType, Finish, rows, JobStates
  <2>2. CpuType'
    BY <1>25, CpuAssumption
       DEF CpuType, Finish, rows, CpuStates
  <2>3. TakeType'
    BY <1>25, CpuAssumption
       DEF TakeType, Finish, rows, IntentStates
  <2>4. WorkerType'
    BY <1>25, CpuAssumption, SMTT(30)
       DEF WorkerType, Finish, Go, Throw, memory, WorkerRow, Stages
  <2>5. DiskType' /\ ChildType' /\ RestType'
    BY <1>25 DEF DiskType, ChildType, RestType, Finish, rows, disk, memory,
       tasks, budgets
  <2> QED BY <2>1, <2>2, <2>3, <2>4, <2>5
<1>26. CASE Clear(p)
  <2>1. DiskType'
    BY <1>26, CpuAssumption
       DEF DiskType, Clear, disk
  <2>2. WorkerType'
    BY <1>26, CpuAssumption
       DEF WorkerType, Clear, Idle, memory, WorkerRow, Stages
  <2>3. RestType'
    BY <1>26, CpuAssumption
       DEF RestType, Clear, tasks, memory, budgets
  <2>4. JobType' /\ CpuType' /\ TakeType' /\ ChildType'
    BY <1>26 DEF JobType, CpuType, TakeType, ChildType, Clear, rows, disk,
       memory, tasks, budgets
  <2> QED BY <2>1, <2>2, <2>3, <2>4
<1>27. CASE Raise(p)
  <2>1. WorkerType'
    BY <1>27, CpuAssumption
       DEF WorkerType, Raise, Go, Throw, memory, WorkerRow, Stages
  <2>2. RestType'
    BY <1>27, CpuAssumption
       DEF RestType, Raise, tasks, memory, budgets, Fault
  <2>3. JobType' /\ CpuType' /\ TakeType' /\ DiskType' /\ ChildType'
    BY <1>27 DEF JobType, CpuType, TakeType, DiskType, ChildType, Raise,
       rows, disk, memory, tasks, budgets
  <2> QED BY <2>1, <2>2, <2>3
<1>28. CASE Unwind(p)
  <2>1. ChildType'
    BY <1>28, KilledType DEF Unwind, ChildType
  <2>2. WorkerType'
    BY <1>28, GoType DEF Unwind, Stages
  <2>3. RestType'
    BY <1>28, CpuAssumption
       DEF RestType, Unwind, tasks, memory, budgets
  <2>4. JobType' /\ CpuType' /\ TakeType' /\ DiskType'
    BY <1>28 DEF JobType, CpuType, TakeType, DiskType, Unwind, rows, disk,
       memory, tasks, budgets
  <2> QED BY <2>1, <2>2, <2>3, <2>4
<1>29. CASE Interrupt(p)
  <2>1. CpuType'
    BY <1>29, CpuAssumption, SMTT(30)
       DEF CpuType, Interrupt, rows, CpuStates
  <2>2. WorkerType'
    BY <1>29, GoType DEF Interrupt, Stages
  <2>3. RestType'
    BY <1>29, CpuAssumption
       DEF RestType, Interrupt, tasks, memory, budgets, Fault
  <2>4. JobType' /\ TakeType' /\ DiskType' /\ ChildType'
    BY <1>29 DEF JobType, TakeType, DiskType, ChildType, Interrupt, rows,
       disk, memory, tasks, budgets
  <2> QED BY <2>1, <2>2, <2>3, <2>4
<1>30. CASE FailPlan(p)
  <2>1. JobType'
    BY <1>30, CpuAssumption
       DEF JobType, FailPlan, rows, JobStates
  <2>2. WorkerType'
    BY <1>30, CpuAssumption
       DEF WorkerType, FailPlan, Idle, memory, WorkerRow, Stages
  <2>3. CpuType' /\ TakeType' /\ DiskType' /\ ChildType' /\ RestType'
    BY <1>30 DEF CpuType, TakeType, DiskType, ChildType, RestType, FailPlan,
       rows, disk, memory, tasks, budgets
  <2> QED BY <2>1, <2>2, <2>3
<1>31. CASE RequestCancel(p)
  <2>1. JobType'
    BY <1>31, CpuAssumption, ZenonT(40)
       DEF JobType, RequestCancel, rows, JobStates
  <2>2. CpuType' /\ TakeType' /\ DiskType' /\ ChildType'
       /\ WorkerType' /\ RestType'
    BY <1>31 DEF CpuType, TakeType, DiskType, ChildType, WorkerType,
       RestType, RequestCancel, rows, disk, memory, tasks, budgets
  <2> QED BY <2>1, <2>2
<1>32. CASE CancelQueued(p)
  <2>1. JobType'
    BY <1>32, CpuAssumption
       DEF JobType, CancelQueued, rows, JobStates
  <2>2. CpuType' /\ TakeType' /\ DiskType' /\ ChildType'
       /\ WorkerType' /\ RestType'
    BY <1>32 DEF CpuType, TakeType, DiskType, ChildType, WorkerType,
       RestType, CancelQueued, rows, disk, memory, tasks, budgets
  <2> QED BY <2>1, <2>2
<1>33. CASE CancelRunning(p)
  <2>1. ChildType'
    BY <1>33, KilledType DEF CancelRunning
  <2>2. RestType'
    BY <1>33, CpuAssumption
       DEF RestType, CancelRunning, tasks, memory, budgets
  <2>3. JobType' /\ CpuType' /\ TakeType' /\ DiskType' /\ WorkerType'
    BY <1>33 DEF JobType, CpuType, TakeType, DiskType, WorkerType,
       CancelRunning, rows, disk, memory, tasks, budgets
  <2> QED BY <2>1, <2>2, <2>3
<1>34. CASE CancelInterrupted(p)
  <2>1. JobType'
    BY <1>34, CpuAssumption
       DEF JobType, CancelInterrupted, rows, JobStates
  <2>2. CpuType'
    <3>1. [cpu[p] EXCEPT !.state = "cancelled", !.custody = "confirmed"]
             \in [state: CpuStates, custody: {"unknown", "confirmed"},
                  identity: {"none", "launching", "leader"}]
      BY DEF CpuType, CpuStates
    <3>2. \/ cpu' = cpu
          \/ cpu' = [cpu EXCEPT ![p] = [cpu[p] EXCEPT !.state = "cancelled",
                                                      !.custody = "confirmed"]]
      BY <1>34 DEF CancelInterrupted
    <3> QED BY <3>1, <3>2 DEF CpuType
  <2>3. TakeType'
    BY <1>34, CpuAssumption
       DEF TakeType, CancelInterrupted, Open, SetIntents, rows, IntentStates
  <2>4. RestType'
    BY <1>34, CpuAssumption
       DEF RestType, CancelInterrupted, tasks, memory, budgets
  <2>5. DiskType' /\ ChildType' /\ WorkerType'
    BY <1>34 DEF DiskType, ChildType, WorkerType, CancelInterrupted, rows,
       disk, memory, tasks, budgets
  <2> QED BY <2>1, <2>2, <2>3, <2>4, <2>5
<1>35. CASE RemoveStages(p)
  <2>1. DiskType'
    BY <1>35, CpuAssumption
       DEF DiskType, RemoveStages, disk
  <2>2. RestType'
    BY <1>35, CpuAssumption
       DEF RestType, RemoveStages, tasks, memory, budgets
  <2>3. JobType' /\ CpuType' /\ TakeType' /\ ChildType' /\ WorkerType'
    BY <1>35 DEF JobType, CpuType, TakeType, ChildType, WorkerType,
       RemoveStages, rows, disk, memory, tasks, budgets
  <2> QED BY <2>1, <2>2, <2>3
<1>36. CASE Sweep(p)
  <2>1. DiskType'
    BY <1>36, CpuAssumption
       DEF DiskType, Sweep, disk
  <2>2. JobType' /\ CpuType' /\ TakeType' /\ ChildType'
       /\ WorkerType' /\ RestType'
    BY <1>36 DEF JobType, CpuType, TakeType, ChildType, WorkerType,
       RestType, Sweep, rows, disk, memory, tasks, budgets
  <2> QED BY <2>1, <2>2
<1> QED BY <1>1, <1>2, <1>3, <1>4, <1>5, <1>6, <1>7, <1>8, <1>9, <1>10,
           <1>11, <1>12, <1>13, <1>14, <1>15, <1>16, <1>17, <1>18, <1>19,
           <1>20, <1>21, <1>22, <1>23, <1>24, <1>25, <1>26, <1>27, <1>28,
           <1>29, <1>30, <1>31, <1>32, <1>33, <1>34, <1>35, <1>36
     DEF Step, Execute, Group, Cancel

-----------------------------------------------------------------------------
(* The death of the server and its start.                                  *)

\* A crash takes the threads and the owners, and nothing of the rows or of
\* the disk.
LEMMA CrashKeeps ==
  ASSUME TypeOK, NEW p \in Posts, Local(p), Crash
  PROVE  Local(p)'
<1>1. /\ worker'[p].pc = "idle" /\ owner'[p] = "none"
      /\ p \notin sweeping'
      /\ worker'[p].take = {}
  BY DEF Crash, Idle
<1>2. Rows(p)' /\ Lists(p)'
  BY <1>1 DEF Crash, Local, Rows, Lists, Settled, rows, disk
<1>3. Processes(p)'
  BY <1>1 DEF Crash, Local, Processes, Alive, rows
<1>4. Thread(p)' /\ Progress(p)' /\ Held(p)'
  BY <1>1 DEF Thread, Progress, Held, Launching, Running, TakeSteps, Leaving
<1> QED BY <1>2, <1>3, <1>4 DEF Local

\* What reconcile_startup makes of one post.
LEMMA StartupRow ==
  ASSUME TypeOK, NEW p \in Posts, Startup
  PROVE  /\ cpu'[p].identity = cpu[p].identity
         /\ \/ job'[p].status = job[p].status /\ cpu'[p].state = cpu[p].state
            \/ /\ job[p].status \in {"running", "interrupted"}
               /\ cpu[p].state = "none"
               /\ job'[p].status = "queued" /\ cpu'[p].state = "none"
            \/ /\ job[p].status \in {"running", "interrupted"}
               /\ cpu[p].state \notin CpuEnded \cup {"none"}
               /\ job'[p].status = "interrupted"
               /\ cpu'[p].state = "interrupted"
<1> DEFINE orphan == /\ job[p].status \in {"running", "interrupted"}
                     /\ cpu[p].state = "none"
           open == /\ job[p].status \in {"running", "interrupted"}
                   /\ cpu[p].state \notin CpuEnded \cup {"none"}
                   /\ ~ /\ job[p].status = "interrupted"
                        /\ cpu[p].state = "interrupted"
<1>1. job'[p] = (IF orphan THEN [job[p] EXCEPT !.status = "queued"]
                 ELSE IF open THEN [job[p] EXCEPT !.status = "interrupted"]
                 ELSE job[p])
  BY DEF Startup
<1>2. cpu'[p] = (IF open THEN [cpu[p] EXCEPT !.state = "interrupted",
                                             !.custody = "unknown"]
                 ELSE cpu[p])
  BY DEF Startup
<1>3. /\ job[p] \in [status: JobStates, cancel: BOOLEAN]
      /\ cpu[p] \in [state: CpuStates, custody: {"unknown", "confirmed"},
                     identity: {"none", "launching", "leader"}]
  BY DEF TypeOK
<1>4. CASE orphan
  BY <1>1, <1>2, <1>3, <1>4
<1>5. CASE open
  BY <1>1, <1>2, <1>3, <1>5
<1>6. CASE ~orphan /\ ~open
  BY <1>1, <1>2, <1>6
<1> QED BY <1>4, <1>5, <1>6

\* reconcile_startup moves a post and its execution together.
LEMMA StartupKeeps ==
  ASSUME TypeOK, Still, NEW p \in Posts, Local(p), Startup
  PROVE  Local(p)'
<1>1. /\ worker[p].pc = "idle" /\ worker' = worker /\ owner' = owner
      /\ sweeping' = sweeping /\ child' = child
      /\ intent' = intent /\ take' = take /\ beats' = beats
      /\ stage' = stage /\ final' = final /\ marker' = marker /\ raw' = raw
  BY DEF Startup, Still, memory, tasks, disk
<1>2. /\ cpu'[p].identity = cpu[p].identity
      /\ \/ job'[p].status = job[p].status /\ cpu'[p].state = cpu[p].state
         \/ /\ job[p].status = "running" /\ cpu[p].state = "none"
            /\ job'[p].status = "queued" /\ cpu'[p].state = "none"
         \/ /\ job[p].status \in {"running", "interrupted"}
            /\ cpu[p].state \notin CpuEnded \cup {"none"}
            /\ job'[p].status = "interrupted"
            /\ cpu'[p].state = "interrupted"
  BY StartupRow DEF Local, Rows, Pairs
<1>3. Rows(p)'
  BY <1>1, <1>2 DEF Local, Rows, Pairs, Settled, Ended, CpuEnded
<1>4. Lists(p)'
  BY <1>1 DEF Local, Lists
<1>5. Processes(p)'
  BY <1>1, <1>2 DEF Local, Processes, Alive, CpuEnded
<1>6. Thread(p)' /\ Progress(p)' /\ Held(p)'
  BY <1>1 DEF Thread, Progress, Held, Launching, Running, TakeSteps,
     Leaving, Local
<1> QED BY <1>3, <1>4, <1>5, <1>6 DEF Local

\* The staging that goes is not that of a prepared intent.
LEMMA CleanStagingKeeps ==
  ASSUME TypeOK, Still, NEW p \in Posts, Local(p), CleanStaging
  PROVE  Local(p)'
<1>1. /\ worker[p].pc = "idle" /\ worker' = worker /\ owner' = owner
      /\ sweeping' = sweeping /\ child' = child
      /\ job' = job /\ cpu' = cpu
      /\ intent' = intent /\ take' = take /\ beats' = beats
      /\ final' = final /\ marker' = marker /\ raw' = raw
  BY DEF CleanStaging, Still, memory, tasks, rows
<1>2. \A t \in TakesOf[p] :
        /\ stage'[t] = "none" \/ stage'[t] = stage[t]
        /\ intent[t] = "prepared" => stage'[t] = stage[t]
  <2>1. \A t \in TakesOf[p] : t \in Takes
          /\ \A q \in Posts : t \in TakesOf[q] => q = p
    BY CpuAssumption
  <2>2. (\E t \in TakesOf[p] : intent[t] = "prepared") => KeepsStaging(p)
    BY DEF KeepsStaging
  <2>3. \A t \in Takes : stage'[t] =
          (IF \E q \in Posts : t \in TakesOf[q] /\ ~KeepsStaging(q)
           THEN "none" ELSE stage[t])
    BY DEF CleanStaging
  <2> QED BY <2>1, <2>2, <2>3
<1>3. Rows(p)' /\ Processes(p)'
  BY <1>1 DEF Local, Rows, Settled, Processes, Alive
<1>4. Lists(p)'
  BY <1>1, <1>2 DEF Local, Lists
<1>5. Thread(p)' /\ Progress(p)' /\ Held(p)'
  BY <1>1 DEF Thread, Progress, Held, Launching, Running, TakeSteps,
     Leaving, Local
<1> QED BY <1>3, <1>4, <1>5 DEF Local

\* The types are kept by the steps of the whole server.
LEMMA ServerTypes ==
  ASSUME TypeOK, Crash \/ Startup \/ CleanStaging
  PROVE  TypeOK'
<1> SUFFICES /\ JobType' /\ CpuType' /\ TakeType' /\ DiskType' /\ ChildType'
             /\ WorkerType' /\ RestType'
  BY TypeParts
<1> JobType /\ CpuType /\ TakeType /\ DiskType /\ ChildType /\ WorkerType
    /\ RestType
  BY TypeParts
<1>1. CASE Crash
  <2>1. WorkerType' /\ RestType'
    <3>1. Idle \in WorkerRow
      BY DEF Idle, WorkerRow, Stages
    <3> QED BY <1>1, <3>1, CpuAssumption DEF Crash, WorkerType, RestType
  <2>2. JobType' /\ CpuType' /\ TakeType' /\ DiskType' /\ ChildType'
    BY <1>1 DEF Crash, JobType, CpuType, TakeType, DiskType, ChildType,
       rows, disk
  <2> QED BY <2>1, <2>2
<1>2. CASE Startup
  <2>1. JobType'
    BY <1>2 DEF Startup, JobType, JobStates
  <2>2. CpuType'
    BY <1>2 DEF Startup, CpuType, CpuStates
  <2>3. TakeType' /\ DiskType' /\ ChildType' /\ WorkerType' /\ RestType'
    BY <1>2 DEF Startup, TakeType, DiskType, ChildType, WorkerType,
       RestType, disk, memory, tasks, budgets
  <2> QED BY <2>1, <2>2, <2>3
<1>3. CASE CleanStaging
  BY <1>3 DEF CleanStaging, JobType, CpuType, TakeType, DiskType, ChildType,
     WorkerType, RestType, rows, memory, tasks, budgets
<1> QED BY <1>1, <1>2, <1>3

-----------------------------------------------------------------------------
(* The invariant is inductive.                                             *)

\* The first state: every post waits, with nothing of its own yet.
LEMMA InitHolds == Init => IInv
<1> SUFFICES ASSUME Init PROVE IInv
  OBVIOUS
<1>1. TypeOK
  BY CpuAssumption DEF Init, TypeOK, JobStates, NoExecution, CpuStates,
     IntentStates, NoChild, Idle, Stages
<1>2. ASSUME NEW p \in Posts PROVE Local(p)
  <2>1. \A t \in TakesOf[p] : t \in Takes
    BY CpuAssumption
  <2>2. Rows(p) /\ Lists(p) /\ Processes(p)
    BY <2>1 DEF Init, Rows, Lists, Processes, Pairs, Settled, Ended,
       CpuEnded, Alive, NoExecution, NoChild, Idle
  <2>3. Thread(p) /\ Progress(p) /\ Held(p)
    BY DEF Init, Idle, Thread, Progress, Held, Launching, Running,
       TakeSteps, Leaving
  <2> QED BY <2>2, <2>3 DEF Local
<1>3. Still
  BY DEF Init, Still
<1> QED BY <1>1, <1>2, <1>3 DEF IInv

\* One step of the worker: of one post, which leaves the others alone, or of
\* the server.
LEMMA Inductive == IInv /\ [Next]_vars => IInv'
<1> SUFFICES ASSUME IInv, [Next]_vars PROVE IInv'
  OBVIOUS
<1> USE DEF IInv
<1>1. ASSUME NEW p \in Posts, Step(p) PROVE IInv'
  <2>1. TypeOK'
    BY <1>1, TypeKept
  <2>2. ASSUME NEW q \in Posts PROVE Local(q)'
    <3>1. CASE q = p
      BY <1>1, <3>1, StepKeeps
    <3>2. CASE q # p
      BY <1>1, <3>2, Frame, SameKeeps
    <3> QED BY <3>1, <3>2
  <2>3. Still'
    BY <1>1, StepStill DEF Still
  <2> QED BY <2>1, <2>2, <2>3
<1>2. CASE Crash
  <2>1. Still'
    BY <1>2 DEF Crash, Still, Idle
  <2> QED BY <1>2, <2>1, CrashKeeps, ServerTypes
<1>3. CASE Startup
  <2>1. Still'
    BY <1>3 DEF Startup, Still, memory
  <2> QED BY <1>3, <2>1, StartupKeeps, ServerTypes
<1>4. CASE CleanStaging
  <2>1. Still'
    BY <1>4 DEF CleanStaging, Still
  <2> QED BY <1>4, <2>1, CleanStagingKeeps, ServerTypes
<1>5. CASE UNCHANGED vars
  <2>1. TypeOK' /\ Still'
    BY <1>5 DEF vars, rows, disk, memory, tasks, budgets, TypeOK, Still
  <2>2. ASSUME NEW q \in Posts PROVE Local(q)'
    <3>1. Same(q)
      BY <1>5 DEF vars, rows, disk, memory, tasks, budgets, Same
    <3> QED BY <3>1, SameKeeps
  <2> QED BY <2>1, <2>2
<1> QED BY <1>1, <1>2, <1>3, <1>4, <1>5 DEF Next, Step

\* The invariant holds in every state of every behaviour.
LEMMA InvariantHolds == Spec => []IInv
BY InitHolds, Inductive, PTL DEF Spec

-----------------------------------------------------------------------------
(* The invariants of the checks.                                           *)

\* The rows, the disk, the processes and the threads keep their types.
THEOREM TypeCorrect == Spec => []TypeOK
<1>1. IInv => TypeOK
  BY DEF IInv
<1> QED BY <1>1, InvariantHolds, PTL

\* What the rows say can always be finished from what is on disk: a prepared
\* intent has its package and its marker, and a reserved take its WAV.
THEOREM AlwaysRecoverable == Spec => []Recoverable
<1>1. IInv => Recoverable
  BY DEF IInv, Local, Lists, Rows, Recoverable
<1> QED BY <1>1, InvariantHolds, PTL

\* A take is shown exactly when its intent was committed, and its directory is
\* then in its final place.
THEOREM LibraryIsWhole == Spec => []PublishedIsWhole
<1>1. ASSUME IInv PROVE PublishedIsWhole
  <2>1. ASSUME NEW t \in Takes PROVE \E p \in Posts : t \in TakesOf[p]
    BY CpuAssumption
  <2> QED BY <1>1, <2>1 DEF IInv, Local, Lists, PublishedIsWhole
<1> QED BY <1>1, InvariantHolds, PTL

\* No process of an earlier attempt is left when an execution ends, is offered
\* again or is about to launch a group.
THEOREM GroupIsAlone == Spec => []OneGroup
<1>1. IInv => OneGroup
  BY DEF IInv, Local, Rows, Pairs, Processes, Thread, Launching, OneGroup
<1> QED BY <1>1, InvariantHolds, PTL

\* The post, its execution, its takes and their analyses end together.
THEOREM EndsTogether == Spec => []OutcomeIsWhole
<1>1. ASSUME IInv PROVE OutcomeIsWhole
  <2>1. ASSUME NEW p \in Posts
        PROVE  cpu[p].state = "finished" <=> job[p].status = "succeeded"
    BY <1>1 DEF IInv, Local, Rows, Pairs
  <2>2. ASSUME NEW p \in Posts, NEW t \in TakesOf[p],
               cpu[p].state = "finished"
        PROVE  /\ take[t] \in {"ready", "failed", "cancelled"}
               /\ beats[t] = (IF take[t] = "ready" THEN "blocked"
                                                   ELSE "failed")
    BY <1>1, <2>2 DEF IInv, Local, Rows, Lists, Settled, CpuEnded
  <2>3. ASSUME NEW p \in Posts, cpu[p].state \notin CpuEnded \cup {"none"}
        PROVE  job[p].status \in {"running", "interrupted"}
    BY <1>1, <2>3 DEF IInv, Local, Rows, Pairs, CpuEnded
  <2> QED BY <2>1, <2>2, <2>3 DEF OutcomeIsWhole
<1> QED BY <1>1, InvariantHolds, PTL

-----------------------------------------------------------------------------
(* The worker implements the ledger of takes.                              *)

Closed == {p \in Posts : job[p].status = "succeeded"}

\* A step of one post: what it does to the takes, or that it touches none.
LEMMA StepInLedger ==
  ASSUME TypeOK, NEW p \in Posts, Local(p), Step(p)
  PROVE  [Ledger!Next]_<<take, final, Closed>>
<1>1. CASE ClaimJob(p)
  BY <1>1, CpuAssumption
     DEF ClaimJob, Idle, rows, disk, memory, tasks, budgets, Fault, TypeOK,
         Closed
<1>2. CASE ReadResume(p)
  BY <1>2, CpuAssumption
     DEF ReadResume, Idle, Resumable, rows, disk, memory, tasks, budgets,
         Fault, TypeOK, Closed
<1>3. CASE ClaimResume(p)
  <2>1. \/ job' = job
        \/ /\ job[p].status = "interrupted"
           /\ job' = [job EXCEPT ![p].status = "running"]
    BY <1>3 DEF ClaimResume
  <2>2. CASE job' = job
    BY <1>3, <2>2 DEF ClaimResume, disk, Closed
  <2>3. CASE /\ job[p].status = "interrupted"
             /\ job' = [job EXCEPT ![p].status = "running"]
    <3>1. \A q \in Posts :
            job'[q].status = "succeeded" <=> job[q].status = "succeeded"
      BY <2>3 DEF TypeOK
    <3> QED BY <1>3, <3>1 DEF ClaimResume, disk, Closed
  <2> QED BY <2>1, <2>2, <2>3
<1>4. CASE Reserve(p)
  BY <1>4, CpuAssumption
     DEF Reserve, SetIntents, Throw, Go, rows, disk, memory, tasks, budgets,
         Fault, TypeOK, Closed
<1>5. CASE PrepareResume(p)
  BY <1>5, CpuAssumption
     DEF PrepareResume, Throw, Go, rows, disk, memory, tasks, budgets,
         Fault, TypeOK, Closed
<1>6. CASE MarkLaunching(p)
  BY <1>6, CpuAssumption
     DEF MarkLaunching, Go, rows, disk, memory, tasks, budgets, Fault,
         TypeOK, Closed
<1>7. CASE Launch(p)
  BY <1>7, CpuAssumption
     DEF Launch, Go, rows, disk, memory, tasks, budgets, Fault, TypeOK,
         Closed
<1>8. CASE LaunchFails(p)
  BY <1>8, CpuAssumption
     DEF LaunchFails, Go, NoChild, rows, disk, memory, tasks, budgets,
         Fault, TypeOK, Closed
<1>9. CASE StartRunning(p)
  BY <1>9, CpuAssumption
     DEF StartRunning, Throw, Go, rows, disk, memory, tasks, budgets, Fault,
         TypeOK, Closed
<1>10. CASE \E t \in TakesOf[p] : ChildStarts(p, t)
  BY <1>10, CpuAssumption
     DEF ChildStarts, rows, disk, memory, tasks, budgets, Fault, TypeOK,
         Closed
<1>11. CASE \E t \in TakesOf[p] : ChildSends(p, t)
  BY <1>11, CpuAssumption
     DEF ChildSends, rows, disk, memory, tasks, budgets, Fault, TypeOK,
         Closed
<1>12. CASE ChildCloses(p)
  BY <1>12, CpuAssumption
     DEF ChildCloses, rows, disk, memory, tasks, budgets, Fault, TypeOK,
         Closed
<1>13. CASE ChildDies(p)
  BY <1>13, CpuAssumption
     DEF ChildDies, rows, disk, memory, tasks, budgets, Fault, TypeOK,
         Closed
<1>14. CASE OwnerCloses(p)
  BY <1>14, CpuAssumption
     DEF OwnerCloses, rows, disk, memory, tasks, budgets, Fault, TypeOK,
         Closed
<1>15. CASE OwnerStops(p)
  BY <1>15, CpuAssumption
     DEF OwnerStops, Killed, rows, disk, memory, tasks, budgets, Fault,
         TypeOK, Closed
<1>16. CASE \E t \in TakesOf[p] : Receive(p, t)
  BY <1>16, CpuAssumption
     DEF Receive, Current, rows, disk, memory, tasks, budgets, Fault,
         TypeOK, Closed
<1>17. CASE \E t \in TakesOf[p] : WriteMarker(p, t)
  BY <1>17, CpuAssumption
     DEF WriteMarker, Current, Go, Throw, rows, disk, memory, tasks,
         budgets, Fault, TypeOK, Closed
<1>18. CASE \E t \in TakesOf[p] : PrepareIntent(p, t)
  BY <1>18, CpuAssumption
     DEF PrepareIntent, Current, Go, Throw, rows, disk, memory, tasks,
         budgets, Fault, TypeOK, Closed
<1>19. CASE \E t \in TakesOf[p] : Rename(p, t)
  <2> PICK t \in TakesOf[p] : Rename(p, t)
    BY <1>19
  <2>1. t \in Takes
    BY CpuAssumption
  <2>2. CASE take' = take /\ final' = final
    BY <2>2 DEF Rename, rows, Closed
  <2>3. CASE t \notin final /\ final' = final \cup {t} /\ intent[t] = "prepared"
    <3>1. take[t] = "queued"
      BY <2>3 DEF Local, Lists
    <3>2. Ledger!Place(t)
      BY <2>3, <3>1 DEF Ledger!Place, Rename, rows, Closed
    <3> QED BY <2>1, <3>2 DEF Ledger!Next
  <2> QED BY <2>2, <2>3 DEF Rename, Current, Local, Held, rows
<1>20. CASE \E t \in TakesOf[p] : CommitIntent(p, t)
  <2> PICK t \in TakesOf[p] : CommitIntent(p, t)
    BY <1>20
  <2>1. t \in Takes
    BY CpuAssumption
  <2>2. CASE take' = take
    BY <2>2 DEF CommitIntent, disk, Closed
  <2>3. CASE take' # take
    <3>1. /\ intent[t] = "prepared" /\ take[t] = "queued" /\ t \in final
          /\ take' = [take EXCEPT ![t] = "ready"]
      BY <2>3 DEF CommitIntent, Current, Local, Lists, Held
    <3>2. Ledger!Publish(t)
      BY <3>1 DEF Ledger!Publish, CommitIntent, disk, Closed
    <3> QED BY <2>1, <3>2 DEF Ledger!Next
  <2> QED BY <2>2, <2>3
<1>21. CASE \E t \in TakesOf[p] : FailTake(p, t)
  <2> PICK t \in TakesOf[p] : FailTake(p, t)
    BY <1>21
  <2>1. t \in Takes
    BY CpuAssumption
  <2>2. CASE take' = take
    BY <2>2 DEF FailTake, disk, Closed
  <2>3. CASE take' # take
    <3>1. /\ intent[t] = "reserved" /\ take[t] = "queued"
          /\ take' = [take EXCEPT ![t] = "failed"]
      BY <2>3 DEF FailTake, Current, Local, Lists, Held
    <3>2. take' = [s \in Takes |-> IF s \in {t} THEN "failed" ELSE take[s]]
      BY <3>1 DEF TypeOK
    <3>3. Ledger!Reject({t}, "failed")
      BY <3>1, <3>2 DEF Ledger!Reject, FailTake, disk, Closed
    <3> QED BY <2>1, <3>3 DEF Ledger!Next
  <2> QED BY <2>2, <2>3
<1>22. CASE Published(p)
  BY <1>22, CpuAssumption
     DEF Published, rows, disk, memory, tasks, budgets, Fault, TypeOK,
         Closed
<1>23. CASE Join(p)
  BY <1>23, CpuAssumption
     DEF Join, Go, Throw, rows, disk, memory, tasks, budgets, Fault, TypeOK,
         Closed
<1>24. CASE Replay(p)
  BY <1>24, CpuAssumption
     DEF Replay, Go, rows, disk, memory, tasks, budgets, Fault, TypeOK,
         Closed
<1>25. CASE Finish(p)
  <2>1. take' = take /\ final' = final
    BY <1>25 DEF Finish, disk
  <2>2. CASE job' = job
    BY <2>1, <2>2 DEF Closed
  <2>3. CASE job' # job
    <3>1. job' = [job EXCEPT ![p].status = "succeeded"]
      BY <1>25, <2>3 DEF Finish
    <3>2. /\ job[p].status = "running"
          /\ \A t \in TakesOf[p] : take[t] # "queued"
      BY <1>25 DEF Finish, Local, Thread, Progress, Lists, Settled, Running
    <3>3. p \notin Closed /\ Closed' = Closed \cup {p}
      BY <3>1, <3>2 DEF Closed, TypeOK
    <3>4. Ledger!Close(p)
      BY <2>1, <3>2, <3>3 DEF Ledger!Close, Closed
    <3> QED BY <3>4 DEF Ledger!Next
  <2> QED BY <2>2, <2>3
<1>26. CASE Clear(p)
  BY <1>26, CpuAssumption
     DEF Clear, Idle, rows, disk, memory, tasks, budgets, Fault, TypeOK,
         Closed
<1>27. CASE Raise(p)
  BY <1>27, CpuAssumption
     DEF Raise, Go, Throw, rows, disk, memory, tasks, budgets, Fault,
         TypeOK, Closed
<1>28. CASE Unwind(p)
  BY <1>28, CpuAssumption
     DEF Unwind, Go, Killed, rows, disk, memory, tasks, budgets, Fault,
         TypeOK, Closed
<1>29. CASE Interrupt(p)
  BY <1>29, CpuAssumption
     DEF Interrupt, Go, rows, disk, memory, tasks, budgets, Fault, TypeOK,
         Closed
<1>30. CASE FailPlan(p)
  BY <1>30, CpuAssumption
     DEF FailPlan, Idle, rows, disk, memory, tasks, budgets, Fault, TypeOK,
         Closed
<1>31. CASE RequestCancel(p)
  BY <1>31, CpuAssumption
     DEF RequestCancel, rows, disk, memory, tasks, budgets, Fault, TypeOK,
         Closed
<1>32. CASE CancelQueued(p)
  BY <1>32, CpuAssumption
     DEF CancelQueued, rows, disk, memory, tasks, budgets, Fault, TypeOK,
         Closed
<1>33. CASE CancelRunning(p)
  BY <1>33, CpuAssumption
     DEF CancelRunning, Killed, Executing, rows, disk, memory, tasks,
         budgets, Fault, TypeOK, Closed
<1>34. CASE CancelInterrupted(p)
  <2>1. Closed' = Closed /\ final' = final
    BY <1>34 DEF CancelInterrupted, TypeOK, Closed, disk
  <2>2. CASE take' = take
    BY <2>1, <2>2
  <2>3. CASE take' # take
    <3>1. take' = [t \in Takes |->
                     IF t \in Open(p) THEN "cancelled" ELSE take[t]]
      BY <1>34, <2>3 DEF CancelInterrupted
    <3>2. Open(p) \subseteq Takes /\ \A t \in Open(p) : take[t] = "queued"
      BY CpuAssumption DEF Open, Local, Lists
    <3>3. Ledger!Reject(Open(p), "cancelled")
      BY <2>1, <3>1, <3>2 DEF Ledger!Reject, Closed
    <3> QED BY <3>2, <3>3 DEF Ledger!Next
  <2> QED BY <2>2, <2>3
<1>35. CASE RemoveStages(p)
  BY <1>35, CpuAssumption
     DEF RemoveStages, rows, disk, memory, tasks, budgets, Fault, TypeOK,
         Closed
<1>36. CASE Sweep(p)
  BY <1>36, CpuAssumption
     DEF Sweep, rows, disk, memory, tasks, budgets, Fault, TypeOK, Closed
<1> QED BY <1>1, <1>2, <1>3, <1>4, <1>5, <1>6, <1>7, <1>8, <1>9, <1>10,
           <1>11, <1>12, <1>13, <1>14, <1>15, <1>16, <1>17, <1>18, <1>19,
           <1>20, <1>21, <1>22, <1>23, <1>24, <1>25, <1>26, <1>27, <1>28,
           <1>29, <1>30, <1>31, <1>32, <1>33, <1>34, <1>35, <1>36
     DEF Step, Execute, Group, Cancel

\* A step of the worker is a step of the ledger or none.
LEMMA LedgerStep ==
  ASSUME IInv, [Next]_vars
  PROVE  [Ledger!Next]_<<take, final, Closed>>
<1> USE DEF IInv
<1>1. ASSUME NEW p \in Posts, Step(p)
      PROVE  [Ledger!Next]_<<take, final, Closed>>
  BY <1>1, StepInLedger
<1>2. CASE Crash \/ CleanStaging \/ UNCHANGED vars
  BY <1>2 DEF Crash, CleanStaging, vars, rows, disk, Closed
<1>3. CASE Startup
  <2>1. \A p \in Posts :
          job'[p].status = "succeeded" <=> job[p].status = "succeeded"
    BY <1>3, StartupRow
  <2> QED BY <1>3, <2>1 DEF Startup, disk, Closed
<1> QED BY <1>1, <1>2, <1>3 DEF Next, Step

\* The worker keeps the promises of the ledger: a directory is put in its
\* final place once, a take is shown after it, what is shown or rejected stays
\* so, and a post that succeeds has settled its takes.
THEOREM LedgerKept == Spec => KeepsLedger
<1>1. Init => Ledger!Init
  BY DEF Init, Ledger!Init
<1>2. IInv /\ [Next]_vars => [Ledger!Next]_<<take, final, Closed>>
  BY LedgerStep
<1> QED BY <1>1, <1>2, InvariantHolds, PTL
        DEF Spec, KeepsLedger, Ledger!Spec, Closed

=============================================================================
