--------------------------- MODULE CpuPublication ---------------------------
(***************************************************************************)
(* The CPU worker of the server (apps/server/app/worker): a post.audio job *)
(* is claimed, its execution and one publication intent for each take are  *)
(* reserved, a child process packs the takes in a staging directory, and   *)
(* each package is published: a marker file, the intent prepared, the      *)
(* directory renamed to its final place, the intent committed and the take *)
(* ready.  Every step is a transaction or one change on disk, and the      *)
(* server may die between any two; a new process resumes the execution     *)
(* once the old child is proved dead.                                      *)
(*                                                                         *)
(* Abstracted: the contents of plans, packages, receipts and context       *)
(* seals; a digest, a lock or a row that does not fit is one of the faults *)
(* that raise (Raise).  The intent state "renamed" lives inside the        *)
(* transaction that commits and is not seen outside it.  The back-off of a *)
(* refused probe only delays.                                              *)
(***************************************************************************)
EXTENDS Naturals, FiniteSets

CONSTANTS
  Posts,       \* post.audio jobs whose generation has succeeded
  Takes,
  TakesOf,     \* the takes of the generation each post works on
  Slots,       \* CPU slots of the server, 2 in the code
  MaxCrashes,  \* bound: deaths of the server
  MaxFaults    \* bound: errors of SQLite, of the disk, of the child

ASSUME CpuAssumption ==
  /\ TakesOf \in [Posts -> SUBSET Takes]
  /\ \A p, q \in Posts : p # q => TakesOf[p] \cap TakesOf[q] = {}
  /\ \A t \in Takes : \E p \in Posts : t \in TakesOf[p]
  /\ Slots \in Nat \ {0}
  /\ MaxCrashes \in Nat
  /\ MaxFaults \in Nat

VARIABLES
  job,      \* durable: status and cancel_requested_at of each post
  cpu,      \* durable: its cpu_execution
  intent,   \* durable: publication_intent of each take
  take,     \* durable: status of the take
  beats,    \* durable: status of the audio.beats job of the take
  stage,    \* disk: takes/.pending-<execution>/<take>
  final,    \* disk: the takes with a directory takes/<take>
  marker,   \* disk: the takes with a file publication-<intent>.json
  raw,      \* disk: the posts whose WAVs are still in data/tmp/<attempt>
  child,    \* the process group that packs the takes of a post
  server,   \* the phase of the server process
  worker,   \* memory: the thread in execute_job for each post
  owner,    \* memory: the custody of the process group
  resumed,  \* memory: the posts this process has resumed
  sweeping, \* memory: cancelled posts whose staging is about to go
  crashes, faults

rows    == <<job, cpu, intent, take, beats>>
disk    == <<stage, final, marker, raw>>
tasks   == <<resumed, sweeping>>
memory  == <<worker, owner, tasks>>
budgets == <<crashes, faults>>
vars == <<rows, disk, child, server, memory, budgets>>

-----------------------------------------------------------------------------
JobStates == {"queued", "running", "interrupted", "succeeded", "failed",
              "cancelled"}
Ended == {"succeeded", "failed", "cancelled"}
CpuStates == {"none", "prepared", "running", "interrupted", "finished",
              "cancelled"}
CpuEnded == {"finished", "cancelled"}
IntentStates == {"none", "reserved", "prepared", "committed", "failed",
                 "cancelled"}

NoExecution == [state |-> "none", custody |-> "unknown", identity |-> "none"]
NoChild == [phase |-> "gone", todo |-> {}, good |-> {}, bad |-> {}]
Idle == [pc |-> "idle", resume |-> FALSE, skip |-> {}, seen |-> {},
         take |-> {}, live |-> {}]

\* Where the thread is in execute_job; before "planning" the post is not
\* among job_executions yet.
Stages == {"idle", "resuming", "planning", "reserved", "marked", "launched",
           "consuming", "packaged", "sealed", "prepared", "renamed",
           "committed", "rejecting", "replaying", "finishing", "clearing",
           "unwinding", "closing", "failing"}

TypeOK ==
  /\ job \in [Posts -> [status: JobStates, cancel: BOOLEAN]]
  /\ cpu \in [Posts -> [state: CpuStates,
                        custody: {"unknown", "confirmed"},
                        identity: {"none", "launching", "leader"}]]
  /\ intent \in [Takes -> IntentStates]
  /\ take \in [Takes -> {"queued", "ready", "failed", "cancelled"}]
  /\ beats \in [Takes -> {"blocked", "failed"}]
  /\ stage \in [Takes -> {"none", "partial", "package"}]
  /\ final \subseteq Takes /\ marker \subseteq Takes /\ raw \subseteq Posts
  /\ child \in [Posts -> [phase: {"gone", "gated", "working", "done"},
                          todo: SUBSET Takes, good: SUBSET Takes,
                          bad: SUBSET Takes]]
  /\ server \in {"down", "cleaning", "up"}
  /\ worker \in [Posts -> [pc: Stages, resume: BOOLEAN, skip: SUBSET Takes,
                           seen: SUBSET Takes, take: SUBSET Takes,
                           live: SUBSET Posts]]
  /\ owner \in [Posts -> {"none", "starting", "owned", "closed", "unknown"}]
  /\ resumed \subseteq Posts /\ sweeping \subseteq Posts
  /\ crashes \in 0..MaxCrashes /\ faults \in 0..MaxFaults

Init ==
  /\ job = [p \in Posts |-> [status |-> "queued", cancel |-> FALSE]]
  /\ cpu = [p \in Posts |-> NoExecution]
  /\ intent = [t \in Takes |-> "none"]
  /\ take = [t \in Takes |-> "queued"]
  /\ beats = [t \in Takes |-> "blocked"]
  /\ stage = [t \in Takes |-> "none"]
  /\ final = {} /\ marker = {} /\ raw = Posts
  /\ child = [p \in Posts |-> NoChild]
  /\ server = "up"
  /\ worker = [p \in Posts |-> Idle]
  /\ owner = [p \in Posts |-> "none"]
  /\ resumed = {} /\ sweeping = {}
  /\ crashes = 0 /\ faults = 0

Fault == faults < MaxFaults /\ faults' = faults + 1 /\ UNCHANGED crashes

-----------------------------------------------------------------------------
\* States of the processes and of the slots.

Executing == {p \in Posts : worker[p].pc \notin {"idle", "resuming"}}
Live == Executing \cup {p \in Posts : owner[p] # "none"}
Occupied(live) == {p \in Posts : job[p].status = "running"} \cup live

\* Variants of Dead with a bug, for the mutants of the checks.
Alive(p) == child[p].phase # "gone"
DeadUnlessLeader(p) == cpu[p].identity # "leader" \/ ~Alive(p)
DeadIfNamed(p) == cpu[p].identity = "leader" /\ ~Alive(p)

\* What _process_dead proves from the identity the row keeps.
Dead(p) == cpu[p].identity = "none" \/ ~Alive(p)

Resumable(p) ==
  /\ job[p].status = "interrupted" /\ ~job[p].cancel
  /\ cpu[p].state = "interrupted"
  /\ owner[p] = "none"
  /\ Dead(p)

Go(p, pc) == worker' = [worker EXCEPT ![p].pc = pc]

\* An error of the thread: the custody of a group is given back first.
Throw(p) == Go(p, IF owner[p] = "none" THEN "failing" ELSE "unwinding")

\* What authority accepts: here, that no cancellation was requested.
Authorised(p) == ~job[p].cancel

SetIntents(S, value) ==
  intent' = [t \in Takes |-> IF t \in S THEN value ELSE intent[t]]

\* The intents a cancellation ends, and a variant that takes them all.
OpenAll(p) == TakesOf[p]
Open(p) == {t \in TakesOf[p] : intent[t] \in {"reserved", "prepared"}}

\* One take is in the hands of the thread.
Current(p, t) == worker[p].take = {t}

-----------------------------------------------------------------------------
\* From the queue to an execution with its intents.

\* The loop hands a queued post to a thread, which claims a slot.
ClaimJob(p) ==
  /\ server = "up" /\ worker[p].pc = "idle"
  /\ Cardinality({q \in Posts : worker[q].pc # "idle"}) < Slots
  /\ job[p].status = "queued" /\ ~job[p].cancel
  /\ Cardinality(Occupied(Live)) < Slots
  /\ job' = [job EXCEPT ![p].status = "running"]
  /\ worker' = [worker EXCEPT ![p] = [Idle EXCEPT !.pc = "planning"]]
  /\ UNCHANGED <<cpu, intent, take, beats, disk, child, server, owner,
                 tasks, budgets>>

\* An interrupted post: what needs the guard is read before the barrier.
ReadResume(p) ==
  /\ server = "up" /\ worker[p].pc = "idle" /\ p \notin resumed
  /\ Cardinality({q \in Posts : worker[q].pc # "idle"}) < Slots
  /\ Resumable(p)
  /\ Cardinality(Occupied(Live)) < Slots
  /\ worker' = [worker EXCEPT ![p] = [Idle EXCEPT !.pc = "resuming",
                                                  !.live = Live]]
  /\ UNCHANGED <<rows, disk, child, server, owner, tasks, budgets>>

\* Under the barrier the rows are read again, the owners are not.
ClaimResume(p) ==
  /\ worker[p].pc = "resuming"
  /\ IF /\ job[p].status = "interrupted" /\ ~job[p].cancel
        /\ cpu[p].state = "interrupted" /\ p \notin worker[p].live
        /\ Dead(p) /\ Cardinality(Occupied(worker[p].live)) < Slots
       THEN /\ job' = [job EXCEPT ![p].status = "running"]
            /\ cpu' = [cpu EXCEPT ![p] = [state |-> "prepared",
                                          custody |-> "confirmed",
                                          identity |-> "none"]]
            /\ resumed' = resumed \cup {p}
            /\ worker' = [worker EXCEPT ![p] = [Idle EXCEPT !.pc = "planning",
                                                            !.resume = TRUE]]
       ELSE /\ worker' = [worker EXCEPT ![p] = Idle]
            /\ UNCHANGED <<job, cpu, resumed>>
  /\ UNCHANGED <<intent, take, beats, disk, child, server, owner, sweeping,
                 budgets>>

\* plan_for_job, the copies of the inputs and the transaction that inserts
\* the execution and its intents.
Reserve(p) ==
  /\ worker[p].pc = "planning" /\ ~worker[p].resume
  /\ IF Authorised(p)
       THEN /\ cpu' = [cpu EXCEPT ![p].state = "prepared"]
            /\ SetIntents(TakesOf[p], "reserved")
            /\ Go(p, "reserved")
       ELSE Throw(p) /\ UNCHANGED <<cpu, intent>>
  /\ UNCHANGED <<job, take, beats, disk, child, server, owner, tasks,
                 budgets>>

\* A resumed execution: reserved takes are processed again from the WAV and
\* what the dead child left of them is removed, the others are skipped.
PrepareResume(p) ==
  LET pending == {t \in TakesOf[p] : intent[t] = "reserved"}
      skip == TakesOf[p] \ pending
      kept == {t \in skip : intent[t] \in {"prepared", "committed"}}
  IN /\ worker[p].pc = "planning" /\ worker[p].resume
     /\ IF \/ pending # {} /\ p \notin raw
           \/ \E t \in kept : stage[t] # "package" /\ t \notin final
          THEN Throw(p) /\ UNCHANGED <<cpu, stage>>
        ELSE IF pending # {}
          THEN /\ stage' = [t \in Takes |-> IF t \in pending THEN "none"
                                                             ELSE stage[t]]
               /\ worker' = [worker EXCEPT ![p].pc = "reserved",
                                           ![p].skip = skip]
               /\ UNCHANGED cpu
        ELSE IF Authorised(p)
          THEN /\ cpu' = [cpu EXCEPT ![p].state = "running"]
               /\ worker' = [worker EXCEPT ![p].pc = "replaying",
                                           ![p].skip = skip]
               /\ UNCHANGED stage
        ELSE Throw(p) /\ UNCHANGED <<cpu, stage>>
     /\ UNCHANGED <<job, intent, take, beats, final, marker, raw, child,
                    server, owner, tasks, budgets>>

\* The durable trace of a launch, before it.
MarkLaunching(p) ==
  /\ worker[p].pc = "reserved"
  /\ cpu' = [cpu EXCEPT ![p].identity = "launching"]
  /\ Go(p, "marked")
  /\ UNCHANGED <<job, intent, take, beats, disk, child, server, owner,
                 tasks, budgets>>

Launch(p) ==
  /\ worker[p].pc = "marked"
  /\ child' = [child EXCEPT ![p] = [phase |-> "gated",
                                    todo |-> TakesOf[p] \ worker[p].skip,
                                    good |-> {}, bad |-> {}]]
  /\ owner' = [owner EXCEPT ![p] = "starting"]
  /\ Go(p, "launched")
  /\ UNCHANGED <<rows, disk, server, tasks, budgets>>

\* No group: nothing was started and the mark is taken back, or a process
\* may be there and the mark stays.
LaunchFails(p) ==
  /\ worker[p].pc = "marked" /\ Fault
  /\ \/ /\ cpu' = [cpu EXCEPT ![p].identity = "none"]
        /\ UNCHANGED child
     \/ /\ child' = [child EXCEPT ![p] = [NoChild EXCEPT !.phase = "gated"]]
        /\ UNCHANGED cpu
  /\ Go(p, "failing")
  /\ UNCHANGED <<job, intent, take, beats, disk, server, owner, tasks>>

StartRunning(p) ==
  /\ worker[p].pc = "launched"
  /\ IF Authorised(p)
       THEN /\ cpu' = [cpu EXCEPT ![p].state = "running",
                                  ![p].identity = "leader"]
            /\ owner' = [owner EXCEPT ![p] = "owned"]
            /\ child' = [child EXCEPT ![p].phase =
                           IF @ = "gated" THEN "working" ELSE @]
            /\ Go(p, "consuming")
       ELSE Throw(p) /\ UNCHANGED <<cpu, owner, child>>
  /\ UNCHANGED <<job, intent, take, beats, disk, server, tasks, budgets>>

-----------------------------------------------------------------------------
\* The process group.

ChildStarts(p, t) ==
  /\ child[p].phase = "working" /\ t \in child[p].todo
  /\ stage[t] = "none"
  /\ stage' = [stage EXCEPT ![t] = "partial"]
  /\ UNCHANGED <<rows, final, marker, raw, child, server, memory, budgets>>

\* A package is complete and its result is sent, or the take has failed.
ChildSends(p, t) ==
  /\ child[p].phase = "working" /\ t \in child[p].todo
  /\ stage[t] = "partial"
  /\ \/ /\ stage' = [stage EXCEPT ![t] = "package"]
        /\ child' = [child EXCEPT ![p].todo = @ \ {t}, ![p].good = @ \cup {t}]
        /\ UNCHANGED faults
     \/ /\ faults < MaxFaults /\ faults' = faults + 1
        /\ child' = [child EXCEPT ![p].todo = @ \ {t}, ![p].bad = @ \cup {t}]
        /\ UNCHANGED stage
  /\ UNCHANGED <<rows, final, marker, raw, server, memory, crashes>>

ChildCloses(p) ==
  /\ child[p].phase = "working" /\ child[p].todo = {}
  /\ child' = [child EXCEPT ![p].phase = "done"]
  /\ UNCHANGED <<rows, disk, server, memory, budgets>>

\* A process that no live owner holds ends by itself.
ChildDies(p) ==
  /\ Alive(p) /\ owner[p] \notin {"starting", "owned"}
  /\ child' = [child EXCEPT ![p].phase = "gone"]
  /\ UNCHANGED <<rows, disk, server, memory, budgets>>

\* The finalizer of the custody sees both streams end and the group close.
OwnerCloses(p) ==
  /\ owner[p] = "owned" /\ child[p].phase = "done"
  /\ owner' = [owner EXCEPT ![p] = "closed"]
  /\ child' = [child EXCEPT ![p].phase = "gone"]
  /\ UNCHANGED <<rows, disk, server, worker, tasks, budgets>>

\* The group is killed; of what it had sent, some was not read yet.
Killed(p, phase) ==
  \E good \in SUBSET child[p].good, bad \in SUBSET child[p].bad :
    /\ worker[p].seen \subseteq good \cup bad
    /\ child' = [child EXCEPT ![p].phase = phase, ![p].good = good,
                              ![p].bad = bad]

\* The deadline passes and the group is closed, or it cannot be proved
\* closed: a premature end of the stream, a handle that does not answer.
OwnerStops(p) ==
  /\ owner[p] = "owned" /\ Fault
  /\ \/ Killed(p, "gone") /\ owner' = [owner EXCEPT ![p] = "closed"]
     \/ \E phase \in {"gone", child[p].phase} : Killed(p, phase)
        /\ owner' = [owner EXCEPT ![p] = "unknown"]
  /\ UNCHANGED <<rows, disk, server, worker, tasks>>

-----------------------------------------------------------------------------
\* The results, one at a time.

Receive(p, t) ==
  /\ worker[p].pc = "consuming" /\ t \notin worker[p].seen
  /\ \/ t \in child[p].good
        /\ worker' = [worker EXCEPT ![p].pc = "packaged", ![p].take = {t},
                                    ![p].seen = @ \cup {t}]
     \/ t \in child[p].bad
        /\ worker' = [worker EXCEPT ![p].pc = "rejecting", ![p].take = {t},
                                    ![p].seen = @ \cup {t}]
  /\ UNCHANGED <<rows, disk, child, server, owner, tasks, budgets>>

\* The marker names the directory that was verified; it is written once.
WriteMarker(p, t) ==
  /\ worker[p].pc = "packaged" /\ Current(p, t)
  /\ IF stage[t] = "package" /\ t \notin marker
       THEN marker' = marker \cup {t} /\ Go(p, "sealed")
       ELSE Throw(p) /\ UNCHANGED marker
  /\ UNCHANGED <<rows, stage, final, raw, child, server, owner, tasks,
                 budgets>>

PrepareIntent(p, t) ==
  /\ worker[p].pc = "sealed" /\ Current(p, t)
  /\ IF Authorised(p) /\ intent[t] = "reserved"
       THEN intent' = [intent EXCEPT ![t] = "prepared"] /\ Go(p, "prepared")
       ELSE Throw(p) /\ UNCHANGED intent
  /\ UNCHANGED <<job, cpu, take, beats, disk, child, server, owner, tasks,
                 budgets>>

\* The directory moves to its final place, unless an earlier attempt did it.
Rename(p, t) ==
  /\ worker[p].pc = "prepared" /\ Current(p, t)
  /\ IF t \in marker /\ stage[t] = (IF t \in final THEN "none" ELSE "package")
       THEN /\ stage' = [stage EXCEPT ![t] = "none"]
            /\ final' = final \cup {t}
            /\ Go(p, "renamed")
       ELSE Throw(p) /\ UNCHANGED <<stage, final>>
  /\ UNCHANGED <<rows, marker, raw, child, server, owner, tasks, budgets>>

CommitIntent(p, t) ==
  /\ worker[p].pc = "renamed" /\ Current(p, t)
  /\ IF Authorised(p) /\ intent[t] = "prepared"
       THEN /\ intent' = [intent EXCEPT ![t] = "committed"]
            /\ take' = [take EXCEPT ![t] = "ready"]
            /\ Go(p, "committed")
       ELSE Throw(p) /\ UNCHANGED <<intent, take>>
  /\ UNCHANGED <<job, cpu, beats, disk, child, server, owner, tasks,
                 budgets>>

FailTake(p, t) ==
  /\ worker[p].pc = "rejecting" /\ Current(p, t)
  /\ IF Authorised(p)
       THEN /\ intent' = [intent EXCEPT ![t] = "failed"]
            /\ take' = [take EXCEPT ![t] = "failed"]
            /\ Go(p, "committed")
       ELSE Throw(p) /\ UNCHANGED <<intent, take>>
  /\ UNCHANGED <<job, cpu, beats, disk, child, server, owner, tasks,
                 budgets>>

\* The snapshot of the song is written, and the thread takes what is next.
Published(p) ==
  /\ worker[p].pc = "committed"
  /\ worker' = [worker EXCEPT ![p].take = {}, ![p].pc =
       IF worker[p].take \cap worker[p].skip = {} THEN "consuming"
                                                  ELSE "replaying"]
  /\ UNCHANGED <<rows, disk, child, server, owner, tasks, budgets>>

\* Every result was taken and the group is closed.
Join(p) ==
  /\ worker[p].pc = "consuming"
  /\ owner[p] \in {"closed", "unknown"}
  /\ child[p].good \cup child[p].bad \subseteq worker[p].seen
  /\ IF owner[p] = "closed" /\ worker[p].seen = TakesOf[p] \ worker[p].skip
       THEN Go(p, IF worker[p].skip = {} THEN "finishing" ELSE "replaying")
       ELSE Throw(p)
  /\ UNCHANGED <<rows, disk, child, server, owner, tasks, budgets>>

\* A variant that takes a prepared intent for one already in its place.
ReplayUnmoved(p) ==
  /\ worker[p].pc = "replaying"
  /\ LET left == {t \in worker[p].skip : intent[t] = "prepared"}
     IN IF left = {} THEN Go(p, "finishing")
        ELSE \E t \in left :
               worker' = [worker EXCEPT ![p].pc = "renamed",
                                        ![p].take = {t}]
  /\ UNCHANGED <<rows, disk, child, server, owner, tasks, budgets>>

\* The skipped takes: a prepared intent is published from where it was left.
Replay(p) ==
  /\ worker[p].pc = "replaying"
  /\ LET left == {t \in worker[p].skip : intent[t] = "prepared"}
     IN IF left = {} THEN Go(p, "finishing")
        ELSE \E t \in left :
               worker' = [worker EXCEPT ![p].pc = "prepared",
                                        ![p].take = {t}]
  /\ UNCHANGED <<rows, disk, child, server, owner, tasks, budgets>>

\* A variant that leaves the analysis of a rejected take waiting.
FinishKeepsBeats(p) ==
  /\ worker[p].pc = "finishing" /\ Authorised(p)
  /\ cpu' = [cpu EXCEPT ![p].state = "finished", ![p].custody = "confirmed"]
  /\ job' = [job EXCEPT ![p].status = "succeeded"]
  /\ Go(p, "clearing")
  /\ UNCHANGED <<beats, intent, take, disk, child, server, owner, tasks,
                 budgets>>

Finish(p) ==
  /\ worker[p].pc = "finishing"
  /\ IF Authorised(p)
       THEN /\ cpu' = [cpu EXCEPT ![p].state = "finished",
                                  ![p].custody = "confirmed"]
            /\ job' = [job EXCEPT ![p].status = "succeeded"]
            /\ beats' = [t \in Takes |->
                 IF t \in TakesOf[p] /\ intent[t] \in {"failed", "cancelled"}
                 THEN "failed" ELSE beats[t]]
            /\ Go(p, "clearing")
       ELSE Throw(p) /\ UNCHANGED <<cpu, job, beats>>
  /\ UNCHANGED <<intent, take, disk, child, server, owner, tasks, budgets>>

\* The WAVs of the attempt go, and the custody leaves the service.
Clear(p) ==
  /\ worker[p].pc = "clearing"
  /\ raw' = raw \ {p}
  /\ worker' = [worker EXCEPT ![p] = Idle]
  /\ owner' = [owner EXCEPT ![p] = "none"]
  /\ UNCHANGED <<rows, stage, final, marker, child, server, tasks, budgets>>

-----------------------------------------------------------------------------
\* Errors.

\* Any call of the thread may raise: a locked database, a full disk, bytes
\* that are not those of the digest.
Raise(p) ==
  /\ worker[p].pc \notin {"idle", "resuming", "marked", "unwinding",
                          "closing", "failing"}
  /\ Fault /\ Throw(p)
  /\ UNCHANGED <<rows, disk, child, server, owner, tasks>>

\* The except clause of execute: the owner is stopped and joined, or a group
\* that was never started is contained and stays retained.
Unwind(p) ==
  /\ worker[p].pc = "unwinding"
  /\ \/ /\ owner[p] = "owned" /\ Killed(p, "gone")
        /\ owner' = [owner EXCEPT ![p] = "closed"]
     \/ /\ owner[p] = "starting"
        /\ child' = [child EXCEPT ![p].phase = "gone"]
        /\ owner' = [owner EXCEPT ![p] = "unknown"]
     \/ /\ owner[p] \in {"closed", "unknown"}
        /\ UNCHANGED <<child, owner>>
  /\ Go(p, "closing")
  /\ UNCHANGED <<rows, disk, server, tasks, budgets>>

\* With the custody given back, the execution is interrupted and may be
\* resumed; this transaction may fail too, and its error is only a note.
Interrupt(p) ==
  /\ worker[p].pc = "closing"
  /\ \/ /\ owner[p] = "closed" /\ cpu[p].state = "running"
        /\ cpu' = [cpu EXCEPT ![p].state = "interrupted",
                              ![p].custody = "confirmed"]
        /\ UNCHANGED budgets
     \/ /\ owner[p] = "closed" /\ cpu[p].state = "running" /\ Fault
        /\ UNCHANGED cpu
     \/ /\ ~(owner[p] = "closed" /\ cpu[p].state = "running")
        /\ UNCHANGED <<cpu, budgets>>
  /\ owner' = [owner EXCEPT ![p] = IF @ = "closed" THEN "none" ELSE @]
  /\ Go(p, "failing")
  /\ UNCHANGED <<job, intent, take, beats, disk, child, server, tasks>>

\* A variant that leaves the post of an open execution as it is.
FailPlanLeaves(p) ==
  /\ worker[p].pc = "failing"
  /\ job' = [job EXCEPT ![p].status =
       IF cpu[p].state \in CpuEnded \cup {"none"} THEN "failed" ELSE @]
  /\ worker' = [worker EXCEPT ![p] = Idle]
  /\ UNCHANGED <<cpu, intent, take, beats, disk, child, server, owner,
                 tasks, budgets>>

\* fail_plan: with an execution that has not ended the post is interrupted,
\* without one it fails.  The takes it looks for are those of the post, and
\* the takes belong to the generation: it finds none.
FailPlan(p) ==
  /\ worker[p].pc = "failing"
  /\ job' = [job EXCEPT ![p].status =
       IF @ \notin {"queued", "running"} THEN @
       ELSE IF cpu[p].state \in CpuEnded \cup {"none"} THEN "failed"
       ELSE "interrupted"]
  /\ worker' = [worker EXCEPT ![p] = Idle]
  /\ UNCHANGED <<cpu, intent, take, beats, disk, child, server, owner,
                 tasks, budgets>>

-----------------------------------------------------------------------------
\* Cancellation.

\* A queued post ends at once; its takes are not those terminalize_placeholders
\* looks for, which belong to a generation.
RequestCancel(p) ==
  /\ server = "up"
  /\ job[p].status \notin Ended /\ ~job[p].cancel
  /\ job' = [job EXCEPT ![p].cancel = TRUE, ![p].status =
               IF @ = "queued" THEN "cancelled" ELSE @]
  /\ UNCHANGED <<cpu, intent, take, beats, disk, child, server, memory,
                 budgets>>

\* A requested cancellation meets a post that a restart put back in the queue.
CancelQueued(p) ==
  /\ server = "up" /\ job[p].cancel /\ job[p].status = "queued"
  /\ job' = [job EXCEPT ![p].status = "cancelled"]
  /\ UNCHANGED <<cpu, intent, take, beats, disk, child, server, memory,
                 budgets>>

\* A live execution: its owner is told to stop.
CancelRunning(p) ==
  /\ server = "up" /\ job[p].cancel
  /\ job[p].status \in {"running", "interrupted"}
  /\ p \in Executing /\ owner[p] = "owned"
  /\ Killed(p, "gone")
  /\ owner' = [owner EXCEPT ![p] = "closed"]
  /\ UNCHANGED <<rows, disk, server, worker, tasks, budgets>>

\* No execution here: the post ends, with the death of the old one proved.
CancelInterrupted(p) ==
  /\ server = "up" /\ job[p].cancel /\ job[p].status = "interrupted"
  /\ p \notin Live
  /\ cpu[p].state \in CpuEnded \cup {"none"} \/ Dead(p)
  /\ job' = [job EXCEPT ![p].status = "cancelled"]
  /\ IF cpu[p].state \in CpuEnded \cup {"none"}
       THEN UNCHANGED <<cpu, intent, take>>
       ELSE /\ cpu' = [cpu EXCEPT ![p].state = "cancelled",
                                  ![p].custody = "confirmed"]
            /\ SetIntents(Open(p), "cancelled")
            /\ take' = [t \in Takes |->
                 IF t \in Open(p) THEN "cancelled" ELSE take[t]]
  /\ sweeping' = sweeping \cup {p}
  /\ UNCHANGED <<beats, disk, child, server, worker, owner, resumed, budgets>>

\* What follows the transaction, in the same process: the staging goes.
RemoveStages(p) ==
  /\ server = "up" /\ p \in sweeping
  /\ sweeping' = sweeping \ {p}
  /\ stage' = [t \in Takes |-> IF t \in TakesOf[p] THEN "none" ELSE stage[t]]
  /\ UNCHANGED <<rows, final, marker, raw, child, server, worker, owner,
                 resumed, budgets>>

\* The sweeper of the loop takes what data/tmp keeps of a post that ended.
Sweep(p) ==
  /\ server = "up" /\ job[p].status \in Ended
  /\ p \in raw \/ TakesOf[p] \cap marker # {}
  /\ raw' = raw \ {p}
  /\ marker' = marker \ TakesOf[p]
  /\ UNCHANGED <<rows, stage, final, child, server, memory, budgets>>

-----------------------------------------------------------------------------
\* The death of the server, and its start.

Crash ==
  /\ server # "down" /\ crashes < MaxCrashes
  /\ crashes' = crashes + 1
  /\ server' = "down"
  /\ worker' = [p \in Posts |-> Idle]
  /\ owner' = [p \in Posts |-> "none"]
  /\ resumed' = {} /\ sweeping' = {}
  /\ UNCHANGED <<rows, disk, child, faults>>

\* reconcile_startup, before the loop: a post without execution goes back to
\* the queue, an execution that had not ended is of unknown custody.
Startup ==
  LET orphans == {p \in Posts : /\ job[p].status \in {"running", "interrupted"}
                                /\ cpu[p].state = "none"}
      open == {p \in Posts : /\ job[p].status \in {"running", "interrupted"}
                             /\ cpu[p].state \notin CpuEnded \cup {"none"}
                             /\ ~ /\ job[p].status = "interrupted"
                                  /\ cpu[p].state = "interrupted"}
  IN /\ server = "down"
     /\ server' = "cleaning"
     /\ job' = [p \in Posts |->
          IF p \in orphans THEN [job[p] EXCEPT !.status = "queued"]
          ELSE IF p \in open THEN [job[p] EXCEPT !.status = "interrupted"]
          ELSE job[p]]
     /\ cpu' = [p \in Posts |->
          IF p \in open THEN [cpu[p] EXCEPT !.state = "interrupted",
                                            !.custody = "unknown"]
          ELSE cpu[p]]
     /\ UNCHANGED <<intent, take, beats, disk, child, memory, budgets>>

\* A variant that looks at the execution only.
KeepsOpenStaging(p) == cpu[p].state \notin CpuEnded \cup {"none", "interrupted"}

\* The staging of an execution with a prepared intent is kept whole.
KeepsStaging(p) ==
  \/ \E t \in TakesOf[p] : intent[t] = "prepared"
  \/ cpu[p].state \notin CpuEnded \cup {"none", "interrupted"}

CleanStaging ==
  /\ server = "cleaning"
  /\ server' = "up"
  /\ stage' = [t \in Takes |->
       IF \E p \in Posts : t \in TakesOf[p] /\ ~KeepsStaging(p) THEN "none"
       ELSE stage[t]]
  /\ UNCHANGED <<rows, final, marker, raw, child, memory, budgets>>

-----------------------------------------------------------------------------
Execute(p) ==
  \/ ClaimJob(p) \/ ReadResume(p) \/ ClaimResume(p) \/ Reserve(p)
  \/ PrepareResume(p) \/ MarkLaunching(p) \/ Launch(p) \/ StartRunning(p)
  \/ \E t \in TakesOf[p] :
       \/ Receive(p, t) \/ WriteMarker(p, t) \/ PrepareIntent(p, t)
       \/ Rename(p, t) \/ CommitIntent(p, t) \/ FailTake(p, t)
  \/ Published(p) \/ Join(p) \/ Replay(p) \/ Finish(p) \/ Clear(p)
  \/ Unwind(p) \/ Interrupt(p) \/ FailPlan(p)

Group(p) ==
  \/ \E t \in TakesOf[p] : ChildStarts(p, t) \/ ChildSends(p, t)
  \/ ChildCloses(p) \/ ChildDies(p) \/ OwnerCloses(p)

Cancel(p) == \/ CancelQueued(p) \/ CancelRunning(p) \/ CancelInterrupted(p)
             \/ RemoveStages(p) \/ Sweep(p)

Next ==
  \/ \E p \in Posts :
       \/ Execute(p) \/ Group(p) \/ Cancel(p)
       \/ LaunchFails(p) \/ OwnerStops(p) \/ Raise(p) \/ RequestCancel(p)
  \/ Crash \/ Startup \/ CleanStaging

Spec == Init /\ [][Next]_vars

\* The threads, the process groups and the loop go on while the server is
\* up, and a supervisor starts it again; no fault has to happen.
FairSpec ==
  /\ Spec
  /\ \A p \in Posts : WF_vars(Execute(p)) /\ WF_vars(Group(p))
                      /\ WF_vars(Cancel(p))
  /\ WF_vars(Startup \/ CleanStaging)

-----------------------------------------------------------------------------
\* Invariants.

\* What the rows say can always be finished from what is on disk: a prepared
\* intent has its package, whole, in one of the two places and the marker
\* that identifies it, and a take that must be processed again has its WAV.
\* _clean_staging, _prepare_resume and the sweepers remove around it.
Recoverable ==
  \A p \in Posts : \A t \in TakesOf[p] :
    /\ intent[t] = "prepared" =>
         /\ t \in marker
         /\ stage[t] = (IF t \in final THEN "none" ELSE "package")
    /\ intent[t] = "reserved" /\ job[p].status \notin Ended => p \in raw

\* The library and the disk agree: the takes shown are those whose intent was
\* committed, their directory is there, and a directory in its final place is
\* that of an intent that was prepared, so that no package is built again for
\* a place already taken.
PublishedIsWhole ==
  \A t \in Takes :
    /\ take[t] = "ready" <=> intent[t] = "committed"
    /\ intent[t] = "committed" => t \in final /\ stage[t] = "none"
    /\ t \in final => intent[t] \in {"prepared", "committed", "cancelled"}

\* One process group works for an execution: it ends, is offered again or is
\* about to launch one only when no process of it is left, because one that
\* remained would still write packages.
OneGroup ==
  \A p \in Posts :
    \/ cpu[p].state \in CpuEnded
    \/ cpu[p].state = "prepared" /\ cpu[p].identity = "none"
    \/ worker[p].pc \in {"planning", "reserved", "marked"}
    => ~Alive(p)

\* The post, its execution and its takes end together: the post succeeds with
\* its execution, every take is then settled, the analysis of a take that
\* failed is rejected with it, and an execution that has not ended belongs to
\* a post that runs or waits: fail_plan never ends the post over it.
OutcomeIsWhole ==
  \A p \in Posts :
    /\ cpu[p].state = "finished" <=> job[p].status = "succeeded"
    /\ cpu[p].state = "finished" => \A t \in TakesOf[p] :
         /\ take[t] \in {"ready", "failed", "cancelled"}
         /\ beats[t] = (IF take[t] = "ready" THEN "blocked" ELSE "failed")
    /\ cpu[p].state \notin CpuEnded \cup {"none"} =>
         job[p].status \in {"running", "interrupted"}

-----------------------------------------------------------------------------
\* Properties of behaviours.

\* The worker keeps the promises of the ledger.
Ledger == INSTANCE TakeLedger WITH
  status <- take, files <- final,
  closed <- {p \in Posts : job[p].status = "succeeded"}
KeepsLedger == Ledger!Spec

\* A claimed slot comes back: no sequence of errors, cancellations and
\* restarts leaves a post running for ever.
PostEnds ==
  \A p \in Posts :
    job[p].status = "running" ~> job[p].status # "running"

\* A requested cancellation ends the post, except while this process retains
\* a group it could not prove dead, which only a restart gives back.
CancelSettles ==
  \A p \in Posts :
    job[p].cancel ~> job[p].status \in Ended \/ owner[p] = "unknown"
=============================================================================
