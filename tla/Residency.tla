------------------------------ MODULE Residency ------------------------------
(***************************************************************************)
(* Which model is on the card: the dispatcher's memory of the resident     *)
(* (queue/dispatcher.py), the checks, unloads and loads it makes before an *)
(* attempt, the loads of an observer that sends an attempt again           *)
(* (queue/runtime.py), and what each engine's supervisor really holds.     *)
(*                                                                         *)
(* A model stands for a pair of model and mode; every job is of the gpu    *)
(* lane.  Models do not fit side by side: there is memory for a load only  *)
(* when no child of any engine holds one.                                  *)
(*                                                                         *)
(* Abstracted: order of candidates, screening (it only discards, on the    *)
(* grounds of Decline), cancellation, other users of the card, a child     *)
(* that outlives its kill (EngineServer has it).  When an attempt may be   *)
(* sent again or is lost is the subject of JobQueue.                       *)
(***************************************************************************)
EXTENDS Naturals, FiniteSets

CONSTANTS
  Jobs, Engines, Models,
  EngineOf,     \* EngineOf[j]: the engine the job is routed to
  ModelOf,      \* ModelOf[j]: the model of its first attempt
  OffloadOf,    \* OffloadOf[j]: the one it falls back to, or None
  None,
  MaxAttempts,  \* job.max_attempts
  MaxFaults     \* bound: crashes, dead children, failed exchanges, loads,
                \* unloads and removals

ASSUME ResidencyAssumption ==
  /\ EngineOf \in [Jobs -> Engines]
  /\ ModelOf \in [Jobs -> Models]
  /\ OffloadOf \in [Jobs -> Models \cup {None}]
  /\ None \notin Models \cup Jobs
  /\ MaxAttempts \in 1..3
  /\ MaxFaults \in Nat

VARIABLES
  job,        \* durable: status, attempt and the model it wants
  ran,        \* disk: jobs whose current attempt left a directory
  main,       \* the main loop, and what it saw of the job's engine
  observer,   \* the observer coroutine of each reserved job
  resident,   \* memory of the dispatcher: engine and model, or None
  engine,     \* what the engine does, shows as loaded and has on the card
  told,       \* what the job's engine knows of its current attempt
  faults

rows == <<job, ran>>
vars == <<rows, main, observer, resident, engine, told, faults>>

-----------------------------------------------------------------------------
NoMain == [pc |-> "off", job |-> None, loaded |-> None, free |-> FALSE]
NoObserver == [pc |-> "off", resent |-> FALSE]
NoEngine == [work |-> "idle", job |-> None, loaded |-> None, child |-> None]

Owned(e, m) == [engine |-> e, model |-> m]
Wanted(j) == Owned(EngineOf[j], job[j].model)

Work == {"idle", "load", "unload", "run", "busy", "clean", "close",
         "jammed"}
Place == {"off", "others", "evicting", "reserve", "load", "loading",
          "capture", "submit"}

JobRecord == [status: {"queued", "claimed", "captured", "ended"},
              attempt: 0..MaxAttempts, model: Models]
MainRecord == [pc: Place, job: Jobs \cup {None}, loaded: Models \cup {None},
               free: BOOLEAN]
ObserverRecord == [pc: {"off", "loading", "loaded"}, resent: BOOLEAN]
EngineRecord == [work: Work, job: Jobs \cup {None},
                 loaded: Models \cup {None}, child: Models \cup {None}]
Resident == [engine: Engines, model: Models] \cup {None}
Known == {"absent", "running", "done", "failed", "retryable", "vram"}

TypeOK ==
  /\ job \in [Jobs -> JobRecord]
  /\ ran \in SUBSET Jobs
  /\ main \in MainRecord
  /\ observer \in [Jobs -> ObserverRecord]
  /\ resident \in Resident
  /\ engine \in [Engines -> EngineRecord]
  /\ told \in [Jobs -> Known]
  /\ faults \in 0..MaxFaults

Init ==
  /\ job = [j \in Jobs |-> [status |-> "queued", attempt |-> 0,
                            model |-> ModelOf[j]]]
  /\ ran = {}
  /\ main = NoMain
  /\ observer = [j \in Jobs |-> NoObserver]
  /\ resident = None
  /\ engine = [e \in Engines |-> NoEngine]
  /\ told = [j \in Jobs |-> "absent"]
  /\ faults = 0

Fault == faults < MaxFaults /\ faults' = faults + 1

Queued(j) == job[j].status = "queued"
Reserved(j) == job[j].status \in {"claimed", "captured"}

\* Health of an engine, and the free memory it reports.
Idle(e) == engine[e].work = "idle"
Shows(e) == engine[e].loaded
CardFree == \A e \in Engines : engine[e].child = None

-----------------------------------------------------------------------------
(* The engine: maintenance, the run thread and its child.                  *)

\* POST /v1/load at an idle engine: kept, or the old child goes first.
LoadAt(e, m) ==
  engine' = [engine EXCEPT ![e] =
               IF @.child = m /\ @.loaded = m THEN @
               ELSE [@ EXCEPT !.work = "load", !.child = m, !.loaded = None]]

LoadEnds(e) ==
  /\ engine[e].work = "load"
  /\ engine[e].child # None
  /\ engine' = [engine EXCEPT ![e].work = "idle",
                                         ![e].loaded = engine[e].child]
  /\ UNCHANGED <<rows, main, observer, resident, told, faults>>

\* The child died, or the load failed: nothing stays behind.
LoadFails(e) ==
  /\ engine[e].work = "load"
  /\ IF engine[e].child = None THEN UNCHANGED faults ELSE Fault
  /\ engine' = [engine EXCEPT ![e] = NoEngine]
  /\ UNCHANGED <<rows, main, observer, resident, told>>

UnloadEnds(e) ==
  /\ engine[e].work = "unload"
  /\ engine' = [engine EXCEPT ![e] = NoEngine]
  /\ UNCHANGED <<rows, main, observer, resident, told, faults>>

\* The child is dead, but closing its pipes raised: it goes on being shown.
UnloadFails(e) ==
  /\ engine[e].work = "unload"
  /\ Fault
  /\ engine' = [engine EXCEPT ![e].work = "idle", ![e].child = None]
  /\ UNCHANGED <<rows, main, observer, resident, told>>

\* An idle engine takes a POST.
Take(j) ==
  /\ engine' = [engine EXCEPT ![EngineOf[j]].work = "run",
                              ![EngineOf[j]].job = j]
  /\ told' = [told EXCEPT ![j] = "running"]

\* The run loads its model when the supervisor does not have it.
RunStarts(e) ==
  LET j == engine[e].job IN
  /\ engine[e].work = "run"
  /\ engine' = [engine EXCEPT ![e].work = "busy", ![e].loaded = job[j].model,
                              ![e].child = job[j].model]
  /\ ran' = ran \cup {j}
  /\ UNCHANGED <<job, main, observer, resident, told, faults>>

\* A result, a cancellation or an error of the adapter keeps the child.
RunKeeps(e) ==
  /\ engine[e].work = "busy"
  /\ engine[e].child # None
  /\ \E outcome \in {"done", "failed", "retryable"} :
       /\ told' = [told EXCEPT ![engine[e].job] = outcome]
       /\ engine' = [engine EXCEPT ![e].work = IF outcome = "done" THEN "close"
                                               ELSE "clean"]
  /\ UNCHANGED <<rows, main, observer, resident, faults>>

\* A run that failed has a directory to remove if it came to generate.
Closing(e) == IF engine[e].work = "busy" THEN "clean" ELSE "close"

\* TIMEOUT, VRAM_EXCEEDED and INTERNAL unload it, a load within the run too.
RunUnloads(e) ==
  /\ engine[e].work \in {"run", "busy"}
  /\ \E outcome \in {"vram", "failed", "retryable"} :
       told' = [told EXCEPT ![engine[e].job] = outcome]
  /\ engine' = [engine EXCEPT ![e].work = Closing(e), ![e].loaded = None,
                              ![e].child = None]
  /\ UNCHANGED <<rows, main, observer, resident, faults>>

\* That raises as in UnloadFails: the run ends without a terminal event.
RunAbandons(e) ==
  /\ engine[e].work \in {"run", "busy"}
  /\ Fault
  /\ engine' = [engine EXCEPT ![e].work = Closing(e), ![e].child = None]
  /\ UNCHANGED <<rows, main, observer, resident, told>>

\* The directory cannot be removed: active is never cleared.
RunJams(e) ==
  /\ engine[e].work = "clean"
  /\ Fault
  /\ engine' = [engine EXCEPT ![e].work = "jammed"]
  /\ UNCHANGED <<rows, main, observer, resident, told>>

\* active = None, after the terminal could be read.
RunCloses(e) ==
  /\ engine[e].work \in {"clean", "close"}
  /\ engine' = [engine EXCEPT ![e].work = "idle", ![e].job = None]
  /\ UNCHANGED <<rows, main, observer, resident, told, faults>>

Engine(e) == \/ LoadEnds(e) \/ LoadFails(e) \/ UnloadEnds(e)
             \/ RunStarts(e) \/ RunKeeps(e) \/ RunUnloads(e) \/ RunCloses(e)

EngineFails(e) == UnloadFails(e) \/ RunAbandons(e) \/ RunJams(e)

\* The supervisor goes on showing what a dead child had loaded.
ChildDies(e) ==
  /\ engine[e].child # None
  /\ Fault
  /\ engine' = [engine EXCEPT ![e].child = None]
  /\ UNCHANGED <<rows, main, observer, resident, told>>

EngineCrash(e) ==
  /\ engine[e] # NoEngine
  /\ Fault
  /\ engine' = [engine EXCEPT ![e] = NoEngine]
  /\ told' = [j \in Jobs |-> IF EngineOf[j] = e THEN "absent" ELSE told[j]]
  /\ UNCHANGED <<rows, main, observer, resident>>

-----------------------------------------------------------------------------
(* The main loop, from a candidate to its POST.                            *)

At(j, pc) == main.job = j /\ main.pc = pc
GoTo(pc) == main' = [main EXCEPT !.pc = pc]
GiveUp == main' = NoMain

\* Health of the candidate's engine; decided on later.
Look(j) ==
  /\ main.pc = "off"
  /\ Queued(j)
  /\ Idle(EngineOf[j])
  /\ main' = [pc |-> "others", job |-> j, loaded |-> Shows(EngineOf[j]),
              free |-> CardFree]
  /\ UNCHANGED <<rows, observer, resident, engine, told, faults>>

\* Every engine but the target and the resident's is idle and shows nothing.
OthersClear(j) ==
  \A e \in Engines \ {EngineOf[j]} :
    \/ resident # None /\ resident.engine = e
    \/ Shows(e) = None /\ Idle(e)

\* The first half of _preflight: nothing is reserved, and what the target
\* showed is the wanted model, nothing, or the resident's to replace.
Clear(j) ==
  /\ \A i \in Jobs : ~Reserved(i)
  /\ OthersClear(j)
  /\ \/ main.loaded \in {None, job[j].model}
     \/ resident # None /\ resident.engine = EngineOf[j]

\* There is nothing to replace: the model is there already, or fits.
Admits(j) ==
  /\ Clear(j)
  /\ resident \in {None, Wanted(j)}
  /\ main.loaded = job[j].model \/ main.free

\* The resident is another one, idle, and its engine still shows it.
Evicts(j) ==
  /\ Clear(j)
  /\ resident \notin {None, Wanted(j)}
  /\ Idle(resident.engine)
  /\ Shows(resident.engine) = resident.model

Admit(j) ==
  /\ At(j, "others")
  /\ Admits(j)
  /\ GoTo("reserve")
  /\ UNCHANGED <<rows, observer, resident, engine, told, faults>>

\* Mutant of Evict: the unload is taken for done when it is asked for.
EvictAtOnce(j) ==
  /\ At(j, "others")
  /\ Evicts(j)
  /\ engine' = [engine EXCEPT ![resident.engine].work = "unload"]
  /\ resident' = None
  /\ GoTo("reserve")
  /\ UNCHANGED <<rows, observer, told, faults>>

\* POST /v1/unload
Evict(j) ==
  /\ At(j, "others")
  /\ Evicts(j)
  /\ engine' = [engine EXCEPT ![resident.engine].work = "unload"]
  /\ GoTo("evicting")
  /\ UNCHANGED <<rows, observer, resident, told, faults>>

Decline(j) ==
  /\ At(j, "others")
  /\ ~Admits(j) /\ ~Evicts(j)
  /\ GiveUp
  /\ UNCHANGED <<rows, observer, resident, engine, told, faults>>

\* The answer came: both engines are looked at again, and only an unload that
\* shows in the health and in the memory makes the dispatcher forget.
Evicted(j) ==
  LET gone == /\ Idle(resident.engine) /\ Shows(resident.engine) = None
              /\ CardFree
      target == Idle(EngineOf[j]) /\ Shows(EngineOf[j]) = None
  IN  /\ At(j, "evicting")
      /\ engine[resident.engine].work # "unload"
      /\ resident' = IF gone THEN None ELSE resident
      /\ IF gone /\ target THEN GoTo("reserve") ELSE GiveUp
      /\ UNCHANGED <<rows, observer, engine, told, faults>>

\* admission.reserve or retry.reserve
Reserve(j) ==
  /\ At(j, "reserve")
  /\ IF Queued(j) /\ \A i \in Jobs : ~Reserved(i)
     THEN /\ job' = [job EXCEPT ![j].status = "claimed", ![j].attempt = @ + 1]
          /\ GoTo("load")
     ELSE GiveUp /\ UNCHANGED job
  /\ UNCHANGED <<ran, observer, resident, engine, told, faults>>

\* POST /v1/load; an engine that is not idle answers BUSY.
Load(j) ==
  /\ At(j, "load")
  /\ IF Idle(EngineOf[j])
     THEN LoadAt(EngineOf[j], job[j].model) /\ GoTo("loading")
     ELSE GiveUp /\ UNCHANGED engine
  /\ UNCHANGED <<rows, observer, resident, told, faults>>

\* The acknowledged model becomes the resident.
Loaded(j) ==
  /\ At(j, "loading")
  /\ engine[EngineOf[j]].work # "load"
  /\ IF Shows(EngineOf[j]) = job[j].model
     THEN resident' = Wanted(j) /\ GoTo("capture")
     ELSE GiveUp /\ UNCHANGED resident
  /\ UNCHANGED <<rows, observer, engine, told, faults>>

\* Fresh health: provenance is only captured of the model that is loaded.
Capture(j) ==
  /\ At(j, "capture")
  /\ IF Shows(EngineOf[j]) = job[j].model
     THEN job' = [job EXCEPT ![j].status = "captured"] /\ GoTo("submit")
     ELSE GiveUp /\ UNCHANGED job
  /\ UNCHANGED <<ran, observer, resident, engine, told, faults>>

Submit(j) ==
  /\ At(j, "submit")
  /\ IF Idle(EngineOf[j]) THEN Take(j) ELSE UNCHANGED <<engine, told>>
  /\ GiveUp
  /\ UNCHANGED <<rows, observer, resident, faults>>

Main(j) == \/ Admit(j) \/ Evict(j) \/ Decline(j) \/ Evicted(j) \/ Reserve(j)
           \/ Load(j) \/ Loaded(j) \/ Capture(j) \/ Submit(j)

\* An exchange of the main loop fails; the engine may still be at it.
MainFails ==
  /\ main.pc # "off"
  /\ Fault
  /\ GiveUp
  /\ UNCHANGED <<rows, observer, resident, engine, told>>

-----------------------------------------------------------------------------
(* The observer of a reserved job.                                         *)

Absent(j) == /\ job[j].status = "captured"
             /\ main.job # j
             /\ observer[j].pc = "off"
             /\ told[j] = "absent"

\* Sent again: the model is loaded again first, without any unload of others.
Resend(j) ==
  LET e == EngineOf[j] IN
  /\ Absent(j)
  /\ ~observer[j].resent /\ j \notin ran
  /\ Idle(e) /\ Shows(e) \in {None, job[j].model}
  /\ \A i \in Jobs \ {j} : ~Reserved(i)
  /\ OthersClear(j)
  /\ Shows(e) = job[j].model \/ CardFree
  /\ LoadAt(e, job[j].model)
  /\ observer' = [observer EXCEPT ![j] = [pc |-> "loading", resent |-> TRUE]]
  /\ UNCHANGED <<rows, main, resident, told, faults>>

ResendLoaded(j) ==
  /\ observer[j].pc = "loading"
  /\ engine[EngineOf[j]].work # "load"
  /\ IF Shows(EngineOf[j]) = job[j].model
     THEN /\ resident' = Wanted(j)
          /\ observer' = [observer EXCEPT ![j].pc = "loaded"]
     ELSE /\ observer' = [observer EXCEPT ![j].pc = "off"]
          /\ UNCHANGED resident
  /\ UNCHANGED <<rows, main, engine, told, faults>>

ResendSubmits(j) ==
  /\ observer[j].pc = "loaded"
  /\ IF Idle(EngineOf[j]) /\ Shows(EngineOf[j]) = job[j].model
     THEN Take(j) ELSE UNCHANGED <<engine, told>>
  /\ observer' = [observer EXCEPT ![j].pc = "off"]
  /\ UNCHANGED <<rows, main, resident, faults>>

ResendFails(j) ==
  /\ observer[j].pc # "off"
  /\ Fault
  /\ observer' = [observer EXCEPT ![j].pc = "off"]
  /\ UNCHANGED <<rows, main, resident, engine, told>>

\* The attempt ends; a retryable error queues the job for the next one.
Settled(j, retryable, model) ==
  /\ job' = [job EXCEPT
       ![j].status = IF retryable /\ job[j].attempt < MaxAttempts
                     THEN "queued" ELSE "ended",
       ![j].model = model]
  /\ told' = [told EXCEPT ![j] = "absent"]
  /\ ran' = ran \ {j}
  /\ observer' = [observer EXCEPT ![j] = NoObserver]

\* Mutant of Lost: a doubtful attempt keeps its reservation.
LostWaits(j) == FALSE

\* Absent, and sending it again is not safe or was done: a retryable error.
Lost(j) ==
  /\ Absent(j)
  /\ observer[j].resent \/ j \in ran
  /\ Settled(j, TRUE, job[j].model)
  /\ UNCHANGED <<main, resident, engine, faults>>

\* The terminal event: a retryable error is tried again in the same mode, and
\* out of memory offloaded, unless it was.
Ends(j) ==
  LET offload == /\ told[j] = "vram"
                 /\ OffloadOf[j] \notin {None, job[j].model}
  IN  /\ job[j].status = "captured"
      /\ told[j] \in {"done", "failed", "retryable", "vram"}
      /\ main.job # j
      /\ Settled(j, offload \/ told[j] = "retryable",
                 IF offload THEN OffloadOf[j] ELSE job[j].model)
      /\ UNCHANGED <<main, resident, engine, faults>>

Observer(j) == \/ Resend(j) \/ ResendLoaded(j) \/ ResendSubmits(j)
               \/ Lost(j) \/ Ends(j)

\* The server starts again: it remembers no resident.
ServerCrash ==
  /\ Fault
  /\ main' = NoMain
  /\ observer' = [j \in Jobs |-> NoObserver]
  /\ resident' = None
  /\ UNCHANGED <<rows, engine, told>>

-----------------------------------------------------------------------------
Next ==
  \/ \E j \in Jobs : Look(j) \/ Main(j) \/ Observer(j) \/ ResendFails(j)
  \/ \E e \in Engines : \/ Engine(e) \/ EngineFails(e) \/ ChildDies(e)
                         \/ EngineCrash(e)
  \/ MainFails
  \/ ServerCrash

Spec == Init /\ [][Next]_vars

\* Every round of the loop looks at every candidate, whatever becomes of the
\* ones before it; what was begun goes on, and engines finish.
Fairness ==
  /\ \A j \in Jobs : /\ SF_vars(Look(j))
                     /\ WF_vars(Main(j)) /\ WF_vars(Observer(j))
  /\ \A e \in Engines : WF_vars(Engine(e))

FairSpec == Spec /\ Fairness

-----------------------------------------------------------------------------
(* Safety. *)

\* The card holds one model at a time, over stale healths, dead children,
\* unloads and loads that go on after their answer was given up, and restarts
\* that forget the resident (ADR-0007).
OneModel == Cardinality({e \in Engines : engine[e].child # None}) <= 1

(* Liveness. *)

\* Nothing frees the card: an attempt was claimed and never captured
\* (InterruptedSettles of JobQueue), ended without a terminal event, or left
\* a directory that cannot be removed (Jammed and Unanswered of JobQueue).
Held ==
  \/ \E j \in Jobs : \/ job[j].status = "claimed"
                     \/ told[j] = "running" /\ engine[EngineOf[j]].job # j
  \/ \E e \in Engines : engine[e].work = "jammed"

\* What the dispatcher remembers is not what the engines show: a model that it
\* does not own and j does not want, or a resident that is gone.
Astray(j) ==
  \/ \E e \in Engines : /\ Shows(e) # None
                        /\ Owned(e, Shows(e)) \notin {resident, Wanted(j)}
  \/ /\ resident \notin {None, Wanted(j)}
     /\ Shows(resident.engine) # resident.model

\* Only these two things keep a job waiting for ever.
WaitsOnlyAstray ==
  \A j \in Jobs : <>[]Queued(j) => <>[](Astray(j) \/ Held)
=============================================================================
