---------------------------- MODULE EngineServer ----------------------------
(***************************************************************************)
(* One engine process (apps/engines/common/engine_common): the HTTP        *)
(* handlers of server.py, the thread that runs an attempt, the supervisor  *)
(* of runtime.py and the child process of worker.py that holds the model.  *)
(*                                                                         *)
(* A block under the engine's lock is one step; validating a request,      *)
(* loading a model, reading the child's messages and removing a directory  *)
(* happen outside of it and interleave with every other handler.  A DELETE *)
(* writes to the child with the lock held, after it saw the child alive;   *)
(* unloading stops the child first and closes its pipes afterwards.  A     *)
(* write to a child that is gone fails and leaves its bytes in the buffer, *)
(* which the close of that pipe tries to write again.                      *)
(*                                                                         *)
(* Abstracted: a model stands for a pair (model_id, mode); payloads,       *)
(* artifacts and telemetry; the time limits, which may pass at any moment. *)
(***************************************************************************)
EXTENDS Naturals, Sequences

CONSTANTS
  Ids,        \* attempts that may be posted to this engine
  Models,     \* the models it has
  ModelOf,    \* ModelOf[i]: the model attempt i asks for
  Nothing,    \* no attempt, no model; as a target of /v1/load: /v1/unload
  Readers,    \* bound: the attempts whose events somebody streams
  Events,     \* bound: events of one generation
  MaxFaults   \* bound: deaths of the child and of the engine itself, kills
              \* that take too long, directories that cannot be removed

ASSUME EngineAssumption ==
  /\ ModelOf \in [Ids -> Models]
  /\ Nothing \notin Ids \cup Models
  /\ Readers \subseteq Ids
  /\ Events \in Nat
  /\ MaxFaults \in Nat

VARIABLES
  jobs,         \* the dictionary of attempts, with their events
  active,       \* the attempt whose thread has not finished
  maintenance,  \* a handler is validating, loading or unloading
  post,         \* POST /v1/jobs handlers, per attempt
  admin,        \* POST /v1/load handlers per model, /v1/unload for Nothing
  deleting,     \* the DELETE that holds the lock and has yet to write
  run,          \* the thread of each attempt
  loaded,       \* supervisor.loaded
  process,      \* supervisor.process: none, its input open or closed, killed
  unflushed,    \* a failed write left bytes in the buffer of that input
  child,        \* the child process
  inbox,        \* commands on its standard input
  messages,     \* supervisor.messages, what it answered
  output,       \* attempts whose directory exists
  stream,       \* a reader of the events of an attempt
  faults

handlers == <<post, admin, maintenance, deleting>>
supervised == <<loaded, process, unflushed, child, inbox, messages>>
vars == <<jobs, active, handlers, run, supervised, output, stream, faults>>

-----------------------------------------------------------------------------
Targets == Models \cup {Nothing}

\* Why a run fails: cancelled, out of memory, an internal error or a time
\* limit, or another error of the adapter; retryable or not, as whoever raised
\* it says.
Codes == {"cancelled", "vram", "internal", "adapter"}
TerminalsOf(code) == CASE code = "cancelled" -> {"cancelled"}
                       [] code = "vram"      -> {"fatal", "vram"}
                       [] OTHER              -> {"fatal", "retryable"}
Terminals == {"done", "cancelled", "fatal", "retryable", "vram"}

NoJob == [state |-> "none", seq |-> 0, cancelled |-> FALSE, finished |-> FALSE]
NoRun == [pc |-> "off", phase |-> "loading", code |-> "none"]
NoStream == [cursor |-> 0, ended |-> FALSE]
Dead == [up |-> FALSE, model |-> Nothing, gen |-> Nothing, thread |-> "none",
         cancelled |-> FALSE, sent |-> 0]
Born == [Dead EXCEPT !.up = TRUE]

Message == [kind: {"loaded", "event", "result", "busy", "exit"} \cup Codes,
            id: Ids \cup {Nothing}]
Command == [kind: {"load"}, of: Models] \cup
           [kind: {"generate", "cancel"}, of: Ids]

TypeOK ==
  /\ jobs \in [Ids -> [state: {"none", "loading", "busy"} \cup Terminals,
                       seq: 0..(Events + 3), cancelled: BOOLEAN,
                       finished: BOOLEAN]]
  /\ active \in Ids \cup {Nothing}
  /\ maintenance \in BOOLEAN
  /\ post \in [Ids -> {"off", "validating", "leaving"}]
  /\ admin \in [Targets -> {"off", "load", "emptying", "empty", "spawned",
                            "undoing", "leaving"}]
  /\ deleting \in Ids \cup {Nothing}
  /\ run \in [Ids -> [pc: {"off", "load", "emptying", "empty", "spawned",
                           "undoing", "ready", "clear", "created", "waiting",
                           "sealing", "sealed", "failing", "closing",
                           "jammed"},
                      phase: {"loading", "busy", "sealing"},
                      code: Codes \cup {"none"}]]
  /\ loaded \in Targets
  /\ process \in {"none", "open", "closed", "killed"}
  /\ unflushed \in BOOLEAN
  /\ child \in [up: BOOLEAN, model: Targets, gen: Ids \cup {Nothing},
                thread: {"none", "generating", "exiting"},
                cancelled: BOOLEAN, sent: 0..Events]
  /\ inbox \in Seq(Command)
  /\ messages \in Seq(Message)
  /\ output \in SUBSET Ids
  /\ stream \in [Ids -> [cursor: 0..(Events + 3), ended: BOOLEAN]]
  /\ faults \in 0..MaxFaults

Init ==
  /\ jobs = [i \in Ids |-> NoJob]
  /\ active = Nothing
  /\ maintenance = FALSE
  /\ post = [i \in Ids |-> "off"]
  /\ admin = [m \in Targets |-> "off"]
  /\ deleting = Nothing
  /\ run = [i \in Ids |-> NoRun]
  /\ loaded = Nothing
  /\ process = "none"
  /\ unflushed = FALSE
  /\ child = Dead
  /\ inbox = <<>>
  /\ messages = <<>>
  /\ output = {}
  /\ stream = [i \in Ids |-> NoStream]
  /\ faults = 0

-----------------------------------------------------------------------------
(* Handlers.                                                               *)

\* The engine's lock, which a DELETE holds while it writes.
Unlocked == deleting = Nothing

\* Mutant of Free: the attempt that runs is not looked at.
FreeOfMaintenance == ~maintenance

Free == active = Nothing /\ ~maintenance

\* submit: a known attempt is acknowledged again and a busy engine refuses;
\* neither changes anything.
Submit(i) ==
  /\ Unlocked
  /\ jobs[i].state = "none"
  /\ Free
  /\ maintenance' = TRUE
  /\ post' = [post EXCEPT ![i] = "validating"]
  /\ UNCHANGED <<jobs, active, admin, deleting, run, supervised, output,
                 stream, faults>>

\* The request is valid: the attempt is registered and its thread starts.
Register(i) ==
  /\ Unlocked
  /\ post[i] = "validating"
  /\ jobs' = [jobs EXCEPT ![i] = [NoJob EXCEPT !.state = "loading"]]
  /\ active' = i
  /\ run' = [run EXCEPT ![i] = [NoRun EXCEPT !.pc = "load"]]
  /\ post' = [post EXCEPT ![i] = "leaving"]
  /\ UNCHANGED <<admin, maintenance, deleting, supervised, output, stream,
                 faults>>

\* The finally clause of submit, also after an invalid request.
Leave(i) ==
  /\ Unlocked
  /\ post[i] \in {"validating", "leaving"}
  /\ post' = [post EXCEPT ![i] = "off"]
  /\ maintenance' = FALSE
  /\ UNCHANGED <<jobs, active, admin, deleting, run, supervised, output,
                 stream, faults>>

\* preload and unload begin.
Maintain(m) ==
  /\ Unlocked
  /\ Free
  /\ admin[m] = "off"
  /\ maintenance' = TRUE
  /\ admin' = [admin EXCEPT ![m] = "load"]
  /\ UNCHANGED <<jobs, active, post, deleting, run, supervised, output,
                 stream, faults>>

\* Their finally clause, also when the model is unknown or NVML fails.
MaintainEnd(m) ==
  /\ Unlocked
  /\ admin[m] \in {"load", "leaving"}
  /\ admin' = [admin EXCEPT ![m] = "off"]
  /\ maintenance' = FALSE
  /\ UNCHANGED <<jobs, active, post, deleting, run, supervised, output,
                 stream, faults>>

\* Mutant of MayCancel: the command is sent whatever became of the attempt.
MayCancelLate(i) == jobs[i].state # "none" /\ ~jobs[i].cancelled

\* cancel applies to an attempt without a terminal event.  While the attempt
\* runs, a second DELETE would only repeat the command and is left out; once
\* it has ended without one, every DELETE counts, and one waits until the
\* command of the last one was read.
MayCancel(i) ==
  /\ jobs[i].state \in {"loading", "busy"}
  /\ jobs[i].cancelled =>
       /\ jobs[i].finished
       /\ \A n \in 1..Len(inbox) : inbox[n].kind # "cancel"

\* The attempt is marked; a child that is alive is to be told, whatever it is
\* doing and for whom.
Cancel(i) ==
  /\ Unlocked
  /\ MayCancel(i)
  /\ jobs' = [jobs EXCEPT ![i].cancelled = TRUE]
  /\ deleting' = IF child.up THEN i ELSE Nothing
  /\ UNCHANGED <<active, post, admin, maintenance, run, supervised, output,
                 stream, faults>>

\* A write to the input of a child that died meanwhile raises: nothing was
\* written, or the bytes stay in the buffer of an input that is still open.
WriteFails == /\ ~child.up
              /\ \/ UNCHANGED unflushed
                 \/ process \in {"open", "killed"} /\ unflushed' = TRUE

\* supervisor.send of the DELETE, which answers 500 when it raises.
CancelSends(i) ==
  /\ deleting = i
  /\ deleting' = Nothing
  /\ \/ /\ child.up
        /\ inbox' = Append(inbox, [kind |-> "cancel", of |-> i])
        /\ UNCHANGED unflushed
     \/ WriteFails /\ UNCHANGED inbox
  /\ UNCHANGED <<jobs, active, post, admin, maintenance, run, loaded, process,
                 child, messages, output, stream, faults>>

\* Mutant of Batch: finished is looked at before the last batch is sent.
BatchStopsEarly(i) ==
  IF jobs[i].finished THEN [stream[i] EXCEPT !.ended = TRUE]
  ELSE [stream[i] EXCEPT !.cursor = jobs[i].seq]

\* The batch of events and finished, read together.
Batch(i) == [cursor |-> jobs[i].seq, ended |-> jobs[i].finished]

\* events: one round of the loop.
Stream(i) ==
  /\ Unlocked
  /\ i \in Readers
  /\ jobs[i].state # "none"
  /\ ~stream[i].ended
  /\ stream' = [stream EXCEPT ![i] = Batch(i)]
  /\ stream' # stream
  /\ UNCHANGED <<jobs, active, handlers, run, supervised, output, faults>>

-----------------------------------------------------------------------------
(* The supervisor, used by the run thread and by the maintenance handlers. *)

Fault == faults < MaxFaults /\ faults' = faults + 1

\* unload: the child is stopped and waited for, then its pipes are closed and
\* it is forgotten.
Terminates == /\ child.up
              /\ child' = Dead
              /\ inbox' = <<>>
              /\ UNCHANGED <<loaded, process, unflushed, messages, faults>>

Closes == /\ ~child.up
          /\ ~unflushed
          /\ process' = "none"
          /\ loaded' = Nothing
          /\ UNCHANGED <<unflushed, child, inbox, messages, faults>>

\* unload raises, and forgets nothing: the child is still not gone five
\* seconds after it was killed, or the close cannot write what a failed write
\* left in the buffer (a second close of that input does nothing).
Raises == \/ /\ Fault
             /\ child.up
             /\ process' = "killed"
             /\ UNCHANGED <<loaded, unflushed, child, inbox, messages>>
          \/ /\ ~child.up
             /\ unflushed
             /\ process' = "closed"
             /\ unflushed' = FALSE
             /\ UNCHANGED <<loaded, child, inbox, messages, faults>>

\* load: a child that holds the model is kept, any other is unloaded and
\* replaced, with a new queue of messages.  One that dies before it gets its
\* first command is like one that dies just after.
HasModel(m) == child.up /\ loaded = m

Spawn(m) == /\ child' = Born
            /\ process' = "open"
            /\ inbox' = <<[kind |-> "load", of |-> m]>>
            /\ messages' = <<>>
            /\ UNCHANGED <<loaded, unflushed>>

Head1(kinds) == messages # <<>> /\ Head(messages).kind \in kinds

LoadDone(m) == /\ Head1({"loaded"})
               /\ messages' = Tail(messages)
               /\ loaded' = m
               /\ UNCHANGED <<process, unflushed, child, inbox>>

\* The answer is an error, or does not come in time.
LoadFails == /\ \/ Head1({"internal", "exit"}) /\ messages' = Tail(messages)
                \/ UNCHANGED messages
             /\ UNCHANGED <<loaded, process, unflushed, child, inbox>>

\* preload and unload, from the unloading on.  Whatever raises is answered as
\* an error; memory that is too small raises before a child is born.
AdminStep(m) ==
  /\ LET to(pc) == admin' = [admin EXCEPT ![m] = pc]
     IN  \/ /\ admin[m] = "load"
            /\ IF m # Nothing /\ HasModel(m) THEN to("leaving")
               ELSE to("emptying")
            /\ UNCHANGED <<supervised, faults>>
         \/ /\ admin[m] \in {"emptying", "undoing"}
            /\ \/ Terminates /\ UNCHANGED admin
               \/ /\ Closes
                  /\ IF m # Nothing /\ admin[m] = "emptying" THEN to("empty")
                     ELSE to("leaving")
               \/ Raises /\ to("leaving")
         \/ /\ admin[m] = "empty"
            /\ \/ Spawn(m) /\ to("spawned")
               \/ UNCHANGED supervised /\ to("leaving")
            /\ UNCHANGED faults
         \/ /\ admin[m] = "spawned"
            /\ \/ LoadDone(m) /\ to("leaving")
               \/ LoadFails /\ to("undoing")
            /\ UNCHANGED faults
  /\ UNCHANGED <<jobs, active, maintenance, post, deleting, run, output,
                 stream>>

-----------------------------------------------------------------------------
(* The thread of an attempt.                                               *)

GoTo(i, pc) == run' = [run EXCEPT ![i].pc = pc]
Fail(i, code) == run' = [run EXCEPT ![i].pc = "failing", ![i].code = code]

Emitted(i) == [jobs EXCEPT ![i].seq = @ + 1]

\* The model is there, or it is to be loaded: a stage event comes first.
RunLoads(i) ==
  /\ run[i].pc = "load"
  /\ \/ HasModel(ModelOf[i]) /\ GoTo(i, "ready") /\ UNCHANGED jobs
     \/ /\ Unlocked
        /\ ~HasModel(ModelOf[i])
        /\ GoTo(i, "emptying")
        /\ jobs' = Emitted(i)
  /\ UNCHANGED <<active, handlers, supervised, output, stream, faults>>

RunSpawns(i) ==
  /\ run[i].pc = "empty"
  /\ \/ Spawn(ModelOf[i]) /\ GoTo(i, "spawned")
     \/ /\ UNCHANGED supervised
        /\ \E code \in {"vram", "internal"} : Fail(i, code)
  /\ UNCHANGED <<jobs, active, handlers, output, stream, faults>>

RunLoaded(i) ==
  /\ run[i].pc = "spawned"
  /\ \/ LoadDone(ModelOf[i]) /\ GoTo(i, "ready")
     \/ /\ LoadFails
        /\ \E code \in {"internal", "vram"} :
             run' = [run EXCEPT ![i].pc = "undoing", ![i].code = code]
  /\ UNCHANGED <<jobs, active, handlers, output, stream, faults>>

\* The last look at the cancellation before generating.
RunChecks(i) ==
  /\ run[i].pc = "ready"
  /\ IF jobs[i].cancelled THEN Fail(i, "cancelled") ELSE GoTo(i, "clear")
  /\ UNCHANGED <<jobs, active, handlers, supervised, output, stream, faults>>

\* The directory, unless it cannot be made; then the child is looked at.
RunCreates(i) ==
  /\ run[i].pc = "clear"
  /\ \/ /\ output' = output \cup {i}
        /\ run' = [run EXCEPT ![i].phase = "busy",
                     ![i].pc = IF child.up THEN "created" ELSE "failing",
                     ![i].code = IF child.up THEN @ ELSE "internal"]
     \/ Fail(i, "internal") /\ UNCHANGED output
  /\ UNCHANGED <<jobs, active, handlers, supervised, stream, faults>>

\* The child was alive; it may be gone when the command is written.
RunSends(i) ==
  /\ run[i].pc = "created"
  /\ \/ /\ child.up
        /\ inbox' = Append(inbox, [kind |-> "generate", of |-> i])
        /\ jobs' = [jobs EXCEPT ![i].state = "busy"]
        /\ GoTo(i, "waiting")
        /\ UNCHANGED unflushed
     \/ WriteFails /\ Fail(i, "internal") /\ UNCHANGED <<inbox, jobs>>
  /\ UNCHANGED <<active, handlers, loaded, process, child, messages, output,
                 stream, faults>>

\* A message of the child; the telemetry of a result may be invalid.
RunReceives(i) ==
  /\ run[i].pc = "waiting"
  /\ messages # <<>>
  /\ messages' = Tail(messages)
  /\ LET kind == Head(messages).kind
     IN  \/ kind = "event" /\ Unlocked /\ jobs' = Emitted(i) /\ UNCHANGED run
         \/ kind = "result" /\ Fail(i, "internal") /\ UNCHANGED jobs
         \/ /\ kind = "result"
            /\ IF jobs[i].cancelled THEN Fail(i, "cancelled")
               ELSE run' = [run EXCEPT ![i].pc = "sealing",
                                       ![i].phase = "sealing"]
            /\ UNCHANGED jobs
         \/ kind \in Codes /\ Fail(i, kind) /\ UNCHANGED jobs
         \/ kind = "busy" /\ Fail(i, "adapter") /\ UNCHANGED jobs
         \/ kind = "exit" /\ Fail(i, "internal") /\ UNCHANGED jobs
  /\ UNCHANGED <<active, handlers, loaded, process, unflushed, child, inbox,
                 output, stream, faults>>

\* Mutant of RunTimesOut: nothing limits a generation.
RunNeverTimesOut(i) == FALSE

RunTimesOut(i) ==
  /\ run[i].pc = "waiting"
  /\ Fail(i, "internal")
  /\ UNCHANGED <<jobs, active, handlers, supervised, output, stream, faults>>

\* emit of the terminal event.
Ended(i, t) == [jobs EXCEPT ![i].seq = @ + 1, ![i].state = t]

\* The artifact, unless the memory peak or the artifact is wrong.
RunSeals(i) ==
  /\ run[i].pc = "sealing"
  /\ \/ Unlocked /\ jobs' = Emitted(i) /\ GoTo(i, "sealed")
     \/ UNCHANGED jobs /\ \E code \in {"vram", "internal"} : Fail(i, code)
  /\ UNCHANGED <<active, handlers, supervised, output, stream, faults>>

RunDone(i) ==
  /\ Unlocked
  /\ run[i].pc = "sealed"
  /\ jobs' = Ended(i, "done")
  /\ GoTo(i, "closing")
  /\ UNCHANGED <<active, handlers, supervised, output, stream, faults>>

\* A failure of the child is one it does not survive.
Fatal == {"vram", "internal"}

Unloads(i) == \/ run[i].pc \in {"emptying", "undoing"}
              \/ /\ run[i].pc = "failing"
                 /\ run[i].code \in Fatal
                 /\ process # "none"

\* unload, before a child is born, after one that did not load, and in the
\* except clauses.  If it raises there, the terminal event is never written.
RunUnloads(i) ==
  /\ Unloads(i)
  /\ \/ Terminates /\ UNCHANGED run
     \/ /\ Closes
        /\ GoTo(i, IF run[i].pc = "emptying" THEN "empty" ELSE "failing")
     \/ /\ Raises
        /\ IF run[i].pc = "failing" THEN GoTo(i, "closing")
           ELSE Fail(i, "internal")
  /\ UNCHANGED <<jobs, active, handlers, output, stream>>

\* The except clauses, once nothing is left to unload.
RunFails(i) ==
  /\ Unlocked
  /\ run[i].pc = "failing"
  /\ ~Unloads(i)
  /\ \E t \in TerminalsOf(run[i].code) : jobs' = Ended(i, t)
  /\ GoTo(i, "closing")
  /\ UNCHANGED <<active, handlers, supervised, output, stream, faults>>

\* The finally clause: anything but a success is removed from the disk.
RunCloses(i) ==
  /\ Unlocked
  /\ run[i].pc = "closing"
  /\ output' = IF jobs[i].state = "done" THEN output ELSE output \ {i}
  /\ active' = Nothing
  /\ jobs' = [jobs EXCEPT ![i].finished = TRUE]
  /\ run' = [run EXCEPT ![i] = NoRun]
  /\ UNCHANGED <<handlers, supervised, stream, faults>>

\* The removal raises: the thread is gone, the attempt remains the active one.
RunJams(i) ==
  /\ Fault
  /\ run[i].pc = "closing"
  /\ jobs[i].state # "done"
  /\ i \in output
  /\ output' \in {output, output \ {i}}
  /\ GoTo(i, "jammed")
  /\ UNCHANGED <<jobs, active, handlers, supervised, stream>>

Run(i) == \/ RunLoads(i) \/ RunSpawns(i) \/ RunLoaded(i) \/ RunChecks(i)
          \/ RunCreates(i) \/ RunSends(i) \/ RunReceives(i)
          \/ RunTimesOut(i) \/ RunSeals(i) \/ RunDone(i) \/ RunUnloads(i)
          \/ RunFails(i) \/ RunCloses(i)

-----------------------------------------------------------------------------
(* The child process: its command loop and its generating thread.          *)

\* A child that was killed does nothing more, gone or not.
Works == child.up /\ process # "killed"

Say(kind, i) == messages' = Append(messages, [kind |-> kind, id |-> i])

ChildReads ==
  /\ Works
  /\ inbox # <<>>
  /\ inbox' = Tail(inbox)
  /\ LET kind == Head(inbox).kind
         of   == Head(inbox).of
     IN  \/ /\ kind = "load"
            /\ \/ /\ child' = [child EXCEPT !.model = of]
                  /\ Say("loaded", Nothing)
               \/ UNCHANGED child /\ Say("internal", Nothing)
         \/ /\ kind = "generate"
            /\ IF child.thread = "none"
               THEN /\ child' = [child EXCEPT !.gen = of, !.sent = 0,
                                              !.cancelled = FALSE,
                                              !.thread = "generating"]
                    /\ UNCHANGED messages
               ELSE UNCHANGED child /\ Say("busy", of)
         \/ /\ kind = "cancel"
            /\ child' = [child EXCEPT !.cancelled = child.gen # Nothing]
            /\ UNCHANGED messages
  /\ UNCHANGED <<jobs, active, handlers, run, loaded, process, unflushed,
                 output, stream, faults>>

\* A token that was cancelled stops the adapter at its next check.
ChildGenerates ==
  /\ Works
  /\ child.thread = "generating"
  /\ \/ /\ child.sent < Events
        /\ child' = [child EXCEPT !.sent = @ + 1]
        /\ Say("event", child.gen)
     \/ /\ child' = [child EXCEPT !.thread = "exiting"]
        /\ \/ ~child.cancelled /\ Say("result", child.gen)
           \/ \E code \in Codes : /\ code = "cancelled" => child.cancelled
                                  /\ Say(code, child.gen)
  /\ UNCHANGED <<jobs, active, handlers, run, loaded, process, unflushed,
                 inbox, output, stream, faults>>

\* The thread is alive a little longer than its last message.
ChildThreadExits ==
  /\ Works
  /\ child.thread = "exiting"
  /\ child' = [child EXCEPT !.thread = "none"]
  /\ UNCHANGED <<jobs, active, handlers, run, loaded, process, unflushed,
                 inbox, messages, output, stream, faults>>

ChildDies ==
  /\ \/ Fault
     \/ process = "killed" /\ UNCHANGED faults
  /\ child.up
  /\ child' = Dead
  /\ inbox' = <<>>
  /\ Say("exit", Nothing)
  /\ UNCHANGED <<jobs, active, handlers, run, loaded, process, unflushed,
                 output, stream>>

\* The engine process dies, and its child with it.
Crash ==
  /\ Fault
  /\ jobs' = [i \in Ids |-> NoJob]
  /\ active' = Nothing
  /\ maintenance' = FALSE
  /\ post' = [i \in Ids |-> "off"]
  /\ admin' = [m \in Targets |-> "off"]
  /\ deleting' = Nothing
  /\ run' = [i \in Ids |-> NoRun]
  /\ loaded' = Nothing
  /\ process' = "none"
  /\ unflushed' = FALSE
  /\ child' = Dead
  /\ inbox' = <<>>
  /\ messages' = <<>>
  /\ stream' = [i \in Ids |-> NoStream]
  /\ UNCHANGED output

-----------------------------------------------------------------------------
Next ==
  \/ \E i \in Ids : Submit(i) \/ Register(i) \/ Leave(i) \/ Cancel(i)
                    \/ CancelSends(i) \/ Stream(i) \/ Run(i) \/ RunJams(i)
  \/ \E m \in Targets : Maintain(m) \/ AdminStep(m) \/ MaintainEnd(m)
  \/ ChildReads \/ ChildGenerates \/ ChildThreadExits
  \/ ChildDies \/ Crash

\* Handlers, threads and the child are scheduled; a generation that never ends
\* is stopped by its time limit.  A DELETE holds the lock for a moment, and
\* whoever waits for the lock gets it however many of them come.  Requests
\* come when they come.
Fairness ==
  /\ \A i \in Ids : /\ SF_vars(Register(i) \/ Leave(i)) /\ SF_vars(Run(i))
                    /\ WF_vars(CancelSends(i))
  /\ \A m \in Targets : WF_vars(AdminStep(m)) /\ SF_vars(MaintainEnd(m))

Spec == Init /\ [][Next]_vars
FairSpec == Spec /\ Fairness

-----------------------------------------------------------------------------
\* The contract, as JobQueue uses it.
State(i) ==
  IF post[i] = "validating" THEN "validating"
  ELSE IF jobs[i].state = "none" THEN "absent"
  ELSE IF jobs[i].finished THEN "ended"
  ELSE IF run[i].pc = "jammed" THEN "jammed"
  ELSE IF jobs[i].state \in Terminals THEN "closing"
  ELSE run[i].phase

Contract == INSTANCE EngineContract WITH
  Attempts <- Ids,
  Home     <- [i \in Ids |-> "engine"],
  Progress <- [i \in Ids |-> Events + 2],
  remote   <- [i \in Ids |-> [state    |-> State(i),
                              seq      |-> jobs[i].seq,
                              terminal |-> IF jobs[i].state \in Terminals
                                           THEN jobs[i].state ELSE "none",
                              cancel   |-> jobs[i].cancelled]],
  output   <- output

\* The handlers, threads and the child together keep the contract the server
\* relies on: one run at a time, registered once, its one terminal event what
\* the contract allows, its directory removed before the engine is idle again.
\* A run that ends without a terminal event, and one that never ends, are the
\* contract's Abandon and Jam.
KeepsContract == Contract!EngineSpec

\* Whatever was accepted comes to its end (or dies with the process), even
\* when the child stays silent, unless its directory could not be removed:
\* this is what JobQueue's fairness rests on.
RunEnds ==
  \A i \in Ids : State(i) \notin {"absent", "ended", "jammed"}
                   ~> State(i) \in {"absent", "ended", "jammed"}

\* One user of the supervisor at a time: preload, unload or the run.
OneSupervisor ==
  LET busy == {m \in Targets : admin[m] \notin {"off", "leaving"}}
      running == {i \in Ids : run[i].pc # "off"}
  IN  /\ \A m, n \in busy : m = n
      /\ \A i, k \in running : i = k
      /\ busy # {} => running = {}

\* The run ended without a terminal event.
Abandoned(i) == jobs[i].finished /\ jobs[i].state \notin Terminals

\* Somebody asked to cancel the attempt, or one that was abandoned, whose
\* DELETE is sent to the child of whoever runs.
Meant(i) == \/ jobs[i].cancelled
            \/ \E k \in Ids : Abandoned(k) /\ jobs[k].cancelled

\* A generation is cancelled only when it was meant: a late command never
\* reaches the token of the next one.
NoStrayCancel ==
  child.thread = "generating" /\ child.cancelled => Meant(child.gen)

\* A run reads the messages of its own generation only: those of a child that
\* was replaced, or of the attempt before, are never taken for its own, unless
\* that child could not be killed.
OwnMessages ==
  process # "killed" =>
    \A i \in Ids : run[i].pc = "waiting" =>
      \A n \in 1..Len(messages) : messages[n].id \in {i, Nothing}

\* The child generates with the model the attempt asked for.
RightModel ==
  child.thread = "generating" => child.model = ModelOf[child.gen]

\* The one child serves the run it was started for: nobody else uses its
\* supervisor meanwhile, it is cancelled only when that was meant, its messages
\* are of that attempt and its model the one that was asked for.
ChildServesRun == OneSupervisor /\ NoStrayCancel /\ OwnMessages /\ RightModel

\* Nothing failed and nobody cancelled anything.
Undisturbed == faults = 0 /\ \A i \in Ids : ~jobs[i].cancelled

\* A stream that ends has delivered everything, and the terminal event is
\* missing only where something failed or a DELETE came while the child was
\* being stopped.
StreamComplete ==
  \A i \in Ids : stream[i].ended =>
    /\ stream[i].cursor = jobs[i].seq
    /\ Undisturbed => jobs[i].state \in Terminals
=============================================================================
