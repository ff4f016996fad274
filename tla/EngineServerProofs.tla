------------------------- MODULE EngineServerProofs -------------------------
(***************************************************************************)
(* Safety of the engine process, for every set of attempts and models and  *)
(* any number of events and faults: the one child serves the run it was    *)
(* started for, a stream that ends was complete, and handlers, threads and *)
(* child together keep EngineContract.                                     *)
(*                                                                         *)
(* Nothing ties a message to the generation it is of but the order of the  *)
(* two pipes; most of the invariant says what may be in them.              *)
(***************************************************************************)
EXTENDS EngineServer, SequenceTheorems, TLAPS

-----------------------------------------------------------------------------
(* The engine has one user at a time.                                      *)

\* A thread belongs to the active attempt, and a handler holds the engine
\* against every other one: it is validating, or maintains the supervisor,
\* only while nothing runs.
Users ==
  /\ \A i \in Ids : run[i].pc # "off" <=> active = i
  /\ \A i \in Ids : post[i] # "off" =>
       /\ maintenance
       /\ \A k \in Ids \ {i} : post[k] = "off"
       /\ \A m \in Targets : admin[m] = "off"
  /\ \A i \in Ids : post[i] = "validating" =>
       active = Nothing /\ jobs[i] = NoJob
  /\ \A m \in Targets : admin[m] # "off" =>
       /\ maintenance /\ active = Nothing
       /\ \A n \in Targets \ {m} : admin[n] = "off"
  /\ admin[Nothing] \in {"off", "load", "emptying", "leaving"}

\* What the place of a thread says of its attempt.
Before == {"load", "emptying", "empty", "spawned", "undoing", "ready",
           "clear", "created"}

Progress(i) ==
  CASE run[i].pc = "off" ->
         jobs[i] = NoJob \/ (jobs[i].state # "none" /\ jobs[i].finished)
    [] run[i].pc \in Before ->
         /\ jobs[i].state = "loading" /\ jobs[i].seq <= 1
         /\ run[i].pc = "load" => jobs[i].seq = 0
         /\ run[i].pc = "undoing" => run[i].code \in Fatal
         /\ run[i].phase = IF run[i].pc = "created" THEN "busy" ELSE "loading"
    [] run[i].pc = "waiting" ->
         /\ jobs[i].state = "busy" /\ jobs[i].seq <= Events + 1
         /\ run[i].phase = "busy"
    [] run[i].pc \in {"sealing", "sealed"} ->
         /\ jobs[i].state = "busy" /\ run[i].phase = "sealing"
         /\ jobs[i].seq <= Events + (IF run[i].pc = "sealed" THEN 2 ELSE 1)
    [] run[i].pc = "failing" ->
         /\ jobs[i].state \in {"loading", "busy"}
         /\ jobs[i].seq <= Events + 1
         /\ run[i].code \in Codes
         /\ run[i].code = "cancelled" => Meant(i) /\ run[i].phase # "sealing"
    [] run[i].pc \in {"closing", "jammed"} -> jobs[i].state # "none"

\* Every attempt is where its thread is, and a DELETE holds the lock for one
\* without a terminal event.
Threads ==
  \A i \in Ids : /\ Progress(i)
                 /\ run[i].pc # "off" => ~jobs[i].finished
                 /\ deleting = i => /\ jobs[i].cancelled
                                    /\ jobs[i].state \in {"loading", "busy"}

-----------------------------------------------------------------------------
(* The child and what it was asked for.                                    *)

\* A child that can do something.
Alive == child.up /\ process = "open"

\* Nothing but cancels is left to read.
OnlyCancels == \A n \in 1..Len(inbox) : inbox[n].kind = "cancel"

\* Somebody waits until the child has loaded m.
Loading(m) == \/ admin[m] = "spawned"
              \/ \E i \in Ids : run[i].pc = "spawned" /\ ModelOf[i] = m

\* Somebody unloads a child that did not load.
Undoing == \/ \E m \in Models : admin[m] = "undoing"
           \/ \E i \in Ids : run[i].pc = "undoing"

\* Somebody has no child, and is about to start one.
Empty == \/ \E m \in Models : admin[m] = "empty"
         \/ \E i \in Ids : run[i].pc = "empty"

\* The child may be generating for i, or is about to be stopped.
Working(i) == \/ run[i].pc = "waiting"
              \/ run[i].pc = "failing" /\ run[i].code \in Fatal

\* The child that i uses, while there is one, was loaded for it.
Prepared == {"ready", "clear", "created"}
Equipped(i) == run[i].pc \in Prepared \cup {"sealing"} \/ Working(i)

\* What the supervisor remembers of its child.
Pipes ==
  /\ process \in {"none", "closed"} => ~child.up /\ ~unflushed
  /\ process = "none" => loaded = Nothing
  /\ unflushed => ~child.up
  /\ Empty => process = "none"
  /\ Undoing \/ (\E m \in Models : Loading(m)) => process = "open"

\* A child that nobody waits for has nothing to do and nothing to say.
Rests ==
  Alive /\ ~Undoing /\ (\A m \in Models : ~Loading(m))
        /\ (\A i \in Ids : ~Working(i))
  => messages = <<>> /\ child.thread # "generating" /\ OnlyCancels

\* A child that is loading reads its command, and says how it went.
Loads == \A m \in Models : Loading(m) /\ Alive =>
  /\ loaded = Nothing /\ child.thread = "none"
  /\ \/ /\ inbox # <<>> /\ inbox[1] = [kind |-> "load", of |-> m]
        /\ \A n \in 2..Len(inbox) : inbox[n].kind = "cancel"
        /\ messages = <<>>
     \/ /\ OnlyCancels /\ Len(messages) = 1
        /\ messages[1].kind \in {"loaded", "internal"}
        /\ messages[1].kind = "loaded" => child.model = m

\* One that did not load in time may still do so.
Undoes == Undoing /\ Alive =>
  /\ loaded = Nothing /\ child.thread = "none"
  /\ \A n \in 1..Len(inbox) : inbox[n].kind # "generate"
  /\ \A n \in 1..Len(messages) : messages[n].kind \in {"loaded", "internal"}

\* The command to generate is on its way; what comes after it was meant.
Commanded(i) == \E n \in 1..Len(inbox) :
  /\ inbox[n] = [kind |-> "generate", of |-> i]
  /\ \A k \in 1..Len(inbox) : k # n => inbox[k].kind = "cancel"
  /\ n < Len(inbox) => Meant(i)
  /\ child.thread # "generating"

\* The child generates; whatever cancels it was meant for this attempt.
Generates(i) ==
  /\ child.thread = "generating" /\ child.gen = i
  /\ OnlyCancels
  /\ (inbox # <<>> \/ child.cancelled) => Meant(i)

\* What a run may read is about its attempt, unless its child could not be
\* killed: as many events as fit, and cancelled only if it was meant.
Told(i) == \A n \in 1..Len(messages) :
  /\ process # "killed" => messages[n].id \in {i, Nothing}
  /\ messages[n].kind = "event" => jobs[i].seq + n <= Events + 1
  /\ messages[n].kind = "cancelled" => Meant(i)

\* A child that is alive has not started yet, is at its events, or has said
\* how it ended, and nothing after that.
Unread(i) == Commanded(i) /\ messages = <<>> /\ jobs[i].seq <= 1

\* It is at its events.
Tells(i) ==
  /\ Generates(i)
  /\ jobs[i].seq + Len(messages) <= child.sent + 1
  /\ \A n \in 1..Len(messages) : messages[n].kind = "event"

\* It is done.
Rested == child.thread # "generating" /\ OnlyCancels

\* It has said how it ended.
HasTold ==
  /\ Rested
  /\ messages # <<>> /\ messages[Len(messages)].kind # "event"
  /\ \A n \in 1..Len(messages) :
       n # Len(messages) => messages[n].kind = "event"

\* A child that is to generate waits for the command, does it, or is done.
Serves == \A i \in Ids : Working(i) /\ Alive =>
  Told(i) /\ (Unread(i) \/ Tells(i) \/ Rested)

\* What the run that waits has to be told.
Heard(i) == Told(i) /\ (Alive => Unread(i) \/ Tells(i) \/ HasTold)

\* The attempt is over, or as good as over, without a terminal event.
Silent(i) == /\ jobs[i].state \in {"loading", "busy"}
             /\ jobs[i].finished \/ run[i].pc \in {"closing", "jammed"}

\* What is left of a child that could not be killed: the generation it was at,
\* and messages that the next run may take for its own.
Stale == process = "killed" =>
  /\ child.thread = "generating" =>
       /\ child.gen \in Ids /\ child.model = ModelOf[child.gen]
       /\ child.cancelled => Meant(child.gen)
  /\ \A n \in 1..Len(messages) :
       /\ messages[n].kind = "event" => n <= Events + 1
       /\ messages[n].kind = "cancelled" =>
            \E k \in Ids : jobs[k].cancelled /\ Silent(k)
  /\ \A i \in Ids : run[i].pc \in Prepared => jobs[i].seq = 0

\* The child and its pipes.
Child ==
  /\ ~child.up => child = Dead /\ inbox = <<>>
  /\ Alive /\ loaded # Nothing => child.model = loaded
  /\ \A i \in Ids : Equipped(i) /\ Alive => loaded = ModelOf[i]
  /\ Rests /\ Loads /\ Undoes /\ Serves
  /\ \A i \in Ids : run[i].pc = "waiting" => Heard(i)
  /\ Stale /\ Pipes

\* Where nothing failed and nobody cancelled, the child is there and no run
\* ends without its terminal event.
Calm == Undisturbed =>
  /\ process # "killed" /\ ~unflushed
  /\ \A i \in Ids : /\ run[i].pc \in Prepared \cup {"spawned"} => child.up
                    /\ ~Silent(i)

\* A stream that ended has nothing left to send.
Streams == \A i \in Ids : stream[i].ended =>
  jobs[i].finished /\ stream[i].cursor = jobs[i].seq

\* The inductive invariant.
IInv == TypeOK /\ Users /\ Threads /\ Child /\ Calm /\ Streams

-----------------------------------------------------------------------------
(* Facts about sequences, and what the types say.                          *)

\* A queue with one more element.
LEMMA AppendAt ==
  ASSUME NEW S, NEW s \in Seq(S), NEW e \in S
  PROVE  /\ Append(s, e) \in Seq(S) /\ Append(s, e) # <<>>
         /\ Len(Append(s, e)) = Len(s) + 1 /\ Len(s) \in Nat
         /\ \A n \in 1..Len(s) : Append(s, e)[n] = s[n]
         /\ Append(s, e)[Len(s) + 1] = e
BY AppendProperties, LenProperties

\* A queue without its first element.
LEMMA TailAt ==
  ASSUME NEW S, NEW s \in Seq(S), s # <<>>
  PROVE  /\ Tail(s) \in Seq(S)
         /\ Len(Tail(s)) = Len(s) - 1 /\ Len(s) \in Nat \ {0}
         /\ Head(s) = s[1] /\ s[1] \in S
         /\ \A n \in 1..Len(Tail(s)) :
              Tail(s)[n] = s[n + 1] /\ n + 1 \in 1..Len(s)
<1>1. Len(s) \in Nat \ {0}
  BY EmptySeq, LenProperties
<1>2. Tail(s) \in Seq(S) /\ Len(Tail(s)) = Len(s) - 1 /\ Head(s) = s[1]
  BY HeadTailProperties
<1>3. s[1] \in S
  BY <1>1, ElementOfSeq
<1>4. \A n \in 1..Len(Tail(s)) : Tail(s)[n] = s[n + 1] /\ n + 1 \in 1..Len(s)
  BY <1>1, <1>2
<1> QED BY <1>1, <1>2, <1>3, <1>4

\* A queue of one element.
LEMMA OneAt ==
  ASSUME NEW S, NEW e \in S
  PROVE  /\ <<e>> \in Seq(S) /\ Len(<<e>>) = 1 /\ <<e>>[1] = e
         /\ <<e>> # <<>>
OBVIOUS

\* An empty queue.
LEMMA NoneAt ==
  ASSUME NEW S
  PROVE  <<>> \in Seq(S) /\ Len(<<>>) = 0 /\ 1..Len(<<>>) = {}
OBVIOUS

\* The rows of TypeOK.
JobRow == [state: {"none", "loading", "busy"} \cup Terminals,
           seq: 0..(Events + 3), cancelled: BOOLEAN, finished: BOOLEAN]
Thread == [pc: {"off", "load", "emptying", "empty", "spawned", "undoing",
                "ready", "clear", "created", "waiting", "sealing", "sealed",
                "failing", "closing", "jammed"},
           phase: {"loading", "busy", "sealing"},
           code: Codes \cup {"none"}]
ChildRow == [up: BOOLEAN, model: Targets, gen: Ids \cup {Nothing},
             thread: {"none", "generating", "exiting"},
             cancelled: BOOLEAN, sent: 0..Events]
Reader == [cursor: 0..(Events + 3), ended: BOOLEAN]

\* The supervisor and its child are well formed.
Shaped ==
  /\ loaded \in Targets /\ process \in {"none", "open", "closed", "killed"}
  /\ unflushed \in BOOLEAN /\ child \in ChildRow
  /\ inbox \in Seq(Command) /\ messages \in Seq(Message)

\* TypeOK, in those words.
LEMMA Types ==
  TypeOK <=>
    /\ jobs \in [Ids -> JobRow] /\ run \in [Ids -> Thread]
    /\ stream \in [Ids -> Reader] /\ Shaped
    /\ active \in Ids \cup {Nothing} /\ maintenance \in BOOLEAN
    /\ post \in [Ids -> {"off", "validating", "leaving"}]
    /\ admin \in [Targets -> {"off", "load", "emptying", "empty", "spawned",
                              "undoing", "leaving"}]
    /\ deleting \in Ids \cup {Nothing}
    /\ output \in SUBSET Ids /\ faults \in 0..MaxFaults
BY DEF TypeOK, Shaped, JobRow, Thread, Reader, ChildRow

\* What an unused entry looks like.
LEMMA Shapes ==
  /\ NoJob \in JobRow /\ NoRun \in Thread /\ NoStream \in Reader
  /\ Dead \in ChildRow /\ Born \in ChildRow
  /\ \A m \in Models : [kind |-> "load", of |-> m] \in Command
  /\ \A i \in Ids : /\ [kind |-> "generate", of |-> i] \in Command
                    /\ [kind |-> "cancel", of |-> i] \in Command
  /\ \A m \in Models : m # Nothing /\ m \in Targets
  /\ \A i \in Ids : i # Nothing /\ ModelOf[i] \in Models
  /\ Nothing \in Targets /\ Events \in Nat
<1>1. Events \in Nat /\ 0 \in 0..Events /\ 0 \in 0..(Events + 3)
  BY EngineAssumption
<1>2. NoJob \in JobRow /\ NoRun \in Thread /\ NoStream \in Reader
  BY <1>1 DEF NoJob, JobRow, NoRun, Thread, NoStream, Reader
<1>3. Dead \in ChildRow
  BY <1>1 DEF Dead, ChildRow, Targets
<1>4. Born \in ChildRow
  BY <1>3 DEF Born, ChildRow
<1>5. /\ \A m \in Models : [kind |-> "load", of |-> m] \in Command
      /\ \A i \in Ids : /\ [kind |-> "generate", of |-> i] \in Command
                        /\ [kind |-> "cancel", of |-> i] \in Command
  BY DEF Command
<1> QED BY <1>1, <1>2, <1>3, <1>4, <1>5, EngineAssumption DEF Targets

\* What was asked to be cancelled, or ended without a terminal event, stays so.
Remembers == \A k \in Ids :
  /\ Meant(k) => Meant(k)'
  /\ jobs[k].cancelled /\ Silent(k) => jobs'[k].cancelled /\ Silent(k)'

\* Where nothing happens to the attempts, all of it stays so.
LEMMA SameMemory == UNCHANGED <<jobs, run>> => Remembers
BY DEF Remembers, Meant, Abandoned, Silent

\* A thread that has not closed leaves what is known of the others alone.
LEMMA ThreadMemory ==
  ASSUME TypeOK, NEW i \in Ids, NEW r, NEW b,
         ~jobs[i].finished, run[i].pc \notin {"closing", "jammed"},
         jobs[i].cancelled => b.cancelled,
         run' = [run EXCEPT ![i] = r], jobs' = [jobs EXCEPT ![i] = b]
  PROVE  Remembers
<1>1. /\ jobs'[i] = b
      /\ \A k \in Ids \ {i} : run'[k] = run[k] /\ jobs'[k] = jobs[k]
  BY Types
<1>2. ~Silent(i) /\ ~Abandoned(i)
  BY DEF Silent, Abandoned
<1>3. \A k \in Ids : /\ jobs[k].cancelled => jobs'[k].cancelled
                     /\ Abandoned(k) => Abandoned(k)'
                     /\ Silent(k) => Silent(k)'
  BY <1>1, <1>2 DEF Abandoned, Silent
<1> QED BY <1>3 DEF Remembers, Meant

\* A step of the thread of one attempt, whose handlers stand still, leaves the
\* other attempts alone.
LEMMA OneThread ==
  ASSUME TypeOK, Users, Threads, Streams, NEW i \in Ids, NEW r \in Thread,
         NEW b \in JobRow,
         run[i].pc # "off", r.pc # "off", ~b.finished,
         deleting = i => b.cancelled /\ b.state \in {"loading", "busy"},
         run' = [run EXCEPT ![i] = r], jobs' = [jobs EXCEPT ![i] = b],
         UNCHANGED <<active, handlers, stream>>,
         Progress(i)'
  PROVE  Users' /\ Threads' /\ Streams'
<1>1. /\ run'[i] = r /\ jobs'[i] = b
      /\ \A k \in Ids \ {i} : run'[k] = run[k] /\ jobs'[k] = jobs[k]
  BY Types
<1>2. active = i /\ ~jobs[i].finished
  BY DEF Users, Threads
<1>3. Users'
  BY <1>1, <1>2, Shapes DEF Users, handlers
<1>4. Threads'
  <2> SUFFICES ASSUME NEW k \in Ids
               PROVE  /\ Progress(k)'
                      /\ run'[k].pc # "off" => ~jobs'[k].finished
                      /\ deleting' = k => /\ jobs'[k].cancelled
                                          /\ jobs'[k].state
                                               \in {"loading", "busy"}
    BY DEF Threads
  <2>1. CASE k = i
    <3>1. Progress(k)'
      BY <2>1
    <3>2. ~jobs'[k].finished
      BY <1>1, <2>1
    <3>3. deleting' = k => b.cancelled /\ b.state \in {"loading", "busy"}
      BY <2>1 DEF handlers
    <3> QED BY <1>1, <2>1, <3>1, <3>2, <3>3
  <2>2. CASE k # i
    <3>1. run'[k] = run[k] /\ jobs'[k] = jobs[k] /\ deleting' = deleting
      BY <1>1, <2>2 DEF handlers
    <3>2. /\ Progress(k) /\ run[k].pc = "off"
          /\ deleting = k => jobs[k].cancelled
                             /\ jobs[k].state \in {"loading", "busy"}
      BY <1>2, <2>2 DEF Threads, Users
    <3>3. jobs[k] = NoJob \/ (jobs[k].state # "none" /\ jobs[k].finished)
      BY <3>2 DEF Progress, Before
    <3>4. Progress(k)'
      BY <3>1, <3>2, <3>3 DEF Progress, Before
    <3> QED BY <3>1, <3>2, <3>4
  <2> QED BY <2>1, <2>2
<1>5. Streams'
  BY <1>1, <1>2 DEF Streams
<1> QED BY <1>3, <1>4, <1>5

\* Nor does a step of the child or of the supervisor touch any of it.
LEMMA NoThread ==
  ASSUME Users, Threads, Streams,
         UNCHANGED <<jobs, active, handlers, run, stream>>
  PROVE  Users' /\ Threads' /\ Streams'
<1>1. Users' /\ Streams'
  BY DEF Users, Streams, handlers
<1>2. \A i \in Ids : Progress(i)' = Progress(i)
  BY DEF Progress, Meant, Abandoned
<1>3. Threads'
  BY <1>2 DEF Threads, handlers
<1> QED BY <1>1, <1>3

\* Who uses the supervisor.
LEMMA OneUser ==
  ASSUME TypeOK, Users
  PROVE  /\ \A i \in Ids : Equipped(i) => active = i
         /\ \A i \in Ids : Working(i) => Equipped(i) /\ active = i
         /\ \A i \in Ids : Equipped(i) => ~Undoing /\ ~Empty
         /\ \A i \in Ids, m \in Models : Equipped(i) => ~Loading(m)
         /\ \A m, n \in Models : Loading(m) /\ Loading(n) => m = n
         /\ \A m \in Models : Loading(m) => ~Undoing /\ ~Empty
         /\ Undoing => ~Empty
<1>1. \A i \in Ids : Equipped(i) =>
        active = i /\ run[i].pc \notin {"spawned", "undoing", "empty"}
  BY DEF Users, Equipped, Working, Prepared
<1>2. \A i \in Ids : Working(i) => Equipped(i)
  BY DEF Equipped
<1>3. ASSUME NEW i \in Ids, NEW m \in Models, Equipped(i), Loading(m)
      PROVE  FALSE
  BY <1>1, <1>3, Shapes DEF Users, Loading
<1>4. ASSUME NEW m \in Models, NEW n \in Models, Loading(m), Loading(n)
      PROVE  m = n
  BY <1>4, Shapes DEF Users, Loading
<1>5. ASSUME NEW i \in Ids, Equipped(i) PROVE ~Undoing /\ ~Empty
  BY <1>1, <1>5, Shapes DEF Users, Undoing, Empty
<1>6. ASSUME NEW m \in Models, Loading(m) PROVE ~Undoing /\ ~Empty
  BY <1>6, Shapes DEF Users, Undoing, Empty, Loading
<1>7. Undoing => ~Empty
  BY Shapes DEF Users, Undoing, Empty
<1> QED BY <1>1, <1>2, <1>3, <1>4, <1>5, <1>6, <1>7

\* The child and what passes between it and the supervisor stay as they are.
LEMMA SupervisorStays ==
  ASSUME TypeOK, Child, UNCHANGED supervised, Remembers,
         \A m \in Models : Loading(m)' <=> Loading(m),
         Undoing' <=> Undoing, Empty' => process = "none",
         \A i \in Ids : Working(i)' /\ Alive =>
           \/ Working(i) /\ jobs'[i].seq = jobs[i].seq
           \/ messages = <<>> /\ Rested,
         \A i \in Ids : Working(i) /\ Alive => \E k \in Ids : Working(k)',
         \A i \in Ids : Equipped(i)' /\ Alive => loaded = ModelOf[i],
         \A i \in Ids : run'[i].pc = "waiting" =>
           run[i].pc = "waiting" /\ jobs'[i].seq = jobs[i].seq,
         process = "killed" => \A i \in Ids :
           run'[i].pc \in Prepared => jobs'[i].seq = 0
  PROVE  Child'
<1>0. /\ UNCHANGED <<loaded, process, unflushed, child, inbox, messages>>
      /\ Alive' <=> Alive
  BY DEF supervised, Alive
<1>1. (OnlyCancels' <=> OnlyCancels) /\ (Rested' <=> Rested)
      /\ (HasTold' <=> HasTold)
  BY <1>0 DEF OnlyCancels, Rested, HasTold
<1>2. Rests'
  BY <1>0, <1>1 DEF Child, Rests, Rested
<1>3. Loads' /\ Undoes'
  BY <1>0, <1>1 DEF Child, Loads, Undoes
<1>4. ASSUME NEW i \in Ids
      PROVE  /\ Commanded(i) => Commanded(i)'
             /\ Generates(i) => Generates(i)'
  BY <1>0, <1>1 DEF Commanded, Generates, Remembers
<1>5. ASSUME NEW i \in Ids, jobs'[i].seq = jobs[i].seq
      PROVE  /\ Told(i) => Told(i)'
             /\ Unread(i) => Unread(i)'
             /\ Tells(i) => Tells(i)'
  BY <1>0, <1>4, <1>5 DEF Told, Unread, Tells, Remembers
<1>6. Serves'
  <2> SUFFICES ASSUME NEW i \in Ids, Working(i)', Alive
               PROVE  Told(i)' /\ (Unread(i)' \/ Tells(i)' \/ Rested')
    BY <1>0 DEF Serves
  <2>1. CASE Working(i) /\ jobs'[i].seq = jobs[i].seq
    <3>1. Told(i) /\ (Unread(i) \/ Tells(i) \/ Rested)
      BY <2>1 DEF Child, Serves
    <3> QED BY <1>1, <1>5, <2>1, <3>1
  <2>2. CASE messages = <<>> /\ Rested
    BY <1>0, <1>1, <2>2, NoneAt DEF Told
  <2> QED BY <2>1, <2>2
<1>7. ASSUME NEW i \in Ids, run'[i].pc = "waiting" PROVE Heard(i)'
  <2>1. Heard(i) /\ jobs'[i].seq = jobs[i].seq
    BY <1>7 DEF Child
  <2>2. Told(i)' /\ (Alive => Unread(i)' \/ Tells(i)' \/ HasTold')
    BY <1>1, <1>5, <2>1 DEF Heard
  <2> QED BY <1>0, <2>2 DEF Heard
<1>8. \A i \in Ids : Equipped(i)' /\ Alive' => loaded' = ModelOf[i]
  BY <1>0
<1>9. Stale'
  <2> SUFFICES ASSUME process = "killed" PROVE Stale'
    BY <1>0 DEF Stale
  <2>1. ASSUME child.thread = "generating"
        PROVE  /\ child.gen \in Ids /\ child.model = ModelOf[child.gen]
               /\ child'.cancelled => Meant(child.gen)'
    <3>1. PICK g \in Ids : g = child.gen
      BY <2>1 DEF Child, Stale
    <3>2. child.model = ModelOf[g] /\ (child.cancelled => Meant(g)')
      BY <2>1, <3>1 DEF Child, Stale, Remembers
    <3> QED BY <1>0, <3>1, <3>2 DEF Meant
  <2>2. \A n \in 1..Len(messages) :
          /\ messages[n].kind = "event" => n <= Events + 1
          /\ messages[n].kind = "cancelled" =>
               \E k \in Ids : jobs'[k].cancelled /\ Silent(k)'
    BY DEF Child, Stale, Remembers
  <2> QED BY <1>0, <2>1, <2>2 DEF Stale
<1>10. Pipes'
  BY <1>0 DEF Child, Pipes
<1> QED BY <1>0, <1>2, <1>3, <1>6, <1>7, <1>8, <1>9, <1>10 DEF Child

\* Everybody uses the supervisor and its child as before.
SameUse ==
  /\ \A m \in Models : Loading(m)' <=> Loading(m)
  /\ Undoing' <=> Undoing
  /\ Empty' <=> Empty
  /\ \A i \in Ids : /\ Working(i)' <=> Working(i)
                    /\ Equipped(i)' => Equipped(i)
                    /\ run'[i].pc = "waiting" => run[i].pc = "waiting"

\* As for the thread of one attempt that does not use the child.
LEMMA SupervisorUnseen ==
  ASSUME TypeOK, Child, UNCHANGED supervised, Remembers, SameUse,
         \A i \in Ids : Working(i) => jobs'[i].seq = jobs[i].seq,
         process = "killed" => \A i \in Ids :
           run'[i].pc \in Prepared => jobs'[i].seq = 0
  PROVE  Child'
<1>1. \A i \in Ids : run[i].pc = "waiting" => Working(i)
  BY DEF Working
<1>2. \A i \in Ids : Equipped(i)' /\ Alive => loaded = ModelOf[i]
  BY DEF Child, SameUse
<1>3. Empty' => process = "none"
  BY DEF Child, Pipes, SameUse
<1> QED BY <1>1, <1>2, <1>3, SupervisorStays DEF SameUse

\* Handlers that do not use the supervisor keep it.
LEMMA HandlersOnly ==
  ASSUME TypeOK, Child, Calm, UNCHANGED <<jobs, run, supervised, faults>>,
         \A m \in Models : (admin'[m] = "spawned") <=> (admin[m] = "spawned"),
         \A m \in Models : (admin'[m] = "undoing") <=> (admin[m] = "undoing"),
         \A m \in Models : (admin'[m] = "empty") <=> (admin[m] = "empty")
  PROVE  Child' /\ Calm'
<1>1. SameUse
  BY DEF SameUse, Loading, Undoing, Empty, Working, Equipped
<1>2. Child'
  BY <1>1, SameMemory, SupervisorUnseen DEF Child, Stale
<1>3. Calm'
  BY DEF Calm, Undisturbed, Silent, supervised
<1> QED BY <1>2, <1>3

\* What keeps the types, in the words of Types.
LEMMA TypedNext ==
  ASSUME jobs' \in [Ids -> JobRow], run' \in [Ids -> Thread],
         stream' \in [Ids -> Reader], Shaped',
         active' \in Ids \cup {Nothing}, maintenance' \in BOOLEAN,
         post' \in [Ids -> {"off", "validating", "leaving"}],
         admin' \in [Targets -> {"off", "load", "emptying", "empty",
                                 "spawned", "undoing", "leaving"}],
         deleting' \in Ids \cup {Nothing},
         output' \in SUBSET Ids, faults' \in 0..MaxFaults
  PROVE  TypeOK'
BY DEF TypeOK, Shaped, JobRow, Thread, Reader, ChildRow

\* What is left alone keeps its types.
LEMMA SameShape ==
  ASSUME TypeOK, UNCHANGED supervised
  PROVE  Shaped'
BY Types DEF Shaped, supervised

-----------------------------------------------------------------------------
(* Handlers.                                                               *)

\* A POST that is taken shuts every other handler out until it leaves; a
\* reader only moves its own cursor.
LEMMA HandlerSteps ==
  ASSUME IInv, NEW i \in Ids, Submit(i) \/ Leave(i) \/ Stream(i)
  PROVE  IInv'
<1>0. /\ TypeOK /\ Users /\ Threads /\ Child /\ Calm /\ Streams
      /\ UNCHANGED <<jobs, active, admin, deleting, run, supervised, output,
                     faults>>
  BY DEF IInv, Submit, Leave, Stream, handlers
<1>1. TypeOK' /\ Streams'
  <2>1. CASE Submit(i) \/ Leave(i)
    <3>1. /\ stream' = stream /\ maintenance' \in BOOLEAN
          /\ post' \in [Ids -> {"off", "validating", "leaving"}]
      BY <1>0, <2>1, Types DEF Submit, Leave
    <3>2. TypeOK'
      BY <1>0, <3>1, Types, SameShape, TypedNext
    <3>3. Streams'
      BY <1>0, <3>1 DEF Streams
    <3> QED BY <3>2, <3>3
  <2>2. CASE Stream(i)
    <3>1. Batch(i) \in Reader
      BY <1>0, Types DEF JobRow, Reader, Batch
    <3>2. stream' \in [Ids -> Reader]
      BY <1>0, <2>2, <3>1, Types DEF Stream
    <3>3. Streams'
      BY <1>0, <2>2, Types DEF Stream, Batch, Streams
    <3>4. UNCHANGED <<post, maintenance>>
      BY <2>2 DEF Stream, handlers
    <3> QED BY <1>0, <3>2, <3>3, <3>4, Types, SameShape, TypedNext
  <2> QED BY <2>1, <2>2
<1>2. Threads'
  BY ZenonT(60), <1>0 DEF Threads, Progress, Meant, Abandoned
<1>3. Users'
  <2>1. CASE Submit(i)
    <3>1. jobs[i] = NoJob
      <4>1. run[i].pc = "off" /\ jobs[i].state = "none" /\ Progress(i)
        BY <1>0, <2>1, Shapes DEF Submit, Free, Users, Threads
      <4> QED BY <4>1 DEF Progress
    <3> QED BY <1>0, <2>1, <3>1, Types DEF Users, Submit, Free
  <2>2. CASE Leave(i)
    <3>1. /\ post[i] # "off" /\ post'[i] = "off"
          /\ \A k \in Ids \ {i} : post'[k] = post[k]
      BY <1>0, <2>2, Types DEF Leave
    <3>2. /\ \A k \in Ids : post'[k] = "off"
          /\ \A m \in Targets : admin[m] = "off"
      BY <1>0, <3>1 DEF Users
    <3> QED BY <1>0, <3>2, Shapes DEF Users
  <2>3. CASE Stream(i)
    BY <1>0, <2>3 DEF Users, Stream, handlers
  <2> QED BY <2>1, <2>2, <2>3
<1>4. Child' /\ Calm'
  BY <1>0, HandlersOnly
<1> QED BY <1>1, <1>2, <1>3, <1>4 DEF IInv

\* A registered attempt is the active one: nothing ran when its POST was
\* taken, and nothing could start since.
LEMMA RegisterStep ==
  ASSUME IInv, NEW i \in Ids, Register(i)
  PROVE  IInv'
<1> DEFINE b == [NoJob EXCEPT !.state = "loading"]
           r == [NoRun EXCEPT !.pc = "load"]
<1>0. /\ TypeOK /\ Users /\ Threads /\ Child /\ Calm /\ Streams
      /\ jobs' = [jobs EXCEPT ![i] = b] /\ run' = [run EXCEPT ![i] = r]
      /\ active' = i /\ post' = [post EXCEPT ![i] = "leaving"]
      /\ UNCHANGED <<admin, maintenance, deleting, supervised, output, stream,
                     faults>>
      /\ post[i] = "validating" /\ deleting = Nothing
  BY DEF IInv, Register, Unlocked
<1>1. /\ b \in JobRow /\ b.state = "loading" /\ b.seq = 0 /\ ~b.finished
      /\ ~b.cancelled
      /\ r \in Thread /\ r.pc = "load" /\ r.phase = "loading"
  BY Shapes DEF NoJob, NoRun, JobRow, Thread
<1> HIDE DEF b, r
<1>2. /\ active = Nothing /\ jobs[i] = NoJob /\ run[i].pc = "off"
      /\ \A k \in Ids : run[k].pc = "off"
      /\ \A k \in Ids \ {i} : post[k] = "off"
      /\ \A m \in Targets : admin[m] = "off"
      /\ maintenance
  BY <1>0, Shapes DEF Users
<1>3. /\ jobs'[i] = b /\ run'[i] = r
      /\ \A k \in Ids \ {i} : jobs'[k] = jobs[k] /\ run'[k] = run[k]
  BY <1>0, Types
<1>4. TypeOK'
  <2>1. jobs' \in [Ids -> JobRow] /\ run' \in [Ids -> Thread]
    BY <1>0, <1>1, Types
  <2>2. post' \in [Ids -> {"off", "validating", "leaving"}]
    BY <1>0, Types
  <2> QED BY <1>0, <2>1, <2>2, Types, SameShape, TypedNext
<1>5. Users'
  BY <1>0, <1>1, <1>2, <1>3, Shapes, Types DEF Users
<1>6. Threads'
  <2>1. Progress(i)' /\ (run'[i].pc # "off" => ~jobs'[i].finished)
    <3>1. /\ run'[i].pc = "load" /\ run'[i].phase = "loading"
          /\ jobs'[i].state = "loading" /\ jobs'[i].seq = 0
          /\ ~jobs'[i].finished
      BY <1>1, <1>3
    <3> QED BY <3>1 DEF Progress, Before
  <2>2. ASSUME NEW k \in Ids \ {i}
        PROVE  Progress(k)' /\ (run'[k].pc # "off" => ~jobs'[k].finished)
    <3>1. run'[k] = run[k] /\ jobs'[k] = jobs[k] /\ run[k].pc = "off"
      BY <1>2, <1>3
    <3>2. jobs[k] = NoJob \/ (jobs[k].state # "none" /\ jobs[k].finished)
      BY <1>0, <3>1 DEF Threads, Progress, Before
    <3>3. Progress(k)'
      BY <3>1, <3>2 DEF Progress, Before
    <3> QED BY <3>1, <3>3
  <2>3. \A k \in Ids : deleting' # k
    BY <1>0, Shapes
  <2> QED BY <2>1, <2>2, <2>3 DEF Threads
<1>7. Streams'
  BY <1>0, <1>2, <1>3 DEF Streams, NoJob
<1>8. Child' /\ Calm'
  <2>1. Remembers
    <3>1. ~jobs[i].cancelled /\ ~Abandoned(i) /\ ~Silent(i)
      BY <1>2 DEF NoJob, Abandoned, Silent
    <3>2. \A k \in Ids : /\ jobs[k].cancelled => jobs'[k].cancelled
                         /\ Abandoned(k) => Abandoned(k)'
                         /\ Silent(k) => Silent(k)'
      BY <1>3, <3>1 DEF Abandoned, Silent
    <3> QED BY <3>2 DEF Remembers, Meant
  <2>2. /\ \A k \in Ids : ~Equipped(k)' /\ ~Working(k)' /\ ~Working(k)
                          /\ run'[k].pc \notin Prepared \cup {"waiting"}
        /\ SameUse
    <3>1. \A k \in Ids : run'[k].pc \in {"off", "load"}
      BY <1>1, <1>2, <1>3
    <3>2. \A k \in Ids : ~Equipped(k)' /\ ~Working(k)' /\ ~Working(k)
                         /\ run'[k].pc \notin Prepared \cup {"waiting"}
      BY <1>2, <3>1 DEF Equipped, Working, Prepared
    <3>3. /\ \A m \in Models : Loading(m)' <=> Loading(m)
          /\ Undoing' <=> Undoing
          /\ Empty' <=> Empty
      BY <1>0, <1>2, <3>1 DEF Loading, Undoing, Empty
    <3> QED BY <3>2, <3>3 DEF SameUse
  <2>3. Child'
    BY <1>0, <2>1, <2>2, SupervisorUnseen
  <2>4. Calm'
    <3>1. Undisturbed' => Undisturbed
      BY <1>0, <1>2, <1>3 DEF Undisturbed, NoJob
    <3>2. ~Silent(i)' /\ run'[i].pc \notin Prepared \cup {"spawned"}
      BY <1>1, <1>3 DEF Silent, Prepared
    <3>3. \A k \in Ids \ {i} : (Silent(k)' <=> Silent(k)) /\ run'[k] = run[k]
      BY <1>3 DEF Silent
    <3>4. UNCHANGED <<process, unflushed, child>>
      BY <1>0 DEF supervised
    <3> QED BY <1>0, <3>1, <3>2, <3>3, <3>4 DEF Calm
  <2> QED BY <2>3, <2>4
<1> QED BY <1>4, <1>5, <1>6, <1>7, <1>8 DEF IInv

\* Maintenance begins while nothing runs, and ends without touching the child.
LEMMA MaintenanceSteps ==
  ASSUME IInv, NEW m \in Targets, Maintain(m) \/ MaintainEnd(m)
  PROVE  IInv'
<1>0. /\ TypeOK /\ Users /\ Threads /\ Child /\ Calm /\ Streams
      /\ UNCHANGED <<jobs, active, post, deleting, run, supervised, output,
                     stream, faults>>
      /\ admin[m] \in {"off", "load", "leaving"}
      /\ admin'[m] \in {"off", "load"}
      /\ \A n \in Targets \ {m} : admin'[n] = admin[n]
      /\ admin' \in [Targets -> {"off", "load", "emptying", "empty",
                                 "spawned", "undoing", "leaving"}]
      /\ maintenance' \in BOOLEAN
  BY Types DEF IInv, Maintain, MaintainEnd
<1>1. TypeOK'
  BY <1>0, Types, SameShape, TypedNext
<1>2. Threads' /\ Streams'
  BY ZenonT(60), <1>0 DEF Threads, Progress, Meant, Abandoned, Streams
<1>3. Users'
  <2>1. CASE Maintain(m)
    BY <1>0, <2>1 DEF Users, Maintain, Free
  <2>2. CASE MaintainEnd(m)
    BY <1>0, <2>2, Types DEF Users, MaintainEnd
  <2> QED BY <2>1, <2>2
<1>4. Child' /\ Calm'
  <2>1. \A n \in Models : /\ admin'[n] # admin[n] => n = m
                          /\ n \in Targets
    BY <1>0, Shapes
  <2> QED BY <1>0, <2>1, HandlersOnly
<1> QED BY <1>1, <1>2, <1>3, <1>4 DEF IInv

-----------------------------------------------------------------------------
(* The child is stopped, replaced or loaded.                               *)

\* Without a child that works there is nothing to keep but what was said.
LEMMA NoChild ==
  ASSUME ~Alive', ~child'.up => child' = Dead /\ inbox' = <<>>,
         \A i \in Ids : run'[i].pc = "waiting" => Told(i)',
         Stale', Pipes'
  PROVE  Child'
BY DEF Child, Rests, Loads, Undoes, Serves, Heard

\* Nothing that was said about a child that could not be killed changes.
LEMMA StaysStale ==
  ASSUME Stale, Remembers, process' = "killed" => process = "killed",
         child' = child \/ child' = Dead,
         messages' = messages,
         \A i \in Ids : run'[i].pc \notin Prepared
  PROVE  Stale'
<1> SUFFICES ASSUME process' = "killed" PROVE Stale'
  BY DEF Stale
<1>1. ASSUME child'.thread = "generating"
      PROVE  /\ child'.gen \in Ids /\ child'.model = ModelOf[child'.gen]
             /\ child'.cancelled => Meant(child.gen)'
  <2>1. child' = child
    BY <1>1 DEF Dead
  <2>2. PICK g \in Ids : g = child.gen
    BY <1>1, <2>1 DEF Stale
  <2>3. child.model = ModelOf[g] /\ (child.cancelled => Meant(g)')
    BY <1>1, <2>1, <2>2 DEF Stale, Remembers
  <2> QED BY <2>1, <2>2, <2>3 DEF Meant
<1>2. \A n \in 1..Len(messages) :
        /\ messages[n].kind = "event" => n <= Events + 1
        /\ messages[n].kind = "cancelled" =>
             \E k \in Ids : jobs'[k].cancelled /\ Silent(k)'
  BY DEF Stale, Remembers
<1> QED BY <1>1, <1>2 DEF Stale

\* Who unloads is nobody's run that waits; a child that cannot be killed is
\* left with what it had said.
LEMMA Unloaded ==
  ASSUME TypeOK, Child, Remembers, Terminates \/ Closes \/ Raises,
         \A i \in Ids : run'[i].pc \notin Prepared \cup {"waiting"},
         \A m \in Models : ~Loading(m)',
         Undoing' => Undoing /\ Terminates, Empty' => Closes,
         Alive /\ Raises => Stale'
  PROVE  Child' /\ Shaped'
<1>0. Stale /\ Pipes /\ Shaped
  BY Types DEF Child
<1>1. Terminates \/ Raises \/ Closes => Shaped'
  BY <1>0, Shapes, NoneAt DEF Shaped, Terminates, Closes, Raises
<1>2. CASE Terminates
  <2>1. ~child'.up /\ child' = Dead /\ inbox' = <<>>
    BY <1>2 DEF Terminates, Dead
  <2>2. Stale'
    BY <1>0, <1>2, StaysStale DEF Terminates
  <2>3. Pipes'
    BY <1>0, <1>2, <2>1 DEF Terminates, Pipes, Closes
  <2> QED BY <1>1, <1>2, <2>1, <2>2, <2>3, NoChild DEF Alive
<1>3. CASE Closes
  <2>1. ~child'.up /\ child' = child /\ inbox' = inbox
    BY <1>3 DEF Closes
  <2>2. Stale' /\ Pipes'
    BY <1>3, <2>1 DEF Closes, Stale, Pipes, Terminates
  <2>3. child = Dead /\ inbox = <<>>
    BY <2>1 DEF Child
  <2> QED BY <1>1, <1>3, <2>1, <2>2, <2>3, NoChild DEF Alive
<1>4. CASE Raises /\ child.up
  <2>1. /\ process' = "killed" /\ child' = child /\ messages' = messages
        /\ unflushed' = unflushed
    BY <1>4 DEF Raises
  <2>2. Stale'
    <3>1. CASE Alive
      BY <1>4, <3>1
    <3>2. CASE ~Alive
      <4>1. process = "killed"
        BY <1>0, <1>4, <3>2 DEF Alive, Pipes, Shaped
      <4> QED BY <1>0, <2>1, <4>1, StaysStale
    <3> QED BY <3>1, <3>2
  <2>3. Pipes'
    <3>1. ~Undoing' /\ ~Empty'
      BY <1>4 DEF Raises, Terminates, Closes, Dead
    <3> QED BY <1>0, <1>4, <2>1, <3>1 DEF Pipes
  <2> QED BY <1>1, <1>4, <2>1, <2>2, <2>3, NoChild DEF Alive
<1>5. CASE Raises /\ ~child.up
  <2>1. /\ process' = "closed" /\ child' = child /\ inbox' = inbox
        /\ ~unflushed' /\ child = Dead /\ inbox = <<>>
    BY <1>5 DEF Raises, Child
  <2>2. Stale' /\ Pipes'
    <3>1. ~Undoing' /\ ~Empty'
      BY <1>5 DEF Raises, Terminates, Closes
    <3> QED BY <1>5, <2>1, <3>1 DEF Stale, Pipes
  <2> QED BY <1>1, <1>5, <2>1, <2>2, NoChild DEF Alive
<1> QED BY <1>2, <1>3, <1>4, <1>5

\* A new child starts with the command to load and nothing said: what the
\* one before it said is gone with its queue.
LEMMA Spawned ==
  ASSUME TypeOK, Child, Empty, NEW m \in Models, Spawn(m),
         \A n \in Models : Loading(n)' => n = m,
         Loading(m)', ~Undoing', ~Empty',
         \A i \in Ids : ~Equipped(i)' /\ ~Working(i)'
  PROVE  Child' /\ Shaped'
<1>1. /\ child' = Born /\ inbox' = <<[kind |-> "load", of |-> m]>>
      /\ messages' = <<>> /\ loaded' = Nothing /\ process' = "open"
      /\ ~unflushed'
      /\ Len(inbox') = 1 /\ inbox'[1] = [kind |-> "load", of |-> m]
      /\ inbox' # <<>>
  BY DEF Spawn, Child, Pipes
<1>2. child'.up /\ child'.thread = "none"
  BY <1>1 DEF Born, Dead
<1>3. Rests' /\ Serves' /\ Undoes'
  BY DEF Rests, Serves, Undoes
<1>4. Loads'
  <2> SUFFICES ASSUME NEW n \in Models, Loading(n)' PROVE
        /\ loaded' = Nothing /\ child'.thread = "none"
        /\ inbox' # <<>> /\ inbox'[1] = [kind |-> "load", of |-> n]
        /\ \A k \in 2..Len(inbox') : inbox'[k].kind = "cancel"
        /\ messages' = <<>>
    BY DEF Loads
  <2> QED BY <1>1, <1>2
<1>5. \A i \in Ids : run'[i].pc # "waiting"
  BY DEF Working
<1>6. Stale' /\ Pipes'
  BY <1>1, <1>2 DEF Stale, Pipes
<1>7. Child'
  BY <1>1, <1>2, <1>3, <1>4, <1>5, <1>6 DEF Child
<1>8. Shaped'
  <2>1. unflushed' \in BOOLEAN
    BY Types DEF Shaped, Spawn
  <2>2. inbox' \in Seq(Command) /\ messages' \in Seq(Message)
    BY <1>1, Shapes, OneAt, NoneAt
  <2> QED BY <1>1, <2>1, <2>2, Shapes DEF Shaped
<1> QED BY <1>7, <1>8

\* Who waits for a model and reads "loaded" has a child with that model.
LEMMA LoadEnds ==
  ASSUME TypeOK, Child, NEW m \in Models, Loading(m), LoadDone(m),
         \A n \in Models : ~Loading(n)', ~Undoing', ~Empty',
         \A i \in Ids : ~Working(i)' /\ (Equipped(i)' => ModelOf[i] = m)
  PROVE  Child' /\ Shaped'
<1>1. /\ child' = child /\ inbox' = inbox /\ loaded' = m
      /\ process' = process /\ unflushed' = unflushed
      /\ messages' = Tail(messages) /\ messages # <<>>
      /\ Head(messages).kind = "loaded"
  BY DEF LoadDone, Head1
<1>2. /\ messages \in Seq(Message) /\ Head(messages) = messages[1]
      /\ Len(messages') = Len(messages) - 1 /\ messages' \in Seq(Message)
  BY <1>1, TailAt, Types DEF Shaped
<1>3. ASSUME Alive
      PROVE  /\ child.thread = "none" /\ OnlyCancels /\ child.model = m
             /\ messages' = <<>>
  <2>1. /\ child.thread = "none" /\ OnlyCancels /\ Len(messages) = 1
        /\ child.model = m
    BY <1>1, <1>2, <1>3 DEF Child, Loads
  <2>2. messages' = <<>>
    BY <1>2, <2>1, EmptySeq
  <2> QED BY <2>1, <2>2
<1>4. Rests' /\ Loads' /\ Undoes' /\ Serves'
  BY <1>1, <1>3 DEF Rests, Loads, Undoes, Serves, OnlyCancels, Alive
<1>5. \A i \in Ids : run'[i].pc # "waiting"
  BY DEF Working
<1>6. process = "open" /\ (unflushed => ~child.up)
  BY DEF Child, Pipes
<1>7. Stale' /\ Pipes'
  BY <1>1, <1>6 DEF Stale, Pipes
<1>8. Child'
  BY <1>1, <1>3, <1>4, <1>5, <1>7 DEF Child, Alive
<1>9. Shaped'
  BY <1>1, <1>2, Types, Shapes DEF Shaped
<1> QED BY <1>8, <1>9

\* Who waits in vain has a child that may still load, and nothing else.
LEMMA LoadBreaks ==
  ASSUME TypeOK, Child, NEW m \in Models, Loading(m), LoadFails,
         \A n \in Models : ~Loading(n)', Undoing', ~Empty',
         \A i \in Ids : ~Working(i)' /\ ~Equipped(i)'
  PROVE  Child' /\ Shaped'
<1>1. /\ UNCHANGED <<child, inbox, loaded, process, unflushed>>
      /\ messages' = messages
         \/ (messages # <<>> /\ messages' = Tail(messages))
      /\ messages \in Seq(Message)
  BY Types DEF LoadFails, Head1, Shaped
<1>2. /\ messages' \in Seq(Message)
      /\ \A n \in 1..Len(messages') : \E k \in 1..Len(messages) :
           messages'[n] = messages[k]
  <2>1. CASE messages' = messages
    BY <1>1, <2>1
  <2>2. CASE messages # <<>> /\ messages' = Tail(messages)
    BY <1>1, <2>2, TailAt
  <2> QED BY <1>1, <2>1, <2>2
<1>3. ASSUME Alive
      PROVE  /\ loaded = Nothing /\ child.thread = "none"
             /\ \A n \in 1..Len(inbox) : inbox[n].kind # "generate"
             /\ \A n \in 1..Len(messages) :
                  messages[n].kind \in {"loaded", "internal"}
  <2>1. /\ loaded = Nothing /\ child.thread = "none"
        /\ \/ /\ inbox # <<>> /\ inbox[1] = [kind |-> "load", of |-> m]
              /\ \A n \in 2..Len(inbox) : inbox[n].kind = "cancel"
              /\ messages = <<>>
           \/ /\ OnlyCancels /\ Len(messages) = 1
              /\ messages[1].kind \in {"loaded", "internal"}
    BY <1>3 DEF Child, Loads
  <2>2. Len(inbox) \in Nat
    BY Types, LenProperties DEF Shaped
  <2>3. \A n \in 1..Len(inbox) : inbox[n].kind # "generate"
    BY <2>1, <2>2 DEF OnlyCancels
  <2>4. \A n \in 1..Len(messages) :
          messages[n].kind \in {"loaded", "internal"}
    BY <2>1, NoneAt
  <2> QED BY <2>1, <2>3, <2>4
<1>4. Rests' /\ Loads' /\ Serves'
  BY DEF Rests, Loads, Serves
<1>5. Undoes'
  BY <1>1, <1>2, <1>3 DEF Undoes, Alive
<1>6. \A i \in Ids : run'[i].pc # "waiting"
  BY DEF Working
<1>7. process = "open" /\ (unflushed => ~child.up)
  BY DEF Child, Pipes
<1>8. Stale' /\ Pipes'
  BY <1>1, <1>7 DEF Stale, Pipes
<1>9. Child'
  BY <1>1, <1>3, <1>4, <1>5, <1>6, <1>8 DEF Child, Alive
<1>10. Shaped'
  BY <1>1, <1>2, Types DEF Shaped
<1> QED BY <1>9, <1>10

\* What a handler that uses the supervisor leaves of the calm.
LEMMA CalmAdmin ==
  ASSUME Calm, UNCHANGED <<jobs, run>>, \A i \in Ids : run[i].pc = "off",
         \/ UNCHANGED <<process, unflushed, faults>>
         \/ process' # "killed" /\ ~unflushed' /\ UNCHANGED faults
         \/ Raises, faults \in Nat
  PROVE  Calm'
<1>1. \A i \in Ids : /\ run'[i].pc \notin Prepared \cup {"spawned"}
                     /\ Silent(i)' <=> Silent(i)
  BY DEF Prepared, Silent
<1>2. CASE UNCHANGED faults
  <2>1. Undisturbed' <=> Undisturbed
    BY <1>2 DEF Undisturbed
  <2>2. CASE Raises
    <3>1. faults' # faults + 1
      BY <1>2
    <3>2. unflushed
      BY <2>2, <3>1 DEF Raises, Fault
    <3> QED BY <2>1, <3>2 DEF Calm
  <2> QED BY <1>1, <2>1, <2>2 DEF Calm
<1>3. CASE Raises /\ faults' = faults + 1
  <2>1. ~Undisturbed'
    BY <1>3 DEF Undisturbed
  <2> QED BY <2>1 DEF Calm
<1> QED BY <1>2, <1>3 DEF Raises, Fault

\* Preload and unload replace a child that nobody else uses.
LEMMA AdminSteps ==
  ASSUME IInv, NEW m \in Targets, AdminStep(m)
  PROVE  IInv'
<1> DEFINE to(pc) == admin' = [admin EXCEPT ![m] = pc]
<1>0. /\ TypeOK /\ Users /\ Threads /\ Child /\ Calm /\ Streams /\ Shaped
      /\ UNCHANGED <<jobs, active, maintenance, post, deleting, run, output,
                     stream>>
      /\ faults \in 0..MaxFaults /\ faults \in Nat
  BY Types, EngineAssumption DEF IInv, AdminStep
<1>1. /\ \A pc : to(pc) => /\ admin'[m] = pc
                           /\ \A n \in Targets \ {m} : admin'[n] = admin[n]
      /\ UNCHANGED admin => to(admin[m])
  BY <1>0, Types
<1>2. \E pc \in {"emptying", "empty", "spawned", "undoing", "leaving"} : to(pc)
  BY <1>0, <1>1 DEF AdminStep
<1> HIDE DEF to
<1>3. PICK pc \in {"emptying", "empty", "spawned", "undoing", "leaving"} :
        to(pc)
  BY <1>2
<1>4. /\ admin'[m] = pc /\ admin[m] # "off"
      /\ \A n \in Targets \ {m} : admin'[n] = admin[n]
      /\ admin' \in [Targets -> {"off", "load", "emptying", "empty",
                                 "spawned", "undoing", "leaving"}]
  <2>1. admin[m] # "off"
    BY DEF AdminStep
  <2>2. admin' = [admin EXCEPT ![m] = pc]
    BY <1>3 DEF to
  <2> QED BY <1>0, <1>1, <1>3, <2>1, <2>2, Types
<1>5. /\ active = Nothing /\ maintenance
      /\ \A n \in Targets \ {m} : admin[n] = "off"
      /\ \A i \in Ids : post[i] = "off" /\ run[i].pc = "off"
  BY <1>0, <1>4, Shapes DEF Users
<1>6. /\ \A i \in Ids : /\ ~Working(i) /\ ~Equipped(i)
                        /\ ~Working(i)' /\ ~Equipped(i)'
                        /\ run'[i].pc \notin Prepared \cup {"waiting"}
      /\ \A n \in Models : /\ Loading(n) <=> n = m /\ admin[m] = "spawned"
                           /\ Loading(n)' <=> n = m /\ pc = "spawned"
      /\ Undoing <=> m \in Models /\ admin[m] = "undoing"
      /\ Undoing' <=> m \in Models /\ pc = "undoing"
      /\ Empty <=> m \in Models /\ admin[m] = "empty"
      /\ Empty' <=> m \in Models /\ pc = "empty"
  <2>1. \A i \in Ids : run'[i].pc = "off" /\ run[i].pc = "off"
    BY <1>0, <1>5
  <2>2. \A n \in Models : /\ n \in Targets
                          /\ n # m => admin[n] = "off" /\ admin'[n] = "off"
    BY <1>4, <1>5, Shapes
  <2>3. \A i \in Ids : /\ ~Working(i) /\ ~Equipped(i)
                       /\ ~Working(i)' /\ ~Equipped(i)'
                       /\ run'[i].pc \notin Prepared \cup {"waiting"}
    BY <2>1 DEF Working, Equipped, Prepared
  <2> QED BY <1>4, <2>1, <2>2, <2>3 DEF Loading, Undoing, Empty
<1>7. Threads' /\ Streams' /\ Remembers
  BY ZenonT(60), <1>0, SameMemory
     DEF Threads, Progress, Meant, Abandoned, Streams
<1>8. m = Nothing =>
        /\ admin[m] \in {"load", "emptying", "leaving"}
        /\ pc \in {"emptying", "leaving"}
  <2>1. m = Nothing => admin[m] \in {"load", "emptying", "leaving"}
    BY <1>0, <1>4 DEF Users
  <2> QED BY <1>1, <1>3, <1>4, <2>1 DEF AdminStep, to
<1>9. Users'
  BY <1>0, <1>4, <1>5, <1>8, Shapes DEF Users
<1>10. m # Nothing => m \in Models
  BY DEF Targets
<1>11. Child' /\ Shaped' /\ Calm' /\ faults' \in 0..MaxFaults
  <2>1. CASE admin[m] = "load" /\ UNCHANGED <<supervised, faults>>
             /\ pc \in {"leaving", "emptying"}
    <3>1. \A n \in Models : n \in Targets /\ (n # m => admin'[n] = admin[n])
      BY <1>4, Shapes
    <3> QED BY <1>0, <1>4, <2>1, <3>1, HandlersOnly, SameShape
  <2>2. CASE /\ admin[m] \in {"emptying", "undoing"}
             /\ \/ Terminates /\ pc = admin[m]
                \/ Closes /\ pc \in {"empty", "leaving"}
                \/ Raises /\ pc = "leaving"
    <3>1. /\ \A n \in Models : ~Loading(n)'
          /\ Undoing' => Undoing /\ Terminates
          /\ Empty' => Closes
      BY <1>6, <2>2
    <3>2. Alive /\ Raises => Stale'
      <4> SUFFICES ASSUME Alive, Raises PROVE Stale'
        OBVIOUS
      <4>1. child.thread # "generating" /\ \A n \in 1..Len(messages) :
              messages[n].kind \notin {"event", "cancelled"}
        <5>1. CASE Undoing
          BY <1>0, <5>1 DEF Child, Undoes
        <5>2. CASE ~Undoing
          <6>1. messages = <<>> /\ child.thread # "generating"
            BY <1>0, <1>6, <2>2, <5>2 DEF Child, Rests
          <6> QED BY <6>1, NoneAt
        <5> QED BY <5>1, <5>2
      <4>2. child' = child /\ messages' = messages
        BY DEF Raises, Alive
      <4> QED BY <1>6, <4>1, <4>2 DEF Stale
    <3>3. Child' /\ Shaped'
      BY <1>0, <1>6, <1>7, <2>2, <3>1, <3>2, Unloaded
    <3>4. Calm' /\ faults' \in 0..MaxFaults
      <4>1. /\ Terminates => UNCHANGED <<process, unflushed, faults>>
            /\ Closes => process' # "killed" /\ ~unflushed' /\ UNCHANGED faults
            /\ Raises => faults' \in 0..MaxFaults
        BY <1>0, EngineAssumption DEF Terminates, Closes, Raises, Fault
      <4> QED BY <1>0, <1>5, <2>2, <4>1, CalmAdmin
    <3> QED BY <3>3, <3>4
  <2>3. CASE /\ admin[m] = "empty" /\ UNCHANGED faults
             /\ \/ Spawn(m) /\ pc = "spawned"
                \/ UNCHANGED supervised /\ pc = "leaving"
    <3>0. m \in Models
      BY <1>8, <1>10, <2>3
    <3>1. Empty /\ process = "none" /\ ~Undoing' /\ ~Empty'
      BY <1>0, <1>6, <2>3, <3>0 DEF Child, Pipes
    <3>2. CASE Spawn(m) /\ pc = "spawned"
      <4>1. Child' /\ Shaped'
        BY <1>0, <1>6, <3>0, <3>1, <3>2, Spawned
      <4>2. process' = "open" /\ ~unflushed'
        BY <1>0, <3>1, <3>2 DEF Spawn, Child, Pipes
      <4> QED BY <1>0, <1>5, <2>3, <4>1, <4>2, CalmAdmin
    <3>3. CASE UNCHANGED supervised /\ pc = "leaving"
      <4>1. \A i \in Ids : run'[i].pc \notin Prepared
        BY <1>6
      <4>2. Undoing' <=> Undoing
        BY <1>6, <2>3, <3>3
      <4>3. \A n \in Models : Loading(n)' <=> Loading(n)
        BY <1>6, <2>3, <3>3
      <4>4. Child'
        BY <1>0, <1>6, <1>7, <3>1, <3>3, <4>1, <4>2, <4>3, SupervisorStays
      <4>5. UNCHANGED <<process, unflushed, faults>>
        BY <2>3, <3>3 DEF supervised
      <4> QED BY <1>0, <1>5, <3>3, <4>4, <4>5, SameShape, CalmAdmin
    <3> QED BY <2>3, <3>2, <3>3
  <2>4. CASE /\ admin[m] = "spawned" /\ UNCHANGED faults
             /\ \/ LoadDone(m) /\ pc = "leaving"
                \/ LoadFails /\ pc = "undoing"
    <3>0. m \in Models /\ Loading(m)
      BY <1>6, <1>8, <1>10, <2>4
    <3>1. UNCHANGED <<process, unflushed, faults>>
      BY <2>4 DEF LoadDone, LoadFails
    <3>2. CASE LoadDone(m) /\ pc = "leaving"
      BY <1>0, <1>5, <1>6, <3>0, <3>1, <3>2, LoadEnds, CalmAdmin
    <3>3. CASE LoadFails /\ pc = "undoing"
      BY <1>0, <1>5, <1>6, <3>0, <3>1, <3>3, LoadBreaks, CalmAdmin
    <3> QED BY <2>4, <3>2, <3>3
  <2>5. \A x : to(x) => x = pc
    BY <1>1, <1>4
  <2>6. to(admin[m]) <=> pc = admin[m]
    BY <1>3, <2>5
  <2>7. \/ /\ admin[m] = "load"
           /\ to("leaving") \/ to("emptying")
           /\ UNCHANGED <<supervised, faults>>
        \/ /\ admin[m] \in {"emptying", "undoing"}
           /\ \/ Terminates /\ UNCHANGED admin
              \/ Closes /\ (to("empty") \/ to("leaving"))
              \/ Raises /\ to("leaving")
        \/ /\ admin[m] = "empty"
           /\ \/ Spawn(m) /\ to("spawned")
              \/ UNCHANGED supervised /\ to("leaving")
           /\ UNCHANGED faults
        \/ /\ admin[m] = "spawned"
           /\ \/ LoadDone(m) /\ to("leaving")
              \/ LoadFails /\ to("undoing")
           /\ UNCHANGED faults
    BY DEF AdminStep, to
  <2> QED BY <1>1, <2>1, <2>2, <2>3, <2>4, <2>5, <2>6, <2>7
<1>12. TypeOK'
  BY <1>0, <1>4, <1>11, Types, TypedNext
<1> QED BY <1>7, <1>9, <1>11, <1>12 DEF IInv

-----------------------------------------------------------------------------
(* The thread of an attempt.                                               *)

Places == Before \cup {"waiting", "sealing", "sealed", "failing", "closing",
                       "jammed"}

\* The assignments of the thread, with their shapes.
LEMMA GoesTo ==
  ASSUME TypeOK, NEW i \in Ids, NEW pc \in Places, GoTo(i, pc)
  PROVE  \E r \in Thread : /\ run' = [run EXCEPT ![i] = r] /\ r.pc = pc
                           /\ r.phase = run[i].phase
<1> DEFINE r == [run[i] EXCEPT !.pc = pc]
<1>1. run' = [run EXCEPT ![i] = r]
  BY DEF GoTo
<1>2. run[i] \in Thread
  BY Types
<1>3. r \in Thread /\ r.pc = pc /\ r.phase = run[i].phase
  BY <1>2 DEF Thread, Places, Before
<1> QED BY <1>1, <1>3

\* The row of a thread that fails.
LEMMA FailsWith ==
  ASSUME TypeOK, NEW i \in Ids, NEW code \in Codes, Fail(i, code)
  PROVE  \E r \in Thread : /\ run' = [run EXCEPT ![i] = r]
                           /\ r.pc = "failing" /\ r.code = code
                           /\ r.phase = run[i].phase
<1> DEFINE r == [run[i] EXCEPT !.pc = "failing", !.code = code]
<1>1. run' = [run EXCEPT ![i] = r]
  BY DEF Fail
<1>2. run[i] \in Thread
  BY Types
<1>3. /\ r \in Thread /\ r.pc = "failing" /\ r.code = code
      /\ r.phase = run[i].phase
  BY <1>2 DEF Thread
<1> QED BY <1>1, <1>3

\* The row of an attempt after an event.
LEMMA Emits ==
  ASSUME TypeOK, NEW i \in Ids, jobs[i].seq < Events + 3, jobs' = Emitted(i)
  PROVE  \E b \in JobRow : /\ jobs' = [jobs EXCEPT ![i] = b]
                           /\ b.seq = jobs[i].seq + 1
                           /\ b.state = jobs[i].state
                           /\ b.cancelled = jobs[i].cancelled
                           /\ b.finished = jobs[i].finished
<1> DEFINE b == [jobs[i] EXCEPT !.seq = @ + 1]
<1>1. jobs' = [jobs EXCEPT ![i] = b]
  BY DEF Emitted
<1>2. jobs[i] \in JobRow
  BY Types
<1>3. jobs[i].seq + 1 \in 0..(Events + 3)
  BY <1>2, Shapes DEF JobRow
<1>4. /\ b \in JobRow /\ b.seq = jobs[i].seq + 1 /\ b.state = jobs[i].state
      /\ b.cancelled = jobs[i].cancelled /\ b.finished = jobs[i].finished
  BY <1>2, <1>3 DEF JobRow
<1> QED BY <1>1, <1>4

\* The row of an attempt after its terminal event.
LEMMA EndsWith ==
  ASSUME TypeOK, NEW i \in Ids, jobs[i].seq < Events + 3, NEW t \in Terminals,
         jobs' = Ended(i, t)
  PROVE  \E b \in JobRow : /\ jobs' = [jobs EXCEPT ![i] = b]
                           /\ b.seq = jobs[i].seq + 1
                           /\ b.state = t
                           /\ b.cancelled = jobs[i].cancelled
                           /\ b.finished = jobs[i].finished
<1> DEFINE b == [jobs[i] EXCEPT !.seq = @ + 1, !.state = t]
<1>1. jobs' = [jobs EXCEPT ![i] = b]
  BY DEF Ended
<1>2. jobs[i] \in JobRow
  BY Types
<1>3. jobs[i].seq + 1 \in 0..(Events + 3)
  BY <1>2, Shapes DEF JobRow
<1>4. /\ b \in JobRow /\ b.seq = jobs[i].seq + 1 /\ b.state = t
      /\ b.cancelled = jobs[i].cancelled /\ b.finished = jobs[i].finished
  BY <1>2, <1>3 DEF JobRow
<1> QED BY <1>1, <1>4

\* While a thread runs nobody else uses the supervisor.
LEMMA OneRuns ==
  ASSUME TypeOK, Users, NEW i \in Ids, run[i].pc # "off", NEW r,
         run' = [run EXCEPT ![i] = r], UNCHANGED admin
  PROVE  /\ run'[i] = r
         /\ \A k \in Ids \ {i} : run[k].pc = "off" /\ run'[k] = run[k]
         /\ \A m \in Models :
              /\ Loading(m) <=> run[i].pc = "spawned" /\ ModelOf[i] = m
              /\ Loading(m)' <=> r.pc = "spawned" /\ ModelOf[i] = m
         /\ Undoing <=> run[i].pc = "undoing"
         /\ Undoing' <=> r.pc = "undoing"
         /\ Empty <=> run[i].pc = "empty"
         /\ Empty' <=> r.pc = "empty"
         /\ \A k \in Ids \ {i} :
              /\ ~Working(k) /\ ~Working(k)' /\ ~Equipped(k) /\ ~Equipped(k)'
              /\ run'[k].pc \notin Prepared \cup {"waiting", "spawned"}
<1>1. /\ run'[i] = r
      /\ \A k \in Ids \ {i} : run[k].pc = "off" /\ run'[k] = run[k]
  BY Types DEF Users
<1>2. \A m \in Targets : admin[m] = "off" /\ admin'[m] = "off"
  BY Shapes DEF Users, TypeOK
<1>3. \A m \in Models : m \in Targets
  BY Shapes
<1>4. /\ \A m \in Models :
           /\ Loading(m) <=> run[i].pc = "spawned" /\ ModelOf[i] = m
           /\ Loading(m)' <=> r.pc = "spawned" /\ ModelOf[i] = m
      /\ Undoing <=> run[i].pc = "undoing"
      /\ Undoing' <=> r.pc = "undoing"
      /\ Empty <=> run[i].pc = "empty"
      /\ Empty' <=> r.pc = "empty"
  BY <1>1, <1>2, <1>3 DEF Loading, Undoing, Empty
<1>5. \A k \in Ids \ {i} :
        /\ ~Working(k) /\ ~Working(k)' /\ ~Equipped(k) /\ ~Equipped(k)'
        /\ run'[k].pc \notin Prepared \cup {"waiting", "spawned"}
  BY <1>1 DEF Working, Equipped, Prepared
<1> QED BY <1>1, <1>4, <1>5

\* A step of one thread keeps the invariant when it keeps what is said of it.
LEMMA ThreadStep ==
  ASSUME IInv, NEW i \in Ids, NEW r \in Thread, NEW b \in JobRow,
         run[i].pc # "off", r.pc # "off",
         run' = [run EXCEPT ![i] = r], jobs' = [jobs EXCEPT ![i] = b],
         b.finished = jobs[i].finished, b.cancelled = jobs[i].cancelled,
         b.state \in {jobs[i].state, "busy"} \/ deleting = Nothing,
         Progress(i)',
         UNCHANGED <<active, handlers, stream>>, output' \in SUBSET Ids,
         faults' \in 0..MaxFaults, Shaped', Child', Calm'
  PROVE  IInv'
<1>1. TypeOK /\ Users /\ Threads /\ Streams /\ ~b.finished
  BY DEF IInv, Threads
<1>2. deleting = i => b.cancelled /\ b.state \in {"loading", "busy"}
  BY <1>1, Shapes DEF Threads
<1>3. Users' /\ Threads' /\ Streams'
  BY <1>1, <1>2, OneThread
<1>4. jobs' \in [Ids -> JobRow] /\ run' \in [Ids -> Thread]
  BY <1>1, Types
<1>5. TypeOK'
  BY <1>1, <1>4, Types, TypedNext DEF handlers
<1> QED BY <1>3, <1>5 DEF IInv

\* A step of one thread that fails nothing leaves the calm.
LEMMA CalmThread ==
  ASSUME TypeOK, Users, Threads, Calm, NEW i \in Ids, NEW r, NEW b,
         run[i].pc # "off", UNCHANGED <<admin, faults>>,
         run' = [run EXCEPT ![i] = r], jobs' = [jobs EXCEPT ![i] = b],
         b.finished = jobs[i].finished, b.cancelled = jobs[i].cancelled,
         r.pc \in {"closing", "jammed"} => b.state \in Terminals,
         Undisturbed => /\ process' # "killed" /\ ~unflushed'
                        /\ r.pc \in Prepared \cup {"spawned"} => child'.up
  PROVE  Calm'
<1>1. /\ run'[i] = r /\ jobs'[i] = b
      /\ \A k \in Ids \ {i} : run'[k] = run[k] /\ jobs'[k] = jobs[k]
  BY Types
<1>2. Undisturbed' <=> Undisturbed
  BY <1>1 DEF Undisturbed
<1>3. \A k \in Ids \ {i} : run'[k].pc \notin Prepared \cup {"spawned"}
  BY OneRuns
<1>4. ~Silent(i)'
  <2>1. ~jobs[i].finished
    BY DEF Threads
  <2> QED BY <1>1, <2>1 DEF Silent, Terminals
<1>5. \A k \in Ids \ {i} : Silent(k)' <=> Silent(k)
  BY <1>1 DEF Silent
<1> QED BY <1>1, <1>2, <1>3, <1>4, <1>5 DEF Calm

\* One that leaves the supervisor alone.
LEMMA CalmQuiet ==
  ASSUME TypeOK, Users, Threads, Calm, NEW i \in Ids, NEW r, NEW b,
         run[i].pc # "off", UNCHANGED <<admin, faults, supervised>>,
         run' = [run EXCEPT ![i] = r], jobs' = [jobs EXCEPT ![i] = b],
         b.finished = jobs[i].finished, b.cancelled = jobs[i].cancelled,
         r.pc \in {"closing", "jammed"} => b.state \in Terminals,
         r.pc \in Prepared \cup {"spawned"} =>
           child.up \/ run[i].pc \in Prepared \cup {"spawned"}
  PROVE  Calm'
<1>1. UNCHANGED <<process, unflushed, child>>
  BY DEF supervised
<1>2. Undisturbed => /\ process' # "killed" /\ ~unflushed'
                     /\ r.pc \in Prepared \cup {"spawned"} => child'.up
  BY <1>1 DEF Calm
<1> QED BY <1>2, CalmThread

\* The row of an attempt that a step leaves alone.
LEMMA SameRow ==
  ASSUME TypeOK, NEW i \in Ids, UNCHANGED jobs
  PROVE  jobs[i] \in JobRow /\ jobs' = [jobs EXCEPT ![i] = jobs[i]]
BY Types

\* A thread that has not closed yet has not finished.
LEMMA Unfinished ==
  ASSUME IInv, NEW i \in Ids, run[i].pc # "off"
  PROVE  /\ TypeOK /\ Users /\ Threads /\ Child /\ Calm /\ Streams /\ Shaped
         /\ ~jobs[i].finished /\ jobs[i] \in JobRow /\ run[i] \in Thread
         /\ jobs[i].seq \in Nat /\ Progress(i) /\ faults \in 0..MaxFaults
BY Types, Shapes DEF IInv, Threads, JobRow


\* What a thread that leaves the supervisor alone must keep.
LEMMA ThreadKeeps ==
  ASSUME TypeOK, Users, Child, Remembers, NEW i \in Ids, NEW r,
         run[i].pc \notin {"off", "spawned", "undoing", "empty"},
         r.pc \notin {"spawned", "undoing", "empty"},
         run' = [run EXCEPT ![i] = r], UNCHANGED <<admin, supervised>>,
         Working(i)' /\ Alive => \/ Working(i) /\ jobs'[i].seq = jobs[i].seq
                                 \/ messages = <<>> /\ Rested,
         Working(i) /\ Alive => Working(i)',
         Equipped(i)' /\ Alive => loaded = ModelOf[i],
         r.pc = "waiting" =>
           run[i].pc = "waiting" /\ jobs'[i].seq = jobs[i].seq,
         process = "killed" /\ r.pc \in Prepared => jobs'[i].seq = 0
  PROVE  Child'
<1>1. /\ \A m \in Models : Loading(m)' <=> Loading(m)
      /\ Undoing' <=> Undoing
      /\ ~Empty' /\ run'[i] = r
  BY OneRuns
<1>2. \A k \in Ids \ {i} :
        /\ ~Working(k) /\ ~Working(k)' /\ ~Equipped(k)'
        /\ run'[k].pc \notin Prepared \cup {"waiting"}
  BY OneRuns
<1>3. \A k \in Ids : Working(k)' /\ Alive =>
        \/ Working(k) /\ jobs'[k].seq = jobs[k].seq
        \/ messages = <<>> /\ Rested
  BY <1>2
<1>4. \A k \in Ids : Working(k) /\ Alive => \E n \in Ids : Working(n)'
  BY <1>2
<1>5. \A k \in Ids : Equipped(k)' /\ Alive => loaded = ModelOf[k]
  BY <1>2
<1>6. \A k \in Ids : run'[k].pc = "waiting" =>
        run[k].pc = "waiting" /\ jobs'[k].seq = jobs[k].seq
  BY <1>1, <1>2
<1>7. process = "killed" => \A k \in Ids :
        run'[k].pc \in Prepared => jobs'[k].seq = 0
  BY <1>1, <1>2
<1> QED BY <1>1, <1>3, <1>4, <1>5, <1>6, <1>7, SupervisorStays
\* A run that finds its model is ready; any other unloads first.
LEMMA LoadsStep ==
  ASSUME IInv, NEW i \in Ids, RunLoads(i)
  PROVE  IInv'
<1>0. /\ TypeOK /\ Users /\ Threads /\ Child /\ Calm /\ Shaped
      /\ run[i].pc = "load" /\ ~jobs[i].finished /\ jobs[i] \in JobRow
      /\ UNCHANGED <<active, handlers, supervised, output, stream, faults>>
      /\ admin' = admin /\ output' \in SUBSET Ids /\ faults' \in 0..MaxFaults
      /\ jobs[i].state = "loading" /\ jobs[i].seq = 0
      /\ run[i].phase = "loading"
  <2>1. run[i].pc = "load"
    BY DEF RunLoads
  <2>2. /\ jobs[i].state = "loading" /\ jobs[i].seq = 0
        /\ run[i].phase = "loading"
    BY <2>1, Unfinished DEF Progress, Before
  <2> QED BY <2>1, <2>2, Unfinished, Types DEF RunLoads, handlers
<1>1. CASE HasModel(ModelOf[i]) /\ GoTo(i, "ready") /\ UNCHANGED jobs
  <2>1. PICK r \in Thread : run' = [run EXCEPT ![i] = r] /\ r.pc = "ready"
                            /\ r.phase = "loading"
    BY <1>0, <1>1, GoesTo DEF Places, Before
  <2>2. run'[i] = r
    BY <1>0, <2>1, OneRuns
  <2>3. Progress(i)'
    <3>1. /\ run'[i].pc = "ready" /\ run'[i].phase = "loading"
          /\ jobs'[i].state = "loading" /\ jobs'[i].seq <= 1
      BY <1>0, <1>1, <2>1, <2>2
    <3> QED BY <3>1 DEF Progress, Before
  <2>4. Remembers
    BY <1>0, <1>1, <2>1, SameRow, ThreadMemory
  <2>5. Child'
    <3>1. ~Working(i) /\ ~Working(i)'
      BY <1>0, <2>1, <2>2 DEF Working
    <3> QED BY <1>0, <1>1, <2>1, <2>4, <3>1, ThreadKeeps DEF HasModel
  <2>6. Calm'
    BY <1>0, <1>1, <2>1, SameRow, CalmQuiet DEF HasModel
  <2> QED BY <1>0, <1>1, <2>1, <2>3, <2>5, <2>6, SameRow, SameShape, ThreadStep
<1>2. CASE deleting = Nothing /\ GoTo(i, "emptying") /\ jobs' = Emitted(i)
  <2>1. PICK r \in Thread : run' = [run EXCEPT ![i] = r] /\ r.pc = "emptying"
                            /\ r.phase = "loading"
    BY <1>0, <1>2, GoesTo DEF Places, Before
  <2>2. PICK b \in JobRow : /\ jobs' = [jobs EXCEPT ![i] = b]
                            /\ b.seq = 1 /\ b.state = "loading"
                            /\ b.cancelled = jobs[i].cancelled
                            /\ b.finished = jobs[i].finished
    <3>1. jobs[i].seq < Events + 3
      BY <1>0, Shapes
    <3> QED BY <1>0, <1>2, <3>1, Emits
  <2>3. run'[i] = r /\ jobs'[i] = b
    BY <1>0, <2>1, <2>2, OneRuns, Types
  <2>4. Progress(i)'
    <3>1. /\ run'[i].pc = "emptying" /\ run'[i].phase = "loading"
          /\ jobs'[i].state = "loading" /\ jobs'[i].seq <= 1
      BY <2>1, <2>2, <2>3
    <3> QED BY <3>1 DEF Progress, Before
  <2>5. Remembers
    BY <1>0, <2>1, <2>2, ThreadMemory
  <2>6. Child'
    <3>1. run'[i].pc = "emptying"
      BY <2>1, <2>3
    <3>2. ~Working(i) /\ ~Working(i)' /\ ~Equipped(i)'
      BY <1>0, <3>1 DEF Working, Equipped, Prepared
    <3> QED BY <1>0, <2>1, <2>5, <3>2, ThreadKeeps DEF Prepared
  <2>7. Calm'
    BY <1>0, <2>1, <2>2, CalmQuiet DEF Prepared
  <2> QED BY <1>0, <1>2, <2>1, <2>2, <2>4, <2>6, <2>7, SameShape, ThreadStep
<1> QED BY <1>1, <1>2 DEF RunLoads, Unlocked

\* Where the child is gone a new one is started, or the run fails.
LEMMA SpawnsStep ==
  ASSUME IInv, NEW i \in Ids, RunSpawns(i)
  PROVE  IInv'
<1>0. /\ TypeOK /\ Users /\ Threads /\ Child /\ Calm /\ Shaped
      /\ run[i].pc = "empty" /\ ~jobs[i].finished /\ jobs[i] \in JobRow
      /\ UNCHANGED <<jobs, active, handlers, output, stream, faults>>
      /\ admin' = admin /\ output' \in SUBSET Ids /\ faults' \in 0..MaxFaults
      /\ jobs[i].state = "loading" /\ jobs[i].seq <= 1
      /\ jobs[i].seq <= Events + 1
      /\ run[i].phase = "loading" /\ ModelOf[i] \in Models
  <2>1. run[i].pc = "empty"
    BY DEF RunSpawns
  <2>2. /\ jobs[i].state = "loading" /\ jobs[i].seq <= 1
        /\ run[i].phase = "loading" /\ jobs[i].seq \in Nat
    BY <2>1, Unfinished DEF Progress, Before
  <2> QED BY <2>1, <2>2, Unfinished, Types, Shapes DEF RunSpawns, handlers
<1>1. Empty /\ process = "none" /\ ~Alive
  <2>1. Empty
    BY <1>0 DEF Empty
  <2> QED BY <1>0, <2>1 DEF Child, Pipes, Alive
<1>2. CASE Spawn(ModelOf[i]) /\ GoTo(i, "spawned")
  <2>1. PICK r \in Thread : run' = [run EXCEPT ![i] = r] /\ r.pc = "spawned"
                            /\ r.phase = "loading"
    BY <1>0, <1>2, GoesTo DEF Places, Before
  <2>2. run'[i] = r
    BY <1>0, <2>1, OneRuns
  <2>3. Progress(i)'
    <3>1. /\ run'[i].pc = "spawned" /\ run'[i].phase = "loading"
          /\ jobs'[i].state = "loading" /\ jobs'[i].seq <= 1
      BY <1>0, <2>1, <2>2
    <3> QED BY <3>1 DEF Progress, Before
  <2>4. Child' /\ Shaped'
    <3>1. \A k \in Ids : ~Working(k)' /\ ~Equipped(k)'
      <4>1. run'[i].pc = "spawned"
        BY <2>1, <2>2
      <4>2. ~Working(i)' /\ ~Equipped(i)'
        BY <4>1 DEF Working, Equipped, Prepared
      <4> QED BY <1>0, <2>1, <4>2, OneRuns
    <3>2. /\ Loading(ModelOf[i])' /\ ~Undoing' /\ ~Empty'
          /\ \A n \in Models : Loading(n)' => n = ModelOf[i]
      BY <1>0, <2>1, OneRuns
    <3> QED BY <1>0, <1>1, <1>2, <3>1, <3>2, Spawned
  <2>5. Calm'
    <3>1. process' = "open" /\ ~unflushed' /\ child'.up
      BY <1>0, <1>1, <1>2 DEF Spawn, Child, Pipes, Born, Dead
    <3> QED BY <1>0, <2>1, <3>1, SameRow, CalmThread
  <2> QED BY <1>0, <2>1, <2>3, <2>4, <2>5, SameRow, ThreadStep
<1>3. ASSUME UNCHANGED supervised, NEW code \in {"vram", "internal"},
             Fail(i, code)
      PROVE  IInv'
  <2>1. PICK r \in Thread : run' = [run EXCEPT ![i] = r] /\ r.pc = "failing"
                            /\ r.code = code
    BY <1>0, <1>3, FailsWith DEF Codes
  <2>2. run'[i] = r
    BY <1>0, <2>1, OneRuns
  <2>3. Progress(i)'
    <3>1. /\ run'[i].pc = "failing" /\ run'[i].code \in {"internal", "vram"}
          /\ jobs'[i].state = "loading" /\ jobs'[i].seq <= Events + 1
      BY <1>0, <2>1, <2>2
    <3> QED BY <3>1 DEF Progress, Before, Codes
  <2>4. Remembers
    BY <1>0, <2>1, SameRow, ThreadMemory
  <2>5. Child'
    <3>1. \A k \in Ids : run'[k].pc \notin Prepared \cup {"waiting"}
      <4>1. run'[i].pc \notin Prepared \cup {"waiting"}
        BY <2>1, <2>2 DEF Prepared
      <4> QED BY ZenonT(60), <1>0, <2>1, <4>1, OneRuns
    <3>2. /\ \A m \in Models : Loading(m)' <=> Loading(m)
          /\ Undoing' <=> Undoing
          /\ ~Empty'
      BY <1>0, <2>1, OneRuns
    <3> QED BY <1>0, <1>1, <1>3, <2>4, <3>1, <3>2, SupervisorStays
  <2>6. Calm'
    BY <1>0, <1>3, <2>1, SameRow, CalmQuiet DEF Prepared
  <2> QED BY <1>0, <1>3, <2>1, <2>3, <2>5, <2>6, SameRow, SameShape, ThreadStep
<1> QED BY <1>2, <1>3 DEF RunSpawns

\* A run that waited for its model has it, or unloads what did not load.
LEMMA LoadedStep ==
  ASSUME IInv, NEW i \in Ids, RunLoaded(i)
  PROVE  IInv'
<1> DEFINE m == ModelOf[i]
<1>0. /\ TypeOK /\ Users /\ Threads /\ Child /\ Calm /\ Shaped
      /\ run[i].pc = "spawned" /\ ~jobs[i].finished /\ jobs[i] \in JobRow
      /\ UNCHANGED <<jobs, active, handlers, output, stream, faults>>
      /\ admin' = admin /\ output' \in SUBSET Ids /\ faults' \in 0..MaxFaults
      /\ jobs[i].state = "loading" /\ jobs[i].seq <= 1
      /\ run[i].phase = "loading" /\ m \in Models /\ run[i] \in Thread
      /\ Loading(m)
  <2>1. run[i].pc = "spawned"
    BY DEF RunLoaded
  <2>2. /\ jobs[i].state = "loading" /\ jobs[i].seq <= 1
        /\ run[i].phase = "loading"
    BY <2>1, Unfinished DEF Progress, Before
  <2>3. Loading(m)
    BY <2>1 DEF Loading
  <2> QED BY <2>1, <2>2, <2>3, Unfinished, Types, Shapes
          DEF RunLoaded, handlers
<1>1. CASE LoadDone(m) /\ GoTo(i, "ready")
  <2>1. PICK r \in Thread : run' = [run EXCEPT ![i] = r] /\ r.pc = "ready"
                            /\ r.phase = "loading"
    BY <1>0, <1>1, GoesTo DEF Places, Before
  <2>2. run'[i] = r
    BY <1>0, <2>1, OneRuns
  <2>3. Progress(i)'
    <3>1. /\ run'[i].pc = "ready" /\ run'[i].phase = "loading"
          /\ jobs'[i].state = "loading" /\ jobs'[i].seq <= 1
      BY <1>0, <2>1, <2>2
    <3> QED BY <3>1 DEF Progress, Before
  <2>4. Child' /\ Shaped'
    <3>1. \A k \in Ids : ~Working(k)' /\ (Equipped(k)' => ModelOf[k] = m)
      <4>1. run'[i].pc = "ready"
        BY <2>1, <2>2
      <4>2. ~Working(i)'
        BY <4>1 DEF Working
      <4>3. \A k \in Ids \ {i} : ~Working(k)' /\ ~Equipped(k)'
        BY <1>0, <2>1, OneRuns
      <4> QED BY <4>2, <4>3
    <3>2. ~Undoing' /\ ~Empty' /\ \A n \in Models : ~Loading(n)'
      BY <1>0, <2>1, OneRuns
    <3> QED BY <1>0, <1>1, <3>1, <3>2, LoadEnds
  <2>5. Calm'
    <3>1. UNCHANGED <<process, unflushed, child>>
      BY <1>1 DEF LoadDone
    <3>2. Undisturbed => process # "killed" /\ ~unflushed /\ child.up
      BY <1>0 DEF Calm
    <3> QED BY <1>0, <2>1, <3>1, <3>2, SameRow, CalmThread DEF Prepared
  <2> QED BY <1>0, <2>1, <2>3, <2>4, <2>5, SameRow, ThreadStep
<1>2. ASSUME LoadFails, NEW code \in {"internal", "vram"},
             run' = [run EXCEPT ![i].pc = "undoing", ![i].code = code]
      PROVE  IInv'
  <2> DEFINE r == [run[i] EXCEPT !.pc = "undoing", !.code = code]
  <2>1. /\ run' = [run EXCEPT ![i] = r]
        /\ r \in Thread /\ r.pc = "undoing" /\ r.code = code
        /\ r.phase = "loading"
    BY <1>0, <1>2 DEF Thread, Codes
  <2> HIDE DEF r
  <2>2. run'[i] = r
    BY ZenonT(60), <1>0, <2>1, OneRuns
  <2>3. Progress(i)'
    <3>1. /\ run'[i].pc = "undoing" /\ run'[i].phase = "loading"
          /\ run'[i].code \in {"internal", "vram"}
          /\ jobs'[i].state = "loading" /\ jobs'[i].seq <= 1
      BY <1>0, <2>1, <2>2
    <3> QED BY <3>1 DEF Progress, Before, Fatal
  <2>4. Child' /\ Shaped'
    <3>1. \A k \in Ids : ~Working(k)' /\ ~Equipped(k)'
      <4>1. run'[i].pc = "undoing"
        BY <2>1, <2>2
      <4>2. ~Working(i)' /\ ~Equipped(i)'
        BY <4>1 DEF Working, Equipped, Prepared
      <4> QED BY <1>0, <2>1, <4>2, OneRuns
    <3>2. Undoing' /\ ~Empty' /\ \A n \in Models : ~Loading(n)'
      BY <1>0, <2>1, OneRuns
    <3> QED BY <1>0, <1>2, <3>1, <3>2, LoadBreaks
  <2>5. Calm'
    <3>1. UNCHANGED <<process, unflushed, child>>
      BY <1>2 DEF LoadFails
    <3>2. Undisturbed => process # "killed" /\ ~unflushed
      BY <1>0 DEF Calm
    <3> QED BY <1>0, <2>1, <3>1, <3>2, SameRow, CalmThread DEF Prepared
  <2> QED BY <1>0, <2>1, <2>3, <2>4, <2>5, SameRow, ThreadStep
<1> QED BY <1>1, <1>2 DEF RunLoaded


\* While a thread runs that does not use its child, the child rests.
LEMMA Resting ==
  ASSUME TypeOK, Users, Child, NEW i \in Ids, Alive, ~Working(i),
         run[i].pc \notin {"off", "spawned", "undoing"}
  PROVE  messages = <<>> /\ Rested
<1>1. active = i /\ \A k \in Ids \ {i} : run[k].pc = "off"
  BY DEF Users
<1>2. \A m \in Targets : admin[m] = "off"
  BY <1>1, Shapes DEF Users
<1>3. \A m \in Models : m \in Targets
  BY Shapes
<1>4. ~Undoing /\ \A m \in Models : ~Loading(m)
  BY <1>1, <1>2, <1>3 DEF Undoing, Loading
<1>5. \A k \in Ids : ~Working(k)
  BY <1>1 DEF Working
<1> QED BY <1>4, <1>5 DEF Child, Rests, Rested

\* A run that finds itself cancelled fails; any other goes on.
LEMMA ChecksStep ==
  ASSUME IInv, NEW i \in Ids, RunChecks(i)
  PROVE  IInv'
<1>0. /\ TypeOK /\ Users /\ Threads /\ Child /\ Calm /\ Shaped
      /\ run[i].pc = "ready" /\ ~jobs[i].finished /\ jobs[i] \in JobRow
      /\ UNCHANGED <<jobs, active, handlers, supervised, output, stream,
                     faults>>
      /\ admin' = admin /\ output' \in SUBSET Ids /\ faults' \in 0..MaxFaults
      /\ jobs[i].state = "loading" /\ jobs[i].seq <= 1
      /\ jobs[i].seq <= Events + 1 /\ run[i].phase = "loading"
  <2>1. run[i].pc = "ready"
    BY DEF RunChecks
  <2>2. /\ jobs[i].state = "loading" /\ jobs[i].seq <= 1
        /\ run[i].phase = "loading" /\ jobs[i].seq \in Nat
    BY <2>1, Unfinished DEF Progress, Before
  <2> QED BY <2>1, <2>2, Unfinished, Types, Shapes DEF RunChecks, handlers
<1>1. PICK r \in Thread :
        /\ run' = [run EXCEPT ![i] = r] /\ r.phase = "loading"
        /\ \/ r.pc = "failing" /\ r.code = "cancelled" /\ jobs[i].cancelled
           \/ r.pc = "clear"
  BY <1>0, GoesTo, FailsWith DEF RunChecks, Codes, Places, Before
<1>2. run'[i] = r
  BY <1>0, <1>1, OneRuns
<1>3. Progress(i)'
  <2>1. CASE r.pc = "failing" /\ r.code = "cancelled" /\ jobs[i].cancelled
    <3>1. /\ run'[i].pc = "failing" /\ run'[i].code = "cancelled"
          /\ run'[i].phase = "loading" /\ jobs'[i].cancelled
          /\ jobs'[i].state = "loading" /\ jobs'[i].seq <= Events + 1
      BY <1>0, <1>1, <1>2, <2>1
    <3>2. Meant(i)'
      BY <3>1 DEF Meant
    <3> QED BY <3>1, <3>2 DEF Progress, Before, Codes
  <2>2. CASE r.pc = "clear"
    <3>1. /\ run'[i].pc = "clear" /\ run'[i].phase = "loading"
          /\ jobs'[i].state = "loading" /\ jobs'[i].seq <= 1
      BY <1>0, <1>1, <1>2, <2>2
    <3> QED BY <3>1 DEF Progress, Before
  <2> QED BY <1>1, <2>1, <2>2
<1>4. Child'
  <2>1. ~Working(i) /\ ~Working(i)' /\ Equipped(i)
    <3>1. run'[i].pc = "clear" \/ run'[i].code = "cancelled"
      BY <1>1, <1>2
    <3>2. run'[i].pc # "waiting"
      BY <1>1, <1>2
    <3> QED BY <1>0, <3>1, <3>2 DEF Working, Equipped, Prepared, Fatal
  <2>2. process = "killed" => jobs[i].seq = 0
    BY <1>0 DEF Child, Stale, Prepared
  <2>3. Alive => loaded = ModelOf[i]
    BY <1>0, <2>1 DEF Child
  <2>4. Remembers
    BY <1>0, <1>1, SameRow, ThreadMemory
  <2> QED BY <1>0, <1>1, <2>1, <2>2, <2>3, <2>4, ThreadKeeps
<1>5. Calm'
  BY <1>0, <1>1, SameRow, CalmQuiet DEF Prepared
<1> QED BY <1>0, <1>1, <1>3, <1>4, <1>5, SameRow, SameShape, ThreadStep

\* A run that has its directory looks whether its child is still there.
LEMMA CreatesStep ==
  ASSUME IInv, NEW i \in Ids, RunCreates(i)
  PROVE  IInv'
<1>0. /\ TypeOK /\ Users /\ Threads /\ Child /\ Calm /\ Shaped
      /\ run[i].pc = "clear" /\ ~jobs[i].finished /\ jobs[i] \in JobRow
      /\ UNCHANGED <<jobs, active, handlers, supervised, stream, faults>>
      /\ admin' = admin /\ output' \in SUBSET Ids /\ faults' \in 0..MaxFaults
      /\ jobs[i].state = "loading" /\ jobs[i].seq <= 1
      /\ jobs[i].seq <= Events + 1 /\ run[i] \in Thread
  <2>1. run[i].pc = "clear"
    BY DEF RunCreates
  <2>2. /\ jobs[i].state = "loading" /\ jobs[i].seq <= 1
        /\ jobs[i].seq \in Nat
    BY <2>1, Unfinished DEF Progress, Before
  <2> QED BY <2>1, <2>2, Unfinished, Types, Shapes DEF RunCreates, handlers
<1>1. PICK r \in Thread :
        /\ run' = [run EXCEPT ![i] = r]
        /\ \/ r.pc = "failing" /\ r.code = "internal"
           \/ r.pc = "created" /\ r.phase = "busy" /\ child.up
  <2>1. CASE Fail(i, "internal")
    BY <1>0, <2>1, FailsWith DEF Codes
  <2>2. CASE run' = [run EXCEPT ![i].phase = "busy",
                       ![i].pc = IF child.up THEN "created" ELSE "failing",
                       ![i].code = IF child.up THEN @ ELSE "internal"]
    <3> DEFINE r == [run[i] EXCEPT !.phase = "busy",
                       !.pc = IF child.up THEN "created" ELSE "failing",
                       !.code = IF child.up THEN @ ELSE "internal"]
    <3>1. run' = [run EXCEPT ![i] = r]
      BY <1>0, <2>2, Types
    <3>2. CASE child.up
      <4>1. r = [run[i] EXCEPT !.phase = "busy", !.pc = "created"]
        BY <1>0, <3>2 DEF Thread
      <4>2. r \in Thread /\ r.pc = "created" /\ r.phase = "busy"
        BY <1>0, <4>1 DEF Thread
      <4> QED BY <3>1, <3>2, <4>2
    <3>3. CASE ~child.up
      <4>1. r = [run[i] EXCEPT !.phase = "busy", !.pc = "failing",
                               !.code = "internal"]
        BY <1>0, <3>3 DEF Thread
      <4>2. r \in Thread /\ r.pc = "failing" /\ r.code = "internal"
        BY <1>0, <4>1 DEF Thread, Codes
      <4> QED BY <3>1, <4>2
    <3> QED BY <3>2, <3>3
  <2> QED BY <2>1, <2>2 DEF RunCreates
<1>2. run'[i] = r
  BY <1>0, <1>1, OneRuns
<1>3. Progress(i)'
  <2>1. CASE r.pc = "failing" /\ r.code = "internal"
    <3>1. /\ run'[i].pc = "failing" /\ run'[i].code = "internal"
          /\ jobs'[i].state = "loading" /\ jobs'[i].seq <= Events + 1
      BY <1>0, <1>1, <1>2, <2>1
    <3> QED BY <3>1 DEF Progress, Before, Codes
  <2>2. CASE r.pc = "created" /\ r.phase = "busy"
    <3>1. /\ run'[i].pc = "created" /\ run'[i].phase = "busy"
          /\ jobs'[i].state = "loading" /\ jobs'[i].seq <= 1
      BY <1>0, <1>1, <1>2, <2>2
    <3> QED BY <3>1 DEF Progress, Before
  <2> QED BY <1>1, <2>1, <2>2
<1>4. Child'
  <2>1. ~Working(i) /\ Equipped(i)
    BY <1>0 DEF Working, Equipped, Prepared
  <2>2. process = "killed" => jobs[i].seq = 0
    BY <1>0 DEF Child, Stale, Prepared
  <2>3. Alive => loaded = ModelOf[i] /\ messages = <<>> /\ Rested
    BY <1>0, <2>1, Resting DEF Child
  <2>4. Remembers
    BY <1>0, <1>1, SameRow, ThreadMemory
  <2> QED BY <1>0, <1>1, <2>1, <2>2, <2>3, <2>4, ThreadKeeps
<1>5. Calm'
  BY <1>0, <1>1, SameRow, CalmQuiet DEF Prepared
<1> QED BY <1>0, <1>1, <1>3, <1>4, <1>5, SameRow, SameShape, ThreadStep

\* What was said before is no news of this run: the one it would cancel is
\* over.
LEMMA Leftovers ==
  ASSUME TypeOK, Users, Threads, NEW i \in Ids, NEW k \in Ids,
         run[i].pc # "off", ~Silent(i), jobs[k].cancelled, Silent(k)
  PROVE  Meant(i)
<1>1. k # i /\ run[k].pc = "off"
  BY DEF Users
<1>2. jobs[k].finished /\ jobs[k].state \notin Terminals
  BY <1>1 DEF Silent, Terminals
<1> QED BY <1>2 DEF Meant, Abandoned

\* The child is told to generate, for nobody else and after nothing else.
LEMMA SendsStep ==
  ASSUME IInv, NEW i \in Ids, RunSends(i)
  PROVE  IInv'
<1>0. /\ TypeOK /\ Users /\ Threads /\ Child /\ Calm /\ Shaped
      /\ run[i].pc = "created" /\ ~jobs[i].finished /\ jobs[i] \in JobRow
      /\ UNCHANGED <<active, handlers, loaded, process, child, messages,
                     output, stream, faults>>
      /\ admin' = admin /\ output' \in SUBSET Ids /\ faults' \in 0..MaxFaults
      /\ jobs[i].state = "loading" /\ jobs[i].seq <= 1
      /\ jobs[i].seq <= Events + 1 /\ run[i].phase = "busy"
      /\ jobs[i].seq \in Nat
  <2>1. run[i].pc = "created"
    BY DEF RunSends
  <2>2. /\ jobs[i].state = "loading" /\ jobs[i].seq <= 1
        /\ run[i].phase = "busy" /\ jobs[i].seq \in Nat
    BY <2>1, Unfinished DEF Progress, Before
  <2> QED BY <2>1, <2>2, Unfinished, Types, Shapes DEF RunSends, handlers
<1>1. CASE /\ child.up /\ GoTo(i, "waiting")
           /\ inbox' = Append(inbox, [kind |-> "generate", of |-> i])
           /\ jobs' = [jobs EXCEPT ![i].state = "busy"] /\ UNCHANGED unflushed
  <2> DEFINE c == [kind |-> "generate", of |-> i]
             b == [jobs[i] EXCEPT !.state = "busy"]
  <2>1. PICK r \in Thread : run' = [run EXCEPT ![i] = r] /\ r.pc = "waiting"
                            /\ r.phase = "busy"
    BY <1>0, <1>1, GoesTo DEF Places
  <2>2. /\ jobs' = [jobs EXCEPT ![i] = b] /\ b \in JobRow
        /\ b.state = "busy" /\ b.seq = jobs[i].seq
        /\ b.finished = jobs[i].finished /\ b.cancelled = jobs[i].cancelled
    BY <1>0, <1>1 DEF JobRow
  <2>3. c \in Command /\ c.kind = "generate"
    BY Shapes
  <2>4. /\ inbox' \in Seq(Command) /\ Len(inbox') = Len(inbox) + 1
        /\ \A n \in 1..Len(inbox) : inbox'[n] = inbox[n]
        /\ inbox'[Len(inbox) + 1] = c /\ Len(inbox) \in Nat
    <3> HIDE DEF c
    <3>1. inbox' = Append(inbox, c) /\ inbox \in Seq(Command)
      BY <1>0, <1>1 DEF Shaped, c
    <3> QED BY <2>3, <3>1, AppendAt
  <2> HIDE DEF b
  <2>5. run'[i] = r /\ jobs'[i] = b
    BY <1>0, <2>1, <2>2, OneRuns, Types
  <2>6. Progress(i)'
    <3>1. /\ run'[i].pc = "waiting" /\ run'[i].phase = "busy"
          /\ jobs'[i].state = "busy" /\ jobs'[i].seq <= Events + 1
      BY <1>0, <2>1, <2>2, <2>5
    <3> QED BY <3>1 DEF Progress, Before
  <2>7. Remembers
    BY <1>0, <2>1, <2>2, ThreadMemory
  <2>8. ~Working(i) /\ Equipped(i) /\ Working(i)'
    BY <1>0, <2>1, <2>5 DEF Working, Equipped, Prepared
  <2>9. /\ \A k \in Ids \ {i} : /\ ~Working(k)' /\ ~Equipped(k)'
                                /\ run'[k].pc \notin Prepared \cup {"waiting"}
        /\ ~Undoing' /\ ~Empty' /\ \A m \in Models : ~Loading(m)'
    BY <1>0, <2>1, OneRuns
  <2>10. Alive' <=> Alive
    BY <1>0 DEF Alive
  <2>11. Told(i)' /\ (Alive => Unread(i)')
    <3>1. ASSUME Alive PROVE Told(i)' /\ Unread(i)'
      <4>1. messages = <<>> /\ Rested
        BY <1>0, <2>8, <3>1, Resting
      <4>2. Commanded(i)'
        <5>1. /\ Len(inbox') \in 1..Len(inbox') /\ inbox'[Len(inbox')] = c
              /\ \A k \in 1..Len(inbox') :
                   k # Len(inbox') => inbox'[k].kind = "cancel"
          BY <2>4, <4>1 DEF Rested, OnlyCancels
        <5>2. child'.thread # "generating"
          BY <1>0, <4>1 DEF Rested
        <5> QED BY <2>4, <5>1, <5>2 DEF Commanded
      <4>3. Unread(i)'
        BY <1>0, <2>2, <2>5, <4>1, <4>2 DEF Unread
      <4>4. Told(i)'
        BY <1>0, <4>1, NoneAt DEF Told
      <4> QED BY <4>3, <4>4
    <3>2. ASSUME ~Alive PROVE Told(i)'
      <4>1. process = "killed" /\ jobs[i].seq = 0
        <5>1. process = "killed"
          BY <1>0, <1>1, <3>2 DEF Alive, Child, Pipes, Shaped
        <5> QED BY <1>0, <5>1 DEF Child, Stale, Prepared
      <4>2. ~Silent(i)
        BY <1>0 DEF Silent
      <4>3. Len(messages) \in Nat
        BY <1>0, LenProperties DEF Shaped
      <4>4. ASSUME NEW n \in 1..Len(messages)
            PROVE  /\ messages[n].kind = "event" => 0 + n <= Events + 1
                   /\ messages[n].kind = "cancelled" => Meant(i)'
        <5>1. messages[n].kind = "cancelled" => Meant(i)
          BY <1>0, <4>1, <4>2, Leftovers DEF Child, Stale
        <5> QED BY <1>0, <2>7, <4>1, <4>3, <5>1 DEF Child, Stale, Remembers
      <4>5. jobs'[i].seq = 0 /\ process' = "killed" /\ messages' = messages
        BY <1>0, <2>2, <2>5, <4>1
      <4> QED BY <4>4, <4>5 DEF Told
    <3> QED BY <3>1, <3>2
  <2>12. Child'
    <3>1. Rests' /\ Loads' /\ Undoes'
      BY <2>8, <2>9 DEF Rests, Loads, Undoes
    <3>2. Serves' /\ \A k \in Ids : run'[k].pc = "waiting" => Heard(k)'
      BY <2>9, <2>10, <2>11 DEF Serves, Heard
    <3>3. \A k \in Ids : run'[k].pc \notin Prepared
      BY <2>1, <2>5, <2>9 DEF Prepared
    <3>4. Stale'
      BY <1>0, <2>7, <3>3, StaysStale DEF Child
    <3>5. Pipes'
      BY <1>0, <1>1, <2>9 DEF Child, Pipes
    <3>6. \A k \in Ids : Equipped(k)' /\ Alive' => loaded' = ModelOf[k]
      BY <1>0, <2>8, <2>9, <2>10 DEF Child
    <3>7. /\ ~child'.up => child' = Dead /\ inbox' = <<>>
          /\ Alive' /\ loaded' # Nothing => child'.model = loaded'
      BY <1>0, <1>1, <2>10 DEF Child
    <3> QED BY <3>1, <3>2, <3>4, <3>5, <3>6, <3>7 DEF Child
  <2>13. Calm'
    <3>1. Undisturbed => process' # "killed" /\ ~unflushed'
      BY <1>0, <1>1 DEF Calm
    <3> QED BY <1>0, <2>1, <2>2, <3>1, CalmThread DEF Prepared
  <2>14. Shaped'
    BY <1>0, <1>1, <2>4 DEF Shaped
  <2> QED BY <1>0, <2>1, <2>2, <2>6, <2>12, <2>13, <2>14, ThreadStep
<1>2. CASE WriteFails /\ Fail(i, "internal") /\ UNCHANGED <<inbox, jobs>>
  <2>1. PICK r \in Thread : run' = [run EXCEPT ![i] = r] /\ r.pc = "failing"
                            /\ r.code = "internal"
    BY <1>0, <1>2, FailsWith DEF Codes
  <2>2. run'[i] = r
    BY <1>0, <2>1, OneRuns
  <2>3. Progress(i)'
    <3>1. /\ run'[i].pc = "failing" /\ run'[i].code = "internal"
          /\ jobs'[i].state = "loading" /\ jobs'[i].seq <= Events + 1
      BY <1>0, <1>2, <2>1, <2>2
    <3> QED BY <3>1 DEF Progress, Before, Codes
  <2>4. Remembers
    BY <1>0, <1>2, <2>1, SameRow, ThreadMemory
  <2>5. Child'
    <3>1. \A k \in Ids : run'[k].pc \notin Prepared \cup {"waiting"}
      <4>1. run'[i].pc \notin Prepared \cup {"waiting"}
        BY <2>1, <2>2 DEF Prepared
      <4> QED BY ZenonT(60), <1>0, <2>1, <4>1, OneRuns
    <3>2. ~child.up /\ ~Alive'
      BY <1>0, <1>2 DEF WriteFails, Alive
    <3>3. Stale'
      BY <1>0, <2>4, <3>1, StaysStale DEF Child
    <3>4. Pipes'
      <4>1. ~Undoing' /\ ~Empty' /\ \A m \in Models : ~Loading(m)'
        BY <1>0, <2>1, OneRuns
      <4> QED BY <1>0, <1>2, <3>2, <4>1 DEF Child, Pipes, WriteFails
    <3>5. child' = Dead /\ inbox' = <<>>
      BY <1>0, <1>2, <3>2 DEF Child
    <3> QED BY <3>1, <3>2, <3>3, <3>4, <3>5, NoChild
  <2>6. Calm'
    <3>1. ~Undisturbed
      BY <1>0, <1>2 DEF Calm, WriteFails, Prepared
    <3> QED BY <1>0, <1>2, <2>1, <3>1, SameRow, CalmThread
  <2>7. Shaped'
    BY <1>0, <1>2 DEF Shaped, WriteFails
  <2> QED BY <1>0, <1>2, <2>1, <2>3, <2>5, <2>6, <2>7, SameRow, ThreadStep
<1> QED BY <1>1, <1>2 DEF RunSends

\* A run that waits no longer stops its child.
LEMMA TimesOutStep ==
  ASSUME IInv, NEW i \in Ids, RunTimesOut(i)
  PROVE  IInv'
<1>0. /\ TypeOK /\ Users /\ Threads /\ Child /\ Calm /\ Shaped
      /\ run[i].pc = "waiting" /\ ~jobs[i].finished /\ jobs[i] \in JobRow
      /\ UNCHANGED <<jobs, active, handlers, supervised, output, stream,
                     faults>>
      /\ admin' = admin /\ output' \in SUBSET Ids /\ faults' \in 0..MaxFaults
      /\ jobs[i].state = "busy" /\ jobs[i].seq <= Events + 1
  <2>1. run[i].pc = "waiting"
    BY DEF RunTimesOut
  <2>2. jobs[i].state = "busy" /\ jobs[i].seq <= Events + 1
    BY <2>1, Unfinished DEF Progress, Before
  <2> QED BY <2>1, <2>2, Unfinished, Types, Shapes DEF RunTimesOut, handlers
<1>1. PICK r \in Thread : run' = [run EXCEPT ![i] = r] /\ r.pc = "failing"
                          /\ r.code = "internal"
  BY <1>0, FailsWith DEF Codes, RunTimesOut
<1>2. run'[i] = r
  BY <1>0, <1>1, OneRuns
<1>3. Progress(i)'
  <2>1. /\ run'[i].pc = "failing" /\ run'[i].code = "internal"
        /\ jobs'[i].state = "busy" /\ jobs'[i].seq <= Events + 1
    BY <1>0, <1>1, <1>2
  <2> QED BY <2>1 DEF Progress, Before, Codes
<1>4. Child'
  <2>1. Working(i) /\ Equipped(i) /\ Working(i)'
    BY <1>0, <1>1, <1>2 DEF Working, Equipped, Fatal
  <2>2. Alive => loaded = ModelOf[i]
    BY <1>0, <2>1 DEF Child
  <2>3. Remembers
    BY <1>0, <1>1, SameRow, ThreadMemory
  <2> QED BY <1>0, <1>1, <2>1, <2>2, <2>3, ThreadKeeps DEF Prepared
<1>5. Calm'
  BY <1>0, <1>1, SameRow, CalmQuiet DEF Prepared
<1> QED BY <1>0, <1>1, <1>3, <1>4, <1>5, SameRow, SameShape, ThreadStep

\* Sealing asks nothing of the child.
LEMMA SealsStep ==
  ASSUME IInv, NEW i \in Ids, RunSeals(i)
  PROVE  IInv'
<1>0. /\ TypeOK /\ Users /\ Threads /\ Child /\ Calm /\ Shaped
      /\ run[i].pc = "sealing" /\ ~jobs[i].finished /\ jobs[i] \in JobRow
      /\ UNCHANGED <<active, handlers, supervised, output, stream, faults>>
      /\ admin' = admin /\ output' \in SUBSET Ids /\ faults' \in 0..MaxFaults
      /\ jobs[i].state = "busy" /\ jobs[i].seq <= Events + 1
      /\ jobs[i].seq \in Nat /\ run[i].phase = "sealing"
  <2>1. run[i].pc = "sealing"
    BY DEF RunSeals
  <2>2. /\ jobs[i].state = "busy" /\ jobs[i].seq <= Events + 1
        /\ run[i].phase = "sealing"
    BY <2>1, Unfinished DEF Progress, Before
  <2> QED BY <2>1, <2>2, Unfinished, Types, Shapes DEF RunSeals, handlers
<1>1. CASE deleting = Nothing /\ jobs' = Emitted(i) /\ GoTo(i, "sealed")
  <2>1. PICK r \in Thread : run' = [run EXCEPT ![i] = r] /\ r.pc = "sealed"
                            /\ r.phase = "sealing"
    BY <1>0, <1>1, GoesTo DEF Places
  <2>2. PICK b \in JobRow : /\ jobs' = [jobs EXCEPT ![i] = b]
                            /\ b.seq = jobs[i].seq + 1 /\ b.state = "busy"
                            /\ b.cancelled = jobs[i].cancelled
                            /\ b.finished = jobs[i].finished
    BY <1>0, <1>1, Emits, Shapes
  <2>3. run'[i] = r /\ jobs'[i] = b
    BY <1>0, <2>1, <2>2, OneRuns, Types
  <2>4. Progress(i)'
    <3>1. /\ run'[i].pc = "sealed" /\ run'[i].phase = "sealing"
          /\ jobs'[i].state = "busy" /\ jobs'[i].seq <= Events + 2
      BY <1>0, <2>1, <2>2, <2>3, Shapes
    <3> QED BY <3>1 DEF Progress, Before
  <2>5. Remembers
    BY <1>0, <2>1, <2>2, ThreadMemory
  <2>6. Child'
    <3>1. run'[i].pc = "sealed"
      BY <2>1, <2>3
    <3>2. ~Working(i) /\ ~Working(i)' /\ ~Equipped(i)'
      BY <1>0, <3>1 DEF Working, Equipped, Prepared
    <3> QED BY <1>0, <2>1, <2>5, <3>2, ThreadKeeps DEF Prepared
  <2>7. Calm'
    BY <1>0, <2>1, <2>2, CalmQuiet DEF Prepared
  <2> QED BY <1>0, <1>1, <2>1, <2>2, <2>4, <2>6, <2>7, SameShape, ThreadStep
<1>2. ASSUME UNCHANGED jobs, NEW code \in {"vram", "internal"}, Fail(i, code)
      PROVE  IInv'
  <2>1. PICK r \in Thread : run' = [run EXCEPT ![i] = r] /\ r.pc = "failing"
                            /\ r.code = code
    BY <1>0, <1>2, FailsWith DEF Codes
  <2>2. run'[i] = r
    BY <1>0, <2>1, OneRuns
  <2>3. Progress(i)'
    <3>1. /\ run'[i].pc = "failing" /\ run'[i].code \in {"vram", "internal"}
          /\ jobs'[i].state = "busy" /\ jobs'[i].seq <= Events + 1
      BY <1>0, <1>2, <2>1, <2>2
    <3> QED BY <3>1 DEF Progress, Before, Codes
  <2>4. Remembers
    BY <1>0, <1>2, <2>1, SameRow, ThreadMemory
  <2>5. Child'
    <3>1. ~Working(i) /\ Equipped(i)
      BY <1>0 DEF Working, Equipped
    <3>2. Alive => loaded = ModelOf[i] /\ messages = <<>> /\ Rested
      BY <1>0, <3>1, Resting DEF Child
    <3> QED BY <1>0, <2>1, <2>4, <3>1, <3>2, ThreadKeeps DEF Prepared
  <2>6. Calm'
    BY <1>0, <1>2, <2>1, SameRow, CalmQuiet DEF Prepared
  <2> QED BY <1>0, <1>2, <2>1, <2>3, <2>5, <2>6, SameRow, SameShape, ThreadStep
<1> QED BY <1>1, <1>2 DEF RunSeals, Unlocked

\* A run ends when the child has told how, or is gone.
LEMMA EndsStep ==
  ASSUME IInv, NEW i \in Ids, RunDone(i) \/ RunFails(i)
  PROVE  IInv'
<1>0. /\ TypeOK /\ Users /\ Threads /\ Child /\ Calm /\ Shaped
      /\ run[i].pc \in {"sealed", "failing"} /\ GoTo(i, "closing")
      /\ ~jobs[i].finished /\ jobs[i] \in JobRow /\ deleting = Nothing
      /\ UNCHANGED <<active, handlers, supervised, output, stream, faults>>
      /\ admin' = admin /\ output' \in SUBSET Ids /\ faults' \in 0..MaxFaults
      /\ jobs[i].seq < Events + 3
  <2>1. run[i].pc \in {"sealed", "failing"}
    BY DEF RunDone, RunFails
  <2>2. jobs[i].seq \in Nat /\ Progress(i)
    BY <2>1, Unfinished
  <2>3. jobs[i].seq < Events + 3
    <3>1. CASE run[i].pc = "sealed"
      <4>1. jobs[i].seq <= Events + 2
        BY <2>2, <3>1 DEF Progress, Before
      <4> QED BY <2>2, <4>1, Shapes
    <3>2. CASE run[i].pc = "failing"
      <4>1. jobs[i].seq <= Events + 1
        BY <2>2, <3>2 DEF Progress, Before
      <4> QED BY <2>2, <4>1, Shapes
    <3> QED BY <2>1, <3>1, <3>2
  <2> QED BY <2>1, <2>3, Unfinished, Types
          DEF RunDone, RunFails, handlers, Unlocked
<1>1. PICK t \in Terminals : jobs' = Ended(i, t)
  <2>1. CASE RunDone(i)
    BY <2>1 DEF RunDone, Terminals
  <2>2. CASE RunFails(i)
    <3>1. run[i].code \in Codes
      BY <1>0, <2>2 DEF RunFails, Threads, Progress, Before
    <3>2. TerminalsOf(run[i].code) \subseteq Terminals
      BY <3>1 DEF TerminalsOf, Codes, Terminals
    <3> QED BY <2>2, <3>2 DEF RunFails
  <2> QED BY <2>1, <2>2
<1>2. PICK r \in Thread : run' = [run EXCEPT ![i] = r] /\ r.pc = "closing"
  BY <1>0, GoesTo DEF Places
<1>3. PICK b \in JobRow : /\ jobs' = [jobs EXCEPT ![i] = b] /\ b.state = t
                          /\ b.finished = jobs[i].finished
                          /\ b.cancelled = jobs[i].cancelled
  BY <1>0, <1>1, EndsWith
<1>4. run'[i] = r /\ jobs'[i] = b
  BY <1>0, <1>2, <1>3, OneRuns, Types
<1>5. Progress(i)'
  <2>1. run'[i].pc = "closing" /\ jobs'[i].state # "none"
    BY <1>2, <1>3, <1>4 DEF Terminals
  <2> QED BY <2>1 DEF Progress, Before
<1>6. Remembers
  BY <1>0, <1>2, <1>3, ThreadMemory
<1>7. Child'
  <2>1. ~(Working(i) /\ Alive)
    <3>1. run[i].pc = "failing" /\ run[i].code \in Fatal => process = "none"
      <4>1. run[i].pc = "failing" => RunFails(i)
        BY DEF RunDone
      <4> QED BY <4>1 DEF RunFails, Unloads
    <3> QED BY <1>0, <3>1 DEF Working, Alive
  <2>2. run'[i].pc = "closing"
    BY <1>2, <1>4
  <2>3. ~Working(i)' /\ ~Equipped(i)'
    BY <2>2 DEF Working, Equipped, Prepared
  <2> QED BY <1>0, <1>2, <1>6, <2>1, <2>3, ThreadKeeps DEF Prepared
<1>8. Calm'
  BY <1>0, <1>2, <1>3, CalmQuiet DEF Prepared
<1> QED BY <1>0, <1>2, <1>3, <1>5, <1>7, <1>8, SameShape, ThreadStep

\* A child that cannot be stopped leaves its run without a terminal event, and
\* what it had said to whoever is next.
LEMMA UnloadsStep ==
  ASSUME IInv, NEW i \in Ids, RunUnloads(i)
  PROVE  IInv'
<1>0. /\ TypeOK /\ Users /\ Threads /\ Child /\ Calm /\ Shaped
      /\ run[i].pc \in {"emptying", "undoing", "failing"}
      /\ run[i].pc = "failing" => run[i].code \in Fatal
      /\ ~jobs[i].finished /\ jobs[i] \in JobRow /\ Progress(i)
      /\ UNCHANGED <<jobs, active, handlers, output, stream>>
      /\ admin' = admin /\ output' \in SUBSET Ids
      /\ faults \in 0..MaxFaults /\ faults \in Nat
      /\ jobs[i].state \in {"loading", "busy"}
      /\ jobs[i].seq <= Events + 1 /\ jobs[i].seq \in Nat
      /\ run[i].pc # "failing" =>
           /\ jobs[i].state = "loading" /\ jobs[i].seq <= 1
           /\ run[i].phase = "loading"
      /\ run[i].pc = "undoing" => run[i].code \in Fatal
      /\ run[i] \in Thread
  <2>1. /\ run[i].pc \in {"emptying", "undoing", "failing"}
        /\ run[i].pc = "failing" => run[i].code \in Fatal
    BY DEF RunUnloads, Unloads
  <2>2. Progress(i) /\ jobs[i].seq \in Nat
    BY <2>1, Unfinished
  <2>3. run[i].pc # "failing" =>
          /\ jobs[i].state = "loading" /\ jobs[i].seq <= 1
          /\ run[i].phase = "loading"
          /\ run[i].pc = "undoing" => run[i].code \in Fatal
    BY <2>1, <2>2 DEF Progress, Before
  <2>4. run[i].pc = "failing" =>
          jobs[i].state \in {"loading", "busy"} /\ jobs[i].seq <= Events + 1
    BY <2>2 DEF Progress, Before
  <2>5. jobs[i].state \in {"loading", "busy"} /\ jobs[i].seq <= Events + 1
    BY <2>1, <2>2, <2>3, <2>4, Shapes
  <2> QED BY <2>1, <2>2, <2>3, <2>5, Unfinished, Types, EngineAssumption
          DEF RunUnloads, handlers
<1>1. PICK r \in Thread :
        /\ run' = [run EXCEPT ![i] = r]
        /\ \/ Terminates /\ r = run[i]
           \/ Closes /\ run[i].pc = "emptying" /\ r.pc = "empty"
              /\ r.phase = "loading"
           \/ Closes /\ run[i].pc # "emptying" /\ r.pc = "failing"
              /\ r.code \in Fatal
           \/ Raises /\ run[i].pc = "failing" /\ r.pc = "closing"
           \/ Raises /\ run[i].pc # "failing" /\ r.pc = "failing"
              /\ r.code \in Fatal
  <2>1. CASE Terminates /\ UNCHANGED run
    BY <1>0, <2>1, Types
  <2>2. CASE Closes /\ run[i].pc = "emptying" /\ GoTo(i, "empty")
    BY <1>0, <2>2, GoesTo DEF Places, Before
  <2>3. CASE Closes /\ run[i].pc # "emptying" /\ GoTo(i, "failing")
    <3> DEFINE r == [run[i] EXCEPT !.pc = "failing"]
    <3>1. run' = [run EXCEPT ![i] = r]
      BY <2>3 DEF GoTo
    <3>2. r \in Thread /\ r.pc = "failing" /\ r.code \in Fatal
      BY <1>0, <2>3 DEF Thread
    <3> QED BY <2>3, <3>1, <3>2
  <2>4. CASE Raises /\ run[i].pc = "failing" /\ GoTo(i, "closing")
    BY <1>0, <2>4, GoesTo DEF Places
  <2>5. CASE Raises /\ run[i].pc # "failing" /\ Fail(i, "internal")
    BY <1>0, <2>5, FailsWith DEF Codes, Fatal
  <2> QED BY <2>1, <2>2, <2>3, <2>4, <2>5 DEF RunUnloads
<1>2. run'[i] = r /\ jobs'[i] = jobs[i]
  BY <1>0, <1>1, OneRuns
<1>3. Progress(i)'
  <2>1. CASE r = run[i]
    <3>1. UNCHANGED <<jobs, run>>
      BY <1>0, <1>1, <2>1, Types
    <3> QED BY <1>0, <3>1 DEF Progress, Meant, Abandoned
  <2>2. CASE r.pc = "empty" /\ run[i].pc = "emptying" /\ r.phase = "loading"
    <3>1. /\ run'[i].pc = "empty" /\ run'[i].phase = "loading"
          /\ jobs'[i].state = "loading" /\ jobs'[i].seq <= 1
      BY <1>0, <1>2, <2>2
    <3> QED BY <3>1 DEF Progress, Before
  <2>3. CASE r.pc = "failing" /\ r.code \in Fatal
    <3>1. /\ run'[i].pc = "failing" /\ run'[i].code \in {"vram", "internal"}
          /\ jobs'[i].state \in {"loading", "busy"}
          /\ jobs'[i].seq <= Events + 1
      BY <1>0, <1>2, <2>3 DEF Fatal
    <3> QED BY <3>1 DEF Progress, Before, Codes
  <2>4. CASE r.pc = "closing"
    <3>1. run'[i].pc = "closing" /\ jobs'[i].state # "none"
      BY <1>0, <1>2, <2>4
    <3> QED BY <3>1 DEF Progress, Before
  <2> QED BY <1>1, <2>1, <2>2, <2>3, <2>4
<1>4. Remembers
  BY <1>0, <1>1, SameRow, ThreadMemory
<1>5. Alive /\ Raises => Stale'
  <2> SUFFICES ASSUME Alive, Raises PROVE Stale'
    OBVIOUS
  <2>0. /\ child' = child /\ messages' = messages
        /\ Len(messages) \in Nat
    BY <1>0, LenProperties DEF Raises, Alive, Shaped
  <2>1. \A k \in Ids : run'[k].pc \notin Prepared
    <3>1. run'[i].pc \notin Prepared
      BY <1>0, <1>1, <1>2, <2>0 DEF Prepared, Raises, Alive, Terminates, Closes
    <3> QED BY <1>0, <1>1, <3>1, OneRuns
  <2>2. CASE run[i].pc = "failing"
    <3>1. Working(i) /\ Equipped(i)
      BY <1>0, <2>2 DEF Working, Equipped
    <3>2. Told(i) /\ (Unread(i) \/ Tells(i) \/ Rested)
      BY <1>0, <3>1 DEF Child, Serves
    <3>3. child.thread = "generating" => Tells(i)
      BY <3>2 DEF Unread, Commanded, Rested
    <3>4. child.model = ModelOf[i]
      <4>1. loaded = ModelOf[i] /\ ModelOf[i] # Nothing
        BY <1>0, <3>1, Shapes DEF Child
      <4> QED BY <1>0, <4>1 DEF Child
    <3>5. r.pc = "closing"
      BY <1>0, <1>1, <2>2 DEF Raises, Alive, Terminates, Closes, Dead
    <3>6. Silent(i)'
      BY <1>0, <1>2, <3>5 DEF Silent
    <3>7. Meant(i) => \E k \in Ids : jobs'[k].cancelled /\ Silent(k)'
      <4>1. jobs[i].cancelled => jobs'[i].cancelled /\ Silent(i)'
        BY <1>2, <3>6
      <4>2. ASSUME NEW k \in Ids, Abandoned(k), jobs[k].cancelled
            PROVE  jobs'[k].cancelled /\ Silent(k)'
        <5>1. jobs[k].finished /\ run[k].pc = "off" /\ Progress(k)
              /\ jobs[k].state \notin Terminals /\ jobs[k] \in JobRow
          BY <1>0, <4>2, Types DEF Abandoned, Threads
        <5>2. jobs[k].state # "none"
          BY <5>1 DEF Progress, Before, NoJob
        <5>3. Silent(k)
          BY <5>1, <5>2 DEF Silent, JobRow
        <5> QED BY <1>4, <4>2, <5>3 DEF Remembers
      <4> QED BY <4>1, <4>2 DEF Meant
    <3>9. \A n \in 1..Len(messages) :
            /\ messages[n].kind = "event" => n <= Events + 1
            /\ messages[n].kind = "cancelled" =>
                 \E k \in Ids : jobs'[k].cancelled /\ Silent(k)'
      <4> SUFFICES ASSUME NEW n \in 1..Len(messages)
                   PROVE  /\ messages[n].kind = "event" => n <= Events + 1
                          /\ messages[n].kind = "cancelled" => Meant(i)
        BY <3>7
      <4>1. /\ messages[n].kind = "event" => jobs[i].seq + n <= Events + 1
            /\ messages[n].kind = "cancelled" => Meant(i)
        BY <3>2 DEF Told
      <4> QED BY <1>0, <2>0, <4>1, Shapes
    <3>10. ASSUME child.thread = "generating"
           PROVE  /\ child'.gen \in Ids /\ child'.model = ModelOf[child'.gen]
                  /\ child'.cancelled => Meant(child.gen)'
      <4>1. Generates(i)
        BY <3>3, <3>10 DEF Tells
      <4>2. child.gen = i /\ (child.cancelled => Meant(i)')
        BY <1>4, <4>1 DEF Generates, Remembers
      <4> QED BY <2>0, <3>4, <4>2 DEF Meant
    <3> QED BY <2>0, <2>1, <3>9, <3>10 DEF Stale
  <2>3. CASE run[i].pc # "failing"
    <3>1. child.thread # "generating" /\ \A n \in 1..Len(messages) :
            messages[n].kind \notin {"event", "cancelled"}
      <4>1. CASE run[i].pc = "undoing"
        <5>1. Undoing
          BY <4>1 DEF Undoing
        <5> QED BY <1>0, <5>1 DEF Child, Undoes
      <4>2. CASE run[i].pc = "emptying"
        <5>1. messages = <<>> /\ Rested
          BY <1>0, <4>2, Resting DEF Working
        <5> QED BY <5>1, NoneAt DEF Rested
      <4> QED BY <1>0, <2>3, <4>1, <4>2
    <3> QED BY <2>0, <2>1, <3>1 DEF Stale
  <2> QED BY <2>2, <2>3
<1>6. Child' /\ Shaped'
  <2>1. \A k \in Ids : run'[k].pc \notin Prepared \cup {"waiting"}
    <3>1. run'[i].pc \notin Prepared \cup {"waiting"}
      BY <1>0, <1>1, <1>2 DEF Prepared
    <3> QED BY <1>0, <1>1, <3>1, OneRuns
  <2>2. /\ \A m \in Models : ~Loading(m)'
        /\ Undoing' => r.pc = "undoing" /\ Undoing
        /\ Empty' => r.pc = "empty"
    BY <1>0, <1>1, OneRuns
  <2>3. Undoing' => Undoing /\ Terminates
    BY <1>0, <1>1, <2>2
  <2>4. Empty' => Closes
    BY <1>0, <1>1, <2>2
  <2>5. Terminates \/ Closes \/ Raises
    BY <1>1
  <2> QED BY <1>0, <1>4, <1>5, <2>1, <2>2, <2>3, <2>4, <2>5, Unloaded
<1>7. Calm' /\ faults' \in 0..MaxFaults
  <2>1. CASE Terminates \/ Closes
    <3>1. UNCHANGED faults /\ r.pc \notin {"closing", "jammed"}
      <4>1. ~Raises
        BY <1>0, <2>1 DEF Terminates, Closes, Raises, Fault
      <4> QED BY <1>0, <1>1, <2>1, <4>1 DEF Terminates, Closes
    <3>2. Undisturbed => process' # "killed" /\ ~unflushed'
      BY <1>0, <2>1 DEF Calm, Terminates, Closes
    <3>3. r.pc \notin Prepared \cup {"spawned"}
      BY <1>0, <1>1 DEF Prepared
    <3> QED BY <1>0, <1>1, <3>1, <3>2, <3>3, SameRow, CalmThread
  <2>2. CASE Raises
    <3>1. ~Undisturbed'
      <4>1. CASE unflushed
        <5>1. ~Undisturbed
          BY <1>0, <4>1 DEF Calm
        <5>2. faults' = faults \/ faults' = faults + 1
          BY <2>2 DEF Raises, Fault
        <5>3. Undisturbed' => Undisturbed
          BY <1>0, <5>2 DEF Undisturbed
        <5> QED BY <5>1, <5>3
      <4>2. CASE ~unflushed
        BY <1>0, <2>2, <4>2 DEF Raises, Fault, Undisturbed
      <4> QED BY <4>1, <4>2
    <3>2. faults' \in 0..MaxFaults
      BY <1>0, <2>2, EngineAssumption DEF Raises, Fault
    <3> QED BY <3>1, <3>2 DEF Calm
  <2> QED BY <1>1, <2>1, <2>2
<1>8. r.pc # "off"
  BY <1>0, <1>1
<1> QED BY <1>0, <1>1, <1>3, <1>6, <1>7, <1>8, SameRow, ThreadStep

\* A run that is over leaves a child that rests, or none.
LEMMA ClosesStep ==
  ASSUME IInv, NEW i \in Ids, RunCloses(i)
  PROVE  IInv'
<1> DEFINE b == [jobs[i] EXCEPT !.finished = TRUE]
<1>0. /\ TypeOK /\ Users /\ Threads /\ Child /\ Calm /\ Streams /\ Shaped
      /\ run[i].pc = "closing" /\ active' = Nothing /\ deleting = Nothing
      /\ jobs' = [jobs EXCEPT ![i] = b] /\ run' = [run EXCEPT ![i] = NoRun]
      /\ UNCHANGED <<post, admin, maintenance, deleting, supervised, stream,
                     faults>>
      /\ output' \in SUBSET Ids
      /\ jobs[i].state # "none" /\ ~jobs[i].finished /\ active = i
      /\ jobs[i] \in JobRow
  <2>1. run[i].pc = "closing"
    BY DEF RunCloses
  <2>2. jobs[i].state # "none"
    BY <2>1, Unfinished DEF Progress, Before
  <2>3. active = i
    BY <2>1 DEF IInv, Users
  <2> QED BY <2>1, <2>2, <2>3, Unfinished, Types
          DEF RunCloses, handlers, Unlocked
<1>1. /\ b \in JobRow /\ b.state = jobs[i].state /\ b.finished
      /\ b.cancelled = jobs[i].cancelled
      /\ NoRun.pc = "off" /\ NoRun \in Thread
  BY <1>0, Shapes DEF JobRow, NoRun
<1> HIDE DEF b
<1>2. /\ run'[i] = NoRun /\ jobs'[i] = b
      /\ \A k \in Ids \ {i} : jobs'[k] = jobs[k] /\ run'[k] = run[k]
      /\ \A k \in Ids \ {i} : run[k].pc = "off"
  BY <1>0, Types DEF Users
<1>3. TypeOK'
  <2>1. jobs' \in [Ids -> JobRow] /\ run' \in [Ids -> Thread]
    BY <1>0, <1>1, Types
  <2> QED BY <1>0, <2>1, Types, SameShape, TypedNext
<1>4. Users'
  BY <1>0, <1>1, <1>2, Shapes DEF Users
<1>5. Threads'
  <2>1. Progress(i)' /\ (run'[i].pc # "off" => ~jobs'[i].finished)
    <3>1. /\ run'[i].pc = "off" /\ jobs'[i].state # "none"
          /\ jobs'[i].finished
      BY <1>0, <1>1, <1>2
    <3> QED BY <3>1 DEF Progress, Before
  <2>2. ASSUME NEW k \in Ids \ {i}
        PROVE  Progress(k)' /\ (run'[k].pc # "off" => ~jobs'[k].finished)
    <3>1. run'[k] = run[k] /\ jobs'[k] = jobs[k] /\ run[k].pc = "off"
      BY <1>2
    <3>2. jobs[k] = NoJob \/ (jobs[k].state # "none" /\ jobs[k].finished)
      BY <1>0, <3>1 DEF Threads, Progress, Before
    <3>3. Progress(k)'
      BY <3>1, <3>2 DEF Progress, Before
    <3> QED BY <3>1, <3>3
  <2>3. \A k \in Ids : deleting' # k
    BY <1>0, Shapes
  <2> QED BY <2>1, <2>2, <2>3 DEF Threads
<1>6. Streams'
  BY <1>0, <1>2 DEF Streams
<1>7. /\ Remembers
      /\ \A k \in Ids \ {i} : Silent(k)' <=> Silent(k)
      /\ Silent(i)' <=> Silent(i)
  <2>1. \A k \in Ids \ {i} : Silent(k)' <=> Silent(k)
    BY <1>2 DEF Silent
  <2>2. Silent(i)' <=> Silent(i)
    BY <1>0, <1>1, <1>2 DEF Silent
  <2>3. \A k \in Ids : /\ jobs[k].cancelled => jobs'[k].cancelled
                       /\ Abandoned(k) => Abandoned(k)'
    BY <1>0, <1>1, <1>2 DEF Abandoned
  <2>4. Remembers
    <3>1. \A k \in Ids : Silent(k) => Silent(k)'
      BY <2>1, <2>2
    <3> QED BY <2>3, <3>1 DEF Remembers, Meant
  <2> QED BY <2>1, <2>2, <2>4
<1>8. Child'
  <2>1. ~Working(i) /\ ~Working(i)' /\ ~Equipped(i)'
    BY <1>0, <1>1, <1>2 DEF Working, Equipped, Prepared
  <2> QED BY <1>0, <1>1, <1>7, <2>1, ThreadKeeps DEF Prepared
<1>9. Calm'
  <2>1. Undisturbed' <=> Undisturbed
    BY <1>0, <1>1, <1>2 DEF Undisturbed
  <2>2. \A k \in Ids : run'[k].pc \notin Prepared \cup {"spawned"}
    BY <1>1, <1>2 DEF Prepared
  <2>3. UNCHANGED <<process, unflushed>>
    BY <1>0 DEF supervised
  <2> QED BY <1>0, <1>7, <2>1, <2>2, <2>3 DEF Calm
<1> QED BY <1>3, <1>4, <1>5, <1>6, <1>8, <1>9 DEF IInv

\* So does one whose directory could not be removed.
LEMMA JamsStep ==
  ASSUME IInv, NEW i \in Ids, RunJams(i)
  PROVE  IInv'
<1>0. /\ TypeOK /\ Users /\ Threads /\ Child /\ Shaped
      /\ run[i].pc = "closing" /\ jobs[i] \in JobRow
      /\ UNCHANGED <<jobs, active, handlers, supervised, stream>>
      /\ admin' = admin /\ output' \in SUBSET Ids
      /\ faults' \in 0..MaxFaults /\ faults' # 0
      /\ jobs[i].state # "none"
  <2>1. run[i].pc = "closing"
    BY DEF RunJams
  <2>2. jobs[i].state # "none"
    BY <2>1, Unfinished DEF Progress, Before
  <2>3. faults' \in 0..MaxFaults /\ faults' # 0
    BY <2>1, Unfinished, EngineAssumption DEF RunJams, Fault
  <2> QED BY <2>1, <2>2, <2>3, Unfinished, Types DEF RunJams, handlers
<1>1. PICK r \in Thread : run' = [run EXCEPT ![i] = r] /\ r.pc = "jammed"
  BY <1>0, GoesTo DEF Places, RunJams
<1>2. /\ run'[i] = r
      /\ \A k \in Ids \ {i} : run'[k] = run[k]
  BY <1>0, <1>1, Types
<1>3. Progress(i)'
  <2>1. run'[i].pc = "jammed" /\ jobs'[i].state # "none"
    BY <1>0, <1>1, <1>2
  <2> QED BY <2>1 DEF Progress, Before
<1>4. Remembers
  <2>1. \A k \in Ids : Silent(k) => Silent(k)'
    BY <1>0, <1>1, <1>2 DEF Silent
  <2> QED BY <1>0, <2>1 DEF Remembers, Meant, Abandoned
<1>5. Child'
  <2>1. ~Working(i) /\ ~Working(i)' /\ ~Equipped(i)'
    BY <1>0, <1>1, <1>2 DEF Working, Equipped, Prepared
  <2> QED BY <1>0, <1>1, <1>4, <2>1, ThreadKeeps DEF Prepared
<1>6. Calm'
  BY <1>0 DEF Calm, Undisturbed
<1> QED BY <1>0, <1>1, <1>3, <1>5, <1>6, SameRow, SameShape, ThreadStep

\* A run reads a message: one of its events, or how it ended.
LEMMA ReadsEvent ==
  ASSUME IInv, NEW i \in Ids, RunReceives(i), Head(messages).kind = "event"
  PROVE  IInv'
<1>0. /\ TypeOK /\ Users /\ Threads /\ Child /\ Calm /\ Shaped
      /\ run[i].pc = "waiting" /\ messages # <<>> /\ deleting = Nothing
      /\ messages' = Tail(messages)
      /\ UNCHANGED <<active, handlers, loaded, process, unflushed, child,
                     inbox, output, stream, faults, run>>
      /\ jobs' = Emitted(i) /\ ~jobs[i].finished /\ jobs[i] \in JobRow
      /\ admin' = admin /\ output' \in SUBSET Ids /\ faults' \in 0..MaxFaults
      /\ jobs[i].state = "busy" /\ run[i].phase = "busy"
      /\ jobs[i].seq \in Nat /\ run[i] \in Thread
  <2>1. run[i].pc = "waiting"
    BY DEF RunReceives
  <2>2. jobs[i].state = "busy" /\ run[i].phase = "busy"
    BY <2>1, Unfinished DEF Progress, Before
  <2> QED BY <2>1, <2>2, Unfinished, Types
          DEF RunReceives, handlers, Codes, Unlocked
<1>1. /\ messages \in Seq(Message) /\ messages' \in Seq(Message)
      /\ Len(messages') = Len(messages) - 1 /\ Len(messages) \in Nat \ {0}
      /\ Head(messages) = messages[1]
      /\ \A n \in 1..Len(messages') :
           messages'[n] = messages[n + 1] /\ n + 1 \in 1..Len(messages)
  BY <1>0, TailAt DEF Shaped
<1>2. /\ Heard(i) /\ jobs[i].seq + 1 <= Events + 1 /\ child.sent \in Nat
  <2>1. Heard(i)
    BY <1>0 DEF Child
  <2>2. jobs[i].seq + 1 <= Events + 1
    <3>1. 1 \in 1..Len(messages) /\ messages[1].kind = "event"
      BY <1>0, <1>1
    <3> QED BY <2>1, <3>1 DEF Heard, Told
  <2>3. child.sent \in Nat
    BY <1>0 DEF Shaped, ChildRow
  <2> QED BY <2>1, <2>2, <2>3
<1>3. PICK b \in JobRow : /\ jobs' = [jobs EXCEPT ![i] = b]
                          /\ b.seq = jobs[i].seq + 1
                          /\ b.state = jobs[i].state
                          /\ b.cancelled = jobs[i].cancelled
                          /\ b.finished = jobs[i].finished
  BY <1>0, <1>2, Emits, Shapes
<1>10. PICK r \in Thread : r = run[i] /\ run' = [run EXCEPT ![i] = r]
  BY <1>0, Types
<1>4. /\ jobs'[i] = b /\ run'[i] = r /\ run'[i] = run[i]
      /\ jobs'[i].seq = jobs[i].seq + 1 /\ r.pc = "waiting"
  BY <1>0, <1>3, <1>10, Types
<1>5. Progress(i)'
  <2>1. /\ run'[i].pc = "waiting" /\ run'[i].phase = "busy"
        /\ jobs'[i].state = "busy" /\ jobs'[i].seq <= Events + 1
    BY <1>0, <1>2, <1>3, <1>4
  <2> QED BY <2>1 DEF Progress, Before
<1>6. Remembers
  <2>1. /\ jobs[i].cancelled => b.cancelled
        /\ run[i].pc \notin {"closing", "jammed"}
    BY <1>0, <1>3
  <2> QED BY <1>0, <1>3, <1>10, <2>1, ThreadMemory
<1>7. Child'
  <2>1. Told(i)'
    <3> SUFFICES ASSUME NEW n \in 1..Len(messages')
                 PROVE  /\ process # "killed" =>
                             messages'[n].id \in {i, Nothing}
                        /\ messages'[n].kind = "event" =>
                             jobs'[i].seq + n <= Events + 1
                        /\ messages'[n].kind = "cancelled" => Meant(i)'
      BY <1>0 DEF Told
    <3>1. /\ messages'[n] = messages[n + 1] /\ n \in Nat
          /\ process # "killed" => messages[n + 1].id \in {i, Nothing}
          /\ messages[n + 1].kind = "event" =>
               jobs[i].seq + (n + 1) <= Events + 1
          /\ messages[n + 1].kind = "cancelled" => Meant(i)
      BY <1>1, <1>2 DEF Heard, Told
    <3>2. jobs'[i].seq + n = jobs[i].seq + (n + 1)
      BY SMTT(30), <1>0, <1>4, <3>1
    <3> QED BY <1>6, <3>1, <3>2 DEF Remembers
  <2>2. /\ OnlyCancels' <=> OnlyCancels
        /\ Rested' <=> Rested
        /\ Alive' <=> Alive
        /\ Generates(i) => Generates(i)'
    <3>1. OnlyCancels' <=> OnlyCancels
      BY <1>0 DEF OnlyCancels
    <3> QED BY <1>0, <1>6, <3>1 DEF Rested, Alive, Generates, Remembers
  <2>3. ASSUME Tells(i) PROVE Tells(i)'
    <3>1. /\ jobs[i].seq + Len(messages) <= child.sent + 1
          /\ \A n \in 1..Len(messages) : messages[n].kind = "event"
      BY <2>3 DEF Tells
    <3>2. jobs'[i].seq + Len(messages') <= child'.sent + 1
      BY <1>0, <1>1, <1>2, <1>3, <1>4, <3>1
    <3>3. \A n \in 1..Len(messages') : messages'[n].kind = "event"
      BY <1>1, <3>1
    <3> QED BY <2>2, <2>3, <3>2, <3>3 DEF Tells
  <2>4. ASSUME HasTold PROVE HasTold'
    <3>1. /\ messages[Len(messages)].kind # "event"
          /\ \A k \in 1..Len(messages) :
               k # Len(messages) => messages[k].kind = "event"
      BY <2>4 DEF HasTold
    <3>2. Len(messages) # 1
      BY <1>0, <1>1, <3>1
    <3>3. /\ Len(messages') \in 1..Len(messages') /\ messages' # <<>>
          /\ messages'[Len(messages')] = messages[Len(messages)]
      BY <1>1, <3>2
    <3>4. \A k \in 1..Len(messages') :
            k # Len(messages') => messages'[k].kind = "event"
      BY <1>1, <3>1
    <3> QED BY <2>2, <2>4, <3>1, <3>3, <3>4 DEF HasTold
  <2>5. Heard(i)'
    <3>1. Alive => Tells(i) \/ HasTold
      BY <1>0, <1>2 DEF Heard, Unread
    <3> QED BY <2>1, <2>2, <2>3, <2>4, <3>1 DEF Heard
  <2>6. /\ \A k \in Ids \ {i} : /\ ~Working(k)' /\ ~Equipped(k)'
                                /\ run'[k].pc \notin Prepared \cup {"waiting"}
        /\ Working(i)' /\ Equipped(i)
        /\ ~Undoing' /\ ~Empty' /\ \A m \in Models : ~Loading(m)'
    <3>1. Working(i)' /\ Equipped(i)
      BY <1>0, <1>4 DEF Working, Equipped
    <3> QED BY <1>0, <1>4, <1>10, <3>1, OneRuns
  <2>7. Rests' /\ Loads' /\ Undoes' /\ Serves'
    <3>1. Rests' /\ Loads' /\ Undoes'
      BY <2>6 DEF Rests, Loads, Undoes
    <3>2. Alive => Told(i)' /\ (Tells(i)' \/ Rested')
      BY <2>2, <2>5, <1>0, <1>2, <2>1, <2>3 DEF Heard, Unread, HasTold
    <3> QED BY <2>2, <2>6, <3>1, <3>2 DEF Serves
  <2>8. Stale'
    <3> SUFFICES ASSUME process = "killed" PROVE Stale'
      BY <1>0 DEF Stale
    <3>1. ASSUME child.thread = "generating"
          PROVE  /\ child'.gen \in Ids /\ child'.model = ModelOf[child'.gen]
                 /\ child'.cancelled => Meant(child.gen)'
      <4>1. PICK g \in Ids : g = child.gen
        BY <1>0, <3>1 DEF Child, Stale
      <4>2. child.model = ModelOf[g] /\ (child.cancelled => Meant(g)')
        BY <1>0, <1>6, <3>1, <4>1 DEF Child, Stale, Remembers
      <4> QED BY <1>0, <4>1, <4>2 DEF Meant
    <3>2. ASSUME NEW n \in 1..Len(messages')
          PROVE  /\ messages'[n].kind = "event" => n <= Events + 1
                 /\ messages'[n].kind = "cancelled" =>
                      \E k \in Ids : jobs'[k].cancelled /\ Silent(k)'
      <4>1. /\ messages'[n] = messages[n + 1] /\ n + 1 \in 1..Len(messages)
            /\ n \in Nat
        BY <1>1
      <4>2. /\ messages[n + 1].kind = "event" => n + 1 <= Events + 1
            /\ messages[n + 1].kind = "cancelled" =>
                 \E k \in Ids : jobs[k].cancelled /\ Silent(k)
        BY <1>0, <4>1 DEF Child, Stale
      <4> QED BY <1>6, <4>1, <4>2, Shapes DEF Remembers
    <3>3. \A k \in Ids : run'[k].pc \notin Prepared
      BY <1>0, <1>4, <2>6 DEF Prepared
    <3> QED BY <1>0, <3>1, <3>2, <3>3 DEF Stale
  <2>9. Pipes'
    BY <1>0, <2>6 DEF Child, Pipes
  <2>10. \A k \in Ids : Equipped(k)' /\ Alive' => loaded' = ModelOf[k]
    BY <1>0, <2>2, <2>6 DEF Child
  <2>11. /\ ~child'.up => child' = Dead /\ inbox' = <<>>
         /\ Alive' /\ loaded' # Nothing => child'.model = loaded'
    BY <1>0, <2>2 DEF Child
  <2>12. \A k \in Ids : run'[k].pc = "waiting" => Heard(k)'
    BY <2>5, <2>6
  <2> QED BY <2>7, <2>8, <2>9, <2>10, <2>11, <2>12 DEF Child
<1>8. Calm'
  <2>1. Undisturbed => process' # "killed" /\ ~unflushed'
    BY <1>0 DEF Calm
  <2>2. r.pc \notin Prepared \cup {"spawned", "closing", "jammed"}
    BY <1>4 DEF Prepared
  <2> QED BY ZenonT(60), <1>0, <1>3, <1>10, <2>1, <2>2, CalmThread
<1>9. Shaped'
  BY <1>0, <1>1 DEF Shaped
<1> QED BY <1>0, <1>3, <1>4, <1>10, <1>5, <1>7, <1>8, <1>9, ThreadStep

\* With the last message of a generation the child is at rest, or is to be
\* stopped.
LEMMA ReadsEnd ==
  ASSUME IInv, NEW i \in Ids, RunReceives(i), Head(messages).kind # "event"
  PROVE  IInv'
<1>0. /\ TypeOK /\ Users /\ Threads /\ Child /\ Calm /\ Shaped
      /\ run[i].pc = "waiting" /\ messages # <<>>
      /\ messages' = Tail(messages)
      /\ UNCHANGED <<active, handlers, loaded, process, unflushed, child,
                     inbox, output, stream, faults, jobs>>
      /\ ~jobs[i].finished /\ jobs[i] \in JobRow /\ run[i] \in Thread
      /\ admin' = admin /\ output' \in SUBSET Ids /\ faults' \in 0..MaxFaults
      /\ jobs[i].state = "busy" /\ run[i].phase = "busy"
      /\ jobs[i].seq <= Events + 1
  <2>1. run[i].pc = "waiting"
    BY DEF RunReceives
  <2>2. /\ jobs[i].state = "busy" /\ run[i].phase = "busy"
        /\ jobs[i].seq <= Events + 1
    BY <2>1, Unfinished DEF Progress, Before
  <2> QED BY <2>1, <2>2, Unfinished, Types DEF RunReceives, handlers
<1>1. /\ messages \in Seq(Message) /\ messages' \in Seq(Message)
      /\ Len(messages') = Len(messages) - 1 /\ Len(messages) \in Nat \ {0}
      /\ Head(messages) = messages[1]
      /\ \A n \in 1..Len(messages') :
           messages'[n] = messages[n + 1] /\ n + 1 \in 1..Len(messages)
  BY <1>0, TailAt DEF Shaped
<1>2. Heard(i)
  BY <1>0 DEF Child
<1>3. Alive => messages' = <<>> /\ Rested
  <2> SUFFICES ASSUME Alive PROVE messages' = <<>> /\ Rested
    OBVIOUS
  <2>1. /\ Rested
        /\ \A k \in 1..Len(messages) :
             k # Len(messages) => messages[k].kind = "event"
    <3>1. HasTold
      <4>1. ~Unread(i)
        BY <1>0 DEF Unread
      <4>2. ~Tells(i)
        BY <1>1 DEF Tells
      <4> QED BY <1>2, <4>1, <4>2 DEF Heard
    <3> QED BY <3>1 DEF HasTold
  <2>2. Len(messages') = 0
    BY <1>1, <2>1
  <2> QED BY <1>1, <2>1, <2>2, EmptySeq
<1>4. PICK r \in Thread :
        /\ run' = [run EXCEPT ![i] = r]
        /\ \/ r.pc = "sealing" /\ r.phase = "sealing"
           \/ /\ r.pc = "failing" /\ r.code \in Codes /\ r.phase = "busy"
              /\ r.code = "cancelled" => Meant(i)
  <2>1. CASE Head(messages).kind = "result" /\ ~jobs[i].cancelled
             /\ run' = [run EXCEPT ![i].pc = "sealing", ![i].phase = "sealing"]
    <3> DEFINE r == [run[i] EXCEPT !.pc = "sealing", !.phase = "sealing"]
    <3>1. run' = [run EXCEPT ![i] = r]
      BY <1>0, <2>1, Types
    <3>2. r \in Thread /\ r.pc = "sealing" /\ r.phase = "sealing"
      BY <1>0 DEF Thread
    <3> QED BY <3>1, <3>2
  <2>2. ASSUME NEW code \in Codes, Fail(i, code),
               code = "cancelled" => Meant(i)
        PROVE  \E r \in Thread :
                 /\ run' = [run EXCEPT ![i] = r]
                 /\ r.pc = "failing" /\ r.code \in Codes /\ r.phase = "busy"
                 /\ r.code = "cancelled" => Meant(i)
    BY <1>0, <2>2, FailsWith
  <2>3. Head(messages).kind = "cancelled" => Meant(i)
    BY <1>1, <1>2 DEF Heard, Told
  <2>4. jobs[i].cancelled => Meant(i)
    BY DEF Meant
  <2>5. CASE \E code \in Codes :
               Fail(i, code) /\ (code = "cancelled" => Meant(i))
    BY <2>2, <2>5
  <2>6. \/ Head(messages).kind = "result" /\ ~jobs[i].cancelled
           /\ run' = [run EXCEPT ![i].pc = "sealing", ![i].phase = "sealing"]
        \/ \E code \in Codes :
             Fail(i, code) /\ (code = "cancelled" => Meant(i))
    BY <2>3, <2>4 DEF RunReceives, Codes
  <2> QED BY <2>1, <2>5, <2>6
<1>5. run'[i] = r /\ jobs'[i] = jobs[i]
  BY <1>0, <1>4, OneRuns
<1>6. Remembers
  BY <1>0, <1>4, SameRow, ThreadMemory
<1>7. Progress(i)'
  <2>1. CASE r.pc = "sealing" /\ r.phase = "sealing"
    <3>1. /\ run'[i].pc = "sealing" /\ run'[i].phase = "sealing"
          /\ jobs'[i].state = "busy" /\ jobs'[i].seq <= Events + 1
      BY <1>0, <1>5, <2>1
    <3> QED BY <3>1 DEF Progress, Before
  <2>2. CASE /\ r.pc = "failing" /\ r.code \in Codes /\ r.phase = "busy"
             /\ r.code = "cancelled" => Meant(i)
    <3>1. /\ run'[i].pc = "failing" /\ run'[i].code \in Codes
          /\ run'[i].phase = "busy"
          /\ jobs'[i].state = "busy" /\ jobs'[i].seq <= Events + 1
          /\ run'[i].code = "cancelled" => Meant(i)'
      BY <1>0, <1>5, <1>6, <2>2 DEF Remembers
    <3> QED BY <3>1 DEF Progress, Before
  <2> QED BY <1>4, <2>1, <2>2
<1>8. Child'
  <2>1. /\ \A k \in Ids \ {i} : /\ ~Working(k)' /\ ~Equipped(k)'
                                /\ run'[k].pc \notin Prepared \cup {"waiting"}
        /\ ~Undoing' /\ ~Empty' /\ \A m \in Models : ~Loading(m)'
    BY <1>0, <1>4, OneRuns
  <2>2. run'[i].pc \notin Prepared \cup {"waiting"} /\ Equipped(i)
    BY <1>0, <1>4, <1>5 DEF Equipped, Working, Prepared
  <2>3. (Alive' <=> Alive) /\ (Rested' <=> Rested)
    BY <1>0 DEF Alive, Rested, OnlyCancels
  <2>4. Rests' /\ Loads' /\ Undoes'
    BY <1>0, <1>3, <2>1, <2>3 DEF Rests, Loads, Undoes, Rested
  <2>5. Serves'
    BY <1>3, <2>3, NoneAt DEF Serves, Told
  <2>6. Stale'
    <3> SUFFICES ASSUME process = "killed" PROVE Stale'
      BY <1>0 DEF Stale
    <3>1. ASSUME child.thread = "generating"
          PROVE  /\ child'.gen \in Ids /\ child'.model = ModelOf[child'.gen]
                 /\ child'.cancelled => Meant(child.gen)'
      <4>1. PICK g \in Ids : g = child.gen
        BY <1>0, <3>1 DEF Child, Stale
      <4>2. child.model = ModelOf[g] /\ (child.cancelled => Meant(g)')
        BY <1>0, <1>6, <3>1, <4>1 DEF Child, Stale, Remembers
      <4> QED BY <1>0, <4>1, <4>2 DEF Meant
    <3>2. ASSUME NEW n \in 1..Len(messages')
          PROVE  /\ messages'[n].kind = "event" => n <= Events + 1
                 /\ messages'[n].kind = "cancelled" =>
                      \E k \in Ids : jobs'[k].cancelled /\ Silent(k)'
      <4>1. /\ messages'[n] = messages[n + 1] /\ n + 1 \in 1..Len(messages)
            /\ n \in Nat
        BY <1>1
      <4>2. /\ messages[n + 1].kind = "event" => n + 1 <= Events + 1
            /\ messages[n + 1].kind = "cancelled" =>
                 \E k \in Ids : jobs[k].cancelled /\ Silent(k)
        BY <1>0, <4>1 DEF Child, Stale
      <4> QED BY <1>6, <4>1, <4>2, Shapes DEF Remembers
    <3>3. \A k \in Ids : run'[k].pc \notin Prepared
      BY <2>1, <2>2
    <3> QED BY <1>0, <3>1, <3>2, <3>3 DEF Stale
  <2>7. Pipes'
    BY <1>0, <2>1 DEF Child, Pipes
  <2>8. \A k \in Ids : Equipped(k)' /\ Alive' => loaded' = ModelOf[k]
    BY <1>0, <2>1, <2>2, <2>3 DEF Child
  <2>9. /\ ~child'.up => child' = Dead /\ inbox' = <<>>
        /\ Alive' /\ loaded' # Nothing => child'.model = loaded'
    BY <1>0, <2>3 DEF Child
  <2>10. \A k \in Ids : run'[k].pc # "waiting"
    BY <2>1, <2>2
  <2> QED BY <2>4, <2>5, <2>6, <2>7, <2>8, <2>9, <2>10 DEF Child
<1>9. Calm'
  <2>1. Undisturbed => process' # "killed" /\ ~unflushed'
    BY <1>0 DEF Calm
  <2>2. r.pc \notin Prepared \cup {"spawned", "closing", "jammed"}
    BY <1>4 DEF Prepared
  <2> QED BY <1>0, <1>4, <2>1, <2>2, SameRow, CalmThread
<1>10. Shaped' /\ r.pc # "off"
  BY <1>0, <1>1, <1>4 DEF Shaped
<1> QED BY <1>0, <1>4, <1>7, <1>8, <1>9, <1>10, SameRow, ThreadStep

\* Every step of a run keeps the invariant.
LEMMA RunSteps ==
  ASSUME IInv, NEW i \in Ids, Run(i) \/ RunJams(i)
  PROVE  IInv'
BY LoadsStep, SpawnsStep, LoadedStep, ChecksStep, CreatesStep, SendsStep,
   ReadsEvent, ReadsEnd, TimesOutStep, SealsStep, EndsStep, UnloadsStep,
   ClosesStep, JamsStep DEF Run

-----------------------------------------------------------------------------
(* Commands and the child.                                                 *)

\* Users stay the same.
LEMMA SameUsers ==
  ASSUME UNCHANGED <<admin, run>>
  PROVE  /\ \A i \in Ids : /\ Working(i)' <=> Working(i)
                           /\ Equipped(i)' <=> Equipped(i)
         /\ \A m \in Models : Loading(m)' <=> Loading(m)
         /\ Undoing' <=> Undoing
         /\ Empty' <=> Empty
BY DEF Working, Equipped, Loading, Undoing, Empty

\* A DELETE marks its attempt and takes the lock while there is a child to
\* tell.
LEMMA CancelStep ==
  ASSUME IInv, NEW i \in Ids, Cancel(i)
  PROVE  IInv'
<1> DEFINE b == [jobs[i] EXCEPT !.cancelled = TRUE]
<1>0. /\ TypeOK /\ Users /\ Threads /\ Child /\ Calm /\ Streams /\ Shaped
      /\ jobs[i].state \in {"loading", "busy"} /\ deleting = Nothing
      /\ jobs' = [jobs EXCEPT ![i] = b]
      /\ UNCHANGED <<active, post, admin, maintenance, run, supervised, output,
                     stream, faults>>
      /\ deleting' \in {i, Nothing}
      /\ jobs[i] \in JobRow
  BY Types DEF IInv, Cancel, MayCancel, Unlocked
<1>1. /\ b \in JobRow /\ b.cancelled /\ b.seq = jobs[i].seq
      /\ b.state = jobs[i].state /\ b.finished = jobs[i].finished
  BY <1>0 DEF JobRow
<1> HIDE DEF b
<1>2. /\ jobs'[i] = b
      /\ \A k \in Ids \ {i} : jobs'[k] = jobs[k]
  BY <1>0, Types
<1>3. \A k \in Ids :
        /\ jobs[k].cancelled => jobs'[k].cancelled
        /\ jobs'[k].seq = jobs[k].seq /\ jobs'[k].state = jobs[k].state
        /\ jobs'[k].finished = jobs[k].finished
        /\ Abandoned(k)' <=> Abandoned(k)
        /\ Silent(k)' <=> Silent(k)
  BY <1>0, <1>1, <1>2 DEF Abandoned, Silent
<1>4. Remembers
  BY <1>3 DEF Remembers, Meant
<1>5. TypeOK'
  <2>1. jobs' \in [Ids -> JobRow]
    BY <1>0, <1>1, Types
  <2> QED BY <1>0, <2>1, Types, SameShape, TypedNext
<1>6. Users'
  <2>1. \A k \in Ids : post[k] = "validating" => jobs'[k] = NoJob
    BY <1>0, <1>2 DEF Users, NoJob
  <2> QED BY <1>0, <2>1 DEF Users
<1>7. Threads'
  <2>1. ASSUME NEW k \in Ids PROVE Progress(k)'
    <3>1. Progress(k)
      BY <1>0 DEF Threads
    <3>2. /\ run'[k] = run[k] /\ jobs'[k].state = jobs[k].state
          /\ jobs'[k].seq = jobs[k].seq /\ jobs'[k].finished = jobs[k].finished
          /\ Meant(k) => Meant(k)'
      BY <1>0, <1>3, <1>4 DEF Remembers
    <3>3. jobs[k] = NoJob => jobs'[k] = NoJob
      BY <1>0, <1>2 DEF NoJob
    <3>4. CASE run[k].pc = "off"
      BY <3>1, <3>2, <3>3, <3>4 DEF Progress, Before
    <3>5. CASE run[k].pc \in Before
      BY <3>1, <3>2, <3>5 DEF Progress, Before
    <3>6. CASE run[k].pc \in {"waiting", "sealing", "sealed"}
      BY <3>1, <3>2, <3>6 DEF Progress, Before
    <3>7. CASE run[k].pc = "failing"
      BY <3>1, <3>2, <3>7 DEF Progress, Before
    <3>8. CASE run[k].pc \in {"closing", "jammed"}
      BY <3>1, <3>2, <3>8 DEF Progress, Before
    <3>9. run[k] \in Thread
      BY <1>0, Types
    <3> QED BY <3>4, <3>5, <3>6, <3>7, <3>8, <3>9 DEF Thread, Before
  <2>2. \A k \in Ids : run'[k].pc # "off" => ~jobs'[k].finished
    BY <1>0, <1>3 DEF Threads
  <2>3. \A k \in Ids : deleting' = k =>
          jobs'[k].cancelled /\ jobs'[k].state \in {"loading", "busy"}
    BY <1>0, <1>1, <1>2, Shapes
  <2> QED BY <2>1, <2>2, <2>3 DEF Threads
<1>8. Streams'
  BY <1>0, <1>3 DEF Streams
<1>9. Child'
  <2>1. SameUse
    BY <1>0, SameUsers DEF SameUse
  <2>2. process = "killed" => \A k \in Ids :
          run'[k].pc \in Prepared => jobs'[k].seq = 0
    BY <1>0, <1>3 DEF Child, Stale
  <2> QED BY <1>0, <1>3, <1>4, <2>1, <2>2, SupervisorUnseen
<1>10. Calm'
  <2>1. ~Undisturbed'
    BY <1>1, <1>2 DEF Undisturbed
  <2> QED BY <2>1 DEF Calm
<1> QED BY <1>5, <1>6, <1>7, <1>8, <1>9, <1>10 DEF IInv

\* A step of the child, or of who writes to it, is one of no other actor.
LEMMA ChildStep ==
  ASSUME IInv, UNCHANGED <<jobs, active, post, admin, maintenance, run,
                           output, stream>>,
         deleting' \in {deleting, Nothing},
         Shaped', faults' \in 0..MaxFaults, Child', Calm'
  PROVE  IInv'
<1>0. TypeOK /\ Users /\ Threads /\ Streams
  BY DEF IInv
<1>1. Users' /\ Streams'
  BY <1>0 DEF Users, Streams
<1>2. \A i \in Ids : Progress(i)' = Progress(i)
  BY DEF Progress, Meant, Abandoned
<1>3. \A i \in Ids : deleting' = i => deleting = i
  BY Shapes
<1>4. Threads'
  BY <1>0, <1>2, <1>3 DEF Threads
<1>5. TypeOK'
  BY <1>0, Types, TypedNext
<1> QED BY <1>1, <1>4, <1>5 DEF IInv

\* What is said of the attempts does not change with the child.
LEMMA SameMeaning ==
  ASSUME UNCHANGED <<jobs, run>>
  PROVE  \A k \in Ids : (Meant(k)' <=> Meant(k)) /\ (Silent(k)' <=> Silent(k))
BY DEF Meant, Abandoned, Silent

\* A cancel that is sent was meant for whoever uses the child, and is void for
\* any later one.
LEMMA CancelSendsStep ==
  ASSUME IInv, NEW i \in Ids, CancelSends(i)
  PROVE  IInv'
<1> DEFINE c == [kind |-> "cancel", of |-> i]
<1>0. /\ TypeOK /\ Users /\ Threads /\ Child /\ Calm /\ Shaped
      /\ deleting = i /\ deleting' = Nothing
      /\ UNCHANGED <<jobs, active, post, admin, maintenance, run, loaded,
                     process, child, messages, output, stream, faults>>
      /\ jobs[i].cancelled /\ jobs[i].state \in {"loading", "busy"}
      /\ faults' \in 0..MaxFaults
  BY Types DEF IInv, CancelSends, Threads
<1>1. /\ \A k \in Ids : /\ Working(k)' <=> Working(k)
                        /\ Equipped(k)' <=> Equipped(k)
      /\ \A m \in Models : Loading(m)' <=> Loading(m)
      /\ (Undoing' <=> Undoing) /\ (Empty' <=> Empty) /\ (Alive' <=> Alive)
  BY <1>0, SameUsers DEF Alive
<1>2. \A k \in Ids : (Meant(k)' <=> Meant(k)) /\ (Silent(k)' <=> Silent(k))
  BY <1>0, SameMeaning
<1>3. ASSUME NEW k \in Ids, run[k].pc # "off" PROVE Meant(k)
  <2>1. CASE k = i
    BY <1>0, <2>1 DEF Meant
  <2>2. CASE k # i
    <3>1. run[i].pc = "off" /\ Progress(i)
      BY <1>0, <1>3, <2>2 DEF Users, Threads
    <3>2. jobs[i].finished /\ jobs[i].state \notin Terminals
      BY <1>0, <3>1 DEF Progress, Before, NoJob, Terminals
    <3> QED BY <1>0, <3>2 DEF Meant, Abandoned
  <2> QED BY <2>1, <2>2
<1>4. Calm'
  BY <1>0 DEF Calm, Undisturbed
<1>5. \A k \in Ids : Told(k) => Told(k)'
  BY <1>0, <1>2 DEF Told
<1>6. Stale'
  <2> SUFFICES ASSUME process = "killed" PROVE Stale'
    BY <1>0 DEF Stale
  <2>1. ASSUME child.thread = "generating"
        PROVE  /\ child'.gen \in Ids /\ child'.model = ModelOf[child'.gen]
               /\ child'.cancelled => Meant(child.gen)'
    <3>1. PICK g \in Ids : g = child.gen
      BY <1>0, <2>1 DEF Child, Stale
    <3>2. child.model = ModelOf[g] /\ (child.cancelled => Meant(g)')
      BY <1>0, <1>2, <2>1, <3>1 DEF Child, Stale
    <3> QED BY <1>0, <3>1, <3>2 DEF Meant
  <2>2. \A n \in 1..Len(messages) :
          /\ messages[n].kind = "event" => n <= Events + 1
          /\ messages[n].kind = "cancelled" =>
               \E k \in Ids : jobs'[k].cancelled /\ Silent(k)'
    BY <1>0, <1>2 DEF Child, Stale
  <2>3. \A k \in Ids : run'[k].pc \in Prepared => jobs'[k].seq = 0
    BY <1>0 DEF Child, Stale
  <2> QED BY <1>0, <2>1, <2>2, <2>3 DEF Stale
<1>7. CASE WriteFails /\ UNCHANGED inbox
  <2>1. ~child'.up /\ ~Alive' /\ child' = Dead /\ inbox' = <<>>
    BY <1>0, <1>7 DEF WriteFails, Alive, Child
  <2>2. \A k \in Ids : run'[k].pc = "waiting" => Told(k)'
    BY <1>0, <1>5 DEF Child, Heard
  <2>3. Pipes'
    BY <1>0, <1>1, <1>7 DEF Child, Pipes, WriteFails
  <2>4. Shaped'
    BY <1>0, <1>7 DEF Shaped, WriteFails
  <2>5. Child'
    BY <1>6, <2>1, <2>2, <2>3, NoChild
  <2> QED BY <1>0, <1>4, <2>4, <2>5, ChildStep
<1>8. CASE child.up /\ inbox' = Append(inbox, c) /\ UNCHANGED unflushed
  <2>0. c \in Command /\ c.kind = "cancel" /\ inbox \in Seq(Command)
    BY <1>0, Shapes DEF Shaped
  <2>1. /\ inbox' \in Seq(Command) /\ Len(inbox') = Len(inbox) + 1
        /\ \A n \in 1..Len(inbox) : inbox'[n] = inbox[n]
        /\ inbox'[Len(inbox) + 1].kind = "cancel" /\ Len(inbox) \in Nat
        /\ inbox' # <<>>
    <3> HIDE DEF c
    <3>1. inbox' = Append(inbox, c)
      BY <1>8 DEF c
    <3> QED BY <2>0, <3>1, AppendAt
  <2>2. \A n \in 1..Len(inbox') : n \in 1..Len(inbox) \/ n = Len(inbox) + 1
    BY <2>1
  <2>3. /\ OnlyCancels => OnlyCancels'
        /\ Rested => Rested'
        /\ HasTold => HasTold'
    <3>1. OnlyCancels => OnlyCancels'
      BY <2>1, <2>2 DEF OnlyCancels
    <3> QED BY <1>0, <3>1 DEF Rested, HasTold
  <2>4. ASSUME NEW k \in Ids, run[k].pc # "off"
        PROVE  (Unread(k) => Unread(k)') /\ (Tells(k) => Tells(k)')
    <3>1. Meant(k)'
      BY <1>2, <1>3, <2>4
    <3>2. Commanded(k) => Commanded(k)'
      <4> SUFFICES ASSUME NEW n \in 1..Len(inbox),
                          inbox[n] = [kind |-> "generate", of |-> k],
                          \A q \in 1..Len(inbox) :
                            q # n => inbox[q].kind = "cancel",
                          child.thread # "generating"
                   PROVE  Commanded(k)'
        BY DEF Commanded
      <4>1. n \in 1..Len(inbox') /\ inbox'[n] = inbox[n]
        BY <2>1
      <4>2. \A q \in 1..Len(inbox') : q # n => inbox'[q].kind = "cancel"
        BY <2>1, <2>2
      <4> QED BY <1>0, <3>1, <4>1, <4>2 DEF Commanded
    <3>3. Generates(k) => Generates(k)'
      BY <1>0, <2>3, <3>1 DEF Generates
    <3> QED BY <1>0, <3>2, <3>3 DEF Unread, Tells
  <2>5. Rests'
    BY <1>0, <1>1, <2>3 DEF Child, Rests
  <2>6. Loads'
    <3> SUFFICES ASSUME NEW m \in Models, Loading(m), Alive
                 PROVE  /\ loaded = Nothing /\ child.thread = "none"
                        /\ \/ /\ inbox' # <<>>
                              /\ inbox'[1] = [kind |-> "load", of |-> m]
                              /\ \A n \in 2..Len(inbox') :
                                   inbox'[n].kind = "cancel"
                              /\ messages = <<>>
                           \/ /\ OnlyCancels' /\ Len(messages) = 1
                              /\ messages[1].kind \in {"loaded", "internal"}
                              /\ messages[1].kind = "loaded" =>
                                   child.model = m
      BY <1>0, <1>1 DEF Loads
    <3>1. CASE /\ inbox # <<>> /\ inbox[1] = [kind |-> "load", of |-> m]
               /\ \A n \in 2..Len(inbox) : inbox[n].kind = "cancel"
               /\ messages = <<>>
      <4>1. Len(inbox) # 0
        BY <2>0, <3>1, EmptySeq
      <4>2. inbox'[1] = [kind |-> "load", of |-> m]
        BY <2>1, <3>1, <4>1
      <4>3. \A n \in 2..Len(inbox') : inbox'[n].kind = "cancel"
        BY <2>1, <3>1
      <4> QED BY <1>0, <2>1, <3>1, <4>2, <4>3 DEF Child, Loads
    <3> QED BY <1>0, <2>3, <3>1 DEF Child, Loads
  <2>7. Undoes'
    BY <1>0, <1>1, <2>1, <2>2 DEF Child, Undoes
  <2>8. \A k \in Ids : Working(k) \/ run[k].pc = "waiting" => run[k].pc # "off"
    BY DEF Working
  <2>9. Serves'
    BY <1>0, <1>1, <1>5, <2>3, <2>4, <2>8 DEF Child, Serves
  <2>10. ASSUME NEW k \in Ids, run'[k].pc = "waiting" PROVE Heard(k)'
    <3>1. Heard(k) /\ run[k].pc # "off"
      BY <1>0, <2>10 DEF Child
    <3> QED BY <1>1, <1>5, <2>3, <2>4, <3>1 DEF Heard
  <2>11. Pipes'
    BY <1>0, <1>1, <1>8 DEF Child, Pipes
  <2>12. /\ ~child'.up => child' = Dead /\ inbox' = <<>>
         /\ Alive' /\ loaded' # Nothing => child'.model = loaded'
         /\ \A k \in Ids : Equipped(k)' /\ Alive' => loaded' = ModelOf[k]
    BY <1>0, <1>1, <1>8 DEF Child
  <2>13. Child'
    BY <1>6, <2>5, <2>6, <2>7, <2>9, <2>10, <2>11, <2>12 DEF Child
  <2>14. Shaped'
    BY <1>0, <1>8, <2>1 DEF Shaped
  <2> QED BY <1>0, <1>4, <2>13, <2>14, ChildStep
<1> QED BY <1>7, <1>8 DEF CancelSends

\* What the child says is well formed.
LEMMA SayTypes ==
  ASSUME Shaped, NEW kind, NEW i,
         kind \in {"loaded", "event", "result", "busy", "exit"} \cup Codes,
         i \in Ids \cup {Nothing}, Say(kind, i)
  PROVE  /\ messages' \in Seq(Message) /\ messages' # <<>>
         /\ Len(messages') = Len(messages) + 1 /\ Len(messages) \in Nat
         /\ \A n \in 1..Len(messages) : messages'[n] = messages[n]
         /\ messages'[Len(messages')].kind = kind
         /\ messages'[Len(messages')].id = i
         /\ \A n \in 1..Len(messages') :
              n \in 1..Len(messages) \/ n = Len(messages')
<1> DEFINE e == [kind |-> kind, id |-> i]
<1>1. e \in Message /\ e.kind = kind /\ e.id = i
  BY DEF Message
<1>2. messages' = Append(messages, e)
  BY DEF Say
<1> HIDE DEF e
<1>3. messages \in Seq(Message)
  BY DEF Shaped
<1>4. /\ messages' \in Seq(Message) /\ messages' # <<>>
      /\ Len(messages') = Len(messages) + 1 /\ Len(messages) \in Nat
      /\ \A n \in 1..Len(messages) : messages'[n] = messages[n]
      /\ messages'[Len(messages')] = e
  BY <1>1, <1>2, <1>3, AppendAt
<1> QED BY <1>1, <1>4

\* A child that does something is alive, and its step is its own.
LEMMA ChildMoves ==
  ASSUME IInv, Works,
         UNCHANGED <<jobs, active, handlers, run, loaded, process, unflushed,
                     output, stream, faults>>,
         child' \in ChildRow, child'.up, inbox' \in Seq(Command),
         messages' \in Seq(Message),
         loaded # Nothing => child'.model = loaded,
         Rests', Loads', Undoes', Serves',
         \A i \in Ids : run'[i].pc = "waiting" => Heard(i)'
  PROVE  IInv'
<1>0. TypeOK /\ Users /\ Child /\ Calm /\ Shaped /\ faults \in 0..MaxFaults
  BY Types DEF IInv
<1>1. Alive /\ process = "open"
  BY <1>0 DEF Works, Alive, Child, Pipes, Shaped
<1>2. \A i \in Ids : Equipped(i)' <=> Equipped(i)
  BY SameUsers DEF handlers
<1>3. Stale' /\ Pipes'
  <2>1. Stale'
    BY <1>1 DEF Stale
  <2>2. /\ \A m \in Models : Loading(m)' <=> Loading(m)
        /\ (Undoing' <=> Undoing) /\ (Empty' <=> Empty)
    BY SameUsers DEF handlers
  <2>3. process' = "open" /\ child'.up /\ ~unflushed' /\ (~Empty)'
    <3>1. ~unflushed /\ ~Empty
      BY <1>0, <1>1 DEF Child, Pipes, Alive
    <3> QED BY <1>1, <2>2, <3>1
  <2>4. Pipes'
    BY <2>3 DEF Pipes
  <2> QED BY <2>1, <2>4
<1>4. Child'
  BY <1>0, <1>1, <1>2, <1>3 DEF Child
<1>5. Calm'
  BY <1>0, SameMeaning DEF Calm, Undisturbed
<1>6. Shaped'
  BY <1>0 DEF Shaped
<1> QED BY <1>0, <1>4, <1>5, <1>6, ChildStep DEF handlers

\* What every step of the child starts from.
LEMMA ChildWorks ==
  ASSUME IInv, Works
  PROVE  /\ TypeOK /\ Users /\ Child /\ Alive /\ process = "open"
         /\ child \in ChildRow /\ inbox \in Seq(Command)
         /\ messages \in Seq(Message)
<1>1. TypeOK /\ Users /\ Child /\ Shaped
  BY Types DEF IInv
<1>2. Alive /\ process = "open"
  BY <1>1 DEF Works, Alive, Child, Pipes, Shaped
<1> QED BY <1>1, <1>2 DEF Shaped

\* The child loads what is waited for, or was, and says so once.
LEMMA ReadsLoad ==
  ASSUME IInv, ChildReads, Head(inbox).kind = "load"
  PROVE  IInv'
<1>0. /\ TypeOK /\ Users /\ Child /\ Works /\ Alive /\ inbox # <<>>
      /\ inbox' = Tail(inbox) /\ inbox \in Seq(Command)
      /\ messages \in Seq(Message) /\ child \in ChildRow
      /\ UNCHANGED <<jobs, active, handlers, run, loaded, process, unflushed,
                     output, stream, faults>>
      /\ admin' = admin /\ Shaped
  BY ChildWorks, Types DEF ChildReads, handlers
<1>1. /\ inbox' \in Seq(Command)
      /\ Len(inbox') = Len(inbox) - 1 /\ Len(inbox) \in Nat \ {0}
      /\ Head(inbox) = inbox[1] /\ inbox[1] \in Command
      /\ inbox[1].kind = "load"
      /\ \A n \in 1..Len(inbox') :
           inbox'[n] = inbox[n + 1] /\ n + 1 \in 1..Len(inbox)
  BY <1>0, TailAt
<1>2. ~OnlyCancels
  BY <1>1 DEF OnlyCancels
<1>3. \A i \in Ids : ~Working(i)
  <2>1. \A i \in Ids : ~Commanded(i)
    BY <1>1 DEF Commanded
  <2> QED BY <1>0, <1>2, <2>1
          DEF Child, Serves, Unread, Tells, Generates, Rested
<1>4. /\ \A i \in Ids : ~Working(i)' /\ run'[i].pc # "waiting"
      /\ \A m \in Models : Loading(m)' <=> Loading(m)
      /\ Undoing' <=> Undoing
  BY <1>0, <1>3, SameUsers DEF Working
<1>5. /\ loaded = Nothing /\ child.thread = "none"
      /\ Undoing \/ \E m \in Models : Loading(m)
  <2>1. Undoing \/ \E m \in Models : Loading(m)
    BY <1>0, <1>2, <1>3 DEF Child, Rests
  <2> QED BY <1>0, <2>1 DEF Child, Loads, Undoes
<1>6. PICK kind \in {"loaded", "internal"} :
        /\ Say(kind, Nothing)
        /\ child' \in ChildRow /\ child'.up /\ child'.thread = "none"
        /\ kind = "loaded" => child'.model = inbox[1].of
  <2>1. CASE child' = [child EXCEPT !.model = inbox[1].of]
             /\ Say("loaded", Nothing)
    <3>1. inbox[1].of \in Targets
      BY <1>1 DEF Command, Targets
    <3>2. /\ child' \in ChildRow /\ child'.up /\ child'.thread = "none"
          /\ child'.model = inbox[1].of
      BY <1>0, <1>5, <2>1, <3>1 DEF ChildRow, Alive
    <3> QED BY <2>1, <3>2
  <2>2. CASE UNCHANGED child /\ Say("internal", Nothing)
    BY <1>0, <1>5, <2>2 DEF Alive
  <2> QED BY <1>1, <2>1, <2>2 DEF ChildReads
<1>7. /\ messages' \in Seq(Message)
      /\ Len(messages') = Len(messages) + 1 /\ Len(messages) \in Nat
      /\ \A n \in 1..Len(messages) : messages'[n] = messages[n]
      /\ messages'[Len(messages')].kind = kind
      /\ \A n \in 1..Len(messages') :
           n \in 1..Len(messages) \/ n = Len(messages')
  BY <1>0, <1>6, SayTypes DEF Codes
<1>8. Loads'
  <2> SUFFICES ASSUME NEW m \in Models, Loading(m)
               PROVE  /\ loaded' = Nothing /\ child'.thread = "none"
                      /\ OnlyCancels' /\ Len(messages') = 1
                      /\ messages'[1].kind \in {"loaded", "internal"}
                      /\ messages'[1].kind = "loaded" => child'.model = m
    BY <1>4 DEF Loads
  <2>1. /\ inbox[1] = [kind |-> "load", of |-> m] /\ messages = <<>>
        /\ \A n \in 2..Len(inbox) : inbox[n].kind = "cancel"
    BY <1>0, <1>2 DEF Child, Loads
  <2>2. OnlyCancels'
    BY <1>1, <2>1 DEF OnlyCancels
  <2>3. Len(messages') = 1
    BY <1>7, <2>1, NoneAt
  <2> QED BY <1>0, <1>5, <1>6, <1>7, <2>1, <2>2, <2>3
<1>9. Undoes'
  <2> SUFFICES ASSUME Undoing
               PROVE  /\ loaded' = Nothing /\ child'.thread = "none"
                      /\ \A n \in 1..Len(inbox') : inbox'[n].kind # "generate"
                      /\ \A n \in 1..Len(messages') :
                           messages'[n].kind \in {"loaded", "internal"}
    BY <1>4 DEF Undoes
  <2>1. /\ \A n \in 1..Len(inbox) : inbox[n].kind # "generate"
        /\ \A n \in 1..Len(messages) :
             messages[n].kind \in {"loaded", "internal"}
    BY <1>0 DEF Child, Undoes
  <2> QED BY SMTT(30), <1>0, <1>1, <1>5, <1>6, <1>7, <2>1
<1>10. Rests' /\ Serves'
  BY <1>4, <1>5 DEF Rests, Serves
<1> QED BY <1>0, <1>1, <1>4, <1>5, <1>6, <1>7, <1>8, <1>9, <1>10, ChildMoves

\* The child starts to generate for the run that waits, not cancelled unless
\* a cancel for it follows.
LEMMA ReadsGenerate ==
  ASSUME IInv, ChildReads, Head(inbox).kind = "generate"
  PROVE  IInv'
<1>0. /\ TypeOK /\ Users /\ Child /\ Works /\ Alive /\ inbox # <<>>
      /\ inbox' = Tail(inbox) /\ inbox \in Seq(Command)
      /\ messages \in Seq(Message) /\ child \in ChildRow
      /\ UNCHANGED <<jobs, active, handlers, run, loaded, process, unflushed,
                     output, stream, faults>>
      /\ admin' = admin /\ Shaped
  BY ChildWorks, Types DEF ChildReads, handlers
<1>1. /\ inbox' \in Seq(Command)
      /\ Len(inbox') = Len(inbox) - 1 /\ Len(inbox) \in Nat \ {0}
      /\ Head(inbox) = inbox[1]
      /\ \A n \in 1..Len(inbox') :
           inbox'[n] = inbox[n + 1] /\ n + 1 \in 1..Len(inbox)
  BY <1>0, TailAt
<1>2. ~OnlyCancels
  BY <1>1 DEF OnlyCancels
<1>3. ~Undoing /\ \A m \in Models : ~Loading(m)
  <2>1. ~Undoing
    BY <1>0, <1>1 DEF Child, Undoes
  <2>2. ASSUME NEW m \in Models, Loading(m) PROVE FALSE
    <3>1. inbox[1] # [kind |-> "load", of |-> m]
      BY <1>1
    <3> QED BY <1>0, <1>2, <2>2, <3>1 DEF Child, Loads
  <2> QED BY <2>1, <2>2
<1>4. PICK i \in Ids : Working(i)
  BY <1>0, <1>2, <1>3 DEF Child, Rests
<1>5. Told(i) /\ Unread(i)
  BY <1>0, <1>2, <1>4 DEF Child, Serves, Tells, Generates, Rested
<1>6. /\ inbox[1] = [kind |-> "generate", of |-> i]
      /\ \A k \in 1..Len(inbox) : k # 1 => inbox[k].kind = "cancel"
      /\ 1 < Len(inbox) => Meant(i)
      /\ child.thread # "generating" /\ messages = <<>>
      /\ jobs[i].seq <= 1 /\ jobs[i].seq \in Nat
  <2>1. jobs[i].seq \in Nat
    BY <1>0, Types DEF JobRow
  <2> QED BY <1>1, <1>5, <2>1 DEF Unread, Commanded
<1>7. OnlyCancels'
  BY <1>1, <1>6 DEF OnlyCancels
<1>8. inbox' # <<>> => Meant(i)'
  <2>1. inbox' # <<>> => Meant(i)
    BY <1>1, <1>6, EmptySeq
  <2> QED BY <1>0, <2>1, SameMeaning
<1>9. /\ \A k \in Ids : /\ Working(k)' => k = i
                        /\ run'[k].pc = "waiting" => k = i
      /\ \A m \in Models : ~Loading(m)'
      /\ ~Undoing' /\ Working(i)'
  BY <1>0, <1>3, <1>4, SameUsers, OneUser DEF Working
<1>10. Rests' /\ Loads' /\ Undoes'
  BY <1>9 DEF Rests, Loads, Undoes
<1>11. loaded # Nothing => child.model = loaded
  BY <1>0 DEF Child
<1>12. CASE child.thread = "none"
  <2>1. /\ child' = [child EXCEPT !.gen = i, !.sent = 0, !.cancelled = FALSE,
                                  !.thread = "generating"]
        /\ UNCHANGED messages
    <3>1. Head(inbox).of = i
      BY <1>1, <1>6
    <3> QED BY <1>12, <3>1 DEF ChildReads
  <2>2. /\ child' \in ChildRow /\ child'.up /\ child'.thread = "generating"
        /\ child'.gen = i /\ child'.sent = 0 /\ ~child'.cancelled
        /\ child'.model = child.model
    <3>1. 0 \in 0..Events
      BY Shapes
    <3> QED BY <1>0, <2>1, <3>1 DEF ChildRow, Alive
  <2>3. Generates(i)'
    BY <1>7, <1>8, <2>2 DEF Generates
  <2>4. Told(i)'
    BY <1>6, <2>1, NoneAt DEF Told
  <2>5. Tells(i)'
    BY <1>0, <1>6, <2>1, <2>2, <2>3, NoneAt DEF Tells
  <2>6. Serves' /\ \A k \in Ids : run'[k].pc = "waiting" => Heard(k)'
    BY <1>9, <2>4, <2>5 DEF Serves, Heard
  <2> QED BY <1>0, <1>1, <1>10, <1>11, <2>1, <2>2, <2>6, ChildMoves
<1>13. CASE child.thread # "none"
  <2>1. UNCHANGED child /\ Say("busy", i)
    BY <1>1, <1>6, <1>13 DEF ChildReads
  <2>2. /\ messages' \in Seq(Message) /\ messages' # <<>>
        /\ Len(messages') = Len(messages) + 1 /\ Len(messages) \in Nat
        /\ messages'[Len(messages')].kind = "busy"
        /\ messages'[Len(messages')].id = i
    BY <1>0, <2>1, SayTypes
  <2>3. Len(messages') = 1 /\ \A n \in 1..Len(messages') : n = Len(messages')
    BY <1>6, <2>2, NoneAt
  <2>4. Told(i)'
    BY <2>2, <2>3 DEF Told
  <2>5. Rested' /\ HasTold'
    BY <1>6, <1>7, <2>1, <2>2, <2>3 DEF HasTold, Rested
  <2>6. Serves' /\ \A k \in Ids : run'[k].pc = "waiting" => Heard(k)'
    BY <1>9, <2>4, <2>5 DEF Serves, Heard
  <2>7. child' \in ChildRow /\ child'.up
    BY <1>0, <2>1 DEF Alive
  <2> QED BY <1>0, <1>1, <1>10, <1>11, <2>1, <2>2, <2>6, <2>7, ChildMoves
<1> QED BY <1>12, <1>13

\* A cancel that reaches a generation was meant for it.
LEMMA ReadsCancel ==
  ASSUME IInv, ChildReads, Head(inbox).kind = "cancel"
  PROVE  IInv'
<1>0. /\ TypeOK /\ Users /\ Child /\ Works /\ Alive /\ inbox # <<>>
      /\ inbox' = Tail(inbox) /\ inbox \in Seq(Command)
      /\ messages \in Seq(Message) /\ child \in ChildRow
      /\ UNCHANGED <<jobs, active, handlers, run, loaded, process, unflushed,
                     output, stream, faults, messages>>
      /\ child' = [child EXCEPT !.cancelled = child.gen # Nothing]
      /\ admin' = admin
  BY ChildWorks DEF ChildReads, handlers
<1>1. /\ inbox' \in Seq(Command)
      /\ Len(inbox') = Len(inbox) - 1 /\ Len(inbox) \in Nat \ {0}
      /\ Head(inbox) = inbox[1]
      /\ \A n \in 1..Len(inbox') :
           inbox'[n] = inbox[n + 1] /\ n + 1 \in 1..Len(inbox)
  BY <1>0, TailAt
<1>2. /\ child' \in ChildRow /\ child'.up /\ child'.thread = child.thread
      /\ child'.gen = child.gen /\ child'.sent = child.sent
      /\ child'.model = child.model
  BY <1>0 DEF ChildRow, Alive
<1>3. /\ OnlyCancels => OnlyCancels'
      /\ Rested => Rested'
      /\ HasTold => HasTold'
  <2>1. OnlyCancels => OnlyCancels'
    BY <1>1 DEF OnlyCancels
  <2> QED BY <1>0, <1>2, <2>1 DEF Rested, HasTold
<1>4. \A k \in Ids : Meant(k)' <=> Meant(k)
  BY <1>0, SameMeaning
<1>5. ASSUME NEW i \in Ids, Commanded(i) PROVE Commanded(i)'
  <2>1. PICK n \in 1..Len(inbox) :
          /\ inbox[n] = [kind |-> "generate", of |-> i]
          /\ \A k \in 1..Len(inbox) : k # n => inbox[k].kind = "cancel"
          /\ n < Len(inbox) => Meant(i)
          /\ child.thread # "generating"
    BY <1>5 DEF Commanded
  <2>2. n # 1
    BY <1>0, <1>1, <2>1
  <2>3. n - 1 \in 1..Len(inbox') /\ inbox'[n - 1] = inbox[n]
    BY <1>1, <2>1, <2>2
  <2>4. \A k \in 1..Len(inbox') : k # n - 1 => inbox'[k].kind = "cancel"
    BY <1>1, <2>1
  <2>5. n - 1 < Len(inbox') => Meant(i)'
    BY <1>0, <1>1, <1>4, <2>1
  <2> QED BY <1>2, <2>1, <2>3, <2>4, <2>5 DEF Commanded
<1>6. ASSUME NEW i \in Ids, Generates(i) PROVE Generates(i)'
  BY <1>0, <1>2, <1>3, <1>4, <1>6 DEF Generates
<1>7. ASSUME NEW i \in Ids
      PROVE  /\ Told(i) => Told(i)'
             /\ Unread(i) => Unread(i)'
             /\ Tells(i) => Tells(i)'
  BY <1>0, <1>2, <1>4, <1>5, <1>6 DEF Told, Unread, Tells
<1>8. /\ \A i \in Ids : Working(i)' <=> Working(i)
      /\ \A m \in Models : Loading(m)' <=> Loading(m)
      /\ (Undoing' <=> Undoing) /\ Alive'
  BY <1>0, <1>2, SameUsers DEF Alive
<1>9. Rests'
  BY <1>0, <1>2, <1>3, <1>8 DEF Child, Rests
<1>10. Loads'
  <2> SUFFICES ASSUME NEW m \in Models, Loading(m)
               PROVE  /\ loaded' = Nothing /\ child'.thread = "none"
                      /\ OnlyCancels' /\ Len(messages') = 1
                      /\ messages'[1].kind \in {"loaded", "internal"}
                      /\ messages'[1].kind = "loaded" => child'.model = m
    BY <1>8 DEF Loads
  <2>1. inbox[1] # [kind |-> "load", of |-> m]
    BY <1>0, <1>1
  <2> QED BY <1>0, <1>2, <1>3, <2>1 DEF Child, Loads
<1>11. Undoes'
  BY <1>0, <1>1, <1>2, <1>8 DEF Child, Undoes
<1>12. Serves'
  BY <1>0, <1>3, <1>7, <1>8 DEF Child, Serves
<1>13. ASSUME NEW i \in Ids, run'[i].pc = "waiting" PROVE Heard(i)'
  <2>1. Heard(i)
    BY <1>0, <1>13 DEF Child
  <2> QED BY <1>0, <1>3, <1>7, <2>1 DEF Heard
<1>14. loaded # Nothing => child'.model = loaded
  BY <1>0, <1>2 DEF Child
<1> QED BY <1>0, <1>1, <1>2, <1>9, <1>10, <1>11, <1>12, <1>13, <1>14,
           ChildMoves

\* Every command leaves the child as it was asked to be.
LEMMA ReadsSteps == IInv /\ ChildReads => IInv'
<1> SUFFICES ASSUME IInv, ChildReads PROVE IInv'
  OBVIOUS
<1>1. Head(inbox).kind \in {"load", "generate", "cancel"}
  BY DEF ChildReads
<1> QED BY <1>1, ReadsLoad, ReadsGenerate, ReadsCancel

\* A child that works and generates does it for the run that uses it.
LEMMA Generating ==
  ASSUME Child, Alive, child.thread = "generating"
  PROVE  \E k \in Ids : Working(k) /\ Told(k) /\ Tells(k)
<1>1. ~Undoing /\ \A m \in Models : ~Loading(m)
  BY DEF Child, Undoes, Loads
<1>2. PICK k \in Ids : Working(k)
  BY <1>1 DEF Child, Rests
<1>3. Told(k) /\ Tells(k)
  BY <1>2 DEF Child, Serves, Unread, Commanded, Rested
<1> QED BY <1>2, <1>3

\* The child tells its run at most so many events, then one end.
LEMMA GeneratesStep ==
  ASSUME IInv, ChildGenerates
  PROVE  IInv'
<1>0. /\ TypeOK /\ Users /\ Child /\ Works /\ Alive /\ Shaped
      /\ child.thread = "generating"
      /\ UNCHANGED <<jobs, active, handlers, run, loaded, process, unflushed,
                     inbox, output, stream, faults>>
      /\ admin' = admin
      /\ child \in ChildRow /\ inbox \in Seq(Command)
      /\ messages \in Seq(Message) /\ child.sent \in Nat
  <2>1. child.sent \in Nat
    BY ChildWorks DEF ChildGenerates, ChildRow
  <2> QED BY <2>1, ChildWorks, Types DEF ChildGenerates, handlers
<1>1. PICK k \in Ids : Working(k) /\ Told(k) /\ Tells(k)
  BY <1>0, Generating
<1>2. /\ child.gen = k /\ OnlyCancels /\ OnlyCancels'
      /\ inbox # <<>> \/ child.cancelled => Meant(k)
      /\ jobs[k].seq + Len(messages) <= child.sent + 1
      /\ \A n \in 1..Len(messages) : messages[n].kind = "event"
      /\ jobs[k].seq \in Nat /\ Len(messages) \in Nat
  <2>1. jobs[k].seq \in Nat
    BY <1>0, Types DEF JobRow
  <2>2. Len(messages) \in Nat
    BY <1>0, LenProperties
  <2>3. Generates(k)
    BY <1>1 DEF Tells
  <2>4. OnlyCancels'
    BY <1>0, <2>3 DEF Generates, OnlyCancels
  <2> QED BY <1>1, <2>1, <2>2, <2>3, <2>4 DEF Tells, Generates
<1>3. /\ \A n \in Ids : /\ Working(n)' => n = k
                        /\ run'[n].pc = "waiting" => n = k
      /\ Working(k)' /\ ~Undoing' /\ \A m \in Models : ~Loading(m)'
  <2>1. ~Undoing /\ \A m \in Models : ~Loading(m)
    BY <1>0, <1>1, OneUser
  <2> QED BY <1>0, <1>1, <2>1, SameUsers, OneUser DEF Working
<1>4. Rests' /\ Loads' /\ Undoes'
  BY <1>3 DEF Rests, Loads, Undoes
<1>5. Meant(k)' <=> Meant(k)
  BY <1>0, SameMeaning
<1>6. loaded # Nothing => child.model = loaded
  BY <1>0 DEF Child
<1>7. CASE /\ child.sent < Events
           /\ child' = [child EXCEPT !.sent = @ + 1]
           /\ Say("event", child.gen)
  <2>1. /\ child' \in ChildRow /\ child'.up /\ child'.thread = "generating"
        /\ child'.gen = k /\ child'.sent = child.sent + 1
        /\ child'.cancelled = child.cancelled /\ child'.model = child.model
    <3>1. child.sent + 1 \in 0..Events
      BY <1>0, <1>7, Shapes
    <3> QED BY <1>0, <1>2, <1>7, <3>1 DEF ChildRow, Alive
  <2>2. /\ messages' \in Seq(Message)
        /\ Len(messages') = Len(messages) + 1
        /\ \A n \in 1..Len(messages) : messages'[n] = messages[n]
        /\ messages'[Len(messages')].kind = "event"
        /\ messages'[Len(messages')].id = k
        /\ \A n \in 1..Len(messages') :
             n \in 1..Len(messages) \/ n = Len(messages')
    BY <1>0, <1>2, <1>7, SayTypes
  <2>3. Generates(k)'
    BY <1>0, <1>2, <1>5, <2>1 DEF Generates
  <2>4. Tells(k)'
    <3>1. jobs'[k].seq + Len(messages') <= child'.sent + 1
      BY <1>0, <1>2, <2>1, <2>2
    <3>2. \A n \in 1..Len(messages') : messages'[n].kind = "event"
      BY <1>2, <2>2
    <3> QED BY <2>3, <3>1, <3>2 DEF Tells
  <2>5. Told(k)'
    <3>1. jobs[k].seq + Len(messages') <= Events + 1
      BY <1>0, <1>2, <1>7, <2>2, Shapes
    <3>2. \A n \in 1..Len(messages') :
            /\ process' # "killed" => messages'[n].id \in {k, Nothing}
            /\ jobs'[k].seq + n <= Events + 1
            /\ messages'[n].kind # "cancelled"
      <4>1. \A n \in 1..Len(messages') : messages'[n].id \in {k, Nothing}
        BY <1>0, <1>1, <2>2 DEF Told, Alive
      <4>2. \A n \in 1..Len(messages') : jobs[k].seq + n <= Events + 1
        BY <1>2, <2>2, <3>1, Shapes
      <4>3. \A n \in 1..Len(messages') : messages'[n].kind = "event"
        BY <1>2, <2>2
      <4> QED BY <1>0, <4>1, <4>2, <4>3
    <3> QED BY <3>2 DEF Told
  <2>6. Serves' /\ \A n \in Ids : run'[n].pc = "waiting" => Heard(n)'
    BY <1>3, <2>4, <2>5 DEF Serves, Heard
  <2> QED BY <1>0, <1>4, <1>6, <2>1, <2>2, <2>6, ChildMoves
<1>8. ASSUME child' = [child EXCEPT !.thread = "exiting"],
             NEW kind \in {"result"} \cup Codes,
             kind = "cancelled" => child.cancelled, Say(kind, child.gen)
      PROVE  IInv'
  <2>1. /\ child' \in ChildRow /\ child'.up /\ child'.thread = "exiting"
        /\ child'.model = child.model
    BY <1>0, <1>8 DEF ChildRow, Alive
  <2>2. kind \in {"loaded", "event", "result", "busy", "exit"} \cup Codes
        /\ kind # "event"
    BY DEF Codes
  <2>3. /\ messages' \in Seq(Message) /\ messages' # <<>>
        /\ Len(messages') = Len(messages) + 1
        /\ \A n \in 1..Len(messages) : messages'[n] = messages[n]
        /\ messages'[Len(messages')].kind = kind
        /\ messages'[Len(messages')].id = k
        /\ \A n \in 1..Len(messages') :
             n \in 1..Len(messages) \/ n = Len(messages')
    BY <1>0, <1>2, <1>8, <2>2, SayTypes
  <2>4. Rested' /\ HasTold'
    <3>1. Rested'
      BY <1>2, <2>1 DEF Rested
    <3> QED BY <1>2, <2>2, <2>3, <3>1 DEF HasTold
  <2>5. Told(k)'
    <3>1. \A n \in 1..Len(messages) :
            /\ messages[n].id \in {k, Nothing}
            /\ messages[n].kind = "event" => jobs[k].seq + n <= Events + 1
            /\ messages[n].kind = "cancelled" => Meant(k)
      BY <1>0, <1>1 DEF Told, Alive
    <3>2. kind = "cancelled" => Meant(k)
      BY <1>2, <1>8
    <3>3. jobs'[k] = jobs[k]
      BY <1>0
    <3> QED BY <1>5, <2>2, <2>3, <3>1, <3>2, <3>3 DEF Told
  <2>6. Serves' /\ \A n \in Ids : run'[n].pc = "waiting" => Heard(n)'
    BY <1>3, <2>4, <2>5 DEF Serves, Heard
  <2> QED BY <1>0, <1>4, <1>6, <2>1, <2>3, <2>6, ChildMoves
<1>9. CASE /\ child' = [child EXCEPT !.thread = "exiting"]
           /\ \/ ~child.cancelled /\ Say("result", child.gen)
              \/ \E code \in Codes : /\ code = "cancelled" => child.cancelled
                                     /\ Say(code, child.gen)
  BY <1>8, <1>9 DEF Codes
<1> QED BY <1>7, <1>9 DEF ChildGenerates

\* A thread that exits has nothing left to say.
LEMMA ThreadExitsStep ==
  ASSUME IInv, ChildThreadExits
  PROVE  IInv'
<1>0. /\ TypeOK /\ Users /\ Child /\ Works /\ Alive
      /\ child.thread = "exiting"
      /\ UNCHANGED <<jobs, active, handlers, run, loaded, process, unflushed,
                     inbox, messages, output, stream, faults>>
      /\ admin' = admin
      /\ child' = [child EXCEPT !.thread = "none"]
      /\ child \in ChildRow /\ inbox \in Seq(Command)
      /\ messages \in Seq(Message)
  BY ChildWorks DEF ChildThreadExits, handlers
<1>1. /\ child' \in ChildRow /\ child'.up
      /\ child'.thread = "none" /\ child'.model = child.model
      /\ child'.sent = child.sent
  BY <1>0 DEF ChildRow, Alive
<1>2. /\ \A i \in Ids : Working(i)' <=> Working(i)
      /\ \A m \in Models : Loading(m)' <=> Loading(m)
      /\ (Undoing' <=> Undoing) /\ Alive'
  BY <1>0, <1>1, SameUsers DEF Alive
<1>3. /\ OnlyCancels' <=> OnlyCancels
      /\ Rested => Rested'
      /\ HasTold => HasTold'
  <2>1. OnlyCancels' <=> OnlyCancels
    BY <1>0 DEF OnlyCancels
  <2> QED BY <1>0, <1>1, <2>1 DEF Rested, HasTold
<1>4. \A k \in Ids : Meant(k)' <=> Meant(k)
  BY <1>0, SameMeaning
<1>5. ASSUME NEW i \in Ids
      PROVE  /\ Told(i) => Told(i)'
             /\ Unread(i) => Unread(i)'
             /\ ~Tells(i)
  <2>1. Commanded(i) => Commanded(i)'
    BY <1>0, <1>1, <1>4 DEF Commanded
  <2> QED BY <1>0, <1>4, <2>1 DEF Told, Unread, Tells, Generates
<1>6. Rests' /\ Loads' /\ Undoes'
  <2>1. ~Undoing /\ \A m \in Models : ~Loading(m)
    BY <1>0 DEF Child, Undoes, Loads
  <2> QED BY <1>0, <1>1, <1>2, <1>3, <2>1 DEF Child, Rests, Loads, Undoes
<1>7. Serves'
  BY <1>0, <1>2, <1>3, <1>5 DEF Child, Serves
<1>8. ASSUME NEW i \in Ids, run'[i].pc = "waiting" PROVE Heard(i)'
  <2>1. Heard(i)
    BY <1>0, <1>8 DEF Child
  <2> QED BY <1>0, <1>3, <1>5, <2>1 DEF Heard
<1>9. loaded # Nothing => child'.model = loaded
  BY <1>0, <1>1 DEF Child
<1> QED BY <1>0, <1>1, <1>6, <1>7, <1>8, <1>9, ChildMoves

\* A child that dies is heard of once, after what it had said.
LEMMA DiesStep ==
  ASSUME IInv, ChildDies
  PROVE  IInv'
<1>0. /\ TypeOK /\ Users /\ Child /\ Calm /\ Shaped
      /\ child' = Dead /\ inbox' = <<>>
      /\ Say("exit", Nothing) /\ child.up
      /\ UNCHANGED <<jobs, active, handlers, run, loaded, process, unflushed,
                     output, stream>>
      /\ faults' \in 0..MaxFaults /\ faults \in Nat
      /\ Fault \/ (process = "killed" /\ UNCHANGED faults)
      /\ admin' = admin /\ UNCHANGED <<post, maintenance, deleting>>
  BY EngineAssumption, Types DEF IInv, ChildDies, Fault, handlers
<1>1. /\ messages' \in Seq(Message)
      /\ Len(messages') = Len(messages) + 1 /\ Len(messages) \in Nat
      /\ \A n \in 1..Len(messages) : messages'[n] = messages[n]
      /\ messages'[Len(messages')].kind = "exit"
      /\ messages'[Len(messages')].id = Nothing
      /\ \A n \in 1..Len(messages') :
           n \in 1..Len(messages) \/ n = Len(messages')
  BY <1>0, SayTypes
<1>2. \A k \in Ids : (Meant(k)' <=> Meant(k)) /\ (Silent(k)' <=> Silent(k))
  BY <1>0, SameMeaning
<1>3. ASSUME NEW i \in Ids, run'[i].pc = "waiting" PROVE Told(i)'
  <2>1. Told(i)
    BY <1>0, <1>3 DEF Child, Heard
  <2> QED BY <1>0, <1>1, <1>2, <2>1 DEF Told
<1>4. Stale'
  <2> SUFFICES ASSUME process = "killed" PROVE Stale'
    BY <1>0 DEF Stale
  <2>1. child'.thread # "generating"
    BY <1>0 DEF Dead
  <2>2. \A n \in 1..Len(messages') :
          /\ messages'[n].kind = "event" => n <= Events + 1
          /\ messages'[n].kind = "cancelled" =>
               \E k \in Ids : jobs'[k].cancelled /\ Silent(k)'
    BY <1>0, <1>1, <1>2 DEF Child, Stale
  <2>3. \A k \in Ids : run'[k].pc \in Prepared => jobs'[k].seq = 0
    BY <1>0 DEF Child, Stale
  <2> QED BY <2>1, <2>2, <2>3 DEF Stale
<1>5. Pipes'
  <2>1. /\ \A m \in Models : Loading(m)' <=> Loading(m)
        /\ (Undoing' <=> Undoing) /\ (Empty' <=> Empty)
    BY <1>0, SameUsers
  <2>2. ~child'.up
    BY <1>0 DEF Dead
  <2> QED BY <1>0, <2>1, <2>2 DEF Child, Pipes
<1>6. Child'
  <2>1. ~child'.up /\ ~Alive'
    BY <1>0 DEF Dead, Alive
  <2> QED BY <1>0, <1>3, <1>4, <1>5, <2>1, NoChild
<1>7. Calm'
  <2>1. ~Undisturbed'
    BY <1>0 DEF Undisturbed, Fault, Calm
  <2> QED BY <2>1 DEF Calm
<1>8. Shaped'
  BY <1>0, <1>1, Shapes, NoneAt DEF Shaped
<1> QED BY <1>0, <1>6, <1>7, <1>8, ChildStep

-----------------------------------------------------------------------------
(* The invariant, and what follows from it.                                *)

\* Before anything was asked for, and after the engine was started again.
Fresh ==
  /\ jobs = [i \in Ids |-> NoJob] /\ active = Nothing /\ maintenance = FALSE
  /\ post = [i \in Ids |-> "off"] /\ admin = [m \in Targets |-> "off"]
  /\ deleting = Nothing /\ run = [i \in Ids |-> NoRun] /\ loaded = Nothing
  /\ process = "none" /\ unflushed = FALSE /\ child = Dead
  /\ inbox = <<>> /\ messages = <<>> /\ stream = [i \in Ids |-> NoStream]
  /\ output \in SUBSET Ids /\ faults \in 0..MaxFaults

\* An engine that has just started is in order.
LEMMA FreshEngine == Fresh => IInv
<1> SUFFICES ASSUME Fresh PROVE IInv
  OBVIOUS
<1>1. /\ NoRun.pc = "off" /\ ~NoStream.ended /\ ~Dead.up
      /\ NoJob.state = "none"
      /\ \A i \in Ids : /\ run[i] = NoRun /\ jobs[i] = NoJob
                        /\ stream[i] = NoStream
      /\ \A m \in Targets : admin[m] = "off"
  BY DEF Fresh, NoRun, NoStream, Dead, NoJob
<1>2. Users
  BY <1>1, Shapes DEF Fresh, Users
<1>3. Threads
  <2>1. ASSUME NEW i \in Ids
        PROVE  Progress(i) /\ run[i].pc = "off" /\ deleting # i
    BY <1>1, Shapes DEF Progress, Before, Fresh
  <2> QED BY <2>1 DEF Threads
<1>4. Child
  <2>1. ~Empty /\ ~Undoing /\ \A m \in Models : ~Loading(m)
    BY <1>1 DEF Empty, Undoing, Loading, Targets
  <2>2. Pipes
    BY <1>1, <2>1 DEF Fresh, Pipes
  <2>3. Stale
    BY DEF Fresh, Stale
  <2> QED BY <1>1, <2>2, <2>3
          DEF Fresh, Child, Rests, Loads, Undoes, Serves, Alive
<1>5. Calm
  BY <1>1 DEF Calm, Silent, Prepared, Fresh
<1>6. TypeOK
  <2>1. jobs \in [Ids -> JobRow] /\ run \in [Ids -> Thread]
        /\ stream \in [Ids -> Reader]
    BY Shapes DEF Fresh
  <2>2. Shaped
    BY Shapes, NoneAt DEF Fresh, Shaped
  <2>3. /\ active \in Ids \cup {Nothing} /\ maintenance \in BOOLEAN
        /\ post \in [Ids -> {"off", "validating", "leaving"}]
        /\ admin \in [Targets -> {"off", "load", "emptying", "empty",
                                  "spawned", "undoing", "leaving"}]
        /\ deleting \in Ids \cup {Nothing}
        /\ output \in SUBSET Ids /\ faults \in 0..MaxFaults
    BY Shapes DEF Fresh
  <2> QED BY <2>1, <2>2, <2>3, Types
<1>7. Streams
  BY <1>1 DEF Streams
<1> QED BY <1>2, <1>3, <1>4, <1>5, <1>6, <1>7 DEF IInv

\* So is the first state.
LEMMA EngineStarts == Init => IInv
BY FreshEngine, EngineAssumption DEF Init, Fresh

\* So is an engine that starts again.
LEMMA CrashStep == IInv /\ Crash => IInv'
<1>1. IInv /\ Crash => Fresh'
  BY EngineAssumption DEF IInv, TypeOK, Crash, Fault, Fresh
<1> QED BY <1>1, FreshEngine, PTL

\* The invariant is inductive.
LEMMA EngineStep == IInv /\ [Next]_vars => IInv'
<1> SUFFICES ASSUME IInv, [Next]_vars PROVE IInv'
  OBVIOUS
<1>1. ASSUME NEW i \in Ids,
             \/ Submit(i) \/ Register(i) \/ Leave(i) \/ Cancel(i)
             \/ CancelSends(i) \/ Stream(i) \/ Run(i) \/ RunJams(i)
      PROVE  IInv'
  BY <1>1, HandlerSteps, RegisterStep, CancelStep, CancelSendsStep, RunSteps
<1>2. ASSUME NEW m \in Targets, Maintain(m) \/ AdminStep(m) \/ MaintainEnd(m)
      PROVE  IInv'
  BY <1>2, MaintenanceSteps, AdminSteps
<1>3. CASE ChildReads \/ ChildGenerates \/ ChildThreadExits \/ ChildDies
  BY <1>3, ReadsSteps, GeneratesStep, ThreadExitsStep, DiesStep
<1>4. CASE Crash
  BY <1>4, CrashStep
<1>5. CASE UNCHANGED vars
  <2>0. UNCHANGED <<jobs, active, handlers, run, supervised, output, stream,
                    faults, admin>>
    BY <1>5 DEF vars, handlers
  <2>1. Child' /\ Calm'
    BY <2>0, HandlersOnly DEF IInv
  <2>2. Users' /\ Threads' /\ Streams'
    BY <2>0, NoThread DEF IInv
  <2>3. TypeOK'
    BY <1>5 DEF vars, handlers, supervised, TypeOK, IInv
  <2> QED BY <2>1, <2>2, <2>3 DEF IInv
<1> QED BY <1>1, <1>2, <1>3, <1>4, <1>5 DEF Next

\* The types, and what is known of handlers, threads and the child, hold in
\* every state: at any moment one user of the supervisor, and a child that is
\* at what this user asked of it.
THEOREM EngineIsOrdered == Spec => []IInv
BY EngineStarts, EngineStep, PTL DEF Spec

\* The one child serves the run it was started for: a late command never
\* cancels a generation it was not meant for, no run reads the messages of
\* another, and the model is the one that was asked for (runtime.py,
\* worker.py), whatever dies and whichever write fails.
THEOREM ChildServes == Spec => []ChildServesRun
<1>1. IInv => ChildServesRun
  <2> SUFFICES ASSUME IInv PROVE ChildServesRun
    OBVIOUS
  <2>0. TypeOK /\ Users /\ Child /\ Shaped
    BY Types DEF IInv
  <2>1. OneSupervisor
    BY <2>0, Shapes DEF OneSupervisor, Users
  <2>2. ASSUME child.thread = "generating"
        PROVE  /\ child.cancelled => Meant(child.gen)
               /\ child.model = ModelOf[child.gen]
    <3>1. child.up
      BY <2>0, <2>2 DEF Child, Dead
    <3>2. CASE process = "open"
      <4>1. PICK k \in Ids : Working(k) /\ Told(k) /\ Tells(k)
        BY <2>0, <2>2, <3>1, <3>2, Generating DEF Alive
      <4>2. child.gen = k /\ (child.cancelled => Meant(k))
        BY <4>1 DEF Tells, Generates
      <4>3. loaded = ModelOf[k]
        BY <2>0, <3>1, <3>2, <4>1, OneUser DEF Child, Alive
      <4>4. child.model = loaded
        BY <2>0, <3>1, <3>2, <4>3, Shapes DEF Child, Alive
      <4> QED BY <4>2, <4>3, <4>4
    <3>3. CASE process = "killed"
      BY <2>0, <2>2, <3>3 DEF Child, Stale
    <3> QED BY <2>0, <3>1, <3>2, <3>3 DEF Child, Pipes, Shaped
  <2>3. OwnMessages
    BY <2>0 DEF OwnMessages, Child, Heard, Told
  <2> QED BY <2>1, <2>2, <2>3
          DEF ChildServesRun, NoStrayCancel, RightModel
<1> QED BY <1>1, EngineIsOrdered, PTL

\* A stream that ends has delivered every event: batch and finished are read
\* together, and nothing is appended afterwards.  The last one is the terminal
\* event unless something failed or a DELETE came (server.py, events, and the
\* except and finally clauses of _run).
THEOREM StreamsAreComplete == Spec => []StreamComplete
<1>1. IInv => StreamComplete
  <2> SUFFICES ASSUME IInv, NEW i \in Ids, stream[i].ended
               PROVE  /\ stream[i].cursor = jobs[i].seq
                      /\ Undisturbed => jobs[i].state \in Terminals
    BY DEF StreamComplete
  <2>1. jobs[i].finished /\ stream[i].cursor = jobs[i].seq /\ Progress(i)
    BY DEF IInv, Streams, Threads
  <2>2. run[i].pc = "off"
    BY <2>1 DEF IInv, Threads
  <2>3. ~NoJob.finished
    BY DEF NoJob
  <2>4. jobs[i].state # "none"
    BY <2>1, <2>2, <2>3 DEF Progress, Before
  <2>5. Undisturbed => jobs[i].state \notin {"loading", "busy"}
    BY <2>1 DEF IInv, Calm, Silent
  <2>6. jobs[i].state \in {"none", "loading", "busy"} \cup Terminals
    BY Types DEF IInv, JobRow
  <2> QED BY <2>1, <2>4, <2>5, <2>6
<1> QED BY <1>1, EngineIsOrdered, PTL

-----------------------------------------------------------------------------
(* The contract.                                                           *)

\* What the contract sees of an attempt.
Remote(i) == [state    |-> State(i),
              seq      |-> jobs[i].seq,
              terminal |-> IF jobs[i].state \in Terminals
                           THEN jobs[i].state ELSE "none",
              cancel   |-> jobs[i].cancelled]
Shown == [i \in Ids |-> Remote(i)]

\* The same, of the rows of the attempt.
Entry(s, q, t, c) == [state |-> s, seq |-> q, terminal |-> t, cancel |-> c]
Seen(p, b, r) ==
  Entry(IF p = "validating" THEN "validating"
        ELSE IF b.state = "none" THEN "absent"
        ELSE IF b.finished THEN "ended"
        ELSE IF r.pc = "jammed" THEN "jammed"
        ELSE IF b.state \in Terminals THEN "closing"
        ELSE r.phase,
        b.seq, IF b.state \in Terminals THEN b.state ELSE "none", b.cancelled)

\* A step of the contract, or one it does not see.
Promised == Contract!EngineNext \/ UNCHANGED <<Shown, output>>

\* They are the same.
LEMMA SeenShown ==
  ASSUME NEW i \in Ids
  PROVE  /\ Shown[i] = Seen(post[i], jobs[i], run[i])
         /\ Remote(i)' = Seen(post'[i], jobs'[i], run'[i])
BY DEF Shown, Remote, State, Seen, Entry

\* A step of one attempt is seen as a step of that attempt.
LEMMA OneShown ==
  ASSUME NEW i \in Ids,
         \A k \in Ids \ {i} : /\ jobs'[k] = jobs[k]
                              /\ run'[k] = run[k]
                              /\ post'[k] = post[k]
  PROVE  Shown' = [Shown EXCEPT ![i] = Seen(post'[i], jobs'[i], run'[i])]
<1>1. \A k \in Ids \ {i} : Remote(k)' = Remote(k)
  BY DEF Remote, State
<1>2. Shown' = [Shown EXCEPT ![i] = Remote(i)']
  BY <1>1 DEF Shown
<1> QED BY <1>2, SeenShown

\* A step that touches no attempt and no directory is not seen.
LEMMA NoneShown ==
  ASSUME UNCHANGED <<jobs, run, post, output>>
  PROVE  Promised
<1>1. \A k \in Ids : Remote(k)' = Remote(k)
  BY DEF Remote, State
<1> QED BY <1>1 DEF Promised, Shown

\* An attempt nobody asked for is seen as its request.
LEMMA UnseenRow ==
  ASSUME NEW p, NEW r
  PROVE  Seen(p, NoJob, r) =
           Entry(IF p = "validating" THEN "validating" ELSE "absent", 0,
                 "none", FALSE)
<1>1. /\ NoJob.state = "none" /\ NoJob.seq = 0 /\ NoJob.cancelled = FALSE
      /\ "none" \notin Terminals
  BY DEF NoJob, Terminals
<1> HIDE DEF NoJob
<1> QED BY <1>1, Zenon DEF Seen

\* An idle engine takes a request.
LEMMA Accepts ==
  ASSUME NEW i \in Ids, NEW s, NEW q, NEW t, NEW c,
         Shown[i] = Entry(s, q, t, c),
         s = "absent",
         \A k \in Ids : Shown[k].state \in {"absent", "ended"},
         Shown' = [Shown EXCEPT ![i] = Entry("validating", q, t, c)],
         output' = output
  PROVE  Contract!EngineNext
<1>1. Shown' = [Shown EXCEPT ![i].state = "validating"]
  <2>1. [Shown[i] EXCEPT !.state = "validating"] = Entry("validating", q, t, c)
    BY DEF Entry
  <2>2. [Shown EXCEPT ![i].state = "validating"]
        = [Shown EXCEPT ![i] = [Shown[i] EXCEPT !.state = "validating"]]
    OBVIOUS
  <2> QED BY <2>1, <2>2
<1>2. Shown[i].state = s /\ Shown[i].seq = q /\ Shown[i].terminal = t
      /\ Shown[i].cancel = c
  BY DEF Entry
<1>3. Contract!Accept(i)
  BY <1>1, <1>2
     DEF Contract!Accept, Contract!Idle, Shown, Remote
<1> QED BY <1>3 DEF Contract!EngineNext

\* A valid one becomes an attempt.
LEMMA Registers ==
  ASSUME NEW i \in Ids, NEW s, NEW q, NEW t, NEW c,
         Shown[i] = Entry(s, q, t, c),
         s = "validating",
         Shown' = [Shown EXCEPT ![i] = Entry("loading", q, t, c)],
         output' = output
  PROVE  Contract!EngineNext
<1>1. Shown' = [Shown EXCEPT ![i].state = "loading"]
  <2>1. [Shown[i] EXCEPT !.state = "loading"] = Entry("loading", q, t, c)
    BY DEF Entry
  <2>2. [Shown EXCEPT ![i].state = "loading"]
        = [Shown EXCEPT ![i] = [Shown[i] EXCEPT !.state = "loading"]]
    OBVIOUS
  <2> QED BY <2>1, <2>2
<1>2. Shown[i].state = s /\ Shown[i].seq = q /\ Shown[i].terminal = t
      /\ Shown[i].cancel = c
  BY DEF Entry
<1>3. Contract!Register(i)
  BY <1>1, <1>2
     DEF Contract!Register, Shown, Remote
<1> QED BY <1>3 DEF Contract!EngineNext, Contract!Advance

\* An invalid one is forgotten.
LEMMA Rejects ==
  ASSUME NEW i \in Ids, NEW s, NEW q, NEW t, NEW c,
         Shown[i] = Entry(s, q, t, c),
         s = "validating",
         Shown' = [Shown EXCEPT ![i] = Contract!Unknown],
         output' = output
  PROVE  Contract!EngineNext
<1>1. Shown[i].state = s
  BY DEF Entry
<1>2. Shown[i].state = s /\ Shown[i].seq = q /\ Shown[i].terminal = t
      /\ Shown[i].cancel = c
  BY DEF Entry
<1>3. Contract!Reject(i)
  BY <1>1, <1>2
     DEF Contract!Reject, Shown, Remote
<1> QED BY <1>3 DEF Contract!EngineNext, Contract!Advance

\* An attempt makes its directory.
LEMMA Starts ==
  ASSUME NEW i \in Ids, NEW s, NEW q, NEW t, NEW c,
         Shown[i] = Entry(s, q, t, c),
         s = "loading",
         Shown' = [Shown EXCEPT ![i] = Entry("busy", q, t, c)],
         output' = output \cup {i}
  PROVE  Contract!EngineNext
<1>1. Shown' = [Shown EXCEPT ![i].state = "busy"]
  <2>1. [Shown[i] EXCEPT !.state = "busy"] = Entry("busy", q, t, c)
    BY DEF Entry
  <2>2. [Shown EXCEPT ![i].state = "busy"]
        = [Shown EXCEPT ![i] = [Shown[i] EXCEPT !.state = "busy"]]
    OBVIOUS
  <2> QED BY <2>1, <2>2
<1>2. Shown[i].state = s /\ Shown[i].seq = q /\ Shown[i].terminal = t
      /\ Shown[i].cancel = c
  BY DEF Entry
<1>3. Contract!Start(i)
  BY <1>1, <1>2
     DEF Contract!Start, Shown, Remote
<1> QED BY <1>3 DEF Contract!EngineNext, Contract!Advance

\* It says something that is not the last.
LEMMA EmitsOne ==
  ASSUME NEW i \in Ids, NEW s, NEW q, NEW t, NEW c,
         Shown[i] = Entry(s, q, t, c),
         s \in {"loading", "busy", "sealing"},
         q < Events + 2,
         Shown' = [Shown EXCEPT ![i] = Entry(s, q + 1, t, c)],
         output' = output
  PROVE  Contract!EngineNext
<1>1. Shown' = [Shown EXCEPT ![i].seq = @ + 1]
  <2>1. [Shown[i] EXCEPT !.seq = @ + 1] = Entry(s, q + 1, t, c)
    BY DEF Entry
  <2>2. [Shown EXCEPT ![i].seq = @ + 1]
        = [Shown EXCEPT ![i] = [Shown[i] EXCEPT !.seq = @ + 1]]
    OBVIOUS
  <2> QED BY <2>1, <2>2
<1>2. Shown[i].state = s /\ Shown[i].seq = q /\ Shown[i].terminal = t
      /\ Shown[i].cancel = c
  BY DEF Entry
<1>3. Contract!Emit(i)
  BY <1>1, <1>2
     DEF Contract!Emit, Contract!Running, Shown, Remote
<1> QED BY <1>3 DEF Contract!EngineNext, Contract!Advance

\* It is cancelled while it has no terminal event.
LEMMA Cancels ==
  ASSUME NEW i \in Ids, NEW s, NEW q, NEW t, NEW c,
         Shown[i] = Entry(s, q, t, c),
         s \in {"loading", "busy", "sealing", "closing", "ended", "jammed"},
         t = "none",
         Shown' = [Shown EXCEPT ![i] = Entry(s, q, t, TRUE)],
         output' = output
  PROVE  Contract!EngineNext
<1>1. Shown' = [Shown EXCEPT ![i].cancel = TRUE]
  <2>1. [Shown[i] EXCEPT !.cancel = TRUE] = Entry(s, q, t, TRUE)
    <3>1. \A x : [Shown[i] EXCEPT !.cancel = x] = Entry(s, q, t, x)
      BY DEF Entry
    <3> QED BY <3>1, Zenon
  <2>2. [Shown EXCEPT ![i].cancel = TRUE]
        = [Shown EXCEPT ![i] = [Shown[i] EXCEPT !.cancel = TRUE]]
    OBVIOUS
  <2> QED BY <2>1, <2>2
<1>2. Shown[i].state = s /\ Shown[i].seq = q /\ Shown[i].terminal = t
      /\ Shown[i].cancel = c
  BY DEF Entry
<1>3. Contract!Cancel(i)
  BY <1>1, <1>2
     DEF Contract!Cancel, Contract!Known, Contract!Running, Contract!Over,
         Contract!HasTerminal, Shown, Remote
<1> QED BY <1>3 DEF Contract!EngineNext

\* Its result arrived and was not cancelled.
LEMMA SealsOne ==
  ASSUME NEW i \in Ids, NEW s, NEW q, NEW t, NEW c,
         Shown[i] = Entry(s, q, t, c),
         s = "busy",
         c = FALSE,
         Shown' = [Shown EXCEPT ![i] = Entry("sealing", q, t, c)],
         output' = output
  PROVE  Contract!EngineNext
<1>1. Shown' = [Shown EXCEPT ![i].state = "sealing"]
  <2>1. [Shown[i] EXCEPT !.state = "sealing"] = Entry("sealing", q, t, c)
    BY DEF Entry
  <2>2. [Shown EXCEPT ![i].state = "sealing"]
        = [Shown EXCEPT ![i] = [Shown[i] EXCEPT !.state = "sealing"]]
    OBVIOUS
  <2> QED BY <2>1, <2>2
<1>2. Shown[i].state = s /\ Shown[i].seq = q /\ Shown[i].terminal = t
      /\ Shown[i].cancel = c
  BY DEF Entry
<1>3. Contract!Seal(i)
  BY <1>1, <1>2
     DEF Contract!Seal, Shown, Remote
<1> QED BY <1>3 DEF Contract!EngineNext, Contract!Advance

\* It ended, and so does its thread.
LEMMA Finishes ==
  ASSUME NEW i \in Ids, NEW s, NEW q, NEW t, NEW c,
         Shown[i] = Entry(s, q, t, c),
         s = "closing",
         Shown' = [Shown EXCEPT ![i] = Entry("ended", q, t, c)],
         output' = IF t = "done" THEN output ELSE output \ {i}
  PROVE  Contract!EngineNext
<1>1. Shown' = [Shown EXCEPT ![i].state = "ended"]
  <2>1. [Shown[i] EXCEPT !.state = "ended"] = Entry("ended", q, t, c)
    BY DEF Entry
  <2>2. [Shown EXCEPT ![i].state = "ended"]
        = [Shown EXCEPT ![i] = [Shown[i] EXCEPT !.state = "ended"]]
    OBVIOUS
  <2> QED BY <2>1, <2>2
<1>2. Shown[i].state = s /\ Shown[i].seq = q /\ Shown[i].terminal = t
      /\ Shown[i].cancel = c
  BY DEF Entry
<1>3. Contract!Finish(i)
  BY <1>1, <1>2
     DEF Contract!Finish, Shown, Remote
<1> QED BY <1>3 DEF Contract!EngineNext, Contract!Advance

\* Its thread ends without it.
LEMMA Abandons ==
  ASSUME NEW i \in Ids, NEW s, NEW q, NEW t, NEW c,
         Shown[i] = Entry(s, q, t, c),
         s \in {"loading", "busy", "sealing"},
         Shown' = [Shown EXCEPT ![i] = Entry("ended", q, t, c)],
         output' = output \ {i}
  PROVE  Contract!EngineNext
<1>1. Shown' = [Shown EXCEPT ![i].state = "ended"]
  <2>1. [Shown[i] EXCEPT !.state = "ended"] = Entry("ended", q, t, c)
    BY DEF Entry
  <2>2. [Shown EXCEPT ![i].state = "ended"]
        = [Shown EXCEPT ![i] = [Shown[i] EXCEPT !.state = "ended"]]
    OBVIOUS
  <2> QED BY <2>1, <2>2
<1>2. Shown[i].state = s /\ Shown[i].seq = q /\ Shown[i].terminal = t
      /\ Shown[i].cancel = c
  BY DEF Entry
<1>3. Contract!Abandon(i)
  BY <1>1, <1>2
     DEF Contract!Abandon, Contract!Running, Shown, Remote
<1> QED BY <1>3 DEF Contract!EngineNext

\* Its directory cannot be removed.
LEMMA Jams ==
  ASSUME NEW i \in Ids, NEW s, NEW q, NEW t, NEW c,
         Shown[i] = Entry(s, q, t, c),
         s \in {"loading", "busy", "sealing", "closing"},
         t # "done",
         i \in output,
         Shown' = [Shown EXCEPT ![i] = Entry("jammed", q, t, c)],
         output' \in {output, output \ {i}}
  PROVE  Contract!EngineNext
<1>1. Shown' = [Shown EXCEPT ![i].state = "jammed"]
  <2>1. [Shown[i] EXCEPT !.state = "jammed"] = Entry("jammed", q, t, c)
    BY DEF Entry
  <2>2. [Shown EXCEPT ![i].state = "jammed"]
        = [Shown EXCEPT ![i] = [Shown[i] EXCEPT !.state = "jammed"]]
    OBVIOUS
  <2> QED BY <2>1, <2>2
<1>2. Shown[i].state = s /\ Shown[i].seq = q /\ Shown[i].terminal = t
      /\ Shown[i].cancel = c
  BY DEF Entry
<1>3. Contract!Jam(i)
  BY <1>1, <1>2
     DEF Contract!Jam, Contract!Running, Shown, Remote
<1> QED BY <1>3 DEF Contract!EngineNext

\* A run may end as it does.
LEMMA PromisedEnd ==
  ASSUME NEW i \in Ids, NEW s, NEW q, NEW c, NEW t \in Terminals,
         Shown[i] = Entry(s, q, "none", c),
         Shown' = [Shown EXCEPT ![i] = Entry("closing", q + 1, t, c)],
         s \in {"loading", "busy", "sealing"},
         t = "done" => s = "sealing",
         t = "cancelled" => s # "sealing" /\ Contract!Meant(i),
         output' = output
  PROVE  Contract!EngineNext
<1>1. /\ Shown[i].state = s /\ Shown[i].seq = q /\ i \in DOMAIN Shown
      /\ t \in Contract!Terminal
  BY DEF Entry, Shown, Contract!Terminal, Terminals
<1>2. Contract!MayEnd(i, t)
  <2>1. CASE t = "done"
    BY <1>1, <2>1 DEF Shown, Remote, Contract!MayEnd
  <2>2. CASE t = "cancelled"
    BY <1>1, <2>2 DEF Shown, Remote, Contract!MayEnd
  <2>3. CASE t # "done" /\ t # "cancelled"
    BY <2>3 DEF Contract!MayEnd
  <2> QED BY <2>1, <2>2, <2>3
<1>3. [Shown EXCEPT ![i].state = "closing", ![i].terminal = t,
                    ![i].seq = @ + 1]
      = [Shown EXCEPT ![i] = Entry("closing", q + 1, t, c)]
  <2> DEFINE r1 == [Shown[i] EXCEPT !.state = "closing"]
             r2 == [r1 EXCEPT !.terminal = t]
             r3 == [r2 EXCEPT !.seq = @ + 1]
  <2>1. r3 = Entry("closing", q + 1, t, c)
    <3>1. r1 = Entry("closing", q, "none", c)
      BY DEF Entry
    <3> HIDE DEF r1
    <3>2. r2 = Entry("closing", q, t, c)
      BY <3>1 DEF Entry
    <3> HIDE DEF r2
    <3> QED BY <3>2 DEF Entry
  <2>2. [Shown EXCEPT ![i].state = "closing", ![i].terminal = t,
                      ![i].seq = @ + 1]
        = [Shown EXCEPT ![i] = r3]
    <3> HIDE DEF Shown
    <3> QED BY <1>1
  <2> QED BY <2>1, <2>2, Zenon
<1>4. Contract!End(i, t)
  BY <1>1, <1>2, <1>3 DEF Shown, Remote, Contract!End, Contract!Running
<1> QED BY <1>1, <1>4 DEF Contract!EngineNext, Contract!Advance

\* How far an attempt is, by the place of its thread.
LEMMA PlaceOf ==
  ASSUME NEW i \in Ids, TypeOK, Users, Threads
  PROVE  /\ jobs[i] \in JobRow /\ run[i] \in Thread /\ jobs[i].seq \in Nat
         /\ post[i] = "validating" => run[i].pc = "off" /\ jobs[i] = NoJob
         /\ run[i].pc # "off" => post[i] # "validating" /\ ~jobs[i].finished
                                 /\ jobs[i].state # "none"
         /\ run[i].pc \notin {"off", "closing", "jammed"} =>
              jobs[i].state \in {"loading", "busy"}
         /\ run[i].pc = "off" =>
              jobs[i] = NoJob \/ (jobs[i].state # "none" /\ jobs[i].finished)
<1>1. /\ Progress(i) /\ jobs[i] \in JobRow /\ run[i] \in Thread
      /\ run[i].pc # "off" => ~jobs[i].finished
  BY Types DEF Threads
<1>2. post[i] = "validating" => run[i].pc = "off" /\ jobs[i] = NoJob
  BY Shapes DEF Users
<1>3. run[i].pc \notin {"off", "closing", "jammed"} =>
        jobs[i].state \in {"loading", "busy"}
  BY <1>1 DEF Progress, Before, Thread
<1>4. run[i].pc \in {"closing", "jammed"} => jobs[i].state # "none"
  BY <1>1 DEF Progress, Before
<1>5. run[i].pc = "off" =>
        jobs[i] = NoJob \/ (jobs[i].state # "none" /\ jobs[i].finished)
  BY <1>1 DEF Progress, Before
<1>6. jobs[i].seq \in Nat
  BY <1>1 DEF JobRow
<1> QED BY <1>1, <1>2, <1>3, <1>4, <1>5, <1>6

\* The contract knows of the same requests to cancel.
LEMMA MeantShown ==
  ASSUME NEW i \in Ids, TypeOK, Users, Threads, Meant(i)
  PROVE  Contract!Meant(i)
<1>1. ASSUME NEW k \in Ids, Abandoned(k)
      PROVE  State(k) = "ended" /\ jobs[k].state \notin Terminals
  <2>1. jobs[k].finished /\ jobs[k].state \notin Terminals
    BY <1>1 DEF Abandoned
  <2>2. jobs[k] # NoJob
    BY <2>1 DEF NoJob
  <2>3. run[k].pc = "off" /\ post[k] # "validating"
    BY <2>1, <2>2, PlaceOf
  <2>4. jobs[k].state # "none"
    BY <2>2, <2>3, PlaceOf
  <2> QED BY <2>1, <2>3, <2>4 DEF State
<1> QED BY <1>1 DEF Meant, Contract!Meant, Contract!HasTerminal

\* A request is taken only by an engine that has nothing to do.
LEMMA SubmitShown ==
  ASSUME NEW i \in Ids, TypeOK, Users, Threads, Submit(i)
  PROVE  Promised
<1>1. /\ active = Nothing /\ ~maintenance /\ jobs[i].state = "none"
      /\ jobs' = jobs /\ run' = run /\ output' = output
      /\ post' = [post EXCEPT ![i] = "validating"]
  BY DEF Submit, Free
<1>2. \A k \in Ids : run[k].pc = "off" /\ post[k] # "validating"
  BY <1>1, Shapes DEF Users
<1>3. \A k \in Ids : Shown[k].state \in {"absent", "ended"}
  <2> SUFFICES ASSUME NEW k \in Ids
               PROVE  Shown[k].state \in {"absent", "ended"}
    OBVIOUS
  <2>1. jobs[k] = NoJob \/ (jobs[k].state # "none" /\ jobs[k].finished)
    BY <1>2, PlaceOf
  <2>2. Shown[k] = Seen(post[k], jobs[k], run[k])
    BY SeenShown
  <2>3. CASE jobs[k] = NoJob
    BY <1>2, <2>2, <2>3, UnseenRow DEF Entry
  <2>4. CASE jobs[k].state # "none" /\ jobs[k].finished
    BY <1>2, <2>2, <2>4 DEF Seen, Entry
  <2> QED BY <2>1, <2>3, <2>4
<1>4. jobs[i] = NoJob
  BY <1>1, <1>2, PlaceOf
<1>5. Shown[i] = Entry("absent", 0, "none", FALSE)
  BY <1>2, <1>4, SeenShown, UnseenRow
<1>6. /\ post'[i] = "validating"
      /\ \A k \in Ids \ {i} : post'[k] = post[k]
  BY <1>1, Types
<1>7. Shown' = [Shown EXCEPT ![i] = Seen(post'[i], jobs'[i], run'[i])]
  BY <1>1, <1>6, OneShown
<1>8. Shown' = [Shown EXCEPT ![i] = Entry("validating", 0, "none", FALSE)]
  BY <1>1, <1>4, <1>6, <1>7, UnseenRow
<1> QED BY <1>1, <1>3, <1>5, <1>8, Accepts DEF Promised

\* The attempt is registered when its request was found valid.
LEMMA RegisterShown ==
  ASSUME NEW i \in Ids, TypeOK, Users, Threads, Register(i)
  PROVE  Promised
<1>1. /\ post[i] = "validating" /\ output' = output
      /\ jobs' = [jobs EXCEPT ![i] = [NoJob EXCEPT !.state = "loading"]]
      /\ run' = [run EXCEPT ![i] = [NoRun EXCEPT !.pc = "load"]]
      /\ post' = [post EXCEPT ![i] = "leaving"]
  BY DEF Register
<1>2. /\ jobs'[i] = [state |-> "loading", seq |-> 0, cancelled |-> FALSE,
                     finished |-> FALSE]
      /\ run'[i] = [pc |-> "load", phase |-> "loading", code |-> "none"]
      /\ post'[i] = "leaving"
      /\ \A k \in Ids \ {i} : /\ jobs'[k] = jobs[k]
                              /\ run'[k] = run[k]
                              /\ post'[k] = post[k]
  BY <1>1, Types DEF NoJob, NoRun
<1>3. jobs[i] = NoJob
  BY <1>1, PlaceOf
<1>4. Shown[i] = Entry("validating", 0, "none", FALSE)
  BY <1>1, <1>3, SeenShown, UnseenRow
<1>5. Shown' = [Shown EXCEPT ![i] = Seen(post'[i], jobs'[i], run'[i])]
  BY <1>2, OneShown
<1>6. Seen(post'[i], jobs'[i], run'[i]) = Entry("loading", 0, "none", FALSE)
  BY <1>2 DEF Seen, Terminals
<1>7. Shown' = [Shown EXCEPT ![i] = Entry("loading", 0, "none", FALSE)]
  BY <1>5, <1>6
<1> QED BY <1>1, <1>4, <1>7, Registers DEF Promised

\* An invalid request leaves nothing behind.
LEMMA LeaveShown ==
  ASSUME NEW i \in Ids, TypeOK, Users, Threads, Leave(i)
  PROVE  Promised
<1>1. /\ post[i] \in {"validating", "leaving"}
      /\ jobs' = jobs /\ run' = run /\ output' = output
      /\ post' = [post EXCEPT ![i] = "off"]
  BY DEF Leave
<1>2. /\ post'[i] = "off"
      /\ \A k \in Ids \ {i} : post'[k] = post[k]
  BY <1>1, Types
<1>3. Shown' = [Shown EXCEPT ![i] = Seen(post'[i], jobs'[i], run'[i])]
  BY <1>1, <1>2, OneShown
<1>4. CASE post[i] = "validating"
  <2>1. jobs[i] = NoJob
    BY <1>4, PlaceOf
  <2>2. Shown[i] = Entry("validating", 0, "none", FALSE)
    BY <1>4, <2>1, SeenShown, UnseenRow
  <2>3. Shown' = [Shown EXCEPT ![i] = Entry("absent", 0, "none", FALSE)]
    BY <1>1, <1>2, <1>3, <2>1, UnseenRow
  <2>4. Entry("absent", 0, "none", FALSE) = Contract!Unknown
    BY DEF Entry, Contract!Unknown
  <2>5. Shown' = [Shown EXCEPT ![i] = Contract!Unknown]
    BY <2>3, <2>4
  <2> QED BY <1>1, <2>2, <2>5, Rejects DEF Promised
<1>5. CASE post[i] = "leaving"
  <2>1. Seen(post'[i], jobs'[i], run'[i]) = Seen(post[i], jobs[i], run[i])
    BY <1>1, <1>2, <1>5 DEF Seen
  <2>2. Shown' = Shown
    <3>1. Seen(post'[i], jobs'[i], run'[i]) = Shown[i]
      BY <2>1, SeenShown
    <3> QED BY <1>3, <3>1 DEF Shown
  <2> QED BY <1>1, <2>2 DEF Promised
<1> QED BY <1>1, <1>4, <1>5

\* Only an attempt without a terminal event is cancelled.
LEMMA CancelShown ==
  ASSUME NEW i \in Ids, TypeOK, Users, Threads, Cancel(i)
  PROVE  Promised
<1>1. /\ jobs[i].state \in {"loading", "busy"}
      /\ run' = run /\ post' = post /\ output' = output
      /\ jobs' = [jobs EXCEPT ![i].cancelled = TRUE]
  BY DEF Cancel, MayCancel
<1>2. /\ jobs'[i].state = jobs[i].state /\ jobs'[i].seq = jobs[i].seq
      /\ jobs'[i].finished = jobs[i].finished /\ jobs'[i].cancelled = TRUE
      /\ \A k \in Ids \ {i} : jobs'[k] = jobs[k]
    BY <1>1, Types DEF JobRow
<1>3. post[i] # "validating" /\ run[i] \in Thread
  BY <1>1, PlaceOf DEF NoJob
<1>4. jobs[i].state \notin Terminals /\ jobs[i].state # "none"
  BY <1>1 DEF Terminals
<1>5. PICK s : s = IF jobs[i].finished THEN "ended"
                   ELSE IF run[i].pc = "jammed" THEN "jammed"
                   ELSE run[i].phase
  OBVIOUS
<1>6. s \in {"loading", "busy", "sealing", "closing", "ended", "jammed"}
  BY <1>3, <1>5 DEF Thread
<1>7. Shown[i] = Entry(s, jobs[i].seq, "none", jobs[i].cancelled)
  BY <1>3, <1>4, <1>5, SeenShown DEF Seen
<1>8. Shown' = [Shown EXCEPT ![i] = Seen(post'[i], jobs'[i], run'[i])]
  BY <1>1, <1>2, OneShown
<1>9. Seen(post'[i], jobs'[i], run'[i]) = Entry(s, jobs[i].seq, "none", TRUE)
  BY <1>1, <1>2, <1>3, <1>4, <1>5 DEF Seen
<1>10. Shown' = [Shown EXCEPT ![i] = Entry(s, jobs[i].seq, "none", TRUE)]
  BY <1>8, <1>9
<1> QED BY <1>1, <1>6, <1>7, <1>10, Cancels DEF Promised

\* What the contract sees of the step of a thread whose attempt has no
\* terminal event yet.
LEMMA ThreadShown ==
  ASSUME NEW i \in Ids, TypeOK, Users, Threads, NEW r, NEW b,
         run[i].pc \notin {"off", "jammed"},
         jobs[i].state \in {"loading", "busy"},
         run' = [run EXCEPT ![i] = r], jobs' = [jobs EXCEPT ![i] = b],
         post' = post
  PROVE  /\ Shown[i] = Entry(run[i].phase, jobs[i].seq, "none",
                             jobs[i].cancelled)
         /\ run[i].phase \in {"loading", "busy", "sealing"}
         /\ Shown' = [Shown EXCEPT ![i] = Seen(post[i], b, r)]
         /\ post[i] # "validating" /\ ~jobs[i].finished
<1>1. /\ run[i] \in Thread /\ post[i] # "validating" /\ ~jobs[i].finished
  BY PlaceOf
<1>2. jobs[i].state \notin Terminals /\ jobs[i].state # "none"
  BY DEF Terminals
<1>3. Shown[i] = Entry(run[i].phase, jobs[i].seq, "none", jobs[i].cancelled)
  BY <1>1, <1>2, SeenShown DEF Seen
<1>4. /\ run'[i] = r /\ jobs'[i] = b
      /\ \A k \in Ids \ {i} : run'[k] = run[k] /\ jobs'[k] = jobs[k]
  BY Types
<1>5. Shown' = [Shown EXCEPT ![i] = Seen(post'[i], jobs'[i], run'[i])]
  BY <1>4, OneShown
<1> QED BY <1>1, <1>3, <1>4, <1>5 DEF Thread

\* An attempt whose thread goes on is in the phase of that thread.
LEMMA GoesOn ==
  ASSUME NEW p, NEW b, NEW r, p # "validating", ~b.finished,
         b.state \in {"loading", "busy"}, r.pc # "jammed"
  PROVE  Seen(p, b, r) = Entry(r.phase, b.seq, "none", b.cancelled)
BY DEF Seen, Terminals

\* A step of the thread that goes on and says nothing is not seen.
LEMMA SilentStep ==
  ASSUME NEW i \in Ids, TypeOK, Users, Threads, NEW r, NEW b,
         run[i].pc \notin {"off", "jammed"},
         jobs[i].state \in {"loading", "busy"},
         run' = [run EXCEPT ![i] = r], jobs' = [jobs EXCEPT ![i] = b],
         r.pc # "jammed", r.phase = run[i].phase,
         b.seq = jobs[i].seq, b.cancelled = jobs[i].cancelled,
         ~b.finished, b.state \in {"loading", "busy"},
         post' = post, output' = output
  PROVE  Promised
<1>0. /\ Shown[i] = Entry(run[i].phase, jobs[i].seq, "none",
                          jobs[i].cancelled)
      /\ Shown' = [Shown EXCEPT ![i] = Seen(post[i], b, r)]
      /\ post[i] # "validating"
  BY ZenonT(60), ThreadShown
<1>1. Seen(post[i], b, r) = Shown[i]
  <2>1. Seen(post[i], b, r) = Entry(r.phase, b.seq, "none", b.cancelled)
    BY <1>0, GoesOn
  <2> QED BY <1>0, <2>1
<1>2. Shown' = Shown
  BY <1>0, <1>1 DEF Shown
<1> QED BY <1>2 DEF Promised

\* A step that emits an event which is not the last.
LEMMA EmitStep ==
  ASSUME NEW i \in Ids, TypeOK, Users, Threads, NEW r, NEW b,
         run[i].pc \notin {"off", "jammed"},
         jobs[i].state \in {"loading", "busy"}, jobs[i].seq < Events + 2,
         run' = [run EXCEPT ![i] = r], jobs' = [jobs EXCEPT ![i] = b],
         r.pc # "jammed", r.phase = run[i].phase,
         b.seq = jobs[i].seq + 1, b.cancelled = jobs[i].cancelled,
         ~b.finished, b.state \in {"loading", "busy"},
         post' = post, output' = output
  PROVE  Promised
<1>1. /\ Shown[i] = Entry(run[i].phase, jobs[i].seq, "none",
                          jobs[i].cancelled)
      /\ run[i].phase \in {"loading", "busy", "sealing"}
      /\ Shown' = [Shown EXCEPT ![i] = Seen(post[i], b, r)]
      /\ post[i] # "validating"
  BY ZenonT(60), ThreadShown
<1>2. Seen(post[i], b, r)
        = Entry(run[i].phase, jobs[i].seq + 1, "none", jobs[i].cancelled)
  BY <1>1, GoesOn
<1>3. PICK s, q, c : /\ s = run[i].phase /\ q = jobs[i].seq
                      /\ c = jobs[i].cancelled
  OBVIOUS
<1>4. Shown' = [Shown EXCEPT ![i] = Entry(s, q + 1, "none", c)]
  BY <1>1, <1>2, <1>3
<1>5. /\ Shown[i] = Entry(s, q, "none", c)
      /\ s \in {"loading", "busy", "sealing"} /\ q < Events + 2
  BY <1>1, <1>3
<1> QED BY <1>4, <1>5, EmitsOne DEF Promised

\* The last event.
LEMMA EndStep ==
  ASSUME NEW i \in Ids, TypeOK, Users, Threads, NEW r, NEW b,
         NEW t \in Terminals,
         run[i].pc \notin {"off", "jammed"},
         jobs[i].state \in {"loading", "busy"},
         t = "done" => run[i].phase = "sealing",
         t = "cancelled" => run[i].phase # "sealing" /\ Meant(i),
         run' = [run EXCEPT ![i] = r], jobs' = [jobs EXCEPT ![i] = b],
         r.pc # "jammed", b.seq = jobs[i].seq + 1, b.state = t,
         b.cancelled = jobs[i].cancelled, ~b.finished,
         post' = post, output' = output
  PROVE  Promised
<1>1. /\ Shown[i] = Entry(run[i].phase, jobs[i].seq, "none",
                          jobs[i].cancelled)
      /\ run[i].phase \in {"loading", "busy", "sealing"}
      /\ Shown' = [Shown EXCEPT ![i] = Seen(post[i], b, r)]
      /\ post[i] # "validating"
  BY ThreadShown
<1>2. Seen(post[i], b, r)
        = Entry("closing", jobs[i].seq + 1, t, jobs[i].cancelled)
  BY <1>1 DEF Seen, Terminals
<1>3. t = "cancelled" => run[i].phase # "sealing" /\ Contract!Meant(i)
  BY MeantShown
<1>4. PICK s, q, c : /\ s = run[i].phase /\ q = jobs[i].seq
                      /\ c = jobs[i].cancelled
  OBVIOUS
<1>5. Shown' = [Shown EXCEPT ![i] = Entry("closing", q + 1, t, c)]
  BY <1>1, <1>2, <1>4
<1>6. /\ Shown[i] = Entry(s, q, "none", c)
      /\ s \in {"loading", "busy", "sealing"}
      /\ t = "done" => s = "sealing"
      /\ t = "cancelled" => s # "sealing" /\ Contract!Meant(i)
  BY <1>1, <1>3, <1>4
<1> QED BY <1>5, <1>6, PromisedEnd DEF Promised

\* The rows of a thread that goes on without an event.
LEMMA StaysShown ==
  ASSUME NEW i \in Ids, TypeOK, Users, Threads,
         run[i].pc \notin {"off", "closing", "jammed"},
         UNCHANGED <<jobs, post, output>>,
         \/ UNCHANGED run
         \/ \E pc \in Places \ {"jammed"} : GoTo(i, pc)
         \/ \E code \in Codes : Fail(i, code)
  PROVE  Promised
<1>1. /\ jobs[i].state \in {"loading", "busy"} /\ ~jobs[i].finished
      /\ jobs' = [jobs EXCEPT ![i] = jobs[i]]
  BY PlaceOf, SameRow
<1>2. PICK r : /\ run' = [run EXCEPT ![i] = r] /\ r.pc # "jammed"
               /\ r.phase = run[i].phase
  <2>1. CASE UNCHANGED run
    <3>1. run' = [run EXCEPT ![i] = run[i]]
      BY <2>1, Types
    <3> QED BY <3>1
  <2>2. CASE \E pc \in Places \ {"jammed"} : GoTo(i, pc)
    BY <2>2, GoesTo
  <2>3. CASE \E code \in Codes : Fail(i, code)
    BY <2>3, FailsWith
  <2> QED BY <2>1, <2>2, <2>3
<1> QED BY <1>1, <1>2, SilentStep

\* Steps that say nothing: loading the model, its errors, the last look at
\* the cancellation, the command to generate, a time-out, and unloading, which
\* may take the terminal event with it.
LEMMA QuietShown ==
  ASSUME NEW i \in Ids, TypeOK, Users, Threads,
         \/ RunSpawns(i) \/ RunLoaded(i) \/ RunChecks(i) \/ RunTimesOut(i)
         \/ RunUnloads(i)
  PROVE  Promised
<1>1. /\ run[i].pc \notin {"off", "closing", "jammed"}
      /\ UNCHANGED <<jobs, post, output>>
  BY DEF RunSpawns, RunLoaded, RunChecks, RunTimesOut, RunUnloads, Unloads,
         handlers
<1>2. CASE RunSpawns(i) \/ RunChecks(i) \/ RunTimesOut(i)
  <2>1. \/ \E pc \in Places \ {"jammed"} : GoTo(i, pc)
        \/ \E code \in Codes : Fail(i, code)
    BY <1>2 DEF RunSpawns, RunChecks, RunTimesOut, Places, Before, Codes
  <2> QED BY <1>1, <2>1, StaysShown
<1>3. CASE RunUnloads(i)
  <2>1. \/ UNCHANGED run
        \/ \E pc \in Places \ {"jammed"} : GoTo(i, pc)
        \/ \E code \in Codes : Fail(i, code)
    BY <1>3 DEF RunUnloads, Places, Before, Codes
  <2> QED BY <1>1, <2>1, StaysShown
<1>4. CASE RunLoaded(i)
  <2>1. CASE GoTo(i, "ready")
    BY <1>1, <2>1, StaysShown DEF Places, Before
  <2>2. CASE \E code \in {"internal", "vram"} :
               run' = [run EXCEPT ![i].pc = "undoing", ![i].code = code]
    <3>1. PICK code \in {"internal", "vram"} :
            run' = [run EXCEPT ![i].pc = "undoing", ![i].code = code]
      BY <2>2
    <3>2. PICK r : r = [run[i] EXCEPT !.pc = "undoing", !.code = code]
      OBVIOUS
    <3>3. run' = [run EXCEPT ![i] = r] /\ r.pc # "jammed"
          /\ r.phase = run[i].phase
      BY ZenonT(60), <3>1, <3>2, Types DEF Thread
    <3> QED BY <1>1, <3>3, PlaceOf, SameRow, SilentStep
  <2> QED BY <1>4, <2>1, <2>2 DEF RunLoaded
<1> QED BY <1>2, <1>3, <1>4

\* The command to generate, once it is written, makes the attempt busy.
LEMMA SendsShown ==
  ASSUME NEW i \in Ids, TypeOK, Users, Threads, RunSends(i)
  PROVE  Promised
<1>1. /\ run[i].pc = "created" /\ UNCHANGED <<post, output>>
      /\ \/ GoTo(i, "waiting") /\ jobs' = [jobs EXCEPT ![i].state = "busy"]
         \/ Fail(i, "internal") /\ UNCHANGED jobs
  BY DEF RunSends, handlers
<1>2. CASE Fail(i, "internal") /\ UNCHANGED jobs
  BY <1>1, <1>2, StaysShown DEF Codes
<1>3. CASE GoTo(i, "waiting") /\ jobs' = [jobs EXCEPT ![i].state = "busy"]
  <2>1. PICK r \in Thread : /\ run' = [run EXCEPT ![i] = r]
                            /\ r.pc = "waiting" /\ r.phase = run[i].phase
    BY <1>3, GoesTo DEF Places
  <2>2. PICK b : b = [jobs[i] EXCEPT !.state = "busy"]
    OBVIOUS
  <2>3. /\ jobs' = [jobs EXCEPT ![i] = b] /\ b.state = "busy"
        /\ b.seq = jobs[i].seq /\ b.cancelled = jobs[i].cancelled
        /\ b.finished = jobs[i].finished
    BY <1>3, <2>2, Types DEF JobRow
  <2> QED BY <1>1, <2>1, <2>3, PlaceOf, SilentStep
<1> QED BY <1>1, <1>2, <1>3

\* Loading the model is announced by an event, unless it is there already.
LEMMA LoadsShown ==
  ASSUME NEW i \in Ids, TypeOK, Users, Threads, RunLoads(i)
  PROVE  Promised
<1>1. /\ run[i].pc = "load" /\ UNCHANGED <<post, output>>
      /\ \/ GoTo(i, "ready") /\ UNCHANGED jobs
         \/ GoTo(i, "emptying") /\ jobs' = Emitted(i)
  BY DEF RunLoads, handlers
<1>2. CASE GoTo(i, "ready") /\ UNCHANGED jobs
  BY <1>1, <1>2, StaysShown DEF Places, Before
<1>3. CASE GoTo(i, "emptying") /\ jobs' = Emitted(i)
  <2>1. jobs[i].seq = 0
    BY <1>1 DEF Threads, Progress, Before
  <2>2. 0 < Events + 2 /\ 0 < Events + 3
    BY Shapes
  <2>3. PICK r \in Thread : /\ run' = [run EXCEPT ![i] = r]
                            /\ r.pc = "emptying" /\ r.phase = run[i].phase
    BY <1>3, GoesTo DEF Places, Before
  <2>4. PICK b \in JobRow : /\ jobs' = [jobs EXCEPT ![i] = b]
                            /\ b.seq = jobs[i].seq + 1
                            /\ b.state = jobs[i].state
                            /\ b.cancelled = jobs[i].cancelled
                            /\ b.finished = jobs[i].finished
    BY <1>3, <2>1, <2>2, Emits
  <2>5. jobs[i].state \in {"loading", "busy"} /\ ~jobs[i].finished
    BY <1>1, PlaceOf
  <2>6. jobs[i].seq < Events + 2
    BY <2>1, <2>2
  <2> QED BY <1>1, <2>3, <2>4, <2>5, <2>6, EmitStep
<1> QED BY <1>1, <1>2, <1>3

\* The directory is made as the attempt starts to generate, also where the
\* child turns out to be gone.
LEMMA CreatesShown ==
  ASSUME NEW i \in Ids, TypeOK, Users, Threads, RunCreates(i)
  PROVE  Promised
<1>1. /\ run[i].pc = "clear" /\ UNCHANGED <<post, jobs>>
  BY DEF RunCreates, handlers
<1>2. CASE Fail(i, "internal") /\ UNCHANGED output
  BY <1>1, <1>2, StaysShown DEF Codes
<1>3. CASE /\ output' = output \cup {i}
           /\ run' = [run EXCEPT ![i].phase = "busy",
                        ![i].pc = IF child.up THEN "created" ELSE "failing",
                        ![i].code = IF child.up THEN @ ELSE "internal"]
  <2>1. PICK r : r = [run[i] EXCEPT !.phase = "busy",
                        !.pc = IF child.up THEN "created" ELSE "failing",
                        !.code = IF child.up THEN @ ELSE "internal"]
    OBVIOUS
  <2>2. /\ run' = [run EXCEPT ![i] = r] /\ r.pc # "jammed"
        /\ r.phase = "busy"
    BY <1>3, <2>1, Types DEF Thread
  <2>3. run[i].phase = "loading"
    BY <1>1 DEF Threads, Progress, Before
  <2>4. jobs[i].state \in {"loading", "busy"} /\ ~jobs[i].finished
    BY <1>1, PlaceOf
  <2>5. PICK q, c, p, b : /\ q = jobs[i].seq /\ c = jobs[i].cancelled
                          /\ p = post[i] /\ b = jobs[i]
    OBVIOUS
  <2>6. /\ Shown[i] = Entry("loading", q, "none", c)
        /\ Shown' = [Shown EXCEPT ![i] = Seen(p, b, r)]
        /\ p # "validating"
    <3>1. jobs' = [jobs EXCEPT ![i] = b]
      BY <1>1, <2>5, SameRow
    <3>2. run[i].pc \notin {"off", "jammed"} /\ post' = post
      BY <1>1
    <3>3. /\ Shown[i] = Entry(run[i].phase, jobs[i].seq, "none",
                              jobs[i].cancelled)
          /\ Shown' = [Shown EXCEPT ![i] = Seen(post[i], b, r)]
          /\ post[i] # "validating"
      BY <2>2, <2>4, <3>1, <3>2, ThreadShown
    <3> QED BY <2>3, <2>5, <3>3
  <2>7. Seen(p, b, r) = Entry("busy", q, "none", c)
    BY <2>2, <2>4, <2>5, <2>6, GoesOn
  <2>8. Shown' = [Shown EXCEPT ![i] = Entry("busy", q, "none", c)]
    BY <2>6, <2>7
  <2> QED BY <1>3, <2>6, <2>8, Starts DEF Promised
<1> QED BY <1>2, <1>3 DEF RunCreates

\* A message of the child is an event of the attempt, its result or the
\* reason it fails; the result of a cancelled attempt is not sealed.
LEMMA ReceivesShown ==
  ASSUME NEW i \in Ids, TypeOK, Users, Threads, Child, RunReceives(i)
  PROVE  Promised
<1>1. /\ run[i].pc = "waiting" /\ messages # <<>>
      /\ messages \in Seq(Message)
      /\ UNCHANGED <<post, output>>
      /\ jobs[i].state \in {"loading", "busy"} /\ ~jobs[i].finished
      /\ run[i].phase = "busy"
  <2>1. run[i].pc = "waiting"
    BY DEF RunReceives
  <2>2. run[i].phase = "busy"
    BY <2>1 DEF Threads, Progress, Before
  <2> QED BY <2>1, <2>2, PlaceOf, Types DEF RunReceives, handlers, Shaped
<1>2. \/ Head(messages).kind = "event" /\ jobs' = Emitted(i) /\ UNCHANGED run
      \/ UNCHANGED jobs /\ \E code \in Codes : Fail(i, code)
      \/ /\ UNCHANGED jobs /\ ~jobs[i].cancelled
         /\ run' = [run EXCEPT ![i].pc = "sealing", ![i].phase = "sealing"]
  BY DEF RunReceives, Codes
<1>3. CASE UNCHANGED jobs /\ \E code \in Codes : Fail(i, code)
  BY <1>1, <1>3, StaysShown
<1>4. CASE /\ Head(messages).kind = "event" /\ jobs' = Emitted(i)
           /\ UNCHANGED run
  <2>1. jobs[i].seq < Events + 2 /\ jobs[i].seq < Events + 3
    <3>1. Told(i)
      BY <1>1 DEF Child, Heard
    <3>2. Len(messages) \in Nat \ {0} /\ Head(messages) = messages[1]
      BY <1>1, TailAt
    <3>3. jobs[i].seq \in Nat /\ Events \in Nat
      BY PlaceOf, Shapes
    <3> QED BY <1>4, <3>1, <3>2, <3>3 DEF Told
  <2>2. PICK b \in JobRow : /\ jobs' = [jobs EXCEPT ![i] = b]
                            /\ b.seq = jobs[i].seq + 1
                            /\ b.state = jobs[i].state
                            /\ b.cancelled = jobs[i].cancelled
                            /\ b.finished = jobs[i].finished
    BY <1>4, <2>1, Emits
  <2>3. PICK r : r = run[i]
    OBVIOUS
  <2>4. run' = [run EXCEPT ![i] = r] /\ r.pc # "jammed"
        /\ r.phase = run[i].phase
    BY <1>1, <1>4, <2>3, Types
  <2> QED BY <1>1, <2>1, <2>2, <2>4, EmitStep
<1>5. CASE /\ UNCHANGED jobs /\ ~jobs[i].cancelled
           /\ run' = [run EXCEPT ![i].pc = "sealing", ![i].phase = "sealing"]
  <2>1. PICK r : r = [run[i] EXCEPT !.pc = "sealing", !.phase = "sealing"]
    OBVIOUS
  <2>2. /\ run' = [run EXCEPT ![i] = r] /\ r.pc # "jammed"
        /\ r.phase = "sealing"
    BY <1>5, <2>1, Types DEF Thread
  <2>3. PICK q, c, p, b : /\ q = jobs[i].seq /\ c = jobs[i].cancelled
                          /\ p = post[i] /\ b = jobs[i]
    OBVIOUS
  <2>4. /\ Shown[i] = Entry("busy", q, "none", c)
        /\ Shown' = [Shown EXCEPT ![i] = Seen(p, b, r)]
        /\ p # "validating"
    <3>1. jobs' = [jobs EXCEPT ![i] = b]
      BY <1>5, <2>3, SameRow
    <3>2. run[i].pc \notin {"off", "jammed"} /\ post' = post
      BY <1>1
    <3>3. /\ Shown[i] = Entry(run[i].phase, jobs[i].seq, "none",
                              jobs[i].cancelled)
          /\ Shown' = [Shown EXCEPT ![i] = Seen(post[i], b, r)]
          /\ post[i] # "validating"
      BY ZenonT(60), <1>1, <2>2, <3>1, <3>2, ThreadShown
    <3> QED BY <1>1, <2>3, <3>3
  <2>5. Seen(p, b, r) = Entry("sealing", q, "none", c)
    BY <1>1, <2>2, <2>3, <2>4, GoesOn
  <2>6. Shown' = [Shown EXCEPT ![i] = Entry("sealing", q, "none", c)]
    BY <2>4, <2>5
  <2>7. c = FALSE /\ output' = output
    <3>1. jobs[i].cancelled \in BOOLEAN
      BY Types DEF JobRow
    <3>2. jobs[i].cancelled = FALSE
      BY <1>5, <3>1, Zenon
    <3> QED BY <1>1, <2>3, <3>2
  <2>8. PICK s, t : s = "busy" /\ t = "none"
    OBVIOUS
  <2>9. /\ Shown[i] = Entry(s, q, t, c)
        /\ Shown' = [Shown EXCEPT ![i] = Entry("sealing", q, t, c)]
    BY <2>4, <2>6, <2>8
  <2>10. Contract!EngineNext
    BY <2>7, <2>8, <2>9, SealsOne
  <2> QED BY <2>10 DEF Promised
<1> QED BY <1>2, <1>3, <1>4, <1>5

\* The artifact is an event before the last.
LEMMA SealsShown ==
  ASSUME NEW i \in Ids, TypeOK, Users, Threads, RunSeals(i)
  PROVE  Promised
<1>1. /\ run[i].pc = "sealing" /\ UNCHANGED <<post, output>>
      /\ jobs[i].state \in {"loading", "busy"} /\ ~jobs[i].finished
  <2>1. run[i].pc = "sealing"
    BY DEF RunSeals
  <2> QED BY <2>1, PlaceOf DEF RunSeals, handlers
<1>2. jobs[i].seq < Events + 2 /\ jobs[i].seq < Events + 3
  <2>1. jobs[i].seq <= Events + 1
    BY <1>1 DEF Threads, Progress, Before
  <2> QED BY <2>1, PlaceOf, Shapes
<1>3. CASE jobs' = Emitted(i) /\ GoTo(i, "sealed")
  <2>1. PICK r \in Thread : /\ run' = [run EXCEPT ![i] = r]
                            /\ r.pc = "sealed" /\ r.phase = run[i].phase
    BY <1>3, GoesTo DEF Places
  <2>2. PICK b \in JobRow : /\ jobs' = [jobs EXCEPT ![i] = b]
                            /\ b.seq = jobs[i].seq + 1
                            /\ b.state = jobs[i].state
                            /\ b.cancelled = jobs[i].cancelled
                            /\ b.finished = jobs[i].finished
    BY <1>2, <1>3, Emits
  <2> QED BY <1>1, <1>2, <2>1, <2>2, EmitStep
<1>4. CASE UNCHANGED jobs /\ \E code \in Codes : Fail(i, code)
  BY <1>1, <1>4, StaysShown
<1> QED BY <1>3, <1>4 DEF RunSeals, Codes

\* The terminal event is the one the contract allows.
LEMMA EndsShown ==
  ASSUME NEW i \in Ids, TypeOK, Users, Threads, RunDone(i) \/ RunFails(i)
  PROVE  Promised
<1>1. /\ run[i].pc \in {"sealed", "failing"}
      /\ GoTo(i, "closing") /\ UNCHANGED <<post, output>>
  BY DEF RunDone, RunFails, handlers
<1>2. PICK t \in Terminals :
        /\ jobs' = Ended(i, t)
        /\ t = "done" => run[i].phase = "sealing"
        /\ t = "cancelled" => run[i].phase # "sealing" /\ Meant(i)
  <2>1. CASE RunDone(i)
    <3>1. run[i].pc = "sealed" /\ jobs' = Ended(i, "done")
      BY <2>1 DEF RunDone
    <3>2. run[i].phase = "sealing"
      BY <3>1 DEF Threads, Progress, Before
    <3>3. "done" \in Terminals
      BY DEF Terminals
    <3> QED BY <3>1, <3>2, <3>3
  <2>2. CASE RunFails(i)
    <3>1. /\ run[i].pc = "failing"
          /\ \E t \in TerminalsOf(run[i].code) : jobs' = Ended(i, t)
      BY <2>2 DEF RunFails
    <3>2. /\ run[i].code \in Codes
          /\ run[i].code = "cancelled" => Meant(i) /\ run[i].phase # "sealing"
      BY <3>1 DEF Threads, Progress, Before
    <3>3. PICK t \in TerminalsOf(run[i].code) : jobs' = Ended(i, t)
      BY <3>1
    <3>4. t \in Terminals /\ t # "done"
          /\ (t = "cancelled" => run[i].code = "cancelled")
      BY <3>2, <3>3 DEF Codes, Terminals, TerminalsOf
    <3> QED BY <3>1, <3>2, <3>3, <3>4
  <2> QED BY <2>1, <2>2
<1>3. jobs[i].seq < Events + 3
  <2>1. jobs[i].seq <= Events + 2
    <3>1. CASE run[i].pc = "sealed"
      BY <3>1 DEF Threads, Progress, Before
    <3>2. CASE run[i].pc = "failing"
      <4>1. jobs[i].seq <= Events + 1
        BY <3>2 DEF Threads, Progress, Before
      <4> QED BY <4>1, PlaceOf, Shapes
    <3> QED BY <1>1, <3>1, <3>2
  <2> QED BY <2>1, PlaceOf, Shapes
<1>4. PICK r \in Thread : run' = [run EXCEPT ![i] = r] /\ r.pc = "closing"
  BY <1>1, GoesTo DEF Places
<1>5. PICK b \in JobRow : /\ jobs' = [jobs EXCEPT ![i] = b]
                          /\ b.seq = jobs[i].seq + 1
                          /\ b.state = t
                          /\ b.cancelled = jobs[i].cancelled
                          /\ b.finished = jobs[i].finished
  BY <1>2, <1>3, EndsWith
<1>6. jobs[i].state \in {"loading", "busy"} /\ ~jobs[i].finished
  BY <1>1, PlaceOf
<1> QED BY <1>1, <1>2, <1>4, <1>5, <1>6, EndStep

\* What the contract sees of a thread that is about to close.
LEMMA ClosingShown ==
  ASSUME NEW i \in Ids, TypeOK, Users, Threads, run[i].pc = "closing"
  PROVE  \E s, t : /\ Shown[i] = Entry(s, jobs[i].seq, t, jobs[i].cancelled)
                   /\ jobs[i].state \notin Terminals =>
                        s \in {"loading", "busy", "sealing"} /\ t = "none"
                   /\ jobs[i].state \in Terminals =>
                        s = "closing" /\ t = jobs[i].state
                   /\ t = IF jobs[i].state \in Terminals THEN jobs[i].state
                          ELSE "none"
<1>1. /\ run[i] \in Thread /\ post[i] # "validating" /\ ~jobs[i].finished
      /\ jobs[i].state # "none"
  BY PlaceOf
<1>2. Shown[i] = Seen(post[i], jobs[i], run[i])
  BY SeenShown
<1>3. CASE jobs[i].state \in Terminals
  <2>1. Shown[i] = Entry("closing", jobs[i].seq, jobs[i].state,
                         jobs[i].cancelled)
    BY <1>1, <1>2, <1>3 DEF Seen
  <2> QED BY <1>3, <2>1
<1>4. CASE jobs[i].state \notin Terminals
  <2>1. Shown[i] = Entry(run[i].phase, jobs[i].seq, "none",
                         jobs[i].cancelled)
    BY <1>1, <1>2, <1>4 DEF Seen
  <2>2. run[i].phase \in {"loading", "busy", "sealing"}
    BY <1>1 DEF Thread
  <2> QED BY <1>4, <2>1, <2>2
<1> QED BY <1>3, <1>4

\* The directory of anything but a success is removed as the attempt ends,
\* with or without its terminal event.
LEMMA ClosesShown ==
  ASSUME NEW i \in Ids, TypeOK, Users, Threads, RunCloses(i)
  PROVE  Promised
<1>1. /\ run[i].pc = "closing" /\ post' = post
      /\ output' = IF jobs[i].state = "done" THEN output ELSE output \ {i}
      /\ jobs' = [jobs EXCEPT ![i].finished = TRUE]
      /\ run' = [run EXCEPT ![i] = NoRun]
  BY DEF RunCloses, handlers
<1>2. /\ jobs'[i].state = jobs[i].state /\ jobs'[i].seq = jobs[i].seq
      /\ jobs'[i].cancelled = jobs[i].cancelled /\ jobs'[i].finished
      /\ \A k \in Ids \ {i} : jobs'[k] = jobs[k] /\ run'[k] = run[k]
  BY <1>1, Types DEF JobRow
<1>3. PICK s, t :
        /\ Shown[i] = Entry(s, jobs[i].seq, t, jobs[i].cancelled)
        /\ jobs[i].state \notin Terminals =>
             s \in {"loading", "busy", "sealing"} /\ t = "none"
        /\ jobs[i].state \in Terminals => s = "closing" /\ t = jobs[i].state
        /\ t = IF jobs[i].state \in Terminals THEN jobs[i].state ELSE "none"
  BY <1>1, ClosingShown
<1>4. PICK q, c : q = jobs[i].seq /\ c = jobs[i].cancelled
  OBVIOUS
<1>5. Shown' = [Shown EXCEPT ![i] = Seen(post'[i], jobs'[i], run'[i])]
  BY <1>1, <1>2, OneShown
<1>6. Seen(post'[i], jobs'[i], run'[i]) = Entry("ended", q, t, c)
  <2>1. post[i] # "validating" /\ jobs[i].state # "none"
    BY <1>1, PlaceOf
  <2> QED BY <1>1, <1>2, <1>3, <1>4, <2>1 DEF Seen
<1>7. Shown' = [Shown EXCEPT ![i] = Entry("ended", q, t, c)]
  BY <1>5, <1>6
<1>8. Shown[i] = Entry(s, q, t, c)
  BY <1>3, <1>4
<1>9. CASE jobs[i].state \in Terminals
  <2>1. output' = IF t = "done" THEN output ELSE output \ {i}
    BY <1>1, <1>3, <1>9
  <2> QED BY <1>3, <1>7, <1>8, <1>9, <2>1, Finishes DEF Promised
<1>10. CASE jobs[i].state \notin Terminals
  <2>1. output' = output \ {i}
    BY <1>1, <1>10 DEF Terminals
  <2> QED BY <1>3, <1>7, <1>8, <1>10, <2>1, Abandons DEF Promised
<1> QED BY <1>9, <1>10

\* One whose directory could not be removed keeps the engine busy.
LEMMA JamsShown ==
  ASSUME NEW i \in Ids, TypeOK, Users, Threads, RunJams(i)
  PROVE  Promised
<1>1. /\ run[i].pc = "closing" /\ jobs[i].state # "done" /\ i \in output
      /\ output' \in {output, output \ {i}}
      /\ GoTo(i, "jammed") /\ UNCHANGED <<jobs, post>>
  BY DEF RunJams, handlers
<1>2. PICK r \in Thread : run' = [run EXCEPT ![i] = r] /\ r.pc = "jammed"
  BY <1>1, GoesTo DEF Places
<1>3. run'[i] = r /\ \A k \in Ids \ {i} : run'[k] = run[k]
  BY <1>2, Types
<1>4. PICK s, t :
        /\ Shown[i] = Entry(s, jobs[i].seq, t, jobs[i].cancelled)
        /\ jobs[i].state \notin Terminals =>
             s \in {"loading", "busy", "sealing"} /\ t = "none"
        /\ jobs[i].state \in Terminals => s = "closing" /\ t = jobs[i].state
        /\ t = IF jobs[i].state \in Terminals THEN jobs[i].state ELSE "none"
  BY <1>1, ClosingShown
<1>5. PICK q, c : q = jobs[i].seq /\ c = jobs[i].cancelled
  OBVIOUS
<1>6. Shown' = [Shown EXCEPT ![i] = Seen(post'[i], jobs'[i], run'[i])]
  BY <1>1, <1>3, OneShown
<1>7. Seen(post'[i], jobs'[i], run'[i]) = Entry("jammed", q, t, c)
  <2>1. /\ post[i] # "validating" /\ jobs[i].state # "none"
        /\ ~jobs[i].finished
    BY <1>1, PlaceOf
  <2> QED BY <1>1, <1>2, <1>3, <1>4, <1>5, <2>1 DEF Seen
<1>8. Shown' = [Shown EXCEPT ![i] = Entry("jammed", q, t, c)]
  BY <1>6, <1>7
<1>9. /\ Shown[i] = Entry(s, q, t, c) /\ t # "done"
      /\ s \in {"loading", "busy", "sealing", "closing"}
  BY <1>1, <1>4, <1>5
<1> QED BY <1>1, <1>8, <1>9, Jams DEF Promised

\* A restarted engine has forgotten its attempts, and left their directories.
LEMMA CrashShown ==
  ASSUME Crash
  PROVE  Promised
<1>1. /\ jobs' = [i \in Ids |-> NoJob] /\ post' = [i \in Ids |-> "off"]
      /\ output' = output
  BY DEF Crash
<1>2. \A i \in Ids : Remote(i)' = Contract!Unknown
  <2>1. TAKE i \in Ids
  <2>2. jobs'[i] = NoJob /\ post'[i] = "off"
    BY <1>1
  <2>3. Remote(i)' = Seen(post'[i], jobs'[i], run'[i])
    BY SeenShown
  <2>4. Remote(i)' = Entry("absent", 0, "none", FALSE)
    BY <2>2, <2>3, UnseenRow
  <2> QED BY <2>4 DEF Contract!Unknown, Entry
<1>3. Shown' = [i \in Ids |-> Contract!Unknown]
  BY <1>2 DEF Shown
<1>4. CASE Ids = {}
  BY <1>1, <1>4 DEF Promised, Shown
<1>5. CASE Ids # {}
  <2>1. PICK i \in Ids : TRUE
    BY <1>5
  <2>2. Contract!Crash([k \in Ids |-> "engine"][i])
    BY <1>1, <1>3 DEF Contract!Crash, Shown, Remote
  <2> QED BY <2>2 DEF Contract!EngineNext, Promised
<1> QED BY <1>4, <1>5

\* Every step of the engine is one the contract allows, or is not seen.
LEMMA ContractStep ==
  IInv /\ [Next]_vars => Promised
<1> SUFFICES ASSUME IInv, [Next]_vars
             PROVE  Promised
  OBVIOUS
<1>1. TypeOK /\ Users /\ Threads /\ Child
  BY DEF IInv
<1>2. ASSUME NEW i \in Ids, Submit(i) \/ Register(i) \/ Leave(i) \/ Cancel(i)
      PROVE  Promised
  BY <1>1, <1>2, SubmitShown, RegisterShown, LeaveShown, CancelShown
<1>3. ASSUME NEW i \in Ids, Run(i) \/ RunJams(i)
      PROVE  Promised
  <2>1. CASE RunLoads(i) \/ RunCreates(i) \/ RunReceives(i) \/ RunSends(i)
    BY <1>1, <2>1, LoadsShown, CreatesShown, ReceivesShown, SendsShown
  <2>2. CASE \/ RunSpawns(i) \/ RunLoaded(i) \/ RunChecks(i)
             \/ RunTimesOut(i) \/ RunUnloads(i)
    BY <1>1, <2>2, QuietShown
  <2>3. CASE \/ RunSeals(i) \/ RunDone(i) \/ RunFails(i) \/ RunCloses(i)
             \/ RunJams(i)
    BY <1>1, <2>3, SealsShown, EndsShown, ClosesShown, JamsShown
  <2> QED BY <1>3, <2>1, <2>2, <2>3 DEF Run
<1>4. CASE \/ \E i \in Ids : CancelSends(i) \/ Stream(i)
           \/ \E m \in Targets : Maintain(m) \/ AdminStep(m) \/ MaintainEnd(m)
           \/ ChildReads \/ ChildGenerates \/ ChildThreadExits \/ ChildDies
  <2>1. UNCHANGED <<jobs, run, post, output>>
    BY <1>4 DEF CancelSends, Stream, Maintain, AdminStep, MaintainEnd,
                ChildReads, ChildGenerates, ChildThreadExits, ChildDies,
                handlers
  <2> QED BY <2>1, NoneShown
<1>5. CASE Crash
  BY <1>5, CrashShown
<1>6. CASE UNCHANGED vars
  <2>1. UNCHANGED <<jobs, run, post, output>>
    BY <1>6 DEF vars, handlers
  <2> QED BY <2>1, NoneShown
<1> QED BY <1>2, <1>3, <1>4, <1>5, <1>6 DEF Next

\* The engine's handlers, threads and child together keep the contract the
\* queue relies on: one run at a time, registered once, cancelled only when
\* it was meant, its directory removed before the engine is idle again; a run
\* whose child cannot be unloaded ends without a terminal event, and one whose
\* directory cannot be removed does not end (server.py, _run).
THEOREM ContractKept == Spec => KeepsContract
<1>1. Init => Contract!EngineInit
  <2> SUFFICES ASSUME Init
               PROVE  Contract!EngineInit
    OBVIOUS
  <2>1. \A i \in Ids : jobs[i] = NoJob /\ post[i] = "off"
    BY DEF Init
  <2>2. \A i \in Ids : Remote(i) = Contract!Unknown
    <3> SUFFICES ASSUME NEW i \in Ids
                 PROVE  Remote(i) = Contract!Unknown
      OBVIOUS
    <3>1. Shown[i] = Entry("absent", 0, "none", FALSE)
      BY ZenonT(60), <2>1, SeenShown, UnseenRow
    <3> QED BY <3>1 DEF Contract!Unknown, Entry, Shown
  <2>3. Shown = [i \in Ids |-> Contract!Unknown]
    BY <2>2 DEF Shown
  <2> QED BY <2>3 DEF Init, Contract!EngineInit, Shown, Remote
<1>2. IInv /\ [Next]_vars => [Contract!EngineNext]_(Contract!engineVars)
  BY ContractStep DEF Promised, Contract!engineVars, Shown, Remote
<1> QED BY <1>1, <1>2, EngineIsOrdered, PTL
        DEF Spec, KeepsContract, Contract!EngineSpec

=============================================================================
