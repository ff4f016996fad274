------------------------------- MODULE Custody -------------------------------
(***************************************************************************)
(* Custody of the process group of one post on Linux: the owner in the     *)
(* server (worker/custody.py over custody_linux.py), the supervisor        *)
(* process (audio_supervisor of custody_linux_supervisor.py), the leader   *)
(* (audio_child.py) and its FFmpeg.                                        *)
(*                                                                         *)
(* They share a control socket (down, up), the liveness pipe, the leader's *)
(* standard output and input, and the registry socket between leader and   *)
(* supervisor.  It begins when the group is born and held at its gate.     *)
(*                                                                         *)
(* Abstracted: identities of processes and descriptors, the contents and   *)
(* budgets of frames, the writer thread (it has one frame to write), the   *)
(* grace between TERM and KILL.  A deadline of the owner acts like a       *)
(* cancellation.  A time-out fires without a fault only when the answer is *)
(* not coming.                                                             *)
(***************************************************************************)
EXTENDS Naturals, Sequences

CONSTANTS
  Takes,      \* takes of the plan
  Capacity,   \* messages the owner keeps for the thread of the post
  MaxFaults   \* bound: crashes, errors and answers that come too late

ASSUME CustodyAssumption ==
  /\ Takes \in Nat
  /\ Capacity \in Nat \ {0}
  /\ MaxFaults \in Nat

VARIABLES
  owner,    \* the finalizer thread, and what it knows
  queue,    \* how many messages wait for the thread of the post
  served,   \* the thread of the post still takes them
  live,     \* the parent's end of the liveness pipe is open
  down, up, \* control socket: to the supervisor, and to the owner
  out,      \* frames on the leader's standard output
  request,  \* the request is on its standard input
  sup,      \* the supervisor
  reg,      \* registry socket: what is asked, what is answered
  lead,     \* the leader and the takes it has left
  child,    \* the FFmpeg it forked last
  parent,   \* the server is alive
  faults,
  race      \* history: the windows that were hit, see Windows

memory    == <<owner, queue, served>>
control   == <<live, down, up>>
pipes     == <<out, request>>
processes == <<sup, reg, lead, child>>
history   == <<parent, faults, race>>
vars      == <<memory, control, pipes, processes, history>>

-----------------------------------------------------------------------------
\* Ways to lose custody of a healthy group: a cancellation finds the handshake
\* half done, the queue full, a birth or a reap not yet registered; the seal or
\* the answer to the end comes late behind a full queue; FFmpeg overruns.
Windows == {"request", "full", "birth", "seal", "ack", "hung"}

OwnerRecord ==
  [pc: {"new", "read", "request", "offer", "sealing", "finish", "await", "reap",
        "drain", "done"},
   stop: BOOLEAN, bad: BOOLEAN, closed: BOOLEAN,
   final: {"none", "confirmed", "doubtful"},
   verdict: {"none", "closed", "unknown"}]
SupRecord ==
  [pc: {"loop", "kill", "reap", "ack", "exit0", "exit1", "crashed"},
   released: BOOLEAN, sealed: BOOLEAN, doubt: BOOLEAN,
   active: {"none", "registered", "exited"}]
RegRecord == [ask: {"none", "register", "exited", "reaped", "seal"},
              reply: BOOLEAN]
LeadRecord ==
  [pc: {"gate", "wait", "take", "born", "watch", "gone", "reaped", "sealing",
        "leaving", "zombie", "waited"}, left: 0..Takes]

TypeOK ==
  /\ owner \in OwnerRecord
  /\ queue \in 0..Capacity
  /\ served \in BOOLEAN
  /\ live \in BOOLEAN
  /\ down \in Seq({"resume", "seal", "stop", "ack"})
  /\ up \in Seq({"sealed", "confirmed", "doubtful"})
  /\ out \in Seq({"ready", "take", "result", "closed"})
  /\ request \in BOOLEAN
  /\ sup \in SupRecord
  /\ reg \in RegRecord
  /\ lead \in LeadRecord
  /\ child \in {"none", "gated", "running", "zombie", "reaped"}
  /\ parent \in BOOLEAN
  /\ faults \in 0..MaxFaults
  /\ race \in SUBSET Windows

Init ==
  /\ owner = [pc |-> "new", stop |-> FALSE, bad |-> FALSE, closed |-> FALSE,
              final |-> "none", verdict |-> "none"]
  /\ queue = 0 /\ served = TRUE
  /\ live = TRUE /\ down = <<>> /\ up = <<>>
  /\ out = <<>> /\ request = FALSE
  /\ sup = [pc |-> "loop", released |-> FALSE, sealed |-> FALSE,
            doubt |-> FALSE, active |-> "none"]
  /\ reg = [ask |-> "none", reply |-> FALSE]
  /\ lead = [pc |-> "gate", left |-> Takes]
  /\ child = "none"
  /\ parent = TRUE /\ faults = 0 /\ race = {}

Fault == faults < MaxFaults /\ faults' = faults + 1

SupGone == sup.pc \in {"exit0", "exit1", "crashed"}
LeadAlive == lead.pc \notin {"zombie", "waited"}
\* Nobody holds the leader's standard output any more.
Eof == ~LeadAlive /\ child # "gated"
Stopping == sup.pc \in {"kill", "reap"}

-----------------------------------------------------------------------------
(* The owner: Owner._run, and the thread of the post that it serves.       *)

At(pc) == parent /\ owner.pc = pc
GoTo(pc) == owner' = [owner EXCEPT !.pc = pc]
Fails == owner' = [owner EXCEPT !.pc = "finish", !.bad = TRUE]

Start ==
  /\ At("new")
  /\ GoTo("read")
  /\ down' = Append(down, "resume")
  /\ UNCHANGED <<queue, served, live, up, pipes, processes, history>>

\* The thread of the post fails before it starts the owner: contain_unknown.
StartFails ==
  /\ At("new")
  /\ Fault
  /\ owner' = [owner EXCEPT !.pc = "done", !.verdict = "unknown"]
  /\ live' = FALSE
  /\ UNCHANGED <<queue, served, down, up, pipes, processes, parent, race>>

\* By the user, by the deadline, or by the thread of the post, which leaves.
Cancel ==
  /\ parent /\ owner.pc # "done" /\ ~owner.stop
  /\ owner' = [owner EXCEPT !.stop = TRUE]
  /\ served' \in {served, FALSE}
  /\ UNCHANGED <<queue, control, pipes, processes, history>>

Consume ==
  /\ parent /\ served /\ queue > 0
  /\ queue' = queue - 1
  /\ UNCHANGED <<owner, served, control, pipes, processes, history>>

\* One frame; a closed one has the births sealed before it is delivered.
ReadFrame ==
  /\ At("read") /\ ~owner.stop
  /\ out # <<>>
  /\ out' = Tail(out)
  /\ \/ Head(out) = "ready" /\ GoTo("request") /\ UNCHANGED down
     \/ /\ Head(out) = "closed" /\ ~SupGone
        /\ GoTo("sealing") /\ down' = Append(down, "seal")
     \/ Head(out) = "closed" /\ SupGone /\ Fails /\ UNCHANGED down
     \/ Head(out) \in {"take", "result"} /\ GoTo("offer") /\ UNCHANGED down
  /\ UNCHANGED <<queue, served, live, up, request, processes, history>>

\* The writer was revoked between the reading of ready and this answer.
SendRequest ==
  /\ At("request")
  /\ IF owner.stop
     THEN Fails /\ race' = race \cup {"request"} /\ UNCHANGED request
     ELSE GoTo("read") /\ request' = TRUE /\ UNCHANGED race
  /\ UNCHANGED <<queue, served, control, out, processes, parent, faults>>

Offer ==
  /\ At("offer")
  /\ queue < Capacity
  /\ queue' = queue + 1
  /\ GoTo("read")
  /\ UNCHANGED <<served, control, pipes, processes, history>>

\* Mutant of OfferRevoked: the message is put without looking at the stop.
OfferWaits == FALSE

OfferRevoked ==
  /\ At("offer")
  /\ queue = Capacity /\ owner.stop
  /\ Fails
  /\ race' = race \cup {"full"}
  /\ UNCHANGED <<queue, served, control, pipes, processes, parent, faults>>

\* LinuxGroup._events: a confirmed end is acknowledged where it is read.
ReadEvent ==
  LET Told(end) == owner' = [owner EXCEPT !.final = end,
                     !.pc = IF @ = "await" THEN "reap" ELSE @]
  IN  /\ parent /\ owner.pc \in {"sealing", "finish", "await"}
      /\ up # <<>>
      /\ up' = Tail(up)
      /\ \/ /\ Head(up) = "sealed"
            /\ IF owner.pc = "sealing"
               THEN owner' = [owner EXCEPT !.pc = "offer", !.closed = TRUE]
               ELSE UNCHANGED owner
            /\ UNCHANGED down
         \/ /\ Head(up) = "confirmed" /\ ~SupGone
            /\ Told("confirmed") /\ down' = Append(down, "ack")
         \/ /\ Head(up) = "confirmed" /\ SupGone
            /\ IF owner.pc = "sealing" THEN Fails ELSE GoTo("drain")
            /\ UNCHANGED down
         \/ Head(up) = "doubtful" /\ Told("doubtful") /\ UNCHANGED down
      /\ UNCHANGED <<queue, served, live, pipes, processes, history>>

\* Five seconds for an answer that does not come: the supervisor had left its
\* loop when the seal was asked for.
SealTimesOut ==
  /\ At("sealing")
  /\ up = <<>> /\ sup.pc # "loop" /\ ~Stopping
  /\ Fails
  /\ race' = race \cup {"seal"}
  /\ UNCHANGED <<queue, served, control, pipes, processes, parent, faults>>

\* The loop ends with the stop, or with the end of both outputs.
Ends ==
  /\ At("read")
  /\ owner.stop \/ (out = <<>> /\ Eof)
  /\ IF owner.stop \/ owner.closed THEN GoTo("finish") ELSE Fails
  /\ UNCHANGED <<queue, served, control, pipes, processes, history>>

\* group.terminate: nothing has come yet.
Terminate ==
  /\ At("finish")
  /\ up = <<>> \/ owner.final # "none"
  /\ IF owner.final # "none"
     THEN owner' = [owner EXCEPT !.stop = TRUE, !.pc = "reap"] /\ UNCHANGED down
     ELSE IF SupGone
     THEN owner' = [owner EXCEPT !.stop = TRUE, !.pc = "drain"] /\ UNCHANGED down
     ELSE /\ owner' = [owner EXCEPT !.stop = TRUE, !.pc = "await"]
          /\ down' = Append(down, "stop")
  /\ UNCHANGED <<queue, served, live, up, pipes, processes, history>>

AwaitTimesOut ==
  /\ At("await")
  /\ up = <<>> /\ SupGone
  /\ GoTo("drain")
  /\ UNCHANGED <<queue, served, control, pipes, processes, history>>

\* The answer is on its way, but too late.
AnswerLate ==
  /\ parent /\ owner.pc \in {"sealing", "await"}
  /\ Fault
  /\ IF owner.pc = "sealing" THEN Fails ELSE GoTo("drain")
  /\ UNCHANGED <<queue, served, control, pipes, processes, parent, race>>

WaitSupervisor ==
  /\ At("reap")
  /\ SupGone
  /\ GoTo("drain")
  /\ UNCHANGED <<queue, served, control, pipes, processes, history>>

\* Mutant of Drain: the exit of the supervisor counts as its confirmation.
DrainExited ==
  LET confirmed == sup.pc = "exit0" /\ ~owner.bad /\ Eof IN
  /\ At("drain")
  /\ out' = <<>>
  /\ owner' = [owner EXCEPT !.pc = "done",
                 !.verdict = IF confirmed THEN "closed" ELSE "unknown"]
  /\ live' = (live /\ confirmed)
  /\ UNCHANGED <<queue, served, down, up, request, processes, history>>

\* The outputs are read to their end; then the receipt.  Without a complete
\* one the liveness pipe is closed and everything is kept.
Drain ==
  LET confirmed == /\ owner.final = "confirmed"
                   /\ sup.pc = "exit0"
                   /\ ~owner.bad /\ Eof
  IN  /\ At("drain")
      /\ out' = <<>>
      /\ owner' = [owner EXCEPT !.pc = "done",
                     !.verdict = IF confirmed THEN "closed" ELSE "unknown"]
      /\ live' = (live /\ confirmed)
      /\ UNCHANGED <<queue, served, down, up, request, processes, history>>

ParentDies ==
  /\ parent
  /\ Fault
  /\ parent' = FALSE /\ live' = FALSE
  /\ UNCHANGED <<memory, down, up, pipes, processes, race>>

-----------------------------------------------------------------------------
(* The supervisor: audio_supervisor, terminal_ack.                         *)

Leave(doubt) ==
  sup' = [sup EXCEPT !.pc = "kill", !.doubt = @ \/ doubt]

\* Of a parent that died, the end of the liveness pipe or of the control socket.
SeesEnd ==
  /\ sup.pc = "loop"
  /\ \/ (~live \/ ~LeadAlive) /\ Leave(FALSE)
     \/ ~parent /\ Leave(TRUE)
  /\ UNCHANGED <<memory, control, pipes, reg, lead, child, history>>

\* A stop, or something that has no business here.
TakeCommand ==
  /\ sup.pc = "loop"
  /\ down # <<>>
  /\ down' = Tail(down)
  /\ \/ /\ Head(down) = "resume" /\ ~sup.released
        /\ sup' = [sup EXCEPT !.released = TRUE] /\ UNCHANGED up
     \/ /\ Head(down) = "seal" /\ sup.sealed
        /\ up' = Append(up, "sealed") /\ UNCHANGED sup
     \/ /\ Head(down) = "resume" => sup.released
        /\ Head(down) = "seal" => ~sup.sealed
        /\ Leave(Head(down) # "stop") /\ UNCHANGED up
  /\ UNCHANGED <<memory, live, pipes, reg, lead, child, history>>

\* Births and reaps come in order, of one child at a time, then the seal.
Expected ==
  /\ LeadAlive
  /\ \/ reg.ask = "register" /\ ~sup.sealed /\ sup.active = "none"
     \/ reg.ask = "exited" /\ sup.active # "none" /\ child = "zombie"
     \/ reg.ask = "reaped" /\ sup.active = "exited" /\ child = "reaped"
     \/ reg.ask = "seal" /\ ~sup.sealed /\ sup.active = "none"

TakeEntry ==
  /\ sup.pc = "loop"
  /\ reg.ask # "none"
  /\ reg' = [ask |-> "none", reply |-> Expected]
  /\ IF Expected
     THEN sup' = [sup EXCEPT
            !.sealed = @ \/ reg.ask = "seal",
            !.active = CASE reg.ask = "register" -> "registered"
                         [] reg.ask = "exited" -> "exited"
                         [] OTHER -> "none"]
     ELSE Leave(TRUE)
  /\ UNCHANGED <<memory, control, pipes, lead, child, history>>

SupFails ==
  /\ sup.pc = "loop"
  /\ Fault
  /\ Leave(TRUE)
  /\ UNCHANGED <<memory, control, pipes, reg, lead, child, parent, race>>

\* The children it waits for are not the ones it knows of: one has not been
\* entered yet, or one is entered and waited for already.
Unknown == \/ sup.active = "none" /\ child \in {"gated", "running", "zombie"}
           \/ sup.active # "none" /\ reg.ask = "register"
           \/ sup.active # "none" /\ child = "reaped"

\* Mutant of KillGroup: only the leader is killed.
KillLeader ==
  /\ sup.pc = "kill"
  /\ lead' = [lead EXCEPT !.pc = "zombie"]
  /\ sup' = [sup EXCEPT !.pc = "reap", !.doubt = @ \/ Unknown]
  /\ race' = IF Unknown THEN race \cup {"birth"} ELSE race
  /\ UNCHANGED <<memory, control, pipes, reg, child, parent, faults>>

\* TERM and KILL for the group, and for the registered child by reference.
KillGroup ==
  /\ sup.pc = "kill"
  /\ lead' = [lead EXCEPT !.pc = "zombie"]
  /\ child' = IF child \in {"gated", "running"} THEN "zombie" ELSE child
  /\ sup' = [sup EXCEPT !.pc = "reap", !.doubt = @ \/ Unknown]
  /\ race' = IF Unknown THEN race \cup {"birth"} ELSE race
  /\ UNCHANGED <<memory, control, pipes, reg, parent, faults>>

\* Waited for all that it adopted, down to ECHILD.  An end in doubt needs no
\* answer; one that nobody can be told is an error.
Reap ==
  /\ sup.pc = "reap"
  /\ child \notin {"gated", "running"}
  /\ lead' = [lead EXCEPT !.pc = "waited"]
  /\ child' = IF child = "zombie" THEN "reaped" ELSE child
  /\ up' = Append(up, IF sup.doubt THEN "doubtful" ELSE "confirmed")
  /\ sup' = [sup EXCEPT !.pc = IF ~parent THEN "exit1"
                               ELSE IF sup.doubt THEN "exit0" ELSE "ack"]
  /\ UNCHANGED <<memory, live, down, pipes, reg, history>>

\* Somebody cannot be waited for in five seconds.
ReapLate ==
  /\ sup.pc = "reap"
  /\ Fault
  /\ up' = Append(up, "doubtful")
  /\ sup' = [sup EXCEPT !.pc = IF parent THEN "exit0" ELSE "exit1",
                         !.doubt = TRUE]
  /\ UNCHANGED <<memory, live, down, pipes, reg, lead, child, parent, race>>

\* Mutant of Answered: a stop that crossed the end is taken for an error.
AnsweredStrictly ==
  /\ sup.pc = "ack"
  /\ down # <<>>
  /\ down' = Tail(down)
  /\ sup' = [sup EXCEPT !.pc = IF Head(down) = "ack" THEN "exit0" ELSE "exit1"]
  /\ race' = IF Head(down) \in {"ack", "stop"} THEN race
             ELSE race \cup {"seal"}
  /\ UNCHANGED <<memory, live, up, pipes, reg, lead, child, parent, faults>>

\* terminal_ack: a stop that crossed the end is passed over.
Answered ==
  /\ sup.pc = "ack"
  /\ down # <<>>
  /\ down' = Tail(down)
  /\ sup' = [sup EXCEPT !.pc = CASE Head(down) = "ack" -> "exit0"
                                 [] Head(down) = "stop" -> "ack"
                                 [] OTHER -> "exit1"]
  /\ race' = IF Head(down) \in {"ack", "stop"} THEN race
             ELSE race \cup {"seal"}
  /\ UNCHANGED <<memory, live, up, pipes, reg, lead, child, parent, faults>>

NobodyToAnswer ==
  /\ sup.pc = "ack"
  /\ ~live
  /\ sup' = [sup EXCEPT !.pc = "exit0"]
  /\ UNCHANGED <<memory, control, pipes, reg, lead, child, history>>

\* One second is over while the owner waits for room in its queue ...
AckTimesOut ==
  /\ sup.pc = "ack"
  /\ owner.pc = "offer" /\ queue = Capacity
  /\ sup' = [sup EXCEPT !.pc = "exit1"]
  /\ race' = race \cup {"ack"}
  /\ UNCHANGED <<memory, control, pipes, reg, lead, child, parent, faults>>

\* ... or although it does not.
AckLate ==
  /\ sup.pc = "ack"
  /\ Fault
  /\ sup' = [sup EXCEPT !.pc = "exit1"]
  /\ UNCHANGED <<memory, control, pipes, reg, lead, child, parent, race>>

SupCrash ==
  /\ ~SupGone
  /\ Fault
  /\ sup' = [sup EXCEPT !.pc = "crashed"]
  /\ UNCHANGED <<memory, control, pipes, reg, lead, child, parent, race>>

-----------------------------------------------------------------------------
(* The leader and its FFmpeg.                                              *)

In(pc) == lead.pc = pc
Moves(pc) == lead' = [lead EXCEPT !.pc = pc]
Asks(entry) == reg' = [ask |-> entry, reply |-> FALSE]
TakesAnswer == reg.reply /\ reg' = [reg EXCEPT !.reply = FALSE]
Delivers(frames) == out' = out \o frames
NextTake == lead' = [lead EXCEPT !.pc = "take", !.left = @ - 1]

Boot ==
  /\ In("gate") /\ sup.released
  /\ Moves("wait")
  /\ Delivers(<<"ready">>)
  /\ UNCHANGED <<memory, control, request, sup, reg, child, history>>

TakeRequest ==
  /\ In("wait") /\ request
  /\ Moves("take")
  /\ UNCHANGED <<memory, control, pipes, sup, reg, child, history>>

\* The source is not what the plan says: a failed take without FFmpeg.
SkipTake ==
  /\ In("take") /\ lead.left > 0
  /\ NextTake
  /\ Delivers(<<"take">>)
  /\ UNCHANGED <<memory, control, request, sup, reg, child, history>>

\* A new child waits at its gate.  When an older one still runs, the new one
\* never gets further than the entry.
Fork ==
  /\ In("take") /\ lead.left > 0
  /\ Moves("born")
  /\ Asks("register")
  /\ child' = IF child = "running" THEN child ELSE "gated"
  /\ UNCHANGED <<memory, control, pipes, sup, history>>

Release ==
  /\ In("born") /\ TakesAnswer
  /\ Moves("watch")
  /\ child' = "running"
  /\ UNCHANGED <<memory, control, pipes, sup, history>>

FfmpegEnds ==
  /\ child = "running"
  /\ child' = "zombie"
  /\ UNCHANGED <<memory, control, pipes, sup, reg, lead, history>>

\* 300 s, or too much output: the take fails and its child is left alone.
Hang ==
  /\ In("watch") /\ child = "running"
  /\ NextTake
  /\ Delivers(<<"take">>)
  /\ race' = race \cup {"hung"}
  /\ UNCHANGED <<memory, control, request, sup, reg, child, parent, faults>>

ReportExit ==
  /\ In("watch") /\ child = "zombie"
  /\ Moves("gone")
  /\ Asks("exited")
  /\ UNCHANGED <<memory, control, pipes, sup, child, history>>

WaitChild ==
  /\ In("gone") /\ reg.reply
  /\ Moves("reaped")
  /\ Asks("reaped")
  /\ child' = "reaped"
  /\ UNCHANGED <<memory, control, pipes, sup, history>>

FinishTake ==
  /\ In("reaped") /\ TakesAnswer
  /\ NextTake
  /\ Delivers(<<"take">>)
  /\ UNCHANGED <<memory, control, request, sup, child, history>>

AskSeal ==
  /\ In("take") /\ lead.left = 0
  /\ Moves("sealing")
  /\ Asks("seal")
  /\ UNCHANGED <<memory, control, pipes, sup, child, history>>

Close ==
  /\ In("sealing") /\ TakesAnswer
  /\ Moves("leaving")
  /\ Delivers(<<"result", "closed">>)
  /\ UNCHANGED <<memory, control, request, sup, child, history>>

\* The end, also when nobody is at the other end of a socket or a pipe.
Exit ==
  /\ \/ In("leaving")
     \/ In("wait") /\ ~parent
     \/ SupGone /\ lead.pc \in {"born", "gone", "reaped", "sealing"}
     \/ SupGone /\ In("gate") /\ ~sup.released
  /\ Moves("zombie")
  /\ UNCHANGED <<memory, control, pipes, sup, reg, child, history>>

LeadFails ==
  /\ LeadAlive
  /\ Fault
  /\ Moves("zombie")
  /\ UNCHANGED <<memory, control, pipes, sup, reg, child, parent, race>>

\* A child at its gate goes when the leader does.
GateCloses ==
  /\ child = "gated" /\ ~LeadAlive
  /\ child' = "zombie"
  /\ UNCHANGED <<memory, control, pipes, sup, reg, lead, history>>

-----------------------------------------------------------------------------
Owner == \/ Start \/ ReadFrame \/ SendRequest \/ Offer \/ OfferRevoked
         \/ ReadEvent \/ SealTimesOut \/ Ends \/ Terminate \/ AwaitTimesOut
         \/ WaitSupervisor \/ Drain
Supervisor == \/ SeesEnd \/ TakeCommand \/ TakeEntry \/ KillGroup \/ Reap
              \/ Answered \/ NobodyToAnswer
Leader == \/ Boot \/ TakeRequest \/ SkipTake \/ Fork \/ Release \/ Hang
          \/ ReportExit \/ WaitChild \/ FinishTake \/ AskSeal \/ Close \/ Exit

Next ==
  \/ Owner \/ StartFails \/ Cancel \/ Consume \/ AnswerLate \/ ParentDies
  \/ Supervisor \/ SupFails \/ ReapLate \/ AckTimesOut \/ AckLate \/ SupCrash
  \/ Leader \/ FfmpegEnds \/ GateCloses \/ LeadFails

Spec == Init /\ [][Next]_vars

\* Threads and processes run, and their time-outs fire; nothing says that
\* FFmpeg comes to an end by itself.
Fairness == /\ WF_vars(Owner) /\ WF_vars(Consume)
            /\ WF_vars(Supervisor) /\ WF_vars(Leader) /\ WF_vars(GateCloses)

FairSpec == Spec /\ Fairness

-----------------------------------------------------------------------------
(* Safety. *)

\* The slot and the staging are given back only when leader and FFmpeg were
\* waited for and the supervisor has gone (ADR-0057: release_gate).
ReleaseIsSafe ==
  owner.verdict = "closed" =>
    /\ lead.pc = "waited"
    /\ child \in {"none", "reaped"}
    /\ sup.pc = "exit0"

\* Without a failure anywhere, a group whose custody ends unknown went through
\* one of the Windows; every other order of the messages, a stop that crosses
\* the end among them, closes it.
LossHasCause ==
  owner.verdict = "unknown" => faults > 0 \/ race # {}

(* Liveness. *)

\* Death of the server or an unknown custody leave no process behind, unless
\* the supervisor itself was killed.
NothingSurvives ==
  ~parent \/ owner.pc = "done" ~>
    \/ ~LeadAlive /\ child \notin {"gated", "running"}
    \/ sup.pc = "crashed"

\* The finalizer always comes to its receipt, also with a thread of the post
\* that takes no more messages and an FFmpeg that never ends.
OwnerEnds == owner.pc # "new" ~> owner.pc = "done" \/ ~parent
=============================================================================
