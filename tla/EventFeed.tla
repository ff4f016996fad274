------------------------------ MODULE EventFeed ------------------------------
(***************************************************************************)
(* From a committed row to the studio page: the publication coordinator,   *)
(* the event bus, the capture of a snapshot (apps/server/app) and the      *)
(* client that follows the stream (apps/web/lib).                          *)
(*                                                                         *)
(* A row is a version number: each commit that changes what a page shows   *)
(* of a job makes it one larger, and version Last[j] is its end.  An       *)
(* event carries the version it committed.  One page, with one             *)
(* subscription, follows the jobs of its song.                             *)
(*                                                                         *)
(* Abstracted: payloads, the session of the client, heartbeats; a reader   *)
(* whose connection broke leaves the bus at once, and the limit of readers *)
(* is one more reason for a refusal.  A queue of records is the set of     *)
(* their numbers: they enter it in the order of their numbers, and the     *)
(* least is its head (Subscription has the queues themselves).             *)
(***************************************************************************)
EXTENDS Naturals, Sequences, FiniteSets

CONSTANTS
  Jobs,        \* jobs with rows
  Known,       \* the jobs of the page: its scope, and its known_job_id
  Last,        \* bound: the version at which each job has ended
  Capacity,    \* records the ring of the bus keeps, 256 in the code
  PendingMax,  \* records that may wait for a reader, 64 in the code
  Tries,       \* connections the client tries without a clean end, 5
  MaxFaults    \* bound: restarts, broken connections, failed publications

ASSUME FeedAssumption ==
  /\ Known \subseteq Jobs
  /\ Last \in [Jobs -> Nat \ {0}]
  /\ Capacity \in Nat \ {0}
  /\ PendingMax \in Nat \ {0}
  /\ Tries \in Nat \ {0}
  /\ MaxFaults \in Nat

VARIABLES
  row,      \* the durable version of each job
  owed,     \* history: the last version that a coordinated writer committed
  writer,   \* the coordinated writer: what it has committed and not told
  epoch,    \* of the bus
  log,      \* the records of the epoch; the bus keeps the last Capacity
  base,     \* history: what was owed when the epoch began
  sub,      \* the subscription of the open stream
  capture,  \* the thread that reads the snapshot of a request
  wire,     \* frames sent and not read
  client,   \* connection, cursor, staged snapshot, failures in a row
  view,     \* the version the page shows of each job
  faults

rows == <<row, owed>>
bus  == <<epoch, log, base>>
page == <<client, view>>
vars == <<rows, writer, bus, sub, capture, wire, page, faults>>

-----------------------------------------------------------------------------
\* The sequence number of the bus, and the record that carries number n.
High == Len(log) + 1
Numbers == 2..High
RecordAt(n) == log[n - 1]
InScope(n) == RecordAt(n).job \in Known

\* The numbers of the records still in the ring.
Ring == {n \in Numbers : n + Capacity > High}

\* What a frame, or a snapshot, says of some jobs.
Nothing == [j \in {} |-> 0]
Says(r) == [j \in {r.job} |-> r.version]

NoCursor == [epoch |-> 0, seq |-> 0]
NoSub == [state |-> "none", replay |-> {}, pending |-> {}]
NoCapture == [pc |-> "off", live |-> FALSE, seen |-> Nothing]
NoWriter == [pc |-> "off", job |-> "none", version |-> 0]
NoClient == [state |-> "connecting", cursor |-> NoCursor, stage |-> "none",
             staged |-> Nothing, failures |-> 0]

Versions == UNION {0..Last[j] : j \in Jobs}
Record == [job: Jobs, version: Versions]
States == [Known -> Versions]
Told == UNION {[D -> Versions] : D \in SUBSET Known}
FrameType == [kind: {"begin", "chunk", "end", "event", "eof"},
              epoch: Nat, seq: Nat, told: Told]

Frame(kind, seq, told) ==
  [kind |-> kind, epoch |-> epoch, seq |-> seq, told |-> told]

TypeOK ==
  /\ row \in [Jobs -> Versions]
  /\ owed \in [Jobs -> Versions]
  /\ writer \in [pc: {"off", "event", "gap"},
                 job: Jobs \cup {"none"}, version: Versions \cup {0}]
  /\ epoch \in Nat \ {0}
  /\ log \in Seq(Record)
  /\ base \in [Jobs -> Versions]
  /\ sub \in [state: {"none", "open", "closed"},
              replay: SUBSET Numbers, pending: SUBSET Numbers]
  /\ Cardinality(sub.replay) <= Capacity
  /\ Cardinality(sub.pending) <= PendingMax
  /\ capture \in [pc: {"off", "reading"}, live: BOOLEAN, seen: Told]
  /\ wire \in Seq(FrameType)
  /\ client \in [state: {"connecting", "asking", "streaming", "halted"},
                 cursor: [epoch: 0..epoch, seq: Nat],
                 stage: {"none", "begun", "whole"},
                 staged: Told, failures: 0..Tries]
  /\ view \in States
  /\ faults \in 0..MaxFaults

Init ==
  /\ row = [j \in Jobs |-> 0]
  /\ owed = [j \in Jobs |-> 0]
  /\ writer = NoWriter
  /\ epoch = 1
  /\ log = <<>>
  /\ base = [j \in Jobs |-> 0]
  /\ sub = NoSub
  /\ capture = NoCapture
  /\ wire = <<>>
  /\ client = NoClient
  /\ view = [j \in Known |-> 0]
  /\ faults = 0

Fault == faults < MaxFaults /\ faults' = faults + 1

-----------------------------------------------------------------------------
(* Writers.  The barrier of the coordinator is held from before a commit   *)
(* until its publication, and during a capture.                            *)

BarrierFree == writer.pc = "off" /\ capture.pc = "off"

\* EventConsumer.accept: the commit of an event that will be published.
CommitEvent(j) ==
  /\ BarrierFree
  /\ row[j] < Last[j]
  /\ row' = [row EXCEPT ![j] = @ + 1]
  /\ owed' = [owed EXCEPT ![j] = row'[j]]
  /\ writer' = [pc |-> "event", job |-> j, version |-> row'[j]]
  /\ UNCHANGED <<bus, sub, capture, wire, page, faults>>

\* A cancellation, a closed retry or a transaction of the CPU worker: it has
\* no event and asks every reader to look again.
CommitInvalidate(j) ==
  /\ BarrierFree
  /\ row[j] < Last[j]
  /\ row' = [row EXCEPT ![j] = @ + 1]
  /\ owed' = [owed EXCEPT ![j] = row'[j]]
  /\ writer' = [NoWriter EXCEPT !.pc = "gap"]
  /\ UNCHANGED <<bus, sub, capture, wire, page, faults>>

\* Mutant of CommitUncertain: taken for a rollback.
CommitUncertainSilent(j) ==
  /\ BarrierFree /\ Fault
  /\ row[j] < Last[j]
  /\ \/ /\ row' = [row EXCEPT ![j] = @ + 1]
        /\ owed' = [owed EXCEPT ![j] = row'[j]]
     \/ UNCHANGED rows
  /\ UNCHANGED <<writer, bus, sub, capture, wire, page>>

\* commit raises: it may have persisted, and nobody can tell.
CommitUncertain(j) ==
  /\ BarrierFree /\ Fault
  /\ row[j] < Last[j]
  /\ \/ /\ row' = [row EXCEPT ![j] = @ + 1]
        /\ owed' = [owed EXCEPT ![j] = row'[j]]
     \/ UNCHANGED rows
  /\ writer' = [NoWriter EXCEPT !.pc = "gap"]
  /\ UNCHANGED <<bus, sub, capture, wire, page>>

\* Reservations, recovery and admission commit without the coordinator and tell
\* nobody, not even of an end: admission gives a post or an analysis up in this
\* way when what it depends on has failed.
Write(j) ==
  /\ row[j] < Last[j]
  /\ row' = [row EXCEPT ![j] = @ + 1]
  /\ UNCHANGED <<owed, writer, bus, sub, capture, wire, page, faults>>

-----------------------------------------------------------------------------
(* The bus.                                                                *)

Closed(s) == IF s.state = "open" THEN [NoSub EXCEPT !.state = "closed"] ELSE s

\* mark_gap: a new epoch; every reader is closed and must ask again.
MarkGap == /\ epoch' = epoch + 1
           /\ log' = <<>>
           /\ base' = owed
           /\ sub' = Closed(sub)

\* Mutant of Offered: a record that does not fit is dropped and the reader
\* stays.
OfferedDrops(s, r) ==
  IF s.state = "open" /\ r.job \in Known /\ Cardinality(s.pending) < PendingMax
  THEN [s EXCEPT !.pending = @ \cup {High + 1}] ELSE s

\* A reader is offered the new record r: it waits, or the reader is too slow.
Offered(s, r) ==
  IF ~(s.state = "open" /\ r.job \in Known) THEN s
  ELSE IF Cardinality(s.pending) < PendingMax
       THEN [s EXCEPT !.pending = @ \cup {High + 1}]
       ELSE Closed(s)

\* publish_confirmed, and the barrier is released.
Publish ==
  /\ writer.pc = "event"
  /\ LET r == [job |-> writer.job, version |-> writer.version]
     IN  log' = Append(log, r) /\ sub' = Offered(sub, r)
  /\ writer' = NoWriter
  /\ UNCHANGED <<rows, epoch, base, capture, wire, page, faults>>

\* The event has no public form, or the bus fails.
PublishFails ==
  /\ writer.pc = "event"
  /\ Fault
  /\ MarkGap
  /\ writer' = NoWriter
  /\ UNCHANGED <<rows, capture, wire, page>>

Invalidate ==
  /\ writer.pc = "gap"
  /\ MarkGap
  /\ writer' = NoWriter
  /\ UNCHANGED <<rows, capture, wire, page, faults>>

\* The ring no longer has the record after the cursor.
Expired(cursor) ==
  IF Ring = {} THEN cursor.seq < High
               ELSE \A n \in Ring : cursor.seq + 1 < n

\* subscribe: this cursor cannot be continued.
MustReset(cursor) ==
  \/ cursor = NoCursor
  \/ cursor.epoch # epoch
  \/ cursor.seq > High
  \/ Expired(cursor)

\* Mutant of Replay: the record of the cursor itself is sent again.
ReplayInclusive(cursor) ==
  {n \in Ring : n >= cursor.seq /\ InScope(n)}

\* What the ring has after the cursor, for the jobs of the reader.
Replay(cursor) == {n \in Ring : n > cursor.seq /\ InScope(n)}

-----------------------------------------------------------------------------
(* A request of GET /api/events.                                           *)

\* The client opens a connection with its cursor.
Ask ==
  /\ client.state = "connecting"
  /\ client' = [client EXCEPT !.state = "asking"]
  /\ UNCHANGED <<rows, writer, bus, sub, capture, wire, view, faults>>

\* Mutant of CaptureReads: the snapshot is read without the barrier.
CaptureReadsFree ==
  /\ client.state = "asking"
  /\ capture.pc = "off"
  /\ capture' = [pc |-> "reading", live |-> TRUE,
                 seen |-> [j \in Known |-> row[j]]]
  /\ UNCHANGED <<rows, writer, bus, sub, wire, page, faults>>

\* _capture_events takes the barrier, and its first SELECT fixes what it sees.
CaptureReads ==
  /\ client.state = "asking"
  /\ BarrierFree
  /\ capture' = [pc |-> "reading", live |-> TRUE,
                 seen |-> [j \in Known |-> row[j]]]
  /\ UNCHANGED <<rows, writer, bus, sub, wire, page, faults>>

\* A subscription, with what it must be told first.
Reading(numbers) == [state |-> "open", replay |-> numbers, pending |-> {}]

\* It registers the reader, with a snapshot if the cursor is of no use, and
\* releases the barrier; the response starts.
CaptureSubscribes ==
  /\ capture.pc = "reading"
  /\ capture.live
  /\ capture' = NoCapture
  /\ IF MustReset(client.cursor)
     THEN /\ sub' = Reading({})
          /\ wire' = << Frame("begin", High, Nothing),
                        Frame("chunk", High, capture.seen),
                        Frame("end", High, Nothing) >>
     ELSE /\ sub' = Reading(Replay(client.cursor))
          /\ wire' = <<>>
  /\ client' = [client EXCEPT !.state = "streaming"]
  /\ UNCHANGED <<rows, writer, bus, view, faults>>

\* The client left while the thread was reading: its reader is closed.
CaptureClosed ==
  /\ capture.pc = "reading"
  /\ ~capture.live
  /\ capture' = NoCapture
  /\ UNCHANGED <<rows, writer, bus, sub, wire, page, faults>>

\* stream: the next record of the subscription, of its replay if it has one.
Sends(n) == wire' = Append(wire, Frame("event", n, Says(RecordAt(n))))

Yield ==
  /\ sub.state = "open"
  /\ \/ \E n \in sub.replay :
          /\ \A m \in sub.replay : n <= m
          /\ Sends(n)
          /\ sub' = [sub EXCEPT !.replay = @ \ {n}]
     \/ \E n \in sub.pending :
          /\ sub.replay = {}
          /\ \A m \in sub.pending : n <= m
          /\ Sends(n)
          /\ sub' = [sub EXCEPT !.pending = @ \ {n}]
  /\ UNCHANGED <<rows, writer, bus, capture, page, faults>>

\* The subscription was closed: the response ends.
StreamEnds ==
  /\ sub.state = "closed"
  /\ wire' = Append(wire, Frame("eof", 0, Nothing))
  /\ sub' = NoSub
  /\ UNCHANGED <<rows, writer, bus, capture, page, faults>>

-----------------------------------------------------------------------------
(* The client: subscribeEvents and EventReducer.                           *)

\* Whatever was staged is discarded and what was not read is lost.
Disconnected(next, failures) ==
  /\ client' = [NoClient EXCEPT !.state = next, !.cursor = client.cursor,
                                !.failures = failures]
  /\ sub' = NoSub
  /\ wire' = <<>>
  /\ capture' = [capture EXCEPT !.live = FALSE]

\* A connection failed: the client tries again, or gives up.
ConnectionFails ==
  IF client.failures + 1 < Tries
  THEN Disconnected("connecting", client.failures + 1)
  ELSE Disconnected("halted", Tries)

\* What the reducer accepts.
Accepts(f) ==
  CASE f.kind = "chunk" -> client.stage = "begun"
    [] f.kind = "end"   -> client.stage = "whole"
    [] f.kind = "event" -> /\ client.stage = "none"
                           /\ client.cursor = NoCursor
                              \/ /\ f.epoch = client.cursor.epoch
                                 /\ f.seq > client.cursor.seq
    [] OTHER            -> client.stage = "none"

CursorOf(f) == [epoch |-> f.epoch, seq |-> f.seq]

\* The page shows what it is told.
Shown(told) == [j \in Known |-> IF j \in DOMAIN told THEN told[j] ELSE view[j]]

\* The next frame is accepted; only "end" and events move the cursor.
Receive ==
  /\ client.state = "streaming"
  /\ wire # <<>>
  /\ LET f == Head(wire) IN
     /\ Accepts(f)
     /\ f.kind # "eof"
     /\ client' = CASE f.kind = "begin" -> [client EXCEPT !.stage = "begun"]
                    [] f.kind = "chunk" -> [client EXCEPT !.stage = "whole",
                                                          !.staged = f.told]
                    [] f.kind = "end"   -> [client EXCEPT
                                              !.stage = "none",
                                              !.staged = Nothing,
                                              !.cursor = CursorOf(f)]
                    [] OTHER            -> [client EXCEPT
                                              !.cursor = CursorOf(f)]
     /\ view' = CASE f.kind = "end"   -> Shown(client.staged)
                  [] f.kind = "event" -> Shown(f.told)
                  [] OTHER            -> view
  /\ wire' = Tail(wire)
  /\ UNCHANGED <<rows, writer, bus, sub, capture, faults>>

\* The stream ended cleanly: the client connects again with its cursor.
ReceiveEnd ==
  /\ client.state = "streaming"
  /\ wire # <<>> /\ Head(wire).kind = "eof"
  /\ Disconnected("connecting", 0)
  /\ UNCHANGED <<rows, writer, bus, view, faults>>

\* The connection breaks, or its time limit passes.  A frame that the reducer
\* rejects would have the same effect; there is none (ProtocolAgrees).
Break ==
  /\ client.state \in {"asking", "streaming"}
  /\ Fault
  /\ ConnectionFails
  /\ UNCHANGED <<rows, writer, bus, view>>

\* 503: the barrier was held for too long, or another limit was met.
Refuse ==
  /\ client.state = "asking"
  /\ Fault
  /\ Disconnected("halted", client.failures)
  /\ UNCHANGED <<rows, writer, bus, view>>

\* The user opens the page again: what it showed is kept, its cursor is not.
Reload ==
  /\ client.state = "halted"
  /\ client' = NoClient
  /\ UNCHANGED <<rows, writer, bus, sub, capture, wire, view, faults>>

\* The server dies and starts again: rows stay, connections break.
Restart ==
  /\ Fault
  /\ epoch' = epoch + 1
  /\ log' = <<>>
  /\ base' = owed
  /\ writer' = NoWriter
  /\ capture' = NoCapture
  /\ sub' = NoSub
  /\ wire' = <<>>
  /\ client' = IF client.state \in {"connecting", "halted"} THEN client
               ELSE [NoClient EXCEPT
                       !.cursor = client.cursor,
                       !.failures = client.failures + 1,
                       !.state = IF client.failures + 1 < Tries
                                 THEN "connecting" ELSE "halted"]
  /\ UNCHANGED <<rows, view>>

-----------------------------------------------------------------------------
Writer(j) == CommitEvent(j) \/ CommitInvalidate(j) \/ CommitUncertain(j)
             \/ Write(j)
Coordinator == Publish \/ Invalidate
Capture == CaptureReads \/ CaptureSubscribes \/ CaptureClosed
Stream == Yield \/ StreamEnds
Client == Ask \/ Receive \/ ReceiveEnd

Next == \/ \E j \in Jobs : Writer(j)
        \/ Coordinator \/ PublishFails
        \/ Capture \/ Refuse
        \/ Stream
        \/ Client \/ Break \/ Reload
        \/ Restart

Spec == Init /\ [][Next]_vars

\* Every thread that was started goes on; nobody has to write, fail or reload.
Fairness == /\ WF_vars(Coordinator) /\ WF_vars(Capture)
            /\ WF_vars(Stream) /\ WF_vars(Client)

FairSpec == Spec /\ Fairness

-----------------------------------------------------------------------------
(* Safety. *)

\* What is told covers the epoch up to number n, and the time before it: no
\* job is shown at an older version than was owed when n was the last number.
Covers(told, n) ==
  /\ \A j \in Known : told[j] >= base[j]
  /\ \A k \in Numbers : k <= n /\ InScope(k) =>
       told[RecordAt(k).job] >= RecordAt(k).version

\* A cursor stands for everything before it: a client that continues from it
\* has in view all that was owed up to there, whatever it missed, skipped or
\* threw away on the way (ADR-0056).
CursorCovers ==
  client.cursor.epoch = epoch => Covers(view, client.cursor.seq)

\* Nothing is on its way to the page.
Quiet == /\ client.state = "streaming"
         /\ wire = <<>>
         /\ sub.state = "open" /\ sub.replay = {} /\ sub.pending = {}
         /\ writer.pc = "off"

\* No event is lost in silence: a page that has read everything shows every
\* coordinated commit (ADR-0056).
ViewIsCurrent == Quiet => \A j \in Known : view[j] >= owed[j]

\* Server and reducer agree on the protocol: no frame is ever rejected, so a
\* client gives up only because of faults.
ProtocolAgrees ==
  client.state = "streaming" /\ wire # <<>> => Accepts(Head(wire))

\* Reader and server agree, on what a cursor stands for and on each frame.
ReaderAgrees == CursorCovers /\ ProtocolAgrees

(* Action properties. *)

\* A page never goes back to an older state of a job, over snapshots, replays
\* and restarts.
NeverBack == [][\A j \in Known : view'[j] >= view[j]]_vars

(* Liveness. *)

\* The end of a job that the coordinator has committed is seen, also when its
\* publication failed or the server died, unless the client gave up.
EndIsSeen ==
  \A j \in Known :
    owed[j] = Last[j] ~> view[j] = Last[j] \/ client.state = "halted"
=============================================================================
