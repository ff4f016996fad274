---------------------------- MODULE Subscription ----------------------------
(***************************************************************************)
(* One Subscription of the event bus (apps/server/app/queue/events.py):    *)
(* native threads put records under the lock of the bus, one coroutine     *)
(* takes them, and an asyncio event between the two that may only be set   *)
(* from a callback of the event loop.                                      *)
(*                                                                         *)
(* A block under the lock is one step of its thread.  The coroutine and    *)
(* the callback share the loop's thread: the callback runs only while the  *)
(* coroutine is suspended.                                                 *)
(***************************************************************************)
EXTENDS Naturals, Sequences

CONSTANTS
  Size,       \* len(_pending) at which the reader is too slow, 64 in the code
  Replayable, \* records that may be replayed, 256 in the code
  Records     \* bound: records published in a behaviour

ASSUME SubscriptionAssumption ==
  /\ Size \in Nat \ {0}
  /\ Replayable \in Nat
  /\ Records \in Nat

VARIABLES
  replay,      \* _replay
  pending,     \* _pending
  closed,      \* _closed is not None: the bus has forgotten the reader
  event,       \* _event.is_set()
  waiting,     \* _waiting
  scheduled,   \* _scheduled, and membership in bus._notifications
  reader,      \* where the coroutine of the stream is
  leaving,     \* the stream has cancelled the task of next()
  loop,        \* the event loop runs
  published,   \* history: records offered since the epoch began
  taken        \* history: the last record the reader was given

queues == <<replay, pending, closed>>
flags == <<event, waiting, scheduled>>
readerVars == <<queues, flags, reader, leaving, loop, published, taken>>

-----------------------------------------------------------------------------
SubscriptionTypeOK ==
  /\ replay \in Seq(1..Records) /\ Len(replay) <= Replayable
  /\ pending \in Seq(1..Records) /\ Len(pending) <= Size
  /\ closed \in BOOLEAN
  /\ event \in BOOLEAN /\ waiting \in BOOLEAN /\ scheduled \in BOOLEAN
  /\ reader \in {"idle", "next", "wait", "woken", "gone"}
  /\ leaving \in BOOLEAN /\ loop \in BOOLEAN
  /\ published \in 0..Records /\ taken \in 0..Records

\* subscribe: registered, with the records of the ring after its cursor.
SubscriptionInit ==
  /\ published \in 0..Records
  /\ published <= Replayable
  /\ replay = [k \in 1..published |-> k]
  /\ pending = <<>>
  /\ closed = FALSE
  /\ event = FALSE /\ waiting = FALSE /\ scheduled = FALSE
  /\ reader = "idle"
  /\ leaving = FALSE
  /\ loop = TRUE
  /\ taken = 0

-----------------------------------------------------------------------------
(* Steps under the lock, of any thread.                                    *)

\* _wake_locked, with the loop running: a reader that waits is notified once.
Wake == /\ scheduled' = (scheduled \/ waiting)
        /\ UNCHANGED waiting

Empty == replay' = <<>> /\ pending' = <<>> /\ closed' = TRUE

\* call_soon_threadsafe raises when the loop is closed: so is the reader.
WakeFails == ~loop /\ waiting /\ ~scheduled

\* publish_confirmed, for a reader whose scope the record matches.
Offer ==
  /\ ~closed
  /\ published < Records
  /\ published' = published + 1
  /\ IF WakeFails
     THEN Empty /\ waiting' = FALSE /\ UNCHANGED scheduled
     ELSE /\ \/ /\ Len(pending) >= Size
                /\ Empty
             \/ /\ Len(pending) < Size
                /\ pending' = Append(pending, published + 1)
                /\ UNCHANGED <<replay, closed>>
          /\ Wake
  /\ UNCHANGED <<event, reader, leaving, loop, taken>>

\* Mutant of CloseLocked: the reader is not told.
CloseSilently ==
  /\ ~closed
  /\ Empty
  /\ UNCHANGED <<flags, reader, leaving, loop, published, taken>>

\* _close_locked, for a gap or a shutdown.
CloseLocked ==
  /\ ~closed
  /\ Empty
  /\ IF WakeFails THEN waiting' = FALSE /\ UNCHANGED scheduled ELSE Wake
  /\ UNCHANGED <<event, reader, leaving, loop, published, taken>>

-----------------------------------------------------------------------------
(* Steps of the loop's thread.                                             *)

Suspended == reader \in {"idle", "wait", "gone"}

\* _notify
Notify ==
  /\ loop /\ Suspended
  /\ scheduled
  /\ scheduled' = FALSE
  /\ event' = TRUE
  /\ UNCHANGED <<queues, waiting, reader, leaving, loop, published, taken>>

\* The stream asks for the next record.
CallNext ==
  /\ loop
  /\ reader = "idle"
  /\ reader' = "next"
  /\ UNCHANGED <<queues, flags, leaving, loop, published, taken>>

Return(record) ==
  /\ taken' = record
  /\ reader' = "idle"
  /\ UNCHANGED <<closed, flags, leaving, loop, published>>

TakeReplay ==
  /\ loop /\ reader = "next" /\ ~closed
  /\ replay # <<>>
  /\ replay' = Tail(replay)
  /\ Return(Head(replay))
  /\ UNCHANGED pending

\* Mutant of TakePending: the replay is not looked at.
TakePendingFirst ==
  /\ loop /\ reader = "next" /\ ~closed
  /\ pending # <<>>
  /\ pending' = Tail(pending)
  /\ Return(Head(pending))
  /\ UNCHANGED replay

TakePending ==
  /\ loop /\ reader = "next" /\ ~closed
  /\ replay = <<>> /\ pending # <<>>
  /\ pending' = Tail(pending)
  /\ Return(Head(pending))
  /\ UNCHANGED replay

\* Mutant of Await: the reader says that it waits one step too late.
AwaitUnannounced ==
  /\ loop /\ reader = "next" /\ ~closed
  /\ replay = <<>> /\ pending = <<>>
  /\ event' = FALSE
  /\ reader' = "wait"
  /\ UNCHANGED <<queues, waiting, scheduled, leaving, loop, published, taken>>

\* Nothing to take: the reader suspends until it is notified.
Await ==
  /\ loop /\ reader = "next" /\ ~closed
  /\ replay = <<>> /\ pending = <<>>
  /\ event' = FALSE
  /\ waiting' = TRUE
  /\ reader' = "wait"
  /\ UNCHANGED <<queues, scheduled, leaving, loop, published, taken>>

\* event.wait returns; other threads may take the lock before the reader does.
Resume ==
  /\ loop /\ reader = "wait" /\ ~leaving
  /\ event
  /\ reader' = "woken"
  /\ UNCHANGED <<queues, flags, leaving, loop, published, taken>>

LookAgain ==
  /\ loop /\ reader = "woken"
  /\ waiting' = FALSE
  /\ reader' = "next"
  /\ UNCHANGED <<queues, event, scheduled, leaving, loop, published, taken>>

\* StreamClosed: the stream ends.
Stop ==
  /\ loop /\ reader = "next" /\ closed
  /\ reader' = "gone"
  /\ UNCHANGED <<queues, flags, leaving, loop, published, taken>>

\* The client disconnected: the stream closes the subscription, then cancels
\* the task of next(), which finishes in a later turn of the loop.
Leave ==
  /\ loop /\ reader \in {"idle", "wait"} /\ ~leaving
  /\ Empty
  /\ IF closed THEN UNCHANGED <<waiting, scheduled>> ELSE Wake
  /\ leaving' = TRUE
  /\ reader' = IF reader = "idle" THEN "gone" ELSE "wait"
  /\ UNCHANGED <<event, loop, published, taken>>

Cancelled ==
  /\ loop /\ reader = "wait" /\ leaving
  /\ waiting' = FALSE
  /\ reader' = "gone"
  /\ UNCHANGED <<queues, event, scheduled, leaving, loop, published, taken>>

\* The loop is closed under a reader that was suspended.
LoopCloses ==
  /\ loop /\ Suspended
  /\ loop' = FALSE
  /\ UNCHANGED <<queues, flags, reader, leaving, published, taken>>

-----------------------------------------------------------------------------
Threads == Offer \/ CloseLocked
Reader == \/ CallNext \/ TakeReplay \/ TakePending \/ Await \/ Resume
          \/ LookAgain \/ Stop \/ Cancelled

SubscriptionNext == Threads \/ Notify \/ Reader \/ Leave \/ LoopCloses

SubscriptionSpec == SubscriptionInit /\ [][SubscriptionNext]_readerVars

\* The loop runs its callbacks and its tasks; a client that reads makes the
\* stream ask for the next record.
SubscriptionFairness == WF_readerVars(Notify) /\ WF_readerVars(Reader)

FairSubscription == SubscriptionSpec /\ SubscriptionFairness

-----------------------------------------------------------------------------
\* A reader never sleeps over something to read, or over its own end: when it
\* waits, the notification is on its way or has arrived.
NoLostWakeup ==
  loop /\ reader = "wait" /\ (pending # <<>> \/ closed) => scheduled \/ event

\* The subscription is a mailbox.
Box == INSTANCE Mailbox WITH box <- replay \o pending, shut <- closed,
                             put <- published, got <- taken

KeepsMailbox == Box!MailboxSpec

\* What is offered is taken, or the reader is closed and knows, and a closed
\* reader goes away; it stays so only while the loop runs.
ReaderEnds ==
  /\ (replay \o pending # <<>>) ~> (replay \o pending = <<>> \/ ~loop)
  /\ closed ~> (reader = "gone" \/ ~loop)
=============================================================================
