--------------------------- MODULE EventFeedProofs ---------------------------
(***************************************************************************)
(* What the page and the bus owe one another, for all sets of jobs, every  *)
(* ring and queue and any number of faults: a cursor stands for everything *)
(* before it, no frame is ever rejected, a page that has read all there is *)
(* shows all that is owed, and none goes back.  And of one subscription of *)
(* the bus, on its own: no wake-up is lost, and it is a mailbox.           *)
(*                                                                         *)
(* The argument is about pictures.  A row may run ahead of the bus, so     *)
(* what is told is never simply the state of a number; it is a picture of  *)
(* the jobs at number n when it is not behind any record up to n, and not  *)
(* ahead of any record after n.  Snapshots are pictures because the        *)
(* barrier keeps the bus still while they are read.  The invariant says    *)
(* that the page is a picture at its cursor, that the frames on the wire   *)
(* go on from there with nothing left out in between, and that the queue   *)
(* of an open subscription goes on from the last of them.                  *)
(***************************************************************************)
EXTENDS EventFeed, Subscription, FiniteSetTheorems, SequenceTheorems, TLAPS

-----------------------------------------------------------------------------
(* What is told of the jobs: pictures of them, and how they are compared.  *)

\* The numbers of a log, its records and those of the page.
Nums(lg) == 2..Len(lg) + 1

Rec(lg, n) == lg[n - 1]

Ours(lg, n) == Rec(lg, n).job \in Known

\* No version that is told is above its limit.
Within(told, limit) == \A j \in DOMAIN told : told[j] <= limit[j]

\* No job of the one is older than in the other.
NotOlder(told, than) ==
  \A j \in DOMAIN told : j \in DOMAIN than => than[j] <= told[j]

\* The record is not older than what is told of its job.
Precedes(told, r) == r.job \in DOMAIN told => told[r.job] <= r.version

\* What is told is how the jobs were when n was the last number of the bus:
\* not behind what was owed up to there, and not ahead of what came after.
PictureAt(told, n, lg, bs) ==
  /\ n <= Len(lg) + 1
  /\ \A j \in Known : bs[j] <= told[j]
  /\ \A k \in Nums(lg) : Ours(lg, k) =>
       IF k <= n THEN Rec(lg, k).version <= told[Rec(lg, k).job]
                 ELSE told[Rec(lg, k).job] <= Rec(lg, k).version

\* No number between two is of a job of the page.
NoneBetween(m, n, lg) == \A k \in Nums(lg) : m < k /\ k < n => ~Ours(lg, k)

-----------------------------------------------------------------------------
(* The rows, what is owed of them and what the bus has told.               *)

\* Rows only run ahead of what is owed, which is never behind the epoch.
RowsAgree ==
  \A j \in Jobs : base[j] <= owed[j] /\ owed[j] <= row[j] /\ row[j] <= Last[j]

\* A log tells what was owed, of each job in the order of its versions.
LogOf(lg, bs, ow) ==
  /\ \A n \in Nums(lg) : /\ bs[Rec(lg, n).job] <= Rec(lg, n).version
                         /\ Rec(lg, n).version <= ow[Rec(lg, n).job]
  /\ \A m, n \in Nums(lg) : m < n /\ Rec(lg, m).job = Rec(lg, n).job
       => Rec(lg, m).version <= Rec(lg, n).version

\* What is owed of a job was owed before the epoch, or a record carries it.
Accounted(j, lg, bs, ow) ==
  \/ ow[j] = bs[j]
  \/ \E n \in Nums(lg) : Rec(lg, n) = [job |-> j, version |-> ow[j]]

\* What is still to be published of a job is at least this: a version on its
\* way to the bus, or one that is still to be committed.
Limit == [j \in Jobs |-> IF writer.pc = "event" /\ writer.job = j
                         THEN writer.version ELSE row[j]]

\* The writer holds the barrier, and has what the bus has not.
WriterAgrees ==
  /\ writer.pc # "off" => capture.pc = "off"
  /\ writer.pc = "event" =>
       writer.job \in Jobs /\ writer.version = owed[writer.job]
  /\ \A j \in Jobs : writer.pc = "off" \/ (writer.pc = "event"
                                           /\ writer.job # j)
       => Accounted(j, log, base, owed)

\* What the server owes, and what it has told.
ServerInv == RowsAgree /\ LogOf(log, base, owed) /\ WriterAgrees

\* A snapshot that is being read: nothing is published meanwhile, and its
\* client waits for it.
CaptureInv ==
  capture.pc = "reading" /\ capture.live =>
    /\ client.state = "asking"
    /\ capture.seen \in States
    /\ Within(capture.seen, Limit)
    /\ NotOlder(capture.seen, view)
    /\ \A j \in Known : owed[j] <= capture.seen[j]

-----------------------------------------------------------------------------
(* The page and its stream.                                                *)

\* The page is a picture of what its cursor stands for.
ViewInv ==
  /\ Within(view, Limit)
  /\ client.cursor.epoch = epoch
       => PictureAt(view, client.cursor.seq, log, base)

\* Without a stream nothing is staged, sent or registered, and a subscription
\* that is not open holds nothing.
ClientInv ==
  /\ client.state # "streaming" =>
       client.stage = "none" /\ wire = <<>> /\ sub = NoSub
  /\ sub.state # "open" => sub.replay = {} /\ sub.pending = {}
  /\ client.state # "halted" => client.failures < Tries

\* A frame and the frame after it.
Follows(f, g, ep, lg) ==
  \/ /\ \/ f.kind = "begin" /\ g.kind = "chunk"
        \/ f.kind = "chunk" /\ g.kind = "end"
     /\ g.epoch = f.epoch /\ g.seq = f.seq
  \/ f.kind \in {"end", "event"} /\ g.kind = "eof"
  \/ /\ f.kind \in {"end", "event"} /\ g.kind = "event"
     /\ g.epoch = f.epoch /\ g.seq > f.seq
     /\ g.epoch = ep => NoneBetween(f.seq, g.seq, lg)

\* A client and the first frame that it has not read.
Starts(c, f, ep, lg) ==
  \/ c.stage = "begun" /\ f.kind = "chunk"
  \/ c.stage = "whole" /\ f.kind = "end"
  \/ c.stage = "none" /\ f.kind \in {"begin", "eof"}
  \/ /\ c.stage = "none" /\ f.kind = "event"
     /\ f.epoch = c.cursor.epoch /\ f.seq > c.cursor.seq
     /\ f.epoch = ep => NoneBetween(c.cursor.seq, f.seq, lg)

\* The frames on a wire come in order, and no snapshot lacks its end.
Linked(w, c, s, ep, lg) ==
  /\ \A k \in 1..Len(w) - 1 : Follows(w[k], w[k + 1], ep, lg)
  /\ w # <<>> => /\ Starts(c, w[1], ep, lg)
                 /\ w[Len(w)].kind \notin {"begin", "chunk"}
                 /\ w[Len(w)].kind = "eof" => s.state = "none"
  /\ w = <<>> => c.stage = "none"

\* What one frame tells.
Truthful(f, ep, lg, bs) ==
  /\ 1 <= f.epoch /\ f.epoch <= ep
  /\ f.kind = "chunk" => f.told \in States
  /\ f.epoch = ep => f.seq <= Len(lg) + 1
  /\ f.kind = "chunk" /\ f.epoch = ep => PictureAt(f.told, f.seq, lg, bs)
  /\ f.kind = "event" /\ f.epoch = ep =>
       /\ f.seq \in Nums(lg) /\ Ours(lg, f.seq)
       /\ f.told = Says(Rec(lg, f.seq))

\* The frames tell the truth, and never less than an earlier one.
TrueWire(w, ep, lg, bs) ==
  /\ \A k \in 1..Len(w) : Truthful(w[k], ep, lg, bs)
  /\ \A k, l \in 1..Len(w) : k < l => NotOlder(w[l].told, w[k].told)

\* What is on a wire is not older than what was told before it.
Newer(w, told) == \A k \in 1..Len(w) : NotOlder(w[k].told, told)

\* Nor is it ahead of what is still to be published.
Bounded(w, limit) == \A k \in 1..Len(w) : Within(w[k].told, limit)

\* The stream to the page.
WireInv ==
  /\ Linked(wire, client, sub, epoch, log)
  /\ TrueWire(wire, epoch, log, base)
  /\ Newer(wire, view)
  /\ Bounded(wire, Limit)

\* A snapshot that was read in part.
StagedInv ==
  client.stage = "whole" =>
    /\ client.staged \in States
    /\ Within(client.staged, Limit)
    /\ NotOlder(client.staged, view)
    /\ Newer(wire, client.staged)
    /\ wire[1].epoch = epoch
         => PictureAt(client.staged, wire[1].seq, log, base)

\* Where a stream stands: its last frame, or the cursor.
Sent(w, c) == IF w = <<>> THEN c.cursor ELSE CursorOf(w[Len(w)])

\* A queue has the records of the page after a number, and nothing else.
Queued(s, from, lg) ==
  /\ s.replay \subseteq Nums(lg) /\ s.pending \subseteq Nums(lg)
  /\ \A n \in Nums(lg) :
       n \in s.replay \cup s.pending <=> n > from /\ Ours(lg, n)
  /\ \A m \in s.replay, n \in s.pending : m < n

\* None of a queue is older than what was told.
Ahead(s, lg, told) ==
  \A n \in s.replay \cup s.pending : Precedes(told, Rec(lg, n))

\* An open subscription goes on where the stream stands.
QueueInv ==
  sub.state = "open" =>
    /\ Sent(wire, client).epoch = epoch
    /\ Queued(sub, Sent(wire, client).seq, log)
    /\ Ahead(sub, log, view)
    /\ client.stage = "whole" => Ahead(sub, log, client.staged)
    /\ \A k \in 1..Len(wire) : Ahead(sub, log, wire[k].told)

\* All of it.
FeedInv == /\ TypeOK /\ ServerInv /\ CaptureInv /\ ViewInv /\ ClientInv
           /\ WireInv /\ StagedInv /\ QueueInv

-----------------------------------------------------------------------------
(* Logs, pictures and what is told of the jobs.                            *)

\* Versions are numbers.
LEMMA VersionsAreNumbers == Versions \subseteq Nat
BY FeedAssumption DEF Versions

\* What is told of some jobs of the page are versions of theirs.
LEMMA ToldTypes ==
  ASSUME NEW told \in Told
  PROVE  /\ DOMAIN told \subseteq Known
         /\ DOMAIN told \subseteq Jobs
         /\ \A j \in DOMAIN told : told[j] \in Nat /\ told[j] \in Versions
<1>1. PICK D \in SUBSET Known : told \in [D -> Versions]
  BY DEF Told
<1> QED BY <1>1, VersionsAreNumbers, FeedAssumption

\* A state of the page is told of all its jobs.
LEMMA StateTypes ==
  ASSUME NEW told \in States
  PROVE  /\ told \in Told
         /\ DOMAIN told = Known
         /\ \A j \in Known : j \in Jobs /\ told[j] \in Nat
<1>1. told \in [Known -> Versions]
  BY DEF States
<1>2. [Known -> Versions] \in {[D -> Versions] : D \in SUBSET Known}
  OBVIOUS
<1>3. told \in Told
  BY <1>1, <1>2 DEF Told
<1> QED BY <1>1, <1>3, VersionsAreNumbers, FeedAssumption

\* Nothing is told of no job.
LEMMA NothingTypes == Nothing \in Told /\ DOMAIN Nothing = {}
<1>1. Nothing \in [{} -> Versions] /\ {} \in SUBSET Known
  BY DEF Nothing
<1>2. DOMAIN Nothing = {}
  BY DEF Nothing
<1> QED BY <1>1, <1>2 DEF Told

\* A record has a job and a version.
LEMMA RecordTypes ==
  ASSUME NEW r \in Record
  PROVE  r.job \in Jobs /\ r.version \in Nat /\ r.version \in Versions
BY VersionsAreNumbers DEF Record

\* A record of the page tells of one job.
LEMMA SaysTypes ==
  ASSUME NEW r \in Record, r.job \in Known
  PROVE  /\ Says(r) \in Told
         /\ DOMAIN Says(r) = {r.job}
         /\ Says(r)[r.job] = r.version
<1>1. r.version \in Versions
  BY RecordTypes
<1>2. Says(r) \in [{r.job} -> Versions] /\ {r.job} \in SUBSET Known
  BY <1>1 DEF Says
<1>3. Says(r) \in Told
  BY <1>2 DEF Told
<1> QED BY <1>3 DEF Says

\* A number of a log has a record.
LEMMA LogTypes ==
  ASSUME NEW lg \in Seq(Record), NEW n \in Nums(lg)
  PROVE  /\ n \in Nat /\ 2 <= n /\ n <= Len(lg) + 1
         /\ Rec(lg, n) \in Record
<1>1. n \in Nat /\ 2 <= n /\ n <= Len(lg) + 1 /\ Len(lg) \in Nat
  BY DEF Nums
<1>2. n - 1 \in 1..Len(lg)
  BY <1>1
<1> QED BY <1>1, <1>2 DEF Rec

\* Numbers, records and scope are those of the log of the bus.
LEMMA OfTheLog ==
  /\ Numbers = Nums(log) /\ High = Len(log) + 1
  /\ \A n : RecordAt(n) = Rec(log, n) /\ (InScope(n) <=> Ours(log, n))
BY DEF Numbers, High, Nums, RecordAt, Rec, InScope, Ours

\* A log that grows keeps its numbers and has one more.
LEMMA LogGrows ==
  ASSUME NEW lg \in Seq(Record), NEW r \in Record
  PROVE  /\ Append(lg, r) \in Seq(Record)
         /\ Len(Append(lg, r)) = Len(lg) + 1
         /\ Nums(Append(lg, r)) = Nums(lg) \cup {Len(lg) + 2}
         /\ Len(lg) + 2 \notin Nums(lg)
         /\ \A n \in Nums(lg) : Rec(Append(lg, r), n) = Rec(lg, n)
         /\ Rec(Append(lg, r), Len(lg) + 2) = r
<1>1. /\ Append(lg, r) \in Seq(Record)
      /\ Len(Append(lg, r)) = Len(lg) + 1
      /\ Append(lg, r)[Len(lg) + 1] = r
      /\ \A k \in 1..Len(lg) : Append(lg, r)[k] = lg[k]
  BY AppendProperties
<1>2. Len(lg) \in Nat
  OBVIOUS
<1>3. Nums(Append(lg, r)) = Nums(lg) \cup {Len(lg) + 2}
  BY <1>1, <1>2 DEF Nums
<1>4. Rec(Append(lg, r), Len(lg) + 2) = r
  BY <1>1, <1>2 DEF Rec
<1>5. ASSUME NEW n \in Nums(lg) PROVE Rec(Append(lg, r), n) = Rec(lg, n)
  <2>1. n - 1 \in 1..Len(lg)
    BY <1>2 DEF Nums
  <2> QED BY <2>1, <1>1 DEF Rec
<1>6. Len(lg) + 2 \notin Nums(lg)
  BY <1>2 DEF Nums
<1> QED BY <1>1, <1>3, <1>4, <1>5, <1>6

\* An empty log has no numbers.
LEMMA EmptyLog == Nums(<<>>) = {} /\ <<>> \in Seq(Record) /\ Len(<<>>) = 0
BY DEF Nums

\* A picture stays one when the bus publishes something newer.
LEMMA PictureGrows ==
  ASSUME NEW lg \in Seq(Record), NEW r \in Record, NEW bs, NEW limit,
         NEW told \in States, NEW n \in Nat,
         PictureAt(told, n, lg, bs), Within(told, limit),
         limit[r.job] <= r.version, limit[r.job] \in Nat
  PROVE  PictureAt(told, n, Append(lg, r), bs)
<1> DEFINE new == Append(lg, r)
<1>1. Len(lg) \in Nat
  OBVIOUS
<1>2. n <= Len(lg) + 1 /\ n <= Len(new) + 1
  BY <1>1, LogGrows DEF PictureAt
<1>3. \A j \in Known : bs[j] <= told[j]
  BY DEF PictureAt
<1>4. ASSUME NEW k \in Nums(new), Ours(new, k)
      PROVE  IF k <= n THEN Rec(new, k).version <= told[Rec(new, k).job]
                       ELSE told[Rec(new, k).job] <= Rec(new, k).version
  <2>1. CASE k \in Nums(lg)
    <3>1. Rec(new, k) = Rec(lg, k) /\ Ours(lg, k)
      BY <2>1, <1>4, LogGrows DEF Ours
    <3> QED BY <3>1, <2>1 DEF PictureAt
  <2>2. CASE k = Len(lg) + 2
    <3>1. Rec(new, k) = r /\ r.job \in Known
      BY <2>2, <1>4, LogGrows DEF Ours
    <3>2. told[r.job] <= limit[r.job] /\ told[r.job] \in Nat
      BY <3>1, StateTypes DEF Within
    <3>3. told[r.job] <= r.version
      BY <3>2, RecordTypes
    <3>4. ~(k <= n)
      BY <1>1, <1>2, <2>2
    <3> QED BY <3>1, <3>3, <3>4
  <2> QED BY <2>1, <2>2, LogGrows
<1> QED BY <1>2, <1>3, <1>4 DEF PictureAt

\* Old numbers have between them what they had.
LEMMA BetweenGrows ==
  ASSUME NEW lg \in Seq(Record), NEW r \in Record, NEW m \in Nat,
         NEW n \in Nat, n <= Len(lg) + 1, NoneBetween(m, n, lg)
  PROVE  NoneBetween(m, n, Append(lg, r))
<1> SUFFICES ASSUME NEW k \in Nums(Append(lg, r)), m < k, k < n
             PROVE  ~Ours(Append(lg, r), k)
  BY DEF NoneBetween
<1>1. k # Len(lg) + 2
  OBVIOUS
<1>2. k \in Nums(lg) /\ Rec(Append(lg, r), k) = Rec(lg, k)
  BY <1>1, LogGrows
<1> QED BY <1>2 DEF NoneBetween, Ours

-----------------------------------------------------------------------------
(* Types.                                                                  *)

\* A subscription to a log.
SubTypes(s, lg) ==
  /\ s \in [state: {"none", "open", "closed"},
            replay: SUBSET Nums(lg), pending: SUBSET Nums(lg)]
  /\ Cardinality(s.replay) <= Capacity
  /\ Cardinality(s.pending) <= PendingMax

\* A client of an epoch.
ClientTypes(c, ep) ==
  c \in [state: {"connecting", "asking", "streaming", "halted"},
         cursor: [epoch: 0..ep, seq: Nat],
         stage: {"none", "begun", "whole"},
         staged: Told, failures: 0..Tries]

\* A writer.
WriterTypes(w) == w \in [pc: {"off", "event", "gap"},
                         job: Jobs \cup {"none"}, version: Versions \cup {0}]

\* A capture.
CaptureTypes(c) == c \in [pc: {"off", "reading"}, live: BOOLEAN, seen: Told]

\* The rows, and what is owed of them.
RowTypes == row \in [Jobs -> Versions] /\ owed \in [Jobs -> Versions]

\* The bus.
BusTypes == /\ epoch \in Nat \ {0}
            /\ log \in Seq(Record)
            /\ base \in [Jobs -> Versions]

\* What goes to the page, and what it shows.
WireTypes == wire \in Seq(FrameType) /\ view \in States

\* All of them.
TypeParts == /\ RowTypes /\ WriterTypes(writer) /\ BusTypes
             /\ SubTypes(sub, log) /\ CaptureTypes(capture)
             /\ WireTypes /\ ClientTypes(client, epoch)
             /\ faults \in 0..MaxFaults

\* The type invariant is the types of its parts.
LEMMA Types ==
  TypeOK <=> /\ RowTypes /\ WriterTypes(writer) /\ BusTypes
             /\ SubTypes(sub, log) /\ CaptureTypes(capture)
             /\ WireTypes /\ ClientTypes(client, epoch)
             /\ faults \in 0..MaxFaults
BY OfTheLog DEF TypeOK, RowTypes, WriterTypes, BusTypes, SubTypes,
                CaptureTypes, WireTypes, ClientTypes

\* So it is enough to give them, in this state or in the next one.
LEMMA Parts == TypeParts => TypeOK
BY Types DEF TypeParts

\* What steps reset a variable to.
LEMMA FreshTypes ==
  /\ WriterTypes(NoWriter) /\ WriterTypes([NoWriter EXCEPT !.pc = "gap"])
  /\ CaptureTypes(NoCapture)
  /\ \A lg : SubTypes(NoSub, lg) /\ SubTypes(Reading({}), lg)
<1>1. WriterTypes(NoWriter) /\ WriterTypes([NoWriter EXCEPT !.pc = "gap"])
  BY DEF WriterTypes, NoWriter
<1>2. CaptureTypes(NoCapture)
  BY NothingTypes DEF CaptureTypes, NoCapture
<1>3. Cardinality({}) = 0
  BY FS_EmptySet
<1>4. ASSUME NEW lg PROVE SubTypes(NoSub, lg) /\ SubTypes(Reading({}), lg)
  BY <1>3, FeedAssumption DEF SubTypes, NoSub, Reading
<1> QED BY <1>1, <1>2, <1>4

\* A queue of the bus is finite.
LEMMA NumbersAreFinite ==
  ASSUME NEW lg \in Seq(Record), NEW q \in SUBSET Nums(lg)
  PROVE  IsFiniteSet(q) /\ Cardinality(q) \in Nat
<1>1. Len(lg) + 1 \in Int /\ 2 \in Int
  OBVIOUS
<1>2. IsFiniteSet(2..Len(lg) + 1)
  BY <1>1, FS_Interval
<1>3. IsFiniteSet(q)
  BY <1>2, FS_Subset DEF Nums
<1> QED BY <1>3, FS_CardinalityType

\* The ring has room for its capacity.
LEMMA RingFits ==
  ASSUME log \in Seq(Record), NEW q \in SUBSET Ring
  PROVE  q \in SUBSET Nums(log) /\ Cardinality(q) <= Capacity
<1>1. Len(log) \in Nat /\ Capacity \in Nat \ {0}
  BY FeedAssumption
<1> DEFINE a == Len(log) + 1 - Capacity + 1
           b == Len(log) + 1
<1>2. a \in Int /\ b \in Int /\ ~(a > b) /\ b - a + 1 = Capacity
  BY <1>1
<1>3. IsFiniteSet(a..b) /\ Cardinality(a..b) = Capacity
  BY <1>2, FS_Interval
<1>4. ASSUME NEW n \in Ring PROVE n \in a..b /\ n \in Nums(log)
  BY <1>1 DEF Ring, Numbers, High, Nums
<1>5. q \in SUBSET (a..b) /\ q \in SUBSET Nums(log)
  BY <1>4
<1>6. Cardinality(q) <= Cardinality(a..b)
  BY <1>3, <1>5, FS_Subset
<1> QED BY <1>3, <1>5, <1>6

\* A reader that asks is given what the ring has.
LEMMA ReplayTypes ==
  ASSUME log \in Seq(Record), NEW cursor
  PROVE  SubTypes(Reading(Replay(cursor)), log)
<1>1. Replay(cursor) \in SUBSET Ring
  BY DEF Replay
<1>2. /\ Replay(cursor) \in SUBSET Nums(log)
      /\ Cardinality(Replay(cursor)) <= Capacity
  BY <1>1, RingFits
<1>3. Cardinality({}) <= PendingMax
  BY FS_EmptySet, FeedAssumption
<1> QED BY <1>2, <1>3 DEF SubTypes, Reading

\* A subscription that is closed holds nothing, of any log.
LEMMA ClosedTypes ==
  ASSUME NEW s, NEW lg, NEW lg2, SubTypes(s, lg),
         s.state # "open" => s.replay = {} /\ s.pending = {}
  PROVE  /\ SubTypes(Closed(s), lg2)
         /\ Closed(s).state # "open"
         /\ Closed(s).replay = {} /\ Closed(s).pending = {}
         /\ s.state = "none" => Closed(s) = s
<1>1. Cardinality({}) = 0
  BY FS_EmptySet
<1>2. CASE s.state = "open"
  <2>1. Closed(s) = [state |-> "closed", replay |-> {}, pending |-> {}]
    BY <1>2 DEF Closed, NoSub
  <2> QED BY <1>1, <1>2, <2>1, FeedAssumption DEF SubTypes
<1>3. CASE s.state # "open"
  <2>1. Closed(s) = s
    BY <1>3 DEF Closed
  <2> QED BY <1>3, <2>1 DEF SubTypes
<1> QED BY <1>2, <1>3

\* The queues of a log are queues of a longer one.
LEMMA SubGrows ==
  ASSUME NEW lg \in Seq(Record), NEW r \in Record, NEW s, SubTypes(s, lg)
  PROVE  SubTypes(s, Append(lg, r))
<1>1. Nums(lg) \subseteq Nums(Append(lg, r))
  BY LogGrows
<1> QED BY <1>1 DEF SubTypes

\* What a subscription is after a record was offered to it.
LEMMA OfferedCases ==
  ASSUME NEW s, NEW r
  PROVE  \/ Offered(s, r) = s /\ ~(s.state = "open" /\ r.job \in Known)
         \/ /\ s.state = "open" /\ r.job \in Known
            /\ Cardinality(s.pending) < PendingMax
            /\ Offered(s, r) = [s EXCEPT !.pending = @ \cup {High + 1}]
         \/ s.state = "open" /\ Offered(s, r) = Closed(s)
BY DEF Offered

\* A record that is offered leaves a subscription to the longer log.
LEMMA OfferedTypes ==
  ASSUME log \in Seq(Record), NEW r \in Record, NEW s, SubTypes(s, log),
         s.state # "open" => s.replay = {} /\ s.pending = {}
  PROVE  /\ SubTypes(Offered(s, r), Append(log, r))
         /\ Offered(s, r).state # "open" =>
              Offered(s, r).replay = {} /\ Offered(s, r).pending = {}
         /\ s.state = "none" => Offered(s, r) = s
<1>1. CASE Offered(s, r) = s
  BY <1>1, SubGrows
<1>2. CASE /\ s.state = "open"
           /\ Cardinality(s.pending) < PendingMax
           /\ Offered(s, r) = [s EXCEPT !.pending = @ \cup {High + 1}]
  <2>1. IsFiniteSet(s.pending) /\ Cardinality(s.pending) \in Nat
    BY NumbersAreFinite DEF SubTypes
  <2>2. Cardinality(s.pending \cup {High + 1}) <= PendingMax
    <3>1. Cardinality(s.pending \cup {High + 1})
            = IF High + 1 \in s.pending THEN Cardinality(s.pending)
                                        ELSE Cardinality(s.pending) + 1
      BY <2>1, FS_AddElement
    <3> QED BY <1>2, <2>1, <3>1, FeedAssumption
  <2>3. SubTypes(s, Append(log, r))
    BY SubGrows
  <2>4. High + 1 \in Nums(Append(log, r))
    BY LogGrows DEF High
  <2>5. /\ Offered(s, r).state = "open"
        /\ Offered(s, r).pending = s.pending \cup {High + 1}
    BY <1>2 DEF SubTypes
  <2>6. SubTypes(Offered(s, r), Append(log, r))
    BY <1>2, <2>2, <2>3, <2>4 DEF SubTypes
  <2> QED BY <1>2, <2>5, <2>6
<1>3. CASE s.state = "open" /\ Offered(s, r) = Closed(s)
  BY <1>3, ClosedTypes
<1> QED BY <1>1, <1>2, <1>3, OfferedCases

\* A frame has the epoch of the bus.
LEMMA FrameTypes ==
  ASSUME epoch \in Nat, NEW kind, NEW n \in Nat, NEW told \in Told,
         kind \in {"begin", "chunk", "end", "event", "eof"}
  PROVE  /\ Frame(kind, n, told) \in FrameType
         /\ Frame(kind, n, told).kind = kind
         /\ Frame(kind, n, told).epoch = epoch
         /\ Frame(kind, n, told).seq = n
         /\ Frame(kind, n, told).told = told
BY DEF Frame, FrameType

\* A queue without one of its records.
LEMMA TakenTypes ==
  ASSUME NEW lg \in Seq(Record), NEW s, SubTypes(s, lg), NEW n
  PROVE  /\ SubTypes([s EXCEPT !.replay = @ \ {n}], lg)
         /\ SubTypes([s EXCEPT !.pending = @ \ {n}], lg)
<1>1. /\ IsFiniteSet(s.replay) /\ Cardinality(s.replay) \in Nat
      /\ IsFiniteSet(s.pending) /\ Cardinality(s.pending) \in Nat
  BY NumbersAreFinite DEF SubTypes
<1>2. /\ Cardinality(s.replay \ {n}) <= Cardinality(s.replay)
      /\ Cardinality(s.replay \ {n}) \in Nat
  <2>1. s.replay \ {n} \in SUBSET s.replay
    OBVIOUS
  <2>2. /\ IsFiniteSet(s.replay \ {n})
        /\ Cardinality(s.replay \ {n}) <= Cardinality(s.replay)
    BY <1>1, <2>1, FS_Subset
  <2> QED BY <2>2, FS_CardinalityType
<1>3. /\ Cardinality(s.pending \ {n}) <= Cardinality(s.pending)
      /\ Cardinality(s.pending \ {n}) \in Nat
  <2>1. s.pending \ {n} \in SUBSET s.pending
    OBVIOUS
  <2>2. /\ IsFiniteSet(s.pending \ {n})
        /\ Cardinality(s.pending \ {n}) <= Cardinality(s.pending)
    BY <1>1, <2>1, FS_Subset
  <2> QED BY <2>2, FS_CardinalityType
<1>4. Capacity \in Nat /\ PendingMax \in Nat
  BY FeedAssumption
<1>5. SubTypes([s EXCEPT !.replay = @ \ {n}], lg)
  BY <1>1, <1>2, <1>3, <1>4 DEF SubTypes
<1>6. SubTypes([s EXCEPT !.pending = @ \ {n}], lg)
  BY <1>1, <1>2, <1>3, <1>4 DEF SubTypes
<1> QED BY <1>5, <1>6

-----------------------------------------------------------------------------
(* Comparisons.                                                            *)

\* What is within a limit is within a larger one.
LEMMA WithinGrows ==
  ASSUME NEW told \in Told, NEW limit \in [Jobs -> Nat],
         NEW wider \in [Jobs -> Nat], \A j \in Jobs : limit[j] <= wider[j],
         Within(told, limit)
  PROVE  Within(told, wider)
BY ToldTypes DEF Within

\* Frames within a limit are within a larger one.
LEMMA BoundedGrows ==
  ASSUME NEW w \in Seq(FrameType), NEW limit \in [Jobs -> Nat],
         NEW wider \in [Jobs -> Nat], \A j \in Jobs : limit[j] <= wider[j],
         Bounded(w, limit)
  PROVE  Bounded(w, wider)
<1>1. ASSUME NEW k \in 1..Len(w) PROVE Within(w[k].told, wider)
  <2>1. w[k] \in FrameType
    OBVIOUS
  <2>2. w[k].told \in Told
    BY <2>1 DEF FrameType
  <2> QED BY <2>2, WithinGrows DEF Bounded
<1> QED BY <1>1 DEF Bounded

\* The rows and what is owed of them are numbers.
LEMMA RowsAreNumbers ==
  ASSUME RowTypes, BusTypes
  PROVE  \A j \in Jobs : /\ row[j] \in Nat /\ owed[j] \in Nat
                         /\ base[j] \in Nat /\ Last[j] \in Nat
BY VersionsAreNumbers, FeedAssumption DEF RowTypes, BusTypes

\* The limit of a job is between what is owed of it and its row.
LEMMA LimitTypes ==
  ASSUME RowTypes, WriterTypes(writer), BusTypes, RowsAgree, WriterAgrees
  PROVE  /\ Limit \in [Jobs -> Nat]
         /\ \A j \in Jobs : owed[j] <= Limit[j] /\ Limit[j] <= row[j]
         /\ \A j \in Jobs : writer.pc # "event" => Limit[j] = row[j]
         /\ writer.pc = "event" => /\ writer.job \in Jobs
                                   /\ Limit[writer.job] = writer.version
<1>1. ASSUME NEW j \in Jobs
      PROVE  /\ Limit[j] \in Nat /\ owed[j] <= Limit[j] /\ Limit[j] <= row[j]
             /\ writer.pc # "event" => Limit[j] = row[j]
  <2>1. /\ row[j] \in Nat /\ owed[j] \in Nat
        /\ owed[j] <= row[j]
    BY RowsAreNumbers DEF RowsAgree
  <2>2. Limit[j] = IF writer.pc = "event" /\ writer.job = j
                   THEN writer.version ELSE row[j]
    BY DEF Limit
  <2>3. writer.pc = "event" /\ writer.job = j => writer.version = owed[j]
    BY DEF WriterAgrees
  <2> QED BY <2>1, <2>2, <2>3
<1>2. Limit \in [Jobs -> Nat]
  BY <1>1 DEF Limit
<1>3. writer.pc = "event" => /\ writer.job \in Jobs
                             /\ Limit[writer.job] = writer.version
  BY DEF WriterAgrees, Limit
<1> QED BY <1>1, <1>2, <1>3

\* The same, of states that keep the invariant.
LEMMA Limits ==
  ASSUME TypeOK, ServerInv
  PROVE  /\ Limit \in [Jobs -> Nat]
         /\ \A j \in Jobs : owed[j] <= Limit[j] /\ Limit[j] <= row[j]
         /\ \A j \in Jobs : writer.pc # "event" => Limit[j] = row[j]
         /\ writer.pc = "event" => /\ writer.job \in Jobs
                                   /\ Limit[writer.job] = writer.version
BY LimitTypes, Types DEF ServerInv

\* What is known of the limits in every state.
LimitsHold == /\ Limit \in [Jobs -> Nat]
              /\ \A j \in Jobs : owed[j] <= Limit[j] /\ Limit[j] <= row[j]

\* It is a property of a state, and so of the state after a step too.
LEMMA NextLimits == TypeOK /\ ServerInv => LimitsHold
BY Limits DEF LimitsHold

-----------------------------------------------------------------------------
(* Commits.                                                                *)

\* The page and its stream see nothing of a step that only moves the limits.
LEMMA PageUnseen ==
  ASSUME FeedInv, UNCHANGED <<epoch, log, base, sub, wire, client, view>>,
         Limit' \in [Jobs -> Nat], \A j \in Jobs : Limit[j] <= Limit'[j]
  PROVE  ViewInv' /\ ClientInv' /\ WireInv' /\ StagedInv' /\ QueueInv'
<1>1. /\ TypeOK /\ ServerInv /\ ViewInv /\ ClientInv /\ WireInv /\ StagedInv
      /\ QueueInv
  BY DEF FeedInv
<1>2. Limit \in [Jobs -> Nat]
  BY <1>1, Limits
<1>3. /\ view \in Told /\ wire \in Seq(FrameType)
      /\ client.staged \in Told
  BY <1>1, Types, StateTypes DEF WireTypes, ClientTypes
<1>4. Within(view, Limit')
  BY <1>1, <1>2, <1>3, WithinGrows DEF ViewInv
<1>5. Bounded(wire, Limit')
  BY <1>1, <1>2, <1>3, BoundedGrows DEF WireInv
<1>6. client.stage = "whole" => Within(client.staged, Limit')
  BY <1>1, <1>2, <1>3, WithinGrows DEF StagedInv
<1>7. ViewInv'
  BY <1>1, <1>4 DEF ViewInv
<1>8. ClientInv'
  BY <1>1 DEF ClientInv
<1>9. WireInv'
  BY <1>1, <1>5 DEF WireInv
<1>10. StagedInv'
  BY <1>1, <1>6 DEF StagedInv
<1>11. QueueInv'
  BY <1>1 DEF QueueInv
<1> QED BY <1>7, <1>8, <1>9, <1>10, <1>11
\* A log told what was owed if more is owed.
LEMMA OwedGrows ==
  ASSUME NEW lg \in Seq(Record), NEW bs,
         NEW ow \in [Jobs -> Nat], NEW more \in [Jobs -> Nat],
         \A j \in Jobs : ow[j] <= more[j], LogOf(lg, bs, ow)
  PROVE  LogOf(lg, bs, more)
<1>1. ASSUME NEW n \in Nums(lg)
      PROVE  Rec(lg, n).version <= more[Rec(lg, n).job]
  <2>1. Rec(lg, n) \in Record
    BY LogTypes
  <2>2. Rec(lg, n).job \in Jobs /\ Rec(lg, n).version \in Nat
    BY <2>1, RecordTypes
  <2>3. Rec(lg, n).version <= ow[Rec(lg, n).job]
    BY DEF LogOf
  <2> QED BY <2>2, <2>3
<1> QED BY <1>1 DEF LogOf

\* A version that was not the last has a next one.
LEMMA NextVersion ==
  ASSUME RowTypes, BusTypes, NEW j \in Jobs, row[j] < Last[j]
  PROVE  row[j] + 1 \in Versions /\ row[j] + 1 <= Last[j]
<1>1. row[j] \in Nat /\ Last[j] \in Nat
  BY RowsAreNumbers
<1>2. row[j] + 1 \in 0..Last[j]
  BY <1>1
<1> QED BY <1>1, <1>2 DEF Versions

\* A commit moves the row of one job, and what is owed of it too when it is
\* coordinated.
LEMMA CommitRows ==
  ASSUME TypeOK, ServerInv, NEW j \in Jobs, row[j] < Last[j],
         row' = [row EXCEPT ![j] = @ + 1],
         owed' = owed \/ owed' = [owed EXCEPT ![j] = row'[j]],
         UNCHANGED bus
  PROVE  /\ RowTypes' /\ BusTypes'
         /\ RowsAgree'
         /\ LogOf(log, base, owed')
         /\ row'[j] = row[j] + 1 /\ row'[j] \in Versions
         /\ \A k \in Jobs : row[k] <= row'[k]
<1>1. RowTypes /\ BusTypes /\ RowsAgree /\ LogOf(log, base, owed)
  BY Types DEF ServerInv
<1>2. /\ row'[j] = row[j] + 1 /\ row'[j] \in Versions /\ row'[j] <= Last[j]
      /\ \A k \in Jobs : k # j => row'[k] = row[k]
      /\ row' \in [Jobs -> Versions]
  BY <1>1, NextVersion DEF RowTypes
<1>3. /\ owed' \in [Jobs -> Versions]
      /\ \A k \in Jobs : k # j => owed'[k] = owed[k]
      /\ owed'[j] = owed[j] \/ owed'[j] = row'[j]
  BY <1>1, <1>2 DEF RowTypes
<1>4. RowTypes' /\ BusTypes'
  BY <1>1, <1>2, <1>3 DEF RowTypes, BusTypes, bus
<1>5. \A k \in Jobs : /\ row[k] \in Nat /\ owed[k] \in Nat /\ base[k] \in Nat
                      /\ base[k] <= owed[k] /\ owed[k] <= row[k]
                      /\ row[k] <= Last[k] /\ Last[k] \in Nat
  BY <1>1, RowsAreNumbers DEF RowsAgree
<1>6. ASSUME NEW k \in Jobs
      PROVE  /\ base[k] <= owed'[k] /\ owed'[k] <= row'[k]
             /\ row'[k] <= Last[k] /\ row[k] <= row'[k]
             /\ owed[k] <= owed'[k]
  <2>1. CASE k = j
    BY <2>1, <1>2, <1>3, <1>5
  <2>2. CASE k # j
    BY <2>2, <1>2, <1>3, <1>5
  <2> QED BY <2>1, <2>2
<1>7. RowsAgree'
  BY <1>6 DEF RowsAgree, bus
<1>8. owed \in [Jobs -> Nat] /\ owed' \in [Jobs -> Nat] /\ log \in Seq(Record)
  BY <1>1, <1>3, VersionsAreNumbers DEF RowTypes, BusTypes
<1>9. LogOf(log, base, owed')
  BY <1>1, <1>6, <1>8, OwedGrows
<1> QED BY <1>2, <1>4, <1>6, <1>7, <1>9

\* A commit: no job has a lower limit after it, so the page sees nothing of it,
\* and the barrier keeps a coordinated one out of a capture.
LEMMA CommitStep ==
  ASSUME FeedInv, NEW j \in Jobs,
         \/ CommitEvent(j) \/ CommitInvalidate(j) \/ CommitUncertain(j)
         \/ Write(j)
  PROVE  FeedInv'
<1>1. /\ TypeOK /\ ServerInv /\ CaptureInv
      /\ RowTypes /\ WriterTypes(writer) /\ BusTypes
      /\ SubTypes(sub, log) /\ CaptureTypes(capture)
      /\ WireTypes /\ ClientTypes(client, epoch) /\ faults \in 0..MaxFaults
      /\ RowsAgree /\ LogOf(log, base, owed) /\ WriterAgrees
  BY Types DEF FeedInv, ServerInv
<1>2. /\ UNCHANGED <<epoch, log, base, sub, capture, wire, client, view>>
      /\ faults' = faults \/ Fault
  BY DEF CommitEvent, CommitInvalidate, CommitUncertain, Write, bus, page
<1>3. faults' \in 0..MaxFaults
  BY <1>1, <1>2, FeedAssumption DEF Fault
<1>4. UNCHANGED rows \/ /\ row[j] < Last[j]
                        /\ row' = [row EXCEPT ![j] = @ + 1]
                        /\ owed' = owed \/ owed' = [owed EXCEPT ![j] = row'[j]]
  BY DEF CommitEvent, CommitInvalidate, CommitUncertain, Write
<1>5. /\ RowTypes' /\ BusTypes' /\ RowsAgree' /\ LogOf(log, base, owed')
      /\ \A k \in Jobs : row[k] \in Nat /\ row'[k] \in Nat /\ row[k] <= row'[k]
      /\ ~UNCHANGED rows => row'[j] = row[j] + 1 /\ row'[j] \in Versions
  <2>1. CASE UNCHANGED rows
    <3>1. RowTypes' /\ BusTypes' /\ RowsAgree' /\ LogOf(log, base, owed')
      BY <1>1, <1>2, <2>1 DEF RowTypes, BusTypes, RowsAgree, rows
    <3> QED BY <1>1, <2>1, <3>1, RowsAreNumbers DEF rows
  <2>2. CASE ~UNCHANGED rows
    <3>1. UNCHANGED bus
      BY <1>2 DEF bus
    <3>2. /\ RowTypes' /\ BusTypes' /\ RowsAgree' /\ LogOf(log, base, owed')
          /\ \A k \in Jobs : row[k] <= row'[k]
          /\ row'[j] = row[j] + 1 /\ row'[j] \in Versions
      BY <1>1, <1>4, <2>2, <3>1, CommitRows
    <3>3. \A k \in Jobs : row[k] \in Nat /\ row'[k] \in Nat
      BY <1>1, <3>2, VersionsAreNumbers DEF RowTypes
    <3> QED BY <3>2, <3>3
  <2> QED BY <2>1, <2>2
<1>6. WriterTypes(writer') /\ WriterAgrees'
  <2>1. CASE Write(j)
    <3>1. UNCHANGED <<writer, owed>>
      BY <2>1 DEF Write
    <3> QED BY <1>1, <1>2, <3>1 DEF WriterAgrees
  <2>2. CASE CommitEvent(j)
    <3>1. /\ writer.pc = "off" /\ capture.pc = "off"
          /\ writer' = [pc |-> "event", job |-> j, version |-> row'[j]]
          /\ owed' = [owed EXCEPT ![j] = row'[j]]
          /\ row' = [row EXCEPT ![j] = @ + 1]
      BY <2>2 DEF CommitEvent, BarrierFree
    <3>2. owed'[j] = row'[j] /\ \A k \in Jobs : k # j => owed'[k] = owed[k]
      BY <1>1, <3>1 DEF RowTypes
    <3>3. row' # row
      BY <3>1, <1>1, RowsAreNumbers DEF RowTypes
    <3>4. row'[j] \in Versions
      BY <1>5, <3>3 DEF rows
    <3>5. WriterTypes(writer')
      BY <3>1, <3>4 DEF WriterTypes
    <3>6. \A k \in Jobs : k # j => Accounted(k, log, base, owed')
      BY <1>1, <3>1, <3>2 DEF WriterAgrees, Accounted
    <3>7. writer'.pc = "event" /\ writer'.job = j /\ writer'.version = owed'[j]
      BY <3>1, <3>2
    <3> QED BY <1>2, <3>1, <3>5, <3>6, <3>7 DEF WriterAgrees
  <2>3. CASE CommitInvalidate(j) \/ CommitUncertain(j)
    <3>1. /\ capture.pc = "off"
          /\ writer' = [NoWriter EXCEPT !.pc = "gap"]
      BY <2>3 DEF CommitInvalidate, CommitUncertain, BarrierFree
    <3>2. WriterTypes(writer') /\ writer'.pc = "gap"
      BY <3>1, FreshTypes DEF NoWriter
    <3> QED BY <1>2, <3>1, <3>2 DEF WriterAgrees
  <2> QED BY <2>1, <2>2, <2>3
<1>7. TypeOK'
  <2>1. TypeParts'
    BY <1>1, <1>2, <1>3, <1>5, <1>6 DEF TypeParts, WireTypes
  <2> QED BY <2>1, Parts, PTL
<1>8. ServerInv'
  BY <1>2, <1>5, <1>6 DEF ServerInv
<1>9. Limit' \in [Jobs -> Nat] /\ \A k \in Jobs : Limit[k] <= Limit'[k]
  <2>1. /\ Limit' \in [Jobs -> Nat]
        /\ \A k \in Jobs : owed'[k] <= Limit'[k] /\ Limit'[k] <= row'[k]
    <3>1. LimitsHold'
      BY <1>7, <1>8, NextLimits, PTL
    <3> QED BY <3>1 DEF LimitsHold
  <2>2. ASSUME NEW k \in Jobs PROVE Limit[k] <= Limit'[k]
    <3>1. Limit[k] \in Nat /\ Limit[k] <= row[k]
      BY <1>1, Limits
    <3>2. Limit'[k] = IF writer'.pc = "event" /\ writer'.job = k
                      THEN writer'.version ELSE row'[k]
      BY DEF Limit
    <3>3. CASE writer'.pc = "event" /\ writer'.job = k
      <4>1. CASE writer' = writer
        BY <3>2, <3>3, <4>1, <3>1 DEF Limit
      <4>2. CASE writer' # writer
        <5>1. writer' = [pc |-> "event", job |-> j, version |-> row'[j]]
          BY <3>3, <4>2 DEF CommitEvent, CommitInvalidate, CommitUncertain,
                            Write, NoWriter
        <5>2. k = j /\ Limit'[k] = row'[k]
          BY <5>1, <3>2, <3>3
        <5> QED BY <3>1, <5>2, <1>5
      <4> QED BY <4>1, <4>2
    <3>4. CASE ~(writer'.pc = "event" /\ writer'.job = k)
      BY <3>1, <3>2, <3>4, <1>5
    <3> QED BY <3>3, <3>4
  <2> QED BY <2>1, <2>2
<1>10. CaptureInv'
  <2>1. CASE Write(j)
    <3>1. owed' = owed
      BY <2>1 DEF Write
    <3>2. capture.seen \in Told
      BY <1>1 DEF CaptureTypes
    <3>3. capture.pc = "reading" /\ capture.live
            => Within(capture.seen, Limit')
      BY <1>1, <1>9, <3>2, Limits, WithinGrows DEF CaptureInv
    <3> QED BY <1>1, <1>2, <3>1, <3>3 DEF CaptureInv
  <2>2. CASE ~Write(j)
    <3>1. capture.pc = "off"
      BY <2>2 DEF CommitEvent, CommitInvalidate, CommitUncertain, BarrierFree
    <3> QED BY <1>2, <3>1 DEF CaptureInv
  <2> QED BY <2>1, <2>2
<1>11. ViewInv' /\ ClientInv' /\ WireInv' /\ StagedInv' /\ QueueInv'
  BY <1>2, <1>9, PageUnseen
<1> QED BY <1>7, <1>8, <1>10, <1>11 DEF FeedInv

-----------------------------------------------------------------------------
(* Publications.                                                           *)

\* A record of what is owed goes with the others.
LEMMA LogAppends ==
  ASSUME NEW lg \in Seq(Record), NEW r \in Record, NEW bs,
         NEW ow \in [Jobs -> Nat], LogOf(lg, bs, ow),
         bs[r.job] <= r.version, r.version = ow[r.job]
  PROVE  LogOf(Append(lg, r), bs, ow)
<1> DEFINE new == Append(lg, r)
<1>1. /\ Nums(new) = Nums(lg) \cup {Len(lg) + 2}
      /\ \A n \in Nums(lg) : Rec(new, n) = Rec(lg, n)
      /\ Rec(new, Len(lg) + 2) = r
      /\ Len(lg) \in Nat
  BY LogGrows
<1>2. \A n \in Nums(lg) : n \in Nat /\ n < Len(lg) + 2
  BY <1>1, LogTypes
<1>3. ow[r.job] \in Nat
  BY RecordTypes
<1> HIDE DEF new
<1>4. \A n \in Nums(new) : /\ bs[Rec(new, n).job] <= Rec(new, n).version
                           /\ Rec(new, n).version <= ow[Rec(new, n).job]
  BY <1>1, <1>3 DEF LogOf
<1>5. ASSUME NEW m \in Nums(new), NEW n \in Nums(new), m < n,
             Rec(new, m).job = Rec(new, n).job
      PROVE  Rec(new, m).version <= Rec(new, n).version
  <2>1. m \in Nums(lg)
    BY <1>1, <1>2, <1>5
  <2>2. CASE n \in Nums(lg)
    BY <1>1, <1>5, <2>1, <2>2 DEF LogOf
  <2>3. CASE n = Len(lg) + 2
    BY <1>1, <1>5, <2>1, <2>3 DEF LogOf
  <2> QED BY <1>1, <2>2, <2>3
<1>6. LogOf(new, bs, ow)
  BY <1>4, <1>5 DEF LogOf
<1> QED BY <1>6 DEF new

\* What was accounted for stays so.
LEMMA AccountedGrows ==
  ASSUME NEW lg \in Seq(Record), NEW r \in Record, NEW bs, NEW ow, NEW j,
         Accounted(j, lg, bs, ow)
  PROVE  Accounted(j, Append(lg, r), bs, ow)
<1>1. CASE ow[j] = bs[j]
  BY <1>1 DEF Accounted
<1>2. CASE \E n \in Nums(lg) : Rec(lg, n) = [job |-> j, version |-> ow[j]]
  <2>1. PICK n \in Nums(lg) : Rec(lg, n) = [job |-> j, version |-> ow[j]]
    BY <1>2
  <2>2. n \in Nums(Append(lg, r)) /\ Rec(Append(lg, r), n) = Rec(lg, n)
    BY LogGrows
  <2> QED BY <2>1, <2>2 DEF Accounted
<1> QED BY <1>1, <1>2 DEF Accounted

\* A frame has fields.
LEMMA FrameFields ==
  ASSUME NEW f \in FrameType
  PROVE  /\ f.epoch \in Nat /\ f.seq \in Nat /\ f.told \in Told
         /\ f.kind \in {"begin", "chunk", "end", "event", "eof"}
BY DEF FrameType

\* A frame that told the truth does so when the bus publishes.
LEMMA TruthfulGrows ==
  ASSUME NEW lg \in Seq(Record), NEW r \in Record, NEW bs, NEW ep, NEW limit,
         NEW f \in FrameType, Truthful(f, ep, lg, bs), Within(f.told, limit),
         limit[r.job] <= r.version, limit[r.job] \in Nat
  PROVE  Truthful(f, ep, Append(lg, r), bs)
<1> DEFINE new == Append(lg, r)
<1>1. /\ Len(new) = Len(lg) + 1 /\ Len(lg) \in Nat
      /\ \A n \in Nums(lg) : n \in Nums(new) /\ Rec(new, n) = Rec(lg, n)
  BY LogGrows
<1>2. f.seq \in Nat /\ f.epoch \in Nat
  BY FrameFields
<1>3. f.epoch = ep => f.seq <= Len(new) + 1
  BY <1>1, <1>2 DEF Truthful
<1>4. f.kind = "chunk" /\ f.epoch = ep => PictureAt(f.told, f.seq, new, bs)
  BY <1>2, PictureGrows DEF Truthful
<1>5. f.kind = "event" /\ f.epoch = ep =>
        /\ f.seq \in Nums(new) /\ Ours(new, f.seq)
        /\ f.told = Says(Rec(new, f.seq))
  BY <1>1 DEF Truthful, Ours
<1> QED BY <1>3, <1>4, <1>5 DEF Truthful

\* So does a wire of such frames.
LEMMA TrueWireGrows ==
  ASSUME NEW lg \in Seq(Record), NEW r \in Record, NEW bs, NEW ep, NEW limit,
         NEW w \in Seq(FrameType), TrueWire(w, ep, lg, bs), Bounded(w, limit),
         limit[r.job] <= r.version, limit[r.job] \in Nat
  PROVE  TrueWire(w, ep, Append(lg, r), bs)
<1>1. ASSUME NEW k \in 1..Len(w)
      PROVE  Truthful(w[k], ep, Append(lg, r), bs)
  <2>1. w[k] \in FrameType
    OBVIOUS
  <2>2. Truthful(w[k], ep, lg, bs) /\ Within(w[k].told, limit)
    BY DEF TrueWire, Bounded
  <2> QED BY <2>1, <2>2, TruthfulGrows
<1> QED BY <1>1 DEF TrueWire

\* Frames that followed one another do so in a longer log.
LEMMA FollowsGrows ==
  ASSUME NEW lg \in Seq(Record), NEW r \in Record, NEW ep,
         NEW f \in FrameType, NEW g \in FrameType,
         g.epoch = ep => g.seq <= Len(lg) + 1, Follows(f, g, ep, lg)
  PROVE  Follows(f, g, ep, Append(lg, r))
<1>1. f.seq \in Nat /\ g.seq \in Nat
  BY FrameFields
<1>2. g.epoch = ep /\ NoneBetween(f.seq, g.seq, lg)
        => NoneBetween(f.seq, g.seq, Append(lg, r))
  BY <1>1, BetweenGrows
<1> QED BY <1>2 DEF Follows

\* A client has fields.
LEMMA ClientFields ==
  ASSUME NEW c, NEW ep, ClientTypes(c, ep)
  PROVE  /\ c.cursor.epoch \in 0..ep /\ c.cursor.seq \in Nat
         /\ c.staged \in Told /\ c.stage \in {"none", "begun", "whole"}
         /\ c.failures \in 0..Tries
         /\ c.state \in {"connecting", "asking", "streaming", "halted"}
BY DEF ClientTypes

\* A client and the first frame still fit in a longer log.
LEMMA StartsGrows ==
  ASSUME NEW lg \in Seq(Record), NEW r \in Record, NEW ep,
         NEW c, ClientTypes(c, ep), NEW f \in FrameType,
         f.epoch = ep => f.seq <= Len(lg) + 1, Starts(c, f, ep, lg)
  PROVE  Starts(c, f, ep, Append(lg, r))
<1>1. c.cursor.seq \in Nat /\ f.seq \in Nat
  BY FrameFields, ClientFields
<1>2. f.epoch = ep /\ NoneBetween(c.cursor.seq, f.seq, lg)
        => NoneBetween(c.cursor.seq, f.seq, Append(lg, r))
  BY <1>1, BetweenGrows
<1> QED BY <1>2 DEF Starts

\* The frames of a wire are linked in a longer log as they were.
LEMMA LinkedGrows ==
  ASSUME NEW lg \in Seq(Record), NEW r \in Record, NEW ep, NEW bs,
         NEW c, ClientTypes(c, ep), NEW w \in Seq(FrameType),
         TrueWire(w, ep, lg, bs), NEW s, NEW s2,
         s.state = "none" => s2.state = "none", Linked(w, c, s, ep, lg)
  PROVE  Linked(w, c, s2, ep, Append(lg, r))
<1>1. \A k \in 1..Len(w) : /\ w[k] \in FrameType
                           /\ w[k].epoch = ep => w[k].seq <= Len(lg) + 1
  BY DEF TrueWire, Truthful
<1>2. ASSUME NEW k \in 1..Len(w) - 1
      PROVE  Follows(w[k], w[k + 1], ep, Append(lg, r))
  <2>1. k \in 1..Len(w) /\ k + 1 \in 1..Len(w)
    OBVIOUS
  <2>2. Follows(w[k], w[k + 1], ep, lg)
    BY DEF Linked
  <2> QED BY <1>1, <2>1, <2>2, FollowsGrows
<1>3. w # <<>> => Starts(c, w[1], ep, Append(lg, r))
  <2> SUFFICES ASSUME w # <<>> PROVE Starts(c, w[1], ep, Append(lg, r))
    OBVIOUS
  <2>1. 1 \in 1..Len(w)
    BY EmptySeq
  <2>2. Starts(c, w[1], ep, lg)
    BY DEF Linked
  <2> QED BY <1>1, <2>1, <2>2, StartsGrows
<1> QED BY <1>2, <1>3 DEF Linked
\* A queue is that of a longer log when the new record is not of the page.
LEMMA QueuedUnseen ==
  ASSUME NEW lg \in Seq(Record), NEW r \in Record, r.job \notin Known,
         NEW s, NEW from \in Nat, Queued(s, from, lg)
  PROVE  Queued(s, from, Append(lg, r))
<1> DEFINE new == Append(lg, r)
<1>1. /\ Nums(new) = Nums(lg) \cup {Len(lg) + 2}
      /\ Len(lg) + 2 \notin Nums(lg)
      /\ \A n \in Nums(lg) : Rec(new, n) = Rec(lg, n)
      /\ Rec(new, Len(lg) + 2) = r
  BY LogGrows
<1> HIDE DEF new
<1>2. \A n \in Nums(new) :
        n \in s.replay \cup s.pending <=> n > from /\ Ours(new, n)
  BY <1>1 DEF Queued, Ours
<1>3. Queued(s, from, new)
  BY <1>1, <1>2 DEF Queued
<1> QED BY <1>3 DEF new

\* A queue that takes in the new record of the page is that of the longer log.
LEMMA QueuedTakes ==
  ASSUME NEW lg \in Seq(Record), NEW r \in Record, r.job \in Known,
         NEW s, SubTypes(s, lg), NEW from \in Nat, from <= Len(lg) + 1,
         Queued(s, from, lg), NEW s2,
         s2.replay = s.replay, s2.pending = s.pending \cup {Len(lg) + 2}
  PROVE  Queued(s2, from, Append(lg, r))
<1> DEFINE new == Append(lg, r)
           top == Len(lg) + 2
<1>1. /\ Nums(new) = Nums(lg) \cup {top}
      /\ top \notin Nums(lg)
      /\ \A n \in Nums(lg) : Rec(new, n) = Rec(lg, n)
      /\ Rec(new, top) = r
  BY LogGrows
<1>2. Len(lg) \in Nat /\ top > from /\ top \in Nat
  OBVIOUS
<1>3. \A n \in Nums(lg) : n \in Nat /\ n < top
  BY <1>2, LogTypes
<1> HIDE DEF new, top
<1>4. s2.pending = s.pending \cup {top}
  BY DEF top
<1>5. \A n \in Nums(new) :
        n \in s2.replay \cup s2.pending <=> n > from /\ Ours(new, n)
  <2>1. ASSUME NEW n \in Nums(lg)
        PROVE  n \in s2.replay \cup s2.pending <=> n > from /\ Ours(new, n)
    BY <1>1, <1>4 DEF Queued, Ours
  <2>2. top \in s2.replay \cup s2.pending /\ top > from /\ Ours(new, top)
    BY <1>1, <1>2, <1>4 DEF Ours
  <2> QED BY <1>1, <2>1, <2>2
<1>6. s2.replay \subseteq Nums(new) /\ s2.pending \subseteq Nums(new)
  BY <1>1, <1>4 DEF Queued
<1>7. \A m \in s2.replay, n \in s2.pending : m < n
  BY <1>3, <1>4 DEF Queued
<1>8. Queued(s2, from, new)
  BY <1>5, <1>6, <1>7 DEF Queued
<1> QED BY <1>8 DEF new

\* What is not behind what was told is not so in a longer log.
LEMMA AheadGrows ==
  ASSUME NEW lg \in Seq(Record), NEW r \in Record, NEW told, NEW s,
         NEW from \in Nat, Queued(s, from, lg), Ahead(s, lg, told)
  PROVE  Ahead(s, Append(lg, r), told)
<1>1. \A n \in s.replay \cup s.pending : Rec(Append(lg, r), n) = Rec(lg, n)
  BY LogGrows DEF Queued
<1> QED BY <1>1 DEF Ahead

\* Nor when the new record waits too: nothing that was told is ahead of it.
LEMMA AheadTakes ==
  ASSUME NEW lg \in Seq(Record), NEW r \in Record, NEW told \in Told,
         NEW limit, Within(told, limit),
         limit[r.job] \in Nat, limit[r.job] <= r.version,
         NEW s, NEW from \in Nat, Queued(s, from, lg), Ahead(s, lg, told),
         NEW s2, s2.replay = s.replay,
         s2.pending = s.pending \cup {Len(lg) + 2}
  PROVE  Ahead(s2, Append(lg, r), told)
<1> DEFINE top == Len(lg) + 2
           new == Append(lg, r)
<1>1. Ahead(s, new, told)
  BY AheadGrows
<1>2. Rec(new, top) = r
  BY LogGrows
<1>3. Precedes(told, r)
  BY ToldTypes, RecordTypes DEF Precedes, Within
<1> HIDE DEF top, new
<1>4. s2.replay \cup s2.pending = s.replay \cup s.pending \cup {top}
  BY DEF top
<1>5. Ahead(s2, new, told)
  BY <1>1, <1>2, <1>3, <1>4 DEF Ahead
<1> QED BY <1>5 DEF new

\* Where an open stream stands is a number of the bus, or one before them.
LEMMA SentFits ==
  ASSUME FeedInv, sub.state = "open"
  PROVE  /\ Sent(wire, client).seq \in Nat
         /\ Sent(wire, client).seq <= Len(log) + 1
<1>1. /\ QueueInv /\ ViewInv /\ WireInv /\ ClientTypes(client, epoch)
      /\ wire \in Seq(FrameType)
  BY Types DEF FeedInv, WireTypes
<1>2. Sent(wire, client).epoch = epoch
  BY <1>1 DEF QueueInv
<1>3. CASE wire = <<>>
  <2>1. Sent(wire, client) = client.cursor
    BY <1>3 DEF Sent
  <2> QED BY <1>1, <1>2, <2>1, ClientFields DEF ViewInv, PictureAt
<1>4. CASE wire # <<>>
  <2>1. Len(wire) \in 1..Len(wire)
    BY <1>1, <1>4, EmptySeq
  <2>2. /\ wire[Len(wire)] \in FrameType
        /\ Truthful(wire[Len(wire)], epoch, log, base)
    BY <1>1, <2>1 DEF WireInv, TrueWire
  <2>3. /\ Sent(wire, client).seq = wire[Len(wire)].seq
        /\ Sent(wire, client).epoch = wire[Len(wire)].epoch
    BY <1>4 DEF Sent, CursorOf
  <2> QED BY <1>2, <2>2, <2>3, FrameFields DEF Truthful
<1> QED BY <1>3, <1>4

\* A publication: the new record is not older than anything that was told, so
\* pictures stay pictures, and it waits in the queue or the reader is closed.
LEMMA PublishStep ==
  ASSUME FeedInv, Publish
  PROVE  FeedInv'
<1>1. /\ TypeOK /\ ServerInv /\ CaptureInv /\ ViewInv /\ ClientInv /\ WireInv
      /\ StagedInv /\ QueueInv
      /\ RowTypes /\ WriterTypes(writer) /\ BusTypes
      /\ SubTypes(sub, log) /\ CaptureTypes(capture)
      /\ WireTypes /\ ClientTypes(client, epoch) /\ faults \in 0..MaxFaults
      /\ RowsAgree /\ LogOf(log, base, owed) /\ WriterAgrees
  BY Types DEF FeedInv, ServerInv
<1> DEFINE r == [job |-> writer.job, version |-> writer.version]
<1>2. /\ writer.pc = "event"
      /\ log' = Append(log, r) /\ sub' = Offered(sub, r)
      /\ writer' = NoWriter
      /\ UNCHANGED <<row, owed, epoch, base, capture, wire, client, view,
                     faults>>
  BY DEF Publish, rows, page
<1>3. /\ writer.job \in Jobs /\ writer.version = owed[writer.job]
      /\ capture.pc = "off"
      /\ \A j \in Jobs : j # writer.job => Accounted(j, log, base, owed)
  BY <1>1, <1>2 DEF WriterAgrees
<1>4. /\ r \in Record /\ r.job \in Jobs /\ r.job = writer.job
      /\ r.version = owed[r.job]
  BY <1>1, <1>3 DEF Record, RowTypes
<1>5. /\ log \in Seq(Record) /\ log' \in Seq(Record)
      /\ base \in [Jobs -> Versions]
  BY <1>1, <1>2, <1>4, LogGrows DEF BusTypes
<1>6. /\ Limit \in [Jobs -> Nat]
      /\ Limit[r.job] = r.version
      /\ Limit[r.job] \in Nat /\ Limit[r.job] <= r.version
  <2>1. Limit \in [Jobs -> Nat] /\ Limit[writer.job] = writer.version
    BY <1>1, <1>2, Limits
  <2>2. Limit[r.job] = r.version
    BY <2>1
  <2> QED BY <1>4, <2>1, <2>2
<1> HIDE DEF r
<1>7. TypeOK'
  <2>1. SubTypes(sub', log')
    BY <1>1, <1>2, <1>4, <1>5, OfferedTypes DEF ClientInv
  <2>2. WriterTypes(writer')
    BY <1>2, FreshTypes
  <2>3. RowTypes' /\ BusTypes' /\ WireTypes'
    BY <1>1, <1>2, <1>5 DEF RowTypes, BusTypes, WireTypes
  <2>4. TypeParts'
    BY <1>1, <1>2, <2>1, <2>2, <2>3 DEF TypeParts
  <2> QED BY <2>4, Parts, PTL
<1>8. ServerInv'
  <2>1. /\ owed \in [Jobs -> Nat] /\ base[r.job] <= owed[r.job]
    BY <1>1, <1>4, VersionsAreNumbers DEF RowTypes, RowsAgree
  <2>2. LogOf(log', base, owed)
    BY <1>1, <1>2, <1>4, <1>5, <2>1, LogAppends
  <2>3. Accounted(r.job, log', base, owed)
    <3>1. Rec(log', Len(log) + 2) = r /\ Len(log) + 2 \in Nums(log')
      BY <1>2, <1>4, <1>5, LogGrows
    <3>2. r = [job |-> r.job, version |-> owed[r.job]]
      BY <1>4 DEF Record
    <3> QED BY <3>1, <3>2 DEF Accounted
  <2>4. \A j \in Jobs : Accounted(j, log', base, owed)
    BY <1>2, <1>3, <1>4, <1>5, <2>3, AccountedGrows
  <2>5. WriterAgrees'
    BY <1>2, <2>4 DEF WriterAgrees, NoWriter
  <2>6. RowsAgree'
    BY <1>1, <1>2 DEF RowsAgree
  <2> QED BY <1>2, <2>2, <2>5, <2>6 DEF ServerInv
<1>9. Limit' \in [Jobs -> Nat] /\ \A k \in Jobs : Limit[k] <= Limit'[k]
  <2>1. LimitsHold'
    BY <1>7, <1>8, NextLimits, PTL
  <2>2. \A k \in Jobs : Limit'[k] = row[k]
    BY <1>2 DEF Limit, NoWriter
  <2> QED BY <1>1, <2>1, <2>2, Limits DEF LimitsHold
<1>10. CaptureInv'
  BY <1>2, <1>3 DEF CaptureInv
<1>11. /\ view \in States /\ view \in Told /\ wire \in Seq(FrameType)
       /\ client.staged \in Told /\ client.cursor.seq \in Nat
  BY <1>1, StateTypes, ClientFields DEF WireTypes
<1>12. ViewInv'
  <2>1. Within(view, Limit')
    BY <1>1, <1>6, <1>9, <1>11, WithinGrows DEF ViewInv
  <2>2. client.cursor.epoch = epoch
          => PictureAt(view, client.cursor.seq, log', base)
    BY <1>1, <1>2, <1>4, <1>5, <1>6, <1>11, PictureGrows DEF ViewInv
  <2> QED BY <1>2, <2>1, <2>2 DEF ViewInv
<1>13. /\ sub'.state # "open" => sub'.replay = {} /\ sub'.pending = {}
       /\ sub.state = "none" => sub' = sub
  BY <1>1, <1>2, <1>4, <1>5, OfferedTypes DEF ClientInv
<1>14. ClientInv'
  BY <1>1, <1>2, <1>13 DEF ClientInv, NoSub
<1>15. WireInv'
  <2>1. Linked(wire, client, sub', epoch, log')
    BY <1>1, <1>2, <1>4, <1>5, <1>11, <1>13, LinkedGrows DEF WireInv
  <2>2. TrueWire(wire, epoch, log', base)
    BY <1>1, <1>2, <1>4, <1>5, <1>6, <1>11, TrueWireGrows DEF WireInv
  <2>3. Bounded(wire, Limit')
    BY <1>1, <1>6, <1>9, <1>11, BoundedGrows DEF WireInv
  <2> QED BY <1>1, <1>2, <2>1, <2>2, <2>3 DEF WireInv
<1>16. StagedInv'
  <2> SUFFICES ASSUME client.stage = "whole" PROVE StagedInv'
    BY <1>2 DEF StagedInv
  <2>1. Within(client.staged, Limit')
    BY <1>1, <1>6, <1>9, <1>11, WithinGrows DEF StagedInv
  <2>2. wire[1] \in FrameType
    <3>1. wire # <<>>
      BY <1>1 DEF WireInv, Linked
    <3> QED BY <1>11, <3>1, EmptySeq
  <2>3. wire[1].epoch = epoch
          => PictureAt(client.staged, wire[1].seq, log', base)
    BY <1>1, <1>2, <1>4, <1>5, <1>6, <2>2, FrameFields, PictureGrows
       DEF StagedInv
  <2> QED BY <1>1, <1>2, <2>1, <2>3 DEF StagedInv
<1>17. QueueInv'
  <2> SUFFICES ASSUME sub'.state = "open" PROVE QueueInv'
    BY DEF QueueInv
  <2> DEFINE from == Sent(wire, client).seq
  <2>1. sub.state = "open" /\ \/ sub' = sub /\ r.job \notin Known
                              \/ /\ r.job \in Known
                                 /\ sub'.replay = sub.replay
                                 /\ sub'.pending = sub.pending
                                                     \cup {Len(log) + 2}
    <3>1. CASE Offered(sub, r) = Closed(sub)
      BY <1>1, <1>2, <3>1, ClosedTypes DEF ClientInv
    <3>2. CASE /\ sub.state = "open" /\ r.job \in Known
               /\ Offered(sub, r) = [sub EXCEPT !.pending = @ \cup {High + 1}]
      <4>1. sub' = [sub EXCEPT !.pending = @ \cup {High + 1}]
        BY <1>2, <3>2
      <4>2. High + 1 = Len(log) + 2
        BY <1>5 DEF High
      <4>3. /\ sub'.replay = sub.replay
            /\ sub'.pending = sub.pending \cup {High + 1}
        BY <1>1, <4>1 DEF SubTypes
      <4> QED BY <3>2, <4>2, <4>3
    <3>3. CASE /\ Offered(sub, r) = sub
               /\ ~(sub.state = "open" /\ r.job \in Known)
      BY <1>2, <3>3
    <3> QED BY <3>1, <3>2, <3>3, OfferedCases
  <2>2. /\ from \in Nat /\ from <= Len(log) + 1
        /\ Sent(wire, client).epoch = epoch
        /\ Queued(sub, from, log)
        /\ Ahead(sub, log, view)
        /\ client.stage = "whole" => Ahead(sub, log, client.staged)
        /\ \A k \in 1..Len(wire) : Ahead(sub, log, wire[k].told)
    BY <1>1, <2>1, SentFits DEF QueueInv
  <2> HIDE DEF from
  <2>3. Queued(sub', from, log')
    BY <1>1, <1>2, <1>4, <1>5, <2>1, <2>2, QueuedUnseen, QueuedTakes
  <2>4. ASSUME NEW told \in Told, Within(told, Limit), Ahead(sub, log, told)
        PROVE  Ahead(sub', log', told)
    <3>1. CASE sub' = sub
      BY <1>2, <1>4, <1>5, <2>2, <2>4, <3>1, AheadGrows
    <3>2. CASE sub'.replay = sub.replay
               /\ sub'.pending = sub.pending \cup {Len(log) + 2}
      BY <1>2, <1>4, <1>5, <1>6, <2>2, <2>4, <3>2, AheadTakes
    <3> QED BY <2>1, <3>1, <3>2
  <2>5. Ahead(sub', log', view)
    BY <1>1, <1>11, <2>2, <2>4 DEF ViewInv
  <2>6. client.stage = "whole" => Ahead(sub', log', client.staged)
    BY <1>1, <1>11, <2>2, <2>4 DEF StagedInv
  <2>7. ASSUME NEW k \in 1..Len(wire) PROVE Ahead(sub', log', wire[k].told)
    <3>1. wire[k] \in FrameType
      BY <1>11
    <3>2. Within(wire[k].told, Limit) /\ wire[k].told \in Told
      BY <1>1, <3>1, FrameFields DEF WireInv, Bounded
    <3> QED BY <2>2, <2>4, <3>2
  <2> QED BY <1>2, <2>2, <2>3, <2>5, <2>6, <2>7 DEF QueueInv, from
<1> QED BY <1>7, <1>8, <1>10, <1>12, <1>14, <1>15, <1>16, <1>17 DEF FeedInv

-----------------------------------------------------------------------------
(* Gaps.                                                                   *)

\* A bus that begins again owes nothing that it did not owe before.
LEMMA EpochRows ==
  ASSUME TypeOK, ServerInv, epoch' = epoch + 1, log' = <<>>, base' = owed,
         writer' = NoWriter, UNCHANGED rows
  PROVE  /\ RowTypes' /\ BusTypes' /\ WriterTypes(writer')
         /\ ServerInv'
         /\ Limit' \in [Jobs -> Nat] /\ \A k \in Jobs : Limit[k] <= Limit'[k]
<1>1. /\ RowTypes /\ BusTypes /\ RowsAgree /\ WriterAgrees
  BY Types DEF ServerInv
<1>2. RowTypes' /\ BusTypes' /\ WriterTypes(writer')
  BY <1>1, EmptyLog, FreshTypes DEF RowTypes, BusTypes, rows
<1>3. \A j \in Jobs : owed[j] \in Nat
  BY <1>1, RowsAreNumbers
<1>4. RowsAgree'
  BY <1>1, <1>3 DEF RowsAgree, rows
<1>5. LogOf(log', base', owed')
  BY EmptyLog DEF LogOf
<1>6. WriterAgrees'
  BY DEF WriterAgrees, Accounted, NoWriter, rows
<1>7. Limit' = row
  BY <1>1 DEF Limit, NoWriter, rows, RowTypes
<1>8. Limit' \in [Jobs -> Nat]
  BY <1>1, <1>7, VersionsAreNumbers DEF RowTypes
<1>9. \A k \in Jobs : Limit[k] <= Limit'[k]
  BY <1>7, Limits
<1> QED BY <1>2, <1>4, <1>5, <1>6, <1>8, <1>9 DEF ServerInv

\* Frames of an epoch that is over still tell the truth.
LEMMA TrueWireEpoch ==
  ASSUME NEW w \in Seq(FrameType), NEW ep \in Nat, NEW lg, NEW bs, NEW lg2,
         NEW bs2, TrueWire(w, ep, lg, bs)
  PROVE  TrueWire(w, ep + 1, lg2, bs2)
<1>1. ASSUME NEW k \in 1..Len(w) PROVE Truthful(w[k], ep + 1, lg2, bs2)
  <2>1. w[k] \in FrameType /\ Truthful(w[k], ep, lg, bs)
    BY DEF TrueWire
  <2>2. w[k].epoch # ep + 1 /\ w[k].epoch <= ep + 1
    BY <2>1, FrameFields DEF Truthful
  <2> QED BY <2>1, <2>2 DEF Truthful
<1> QED BY <1>1 DEF TrueWire

\* And are linked as they were in it.
LEMMA LinkedEpoch ==
  ASSUME NEW w \in Seq(FrameType), NEW ep \in Nat, NEW lg, NEW bs, NEW lg2,
         NEW c, NEW s, NEW s2, s.state = "none" => s2.state = "none",
         TrueWire(w, ep, lg, bs), Linked(w, c, s, ep, lg)
  PROVE  Linked(w, c, s2, ep + 1, lg2)
<1>1. \A k \in 1..Len(w) : w[k].epoch # ep + 1
  <2> SUFFICES ASSUME NEW k \in 1..Len(w) PROVE w[k].epoch # ep + 1
    OBVIOUS
  <2>1. w[k] \in FrameType /\ Truthful(w[k], ep, lg, bs)
    BY DEF TrueWire
  <2> QED BY <2>1, FrameFields DEF Truthful
<1>2. ASSUME NEW k \in 1..Len(w) - 1
      PROVE  Follows(w[k], w[k + 1], ep + 1, lg2)
  <2>1. k + 1 \in 1..Len(w)
    OBVIOUS
  <2>2. Follows(w[k], w[k + 1], ep, lg)
    BY DEF Linked
  <2> QED BY <1>1, <2>1, <2>2 DEF Follows
<1>3. w # <<>> => Starts(c, w[1], ep + 1, lg2)
  <2> SUFFICES ASSUME w # <<>> PROVE Starts(c, w[1], ep + 1, lg2)
    OBVIOUS
  <2>1. 1 \in 1..Len(w)
    BY EmptySeq
  <2>2. Starts(c, w[1], ep, lg)
    BY DEF Linked
  <2> QED BY <1>1, <2>1, <2>2 DEF Starts
<1> QED BY <1>2, <1>3 DEF Linked

\* A client keeps its fields in a later epoch.
LEMMA ClientEpoch ==
  ASSUME NEW c, NEW ep \in Nat, ClientTypes(c, ep)
  PROVE  ClientTypes(c, ep + 1) /\ c.cursor.epoch # ep + 1
<1>1. 0..ep \subseteq 0..ep + 1 /\ ep + 1 \notin 0..ep
  OBVIOUS
<1> QED BY <1>1 DEF ClientTypes

\* A gap, after a commit without an event or a publication that failed: every
\* cursor and every frame is of an epoch that is over.
LEMMA GapStep ==
  ASSUME FeedInv, Invalidate \/ PublishFails
  PROVE  FeedInv'
<1>1. /\ TypeOK /\ ServerInv /\ CaptureInv /\ ViewInv /\ ClientInv /\ WireInv
      /\ StagedInv /\ QueueInv
      /\ RowTypes /\ WriterTypes(writer) /\ BusTypes
      /\ SubTypes(sub, log) /\ CaptureTypes(capture)
      /\ WireTypes /\ ClientTypes(client, epoch) /\ faults \in 0..MaxFaults
      /\ WriterAgrees
  BY Types DEF FeedInv, ServerInv
<1>2. /\ epoch' = epoch + 1 /\ log' = <<>> /\ base' = owed
      /\ sub' = Closed(sub) /\ writer' = NoWriter
      /\ UNCHANGED <<rows, capture, wire, client, view>>
      /\ faults' = faults \/ Fault
      /\ writer.pc # "off"
  BY DEF Invalidate, PublishFails, MarkGap, page
<1>3. /\ RowTypes' /\ BusTypes' /\ WriterTypes(writer') /\ ServerInv'
      /\ Limit' \in [Jobs -> Nat] /\ \A k \in Jobs : Limit[k] <= Limit'[k]
  BY <1>1, <1>2, EpochRows
<1>4. capture.pc = "off"
  BY <1>1, <1>2 DEF WriterAgrees
<1>5. /\ SubTypes(sub', log') /\ sub'.state # "open"
      /\ sub'.replay = {} /\ sub'.pending = {}
      /\ sub.state = "none" => sub' = sub
  BY <1>1, <1>2, ClosedTypes DEF ClientInv
<1>6. epoch \in Nat /\ ClientTypes(client, epoch')
      /\ client.cursor.epoch # epoch'
  BY <1>1, <1>2, ClientEpoch DEF BusTypes
<1>7. TypeOK'
  <2>1. faults' \in 0..MaxFaults
    BY <1>1, <1>2, FeedAssumption DEF Fault
  <2>2. TypeParts'
    BY <1>1, <1>2, <1>3, <1>5, <1>6, <2>1 DEF TypeParts, WireTypes
  <2> QED BY <2>2, Parts, PTL
<1>8. CaptureInv'
  BY <1>2, <1>4 DEF CaptureInv
<1>9. /\ view \in Told /\ wire \in Seq(FrameType) /\ client.staged \in Told
      /\ Limit \in [Jobs -> Nat]
  BY <1>1, StateTypes, ClientFields, Limits DEF WireTypes
<1>10. ViewInv'
  <2>1. Within(view, Limit')
    BY <1>1, <1>3, <1>9, WithinGrows DEF ViewInv
  <2> QED BY <1>2, <1>6, <2>1 DEF ViewInv
<1>11. ClientInv'
  BY <1>1, <1>2, <1>5 DEF ClientInv, NoSub
<1>12. WireInv'
  <2>1. TrueWire(wire, epoch', log', base')
    BY <1>1, <1>2, <1>6, <1>9, TrueWireEpoch DEF WireInv
  <2>2. Linked(wire, client, sub', epoch', log')
    BY <1>1, <1>2, <1>5, <1>6, <1>9, LinkedEpoch DEF WireInv
  <2>3. Bounded(wire, Limit')
    BY <1>1, <1>3, <1>9, BoundedGrows DEF WireInv
  <2> QED BY <1>1, <1>2, <2>1, <2>2, <2>3 DEF WireInv
<1>13. StagedInv'
  <2> SUFFICES ASSUME client.stage = "whole" PROVE StagedInv'
    BY <1>2 DEF StagedInv
  <2>1. Within(client.staged, Limit')
    BY <1>1, <1>3, <1>9, WithinGrows DEF StagedInv
  <2>2. wire[1].epoch # epoch'
    <3>1. 1 \in 1..Len(wire)
      BY <1>1, <1>9, EmptySeq DEF WireInv, Linked
    <3>2. wire[1] \in FrameType /\ Truthful(wire[1], epoch, log, base)
      BY <1>1, <1>9, <3>1 DEF WireInv, TrueWire
    <3> QED BY <1>2, <1>6, <3>2, FrameFields DEF Truthful
  <2> QED BY <1>1, <1>2, <2>1, <2>2 DEF StagedInv
<1>14. QueueInv'
  BY <1>5 DEF QueueInv
<1> QED BY <1>3, <1>7, <1>8, <1>10, <1>11, <1>12, <1>13, <1>14 DEF FeedInv

-----------------------------------------------------------------------------
(* A client without a stream.                                              *)

\* A client without a stream has nothing that could be wrong with it.
LEMMA Parted ==
  ASSUME wire' = <<>>, sub' = NoSub, client'.stage = "none",
         client'.state # "halted" => client'.failures < Tries
  PROVE  ClientInv' /\ WireInv' /\ StagedInv' /\ QueueInv'
<1>1. sub'.state = "none" /\ sub'.replay = {} /\ sub'.pending = {}
  BY DEF NoSub
<1>2. Len(wire') = 0
  OBVIOUS
<1>3. ClientInv'
  BY <1>1 DEF ClientInv
<1>4. WireInv'
  <2>1. Linked(wire', client', sub', epoch', log')
    BY <1>2 DEF Linked
  <2>2. /\ TrueWire(wire', epoch', log', base')
        /\ Newer(wire', view') /\ Bounded(wire', Limit')
    BY <1>2 DEF TrueWire, Newer, Bounded
  <2> QED BY <2>1, <2>2 DEF WireInv
<1>5. StagedInv'
  BY DEF StagedInv
<1>6. QueueInv'
  BY <1>1 DEF QueueInv
<1> QED BY <1>3, <1>4, <1>5, <1>6

\* Limits only depend on the rows and the writer.
LEMMA SameLimit ==
  ASSUME UNCHANGED <<row, writer>>
  PROVE  Limit' = Limit
BY DEF Limit

\* What the server owes does not depend on the page.
LEMMA SameServer ==
  ASSUME ServerInv, UNCHANGED <<rows, writer, bus>>,
         writer.pc # "off" => capture'.pc = "off"
  PROVE  ServerInv' /\ Limit' = Limit
<1>1. UNCHANGED <<row, owed, writer, epoch, log, base>>
  BY DEF rows, bus
<1>2. RowsAgree' /\ LogOf(log', base', owed')
  BY <1>1 DEF ServerInv, RowsAgree
<1>3. WriterAgrees'
  BY <1>1 DEF ServerInv, WriterAgrees
<1> QED BY <1>1, <1>2, <1>3, SameLimit DEF ServerInv

\* A client that leaves its stream keeps its cursor, and nothing else.
LEMMA DisconnectStep ==
  ASSUME FeedInv, NEW next \in {"connecting", "halted"}, NEW n \in 0..Tries,
         next = "connecting" => n < Tries,
         Disconnected(next, n), UNCHANGED <<rows, writer, bus, view>>,
         faults' \in 0..MaxFaults
  PROVE  FeedInv'
<1>1. /\ TypeOK /\ ServerInv /\ CaptureInv /\ ViewInv
      /\ RowTypes /\ WriterTypes(writer) /\ BusTypes
      /\ CaptureTypes(capture)
      /\ WireTypes /\ ClientTypes(client, epoch)
      /\ WriterAgrees
  BY Types DEF FeedInv, ServerInv
<1>2. /\ client' = [state |-> next, cursor |-> client.cursor, stage |-> "none",
                    staged |-> Nothing, failures |-> n]
      /\ sub' = NoSub /\ wire' = <<>>
      /\ capture' = [capture EXCEPT !.live = FALSE]
      /\ UNCHANGED <<row, owed, writer, epoch, log, base, view>>
  BY DEF Disconnected, NoClient, rows, bus
<1>3. CaptureTypes(capture') /\ ~capture'.live /\ capture'.pc = capture.pc
  BY <1>1, <1>2 DEF CaptureTypes
<1>4. ServerInv' /\ Limit' = Limit
  <2>1. UNCHANGED <<rows, writer, bus>>
    OBVIOUS
  <2>2. writer.pc # "off" => capture'.pc = "off"
    BY <1>1, <1>3 DEF WriterAgrees
  <2> QED BY <1>1, <2>1, <2>2, SameServer
<1>5. TypeOK'
  <2>1. ClientTypes(client', epoch')
    BY <1>1, <1>2, NothingTypes, ClientFields DEF ClientTypes
  <2>2. SubTypes(sub', log')
    BY <1>2, FreshTypes
  <2>3. RowTypes' /\ WriterTypes(writer') /\ BusTypes' /\ WireTypes'
    BY <1>1, <1>2 DEF RowTypes, BusTypes, WireTypes
  <2>4. TypeParts'
    BY <1>3, <2>1, <2>2, <2>3 DEF TypeParts
  <2> QED BY <2>4, Parts, PTL
<1>6. CaptureInv'
  BY <1>3 DEF CaptureInv
<1>7. client'.cursor = client.cursor /\ client'.stage = "none"
      /\ client'.state = next /\ client'.failures = n
  BY <1>2
<1>8. ViewInv'
  BY <1>1, <1>2, <1>4, <1>7 DEF ViewInv
<1>9. ClientInv' /\ WireInv' /\ StagedInv' /\ QueueInv'
  BY <1>2, <1>7, Parted
<1> QED BY <1>4, <1>5, <1>6, <1>8, <1>9 DEF FeedInv

\* The stream ends cleanly, breaks or is refused, and the failures in a row are
\* counted.
LEMMA DisconnectSteps ==
  ASSUME FeedInv, ReceiveEnd \/ Break \/ Refuse
  PROVE  FeedInv'
<1>1. /\ faults \in 0..MaxFaults /\ ClientTypes(client, epoch) /\ ClientInv
      /\ Tries \in Nat \ {0} /\ MaxFaults \in Nat
  BY Types, FeedAssumption DEF FeedInv
<1>2. UNCHANGED <<rows, writer, bus, view>>
  BY DEF ReceiveEnd, Break, Refuse
<1>3. faults' \in 0..MaxFaults
  BY <1>1 DEF ReceiveEnd, Break, Refuse, Fault
<1>4. client.failures \in 0..Tries
  BY <1>1, ClientFields
<1>5. CASE ReceiveEnd
  BY <1>1, <1>2, <1>3, <1>5, DisconnectStep DEF ReceiveEnd
<1>6. CASE Refuse
  BY <1>2, <1>3, <1>4, <1>6, DisconnectStep DEF Refuse
<1>7. CASE Break
  <2>1. client.failures + 1 \in Nat /\ Tries \in 0..Tries
    BY <1>1, <1>4
  <2>2. CASE client.failures + 1 < Tries
    <3>1. /\ Disconnected("connecting", client.failures + 1)
          /\ client.failures + 1 \in 0..Tries
      BY <1>1, <1>7, <2>1, <2>2 DEF Break, ConnectionFails
    <3> QED BY <1>2, <1>3, <2>2, <3>1, DisconnectStep
  <2>3. CASE ~(client.failures + 1 < Tries)
    <3>1. Disconnected("halted", Tries)
      BY <1>7, <2>3 DEF Break, ConnectionFails
    <3> QED BY <1>2, <1>3, <2>1, <3>1, DisconnectStep
  <2> QED BY <2>2, <2>3
<1> QED BY <1>5, <1>6, <1>7

\* A client that asks, or starts anew without a cursor.
LEMMA AskStep ==
  ASSUME FeedInv, Ask \/ Reload
  PROVE  FeedInv'
<1>1. /\ TypeOK /\ ServerInv /\ CaptureInv /\ ViewInv /\ ClientInv
      /\ RowTypes /\ WriterTypes(writer) /\ BusTypes /\ SubTypes(sub, log)
      /\ CaptureTypes(capture)
      /\ WireTypes /\ ClientTypes(client, epoch) /\ faults \in 0..MaxFaults
      /\ WriterAgrees
  BY Types DEF FeedInv, ServerInv
<1>2. /\ client.state \in {"connecting", "halted"}
      /\ UNCHANGED <<row, owed, writer, epoch, log, base, sub, capture, wire,
                     view, faults>>
  BY DEF Ask, Reload, rows, bus
<1>3. wire = <<>> /\ sub = NoSub /\ client.stage = "none"
  BY <1>1, <1>2 DEF ClientInv
<1>4. /\ ClientTypes(client', epoch)
      /\ client'.stage = "none" /\ client'.state # "streaming"
      /\ client'.cursor = client.cursor \/ client'.cursor = NoCursor
      /\ client'.state # "halted" => client'.failures < Tries
  <2>1. CASE Ask
    BY <1>1, <1>3, <2>1 DEF Ask, ClientTypes, ClientInv
  <2>2. CASE Reload
    <3>1. client' = NoClient /\ 0 \in 0..epoch /\ 0 \in 0..Tries
      BY <1>1, <2>2, FeedAssumption DEF Reload, BusTypes
    <3> QED BY <3>1, NothingTypes, FeedAssumption
            DEF NoClient, NoCursor, ClientTypes
  <2> QED BY <2>1, <2>2
<1>5. ServerInv' /\ Limit' = Limit
  <2>1. UNCHANGED <<rows, writer, bus>>
    BY <1>2 DEF rows, bus
  <2>2. writer.pc # "off" => capture'.pc = "off"
    BY <1>1, <1>2 DEF WriterAgrees
  <2> QED BY <1>1, <2>1, <2>2, SameServer
<1>6. TypeOK'
  <2>1. TypeParts'
    BY <1>1, <1>2, <1>4 DEF TypeParts, RowTypes, BusTypes, WireTypes
  <2> QED BY <2>1, Parts, PTL
<1>7. CaptureInv'
  BY <1>1, <1>2 DEF CaptureInv
<1>8. ViewInv'
  <2>1. epoch # 0
    BY <1>1 DEF BusTypes
  <2> QED BY <1>1, <1>2, <1>4, <1>5, <2>1 DEF ViewInv, NoCursor
<1>9. ClientInv' /\ WireInv' /\ StagedInv' /\ QueueInv'
  BY <1>2, <1>3, <1>4, Parted
<1> QED BY <1>5, <1>6, <1>7, <1>8, <1>9 DEF FeedInv

\* The server dies and starts again: what is owed is owed before the new epoch.
LEMMA RestartStep ==
  ASSUME FeedInv, Restart
  PROVE  FeedInv'
<1>1. /\ TypeOK /\ ServerInv /\ ViewInv /\ ClientInv
      /\ RowTypes /\ BusTypes
      /\ WireTypes /\ ClientTypes(client, epoch) /\ faults \in 0..MaxFaults
  BY Types DEF FeedInv, ServerInv
<1>2. /\ epoch' = epoch + 1 /\ log' = <<>> /\ base' = owed
      /\ writer' = NoWriter /\ capture' = NoCapture
      /\ sub' = NoSub /\ wire' = <<>>
      /\ UNCHANGED rows /\ view' = view
      /\ faults' = faults + 1 /\ faults < MaxFaults
  BY DEF Restart, Fault
<1>3. /\ RowTypes' /\ BusTypes' /\ WriterTypes(writer') /\ ServerInv'
      /\ Limit' \in [Jobs -> Nat] /\ \A k \in Jobs : Limit[k] <= Limit'[k]
  BY <1>1, <1>2, EpochRows
<1>4. epoch \in Nat /\ ClientTypes(client, epoch')
      /\ client.cursor.epoch # epoch'
  BY <1>1, <1>2, ClientEpoch DEF BusTypes
<1>5. /\ ClientTypes(client', epoch')
      /\ client'.cursor = client.cursor
      /\ client'.stage = "none" /\ client'.state # "streaming"
      /\ client'.state # "halted" => client'.failures < Tries
  <2>1. CASE client.state \in {"connecting", "halted"}
    <3>1. client' = client
      BY <2>1 DEF Restart
    <3> QED BY <1>1, <1>4, <2>1, <3>1 DEF ClientInv
  <2>2. CASE client.state \notin {"connecting", "halted"}
    <3>1. client' = [state |-> IF client.failures + 1 < Tries
                               THEN "connecting" ELSE "halted",
                     cursor |-> client.cursor, stage |-> "none",
                     staged |-> Nothing, failures |-> client.failures + 1]
      BY <2>2 DEF Restart, NoClient
    <3>2. client.failures + 1 \in 0..Tries
      BY <1>1, <2>2, ClientFields, FeedAssumption DEF ClientInv
    <3> QED BY <1>4, <3>1, <3>2, NothingTypes, ClientFields DEF ClientTypes
  <2> QED BY <2>1, <2>2
<1>6. TypeOK'
  <2>1. faults' \in 0..MaxFaults
    BY <1>1, <1>2, FeedAssumption
  <2>2. CaptureTypes(capture') /\ SubTypes(sub', log')
    BY <1>2, FreshTypes
  <2>3. WireTypes'
    BY <1>1, <1>2 DEF WireTypes
  <2>4. TypeParts'
    BY <1>3, <1>5, <2>1, <2>2, <2>3 DEF TypeParts
  <2> QED BY <2>4, Parts, PTL
<1>7. CaptureInv'
  BY <1>2 DEF CaptureInv, NoCapture
<1>8. ViewInv'
  <2>1. view \in Told /\ Limit \in [Jobs -> Nat]
    BY <1>1, StateTypes, Limits DEF WireTypes
  <2>2. Within(view, Limit')
    BY <1>1, <1>3, <2>1, WithinGrows DEF ViewInv
  <2> QED BY <1>2, <1>4, <1>5, <2>2 DEF ViewInv
<1>9. ClientInv' /\ WireInv' /\ StagedInv' /\ QueueInv'
  BY <1>2, <1>5, Parted
<1> QED BY <1>3, <1>6, <1>7, <1>8, <1>9 DEF FeedInv

-----------------------------------------------------------------------------
(* Captures.                                                               *)

\* A snapshot begins: it sees each row, and so what is owed and what is shown.
LEMMA CaptureReadsStep ==
  ASSUME FeedInv, CaptureReads
  PROVE  FeedInv'
<1>1. /\ TypeOK /\ ServerInv /\ ViewInv
      /\ RowTypes /\ WriterTypes(writer) /\ BusTypes /\ SubTypes(sub, log)
      /\ WireTypes /\ ClientTypes(client, epoch) /\ faults \in 0..MaxFaults
      /\ RowsAgree
  BY Types DEF FeedInv, ServerInv
<1> DEFINE seen == [j \in Known |-> row[j]]
<1>2. /\ client.state = "asking" /\ writer.pc = "off"
      /\ capture' = [pc |-> "reading", live |-> TRUE, seen |-> seen]
      /\ UNCHANGED <<row, owed, writer, epoch, log, base, sub, wire, client,
                     view, faults>>
  BY DEF CaptureReads, BarrierFree, rows, bus, page
<1>3. \A j \in Known : j \in Jobs /\ row[j] \in Versions
  BY <1>1, FeedAssumption DEF RowTypes
<1>4. seen \in States
  BY <1>3 DEF States
<1>5. seen \in Told /\ DOMAIN seen = Known
  BY <1>4, StateTypes
<1>6. \A j \in Known : /\ seen[j] = row[j] /\ Limit[j] = row[j]
                       /\ row[j] \in Nat /\ owed[j] <= row[j]
  BY <1>1, <1>2, <1>3, RowsAreNumbers, Limits DEF RowsAgree
<1> HIDE DEF seen
<1>7. ServerInv' /\ Limit' = Limit
  <2>1. UNCHANGED <<rows, writer, bus>>
    BY <1>2 DEF rows, bus
  <2> QED BY <1>1, <1>2, <2>1, SameServer
<1>8. TypeOK'
  <2>1. CaptureTypes(capture')
    BY <1>2, <1>5 DEF CaptureTypes
  <2>2. TypeParts'
    BY <1>1, <1>2, <2>1 DEF TypeParts, RowTypes, BusTypes, WireTypes
  <2> QED BY <2>2, Parts, PTL
<1>9. CaptureInv'
  <2>1. Within(seen, Limit)
    BY <1>5, <1>6 DEF Within
  <2>2. NotOlder(seen, view)
    BY <1>1, <1>5, <1>6 DEF NotOlder, ViewInv, Within
  <2>3. \A j \in Known : owed[j] <= seen[j]
    BY <1>6
  <2>4. capture'.seen = seen
    BY <1>2
  <2> QED BY <1>2, <1>4, <1>7, <2>1, <2>2, <2>3, <2>4 DEF CaptureInv
<1>10. ViewInv' /\ ClientInv' /\ WireInv' /\ StagedInv' /\ QueueInv'
  <2>1. Limit \in [Jobs -> Nat] /\ \A j \in Jobs : Limit[j] <= Limit'[j]
    BY <1>1, <1>7, Limits
  <2> QED BY <1>2, <1>7, <2>1, PageUnseen
<1> QED BY <1>7, <1>8, <1>9, <1>10 DEF FeedInv

\* A snapshot that nobody waits for is thrown away.
LEMMA CaptureClosedStep ==
  ASSUME FeedInv, CaptureClosed
  PROVE  FeedInv'
<1>1. /\ TypeOK /\ ServerInv
      /\ RowTypes /\ WriterTypes(writer) /\ BusTypes /\ SubTypes(sub, log)
      /\ WireTypes /\ ClientTypes(client, epoch) /\ faults \in 0..MaxFaults
  BY Types DEF FeedInv, ServerInv
<1>2. /\ capture' = NoCapture
      /\ UNCHANGED <<row, owed, writer, epoch, log, base, sub, wire, client,
                     view, faults>>
  BY DEF CaptureClosed, rows, bus, page
<1>3. ServerInv' /\ Limit' = Limit
  <2>1. UNCHANGED <<rows, writer, bus>> /\ capture'.pc = "off"
    BY <1>2 DEF rows, bus, NoCapture
  <2> QED BY <1>1, <2>1, SameServer
<1>4. TypeOK'
  <2>1. CaptureTypes(capture')
    BY <1>2, FreshTypes
  <2>2. TypeParts'
    BY <1>1, <1>2, <2>1 DEF TypeParts, RowTypes, BusTypes, WireTypes
  <2> QED BY <2>2, Parts, PTL
<1>5. CaptureInv'
  BY <1>2 DEF CaptureInv, NoCapture
<1>6. ViewInv' /\ ClientInv' /\ WireInv' /\ StagedInv' /\ QueueInv'
  <2>1. Limit \in [Jobs -> Nat] /\ \A j \in Jobs : Limit[j] <= Limit'[j]
    BY <1>1, <1>3, Limits
  <2> QED BY <1>2, <1>3, <2>1, PageUnseen
<1> QED BY <1>3, <1>4, <1>5, <1>6 DEF FeedInv

\* The test of the ring is enough: a cursor that is not expired is replayed
\* everything of its jobs that came after it, and nothing else.
THEOREM ReplayIsWhole ==
  ASSUME log \in Seq(Record), NEW cursor, cursor.seq \in Nat,
         ~Expired(cursor)
  PROVE  Queued(Reading(Replay(cursor)), cursor.seq, log)
<1>1. Len(log) \in Nat /\ Capacity \in Nat
  BY FeedAssumption
<1>2. ASSUME NEW n \in Nums(log), n > cursor.seq
      PROVE  n \in Ring
  <2>1. n \in Nat /\ n <= Len(log) + 1 /\ n \in Numbers
    BY <1>2, LogTypes, OfTheLog
  <2>2. CASE Ring = {}
    BY <1>1, <1>2, <2>1, <2>2 DEF Expired, High
  <2>3. CASE Ring # {}
    <3>1. PICK m \in Ring : ~(cursor.seq + 1 < m)
      BY <2>3 DEF Expired
    <3>2. m \in Nums(log) /\ m + Capacity > Len(log) + 1
      BY <3>1, OfTheLog DEF Ring
    <3>3. m \in Nat /\ m <= n
      BY <1>2, <2>1, <3>1, <3>2, LogTypes
    <3>4. n + Capacity > High
      BY <1>1, <2>1, <3>2, <3>3 DEF High
    <3> QED BY <2>1, <3>4 DEF Ring
  <2> QED BY <2>2, <2>3
<1>3. Ring \subseteq Nums(log)
  BY OfTheLog DEF Ring
<1>4. Replay(cursor) = {n \in Nums(log) : n > cursor.seq /\ Ours(log, n)}
  BY <1>2, <1>3, OfTheLog DEF Replay
<1> QED BY <1>4 DEF Queued, Reading

\* A snapshot of all that is owed is a picture of the bus as it is.
LEMMA SnapshotIsPicture ==
  ASSUME BusTypes, RowTypes, RowsAgree, LogOf(log, base, owed),
         NEW seen \in States, \A j \in Known : owed[j] <= seen[j]
  PROVE  PictureAt(seen, High, log, base)
<1>1. log \in Seq(Record) /\ Len(log) \in Nat /\ High = Len(log) + 1
  BY DEF BusTypes, High
<1>2. \A j \in Known : /\ j \in Jobs /\ seen[j] \in Nat /\ owed[j] \in Nat
                       /\ base[j] \in Nat /\ base[j] <= owed[j]
  BY StateTypes, RowsAreNumbers DEF RowsAgree
<1>3. ASSUME NEW k \in Nums(log), Ours(log, k)
      PROVE  k <= High /\ Rec(log, k).version <= seen[Rec(log, k).job]
  <2>1. k <= High /\ Rec(log, k) \in Record
    BY <1>1, LogTypes
  <2>2. Rec(log, k).job \in Known /\ Rec(log, k).version \in Nat
    BY <1>3, <2>1, RecordTypes DEF Ours
  <2>3. Rec(log, k).version <= owed[Rec(log, k).job]
    BY DEF LogOf
  <2> QED BY <1>2, <2>1, <2>2, <2>3
<1> QED BY <1>1, <1>2, <1>3 DEF PictureAt

\* The client of an answer follows its stream.
LEMMA Streaming ==
  ASSUME ClientTypes(client, epoch), ClientInv, client.state = "asking",
         client' = [client EXCEPT !.state = "streaming"]
  PROVE  /\ ClientTypes(client', epoch)
         /\ client'.state = "streaming" /\ client'.cursor = client.cursor
         /\ client'.stage = "none" /\ client'.failures < Tries
BY DEF ClientTypes, ClientInv

\* Three frames on a wire.
LEMMA ThreeFrames ==
  ASSUME NEW S, NEW a \in S, NEW b \in S, NEW c \in S
  PROVE  /\ <<a, b, c>> \in Seq(S) /\ Len(<<a, b, c>>) = 3
         /\ <<a, b, c>> # <<>>
         /\ <<a, b, c>>[1] = a /\ <<a, b, c>>[2] = b /\ <<a, b, c>>[3] = c
OBVIOUS

\* A reader is registered: with a snapshot, or with what comes after its
\* cursor.
LEMMA CaptureSubscribesStep ==
  ASSUME FeedInv, CaptureSubscribes
  PROVE  FeedInv'
<1>1. /\ TypeOK /\ ServerInv /\ CaptureInv /\ ViewInv /\ ClientInv
      /\ RowTypes /\ WriterTypes(writer) /\ BusTypes
      /\ WireTypes /\ ClientTypes(client, epoch) /\ faults \in 0..MaxFaults
      /\ RowsAgree /\ LogOf(log, base, owed)
  BY Types DEF FeedInv, ServerInv
<1>2. /\ capture.pc = "reading" /\ capture.live
      /\ capture' = NoCapture
      /\ client' = [client EXCEPT !.state = "streaming"]
      /\ UNCHANGED <<row, owed, writer, epoch, log, base, view, faults>>
  BY DEF CaptureSubscribes, rows, bus
<1> DEFINE seen == capture.seen
           b == Frame("begin", High, Nothing)
           c == Frame("chunk", High, seen)
           e == Frame("end", High, Nothing)
<1>3. /\ client.state = "asking" /\ seen \in States
      /\ Within(seen, Limit) /\ NotOlder(seen, view)
      /\ \A j \in Known : owed[j] <= seen[j]
  BY <1>1, <1>2 DEF CaptureInv
<1>4. /\ ClientTypes(client', epoch)
      /\ client'.state = "streaming" /\ client'.cursor = client.cursor
      /\ client'.stage = "none" /\ client'.failures < Tries
  BY <1>1, <1>2, <1>3, Streaming
<1>5. ServerInv' /\ Limit' = Limit
  <2>1. UNCHANGED <<rows, writer, bus>> /\ capture'.pc = "off"
    BY <1>2 DEF rows, bus, NoCapture
  <2> QED BY <1>1, <2>1, SameServer
<1>6. epoch \in Nat /\ epoch >= 1 /\ log \in Seq(Record)
      /\ High = Len(log) + 1 /\ High \in Nat
  BY <1>1 DEF BusTypes, High
<1>7. /\ b \in FrameType /\ b.kind = "begin" /\ b.epoch = epoch
      /\ b.seq = High /\ b.told = Nothing
      /\ c \in FrameType /\ c.kind = "chunk" /\ c.epoch = epoch
      /\ c.seq = High /\ c.told = seen
      /\ e \in FrameType /\ e.kind = "end" /\ e.epoch = epoch
      /\ e.seq = High /\ e.told = Nothing
  BY <1>3, <1>6, FrameTypes, NothingTypes, StateTypes
<1>8. \/ wire' = <<b, c, e>> /\ sub' = Reading({})
      \/ /\ wire' = <<>> /\ sub' = Reading(Replay(client.cursor))
         /\ ~MustReset(client.cursor)
  BY DEF CaptureSubscribes
<1> HIDE DEF b, c, e, seen
<1>9. wire' \in Seq(FrameType) /\ SubTypes(sub', log) /\ sub'.state = "open"
  <2>1. <<b, c, e>> \in Seq(FrameType) /\ <<>> \in Seq(FrameType)
    BY <1>7, ThreeFrames
  <2>2. /\ SubTypes(Reading({}), log)
        /\ SubTypes(Reading(Replay(client.cursor)), log)
    BY <1>6, FreshTypes, ReplayTypes
  <2>3. sub'.state = "open"
    BY <1>8 DEF Reading
  <2> QED BY <1>8, <2>1, <2>2, <2>3
<1>10. TypeOK'
  <2>1. CaptureTypes(capture')
    BY <1>2, FreshTypes
  <2>2. TypeParts'
    BY <1>1, <1>2, <1>4, <1>9, <2>1
       DEF TypeParts, RowTypes, BusTypes, WireTypes
  <2> QED BY <2>2, Parts, PTL
<1>11. CaptureInv'
  BY <1>2 DEF CaptureInv, NoCapture
<1>12. ViewInv'
  BY <1>1, <1>2, <1>4, <1>5 DEF ViewInv
<1>13. ClientInv'
  BY <1>4, <1>9 DEF ClientInv
<1>14. StagedInv'
  BY <1>4 DEF StagedInv
<1>15. WireInv' /\ QueueInv'
  <2>1. CASE wire' = <<b, c, e>> /\ sub' = Reading({})
    <3>1. /\ Len(wire') = 3 /\ wire' # <<>>
          /\ wire'[1] = b /\ wire'[2] = c /\ wire'[3] = e
      BY <1>7, <2>1, ThreeFrames
    <3>2. Linked(wire', client', sub', epoch, log)
      <4>1. Follows(b, c, epoch, log) /\ Follows(c, e, epoch, log)
        BY <1>7 DEF Follows
      <4>2. Starts(client', b, epoch, log)
        BY <1>4, <1>7 DEF Starts
      <4>3. \A k \in 1..Len(wire') - 1 : k = 1 \/ k = 2
        BY <3>1
      <4>4. \A k \in 1..Len(wire') - 1 :
              Follows(wire'[k], wire'[k + 1], epoch, log)
        BY <3>1, <4>1, <4>3
      <4> QED BY <1>7, <3>1, <4>2, <4>4 DEF Linked
    <3>3. \A k \in 1..Len(wire') : k = 1 \/ k = 2 \/ k = 3
      BY <3>1
    <3>4. TrueWire(wire', epoch, log, base)
      <4>1. PictureAt(seen, High, log, base)
        BY <1>1, <1>3, SnapshotIsPicture
      <4>2. Truthful(b, epoch, log, base)
        BY <1>6, <1>7 DEF Truthful
      <4>3. Truthful(c, epoch, log, base)
        BY <1>3, <1>6, <1>7, <4>1 DEF Truthful
      <4>4. Truthful(e, epoch, log, base)
        BY <1>6, <1>7 DEF Truthful
      <4>5. \A k \in 1..Len(wire') : Truthful(wire'[k], epoch, log, base)
        BY <3>1, <3>3, <4>2, <4>3, <4>4
      <4>6. ASSUME NEW k \in 1..Len(wire'), NEW l \in 1..Len(wire'), k < l
            PROVE  NotOlder(wire'[l].told, wire'[k].told)
        <5>1. wire'[k].told = Nothing \/ wire'[l].told = Nothing
          BY <1>7, <3>1, <3>3, <4>6
        <5> QED BY <5>1, NothingTypes DEF NotOlder
      <4> QED BY <4>5, <4>6 DEF TrueWire
    <3>5. Newer(wire', view) /\ Bounded(wire', Limit)
      BY <1>3, <1>7, <3>1, <3>3, NothingTypes
         DEF Newer, Bounded, NotOlder, Within
    <3>6. Sent(wire', client') = CursorOf(e)
      BY <3>1 DEF Sent
    <3>7. CursorOf(e).epoch = epoch /\ CursorOf(e).seq = High
      BY <1>7 DEF CursorOf
    <3>8. sub'.replay = {} /\ sub'.pending = {}
      BY <2>1 DEF Reading
    <3>9. \A n \in Nums(log) : n \in Nat /\ ~(n > High)
      BY <1>6, LogTypes
    <3>10. Queued(sub', High, log)
      BY <3>8, <3>9 DEF Queued
    <3>11. \A told : Ahead(sub', log, told)
      BY <3>8 DEF Ahead
    <3>12. QueueInv'
      BY <1>2, <3>6, <3>7, <3>10, <3>11 DEF QueueInv
    <3>13. WireInv'
      BY <1>2, <1>5, <3>2, <3>4, <3>5 DEF WireInv
    <3> QED BY <3>12, <3>13
  <2>2. CASE /\ wire' = <<>> /\ sub' = Reading(Replay(client.cursor))
             /\ ~MustReset(client.cursor)
    <3>1. /\ client.cursor.epoch = epoch /\ ~Expired(client.cursor)
          /\ client.cursor.seq \in Nat
      BY <1>1, <2>2, ClientFields DEF MustReset
    <3>2. Queued(sub', client.cursor.seq, log)
      BY <1>6, <2>2, <3>1, ReplayIsWhole
    <3>3. PictureAt(view, client.cursor.seq, log, base)
      BY <1>1, <3>1 DEF ViewInv
    <3>4. Ahead(sub', log, view)
      <4>1. DOMAIN view = Known
        BY <1>1, StateTypes DEF WireTypes
      <4>2. ASSUME NEW n \in sub'.replay \cup sub'.pending
            PROVE  Precedes(view, Rec(log, n))
        <5>1. n \in Nums(log) /\ n > client.cursor.seq /\ Ours(log, n)
          BY <3>2, <4>2 DEF Queued
        <5>2. ~(n <= client.cursor.seq)
          BY <1>6, <3>1, <5>1, LogTypes
        <5> QED BY <3>3, <5>1, <5>2 DEF PictureAt, Precedes
      <4> QED BY <4>2 DEF Ahead
    <3>5. Len(wire') = 0 /\ Sent(wire', client') = client.cursor
      BY <1>4, <2>2 DEF Sent
    <3>6. QueueInv'
      BY <1>2, <1>4, <3>1, <3>2, <3>4, <3>5 DEF QueueInv
    <3>7. WireInv'
      <4>1. Linked(wire', client', sub', epoch', log')
        BY <1>4, <2>2, <3>5 DEF Linked
      <4>2. /\ TrueWire(wire', epoch', log', base')
            /\ Newer(wire', view') /\ Bounded(wire', Limit')
        BY <3>5 DEF TrueWire, Newer, Bounded
      <4> QED BY <4>1, <4>2 DEF WireInv
    <3> QED BY <3>6, <3>7
  <2> QED BY <1>8, <2>1, <2>2
<1> QED BY <1>5, <1>10, <1>11, <1>12, <1>13, <1>14, <1>15 DEF FeedInv

-----------------------------------------------------------------------------
(* The stream.                                                             *)

\* A wire with one more frame.
LEMMA FrameAppended ==
  ASSUME NEW w \in Seq(FrameType), NEW f \in FrameType
  PROVE  /\ Append(w, f) \in Seq(FrameType)
         /\ Len(w) \in Nat /\ Len(Append(w, f)) = Len(w) + 1
         /\ Append(w, f)[Len(w) + 1] = f
         /\ \A k \in 1..Len(w) : Append(w, f)[k] = w[k]
         /\ Append(w, f) # <<>>
BY AppendProperties

\* A frame that may follow what was sent is linked to it.
LEMMA AppendLinked ==
  ASSUME NEW w \in Seq(FrameType), NEW f \in FrameType, NEW c, NEW s, NEW s2,
         NEW ep, NEW lg, Linked(w, c, s, ep, lg),
         f.kind \notin {"begin", "chunk"}, f.kind = "eof" => s2.state = "none",
         w = <<>> => Starts(c, f, ep, lg),
         w # <<>> => Follows(w[Len(w)], f, ep, lg)
  PROVE  Linked(Append(w, f), c, s2, ep, lg)
<1> DEFINE v == Append(w, f)
<1>1. /\ Len(w) \in Nat /\ Len(v) = Len(w) + 1 /\ v[Len(w) + 1] = f
      /\ \A k \in 1..Len(w) : v[k] = w[k]
      /\ v # <<>>
  BY FrameAppended
<1> HIDE DEF v
<1>2. ASSUME NEW k \in 1..Len(v) - 1 PROVE Follows(v[k], v[k + 1], ep, lg)
  <2>1. k \in 1..Len(w) /\ v[k] = w[k]
    BY <1>1
  <2>2. CASE k = Len(w)
    <3>1. w # <<>> /\ v[k + 1] = f
      BY <1>1, <2>1, <2>2
    <3> QED BY <2>1, <2>2, <3>1
  <2>3. CASE k # Len(w)
    <3>1. k \in 1..Len(w) - 1 /\ k + 1 \in 1..Len(w)
      BY <1>1, <2>1, <2>3
    <3> QED BY <1>1, <2>1, <3>1 DEF Linked
  <2> QED BY <2>2, <2>3
<1>3. Starts(c, v[1], ep, lg)
  <2>1. CASE w = <<>>
    <3>1. v[1] = f
      BY <1>1, <2>1
    <3> QED BY <2>1, <3>1
  <2>2. CASE w # <<>>
    <3>1. 1 \in 1..Len(w)
      BY <2>2, EmptySeq
    <3> QED BY <1>1, <2>2, <3>1 DEF Linked
  <2> QED BY <2>1, <2>2
<1>4. v[Len(v)] = f
  BY <1>1
<1>5. Linked(v, c, s2, ep, lg)
  BY <1>1, <1>2, <1>3, <1>4 DEF Linked
<1> QED BY <1>5 DEF v

\* A frame that tells the truth, and no less than those before it, keeps a wire
\* true.
LEMMA AppendTrue ==
  ASSUME NEW w \in Seq(FrameType), NEW f \in FrameType, NEW ep, NEW lg, NEW bs,
         TrueWire(w, ep, lg, bs), Truthful(f, ep, lg, bs),
         \A k \in 1..Len(w) : NotOlder(f.told, w[k].told)
  PROVE  TrueWire(Append(w, f), ep, lg, bs)
<1> DEFINE v == Append(w, f)
<1>1. /\ Len(w) \in Nat /\ Len(v) = Len(w) + 1 /\ v[Len(w) + 1] = f
      /\ \A k \in 1..Len(w) : v[k] = w[k]
  BY FrameAppended
<1> HIDE DEF v
<1>2. \A k \in 1..Len(v) : k \in 1..Len(w) \/ k = Len(w) + 1
  BY <1>1
<1>3. \A k \in 1..Len(v) : Truthful(v[k], ep, lg, bs)
  BY <1>1, <1>2 DEF TrueWire
<1>4. ASSUME NEW k \in 1..Len(v), NEW l \in 1..Len(v), k < l
      PROVE  NotOlder(v[l].told, v[k].told)
  <2>1. k \in 1..Len(w) /\ v[k] = w[k]
    BY <1>1, <1>2, <1>4
  <2>2. CASE l \in 1..Len(w)
    BY <1>1, <1>4, <2>1, <2>2 DEF TrueWire
  <2>3. CASE l = Len(w) + 1
    BY <1>1, <2>1, <2>3
  <2> QED BY <1>2, <2>2, <2>3
<1>5. TrueWire(v, ep, lg, bs)
  BY <1>3, <1>4 DEF TrueWire
<1> QED BY <1>5 DEF v

\* What compares with all its frames, and with one more, compares with all.
LEMMA AppendCompared ==
  ASSUME NEW w \in Seq(FrameType), NEW f \in FrameType
  PROVE  /\ \A told : Newer(w, told) /\ NotOlder(f.told, told)
              => Newer(Append(w, f), told)
         /\ \A limit : Bounded(w, limit) /\ Within(f.told, limit)
              => Bounded(Append(w, f), limit)
<1> DEFINE v == Append(w, f)
<1>1. /\ Len(w) \in Nat /\ Len(v) = Len(w) + 1 /\ v[Len(w) + 1] = f
      /\ \A k \in 1..Len(w) : v[k] = w[k]
  BY FrameAppended
<1> HIDE DEF v
<1>2. \A k \in 1..Len(v) : k \in 1..Len(w) \/ k = Len(w) + 1
  BY <1>1
<1>3. /\ \A told : Newer(w, told) /\ NotOlder(f.told, told) => Newer(v, told)
      /\ \A limit : Bounded(w, limit) /\ Within(f.told, limit)
              => Bounded(v, limit)
  BY <1>1, <1>2 DEF Newer, Bounded
<1> QED BY <1>3 DEF v

\* The stream takes the least number of the queue.
LEMMA YieldTakes ==
  ASSUME FeedInv, Yield
  PROVE  \E n \in sub.replay \cup sub.pending :
           /\ \A m \in sub.replay \cup sub.pending : n <= m
           /\ sub'.replay = sub.replay \ {n}
           /\ sub'.pending = sub.pending \ {n}
           /\ sub'.state = "open"
           /\ SubTypes(sub', log)
           /\ Sends(n)
<1>1. /\ SubTypes(sub, log) /\ log \in Seq(Record) /\ sub.state = "open"
      /\ QueueInv
  BY Types DEF FeedInv, BusTypes, Yield
<1>2. /\ sub.replay \subseteq Nums(log) /\ sub.pending \subseteq Nums(log)
      /\ \A m \in sub.replay, n \in sub.pending : m < n
  BY <1>1 DEF QueueInv, Queued
<1>3. \A n \in sub.replay \cup sub.pending : n \in Nat
  BY <1>1, <1>2, LogTypes
<1>4. CASE \E n \in sub.replay : /\ \A m \in sub.replay : n <= m
                                 /\ Sends(n)
                                 /\ sub' = [sub EXCEPT !.replay = @ \ {n}]
  <2>1. PICK n \in sub.replay : /\ \A m \in sub.replay : n <= m
                                /\ Sends(n)
                                /\ sub' = [sub EXCEPT !.replay = @ \ {n}]
    BY <1>4
  <2>2. SubTypes(sub', log)
    BY <1>1, <2>1, TakenTypes
  <2>3. /\ sub'.state = "open" /\ sub'.replay = sub.replay \ {n}
        /\ sub'.pending = sub.pending
    BY <1>1, <2>1 DEF SubTypes
  <2>4. n \notin sub.pending
    BY <1>2, <1>3
  <2>5. \A m \in sub.replay \cup sub.pending : n <= m
    BY <1>2, <1>3, <2>1
  <2> QED BY <2>1, <2>2, <2>3, <2>4, <2>5
<1>5. CASE \E n \in sub.pending : /\ sub.replay = {}
                                  /\ \A m \in sub.pending : n <= m
                                  /\ Sends(n)
                                  /\ sub' = [sub EXCEPT !.pending = @ \ {n}]
  <2>1. PICK n \in sub.pending : /\ sub.replay = {}
                                 /\ \A m \in sub.pending : n <= m
                                 /\ Sends(n)
                                 /\ sub' = [sub EXCEPT !.pending = @ \ {n}]
    BY <1>5
  <2>2. SubTypes(sub', log)
    BY <1>1, <2>1, TakenTypes
  <2>3. /\ sub'.state = "open" /\ sub'.replay = sub.replay
        /\ sub'.pending = sub.pending \ {n}
    BY <1>1, <2>1 DEF SubTypes
  <2> QED BY <2>1, <2>2, <2>3
<1> QED BY <1>4, <1>5 DEF Yield

\* A record tells no less than what it is not older than.
LEMMA SaysNotOlder ==
  ASSUME NEW r \in Record, r.job \in Known, NEW told, Precedes(told, r)
  PROVE  NotOlder(Says(r), told)
BY SaysTypes DEF NotOlder, Precedes

\* The next record is sent: it has the number after where the stream stood, of
\* those of the page, and is not older than anything that was told.
LEMMA YieldStep ==
  ASSUME FeedInv, Yield
  PROVE  FeedInv'
<1>1. /\ TypeOK /\ ServerInv /\ CaptureInv /\ ViewInv /\ ClientInv
      /\ WireInv /\ StagedInv /\ QueueInv
      /\ RowTypes /\ WriterTypes(writer) /\ BusTypes /\ SubTypes(sub, log)
      /\ CaptureTypes(capture)
      /\ WireTypes /\ ClientTypes(client, epoch) /\ faults \in 0..MaxFaults
      /\ WriterAgrees /\ LogOf(log, base, owed)
  BY Types DEF FeedInv, ServerInv
<1>2. /\ sub.state = "open"
      /\ UNCHANGED <<row, owed, writer, epoch, log, base, capture, client,
                     view, faults>>
  BY DEF Yield, rows, bus, page
<1>3. PICK n \in sub.replay \cup sub.pending :
        /\ \A m \in sub.replay \cup sub.pending : n <= m
        /\ sub'.replay = sub.replay \ {n}
        /\ sub'.pending = sub.pending \ {n}
        /\ sub'.state = "open"
        /\ SubTypes(sub', log)
        /\ Sends(n)
  BY YieldTakes
<1> DEFINE from == Sent(wire, client).seq
           r == Rec(log, n)
           f == Frame("event", n, Says(r))
<1>4. /\ from \in Nat /\ from <= Len(log) + 1
      /\ Sent(wire, client).epoch = epoch
      /\ Queued(sub, from, log)
      /\ Ahead(sub, log, view)
      /\ client.stage = "whole" => Ahead(sub, log, client.staged)
      /\ \A k \in 1..Len(wire) : Ahead(sub, log, wire[k].told)
  BY <1>1, <1>2, SentFits DEF QueueInv
<1>5. /\ log \in Seq(Record) /\ epoch \in Nat /\ epoch >= 1
      /\ wire \in Seq(FrameType) /\ Len(log) \in Nat
  BY <1>1 DEF BusTypes, WireTypes
<1>6. /\ n \in Nums(log) /\ n > from /\ Ours(log, n)
  BY <1>3, <1>4 DEF Queued
<1>7. /\ n \in Nat /\ n <= Len(log) + 1
      /\ r \in Record /\ r.job \in Known
      /\ r.job \in Jobs /\ r.version \in Nat
  BY <1>5, <1>6, LogTypes, RecordTypes DEF Ours
<1>8. /\ Says(r) \in Told /\ DOMAIN Says(r) = {r.job}
      /\ Says(r)[r.job] = r.version
  BY <1>7, SaysTypes
<1>9. /\ f \in FrameType /\ f.kind = "event" /\ f.epoch = epoch /\ f.seq = n
      /\ f.told = Says(r)
  BY <1>5, <1>7, <1>8, FrameTypes
<1>10. wire' = Append(wire, f)
  BY <1>3, OfTheLog DEF Sends
<1> HIDE DEF f, r, from
<1>11. wire' \in Seq(FrameType)
  BY <1>5, <1>9, <1>10, FrameAppended
<1>12. ServerInv' /\ Limit' = Limit
  <2>1. UNCHANGED <<rows, writer, bus>>
    BY <1>2 DEF rows, bus
  <2>2. writer.pc # "off" => capture'.pc = "off"
    BY <1>1, <1>2 DEF WriterAgrees
  <2> QED BY <1>1, <2>1, <2>2, SameServer
<1>13. TypeOK'
  <2>1. TypeParts'
    BY <1>1, <1>2, <1>3, <1>11 DEF TypeParts, RowTypes, BusTypes, WireTypes
  <2> QED BY <2>1, Parts, PTL
<1>14. CaptureInv'
  BY <1>1, <1>2, <1>12 DEF CaptureInv
<1>15. ViewInv'
  BY <1>1, <1>2, <1>12 DEF ViewInv
<1>16. ClientInv'
  <2>1. client.state = "streaming"
    BY <1>1, <1>2 DEF ClientInv, NoSub
  <2> QED BY <1>1, <1>2, <1>3, <2>1 DEF ClientInv
<1>17. NoneBetween(from, n, log)
  <2> SUFFICES ASSUME NEW k \in Nums(log), from < k, k < n, Ours(log, k)
               PROVE  FALSE
    BY DEF NoneBetween
  <2>1. k \in Nat
    BY <1>5, LogTypes
  <2>2. k \in sub.replay \cup sub.pending
    BY <1>4, <2>1 DEF Queued
  <2> QED BY <1>3, <1>7, <2>1, <2>2
<1>18. Linked(wire', client, sub', epoch, log)
  <2>1. CASE wire = <<>>
    <3>1. Sent(wire, client) = client.cursor /\ client.stage = "none"
      BY <1>1, <2>1 DEF Sent, WireInv, Linked
    <3>2. /\ client.cursor.epoch = epoch /\ n > client.cursor.seq
          /\ NoneBetween(client.cursor.seq, n, log)
      BY <1>4, <1>6, <1>17, <3>1 DEF from
    <3>3. Starts(client, f, epoch, log)
      BY <1>9, <3>1, <3>2 DEF Starts
    <3> QED BY <1>1, <1>5, <1>9, <1>10, <2>1, <3>3, AppendLinked DEF WireInv
  <2>2. CASE wire # <<>>
    <3>1. /\ Sent(wire, client).epoch = wire[Len(wire)].epoch
          /\ Sent(wire, client).seq = wire[Len(wire)].seq
      BY <2>2 DEF Sent, CursorOf
    <3>2. Len(wire) \in 1..Len(wire)
      BY <1>5, <2>2, EmptySeq
    <3>3. wire[Len(wire)].kind \in {"begin", "chunk", "end", "event", "eof"}
      BY <1>5, <3>2, FrameFields
    <3>4. wire[Len(wire)].kind \in {"end", "event"}
      BY <1>1, <1>2, <2>2, <3>3 DEF WireInv, Linked
    <3>5. /\ wire[Len(wire)].epoch = epoch /\ n > wire[Len(wire)].seq
          /\ NoneBetween(wire[Len(wire)].seq, n, log)
      BY <1>4, <1>6, <1>17, <3>1 DEF from
    <3>6. Follows(wire[Len(wire)], f, epoch, log)
      BY <1>9, <3>4, <3>5 DEF Follows
    <3> QED BY <1>1, <1>5, <1>9, <1>10, <2>2, <3>6, AppendLinked DEF WireInv
  <2> QED BY <2>1, <2>2
<1>19. /\ NotOlder(f.told, view)
       /\ client.stage = "whole" => NotOlder(f.told, client.staged)
       /\ \A k \in 1..Len(wire) : NotOlder(f.told, wire[k].told)
  BY <1>3, <1>4, <1>7, <1>9, SaysNotOlder DEF Ahead, r
<1>20. Truthful(f, epoch, log, base)
  BY <1>5, <1>6, <1>7, <1>9 DEF Truthful, r
<1>21. Within(f.told, Limit)
  <2>1. r.version <= owed[r.job]
    BY <1>1, <1>6 DEF LogOf, r
  <2>2. /\ owed[r.job] \in Nat /\ Limit[r.job] \in Nat
        /\ owed[r.job] <= Limit[r.job]
    BY <1>1, <1>7, RowsAreNumbers, Limits
  <2>3. r.version <= Limit[r.job]
    BY <1>7, <2>1, <2>2
  <2> QED BY <1>8, <1>9, <2>3 DEF Within
<1>22. WireInv'
  <2>1. TrueWire(wire', epoch, log, base)
    BY <1>1, <1>5, <1>9, <1>10, <1>19, <1>20, AppendTrue DEF WireInv
  <2>2. Newer(wire', view) /\ Bounded(wire', Limit)
    BY <1>1, <1>5, <1>9, <1>10, <1>19, <1>21, AppendCompared DEF WireInv
  <2> QED BY <1>2, <1>12, <1>18, <2>1, <2>2 DEF WireInv
<1>23. StagedInv'
  <2> SUFFICES ASSUME client.stage = "whole" PROVE StagedInv'
    BY <1>2 DEF StagedInv
  <2>1. Newer(wire', client.staged)
    BY <1>1, <1>5, <1>9, <1>10, <1>19, AppendCompared DEF StagedInv
  <2>2. wire'[1] = wire[1]
    <3>1. 1 \in 1..Len(wire)
      BY <1>1, <1>5, EmptySeq DEF WireInv, Linked
    <3> QED BY <1>5, <1>9, <1>10, <3>1, FrameAppended
  <2> QED BY <1>1, <1>2, <1>12, <2>1, <2>2 DEF StagedInv
<1>24. QueueInv'
  <2>1. /\ Len(wire') = Len(wire) + 1 /\ Len(wire) \in Nat /\ wire' # <<>>
        /\ wire'[Len(wire')] = f
        /\ \A k \in 1..Len(wire) : wire'[k] = wire[k]
    BY <1>5, <1>9, <1>10, FrameAppended
  <2>2. Sent(wire', client').epoch = epoch /\ Sent(wire', client').seq = n
    BY <1>9, <2>1 DEF Sent, CursorOf
  <2>3. Queued(sub', n, log)
    <3>1. ASSUME NEW m \in Nums(log)
          PROVE  m \in sub'.replay \cup sub'.pending <=> m > n /\ Ours(log, m)
      <4>1. m \in Nat
        BY <1>5, LogTypes
      <4>2. m \in sub.replay \cup sub.pending <=> m > from /\ Ours(log, m)
        BY <1>4 DEF Queued
      <4>3. m \in sub'.replay \cup sub'.pending
              <=> m \in sub.replay \cup sub.pending /\ m # n
        BY <1>3
      <4> QED BY <1>3, <1>4, <1>6, <1>7, <4>1, <4>2, <4>3
    <3> QED BY <1>3, <1>4, <3>1 DEF Queued
  <2>4. \A told : Ahead(sub, log, told) => Ahead(sub', log, told)
    BY <1>3 DEF Ahead
  <2>5. Ahead(sub', log, f.told)
    <3> SUFFICES ASSUME NEW m \in sub'.replay \cup sub'.pending
                 PROVE  Precedes(f.told, Rec(log, m))
      BY DEF Ahead
    <3>1. m \in Nums(log) /\ m > n
      BY <2>3 DEF Queued
    <3>2. m \in Nat
      BY <1>5, <3>1, LogTypes
    <3>3. Rec(log, m).job = r.job => r.version <= Rec(log, m).version
      BY <1>1, <1>6, <1>7, <3>1, <3>2 DEF LogOf, r
    <3> QED BY <1>8, <1>9, <3>3 DEF Precedes
  <2>6. ASSUME NEW k \in 1..Len(wire') PROVE Ahead(sub', log, wire'[k].told)
    <3>1. CASE k \in 1..Len(wire)
      BY <1>4, <2>1, <2>4, <3>1
    <3>2. CASE k = Len(wire')
      BY <2>1, <2>5, <3>2
    <3> QED BY <2>1, <3>1, <3>2
  <2> QED BY <1>2, <1>4, <2>2, <2>3, <2>4, <2>6 DEF QueueInv
<1> QED BY <1>12, <1>13, <1>14, <1>15, <1>16, <1>22, <1>23, <1>24 DEF FeedInv

\* The response ends, after a snapshot was sent whole.
LEMMA StreamEndsStep ==
  ASSUME FeedInv, StreamEnds
  PROVE  FeedInv'
<1>1. /\ TypeOK /\ ServerInv /\ CaptureInv /\ ViewInv /\ ClientInv
      /\ WireInv /\ StagedInv
      /\ RowTypes /\ WriterTypes(writer) /\ BusTypes /\ SubTypes(sub, log)
      /\ CaptureTypes(capture)
      /\ WireTypes /\ ClientTypes(client, epoch) /\ faults \in 0..MaxFaults
      /\ WriterAgrees
  BY Types DEF FeedInv, ServerInv
<1> DEFINE f == Frame("eof", 0, Nothing)
<1>2. /\ sub.state = "closed"
      /\ wire' = Append(wire, f) /\ sub' = NoSub
      /\ UNCHANGED <<row, owed, writer, epoch, log, base, capture, client,
                     view, faults>>
  BY DEF StreamEnds, rows, bus, page
<1>3. /\ epoch \in Nat /\ epoch >= 1
      /\ wire \in Seq(FrameType) /\ Len(log) \in Nat
  BY <1>1 DEF BusTypes, WireTypes
<1>4. /\ f \in FrameType /\ f.kind = "eof" /\ f.epoch = epoch /\ f.seq = 0
      /\ f.told = Nothing
  BY <1>3, FrameTypes, NothingTypes
<1> HIDE DEF f
<1>5. wire' \in Seq(FrameType)
  BY <1>2, <1>3, <1>4, FrameAppended
<1>6. ServerInv' /\ Limit' = Limit
  <2>1. UNCHANGED <<rows, writer, bus>>
    BY <1>2 DEF rows, bus
  <2>2. writer.pc # "off" => capture'.pc = "off"
    BY <1>1, <1>2 DEF WriterAgrees
  <2> QED BY <1>1, <2>1, <2>2, SameServer
<1>7. TypeOK'
  <2>1. SubTypes(sub', log')
    BY <1>2, FreshTypes
  <2>2. TypeParts'
    BY <1>1, <1>2, <1>5, <2>1 DEF TypeParts, RowTypes, BusTypes, WireTypes
  <2> QED BY <2>2, Parts, PTL
<1>8. CaptureInv' /\ ViewInv'
  BY <1>1, <1>2, <1>6 DEF CaptureInv, ViewInv
<1>9. sub'.state = "none" /\ sub'.replay = {} /\ sub'.pending = {}
  BY <1>2 DEF NoSub
<1>10. ClientInv'
  <2>1. client.state = "streaming"
    BY <1>1, <1>2 DEF ClientInv, NoSub
  <2> QED BY <1>1, <1>2, <1>9, <2>1 DEF ClientInv
<1>11. Linked(wire', client, sub', epoch, log)
  <2>1. CASE wire = <<>>
    <3>1. Starts(client, f, epoch, log)
      BY <1>1, <1>4, <2>1 DEF Starts, WireInv, Linked
    <3> QED BY <1>1, <1>2, <1>3, <1>4, <1>9, <2>1, <3>1, AppendLinked
            DEF WireInv
  <2>2. CASE wire # <<>>
    <3>1. Len(wire) \in 1..Len(wire)
      BY <1>3, <2>2, EmptySeq
    <3>2. wire[Len(wire)].kind \in {"begin", "chunk", "end", "event", "eof"}
      BY <1>3, <3>1, FrameFields
    <3>3. wire[Len(wire)].kind \in {"end", "event"}
      BY <1>1, <1>2, <2>2, <3>2 DEF WireInv, Linked
    <3>4. Follows(wire[Len(wire)], f, epoch, log)
      BY <1>4, <3>3 DEF Follows
    <3> QED BY <1>1, <1>2, <1>3, <1>4, <1>9, <2>2, <3>4, AppendLinked
            DEF WireInv
  <2> QED BY <2>1, <2>2
<1>12. /\ \A told : NotOlder(f.told, told)
       /\ \A limit : Within(f.told, limit)
       /\ Truthful(f, epoch, log, base)
  BY <1>3, <1>4, NothingTypes DEF NotOlder, Within, Truthful
<1>13. WireInv'
  <2>1. TrueWire(wire', epoch, log, base)
    BY <1>1, <1>2, <1>3, <1>4, <1>12, AppendTrue DEF WireInv
  <2>2. Newer(wire', view) /\ Bounded(wire', Limit)
    BY <1>1, <1>2, <1>3, <1>4, <1>12, AppendCompared DEF WireInv
  <2> QED BY <1>2, <1>6, <1>11, <2>1, <2>2 DEF WireInv
<1>14. StagedInv'
  <2> SUFFICES ASSUME client.stage = "whole" PROVE StagedInv'
    BY <1>2 DEF StagedInv
  <2>1. Newer(wire', client.staged)
    BY <1>1, <1>2, <1>3, <1>4, <1>12, AppendCompared DEF StagedInv
  <2>2. wire'[1] = wire[1]
    <3>1. 1 \in 1..Len(wire)
      BY <1>1, <1>3, EmptySeq DEF WireInv, Linked
    <3> QED BY <1>2, <1>3, <1>4, <3>1, FrameAppended
  <2> QED BY <1>1, <1>2, <1>6, <2>1, <2>2 DEF StagedInv
<1>15. QueueInv'
  BY <1>9 DEF QueueInv
<1> QED BY <1>6, <1>7, <1>8, <1>10, <1>13, <1>14, <1>15 DEF FeedInv

-----------------------------------------------------------------------------
(* Frames that are read.                                                   *)

\* A wire without its first frame.
LEMMA FrameTaken ==
  ASSUME NEW w \in Seq(FrameType), w # <<>>
  PROVE  /\ Tail(w) \in Seq(FrameType)
         /\ Len(w) \in Nat /\ Len(w) >= 1 /\ Len(Tail(w)) = Len(w) - 1
         /\ \A k \in 1..Len(w) - 1 : Tail(w)[k] = w[k + 1]
         /\ Head(w) = w[1] /\ w[1] \in FrameType
         /\ Tail(w) = <<>> <=> Len(w) = 1
<1>1. /\ Head(w) \in FrameType /\ Tail(w) \in Seq(FrameType)
      /\ Len(Tail(w)) = Len(w) - 1
      /\ \A k \in 1..Len(Tail(w)) : Tail(w)[k] = w[k + 1]
  BY HeadTailProperties
<1>2. Len(w) \in Nat /\ Len(w) # 0
  BY EmptySeq
<1>3. 1 \in 1..Len(w)
  BY <1>2
<1>4. Head(w) = w[1] /\ w[1] \in FrameType
  BY <1>3
<1>5. Tail(w) = <<>> <=> Len(Tail(w)) = 0
  BY <1>1, EmptySeq
<1> QED BY <1>1, <1>2, <1>4, <1>5

\* The rest is linked to a client that went on as the frame says.
LEMMA TailLinked ==
  ASSUME NEW w \in Seq(FrameType), w # <<>>, NEW c, NEW c2, NEW s, NEW ep,
         NEW lg, Linked(w, c, s, ep, lg),
         Len(w) = 1 => c2.stage = "none",
         Len(w) > 1 => Starts(c2, w[2], ep, lg)
  PROVE  Linked(Tail(w), c2, s, ep, lg)
<1> DEFINE v == Tail(w)
<1>1. /\ v \in Seq(FrameType)
      /\ Len(w) \in Nat /\ Len(w) >= 1 /\ Len(v) = Len(w) - 1
      /\ \A k \in 1..Len(w) - 1 : v[k] = w[k + 1]
      /\ v = <<>> <=> Len(w) = 1
  BY FrameTaken
<1> HIDE DEF v
<1>2. ASSUME NEW k \in 1..Len(v) - 1 PROVE Follows(v[k], v[k + 1], ep, lg)
  <2>1. /\ k \in 1..Len(w) - 1 /\ k + 1 \in 1..Len(w) - 1
        /\ v[k] = w[k + 1] /\ v[k + 1] = w[k + 1 + 1]
    BY <1>1
  <2> QED BY <2>1 DEF Linked
<1>3. v # <<>> => /\ Starts(c2, v[1], ep, lg)
                  /\ v[Len(v)].kind \notin {"begin", "chunk"}
                  /\ v[Len(v)].kind = "eof" => s.state = "none"
  <2> SUFFICES ASSUME v # <<>>
               PROVE  /\ Starts(c2, v[1], ep, lg)
                      /\ v[Len(v)].kind \notin {"begin", "chunk"}
                      /\ v[Len(v)].kind = "eof" => s.state = "none"
    OBVIOUS
  <2>1. Len(w) > 1 /\ 1 \in 1..Len(w) - 1 /\ Len(v) \in 1..Len(w) - 1
    BY <1>1
  <2>2. v[1] = w[2] /\ v[Len(v)] = w[Len(w)]
    BY <1>1, <2>1
  <2> QED BY <2>1, <2>2 DEF Linked
<1>4. Linked(v, c2, s, ep, lg)
  BY <1>1, <1>2, <1>3 DEF Linked
<1> QED BY <1>4 DEF v

\* What was true of all its frames is true of the rest.
LEMMA TailTrue ==
  ASSUME NEW w \in Seq(FrameType), w # <<>>, NEW ep, NEW lg, NEW bs,
         TrueWire(w, ep, lg, bs)
  PROVE  /\ TrueWire(Tail(w), ep, lg, bs)
         /\ Truthful(w[1], ep, lg, bs)
         /\ Newer(Tail(w), w[1].told)
         /\ \A told : Newer(w, told) => /\ Newer(Tail(w), told)
                                        /\ NotOlder(w[1].told, told)
         /\ \A limit : Bounded(w, limit) => /\ Bounded(Tail(w), limit)
                                            /\ Within(w[1].told, limit)
<1> DEFINE v == Tail(w)
<1>1. /\ Len(w) \in Nat /\ Len(w) >= 1 /\ Len(v) = Len(w) - 1
      /\ \A k \in 1..Len(w) - 1 : v[k] = w[k + 1]
  BY FrameTaken
<1> HIDE DEF v
<1>2. /\ 1 \in 1..Len(w)
      /\ \A k \in 1..Len(v) : /\ k + 1 \in 1..Len(w) /\ v[k] = w[k + 1]
                              /\ 1 < k + 1
  BY <1>1
<1>3. \A k, l \in 1..Len(v) : k < l => k + 1 < l + 1
  BY <1>1
<1>4. TrueWire(v, ep, lg, bs)
  BY <1>2, <1>3 DEF TrueWire
<1>5. Truthful(w[1], ep, lg, bs) /\ Newer(v, w[1].told)
  BY <1>2 DEF TrueWire, Newer
<1>6. /\ \A told : Newer(w, told) => /\ Newer(v, told)
                                     /\ NotOlder(w[1].told, told)
      /\ \A limit : Bounded(w, limit) => /\ Bounded(v, limit)
                                         /\ Within(w[1].told, limit)
  BY <1>2 DEF Newer, Bounded
<1> QED BY <1>4, <1>5, <1>6 DEF v

\* What the page shows after it was told something that is not older.
LEMMA ShownIs ==
  ASSUME view \in States, NEW told \in Told, NotOlder(told, view)
  PROVE  /\ Shown(told) \in States
         /\ DOMAIN Shown(told) = Known
         /\ \A j \in Known : view[j] <= Shown(told)[j]
         /\ told \in States => Shown(told) = told
         /\ \A limit : Within(told, limit) /\ Within(view, limit)
              => Within(Shown(told), limit)
         /\ \A other : NotOlder(other, told) /\ NotOlder(other, view)
              => NotOlder(other, Shown(told))
         /\ \A r : Precedes(told, r) /\ Precedes(view, r)
              => Precedes(Shown(told), r)
<1> DEFINE shown == Shown(told)
<1>1. /\ DOMAIN shown = Known
      /\ \A j \in Known :
           shown[j] = IF j \in DOMAIN told THEN told[j] ELSE view[j]
  BY DEF Shown
<1>2. /\ DOMAIN told \subseteq Known
      /\ \A j \in DOMAIN told : told[j] \in Nat /\ told[j] \in Versions
      /\ DOMAIN view = Known
      /\ \A j \in Known : view[j] \in Nat /\ view[j] \in Versions
  BY ToldTypes, StateTypes DEF States
<1>3. shown \in [Known -> Versions]
  BY <1>2 DEF Shown
<1>4. told \in States => shown = told
  <2> SUFFICES ASSUME told \in States PROVE shown = told
    OBVIOUS
  <2>1. DOMAIN told = Known /\ told = [j \in Known |-> told[j]]
    BY DEF States
  <2> QED BY <2>1 DEF Shown
<1> HIDE DEF shown
<1>5. \A j \in Known : view[j] <= shown[j]
  BY <1>1, <1>2 DEF NotOlder
<1>6. \A limit : Within(told, limit) /\ Within(view, limit)
        => Within(shown, limit)
  BY <1>1, <1>2 DEF Within
<1>7. \A other : NotOlder(other, told) /\ NotOlder(other, view)
        => NotOlder(other, shown)
  BY <1>1, <1>2 DEF NotOlder
<1>8. \A r : Precedes(told, r) /\ Precedes(view, r) => Precedes(shown, r)
  BY <1>1, <1>2 DEF Precedes
<1> QED BY <1>1, <1>3, <1>4, <1>5, <1>6, <1>7, <1>8 DEF shown, States

\* A page that is told the next record is a picture of the time after it.
LEMMA PictureShown ==
  ASSUME BusTypes, RowTypes, LogOf(log, base, owed), view \in States,
         NEW m \in Nat, NEW n \in Nums(log), m < n,
         PictureAt(view, m, log, base), NoneBetween(m, n, log), Ours(log, n)
  PROVE  PictureAt(Shown(Says(Rec(log, n))), n, log, base)
<1> DEFINE r == Rec(log, n)
           shown == Shown(Says(r))
<1>1. /\ log \in Seq(Record) /\ n \in Nat /\ n <= Len(log) + 1
      /\ r \in Record /\ r.job \in Known /\ r.version \in Nat
  BY LogTypes, RecordTypes DEF BusTypes, Ours
<1>2. \A j \in Known : shown[j] = IF j = r.job THEN r.version ELSE view[j]
  BY <1>1, SaysTypes DEF Shown
<1> HIDE DEF shown
<1>3. \A j \in Known : base[j] <= shown[j]
  BY <1>1, <1>2 DEF PictureAt, LogOf, r
<1>4. ASSUME NEW k \in Nums(log), Ours(log, k)
      PROVE  IF k <= n THEN Rec(log, k).version <= shown[Rec(log, k).job]
                       ELSE shown[Rec(log, k).job] <= Rec(log, k).version
  <2>1. /\ k \in Nat /\ Rec(log, k).job \in Known
        /\ Rec(log, k).version \in Nat
    BY <1>1, <1>4, LogTypes, RecordTypes DEF Ours
  <2>2. CASE Rec(log, k).job = r.job
    <3>1. shown[Rec(log, k).job] = r.version
      BY <1>2, <2>1, <2>2
    <3>2. k < n \/ k = n \/ n < k
      BY <1>1, <2>1
    <3> QED BY <1>1, <2>1, <2>2, <3>1, <3>2 DEF LogOf, r
  <2>3. CASE Rec(log, k).job # r.job
    <3>1. shown[Rec(log, k).job] = view[Rec(log, k).job]
      BY <1>2, <2>1, <2>3
    <3>2. k # n /\ (k <= n => k <= m) /\ (~(k <= n) => ~(k <= m))
      BY <1>1, <1>4, <2>1, <2>3 DEF NoneBetween, r
    <3> QED BY <1>4, <3>1, <3>2 DEF PictureAt
  <2> QED BY <2>2, <2>3
<1>5. PictureAt(shown, n, log, base)
  BY <1>1, <1>3, <1>4 DEF PictureAt
<1> QED BY <1>5 DEF shown, r

\* What a frame moves: the client goes on to the frame after it, and what is
\* shown or staged is not ahead of the queue.
LEMMA FrameRead ==
  ASSUME FeedInv, client.state = "streaming", wire # <<>>,
         wire' = Tail(wire),
         UNCHANGED <<rows, writer, bus, sub, capture, faults>>,
         ClientTypes(client', epoch), client'.state = "streaming",
         client'.failures = client.failures,
         Len(wire) = 1 => /\ client'.stage = "none"
                          /\ client'.cursor = CursorOf(wire[1]),
         Len(wire) > 1 => Starts(client', wire[2], epoch, log),
         view' \in States, Within(view', Limit), Newer(Tail(wire), view'),
         client'.cursor.epoch = epoch
           => PictureAt(view', client'.cursor.seq, log, base),
         sub.state = "open" => Ahead(sub, log, view'),
         sub.state = "open" /\ client'.stage = "whole"
           => Ahead(sub, log, client'.staged),
         StagedInv'
  PROVE  FeedInv'
<1>1. /\ TypeOK /\ ServerInv /\ CaptureInv /\ ClientInv /\ WireInv /\ QueueInv
      /\ RowTypes /\ WriterTypes(writer) /\ BusTypes /\ SubTypes(sub, log)
      /\ CaptureTypes(capture)
      /\ WireTypes /\ ClientTypes(client, epoch) /\ faults \in 0..MaxFaults
      /\ WriterAgrees
  BY Types DEF FeedInv, ServerInv
<1>2. UNCHANGED <<row, owed, writer, epoch, log, base, sub, capture, faults>>
  BY DEF rows, bus
<1>3. ServerInv' /\ Limit' = Limit
  <2>1. writer.pc # "off" => capture'.pc = "off"
    BY <1>1, <1>2 DEF WriterAgrees
  <2> QED BY <1>1, <2>1, SameServer
<1> DEFINE v == Tail(wire)
<1>4. /\ v \in Seq(FrameType)
      /\ Len(wire) \in Nat /\ Len(wire) >= 1 /\ Len(v) = Len(wire) - 1
      /\ \A k \in 1..Len(wire) - 1 : v[k] = wire[k + 1]
      /\ v = <<>> <=> Len(wire) = 1
  BY <1>1, FrameTaken DEF WireTypes
<1>5. /\ TrueWire(v, epoch, log, base) /\ Bounded(v, Limit)
      /\ Linked(v, client', sub, epoch, log)
  BY <1>1, TailTrue, TailLinked DEF WireInv, WireTypes
<1>6. wire' = v
  OBVIOUS
<1> HIDE DEF v
<1>7. TypeOK'
  <2>1. TypeParts'
    BY <1>1, <1>2, <1>4, <1>6
       DEF TypeParts, RowTypes, BusTypes, WireTypes
  <2> QED BY <2>1, Parts, PTL
<1>8. CaptureInv'
  BY <1>1, <1>2 DEF CaptureInv
<1>9. ViewInv'
  BY <1>2, <1>3 DEF ViewInv
<1>10. ClientInv'
  BY <1>1, <1>2 DEF ClientInv
<1>11. WireInv'
  BY <1>2, <1>3, <1>5, <1>6 DEF WireInv, v
<1>12. Sent(v, client') = Sent(wire, client)
  <2>1. CASE Len(wire) = 1
    BY <1>4, <2>1 DEF Sent
  <2>2. CASE Len(wire) # 1
    <3>1. v # <<>> /\ Len(v) \in 1..Len(wire) - 1 /\ Len(v) + 1 = Len(wire)
      BY <1>4, <2>2
    <3>2. v[Len(v)] = wire[Len(wire)]
      BY <1>4, <3>1
    <3> QED BY <3>1, <3>2 DEF Sent
  <2> QED BY <2>1, <2>2
<1>13. QueueInv'
  <2> SUFFICES ASSUME sub.state = "open" PROVE QueueInv'
    BY <1>2 DEF QueueInv
  <2>1. \A k \in 1..Len(v) : Ahead(sub, log, v[k].told)
    <3>1. \A k \in 1..Len(v) : k + 1 \in 1..Len(wire) /\ v[k] = wire[k + 1]
      BY <1>4
    <3> QED BY <1>1, <3>1 DEF QueueInv
  <2> QED BY <1>1, <1>2, <1>6, <1>12, <2>1 DEF QueueInv
<1> QED BY <1>3, <1>7, <1>8, <1>9, <1>10, <1>11, <1>13 DEF FeedInv
\* The kinds of frame that are read, and what is known of each.
LEMMA ReceiveCases ==
  ASSUME FeedInv, Receive
  PROVE  /\ client.state = "streaming" /\ wire # <<>> /\ wire' = Tail(wire)
         /\ UNCHANGED <<rows, writer, bus, sub, capture, faults>>
         /\ \/ /\ wire[1].kind = "begin" /\ view' = view
               /\ client' = [client EXCEPT !.stage = "begun"]
            \/ /\ wire[1].kind = "chunk" /\ view' = view
               /\ client' = [client EXCEPT !.stage = "whole",
                                           !.staged = wire[1].told]
            \/ /\ wire[1].kind = "end" /\ client.stage = "whole"
               /\ view' = Shown(client.staged)
               /\ client' = [client EXCEPT !.stage = "none",
                                           !.staged = Nothing,
                                           !.cursor = CursorOf(wire[1])]
            \/ /\ wire[1].kind = "event" /\ client.stage = "none"
               /\ wire[1].epoch = client.cursor.epoch
               /\ wire[1].seq > client.cursor.seq
               /\ wire[1].epoch = epoch
                    => NoneBetween(client.cursor.seq, wire[1].seq, log)
               /\ view' = Shown(wire[1].told)
               /\ client' = [client EXCEPT !.cursor = CursorOf(wire[1])]
<1>1. wire \in Seq(FrameType) /\ wire # <<>>
  BY Types DEF FeedInv, WireTypes, Receive
<1>2. Head(wire) = wire[1] /\ wire[1] \in FrameType
  BY <1>1, FrameTaken
<1>3. wire[1].kind \in {"begin", "chunk", "end", "event"}
  BY <1>2, FrameFields DEF Receive
<1>4. Starts(client, wire[1], epoch, log)
  BY <1>1 DEF FeedInv, WireInv, Linked
<1>5. /\ client.state = "streaming" /\ wire' = Tail(wire)
      /\ UNCHANGED <<rows, writer, bus, sub, capture, faults>>
  BY DEF Receive
<1>6. CASE wire[1].kind = "begin"
  BY <1>1, <1>2, <1>5, <1>6 DEF Receive
<1>7. CASE wire[1].kind = "chunk"
  BY <1>1, <1>2, <1>5, <1>7 DEF Receive
<1>8. CASE wire[1].kind = "end"
  <2>1. client.stage = "whole"
    BY <1>4, <1>8 DEF Starts
  <2> QED BY <1>1, <1>2, <1>5, <1>8, <2>1 DEF Receive
<1>9. CASE wire[1].kind = "event"
  <2>1. /\ client.stage = "none"
        /\ wire[1].epoch = client.cursor.epoch
        /\ wire[1].seq > client.cursor.seq
        /\ wire[1].epoch = epoch
             => NoneBetween(client.cursor.seq, wire[1].seq, log)
    BY <1>4, <1>9 DEF Starts
  <2>2. /\ view' = Shown(wire[1].told)
        /\ client' = [client EXCEPT !.cursor = CursorOf(wire[1])]
    BY <1>2, <1>9 DEF Receive
  <2> QED BY <1>1, <1>5, <1>9, <2>1, <2>2
<1> QED BY <1>3, <1>6, <1>7, <1>8, <1>9

\* The frame after the first, if there is one.
LEMMA SecondFrame ==
  ASSUME WireTypes, WireInv, wire # <<>>
  PROVE  /\ Len(wire) \in Nat /\ Len(wire) >= 1
         /\ Len(wire) > 1 => Follows(wire[1], wire[2], epoch, log)
         /\ wire[1].kind \in {"begin", "chunk"} => Len(wire) > 1
<1>1. Len(wire) \in Nat /\ Len(wire) >= 1
  BY FrameTaken DEF WireTypes
<1>2. Len(wire) > 1 => Follows(wire[1], wire[2], epoch, log)
  <2>1. Len(wire) > 1 => 1 \in 1..Len(wire) - 1
    BY <1>1
  <2> QED BY <2>1 DEF WireInv, Linked
<1>3. Len(wire) = 1 => ~(wire[1].kind \in {"begin", "chunk"})
  BY DEF WireInv, Linked
<1>4. wire[1].kind \in {"begin", "chunk"} => Len(wire) > 1
  <2>1. Len(wire) = 1 \/ Len(wire) > 1
    BY <1>1
  <2> QED BY <1>3, <2>1
<1> QED BY <1>1, <1>2, <1>4

\* A snapshot begins, or its chunk is staged.
LEMMA StagingStep ==
  ASSUME FeedInv, Receive, wire[1].kind \in {"begin", "chunk"}
  PROVE  FeedInv'
<1>1. /\ ViewInv /\ WireInv /\ QueueInv /\ CaptureInv
      /\ WireTypes /\ ClientTypes(client, epoch)
      /\ TypeOK /\ ServerInv
  BY Types DEF FeedInv
<1>2. /\ client.state = "streaming" /\ wire # <<>> /\ wire' = Tail(wire)
      /\ UNCHANGED <<rows, writer, bus, sub, capture, faults>>
      /\ view' = view
      /\ \/ /\ wire[1].kind = "begin"
            /\ client' = [client EXCEPT !.stage = "begun"]
         \/ /\ wire[1].kind = "chunk"
            /\ client' = [client EXCEPT !.stage = "whole",
                                        !.staged = wire[1].told]
  BY ReceiveCases
<1>3. /\ wire \in Seq(FrameType) /\ wire[1] \in FrameType
      /\ wire[1].told \in Told
  BY <1>1, <1>2, FrameTaken, FrameFields DEF WireTypes
<1>4. /\ ClientTypes(client', epoch) /\ client'.state = "streaming"
      /\ client'.failures = client.failures /\ client'.cursor = client.cursor
      /\ wire[1].kind = "begin" => client'.stage = "begun"
      /\ wire[1].kind = "chunk" => /\ client'.stage = "whole"
                                   /\ client'.staged = wire[1].told
  BY <1>1, <1>2, <1>3 DEF ClientTypes
<1>5. Len(wire) > 1 /\ Len(wire) # 1 /\ Follows(wire[1], wire[2], epoch, log)
  BY <1>1, <1>2, SecondFrame
<1>6. Starts(client', wire[2], epoch, log)
  BY <1>4, <1>5 DEF Follows, Starts
<1>7. /\ Truthful(wire[1], epoch, log, base)
      /\ Newer(Tail(wire), wire[1].told) /\ NotOlder(wire[1].told, view)
      /\ Newer(Tail(wire), view) /\ Within(wire[1].told, Limit)
  BY <1>1, <1>2, <1>3, TailTrue DEF WireInv
<1>8. view' \in States /\ Within(view', Limit)
  BY <1>1, <1>2 DEF WireTypes, ViewInv
<1>9. client'.cursor.epoch = epoch
        => PictureAt(view', client'.cursor.seq, log, base)
  BY <1>1, <1>2, <1>4 DEF ViewInv
<1>10. sub.state = "open" => Ahead(sub, log, view')
  BY <1>1, <1>2 DEF QueueInv
<1>11. sub.state = "open" /\ client'.stage = "whole"
         => Ahead(sub, log, client'.staged)
  <2>1. 1 \in 1..Len(wire)
    BY <1>1, <1>2, <1>5, SecondFrame
  <2> QED BY <1>1, <1>2, <1>4, <2>1 DEF QueueInv
<1>12. StagedInv'
  <2> SUFFICES ASSUME client'.stage = "whole" PROVE StagedInv'
    BY DEF StagedInv
  <2>1. wire[1].kind = "chunk" /\ client'.staged = wire[1].told
    BY <1>2, <1>4
  <2>2. wire'[1] = wire[2]
    <3>1. 1 \in 1..Len(wire) - 1
      BY <1>1, <1>2, <1>5, SecondFrame
    <3> QED BY <1>2, <1>3, <3>1, FrameTaken
  <2>3. wire[2].epoch = wire[1].epoch /\ wire[2].seq = wire[1].seq
    BY <1>5, <2>1 DEF Follows
  <2>4. UNCHANGED <<epoch, log, base>> /\ Limit' = Limit
    BY <1>2, SameLimit DEF bus, rows
  <2> QED BY <1>2, <1>7, <2>1, <2>2, <2>3, <2>4 DEF StagedInv, Truthful
<1> QED BY <1>2, <1>4, <1>5, <1>6, <1>7, <1>8, <1>9, <1>10, <1>11, <1>12,
           FrameRead

\* The page shows what it was told, of a snapshot that has ended or of an
\* event, and its cursor moves.
LEMMA ToldStep ==
  ASSUME FeedInv, Receive, wire[1].kind \in {"end", "event"},
         NEW told \in Told, view' = Shown(told),
         NotOlder(told, view), Newer(Tail(wire), told), Within(told, Limit),
         sub.state = "open" => Ahead(sub, log, told),
         wire[1].epoch = epoch
           => PictureAt(Shown(told), wire[1].seq, log, base)
  PROVE  FeedInv'
<1>1. /\ ViewInv /\ WireInv /\ QueueInv
      /\ WireTypes /\ ClientTypes(client, epoch)
  BY Types DEF FeedInv
<1>2. /\ client.state = "streaming" /\ wire # <<>> /\ wire' = Tail(wire)
      /\ UNCHANGED <<rows, writer, bus, sub, capture, faults>>
      /\ \/ client' = [client EXCEPT !.stage = "none", !.staged = Nothing,
                                     !.cursor = CursorOf(wire[1])]
         \/ /\ client.stage = "none"
            /\ client' = [client EXCEPT !.cursor = CursorOf(wire[1])]
  BY ReceiveCases
<1>3. wire \in Seq(FrameType) /\ wire[1] \in FrameType
  BY <1>1, <1>2, FrameTaken DEF WireTypes
<1>4. Truthful(wire[1], epoch, log, base) /\ Newer(Tail(wire), view)
  BY <1>1, <1>2, <1>3, TailTrue DEF WireInv
<1>5. /\ CursorOf(wire[1]) \in [epoch: 0..epoch, seq: Nat]
      /\ CursorOf(wire[1]).epoch = wire[1].epoch
      /\ CursorOf(wire[1]).seq = wire[1].seq
  <2>1. wire[1].epoch \in 0..epoch /\ wire[1].seq \in Nat
    <3>1. wire[1].epoch \in Nat /\ wire[1].seq \in Nat
      BY <1>3, FrameFields
    <3>2. epoch \in Nat
      BY Types DEF FeedInv, BusTypes
    <3> QED BY <1>4, <3>1, <3>2 DEF Truthful
  <2> QED BY <2>1 DEF CursorOf
<1>6. /\ ClientTypes(client', epoch) /\ client'.state = "streaming"
      /\ client'.failures = client.failures
      /\ client'.cursor = CursorOf(wire[1]) /\ client'.stage = "none"
  BY <1>1, <1>2, <1>5, NothingTypes DEF ClientTypes
<1>7. Len(wire) > 1 => Starts(client', wire[2], epoch, log)
  <2> SUFFICES ASSUME Len(wire) > 1
               PROVE  Starts(client', wire[2], epoch, log)
    OBVIOUS
  <2>1. Follows(wire[1], wire[2], epoch, log)
    BY <1>1, <1>2, SecondFrame
  <2> QED BY <1>5, <1>6, <2>1 DEF Follows, Starts
<1>8. /\ view' \in States /\ Within(view', Limit)
      /\ \A other : NotOlder(other, told) /\ NotOlder(other, view)
           => NotOlder(other, view')
      /\ \A r : Precedes(told, r) /\ Precedes(view, r) => Precedes(view', r)
  BY <1>1, ShownIs DEF WireTypes, ViewInv
<1>9. Newer(Tail(wire), view')
  BY <1>4, <1>8 DEF Newer
<1>10. sub.state = "open" => Ahead(sub, log, view')
  BY <1>1, <1>8 DEF QueueInv, Ahead
<1>11. client'.cursor.epoch = epoch
         => PictureAt(view', client'.cursor.seq, log, base)
  BY <1>5, <1>6
<1>12. StagedInv'
  BY <1>6 DEF StagedInv
<1> QED BY <1>2, <1>6, <1>7, <1>8, <1>9, <1>10, <1>11, <1>12, FrameRead

\* What the page is told at the end of a snapshot is what it staged.
LEMMA EndTold ==
  ASSUME FeedInv, Receive, wire[1].kind = "end"
  PROVE  /\ FeedInv'
         /\ \A j \in Known : view[j] <= view'[j]
<1> DEFINE told == client.staged
<1>1. /\ WireInv /\ QueueInv /\ StagedInv
      /\ WireTypes /\ ClientTypes(client, epoch)
  BY Types DEF FeedInv
<1>2. client.stage = "whole" /\ view' = Shown(told) /\ wire # <<>>
  BY ReceiveCases
<1>3. /\ told \in States /\ told \in Told
      /\ NotOlder(told, view) /\ Within(told, Limit)
      /\ Newer(wire, told)
      /\ wire[1].epoch = epoch => PictureAt(told, wire[1].seq, log, base)
  BY <1>1, <1>2, StateTypes DEF StagedInv
<1>4. Newer(Tail(wire), told)
  BY <1>1, <1>2, <1>3, TailTrue DEF WireInv, WireTypes
<1>5. sub.state = "open" => Ahead(sub, log, told)
  BY <1>1, <1>2 DEF QueueInv
<1> HIDE DEF told
<1>6. Shown(told) = told /\ \A j \in Known : view[j] <= Shown(told)[j]
  BY <1>1, <1>3, ShownIs DEF WireTypes
<1>7. FeedInv'
  BY <1>2, <1>3, <1>4, <1>5, <1>6, ToldStep
<1> QED BY <1>2, <1>6, <1>7

\* What it is told by an event is the record with the number of its frame.
LEMMA EventTold ==
  ASSUME FeedInv, Receive, wire[1].kind = "event"
  PROVE  /\ FeedInv'
         /\ \A j \in Known : view[j] <= view'[j]
<1> DEFINE told == wire[1].told
<1>1. /\ WireInv /\ QueueInv /\ ViewInv /\ LogOf(log, base, owed)
      /\ WireTypes /\ ClientTypes(client, epoch) /\ RowTypes /\ BusTypes
  BY Types DEF FeedInv, ServerInv
<1>2. /\ view' = Shown(told) /\ wire # <<>>
      /\ wire[1].epoch = client.cursor.epoch
      /\ wire[1].seq > client.cursor.seq
      /\ wire[1].epoch = epoch
           => NoneBetween(client.cursor.seq, wire[1].seq, log)
  BY ReceiveCases
<1>3. /\ wire \in Seq(FrameType) /\ wire[1] \in FrameType
      /\ told \in Told /\ client.cursor.seq \in Nat /\ wire[1].seq \in Nat
  BY <1>1, <1>2, FrameTaken, FrameFields, ClientFields DEF WireTypes
<1>4. /\ Truthful(wire[1], epoch, log, base)
      /\ NotOlder(told, view) /\ Newer(Tail(wire), told)
      /\ Within(told, Limit)
  BY <1>1, <1>2, <1>3, TailTrue DEF WireInv
<1>5. sub.state = "open" => Ahead(sub, log, told)
  <2>1. 1 \in 1..Len(wire)
    BY <1>2, <1>3, EmptySeq
  <2> QED BY <1>1, <2>1 DEF QueueInv
<1>6. wire[1].epoch = epoch
        => PictureAt(Shown(told), wire[1].seq, log, base)
  <2> SUFFICES ASSUME wire[1].epoch = epoch
               PROVE  PictureAt(Shown(told), wire[1].seq, log, base)
    OBVIOUS
  <2>1. /\ wire[1].seq \in Nums(log) /\ Ours(log, wire[1].seq)
        /\ told = Says(Rec(log, wire[1].seq))
    BY <1>4 DEF Truthful
  <2>2. PictureAt(view, client.cursor.seq, log, base)
    BY <1>1, <1>2 DEF ViewInv
  <2>3. client.cursor.seq < wire[1].seq
    BY <1>2, <1>3
  <2> QED BY <1>1, <1>2, <1>3, <2>1, <2>2, <2>3, PictureShown DEF WireTypes
<1> HIDE DEF told
<1>7. \A j \in Known : view[j] <= Shown(told)[j]
  BY <1>1, <1>3, <1>4, ShownIs DEF WireTypes
<1>8. FeedInv'
  BY <1>2, <1>3, <1>4, <1>5, <1>6, ToldStep
<1> QED BY <1>2, <1>7, <1>8

\* A frame is read, and no job is shown at an older version.
LEMMA ReceiveStep ==
  ASSUME FeedInv, Receive
  PROVE  /\ FeedInv'
         /\ \A j \in Known : view[j] <= view'[j]
<1>1. view \in States
  BY Types DEF FeedInv, WireTypes
<1>2. CASE wire[1].kind \in {"begin", "chunk"}
  <2>1. view' = view
    BY <1>2, ReceiveCases
  <2>2. \A j \in Known : view[j] <= view'[j]
    BY <1>1, <2>1, StateTypes
  <2> QED BY <1>2, <2>2, StagingStep
<1>3. CASE wire[1].kind = "end"
  BY <1>3, EndTold
<1>4. CASE wire[1].kind = "event"
  BY <1>4, EventTold
<1> QED BY <1>2, <1>3, <1>4, ReceiveCases

-----------------------------------------------------------------------------
(* What holds of the specification.                                        *)

\* At the start nothing was committed, told or asked for.
LEMMA FeedInit == Init => FeedInv
<1> SUFFICES ASSUME Init PROVE FeedInv
  OBVIOUS
<1>1. /\ row = [j \in Jobs |-> 0] /\ owed = row /\ base = row
      /\ writer = NoWriter /\ epoch = 1 /\ log = <<>> /\ sub = NoSub
      /\ capture = NoCapture /\ wire = <<>> /\ client = NoClient
      /\ view = [j \in Known |-> 0] /\ faults = 0
  BY DEF Init
<1>2. \A j \in Jobs : 0 \in Versions /\ 0 <= Last[j]
  <2> SUFFICES ASSUME NEW j \in Jobs PROVE 0 \in Versions /\ 0 <= Last[j]
    OBVIOUS
  <2>1. Last[j] \in Nat
    BY FeedAssumption
  <2>2. 0 \in 0..Last[j] /\ 0 <= Last[j]
    BY <2>1
  <2> QED BY <2>2 DEF Versions
<1>3. RowTypes /\ BusTypes
  BY <1>1, <1>2, EmptyLog DEF RowTypes, BusTypes
<1>4. view \in States
  BY <1>1, <1>2, FeedAssumption DEF States
<1>5. /\ client.state = "connecting" /\ client.cursor = NoCursor
      /\ client.stage = "none" /\ client.failures = 0
      /\ client.staged = Nothing
  BY <1>1 DEF NoClient
<1>6. ClientTypes(client, epoch)
  <2>1. 0 \in 0..epoch /\ 0 \in 0..Tries
    BY <1>1, FeedAssumption
  <2> QED BY <1>1, <2>1, NothingTypes DEF NoClient, NoCursor, ClientTypes
<1>7. /\ WriterTypes(writer) /\ CaptureTypes(capture) /\ SubTypes(sub, log)
  BY <1>1, FreshTypes
<1>8. TypeOK
  <2>1. wire \in Seq(FrameType) /\ faults \in 0..MaxFaults
    BY <1>1, FeedAssumption
  <2>2. TypeParts
    BY <1>3, <1>4, <1>6, <1>7, <2>1 DEF TypeParts, WireTypes
  <2> QED BY <2>2, Parts
<1>9. ServerInv
  <2>1. RowsAgree
    BY <1>1, <1>2 DEF RowsAgree
  <2>2. LogOf(log, base, owed)
    BY <1>1, EmptyLog DEF LogOf
  <2>3. WriterAgrees
    BY <1>1 DEF WriterAgrees, NoWriter, Accounted
  <2> QED BY <2>1, <2>2, <2>3 DEF ServerInv
<1>10. CaptureInv
  BY <1>1 DEF CaptureInv, NoCapture
<1>11. ViewInv
  <2>1. \A j \in Known : view[j] <= Limit[j]
    BY <1>1, FeedAssumption DEF Limit, NoWriter
  <2>2. Within(view, Limit)
    BY <1>1, <2>1 DEF Within
  <2> QED BY <1>1, <1>5, <2>2 DEF ViewInv, NoCursor
<1>12. ClientInv
  BY <1>1, <1>5, FeedAssumption DEF ClientInv, NoSub
<1>13. Len(wire) = 0
  BY <1>1
<1>14. WireInv
  <2>1. Linked(wire, client, sub, epoch, log)
    BY <1>1, <1>5, <1>13 DEF Linked
  <2>2. /\ TrueWire(wire, epoch, log, base)
        /\ Newer(wire, view) /\ Bounded(wire, Limit)
    BY <1>13 DEF TrueWire, Newer, Bounded
  <2> QED BY <2>1, <2>2 DEF WireInv
<1>15. StagedInv /\ QueueInv
  BY <1>1, <1>5 DEF StagedInv, QueueInv, NoSub
<1> QED BY <1>8, <1>9, <1>10, <1>11, <1>12, <1>14, <1>15 DEF FeedInv

\* A step that changes nothing keeps it.
LEMMA FeedStutters ==
  ASSUME FeedInv, UNCHANGED vars
  PROVE  FeedInv'
<1>1. /\ TypeOK /\ ServerInv /\ CaptureInv /\ TypeParts
      /\ WriterAgrees
  BY Types DEF FeedInv, ServerInv, TypeParts
<1>2. UNCHANGED <<row, owed, writer, epoch, log, base, sub, capture, wire,
                  client, view, faults>>
  BY DEF vars, rows, bus, page
<1>3. ServerInv' /\ Limit' = Limit
  <2>1. UNCHANGED <<rows, writer, bus>>
    BY <1>2 DEF rows, bus
  <2>2. writer.pc # "off" => capture'.pc = "off"
    BY <1>1, <1>2 DEF WriterAgrees
  <2> QED BY <1>1, <2>1, <2>2, SameServer
<1>4. TypeOK'
  <2>1. TypeParts'
    BY <1>1, <1>2 DEF TypeParts, RowTypes, BusTypes, WireTypes
  <2> QED BY <2>1, Parts, PTL
<1>5. CaptureInv'
  BY <1>1, <1>2, <1>3 DEF CaptureInv
<1>6. ViewInv' /\ ClientInv' /\ WireInv' /\ StagedInv' /\ QueueInv'
  <2>1. Limit \in [Jobs -> Nat] /\ \A j \in Jobs : Limit[j] <= Limit'[j]
    BY <1>1, <1>3, Limits
  <2> QED BY <1>2, <1>3, <2>1, PageUnseen
<1> QED BY <1>3, <1>4, <1>5, <1>6 DEF FeedInv

\* Every step keeps the invariant.
LEMMA FeedStep == FeedInv /\ [Next]_vars => FeedInv'
<1> SUFFICES ASSUME FeedInv, [Next]_vars PROVE FeedInv'
  OBVIOUS
<1>1. CASE UNCHANGED vars
  BY <1>1, FeedStutters
<1>2. ASSUME NEW j \in Jobs, Writer(j) PROVE FeedInv'
  BY <1>2, CommitStep DEF Writer
<1>3. CASE Coordinator \/ PublishFails
  BY <1>3, PublishStep, GapStep DEF Coordinator
<1>4. CASE Capture \/ Refuse
  BY <1>4, CaptureReadsStep, CaptureSubscribesStep, CaptureClosedStep,
     DisconnectSteps DEF Capture
<1>5. CASE Stream
  BY <1>5, YieldStep, StreamEndsStep DEF Stream
<1>6. CASE Client \/ Break \/ Reload
  BY <1>6, AskStep, ReceiveStep, DisconnectSteps DEF Client
<1>7. CASE Restart
  BY <1>7, RestartStep
<1> QED BY <1>1, <1>2, <1>3, <1>4, <1>5, <1>6, <1>7 DEF Next

\* The rows, the bus, the streams and the page agree in every state.
THEOREM FeedAgrees == Spec => []FeedInv
BY FeedInit, FeedStep, PTL DEF Spec

\* Every state is well typed: no queue of a reader holds more than it may, and
\* a client counts its failures up to its limit.
THEOREM FeedTyped == Spec => []TypeOK
<1>1. FeedInv => TypeOK
  BY DEF FeedInv
<1> QED BY <1>1, FeedAgrees, PTL

\* A page whose cursor is of the epoch shows all that the cursor stands for.
LEMMA CoversHolds == FeedInv => CursorCovers
<1> SUFFICES ASSUME FeedInv, client.cursor.epoch = epoch
             PROVE  Covers(view, client.cursor.seq)
  BY DEF CursorCovers
<1>1. PictureAt(view, client.cursor.seq, log, base) /\ BusTypes /\ RowTypes
      /\ view \in States /\ log \in Seq(Record)
  BY Types DEF FeedInv, ViewInv, BusTypes, WireTypes
<1>2. \A j \in Known : view[j] >= base[j]
  <2>1. \A j \in Known : view[j] \in Nat /\ base[j] \in Nat
    BY <1>1, StateTypes, RowsAreNumbers
  <2> QED BY <1>1, <2>1 DEF PictureAt
<1>3. ASSUME NEW k \in Numbers, k <= client.cursor.seq, InScope(k)
      PROVE  view[RecordAt(k).job] >= RecordAt(k).version
  <2>1. /\ k \in Nums(log) /\ Ours(log, k) /\ RecordAt(k) = Rec(log, k)
    BY <1>3, OfTheLog
  <2>2. Rec(log, k).version \in Nat /\ Rec(log, k).job \in Known
    BY <1>1, <2>1, LogTypes, RecordTypes DEF Ours
  <2>3. Rec(log, k).version <= view[Rec(log, k).job]
    BY <1>1, <1>3, <2>1 DEF PictureAt
  <2>4. view[Rec(log, k).job] \in Nat
    BY <1>1, <2>2, StateTypes
  <2> QED BY <2>1, <2>2, <2>3, <2>4
<1> QED BY <1>2, <1>3 DEF Covers

\* The first frame of a wire is one that the reducer takes.
LEMMA AcceptsHolds == FeedInv => ProtocolAgrees
<1> SUFFICES ASSUME FeedInv, client.state = "streaming", wire # <<>>
             PROVE  Accepts(Head(wire))
  BY DEF ProtocolAgrees
<1>1. wire \in Seq(FrameType) /\ Starts(client, wire[1], epoch, log)
  BY Types DEF FeedInv, WireInv, WireTypes, Linked
<1>2. Head(wire) = wire[1]
  BY <1>1, FrameTaken
<1> DEFINE f == wire[1]
<1> HIDE DEF f
<1>3. Starts(client, f, epoch, log) /\ Head(wire) = f
  BY <1>1, <1>2 DEF f
<1> QED BY <1>3 DEF Accepts, Starts

\* For any jobs, ring, queue and faults: a cursor stands for everything up to
\* it, whatever the page missed, skipped or threw away, and no frame is ever
\* rejected.
THEOREM ReadersAgree == Spec => []ReaderAgrees
<1>1. FeedInv => ReaderAgrees
  BY CoversHolds, AcceptsHolds DEF ReaderAgrees
<1> QED BY <1>1, FeedAgrees, PTL

\* A page with nothing on its way to it shows what is owed of a job.
LEMMA QuietShows ==
  ASSUME FeedInv, Quiet, NEW j \in Known
  PROVE  view[j] >= owed[j]
<1>1. /\ client.cursor.epoch = epoch
      /\ Queued(sub, client.cursor.seq, log)
      /\ sub.replay = {} /\ sub.pending = {}
  BY DEF FeedInv, QueueInv, Quiet, Sent
<1>2. /\ PictureAt(view, client.cursor.seq, log, base)
      /\ Accounted(j, log, base, owed) /\ j \in Jobs
  BY <1>1, FeedAssumption
     DEF FeedInv, ViewInv, ServerInv, WriterAgrees, Quiet
<1>3. /\ RowTypes /\ BusTypes /\ log \in Seq(Record)
      /\ view[j] \in Nat /\ owed[j] \in Nat /\ base[j] \in Nat
      /\ client.cursor.seq \in Nat
  BY <1>2, Types, StateTypes, RowsAreNumbers, ClientFields
     DEF FeedInv, WireTypes, BusTypes
<1>4. CASE owed[j] = base[j]
  BY <1>2, <1>3, <1>4 DEF PictureAt
<1>5. CASE \E n \in Nums(log) : Rec(log, n) = [job |-> j, version |-> owed[j]]
  <2>1. PICK n \in Nums(log) : Rec(log, n) = [job |-> j, version |-> owed[j]]
    BY <1>5
  <2>2. Ours(log, n) /\ Rec(log, n).job = j /\ Rec(log, n).version = owed[j]
    BY <2>1 DEF Ours
  <2>3. n \in Nat /\ n <= client.cursor.seq
    <3>1. n \in Nat /\ ~(n > client.cursor.seq)
      BY <1>1, <1>3, <2>2, LogTypes DEF Queued
    <3> QED BY <1>3, <3>1
  <2>4. owed[j] <= view[j]
    BY <1>2, <2>2, <2>3 DEF PictureAt
  <2> QED BY <1>3, <2>4
<1> QED BY <1>2, <1>4, <1>5 DEF Accounted

\* No event is lost in silence: a page that has read all there is shows every
\* coordinated commit of its jobs.
THEOREM ViewsAreCurrent == Spec => []ViewIsCurrent
<1>1. FeedInv => ViewIsCurrent
  BY QuietShows DEF ViewIsCurrent
<1> QED BY <1>1, FeedAgrees, PTL

\* The types of the page follow.
LEMMA WireIsTyped == FeedInv => WireTypes
BY Types DEF FeedInv

\* Only a frame changes what the page shows.
LEMMA ViewsGrow ==
  ASSUME FeedInv, [Next]_vars, NEW j \in Known
  PROVE  view'[j] >= view[j]
<1>1. view \in States
  BY Types DEF FeedInv, WireTypes
<1>2. view[j] \in Nat
  BY <1>1, StateTypes
<1>3. CASE view' = view
  BY <1>2, <1>3
<1>4. CASE Receive
  <2>1. FeedInv' /\ view[j] <= view'[j]
    BY <1>4, ReceiveStep
  <2>2. view' \in States
    <3>1. WireTypes'
      BY <2>1, WireIsTyped, PTL
    <3> QED BY <3>1 DEF WireTypes
  <2>3. view'[j] \in Nat
    BY <2>2, StateTypes
  <2> QED BY <1>2, <2>1, <2>3
<1>5. ASSUME NEW k \in Jobs, Writer(k) PROVE view' = view
  BY <1>5 DEF Writer, CommitEvent, CommitInvalidate, CommitUncertain, Write,
              page
<1>6. CASE Coordinator \/ PublishFails
  BY <1>6, <1>3 DEF Coordinator, Publish, Invalidate, PublishFails, page
<1>7. CASE Capture \/ Refuse \/ Stream
  BY <1>7, <1>3 DEF Capture, CaptureReads, CaptureSubscribes, CaptureClosed,
                    Refuse, Stream, Yield, StreamEnds, page
<1>8. CASE Ask \/ ReceiveEnd \/ Break \/ Reload \/ Restart
  BY <1>8, <1>3 DEF Ask, ReceiveEnd, Break, Reload, Restart
<1>9. CASE UNCHANGED vars
  BY <1>3, <1>9 DEF vars, page
<1> QED BY <1>3, <1>4, <1>5, <1>6, <1>7, <1>8, <1>9 DEF Next, Client

\* A page never goes back to an older state of a job, over snapshots, replays,
\* gaps and restarts.
THEOREM NeverGoesBack == Spec => NeverBack
<1>1. FeedInv /\ [Next]_vars => [\A j \in Known : view'[j] >= view[j]]_vars
  BY ViewsGrow
<1> QED BY <1>1, FeedAgrees, PTL DEF Spec, NeverBack

-----------------------------------------------------------------------------
(* One subscription.  The fields of it keep their types.                   *)

\* An empty queue is a queue.
LEMMA NothingWaits ==
  ASSUME NEW limit \in Nat
  PROVE  <<>> \in Seq(1..Records) /\ Len(<<>>) <= limit
OBVIOUS

\* A wake-up leaves flags that are flags.
LEMMA WakeTypes ==
  ASSUME scheduled \in BOOLEAN, waiting \in BOOLEAN, Wake
  PROVE  scheduled' \in BOOLEAN /\ waiting' \in BOOLEAN
BY DEF Wake

\* The fields of a subscription keep their types, and neither queue outgrows
\* its limit: the ring's capacity and the records that may wait.
THEOREM SubscriptionTypes == SubscriptionSpec => []SubscriptionTypeOK
<1>1. SubscriptionInit => SubscriptionTypeOK
  <2> SUFFICES ASSUME SubscriptionInit PROVE SubscriptionTypeOK
    OBVIOUS
  <2>1. published \in Nat
    BY SubscriptionAssumption DEF SubscriptionInit
  <2>2. [k \in 1..published |-> k] \in Seq(1..Records)
    BY <2>1, SubscriptionAssumption DEF SubscriptionInit
  <2>3. Len([k \in 1..published |-> k]) = published
    BY <2>1
  <2>4. replay \in Seq(1..Records) /\ Len(replay) <= Replayable
    BY <2>2, <2>3 DEF SubscriptionInit
  <2>5. pending \in Seq(1..Records) /\ Len(pending) <= Size
    BY NothingWaits, SubscriptionAssumption DEF SubscriptionInit
  <2>6. published \in 0..Records /\ taken \in 0..Records
    BY SubscriptionAssumption DEF SubscriptionInit
  <2>7. /\ closed \in BOOLEAN /\ event \in BOOLEAN /\ waiting \in BOOLEAN
        /\ scheduled \in BOOLEAN /\ leaving \in BOOLEAN /\ loop \in BOOLEAN
    BY DEF SubscriptionInit
  <2>8. reader \in {"idle", "next", "wait", "woken", "gone"}
    BY DEF SubscriptionInit
  <2> QED BY <2>4, <2>5, <2>6, <2>7, <2>8 DEF SubscriptionTypeOK
<1>2. SubscriptionTypeOK /\ [SubscriptionNext]_readerVars
        => SubscriptionTypeOK'
  <2> SUFFICES ASSUME SubscriptionTypeOK, [SubscriptionNext]_readerVars
               PROVE  SubscriptionTypeOK'
    OBVIOUS
  <2> USE SubscriptionAssumption DEF SubscriptionTypeOK
  <2>1. CASE Offer
    <3>1. published + 1 \in 1..Records
      BY <2>1 DEF Offer
    <3>2. CASE Empty
      <4>1. /\ replay' \in Seq(1..Records) /\ Len(replay') <= Replayable
            /\ pending' \in Seq(1..Records) /\ Len(pending') <= Size
        BY <3>2, NothingWaits DEF Empty
      <4>2. scheduled' \in BOOLEAN /\ waiting' \in BOOLEAN
        <5>1. CASE WakeFails
          BY <2>1, <5>1 DEF Offer
        <5>2. CASE Wake
          BY <5>2, WakeTypes
        <5> QED BY <2>1, <5>1, <5>2 DEF Offer
      <4> QED BY <2>1, <3>1, <3>2, <4>1, <4>2 DEF Offer, Empty
    <3>3. CASE /\ Len(pending) < Size
               /\ pending' = Append(pending, published + 1)
               /\ UNCHANGED <<replay, closed>>
               /\ Wake
      <4>1. pending' \in Seq(1..Records) /\ Len(pending') = Len(pending) + 1
        BY <3>1, <3>3, AppendProperties
      <4>2. Len(pending') <= Size
        BY <3>3, <4>1
      <4> QED BY <2>1, <3>1, <3>3, <4>1, <4>2 DEF Offer, Wake
    <3> QED BY <2>1, <3>2, <3>3 DEF Offer
  <2>2. CASE CloseLocked
    BY <2>2, NothingWaits, WakeTypes DEF CloseLocked, Empty
  <2>3. CASE Notify
    BY <2>3 DEF Notify, queues
  <2>4. CASE TakeReplay
    <3>1. /\ Head(replay) \in 1..Records
          /\ replay' \in Seq(1..Records)
          /\ Len(replay') = Len(replay) - 1
      BY <2>4, HeadTailProperties DEF TakeReplay
    <3> QED BY <2>4, <3>1 DEF TakeReplay, Return, flags
  <2>5. CASE TakePending
    <3>1. /\ Head(pending) \in 1..Records
          /\ pending' \in Seq(1..Records)
          /\ Len(pending') = Len(pending) - 1
      BY <2>5, HeadTailProperties DEF TakePending
    <3> QED BY <2>5, <3>1 DEF TakePending, Return, flags
  <2>6. CASE CallNext \/ Await \/ Resume \/ LookAgain \/ Stop \/ Cancelled
    BY <2>6 DEF CallNext, Await, Resume, LookAgain, Stop, Cancelled,
                queues, flags
  <2>7. CASE Leave
    BY <2>7 DEF Leave, Empty, Wake
  <2>8. CASE LoopCloses
    BY <2>8 DEF LoopCloses, queues, flags
  <2>9. CASE UNCHANGED readerVars
    BY <2>9 DEF readerVars, queues, flags
  <2> QED BY <2>1, <2>2, <2>3, <2>4, <2>5, <2>6, <2>7, <2>8, <2>9
          DEF SubscriptionNext, Threads, Reader
<1> QED BY <1>1, <1>2, PTL DEF SubscriptionSpec

-----------------------------------------------------------------------------
(* Its reader loses no wake-up.                                            *)

\* While the loop runs, a suspended reader is known to wait: the flag is
\* raised before the lock is released and lowered only when it is awake.
Announced == loop /\ reader \in {"wait", "woken"} => waiting

\* A reader that sleeps while there is something for it has been notified, or
\* the callback that notifies it is scheduled.  Alone this is not inductive: a
\* record wakes only a reader whose flag is up (Announced).
THEOREM WakeupsArrive == SubscriptionSpec => []NoLostWakeup
<1>1. SubscriptionInit => Announced /\ NoLostWakeup
  BY DEF SubscriptionInit, Announced, NoLostWakeup
<1>2. SubscriptionTypeOK /\ Announced /\ NoLostWakeup
      /\ [SubscriptionNext]_readerVars
        => (Announced /\ NoLostWakeup)'
  <2> SUFFICES ASSUME SubscriptionTypeOK, Announced, NoLostWakeup,
                      [SubscriptionNext]_readerVars
               PROVE  (Announced /\ NoLostWakeup)'
    OBVIOUS
  <2> USE DEF Announced, NoLostWakeup
  <2>1. CASE Offer
    <3>1. CASE WakeFails
      BY <2>1, <3>1 DEF Offer, WakeFails
    <3>2. CASE ~WakeFails
      BY <2>1, <3>2 DEF Offer, Wake, SubscriptionTypeOK
    <3> QED BY <3>1, <3>2
  <2>2. CASE CloseLocked
    BY <2>2 DEF CloseLocked, WakeFails, Wake, SubscriptionTypeOK
  <2>3. CASE Notify
    BY <2>3 DEF Notify, queues
  <2>4. CASE TakeReplay \/ TakePending
    BY <2>4 DEF TakeReplay, TakePending, Return, flags
  <2>5. CASE Await
    BY <2>5 DEF Await, queues
  <2>6. CASE CallNext \/ Resume \/ LookAgain \/ Stop \/ Cancelled
    BY <2>6 DEF CallNext, Resume, LookAgain, Stop, Cancelled, queues, flags
  <2>7. CASE Leave
    BY <2>7 DEF Leave, Wake, SubscriptionTypeOK
  <2>8. CASE LoopCloses
    BY <2>8 DEF LoopCloses
  <2>9. CASE UNCHANGED readerVars
    BY <2>9 DEF readerVars, queues, flags
  <2> QED BY <2>1, <2>2, <2>3, <2>4, <2>5, <2>6, <2>7, <2>8, <2>9
          DEF SubscriptionNext, Threads, Reader
<1> QED BY <1>1, <1>2, SubscriptionTypes, PTL DEF SubscriptionSpec

-----------------------------------------------------------------------------
(* It is a mailbox.                                                        *)

\* A closed subscription holds nothing.
ClosedIsEmpty == closed => replay = <<>> /\ pending = <<>>

LEMMA ClosedStaysEmpty ==
  ASSUME SubscriptionTypeOK, ClosedIsEmpty, [SubscriptionNext]_readerVars
  PROVE  ClosedIsEmpty'
<1> USE DEF ClosedIsEmpty
<1>1. CASE Offer
  BY <1>1 DEF Offer, Empty
<1>2. CASE CloseLocked \/ Leave
  BY <1>2 DEF CloseLocked, Leave, Empty
<1>3. CASE TakeReplay \/ TakePending
  BY <1>3 DEF TakeReplay, TakePending, Return
<1>4. CASE Notify \/ CallNext \/ Await \/ Resume \/ LookAgain \/ Stop
           \/ Cancelled \/ LoopCloses
  BY <1>4 DEF Notify, CallNext, Await, Resume, LookAgain, Stop, Cancelled,
              LoopCloses, queues
<1>5. CASE UNCHANGED readerVars
  BY <1>5 DEF readerVars, queues
<1> QED BY <1>1, <1>2, <1>3, <1>4, <1>5 DEF SubscriptionNext, Threads, Reader

\* Taking the head of two queues in a row takes it from the first that has one.
LEMMA HeadOfTwo ==
  ASSUME NEW S, NEW s \in Seq(S), NEW t \in Seq(S)
  PROVE  /\ s # <<>> => /\ s \o t # <<>>
                        /\ Head(s \o t) = Head(s)
                        /\ Tail(s \o t) = Tail(s) \o t
         /\ s = <<>> => s \o t = t
<1>1. CASE s # <<>>
  <2>1. s \o t \in Seq(S) /\ Len(s \o t) = Len(s) + Len(t) /\ Len(s) > 0
    BY <1>1, ConcatProperties, EmptySeq
  <2>2. s \o t # <<>>
    BY <2>1
  <2>3. Head(s \o t) = Head(s)
    BY <2>1, ConcatProperties
  <2>4. Tail(s \o t) = Tail(s) \o t
    BY <1>1, <2>1
  <2> QED BY <1>1, <2>2, <2>3, <2>4
<1>2. CASE s = <<>>
  BY <1>2, ConcatEmptySeq
<1> QED BY <1>1, <1>2

\* Every step of a subscription is a step of the mailbox or none of its
\* business.
LEMMA MailboxStep ==
  ASSUME SubscriptionTypeOK, ClosedIsEmpty, [SubscriptionNext]_readerVars
  PROVE  [Box!MailboxNext]_Box!boxVars
<1> USE DEF Box!boxVars, Box!MailboxNext
<1>1. CASE Offer
  <2>1. CASE Empty
    <3>1. replay' \o pending' = <<>>
      BY <2>1, ConcatEmptySeq DEF Empty
    <3> QED BY <1>1, <2>1, <3>1 DEF Offer, Empty, Box!Put, Box!Shut
  <2>2. CASE /\ pending' = Append(pending, published + 1)
             /\ UNCHANGED <<replay, closed>>
    <3>1. published + 1 \in 1..Records
      BY <1>1, SubscriptionAssumption DEF Offer, SubscriptionTypeOK
    <3>2. replay \o Append(pending, published + 1)
            = Append(replay \o pending, published + 1)
      BY <3>1 DEF SubscriptionTypeOK
    <3> QED BY <1>1, <2>2, <3>2 DEF Offer, Box!Put
  <2> QED BY <1>1, <2>1, <2>2 DEF Offer
<1>2. CASE CloseLocked \/ Leave
  <2>1. replay' \o pending' = <<>>
    BY <1>2, ConcatEmptySeq DEF CloseLocked, Leave, Empty
  <2> QED BY <1>2, <2>1 DEF CloseLocked, Leave, Empty, Box!Close, Box!Shut
<1>3. CASE TakeReplay
  <2>1. /\ replay \o pending # <<>>
        /\ Head(replay \o pending) = Head(replay)
        /\ Tail(replay \o pending) = Tail(replay) \o pending
    BY <1>3, HeadOfTwo DEF TakeReplay, SubscriptionTypeOK
  <2> QED BY <1>3, <2>1 DEF TakeReplay, Return, Box!Take
<1>4. CASE TakePending
  <2>1. replay \o pending = pending
    BY <1>4, HeadOfTwo DEF TakePending, SubscriptionTypeOK
  <2>2. replay \o Tail(pending) = Tail(pending)
    BY <1>4, HeadOfTwo DEF TakePending, SubscriptionTypeOK
  <2> QED BY <1>4, <2>1, <2>2 DEF TakePending, Return, Box!Take
<1>5. CASE Notify \/ CallNext \/ Await \/ Resume \/ LookAgain \/ Stop
           \/ Cancelled \/ LoopCloses
  BY <1>5 DEF Notify, CallNext, Await, Resume, LookAgain, Stop, Cancelled,
              LoopCloses, queues
<1>6. CASE UNCHANGED readerVars
  BY <1>6 DEF readerVars, queues
<1> QED BY <1>1, <1>2, <1>3, <1>4, <1>5, <1>6
        DEF SubscriptionNext, Threads, Reader

\* Whatever threads, callbacks and the reader do, records come out in order
\* and without gaps until the subscription is closed, which is final.
THEOREM SubscriptionIsAMailbox == SubscriptionSpec => KeepsMailbox
<1>1. SubscriptionInit => Box!MailboxInit
  <2> SUFFICES ASSUME SubscriptionInit PROVE Box!MailboxInit
    OBVIOUS
  <2>1. replay \in Seq(1..published)
    BY SubscriptionAssumption DEF SubscriptionInit
  <2>2. replay \o pending = replay
    BY <2>1, ConcatEmptySeq DEF SubscriptionInit
  <2> QED BY <2>2 DEF SubscriptionInit, Box!MailboxInit
<1>2. SubscriptionInit => ClosedIsEmpty
  BY DEF SubscriptionInit, ClosedIsEmpty
<1> QED BY <1>1, <1>2, SubscriptionTypes, ClosedStaysEmpty, MailboxStep, PTL
        DEF SubscriptionSpec, KeepsMailbox, Box!MailboxSpec
=============================================================================
