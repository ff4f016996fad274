# A verification project for the music studio

The studio is a local application: a FastAPI server (`apps/server`) with a SQLite
database, engines that generate music in processes of their own
(`apps/engines`), a CPU worker that post-processes what they produce, and a web
page (`apps/web`) that follows the work over server-sent events. This directory
holds TLA+ models of the parts where steps of several actors, crashes and
repeated requests meet, the TLC runs that check them, and proofs for TLAPS.

## 1. The system

### 1.1 Components

| Component | State | Operations | What makes it correct |
|---|---|---|---|
| Job queue (`queue/admission, dispatcher, runtime, recovery, retry, cancellation, terminal_takes, events`) | rows `job`, `job_attempt`, `take`; one main loop; one observer coroutine per attempt; `suspended` and `_cancel_sent` in memory | reserve, retry, capture provenance, POST, acknowledge, observe (health, status, stream), resend, declare lost, cancel, recover at start | lane limits; attempts form a chain; a committed cancellation is never turned into a success; nothing is generated twice into one directory; every observed attempt ends |
| Generation engine (`engine_common/server, runtime, worker`) | attempts and their events, `active`, `maintenance`, the supervisor's child and its pipes, `tmp/<attempt>` | submit, status, events, cancel, load, unload; one thread per attempt | one user of the child at a time; messages of an older run are never read; a stream that ends has delivered everything, with its terminal event unless something failed or was cancelled; every run ends unless the disk fails |
| Event feed (`publication, queue/events.EventBus, event_routes, event_snapshot, sse`) | epoch, sequence, ring of 256 records, up to 32 subscribers with 64 pending records | commit and publish under a barrier, capture of a snapshot, replay, gap, overflow | a page that has read everything shows the committed rows; a reader never skips a record it should have had |
| Event client (`web/lib/events.ts, event-reducer.ts, event-session.ts`, `app/create/page.tsx`) | cursor, staged snapshot, failures in a row | open, accept, reconnect, change of scope, renew the session | the view never goes back; a broken snapshot is never shown |
| CPU worker (`worker/execution, publications, planning, packages`) | rows of post, execution, intents, takes and analyses; staging and final directories, marker files; a thread per post, custody of its process group | claim, resume, reserve, launch, receive, publish (marker, prepare, rename, commit), finish, fail, cancel, clean at start | a package is published once or not at all, across crashes between any two steps; never two groups on one take; slots come back |
| Custody and pipe protocol (`worker/custody*, pipe_protocol, audio_child`) | an owner thread, a supervisor process, a leader and its FFmpeg; a control socket, a liveness pipe, a registry socket, standard streams | hold at a gate, release, enter births and reaps, seal, stop, confirm, give a receipt | a slot is given back only when every process was waited for; a group that ended well is recognised; nobody waits for ever |
| Chains and manual retry (`queue/chains, manual_retry`) | job graph: generation, post.audio, audio.beats; takes and their parents; what a retry read before it awaited | create, unblock, reject dependents, retry, delete, restore | a take is given away once; dependents are judged neither too early nor never |
| Terminal sweeper (`queue/cleanup`) | pages and retries in memory, directories of ended attempts | bounded pass | it removes only what nobody can use any more |
| Resolver and VRAM residency (`queue/resolver, dispatcher`) | `resident` in memory, catalogs; what each engine holds | preflight, unload, load, resend | one model on the card; no job waits for ever |
| Snapshots (`snapshots, closure_rows`, triggers of `fix1`, `fix2`) | a mark and a generation of each song, members, a clock; `song.json` files | pass after a commit, publication of one song, pass of the start | an unmarked song is current on disk; no file goes back |
| Staged inputs, references, provenance (`queue/inputs, references, provenance`) | files by digest, provenance rows | stage, verify, capture | the request that is sent is the one that was frozen |
| Backup (`backup`), local sessions, security (`local_sessions, security`) | copies; a bounded table of sessions | copy, issue, renew, expire | an expired session opens nothing; the table never exceeds its limit |
| HTTP API, start and stop (`domain_routes, main, db`) | rows of songs and takes | create, rename, delete, restore | each request is one transaction |
| Schema and migrations, adapters, shared packages, user interface, scripts | — | — | see section 7 |

### 1.2 How they interact

The server's main loop sends at most one attempt at a time: it screens a job
(health of the engines), makes room on the card, claims the job in a
transaction, loads the model, captures provenance, POSTs. An observer coroutine
per attempt then asks for health and status, streams events and commits each of
them. Both sides can die: the server recovers from its rows, an engine forgets
everything but its directory. A generation that succeeds unblocks its
`post.audio`, which the CPU worker claims and executes in a thread with a
process group of its own; its takes and their analyses follow from it. A
cancellation is one row committed by the API; the main loop later tells the
engine or the thread. Every committed change is published to the bus, from which
the pages read, and marks the songs whose `song.json` must be written again.

### 1.3 What is hard here

* Reads before an `await`, used after it: health before status, the preflight
  before the reservation, the row before the POST, the failed takes before a
  retry asks the resolver.
* A POST whose sender gave up is still being handled, and so are a load and an
  unload.
* The same identifier is sent again after a restart of the engine, so sequence
  numbers start over and a directory may be left from the first time.
* Three retries, an offload mode, a limit that is lowered and a cancellation, in
  any order.
* An engine's HTTP handlers, its run thread and its child share one supervisor
  and two pipes whose contents outlive the request they belong to.
* A take is published by five steps on disk and in the database, each of which
  may be the last one before a restart.
* What the dispatcher remembers to be on the card is only ever compared with
  what the engines show.
* A file is compared with counters that were read before it was written.
* Four processes agree on the end of a group over two sockets and three pipes,
  with stops, ends and time-outs that cross each other.

`PROJECT.json` lists each of these hazards at its line.

## 2. Modules

| Module | Models |
|---|---|
| `EngineContract` | What an engine promises through `/v1`: how an attempt advances and what it leaves on disk. The abstract specification between the two sides. |
| `JobQueue` | The server's side, composed with engines that keep `EngineContract` (`E == INSTANCE EngineContract`). |
| `EngineServer` | The engine's side: handlers, run thread, supervisor, child, pipes; implements `EngineContract`. |
| `JobQueueProofs` | Type correctness and safety of `JobQueue`: its rows, and how they agree with the memories of the server and the engines, proved. |
| `EngineServerProofs` | Safety of `EngineServer` and its refinement of `EngineContract`, proved. |
| `EventFeed` | From a committed row to the page: coordinator, bus, capture of a snapshot, stream, reducer, reconnection. |
| `Mailbox` | What one subscription promises its reader: an abstract queue that may be shut. |
| `Subscription` | The subscription itself: threads that publish, a coroutine that reads, and the notification between them; implements `Mailbox`. |
| `EventFeedProofs` | Safety of `EventFeed`, safety of `Subscription` and its refinement of `Mailbox`, proved. |
| `TakeLedger` | What the CPU worker promises of the takes: placed once, shown only after, settled for good. |
| `CpuPublication` | The CPU worker with its process groups, the disk and restarts; implements `TakeLedger`. |
| `CpuPublicationProofs` | Safety and the refinement of `CpuPublication`, proved. |
| `Chains` | The chains of jobs of one song, manual retries and the bin. |
| `ChainsProofs` | Safety of `Chains`, proved. |
| `Residency` | Which model is on the card, and what the dispatcher believes. |
| `ResidencyProofs` | Safety of `Residency`, proved. |
| `Snapshots` | The files `song.json` and the marks of their songs. |
| `SnapshotsProofs` | Safety of `Snapshots`, proved. |
| `Custody` | The custody of one post's process group on Linux: owner, supervisor, leader, FFmpeg. |
| `CustodyProofs` | Safety of `Custody`, proved. |
| `MC...` | Values for TLC. |

How they fit together: `JobQueue` takes an engine for what `EngineContract` says
of it and `EngineServer` shows that it is. `JobQueue` stops at the end of a job;
`Chains` takes the end of a generation and of a post for single transactions and
follows what the rest of the chain sees of them; `CpuPublication` is the inside
of a post and `Custody` the inside of its process group, of which
`CpuPublication` has the outcomes (closed, unknown, outlived). `Residency` looks
at the same main loop as `JobQueue` with the rows reduced to their status and
the card in full.

### 2.1 `JobQueue`

`job`, `att` and `take` are the durable rows; `output` the directories
`tmp/<attempt>`; `step` the place of the main loop in sending a job; `worker`
the observer of an attempt with what it saw this round (`cancelled`, `idle`) and
whether it already resent (`resent`); `suspended` and `cancelSent` the sets of
the same name in memory; `remote` the engine's knowledge; `wire` the POSTs
whose sender waits.

Every transaction begins by taking SQLite's writer lock (`admission.writer`), so
it is one action. An `await` between two transactions or two HTTP exchanges is
a boundary between actions.

| Action | Code |
|---|---|
| `Screen`, `Reserve`, `ReserveRetry`, `Capture`, `Send`, `Acknowledge`, `SendStops`, `SendFails` | the stages of `dispatcher._dispatch_page` and `runtime._retry_page` |
| `CloseVram` | `retry.close_impossible_vram` |
| `Spawn`, `Retire`, `Ask`, `Answer`, `Suspend`, `AcceptLost`, `Repeat`, `PrepareResend`, `ResendRefused`, `Resend`, `ResendAcknowledged`, `AcceptProgress`, `AcceptEnd`, `StreamEnds`, `ObserverFails` | `runtime._consume` between two awaits |
| `RequestCancel`, `SendCancel` | `cancellation.request`, `runtime._cancel` |
| `ServerCrash` | loss of memory, and `recovery.startup` |
| `Deliver`, `Engine`, `EngineFails`, `EngineCrash` | the network and the engine, by `EngineContract` |

Assumptions of the model. The engine begins to handle a POST while its sender
waits, or never: a request that is dropped before it is read is not delivered
later. An exception the coroutine does not list ends it and the loop spawns it
again; this is a crash of the observer alone, not modelled apart from
`ServerCrash`. An orderly `close()` of the server is the same as `ServerCrash`.
Which candidate is next is any of those allowed; routes and frozen payloads are
fixed per job. `StreamEnds` is a stream that was read to its end and had no
terminal event: the observer raises and begins its next round. A status that
shows a terminal state with a finished run leads to the stream as well; one that
never had a terminal event is asked for ever.

### 2.2 `EngineServer`

A block under the engine's lock is one action, with one exception: a DELETE
looks whether the child is alive and writes to it, both with the lock held, and
the child may die in between (`Cancel`, `CancelSends`; `deleting` is the DELETE
that holds the lock). Validation, loading, reading the child's messages and
removing a directory happen outside of the lock. `post` and `admin` are the
handlers in flight; `run` the thread of each attempt with the stage it reached;
`loaded` and `process` the supervisor's view; `child`, `inbox` and `messages` the
child and the two pipes. A model stands for a pair of model and mode. Time limits
may pass at any moment; a child may die, and the whole process may.

`unload` is three steps: the child is stopped and waited for (`Terminates`), its
pipes are closed and it is forgotten (`Closes`), or it raises and forgets nothing
(`Raises`). It raises when the child is not gone five seconds after it was
killed, or when the close of its input has to flush what a failed write left in
the buffer (`unflushed`). In an except clause of the run that means that no
terminal event is written while the attempt is still finished; elsewhere it is
one more error (`RunUnloads`, `AdminStep`). The finally clause removes the
directory and ends the run (`RunCloses`), or the removal raises, and the attempt
stays the active one of an engine that answers BUSY until it is restarted
(`RunJams`).

### 2.3 The composition

`EngineServer` is checked to implement `EngineContract` under the mapping
`State(i)` (`KeepsContract`), and `JobQueue` is checked and proved against
`EngineContract`. The contract forgets how messages travel and keeps what the
server can observe and what is on disk; it also allows an engine to fail at any
point, so every behaviour of the real engine that the server can see is
included. Two of these are not what `contrato-engines.md` promises: a run may end
without a terminal event (`Abandon`), and it may never end (`Jam`). A run is
cancelled when somebody asked for it, or when somebody asked for an earlier
attempt that was abandoned: its DELETE reaches whoever has the child (`Meant`).

### 2.4 `EventFeed`

A row is the number of times it changed in a way a page can see. `row` is what
is committed, `owed` (history) what a writer that uses the coordinator
committed; they differ because reservations, recovery and the verdicts of
admission commit without it and publish nothing. The last version of a job is
its end, and `Write` may commit that one too: admission gives up a post or an
analysis whose dependency failed. The barrier is held from a commit to its
publication (`writer`) and from the first SELECT of a snapshot to the
registration of its reader (`capture`); `BarrierFree` is what both wait for.
`log` are the records of the epoch, of which the ring keeps the last `Capacity`;
`sub` is the queue pair of the open stream; `wire` are the frames sent and not
read; `client` is `subscribeEvents` with its reducer and `view` what the page
shows. `stage` is how far a snapshot was read: not begun, begun, or with its
chunk. A queue is the set of the numbers of its records and the least is its
head: they enter it in the order of their numbers and nothing else is ever put
in front (`Subscription` has the queues as the sequences they are).

| Action | Code |
|---|---|
| `CommitEvent`, `Publish`, `PublishFails` | `EventConsumer.accept` through `commit_and_publish` |
| `CommitInvalidate`, `Invalidate` | cancellation, closed retries, transactions of the CPU worker |
| `CommitUncertain` | `commit` raised: it may have persisted |
| `Write` | reservations, recovery and `admission._dependencies`, which may end a job, outside the coordinator |
| `Ask`, `CaptureReads`, `CaptureSubscribes`, `CaptureClosed`, `Refuse` | `GET /api/events` and its thread |
| `Yield`, `StreamEnds` | the generator of the response |
| `Receive`, `ReceiveEnd`, `Break`, `Reload` | `events.ts`, `event-reducer.ts`, the page |
| `Restart` | loss of the bus, of its epoch and of every connection |

There is one page, whose subscription leaves the bus as soon as its connection
breaks; sessions, heartbeats and the limit of 32 readers are left out, and a
refusal stands for any of their errors.

### 2.5 `Subscription`

The same queue pair seen from inside, where `EventFeed` takes it for atomic. A
block under the lock of the bus is one action of its thread. `event`, `waiting`
and `scheduled` are the fields of the same names; `reader` is the place of the
coroutine in `next()`. The reader and `_notify` run on the event loop, so
`_notify` runs only while the reader is suspended (`Suspended`), and the loop may
be closed under a suspended reader (`LoopCloses`), after which
`call_soon_threadsafe` raises (`WakeFails`). `Mailbox` is implemented with
`replay \o pending` as its box.

### 2.6 `CpuPublication`

`job`, `cpu`, `intent`, `take` and `beats` are the rows; `stage`, `final`,
`marker` and `raw` what is on disk; `child` the process group of a post, which
lives on when the server dies; `server` the phase of the process; `worker` the
thread in `execute_job` with the take in its hands; `owner` what the custody in
this process knows of the group; `resumed` and `sweeping` sets in memory.

| Action | Code |
|---|---|
| `ClaimJob`, `ReadResume`, `ClaimResume` | the slots: `claim_job`, and `claim_resume` with the owners that `_dispatch_cpu` read before it |
| `Reserve`, `PrepareResume`, `MarkLaunching`, `Launch`, `LaunchFails`, `StartRunning` | `_prepare`, `_prepare_resume`, the launch under custody |
| `ChildStarts`, `ChildSends`, `ChildCloses`, `ChildDies`, `OwnerCloses`, `OwnerStops` | the group and its owner thread |
| `Receive`, `WriteMarker`, `PrepareIntent`, `Rename`, `CommitIntent`, `FailTake`, `Published` | one package: `CpuPublications.publish` and `fail` |
| `Join`, `Replay`, `Finish`, `Clear` | the end of the group, intents an earlier process prepared, the end of the post |
| `Raise`, `Unwind`, `Interrupt`, `FailPlan` | any call that raises, and what `execute` does about it |
| `RequestCancel`, `CancelQueued`, `CancelRunning`, `CancelInterrupted`, `RemoveStages`, `Sweep` | cancellation and the cleaning after it |
| `Crash`, `Startup`, `CleanStaging` | a restart |

Each transaction and each change on disk is an action of its own, so the server
may die between any two. The contents of plans, packages and seals are
abstracted: whatever does not fit raises. A probe of the old group may be
refused for a while; this only delays and is not modelled. That a transaction of
`fail_plan` itself fails is not modelled either.

### 2.7 `Chains`

`gen` and `post` are the two jobs of a chain, `linked` the takes that its post
and its analyses name, `beat` the analyses, `take` the takes with the job that
owns them and the parent they were retried from; `ask` is what a manual retry
read before it awaited the resolver. `Create`, `GenStarts`, `GenEnds`,
`GenGivesUp` and `CancelGeneration` are the generation; `Pass` is the transaction
in which the dispatcher judges blocked dependents; `Pick`, `Claim`, `Reserve`,
`ReserveFails`, `Publish`, `Reject`, `Finish`, `Interrupt`, `Resume`,
`CancelPost` and `CancelSettled` are the post; `RetryReads`, `RetryRefused` and
`RetryClaims` a manual retry; the rest are the bin and `Restart`.

A failed take is either queued again in the same row (nothing was published for
it) or given a child, which then belongs to the new chain (`Requeued`, `Child`).

### 2.8 `Residency`

`main` is the place of the main loop between its awaits with what it saw of the
candidate's engine; `resident` the dispatcher's memory; `engine` what an engine
is doing, what its supervisor shows as loaded and which model its child really
holds on the card. `Look`, `Admit`, `Evict`, `Decline`, `Evicted` are
`_preflight`, `Reserve`, `Load`, `Loaded`, `Capture`, `Submit` what follows, and
`Resend...` the loads of an observer that sends an attempt again. An exchange
that fails leaves the engine at what it was asked for (`MainFails`,
`ResendFails`). `EngineFails` is what `EngineServer` shows an engine may do to its
server: an unload that raises leaves the old model shown without a child
(`UnloadFails`), a run ends without a terminal event (`RunAbandons`) or never
(`RunJams`). A child that is killed and still holds its memory for a while is
only in `EngineServer`.

### 2.9 `Snapshots`

A song has a version of its own rows and a set of references to shared rows with
versions of theirs; `Projection(s)` is what a read transaction sees of it. The
triggers are `Mark`: a song's own rows name it, a shared row is looked up in
`member`, which is what the *last* projection contained, and every change moves
the clock `revision`. `Commit` is a Session with its `after_commit`; passes
exclude each other (`Reconcile`), publications of one song too (`Read`).
`Replace` is `os.replace`, `Compare` the transaction that clears the mark.
`CommitOfWorker` is the CPU worker, which commits without a Session and after
some transactions publishes its song outside of any pass.

### 2.10 `Custody`

`owner` is the finalizer thread: its place in `Owner._run`, `stop`, `bad`,
`saw_closed`, what the final event said and the receipt's verdict (`closed` is
CLOSED_CONFIRMED, `unknown` UNKNOWN_QUARANTINED). `down` and `up` are the two
directions of the control socket, `live` the parent's end of the liveness pipe,
`out` and `request` the leader's standard streams, `reg` the registry socket,
`queue` and `served` the messages for the thread of the post and whether it
still takes them. `sup`, `lead` and `child` are the three processes.

| Action | Code |
|---|---|
| `Start`, `ReadFrame`, `SendRequest`, `Offer`, `OfferRevoked`, `Ends` | `Owner.start`, the loop of `_run`, `_read`, `_message`, `send` |
| `ReadEvent`, `SealTimesOut`, `Terminate`, `AwaitTimesOut`, `AnswerLate`, `WaitSupervisor`, `Drain` | `LinuxGroup._events`, `_await`, `seal_births`, `terminate`, and the end of `_run` |
| `StartFails`, `Cancel`, `Consume` | the thread of the post in `execution.execute` |
| `SeesEnd`, `TakeCommand`, `TakeEntry`, `SupFails` | the loop of `audio_supervisor` |
| `KillGroup`, `Reap`, `ReapLate`, `Answered`, `NobodyToAnswer`, `AckTimesOut`, `AckLate` | its `finally`, and `terminal_ack` |
| `Boot`, `TakeRequest`, `SkipTake`, `Fork`, `Release`, `Hang`, `ReportExit`, `WaitChild`, `FinishTake`, `AskSeal`, `Close`, `Exit` | `audio_child.main` and `FfmpegLauncher` |
| `FfmpegEnds`, `GateCloses`, `ParentDies`, `SupCrash`, `LeadFails` | the operating system, and exceptions |

The group begins born and held at its gate. The writer thread has one frame to
write and is part of `SendRequest`; TERM and KILL are one action; a deadline of
the owner acts like a cancellation. A time-out is a fault when the answer is on
its way and no fault when it cannot come. `race` is history: which of the six
`Windows` this execution went through, for `LossHasCause`. The Windows backend
and the launch itself are not modelled.

## 3. Runs

| Run | Instance | Shows |
|---|---|---|
| `QueueAttempts` | one gpu job, 3 attempts, a progress event of the first and the last, 1 fault, cancellable | rows, takes, engine and disk stay consistent through retries, resends and restarts; provenance precedes every run; the durable cursor stays behind the engine |
| `QueueEngines` | two gpu jobs on two engines, 1 fault, one cancellable | one generation on the card at any moment; the queue keeps moving unless a reservation or an engine is wedged; an attempt with provenance ends unless its engine never answers for it |
| `QueueInterrupted` | one job, 1 fault | divergence 1 of section 6 |
| `EngineServer` | two attempts, two models, 1 fault | the child serves one run at a time and only that one, and the contract is kept |
| `EnginePromises` | one attempt with a reader, 1 fault, fair | a stream that ends is complete, with its terminal event unless something failed or was cancelled; runs end unless the disk fails |
| `Feed` | one job on the page and one beside it, ring of 1, one waiting record, 2 faults, fair | server and reducer agree, a page that has read everything is current and never goes back, every end the coordinator committed is seen |
| `SubscriptionReads` | one reader, queues of 2, 5 records, fair | no lost wake-up; a mailbox; a closed reader leaves |
| `Cpu` | one post of two takes, 2 restarts, 2 errors, fair | what is prepared can be published, the library is whole, one group at a time, the end of a post is one for all its rows, slots and cancellations come back, `TakeLedger` is implemented |
| `Chains` | a chain of two takes and up to two retries of it, two in flight, one edit, one fault | takes are given away once, dependents are judged neither early nor never, no take waits for a chain that is over |
| `Residency` | three jobs of three models on two engines, 2 attempts, 3 faults, fair | one model on the card; a job waits for ever only when memory and engines disagree, or a reservation or an engine is wedged |
| `Snapshots` | two songs, one shared row, two threads, 3 commits, 2 faults, fair | an unmarked song is current, no file goes back, files become current |
| `Custody` | a post of two takes, a queue of one message, 2 faults, fair | the slot is released only when all was waited for; custody of a healthy group is lost only through six windows; nothing survives; the owner ends |

Deadlock is not looked for: each system really stops when its work is done.

### 3.1 Bounds

* `MaxAttempts` is 3 in `QueueAttempts`, as in the code; 2 in `Residency` and
  `Chains`, one retry and a last attempt; 1 where retries are not the question
  (`QueueEngines`, whose two jobs take turns, and `QueueInterrupted`).
* `MaxFaults` counts crashes and failed exchanges. In the queue one fault at any
  point is combined with three attempts and a cancellation; every fault of an
  attempt ends in the same round of the observer. In `Residency` three faults
  let a restart that forgets the resident follow a load whose answer was lost
  and a child that died. In `EngineServer` a fault is a death of the child or of
  the engine, a child that outlives its kill, or a directory that cannot be
  removed; what a failed write leads to needs no second one. In `Cpu` two
  restarts are the least for a resumed execution that dies as well, and two
  errors let one hit the unwinding of the other.
* `Progress` bounds the non-terminal events of each attempt; one is enough for a
  cursor that is neither zero nor terminal. In `QueueAttempts` the first attempt
  and the last one may have it, the one that is retried and the one that is not;
  the attempt between them is silent.
* `Cancellable` keeps cancellations out of liveness where the cancelled attempt
  is a known divergence.
* Two gpu jobs on two engines are the least that can load the card twice.
* `Last` is the version at which a job has ended: 3 leaves room for a write that
  is not published, a published one and the end. A ring of `Capacity` 1 expires
  with the second record; `PendingMax` 1 overflows with the second record that
  is not read.
* `Tries` 2 lets a client fail once and go on, or give up; the code has 5.
* `Records` 5 is one more than replay and waiting records hold together.
* `Unreliable` are the engines that may abandon or jam a run: both in
  `QueueEngines`, none in `QueueInterrupted`, which looks at one crash of the
  server.
* In `EngineServer.cfg` the two attempts ask for the same model and nobody
  streams, so they may be exchanged (`Alike`, a symmetry; the run has no liveness
  property). A second model is there to be loaded in between.
* `Events` and `Readers` bound the child's messages and who streams them.
* `Size` 3 in `Chains` is a chain, a retry of it and a retry of that or a second
  retry of the first. `Variants` 2 lets the takes of a chain part.
* `MaxCommits` 3 in `Snapshots`: a song takes up a shared row, the row changes
  while the song is written, and once more afterwards.
* `Takes` 2 and `Capacity` 1 in `Custody`: the queue is full while a message, the
  seal and the answer to the end are outstanding, and a second FFmpeg meets one
  that overran; the code has four places and up to 64 takes. Two faults let the
  server die around an error of the supervisor. Each of the six windows is
  needed: without it `LossHasCause` fails with no fault at all.
* One post in `Cpu`: what posts share are the slots, which `ClaimJob` and
  `ClaimResume` count, and the proofs cover any number of posts.

### 3.2 Fairness

`runtime._run` comes round every `poll_s`, so each stage of the main loop and
each observer that exists keeps being scheduled (weak fairness). Spawning and
cancelling happen once per round between two dispatches, so dispatches that come
and go cannot postpone them for ever (strong fairness). Engine threads and the
network make progress. No user action and no fault is fair, and faults are
bounded, which is the usual "finally nothing more fails". In `EngineServer`
the time limit of a request is fair, which is what frees the engine when a child
stays silent, and so is the write of a DELETE, which holds the lock for a moment.
Runs and handlers wait for that lock and get it however many DELETEs come (strong
fairness): DELETEs are requests of a server that sends one per attempt and round.
Nothing that fails in `EngineContract` (`Abandon`, `Jam`) is fair.

In `EventFeed` what has been started goes on: the coordinator releases its
barrier, the capture thread and the stream's generator run, the client reads
and reconnects. Nobody has to commit or to reload, and the end of a job is
promised only to a client that has not given up. In `Subscription` the loop runs
its callbacks and tasks, and a client that reads makes the stream ask for the
next record; publishing, disconnecting and closing the loop are not fair.

In `CpuPublication` the threads of the worker, the process group while it lives,
the handling of a cancellation and the start of a server that is down are fair.
That the server is started again after a crash is up to its user; a post can only
be promised to end if it is. In `Residency` every round of the loop looks at
every candidate, whatever became of the one before, so a job that can be looked
at again and again is (strong fairness of `Look`); what was begun goes on. In
`Snapshots` threads go on and commits are up to the users. In `Custody` the
threads and processes run and their time-outs fire; FFmpeg need not end, nobody
has to cancel, and the thread of the post takes messages only while it serves.

## 4. Proofs

The only assumptions are those on the constants (`QueueAssumption`, `EngineAssumption`,
`FeedAssumption`, `SubscriptionAssumption`, `CpuAssumption`, `ResidencyAssumption`,
`SnapshotsAssumption`, `NoFileAssumption`, `CustodyAssumption`,
`ChainsAssumption`). All theorems hold for every set of jobs, posts, takes,
variants, retries, songs, engines, models and threads and for any bound on
chains, faults and events.

* `JobQueueProofs`. The type invariant is not inductive by itself: `TypeInv`
  adds that a job with attempt 0 was never started (`NotStarted`), which the row
  of the current attempt depends on, and what the engine's terminal says about
  its state (`EngineEnds`: a run whose terminal event was written does not go
  on). The safety theorems rest on the lemma `DurableSteps`: every step of
  `Next` changes the durable rows in one of a few ways (reserve, retry, capture,
  acknowledge, progress, terminal, close, cancel, interrupt) or not at all. Each
  invariant is then proved once per way of changing rows and not once per
  action. `RowShape` is the inductive invariant for the rows (how the status of
  a job and of its attempts fit together), `Evidenced` the one for provenance.
  For the takes the question is which end of a job is definitive (`Definitive`):
  a retry that is still due leaves its takes queued, and `TakeFor` says what
  they are, for a job and the row of its attempt alone. Theorems: `TypeCorrect`,
  `CancellationWins`, `AttemptsAreAChain`, `JobsFollowAttempts`, `EndsAreFinal`,
  `LanesAreLimited`, `HistoryIsKept`, `ProvenanceComesFirst`, `TakesEndWithJob`,
  `OffloadComesOnce`: a job moves to the offload mode once, on an attempt of its
  own that follows one that ran out of memory in full mode, and never back
  (`OffloadTransition`); in that mode it may be tried again, as often as any
  other.
* The second half of `JobQueueProofs`. What the server does to an engine depends
  on what it remembers, so the invariant `MemoryInv` is about rows, memory,
  network and engines at once. Of an attempt (`Local`): before it is reserved
  nobody knows it; a claim is sent once, before it has an observer; a POST on
  its way has one sender that waits for it, the main loop or the observer; what
  an observer saw this round stays true until it acts on it, because nobody else
  may send the attempt; the directory holds output when the attempt ran, and not
  otherwise; the cursor follows the engine. Of the card (`Card`): an attempt is
  hot from its POST until its engine is idle; one is hot at most (`OneHot`),
  while a job is reserved no attempt but its own is hot (`Held`; an attempt the
  server gave up may be hot while nothing is reserved), and the health that was
  screened before a reservation still tells the truth when the reservation is
  made (`Screened`). Frame lemmas (`Unconcerned`, `Cooler`) say when an action
  leaves an attempt or the card as they were, and one lemma per action does the
  rest. Theorems: `MemoriesAgree` (the invariant), `CursorIsBehind`,
  `OneRunOnCard`, `OutputIsOneRun`.
* `EngineServerProofs`: the messages of the child carry an attempt, but `load`
  and the run thread take the first one they find; that it is the right one
  follows from who may use the supervisor and from the order of the two pipes.
  `Users` has one user at a time (a run, or one maintenance handler, or a POST
  being validated), `Threads` where each attempt stands (`Progress`: status,
  phase and how many events so far), and `Child` what the child was asked for:
  it rests when nobody waits for it (`Rests`: no messages, no generation,
  nothing but late cancels in its inbox), it loads for one user (`Loads`), it
  did not load in time (`Undoes`), or it works for one run (`Serves`): the
  command is on its way, it generates, or it has said how it ended. A cancel
  left over from an earlier attempt is read before the next generate, which
  resets the token; behind it there are only cancels that were meant (`Meant`).
  `Heard` bounds what the run that waits has still to read, down to the number
  of events. All of this is said of a child that can still do something
  (`Alive`). One that outlived its kill leaves its messages to whoever comes
  next, and `Stale` says what they may be. `Pipes` is what the supervisor
  remembers, and `Calm` that without a fault or a DELETE no unload raises, from
  which the terminal event of an undisturbed stream follows. One lemma per
  action; a crash returns to `Fresh`. Theorems: `EngineIsOrdered` (the
  invariant), `ChildServes`, `StreamsAreComplete`, and `ContractKept`, the
  refinement of `EngineContract`: `PlaceOf` and the lemmas before it say which
  step of the contract a change of one attempt is, one lemma named `...Shown`
  per action which change the action makes - an unload that raised makes
  `RunCloses` an `Abandon` (`ClosesShown`), `RunJams` is `Jam` - and
  `ContractStep` goes through the actions. That the events fit the bound of the
  contract (`Progress` in `EngineContract`) needs the counts of `Heard` and
  `Progress`.
* `EventFeedProofs`, on the feed. Neither property of a page is inductive, because
  what is told is never just the state of one number: a row may run ahead of the
  bus, and a snapshot sees the row. What can be said is that it is a picture of
  the jobs at number n (`PictureAt`): not behind what was owed before the epoch,
  nor behind any record up to n, nor ahead of any record after n. A snapshot is
  a picture because the bus stands still while it is read (`WriterAgrees`,
  `SnapshotIsPicture`), and a picture stays one when the bus publishes, because
  no version that was told is above what is still to be published (`Limit`,
  `Within`). The invariant `FeedInv` says that the page is a picture at its cursor
  (`ViewInv`) and so is what it staged, at the number of the snapshot's end
  (`StagedInv`); that the frames on the wire follow one another from there with
  no record of the page left out in between, and tell the truth, each no less
  than those before it (`Linked`, `TrueWire`); and that the queue of an open
  subscription has exactly the records of the page after the last number sent
  (`Queued`) and none that is older than anything told (`Ahead`). Frames and
  cursors of an epoch that is over are only bound by the order of versions. There
  is a lemma per action or pair of actions; `Receive` is split by the kind of the
  frame (`StagingStep`, `EndTold`, `EventTold`), and what a frame moves is said
  once in `FrameRead`. `ReplayIsWhole` is the fact about the boundary of the
  ring, for every capacity. Theorems: `FeedAgrees` (the invariant), `FeedTyped`,
  `ReplayIsWhole`, `ReadersAgree`, `ViewsAreCurrent`, `NeverGoesBack`.
* `EventFeedProofs`, on one subscription: `SubscriptionTypes` is inductive.
  `WakeupsArrive` is not: a record wakes only a reader whose flag is up, so the
  invariant is strengthened with `Announced` (a suspended reader has said that it
  waits). With the types and `ClosedIsEmpty`, `SubscriptionIsAMailbox` maps the
  initial state to one of `Mailbox` and every step to one of its steps or a
  stutter (`MailboxStep`); `HeadOfTwo` is the one fact about sequences it rests
  on.
* `CpuPublicationProofs`: a step of the worker is about one post, so the
  inductive invariant `IInv` is the types, `Still` (a server that is down has no
  threads) and, post by post, `Local`: which states of post and execution occur
  together and what they say of intents (`Rows`), what the state of an intent
  says of take, staging and final directory (`Lists`), when a process group may
  be alive (`Processes`), and what the thread knows at each stage (`Thread`,
  `Progress`, `Held`). `Frame` shows that an action leaves the other posts alone.
  The safety properties alone are not inductive: that a prepared intent has its
  package depends on the take in the thread's hands, and that no group is left
  on the stage at which custody was taken. Theorems: `TypeCorrect`,
  `AlwaysRecoverable`, `LibraryIsWhole`, `GroupIsAlone`, `EndsTogether`, and
  `LedgerKept`, the refinement of `TakeLedger`.
* `SnapshotsProofs`: that an unmarked song is current needs to know that the
  triggers would find it (`Kept`: its members are its references) and what a
  thread that holds a document may still do (`Held`: the document is current
  while the clock stands, or while nothing marks the song; it is no older than
  the file; nobody else publishes the song). `ChangedRows` says what a change of
  rows does to all of this, whoever makes it. Theorems: `TypeCorrect`,
  `CleanSongsAreCurrent`, `FilesNeverGoBack`.

* `ResidencyProofs`: that one engine at most has a model on the card rests on the
  reservation. It is taken only when every engine but the target's is idle
  without a child (`Ready`), it is the only one (`Single`), and only its holder
  loads or runs anything (`Runs`, `Watched`, `Placed`), so the others stay as
  they were (`Alone`). An idle engine that shows nothing has no child (`Shown`),
  which is what `_preflight` relies on when it looks at health. Theorems:
  `TypeCorrect`, `OneModelOnCard`, `OneRunAtATime`.
* `CustodyProofs`: the supervisor says confirmed only when leader and children
  were waited for, and then nothing of the group can move any more
  (`ToldWhenOver`, over what the owner knows and what is on its way to it); the
  receipt needs that word and exit code 0 (`Settled`). The types need `Busy`: a
  take that is worked on is one of those left. That a lost custody has a cause
  is proved from the other side: `Calm` says that no fault has happened and none
  of the six windows has opened, and `Smooth` what then holds of everybody at
  once - who has said what (`Sound`, `Stages`), that resume comes first and the
  final last (`Ordered`, `LastWord`), that the closed frame was sent before the
  leader went (`Finished`, `SealKept`), and which entries the registry has at
  each stage of the leader (`Entries`). `CalmBefore` (no step becomes calm again)
  leaves one lemma per action: from a calm state it keeps `Smooth` or ends the
  calm. Theorems: `TypeCorrect`, `ReleasedIsWaitedFor`, `LossIsExplained`.
* `ChainsProofs`: none of the four safety properties of `Chains` is inductive.
  `IInv` says of a chain that does not exist that nothing names it (`Unborn`),
  of a take which of status, intent and bin occur together (`Rows`), that a
  chain at work owns the takes it is linked to (`Links`), what generation, post
  and takes say of each other (`Posts`), what an analysis says of its take and
  its post (`Beats`), and that a take has one successor at most (`Kin`). The
  step that matters is `RetryClaims`: it moves only takes that failed, and
  those belong to a chain that is over (`Links`, `Posts`), so no chain at work
  loses one. Each action concerns one chain, and the frame lemmas carry the
  parts of the invariant over to the others. Theorems: `TypeCorrect`,
  `ClaimedOnce`, `VerdictsHold`, `TakesSettled`, `VerdictsReady`.

The type invariants that are proved (`JobQueue`, `EngineServer`, `EventFeed`,
`Subscription`, `CpuPublication`, `Residency`, `Snapshots`, `Custody`, `Chains`)
are not repeated in the runs, nor are the lane limits, the chain and the history
of attempts, that an end is final and that a cancellation wins, which are proved
for every instance.

## 5. What is only model-checked

Liveness (`QueueMoves`, `ObservedSettles`, `RunEnds`, `EndIsSeen`, `ReaderEnds`,
`PostEnds`, `CancelSettles`, `WaitsOnlyAstray`, `Settles`, `NothingSurvives`,
`OwnerEnds`), which is beyond the prover. Where the code lets something wait for
ever, the property names it: an attempt whose engine never answers for it
(`Unanswered`), an engine that is jammed (`Jammed`), a reservation that nobody ends
(`Wedged`) in `JobQueue`; `jammed` in `RunEnds`; `Held` and `Astray` in
`Residency`. Every invariant and action property that
a run checks is proved, and so are the refinements of `EngineContract`, `Mailbox`
and `TakeLedger`.

## 6. Where code and documents differ

One with a run that shows it:

* `QueueInterrupted`: a generation reserved and then interrupted before its
  provenance was captured is never sent again and never ends, although ADR-0090
  says every interrupted generation does.

Met while modelling, visible in the actions named:

* A cancellation committed between the reservation and the POST leaves the job
  interrupted and its lane occupied until the server restarts (`SendStops`,
  `Suspend`; `runtime.py:249`, against `m1-mvp-estudio/tasks.md:212`).
* An attempt may be declared lost while the engine, which was still validating
  its POST, goes on to run it (`AcceptLost`; `runtime.py:257`, against
  ADR-0090:20).
* ADR-0056 asks that all writers be integrated with the barrier; reservations,
  recovery and the verdicts of admission commit outside of it (`Write`;
  `recovery.py:34`, `admission.py:164`). A page that has read everything may show a
  job as it was before its reservation, and a post that admission failed for its
  dependency as if it still waited, until the next snapshot: the page follows its
  posts (`page.tsx:46`). This is why `ViewIsCurrent` and `EndIsSeen` speak of
  `owed`, what the coordinator committed, and not of `row`.
* `contrato-engines.md:237` has one terminal event in every stream. A stream ends
  without one when `unload` raises in an except clause of `run`, which comes before
  the terminal event is written (`RunUnloads`; `server.py:371` and 385). The
  observer of the server asks again and again (`StreamEnds`, `Unanswered`) and the
  lane stays held. This is why `StreamComplete` promises the terminal event only
  where nothing failed and nobody cancelled: without `Undisturbed` TLC finds such a
  stream within one fault.
* `run` catches only EngineError around the removal of a directory; another error
  leaves the attempt active and unfinished, and the engine answers BUSY until it
  is restarted (`RunJams`; `server.py:396-405`).
* A DELETE whose child dies under it answers 500 and leaves its bytes in the
  buffer of the pipe, which makes the next `unload` raise (`CancelSends`,
  `Raises`; `runtime.py:116-121`, 184).
* A DELETE of an attempt that was abandoned still finds no terminal event and is
  sent to the child of whoever runs now, which ends cancelled without anybody
  having asked for it (`Meant`; `server.py:557-564`).
* A server that dies between the marker file and the transaction that prepares
  the intent leaves a file that `write_once` never overwrites: the resumed post
  packs the take again, fails with FileExistsError and is interrupted after every
  restart (`WriteMarker`, `PrepareResume`; `publications.py:556`, against
  `m1-mvp-estudio/tasks.md:143-145`). It still ends when it is cancelled.
* `claim_resume` decides with the owners `_dispatch_cpu` read before the barrier
  (`ReadResume`, `ClaimResume`; `execution.py:626`, against the docstrings at 155
  and 183): a post claimed in between is counted by its row only, so more groups
  than slots may run for a while.
* When the plan of a post fails, its takes stay queued and the manual retry
  answers CONFLICT (`FailPlan`); cancelling a post before it has intents leaves
  its takes queued (`CancelQueued`; against `spec.md:61`). `NothingStranded`
  names both exceptions.
* Deleting one take before the post is planned fails the whole post, and its
  siblings stay queued and cannot be retried; deleting a take or the song later
  interrupts the post (`ReserveFails`, `Interrupt`). A take that comes back from
  the bin queued has no live job (`RestoreTake`).
* ADR-0055:29 lets an analysis begin when its take is published; the code queues
  analyses when the post has ended (`BeatAfter`).
* A process resumes a post once (`resumed`): one that is interrupted again waits
  for the next restart, as does a post whose launch failed, and a post that was
  cancelled between launch and `StartRunning` with a group that could not be
  proved dead, which is the exception in `CancelSettles`.
* An engine unloads its child when a generation ends in TIMEOUT, VRAM_EXCEEDED or
  INTERNAL; the dispatcher still remembers the model and declines every job of
  another one, because the resident must be seen loaded before it may be
  unloaded (`RunUnloads`, `Clear`; `dispatcher.py:130-139`). The retry in offload
  mode waits in the same way, until a job of the old model runs or the server
  restarts. It is `Astray` in `WaitsOnlyAstray`.
* A restart that finds another model loaded declines every job of other models
  until one of that model comes, since only a remembered resident may be
  replaced (`Clear`; `Astray` in `WaitsOnlyAstray`). ADR-0018:17 also has jobs
  grouped by model for up to 120 s, which is not implemented, and the adapter of
  ACE-Step never reports VRAM_EXCEEDED as retryable, so the offload retry that
  `Ends` has is unreachable with that engine.
* ADR-0057:15 has the supervisor report a confirmed close after an end of file, a
  cancellation or a deadline. Six orders of events end UNKNOWN_QUARANTINED with
  no failure anywhere (`Windows` in `Custody`): a cancellation between ready and
  request, one while the queue is full, an end between the birth or reap of an
  FFmpeg and its entry, a leader that is gone before its closed frame is sealed
  (`custody.py:168`, when the owner was held up), an owner that waits for room
  while the second of `terminal_ack` runs out (`custody.py:170`), and an FFmpeg
  that overran, which leaves its entry open. A stop that crosses the end is not
  one of them, as `test_native_terminal_stop_after_final_journal_confirms` has
  it.
* A publication of the CPU worker whose counters moved meanwhile leaves its song
  marked with the right file, and nobody looks at the mark until the next commit
  or start (`Compare`, `CommitOfWorker`; `unseen` in `Settles`).

## 7. Not modelled, and why

* Of custody: the Windows backend, the launch up to the birth of the group, the
  identities of processes and descriptors, framing and budgets of the pipe; the
  limit of 3600 s on the supervisor's own loops (`custody_linux_supervisor.py:201`
  and 441) and the time-out of waiting for the supervisor (`WaitSupervisor` waits
  until it is gone).
* The number of groups that run at once over several posts (the slots of
  `claim_resume`, section 6) is not a property: `OneGroup` is about the groups of
  one post.
* The sweeper is one action that removes what an ended post left; its pages and
  cursors, and the directories of other jobs, are repeated from the rows when a
  pass stops.
* The resolver chooses from catalogs without state beyond a cache; a constant.
* Staged inputs and provenance files are made and verified within one step of
  the queue. Backup copies the database through SQLite's own online backup.
  Sessions are a table under one lock with no step that spans two requests.
* The contents of snapshots, their validation and their import into a database;
  files that something else changes while the server runs.
* In the event feed: several pages and the limit of 32 readers, heartbeats,
  renewal of sessions.
* Engine adapters, analysis, audio filters and contracts are computations inside
  one call. Migrations run once on a closed database; the triggers they install
  repeat guards the actions already have, except those of the snapshots, which
  are `Mark`. The user interface beyond the event client, scripts, evaluation
  and tools have no state shared between actors. Validation, wording, settings
  and logs carry no behaviour over time.

What would come next: several pages in `EventFeed`; the Windows backend of
custody and the import of snapshots.
