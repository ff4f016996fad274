------------------------------ MODULE Snapshots ------------------------------
(***************************************************************************)
(* The file song.json of every song, a projection of its rows and of the   *)
(* shared rows it uses (snapshots.py), kept current after commits.         *)
(*                                                                         *)
(* Triggers mark the songs that a change reaches: a song's own rows name   *)
(* it, a shared row is looked up among the members of the last projection. *)
(* A commit through a Session is followed by a pass over all songs that    *)
(* are marked (db.py), one of the CPU worker by the publication of its     *)
(* song.  Publications of one song exclude each other, passes too.         *)
(*                                                                         *)
(* Abstracted: what the rows say (a version each), commits that change     *)
(* nothing (one more pass), the barrier around a pass (waiting for it may  *)
(* fail), files that others remove or change.                              *)
(***************************************************************************)
EXTENDS Naturals

CONSTANTS
  Songs,
  Shared,      \* rows of no song that songs refer to
  Threads,
  Main,        \* the thread that starts the server
  NoFile,
  MaxCommits,  \* bound: changes committed
  MaxFaults    \* bound: crashes, publications and passes that fail

ASSUME SnapshotsAssumption ==
  /\ Main \in Threads
  /\ MaxCommits \in Nat
  /\ MaxFaults \in Nat

VARIABLES
  own, uses,   \* of a song: the version of its rows, and its references
  shared,      \* the version of a shared row
  revision,    \* snapshot_clock
  generation, dirty, member,  \* of a song
  file,        \* on disk
  thread,      \* what it has to publish, and what it read
  serving,     \* the pass of the start is over
  unseen,      \* no pass begins after the last change or failure
  faults

rows == <<own, uses, shared>>
marks == <<generation, dirty, member>>
vars == <<rows, revision, marks, file, thread, serving, unseen, faults>>

Document == [own: Nat, uses: SUBSET Shared, shared: [Shared -> Nat]]

ASSUME NoFileAssumption == NoFile \notin Document

\* _project, in one read transaction.
Projection(s) ==
  [own |-> own[s], uses |-> uses[s],
   shared |-> [d \in Shared |-> IF d \in uses[s] THEN shared[d] ELSE 0]]

Idle == [pc |-> "idle", pass |-> FALSE, todo |-> {}, song |-> NoFile,
         doc |-> NoFile, revision |-> 0, generation |-> 0]

TypeOK ==
  /\ own \in [Songs -> Nat] /\ uses \in [Songs -> SUBSET Shared]
  /\ shared \in [Shared -> Nat]
  /\ revision \in Nat
  /\ generation \in [Songs -> Nat] /\ dirty \in [Songs -> BOOLEAN]
  /\ member \in [Songs -> SUBSET Shared]
  /\ file \in [Songs -> Document \cup {NoFile}]
  /\ thread \in [Threads -> [pc: {"idle", "hook", "next", "read", "replaced"},
                             pass: BOOLEAN, todo: SUBSET Songs,
                             song: Songs \cup {NoFile},
                             doc: Document \cup {NoFile},
                             revision: Nat, generation: Nat]]
  /\ serving \in BOOLEAN /\ unseen \in BOOLEAN
  /\ faults \in Nat

\* New songs are marked by their insertion.
Init ==
  /\ own = [s \in Songs |-> 0] /\ uses = [s \in Songs |-> {}]
  /\ shared = [d \in Shared |-> 0]
  /\ revision = 0
  /\ generation = [s \in Songs |-> 0] /\ dirty = [s \in Songs |-> TRUE]
  /\ member = [s \in Songs |-> {}]
  /\ file = [s \in Songs |-> NoFile]
  /\ thread = [t \in Threads |-> Idle]
  /\ serving = FALSE /\ unseen = FALSE
  /\ faults = 0

Fault == faults < MaxFaults /\ faults' = faults + 1

-----------------------------------------------------------------------------
(* Changes and the triggers within their transaction. *)

Mark(reached) ==
  /\ revision < MaxCommits
  /\ revision' = revision + 1
  /\ generation' = [s \in Songs |-> IF s \in reached THEN generation[s] + 1
                                    ELSE generation[s]]
  /\ dirty' = [s \in Songs |-> dirty[s] \/ s \in reached]
  /\ UNCHANGED member

ChangeSong(s, references) ==
  /\ own' = [own EXCEPT ![s] = @ + 1]
  /\ uses' = [uses EXCEPT ![s] = references]
  /\ UNCHANGED shared
  /\ Mark({s})

ChangeShared(d) ==
  /\ shared' = [shared EXCEPT ![d] = @ + 1]
  /\ UNCHANGED <<own, uses>>
  /\ Mark({s \in Songs : d \in member[s]})

\* A Session commits, and its after_commit is called.
Commit(t) ==
  /\ serving /\ thread[t].pc = "idle"
  /\ \/ \E s \in Songs, references \in SUBSET Shared : ChangeSong(s, references)
     \/ \E d \in Shared : ChangeShared(d)
  /\ thread' = [thread EXCEPT ![t].pc = "hook"]
  /\ unseen' = FALSE
  /\ UNCHANGED <<file, serving, faults>>

\* The CPU worker commits without a Session; after some of its transactions
\* it publishes the song.
CommitOfWorker(t) ==
  /\ serving /\ thread[t].pc = "idle"
  /\ \E s \in Songs : \E todo \in SUBSET {s} :
       /\ ChangeSong(s, uses[s])
       /\ thread' = [thread EXCEPT ![t] =
                        [Idle EXCEPT !.pc = "next", !.todo = todo]]
  /\ unseen' = TRUE
  /\ UNCHANGED <<file, serving, faults>>

-----------------------------------------------------------------------------
(* Passes and publications. *)

Passing(t) == thread[t].pass

\* A pass that is about to publish these songs.
Pass(songs) == [Idle EXCEPT !.pc = "next", !.pass = TRUE, !.todo = songs]

\* Mutant of Reconcile: one that meets another pass leaves it at that.
ReconcileSkips(t) ==
  /\ thread[t].pc = "hook"
  /\ thread' = IF \E u \in Threads : Passing(u)
               THEN [thread EXCEPT ![t] = Idle]
               ELSE [thread EXCEPT ![t] = Pass({s \in Songs : dirty[s]})]
  /\ UNCHANGED <<rows, revision, marks, file, serving, unseen, faults>>

\* reconcile, with the lock that passes share.
Reconcile(t) ==
  /\ thread[t].pc = "hook"
  /\ \A u \in Threads : ~Passing(u)
  /\ thread' = [thread EXCEPT ![t] = Pass({s \in Songs : dirty[s]})]
  /\ UNCHANGED <<rows, revision, marks, file, serving, unseen, faults>>

\* The barrier is not free in time: only the error is noted.
ReconcileFails(t) ==
  /\ thread[t].pc = "hook"
  /\ Fault
  /\ thread' = [thread EXCEPT ![t] = Idle]
  /\ unseen' = TRUE
  /\ UNCHANGED <<rows, revision, marks, file, serving>>

Publishing(t, s) == thread[t].pc \in {"read", "replaced"} /\ thread[t].song = s

Reads(t, s) ==
  /\ thread[t].pc = "next" /\ s \in thread[t].todo
  /\ thread' = [thread EXCEPT ![t] =
                  [@ EXCEPT !.pc = "read", !.song = s, !.doc = Projection(s),
                            !.revision = revision,
                            !.generation = generation[s]]]
  /\ UNCHANGED <<rows, revision, marks, file, serving, unseen, faults>>

\* Mutant of Read: publications of one song do not exclude each other.
ReadUnlocked(t, s) == Reads(t, s)

\* publish: with the lock of the song, the counters and the projection are
\* read in one transaction.
Read(t, s) ==
  /\ \A u \in Threads : ~Publishing(u, s)
  /\ Reads(t, s)

\* os.replace of a complete file.
Replace(t) ==
  /\ thread[t].pc = "read"
  /\ file' = [file EXCEPT ![thread[t].song] = thread[t].doc]
  /\ thread' = [thread EXCEPT ![t].pc = "replaced"]
  /\ UNCHANGED <<rows, revision, marks, serving, unseen, faults>>

Leave(t) ==
  thread' = [thread EXCEPT ![t] =
               [Idle EXCEPT !.pc = "next", !.pass = Passing(t),
                            !.todo = thread[t].todo \ {thread[t].song}]]

\* Mutant of Compare: only the generation of the song is compared.
CompareGeneration(t) ==
  LET s == thread[t].song
      current == thread[t].generation = generation[s]
  IN  /\ thread[t].pc = "replaced"
      /\ dirty' = [dirty EXCEPT ![s] = ~current]
      /\ member' = [member EXCEPT ![s] = IF current THEN thread[t].doc.uses
                                         ELSE @]
      /\ Leave(t)
      /\ UNCHANGED <<rows, revision, generation, file, serving, unseen, faults>>

\* Nothing was committed meanwhile: the song is no longer marked.
Compare(t) ==
  LET s == thread[t].song
      current == /\ thread[t].generation = generation[s]
                 /\ thread[t].revision = revision
  IN  /\ thread[t].pc = "replaced"
      /\ dirty' = [dirty EXCEPT ![s] = ~current]
      /\ member' = [member EXCEPT ![s] = IF current THEN thread[t].doc.uses
                                         ELSE @]
      /\ Leave(t)
      /\ UNCHANGED <<rows, revision, generation, file, serving, unseen, faults>>

\* The disk or the database refuses; a pass goes on with the next song.
PublishFails(t) ==
  /\ thread[t].pc \in {"read", "replaced"}
  /\ Fault
  /\ Leave(t)
  /\ unseen' = TRUE
  /\ UNCHANGED <<rows, revision, marks, file, serving>>

Done(t) ==
  /\ thread[t].pc = "next" /\ thread[t].todo = {}
  /\ thread' = [thread EXCEPT ![t] = Idle]
  /\ serving' = TRUE
  /\ UNCHANGED <<rows, revision, marks, file, unseen, faults>>

\* The pass of the start marks the files that are missing or differ.
Start ==
  LET stale == {s \in Songs : file[s] # Projection(s)} IN
  /\ ~serving /\ thread[Main].pc = "idle"
  /\ dirty' = [s \in Songs |-> dirty[s] \/ s \in stale]
  /\ thread' = [thread EXCEPT ![Main] = Pass({s \in Songs : dirty'[s]})]
  /\ UNCHANGED <<rows, revision, generation, member, file, serving, unseen,
                 faults>>

Crash ==
  /\ Fault
  /\ thread' = [t \in Threads |-> Idle]
  /\ serving' = FALSE
  /\ unseen' = FALSE
  /\ UNCHANGED <<rows, revision, marks, file>>

Thread(t) == \/ Reconcile(t) \/ (\E s \in Songs : Read(t, s))
             \/ Replace(t) \/ Compare(t) \/ Done(t)

Next ==
  \/ \E t \in Threads : \/ Commit(t) \/ CommitOfWorker(t) \/ Thread(t)
                        \/ ReconcileFails(t) \/ PublishFails(t)
  \/ Start
  \/ Crash

Spec == Init /\ [][Next]_vars

\* Threads go on; commits are up to the users.
FairSpec == Spec /\ WF_vars(Start) /\ \A t \in Threads : WF_vars(Thread(t))

-----------------------------------------------------------------------------
(* Safety. *)

\* A song that is not marked has its current rows on disk, whatever was
\* committed while it was written and wherever a publication stopped: nobody
\* would look at it again.
CleanIsCurrent ==
  \A s \in Songs : dirty[s] \/ file[s] = Projection(s)

\* No file is replaced by an older one (database-design.md: "evitan publicar
\* versiones antiguas").
NoOlder(old, new) ==
  \/ old = NoFile
  \/ /\ new # NoFile
     /\ new.own >= old.own
     /\ \A d \in old.uses \cap new.uses : new.shared[d] >= old.shared[d]

NeverOlder == [][\A s \in Songs : NoOlder(file[s], file'[s])]_vars

(* Liveness. *)

\* After the last commit of a Session, or a start, every file becomes current
\* unless the worker commits or something fails later.
Settles == []<>(unseen \/ \A s \in Songs : file[s] = Projection(s))
=============================================================================
