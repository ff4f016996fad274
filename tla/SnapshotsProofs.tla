--------------------------- MODULE SnapshotsProofs ---------------------------
(***************************************************************************)
(* Theorems about Snapshots, for any songs, shared rows, threads and       *)
(* bounds.  The inductive invariant says, besides its types, of a song     *)
(* that is not marked that the triggers know its references (Kept), and of *)
(* a thread that publishes what it may do to the file (Held): what it read *)
(* is current while nothing was committed or nothing marks the song.       *)
(***************************************************************************)
EXTENDS Snapshots, TLAPS

\* No older than what is committed.
Past(doc, s) == /\ doc.own <= own[s]
                /\ \A d \in doc.uses : doc.shared[d] <= shared[d]

Kept(s) == /\ dirty[s] \/ (file[s] = Projection(s) /\ member[s] = uses[s])
           /\ file[s] = NoFile \/ (file[s] \in Document /\ Past(file[s], s))

Held(t, s) ==
  /\ thread[t].doc \in Document /\ Past(thread[t].doc, s)
  /\ thread[t].revision <= revision
  /\ thread[t].revision = revision => thread[t].doc = Projection(s)
  /\ dirty[s] \/ thread[t].doc = Projection(s)
  /\ thread[t].pc = "read" => NoOlder(file[s], thread[t].doc)
  /\ thread[t].pc = "replaced" => file[s] = thread[t].doc
  /\ \A u \in Threads : Publishing(u, s) => u = t

Busy(t) == thread[t].pc \in {"read", "replaced"} => thread[t].song \in Songs

IInv == /\ TypeOK
        /\ \A s \in Songs : Kept(s)
        /\ \A t \in Threads : Busy(t)
        /\ \A t \in Threads, s \in Songs : Publishing(t, s) => Held(t, s)

-----------------------------------------------------------------------------
LEMMA ProjectionType ==
  ASSUME TypeOK, NEW s \in Songs
  PROVE  /\ Projection(s) \in Document
         /\ Past(Projection(s), s)
BY DEF TypeOK, Projection, Document, Past

LEMMA InitHolds == Init => IInv
<1> SUFFICES ASSUME Init PROVE IInv
  OBVIOUS
<1>1. TypeOK
  BY SnapshotsAssumption DEF Init, TypeOK, Idle
<1>2. \A t \in Threads : thread[t].pc = "idle"
  BY DEF Init, Idle
<1> QED
  BY <1>1, <1>2 DEF Init, IInv, Kept, Busy, Publishing

LEMMA MarkType ==
  ASSUME TypeOK, NEW R, Mark(R)
  PROVE  /\ revision' \in Nat
         /\ generation' \in [Songs -> Nat]
         /\ dirty' \in [Songs -> BOOLEAN]
         /\ member' \in [Songs -> SUBSET Shared]
BY DEF TypeOK, Mark

\* A change of rows is typed, marks what it changes and moves the clock.
Changed == \/ \E s \in Songs, references \in SUBSET Shared :
                ChangeSong(s, references)
           \/ \E d \in Shared : ChangeShared(d)

LEMMA ChangedRows ==
  ASSUME IInv, Changed
  PROVE  /\ own' \in [Songs -> Nat] /\ uses' \in [Songs -> SUBSET Shared]
         /\ shared' \in [Shared -> Nat]
         /\ revision' \in Nat /\ generation' \in [Songs -> Nat]
         /\ dirty' \in [Songs -> BOOLEAN] /\ member' = member
         /\ revision' = revision + 1
         /\ \A s \in Songs : own[s] <= own'[s]
         /\ \A d \in Shared : shared[d] <= shared'[d]
         /\ \A s \in Songs : dirty'[s] = FALSE =>
              /\ dirty[s] = FALSE /\ uses'[s] = uses[s]
              /\ Projection(s)' = Projection(s)
<1>1. TypeOK
  BY DEF IInv
<1>2. CASE \E s \in Songs, references \in SUBSET Shared :
             ChangeSong(s, references)
  <2> PICK a \in Songs, references \in SUBSET Shared :
             ChangeSong(a, references)
    BY <1>2
  <2>1. Mark({a})
    BY DEF ChangeSong
  <2>2. own' = [own EXCEPT ![a] = @ + 1] /\ shared' = shared
        /\ uses' = [uses EXCEPT ![a] = references]
    BY DEF ChangeSong
  <2>3. \A s \in Songs : dirty'[s] = FALSE => s # a /\ dirty[s] = FALSE
    BY <2>1, <1>1 DEF Mark, TypeOK
  <2>4. \A s \in Songs : s # a => Projection(s)' = Projection(s)
    BY <2>2, <1>1 DEF Projection, TypeOK
  <2> QED
    BY <2>1, <2>2, <2>3, <2>4, <1>1, MarkType DEF Mark, TypeOK
<1>3. CASE \E d \in Shared : ChangeShared(d)
  <2> PICK d \in Shared : ChangeShared(d)
    BY <1>3
  <2>1. Mark({s \in Songs : d \in member[s]})
    BY DEF ChangeShared
  <2>2. shared' = [shared EXCEPT ![d] = @ + 1] /\ own' = own /\ uses' = uses
    BY DEF ChangeShared
  <2>3. \A s \in Songs : dirty'[s] = FALSE => d \notin member[s] /\ dirty[s] = FALSE
    BY <2>1, <1>1 DEF Mark, TypeOK
  <2>4. \A s \in Songs : d \notin uses[s] => Projection(s)' = Projection(s)
    BY <2>2, <1>1 DEF Projection, TypeOK
  <2>5. \A s \in Songs : dirty[s] = FALSE => member[s] = uses[s]
    BY DEF IInv, Kept
  <2> QED
    BY <2>1, <2>2, <2>3, <2>4, <2>5, <1>1, MarkType DEF Mark, TypeOK
<1> QED
  BY <1>2, <1>3 DEF Changed

\* Nothing of the invariant is lost by a change, whoever publishes.
LEMMA ChangeStep ==
  ASSUME IInv, Changed, file' = file,
         thread' \in [Threads -> [pc: {"idle", "hook", "next", "read", "replaced"},
                                  pass: BOOLEAN, todo: SUBSET Songs,
                                  song: Songs \cup {NoFile},
                                  doc: Document \cup {NoFile},
                                  revision: Nat, generation: Nat]],
         \A t \in Threads : \/ thread'[t] = thread[t]
                            \/ thread'[t].pc \in {"hook", "next"},
         serving' \in BOOLEAN, unseen' \in BOOLEAN, faults' \in Nat
  PROVE  IInv'
<1>1. TypeOK
  BY DEF IInv
<1>2. TypeOK'
  BY <1>1, ChangedRows DEF TypeOK
<1>3. \A doc \in Document, s \in Songs : Past(doc, s) => Past(doc, s)'
  BY <1>1, <1>2, ChangedRows DEF Past, Document, TypeOK
<1>4. ASSUME NEW s \in Songs PROVE Kept(s)'
  <2>1. Kept(s) /\ file'[s] = file[s] /\ member'[s] = member[s]
    BY ChangedRows DEF IInv
  <2>2. dirty'[s] \/ (file'[s] = Projection(s)' /\ member'[s] = uses'[s])
    BY <2>1, <1>2, ChangedRows DEF Kept, TypeOK
  <2>3. file[s] = NoFile \/ (file[s] \in Document /\ Past(file[s], s)')
    BY <2>1, <1>3 DEF Kept
  <2>4. (file[s] = NoFile \/ (file[s] \in Document /\ Past(file[s], s)))'
    BY <2>3, <2>1 DEF Past
  <2> QED
    BY <2>2, <2>4 DEF Kept
<1>5. \A t \in Threads : Busy(t)'
  BY DEF IInv, Busy
<1>6. \A t \in Threads, s \in Songs :
        Publishing(t, s)' => Publishing(t, s) /\ thread'[t] = thread[t]
  BY DEF Publishing
<1>7. ASSUME NEW t \in Threads, NEW s \in Songs, Publishing(t, s)'
      PROVE  Held(t, s)'
  <2>1. Held(t, s) /\ thread'[t] = thread[t]
    BY <1>6, <1>7 DEF IInv
  <2>2. thread'[t].revision # revision' /\ thread'[t].revision <= revision'
    BY <2>1, <1>1, ChangedRows DEF Held, TypeOK
  <2>3. dirty'[s] \/ thread'[t].doc = Projection(s)'
    BY <2>1, <1>2, ChangedRows DEF Held, TypeOK
  <2>4. \A u \in Threads : Publishing(u, s)' => u = t
    BY <2>1, <1>6 DEF Held
  <2> QED
    BY <2>1, <2>2, <2>3, <2>4, <1>3 DEF Held
<1> QED
  BY <1>2, <1>4, <1>5, <1>7 DEF IInv

\* A step that publishes nothing and only adds marks.
LEMMA QuietStep ==
  ASSUME IInv, TypeOK', UNCHANGED <<rows, revision, member, file>>,
         \A s \in Songs : dirty[s] => dirty'[s],
         \A t \in Threads : \/ thread'[t] = thread[t]
                            \/ thread'[t].pc \notin {"read", "replaced"}
  PROVE  IInv'
<1>1. \A s \in Songs : Projection(s)' = Projection(s)
  BY DEF Projection, rows
<1>2. \A s \in Songs : Kept(s)'
  BY <1>1 DEF IInv, Kept, Past, rows
<1>3. \A t \in Threads : Busy(t)'
  BY DEF IInv, Busy
<1>4. \A t \in Threads, s \in Songs :
        Publishing(t, s)' => Publishing(t, s) /\ thread'[t] = thread[t]
  BY DEF Publishing
<1>5. ASSUME NEW t \in Threads, NEW s \in Songs, Publishing(t, s)'
      PROVE  Held(t, s)'
  <2>1. Held(t, s) /\ thread'[t] = thread[t]
    BY <1>4, <1>5 DEF IInv
  <2>2. \A u \in Threads : Publishing(u, s)' => u = t
    BY <2>1, <1>4 DEF Held
  <2> QED
    BY <2>1, <2>2, <1>1 DEF Held, Past, rows
<1> QED
  BY <1>2, <1>3, <1>5 DEF IInv

\* What one publication does leaves the others of the invariant alone.
LEMMA OneThread ==
  ASSUME IInv, TypeOK', UNCHANGED <<rows, revision>>,
         NEW t \in Threads, NEW s \in Songs,
         \A u \in Threads : u # t => thread'[u] = thread[u] /\ ~Publishing(u, s),
         \A r \in Songs : r # s => /\ file'[r] = file[r] /\ dirty'[r] = dirty[r]
                                   /\ member'[r] = member[r],
         \A r \in Songs : Publishing(t, r)' => r = s,
         Busy(t)', Kept(s)', Publishing(t, s)' => Held(t, s)'
  PROVE  IInv'
<1>1. \A r \in Songs : Projection(r)' = Projection(r)
  BY DEF Projection, rows
<1>2. ASSUME NEW r \in Songs PROVE Kept(r)'
  BY <1>1 DEF IInv, Kept, Past, rows
<1>3. \A u \in Threads : Busy(u)'
  BY DEF IInv, Busy
<1>4. ASSUME NEW u \in Threads, NEW r \in Songs, Publishing(u, r)'
      PROVE  Held(u, r)'
  <2>1. CASE u = t
    BY <2>1, <1>4
  <2>2. CASE u # t
    <3>1. thread'[u] = thread[u] /\ Publishing(u, r) /\ r # s
      BY <2>2, <1>4 DEF Publishing
    <3>2. Held(u, r)
      BY <3>1 DEF IInv
    <3>3. \A v \in Threads : Publishing(v, r)' => v = u
      <4> SUFFICES ASSUME NEW v \in Threads, Publishing(v, r)' PROVE v = u
        OBVIOUS
      <4>1. v # t
        BY <3>1
      <4>2. Publishing(v, r)
        BY <4>1 DEF Publishing
      <4> QED
        BY <4>2, <3>2 DEF Held
    <3> QED
      BY <3>1, <3>2, <3>3, <1>1 DEF Held, Past, rows
  <2> QED
    BY <2>1, <2>2
<1> QED
  BY <1>2, <1>3, <1>4 DEF IInv

-----------------------------------------------------------------------------
(* The steps. *)

LEMMA CommitStep ==
  ASSUME IInv, NEW t \in Threads, Commit(t) \/ CommitOfWorker(t)
  PROVE  IInv'
<1>1. TypeOK
  BY DEF IInv
<1>2. CASE Commit(t)
  <2>1. Changed
    BY <1>2 DEF Commit, Changed
  <2>2. file' = file /\ serving' = serving /\ faults' = faults
        /\ unseen' = FALSE /\ thread' = [thread EXCEPT ![t].pc = "hook"]
    BY <1>2 DEF Commit
  <2> QED
    BY <2>1, <2>2, <1>1, ChangeStep, ZenonT(40) DEF TypeOK
<1>3. CASE CommitOfWorker(t)
  <2> PICK s \in Songs : \E todo \in SUBSET {s} :
             /\ ChangeSong(s, uses[s])
             /\ thread' = [thread EXCEPT ![t] =
                            [Idle EXCEPT !.pc = "next", !.todo = todo]]
    BY <1>3 DEF CommitOfWorker
  <2> PICK todo \in SUBSET {s} :
             /\ ChangeSong(s, uses[s])
             /\ thread' = [thread EXCEPT ![t] =
                            [Idle EXCEPT !.pc = "next", !.todo = todo]]
    OBVIOUS
  <2>0. todo \in SUBSET Songs
    OBVIOUS
  <2>1. Changed
    BY <1>1 DEF Changed, TypeOK
  <2>2. file' = file /\ serving' = serving /\ faults' = faults /\ unseen' = TRUE
    BY <1>3 DEF CommitOfWorker
  <2> QED
    BY <2>0, <2>1, <2>2, <1>1, ChangeStep DEF TypeOK, Idle
<1> QED
  BY <1>2, <1>3

\* What a thread that is done with a song looks like.
LEMMA LeaveType ==
  ASSUME TypeOK, NEW t \in Threads, Leave(t)
  PROVE  /\ thread' \in [Threads -> [pc: {"idle", "hook", "next", "read", "replaced"},
                                     pass: BOOLEAN, todo: SUBSET Songs,
                                     song: Songs \cup {NoFile},
                                     doc: Document \cup {NoFile},
                                     revision: Nat, generation: Nat]]
         /\ thread'[t].pc = "next"
         /\ \A u \in Threads : u # t => thread'[u] = thread[u]
BY DEF TypeOK, Leave, Idle, Passing

LEMMA PassStep ==
  ASSUME IInv, NEW t \in Threads,
         Reconcile(t) \/ ReconcileFails(t) \/ PublishFails(t) \/ Done(t)
  PROVE  IInv'
<1>1. TypeOK
  BY DEF IInv
<1>2. CASE Reconcile(t)
  <2>1. /\ thread' = [thread EXCEPT ![t] = Pass({s \in Songs : dirty[s]})]
        /\ UNCHANGED <<rows, revision, marks, file, serving, unseen, faults>>
    BY <1>2 DEF Reconcile
  <2>2. thread'[t].pc = "next"
    BY <1>1, <2>1 DEF TypeOK, Pass, Idle
  <2>3. \A u \in Threads : u # t => thread'[u] = thread[u]
    BY <1>1, <2>1 DEF TypeOK
  <2>4. TypeOK'
    BY <1>1, <2>1 DEF TypeOK, Pass, Idle, rows, marks
  <2> QED
    BY <2>1, <2>2, <2>3, <2>4, QuietStep DEF marks
<1>3. CASE ReconcileFails(t)
  BY <1>1, <1>3, QuietStep DEF ReconcileFails, Fault, TypeOK, Idle, rows, marks
<1>4. CASE PublishFails(t)
  <2>1. TypeOK'
    BY <1>1, <1>4, LeaveType DEF PublishFails, Fault, TypeOK, rows, marks
  <2> QED
    BY <2>1, <1>1, <1>4, LeaveType, QuietStep DEF PublishFails, rows, marks
<1>5. CASE Done(t)
  BY <1>1, <1>5, QuietStep DEF Done, TypeOK, Idle, rows, marks
<1> QED
  BY <1>2, <1>3, <1>4, <1>5

LEMMA ServerStep ==
  ASSUME IInv, Start \/ Crash
  PROVE  IInv'
<1>1. TypeOK
  BY DEF IInv
<1>2. CASE Start
  <2>1. dirty' \in [Songs -> BOOLEAN] /\ \A s \in Songs : dirty[s] => dirty'[s]
    BY <1>1, <1>2 DEF Start, TypeOK
  <2>2. /\ UNCHANGED <<rows, revision, generation, member, file, serving,
                      unseen, faults>>
        /\ thread' = [thread EXCEPT ![Main] = Pass({s \in Songs : dirty'[s]})]
    BY <1>2 DEF Start
  <2>3. TypeOK'
    BY <1>1, <2>1, <2>2 DEF TypeOK, Pass, Idle, rows
  <2>4. thread'[Main].pc = "next"
    BY <1>1, <2>2, SnapshotsAssumption DEF TypeOK, Pass, Idle
  <2>5. \A t \in Threads : t # Main => thread'[t] = thread[t]
    BY <1>1, <2>2 DEF TypeOK
  <2> QED
    BY <2>1, <2>2, <2>3, <2>4, <2>5, QuietStep
<1>3. CASE Crash
  <2>1. /\ thread' = [t \in Threads |-> Idle]
        /\ UNCHANGED <<rows, revision, marks, file>>
    BY <1>3 DEF Crash
  <2>2. TypeOK'
    <3>1. thread' \in
           [Threads -> [pc: {"idle", "hook", "next", "read", "replaced"},
                              pass: BOOLEAN, todo: SUBSET Songs,
                              song: Songs \cup {NoFile},
                              doc: Document \cup {NoFile},
                              revision: Nat, generation: Nat]]
      BY <2>1 DEF Idle
    <3>2. serving' = FALSE /\ unseen' = FALSE /\ faults' = faults + 1
      BY <1>3 DEF Crash, Fault
    <3>3. faults' \in Nat
      BY <1>1, <3>2 DEF TypeOK
    <3>4. serving' \in BOOLEAN /\ unseen' \in BOOLEAN
      BY <3>2
    <3> QED
      BY <1>1, <2>1, <3>1, <3>3, <3>4 DEF TypeOK, rows, marks
  <2>3. \A t \in Threads : thread'[t].pc = "idle"
    BY <2>1 DEF Idle
  <2> QED
    BY <2>1, <2>2, <2>3, QuietStep DEF marks
<1> QED
  BY <1>2, <1>3

\* What is read is not older than the file, and nobody else publishes it.
LEMMA ReadStep ==
  ASSUME IInv, NEW t \in Threads, NEW s \in Songs, Read(t, s)
  PROVE  IInv'
<1>1. TypeOK
  BY DEF IInv
<1>2. /\ \A u \in Threads : ~Publishing(u, s)
      /\ UNCHANGED <<rows, revision, marks, file, serving, unseen, faults>>
      /\ thread' = [thread EXCEPT ![t] =
            [@ EXCEPT !.pc = "read", !.song = s, !.doc = Projection(s),
                      !.revision = revision, !.generation = generation[s]]]
  BY DEF Read, Reads
<1>3. /\ thread'[t].pc = "read" /\ thread'[t].song = s
      /\ thread'[t].doc = Projection(s) /\ thread'[t].revision = revision
      /\ \A u \in Threads : u # t => thread'[u] = thread[u]
  BY <1>1, <1>2 DEF TypeOK
<1>4. TypeOK'
  BY <1>1, <1>2, ProjectionType, ZenonT(40) DEF TypeOK, rows, marks
<1>5. Projection(s)' = Projection(s)
  BY <1>2 DEF Projection, rows
<1>6. NoOlder(file[s], Projection(s))
  BY <1>1, ProjectionType, NoFileAssumption
     DEF IInv, Kept, Past, NoOlder, Projection, Document
<1>7. Kept(s)'
  BY <1>2, <1>5 DEF IInv, Kept, Past, rows, marks
<1>8. Held(t, s)'
  <2>1. thread'[t].doc \in Document /\ Past(thread'[t].doc, s)
    BY <1>1, <1>3, ProjectionType
  <2>2. \A u \in Threads : Publishing(u, s)' => u = t
    BY <1>2, <1>3 DEF Publishing
  <2> QED
    BY <1>1, <1>2, <1>3, <1>5, <1>6, <2>1, <2>2
       DEF Held, Past, NoOlder, TypeOK, rows
<1> QED
  BY <1>2, <1>3, <1>4, <1>7, <1>8, OneThread DEF Busy, Publishing, marks

LEMMA ReplaceStep ==
  ASSUME IInv, NEW t \in Threads, Replace(t)
  PROVE  /\ IInv'
         /\ \A s \in Songs : NoOlder(file[s], file'[s]) \/ file'[s] = file[s]
<1> PICK s \in Songs : s = thread[t].song
  BY DEF IInv, Busy, Replace
<1>1. TypeOK
  BY DEF IInv
<1>2. /\ thread[t].pc = "read"
      /\ file' = [file EXCEPT ![s] = thread[t].doc]
      /\ thread' = [thread EXCEPT ![t].pc = "replaced"]
      /\ UNCHANGED <<rows, revision, marks, serving, unseen, faults>>
  BY DEF Replace
<1>3. Publishing(t, s)
  BY <1>2 DEF Publishing
<1>4. Held(t, s)
  BY <1>3 DEF IInv
<1>5. /\ file'[s] = thread[t].doc
      /\ \A r \in Songs : r # s => file'[r] = file[r]
      /\ thread'[t].pc = "replaced" /\ thread'[t].song = s
      /\ thread'[t].doc = thread[t].doc
      /\ thread'[t].revision = thread[t].revision
      /\ \A u \in Threads : u # t => thread'[u] = thread[u]
  BY <1>1, <1>2 DEF TypeOK
<1>6. TypeOK'
  BY <1>1, <1>2, <1>4, SMTT(30) DEF TypeOK, Held, rows, marks
<1>7. Projection(s)' = Projection(s)
  BY <1>2 DEF Projection, rows
<1>8. Kept(s)'
  BY <1>2, <1>3, <1>4, <1>5, <1>7 DEF IInv, Kept, Held, Past, rows, marks
<1>9. Held(t, s)'
  <2>1. \A u \in Threads : Publishing(u, s)' => u = t
    BY <1>4, <1>5 DEF Publishing, Held
  <2> QED
    BY <1>2, <1>4, <1>5, <1>7, <2>1 DEF Held, Past, rows, marks
<1>10. \A u \in Threads : u # t => ~Publishing(u, s)
  BY <1>4 DEF Held
<1>11. IInv'
  BY <1>2, <1>3, <1>5, <1>6, <1>8, <1>9, <1>10, OneThread
     DEF Busy, Publishing, marks
<1> QED
  BY <1>2, <1>4, <1>5, <1>11 DEF Held

\* The song is cleared only while what is on disk is what is committed.
LEMMA CompareStep ==
  ASSUME IInv, NEW t \in Threads, Compare(t)
  PROVE  IInv'
<1> PICK s \in Songs : s = thread[t].song
  BY DEF IInv, Busy, Compare
<1>1. TypeOK
  BY DEF IInv
<1> DEFINE current == /\ thread[t].generation = generation[s]
                      /\ thread[t].revision = revision
<1>2. /\ thread[t].pc = "replaced"
      /\ dirty' = [dirty EXCEPT ![s] = ~current]
      /\ member' = [member EXCEPT ![s] = IF current THEN thread[t].doc.uses
                                         ELSE @]
      /\ Leave(t)
      /\ UNCHANGED <<rows, revision, generation, file, serving, unseen, faults>>
  BY DEF Compare
<1>3. Held(t, s) /\ Publishing(t, s)
  BY <1>2 DEF IInv, Publishing
<1>4. current \in BOOLEAN
  OBVIOUS
<1>5. current => thread[t].doc = Projection(s)
  BY <1>3 DEF Held
<1>6. /\ ~current => dirty'[s]
      /\ current => member'[s] = thread[t].doc.uses
      /\ \A r \in Songs : r # s => dirty'[r] = dirty[r] /\ member'[r] = member[r]
  BY <1>1, <1>2 DEF TypeOK
<1>7. dirty' \in [Songs -> BOOLEAN] /\ member' \in [Songs -> SUBSET Shared]
  <2>1. thread[t].doc.uses \in SUBSET Shared
    BY <1>3 DEF Held, Document
  <2>2. dirty' \in [Songs -> BOOLEAN]
    BY <1>1, <1>2, <1>4 DEF TypeOK
  <2>3. member' \in [Songs -> SUBSET Shared]
    BY <1>1, <1>2, <2>1 DEF TypeOK
  <2> QED
    BY <2>2, <2>3
<1> HIDE DEF current
<1>8. TypeOK'
  BY <1>1, <1>2, <1>7, LeaveType DEF TypeOK, rows
<1>9. Projection(s)' = Projection(s)
  BY <1>2 DEF Projection, rows
<1>10. Kept(s)'
  <2>1. Projection(s).uses = uses[s]
    BY DEF Projection
  <2>2. dirty'[s] \/ (file[s] = Projection(s) /\ member'[s] = uses[s])
    <3>1. file[s] = thread[t].doc
      BY <1>2, <1>3 DEF Held
    <3>2. CASE current
      BY <1>5, <1>6, <2>1, <3>1, <3>2
    <3>3. CASE ~current
      BY <1>6, <3>3
    <3> QED
      BY <3>2, <3>3
  <2> QED
    BY <1>2, <1>9, <2>2 DEF IInv, Kept, Past, rows
<1>11. \A u \in Threads : u # t => thread'[u] = thread[u] /\ ~Publishing(u, s)
  BY <1>1, <1>2, <1>3, LeaveType DEF Held
<1>12. \A r \in Songs : ~Publishing(t, r)'
  BY <1>1, <1>2, LeaveType DEF Publishing
<1>13. Busy(t)'
  BY <1>1, <1>2, LeaveType DEF Busy
<1> QED
  BY <1>2, <1>6, <1>8, <1>10, <1>11, <1>12, <1>13, OneThread

LEMMA NextHolds == IInv /\ [Next]_vars => IInv'
<1> SUFFICES ASSUME IInv, [Next]_vars PROVE IInv'
  OBVIOUS
<1>1. CASE Start \/ Crash
  BY <1>1, ServerStep
<1>2. ASSUME NEW t \in Threads, Commit(t) \/ CommitOfWorker(t) PROVE IInv'
  BY <1>2, CommitStep
<1>3. ASSUME NEW t \in Threads,
             Reconcile(t) \/ ReconcileFails(t) \/ PublishFails(t) \/ Done(t)
      PROVE  IInv'
  BY <1>3, PassStep
<1>4. ASSUME NEW t \in Threads, NEW s \in Songs, Read(t, s) PROVE IInv'
  BY <1>4, ReadStep
<1>5. ASSUME NEW t \in Threads, Replace(t) PROVE IInv'
  BY <1>5, ReplaceStep
<1>6. ASSUME NEW t \in Threads, Compare(t) PROVE IInv'
  BY <1>6, CompareStep
<1>7. CASE UNCHANGED vars
  <2>1. TypeOK'
    BY <1>7 DEF IInv, TypeOK, vars, rows, marks
  <2>2. /\ UNCHANGED <<rows, revision, member, file>> /\ dirty' = dirty
        /\ thread' = thread
    BY <1>7 DEF vars, marks
  <2> QED
    BY <2>1, <2>2, QuietStep
<1> QED
  BY <1>1, <1>2, <1>3, <1>4, <1>5, <1>6, <1>7 DEF Next, Thread

LEMMA Inductive == Spec => []IInv
BY InitHolds, NextHolds, PTL DEF Spec

-----------------------------------------------------------------------------
(* The theorems. *)

\* Every variable keeps its type.
THEOREM TypeCorrect == Spec => []TypeOK
<1>1. IInv => TypeOK
  BY DEF IInv
<1> QED
  BY <1>1, Inductive, PTL

\* A song that is not marked is current on disk: the triggers reach every song
\* a commit changes, and publish clears the mark only when clock and generation
\* are those it read.
THEOREM CleanSongsAreCurrent == Spec => []CleanIsCurrent
<1>1. IInv => CleanIsCurrent
  BY DEF IInv, Kept, CleanIsCurrent
<1> QED
  BY <1>1, Inductive, PTL

\* No publication replaces a file by an older one: the lock of the song is held
\* from the read of the rows to the replacement.
THEOREM FilesNeverGoBack == Spec => NeverOlder
<1>1. IInv => \A s \in Songs : NoOlder(file[s], file[s])
  <2> SUFFICES ASSUME IInv, NEW s \in Songs PROVE NoOlder(file[s], file[s])
    OBVIOUS
  <2>1. file[s] = NoFile \/ file[s] \in Document
    BY DEF IInv, Kept
  <2> QED
    BY <2>1, NoFileAssumption DEF NoOlder, Document
<1>2. ASSUME IInv, [Next]_vars
      PROVE  [\A s \in Songs : NoOlder(file[s], file'[s])]_vars
  <2>1. CASE file' = file
    BY <2>1, <1>1, <1>2
  <2>2. CASE \E t \in Threads : Replace(t)
    BY <2>2, <1>1, <1>2, ReplaceStep
  <2>3. file' = file \/ \E t \in Threads : Replace(t)
    BY <1>2 DEF Next, Thread, vars, Commit, CommitOfWorker, Reconcile, Read,
       Reads, Compare, Done, ReconcileFails, PublishFails, Start, Crash
  <2> QED
    BY <2>1, <2>2, <2>3
<1> QED
  BY <1>2, Inductive, PTL DEF Spec, NeverOlder
=============================================================================
