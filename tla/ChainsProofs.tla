---------------------------- MODULE ChainsProofs ----------------------------
(***************************************************************************)
(* The invariants of Chains for any variants, chains, retries in flight,   *)
(* edits and faults.                                                       *)
(*                                                                         *)
(* A chain that is not born has left no trace (Unborn).  A take and its    *)
(* intent say the same (Rows), a chain that is at work owns the takes that *)
(* it names (Links), a post has touched its takes only after a generation  *)
(* that succeeded, and then all of them (Posts), and an analysis is judged *)
(* by what was published (Beats).  Families are what retries leave (Kin).  *)
(***************************************************************************)
EXTENDS Chains, TLAPS

Unborn == \A c \in Ids : gen[c].status = "none" =>
  /\ gen[c] = NoGeneration /\ post[c] = NoPost /\ linked[c] = {}
  /\ \A t \in TakeIds :
       /\ beat[c][t] = "none" /\ take[t].job # c
       /\ t[2] = c => take[t] = NoTake

Generations == \A c \in Ids :
  /\ gen[c].status = "queued" => gen[c].attempt = 0
  /\ gen[c].more => gen[c].status = "failed" /\ gen[c].attempt < MaxAttempts

Asked == \A r \in Requests : ask[r].chain = 0 => ask[r] = NoRequest

Rows == \A t \in TakeIds :
  /\ take[t].status = "none" => take[t] = NoTake
  /\ take[t].status = "ready" <=> take[t].intent = "committed"
  /\ take[t].intent = "committed" => ~take[t].gone
  /\ take[t].intent = "open" => take[t].status \in {"queued", "cancelled"}
  /\ take[t].status = "queued" => take[t].intent \in {"none", "open"}
  /\ take[t].gone => take[t].status \in {"failed", "cancelled"}

LinksOf(c) == \A t \in TakeIds :
  /\ take[t].job = c => t \in linked[c]
  /\ t \in linked[c] => take[t].status # "none"
  /\ t \in linked[c] /\ Working(c) => take[t].job = c
Links == \A c \in Ids : LinksOf(c)

\* What a take of the chain says of its generation and its post.
PostOf(c) ==
  /\ post[c].status \in {"queued", "running", "interrupted", "succeeded"} =>
       gen[c].status = "succeeded"
  /\ post[c].status = "failed" => post[c].why # "none"
  /\ post[c].why = "dependency" => Lost(c)
  /\ \A t \in TakeIds : take[t].job = c =>
       /\ take[t].intent # "none" =>
            /\ gen[c].status = "succeeded"
            /\ post[c].status \in {"running", "interrupted", "succeeded",
                                   "cancelled"}
            /\ \A u \in TakeIds : take[u].job = c => take[u].intent # "none"
       /\ take[t].intent = "open" =>
            post[c].status \in {"running", "interrupted"}
       /\ post[c].status = "succeeded" => take[t].intent # "none"
       /\ take[t].status = "failed" /\ take[t].intent = "none" => Lost(c)
       /\ Lost(c) /\ take[t].status = "queued" => t \in back
Posts == \A c \in Ids : PostOf(c)

BeatsOf(c) == \A t \in TakeIds :
  /\ beat[c][t] # "none" => t \in linked[c]
  /\ beat[c][t] = "queued" =>
       /\ post[c].status = "succeeded"
       /\ take[t].intent = "committed" /\ take[t].job = c
  /\ beat[c][t] = "failed" =>
       /\ post[c].status \in Ended
       /\ \/ take[t].intent # "committed" \/ take[t].job # c
          \/ post[c].status = "cancelled"
  /\ beat[c][t] = "blocked" /\ post[c].status = "succeeded" =>
       take[t].intent = "committed" /\ take[t].job = c
Beats == \A c \in Ids : BeatsOf(c)

Kin ==
  /\ \A t \in TakeIds : Claimed(t) => take[t].status = "failed"
  /\ \A t, u, w \in TakeIds :
       /\ u[1] = t[1] /\ take[u].parent = t[2]
       /\ w[1] = t[1] /\ take[w].parent = t[2]
       => u = w

IInv == TypeOK /\ Unborn /\ Generations /\ Asked /\ Rows /\ Links /\ Posts
        /\ Beats /\ Kin

-----------------------------------------------------------------------------
GenRecord == [status: {"none", "queued", "running"} \cup Ended,
              attempt: 0..MaxAttempts, cancel: BOOLEAN, more: BOOLEAN]
PostRecord == [status: {"none", "blocked", "queued", "running",
                        "interrupted"} \cup Ended,
               cancel: BOOLEAN, why: {"none", "dependency", "plan"}]
BeatStates == {"none", "blocked", "queued", "failed"}
TakeRecord == [status: {"none", "queued", "ready", "failed", "cancelled"},
               job: 0..Size, gone: BOOLEAN, parent: 0..Size,
               intent: {"none", "open", "committed", "failed", "cancelled"}]
AskRecord == [chain: 0..Size, takes: SUBSET TakeIds]

\* The types of the rows, one fact each.
LEMMA Typed ==
  ASSUME IInv
  PROVE  /\ gen \in [Ids -> GenRecord] /\ post \in [Ids -> PostRecord]
         /\ linked \in [Ids -> SUBSET TakeIds]
         /\ beat \in [Ids -> [TakeIds -> BeatStates]]
         /\ take \in [TakeIds -> TakeRecord]
         /\ ask \in [Requests -> AskRecord]
BY DEF IInv, TypeOK, GenRecord, PostRecord, BeatStates, TakeRecord, AskRecord

\* A chain keeps its part of the invariant when a step leaves its jobs alone
\* and changes no take that is its own afterwards.
LEMMA PostKept ==
  ASSUME NEW d, PostOf(d), gen'[d] = gen[d], post'[d] = post[d],
         \A t \in back : t \in back',
         \A t \in TakeIds : take'[t].job = d => take'[t] = take[t]
  PROVE  PostOf(d)'
<1>1. Lost(d)' <=> Lost(d)
  BY DEF Lost, Pending
<1> QED
  BY <1>1 DEF PostOf

LEMMA Numbers ==
  /\ 0 \in 0..MaxAttempts /\ 0 \in 0..Size
  /\ \A c \in Ids : c \in 0..Size /\ c # 0
BY ChainsAssumption DEF Ids

\* A new chain: its own rows are those of add_dependents, the others stay.
LEMMA ChainedRows ==
  ASSUME IInv, NEW n \in Ids, gen[n] = NoGeneration,
         NEW takes \in SUBSET TakeIds, Chained(n, takes)
  PROVE  /\ gen' \in [Ids -> GenRecord] /\ post' \in [Ids -> PostRecord]
         /\ linked' \in [Ids -> SUBSET TakeIds]
         /\ beat' \in [Ids -> [TakeIds -> BeatStates]]
         /\ \A c \in Ids \ {n} :
              /\ gen'[c] = gen[c] /\ post'[c] = post[c]
              /\ linked'[c] = linked[c] /\ beat'[c] = beat[c]
         /\ gen'[n] = [NoGeneration EXCEPT !.status = "queued"]
         /\ post'[n] = [NoPost EXCEPT !.status = "blocked"]
         /\ linked'[n] = takes
         /\ \A t \in TakeIds :
              beat'[n][t] = IF t \in takes THEN "blocked" ELSE "none"
<1>1. post[n] = NoPost
  BY DEF IInv, Unborn, NoGeneration
<1>2. [t \in TakeIds |-> IF t \in takes THEN "blocked" ELSE "none"]
        \in [TakeIds -> BeatStates]
  BY DEF BeatStates
<1>3. [NoGeneration EXCEPT !.status = "queued"] \in GenRecord
  BY Numbers DEF NoGeneration, GenRecord
<1>4. [NoPost EXCEPT !.status = "blocked"] \in PostRecord
  BY DEF NoPost, PostRecord
<1>5. /\ gen' = [gen EXCEPT ![n] = [NoGeneration EXCEPT !.status = "queued"]]
      /\ post' = [post EXCEPT ![n] = [NoPost EXCEPT !.status = "blocked"]]
      /\ linked' = [linked EXCEPT ![n] = takes]
      /\ beat' = [beat EXCEPT ![n] =
           [t \in TakeIds |-> IF t \in takes THEN "blocked" ELSE "none"]]
  BY Typed, <1>1 DEF Chained
<1> QED
  BY Typed, <1>2, <1>3, <1>4, <1>5

LEMMA CreateRows ==
  ASSUME IInv, NEW c \in Ids, Create(c)
  PROVE  /\ take' \in [TakeIds -> TakeRecord]
         /\ \A t \in TakeIds : t[2] # c =>
              take'[t] = take[t] /\ take[t].job # c
         /\ \A t \in TakeIds : t[2] = c =>
              /\ take[t] = NoTake
              /\ take'[t].status = "queued" /\ take'[t].job = c
              /\ take'[t].intent = "none" /\ take'[t].parent = 0
              /\ ~take'[t].gone
<1>1. \A t \in TakeIds : t \in Variants \X {c} <=> t[2] = c
  BY DEF TakeIds
<1>2. [NoTake EXCEPT !.status = "queued", !.job = c] \in TakeRecord
  BY Numbers DEF NoTake, TakeRecord
<1>3. \A t \in TakeIds :
        take[t].job # c /\ (t[2] = c => take[t] = NoTake)
  BY DEF Create, IInv, Unborn, NoGeneration
<1>4. take' = [t \in TakeIds |->
          IF t \in Variants \X {c}
            THEN [NoTake EXCEPT !.status = "queued", !.job = c]
            ELSE take[t]]
  BY DEF Create
<1>5. ASSUME NEW r, r = [NoTake EXCEPT !.status = "queued", !.job = c]
      PROVE  /\ r.status = "queued" /\ r.job = c /\ r.intent = "none"
             /\ r.parent = 0 /\ ~r.gone
  BY <1>5 DEF NoTake
<1> QED
  BY Typed, <1>1, <1>2, <1>3, <1>4, <1>5

LEMMA CreateStep ==
  ASSUME IInv, NEW c \in Ids, Create(c) PROVE IInv'
<1>1. /\ song /\ gen[c] = NoGeneration /\ post[c] = NoPost /\ linked[c] = {}
      /\ Chained(c, Variants \X {c})
      /\ Variants \X {c} \in SUBSET TakeIds
      /\ UNCHANGED <<song, ask, picked, resumed, back, edits, faults>>
  BY DEF Create, memory, history, IInv, Unborn, NoGeneration, TakeIds
<1>2. \A t \in TakeIds : t \in Variants \X {c} <=> t[2] = c
  BY DEF TakeIds
<1>3. TypeOK'
  BY <1>1, ChainedRows, CreateRows
  DEF IInv, TypeOK, GenRecord, PostRecord, BeatStates, TakeRecord
<1>0. /\ \A t \in TakeIds : t[2] # c =>
           take'[t] = take[t] /\ take[t].job # c
      /\ \A t \in TakeIds : t[2] = c =>
           /\ take[t] = NoTake
           /\ take'[t].status = "queued" /\ take'[t].job = c
              /\ take'[t].intent = "none" /\ take'[t].parent = 0
              /\ ~take'[t].gone
  BY CreateRows
<1>4. Unborn'
  <2>1. gen'[c].status # "none"
    BY <1>1, ChainedRows DEF NoGeneration
  <2>2. \A d \in Ids \ {c} : \A t \in TakeIds :
          gen[d].status = "none" => take'[t].job # d /\ (t[2] = d => take'[t] = NoTake)
    BY <1>0 DEF IInv, Unborn, NoTake
  <2> QED
    BY <1>1, <2>1, <2>2, ChainedRows DEF IInv, Unborn
<1>5. Generations'
  BY <1>1, ChainedRows, SMTT(30) DEF IInv, Generations, NoGeneration
<1>6. Asked'
  BY <1>1 DEF IInv, Asked
<1>7. Rows'
  BY <1>0 DEF IInv, Rows, NoTake
<1>8. \A t \in TakeIds : \/ take'[t] = take[t] /\ take[t].job # c
                         \/ /\ t[2] = c /\ t \in linked'[c]
                           /\ take'[t].status = "queued" /\ take'[t].job = c
                           /\ take'[t].intent = "none"
                           /\ \A d \in Ids : t \notin linked[d] /\ beat[d][t] = "none"
  <2>1. \A t \in TakeIds : t[2] # c => take'[t] = take[t] /\ take[t].job # c
    BY <1>1, <1>0 DEF IInv, Unborn, NoGeneration
  <2>3. \A t \in TakeIds : take[t] = NoTake =>
           \A d \in Ids : t \notin linked[d] /\ beat[d][t] = "none"
    BY DEF IInv, Links, LinksOf, Beats, BeatsOf, NoTake
  <2> QED
    BY <1>1, <1>0, <1>2, <2>1, <2>3, ChainedRows
<1>9. Links'
  <2>1. \A d \in Ids \ {c} : LinksOf(d)'
    <3> TAKE d \in Ids \ {c}
    <3>1. linked'[d] = linked[d] /\ (Working(d)' => Working(d))
      BY <1>1, ChainedRows DEF Working, Lost, Pending
    <3>2. \A t \in TakeIds : t \in linked[d] => take'[t] = take[t]
      BY <1>8
    <3>3. \A t \in TakeIds : take'[t].job = d => take'[t] = take[t]
      BY <1>8
    <3> QED
      BY <3>1, <3>2, <3>3 DEF IInv, Links, LinksOf
  <2>2. \A t \in TakeIds : t \in linked'[c] <=> t[2] = c
    BY <1>1, <1>2, ChainedRows
  <2>3. \A t \in TakeIds : take'[t].job = c => t[2] = c
    BY <1>8
  <2>4. LinksOf(c)'
    BY <1>0, <2>2, <2>3 DEF LinksOf
  <2> QED
    BY <2>1, <2>4 DEF Links
<1>10. Posts'
  <2>1. ASSUME NEW d \in Ids \ {c} PROVE PostOf(d)'
    <3>1. /\ post'[d] = post[d] /\ gen'[d] = gen[d] /\ back' = back
      BY <1>1, ChainedRows
    <3>2. \A t \in TakeIds : take'[t].job = d => take'[t] = take[t]
      BY <1>8
    <3>3. PostOf(d)
      BY DEF IInv, Posts
    <3> QED
      BY <3>1, <3>2, <3>3, PostKept
  <2>2. ~Lost(c)'
    BY ChainedRows, <1>1 DEF Lost, Pending, NoGeneration
  <2>3. post'[c] = [NoPost EXCEPT !.status = "blocked"]
    BY <1>1, ChainedRows
  <2>4. \A t \in TakeIds : take'[t].job = c =>
          take'[t].status = "queued" /\ take'[t].intent = "none"
    BY <1>8
  <2>5. PostOf(c)'
    BY <2>2, <2>3, <2>4 DEF PostOf, NoPost
  <2> QED
    BY <2>1, <2>5 DEF Posts
<1>11. Beats'
  <2>1. ASSUME NEW d \in Ids \ {c} PROVE BeatsOf(d)'
    <3>1. /\ post'[d] = post[d] /\ beat'[d] = beat[d]
          /\ linked'[d] = linked[d]
      BY <1>1, ChainedRows
    <3>2. \A t \in TakeIds : t \in linked[d] => take'[t] = take[t]
      BY <1>8
    <3> QED
      BY <3>1, <3>2 DEF IInv, Beats, BeatsOf
  <2>2. post'[c] = [NoPost EXCEPT !.status = "blocked"]
    BY <1>1, ChainedRows
  <2>3. post'[c].status # "succeeded"
    BY <2>2 DEF NoPost
  <2>4. \A t \in TakeIds :
          /\ beat'[c][t] # "queued" /\ beat'[c][t] # "failed"
          /\ beat'[c][t] # "none" => t \in linked'[c]
    BY <1>1, ChainedRows
  <2>5. BeatsOf(c)'
    BY <2>3, <2>4 DEF BeatsOf
  <2> QED
    BY <2>1, <2>5 DEF Beats
<1>12. Kin'
  <2>1. \A t \in TakeIds : take'[t].parent = take[t].parent
    BY <1>0 DEF NoTake
  <2>2. \A t \in TakeIds : Claimed(t)' <=> Claimed(t)
    BY <2>1 DEF Claimed
  <2>3. \A t \in TakeIds : take[t].status = "failed" => take'[t].status = "failed"
    BY <1>0 DEF NoTake
  <2> QED
    BY <2>1, <2>2, <2>3 DEF IInv, Kin
<1> QED
  BY <1>3, <1>4, <1>5, <1>6, <1>7, <1>9, <1>10, <1>11, <1>12 DEF IInv

LEMMA UnbornKept ==
  ASSUME IInv,
         \A d \in Ids : gen'[d].status = "none" =>
           /\ gen'[d] = gen[d] /\ post'[d] = post[d]
           /\ linked'[d] = linked[d] /\ beat'[d] = beat[d],
         \A u \in TakeIds : /\ take'[u].job = take[u].job
                            /\ take[u] = NoTake => take'[u] = NoTake
  PROVE  Unborn'
BY DEF IInv, Unborn

LEMMA TerminalizedRows ==
  ASSUME IInv, NEW c \in Ids, NEW status \in {"failed", "cancelled"},
         take' = Terminalized(c, status)
  PROVE  /\ take' \in [TakeIds -> TakeRecord] /\ Rows'
         /\ \A t \in TakeIds :
              /\ take'[t].job = take[t].job /\ take'[t].intent = take[t].intent
              /\ take'[t].gone = take[t].gone
              /\ take'[t].parent = take[t].parent
              /\ \/ take'[t] = take[t]
                 \/ /\ take[t].job = c /\ take[t].status = "queued"
                    /\ take[t].intent = "none" /\ take'[t].status = status
              /\ take[t].job = c /\ take'[t].status = "queued" =>
                   take[t].intent = "open"
<1>1. \A t \in TakeIds : [take[t] EXCEPT !.status = status] \in TakeRecord
  BY Typed DEF TakeRecord
<1>2. \A t \in TakeIds :
        \/ take'[t] = take[t]
        \/ /\ take[t].job = c /\ take[t].status = "queued" /\ ~take[t].gone
           /\ take[t].intent = "none"
           /\ take'[t] = [take[t] EXCEPT !.status = status]
  BY DEF Terminalized
<1>3. \A t \in TakeIds :
        (/\ take[t].job = c /\ take[t].status = "queued" /\ ~take[t].gone
         /\ take[t].intent = "none")
        => take'[t] = [take[t] EXCEPT !.status = status]
  BY DEF Terminalized
<1>4. take' \in [TakeIds -> TakeRecord]
  BY Typed, <1>1 DEF Terminalized
<1>5. \A t \in TakeIds :
        \/ take'[t] = take[t]
        \/ /\ take[t].job = c /\ take[t].status = "queued" /\ ~take[t].gone
           /\ take[t].intent = "none" /\ take'[t].status = status
           /\ take'[t].job = take[t].job /\ take'[t].intent = take[t].intent
           /\ take'[t].gone = take[t].gone
           /\ take'[t].parent = take[t].parent
  BY Typed, <1>2, ZenonT(40) DEF TakeRecord
<1>6. Rows'
  BY <1>5 DEF IInv, Rows
<1>7. \A t \in TakeIds : take[t].job = c /\ take'[t].status = "queued" =>
        take[t].intent = "open"
  <2> SUFFICES ASSUME NEW t \in TakeIds, take[t].job = c,
                      take'[t].status = "queued"
               PROVE  take[t].intent = "open"
    OBVIOUS
  <2>1. take'[t] = take[t]
    BY <1>5
  <2>2. take[t].status = "queued" /\ ~take[t].gone
    BY <2>1 DEF IInv, Rows
  <2>3. take[t].intent # "none"
    BY <1>1, <1>3, <2>1, <2>2, Typed DEF TakeRecord
  <2> QED
    BY <2>2, <2>3 DEF IInv, Rows
<1> QED
  BY <1>4, <1>5, <1>6, <1>7

LEMMA KinKept ==
  ASSUME IInv,
         \A u \in TakeIds : /\ take'[u].parent = take[u].parent
                            /\ take[u].status = "failed" =>
                                 take'[u].status = "failed"
  PROVE  Kin'
<1>1. \A u \in TakeIds : Claimed(u)' <=> Claimed(u)
  BY DEF Claimed
<1> QED
  BY <1>1 DEF IInv, Kin

\* fail_plan: the takes were left as the generation made them.
LEMMA PlanFails ==
  ASSUME IInv, NEW c \in Ids, post[c].status = "running", ~Executed(c),
         post' = [post EXCEPT ![c].status = "failed", ![c].why = "plan"],
         UNCHANGED <<gen, linked, beat, take, back>>
  PROVE  /\ post' \in [Ids -> PostRecord]
         /\ Unborn' /\ Links' /\ Posts' /\ Beats'
<1>1. /\ post' \in [Ids -> PostRecord]
      /\ post'[c].status = "failed" /\ post'[c].why = "plan"
      /\ \A d \in Ids \ {c} : post'[d] = post[d]
  BY Typed DEF PostRecord, Ended
<1>2. gen[c].status = "succeeded"
  BY DEF IInv, Posts, PostOf
<1>3. Unborn'
  BY <1>1, <1>2, UnbornKept
<1>4. Links'
  <2>1. ASSUME NEW d \in Ids PROVE Working(d)' => Working(d)
    BY <1>1 DEF Working, Lost, Pending, Ended
  <2> QED
    BY <2>1 DEF IInv, Links, LinksOf
<1>5. Posts'
  <2>1. ASSUME NEW d \in Ids, d # c PROVE PostOf(d)'
    BY <1>1, <2>1, PostKept DEF IInv, Posts
  <2>2. \A t \in TakeIds : take[t].job = c => take[t].intent = "none"
    BY DEF Executed, IInv, Links, LinksOf
  <2>3. PostOf(c) /\ (Lost(c)' <=> Lost(c))
    BY DEF IInv, Posts, Lost, Pending
  <2>4. PostOf(c)'
    BY <1>1, <2>2, <2>3 DEF PostOf
  <2> QED
    BY <2>1, <2>4 DEF Posts
<1>6. Beats'
  <2>1. ASSUME NEW d \in Ids, d # c PROVE BeatsOf(d)'
    BY <1>1, <2>1 DEF IInv, Beats, BeatsOf
  <2>2. \A t \in TakeIds : /\ beat[c][t] # "none" => t \in linked[c]
                           /\ beat[c][t] \notin {"queued", "failed"}
    BY DEF IInv, Beats, BeatsOf, Ended
  <2>3. BeatsOf(c)'
    BY <1>1, <2>2 DEF BeatsOf
  <2> QED
    BY <2>1, <2>3 DEF Beats
<1> QED
  BY <1>1, <1>3, <1>4, <1>5, <1>6

\* What a retry does to the takes: it leaves them, puts them in its queue again
\* or gives them a child.
Again(t, asked, n) ==
  /\ t \in asked /\ take[t].intent = "none"
  /\ take'[t].status = "queued" /\ take'[t].job = n
  /\ take'[t].intent = "none" /\ ~take'[t].gone
  /\ take'[t].parent = take[t].parent
Begot(t, asked, n) ==
  /\ t[2] = n /\ take[t] = NoTake
  /\ take'[t].status = "queued" /\ take'[t].job = n
  /\ take'[t].intent = "none" /\ ~take'[t].gone
  /\ \E u \in asked : /\ u[1] = t[1] /\ take'[t].parent = u[2]
                      /\ take[u].intent # "none"

LEMMA GivenRows ==
  ASSUME IInv, NEW n \in Ids, gen[n] = NoGeneration, NEW c,
         NEW asked \in SUBSET TakeIds, asked \subseteq FailedHere(c),
         Given(asked, n)
  PROVE  /\ take' \in [TakeIds -> TakeRecord]
         /\ \E takes \in SUBSET TakeIds :
              /\ Chained(n, takes)
              /\ \A t \in TakeIds :
                   \/ take'[t] = take[t] /\ t \notin takes
                   \/ Again(t, asked, n) /\ t \in takes
                   \/ Begot(t, asked, n) /\ t \in takes
<1> DEFINE kept == {t \in asked : take[t].intent # "none"}
           children == {<<t[1], n>> : t \in kept}
           takes == children \cup (asked \ kept)
           Elder(t) == CHOOSE u \in kept : u[1] = t[1]
<1>1. /\ take' = [t \in TakeIds |->
           IF t \in children THEN Child(Elder(t), n)
           ELSE IF t \in asked \ kept THEN Requeued(t, n) ELSE take[t]]
      /\ Chained(n, takes)
  BY DEF Given
<1>2. \A t \in kept : <<t[1], n>> \in TakeIds
  BY DEF TakeIds
<1>3. takes \in SUBSET TakeIds
  BY <1>2
<1>4. \A t \in children : Elder(t) \in kept /\ Elder(t)[1] = t[1]
  <2> TAKE t \in children
  <2>1. \E u \in kept : u[1] = t[1]
    OBVIOUS
  <2> QED
    BY <2>1
<1>5. \A t \in children : t[2] = n /\ t \in TakeIds /\ take[t] = NoTake
  BY <1>2 DEF IInv, Unborn, NoGeneration
<1>6. ASSUME NEW u \in TakeIds, NEW x, x = Child(u, n)
      PROVE  /\ x \in TakeRecord
             /\ x.status = "queued" /\ x.job = n /\ x.intent = "none"
             /\ ~x.gone /\ x.parent = u[2]
  <2>1. u[2] \in 0..Size
    BY Numbers DEF TakeIds
  <2> QED
    BY <1>6, <2>1, Numbers DEF Child, NoTake, TakeRecord
<1>7. ASSUME NEW u \in asked \ kept, NEW x, x = Requeued(u, n)
      PROVE  /\ x \in TakeRecord
             /\ x.status = "queued" /\ x.job = n /\ x.intent = "none"
             /\ ~x.gone /\ x.parent = take[u].parent
  BY <1>7, Typed, Numbers, ZenonT(40) DEF Requeued, TakeRecord, FailedHere
<1>8. ASSUME NEW t \in children
      PROVE  take'[t] \in TakeRecord /\ Begot(t, asked, n)
  <2>1. Elder(t) \in kept /\ Elder(t)[1] = t[1] /\ Elder(t) \in TakeIds
    BY <1>4
  <2>2. take'[t] = Child(Elder(t), n)
    BY <1>1, <1>5
  <2>3. /\ take'[t] \in TakeRecord
        /\ take'[t].status = "queued" /\ take'[t].job = n
        /\ take'[t].intent = "none" /\ ~take'[t].gone
        /\ take'[t].parent = Elder(t)[2]
    BY <1>6, <2>1, <2>2
  <2>4. \E u \in asked : /\ u[1] = t[1] /\ take'[t].parent = u[2]
                         /\ take[u].intent # "none"
    BY <2>1, <2>3
  <2> QED
    BY <1>5, <2>3, <2>4 DEF Begot
<1>9. ASSUME NEW t \in asked \ kept
      PROVE  take'[t] \in TakeRecord /\ Again(t, asked, n)
  <2>1. take[t].status = "failed" /\ take[t].intent = "none" /\ t \in TakeIds
    BY DEF FailedHere
  <2>2. t \notin children
    BY <1>5, <2>1 DEF NoTake
  <2>3. take'[t] = Requeued(t, n)
    BY <1>1, <2>1, <2>2
  <2> QED
    BY <1>7, <2>1, <2>3 DEF Again
<1>10. ASSUME NEW t \in TakeIds, t \notin takes
       PROVE  take'[t] \in TakeRecord /\ take'[t] = take[t]
  BY <1>1, <1>10, Typed
<1>11. take' \in [TakeIds -> TakeRecord]
  <2>1. \A t \in TakeIds : take'[t] \in TakeRecord
    BY <1>8, <1>9, <1>10
  <2> QED
    BY <1>1, <2>1
<1>12. \A t \in TakeIds :
         \/ take'[t] = take[t] /\ t \notin takes
         \/ Again(t, asked, n) /\ t \in takes
         \/ Begot(t, asked, n) /\ t \in takes
  BY <1>8, <1>9, <1>10
<1> QED
  BY <1>1, <1>3, <1>11, <1>12

\* What a retry gives away keeps the invariant: the takes it moves belonged to
\* a chain that is over, and nobody had given them away before.
LEMMA GivenKeeps ==
  ASSUME IInv, NEW n \in Ids, gen[n] = NoGeneration, NEW c \in Ids,
         NEW asked \in SUBSET TakeIds, asked \subseteq FailedHere(c),
         Given(asked, n), back' = back
  PROVE  /\ gen' \in [Ids -> GenRecord] /\ post' \in [Ids -> PostRecord]
         /\ linked' \in [Ids -> SUBSET TakeIds]
         /\ beat' \in [Ids -> [TakeIds -> BeatStates]]
         /\ take' \in [TakeIds -> TakeRecord]
         /\ Unborn' /\ Generations' /\ Rows' /\ Links' /\ Posts' /\ Beats'
         /\ Kin'
<1>1. take' \in [TakeIds -> TakeRecord]
  BY GivenRows
<1>2. PICK takes \in SUBSET TakeIds :
        /\ Chained(n, takes)
        /\ \A t \in TakeIds :
             \/ take'[t] = take[t] /\ t \notin takes
             \/ Again(t, asked, n) /\ t \in takes
             \/ Begot(t, asked, n) /\ t \in takes
  BY GivenRows
<1>3. /\ gen' \in [Ids -> GenRecord] /\ post' \in [Ids -> PostRecord]
      /\ linked' \in [Ids -> SUBSET TakeIds]
      /\ beat' \in [Ids -> [TakeIds -> BeatStates]]
      /\ \A d \in Ids \ {n} :
           /\ gen'[d] = gen[d] /\ post'[d] = post[d]
           /\ linked'[d] = linked[d] /\ beat'[d] = beat[d]
      /\ gen'[n] = [NoGeneration EXCEPT !.status = "queued"]
      /\ post'[n] = [NoPost EXCEPT !.status = "blocked"]
      /\ linked'[n] = takes
      /\ \A t \in TakeIds :
           beat'[n][t] = IF t \in takes THEN "blocked" ELSE "none"
  BY <1>2, ChainedRows
<1>4. /\ gen'[n].status = "queued" /\ gen'[n].attempt = 0 /\ ~gen'[n].more
      /\ post'[n].status = "blocked" /\ post'[n].why = "none"
  BY <1>3 DEF NoGeneration, NoPost
<1>5. \A t \in TakeIds : take[t].job # n /\ (t[2] = n => take[t] = NoTake)
  BY DEF IInv, Unborn, NoGeneration
<1>6. \A t \in asked : /\ t \in TakeIds /\ take[t].job = c /\ ~Claimed(t)
                       /\ take[t].status = "failed"
  BY DEF FailedHere
<1>7. \A t \in TakeIds : take[t] = NoTake =>
        /\ take[t].status = "none"
        /\ \A d \in Ids : t \notin linked[d] /\ beat[d][t] = "none"
  BY DEF IInv, Links, LinksOf, Beats, BeatsOf, NoTake
<1>8. \A t \in TakeIds : Again(t, asked, n) => Lost(c)
  BY <1>6 DEF Again, IInv, Posts, PostOf
<1>9. \A t \in TakeIds : \A d \in Ids \ {n} :
        take'[t].job = d => take'[t] = take[t]
  BY <1>2 DEF Again, Begot
<1>10. Unborn'
  <2>1. \A d \in Ids : \A t \in TakeIds :
          gen'[d].status = "none" =>
            take'[t].job # d /\ (t[2] = d => take'[t] = NoTake)
    <3> SUFFICES ASSUME NEW d \in Ids, NEW t \in TakeIds,
                        gen'[d].status = "none"
                 PROVE  take'[t].job # d /\ (t[2] = d => take'[t] = NoTake)
      OBVIOUS
    <3>1. d # n /\ gen[d].status = "none"
      BY <1>3, <1>4
    <3>2. take[t].job # d /\ (t[2] = d => take[t] = NoTake)
      BY <3>1 DEF IInv, Unborn
    <3>3. Again(t, asked, n) => t[2] # d
      BY <1>6, <1>7, <3>2 DEF Again
    <3> QED
      BY <1>2, <3>1, <3>2, <3>3 DEF Again, Begot
  <2>2. \A d \in Ids : gen'[d].status = "none" =>
          d \in Ids \ {n} /\ gen[d].status = "none"
    BY <1>3, <1>4
  <2> QED
    BY <1>3, <2>1, <2>2 DEF IInv, Unborn
<1>11. Generations'
  <2>1. \A d \in Ids \ {n} : gen'[d] = gen[d]
    BY <1>3
  <2> QED
    BY <1>4, <2>1 DEF IInv, Generations
<1>12. Rows'
  BY <1>2 DEF IInv, Rows, Again, Begot
<1>13. Links'
  <2>1. ASSUME NEW d \in Ids \ {n} PROVE LinksOf(d)'
    <3>1. linked'[d] = linked[d] /\ (Working(d)' <=> Working(d)) /\ LinksOf(d)
      BY <1>3 DEF Working, Lost, Pending, IInv, Links
    <3>2. \A t \in TakeIds : Begot(t, asked, n) => t \notin linked[d]
      BY <1>7 DEF Begot
    <3>3. \A t \in TakeIds : t \in linked[d] => take'[t].status # "none"
      BY <1>2, <3>1, <3>2 DEF Again, LinksOf
    <3>4. \A t \in TakeIds :
            t \in linked[d] /\ Working(d) => ~Again(t, asked, n)
      BY <1>6, <1>8, <3>1 DEF Again, LinksOf, Working
    <3>5. \A t \in TakeIds : t \in linked[d] /\ Working(d) => take'[t].job = d
      BY <1>2, <3>1, <3>2, <3>4 DEF LinksOf
    <3>6. \A t \in TakeIds : take'[t].job = d => t \in linked[d]
      BY <1>9, <3>1 DEF LinksOf
    <3> QED
      BY <3>1, <3>3, <3>5, <3>6 DEF LinksOf
  <2>2. \A t \in TakeIds :
          /\ take'[t].job = n => t \in takes
          /\ t \in takes => take'[t].status = "queued" /\ take'[t].job = n
    BY <1>2, <1>5 DEF Again, Begot
  <2>3. LinksOf(n)'
    BY <1>3, <2>2 DEF LinksOf
  <2> QED
    BY <2>1, <2>3 DEF Links
<1>14. Posts'
  <2>1. ASSUME NEW d \in Ids \ {n} PROVE PostOf(d)'
    <3>1. PostOf(d) /\ gen'[d] = gen[d] /\ post'[d] = post[d]
      BY <1>3 DEF IInv, Posts
    <3>2. \A t \in TakeIds : take'[t].job = d => take'[t] = take[t]
      BY <1>9
    <3> QED
      BY <3>1, <3>2, PostKept
  <2>2. ~Lost(n)'
    BY <1>4 DEF Lost
  <2>3. \A t \in TakeIds : take'[t].job = n =>
          take'[t].status = "queued" /\ take'[t].intent = "none"
    BY <1>2, <1>5 DEF Again, Begot
  <2>4. PostOf(n)'
    BY <1>4, <2>2, <2>3 DEF PostOf
  <2> QED
    BY <2>1, <2>4 DEF Posts
<1>15. Beats'
  <2>1. ASSUME NEW d \in Ids \ {n} PROVE BeatsOf(d)'
    <3>1. /\ post'[d] = post[d] /\ beat'[d] = beat[d]
          /\ linked'[d] = linked[d] /\ BeatsOf(d)
      BY <1>3 DEF IInv, Beats
    <3>2. \A t \in TakeIds : beat[d][t] # "none" =>
            \/ take'[t] = take[t]
            \/ take[t].intent = "none" /\ take'[t].intent = "none"
      BY <1>2, <1>7 DEF Again, Begot
    <3> QED
      BY <3>1, <3>2 DEF BeatsOf
  <2>2. BeatsOf(n)'
    BY <1>3, <1>4 DEF BeatsOf
  <2> QED
    BY <2>1, <2>2 DEF Beats
<1>16. Kin'
  <2>1. \A u, t \in TakeIds :
          u[1] = t[1] /\ take'[u].parent = t[2] =>
            \/ /\ take'[u].parent = take[u].parent
               /\ Claimed(t) /\ t \notin asked
            \/ u[2] = n /\ t \in asked /\ take[t].intent # "none"
    <3> SUFFICES ASSUME NEW u \in TakeIds, NEW t \in TakeIds,
                        u[1] = t[1], take'[u].parent = t[2]
                 PROVE  \/ /\ take'[u].parent = take[u].parent
                           /\ Claimed(t) /\ t \notin asked
                        \/ /\ u[2] = n /\ t \in asked
                           /\ take[t].intent # "none"
      OBVIOUS
    <3>1. CASE take'[u].parent = take[u].parent
      BY <1>6, <3>1 DEF Claimed
    <3>2. CASE Begot(u, asked, n)
      <4>1. PICK v \in asked : /\ v[1] = u[1] /\ take'[u].parent = v[2]
                               /\ take[v].intent # "none"
        BY <3>2 DEF Begot
      <4>2. v[1] = t[1] /\ v[2] = t[2] /\ v \in TakeIds
        BY <1>6, <4>1
      <4>3. v = t
        BY <4>2 DEF TakeIds
      <4> QED
        BY <3>2, <4>1, <4>3 DEF Begot
    <3> QED
      BY <1>2, <3>1, <3>2 DEF Again
  <2>2. \A t \in TakeIds : Claimed(t)' => take'[t].status = "failed"
    <3> SUFFICES ASSUME NEW t \in TakeIds, Claimed(t)'
                 PROVE  take'[t].status = "failed"
      OBVIOUS
    <3>1. PICK u \in TakeIds : u[1] = t[1] /\ take'[u].parent = t[2]
      BY DEF Claimed
    <3>2. take[t].status = "failed" /\ ~Again(t, asked, n)
      BY <1>6, <2>1, <3>1 DEF IInv, Kin, Again
    <3>3. ~Begot(t, asked, n)
      BY <1>7, <3>2 DEF Begot
    <3> QED
      BY <1>2, <3>2, <3>3
  <2>3. ASSUME NEW t \in TakeIds, NEW u \in TakeIds, NEW w \in TakeIds,
               u[1] = t[1], take'[u].parent = t[2],
               w[1] = t[1], take'[w].parent = t[2]
        PROVE  u = w
    <3>1. CASE t \in asked
      <4>1. u[2] = n /\ w[2] = n
        BY <2>1, <2>3, <3>1
      <4> QED
        BY <2>3, <4>1 DEF TakeIds
    <3>2. CASE t \notin asked
      <4>1. take[u].parent = t[2] /\ take[w].parent = t[2]
        BY <2>1, <2>3, <3>2
      <4> QED
        BY <2>3, <4>1 DEF IInv, Kin
    <3> QED
      BY <3>1, <3>2
  <2> QED
    BY <2>2, <2>3 DEF Kin
<1> QED
  BY <1>1, <1>3, <1>10, <1>11, <1>12, <1>13, <1>14, <1>15, <1>16

LEMMA GenStartsStep ==
  ASSUME IInv, NEW c \in Ids, GenStarts(c) PROVE IInv'
<1>1. TypeOK'
  <2>1. gen' \in [Ids -> GenRecord]
    BY Typed DEF GenStarts, Pending, memory, history, GenRecord, Ended
  <2> QED
    BY <2>1 DEF GenStarts, memory, history, IInv, TypeOK, GenRecord,
        PostRecord, BeatStates, TakeRecord, AskRecord
<1>2. Unborn'
  BY Typed DEF GenStarts, Pending, memory, history, IInv, Unborn,
      NoGeneration, NoPost, NoTake, GenRecord, PostRecord, BeatStates,
      TakeRecord
<1>3. Generations'
  BY Typed DEF GenStarts, Pending, memory, history, IInv, Generations,
      GenRecord
<1>4. Links'
  BY Typed DEF GenStarts, Pending, memory, history, IInv, Links, LinksOf,
      Working, Lost, Ended, TakeRecord, GenRecord, PostRecord, Rows,
      Generations
<1>5. Posts'
  BY Typed DEF GenStarts, Pending, memory, history, IInv, Posts, PostOf, Lost,
      GenRecord, PostRecord, TakeRecord, Rows, Generations
<1>6. Asked' /\ Rows' /\ Beats' /\ Kin'
  BY DEF GenStarts, memory, history, IInv, Asked, Rows, Beats, Kin, NoRequest,
      NoTake, BeatsOf, Ended, Claimed
<1> QED
  BY <1>1, <1>2, <1>3, <1>4, <1>5, <1>6 DEF IInv

LEMMA GenEndsStep ==
  ASSUME IInv, NEW c \in Ids, NEW end \in Ended, NEW more \in BOOLEAN, GenEnds(c, end, more) PROVE IInv'
<1>1. TypeOK'
  <2>1. gen' \in [Ids -> GenRecord]
    <3>1. PICK status \in Ended :
            gen' = [gen EXCEPT ![c].status = status, ![c].more = more]
      BY DEF GenEnds, Ended
    <3> QED
      BY Typed, <3>1, ZenonT(40) DEF GenRecord
  <2>2. take' \in [TakeIds -> TakeRecord]
    <3>1. \/ take' = take
          \/ \E status \in {"failed", "cancelled"} :
               take' = Terminalized(c, status)
      BY DEF GenEnds, Ended
    <3> QED
      BY Typed, <3>1, TerminalizedRows
  <2>3. faults' \in 0..MaxFaults
    BY ChainsAssumption DEF GenEnds, Fault, Terminalized, memory, history,
        IInv, TypeOK
  <2> QED
    BY <2>1, <2>2, <2>3 DEF GenEnds, Fault, memory, history, IInv, TypeOK,
        GenRecord, PostRecord, BeatStates, TakeRecord, AskRecord
<1>2. Unborn'
  <2>1. \/ take' = take
        \/ \E status \in {"failed", "cancelled"} :
             take' = Terminalized(c, status)
    BY DEF GenEnds, Ended
  <2>2. \A u \in TakeIds : /\ take'[u].job = take[u].job
                           /\ take[u] = NoTake => take'[u] = NoTake
    <3>1. \A t \in TakeIds : take[t] = NoTake => take[t].status = "none"
      BY DEF NoTake
    <3> QED
      BY <2>1, <3>1, TerminalizedRows
  <2>3. \A d \in Ids : gen'[d].status = "none" => gen'[d] = gen[d]
    BY Typed DEF GenEnds, Ended, GenRecord
  <2>4. \A d \in Ids : /\ post'[d] = post[d] /\ linked'[d] = linked[d]
                       /\ beat'[d] = beat[d]
    BY DEF GenEnds
  <2> QED
    BY <2>2, <2>3, <2>4, UnbornKept
<1>3. Generations'
  <2>1. PICK status \in Ended :
          /\ gen' = [gen EXCEPT ![c].status = status, ![c].more = more]
          /\ more => status = "failed" /\ gen[c].attempt < MaxAttempts
    BY DEF GenEnds, Ended
  <2>2. /\ gen'[c].status = status /\ gen'[c].more = more
        /\ gen'[c].attempt = gen[c].attempt
        /\ \A d \in Ids : d # c => gen'[d] = gen[d]
    BY Typed, <2>1 DEF GenRecord
  <2>3. gen'[c].status # "queued"
    BY <2>2 DEF Ended
  <2> QED
    BY <2>1, <2>2, <2>3 DEF IInv, Generations
<1>4. Rows'
  <2>1. \/ take' = take
        \/ \E status \in {"failed", "cancelled"} :
             take' = Terminalized(c, status)
    BY DEF GenEnds, Ended
  <2>2. take' = take => Rows'
    BY DEF IInv, Rows
  <2> QED
    BY <2>1, <2>2, TerminalizedRows
<1>5. Links'
  BY Typed, SMTT(30)
     DEF GenEnds, Fault, Terminalized, memory, history, IInv, Links,
      LinksOf, Working, Lost, Pending, Ended, TakeRecord, GenRecord,
      PostRecord, Rows, Generations
<1>6. Posts'
  BY Typed, SMTT(30)
     DEF GenEnds, Fault, Terminalized, memory, history, IInv, Posts,
      PostOf, Lost, Pending, GenRecord, PostRecord, TakeRecord, Rows,
      Generations
<1>7. Beats'
  BY Typed DEF GenEnds, Fault, Terminalized, memory, history, IInv, Beats,
      BeatsOf, Ended, BeatStates, PostRecord, TakeRecord, Rows, Generations
<1>8. Kin'
  BY Typed DEF GenEnds, Fault, Terminalized, memory, history, IInv, Kin,
      Claimed, TakeRecord
<1>9. Asked'
  BY DEF GenEnds, Fault, memory, history, IInv, Asked, NoRequest
<1> QED
  BY <1>1, <1>2, <1>3, <1>4, <1>5, <1>6, <1>7, <1>8, <1>9 DEF IInv

LEMMA GenGivesUpStep ==
  ASSUME IInv, NEW c \in Ids, GenGivesUp(c) PROVE IInv'
<1>1. TypeOK'
  <2>1. gen' \in [Ids -> GenRecord]
    BY Typed DEF GenGivesUp, GenRecord
  <2>2. take' \in [TakeIds -> TakeRecord]
    BY TerminalizedRows DEF GenGivesUp
  <2> QED
    BY <2>1, <2>2 DEF GenGivesUp, memory, history, IInv, TypeOK, GenRecord,
        PostRecord, BeatStates, TakeRecord, AskRecord
<1>2. Unborn'
  BY Typed DEF GenGivesUp, Pending, Terminalized, memory, history, IInv,
      Unborn, NoGeneration, NoPost, NoTake, GenRecord, PostRecord, BeatStates,
      TakeRecord
<1>3. Generations'
  BY Typed DEF GenGivesUp, Pending, Terminalized, memory, history, IInv,
      Generations, GenRecord
<1>4. Rows'
  <2>1. \/ take' = take
        \/ \E status \in {"failed", "cancelled"} :
             take' = Terminalized(c, status)
    BY DEF GenGivesUp, Ended
  <2>2. take' = take => Rows'
    BY DEF IInv, Rows
  <2> QED
    BY <2>1, <2>2, TerminalizedRows
<1>5. Links'
  BY Typed DEF GenGivesUp, Pending, Terminalized, memory, history, IInv,
      Links, LinksOf, Working, Lost, Ended, TakeRecord, GenRecord, PostRecord,
      Rows, Generations
<1>6. Posts'
  BY Typed DEF GenGivesUp, Pending, Terminalized, memory, history, IInv,
      Posts, PostOf, Lost, GenRecord, PostRecord, TakeRecord, Rows,
      Generations
<1>7. Beats'
  BY Typed DEF GenGivesUp, Pending, Terminalized, memory, history, IInv,
      Beats, BeatsOf, Ended, BeatStates, PostRecord, TakeRecord, Rows,
      Generations
<1>8. Kin'
  BY Typed DEF GenGivesUp, Pending, Terminalized, memory, history, IInv, Kin,
      Claimed, TakeRecord
<1>9. Asked'
  BY DEF GenGivesUp, memory, history, IInv, Asked, NoRequest
<1> QED
  BY <1>1, <1>2, <1>3, <1>4, <1>5, <1>6, <1>7, <1>8, <1>9 DEF IInv

LEMMA CancelGenerationStep ==
  ASSUME IInv, NEW c \in Ids, CancelGeneration(c) PROVE IInv'
<1>1. TypeOK'
  <2>1. gen' \in [Ids -> GenRecord]
    <3>1. PICK s \in {"none", "queued", "running"} \cup Ended :
            gen' = [gen EXCEPT ![c].cancel = TRUE, ![c].status = s]
      BY Typed DEF CancelGeneration, GenRecord, Ended
    <3>2. [gen[c] EXCEPT !.cancel = TRUE, !.status = s] \in GenRecord
      BY Typed, ZenonT(40) DEF GenRecord, Ended
    <3>3. gen' = [gen EXCEPT ![c] =
                     [gen[c] EXCEPT !.cancel = TRUE, !.status = s]]
      BY Typed, <3>1
    <3> QED
      BY Typed, <3>2, <3>3
  <2>2. take' \in [TakeIds -> TakeRecord]
    BY Typed, ZenonT(40)
       DEF CancelGeneration, Edit, Terminalized, memory, TakeRecord
  <2>3. edits' \in 0..MaxEdits
    BY ChainsAssumption DEF CancelGeneration, Edit, Terminalized, memory,
        IInv, TypeOK
  <2> QED
    BY <2>1, <2>2, <2>3 DEF CancelGeneration, Edit, memory, IInv, TypeOK,
        GenRecord, PostRecord, BeatStates, TakeRecord, AskRecord
<1>2. Unborn'
  BY Typed DEF CancelGeneration, Edit, Terminalized, memory, IInv, Unborn,
      NoGeneration, NoPost, NoTake, GenRecord, PostRecord, BeatStates,
      TakeRecord
<1>3. Generations'
  BY Typed DEF CancelGeneration, Edit, Terminalized, memory, IInv,
      Generations, GenRecord
<1>4. Rows'
  <2>1. \/ take' = take
        \/ \E status \in {"failed", "cancelled"} :
             take' = Terminalized(c, status)
    BY DEF CancelGeneration, Ended
  <2>2. take' = take => Rows'
    BY DEF IInv, Rows
  <2> QED
    BY <2>1, <2>2, TerminalizedRows
<1>5. Links'
  BY Typed DEF CancelGeneration, Edit, Terminalized, memory, IInv, Links,
      LinksOf, Working, Lost, Pending, Ended, TakeRecord, GenRecord,
      PostRecord, Rows, Generations
<1>6. Posts'
  BY Typed DEF CancelGeneration, Edit, Terminalized, memory, IInv, Posts,
      PostOf, Lost, Pending, GenRecord, PostRecord, TakeRecord, Rows,
      Generations
<1>7. Beats'
  BY Typed DEF CancelGeneration, Edit, Terminalized, memory, IInv, Beats,
      BeatsOf, Ended, BeatStates, PostRecord, TakeRecord, Rows, Generations
<1>8. Kin'
  BY Typed DEF CancelGeneration, Edit, Terminalized, memory, IInv, Kin,
      Claimed, TakeRecord
<1>9. Asked'
  BY DEF CancelGeneration, Edit, memory, IInv, Asked, NoRequest
<1> QED
  BY <1>1, <1>2, <1>3, <1>4, <1>5, <1>6, <1>7, <1>8, <1>9 DEF IInv

LEMMA PassStep ==
  ASSUME IInv, NEW posts, NEW beats, Pass(posts, beats) PROVE IInv'
<1>1. /\ posts \subseteq StalePosts /\ beats \subseteq StaleBeats
      /\ post' = [c \in Ids |-> IF c \in posts THEN PostAfter(c) ELSE post[c]]
      /\ beat' = [c \in Ids |-> [t \in TakeIds |->
           IF <<c, t>> \in beats THEN BeatAfter(c, t) ELSE beat[c][t]]]
      /\ UNCHANGED <<song, gen, linked, take, ask, picked, resumed, back,
                     edits, faults>>
  BY DEF Pass, memory, history
<1>2. \A c \in Ids :
        /\ PostAfter(c) \in PostRecord
        /\ PostAfter(c).cancel = post[c].cancel
        /\ \/ /\ Lost(c) /\ PostAfter(c).status = "failed"
              /\ PostAfter(c).why = "dependency"
           \/ /\ gen[c].status # "succeeded"
              /\ PostAfter(c).status = "blocked"
              /\ PostAfter(c).why = post[c].why
           \/ /\ gen[c].status = "succeeded" /\ PostAfter(c).status = "queued"
              /\ PostAfter(c).why = post[c].why
  BY Typed DEF PostAfter, PostRecord, Ended
<1>3. \A c \in Ids :
        \/ post'[c] = post[c]
        \/ /\ post[c].status \in {"blocked", "queued"}
           /\ post'[c] = PostAfter(c)
  BY <1>1 DEF StalePosts
<1>4. \A c \in Ids : \A t \in TakeIds :
        \/ beat'[c][t] = beat[c][t]
        \/ /\ beat[c][t] = "blocked" /\ beat'[c][t] = "failed"
           /\ post[c].status \in {"failed", "cancelled"}
        \/ /\ beat[c][t] = "blocked" /\ beat'[c][t] = "queued"
           /\ post[c].status = "succeeded" /\ Available(c, t)
  BY <1>1 DEF StaleBeats, BeatAfter
<1>5. post' \in [Ids -> PostRecord] /\ beat' \in [Ids -> [TakeIds -> BeatStates]]
  BY Typed, <1>1, <1>2 DEF BeatAfter, BeatStates
<1>6. TypeOK'
  BY <1>1, <1>5 DEF IInv, TypeOK, PostRecord, BeatStates
<1>7. Unborn'
  <2>1. \A d \in Ids : gen[d].status = "none" =>
          post'[d] = post[d] /\ beat'[d] = beat[d]
    <3> SUFFICES ASSUME NEW d \in Ids, gen[d].status = "none"
                 PROVE  post'[d] = post[d] /\ beat'[d] = beat[d]
      OBVIOUS
    <3>1. post[d].status = "none" /\ \A t \in TakeIds : beat[d][t] = "none"
      BY DEF IInv, Unborn, NoPost
    <3>2. post'[d] = post[d]
      BY <1>3, <3>1
    <3>3. \A t \in TakeIds : beat'[d][t] = beat[d][t]
      BY <1>4, <3>1
    <3> QED
      BY Typed, <1>5, <3>2, <3>3
  <2> QED
    BY <1>1, <2>1, UnbornKept
<1>8. Links'
  <2>1. ASSUME NEW d \in Ids PROVE Working(d)' => Working(d)
    BY <1>1, <1>3 DEF Working, Lost, Pending, Ended
  <2> QED
    BY <1>1, <2>1 DEF IInv, Links, LinksOf
<1>9. Posts'
  <2> SUFFICES ASSUME NEW c \in Ids PROVE PostOf(c)'
    BY DEF Posts
  <2>1. PostOf(c)
    BY DEF IInv, Posts
  <2>2. CASE post'[c] = post[c]
    BY <1>1, <2>1, <2>2, PostKept
  <2>3. CASE post[c].status \in {"blocked", "queued"} /\ post'[c] = PostAfter(c)
    <3>1. \A t \in TakeIds : take[t].job = c =>
            /\ take[t].intent = "none"
            /\ take[t].status = "failed" => Lost(c)
            /\ Lost(c) /\ take[t].status = "queued" => t \in back
      BY <2>1, <2>3 DEF PostOf
    <3>2. Lost(c)' = Lost(c)
      BY <1>1 DEF Lost, Pending
    <3>3. post[c].why = "dependency" => Lost(c)
      BY <2>1 DEF PostOf
    <3> QED
      BY <1>1, <1>2, <2>3, <3>1, <3>2, <3>3 DEF PostOf
  <2> QED
    BY <1>3, <2>2, <2>3
<1>10. Beats'
  <2> SUFFICES ASSUME NEW c \in Ids PROVE BeatsOf(c)'
    BY DEF Beats
  <2>1. BeatsOf(c) /\ PostOf(c) /\ LinksOf(c)
    BY DEF IInv, Beats, Posts, Links
  <2>2. \A t \in TakeIds :
          /\ take[t].status = "ready" => take[t].intent = "committed"
          /\ post[c].status = "failed" =>
               take[t].intent # "committed" \/ take[t].job # c
    BY <2>1 DEF IInv, Rows, PostOf
  <2>3. post'[c].status = "succeeded" => post'[c] = post[c]
    BY <1>2, <1>3
  <2>4. post[c].status \in Ended => post'[c] = post[c]
    BY <1>3 DEF Ended
  <2> SUFFICES ASSUME NEW t \in TakeIds
               PROVE
      /\ beat'[c][t] # "none" => t \in linked[c]
      /\ beat'[c][t] = "queued" =>
           /\ post'[c].status = "succeeded"
           /\ take[t].intent = "committed" /\ take[t].job = c
      /\ beat'[c][t] = "failed" =>
           /\ post'[c].status \in Ended
           /\ \/ take[t].intent # "committed" \/ take[t].job # c
              \/ post'[c].status = "cancelled"
      /\ beat'[c][t] = "blocked" /\ post'[c].status = "succeeded" =>
           take[t].intent = "committed" /\ take[t].job = c
    BY <1>1 DEF BeatsOf
  <2>5. CASE beat'[c][t] = beat[c][t]
    BY <2>1, <2>3, <2>4, <2>5 DEF BeatsOf, Ended
  <2>6. CASE /\ beat[c][t] = "blocked" /\ beat'[c][t] = "failed"
             /\ post[c].status \in {"failed", "cancelled"}
    BY <2>1, <2>2, <2>4, <2>6 DEF BeatsOf, Ended
  <2>7. CASE /\ beat[c][t] = "blocked" /\ beat'[c][t] = "queued"
             /\ post[c].status = "succeeded" /\ Available(c, t)
    BY <2>1, <2>2, <2>4, <2>7 DEF BeatsOf, Ended, Available
  <2> QED
    BY <1>4, <2>5, <2>6, <2>7
<1>11. Generations' /\ Asked' /\ Rows' /\ Kin'
  BY <1>1, KinKept DEF IInv, Generations, Asked, Rows
<1> QED
  BY <1>6, <1>7, <1>8, <1>9, <1>10, <1>11 DEF IInv

LEMMA PickStep ==
  ASSUME IInv, NEW c \in Ids, Pick(c) PROVE IInv'
<1>1. TypeOK'
  <2> QED
    BY DEF Pick, jobs, history, IInv, TypeOK, GenRecord, PostRecord,
        BeatStates, TakeRecord, AskRecord
<1>2. Unborn' /\ Generations' /\ Asked' /\ Rows' /\ Links' /\ Posts' /\ Beats' /\ Kin'
  BY DEF Pick, jobs, history, IInv, Unborn, Generations, Asked, Rows, Links,
      Posts, Beats, Kin, NoGeneration, NoPost, NoTake, NoRequest, LinksOf,
      Working, Lost, Pending, Ended, PostOf, BeatsOf, Claimed
<1> QED
  BY <1>1, <1>2 DEF IInv

LEMMA ClaimStep ==
  ASSUME IInv, NEW c \in Ids, Claim(c) PROVE IInv'
<1>1. TypeOK'
  <2>1. post' \in [Ids -> PostRecord]
    BY Typed, ZenonT(40) DEF Claim, history, PostRecord, Ended
  <2> QED
    BY <2>1 DEF Claim, history, IInv, TypeOK, GenRecord, PostRecord,
        BeatStates, TakeRecord, AskRecord
<1>2. Unborn'
  BY Typed DEF Claim, history, IInv, Unborn, NoGeneration, NoPost, NoTake,
      GenRecord, PostRecord, BeatStates, TakeRecord
<1>3. Links'
  BY Typed DEF Claim, history, IInv, Links, LinksOf, Working, Lost, Pending,
      Ended, TakeRecord, GenRecord, PostRecord, Rows, Generations
<1>4. Posts'
  BY Typed DEF Claim, history, IInv, Posts, PostOf, Lost, Pending, GenRecord,
      PostRecord, TakeRecord, Rows, Generations
<1>5. Beats'
  BY Typed DEF Claim, history, IInv, Beats, BeatsOf, Ended, BeatStates,
      PostRecord, TakeRecord, Rows, Generations
<1>6. Generations' /\ Asked' /\ Rows' /\ Kin'
  BY DEF Claim, history, IInv, Generations, Asked, Rows, Kin, NoRequest,
      NoTake, Claimed
<1> QED
  BY <1>1, <1>2, <1>3, <1>4, <1>5, <1>6 DEF IInv

LEMMA ReserveStep ==
  ASSUME IInv, NEW c \in Ids, Reserve(c) PROVE IInv'
<1>1. CASE Authorised(c)
  <2>1. \A t \in linked[c] :
          take[t].job = c /\ ~take[t].gone /\ take[t].intent = "none"
    BY <1>1 DEF Reserve, Authorised, Whole, Executed
  <2>2. gen[c].status = "succeeded" /\ post[c].status = "running" /\ ~Lost(c)
    BY DEF Reserve, IInv, Posts, PostOf, Lost, Pending
  <2>3. \A t \in TakeIds : take[t].job = c => t \in linked[c]
    BY DEF IInv, Links, LinksOf
  <2>4. \A t \in linked[c] :
          t \in TakeIds /\ take[t].status \in {"queued", "cancelled"}
    <3> TAKE t \in linked[c]
    <3>1. t \in TakeIds /\ take[t].status # "none"
      BY Typed DEF IInv, Links, LinksOf
    <3>2. take[t].status # "ready"
      BY <2>1, <3>1 DEF IInv, Rows
    <3>3. take[t].status # "failed"
      BY <2>1, <2>2, <3>1 DEF IInv, Posts, PostOf
    <3> QED
      BY Typed, <3>1, <3>2, <3>3 DEF TakeRecord
  <2>5. \A t \in TakeIds : [take[t] EXCEPT !.intent = "open"] \in TakeRecord
    BY Typed DEF TakeRecord
  <2>6. take' = [t \in TakeIds |-> IF t \in linked[c]
                   THEN [take[t] EXCEPT !.intent = "open"] ELSE take[t]]
    BY <1>1 DEF Reserve
  <2>7. take' \in [TakeIds -> TakeRecord]
    BY Typed, <2>5, <2>6
  <2>8. \A t \in TakeIds :
          /\ take'[t].job = take[t].job /\ take'[t].status = take[t].status
          /\ take'[t].gone = take[t].gone
          /\ take'[t].parent = take[t].parent
          /\ t \in linked[c] => take'[t].intent = "open"
          /\ t \notin linked[c] => take'[t] = take[t]
    BY Typed, <2>6 DEF TakeRecord
  <2>9. UNCHANGED <<song, gen, post, linked, beat, ask, picked, resumed, back,
                    edits, faults>>
    BY <1>1 DEF Reserve, memory, history
  <2>10. TypeOK'
    BY <2>7, <2>9 DEF IInv, TypeOK, TakeRecord
  <2>11. Unborn'
    <3>1. \A t \in TakeIds : take[t] = NoTake => t \notin linked[c]
      BY <2>4 DEF NoTake
    <3> QED
      BY <2>8, <2>9, <3>1, UnbornKept
  <2>12. Rows'
    BY <2>1, <2>4, <2>8 DEF IInv, Rows
  <2>13. Links'
    BY <2>8, <2>9 DEF IInv, Links, LinksOf, Working, Lost, Pending
  <2>14. Posts'
    <3>1. ASSUME NEW d \in Ids, d # c PROVE PostOf(d)'
      <4>1. \A t \in TakeIds : take'[t].job = d => take'[t] = take[t]
        BY <2>1, <2>8, <3>1
      <4> QED
        BY <2>9, <4>1, PostKept DEF IInv, Posts
    <3>2. \A t \in TakeIds : take'[t].job = c =>
            take'[t].intent = "open" /\ take'[t].status # "failed"
      BY <2>3, <2>4, <2>8
    <3>3. PostOf(c) /\ Lost(c)' = Lost(c)
      BY <2>9 DEF IInv, Posts, Lost, Pending
    <3>4. PostOf(c)'
      BY <2>2, <2>9, <3>2, <3>3 DEF PostOf
    <3> QED
      BY <3>1, <3>4 DEF Posts
  <2>15. Beats'
    <3>1. \A t \in TakeIds :
            /\ take'[t].job = take[t].job
            /\ \/ take'[t].intent = take[t].intent
               \/ /\ take[t].intent = "none" /\ take'[t].intent = "open"
      BY <2>1, <2>8
    <3> QED
      BY <2>9, <3>1 DEF IInv, Beats, BeatsOf
  <2>16. Kin' /\ Generations' /\ Asked'
    BY <2>8, <2>9, KinKept DEF IInv, Generations, Asked
  <2> QED
    BY <2>10, <2>11, <2>12, <2>13, <2>14, <2>15, <2>16 DEF IInv
<1>2. CASE ~Authorised(c)
  <2>1. /\ post[c].status = "running" /\ ~Executed(c)
        /\ post' = [post EXCEPT ![c].status = "failed", ![c].why = "plan"]
        /\ UNCHANGED <<song, gen, linked, beat, take, ask, picked, resumed,
                       back, edits, faults>>
    BY <1>2 DEF Reserve, memory, history
  <2>2. /\ post' \in [Ids -> PostRecord]
        /\ Unborn' /\ Links' /\ Posts' /\ Beats'
    BY <2>1, PlanFails
  <2>3. TypeOK'
    BY <2>1, <2>2 DEF IInv, TypeOK, PostRecord
  <2>4. Generations' /\ Asked' /\ Rows' /\ Kin'
    BY <2>1, KinKept DEF IInv, Generations, Asked, Rows
  <2> QED
    BY <2>2, <2>3, <2>4 DEF IInv
<1> QED
  BY <1>1, <1>2

LEMMA ReserveFailsStep ==
  ASSUME IInv, NEW c \in Ids, ReserveFails(c) PROVE IInv'
<1>1. TypeOK'
  <2>1. post' \in [Ids -> PostRecord]
    BY Typed, ZenonT(40)
       DEF ReserveFails, Fault, Executed, memory, PostRecord, Ended
  <2>2. faults' \in 0..MaxFaults
    BY ChainsAssumption DEF ReserveFails, Fault, Executed, memory, IInv,
        TypeOK
  <2> QED
    BY <2>1, <2>2 DEF ReserveFails, Fault, memory, IInv, TypeOK, GenRecord,
        PostRecord, BeatStates, TakeRecord, AskRecord
<1>2. Unborn'
  BY Typed DEF ReserveFails, Fault, Executed, memory, IInv, Unborn,
      NoGeneration, NoPost, NoTake, GenRecord, PostRecord, BeatStates,
      TakeRecord
<1>3. Links'
  BY Typed DEF ReserveFails, Fault, Executed, memory, IInv, Links, LinksOf,
      Working, Lost, Pending, Ended, TakeRecord, GenRecord, PostRecord, Rows,
      Generations
<1>4. Posts'
  BY PlanFails DEF ReserveFails, Fault
<1>5. Beats'
  BY Typed DEF ReserveFails, Fault, Executed, memory, IInv, Beats, BeatsOf,
      Ended, BeatStates, PostRecord, TakeRecord, Rows, Generations
<1>6. Generations' /\ Asked' /\ Rows' /\ Kin'
  BY DEF ReserveFails, Fault, memory, IInv, Generations, Asked, Rows, Kin,
      NoRequest, NoTake, Claimed
<1> QED
  BY <1>1, <1>2, <1>3, <1>4, <1>5, <1>6 DEF IInv

LEMMA PublishStep ==
  ASSUME IInv, NEW c \in Ids, NEW t \in TakeIds, Publish(c, t) PROVE IInv'
<1>1. TypeOK'
  <2>1. take' \in [TakeIds -> TakeRecord]
    BY Typed, SMTT(30)
       DEF Publish, Authorised, Open, jobs, memory, history, Whole,
        TakeRecord
  <2> QED
    BY <2>1 DEF Publish, jobs, memory, history, IInv, TypeOK, GenRecord,
        PostRecord, BeatStates, TakeRecord, AskRecord
<1>2. Unborn'
  BY Typed DEF Publish, Authorised, Open, jobs, memory, history, Whole, IInv,
      Unborn, NoGeneration, NoPost, NoTake, GenRecord, PostRecord, BeatStates,
      TakeRecord
<1>3. Rows'
  BY Typed DEF Publish, Authorised, Open, jobs, memory, history, Whole, IInv,
      Rows, NoTake, TakeRecord
<1>4. Links'
  BY Typed DEF Publish, Authorised, Open, jobs, memory, history, Whole, IInv,
      Links, LinksOf, Working, Lost, Pending, Ended, TakeRecord, GenRecord,
      PostRecord, Rows, Generations
<1>5. Posts'
  BY Typed DEF Publish, Authorised, Open, jobs, memory, history, Whole, IInv,
      Posts, PostOf, Lost, Pending, GenRecord, PostRecord, TakeRecord, Rows,
      Generations
<1>6. Beats'
  BY Typed DEF Publish, Authorised, Open, jobs, memory, history, Whole, IInv,
      Beats, BeatsOf, Ended, BeatStates, PostRecord, TakeRecord, Rows,
      Generations
<1>7. Kin'
  BY Typed DEF Publish, Authorised, Open, jobs, memory, history, Whole, IInv,
      Kin, Claimed, TakeRecord
<1>8. Generations' /\ Asked'
  BY DEF Publish, jobs, memory, history, IInv, Generations, Asked, NoRequest
<1> QED
  BY <1>1, <1>2, <1>3, <1>4, <1>5, <1>6, <1>7, <1>8 DEF IInv

LEMMA RejectStep ==
  ASSUME IInv, NEW c \in Ids, NEW t \in TakeIds, Reject(c, t) PROVE IInv'
<1>1. TypeOK'
  <2>1. take' \in [TakeIds -> TakeRecord]
    BY Typed DEF Reject, Authorised, Open, jobs, memory, history, Whole,
        TakeRecord
  <2> QED
    BY <2>1 DEF Reject, jobs, memory, history, IInv, TypeOK, GenRecord,
        PostRecord, BeatStates, TakeRecord, AskRecord
<1>2. Unborn'
  BY Typed DEF Reject, Authorised, Open, jobs, memory, history, Whole, IInv,
      Unborn, NoGeneration, NoPost, NoTake, GenRecord, PostRecord, BeatStates,
      TakeRecord
<1>3. Rows'
  BY Typed DEF Reject, Authorised, Open, jobs, memory, history, Whole, IInv,
      Rows, NoTake, TakeRecord
<1>4. Links'
  BY Typed DEF Reject, Authorised, Open, jobs, memory, history, Whole, IInv,
      Links, LinksOf, Working, Lost, Pending, Ended, TakeRecord, GenRecord,
      PostRecord, Rows, Generations
<1>5. Posts'
  BY Typed DEF Reject, Authorised, Open, jobs, memory, history, Whole, IInv,
      Posts, PostOf, Lost, Pending, GenRecord, PostRecord, TakeRecord, Rows,
      Generations
<1>6. Beats'
  BY Typed DEF Reject, Authorised, Open, jobs, memory, history, Whole, IInv,
      Beats, BeatsOf, Ended, BeatStates, PostRecord, TakeRecord, Rows,
      Generations
<1>7. Kin'
  <2>1. \A u \in TakeIds : /\ take'[u].parent = take[u].parent
                           /\ take[u].status = "failed" =>
                               take'[u].status = "failed"
    BY Typed DEF Reject, TakeRecord
  <2> QED
    BY <2>1, KinKept
<1>8. Generations' /\ Asked'
  BY DEF Reject, jobs, memory, history, IInv, Generations, Asked, NoRequest
<1> QED
  BY <1>1, <1>2, <1>3, <1>4, <1>5, <1>6, <1>7, <1>8 DEF IInv

LEMMA FinishStep ==
  ASSUME IInv, NEW c \in Ids, Finish(c) PROVE IInv'
<1>1. TypeOK'
  <2>1. post' \in [Ids -> PostRecord]
    BY Typed, SMTT(30)
       DEF Finish, Authorised, Executed, Open, memory, history, Whole,
        PostRecord, Ended
  <2>2. beat' \in [Ids -> [TakeIds -> BeatStates]]
    <3>1. beat' = [beat EXCEPT ![c] = beat'[c]]
      BY Typed DEF Finish
    <3>2. beat'[c] \in [TakeIds -> BeatStates]
      BY Typed DEF Finish, BeatStates
    <3> QED
      BY Typed, <3>1, <3>2
  <2> QED
    BY <2>1, <2>2 DEF Finish, memory, history, IInv, TypeOK, GenRecord,
        PostRecord, BeatStates, TakeRecord, AskRecord
<1>2. Unborn'
  BY Typed DEF Finish, Authorised, Executed, Open, memory, history, Whole,
      IInv, Unborn, NoGeneration, NoPost, NoTake, GenRecord, PostRecord,
      BeatStates, TakeRecord
<1>3. Links'
  BY Typed DEF Finish, Authorised, Executed, Open, memory, history, Whole,
      IInv, Links, LinksOf, Working, Lost, Pending, Ended, TakeRecord,
      GenRecord, PostRecord, Rows, Generations
<1>4. Posts'
  <2>1. /\ post'[c].status = "succeeded" /\ post[c].status = "running"
        /\ post'[c].why = post[c].why
        /\ \A d \in Ids \ {c} : post'[d] = post[d]
        /\ gen' = gen /\ take' = take /\ back' = back
    BY Typed DEF Finish, PostRecord, history
  <2>2. PostOf(c) /\ LinksOf(c) /\ (Lost(c)' <=> Lost(c))
    BY <2>1 DEF IInv, Posts, Links, Lost, Pending
  <2>3. ASSUME NEW d \in Ids, d # c PROVE PostOf(d)'
    BY <2>1, <2>3, PostKept DEF IInv, Posts
  <2>4. \A t \in TakeIds : take[t].job = c => take[t].intent # "open"
    BY <2>2 DEF Finish, Open, LinksOf
  <2>5. \A t \in TakeIds : take[t].job = c => take[t].intent # "none"
    BY Typed, <2>2 DEF Finish, Executed, PostOf
  <2>6. PostOf(c)'
    BY <2>1, <2>2, <2>4, <2>5 DEF PostOf
  <2> QED
    BY <2>3, <2>6 DEF Posts
<1>5. Beats'
  <2>1. /\ post'[c].status = "succeeded" /\ post[c].status = "running"
        /\ \A d \in Ids \ {c} : post'[d] = post[d] /\ beat'[d] = beat[d]
        /\ take' = take /\ linked' = linked
        /\ \A t \in TakeIds : beat'[c][t] =
             IF /\ t \in linked[c] /\ take[t].intent # "committed"
                /\ beat[c][t] \in {"blocked", "queued"}
             THEN "failed" ELSE beat[c][t]
    BY Typed DEF Finish, PostRecord
  <2>2. ASSUME NEW d \in Ids, d # c PROVE BeatsOf(d)'
    BY <2>1, <2>2 DEF IInv, Beats, BeatsOf
  <2>3. \A t \in linked[c] : t \in TakeIds /\ take[t].job = c
    BY Typed DEF Finish, Authorised, Whole
  <2>4. \A t \in TakeIds : /\ beat[c][t] # "none" => t \in linked[c]
                           /\ beat[c][t] \notin {"queued", "failed"}
    BY <2>1 DEF IInv, Beats, BeatsOf, Ended
  <2>5. BeatsOf(c)'
    BY <2>1, <2>3, <2>4 DEF BeatsOf, Ended
  <2> QED
    BY <2>2, <2>5 DEF Beats
<1>6. Generations' /\ Asked' /\ Rows' /\ Kin'
  BY DEF Finish, memory, history, IInv, Generations, Asked, Rows, Kin,
      NoRequest, NoTake, Claimed
<1> QED
  BY <1>1, <1>2, <1>3, <1>4, <1>5, <1>6 DEF IInv

LEMMA InterruptStep ==
  ASSUME IInv, NEW c \in Ids, Interrupt(c) PROVE IInv'
<1>1. TypeOK'
  <2>1. post' \in [Ids -> PostRecord]
    BY Typed, SMTT(30) DEF Interrupt, PostRecord
  <2>2. faults' \in 0..MaxFaults
    BY ChainsAssumption DEF Interrupt, Fault, Authorised, Executed, memory,
        history, Whole, IInv, TypeOK
  <2> QED
    BY <2>1, <2>2 DEF Interrupt, Fault, memory, history, IInv, TypeOK,
        GenRecord, PostRecord, BeatStates, TakeRecord, AskRecord
<1>2. Unborn'
  BY Typed DEF Interrupt, Fault, Authorised, Executed, memory, history, Whole,
      IInv, Unborn, NoGeneration, NoPost, NoTake, GenRecord, PostRecord,
      BeatStates, TakeRecord
<1>3. Links'
  BY Typed DEF Interrupt, Fault, Authorised, Executed, memory, history, Whole,
      IInv, Links, LinksOf, Working, Lost, Pending, Ended, TakeRecord,
      GenRecord, PostRecord, Rows, Generations
<1>4. Posts'
  BY Typed DEF Interrupt, Fault, Authorised, Executed, memory, history, Whole,
      IInv, Posts, PostOf, Lost, Pending, GenRecord, PostRecord, TakeRecord,
      Rows, Generations
<1>5. Beats'
  BY Typed DEF Interrupt, Fault, Authorised, Executed, memory, history, Whole,
      IInv, Beats, BeatsOf, Ended, BeatStates, PostRecord, TakeRecord, Rows,
      Generations
<1>6. Generations' /\ Asked' /\ Rows' /\ Kin'
  BY DEF Interrupt, Fault, memory, history, IInv, Generations, Asked, Rows,
      Kin, NoRequest, NoTake, Claimed
<1> QED
  BY <1>1, <1>2, <1>3, <1>4, <1>5, <1>6 DEF IInv

LEMMA ResumeStep ==
  ASSUME IInv, NEW c \in Ids, Resume(c) PROVE IInv'
<1>1. TypeOK'
  <2>1. post' \in [Ids -> PostRecord]
    BY Typed, ZenonT(40) DEF Resume, history, PostRecord, Ended
  <2> QED
    BY <2>1 DEF Resume, history, IInv, TypeOK, GenRecord, PostRecord,
        BeatStates, TakeRecord, AskRecord
<1>2. Unborn'
  BY Typed DEF Resume, history, IInv, Unborn, NoGeneration, NoPost, NoTake,
      GenRecord, PostRecord, BeatStates, TakeRecord
<1>3. Links'
  BY Typed DEF Resume, history, IInv, Links, LinksOf, Working, Lost, Pending,
      Ended, TakeRecord, GenRecord, PostRecord, Rows, Generations
<1>4. Posts'
  BY Typed DEF Resume, history, IInv, Posts, PostOf, Lost, Pending, GenRecord,
      PostRecord, TakeRecord, Rows, Generations
<1>5. Beats'
  BY Typed DEF Resume, history, IInv, Beats, BeatsOf, Ended, BeatStates,
      PostRecord, TakeRecord, Rows, Generations
<1>6. Generations' /\ Asked' /\ Rows' /\ Kin'
  BY DEF Resume, history, IInv, Generations, Asked, Rows, Kin, NoRequest,
      NoTake, Claimed
<1> QED
  BY <1>1, <1>2, <1>3, <1>4, <1>5, <1>6 DEF IInv

LEMMA CancelPostStep ==
  ASSUME IInv, NEW c \in Ids, CancelPost(c) PROVE IInv'
<1>1. TypeOK'
  <2>1. post' \in [Ids -> PostRecord]
    <3>1. PICK s \in {"running", "interrupted", "cancelled"} :
            post' = [post EXCEPT ![c].cancel = TRUE, ![c].status = s]
      BY DEF CancelPost
    <3>2. [post[c] EXCEPT !.cancel = TRUE, !.status = s] \in PostRecord
      BY Typed, ZenonT(40) DEF PostRecord, Ended
    <3>3. post' = [post EXCEPT ![c] =
                     [post[c] EXCEPT !.cancel = TRUE, !.status = s]]
      BY Typed, <3>1
    <3> QED
      BY Typed, <3>2, <3>3
  <2>2. edits' \in 0..MaxEdits
    BY ChainsAssumption DEF CancelPost, Edit, memory, IInv, TypeOK
  <2> QED
    BY <2>1, <2>2 DEF CancelPost, Edit, memory, IInv, TypeOK, GenRecord,
        PostRecord, BeatStates, TakeRecord, AskRecord
<1>2. Unborn'
  BY Typed DEF CancelPost, Edit, memory, IInv, Unborn, NoGeneration, NoPost,
      NoTake, GenRecord, PostRecord, BeatStates, TakeRecord
<1>3. Links'
  BY Typed DEF CancelPost, Edit, memory, IInv, Links, LinksOf, Working, Lost,
      Pending, Ended, TakeRecord, GenRecord, PostRecord, Rows, Generations
<1>4. Posts'
  BY Typed DEF CancelPost, Edit, memory, IInv, Posts, PostOf, Lost, Pending,
      GenRecord, PostRecord, TakeRecord, Rows, Generations
<1>5. Beats'
  BY Typed DEF CancelPost, Edit, memory, IInv, Beats, BeatsOf, Ended,
      BeatStates, PostRecord, TakeRecord, Rows, Generations
<1>6. Generations' /\ Asked' /\ Rows' /\ Kin'
  BY DEF CancelPost, Edit, memory, IInv, Generations, Asked, Rows, Kin,
      NoRequest, NoTake, Claimed
<1> QED
  BY <1>1, <1>2, <1>3, <1>4, <1>5, <1>6 DEF IInv

LEMMA CancelSettledStep ==
  ASSUME IInv, NEW c \in Ids, CancelSettled(c) PROVE IInv'
<1> DEFINE status == "cancelled"
<1>1. \A t \in Open(c) : t \in TakeIds /\ take[t].job = c /\ take[t].intent = "open"
  BY Typed DEF Open
<1>2. \A t \in TakeIds : take[t].job = c /\ take[t].intent = "open" => t \in Open(c)
  BY DEF Open, IInv, Links, LinksOf
<1>3. \A t \in TakeIds :
        [take[t] EXCEPT !.status = "cancelled", !.intent = "cancelled"]
          \in TakeRecord
  BY Typed DEF TakeRecord
<1>4. /\ take' = [t \in TakeIds |-> IF t \in Open(c)
           THEN [take[t] EXCEPT !.status = "cancelled",
                                !.intent = "cancelled"]
           ELSE take[t]]
      /\ post' = [post EXCEPT ![c].status = "cancelled"]
      /\ post[c].status \in {"queued", "interrupted"}
      /\ UNCHANGED <<song, gen, linked, beat, ask, picked, resumed, back,
                     edits, faults>>
  BY DEF CancelSettled, memory, history
<1>5. /\ take' \in [TakeIds -> TakeRecord]
      /\ \A t \in TakeIds :
           /\ take'[t].job = take[t].job
           /\ take'[t].gone = take[t].gone
           /\ take'[t].parent = take[t].parent
           /\ t \in Open(c) => /\ take'[t].status = "cancelled"
                               /\ take'[t].intent = "cancelled"
           /\ t \notin Open(c) => take'[t] = take[t]
  BY Typed, <1>3, <1>4 DEF TakeRecord
<1>6. /\ post' \in [Ids -> PostRecord]
      /\ post'[c].status = "cancelled" /\ post'[c].why = post[c].why
      /\ \A d \in Ids \ {c} : post'[d] = post[d]
  BY Typed, <1>4 DEF PostRecord, Ended
<1>7. TypeOK'
  BY <1>4, <1>5, <1>6 DEF IInv, TypeOK, TakeRecord, PostRecord
<1>8. gen[c].status = "succeeded" /\ ~Lost(c)
  BY <1>4 DEF IInv, Posts, PostOf, Lost, Pending
<1>9. Unborn'
  <2>1. \A t \in TakeIds : take[t] = NoTake => take'[t] = NoTake
    BY <1>1, <1>5 DEF NoTake
  <2> QED
    BY <1>4, <1>5, <1>6, <1>8, <2>1, UnbornKept
<1>10. Rows'
  BY <1>1, <1>5 DEF IInv, Rows
<1>11. Links'
  <2>1. ASSUME NEW d \in Ids PROVE Working(d)' => Working(d)
    BY <1>4, <1>6 DEF Working, Lost, Pending, Ended
  <2>2. \A t \in TakeIds : take[t].status # "none" => take'[t].status # "none"
    BY <1>5
  <2> QED
    BY <1>4, <1>5, <2>1, <2>2, ZenonT(40) DEF IInv, Links, LinksOf
<1>12. Posts'
  <2>1. ASSUME NEW d \in Ids, d # c PROVE PostOf(d)'
    <3>1. \A t \in TakeIds : take'[t].job = d => take'[t] = take[t]
      BY <1>1, <1>5, <2>1
    <3> QED
      BY <1>4, <1>6, <2>1, <3>1, PostKept DEF IInv, Posts
  <2>2. PostOf(c) /\ ~Lost(c)'
    BY <1>4, <1>8 DEF IInv, Posts, Lost, Pending
  <2>3. \A t \in TakeIds : take[t].job = c =>
          /\ take'[t].intent # "open"
          /\ (take'[t].intent = "none") = (take[t].intent = "none")
          /\ take'[t].status = "failed" => take'[t] = take[t]
    BY <1>1, <1>2, <1>5
  <2>4. PostOf(c)'
    <3>1. \A t \in TakeIds : take'[t].job = c <=> take[t].job = c
      BY <1>5
    <3>2. /\ gen'[c].status = "succeeded" /\ post'[c].status = "cancelled"
          /\ post'[c].why # "dependency"
      BY <1>4, <1>6, <1>8, <2>2 DEF PostOf
    <3>3. \A t, u \in TakeIds :
            take'[t].job = c /\ take'[u].job = c /\ take'[t].intent # "none"
            => take'[u].intent # "none"
      BY <2>2, <2>3, <3>1 DEF PostOf
    <3>4. \A t \in TakeIds : take'[t].job = c =>
            ~(take'[t].status = "failed" /\ take'[t].intent = "none")
      BY <1>8, <2>2, <2>3, <3>1 DEF PostOf
    <3>5. \A t \in TakeIds : take'[t].job = c => take'[t].intent # "open"
      BY <2>3, <3>1
    <3> QED
      BY <2>2, <3>2, <3>3, <3>4, <3>5 DEF PostOf
  <2> QED
    BY <2>1, <2>4 DEF Posts
<1>13. Beats'
  <2>1. \A t \in TakeIds :
          take'[t].intent = "committed" <=> take[t].intent = "committed"
    BY <1>1, <1>5
  <2>2. ASSUME NEW d \in Ids, d # c PROVE BeatsOf(d)'
    <3>1. /\ post'[d] = post[d] /\ beat' = beat /\ linked' = linked
          /\ BeatsOf(d)
      BY <1>4, <1>6, <2>2 DEF IInv, Beats
    <3>2. \A t \in TakeIds : take'[t].job = take[t].job
      BY <1>5
    <3> QED
      BY <2>1, <3>1, <3>2 DEF BeatsOf
  <2>3. \A t \in TakeIds : /\ beat[c][t] # "none" => t \in linked[c]
                           /\ beat[c][t] \notin {"queued", "failed"}
    BY <1>4 DEF IInv, Beats, BeatsOf, Ended
  <2>4. BeatsOf(c)'
    BY <1>4, <1>6, <2>3 DEF BeatsOf
  <2> QED
    BY <2>2, <2>4 DEF Beats
<1>14. Kin'
  <2>1. \A u \in TakeIds : /\ take'[u].parent = take[u].parent
                           /\ take[u].status = "failed" =>
                               take'[u].status = "failed"
    BY <1>1, <1>5 DEF IInv, Rows
  <2> QED
    BY <2>1, KinKept
<1>15. Generations' /\ Asked'
  BY <1>4 DEF IInv, Generations, Asked
<1> QED
  BY <1>7, <1>9, <1>10, <1>11, <1>12, <1>13, <1>14, <1>15 DEF IInv

LEMMA RetryReadsStep ==
  ASSUME IInv, NEW r \in Requests, NEW c \in Ids, RetryReads(r, c) PROVE IInv'
<1>1. TypeOK'
  <2>1. ask' \in [Requests -> AskRecord]
    BY Typed DEF RetryReads, NoRequest, Selection, Retryable, jobs, history,
        FailedHere, Rejected, Claimed, AskRecord, NoGeneration, NoPost,
        NoTake, Ids
  <2> QED
    BY <2>1 DEF RetryReads, jobs, history, IInv, TypeOK, GenRecord,
        PostRecord, BeatStates, TakeRecord, AskRecord
<1>2. Asked'
  <2>1. ask'[r].chain # 0 /\ \A q \in Requests \ {r} : ask'[q] = ask[q]
    BY Typed, Numbers DEF RetryReads, AskRecord
  <2> QED
    BY <2>1 DEF IInv, Asked
<1>3. Unborn' /\ Generations' /\ Rows' /\ Links' /\ Posts' /\ Beats' /\ Kin'
  BY DEF RetryReads, jobs, history, IInv, Unborn, Generations, Rows, Links,
      Posts, Beats, Kin, NoGeneration, NoPost, NoTake, LinksOf, Working, Lost,
      Pending, Ended, PostOf, BeatsOf, Claimed
<1> QED
  BY <1>1, <1>2, <1>3 DEF IInv

LEMMA RetryRefusedStep ==
  ASSUME IInv, NEW r \in Requests, RetryRefused(r) PROVE IInv'
<1>1. TypeOK'
  <2>1. ask' \in [Requests -> AskRecord]
    <3>1. NoRequest \in AskRecord
      BY Numbers DEF NoRequest, AskRecord
    <3> QED
      BY Typed, <3>1 DEF RetryRefused
  <2> QED
    BY <2>1 DEF RetryRefused, jobs, history, IInv, TypeOK, GenRecord,
        PostRecord, BeatStates, TakeRecord, AskRecord
<1>2. Asked'
  BY Typed DEF RetryRefused, NoRequest, jobs, history, IInv, Asked, AskRecord
<1>3. Unborn' /\ Generations' /\ Rows' /\ Links' /\ Posts' /\ Beats' /\ Kin'
  BY DEF RetryRefused, jobs, history, IInv, Unborn, Generations, Rows, Links,
      Posts, Beats, Kin, NoGeneration, NoPost, NoTake, LinksOf, Working, Lost,
      Pending, Ended, PostOf, BeatsOf, Claimed
<1> QED
  BY <1>1, <1>2, <1>3 DEF IInv

LEMMA RetryClaimsStep ==
  ASSUME IInv, NEW r \in Requests, RetryClaims(r) PROVE IInv'
<1> DEFINE c == ask[r].chain
           asked == ask[r].takes
<1>1. ask' = [ask EXCEPT ![r] = NoRequest]
      /\ UNCHANGED <<song, picked, resumed, back, edits, faults>>
  BY DEF RetryClaims, history
<1>2. ask' \in [Requests -> AskRecord] /\ Asked'
  <2>1. NoRequest \in AskRecord
    BY Numbers DEF NoRequest, AskRecord
  <2> QED
    BY Typed, <1>1, <2>1 DEF IInv, Asked
<1>3. CASE UNCHANGED <<jobs, take>>
  <2>1. TypeOK'
    BY <1>1, <1>2, <1>3 DEF IInv, TypeOK, AskRecord, jobs
  <2> QED
    BY <1>1, <1>2, <1>3, <2>1, KinKept
    DEF IInv, jobs, Unborn, Generations, Rows, Links, LinksOf, Working, Lost,
        Pending, Posts, PostOf, Beats, BeatsOf
<1>4. CASE ~UNCHANGED <<jobs, take>>
  <2>1. PICK n \in Free : Given(asked, n)
    BY <1>4 DEF RetryClaims
  <2>2. /\ Retryable(c) /\ asked \subseteq Selection(c)
    BY <1>4 DEF RetryClaims
  <2>3. asked \in SUBSET TakeIds /\ c \in Ids
    <3>1. asked \in SUBSET TakeIds /\ c \in 0..Size
      BY Typed DEF AskRecord
    <3>2. c # 0
      BY DEF RetryClaims, IInv, Asked
    <3> QED
      BY <3>1, <3>2, ChainsAssumption DEF Ids
  <2>4. n \in Ids /\ gen[n] = NoGeneration
    BY <2>1 DEF Free
  <2>5. asked \subseteq FailedHere(c)
    BY <2>2 DEF Selection
  <2>6. /\ gen' \in [Ids -> GenRecord] /\ post' \in [Ids -> PostRecord]
        /\ linked' \in [Ids -> SUBSET TakeIds]
        /\ beat' \in [Ids -> [TakeIds -> BeatStates]]
        /\ take' \in [TakeIds -> TakeRecord]
        /\ Unborn' /\ Generations' /\ Rows' /\ Links' /\ Posts' /\ Beats'
        /\ Kin'
    BY <1>1, <2>1, <2>3, <2>4, <2>5, GivenKeeps
  <2>7. TypeOK'
    BY <1>1, <1>2, <2>6
    DEF IInv, TypeOK, AskRecord, GenRecord, PostRecord, BeatStates, TakeRecord
  <2> QED
    BY <1>2, <2>6, <2>7 DEF IInv
<1> QED
  BY <1>3, <1>4

LEMMA DeleteSongStep ==
  ASSUME IInv, DeleteSong PROVE IInv'
<1>1. TypeOK'
  <2>1. edits' \in 0..MaxEdits
    BY ChainsAssumption DEF DeleteSong, Edit, jobs, memory, IInv, TypeOK
  <2> QED
    BY <2>1 DEF DeleteSong, Edit, jobs, memory, IInv, TypeOK, GenRecord,
        PostRecord, BeatStates, TakeRecord, AskRecord
<1>2. Unborn' /\ Generations' /\ Asked' /\ Rows' /\ Links' /\ Posts' /\ Beats' /\ Kin'
  BY DEF DeleteSong, Edit, jobs, memory, IInv, Unborn, Generations, Asked,
      Rows, Links, Posts, Beats, Kin, NoGeneration, NoPost, NoTake, NoRequest,
      LinksOf, Working, Lost, Pending, Ended, PostOf, BeatsOf, Claimed
<1> QED
  BY <1>1, <1>2 DEF IInv

LEMMA RestoreSongStep ==
  ASSUME IInv, RestoreSong PROVE IInv'
<1>1. TypeOK'
  <2> QED
    BY DEF RestoreSong, jobs, memory, history, IInv, TypeOK, GenRecord,
        PostRecord, BeatStates, TakeRecord, AskRecord
<1>2. Unborn' /\ Generations' /\ Asked' /\ Rows' /\ Links' /\ Posts' /\ Beats' /\ Kin'
  BY DEF RestoreSong, jobs, memory, history, IInv, Unborn, Generations, Asked,
      Rows, Links, Posts, Beats, Kin, NoGeneration, NoPost, NoTake, NoRequest,
      LinksOf, Working, Lost, Pending, Ended, PostOf, BeatsOf, Claimed
<1> QED
  BY <1>1, <1>2 DEF IInv

LEMMA DeleteTakeStep ==
  ASSUME IInv, NEW t \in TakeIds, DeleteTake(t) PROVE IInv'
<1>1. TypeOK'
  <2>1. take' \in [TakeIds -> TakeRecord]
    <3>1. PICK s \in {"failed", "cancelled"} :
            take' = [take EXCEPT ![t].gone = TRUE, ![t].status = s]
      BY DEF DeleteTake
    <3>2. [take[t] EXCEPT !.gone = TRUE, !.status = s] \in TakeRecord
      BY Typed DEF TakeRecord
    <3>3. take' = [take EXCEPT ![t] =
                     [take[t] EXCEPT !.gone = TRUE, !.status = s]]
      BY Typed, <3>1
    <3> QED
      BY Typed, <3>2, <3>3
  <2>2. edits' \in 0..MaxEdits
    BY ChainsAssumption DEF DeleteTake, Edit, jobs, memory, IInv, TypeOK
  <2> QED
    BY <2>1, <2>2 DEF DeleteTake, Edit, jobs, memory, IInv, TypeOK, GenRecord,
        PostRecord, BeatStates, TakeRecord, AskRecord
<1>2. Unborn'
  BY Typed DEF DeleteTake, Edit, jobs, memory, IInv, Unborn, NoGeneration,
      NoPost, NoTake, GenRecord, PostRecord, BeatStates, TakeRecord
<1>3. Rows'
  BY Typed DEF DeleteTake, Edit, jobs, memory, IInv, Rows, NoTake, TakeRecord
<1>4. Links'
  BY Typed DEF DeleteTake, Edit, jobs, memory, IInv, Links, LinksOf, Working,
      Lost, Pending, Ended, TakeRecord, GenRecord, PostRecord, Rows,
      Generations
<1>5. Posts'
  BY Typed DEF DeleteTake, Edit, jobs, memory, IInv, Posts, PostOf, Lost,
      Pending, GenRecord, PostRecord, TakeRecord, Rows, Generations
<1>6. Beats'
  BY Typed DEF DeleteTake, Edit, jobs, memory, IInv, Beats, BeatsOf, Ended,
      BeatStates, PostRecord, TakeRecord, Rows, Generations
<1>7. Kin'
  BY Typed DEF DeleteTake, Edit, jobs, memory, IInv, Kin, Claimed, TakeRecord
<1>8. Generations' /\ Asked'
  BY DEF DeleteTake, Edit, jobs, memory, IInv, Generations, Asked, NoRequest
<1> QED
  BY <1>1, <1>2, <1>3, <1>4, <1>5, <1>6, <1>7, <1>8 DEF IInv

LEMMA RestoreTakeStep ==
  ASSUME IInv, NEW t \in TakeIds, RestoreTake(t) PROVE IInv'
<1>1. TypeOK'
  <2>1. take' \in [TakeIds -> TakeRecord]
    <3>1. PICK s \in {"none", "queued", "ready", "failed", "cancelled"} :
            take' = [take EXCEPT ![t].gone = FALSE, ![t].status = s]
      BY Typed DEF RestoreTake, TakeRecord
    <3>2. [take[t] EXCEPT !.gone = FALSE, !.status = s] \in TakeRecord
      BY Typed DEF TakeRecord
    <3>3. take' = [take EXCEPT ![t] =
                     [take[t] EXCEPT !.gone = FALSE, !.status = s]]
      BY Typed, <3>1
    <3> QED
      BY Typed, <3>2, <3>3
  <2> QED
    BY <2>1 DEF RestoreTake, jobs, memory, IInv, TypeOK, GenRecord,
        PostRecord, BeatStates, TakeRecord, AskRecord
<1>2. Unborn'
  BY Typed DEF RestoreTake, jobs, memory, IInv, Unborn, NoGeneration, NoPost,
      NoTake, GenRecord, PostRecord, BeatStates, TakeRecord
<1>3. Rows'
  BY Typed DEF RestoreTake, jobs, memory, IInv, Rows, NoTake, TakeRecord
<1>4. Links'
  BY Typed DEF RestoreTake, jobs, memory, IInv, Links, LinksOf, Working, Lost,
      Pending, Ended, TakeRecord, GenRecord, PostRecord, Rows, Generations
<1>5. Posts'
  BY Typed DEF RestoreTake, jobs, memory, IInv, Posts, PostOf, Lost, Pending,
      GenRecord, PostRecord, TakeRecord, Rows, Generations
<1>6. Beats'
  BY Typed DEF RestoreTake, jobs, memory, IInv, Beats, BeatsOf, Ended,
      BeatStates, PostRecord, TakeRecord, Rows, Generations
<1>7. Kin'
  <2>1. \A u \in TakeIds : /\ take'[u].parent = take[u].parent
                           /\ take[u].status = "failed" =>
                               take'[u].status = "failed"
    <3>1. PICK s : /\ take[t].status = "failed" => s = "failed"
                   /\ take' = [take EXCEPT ![t].gone = FALSE, ![t].status = s]
      BY DEF RestoreTake
    <3> QED
      BY Typed, <3>1 DEF TakeRecord
  <2> QED
    BY <2>1, KinKept
<1>8. Generations' /\ Asked'
  BY DEF RestoreTake, jobs, memory, IInv, Generations, Asked, NoRequest
<1> QED
  BY <1>1, <1>2, <1>3, <1>4, <1>5, <1>6, <1>7, <1>8 DEF IInv

LEMMA RestartStep ==
  ASSUME IInv, Restart PROVE IInv'
<1>1. TypeOK'
  <2>1. post' \in [Ids -> PostRecord]
    <3>1. \A c \in Ids : /\ [post[c] EXCEPT !.status = "queued"] \in PostRecord
                         /\ [post[c] EXCEPT !.status = "interrupted"]
                             \in PostRecord
      BY Typed DEF PostRecord
    <3> QED
      BY Typed, <3>1 DEF Restart
  <2>2. ask' \in [Requests -> AskRecord]
    <3>1. NoRequest \in AskRecord
      BY Numbers DEF NoRequest, AskRecord
    <3> QED
      BY Typed, <3>1 DEF Restart
  <2>3. faults' \in 0..MaxFaults
    BY ChainsAssumption DEF Restart, NoRequest, Fault, Executed, IInv, TypeOK
  <2> QED
    BY <2>1, <2>2, <2>3 DEF Restart, Fault, IInv, TypeOK, GenRecord,
        PostRecord, BeatStates, TakeRecord, AskRecord
<1>2. Unborn'
  BY Typed DEF Restart, NoRequest, Fault, Executed, IInv, Unborn,
      NoGeneration, NoPost, NoTake, GenRecord, PostRecord, BeatStates,
      TakeRecord
<1>3. Asked'
  BY Typed DEF Restart, NoRequest, Fault, Executed, IInv, Asked, AskRecord
<1>4. Links'
  BY Typed DEF Restart, NoRequest, Fault, Executed, IInv, Links, LinksOf,
      Working, Lost, Pending, Ended, TakeRecord, GenRecord, PostRecord, Rows,
      Generations
<1>5. Posts'
  <2>1. \A c \in Ids : /\ post'[c].why = post[c].why
                       /\ \/ post'[c] = post[c]
                         \/ /\ post[c].status \in {"running", "interrupted"}
                            /\ ~Executed(c) /\ post'[c].status = "queued"
                         \/ /\ post[c].status = "running"
                            /\ post'[c].status = "interrupted"
    BY Typed DEF Restart, PostRecord
  <2>2. UNCHANGED <<gen, take, back, linked>>
    BY DEF Restart, Fault
  <2> SUFFICES ASSUME NEW c \in Ids PROVE PostOf(c)'
    BY DEF Posts
  <2>3. PostOf(c) /\ (Lost(c)' <=> Lost(c))
    BY <2>2 DEF IInv, Posts, Lost, Pending
  <2>4. CASE post'[c] = post[c]
    BY <2>2, <2>4, <2>3 DEF PostOf
  <2>5. CASE /\ post[c].status \in {"running", "interrupted"}
             /\ ~Executed(c) /\ post'[c].status = "queued"
    <3>1. \A t \in TakeIds : take[t].job = c => take[t].intent = "none"
      BY <2>5 DEF Executed, IInv, Links, LinksOf
    <3> QED
      BY <2>1, <2>2, <2>3, <2>5, <3>1 DEF PostOf
  <2>6. CASE post[c].status = "running" /\ post'[c].status = "interrupted"
    BY <2>1, <2>2, <2>3, <2>6 DEF PostOf
  <2> QED
    BY <2>1, <2>4, <2>5, <2>6
<1>6. Beats'
  BY Typed DEF Restart, NoRequest, Fault, Executed, IInv, Beats, BeatsOf,
      Ended, BeatStates, PostRecord, TakeRecord, Rows, Generations
<1>7. Generations' /\ Rows' /\ Kin'
  BY DEF Restart, Fault, IInv, Generations, Rows, Kin, NoTake, Claimed
<1> QED
  BY <1>1, <1>2, <1>3, <1>4, <1>5, <1>6, <1>7 DEF IInv

-----------------------------------------------------------------------------
LEMMA InitHolds == Init => IInv
<1> SUFFICES ASSUME Init PROVE IInv
  OBVIOUS
<1>1. TypeOK
  BY ChainsAssumption
  DEF Init, TypeOK, NoGeneration, NoPost, NoTake, NoRequest
<1>2. Unborn /\ Generations /\ Asked
  BY Numbers DEF Init, Unborn, Generations, Asked, NoGeneration, NoTake
<1>3. Rows
  BY DEF Init, Rows, NoTake
<1>4. \A t \in TakeIds : take[t].job = 0 /\ take[t].parent = 0
  BY DEF Init, NoTake
<1>5. Links /\ Beats
  BY <1>4, Numbers DEF Init, Links, LinksOf, Beats, BeatsOf
<1>6. Posts
  BY <1>4, Numbers DEF Init, Posts, PostOf, NoPost
<1>7. Kin
  BY <1>4, Numbers DEF Kin, Claimed, TakeIds
<1> QED
  BY <1>1, <1>2, <1>3, <1>5, <1>6, <1>7 DEF IInv

LEMMA StutterHolds ==
  ASSUME IInv, UNCHANGED vars PROVE IInv'
BY DEF vars, jobs, memory, history, IInv, TypeOK, Unborn, Generations, Asked,
       Rows, Links, LinksOf, Working, Lost, Pending, Posts, PostOf, Beats,
       BeatsOf, Kin, Claimed

LEMMA NextHolds == IInv /\ [Next]_vars => IInv'
<1> SUFFICES ASSUME IInv, [Next]_vars PROVE IInv'
  OBVIOUS
<1>1. ASSUME NEW c \in Ids, Generation(c) PROVE IInv'
  BY <1>1, CreateStep, GenStartsStep, GenEndsStep, GenGivesUpStep,
     CancelGenerationStep DEF Generation
<1>2. ASSUME NEW c \in Ids, Post(c) PROVE IInv'
  BY <1>2, PickStep, ClaimStep, ReserveStep, ReserveFailsStep, PublishStep,
     RejectStep, FinishStep, InterruptStep, ResumeStep, CancelPostStep,
     CancelSettledStep DEF Post
<1>3. ASSUME NEW posts \in SUBSET StalePosts, NEW beats \in SUBSET StaleBeats,
             Pass(posts, beats)
      PROVE  IInv'
  BY <1>3, PassStep
<1>4. ASSUME NEW r \in Requests, Retry(r) PROVE IInv'
  BY <1>4, RetryReadsStep, RetryRefusedStep, RetryClaimsStep DEF Retry
<1>5. ASSUME NEW t \in TakeIds, DeleteTake(t) \/ RestoreTake(t) PROVE IInv'
  BY <1>5, DeleteTakeStep, RestoreTakeStep
<1>6. CASE DeleteSong \/ RestoreSong \/ Restart
  BY <1>6, DeleteSongStep, RestoreSongStep, RestartStep
<1>7. CASE UNCHANGED vars
  BY <1>7, StutterHolds
<1> QED
  BY <1>1, <1>2, <1>3, <1>4, <1>5, <1>6, <1>7 DEF Next

\* What holds in every state of every song: who owns a take, what a post has
\* done to its takes and what its analyses may have been told.
THEOREM Inductive == Spec => []IInv
<1> QED
  BY InitHolds, NextHolds, PTL DEF Spec

\* Every variable keeps its type, the counter of attempts its limit included.
THEOREM TypeCorrect == Spec => []TypeOK
<1>1. IInv => TypeOK
  BY DEF IInv
<1> QED
  BY <1>1, Inductive, PTL

\* A take is given away once and only when it has failed, and no two chains
\* at work name it, however many retries are in flight and however long the
\* resolver keeps them waiting.
THEOREM ClaimedOnce == Spec => []OneClaim
<1>1. IInv => OneClaim
  <2> SUFFICES ASSUME IInv, NEW t \in TakeIds
               PROVE
        /\ Claimed(t) => take[t].status = "failed"
        /\ \A n, k \in Ids : /\ take[<<t[1], n>>].parent = t[2]
                             /\ take[<<t[1], k>>].parent = t[2]
                             => n = k
        /\ \A c, d \in Ids : /\ t \in linked[c] \cap linked[d]
                             /\ Working(c) /\ Working(d)
                             => c = d
    BY DEF OneClaim
  <2>1. Claimed(t) => take[t].status = "failed"
    BY DEF IInv, Kin
  <2>2. ASSUME NEW n \in Ids, NEW k \in Ids,
               take[<<t[1], n>>].parent = t[2], take[<<t[1], k>>].parent = t[2]
        PROVE  n = k
    <3>1. <<t[1], n>> \in TakeIds /\ <<t[1], k>> \in TakeIds
      BY DEF TakeIds
    <3>2. <<t[1], n>> = <<t[1], k>>
      BY <2>2, <3>1 DEF IInv, Kin
    <3> QED
      BY <3>2
  <2>3. ASSUME NEW c \in Ids, NEW d \in Ids, t \in linked[c] \cap linked[d],
               Working(c), Working(d)
        PROVE  c = d
    BY <2>3 DEF IInv, Links, LinksOf
  <2> QED
    BY <2>1, <2>2, <2>3
<1> QED
  BY <1>1, Inductive, PTL

\* No verdict on a dependent is premature: neither the rejection of a post
\* while an automatic retry may still succeed, nor an analysis of a take that
\* was not published, nor the rejection of one that was.
THEOREM VerdictsHold == Spec => []DependentsFollow
<1>1. IInv => DependentsFollow
  <2> SUFFICES ASSUME IInv, NEW c \in Ids
               PROVE
        /\ post[c].why = "dependency" => Lost(c)
        /\ \A t \in TakeIds :
             /\ beat[c][t] = "queued" =>
                  /\ post[c].status = "succeeded"
                  /\ take[t].status = "ready" /\ take[t].job = c
                  /\ ~take[t].gone
             /\ beat[c][t] = "failed" =>
                  \/ take[t].status # "ready" \/ take[t].job # c
                  \/ post[c].status = "cancelled"
    BY DEF DependentsFollow
  <2>1. PostOf(c) /\ BeatsOf(c)
    BY DEF IInv, Posts, Beats
  <2>2. \A t \in TakeIds :
          /\ take[t].status = "ready" <=> take[t].intent = "committed"
          /\ take[t].intent = "committed" => ~take[t].gone
    BY DEF IInv, Rows
  <2> QED
    BY <2>1, <2>2 DEF PostOf, BeatsOf
<1> QED
  BY <1>1, Inductive, PTL

\* No take waits for a chain that is over, but for what the code leaves so:
\* the takes of a post whose plan failed, or that was cancelled before it
\* began, and those that came back from the bin.
THEOREM TakesSettled == Spec => []NothingStranded
<1>1. IInv => NothingStranded
  <2> SUFFICES ASSUME IInv, NEW t \in TakeIds, NEW c \in Ids,
                      take[t].status = "queued", take[t].job = c,
                      t \notin back, Lost(c) \/ post[c].status \in Ended
               PROVE  \/ post[c].why = "plan"
                      \/ post[c].status = "cancelled" /\ take[t].intent = "none"
    BY DEF NothingStranded
  <2>1. PostOf(c)
    BY DEF IInv, Posts
  <2>2. ~Lost(c) /\ post[c].status \in Ended
    BY <2>1 DEF PostOf
  <2>3. take[t].intent = "none"
    BY <2>1, <2>2 DEF IInv, Rows, PostOf, Ended
  <2>4. post[c].status \in {"failed", "cancelled"}
    BY <2>1, <2>2, <2>3 DEF PostOf, Ended
  <2>5. post[c].status = "failed" => post[c].why = "plan"
    BY Typed, <2>1, <2>2 DEF PostOf, PostRecord
  <2> QED
    BY <2>3, <2>4, <2>5
<1> QED
  BY <1>1, Inductive, PTL

\* No analysis is left blocked behind a post that has ended: the next pass of
\* the dispatcher has a verdict for it.
THEOREM VerdictsReady == Spec => []NoneWaits
<1>1. IInv => NoneWaits
  <2> SUFFICES ASSUME IInv, NEW c \in Ids, NEW t \in TakeIds,
                      beat[c][t] = "blocked", post[c].status \in Ended
               PROVE  <<c, t>> \in StaleBeats
    BY DEF NoneWaits
  <2>1. post[c].status = "succeeded" => Available(c, t)
    BY DEF IInv, Beats, BeatsOf, Rows, Available
  <2>2. BeatAfter(c, t) # "blocked"
    BY <2>1 DEF BeatAfter, Ended
  <2> QED
    BY <2>2 DEF StaleBeats
<1> QED
  BY <1>1, Inductive, PTL
=============================================================================
