------------------------------- MODULE Chains -------------------------------
(***************************************************************************)
(* The chains of jobs of one song (queue/chains, manual_retry, the         *)
(* dependencies of queue/admission) and the user's edits of its takes.  A  *)
(* chain is a generation, the post.audio that waits for it and one         *)
(* audio.beats for each take that waits for the post; all are rows of one  *)
(* transaction.  A manual retry gives the failed takes of a chain to a new *)
(* one: the same row again, or a child when the old one keeps the history  *)
(* of a publication.                                                       *)
(*                                                                         *)
(* Abstracted: what JobQueue says of an attempt and CpuPublication of a    *)
(* post; here they are the transactions that the rest of a chain sees.  A  *)
(* generation that is interrupted counts as running: no dependent tells    *)
(* them apart.  An analysis that was queued goes on as a job of JobQueue.  *)
(***************************************************************************)
EXTENDS Naturals, FiniteSets

CONSTANTS
  Variants,     \* output indices of a generation
  Size,         \* bound: chains in all
  Fresh,        \* the chains that the page asks for; the others are retries
  MaxAttempts,  \* 3 in the code
  Requests,     \* manual retries in flight
  MaxEdits,     \* bound: deletions and cancellations
  MaxFaults     \* bound: restarts, errors of the worker, retryable failures

ASSUME ChainsAssumption ==
  /\ Size \in Nat \ {0} /\ Fresh \subseteq 1..Size
  /\ MaxAttempts \in Nat \ {0} /\ MaxEdits \in Nat /\ MaxFaults \in Nat

VARIABLES
  song,     \* whether the song is live, not in the bin
  gen,      \* the generation of each chain
  post,     \* its post.audio
  linked,   \* the takes that the post and the beats of a chain name
  beat,     \* the audio.beats of each take of a chain
  take,     \* rows of takes; a take is named by its variant and first chain
  ask,      \* memory: what a retry read before it awaited the resolver
  picked,   \* memory: the queued posts handed to a thread
  resumed,  \* memory: the posts this process has resumed
  back,     \* history: the takes that came back from the bin
  edits, faults

jobs    == <<gen, post, linked, beat>>
memory  == <<ask, picked, resumed>>
history == <<back, edits, faults>>
vars == <<song, jobs, take, memory, history>>

-----------------------------------------------------------------------------
Ids == 1..Size
TakeIds == Variants \X Ids
Ended == {"succeeded", "failed", "cancelled"}

NoJob == [status |-> "none", attempt |-> 0, cancel |-> FALSE]
NoGeneration == [status |-> "none", attempt |-> 0, cancel |-> FALSE,
                 more |-> FALSE]
NoTake == [status |-> "none", job |-> 0, intent |-> "none", gone |-> FALSE,
           parent |-> 0]
NoRequest == [chain |-> 0, takes |-> {}]

TypeOK ==
  /\ song \in BOOLEAN
  /\ gen \in [Ids -> [status: {"none", "queued", "running"} \cup Ended,
                      attempt: 0..MaxAttempts, cancel: BOOLEAN,
                      more: BOOLEAN]]
  /\ post \in [Ids -> [status: {"none", "blocked", "queued", "running",
                                "interrupted"} \cup Ended,
                       cancel: BOOLEAN,
                       why: {"none", "dependency", "plan"}]]
  /\ linked \in [Ids -> SUBSET TakeIds]
  /\ beat \in [Ids -> [TakeIds -> {"none", "blocked", "queued", "failed"}]]
  /\ take \in [TakeIds -> [status: {"none", "queued", "ready", "failed",
                                    "cancelled"},
                           job: 0..Size, gone: BOOLEAN, parent: 0..Size,
                           intent: {"none", "open", "committed", "failed",
                                    "cancelled"}]]
  /\ ask \in [Requests -> [chain: 0..Size, takes: SUBSET TakeIds]]
  /\ picked \subseteq Ids /\ resumed \subseteq Ids /\ back \subseteq TakeIds
  /\ edits \in 0..MaxEdits /\ faults \in 0..MaxFaults

NoPost == [status |-> "none", cancel |-> FALSE, why |-> "none"]

Init ==
  /\ song = TRUE
  /\ gen = [c \in Ids |-> NoGeneration]
  /\ post = [c \in Ids |-> NoPost]
  /\ linked = [c \in Ids |-> {}]
  /\ beat = [c \in Ids |-> [t \in TakeIds |-> "none"]]
  /\ take = [t \in TakeIds |-> NoTake]
  /\ ask = [r \in Requests |-> NoRequest]
  /\ picked = {} /\ resumed = {} /\ back = {}
  /\ edits = 0 /\ faults = 0

Edit == edits < MaxEdits /\ edits' = edits + 1 /\ UNCHANGED <<back, faults>>
Fault == faults < MaxFaults /\ faults' = faults + 1 /\ UNCHANGED <<back, edits>>

-----------------------------------------------------------------------------
\* What the rows say.

\* automatic_retry_pending, and what follows of it: a generation that ended
\* and will not run again.
Pending(c) == gen[c].status = "failed" /\ gen[c].more
Lost(c) == gen[c].status \in {"failed", "cancelled"} /\ ~Pending(c)

\* A take that some retry has given a child (ManualRetry._claimed_parents).
Claimed(t) == \E u \in TakeIds : u[1] = t[1] /\ take[u].parent = t[2]

\* The takes a retry of a chain may give away: the failed ones, and after a
\* successful generation those its own post has rejected.
FailedHere(c) ==
  {t \in TakeIds : /\ take[t].job = c /\ take[t].status = "failed"
                   /\ ~take[t].gone /\ ~Claimed(t)}
Rejected(c) ==
  {t \in linked[c] :
     /\ ~post[c].cancel
     /\ \/ post[c].status = "failed"
        \/ post[c].status = "succeeded" /\ take[t].intent = "failed"}
Selection(c) ==
  IF gen[c].status = "succeeded" THEN FailedHere(c) \cap Rejected(c)
                                 ELSE FailedHere(c)

\* ManualRetry accepts an ended generation that nobody cancelled.
Retryable(c) ==
  song /\ gen[c].status \in {"failed", "succeeded"} /\ ~gen[c].cancel

\* PublicationTransaction.authority and revalidate_context: the rows are
\* those the plan of the post was made from.
Whole(c) == \A t \in linked[c] : take[t].job = c /\ ~take[t].gone
Authorised(c) == song /\ ~post[c].cancel /\ Whole(c)
Executed(c) == \E t \in linked[c] : take[t].job = c /\ take[t].intent # "none"
Open(c) == {t \in linked[c] : take[t].job = c /\ take[t].intent = "open"}

\* terminalize_placeholders: what a generation leaves that nobody can use.
Terminalized(c, status) ==
  [t \in TakeIds |->
     IF /\ take[t].job = c /\ take[t].status = "queued" /\ ~take[t].gone
        /\ take[t].intent = "none"
     THEN [take[t] EXCEPT !.status = status] ELSE take[t]]

\* add_dependents: the post and the beats of new takes, all blocked.
Chained(c, takes) ==
  /\ gen' = [gen EXCEPT ![c].status = "queued"]
  /\ post' = [post EXCEPT ![c].status = "blocked"]
  /\ linked' = [linked EXCEPT ![c] = takes]
  /\ beat' = [beat EXCEPT ![c] = [t \in TakeIds |->
                IF t \in takes THEN "blocked" ELSE "none"]]

-----------------------------------------------------------------------------
\* The generation.

Create(c) ==
  LET takes == Variants \X {c}
  IN /\ song /\ c \in Fresh /\ gen[c] = NoGeneration
     /\ Chained(c, takes)
     /\ take' = [t \in TakeIds |->
          IF t \in takes THEN [NoTake EXCEPT !.status = "queued", !.job = c]
                         ELSE take[t]]
     /\ UNCHANGED <<song, memory, history>>

\* A reservation, the first or that of an automatic retry.
GenStarts(c) ==
  /\ song
  /\ gen[c].status = "queued" \/ Pending(c)
  /\ gen' = [gen EXCEPT ![c].status = "running", ![c].more = FALSE,
                        ![c].attempt = @ + 1]
  /\ UNCHANGED <<song, post, linked, beat, take, memory, history>>

\* The terminal of an attempt; more says that an automatic retry may follow.
GenEnds(c, end, more) ==
  LET status == IF gen[c].cancel THEN "cancelled" ELSE end
  IN /\ song /\ gen[c].status = "running"
     /\ IF more THEN status = "failed" /\ gen[c].attempt < MaxAttempts /\ Fault
               ELSE UNCHANGED history
     /\ gen' = [gen EXCEPT ![c].status = status, ![c].more = more]
     /\ take' = IF status = "succeeded" \/ more THEN take
                ELSE Terminalized(c, status)
     /\ UNCHANGED <<song, post, linked, beat, memory>>

\* A variant that fails the job and forgets its takes.
GenGivesUpAlone(c) ==
  /\ song /\ Pending(c)
  /\ gen' = [gen EXCEPT ![c].more = FALSE]
  /\ UNCHANGED <<song, post, linked, beat, take, memory, history>>

\* close_impossible_vram: no mode is left for the automatic retry.
GenGivesUp(c) ==
  /\ song /\ Pending(c)
  /\ gen' = [gen EXCEPT ![c].more = FALSE]
  /\ take' = Terminalized(c, "failed")
  /\ UNCHANGED <<song, post, linked, beat, memory, history>>

CancelGeneration(c) ==
  /\ song /\ Edit
  /\ gen[c].status \in {"queued", "running"} /\ ~gen[c].cancel
  /\ gen' = [gen EXCEPT ![c].cancel = TRUE, ![c].status =
               IF @ = "queued" THEN "cancelled" ELSE @]
  /\ take' = IF gen[c].status = "queued" THEN Terminalized(c, "cancelled")
                                         ELSE take
  /\ UNCHANGED <<song, post, linked, beat, memory>>

-----------------------------------------------------------------------------
\* The dependents: one page of the dispatcher is one transaction, whose
\* parents are read before any of its rows is written.

\* A variant that forgets the automatic retries of the parent.
PostAfterAnyFailure(c) ==
  IF gen[c].status \in {"failed", "cancelled"}
    THEN [post[c] EXCEPT !.status = "failed", !.why = "dependency"]
  ELSE IF gen[c].status # "succeeded"
    THEN [post[c] EXCEPT !.status = "blocked"]
  ELSE [post[c] EXCEPT !.status = "queued"]

PostAfter(c) ==
  IF Lost(c) THEN [post[c] EXCEPT !.status = "failed", !.why = "dependency"]
  ELSE IF gen[c].status # "succeeded"
    THEN [post[c] EXCEPT !.status = "blocked"]
  ELSE [post[c] EXCEPT !.status = "queued"]

\* references.validate: the take of an analysis is ready, and the post of its
\* own chain put it there.
Available(c, t) ==
  take[t].status = "ready" /\ ~take[t].gone /\ take[t].job = c

BeatAfter(c, t) ==
  IF post[c].status \in {"failed", "cancelled"} THEN "failed"
  ELSE IF post[c].status = "succeeded" /\ Available(c, t) THEN "queued"
  ELSE "blocked"

StalePosts ==
  {c \in Ids : /\ post[c].status \in {"blocked", "queued"}
               /\ ~post[c].cancel /\ PostAfter(c) # post[c]}
StaleBeats ==
  {b \in Ids \X TakeIds : /\ beat[b[1]][b[2]] = "blocked"
                          /\ BeatAfter(b[1], b[2]) # "blocked"}

\* Pages may split the jobs and skip those that changed since the list was
\* read: any part of what is stale.
Pass(posts, beats) ==
  /\ song /\ (posts # {} \/ beats # {})
  /\ posts \subseteq StalePosts /\ beats \subseteq StaleBeats
  /\ post' = [c \in Ids |-> IF c \in posts THEN PostAfter(c) ELSE post[c]]
  /\ beat' = [c \in Ids |-> [t \in TakeIds |->
       IF <<c, t>> \in beats THEN BeatAfter(c, t) ELSE beat[c][t]]]
  /\ UNCHANGED <<song, gen, linked, take, memory, history>>

-----------------------------------------------------------------------------
\* The post.

\* The list of candidates is read, and a thread is told; it claims later.
Pick(c) ==
  /\ song /\ post[c].status = "queued" /\ ~post[c].cancel
  /\ c \notin picked
  /\ picked' = picked \cup {c}
  /\ UNCHANGED <<song, jobs, take, ask, resumed, history>>

\* claim_job looks at the row of the post only.
Claim(c) ==
  /\ c \in picked
  /\ post' = IF post[c].status = "queued" /\ ~post[c].cancel
               THEN [post EXCEPT ![c].status = "running"] ELSE post
  /\ picked' = picked \ {c}
  /\ UNCHANGED <<song, gen, linked, beat, take, ask, resumed, history>>

\* The plan is made and its intents are reserved, or fail_plan ends the post
\* and leaves the takes, which belong to the generation, as they are.
Reserve(c) ==
  /\ post[c].status = "running" /\ ~Executed(c)
  /\ IF Authorised(c)
       THEN /\ take' = [t \in TakeIds |-> IF t \in linked[c]
                          THEN [take[t] EXCEPT !.intent = "open"]
                          ELSE take[t]]
            /\ UNCHANGED post
       ELSE /\ post' = [post EXCEPT ![c].status = "failed",
                                    ![c].why = "plan"]
            /\ UNCHANGED take
  /\ UNCHANGED <<song, gen, linked, beat, memory, history>>

ReserveFails(c) ==
  /\ post[c].status = "running" /\ ~Executed(c) /\ Fault
  /\ post' = [post EXCEPT ![c].status = "failed", ![c].why = "plan"]
  /\ UNCHANGED <<song, gen, linked, beat, take, memory>>

\* One take is published or rejected.
Publish(c, t) ==
  /\ post[c].status = "running" /\ t \in Open(c) /\ Authorised(c)
  /\ take' = [take EXCEPT ![t].status = "ready", ![t].intent = "committed"]
  /\ UNCHANGED <<song, jobs, memory, history>>

Reject(c, t) ==
  /\ post[c].status = "running" /\ t \in Open(c) /\ Authorised(c)
  /\ take' = [take EXCEPT ![t].status = "failed", ![t].intent = "failed"]
  /\ UNCHANGED <<song, jobs, memory, history>>

\* A variant that leaves the analyses of rejected takes blocked.
FinishAlone(c) ==
  /\ post[c].status = "running" /\ Executed(c) /\ Open(c) = {}
  /\ Authorised(c)
  /\ post' = [post EXCEPT ![c].status = "succeeded"]
  /\ UNCHANGED <<song, gen, linked, beat, take, memory, history>>

\* _complete_post: the analysis of a rejected take goes with it.
Finish(c) ==
  /\ post[c].status = "running" /\ Executed(c) /\ Open(c) = {}
  /\ Authorised(c)
  /\ post' = [post EXCEPT ![c].status = "succeeded"]
  /\ beat' = [beat EXCEPT ![c] = [t \in TakeIds |->
       IF /\ t \in linked[c] /\ take[t].intent # "committed"
          /\ beat[c][t] \in {"blocked", "queued"}
       THEN "failed" ELSE beat[c][t]]]
  /\ UNCHANGED <<song, gen, linked, take, memory, history>>

\* The worker meets rows that changed, or an error: the post is interrupted.
Interrupt(c) ==
  /\ post[c].status = "running" /\ Executed(c)
  /\ IF Authorised(c) THEN Fault ELSE UNCHANGED history
  /\ post' = [post EXCEPT ![c].status = "interrupted"]
  /\ UNCHANGED <<song, gen, linked, beat, take, memory>>

Resume(c) ==
  /\ post[c].status = "interrupted" /\ ~post[c].cancel /\ c \notin resumed
  /\ post' = [post EXCEPT ![c].status = "running"]
  /\ resumed' = resumed \cup {c}
  /\ UNCHANGED <<song, gen, linked, beat, take, ask, picked, history>>

CancelPost(c) ==
  /\ song /\ Edit
  /\ post[c].status \in {"blocked", "queued", "running", "interrupted"}
  /\ ~post[c].cancel
  /\ post' = [post EXCEPT ![c].cancel = TRUE, ![c].status =
                IF @ \in {"blocked", "queued"} THEN "cancelled" ELSE @]
  /\ UNCHANGED <<song, gen, linked, beat, take, memory>>

\* The loop ends what was cancelled: a post in the queue again, or one whose
\* execution has stopped, with the takes it had not settled.
CancelSettled(c) ==
  /\ post[c].cancel
  /\ \/ post[c].status = "queued" /\ song
     \/ post[c].status = "interrupted"
  /\ post' = [post EXCEPT ![c].status = "cancelled"]
  /\ take' = [t \in TakeIds |-> IF t \in Open(c)
       THEN [take[t] EXCEPT !.status = "cancelled", !.intent = "cancelled"]
       ELSE take[t]]
  /\ UNCHANGED <<song, gen, linked, beat, memory, history>>

-----------------------------------------------------------------------------
\* The manual retry: a reading, the catalogue of the engines, a transaction.

RetryReads(r, c) ==
  /\ ask[r] = NoRequest /\ Retryable(c) /\ Selection(c) # {}
  /\ ask' = [ask EXCEPT ![r] = [chain |-> c, takes |-> Selection(c)]]
  /\ UNCHANGED <<song, jobs, take, picked, resumed, history>>

\* The resolver refuses: no engine, no model.
RetryRefused(r) ==
  /\ ask[r] # NoRequest
  /\ ask' = [ask EXCEPT ![r] = NoRequest]
  /\ UNCHANGED <<song, jobs, take, picked, resumed, history>>

\* The row of a take under a retry that becomes chain n.
Requeued(t, n) == [take[t] EXCEPT !.status = "queued", !.job = n]
Child(t, n) ==
  [NoTake EXCEPT !.status = "queued", !.job = n, !.parent = t[2]]

Given(asked, n) ==
  LET kept == {t \in asked : take[t].intent # "none"}
      children == {<<t[1], n>> : t \in kept}
  IN /\ take' = [t \in TakeIds |->
          IF t \in children
            THEN Child(CHOOSE u \in kept : u[1] = t[1], n)
          ELSE IF t \in asked \ kept THEN Requeued(t, n) ELSE take[t]]
     /\ Chained(n, children \cup (asked \ kept))

\* The chain that a retry becomes: the next free one, up to the bound.
Free ==
  {n \in Ids \ Fresh :
     /\ gen[n] = NoGeneration
     /\ \A k \in Ids \ Fresh : k < n => gen[k] # NoGeneration}

\* A variant that trusts what was read before the resolver answered.
RetryClaimsBlind(r) ==
  LET c == ask[r].chain
      asked == ask[r].takes
  IN /\ ask[r] # NoRequest
     /\ ask' = [ask EXCEPT ![r] = NoRequest]
     /\ Retryable(c) /\ \E n \in Free : Given(asked, n)
     /\ UNCHANGED <<song, picked, resumed, history>>

\* All the takes that were asked for are still to be given, or none is.
RetryClaims(r) ==
  LET c == ask[r].chain
      asked == ask[r].takes
  IN /\ ask[r] # NoRequest
     /\ ask' = [ask EXCEPT ![r] = NoRequest]
     /\ IF Retryable(c) /\ asked \subseteq Selection(c)
          THEN \E n \in Free : Given(asked, n)
          ELSE UNCHANGED <<jobs, take>>
     /\ UNCHANGED <<song, picked, resumed, history>>

-----------------------------------------------------------------------------
\* The bin.

DeleteSong == song /\ Edit /\ song' = FALSE /\ UNCHANGED <<jobs, take, memory>>
RestoreSong ==
  ~song /\ song' = TRUE /\ UNCHANGED <<jobs, take, memory, history>>

\* The trigger refuses it for a published take.
DeleteTake(t) ==
  /\ take[t].status # "none" /\ ~take[t].gone /\ Edit
  /\ take[t].intent # "committed"
  /\ take' = [take EXCEPT ![t].gone = TRUE, ![t].status =
       IF @ \in {"failed", "cancelled"} THEN @ ELSE "cancelled"]
  /\ UNCHANGED <<song, jobs, memory>>

\* A take that no post had cancelled comes back as queued, whatever became of
\* its chain meanwhile.
RestoreTake(t) ==
  /\ song /\ take[t].gone
  /\ take' = [take EXCEPT ![t].gone = FALSE, ![t].status =
       IF @ = "cancelled" /\ take[t].intent # "cancelled" THEN "queued" ELSE @]
  /\ back' = back \cup {t}
  /\ UNCHANGED <<song, jobs, memory, edits, faults>>

-----------------------------------------------------------------------------
\* The server dies and starts again: reconcile_startup puts a post without
\* execution back in the queue and interrupts the others.
Restart ==
  /\ Fault
  /\ post' = [c \in Ids |->
       IF post[c].status \in {"running", "interrupted"} /\ ~Executed(c)
         THEN [post[c] EXCEPT !.status = "queued"]
       ELSE IF post[c].status = "running"
         THEN [post[c] EXCEPT !.status = "interrupted"]
       ELSE post[c]]
  /\ ask' = [r \in Requests |-> NoRequest]
  /\ picked' = {} /\ resumed' = {}
  /\ UNCHANGED <<song, gen, linked, beat, take>>

Generation(c) ==
  \/ Create(c) \/ GenStarts(c) \/ GenGivesUp(c) \/ CancelGeneration(c)
  \/ \E end \in Ended, more \in BOOLEAN : GenEnds(c, end, more)

Post(c) ==
  \/ Pick(c) \/ Claim(c) \/ Reserve(c) \/ ReserveFails(c) \/ Finish(c)
  \/ Interrupt(c) \/ Resume(c) \/ CancelPost(c) \/ CancelSettled(c)
  \/ \E t \in TakeIds : Publish(c, t) \/ Reject(c, t)

Retry(r) ==
  RetryClaims(r) \/ RetryRefused(r) \/ \E c \in Ids : RetryReads(r, c)

Next ==
  \/ \E c \in Ids : Generation(c) \/ Post(c)
  \/ \E posts \in SUBSET StalePosts, beats \in SUBSET StaleBeats :
       Pass(posts, beats)
  \/ \E r \in Requests : Retry(r)
  \/ DeleteSong \/ RestoreSong
  \/ \E t \in TakeIds : DeleteTake(t) \/ RestoreTake(t)
  \/ Restart

Spec == Init /\ [][Next]_vars

-----------------------------------------------------------------------------
\* Invariants.

\* A take is given away once: it has at most one child, only a failed take has
\* one, and of the chains that name a take no more than one is still at work,
\* whatever retries were in flight together (ManualRetry._claim).
Working(c) == ~Lost(c) /\ post[c].status \notin Ended \cup {"none"}
OneClaim ==
  \A t \in TakeIds :
    /\ Claimed(t) => take[t].status = "failed"
    /\ \A n, k \in Ids : /\ take[<<t[1], n>>].parent = t[2]
                         /\ take[<<t[1], k>>].parent = t[2]
                         => n = k
    /\ \A c, d \in Ids : /\ t \in linked[c] \cap linked[d]
                         /\ Working(c) /\ Working(d)
                         => c = d

\* The verdicts on dependents are never premature: a post is rejected by its
\* generation only when no automatic retry can still succeed, an analysis is
\* queued only for a take that its own chain has published, and one whose take
\* is in the library is rejected only with a post that was cancelled.
DependentsFollow ==
  \A c \in Ids :
    /\ post[c].why = "dependency" => Lost(c)
    /\ \A t \in TakeIds :
         /\ beat[c][t] = "queued" =>
              /\ post[c].status = "succeeded"
              /\ take[t].status = "ready" /\ take[t].job = c /\ ~take[t].gone
         /\ beat[c][t] = "failed" =>
              \/ take[t].status # "ready" \/ take[t].job # c
              \/ post[c].status = "cancelled"

\* No take waits for a chain that is over, with the exceptions that the code
\* makes: the plan of the post failed, the post was cancelled before it had
\* intents, or the take came back from the bin.
NothingStranded ==
  \A t \in TakeIds : \A c \in Ids :
    /\ take[t].status = "queued" /\ take[t].job = c /\ t \notin back
    /\ Lost(c) \/ post[c].status \in Ended
    => \/ post[c].why = "plan"
       \/ post[c].status = "cancelled" /\ take[t].intent = "none"

\* No analysis waits for ever: when a post has ended, the next pass of the
\* dispatcher has a verdict for each of its analyses that is still blocked
\* (PublicationTransaction._complete_post, whose docstring says so).
NoneWaits ==
  \A c \in Ids : \A t \in TakeIds :
    beat[c][t] = "blocked" /\ post[c].status \in Ended =>
      <<c, t>> \in StaleBeats
=============================================================================
