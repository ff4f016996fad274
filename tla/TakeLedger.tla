----------------------------- MODULE TakeLedger -----------------------------
(***************************************************************************)
(* What the CPU worker promises of the takes, whatever crashes and errors  *)
(* it meets: a directory is put in its final place once, a take is shown   *)
(* only after it, a take that is shown or rejected stays so, and a post    *)
(* that succeeds has settled every take.                                   *)
(***************************************************************************)
CONSTANTS Posts, Takes, TakesOf

VARIABLES
  status,  \* what the library says of each take
  files,   \* the takes with a directory in its final place
  closed   \* the posts that have succeeded

Init ==
  /\ status = [t \in Takes |-> "queued"]
  /\ files = {}
  /\ closed = {}

Place(t) ==
  /\ status[t] = "queued" /\ t \notin files
  /\ files' = files \cup {t}
  /\ UNCHANGED <<status, closed>>

Publish(t) ==
  /\ status[t] = "queued" /\ t \in files
  /\ status' = [status EXCEPT ![t] = "ready"]
  /\ UNCHANGED <<files, closed>>

\* A failure rejects one take, a cancellation those of a post not shown yet.
Reject(S, value) ==
  /\ \A t \in S : status[t] = "queued"
  /\ status' = [t \in Takes |-> IF t \in S THEN value ELSE status[t]]
  /\ UNCHANGED <<files, closed>>

Close(p) ==
  /\ p \notin closed
  /\ \A t \in TakesOf[p] : status[t] # "queued"
  /\ closed' = closed \cup {p}
  /\ UNCHANGED <<status, files>>

Next ==
  \/ \E t \in Takes : Place(t) \/ Publish(t)
  \/ \E S \in SUBSET Takes, value \in {"failed", "cancelled"} : Reject(S, value)
  \/ \E p \in Posts : Close(p)

Spec == Init /\ [][Next]_<<status, files, closed>>
=============================================================================
