---------------------------- MODULE CustodyProofs ----------------------------
(***************************************************************************)
(* A post whose custody is closed has no process left, and only a fault or *)
(* one of the windows leaves it unknown, for any number of takes, any      *)
(* queue and any number of faults.                                         *)
(*                                                                         *)
(* The supervisor says confirmed only when everything was waited for, and  *)
(* then nothing can move any more (ToldWhenOver); the receipt needs that   *)
(* word and a clean exit (Settled).  Busy is what the types need: a take   *)
(* that is being worked on is one of those left.                           *)
(***************************************************************************)
EXTENDS Custody, TLAPS

Orders == {"resume", "seal", "stop", "ack"}
Events == {"sealed", "confirmed", "doubtful"}
Frames == {"ready", "take", "result", "closed"}
Children == {"none", "gated", "running", "zombie", "reaped"}

Over == /\ lead.pc = "waited"
        /\ child \in {"none", "reaped"}
        /\ sup.pc \in {"ack", "exit0", "exit1", "crashed"}

ToldWhenOver ==
  /\ owner.final = "confirmed" => Over
  /\ \A i \in 1..Len(up) : up[i] = "confirmed" => Over

Settled == owner.verdict = "closed" =>
             /\ owner.pc = "done"
             /\ owner.final = "confirmed"
             /\ sup.pc = "exit0"

Busy == lead.pc \in {"born", "watch", "gone", "reaped"} => lead.left > 0

IInv == TypeOK /\ ToldWhenOver /\ Settled /\ Busy

-----------------------------------------------------------------------------
(* Queues of messages. *)

LEMMA Enqueued ==
  ASSUME NEW S, NEW q \in Seq(S), NEW x \in S
  PROVE  Append(q, x) \in Seq(S)
  OBVIOUS

LEMMA Dequeued ==
  ASSUME NEW S, NEW q \in Seq(S), q # <<>>
  PROVE  /\ Head(q) \in S /\ Tail(q) \in Seq(S)
         /\ Head(q) = q[1] /\ 1 \in 1..Len(q)
         /\ Len(Tail(q)) = Len(q) - 1
         /\ \A i \in 1..Len(Tail(q)) : Tail(q)[i] = q[i + 1]
  OBVIOUS

LEMMA Lengthened ==
  ASSUME NEW S, NEW q \in Seq(S), NEW x \in S
  PROVE  /\ Len(Append(q, x)) = Len(q) + 1 /\ Len(q) \in Nat
         /\ Append(q, x)[Len(q) + 1] = x
         /\ \A i \in 1..Len(q) : Append(q, x)[i] = q[i]
  OBVIOUS

\* A step that leaves the word of the supervisor alone must leave its truth.
LEMMA StillTold ==
  ASSUME ToldWhenOver, Over => Over', owner'.final = owner.final, up' = up
  PROVE  ToldWhenOver'
  BY DEF ToldWhenOver

\* While something goes on nobody has said otherwise, and the next word counts.
LEMMA NewlyTold ==
  ASSUME TypeOK, ToldWhenOver, ~Over, owner'.final = owner.final,
         NEW e \in Events, up' = Append(up, e), e = "confirmed" => Over'
  PROVE  ToldWhenOver'
<1>1. owner'.final # "confirmed"
  BY DEF ToldWhenOver
<1>2. ASSUME NEW i \in 1..Len(up'), up'[i] = "confirmed" PROVE Over'
  <2>1. up \in Seq(Events) /\ \A k \in 1..Len(up) : up[k] # "confirmed"
    BY DEF TypeOK, Events, ToldWhenOver
  <2>2. i = Len(up) + 1
    BY <1>2, <2>1, Lengthened
  <2> QED
    BY <1>2, <2>1, <2>2, Lengthened
<1> QED
  BY <1>1, <1>2 DEF ToldWhenOver

-----------------------------------------------------------------------------
(* One lemma per action. *)

LEMMA StartStep ==
  ASSUME IInv, Start PROVE IInv'
<1>1. TypeOK'
  <2>1. owner' \in OwnerRecord
    BY DEF Start, At, GoTo, IInv, TypeOK, OwnerRecord
  <2>2. down' \in Seq(Orders)
    BY Enqueued, Dequeued DEF Start, At, GoTo, IInv, TypeOK, Orders
  <2> QED
    BY <2>1, <2>2 DEF Start, At, GoTo, pipes, processes, history, IInv,
        TypeOK, Orders, Events, Frames, Children
<1>2. ToldWhenOver'
  <2>1. Over => Over'
    BY DEF Start, At, GoTo, pipes, processes, history, IInv, Over
  <2>2. owner'.final = owner.final /\ up' = up
    BY DEF Start, At, GoTo, pipes, processes, history, IInv, TypeOK,
        OwnerRecord
  <2> QED
    BY <2>1, <2>2, StillTold DEF IInv
<1>3. Settled'
  BY DEF Start, At, GoTo, pipes, processes, history, IInv, Settled, TypeOK,
      OwnerRecord
<1>4. Busy'
  BY DEF Start, At, GoTo, pipes, processes, history, IInv, Busy, TypeOK
<1> QED
  BY <1>1, <1>2, <1>3, <1>4 DEF IInv

LEMMA StartFailsStep ==
  ASSUME IInv, StartFails PROVE IInv'
<1>1. TypeOK'
  <2>1. owner' \in OwnerRecord
    BY DEF StartFails, At, Fault, IInv, TypeOK, OwnerRecord
  <2>2. faults' \in 0..MaxFaults
    BY CustodyAssumption DEF StartFails, At, Fault, IInv, TypeOK
  <2> QED
    BY <2>1, <2>2 DEF StartFails, At, Fault, pipes, processes, IInv, TypeOK,
        Orders, Events, Frames, Children
<1>2. ToldWhenOver'
  <2>1. Over => Over'
    BY DEF StartFails, At, Fault, pipes, processes, IInv, Over
  <2>2. owner'.final = owner.final /\ up' = up
    BY DEF StartFails, At, Fault, pipes, processes, IInv, TypeOK, OwnerRecord
  <2> QED
    BY <2>1, <2>2, StillTold DEF IInv
<1>3. Settled'
  BY DEF StartFails, At, Fault, pipes, processes, IInv, Settled, TypeOK,
      OwnerRecord
<1>4. Busy'
  BY DEF StartFails, At, Fault, pipes, processes, IInv, Busy, TypeOK
<1> QED
  BY <1>1, <1>2, <1>3, <1>4 DEF IInv

LEMMA CancelStep ==
  ASSUME IInv, Cancel PROVE IInv'
<1>1. TypeOK'
  <2>1. owner' \in OwnerRecord
    BY DEF Cancel, IInv, TypeOK, OwnerRecord
  <2> QED
    BY <2>1 DEF Cancel, control, pipes, processes, history, IInv, TypeOK,
        Orders, Events, Frames, Children
<1>2. ToldWhenOver'
  <2>1. Over => Over'
    BY DEF Cancel, control, pipes, processes, history, IInv, Over
  <2>2. owner'.final = owner.final /\ up' = up
    BY DEF Cancel, control, pipes, processes, history, IInv, TypeOK,
        OwnerRecord
  <2> QED
    BY <2>1, <2>2, StillTold DEF IInv
<1>3. Settled'
  BY DEF Cancel, control, pipes, processes, history, IInv, Settled, TypeOK,
      OwnerRecord
<1>4. Busy'
  BY DEF Cancel, control, pipes, processes, history, IInv, Busy, TypeOK
<1> QED
  BY <1>1, <1>2, <1>3, <1>4 DEF IInv

LEMMA ConsumeStep ==
  ASSUME IInv, Consume PROVE IInv'
<1>1. TypeOK'
  <2> QED
    BY CustodyAssumption DEF Consume, control, pipes, processes, history,
        IInv, TypeOK, Orders, Events, Frames, Children
<1>2. ToldWhenOver'
  <2>1. Over => Over'
    BY DEF Consume, control, pipes, processes, history, IInv, Over
  <2>2. UNCHANGED <<owner, up>>
    BY DEF Consume, control, pipes, processes, history
  <2> QED
    BY <2>1, <2>2, StillTold DEF IInv
<1>3. Settled'
  BY DEF Consume, control, pipes, processes, history, IInv, Settled, TypeOK
<1>4. Busy'
  BY DEF Consume, control, pipes, processes, history, IInv, Busy, TypeOK
<1> QED
  BY <1>1, <1>2, <1>3, <1>4 DEF IInv

LEMMA ReadFrameStep ==
  ASSUME IInv, ReadFrame PROVE IInv'
<1>1. TypeOK'
  <2>1. owner' \in OwnerRecord
    BY DEF ReadFrame, At, GoTo, Fails, SupGone, IInv, TypeOK, OwnerRecord
  <2>2. down' \in Seq(Orders)
    <3>1. down' = down \/ down' = Append(down, "seal")
      BY DEF ReadFrame
    <3> QED
      BY <3>1, Enqueued DEF IInv, TypeOK, Orders
  <2>3. out' \in Seq(Frames)
    BY Enqueued, Dequeued DEF ReadFrame, At, GoTo, Fails, SupGone, IInv,
        TypeOK, Frames
  <2> QED
    BY <2>1, <2>2, <2>3 DEF ReadFrame, At, GoTo, Fails, SupGone, processes,
        history, IInv, TypeOK, Orders, Events, Frames, Children
<1>2. ToldWhenOver'
  <2>1. Over => Over'
    BY DEF ReadFrame, At, GoTo, Fails, SupGone, processes, history, IInv, Over
  <2>2. owner'.final = owner.final /\ up' = up
    BY DEF ReadFrame, At, GoTo, Fails, SupGone, processes, history, IInv,
        TypeOK, OwnerRecord
  <2> QED
    BY <2>1, <2>2, StillTold DEF IInv
<1>3. Settled'
  BY DEF ReadFrame, At, GoTo, Fails, SupGone, processes, history, IInv,
      Settled, TypeOK, OwnerRecord
<1>4. Busy'
  BY DEF ReadFrame, At, GoTo, Fails, SupGone, processes, history, IInv, Busy,
      TypeOK
<1> QED
  BY <1>1, <1>2, <1>3, <1>4 DEF IInv

LEMMA SendRequestStep ==
  ASSUME IInv, SendRequest PROVE IInv'
<1>1. TypeOK'
  <2>1. owner' \in OwnerRecord
    BY DEF SendRequest, At, GoTo, Fails, IInv, TypeOK, OwnerRecord
  <2>2. race' \in SUBSET Windows
    BY DEF SendRequest, At, GoTo, Fails, IInv, TypeOK, Windows
  <2> QED
    BY <2>1, <2>2 DEF SendRequest, At, GoTo, Fails, control, processes, IInv,
        TypeOK, Orders, Events, Frames, Children
<1>2. ToldWhenOver'
  <2>1. Over => Over'
    BY DEF SendRequest, At, GoTo, Fails, control, processes, IInv, Over
  <2>2. owner'.final = owner.final /\ up' = up
    BY DEF SendRequest, At, GoTo, Fails, control, processes, IInv, TypeOK,
        OwnerRecord
  <2> QED
    BY <2>1, <2>2, StillTold DEF IInv
<1>3. Settled'
  BY DEF SendRequest, At, GoTo, Fails, control, processes, IInv, Settled,
      TypeOK, OwnerRecord
<1>4. Busy'
  BY DEF SendRequest, At, GoTo, Fails, control, processes, IInv, Busy, TypeOK
<1> QED
  BY <1>1, <1>2, <1>3, <1>4 DEF IInv

LEMMA OfferStep ==
  ASSUME IInv, Offer PROVE IInv'
<1>1. TypeOK'
  <2>1. owner' \in OwnerRecord
    BY DEF Offer, At, GoTo, IInv, TypeOK, OwnerRecord
  <2> QED
    BY <2>1, CustodyAssumption DEF Offer, At, GoTo, control, pipes, processes,
        history, IInv, TypeOK, Orders, Events, Frames, Children
<1>2. ToldWhenOver'
  <2>1. Over => Over'
    BY DEF Offer, At, GoTo, control, pipes, processes, history, IInv, Over
  <2>2. owner'.final = owner.final /\ up' = up
    BY DEF Offer, At, GoTo, control, pipes, processes, history, IInv, TypeOK,
        OwnerRecord
  <2> QED
    BY <2>1, <2>2, StillTold DEF IInv
<1>3. Settled'
  BY DEF Offer, At, GoTo, control, pipes, processes, history, IInv, Settled,
      TypeOK, OwnerRecord
<1>4. Busy'
  BY DEF Offer, At, GoTo, control, pipes, processes, history, IInv, Busy,
      TypeOK
<1> QED
  BY <1>1, <1>2, <1>3, <1>4 DEF IInv

LEMMA OfferRevokedStep ==
  ASSUME IInv, OfferRevoked PROVE IInv'
<1>1. TypeOK'
  <2>1. owner' \in OwnerRecord
    BY DEF OfferRevoked, At, Fails, IInv, TypeOK, OwnerRecord
  <2>2. race' \in SUBSET Windows
    BY DEF OfferRevoked, At, Fails, IInv, TypeOK, Windows
  <2> QED
    BY <2>1, <2>2 DEF OfferRevoked, At, Fails, control, pipes, processes,
        IInv, TypeOK, Orders, Events, Frames, Children
<1>2. ToldWhenOver'
  <2>1. Over => Over'
    BY DEF OfferRevoked, At, Fails, control, pipes, processes, IInv, Over
  <2>2. owner'.final = owner.final /\ up' = up
    BY DEF OfferRevoked, At, Fails, control, pipes, processes, IInv, TypeOK,
        OwnerRecord
  <2> QED
    BY <2>1, <2>2, StillTold DEF IInv
<1>3. Settled'
  BY DEF OfferRevoked, At, Fails, control, pipes, processes, IInv, Settled,
      TypeOK, OwnerRecord
<1>4. Busy'
  BY DEF OfferRevoked, At, Fails, control, pipes, processes, IInv, Busy,
      TypeOK
<1> QED
  BY <1>1, <1>2, <1>3, <1>4 DEF IInv

LEMMA ReadEventStep ==
  ASSUME IInv, ReadEvent PROVE IInv'
<1>1. TypeOK'
  <2>1. owner' \in OwnerRecord
    <3>1. CASE owner' = owner
      BY <3>1 DEF IInv, TypeOK
    <3>2. CASE owner' = [owner EXCEPT !.pc = "offer", !.closed = TRUE]
      BY <3>2 DEF IInv, TypeOK, OwnerRecord
    <3>3. CASE Fails \/ GoTo("drain")
      BY <3>3 DEF Fails, GoTo, IInv, TypeOK, OwnerRecord
    <3>4. CASE \E end \in {"confirmed", "doubtful"} :
                 owner' = [owner EXCEPT !.final = end,
                            !.pc = IF @ = "await" THEN "reap" ELSE @]
      BY <3>4 DEF IInv, TypeOK, OwnerRecord
    <3> QED
      BY <3>1, <3>2, <3>3, <3>4 DEF ReadEvent
  <2>2. down' \in Seq(Orders)
    <3>1. down' = down \/ down' = Append(down, "ack")
      BY DEF ReadEvent
    <3> QED
      BY <3>1, Enqueued DEF IInv, TypeOK, Orders
  <2>3. up' \in Seq(Events)
    BY Enqueued, Dequeued DEF ReadEvent, GoTo, Fails, SupGone, IInv, TypeOK,
        Events
  <2> QED
    BY <2>1, <2>2, <2>3 DEF ReadEvent, GoTo, Fails, SupGone, pipes, processes,
        history, IInv, TypeOK, Orders, Events, Frames, Children
<1>2. ToldWhenOver'
  <2>1. Over' <=> Over
    BY DEF ReadEvent, processes, Over
  <2>2. up \in Seq(Events) /\ up # <<>> /\ up' = Tail(up)
    BY DEF ReadEvent, IInv, TypeOK, Events
  <2>3. owner'.final = "confirmed" =>
          owner.final = "confirmed" \/ Head(up) = "confirmed"
    BY DEF ReadEvent, GoTo, Fails, IInv, TypeOK, OwnerRecord
  <2>4. owner'.final = "confirmed" => Over
    BY <2>2, <2>3, Dequeued DEF IInv, ToldWhenOver
  <2>5. ASSUME NEW i \in 1..Len(up'), up'[i] = "confirmed" PROVE Over
    <3>1. Len(up) \in Nat /\ i + 1 \in 1..Len(up) /\ up[i + 1] = "confirmed"
      BY <2>2, <2>5, Dequeued
    <3> QED
      BY <3>1 DEF IInv, ToldWhenOver
  <2> QED
    BY <2>1, <2>4, <2>5 DEF ToldWhenOver
<1>3. Settled'
  BY DEF ReadEvent, GoTo, Fails, SupGone, pipes, processes, history, IInv,
      Settled, TypeOK, OwnerRecord
<1>4. Busy'
  BY DEF ReadEvent, GoTo, Fails, SupGone, pipes, processes, history, IInv,
      Busy, TypeOK
<1> QED
  BY <1>1, <1>2, <1>3, <1>4 DEF IInv

LEMMA SealTimesOutStep ==
  ASSUME IInv, SealTimesOut PROVE IInv'
<1>1. TypeOK'
  <2>1. owner' \in OwnerRecord
    BY DEF SealTimesOut, At, Fails, Stopping, IInv, TypeOK, OwnerRecord
  <2>2. race' \in SUBSET Windows
    BY DEF SealTimesOut, At, Fails, Stopping, IInv, TypeOK, Windows
  <2> QED
    BY <2>1, <2>2 DEF SealTimesOut, At, Fails, Stopping, control, pipes,
        processes, IInv, TypeOK, Orders, Events, Frames, Children
<1>2. ToldWhenOver'
  <2>1. Over => Over'
    BY DEF SealTimesOut, At, Fails, Stopping, control, pipes, processes, IInv,
        Over
  <2>2. owner'.final = owner.final /\ up' = up
    BY DEF SealTimesOut, At, Fails, Stopping, control, pipes, processes, IInv,
        TypeOK, OwnerRecord
  <2> QED
    BY <2>1, <2>2, StillTold DEF IInv
<1>3. Settled'
  BY DEF SealTimesOut, At, Fails, Stopping, control, pipes, processes, IInv,
      Settled, TypeOK, OwnerRecord
<1>4. Busy'
  BY DEF SealTimesOut, At, Fails, Stopping, control, pipes, processes, IInv,
      Busy, TypeOK
<1> QED
  BY <1>1, <1>2, <1>3, <1>4 DEF IInv

LEMMA EndsStep ==
  ASSUME IInv, Ends PROVE IInv'
<1>1. TypeOK'
  <2>1. owner' \in OwnerRecord
    BY ZenonT(40) DEF Ends, At, GoTo, Fails, Eof, LeadAlive, IInv, TypeOK, OwnerRecord
  <2> QED
    BY <2>1 DEF Ends, At, GoTo, Fails, Eof, control, pipes, processes,
        history, LeadAlive, IInv, TypeOK, Orders, Events, Frames, Children
<1>2. ToldWhenOver'
  <2>1. Over => Over'
    BY DEF Ends, At, GoTo, Fails, Eof, control, pipes, processes, history,
        LeadAlive, IInv, Over
  <2>2. owner'.final = owner.final /\ up' = up
    BY DEF Ends, At, GoTo, Fails, Eof, control, pipes, processes, history,
        LeadAlive, IInv, TypeOK, OwnerRecord
  <2> QED
    BY <2>1, <2>2, StillTold DEF IInv
<1>3. Settled'
  BY DEF Ends, At, GoTo, Fails, Eof, control, pipes, processes, history,
      LeadAlive, IInv, Settled, TypeOK, OwnerRecord
<1>4. Busy'
  BY DEF Ends, At, GoTo, Fails, Eof, control, pipes, processes, history,
      LeadAlive, IInv, Busy, TypeOK
<1> QED
  BY <1>1, <1>2, <1>3, <1>4 DEF IInv

LEMMA TerminateStep ==
  ASSUME IInv, Terminate PROVE IInv'
<1>1. TypeOK'
  <2>1. owner' \in OwnerRecord
    BY ZenonT(40) DEF Terminate, At, SupGone, IInv, TypeOK, OwnerRecord
  <2>2. down' \in Seq(Orders)
    <3>1. down' = down \/ down' = Append(down, "stop")
      BY DEF Terminate
    <3> QED
      BY <3>1, Enqueued DEF IInv, TypeOK, Orders
  <2> QED
    BY <2>1, <2>2 DEF Terminate, At, SupGone, pipes, processes, history, IInv,
        TypeOK, Orders, Events, Frames, Children
<1>2. ToldWhenOver'
  <2>1. Over => Over'
    BY DEF Terminate, At, SupGone, pipes, processes, history, IInv, Over
  <2>2. owner'.final = owner.final /\ up' = up
    BY DEF Terminate, At, SupGone, pipes, processes, history, IInv, TypeOK,
        OwnerRecord
  <2> QED
    BY <2>1, <2>2, StillTold DEF IInv
<1>3. Settled'
  BY DEF Terminate, At, SupGone, pipes, processes, history, IInv, Settled,
      TypeOK, OwnerRecord
<1>4. Busy'
  BY DEF Terminate, At, SupGone, pipes, processes, history, IInv, Busy, TypeOK
<1> QED
  BY <1>1, <1>2, <1>3, <1>4 DEF IInv

LEMMA AwaitTimesOutStep ==
  ASSUME IInv, AwaitTimesOut PROVE IInv'
<1>1. TypeOK'
  <2>1. owner' \in OwnerRecord
    BY DEF AwaitTimesOut, At, GoTo, SupGone, IInv, TypeOK, OwnerRecord
  <2> QED
    BY <2>1 DEF AwaitTimesOut, At, GoTo, SupGone, control, pipes, processes,
        history, IInv, TypeOK, Orders, Events, Frames, Children
<1>2. ToldWhenOver'
  <2>1. Over => Over'
    BY DEF AwaitTimesOut, At, GoTo, SupGone, control, pipes, processes,
        history, IInv, Over
  <2>2. owner'.final = owner.final /\ up' = up
    BY DEF AwaitTimesOut, At, GoTo, SupGone, control, pipes, processes,
        history, IInv, TypeOK, OwnerRecord
  <2> QED
    BY <2>1, <2>2, StillTold DEF IInv
<1>3. Settled'
  BY DEF AwaitTimesOut, At, GoTo, SupGone, control, pipes, processes, history,
      IInv, Settled, TypeOK, OwnerRecord
<1>4. Busy'
  BY DEF AwaitTimesOut, At, GoTo, SupGone, control, pipes, processes, history,
      IInv, Busy, TypeOK
<1> QED
  BY <1>1, <1>2, <1>3, <1>4 DEF IInv

LEMMA AnswerLateStep ==
  ASSUME IInv, AnswerLate PROVE IInv'
<1>1. TypeOK'
  <2>1. owner' \in OwnerRecord
    BY DEF AnswerLate, GoTo, Fails, Fault, IInv, TypeOK, OwnerRecord
  <2> QED
    BY <2>1, CustodyAssumption DEF AnswerLate, GoTo, Fails, Fault, control,
        pipes, processes, IInv, TypeOK, Orders, Events, Frames, Children
<1>2. ToldWhenOver'
  <2>1. Over => Over'
    BY DEF AnswerLate, GoTo, Fails, Fault, control, pipes, processes, IInv,
        Over
  <2>2. owner'.final = owner.final /\ up' = up
    BY DEF AnswerLate, GoTo, Fails, Fault, control, pipes, processes, IInv,
        TypeOK, OwnerRecord
  <2> QED
    BY <2>1, <2>2, StillTold DEF IInv
<1>3. Settled'
  BY DEF AnswerLate, GoTo, Fails, Fault, control, pipes, processes, IInv,
      Settled, TypeOK, OwnerRecord
<1>4. Busy'
  BY DEF AnswerLate, GoTo, Fails, Fault, control, pipes, processes, IInv,
      Busy, TypeOK
<1> QED
  BY <1>1, <1>2, <1>3, <1>4 DEF IInv

LEMMA WaitSupervisorStep ==
  ASSUME IInv, WaitSupervisor PROVE IInv'
<1>1. TypeOK'
  <2>1. owner' \in OwnerRecord
    BY DEF WaitSupervisor, At, GoTo, SupGone, IInv, TypeOK, OwnerRecord
  <2> QED
    BY <2>1 DEF WaitSupervisor, At, GoTo, SupGone, control, pipes, processes,
        history, IInv, TypeOK, Orders, Events, Frames, Children
<1>2. ToldWhenOver'
  <2>1. Over => Over'
    BY DEF WaitSupervisor, At, GoTo, SupGone, control, pipes, processes,
        history, IInv, Over
  <2>2. owner'.final = owner.final /\ up' = up
    BY DEF WaitSupervisor, At, GoTo, SupGone, control, pipes, processes,
        history, IInv, TypeOK, OwnerRecord
  <2> QED
    BY <2>1, <2>2, StillTold DEF IInv
<1>3. Settled'
  BY DEF WaitSupervisor, At, GoTo, SupGone, control, pipes, processes,
      history, IInv, Settled, TypeOK, OwnerRecord
<1>4. Busy'
  BY DEF WaitSupervisor, At, GoTo, SupGone, control, pipes, processes,
      history, IInv, Busy, TypeOK
<1> QED
  BY <1>1, <1>2, <1>3, <1>4 DEF IInv

LEMMA DrainStep ==
  ASSUME IInv, Drain PROVE IInv'
<1>1. TypeOK'
  <2>1. owner' \in OwnerRecord
    BY DEF Drain, At, Eof, LeadAlive, IInv, TypeOK, OwnerRecord
  <2>2. out' \in Seq(Frames)
    BY Enqueued, Dequeued DEF Drain, At, Eof, LeadAlive, IInv, TypeOK, Frames
  <2> QED
    BY <2>1, <2>2 DEF Drain, At, Eof, processes, history, LeadAlive, IInv,
        TypeOK, Orders, Events, Frames, Children
<1>2. ToldWhenOver'
  <2>1. Over => Over'
    BY DEF Drain, At, Eof, processes, history, LeadAlive, IInv, Over
  <2>2. owner'.final = owner.final /\ up' = up
    BY DEF Drain, At, Eof, processes, history, LeadAlive, IInv, TypeOK,
        OwnerRecord
  <2> QED
    BY <2>1, <2>2, StillTold DEF IInv
<1>3. Settled'
  BY DEF Drain, At, Eof, processes, history, LeadAlive, IInv, Settled, TypeOK,
      OwnerRecord
<1>4. Busy'
  BY DEF Drain, At, Eof, processes, history, LeadAlive, IInv, Busy, TypeOK
<1> QED
  BY <1>1, <1>2, <1>3, <1>4 DEF IInv

LEMMA ParentDiesStep ==
  ASSUME IInv, ParentDies PROVE IInv'
<1>1. TypeOK'
  <2>1. faults' \in 0..MaxFaults
    BY CustodyAssumption DEF ParentDies, Fault, IInv, TypeOK
  <2> QED
    BY <2>1 DEF ParentDies, Fault, memory, pipes, processes, IInv, TypeOK,
        Orders, Events, Frames, Children
<1>2. ToldWhenOver'
  <2>1. Over => Over'
    BY DEF ParentDies, Fault, memory, pipes, processes, IInv, Over
  <2>2. UNCHANGED <<owner, up>>
    BY DEF ParentDies, Fault, memory, pipes, processes
  <2> QED
    BY <2>1, <2>2, StillTold DEF IInv
<1>3. Settled'
  BY DEF ParentDies, Fault, memory, pipes, processes, IInv, Settled, TypeOK
<1>4. Busy'
  BY DEF ParentDies, Fault, memory, pipes, processes, IInv, Busy, TypeOK
<1> QED
  BY <1>1, <1>2, <1>3, <1>4 DEF IInv

LEMMA SeesEndStep ==
  ASSUME IInv, SeesEnd PROVE IInv'
<1>1. TypeOK'
  <2>1. sup' \in SupRecord
    BY DEF SeesEnd, LeadAlive, Leave, IInv, TypeOK, SupRecord
  <2> QED
    BY <2>1 DEF SeesEnd, LeadAlive, Leave, memory, control, pipes, history,
        IInv, TypeOK, Orders, Events, Frames, Children
<1>2. ToldWhenOver'
  <2>1. Over => Over'
    BY DEF SeesEnd, LeadAlive, Leave, memory, control, pipes, history, IInv,
        Over
  <2>2. UNCHANGED <<owner, up>>
    BY DEF SeesEnd, LeadAlive, Leave, memory, control, pipes, history
  <2> QED
    BY <2>1, <2>2, StillTold DEF IInv
<1>3. Settled'
  BY DEF SeesEnd, LeadAlive, Leave, memory, control, pipes, history, IInv,
      Settled, TypeOK, SupRecord
<1>4. Busy'
  BY DEF SeesEnd, LeadAlive, Leave, memory, control, pipes, history, IInv,
      Busy, TypeOK
<1> QED
  BY <1>1, <1>2, <1>3, <1>4 DEF IInv

LEMMA TakeCommandStep ==
  ASSUME IInv, TakeCommand PROVE IInv'
<1>1. TypeOK'
  <2>1. down' \in Seq(Orders)
    BY Enqueued, Dequeued DEF TakeCommand, Leave, IInv, TypeOK, Orders
  <2>2. up' \in Seq(Events)
    <3>1. up' = up \/ up' = Append(up, "sealed")
      BY DEF TakeCommand
    <3> QED
      BY <3>1, Enqueued DEF IInv, TypeOK, Events
  <2>3. sup' \in SupRecord
    BY DEF TakeCommand, Leave, IInv, TypeOK, SupRecord
  <2> QED
    BY <2>1, <2>2, <2>3 DEF TakeCommand, Leave, memory, pipes, history, IInv,
        TypeOK, Orders, Events, Frames, Children
<1>2. ToldWhenOver'
  <2>1. ~Over /\ UNCHANGED owner
    BY DEF TakeCommand, Over, memory
  <2>2. CASE up' = up
    BY <2>1, <2>2, StillTold DEF IInv
  <2>3. CASE up' = Append(up, "sealed")
    BY <2>1, <2>3, NewlyTold DEF IInv, Events
  <2> QED
    BY <2>2, <2>3 DEF TakeCommand
<1>3. Settled'
  BY DEF TakeCommand, Leave, memory, pipes, history, IInv, Settled, TypeOK,
      SupRecord
<1>4. Busy'
  BY DEF TakeCommand, Leave, memory, pipes, history, IInv, Busy, TypeOK
<1> QED
  BY <1>1, <1>2, <1>3, <1>4 DEF IInv

LEMMA TakeEntryStep ==
  ASSUME IInv, TakeEntry PROVE IInv'
<1>1. TypeOK'
  <2>1. sup' \in SupRecord
    BY DEF TakeEntry, Leave, Expected, LeadAlive, IInv, TypeOK, SupRecord
  <2>2. reg' \in RegRecord
    BY DEF TakeEntry, Leave, Expected, LeadAlive, IInv, TypeOK, RegRecord
  <2> QED
    BY <2>1, <2>2 DEF TakeEntry, Leave, Expected, memory, control, pipes,
        history, LeadAlive, IInv, TypeOK, Orders, Events, Frames, Children
<1>2. ToldWhenOver'
  <2>1. Over => Over'
    BY DEF TakeEntry, Leave, Expected, memory, control, pipes, history,
        LeadAlive, IInv, Over
  <2>2. UNCHANGED <<owner, up>>
    BY DEF TakeEntry, Leave, Expected, memory, control, pipes, history,
        LeadAlive
  <2> QED
    BY <2>1, <2>2, StillTold DEF IInv
<1>3. Settled'
  BY DEF TakeEntry, Leave, Expected, memory, control, pipes, history,
      LeadAlive, IInv, Settled, TypeOK, SupRecord
<1>4. Busy'
  BY DEF TakeEntry, Leave, Expected, memory, control, pipes, history,
      LeadAlive, IInv, Busy, TypeOK
<1> QED
  BY <1>1, <1>2, <1>3, <1>4 DEF IInv

LEMMA SupFailsStep ==
  ASSUME IInv, SupFails PROVE IInv'
<1>1. TypeOK'
  <2>1. sup' \in SupRecord
    BY DEF SupFails, Fault, Leave, IInv, TypeOK, SupRecord
  <2> QED
    BY <2>1, CustodyAssumption DEF SupFails, Fault, Leave, memory, control,
        pipes, IInv, TypeOK, Orders, Events, Frames, Children
<1>2. ToldWhenOver'
  <2>1. Over => Over'
    BY DEF SupFails, Fault, Leave, memory, control, pipes, IInv, Over
  <2>2. UNCHANGED <<owner, up>>
    BY DEF SupFails, Fault, Leave, memory, control, pipes
  <2> QED
    BY <2>1, <2>2, StillTold DEF IInv
<1>3. Settled'
  BY DEF SupFails, Fault, Leave, memory, control, pipes, IInv, Settled,
      TypeOK, SupRecord
<1>4. Busy'
  BY DEF SupFails, Fault, Leave, memory, control, pipes, IInv, Busy, TypeOK
<1> QED
  BY <1>1, <1>2, <1>3, <1>4 DEF IInv

LEMMA KillGroupStep ==
  ASSUME IInv, KillGroup PROVE IInv'
<1>1. TypeOK'
  <2>1. sup' \in SupRecord
    BY DEF KillGroup, Unknown, IInv, TypeOK, SupRecord
  <2>2. lead' \in LeadRecord
    BY DEF KillGroup, Unknown, IInv, TypeOK, LeadRecord, Busy
  <2>3. child' \in Children
    BY DEF KillGroup, Unknown, IInv, TypeOK, Children
  <2>4. race' \in SUBSET Windows
    BY DEF KillGroup, Unknown, IInv, TypeOK, Windows
  <2> QED
    BY <2>1, <2>2, <2>3, <2>4 DEF KillGroup, Unknown, memory, control, pipes,
        IInv, TypeOK, Orders, Events, Frames, Children
<1>2. ToldWhenOver'
  <2>1. Over => Over'
    BY DEF KillGroup, Unknown, memory, control, pipes, IInv, Over
  <2>2. UNCHANGED <<owner, up>>
    BY DEF KillGroup, Unknown, memory, control, pipes
  <2> QED
    BY <2>1, <2>2, StillTold DEF IInv
<1>3. Settled'
  BY DEF KillGroup, Unknown, memory, control, pipes, IInv, Settled, TypeOK,
      SupRecord
<1>4. Busy'
  BY DEF KillGroup, Unknown, memory, control, pipes, IInv, Busy, TypeOK,
      LeadRecord
<1> QED
  BY <1>1, <1>2, <1>3, <1>4 DEF IInv

LEMMA ReapStep ==
  ASSUME IInv, Reap PROVE IInv'
<1>1. TypeOK'
  <2>1. up' \in Seq(Events)
    BY Enqueued, Dequeued DEF Reap, IInv, TypeOK, Events
  <2>2. sup' \in SupRecord
    BY DEF Reap, IInv, TypeOK, SupRecord
  <2>3. lead' \in LeadRecord
    BY DEF Reap, IInv, TypeOK, LeadRecord, Busy
  <2>4. child' \in Children
    BY DEF Reap, IInv, TypeOK, Children
  <2> QED
    BY <2>1, <2>2, <2>3, <2>4 DEF Reap, memory, pipes, history, IInv, TypeOK,
        Orders, Events, Frames, Children
<1>2. ToldWhenOver'
  <2>1. ~Over /\ UNCHANGED owner
    BY DEF Reap, Over, memory
  <2>2. CASE sup.doubt
    BY <2>1, <2>2, NewlyTold DEF Reap, IInv, Events
  <2>3. CASE ~sup.doubt
    <3>1. up' = Append(up, "confirmed")
      BY <2>3 DEF Reap
    <3>2. lead'.pc = "waited" /\ child' \in {"none", "reaped"}
      BY DEF Reap, IInv, TypeOK, LeadRecord
    <3>3. sup'.pc \in {"ack", "exit1"}
      BY <2>3 DEF Reap, IInv, TypeOK, SupRecord
    <3> QED
      BY <2>1, <3>1, <3>2, <3>3, NewlyTold DEF IInv, Events, Over
  <2> QED
    BY <2>2, <2>3
<1>3. Settled'
  BY DEF Reap, memory, pipes, history, IInv, Settled, TypeOK, SupRecord
<1>4. Busy'
  BY DEF Reap, memory, pipes, history, IInv, Busy, TypeOK, LeadRecord
<1> QED
  BY <1>1, <1>2, <1>3, <1>4 DEF IInv

LEMMA ReapLateStep ==
  ASSUME IInv, ReapLate PROVE IInv'
<1>1. TypeOK'
  <2>1. up' \in Seq(Events)
    BY Enqueued, Dequeued DEF ReapLate, Fault, IInv, TypeOK, Events
  <2>2. sup' \in SupRecord
    BY DEF ReapLate, Fault, IInv, TypeOK, SupRecord
  <2> QED
    BY <2>1, <2>2, CustodyAssumption DEF ReapLate, Fault, memory, pipes, IInv,
        TypeOK, Orders, Events, Frames, Children
<1>2. ToldWhenOver'
  <2>1. ~Over /\ UNCHANGED owner
    BY DEF ReapLate, Over, memory
  <2> QED
    BY <2>1, NewlyTold DEF ReapLate, IInv, Events
<1>3. Settled'
  BY DEF ReapLate, Fault, memory, pipes, IInv, Settled, TypeOK, SupRecord
<1>4. Busy'
  BY DEF ReapLate, Fault, memory, pipes, IInv, Busy, TypeOK
<1> QED
  BY <1>1, <1>2, <1>3, <1>4 DEF IInv

LEMMA AnsweredStep ==
  ASSUME IInv, Answered PROVE IInv'
<1>1. TypeOK'
  <2>1. down' \in Seq(Orders)
    BY Enqueued, Dequeued DEF Answered, IInv, TypeOK, Orders
  <2>2. sup' \in SupRecord
    BY DEF Answered, IInv, TypeOK, SupRecord
  <2>3. race' \in SUBSET Windows
    BY DEF Answered, IInv, TypeOK, Windows
  <2> QED
    BY <2>1, <2>2, <2>3 DEF Answered, memory, pipes, IInv, TypeOK, Orders,
        Events, Frames, Children
<1>2. ToldWhenOver'
  <2>1. Over => Over'
    BY DEF Answered, memory, pipes, IInv, Over
  <2>2. UNCHANGED <<owner, up>>
    BY DEF Answered, memory, pipes
  <2> QED
    BY <2>1, <2>2, StillTold DEF IInv
<1>3. Settled'
  BY DEF Answered, memory, pipes, IInv, Settled, TypeOK, SupRecord
<1>4. Busy'
  BY DEF Answered, memory, pipes, IInv, Busy, TypeOK
<1> QED
  BY <1>1, <1>2, <1>3, <1>4 DEF IInv

LEMMA NobodyToAnswerStep ==
  ASSUME IInv, NobodyToAnswer PROVE IInv'
<1>1. TypeOK'
  <2>1. sup' \in SupRecord
    BY DEF NobodyToAnswer, IInv, TypeOK, SupRecord
  <2> QED
    BY <2>1 DEF NobodyToAnswer, memory, control, pipes, history, IInv, TypeOK,
        Orders, Events, Frames, Children
<1>2. ToldWhenOver'
  <2>1. Over => Over'
    BY DEF NobodyToAnswer, memory, control, pipes, history, IInv, Over
  <2>2. UNCHANGED <<owner, up>>
    BY DEF NobodyToAnswer, memory, control, pipes, history
  <2> QED
    BY <2>1, <2>2, StillTold DEF IInv
<1>3. Settled'
  BY DEF NobodyToAnswer, memory, control, pipes, history, IInv, Settled,
      TypeOK, SupRecord
<1>4. Busy'
  BY DEF NobodyToAnswer, memory, control, pipes, history, IInv, Busy, TypeOK
<1> QED
  BY <1>1, <1>2, <1>3, <1>4 DEF IInv

LEMMA AckTimesOutStep ==
  ASSUME IInv, AckTimesOut PROVE IInv'
<1>1. TypeOK'
  <2>1. sup' \in SupRecord
    BY DEF AckTimesOut, IInv, TypeOK, SupRecord
  <2>2. race' \in SUBSET Windows
    BY DEF AckTimesOut, IInv, TypeOK, Windows
  <2> QED
    BY <2>1, <2>2 DEF AckTimesOut, memory, control, pipes, IInv, TypeOK,
        Orders, Events, Frames, Children
<1>2. ToldWhenOver'
  <2>1. Over => Over'
    BY DEF AckTimesOut, memory, control, pipes, IInv, Over
  <2>2. UNCHANGED <<owner, up>>
    BY DEF AckTimesOut, memory, control, pipes
  <2> QED
    BY <2>1, <2>2, StillTold DEF IInv
<1>3. Settled'
  BY DEF AckTimesOut, memory, control, pipes, IInv, Settled, TypeOK, SupRecord
<1>4. Busy'
  BY DEF AckTimesOut, memory, control, pipes, IInv, Busy, TypeOK
<1> QED
  BY <1>1, <1>2, <1>3, <1>4 DEF IInv

LEMMA AckLateStep ==
  ASSUME IInv, AckLate PROVE IInv'
<1>1. TypeOK'
  <2>1. sup' \in SupRecord
    BY DEF AckLate, Fault, IInv, TypeOK, SupRecord
  <2> QED
    BY <2>1, CustodyAssumption DEF AckLate, Fault, memory, control, pipes,
        IInv, TypeOK, Orders, Events, Frames, Children
<1>2. ToldWhenOver'
  <2>1. Over => Over'
    BY DEF AckLate, Fault, memory, control, pipes, IInv, Over
  <2>2. UNCHANGED <<owner, up>>
    BY DEF AckLate, Fault, memory, control, pipes
  <2> QED
    BY <2>1, <2>2, StillTold DEF IInv
<1>3. Settled'
  BY DEF AckLate, Fault, memory, control, pipes, IInv, Settled, TypeOK,
      SupRecord
<1>4. Busy'
  BY DEF AckLate, Fault, memory, control, pipes, IInv, Busy, TypeOK
<1> QED
  BY <1>1, <1>2, <1>3, <1>4 DEF IInv

LEMMA SupCrashStep ==
  ASSUME IInv, SupCrash PROVE IInv'
<1>1. TypeOK'
  <2>1. sup' \in SupRecord
    BY DEF SupCrash, Fault, SupGone, IInv, TypeOK, SupRecord
  <2> QED
    BY <2>1, CustodyAssumption DEF SupCrash, Fault, SupGone, memory, control,
        pipes, IInv, TypeOK, Orders, Events, Frames, Children
<1>2. ToldWhenOver'
  <2>1. Over => Over'
    BY DEF SupCrash, Fault, SupGone, memory, control, pipes, IInv, Over
  <2>2. UNCHANGED <<owner, up>>
    BY DEF SupCrash, Fault, SupGone, memory, control, pipes
  <2> QED
    BY <2>1, <2>2, StillTold DEF IInv
<1>3. Settled'
  BY DEF SupCrash, Fault, SupGone, memory, control, pipes, IInv, Settled,
      TypeOK, SupRecord
<1>4. Busy'
  BY DEF SupCrash, Fault, SupGone, memory, control, pipes, IInv, Busy, TypeOK
<1> QED
  BY <1>1, <1>2, <1>3, <1>4 DEF IInv

LEMMA BootStep ==
  ASSUME IInv, Boot PROVE IInv'
<1>1. TypeOK'
  <2>1. out' \in Seq(Frames)
    BY Enqueued, Dequeued DEF Boot, In, Moves, Delivers, IInv, TypeOK, Frames
  <2>2. lead' \in LeadRecord
    BY DEF Boot, In, Moves, Delivers, IInv, TypeOK, LeadRecord, Busy
  <2> QED
    BY <2>1, <2>2 DEF Boot, In, Moves, Delivers, memory, control, history,
        IInv, TypeOK, Orders, Events, Frames, Children
<1>2. ToldWhenOver'
  <2>1. Over => Over'
    BY DEF Boot, In, Moves, Delivers, memory, control, history, IInv, Over
  <2>2. UNCHANGED <<owner, up>>
    BY DEF Boot, In, Moves, Delivers, memory, control, history
  <2> QED
    BY <2>1, <2>2, StillTold DEF IInv
<1>3. Settled'
  BY DEF Boot, In, Moves, Delivers, memory, control, history, IInv, Settled,
      TypeOK
<1>4. Busy'
  BY DEF Boot, In, Moves, Delivers, memory, control, history, IInv, Busy,
      TypeOK, LeadRecord
<1> QED
  BY <1>1, <1>2, <1>3, <1>4 DEF IInv

LEMMA TakeRequestStep ==
  ASSUME IInv, TakeRequest PROVE IInv'
<1>1. TypeOK'
  <2>1. lead' \in LeadRecord
    BY DEF TakeRequest, In, Moves, IInv, TypeOK, LeadRecord, Busy
  <2> QED
    BY <2>1 DEF TakeRequest, In, Moves, memory, control, pipes, history, IInv,
        TypeOK, Orders, Events, Frames, Children
<1>2. ToldWhenOver'
  <2>1. Over => Over'
    BY DEF TakeRequest, In, Moves, memory, control, pipes, history, IInv, Over
  <2>2. UNCHANGED <<owner, up>>
    BY DEF TakeRequest, In, Moves, memory, control, pipes, history
  <2> QED
    BY <2>1, <2>2, StillTold DEF IInv
<1>3. Settled'
  BY DEF TakeRequest, In, Moves, memory, control, pipes, history, IInv,
      Settled, TypeOK
<1>4. Busy'
  BY DEF TakeRequest, In, Moves, memory, control, pipes, history, IInv, Busy,
      TypeOK, LeadRecord
<1> QED
  BY <1>1, <1>2, <1>3, <1>4 DEF IInv

LEMMA SkipTakeStep ==
  ASSUME IInv, SkipTake PROVE IInv'
<1>1. TypeOK'
  <2>1. out' \in Seq(Frames)
    BY Enqueued, Dequeued DEF SkipTake, In, Delivers, NextTake, IInv, TypeOK,
        Frames
  <2>2. lead' \in LeadRecord
    <3>1. lead.left \in 1..Takes
      BY CustodyAssumption DEF SkipTake, IInv, TypeOK, LeadRecord, Busy
    <3>2. lead' = [lead EXCEPT !.pc = "take", !.left = lead.left - 1]
      BY DEF SkipTake, NextTake, IInv, TypeOK, LeadRecord
    <3>3. lead.left - 1 \in 0..Takes
      BY <3>1, CustodyAssumption
    <3> QED
      BY <3>2, <3>3 DEF IInv, TypeOK, LeadRecord
  <2> QED
    BY <2>1, <2>2 DEF SkipTake, In, Delivers, NextTake, memory, control,
        history, IInv, TypeOK, Orders, Events, Frames, Children
<1>2. ToldWhenOver'
  <2>1. Over => Over'
    BY DEF SkipTake, In, Delivers, NextTake, memory, control, history, IInv,
        Over
  <2>2. UNCHANGED <<owner, up>>
    BY DEF SkipTake, In, Delivers, NextTake, memory, control, history
  <2> QED
    BY <2>1, <2>2, StillTold DEF IInv
<1>3. Settled'
  BY DEF SkipTake, In, Delivers, NextTake, memory, control, history, IInv,
      Settled, TypeOK
<1>4. Busy'
  BY DEF SkipTake, In, Delivers, NextTake, memory, control, history, IInv,
      Busy, TypeOK, LeadRecord
<1> QED
  BY <1>1, <1>2, <1>3, <1>4 DEF IInv

LEMMA ForkStep ==
  ASSUME IInv, Fork PROVE IInv'
<1>1. TypeOK'
  <2>1. reg' \in RegRecord
    BY DEF Fork, In, Moves, Asks, IInv, TypeOK, RegRecord
  <2>2. lead' \in LeadRecord
    BY DEF Fork, In, Moves, Asks, IInv, TypeOK, LeadRecord, Busy
  <2>3. child' \in Children
    BY DEF Fork, In, Moves, Asks, IInv, TypeOK, Children
  <2> QED
    BY <2>1, <2>2, <2>3 DEF Fork, In, Moves, Asks, memory, control, pipes,
        history, IInv, TypeOK, Orders, Events, Frames, Children
<1>2. ToldWhenOver'
  <2>1. Over => Over'
    BY DEF Fork, In, Moves, Asks, memory, control, pipes, history, IInv, Over
  <2>2. UNCHANGED <<owner, up>>
    BY DEF Fork, In, Moves, Asks, memory, control, pipes, history
  <2> QED
    BY <2>1, <2>2, StillTold DEF IInv
<1>3. Settled'
  BY DEF Fork, In, Moves, Asks, memory, control, pipes, history, IInv,
      Settled, TypeOK
<1>4. Busy'
  BY DEF Fork, In, Moves, Asks, memory, control, pipes, history, IInv, Busy,
      TypeOK, LeadRecord
<1> QED
  BY <1>1, <1>2, <1>3, <1>4 DEF IInv

LEMMA ReleaseStep ==
  ASSUME IInv, Release PROVE IInv'
<1>1. TypeOK'
  <2>1. reg' \in RegRecord
    BY DEF Release, In, Moves, TakesAnswer, IInv, TypeOK, RegRecord
  <2>2. lead' \in LeadRecord
    BY DEF Release, In, Moves, TakesAnswer, IInv, TypeOK, LeadRecord, Busy
  <2>3. child' \in Children
    BY DEF Release, In, Moves, TakesAnswer, IInv, TypeOK, Children
  <2> QED
    BY <2>1, <2>2, <2>3 DEF Release, In, Moves, TakesAnswer, memory, control,
        pipes, history, IInv, TypeOK, Orders, Events, Frames, Children
<1>2. ToldWhenOver'
  <2>1. Over => Over'
    BY DEF Release, In, Moves, TakesAnswer, memory, control, pipes, history,
        IInv, Over
  <2>2. UNCHANGED <<owner, up>>
    BY DEF Release, In, Moves, TakesAnswer, memory, control, pipes, history
  <2> QED
    BY <2>1, <2>2, StillTold DEF IInv
<1>3. Settled'
  BY DEF Release, In, Moves, TakesAnswer, memory, control, pipes, history,
      IInv, Settled, TypeOK
<1>4. Busy'
  BY DEF Release, In, Moves, TakesAnswer, memory, control, pipes, history,
      IInv, Busy, TypeOK, LeadRecord
<1> QED
  BY <1>1, <1>2, <1>3, <1>4 DEF IInv

LEMMA FfmpegEndsStep ==
  ASSUME IInv, FfmpegEnds PROVE IInv'
<1>1. TypeOK'
  <2>1. child' \in Children
    BY DEF FfmpegEnds, IInv, TypeOK, Children
  <2> QED
    BY <2>1 DEF FfmpegEnds, memory, control, pipes, history, IInv, TypeOK,
        Orders, Events, Frames, Children
<1>2. ToldWhenOver'
  <2>1. Over => Over'
    BY DEF FfmpegEnds, memory, control, pipes, history, IInv, Over
  <2>2. UNCHANGED <<owner, up>>
    BY DEF FfmpegEnds, memory, control, pipes, history
  <2> QED
    BY <2>1, <2>2, StillTold DEF IInv
<1>3. Settled'
  BY DEF FfmpegEnds, memory, control, pipes, history, IInv, Settled, TypeOK
<1>4. Busy'
  BY DEF FfmpegEnds, memory, control, pipes, history, IInv, Busy, TypeOK
<1> QED
  BY <1>1, <1>2, <1>3, <1>4 DEF IInv

LEMMA HangStep ==
  ASSUME IInv, Hang PROVE IInv'
<1>1. TypeOK'
  <2>1. out' \in Seq(Frames)
    BY Enqueued, Dequeued DEF Hang, In, Delivers, NextTake, IInv, TypeOK,
        Frames
  <2>2. lead' \in LeadRecord
    <3>1. lead.left \in 1..Takes
      BY CustodyAssumption DEF Hang, In, IInv, TypeOK, LeadRecord, Busy
    <3>2. lead' = [lead EXCEPT !.pc = "take", !.left = lead.left - 1]
      BY DEF Hang, NextTake, IInv, TypeOK, LeadRecord
    <3>3. lead.left - 1 \in 0..Takes
      BY <3>1, CustodyAssumption
    <3> QED
      BY <3>2, <3>3 DEF IInv, TypeOK, LeadRecord
  <2>3. race' \in SUBSET Windows
    BY DEF Hang, In, Delivers, NextTake, IInv, TypeOK, Windows
  <2> QED
    BY <2>1, <2>2, <2>3 DEF Hang, In, Delivers, NextTake, memory, control,
        IInv, TypeOK, Orders, Events, Frames, Children
<1>2. ToldWhenOver'
  <2>1. Over => Over'
    BY DEF Hang, In, Delivers, NextTake, memory, control, IInv, Over
  <2>2. UNCHANGED <<owner, up>>
    BY DEF Hang, In, Delivers, NextTake, memory, control
  <2> QED
    BY <2>1, <2>2, StillTold DEF IInv
<1>3. Settled'
  BY DEF Hang, In, Delivers, NextTake, memory, control, IInv, Settled, TypeOK
<1>4. Busy'
  BY DEF Hang, In, Delivers, NextTake, memory, control, IInv, Busy, TypeOK,
      LeadRecord
<1> QED
  BY <1>1, <1>2, <1>3, <1>4 DEF IInv

LEMMA ReportExitStep ==
  ASSUME IInv, ReportExit PROVE IInv'
<1>1. TypeOK'
  <2>1. reg' \in RegRecord
    BY DEF ReportExit, In, Moves, Asks, IInv, TypeOK, RegRecord
  <2>2. lead' \in LeadRecord
    BY DEF ReportExit, In, Moves, Asks, IInv, TypeOK, LeadRecord, Busy
  <2> QED
    BY <2>1, <2>2 DEF ReportExit, In, Moves, Asks, memory, control, pipes,
        history, IInv, TypeOK, Orders, Events, Frames, Children
<1>2. ToldWhenOver'
  <2>1. Over => Over'
    BY DEF ReportExit, In, Moves, Asks, memory, control, pipes, history, IInv,
        Over
  <2>2. UNCHANGED <<owner, up>>
    BY DEF ReportExit, In, Moves, Asks, memory, control, pipes, history
  <2> QED
    BY <2>1, <2>2, StillTold DEF IInv
<1>3. Settled'
  BY DEF ReportExit, In, Moves, Asks, memory, control, pipes, history, IInv,
      Settled, TypeOK
<1>4. Busy'
  BY DEF ReportExit, In, Moves, Asks, memory, control, pipes, history, IInv,
      Busy, TypeOK, LeadRecord
<1> QED
  BY <1>1, <1>2, <1>3, <1>4 DEF IInv

LEMMA WaitChildStep ==
  ASSUME IInv, WaitChild PROVE IInv'
<1>1. TypeOK'
  <2>1. reg' \in RegRecord
    BY DEF WaitChild, In, Moves, Asks, IInv, TypeOK, RegRecord
  <2>2. lead' \in LeadRecord
    BY DEF WaitChild, In, Moves, Asks, IInv, TypeOK, LeadRecord, Busy
  <2>3. child' \in Children
    BY DEF WaitChild, In, Moves, Asks, IInv, TypeOK, Children
  <2> QED
    BY <2>1, <2>2, <2>3 DEF WaitChild, In, Moves, Asks, memory, control,
        pipes, history, IInv, TypeOK, Orders, Events, Frames, Children
<1>2. ToldWhenOver'
  <2>1. Over => Over'
    BY DEF WaitChild, In, Moves, Asks, memory, control, pipes, history, IInv,
        Over
  <2>2. UNCHANGED <<owner, up>>
    BY DEF WaitChild, In, Moves, Asks, memory, control, pipes, history
  <2> QED
    BY <2>1, <2>2, StillTold DEF IInv
<1>3. Settled'
  BY DEF WaitChild, In, Moves, Asks, memory, control, pipes, history, IInv,
      Settled, TypeOK
<1>4. Busy'
  BY DEF WaitChild, In, Moves, Asks, memory, control, pipes, history, IInv,
      Busy, TypeOK, LeadRecord
<1> QED
  BY <1>1, <1>2, <1>3, <1>4 DEF IInv

LEMMA FinishTakeStep ==
  ASSUME IInv, FinishTake PROVE IInv'
<1>1. TypeOK'
  <2>1. out' \in Seq(Frames)
    BY Enqueued, Dequeued DEF FinishTake, In, TakesAnswer, Delivers, NextTake,
        IInv, TypeOK, Frames
  <2>2. reg' \in RegRecord
    BY DEF FinishTake, In, TakesAnswer, Delivers, NextTake, IInv, TypeOK,
        RegRecord
  <2>3. lead' \in LeadRecord
    <3>1. lead.left \in 1..Takes
      BY CustodyAssumption DEF FinishTake, In, IInv, TypeOK, LeadRecord, Busy
    <3>2. lead' = [lead EXCEPT !.pc = "take", !.left = lead.left - 1]
      BY DEF FinishTake, NextTake, IInv, TypeOK, LeadRecord
    <3>3. lead.left - 1 \in 0..Takes
      BY <3>1, CustodyAssumption
    <3> QED
      BY <3>2, <3>3 DEF IInv, TypeOK, LeadRecord
  <2> QED
    BY <2>1, <2>2, <2>3 DEF FinishTake, In, TakesAnswer, Delivers, NextTake,
        memory, control, history, IInv, TypeOK, Orders, Events, Frames,
        Children
<1>2. ToldWhenOver'
  <2>1. Over => Over'
    BY DEF FinishTake, In, TakesAnswer, Delivers, NextTake, memory, control,
        history, IInv, Over
  <2>2. UNCHANGED <<owner, up>>
    BY DEF FinishTake, In, TakesAnswer, Delivers, NextTake, memory, control,
        history
  <2> QED
    BY <2>1, <2>2, StillTold DEF IInv
<1>3. Settled'
  BY DEF FinishTake, In, TakesAnswer, Delivers, NextTake, memory, control,
      history, IInv, Settled, TypeOK
<1>4. Busy'
  BY DEF FinishTake, In, TakesAnswer, Delivers, NextTake, memory, control,
      history, IInv, Busy, TypeOK, LeadRecord
<1> QED
  BY <1>1, <1>2, <1>3, <1>4 DEF IInv

LEMMA AskSealStep ==
  ASSUME IInv, AskSeal PROVE IInv'
<1>1. TypeOK'
  <2>1. reg' \in RegRecord
    BY DEF AskSeal, In, Moves, Asks, IInv, TypeOK, RegRecord
  <2>2. lead' \in LeadRecord
    BY DEF AskSeal, In, Moves, Asks, IInv, TypeOK, LeadRecord, Busy
  <2> QED
    BY <2>1, <2>2 DEF AskSeal, In, Moves, Asks, memory, control, pipes,
        history, IInv, TypeOK, Orders, Events, Frames, Children
<1>2. ToldWhenOver'
  <2>1. Over => Over'
    BY DEF AskSeal, In, Moves, Asks, memory, control, pipes, history, IInv,
        Over
  <2>2. UNCHANGED <<owner, up>>
    BY DEF AskSeal, In, Moves, Asks, memory, control, pipes, history
  <2> QED
    BY <2>1, <2>2, StillTold DEF IInv
<1>3. Settled'
  BY DEF AskSeal, In, Moves, Asks, memory, control, pipes, history, IInv,
      Settled, TypeOK
<1>4. Busy'
  BY DEF AskSeal, In, Moves, Asks, memory, control, pipes, history, IInv,
      Busy, TypeOK, LeadRecord
<1> QED
  BY <1>1, <1>2, <1>3, <1>4 DEF IInv

LEMMA CloseStep ==
  ASSUME IInv, Close PROVE IInv'
<1>1. TypeOK'
  <2>1. out' \in Seq(Frames)
    BY Enqueued, Dequeued DEF Close, In, Moves, TakesAnswer, Delivers, IInv,
        TypeOK, Frames
  <2>2. reg' \in RegRecord
    BY DEF Close, In, Moves, TakesAnswer, Delivers, IInv, TypeOK, RegRecord
  <2>3. lead' \in LeadRecord
    BY DEF Close, In, Moves, TakesAnswer, Delivers, IInv, TypeOK, LeadRecord,
        Busy
  <2> QED
    BY <2>1, <2>2, <2>3 DEF Close, In, Moves, TakesAnswer, Delivers, memory,
        control, history, IInv, TypeOK, Orders, Events, Frames, Children
<1>2. ToldWhenOver'
  <2>1. Over => Over'
    BY DEF Close, In, Moves, TakesAnswer, Delivers, memory, control, history,
        IInv, Over
  <2>2. UNCHANGED <<owner, up>>
    BY DEF Close, In, Moves, TakesAnswer, Delivers, memory, control, history
  <2> QED
    BY <2>1, <2>2, StillTold DEF IInv
<1>3. Settled'
  BY DEF Close, In, Moves, TakesAnswer, Delivers, memory, control, history,
      IInv, Settled, TypeOK
<1>4. Busy'
  BY DEF Close, In, Moves, TakesAnswer, Delivers, memory, control, history,
      IInv, Busy, TypeOK, LeadRecord
<1> QED
  BY <1>1, <1>2, <1>3, <1>4 DEF IInv

LEMMA ExitStep ==
  ASSUME IInv, Exit PROVE IInv'
<1>1. TypeOK'
  <2>1. lead' \in LeadRecord
    BY DEF Exit, SupGone, In, Moves, IInv, TypeOK, LeadRecord, Busy
  <2> QED
    BY <2>1 DEF Exit, SupGone, In, Moves, memory, control, pipes, history,
        IInv, TypeOK, Orders, Events, Frames, Children
<1>2. ToldWhenOver'
  <2>1. Over => Over'
    BY DEF Exit, SupGone, In, Moves, memory, control, pipes, history, IInv,
        Over
  <2>2. UNCHANGED <<owner, up>>
    BY DEF Exit, SupGone, In, Moves, memory, control, pipes, history
  <2> QED
    BY <2>1, <2>2, StillTold DEF IInv
<1>3. Settled'
  BY DEF Exit, SupGone, In, Moves, memory, control, pipes, history, IInv,
      Settled, TypeOK
<1>4. Busy'
  BY DEF Exit, SupGone, In, Moves, memory, control, pipes, history, IInv,
      Busy, TypeOK, LeadRecord
<1> QED
  BY <1>1, <1>2, <1>3, <1>4 DEF IInv

LEMMA LeadFailsStep ==
  ASSUME IInv, LeadFails PROVE IInv'
<1>1. TypeOK'
  <2>1. lead' \in LeadRecord
    BY DEF LeadFails, Fault, LeadAlive, Moves, IInv, TypeOK, LeadRecord, Busy
  <2> QED
    BY <2>1, CustodyAssumption DEF LeadFails, Fault, LeadAlive, Moves, memory,
        control, pipes, IInv, TypeOK, Orders, Events, Frames, Children
<1>2. ToldWhenOver'
  <2>1. Over => Over'
    BY DEF LeadFails, Fault, LeadAlive, Moves, memory, control, pipes, IInv,
        Over
  <2>2. UNCHANGED <<owner, up>>
    BY DEF LeadFails, Fault, LeadAlive, Moves, memory, control, pipes
  <2> QED
    BY <2>1, <2>2, StillTold DEF IInv
<1>3. Settled'
  BY DEF LeadFails, Fault, LeadAlive, Moves, memory, control, pipes, IInv,
      Settled, TypeOK
<1>4. Busy'
  BY DEF LeadFails, Fault, LeadAlive, Moves, memory, control, pipes, IInv,
      Busy, TypeOK, LeadRecord
<1> QED
  BY <1>1, <1>2, <1>3, <1>4 DEF IInv

LEMMA GateClosesStep ==
  ASSUME IInv, GateCloses PROVE IInv'
<1>1. TypeOK'
  <2>1. child' \in Children
    BY DEF GateCloses, LeadAlive, IInv, TypeOK, Children
  <2> QED
    BY <2>1 DEF GateCloses, LeadAlive, memory, control, pipes, history, IInv,
        TypeOK, Orders, Events, Frames, Children
<1>2. ToldWhenOver'
  <2>1. Over => Over'
    BY DEF GateCloses, LeadAlive, memory, control, pipes, history, IInv, Over
  <2>2. UNCHANGED <<owner, up>>
    BY DEF GateCloses, LeadAlive, memory, control, pipes, history
  <2> QED
    BY <2>1, <2>2, StillTold DEF IInv
<1>3. Settled'
  BY DEF GateCloses, LeadAlive, memory, control, pipes, history, IInv,
      Settled, TypeOK
<1>4. Busy'
  BY DEF GateCloses, LeadAlive, memory, control, pipes, history, IInv, Busy,
      TypeOK
<1> QED
  BY <1>1, <1>2, <1>3, <1>4 DEF IInv

-----------------------------------------------------------------------------
LEMMA InitHolds == Init => IInv
<1> SUFFICES ASSUME Init PROVE IInv
  OBVIOUS
<1>1. TypeOK
  <2>1. owner \in OwnerRecord /\ sup \in SupRecord /\ reg \in RegRecord
    BY DEF Init, OwnerRecord, SupRecord, RegRecord
  <2>2. lead \in LeadRecord
    BY CustodyAssumption DEF Init, LeadRecord
  <2>3. queue \in 0..Capacity /\ faults \in 0..MaxFaults
    BY CustodyAssumption DEF Init
  <2>4. served \in BOOLEAN /\ live \in BOOLEAN /\ request \in BOOLEAN
        /\ parent \in BOOLEAN
    BY DEF Init
  <2>5. /\ down \in Seq(Orders) /\ up \in Seq(Events)
        /\ out \in Seq(Frames)
    BY DEF Init
  <2> QED
    BY <2>1, <2>2, <2>3, <2>4, <2>5 DEF Init, TypeOK, Orders, Events, Frames
<1>2. ToldWhenOver
  BY DEF Init, ToldWhenOver
<1>3. Settled /\ Busy
  BY DEF Init, Settled, Busy
<1> QED
  BY <1>1, <1>2, <1>3 DEF IInv

LEMMA StutterHolds == IInv /\ UNCHANGED vars => IInv'
  BY DEF IInv, TypeOK, ToldWhenOver, Over, Settled, Busy, vars, memory, control,
     pipes, processes, history

LEMMA NextHolds == IInv /\ Next => IInv'
<1> SUFFICES ASSUME IInv, Next PROVE IInv'
  OBVIOUS
<1>1. CASE Owner
  BY <1>1, StartStep, ReadFrameStep, SendRequestStep, OfferStep,
     OfferRevokedStep, ReadEventStep, SealTimesOutStep, EndsStep, TerminateStep,
     AwaitTimesOutStep, WaitSupervisorStep, DrainStep DEF Owner
<1>2. CASE Supervisor
  BY <1>2, SeesEndStep, TakeCommandStep, TakeEntryStep, KillGroupStep, ReapStep,
     AnsweredStep, NobodyToAnswerStep DEF Supervisor
<1>3. CASE Leader
  BY <1>3, BootStep, TakeRequestStep, SkipTakeStep, ForkStep, ReleaseStep,
     HangStep, ReportExitStep, WaitChildStep, FinishTakeStep, AskSealStep,
     CloseStep, ExitStep DEF Leader
<1>4. CASE StartFails \/ Cancel \/ Consume \/ AnswerLate \/ ParentDies
  BY <1>4, StartFailsStep, CancelStep, ConsumeStep, AnswerLateStep,
     ParentDiesStep
<1>5. CASE SupFails \/ ReapLate \/ AckTimesOut \/ AckLate \/ SupCrash
  BY <1>5, SupFailsStep, ReapLateStep, AckTimesOutStep, AckLateStep,
     SupCrashStep
<1>6. CASE FfmpegEnds \/ GateCloses \/ LeadFails
  BY <1>6, FfmpegEndsStep, GateClosesStep, LeadFailsStep
<1> QED
  BY <1>1, <1>2, <1>3, <1>4, <1>5, <1>6 DEF Next

\* Every reachable state satisfies the inductive invariant: what the owner was
\* told, what is on its way to it and what has become of the processes agree.
THEOREM Inductive == Spec => []IInv
<1>1. Init => IInv
  BY InitHolds
<1>2. IInv /\ [Next]_vars => IInv'
  BY NextHolds, StutterHolds
<1> QED
  BY <1>1, <1>2, PTL DEF Spec

\* Every reachable state is well typed: the messages on each socket and pipe,
\* the stages of the four processes, and a plan that never runs below zero.
THEOREM TypeCorrect == Spec => []TypeOK
<1>1. IInv => TypeOK
  BY DEF IInv
<1> QED
  BY <1>1, Inductive, PTL

\* A closed custody (the receipt's release_gate) means that the leader and the
\* last FFmpeg were waited for and the supervisor left with exit code 0.
THEOREM ReleasedIsWaitedFor == Spec => []ReleaseIsSafe
<1>1. IInv => ReleaseIsSafe
  BY DEF IInv, Settled, ToldWhenOver, Over, ReleaseIsSafe
<1> QED
  BY <1>1, Inductive, PTL

-----------------------------------------------------------------------------
(* Custody of a healthy group.  As long as no fault happens and no window  *)
(* is hit (Calm), the four processes keep step (Smooth): nobody is in      *)
(* doubt (Sound), the owner has the last word of the supervisor where its  *)
(* stage says so (Stages, LastWord), orders come where they are expected   *)
(* (Ordered), the leader ends only when the owner knows why (Finished),    *)
(* and what it asks of the supervisor is what comes next (Entries,         *)
(* SealKept).                                                              *)

Has(q, x) == \E i \in 1..Len(q) : q[i] = x
Sole(q) == \A i \in 1..Len(q) : q[i] = "resume" => i = 1
Last(q) == \A i \in 1..Len(q) : q[i] = "confirmed" => i = Len(q)

Calm == faults = 0 /\ race = {}

Sound ==
  /\ parent /\ live /\ ~sup.doubt /\ ~owner.bad
  /\ sup.pc \notin {"exit1", "crashed"}
  /\ owner.final # "doubtful" /\ ~Has(up, "doubtful")
  /\ owner.verdict # "unknown"

Stages ==
  /\ owner.pc \in {"new", "read", "request", "offer", "await"} =>
       owner.final = "none"
  /\ owner.pc \in {"reap", "drain"} => owner.final = "confirmed"
  /\ owner.pc = "drain" => sup.pc = "exit0"
  /\ owner.pc \in {"await", "reap", "drain", "done"} => owner.stop
  /\ sup.pc = "exit0" => owner.final = "confirmed"

Ordered ==
  /\ owner.pc = "new" => down = <<>> /\ ~sup.released
  /\ Sole(down)
  /\ Has(down, "resume") => ~sup.released
  /\ Has(down, "seal") => sup.sealed
  /\ Has(down, "stop") => owner.stop
  /\ Has(down, "ack") => owner.final = "confirmed"

LastWord ==
  /\ Last(up)
  /\ Has(up, "confirmed") => sup.pc = "ack"
  /\ owner.final = "confirmed" => Len(up) = 0

Delivered == \/ Has(out, "closed") \/ owner.pc = "sealing"
             \/ owner.closed \/ owner.stop
Finished ==
  lead.pc \in {"leaving", "zombie", "waited"} \/ sup.pc # "loop" => Delivered

SealKept ==
  /\ lead.pc = "sealing" /\ reg.reply => sup.sealed
  /\ Has(out, "closed") => sup.sealed

Books(ask, reply, active) ==
  reg.ask = ask /\ reg.reply = reply /\ sup.active = active
Entries == sup.pc = "loop" =>
  /\ lead.pc # "waited"
  /\ sup.sealed => lead.pc \in {"sealing", "leaving", "zombie"}
  /\ lead.pc \in {"gate", "wait", "take", "leaving", "zombie"} =>
       Books("none", FALSE, "none") /\ child \in {"none", "reaped"}
  /\ lead.pc = "born" =>
       /\ child = "gated"
       /\ \/ Books("register", FALSE, "none")
          \/ Books("none", TRUE, "registered")
  /\ lead.pc = "watch" =>
       child \in {"running", "zombie"} /\ Books("none", FALSE, "registered")
  /\ lead.pc = "gone" =>
       /\ child = "zombie"
       /\ \/ Books("exited", FALSE, "registered")
          \/ Books("none", TRUE, "exited")
  /\ lead.pc = "reaped" =>
       /\ child = "reaped"
       /\ \/ Books("reaped", FALSE, "exited")
          \/ Books("none", TRUE, "none")
  /\ lead.pc = "sealing" =>
       /\ child \in {"none", "reaped"}
       /\ \/ Books("seal", FALSE, "none") /\ ~sup.sealed
          \/ Books("none", TRUE, "none")

Smooth == Sound /\ Stages /\ Ordered /\ LastWord /\ Finished /\ SealKept
          /\ Entries

LEMMA NothingIn ==
  ASSUME NEW y PROVE ~Has(<<>>, y)
  BY DEF Has

LEMMA AddedTo ==
  ASSUME NEW S, NEW q \in Seq(S), NEW x \in S, NEW y
  PROVE  Has(Append(q, x), y) <=> Has(q, y) \/ x = y
<1>1. ASSUME Has(Append(q, x), y) PROVE Has(q, y) \/ x = y
  <2>1. PICK i \in 1..Len(Append(q, x)) : Append(q, x)[i] = y
    BY <1>1 DEF Has
  <2>2. i \in 1..Len(q) \/ i = Len(q) + 1
    BY <2>1, Lengthened
  <2> QED
    BY <2>1, <2>2, Lengthened DEF Has
<1>2. ASSUME Has(q, y) PROVE Has(Append(q, x), y)
  <2>1. PICK i \in 1..Len(q) : q[i] = y
    BY <1>2 DEF Has
  <2>2. i \in 1..Len(Append(q, x)) /\ Append(q, x)[i] = y
    BY <2>1, Lengthened
  <2> QED
    BY <2>2 DEF Has
<1>3. ASSUME x = y PROVE Has(Append(q, x), y)
  <2>1. Len(q) + 1 \in 1..Len(Append(q, x))
    BY Lengthened
  <2> QED
    BY <1>3, <2>1, Lengthened DEF Has
<1> QED
  BY <1>1, <1>2, <1>3

LEMMA TakenFrom ==
  ASSUME NEW S, NEW q \in Seq(S), q # <<>>, NEW y
  PROVE  Has(q, y) <=> Head(q) = y \/ Has(Tail(q), y)
<1>1. ASSUME Has(q, y) PROVE Head(q) = y \/ Has(Tail(q), y)
  <2>1. PICK i \in 1..Len(q) : q[i] = y
    BY <1>1 DEF Has
  <2>2. CASE i = 1
    BY <2>1, <2>2, Dequeued
  <2>3. CASE i # 1
    <3>1. i - 1 \in 1..Len(Tail(q)) /\ Tail(q)[i - 1] = y
      BY <2>1, <2>3, Dequeued
    <3> QED
      BY <3>1 DEF Has
  <2> QED
    BY <2>2, <2>3
<1>2. ASSUME Head(q) = y PROVE Has(q, y)
  BY <1>2, Dequeued DEF Has
<1>3. ASSUME Has(Tail(q), y) PROVE Has(q, y)
  <2>1. PICK i \in 1..Len(Tail(q)) : Tail(q)[i] = y
    BY <1>3 DEF Has
  <2>2. i + 1 \in 1..Len(q) /\ q[i + 1] = y
    BY <2>1, Dequeued
  <2> QED
    BY <2>2 DEF Has
<1> QED
  BY <1>1, <1>2, <1>3

LEMMA SoleKept ==
  ASSUME NEW q \in Seq(Orders), Sole(q)
  PROVE  /\ \A x \in Orders : x # "resume" => Sole(Append(q, x))
         /\ q # <<>> => Sole(Tail(q)) /\ ~Has(Tail(q), "resume")
<1>1. ASSUME NEW x \in Orders, x # "resume" PROVE Sole(Append(q, x))
  <2> SUFFICES ASSUME NEW i \in 1..Len(Append(q, x)),
                      Append(q, x)[i] = "resume"
               PROVE  i = 1
    BY DEF Sole
  <2>1. i \in 1..Len(q) \/ i = Len(q) + 1
    BY Lengthened
  <2>2. i \in 1..Len(q) /\ q[i] = "resume"
    BY <1>1, <2>1, Lengthened
  <2> QED
    BY <2>2 DEF Sole
<1>2. ASSUME q # <<>>, NEW i \in 1..Len(Tail(q)), Tail(q)[i] = "resume"
      PROVE  FALSE
  <2>1. i + 1 \in 1..Len(q) /\ q[i + 1] = "resume"
    BY <1>2, Dequeued
  <2> QED
    BY <2>1 DEF Sole
<1> QED
  BY <1>1, <1>2 DEF Sole, Has

LEMMA LastKept ==
  ASSUME NEW q \in Seq(Events), Last(q)
  PROVE  /\ \A x \in Events : ~Has(q, "confirmed") => Last(Append(q, x))
         /\ q # <<>> => /\ Last(Tail(q))
                        /\ Head(q) = "confirmed" => Len(Tail(q)) = 0
<1>1. ASSUME NEW x \in Events, ~Has(q, "confirmed") PROVE Last(Append(q, x))
  <2> SUFFICES ASSUME NEW i \in 1..Len(Append(q, x)),
                      Append(q, x)[i] = "confirmed"
               PROVE  i = Len(Append(q, x))
    BY DEF Last
  <2>1. i \in 1..Len(q) \/ i = Len(q) + 1
    BY Lengthened
  <2>2. i \notin 1..Len(q)
    BY <1>1, Lengthened DEF Has
  <2> QED
    BY <2>1, <2>2, Lengthened
<1>2. ASSUME q # <<>> PROVE Last(Tail(q))
  <2> SUFFICES ASSUME NEW i \in 1..Len(Tail(q)), Tail(q)[i] = "confirmed"
               PROVE  i = Len(Tail(q))
    BY DEF Last
  <2>1. i + 1 \in 1..Len(q) /\ q[i + 1] = "confirmed"
    BY <1>2, Dequeued
  <2>2. i + 1 = Len(q)
    BY <2>1 DEF Last
  <2> QED
    BY <1>2, <2>2, Dequeued
<1>3. ASSUME q # <<>>, Head(q) = "confirmed" PROVE Len(Tail(q)) = 0
  <2>1. q[1] = "confirmed" /\ 1 \in 1..Len(q)
    BY <1>3, Dequeued
  <2>2. Len(q) = 1
    BY <2>1 DEF Last
  <2> QED
    BY <1>3, <2>2, Dequeued
<1> QED
  BY <1>1, <1>2, <1>3

\* What the leader has written is still there, and the new frames with it.
LEMMA Written ==
  ASSUME NEW q \in Seq(Frames), NEW x \in Frames
  PROVE  q \o <<x>> = Append(q, x)
  OBVIOUS

LEMMA WrittenTwice ==
  ASSUME NEW q \in Seq(Frames), NEW x \in Frames, NEW y \in Frames
  PROVE  q \o <<x, y>> = Append(Append(q, x), y)
  OBVIOUS

\* A fault or a window ends the calm.
LEMMA Ruffled ==
  ASSUME TypeOK,
         \/ StartFails \/ AnswerLate \/ ParentDies \/ SupFails \/ ReapLate
         \/ AckLate \/ SupCrash \/ LeadFails \/ OfferRevoked \/ SealTimesOut
         \/ AckTimesOut \/ Hang
  PROVE  ~Calm'
<1>1. faults \in Nat
  BY CustodyAssumption DEF TypeOK
<1>2. Fault => faults' # 0
  BY <1>1 DEF Fault
<1> QED
  BY <1>2
  DEF StartFails, AnswerLate, ParentDies, SupFails, ReapLate, AckLate,
      SupCrash, LeadFails, OfferRevoked, SealTimesOut, AckTimesOut, Hang, Calm

\* In the calm the supervisor is gone only after the owner has its last word.
LEMMA WordFirst ==
  ASSUME IInv, Smooth
  PROVE  /\ SupGone => owner.final = "confirmed"
         /\ owner.final = "confirmed" => Over
         /\ Has(up, "confirmed") => ~SupGone /\ sup.pc = "ack"
         /\ owner.final \in {"none", "confirmed"}
  BY DEF IInv, TypeOK, OwnerRecord, ToldWhenOver, Smooth, Sound, Stages,
         LastWord, SupGone

LEMMA StartCalm ==
  ASSUME IInv, Smooth, Start, Calm' PROVE Smooth'
<1>1. Sound'
  BY DEF Start, At, GoTo, pipes, processes, history, IInv, TypeOK,
      OwnerRecord, Smooth, Sound
<1>2. Stages'
  BY DEF Start, At, GoTo, pipes, processes, history, IInv, TypeOK,
      OwnerRecord, Smooth, Stages
<1>3. Ordered'
  <2>1. /\ down = <<>> /\ down' = Append(down, "resume")
        /\ owner'.pc = "read" /\ sup' = sup /\ ~sup.released
        /\ down \in Seq(Orders) /\ "resume" \in Orders
    BY DEF Start, At, GoTo, processes, IInv, TypeOK, OwnerRecord, Orders,
        Smooth, Ordered
  <2>2. \A y : Has(down', y) <=> y = "resume"
    <3>1. \A y : Has(Append(down, "resume"), y) <=>
                  Has(down, y) \/ "resume" = y
      BY <2>1, AddedTo
    <3>2. \A y : ~Has(down, y)
      BY <2>1, NothingIn
    <3> QED
      BY <2>1, <3>1, <3>2
  <2>3. Sole(down')
    <3>1. Len(down) = 0 /\ Len(down') = 1
      BY <2>1, Lengthened
    <3> QED
      BY <3>1 DEF Sole
  <2> QED
    BY <2>1, <2>2, <2>3 DEF Ordered
<1>4. LastWord'
  BY DEF Start, At, GoTo, pipes, processes, history, IInv, TypeOK,
      OwnerRecord, Smooth, LastWord
<1>5. Finished'
  BY DEF Start, At, GoTo, pipes, processes, history, IInv, TypeOK,
      OwnerRecord, Smooth, Finished, Delivered
<1>6. SealKept' /\ Entries'
  BY DEF Start, pipes, processes, history, Smooth, SealKept, Entries, Books
<1> QED
  BY <1>1, <1>2, <1>3, <1>4, <1>5, <1>6 DEF Smooth

LEMMA CancelCalm ==
  ASSUME IInv, Smooth, Cancel, Calm' PROVE Smooth'
<1>1. Sound'
  BY DEF Cancel, control, pipes, processes, history, IInv, TypeOK,
      OwnerRecord, Smooth, Sound
<1>2. Stages'
  BY DEF Cancel, control, pipes, processes, history, IInv, TypeOK,
      OwnerRecord, Smooth, Stages
<1>3. Ordered'
  BY DEF Cancel, control, pipes, processes, history, IInv, TypeOK,
      OwnerRecord, Smooth, Ordered
<1>4. LastWord'
  BY DEF Cancel, control, pipes, processes, history, IInv, TypeOK,
      OwnerRecord, Smooth, LastWord
<1>5. Finished'
  BY DEF Cancel, control, pipes, processes, history, IInv, TypeOK,
      OwnerRecord, Smooth, Finished, Delivered
<1>6. SealKept' /\ Entries'
  BY DEF Cancel, control, pipes, processes, history, Smooth, SealKept,
      Entries, Books
<1> QED
  BY <1>1, <1>2, <1>3, <1>4, <1>5, <1>6 DEF Smooth

LEMMA ConsumeCalm ==
  ASSUME IInv, Smooth, Consume, Calm' PROVE Smooth'
<1>1. Sound' /\ Stages' /\ Ordered' /\ LastWord' /\ Finished' /\ SealKept' /\ Entries'
  BY DEF Consume, control, pipes, processes, history, Smooth, Sound, Stages,
      Ordered, LastWord, Finished, SealKept, Entries, Delivered, Books
<1> QED
  BY <1>1 DEF Smooth

LEMMA ReadFrameCalm ==
  ASSUME IInv, Smooth, ReadFrame, Calm' PROVE Smooth'
<1>1. /\ out \in Seq(Frames) /\ out # <<>> /\ out' = Tail(out)
      /\ UNCHANGED <<live, up, sup, reg, lead, child, parent>>
      /\ owner.pc = "read" /\ ~owner.stop
      /\ owner'.stop = owner.stop /\ owner'.closed = owner.closed
      /\ owner'.final = owner.final /\ owner'.verdict = owner.verdict
  BY DEF ReadFrame, At, GoTo, Fails, processes, history, IInv, TypeOK, Frames,
      OwnerRecord
<1>2. owner.final = "none" /\ ~SupGone
  BY <1>1, WordFirst DEF Smooth, Stages
<1>3. /\ owner'.bad = owner.bad
      /\ \/ /\ Head(out) = "closed" /\ owner'.pc = "sealing"
            /\ down' = Append(down, "seal")
         \/ /\ Head(out) # "closed" /\ owner'.pc \in {"request", "offer"}
            /\ down' = down
  BY <1>2 DEF ReadFrame, GoTo, IInv, TypeOK, OwnerRecord
<1>4. \A y : Has(out, y) <=> Head(out) = y \/ Has(out', y)
  BY <1>1, TakenFrom
<1>5. Sound' /\ Stages'
  BY <1>1, <1>2, <1>3 DEF Smooth, Sound, Stages
<1>6. Ordered'
  <2>1. CASE down' = down
    BY <1>1, <1>3, <2>1 DEF Smooth, Ordered
  <2>2. CASE Head(out) = "closed" /\ down' = Append(down, "seal")
    <3>1. sup.sealed /\ down \in Seq(Orders) /\ "seal" \in Orders
      BY <1>4, <2>2 DEF Smooth, SealKept, IInv, TypeOK, Orders
    <3>2. \A y : Has(down', y) <=> Has(down, y) \/ y = "seal"
      BY <2>2, <3>1, AddedTo
    <3>3. Sole(down')
      BY <2>2, <3>1, SoleKept DEF Smooth, Ordered
    <3> QED
      BY <1>1, <1>3, <3>1, <3>2, <3>3 DEF Smooth, Ordered
  <2> QED
    BY <1>3, <2>1, <2>2
<1>7. LastWord'
  BY <1>1 DEF Smooth, LastWord
<1>8. Finished'
  BY <1>1, <1>3, <1>4 DEF Smooth, Finished, Delivered
<1>9. SealKept' /\ Entries'
  BY <1>1, <1>4 DEF Smooth, SealKept, Entries, Books
<1> QED
  BY <1>5, <1>6, <1>7, <1>8, <1>9 DEF Smooth

LEMMA SendRequestCalm ==
  ASSUME IInv, Smooth, SendRequest, Calm' PROVE Smooth'
<1>1. /\ owner.pc = "request" /\ ~owner.stop
      /\ owner' = [owner EXCEPT !.pc = "read"]
      /\ UNCHANGED <<live, down, up, out, sup, reg, lead, child, parent>>
  BY DEF SendRequest, At, GoTo, control, processes, Calm
<1>2. /\ owner'.pc = "read" /\ owner'.stop = owner.stop
      /\ owner'.closed = owner.closed /\ owner'.bad = owner.bad
      /\ owner'.final = owner.final /\ owner'.verdict = owner.verdict
  BY <1>1 DEF IInv, TypeOK, OwnerRecord
<1>3. Sound' /\ Stages' /\ Ordered' /\ LastWord'
  BY <1>1, <1>2 DEF Smooth, Sound, Stages, Ordered, LastWord
<1>4. Finished' /\ SealKept' /\ Entries'
  BY <1>1, <1>2 DEF Smooth, Finished, Delivered, SealKept, Entries, Books
<1> QED
  BY <1>3, <1>4 DEF Smooth

LEMMA OfferCalm ==
  ASSUME IInv, Smooth, Offer, Calm' PROVE Smooth'
<1>1. Sound'
  BY DEF Offer, At, GoTo, control, pipes, processes, history, IInv, TypeOK,
      OwnerRecord, Smooth, Sound
<1>2. Stages'
  BY DEF Offer, At, GoTo, control, pipes, processes, history, IInv, TypeOK,
      OwnerRecord, Smooth, Stages
<1>3. Ordered'
  BY DEF Offer, At, GoTo, control, pipes, processes, history, IInv, TypeOK,
      OwnerRecord, Smooth, Ordered
<1>4. LastWord'
  BY DEF Offer, At, GoTo, control, pipes, processes, history, IInv, TypeOK,
      OwnerRecord, Smooth, LastWord
<1>5. Finished'
  BY DEF Offer, At, GoTo, control, pipes, processes, history, IInv, TypeOK,
      OwnerRecord, Smooth, Finished, Delivered
<1>6. SealKept' /\ Entries'
  BY DEF Offer, control, pipes, processes, history, Smooth, SealKept, Entries,
      Books
<1> QED
  BY <1>1, <1>2, <1>3, <1>4, <1>5, <1>6 DEF Smooth

LEMMA ReadEventCalm ==
  ASSUME IInv, Smooth, ReadEvent, Calm' PROVE Smooth'
<1>1. /\ up \in Seq(Events) /\ up # <<>> /\ up' = Tail(up)
      /\ UNCHANGED <<live, out, sup, reg, lead, child, parent>>
      /\ owner.pc \in {"sealing", "finish", "await"}
      /\ down \in Seq(Orders) /\ "ack" \in Orders
  BY DEF ReadEvent, pipes, processes, history, IInv, TypeOK, Events, Orders
<1>2. \A y : Has(up, y) <=> Head(up) = y \/ Has(up', y)
  BY <1>1, TakenFrom
<1>3. Last(up') /\ (Head(up) = "confirmed" => Len(up') = 0 /\ ~SupGone)
  BY <1>1, <1>2, LastKept, WordFirst DEF Smooth, LastWord
<1>4. owner.final = "none"
  <2>1. Len(up) # 0
    BY <1>1, Dequeued
  <2> QED
    BY <2>1, WordFirst DEF Smooth, LastWord
<1>5. Head(up) # "doubtful"
  BY <1>2 DEF Smooth, Sound
<1>6. /\ owner'.stop = owner.stop /\ owner'.bad = owner.bad
      /\ owner'.verdict = owner.verdict
      /\ owner.closed => owner'.closed
      /\ \/ /\ owner'.pc = "offer" /\ owner'.closed
            /\ owner'.final = "none" /\ down' = down
         \/ owner' = owner /\ down' = down
         \/ /\ Head(up) = "confirmed" /\ owner'.final = "confirmed"
            /\ owner'.pc = IF owner.pc = "await" THEN "reap" ELSE owner.pc
            /\ down' = Append(down, "ack")
  BY <1>3, <1>4, <1>5 DEF ReadEvent, IInv, TypeOK, OwnerRecord
<1>7. Sound'
  BY <1>1, <1>2, <1>6 DEF Smooth, Sound
<1>8. Stages'
  BY <1>1, <1>4, <1>6 DEF Smooth, Stages
<1>9. Ordered'
  <2>1. CASE down' = down
    BY <1>1, <1>4, <1>6, <2>1 DEF Smooth, Ordered
  <2>2. CASE owner'.final = "confirmed" /\ down' = Append(down, "ack")
    <3>1. \A y : Has(down', y) <=> Has(down, y) \/ y = "ack"
      BY <1>1, <2>2, AddedTo
    <3>2. Sole(down')
      BY <1>1, <2>2, SoleKept DEF Smooth, Ordered
    <3> QED
      BY <1>1, <1>6, <2>2, <3>1, <3>2 DEF Smooth, Ordered
  <2> QED
    BY <1>6, <2>1, <2>2
<1>10. LastWord'
  BY <1>1, <1>2, <1>3, <1>4, <1>6 DEF Smooth, LastWord
<1>11. Finished'
  BY <1>1, <1>6 DEF Smooth, Finished, Delivered
<1>12. SealKept' /\ Entries'
  BY <1>1 DEF Smooth, SealKept, Entries, Books
<1> QED
  BY <1>7, <1>8, <1>9, <1>10, <1>11, <1>12 DEF Smooth

LEMMA EndsCalm ==
  ASSUME IInv, Smooth, Ends, Calm' PROVE Smooth'
<1>1. /\ owner.pc = "read"
      /\ UNCHANGED <<live, down, up, out, sup, reg, lead, child, parent>>
  BY DEF Ends, At, control, pipes, processes, history
<1>2. owner.stop \/ owner.closed
  <2> SUFFICES ASSUME ~owner.stop PROVE owner.closed
    OBVIOUS
  <2>1. out = <<>> /\ lead.pc \in {"zombie", "waited"}
    BY DEF Ends, Eof, LeadAlive
  <2>2. Delivered /\ ~Has(out, "closed")
    BY <2>1, NothingIn DEF Smooth, Finished
  <2> QED
    BY <1>1, <2>2 DEF Delivered
<1>3. /\ owner'.pc = "finish" /\ owner'.stop = owner.stop
      /\ owner'.closed = owner.closed /\ owner'.bad = owner.bad
      /\ owner'.final = owner.final /\ owner'.verdict = owner.verdict
  BY <1>2 DEF Ends, GoTo, IInv, TypeOK, OwnerRecord
<1>4. Sound' /\ Stages' /\ Ordered' /\ LastWord'
  BY <1>1, <1>3 DEF Smooth, Sound, Stages, Ordered, LastWord
<1>5. Finished' /\ SealKept' /\ Entries'
  BY <1>1, <1>3 DEF Smooth, Finished, Delivered, SealKept, Entries, Books
<1> QED
  BY <1>4, <1>5 DEF Smooth

LEMMA TerminateCalm ==
  ASSUME IInv, Smooth, Terminate, Calm' PROVE Smooth'
<1>1. /\ owner.pc = "finish"
      /\ UNCHANGED <<live, up, out, sup, reg, lead, child, parent>>
      /\ down \in Seq(Orders) /\ "stop" \in Orders
  BY DEF Terminate, At, pipes, processes, history, IInv, TypeOK, Orders
<1>2. SupGone => owner.final # "none"
  BY WordFirst
<1>3. /\ owner'.stop /\ owner'.bad = owner.bad
      /\ owner'.final = owner.final /\ owner'.verdict = owner.verdict
      /\ \/ /\ owner'.pc = "reap" /\ owner.final = "confirmed"
            /\ down' = down
         \/ /\ owner'.pc = "await" /\ owner.final = "none"
            /\ down' = Append(down, "stop")
  BY <1>2, WordFirst DEF Terminate, IInv, TypeOK, OwnerRecord
<1>4. Sound' /\ Stages' /\ LastWord'
  BY <1>1, <1>3 DEF Smooth, Sound, Stages, LastWord
<1>5. Ordered'
  <2>1. CASE down' = down
    BY <1>1, <1>3, <2>1 DEF Smooth, Ordered
  <2>2. CASE down' = Append(down, "stop")
    <3>1. \A y : Has(down', y) <=> Has(down, y) \/ y = "stop"
      BY <1>1, <2>2, AddedTo
    <3>2. Sole(down')
      BY <1>1, <2>2, SoleKept DEF Smooth, Ordered
    <3> QED
      BY <1>1, <1>3, <3>1, <3>2 DEF Smooth, Ordered
  <2> QED
    BY <1>3, <2>1, <2>2
<1>6. Finished' /\ SealKept' /\ Entries'
  BY <1>1, <1>3 DEF Smooth, Finished, Delivered, SealKept, Entries, Books
<1> QED
  BY <1>4, <1>5, <1>6 DEF Smooth

LEMMA AwaitTimesOutCalm ==
  ASSUME IInv, Smooth, AwaitTimesOut, Calm' PROVE Smooth'
<1>1. Sound'
  BY DEF AwaitTimesOut, At, GoTo, SupGone, control, pipes, processes, history,
      IInv, TypeOK, OwnerRecord, Smooth, Sound, Stages
<1>2. Stages'
  BY DEF AwaitTimesOut, At, GoTo, SupGone, control, pipes, processes, history,
      IInv, TypeOK, OwnerRecord, Smooth, Stages, Sound
<1>3. Ordered'
  BY DEF AwaitTimesOut, At, GoTo, SupGone, control, pipes, processes, history,
      IInv, TypeOK, OwnerRecord, Smooth, Ordered, Sound, Stages
<1>4. LastWord'
  BY DEF AwaitTimesOut, At, GoTo, SupGone, control, pipes, processes, history,
      IInv, TypeOK, OwnerRecord, Smooth, LastWord, Sound, Stages
<1>5. Finished'
  BY DEF AwaitTimesOut, At, GoTo, SupGone, control, pipes, processes, history,
      IInv, TypeOK, OwnerRecord, Smooth, Finished, Delivered
<1>6. SealKept' /\ Entries'
  BY DEF AwaitTimesOut, control, pipes, processes, history, Smooth, SealKept,
      Entries, Books
<1> QED
  BY <1>1, <1>2, <1>3, <1>4, <1>5, <1>6 DEF Smooth

LEMMA WaitSupervisorCalm ==
  ASSUME IInv, Smooth, WaitSupervisor, Calm' PROVE Smooth'
<1>1. Sound'
  BY DEF WaitSupervisor, At, GoTo, SupGone, control, pipes, processes,
      history, IInv, TypeOK, OwnerRecord, Smooth, Sound, Stages
<1>2. Stages'
  BY DEF WaitSupervisor, At, GoTo, SupGone, control, pipes, processes,
      history, IInv, TypeOK, OwnerRecord, Smooth, Stages, Sound
<1>3. Ordered'
  BY DEF WaitSupervisor, At, GoTo, SupGone, control, pipes, processes,
      history, IInv, TypeOK, OwnerRecord, Smooth, Ordered, Sound, Stages
<1>4. LastWord'
  BY DEF WaitSupervisor, At, GoTo, SupGone, control, pipes, processes,
      history, IInv, TypeOK, OwnerRecord, Smooth, LastWord, Sound, Stages
<1>5. Finished'
  BY DEF WaitSupervisor, At, GoTo, SupGone, control, pipes, processes,
      history, IInv, TypeOK, OwnerRecord, Smooth, Finished, Delivered
<1>6. SealKept' /\ Entries'
  BY DEF WaitSupervisor, control, pipes, processes, history, Smooth, SealKept,
      Entries, Books
<1> QED
  BY <1>1, <1>2, <1>3, <1>4, <1>5, <1>6 DEF Smooth

LEMMA DrainCalm ==
  ASSUME IInv, Smooth, Drain, Calm' PROVE Smooth'
<1>1. /\ owner.pc = "drain" /\ out' = <<>>
      /\ UNCHANGED <<down, up, sup, reg, lead, child, parent>>
  BY DEF Drain, At, processes, history
<1>2. /\ owner.final = "confirmed" /\ sup.pc = "exit0" /\ ~owner.bad /\ Eof
      /\ owner.stop
  BY <1>1, WordFirst DEF Smooth, Sound, Stages, Over, Eof, LeadAlive
<1>3. /\ owner'.pc = "done" /\ owner'.verdict = "closed" /\ live' = live
      /\ owner'.stop = owner.stop /\ owner'.bad = owner.bad
      /\ owner'.final = owner.final
  BY <1>2 DEF Drain, IInv, TypeOK, OwnerRecord
<1>4. Sound' /\ Stages' /\ Ordered' /\ LastWord'
  BY <1>1, <1>2, <1>3 DEF Smooth, Sound, Stages, Ordered, LastWord
<1>5. Finished' /\ SealKept' /\ Entries'
  BY <1>1, <1>2, <1>3, NothingIn
  DEF Smooth, Finished, Delivered, SealKept, Entries, Books
<1> QED
  BY <1>4, <1>5 DEF Smooth

LEMMA SeesEndCalm ==
  ASSUME IInv, Smooth, SeesEnd, Calm' PROVE Smooth'
<1>1. /\ sup.pc = "loop"
      /\ UNCHANGED <<owner, live, down, up, out, reg, lead, child, parent>>
  BY DEF SeesEnd, memory, control, pipes, history
<1>2. Leave(FALSE) /\ lead.pc \in {"zombie", "waited"}
  BY DEF SeesEnd, LeadAlive, Smooth, Sound
<1>3. /\ sup'.pc = "kill" /\ sup'.doubt = sup.doubt
      /\ sup'.released = sup.released /\ sup'.sealed = sup.sealed
  BY <1>2 DEF Leave, IInv, TypeOK, SupRecord
<1>4. Sound' /\ Stages' /\ Ordered' /\ LastWord'
  BY <1>1, <1>3 DEF Smooth, Sound, Stages, Ordered, LastWord
<1>5. Finished' /\ SealKept' /\ Entries'
  BY <1>1, <1>2, <1>3 DEF Smooth, Finished, Delivered, SealKept, Entries
<1> QED
  BY <1>4, <1>5 DEF Smooth

LEMMA TakeCommandCalm ==
  ASSUME IInv, Smooth, TakeCommand, Calm' PROVE Smooth'
<1>1. /\ down \in Seq(Orders) /\ down # <<>> /\ down' = Tail(down)
      /\ sup.pc = "loop" /\ up \in Seq(Events) /\ "sealed" \in Events
      /\ UNCHANGED <<owner, live, out, reg, lead, child, parent>>
  BY DEF TakeCommand, memory, pipes, history, IInv, TypeOK, Orders, Events
<1>2. \A y : Has(down, y) <=> Head(down) = y \/ Has(down', y)
  BY <1>1, TakenFrom
<1>3. Sole(down') /\ ~Has(down', "resume")
  BY <1>1, SoleKept DEF Smooth, Ordered
<1>4. /\ Head(down) = "resume" => ~sup.released
      /\ Head(down) = "seal" => sup.sealed
      /\ Head(down) = "stop" => owner.stop
      /\ Head(down) # "ack"
  BY <1>1, <1>2, WordFirst DEF Smooth, Ordered, Over
<1>5. /\ sup'.doubt = sup.doubt /\ sup'.sealed = sup.sealed
      /\ sup'.active = sup.active
      /\ sup.released => sup'.released
      /\ \/ sup'.pc = "loop" /\ (up' = up \/ up' = Append(up, "sealed"))
         \/ sup'.pc = "kill" /\ owner.stop /\ up' = up
  <2>1. Head(down) \in Orders
    BY <1>1, Dequeued
  <2> QED
    BY <1>1, <1>4, <2>1
    DEF TakeCommand, Leave, IInv, TypeOK, SupRecord, Orders
<1>6. /\ \A y : Has(up', y) => Has(up, y) \/ y = "sealed"
      /\ Last(up') /\ ~Has(up', "confirmed")
      /\ owner.final # "confirmed"
  <2>1. owner.final # "confirmed" /\ ~Has(up, "confirmed")
    BY <1>1, WordFirst DEF Over
  <2>2. CASE up' = up
    BY <2>1, <2>2 DEF Smooth, LastWord
  <2>3. CASE up' = Append(up, "sealed")
    BY <1>1, <2>1, <2>3, AddedTo, LastKept DEF Smooth, LastWord
  <2> QED
    BY <1>5, <2>1, <2>2, <2>3
<1>7. Sound' /\ Stages'
  BY <1>1, <1>5, <1>6 DEF Smooth, Sound, Stages
<1>8. Ordered'
  BY <1>1, <1>2, <1>3, <1>5 DEF Smooth, Ordered
<1>9. LastWord'
  BY <1>1, <1>6 DEF LastWord
<1>10. Finished'
  BY <1>1, <1>5 DEF Smooth, Finished, Delivered
<1>11. SealKept' /\ Entries'
  BY <1>1, <1>5 DEF Smooth, SealKept, Entries, Books
<1> QED
  BY <1>7, <1>8, <1>9, <1>10, <1>11 DEF Smooth

LEMMA TakeEntryCalm ==
  ASSUME IInv, Smooth, TakeEntry, Calm' PROVE Smooth'
<1>1. /\ sup.pc = "loop" /\ reg.ask # "none"
      /\ UNCHANGED <<owner, live, down, up, out, lead, child, parent>>
  BY DEF TakeEntry, memory, control, pipes, history
<1>2. \/ /\ lead.pc = "born" /\ child = "gated" /\ ~sup.sealed
         /\ Books("register", FALSE, "none")
      \/ /\ lead.pc = "gone" /\ child = "zombie" /\ ~sup.sealed
         /\ Books("exited", FALSE, "registered")
      \/ /\ lead.pc = "reaped" /\ child = "reaped" /\ ~sup.sealed
         /\ Books("reaped", FALSE, "exited")
      \/ /\ lead.pc = "sealing" /\ child \in {"none", "reaped"}
         /\ ~sup.sealed /\ Books("seal", FALSE, "none")
  BY <1>1 DEF Smooth, Entries, Books, IInv, TypeOK, LeadRecord
<1>3. Expected
  BY <1>2 DEF Expected, LeadAlive, Books
<1>4. /\ reg' = [ask |-> "none", reply |-> TRUE]
      /\ sup' = [sup EXCEPT !.sealed = @ \/ reg.ask = "seal",
            !.active = CASE reg.ask = "register" -> "registered"
                         [] reg.ask = "exited" -> "exited"
                         [] OTHER -> "none"]
  BY <1>3 DEF TakeEntry
<1>5. /\ reg'.ask = "none" /\ reg'.reply
      /\ sup'.pc = "loop" /\ sup'.doubt = sup.doubt
      /\ sup'.released = sup.released
      /\ reg.ask = "seal" => sup'.sealed /\ sup'.active = "none"
      /\ reg.ask # "seal" => sup'.sealed = sup.sealed
      /\ reg.ask = "register" => sup'.active = "registered"
      /\ reg.ask = "exited" => sup'.active = "exited"
      /\ reg.ask = "reaped" => sup'.active = "none"
  BY <1>1, <1>4 DEF IInv, TypeOK, SupRecord
<1>6. sup.sealed => sup'.sealed
  BY <1>2
<1>7. Sound' /\ Stages' /\ Ordered' /\ LastWord'
  BY <1>1, <1>5, <1>6 DEF Smooth, Sound, Stages, Ordered, LastWord
<1>8. Finished' /\ SealKept'
  BY <1>1, <1>2, <1>5, <1>6
  DEF Smooth, Finished, Delivered, SealKept, Books
<1>9. Entries'
  <2>1. CASE lead.pc = "born"
    BY <1>1, <1>2, <1>5, <2>1 DEF Entries, Books
  <2>2. CASE lead.pc = "gone"
    BY <1>1, <1>2, <1>5, <2>2 DEF Entries, Books
  <2>3. CASE lead.pc = "reaped"
    BY <1>1, <1>2, <1>5, <2>3 DEF Entries, Books
  <2>4. CASE lead.pc = "sealing"
    BY <1>1, <1>2, <1>5, <2>4 DEF Entries, Books
  <2> QED
    BY <1>2, <2>1, <2>2, <2>3, <2>4
<1> QED
  BY <1>7, <1>8, <1>9 DEF Smooth

LEMMA KillGroupCalm ==
  ASSUME IInv, Smooth, KillGroup, Calm' PROVE Smooth'
<1>1. Sound'
  <2>1. ~Unknown
    BY DEF KillGroup, Calm
  <2>2. ~sup'.doubt /\ sup'.pc = "reap"
    BY <2>1 DEF KillGroup, IInv, TypeOK, SupRecord, Smooth, Sound
  <2> QED
    BY <2>2 DEF KillGroup, memory, control, Smooth, Sound
<1>2. Stages'
  BY DEF KillGroup, Unknown, memory, control, pipes, IInv, TypeOK, SupRecord,
      Smooth, Stages
<1>3. Ordered'
  BY DEF KillGroup, Unknown, memory, control, pipes, IInv, TypeOK, SupRecord,
      Smooth, Ordered
<1>4. LastWord'
  BY DEF KillGroup, Unknown, memory, control, pipes, IInv, TypeOK, SupRecord,
      Smooth, LastWord
<1>5. Finished'
  BY DEF KillGroup, Unknown, memory, control, pipes, IInv, TypeOK, LeadRecord,
      SupRecord, Smooth, Finished, Delivered
<1>6. SealKept'
  BY DEF KillGroup, Unknown, memory, control, pipes, IInv, TypeOK, LeadRecord,
      SupRecord, Smooth, SealKept
<1>7. Entries'
  BY DEF KillGroup, Unknown, memory, control, pipes, IInv, TypeOK, SupRecord,
      LeadRecord, Smooth, Entries, Books
<1> QED
  BY <1>1, <1>2, <1>3, <1>4, <1>5, <1>6, <1>7 DEF Smooth

LEMMA ReapCalm ==
  ASSUME IInv, Smooth, Reap, Calm' PROVE Smooth'
<1>1. /\ sup.pc = "reap" /\ up \in Seq(Events) /\ "confirmed" \in Events
      /\ up' = Append(up, "confirmed")
      /\ UNCHANGED <<owner, live, down, out, reg, parent>>
      /\ sup'.pc = "ack" /\ sup'.doubt = sup.doubt
      /\ sup'.released = sup.released /\ sup'.sealed = sup.sealed
      /\ lead'.pc = "waited"
  BY DEF Reap, memory, pipes, history, IInv, TypeOK, Events, SupRecord,
      LeadRecord, Smooth, Sound
<1>2. owner.final # "confirmed" /\ ~Has(up, "confirmed")
  BY <1>1, WordFirst DEF Over
<1>3. /\ \A y : Has(up', y) <=> Has(up, y) \/ y = "confirmed"
      /\ Last(up')
  BY <1>1, <1>2, AddedTo, LastKept DEF Smooth, LastWord
<1>4. Sound' /\ Stages' /\ Ordered'
  BY <1>1, <1>3 DEF Smooth, Sound, Stages, Ordered
<1>5. LastWord'
  BY <1>1, <1>2, <1>3 DEF LastWord
<1>6. Finished' /\ SealKept' /\ Entries'
  BY <1>1 DEF Smooth, Finished, Delivered, SealKept, Entries
<1> QED
  BY <1>4, <1>5, <1>6 DEF Smooth

LEMMA AnsweredCalm ==
  ASSUME IInv, Smooth, Answered, Calm' PROVE Smooth'
<1>1. /\ sup.pc = "ack"
      /\ down \in Seq(Orders) /\ down # <<>> /\ down' = Tail(down)
      /\ UNCHANGED <<owner, live, up, out, reg, lead, child, parent>>
  BY DEF Answered, memory, pipes, history, IInv, TypeOK, Orders
<1>2. \A y : Has(down, y) <=> Head(down) = y \/ Has(down', y)
  BY <1>1, TakenFrom
<1>3. Head(down) \in {"ack", "stop"}
  BY DEF Answered, Calm
<1>4. /\ sup'.doubt = sup.doubt /\ sup'.sealed = sup.sealed
      /\ sup'.released = sup.released
      /\ \/ sup'.pc = "exit0" /\ owner.final = "confirmed"
         \/ sup'.pc = "ack"
  BY <1>1, <1>2, <1>3
  DEF Answered, IInv, TypeOK, SupRecord, Smooth, Ordered
<1>5. Sound' /\ Stages'
  BY <1>1, <1>4 DEF Smooth, Sound, Stages
<1>6. Ordered'
  BY <1>1, <1>2, <1>4, SoleKept DEF Smooth, Ordered
<1>7. LastWord'
  BY <1>1, <1>4, NothingIn DEF Smooth, LastWord
<1>8. Finished' /\ SealKept' /\ Entries'
  BY <1>1, <1>4 DEF Smooth, Finished, Delivered, SealKept, Entries
<1> QED
  BY <1>5, <1>6, <1>7, <1>8 DEF Smooth

LEMMA NobodyToAnswerCalm ==
  ASSUME IInv, Smooth, NobodyToAnswer, Calm' PROVE Smooth'
  BY DEF NobodyToAnswer, Smooth, Sound

LEMMA BootCalm ==
  ASSUME IInv, Smooth, Boot, Calm' PROVE Smooth'
<1>1. Finished'
  <2>1. \A y : Has(out', y) <=> Has(out, y) \/ y = "ready"
    <3>1. out \in Seq(Frames) /\ "ready" \in Frames /\ out' = out \o <<"ready">>
      BY DEF Boot, Delivers, IInv, TypeOK, Frames
    <3>2. out' = Append(out, "ready")
      BY <3>1, Written
    <3>3. \A y : Has(Append(out, "ready"), y) <=> Has(out, y) \/ "ready" = y
      BY <3>1, AddedTo
    <3> QED
      BY <3>2, <3>3
  <2> QED
    BY <2>1 DEF Boot, In, Moves, memory, control, history, IInv, TypeOK,
        LeadRecord, Smooth, Finished, Delivered
<1>2. SealKept'
  <2>1. \A y : Has(out', y) <=> Has(out, y) \/ y = "ready"
    <3>1. out \in Seq(Frames) /\ "ready" \in Frames /\ out' = out \o <<"ready">>
      BY DEF Boot, Delivers, IInv, TypeOK, Frames
    <3>2. out' = Append(out, "ready")
      BY <3>1, Written
    <3>3. \A y : Has(Append(out, "ready"), y) <=> Has(out, y) \/ "ready" = y
      BY <3>1, AddedTo
    <3> QED
      BY <3>2, <3>3
  <2> QED
    BY <2>1 DEF Boot, In, Moves, memory, control, history, IInv, TypeOK,
        LeadRecord, RegRecord, Smooth, SealKept
<1>3. Entries'
  BY DEF Boot, In, Moves, Delivers, memory, control, history, IInv, TypeOK,
      LeadRecord, Smooth, Entries, Books
<1>4. Sound' /\ Stages' /\ Ordered' /\ LastWord'
  BY DEF Boot, memory, control, history, Smooth, Sound, Stages, Ordered,
      LastWord
<1> QED
  BY <1>1, <1>2, <1>3, <1>4 DEF Smooth

LEMMA TakeRequestCalm ==
  ASSUME IInv, Smooth, TakeRequest, Calm' PROVE Smooth'
<1>1. Finished'
  BY DEF TakeRequest, In, Moves, memory, control, pipes, history, IInv,
      TypeOK, LeadRecord, Smooth, Finished, Delivered
<1>2. SealKept'
  BY DEF TakeRequest, In, Moves, memory, control, pipes, history, IInv,
      TypeOK, LeadRecord, Smooth, SealKept
<1>3. Entries'
  BY DEF TakeRequest, In, Moves, memory, control, pipes, history, IInv,
      TypeOK, LeadRecord, Smooth, Entries, Books
<1>4. Sound' /\ Stages' /\ Ordered' /\ LastWord'
  BY DEF TakeRequest, memory, control, pipes, history, Smooth, Sound, Stages,
      Ordered, LastWord
<1> QED
  BY <1>1, <1>2, <1>3, <1>4 DEF Smooth

LEMMA SkipTakeCalm ==
  ASSUME IInv, Smooth, SkipTake, Calm' PROVE Smooth'
<1>1. Finished'
  <2>1. \A y : Has(out', y) <=> Has(out, y) \/ y = "take"
    <3>1. out \in Seq(Frames) /\ "take" \in Frames /\ out' = out \o <<"take">>
      BY DEF SkipTake, Delivers, IInv, TypeOK, Frames
    <3>2. out' = Append(out, "take")
      BY <3>1, Written
    <3>3. \A y : Has(Append(out, "take"), y) <=> Has(out, y) \/ "take" = y
      BY <3>1, AddedTo
    <3> QED
      BY <3>2, <3>3
  <2> QED
    BY <2>1 DEF SkipTake, In, NextTake, memory, control, history, IInv,
        TypeOK, LeadRecord, Smooth, Finished, Delivered
<1>2. SealKept'
  <2>1. \A y : Has(out', y) <=> Has(out, y) \/ y = "take"
    <3>1. out \in Seq(Frames) /\ "take" \in Frames /\ out' = out \o <<"take">>
      BY DEF SkipTake, Delivers, IInv, TypeOK, Frames
    <3>2. out' = Append(out, "take")
      BY <3>1, Written
    <3>3. \A y : Has(Append(out, "take"), y) <=> Has(out, y) \/ "take" = y
      BY <3>1, AddedTo
    <3> QED
      BY <3>2, <3>3
  <2> QED
    BY <2>1 DEF SkipTake, In, NextTake, memory, control, history, IInv,
        TypeOK, LeadRecord, RegRecord, Smooth, SealKept
<1>3. Entries'
  BY DEF SkipTake, In, Delivers, NextTake, memory, control, history, IInv,
      TypeOK, LeadRecord, Smooth, Entries, Books
<1>4. Sound' /\ Stages' /\ Ordered' /\ LastWord'
  BY DEF SkipTake, memory, control, history, Smooth, Sound, Stages, Ordered,
      LastWord
<1> QED
  BY <1>1, <1>2, <1>3, <1>4 DEF Smooth

LEMMA ForkCalm ==
  ASSUME IInv, Smooth, Fork, Calm' PROVE Smooth'
<1>1. Finished'
  BY DEF Fork, In, Moves, Asks, memory, control, pipes, history, IInv, TypeOK,
      LeadRecord, Smooth, Finished, Delivered
<1>2. SealKept'
  BY DEF Fork, In, Moves, Asks, memory, control, pipes, history, IInv, TypeOK,
      LeadRecord, RegRecord, Smooth, SealKept
<1>3. Entries'
  BY DEF Fork, In, Moves, Asks, memory, control, pipes, history, IInv, TypeOK,
      LeadRecord, RegRecord, Smooth, Entries, Books
<1>4. Sound' /\ Stages' /\ Ordered' /\ LastWord'
  BY DEF Fork, memory, control, pipes, history, Smooth, Sound, Stages,
      Ordered, LastWord
<1> QED
  BY <1>1, <1>2, <1>3, <1>4 DEF Smooth

LEMMA ReleaseCalm ==
  ASSUME IInv, Smooth, Release, Calm' PROVE Smooth'
<1>1. Finished'
  BY DEF Release, In, Moves, TakesAnswer, memory, control, pipes, history,
      IInv, TypeOK, LeadRecord, Smooth, Finished, Delivered
<1>2. SealKept'
  BY DEF Release, In, Moves, TakesAnswer, memory, control, pipes, history,
      IInv, TypeOK, LeadRecord, RegRecord, Smooth, SealKept
<1>3. Entries'
  BY DEF Release, In, Moves, TakesAnswer, memory, control, pipes, history,
      IInv, TypeOK, LeadRecord, RegRecord, Smooth, Entries, Books
<1>4. Sound' /\ Stages' /\ Ordered' /\ LastWord'
  BY DEF Release, memory, control, pipes, history, Smooth, Sound, Stages,
      Ordered, LastWord
<1> QED
  BY <1>1, <1>2, <1>3, <1>4 DEF Smooth

LEMMA FfmpegEndsCalm ==
  ASSUME IInv, Smooth, FfmpegEnds, Calm' PROVE Smooth'
<1>1. Entries'
  BY DEF FfmpegEnds, memory, control, pipes, history, IInv, TypeOK, Smooth,
      Entries, Books
<1>2. Sound' /\ Stages' /\ Ordered' /\ LastWord' /\ Finished' /\ SealKept'
  BY DEF FfmpegEnds, memory, control, pipes, history, Smooth, Sound, Stages,
      Ordered, LastWord, Finished, SealKept, Delivered
<1> QED
  BY <1>1, <1>2 DEF Smooth

LEMMA ReportExitCalm ==
  ASSUME IInv, Smooth, ReportExit, Calm' PROVE Smooth'
<1>1. Finished'
  BY DEF ReportExit, In, Moves, Asks, memory, control, pipes, history, IInv,
      TypeOK, LeadRecord, Smooth, Finished, Delivered
<1>2. SealKept'
  BY DEF ReportExit, In, Moves, Asks, memory, control, pipes, history, IInv,
      TypeOK, LeadRecord, RegRecord, Smooth, SealKept
<1>3. Entries'
  BY DEF ReportExit, In, Moves, Asks, memory, control, pipes, history, IInv,
      TypeOK, LeadRecord, RegRecord, Smooth, Entries, Books
<1>4. Sound' /\ Stages' /\ Ordered' /\ LastWord'
  BY DEF ReportExit, memory, control, pipes, history, Smooth, Sound, Stages,
      Ordered, LastWord
<1> QED
  BY <1>1, <1>2, <1>3, <1>4 DEF Smooth

LEMMA WaitChildCalm ==
  ASSUME IInv, Smooth, WaitChild, Calm' PROVE Smooth'
<1>1. Finished'
  BY DEF WaitChild, In, Moves, Asks, memory, control, pipes, history, IInv,
      TypeOK, LeadRecord, Smooth, Finished, Delivered
<1>2. SealKept'
  BY DEF WaitChild, In, Moves, Asks, memory, control, pipes, history, IInv,
      TypeOK, LeadRecord, RegRecord, Smooth, SealKept
<1>3. Entries'
  BY DEF WaitChild, In, Moves, Asks, memory, control, pipes, history, IInv,
      TypeOK, LeadRecord, RegRecord, Smooth, Entries, Books
<1>4. Sound' /\ Stages' /\ Ordered' /\ LastWord'
  BY DEF WaitChild, memory, control, pipes, history, Smooth, Sound, Stages,
      Ordered, LastWord
<1> QED
  BY <1>1, <1>2, <1>3, <1>4 DEF Smooth

LEMMA FinishTakeCalm ==
  ASSUME IInv, Smooth, FinishTake, Calm' PROVE Smooth'
<1>1. Finished'
  <2>1. \A y : Has(out', y) <=> Has(out, y) \/ y = "take"
    <3>1. out \in Seq(Frames) /\ "take" \in Frames /\ out' = out \o <<"take">>
      BY DEF FinishTake, Delivers, IInv, TypeOK, Frames
    <3>2. out' = Append(out, "take")
      BY <3>1, Written
    <3>3. \A y : Has(Append(out, "take"), y) <=> Has(out, y) \/ "take" = y
      BY <3>1, AddedTo
    <3> QED
      BY <3>2, <3>3
  <2> QED
    BY <2>1 DEF FinishTake, In, TakesAnswer, NextTake, memory, control,
        history, IInv, TypeOK, LeadRecord, Smooth, Finished, Delivered
<1>2. SealKept'
  <2>1. \A y : Has(out', y) <=> Has(out, y) \/ y = "take"
    <3>1. out \in Seq(Frames) /\ "take" \in Frames /\ out' = out \o <<"take">>
      BY DEF FinishTake, Delivers, IInv, TypeOK, Frames
    <3>2. out' = Append(out, "take")
      BY <3>1, Written
    <3>3. \A y : Has(Append(out, "take"), y) <=> Has(out, y) \/ "take" = y
      BY <3>1, AddedTo
    <3> QED
      BY <3>2, <3>3
  <2> QED
    BY <2>1 DEF FinishTake, In, TakesAnswer, NextTake, memory, control,
        history, IInv, TypeOK, LeadRecord, RegRecord, Smooth, SealKept
<1>3. Entries'
  BY DEF FinishTake, In, TakesAnswer, Delivers, NextTake, memory, control,
      history, IInv, TypeOK, LeadRecord, RegRecord, Smooth, Entries, Books
<1>4. Sound' /\ Stages' /\ Ordered' /\ LastWord'
  BY DEF FinishTake, memory, control, history, Smooth, Sound, Stages, Ordered,
      LastWord
<1> QED
  BY <1>1, <1>2, <1>3, <1>4 DEF Smooth

LEMMA AskSealCalm ==
  ASSUME IInv, Smooth, AskSeal, Calm' PROVE Smooth'
<1>1. Finished'
  BY DEF AskSeal, In, Moves, Asks, memory, control, pipes, history, IInv,
      TypeOK, LeadRecord, Smooth, Finished, Delivered
<1>2. SealKept'
  BY DEF AskSeal, In, Moves, Asks, memory, control, pipes, history, IInv,
      TypeOK, LeadRecord, RegRecord, Smooth, SealKept
<1>3. Entries'
  BY DEF AskSeal, In, Moves, Asks, memory, control, pipes, history, IInv,
      TypeOK, LeadRecord, RegRecord, Smooth, Entries, Books
<1>4. Sound' /\ Stages' /\ Ordered' /\ LastWord'
  BY DEF AskSeal, memory, control, pipes, history, Smooth, Sound, Stages,
      Ordered, LastWord
<1> QED
  BY <1>1, <1>2, <1>3, <1>4 DEF Smooth

LEMMA CloseCalm ==
  ASSUME IInv, Smooth, Close, Calm' PROVE Smooth'
<1>1. Finished'
  <2>1. \A y : Has(out', y) <=> Has(out, y) \/ y = "result" \/ y = "closed"
    <3>1. /\ out \in Seq(Frames) /\ "result" \in Frames
          /\ "closed" \in Frames
          /\ out' = out \o <<"result", "closed">>
      BY DEF Close, Delivers, IInv, TypeOK, Frames
    <3>2. out' = Append(Append(out, "result"), "closed")
      BY <3>1, WrittenTwice
    <3>3. Append(out, "result") \in Seq(Frames)
      BY <3>1, Enqueued
    <3>4. \A y : Has(Append(out, "result"), y) <=>
                  Has(out, y) \/ "result" = y
      BY <3>1, AddedTo
    <3>5. \A y : Has(Append(Append(out, "result"), "closed"), y) <=>
                  Has(Append(out, "result"), y) \/ "closed" = y
      BY <3>1, <3>3, AddedTo, ZenonT(40)
    <3> QED
      BY <3>2, <3>4, <3>5
  <2> QED
    BY <2>1 DEF Close, In, Moves, TakesAnswer, memory, control, history, IInv,
        TypeOK, LeadRecord, Smooth, Finished, Delivered
<1>2. SealKept'
  <2>1. \A y : Has(out', y) <=> Has(out, y) \/ y = "result" \/ y = "closed"
    <3>1. /\ out \in Seq(Frames) /\ "result" \in Frames
          /\ "closed" \in Frames
          /\ out' = out \o <<"result", "closed">>
      BY DEF Close, Delivers, IInv, TypeOK, Frames
    <3>2. out' = Append(Append(out, "result"), "closed")
      BY <3>1, WrittenTwice
    <3>3. Append(out, "result") \in Seq(Frames)
      BY <3>1, Enqueued
    <3>4. \A y : Has(Append(out, "result"), y) <=>
                  Has(out, y) \/ "result" = y
      BY <3>1, AddedTo
    <3>5. \A y : Has(Append(Append(out, "result"), "closed"), y) <=>
                  Has(Append(out, "result"), y) \/ "closed" = y
      BY <3>1, <3>3, AddedTo, ZenonT(40)
    <3> QED
      BY <3>2, <3>4, <3>5
  <2> QED
    BY <2>1 DEF Close, In, Moves, TakesAnswer, memory, control, history, IInv,
        TypeOK, LeadRecord, RegRecord, Smooth, SealKept
<1>3. Entries'
  BY DEF Close, In, Moves, TakesAnswer, Delivers, memory, control, history,
      IInv, TypeOK, LeadRecord, RegRecord, Smooth, Entries, Books
<1>4. Sound' /\ Stages' /\ Ordered' /\ LastWord'
  BY DEF Close, memory, control, history, Smooth, Sound, Stages, Ordered,
      LastWord
<1> QED
  BY <1>1, <1>2, <1>3, <1>4 DEF Smooth

LEMMA ExitCalm ==
  ASSUME IInv, Smooth, Exit, Calm' PROVE Smooth'
<1>1. Finished'
  <2>1. lead.pc = "leaving" \/ sup.pc # "loop"
    BY DEF Exit, In, SupGone, Smooth, Sound
  <2> QED
    BY <2>1 DEF Exit, memory, pipes, Smooth, Finished, Delivered
<1>2. SealKept'
  BY DEF Exit, SupGone, In, Moves, memory, control, pipes, history, IInv,
      TypeOK, LeadRecord, Smooth, SealKept
<1>3. Entries'
  BY DEF Exit, SupGone, In, Moves, memory, control, pipes, history, IInv,
      TypeOK, LeadRecord, Smooth, Entries, Books
<1>4. Sound' /\ Stages' /\ Ordered' /\ LastWord'
  BY DEF Exit, memory, control, pipes, history, Smooth, Sound, Stages,
      Ordered, LastWord
<1> QED
  BY <1>1, <1>2, <1>3, <1>4 DEF Smooth

LEMMA GateClosesCalm ==
  ASSUME IInv, Smooth, GateCloses, Calm' PROVE Smooth'
<1>1. Entries'
  BY DEF GateCloses, LeadAlive, memory, control, pipes, history, IInv, TypeOK,
      Smooth, Entries, Books
<1>2. Sound' /\ Stages' /\ Ordered' /\ LastWord' /\ Finished' /\ SealKept'
  BY DEF GateCloses, memory, control, pipes, history, Smooth, Sound, Stages,
      Ordered, LastWord, Finished, SealKept, Delivered
<1> QED
  BY <1>1, <1>2 DEF Smooth

LEMMA StutterCalm ==
  ASSUME Smooth, UNCHANGED vars PROVE Smooth'
  BY DEF vars, memory, control, pipes, processes, history, Smooth, Sound,
     Stages, Ordered, LastWord, Finished, Delivered, SealKept, Entries, Books

LEMMA InitCalm == Init => Smooth
<1> SUFFICES ASSUME Init PROVE Smooth
  OBVIOUS
<1>1. \A y : ~Has(down, y) /\ ~Has(up, y) /\ ~Has(out, y)
  BY NothingIn DEF Init
<1>2. Sole(down) /\ Last(up) /\ Len(up) = 0
  BY DEF Init, Sole, Last
<1>3. Sound /\ Stages /\ Ordered /\ LastWord
  BY <1>1, <1>2 DEF Init, Sound, Stages, Ordered, LastWord
<1>4. Finished /\ SealKept /\ Entries
  BY <1>1 DEF Init, Finished, SealKept, Entries, Books
<1> QED
  BY <1>3, <1>4 DEF Smooth

\* The calm is never restored: what has happened stays on record.
LEMMA CalmBefore ==
  ASSUME TypeOK, [Next]_vars, Calm' PROVE Calm
<1> USE DEF Calm
<1>1. CASE \/ StartFails \/ AnswerLate \/ ParentDies \/ SupFails \/ ReapLate
           \/ AckLate \/ SupCrash \/ LeadFails \/ OfferRevoked \/ SealTimesOut
           \/ AckTimesOut \/ Hang
  BY <1>1, Ruffled
<1>2. CASE \/ Start \/ ReadFrame \/ SendRequest \/ Offer \/ ReadEvent \/ Ends
           \/ Terminate \/ AwaitTimesOut \/ WaitSupervisor \/ Drain \/ Cancel
           \/ Consume
  BY <1>2 DEF Start, ReadFrame, SendRequest, Offer, ReadEvent, Ends, Terminate,
              AwaitTimesOut, WaitSupervisor, Drain, Cancel, Consume, history
<1>3. CASE \/ SeesEnd \/ TakeCommand \/ TakeEntry \/ KillGroup \/ Reap
           \/ Answered \/ NobodyToAnswer
  BY <1>3 DEF SeesEnd, TakeCommand, TakeEntry, KillGroup, Reap, Answered,
              NobodyToAnswer, history
<1>4. CASE \/ Boot \/ TakeRequest \/ SkipTake \/ Fork \/ Release \/ ReportExit
           \/ WaitChild \/ FinishTake \/ AskSeal \/ Close \/ Exit
           \/ FfmpegEnds \/ GateCloses
  BY <1>4 DEF Boot, TakeRequest, SkipTake, Fork, Release, ReportExit, WaitChild,
              FinishTake, AskSeal, Close, Exit, FfmpegEnds, GateCloses, history
<1>5. CASE UNCHANGED vars
  BY <1>5 DEF vars, history
<1> QED
  BY <1>1, <1>2, <1>3, <1>4, <1>5 DEF Next, Owner, Supervisor, Leader

LEMMA NextCalm ==
  ASSUME IInv, Calm => Smooth, [Next]_vars PROVE Calm' => Smooth'
<1> SUFFICES ASSUME Calm' PROVE Smooth'
  OBVIOUS
<1>1. Smooth
  BY CalmBefore DEF IInv
<1>2. CASE Owner
  BY <1>1, <1>2, StartCalm, ReadFrameCalm, SendRequestCalm, OfferCalm,
     ReadEventCalm, EndsCalm, TerminateCalm, AwaitTimesOutCalm,
     WaitSupervisorCalm, DrainCalm, Ruffled DEF Owner, IInv
<1>3. CASE Supervisor
  BY <1>1, <1>3, SeesEndCalm, TakeCommandCalm, TakeEntryCalm, KillGroupCalm,
     ReapCalm, AnsweredCalm, NobodyToAnswerCalm DEF Supervisor
<1>4. CASE Leader
  BY <1>1, <1>4, BootCalm, TakeRequestCalm, SkipTakeCalm, ForkCalm, ReleaseCalm,
     ReportExitCalm, WaitChildCalm, FinishTakeCalm, AskSealCalm, CloseCalm,
     ExitCalm, Ruffled DEF Leader, IInv
<1>5. CASE StartFails \/ AnswerLate \/ ParentDies \/ SupFails \/ ReapLate
           \/ AckTimesOut \/ AckLate \/ SupCrash \/ LeadFails
  BY <1>5, Ruffled DEF IInv
<1>6. CASE Cancel \/ Consume \/ FfmpegEnds \/ GateCloses
  BY <1>1, <1>6, CancelCalm, ConsumeCalm, FfmpegEndsCalm, GateClosesCalm
<1>7. CASE UNCHANGED vars
  BY <1>1, <1>7, StutterCalm
<1> QED
  BY <1>2, <1>3, <1>4, <1>5, <1>6, <1>7 DEF Next

\* Without a fault every order of the messages of the four processes closes
\* the custody of a healthy group, but for the windows that are listed: for
\* any number of takes and any queue.
THEOREM LossIsExplained == Spec => []LossHasCause
<1>1. Init => (Calm => Smooth)
  BY InitCalm
<1>2. IInv /\ (Calm => Smooth) /\ [Next]_vars => (Calm => Smooth)'
  BY NextCalm
<1>3. IInv /\ (Calm => Smooth) => LossHasCause
  <2> SUFFICES ASSUME IInv, Calm => Smooth, owner.verdict = "unknown"
               PROVE  faults > 0 \/ race # {}
    BY DEF LossHasCause
  <2>1. ~Calm
    BY DEF Smooth, Sound
  <2>2. faults \in Nat
    BY CustodyAssumption DEF IInv, TypeOK
  <2> QED
    BY <2>1, <2>2 DEF Calm
<1> QED
  BY <1>1, <1>2, <1>3, Inductive, PTL DEF Spec
=============================================================================
