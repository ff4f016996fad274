--------------------------- MODULE ResidencyProofs ---------------------------
(***************************************************************************)
(* One model on the card, for any jobs, engines, models, routes and any    *)
(* number of attempts and faults.                                          *)
(*                                                                         *)
(* What carries the proof is the reservation: it is taken only when every  *)
(* engine but the target's is idle without a child (Ready), it is the only *)
(* one (Single), and only its holder loads or runs anything (Runs, Placed, *)
(* Watched), so that the others stay as they were (Alone).  An engine that *)
(* loads nothing and shows nothing has no child (Shown).                   *)
(***************************************************************************)
EXTENDS Residency, FiniteSetTheorems, TLAPS

\* Nothing goes on at the engine and it has nothing on the card.
Still(e) == engine[e].work = "idle" /\ engine[e].child = None
Elsewhere(e) == \A f \in Engines \ {e} : Still(f)

\* The reservation, and the attempts that are left.
Single == \A i, j \in Jobs : Reserved(i) /\ Reserved(j) => i = j
Budget == \A j \in Jobs : Queued(j) => job[j].attempt < MaxAttempts
\* Every engine but the reserved job's is still.
Alone == \A j \in Jobs : Reserved(j) => Elsewhere(EngineOf[j])

Shown == \A e \in Engines : engine[e].work # "load" =>
           engine[e].child \in {None, engine[e].loaded}

\* What runs is the attempt of the reserved job, and nobody ends it before.
Runs == \A e \in Engines : engine[e].work \in {"run", "busy"} =>
          /\ engine[e].job \in Jobs
          /\ EngineOf[engine[e].job] = e
          /\ job[engine[e].job].status = "captured"
          /\ told[engine[e].job] = "running"

Watched == \A j \in Jobs : observer[j].pc # "off" => job[j].status = "captured"

\* How far the main loop is, the reservation is.
Placed ==
  /\ main.pc # "off" => main.job \in Jobs
  /\ main.pc \in {"load", "loading", "capture"} =>
       job[main.job].status = "claimed"
  /\ main.pc = "submit" => job[main.job].status = "captured"

\* What the main loop saw before it reserves is still so.
Ready ==
  /\ main.pc \in {"evicting", "reserve"} => \A i \in Jobs : ~Reserved(i)
  /\ main.pc = "reserve" => Elsewhere(EngineOf[main.job])
  /\ main.pc = "evicting" =>
       /\ resident # None
       /\ \A f \in Engines \ {EngineOf[main.job], resident.engine} : Still(f)

OneChild ==
  \A e, f \in Engines :
    engine[e].child # None /\ engine[f].child # None => e = f

IInv == /\ TypeOK /\ Single /\ Budget /\ Alone /\ Shown /\ Runs /\ Watched
        /\ Placed /\ Ready /\ OneChild

-----------------------------------------------------------------------------
(* What the parts of actions do. *)

LEMMA GoToTyped ==
  ASSUME main \in MainRecord, NEW pc \in Place, GoTo(pc)
  PROVE  main' \in MainRecord
  BY DEF GoTo, MainRecord, Place

LEMMA GiveUpTyped ==
  ASSUME GiveUp PROVE main' \in MainRecord
  BY DEF GiveUp, NoMain, MainRecord, Place

\* A load touches its engine only, which keeps what it has or loads m.
LEMMA LoadAtDoes ==
  ASSUME engine \in [Engines -> EngineRecord], NEW e \in Engines,
         NEW m \in Models, LoadAt(e, m)
  PROVE  /\ engine' \in [Engines -> EngineRecord]
         /\ \A f \in Engines \ {e} : engine'[f] = engine[f]
         /\ \/ engine'[e] = engine[e]
            \/ engine'[e].work = "load" /\ engine'[e].child = m
<1>1. CASE engine[e].child = m /\ engine[e].loaded = m
  <2>1. engine' = engine
    BY <1>1 DEF LoadAt
  <2> QED
    BY <2>1
<1>2. CASE ~(engine[e].child = m /\ engine[e].loaded = m)
  <2>1. engine' = [engine EXCEPT ![e] =
                     [engine[e] EXCEPT !.work = "load", !.child = m,
                                       !.loaded = None]]
    BY <1>2 DEF LoadAt
  <2>2. [engine[e] EXCEPT !.work = "load", !.child = m, !.loaded = None]
          \in EngineRecord
    BY DEF EngineRecord, Work
  <2> QED
    BY <2>1, <2>2 DEF EngineRecord
<1> QED
  BY <1>1, <1>2

\* A submission touches its engine only, and keeps the child.
LEMMA TakeDoes ==
  ASSUME engine \in [Engines -> EngineRecord], NEW j \in Jobs, Take(j)
  PROVE  LET e == EngineOf[j] IN
         /\ \A f \in Engines \ {e} : engine'[f] = engine[f]
         /\ engine'[e].job = j /\ engine'[e].work = "run"
         /\ engine'[e].child = engine[e].child
         /\ engine'[e].loaded = engine[e].loaded
<1>1. EngineOf[j] \in Engines
  BY ResidencyAssumption
<1>2. engine' = [engine EXCEPT ![EngineOf[j]] =
                   [engine[EngineOf[j]] EXCEPT !.work = "run", !.job = j]]
  BY <1>1 DEF Take
<1> QED
  BY <1>1, <1>2 DEF EngineRecord

\* The attempt that ends leaves its reservation; it is queued again only below
\* the limit.
LEMMA SettledDoes ==
  ASSUME job \in [Jobs -> JobRecord], NEW j \in Jobs, NEW retryable \in BOOLEAN,
         NEW m \in Models, Settled(j, retryable, m)
  PROVE  job' \in [Jobs -> JobRecord]
<1>1. [job[j] EXCEPT !.status = IF retryable /\ job[j].attempt < MaxAttempts
                                THEN "queued" ELSE "ended",
                     !.model = m] \in JobRecord
  BY DEF JobRecord
<1> QED
  BY <1>1 DEF Settled

-----------------------------------------------------------------------------
(* Each action preserves the invariant: the engine. *)

LEMMA LoadEndsStep ==
  ASSUME IInv, NEW e \in Engines, LoadEnds(e) PROVE IInv'
<1>1. TypeOK'
  <2>1. engine' \in [Engines -> EngineRecord]
    BY ZenonT(40) DEF LoadEnds, IInv, TypeOK, EngineRecord, Work
  <2> QED
    BY <2>1 DEF LoadEnds, rows, IInv, TypeOK
<1>2. Alone'
  BY DEF LoadEnds, rows, IInv, TypeOK, Alone, Reserved, Elsewhere, Still
<1>3. Shown'
  BY DEF LoadEnds, rows, IInv, TypeOK, Shown
<1>4. Runs'
  BY DEF LoadEnds, rows, IInv, TypeOK, Runs
<1>5. Ready'
  BY DEF LoadEnds, rows, IInv, TypeOK, Ready, Reserved, Elsewhere, Still
<1>6. OneChild'
  BY DEF LoadEnds, rows, IInv, TypeOK, OneChild
<1>7. Single' /\ Budget' /\ Watched' /\ Placed'
  BY DEF LoadEnds, rows, IInv, Single, Budget, Watched, Placed, Reserved,
      Queued
<1> QED
  BY <1>1, <1>2, <1>3, <1>4, <1>5, <1>6, <1>7 DEF IInv

LEMMA LoadFailsStep ==
  ASSUME IInv, NEW e \in Engines, LoadFails(e) PROVE IInv'
<1>1. TypeOK'
  <2>1. engine' \in [Engines -> EngineRecord]
    BY DEF LoadFails, NoEngine, Fault, IInv, TypeOK, EngineRecord, Work
  <2> QED
    BY <2>1, ResidencyAssumption DEF LoadFails, NoEngine, Fault, rows, IInv,
        TypeOK
<1>2. Alone'
  BY DEF LoadFails, NoEngine, Fault, rows, IInv, TypeOK, Alone, Reserved,
      Elsewhere, Still
<1>3. Shown'
  BY DEF LoadFails, NoEngine, Fault, rows, IInv, TypeOK, Shown
<1>4. Runs'
  BY DEF LoadFails, NoEngine, Fault, rows, IInv, TypeOK, Runs
<1>5. Ready'
  BY DEF LoadFails, NoEngine, Fault, rows, IInv, TypeOK, Ready, Reserved,
      Elsewhere, Still
<1>6. OneChild'
  BY DEF LoadFails, NoEngine, Fault, rows, IInv, TypeOK, OneChild
<1>7. Single' /\ Budget' /\ Watched' /\ Placed'
  BY DEF LoadFails, NoEngine, Fault, rows, IInv, Single, Budget, Watched,
      Placed, Reserved, Queued
<1> QED
  BY <1>1, <1>2, <1>3, <1>4, <1>5, <1>6, <1>7 DEF IInv

LEMMA UnloadEndsStep ==
  ASSUME IInv, NEW e \in Engines, UnloadEnds(e) PROVE IInv'
<1>1. TypeOK'
  <2>1. engine' \in [Engines -> EngineRecord]
    BY DEF UnloadEnds, NoEngine, IInv, TypeOK, EngineRecord, Work
  <2> QED
    BY <2>1 DEF UnloadEnds, NoEngine, rows, IInv, TypeOK
<1>2. Alone'
  BY DEF UnloadEnds, NoEngine, rows, IInv, TypeOK, Alone, Reserved, Elsewhere,
      Still
<1>3. Shown'
  BY DEF UnloadEnds, NoEngine, rows, IInv, TypeOK, Shown
<1>4. Runs'
  BY DEF UnloadEnds, NoEngine, rows, IInv, TypeOK, Runs
<1>5. Ready'
  BY DEF UnloadEnds, NoEngine, rows, IInv, TypeOK, Ready, Reserved, Elsewhere,
      Still
<1>6. OneChild'
  BY DEF UnloadEnds, NoEngine, rows, IInv, TypeOK, OneChild
<1>7. Single' /\ Budget' /\ Watched' /\ Placed'
  BY DEF UnloadEnds, NoEngine, rows, IInv, Single, Budget, Watched, Placed,
      Reserved, Queued
<1> QED
  BY <1>1, <1>2, <1>3, <1>4, <1>5, <1>6, <1>7 DEF IInv

LEMMA RunStartsStep ==
  ASSUME IInv, NEW e \in Engines, RunStarts(e) PROVE IInv'
<1>1. TypeOK'
  <2>1. engine' \in [Engines -> EngineRecord]
    <3>1. job[engine[e].job].model \in Models
      BY DEF RunStarts, IInv, TypeOK, Runs, JobRecord
    <3>2. [engine[e] EXCEPT !.work = "busy",
                            !.loaded = job[engine[e].job].model,
                            !.child = job[engine[e].job].model] \in EngineRecord
      BY <3>1 DEF IInv, TypeOK, EngineRecord, Work
    <3> QED
      BY <3>2 DEF RunStarts, IInv, TypeOK
  <2>2. ran' \in SUBSET Jobs
    BY DEF RunStarts, IInv, TypeOK, Runs
  <2> QED
    BY <2>1, <2>2 DEF RunStarts, rows, IInv, TypeOK
<1>2. Alone'
  BY DEF RunStarts, rows, IInv, TypeOK, Alone, Reserved, Elsewhere, Still
<1>3. Shown'
  BY DEF RunStarts, rows, IInv, TypeOK, Shown
<1>4. Runs'
  <2>1. /\ \A f \in Engines : engine'[f].job = engine[f].job
        /\ \A f \in Engines \ {e} : engine'[f].work = engine[f].work
        /\ engine[e].work = "run"
    BY DEF RunStarts, IInv, TypeOK, EngineRecord
  <2>2. job' = job /\ told' = told
    BY DEF RunStarts
  <2> QED
    BY <2>1, <2>2 DEF IInv, Runs
<1>5. Ready'
  BY DEF RunStarts, rows, IInv, TypeOK, Ready, Reserved, Elsewhere, Still
<1>6. OneChild'
  BY DEF RunStarts, rows, IInv, TypeOK, EngineRecord, Work, OneChild
<1>7. Single' /\ Budget' /\ Watched' /\ Placed'
  BY DEF RunStarts, rows, IInv, Single, Budget, Watched, Placed, Reserved,
      Queued
<1> QED
  BY <1>1, <1>2, <1>3, <1>4, <1>5, <1>6, <1>7 DEF IInv

LEMMA RunKeepsStep ==
  ASSUME IInv, NEW e \in Engines, RunKeeps(e) PROVE IInv'
<1>1. TypeOK'
  <2>1. engine' \in [Engines -> EngineRecord]
    BY DEF RunKeeps, IInv, TypeOK, EngineRecord, Work
  <2>2. told' \in [Jobs -> Known]
    BY DEF RunKeeps, IInv, TypeOK, Known
  <2> QED
    BY <2>1, <2>2 DEF RunKeeps, rows, IInv, TypeOK
<1>2. Alone'
  BY DEF RunKeeps, rows, IInv, TypeOK, Alone, Reserved, Elsewhere, Still
<1>3. Shown'
  BY DEF RunKeeps, rows, IInv, TypeOK, Shown
<1>4. Runs'
  BY DEF RunKeeps, rows, IInv, TypeOK, Runs
<1>5. Ready'
  BY DEF RunKeeps, rows, IInv, TypeOK, Ready, Reserved, Elsewhere, Still
<1>6. OneChild'
  BY DEF RunKeeps, rows, IInv, TypeOK, OneChild
<1>7. Single' /\ Budget' /\ Watched' /\ Placed'
  BY DEF RunKeeps, rows, IInv, Single, Budget, Watched, Placed, Reserved,
      Queued
<1> QED
  BY <1>1, <1>2, <1>3, <1>4, <1>5, <1>6, <1>7 DEF IInv

LEMMA RunUnloadsStep ==
  ASSUME IInv, NEW e \in Engines, RunUnloads(e) PROVE IInv'
<1>1. TypeOK'
  <2>1. engine' \in [Engines -> EngineRecord]
    <3>1. [engine[e] EXCEPT !.work = Closing(e), !.loaded = None,
                            !.child = None] \in EngineRecord
      BY DEF Closing, IInv, TypeOK, EngineRecord, Work
    <3> QED
      BY <3>1 DEF RunUnloads, IInv, TypeOK
  <2>2. told' \in [Jobs -> Known]
    BY DEF RunUnloads, IInv, TypeOK, Known
  <2> QED
    BY <2>1, <2>2 DEF RunUnloads, Closing, rows, IInv, TypeOK
<1>2. Alone'
  BY DEF RunUnloads, Closing, rows, IInv, TypeOK, Alone, Reserved, Elsewhere, Still
<1>3. Shown'
  BY DEF RunUnloads, Closing, rows, IInv, TypeOK, Shown
<1>4. Runs'
  BY DEF RunUnloads, Closing, rows, IInv, TypeOK, Runs
<1>5. Ready'
  BY DEF RunUnloads, Closing, rows, IInv, TypeOK, Ready, Reserved, Elsewhere, Still
<1>6. OneChild'
  BY DEF RunUnloads, Closing, rows, IInv, TypeOK, OneChild
<1>7. Single' /\ Budget' /\ Watched' /\ Placed'
  BY DEF RunUnloads, Closing, rows, IInv, Single, Budget, Watched, Placed, Reserved,
      Queued
<1> QED
  BY <1>1, <1>2, <1>3, <1>4, <1>5, <1>6, <1>7 DEF IInv

LEMMA RunClosesStep ==
  ASSUME IInv, NEW e \in Engines, RunCloses(e) PROVE IInv'
<1>1. TypeOK'
  <2>1. engine' \in [Engines -> EngineRecord]
    <3>1. [engine[e] EXCEPT !.work = "idle", !.job = None] \in EngineRecord
      BY DEF IInv, TypeOK, EngineRecord, Work
    <3> QED
      BY <3>1 DEF RunCloses, IInv, TypeOK
  <2> QED
    BY <2>1 DEF RunCloses, rows, IInv, TypeOK
<1>2. Alone'
  BY DEF RunCloses, rows, IInv, TypeOK, Alone, Reserved, Elsewhere, Still
<1>3. Shown'
  BY DEF RunCloses, rows, IInv, TypeOK, Shown
<1>4. Runs'
  BY DEF RunCloses, rows, IInv, TypeOK, Runs
<1>5. Ready'
  BY DEF RunCloses, rows, IInv, TypeOK, Ready, Reserved, Elsewhere, Still
<1>6. OneChild'
  BY DEF RunCloses, rows, IInv, TypeOK, OneChild
<1>7. Single' /\ Budget' /\ Watched' /\ Placed'
  BY DEF RunCloses, rows, IInv, Single, Budget, Watched, Placed, Reserved,
      Queued
<1> QED
  BY <1>1, <1>2, <1>3, <1>4, <1>5, <1>6, <1>7 DEF IInv

LEMMA UnloadFailsStep ==
  ASSUME IInv, NEW e \in Engines, UnloadFails(e) PROVE IInv'
<1>1. TypeOK'
  <2>1. engine' \in [Engines -> EngineRecord]
    <3>1. [engine[e] EXCEPT !.work = "idle", !.child = None] \in EngineRecord
      BY DEF IInv, TypeOK, EngineRecord, Work
    <3> QED
      BY <3>1 DEF UnloadFails, IInv, TypeOK
  <2> QED
    BY <2>1, ResidencyAssumption DEF UnloadFails, Fault, rows, IInv, TypeOK
<1>2. Alone'
  BY DEF UnloadFails, Fault, rows, IInv, TypeOK, Alone, Reserved,
      Elsewhere, Still
<1>3. Shown'
  BY DEF UnloadFails, Fault, rows, IInv, TypeOK, Shown
<1>4. Runs'
  BY DEF UnloadFails, Fault, rows, IInv, TypeOK, Runs
<1>5. Ready'
  BY DEF UnloadFails, Fault, rows, IInv, TypeOK, Ready, Reserved,
      Elsewhere, Still
<1>6. OneChild'
  BY DEF UnloadFails, Fault, rows, IInv, TypeOK, OneChild
<1>7. Single' /\ Budget' /\ Watched' /\ Placed'
  BY DEF UnloadFails, Fault, rows, IInv, Single, Budget, Watched, Placed,
      Reserved, Queued
<1> QED
  BY <1>1, <1>2, <1>3, <1>4, <1>5, <1>6, <1>7 DEF IInv

LEMMA RunAbandonsStep ==
  ASSUME IInv, NEW e \in Engines, RunAbandons(e) PROVE IInv'
<1>1. TypeOK'
  <2>1. engine' \in [Engines -> EngineRecord]
    <3>1. [engine[e] EXCEPT !.work = Closing(e), !.child = None]
            \in EngineRecord
      BY DEF Closing, IInv, TypeOK, EngineRecord, Work
    <3> QED
      BY <3>1 DEF RunAbandons, IInv, TypeOK
  <2> QED
    BY <2>1, ResidencyAssumption DEF RunAbandons, Fault, rows, IInv, TypeOK
<1>2. Alone'
  BY DEF RunAbandons, Closing, Fault, rows, IInv, TypeOK, Alone, Reserved,
      Elsewhere, Still
<1>3. Shown'
  BY DEF RunAbandons, Closing, Fault, rows, IInv, TypeOK, Shown
<1>4. Runs'
  BY DEF RunAbandons, Closing, Fault, rows, IInv, TypeOK, Runs
<1>5. Ready'
  BY DEF RunAbandons, Closing, Fault, rows, IInv, TypeOK, Ready, Reserved,
      Elsewhere, Still
<1>6. OneChild'
  BY DEF RunAbandons, Closing, Fault, rows, IInv, TypeOK, OneChild
<1>7. Single' /\ Budget' /\ Watched' /\ Placed'
  BY DEF RunAbandons, Fault, rows, IInv, Single, Budget, Watched, Placed,
      Reserved, Queued
<1> QED
  BY <1>1, <1>2, <1>3, <1>4, <1>5, <1>6, <1>7 DEF IInv

LEMMA RunJamsStep ==
  ASSUME IInv, NEW e \in Engines, RunJams(e) PROVE IInv'
<1>1. TypeOK'
  <2>1. engine' \in [Engines -> EngineRecord]
    BY DEF RunJams, Fault, IInv, TypeOK, EngineRecord, Work
  <2> QED
    BY <2>1, ResidencyAssumption DEF RunJams, Fault, rows, IInv, TypeOK
<1>2. Alone'
  BY DEF RunJams, Fault, rows, IInv, TypeOK, Alone, Reserved,
      Elsewhere, Still
<1>3. Shown'
  BY DEF RunJams, Fault, rows, IInv, TypeOK, Shown
<1>4. Runs'
  BY DEF RunJams, Fault, rows, IInv, TypeOK, Runs
<1>5. Ready'
  BY DEF RunJams, Fault, rows, IInv, TypeOK, Ready, Reserved,
      Elsewhere, Still
<1>6. OneChild'
  BY DEF RunJams, Fault, rows, IInv, TypeOK, OneChild
<1>7. Single' /\ Budget' /\ Watched' /\ Placed'
  BY DEF RunJams, Fault, rows, IInv, Single, Budget, Watched, Placed,
      Reserved, Queued
<1> QED
  BY <1>1, <1>2, <1>3, <1>4, <1>5, <1>6, <1>7 DEF IInv

LEMMA ChildDiesStep ==
  ASSUME IInv, NEW e \in Engines, ChildDies(e) PROVE IInv'
<1>1. TypeOK'
  <2>1. engine' \in [Engines -> EngineRecord]
    BY DEF ChildDies, Fault, IInv, TypeOK, EngineRecord, Work
  <2> QED
    BY <2>1, ResidencyAssumption DEF ChildDies, Fault, rows, IInv, TypeOK
<1>2. Alone'
  BY DEF ChildDies, Fault, rows, IInv, TypeOK, Alone, Reserved, Elsewhere,
      Still
<1>3. Shown'
  BY DEF ChildDies, Fault, rows, IInv, TypeOK, Shown
<1>4. Runs'
  BY DEF ChildDies, Fault, rows, IInv, TypeOK, Runs
<1>5. Ready'
  BY DEF ChildDies, Fault, rows, IInv, TypeOK, Ready, Reserved, Elsewhere,
      Still
<1>6. OneChild'
  BY DEF ChildDies, Fault, rows, IInv, TypeOK, OneChild
<1>7. Single' /\ Budget' /\ Watched' /\ Placed'
  BY DEF ChildDies, Fault, rows, IInv, Single, Budget, Watched, Placed,
      Reserved, Queued
<1> QED
  BY <1>1, <1>2, <1>3, <1>4, <1>5, <1>6, <1>7 DEF IInv

LEMMA EngineCrashStep ==
  ASSUME IInv, NEW e \in Engines, EngineCrash(e) PROVE IInv'
<1>1. TypeOK'
  <2>1. engine' \in [Engines -> EngineRecord]
    BY DEF EngineCrash, NoEngine, Fault, IInv, TypeOK, EngineRecord, Work
  <2>2. told' \in [Jobs -> Known]
    BY DEF EngineCrash, NoEngine, Fault, IInv, TypeOK, Known
  <2> QED
    BY <2>1, <2>2, ResidencyAssumption DEF EngineCrash, NoEngine, Fault, rows,
        IInv, TypeOK
<1>2. Alone'
  BY DEF EngineCrash, NoEngine, Fault, rows, IInv, TypeOK, Alone, Reserved,
      Elsewhere, Still
<1>3. Shown'
  BY DEF EngineCrash, NoEngine, Fault, rows, IInv, TypeOK, Shown
<1>4. Runs'
  BY DEF EngineCrash, NoEngine, Fault, rows, IInv, TypeOK, Runs
<1>5. Ready'
  BY DEF EngineCrash, NoEngine, Fault, rows, IInv, TypeOK, Ready, Reserved,
      Elsewhere, Still
<1>6. OneChild'
  BY DEF EngineCrash, NoEngine, Fault, rows, IInv, TypeOK, OneChild
<1>7. Single' /\ Budget' /\ Watched' /\ Placed'
  BY DEF EngineCrash, NoEngine, Fault, rows, IInv, Single, Budget, Watched,
      Placed, Reserved, Queued
<1> QED
  BY <1>1, <1>2, <1>3, <1>4, <1>5, <1>6, <1>7 DEF IInv

-----------------------------------------------------------------------------
(* The main loop. *)

LEMMA LookStep ==
  ASSUME IInv, NEW j \in Jobs, Look(j) PROVE IInv'
<1>1. TypeOK'
  <2>1. main' \in MainRecord
    BY ResidencyAssumption DEF Look, Shows, CardFree, Idle, Queued, IInv,
        TypeOK, MainRecord, Place, EngineRecord
  <2> QED
    BY <2>1 DEF Look, Shows, CardFree, rows, IInv, TypeOK
<1>2. Placed'
  BY DEF Look, Shows, CardFree, rows, IInv, TypeOK, Placed
<1>3. Ready'
  BY DEF Look, Shows, CardFree, rows, IInv, TypeOK, Ready, Reserved,
      Elsewhere, Still
<1>4. Single' /\ Budget' /\ Alone' /\ Shown' /\ Runs' /\ Watched' /\ OneChild'
  BY DEF Look, Shows, CardFree, rows, IInv, Single, Budget, Alone, Shown,
      Runs, Watched, OneChild, Reserved, Queued, Elsewhere, Still
<1> QED
  BY <1>1, <1>2, <1>3, <1>4 DEF IInv

LEMMA AdmitStep ==
  ASSUME IInv, NEW j \in Jobs, Admit(j) PROVE IInv'
<1>1. TypeOK'
  <2>1. main' \in MainRecord
    BY ResidencyAssumption DEF Admit, At, GoTo, IInv, TypeOK, MainRecord,
        Place
  <2> QED
    BY <2>1 DEF Admit, At, GoTo, rows, IInv, TypeOK
<1>2. Placed'
  BY DEF Admit, At, GoTo, rows, IInv, TypeOK, Placed
<1>3. Ready'
  <2>1. Clear(j)
    BY DEF Admit, Admits
  <2>2. \A e \in Engines \ {EngineOf[j]} :
          (resident # None /\ resident.engine = e) \/ Still(e)
    BY <2>1 DEF Clear, OthersClear, Shows, Idle, IInv, Shown, Still
  <2>3. resident = None \/ resident.engine = EngineOf[j]
    BY DEF Admit, Admits, Wanted, Owned
  <2>4. main'.pc = "reserve" /\ main'.job = j
    BY DEF Admit, At, GoTo, IInv, TypeOK, MainRecord
  <2> QED
    BY <2>1, <2>2, <2>3, <2>4
    DEF Admit, rows, Clear, Ready, Elsewhere, Still, Reserved
<1>4. Single' /\ Budget' /\ Alone' /\ Shown' /\ Runs' /\ Watched' /\ OneChild'
  BY DEF Admit, At, GoTo, rows, IInv, Single, Budget, Alone, Shown, Runs,
      Watched, OneChild, Reserved, Queued, Elsewhere, Still
<1> QED
  BY <1>1, <1>2, <1>3, <1>4 DEF IInv

LEMMA EvictStep ==
  ASSUME IInv, NEW j \in Jobs, Evict(j) PROVE IInv'
<1>1. TypeOK'
  <2>1. engine' \in [Engines -> EngineRecord]
    BY ZenonT(40) DEF Evict, At, GoTo, IInv, TypeOK, EngineRecord, Work
  <2>2. main' \in MainRecord
    BY ResidencyAssumption DEF Evict, At, GoTo, IInv, TypeOK, MainRecord,
        Place
  <2> QED
    BY <2>1, <2>2 DEF Evict, At, GoTo, rows, IInv, TypeOK
<1>2. Alone'
  BY DEF Evict, At, GoTo, Evicts, Clear, OthersClear, Wanted, Owned, Shows,
      Idle, rows, IInv, TypeOK, JobRecord, EngineRecord, Work, Alone,
      Reserved, Elsewhere, Still
<1>3. Shown'
  BY DEF Evict, At, GoTo, Evicts, Clear, OthersClear, Wanted, Owned, Shows,
      Idle, rows, IInv, TypeOK, EngineRecord, Work, Shown
<1>4. Runs'
  BY DEF Evict, At, GoTo, rows, IInv, TypeOK, Runs
<1>5. Placed'
  BY DEF Evict, At, GoTo, rows, IInv, TypeOK, Placed
<1>6. Ready'
  <2>1. Clear(j) /\ resident # None /\ resident' = resident
    BY DEF Evict, Evicts
  <2>2. \A f \in Engines \ {EngineOf[j], resident.engine} : Still(f)
    BY <2>1 DEF Clear, OthersClear, Shows, Idle, IInv, Shown, Still
  <2>3. main'.pc = "evicting" /\ main'.job = j
    BY DEF Evict, At, GoTo, IInv, TypeOK, MainRecord
  <2>4. \A f \in Engines \ {resident.engine} : engine'[f] = engine[f]
    BY DEF Evict, IInv, TypeOK
  <2> QED
    BY <2>1, <2>2, <2>3, <2>4 DEF Evict, rows, Clear, Ready, Still, Reserved
<1>7. OneChild'
  BY DEF Evict, At, GoTo, rows, IInv, TypeOK, OneChild
<1>8. Single' /\ Budget' /\ Watched'
  BY DEF Evict, At, GoTo, rows, IInv, Single, Budget, Watched, Reserved,
      Queued
<1> QED
  BY <1>1, <1>2, <1>3, <1>4, <1>5, <1>6, <1>7, <1>8 DEF IInv

LEMMA DeclineStep ==
  ASSUME IInv, NEW j \in Jobs, Decline(j) PROVE IInv'
<1>1. TypeOK'
  <2>1. main' \in MainRecord
    BY ResidencyAssumption DEF Decline, GiveUp, NoMain, IInv, TypeOK,
        MainRecord, Place
  <2> QED
    BY <2>1 DEF Decline, GiveUp, NoMain, rows, IInv, TypeOK
<1>2. Placed'
  BY DEF Decline, GiveUp, NoMain, rows, IInv, TypeOK, Placed
<1>3. Ready'
  BY DEF Decline, GiveUp, NoMain, rows, IInv, TypeOK, Ready, Reserved,
      Elsewhere, Still
<1>4. Single' /\ Budget' /\ Alone' /\ Shown' /\ Runs' /\ Watched' /\ OneChild'
  BY DEF Decline, GiveUp, NoMain, rows, IInv, Single, Budget, Alone, Shown,
      Runs, Watched, OneChild, Reserved, Queued, Elsewhere, Still
<1> QED
  BY <1>1, <1>2, <1>3, <1>4 DEF IInv

LEMMA EvictedStep ==
  ASSUME IInv, NEW j \in Jobs, Evicted(j) PROVE IInv'
<1>1. TypeOK'
  <2>1. resident' \in Resident
    BY ResidencyAssumption DEF Evicted, At, GoTo, GiveUp, NoMain, IInv,
        TypeOK, Resident
  <2>2. main' \in MainRecord
    BY GoToTyped, GiveUpTyped DEF Evicted, IInv, TypeOK, Place
  <2> QED
    BY <2>1, <2>2 DEF Evicted, At, GoTo, GiveUp, NoMain, rows, IInv, TypeOK
<1>2. Placed'
  BY DEF Evicted, At, GoTo, GiveUp, NoMain, Idle, Shows, CardFree, rows, IInv,
      TypeOK, MainRecord, Place, JobRecord, Placed
<1>3. Ready'
  BY DEF Evicted, At, GoTo, GiveUp, NoMain, Idle, Shows, CardFree, rows, IInv,
      TypeOK, MainRecord, Place, JobRecord, EngineRecord, Work, Resident,
      Ready, Reserved, Elsewhere, Still
<1>4. Single' /\ Budget' /\ Alone' /\ Shown' /\ Runs' /\ Watched' /\ OneChild'
  BY DEF Evicted, At, GoTo, GiveUp, NoMain, rows, IInv, Single, Budget, Alone,
      Shown, Runs, Watched, OneChild, Reserved, Queued, Elsewhere, Still
<1> QED
  BY <1>1, <1>2, <1>3, <1>4 DEF IInv

LEMMA ReserveStep ==
  ASSUME IInv, NEW j \in Jobs, Reserve(j) PROVE IInv'
<1>1. TypeOK'
  <2>1. job' \in [Jobs -> JobRecord]
    BY ResidencyAssumption DEF Reserve, At, GoTo, GiveUp, NoMain, Queued,
        IInv, TypeOK, JobRecord
  <2>2. main' \in MainRecord
    BY GoToTyped, GiveUpTyped DEF Reserve, IInv, TypeOK, Place
  <2> QED
    BY <2>1, <2>2 DEF Reserve, At, GoTo, GiveUp, NoMain, Queued, rows, IInv,
        TypeOK
<1>2. Single'
  BY DEF Reserve, At, GoTo, GiveUp, NoMain, Queued, rows, IInv, TypeOK,
      Single, Reserved
<1>3. Budget'
  BY DEF Reserve, At, GoTo, GiveUp, NoMain, Queued, rows, IInv, TypeOK,
      JobRecord, Budget
<1>4. Alone'
  BY DEF Reserve, At, GoTo, GiveUp, NoMain, Queued, rows, IInv, TypeOK,
      JobRecord, EngineRecord, Work, Alone, Reserved, Elsewhere, Still
<1>5. Runs'
  BY DEF Reserve, At, GoTo, GiveUp, NoMain, Queued, rows, IInv, TypeOK, Runs
<1>6. Watched'
  BY DEF Reserve, At, GoTo, GiveUp, NoMain, Queued, rows, IInv, TypeOK,
      Watched
<1>7. Placed'
  BY DEF Reserve, At, GoTo, GiveUp, NoMain, Queued, rows, IInv, TypeOK,
      MainRecord, Place, JobRecord, Placed
<1>8. Ready'
  BY DEF Reserve, At, GoTo, GiveUp, NoMain, Queued, rows, IInv, TypeOK,
      MainRecord, Place, JobRecord, EngineRecord, Work, Resident, Ready,
      Reserved, Elsewhere, Still
<1>9. Shown' /\ OneChild'
  BY DEF Reserve, At, GoTo, GiveUp, NoMain, Queued, rows, IInv, Shown,
      OneChild
<1> QED
  BY <1>1, <1>2, <1>3, <1>4, <1>5, <1>6, <1>7, <1>8, <1>9 DEF IInv

LEMMA LoadStep ==
  ASSUME IInv, NEW j \in Jobs, Load(j) PROVE IInv'
<1>1. TypeOK'
  <2>1. engine' \in [Engines -> EngineRecord]
    BY ResidencyAssumption, LoadAtDoes DEF Load, IInv, TypeOK, JobRecord
  <2>2. main' \in MainRecord
    BY GoToTyped, GiveUpTyped DEF Load, IInv, TypeOK, Place
  <2> QED
    BY <2>1, <2>2 DEF Load, At, GoTo, GiveUp, NoMain, LoadAt, rows, IInv,
        TypeOK
<1>2. Alone'
  <2>1. Reserved(j)
    BY DEF Load, IInv, At, Placed, Reserved
  <2>2. \A f \in Engines \ {EngineOf[j]} : engine'[f] = engine[f]
    BY ResidencyAssumption, LoadAtDoes DEF Load, IInv, TypeOK, JobRecord
  <2>3. \A i \in Jobs : Reserved(i)' => i = j
    BY <2>1 DEF Load, rows, IInv, Single, Reserved
  <2> QED
    BY <2>1, <2>2, <2>3 DEF IInv, Alone, Elsewhere, Still
<1>3. Shown'
  <2>1. CASE Idle(EngineOf[j])
    BY <2>1, ResidencyAssumption, LoadAtDoes
    DEF Load, Idle, IInv, TypeOK, JobRecord, Shown, rows
  <2>2. CASE ~Idle(EngineOf[j])
    BY <2>2 DEF Load, IInv, Shown, rows
  <2> QED
    BY <2>1, <2>2
<1>4. Runs'
  <2>1. CASE Idle(EngineOf[j])
    BY <2>1, ResidencyAssumption, LoadAtDoes
    DEF Load, Idle, IInv, TypeOK, JobRecord, Runs, rows
  <2>2. CASE ~Idle(EngineOf[j])
    BY <2>2 DEF Load, IInv, Runs, rows
  <2> QED
    BY <2>1, <2>2
<1>5. Placed'
  BY DEF Load, At, GoTo, GiveUp, NoMain, LoadAt, Idle, rows, IInv, TypeOK,
      MainRecord, Place, JobRecord, Placed
<1>6. Ready'
  BY DEF Load, At, GoTo, GiveUp, NoMain, LoadAt, Idle, rows, IInv, TypeOK,
      MainRecord, Place, JobRecord, EngineRecord, Work, Resident, Ready,
      Reserved, Elsewhere, Still
<1>7. OneChild'
  <2>1. Elsewhere(EngineOf[j])
    BY DEF Load, IInv, At, Placed, Alone, Reserved
  <2>2. \A f \in Engines \ {EngineOf[j]} : engine'[f] = engine[f]
    BY ResidencyAssumption, LoadAtDoes DEF Load, IInv, TypeOK, JobRecord
  <2> QED
    BY <2>1, <2>2 DEF Elsewhere, Still, OneChild
<1>8. Single' /\ Budget' /\ Watched'
  BY DEF Load, At, GoTo, GiveUp, NoMain, LoadAt, rows, IInv, Single, Budget,
      Watched, Reserved, Queued
<1> QED
  BY <1>1, <1>2, <1>3, <1>4, <1>5, <1>6, <1>7, <1>8 DEF IInv

LEMMA LoadedStep ==
  ASSUME IInv, NEW j \in Jobs, Loaded(j) PROVE IInv'
<1>1. TypeOK'
  <2>1. resident' \in Resident
    BY ResidencyAssumption DEF Loaded, At, GoTo, GiveUp, NoMain, Wanted,
        Owned, Shows, IInv, TypeOK, Resident, JobRecord
  <2>2. main' \in MainRecord
    BY GoToTyped, GiveUpTyped DEF Loaded, IInv, TypeOK, Place
  <2> QED
    BY <2>1, <2>2 DEF Loaded, At, GoTo, GiveUp, NoMain, Wanted, Owned, rows,
        IInv, TypeOK
<1>2. Placed'
  BY DEF Loaded, At, GoTo, GiveUp, NoMain, Wanted, Owned, Shows, rows, IInv,
      TypeOK, MainRecord, Place, JobRecord, Placed
<1>3. Ready'
  BY DEF Loaded, At, GoTo, GiveUp, NoMain, Wanted, Owned, Shows, rows, IInv,
      TypeOK, MainRecord, Place, JobRecord, EngineRecord, Work, Resident,
      Ready, Reserved, Elsewhere, Still
<1>4. Single' /\ Budget' /\ Alone' /\ Shown' /\ Runs' /\ Watched' /\ OneChild'
  BY DEF Loaded, At, GoTo, GiveUp, NoMain, Wanted, Owned, rows, IInv, Single,
      Budget, Alone, Shown, Runs, Watched, OneChild, Reserved, Queued,
      Elsewhere, Still
<1> QED
  BY <1>1, <1>2, <1>3, <1>4 DEF IInv

LEMMA CaptureStep ==
  ASSUME IInv, NEW j \in Jobs, Capture(j) PROVE IInv'
<1>1. TypeOK'
  <2>1. job' \in [Jobs -> JobRecord]
    <3>1. [job[j] EXCEPT !.status = "captured"] \in JobRecord
      BY DEF IInv, TypeOK, JobRecord
    <3> QED
      BY <3>1 DEF Capture, IInv, TypeOK
  <2>2. main' \in MainRecord
    BY GoToTyped, GiveUpTyped DEF Capture, IInv, TypeOK, Place
  <2> QED
    BY <2>1, <2>2 DEF Capture, At, GoTo, GiveUp, NoMain, rows, IInv, TypeOK
<1>2. Single'
  BY ResidencyAssumption, SMTT(30)
  DEF Capture, At, GoTo, GiveUp, NoMain, Shows, rows, IInv, TypeOK, JobRecord,
      Runs, Placed, Watched, Single, Reserved
<1>3. Budget'
  BY DEF Capture, At, GoTo, GiveUp, NoMain, Shows, rows, IInv, TypeOK,
      JobRecord, Budget, Queued
<1>4. Alone'
  <2>1. \A i \in Jobs : Reserved(i)' => Reserved(i)
    BY DEF Capture, At, GiveUp, IInv, TypeOK, JobRecord, Placed, Reserved
  <2> QED
    BY <2>1 DEF Capture, IInv, Alone, Elsewhere, Still
<1>5. Runs'
  <2>1. \A i \in Jobs : job[i].status = "captured"
                       => job'[i].status = "captured"
    BY DEF Capture, IInv, TypeOK, JobRecord
  <2> QED
    BY <2>1 DEF Capture, IInv, Runs
<1>6. Watched'
  BY SMTT(30) DEF Capture, At, GoTo, GiveUp, NoMain, Shows, rows, IInv, TypeOK,
      ObserverRecord, JobRecord, Watched
<1>7. Placed'
  BY DEF Capture, At, GoTo, GiveUp, NoMain, Shows, rows, IInv, TypeOK,
      MainRecord, Place, JobRecord, Placed
<1>8. Ready'
  BY DEF Capture, At, GoTo, GiveUp, NoMain, Shows, rows, IInv, TypeOK,
      MainRecord, Place, JobRecord, EngineRecord, Work, Resident, Ready,
      Reserved, Elsewhere, Still
<1>9. Shown' /\ OneChild'
  BY DEF Capture, At, GoTo, GiveUp, NoMain, rows, IInv, Shown, OneChild
<1> QED
  BY <1>1, <1>2, <1>3, <1>4, <1>5, <1>6, <1>7, <1>8, <1>9 DEF IInv

LEMMA SubmitStep ==
  ASSUME IInv, NEW j \in Jobs, Submit(j) PROVE IInv'
<1>1. TypeOK'
  <2>1. engine' \in [Engines -> EngineRecord]
    BY DEF Submit, At, GiveUp, NoMain, Take, IInv, TypeOK, EngineRecord, Work
  <2>2. told' \in [Jobs -> Known]
    BY DEF Submit, At, GiveUp, NoMain, Take, IInv, TypeOK, Known
  <2>3. main' \in MainRecord
    BY ResidencyAssumption DEF Submit, At, GiveUp, NoMain, Take, IInv, TypeOK,
        MainRecord, Place
  <2> QED
    BY <2>1, <2>2, <2>3 DEF Submit, At, GiveUp, NoMain, Take, rows, IInv,
        TypeOK
<1>2. Alone'
  <2>1. Reserved(j)
    BY DEF Submit, IInv, At, Placed, Reserved
  <2>2. \A f \in Engines \ {EngineOf[j]} : engine'[f] = engine[f]
    BY ResidencyAssumption, TakeDoes DEF Submit, IInv, TypeOK
  <2>3. \A i \in Jobs : Reserved(i)' => i = j
    BY <2>1 DEF Submit, rows, IInv, Single, Reserved
  <2> QED
    BY <2>1, <2>2, <2>3 DEF IInv, Alone, Elsewhere, Still
<1>3. Shown'
  BY DEF Submit, At, GiveUp, NoMain, Take, Idle, rows, IInv, TypeOK,
      EngineRecord, Work, Shown
<1>4. Runs'
  <2>1. CASE Idle(EngineOf[j])
    <3>1. job[j].status = "captured"
      BY DEF Submit, IInv, At, Placed
    <3>2. Take(j) /\ job' = job
      BY <2>1 DEF Submit, rows
    <3>3. told' = [told EXCEPT ![j] = "running"]
      BY <3>2 DEF Take
    <3> QED
      BY <3>1, <3>2, <3>3, TakeDoes DEF IInv, TypeOK, Runs
  <2>2. CASE ~(Idle(EngineOf[j]))
    BY <2>2 DEF Submit, rows, IInv, Runs
  <2> QED
    BY <2>1, <2>2
<1>5. Placed'
  BY DEF Submit, At, GiveUp, NoMain, Take, rows, IInv, TypeOK, Placed
<1>6. Ready'
  BY DEF Submit, At, GiveUp, NoMain, Take, rows, IInv, TypeOK, Ready,
      Reserved, Elsewhere, Still
<1>7. OneChild'
  <2>1. Elsewhere(EngineOf[j])
    BY DEF Submit, IInv, At, Placed, Alone, Reserved
  <2>2. \A f \in Engines \ {EngineOf[j]} : engine'[f] = engine[f]
    BY ResidencyAssumption, TakeDoes DEF Submit, IInv, TypeOK
  <2> QED
    BY <2>1, <2>2 DEF Elsewhere, Still, OneChild
<1>8. Single' /\ Budget' /\ Watched'
  BY DEF Submit, At, GiveUp, NoMain, Take, rows, IInv, Single, Budget,
      Watched, Reserved, Queued
<1> QED
  BY <1>1, <1>2, <1>3, <1>4, <1>5, <1>6, <1>7, <1>8 DEF IInv

LEMMA MainFailsStep ==
  ASSUME IInv, MainFails PROVE IInv'
<1>1. TypeOK'
  <2>1. main' \in MainRecord
    BY ResidencyAssumption DEF MainFails, GiveUp, NoMain, Fault, IInv, TypeOK,
        MainRecord, Place
  <2> QED
    BY <2>1, ResidencyAssumption DEF MainFails, GiveUp, NoMain, Fault, rows,
        IInv, TypeOK
<1>2. Placed'
  BY DEF MainFails, GiveUp, NoMain, Fault, rows, IInv, TypeOK, Placed
<1>3. Ready'
  BY DEF MainFails, GiveUp, NoMain, Fault, rows, IInv, TypeOK, Ready,
      Reserved, Elsewhere, Still
<1>4. Single' /\ Budget' /\ Alone' /\ Shown' /\ Runs' /\ Watched' /\ OneChild'
  BY DEF MainFails, GiveUp, NoMain, Fault, rows, IInv, Single, Budget, Alone,
      Shown, Runs, Watched, OneChild, Reserved, Queued, Elsewhere, Still
<1> QED
  BY <1>1, <1>2, <1>3, <1>4 DEF IInv

-----------------------------------------------------------------------------
(* The observers, and a restart of the server. *)

LEMMA ResendStep ==
  ASSUME IInv, NEW j \in Jobs, Resend(j) PROVE IInv'
<1>1. TypeOK'
  <2>1. engine' \in [Engines -> EngineRecord]
    BY ResidencyAssumption, LoadAtDoes DEF Resend, IInv, TypeOK, JobRecord
  <2>2. observer' \in [Jobs -> ObserverRecord]
    BY DEF Resend, IInv, TypeOK, ObserverRecord
  <2> QED
    BY <2>1, <2>2 DEF Resend, LoadAt, rows, IInv, TypeOK
<1>2. Alone'
  BY DEF Resend, LoadAt, rows, IInv, TypeOK, Alone, Reserved, Elsewhere, Still
<1>3. Shown'
  BY DEF Resend, LoadAt, rows, IInv, TypeOK, Shown
<1>4. Runs'
  BY DEF Resend, LoadAt, rows, IInv, TypeOK, Runs
<1>5. Watched'
  BY DEF Resend, LoadAt, Absent, Idle, Shows, rows, IInv, TypeOK,
      ObserverRecord, JobRecord, Watched
<1>6. Ready'
  BY DEF Resend, LoadAt, Absent, Idle, Shows, rows, IInv, TypeOK, MainRecord,
      Place, JobRecord, EngineRecord, Work, Resident, Ready, Reserved,
      Elsewhere, Still
<1>7. OneChild'
  <2>1. Elsewhere(EngineOf[j])
    BY DEF Resend, IInv, Absent, Alone, Reserved
  <2>2. \A f \in Engines \ {EngineOf[j]} : engine'[f] = engine[f]
    BY ResidencyAssumption, LoadAtDoes DEF Resend, IInv, TypeOK, JobRecord
  <2> QED
    BY <2>1, <2>2 DEF Elsewhere, Still, OneChild
<1>8. Single' /\ Budget' /\ Placed'
  BY DEF Resend, LoadAt, rows, IInv, Single, Budget, Placed, Reserved, Queued
<1> QED
  BY <1>1, <1>2, <1>3, <1>4, <1>5, <1>6, <1>7, <1>8 DEF IInv

LEMMA ResendLoadedStep ==
  ASSUME IInv, NEW j \in Jobs, ResendLoaded(j) PROVE IInv'
<1>1. TypeOK'
  <2>1. resident' \in Resident
    BY ResidencyAssumption DEF ResendLoaded, Wanted, Owned, Shows, IInv,
        TypeOK, Resident, JobRecord
  <2>2. observer' \in [Jobs -> ObserverRecord]
    BY DEF ResendLoaded, Wanted, Owned, IInv, TypeOK, ObserverRecord
  <2> QED
    BY <2>1, <2>2 DEF ResendLoaded, Wanted, Owned, rows, IInv, TypeOK
<1>2. Watched'
  BY DEF ResendLoaded, Wanted, Owned, rows, IInv, TypeOK, Watched
<1>3. Ready'
  BY ResidencyAssumption DEF ResendLoaded, Wanted, Owned, Shows, rows, IInv,
      TypeOK, MainRecord, Place, JobRecord, EngineRecord, Work, Resident,
      Runs, Placed, Watched, Ready, Reserved, Elsewhere, Still
<1>4. Single' /\ Budget' /\ Alone' /\ Shown' /\ Runs' /\ Placed' /\ OneChild'
  BY DEF ResendLoaded, Wanted, Owned, rows, IInv, Single, Budget, Alone,
      Shown, Runs, Placed, OneChild, Reserved, Queued, Elsewhere, Still
<1> QED
  BY <1>1, <1>2, <1>3, <1>4 DEF IInv

LEMMA ResendSubmitsStep ==
  ASSUME IInv, NEW j \in Jobs, ResendSubmits(j) PROVE IInv'
<1>1. TypeOK'
  <2>1. engine' \in [Engines -> EngineRecord]
    BY DEF ResendSubmits, Take, IInv, TypeOK, EngineRecord, Work
  <2>2. told' \in [Jobs -> Known]
    BY DEF ResendSubmits, Take, IInv, TypeOK, Known
  <2>3. observer' \in [Jobs -> ObserverRecord]
    BY DEF ResendSubmits, Take, IInv, TypeOK, ObserverRecord
  <2> QED
    BY <2>1, <2>2, <2>3 DEF ResendSubmits, Take, rows, IInv, TypeOK
<1>2. Alone'
  <2>1. Reserved(j)
    BY DEF ResendSubmits, IInv, Watched, Reserved
  <2>2. \A f \in Engines \ {EngineOf[j]} : engine'[f] = engine[f]
    BY ResidencyAssumption, TakeDoes DEF ResendSubmits, IInv, TypeOK
  <2>3. \A i \in Jobs : Reserved(i)' => i = j
    BY <2>1 DEF ResendSubmits, rows, IInv, Single, Reserved
  <2> QED
    BY <2>1, <2>2, <2>3 DEF IInv, Alone, Elsewhere, Still
<1>3. Shown'
  BY DEF ResendSubmits, Take, Idle, Shows, rows, IInv, TypeOK, EngineRecord,
      Work, Shown
<1>4. Runs'
  <2>1. CASE Idle(EngineOf[j]) /\ Shows(EngineOf[j]) = job[j].model
    <3>1. job[j].status = "captured"
      BY DEF ResendSubmits, IInv, Watched
    <3>2. Take(j) /\ job' = job
      BY <2>1 DEF ResendSubmits, rows
    <3>3. told' = [told EXCEPT ![j] = "running"]
      BY <3>2 DEF Take
    <3> QED
      BY <3>1, <3>2, <3>3, TakeDoes DEF IInv, TypeOK, Runs
  <2>2. CASE ~(Idle(EngineOf[j]) /\ Shows(EngineOf[j]) = job[j].model)
    BY <2>2 DEF ResendSubmits, rows, IInv, Runs
  <2> QED
    BY <2>1, <2>2
<1>5. Watched'
  BY DEF ResendSubmits, Take, Idle, Shows, rows, IInv, TypeOK, ObserverRecord,
      JobRecord, Watched
<1>6. Ready'
  BY ResidencyAssumption DEF ResendSubmits, Take, Idle, Shows, rows, IInv,
      TypeOK, MainRecord, Place, JobRecord, EngineRecord, Work, Resident,
      Runs, Placed, Watched, Ready, Reserved, Elsewhere, Still
<1>7. OneChild'
  <2>1. Elsewhere(EngineOf[j])
    BY DEF ResendSubmits, IInv, Watched, Alone, Reserved
  <2>2. \A f \in Engines \ {EngineOf[j]} : engine'[f] = engine[f]
    BY ResidencyAssumption, TakeDoes DEF ResendSubmits, IInv, TypeOK
  <2> QED
    BY <2>1, <2>2 DEF Elsewhere, Still, OneChild
<1>8. Single' /\ Budget' /\ Placed'
  BY DEF ResendSubmits, Take, rows, IInv, Single, Budget, Placed, Reserved,
      Queued
<1> QED
  BY <1>1, <1>2, <1>3, <1>4, <1>5, <1>6, <1>7, <1>8 DEF IInv

LEMMA ResendFailsStep ==
  ASSUME IInv, NEW j \in Jobs, ResendFails(j) PROVE IInv'
<1>1. TypeOK'
  <2>1. observer' \in [Jobs -> ObserverRecord]
    BY DEF ResendFails, Fault, IInv, TypeOK, ObserverRecord
  <2> QED
    BY <2>1, ResidencyAssumption DEF ResendFails, Fault, rows, IInv, TypeOK
<1>2. Watched'
  BY DEF ResendFails, Fault, rows, IInv, TypeOK, Watched
<1>3. Single' /\ Budget' /\ Alone' /\ Shown' /\ Runs'
      /\ Placed' /\ Ready' /\ OneChild'
  BY DEF ResendFails, Fault, rows, IInv, Single, Budget, Alone, Shown, Runs,
      Placed, Ready, OneChild, Reserved, Queued, Elsewhere, Still
<1> QED
  BY <1>1, <1>2, <1>3 DEF IInv

LEMMA LostStep ==
  ASSUME IInv, NEW j \in Jobs, Lost(j) PROVE IInv'
<1>1. TypeOK'
  <2>1. job' \in [Jobs -> JobRecord]
    BY SettledDoes DEF Lost, IInv, TypeOK, JobRecord
  <2>2. told' \in [Jobs -> Known]
    BY DEF Lost, Settled, NoObserver, IInv, TypeOK, Known
  <2>3. ran' \in SUBSET Jobs
    BY DEF Lost, Settled, NoObserver, IInv, TypeOK
  <2>4. observer' \in [Jobs -> ObserverRecord]
    BY DEF Lost, Settled, NoObserver, IInv, TypeOK, ObserverRecord
  <2> QED
    BY <2>1, <2>2, <2>3, <2>4 DEF Lost, Settled, NoObserver, rows, IInv,
        TypeOK
<1>2. Single'
  BY DEF Lost, Settled, NoObserver, rows, IInv, TypeOK, Single, Reserved
<1>3. Budget'
  BY DEF Lost, Settled, NoObserver, rows, IInv, TypeOK, Budget, Queued
<1>4. Alone'
  BY DEF Lost, Settled, NoObserver, rows, IInv, TypeOK, Alone, Reserved,
      Elsewhere, Still
<1>5. Runs'
  BY DEF Lost, Settled, NoObserver, Absent, rows, IInv, TypeOK, EngineRecord,
      Work, JobRecord, Known, Runs
<1>6. Watched'
  BY DEF Lost, Settled, NoObserver, rows, IInv, TypeOK, Watched
<1>7. Placed'
  BY DEF Lost, Settled, NoObserver, Absent, rows, IInv, TypeOK, MainRecord,
      Place, JobRecord, Placed
<1>8. Ready'
  BY DEF Lost, Settled, NoObserver, rows, IInv, TypeOK, Ready, Reserved,
      Elsewhere, Still
<1>9. Shown' /\ OneChild'
  BY DEF Lost, Settled, NoObserver, rows, IInv, Shown, OneChild
<1> QED
  BY <1>1, <1>2, <1>3, <1>4, <1>5, <1>6, <1>7, <1>8, <1>9 DEF IInv

LEMMA EndsStep ==
  ASSUME IInv, NEW j \in Jobs, Ends(j) PROVE IInv'
<1>1. TypeOK'
  <2>1. job' \in [Jobs -> JobRecord]
    BY ResidencyAssumption, SettledDoes
    DEF Ends, IInv, TypeOK, JobRecord
  <2>2. told' \in [Jobs -> Known]
    BY DEF Ends, Settled, NoObserver, IInv, TypeOK, Known
  <2>3. ran' \in SUBSET Jobs
    BY DEF Ends, Settled, NoObserver, IInv, TypeOK
  <2>4. observer' \in [Jobs -> ObserverRecord]
    BY DEF Ends, Settled, NoObserver, IInv, TypeOK, ObserverRecord
  <2> QED
    BY <2>1, <2>2, <2>3, <2>4 DEF Ends, Settled, NoObserver, rows, IInv,
        TypeOK
<1>2. Single'
  BY DEF Ends, Settled, NoObserver, rows, IInv, TypeOK, Single, Reserved
<1>3. Budget'
  BY DEF Ends, Settled, NoObserver, rows, IInv, TypeOK, Budget, Queued
<1>4. Alone'
  BY DEF Ends, Settled, NoObserver, rows, IInv, TypeOK, Alone, Reserved,
      Elsewhere, Still
<1>5. Runs'
  BY DEF Ends, Settled, NoObserver, rows, IInv, TypeOK, Runs
<1>6. Watched'
  BY DEF Ends, Settled, NoObserver, rows, IInv, TypeOK, Watched
<1>7. Placed'
  BY DEF Ends, Settled, NoObserver, rows, IInv, TypeOK, Placed
<1>8. Ready'
  BY DEF Ends, Settled, NoObserver, rows, IInv, TypeOK, Ready, Reserved,
      Elsewhere, Still
<1>9. Shown' /\ OneChild'
  BY DEF Ends, Settled, NoObserver, rows, IInv, Shown, OneChild
<1> QED
  BY <1>1, <1>2, <1>3, <1>4, <1>5, <1>6, <1>7, <1>8, <1>9 DEF IInv

LEMMA ServerCrashStep ==
  ASSUME IInv, ServerCrash PROVE IInv'
<1>1. TypeOK'
  <2>1. main' \in MainRecord
    BY ResidencyAssumption DEF ServerCrash, NoMain, NoObserver, Fault, IInv,
        TypeOK, MainRecord, Place
  <2>2. observer' \in [Jobs -> ObserverRecord]
    BY DEF ServerCrash, NoMain, NoObserver, Fault, IInv, TypeOK,
        ObserverRecord
  <2>3. resident' \in Resident
    BY ResidencyAssumption DEF ServerCrash, NoMain, NoObserver, Fault, IInv,
        TypeOK, Resident
  <2> QED
    BY <2>1, <2>2, <2>3, ResidencyAssumption DEF ServerCrash, NoMain,
        NoObserver, Fault, rows, IInv, TypeOK
<1>2. Watched'
  BY DEF ServerCrash, NoMain, NoObserver, Fault, rows, IInv, TypeOK, Watched
<1>3. Placed'
  BY DEF ServerCrash, NoMain, NoObserver, Fault, rows, IInv, TypeOK, Placed
<1>4. Ready'
  BY DEF ServerCrash, NoMain, NoObserver, Fault, rows, IInv, TypeOK, Ready,
      Reserved, Elsewhere, Still
<1>5. Single' /\ Budget' /\ Alone' /\ Shown' /\ Runs' /\ OneChild'
  BY DEF ServerCrash, NoMain, NoObserver, Fault, rows, IInv, Single, Budget,
      Alone, Shown, Runs, OneChild, Reserved, Queued, Elsewhere, Still
<1> QED
  BY <1>1, <1>2, <1>3, <1>4, <1>5 DEF IInv

-----------------------------------------------------------------------------
LEMMA InitHolds == Init => IInv
<1> SUFFICES ASSUME Init PROVE IInv
  OBVIOUS
<1>1. TypeOK
  BY ResidencyAssumption
  DEF Init, NoMain, NoObserver, NoEngine, TypeOK, JobRecord, MainRecord, Place,
      ObserverRecord, EngineRecord, Work, Resident, Known
<1>2. Single /\ Budget /\ Alone
  BY ResidencyAssumption
  DEF Init, Single, Budget, Alone, Reserved, Queued
<1>3. Shown /\ Runs /\ OneChild
  BY DEF Init, NoEngine, Shown, Runs, OneChild
<1>4. Watched /\ Placed /\ Ready
  BY DEF Init, NoMain, NoObserver, Watched, Placed, Ready
<1> QED
  BY <1>1, <1>2, <1>3, <1>4 DEF IInv

LEMMA StutterHolds ==
  ASSUME IInv, UNCHANGED vars PROVE IInv'
  BY DEF vars, rows, IInv, TypeOK, Single, Budget, Alone, Elsewhere, Still,
         Shown, Runs, Watched, Placed, Ready, OneChild, Reserved, Queued

LEMMA NextHolds == IInv /\ [Next]_vars => IInv'
<1> SUFFICES ASSUME IInv, [Next]_vars PROVE IInv'
  OBVIOUS
<1>1. ASSUME NEW j \in Jobs, Look(j) \/ Main(j) PROVE IInv'
  BY <1>1, LookStep, AdmitStep, EvictStep, DeclineStep, EvictedStep,
     ReserveStep, LoadStep, LoadedStep, CaptureStep, SubmitStep DEF Main
<1>2. ASSUME NEW j \in Jobs, Observer(j) \/ ResendFails(j) PROVE IInv'
  BY <1>2, ResendStep, ResendLoadedStep, ResendSubmitsStep, ResendFailsStep,
     LostStep, EndsStep DEF Observer
<1>3. ASSUME NEW e \in Engines,
             Engine(e) \/ EngineFails(e) \/ ChildDies(e) \/ EngineCrash(e)
      PROVE  IInv'
  BY <1>3, LoadEndsStep, LoadFailsStep, UnloadEndsStep, RunStartsStep,
     RunKeepsStep, RunUnloadsStep, RunClosesStep, UnloadFailsStep,
     RunAbandonsStep, RunJamsStep, ChildDiesStep, EngineCrashStep
  DEF Engine, EngineFails
<1>4. CASE MainFails \/ ServerCrash
  BY <1>4, MainFailsStep, ServerCrashStep
<1>5. CASE UNCHANGED vars
  BY <1>5, StutterHolds
<1> QED
  BY <1>1, <1>2, <1>3, <1>4, <1>5 DEF Next

\* What holds in every state: the reservation is the only one, its engine the
\* only one at work, and what the main loop decided on is still so.
THEOREM Inductive == Spec => []IInv
<1> QED
  BY InitHolds, NextHolds, PTL DEF Spec

\* Every variable keeps its type.
THEOREM TypeCorrect == Spec => []TypeOK
<1>1. IInv => TypeOK
  BY DEF IInv
<1> QED
  BY <1>1, Inductive, PTL

LEMMA OneChildIsOneModel == OneChild => OneModel
<1> SUFFICES ASSUME OneChild PROVE OneModel
  OBVIOUS
<1> DEFINE holders == {e \in Engines : engine[e].child # None}
<1>1. CASE holders = {}
  <2>1. Cardinality(holders) = 0
    BY <1>1, FS_EmptySet
  <2> QED
    BY <2>1 DEF OneModel
<1>2. CASE holders # {}
  <2>1. PICK e \in Engines : engine[e].child # None
    BY <1>2
  <2>2. holders = {e}
    BY <2>1 DEF OneChild
  <2>3. Cardinality({e}) = 1
    BY FS_Singleton
  <2> QED
    BY <2>2, <2>3 DEF OneModel
<1> QED
  BY <1>1, <1>2

\* The card never holds two models, whatever engines, jobs and models there
\* are and however often engines die, exchanges fail or the server restarts.
THEOREM OneModelOnCard == Spec => []OneModel
<1>1. IInv => OneModel
  BY OneChildIsOneModel DEF IInv
<1> QED
  BY <1>1, Inductive, PTL

\* No engine runs an attempt whose job does not hold the reservation of the
\* lane, so two engines never generate at once.
OneRun ==
  \A e, f \in Engines :
    engine[e].work \in {"run", "busy"} /\ engine[f].work \in {"run", "busy"}
      => e = f

\* Generations are never concurrent on the card (ADR-0007, ADR-0018): the run
\* of an engine goes with the one reservation there is.
THEOREM OneRunAtATime == Spec => []OneRun
<1>1. IInv => OneRun
  BY DEF IInv, Single, Runs, Reserved, OneRun
<1> QED
  BY <1>1, Inductive, PTL
=============================================================================
