--------------------------- MODULE EngineContract ---------------------------
(***************************************************************************)
(* What a generation engine promises the server through /v1 (apps/engines/ *)
(* common): how an attempt it was asked for advances, and what is left on  *)
(* disk.  JobQueue drives engines that keep this contract; EngineServer,   *)
(* the engine's own handlers and threads, is shown to keep it.             *)
(***************************************************************************)
EXTENDS Naturals

CONSTANTS
  Attempts,  \* every attempt an engine may be asked to run
  Home,      \* Home[a]: the engine that a is sent to
  Progress   \* bound, Progress[a]: non-terminal events of a

VARIABLES
  remote,    \* what the engine process knows of each attempt
  output     \* attempts whose directory tmp/<attempt> exists

engineVars == <<remote, output>>

-----------------------------------------------------------------------------
\* What a terminal event says: done, cancelled, or an error that is final or
\* retryable, with code VRAM_EXCEEDED ("vram") or another one.
Terminal == {"done", "cancelled", "fatal", "retryable", "vram"}

Remote == [state: {"absent", "validating", "loading", "busy", "sealing",
                   "closing", "ended", "jammed"},
           seq: Nat, terminal: Terminal \cup {"none"}, cancel: BOOLEAN]

Unknown == [state |-> "absent", seq |-> 0, terminal |-> "none",
            cancel |-> FALSE]

EngineTypeOK == remote \in [Attempts -> Remote] /\ output \in SUBSET Attempts

EngineInit == /\ remote = [a \in Attempts |-> Unknown]
              /\ output = {}

-----------------------------------------------------------------------------
\* A thread of the engine runs the attempt.
Running(a) == remote[a].state \in {"loading", "busy", "sealing"}

\* The run is over, or will not go on.
Over(a) == remote[a].state \in {"closing", "ended", "jammed"}

\* The terminal event is there to be read.
HasTerminal(a) == remote[a].terminal # "none"

\* It is not, and never will be.
Mute(a) == Over(a) /\ ~HasTerminal(a)

\* The status request knows an attempt only once it is registered.
Known(a) == Running(a) \/ Over(a)

\* Health: a run that has not finished, a POST being validated, or nothing.
Idle(e) ==
  ~ \E a \in Attempts : /\ Home[a] = e
                        /\ remote[a].state \notin {"absent", "ended"}

\* An idle engine takes a POST.  While it validates the request, the attempt
\* is not registered, but the engine is no longer idle.
Accept(a) ==
  /\ remote[a].state = "absent"
  /\ Idle(Home[a])
  /\ remote' = [remote EXCEPT ![a].state = "validating"]
  /\ UNCHANGED output

\* The request is valid: the attempt exists, its thread loads the model.
Register(a) ==
  /\ remote[a].state = "validating"
  /\ remote' = [remote EXCEPT ![a].state = "loading"]
  /\ UNCHANGED output

\* The request is invalid.
Reject(a) ==
  /\ remote[a].state = "validating"
  /\ remote' = [remote EXCEPT ![a] = Unknown]
  /\ UNCHANGED output

\* The model is loaded; the run creates its directory and starts to generate.
Start(a) ==
  /\ remote[a].state = "loading"
  /\ remote' = [remote EXCEPT ![a].state = "busy"]
  /\ output' = output \cup {a}

Emit(a) ==
  /\ Running(a)
  /\ remote[a].seq < Progress[a]
  /\ remote' = [remote EXCEPT ![a].seq = @ + 1]
  /\ UNCHANGED output

\* The result arrived and was not cancelled: artifacts are hashed before done.
Seal(a) ==
  /\ remote[a].state = "busy"
  /\ ~remote[a].cancel
  /\ remote' = [remote EXCEPT ![a].state = "sealing"]
  /\ UNCHANGED output

\* Somebody asked to cancel it, or an earlier attempt that was abandoned: the
\* command reaches whoever runs.
Meant(a) == \/ remote[a].cancel
            \/ \E b \in Attempts : /\ Home[b] = Home[a]
                                   /\ remote[b].state = "ended"
                                   /\ ~HasTerminal(b)
                                   /\ remote[b].cancel

MayEnd(a, t) ==
  CASE t = "done"      -> remote[a].state = "sealing"
    [] t = "cancelled" -> remote[a].state # "sealing" /\ Meant(a)
    [] OTHER           -> TRUE

\* The terminal event, the last one of the attempt.
End(a, t) ==
  /\ Running(a)
  /\ MayEnd(a, t)
  /\ remote' = [remote EXCEPT ![a].state = "closing", ![a].terminal = t,
                              ![a].seq = @ + 1]
  /\ UNCHANGED output

\* The thread ends; it leaves the directory of a success only.
Finish(a) ==
  /\ remote[a].state = "closing"
  /\ remote' = [remote EXCEPT ![a].state = "ended"]
  /\ output' = IF remote[a].terminal = "done" THEN output ELSE output \ {a}

\* The child could not be unloaded: the thread ends without a terminal event.
Abandon(a) ==
  /\ Running(a)
  /\ remote' = [remote EXCEPT ![a].state = "ended"]
  /\ output' = output \ {a}

\* The directory could not be removed: the thread is gone, with or without a
\* terminal event, and the engine is busy until it is restarted.
Jam(a) ==
  /\ Running(a) \/ remote[a].state = "closing"
  /\ remote[a].terminal # "done"
  /\ a \in output
  /\ remote' = [remote EXCEPT ![a].state = "jammed"]
  /\ output' \in {output, output \ {a}}

\* DELETE of an attempt the engine knows.
Cancel(a) ==
  /\ Known(a)
  /\ remote' = IF HasTerminal(a) THEN remote
               ELSE [remote EXCEPT ![a].cancel = TRUE]
  /\ UNCHANGED output

\* The process dies and restarts: it forgets its attempts.  An orderly stop
\* also cleans the running attempt.
Crash(e) ==
  LET mine == {a \in Attempts : Home[a] = e}
  IN  /\ remote' = [a \in Attempts |-> IF a \in mine THEN Unknown
                                       ELSE remote[a]]
      /\ \/ output' = output
         \/ output' = output \ {a \in mine : Running(a)}

\* What the engine does with an attempt once it was asked for.
Advance(a) == \/ Register(a) \/ Reject(a) \/ Start(a) \/ Emit(a) \/ Seal(a)
              \/ \E t \in Terminal : End(a, t)
              \/ Finish(a)

EngineNext == \/ \E a \in Attempts : Accept(a) \/ Advance(a) \/ Cancel(a)
                                      \/ Abandon(a) \/ Jam(a)
              \/ \E a \in Attempts : Crash(Home[a])

\* Whatever was accepted advances until its run has finished or is jammed.
EngineFairness == \A a \in Attempts : WF_engineVars(Advance(a))

EngineSpec == EngineInit /\ [][EngineNext]_engineVars
FairEngineSpec == EngineSpec /\ EngineFairness
=============================================================================
