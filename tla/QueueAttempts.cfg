SPECIFICATION Spec
CONSTANTS
  j1 = j1
  j2 = j2
  e1 = e1
  e2 = e2
  Jobs = {j1}
  Engines = {e1}
  Lane <- AllGpu
  EngineOf <- OneEngine
  HasOffload <- AllOffload
  Musical <- AllJobs
  MaxAttempts = 3
  Cancellable = {j1}
  Unreliable = {e1}
  Progress <- FirstAndLast
  MaxFaults = 1
INVARIANTS
  JobFollowsAttempt
  TakesFollowJob
  SentWithProvenance
  OffloadTransition
  CursorBehindEngine
PROPERTIES
  OutputKept
CHECK_DEADLOCK FALSE
