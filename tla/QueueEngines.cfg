SPECIFICATION FairSpec
CONSTANTS
  j1 = j1
  j2 = j2
  e1 = e1
  e2 = e2
  Jobs = {j1, j2}
  Engines = {e1, e2}
  Lane <- AllGpu
  EngineOf <- TwoEngines
  HasOffload <- NoOffload
  Musical <- AllJobs
  MaxAttempts = 1
  Cancellable = {j1}
  Unreliable = {e1, e2}
  Progress <- SilentAttempts
  MaxFaults = 1
INVARIANTS
  OneGpuRun
PROPERTIES
  QueueMoves
  ObservedSettles
CHECK_DEADLOCK FALSE
