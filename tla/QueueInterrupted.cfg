SPECIFICATION FairSpec
CONSTANTS
  j1 = j1
  j2 = j2
  e1 = e1
  e2 = e2
  Jobs = {j1}
  Engines = {e1}
  Lane <- AllGpu
  EngineOf <- OneEngine
  HasOffload <- AllOffload
  Musical <- AllJobs
  MaxAttempts = 1
  Cancellable = {}
  Unreliable = {}
  Progress <- SilentAttempts
  MaxFaults = 1
PROPERTIES
  InterruptedSettles
CHECK_DEADLOCK FALSE
