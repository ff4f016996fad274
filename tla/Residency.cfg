SPECIFICATION FairSpec
CONSTANTS
  j1 = j1
  j2 = j2
  j3 = j3
  e1 = e1
  e2 = e2
  m1 = m1
  m2 = m2
  m1off = m1off
  None = None
  Jobs = {j1, j2, j3}
  Engines = {e1, e2}
  Models = {m1, m2, m1off}
  EngineOf <- TwoEngines
  ModelOf <- TwoModels
  OffloadOf <- FirstOffloads
  MaxAttempts = 2
  MaxFaults = 3
INVARIANTS
  OneModel
PROPERTIES
  WaitsOnlyAstray
CHECK_DEADLOCK FALSE
