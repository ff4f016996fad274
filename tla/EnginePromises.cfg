SPECIFICATION FairSpec
CONSTANTS
  a1 = a1
  a2 = a2
  m1 = m1
  m2 = m2
  Nothing = Nothing
  Ids = {a1}
  Models = {m1, m2}
  ModelOf <- OneModel
  Readers = {a1}
  Events = 1
  MaxFaults = 1
INVARIANTS
  StreamComplete
PROPERTIES
  RunEnds
CHECK_DEADLOCK FALSE
