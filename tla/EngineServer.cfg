SPECIFICATION Spec
CONSTANTS
  a1 = a1
  a2 = a2
  m1 = m1
  m2 = m2
  Nothing = Nothing
  Ids = {a1, a2}
  Models = {m1, m2}
  ModelOf <- OneModel
  Readers = {}
  Events = 1
  MaxFaults = 1
SYMMETRY Alike
INVARIANTS
  ChildServesRun
PROPERTIES
  KeepsContract
CHECK_DEADLOCK FALSE
