SPECIFICATION Spec
CONSTANTS
  r1 = r1
  r2 = r2
  v1 = v1
  v2 = v2
  Variants = {v1, v2}
  Size = 3
  Fresh = {1}
  MaxAttempts = 2
  Requests = {r1, r2}
  MaxEdits = 1
  MaxFaults = 1
INVARIANTS
  OneClaim
  DependentsFollow
  NothingStranded
  NoneWaits
SYMMETRY Symmetry
CHECK_DEADLOCK FALSE
