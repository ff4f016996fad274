SPECIFICATION FairSpec
CONSTANTS
  j1 = j1
  j2 = j2
  Jobs = {j1, j2}
  Known = {j1}
  Last <- LongAndShort
  Capacity = 1
  PendingMax = 1
  Tries = 2
  MaxFaults = 2
INVARIANTS
  ReaderAgrees
  ViewIsCurrent
PROPERTIES
  NeverBack
  EndIsSeen
CHECK_DEADLOCK FALSE
