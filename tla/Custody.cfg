SPECIFICATION FairSpec
CONSTANTS
  Takes = 2
  Capacity = 1
  MaxFaults = 2
INVARIANTS
  ReleaseIsSafe
  LossHasCause
PROPERTIES
  NothingSurvives
  OwnerEnds
CHECK_DEADLOCK FALSE
