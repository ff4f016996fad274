SPECIFICATION FairSpec
CONSTANTS
  p1 = p1
  t1 = t1
  t2 = t2
  Posts = {p1}
  Takes = {t1, t2}
  TakesOf <- OnePost
  Slots = 1
  MaxCrashes = 2
  MaxFaults = 2
INVARIANTS
  Recoverable
  PublishedIsWhole
  OneGroup
  OutcomeIsWhole
PROPERTIES
  KeepsLedger
  PostEnds
  CancelSettles
CHECK_DEADLOCK FALSE
