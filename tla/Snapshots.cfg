SPECIFICATION FairSpec
CONSTANTS
  s1 = s1
  s2 = s2
  d1 = d1
  t1 = t1
  t2 = t2
  NoFile = NoFile
  Songs = {s1, s2}
  Shared = {d1}
  Threads = {t1, t2}
  Main = t1
  MaxCommits = 3
  MaxFaults = 2
INVARIANTS
  CleanIsCurrent
PROPERTIES
  NeverOlder
  Settles
CHECK_DEADLOCK FALSE
