SPECIFICATION FairSubscription
CONSTANTS
  Size = 2
  Replayable = 2
  Records = 5
INVARIANTS
  NoLostWakeup
PROPERTIES
  KeepsMailbox
  ReaderEnds
CHECK_DEADLOCK FALSE
