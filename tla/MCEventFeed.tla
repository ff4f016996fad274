---------------------------- MODULE MCEventFeed -----------------------------
EXTENDS EventFeed
CONSTANTS j1, j2
LongAndShort == [j \in Jobs |-> IF j = j1 THEN 3 ELSE 1]
=============================================================================
