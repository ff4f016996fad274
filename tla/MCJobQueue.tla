---------------------------- MODULE MCJobQueue ------------------------------
EXTENDS JobQueue
CONSTANTS j1, j2, e1, e2
AllGpu == [j \in Jobs |-> "gpu"]
OneEngine == [j \in Jobs |-> e1]
TwoEngines == [j \in Jobs |-> IF j = j1 THEN e1 ELSE e2]
AllJobs == Jobs
NoOffload == [j \in Jobs |-> FALSE]
AllOffload == [j \in Jobs |-> TRUE]
SilentAttempts == [a \in Attempts |-> 0]
\* An event before the terminal one, of an attempt that may be retried and of
\* the last one.
FirstAndLast == [a \in Attempts |-> IF a[2] \in {1, MaxAttempts} THEN 1 ELSE 0]
=============================================================================
