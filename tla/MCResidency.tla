----------------------------- MODULE MCResidency -----------------------------
EXTENDS Residency
CONSTANTS j1, j2, j3, e1, e2, m1, m2, m1off
\* j1 has an offload mode on e1, where j3 wants the model it starts with; j2
\* wants a model of the other engine.
TwoEngines == [j \in Jobs |-> IF j = j2 THEN e2 ELSE e1]
TwoModels == [j \in Jobs |-> IF j = j2 THEN m2 ELSE m1]
FirstOffloads == [j \in Jobs |-> IF j = j1 THEN m1off ELSE None]
=============================================================================
