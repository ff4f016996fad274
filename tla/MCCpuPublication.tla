------------------------- MODULE MCCpuPublication ---------------------------
EXTENDS CpuPublication
CONSTANTS p1, t1, t2
OnePost == [p \in Posts |-> Takes]
=============================================================================
