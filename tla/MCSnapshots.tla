----------------------------- MODULE MCSnapshots -----------------------------
EXTENDS Snapshots
CONSTANTS s1, s2, d1, t1, t2
=============================================================================
