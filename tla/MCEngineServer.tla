-------------------------- MODULE MCEngineServer ---------------------------
EXTENDS EngineServer, TLC
CONSTANTS a1, a2, m1, m2
OneModel == [i \in Ids |-> m1]
\* Every attempt asks for m1: they differ in name only.
Alike == Permutations(Ids)
=============================================================================
