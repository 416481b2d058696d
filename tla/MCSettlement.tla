---------------------------- MODULE MCSettlement ----------------------------
EXTENDS Settlement, TLC

Symmetry == Permutations(Drivers) \cup Permutations(Values)
=============================================================================
