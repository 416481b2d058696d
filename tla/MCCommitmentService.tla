------------------------ MODULE MCCommitmentService ------------------------
EXTENDS CommitmentService, TLC

Symmetry == Permutations(Requests) \cup Permutations(Ids) \cup Permutations(Keys)
=============================================================================
