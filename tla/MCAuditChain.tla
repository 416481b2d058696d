---------------------------- MODULE MCAuditChain ----------------------------
EXTENDS AuditChain, TLC

Symmetry == Permutations(Sessions) \cup Permutations(Facts)
=============================================================================
