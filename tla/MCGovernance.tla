---------------------------- MODULE MCGovernance ----------------------------
EXTENDS Governance, TLC

CONSTANTS planner, cfo

\* Two of the seeded users.
SeededRoles == [u \in {planner, cfo} |->
  IF u = planner THEN {"planner"} ELSE {"controller", "cfo"}]

Symmetry == Permutations(Sessions)
=============================================================================
