---------------------------- MODULE MCAgentTeam ----------------------------
EXTENDS AgentTeam, TLC

CONSTANTS f1, f2, asker, controller, cfo, d1, d2

MCFigures == {f1, f2}
MCUsers == {asker, controller, cfo}
MCRequests == {d1, d2}
MCRunOf == <<"run1", "run2">>
MCProposals == {"run1", "run2"}

(* The asker could decide for others; the other two are alike.             *)
Symmetry == Permutations(MCFigures) \cup Permutations({controller, cfo}) \cup Permutations(MCRequests)
=============================================================================
