--------------------------- MODULE MCDriverLibrary ---------------------------
EXTENDS DriverLibrary, TLC

MCMetrics == [revenue |-> [kind |-> "additive", available |-> TRUE],
              margin  |-> [kind |-> "ratio", available |-> TRUE]]
MCUpperCase == [prior |-> "PRIOR"]
MCRoles == [controller |-> {"controller"}, planner |-> {"planner"}]
MCUsers == DOMAIN MCRoles
MCCodes == {"heads", "hours", "rate"}
MCSeeded == [heads |-> <<"PRIOR", "(", "heads", ",", "1", ")", "*", "2">>,
             hours |-> <<"heads", "*", "2">>]

(* Nested calls, a loop through two others, one cut by a lag, an offset    *)
(* that is a name, and what must be refused: a ratio summed, no operand.   *)
MCFormulas ==
  {<<"rate", "^", "-", "(", "revenue", "+", "1", ")">>,
   <<"prior", "(", "SUM", "(", "hours", ")", "*", "rate", ",", "heads", ")", "-", "revenue">>,
   <<"heads", "/", "hours">>,
   <<"SUM", "(", "margin", ")">>,
   <<"heads", "*", "(">>}

(* A map that leaves a driver out, and one that gives another formula.     *)
MCLibraries == {[heads |-> MCSeeded.heads], [heads |-> MCSeeded.hours, hours |-> <<"1">>]}
=============================================================================
