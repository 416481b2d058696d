----------------------------- MODULE MCDirtySet -----------------------------
EXTENDS DirtySet, TLC

(* One batch of a partition is short, and one is full with nothing after   *)
(* it.  The months of one scenario are cut apart; once the edge is cut,    *)
(* fewer lines are moved and they fit one partition.                       *)
MCLines == 1 .. 4
MCCellOf == << <<"stretch", "feb">>, <<"base", "jan">>, <<"stretch", "feb">>, <<"stretch", "jan">> >>
MCAccountOf == <<"51000", "41000", "41000", "51000">>
MCScenarios == <<"base", "stretch">>
MCTwice == <<"base", "base", "stretch">>   \* a request that names a scenario twice
MCMonths == <<"jan", "feb">>

MCBindings ==
  {[driver |-> "heads", account |-> "51000", target |-> "quantity"],
   [driver |-> "billable", account |-> "51000", target |-> "quantity"],
   [driver |-> "hours", account |-> "41000", target |-> "quantity"]}

(* The library as seeded, in small, and after an edit that cuts an edge.   *)
Seeded == [heads |-> {}, utilisation |-> {}, hours |-> {"heads"},
           billable |-> {"hours", "utilisation"}]
MCDags == {Seeded, [Seeded EXCEPT !.hours = {}]}

ThreadSymmetry == Permutations(Threads)
=============================================================================
