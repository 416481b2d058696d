------------------------------- MODULE Engine -------------------------------
(***************************************************************************)
(* The recompute arithmetic that decides which lines a shock moves, by     *)
(* what, and how they are cut into partitions (recompute/engine.py).       *)
(*                                                                         *)
(* A dag maps a driver to the drivers it depends on.  Ratios are kept as   *)
(* monomials: how often each shock's to/from is multiplied in.  A factor   *)
(* 1 + elasticity * (ratio - 1) is known by its binding and its ratio, and *)
(* an account's multiplier by the set of the factors that compose it.      *)
(***************************************************************************)
EXTENDS Naturals, Sequences, FiniteSets

Children(dag, S) == {c \in DOMAIN dag : dag[c] \cap S # {}}

(* Everything downstream, breadth first; a driver is queued once.          *)
DirectOnly(dag, driver) ==      \* mutant: the walk stops after one level
  Children(dag, {driver})

Dependents(dag, driver) ==
  LET seen[n \in 0 .. Cardinality(DOMAIN dag)] ==
        IF n = 0 THEN {} ELSE LET S == seen[n - 1] IN S \cup Children(dag, S \cup {driver})
  IN  seen[Cardinality(DOMAIN dag)]

DirtyDrivers(dag, shocks) ==
  LET stale == shocks \cup UNION {Dependents(dag, s) : s \in shocks}
  IN  [d \in stale |->
         [s \in shocks |-> (IF d = s THEN 1 ELSE 0)
                         + (IF d \in Dependents(dag, s) THEN 1 ELSE 0)]]

(* One entry per account a stale driver is bound to.                       *)
AccountFactors(ratios, bindings) ==
  LET matched == {b \in bindings : b.driver \in DOMAIN ratios}
  IN  [account \in {b.account : b \in matched} |->
         {[target |-> b.target, driver |-> b.driver, ratio |-> ratios[b.driver]] :
             b \in {m \in matched : m.account = account}}]

AffectedAccounts(factors) == DOMAIN factors

(* The numbers a line gets: they depend on its account's factors only.     *)
RecomputeLine(factors, account) == factors[account]

(***************************************************************************)
(* Cells are (scenario, month) pairs.  A partition takes months of one     *)
(* scenario until the next would carry it past the target.                 *)
(***************************************************************************)
Close(cut) ==
  IF cut.cells = {} THEN cut.plan
  ELSE Append(cut.plan, [cells |-> cut.cells, rows |-> cut.rows])

AddCell(cut, cell, rows, target) ==
  IF rows = 0 THEN cut
  ELSE IF cut.cells # {} /\ cut.rows + rows > target
       THEN [plan |-> Close(cut), cells |-> {cell}, rows |-> rows]
       ELSE [cut EXCEPT !.cells = @ \cup {cell}, !.rows = @ + rows]

NothingCut == [plan |-> << >>, cells |-> {}, rows |-> 0]

Cut(scenario, months, counts, target) ==
  LET cut[j \in 0 .. Len(months)] ==
        IF j = 0 THEN NothingCut
        ELSE AddCell(cut[j - 1], <<scenario, months[j]>>, counts[<<scenario, months[j]>>], target)
  IN  cut[Len(months)]

DropsTheLast(scenarios, months, counts, target) ==   \* mutant: the open partition is not appended
  LET plan[i \in 0 .. Len(scenarios)] ==
        IF i = 0 THEN << >> ELSE plan[i - 1] \o Cut(scenarios[i], months, counts, target).plan
  IN  plan[Len(scenarios)]

PartitionPlan(scenarios, months, counts, target) ==
  LET plan[i \in 0 .. Len(scenarios)] ==
        IF i = 0 THEN << >> ELSE plan[i - 1] \o Close(Cut(scenarios[i], months, counts, target))
  IN  plan[Len(scenarios)]
=============================================================================
