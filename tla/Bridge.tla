------------------------------- MODULE Bridge -------------------------------
(***************************************************************************)
(* The variance bridge (src/src/fpa_project/dsl/bridge.py): a gap between  *)
(* plan and actual split into legs at every node of a rollup, and the      *)
(* change of that gap between two closes.  A line is a record: its key and *)
(* path, whether it is a cost, quantity (pq, aq), unit price (pp, ap) and  *)
(* FX rate (pf, af) on both sides, and the stored amounts (plan, actual),  *)
(* which are rounded to the cent.  Money is counted in half cents; a       *)
(* node's legs are counted in 1/Scale of that, because an average price is *)
(* a quotient, and Scale is a multiple of every quantity it divides by.    *)
(***************************************************************************)
EXTENDS Integers, FiniteSets, Sequences, SequencesExt

CONSTANT Scale

ASSUME ScaleAssumption == Scale \in Nat \ {0}

Conventions == {"volume_first", "price_first"}

(* Half up, to the cent: how the cube stored an amount. *)
StoredAmount(halfCents) == 2 * ((halfCents + 1) \div 2)

Absolute(n) == IF n < 0 THEN -n ELSE n

(***************************************************************************)
(* The legs of one line, at the plan's rate except fx.                     *)
(***************************************************************************)
Sign(line, margin) == IF margin /\ line.cost THEN -1 ELSE 1

PlanUsd(line, margin) == Sign(line, margin) * line.plan * line.pf
ActualUsd(line, margin) == Sign(line, margin) * line.actual * line.af
\* mutant: the fx leg on the planned amount
FxLegOnPlan(line, margin) == Sign(line, margin) * line.plan * (line.af - line.pf)

FxLeg(line, margin) == Sign(line, margin) * line.actual * (line.af - line.pf)

PriceLeg(line, margin, convention) ==
  Sign(line, margin) * (line.ap - line.pp) * line.pf
    * (IF convention = "volume_first" THEN line.aq ELSE line.pq)

(* The price mix averages, and the quantity effect at it. *)
MixPrice(line, convention) == line.pf * (IF convention = "volume_first" THEN line.pp ELSE line.ap)

QuantityLeg(line, margin, convention) ==
  Sign(line, margin) * (line.aq - line.pq) * MixPrice(line, convention)

Margin(lines) == {line.cost : line \in lines} = BOOLEAN

Revenue(lines) == {line \in lines : ~line.cost}
Costs(lines)   == {line \in lines : line.cost}

DeltaQuantity(lines) == SumFunction([line \in lines |-> line.aq - line.pq])

(* Zero planned quantity has no average price; zero keeps the leg explicit. *)
AveragePlanPrice(lines, convention) ==
  LET planned == SumFunction([line \in lines |-> line.pq])
  IN IF planned = 0 THEN 0
     ELSE (Scale * SumFunction([line \in lines |-> line.pq * MixPrice(line, convention)])) \div planned

(***************************************************************************)
(* The rollup: a node for every prefix of the lines' paths, of at most     *)
(* depth values, each with the lines under it.                             *)
(***************************************************************************)
Cut(path, n) == SubSeq(path, 1, n)

Nodes(lines, depth) == {Cut(line.path, n) : line \in lines, n \in 0 .. depth}

Under(lines, path) == {line \in lines : Cut(line.path, Len(path)) = path}

Children(lines, path) == {Cut(line.path, Len(path) + 1) : line \in Under(lines, path)}

MixAround(average, lines, path, depth, convention) ==
  LET child(c) == Revenue(Under(lines, c))
  IN IF Len(path) < depth
     THEN SumFunction([c \in Children(lines, path) |->
            DeltaQuantity(child(c)) * (AveragePlanPrice(child(c), convention) - average)])
     ELSE SumFunction([line \in child(path) |->
            (line.aq - line.pq) * (Scale * MixPrice(line, convention) - average)])

MixBetween(lines, path, depth, convention) ==
  MixAround(AveragePlanPrice(Revenue(Under(lines, path)), convention), lines, path, depth, convention)

Gap(node) == node.actual - node.plan
Mix(node) == node.mixBetween + node.mixWithin
Explained(node) == node.price + node.volume + Mix(node) + node.fx + node.rate + node.efficiency
Residual(node) == Gap(node) - Explained(node)

(* A node over its own lines.  What volume and mix left unplaced of the    *)
(* quantity variance is folded into the mix within.                        *)
Assembled(own, margin, convention, volume, between, children, unplaced) ==
  [plan   |-> Scale * SumFunction([line \in own |-> PlanUsd(line, margin)]),
   actual |-> Scale * SumFunction([line \in own |-> ActualUsd(line, margin)]),
   price  |-> Scale * SumFunction([line \in Revenue(own) |-> PriceLeg(line, margin, convention)]),
   rate   |-> Scale * SumFunction([line \in Costs(own) |-> PriceLeg(line, margin, convention)]),
   efficiency |-> Scale * SumFunction([line \in Costs(own) |-> QuantityLeg(line, margin, convention)]),
   fx     |-> Scale * SumFunction([line \in own |-> FxLeg(line, margin)]),
   volume |-> volume,
   mixBetween |-> between,
   mixWithin  |-> children + unplaced,
   folded |-> unplaced,
   count  |-> Cardinality(own)]

Completed(own, margin, convention, volume, between, children) ==
  Assembled(own, margin, convention, volume, between, children,
    Scale * SumFunction([line \in Revenue(own) |-> QuantityLeg(line, margin, convention)])
      - (volume + between + children))

(* The node at a path of a tree, which already has the nodes below it.     *)
Node(lines, path, depth, convention, tree) ==
  LET own == Under(lines, path)
  IN Completed(own, Margin(lines), convention,
       DeltaQuantity(Revenue(own)) * AveragePlanPrice(Revenue(own), convention),
       MixBetween(lines, path, depth, convention),
       IF Len(path) < depth /\ Revenue(own) # {}
         THEN SumFunction([c \in Children(lines, path) |-> Mix(tree[c])]) ELSE 0)

Decompose(lines, depth, convention) ==
  LET tree[path \in Nodes(lines, depth)] == Node(lines, path, depth, convention, tree) IN tree

Cent == 2 * Scale
Tolerance(node) == IF node.count > 100 THEN Cent * node.count ELSE 100 * Cent

(***************************************************************************)
(* A node as its row is stored: the amounts and legs rounded to the cent,  *)
(* half to even, and the residual recomputed from the rounded ones.        *)
(***************************************************************************)
Rounded(amount) ==
  LET cents == amount \div Cent
      over  == 2 * (amount % Cent)
  IN Cent * (IF over > Cent \/ (over = Cent /\ cents % 2 = 1) THEN cents + 1 ELSE cents)

StoredResidual(node) ==
  (Rounded(node.actual) - Rounded(node.plan))
    - (Rounded(node.price) + Rounded(node.volume) + Rounded(Mix(node))
         + Rounded(node.fx) + Rounded(node.rate) + Rounded(node.efficiency))

(* ck_variance_report_line_ties, which refuses the report it fails for. *)
TiesWhenStored(node) == Absolute(StoredResidual(node)) < Tolerance(node)

(***************************************************************************)
(* The change of a gap between two reads of one cut.  Each key is restated *)
(* (on both sides), reversed (left only) or new (right only).              *)
(***************************************************************************)
\* mutant: the change of a gap measured at the plan's rate
LineGapConstant(line, margin) == Sign(line, margin) * line.pf * (line.actual - line.plan)

LineGap(line, margin) == ActualUsd(line, margin) - PlanUsd(line, margin)

VintageDelta(left, right, path) ==
  LET margin == Margin(left \cup right)
      before == Under(left, path)
      after  == Under(right, path)
      gap(lines) == SumFunction([line \in lines |-> LineGap(line, margin)])
      keys(lines) == {line.key : line \in lines}
      in(lines, ks) == {line \in lines : line.key \in ks}
      both == keys(before) \cap keys(after)
  IN [leftGap  |-> gap(before),
      rightGap |-> gap(after),
      restated |-> gap(in(after, both)) - gap(in(before, both)),
      reversed |-> -gap(in(before, keys(before) \ both)),
      new      |-> gap(in(after, keys(after) \ both))]
=============================================================================
