------------------------- MODULE ComputePhaseProofs -------------------------
(***************************************************************************)
(* Proofs about one recompute run up to the gate, for any set of drivers,  *)
(* any number of partitions, any concurrency bound and any cap.            *)
(***************************************************************************)
EXTENDS ComputePhase, FiniteSetTheorems, TLAPS

(***************************************************************************)
(* How far a batch reaches: not past the dirty set, not past what the cap  *)
(* leaves, not past the concurrency bound.                                 *)
(***************************************************************************)
BatchInBounds ==
  /\ Cap > 0 => thisRun <= Cap
  /\ pc = "running" =>
       /\ running \subseteq (done + 1) .. (done + width)
       /\ done + width <= total /\ width <= MaxConcurrent
       /\ Cap > 0 => thisRun + width <= Cap

Inv == TypeOK /\ BatchInBounds

----------------------------------------------------------------------------
(* The dirty set is cut into at most what all drivers come to.             *)
LEMMA AllPartitionsType == AllPartitions \in Nat
BY ComputeAssumption, FS_CardinalityType DEF AllPartitions

LEMMA PartitionsBounded ==
  ASSUME NEW s \in Shocks
  PROVE  Partitions(s) \in 0 .. AllPartitions
<1> DEFINE dirty == Moved(s) \ Unbound
<1>1. dirty \subseteq Drivers
  BY DEF Moved
<1>2. IsFiniteSet(dirty) /\ Cardinality(dirty) <= Cardinality(Drivers)
  BY <1>1, ComputeAssumption, FS_Subset
<1>3. Cardinality(dirty) \in Nat /\ Cardinality(Drivers) \in Nat /\ PerDriver \in Nat
  BY <1>2, ComputeAssumption, FS_CardinalityType
<1>4. \A p, a, b \in Nat : a <= b => p * a \in Nat /\ p * b \in Nat /\ p * a <= p * b
  OBVIOUS
<1>5. Partitions(s) = PerDriver * Cardinality(dirty)
  BY DEF Partitions
<1> HIDE DEF dirty
<1> QED
  BY <1>2, <1>3, <1>4, <1>5 DEF AllPartitions

(* The least n of an interval are its first n.                             *)
LEMMA LeastOfInterval ==
  ASSUME NEW a \in Nat, NEW b \in Nat, NEW n \in Nat
  PROVE  LET first == Least((a + 1) .. b, n)
         IN /\ first \subseteq (a + 1) .. (a + Cardinality(first))
            /\ (a + 1) .. (a + Cardinality(first)) \subseteq first
            /\ Cardinality(first) \in Nat /\ Cardinality(first) <= n
            /\ a <= b => a + Cardinality(first) <= b
            /\ b <= a => first = {}
<1> DEFINE S == (a + 1) .. b
<1> DEFINE w == IF b <= a THEN 0 ELSE IF b - a < n THEN b - a ELSE n
<1>1. w \in Nat /\ w <= n /\ (a <= b => a + w <= b) /\ (b <= a => w = 0)
  OBVIOUS
<1>2. \A c \in S : Cardinality({d \in S : d < c}) = c - 1 - a
  <2> SUFFICES ASSUME NEW c \in S PROVE Cardinality({d \in S : d < c}) = c - 1 - a
    OBVIOUS
  <2>1. c \in Int /\ a + 1 <= c /\ c <= b
    OBVIOUS
  <2>2. {d \in S : d < c} = (a + 1) .. (c - 1)
    <3>1. \A d : d \in {e \in S : e < c} <=> d \in (a + 1) .. (c - 1)
      BY <2>1
    <3> QED
      BY <3>1
  <2>3. Cardinality((a + 1) .. (c - 1)) = IF a + 1 > c - 1 THEN 0 ELSE (c - 1) - (a + 1) + 1
    BY <2>1, FS_Interval
  <2>4. Cardinality((a + 1) .. (c - 1)) = c - 1 - a
    BY <2>1, <2>3
  <2> HIDE DEF S
  <2> QED
    BY <2>2, <2>4
<1>3. Least(S, n) = (a + 1) .. (a + w)
  <2>1. Least(S, n) = {c \in S : c - 1 - a < n}
    BY <1>2 DEF Least
  <2>2. \A c : c \in {e \in S : e - 1 - a < n} <=> c \in (a + 1) .. (a + w)
    BY <1>1
  <2> QED
    BY <2>1, <2>2
<1>4. Cardinality((a + 1) .. (a + w)) = w
  <2>1. Cardinality((a + 1) .. (a + w)) = IF a + 1 > a + w THEN 0 ELSE (a + w) - (a + 1) + 1
    BY <1>1, FS_Interval
  <2> QED
    BY <2>1, <1>1
<1> HIDE DEF w
<1> QED
  BY <1>1, <1>3, <1>4

----------------------------------------------------------------------------
LEMMA InvInit == Init => Inv
<1> SUFFICES ASSUME Init PROVE Inv
  OBVIOUS
<1>1. \A D \in SUBSET Drivers : Ask(D) \in Shocks
  BY DEF Ask, Shocks
<1>2. Nothing \in Shocks /\ AllPartitions \in Nat
  BY AllPartitionsType DEF Nothing, Shocks
<1>3. input \in Shocks /\ told \subseteq Drivers /\ published \subseteq Drivers
  BY <1>1, ComputeAssumption DEF Init
<1>4. total \in 0 .. AllPartitions /\ staged \in [Shocks -> SUBSET (Cells \X Shocks)]
  BY <1>2 DEF Init
<1>5. TypeOK
  BY <1>2, <1>3, <1>4 DEF Init, TypeOK
<1>6. BatchInBounds
  BY ComputeAssumption DEF Init, BatchInBounds
<1> QED
  BY <1>5, <1>6 DEF Inv

(* The handlers touch no bound.                                            *)
LEMMA HandlersKeep ==
  ASSUME Inv, Handlers
  PROVE  Inv'
<1>1. ASSUME NEW d \in Drivers, FoldIn(d) PROVE Inv'
  <2>1. input' \in Shocks
    BY <1>1 DEF FoldIn, Inv, TypeOK, Shocks
  <2> QED
    BY <1>1, <2>1 DEF FoldIn, Inv, TypeOK, BatchInBounds, workVars, restVars, spentVars
<1>2. CASE CancelRun
  BY <1>2 DEF CancelRun, Inv, TypeOK, BatchInBounds, workVars, restVars, spentVars
<1>3. CASE EarlyDecision
  BY <1>3 DEF EarlyDecision, Inv, TypeOK, BatchInBounds, workVars, restVars, spentVars
<1> QED
  BY <1>1, <1>2, <1>3 DEF Handlers

LEMMA ChildrenKeep ==
  ASSUME Inv, NEW c \in running, ChildWrites(c) \/ ChildFails(c)
  PROVE  Inv'
<1>1. CASE ChildWrites(c)
  <2>1. <<c, factors>> \in Cells \X Shocks
    BY DEF Inv, TypeOK
  <2>2. staged' \in [Shocks -> SUBSET (Cells \X Shocks)]
    BY <1>1, <2>1 DEF ChildWrites, Inv, TypeOK
  <2> QED
    BY <1>1, <2>2 DEF ChildWrites, Inv, TypeOK, BatchInBounds, restVars, histVars, spentVars, flagVars
<1>2. CASE ChildFails(c)
  BY <1>2 DEF ChildFails, Inv, TypeOK, BatchInBounds, restVars, histVars, spentVars, flagVars
<1> QED
  BY <1>1, <1>2

LEMMA BatchKeeps ==
  ASSUME Inv, StartBatch
  PROVE  Inv'
<1>1. BatchWidth \in Nat /\ BatchWidth <= MaxConcurrent /\ (Cap > 0 => thisRun + BatchWidth <= Cap)
  BY ComputeAssumption DEF Inv, TypeOK, BatchInBounds, BatchWidth
<1>2. total \in Nat /\ total <= AllPartitions /\ done \in Nat /\ done < total
  <2>1. total \in 0 .. AllPartitions /\ done \in Nat
    BY DEF Inv, TypeOK
  <2>2. ~(done >= total)
    BY DEF StartBatch, StopComputing
  <2> QED
    BY <2>1, <2>2, AllPartitionsType
<1>3. /\ running' \subseteq (done + 1) .. (done + width')
      /\ width' \in Nat /\ width' <= BatchWidth /\ done + width' <= total
  <2> DEFINE first == Least((done + 1) .. total, BatchWidth)
  <2>1. running' = first /\ width' = Cardinality(first)
    BY DEF StartBatch
  <2>2. /\ first \subseteq (done + 1) .. (done + Cardinality(first))
        /\ Cardinality(first) \in Nat /\ Cardinality(first) <= BatchWidth
        /\ done <= total => done + Cardinality(first) <= total
    BY <1>1, <1>2, LeastOfInterval
  <2> HIDE DEF first
  <2> QED
    BY <1>2, <2>1, <2>2
<1>4. running' \subseteq Cells
  <2>1. \A w \in Nat : done + w <= total => (done + 1) .. (done + w) \subseteq 1 .. AllPartitions
    BY <1>2, AllPartitionsType
  <2> QED
    BY <1>3, <2>1 DEF Cells
<1>5. TypeOK'
  BY <1>3, <1>4 DEF StartBatch, Inv, TypeOK, restVars, histVars, spentVars, flagVars
<1>6. BatchInBounds'
  <2>1. thisRun \in Nat /\ MaxConcurrent \in Nat /\ Cap \in Nat
    BY ComputeAssumption DEF Inv, TypeOK
  <2>2. width' <= MaxConcurrent /\ (Cap > 0 => thisRun + width' <= Cap)
    <3>1. \A w, m \in Nat : /\ w <= m /\ m <= MaxConcurrent => w <= MaxConcurrent
                            /\ w <= m /\ thisRun + m <= Cap => thisRun + w <= Cap
      BY <2>1
    <3> QED
      BY <1>1, <1>3, <3>1
  <2>3. (Cap > 0 => thisRun <= Cap) /\ thisRun' = thisRun /\ done' = done /\ total' = total
    BY DEF StartBatch, Inv, BatchInBounds
  <2> QED
    BY <1>3, <2>2, <2>3 DEF BatchInBounds
<1> QED
  BY <1>5, <1>6 DEF Inv

(* A batch starts the next partitions and leaves none of them out.         *)
LEMMA WholeBatch ==
  ASSUME Inv, StartBatch
  PROVE  running' = (done + 1) .. (done + width')
<1>1. BatchWidth \in Nat
  BY ComputeAssumption DEF Inv, TypeOK, BatchInBounds, BatchWidth
<1>2. total \in Nat /\ done \in Nat
  BY AllPartitionsType DEF Inv, TypeOK
<1> DEFINE first == Least((done + 1) .. total, BatchWidth)
<1>3. running' = first /\ width' = Cardinality(first)
  BY DEF StartBatch
<1>4. /\ first \subseteq (done + 1) .. (done + Cardinality(first))
      /\ (done + 1) .. (done + Cardinality(first)) \subseteq first
  BY <1>1, <1>2, LeastOfInterval
<1> HIDE DEF first
<1> QED
  BY <1>3, <1>4

(* Steps that stage nothing and start nothing.                             *)
LEMMA StepsKeep ==
  ASSUME Inv,
         \/ Start \/ Reserve \/ EnsureReserved \/ EnsureSettled \/ Resolve \/ BatchDone
         \/ ContinueAsNew \/ StopBatches \/ FinishEmpty \/ OpenApproval \/ LeavePark \/ ActivityFails
  PROVE  Inv'
<1> USE DEF Inv, TypeOK, BatchInBounds, workVars, flagVars, restVars, histVars, spentVars, End
<1>1. CASE Start
  <2>1. input' \in Shocks /\ Moved(input) \subseteq Drivers
    BY <1>1 DEF Start, MergeShocks, Shocks, Moved
  <2> QED
    BY <1>1, <2>1 DEF Start
<1>2. CASE Reserve \/ EnsureReserved \/ EnsureSettled
  BY <1>2 DEF Reserve, EnsureReserved, EnsureSettled
<1>3. CASE Resolve
  BY <1>3, PartitionsBounded, ComputeAssumption DEF Resolve
<1>4. CASE BatchDone
  BY <1>4 DEF BatchDone
<1>5. CASE ContinueAsNew
  <2>1. Nothing \in Shocks /\ 0 \in 0 .. AllPartitions
    BY AllPartitionsType DEF Nothing, Shocks
  <2>2. resume' \in Nat
    BY <1>5 DEF ContinueAsNew
  <2>3. slips' \subseteq {"saving", "resumed", "settled", "restart", "cancel", "decision"}
    BY <1>5 DEF ContinueAsNew
  <2>4. TypeOK'
    BY <1>5, <2>1, <2>2, <2>3 DEF ContinueAsNew
  <2>5. BatchInBounds'
    BY <1>5, ComputeAssumption DEF ContinueAsNew
  <2> QED
    BY <2>4, <2>5
<1>6. CASE StopBatches \/ FinishEmpty \/ OpenApproval
  BY <1>6 DEF StopBatches, FinishEmpty, OpenApproval
<1>7. CASE LeavePark
  BY <1>7 DEF LeavePark
<1>8. CASE ActivityFails
  BY <1>8 DEF ActivityFails
<1> QED
  BY <1>1, <1>2, <1>3, <1>4, <1>5, <1>6, <1>7, <1>8

(* Steps that discard what a revision has staged.                          *)
LEMMA DiscardsKeep ==
  ASSUME Inv, FailRun \/ Restart \/ Abandon
  PROVE  Inv'
<1>1. staged' \in [Shocks -> SUBSET (Cells \X Shocks)]
  BY DEF Inv, TypeOK, FailRun, Restart, Abandon
<1> QED
  BY <1>1 DEF Inv, TypeOK, BatchInBounds, FailRun, Restart, Abandon, End, flagVars, restVars, histVars, spentVars

LEMMA InvNext == Inv /\ [Next]_vars => Inv'
<1> SUFFICES ASSUME Inv, [Next]_vars PROVE Inv'
  OBVIOUS
<1>1. CASE UNCHANGED vars
  BY <1>1 DEF vars, workVars, flagVars, restVars, histVars, spentVars, Inv, TypeOK, BatchInBounds
<1>2. CASE Children
  BY <1>2, ChildrenKeep DEF Children
<1> QED
  BY <1>1, <1>2, HandlersKeep, BatchKeeps, StepsKeep, DiscardsKeep DEF Next, Workflow

LEMMA InvHolds == Spec => []Inv
BY InvInit, InvNext, PTL DEF Spec

(***************************************************************************)
(* The types of the run, its flags and what it has staged.                 *)
(***************************************************************************)
THEOREM TypeCorrect == Spec => []TypeOK
BY InvHolds, PTL DEF Inv

----------------------------------------------------------------------------
(***************************************************************************)
(* What an execution may have started by the passes behind the one it is   *)
(* in: each but the first was asked for by a shock folded in, and a raised *)
(* flag asks for one that is still to come.                                *)
(***************************************************************************)
Passes == IF restart THEN Cardinality(joined) - 1 ELSE Cardinality(joined)
Behind == Cap * Passes

FlagIsPaid ==
  /\ restart => joined # {}
  /\ joined \subseteq requested
  /\ pc = "discard" => restart
  /\ pc = "starting" => started = 0 /\ joined = {} /\ ~restart

ChildrenArePaid ==
  Cap > 0 =>
    /\ pc \in {"reserve", "ensure", "resolve"} => started <= Behind
    /\ pc = "batch" => started <= Behind + thisRun
    /\ pc = "running" => started <= Behind + thisRun + width
    /\ started <= Behind + Cap

SpentInBounds == FlagIsPaid /\ ChildrenArePaid

LEMMA JoinedIsCounted ==
  ASSUME Inv
  PROVE  IsFiniteSet(joined) /\ Cardinality(joined) \in Nat /\ (joined # {} => Cardinality(joined) >= 1)
<1>1. IsFiniteSet(joined)
  BY ComputeAssumption, FS_Subset DEF Inv, TypeOK
<1> QED
  BY <1>1, FS_CardinalityType, FS_EmptySet

(* One pass more is Cap children more.                                     *)
LEMMA OnePassMore ==
  ASSUME NEW n \in Nat
  PROVE  /\ Cap * n \in Nat /\ Cap * (n + 1) = Cap * n + Cap
         /\ n >= 1 => Cap * (n - 1) \in Nat /\ Cap * n = Cap * (n - 1) + Cap
BY ComputeAssumption

(* Sums of what is behind, of this pass and of its batch.                  *)
LEMMA SumsGrow ==
  /\ \A s, b, c \in Nat : b <= c /\ s <= b => s <= c
  /\ \A s, b, k \in Nat : s <= b => s <= b + k
  /\ \A s, b, c, k \in Nat : b <= c /\ s <= b + k => s <= c + k
  /\ \A s, b, c, k, l \in Nat : b <= c /\ s <= b + k + l => s <= c + k + l
  /\ \A s, b, k, l \in Nat : s <= b + k => s + l <= b + k + l
  /\ \A s, b, k, l, m \in Nat : s <= b + k /\ k + l <= m => s + l <= b + m
OBVIOUS

LEMMA BehindIs ==
  ASSUME Inv, SpentInBounds
  PROVE  /\ Behind \in Nat
         /\ Behind = IF restart THEN Cap * (Cardinality(joined) - 1) ELSE Cap * Cardinality(joined)
         /\ Behind + Cap <= Cap * (1 + Cardinality(joined))
<1> DEFINE n == Cardinality(joined)
<1>1. n \in Nat /\ (restart => n >= 1)
  BY JoinedIsCounted DEF SpentInBounds, FlagIsPaid, ChildrenArePaid
<1>2. Behind = IF restart THEN Cap * (n - 1) ELSE Cap * n
  BY DEF Behind, Passes
<1>3. Cap \in Nat
  BY ComputeAssumption
<1> HIDE DEF n
<1>4. /\ Cap * n \in Nat /\ Cap * (n + 1) = Cap * n + Cap
      /\ n >= 1 => Cap * (n - 1) \in Nat /\ Cap * n = Cap * (n - 1) + Cap
  BY <1>1, OnePassMore
<1>5. 1 + n = n + 1
  BY <1>1
<1>6. Behind \in Nat /\ Behind + Cap <= Cap * (n + 1)
  BY <1>1, <1>2, <1>3, <1>4
<1>7. Behind + Cap <= Cap * (1 + n)
  BY <1>5, <1>6
<1> QED
  BY <1>2, <1>6, <1>7 DEF n

(* A shock folded in raises the flag, and pays for the pass it asks for.   *)
LEMMA FoldInPays ==
  ASSUME Inv, SpentInBounds, NEW d \in Drivers, FoldIn(d)
  PROVE  SpentInBounds'
<1> DEFINE n == Cardinality(joined)
<1>1. /\ restart' /\ joined' = joined \cup {d} /\ started' = started /\ pc' = pc
      /\ requested' = requested \cup {d}
  BY DEF FoldIn
<1>2. thisRun' = thisRun /\ width' = width /\ pc # "starting"
  BY DEF FoldIn, workVars
<1>3. n \in Nat /\ Cardinality(joined') = n + 1
  <2>1. d \notin joined
    BY DEF FoldIn, SpentInBounds, FlagIsPaid
  <2> QED
    BY <1>1, <2>1, JoinedIsCounted, FS_AddElement
<1>4. Behind \in Nat /\ Behind = IF restart THEN Cap * (n - 1) ELSE Cap * n
  BY BehindIs
<1>5. Behind' = Cap * n
  <2>1. Behind' = Cap * (Cardinality(joined') - 1)
    BY <1>1 DEF Behind, Passes
  <2>2. n + 1 - 1 = n
    BY <1>3
  <2> QED
    BY <1>3, <2>1, <2>2
<1>6. Behind' \in Nat /\ Behind <= Behind'
  <2>1. restart => n >= 1
    BY JoinedIsCounted DEF SpentInBounds, FlagIsPaid, ChildrenArePaid
  <2>2. /\ Cap * n \in Nat
        /\ n >= 1 => Cap * (n - 1) \in Nat /\ Cap * n = Cap * (n - 1) + Cap
    BY <1>3, OnePassMore
  <2>3. Cap \in Nat
    BY ComputeAssumption
  <2> HIDE DEF n
  <2> QED
    BY <1>4, <1>5, <2>1, <2>2, <2>3
<1>7. started \in Nat /\ thisRun \in Nat /\ width \in Nat /\ Cap \in Nat
  BY ComputeAssumption DEF Inv, TypeOK
<1>8. FlagIsPaid'
  BY <1>1, <1>2 DEF SpentInBounds, FlagIsPaid
<1>9. ChildrenArePaid'
  <2>1. started' = started /\ pc' = pc /\ thisRun' = thisRun /\ width' = width
    BY <1>1, <1>2
  <2>2. /\ started <= Behind => started <= Behind'
        /\ started <= Behind + thisRun => started <= Behind' + thisRun
        /\ started <= Behind + thisRun + width => started <= Behind' + thisRun + width
        /\ started <= Behind + Cap => started <= Behind' + Cap
    <3>1. Behind \in Nat
      BY <1>4
    <3> QED
      BY <1>6, <1>7, <3>1, SumsGrow, Zenon
  <2> QED
    BY <2>1, <2>2 DEF SpentInBounds, ChildrenArePaid
<1> QED
  BY <1>8, <1>9 DEF SpentInBounds

(* Lowering the flag starts the next pass; what is behind it grows by Cap. *)
LEMMA RestartPays ==
  ASSUME Inv, SpentInBounds, Restart
  PROVE  SpentInBounds'
<1> DEFINE n == Cardinality(joined)
<1>1. /\ restart /\ ~restart' /\ joined' = joined /\ started' = started /\ pc' = "reserve"
      /\ requested' = requested
  BY DEF Restart, SpentInBounds, FlagIsPaid, histVars, spentVars
<1>2. n \in Nat /\ n >= 1
  BY <1>1, JoinedIsCounted DEF SpentInBounds, FlagIsPaid, ChildrenArePaid
<1>3. Behind = Cap * (n - 1) /\ Behind' = Cap * n
  BY <1>1 DEF Behind, Passes
<1>4. Cap * n \in Nat /\ Cap * n = Cap * (n - 1) + Cap
  BY <1>2, OnePassMore
<1>5. Cap > 0 => started <= Behind'
  BY <1>3, <1>4 DEF SpentInBounds, FlagIsPaid, ChildrenArePaid
<1>6. started \in Nat /\ Cap \in Nat /\ Behind' \in Nat
  BY <1>3, <1>4, ComputeAssumption DEF Inv, TypeOK
<1>7. FlagIsPaid'
  BY <1>1 DEF SpentInBounds, FlagIsPaid
<1>8. ChildrenArePaid'
  <2>1. started' = started /\ pc' = "reserve"
    BY <1>1
  <2>2. ASSUME Cap > 0 PROVE started' <= Behind' /\ started' <= Behind' + Cap
    BY <1>5, <1>6, <2>1, <2>2, SumsGrow, Zenon
  <2> QED
    BY <2>1, <2>2 DEF ChildrenArePaid
<1> QED
  BY <1>7, <1>8 DEF SpentInBounds

(* A batch starts no more than is left of the cap.                         *)
LEMMA BatchIsPaid ==
  ASSUME Inv, SpentInBounds, StartBatch
  PROVE  SpentInBounds'
<1>1. /\ pc = "batch" /\ pc' = "running" /\ started' = started + width' /\ thisRun' = thisRun
      /\ joined' = joined /\ restart' = restart /\ requested' = requested
  BY DEF StartBatch, flagVars
<1>2. Behind \in Nat /\ Behind' = Behind
  BY <1>1, BehindIs DEF Behind, Passes
<1>3. Cap > 0 => thisRun + width' <= Cap
  BY <1>1, BatchKeeps DEF Inv, BatchInBounds
<1>4. started \in Nat /\ thisRun \in Nat /\ width' \in Nat /\ Cap \in Nat
  BY BatchKeeps, ComputeAssumption DEF Inv, TypeOK
<1>5. Cap > 0 => started <= Behind + thisRun
  BY <1>1 DEF SpentInBounds, FlagIsPaid, ChildrenArePaid
<1>6. Cap > 0 => started' <= Behind' + thisRun' + width' /\ started' <= Behind' + Cap
  <2>1. started' = started + width' /\ thisRun' = thisRun
    BY <1>1
  <2> QED
    <3>1. ASSUME Cap > 0 PROVE started + width' <= Behind + thisRun + width' /\ started + width' <= Behind + Cap
      BY <1>2, <1>3, <1>4, <1>5, <3>1, SumsGrow, Zenon
    <3> QED
      BY <1>2, <2>1, <3>1
<1>7. FlagIsPaid'
  BY <1>1 DEF SpentInBounds, FlagIsPaid
<1>8. ChildrenArePaid'
  BY <1>1, <1>6 DEF ChildrenArePaid
<1> QED
  BY <1>7, <1>8 DEF SpentInBounds

(* Steps that neither start children nor touch flag or fold-ins.           *)
LEMMA SpentStays ==
  ASSUME Inv, SpentInBounds,
         \/ CancelRun \/ EarlyDecision \/ Start \/ Reserve \/ EnsureReserved \/ EnsureSettled \/ Resolve
         \/ BatchDone \/ StopBatches \/ FinishEmpty \/ Abandon \/ OpenApproval \/ LeavePark
         \/ ActivityFails \/ FailRun \/ UNCHANGED vars \/ \E c \in running : ChildWrites(c) \/ ChildFails(c)
  PROVE  SpentInBounds'
<1>1. /\ started \in Nat /\ thisRun \in Nat /\ width \in Nat /\ Cap \in Nat /\ Behind \in Nat
  BY BehindIs, ComputeAssumption DEF Inv, TypeOK
<1> USE DEF workVars, flagVars, restVars, histVars, spentVars, End
<1>2. joined' = joined /\ started' = started /\ restart' = restart /\ requested \subseteq requested'
  <2>1. CASE CancelRun \/ EarlyDecision
    BY <2>1 DEF CancelRun, EarlyDecision
  <2>2. CASE Start
    BY <2>2 DEF Start, SpentInBounds, FlagIsPaid, Inv, TypeOK
  <2>3. CASE Reserve \/ EnsureReserved \/ EnsureSettled \/ Resolve
    BY <2>3 DEF Reserve, EnsureReserved, EnsureSettled, Resolve
  <2>4. CASE BatchDone \/ StopBatches \/ FinishEmpty \/ Abandon \/ OpenApproval \/ LeavePark
    BY <2>4 DEF BatchDone, StopBatches, FinishEmpty, Abandon, OpenApproval, LeavePark
  <2>5. CASE ActivityFails \/ FailRun \/ UNCHANGED vars
    BY <2>5 DEF ActivityFails, FailRun, vars
  <2>6. CASE \E c \in running : ChildWrites(c) \/ ChildFails(c)
    BY <2>6 DEF ChildWrites, ChildFails
  <2> QED
    BY <2>1, <2>2, <2>3, <2>4, <2>5, <2>6
<1>3. Behind' = Behind
  BY <1>2 DEF Behind, Passes
<1> USE DEF SpentInBounds, FlagIsPaid, ChildrenArePaid
<1>4. CASE CancelRun \/ EarlyDecision \/ UNCHANGED vars
  BY <1>1, <1>2, <1>3, <1>4 DEF CancelRun, EarlyDecision, vars
<1>5. CASE Start
  BY <1>1, <1>2, <1>3, <1>5 DEF Start
<1>6. CASE Reserve \/ EnsureReserved \/ EnsureSettled
  BY <1>1, <1>2, <1>3, <1>6 DEF Reserve, EnsureReserved, EnsureSettled
<1>7. CASE Resolve
  BY <1>1, <1>2, <1>3, <1>7 DEF Resolve
<1>8. CASE BatchDone
  BY <1>1, <1>2, <1>3, <1>8 DEF BatchDone
<1>9. CASE StopBatches
  BY <1>1, <1>2, <1>3, <1>9 DEF StopBatches
<1>10. CASE FinishEmpty \/ Abandon \/ OpenApproval \/ LeavePark
  BY <1>1, <1>2, <1>3, <1>10 DEF FinishEmpty, Abandon, OpenApproval, LeavePark
<1>11. CASE ActivityFails \/ FailRun
  BY <1>1, <1>2, <1>3, <1>11 DEF ActivityFails, FailRun
<1>12. CASE \E c \in running : ChildWrites(c) \/ ChildFails(c)
  BY <1>1, <1>2, <1>3, <1>12 DEF ChildWrites, ChildFails
<1> QED
  BY <1>4, <1>5, <1>6, <1>7, <1>8, <1>9, <1>10, <1>11, <1>12

(* A run begins with nothing started and nothing folded in; so does each   *)
(* execution it continues as (ContinueAsNew, below).                       *)
LEMMA SpentInit == Init => SpentInBounds
<1> SUFFICES ASSUME Init PROVE SpentInBounds
  OBVIOUS
<1>1. joined = {} /\ started = 0 /\ ~restart /\ requested = {} /\ pc = "starting"
  BY DEF Init
<1>2. Cap \in Nat /\ Behind = 0
  BY <1>1, FS_EmptySet, ComputeAssumption DEF Behind, Passes
<1> QED
  BY <1>1, <1>2 DEF SpentInBounds, FlagIsPaid, ChildrenArePaid

LEMMA SpentNext == Inv /\ SpentInBounds /\ [Next]_vars => SpentInBounds'
<1> SUFFICES ASSUME Inv, SpentInBounds, [Next]_vars PROVE SpentInBounds'
  OBVIOUS
<1>1. ASSUME ContinueAsNew PROVE SpentInBounds'
  <2>1. joined' = {} /\ started' = 0 /\ ~restart' /\ pc' = "starting"
    BY <1>1 DEF ContinueAsNew
  <2>2. Cap \in Nat /\ Behind' = 0
    BY <2>1, FS_EmptySet, ComputeAssumption DEF Behind, Passes
  <2> QED
    BY <2>1, <2>2 DEF SpentInBounds, FlagIsPaid, ChildrenArePaid
<1>2. CASE Handlers
  BY <1>2, FoldInPays, SpentStays DEF Handlers
<1>3. CASE Workflow
  BY <1>1, <1>3, RestartPays, BatchIsPaid, SpentStays DEF Workflow
<1>4. CASE Children \/ ActivityFails \/ UNCHANGED vars
  BY <1>4, SpentStays DEF Children
<1> QED
  BY <1>2, <1>3, <1>4 DEF Next

(***************************************************************************)
(* An execution of the chain starts at most Cap children, and Cap more for *)
(* each shock folded into it, although _compute counts each pass by        *)
(* itself: for any drivers, cut, batch width and cap, and any interleaving *)
(* of the handlers.                                                        *)
(***************************************************************************)
THEOREM HistoryIsBoundedAlways == Spec => []HistoryIsBounded
<1>1. ASSUME Inv, SpentInBounds PROVE HistoryIsBounded
  <2>1. Behind + Cap <= Cap * (1 + Cardinality(joined)) /\ Behind \in Nat
    BY <1>1, BehindIs
  <2>2. Cap > 0 => started <= Behind + Cap
    BY <1>1 DEF SpentInBounds, FlagIsPaid, ChildrenArePaid
  <2>3. started \in Nat /\ Cap \in Nat /\ Cardinality(joined) \in Nat
    BY <1>1, JoinedIsCounted, ComputeAssumption DEF Inv, TypeOK
  <2>4. Cap * (1 + Cardinality(joined)) \in Nat
    BY <2>3, OnePassMore
  <2> QED
    BY <2>1, <2>2, <2>3, <2>4 DEF HistoryIsBounded
<1>2. Spec => []SpentInBounds
  <2>1. Init => SpentInBounds
    BY SpentInit
  <2>2. Inv /\ SpentInBounds /\ [Next]_vars => SpentInBounds'
    BY SpentNext
  <2> QED
    BY <2>1, <2>2, InvHolds, PTL DEF Spec
<1>3. Inv /\ SpentInBounds => HistoryIsBounded
  BY <1>1
<1> QED
  BY <1>2, <1>3, InvHolds, PTL

----------------------------------------------------------------------------
(***************************************************************************)
(* What the chain carries from one await to the next, as long as no        *)
(* accepted request has slipped: one revision has rows, the one it is at,  *)
(* and they are the partitions its cursor has passed.                      *)
(***************************************************************************)
Rows(n) == (1 .. n) \X {revision}

OutcomeEnds ==
  /\ outcome = "none" <=> pc # "ended"
  /\ pc \notin {"running", "failing"} /\ outcome # "FAILED" => running = {}

Carried ==
  /\ \A d \in told : input[d] = "asked"
  /\ pc \notin {"failing", "ended"} /\ (pc = "starting" => resume > 0) =>
       \A d \in published : input[d] # "unmoved"

InStep ==
  /\ pc \in {"starting", "reserve"} /\ resume > 0 => input = revision
  /\ pc \in {"ensure", "resolve", "batch", "running"} /\ ~restart => input = revision
  /\ pc \in {"batch", "running"} /\ ~restart => factors = revision /\ total = Partitions(revision)
  /\ pc = "batch" /\ ~restart => done <= total
  /\ pc = "running" => factors = revision
  /\ pc \in {"starting", "reserve", "ensure", "resolve"} /\ resume > 0 => resume <= Partitions(revision)
  /\ pc \notin {"starting", "reserve", "ensure", "resolve", "failing", "ended"} => resume = 0

OnlyOurs ==
  /\ \A s \in Shocks : s # revision => staged[s] = {}
  /\ pc \in {"starting", "reserve", "ensure", "resolve"} => staged[revision] = Rows(resume)
  /\ pc = "batch" => staged[revision] = Rows(done)
  /\ pc = "running" => staged[revision] = ((1 .. (done + width)) \ running) \X {revision}
  /\ pc \in {"saving", "parked"} => input = revision /\ staged[revision] = Rows(Partitions(revision))
  /\ outcome = "CANCELLED" => staged[revision] = {}

Coherent == OutcomeEnds /\ Carried /\ (slips = {} => InStep /\ OnlyOurs)

----------------------------------------------------------------------------
(* A child's row joins those of the partitions before it.                  *)
LEMMA OneMoreRow ==
  ASSUME NEW D, NEW R, NEW c \in R, R \subseteq D, NEW s
  PROVE  ((D \ R) \X {s}) \cup {<<c, s>>} = (D \ (R \ {c})) \X {s}
OBVIOUS

LEMMA CoherentInit == Init => Coherent
<1> SUFFICES ASSUME Init PROVE Coherent
  OBVIOUS
<1>1. OutcomeEnds
  BY DEF Init, OutcomeEnds
<1>2. Carried
  BY DEF Init, Carried, Ask
<1>3. InStep
  BY DEF Init, InStep
<1>4. OnlyOurs
  <2>1. revision \in Shocks /\ resume = 0 /\ staged = [s \in Shocks |-> {}]
    BY DEF Init, Nothing, Shocks
  <2>2. Rows(resume) = {}
    BY <2>1 DEF Rows
  <2> QED
    BY <2>1, <2>2 DEF Init, OnlyOurs
<1> QED
  BY <1>1, <1>2, <1>3, <1>4 DEF Coherent

(* A run ends once, with an outcome, and only a failed one leaves children.  *)
LEMMA EndsKeeps ==
  ASSUME Inv, OutcomeEnds, Next
  PROVE  OutcomeEnds'
<1> USE DEF OutcomeEnds, workVars, restVars, End
<1>1. CASE Handlers
  BY <1>1 DEF Handlers, FoldIn, CancelRun, EarlyDecision
<1>2. CASE Children
  BY <1>2 DEF Children, ChildWrites, ChildFails
<1>3. CASE Start \/ Reserve \/ EnsureReserved \/ EnsureSettled \/ Resolve
  BY <1>3 DEF Start, Reserve, EnsureReserved, EnsureSettled, Resolve
<1>4. CASE StartBatch \/ FailRun \/ BatchDone \/ ContinueAsNew \/ StopBatches
  BY <1>4 DEF StartBatch, FailRun, BatchDone, ContinueAsNew, StopBatches
<1>5. CASE Restart \/ FinishEmpty \/ Abandon \/ OpenApproval \/ LeavePark \/ ActivityFails
  BY <1>5 DEF Restart, FinishEmpty, Abandon, OpenApproval, LeavePark, ActivityFails
<1> QED
  BY <1>1, <1>2, <1>3, <1>4, <1>5 DEF Next, Workflow

(* What was asked for is never taken out of the shock set again, and       *)
(* merging the published one a second time changes nothing.                *)
LEMMA CarriedKeeps ==
  ASSUME Inv, Carried, Next
  PROVE  Carried'
<1>1. input \in Shocks /\ told \subseteq Drivers /\ published \subseteq Drivers
  BY DEF Inv, TypeOK
<1> USE DEF Carried, workVars, restVars, histVars, spentVars, End
<1>2. ASSUME NEW d \in Drivers, FoldIn(d) PROVE Carried'
  BY <1>1, <1>2 DEF FoldIn, Shocks
<1>3. CASE CancelRun \/ EarlyDecision
  BY <1>3 DEF CancelRun, EarlyDecision
<1>4. CASE Children
  BY <1>4 DEF Children, ChildWrites, ChildFails
<1>5. CASE Start
  BY <1>1, <1>5 DEF Start, MergeShocks, Shocks
<1>6. CASE Reserve \/ EnsureReserved \/ EnsureSettled \/ Resolve
  BY <1>6 DEF Reserve, EnsureReserved, EnsureSettled, Resolve
<1>7. CASE StartBatch \/ FailRun \/ BatchDone \/ ContinueAsNew \/ StopBatches
  BY <1>7 DEF StartBatch, FailRun, BatchDone, ContinueAsNew, StopBatches
<1>8. CASE Restart \/ FinishEmpty \/ Abandon \/ OpenApproval \/ LeavePark \/ ActivityFails
  BY <1>8 DEF Restart, FinishEmpty, Abandon, OpenApproval, LeavePark, ActivityFails
<1> QED
  BY <1>2, <1>3, <1>4, <1>5, <1>6, <1>7, <1>8 DEF Next, Workflow, Handlers

(* Merging again what a run before this one merged already.                *)
LEMMA MergedOnce ==
  ASSUME Inv, Carried, pc = "starting", resume > 0
  PROVE  MergeShocks(published, input) = input
<1>1. input \in Shocks /\ (\A d \in published : input[d] # "unmoved")
  BY DEF Inv, TypeOK, Carried
<1>2. \A d \in Drivers : MergeShocks(published, input)[d] = input[d]
  BY <1>1 DEF MergeShocks, Shocks
<1> QED
  BY <1>1, <1>2 DEF MergeShocks, Shocks

LEMMA InStepKeeps ==
  ASSUME Inv, Carried, InStep, Next, slips' = {}
  PROVE  InStep'
<1> USE DEF InStep, workVars, restVars, histVars, spentVars, flagVars, End
<1>1. ASSUME NEW d \in Drivers, FoldIn(d) PROVE InStep'
  BY <1>1 DEF FoldIn, Inv, TypeOK, Partitions
<1>2. CASE CancelRun \/ EarlyDecision
  BY <1>2 DEF CancelRun, EarlyDecision, Partitions
<1>3. CASE Children
  BY <1>3 DEF Children, ChildWrites, ChildFails, Partitions
<1>4. CASE Start
  BY <1>4, MergedOnce DEF Start, Inv, TypeOK, Partitions
<1>5. CASE Reserve
  BY <1>5 DEF Reserve, Inv, TypeOK
<1>6. CASE EnsureReserved \/ EnsureSettled
  BY <1>6 DEF EnsureReserved, EnsureSettled
<1>7. CASE Resolve
  <2>1. Partitions(input) \in Nat
    BY PartitionsBounded, AllPartitionsType DEF Inv, TypeOK
  <2> QED
    BY <1>7, <2>1 DEF Resolve, Inv, TypeOK
<1>8. CASE StartBatch
  BY <1>8 DEF StartBatch, StopComputing
<1>9. CASE BatchDone
  BY <1>9 DEF BatchDone, Inv, BatchInBounds
<1>10. CASE ContinueAsNew
  BY <1>10 DEF ContinueAsNew, Inv, TypeOK
<1>11. CASE FailRun \/ StopBatches \/ FinishEmpty \/ Abandon
  BY <1>11 DEF FailRun, StopBatches, FinishEmpty, Abandon
<1>12. CASE Restart \/ OpenApproval \/ LeavePark \/ ActivityFails
  BY <1>12 DEF Restart, OpenApproval, LeavePark, ActivityFails
<1> QED
  BY <1>1, <1>2, <1>3, <1>4, <1>5, <1>6, <1>7, <1>8, <1>9, <1>10, <1>11, <1>12
  DEF Next, Workflow, Handlers

(* The rows of one revision, and of no other.                              *)
LEMMA OnlyOursKeeps ==
  ASSUME Inv, OutcomeEnds, InStep, OnlyOurs, Next, slips' = {}
  PROVE  OnlyOurs'
<1>1. /\ staged \in [Shocks -> SUBSET (Cells \X Shocks)] /\ revision \in Shocks /\ input \in Shocks
      /\ done \in Nat /\ width \in Nat /\ resume \in Nat /\ total \in Nat
  BY AllPartitionsType DEF Inv, TypeOK
<1> USE DEF OnlyOurs, Rows, workVars, restVars, histVars, spentVars, flagVars, End
<1>2. ASSUME NEW d \in Drivers, FoldIn(d) PROVE OnlyOurs'
  BY <1>2 DEF FoldIn, Partitions
<1>3. CASE CancelRun \/ EarlyDecision
  BY <1>3 DEF CancelRun, EarlyDecision, Partitions
<1>4. ASSUME NEW c \in running, ChildWrites(c) PROVE OnlyOurs'
  <2>1. pc \in {"running", "failing"} \/ (pc = "ended" /\ outcome = "FAILED")
    BY DEF OutcomeEnds, Inv, TypeOK
  <2>2. /\ running' = running \ {c} /\ pc' = pc /\ outcome' = outcome /\ done' = done /\ width' = width
        /\ revision' = revision
        /\ staged' = [staged EXCEPT ![revision] = @ \cup {<<c, factors>>}]
    BY <1>4 DEF ChildWrites
  <2>3. \A s \in Shocks : s # revision => staged'[s] = {}
    BY <1>1, <2>2
  <2>4. ASSUME pc = "running"
        PROVE  staged'[revision] = ((1 .. (done + width)) \ running') \X {revision}
    <3>1. staged'[revision] = staged[revision] \cup {<<c, factors>>}
      BY <1>1, <2>2
    <3>2. factors = revision /\ running \subseteq 1 .. (done + width)
      BY <1>1, <2>4 DEF InStep, Inv, BatchInBounds
    <3>3. staged[revision] = ((1 .. (done + width)) \ running) \X {revision}
      BY <2>4
    <3> QED
      BY <2>2, <3>1, <3>2, <3>3, OneMoreRow
  <2> QED
    BY <2>1, <2>2, <2>3, <2>4 DEF OutcomeEnds
<1>5. ASSUME NEW c \in running, ChildFails(c) PROVE OnlyOurs'
  BY <1>5 DEF ChildFails, OutcomeEnds
<1>6. CASE Start
  BY <1>6 DEF Start, OutcomeEnds
<1>7. CASE Reserve
  <2>1. CASE resume > 0
    BY <1>7, <2>1 DEF Reserve, InStep, OutcomeEnds
  <2>2. CASE resume = 0
    <3>1. staged[revision] = {}
      BY <1>7, <2>2 DEF Reserve
    <3>2. \A s \in Shocks : staged[s] = {}
      BY <3>1
    <3> QED
      BY <1>1, <1>7, <2>2, <3>2 DEF Reserve, OutcomeEnds
  <2> QED
    BY <1>1, <2>1, <2>2
<1>8. CASE EnsureReserved \/ EnsureSettled
  BY <1>8 DEF EnsureReserved, EnsureSettled, OutcomeEnds
<1>9. CASE Resolve
  BY <1>9 DEF Resolve, OutcomeEnds
<1>10. CASE StartBatch
  <2>1. running' \subseteq (done + 1) .. (done' + width') /\ width' \in Nat
    BY <1>10, BatchKeeps DEF Inv, BatchInBounds, TypeOK, StartBatch
  <2>2. /\ staged' = staged /\ revision' = revision /\ done' = done /\ pc' = "running"
        /\ staged[revision] = (1 .. done) \X {revision} /\ outcome' = "none"
    BY <1>10 DEF StartBatch, OutcomeEnds
  <2>3. (1 .. (done + width')) \ running' = 1 .. done
    <3>1. running' = (done + 1) .. (done + width')
      BY <1>10, WholeBatch
    <3> QED
      BY <1>1, <2>1, <3>1
  <2> QED
    BY <2>2, <2>3
<1>11. CASE BatchDone \/ ContinueAsNew
  BY <1>11 DEF BatchDone, ContinueAsNew, OutcomeEnds
<1>12. CASE StopBatches
  BY <1>1, <1>12 DEF StopBatches, StopComputing, InStep, OutcomeEnds, Partitions
<1>13. CASE FailRun
  BY <1>1, <1>13 DEF FailRun, OutcomeEnds
<1>14. CASE Restart
  BY <1>1, <1>14 DEF Restart, InStep, OutcomeEnds
<1>15. CASE Abandon
  BY <1>1, <1>15 DEF Abandon, OutcomeEnds
<1>16. CASE FinishEmpty \/ ActivityFails
  BY <1>16 DEF FinishEmpty, ActivityFails, OutcomeEnds
<1>17. CASE OpenApproval \/ LeavePark
  BY <1>17 DEF OpenApproval, LeavePark, OutcomeEnds, Partitions
<1> QED
  BY <1>2, <1>3, <1>4, <1>5, <1>6, <1>7, <1>8, <1>9, <1>10, <1>11, <1>12, <1>13, <1>14, <1>15, <1>16,
     <1>17 DEF Next, Workflow, Handlers, Children

(* A slip is never forgotten.                                              *)
LEMMA SlipsStay ==
  ASSUME Next
  PROVE  slips \subseteq slips'
<1> USE DEF histVars, spentVars
<1>1. CASE Handlers
  BY <1>1 DEF Handlers, FoldIn, CancelRun, EarlyDecision
<1>2. CASE Children
  BY <1>2 DEF Children, ChildWrites, ChildFails
<1>3. CASE Start \/ Reserve \/ EnsureReserved \/ EnsureSettled \/ Resolve
  BY <1>3 DEF Start, Reserve, EnsureReserved, EnsureSettled, Resolve
<1>4. CASE StartBatch \/ FailRun \/ BatchDone \/ ContinueAsNew \/ StopBatches
  BY <1>4 DEF StartBatch, FailRun, BatchDone, ContinueAsNew, StopBatches
<1>5. CASE Restart \/ FinishEmpty \/ Abandon \/ OpenApproval \/ LeavePark \/ ActivityFails
  BY <1>5 DEF Restart, FinishEmpty, Abandon, OpenApproval, LeavePark, ActivityFails
<1> QED
  BY <1>1, <1>2, <1>3, <1>4, <1>5 DEF Next, Workflow

LEMMA CoherentNext == Inv /\ Coherent /\ [Next]_vars => Coherent'
<1> SUFFICES ASSUME Inv, Coherent, [Next]_vars PROVE Coherent'
  OBVIOUS
<1>1. CASE UNCHANGED vars
  BY <1>1 DEF vars, workVars, flagVars, restVars, histVars, spentVars, Coherent, OutcomeEnds, Carried, InStep,
              OnlyOurs, Rows, Partitions
<1>2. CASE Next
  <2>1. OutcomeEnds' /\ Carried'
    BY <1>2, EndsKeeps, CarriedKeeps DEF Coherent
  <2>2. slips' = {} => slips = {}
    BY <1>2, SlipsStay
  <2>3. slips' = {} => InStep' /\ OnlyOurs'
    BY <1>2, <2>2, InStepKeeps, OnlyOursKeeps DEF Coherent
  <2> QED
    BY <2>1, <2>3 DEF Coherent
<1> QED
  BY <1>1, <1>2

LEMMA CoherentHolds == Spec => []Coherent
BY CoherentInit, CoherentNext, InvHolds, PTL DEF Spec

(***************************************************************************)
(* A parked run shows every partition of its revision, each computed from  *)
(* that revision's whole shock set, and the set holds every driver a       *)
(* caller was told is in it: for any drivers, cut, batch and cap.          *)
(***************************************************************************)
THEOREM ParkedIsWholeAlways == Spec => []ParkedIsWhole
<1>1. Coherent => ParkedIsWhole
  <2> SUFFICES ASSUME Coherent, pc = "parked", slips = {} PROVE Whole(revision) /\ Answered
    BY DEF ParkedIsWhole
  <2>1. /\ input = revision /\ staged[revision] = Rows(Partitions(revision))
        /\ \A d \in told : input[d] = "asked"
    BY DEF Coherent, OnlyOurs, Carried
  <2> QED
    BY <2>1 DEF Whole, Answered, Rows
<1> QED
  BY <1>1, CoherentHolds, PTL

(***************************************************************************)
(* A cancelled run leaves no row of any revision it reserved, however many *)
(* it went through and however often it continued as new.                  *)
(***************************************************************************)
THEOREM CancelLeavesNothingAlways == Spec => []CancelLeavesNothing
<1>1. Coherent => CancelLeavesNothing
  BY DEF Coherent, OnlyOurs, CancelLeavesNothing
<1> QED
  BY <1>1, CoherentHolds, PTL
=============================================================================
