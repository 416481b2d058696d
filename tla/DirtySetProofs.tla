--------------------------- MODULE DirtySetProofs ---------------------------
(***************************************************************************)
(* Proofs about the computation of a dirty set, for any baseline, library, *)
(* target and batch size, number of threads and of attempts: what cursors  *)
(* stand for (DInv), what the cut of the plan is (PlanSplits), what the    *)
(* shocks move (FactorsAreNumbers), and from these what a parked run has   *)
(* computed (Inv).                                                         *)
(***************************************************************************)
EXTENDS DirtySet, TLAPS, FiniteSetTheorems, SequenceTheorems, WellFoundedInduction

Written(d, s, S) == \A l \in S : d[l] # NoRow /\ s[l] # NoRow

Before(S, offset) == {l \in S : Position(l, S) <= offset}

(* What the cursor of an attempt that is still waited for stands for.      *)
Sound(a, rows, d, s) ==
  /\ a # Idle
  /\ a.rows = rows
  /\ a.beat <= a.offset
  /\ Written(d, s, Before(rows, a.offset))
  /\ a.at = "stage" => \A l \in Batch(rows, a.offset) : d[l] # NoRow
  /\ a.at = "answer" => Written(d, s, rows)

(* ... and the heartbeat the next attempt would be handed.                 *)
InFlight(rows, beat, h, atts, d, s) ==
  /\ Written(d, s, Before(rows, beat))
  /\ h # NoThread => Sound(atts[h], rows, d, s)

DInv ==
  /\ TypeOK
  /\ pc # "running" => running = {}
  /\ Written(drafts, staged, counted)
  /\ \A p \in running : InFlight(RowsOf(plan[p]), heartbeat[p], holder[p], attempts, drafts, staged)
  /\ \A p \in Partitions \ running : holder[p] = NoThread /\ heartbeat[p] = 0

----------------------------------------------------------------------------
(***************************************************************************)
(* Counting.                                                               *)
(***************************************************************************)
LEMMA Positions ==
  ASSUME NEW S \in SUBSET Lines, NEW l \in S
  PROVE  /\ Cardinality(S) \in Nat /\ Position(l, S) \in Nat
         /\ Position(l, S) <= Cardinality(S)
<1>1. IsFiniteSet(S)
  BY DirtySetAssumption, FS_Subset
<1>2. {k \in S : k <= l} \in SUBSET S
  OBVIOUS
<1> QED
  BY <1>1, <1>2, FS_Subset, FS_CardinalityType DEF Position

LEMMA RowCount == ASSUME NEW S \in SUBSET Lines PROVE Cardinality(S) \in Nat
BY DirtySetAssumption, FS_Subset, FS_CardinalityType

(* A page that is not full is the last.                                    *)
LEMMA ShortPage ==
  ASSUME NEW S \in SUBSET Lines, NEW offset \in Nat
  PROVE  /\ Fetched(S, offset) \in Nat /\ Fetched(S, offset) <= BatchSize
         /\ Fetched(S, offset) < BatchSize => S \subseteq Before(S, offset + Fetched(S, offset))
         /\ Fetched(S, offset) = 0 => S \subseteq Before(S, offset)
<1>1. Cardinality(S) \in Nat /\ BatchSize \in Nat \ {0}
  BY RowCount, DirtySetAssumption
<1>2. Fetched(S, offset) \in Nat /\ Fetched(S, offset) <= BatchSize
  BY <1>1 DEF Fetched
<1>3. ASSUME Fetched(S, offset) < BatchSize
      PROVE  Cardinality(S) <= offset + Fetched(S, offset)
  BY <1>1, <1>3 DEF Fetched
<1>4. ASSUME NEW n \in Nat, Cardinality(S) <= n PROVE S \subseteq Before(S, n)
  <2> SUFFICES ASSUME NEW l \in S PROVE Position(l, S) <= n
    BY DEF Before
  <2> QED
    BY <1>1, <1>4, Positions
<1>5. Fetched(S, offset) < BatchSize => S \subseteq Before(S, offset + Fetched(S, offset))
  BY <1>2, <1>3, <1>4
<1>6. Fetched(S, offset) = 0 => S \subseteq Before(S, offset)
  <2> SUFFICES ASSUME Fetched(S, offset) = 0 PROVE Cardinality(S) <= offset
    BY <1>4
  <2> QED
    BY <1>1, <1>3
<1> QED
  BY <1>2, <1>5, <1>6

(* A page and what came before it are what comes before the next.          *)
LEMMA NextPage ==
  ASSUME NEW S \in SUBSET Lines, NEW offset \in Nat,
         NEW l \in Before(S, offset + Fetched(S, offset))
  PROVE  l \in Before(S, offset) \/ l \in Batch(S, offset)
<1>1. l \in S /\ Position(l, S) \in Nat
  BY Positions DEF Before
<1>2. Position(l, S) <= offset + BatchSize
  <2>1. Fetched(S, offset) \in Nat /\ Fetched(S, offset) <= BatchSize
    BY ShortPage
  <2>2. Position(l, S) <= offset + Fetched(S, offset)
    BY DEF Before
  <2> QED
    BY <1>1, <2>1, <2>2, DirtySetAssumption
<1> QED
  BY <1>1, <1>2 DEF Before, Batch

LEMMA EarlierIsLess ==
  ASSUME NEW S \in SUBSET Lines, NEW m \in Nat, NEW n \in Nat, m <= n
  PROVE  Before(S, m) \subseteq Before(S, n)
<1> SUFFICES ASSUME NEW l \in S, Position(l, S) <= m PROVE Position(l, S) <= n
  BY DEF Before
<1> QED
  BY Positions

----------------------------------------------------------------------------
(***************************************************************************)
(* Writing.                                                                *)
(***************************************************************************)
LEMMA RowsAreLines == ASSUME NEW part PROVE RowsOf(part) \in SUBSET Lines
BY DEF RowsOf, LinesOf

LEMMA TableOf ==
  ASSUME NEW d PROVE IsTable(FactorsOf(d))
<1> DEFINE ratios == DirtyDrivers(d, Shocks)
           matched == {b \in Bindings : b.driver \in DOMAIN ratios}
<1> SUFFICES ASSUME NEW a \in DOMAIN FactorsOf(d)
             PROVE  FactorsOf(d)[a] \subseteq Factor /\ FactorsOf(d)[a] # {}
  BY DEF IsTable
<1>1. /\ a \in {b.account : b \in matched}
      /\ FactorsOf(d)[a] = {[target |-> b.target, driver |-> b.driver, ratio |-> ratios[b.driver]] :
                              b \in {m \in matched : m.account = a}}
  BY DEF FactorsOf, AccountFactors
<1>2. ASSUME NEW x \in DOMAIN ratios PROVE ratios[x] \in [Shocks -> 0 .. 2]
  BY <1>2 DEF DirtyDrivers
<1>3. FactorsOf(d)[a] \subseteq Factor
  <2> SUFFICES ASSUME NEW b \in matched
               PROVE  [target |-> b.target, driver |-> b.driver, ratio |-> ratios[b.driver]] \in Factor
    BY <1>1
  <2>1. b \in Bindings /\ ratios[b.driver] \in [Shocks -> 0 .. 2]
    BY <1>2
  <2> HIDE DEF ratios, matched
  <2> QED
    BY <2>1 DEF Factor
<1> HIDE DEF ratios
<1> QED
  BY <1>1, <1>3

LEMMA WriteWrites ==
  ASSUME NEW store, store \in [Lines -> SUBSET Factor],
         NEW L \in SUBSET Lines, NEW table, IsTable(table),
         \A l \in L : AccountOf[l] \in DOMAIN table
  PROVE  /\ Write(store, L, table) \in [Lines -> SUBSET Factor]
         /\ \A l \in L : Write(store, L, table)[l] # NoRow
         /\ \A l \in Lines : store[l] # NoRow => Write(store, L, table)[l] # NoRow
<1> \A l \in L : table[AccountOf[l]] \subseteq Factor /\ table[AccountOf[l]] # {}
  BY DEF IsTable
<1> QED
  BY DEF Write, RecomputeLine, NoRow

----------------------------------------------------------------------------
(***************************************************************************)
(* Type correctness.                                                       *)
(***************************************************************************)
LEMMA TriesCount == MaxTries \in Nat
BY DirtySetAssumption DEF MaxTries

LEMMA PartitionsFinite == IsFiniteSet(Partitions)
BY DirtySetAssumption, FS_Interval DEF Partitions

LEMMA InitType == Init => TypeOK
<1> SUFFICES ASSUME Init PROVE TypeOK
  OBVIOUS
<1>1. IsTable(factors)
  BY DEF Init, IsTable
<1>2. 0 \in 0 .. MaxTries /\ NoRow \in SUBSET Factor
  BY TriesCount DEF NoRow
<1>3. tries \in [Partitions -> 0 .. MaxTries]
  BY <1>2 DEF Init
<1>4. DOMAIN attempts = Threads /\ \A t \in Threads : attempts[t] = Idle
  BY DEF Init
<1>5. drafts \in [Lines -> SUBSET Factor] /\ staged \in [Lines -> SUBSET Factor]
  BY <1>2 DEF Init
<1> QED
  BY <1>1, <1>3, <1>4, <1>5 DEF Init, TypeOK

LEMMA RunType ==
  ASSUME TypeOK, Run \/ ContinueAsNew \/ (\E d \in Dags : EditLibrary(d))
  PROVE  TypeOK'
<1> USE DEF TypeOK, childVars, storeVars, histVars, runVars
<1>1. CASE Load
  BY <1>1 DEF Load
<1>2. CASE Snapshot
  BY <1>2, TableOf DEF Snapshot
<1>3. CASE Resolve
  BY <1>3 DEF Resolve
<1>4. CASE StartBatch
  BY <1>4 DEF StartBatch, NextChildren
<1>5. CASE Park
  BY <1>5 DEF Park
<1>6. CASE BatchDone
  <2>1. Cardinality(NextChildren) \in Nat
    BY PartitionsFinite, FS_Subset, FS_CardinalityType DEF NextChildren
  <2> QED
    BY <1>6, <2>1 DEF BatchDone
<1>7. CASE FailRun
  BY <1>7 DEF FailRun, NoRow
<1>8. ASSUME NEW p \in Partitions, ChildFails(p) PROVE TypeOK'
  BY <1>8, TriesCount DEF ChildFails
<1>9. CASE ContinueAsNew
  BY <1>9, DirtySetAssumption DEF ContinueAsNew
<1>10. ASSUME NEW d \in Dags, EditLibrary(d) PROVE TypeOK'
  BY <1>10 DEF EditLibrary
<1> QED
  BY <1>1, <1>2, <1>3, <1>4, <1>5, <1>6, <1>7, <1>8, <1>9, <1>10 DEF Run

LEMMA TakeType ==
  ASSUME TypeOK, NEW t \in Threads, NEW p \in Partitions, Take(t, p)
  PROVE  TypeOK'
<1> DEFINE new == [at |-> "select", rows |-> RowsOf(plan[p]), factors |-> factors,
                   offset |-> Handed(p), beat |-> Handed(p)]
<1>1. attempts' = [attempts EXCEPT ![t] = new] /\ tries' = [tries EXCEPT ![p] = @ + 1]
  BY DEF Take
<1>2. IsAttempt(new)
  <2>1. RowsOf(plan[p]) \in SUBSET Lines /\ Handed(p) \in Nat
    BY RowsAreLines DEF TypeOK, Handed
  <2>2. \A l \in RowsOf(plan[p]) : AccountOf[l] \in DOMAIN factors
    BY DEF RowsOf, LinesOf, AffectedAccounts
  <2>3. IsTable(factors)
    BY DEF TypeOK
  <2> QED
    BY <2>1, <2>2, <2>3 DEF IsAttempt
<1>3. tries' \in [Partitions -> 0 .. MaxTries]
  BY <1>1, TriesCount DEF Take, TypeOK
<1>4. holder' \in [Partitions -> Threads \cup {NoThread}]
  BY DEF Take, TypeOK
<1>5. DOMAIN attempts' = Threads /\ \A u \in Threads : attempts'[u] = Idle \/ IsAttempt(attempts'[u])
  <2> HIDE DEF new
  <2> QED
    BY <1>1, <1>2 DEF TypeOK
<1>6. heartbeat' \in [Partitions -> Nat]
  BY DEF Take, TypeOK, Handed
<1> QED
  BY <1>3, <1>4, <1>5, <1>6 DEF Take, TypeOK, storeVars, histVars, runVars

(* An attempt that only moves on stays an attempt.                         *)
LEMMA MovesOn ==
  ASSUME NEW t \in Threads, attempts[t] # Idle, TypeOK,
         NEW at \in {"select", "upsert", "stage", "answer"}, NEW offset \in Nat, NEW beat \in Nat,
         Goes(t, at, offset, beat)
  PROVE  DOMAIN attempts' = Threads /\ \A u \in Threads : attempts'[u] = Idle \/ IsAttempt(attempts'[u])
<1> DEFINE a == attempts[t]
           new == [at |-> at, rows |-> a.rows, factors |-> a.factors, offset |-> offset, beat |-> beat]
<1>1. IsAttempt(a)
  BY DEF TypeOK
<1>2. IsAttempt(new)
  BY <1>1 DEF IsAttempt
<1>3. attempts' = [attempts EXCEPT ![t] = new]
  BY DEF Goes
<1> HIDE DEF a, new
<1> QED
  BY <1>2, <1>3 DEF TypeOK

LEMMA BatchOfRows ==
  ASSUME TypeOK, NEW t \in Threads, attempts[t] # Idle
  PROVE  /\ IsAttempt(attempts[t])
         /\ InHand(t) \subseteq attempts[t].rows /\ InHand(t) \in SUBSET Lines
         /\ \A l \in InHand(t) : AccountOf[l] \in DOMAIN attempts[t].factors
<1>1. IsAttempt(attempts[t])
  BY DEF TypeOK
<1>2. attempts[t].rows \in SUBSET Lines
  BY <1>1 DEF IsAttempt
<1>3. InHand(t) \subseteq attempts[t].rows
  BY DEF InHand, Batch
<1> QED
  BY <1>1, <1>2, <1>3 DEF IsAttempt

LEMMA AtWork ==
  ASSUME NEW t, NEW at \in {"select", "upsert", "stage", "answer"}, attempts[t].at = at, at # "idle"
  PROVE  attempts[t] # Idle
BY DEF Idle

LEMMA WorkType ==
  ASSUME TypeOK, NEW t \in Threads, Work(t)
  PROVE  TypeOK'
<1> DEFINE a == attempts[t]
           n == Fetched(a.rows, a.offset)
           Threaded == DOMAIN attempts' = Threads
                       /\ \A u \in Threads : attempts'[u] = Idle \/ IsAttempt(attempts'[u])
<1>1. a # Idle
  BY DEF Work, Select, Upsert, Stage, Answer, Idle
<1>2. /\ a.rows \in SUBSET Lines /\ a.offset \in Nat /\ a.beat \in Nat /\ IsTable(a.factors)
      /\ a.offset + n \in Nat
  <2>1. a.rows \in SUBSET Lines /\ a.offset \in Nat /\ a.beat \in Nat /\ IsTable(a.factors)
    BY <1>1, BatchOfRows DEF IsAttempt
  <2>2. n \in Nat
    BY <2>1, ShortPage
  <2> HIDE DEF a, n
  <2> QED
    BY <2>1, <2>2
<1>3. ASSUME NEW store, store \in [Lines -> SUBSET Factor]
      PROVE  Write(store, InHand(t), a.factors) \in [Lines -> SUBSET Factor]
  <2>1. InHand(t) \in SUBSET Lines /\ \A l \in InHand(t) : AccountOf[l] \in DOMAIN a.factors
    BY <1>1, BatchOfRows
  <2> HIDE DEF a
  <2> QED
    BY <1>2, <1>3, <2>1, WriteWrites
<1> USE DEF runVars, childVars, storeVars, histVars
<1>4. CASE Select(t)
  <2>1. Goes(t, IF n = 0 THEN "answer" ELSE "upsert", a.offset, a.offset)
    BY <1>4 DEF Select
  <2>2. Threaded
    <3> HIDE DEF a, n
    <3>1. CASE n = 0
      BY <1>1, <1>2, <2>1, <3>1, MovesOn DEF a
    <3>2. CASE n # 0
      BY <1>1, <1>2, <2>1, <3>2, MovesOn DEF a
    <3> QED
      BY <3>1, <3>2
  <2> QED
    BY <1>4, <2>2 DEF Select, TypeOK
<1>5. CASE Upsert(t)
  <2>1. Threaded
    BY <1>1, <1>2, <1>5, MovesOn DEF Upsert
  <2>2. drafts' \in [Lines -> SUBSET Factor]
    BY <1>3, <1>5 DEF Upsert, TypeOK
  <2> QED
    BY <1>5, <2>1, <2>2 DEF Upsert, TypeOK
<1>6. CASE Stage(t)
  <2>1. Threaded
    <3>1. Goes(t, "answer", a.offset + n, a.offset + n) \/ Goes(t, "select", a.offset + n, a.beat)
      BY <1>6 DEF Stage
    <3> HIDE DEF n
    <3> QED
      BY <1>1, <1>2, <3>1, MovesOn
  <2>2. staged' \in [Lines -> SUBSET Factor]
    BY <1>3, <1>6 DEF Stage, TypeOK
  <2> QED
    BY <1>6, <2>1, <2>2 DEF Stage, TypeOK
<1>7. CASE Answer(t)
  <2>1. Threaded
    BY <1>7 DEF Answer, TypeOK
  <2>2. counted' \subseteq Lines
    BY <1>2, <1>7 DEF Answer, TypeOK
  <2>3. tries' \in [Partitions -> 0 .. MaxTries]
    BY <1>7, TriesCount DEF Answer, TypeOK
  <2>4. holder' \in [Partitions -> Threads \cup {NoThread}]
    BY <1>7 DEF Answer, TypeOK
  <2>5. heartbeat' \in [Partitions -> Nat]
    BY <1>7 DEF Answer, TypeOK
  <2> QED
    BY <1>7, <2>1, <2>2, <2>3, <2>4, <2>5 DEF Answer, TypeOK
<1> QED
  BY <1>4, <1>5, <1>6, <1>7 DEF Work

LEMMA CrashType ==
  ASSUME TypeOK, NEW t \in Threads, Crash(t)
  PROVE  TypeOK'
<1>1. attempts[t] # Idle
  BY DEF Crash
<1>2. staged' \in [Lines -> SUBSET Factor]
  <2> PICK L \in SUBSET (IF attempts[t].at = "stage" THEN InHand(t) ELSE {}) :
        staged' = Write(staged, L, attempts[t].factors)
    BY DEF Crash
  <2>1. L \in SUBSET Lines /\ \A l \in L : AccountOf[l] \in DOMAIN attempts[t].factors
    BY <1>1, BatchOfRows
  <2>2. IsTable(attempts[t].factors)
    BY <1>1, BatchOfRows DEF IsAttempt
  <2>3. staged \in [Lines -> SUBSET Factor]
    BY DEF TypeOK
  <2> QED
    BY <2>1, <2>2, <2>3, WriteWrites
<1>3. attempts' = [attempts EXCEPT ![t] = Idle]
  BY DEF Crash
<1>4. holder' \in [Partitions -> Threads \cup {NoThread}]
  BY DEF Crash, TypeOK
<1>5. UNCHANGED <<dag, edits, runVars, running, tries, heartbeat, drafts, histVars>>
  BY DEF Crash
<1> QED
  BY <1>2, <1>3, <1>4, <1>5 DEF TypeOK, runVars, histVars

LEMMA ServerType ==
  ASSUME DInv, NEW p \in Partitions,
         GiveUp(p) \/ \E t \in Threads : DeliverHeartbeat(t, p)
  PROVE  TypeOK'
<1> USE DEF TypeOK, runVars, storeVars, histVars
<1>1. CASE GiveUp(p)
  BY <1>1 DEF GiveUp, DInv
<1>2. ASSUME NEW t \in Threads, DeliverHeartbeat(t, p) PROVE TypeOK'
  <2>1. p \in running /\ holder[p] = t
    BY <1>2 DEF DeliverHeartbeat, Holds
  <2>2. attempts[t] # Idle
    BY <2>1, DirtySetAssumption DEF DInv, InFlight, Sound
  <2>3. attempts[t].beat \in Nat
    BY <2>2 DEF IsAttempt, DInv
  <2> QED
    BY <1>2, <2>3 DEF DeliverHeartbeat, DInv
<1> QED
  BY <1>1, <1>2

LEMMA NextType == ASSUME DInv, [Next]_vars PROVE TypeOK'
<1>1. CASE UNCHANGED vars
  BY <1>1 DEF vars, runVars, childVars, storeVars, histVars, TypeOK, DInv
<1> QED
  BY <1>1, RunType, TakeType, WorkType, CrashType, ServerType DEF Next, TakeAny, DInv

----------------------------------------------------------------------------
(***************************************************************************)
(* What is counted is written.                                             *)
(***************************************************************************)
(* A row that is in a store is not taken out of it.                        *)
Grows(d1, d2) == \A l \in Lines : d1[l] # NoRow => d2[l] # NoRow

LEMMA WrittenGrows ==
  ASSUME NEW d1, NEW d2, NEW s1, NEW s2, Grows(d1, d2), Grows(s1, s2),
         NEW S \in SUBSET Lines, Written(d1, s1, S)
  PROVE  Written(d2, s2, S)
BY DEF Grows, Written

LEMMA SoundGrows ==
  ASSUME NEW d1, NEW d2, NEW s1, NEW s2, Grows(d1, d2), Grows(s1, s2),
         NEW a, NEW rows \in SUBSET Lines, Sound(a, rows, d1, s1)
  PROVE  Sound(a, rows, d2, s2)
<1>1. Before(rows, a.offset) \in SUBSET Lines /\ Batch(rows, a.offset) \in SUBSET Lines
  BY DEF Before, Batch
<1>2. Written(d2, s2, Before(rows, a.offset))
  BY <1>1, WrittenGrows DEF Sound
<1>3. a.at = "answer" => Written(d2, s2, rows)
  BY WrittenGrows DEF Sound
<1> QED
  BY <1>1, <1>2, <1>3 DEF Sound, Grows

LEMMA NothingBeforeTheFirst ==
  ASSUME NEW S \in SUBSET Lines PROVE Before(S, 0) = {}
<1> SUFFICES ASSUME NEW l \in S, Position(l, S) <= 0 PROVE FALSE
  BY DEF Before
<1> DEFINE K == {k \in S : k <= l}
<1>1. IsFiniteSet(K)
  BY DirtySetAssumption, FS_Subset
<1>2. l \in K
  BY DirtySetAssumption
<1>3. Cardinality(K) # 0
  BY <1>1, <1>2, FS_EmptySet
<1> QED
  BY <1>1, <1>3, FS_CardinalityType DEF Position

LEMMA StoresGrow ==
  ASSUME TypeOK, NEW t \in Threads, Work(t) \/ Crash(t)
  PROVE  Grows(drafts, drafts') /\ Grows(staged, staged')
<1>1. attempts[t] # Idle
  BY DEF Work, Select, Upsert, Stage, Answer, Crash, Idle
<1>2. ASSUME NEW L \in SUBSET InHand(t), NEW store, store \in [Lines -> SUBSET Factor]
      PROVE  Grows(store, Write(store, L, attempts[t].factors))
  <2>1. L \in SUBSET Lines /\ \A l \in L : AccountOf[l] \in DOMAIN attempts[t].factors
    BY <1>1, BatchOfRows
  <2>2. IsTable(attempts[t].factors)
    BY <1>1, BatchOfRows DEF IsAttempt
  <2> QED
    BY <1>2, <2>1, <2>2, WriteWrites DEF Grows
<1>3. drafts \in [Lines -> SUBSET Factor] /\ staged \in [Lines -> SUBSET Factor]
  BY DEF TypeOK
<1>4. CASE Select(t) \/ Answer(t)
  BY <1>4 DEF Select, Answer, storeVars, Grows
<1>5. CASE Upsert(t)
  BY <1>2, <1>3, <1>5 DEF Upsert, Grows
<1>6. CASE Stage(t)
  BY <1>2, <1>3, <1>6 DEF Stage, Grows
<1>7. CASE Crash(t)
  <2> PICK L \in SUBSET InHand(t) : staged' = Write(staged, L, attempts[t].factors)
    BY <1>7 DEF Crash
  <2> QED
    BY <1>2, <1>3, <1>7 DEF Crash, Grows
<1> QED
  BY <1>4, <1>5, <1>6, <1>7 DEF Work

(* The steps of the run itself leave no child in flight that they disturb. *)
LEMMA RunKeeps ==
  ASSUME DInv, Run \/ ContinueAsNew \/ (\E d \in Dags : EditLibrary(d))
  PROVE  DInv'
<1>0. TypeOK'
  BY RunType DEF DInv
<1> DEFINE Quiet == /\ running' = {} /\ Written(drafts', staged', counted')
                    /\ \A p \in Partitions : holder'[p] = NoThread /\ heartbeat'[p] = 0
<1>1. Quiet => DInv'
  BY <1>0 DEF DInv
<1> USE DEF childVars, storeVars, histVars, runVars
<1>2. CASE Load \/ Snapshot \/ Resolve \/ Park \/ BatchDone \/ ContinueAsNew
  <2>1. running = {} /\ running' = {} /\ holder' = holder /\ heartbeat' = heartbeat
        /\ drafts' = drafts /\ staged' = staged /\ counted' = counted
    BY <1>2 DEF Load, Snapshot, Resolve, Park, BatchDone, ContinueAsNew, DInv
  <2> QED
    BY <1>1, <2>1 DEF DInv
<1>3. CASE FailRun
  <2>1. running = {} /\ running' = {} /\ holder' = holder /\ heartbeat' = heartbeat /\ counted' = {}
    BY <1>3 DEF FailRun, DInv
  <2> QED
    BY <1>1, <2>1 DEF DInv, Written
<1>4. ASSUME NEW p \in Partitions, ChildFails(p) PROVE DInv'
  BY <1>1, <1>4 DEF ChildFails, DInv
<1>5. CASE StartBatch
  <2>1. running = {} /\ running' \subseteq Partitions /\ pc' = "running"
        /\ UNCHANGED <<holder, heartbeat, drafts, staged, counted, plan, factors, attempts>>
    BY <1>5 DEF StartBatch, DInv, NextChildren
  <2>2. ASSUME NEW p \in running'
        PROVE  InFlight(RowsOf(plan[p]), heartbeat[p], holder[p], attempts, drafts, staged)
    <3>1. holder[p] = NoThread /\ heartbeat[p] = 0
      BY <2>1, <2>2 DEF DInv
    <3>2. Before(RowsOf(plan[p]), 0) = {}
      BY RowsAreLines, NothingBeforeTheFirst
    <3> QED
      BY <3>1, <3>2 DEF InFlight, Written
  <2>3. \A p \in running' : RowsOf(plan[p])' = RowsOf(plan[p])
    BY <2>1 DEF RowsOf
  <2> QED
    BY <1>0, <2>1, <2>2, <2>3 DEF DInv
<1>6. ASSUME NEW d \in Dags, EditLibrary(d) PROVE DInv'
  <2>1. UNCHANGED <<pc, running, holder, heartbeat, drafts, staged, counted, plan, factors, attempts>>
    BY <1>6 DEF EditLibrary
  <2>2. \A p \in running : RowsOf(plan[p])' = RowsOf(plan[p])
    BY <2>1 DEF RowsOf
  <2> QED
    BY <1>0, <2>1, <2>2 DEF DInv
<1> QED
  BY <1>2, <1>3, <1>4, <1>5, <1>6 DEF Run

LEMMA TakeKeeps ==
  ASSUME DInv, NEW t \in Threads, NEW p \in Partitions, Take(t, p)
  PROVE  DInv'
<1> DEFINE new == [at |-> "select", rows |-> RowsOf(plan[p]), factors |-> factors,
                   offset |-> Handed(p), beat |-> Handed(p)]
<1>0. TypeOK'
  BY TakeType DEF DInv
<1>1. /\ p \in running /\ attempts[t] = Idle
      /\ attempts' = [attempts EXCEPT ![t] = new]
      /\ holder' = [holder EXCEPT ![p] = t]
      /\ heartbeat' = [heartbeat EXCEPT ![p] = Handed(p)]
      /\ UNCHANGED <<pc, running, drafts, staged, counted, plan, factors>>
  BY DEF Take, runVars, storeVars, histVars
<1>2. \A q \in Partitions : RowsOf(plan[q])' = RowsOf(plan[q])
  BY <1>1 DEF RowsOf
<1>3. ASSUME NEW q \in running
      PROVE  InFlight(RowsOf(plan[q]), heartbeat'[q], holder'[q], attempts', drafts, staged)
  <2>1. InFlight(RowsOf(plan[q]), heartbeat[q], holder[q], attempts, drafts, staged) /\ q \in Partitions
    BY DEF DInv, TypeOK
  <2>2. CASE q = p
    <3>0. Written(drafts, staged, Before(RowsOf(plan[p]), Handed(p)))
      <4>1. Before(RowsOf(plan[p]), 0) = {}
        BY RowsAreLines, NothingBeforeTheFirst
      <4> QED
        BY <2>1, <2>2, <4>1 DEF InFlight, Handed, Written
    <3>1. holder'[q] = t /\ attempts'[t] = new /\ heartbeat'[q] = Handed(p)
      BY <1>1, <2>2 DEF DInv, TypeOK
    <3>2. new # Idle
      BY DEF Idle
    <3>3. new.beat <= new.offset
      BY DEF DInv, TypeOK, Handed
    <3>4. Sound(new, RowsOf(plan[p]), drafts, staged)
      BY <3>0, <3>2, <3>3 DEF Sound
    <3> QED
      BY <2>2, <3>0, <3>1, <3>4 DEF InFlight
  <2>3. CASE q # p
    <3>1. holder'[q] = holder[q] /\ heartbeat'[q] = heartbeat[q]
      BY <1>1, <2>3 DEF DInv, TypeOK
    <3>2. ASSUME holder[q] # NoThread PROVE attempts'[holder[q]] = attempts[holder[q]]
      <4>1. attempts[holder[q]] # Idle
        BY <2>1, <3>2 DEF InFlight, Sound
      <4> QED
        BY <1>1, <2>1, <3>2, <4>1 DEF DInv, TypeOK
    <3> QED
      BY <2>1, <3>1, <3>2 DEF InFlight
  <2> QED
    BY <2>2, <2>3
<1>4. \A q \in Partitions \ running : holder'[q] = NoThread /\ heartbeat'[q] = 0
  <2> SUFFICES ASSUME NEW q \in Partitions \ running PROVE holder'[q] = NoThread /\ heartbeat'[q] = 0
    OBVIOUS
  <2>1. q # p /\ holder[q] = NoThread /\ heartbeat[q] = 0
    BY <1>1 DEF DInv
  <2> QED
    BY <1>1, <2>1 DEF DInv, TypeOK
<1>5. ASSUME NEW q \in running'
      PROVE  InFlight(RowsOf(plan[q]), heartbeat[q], holder[q], attempts, drafts, staged)'
  <2>1. q \in running /\ q \in Partitions /\ drafts' = drafts /\ staged' = staged
    BY <1>1, <1>5 DEF DInv, TypeOK
  <2> HIDE DEF new
  <2> QED
    BY <1>2, <1>3, <2>1
<1>6. pc' = pc /\ running' = running /\ Written(drafts', staged', counted')
  BY <1>1 DEF DInv
<1> HIDE DEF new
<1> QED
  BY <1>0, <1>4, <1>5, <1>6 DEF DInv

(* One step of the work keeps what the cursor stands for.                  *)
LEMMA WorkIsSound ==
  ASSUME DInv, NEW t \in Threads, Select(t) \/ Upsert(t) \/ Stage(t),
         NEW rows \in SUBSET Lines, Sound(attempts[t], rows, drafts, staged)
  PROVE  Sound(attempts'[t], rows, drafts', staged')
<1> DEFINE a == attempts[t]
           n == Fetched(rows, a.offset)
           next == a.offset + n
<1>0. TypeOK /\ a # Idle /\ a.rows = rows
  BY DEF DInv, Sound
<1>1. IsAttempt(a) /\ a.offset \in Nat /\ a.beat \in Nat
  BY <1>0, BatchOfRows DEF IsAttempt
<1>2. n \in Nat /\ n <= BatchSize /\ next \in Nat /\ a.beat <= next
  <2>1. n \in Nat /\ n <= BatchSize
    BY <1>1, ShortPage
  <2>2. a.beat <= a.offset
    BY DEF Sound
  <2> HIDE DEF a, n
  <2> QED
    BY <1>1, <2>1, <2>2
<1>3. Grows(drafts, drafts') /\ Grows(staged, staged')
  BY <1>0, StoresGrow DEF Work
<1>4. Sound(a, rows, drafts', staged')
  BY <1>3, SoundGrows
<1>5. ASSUME NEW at, NEW offset, NEW beat, Goes(t, at, offset, beat)
      PROVE  attempts'[t] = [at |-> at, rows |-> rows, factors |-> a.factors,
                             offset |-> offset, beat |-> beat]
  BY <1>0, <1>5 DEF Goes, TypeOK
<1>6. ASSUME NEW at, NEW offset, NEW beat, at # "idle"
      PROVE  [at |-> at, rows |-> rows, factors |-> a.factors, offset |-> offset, beat |-> beat] # Idle
  BY DEF Idle
<1>7. CASE Select(t)
  <2>1. Goes(t, IF n = 0 THEN "answer" ELSE "upsert", a.offset, a.offset)
    BY <1>0, <1>7 DEF Select
  <2>2. n = 0 => Written(drafts', staged', rows)
    BY <1>1, <1>4, ShortPage DEF Sound, Written
  <2> DEFINE at == IF n = 0 THEN "answer" ELSE "upsert"
  <2>3. at # "idle" /\ at # "stage" /\ (at = "answer" => n = 0)
    OBVIOUS
  <2> HIDE DEF at, n
  <2>4. attempts'[t] = [at |-> at, rows |-> rows, factors |-> a.factors,
                        offset |-> a.offset, beat |-> a.offset]
    BY <1>5, <2>1 DEF at
  <2> HIDE DEF a
  <2> QED
    BY <1>1, <1>4, <1>6, <2>2, <2>3, <2>4 DEF Sound
<1>8. CASE Upsert(t)
  <2>1. attempts'[t] = [at |-> "stage", rows |-> rows, factors |-> a.factors,
                        offset |-> a.offset, beat |-> a.beat]
    BY <1>5, <1>8 DEF Upsert
  <2>2. \A l \in Batch(rows, a.offset) : drafts'[l] # NoRow
    <3>1. InHand(t) = Batch(rows, a.offset) /\ IsTable(a.factors) /\ InHand(t) \in SUBSET Lines
      BY <1>0, <1>1, BatchOfRows DEF InHand, IsAttempt
    <3>2. \A l \in InHand(t) : AccountOf[l] \in DOMAIN a.factors
      BY <1>0, BatchOfRows
    <3>3. drafts' = Write(drafts, InHand(t), a.factors) /\ drafts \in [Lines -> SUBSET Factor]
      BY <1>0, <1>8 DEF Upsert, TypeOK
    <3> HIDE DEF a
    <3> QED
      BY <3>1, <3>2, <3>3, WriteWrites
  <2> HIDE DEF a
  <2> QED
    BY <1>4, <1>6, <2>1, <2>2 DEF Sound
<1>9. CASE Stage(t)
  <2>1. (Goes(t, "answer", next, next) /\ n < BatchSize) \/ Goes(t, "select", next, a.beat)
    BY <1>0, <1>9 DEF Stage
  <2>2. \A l \in Batch(rows, a.offset) : drafts'[l] # NoRow /\ staged'[l] # NoRow
    <3>1. InHand(t) = Batch(rows, a.offset) /\ IsTable(a.factors) /\ InHand(t) \in SUBSET Lines
      BY <1>0, <1>1, BatchOfRows DEF InHand, IsAttempt
    <3>2. \A l \in InHand(t) : AccountOf[l] \in DOMAIN a.factors
      BY <1>0, BatchOfRows
    <3>3. staged' = Write(staged, InHand(t), a.factors) /\ staged \in [Lines -> SUBSET Factor]
      BY <1>0, <1>9 DEF Stage, TypeOK
    <3>4. \A l \in Batch(rows, a.offset) : drafts[l] # NoRow
      BY <1>9 DEF Stage, Sound
    <3>5. drafts' = drafts
      BY <1>9 DEF Stage
    <3> HIDE DEF a
    <3> QED
      BY <3>1, <3>2, <3>3, <3>4, <3>5, WriteWrites
  <2>3. Written(drafts', staged', Before(rows, next))
    <3> SUFFICES ASSUME NEW l \in Before(rows, next) PROVE drafts'[l] # NoRow /\ staged'[l] # NoRow
      BY DEF Written
    <3>1. l \in Before(rows, a.offset) \/ l \in Batch(rows, a.offset)
      BY <1>1, NextPage
    <3> HIDE DEF next, n
    <3> QED
      BY <1>4, <2>2, <3>1 DEF Sound, Written
  <2>4. n < BatchSize => Written(drafts', staged', rows)
    <3>1. n < BatchSize => rows \subseteq Before(rows, next)
      BY <1>1, ShortPage
    <3> HIDE DEF next, n
    <3> QED
      BY <2>3, <3>1 DEF Written
  <2> HIDE DEF next, n
  <2>5. CASE Goes(t, "answer", next, next) /\ n < BatchSize
    <3>1. attempts'[t] = [at |-> "answer", rows |-> rows, factors |-> a.factors,
                          offset |-> next, beat |-> next]
      BY <1>5, <2>5
    <3> HIDE DEF a
    <3> QED
      BY <1>2, <1>6, <2>3, <2>4, <2>5, <3>1 DEF Sound
  <2>6. CASE Goes(t, "select", next, a.beat)
    <3>1. attempts'[t] = [at |-> "select", rows |-> rows, factors |-> a.factors,
                          offset |-> next, beat |-> a.beat]
      BY <1>5, <2>6
    <3> HIDE DEF a
    <3> QED
      BY <1>2, <1>6, <2>3, <3>1 DEF Sound
  <2> QED
    BY <2>1, <2>5, <2>6
<1> QED
  BY <1>7, <1>8, <1>9

LEMMA WorkKeeps ==
  ASSUME DInv, NEW t \in Threads, Select(t) \/ Upsert(t) \/ Stage(t)
  PROVE  DInv'
<1>0. TypeOK'
  BY WorkType DEF DInv, Work
<1>1. Grows(drafts, drafts') /\ Grows(staged, staged')
  BY StoresGrow DEF DInv, Work
<1>2. /\ UNCHANGED <<pc, running, holder, heartbeat, counted, plan, factors>>
      /\ \A u \in Threads \ {t} : attempts'[u] = attempts[u]
  BY DEF Select, Upsert, Stage, Goes, runVars, childVars, histVars, DInv, TypeOK
<1>3. ASSUME NEW p \in running
      PROVE  InFlight(RowsOf(plan[p]), heartbeat[p], holder[p], attempts', drafts', staged')
  <2>0. InFlight(RowsOf(plan[p]), heartbeat[p], holder[p], attempts, drafts, staged)
        /\ RowsOf(plan[p]) \in SUBSET Lines /\ holder[p] \in Threads \cup {NoThread}
    BY RowsAreLines DEF DInv, TypeOK
  <2>1. Written(drafts', staged', Before(RowsOf(plan[p]), heartbeat[p]))
    <3>1. Before(RowsOf(plan[p]), heartbeat[p]) \in SUBSET Lines
      BY <2>0 DEF Before
    <3> QED
      BY <1>1, <2>0, <3>1, WrittenGrows DEF InFlight
  <2>2. CASE holder[p] = t
    BY <2>0, <2>1, <2>2, WorkIsSound DEF InFlight
  <2>3. CASE holder[p] \in Threads \ {t}
    <3>1. attempts'[holder[p]] = attempts[holder[p]]
      BY <1>2, <2>3
    <3>2. Sound(attempts[holder[p]], RowsOf(plan[p]), drafts, staged)
      BY <2>0, <2>3, DirtySetAssumption DEF InFlight
    <3>3. Sound(attempts[holder[p]], RowsOf(plan[p]), drafts', staged')
      BY <1>1, <2>0, <3>2, SoundGrows
    <3> QED
      BY <2>1, <3>1, <3>3 DEF InFlight
  <2>4. CASE holder[p] = NoThread
    BY <2>1, <2>4 DEF InFlight
  <2> QED
    BY <2>0, <2>2, <2>3, <2>4
<1>4. \A p \in running : RowsOf(plan[p])' = RowsOf(plan[p])
  BY <1>2 DEF RowsOf
<1>5. Written(drafts', staged', counted')
  BY <1>1, <1>2, WrittenGrows DEF DInv, TypeOK
<1> QED
  BY <1>0, <1>2, <1>3, <1>4, <1>5 DEF DInv

(* Stepping back from a child, by an answer or a death, disturbs no other. *)
LEMMA LeaveKeeps ==
  ASSUME DInv, NEW t \in Threads, Answer(t) \/ Crash(t)
  PROVE  DInv'
<1>0. TypeOK'
  BY WorkType, CrashType DEF DInv, Work
<1>1. Grows(drafts, drafts') /\ Grows(staged, staged')
  BY StoresGrow DEF DInv, Work
<1>2. /\ UNCHANGED <<pc, plan, factors>> /\ running' \subseteq running
      /\ attempts' = [attempts EXCEPT ![t] = Idle]
      /\ \A p \in Partitions : holder'[p] = IF p \in Holds(t) THEN NoThread ELSE holder[p]
  BY DEF Answer, Crash, runVars
<1>3. \A p \in Partitions : heartbeat'[p] = heartbeat[p] \/ (heartbeat'[p] = 0 /\ p \notin running')
  BY DEF Answer, Crash, DInv, TypeOK
<1>4. ASSUME NEW p \in running'
      PROVE  InFlight(RowsOf(plan[p]), heartbeat'[p], holder'[p], attempts', drafts', staged')
  <2>0. /\ p \in running /\ p \in Partitions /\ heartbeat'[p] = heartbeat[p]
        /\ InFlight(RowsOf(plan[p]), heartbeat[p], holder[p], attempts, drafts, staged)
        /\ RowsOf(plan[p]) \in SUBSET Lines /\ holder[p] \in Threads \cup {NoThread}
    BY <1>2, <1>3, RowsAreLines DEF DInv, TypeOK
  <2>1. Written(drafts', staged', Before(RowsOf(plan[p]), heartbeat[p]))
    <3>1. Before(RowsOf(plan[p]), heartbeat[p]) \in SUBSET Lines
      BY <2>0 DEF Before
    <3> QED
      BY <1>1, <2>0, <3>1, WrittenGrows DEF InFlight
  <2>2. ASSUME holder'[p] # NoThread
        PROVE  Sound(attempts'[holder'[p]], RowsOf(plan[p]), drafts', staged')
    <3>1. holder'[p] = holder[p] /\ holder[p] # t /\ holder[p] \in Threads
      BY <1>2, <2>0, <2>2 DEF Holds
    <3>2. attempts'[holder[p]] = attempts[holder[p]]
      BY <1>2, <3>1 DEF DInv, TypeOK
    <3>3. Sound(attempts[holder[p]], RowsOf(plan[p]), drafts, staged)
      BY <2>0, <2>2, <3>1 DEF InFlight
    <3>4. Sound(attempts[holder[p]], RowsOf(plan[p]), drafts', staged')
      BY <1>1, <2>0, <3>3, SoundGrows
    <3> QED
      BY <3>1, <3>2, <3>4
  <2> QED
    BY <2>0, <2>1, <2>2 DEF InFlight
<1>5. \A p \in running : RowsOf(plan[p])' = RowsOf(plan[p])
  BY <1>2 DEF RowsOf
<1>6. Written(drafts', staged', counted')
  <2>1. Written(drafts', staged', counted)
    BY <1>1, WrittenGrows DEF DInv, TypeOK
  <2>2. CASE counted' = counted
    BY <2>1, <2>2
  <2>3. CASE counted' # counted
    <3>1. Answer(t) /\ Holds(t) # {} /\ counted' = counted \cup attempts[t].rows
      BY <2>3 DEF Answer, Crash, histVars
    <3>2. PICK p \in running : holder[p] = t
      BY <3>1 DEF Holds
    <3>3. Sound(attempts[t], RowsOf(plan[p]), drafts, staged)
      BY <3>2, DirtySetAssumption DEF DInv, InFlight
    <3>4. Written(drafts, staged, attempts[t].rows)
      BY <3>1, <3>3 DEF Sound, Answer
    <3>5. drafts' = drafts /\ staged' = staged
      BY <3>1 DEF Answer, storeVars
    <3> QED
      BY <2>1, <3>1, <3>4, <3>5 DEF Written
  <2> QED
    BY <2>2, <2>3
<1>7. \A p \in Partitions \ running' : holder'[p] = NoThread /\ heartbeat'[p] = 0
  BY DEF Answer, Crash, Holds, DInv, TypeOK
<1>8. pc' # "running" => running' = {}
  BY <1>2 DEF DInv
<1> QED
  BY <1>0, <1>2, <1>4, <1>5, <1>6, <1>7, <1>8 DEF DInv

LEMMA ServerKeeps ==
  ASSUME DInv, NEW p \in Partitions,
         GiveUp(p) \/ \E t \in Threads : DeliverHeartbeat(t, p)
  PROVE  DInv'
<1>0. TypeOK'
  BY ServerType
<1>1. p \in running /\ UNCHANGED <<pc, plan, factors, running, attempts, drafts, staged, counted>>
  BY DEF GiveUp, DeliverHeartbeat, Holds, runVars, storeVars, histVars
<1>2. \A q \in running : RowsOf(plan[q])' = RowsOf(plan[q])
  BY <1>1 DEF RowsOf
<1>3. ASSUME NEW q \in running
      PROVE  InFlight(RowsOf(plan[q]), heartbeat'[q], holder'[q], attempts, drafts, staged)
  <2>0. InFlight(RowsOf(plan[q]), heartbeat[q], holder[q], attempts, drafts, staged) /\ q \in Partitions
    BY DEF DInv, TypeOK
  <2>1. CASE GiveUp(p)
    BY <2>0, <2>1 DEF GiveUp, InFlight, DInv, TypeOK
  <2>2. ASSUME NEW t \in Threads, DeliverHeartbeat(t, p)
        PROVE  InFlight(RowsOf(plan[q]), heartbeat'[q], holder'[q], attempts, drafts, staged)
    <3>1. holder[p] = t /\ holder' = holder /\ heartbeat' = [heartbeat EXCEPT ![p] = attempts[t].beat]
      BY <2>2 DEF DeliverHeartbeat, Holds
    <3>2. CASE q # p
      BY <2>0, <3>1, <3>2 DEF DInv, TypeOK
    <3>3. CASE q = p
      <4> DEFINE rows == RowsOf(plan[p])
                 a == attempts[t]
      <4>1. Sound(a, rows, drafts, staged)
        BY <1>1, <3>1, DirtySetAssumption DEF DInv, InFlight
      <4>2. a.beat \in Nat /\ a.offset \in Nat /\ rows \in SUBSET Lines
        BY <4>1, RowsAreLines DEF DInv, TypeOK, Sound, IsAttempt
      <4>3. heartbeat'[p] = a.beat
        BY <3>1 DEF DInv, TypeOK
      <4> HIDE DEF rows, a
      <4>4. Before(rows, a.beat) \subseteq Before(rows, a.offset)
        BY <4>1, <4>2, EarlierIsLess DEF Sound
      <4>5. Written(drafts, staged, Before(rows, a.beat))
        BY <4>1, <4>4 DEF Sound, Written
      <4> QED
        BY <2>0, <3>1, <3>3, <4>3, <4>5 DEF InFlight, rows
    <3> QED
      BY <3>2, <3>3
  <2> QED
    BY <2>1, <2>2
<1>4. \A q \in Partitions \ running : holder'[q] = NoThread /\ heartbeat'[q] = 0
  BY <1>1 DEF GiveUp, DeliverHeartbeat, DInv, TypeOK
<1> QED
  BY <1>0, <1>1, <1>2, <1>3, <1>4 DEF DInv

LEMMA InitInv == Init => DInv
BY InitType DEF Init, DInv, Written

LEMMA StutterInv == ASSUME DInv, UNCHANGED vars PROVE DInv'
<1>1. TypeOK'
  BY NextType
<1>2. UNCHANGED <<pc, plan, factors, running, holder, heartbeat, attempts, drafts, staged, counted>>
  BY DEF vars, runVars, childVars, storeVars, histVars
<1>3. \A q \in running : RowsOf(plan[q])' = RowsOf(plan[q])
  BY <1>2 DEF RowsOf
<1> QED
  BY <1>1, <1>2, <1>3 DEF DInv

LEMMA Inductive == DInv /\ [Next]_vars => DInv'
BY StutterInv, RunKeeps, TakeKeeps, WorkKeeps, LeaveKeeps, ServerKeeps DEF Next, TakeAny, Work

(* Every variable of the computation keeps its type, whatever the library, *)
(* the plan, the batch size and the number of threads and attempts: no     *)
(* child makes more attempts than it has, and no account is in the factors *)
(* without one (activities.py:433, engine.py:110).                         *)
THEOREM TypeCorrect == Spec => []TypeOK
<1>1. DInv => TypeOK
  BY DEF DInv
<1> QED
  BY <1>1, InitInv, Inductive, PTL DEF Spec

(* Whatever attempts are given up, crash in the middle of a batch, or      *)
(* start from an old heartbeat while their predecessors still write, the   *)
(* lines of a partition whose child answered are in both stores            *)
(* (activities.py:433-518).                                                *)
THEOREM CountedIsWrittenAlways == Spec => []CountedIsWritten
<1>1. DInv => CountedIsWritten
  BY DEF DInv, Written, CountedIsWritten
<1> QED
  BY <1>1, InitInv, Inductive, PTL DEF Spec

----------------------------------------------------------------------------
(***************************************************************************)
(* Induction over a finite set and up to a number, for a predicate that is *)
(* given as the set of what satisfies it.                                  *)
(***************************************************************************)
LEMMA SubsetInduction ==
  ASSUME NEW S, IsFiniteSet(S), NEW Good,
         \A T \in SUBSET S : (\A x \in T : T \ {x} \in Good) => T \in Good
  PROVE  S \in Good
<1> DEFINE Bad == (SUBSET S) \ Good
<1>1. SUFFICES ASSUME S \notin Good PROVE FALSE
  OBVIOUS
<1>2. Bad # {} /\ Bad \subseteq SUBSET S
  BY <1>1
<1>3. IsWellFoundedOn(StrictSubsetOrdering(S), SUBSET S)
  BY FS_StrictSubsetOrderingWellFounded, FS_FiniteSubsetsOfFinite
<1>4. PICK T \in Bad : \A U \in Bad : <<U, T>> \notin StrictSubsetOrdering(S)
  <2> HIDE DEF Bad
  <2> QED
    BY <1>2, <1>3, WFMin
<1>5. \A x \in T : <<T \ {x}, T>> \in StrictSubsetOrdering(S)
  BY DEF StrictSubsetOrdering
<1>6. \A x \in T : T \ {x} \in Good
  BY <1>4, <1>5
<1> QED
  BY <1>6

(* Induction up to a number.                                               *)
LEMMA CountingUp ==
  ASSUME NEW n \in Nat, NEW Good, \A m \in 0 .. n : (m # 0 => m - 1 \in Good) => m \in Good
  PROVE  n \in Good
<1> DEFINE S == 0 .. n
           Fine == {T \in SUBSET S : \A m \in S : T = 0 .. m => m \in Good}
<1>1. ASSUME NEW T \in SUBSET S, \A x \in T : T \ {x} \in Fine, NEW m \in S, T = 0 .. m
      PROVE  m \in Good
  <2>1. CASE m = 0
    BY <2>1
  <2>2. CASE m # 0
    <3>1. m - 1 \in S /\ m \in T /\ T \ {m} = 0 .. m - 1
      BY <1>1, <2>2
    <3>2. T \ {m} \in Fine
      BY <1>1, <3>1
    <3>3. m - 1 \in Good
      BY <3>1, <3>2
    <3> QED
      BY <3>3
  <2> QED
    BY <2>1, <2>2
<1>2. S \in Fine
  <2>1. \A T \in SUBSET S : (\A x \in T : T \ {x} \in Fine) => T \in Fine
    BY <1>1
  <2>2. IsFiniteSet(S)
    BY FS_Interval
  <2> HIDE DEF Fine, S
  <2> QED
    BY <2>1, <2>2, SubsetInduction
<1> QED
  BY <1>2

----------------------------------------------------------------------------
(***************************************************************************)
(* The cut.  A partition is fair when its count is that of its cells, it   *)
(* has a line, and only a single cell outgrows the target.                 *)
(***************************************************************************)
Cells == {<<Scenarios[i], Months[j]>> : i \in DOMAIN Scenarios, j \in DOMAIN Months}
Parts == [cells : SUBSET Cells, rows : Nat]

Dirty(accounts, C) == {l \in LinesOf(accounts) : CellOf[l] \in C}
Count(accounts, C) == Cardinality(Dirty(accounts, C))

Fair(accounts, part) ==
  /\ part.rows = Count(accounts, part.cells) /\ part.rows # 0
  /\ part.rows > TargetSize => Cardinality(part.cells) = 1
  /\ \A c1, c2 \in part.cells : c1[1] = c2[1]

(* The partitions of a plan take in the cells V and no other.              *)
Splits(accounts, parts, V) ==
  /\ parts \in Seq(Parts)
  /\ \A p \in 1 .. Len(parts) : Fair(accounts, parts[p]) /\ parts[p].cells \subseteq V
  /\ \A c \in V : \E p \in 1 .. Len(parts) : c \in parts[p].cells

Apart(parts) ==
  \A p, q \in 1 .. Len(parts) : p # q => parts[p].cells \cap parts[q].cells = {}

LEMMA CountIsNat ==
  ASSUME NEW accounts, NEW C
  PROVE  /\ IsFiniteSet(Dirty(accounts, C)) /\ Count(accounts, C) \in Nat
         /\ Count(accounts, C) = 0 => Dirty(accounts, C) = {}
<1>1. Dirty(accounts, C) \in SUBSET Lines
  BY DEF Dirty, LinesOf
<1>2. IsFiniteSet(Dirty(accounts, C))
  BY <1>1, DirtySetAssumption, FS_Subset
<1> QED
  BY <1>2, FS_CardinalityType, FS_EmptySet DEF Count

LEMMA CountAdds ==
  ASSUME NEW accounts, NEW C, NEW D, C \cap D = {}
  PROVE  Count(accounts, C \cup D) = Count(accounts, C) + Count(accounts, D)
<1> DEFINE S == Dirty(accounts, C)
           T == Dirty(accounts, D)
<1>1. IsFiniteSet(S) /\ IsFiniteSet(T) /\ Cardinality(S) \in Nat /\ Cardinality(T) \in Nat
  BY CountIsNat DEF Count
<1>2. S \cup T = Dirty(accounts, C \cup D) /\ S \cap T = {}
  BY DEF Dirty
<1>3. Cardinality(S \cap T) = 0
  BY <1>2, FS_EmptySet
<1>4. Cardinality(S \cup T) = Cardinality(S) + Cardinality(T) - Cardinality(S \cap T)
  BY <1>1, FS_Union
<1> HIDE DEF S, T
<1>5. Cardinality(S \cup T) = Cardinality(S) + Cardinality(T)
  BY <1>1, <1>3, <1>4
<1> QED
  BY <1>2, <1>5 DEF Count, S, T

LEMMA SplitsMore ==
  ASSUME NEW accounts, NEW parts, NEW V, Splits(accounts, parts, V),
         NEW part \in Parts, Fair(accounts, part)
  PROVE  /\ Splits(accounts, Append(parts, part), V \cup part.cells)
         /\ Len(Append(parts, part)) = Len(parts) + 1
         /\ Apart(parts) /\ V \cap part.cells = {} => Apart(Append(parts, part))
<1> DEFINE more == Append(parts, part)
           n == Len(parts)
<1>1. parts \in Seq(Parts) /\ n \in Nat
  BY DEF Splits
<1>2. /\ more \in Seq(Parts) /\ Len(more) = n + 1 /\ more[n + 1] = part
      /\ \A p \in 1 .. n : more[p] = parts[p]
  BY <1>1
<1>3. \A p \in 1 .. n + 1 : p \in 1 .. n \/ p = n + 1
  BY <1>1
<1>4. n + 1 \in 1 .. n + 1 /\ \A p \in 1 .. n : p \in 1 .. n + 1
  BY <1>1
<1> HIDE DEF more
<1>5. \A p \in 1 .. Len(more) : Fair(accounts, more[p]) /\ more[p].cells \subseteq V \cup part.cells
  BY <1>2, <1>3 DEF Splits
<1>6. \A c \in V \cup part.cells : \E p \in 1 .. Len(more) : c \in more[p].cells
  <2> SUFFICES ASSUME NEW c \in V \cup part.cells PROVE \E p \in 1 .. n + 1 : c \in more[p].cells
    BY <1>2
  <2>1. CASE c \in part.cells
    BY <1>2, <1>4, <2>1
  <2>2. CASE c \in V
    <3>1. PICK p \in 1 .. n : c \in parts[p].cells
      BY <2>2 DEF Splits
    <3> QED
      BY <1>2, <1>4, <3>1
  <2> QED
    BY <2>1, <2>2
<1>7. Apart(parts) /\ V \cap part.cells = {} => Apart(more)
  <2> SUFFICES ASSUME Apart(parts), V \cap part.cells = {},
                      NEW p \in 1 .. n + 1, NEW q \in 1 .. n + 1, p # q
               PROVE  more[p].cells \cap more[q].cells = {}
    BY <1>2 DEF Apart
  <2>1. CASE p \in 1 .. n /\ q \in 1 .. n
    BY <1>2, <2>1 DEF Apart
  <2>2. CASE p \in 1 .. n /\ q = n + 1
    BY <1>2, <2>2 DEF Splits
  <2>3. CASE p = n + 1 /\ q \in 1 .. n
    BY <1>2, <2>3 DEF Splits
  <2> QED
    BY <1>3, <2>1, <2>2, <2>3
<1> QED
  BY <1>2, <1>5, <1>6, <1>7 DEF Splits, more

LEMMA SplitsJoin ==
  ASSUME NEW accounts, NEW left, NEW V, Splits(accounts, left, V),
         NEW right, NEW W, Splits(accounts, right, W)
  PROVE  /\ Splits(accounts, left \o right, V \cup W)
         /\ Len(left \o right) = Len(left) + Len(right)
         /\ Apart(left) /\ Apart(right) /\ V \cap W = {} => Apart(left \o right)
<1> DEFINE both == left \o right
           n == Len(left)
           m == Len(right)
<1>1. left \in Seq(Parts) /\ right \in Seq(Parts) /\ n \in Nat /\ m \in Nat
  BY DEF Splits
<1>2. /\ both \in Seq(Parts) /\ Len(both) = n + m
      /\ \A p \in 1 .. n : both[p] = left[p]
      /\ \A p \in 1 .. m : both[n + p] = right[p]
  BY <1>1
<1>3. \A p \in 1 .. n + m : p \in 1 .. n \/ (p - n \in 1 .. m /\ p = n + (p - n))
  BY <1>1
<1>4. /\ \A p \in 1 .. n : p \in 1 .. n + m
      /\ \A p \in 1 .. m : n + p \in 1 .. n + m
  BY <1>1
<1> HIDE DEF both, n, m
<1>5. ASSUME NEW p \in 1 .. n + m
      PROVE  /\ p \in 1 .. n =>
                  both[p] = left[p] /\ left[p].cells \subseteq V /\ Fair(accounts, left[p])
             /\ p \notin 1 .. n =>
                  /\ p - n \in 1 .. m /\ both[p] = right[p - n]
                  /\ right[p - n].cells \subseteq W /\ Fair(accounts, right[p - n])
  <2>1. CASE p \in 1 .. n
    BY <1>2, <2>1 DEF Splits, n
  <2>2. CASE p \notin 1 .. n
    <3>1. p - n \in 1 .. m /\ p = n + (p - n)
      BY <1>3, <2>2
    <3>2. both[p] = right[p - n]
      BY <1>2, <3>1
    <3> QED
      BY <2>2, <3>1, <3>2 DEF Splits, m
  <2> QED
    BY <2>1, <2>2
<1>6. \A p \in 1 .. n + m : Fair(accounts, both[p]) /\ both[p].cells \subseteq V \cup W
  BY <1>5
<1>7. \A c \in V \cup W : \E p \in 1 .. n + m : c \in both[p].cells
  <2> SUFFICES ASSUME NEW c \in V \cup W PROVE \E p \in 1 .. n + m : c \in both[p].cells
    OBVIOUS
  <2>1. CASE c \in V
    <3>1. PICK p \in 1 .. n : c \in left[p].cells
      BY <2>1 DEF Splits, n
    <3> QED
      BY <1>2, <1>4, <3>1
  <2>2. CASE c \in W
    <3>1. PICK p \in 1 .. m : c \in right[p].cells
      BY <2>2 DEF Splits, m
    <3>2. n + p \in 1 .. n + m /\ both[n + p] = right[p]
      BY <1>2, <1>4
    <3> QED
      BY <3>1, <3>2
  <2> QED
    BY <2>1, <2>2
<1>8. ASSUME Apart(left), Apart(right), V \cap W = {},
             NEW p \in 1 .. n + m, NEW q \in 1 .. n + m, p # q
      PROVE  both[p].cells \cap both[q].cells = {}
  <2>1. CASE p \in 1 .. n /\ q \in 1 .. n
    BY <1>2, <1>8, <2>1 DEF Apart, n
  <2>2. CASE p \notin 1 .. n /\ q \notin 1 .. n
    <3>1. p - n # q - n
      BY <1>1, <1>8
    <3>2. p - n \in 1 .. m /\ q - n \in 1 .. m /\ both[p] = right[p - n] /\ both[q] = right[q - n]
      BY <1>5, <2>2
    <3> QED
      BY <1>8, <3>1, <3>2 DEF Apart, m
  <2>3. CASE p \in 1 .. n /\ q \notin 1 .. n
    BY <1>5, <1>8, <2>3
  <2>4. CASE p \notin 1 .. n /\ q \in 1 .. n
    BY <1>5, <1>8, <2>4
  <2> QED
    BY <2>1, <2>2, <2>3, <2>4
<1>9. both \in Seq(Parts) /\ Len(both) = n + m
  BY <1>2
<1> QED
  BY <1>6, <1>7, <1>8, <1>9 DEF Splits, Apart, both, n, m

(* The cells of one scenario that have a line, up to a month.              *)
Cell(i, j) == <<Scenarios[i], Months[j]>>

Seen(accounts, i, j) == {c \in {Cell(i, k) : k \in 1 .. j} : Count(accounts, {c}) # 0}

Open(cut) == IF cut.cells = {} THEN 0 ELSE 1

CutOk(accounts, cut, i, j) ==
  /\ cut = [plan |-> cut.plan, cells |-> cut.cells, rows |-> cut.rows]
  /\ cut.rows = Count(accounts, cut.cells)
  /\ cut.cells # {} => Fair(accounts, cut)
  /\ cut.cells \subseteq Seen(accounts, i, j)
  /\ Splits(accounts, cut.plan, Seen(accounts, i, j) \ cut.cells)
  /\ Apart(cut.plan)
  /\ Len(cut.plan) + Open(cut) <= j

LEMMA CountsCount ==
  ASSUME NEW accounts, NEW i \in DOMAIN Scenarios, NEW j \in DOMAIN Months
  PROVE  Counts(accounts)[Cell(i, j)] = Count(accounts, {Cell(i, j)})
<1>1. {l \in LinesOf(accounts) : CellOf[l] = Cell(i, j)} = Dirty(accounts, {Cell(i, j)})
  BY DEF Dirty
<1>2. Cell(i, j) \in {<<Scenarios[a], Months[b]>> : a \in DOMAIN Scenarios, b \in DOMAIN Months}
  BY DEF Cell
<1> QED
  BY <1>1, <1>2 DEF Counts, Count

LEMMA SeenMore ==
  ASSUME NEW accounts, NEW i \in DOMAIN Scenarios, NEW j \in 1 .. Len(Months)
  PROVE  /\ Cell(i, j) \notin Seen(accounts, i, j - 1) /\ Seen(accounts, i, j) \subseteq Cells
         /\ Count(accounts, {Cell(i, j)}) = 0 => Seen(accounts, i, j) = Seen(accounts, i, j - 1)
         /\ Count(accounts, {Cell(i, j)}) # 0 =>
              Seen(accounts, i, j) = Seen(accounts, i, j - 1) \cup {Cell(i, j)}
<1>1. 1 .. j = (1 .. j - 1) \cup {j} /\ j \notin 1 .. j - 1
  BY CellsAssumption
<1>2. \A k \in 1 .. j - 1 : Cell(i, k) # Cell(i, j)
  BY <1>1, CellsAssumption DEF Cell
<1>3. Seen(accounts, i, j) \subseteq Cells
  BY CellsAssumption DEF Seen, Cells, Cell
<1> QED
  BY <1>1, <1>2, <1>3 DEF Seen

LEMMA CutGrows ==
  ASSUME NEW accounts, NEW i \in DOMAIN Scenarios, NEW j \in 1 .. Len(Months),
         NEW cut, CutOk(accounts, cut, i, j - 1)
  PROVE  CutOk(accounts, AddCell(cut, Cell(i, j), Count(accounts, {Cell(i, j)}), TargetSize), i, j)
<1> DEFINE cell == Cell(i, j)
           r == Count(accounts, {cell})
           new == AddCell(cut, cell, r, TargetSize)
           before == Seen(accounts, i, j - 1)
           after == Seen(accounts, i, j)
           n == Len(cut.plan)
<1>1. /\ j \in Nat /\ r \in Nat /\ cut.rows \in Nat
      /\ cut.cells \subseteq before /\ Splits(accounts, cut.plan, before \ cut.cells)
      /\ n \in Nat /\ n + Open(cut) <= j - 1
  BY CountIsNat, CellsAssumption DEF CutOk, Splits
<1>2. /\ cell \notin before /\ after \subseteq Cells
      /\ r = 0 => after = before
      /\ r # 0 => after = before \cup {cell}
  BY SeenMore
<1>3. {cell} \cap cut.cells = {} /\ cell[1] = Scenarios[i]
  BY <1>1, <1>2 DEF Cell
<1>4. \A c \in cut.cells : c[1] = Scenarios[i]
  <2> SUFFICES ASSUME NEW c \in Seen(accounts, i, j - 1) PROVE c[1] = Scenarios[i]
    BY <1>1
  <2>1. PICK k \in 1 .. j - 1 : c = Cell(i, k)
    BY DEF Seen
  <2> QED
    BY <2>1 DEF Cell
<1>5. cut.cells = {} => Open(cut) = 0
  BY DEF Open
<1>6. cut.cells # {} => Open(cut) = 1
  BY DEF Open
<1>a. Fair(accounts, [cells |-> {cell}, rows |-> r]) \/ r = 0
  BY FS_Singleton DEF Fair
<1> HIDE DEF cell, r, new, before, after, n
<1>7. CASE r = 0
  <2>1. new = cut
    BY <1>7 DEF AddCell, new
  <2>2. n + Open(cut) <= j
    BY <1>1, <1>5, <1>6
  <2>3. CutOk(accounts, new, i, j)
    BY <1>2, <1>7, <2>1, <2>2 DEF CutOk, before, after, n
  <2> QED
    BY <2>3 DEF new, cell, r
<1>8. CASE r # 0 /\ cut.cells # {} /\ cut.rows + r > TargetSize
  <2> DEFINE part == [cells |-> cut.cells, rows |-> cut.rows]
             parts == Append(cut.plan, part)
  <2>1. new = [plan |-> parts, cells |-> {cell}, rows |-> r]
    BY <1>8 DEF AddCell, Close, new
  <2>2. part \in Parts /\ Fair(accounts, part)
    <3>1. cut.cells \in SUBSET Cells
      BY <1>1, <1>2, <1>8
    <3> QED
      BY <1>1, <1>8, <3>1 DEF Parts, CutOk, Fair
  <2>3. part.cells = cut.cells
    OBVIOUS
  <2>4. (before \ cut.cells) \cap cut.cells = {} /\ (before \ cut.cells) \cup cut.cells = after \ {cell}
        /\ {cell} \subseteq after
    BY <1>1, <1>2, <1>8
  <2>5. Splits(accounts, parts, after \ {cell}) /\ Len(parts) = n + 1 /\ Apart(parts)
    <3> DEFINE V == before \ cut.cells
    <3>1. Apart(cut.plan) /\ Splits(accounts, cut.plan, V)
      BY <1>1 DEF CutOk
    <3>2. V \cap part.cells = {} /\ V \cup part.cells = after \ {cell}
      BY <2>3, <2>4
    <3> HIDE DEF part, V
    <3>3. Splits(accounts, parts, V \cup part.cells) /\ Len(parts) = n + 1 /\ Apart(parts)
      BY <2>2, <3>1, <3>2, SplitsMore DEF n
    <3> QED
      BY <3>2, <3>3
  <2>6. Fair(accounts, new)
    BY <1>a, <1>8, <2>1 DEF Fair
  <2>7. Open(new) = 1 /\ Len(parts) + 1 <= j
    BY <1>1, <1>6, <1>8, <2>1, <2>5 DEF Open
  <2> HIDE DEF parts
  <2>8. /\ new.plan = parts /\ new.cells = {cell} /\ new.rows = r
        /\ new = [plan |-> new.plan, cells |-> new.cells, rows |-> new.rows]
    BY <2>1
  <2>9. Len(new.plan) + Open(new) <= j
    BY <2>7, <2>8
  <2>10. CutOk(accounts, new, i, j)
    BY <2>4, <2>5, <2>6, <2>8, <2>9 DEF CutOk, after, r
  <2> QED
    BY <2>10 DEF new, cell, r
<1>9. CASE r # 0 /\ ~(cut.cells # {} /\ cut.rows + r > TargetSize)
  <2> DEFINE C == cut.cells \cup {cell}
             k == cut.rows + r
  <2>1. new = [plan |-> cut.plan, cells |-> C, rows |-> k]
    BY <1>9 DEF AddCell, CutOk, new
  <2>2. Count(accounts, C) = k
    BY <1>3, CountAdds DEF CutOk, r
  <2>3. k # 0
    BY <1>1, <1>9
  <2>4. ASSUME k > TargetSize PROVE Cardinality(C) = 1
    <3>1. C = {cell}
      BY <1>9, <2>4
    <3> QED
      BY <3>1, FS_Singleton
  <2>5. \A c1, c2 \in C : c1[1] = c2[1]
    BY <1>3, <1>4
  <2>6. C \subseteq after /\ after \ C = before \ cut.cells /\ C # {}
    BY <1>1, <1>2, <1>9
  <2> HIDE DEF C, k
  <2>7. /\ new = [plan |-> new.plan, cells |-> new.cells, rows |-> new.rows]
        /\ new.plan = cut.plan /\ new.cells = C /\ new.rows = k
    BY <2>1
  <2>8. Fair(accounts, new)
    BY <2>2, <2>3, <2>4, <2>5, <2>7 DEF Fair
  <2>9. Open(new) = 1 /\ n + 1 <= j
    BY <1>1, <1>5, <1>6, <2>6, <2>7 DEF Open
  <2>10. Len(new.plan) + Open(new) <= j
    BY <2>7, <2>9 DEF n
  <2>11. Splits(accounts, new.plan, after \ new.cells) /\ Apart(new.plan)
    BY <1>1, <2>6, <2>7 DEF CutOk
  <2>12. CutOk(accounts, new, i, j)
    BY <2>2, <2>6, <2>7, <2>8, <2>10, <2>11 DEF CutOk, after
  <2> QED
    BY <2>12 DEF new, cell, r
<1> QED
  BY <1>7, <1>8, <1>9

IsCut(f, scenario, counts, n) ==
  f = [j \in 0 .. n |->
         IF j = 0 THEN NothingCut
         ELSE AddCell(f[j - 1], <<scenario, Months[j]>>, counts[<<scenario, Months[j]>>], TargetSize)]

LEMMA CutExists ==
  ASSUME NEW scenario, NEW counts
  PROVE  \E f : /\ IsCut(f, scenario, counts, Len(Months))
                /\ Cut(scenario, Months, counts, TargetSize) = f[Len(Months)]
<1> DEFINE Good == {m \in Nat : \E f : IsCut(f, scenario, counts, m)}
<1>1. ASSUME NEW m \in 0 .. Len(Months), m # 0 => m - 1 \in Good
      PROVE  m \in Good
  <2>1. CASE m = 0
    <3> DEFINE f == [j \in 0 .. 0 |-> NothingCut]
    <3>1. IsCut(f, scenario, counts, 0)
      BY DEF IsCut
    <3> HIDE DEF f
    <3> QED
      BY <2>1, <3>1
  <2>2. CASE m # 0
    <3>1. PICK f : IsCut(f, scenario, counts, m - 1)
      BY <1>1, <2>2
    <3> DEFINE g == [j \in 0 .. m |->
                       IF j = m THEN AddCell(f[j - 1], <<scenario, Months[j]>>,
                                             counts[<<scenario, Months[j]>>], TargetSize)
                                ELSE f[j]]
    <3>2. \A j \in 0 .. m : j # m => j \in 0 .. m - 1 /\ (j # 0 => j - 1 \in 0 .. m - 1)
      BY <2>2, CellsAssumption
    <3>3. m - 1 \in 0 .. m /\ m \in 0 .. m /\ \A j \in 0 .. m : j # 0 => j - 1 \in 0 .. m /\ j - 1 # m
      BY <2>2, CellsAssumption
    <3>4. ASSUME NEW j \in 0 .. m
          PROVE  g[j] = IF j = 0 THEN NothingCut
                        ELSE AddCell(g[j - 1], <<scenario, Months[j]>>,
                                     counts[<<scenario, Months[j]>>], TargetSize)
      <4>1. CASE j = m
        <5>1. g[m] = AddCell(f[m - 1], <<scenario, Months[m]>>,
                             counts[<<scenario, Months[m]>>], TargetSize)
          BY <3>3
        <5>2. g[m - 1] = f[m - 1]
          BY <3>3, <2>2
        <5> HIDE DEF g
        <5> QED
          BY <2>2, <4>1, <5>1, <5>2
      <4>2. CASE j # m
        <5>1. g[j] = f[j] /\ (j # 0 => g[j - 1] = f[j - 1])
          BY <3>3, <4>2
        <5>2. f[j] = IF j = 0 THEN NothingCut
                     ELSE AddCell(f[j - 1], <<scenario, Months[j]>>,
                                  counts[<<scenario, Months[j]>>], TargetSize)
          BY <3>1, <3>2, <4>2 DEF IsCut
        <5> HIDE DEF g
        <5> QED
          BY <5>1, <5>2
      <4> QED
        BY <4>1, <4>2
    <3>5. g = [j \in 0 .. m |-> g[j]]
      OBVIOUS
    <3> HIDE DEF g
    <3>6. IsCut(g, scenario, counts, m)
      BY <3>4, <3>5 DEF IsCut
    <3> QED
      BY <3>6
  <2> QED
    BY <2>1, <2>2
<1>2. Len(Months) \in Good
  <2> HIDE DEF Good
  <2> QED
    BY <1>1, CellsAssumption, CountingUp
<1> QED
  BY <1>2 DEF Cut, IsCut

LEMMA CutIsOk ==
  ASSUME NEW accounts, NEW i \in DOMAIN Scenarios
  PROVE  CutOk(accounts, Cut(Scenarios[i], Months, Counts(accounts), TargetSize), i, Len(Months))
<1> DEFINE counts == Counts(accounts)
           n == Len(Months)
<1>1. PICK f : /\ IsCut(f, Scenarios[i], counts, n)
               /\ Cut(Scenarios[i], Months, counts, TargetSize) = f[n]
  BY CutExists
<1> DEFINE Good == {m \in 0 .. n : CutOk(accounts, f[m], i, m)}
<1>2. n \in Nat /\ n \in 0 .. n
  BY CellsAssumption
<1>3. ASSUME NEW m \in 0 .. n, m # 0 => m - 1 \in Good
      PROVE  m \in Good
  <2>1. CASE m = 0
    <3>1. f[0] = NothingCut
      BY <1>1, <2>1 DEF IsCut
    <3>2. Seen(accounts, i, 0) = {}
      BY DEF Seen
    <3>3. Count(accounts, {}) = 0
      <4>1. Dirty(accounts, {}) = {}
        BY DEF Dirty
      <4> QED
        BY <4>1, FS_EmptySet DEF Count
    <3>4. Splits(accounts, << >>, {}) /\ Apart(<< >>)
      BY DEF Splits, Apart
    <3>5. CutOk(accounts, NothingCut, i, 0)
      BY <3>2, <3>3, <3>4 DEF CutOk, NothingCut, Open
    <3> QED
      BY <2>1, <3>1, <3>5
  <2>2. CASE m # 0
    <3>1. m \in 1 .. n /\ m \in DOMAIN Months /\ m - 1 \in Good
      BY <1>2, <1>3, <2>2, CellsAssumption
    <3>2. counts[Cell(i, m)] = Count(accounts, {Cell(i, m)})
      BY <3>1, CountsCount
    <3>3. f[m] = AddCell(f[m - 1], Cell(i, m), counts[Cell(i, m)], TargetSize)
      BY <1>1, <2>2 DEF IsCut, Cell
    <3>4. CutOk(accounts, f[m - 1], i, m - 1)
      BY <3>1
    <3>5. CutOk(accounts, f[m], i, m)
      BY <3>1, <3>2, <3>3, <3>4, CutGrows
    <3> QED
      BY <3>5
  <2> QED
    BY <2>1, <2>2
<1>4. n \in Good
  <2> HIDE DEF Good, n
  <2> QED
    BY <1>2, <1>3, CountingUp
<1> QED
  BY <1>1, <1>4

(* The months of one scenario, the open partition closed.                  *)
PartsOf(accounts, i) == Close(Cut(Scenarios[i], Months, Counts(accounts), TargetSize))

LEMMA CloseSplits ==
  ASSUME NEW accounts, NEW i \in DOMAIN Scenarios
  PROVE  /\ Splits(accounts, PartsOf(accounts, i), Seen(accounts, i, Len(Months)))
         /\ Apart(PartsOf(accounts, i))
         /\ Len(PartsOf(accounts, i)) <= Len(Months)
<1> DEFINE cut == Cut(Scenarios[i], Months, Counts(accounts), TargetSize)
           W == Seen(accounts, i, Len(Months))
           V == W \ cut.cells
           last == [cells |-> cut.cells, rows |-> cut.rows]
           n == Len(cut.plan)
<1>1. CutOk(accounts, cut, i, Len(Months)) /\ PartsOf(accounts, i) = Close(cut)
  BY CutIsOk DEF PartsOf
<1>2. W \subseteq Cells
  BY CellsAssumption DEF Seen, Cells, Cell
<1> HIDE DEF cut
<1>3. /\ Splits(accounts, cut.plan, V) /\ Apart(cut.plan)
      /\ cut.cells # {} => Fair(accounts, cut)
      /\ cut.rows \in Nat /\ cut.cells \subseteq W
      /\ n + Open(cut) <= Len(Months) /\ n \in Nat
  BY <1>1, CountIsNat DEF CutOk, Splits
<1> HIDE DEF W, n
<1>4. CASE cut.cells = {}
  <2>1. Close(cut) = cut.plan /\ V = W /\ Open(cut) = 0
    BY <1>4 DEF Close, Open
  <2> HIDE DEF V
  <2> QED
    BY <1>1, <1>3, <2>1 DEF W, n
<1>5. CASE cut.cells # {}
  <2>1. last \in Parts /\ Fair(accounts, last) /\ last.cells = cut.cells
    BY <1>2, <1>3, <1>5 DEF Fair, Parts
  <2>2. V \cap last.cells = {} /\ V \cup last.cells = W
    BY <1>3, <2>1
  <2>3. Close(cut) = Append(cut.plan, last) /\ Open(cut) = 1
    BY <1>5 DEF Close, Open
  <2> HIDE DEF V, last
  <2>4. Splits(accounts, cut.plan, V) /\ Apart(cut.plan)
    BY <1>3
  <2>5. /\ Splits(accounts, Append(cut.plan, last), V \cup last.cells)
        /\ Len(Append(cut.plan, last)) = n + 1
        /\ Apart(Append(cut.plan, last))
    BY <2>1, <2>2, <2>4, SplitsMore DEF n
  <2> QED
    BY <1>1, <1>3, <2>2, <2>3, <2>4, <2>5 DEF W
<1> QED
  BY <1>4, <1>5

(* Nobody checks that a request names each scenario once: start and        *)
(* resolve_dirty_set compare sets.                                         *)
ScenariosDiffer == \A i, j \in DOMAIN Scenarios : Scenarios[i] = Scenarios[j] => i = j

PlanOf(accounts) == PartitionPlan(Scenarios, Months, Counts(accounts), TargetSize)

SeenAll(accounts, n) == UNION {Seen(accounts, i, Len(Months)) : i \in 1 .. n}

IsPlan(f, accounts, n) ==
  f = [i \in 0 .. n |-> IF i = 0 THEN << >> ELSE f[i - 1] \o PartsOf(accounts, i)]

LEMMA PlanExists ==
  ASSUME NEW accounts
  PROVE  \E f : IsPlan(f, accounts, Len(Scenarios)) /\ PlanOf(accounts) = f[Len(Scenarios)]
<1> DEFINE Good == {m \in Nat : \E f : IsPlan(f, accounts, m)}
<1>1. ASSUME NEW m \in 0 .. Len(Scenarios), m # 0 => m - 1 \in Good
      PROVE  m \in Good
  <2>1. CASE m = 0
    <3> DEFINE f == [i \in 0 .. 0 |-> << >>]
    <3>1. IsPlan(f, accounts, 0)
      BY DEF IsPlan
    <3> HIDE DEF f
    <3> QED
      BY <2>1, <3>1
  <2>2. CASE m # 0
    <3>1. PICK f : IsPlan(f, accounts, m - 1)
      BY <1>1, <2>2
    <3> DEFINE g == [i \in 0 .. m |-> IF i = m THEN f[i - 1] \o PartsOf(accounts, i) ELSE f[i]]
    <3>2. \A i \in 0 .. m : i # m => i \in 0 .. m - 1 /\ (i # 0 => i - 1 \in 0 .. m - 1)
      BY <2>2, CellsAssumption
    <3>3. m - 1 \in 0 .. m /\ m \in 0 .. m /\ \A i \in 0 .. m : i # 0 => i - 1 \in 0 .. m /\ i - 1 # m
      BY <2>2, CellsAssumption
    <3>4. ASSUME NEW i \in 0 .. m
          PROVE  g[i] = IF i = 0 THEN << >> ELSE g[i - 1] \o PartsOf(accounts, i)
      <4>1. CASE i = m
        <5>1. g[m] = f[m - 1] \o PartsOf(accounts, m) /\ g[m - 1] = f[m - 1]
          BY <3>3, <2>2
        <5> HIDE DEF g
        <5> QED
          BY <2>2, <4>1, <5>1
      <4>2. CASE i # m
        <5>1. g[i] = f[i] /\ (i # 0 => g[i - 1] = f[i - 1])
          BY <3>3, <4>2
        <5>2. f[i] = IF i = 0 THEN << >> ELSE f[i - 1] \o PartsOf(accounts, i)
          BY <3>1, <3>2, <4>2 DEF IsPlan
        <5> HIDE DEF g
        <5> QED
          BY <5>1, <5>2
      <4> QED
        BY <4>1, <4>2
    <3>5. g = [i \in 0 .. m |-> g[i]]
      OBVIOUS
    <3> HIDE DEF g
    <3>6. IsPlan(g, accounts, m)
      BY <3>4, <3>5 DEF IsPlan
    <3> QED
      BY <3>6
  <2> QED
    BY <2>1, <2>2
<1>2. Len(Scenarios) \in Good
  <2> HIDE DEF Good
  <2> QED
    BY <1>1, CellsAssumption, CountingUp
<1> QED
  BY <1>2 DEF PlanOf, PartitionPlan, PartsOf, IsPlan

LEMMA PlanSplits ==
  ASSUME NEW accounts
  PROVE  /\ Splits(accounts, PlanOf(accounts), SeenAll(accounts, Len(Scenarios)))
         /\ Len(PlanOf(accounts)) <= Len(Scenarios) * Len(Months)
         /\ ScenariosDiffer => Apart(PlanOf(accounts))
<1> DEFINE n == Len(Scenarios)
           k == Len(Months)
<1>1. PICK f : IsPlan(f, accounts, n) /\ PlanOf(accounts) = f[n]
  BY PlanExists
<1> DEFINE Good == {m \in 0 .. n : /\ Splits(accounts, f[m], SeenAll(accounts, m))
                                   /\ Len(f[m]) <= m * k
                                   /\ ScenariosDiffer => Apart(f[m])}
<1>2. n \in Nat /\ n \in 0 .. n /\ k \in Nat
  BY CellsAssumption
<1>3. ASSUME NEW m \in 0 .. n, m # 0 => m - 1 \in Good
      PROVE  m \in Good
  <2>1. CASE m = 0
    <3>1. f[0] = << >>
      BY <1>1, <2>1 DEF IsPlan
    <3>2. SeenAll(accounts, 0) = {}
      BY DEF SeenAll
    <3>3. Splits(accounts, << >>, {}) /\ Apart(<< >>)
      BY DEF Splits, Apart
    <3>4. Len(<< >>) <= 0 * k
      BY <1>2
    <3> QED
      BY <2>1, <3>1, <3>2, <3>3, <3>4
  <2>2. CASE m # 0
    <3> DEFINE left == f[m - 1]
               V == SeenAll(accounts, m - 1)
               right == PartsOf(accounts, m)
               W == Seen(accounts, m, k)
    <3>1. m \in 1 .. n /\ m \in DOMAIN Scenarios
      BY <1>2, <2>2, CellsAssumption
    <3>2. Splits(accounts, left, V) /\ Len(left) <= (m - 1) * k /\ (ScenariosDiffer => Apart(left))
      BY <1>3, <2>2
    <3>3. Splits(accounts, right, W) /\ Len(right) <= k /\ Apart(right)
      BY <3>1, CloseSplits
    <3>4. f[m] = left \o right
      BY <1>1, <2>2 DEF IsPlan
    <3>5. V \cup W = SeenAll(accounts, m)
      <4>1. 1 .. m = (1 .. m - 1) \cup {m}
        BY <3>1
      <4> QED
        BY <4>1 DEF SeenAll
    <3>6. ScenariosDiffer => V \cap W = {}
      <4> SUFFICES ASSUME ScenariosDiffer, NEW c \in V \cap W PROVE FALSE
        OBVIOUS
      <4>1. PICK i \in 1 .. m - 1 : c \in Seen(accounts, i, k)
        BY DEF SeenAll
      <4>2. c[1] = Scenarios[i] /\ c[1] = Scenarios[m]
        BY <4>1 DEF Seen, Cell
      <4>3. i \in DOMAIN Scenarios /\ i # m
        BY <1>2, <3>1, CellsAssumption
      <4> QED
        BY <3>1, <4>2, <4>3 DEF ScenariosDiffer
    <3>7. Len(left) \in Nat /\ Len(right) \in Nat
      BY <3>2, <3>3 DEF Splits
    <3>8. (m - 1) * k + k = m * k /\ (m - 1) * k \in Nat
      BY <1>2, <3>1
    <3> HIDE DEF left, right, V, W
    <3>9. Splits(accounts, left \o right, V \cup W) /\ Len(left \o right) = Len(left) + Len(right)
      BY <3>2, <3>3, SplitsJoin
    <3>10. ScenariosDiffer => Apart(left \o right)
      BY <3>2, <3>3, <3>6, SplitsJoin
    <3>11. Len(left \o right) <= m * k
      <4> DEFINE a == (m - 1) * k
                 b == m * k
      <4>1. a + k = b /\ a \in Nat /\ Len(left) <= a
        BY <3>2, <3>8
      <4> HIDE DEF a, b
      <4>2. Len(left) + Len(right) <= b
        BY <1>2, <3>3, <3>7, <4>1
      <4> QED
        BY <3>9, <4>2 DEF b
    <3> QED
      BY <3>4, <3>5, <3>9, <3>10, <3>11
  <2> QED
    BY <2>1, <2>2
<1>4. n \in Good
  <2> HIDE DEF Good, n
  <2> QED
    BY <1>2, <1>3, CountingUp
<1> QED
  BY <1>1, <1>4

LEMMA DirtyCellIsSeen ==
  ASSUME NEW accounts, NEW l \in LinesOf(accounts)
  PROVE  CellOf[l] \in SeenAll(accounts, Len(Scenarios))
<1>1. l \in Lines
  BY DEF LinesOf
<1>2. PICK i \in DOMAIN Scenarios, j \in DOMAIN Months : CellOf[l] = Cell(i, j)
  BY <1>1, CellsAssumption DEF Cell
<1>3. Count(accounts, {Cell(i, j)}) # 0
  <2>1. l \in Dirty(accounts, {Cell(i, j)})
    BY <1>2 DEF Dirty
  <2> QED
    BY <2>1, CountIsNat
<1>4. i \in 1 .. Len(Scenarios) /\ j \in 1 .. Len(Months)
  BY CellsAssumption
<1>5. Cell(i, j) \in Seen(accounts, i, Len(Months))
  BY <1>3, <1>4 DEF Seen
<1> QED
  BY <1>2, <1>4, <1>5 DEF SeenAll

PlanInv == pc \in {"batch", "running"} => plan = PlanOf(AffectedAccounts(factors))

LEMMA PlanStays == PlanInv /\ [Next]_vars => PlanInv'
<1> SUFFICES ASSUME PlanInv, [Next]_vars, pc' \in {"batch", "running"}
             PROVE  plan' = PlanOf(AffectedAccounts(factors'))
  BY DEF PlanInv, AffectedAccounts
<1>1. CASE Resolve
  BY <1>1 DEF Resolve, PlanOf
<1>2. CASE ~Resolve
  <2>1. pc \in {"batch", "running"} /\ plan' = plan /\ factors' = factors
    BY <1>2 DEF Next, Run, Load, Snapshot, StartBatch, Park, BatchDone, FailRun, ChildFails,
                ContinueAsNew, TakeAny, Take, EditLibrary, Work, Select, Upsert, Stage, Answer,
                Crash, DeliverHeartbeat, GiveUp, runVars, vars
  <2> QED
    BY <2>1 DEF PlanInv
<1> QED
  BY <1>1, <1>2

LEMMA PlanPartitions == ASSUME ScenariosDiffer, PlanInv PROVE PlanIsPartition
<1> DEFINE accounts == AffectedAccounts(factors)
<1> SUFFICES ASSUME pc \in {"batch", "running"}
             PROVE  /\ \A l \in LinesOf(accounts) :
                         Cardinality({p \in DOMAIN plan : CellOf[l] \in plan[p].cells}) = 1
                    /\ \A p \in DOMAIN plan :
                         /\ plan[p].rows = Cardinality(RowsOf(plan[p])) /\ plan[p].rows > 0
                         /\ plan[p].rows > TargetSize => Cardinality(plan[p].cells) = 1
                         /\ \A c1, c2 \in plan[p].cells : c1[1] = c2[1]
  BY DEF PlanIsPartition
<1>1. plan = PlanOf(accounts)
  BY DEF PlanInv
<1> HIDE DEF accounts
<1>2. Splits(accounts, plan, SeenAll(accounts, Len(Scenarios))) /\ Apart(plan)
  BY <1>1, PlanSplits
<1>3. DOMAIN plan = 1 .. Len(plan)
  BY <1>2 DEF Splits
<1>4. ASSUME NEW l \in LinesOf(accounts)
      PROVE  Cardinality({p \in DOMAIN plan : CellOf[l] \in plan[p].cells}) = 1
  <2>1. PICK p \in DOMAIN plan : CellOf[l] \in plan[p].cells
    BY <1>2, <1>3, DirtyCellIsSeen DEF Splits
  <2>2. {q \in DOMAIN plan : CellOf[l] \in plan[q].cells} = {p}
    BY <1>2, <1>3, <2>1 DEF Apart
  <2> QED
    BY <2>2, FS_Singleton
<1>5. ASSUME NEW p \in DOMAIN plan
      PROVE  /\ plan[p].rows = Cardinality(RowsOf(plan[p])) /\ plan[p].rows > 0
             /\ plan[p].rows > TargetSize => Cardinality(plan[p].cells) = 1
             /\ \A c1, c2 \in plan[p].cells : c1[1] = c2[1]
  <2>1. Fair(accounts, plan[p])
    BY <1>2, <1>3 DEF Splits
  <2>2. RowsOf(plan[p]) = Dirty(accounts, plan[p].cells)
    BY DEF RowsOf, Dirty, accounts
  <2>3. plan[p].rows \in Nat /\ plan[p].rows # 0
    BY <2>1, CountIsNat DEF Fair
  <2> QED
    BY <2>1, <2>2, <2>3 DEF Fair, Count
<1> QED
  BY <1>4, <1>5

(* Whatever the baseline, the shocks and the target size: no baseline row  *)
(* is in two partitions and no dirty one in none, a partition keeps to the *)
(* target unless it is one month, and none is empty - as long as the       *)
(* request names each of its scenarios once (engine.py:185-214,            *)
(* activities.py:400).                                                     *)
THEOREM PlanIsPartitionAlways == ASSUME ScenariosDiffer PROVE Spec => []PlanIsPartition
<1>1. PlanInv => PlanIsPartition
  BY PlanPartitions
<1>2. Init => PlanInv
  BY DEF Init, PlanInv
<1> QED
  BY <1>1, <1>2, PlanStays, PTL DEF Spec

----------------------------------------------------------------------------
(***************************************************************************)
(* What is downstream of a shock.                                          *)
(***************************************************************************)
Walk(f, d, s, n) ==
  f = [m \in 0 .. n |-> IF m = 0 THEN {} ELSE f[m - 1] \cup Children(d, f[m - 1] \cup {s})]

LEMMA WalkExists ==
  ASSUME NEW d, NEW s, IsFiniteSet(DOMAIN d)
  PROVE  \E f : Walk(f, d, s, Cardinality(DOMAIN d)) /\ Dependents(d, s) = f[Cardinality(DOMAIN d)]
<1> DEFINE n == Cardinality(DOMAIN d)
           Good == {m \in Nat : \E f : Walk(f, d, s, m)}
<1>0. n \in Nat
  BY FS_CardinalityType
<1>1. ASSUME NEW m \in 0 .. n, m # 0 => m - 1 \in Good
      PROVE  m \in Good
  <2>1. CASE m = 0
    <3> DEFINE f == [i \in 0 .. 0 |-> {}]
    <3>1. Walk(f, d, s, 0)
      BY DEF Walk
    <3> HIDE DEF f
    <3> QED
      BY <2>1, <3>1
  <2>2. CASE m # 0
    <3>1. PICK f : Walk(f, d, s, m - 1)
      BY <1>1, <2>2
    <3> DEFINE g == [i \in 0 .. m |->
                       IF i = m THEN f[i - 1] \cup Children(d, f[i - 1] \cup {s}) ELSE f[i]]
    <3> HIDE DEF n
    <3>2. \A i \in 0 .. m : i # m => i \in 0 .. m - 1 /\ (i # 0 => i - 1 \in 0 .. m - 1)
      BY <1>0, <2>2
    <3>3. m - 1 \in 0 .. m /\ m \in 0 .. m /\ \A i \in 0 .. m : i # 0 => i - 1 \in 0 .. m /\ i - 1 # m
      BY <1>0, <2>2
    <3>4. ASSUME NEW i \in 0 .. m
          PROVE  g[i] = IF i = 0 THEN {} ELSE g[i - 1] \cup Children(d, g[i - 1] \cup {s})
      <4>1. CASE i = m
        <5>1. g[m] = f[m - 1] \cup Children(d, f[m - 1] \cup {s}) /\ g[m - 1] = f[m - 1]
          BY <3>3, <2>2
        <5> HIDE DEF g
        <5> QED
          BY <2>2, <4>1, <5>1
      <4>2. CASE i # m
        <5>1. g[i] = f[i] /\ (i # 0 => g[i - 1] = f[i - 1])
          BY <3>3, <4>2
        <5>2. f[i] = IF i = 0 THEN {} ELSE f[i - 1] \cup Children(d, f[i - 1] \cup {s})
          BY <3>1, <3>2, <4>2 DEF Walk
        <5> HIDE DEF g
        <5> QED
          BY <5>1, <5>2
      <4> QED
        BY <4>1, <4>2
    <3>5. g = [i \in 0 .. m |-> g[i]]
      OBVIOUS
    <3> HIDE DEF g
    <3>6. Walk(g, d, s, m)
      BY <3>4, <3>5 DEF Walk
    <3> QED
      BY <3>6, <1>0
  <2> QED
    BY <2>1, <2>2
<1>2. n \in Good
  <2> HIDE DEF Good, n
  <2> QED
    BY <1>0, <1>1, CountingUp
<1> QED
  BY <1>2 DEF Dependents, Walk

LEMMA Downstream ==
  ASSUME NEW d, NEW s, IsFiniteSet(DOMAIN d)
  PROVE  /\ Dependents(d, s) \subseteq DOMAIN d
         /\ Children(d, Dependents(d, s) \cup {s}) \subseteq Dependents(d, s)
         /\ \A x \in Dependents(d, s) : d[x] \cap (Dependents(d, s) \cup {s}) # {}
         /\ \A S : s \in S /\ Closed(S, d) => Dependents(d, s) \subseteq S
<1> DEFINE n == Cardinality(DOMAIN d)
           Stops(S) == Children(d, S \cup {s}) \subseteq S
           Fed(S) == \A x \in S : d[x] \cap (S \cup {s}) # {}
           Least(S) == \A T : s \in T /\ Closed(T, d) => S \subseteq T
<1>1. PICK f : Walk(f, d, s, n) /\ Dependents(d, s) = f[n]
  BY WalkExists
<1>2. n \in Nat
  BY FS_CardinalityType
<1> DEFINE Good == {m \in 0 .. n : /\ f[m] \subseteq DOMAIN d
                                   /\ Cardinality(f[m]) >= m \/ Stops(f[m])
                                   /\ Fed(f[m]) /\ Least(f[m])}
<1> HIDE DEF n
<1>3. ASSUME NEW m \in 0 .. n, m # 0 => m - 1 \in Good
      PROVE  m \in Good
  <2>1. CASE m = 0
    <3>1. f[m] = {}
      BY <1>1, <2>1 DEF Walk
    <3> QED
      BY <2>1, <3>1, FS_EmptySet
  <2>2. CASE m # 0
    <3> DEFINE S == f[m - 1]
               C == Children(d, S \cup {s})
    <3>1. f[m] = S \cup C
      BY <1>1, <2>2 DEF Walk
    <3>2. /\ S \subseteq DOMAIN d /\ Fed(S) /\ Least(S)
          /\ Cardinality(S) >= m - 1 \/ Stops(S)
      BY <1>3, <2>2
    <3>3. C \subseteq DOMAIN d /\ \A c \in C : d[c] \cap (S \cup {s}) # {}
      BY DEF Children
    <3>4. ASSUME NEW T, s \in T, Closed(T, d) PROVE S \cup C \subseteq T
      BY <3>2, <3>4 DEF Children, Closed
    <3>5. Cardinality(S \cup C) >= m \/ Stops(S \cup C)
      <4>1. CASE C \subseteq S
        <5>1. S \cup C = S
          BY <4>1
        <5> QED
          BY <4>1, <5>1
      <4>2. CASE ~(C \subseteq S)
        <5>1. PICK c \in C : c \notin S
          BY <4>2
        <5>2. Cardinality(S) >= m - 1
          BY <3>2, <4>2
        <5>3. IsFiniteSet(S) /\ IsFiniteSet(S \cup C)
          BY <3>2, <3>3, FS_Subset
        <5>4. Cardinality(S \cup {c}) = Cardinality(S) + 1 /\ IsFiniteSet(S \cup {c})
          BY <5>1, <5>3, FS_AddElement
        <5>5. Cardinality(S \cup {c}) <= Cardinality(S \cup C)
          <6>1. S \cup {c} \subseteq S \cup C
            BY <5>1
          <6> QED
            BY <5>3, <6>1, FS_Subset
        <5>6. Cardinality(S) \in Nat /\ Cardinality(S \cup {c}) \in Nat /\ Cardinality(S \cup C) \in Nat
          BY <5>3, <5>4, FS_CardinalityType
        <5> HIDE DEF S, C
        <5> QED
          BY <1>2, <5>2, <5>4, <5>5, <5>6
      <4> QED
        BY <4>1, <4>2
    <3>6. Fed(S \cup C)
      BY <3>2, <3>3
    <3>7. S \cup C \subseteq DOMAIN d
      BY <3>2, <3>3
    <3>8. Least(S \cup C)
      BY <3>4
    <3> HIDE DEF S, C, Stops, Fed, Least
    <3> QED
      BY <3>1, <3>5, <3>6, <3>7, <3>8
  <2> QED
    BY <2>1, <2>2
<1>4. n \in Good
  <2> HIDE DEF Good
  <2> QED
    BY <1>2, <1>3, CountingUp
<1>5. Stops(f[n])
  <2>1. CASE Stops(f[n])
    BY <2>1
  <2>2. CASE Cardinality(f[n]) >= n
    <3>1. Cardinality(f[n]) <= n /\ f[n] \subseteq DOMAIN d
      BY <1>4, FS_Subset DEF n
    <3>2. Cardinality(f[n]) \in Nat
      BY <3>1, FS_Subset, FS_CardinalityType
    <3>3. Cardinality(f[n]) = Cardinality(DOMAIN d)
      BY <1>2, <2>2, <3>1, <3>2 DEF n
    <3>4. f[n] = DOMAIN d
      BY <3>1, <3>3, FS_Subset
    <3> QED
      BY <3>4 DEF Children
  <2> QED
    BY <1>4, <2>1, <2>2
<1> QED
  BY <1>1, <1>4, <1>5

(* The breadth-first walk finds what the closed sets have in common, and   *)
(* in a dag never comes back to where it began.                            *)
LEMMA MovesAre ==
  ASSUME NEW d \in Dags, NEW s \in Shocks
  PROVE  /\ s \notin Dependents(d, s)
         /\ \A x : Moves(s, x, d) <=> x = s \/ x \in Dependents(d, s)
<1> DEFINE D == Dependents(d, s)
<1>1. /\ D \subseteq DOMAIN d /\ Children(d, D \cup {s}) \subseteq D
      /\ \A x \in D : d[x] \cap (D \cup {s}) # {}
      /\ \A S : s \in S /\ Closed(S, d) => D \subseteq S
  BY Downstream, DagsAssumption
<1>2. s \notin D
  <2> SUFFICES ASSUME s \in D PROVE FALSE
    OBVIOUS
  <2>1. D \cup {s} = D /\ D # {} /\ D \in SUBSET DOMAIN d
    BY <1>1
  <2>2. PICK c \in D : d[c] \cap D = {}
    BY <2>1, DagsAssumption
  <2> QED
    BY <1>1, <2>1, <2>2
<1> HIDE DEF D
<1>3. ASSUME NEW x, Moves(s, x, d) PROVE x = s \/ x \in D
  <2>1. D \cup {s} \in SUBSET (DOMAIN d \cup Shocks)
    BY <1>1
  <2>2. Closed(D \cup {s}, d)
    BY <1>1 DEF Closed, Children
  <2> QED
    BY <1>3, <2>1, <2>2 DEF Moves
<1>4. ASSUME NEW x, x = s \/ x \in D PROVE Moves(s, x, d)
  BY <1>1, <1>4 DEF Moves
<1> QED
  BY <1>2, <1>3, <1>4 DEF D

Stale(d) == Shocks \cup UNION {Dependents(d, s) : s \in Shocks}

Ratio(x, d) == [s \in Shocks |-> IF s \in MovedBy(x, d) THEN 1 ELSE 0]

LEMMA StaleMoved == ASSUME NEW d \in Dags, NEW x PROVE x \in Stale(d) <=> MovedBy(x, d) # {}
BY MovesAre DEF Stale, MovedBy

LEMMA RatiosAre ==
  ASSUME NEW d \in Dags
  PROVE  /\ DOMAIN DirtyDrivers(d, Shocks) = Stale(d)
         /\ \A x \in Stale(d) : DirtyDrivers(d, Shocks)[x] = Ratio(x, d)
<1>1. DirtyDrivers(d, Shocks) =
        [x \in Stale(d) |-> [s \in Shocks |-> (IF x = s THEN 1 ELSE 0)
                                            + (IF x \in Dependents(d, s) THEN 1 ELSE 0)]]
  BY DEF DirtyDrivers, Stale
<1>2. ASSUME NEW x \in Stale(d), NEW s \in Shocks
      PROVE  (IF x = s THEN 1 ELSE 0) + (IF x \in Dependents(d, s) THEN 1 ELSE 0)
                = IF s \in MovedBy(x, d) THEN 1 ELSE 0
  <2>1. s \in MovedBy(x, d) <=> x = s \/ x \in Dependents(d, s)
    BY MovesAre DEF MovedBy
  <2>2. ~(x = s /\ x \in Dependents(d, s))
    BY MovesAre
  <2> QED
    BY <2>1, <2>2
<1> QED
  BY <1>1, <1>2 DEF Ratio

Live(account, d) == {b \in Bindings : b.account = account /\ MovedBy(b.driver, d) # {}}

(* The engine's arithmetic, for every acyclic library: the breadth-first   *)
(* walk, the ratios multiplied up per driver and the factors composed per  *)
(* account give an account exactly the numbers of the definition by closed *)
(* sets, each shock once, and no entry to an account nothing moves         *)
(* (engine.py:68-133).                                                     *)
THEOREM FactorsAreNumbers ==
  ASSUME NEW d \in Dags
  PROVE  /\ DOMAIN FactorsOf(d) = {b.account : b \in {c \in Bindings : MovedBy(c.driver, d) # {}}}
         /\ \A account \in DOMAIN FactorsOf(d) : FactorsOf(d)[account] = Numbers(account, d)
<1> DEFINE ratios == DirtyDrivers(d, Shocks)
           matched == {b \in Bindings : b.driver \in DOMAIN ratios}
<1>1. matched = {c \in Bindings : MovedBy(c.driver, d) # {}}
  BY RatiosAre, StaleMoved
<1>2. FactorsOf(d) = [account \in {b.account : b \in matched} |->
         {[target |-> b.target, driver |-> b.driver, ratio |-> ratios[b.driver]] :
             b \in {m \in matched : m.account = account}}]
  BY DEF FactorsOf, AccountFactors
<1>3. \A b \in matched : ratios[b.driver] = Ratio(b.driver, d)
  BY RatiosAre
<1> HIDE DEF ratios, matched
<1>4. ASSUME NEW account
      PROVE  {[target |-> b.target, driver |-> b.driver, ratio |-> ratios[b.driver]] :
                 b \in {m \in matched : m.account = account}} = Numbers(account, d)
  <2>1. {m \in matched : m.account = account} = Live(account, d)
    BY <1>1 DEF Live
  <2>2. \A b \in Live(account, d) : ratios[b.driver] = Ratio(b.driver, d)
    BY <1>1, <1>3 DEF Live
  <2>3. Numbers(account, d) = {[target |-> b.target, driver |-> b.driver, ratio |-> Ratio(b.driver, d)] :
                                   b \in Live(account, d)}
    BY DEF Numbers, Live, Ratio
  <2> QED
    BY <2>1, <2>2, <2>3
<1> QED
  BY <1>1, <1>2, <1>4

(* A line of an account nothing moves has no numbers; any other has.       *)
LEMMA NumbersAre ==
  ASSUME NEW d \in Dags, NEW account
  PROVE  account \in DOMAIN FactorsOf(d) <=> Numbers(account, d) # {}
<1>1. account \in DOMAIN FactorsOf(d) <=> Live(account, d) # {}
  <2>1. DOMAIN FactorsOf(d) = {b.account : b \in {c \in Bindings : MovedBy(c.driver, d) # {}}}
    BY FactorsAreNumbers
  <2>2. account \in DOMAIN FactorsOf(d)
           <=> \E b \in Bindings : MovedBy(b.driver, d) # {} /\ b.account = account
    BY <2>1
  <2> QED
    BY <2>2 DEF Live
<1>2. Numbers(account, d) = {[target |-> b.target, driver |-> b.driver, ratio |-> Ratio(b.driver, d)] :
                                 b \in Live(account, d)}
  BY DEF Numbers, Live, Ratio
<1> QED
  BY <1>1, <1>2

----------------------------------------------------------------------------
(***************************************************************************)
(* While no execution reads another library than the one before it, all    *)
(* work is done with the factors of one dag, d.                            *)
(***************************************************************************)
AccountsOf(d) == AffectedAccounts(FactorsOf(d))

Mine(a, d) == a = Idle \/ (a.factors = FactorsOf(d) /\ a.rows \subseteq LinesOf(AccountsOf(d)))

Own(store, d) == \A l \in Lines : store[l] \in {NoRow, Numbers(AccountOf[l], d)}

Numbered(d) ==
  /\ \A t \in Threads : Mine(attempts[t], d)
  /\ Own(drafts, d) /\ Own(staged, d)
  /\ counted \subseteq LinesOf(AccountsOf(d))

(* The partitions P of the plan of d are counted.                          *)
RowsIn(p, d) == Dirty(AccountsOf(d), PlanOf(AccountsOf(d))[p].cells)

Complete(P, d) == \A p \in P : p \in 1 .. Len(PlanOf(AccountsOf(d))) => RowsIn(p, d) \subseteq counted

Finished ==
  IF pc = "batch" THEN 1 .. done
  ELSE IF pc = "running" THEN (1 .. done) \cup (NextChildren \ running)
  ELSE IF pc \in {"load", "snapshot", "resolve"} THEN 1 .. resume
  ELSE {}

Fresh == pc = "load" /\ ~(runs > 1 \/ resume > 0)

Untouched ==
  /\ \A t \in Threads : attempts[t] = Idle
  /\ \A l \in Lines : drafts[l] = NoRow /\ staged[l] = NoRow
  /\ counted = {}

Agree ==
  /\ pc \in {"resolve", "batch", "running"} => factors = FactorsOf(context)
  /\ Fresh => Untouched
  /\ Numbered(context)
  /\ Complete(Finished, context)
  /\ pc = "parked" => LinesOf(AccountsOf(context)) \subseteq counted

NumInv == runs > 0 /\ (~mixed => Agree)

Inv == DInv /\ PlanInv /\ NumInv

LEMMA ExpectedNumbers ==
  ASSUME NEW d \in Dags, NEW l \in Lines
  PROVE  /\ l \in LinesOf(AccountsOf(d)) <=> Numbers(AccountOf[l], d) # NoRow
         /\ l \in LinesOf(AccountsOf(d)) =>
              RecomputeLine(FactorsOf(d), AccountOf[l]) = Numbers(AccountOf[l], d)
<1>1. l \in LinesOf(AccountsOf(d)) <=> AccountOf[l] \in DOMAIN FactorsOf(d)
  BY DEF LinesOf, AccountsOf, AffectedAccounts
<1> QED
  BY <1>1, NumbersAre, FactorsAreNumbers DEF NoRow, RecomputeLine

LEMMA OwnWrites ==
  ASSUME NEW d \in Dags, NEW store, Own(store, d), NEW L \in SUBSET LinesOf(AccountsOf(d))
  PROVE  Own(Write(store, L, FactorsOf(d)), d)
<1> SUFFICES ASSUME NEW l \in Lines
             PROVE  Write(store, L, FactorsOf(d))[l] \in {NoRow, Numbers(AccountOf[l], d)}
  BY DEF Own
<1>1. CASE l \in L
  BY <1>1, ExpectedNumbers DEF Write
<1>2. CASE l \notin L
  BY <1>2 DEF Write, Own
<1> QED
  BY <1>1, <1>2

(* An attempt writes its own numbers, whoever still waits for it.          *)
LEMMA WorkIsNumbered ==
  ASSUME TypeOK, NEW d \in Dags, NEW t \in Threads, Work(t) \/ Crash(t), Numbered(d)
  PROVE  /\ \A u \in Threads : Mine(attempts'[u], d)
         /\ Own(drafts', d) /\ Own(staged', d)
<1>1. attempts[t] # Idle
  BY DEF Work, Select, Upsert, Stage, Answer, Crash, Idle
<1>2. /\ attempts[t].factors = FactorsOf(d) /\ attempts[t].rows \subseteq LinesOf(AccountsOf(d))
      /\ InHand(t) \subseteq LinesOf(AccountsOf(d))
  BY <1>1, BatchOfRows DEF Numbered, Mine
<1>3. ASSUME NEW store, Own(store, d), NEW L \in SUBSET InHand(t)
      PROVE  Own(Write(store, L, attempts[t].factors), d)
  BY <1>2, <1>3, OwnWrites
<1>4. Own(drafts', d)
  <2>1. drafts' = drafts \/ drafts' = Write(drafts, InHand(t), attempts[t].factors)
    BY DEF Work, Select, Upsert, Stage, Answer, Crash, storeVars
  <2> QED
    BY <1>3, <2>1 DEF Numbered
<1>5. Own(staged', d)
  <2>1. staged' = staged \/ \E L \in SUBSET InHand(t) : staged' = Write(staged, L, attempts[t].factors)
    BY DEF Work, Select, Upsert, Stage, Answer, Crash, storeVars
  <2> QED
    BY <1>3, <2>1 DEF Numbered
<1>6. ASSUME NEW at, NEW offset, NEW beat, Goes(t, at, offset, beat)
      PROVE  \A u \in Threads : Mine(attempts'[u], d)
  <2>1. attempts'[t].factors = attempts[t].factors /\ attempts'[t].rows = attempts[t].rows
    BY <1>6 DEF Goes, TypeOK
  <2>2. \A u \in Threads \ {t} : attempts'[u] = attempts[u]
    BY <1>6 DEF Goes, TypeOK
  <2> QED
    BY <1>2, <2>1, <2>2 DEF Numbered, Mine
<1>7. CASE Select(t) \/ Upsert(t) \/ Stage(t)
  <2>1. \E at, offset, beat : Goes(t, at, offset, beat)
    BY <1>7 DEF Select, Upsert, Stage
  <2> QED
    BY <1>4, <1>5, <1>6, <2>1
<1>8. CASE Answer(t) \/ Crash(t)
  <2>1. attempts' = [attempts EXCEPT ![t] = Idle]
    BY <1>8 DEF Answer, Crash
  <2> QED
    BY <1>4, <1>5, <2>1 DEF Numbered, Mine, TypeOK
<1> QED
  BY <1>7, <1>8 DEF Work

(* A batch of children is an interval of the plan.                         *)
LEMMA ChildrenAre ==
  ASSUME TypeOK, PlanInv, pc = "running"
  PROVE  /\ \A p \in 1 .. done + Cardinality(NextChildren) : p \in 1 .. done \/ p \in NextChildren
         /\ done + MaxConcurrent < Len(plan) =>
              \A p \in 1 .. done + MaxConcurrent : p \in 1 .. done \/ p \in NextChildren
         /\ Cardinality(NextChildren) \in Nat
<1> DEFINE n == Len(Scenarios) * Len(Months)
           len == Len(plan)
           last == IF len <= done + MaxConcurrent THEN len ELSE done + MaxConcurrent
<1>1. len \in Nat /\ n \in Nat /\ len <= n
  <2>1. plan = PlanOf(AffectedAccounts(factors))
    BY DEF PlanInv
  <2> QED
    BY <2>1, PlanSplits, CellsAssumption DEF Splits
<1>2. done \in Nat /\ MaxConcurrent \in Nat /\ Partitions = 1 .. n
  BY DirtySetAssumption DEF TypeOK, Partitions
<1> HIDE DEF len, n
<1>3. NextChildren = done + 1 .. last
  BY <1>1, <1>2 DEF NextChildren, len
<1>4. last \in Nat /\ (len > done + MaxConcurrent => last = done + MaxConcurrent)
  BY <1>1, <1>2
<1> HIDE DEF last
<1>5. Cardinality(NextChildren) = IF done + 1 > last THEN 0 ELSE last - done
  BY <1>2, <1>3, <1>4, FS_Interval
<1>6. Cardinality(NextChildren) \in Nat
  BY <1>2, <1>4, <1>5
<1>7. ASSUME NEW p \in 1 .. done + Cardinality(NextChildren)
      PROVE  p \in 1 .. done \/ p \in NextChildren
  BY <1>2, <1>3, <1>4, <1>5, <1>7
<1>8. ASSUME done + MaxConcurrent < len, NEW p \in 1 .. done + MaxConcurrent
      PROVE  p \in 1 .. done \/ p \in NextChildren
  BY <1>1, <1>2, <1>3, <1>4, <1>8
<1> QED
  BY <1>6, <1>7, <1>8 DEF len

LEMMA LoadAgrees == ASSUME Inv, Load, ~mixed' PROVE Agree'
<1>1. TypeOK /\ Agree /\ ~mixed
  BY DEF Inv, DInv, NumInv, Load
<1>2. /\ pc = "load" /\ pc' = "snapshot" /\ context' = dag /\ context' \in Dags
      /\ UNCHANGED <<runs, resume, attempts, drafts, staged, counted>>
  BY <1>1 DEF Load, storeVars, TypeOK
<1>3. Finished' = 1 .. resume
  BY <1>2 DEF Finished
<1>4. CASE Fresh
  <2>1. Untouched /\ 1 .. resume = {}
    BY <1>1, <1>4 DEF Agree, Fresh, TypeOK
  <2>2. Numbered(context)'
    BY <1>2, <2>1 DEF Untouched, Numbered, Mine, Own
  <2> QED
    BY <1>2, <1>3, <2>1, <2>2 DEF Agree, Fresh, Complete
<1>5. CASE ~Fresh
  <2>1. context' = context
    BY <1>2, <1>5 DEF Load, Fresh
  <2>2. Numbered(context)'
    BY <1>1, <1>2, <2>1 DEF Agree, Numbered
  <2>3. Complete(Finished, context)'
    <3>1. Complete(1 .. resume, context)
      BY <1>1, <1>2 DEF Agree, Finished
    <3> QED
      BY <1>2, <1>3, <2>1, <3>1 DEF Complete
  <2> QED
    BY <1>2, <2>2, <2>3 DEF Agree, Fresh
<1> QED
  BY <1>4, <1>5

(* The steps that leave the stores and the attempts as they are.           *)
LEMMA StepAgrees ==
  ASSUME Inv, ~mixed', Snapshot \/ Resolve \/ StartBatch \/ Park \/ BatchDone \/ ContinueAsNew
  PROVE  Agree'
<1>1. TypeOK /\ PlanInv /\ Agree /\ ~mixed
  BY DEF Inv, DInv, NumInv, Snapshot, Resolve, StartBatch, Park, BatchDone, ContinueAsNew, histVars
<1>2. UNCHANGED <<context, runs, attempts, drafts, staged, counted>>
  BY DEF Snapshot, Resolve, StartBatch, Park, BatchDone, ContinueAsNew, histVars, storeVars
<1>3. Numbered(context)'
  BY <1>1, <1>2 DEF Agree, Numbered
<1>4. ASSUME \A p \in Finished' : p \in Finished PROVE Complete(Finished, context)'
  BY <1>1, <1>2, <1>4 DEF Agree, Complete
<1>5. CASE Snapshot
  <2>1. pc' = "resolve" /\ factors' = FactorsOf(context)' /\ Finished' = Finished
    BY <1>5 DEF Snapshot, Finished, FactorsOf
  <2> QED
    BY <1>3, <1>4, <2>1 DEF Agree, Fresh
<1>6. CASE Resolve
  <2>1. pc' = "batch" /\ factors' = FactorsOf(context)' /\ Finished' = Finished
    BY <1>1, <1>6 DEF Resolve, Finished, FactorsOf, Agree
  <2> QED
    BY <1>3, <1>4, <2>1 DEF Agree, Fresh
<1>7. CASE StartBatch
  <2>1. pc' = "running" /\ factors' = FactorsOf(context)' /\ Finished' = Finished
    <3>1. NextChildren' = NextChildren /\ running' = NextChildren /\ done' = done
      BY <1>7 DEF StartBatch, NextChildren
    <3> QED
      BY <1>1, <1>7, <3>1 DEF StartBatch, Finished, FactorsOf, Agree
  <2> QED
    BY <1>3, <1>4, <2>1 DEF Agree, Fresh
<1>8. CASE Park
  <2> DEFINE accounts == AccountsOf(context)
  <2>1. /\ plan = PlanOf(accounts) /\ Len(plan) <= done /\ Finished = 1 .. done
        /\ pc' = "parked" /\ Finished' = {}
    BY <1>1, <1>8 DEF Park, PlanInv, Agree, AccountsOf, Finished
  <2>2. Splits(accounts, plan, SeenAll(accounts, Len(Scenarios)))
    BY <2>1, PlanSplits
  <2>3. Len(plan) \in Nat /\ done \in Nat
    BY <1>1, <2>2 DEF Splits, TypeOK
  <2>4. ASSUME NEW l \in LinesOf(accounts) PROVE l \in counted
    <3>1. PICK p \in 1 .. Len(plan) : CellOf[l] \in plan[p].cells
      BY <2>2, DirtyCellIsSeen DEF Splits
    <3>2. p \in Finished
      BY <2>1, <2>3
    <3>3. l \in RowsIn(p, context)
      BY <2>1, <3>1 DEF RowsIn, Dirty
    <3> QED
      BY <1>1, <2>1, <3>2, <3>3 DEF Agree, Complete
  <2>5. LinesOf(AccountsOf(context))' \subseteq counted'
    BY <1>2, <2>4 DEF AccountsOf, FactorsOf, LinesOf, AffectedAccounts
  <2> QED
    BY <1>3, <1>4, <2>1, <2>5 DEF Agree, Fresh
<1>9. CASE BatchDone
  <2>1. /\ pc = "running" /\ running = {} /\ pc' = "batch" /\ factors' = FactorsOf(context)'
        /\ Finished = (1 .. done) \cup NextChildren
        /\ Finished' = 1 .. done + Cardinality(NextChildren)
    BY <1>1, <1>9 DEF BatchDone, Finished, FactorsOf, Agree
  <2>2. \A p \in Finished' : p \in Finished
    BY <1>1, <2>1, ChildrenAre
  <2> QED
    BY <1>3, <1>4, <2>1, <2>2 DEF Agree, Fresh
<1>10. CASE ContinueAsNew
  <2>1. /\ pc = "running" /\ running = {} /\ pc' = "load" /\ done + MaxConcurrent < Len(plan)
        /\ Finished = (1 .. done) \cup NextChildren
        /\ resume' = done + MaxConcurrent /\ Finished' = 1 .. done + MaxConcurrent
    BY <1>10 DEF ContinueAsNew, Finished
  <2>2. \A p \in Finished' : p \in Finished
    BY <1>1, <2>1, ChildrenAre
  <2>3. resume' > 0
    BY <1>1, <2>1, DirtySetAssumption DEF TypeOK
  <2> QED
    BY <1>3, <1>4, <2>1, <2>2, <2>3 DEF Agree, Fresh
<1> QED
  BY <1>5, <1>6, <1>7, <1>8, <1>9, <1>10

(* A run that fails counts nothing; what it wrote stays with its numbers.  *)
LEMMA FailAgrees ==
  ASSUME Inv, ~mixed', FailRun \/ \E p \in Partitions : ChildFails(p)
  PROVE  Agree'
<1>1. TypeOK /\ Agree /\ ~mixed /\ runs \in Nat /\ runs > 0
  BY DEF Inv, DInv, NumInv, TypeOK, FailRun, ChildFails, histVars
<1>2. CASE \E p \in Partitions : ChildFails(p)
  <2>1. pc' = "failing" /\ UNCHANGED <<context, attempts, drafts, staged, counted>>
    BY <1>2 DEF ChildFails, storeVars, histVars
  <2>2. Finished' = {}
    BY <2>1 DEF Finished
  <2>3. Numbered(context)'
    BY <1>1, <2>1 DEF Agree, Numbered
  <2> QED
    BY <2>1, <2>2, <2>3 DEF Agree, Fresh, Complete
<1>3. CASE FailRun
  <2>1. /\ UNCHANGED <<context, attempts, drafts>> /\ counted' = {} /\ resume' = 0
        /\ staged' = [l \in Lines |-> NoRow] \/ staged' = staged
        /\ pc' = "failed" \/ (pc' = "load" /\ runs' = runs + 1)
    BY <1>3 DEF FailRun
  <2>2. ~Fresh' /\ Finished' \subseteq 1 .. 0
    BY <1>1, <2>1 DEF Fresh, Finished
  <2>3. Numbered(context)'
    <3>1. Own(staged', context)
      BY <1>1, <2>1 DEF Agree, Numbered, Own
    <3> QED
      BY <1>1, <2>1, <3>1 DEF Agree, Numbered
  <2>4. 1 .. 0 = {}
    OBVIOUS
  <2> QED
    BY <2>1, <2>2, <2>3, <2>4 DEF Agree, Complete
<1> QED
  BY <1>2, <1>3

(* A child is handed the factors and the rows of its execution.            *)
LEMMA TakeAgrees ==
  ASSUME Inv, ~mixed', NEW t \in Threads, NEW p \in Partitions, Take(t, p)
  PROVE  Agree'
<1>1. TypeOK /\ Agree /\ ~mixed /\ pc = "running"
  BY DEF Inv, DInv, NumInv, Take, histVars
<1>2. UNCHANGED <<context, factors, pc, runs, plan, resume, done, running, drafts, staged, counted>>
  BY DEF Take, runVars, storeVars, histVars
<1>3. /\ attempts'[t].factors = FactorsOf(context)
      /\ attempts'[t].rows \subseteq LinesOf(AccountsOf(context))
      /\ \A u \in Threads \ {t} : attempts'[u] = attempts[u]
  <2>1. /\ attempts'[t].factors = factors /\ attempts'[t].rows = RowsOf(plan[p])
        /\ \A u \in Threads \ {t} : attempts'[u] = attempts[u]
    BY <1>1 DEF Take, TypeOK
  <2> QED
    BY <1>1, <2>1 DEF Agree, RowsOf, AccountsOf
<1>4. Numbered(context)'
  BY <1>1, <1>2, <1>3 DEF Agree, Numbered, Mine
<1>5. Finished' = Finished
  BY <1>2 DEF Finished, NextChildren
<1> QED
  BY <1>1, <1>2, <1>4, <1>5 DEF Agree, Fresh, Complete

(* What a thread writes is the run's, and what it answers for is done.     *)
LEMMA WorkAgrees ==
  ASSUME Inv, ~mixed', NEW t \in Threads, Work(t) \/ Crash(t)
  PROVE  Agree'
<1>1. DInv /\ TypeOK /\ PlanInv /\ Agree /\ ~mixed /\ context \in Dags
  BY DEF Inv, DInv, TypeOK, NumInv, Work, Select, Upsert, Stage, Answer, Crash, histVars
<1>2. UNCHANGED <<context, factors, pc, runs, plan, resume, done>>
  BY DEF Work, Select, Upsert, Stage, Answer, Crash, runVars
<1>3. attempts[t] # Idle
  BY DEF Work, Select, Upsert, Stage, Answer, Crash, Idle
<1>4. ~Fresh'
  BY <1>1, <1>2, <1>3 DEF Agree, Fresh, Untouched
<1>5. /\ \A u \in Threads : Mine(attempts'[u], context)
      /\ Own(drafts', context) /\ Own(staged', context)
  BY <1>1, WorkIsNumbered DEF Agree
<1>6. ASSUME counted' = counted, running' = running PROVE Agree'
  <2>1. Finished' = Finished
    BY <1>2, <1>6 DEF Finished, NextChildren
  <2>2. Numbered(context)'
    BY <1>1, <1>2, <1>5, <1>6 DEF Agree, Numbered
  <2> QED
    BY <1>1, <1>2, <1>4, <1>6, <2>1, <2>2 DEF Agree, Complete
<1>7. CASE ~Answer(t)
  BY <1>6, <1>7 DEF Work, Select, Upsert, Stage, Crash, childVars, histVars
<1>8. CASE Answer(t) /\ Holds(t) = {}
  BY <1>6, <1>8 DEF Answer
<1>9. CASE Answer(t) /\ Holds(t) # {}
  <2> DEFINE rows == attempts[t].rows
  <2>1. PICK q \in running : holder[q] = t
    BY <1>9 DEF Holds
  <2>2. pc = "running" /\ plan = PlanOf(AccountsOf(context)) /\ factors = FactorsOf(context)
    BY <1>1, <2>1 DEF DInv, PlanInv, Agree, AccountsOf
  <2>3. counted' = counted \cup rows /\ running' = running \ Holds(t)
    BY <1>9 DEF Answer
  <2>4. ASSUME NEW p \in Holds(t) PROVE RowsIn(p, context) = rows
    <3>1. p \in running /\ holder[p] = t
      BY <2>4 DEF Holds
    <3>2. rows = RowsOf(plan[p])
      BY <1>1, <3>1, DirtySetAssumption DEF DInv, InFlight, Sound
    <3> QED
      BY <2>2, <3>2 DEF RowsOf, RowsIn, Dirty, AccountsOf
  <2>5. rows \subseteq LinesOf(AccountsOf(context))
    BY <1>1, <1>3 DEF Agree, Numbered, Mine
  <2>6. Numbered(context)'
    BY <1>1, <1>2, <1>5, <2>3, <2>5 DEF Agree, Numbered
  <2>7. \A p \in Finished' : p \in Finished \/ p \in Holds(t)
    BY <1>2, <2>2, <2>3 DEF Finished, NextChildren
  <2>8. ASSUME NEW p \in Finished', p \in 1 .. Len(PlanOf(AccountsOf(context)))
        PROVE  RowsIn(p, context) \subseteq counted'
    <3>1. CASE p \in Finished
      BY <1>1, <2>3, <2>8, <3>1 DEF Agree, Complete
    <3>2. CASE p \in Holds(t)
      BY <2>3, <2>4, <3>2
    <3> QED
      BY <2>7, <3>1, <3>2
  <2>9. Complete(Finished, context)'
    BY <1>2, <2>8 DEF Complete
  <2> QED
    BY <1>1, <1>2, <1>4, <2>2, <2>6, <2>9 DEF Agree
<1> QED
  BY <1>7, <1>8, <1>9

LEMMA OthersAgree ==
  ASSUME Inv, ~mixed',
         \/ \E d \in Dags : EditLibrary(d)
         \/ \E p \in Partitions : GiveUp(p) \/ \E t \in Threads : DeliverHeartbeat(t, p)
         \/ UNCHANGED vars
  PROVE  Agree'
<1>1. UNCHANGED <<context, factors, pc, runs, plan, resume, done, running, attempts, drafts, staged,
                  counted, mixed>>
  BY DEF EditLibrary, GiveUp, DeliverHeartbeat, vars, runVars, childVars, storeVars, histVars
<1>2. Agree
  BY <1>1 DEF Inv, NumInv
<1>3. Finished' = Finished /\ Fresh' = Fresh
  BY <1>1 DEF Finished, Fresh, NextChildren
<1> QED
  BY <1>1, <1>2, <1>3 DEF Agree, Complete, Numbered, Untouched

LEMMA InvStays == Inv /\ [Next]_vars => Inv'
<1> SUFFICES ASSUME Inv, [Next]_vars PROVE Inv'
  OBVIOUS
<1>1. DInv' /\ PlanInv'
  BY Inductive, PlanStays DEF Inv
<1>2. runs' > 0
  <2>1. runs \in Nat /\ runs > 0
    BY DEF Inv, DInv, NumInv, TypeOK
  <2>2. runs' = runs \/ runs' = runs + 1
    BY DEF Next, Run, Load, Snapshot, Resolve, StartBatch, Park, BatchDone, FailRun, ChildFails,
           ContinueAsNew, TakeAny, Take, EditLibrary, Work, Select, Upsert, Stage, Answer,
           Crash, DeliverHeartbeat, GiveUp, runVars, vars
  <2> QED
    BY <2>1, <2>2
<1>3. ~mixed' => Agree'
  BY LoadAgrees, StepAgrees, FailAgrees, TakeAgrees, WorkAgrees, OthersAgree DEF Next, Run, TakeAny
<1> QED
  BY <1>1, <1>2, <1>3 DEF Inv, NumInv

LEMMA InvStarts == Init => Inv
<1> SUFFICES ASSUME Init PROVE Inv
  OBVIOUS
<1>1. DInv /\ PlanInv
  BY InitInv DEF Init, PlanInv
<1>2. Untouched
  BY DEF Init, Untouched
<1>3. Numbered(context)
  BY <1>2 DEF Untouched, Numbered, Mine, Own
<1>4. Finished = {}
  BY DEF Init, Finished
<1> QED
  BY <1>1, <1>2, <1>3, <1>4 DEF Init, Inv, NumInv, Agree, Complete

(* Parked, with one library: a line has its own numbers if it is moved,    *)
(* and none otherwise; what is moved is counted, and what is counted is    *)
(* written.                                                                *)
LEMMA InvParks == Inv => ParkedIsComputed
<1> SUFFICES ASSUME Inv, pc = "parked", ~mixed
             PROVE  /\ drafts = Expected(context) /\ staged = Expected(context)
                    /\ counted = {l \in Lines : drafts[l] # NoRow}
  BY DEF ParkedIsComputed
<1>1. TypeOK /\ context \in Dags /\ Agree /\ Written(drafts, staged, counted)
  BY DEF Inv, DInv, NumInv, TypeOK
<1>2. counted = LinesOf(AccountsOf(context))
  BY <1>1 DEF Agree, Numbered
<1>3. ASSUME NEW l \in Lines
      PROVE  /\ drafts[l] = Numbers(AccountOf[l], context)
             /\ staged[l] = Numbers(AccountOf[l], context)
             /\ l \in counted <=> drafts[l] # NoRow
  <2>1. l \in counted <=> Numbers(AccountOf[l], context) # NoRow
    BY <1>1, <1>2, ExpectedNumbers
  <2>2. /\ drafts[l] \in {NoRow, Numbers(AccountOf[l], context)}
        /\ staged[l] \in {NoRow, Numbers(AccountOf[l], context)}
    BY <1>1 DEF Agree, Numbered, Own
  <2>3. l \in counted => drafts[l] # NoRow /\ staged[l] # NoRow
    BY <1>1 DEF Written
  <2> QED
    BY <2>1, <2>2, <2>3
<1>4. drafts = [l \in Lines |-> drafts[l]] /\ staged = [l \in Lines |-> staged[l]]
  BY <1>1 DEF TypeOK
<1>5. counted \subseteq Lines
  BY <1>1 DEF TypeOK
<1> QED
  BY <1>3, <1>4, <1>5 DEF Expected

(* Whatever the library, the baseline, the plan and the sizes; whatever    *)
(* attempts crash, are given up while they still write or start from an    *)
(* old heartbeat; however often the run continues as new, fails and is     *)
(* asked for again: once it parks, and no execution read another library   *)
(* than the one before, exactly the lines its shocks move have their own   *)
(* numbers, in both stores, and are counted (activities.py:122, 400, 437). *)
THEOREM ParkedIsComputedAlways == Spec => []ParkedIsComputed
BY InvStarts, InvStays, InvParks, PTL DEF Spec
=============================================================================
