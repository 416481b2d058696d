------------------------------ MODULE DirtySet ------------------------------
(***************************************************************************)
(* The computation of one revision's dirty set: the children a run starts, *)
(* the attempts of evaluate_partition that Temporal makes for each of      *)
(* them, and the two stores they write (recompute/activities.py,           *)
(* recompute/workflows.py).                                                *)
(*                                                                         *)
(* An attempt runs on a worker thread.  Temporal may give up on it, at a   *)
(* missed heartbeat or with its child, while the thread is still at work:  *)
(* it then goes on writing, beside the attempt that replaces it.           *)
(*                                                                         *)
(* Lines are numbered by the attempt's ORDER BY.                           *)
(***************************************************************************)
EXTENDS Engine

CONSTANTS Lines,         \* the frozen baseline, numbered in ORDER BY order
          CellOf,        \* line -> <<scenario, month>>
          AccountOf,     \* line -> account
          Scenarios,     \* the plan's scenarios, sorted
          Months,        \* its months, sorted
          Shocks,        \* the drivers the revision moves
          Bindings,      \* plan_driver_binding
          Dags,          \* the calc_order_dag values the library may take
          TargetSize,    \* partition_size (5000 by default)
          BatchSize,     \* batch_size (2000)
          MaxConcurrent, \* MAX_CONCURRENT_CHILDREN
          MaxAttempts,   \* attempts of an activity under WRITE (8)
          MaxChildRuns,  \* executions of a child under WRITE (8)
          Threads,       \* the worker's activity threads
          NoThread,
          MaxRuns,       \* bound: runs that ask for this revision
          MaxEdits       \* bound: edits of the driver library

ASSUME DirtySetAssumption ==
  /\ Lines \subseteq Nat /\ IsFiniteSet(Lines)
  /\ BatchSize \in Nat \ {0} /\ MaxAttempts \in Nat \ {0} /\ MaxChildRuns \in Nat \ {0}
  /\ MaxConcurrent \in Nat \ {0}
  /\ NoThread \notin Threads

(* resolve_dirty_set takes the scenarios from the request and insists that *)
(* they are those of the baseline, whose months it reads.                  *)
ASSUME CellsAssumption ==
  /\ DOMAIN Scenarios = 1 .. Len(Scenarios) /\ Len(Scenarios) \in Nat
  /\ DOMAIN Months = 1 .. Len(Months) /\ Len(Months) \in Nat
  /\ \A i, j \in DOMAIN Months : Months[i] = Months[j] => i = j
  /\ \A l \in Lines : \E i \in DOMAIN Scenarios, j \in DOMAIN Months :
       CellOf[l] = <<Scenarios[i], Months[j]>>

(* detect_cycles passes before either writer stores a dag.                 *)
ASSUME DagsAssumption ==
  \A d \in Dags :
    /\ IsFiniteSet(DOMAIN d)
    /\ \A S \in SUBSET DOMAIN d : S # {} => \E c \in S : d[c] \cap S = {}

VARIABLES
  dag,       \* planning_model.calc_order_dag
  edits,     \* edits of it so far
  context,   \* the dag this execution loaded
  factors,   \* account -> what moves it, which the children are handed
  pc,        \* where the run is
  runs,      \* runs started
  plan,      \* the partitions of this execution
  resume,    \* resume.partitions_done
  done,      \* self._partitions_done
  running,   \* partitions whose child is open
  tries,     \* partition -> attempts made, by all executions of its child
  heartbeat, \* partition -> the offset Temporal would hand the next attempt
  holder,    \* partition -> the thread whose answer Temporal still waits for
  attempts,  \* thread -> what it is at
  drafts,    \* plan_version_line: line -> numbers
  staged,    \* fact_plan_line_staged: line -> numbers
  counted,   \* history: lines of the partitions whose child has answered
  mixed      \* history: a later execution read another library than the first

runVars   == <<context, factors, pc, runs, plan, resume, done>>
childVars == <<running, tries, heartbeat, holder>>
storeVars == <<drafts, staged>>
histVars  == <<counted, mixed>>
vars == <<dag, edits, runVars, childVars, attempts, storeVars, histVars>>

----------------------------------------------------------------------------
FactorsOf(d) == AccountFactors(DirtyDrivers(d, Shocks), Bindings)

LinesOf(accounts) == {l \in Lines : AccountOf[l] \in accounts}

(* What an attempt's WHERE selects from the baseline.                      *)
RowsOf(part) == {l \in LinesOf(AffectedAccounts(factors)) : CellOf[l] \in part.cells}

Position(l, S) == Cardinality({k \in S : k <= l})

(* LIMIT BatchSize OFFSET offset                                           *)
Batch(S, offset) == {l \in S : offset < Position(l, S) /\ Position(l, S) <= offset + BatchSize}
Fetched(S, offset) ==
  IF offset + BatchSize <= Cardinality(S) THEN BatchSize
  ELSE IF offset <= Cardinality(S) THEN Cardinality(S) - offset ELSE 0

NoRow == {}          \* a line nobody wrote; a row is what multiplied its baseline
Idle == [at |-> "idle"]

MaxTries == MaxAttempts * MaxChildRuns

Partitions == 1 .. Len(Scenarios) * Len(Months)

Init ==
  /\ dag \in Dags /\ edits = 0 /\ context = dag /\ factors = << >>
  /\ pc = "load" /\ runs = 1
  /\ plan = << >> /\ resume = 0 /\ done = 0
  /\ running = {}
  /\ tries = [p \in Partitions |-> 0] /\ heartbeat = [p \in Partitions |-> 0]
  /\ holder = [p \in Partitions |-> NoThread]
  /\ attempts = [t \in Threads |-> Idle]
  /\ drafts = [l \in Lines |-> NoRow] /\ staged = [l \in Lines |-> NoRow]
  /\ counted = {} /\ mixed = FALSE

----------------------------------------------------------------------------
(***************************************************************************)
(* The run.                                                                *)
(***************************************************************************)
(* load_plan_context: the edges are read once per execution.               *)
Load ==
  /\ pc = "load"
  /\ pc' = "snapshot"
  /\ context' = dag
  /\ mixed' = (mixed \/ ((runs > 1 \/ resume > 0) /\ dag # context))
  /\ UNCHANGED <<dag, edits, factors, runs, plan, resume, done, childVars, attempts, storeVars, counted>>

(* snapshot_drivers reads the bindings, and the workflow makes the factors *)
(* of both readings.                                                       *)
Snapshot ==
  /\ pc = "snapshot"
  /\ pc' = "resolve"
  /\ factors' = FactorsOf(context)
  /\ UNCHANGED <<dag, edits, context, runs, plan, resume, done, childVars, attempts, storeVars, histVars>>

(* resolve_dirty_set counts in the frozen baseline.                        *)
Counts(accounts) ==
  [cell \in {<<Scenarios[i], Months[j]>> : i \in DOMAIN Scenarios, j \in DOMAIN Months} |->
     Cardinality({l \in LinesOf(accounts) : CellOf[l] = cell})]

Resolve ==
  /\ pc = "resolve"
  /\ pc' = "batch"
  /\ plan' = PartitionPlan(Scenarios, Months, Counts(AffectedAccounts(factors)), TargetSize)
  /\ done' = resume
  /\ UNCHANGED <<dag, edits, context, factors, runs, resume, childVars, attempts, storeVars, histVars>>

(* The next children.  Nothing left to start: the run parks, or ends if    *)
(* there was nothing at all.                                               *)
NextChildren == {p \in Partitions : p <= Len(plan) /\ done < p /\ p <= done + MaxConcurrent}

StartBatch ==
  /\ pc = "batch" /\ done < Len(plan)
  /\ pc' = "running"
  /\ running' = NextChildren
  /\ UNCHANGED <<dag, edits, context, factors, runs, plan, resume, done, tries, heartbeat, holder,
                 attempts, storeVars, histVars>>

Park ==
  /\ pc = "batch" /\ done >= Len(plan)
  /\ pc' = "parked"
  /\ UNCHANGED <<dag, edits, context, factors, runs, plan, resume, done, childVars, attempts, storeVars, histVars>>

BatchDone ==
  /\ pc = "running" /\ running = {}
  /\ pc' = "batch"
  /\ done' = done + Cardinality(NextChildren)
  /\ UNCHANGED <<dag, edits, context, factors, runs, plan, resume, childVars, attempts, storeVars, histVars>>

(* At the cap or at Temporal's suggestion: the cursor is carried, and the  *)
(* next execution loads and resolves afresh.                               *)
ContinueAsNew ==
  /\ pc = "running" /\ running = {}
  /\ done + MaxConcurrent < Len(plan)
  /\ pc' = "load"
  /\ resume' = done + MaxConcurrent
  /\ UNCHANGED <<dag, edits, context, factors, runs, plan, done, childVars, attempts, storeVars, histVars>>

(* A child that is out of executions fails the gather and the run.  Its    *)
(* siblings are terminated with it: their threads are not.                 *)
ChildFails(p) ==
  /\ pc = "running" /\ p \in running
  /\ holder[p] = NoThread /\ tries[p] = MaxTries
  /\ pc' = "failing"
  /\ running' = {} /\ holder' = [q \in Partitions |-> NoThread]
  /\ tries' = [q \in Partitions |-> 0] /\ heartbeat' = [q \in Partitions |-> 0]
  /\ UNCHANGED <<dag, edits, context, factors, runs, plan, resume, done, attempts,
                 storeVars, histVars>>

(* _fail: the staged rows go and the successor is closed, each if it can.  *)
(* Asked for again, a closed successor's key gets a new revision; one that *)
(* stayed open is this revision again, with what it left in both stores.   *)
FailRun ==
  /\ pc = "failing"
  /\ \E discards, closes \in BOOLEAN :
       /\ staged' = IF discards THEN [l \in Lines |-> NoRow] ELSE staged
       /\ pc' = IF closes \/ runs = MaxRuns THEN "failed" ELSE "load"
  /\ runs' = IF pc' = "load" THEN runs + 1 ELSE runs
  /\ resume' = 0 /\ counted' = {}
  /\ UNCHANGED <<dag, edits, context, factors, plan, done, childVars, attempts, drafts, mixed>>

(* save_driver or save_planning_model, from outside.                       *)
EditLibrary(d) ==
  /\ edits < MaxEdits /\ d # dag /\ pc \notin {"parked", "failed"}
  /\ dag' = d /\ edits' = edits + 1
  /\ UNCHANGED <<runVars, childVars, attempts, storeVars, histVars>>

----------------------------------------------------------------------------
(***************************************************************************)
(* An attempt of evaluate_partition.                                       *)
(***************************************************************************)
Holds(t) == {p \in running : holder[p] = t}

(* The last heartbeat that was delivered.  Out of attempts, the child fails *)
(* and is itself tried again, and its next execution has none.             *)
Handed(p) == IF tries[p] % MaxAttempts = 0 THEN 0 ELSE heartbeat[p]

TakeForever(t, p) ==    \* mutant: no limit to the attempts
  /\ p \in running /\ holder[p] = NoThread
  /\ attempts[t] = Idle
  /\ tries' = [tries EXCEPT ![p] = @ + 1]
  /\ holder' = [holder EXCEPT ![p] = t]
  /\ attempts' = [attempts EXCEPT ![t] =
       [at |-> "select", rows |-> RowsOf(plan[p]), factors |-> factors,
        offset |-> Handed(p), beat |-> Handed(p)]]
  /\ heartbeat' = [heartbeat EXCEPT ![p] = Handed(p)]
  /\ UNCHANGED <<dag, edits, runVars, running, storeVars, histVars>>

Take(t, p) ==
  /\ p \in running /\ holder[p] = NoThread /\ tries[p] < MaxTries
  /\ attempts[t] = Idle
  /\ tries' = [tries EXCEPT ![p] = @ + 1]
  /\ holder' = [holder EXCEPT ![p] = t]
  /\ attempts' = [attempts EXCEPT ![t] =
       [at |-> "select", rows |-> RowsOf(plan[p]), factors |-> factors,
        offset |-> Handed(p), beat |-> Handed(p)]]
  /\ heartbeat' = [heartbeat EXCEPT ![p] = Handed(p)]
  /\ UNCHANGED <<dag, edits, runVars, running, storeVars, histVars>>

Goes(t, at, offset, beat) ==
  attempts' = [attempts EXCEPT ![t] =
    [at |-> at, rows |-> @.rows, factors |-> @.factors, offset |-> offset, beat |-> beat]]

(* The cursor is recorded before the batch it points at is read.           *)
BeatsAhead(t) ==        \* mutant: the cursor already counts the batch in hand
  LET n == Fetched(attempts[t].rows, attempts[t].offset) IN
  /\ attempts[t].at = "select"
  /\ Goes(t, IF n = 0 THEN "answer" ELSE "upsert", attempts[t].offset, attempts[t].offset + n)
  /\ UNCHANGED <<dag, edits, runVars, childVars, storeVars, histVars>>

Select(t) ==
  LET n == Fetched(attempts[t].rows, attempts[t].offset) IN
  /\ attempts[t].at = "select"
  /\ Goes(t, IF n = 0 THEN "answer" ELSE "upsert", attempts[t].offset, attempts[t].offset)
  /\ UNCHANGED <<dag, edits, runVars, childVars, storeVars, histVars>>

Write(store, L, table) ==
  [l \in Lines |-> IF l \in L THEN RecomputeLine(table, AccountOf[l]) ELSE store[l]]

InHand(t) == Batch(attempts[t].rows, attempts[t].offset)

(* _write_drafts: one transaction, ON CONFLICT DO UPDATE.                  *)
Upsert(t) ==
  /\ attempts[t].at = "upsert"
  /\ drafts' = Write(drafts, InHand(t), attempts[t].factors)
  /\ Goes(t, "stage", attempts[t].offset, attempts[t].beat)
  /\ UNCHANGED <<dag, edits, runVars, childVars, staged, histVars>>

(* The insert into the other store, and the end of the loop's body: a      *)
(* short batch is the last, and the cursor is recorded once more.          *)
Stage(t) ==
  LET n == Fetched(attempts[t].rows, attempts[t].offset)
      next == attempts[t].offset + n
  IN
  /\ attempts[t].at = "stage"
  /\ staged' = Write(staged, InHand(t), attempts[t].factors)
  /\ IF n < BatchSize THEN Goes(t, "answer", next, next)
                      ELSE Goes(t, "select", next, attempts[t].beat)
  /\ UNCHANGED <<dag, edits, runVars, childVars, drafts, histVars>>

(* The rows in hand again, and the result, which counts if it is awaited.  *)
Answer(t) ==
  /\ attempts[t].at = "answer"
  /\ attempts' = [attempts EXCEPT ![t] = Idle]
  /\ running' = running \ Holds(t)
  /\ holder' = [p \in Partitions |-> IF p \in Holds(t) THEN NoThread ELSE holder[p]]
  /\ tries' = [p \in Partitions |-> IF p \in Holds(t) THEN 0 ELSE tries[p]]
  /\ heartbeat' = [p \in Partitions |-> IF p \in Holds(t) THEN 0 ELSE heartbeat[p]]
  /\ counted' = IF Holds(t) = {} THEN counted ELSE counted \cup attempts[t].rows
  /\ UNCHANGED <<dag, edits, runVars, storeVars, mixed>>

(* The SDK sends heartbeats when it sees fit; one from an attempt that was *)
(* given up is refused.                                                    *)
DeliverHeartbeat(t, p) ==
  /\ p \in Holds(t) /\ heartbeat[p] # attempts[t].beat
  /\ heartbeat' = [heartbeat EXCEPT ![p] = attempts[t].beat]
  /\ UNCHANGED <<dag, edits, runVars, running, tries, holder, attempts, storeVars, histVars>>

(* heartbeat_timeout or start_to_close_timeout: the thread works on.       *)
GiveUp(p) ==
  /\ p \in running /\ holder[p] # NoThread
  /\ holder' = [holder EXCEPT ![p] = NoThread]
  /\ UNCHANGED <<dag, edits, runVars, running, tries, heartbeat, attempts, storeVars, histVars>>

(* An exception or a worker's death, in whatever state.  The staging       *)
(* insert is cut by month: a part of it may have landed.                   *)
Crash(t) ==
  /\ attempts[t] # Idle
  /\ \E L \in SUBSET (IF attempts[t].at = "stage" THEN InHand(t) ELSE {}) :
       staged' = Write(staged, L, attempts[t].factors)
  /\ attempts' = [attempts EXCEPT ![t] = Idle]
  /\ holder' = [p \in Partitions |-> IF p \in Holds(t) THEN NoThread ELSE holder[p]]
  /\ UNCHANGED <<dag, edits, runVars, running, tries, heartbeat, drafts, histVars>>

----------------------------------------------------------------------------
Run == Load \/ Snapshot \/ Resolve \/ StartBatch \/ Park \/ BatchDone \/ FailRun
         \/ \E p \in Partitions : ChildFails(p)

Work(t) == Select(t) \/ Upsert(t) \/ Stage(t) \/ Answer(t)

TakeAny == \E t \in Threads, p \in Partitions : Take(t, p)

Next ==
  \/ Run \/ ContinueAsNew \/ TakeAny
  \/ \E d \in Dags : EditLibrary(d)
  \/ \E t \in Threads : Work(t) \/ Crash(t) \/ \E p \in Partitions : DeliverHeartbeat(t, p)
  \/ \E p \in Partitions : GiveUp(p)

Spec == Init /\ [][Next]_vars

----------------------------------------------------------------------------
Factor == [target : {b.target : b \in Bindings}, driver : {b.driver : b \in Bindings},
           ratio : [Shocks -> 0 .. 2]]

(* Nothing is affected without a factor.                                   *)
IsTable(table) == \A a \in DOMAIN table : table[a] \subseteq Factor /\ table[a] # {}

IsAttempt(a) ==
  /\ a \in [at : {"select", "upsert", "stage", "answer"}, rows : SUBSET Lines,
             factors : {a.factors}, offset : Nat, beat : Nat]
  /\ IsTable(a.factors) /\ \A l \in a.rows : AccountOf[l] \in DOMAIN a.factors

TypeOK ==
  /\ dag \in Dags /\ context \in Dags /\ IsTable(factors) /\ edits \in Nat
  /\ pc \in {"load", "snapshot", "resolve", "batch", "running", "failing", "parked", "failed"}
  /\ runs \in Nat /\ resume \in Nat /\ done \in Nat
  /\ running \subseteq Partitions
  /\ tries \in [Partitions -> 0 .. MaxTries]
  /\ heartbeat \in [Partitions -> Nat]
  /\ holder \in [Partitions -> Threads \cup {NoThread}]
  /\ DOMAIN attempts = Threads
  /\ \A t \in Threads : attempts[t] = Idle \/ IsAttempt(attempts[t])
  /\ drafts \in [Lines -> SUBSET Factor] /\ staged \in [Lines -> SUBSET Factor]
  /\ counted \subseteq Lines /\ mixed \in BOOLEAN

(***************************************************************************)
(* A line the run counts as processed has its row in both stores, whatever *)
(* attempts were given up, crashed half-way or resumed from an old         *)
(* heartbeat (activities.py:437 "A retry after a worker death picks up at  *)
(* the last checkpoint").                                                  *)
(***************************************************************************)
CountedIsWritten == \A l \in counted : drafts[l] # NoRow /\ staged[l] # NoRow

(***************************************************************************)
(* No row of the baseline is in two partitions, none that is dirty is in   *)
(* none, and no partition outgrows the target but one that is a single     *)
(* month: "no two children can ever write the same row"                    *)
(* (activities.py:400).                                                    *)
(***************************************************************************)
PlanIsPartition ==
  pc \in {"batch", "running"} =>
    /\ \A l \in LinesOf(AffectedAccounts(factors)) :
         Cardinality({p \in DOMAIN plan : CellOf[l] \in plan[p].cells}) = 1
    /\ \A p \in DOMAIN plan :
         /\ plan[p].rows = Cardinality(RowsOf(plan[p]))
         /\ plan[p].rows > 0
         /\ plan[p].rows > TargetSize => Cardinality(plan[p].cells) = 1
         /\ \A c1, c2 \in plan[p].cells : c1[1] = c2[1]

(***************************************************************************)
(* The numbers a line should have, by a definition of its own: driver d is *)
(* moved by shock s when no set of drivers that holds s and is closed      *)
(* under the edges leaves d out.                                           *)
(***************************************************************************)
Closed(S, d) == \A c \in DOMAIN d : d[c] \cap S # {} => c \in S
Moves(s, driver, d) == \A S \in SUBSET (DOMAIN d \cup Shocks) : s \in S /\ Closed(S, d) => driver \in S
MovedBy(driver, d) == {s \in Shocks : Moves(s, driver, d)}

Numbers(account, d) ==
  LET live == {b \in Bindings : b.account = account /\ MovedBy(b.driver, d) # {}}
  IN  {[target |-> b.target, driver |-> b.driver,
        ratio |-> [s \in Shocks |-> IF s \in MovedBy(b.driver, d) THEN 1 ELSE 0]] : b \in live}

Expected(d) == [l \in Lines |-> Numbers(AccountOf[l], d)]

(***************************************************************************)
(* A parked run has written exactly the lines its shocks move, each once   *)
(* with its own numbers, the same in both stores, and nothing else: after  *)
(* any crashes, abandoned attempts, continued and repeated runs, and edits *)
(* of the library while an execution runs ("what stops a mid-run edit to   *)
(* the driver library from changing the answer halfway",                   *)
(* activities.py:122).  What it does not survive is an execution that      *)
(* reads another library than the one before it.                           *)
(***************************************************************************)
ParkedIsComputed ==
  pc = "parked" /\ ~mixed =>
    /\ drafts = Expected(context) /\ staged = Expected(context)
    /\ counted = {l \in Lines : drafts[l] # NoRow}
=============================================================================
