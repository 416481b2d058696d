---------------------------- MODULE ComputePhase ----------------------------
(***************************************************************************)
(* One PlanRecomputeWorkflow execution up to the approval gate, and the    *)
(* chain of executions it continues as (recompute/workflows.py).           *)
(*                                                                         *)
(* The workflow is a coroutine: it holds the thread from one await to the  *)
(* next, and the update and signal handlers run while it waits.  An action *)
(* of the run is therefore what it does between two awaits, and FoldIn,    *)
(* CancelRun and EarlyDecision interleave with them.                       *)
(*                                                                         *)
(* A revision and its key are one: a shock set.  A driver is unmoved, at   *)
(* its published value, or at the value this run was asked for.            *)
(***************************************************************************)
EXTENDS Naturals, FiniteSets

CONSTANTS Drivers,       \* drivers of the plan's model
          Published,     \* drivers a committed revision has moved, if there is one
          Unbound,       \* drivers no plan line is bound to
          PerDriver,     \* partitions a bound driver's dirty lines are cut into
          MaxConcurrent, \* MAX_CONCURRENT_CHILDREN (8 in the code)
          Cap            \* continue_after_partitions, 0 for none (1000 by default)

ASSUME ComputeAssumption ==
  /\ IsFiniteSet(Drivers) /\ Published \subseteq Drivers /\ Unbound \subseteq Drivers
  /\ PerDriver \in Nat \ {0} /\ MaxConcurrent \in Nat \ {0} /\ Cap \in Nat

Shocks == [Drivers -> {"unmoved", "published", "asked"}]
Nothing == [d \in Drivers |-> "unmoved"]

Moved(s) == {d \in Drivers : s[d] # "unmoved"}

VARIABLES
  pc,         \* the await the run is at
  published,  \* what committed_shocks reads; one run at a time can change it
  input,      \* self._input.shocks, which is payload.shocks
  requested,  \* self._requested
  restart,    \* self._restart_requested
  cancelled,  \* self._cancelled
  decision,   \* a decision is held in self._approval
  revision,   \* self._revision, Nothing before the first reservation
  ours,       \* revisions this run has found RESERVED
  factors,    \* the shock set the children were handed
  total,      \* how many partitions the dirty set was cut into
  done,       \* self._partitions_done
  resume,     \* resume.partitions_done, 0 when there is no resume
  thisRun,    \* partitions_this_run, of this pass of _compute
  width,      \* children the current batch started
  running,    \* partitions whose child has not finished
  staged,     \* fact_plan_line_staged: revision -> <<partition, shock set>>
  outcome,    \* "none" while the run goes on
  told,       \* history: drivers a caller was told are in the run
  asked,      \* history: {"cancel", "decision"} signals sent to it
  slips,      \* history: windows in which an accepted request went unread
  started,    \* history: children this execution has started
  joined      \* history: drivers folded into this execution

workVars == <<revision, ours, factors, total, done, resume, thisRun, width, running, staged>>
flagVars == <<requested, restart, cancelled, decision>>
spentVars == <<started, joined>>
histVars == <<told, asked, slips, spentVars>>
restVars == <<published, outcome>>
vars == <<pc, input, flagVars, workVars, restVars, histVars>>

(* resolve_dirty_set: the plan lines bound to a moved driver, cut in order. *)
Partitions(s) == PerDriver * Cardinality(Moved(s) \ Unbound)

(* merge_shocks: what is published, with the request over it.              *)
MergeShocks(committed, request) ==
  [d \in Drivers |-> IF request[d] = "asked" THEN "asked"
                     ELSE IF d \in committed THEN "published" ELSE request[d]]

Ask(D) == [d \in Drivers |-> IF d \in D THEN "asked" ELSE "unmoved"]

End(how) == pc' = "ended" /\ outcome' = how /\ UNCHANGED published

Init ==
  /\ \E D \in (SUBSET Drivers) \ {{}} : input = Ask(D) /\ told = D
  /\ published \in {{}, Published}
  /\ pc = "starting" /\ outcome = "none"
  /\ requested = {} /\ restart = FALSE /\ cancelled = FALSE /\ decision = FALSE
  /\ revision = Nothing /\ ours = {} /\ factors = Nothing
  /\ total = 0 /\ done = 0 /\ resume = 0 /\ thisRun = 0 /\ width = 0
  /\ running = {} /\ staged = [s \in Shocks |-> {}]
  /\ asked = {} /\ slips = {}
  /\ started = 0 /\ joined = {}

----------------------------------------------------------------------------
(***************************************************************************)
(* The handlers.                                                           *)
(***************************************************************************)
(* add_shock, past its validator.  The phase is AWAITING_APPROVAL only     *)
(* once open_approval has returned: while it is in flight it still reads   *)
(* SAVING_DRAFT, which the validator lets through.  In a run that resumes, *)
(* a shock before the reservation leaves what the run before it staged     *)
(* under a revision nobody names again.                                    *)
FoldIn(d) ==
  /\ pc \notin {"starting", "parked", "ended"} /\ ~cancelled
  /\ d \notin requested
  /\ input' = [input EXCEPT ![d] = "asked"]
  /\ requested' = requested \cup {d} /\ restart' = TRUE
  /\ told' = told \cup {d}
  /\ slips' = slips \cup (IF pc = "saving" THEN {"saving"} ELSE {})
                    \cup (IF pc = "reserve" /\ resume > 0 THEN {"resumed"} ELSE {})
  /\ joined' = joined \cup {d}
  /\ UNCHANGED <<pc, cancelled, decision, workVars, restVars, asked, started>>

(* cancel_run: a flag the run reads when it next comes by.                 *)
CancelRun ==
  /\ pc # "ended" /\ "cancel" \notin asked
  /\ cancelled' = TRUE
  /\ asked' = asked \cup {"cancel"}
  /\ UNCHANGED <<pc, input, requested, restart, decision, workVars, restVars, told, slips, spentVars>>

(* approve: kept until the run parks, however early it arrives.            *)
EarlyDecision ==
  /\ pc # "ended" /\ "decision" \notin asked
  /\ decision' = TRUE
  /\ asked' = asked \cup {"decision"}
  /\ UNCHANGED <<pc, input, requested, restart, cancelled, workVars, restVars, told, slips, spentVars>>

----------------------------------------------------------------------------
(***************************************************************************)
(* The run, one await at a time.                                           *)
(***************************************************************************)
(* _execute up to the loop: the request over the published set.  A run     *)
(* that continues as new counts every driver it carries as requested.      *)
Start ==
  /\ pc = "starting"
  /\ pc' = "reserve"
  /\ requested' = requested \cup Moved(input)
  /\ input' = MergeShocks(published, input)
  /\ restart' = FALSE
  /\ UNCHANGED <<cancelled, decision, workVars, restVars, histVars>>

(* reserve_revision under the key of the set as it is now.                 *)
Reserve ==
  /\ pc = "reserve"
  /\ pc' = "ensure"
  /\ revision' = input
  /\ UNCHANGED <<input, flagVars, ours, factors, total, done, resume, thisRun, width, running,
                 staged, restVars, histVars>>

(* ensure_target_version: the key is fresh or was never published; or an   *)
(* earlier run published under it, and that is the answer.                 *)
EnsureReserved ==
  /\ pc = "ensure"
  /\ pc' = "resolve"
  /\ ours' = ours \cup {revision}
  /\ UNCHANGED <<input, flagVars, revision, factors, total, done, resume, thisRun, width, running,
                 staged, restVars, histVars>>

EnsureSettled ==
  /\ pc = "ensure" /\ revision \notin ours
  /\ End("ALREADY")
  /\ slips' = IF restart THEN slips \cup {"settled"} ELSE slips
  /\ UNCHANGED <<input, flagVars, workVars, told, asked, spentVars>>

(* Baseline, drivers and dirty set; the factors are those of the set as it *)
(* is now, which may have grown since the reservation.                     *)
Resolve ==
  /\ pc = "resolve"
  /\ pc' = "batch"
  /\ factors' = input /\ total' = Partitions(input)
  /\ done' = resume /\ resume' = 0 /\ thisRun' = 0
  /\ UNCHANGED <<input, flagVars, revision, ours, width, running, staged, restVars, histVars>>

StopComputing == done >= total \/ cancelled \/ restart

Least(S, n) == {c \in S : Cardinality({b \in S : b < c}) < n}

BatchWidth == IF Cap > 0 /\ Cap - thisRun < MaxConcurrent THEN Cap - thisRun ELSE MaxConcurrent

(* The next children, one per partition.                                   *)
StartUncapped ==        \* mutant: a batch runs past the cap
  /\ pc = "batch" /\ ~StopComputing
  /\ pc' = "running"
  /\ running' = Least((done + 1) .. total, MaxConcurrent)
  /\ width' = Cardinality(running') /\ started' = started + width'
  /\ UNCHANGED <<input, flagVars, revision, ours, factors, total, done, resume, thisRun, staged,
                 restVars, told, asked, slips, joined>>

StartBatch ==
  /\ pc = "batch" /\ ~StopComputing
  /\ pc' = "running"
  /\ running' = Least((done + 1) .. total, BatchWidth)
  /\ width' = Cardinality(running') /\ started' = started + width'
  /\ UNCHANGED <<input, flagVars, revision, ours, factors, total, done, resume, thisRun, staged,
                 restVars, told, asked, slips, joined>>

(* A child's evaluate_partition: both writes carry the revision.  Children *)
(* of a failed batch write on: nobody waits for them.                      *)
ChildWrites(c) ==
  /\ c \in running
  /\ running' = running \ {c}
  /\ staged' = [staged EXCEPT ![revision] = @ \cup {<<c, factors>>}]
  /\ UNCHANGED <<pc, input, flagVars, revision, ours, factors, total, done, resume, thisRun,
                 width, restVars, histVars>>

(* A child out of attempts fails the gather, and with it the run.          *)
ChildFails(c) ==
  /\ pc = "running" /\ c \in running
  /\ running' = running \ {c}
  /\ pc' = "failing"
  /\ UNCHANGED <<input, flagVars, revision, ours, factors, total, done, resume, thisRun, width,
                 staged, restVars, histVars>>

(* So does any other activity but _mirror, whose failure is swallowed.     *)
ActivityFails ==
  /\ pc \in {"starting", "reserve", "ensure", "resolve", "discard", "abandon", "saving", "parked"}
  /\ pc' = "failing"
  /\ UNCHANGED <<input, flagVars, workVars, restVars, histVars>>

(* _fail: the discard is best effort.                                      *)
FailRun ==
  /\ pc = "failing"
  /\ \E discards \in BOOLEAN :
       staged' = IF discards THEN [staged EXCEPT ![revision] = {}] ELSE staged
  /\ End("FAILED")
  /\ UNCHANGED <<input, flagVars, revision, ours, factors, total, done, resume, thisRun, width,
                 running, histVars>>

MustContinue == Cap > 0 /\ thisRun + width >= Cap

(* The batch is counted.  With partitions left, at the cap or at Temporal's *)
(* suggestion, the run continues as new.                                   *)
BatchDone ==
  /\ pc = "running" /\ running = {}
  /\ done + width < total => ~MustContinue
  /\ pc' = "batch"
  /\ done' = done + width /\ thisRun' = thisRun + width
  /\ UNCHANGED <<input, flagVars, revision, ours, factors, total, resume, width, running, staged,
                 restVars, histVars>>

(* ContinueAsNew carries the shocks and the cursor, no flag and no signal. *)
ContinueAsNew ==
  /\ pc = "running" /\ running = {}
  /\ done + width < total
  /\ pc' = "starting"
  /\ resume' = done + width
  /\ done' = 0 /\ total' = 0 /\ thisRun' = 0 /\ width' = 0 /\ factors' = Nothing
  /\ requested' = {} /\ restart' = FALSE /\ cancelled' = FALSE /\ decision' = FALSE
  /\ slips' = slips \cup (IF restart THEN {"restart"} ELSE {})
                    \cup (IF cancelled THEN {"cancel"} ELSE {})
                    \cup (IF decision THEN {"decision"} ELSE {})
  /\ started' = 0 /\ joined' = {}
  /\ UNCHANGED <<input, revision, ours, running, staged, restVars, told, asked>>

(* The end of _compute and what _execute makes of it, in its order.        *)
FinishedFirst ==        \* mutant: the restart flag is read only while partitions are left
  /\ pc = "batch" /\ StopComputing
  /\ IF done >= total THEN IF cancelled THEN pc' = "abandon" ELSE pc' = "saving"
                      ELSE IF restart THEN pc' = "discard" ELSE pc' = "abandon"
  /\ UNCHANGED <<input, flagVars, workVars, restVars, histVars>>

StopBatches ==
  /\ pc = "batch" /\ StopComputing
  /\ pc' = IF restart THEN "discard" ELSE IF cancelled THEN "abandon"
           ELSE IF total = 0 THEN "empty" ELSE "saving"
  /\ UNCHANGED <<input, flagVars, workVars, restVars, histVars>>

(* _execute's restart: drop what was staged, then compute again.           *)
KeepStaged ==           \* mutant: nothing is discarded
  /\ pc = "discard"
  /\ pc' = "reserve" /\ restart' = FALSE
  /\ UNCHANGED <<input, requested, cancelled, decision, workVars, restVars, histVars>>

RestartForever ==       \* mutant: the flag that asked for the restart stays up
  /\ pc = "discard"
  /\ pc' = "reserve"
  /\ staged' = [staged EXCEPT ![revision] = {}]
  /\ UNCHANGED <<input, flagVars, revision, ours, factors, total, done, resume,
                 thisRun, width, running, restVars, histVars>>

Restart ==
  /\ pc = "discard"
  /\ pc' = "reserve" /\ restart' = FALSE
  /\ staged' = [staged EXCEPT ![revision] = {}]
  /\ UNCHANGED <<input, requested, cancelled, decision, revision, ours, factors, total, done, resume,
                 thisRun, width, running, restVars, histVars>>

FinishUnnamed ==        \* mutant: an outcome no caller knows
  /\ pc = "empty"
  /\ End("EMPTY")
  /\ UNCHANGED <<input, flagVars, workVars, histVars>>

FinishEmpty ==
  /\ pc = "empty"
  /\ End("NO_OP")
  /\ UNCHANGED <<input, flagVars, workVars, histVars>>

Abandon ==
  /\ pc = "abandon"
  /\ staged' = [staged EXCEPT ![revision] = {}]
  /\ End("CANCELLED")
  /\ UNCHANGED <<input, flagVars, revision, ours, factors, total, done, resume, thisRun, width,
                 running, histVars>>

OpenApproval ==
  /\ pc = "saving"
  /\ pc' = "parked"
  /\ UNCHANGED <<input, flagVars, workVars, restVars, histVars>>

(* The wait: a cancel is read before a decision.  What a decision leads to *)
(* is Settlement's; here it ends the run, and so does the timer.           *)
LeavePark ==
  /\ pc = "parked"
  /\ IF cancelled THEN pc' = "abandon" /\ UNCHANGED restVars
     ELSE End(IF decision THEN "DECIDED" ELSE "EXPIRED")
  /\ UNCHANGED <<input, flagVars, workVars, histVars>>

Handlers == (\E d \in Drivers : FoldIn(d)) \/ CancelRun \/ EarlyDecision

Children == \E c \in running : ChildWrites(c) \/ ChildFails(c)

Workflow ==
  \/ Start \/ Reserve \/ EnsureReserved \/ EnsureSettled \/ Resolve \/ StartBatch \/ FailRun
  \/ BatchDone \/ ContinueAsNew \/ StopBatches \/ Restart \/ FinishEmpty \/ Abandon
  \/ OpenApproval \/ LeavePark

Next == Handlers \/ Children \/ Workflow \/ ActivityFails

Spec == Init /\ [][Next]_vars
FairSpec == Spec /\ WF_vars(Workflow) /\ WF_vars(Children)

----------------------------------------------------------------------------
AllPartitions == PerDriver * Cardinality(Drivers)

Cells == 1 .. AllPartitions

TypeOK ==
  /\ pc \in {"starting", "reserve", "ensure", "resolve", "batch", "running", "failing", "discard",
             "abandon", "empty", "saving", "parked", "ended"}
  /\ input \in Shocks /\ revision \in Shocks /\ factors \in Shocks
  /\ requested \subseteq Drivers /\ told \subseteq Drivers
  /\ restart \in BOOLEAN /\ cancelled \in BOOLEAN /\ decision \in BOOLEAN
  /\ ours \subseteq Shocks /\ published \subseteq Drivers
  /\ total \in 0 .. AllPartitions
  /\ done \in Nat /\ resume \in Nat /\ thisRun \in Nat /\ width \in Nat
  /\ running \subseteq Cells
  /\ staged \in [Shocks -> SUBSET (Cells \X Shocks)]
  /\ outcome \in {"none", "ALREADY", "FAILED", "NO_OP", "CANCELLED", "DECIDED", "EXPIRED"}
  /\ asked \subseteq {"cancel", "decision"}
  /\ slips \subseteq {"saving", "resumed", "settled", "restart", "cancel", "decision"}
  /\ started \in Nat /\ joined \subseteq Drivers

(***************************************************************************)
(* What an approver is shown.                                              *)
(***************************************************************************)
Whole(s) == staged[s] = (1 .. Partitions(s)) \X {s}

AtTheGate == pc = "parked" \/ outcome \in {"ALREADY", "NO_OP", "DECIDED", "EXPIRED"}
Answered  == \A d \in told : revision[d] = "asked"

(***************************************************************************)
(* A parked run has every partition of its revision staged, each computed  *)
(* from that revision's whole shock set and nothing else, whichever shocks *)
(* were folded in between which awaits and however often it started over   *)
(* or continued as new (RECOMPUTE.md:236) - unless an accepted request     *)
(* slipped through one of the windows the run never reads again.           *)
(***************************************************************************)
ParkedIsWhole == pc = "parked" /\ slips = {} => Whole(revision) /\ Answered

(***************************************************************************)
(* The same without the exception: "a second shock is never silently       *)
(* dropped" (workflows.py:203).                                            *)
(***************************************************************************)
NeverDropped == AtTheGate => Answered

(***************************************************************************)
(* A cancel or a decision, once signalled, is known to the run when it     *)
(* parks: "dropping one because we were not ready yet would be a way to    *)
(* lose a decision somebody made" (workflows.py:153).                      *)
(***************************************************************************)
SignalsKept ==
  pc = "parked" => ("cancel" \in asked => cancelled) /\ ("decision" \in asked => decision)

(***************************************************************************)
(* A cancelled run leaves no staged row of any revision it ever reserved,  *)
(* those it abandoned for a larger shock set included (workflows.py:743).  *)
(***************************************************************************)
CancelLeavesNothing ==
  outcome = "CANCELLED" /\ slips = {} => \A s \in Shocks : staged[s] = {}

(***************************************************************************)
(* An execution's history stays bounded: it starts at most Cap children,   *)
(* and at most Cap more for each shock folded into it, however folding in, *)
(* batches, restarts and cancelling alternate.  _compute counts what it    *)
(* started in a local variable (workflows.py:463), which begins anew when  *)
(* _execute calls it again (workflows.py:364).                             *)
(***************************************************************************)
HistoryIsBounded == Cap > 0 => started <= Cap * (1 + Cardinality(joined))

(***************************************************************************)
(* The same without what is folded in: "so the cap is exact: a run never   *)
(* starts more children than it was allowed" (workflows.py:468).           *)
(***************************************************************************)
CapIsExact == Cap > 0 => started <= Cap

(***************************************************************************)
(* Every run parks or ends, however many shocks arrive on the way.         *)
(***************************************************************************)
RunsToTheGate == pc = "starting" ~> pc \in {"parked", "ended"}
=============================================================================
