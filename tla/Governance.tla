----------------------------- MODULE Governance -----------------------------
(***************************************************************************)
(* A plan version under governance (src/src/fpa_project/governance.py),    *)
(* with the constraints and triggers of its table, while several people    *)
(* and the recompute worker's approval activities write it at the same     *)
(* time.  Transactions are READ COMMITTED: a plain SELECT sees what is     *)
(* committed, an UPDATE or SELECT FOR UPDATE waits for the row, and what a *)
(* transaction wrote appears when it commits, together with the row it     *)
(* added to the audit chain.  A request that is refused before it writes   *)
(* is no step; one refused later rolls back.                               *)
(***************************************************************************)
EXTENDS Naturals, FiniteSets

CONSTANTS Sessions,   \* database sessions, each serving one request at a time
          Users,
          Roles,      \* Roles[u] is the set of roles user u holds
          Service,    \* the worker's identity, which decides when nobody does
          Rates,      \* values of a plan FX rate
          NoSession, NoUser, NoRate,
          MaxEvents   \* bound: audit ids drawn, which bounds the transactions

ASSUME GovernanceAssumption ==
  /\ Roles \in [Users -> SUBSET {"planner", "controller", "cfo"}]
  /\ NoUser \notin Users /\ Service \notin Users
  /\ NoRate \notin Rates /\ NoSession \notin Sessions

VARIABLES version,    \* the committed plan_version row
          rate,       \* its committed plan_fx_rate, NoRate while there is no row
          approval,   \* the decision of its latest plan_approval row
          rowLock,    \* the session that has the row locked
          tx,         \* tx[s] is the transaction of session s
          seen,       \* seen[s] is what the client of s last read
          audit, sequence, appends, chainLock, overtaken

chainVars == <<audit, sequence, appends, chainLock, overtaken>>
planVars  == <<version, rate, approval>>
vars == <<planVars, rowLock, tx, seen, chainVars>>

States == {"DRAFT", "IN_REVIEW", "APPROVED", "LOCKED", "SUPERSEDED", "REJECTED"}
Agreed == {"APPROVED", "LOCKED"}

Version == [state : States, covenantOk : BOOLEAN, requestedBy : Users,
            approvedBy : Users \cup {NoUser}, rowVersion : Nat]

(***************************************************************************)
(* What is asked, which is also what the audit row says: who (by) did what *)
(* (op), with the state, verdict or rate it was about.                     *)
(***************************************************************************)
WorkerOps == {"open", "approve", "reject"}
Request == [op : WorkerOps \cup {"move", "covenant", "rate"}, by : Users \cup {Service},
            to : States \cup {"-"}, ok : BOOLEAN, rate : Rates \cup {NoRate}]

Chain == INSTANCE AuditChain WITH Facts <- Request

(***************************************************************************)
(* A transaction is about to write ("update") or has written and is to     *)
(* record it and commit ("record").  named: the request carried the        *)
(* row_version its client had read.  read: the row_version a transition    *)
(* read itself.  row, rate, decision: what it wrote.                       *)
(***************************************************************************)
Idle == [at |-> "idle"]
Transaction ==
  [at : {"update"}, req : Request, named : BOOLEAN, read : Nat] \cup
  [at : {"record"}, req : Request, named : BOOLEAN,
   row : Version, rate : Rates \cup {NoRate}, decision : {"NONE", "PENDING", "APPROVED", "REJECTED"}]

Unseen == [version |-> "-"]
View == [version : Version, rate : Rates \cup {NoRate}]

TypeOK ==
  /\ version \in Version
  /\ rate \in Rates \cup {NoRate}
  /\ approval \in {"NONE", "PENDING", "APPROVED", "REJECTED"}
  /\ rowLock \in Sessions \cup {NoSession}
  /\ tx \in [Sessions -> {Idle} \cup Transaction]
  /\ seen \in [Sessions -> {Unseen} \cup View]
  /\ Chain!ChainTypeOK

(***************************************************************************)
(* A version somebody authored, or the worker created as a successor.      *)
(***************************************************************************)
Init ==
  /\ \E u \in Users :
       version = [state |-> "DRAFT", covenantOk |-> FALSE, requestedBy |-> u,
                  approvedBy |-> NoUser, rowVersion |-> 1]
  /\ rate = NoRate
  /\ approval = "NONE"
  /\ rowLock = NoSession
  /\ tx = [s \in Sessions |-> Idle]
  /\ seen = [s \in Sessions |-> Unseen]
  /\ Chain!ChainInit

----------------------------------------------------------------------------
(***************************************************************************)
(* plan_state_transition, as seeded.                                       *)
(***************************************************************************)
PlanStateTransition ==
  { <<"DRAFT", "IN_REVIEW", "planner">>,
    <<"IN_REVIEW", "APPROVED", "controller">>,
    <<"IN_REVIEW", "REJECTED", "controller">>,
    <<"APPROVED", "LOCKED", "cfo">>,
    <<"APPROVED", "SUPERSEDED", "planner">>,
    <<"REJECTED", "DRAFT", "planner">> }

MayMove(u, from, to) == \E role \in Roles[u] : <<from, to, role>> \in PlanStateTransition

(***************************************************************************)
(* The check constraints of plan_version: covenant before approval, an     *)
(* approver for what is approved, nobody approving their own request.      *)
(***************************************************************************)
\* Mutant of ColumnsAllow: without ck_plan_version_covenant_before_approval.
ColumnsAllowUnreviewed(row) ==
  /\ row.state \in Agreed => row.approvedBy # NoUser
  /\ row.approvedBy # row.requestedBy

ColumnsAllow(row) ==
  /\ row.state \in Agreed => row.covenantOk /\ row.approvedBy # NoUser
  /\ row.approvedBy # row.requestedBy

\* One UPDATE of the row: plan_version_row_version counts it.
Bumped(row) == [row EXCEPT !.rowVersion = @ + 1]

----------------------------------------------------------------------------
(* Transactions.                                                           *)

\* Bound: every transaction under way will draw an audit id.
RoomForOneMore ==
  sequence + Cardinality({t \in Sessions : tx[t].at # "idle" /\ appends[t].at = "idle"})
    < MaxEvents

Begin(s, req, named, read) ==
  /\ tx[s] = Idle
  /\ RoomForOneMore
  /\ tx' = [tx EXCEPT ![s] = [at |-> "update", req |-> req, named |-> named, read |-> read]]
  /\ UNCHANGED <<planVars, rowLock, seen, chainVars>>

Asked(s, op) == tx[s].at = "update" /\ tx[s].req.op = op

\* The statements before the audit row have run.
Written(s, row, r, decision) ==
  /\ tx' = [tx EXCEPT ![s] = [at |-> "record", req |-> tx[s].req, named |-> tx[s].named,
                              row |-> row, rate |-> r, decision |-> decision]]
  /\ UNCHANGED <<planVars, seen, chainVars>>

Abandon(s) ==
  /\ tx' = [tx EXCEPT ![s] = Idle]
  /\ rowLock' = IF rowLock = s THEN NoSession ELSE rowLock
  /\ seen' = [seen EXCEPT ![s] = Unseen]
  /\ Chain!Rollback(s)
  /\ UNCHANGED planVars

(***************************************************************************)
(* UPDATE plan_version: waits for the row, then plan_version_lock_guard    *)
(* and the check constraints have the last word.                           *)
(***************************************************************************)
Update(s, row, r, decision) ==
  /\ rowLock = NoSession
  /\ IF version.state # "LOCKED" /\ ColumnsAllow(row)
       THEN rowLock' = s /\ Written(s, row, r, decision)
       ELSE Abandon(s)

----------------------------------------------------------------------------
(* What people do.                                                         *)

\* describe: the client of s reads the version.
Describe(s) ==
  /\ tx[s] = Idle
  /\ seen' = [seen EXCEPT ![s] = [version |-> version, rate |-> rate]]
  /\ UNCHANGED <<planVars, rowLock, tx, chainVars>>

Stale(s) == seen[s].version.rowVersion # version.rowVersion

(***************************************************************************)
(* transition, up to its UPDATE: everything it checks, it checks on the    *)
(* row it read without a lock.                                             *)
(***************************************************************************)
Transition(s) ==
  \E u \in Users, to \in States, named \in BOOLEAN :
    /\ named => seen[s] # Unseen /\ ~Stale(s)
    /\ MayMove(u, version.state, to)
    /\ ~(to = "APPROVED" /\ u = version.requestedBy)
    /\ Begin(s, [op |-> "move", by |-> u, to |-> to, ok |-> FALSE, rate |-> NoRate],
             named, version.rowVersion)

MovedBy(req) ==
  Bumped([version EXCEPT !.state = req.to,
                         !.approvedBy = IF req.to = "APPROVED" THEN req.by ELSE @])

\* Mutant of UpdateState: an UPDATE without AND row_version = :rv.
UpdateStateBlindly(s) ==
  /\ Asked(s, "move")
  /\ Update(s, MovedBy(tx[s].req), rate, approval)

\* UPDATE ... WHERE row_version = :rv, which matches nothing if the row moved on.
UpdateState(s) ==
  /\ Asked(s, "move")
  /\ IF tx[s].read = version.rowVersion
       THEN Update(s, MovedBy(tx[s].req), rate, approval)
       ELSE Abandon(s)

(***************************************************************************)
(* set_covenant and set_plan_fx_rate: SELECT ... FOR UPDATE, compare with  *)
(* the version the request named, write.  The triggers refuse anybody but  *)
(* a controller.  A rate lives in another table; the UPDATE of updated_at  *)
(* makes it count as a change of the version.                              *)
(***************************************************************************)
SetCovenant(s) ==
  \E u \in Users, ok, named \in BOOLEAN :
    /\ named => seen[s] # Unseen
    /\ Begin(s, [op |-> "covenant", by |-> u, to |-> "-", ok |-> ok, rate |-> NoRate], named, 0)

SetPlanFxRate(s) ==
  \E u \in Users, r \in Rates, named \in BOOLEAN :
    /\ named => seen[s] # Unseen
    /\ Begin(s, [op |-> "rate", by |-> u, to |-> "-", ok |-> FALSE, rate |-> r], named, 0)

Refuses(s) ==
  \/ tx[s].named /\ Stale(s)
  \/ "controller" \notin Roles[tx[s].req.by]

UpdateCovenant(s) ==
  /\ Asked(s, "covenant")
  /\ rowLock = NoSession
  /\ IF Refuses(s)
       THEN Abandon(s)
       ELSE Update(s, Bumped([version EXCEPT !.covenantOk = tx[s].req.ok]), rate, approval)

\* Mutant of UpdateRate: the rate written, the version left alone.
UpdateRateAlone(s) ==
  /\ Asked(s, "rate")
  /\ rowLock = NoSession
  /\ IF Refuses(s)
       THEN Abandon(s)
       ELSE rowLock' = s /\ Written(s, version, tx[s].req.rate, approval)

UpdateRate(s) ==
  /\ Asked(s, "rate")
  /\ rowLock = NoSession
  /\ IF Refuses(s)
       THEN Abandon(s)
       ELSE Update(s, Bumped(version), tx[s].req.rate, approval)

----------------------------------------------------------------------------
(* What the recompute worker does to a successor: one activity at a time.  *)

WorkerIsFree == \A s \in Sessions : tx[s] # Idle => tx[s].req.op \notin WorkerOps

Activity(s, op, u, to) ==
  /\ WorkerIsFree
  /\ Begin(s, [op |-> op, by |-> u, to |-> to, ok |-> FALSE, rate |-> NoRate], FALSE, 0)

(***************************************************************************)
(* open_approval: DRAFT to IN_REVIEW if it is a DRAFT, and a PENDING row   *)
(* unless there is one.                                                    *)
(***************************************************************************)
OpenApproval(s) == Activity(s, "open", version.requestedBy, "IN_REVIEW")

(***************************************************************************)
(* UPDATE ... SET state WHERE state IN from: waits for the row only if it  *)
(* matches.                                                                *)
(***************************************************************************)
UpdateIf(s, from, to, decision) ==
  IF version.state \in from
    THEN Update(s, Bumped([version EXCEPT !.state = to]), rate, decision)
    ELSE Written(s, version, rate, decision) /\ UNCHANGED rowLock

UpdateOpen(s) ==
  /\ Asked(s, "open")
  /\ UpdateIf(s, {"DRAFT"}, "IN_REVIEW", "PENDING")

(***************************************************************************)
(* record_approval: the decider needs a role for both moves and must not   *)
(* be the requester; the covenant is read FOR UPDATE; then each UPDATE     *)
(* applies where its state clause matches.                                 *)
(***************************************************************************)
RecordApproval(s) ==
  \E u \in Users :
    /\ approval # "NONE"
    /\ u # version.requestedBy
    /\ MayMove(u, "IN_REVIEW", "APPROVED") /\ MayMove(u, "APPROVED", "LOCKED")
    /\ Activity(s, "approve", u, "LOCKED")

\* Mutant of Decided: the state of the version where the decision belongs.
DecidedAsState(decision) ==
  IF approval = "PENDING" THEN (IF decision = "APPROVED" THEN "LOCKED" ELSE decision) ELSE approval

Decided(decision) == IF approval = "PENDING" THEN decision ELSE approval

ApprovedBy(u) ==
  LET approved == IF version.state = "IN_REVIEW"
                    THEN Bumped([version EXCEPT !.state = "APPROVED", !.approvedBy = u])
                    ELSE version
  IN IF approved.state = "APPROVED"
       THEN Bumped([approved EXCEPT !.state = "LOCKED"])
       ELSE version

UpdateApproval(s) ==
  /\ Asked(s, "approve")
  /\ rowLock = NoSession
  /\ IF version.covenantOk /\ ColumnsAllow(ApprovedBy(tx[s].req.by))
       THEN rowLock' = s /\ Written(s, ApprovedBy(tx[s].req.by), rate, Decided("APPROVED"))
       ELSE Abandon(s)

(***************************************************************************)
(* record_rejection: by a person under the same rules, or by the service   *)
(* identity when the window closed, the run was cancelled or it failed.    *)
(***************************************************************************)
RecordRejection(s) ==
  \E u \in Users \cup {Service} :
    /\ u # Service => /\ approval # "NONE"
                      /\ u # version.requestedBy
                      /\ MayMove(u, "IN_REVIEW", "REJECTED")
    /\ Activity(s, "reject", u, "REJECTED")

UpdateRejection(s) ==
  /\ Asked(s, "reject")
  /\ UpdateIf(s, {"DRAFT", "IN_REVIEW"}, "REJECTED", Decided("REJECTED"))

----------------------------------------------------------------------------
(* The audit row, and the end of the transaction.                          *)

Record(s) ==
  /\ tx[s].at = "record"
  /\ Chain!Draw(s, tx[s].req)
  /\ UNCHANGED <<planVars, rowLock, tx, seen>>

LinkRecord(s) ==
  /\ Chain!Link(s)
  /\ UNCHANGED <<planVars, rowLock, tx, seen>>

Commit(s) ==
  /\ Chain!Commit(s)
  /\ version' = IF rowLock = s THEN tx[s].row ELSE version
  /\ rate' = IF rowLock = s THEN tx[s].rate ELSE rate
  /\ approval' = IF tx[s].req.op \in WorkerOps THEN tx[s].decision ELSE approval
  /\ rowLock' = IF rowLock = s THEN NoSession ELSE rowLock
  /\ tx' = [tx EXCEPT ![s] = Idle]
  /\ seen' = [seen EXCEPT ![s] = Unseen]

\* The connection drops, or the process dies.
Fail(s) == tx[s] # Idle /\ Abandon(s)

Proceed(s) ==
  \/ UpdateState(s)
  \/ UpdateCovenant(s)
  \/ UpdateRate(s)
  \/ UpdateOpen(s)
  \/ UpdateApproval(s)
  \/ UpdateRejection(s)
  \/ Record(s)
  \/ LinkRecord(s)
  \/ Commit(s)

Next ==
  \E s \in Sessions :
    \/ Describe(s)
    \/ Transition(s)
    \/ SetCovenant(s)
    \/ SetPlanFxRate(s)
    \/ OpenApproval(s)
    \/ RecordApproval(s)
    \/ RecordRejection(s)
    \/ Proceed(s)
    \/ Fail(s)

Spec == Init /\ [][Next]_vars

----------------------------------------------------------------------------
(***************************************************************************)
(* What is approved or locked has a passed covenant review and was         *)
(* approved by a controller who did not ask for it, whichever of the two   *)
(* paths it took and whatever happened in between.                         *)
(***************************************************************************)
AgreedIsReviewed ==
  version.state \in Agreed =>
    /\ version.covenantOk
    /\ version.approvedBy \in Users \ {version.requestedBy}
    /\ "controller" \in Roles[version.approvedBy]

(***************************************************************************)
(* The log agrees with the plan: the state the version is in, if it ever   *)
(* moved, and its approver have their audit row; what people are recorded  *)
(* to have done, the row's own version has counted; and a person's LOCK in *)
(* the log is a version that is locked.                                    *)
(***************************************************************************)
LogAgrees ==
  /\ version.state # "DRAFT" => \E r \in audit : r.key.to = version.state
  /\ version.approvedBy # NoUser =>
       \E r \in audit : /\ r.key.by = version.approvedBy
                        /\ r.key.op = "approve" \/ r.key.to = "APPROVED"
  /\ Cardinality({r \in audit : r.key.op \notin WorkerOps}) < version.rowVersion
  /\ (\E r \in audit : r.key.op = "move" /\ r.key.to = "LOCKED") => version.state = "LOCKED"

(***************************************************************************)
(* A request that named the version its client had read changes exactly    *)
(* what the client saw: nothing of the version, its rates included, was    *)
(* changed by somebody else in between.                                    *)
(***************************************************************************)
NoLostUpdate ==
  [][\A s \in Sessions :
       Commit(s) /\ tx[s].named => seen[s] = [version |-> version, rate |-> rate]]_vars

(***************************************************************************)
(* A locked plan is final: neither its row nor its rates change again.     *)
(***************************************************************************)
LockedIsFinal == [][version.state = "LOCKED" => UNCHANGED <<version, rate>>]_vars

(***************************************************************************)
(* The audit chain's promise, for the transactions that really write it.   *)
(***************************************************************************)
HonestLogVerifies == Chain!HonestLogVerifies

(***************************************************************************)
(* Whoever holds the version's row has written it, whoever holds the       *)
(* advisory lock has linked its audit row and waits for nothing: the two   *)
(* locks are taken in one order by everybody and die with their            *)
(* transaction, so no two requests wait for each other.                    *)
(***************************************************************************)
LocksInOrder ==
  /\ rowLock # NoSession => tx[rowLock].at = "record"
  /\ \A s \in chainLock : tx[s].at = "record" /\ appends[s].at = "linked"
=============================================================================
