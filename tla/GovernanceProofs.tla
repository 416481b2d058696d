-------------------------- MODULE GovernanceProofs --------------------------
(***************************************************************************)
(* Proofs about a plan version under governance, for any number of         *)
(* sessions, users, rates and events, and any assignment of roles.         *)
(***************************************************************************)
EXTENDS Governance, FiniteSetTheorems, TLAPS

----------------------------------------------------------------------------
(***************************************************************************)
(* The audit chain, whose facts are here the requests a plan records: for  *)
(* any number of concurrent writers and any number of rows.                *)
(***************************************************************************)
(***************************************************************************)
(* An id, once drawn, is nobody else's: neither another INSERT nor a row   *)
(* has it.                                                                 *)
(***************************************************************************)
OwnId(s) ==
  appends[s].at # "idle" =>
    /\ appends[s].id \in 1..sequence
    /\ appends[s].key \in Request
    /\ \A r \in audit : r.id # appends[s].id
    /\ \A t \in Sessions : t # s /\ appends[t].at # "idle" => appends[t].id # appends[s].id

(***************************************************************************)
(* Who has linked its row holds the lock, so the tail it found is still    *)
(* the tail; and unless it was overtaken its own id is higher.             *)
(***************************************************************************)
StillTail(s) ==
  appends[s].at = "linked" =>
    /\ chainLock = {s}
    /\ Chain!IsTail(appends[s].prev)
    /\ overtaken \/ \A r \in audit : r.id < appends[s].id

ChainInv ==
  /\ Chain!ChainTypeOK
  /\ \A r \in audit : r.id <= sequence
  /\ \A s \in Sessions : OwnId(s) /\ StillTail(s)
  /\ Chain!HonestLogVerifies

----------------------------------------------------------------------------
LEMMA ChainInvInit == Chain!ChainInit => ChainInv
<1> SUFFICES ASSUME Chain!ChainInit PROVE ChainInv
  OBVIOUS
<1> USE DEF Chain!ChainInit
<1>1. Chain!ChainTypeOK
  <2>1. appends \in [Sessions -> Chain!Append]
    BY DEF Chain!Append
  <2>2. overtaken \in BOOLEAN /\ sequence \in Nat
    OBVIOUS
  <2> QED BY <2>1, <2>2 DEF Chain!ChainTypeOK
<1>2. \A s \in Sessions : OwnId(s) /\ StillTail(s)
  BY DEF OwnId, StillTail, Chain!NoAppend
<1>3. Chain!HonestLogVerifies
  BY DEF Chain!HonestLogVerifies, Chain!VerifierAccepts
<1> QED
  BY <1>1, <1>2, <1>3 DEF ChainInv

LEMMA ChainDrawKeeps ==
  ASSUME ChainInv, NEW s \in Sessions, NEW k \in Request, Chain!Draw(s, k)
  PROVE  ChainInv'
<1> USE DEF ChainInv, Chain!ChainTypeOK, Chain!Append
<1>1. /\ sequence' = sequence + 1 /\ audit' = audit /\ overtaken' = overtaken
      /\ chainLock' = chainLock
  BY DEF Chain!Draw
<1>2. /\ \A t \in Sessions : t # s => appends'[t] = appends[t]
      /\ appends'[s] = [at |-> "drawn", id |-> sequence + 1, key |-> k, prev |-> 0]
  BY DEF Chain!Draw
<1>3. appends' \in [Sessions -> Chain!Append]
  BY <1>1 DEF Chain!Draw
<1>4. Chain!ChainTypeOK'
  BY <1>1, <1>3
<1>5. \A r \in audit' : r.id <= sequence'
  BY <1>1 DEF Chain!EventRow
<1>6. ASSUME NEW t \in Sessions PROVE OwnId(t)'
  <2>1. CASE t = s
    BY <1>1, <1>2, <2>1 DEF OwnId, Chain!EventRow
  <2>2. CASE t # s
    BY <1>1, <1>2, <2>2 DEF OwnId
  <2> QED BY <2>1, <2>2
<1>7. ASSUME NEW t \in Sessions PROVE StillTail(t)'
  BY <1>1, <1>2 DEF StillTail, Chain!IsTail
<1>8. Chain!HonestLogVerifies'
  BY <1>1 DEF Chain!HonestLogVerifies, Chain!VerifierAccepts, Chain!RowBefore
<1> QED
  BY <1>4, <1>5, <1>6, <1>7, <1>8

LEMMA ChainLinkKeeps ==
  ASSUME ChainInv, NEW s \in Sessions, Chain!Link(s)
  PROVE  ChainInv'
<1> USE DEF ChainInv, Chain!ChainTypeOK, Chain!Append
<1>1. PICK p \in {0} \cup {r.id : r \in audit} :
        /\ Chain!IsTail(p)
        /\ appends' = [appends EXCEPT ![s].at = "linked", ![s].prev = p]
        /\ overtaken' = (overtaken \/ p > appends[s].id)
  BY DEF Chain!Link, Chain!PointAtTail
<1>2. /\ sequence' = sequence /\ audit' = audit /\ chainLock' = {s} /\ chainLock = {}
      /\ appends[s].at = "drawn"
  BY DEF Chain!Link, Chain!PointAtTail
<1>3. /\ \A t \in Sessions : t # s => appends'[t] = appends[t]
      /\ appends'[s].at = "linked" /\ appends'[s].prev = p
      /\ appends'[s].id = appends[s].id /\ appends'[s].key = appends[s].key
  BY <1>1
<1>4. Chain!ChainTypeOK'
  <2>1. p \in Nat
    BY DEF Chain!EventRow
  <2>2. appends[s] \in [at : {"drawn", "linked"}, id : Nat, key : Request, prev : Nat]
    BY <1>2 DEF Chain!NoAppend
  <2>3. [appends[s] EXCEPT !.at = "linked", !.prev = p] \in Chain!Append
    BY <2>1, <2>2
  <2>4. appends' \in [Sessions -> Chain!Append]
    BY <1>1, <2>3
  <2> QED BY <1>1, <1>2, <2>4
<1>5. ASSUME NEW t \in Sessions PROVE OwnId(t)'
  BY <1>2, <1>3 DEF OwnId
<1>6. ASSUME NEW t \in Sessions PROVE StillTail(t)'
  <2>1. CASE t # s
    \* Nobody else had linked: the lock was free.
    BY <1>2, <1>3, <2>1 DEF StillTail
  <2>2. CASE t = s
    <3>1. Chain!IsTail(p)'
      BY <1>1, <1>2 DEF Chain!IsTail
    <3>2. overtaken' \/ \A r \in audit : r.id < appends[s].id
      <4>1. SUFFICES ASSUME ~ overtaken', NEW r \in audit PROVE r.id < appends[s].id
        OBVIOUS
      <4>2. p <= appends[s].id /\ appends[s].id \in Nat
        <5>1. ~ (p > appends[s].id)
          BY <1>1, <4>1
        <5>2. appends[s].id \in 1..sequence
          BY <1>2 DEF OwnId
        <5> QED BY <5>1, <5>2
      <4>3. r.id <= p /\ r.id \in Nat
        BY <1>1 DEF Chain!IsTail, Chain!EventRow
      <4>4. r.id # appends[s].id
        BY <1>2 DEF OwnId
      <4> QED BY <4>2, <4>3, <4>4
    <3> QED BY <1>2, <1>3, <2>2, <3>1, <3>2 DEF StillTail
  <2> QED BY <2>1, <2>2
<1>7. Chain!HonestLogVerifies'
  BY <1>1, <1>2 DEF Chain!HonestLogVerifies, Chain!VerifierAccepts, Chain!RowBefore
<1> QED
  BY <1>2, <1>4, <1>5, <1>6, <1>7

(***************************************************************************)
(* A transaction that ends, committed or not, frees the lock it held and   *)
(* nothing else; what the others know still holds if the tail is still the *)
(* tail for them, which is so because only the holder of the lock commits. *)
(***************************************************************************)
LEMMA ChainRollbackKeeps ==
  ASSUME ChainInv, NEW s \in Sessions, Chain!Rollback(s)
  PROVE  ChainInv'
<1> USE DEF ChainInv, Chain!ChainTypeOK
<1>1. /\ sequence' = sequence /\ audit' = audit /\ overtaken' = overtaken
      /\ appends' = [appends EXCEPT ![s] = Chain!NoAppend]
      /\ chainLock' = chainLock \ {s}
  BY DEF Chain!Rollback, Chain!Unlock
<1>2. /\ \A t \in Sessions : t # s => appends'[t] = appends[t]
      /\ appends'[s].at = "idle"
  BY <1>1 DEF Chain!NoAppend
<1>3. Chain!NoAppend \in Chain!Append
  BY DEF Chain!Append, Chain!NoAppend
<1>4. Chain!ChainTypeOK'
  BY <1>1, <1>3
<1>5. ASSUME NEW t \in Sessions PROVE OwnId(t)' /\ StillTail(t)'
  BY <1>1, <1>2 DEF OwnId, StillTail, Chain!IsTail
<1>6. Chain!HonestLogVerifies'
  BY <1>1 DEF Chain!HonestLogVerifies, Chain!VerifierAccepts, Chain!RowBefore
<1> QED
  BY <1>1, <1>4, <1>5, <1>6

LEMMA ChainCommitKeeps ==
  ASSUME ChainInv, NEW s \in Sessions, Chain!Commit(s)
  PROVE  ChainInv'
<1> USE DEF ChainInv, Chain!ChainTypeOK
<1> DEFINE new == [id |-> appends[s].id, key |-> appends[s].key, prev |-> appends[s].prev]
<1>1. /\ sequence' = sequence /\ overtaken' = overtaken
      /\ appends' = [appends EXCEPT ![s] = Chain!NoAppend]
      /\ chainLock' = chainLock \ {s}
      /\ appends[s].at = "linked"
      /\ audit' = audit \/ audit' = audit \cup {new}
  BY DEF Chain!Commit, Chain!Unlock
<1>2. /\ \A t \in Sessions : t # s => appends'[t] = appends[t]
      /\ appends'[s].at = "idle"
  BY <1>1 DEF Chain!NoAppend
<1>3. /\ chainLock = {s} /\ Chain!IsTail(new.prev)
      /\ new.id \in 1..sequence /\ new.key \in Request
      /\ \A t \in Sessions : t # s /\ appends[t].at # "idle" => appends[t].id # new.id
      /\ overtaken \/ \A r \in audit : r.id < new.id
  BY <1>1 DEF OwnId, StillTail
<1>4. new \in Chain!EventRow
  <2>1. appends[s] \in [at : {"drawn", "linked"}, id : Nat, key : Request, prev : Nat]
    BY <1>1 DEF Chain!Append, Chain!NoAppend
  <2> QED BY <2>1 DEF Chain!EventRow
<1>5. Chain!ChainTypeOK'
  <2>1. Chain!NoAppend \in Chain!Append
    BY DEF Chain!Append, Chain!NoAppend
  <2> QED BY <1>1, <1>4, <2>1
<1>6. \A r \in audit' : r.id <= sequence'
  BY <1>1, <1>3
<1>7. ASSUME NEW t \in Sessions PROVE OwnId(t)'
  BY <1>1, <1>2, <1>3 DEF OwnId
<1>8. ASSUME NEW t \in Sessions PROVE StillTail(t)'
  \* No other session has linked: s holds the lock.
  BY <1>1, <1>2, <1>3 DEF StillTail
<1>9. Chain!HonestLogVerifies'
  <2>1. SUFFICES ASSUME ~ overtaken, audit' = audit \cup {new}, NEW r \in audit'
                 PROVE  Chain!RowBefore(r, r.prev)'
    BY <1>1 DEF Chain!HonestLogVerifies, Chain!VerifierAccepts, Chain!RowBefore
  <2>2. /\ \A q \in audit : q.id < new.id /\ q.id \in Nat
        /\ new.id \in Nat /\ new.prev \in Nat
    BY <1>3, <1>4, <2>1 DEF Chain!EventRow
  <2>3. CASE r = new
    BY <1>3, <2>1, <2>2, <2>3 DEF Chain!RowBefore, Chain!IsTail
  <2>4. CASE r \in audit
    <3>1. Chain!RowBefore(r, r.prev)
      BY <2>1, <2>4 DEF Chain!HonestLogVerifies, Chain!VerifierAccepts
    <3> QED BY <2>1, <2>2, <2>4, <3>1 DEF Chain!RowBefore
  <2> QED BY <2>1, <2>3, <2>4
<1> QED
  BY <1>5, <1>6, <1>7, <1>8, <1>9

LEMMA ChainInvNext == ChainInv /\ [Chain!ChainNext]_(Chain!chainVars) => ChainInv'
<1>1. ChainInv /\ UNCHANGED Chain!chainVars => ChainInv'
  BY DEF ChainInv, Chain!chainVars, Chain!ChainTypeOK, OwnId, StillTail, Chain!IsTail,
         Chain!HonestLogVerifies, Chain!VerifierAccepts, Chain!RowBefore
<1> QED
  BY <1>1, ChainDrawKeeps, ChainLinkKeeps, ChainCommitKeeps, ChainRollbackKeeps DEF Chain!ChainNext

(***************************************************************************)
(* Whatever honest transactions do, as long as none was overtaken between  *)
(* nextval and the lock, the verifier accepts the log they wrote.          *)
(***************************************************************************)
THEOREM ChainHonestAlways == Chain!ChainSpec => []Chain!HonestLogVerifies
<1>1. ChainInv => Chain!HonestLogVerifies
  BY DEF ChainInv
<1> QED
  BY ChainInvInit, ChainInvNext, <1>1, PTL DEF Chain!ChainSpec

----------------------------------------------------------------------------
Verdicts == {"NONE", "PENDING", "APPROVED", "REJECTED"}
Controller(u) == u \in Users /\ "controller" \in Roles[u]

(***************************************************************************)
(* A row that is fit to be committed: the table's constraints admit it,    *)
(* and its approver, if it has one, is a controller.                       *)
(***************************************************************************)
Sound(row) ==
  /\ row \in Version
  /\ row.approvedBy # NoUser => Controller(row.approvedBy)

Good(row) == Sound(row) /\ ColumnsAllow(row)

Authorised(req) ==
  /\ req \in Request
  /\ req.op = "move" => req.to \in States /\ (req.to = "APPROVED" => Controller(req.by))
  /\ req.op = "approve" => Controller(req.by)

TxOK(t) ==
  /\ t \in {Idle} \cup Transaction
  /\ t.at # "idle" => Authorised(t.req)
  /\ t.at = "record" => Good(t.row)

(***************************************************************************)
(* Whoever holds the row has written it; on a locked version that is only  *)
(* ever the row as it was.                                                 *)
(***************************************************************************)
Holder ==
  rowLock # NoSession =>
    /\ tx[rowLock].at = "record"
    /\ version.state = "LOCKED" => tx[rowLock].row = version /\ tx[rowLock].rate = rate

PlanInv ==
  /\ Good(version)
  /\ rate \in Rates \cup {NoRate}
  /\ approval \in Verdicts
  /\ rowLock \in Sessions \cup {NoSession}
  /\ tx \in [Sessions -> {Idle} \cup Transaction]
  /\ \A s \in Sessions : TxOK(tx[s])
  /\ seen \in [Sessions -> {Unseen} \cup View]
  /\ Holder

----------------------------------------------------------------------------
(* A good row of an approved or locked version was reviewed.               *)
LEMMA GoodIsReviewed == PlanInv => AgreedIsReviewed
BY DEF PlanInv, Good, Sound, ColumnsAllow, AgreedIsReviewed, Controller, Version, Agreed

LEMMA BumpedRow ==
  ASSUME NEW row \in Version
  PROVE  /\ Bumped(row) \in Version
         /\ Bumped(row).rowVersion = row.rowVersion + 1
         /\ Bumped(row).state = row.state /\ Bumped(row).covenantOk = row.covenantOk
         /\ Bumped(row).approvedBy = row.approvedBy /\ Bumped(row).requestedBy = row.requestedBy
BY DEF Bumped, Version

(* Counting a change alters neither soundness nor what the table admits.   *)
LEMMA BumpedSound ==
  ASSUME NEW row, Sound(row)
  PROVE  /\ Sound(Bumped(row))
         /\ Bumped(row).rowVersion = row.rowVersion + 1
BY BumpedRow DEF Sound

(* A transaction that starts with an authorised request keeps the plan.    *)
LEMMA BeginKeeps ==
  ASSUME PlanInv, NEW s \in Sessions, NEW req, NEW named \in BOOLEAN, NEW read \in Nat,
         Authorised(req), Begin(s, req, named, read)
  PROVE  PlanInv'
<1> DEFINE t == [at |-> "update", req |-> req, named |-> named, read |-> read]
<1>1. t \in Transaction /\ TxOK(t)
  BY DEF Transaction, TxOK, Authorised
<1>2. tx[s].at = "idle"
  BY DEF Begin, Idle
<1>3. tx' = [tx EXCEPT ![s] = t] /\ UNCHANGED <<planVars, rowLock, seen>>
  BY DEF Begin
<1> HIDE DEF t
<1>4. Holder'
  BY <1>2, <1>3 DEF PlanInv, Holder, planVars
<1> QED
  BY <1>1, <1>3, <1>4 DEF PlanInv, planVars, Good, Sound, ColumnsAllow

(* A transaction that is given up leaves the row, and its lock.            *)
LEMMA AbandonKeeps ==
  ASSUME PlanInv, NEW s \in Sessions, Abandon(s)
  PROVE  PlanInv'
<1>1. TxOK(Idle)
  BY DEF TxOK, Idle
<1>2. /\ tx' = [tx EXCEPT ![s] = Idle] /\ UNCHANGED planVars
      /\ rowLock' = IF rowLock = s THEN NoSession ELSE rowLock
      /\ seen' = [seen EXCEPT ![s] = Unseen]
  BY DEF Abandon
<1>3. Holder'
  BY <1>2 DEF PlanInv, Holder, planVars
<1> QED
  BY <1>1, <1>2, <1>3 DEF PlanInv, planVars

(* A good row that is written, under the lock or without it.               *)
LEMMA WrittenKeeps ==
  ASSUME PlanInv, NEW s \in Sessions, tx[s].at = "update",
         NEW row, Good(row), NEW r \in Rates \cup {NoRate}, NEW decision \in Verdicts,
         Written(s, row, r, decision),
         \/ rowLock' = rowLock
         \/ rowLock' = s /\ (version.state = "LOCKED" => row = version /\ r = rate)
  PROVE  PlanInv'
<1> DEFINE t == [at |-> "record", req |-> tx[s].req, named |-> tx[s].named,
                 row |-> row, rate |-> r, decision |-> decision]
<1>1. TxOK(tx[s]) /\ tx[s] \in Transaction
  BY DEF PlanInv, Idle
<1>2. tx[s].named \in BOOLEAN /\ Authorised(tx[s].req)
  BY <1>1 DEF TxOK, Transaction
<1>3. t \in Transaction /\ TxOK(t)
  BY <1>2 DEF Transaction, TxOK, Authorised, Good, Sound, Verdicts
<1>4. tx' = [tx EXCEPT ![s] = t] /\ UNCHANGED <<planVars, seen>>
  BY DEF Written
<1>5. t.at = "record" /\ t.row = row /\ t.rate = r
  OBVIOUS
<1> HIDE DEF t
<1>6. Holder'
  BY <1>4, <1>5, GovernanceAssumption DEF PlanInv, Holder, planVars
<1> QED
  BY <1>3, <1>4, <1>6 DEF PlanInv, planVars

(* UPDATE: a sound row is written if the guards let it through.            *)
LEMMA UpdateKeeps ==
  ASSUME PlanInv, NEW s \in Sessions, tx[s].at = "update",
         NEW row, Sound(row), NEW r \in Rates \cup {NoRate}, NEW decision \in Verdicts,
         Update(s, row, r, decision)
  PROVE  PlanInv'
<1>1. CASE version.state # "LOCKED" /\ ColumnsAllow(row)
  BY <1>1, WrittenKeeps DEF Update, Good
<1>2. CASE ~(version.state # "LOCKED" /\ ColumnsAllow(row))
  BY <1>2, AbandonKeeps DEF Update
<1> QED
  BY <1>1, <1>2

----------------------------------------------------------------------------
(* What people do.                                                         *)
LEMMA DescribeKeeps ==
  ASSUME PlanInv, NEW s \in Sessions, Describe(s)
  PROVE  PlanInv'
<1>1. [version |-> version, rate |-> rate] \in View
  BY DEF PlanInv, Good, Sound, View
<1> QED
  BY <1>1 DEF Describe, PlanInv, Holder, planVars

(* Who may move a version to APPROVED is a controller.                     *)
LEMMA MoverIsController ==
  ASSUME NEW u \in Users, NEW from, MayMove(u, from, "APPROVED")
  PROVE  Controller(u)
BY DEF MayMove, PlanStateTransition, Controller

LEMMA TransitionKeeps ==
  ASSUME PlanInv, NEW s \in Sessions, Transition(s)
  PROVE  PlanInv'
<1> PICK u \in Users, to \in States, named \in BOOLEAN :
      /\ MayMove(u, version.state, to)
      /\ Begin(s, [op |-> "move", by |-> u, to |-> to, ok |-> FALSE, rate |-> NoRate],
               named, version.rowVersion)
  BY DEF Transition
<1>1. Authorised([op |-> "move", by |-> u, to |-> to, ok |-> FALSE, rate |-> NoRate])
  BY MoverIsController DEF Authorised, Request
<1>2. version.rowVersion \in Nat
  BY DEF PlanInv, Good, Sound, Version
<1> QED
  BY <1>1, <1>2, BeginKeeps

LEMMA SetCovenantKeeps ==
  ASSUME PlanInv, NEW s \in Sessions, SetCovenant(s)
  PROVE  PlanInv'
<1> PICK u \in Users, ok \in BOOLEAN, named \in BOOLEAN :
      Begin(s, [op |-> "covenant", by |-> u, to |-> "-", ok |-> ok, rate |-> NoRate], named, 0)
  BY DEF SetCovenant
<1>1. Authorised([op |-> "covenant", by |-> u, to |-> "-", ok |-> ok, rate |-> NoRate])
  BY DEF Authorised, Request
<1> QED
  BY <1>1, BeginKeeps

LEMMA SetPlanFxRateKeeps ==
  ASSUME PlanInv, NEW s \in Sessions, SetPlanFxRate(s)
  PROVE  PlanInv'
<1> PICK u \in Users, r \in Rates, named \in BOOLEAN :
      Begin(s, [op |-> "rate", by |-> u, to |-> "-", ok |-> FALSE, rate |-> r], named, 0)
  BY DEF SetPlanFxRate
<1>1. Authorised([op |-> "rate", by |-> u, to |-> "-", ok |-> FALSE, rate |-> r])
  BY DEF Authorised, Request
<1> QED
  BY <1>1, BeginKeeps

(* An asked-for change is written by a transaction about to write.         *)
LEMMA AskedReq ==
  ASSUME PlanInv, NEW s \in Sessions, NEW op, Asked(s, op)
  PROVE  tx[s].at = "update" /\ Authorised(tx[s].req) /\ tx[s].req.op = op
BY DEF PlanInv, TxOK, Asked

LEMMA UpdateStateKeeps ==
  ASSUME PlanInv, NEW s \in Sessions, UpdateState(s)
  PROVE  PlanInv'
<1> DEFINE req == tx[s].req
<1> DEFINE moved == [version EXCEPT !.state = req.to,
                                    !.approvedBy = IF req.to = "APPROVED" THEN req.by ELSE @]
<1>1. tx[s].at = "update" /\ Authorised(req) /\ req.op = "move"
  BY AskedReq DEF UpdateState
<1>2. Sound(moved)
  BY <1>1 DEF PlanInv, Good, Sound, Authorised, Version, Controller
<1>3. MovedBy(req) = Bumped(moved)
  BY DEF MovedBy
<1>4. rate \in Rates \cup {NoRate} /\ approval \in Verdicts
  BY DEF PlanInv
<1>5. CASE Update(s, MovedBy(req), rate, approval)
  BY <1>1, <1>2, <1>3, <1>4, <1>5, BumpedSound, UpdateKeeps
<1>6. CASE Abandon(s)
  BY <1>6, AbandonKeeps
<1> QED
  BY <1>5, <1>6 DEF UpdateState

LEMMA UpdateCovenantKeeps ==
  ASSUME PlanInv, NEW s \in Sessions, UpdateCovenant(s)
  PROVE  PlanInv'
<1> DEFINE ruled == [version EXCEPT !.covenantOk = tx[s].req.ok]
<1>1. tx[s].at = "update" /\ Authorised(tx[s].req)
  BY AskedReq DEF UpdateCovenant
<1>2. tx[s].req.ok \in BOOLEAN
  BY <1>1 DEF Authorised, Request
<1>3. Sound(ruled)
  BY <1>2 DEF PlanInv, Good, Sound, Version
<1>4. rate \in Rates \cup {NoRate} /\ approval \in Verdicts
  BY DEF PlanInv
<1>5. CASE Update(s, Bumped(ruled), rate, approval)
  BY <1>1, <1>3, <1>4, <1>5, BumpedSound, UpdateKeeps
<1>6. CASE Abandon(s)
  BY <1>6, AbandonKeeps
<1> QED
  BY <1>5, <1>6 DEF UpdateCovenant

LEMMA UpdateRateKeeps ==
  ASSUME PlanInv, NEW s \in Sessions, UpdateRate(s)
  PROVE  PlanInv'
<1>1. tx[s].at = "update" /\ Authorised(tx[s].req)
  BY AskedReq DEF UpdateRate
<1>2. tx[s].req.rate \in Rates \cup {NoRate}
  BY <1>1 DEF Authorised, Request
<1>3. Sound(Bumped(version)) /\ approval \in Verdicts
  BY BumpedSound DEF PlanInv, Good
<1>4. CASE Update(s, Bumped(version), tx[s].req.rate, approval)
  BY <1>1, <1>2, <1>3, <1>4, UpdateKeeps
<1>5. CASE Abandon(s)
  BY <1>5, AbandonKeeps
<1> QED
  BY <1>4, <1>5 DEF UpdateRate

----------------------------------------------------------------------------
(* What the worker does.                                                   *)
LEMMA ActivityKeeps ==
  ASSUME PlanInv, NEW s \in Sessions, NEW op \in WorkerOps, NEW u \in Users \cup {Service},
         NEW to \in States, op = "approve" => Controller(u), Activity(s, op, u, to)
  PROVE  PlanInv'
<1>1. Authorised([op |-> op, by |-> u, to |-> to, ok |-> FALSE, rate |-> NoRate])
  BY DEF Authorised, Request, WorkerOps
<1> QED
  BY <1>1, BeginKeeps DEF Activity

LEMMA ActivitiesKeep ==
  ASSUME PlanInv, NEW s \in Sessions, OpenApproval(s) \/ RecordApproval(s) \/ RecordRejection(s)
  PROVE  PlanInv'
<1>1. CASE OpenApproval(s)
  <2>1. version.requestedBy \in Users
    BY DEF PlanInv, Good, Sound, Version
  <2> QED
    BY <1>1, <2>1, ActivityKeeps DEF OpenApproval, WorkerOps, States
<1>2. CASE RecordApproval(s)
  <2> PICK u \in Users : MayMove(u, "IN_REVIEW", "APPROVED") /\ Activity(s, "approve", u, "LOCKED")
    BY <1>2 DEF RecordApproval
  <2> QED
    BY MoverIsController, ActivityKeeps DEF WorkerOps, States
<1>3. CASE RecordRejection(s)
  BY <1>3, ActivityKeeps DEF RecordRejection, WorkerOps, States
<1> QED
  BY <1>1, <1>2, <1>3

(* A move of the worker that may find nothing to change.                   *)
LEMMA UpdateIfKeeps ==
  ASSUME PlanInv, NEW s \in Sessions, tx[s].at = "update",
         NEW from, NEW to \in States, NEW decision \in Verdicts, UpdateIf(s, from, to, decision)
  PROVE  PlanInv'
<1> DEFINE moved == [version EXCEPT !.state = to]
<1>1. Sound(moved)
  BY DEF PlanInv, Good, Sound, Version
<1>2. rate \in Rates \cup {NoRate} /\ Good(version)
  BY DEF PlanInv
<1>3. CASE Update(s, Bumped(moved), rate, decision)
  BY <1>1, <1>2, <1>3, BumpedSound, UpdateKeeps
<1>4. CASE Written(s, version, rate, decision) /\ UNCHANGED rowLock
  BY <1>2, <1>4, WrittenKeeps
<1> QED
  BY <1>3, <1>4 DEF UpdateIf

LEMMA UpdateOpenKeeps ==
  ASSUME PlanInv, NEW s \in Sessions, UpdateOpen(s)
  PROVE  PlanInv'
BY AskedReq, UpdateIfKeeps DEF UpdateOpen, Verdicts, States

LEMMA UpdateRejectionKeeps ==
  ASSUME PlanInv, NEW s \in Sessions, UpdateRejection(s)
  PROVE  PlanInv'
<1>1. Decided("REJECTED") \in Verdicts
  BY DEF Decided, PlanInv, Verdicts
<1> QED
  BY <1>1, AskedReq, UpdateIfKeeps DEF UpdateRejection, States

(* Both moves of an approval, for a controller.  A locked version comes    *)
(* out as it went in.                                                      *)
LEMMA ApprovedBySound ==
  ASSUME PlanInv, NEW u, Controller(u)
  PROVE  /\ Sound(ApprovedBy(u))
         /\ \/ ApprovedBy(u) = version
            \/ ApprovedBy(u).rowVersion > version.rowVersion /\ version.state # "LOCKED"
<1> DEFINE agreed == [version EXCEPT !.state = "APPROVED", !.approvedBy = u]
<1> DEFINE approved == IF version.state = "IN_REVIEW" THEN Bumped(agreed) ELSE version
<1> DEFINE locked == [approved EXCEPT !.state = "LOCKED"]
<1>1. Sound(version) /\ version.rowVersion \in Nat
  BY DEF PlanInv, Good, Sound, Version
<1>2. Sound(agreed) /\ agreed.rowVersion = version.rowVersion
  BY <1>1 DEF Sound, Version, Controller, States
<1>3. Sound(approved) /\ approved.rowVersion >= version.rowVersion /\ approved.rowVersion \in Nat
  <2> HIDE DEF agreed
  <2>1. Sound(Bumped(agreed)) /\ Bumped(agreed).rowVersion = version.rowVersion + 1
    BY <1>2, BumpedSound
  <2> QED
    BY <1>1, <2>1
<1>4. version.state = "LOCKED" => approved = version
  OBVIOUS
<1>5. ApprovedBy(u) = IF approved.state = "APPROVED" THEN Bumped(locked) ELSE version
  BY DEF ApprovedBy
<1> HIDE DEF approved
<1>6. Sound(locked) /\ locked.rowVersion = approved.rowVersion
  BY <1>3 DEF Sound, Version, States
<1>7. Sound(Bumped(locked)) /\ Bumped(locked).rowVersion = approved.rowVersion + 1
  BY <1>6, BumpedSound
<1> HIDE DEF locked
<1> QED
  BY <1>1, <1>3, <1>4, <1>5, <1>7

LEMMA UpdateApprovalKeeps ==
  ASSUME PlanInv, NEW s \in Sessions, UpdateApproval(s)
  PROVE  PlanInv'
<1> DEFINE row == ApprovedBy(tx[s].req.by)
<1>1. tx[s].at = "update" /\ Controller(tx[s].req.by)
  BY AskedReq DEF UpdateApproval, Authorised
<1>2. Sound(row) /\ (version.state = "LOCKED" => row = version)
  BY <1>1, ApprovedBySound
<1>3. Decided("APPROVED") \in Verdicts /\ rate \in Rates \cup {NoRate}
  BY DEF Decided, PlanInv, Verdicts
<1>4. CASE ColumnsAllow(row) /\ rowLock' = s /\ Written(s, row, rate, Decided("APPROVED"))
  BY <1>1, <1>2, <1>3, <1>4, WrittenKeeps DEF Good
<1>5. CASE Abandon(s)
  BY <1>5, AbandonKeeps
<1> QED
  BY <1>4, <1>5 DEF UpdateApproval

----------------------------------------------------------------------------
(* The audit row, and the end.                                             *)
LEMMA CommitKeeps ==
  ASSUME PlanInv, NEW s \in Sessions, Commit(s), tx[s].at = "record"
  PROVE  PlanInv'
<1>1. tx[s] \in Transaction /\ TxOK(tx[s])
  BY DEF PlanInv, Idle
<1>2. Good(tx[s].row) /\ tx[s].rate \in Rates \cup {NoRate} /\ tx[s].decision \in Verdicts
  BY <1>1 DEF TxOK, Transaction, Verdicts
<1>3. Good(version') /\ rate' \in Rates \cup {NoRate} /\ approval' \in Verdicts
  BY <1>2 DEF Commit, PlanInv, Good, Sound, ColumnsAllow
<1>4. /\ tx' = [tx EXCEPT ![s] = Idle] /\ seen' = [seen EXCEPT ![s] = Unseen]
      /\ rowLock' = IF rowLock = s THEN NoSession ELSE rowLock
      /\ rowLock # s => UNCHANGED <<version, rate>>
  BY DEF Commit
<1>5. TxOK(Idle)
  BY DEF TxOK, Idle
<1>6. Holder'
  BY <1>4 DEF PlanInv, Holder
<1> QED
  BY <1>3, <1>4, <1>5, <1>6 DEF PlanInv

(* Every step of the plan is a step of the audit chain, or none at all.    *)
LEMMA ChainStep ==
  ASSUME PlanInv, [Next]_vars
  PROVE  [Chain!ChainNext]_chainVars
<1>1. CASE UNCHANGED vars
  BY <1>1 DEF vars
<1>2. ASSUME NEW s \in Sessions,
             \/ Describe(s) \/ Transition(s) \/ SetCovenant(s) \/ SetPlanFxRate(s)
             \/ OpenApproval(s) \/ RecordApproval(s) \/ RecordRejection(s)
      PROVE  UNCHANGED chainVars
  BY <1>2 DEF Describe, Transition, SetCovenant, SetPlanFxRate, OpenApproval, RecordApproval,
              RecordRejection, Activity, Begin
<1>3. ASSUME NEW s \in Sessions,
             \/ UpdateState(s) \/ UpdateCovenant(s) \/ UpdateRate(s) \/ UpdateOpen(s)
             \/ UpdateApproval(s) \/ UpdateRejection(s)
      PROVE  UNCHANGED chainVars \/ Chain!Rollback(s)
  BY <1>3 DEF UpdateState, UpdateCovenant, UpdateRate, UpdateOpen, UpdateApproval, UpdateRejection,
              UpdateIf, Update, Written, Abandon
<1>4. ASSUME NEW s \in Sessions, Record(s)
      PROVE  \E k \in Request : Chain!Draw(s, k)
  <2>1. Authorised(tx[s].req)
    BY <1>4 DEF Record, PlanInv, TxOK
  <2> QED
    BY <1>4, <2>1 DEF Record, Authorised
<1>5. ASSUME NEW s \in Sessions, LinkRecord(s) PROVE Chain!Link(s)
  BY <1>5 DEF LinkRecord
<1>6. ASSUME NEW s \in Sessions, Commit(s) PROVE Chain!Commit(s)
  BY <1>6 DEF Commit
<1>7. ASSUME NEW s \in Sessions, Fail(s) PROVE Chain!Rollback(s)
  BY <1>7 DEF Fail, Abandon
<1> QED
  BY <1>1, <1>2, <1>3, <1>4, <1>5, <1>6, <1>7 DEF Next, Proceed, Chain!ChainNext

(* Who draws an id has written, who holds the advisory lock has linked.    *)
AppendsFollow == \A s \in Sessions : appends[s].at # "idle" => tx[s].at = "record"
LinkedHold == \A s \in chainLock : appends[s].at = "linked"

LogInv == ChainInv /\ AppendsFollow /\ LinkedHold

----------------------------------------------------------------------------
LEMMA PlanInvInit == Init => PlanInv
<1> SUFFICES ASSUME Init PROVE PlanInv
  OBVIOUS
<1>1. Good(version)
  BY GovernanceAssumption DEF Init, Good, Sound, ColumnsAllow, Version, States, Agreed
<1>2. \A s \in Sessions : tx[s] = Idle
  BY DEF Init
<1>3. TxOK(Idle)
  BY DEF TxOK, Idle
<1> QED
  BY <1>1, <1>2, <1>3 DEF Init, PlanInv, Holder, Verdicts

LEMMA LogInvInit == Init => LogInv
<1>1. Init => ChainInv
  BY ChainInvInit DEF Init, Chain!ChainInit, Chain!ChainInit, Chain!NoAppend, Chain!NoAppend
<1>2. Init => AppendsFollow /\ LinkedHold
  BY DEF Init, Chain!ChainInit, Chain!NoAppend, AppendsFollow, LinkedHold
<1> QED
  BY <1>1, <1>2 DEF LogInv

(* Only who has written commits.                                           *)
LEMMA CommitterHasWritten ==
  ASSUME LogInv, NEW s \in Sessions, Commit(s)
  PROVE  tx[s].at = "record"
BY DEF LogInv, AppendsFollow, Commit, Chain!Commit

LEMMA PlanInvNext ==
  ASSUME PlanInv, LogInv, [Next]_vars
  PROVE  PlanInv'
<1>1. CASE UNCHANGED vars
  BY <1>1 DEF vars, planVars, PlanInv, Good, Sound, ColumnsAllow, Holder
<1>2. ASSUME NEW s \in Sessions, Record(s) \/ LinkRecord(s)
      PROVE  PlanInv'
  BY <1>2 DEF Record, LinkRecord, planVars, PlanInv, Good, Sound, ColumnsAllow, Holder
<1>3. ASSUME NEW s \in Sessions, Proceed(s)
      PROVE  PlanInv'
  BY <1>2, <1>3, UpdateStateKeeps, UpdateCovenantKeeps, UpdateRateKeeps, UpdateOpenKeeps,
     UpdateApprovalKeeps, UpdateRejectionKeeps, CommitterHasWritten, CommitKeeps DEF Proceed
<1> QED
  BY <1>1, <1>3, DescribeKeeps, TransitionKeeps, SetCovenantKeeps, SetPlanFxRateKeeps,
     ActivitiesKeep, AbandonKeeps DEF Next, Fail

(* How a step moves one session's transaction and its append.              *)
LEMMA LogInvNext ==
  ASSUME PlanInv, LogInv, [Next]_vars
  PROVE  LogInv'
<1>1. ChainInv'
  BY ChainStep, ChainInvNext DEF LogInv, chainVars, Chain!chainVars
<1>t. /\ appends \in [Sessions -> Chain!Append] /\ chainLock \subseteq Sessions
      /\ tx \in [Sessions -> {Idle} \cup Transaction]
  BY DEF LogInv, ChainInv, Chain!ChainTypeOK, PlanInv
<1>2. CASE UNCHANGED vars
  BY <1>1, <1>2 DEF vars, chainVars, LogInv, AppendsFollow, LinkedHold
<1>3. ASSUME NEW s \in Sessions, NEW t, tx' = [tx EXCEPT ![s] = t], UNCHANGED chainVars,
             tx[s].at # "record"
      PROVE  LogInv'
  BY <1>1, <1>3, <1>t DEF LogInv, AppendsFollow, LinkedHold, chainVars
<1>4. ASSUME NEW s \in Sessions, tx' = [tx EXCEPT ![s] = Idle],
             appends' = [appends EXCEPT ![s] = Chain!NoAppend], chainLock' = chainLock \ {s}
      PROVE  LogInv'
  BY <1>1, <1>4, <1>t DEF LogInv, AppendsFollow, LinkedHold, Chain!NoAppend
<1>5. ASSUME NEW s \in Sessions, Abandon(s)
      PROVE  LogInv'
  BY <1>4, <1>5 DEF Abandon, Chain!Rollback, Chain!Unlock
<1>6. ASSUME NEW s \in Sessions,
             \/ Transition(s) \/ SetCovenant(s) \/ SetPlanFxRate(s)
             \/ OpenApproval(s) \/ RecordApproval(s) \/ RecordRejection(s)
      PROVE  LogInv'
  <2>1. PICK req, named, read : Begin(s, req, named, read)
    BY <1>6 DEF Transition, SetCovenant, SetPlanFxRate, OpenApproval, RecordApproval,
                RecordRejection, Activity
  <2>2. tx[s].at # "record"
    BY <2>1 DEF Begin, Idle
  <2> QED
    BY <1>3, <2>1, <2>2 DEF Begin
<1>7. ASSUME NEW s \in Sessions,
             \/ UpdateState(s) \/ UpdateCovenant(s) \/ UpdateRate(s) \/ UpdateOpen(s)
             \/ UpdateApproval(s) \/ UpdateRejection(s)
      PROVE  LogInv'
  <2>1. tx[s].at = "update"
    BY <1>7 DEF UpdateState, UpdateCovenant, UpdateRate, UpdateOpen, UpdateApproval,
                UpdateRejection, Asked
  <2>2. Abandon(s) \/ \E row, r, decision : Written(s, row, r, decision)
    BY <1>7 DEF UpdateState, UpdateCovenant, UpdateRate, UpdateOpen, UpdateApproval,
                UpdateRejection, UpdateIf, Update
  <2> QED
    BY <1>3, <1>5, <2>1, <2>2 DEF Written
<1>8. ASSUME NEW s \in Sessions, Record(s)
      PROVE  LogInv'
  BY <1>1, <1>8, <1>t DEF Record, Chain!Draw, LogInv, AppendsFollow, LinkedHold
<1>9. ASSUME NEW s \in Sessions, LinkRecord(s)
      PROVE  LogInv'
  <2>1. PICK p : appends' = [appends EXCEPT ![s].at = "linked", ![s].prev = p]
    BY <1>9 DEF LinkRecord, Chain!Link, Chain!PointAtTail
  <2>2. appends[s].at = "drawn" /\ chainLock' = {s} /\ UNCHANGED tx
    BY <1>9 DEF LinkRecord, Chain!Link, Chain!PointAtTail
  <2>3. appends[s] \in [at : {"drawn", "linked"}, id : Nat, key : Request, prev : Nat]
    BY <1>t, <2>2 DEF Chain!Append, Chain!NoAppend
  <2>4. appends'[s].at = "linked" /\ \A t \in Sessions : t # s => appends'[t] = appends[t]
    BY <1>t, <2>1, <2>3
  <2> QED
    BY <1>1, <2>2, <2>4 DEF LogInv, AppendsFollow, LinkedHold
<1>10. ASSUME NEW s \in Sessions, Commit(s)
       PROVE  LogInv'
  BY <1>4, <1>10 DEF Commit, Chain!Commit, Chain!Unlock
<1>11. ASSUME NEW s \in Sessions, Describe(s)
       PROVE  LogInv'
  BY <1>1, <1>11 DEF Describe, chainVars, LogInv, AppendsFollow, LinkedHold
<1> QED
  BY <1>2, <1>5, <1>6, <1>7, <1>8, <1>9, <1>10, <1>11 DEF Next, Proceed, Fail

----------------------------------------------------------------------------
(***************************************************************************)
(* What clients have read.  A read is of the version as it is, or of an    *)
(* earlier one, which had another row_version.                             *)
(***************************************************************************)
Now == [version |-> version, rate |-> rate]

ReadsAge ==
  \A s \in Sessions : seen[s] # Unseen =>
    \/ seen[s] = Now
    \/ seen[s].version.rowVersion < version.rowVersion

(* A row that waits for its commit is the row as it is, or counts higher.  *)
Ahead ==
  rowLock # NoSession =>
    \/ tx[rowLock].row = version /\ tx[rowLock].rate = rate
    \/ tx[rowLock].row.rowVersion > version.rowVersion

(* A request that names the version it read carries that read to its       *)
(* UPDATE, and has found it current when it has the row.                   *)
NamedTx(t, view, holds) ==
  /\ t.at = "update" /\ t.named =>
       /\ t.req.op \notin WorkerOps /\ view # Unseen
       /\ t.req.op = "move" => t.read = view.version.rowVersion
  /\ t.at = "record" /\ t.named => holds /\ view = Now

ReadInv ==
  /\ ReadsAge
  /\ Ahead
  /\ \A s \in Sessions : NamedTx(tx[s], seen[s], rowLock = s)

(* A read that still has the version's number is the version as it is.     *)
LEMMA CurrentRead ==
  ASSUME PlanInv, ReadInv, NEW s \in Sessions, seen[s] # Unseen, ~Stale(s)
  PROVE  seen[s] = Now
BY DEF PlanInv, ReadInv, ReadsAge, Stale, Good, Sound, Version

(* A step that leaves the plan, the locks and what was read.               *)
LEMMA BeginReads ==
  ASSUME PlanInv, ReadInv, NEW s \in Sessions, NEW req, NEW named, NEW read,
         Begin(s, req, named, read),
         named => /\ req.op \notin WorkerOps /\ seen[s] # Unseen
                  /\ req.op = "move" => read = seen[s].version.rowVersion
  PROVE  ReadInv'
<1> DEFINE t == [at |-> "update", req |-> req, named |-> named, read |-> read]
<1>1. tx' = [tx EXCEPT ![s] = t] /\ UNCHANGED <<version, rate, rowLock, seen>>
  BY DEF Begin, planVars
<1>2. tx[s].at = "idle"
  BY DEF Begin, Idle
<1>3. NamedTx(t, seen[s], rowLock = s)
  BY DEF NamedTx
<1>4. tx'[s] = t /\ \A u \in Sessions : u # s => tx'[u] = tx[u]
  BY <1>1 DEF PlanInv
<1> HIDE DEF t
<1>5. Ahead'
  BY <1>1, <1>2, <1>4 DEF PlanInv, ReadInv, Ahead, Holder
<1>6. ReadsAge'
  BY <1>1 DEF ReadInv, ReadsAge, Now
<1>7. ASSUME NEW u \in Sessions PROVE NamedTx(tx[u], seen[u], rowLock = u)'
  <2>1. NamedTx(tx'[u], seen[u], rowLock = u)
    BY <1>3, <1>4 DEF ReadInv
  <2> QED
    BY <1>1, <2>1 DEF NamedTx, Now
<1> QED
  BY <1>5, <1>6, <1>7 DEF ReadInv

LEMMA AbandonReads ==
  ASSUME PlanInv, ReadInv, NEW s \in Sessions, Abandon(s)
  PROVE  ReadInv'
<1>1. /\ tx' = [tx EXCEPT ![s] = Idle] /\ UNCHANGED <<version, rate>>
      /\ rowLock' = IF rowLock = s THEN NoSession ELSE rowLock
      /\ seen' = [seen EXCEPT ![s] = Unseen]
  BY DEF Abandon, planVars
<1>2. ReadsAge'
  BY <1>1 DEF PlanInv, ReadInv, ReadsAge, Now
<1>3. Ahead'
  BY <1>1 DEF PlanInv, ReadInv, Ahead
<1>4. ASSUME NEW u \in Sessions PROVE NamedTx(tx[u], seen[u], rowLock = u)'
  <2>1. CASE u = s
    BY <1>1, <2>1 DEF PlanInv, NamedTx, Idle
  <2>2. CASE u # s
    BY <1>1, <2>2 DEF PlanInv, ReadInv, NamedTx, Now
  <2> QED
    BY <2>1, <2>2
<1> QED
  BY <1>2, <1>3, <1>4 DEF ReadInv

(* Written with the lock just taken, by a request whose read is current or *)
(* that named none; or without it, by the worker, which names none.        *)
LEMMA WrittenReads ==
  ASSUME PlanInv, ReadInv, NEW s \in Sessions, tx[s].at = "update",
         NEW row, NEW r, NEW decision, Written(s, row, r, decision),
         \/ rowLock' = rowLock /\ ~tx[s].named
         \/ /\ rowLock = NoSession /\ rowLock' = s
            /\ (row = version /\ r = rate) \/ row.rowVersion > version.rowVersion
            /\ tx[s].named => seen[s] = Now
  PROVE  ReadInv'
<1> DEFINE t == [at |-> "record", req |-> tx[s].req, named |-> tx[s].named,
                 row |-> row, rate |-> r, decision |-> decision]
<1>1. tx' = [tx EXCEPT ![s] = t] /\ UNCHANGED <<version, rate, seen>>
  BY DEF Written, planVars
<1>2. t.at = "record" /\ t.named = tx[s].named /\ t.row = row /\ t.rate = r
  OBVIOUS
<1>3. tx'[s] = t /\ \A u \in Sessions : u # s => tx'[u] = tx[u]
  BY <1>1 DEF PlanInv
<1> HIDE DEF t
<1>4. ReadsAge'
  BY <1>1 DEF ReadInv, ReadsAge, Now
<1>5. Ahead'
  BY <1>1, <1>2, <1>3, GovernanceAssumption DEF PlanInv, ReadInv, Ahead, Holder
<1>6. ASSUME NEW u \in Sessions PROVE NamedTx(tx[u], seen[u], rowLock = u)'
  <2>1. CASE u = s
    BY <1>1, <1>2, <1>3, <2>1 DEF NamedTx, Now
  <2>2. CASE u # s
    <3>1. NamedTx(tx'[u], seen[u], rowLock = u)
      BY <1>3, <2>2 DEF ReadInv
    <3>2. rowLock = u => rowLock' = u
      BY GovernanceAssumption
    <3> QED
      BY <1>1, <3>1, <3>2 DEF NamedTx, Now
  <2> QED
    BY <2>1, <2>2
<1> QED
  BY <1>4, <1>5, <1>6 DEF ReadInv

LEMMA UpdateReads ==
  ASSUME PlanInv, ReadInv, NEW s \in Sessions, tx[s].at = "update",
         NEW row, NEW r, NEW decision, Update(s, Bumped(row), r, decision),
         row \in Version, row.rowVersion = version.rowVersion, tx[s].named => seen[s] = Now
  PROVE  ReadInv'
<1>1. Bumped(row).rowVersion > version.rowVersion
  BY BumpedRow DEF Version
<1>2. CASE Abandon(s)
  BY <1>2, AbandonReads
<1>3. CASE rowLock' = s /\ Written(s, Bumped(row), r, decision)
  BY <1>1, <1>3, WrittenReads DEF Update
<1> QED
  BY <1>2, <1>3 DEF Update

(* A version with other contents and the same number.                      *)
LEMMA VersionWith ==
  ASSUME PlanInv, NEW state \in States, NEW covenantOk \in BOOLEAN,
         NEW approvedBy \in Users \cup {NoUser}
  PROVE  LET row == [version EXCEPT !.state = state]
             agreed == [version EXCEPT !.state = state, !.approvedBy = approvedBy]
             ruled == [version EXCEPT !.covenantOk = covenantOk]
         IN /\ row \in Version /\ row.rowVersion = version.rowVersion
            /\ agreed \in Version /\ agreed.rowVersion = version.rowVersion
            /\ ruled \in Version /\ ruled.rowVersion = version.rowVersion
BY DEF PlanInv, Good, Sound, Version

(* The request of a person who is about to write.                          *)
LEMMA NamedAsk ==
  ASSUME PlanInv, ReadInv, NEW s \in Sessions, NEW op, Asked(s, op)
  PROVE  /\ op \in WorkerOps => ~tx[s].named
         /\ tx[s].named => seen[s] # Unseen
         /\ tx[s].named /\ op = "move" => tx[s].read = seen[s].version.rowVersion
BY DEF ReadInv, NamedTx, Asked

LEMMA UpdatesRead ==
  ASSUME PlanInv, ReadInv, NEW s \in Sessions,
         \/ UpdateState(s) \/ UpdateCovenant(s) \/ UpdateRate(s) \/ UpdateOpen(s)
         \/ UpdateApproval(s) \/ UpdateRejection(s)
  PROVE  ReadInv'
<1>v. version \in Version
  BY DEF PlanInv, Good, Sound
<1>1. CASE UpdateState(s)
  <2> DEFINE req == tx[s].req
  <2> DEFINE moved == [version EXCEPT !.state = req.to,
                                      !.approvedBy = IF req.to = "APPROVED" THEN req.by ELSE @]
  <2>1. tx[s].at = "update" /\ Authorised(req) /\ req.op = "move"
    BY <1>1, AskedReq DEF UpdateState
  <2>2. moved \in Version /\ moved.rowVersion = version.rowVersion
    BY <1>v, <2>1 DEF Authorised, Version, Controller
  <2>3. CASE tx[s].read = version.rowVersion /\ Update(s, MovedBy(req), rate, approval)
    <3>1. tx[s].named => seen[s] = Now
      BY <1>1, <2>3, NamedAsk, CurrentRead DEF UpdateState, Stale
    <3>2. MovedBy(req) = Bumped(moved)
      BY DEF MovedBy
    <3> HIDE DEF moved
    <3> QED
      BY <2>1, <2>2, <2>3, <3>1, <3>2, UpdateReads
  <2> QED
    BY <1>1, <2>3, AbandonReads DEF UpdateState
<1>2. CASE UpdateCovenant(s)
  <2> DEFINE ruled == [version EXCEPT !.covenantOk = tx[s].req.ok]
  <2>1. tx[s].at = "update" /\ Authorised(tx[s].req)
    BY <1>2, AskedReq DEF UpdateCovenant
  <2>2. ruled \in Version /\ ruled.rowVersion = version.rowVersion
    BY <1>v, <2>1 DEF Authorised, Request, Version
  <2>3. CASE ~Refuses(s) /\ Update(s, Bumped(ruled), rate, approval)
    <3>1. tx[s].named => seen[s] = Now
      BY <1>2, <2>3, NamedAsk, CurrentRead DEF UpdateCovenant, Refuses
    <3> HIDE DEF ruled
    <3> QED
      BY <2>1, <2>2, <2>3, <3>1, UpdateReads
  <2> QED
    BY <1>2, <2>3, AbandonReads DEF UpdateCovenant
<1>3. CASE UpdateRate(s)
  <2>1. tx[s].at = "update"
    BY <1>3, AskedReq DEF UpdateRate
  <2>2. CASE ~Refuses(s) /\ Update(s, Bumped(version), tx[s].req.rate, approval)
    <3>1. tx[s].named => seen[s] = Now
      BY <1>3, <2>2, NamedAsk, CurrentRead DEF UpdateRate, Refuses
    <3> QED
      BY <1>v, <2>1, <2>2, <3>1, UpdateReads
  <2> QED
    BY <1>3, <2>2, AbandonReads DEF UpdateRate
<1>4. ASSUME NEW from, NEW to \in States, NEW decision, UpdateIf(s, from, to, decision),
             tx[s].at = "update", ~tx[s].named
      PROVE  ReadInv'
  <2> DEFINE moved == [version EXCEPT !.state = to]
  <2>1. moved \in Version /\ moved.rowVersion = version.rowVersion
    BY <1>v DEF Version
  <2>2. CASE Update(s, Bumped(moved), rate, decision)
    <3> HIDE DEF moved
    <3> QED
      BY <1>4, <2>1, <2>2, UpdateReads
  <2>3. CASE Written(s, version, rate, decision) /\ UNCHANGED rowLock
    BY <1>4, <2>3, WrittenReads
  <2> QED
    BY <1>4, <2>2, <2>3 DEF UpdateIf
<1>5. CASE UpdateOpen(s)
  BY <1>4, <1>5, AskedReq, NamedAsk DEF UpdateOpen, WorkerOps, States
<1>6. CASE UpdateRejection(s)
  BY <1>4, <1>6, AskedReq, NamedAsk DEF UpdateRejection, WorkerOps, States
<1>7. CASE UpdateApproval(s)
  <2> DEFINE row == ApprovedBy(tx[s].req.by)
  <2>1. tx[s].at = "update" /\ Controller(tx[s].req.by) /\ ~tx[s].named
    BY <1>7, AskedReq, NamedAsk DEF UpdateApproval, Authorised, WorkerOps
  <2>2. row = version \/ row.rowVersion > version.rowVersion
    BY <2>1, ApprovedBySound
  <2> HIDE DEF row
  <2>3. CASE /\ rowLock = NoSession /\ rowLock' = s
             /\ Written(s, row, rate, Decided("APPROVED"))
    BY <2>1, <2>2, <2>3, WrittenReads
  <2> QED
    BY <1>7, <2>3, AbandonReads DEF UpdateApproval, row
<1> QED
  BY <1>1, <1>2, <1>3, <1>5, <1>6, <1>7

LEMMA BeginsRead ==
  ASSUME PlanInv, ReadInv, NEW s \in Sessions,
         \/ Transition(s) \/ SetCovenant(s) \/ SetPlanFxRate(s)
         \/ OpenApproval(s) \/ RecordApproval(s) \/ RecordRejection(s)
  PROVE  ReadInv'
<1>1. CASE Transition(s)
  <2> PICK u \in Users, to \in States, named \in BOOLEAN :
        /\ named => seen[s] # Unseen /\ ~Stale(s)
        /\ Begin(s, [op |-> "move", by |-> u, to |-> to, ok |-> FALSE, rate |-> NoRate],
                 named, version.rowVersion)
    BY <1>1 DEF Transition
  <2> QED
    BY BeginReads DEF Stale, WorkerOps
<1>2. CASE SetCovenant(s)
  BY <1>2, BeginReads DEF SetCovenant, WorkerOps
<1>3. CASE SetPlanFxRate(s)
  BY <1>3, BeginReads DEF SetPlanFxRate, WorkerOps
<1>4. ASSUME NEW op, NEW u, NEW to, Activity(s, op, u, to) PROVE ReadInv'
  BY <1>4, BeginReads DEF Activity
<1>5. CASE OpenApproval(s) \/ RecordApproval(s) \/ RecordRejection(s)
  BY <1>4, <1>5 DEF OpenApproval, RecordApproval, RecordRejection
<1> QED
  BY <1>1, <1>2, <1>3, <1>5

LEMMA DescribeReads ==
  ASSUME PlanInv, ReadInv, NEW s \in Sessions, Describe(s)
  PROVE  ReadInv'
<1>1. /\ seen' = [seen EXCEPT ![s] = Now] /\ tx[s] = Idle
      /\ UNCHANGED <<version, rate, rowLock, tx>>
  BY DEF Describe, planVars, Now
<1>2. ReadsAge' /\ Ahead'
  BY <1>1 DEF PlanInv, ReadInv, ReadsAge, Ahead, Now
<1>3. ASSUME NEW u \in Sessions PROVE NamedTx(tx[u], seen[u], rowLock = u)'
  BY <1>1 DEF PlanInv, ReadInv, NamedTx, Now, Idle
<1> QED
  BY <1>2, <1>3 DEF ReadInv

(* The commit: who has the row installs what it wrote.                     *)
LEMMA CommitReads ==
  ASSUME PlanInv, ReadInv, NEW s \in Sessions, Commit(s)
  PROVE  ReadInv'
<1>1. /\ tx' = [tx EXCEPT ![s] = Idle] /\ seen' = [seen EXCEPT ![s] = Unseen]
      /\ rowLock' = IF rowLock = s THEN NoSession ELSE rowLock
      /\ version' = (IF rowLock = s THEN tx[s].row ELSE version)
      /\ rate' = (IF rowLock = s THEN tx[s].rate ELSE rate)
  BY DEF Commit
<1>2. UNCHANGED <<version, rate>> \/ version'.rowVersion > version.rowVersion
  BY <1>1, GovernanceAssumption DEF ReadInv, Ahead
<1>3. version.rowVersion \in Nat /\ (rowLock = s => version'.rowVersion \in Nat)
  BY <1>1, GovernanceAssumption DEF PlanInv, Holder, TxOK, Good, Sound, Version
<1>4. ReadsAge'
  <2> SUFFICES ASSUME NEW u \in Sessions, seen'[u] # Unseen
               PROVE  seen'[u] = Now' \/ seen'[u].version.rowVersion < version'.rowVersion
    BY DEF ReadsAge
  <2>1. u # s /\ seen'[u] = seen[u] /\ seen[u] # Unseen
    BY <1>1 DEF PlanInv
  <2>2. seen[u] \in View
    BY <2>1 DEF PlanInv
  <2>3. seen[u].version.rowVersion \in Nat
    BY <2>2 DEF View, Version
  <2>4. seen[u] = Now \/ seen[u].version.rowVersion < version.rowVersion
    BY <2>1 DEF ReadInv, ReadsAge
  <2>5. CASE UNCHANGED <<version, rate>>
    BY <2>1, <2>4, <2>5 DEF Now
  <2>6. CASE rowLock = s /\ version'.rowVersion > version.rowVersion
    BY <1>3, <2>1, <2>3, <2>4, <2>6 DEF Now
  <2> QED
    BY <1>1, <1>2, <2>5, <2>6
<1>5. Ahead'
  BY <1>1 DEF PlanInv, ReadInv, Ahead
<1>6. ASSUME NEW u \in Sessions PROVE NamedTx(tx[u], seen[u], rowLock = u)'
  <2>1. CASE u = s
    BY <1>1, <2>1 DEF PlanInv, NamedTx, Idle
  <2>2. CASE u # s
    <3>1. tx'[u] = tx[u] /\ seen'[u] = seen[u] /\ NamedTx(tx[u], seen[u], rowLock = u)
      BY <1>1, <2>2 DEF PlanInv, ReadInv
    <3>2. rowLock = u => rowLock' = u /\ Now' = Now
      BY <1>1, <2>2 DEF Now
    <3> QED
      BY <3>1, <3>2 DEF NamedTx
  <2> QED
    BY <2>1, <2>2
<1> QED
  BY <1>4, <1>5, <1>6 DEF ReadInv

LEMMA ReadInvNext ==
  ASSUME PlanInv, ReadInv, [Next]_vars
  PROVE  ReadInv'
<1>1. CASE UNCHANGED <<version, rate, rowLock, tx, seen>>
  BY <1>1 DEF ReadInv, ReadsAge, Ahead, NamedTx, Now
<1>2. CASE UNCHANGED vars
  BY <1>1, <1>2 DEF vars, planVars
<1>3. ASSUME NEW s \in Sessions, Record(s) \/ LinkRecord(s)
      PROVE  ReadInv'
  BY <1>1, <1>3 DEF Record, LinkRecord, planVars
<1> QED
  BY <1>2, <1>3, UpdatesRead, BeginsRead, DescribeReads, CommitReads, AbandonReads
     DEF Next, Proceed, Fail

LEMMA ReadInvInit == Init => ReadInv
BY GovernanceAssumption DEF Init, ReadInv, ReadsAge, Ahead, NamedTx, Idle

----------------------------------------------------------------------------
(***************************************************************************)
(* What a transaction is recorded to have done is what it did to the row   *)
(* it holds: the row that waits for its commit is in the state it was in   *)
(* or the one asked for, has the approver it had or the one who asks, and  *)
(* counts a person's change.                                               *)
(***************************************************************************)
Approves(req) == req.op = "approve" \/ req.to = "APPROVED"

Does(req, row) ==
  /\ row.state = version.state \/ row.state = req.to
  /\ \/ row.approvedBy = version.approvedBy
     \/ row.approvedBy = req.by /\ Approves(req)
  /\ req.op \notin WorkerOps => row.rowVersion > version.rowVersion
  /\ req.op = "move" => row.state = req.to

HolderDoes == rowLock # NoSession => Does(tx[rowLock].req, tx[rowLock].row)

(* An activity asks for the state it is named for.                         *)
WorkerAsks(t) ==
  t.at # "idle" =>
    /\ t.req.op = "open" => t.req.to = "IN_REVIEW"
    /\ t.req.op = "approve" => t.req.to = "LOCKED"
    /\ t.req.op = "reject" => t.req.to = "REJECTED"

(* A person's change is written under the lock, and only the worker goes   *)
(* on without it when it finds nothing to change.                          *)
PersonHolds(s) == tx[s].at = "record" /\ tx[s].req.op \notin WorkerOps => rowLock = s

DeedInv ==
  /\ HolderDoes
  /\ \A s \in Sessions : WorkerAsks(tx[s]) /\ PersonHolds(s)
  /\ \A s \in Sessions : appends[s].at # "idle" => appends[s].key = tx[s].req
  /\ IsFiniteSet(audit)
  /\ LogAgrees

ByPeople == {r \in audit : r.key.op \notin WorkerOps}

(* A transaction that starts.                                              *)
LEMMA BeginDoes ==
  ASSUME PlanInv, LogInv, DeedInv, NEW s \in Sessions, NEW req, NEW named, NEW read,
         Begin(s, req, named, read),
         /\ req.op = "open" => req.to = "IN_REVIEW"
         /\ req.op = "approve" => req.to = "LOCKED"
         /\ req.op = "reject" => req.to = "REJECTED"
  PROVE  DeedInv'
<1> DEFINE t == [at |-> "update", req |-> req, named |-> named, read |-> read]
<1>1. /\ tx' = [tx EXCEPT ![s] = t] /\ tx[s].at = "idle"
      /\ UNCHANGED <<version, rowLock, audit, appends>>
  BY DEF Begin, planVars, chainVars, Idle
<1>2. t.at = "update" /\ WorkerAsks(t)
  BY DEF WorkerAsks
<1>3. tx'[s] = t /\ \A u \in Sessions : u # s => tx'[u] = tx[u]
  BY <1>1 DEF PlanInv
<1> HIDE DEF t
<1>4. HolderDoes'
  BY <1>1, <1>3 DEF PlanInv, Holder, DeedInv, HolderDoes, Does
<1>5. \A u \in Sessions : WorkerAsks(tx'[u]) /\ PersonHolds(u)'
  BY <1>1, <1>2, <1>3 DEF DeedInv, PersonHolds
<1>6. \A u \in Sessions : appends'[u].at # "idle" => appends'[u].key = tx'[u].req
  BY <1>1, <1>3 DEF LogInv, AppendsFollow, DeedInv
<1>7. LogAgrees' /\ IsFiniteSet(audit')
  BY <1>1 DEF DeedInv, LogAgrees
<1> QED
  BY <1>4, <1>5, <1>6, <1>7 DEF DeedInv, WorkerAsks

LEMMA AbandonDoes ==
  ASSUME PlanInv, LogInv, DeedInv, NEW s \in Sessions, Abandon(s)
  PROVE  DeedInv'
<1>1. /\ tx' = [tx EXCEPT ![s] = Idle] /\ UNCHANGED <<version, audit>>
      /\ rowLock' = IF rowLock = s THEN NoSession ELSE rowLock
      /\ appends' = [appends EXCEPT ![s] = Chain!NoAppend]
  BY DEF Abandon, planVars, Chain!Rollback
<1>2. tx'[s] = Idle /\ \A u \in Sessions : u # s => tx'[u] = tx[u]
  BY <1>1 DEF PlanInv
<1>3. appends'[s] = Chain!NoAppend /\ \A u \in Sessions : u # s => appends'[u] = appends[u]
  BY <1>1 DEF LogInv, ChainInv, Chain!ChainTypeOK
<1>4. HolderDoes'
  BY <1>1, <1>2 DEF PlanInv, DeedInv, HolderDoes, Does
<1>5. \A u \in Sessions : WorkerAsks(tx'[u]) /\ PersonHolds(u)'
  BY <1>1, <1>2 DEF DeedInv, PersonHolds, WorkerAsks, Idle
<1>6. \A u \in Sessions : appends'[u].at # "idle" => appends'[u].key = tx'[u].req
  BY <1>2, <1>3 DEF DeedInv, Chain!NoAppend
<1>7. LogAgrees' /\ IsFiniteSet(audit')
  BY <1>1 DEF DeedInv, LogAgrees
<1> QED
  BY <1>4, <1>5, <1>6, <1>7 DEF DeedInv, WorkerAsks

(* Written under the lock it takes, doing what it was asked; or without    *)
(* it, by the worker.                                                      *)
LEMMA WrittenDoes ==
  ASSUME PlanInv, LogInv, DeedInv, NEW s \in Sessions, tx[s].at = "update",
         NEW row, NEW r, NEW decision, Written(s, row, r, decision),
         \/ rowLock' = rowLock /\ tx[s].req.op \in WorkerOps
         \/ /\ rowLock = NoSession /\ rowLock' = s
            /\ Does(tx[s].req, row)
  PROVE  DeedInv'
<1> DEFINE t == [at |-> "record", req |-> tx[s].req, named |-> tx[s].named,
                 row |-> row, rate |-> r, decision |-> decision]
<1>1. tx' = [tx EXCEPT ![s] = t] /\ UNCHANGED <<version, audit, appends>>
  BY DEF Written, planVars, chainVars
<1>2. t.at = "record" /\ t.req = tx[s].req /\ t.row = row
  OBVIOUS
<1>3. tx'[s] = t /\ \A u \in Sessions : u # s => tx'[u] = tx[u]
  BY <1>1 DEF PlanInv
<1>4. rowLock' = s => Does(t.req, t.row)
  BY GovernanceAssumption DEF PlanInv, Holder, Does
<1> HIDE DEF t
<1>5. HolderDoes'
  BY <1>1, <1>3, <1>4 DEF PlanInv, DeedInv, HolderDoes, Does
<1>6. \A u \in Sessions : WorkerAsks(tx'[u]) /\ PersonHolds(u)'
  BY <1>1, <1>2, <1>3, GovernanceAssumption DEF DeedInv, PersonHolds, WorkerAsks
<1>7. \A u \in Sessions : appends'[u].at # "idle" => appends'[u].key = tx'[u].req
  BY <1>1, <1>2, <1>3 DEF DeedInv
<1>8. LogAgrees' /\ IsFiniteSet(audit')
  BY <1>1 DEF DeedInv, LogAgrees
<1> QED
  BY <1>5, <1>6, <1>7, <1>8 DEF DeedInv, WorkerAsks

LEMMA UpdateDoes ==
  ASSUME PlanInv, LogInv, DeedInv, NEW s \in Sessions, tx[s].at = "update",
         NEW row, NEW r, NEW decision, Update(s, row, r, decision),
         Does(tx[s].req, row)
  PROVE  DeedInv'
<1>1. CASE Abandon(s)
  BY <1>1, AbandonDoes
<1>2. CASE rowLock' = s /\ Written(s, row, r, decision)
  BY <1>2, WrittenDoes DEF Update
<1> QED
  BY <1>1, <1>2 DEF Update

(* Both moves of an approval, again: what they do to the row.              *)
LEMMA ApprovedByDoes ==
  ASSUME version \in Version, NEW u, Controller(u)
  PROVE  /\ ApprovedBy(u).state \in {version.state, "LOCKED"}
         /\ ApprovedBy(u).approvedBy \in {version.approvedBy, u}
BY DEF ApprovedBy, Bumped, Version, Controller, States

LEMMA UpdatesDo ==
  ASSUME PlanInv, LogInv, DeedInv, NEW s \in Sessions,
         \/ UpdateState(s) \/ UpdateCovenant(s) \/ UpdateRate(s) \/ UpdateOpen(s)
         \/ UpdateApproval(s) \/ UpdateRejection(s)
  PROVE  DeedInv'
<1> DEFINE req == tx[s].req
<1>v. version \in Version /\ version.rowVersion \in Nat
  BY DEF PlanInv, Good, Sound, Version
<1>w. tx[s].at = "update" => WorkerAsks(tx[s])
  BY DEF DeedInv
<1>1. CASE UpdateState(s)
  <2> DEFINE moved == [version EXCEPT !.state = req.to,
                                      !.approvedBy = IF req.to = "APPROVED" THEN req.by ELSE @]
  <2>1. tx[s].at = "update" /\ Authorised(req) /\ req.op = "move"
    BY <1>1, AskedReq DEF UpdateState
  <2>2. /\ moved \in Version /\ moved.rowVersion = version.rowVersion
        /\ moved.state = req.to
        /\ moved.approvedBy = IF req.to = "APPROVED" THEN req.by ELSE version.approvedBy
    BY <1>v, <2>1 DEF Authorised, Version, Controller
  <2>3. MovedBy(req) = Bumped(moved)
    BY DEF MovedBy
  <2> HIDE DEF moved
  <2>4. Does(req, MovedBy(req))
    BY <1>v, <2>1, <2>2, <2>3, BumpedRow DEF Does, Approves
  <2>5. CASE Update(s, MovedBy(req), rate, approval)
    BY <2>1, <2>4, <2>5, UpdateDoes
  <2> QED
    BY <1>1, <2>5, AbandonDoes DEF UpdateState
<1>2. CASE UpdateCovenant(s)
  <2> DEFINE ruled == [version EXCEPT !.covenantOk = req.ok]
  <2>1. tx[s].at = "update" /\ Authorised(req) /\ req.op = "covenant"
    BY <1>2, AskedReq DEF UpdateCovenant
  <2>2. /\ ruled \in Version /\ ruled.rowVersion = version.rowVersion
        /\ ruled.state = version.state /\ ruled.approvedBy = version.approvedBy
    BY <1>v, <2>1 DEF Authorised, Request, Version
  <2> HIDE DEF ruled
  <2>3. Does(req, Bumped(ruled))
    BY <1>v, <2>1, <2>2, BumpedRow DEF Does
  <2>4. CASE Update(s, Bumped(ruled), rate, approval)
    BY <2>1, <2>3, <2>4, UpdateDoes
  <2> QED
    BY <1>2, <2>4, AbandonDoes DEF UpdateCovenant, ruled
<1>3. CASE UpdateRate(s)
  <2>1. tx[s].at = "update" /\ req.op = "rate"
    BY <1>3, AskedReq DEF UpdateRate
  <2>2. Does(req, Bumped(version))
    BY <1>v, <2>1, BumpedRow DEF Does
  <2>3. CASE Update(s, Bumped(version), req.rate, approval)
    BY <2>1, <2>2, <2>3, UpdateDoes
  <2> QED
    BY <1>3, <2>3, AbandonDoes DEF UpdateRate
<1>4. ASSUME NEW from, NEW to \in States, NEW decision, UpdateIf(s, from, to, decision),
             tx[s].at = "update", req.op \in WorkerOps, req.to = to
      PROVE  DeedInv'
  <2> DEFINE moved == [version EXCEPT !.state = to]
  <2>1. /\ moved \in Version /\ moved.rowVersion = version.rowVersion
        /\ moved.state = to /\ moved.approvedBy = version.approvedBy
    BY <1>v DEF Version
  <2> HIDE DEF moved
  <2>2. Does(req, Bumped(moved))
    BY <1>v, <1>4, <2>1, BumpedRow DEF Does, WorkerOps
  <2>3. CASE Update(s, Bumped(moved), rate, decision)
    BY <1>4, <2>2, <2>3, UpdateDoes
  <2>4. CASE Written(s, version, rate, decision) /\ UNCHANGED rowLock
    BY <1>4, <2>4, WrittenDoes
  <2> QED
    BY <1>4, <2>3, <2>4 DEF UpdateIf, moved
<1>5. CASE UpdateOpen(s)
  BY <1>4, <1>5, <1>w, AskedReq DEF UpdateOpen, WorkerOps, States, WorkerAsks
<1>6. CASE UpdateRejection(s)
  BY <1>4, <1>6, <1>w, AskedReq DEF UpdateRejection, WorkerOps, States, WorkerAsks
<1>7. CASE UpdateApproval(s)
  <2>1. /\ tx[s].at = "update" /\ Controller(req.by)
        /\ req.op = "approve" /\ req.to = "LOCKED"
    BY <1>7, <1>w, AskedReq DEF UpdateApproval, Authorised, WorkerAsks
  <2>2. /\ ApprovedBy(req.by).state \in {version.state, "LOCKED"}
        /\ ApprovedBy(req.by).approvedBy \in {version.approvedBy, req.by}
    BY <1>v, <2>1, ApprovedByDoes
  <2>3. Does(req, ApprovedBy(req.by))
    BY <2>1, <2>2 DEF Does, Approves, WorkerOps
  <2>4. CASE /\ rowLock = NoSession /\ rowLock' = s
             /\ Written(s, ApprovedBy(req.by), rate, Decided("APPROVED"))
    BY <2>1, <2>3, <2>4, WrittenDoes
  <2> QED
    BY <1>7, <2>4, AbandonDoes DEF UpdateApproval
<1> QED
  BY <1>1, <1>2, <1>3, <1>5, <1>6, <1>7

LEMMA BeginsDo ==
  ASSUME PlanInv, LogInv, DeedInv, NEW s \in Sessions,
         \/ Transition(s) \/ SetCovenant(s) \/ SetPlanFxRate(s)
         \/ OpenApproval(s) \/ RecordApproval(s) \/ RecordRejection(s)
  PROVE  DeedInv'
<1>1. CASE Transition(s)
  BY <1>1, BeginDoes DEF Transition
<1>2. CASE SetCovenant(s)
  BY <1>2, BeginDoes DEF SetCovenant
<1>3. CASE SetPlanFxRate(s)
  BY <1>3, BeginDoes DEF SetPlanFxRate
<1>4. ASSUME NEW op, NEW u, NEW to, Activity(s, op, u, to),
             <<op, to>> \in {<<"open", "IN_REVIEW">>, <<"approve", "LOCKED">>,
                             <<"reject", "REJECTED">>}
      PROVE  DeedInv'
  BY <1>4, BeginDoes DEF Activity
<1>5. CASE OpenApproval(s) \/ RecordApproval(s) \/ RecordRejection(s)
  BY <1>4, <1>5 DEF OpenApproval, RecordApproval, RecordRejection
<1> QED
  BY <1>1, <1>2, <1>3, <1>5

(* The row recorded by a commit, or one that says the same.                *)
LEMMA CommitRecords ==
  ASSUME LogInv, DeedInv, NEW s \in Sessions, Commit(s)
  PROVE  /\ tx[s].at = "record"
         /\ \E r \in audit' : r.key = tx[s].req
         /\ audit \subseteq audit'
         /\ \A r \in audit' : r \in audit \/ r.key = tx[s].req
         /\ \/ audit' = audit
            \/ \E r : audit' = audit \cup {r} /\ r.key = tx[s].req
<1>1. tx[s].at = "record" /\ appends[s].key = tx[s].req
  BY DEF LogInv, AppendsFollow, DeedInv, Commit, Chain!Commit
<1>2. CASE Chain!Recorded(tx[s].req)
  BY <1>1, <1>2 DEF Commit, Chain!Commit, Chain!Recorded
<1>3. CASE ~Chain!Recorded(tx[s].req)
  <2> DEFINE new == [id |-> appends[s].id, key |-> appends[s].key, prev |-> appends[s].prev]
  <2>1. audit' = audit \cup {new} /\ new.key = tx[s].req
    BY <1>1, <1>3 DEF Commit, Chain!Commit
  <2> HIDE DEF new
  <2> QED
    BY <1>1, <2>1
<1> QED
  BY <1>2, <1>3

(* The count of what people are recorded to have done.                     *)
LEMMA CommitCounts ==
  ASSUME PlanInv, LogInv, ReadInv, DeedInv, NEW s \in Sessions, Commit(s)
  PROVE  IsFiniteSet(audit') /\ Cardinality(ByPeople') < version'.rowVersion
<1>r. /\ \/ audit' = audit
         \/ \E r : audit' = audit \cup {r} /\ r.key = tx[s].req
      /\ tx[s].at = "record"
  BY CommitRecords
<1>1. /\ version' = IF rowLock = s THEN tx[s].row ELSE version
      /\ version.rowVersion \in Nat /\ IsFiniteSet(audit)
      /\ Cardinality(ByPeople) < version.rowVersion
  BY DEF Commit, PlanInv, Good, Sound, Version, DeedInv, LogAgrees, ByPeople
<1>2. /\ version'.rowVersion \in Nat /\ version'.rowVersion >= version.rowVersion
      /\ tx[s].req.op \notin WorkerOps => version'.rowVersion > version.rowVersion
  <2>1. CASE rowLock = s
    <3>1. TxOK(tx[s]) /\ tx[s].row.rowVersion \in Nat
      BY <1>r DEF PlanInv, TxOK, Good, Sound, Version
    <3>2. \/ tx[s].row = version
          \/ tx[s].row.rowVersion > version.rowVersion
      BY <2>1, GovernanceAssumption DEF ReadInv, Ahead
    <3>3. Does(tx[s].req, tx[s].row)
      BY <2>1, GovernanceAssumption DEF DeedInv, HolderDoes
    <3> QED
      BY <1>1, <2>1, <3>1, <3>2, <3>3 DEF Does
  <2>2. CASE rowLock # s
    BY <1>1, <1>r, <2>2 DEF DeedInv, PersonHolds
  <2> QED
    BY <2>1, <2>2
<1>3. IsFiniteSet(ByPeople) /\ Cardinality(ByPeople) \in Nat
  BY <1>1, FS_Subset, FS_CardinalityType DEF ByPeople
<1>4. CASE audit' = audit
  BY <1>1, <1>2, <1>3, <1>4 DEF ByPeople
<1>5. ASSUME NEW r, audit' = audit \cup {r}, r.key = tx[s].req
      PROVE  IsFiniteSet(audit') /\ Cardinality(ByPeople') < version'.rowVersion
  <2>1. IsFiniteSet(audit')
    BY <1>1, <1>5, FS_AddElement
  <2>2. CASE tx[s].req.op \in WorkerOps
    <3>1. ByPeople' = ByPeople
      BY <1>5, <2>2 DEF ByPeople
    <3> QED
      BY <1>1, <1>2, <1>3, <2>1, <3>1
  <2>3. CASE tx[s].req.op \notin WorkerOps
    <3>1. ByPeople' = ByPeople \cup {r}
      BY <1>5, <2>3 DEF ByPeople
    <3>2. Cardinality(ByPeople \cup {r}) \in {Cardinality(ByPeople), Cardinality(ByPeople) + 1}
      BY <1>3, FS_AddElement
    <3> QED
      BY <1>1, <1>2, <1>3, <2>1, <2>3, <3>1, <3>2
  <2> QED
    BY <2>2, <2>3
<1> QED
  BY <1>r, <1>4, <1>5

LEMMA CommitDoes ==
  ASSUME PlanInv, LogInv, ReadInv, DeedInv, NEW s \in Sessions, Commit(s)
  PROVE  DeedInv'
<1>r. /\ tx[s].at = "record" /\ \E r \in audit' : r.key = tx[s].req
      /\ audit \subseteq audit' /\ \A r \in audit' : r \in audit \/ r.key = tx[s].req
  BY CommitRecords
<1>1. /\ tx' = [tx EXCEPT ![s] = Idle]
      /\ rowLock' = IF rowLock = s THEN NoSession ELSE rowLock
      /\ version' = (IF rowLock = s THEN tx[s].row ELSE version)
      /\ appends' = [appends EXCEPT ![s] = Chain!NoAppend]
  BY DEF Commit, Chain!Commit
<1>2. tx'[s] = Idle /\ \A u \in Sessions : u # s => tx'[u] = tx[u]
  BY <1>1 DEF PlanInv
<1>3. appends'[s] = Chain!NoAppend /\ \A u \in Sessions : u # s => appends'[u] = appends[u]
  BY <1>1 DEF LogInv, ChainInv, Chain!ChainTypeOK
<1>4. HolderDoes'
  BY <1>1, <1>2 DEF PlanInv, DeedInv, HolderDoes, Does
<1>5. \A u \in Sessions : WorkerAsks(tx'[u]) /\ PersonHolds(u)'
  BY <1>1, <1>2 DEF DeedInv, PersonHolds, WorkerAsks, Idle
<1>6. \A u \in Sessions : appends'[u].at # "idle" => appends'[u].key = tx'[u].req
  BY <1>2, <1>3 DEF DeedInv, Chain!NoAppend
<1>h. rowLock = s => Does(tx[s].req, tx[s].row)
  BY GovernanceAssumption DEF DeedInv, HolderDoes
<1>7. version'.state # "DRAFT" => \E r \in audit' : r.key.to = version'.state
  <2>1. version'.state = version.state \/ version'.state = tx[s].req.to
    BY <1>1, <1>h DEF Does
  <2> QED
    BY <1>r, <2>1 DEF DeedInv, LogAgrees
<1>8. version'.approvedBy # NoUser =>
        \E r \in audit' : r.key.by = version'.approvedBy /\ Approves(r.key)
  <2>1. \/ version'.approvedBy = version.approvedBy
        \/ version'.approvedBy = tx[s].req.by /\ Approves(tx[s].req)
    BY <1>1, <1>h DEF Does
  <2> QED
    BY <1>r, <2>1 DEF DeedInv, LogAgrees, Approves
<1>9. (\E r \in audit' : r.key.op = "move" /\ r.key.to = "LOCKED") => version'.state = "LOCKED"
  <2>1. CASE version.state = "LOCKED"
    BY <1>1, <2>1, GovernanceAssumption DEF PlanInv, Holder
  <2>2. CASE tx[s].req.op = "move" /\ tx[s].req.to = "LOCKED"
    <3>1. rowLock = s
      BY <1>r, <2>2 DEF DeedInv, PersonHolds, WorkerOps
    <3> QED
      BY <1>1, <1>h, <2>2, <3>1 DEF Does
  <2> QED
    BY <1>r, <2>1, <2>2 DEF DeedInv, LogAgrees
<1>10. IsFiniteSet(audit') /\ LogAgrees'
  BY <1>7, <1>8, <1>9, CommitCounts DEF LogAgrees, Approves, ByPeople
<1> QED
  BY <1>4, <1>5, <1>6, <1>10 DEF DeedInv, WorkerAsks

(* The INSERT into the log takes what the transaction was asked.           *)
LEMMA RecordDoes ==
  ASSUME PlanInv, LogInv, DeedInv, NEW s \in Sessions, Record(s) \/ LinkRecord(s)
  PROVE  DeedInv'
<1>1. UNCHANGED <<version, rowLock, tx, audit>>
  BY DEF Record, LinkRecord, planVars, Chain!Draw, Chain!Link, Chain!PointAtTail
<1>a. appends \in [Sessions -> Chain!Append]
  BY DEF LogInv, ChainInv, Chain!ChainTypeOK
<1>2. \A u \in Sessions : appends'[u].at # "idle" => appends'[u].key = tx[u].req
  <2>1. CASE Record(s)
    BY <1>a, <2>1 DEF Record, Chain!Draw, DeedInv
  <2>2. CASE LinkRecord(s)
    <3>1. PICK p : appends' = [appends EXCEPT ![s].at = "linked", ![s].prev = p]
      BY <2>2 DEF LinkRecord, Chain!Link, Chain!PointAtTail
    <3>2. appends[s].at = "drawn"
      BY <2>2 DEF LinkRecord, Chain!Link, Chain!PointAtTail
    <3>3. appends[s] \in [at : {"drawn", "linked"}, id : Nat, key : Request, prev : Nat]
      BY <1>a, <3>2 DEF Chain!Append, Chain!NoAppend
    <3>4. /\ appends'[s].key = appends[s].key
          /\ \A u \in Sessions : u # s => appends'[u] = appends[u]
      BY <1>a, <3>1, <3>3
    <3> QED
      BY <3>2, <3>4 DEF DeedInv
  <2> QED
    BY <2>1, <2>2
<1> QED
  BY <1>1, <1>2 DEF DeedInv, HolderDoes, Does, PersonHolds, WorkerAsks, LogAgrees

LEMMA DeedInvNext ==
  ASSUME PlanInv, LogInv, ReadInv, DeedInv, [Next]_vars
  PROVE  DeedInv'
<1>1. CASE UNCHANGED <<version, rowLock, tx, audit, appends>>
  BY <1>1 DEF DeedInv, HolderDoes, Does, PersonHolds, WorkerAsks, LogAgrees
<1>2. CASE UNCHANGED vars
  BY <1>1, <1>2 DEF vars, planVars, chainVars
<1>3. ASSUME NEW s \in Sessions, Describe(s) PROVE DeedInv'
  BY <1>1, <1>3 DEF Describe, planVars, chainVars
<1> QED
  BY <1>2, <1>3, UpdatesDo, BeginsDo, CommitDoes, RecordDoes, AbandonDoes DEF Next, Proceed, Fail

LEMMA DeedInvInit == Init => DeedInv
<1> SUFFICES ASSUME Init PROVE DeedInv
  OBVIOUS
<1>1. audit = {} /\ version.rowVersion = 1 /\ version.state = "DRAFT"
      /\ version.approvedBy = NoUser
  BY DEF Init, Chain!ChainInit
<1>2. {r \in audit : r.key.op \notin WorkerOps} = {}
  BY <1>1
<1>3. IsFiniteSet(audit) /\ LogAgrees
  BY <1>1, <1>2, FS_EmptySet DEF LogAgrees
<1> QED
  BY <1>3 DEF Init, DeedInv, HolderDoes, PersonHolds, WorkerAsks, Idle, Chain!ChainInit,
              Chain!NoAppend

----------------------------------------------------------------------------
Inv == PlanInv /\ LogInv /\ ReadInv /\ DeedInv

LEMMA InvHolds == Spec => []Inv
<1>1. Init => Inv
  BY PlanInvInit, LogInvInit, ReadInvInit, DeedInvInit DEF Inv
<1>2. Inv /\ [Next]_vars => Inv'
  BY PlanInvNext, LogInvNext, ReadInvNext, DeedInvNext DEF Inv
<1> QED
  BY <1>1, <1>2, PTL DEF Spec

(***************************************************************************)
(* The types of the version, its transactions and its log.                 *)
(***************************************************************************)
THEOREM TypeCorrect == Spec => []TypeOK
<1>1. Inv => TypeOK
  BY DEF Inv, PlanInv, Good, Sound, Verdicts, LogInv, ChainInv, TypeOK
<1> QED
  BY <1>1, InvHolds, PTL

(***************************************************************************)
(* Nothing is approved or locked without a passed covenant review and a    *)
(* controller who did not ask for it: transition and record_approval       *)
(* against the constraints of plan_version.                                *)
(***************************************************************************)
THEOREM AgreedIsReviewedAlways == Spec => []AgreedIsReviewed
BY InvHolds, GoodIsReviewed, PTL DEF Inv

(***************************************************************************)
(* A locked version keeps its row and its rates.                           *)
(***************************************************************************)
THEOREM LockedIsFinalAlways == Spec => LockedIsFinal
<1>1. ASSUME Inv, NEW s \in Sessions, Commit(s), version.state = "LOCKED"
      PROVE  UNCHANGED <<version, rate>>
  BY <1>1, GovernanceAssumption DEF Inv, PlanInv, Holder, Commit
<1>2. ASSUME NEW s \in Sessions,
             \/ Describe(s) \/ Transition(s) \/ SetCovenant(s) \/ SetPlanFxRate(s)
             \/ OpenApproval(s) \/ RecordApproval(s) \/ RecordRejection(s)
             \/ UpdateState(s) \/ UpdateCovenant(s) \/ UpdateRate(s) \/ UpdateOpen(s)
             \/ UpdateApproval(s) \/ UpdateRejection(s)
             \/ Record(s) \/ LinkRecord(s) \/ Fail(s)
      PROVE  UNCHANGED <<version, rate>>
  BY <1>2 DEF planVars, Describe, Transition, SetCovenant, SetPlanFxRate, OpenApproval,
              RecordApproval, RecordRejection, Activity, Begin, UpdateState, UpdateCovenant,
              UpdateRate, UpdateOpen, UpdateApproval, UpdateRejection, UpdateIf, Update, Written,
              Record, LinkRecord, Fail, Abandon
<1>3. Inv /\ [Next]_vars => [version.state = "LOCKED" => UNCHANGED <<version, rate>>]_vars
  BY <1>1, <1>2 DEF Next, Proceed, vars, planVars
<1> QED
  BY <1>3, InvHolds, PTL DEF Spec, LockedIsFinal

(***************************************************************************)
(* No lost update: what a request named, nobody has changed when it        *)
(* commits (the row_version every write compares).                         *)
(***************************************************************************)
THEOREM NoLostUpdateAlways == Spec => NoLostUpdate
<1>1. ASSUME Inv, NEW s \in Sessions, Commit(s), tx[s].named
      PROVE  seen[s] = [version |-> version, rate |-> rate]
  BY <1>1, CommitterHasWritten DEF Inv, ReadInv, NamedTx, Now
<1>2. Inv => [\A s \in Sessions :
               Commit(s) /\ tx[s].named => seen[s] = [version |-> version, rate |-> rate]]_vars
  BY <1>1
<1> QED
  BY <1>2, InvHolds, PTL DEF NoLostUpdate

(***************************************************************************)
(* The log agrees with the plan: the state a version is in and its         *)
(* approver have their audit row, what people are recorded to have done    *)
(* its row_version has counted, and a person's LOCK in the log is a        *)
(* version that is locked, though the row of a repeated request is dropped *)
(* and audit rows are committed in another order than they were drawn.     *)
(***************************************************************************)
THEOREM LogAgreesAlways == Spec => []LogAgrees
BY InvHolds, PTL DEF Inv, DeedInv

(***************************************************************************)
(* The version's transactions keep the promise of the audit chain, and     *)
(* take the row before the advisory lock.                                  *)
(***************************************************************************)
THEOREM HonestLogVerifiesAlways == Spec => []HonestLogVerifies
<1>1. Inv => HonestLogVerifies
  BY DEF Inv, LogInv, ChainInv, HonestLogVerifies
<1> QED
  BY <1>1, InvHolds, PTL

THEOREM LocksInOrderAlways == Spec => []LocksInOrder
<1>1. Inv => LocksInOrder
  <2> SUFFICES ASSUME Inv PROVE LocksInOrder
    OBVIOUS
  <2>1. chainLock \subseteq Sessions
    BY DEF Inv, LogInv, ChainInv, Chain!ChainTypeOK
  <2> QED
    BY <2>1 DEF Inv, PlanInv, Holder, LogInv, AppendsFollow, LinkedHold, LocksInOrder
<1> QED
  BY <1>1, InvHolds, PTL
=============================================================================
