-------------------------- MODULE SettlementProofs --------------------------
(***************************************************************************)
(* Proofs about the settlement of re-forecasts, for every plan, every      *)
(* number of revisions, categories and retries.  What is published only    *)
(* locked, and never silently, holds with every behaviour of the           *)
(* environment open; a theorem about the ledger or the preimage assumes    *)
(* away, by name, those that are known to break it.                        *)
(***************************************************************************)
EXTENDS Settlement, TLAPS, FiniteSetTheorems, WellFoundedInduction

----------------------------------------------------------------------------
(* A bounded set of naturals has a largest member, so Newest names one.    *)
LEMMA MaxExists ==
  ASSUME NEW n \in Nat, NEW S, S \subseteq 0 .. n, S # {}
  PROVE  \E r \in S : \A q \in S : q <= r
<1>1. IsFiniteSet(S)
  <2>1. S \in SUBSET Nat /\ \A s \in S : s <= n
    OBVIOUS
  <2> QED
    BY <2>1, FS_BoundedSetOfNaturals
<1>2. \A x, q \in S : /\ q <= x \/ x < q
                      /\ ~(q < q)
                      /\ \A r \in S : x < q /\ q < r => x < r
  OBVIOUS
<1> DEFINE above(x) == {q \in S : x < q}
           T == {above(x) : x \in S}
           R == StrictSubsetOrdering(S)
<1>3. IsWellFoundedOn(R, SUBSET S)
  BY <1>1, FS_StrictSubsetOrderingWellFounded, FS_FiniteSubsetsOfFinite
<1>4. T \subseteq SUBSET S /\ T # {}
  OBVIOUS
<1>5. PICK m \in T : \A y \in T : ~(<<y, m>> \in R)
  <2> HIDE DEF R, T
  <2> QED
    BY <1>3, <1>4, WFMin
<1>6. PICK x \in S : m = above(x)
  OBVIOUS
<1>7. ASSUME NEW q \in S, x < q PROVE FALSE
  <2>1. above(q) \subseteq above(x)
    BY <1>2, <1>7
  <2>2. q \in above(x) /\ q \notin above(q)
    BY <1>2, <1>7
  <2>3. <<above(q), m>> \in R
    BY <1>6, <2>1, <2>2 DEF StrictSubsetOrdering
  <2> QED
    BY <1>5, <2>3
<1> QED
  BY <1>2, <1>7

LEMMA MinExists ==
  ASSUME NEW n \in Nat, NEW S, S \subseteq 0 .. n, S # {}
  PROVE  \E r \in S : \A q \in S : r <= q
<1> DEFINE T == {n - x : x \in S}
<1>0. \A x \in S : x \in 0 .. n /\ n - x \in 0 .. n
  OBVIOUS
<1>1. T \subseteq 0 .. n /\ T # {}
  BY <1>0
<1>2. PICK m \in T : \A t \in T : t <= m
  <2> HIDE DEF T
  <2> QED
    BY <1>1, MaxExists
<1>3. PICK r \in S : m = n - r
  OBVIOUS
<1>4. \A q \in S : n - q <= n - r
  BY <1>2, <1>3
<1> QED
  BY <1>0, <1>4

LEMMA NewestIn ==
  ASSUME NEW S, S \subseteq 1 .. MaxRevision, S # {}
  PROVE  Newest(S) \in S /\ \A q \in S : q <= Newest(S)
<1>1. MaxRevision \in Nat
  BY SettlementAssumption
<1>2. S \subseteq 0 .. MaxRevision
  BY <1>1
<1>3. \E r \in S : \A q \in S : q <= r
  BY <1>1, <1>2, MaxExists
<1> QED
  BY <1>3 DEF Newest

----------------------------------------------------------------------------
(***************************************************************************)
(* Type correctness.                                                       *)
(***************************************************************************)
LEMMA ShocksMerge ==
  ASSUME NEW s \in Shocks, NEW t \in Shocks
  PROVE  MergeShocks(s, t) \in Shocks
BY DEF MergeShocks, Shocks

LEMMA CommittedShocksType == TypeOK => CommittedShocks \in Shocks
<1> SUFFICES ASSUME TypeOK PROVE CommittedShocks \in Shocks
  OBVIOUS
<1>1. Nothing \in Shocks
  BY DEF Nothing, Shocks
<1>2. CASE Committed # {}
  <2>1. Committed \subseteq Revisions /\ Committed \subseteq 1 .. MaxRevision
    BY SettlementAssumption DEF Committed, Revisions
  <2>2. Newest(Committed) \in Revisions
    BY <1>2, <2>1, NewestIn
  <2> QED
    BY <1>2, <2>2 DEF CommittedShocks, TypeOK
<1> QED
  BY <1>1, <1>2 DEF CommittedShocks

LEMMA InitType == Init => TypeOK
<1> SUFFICES ASSUME Init PROVE TypeOK
  OBVIOUS
<1>1. Nothing \in Shocks
  BY DEF Nothing, Shocks
<1>2. 1 \in 1 .. MaxRevision
  BY SettlementAssumption
<1>3. L!LedgerTypeOK
  BY DEF Init, L!LedgerInit, L!LedgerTypeOK, L!Commitment, L!Absent
<1> QED
  BY <1>1, <1>2, <1>3 DEF Init, TypeOK, PubStates, VersionStates, Steps

(* The two ways the ledger changes keep it one commitment per key.         *)
LEMMA LedgerStepType ==
  ASSUME L!LedgerTypeOK, NEW k, NEW r \in Revisions, L!Reserve(k, r) \/ L!Release(k)
  PROVE  L!LedgerTypeOK'
BY DEF L!LedgerTypeOK, L!Reserve, L!Release, L!Commitment

LEMMA LedgerSameType ==
  ASSUME L!LedgerTypeOK, UNCHANGED ledger
  PROVE  L!LedgerTypeOK'
BY DEF L!LedgerTypeOK

LEMMA EndRunType ==
  ASSUME TypeOK, NEW how, rev \in Revisions, EndRun(how)
  PROVE  /\ pc' \in Steps /\ rev' \in Revisions \cup {0} /\ (pc' # "idle" => rev' \in Revisions)
         /\ target' \in Revisions \cup {0} /\ asked' \subseteq Drivers /\ payload' \in Shocks
         /\ attempts' \in Nat /\ todo' \subseteq Categories /\ lost' \in BOOLEAN
         /\ raised' \subseteq Revisions
BY DEF EndRun, TypeOK, Steps, Nothing, Shocks

LEMMA CleanUpType ==
  ASSUME TypeOK, NEW d \in BOOLEAN, NEW j \in BOOLEAN, CleanUp(d, j)
  PROVE  staged' \in [Revisions -> SUBSET Drivers] /\ version' \in [Revisions -> VersionStates]
BY DEF CleanUp, TypeOK, VersionStates

LEMMA FailType ==
  ASSUME TypeOK, rev \in Revisions, NEW closes \in BOOLEAN, Fail(closes),
         pubState' \in [Revisions -> PubStates], UNCHANGED <<pubShocks, keyOpen, cubeVars, ledger>>
  PROVE  TypeOK'
<1>1. staged' \in [Revisions -> SUBSET Drivers] /\ version' \in [Revisions -> VersionStates]
  BY CleanUpType DEF Fail
<1>2. EndRun("FAILED") /\ UNCHANGED <<covenant, drafts>>
  BY DEF Fail
<1>3. L!LedgerTypeOK'
  BY LedgerSameType DEF TypeOK
<1> QED
  BY <1>1, <1>2, <1>3, EndRunType DEF TypeOK, cubeVars

LEMMA ReserveRevisionType ==
  ASSUME TypeOK, NEW s \in Shocks, ReserveRevision(s)
  PROVE  /\ pubState' \in [Revisions -> PubStates] /\ pubShocks' \in [Revisions -> Shocks]
         /\ keyOpen' \in [Revisions -> BOOLEAN]
         /\ pc' = "ensure" /\ rev' \in Revisions /\ payload' = s
<1> DEFINE mine == {r \in Revisions : keyOpen[r] /\ pubShocks[r] = s}
           live == mine \ {r \in mine : Retired(r)}
<1>1. PICK r \in Revisions :
        /\ pubState'  = IF live = {} THEN [pubState EXCEPT ![r] = "RESERVED"] ELSE pubState
        /\ pubShocks' = [pubShocks EXCEPT ![r] = s]
        /\ keyOpen'   = [q \in Revisions |-> q = r \/ (keyOpen[q] /\ q \notin mine \ live)]
        /\ pc' = "ensure" /\ rev' = r /\ payload' = s
  BY DEF ReserveRevision
<1>2. keyOpen' \in [Revisions -> BOOLEAN]
  BY <1>1
<1> HIDE DEF live, mine
<1> QED
  BY <1>1, <1>2 DEF TypeOK, PubStates

(* The steps that only move the run along or touch one variable.           *)
LEMMA PlainStepType ==
  ASSUME TypeOK,
         \/ SaveDraft \/ OpenApproval \/ Approve \/ Verify \/ SweepDone
         \/ SweepList \/ SupersedeList \/ DeleteRevision \/ MarkPublished \/ MarkSuperseded
  PROVE  TypeOK'
<1> USE DEF TypeOK, Steps, pubVars, draftVars, cubeVars, tryVars, runVars, endVars
<1>1. CASE SaveDraft
  BY <1>1, LedgerSameType DEF SaveDraft
<1>2. CASE OpenApproval
  BY <1>2, LedgerSameType DEF OpenApproval, VersionStates
<1>3. CASE Approve
  BY <1>3, LedgerSameType DEF Approve, VersionStates
<1>4. CASE Verify
  BY <1>4, LedgerSameType DEF Verify
<1>5. CASE SweepDone
  BY <1>5, LedgerSameType DEF SweepDone
<1>6. CASE SweepList
  BY <1>6, LedgerSameType DEF SweepList, Holding
<1>7. CASE SupersedeList
  BY <1>7, LedgerSameType DEF SupersedeList, Holding
<1>8. CASE DeleteRevision
  BY <1>8, LedgerSameType DEF DeleteRevision
<1>9. CASE MarkPublished
  BY <1>9, LedgerSameType DEF MarkPublished, PubStates
<1>10. CASE MarkSuperseded
  BY <1>10, LedgerSameType DEF MarkSuperseded, PubStates
<1> QED
  BY <1>1, <1>2, <1>3, <1>4, <1>5, <1>6, <1>7, <1>8, <1>9, <1>10

LEMMA ComputeStepType ==
  ASSUME TypeOK, NEW l \in Drivers, ComputeLine(l)
  PROVE  TypeOK'
BY LedgerSameType DEF ComputeLine, TypeOK, pubVars, cubeVars, tryVars, runVars, endVars

(* An attempt at the snapshot saves rows of the cube, or none.              *)
Snapshot == SnapshotPreimage \/ SnapshotFails

LEMMA SnapshotSaves ==
  ASSUME TypeOK, Snapshot
  PROVE  \/ preimage' = preimage
         \/ /\ rev \in Revisions
            /\ \E part \in SUBSET Overwritten : preimage' = [preimage EXCEPT ![rev] = part]
<1>1. rev \in Revisions
  BY DEF TypeOK, Snapshot, SnapshotPreimage, SnapshotFails
<1>2. CASE SnapshotPreimage
  BY <1>1, <1>2 DEF SnapshotPreimage
<1>3. CASE SnapshotFails
  BY <1>1, <1>3 DEF SnapshotFails
<1> QED
  BY <1>2, <1>3 DEF Snapshot

LEMMA OverwrittenIs ==
  ASSUME TypeOK, rev \in Revisions, NEW p \in Overwritten
  PROVE  \E l \in Drivers : p = <<l, Newest(cube[l])>> /\ Newest(cube[l]) \in cube[l]
<1>1. staged[rev] \subseteq Drivers
  BY DEF TypeOK
<1>2. PICK l \in Drivers : cube[l] # {} /\ p = <<l, Newest(cube[l])>>
  BY <1>1 DEF Overwritten
<1> QED
  BY <1>2, NewestIn DEF TypeOK

LEMMA CubeStepType ==
  ASSUME TypeOK, \/ Snapshot \/ PublishToCube \/ RestorePreimage
                 \/ \E l \in Drivers : MergeRows(l)
  PROVE  TypeOK'
<1> USE DEF pubVars, draftVars, tryVars, runVars, endVars
<1>1. rev \in Revisions => rev \in 1 .. MaxRevision
  BY SettlementAssumption DEF Revisions
<1>2. CASE Snapshot
  <2>1. rev \in Revisions => Overwritten \subseteq Drivers \X (1 .. MaxRevision)
    BY OverwrittenIs DEF TypeOK
  <2>2. preimage' \in [Revisions -> SUBSET (Drivers \X (1 .. MaxRevision))]
    BY <1>2, <2>1, SnapshotSaves DEF TypeOK
  <2> QED
    BY <1>2, <2>2, LedgerSameType DEF Snapshot, SnapshotPreimage, SnapshotFails, TypeOK, Steps
<1>3. CASE PublishToCube
  <2>1. cube' \in [Drivers -> SUBSET (1 .. MaxRevision)]
    BY <1>1, <1>3 DEF PublishToCube, TypeOK
  <2> QED
    BY <1>3, <2>1, LedgerSameType DEF PublishToCube, TypeOK, Steps
<1>4. CASE RestorePreimage
  <2>1. \A l \in Drivers : {p[2] : p \in {x \in preimage[rev] : x[1] = l}} \subseteq 1 .. MaxRevision
    BY <1>4 DEF RestorePreimage, TypeOK
  <2>2. cube' \in [Drivers -> SUBSET (1 .. MaxRevision)]
    BY <1>4, <2>1 DEF RestorePreimage, TypeOK
  <2> QED
    BY <1>4, <2>2, LedgerSameType DEF RestorePreimage, TypeOK, Steps
<1>5. ASSUME NEW l \in Drivers, MergeRows(l) PROVE TypeOK'
  <2>1. cube[l] # {} => Newest(cube[l]) \in 1 .. MaxRevision
    BY NewestIn DEF TypeOK
  <2>2. cube[l] # {}
    BY <1>5, FS_EmptySet DEF MergeRows
  <2> QED
    BY <1>5, <2>1, <2>2, LedgerSameType DEF MergeRows, TypeOK
<1> QED
  BY <1>2, <1>3, <1>4, <1>5

LEMMA LedgerMoveType ==
  ASSUME TypeOK, \/ PostCommitment \/ MarkCommitted \/ CommitAttemptFails
                 \/ \E c \in Categories : ReleaseOne(c)
  PROVE  TypeOK'
<1> USE DEF pubVars, draftVars, cubeVars, tryVars, runVars, endVars
<1>1. CASE PostCommitment
  <2>1. L!LedgerTypeOK'
    BY <1>1, LedgerStepType DEF PostCommitment, TypeOK
  <2> QED
    BY <1>1, <2>1 DEF PostCommitment, TypeOK
<1>2. CASE MarkCommitted
  BY <1>2, LedgerSameType DEF MarkCommitted, TypeOK, Steps, PubStates
<1>3. CASE CommitAttemptFails
  <2>1. L!LedgerTypeOK'
    BY <1>3, LedgerStepType, LedgerSameType DEF CommitAttemptFails, TypeOK
  <2>2. pubState' \in [Revisions -> PubStates]
    BY <1>3 DEF CommitAttemptFails, TypeOK, PubStates
  <2>3. attempts' \in Nat /\ todo' \subseteq Categories /\ pc' \in {"sweep", "commit"}
    BY <1>3 DEF CommitAttemptFails, TypeOK
  <2>4. rev \in Revisions
    BY <1>3 DEF CommitAttemptFails, TypeOK
  <2> QED
    BY <1>3, <2>1, <2>2, <2>3, <2>4 DEF CommitAttemptFails, TypeOK, Steps
<1>4. ASSUME NEW c \in Categories, ReleaseOne(c) PROVE TypeOK'
  <2>1. PICK confirmed, effect \in BOOLEAN :
          /\ IF effect THEN L!Release(<<Prefix, c>>) ELSE UNCHANGED ledger
          /\ lost' = (lost \/ ~confirmed)
    BY <1>4 DEF ReleaseOne
  <2>2. L!LedgerTypeOK'
    <3>1. 2 \in Revisions
      BY SettlementAssumption DEF Revisions
    <3> QED
      BY <2>1, <3>1, LedgerStepType, LedgerSameType DEF TypeOK
  <2>3. lost' \in BOOLEAN
    BY <2>1
  <2> QED
    BY <1>4, <2>2, <2>3 DEF ReleaseOne, TypeOK
<1> QED
  BY <1>1, <1>2, <1>3, <1>4

(* The steps that end a run, or an attempt.                                *)
LEMMA AttemptFailsType ==
  ASSUME TypeOK, NEW first \in {"sweep", "unpublish"}, CompensationAttemptFails(first), rev \in Revisions,
         pubState' \in [Revisions -> PubStates],
         UNCHANGED <<pubShocks, keyOpen, draftVars, cubeVars, ledger>>
  PROVE  TypeOK'
<1>1. pc' \in {"broken", "sweep", "unpublish"} /\ attempts' \in Nat /\ todo' = {} /\ lost' = FALSE
  BY DEF CompensationAttemptFails, TypeOK
<1> QED
  BY <1>1, LedgerSameType
  DEF CompensationAttemptFails, TypeOK, Steps, draftVars, cubeVars, runVars, endVars

LEMMA FailureStepType ==
  ASSUME TypeOK, \/ FailUnpublished \/ FailPublish \/ SweepAttemptFails \/ UnpublishAttemptFails
                 \/ SupersedeAttemptFails \/ FailVariance \/ ApproveUnreported
  PROVE  TypeOK'
<1> USE DEF pubVars
<1>0. pc # "idle" => rev \in Revisions
  BY DEF TypeOK
<1>1. CASE FailUnpublished
  BY <1>0, <1>1, FailType DEF FailUnpublished, TypeOK
<1>2. CASE FailPublish
  <2>1. pubState' \in [Revisions -> PubStates]
    BY <1>2 DEF FailPublish, TypeOK, PubStates
  <2> QED
    BY <1>0, <1>2, <2>1, FailType DEF FailPublish
<1>3. CASE SweepAttemptFails
  BY <1>0, <1>3, AttemptFailsType DEF SweepAttemptFails, TypeOK
<1>4. CASE UnpublishAttemptFails
  <2>1. pubState' \in [Revisions -> PubStates]
    BY <1>4 DEF UnpublishAttemptFails, TypeOK, PubStates
  <2> QED
    BY <1>0, <1>4, <2>1, AttemptFailsType DEF UnpublishAttemptFails
<1>5. CASE SupersedeAttemptFails
  <2>1. CASE Fail(FALSE)
    BY <1>0, <1>5, <2>1, FailType DEF SupersedeAttemptFails, TypeOK
  <2>2. CASE ~Fail(FALSE)
    <3>1. pc' = "supersede" /\ attempts' = attempts + 1 /\ todo' = {} /\ lost' = FALSE
      BY <1>5, <2>2 DEF SupersedeAttemptFails
    <3>2. UNCHANGED <<draftVars, runVars, endVars, pubVars, cubeVars, ledger>> /\ pc # "idle"
      BY <1>5, <2>2 DEF SupersedeAttemptFails
    <3>3. L!LedgerTypeOK'
      BY <3>2, LedgerSameType DEF TypeOK
    <3>4. attempts' \in Nat
      BY <3>1 DEF TypeOK
    <3>5. todo' \subseteq Categories
      BY <3>1
    <3>6. lost' \in BOOLEAN
      BY <3>1
    <3>7. pc' \in Steps
      BY <3>1 DEF Steps
    <3> QED
      BY <1>0, <3>2, <3>3, <3>4, <3>5, <3>6, <3>7
      DEF TypeOK, draftVars, cubeVars, runVars, endVars
  <2> QED
    BY <2>1, <2>2
<1>6. CASE FailVariance
  BY <1>0, <1>6, FailType DEF FailVariance, TypeOK
<1>7. CASE ApproveUnreported
  <2>1. version' \in [Revisions -> VersionStates] /\ staged' \in [Revisions -> SUBSET Drivers]
    BY <1>7 DEF ApproveUnreported, TypeOK, VersionStates
  <2> QED
    BY <1>0, <1>7, <2>1, EndRunType, LedgerSameType DEF ApproveUnreported, TypeOK, cubeVars
<1> QED
  BY <1>1, <1>2, <1>3, <1>4, <1>5, <1>6, <1>7

LEMMA EndStepType ==
  ASSUME TypeOK, Cancel \/ Reject \/ Expire \/ MarkCompensated \/ GiveUp \/ Finish
  PROVE  TypeOK'
<1> USE DEF pubVars, draftVars, cubeVars
<1>0. pc # "idle" => rev \in Revisions
  BY DEF TypeOK
<1>1. ASSUME NEW how, pc # "idle", CloseUnpublished(how) PROVE TypeOK'
  <2>1. staged' \in [Revisions -> SUBSET Drivers] /\ version' \in [Revisions -> VersionStates]
    BY <1>1, CleanUpType DEF CloseUnpublished
  <2> QED
    BY <1>0, <1>1, <2>1, EndRunType, LedgerSameType DEF CloseUnpublished, TypeOK
<1>2. CASE Cancel \/ Reject \/ Expire
  BY <1>1, <1>2 DEF Cancel, Reject, Expire
<1>3. CASE MarkCompensated \/ GiveUp
  <2>1. pubState' \in [Revisions -> PubStates]
    BY <1>3 DEF MarkCompensated, GiveUp, TypeOK, PubStates
  <2> QED
    BY <1>0, <1>3, <2>1, EndRunType, LedgerSameType DEF MarkCompensated, GiveUp, TypeOK
<1>4. CASE Finish
  BY <1>0, <1>4, EndRunType, LedgerSameType DEF Finish, TypeOK
<1> QED
  BY <1>2, <1>3, <1>4

LEMMA RequestStepType ==
  ASSUME TypeOK, NEW ask \in Shocks, Begin(ask) \/ FoldIn(ask) \/ FoldInLate(ask)
  PROVE  TypeOK'
<1> USE DEF pubVars, draftVars, cubeVars, tryVars
<1>0. Moved(ask) \subseteq Drivers
  BY DEF Moved
<1>1. CASE Begin(ask)
  <2>1. MergeShocks(CommittedShocks, ask) \in Shocks
    BY CommittedShocksType, ShocksMerge
  <2> QED
    BY <1>0, <1>1, <2>1, ReserveRevisionType, LedgerSameType DEF Begin, TypeOK, Steps
<1>2. CASE FoldIn(ask)
  <2>1. MergeShocks(payload, ask) \in Shocks
    BY ShocksMerge DEF TypeOK
  <2> QED
    BY <1>0, <1>2, <2>1, ReserveRevisionType, LedgerSameType DEF FoldIn, TypeOK, Steps, endVars
<1>3. CASE FoldInLate(ask)
  <2>1. MergeShocks(payload, ask) \in Shocks
    BY ShocksMerge DEF TypeOK
  <2> QED
    BY <1>0, <1>3, <2>1, LedgerSameType DEF FoldInLate, TypeOK, endVars
<1> QED
  BY <1>1, <1>2, <1>3

LEMMA EnsureStepType ==
  ASSUME TypeOK, EnsureTarget
  PROVE  TypeOK'
<1> USE DEF pubVars, draftVars, cubeVars
<1>0. rev \in Revisions /\ pc = "ensure" /\ UNCHANGED <<pubVars, cubeVars, ledger>>
  BY DEF EnsureTarget, TypeOK
<1> DEFINE v == IF version[rev] = "NONE" THEN "DRAFT" ELSE version[rev]
<1>1. CASE EndRun("ALREADY") /\ UNCHANGED draftVars
  BY <1>0, <1>1, EndRunType, LedgerSameType DEF TypeOK
<1>2. CASE /\ pc' = IF v \in {"DRAFT", "IN_REVIEW"} THEN "compute" ELSE "stopped"
           /\ target' = rev
           /\ version' = [version EXCEPT ![rev] = v]
           /\ UNCHANGED <<covenant, drafts, staged, rev, asked, payload, tryVars, endVars>>
  <2>1. version' \in [Revisions -> VersionStates]
    BY <1>2 DEF TypeOK, VersionStates
  <2> QED
    BY <1>0, <1>2, <2>1, LedgerSameType DEF TypeOK, Steps, tryVars, endVars
<1> QED
  BY <1>1, <1>2 DEF EnsureTarget

LEMMA GovernanceStepType ==
  ASSUME TypeOK, NEW r \in Revisions, SetCovenant(r) \/ \E to \in VersionStates : Transition(r, to)
  PROVE  TypeOK'
<1> USE DEF pubVars, cubeVars, tryVars, runVars, endVars
<1>1. CASE SetCovenant(r)
  BY <1>1, LedgerSameType DEF SetCovenant, TypeOK
<1>2. ASSUME NEW to \in VersionStates, Transition(r, to) PROVE TypeOK'
  BY <1>2, LedgerSameType DEF Transition, TypeOK
<1> QED
  BY <1>1, <1>2

LEMMA NextType == TypeOK /\ [Next]_vars => TypeOK'
<1> SUFFICES ASSUME TypeOK, [Next]_vars PROVE TypeOK'
  OBVIOUS
<1>1. CASE RunStep
  BY <1>1, PlainStepType, ComputeStepType, CubeStepType, LedgerMoveType, FailureStepType,
     EndStepType, EnsureStepType DEF Snapshot, RunStep
<1>2. CASE People
  BY <1>2, PlainStepType, RequestStepType, EndStepType, FailureStepType, GovernanceStepType
  DEF People, VersionStates
<1>3. CASE \E l \in Drivers : MergeRows(l)
  BY <1>3, CubeStepType
<1>4. CASE UNCHANGED vars
  BY <1>4, LedgerSameType DEF vars, pubVars, draftVars, cubeVars, tryVars, runVars, endVars, TypeOK
<1> QED
  BY <1>1, <1>2, <1>3, <1>4 DEF Next

(***************************************************************************)
(* Type correctness of the composition of workflow, cube, publication rows *)
(* and ledger.                                                             *)
(***************************************************************************)
THEOREM TypeCorrect == Spec => []TypeOK
BY InitType, NextType, PTL DEF Spec

----------------------------------------------------------------------------
(***************************************************************************)
(* The states people and the run can put a version in.                     *)
(***************************************************************************)
PastTheGate == {"preimage", "publish", "mark", "commit", "sweep", "sweeping", "unpublish",
                "restore", "unmark", "broken", "supersede", "releasing"}

Agreed(r) == r \in Revisions => version[r] = "LOCKED"

(***************************************************************************)
(* PublishedOnlyLocked is not inductive: a pre-image puts old rows back,   *)
(* and a run past verify_publishable writes rows without asking again.     *)
(***************************************************************************)
Reviewed      == \A r \in Revisions : version[r] \in {"APPROVED", "LOCKED"} => covenant[r]
RunIsAgreed   == pc \in PastTheGate => Agreed(rev)
CubeIsAgreed  == \A l \in Drivers : \A r \in cube[l] : Agreed(r)
SavedIsAgreed == \A q \in Revisions : \A p \in preimage[q] : Agreed(p[2])

GateInv == Reviewed /\ RunIsAgreed /\ CubeIsAgreed /\ SavedIsAgreed

LEMMA GateInit == Init => GateInv
<1> SUFFICES ASSUME Init PROVE GateInv
  OBVIOUS
<1>1. 1 \notin Revisions
  BY SettlementAssumption DEF Revisions
<1> QED
  BY <1>1
  DEF Init, GateInv, Reviewed, RunIsAgreed, CubeIsAgreed, SavedIsAgreed, Agreed, PastTheGate

(***************************************************************************)
(* LOCKED is terminal, a version is made by ensure_target_version alone,   *)
(* and no step makes one APPROVED or LOCKED without the covenant or takes  *)
(* the covenant from one that is.                                          *)
(***************************************************************************)
Moves ==
  \A r \in Revisions :
    /\ version[r] = "LOCKED" => version'[r] = "LOCKED"
    /\ version'[r] # "NONE" => version[r] # "NONE" \/ (pc = "ensure" /\ rev = r)

LEMMA CleanUpMoves ==
  ASSUME TypeOK, Reviewed, NEW d \in BOOLEAN, NEW j \in BOOLEAN, CleanUp(d, j),
         UNCHANGED covenant
  PROVE  Moves /\ Reviewed'
BY DEF CleanUp, TypeOK, Reviewed, Moves

LEMMA FailMoves ==
  ASSUME TypeOK, Reviewed, NEW closes \in BOOLEAN, Fail(closes)
  PROVE  Moves /\ Reviewed'
BY CleanUpMoves DEF Fail

LEMMA VersionMoves ==
  ASSUME TypeOK, Reviewed, [Next]_vars
  PROVE  Moves /\ Reviewed'
<1>1. CASE UNCHANGED <<version, covenant>>
  BY <1>1 DEF Moves, Reviewed
<1>2. CASE EnsureTarget
  BY <1>1, <1>2 DEF EnsureTarget, Moves, Reviewed, TypeOK, draftVars
<1>3. CASE OpenApproval \/ Approve \/ ApproveUnreported
  BY <1>3 DEF OpenApproval, Approve, ApproveUnreported, Moves, Reviewed, TypeOK
<1>4. CASE Cancel \/ Reject \/ Expire
  BY <1>4, CleanUpMoves DEF Cancel, Reject, Expire, CloseUnpublished
<1>5. CASE FailUnpublished \/ FailPublish \/ FailVariance
  BY <1>5, FailMoves DEF FailUnpublished, FailPublish, FailVariance
<1>6. CASE SupersedeAttemptFails
  BY <1>1, <1>6, FailMoves DEF SupersedeAttemptFails, draftVars
<1>7. ASSUME NEW r \in Revisions, SetCovenant(r) PROVE Moves /\ Reviewed'
  BY <1>7 DEF SetCovenant, Moves, Reviewed, TypeOK
<1>8. ASSUME NEW r \in Revisions, NEW to, Transition(r, to) PROVE Moves /\ Reviewed'
  BY <1>8 DEF Transition, Declared, Moves, Reviewed, TypeOK
<1>9. CASE RunStep
  <2> USE DEF draftVars
  <2>1. CASE \/ (\E l \in Drivers : ComputeLine(l)) \/ SaveDraft \/ Verify \/ Snapshot
             \/ PublishToCube \/ MarkPublished \/ PostCommitment \/ MarkCommitted
             \/ CommitAttemptFails \/ SweepList \/ (\E c \in Categories : ReleaseOne(c))
             \/ SweepDone \/ SweepAttemptFails
    BY <1>1, <2>1
    DEF ComputeLine, SaveDraft, Verify, Snapshot, SnapshotPreimage, SnapshotFails, PublishToCube,
        MarkPublished, PostCommitment, MarkCommitted, CommitAttemptFails, SweepList, ReleaseOne, SweepDone,
        SweepAttemptFails
  <2>2. CASE \/ DeleteRevision \/ RestorePreimage \/ MarkCompensated \/ UnpublishAttemptFails
             \/ GiveUp \/ SupersedeList \/ MarkSuperseded \/ Finish
    BY <1>1, <2>2
    DEF DeleteRevision, RestorePreimage, MarkCompensated, UnpublishAttemptFails, GiveUp,
        SupersedeList, MarkSuperseded, Finish
  <2> QED
    BY <1>2, <1>3, <1>4, <1>5, <1>6, <1>9, <2>1, <2>2 DEF RunStep, Snapshot
<1>10. CASE People
  <2>1. ASSUME NEW ask \in Shocks, Begin(ask) \/ FoldIn(ask) \/ FoldInLate(ask)
        PROVE  Moves /\ Reviewed'
    BY <1>1, <2>1 DEF Begin, FoldIn, FoldInLate, draftVars
  <2> QED
    BY <1>3, <1>4, <1>7, <1>8, <1>10, <2>1 DEF People
<1>11. CASE \E l \in Drivers : MergeRows(l)
  BY <1>1, <1>11 DEF MergeRows, draftVars
<1>12. CASE UNCHANGED vars
  BY <1>1, <1>12 DEF vars, draftVars
<1> QED
  BY <1>9, <1>10, <1>11, <1>12 DEF Next

(***************************************************************************)
(* The only steps that write the cube or a pre-image, and the only one     *)
(* that takes a run past the gate: any other leaves the run where it was   *)
(* or ends it.                                                             *)
(***************************************************************************)
CubeStep == \/ Snapshot \/ PublishToCube \/ DeleteRevision \/ RestorePreimage
            \/ \E l \in Drivers : MergeRows(l)

KeepsTheRun == UNCHANGED cubeVars /\ (pc' \in PastTheGate => pc \in PastTheGate /\ rev' = rev)

LEMMA FailKeeps ==
  ASSUME NEW closes, Fail(closes), UNCHANGED cubeVars
  PROVE  KeepsTheRun
BY DEF Fail, EndRun, KeepsTheRun, PastTheGate

LEMMA OtherSteps ==
  ASSUME TypeOK, [Next]_vars, ~CubeStep, ~Verify
  PROVE  KeepsTheRun
<1> USE DEF KeepsTheRun, PastTheGate, cubeVars, runVars
<1>1. CASE EnsureTarget \/ FailUnpublished \/ FailPublish \/ FailVariance \/ SupersedeAttemptFails
  <2>1. CASE \E closes \in BOOLEAN : Fail(closes)
    BY <1>1, <2>1, FailKeeps
    DEF EnsureTarget, FailUnpublished, FailPublish, FailVariance, SupersedeAttemptFails
  <2>2. CASE EndRun("ALREADY")
    BY <1>1, <2>2
    DEF EndRun, EnsureTarget, FailUnpublished, FailPublish, FailVariance, SupersedeAttemptFails
  <2>3. CASE ~EndRun("ALREADY") /\ ~\E closes \in BOOLEAN : Fail(closes)
    BY <1>1, <2>3
    DEF EnsureTarget, FailUnpublished, FailPublish, FailVariance, SupersedeAttemptFails
  <2> QED
    BY <2>1, <2>2, <2>3
<1>2. CASE RunStep
  <2>1. CASE (\E l \in Drivers : ComputeLine(l)) \/ SaveDraft \/ OpenApproval \/ Expire
    BY <2>1 DEF ComputeLine, SaveDraft, OpenApproval, Expire, CloseUnpublished, EndRun
  <2>2. CASE \/ MarkPublished \/ PostCommitment \/ MarkCommitted \/ CommitAttemptFails
             \/ SweepList \/ (\E c \in Categories : ReleaseOne(c)) \/ SweepDone \/ SweepAttemptFails
    BY <2>2
    DEF MarkPublished, PostCommitment, MarkCommitted, CommitAttemptFails, SweepList, ReleaseOne,
        SweepDone, SweepAttemptFails, CompensationAttemptFails
  <2>3. CASE \/ MarkCompensated \/ UnpublishAttemptFails \/ GiveUp \/ SupersedeList
             \/ MarkSuperseded \/ Finish
    BY <2>3
    DEF MarkCompensated, UnpublishAttemptFails, CompensationAttemptFails, GiveUp, SupersedeList,
        MarkSuperseded, Finish, EndRun
  <2> QED
    BY <1>1, <1>2, <2>1, <2>2, <2>3 DEF RunStep, CubeStep, Snapshot
<1>3. CASE People
  BY <1>3
  DEF People, Begin, FoldIn, FoldInLate, ReserveRevision, Cancel, Reject, CloseUnpublished, EndRun,
      Approve, ApproveUnreported, SetCovenant, Transition
<1>4. CASE UNCHANGED vars
  BY <1>4 DEF vars
<1> QED
  BY <1>2, <1>3, <1>4 DEF Next, CubeStep

(* Agreed is never withdrawn.                                              *)
LEMMA AgreedStays ==
  ASSUME Moves, NEW r, Agreed(r)
  PROVE  Agreed(r)'
BY DEF Moves, Agreed

LEMMA GateNext == TypeOK /\ GateInv /\ [Next]_vars => GateInv'
<1> SUFFICES ASSUME TypeOK, GateInv, [Next]_vars PROVE GateInv'
  OBVIOUS
<1>1. Moves /\ Reviewed'
  BY VersionMoves DEF GateInv
<1> USE DEF GateInv
<1>2. RunIsAgreed'
  <2>1. CASE Verify
    BY <1>1, <2>1 DEF Verify, RunIsAgreed, Agreed, Moves, runVars
  <2>2. CASE CubeStep
    <3>1. rev' = rev /\ (pc' \in PastTheGate => pc \in PastTheGate)
      BY <2>2
      DEF CubeStep, Snapshot, SnapshotPreimage, SnapshotFails, PublishToCube, DeleteRevision,
          RestorePreimage, MergeRows, PastTheGate, runVars
    <3> QED
      BY <1>1, <3>1 DEF RunIsAgreed, Agreed, Moves
  <2>3. CASE ~Verify /\ ~CubeStep
    BY <1>1, <2>3, OtherSteps DEF KeepsTheRun, RunIsAgreed, Agreed, Moves
  <2> QED
    BY <2>1, <2>2, <2>3
<1>3. CubeIsAgreed'
  <2>1. CASE cube' = cube
    BY <1>1, <2>1 DEF CubeIsAgreed, Agreed, Moves
  <2>2. CASE PublishToCube
    BY <1>1, <2>2 DEF PublishToCube, CubeIsAgreed, RunIsAgreed, PastTheGate, Agreed, Moves
  <2>3. CASE DeleteRevision
    BY <1>1, <2>3 DEF DeleteRevision, CubeIsAgreed, Agreed, Moves
  <2>4. CASE RestorePreimage
    <3>1. ASSUME NEW l \in Drivers, NEW r \in cube'[l] PROVE Agreed(r)
      <4>1. r \in cube[l] \/ \E p \in preimage[rev] : r = p[2]
        BY <2>4, <3>1 DEF RestorePreimage
      <4>2. rev \in Revisions
        BY <2>4 DEF RestorePreimage, TypeOK
      <4> QED
        BY <4>1, <4>2 DEF CubeIsAgreed, SavedIsAgreed
    <3> QED
      BY <1>1, <3>1 DEF CubeIsAgreed, Agreed, Moves
  <2>5. ASSUME NEW l \in Drivers, MergeRows(l) PROVE CubeIsAgreed'
    <3>1. cube[l] # {}
      BY <2>5, FS_EmptySet DEF MergeRows
    <3>2. Newest(cube[l]) \in cube[l]
      BY <3>1, NewestIn DEF TypeOK
    <3> QED
      BY <1>1, <2>5, <3>2 DEF MergeRows, CubeIsAgreed, Agreed, Moves, TypeOK
  <2>6. CASE Snapshot \/ Verify
    BY <2>1, <2>6 DEF Snapshot, SnapshotPreimage, SnapshotFails, Verify, cubeVars
  <2>7. CASE ~CubeStep /\ ~Verify
    BY <2>1, <2>7, OtherSteps DEF KeepsTheRun, cubeVars
  <2> QED
    BY <2>2, <2>3, <2>4, <2>5, <2>6, <2>7 DEF CubeStep
<1>4. SavedIsAgreed'
  <2>1. CASE preimage' = preimage
    BY <1>1, <2>1 DEF SavedIsAgreed, Agreed, Moves
  <2>2. CASE Snapshot /\ rev \in Revisions /\ preimage' # preimage
    <3>1. \A p \in Overwritten : Agreed(p[2])
      BY <2>2, OverwrittenIs DEF CubeIsAgreed
    <3>2. PICK part \in SUBSET Overwritten : preimage' = [preimage EXCEPT ![rev] = part]
      BY <2>2, SnapshotSaves
    <3>3. ASSUME NEW q \in Revisions, NEW p \in preimage'[q] PROVE Agreed(p[2])
      <4>1. p \in preimage[q] \/ p \in Overwritten
        BY <3>2, <3>3 DEF TypeOK
      <4> QED
        BY <3>1, <4>1 DEF SavedIsAgreed
    <3> QED
      BY <1>1, <3>3 DEF SavedIsAgreed, Agreed, Moves
  <2>3. CASE ~CubeStep /\ ~Verify
    BY <2>1, <2>3, OtherSteps DEF KeepsTheRun, cubeVars
  <2>4. CASE \/ Verify \/ PublishToCube \/ DeleteRevision \/ RestorePreimage
             \/ \E l \in Drivers : MergeRows(l)
    BY <2>1, <2>4
    DEF Verify, PublishToCube, DeleteRevision, RestorePreimage, MergeRows, cubeVars
  <2> QED
    BY <2>1, <2>2, <2>3, <2>4, SnapshotSaves DEF CubeStep
<1> QED
  BY <1>1, <1>2, <1>3, <1>4

LEMMA GateIsPublishedOnlyLocked == TypeOK /\ GateInv => PublishedOnlyLocked
BY DEF GateInv, Reviewed, CubeIsAgreed, Agreed, PublishedOnlyLocked

(***************************************************************************)
(* For every number of drivers, revisions and retries, with late fold-ins, *)
(* repeats and reopened successors: the cube holds no row of a revision    *)
(* nobody agreed to, at any step of a publish or of its compensation.      *)
(***************************************************************************)
THEOREM PublishedOnlyLockedAlways == Spec => []PublishedOnlyLocked
<1>1. TypeOK /\ GateInv /\ [Next]_vars => (TypeOK /\ GateInv)'
  BY NextType, GateNext
<1>2. Init => TypeOK /\ GateInv
  BY InitType, GateInit
<1> QED
  BY <1>1, <1>2, GateIsPublishedOnlyLocked, PTL DEF Spec
----------------------------------------------------------------------------
(***************************************************************************)
(* The steps, seen from the publication rows, the cube and the ledger: the *)
(* ones that leave all three and the run where they are, the ones that     *)
(* take it from its draft to the gate, the ones that end it before a       *)
(* publish, and the others by name.                                        *)
(***************************************************************************)
Aside ==
  /\ UNCHANGED <<pubVars, cubeVars, ledger, pc, rev, payload, todo, lost, raised, shown>>
  /\ pc # "compute" => staged' = staged

Ahead ==
  /\ UNCHANGED <<pubVars, cubeVars, ledger, staged, rev, payload, todo, lost, raised, shown>>
  /\ <<pc, pc'>> \in {<<"compute", "saving">>, <<"saving", "parked">>, <<"parked", "verify">>,
                      <<"verify", "preimage">>}
  /\ pc = "compute" => Moved(payload) \subseteq staged[rev]

Dropped ==
  /\ UNCHANGED <<pubVars, cubeVars, ledger>>
  /\ pc \in {"ensure", "stopped", "compute", "saving", "parked"} /\ pc' = "idle" /\ rev' = 0
  /\ raised' = raised \/ raised' = raised \cup {rev}

Concluded ==
  /\ UNCHANGED <<pubVars, cubeVars, ledger>>
  /\ pc \in {"supersede", "releasing"} /\ pc' = "idle" /\ rev' = 0
  /\ \/ raised' = raised /\ Earlier = {}
     \/ raised' = raised \cup {rev}

LEMMA AsideSteps ==
  ASSUME \/ \E l \in Drivers : ComputeLine(l)
         \/ \E r \in Revisions : SetCovenant(r) \/ \E to \in VersionStates : Transition(r, to)
         \/ UNCHANGED vars
  PROVE  Aside
BY DEF ComputeLine, SetCovenant, Transition, Aside, vars, pubVars, cubeVars, draftVars, tryVars,
       runVars, endVars

LEMMA AheadSteps ==
  ASSUME SaveDraft \/ OpenApproval \/ Approve \/ Verify
  PROVE  Ahead
BY DEF SaveDraft, OpenApproval, Approve, Verify, Ahead, pubVars, cubeVars, draftVars, tryVars,
       runVars, endVars

LEMMA DroppedSteps ==
  ASSUME Cancel \/ Reject \/ Expire \/ FailUnpublished \/ ApproveUnreported
  PROVE  Dropped
BY DEF Cancel, Reject, Expire, CloseUnpublished, FailUnpublished, Fail, ApproveUnreported, EndRun,
       Dropped

LEMMA ConcludedSteps ==
  ASSUME Finish \/ FailVariance \/ (SupersedeAttemptFails /\ pc' # "supersede")
  PROVE  Concluded
BY DEF Finish, FailVariance, SupersedeAttemptFails, Fail, EndRun, Concluded

RetryHandOver == SupersedeAttemptFails /\ pc' = "supersede"

Request == \E ask \in Shocks : Begin(ask) \/ FoldIn(ask)

WritingStep ==
  \/ Snapshot \/ PublishToCube \/ MarkPublished \/ FailPublish
  \/ PostCommitment \/ MarkCommitted \/ CommitAttemptFails

RollbackStep ==
  \/ SweepList \/ (\E c \in Categories : ReleaseOne(c)) \/ SweepDone \/ SweepAttemptFails
  \/ DeleteRevision \/ RestorePreimage \/ MarkCompensated \/ UnpublishAttemptFails \/ GiveUp

HandOverStep == SupersedeList \/ MarkSuperseded \/ RetryHandOver \/ Concluded

LEMMA StepCases ==
  ASSUME [Next]_vars
  PROVE  \/ Aside \/ Ahead \/ Dropped
         \/ Request \/ (\E ask \in Shocks : FoldInLate(ask)) \/ EnsureTarget
         \/ WritingStep \/ RollbackStep \/ HandOverStep
         \/ \E l \in Drivers : MergeRows(l)
<1>1. CASE RunStep
  BY <1>1, AsideSteps, AheadSteps, DroppedSteps, ConcludedSteps
  DEF RunStep, WritingStep, RollbackStep, HandOverStep, RetryHandOver, Snapshot
<1>2. CASE People
  BY <1>2, AsideSteps, AheadSteps, DroppedSteps DEF People, Request, VersionStates
<1>3. CASE UNCHANGED vars
  BY <1>3, AsideSteps
<1> QED
  BY <1>1, <1>2, <1>3 DEF Next

----------------------------------------------------------------------------
(***************************************************************************)
(* What a run and its publication row agree on.                            *)
(***************************************************************************)
Drafting == {"stopped", "compute", "saving", "parked", "verify", "preimage", "publish"}
Writing  == {"mark", "commit", "sweep", "sweeping", "unpublish", "restore", "unmark", "broken"}
HandOver == {"supersede", "releasing"}

OwnRow ==
  /\ pc # "idle" => pubState[rev] # "NONE" /\ keyOpen[rev]
  /\ pc \in Drafting \cup {"mark"} => pubState[rev] = "RESERVED"
  /\ pc \in Writing \ {"mark"} => pubState[rev] # "RESERVED"
  /\ pc = "commit" => pubState[rev] \in {"PUBLISHED", "COMMITTED"}
  /\ pc \in HandOver => pubState[rev] = "COMMITTED"
  /\ pc = "releasing" => Earlier # {}

RowsTaken ==
  \A r \in Revisions : (keyOpen[r] \/ version[r] # "NONE") => pubState[r] # "NONE"

RowInv == OwnRow /\ RowsTaken

(***************************************************************************)
(* reserve_revision makes a fresh row under the key or finds the one open  *)
(* row it has; it changes no other row but to close its key.               *)
(***************************************************************************)
LEMMA NextIsFresh ==
  ASSUME NextRevision \in Revisions
  PROVE  NextRevision \notin Taken
<1>1. Taken \subseteq 1 .. MaxRevision /\ Taken \subseteq Nat
  BY SettlementAssumption DEF Taken, Revisions
<1>2. CASE Taken = {}
  BY <1>2
<1>3. CASE Taken # {}
  <2>1. \A q \in Taken : q <= Newest(Taken)
    BY <1>1, <1>3, NewestIn
  <2>2. Newest(Taken) \in Nat /\ NextRevision = Newest(Taken) + 1
    BY <1>1, <1>3, NewestIn DEF NextRevision
  <2> QED
    BY <2>1, <2>2
<1> QED
  BY <1>2, <1>3

Takes(s, r) ==
  /\ pc' = "ensure" /\ rev' = r /\ payload' = s
  /\ pubShocks'[r] = s /\ keyOpen'[r]
  /\ \A q \in Revisions \ {r} :
       /\ pubShocks'[q] = pubShocks[q] /\ pubState'[q] = pubState[q]
       /\ keyOpen'[q] => keyOpen[q] /\ (pubShocks[q] = s => ~Retired(q))
       /\ keyOpen[q] /\ ~keyOpen'[q] => Retired(q) /\ (Repeats \/ pubState[q] = "RESERVED")
  /\ Overtaken \/ pubState[r] # "RESERVED" \/ \A q \in Committed : q < r

Finds(s, r) ==
  /\ pubShocks[r] = s /\ keyOpen[r] /\ pubState'[r] = pubState[r] /\ ~Retired(r)

Makes(s, r) ==
  /\ pubState[r] = "NONE" /\ pubState'[r] = "RESERVED"
  /\ r = NextRevision
  /\ \A q \in Revisions : keyOpen[q] /\ pubShocks[q] = s => Retired(q)

LEMMA ReserveIs ==
  ASSUME TypeOK, NEW s \in Shocks, ReserveRevision(s)
  PROVE  \E r \in Revisions : Takes(s, r) /\ (Finds(s, r) \/ Makes(s, r))
<1> DEFINE mine == {r \in Revisions : keyOpen[r] /\ pubShocks[r] = s}
           dead == {r \in mine : Retired(r)}
           live == mine \ dead
           r    == IF live = {} THEN NextRevision ELSE Newest(live)
<1>1. /\ r \in Revisions
      /\ Repeats \/ \A q \in dead : pubState[q] = "RESERVED"
      /\ Overtaken \/ pubState[r] # "RESERVED" \/ \A q \in Committed : q < r
      /\ pubState'  = IF live = {} THEN [pubState EXCEPT ![r] = "RESERVED"] ELSE pubState
      /\ pubShocks' = [pubShocks EXCEPT ![r] = s]
      /\ keyOpen'   = [q \in Revisions |-> q = r \/ (keyOpen[q] /\ q \notin dead)]
      /\ pc' = "ensure" /\ rev' = r /\ payload' = s
  BY DEF ReserveRevision
<1>2. mine = {q \in Revisions : keyOpen[q] /\ pubShocks[q] = s} /\ dead = {q \in mine : Retired(q)}
  OBVIOUS
<1>3. live = mine \ dead
  OBVIOUS
<1>4. CASE live = {}
  <2>1. r = NextRevision
    BY <1>4
  <2>2. pubState[r] = "NONE"
    BY <1>1, <2>1, NextIsFresh DEF Taken
  <2> HIDE DEF r, live, dead, mine
  <2>3. Takes(s, r)
    BY <1>1, <1>2, <1>3, <1>4 DEF Takes, TypeOK
  <2>4. Makes(s, r)
    BY <1>1, <1>2, <1>3, <1>4, <2>1, <2>2 DEF Makes, TypeOK
  <2> QED
    BY <1>1, <2>3, <2>4
<1>5. CASE live # {}
  <2>1. live \subseteq 1 .. MaxRevision
    BY SettlementAssumption DEF Revisions
  <2>2. r \in live
    BY <1>5, <2>1, NewestIn
  <2> HIDE DEF r, live, dead, mine
  <2>3. Takes(s, r)
    BY <1>1, <1>2, <1>3, <1>5 DEF Takes, TypeOK
  <2>4. Finds(s, r)
    BY <1>1, <1>2, <1>3, <1>5, <2>2 DEF Finds, TypeOK
  <2> QED
    BY <1>1, <2>3, <2>4
<1> QED
  BY <1>4, <1>5

LEMMA RequestIs ==
  ASSUME TypeOK, Request
  PROVE  /\ \E s \in Shocks : \E r \in Revisions : Takes(s, r) /\ (Finds(s, r) \/ Makes(s, r))
         /\ pc \in {"idle", "compute"}
         /\ UNCHANGED <<version, cubeVars, ledger, todo, lost, raised>>
<1>1. PICK ask \in Shocks : Begin(ask) \/ FoldIn(ask)
  BY DEF Request
<1>2. CASE Begin(ask)
  <2>1. MergeShocks(CommittedShocks, ask) \in Shocks
    BY CommittedShocksType, ShocksMerge
  <2> QED
    BY <1>2, <2>1, ReserveIs DEF Begin, draftVars, tryVars
<1>3. CASE FoldIn(ask)
  <2>1. MergeShocks(payload, ask) \in Shocks
    BY ShocksMerge DEF TypeOK
  <2> QED
    BY <1>3, <2>1, ReserveIs DEF FoldIn, tryVars, endVars
<1> QED
  BY <1>1, <1>2, <1>3

LEMMA OldestIs ==
  ASSUME TypeOK, Earlier # {}
  PROVE  Oldest \in Earlier
<1>1. Earlier \subseteq 0 .. MaxRevision /\ MaxRevision \in Nat
  BY SettlementAssumption DEF Earlier, Committed, Revisions
<1>2. \E r \in Earlier : \A q \in Earlier : r <= q
  BY <1>1, MinExists
<1> QED
  BY <1>2 DEF Oldest

LEMMA OldestIsNotOwn ==
  ASSUME TypeOK, Earlier # {}
  PROVE  Oldest \in Committed /\ Oldest \in Revisions /\ Oldest # rev /\ Oldest < rev
<1>1. Oldest \in Revisions /\ Oldest \in Committed /\ Oldest < rev
  BY OldestIs DEF Earlier, Committed
<1>2. Oldest \in Int
  BY <1>1, SettlementAssumption DEF Revisions
<1> QED
  BY <1>1, <1>2

LEMMA RowInit == Init => RowInv
BY DEF Init, RowInv, OwnRow, RowsTaken, Drafting, Writing, HandOver

LEMMA OwnRowNext ==
  ASSUME TypeOK, RowInv, [Next]_vars
  PROVE  OwnRow'
<1> USE DEF RowInv, OwnRow, Drafting, Writing, HandOver, pubVars
<1>0. pc # "idle" => rev \in Revisions
  BY DEF TypeOK
<1>1. CASE Aside
  BY <1>1 DEF Aside, Earlier, Committed
<1>2. CASE Ahead
  BY <1>2 DEF Ahead
<1>3. CASE Dropped \/ Concluded
  BY <1>3 DEF Dropped, Concluded
<1>4. CASE Request
  BY <1>4, RequestIs DEF Takes, Finds, Makes, RowsTaken
<1>5. CASE \E ask \in Shocks : FoldInLate(ask)
  BY <1>5 DEF FoldInLate
<1>6. CASE EnsureTarget
  BY <1>0, <1>6 DEF EnsureTarget, EndRun
<1>7. CASE WritingStep
  <2>1. CASE Snapshot \/ PublishToCube \/ PostCommitment
    BY <2>1 DEF Snapshot, SnapshotPreimage, SnapshotFails, PublishToCube, PostCommitment, runVars
  <2>2. CASE MarkPublished \/ MarkCommitted \/ CommitAttemptFails
    BY <1>0, <2>2 DEF MarkPublished, MarkCommitted, CommitAttemptFails, runVars, TypeOK
  <2>3. CASE FailPublish
    BY <2>3 DEF FailPublish, Fail, EndRun
  <2> QED
    BY <1>7, <2>1, <2>2, <2>3 DEF WritingStep
<1>8. CASE RollbackStep
  <2>1. CASE SweepList \/ SweepDone \/ SweepAttemptFails \/ DeleteRevision \/ RestorePreimage
    BY <2>1
    DEF SweepList, SweepDone, SweepAttemptFails, CompensationAttemptFails, DeleteRevision,
        RestorePreimage, runVars
  <2>2. CASE UnpublishAttemptFails
    BY <1>0, <2>2 DEF UnpublishAttemptFails, CompensationAttemptFails, runVars, TypeOK
  <2>3. CASE MarkCompensated \/ GiveUp
    BY <2>3 DEF MarkCompensated, GiveUp, EndRun
  <2>4. ASSUME NEW c \in Categories, ReleaseOne(c) PROVE OwnRow'
    BY <2>4 DEF ReleaseOne, runVars, Earlier, Committed
  <2> QED
    BY <1>8, <2>1, <2>2, <2>3, <2>4 DEF RollbackStep
<1>9. CASE HandOverStep
  <2>1. CASE SupersedeList
    BY <2>1 DEF SupersedeList, runVars, Earlier, Committed
  <2>2. CASE RetryHandOver
    <3>1. ~Fail(FALSE)
      BY <2>2 DEF RetryHandOver, Fail, EndRun
    <3> QED
      BY <2>2, <3>1 DEF RetryHandOver, SupersedeAttemptFails, runVars
  <2>3. CASE MarkSuperseded
    <3>1. Oldest # rev
      BY <2>3, OldestIsNotOwn DEF MarkSuperseded
    <3> QED
      BY <1>0, <2>3, <3>1 DEF MarkSuperseded, runVars, TypeOK
  <2> QED
    BY <1>3, <1>9, <2>1, <2>2, <2>3 DEF HandOverStep
<1>10. CASE \E l \in Drivers : MergeRows(l)
  BY <1>10 DEF MergeRows, runVars, Earlier, Committed
<1> QED
  BY <1>1, <1>2, <1>3, <1>4, <1>5, <1>6, <1>7, <1>8, <1>9, <1>10, StepCases

(***************************************************************************)
(* A row that is taken stays taken, and keeps its shock set.               *)
(***************************************************************************)
LEMMA TakenStays ==
  ASSUME TypeOK, RowInv, [Next]_vars
  PROVE  \A r \in Revisions : pubState[r] # "NONE" => pubState'[r] # "NONE" /\ pubShocks'[r] = pubShocks[r]
<1> USE DEF pubVars
<1>1. CASE Request
  BY <1>1, RequestIs DEF Takes, Finds, Makes
<1>2. CASE WritingStep
  BY <1>2
  DEF WritingStep, Snapshot, SnapshotPreimage, SnapshotFails, PublishToCube, MarkPublished,
      FailPublish, PostCommitment, MarkCommitted, CommitAttemptFails, TypeOK
<1>3. CASE RollbackStep
  BY <1>3
  DEF RollbackStep, SweepList, ReleaseOne, SweepDone, SweepAttemptFails, DeleteRevision,
      RestorePreimage, MarkCompensated, UnpublishAttemptFails, GiveUp, TypeOK
<1>4. CASE HandOverStep
  BY <1>4 DEF HandOverStep, SupersedeList, MarkSuperseded, RetryHandOver, SupersedeAttemptFails, Concluded, TypeOK
<1>5. CASE \/ Aside \/ Ahead \/ Dropped \/ EnsureTarget
           \/ (\E ask \in Shocks : FoldInLate(ask)) \/ \E l \in Drivers : MergeRows(l)
  BY <1>5 DEF Aside, Ahead, Dropped, EnsureTarget, FoldInLate, MergeRows
<1> QED
  BY <1>1, <1>2, <1>3, <1>4, <1>5, StepCases

LEMMA KeysOpen ==
  ASSUME TypeOK, RowInv, [Next]_vars, ~Request
  PROVE  keyOpen' = keyOpen /\ pubShocks' = pubShocks
<1> USE DEF pubVars
<1>1. CASE WritingStep
  BY <1>1
  DEF WritingStep, Snapshot, SnapshotPreimage, SnapshotFails, PublishToCube, MarkPublished,
      FailPublish, PostCommitment, MarkCommitted, CommitAttemptFails
<1>2. CASE RollbackStep
  BY <1>2
  DEF RollbackStep, SweepList, ReleaseOne, SweepDone, SweepAttemptFails, DeleteRevision,
      RestorePreimage, MarkCompensated, UnpublishAttemptFails, GiveUp
<1>3. CASE HandOverStep
  BY <1>3 DEF HandOverStep, SupersedeList, MarkSuperseded, RetryHandOver, SupersedeAttemptFails, Concluded
<1>4. CASE \/ Aside \/ Ahead \/ Dropped \/ EnsureTarget
           \/ (\E ask \in Shocks : FoldInLate(ask)) \/ \E l \in Drivers : MergeRows(l)
  BY <1>4 DEF Aside, Ahead, Dropped, EnsureTarget, FoldInLate, MergeRows
<1> QED
  BY <1>1, <1>2, <1>3, <1>4, StepCases

LEMMA RowNext ==
  ASSUME TypeOK, RowInv, Reviewed, [Next]_vars
  PROVE  RowInv'
<1>1. OwnRow'
  BY OwnRowNext
<1>2. ASSUME NEW r \in Revisions, version'[r] # "NONE" PROVE pubState'[r] # "NONE"
  <2>1. pubState[r] # "NONE"
    BY <1>2, VersionMoves DEF Moves, RowInv, OwnRow, RowsTaken
  <2> QED
    BY <2>1, TakenStays
<1>3. ASSUME NEW r \in Revisions, keyOpen'[r] PROVE pubState'[r] # "NONE"
  <2>1. CASE Request
    BY <1>3, <2>1, TakenStays, RequestIs DEF Takes, Finds, Makes, RowInv, RowsTaken
  <2>2. CASE ~Request
    BY <1>3, <2>2, TakenStays, KeysOpen DEF RowInv, RowsTaken
  <2> QED
    BY <2>1, <2>2
<1> QED
  BY <1>1, <1>2, <1>3 DEF RowInv, RowsTaken

----------------------------------------------------------------------------
(***************************************************************************)
(* Where the rows of the cube and of the pre-images come from.             *)
(* NeverSilentlyPublished looks between runs only; what makes it inductive *)
(* is who answers for a row while a run is writing or rolling back, and    *)
(* that a run finds no row of its own revision, in the cube or saved.      *)
(***************************************************************************)
Accounted(r) == r = 1 \/ pubState[r] \in {"COMMITTED", "SUPERSEDED"} \/ r \in raised

Written == {"mark", "commit", "sweep", "sweeping", "unpublish", "broken"}
Unwritten == {"compute", "saving", "parked", "verify", "preimage", "publish"}

CubeIsAccounted ==
  \A l \in Drivers : \A r \in cube[l] : Accounted(r) \/ (rev = r /\ pc \in Written)
SavedIsAccounted == \A q \in Revisions : \A p \in preimage[q] : Accounted(p[2])
NotYetWritten ==
  pc \in Unwritten \cup {"restore", "unmark"} => \A l \in Drivers : rev \notin cube[l]
NeverSaved ==
  pc \in Unwritten \cup Writing => \A q \in Revisions : \A p \in preimage[q] : p[2] # rev

RowsInv == CubeIsAccounted /\ SavedIsAccounted /\ NotYetWritten /\ NeverSaved

LEMMA RunKeeps ==
  ASSUME TypeOK, [Next]_vars
  PROVE  /\ raised \subseteq raised'
         /\ pc' # "idle" /\ ~Request =>
              /\ rev' = rev /\ pc # "idle" /\ shown' = shown
              /\ LateFoldIn \/ payload' = payload
<1> USE DEF runVars, endVars
<1>1. CASE Request
  BY <1>1, RequestIs
<1>2. CASE WritingStep
  BY <1>2
  DEF WritingStep, Snapshot, SnapshotPreimage, SnapshotFails, PublishToCube, MarkPublished,
      FailPublish, Fail, EndRun, PostCommitment, MarkCommitted, CommitAttemptFails
<1>3. CASE RollbackStep
  BY <1>3
  DEF RollbackStep, SweepList, ReleaseOne, SweepDone, SweepAttemptFails, DeleteRevision,
      RestorePreimage, MarkCompensated, UnpublishAttemptFails, GiveUp, EndRun,
      CompensationAttemptFails
<1>4. CASE HandOverStep
  <2>1. RetryHandOver => ~Fail(FALSE)
    BY DEF RetryHandOver, Fail, EndRun
  <2> QED
    BY <1>4, <2>1
    DEF HandOverStep, SupersedeList, MarkSuperseded, RetryHandOver, SupersedeAttemptFails, Concluded
<1>5. CASE EnsureTarget
  BY <1>5 DEF EnsureTarget, EndRun
<1>6. CASE \/ Aside \/ Ahead \/ Dropped
           \/ (\E ask \in Shocks : FoldInLate(ask)) \/ \E l \in Drivers : MergeRows(l)
  BY <1>6 DEF Aside, Ahead, Dropped, FoldInLate, MergeRows
<1> QED
  BY <1>1, <1>2, <1>3, <1>4, <1>5, <1>6, StepCases

(***************************************************************************)
(* A revision that was committed is disowned by its own rollback alone.    *)
(***************************************************************************)
LEMMA AccountedStays ==
  ASSUME TypeOK, RowInv, [Next]_vars, NEW r \in 1 .. MaxRevision, Accounted(r),
         ~(r = rev /\ pc = "unmark")
  PROVE  Accounted(r)'
<1> USE DEF Accounted, pubVars
<1>0. r = 1 \/ r \in Revisions
  BY SettlementAssumption DEF Revisions
<1>1. raised \subseteq raised'
  BY RunKeeps
<1>2. CASE Request
  BY <1>0, <1>1, <1>2, RequestIs DEF Takes, Finds, Makes
<1>3. CASE WritingStep
  BY <1>0, <1>1, <1>3
  DEF WritingStep, Snapshot, SnapshotPreimage, SnapshotFails, PublishToCube, MarkPublished,
      FailPublish, PostCommitment, MarkCommitted, CommitAttemptFails, TypeOK
<1>4. CASE RollbackStep
  <2>1. CASE GiveUp
    BY <1>0, <1>1, <2>1 DEF GiveUp, EndRun, TypeOK
  <2>2. CASE ~GiveUp
    BY <1>0, <1>1, <1>4, <2>2
    DEF RollbackStep, SweepList, ReleaseOne, SweepDone, SweepAttemptFails, DeleteRevision,
        RestorePreimage, MarkCompensated, UnpublishAttemptFails, TypeOK
  <2> QED
    BY <2>1, <2>2
<1>5. CASE HandOverStep
  BY <1>0, <1>1, <1>5
  DEF HandOverStep, SupersedeList, MarkSuperseded, RetryHandOver, SupersedeAttemptFails, Concluded, TypeOK
<1>6. CASE \/ Aside \/ Ahead \/ Dropped \/ EnsureTarget
           \/ (\E ask \in Shocks : FoldInLate(ask)) \/ \E l \in Drivers : MergeRows(l)
  BY <1>0, <1>1, <1>6 DEF Aside, Ahead, Dropped, EnsureTarget, FoldInLate, MergeRows
<1> QED
  BY <1>2, <1>3, <1>4, <1>5, <1>6, StepCases

LEMMA RowsInit == Init => RowsInv
BY DEF Init, RowsInv, CubeIsAccounted, SavedIsAccounted, NotYetWritten, NeverSaved, Accounted,
       Unwritten, Writing

(* Merging keeps the newest row, so it adds none.                          *)
LEMMA MergeKeepsNewest ==
  ASSUME TypeOK, NEW k \in Drivers, MergeRows(k)
  PROVE  /\ cube[k] # {} /\ Newest(cube[k]) \in cube[k]
         /\ cube' = [cube EXCEPT ![k] = {Newest(cube[k])}]
         /\ \A l \in Drivers : cube'[l] \subseteq cube[l]
<1>1. cube[k] # {}
  BY FS_EmptySet DEF MergeRows
<1>2. Newest(cube[k]) \in cube[k]
  BY <1>1, NewestIn DEF TypeOK
<1> QED
  BY <1>1, <1>2 DEF MergeRows, TypeOK

(***************************************************************************)
(* The rows after a step, line by line.                                    *)
(***************************************************************************)
LEMMA CubeMoves ==
  ASSUME TypeOK, [Next]_vars
  PROVE  \A l \in Drivers : \A r \in cube'[l] :
           \/ r \in cube[l] /\ (DeleteRevision => r # rev)
           \/ PublishToCube /\ r = rev
           \/ RestorePreimage /\ \E p \in preimage[rev] : p[1] = l /\ p[2] = r
<1>1. CASE PublishToCube
  BY <1>1 DEF PublishToCube, DeleteRevision
<1>2. CASE DeleteRevision
  BY <1>2 DEF DeleteRevision
<1>3. CASE RestorePreimage
  BY <1>3 DEF RestorePreimage, DeleteRevision
<1>4. ASSUME NEW k \in Drivers, MergeRows(k)
      PROVE  /\ \A l \in Drivers : cube'[l] \subseteq cube[l]
             /\ ~DeleteRevision
  BY <1>4, MergeKeepsNewest DEF MergeRows, DeleteRevision
<1>5. CASE Snapshot \/ Verify
  BY <1>5 DEF Snapshot, SnapshotPreimage, SnapshotFails, Verify, cubeVars, DeleteRevision
<1>6. CASE ~CubeStep /\ ~Verify
  BY <1>6, OtherSteps DEF KeepsTheRun, cubeVars, CubeStep
<1> QED
  BY <1>1, <1>2, <1>3, <1>4, <1>5, <1>6 DEF CubeStep

LEMMA SavedMoves ==
  ASSUME TypeOK, [Next]_vars
  PROVE  \A q \in Revisions : \A p \in preimage'[q] :
           \/ p \in preimage[q]
           \/ Snapshot /\ pc = "preimage" /\ q = rev /\ \E l \in Drivers : p[2] \in cube[l]
<1>1. CASE Snapshot
  <2>1. CASE preimage' = preimage
    BY <2>1
  <2>2. ASSUME NEW part \in SUBSET Overwritten, preimage' = [preimage EXCEPT ![rev] = part],
               rev \in Revisions, NEW q \in Revisions, NEW p \in preimage'[q], p \notin preimage[q]
        PROVE  q = rev /\ \E l \in Drivers : p[2] \in cube[l]
    <3>1. q = rev /\ p \in part
      BY <2>2 DEF TypeOK
    <3> QED
      BY <2>2, <3>1, OverwrittenIs
  <2> QED
    BY <1>1, <2>1, <2>2, SnapshotSaves DEF Snapshot, SnapshotPreimage, SnapshotFails
<1>2. CASE ~Snapshot
  <2>1. CASE ~CubeStep /\ ~Verify
    BY <2>1, OtherSteps DEF KeepsTheRun, cubeVars
  <2>2. CASE \/ Verify \/ PublishToCube \/ DeleteRevision \/ RestorePreimage
             \/ \E l \in Drivers : MergeRows(l)
    BY <2>2 DEF Verify, PublishToCube, DeleteRevision, RestorePreimage, MergeRows, cubeVars
  <2> QED
    BY <1>2, <2>1, <2>2 DEF CubeStep
<1> QED
  BY <1>1, <1>2

(* The run's own revision after a step that leaves the run open.           *)
LEMMA NotYetWrittenNext ==
  ASSUME TypeOK, RowInv, GateInv, RowsInv, [Next]_vars
  PROVE  NotYetWritten' /\ NeverSaved'
<1> USE DEF Unwritten, Writing
<1>0. pc # "idle" => rev \in Revisions
  BY DEF TypeOK
<1>1. CASE EnsureTarget
  <2>1. pc' \in Unwritten \cup Writing =>
          version[rev] # "LOCKED" /\ rev' = rev /\ UNCHANGED cubeVars /\ rev \in Revisions
    BY <1>0, <1>1 DEF EnsureTarget, EndRun
  <2>2. CASE pc' \in Unwritten \cup Writing
    <3>1. \A l \in Drivers : rev \notin cube[l]
      BY <2>1, <2>2 DEF GateInv, CubeIsAgreed, Agreed
    <3>2. \A q \in Revisions : \A p \in preimage[q] : p[2] # rev
      BY <2>1, <2>2 DEF GateInv, SavedIsAgreed, Agreed
    <3> QED
      BY <2>1, <2>2, <3>1, <3>2 DEF NotYetWritten, NeverSaved, cubeVars
  <2> QED
    BY <2>2 DEF NotYetWritten, NeverSaved
<1>2. CASE Request
  BY <1>2, RequestIs DEF Takes, NotYetWritten, NeverSaved
<1>3. CASE ~EnsureTarget /\ ~Request
  <2>1. pc' # "idle" => rev' = rev /\ pc # "idle"
    BY <1>3, RunKeeps
  <2>2. ASSUME pc' \in Unwritten \cup Writing PROVE pc \in Unwritten \cup Writing
    <3>1. CASE Aside \/ Ahead \/ Dropped \/ (\E ask \in Shocks : FoldInLate(ask))
               \/ \E l \in Drivers : MergeRows(l)
      BY <2>2, <3>1 DEF Aside, Ahead, Dropped, FoldInLate, MergeRows
    <3>2. CASE WritingStep
      BY <3>2
      DEF WritingStep, Snapshot, SnapshotPreimage, SnapshotFails, PublishToCube, MarkPublished,
          FailPublish, PostCommitment, MarkCommitted, CommitAttemptFails
    <3>3. CASE RollbackStep
      BY <2>2, <3>3
      DEF RollbackStep, SweepList, ReleaseOne, SweepDone, SweepAttemptFails, DeleteRevision,
          RestorePreimage, MarkCompensated, UnpublishAttemptFails, GiveUp
    <3>4. CASE HandOverStep
      BY <2>2, <3>4
      DEF HandOverStep, SupersedeList, MarkSuperseded, RetryHandOver, Concluded
    <3> QED
      BY <1>3, <3>1, <3>2, <3>3, <3>4, StepCases
  <2>3. ASSUME pc' \in Unwritten \cup {"restore", "unmark"}
        PROVE  DeleteRevision \/ RestorePreimage \/ pc \in Unwritten \cup {"restore", "unmark"}
    <3>1. CASE Aside \/ Ahead \/ Dropped \/ (\E ask \in Shocks : FoldInLate(ask))
               \/ \E l \in Drivers : MergeRows(l)
      BY <2>3, <3>1 DEF Aside, Ahead, Dropped, FoldInLate, MergeRows
    <3>2. CASE WritingStep
      BY <2>3, <3>2
      DEF WritingStep, Snapshot, SnapshotPreimage, SnapshotFails, PublishToCube, MarkPublished,
          FailPublish, Fail, EndRun, PostCommitment, MarkCommitted, CommitAttemptFails
    <3>3. CASE RollbackStep
      BY <2>3, <3>3
      DEF RollbackStep, SweepList, ReleaseOne, SweepDone, SweepAttemptFails, MarkCompensated,
          UnpublishAttemptFails, CompensationAttemptFails, GiveUp, EndRun
    <3>4. CASE HandOverStep
      BY <2>3, <3>4
      DEF HandOverStep, SupersedeList, MarkSuperseded, RetryHandOver, Concluded
    <3> QED
      BY <1>3, <3>1, <3>2, <3>3, <3>4, StepCases
  <2>4. NeverSaved'
    <3> SUFFICES ASSUME pc' \in Unwritten \cup Writing, NEW q \in Revisions, NEW p \in preimage'[q]
                 PROVE  p[2] # rev'
      BY DEF NeverSaved
    <3>1. pc \in Unwritten \cup Writing /\ rev' = rev
      BY <2>1, <2>2
    <3>2. pc = "preimage" => \A l \in Drivers : rev \notin cube[l]
      BY DEF RowsInv, NotYetWritten
    <3> QED
      BY <3>1, <3>2, SavedMoves DEF RowsInv, NeverSaved
  <2>5. NotYetWritten'
    <3> SUFFICES ASSUME pc' \in Unwritten \cup {"restore", "unmark"}, NEW l \in Drivers,
                        rev' \in cube'[l]
                 PROVE  FALSE
      BY DEF NotYetWritten
    <3>1. rev' = rev
      BY <2>1
    <3>2. ~PublishToCube
      BY DEF PublishToCube
    <3>3. CASE rev \in cube[l] /\ ~DeleteRevision
      <4>1. pc \in Unwritten \cup {"restore", "unmark"}
        BY <2>3, <3>3 DEF RestorePreimage
      <4> QED
        BY <3>3, <4>1 DEF RowsInv, NotYetWritten
    <3>4. CASE RestorePreimage /\ \E p \in preimage[rev] : p[2] = rev
      BY <1>0, <3>4 DEF RestorePreimage, RowsInv, NeverSaved
    <3> QED
      BY <3>1, <3>2, <3>3, <3>4, CubeMoves
  <2> QED
    BY <2>4, <2>5
<1> QED
  BY <1>1, <1>2, <1>3

(* Who answers for a row the run has written, when the run moves on.       *)
LEMMA WrittenMoves ==
  ASSUME TypeOK, RowInv, [Next]_vars, pc \in Written, NEW r, r = rev
  PROVE  \/ rev' = r /\ pc' \in Written
         \/ Accounted(r)'
         \/ DeleteRevision
<1> USE DEF Written, runVars
<1>0. r \in Revisions
  BY DEF TypeOK
<1>1. CASE \/ Aside \/ Ahead \/ Dropped \/ Request \/ EnsureTarget
           \/ (\E ask \in Shocks : FoldInLate(ask)) \/ \E l \in Drivers : MergeRows(l)
  BY <1>1, RequestIs DEF Aside, Ahead, Dropped, EnsureTarget, FoldInLate, MergeRows
<1>2. CASE WritingStep
  <2>1. CASE FailPublish
    BY <2>1 DEF FailPublish, Fail, EndRun, Accounted
  <2>2. CASE MarkCommitted
    BY <1>0, <2>2 DEF MarkCommitted, Accounted, TypeOK
  <2>3. CASE ~FailPublish /\ ~MarkCommitted
    BY <1>2, <2>3
    DEF WritingStep, Snapshot, SnapshotPreimage, SnapshotFails, PublishToCube, MarkPublished,
        PostCommitment, CommitAttemptFails
  <2> QED
    BY <2>1, <2>2, <2>3
<1>3. CASE RollbackStep
  BY <1>3
  DEF RollbackStep, SweepList, ReleaseOne, SweepDone, SweepAttemptFails, RestorePreimage,
      MarkCompensated, UnpublishAttemptFails, CompensationAttemptFails, GiveUp, EndRun, Accounted
<1>4. CASE HandOverStep
  BY <1>4
  DEF HandOverStep, SupersedeList, MarkSuperseded, RetryHandOver, SupersedeAttemptFails, Concluded
<1> QED
  BY <1>1, <1>2, <1>3, <1>4, StepCases

LEMMA AccountedNext ==
  ASSUME TypeOK, RowInv, GateInv, RowsInv, [Next]_vars
  PROVE  CubeIsAccounted' /\ SavedIsAccounted'
<1>1. ASSUME NEW l \in Drivers, NEW r \in cube'[l]
      PROVE  Accounted(r)' \/ (rev' = r /\ pc' \in Written)
  <2>1. CASE r \in cube[l] /\ (DeleteRevision => r # rev)
    <3>1. ~(r = rev /\ pc = "unmark")
      BY <2>1 DEF RowsInv, NotYetWritten
    <3>2. r \in 1 .. MaxRevision
      BY <2>1 DEF TypeOK
    <3>3. CASE Accounted(r)
      BY <3>1, <3>2, <3>3, AccountedStays
    <3>4. CASE rev = r /\ pc \in Written
      <4>1. ~DeleteRevision
        BY <2>1, <3>4
      <4> QED
        BY <3>4, <4>1, WrittenMoves
    <3> QED
      BY <2>1, <3>3, <3>4 DEF RowsInv, CubeIsAccounted
  <2>2. CASE PublishToCube /\ r = rev
    BY <2>2 DEF PublishToCube, Written, runVars
  <2>3. CASE RestorePreimage /\ \E p \in preimage[rev] : p[2] = r
    <3>1. PICK p \in preimage[rev] : p[2] = r
      BY <2>3
    <3>2. rev \in Revisions /\ pc = "restore"
      BY <2>3 DEF RestorePreimage, TypeOK
    <3>3. Accounted(r) /\ r \in 1 .. MaxRevision
      BY <3>1, <3>2 DEF RowsInv, SavedIsAccounted, TypeOK
    <3> QED
      BY <3>2, <3>3, AccountedStays
  <2> QED
    BY <2>1, <2>2, <2>3, CubeMoves
<1>2. ASSUME NEW q \in Revisions, NEW p \in preimage'[q]
      PROVE  Accounted(p[2])'
  <2>1. CASE p \in preimage[q]
    <3>1. Accounted(p[2]) /\ p[2] \in 1 .. MaxRevision
      BY <2>1 DEF RowsInv, SavedIsAccounted, TypeOK
    <3>2. ~(p[2] = rev /\ pc = "unmark")
      BY <2>1 DEF RowsInv, NeverSaved, Writing
    <3> QED
      BY <3>1, <3>2, AccountedStays
  <2>2. ASSUME pc = "preimage", NEW l \in Drivers, p[2] \in cube[l] PROVE Accounted(p[2])'
    <3>1. Accounted(p[2]) /\ p[2] \in 1 .. MaxRevision
      BY <2>2 DEF RowsInv, CubeIsAccounted, Written, TypeOK
    <3> QED
      BY <2>2, <3>1, AccountedStays
  <2> QED
    BY <2>1, <2>2, SavedMoves
<1> QED
  BY <1>1, <1>2 DEF CubeIsAccounted, SavedIsAccounted

PublishedInv == TypeOK /\ GateInv /\ RowInv /\ RowsInv

LEMMA PublishedInvInit == Init => PublishedInv
BY InitType, GateInit, RowInit, RowsInit DEF PublishedInv

LEMMA PublishedInvNext == PublishedInv /\ [Next]_vars => PublishedInv'
BY NextType, GateNext, RowNext, NotYetWrittenNext, AccountedNext DEF PublishedInv, GateInv, RowsInv

LEMMA PublishedInvAlways == Spec => []PublishedInv
BY PublishedInvInit, PublishedInvNext, PTL DEF Spec

LEMMA AccountedIsNotSilent == PublishedInv => NeverSilentlyPublished
<1> SUFFICES ASSUME PublishedInv, pc = "idle", NEW l \in Drivers, cube[l] # {}
             PROVE  Accounted(Newest(cube[l]))
  BY DEF NeverSilentlyPublished, Accounted
<1>1. Newest(cube[l]) \in cube[l]
  BY NewestIn DEF PublishedInv, TypeOK
<1> QED
  BY <1>1 DEF PublishedInv, RowsInv, CubeIsAccounted, Written

(***************************************************************************)
(* Whatever fails, is repeated, folded in late or reopened, and however    *)
(* ClickHouse merges: between runs the cube shows only the plan as it was  *)
(* approved, revisions that were committed, and revisions whose run failed *)
(* aloud.                                                                  *)
(***************************************************************************)
THEOREM NeverSilentlyPublishedAlways == Spec => []NeverSilentlyPublished
BY PublishedInvAlways, AccountedIsNotSilent, PTL

----------------------------------------------------------------------------
(***************************************************************************)
(* The ledger.  A shock folded in late leaves the run with a payload that  *)
(* is not its row's shock set, so what follows holds without one.          *)
(***************************************************************************)
OwnPayload == pc # "idle" => payload = pubShocks[rev]

MadeForItsKey ==
  \A s \in Shocks, c \in Categories : ledger[<<s, c>>].state # "NONE" =>
    LET r == ledger[<<s, c>>].rev IN
    r \in Revisions /\ pubState[r] \notin {"NONE", "RESERVED"} /\ pubShocks[r] = s

Swept ==
  /\ pc = "sweeping" /\ ~lost => Holding(payload) \subseteq todo
  /\ pc \in {"unpublish", "restore", "unmark"} => Holding(payload) = {}
  /\ pc = "releasing" /\ ~lost => Holding(pubShocks[Oldest]) \subseteq todo

ReleaseInv == OwnPayload /\ MadeForItsKey /\ Swept /\ NothingStranded

LEMMA ReleaseInit == Init => ReleaseInv
<1> SUFFICES ASSUME Init PROVE ReleaseInv
  OBVIOUS
<1>1. \A s \in Shocks, c \in Categories : ledger[<<s, c>>] = L!Absent
  BY DEF Init, L!LedgerInit
<1>2. MadeForItsKey
  BY <1>1 DEF MadeForItsKey, L!Absent
<1> QED
  BY <1>2 DEF Init, ReleaseInv, OwnPayload, Swept, NothingStranded

LEMMA NextPostIs ==
  ASSUME TypeOK, todo # {}
  PROVE  NextPost \in todo
<1>1. todo \subseteq 0 .. NumCategories /\ NumCategories \in Nat
  BY SettlementAssumption DEF TypeOK, Categories
<1>2. \E r \in todo : \A q \in todo : r <= q
  BY <1>1, MinExists
<1> QED
  BY <1>2 DEF NextPost

(***************************************************************************)
(* What a step does to one commitment: nothing, a POST of the run that is  *)
(* committing, or a DELETE under the prefix that is being released.        *)
(***************************************************************************)
Posts(s, c) ==
  /\ pc = "commit" /\ s = payload /\ c \in todo
  /\ PostCommitment \/ CommitAttemptFails
  /\ ledger[<<s, c>>].state = "NONE"
  /\ ledger'[<<s, c>>].state = "RESERVED" /\ ledger'[<<s, c>>].rev = rev

Deletes(s, c) ==
  /\ pc \in {"sweeping", "releasing"} /\ s = Prefix /\ c \in todo /\ ReleaseOne(c)
  /\ ledger[<<s, c>>].state # "NONE"
  /\ ledger'[<<s, c>>].state = "RELEASED" /\ ledger'[<<s, c>>].rev = ledger[<<s, c>>].rev

LEMMA ReserveIsPost ==
  ASSUME TypeOK, todo # {}, L!Reserve(ServiceKey(NextPost), rev), pc = "commit",
         PostCommitment \/ CommitAttemptFails, NEW s \in Shocks, NEW c \in Categories
  PROVE  ledger'[<<s, c>>] = ledger[<<s, c>>] \/ Posts(s, c)
<1>1. NextPost \in todo /\ todo \subseteq Categories /\ payload \in Shocks
  BY NextPostIs DEF TypeOK
<1> DEFINE k == <<payload, NextPost>>
<1>2. k \in Shocks \X Categories /\ <<s, c>> \in Shocks \X Categories
  BY <1>1
<1>3. CASE ledger[k].state # "NONE"
  BY <1>3 DEF L!Reserve, ServiceKey
<1>4. CASE ledger[k].state = "NONE"
  <2>1. ledger' = [ledger EXCEPT ![k] = [state |-> "RESERVED", rev |-> rev]]
    BY <1>4 DEF L!Reserve, ServiceKey
  <2>2. CASE <<s, c>> = k
    <3>1. s = payload /\ c = NextPost
      BY <2>2
    <3>2. ledger'[<<s, c>>] = [state |-> "RESERVED", rev |-> rev]
      BY <1>2, <2>1, <2>2 DEF TypeOK, L!LedgerTypeOK
    <3> QED
      BY <1>1, <1>4, <2>2, <3>1, <3>2 DEF Posts
  <2>3. CASE <<s, c>> # k
    BY <1>2, <2>1, <2>3 DEF TypeOK, L!LedgerTypeOK
  <2> QED
    BY <2>2, <2>3
<1> QED
  BY <1>3, <1>4

LEMMA PrefixIs ==
  ASSUME TypeOK, RowInv, pc \in {"sweeping", "releasing"}
  PROVE  Prefix \in Shocks
BY OldestIsNotOwn DEF Prefix, TypeOK, RowInv, OwnRow

LEMMA ReleaseIsDelete ==
  ASSUME TypeOK, RowInv, NEW b \in Categories, ReleaseOne(b), L!Release(<<Prefix, b>>),
         NEW s \in Shocks, NEW c \in Categories
  PROVE  /\ ledger'[<<s, c>>] = ledger[<<s, c>>] \/ Deletes(s, c)
         /\ s = Prefix /\ c = b => ledger'[<<s, c>>].state # "RESERVED"
<1>0. pc \in {"sweeping", "releasing"} /\ b \in todo
  BY DEF ReleaseOne
<1> DEFINE k == <<Prefix, b>>
<1>2. k \in Shocks \X Categories /\ <<s, c>> \in Shocks \X Categories
  BY <1>0, PrefixIs
<1>3. CASE ledger[k].state = "NONE"
  BY <1>3 DEF L!Release
<1>4. CASE ledger[k].state # "NONE"
  <2>1. ledger' = [ledger EXCEPT ![k].state = "RELEASED"]
    BY <1>4 DEF L!Release
  <2>2. CASE <<s, c>> = k
    <3>1. s = Prefix /\ c = b
      BY <2>2
    <3>2. ledger'[<<s, c>>].state = "RELEASED" /\ ledger'[<<s, c>>].rev = ledger[<<s, c>>].rev
      BY <1>2, <2>1, <2>2 DEF TypeOK, L!LedgerTypeOK, L!Commitment
    <3> QED
      BY <1>0, <1>4, <2>2, <3>1, <3>2 DEF Deletes
  <2>3. CASE <<s, c>> # k
    BY <1>2, <2>1, <2>3 DEF TypeOK, L!LedgerTypeOK
  <2> QED
    BY <2>2, <2>3
<1> QED
  BY <1>3, <1>4

LEMMA LedgerMoves ==
  ASSUME TypeOK, RowInv, [Next]_vars, NEW s \in Shocks, NEW c \in Categories
  PROVE  ledger'[<<s, c>>] = ledger[<<s, c>>] \/ Posts(s, c) \/ Deletes(s, c)
<1>1. CASE \/ Aside \/ Ahead \/ Dropped \/ Request \/ EnsureTarget
           \/ (\E ask \in Shocks : FoldInLate(ask)) \/ \E l \in Drivers : MergeRows(l)
  BY <1>1, RequestIs DEF Aside, Ahead, Dropped, EnsureTarget, FoldInLate, MergeRows
<1>2. CASE WritingStep
  <2>1. CASE PostCommitment
    BY <2>1, ReserveIsPost DEF PostCommitment
  <2>2. CASE CommitAttemptFails
    BY <2>2, ReserveIsPost DEF CommitAttemptFails
  <2>3. CASE ~PostCommitment /\ ~CommitAttemptFails
    BY <1>2, <2>3
    DEF WritingStep, Snapshot, SnapshotPreimage, SnapshotFails, PublishToCube, MarkPublished,
        FailPublish, MarkCommitted
  <2> QED
    BY <2>1, <2>2, <2>3
<1>3. CASE RollbackStep
  <2>1. ASSUME NEW b \in Categories, ReleaseOne(b)
        PROVE  ledger'[<<s, c>>] = ledger[<<s, c>>] \/ Deletes(s, c)
    <3>1. L!Release(<<Prefix, b>>) \/ ledger' = ledger
      BY <2>1 DEF ReleaseOne
    <3> QED
      BY <2>1, <3>1, ReleaseIsDelete
  <2> QED
    BY <1>3, <2>1
    DEF RollbackStep, SweepList, SweepDone, SweepAttemptFails, DeleteRevision,
        RestorePreimage, MarkCompensated, UnpublishAttemptFails, GiveUp
<1>4. CASE HandOverStep
  BY <1>4
  DEF HandOverStep, SupersedeList, MarkSuperseded, RetryHandOver, SupersedeAttemptFails, Concluded
<1> QED
  BY <1>1, <1>2, <1>3, <1>4, StepCases

(***************************************************************************)
(* What a step does to a row's state.                                      *)
(***************************************************************************)
LEMMA StateMoves ==
  ASSUME TypeOK, RowInv, [Next]_vars, NEW r \in Revisions, pubState'[r] # pubState[r]
  PROVE  \/ pubState[r] = "NONE" /\ pubState'[r] = "RESERVED" /\ Request
         \/ r = rev /\ pc = "mark" /\ pubState'[r] = "PUBLISHED"
         \/ r = rev /\ pc = "commit" /\ todo = {} /\ pubState'[r] = "COMMITTED"
         \/ r = rev /\ pc = "unmark" /\ pubState'[r] = "COMPENSATED"
         \/ r = rev /\ GiveUp /\ pubState'[r] = "COMPENSATION_FAILED"
         \/ r = Oldest /\ MarkSuperseded /\ pubState'[r] = "SUPERSEDED"
<1> USE DEF pubVars
<1>1. CASE \/ Aside \/ Ahead \/ Dropped \/ EnsureTarget
           \/ (\E ask \in Shocks : FoldInLate(ask)) \/ \E l \in Drivers : MergeRows(l)
  BY <1>1 DEF Aside, Ahead, Dropped, EnsureTarget, FoldInLate, MergeRows
<1>2. CASE Request
  BY <1>2, RequestIs DEF Takes, Finds, Makes
<1>3. CASE WritingStep
  <2>1. CASE FailPublish \/ MarkPublished
    BY <2>1 DEF FailPublish, MarkPublished, TypeOK
  <2>2. CASE MarkCommitted \/ CommitAttemptFails
    BY <2>2 DEF MarkCommitted, CommitAttemptFails, TypeOK
  <2> QED
    BY <1>3, <2>1, <2>2
    DEF WritingStep, Snapshot, SnapshotPreimage, SnapshotFails, PublishToCube, PostCommitment
<1>4. CASE RollbackStep
  <2>1. CASE MarkCompensated \/ UnpublishAttemptFails
    BY <2>1 DEF MarkCompensated, UnpublishAttemptFails, TypeOK
  <2>2. CASE GiveUp
    <3>1. pubState' = pubState \/ pubState' = [pubState EXCEPT ![rev] = "COMPENSATION_FAILED"]
      BY <2>2 DEF GiveUp
    <3> QED
      BY <2>2, <3>1 DEF TypeOK
  <2> QED
    BY <1>4, <2>1, <2>2
    DEF RollbackStep, SweepList, ReleaseOne, SweepDone, SweepAttemptFails, DeleteRevision, RestorePreimage
<1>5. CASE HandOverStep
  <2>1. CASE MarkSuperseded
    BY <2>1 DEF MarkSuperseded, TypeOK
  <2> QED
    BY <1>5, <2>1
    DEF HandOverStep, SupersedeList, RetryHandOver, SupersedeAttemptFails, Concluded
<1> QED
  BY <1>1, <1>2, <1>3, <1>4, <1>5, StepCases

(***************************************************************************)
(* Releasing is the only use of todo and lost; neither outlives the        *)
(* activity that set them.                                                 *)
(***************************************************************************)
LEMMA SweptNext ==
  ASSUME TypeOK, RowInv, OwnPayload, Swept, ~LateFoldIn, [Next]_vars
  PROVE  Swept'
<1> USE DEF Holding
<1>0. /\ pc # "idle" => rev \in Revisions /\ payload \in Shocks
      /\ pc = "releasing" => Oldest \in Revisions /\ pubShocks[Oldest] \in Shocks
  BY OldestIsNotOwn DEF TypeOK, RowInv, OwnRow
<1>1. CASE Aside \/ \E l \in Drivers : MergeRows(l)
  <2>1. UNCHANGED <<pubState, pubShocks, ledger, pc, rev, payload, todo, lost>>
    BY <1>1 DEF Aside, MergeRows, pubVars, tryVars, runVars
  <2> QED
    BY <2>1 DEF Swept, Oldest, Earlier, Committed
<1>2. CASE Ahead \/ Dropped \/ Request \/ (\E ask \in Shocks : FoldInLate(ask)) \/ EnsureTarget
  BY <1>2, RequestIs DEF Ahead, Dropped, Takes, FoldInLate, EnsureTarget, EndRun, Swept
<1>3. CASE WritingStep
  BY <1>3
  DEF WritingStep, Snapshot, SnapshotPreimage, SnapshotFails, PublishToCube, MarkPublished,
      FailPublish, Fail, EndRun, PostCommitment, MarkCommitted, CommitAttemptFails, Swept
<1>4. CASE HandOverStep
  <2>1. CASE SupersedeList
    <3>1. /\ UNCHANGED <<pubState, pubShocks, ledger, rev>> /\ pc' = "releasing"
          /\ todo' = Holding(pubShocks[Oldest])
      BY <2>1 DEF SupersedeList, pubVars, runVars
    <3>2. Oldest' = Oldest
      BY <3>1 DEF Oldest, Earlier, Committed
    <3> QED
      BY <3>1, <3>2 DEF Swept
  <2>2. CASE MarkSuperseded \/ RetryHandOver \/ Concluded
    BY <2>2 DEF MarkSuperseded, RetryHandOver, Concluded, Swept
  <2> QED
    BY <1>4, <2>1, <2>2 DEF HandOverStep
<1>5. CASE RollbackStep
  <2>1. CASE SweepList
    BY <2>1 DEF SweepList, Swept, runVars
  <2>2. CASE SweepDone
    BY <2>2 DEF SweepDone, Swept, runVars
  <2>3. CASE DeleteRevision \/ RestorePreimage
    BY <2>3 DEF DeleteRevision, RestorePreimage, Swept, runVars
  <2>4. CASE SweepAttemptFails \/ UnpublishAttemptFails
    BY <2>4 DEF SweepAttemptFails, UnpublishAttemptFails, CompensationAttemptFails, Swept, runVars
  <2>5. CASE MarkCompensated \/ GiveUp
    BY <2>5 DEF MarkCompensated, GiveUp, EndRun, Swept
  <2>6. ASSUME NEW b \in Categories, ReleaseOne(b) PROVE Swept'
    <3>1. PICK confirmed, effect \in BOOLEAN :
            /\ confirmed => effect
            /\ IF effect THEN L!Release(<<Prefix, b>>) ELSE UNCHANGED ledger
            /\ lost' = (lost \/ ~confirmed)
      BY <2>6 DEF ReleaseOne
    <3>2. /\ UNCHANGED <<pubState, pubShocks, pc, rev, payload>> /\ todo' = todo \ {b}
          /\ pc \in {"sweeping", "releasing"}
      BY <2>6 DEF ReleaseOne, pubVars, runVars
    <3>3. Oldest' = Oldest
      BY <3>2 DEF Oldest, Earlier, Committed
    <3>4. Prefix \in Shocks
      BY <3>2, PrefixIs
    <3>5. ASSUME ~lost', Holding(Prefix) \subseteq todo,
                 NEW c \in Categories, ledger'[<<Prefix, c>>].state = "RESERVED"
          PROVE  c \in todo \ {b}
      <4>1. L!Release(<<Prefix, b>>)
        BY <3>1, <3>5
      <4>2. c # b /\ (ledger'[<<Prefix, c>>] = ledger[<<Prefix, c>>] \/ Deletes(Prefix, c))
        BY <2>6, <3>4, <3>5, <4>1, ReleaseIsDelete
      <4> QED
        BY <3>5, <4>2 DEF Deletes
    <3>6. ~lost' => ~lost
      BY <3>1 DEF TypeOK
    <3>7. CASE pc = "sweeping"
      <4>1. Prefix = payload
        BY <3>7 DEF Prefix
      <4> QED
        BY <3>2, <3>5, <3>6, <3>7, <4>1 DEF Swept
    <3>8. CASE pc = "releasing"
      <4>1. Prefix = pubShocks[Oldest]
        BY <3>8 DEF Prefix
      <4> QED
        BY <3>2, <3>3, <3>5, <3>6, <3>8, <4>1 DEF Swept
    <3> QED
      BY <3>2, <3>7, <3>8
  <2> QED
    BY <1>5, <2>1, <2>2, <2>3, <2>4, <2>5, <2>6 DEF RollbackStep
<1> QED
  BY <1>1, <1>2, <1>3, <1>4, <1>5, StepCases

LEMMA OwnPayloadNext ==
  ASSUME TypeOK, RowInv, OwnPayload, ~LateFoldIn, [Next]_vars
  PROVE  OwnPayload'
<1>1. CASE Request
  BY <1>1, RequestIs DEF Takes, OwnPayload
<1>2. CASE ~Request
  BY <1>2, RunKeeps, KeysOpen DEF OwnPayload
<1> QED
  BY <1>1, <1>2

(***************************************************************************)
(* A row past its reservation stays past it.                               *)
(***************************************************************************)
LEMMA BeyondStays ==
  ASSUME TypeOK, RowInv, [Next]_vars, NEW r \in Revisions, pubState[r] \notin {"NONE", "RESERVED"}
  PROVE  pubState'[r] \notin {"NONE", "RESERVED"} /\ pubShocks'[r] = pubShocks[r]
BY StateMoves, TakenStays

LEMMA MadeForItsKeyNext ==
  ASSUME TypeOK, RowInv, OwnPayload, MadeForItsKey, [Next]_vars
  PROVE  MadeForItsKey'
<1> SUFFICES ASSUME NEW s \in Shocks, NEW c \in Categories, ledger'[<<s, c>>].state # "NONE"
             PROVE  LET r == ledger'[<<s, c>>].rev IN
                    r \in Revisions /\ pubState'[r] \notin {"NONE", "RESERVED"} /\ pubShocks'[r] = s
  BY DEF MadeForItsKey
<1>1. CASE Posts(s, c)
  <2>1. rev \in Revisions /\ pubShocks[rev] = s /\ pubState[rev] \in {"PUBLISHED", "COMMITTED"}
    BY <1>1 DEF Posts, OwnPayload, RowInv, OwnRow, TypeOK
  <2> QED
    BY <1>1, <2>1, BeyondStays DEF Posts
<1>2. CASE ledger'[<<s, c>>] = ledger[<<s, c>>] \/ Deletes(s, c)
  <2>1. ledger[<<s, c>>].state # "NONE" /\ ledger'[<<s, c>>].rev = ledger[<<s, c>>].rev
    BY <1>2 DEF Deletes
  <2> QED
    BY <2>1, BeyondStays DEF MadeForItsKey
<1> QED
  BY <1>1, <1>2, LedgerMoves

LEMMA NothingStrandedNext ==
  ASSUME TypeOK, RowInv, ReleaseInv, [Next]_vars
  PROVE  NothingStranded'
<1> SUFFICES ASSUME NEW r \in Revisions, pubState'[r] \in {"COMPENSATED", "SUPERSEDED"},
                    NEW s \in Shocks, NEW c \in Categories,
                    ledger'[<<s, c>>].state = "RESERVED", ledger'[<<s, c>>].rev = r
             PROVE  FALSE
  BY DEF NothingStranded, L!HeldFor
<1> USE DEF ReleaseInv
<1>1. CASE Posts(s, c)
  <2>1. r = rev /\ pc = "commit" /\ pubState[r] \in {"PUBLISHED", "COMMITTED"}
    BY <1>1 DEF Posts, RowInv, OwnRow
  <2>2. ~MarkSuperseded
    BY <2>1 DEF MarkSuperseded
  <2> QED
    BY <2>1, <2>2, StateMoves
<1>2. CASE ledger'[<<s, c>>] = ledger[<<s, c>>]
  <2>1. ledger[<<s, c>>].state = "RESERVED" /\ ledger[<<s, c>>].rev = r /\ pubShocks[r] = s
    BY <1>2 DEF MadeForItsKey
  <2>2. CASE pubState[r] \in {"COMPENSATED", "SUPERSEDED"}
    BY <2>1, <2>2 DEF NothingStranded, L!HeldFor
  <2>3. CASE r = rev /\ pc = "unmark"
    BY <2>1, <2>3 DEF Swept, OwnPayload, Holding
  <2>4. CASE r = Oldest /\ MarkSuperseded
    <3>1. pc = "releasing" /\ todo = {} /\ ~lost
      BY <2>4 DEF MarkSuperseded
    <3> QED
      BY <2>1, <2>4, <3>1 DEF Swept, Holding
  <2> QED
    BY <2>2, <2>3, <2>4, StateMoves
<1>3. CASE Deletes(s, c)
  BY <1>3 DEF Deletes
<1> QED
  BY <1>1, <1>2, <1>3, LedgerMoves

LEMMA ReleaseNext ==
  ASSUME TypeOK, RowInv, ReleaseInv, ~LateFoldIn, [Next]_vars
  PROVE  ReleaseInv'
BY OwnPayloadNext, MadeForItsKeyNext, SweptNext, NothingStrandedNext DEF ReleaseInv

LEMMA ReleaseInvAlways ==
  ASSUME ~LateFoldIn
  PROVE  Spec => [](PublishedInv /\ ReleaseInv)
<1>1. PublishedInv /\ ReleaseInv /\ [Next]_vars => (PublishedInv /\ ReleaseInv)'
  BY PublishedInvNext, ReleaseNext DEF PublishedInv
<1>2. Init => PublishedInv /\ ReleaseInv
  BY PublishedInvInit, ReleaseInit
<1> QED
  BY <1>1, <1>2, PTL DEF Spec

(***************************************************************************)
(* Unless a shock is folded in late, and whatever is repeated or reopened: *)
(* a revision recorded COMPENSATED or SUPERSEDED holds no budget, however  *)
(* many POSTs timed out after their write or DELETEs went unconfirmed.     *)
(***************************************************************************)
THEOREM NothingStrandedAlways ==
  ASSUME ~LateFoldIn
  PROVE  Spec => []NothingStranded
<1>1. ReleaseInv => NothingStranded
  BY DEF ReleaseInv
<1> QED
  BY <1>1, ReleaseInvAlways, PTL

----------------------------------------------------------------------------
(***************************************************************************)
(* Funding.  When no shock set is asked for again once its revision was    *)
(* rolled back or superseded, the keys of a revision are its own: nobody   *)
(* posted under them before, and nobody releases them but for it.          *)
(***************************************************************************)
OneOpenKey ==
  \A r, q \in Revisions : keyOpen[r] /\ keyOpen[q] /\ pubShocks[r] = pubShocks[q] => r = q

ClosedUnpublished ==
  \A r \in Revisions : pubState[r] \notin {"NONE", "RESERVED"} => keyOpen[r]

Posted ==
  pc = "commit" => \A c \in Categories :
    /\ ledger[<<payload, c>>].state # "RELEASED"
    /\ c \notin todo => ledger[<<payload, c>>].state = "RESERVED"

(***************************************************************************)
(* NeverUnfunded speaks of the newest committed revision.  An older one    *)
(* may lose its budget only when a newer one stands committed and no run   *)
(* can still take that one back.                                           *)
(***************************************************************************)
Settled(q)  == pubState[q] = "COMMITTED" /\ ~(rev = q /\ (pc = "commit" \/ Compensating))
Replaced(r) == \E q \in Revisions : r < q /\ Settled(q)

Funded(r) ==
  \/ Holding(pubShocks[r]) = Categories
  \/ r \in raised
  \/ rev = r /\ Compensating
  \/ Replaced(r)

FundInv == OneOpenKey /\ ClosedUnpublished /\ Posted /\ \A r \in Committed : Funded(r)

LEMMA FundInit == Init => FundInv
BY DEF Init, FundInv, OneOpenKey, ClosedUnpublished, Posted, Committed

LEMMA KeysNext ==
  ASSUME TypeOK, RowInv, OneOpenKey, ClosedUnpublished, ~Repeats, [Next]_vars
  PROVE  OneOpenKey' /\ ClosedUnpublished'
<1>1. CASE Request
  <2>1. PICK s \in Shocks, r \in Revisions : Takes(s, r) /\ (Finds(s, r) \/ Makes(s, r))
    BY <1>1, RequestIs
  <2>2. OneOpenKey'
    BY <2>1 DEF Takes, Finds, Makes, OneOpenKey
  <2>3. ClosedUnpublished'
    BY <2>1 DEF Takes, Finds, Makes, ClosedUnpublished
  <2> QED
    BY <2>2, <2>3
<1>2. CASE ~Request
  <2>1. keyOpen' = keyOpen /\ pubShocks' = pubShocks
    BY <1>2, KeysOpen
  <2>2. ASSUME NEW r \in Revisions, pubState'[r] \notin {"NONE", "RESERVED"} PROVE keyOpen[r]
    <3>1. CASE pubState'[r] = pubState[r]
      BY <2>2, <3>1 DEF ClosedUnpublished
    <3>2. CASE r = rev /\ pc # "idle"
      BY <3>2 DEF RowInv, OwnRow
    <3>3. CASE r = Oldest /\ MarkSuperseded
      BY <3>3, OldestIsNotOwn DEF MarkSuperseded, RowInv, OwnRow, Committed, ClosedUnpublished
    <3>4. GiveUp => pc # "idle"
      BY DEF GiveUp
    <3> QED
      BY <2>2, <3>1, <3>2, <3>3, <3>4, StateMoves
  <2> QED
    BY <2>1, <2>2 DEF OneOpenKey, ClosedUnpublished
<1> QED
  BY <1>1, <1>2

(* Two revisions past their reservation have different shock sets.         *)
LEMMA OwnKeys ==
  ASSUME OneOpenKey, ClosedUnpublished, NEW r \in Revisions, NEW q \in Revisions,
         pubState[r] \notin {"NONE", "RESERVED"}, keyOpen[q], pubShocks[r] = pubShocks[q]
  PROVE  r = q
BY DEF OneOpenKey, ClosedUnpublished

LEMMA NothingPosted ==
  ASSUME TypeOK, RowInv, OwnPayload, MadeForItsKey, OneOpenKey, ClosedUnpublished,
         pc # "idle", pubState[rev] = "RESERVED", NEW c \in Categories
  PROVE  ledger[<<payload, c>>].state = "NONE"
<1>1. rev \in Revisions /\ keyOpen[rev] /\ payload = pubShocks[rev] /\ payload \in Shocks
  BY DEF TypeOK, RowInv, OwnRow, OwnPayload
<1> QED
  BY <1>1, OwnKeys DEF MadeForItsKey

LEMMA ReserveLeavesIt ==
  ASSUME TypeOK, NEW k \in Shocks \X Categories, L!Reserve(k, rev)
  PROVE  ledger'[k].state # "NONE"
BY DEF L!Reserve, TypeOK, L!LedgerTypeOK

LEMMA PostedNext ==
  ASSUME TypeOK, RowInv, ReleaseInv, FundInv, ~LateFoldIn, [Next]_vars
  PROVE  Posted'
<1> SUFFICES ASSUME pc' = "commit", NEW c \in Categories
             PROVE  /\ ledger'[<<payload', c>>].state # "RELEASED"
                    /\ c \notin todo' => ledger'[<<payload', c>>].state = "RESERVED"
  BY DEF Posted
<1>0. payload \in Shocks
  BY DEF TypeOK
<1>1. CASE MarkPublished
  <2>1. ledger[<<payload, c>>].state = "NONE"
    BY <1>1, NothingPosted DEF MarkPublished, RowInv, OwnRow, ReleaseInv, FundInv
  <2> QED
    BY <1>1, <2>1 DEF MarkPublished, runVars
<1>2. ASSUME ~MarkPublished PROVE pc = "commit" /\ payload' = payload
  <2>1. CASE \/ Ahead \/ Dropped \/ Request \/ EnsureTarget \/ RollbackStep \/ HandOverStep
    BY <2>1, RequestIs
    DEF Ahead, Dropped, Takes, EnsureTarget, EndRun, RollbackStep, SweepList, ReleaseOne, SweepDone,
        SweepAttemptFails, CompensationAttemptFails, DeleteRevision, RestorePreimage,
        MarkCompensated, UnpublishAttemptFails, GiveUp, HandOverStep, SupersedeList,
        MarkSuperseded, RetryHandOver, Concluded
  <2>2. CASE Aside \/ (\E l \in Drivers : MergeRows(l)) \/ \E ask \in Shocks : FoldInLate(ask)
    BY <2>2 DEF Aside, MergeRows, FoldInLate, runVars
  <2>3. CASE WritingStep
    BY <1>2, <2>3
    DEF WritingStep, Snapshot, SnapshotPreimage, SnapshotFails, PublishToCube, FailPublish, Fail,
        EndRun, PostCommitment, MarkCommitted, CommitAttemptFails, runVars
  <2> QED
    BY <2>1, <2>2, <2>3, StepCases
<1>3. CASE ~MarkPublished
  <2>1. /\ ledger[<<payload, c>>].state # "RELEASED"
        /\ c \notin todo => ledger[<<payload, c>>].state = "RESERVED"
    BY <1>2, <1>3 DEF FundInv, Posted
  <2>2. /\ ledger'[<<payload, c>>].state # "RELEASED"
        /\ c \notin todo => ledger'[<<payload, c>>].state = "RESERVED"
    BY <1>0, <1>2, <1>3, <2>1, LedgerMoves DEF Posts, Deletes
  <2>3. ASSUME c \notin todo', c \in todo PROVE ledger'[<<payload, c>>].state = "RESERVED"
    <3>1. CASE PostCommitment
      <4>1. c = NextPost /\ L!Reserve(<<payload, c>>, rev)
        BY <2>3, <3>1 DEF PostCommitment, ServiceKey
      <4>2. ledger'[<<payload, c>>].state # "NONE"
        BY <1>0, <4>1, ReserveLeavesIt
      <4>3. ledger'[<<payload, c>>].state \in {"NONE", "RESERVED", "RELEASED"}
        BY <1>0, NextType DEF TypeOK, L!LedgerTypeOK, L!Commitment
      <4> QED
        BY <2>2, <4>2, <4>3
    <3>2. CASE Aside \/ \E l \in Drivers : MergeRows(l)
      BY <2>3, <3>2 DEF Aside, MergeRows, tryVars
    <3>3. CASE \/ Ahead \/ Dropped \/ Request \/ EnsureTarget \/ RollbackStep \/ HandOverStep
               \/ \E ask \in Shocks : FoldInLate(ask)
      BY <1>2, <1>3, <3>3, RequestIs
      DEF Ahead, Dropped, EnsureTarget, RollbackStep, SweepList, ReleaseOne, SweepDone,
          SweepAttemptFails, DeleteRevision, RestorePreimage, MarkCompensated,
          UnpublishAttemptFails, GiveUp, HandOverStep, SupersedeList, MarkSuperseded,
          RetryHandOver, SupersedeAttemptFails, Concluded, FoldInLate
    <3>4. CASE WritingStep /\ ~PostCommitment
      BY <1>2, <1>3, <2>3, <3>4
      DEF WritingStep, Snapshot, SnapshotPreimage, SnapshotFails, PublishToCube, FailPublish,
          MarkCommitted, CommitAttemptFails, TypeOK
    <3> QED
      BY <3>1, <3>2, <3>3, <3>4, StepCases
  <2> QED
    BY <1>2, <1>3, <2>2, <2>3
<1> QED
  BY <1>1, <1>3

LEMMA EnterWriting ==
  ASSUME TypeOK, [Next]_vars, pc' = "commit" \/ Compensating'
  PROVE  rev' = rev /\ (pc \in {"mark", "commit"} \/ Compensating)
<1> USE DEF Compensating
<1>1. CASE Aside \/ (\E l \in Drivers : MergeRows(l)) \/ \E ask \in Shocks : FoldInLate(ask)
  BY <1>1 DEF Aside, MergeRows, FoldInLate, runVars
<1>2. CASE Ahead \/ Dropped \/ Request \/ EnsureTarget \/ HandOverStep
  BY <1>2, RequestIs
  DEF Ahead, Dropped, Takes, EnsureTarget, EndRun, HandOverStep, SupersedeList, MarkSuperseded,
      RetryHandOver, Concluded
<1>3. CASE WritingStep
  BY <1>3
  DEF WritingStep, Snapshot, SnapshotPreimage, SnapshotFails, PublishToCube, MarkPublished,
      FailPublish, Fail, EndRun, PostCommitment, MarkCommitted, CommitAttemptFails, runVars
<1>4. CASE RollbackStep
  <2>1. CASE \E c \in Categories : ReleaseOne(c)
    BY <2>1 DEF ReleaseOne, runVars
  <2>2. CASE ~\E c \in Categories : ReleaseOne(c)
    BY <1>4, <2>2
    DEF RollbackStep, SweepList, SweepDone, SweepAttemptFails, CompensationAttemptFails,
        DeleteRevision, RestorePreimage, MarkCompensated, UnpublishAttemptFails, GiveUp, EndRun,
        runVars
  <2> QED
    BY <2>1, <2>2
<1> QED
  BY <1>1, <1>2, <1>3, <1>4, StepCases

(***************************************************************************)
(* A settled revision stays settled until a newer one, settled itself,     *)
(* takes over.                                                             *)
(***************************************************************************)
LEMMA SettledStays ==
  ASSUME TypeOK, RowInv, [Next]_vars, NEW q \in Revisions, Settled(q)
  PROVE  Settled(q)' \/ (MarkSuperseded /\ q = Oldest)
<1>1. pubState[q] = "COMMITTED" /\ ~(rev = q /\ (pc = "commit" \/ Compensating))
  BY DEF Settled
<1>2. pubState'[q] = "COMMITTED" \/ (MarkSuperseded /\ q = Oldest)
  <2>1. GiveUp => Compensating
    BY DEF GiveUp, Compensating
  <2> QED
    BY <1>1, <2>1, StateMoves DEF RowInv, OwnRow, Compensating
<1>3. ~(rev' = q /\ (pc' = "commit" \/ Compensating'))
  BY <1>1, EnterWriting DEF RowInv, OwnRow
<1> QED
  BY <1>2, <1>3 DEF Settled

LEMMA HandOverSettles ==
  ASSUME TypeOK, RowInv, [Next]_vars, pc = "releasing", pc' # "idle"
  PROVE  Settled(rev)' /\ rev' = rev
<1>1. rev' = rev
  <2>1. ~Request
    BY RequestIs
  <2> QED
    BY <2>1, RunKeeps
<1>2. rev \in Revisions /\ Settled(rev)
  BY DEF TypeOK, RowInv, OwnRow, HandOver, Settled, Compensating
<1>3. MarkSuperseded => rev # Oldest
  BY OldestIsNotOwn DEF MarkSuperseded, RowInv, OwnRow
<1>4. \A q \in Revisions : Settled(q) => Settled(q)' \/ (MarkSuperseded /\ q = Oldest)
  BY SettledStays
<1>5. PICK q \in Revisions : q = rev /\ Settled(q)
  BY <1>2
<1>6. Settled(q)'
  BY <1>3, <1>4, <1>5
<1> QED
  BY <1>1, <1>5, <1>6 DEF Settled

LEMMA ReplacedStays ==
  ASSUME TypeOK, RowInv, [Next]_vars, NEW r \in Revisions, Replaced(r)
  PROVE  Replaced(r)'
<1>1. PICK q \in Revisions : r < q /\ Settled(q)
  BY DEF Replaced
<1>2. CASE Settled(q)'
  BY <1>1, <1>2 DEF Replaced
<1>3. CASE MarkSuperseded /\ q = Oldest
  <2>1. pc = "releasing" /\ pc' = "supersede" /\ rev \in Revisions
    BY <1>3 DEF MarkSuperseded, TypeOK
  <2>2. q < rev
    BY <1>3, <2>1, OldestIsNotOwn DEF RowInv, OwnRow
  <2>3. r < rev
    BY <1>1, <2>1, <2>2, SettlementAssumption DEF Revisions
  <2>4. PICK n \in Revisions : n = rev
    BY <2>1
  <2>5. rev' = n /\ Settled(rev)'
    BY <2>1, <2>4, HandOverSettles
  <2>6. Settled(n)'
    BY <2>5 DEF Settled
  <2> QED
    BY <2>3, <2>4, <2>6 DEF Replaced
<1> QED
  BY <1>1, <1>2, <1>3, SettledStays

LEMMA FundedNext ==
  ASSUME TypeOK, RowInv, ReleaseInv, FundInv, ~LateFoldIn, [Next]_vars,
         NEW r \in Revisions, pubState'[r] = "COMMITTED"
  PROVE  Funded(r)'
<1>0. pubShocks[r] \in Shocks
  BY DEF TypeOK
<1>1. ASSUME Holding(pubShocks[r]) = Categories, pubState[r] # "NONE",
             \A c \in Categories : ~Deletes(pubShocks[r], c)
      PROVE  Funded(r)'
  <2>1. pubShocks'[r] = pubShocks[r]
    BY <1>1, TakenStays
  <2>2. \A c \in Categories : ledger'[<<pubShocks[r], c>>].state = "RESERVED"
    BY <1>0, <1>1, LedgerMoves DEF Posts, Holding
  <2> QED
    BY <2>1, <2>2 DEF Funded, Holding
<1>2. CASE pubState[r] # "COMMITTED"
  <2>1. r = rev /\ pc = "commit" /\ todo = {} /\ pubState[r] # "NONE"
    BY <1>2, StateMoves DEF RowInv, OwnRow
  <2>2. \A c \in Categories : ledger[<<payload, c>>].state = "RESERVED"
    BY <2>1 DEF FundInv, Posted
  <2>3. Holding(pubShocks[r]) = Categories
    BY <2>1, <2>2 DEF ReleaseInv, OwnPayload, Holding
  <2> QED
    BY <1>1, <2>1, <2>3 DEF Deletes
<1>3. CASE pubState[r] = "COMMITTED"
  <2>1. CASE r \in raised
    BY <2>1, RunKeeps DEF Funded
  <2>2. CASE Replaced(r)
    BY <2>2, ReplacedStays DEF Funded
  <2>3. CASE rev = r /\ Compensating
    <3>1. CASE Compensating' /\ rev' = rev
      BY <2>3, <3>1 DEF Funded
    <3>2. CASE r \in raised'
      BY <3>2 DEF Funded
    <3>3. (Compensating' /\ rev' = rev) \/ r \in raised'
      <4> USE DEF Compensating, runVars
      <4>1. CASE RollbackStep
        <5>1. CASE \E c \in Categories : ReleaseOne(c)
          BY <2>3, <5>1 DEF ReleaseOne
        <5>2. CASE MarkCompensated
          BY <1>3, <2>3, <5>2 DEF MarkCompensated, TypeOK
        <5>3. CASE GiveUp
          BY <2>3, <5>3 DEF GiveUp, EndRun
        <5>4. CASE \/ SweepList \/ SweepDone \/ SweepAttemptFails \/ DeleteRevision
                   \/ RestorePreimage \/ UnpublishAttemptFails
          BY <2>3, <5>4
          DEF SweepList, SweepDone, SweepAttemptFails, CompensationAttemptFails,
              DeleteRevision, RestorePreimage, UnpublishAttemptFails
        <5> QED
          BY <4>1, <5>1, <5>2, <5>3, <5>4 DEF RollbackStep
      <4>2. CASE Aside \/ (\E l \in Drivers : MergeRows(l)) \/ \E ask \in Shocks : FoldInLate(ask)
        BY <2>3, <4>2 DEF Aside, MergeRows, FoldInLate
      <4>3. CASE \/ Ahead \/ Dropped \/ Request \/ EnsureTarget \/ WritingStep \/ HandOverStep
        BY <2>3, <4>3, RequestIs
        DEF Ahead, Dropped, EnsureTarget, WritingStep, Snapshot, SnapshotPreimage, SnapshotFails,
            PublishToCube, MarkPublished, FailPublish, PostCommitment, MarkCommitted,
            CommitAttemptFails, HandOverStep, SupersedeList, MarkSuperseded, RetryHandOver,
            SupersedeAttemptFails, Concluded
      <4> QED
        BY <4>1, <4>2, <4>3, StepCases
    <3> QED
      BY <3>1, <3>2, <3>3
  <2>4. ASSUME Holding(pubShocks[r]) = Categories, NEW c \in Categories, Deletes(pubShocks[r], c)
        PROVE  Funded(r)'
    <3>1. ReleaseOne(c) /\ pc' = pc /\ rev' = rev /\ rev \in Revisions
      BY <2>4 DEF Deletes, ReleaseOne, runVars, TypeOK
    <3>2. CASE pc = "sweeping"
      <4>1. pubShocks[rev] = pubShocks[r] /\ keyOpen[rev]
        BY <2>4, <3>2 DEF Deletes, Prefix, ReleaseInv, OwnPayload, RowInv, OwnRow
      <4>2. r = rev
        BY <1>3, <3>1, <4>1, OwnKeys DEF FundInv
      <4> QED
        BY <3>1, <3>2, <4>2 DEF Funded, Compensating
    <3>3. CASE pc = "releasing"
      <4>1. pubShocks[Oldest] = pubShocks[r] /\ Oldest \in Revisions /\ Oldest < rev
            /\ pubState[Oldest] = "COMMITTED"
        BY <2>4, <3>3, OldestIsNotOwn DEF Deletes, Prefix, RowInv, OwnRow, Committed
      <4>2. r = Oldest
        BY <1>3, <4>1, OwnKeys DEF FundInv, ClosedUnpublished
      <4>3. PICK n \in Revisions : n = rev
        BY <3>1
      <4>4. rev' = n /\ Settled(rev)'
        BY <3>1, <3>3, <4>3, HandOverSettles
      <4>5. Settled(n)'
        BY <4>4 DEF Settled
      <4>6. r < n
        BY <4>1, <4>2, <4>3
      <4> QED
        BY <4>5, <4>6 DEF Funded, Replaced
    <3> QED
      BY <2>4, <3>2, <3>3 DEF Deletes
  <2> QED
    BY <1>1, <1>3, <2>1, <2>2, <2>3, <2>4 DEF FundInv, Funded, Committed
<1> QED
  BY <1>2, <1>3

LEMMA FundNext ==
  ASSUME TypeOK, RowInv, ReleaseInv, FundInv, ~LateFoldIn, ~Repeats, [Next]_vars
  PROVE  FundInv'
<1>1. OneOpenKey' /\ ClosedUnpublished'
  BY KeysNext DEF FundInv
<1>2. Posted'
  BY PostedNext
<1>3. \A r \in Revisions : pubState'[r] = "COMMITTED" => Funded(r)'
  BY FundedNext
<1> QED
  BY <1>1, <1>2, <1>3 DEF FundInv, Committed

LEMMA FundInvAlways ==
  ASSUME ~LateFoldIn, ~Repeats
  PROVE  Spec => [](PublishedInv /\ ReleaseInv /\ FundInv)
<1>1. PublishedInv /\ ReleaseInv /\ FundInv /\ [Next]_vars => (PublishedInv /\ ReleaseInv /\ FundInv)'
  BY PublishedInvNext, ReleaseNext, FundNext DEF PublishedInv
<1>2. Init => PublishedInv /\ ReleaseInv /\ FundInv
  BY PublishedInvInit, ReleaseInit, FundInit
<1> QED
  BY <1>1, <1>2, PTL DEF Spec

LEMMA FundedIsNeverUnfunded == TypeOK /\ FundInv => NeverUnfunded
<1> SUFFICES ASSUME TypeOK, FundInv, Committed # {}
             PROVE  LET r == Newest(Committed) IN
                    Holding(pubShocks[r]) = Categories \/ r \in raised \/ (rev = r /\ Compensating)
  BY DEF NeverUnfunded
<1> DEFINE r == Newest(Committed)
<1>1. Committed \subseteq 1 .. MaxRevision /\ Committed \subseteq Revisions
  BY SettlementAssumption DEF Committed, Revisions
<1>2. r \in Committed /\ \A q \in Committed : q <= r
  BY <1>1, NewestIn
<1>3. ~Replaced(r)
  <2>1. ASSUME NEW q \in Revisions, r < q, Settled(q) PROVE FALSE
    <3>1. q \in Committed /\ q \in Int /\ r \in Int
      BY <1>1, <1>2, <2>1, SettlementAssumption DEF Settled, Committed, Revisions
    <3> QED
      BY <1>2, <2>1, <3>1
  <2> QED
    BY <2>1 DEF Replaced
<1> QED
  BY <1>2, <1>3 DEF FundInv, Funded

(***************************************************************************)
(* For every number of drivers, revisions, categories and retries: the     *)
(* revision the plan stands at is never left without its budget, at any    *)
(* moment of a commit, a roll-back or a hand-over, as long as no shock set *)
(* is asked for again once its keys were used up and none is folded in     *)
(* late.                                                                   *)
(***************************************************************************)
THEOREM NeverUnfundedAlways ==
  ASSUME ~LateFoldIn, ~Repeats
  PROVE  Spec => []NeverUnfunded
<1>1. PublishedInv /\ ReleaseInv /\ FundInv => NeverUnfunded
  BY FundedIsNeverUnfunded DEF PublishedInv
<1> QED
  BY <1>1, FundInvAlways, PTL

----------------------------------------------------------------------------
(***************************************************************************)
(* The roll-back.  What the pre-image saves is enough to show again what   *)
(* the run found, at every step between the publish and the end of the     *)
(* compensation, line by line: a row to go back to, a line that was empty, *)
(* or a line the run did not write.                                        *)
(***************************************************************************)
Saved(l) == {p[2] : p \in {x \in preimage[rev] : x[1] = l}}
VisibleAt(l) == IF cube[l] = {} THEN "HOLE" ELSE ValueAt(l, Newest(cube[l]))

SavedOnce == \A r \in Revisions : preimage[r] # {} => version[r] = "LOCKED"

FoundAsShown ==
  /\ pc # "idle" => shown = [l \in Drivers |-> shown[l]]
  /\ pc \in Drafting \cup {"ensure"} => \A l \in Drivers : VisibleAt(l) = shown[l]

SavedWhole ==
  /\ pc \in {"compute", "saving", "parked", "verify"} => preimage[rev] = {}
  /\ pc = "preimage" => preimage[rev] \in {{}, Overwritten}
  /\ pc = "publish" => preimage[rev] = Overwritten

GoesBack(l, n) ==
  /\ Saved(l) = {n} /\ ValueAt(l, n) = shown[l]
  /\ \A r \in cube[l] : r = rev \/ r <= n
  /\ pc = "unmark" => n \in cube[l]
WasEmpty(l) == Saved(l) = {} /\ shown[l] = "HOLE" /\ cube[l] \subseteq {rev}
Untouched(l) == Saved(l) = {} /\ rev \notin cube[l] /\ VisibleAt(l) = shown[l]

Restorable(l) ==
  (\E n \in (1 .. MaxRevision) \ {rev} : GoesBack(l, n)) \/ WasEmpty(l) \/ Untouched(l)

CanRestore == pc \in Writing => \A l \in Drivers : Restorable(l)

RestoreInv == SavedOnce /\ FoundAsShown /\ SavedWhole /\ CanRestore

LEMMA RestoreInit == Init => RestoreInv
BY DEF Init, RestoreInv, SavedOnce, FoundAsShown, SavedWhole, CanRestore, Nothing, Drafting, Writing

(* What a line shows changes with a publish or a roll-back alone.          *)
LEMMA RowIsTaken ==
  ASSUME TypeOK, RowInv, GateInv, NEW l \in Drivers, NEW r \in cube[l], r \in Revisions
  PROVE  pubState[r] # "NONE"
BY DEF GateInv, CubeIsAgreed, Agreed, RowInv, RowsTaken

LEMMA SavedSame ==
  ASSUME TypeOK, [Next]_vars, ~Snapshot
  PROVE  preimage' = preimage
<1>1. CASE ~CubeStep /\ ~Verify
  BY <1>1, OtherSteps DEF KeepsTheRun, cubeVars
<1>2. CASE \/ Verify \/ PublishToCube \/ DeleteRevision \/ RestorePreimage
           \/ \E l \in Drivers : MergeRows(l)
  BY <1>2 DEF Verify, PublishToCube, DeleteRevision, RestorePreimage, MergeRows, cubeVars
<1> QED
  BY <1>1, <1>2 DEF CubeStep

LEMMA CubeSame ==
  ASSUME TypeOK, [Next]_vars, ~PublishToCube, ~DeleteRevision, ~RestorePreimage, NEW l \in Drivers
  PROVE  cube'[l] = cube[l] \/ (cube[l] # {} /\ cube'[l] = {Newest(cube[l])})
<1>1. CASE ~CubeStep /\ ~Verify
  BY <1>1, OtherSteps DEF KeepsTheRun, cubeVars
<1>2. CASE Verify \/ Snapshot
  BY <1>2 DEF Verify, Snapshot, SnapshotPreimage, SnapshotFails, cubeVars
<1>3. ASSUME NEW k \in Drivers, MergeRows(k)
      PROVE  cube'[l] = cube[l] \/ (cube[l] # {} /\ cube'[l] = {Newest(cube[l])})
  BY <1>3, MergeKeepsNewest DEF TypeOK
<1> QED
  BY <1>1, <1>2, <1>3 DEF CubeStep

LEMMA NewestOfOne ==
  ASSUME NEW n \in 1 .. MaxRevision
  PROVE  Newest({n}) = n
BY NewestIn

LEMMA NewestSame ==
  ASSUME TypeOK, [Next]_vars, ~PublishToCube, ~DeleteRevision, ~RestorePreimage, NEW l \in Drivers
  PROVE  /\ (cube'[l] = {}) <=> (cube[l] = {})
         /\ cube[l] # {} => Newest(cube'[l]) = Newest(cube[l])
<1>1. CASE cube'[l] = cube[l]
  BY <1>1
<1>2. CASE cube[l] # {} /\ cube'[l] = {Newest(cube[l])}
  <2>1. Newest(cube[l]) \in 1 .. MaxRevision
    BY <1>2, NewestIn DEF TypeOK
  <2> QED
    BY <1>2, <2>1, NewestOfOne
<1> QED
  BY <1>1, <1>2, CubeSame

LEMMA VisibleSame ==
  ASSUME TypeOK, RowInv, GateInv, [Next]_vars, ~PublishToCube, ~DeleteRevision, ~RestorePreimage,
         NEW l \in Drivers
  PROVE  VisibleAt(l)' = VisibleAt(l)
<1>1. CASE cube[l] = {}
  BY <1>1, NewestSame DEF VisibleAt
<1>2. CASE cube[l] # {}
  <2>1. Newest(cube[l]) \in cube[l]
    BY <1>2, NewestIn DEF TypeOK
  <2>2. Newest(cube[l]) \in Revisions => pubShocks'[Newest(cube[l])] = pubShocks[Newest(cube[l])]
    BY <2>1, RowIsTaken, TakenStays
  <2> QED
    BY <1>2, <2>2, NewestSame DEF VisibleAt, ValueAt
<1> QED
  BY <1>1, <1>2

LEMMA SavedOnceNext ==
  ASSUME TypeOK, GateInv, SavedOnce, [Next]_vars
  PROVE  SavedOnce'
<1> SUFFICES ASSUME NEW r \in Revisions, preimage'[r] # {} PROVE version'[r] = "LOCKED"
  BY DEF SavedOnce
<1>1. PICK p \in preimage'[r] : TRUE
  OBVIOUS
<1>2. version[r] = "LOCKED"
  <2>1. CASE preimage[r] # {}
    BY <2>1 DEF SavedOnce
  <2>2. CASE pc = "preimage" /\ r = rev
    BY <2>2 DEF GateInv, RunIsAgreed, PastTheGate, Agreed
  <2> QED
    BY <1>1, <2>1, <2>2, SavedMoves
<1> QED
  BY <1>2, VersionMoves DEF Moves, GateInv

(* The steps to a state in which the run has not written yet.              *)
LEMMA BeforeTheWrite ==
  ASSUME TypeOK, [Next]_vars, ~Request, pc' \in Drafting \cup {"ensure"}
  PROVE  /\ ~PublishToCube /\ ~DeleteRevision /\ ~RestorePreimage
         /\ \/ EnsureTarget
            \/ Ahead
            \/ Snapshot /\ pc = "preimage" /\ staged' = staged /\ cube' = cube
            \/ pc' = pc /\ preimage' = preimage /\ (pc # "compute" => staged' = staged)
<1> USE DEF Drafting
<1>1. ~PublishToCube /\ ~DeleteRevision /\ ~RestorePreimage
  BY DEF PublishToCube, DeleteRevision, RestorePreimage
<1>2. CASE Aside \/ (\E l \in Drivers : MergeRows(l)) \/ \E ask \in Shocks : FoldInLate(ask)
  BY <1>1, <1>2 DEF Aside, MergeRows, FoldInLate, draftVars, cubeVars
<1>3. CASE Dropped \/ HandOverStep \/ RollbackStep
  BY <1>3
  DEF Dropped, HandOverStep, SupersedeList, MarkSuperseded, RetryHandOver, Concluded,
      RollbackStep, SweepList, ReleaseOne, SweepDone, SweepAttemptFails, DeleteRevision,
      RestorePreimage, MarkCompensated, UnpublishAttemptFails, CompensationAttemptFails, GiveUp, EndRun
<1>4. CASE WritingStep
  <2>1. CASE Snapshot
    BY <1>1, <2>1 DEF Snapshot, SnapshotPreimage, SnapshotFails, draftVars
  <2>2. CASE ~Snapshot
    BY <1>4, <2>2
    DEF WritingStep, PublishToCube, MarkPublished, FailPublish, Fail, EndRun, PostCommitment,
        MarkCommitted, CommitAttemptFails
  <2> QED
    BY <2>1, <2>2
<1> QED
  BY <1>1, <1>2, <1>3, <1>4, StepCases

LEMMA FoundAsShownNext ==
  ASSUME TypeOK, RowInv, GateInv, FoundAsShown, [Next]_vars
  PROVE  FoundAsShown'
<1>1. CASE pc' # "idle" /\ ~Request
  <2>1. shown' = shown /\ pc # "idle"
    BY <1>1, RunKeeps
  <2>2. ASSUME pc' \in Drafting \cup {"ensure"}, NEW l \in Drivers
        PROVE  VisibleAt(l)' = shown'[l]
    <3>1. pc \in Drafting \cup {"ensure"}
      <4>1. CASE EnsureTarget \/ Ahead
        BY <2>2, <4>1 DEF EnsureTarget, Ahead, Drafting
      <4> QED
        BY <1>1, <2>2, <4>1, BeforeTheWrite DEF Drafting
    <3>2. VisibleAt(l)' = VisibleAt(l)
      BY <1>1, <2>2, BeforeTheWrite, VisibleSame
    <3> QED
      BY <2>1, <3>1, <3>2 DEF FoundAsShown
  <2> QED
    BY <2>1, <2>2 DEF FoundAsShown
<1>2. CASE Request
  <2>1. PICK ask \in Shocks : Begin(ask) \/ FoldIn(ask)
    BY <1>2 DEF Request
  <2>2. ASSUME NEW l \in Drivers PROVE VisibleAt(l)' = VisibleAt(l)
    <3>1. ~PublishToCube /\ ~DeleteRevision /\ ~RestorePreimage
      BY <1>2, RequestIs DEF PublishToCube, DeleteRevision, RestorePreimage
    <3> QED
      BY <3>1, VisibleSame
  <2>3. CASE Begin(ask)
    <3>1. shown' = [l \in Drivers |-> VisibleAt(l)]
      BY <2>3 DEF Begin, Visible, VisibleAt
    <3> QED
      BY <2>2, <3>1 DEF FoundAsShown
  <2>4. CASE FoldIn(ask)
    <3>1. shown' = shown /\ pc = "compute"
      BY <2>4 DEF FoldIn, endVars
    <3> QED
      BY <2>2, <3>1 DEF FoundAsShown, Drafting
  <2> QED
    BY <2>1, <2>3, <2>4
<1>3. CASE pc' = "idle"
  BY <1>3 DEF FoundAsShown, Drafting
<1> QED
  BY <1>1, <1>2, <1>3

(* What the snapshot would save changes only with what the run staged.     *)
LEMMA OverwrittenSame ==
  ASSUME TypeOK, [Next]_vars, rev \in Revisions, rev' = rev, staged' = staged,
         ~PublishToCube, ~DeleteRevision, ~RestorePreimage
  PROVE  Overwritten' = Overwritten
<1>1. \A l \in Drivers : /\ (cube'[l] = {}) <=> (cube[l] = {})
                         /\ cube[l] # {} => Newest(cube'[l]) = Newest(cube[l])
  BY NewestSame
<1>2. staged[rev] \subseteq Drivers
  BY DEF TypeOK
<1>3. {k \in staged'[rev'] : cube'[k] # {}} = {k \in staged[rev] : cube[k] # {}}
  BY <1>1, <1>2
<1>4. \A l \in {k \in staged[rev] : cube[k] # {}} : <<l, Newest(cube'[l])>> = <<l, Newest(cube[l])>>
  BY <1>1, <1>2
<1> QED
  BY <1>3, <1>4 DEF Overwritten

(* At most one pre-image is taken for a revision, and nobody adds to it.   *)
LEMMA SnapshotIsWhole ==
  ASSUME TypeOK, SavedWhole, ~PartialPreimage, Snapshot
  PROVE  /\ rev' = rev /\ rev \in Revisions
         /\ preimage'[rev] \in {{}, Overwritten}
         /\ pc' = "publish" => preimage'[rev] = Overwritten
         /\ pc' \in {"preimage", "publish"}
<1>0. rev \in Revisions /\ pc = "preimage"
  BY DEF Snapshot, SnapshotPreimage, SnapshotFails, TypeOK
<1>1. preimage[rev] \in {{}, Overwritten}
  BY <1>0 DEF SavedWhole
<1>2. preimage \in [Revisions -> SUBSET (Drivers \X (1 .. MaxRevision))]
  BY DEF TypeOK
<1>3. CASE SnapshotPreimage
  BY <1>0, <1>1, <1>2, <1>3 DEF SnapshotPreimage, runVars
<1>4. CASE SnapshotFails
  BY <1>0, <1>1, <1>2, <1>4 DEF SnapshotFails, runVars
<1> QED
  BY <1>3, <1>4 DEF Snapshot

LEMMA SavedWholeNext ==
  ASSUME TypeOK, SavedOnce, SavedWhole, ~PartialPreimage, [Next]_vars
  PROVE  SavedWhole'
<1>0. pc # "idle" => rev \in Revisions
  BY DEF TypeOK
<1>1. CASE Request
  BY <1>1, RequestIs DEF Takes, SavedWhole
<1>2. CASE ~Request /\ pc' \in Drafting
  <2>0. rev' = rev /\ pc # "idle" /\ ~PublishToCube /\ ~DeleteRevision /\ ~RestorePreimage
    BY <1>2, RunKeeps, BeforeTheWrite DEF Drafting
  <2>1. CASE EnsureTarget
    <3>1. pc' \in {"compute", "stopped"} /\ preimage' = preimage
          /\ (pc' = "compute" => version[rev] # "LOCKED")
      BY <1>2, <2>1 DEF EnsureTarget, EndRun, Drafting, cubeVars
    <3> QED
      BY <1>0, <2>0, <3>1 DEF SavedWhole, SavedOnce
  <2>2. CASE Ahead
    BY <2>0, <2>2 DEF Ahead, SavedWhole, cubeVars
  <2>3. CASE Snapshot /\ staged' = staged /\ cube' = cube
    <3>1. Overwritten' = Overwritten
      BY <2>0, <2>3 DEF Overwritten
    <3> QED
      BY <2>0, <2>3, <3>1, SnapshotIsWhole DEF SavedWhole
  <2>4. CASE pc' = pc /\ preimage' = preimage /\ (pc # "compute" => staged' = staged)
    <3>1. pc # "compute" => Overwritten' = Overwritten
      BY <1>0, <2>0, <2>4, OverwrittenSame
    <3> QED
      BY <2>0, <2>4, <3>1 DEF SavedWhole
  <2> QED
    BY <1>2, <2>1, <2>2, <2>3, <2>4, BeforeTheWrite
<1>3. CASE pc' \notin Drafting
  BY <1>3 DEF SavedWhole, Drafting
<1> QED
  BY <1>1, <1>2, <1>3

(* The publish writes over what the snapshot saved.                        *)
LEMMA PublishIsRestorable ==
  ASSUME PublishedInv, RestoreInv, PublishToCube, NEW l \in Drivers
  PROVE  Restorable(l)'
<1> USE DEF PublishedInv
<1>0. /\ pc = "publish" /\ pc' = "mark" /\ rev \in Revisions
      /\ UNCHANGED <<rev, pubShocks, preimage, shown>>
      /\ cube'[l] = IF l \in staged[rev] THEN cube[l] \cup {rev} ELSE cube[l]
  BY DEF PublishToCube, TypeOK, runVars, endVars, pubVars
<1>1. preimage[rev] = Overwritten /\ VisibleAt(l) = shown[l] /\ rev \notin cube[l]
  BY <1>0 DEF RestoreInv, SavedWhole, FoundAsShown, Drafting, RowsInv, NotYetWritten, Unwritten
<1>2. Saved(l)' = Saved(l)
  BY <1>0 DEF Saved
<1>3. CASE l \in staged[rev] /\ cube[l] # {}
  <2>1. PICK n \in cube[l] : n = Newest(cube[l]) /\ \A r \in cube[l] : r <= n
    BY <1>3, NewestIn DEF TypeOK
  <2>2. Saved(l) = {n}
    <3>1. <<l, n>> \in preimage[rev]
      BY <1>1, <1>3, <2>1 DEF Overwritten
    <3>2. \A x \in preimage[rev] : x[1] = l => x[2] = n
      BY <1>1, <2>1 DEF Overwritten
    <3> QED
      BY <3>1, <3>2 DEF Saved
  <2>3. n \in (1 .. MaxRevision) \ {rev}
    BY <1>1, <2>1 DEF TypeOK
  <2>4. ValueAt(l, n) = shown[l]
    BY <1>1, <1>3, <2>1 DEF VisibleAt
  <2>5. GoesBack(l, n)'
    BY <1>0, <1>2, <1>3, <2>1, <2>2, <2>4 DEF GoesBack, ValueAt
  <2> QED
    BY <1>0, <2>3, <2>5 DEF Restorable
<1>4. CASE l \in staged[rev] /\ cube[l] = {}
  <2>1. Saved(l) = {} /\ shown[l] = "HOLE"
    BY <1>1, <1>4 DEF Saved, Overwritten, VisibleAt
  <2> QED
    BY <1>0, <1>2, <1>4, <2>1 DEF Restorable, WasEmpty
<1>5. CASE l \notin staged[rev]
  <2>1. Saved(l) = {}
    BY <1>1, <1>5 DEF Saved, Overwritten
  <2>2. VisibleAt(l)' = VisibleAt(l)
    BY <1>0, <1>5 DEF VisibleAt, ValueAt
  <2> QED
    BY <1>0, <1>1, <1>2, <1>5, <2>1, <2>2 DEF Restorable, Untouched
<1> QED
  BY <1>3, <1>4, <1>5

(* Deleting and restoring take a line back; nothing else moves it.         *)
LEMMA RollbackRestores ==
  ASSUME PublishedInv, NEW l \in Drivers, Restorable(l), DeleteRevision \/ RestorePreimage
  PROVE  Restorable(l)'
<1> USE DEF PublishedInv
<1>0. /\ rev \in Revisions /\ UNCHANGED <<rev, pubShocks, preimage, shown>>
  BY DEF DeleteRevision, RestorePreimage, TypeOK, runVars, endVars, pubVars
<1>1. Saved(l)' = Saved(l)
  BY <1>0 DEF Saved
<1>2. /\ DeleteRevision => pc = "unpublish" /\ pc' = "restore" /\ cube'[l] = cube[l] \ {rev}
      /\ RestorePreimage => pc = "restore" /\ pc' = "unmark" /\ cube'[l] = cube[l] \cup Saved(l)
  BY DEF DeleteRevision, RestorePreimage, Saved
<1>3. ASSUME NEW n \in (1 .. MaxRevision) \ {rev}, GoesBack(l, n) PROVE GoesBack(l, n)'
  BY <1>0, <1>1, <1>2, <1>3 DEF GoesBack, ValueAt
<1>4. CASE WasEmpty(l)
  BY <1>0, <1>1, <1>2, <1>4 DEF WasEmpty, Restorable
<1>5. CASE Untouched(l)
  <2>1. cube'[l] = cube[l]
    BY <1>2, <1>5 DEF Untouched
  <2> QED
    BY <1>0, <1>1, <1>5, <2>1 DEF Untouched, Restorable, VisibleAt, ValueAt
<1> QED
  BY <1>0, <1>3, <1>4, <1>5 DEF Restorable

LEMMA StaysRestorable ==
  ASSUME PublishedInv, NEW l \in Drivers, Restorable(l), [Next]_vars, ~Request, pc \in Writing,
         pc' \in Writing, ~PublishToCube, ~DeleteRevision, ~RestorePreimage
  PROVE  Restorable(l)'
<1> USE DEF PublishedInv
<1>0. rev' = rev /\ shown' = shown /\ pubShocks' = pubShocks /\ preimage' = preimage /\ rev \in Revisions
  <2>1. ~Snapshot
    BY DEF Snapshot, SnapshotPreimage, SnapshotFails, Writing
  <2> QED
    BY <2>1, RunKeeps, KeysOpen, SavedSame DEF TypeOK, Writing
<1>1. Saved(l)' = Saved(l)
  BY <1>0 DEF Saved
<1>2. pc' = "unmark" => pc = "unmark"
  <2>1. CASE Aside \/ Ahead \/ Dropped \/ EnsureTarget \/ HandOverStep \/ WritingStep
             \/ (\E ask \in Shocks : FoldInLate(ask)) \/ \E k \in Drivers : MergeRows(k)
    BY <2>1
    DEF Aside, Ahead, Dropped, EnsureTarget, EndRun, HandOverStep, SupersedeList, MarkSuperseded,
        RetryHandOver, Concluded, FoldInLate, MergeRows, WritingStep, Snapshot, SnapshotPreimage,
        SnapshotFails, PublishToCube, MarkPublished, FailPublish, Fail, PostCommitment,
        MarkCommitted, CommitAttemptFails
  <2>2. CASE RollbackStep
    BY <2>2
    DEF RollbackStep, SweepList, ReleaseOne, SweepDone, SweepAttemptFails, MarkCompensated,
        UnpublishAttemptFails, CompensationAttemptFails, GiveUp, EndRun, DeleteRevision, RestorePreimage
  <2> QED
    BY <2>1, <2>2, StepCases
<1>3. cube'[l] = cube[l] \/ (cube[l] # {} /\ cube'[l] = {Newest(cube[l])})
  BY CubeSame
<1>4. cube[l] # {} => Newest(cube[l]) \in cube[l] /\ \A q \in cube[l] : q <= Newest(cube[l])
  BY NewestIn DEF TypeOK
<1>5. cube'[l] \subseteq cube[l]
  BY <1>3, <1>4
<1>6. ASSUME NEW n \in (1 .. MaxRevision) \ {rev}, GoesBack(l, n) PROVE GoesBack(l, n)'
  <2>1. ASSUME pc' = "unmark" PROVE n \in cube'[l]
    <3>1. n \in cube[l] /\ rev \notin cube[l]
      BY <1>2, <1>6, <2>1 DEF GoesBack, RowsInv, NotYetWritten
    <3>2. Newest(cube[l]) \in Int /\ n \in Int
      BY <3>1, <1>4 DEF TypeOK
    <3>3. Newest(cube[l]) = n
      BY <1>4, <1>6, <3>1, <3>2 DEF GoesBack
    <3> QED
      BY <1>3, <3>1, <3>3
  <2> QED
    BY <1>0, <1>1, <1>5, <1>6, <2>1 DEF GoesBack, ValueAt
<1>7. CASE WasEmpty(l)
  BY <1>0, <1>1, <1>5, <1>7 DEF WasEmpty, Restorable
<1>8. CASE Untouched(l)
  BY <1>0, <1>1, <1>5, <1>8, VisibleSame DEF Untouched, Restorable
<1> QED
  BY <1>0, <1>6, <1>7, <1>8 DEF Restorable

LEMMA CanRestoreNext ==
  ASSUME PublishedInv, RestoreInv, [Next]_vars
  PROVE  CanRestore'
<1> USE DEF PublishedInv
<1> SUFFICES ASSUME pc' \in Writing, NEW l \in Drivers PROVE Restorable(l)'
  BY DEF CanRestore
<1>1. ~Request
  BY RequestIs DEF Takes, Writing
<1>2. CASE PublishToCube
  BY <1>2, PublishIsRestorable
<1>3. CASE DeleteRevision \/ RestorePreimage
  BY <1>3, RollbackRestores DEF RestoreInv, CanRestore, DeleteRevision, RestorePreimage, Writing
<1>4. CASE ~PublishToCube /\ ~DeleteRevision /\ ~RestorePreimage
  <2>1. pc \in Writing
    <3>1. CASE Aside \/ Ahead \/ Dropped \/ EnsureTarget \/ HandOverStep
               \/ (\E ask \in Shocks : FoldInLate(ask)) \/ \E k \in Drivers : MergeRows(k)
      BY <3>1
      DEF Aside, Ahead, Dropped, EnsureTarget, EndRun, HandOverStep, SupersedeList, MarkSuperseded,
          RetryHandOver, Concluded, FoldInLate, MergeRows, Writing
    <3>2. CASE WritingStep
      BY <1>4, <3>2
      DEF WritingStep, Snapshot, SnapshotPreimage, SnapshotFails, MarkPublished, FailPublish, Fail,
          EndRun, PostCommitment, MarkCommitted, CommitAttemptFails, Writing
    <3>3. CASE RollbackStep
      BY <3>3
      DEF RollbackStep, SweepList, ReleaseOne, SweepDone, SweepAttemptFails, MarkCompensated,
          UnpublishAttemptFails, GiveUp, DeleteRevision, RestorePreimage, Writing
    <3> QED
      BY <1>1, <3>1, <3>2, <3>3, StepCases
  <2>2. Restorable(l)
    BY <2>1 DEF RestoreInv, CanRestore
  <2> QED
    BY <1>1, <1>4, <2>1, <2>2, StaysRestorable
<1> QED
  BY <1>2, <1>3, <1>4

LEMMA RestoredIsShown ==
  ASSUME PublishedInv, RestoreInv, pc = "unmark"
  PROVE  Visible = shown
<1> USE DEF PublishedInv
<1>1. ASSUME NEW l \in Drivers PROVE VisibleAt(l) = shown[l]
  <2>1. rev \notin cube[l] /\ Restorable(l)
    BY DEF RowsInv, NotYetWritten, RestoreInv, CanRestore, Writing
  <2>2. ASSUME NEW n \in (1 .. MaxRevision) \ {rev}, GoesBack(l, n) PROVE VisibleAt(l) = shown[l]
    <3>1. n \in cube[l] /\ \A r \in cube[l] : r <= n
      BY <2>1, <2>2 DEF GoesBack
    <3>2. Newest(cube[l]) \in cube[l] /\ n <= Newest(cube[l])
      BY <3>1, NewestIn DEF TypeOK
    <3>3. Newest(cube[l]) \in Int /\ n \in Int
      BY <3>1, <3>2 DEF TypeOK
    <3>4. Newest(cube[l]) = n
      BY <3>1, <3>2, <3>3
    <3> QED
      BY <2>2, <3>1, <3>4 DEF VisibleAt, GoesBack
  <2>3. CASE WasEmpty(l)
    <3>1. cube[l] = {}
      BY <2>1, <2>3 DEF WasEmpty
    <3> QED
      BY <2>3, <3>1 DEF WasEmpty, VisibleAt
  <2> QED
    BY <2>1, <2>2, <2>3 DEF Restorable, Untouched
<1>2. Visible = [l \in Drivers |-> VisibleAt(l)]
  BY DEF Visible, VisibleAt
<1> QED
  BY <1>1, <1>2 DEF RestoreInv, FoundAsShown

LEMMA RestoreNext ==
  ASSUME PublishedInv, RestoreInv, ~PartialPreimage, [Next]_vars
  PROVE  RestoreInv'
BY SavedOnceNext, FoundAsShownNext, SavedWholeNext, CanRestoreNext DEF PublishedInv, RestoreInv

LEMMA RestoreInvAlways ==
  ASSUME ~PartialPreimage
  PROVE  Spec => [](PublishedInv /\ RestoreInv)
<1>1. PublishedInv /\ RestoreInv /\ [Next]_vars => (PublishedInv /\ RestoreInv)'
  BY PublishedInvNext, RestoreNext
<1>2. Init => PublishedInv /\ RestoreInv
  BY PublishedInvInit, RestoreInit
<1> QED
  BY <1>1, <1>2, PTL DEF Spec

(***************************************************************************)
(* As long as a copy of the pre-image that fails has copied all of it or   *)
(* none: a revision that is recorded COMPENSATED leaves every line of the  *)
(* cube as its run found it, whichever rows were merged away, whatever was *)
(* folded in late and however often the roll-back was retried.             *)
(***************************************************************************)
THEOREM CompensationRestoresAlways ==
  ASSUME ~PartialPreimage
  PROVE  Spec => CompensationRestores
<1>1. PublishedInv /\ RestoreInv => [MarkCompensated => Visible = shown]_vars
  BY RestoredIsShown DEF MarkCompensated
<1> QED
  BY <1>1, RestoreInvAlways, PTL DEF CompensationRestores

----------------------------------------------------------------------------
(***************************************************************************)
(* Agreement.  Before holds the committed revisions but the one the open   *)
(* run committed itself; while no run failed aloud there is at most one,   *)
(* below the revision being made, and the plan goes back to it or past it. *)
(***************************************************************************)
Before == {q \in Committed : ~(q = rev /\ pc \in Writing \cup HandOver)}
Standing == IF Before = {} THEN Nothing ELSE pubShocks[Newest(Before)]

AboveBefore ==
  pc # "idle" /\ (pc = "ensure" => pubState[rev] = "RESERVED") => \A q \in Before : q < rev

SupersededBelow == \A r \in Revisions : pubState[r] = "SUPERSEDED" => Replaced(r)

Cumulative == pc \in Drafting \cup {"ensure"} => Moved(Standing) \subseteq Moved(payload)

AllStaged ==
  pc \in Drafting \ {"stopped", "compute"} => Moved(payload) \subseteq staged[rev]

OneBefore == \A r, q \in Before : r = q

NothingHalfDone ==
  \A r \in Revisions :
    /\ pubState[r] # "COMPENSATION_FAILED"
    /\ pubState[r] = "PUBLISHED" => rev = r /\ (pc = "commit" \/ Compensating)

CubeStands ==
  /\ pc = "idle" => Visible = Standing
  /\ pc \notin {"idle"} \cup HandOver => shown = Standing
  /\ pc \in {"mark", "commit"} \cup HandOver => Visible = pubShocks[rev]

AgreeInv ==
  /\ SupersededBelow
  /\ raised = {} => AboveBefore /\ Cumulative /\ AllStaged /\ OneBefore /\ NothingHalfDone /\ CubeStands

LEMMA BeforeIsCommitted ==
  ASSUME RowInv, pc \notin (Writing \ {"mark"}) \cup HandOver
  PROVE  Before = Committed /\ Standing = CommittedShocks
<1>1. Before = Committed
  BY DEF Before, Committed, RowInv, OwnRow, Drafting
<1> QED
  BY <1>1 DEF Standing, CommittedShocks

LEMMA AgreeInit == Init => AgreeInv
<1> SUFFICES ASSUME Init PROVE AgreeInv
  OBVIOUS
<1>1. Committed = {} /\ Before = {}
  BY DEF Init, Before, Committed
<1>2. 1 \in 1 .. MaxRevision /\ 1 \notin Revisions
  BY SettlementAssumption DEF Revisions
<1>3. Visible = Nothing
  BY <1>2, NewestOfOne DEF Init, Visible, ValueAt, Nothing
<1> QED
  BY <1>1, <1>3
  DEF Init, AgreeInv, SupersededBelow, AboveBefore, Cumulative, AllStaged, OneBefore,
      NothingHalfDone, CubeStands, Standing, Drafting, HandOver

LEMMA BeforeIn ==
  ASSUME Before # {}
  PROVE  Newest(Before) \in Before /\ Before \subseteq Revisions
<1>1. Before \subseteq 1 .. MaxRevision /\ Before \subseteq Revisions
  BY SettlementAssumption DEF Before, Committed, Revisions
<1> QED
  BY <1>1, NewestIn

LEMMA StandingSame ==
  ASSUME TypeOK, RowInv, [Next]_vars, Before' = Before
  PROVE  Standing' = Standing
<1>1. CASE Before = {}
  BY <1>1 DEF Standing, Nothing
<1>2. CASE Before # {}
  <2>1. Newest(Before) \in Revisions /\ pubState[Newest(Before)] # "NONE"
    BY <1>2, BeforeIn DEF Before, Committed
  <2>2. pubShocks'[Newest(Before)] = pubShocks[Newest(Before)]
    BY <2>1, TakenStays
  <2> QED
    BY <1>2, <2>2 DEF Standing
<1> QED
  BY <1>1, <1>2

(***************************************************************************)
(* What the plan goes back to changes at the end of a hand-over alone, if  *)
(* no run fails aloud.                                                     *)
(***************************************************************************)
LEMMA CommittedMoves ==
  ASSUME TypeOK, RowInv, [Next]_vars, ~MarkSuperseded, NEW q \in Revisions,
         ~(q = rev /\ pc \in Writing)
  PROVE  (pubState'[q] = "COMMITTED") <=> (pubState[q] = "COMMITTED")
<1>1. GiveUp => pc \in Writing
  BY DEF GiveUp, Writing
<1> QED
  BY <1>1, StateMoves DEF Writing

LEMMA BeforeMoves ==
  ASSUME TypeOK, RowInv, AboveBefore, [Next]_vars, raised' = {}
  PROVE  \/ Before' = Before
         \/ MarkSuperseded /\ Before' \subseteq Before
         \/ Concluded /\ Before = {} /\ Before' = {rev} /\ rev \in Revisions
<1> USE DEF Writing, HandOver
<1>0. Before' = {q \in Committed' : ~(q = rev' /\ pc' \in Writing \cup HandOver)}
      /\ Committed = {r \in Revisions : pubState[r] = "COMMITTED"}
      /\ Committed' = {r \in Revisions : pubState'[r] = "COMMITTED"}
      /\ (pc # "idle" => rev \in Revisions)
  BY DEF Before, Committed, TypeOK
<1>1. CASE MarkSuperseded
  <2>1. pc = "releasing" /\ pc' = "supersede" /\ rev' = rev
    BY <1>1 DEF MarkSuperseded, runVars
  <2>2. Committed' \subseteq Committed
    BY <1>0, <1>1 DEF MarkSuperseded, TypeOK
  <2>3. Before' \subseteq Before
    BY <1>0, <2>1, <2>2 DEF Before
  <2> QED
    BY <1>1, <2>3
<1>2. CASE Concluded
  <2>1. pc \in HandOver /\ pc' = "idle" /\ pubState' = pubState /\ (raised' = raised => Earlier = {})
    BY <1>2 DEF Concluded, pubVars
  <2>2. Earlier = {}
    BY <1>2 DEF Concluded
  <2>3. \A q \in Before : q \in Committed /\ q < rev
    BY <2>1 DEF AboveBefore, Before
  <2>4. Before = {}
    BY <2>2, <2>3 DEF Earlier
  <2>5. Before' = Committed /\ rev \in Committed
    BY <1>0, <2>1 DEF RowInv, OwnRow
  <2>6. Before' = {rev}
    BY <2>1, <2>4, <2>5 DEF Before
  <2> QED
    BY <1>0, <1>2, <2>1, <2>4, <2>6
<1>3. CASE ~MarkSuperseded /\ ~Concluded
  <2>1. \A q \in Revisions : ~(q = rev /\ pc \in Writing) =>
          ((pubState'[q] = "COMMITTED") <=> (pubState[q] = "COMMITTED"))
    BY <1>3, CommittedMoves
  <2>2. CASE pc \in Writing
    <3>1. \/ pc' \in Writing \cup HandOver /\ rev' = rev
          \/ pubState'[rev] # "COMMITTED"
      <4>1. CASE Aside \/ Ahead \/ Dropped \/ Request \/ EnsureTarget \/ HandOverStep
                 \/ (\E ask \in Shocks : FoldInLate(ask)) \/ \E l \in Drivers : MergeRows(l)
        BY <2>2, <4>1, RequestIs
        DEF Aside, Ahead, Dropped, EnsureTarget, HandOverStep, SupersedeList, MarkSuperseded,
            RetryHandOver, SupersedeAttemptFails, Concluded, FoldInLate, MergeRows, runVars
      <4>2. CASE WritingStep
        BY <2>2, <4>2
        DEF WritingStep, Snapshot, SnapshotPreimage, SnapshotFails, PublishToCube, MarkPublished,
            FailPublish, Fail, EndRun, PostCommitment, MarkCommitted, CommitAttemptFails, runVars
      <4>3. CASE RollbackStep
        BY <1>0, <2>2, <4>3
        DEF RollbackStep, SweepList, ReleaseOne, SweepDone, SweepAttemptFails, DeleteRevision,
            RestorePreimage, MarkCompensated, UnpublishAttemptFails, CompensationAttemptFails,
            GiveUp, EndRun, runVars, TypeOK
      <4> QED
        BY <4>1, <4>2, <4>3, StepCases
    <3>2. pc' \notin Writing \cup HandOver \/ rev' = rev
      BY <3>1, RunKeeps, RequestIs DEF Takes
    <3>3. \A q \in Revisions : q \in Before' <=> q \in Before
      BY <1>0, <2>1, <2>2, <3>1, <3>2 DEF Before
    <3> QED
      BY <1>0, <3>3 DEF Before
  <2>3. CASE pc \in HandOver
    <3>1. pc' \in HandOver /\ rev' = rev
      <4>1. CASE Aside \/ Ahead \/ Dropped \/ Request \/ EnsureTarget \/ HandOverStep
                 \/ (\E ask \in Shocks : FoldInLate(ask)) \/ \E l \in Drivers : MergeRows(l)
        BY <1>3, <2>3, <4>1, RequestIs
        DEF Aside, Ahead, Dropped, EnsureTarget, HandOverStep, SupersedeList,
            RetryHandOver, SupersedeAttemptFails, Fail, EndRun, FoldInLate, MergeRows, runVars
      <4>2. CASE WritingStep
        BY <2>3, <4>2
        DEF WritingStep, Snapshot, SnapshotPreimage, SnapshotFails, PublishToCube, MarkPublished,
            FailPublish, PostCommitment, MarkCommitted, CommitAttemptFails
      <4>3. CASE RollbackStep
        BY <1>0, <2>3, <4>3
        DEF RollbackStep, SweepList, ReleaseOne, SweepDone, SweepAttemptFails, DeleteRevision,
            RestorePreimage, MarkCompensated, UnpublishAttemptFails, GiveUp, runVars
      <4> QED
        BY <4>1, <4>2, <4>3, StepCases
    <3>2. \A q \in Revisions : q \in Before' <=> q \in Before
      BY <1>0, <2>1, <2>3, <3>1 DEF Before
    <3> QED
      BY <1>0, <3>2 DEF Before
  <2>4. CASE pc \notin Writing \cup HandOver
    <3>1. Before = Committed /\ Committed' = Committed
      BY <1>0, <2>1, <2>4 DEF Before
    <3>2. pc' \in Writing \cup HandOver => pc' = "mark" /\ rev' = rev /\ pubState[rev] # "COMMITTED"
      <4>1. CASE Aside \/ Ahead \/ Dropped \/ Request \/ EnsureTarget \/ HandOverStep
                 \/ (\E ask \in Shocks : FoldInLate(ask)) \/ \E l \in Drivers : MergeRows(l)
        BY <2>4, <4>1, RequestIs
        DEF Takes, Aside, Ahead, Dropped, EnsureTarget, EndRun, HandOverStep, SupersedeList,
            MarkSuperseded, RetryHandOver, SupersedeAttemptFails, Concluded, FoldInLate, MergeRows
      <4>2. CASE WritingStep
        BY <2>4, <4>2
        DEF WritingStep, Snapshot, SnapshotPreimage, SnapshotFails, PublishToCube, MarkPublished,
            FailPublish, PostCommitment, MarkCommitted, CommitAttemptFails, runVars, RowInv, OwnRow, Drafting,
            Fail, EndRun
      <4>3. CASE RollbackStep
        BY <2>4, <4>3
        DEF RollbackStep, SweepList, ReleaseOne, SweepDone, SweepAttemptFails, DeleteRevision,
            RestorePreimage, MarkCompensated, UnpublishAttemptFails, GiveUp
      <4> QED
        BY <4>1, <4>2, <4>3, StepCases
    <3>3. \A q \in Revisions : q \in Before' <=> q \in Before
      BY <1>0, <3>1, <3>2
    <3> QED
      BY <1>0, <3>1, <3>3
  <2> QED
    BY <2>2, <2>3, <2>4
<1> QED
  BY <1>1, <1>2, <1>3

LEMMA AboveTaken ==
  ASSUME NEW q \in Taken
  PROVE  q < NextRevision
<1>1. Taken \subseteq 1 .. MaxRevision /\ Taken \subseteq Nat /\ Taken # {}
  BY SettlementAssumption DEF Taken, Revisions
<1>2. q <= Newest(Taken) /\ Newest(Taken) \in Taken
  BY <1>1, NewestIn
<1>3. Newest(Taken) \in Nat /\ q \in Nat
  BY <1>1, <1>2
<1>4. NextRevision = Newest(Taken) + 1
  BY <1>1 DEF NextRevision
<1> QED
  BY <1>2, <1>3, <1>4

LEMMA AboveBeforeNext ==
  ASSUME TypeOK, RowInv, AboveBefore, ~Overtaken, [Next]_vars, raised' = {}
  PROVE  AboveBefore'
<1> SUFFICES ASSUME pc' # "idle", pc' = "ensure" => pubState'[rev'] = "RESERVED", NEW q \in Before'
             PROVE  q < rev'
  BY DEF AboveBefore
<1>1. q \in Before
  BY BeforeMoves DEF Concluded
<1>2. CASE Request
  <2>1. PICK s \in Shocks, r \in Revisions : Takes(s, r) /\ (Finds(s, r) \/ Makes(s, r))
    BY <1>2, RequestIs
  <2>2. q \in Committed /\ q \in Taken
    BY <1>1 DEF Before, Committed, Taken
  <2>3. CASE Finds(s, r)
    BY <2>1, <2>2, <2>3 DEF Finds, Takes
  <2>4. CASE Makes(s, r)
    BY <2>1, <2>2, <2>4, AboveTaken DEF Takes, Makes
  <2> QED
    BY <2>1, <2>3, <2>4
<1>3. CASE ~Request
  <2>1. rev' = rev /\ pc # "idle"
    BY <1>3, RunKeeps
  <2>2. ASSUME pc = "ensure" PROVE pubState[rev] = "RESERVED"
    <3>1. CASE EnsureTarget
      BY <3>1 DEF EnsureTarget, EndRun
    <3>2. CASE Aside \/ (\E ask \in Shocks : FoldInLate(ask)) \/ \E l \in Drivers : MergeRows(l)
      BY <2>1, <2>2, <3>2 DEF Aside, FoldInLate, MergeRows, pubVars
    <3>3. CASE Ahead \/ Dropped \/ WritingStep \/ RollbackStep \/ HandOverStep
      BY <2>2, <3>3
      DEF Ahead, Dropped, WritingStep, Snapshot, SnapshotPreimage, SnapshotFails, PublishToCube,
          MarkPublished, FailPublish, PostCommitment, MarkCommitted, CommitAttemptFails,
          RollbackStep, SweepList, ReleaseOne, SweepDone, SweepAttemptFails, DeleteRevision,
          RestorePreimage, MarkCompensated, UnpublishAttemptFails, GiveUp, HandOverStep,
          SupersedeList, MarkSuperseded, RetryHandOver, SupersedeAttemptFails, Concluded
    <3> QED
      BY <1>3, <3>1, <3>2, <3>3, StepCases
  <2> QED
    BY <1>1, <2>1, <2>2 DEF AboveBefore
<1> QED
  BY <1>2, <1>3

LEMMA SupersededBelowNext ==
  ASSUME TypeOK, RowInv, SupersededBelow, [Next]_vars
  PROVE  SupersededBelow'
<1> SUFFICES ASSUME NEW r \in Revisions, pubState'[r] = "SUPERSEDED" PROVE Replaced(r)'
  BY DEF SupersededBelow
<1>1. CASE pubState[r] = "SUPERSEDED"
  BY <1>1, ReplacedStays DEF SupersededBelow
<1>2. CASE r = Oldest /\ MarkSuperseded
  <2>1. pc = "releasing" /\ pc' # "idle" /\ rev \in Revisions
    BY <1>2 DEF MarkSuperseded, TypeOK
  <2>2. r < rev
    BY <1>2, <2>1, OldestIsNotOwn DEF RowInv, OwnRow
  <2>3. PICK n \in Revisions : n = rev
    BY <2>1
  <2>4. rev' = n /\ Settled(rev)'
    BY <2>1, <2>3, HandOverSettles
  <2>5. Settled(n)'
    BY <2>4 DEF Settled
  <2> QED
    BY <2>2, <2>3, <2>5 DEF Replaced
<1> QED
  BY <1>1, <1>2, StateMoves

LEMMA DraftingBefore ==
  ASSUME TypeOK, RowInv, AboveBefore, [Next]_vars, raised' = {},
         pc' \in Drafting \cup {"ensure"} \/ pc' \in Writing
  PROVE  Before' = Before /\ Standing' = Standing
BY BeforeMoves, StandingSame DEF MarkSuperseded, Concluded, Drafting, Writing

LEMMA CumulativeNext ==
  ASSUME TypeOK, RowInv, AboveBefore, Cumulative, ~LateFoldIn, [Next]_vars, raised' = {}
  PROVE  Cumulative'
<1> SUFFICES ASSUME pc' \in Drafting \cup {"ensure"} PROVE Moved(Standing') \subseteq Moved(payload')
  BY DEF Cumulative, Moved
<1>1. Standing' = Standing
  BY DraftingBefore
<1>2. CASE Request
  <2>1. PICK ask \in Shocks : Begin(ask) \/ FoldIn(ask)
    BY <1>2 DEF Request
  <2>2. CASE Begin(ask)
    <3>1. Standing = CommittedShocks
      BY <2>2, BeforeIsCommitted DEF Begin, Writing, HandOver
    <3>2. payload' = MergeShocks(CommittedShocks, ask)
      BY <2>2 DEF Begin, ReserveRevision
    <3> QED
      BY <1>1, <3>1, <3>2 DEF MergeShocks, Moved
  <2>3. CASE FoldIn(ask)
    <3>1. pc = "compute" /\ payload' = MergeShocks(payload, ask)
      BY <2>3 DEF FoldIn, ReserveRevision
    <3>2. Moved(payload) \subseteq Moved(payload')
      BY <3>1 DEF MergeShocks, Moved
    <3> QED
      BY <1>1, <3>1, <3>2 DEF Cumulative, Drafting
  <2> QED
    BY <2>1, <2>2, <2>3
<1>3. CASE ~Request
  <2>1. payload' = payload
    BY <1>3, RunKeeps DEF Drafting
  <2>2. pc \in Drafting \cup {"ensure"}
    BY <1>3, BeforeTheWrite DEF EnsureTarget, Ahead, Drafting
  <2> QED
    BY <1>1, <2>1, <2>2 DEF Cumulative
<1> QED
  BY <1>2, <1>3

LEMMA AllStagedNext ==
  ASSUME TypeOK, RowInv, AllStaged, ~LateFoldIn, [Next]_vars
  PROVE  AllStaged'
<1> SUFFICES ASSUME pc' \in Drafting \ {"stopped", "compute"} PROVE Moved(payload') \subseteq staged'[rev']
  BY DEF AllStaged, Moved
<1>1. ~Request
  BY RequestIs DEF Takes, Drafting
<1>2. payload' = payload /\ rev' = rev
  BY <1>1, RunKeeps DEF Drafting
<1>3. ~EnsureTarget
  BY DEF EnsureTarget, EndRun, Drafting
<1>4. Moved(payload) \subseteq staged[rev] /\ staged' = staged
  BY <1>1, <1>3, BeforeTheWrite DEF AllStaged, Ahead, Drafting
<1> QED
  BY <1>2, <1>4

LEMMA NothingHalfDoneNext ==
  ASSUME TypeOK, RowInv, NothingHalfDone, [Next]_vars, raised' = {}
  PROVE  NothingHalfDone'
<1> SUFFICES ASSUME NEW r \in Revisions
             PROVE  /\ pubState'[r] # "COMPENSATION_FAILED"
                    /\ pubState'[r] = "PUBLISHED" => rev' = r /\ (pc' = "commit" \/ Compensating')
  BY DEF NothingHalfDone
<1>1. ~GiveUp
  BY DEF GiveUp, EndRun
<1>2. pubState'[r] # "COMPENSATION_FAILED"
  BY <1>1, StateMoves DEF NothingHalfDone
<1>3. ASSUME pubState'[r] = "PUBLISHED" PROVE rev' = r /\ (pc' = "commit" \/ Compensating')
  <2>0. r = rev /\ pc \in Writing
    BY <1>3, StateMoves DEF NothingHalfDone, Writing, Compensating
  <2>1. CASE Aside \/ Ahead \/ Dropped \/ Request \/ EnsureTarget \/ HandOverStep
             \/ (\E ask \in Shocks : FoldInLate(ask)) \/ \E l \in Drivers : MergeRows(l)
    <3>1. pc' = pc /\ rev' = rev /\ pubState' = pubState
      BY <2>0, <2>1, RequestIs
      DEF Aside, Ahead, Dropped, EnsureTarget, HandOverStep, SupersedeList, MarkSuperseded,
          RetryHandOver, SupersedeAttemptFails, Concluded, FoldInLate, MergeRows, runVars, pubVars, Writing
    <3> QED
      BY <1>3, <2>0, <3>1 DEF NothingHalfDone, Compensating
  <2>2. CASE WritingStep
    BY <1>3, <2>0, <2>2
    DEF WritingStep, Snapshot, SnapshotPreimage, SnapshotFails, PublishToCube, MarkPublished,
        FailPublish, Fail, EndRun, PostCommitment, MarkCommitted, CommitAttemptFails, runVars,
        Compensating, Writing, TypeOK
  <2>3. CASE RollbackStep
    <3>1. rev \in Revisions
      BY <2>0 DEF TypeOK, Writing
    <3>2. ~MarkCompensated
      BY <1>3, <2>0, <3>1 DEF MarkCompensated, TypeOK
    <3>3. CASE \E c \in Categories : ReleaseOne(c)
      <4>1. pc' = pc /\ pc = "sweeping" /\ rev' = rev
        BY <2>0, <3>3 DEF ReleaseOne, runVars, Writing
      <4> QED
        BY <2>0, <4>1 DEF Compensating
    <3> QED
      BY <1>1, <2>0, <2>3, <3>2, <3>3
      DEF RollbackStep, SweepList, SweepDone, SweepAttemptFails, DeleteRevision, RestorePreimage,
          UnpublishAttemptFails, CompensationAttemptFails, runVars, Compensating
  <2> QED
    BY <2>1, <2>2, <2>3, StepCases
<1> QED
  BY <1>2, <1>3

(* The publish leaves every line at the value of the revision made: over   *)
(* each staged line its row is the newest, and no other line was moved.    *)
LEMMA PublishShows ==
  ASSUME PublishedInv, ReleaseInv, RestoreInv, AgreeInv, raised = {}, PublishToCube
  PROVE  Visible' = pubShocks'[rev']
<1> USE DEF PublishedInv, AgreeInv
<1>0. /\ pc = "publish" /\ rev \in Revisions /\ pubState[rev] = "RESERVED"
      /\ rev' = rev /\ pubShocks' = pubShocks /\ payload = pubShocks[rev] /\ payload \in Shocks
      /\ \A l \in Drivers : cube'[l] = IF l \in staged[rev] THEN cube[l] \cup {rev} ELSE cube[l]
  BY DEF PublishToCube, TypeOK, runVars, pubVars, RowInv, OwnRow, Drafting, ReleaseInv, OwnPayload
<1>1. ASSUME NEW r \in Committed PROVE r < rev
  BY <1>0, <1>1, BeforeIsCommitted DEF AboveBefore, Writing, HandOver
<1>2. ASSUME NEW l \in Drivers, NEW r \in cube[l] PROVE r < rev
  <2>1. r = 1 \/ pubState[r] \in {"COMMITTED", "SUPERSEDED"}
    BY <1>0, <1>2 DEF RowsInv, CubeIsAccounted, Accounted, Written
  <2>2. r \in 1 .. MaxRevision /\ (r = 1 \/ r \in Revisions) /\ 1 < rev
    BY <1>0, <1>2, SettlementAssumption DEF TypeOK, Revisions
  <2>3. CASE r \in Revisions /\ pubState[r] = "COMMITTED"
    BY <1>1, <2>3 DEF Committed
  <2>4. CASE r \in Revisions /\ pubState[r] = "SUPERSEDED"
    <3>1. PICK q \in Revisions : r < q /\ pubState[q] = "COMMITTED"
      BY <2>4 DEF SupersededBelow, Replaced, Settled
    <3>2. q < rev
      BY <1>1, <3>1 DEF Committed
    <3> QED
      BY <1>0, <2>4, <3>1, <3>2, SettlementAssumption DEF Revisions
  <2> QED
    BY <2>1, <2>2, <2>3, <2>4
<1>3. ASSUME NEW l \in Drivers PROVE VisibleAt(l)' = payload[l]
  <2>1. CASE l \in staged[rev]
    <3>1. cube'[l] = cube[l] \cup {rev} /\ cube'[l] \subseteq 1 .. MaxRevision /\ cube'[l] # {}
      <4>1. cube[l] \subseteq 1 .. MaxRevision /\ rev \in 1 .. MaxRevision
        BY <1>0, SettlementAssumption DEF TypeOK, Revisions
      <4> QED
        BY <1>0, <2>1, <4>1
    <3>2. Newest(cube'[l]) \in cube'[l] /\ rev <= Newest(cube'[l])
      BY <3>1, NewestIn
    <3>3. Newest(cube'[l]) = rev
      <4>1. ASSUME Newest(cube'[l]) \in cube[l] PROVE FALSE
        <5>1. Newest(cube'[l]) < rev /\ Newest(cube'[l]) \in Int /\ rev \in Int
          BY <1>0, <1>2, <4>1, SettlementAssumption DEF TypeOK, Revisions
        <5> QED
          BY <3>2, <5>1
      <4> QED
        BY <3>1, <3>2, <4>1
    <3> QED
      BY <1>0, <3>1, <3>3 DEF VisibleAt, ValueAt
  <2>2. CASE l \notin staged[rev]
    <3>1. VisibleAt(l)' = VisibleAt(l)
      BY <1>0, <2>2 DEF VisibleAt, ValueAt
    <3>2. VisibleAt(l) = Standing[l]
      BY <1>0 DEF RestoreInv, FoundAsShown, Drafting, CubeStands, HandOver
    <3>3. l \notin Moved(payload) /\ l \notin Moved(Standing)
      BY <1>0, <2>2 DEF AllStaged, Cumulative, Drafting
    <3> QED
      BY <3>1, <3>2, <3>3 DEF Moved
  <2> QED
    BY <2>1, <2>2
<1>4. Visible' = [l \in Drivers |-> VisibleAt(l)']
  BY DEF Visible, VisibleAt
<1>5. payload = [l \in Drivers |-> payload[l]]
  BY <1>0 DEF Shocks
<1> QED
  BY <1>0, <1>3, <1>4, <1>5

LEMMA AllVisibleSame ==
  ASSUME PublishedInv, [Next]_vars, ~PublishToCube, ~DeleteRevision, ~RestorePreimage
  PROVE  Visible' = Visible
<1>1. \A l \in Drivers : VisibleAt(l)' = VisibleAt(l)
  BY VisibleSame DEF PublishedInv
<1>2. Visible = [l \in Drivers |-> VisibleAt(l)] /\ Visible' = [l \in Drivers |-> VisibleAt(l)']
  BY DEF Visible, VisibleAt
<1> QED
  BY <1>1, <1>2

LEMMA FoundIsVisible ==
  ASSUME FoundAsShown, pc \in Drafting \cup {"ensure"}
  PROVE  Visible = shown
<1>1. Visible = [l \in Drivers |-> VisibleAt(l)]
  BY DEF Visible, VisibleAt
<1> QED
  BY <1>1 DEF FoundAsShown, Drafting

(* The cube when a run ends, when it begins, and while it is under way.    *)
LEMMA CubeStandsAtEnd ==
  ASSUME PublishedInv, ReleaseInv, RestoreInv, AgreeInv, [Next]_vars, raised' = {}, pc' = "idle"
  PROVE  Visible' = Standing'
<1> USE DEF PublishedInv
<1>0. raised = {}
  BY RunKeeps
<1>1. ~PublishToCube /\ ~DeleteRevision /\ ~RestorePreimage /\ ~MarkSuperseded /\ ~Request
  BY RequestIs DEF PublishToCube, DeleteRevision, RestorePreimage, MarkSuperseded, Takes
<1>2. Visible' = Visible
  BY <1>1, AllVisibleSame
<1>3. CASE Concluded /\ Before = {} /\ Before' = {rev} /\ rev \in Revisions
  <2>1. Newest(Before') = rev
    BY <1>3, NewestOfOne, SettlementAssumption DEF Revisions
  <2>2. Visible = pubShocks[rev] /\ pubShocks' = pubShocks
    BY <1>0, <1>3 DEF AgreeInv, CubeStands, Concluded, HandOver, pubVars
  <2> QED
    BY <1>2, <1>3, <2>1, <2>2 DEF Standing
<1>4. CASE Before' = Before
  <2>1. Standing' = Standing
    BY <1>4, StandingSame
  <2>2. CASE pc = "idle"
    BY <1>0, <1>2, <2>1, <2>2 DEF AgreeInv, CubeStands
  <2>3. CASE pc \in Drafting \cup {"ensure"}
    BY <1>0, <1>2, <2>1, <2>3, FoundIsVisible
    DEF RestoreInv, AgreeInv, CubeStands, Drafting, HandOver
  <2>4. CASE pc = "unmark"
    BY <1>0, <1>2, <2>1, <2>4, RestoredIsShown DEF AgreeInv, CubeStands, HandOver
  <2>5. pc = "idle" \/ pc \in Drafting \cup {"ensure"} \/ pc = "unmark" \/ Concluded
    <3>1. CASE Aside \/ Ahead \/ Dropped \/ EnsureTarget \/ HandOverStep
               \/ (\E ask \in Shocks : FoldInLate(ask)) \/ \E l \in Drivers : MergeRows(l)
      BY <3>1
      DEF Aside, Ahead, Dropped, EnsureTarget, HandOverStep, SupersedeList, MarkSuperseded,
          RetryHandOver, FoldInLate, MergeRows, Drafting
    <3>2. CASE WritingStep
      BY <3>2
      DEF WritingStep, Snapshot, SnapshotPreimage, SnapshotFails, PublishToCube, MarkPublished,
          FailPublish, Fail, EndRun, PostCommitment, MarkCommitted, CommitAttemptFails
    <3>3. CASE RollbackStep
      BY <3>3
      DEF RollbackStep, SweepList, ReleaseOne, SweepDone, SweepAttemptFails, DeleteRevision,
          RestorePreimage, MarkCompensated, UnpublishAttemptFails, CompensationAttemptFails,
          GiveUp, EndRun
    <3> QED
      BY <1>1, <3>1, <3>2, <3>3, StepCases
  <2>6. CASE Concluded
    <3>1. pubState' = pubState /\ pc \in HandOver /\ rev \in Revisions
      BY <2>6 DEF Concluded, pubVars, HandOver, TypeOK
    <3>2. rev \in Before' /\ rev \notin Before
      BY <3>1 DEF Before, Committed, RowInv, OwnRow, Writing, HandOver
    <3> QED
      BY <1>4, <3>2
  <2> QED
    BY <2>2, <2>3, <2>4, <2>5, <2>6
<1> QED
  BY <1>0, <1>1, <1>3, <1>4, BeforeMoves DEF AgreeInv

LEMMA CubeStandsNext ==
  ASSUME PublishedInv, ReleaseInv, RestoreInv, AgreeInv, ~LateFoldIn, [Next]_vars, raised' = {}
  PROVE  CubeStands'
<1> USE DEF PublishedInv
<1>0. raised = {}
  BY RunKeeps
<1>1. pc' = "idle" => Visible' = Standing'
  BY CubeStandsAtEnd
<1>2. ASSUME pc' \notin {"idle"} \cup HandOver PROVE shown' = Standing'
  <2>1. Standing' = Standing
    <3>1. Before' = Before
      BY <1>0, <1>2, BeforeMoves DEF AgreeInv, Concluded, MarkSuperseded, HandOver
    <3> QED
      BY <3>1, StandingSame
  <2>2. CASE Request
    <3>1. PICK ask \in Shocks : Begin(ask) \/ FoldIn(ask)
      BY <2>2 DEF Request
    <3>2. CASE Begin(ask)
      BY <1>0, <2>1, <3>2 DEF Begin, AgreeInv, CubeStands
    <3>3. CASE FoldIn(ask)
      BY <1>0, <2>1, <3>3 DEF FoldIn, AgreeInv, CubeStands, HandOver, endVars
    <3> QED
      BY <3>1, <3>2, <3>3
  <2>3. CASE ~Request
    <3>1. shown' = shown /\ pc # "idle"
      BY <1>2, <2>3, RunKeeps
    <3>2. pc \notin HandOver
      <4>1. CASE Aside \/ Ahead \/ Dropped \/ EnsureTarget \/ HandOverStep
                 \/ (\E ask \in Shocks : FoldInLate(ask)) \/ \E l \in Drivers : MergeRows(l)
        BY <1>2, <4>1
        DEF Aside, Ahead, Dropped, EnsureTarget, HandOverStep, SupersedeList, MarkSuperseded,
            RetryHandOver, Concluded, FoldInLate, MergeRows, HandOver
      <4>2. CASE WritingStep
        BY <4>2
        DEF WritingStep, Snapshot, SnapshotPreimage, SnapshotFails, PublishToCube, MarkPublished,
            FailPublish, PostCommitment, MarkCommitted, CommitAttemptFails, HandOver
      <4>3. CASE RollbackStep
        BY <1>2, <4>3
        DEF RollbackStep, SweepList, ReleaseOne, SweepDone, SweepAttemptFails, DeleteRevision,
            RestorePreimage, MarkCompensated, UnpublishAttemptFails, GiveUp, HandOver
      <4> QED
        BY <2>3, <4>1, <4>2, <4>3, StepCases
    <3> QED
      BY <1>0, <2>1, <3>1, <3>2 DEF AgreeInv, CubeStands
  <2> QED
    BY <2>2, <2>3
<1>3. ASSUME pc' \in {"mark", "commit"} \cup HandOver PROVE Visible' = pubShocks'[rev']
  <2>1. ~Request /\ ~DeleteRevision /\ ~RestorePreimage
    BY <1>3, RequestIs DEF Takes, DeleteRevision, RestorePreimage, HandOver
  <2>2. CASE PublishToCube
    BY <1>0, <2>2, PublishShows
  <2>3. CASE ~PublishToCube
    <3>1. Visible' = Visible /\ rev' = rev /\ pubShocks' = pubShocks
      BY <1>3, <2>1, <2>3, AllVisibleSame, RunKeeps, KeysOpen DEF HandOver
    <3>2. pc \in {"mark", "commit"} \cup HandOver
      <4>1. CASE Aside \/ Ahead \/ Dropped \/ EnsureTarget \/ HandOverStep
                 \/ (\E ask \in Shocks : FoldInLate(ask)) \/ \E l \in Drivers : MergeRows(l)
        BY <1>3, <4>1
        DEF Aside, Ahead, Dropped, EnsureTarget, EndRun, HandOverStep, SupersedeList, MarkSuperseded,
            RetryHandOver, SupersedeAttemptFails, Concluded, FoldInLate, MergeRows, HandOver
      <4>2. CASE WritingStep
        BY <1>3, <2>3, <4>2
        DEF WritingStep, Snapshot, SnapshotPreimage, SnapshotFails, MarkPublished, FailPublish,
            Fail, EndRun, PostCommitment, MarkCommitted, CommitAttemptFails, HandOver
      <4>3. CASE RollbackStep
        BY <1>3, <4>3
        DEF RollbackStep, SweepList, ReleaseOne, SweepDone, SweepAttemptFails, DeleteRevision,
            RestorePreimage, MarkCompensated, UnpublishAttemptFails, CompensationAttemptFails,
            GiveUp, EndRun, HandOver
      <4> QED
        BY <2>1, <4>1, <4>2, <4>3, StepCases
    <3> QED
      BY <1>0, <3>1, <3>2 DEF AgreeInv, CubeStands
  <2> QED
    BY <2>2, <2>3
<1> QED
  BY <1>1, <1>2, <1>3 DEF CubeStands

LEMMA AgreeNext ==
  ASSUME PublishedInv, ReleaseInv, RestoreInv, AgreeInv, ~LateFoldIn, ~Overtaken, [Next]_vars
  PROVE  AgreeInv'
<1> USE DEF PublishedInv, AgreeInv
<1>1. SupersededBelow'
  BY SupersededBelowNext
<1>2. ASSUME raised' = {}
      PROVE  AboveBefore' /\ Cumulative' /\ AllStaged' /\ OneBefore' /\ NothingHalfDone' /\ CubeStands'
  <2>0. raised = {}
    BY <1>2, RunKeeps
  <2>1. AboveBefore'
    BY <1>2, <2>0, AboveBeforeNext
  <2>2. Cumulative' /\ AllStaged'
    BY <1>2, <2>0, CumulativeNext, AllStagedNext
  <2>3. OneBefore'
    BY <1>2, <2>0, BeforeMoves DEF OneBefore
  <2>4. NothingHalfDone'
    BY <1>2, <2>0, NothingHalfDoneNext
  <2>5. CubeStands'
    BY <1>2, CubeStandsNext
  <2> QED
    BY <2>1, <2>2, <2>3, <2>4, <2>5
<1> QED
  BY <1>1, <1>2

(***************************************************************************)
(* Between runs the one committed revision is what the cube shows, by      *)
(* CubeStands, and what the ledger holds: a reservation under any other    *)
(* key was made for a revision that is over, which holds nothing.          *)
(***************************************************************************)
LEMMA AgreeIsSurfacesAgree ==
  ASSUME PublishedInv, ReleaseInv, FundInv, AgreeInv
  PROVE  SurfacesAgree
<1> USE DEF PublishedInv, AgreeInv
<1> SUFFICES ASSUME pc = "idle", raised = {}
             PROVE  /\ Visible = CommittedShocks
                    /\ Reserved = IF Committed = {} THEN {} ELSE {CommittedShocks} \X Categories
  BY DEF SurfacesAgree
<1>1. Before = Committed /\ Standing = CommittedShocks
  BY BeforeIsCommitted DEF Writing, HandOver
<1>2. Visible = CommittedShocks
  BY <1>1 DEF CubeStands
<1>3. DOMAIN ledger = Shocks \X Categories
  BY DEF TypeOK, L!LedgerTypeOK
<1>4. Committed # {} => Newest(Committed) \in Committed
  BY <1>1, BeforeIn
<1>5. ASSUME NEW s \in Shocks, NEW c \in Categories, ledger[<<s, c>>].state = "RESERVED"
      PROVE  Committed # {} /\ s = CommittedShocks
  <2>1. PICK r \in Revisions : /\ r = ledger[<<s, c>>].rev /\ pubShocks[r] = s
                               /\ pubState[r] \notin {"NONE", "RESERVED"}
    BY <1>5 DEF ReleaseInv, MadeForItsKey
  <2>2. <<s, c>> \in L!HeldFor(r)
    BY <1>5, <2>1 DEF L!HeldFor
  <2>3. pubState[r] \notin {"COMPENSATED", "SUPERSEDED"}
    BY <2>2 DEF ReleaseInv, NothingStranded
  <2>4. pubState[r] \notin {"COMPENSATION_FAILED", "PUBLISHED"}
    BY DEF NothingHalfDone, Compensating
  <2>5. r \in Committed
    BY <2>1, <2>3, <2>4 DEF TypeOK, PubStates, Committed
  <2>6. r = Newest(Committed)
    BY <1>1, <1>4, <2>5 DEF OneBefore
  <2> QED
    BY <2>1, <2>5, <2>6 DEF CommittedShocks
<1>6. ASSUME Committed # {}, NEW c \in Categories
      PROVE  CommittedShocks \in Shocks /\ ledger[<<CommittedShocks, c>>].state = "RESERVED"
  <2>1. CommittedShocks = pubShocks[Newest(Committed)] /\ CommittedShocks \in Shocks
    BY <1>6, CommittedShocksType DEF CommittedShocks
  <2>2. Holding(CommittedShocks) = Categories
    BY <1>6, <2>1, FundedIsNeverUnfunded DEF NeverUnfunded, Compensating
  <2> QED
    BY <2>1, <2>2 DEF Holding
<1>7. Reserved = {k \in Shocks \X Categories : ledger[k].state = "RESERVED"}
  BY <1>3 DEF Reserved
<1>8. CASE Committed = {}
  BY <1>2, <1>5, <1>7, <1>8
<1>9. CASE Committed # {}
  BY <1>2, <1>5, <1>6, <1>7, <1>9
<1> QED
  BY <1>8, <1>9

LEMMA AgreeInvAlways ==
  ASSUME ~LateFoldIn, ~Repeats, ~PartialPreimage, ~Overtaken
  PROVE  Spec => [](PublishedInv /\ ReleaseInv /\ FundInv /\ RestoreInv /\ AgreeInv)
<1>1. ASSUME PublishedInv, ReleaseInv, FundInv, RestoreInv, AgreeInv, [Next]_vars
      PROVE  PublishedInv' /\ ReleaseInv' /\ FundInv' /\ RestoreInv' /\ AgreeInv'
  BY <1>1, PublishedInvNext, ReleaseNext, FundNext, RestoreNext, AgreeNext DEF PublishedInv
<1>2. Init => PublishedInv /\ ReleaseInv /\ FundInv /\ RestoreInv /\ AgreeInv
  BY PublishedInvInit, ReleaseInit, FundInit, RestoreInit, AgreeInit
<1> QED
  BY <1>1, <1>2, PTL DEF Spec

(***************************************************************************)
(* For every number of drivers, revisions, categories and retries, and     *)
(* with successors reopened: while no run has failed aloud, the cube and   *)
(* the ledger both stand between runs exactly where the latest committed   *)
(* revision put them.  The four ways it is known to fail are assumed away, *)
(* one flag each: with any one of them allowed TLC finds a run that ends   *)
(* in disagreement.                                                        *)
(***************************************************************************)
THEOREM SurfacesAgreeAlways ==
  ASSUME ~LateFoldIn, ~Repeats, ~PartialPreimage, ~Overtaken
  PROVE  Spec => []SurfacesAgree
BY AgreeInvAlways, AgreeIsSurfacesAgree, PTL
=============================================================================
