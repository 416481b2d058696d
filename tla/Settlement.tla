----------------------------- MODULE Settlement -----------------------------
(***************************************************************************)
(* One approved plan and the re-forecasts that are asked of it, from the   *)
(* reservation of a revision to the moment the cube and the commitment     *)
(* ledger agree again.                                                     *)
(*                                                                         *)
(* PlanRecomputeWorkflow (src/src/fpa_project/recompute/workflows.py) runs *)
(* under one workflow id per plan, so runs follow one another; what is     *)
(* concurrent with a run is the people who move its successor version in   *)
(* the governance store, and ClickHouse, which merges rows in its own      *)
(* time.  Every activity (recompute/activities.py) may fail at any point   *)
(* of an attempt, with its last write landed or not; after the attempts    *)
(* its retry policy allows, the workflow takes the error path.  Attempts   *)
(* are counted where the partial effects of one differ from those of the   *)
(* next; elsewhere an activity starts over from the state it left.         *)
(*                                                                         *)
(* The compute phase is one step per line here; ComputePhase models it.    *)
(***************************************************************************)
EXTENDS Naturals, FiniteSets

CONSTANTS
  Drivers,             \* drivers that can be moved; each has one plan line bound to it
  Values,              \* values a driver can be moved to
  Unmoved,             \* the driver is not in the shock set
  NumCategories,       \* (scenario, line type) pairs committed, in rollup order
  MaxRevision,         \* bound: revisions 2 .. MaxRevision are handed out
  CommitAttempts,      \* COMMITMENT retry policy (5 in the code)
  CompensationAttempts,\* COMPENSATION retry policy (30 in the code)
  Repeats,             \* may a shock set be asked for again once it was rolled
                       \* back or superseded?
  LateFoldIn,          \* may add_shock arrive between the last batch and the park?
  Reopening,           \* may a planner reopen the successor of a closed run?
  Overtaken,           \* may a reservation be taken up again below a revision that
                       \* was committed in the meantime?
  PartialPreimage      \* may the copy of the preimage fail between two months?

ASSUME SettlementAssumption ==
  /\ Unmoved \notin Values
  /\ NumCategories \in Nat \ {0}
  /\ MaxRevision \in Nat \ {0, 1}
  /\ CommitAttempts \in Nat \ {0}
  /\ CompensationAttempts \in Nat \ {0}
  /\ Repeats \in BOOLEAN /\ LateFoldIn \in BOOLEAN /\ Reopening \in BOOLEAN
  /\ Overtaken \in BOOLEAN /\ PartialPreimage \in BOOLEAN

Revisions  == 2 .. MaxRevision
Categories == 1 .. NumCategories
Shocks     == [Drivers -> Values \cup {Unmoved}]
Nothing    == [d \in Drivers |-> Unmoved]

VARIABLES
  pubState,   \* plan_publication.state, "NONE" while there is no row
  pubShocks,  \* plan_publication.shocks, whose hash is the row's idempotency key
  keyOpen,    \* FALSE once the key carries the ':closed:' suffix
  version,    \* plan_version.state of the successor that revision drafts into
  covenant,   \* plan_version.covenant_ok of that successor
  drafts,     \* plan_version_line rows of the successor, by line
  staged,     \* fact_plan_line_staged rows of the revision, by line
  cube,       \* fact_plan_line: cube[l] is the set of revisions with a row for line l
  preimage,   \* fact_plan_line_preimage rows saved for the revision: <<line, revision>>
  ledger,     \* the Commitment Service, by service key
  pc,         \* the step the run is at; "idle" when no run is open
  rev,        \* its revision
  target,     \* the revision whose successor it closes on failure, 0 before the first
  asked,      \* the drivers it was asked to move (_requested)
  payload,    \* the cumulative shock set it applies (payload.shocks)
  attempts,   \* failed attempts of the current activity
  todo,       \* categories the current attempt has still to post or to release
  lost,       \* the current attempt could not confirm every release
  raised,     \* history: revisions whose run failed for everyone to see
  shown       \* history: what the cube showed when the open run began

pubVars   == <<pubState, pubShocks, keyOpen>>
draftVars == <<version, covenant, drafts, staged>>
cubeVars  == <<cube, preimage>>
tryVars   == <<attempts, todo, lost>>
runVars   == <<rev, target, asked, payload>>
endVars   == <<raised, shown>>
vars == <<pubVars, draftVars, cubeVars, ledger, pc, tryVars, runVars, endVars>>

L == INSTANCE Ledger WITH Keys <- Shocks \X Categories

----------------------------------------------------------------------------
(***************************************************************************)
(* What the stores say.                                                    *)
(***************************************************************************)
Newest(S) == CHOOSE r \in S : \A q \in S : q <= r

Moved(s) == {d \in Drivers : s[d] # Unmoved}

(* merge_shocks: a request replaces the target of a driver already moved.  *)
MergeRequestOnly(published, request) == request   \* mutant: not cumulative

MergeShocks(published, request) ==
  [d \in Drivers |-> IF request[d] = Unmoved THEN published[d] ELSE request[d]]

Committed == {r \in Revisions : pubState[r] = "COMMITTED"}

CommittedShocks == IF Committed = {} THEN Nothing ELSE pubShocks[Newest(Committed)]

(* fact_plan_line FINAL: the row with the highest revision wins; a line    *)
(* whose newest row is revision 1 shows the plan as it was approved.       *)
ValueAt(l, r) == IF r \in Revisions THEN pubShocks[r][l] ELSE Unmoved
Visible == [l \in Drivers |-> IF cube[l] = {} THEN "HOLE" ELSE ValueAt(l, Newest(cube[l]))]

Taken == {r \in Revisions : pubState[r] # "NONE"}
NextRevision == IF Taken = {} THEN 2 ELSE Newest(Taken) + 1

(* A reservation that ended without a publish, or whose publish was undone. *)
Retired(r) ==
  \/ pubState[r] \in {"COMPENSATED", "SUPERSEDED"}
  \/ pubState[r] = "RESERVED" /\ version[r] = "REJECTED"

Holding(s) == {c \in Categories : ledger[<<s, c>>].state = "RESERVED"}

----------------------------------------------------------------------------
Init ==
  /\ pubState  = [r \in Revisions |-> "NONE"]
  /\ pubShocks = [r \in Revisions |-> Nothing]
  /\ keyOpen   = [r \in Revisions |-> FALSE]
  /\ version   = [r \in Revisions |-> "NONE"]
  /\ covenant  = [r \in Revisions |-> FALSE]
  /\ drafts    = [r \in Revisions |-> {}]
  /\ staged    = [r \in Revisions |-> {}]
  /\ cube      = [l \in Drivers |-> {1}]
  /\ preimage  = [r \in Revisions |-> {}]
  /\ L!LedgerInit
  /\ pc = "idle" /\ rev = 0 /\ target = 0 /\ asked = {} /\ payload = Nothing
  /\ attempts = 0 /\ todo = {} /\ lost = FALSE
  /\ raised = {} /\ shown = Nothing

----------------------------------------------------------------------------
(***************************************************************************)
(* The end of a run.                                                       *)
(***************************************************************************)
EndRun(outcome) ==
  /\ pc' = "idle" /\ rev' = 0 /\ target' = 0 /\ asked' = {} /\ payload' = Nothing
  /\ attempts' = 0 /\ todo' = {} /\ lost' = FALSE
  /\ shown' = Nothing
  /\ raised' = IF outcome = "FAILED" THEN raised \cup {rev} ELSE raised

(* discard_staged and record_rejection, where they are carried out.        *)
CleanUp(discards, rejects) ==
  /\ staged'  = IF discards THEN [staged EXCEPT ![rev] = {}] ELSE staged
  /\ version' = IF rejects /\ target # 0 /\ version[target] \in {"DRAFT", "IN_REVIEW"}
                  THEN [version EXCEPT ![target] = "REJECTED"] ELSE version

(* _fail: each piece of the clean-up is tried on its own and may fail; the *)
(* successor is closed only by a failure before the publish.               *)
Fail(closes) ==
  /\ \E discards \in BOOLEAN, rejects \in BOOLEAN :
       (rejects => closes) /\ CleanUp(discards, rejects)
  /\ EndRun("FAILED")
  /\ UNCHANGED <<covenant, drafts>>

----------------------------------------------------------------------------
(***************************************************************************)
(* From the request to the approval gate.                                  *)
(***************************************************************************)
(* reserve_revision.  The key decides: a retired one is closed, a live one *)
(* is reused, an unknown one takes max(revision) + 1.                      *)
ReserveRevision(s) ==
  LET mine == {r \in Revisions : keyOpen[r] /\ pubShocks[r] = s}
      dead == {r \in mine : Retired(r)}
      live == mine \ dead
      r    == IF live = {} THEN NextRevision ELSE Newest(live)
  IN
  /\ r \in Revisions
  /\ Repeats \/ \A q \in dead : pubState[q] = "RESERVED"
  /\ Overtaken \/ pubState[r] # "RESERVED" \/ \A q \in Committed : q < r
  /\ pubState'  = IF live = {} THEN [pubState EXCEPT ![r] = "RESERVED"] ELSE pubState
  /\ pubShocks' = [pubShocks EXCEPT ![r] = s]
  /\ keyOpen'   = [q \in Revisions |-> q = r \/ (keyOpen[q] /\ q \notin dead)]
  /\ pc' = "ensure" /\ rev' = r /\ payload' = s

(* A run applies what is published and what it was asked for.              *)
Begin(ask) ==
  /\ pc = "idle" /\ ask # Nothing
  /\ ReserveRevision(MergeShocks(CommittedShocks, ask))
  /\ asked' = Moved(ask)
  /\ shown' = Visible
  /\ UNCHANGED <<target, draftVars, cubeVars, ledger, tryVars, raised>>

(* add_shock during the computation: the staged rows are discarded and the *)
(* run starts over under the key of the larger set.                        *)
FoldIn(ask) ==
  /\ pc = "compute" /\ ask # Nothing /\ Moved(ask) \cap asked = {}
  /\ ReserveRevision(MergeShocks(payload, ask))
  /\ asked' = asked \cup Moved(ask)
  /\ staged' = [staged EXCEPT ![rev] = {}]
  /\ UNCHANGED <<target, version, covenant, drafts, cubeVars, ledger, tryVars, endVars>>

(* ensure_target_version and what _compute makes of the two states.        *)
EnsureTarget ==
  /\ pc = "ensure"
  /\ LET v == IF version[rev] = "NONE" THEN "DRAFT" ELSE version[rev] IN
     IF pubState[rev] # "RESERVED"
       THEN EndRun("ALREADY") /\ UNCHANGED draftVars
       ELSE /\ pc' = IF v \in {"DRAFT", "IN_REVIEW"} THEN "compute" ELSE "stopped"
            /\ target' = rev
            /\ version' = [version EXCEPT ![rev] = v]
            /\ UNCHANGED <<covenant, drafts, staged, rev, asked, payload, tryVars, endVars>>
  /\ UNCHANGED <<pubVars, cubeVars, ledger>>

(* evaluate_partition for one line: draft and staged row from one answer,  *)
(* the draft first, so the lock guard on plan_version_line refuses both.   *)
ComputeLine(l) ==
  /\ pc = "compute" /\ l \in Moved(payload)
  /\ l \notin staged[rev] /\ version[rev] # "LOCKED"
  /\ drafts' = [drafts EXCEPT ![rev] = @ \cup {l}]
  /\ staged' = [staged EXCEPT ![rev] = @ \cup {l}]
  /\ UNCHANGED <<pubVars, version, covenant, cubeVars, ledger, pc, tryVars, runVars, endVars>>

SaveDraft ==
  /\ pc = "compute" /\ Moved(payload) \subseteq staged[rev]
  /\ pc' = "saving"
  /\ UNCHANGED <<pubVars, draftVars, cubeVars, ledger, tryVars, runVars, endVars>>

(* add_shock while open_approval is in flight: the validator does not name *)
(* SAVING_DRAFT, and nothing reads the restart flag any more.              *)
FoldInLate(ask) ==
  /\ LateFoldIn
  /\ pc = "saving" /\ ask # Nothing /\ Moved(ask) \cap asked = {}
  /\ payload' = MergeShocks(payload, ask)
  /\ asked' = asked \cup Moved(ask)
  /\ UNCHANGED <<pubVars, draftVars, cubeVars, ledger, pc, rev, target, tryVars, endVars>>

OpenApproval ==
  /\ pc = "saving"
  /\ pc' = "parked"
  /\ version' = IF version[rev] = "DRAFT" THEN [version EXCEPT ![rev] = "IN_REVIEW"] ELSE version
  /\ UNCHANGED <<pubVars, covenant, drafts, staged, cubeVars, ledger, tryVars, runVars, endVars>>

(* _abandon on cancel_run, _reject on a decision and on the timer.         *)
CloseUnpublished(outcome) ==
  /\ CleanUp(TRUE, TRUE)
  /\ EndRun(outcome)
  /\ UNCHANGED <<pubVars, covenant, drafts, cubeVars, ledger>>

Cancel == pc \in {"compute", "parked"} /\ CloseUnpublished("CANCELLED")
Reject == pc = "parked" /\ CloseUnpublished("REJECTED")
Expire == pc = "parked" /\ CloseUnpublished("EXPIRED")

(* An activity before the publish runs out of attempts, or an earlier run  *)
(* "stopped part-way" with the successor past its draft.                   *)
FailUnpublished ==
  /\ pc \in {"ensure", "stopped", "compute", "saving", "parked"}
  /\ Fail(TRUE)
  /\ UNCHANGED <<pubVars, cubeVars, ledger>>

----------------------------------------------------------------------------
(***************************************************************************)
(* The decision and the publish.                                           *)
(***************************************************************************)
(* record_approval by somebody entitled to both moves.  Anybody else, or a *)
(* covenant not yet recorded, is refused and the run stays parked: no step. *)
Approve ==
  /\ pc = "parked" /\ covenant[rev]
  /\ pc' = "verify"
  /\ version' = IF version[rev] \in {"IN_REVIEW", "APPROVED"}
                  THEN [version EXCEPT ![rev] = "LOCKED"] ELSE version
  /\ UNCHANGED <<pubVars, covenant, drafts, staged, cubeVars, ledger, tryVars, runVars, endVars>>

(* The approval landed but no attempt lived to report it.                  *)
ApproveUnreported ==
  /\ pc = "parked" /\ covenant[rev]
  /\ version[rev] \in {"IN_REVIEW", "APPROVED"}
  /\ version' = [version EXCEPT ![rev] = "LOCKED"]
  /\ \E discards \in BOOLEAN :
       staged' = IF discards THEN [staged EXCEPT ![rev] = {}] ELSE staged
  /\ EndRun("FAILED")
  /\ UNCHANGED <<pubVars, covenant, drafts, cubeVars, ledger>>

(* verify_publishable.                                                     *)
VerifyNothing ==       \* mutant: the approval is taken at its word
  /\ pc = "verify"
  /\ pc' = "preimage"
  /\ UNCHANGED <<pubVars, draftVars, cubeVars, ledger, tryVars, runVars, endVars>>

Verify ==
  /\ pc = "verify" /\ version[rev] = "LOCKED"
  /\ pc' = "preimage"
  /\ UNCHANGED <<pubVars, draftVars, cubeVars, ledger, tryVars, runVars, endVars>>

(* snapshot_preimage: once per revision, never refreshed.                  *)
Overwritten == {<<l, Newest(cube[l])>> : l \in {k \in staged[rev] : cube[k] # {}}}

SnapshotPreimage ==
  /\ pc = "preimage"
  /\ pc' = "publish"
  /\ preimage' = IF preimage[rev] = {} THEN [preimage EXCEPT ![rev] = Overwritten] ELSE preimage
  /\ UNCHANGED <<pubVars, draftVars, cube, ledger, tryVars, runVars, endVars>>

(* An attempt that fails has copied everything, its answer lost; or, as the *)
(* table is partitioned by month (stores.py:171) and a month is inserted    *)
(* whole, some months.  The next one takes what it finds for all of them.   *)
SnapshotFails ==
  /\ pc = "preimage" /\ preimage[rev] = {}
  /\ \E part \in SUBSET Overwritten :
       /\ part = Overwritten \/ PartialPreimage
       /\ preimage' = [preimage EXCEPT ![rev] = part]
  /\ UNCHANGED <<pubVars, draftVars, cube, ledger, pc, tryVars, runVars, endVars>>

(* publish_to_cube, first store: the staged rows, all of them or none.     *)
PublishToCube ==
  /\ pc = "publish" /\ staged[rev] # {} /\ staged[rev] = drafts[rev]
  /\ pc' = "mark"
  /\ cube' = [l \in Drivers |-> IF l \in staged[rev] THEN cube[l] \cup {rev} ELSE cube[l]]
  /\ UNCHANGED <<pubVars, draftVars, preimage, ledger, tryVars, runVars, endVars>>

(* publish_to_cube, second store.                                          *)
MarkPublishing ==      \* mutant: the run's state, written to the publication
  /\ pc = "mark"
  /\ pc' = "commit" /\ todo' = Categories
  /\ pubState' = [pubState EXCEPT ![rev] = "PUBLISHING"]
  /\ UNCHANGED <<pubShocks, keyOpen, draftVars, cubeVars, ledger, attempts, lost, runVars, endVars>>

MarkPublished ==
  /\ pc = "mark"
  /\ pc' = "commit" /\ todo' = Categories
  /\ pubState' = IF pubState[rev] = "RESERVED"
                   THEN [pubState EXCEPT ![rev] = "PUBLISHED"] ELSE pubState
  /\ UNCHANGED <<pubShocks, keyOpen, draftVars, cubeVars, ledger, attempts, lost, runVars, endVars>>

(* The version was moved away, the rows do not match, or the attempts ran  *)
(* out: the run fails where it stands, the cube written or not.            *)
FailPublish ==
  /\ pc \in {"verify", "preimage", "publish", "mark"}
  /\ \E landed \in BOOLEAN :
       pubState' = IF landed /\ pc = "mark" /\ pubState[rev] = "RESERVED"
                     THEN [pubState EXCEPT ![rev] = "PUBLISHED"] ELSE pubState
  /\ Fail(FALSE)
  /\ UNCHANGED <<pubShocks, keyOpen, cubeVars, ledger>>

----------------------------------------------------------------------------
(***************************************************************************)
(* commit_to_treasury: one POST per category, in order, then the row.      *)
(***************************************************************************)
ServiceKey(c) == <<payload, c>>
NextPost == CHOOSE c \in todo : \A b \in todo : c <= b

PostCommitment ==
  /\ pc = "commit" /\ todo # {}
  /\ L!Reserve(ServiceKey(NextPost), rev)
  /\ todo' = todo \ {NextPost}
  /\ UNCHANGED <<pubVars, draftVars, cubeVars, pc, attempts, lost, runVars, endVars>>

MarkCommitted ==
  /\ pc = "commit" /\ todo = {}
  /\ pubState' = [pubState EXCEPT ![rev] = "COMMITTED"]
  /\ pc' = "supersede" /\ attempts' = 0
  /\ UNCHANGED <<pubShocks, keyOpen, draftVars, cubeVars, ledger, todo, lost, runVars, endVars>>

(* An attempt ends in an error: a POST failed before its write, timed out  *)
(* after it, or the row's update did.  The next attempt starts from the    *)
(* first category; after the last one, or a permanent error, _compensate.  *)
CommitForever ==       \* mutant: no maximum_attempts
  /\ pc = "commit"
  /\ todo' = Categories
  /\ UNCHANGED <<pubVars, draftVars, cubeVars, ledger, pc, attempts, lost, runVars, endVars>>

CommitAttemptFails ==
  /\ pc = "commit"
  /\ \E landed \in BOOLEAN, permanent \in BOOLEAN :
       /\ IF landed /\ todo # {} THEN L!Reserve(ServiceKey(NextPost), rev) ELSE UNCHANGED ledger
       /\ pubState' = IF landed /\ todo = {} THEN [pubState EXCEPT ![rev] = "COMMITTED"] ELSE pubState
       /\ IF permanent \/ attempts + 1 = CommitAttempts
            THEN pc' = "sweep" /\ attempts' = 0 /\ todo' = {}
            ELSE pc' = "commit" /\ attempts' = attempts + 1 /\ todo' = Categories
  /\ UNCHANGED <<pubShocks, keyOpen, draftVars, cubeVars, lost, runVars, endVars>>

----------------------------------------------------------------------------
(***************************************************************************)
(* Releasing a key prefix: compensate_commitments sweeps the run's own     *)
(* key, supersede_commitments that of an earlier committed revision.       *)
(***************************************************************************)
EarlierOrOwn == {r \in Committed : r <= rev}   \* mutant: revision <= :rev

Earlier == {r \in Committed : r < rev}
Oldest  == CHOOSE r \in Earlier : \A q \in Earlier : r <= q
Prefix  == IF pc = "sweeping" THEN payload ELSE pubShocks[Oldest]

(* DELETE, confirmed; or its effect or its absence never confirmed.        *)
ReleaseOne(c) ==
  /\ pc \in {"sweeping", "releasing"} /\ c \in todo
  /\ todo' = todo \ {c}
  /\ \E confirmed, effect \in BOOLEAN :
       /\ confirmed => effect
       /\ IF effect THEN L!Release(<<Prefix, c>>) ELSE UNCHANGED ledger
       /\ lost' = (lost \/ ~confirmed)
  /\ UNCHANGED <<pubVars, draftVars, cubeVars, pc, attempts, runVars, endVars>>

SweepList ==
  /\ pc = "sweep"
  /\ pc' = "sweeping" /\ todo' = Holding(payload) /\ lost' = FALSE
  /\ UNCHANGED <<pubVars, draftVars, cubeVars, ledger, attempts, runVars, endVars>>

SweepDoneAnyway ==     \* mutant: what is outstanding is not raised
  /\ pc = "sweeping" /\ todo = {}
  /\ pc' = "unpublish" /\ attempts' = 0
  /\ UNCHANGED <<pubVars, draftVars, cubeVars, ledger, todo, lost, runVars, endVars>>

SweepDoneOnly ==       \* mutant: the ledger is rolled back, the cube is not
  /\ pc = "sweeping" /\ todo = {} /\ ~lost
  /\ pc' = "unmark" /\ attempts' = 0
  /\ UNCHANGED <<pubVars, draftVars, cubeVars, ledger, todo, lost, runVars, endVars>>

SweepDone ==
  /\ pc = "sweeping" /\ todo = {} /\ ~lost
  /\ pc' = "unpublish" /\ attempts' = 0
  /\ UNCHANGED <<pubVars, draftVars, cubeVars, ledger, todo, lost, runVars, endVars>>

(* An attempt of the activity that starts at `first` ends in an error.     *)
CompensationAttemptFails(first) ==
  /\ todo' = {} /\ lost' = FALSE
  /\ IF attempts + 1 = CompensationAttempts
       THEN pc' = "broken" /\ attempts' = 0
       ELSE pc' = first /\ attempts' = attempts + 1
  /\ UNCHANGED <<runVars, endVars>>

SweepAttemptFails ==
  /\ pc \in {"sweep", "sweeping"}
  /\ CompensationAttemptFails("sweep")
  /\ UNCHANGED <<pubVars, draftVars, cubeVars, ledger>>

----------------------------------------------------------------------------
(***************************************************************************)
(* unpublish_revision: delete, restore, record.                            *)
(***************************************************************************)
DeleteRevision ==
  /\ pc = "unpublish"
  /\ pc' = "restore"
  /\ cube' = [l \in Drivers |-> cube[l] \ {rev}]
  /\ UNCHANGED <<pubVars, draftVars, preimage, ledger, tryVars, runVars, endVars>>

RestoreNothing ==      \* mutant: deleting the revision is taken to be enough
  /\ pc = "restore"
  /\ pc' = "unmark"
  /\ UNCHANGED <<pubVars, draftVars, cubeVars, ledger, tryVars, runVars, endVars>>

RestorePreimage ==
  /\ pc = "restore"
  /\ pc' = "unmark"
  /\ cube' = [l \in Drivers |-> cube[l] \cup {p[2] : p \in {x \in preimage[rev] : x[1] = l}}]
  /\ UNCHANGED <<pubVars, draftVars, preimage, ledger, tryVars, runVars, endVars>>

MarkCompensated ==
  /\ pc = "unmark"
  /\ pubState' = [pubState EXCEPT ![rev] = "COMPENSATED"]
  /\ EndRun("COMPENSATED")
  /\ UNCHANGED <<pubShocks, keyOpen, draftVars, cubeVars, ledger>>

UnpublishAttemptFails ==
  /\ pc \in {"unpublish", "restore", "unmark"}
  /\ \E landed \in BOOLEAN :
       pubState' = IF landed /\ pc = "unmark"
                     THEN [pubState EXCEPT ![rev] = "COMPENSATED"] ELSE pubState
  /\ CompensationAttemptFails("unpublish")
  /\ UNCHANGED <<pubShocks, keyOpen, draftVars, cubeVars, ledger>>

(* mark_compensation_failed, which may itself run out of attempts.         *)
GiveUp ==
  /\ pc = "broken"
  /\ \E recorded \in BOOLEAN :
       pubState' = IF recorded THEN [pubState EXCEPT ![rev] = "COMPENSATION_FAILED"] ELSE pubState
  /\ EndRun("FAILED")
  /\ UNCHANGED <<pubShocks, keyOpen, draftVars, cubeVars, ledger>>

----------------------------------------------------------------------------
(***************************************************************************)
(* supersede_commitments, then the variance and the end.                   *)
(***************************************************************************)
SupersedeList ==
  /\ pc = "supersede" /\ Earlier # {}
  /\ pc' = "releasing" /\ todo' = Holding(pubShocks[Oldest]) /\ lost' = FALSE
  /\ UNCHANGED <<pubVars, draftVars, cubeVars, ledger, attempts, runVars, endVars>>

MarkSuperseded ==
  /\ pc = "releasing" /\ todo = {} /\ ~lost
  /\ pubState' = [pubState EXCEPT ![Oldest] = "SUPERSEDED"]
  /\ pc' = "supersede"
  /\ UNCHANGED <<pubShocks, keyOpen, draftVars, cubeVars, ledger, tryVars, runVars, endVars>>

SupersedeAttemptFails ==
  /\ pc \in {"supersede", "releasing"}
  /\ IF attempts + 1 = CompensationAttempts
       THEN Fail(FALSE)
       ELSE /\ pc' = "supersede" /\ attempts' = attempts + 1 /\ todo' = {} /\ lost' = FALSE
            /\ UNCHANGED <<draftVars, runVars, endVars>>
  /\ UNCHANGED <<pubVars, cubeVars, ledger>>

Finish ==
  /\ pc = "supersede" /\ Earlier = {}
  /\ EndRun("PUBLISHED")
  /\ UNCHANGED <<pubVars, draftVars, cubeVars, ledger>>

(* compute_variance runs out of attempts: the run fails, the plan stands.  *)
FailVariance ==
  /\ pc = "supersede" /\ Earlier = {}
  /\ Fail(FALSE)
  /\ UNCHANGED <<pubVars, cubeVars, ledger>>

----------------------------------------------------------------------------
(***************************************************************************)
(* Everybody else.                                                         *)
(***************************************************************************)
(* ReplacingMergeTree merges a line's rows whenever it likes.              *)
MergeRows(l) ==
  /\ Cardinality(cube[l]) > 1
  /\ cube' = [cube EXCEPT ![l] = {Newest(cube[l])}]
  /\ UNCHANGED <<pubVars, draftVars, preimage, ledger, pc, tryVars, runVars, endVars>>

(* governance.transition, by people who hold the roles (db/seed.yaml).     *)
Declared ==
  {<<"DRAFT", "IN_REVIEW">>, <<"IN_REVIEW", "APPROVED">>, <<"IN_REVIEW", "REJECTED">>,
   <<"APPROVED", "LOCKED">>, <<"APPROVED", "SUPERSEDED">>, <<"REJECTED", "DRAFT">>}

Transition(r, to) ==
  /\ <<version[r], to>> \in Declared
  /\ to = "APPROVED" => covenant[r]
  /\ to = "DRAFT" => Reopening
  /\ version' = [version EXCEPT ![r] = to]
  /\ UNCHANGED <<pubVars, covenant, drafts, staged, cubeVars, ledger, pc, tryVars, runVars, endVars>>

(* governance.set_covenant: the lock guard and the check constraint refuse *)
(* it on a LOCKED version and a withdrawal on an APPROVED one.             *)
SetCovenant(r) ==
  /\ version[r] \notin {"NONE", "LOCKED"}
  /\ version[r] = "APPROVED" => ~covenant[r]
  /\ covenant' = [covenant EXCEPT ![r] = ~@]
  /\ UNCHANGED <<pubVars, version, drafts, staged, cubeVars, ledger, pc, tryVars, runVars, endVars>>

RunStep ==
  \/ EnsureTarget \/ (\E l \in Drivers : ComputeLine(l)) \/ SaveDraft \/ OpenApproval
  \/ Expire \/ Verify \/ SnapshotPreimage \/ SnapshotFails \/ PublishToCube \/ MarkPublished \/ FailPublish
  \/ PostCommitment \/ MarkCommitted \/ CommitAttemptFails
  \/ SweepList \/ (\E c \in Categories : ReleaseOne(c)) \/ SweepDone \/ SweepAttemptFails
  \/ DeleteRevision \/ RestorePreimage \/ MarkCompensated \/ UnpublishAttemptFails \/ GiveUp
  \/ SupersedeList \/ MarkSuperseded \/ SupersedeAttemptFails \/ Finish \/ FailVariance
  \/ FailUnpublished

People ==
  \/ \E ask \in Shocks : Begin(ask) \/ FoldIn(ask) \/ FoldInLate(ask)
  \/ Cancel \/ Reject \/ Approve \/ ApproveUnreported
  \/ \E r \in Revisions : SetCovenant(r)
  \/ \E r \in Revisions, to \in {"DRAFT", "IN_REVIEW", "APPROVED", "LOCKED", "REJECTED", "SUPERSEDED"} :
       Transition(r, to)

Next == RunStep \/ People \/ \E l \in Drivers : MergeRows(l)

Spec == Init /\ [][Next]_vars
FairSpec == Spec /\ WF_vars(RunStep)

----------------------------------------------------------------------------
PubStates == {"NONE", "RESERVED", "PUBLISHED", "COMMITTED", "COMPENSATED",
              "COMPENSATION_FAILED", "SUPERSEDED"}
VersionStates == {"NONE", "DRAFT", "IN_REVIEW", "APPROVED", "LOCKED", "REJECTED", "SUPERSEDED"}
Steps == {"idle", "ensure", "stopped", "compute", "saving", "parked", "verify", "preimage", "publish",
          "mark", "commit", "sweep", "sweeping", "unpublish", "restore", "unmark", "broken",
          "supersede", "releasing"}

TypeOK ==
  /\ pubState \in [Revisions -> PubStates]
  /\ pubShocks \in [Revisions -> Shocks]
  /\ keyOpen \in [Revisions -> BOOLEAN]
  /\ version \in [Revisions -> VersionStates]
  /\ covenant \in [Revisions -> BOOLEAN]
  /\ drafts \in [Revisions -> SUBSET Drivers]
  /\ staged \in [Revisions -> SUBSET Drivers]
  /\ cube \in [Drivers -> SUBSET (1 .. MaxRevision)]
  /\ preimage \in [Revisions -> SUBSET (Drivers \X (1 .. MaxRevision))]
  /\ L!LedgerTypeOK
  /\ pc \in Steps
  /\ rev \in Revisions \cup {0} /\ (pc # "idle" => rev \in Revisions)
  /\ target \in Revisions \cup {0}
  /\ asked \subseteq Drivers
  /\ payload \in Shocks
  /\ attempts \in Nat
  /\ todo \subseteq Categories
  /\ lost \in BOOLEAN
  /\ raised \subseteq Revisions

(***************************************************************************)
(* The assignment's gate (activities.py:758): no row of a revision is in   *)
(* the cube unless its successor is LOCKED with the covenant passed,       *)
(* although people move versions while the run is deciding to publish.     *)
(***************************************************************************)
PublishedOnlyLocked ==
  \A l \in Drivers : \A r \in cube[l] \cap Revisions : version[r] = "LOCKED" /\ covenant[r]

(***************************************************************************)
(* A rolled back revision leaves the cube showing what it showed when the  *)
(* run began, whichever rows ClickHouse merged away in between             *)
(* (RECOMPUTE.md:266).                                                     *)
(***************************************************************************)
CompensationRestores == [][MarkCompensated => Visible = shown]_vars

(***************************************************************************)
(* A revision recorded COMPENSATED or SUPERSEDED holds no budget, whatever *)
(* POST timed out after its write and whatever DELETE was never confirmed  *)
(* (activities.py:250, activities.py:988).                                 *)
(***************************************************************************)
NothingStranded ==
  \A r \in Revisions : pubState[r] \in {"COMPENSATED", "SUPERSEDED"} => L!HeldFor(r) = {}

(***************************************************************************)
(* The revision the plan stands at is fully reserved for, at every moment  *)
(* of the hand-over from the one before (workflows.py:617): only a run     *)
(* that is rolling it back, or that failed aloud doing so, takes the       *)
(* budget away.                                                            *)
(***************************************************************************)
Compensating == pc \in {"sweep", "sweeping", "unpublish", "restore", "unmark", "broken"}
NeverUnfunded ==
  Committed # {} =>
    LET r == Newest(Committed) IN
    Holding(pubShocks[r]) = Categories \/ r \in raised \/ (rev = r /\ Compensating)

(***************************************************************************)
(* Between runs every row the cube shows is of revision 1 or of a revision *)
(* that was committed, unless the run that left it there failed aloud.     *)
(***************************************************************************)
NeverSilentlyPublished ==
  pc = "idle" => \A l \in Drivers : cube[l] # {} =>
    LET r == Newest(cube[l]) IN
    r = 1 \/ pubState[r] \in {"COMMITTED", "SUPERSEDED"} \/ r \in raised

(***************************************************************************)
(* While no run has failed aloud, the plan stands between runs where the   *)
(* latest committed revision put it: the cube shows exactly its cumulative *)
(* shock set, and the ledger holds exactly its reservations, not those of  *)
(* any revision before it or rolled back since (RECOMPUTE.md:194).         *)
(***************************************************************************)
Reserved == {k \in DOMAIN ledger : ledger[k].state = "RESERVED"}
SurfacesAgree ==
  pc = "idle" /\ raised = {} =>
    /\ Visible = CommittedShocks
    /\ Reserved = IF Committed = {} THEN {} ELSE {CommittedShocks} \X Categories

(***************************************************************************)
(* A run always ends: a parked one by its timer, a failing one when its    *)
(* attempts are spent, whatever is folded in, moved or merged meanwhile.   *)
(***************************************************************************)
RunEnds == pc # "idle" ~> pc = "idle"

(***************************************************************************)
(* Between runs, a revision that is only RESERVED has its numbers in the   *)
(* staging table and nowhere else: the row of a run that failed can be     *)
(* taken at its word (STATE_FLOWS.md:206).                                 *)
(***************************************************************************)
ReservedOnlyStaged ==
  pc = "idle" => \A r \in Revisions, l \in Drivers : r \in cube[l] => pubState[r] # "RESERVED"
=============================================================================
