# A verification of fpa-api

fpa-api keeps a financial plan under governance and lets people re-forecast it: a driver moves, the
plan lines bound to it are recomputed from a frozen baseline, a person approves the draft, the numbers
are published to a ClickHouse cube, and budget for them is reserved with an external Commitment Service
that fails on purpose. Three stores that share no transaction (Postgres, ClickHouse, the service) have
to agree afterwards, whatever fails in between. That agreement is what this project is about.

The directory holds TLA+ modules translated from the code, the TLC configurations that check them, and
TLAPS proofs of the properties that matter most. Paths below are relative to the repository root;
`recompute/`, `commitment/` and `governance.py` are under `src/fpa_project/`.

## 1. Inventory

| Component | State it keeps | Operations | What is hard about it |
|---|---|---|---|
| Commitment Service (`commitment/service.py`) | the `commitment` table, the failure rate | POST with a key, POST without, DELETE, GET by prefix, set the failure rate | two statements per keyed POST; writes whose answer never comes |
| Recompute workflow (`recompute/workflows.py`) | the coroutine's position, shock set, flags, a held decision, the partition cursor | `add_shock`, `cancel_run`, `approve`, the run itself, continue-as-new | handlers run at every await; bounded retries; compensation |
| Recompute activities (`recompute/activities.py`, `stores.py`) | `plan_publication`, the successor version and its lines, staged rows, the cube, the preimage, the baseline | reserve, ensure, evaluate, open, approve, reject, verify, snapshot, publish, commit, compensate, unpublish, supersede | each may fail anywhere with its last write landed or not, and be run again |
| Recompute engine (`recompute/engine.py`) | none | merge shocks, propagate ratios, cut partitions, recompute a line | cumulative merging; rounding |
| Client, worker, payloads (`recompute/client.py`, ...) | none | start or fold in, decide, cancel | one workflow id per plan |
| Governance (`governance.py`, `db/migrations`) | `plan_version` and its row version, approvals, drivers, FX rates | transition, set covenant, save driver, save model, set rate | concurrent editors; triggers and constraints have the last word |
| Audit chain (`db/migrations/versions/011_*`, `governance.py`) | `audit_event`, hash linked | append, verify | concurrent appends; retried appends |
| Driver library (`governance.py`, `dsl/formula.py`) | `plan_driver`, `planning_model.calc_order_dag` | list, save a driver, save a model | validation against a library others are editing |
| Agent proposals (`agent_team/proposals.py`) | `agent_proposal` | save a pause, decide, load, continue, keep | four transactions and a model call between; two requests at once |
| Agent team (`agent_team/`) | evidence of one request, the disclosure log | two attempts, tool calls, checks, finalize | the model may do anything; the ledger moves between its two readings |
| DSL compiler (`dsl/compiler.py`) | none | validate, compile plain, monthly, bridge and citation queries | where each filter goes, which months and versions are read |
| Variance (`dsl/bridge.py`, `bridge_service.py`) | `variance_report` and its lines and citations | bridge, bridge two closes, move, drill through, compute for a forecast | a frozen answer beside moving sources; rounding; mix |
| Ledger (`data/seed_fpa.py`) | `fact_gl_actual`, `dim_ledger_vintage` | record a close, restate, merge | two vintages in a table that merges |
| API (`app.py`) | none | authenticate and forward | entry points of everything above |

How they interact: the API starts a workflow or sends it an update or a signal; the workflow calls
activities through Temporal, which retries them under a policy each; the activities write Postgres and
ClickHouse and call the Commitment Service over HTTP; people move plan versions through governance at
the same time; every governance write appends to the audit chain through a trigger.

What makes each correct:

- **Commitment Service**: one commitment per key for ever, one answer per key, releases are final.
- **Workflow before the gate**: what an approver sees is the whole and only the shock set that was
  accepted; nothing accepted is forgotten; a cancelled run leaves nothing staged; every run gets there.
- **Workflow after the gate**: only a locked successor is published; a publish that cannot be committed
  is undone exactly; the ledger never holds budget for a revision that was rolled back or replaced, and
  always holds it for the one that stands; disagreement is never silent; every run ends.
- **Governance**: no lost update, segregation of duties, no write past the lock.
- **Audit chain**: one chain without forks, an entry for every change.
- **Driver library**: what is committed always parses, resolves and has no same-period cycle; no edit
  overwrites what its author has not read.
- **Compiler**: a question that validates is answered by what it means, at any close, in any scope.
- **Variance**: the bridge ties as an identity at every node; a stored report stands and can be traced.
- **Agent team**: an answer's figures are in the rows it cites; nothing reaches the model unrecorded; a
  proposal is decided once, by a second person, and continued once.

The list of hazards, each at its line and with the properties that would catch it, is in
`PROJECT.json`; those that no property covers yet say what a model of them would need.

## 2. Modules

| Module | Models | Composes |
|---|---|---|
| `Ledger` | what the Commitment Service promises a caller that always sends a key | |
| `CommitmentService` | the service itself, statement by statement | refines `Ledger` |
| `Settlement` | the stores and the run, from the reservation of a revision to the agreement of cube and ledger | instantiates `Ledger` as its counterparty |
| `ComputePhase` | the run up to the approval gate, await by await, with its handlers | |
| `AuditChain` | the audit log: ids from a sequence, a hash chain linked under an advisory lock, the verifier | |
| `Governance` | one plan version as people and the approval activities write it at the same time | instantiates `AuditChain` as its log |
| `Engine` | the engine's propagation of shocks to lines and the cut into partitions, as operators | |
| `DirtySet` | the children of one revision, the attempts Temporal makes for each, and the two stores they write | uses `Engine` |
| `LedgerRead` | what a compiled query reads of the ledger, and what it should | |
| `Bridge` | the decomposition of a gap and the delta between two closes, in exact integers | |
| `VarianceReport` | the ledger's closes and merges, runs, forecasts and stored reports | uses `LedgerRead`, `Bridge` |
| `Formula` | the formula language: grammar, validation, dependency names, cycle detection | |
| `DriverLibrary` | drivers and the stored DAG under concurrent saves | uses `Formula` |
| `Approval` | what the agent tier promises of a proposal | |
| `AgentProposals` | the proposal rows and the decision endpoint, transaction by transaction | refines `Approval` |
| `AgentTeam` | one question through the team, beside the proposals it leaves | extends `AgentProposals` |
| `CommitmentServiceProofs`, `SettlementProofs`, `ComputePhaseProofs`, `DirtySetProofs`, `GovernanceProofs` (with the audit chain's), `VarianceReportProofs`, `DriverLibraryProofs`, `AgentTeamProofs` | the theorems | |
| `MC*` | symmetry sets and small instances for TLC | |

### CommitmentService

`rows` is the table, by commitment id; `call[q]` is the request a slot `q` is serving; `failing` is the
runtime failure setting. `ArriveCreate`/`ArriveRelease` pick the injected failure. A request picked for
"error" is refused before it writes and is no step. `Insert` is `INSERT ... ON CONFLICT DO NOTHING`,
atomic by the unique index; `Select` reads the winner's row; `Update` is the release; `Reply` answers,
or hangs in its place. `answered` is a history variable. Amounts and the other body fields are left out,
except the revision, which tells two requests under one key apart.

`Ledger` has one action per keyed request. `LedgerView` maps the table to it by key, and every step of
`CommitmentService` is a step of `Ledger` or a stutter: this is what allows `Settlement` to call the
service in one step.

### Settlement

One source plan, whose re-forecasts follow one another because the workflow id is the plan's
(`recompute/client.py`). A revision's row, successor, staged rows and preimage are functions of the
revision. Each driver has one plan line bound to it, so a line's number is the driver's value in the
revision's shock set, and the approved plan is revision 1. `cube[l]` is the *set* of revisions with a
physical row for line `l`, the newest of which is visible, and `MergeRows` removes the others at any
time, which is what ReplacingMergeTree does.

The run is a program counter. One activity is one action, or several where another store is written in
between: `publish_to_cube` is `PublishToCube` then `MarkPublished`, `unpublish_revision` is
`DeleteRevision`, `RestorePreimage`, `MarkCompensated`, `commit_to_treasury` one `PostCommitment` per
category and `MarkCommitted`. A failure of an attempt is its own action, with a choice of whether the
last write had landed: `CommitAttemptFails`, `SweepAttemptFails`, `UnpublishAttemptFails`,
`SupersedeAttemptFails`, `SnapshotFails`, `FailPublish`, `FailUnpublished`, `ApproveUnreported`, `GiveUp`. A crash of the
worker is such a failure: Temporal replays the coroutine to where it was and runs the activity again.

`Transition` and `SetCovenant` are governance as other people use it, on any successor at any time;
their guards are the declared transitions, the lock guard and the covenant constraint.

Five constants open or close behaviours of the environment: `Repeats` (a shock set asked for again
after its revision was rolled back or superseded), `LateFoldIn` (a shock accepted while the approval is
being opened), `Reopening` (a planner takes a rejected successor back to DRAFT), `Overtaken` (a
reservation left open is taken up again below a revision committed in the meantime) and
`PartialPreimage` (an attempt at the preimage's copy fails between two months, which are separate parts of
the table). The code excludes none of them. All but `Reopening` break a property, which a run, a
configuration or a finding records (`Reopening` is one of the ways to an overtaken reservation, folding in
is another); so the run that asks about the ledger has all of them closed, the run about rollback only the
last. Each theorem names the ones it assumes closed, and the others stay open in it.

### ComputePhase

One run and the executions it continues as. The workflow's coroutine is single-threaded between awaits,
so `pc` names the await it is at and an action is what happens up to the next. The handlers `FoldIn`,
`CancelRun` and `EarlyDecision` interleave. Children write one partition each and finish in any order,
also after their batch has failed. A revision is identified with its shock set, which the idempotency
key guarantees within one run. A driver is unmoved, at its published value or at the asked one.
`staged` remembers which shock set each partition was computed from. `thisRun` is `partitions_this_run`,
which counts one pass of `_compute`; the history variables `started` and `joined` keep what the whole
execution has started and the shocks folded into it, for `HistoryIsBounded`. `slips` is a history variable: it
names the windows in which an accepted request is never read, so that `ParkedIsWhole` can be asked of
every other behaviour and `NeverDropped` and `SignalsKept` of all.

### Engine and DirtySet

`Engine` is `recompute/engine.py` without its floats: a driver's ratio is the monomial of the shocks
multiplied into it, a factor is known by its binding and that ratio, and the numbers of a line are the
set of factors its baseline is multiplied by. Two lines' numbers are thus the same exactly when the same
shocks moved them by the same bindings, as often. `PartitionPlan` and `Cut` are the two loops of
`partition_plan`, over the scenarios and over the months of one, as recursive functions.

`DirtySet` takes one revision from the loading of the plan's context to the park. The run is `pc` and
the cursor `done`; `Load` and `Snapshot` are the two readings of the driver library, `Resolve` counts
and cuts, `StartBatch`, `BatchDone` and `ContinueAsNew` are the loop. An attempt of `evaluate_partition`
is a record per worker thread: what it selects, the factors it was handed, its offset, and the cursor it
last recorded (`beat`). `Select` records the cursor and reads a batch, `Upsert` is the Postgres
transaction, `Stage` the ClickHouse insert with the end of the loop's body, `Answer` the result. What
Temporal knows is kept apart from what the thread does: `heartbeat[p]` is the cursor that was delivered,
`holder[p]` the thread whose answer is still waited for. `GiveUp` (a timeout) clears the latter and
leaves the thread at work, so that a replacement (`Take`) resumes from an old cursor beside it. `Crash`
ends an attempt anywhere, with part of an insert landed. A child out of attempts is itself tried again
and its new execution has no heartbeat (`Handed`); out of executions it fails the run, `FailRun` tries
its two clean-ups, and the revision may be asked for again with whatever is left in the stores.
`EditLibrary` is governance changing the stored edges meanwhile. Lines are numbered in the attempt's
ORDER BY, which is total within a partition, and the baseline is frozen.

`counted` and `mixed` are history variables: the lines of the partitions whose children answered, and
whether a later execution has read another library than the one before it. The code does not exclude
that: an execution that continues as new carries the cursor only and reads the library again. With the
edges changed in between, the cursor points into another list of partitions, and the revision parks with
lines of two libraries and with dirty lines nobody wrote. `ParkedIsComputed` is asked of all other
behaviours; without `~mixed` TLC refutes it in twenty steps.

### AuditChain

`audit` is the committed rows, `sequence` the last id drawn, `appends[s]` the INSERT session `s` is in
the middle of, `chainLock` the holders of the advisory lock. An INSERT takes two steps because two
things happen in it: its defaults are evaluated (`Draw`: nextval, which no rollback gives back), then the
BEFORE INSERT trigger runs (`Link`: wait for the lock, read the row with the highest id). The row becomes
visible with its transaction (`Commit`), which drops it again if its event key is there already, and the
lock goes with the transaction (`Unlock`). The trigger's SELECT takes a new snapshot after the lock was
granted, as statements in a volatile function do under READ COMMITTED, so it sees every commit before
it. The hash of a row is identified with the row, and `prev` names the row it was chained to.
`VerifierAccepts` is `verify_audit_chain`. `overtaken` is a history variable: it says that some row was
linked behind a row with a higher id.

### Governance

`version`, `rate` and `approval` are what is committed of one `plan_version` row, one of its FX rates and
its latest `plan_approval` row. `tx[s]` is the transaction a session is in: `update` between what it read
and its UPDATE, `record` between that and its COMMIT. The audit row in between is `AuditChain`'s `Draw`
and `Link`, and `Commit` is the chain's and the plan's in one step, as one COMMIT. `rowLock` is the row
lock of the version.

- `transition` reads the row without a lock (`Transition`, all its checks) and updates it WHERE
  row_version is what it read (`UpdateState`).
- `set_covenant` and `set_plan_fx_rate` take the row FOR UPDATE and compare it with the version the
  request named, if it named one (`UpdateCovenant`, `UpdateRate`).
- `open_approval`, `record_approval`, `record_rejection` are the worker's, one activity at a time, as one
  run is at one step; each may overlap everything people do. `UpdateIf` is an UPDATE with a state clause:
  a row that does not match is not waited for.
- `Update` ends in the triggers and constraints, which see the row as it will be: the lock guard and
  `ColumnsAllow`. A refusal is `Abandon`, a rollback; so is `Fail`, which may happen anywhere.

`Describe` is a client reading the version, which is what a named row version comes from. A request that
is refused before it writes changes nothing and is no step. `approval` and the version's row are locked
together, because every activity that writes one writes the other, and a note always counts as changed
when a covenant verdict is recorded, so that the controller-only guard is always asked.

### LedgerRead, Bridge and VarianceReport

`rows` is the set of physical rows of `fact_gl_actual`. A key stands for company, month, account and
dimension signature, and `KeyInfo` gives it its month, company, account kind, roll-up path, plan and
rates. A row has its version (the close), voucher, quantity and deletion mark. `ActualSource` is the
compiler's vintage subquery (newest version at or below the close, the voucher breaking ties),
`CompilePlain`, `CompileMonthly`, `CompileBridge` and `CompileCitationRows` are the four kinds of query,
and `ValidateQuery` is what is refused before any of them. SQL text is left out; what is kept is which
filter goes where: the scope and dimension filters inside the vintage subquery, measure filters in
HAVING, a widened range of months for functions that look back or ahead and frames that cut it down
again. `Meaning` is written independently, from the question alone, over all rows without any of this.

`Bridge` works in half cents times `Scale`, so every product and every rounding of the code is an exact
integer: `Residual` is not assumed small, it is computed. `Decompose` gives a node per path prefix, with
the volume at the average plan price, the mix between a node's children and the mix within them, and
the sign of costs in a cut that also holds revenue. `StoredResidual` is the residual of the rounded
columns, which the table's check constraint compares with the tolerance.

`VarianceReport` interleaves `RecordClose`, `Restate` (any fate for any restatable line) and `Merge`
with `LookUpVintage`/`Persist` (the two reads of `run_bridge`), `StartForecast`/`PersistForecast`
(`compute_variance`, restarted at any time) and `SetStatus`. `settled` is a history flag of a run: no
close was recorded or restated between its reads. `DrillAgrees` is asked of settled reports and of keys
no merge has touched; without either restriction TLC refutes it, and `asof_merged` shows the second.

### Formula and DriverLibrary

A formula is a sequence of tokens. `Parse` is the recursive-descent parser with its precedence, as a
function of a layer of the grammar and a position: what `parse_expr`, `parse_term`, `parse_factor` or the
loop over a call's arguments answers when it starts there. A node is the record of what the walks over
the tree ask of it, put together from its operands' as they do. `Valid` is `validate_formula`; `Visit`
and `VisitEach` are the depth-first search with its stack and visited set, as a function of the names
still to visit, the branch and what is completed.
`DriverLibrary` takes `save_driver` apart at its reads: `LockModel` (the role, the lock, the argument
check), `CheckVersion`, `Validate` against what is committed then, `CommitDriver`. `save_planning_model`
validates only what it was sent and is one step. `ListDrivers` is where a row version comes from.
`LibrarySound` takes names, edges and loops off the tokens and the transitive closure (`ReadNow`,
`NeedsItself`), not with the operators the code validates by. `derived` is a history flag: the DAG was
last written by `save_driver` or the seed.

### Approval, AgentProposals and AgentTeam

`proposal[p]` is a row of `agent_proposal` by run id, `request[d]` one decision request between its
transactions: `Decide` (FOR UPDATE, the trigger's rules; the same decision by the same person passes
through), `Load`, `CheckScope`, `Continue` (the model is called outside any transaction),
`KeepContinuation` (`WHERE resumed_run IS NULL`). `EndRequest` is a refusal, an answer already kept or a
crash. `Revoke` takes companies or the account away from people at any time; no code of the repository
does that, so it is external. Through `Approvals` every step is one of `Approval` or a stutter.

`AgentTeam` is one question beside them: `at` is where it is, `attempt` and `turn` count. Every model
turn leaves by `SendToModel` and every tool result returns by `ReturnRows`, both through `Pass`, which
records before it sends; `Blocked` is any failure of it. The model may call a tool, pause, answer with
any set of figures or fail. A query's rows are known by the figure the ledger answers with, which
`LedgerMoves` changes; `evidence` holds what the tools returned over both attempts, and `Finalize` reads
again. `sent` is a history variable. `REJECTED_SCOPE` is not among the statuses: a question without
companies sends nothing to the model, so it ends before any plan is executed.

## 3. Runs

| Run | Shows | Distinct states |
|---|---|---|
| `commitment_service` | one row and one answer per key; refinement of `Ledger` | 163,576 |
| `settlement` | the gate, no stranded and no missing budget, agreement | 1,340,619 |
| `settlement_open` | exact rollback and termination with the environment open | 19,129 |
| `compute_phase` | the parked draft, cancellation, the bound on an execution's children, progress | 116,798 |
| `governance` | approved means reviewed, no lost update, locked is final, log and plan agree, the chain verifies, locks in one order | 1,081,365 |
| `dirty_set` | the cut is a partition, what is counted is written, what parks is every moved line with its own numbers | 932,598 |
| `audit_fork` | violation: two audit rows chained to one | |
| `settlement_repeats` | violation: a rolled back key asked for again commits nothing | |
| `variance` | a question's reading is its meaning, the bridge ties, the delta between closes explains, drill-through, a report stands | 48,535 |
| `driver_library` | what is committed is a sound library, no edit overwrites what was not read | 35,428 |
| `agent_team` | answers are backed, nothing is sent unrecorded, a proposal is decided and continued once | 484,550 |
| `asof_merged` | violation: a merge takes the first close's row away from AS OF | |

Further configurations show what the findings without a run say, each violated in seconds:
`MCSettlementReopen.cfg` (`SurfacesAgree`: a reopened successor leaves two committed sets),
`MCSettlementStuck.cfg` (`ReservedOnlyStaged`: a RESERVED revision with rows in the cube),
`MCComputeDropped.cfg` (`NeverDropped`: a folded-in shock dropped by "already published"),
`MCComputeSignals.cfg` (`SignalsKept`: a signal lost by continue-as-new), `MCDriverDag.cfg`
(`DagIsTheFormulas`: the stored DAG leaves a driver out), `MCAgentDraft.cfg` (`DraftIsStored`: an
answer that speaks of a draft nobody stored), `MCSettlementPartial.cfg` (`CompensationRestores`: half
a preimage is taken for a whole one), `MCComputeCap.cfg` (`CapIsExact`: a fold-in starts the count of an
execution's children anew) and `MCDirtyTwice.cfg` (`PlanIsPartition`: a scenario named twice
in a request). `MCSettlementReopen.cfg` is also the short instance of
`Overtaken`.

What the violation runs contradict is quoted in `PROJECT.json` under "findings".

**The findings in words.** (1) Service keys are derived from the shock set alone. When a shock set was
rolled back, `reserve_revision` frees the row's key for a new revision, but the service's keys remain,
with RELEASED commitments under them. The new run's POSTs are answered 200 with those, the answer's
`state` is not looked at, and the plan is COMMITTED without funds. (2) A successor closed by a cancelled
run can be reopened; the reservation is then no longer retired and is reused, below a revision that was
committed in the meantime. (3) `publish_to_cube` writes two stores; a run that ends between them leaves
rows in the cube under a RESERVED row, and `_fail` does not roll back. (4) Between `reserve_revision`
and `ensure_target_version` an accepted shock is dropped if the reserved revision turns out to be
settled; in SAVING_DRAFT it is added to the payload after the last read of the restart flag. (5)
Continue-as-new forgets the cancel flag, the held decision and the restart flag. (6) An audit row's id is
drawn before its writer takes the advisory lock, and both the trigger and the verifier order rows by id.
A transaction that is overtaken between the two adds a row *behind* the tail: it points forward, the row
appended next finds the old tail again, and two rows point at one. `verify_audit_chain` then reports a
log nobody touched as broken; `HonestLogVerifies` and its theorem say that this is the only way it can.
(7) The ledger is a ReplacingMergeTree keyed by the line alone: a merge keeps the newest version, so the
July numbers the seed promises to AS OF are gone once ClickHouse has merged. (8) `vintage_delta` decides
from both closes together whether costs change sign, each report from its own lines. (9) ESCALATED may go
to REVIEWED and from there to OPEN. (10) A semi-additive measure is refused over two periods but not over
a quarter. (11) `save_planning_model` derives the DAG from formulas it does not save. (12) `save_driver`
answers DRAFT for an ACTIVE driver, and the bindings of DRAFT drivers are used. (13) A plan that calls
itself a proposal is answered DRAFT, stored or not. (14) A preimage copied in part is taken for whole by
the next attempt's existence check, and a rollback after a merge leaves a hole. (15) Folding a shock in
leaves the first revision RESERVED with its key open. Asked for again after another revision was committed, it is published below that one:
the cube never shows it, and both stay COMMITTED with their reservations. The proof of `SurfacesAgree`
found this: with `Overtaken` open, the step of the reservation could not be proved. With two drivers, two
values and three revisions it takes 34 steps, more than a full search here can reach. (16) Requests are
checked for their set of scenarios, and the cut runs over the list: one that names a scenario twice has
two children for each of its partitions, against "no two children can ever write the same row".
`PlanIsPartitionAlways` needs `ScenariosDiffer` for it; the numbers survive. (17) The cap on an
execution's children is counted in a local variable of `_compute`, which a folded-in shock makes
`_execute` call again in the same execution. "A run never starts more children than it was allowed" is
true of one pass; an execution may start its cap once more for every shock folded into it, and no more
(`HistoryIsBounded`).

### Bounds, and why they are enough

- `commitment_service`: three slots let two requests race while a third releases what they race for;
  two keys tell a row of the right key from one of another; one id fewer than requests makes a third
  insertion impossible, so a POST without a key competes with the keyed ones. One revision is enough
  as the revision is copied, never compared. Requests, keys and ids are symmetric.
- `settlement`: two drivers, so that one re-forecast moves a line the other does not and a cumulative
  set differs from the request; one value, two categories, so that a commit can be half done; revisions
  2 and 3, so that one revision replaces another and may be rolled back over it; two attempts for each
  bounded policy, so that a second attempt meets what the first left (the code has 5 and 30: further
  attempts meet the same partial states). Drivers are symmetric.
- `settlement_open`: one revision and two values; symmetry is off because liveness is checked.
- `compute_phase`: three drivers, of which one may be published already and one is bound to no line, so
  that runs with nothing to do exist and folding in may or may not change the partitions; two
  partitions per driver, batches of two, a cap of three, so that the cap cuts a batch short.
- `governance`: two users, of whom one plans and the other is controller and CFO, as seeded: one person
  for each side of every rule. Two sessions are what a race needs, the worker using either. One rate:
  setting it again still counts as a change. `MaxEvents` = 4 bounds the transactions that get as far as
  their audit row: submit, review, approve and one more, which may be the lock, a competing edit or the
  worker's whole approval. Sessions are symmetric.
- `dirty_set`: four lines in two scenarios and two months, a target and a batch of two: one partition
  has a full batch with nothing after it, the others a short one; months are cut apart, and fit together
  once the edited library moves fewer lines. Two threads are a given-up attempt and its replacement, or
  two partitions at once. Two attempts for each of two executions of a child, so that both a delivered
  heartbeat and the loss of it with an execution happen (the code has eight of each); two runs, one
  edit. `MaxConcurrent` = 2 makes two batches, and so a continue-as-new. Four drivers: a chain of two
  edges, a driver two shocks reach, one that is bound to nothing. Threads are symmetric.
- `variance`: seven keys are a year of history, three matched revenue lines in two companies and two
  practices, a matched cost, and an intercompany sale that must not be read; one line is posted twice in
  one close. Prices and rates differ per key, so that no two legs can cancel, and `Scale` = 60 makes the
  average plan prices of these lines exact. Two of the keys are restated, with every fate. The eleven
  questions put AND and OR in either order, measures among dimensions, and each time function on and off
  the edge of the year; scopes are all subsets of the companies and closes both. One ad hoc report and
  one merge are enough because reports do not meet, and a second merge only takes another key away. What
  depends on the ledger alone is evaluated before anybody asks (`LedgerAlone`).
- `driver_library`: three codes, two of them seeded, and formulas that nest calls, close a loop through
  two others, cut one with a lag, or must be refused; two libraries, one that leaves a driver out. A
  planner, who may save drivers, and a controller, who may save both. `MaxSaves` = 4: a loop of three
  takes three saves and one more is made against it.
- `agent_team`: two figures tell a moved ledger from a still one; one company, so that a scope is whole
  or empty; two deciders and the asker, two requests that overlap, two run ids as there are two attempts.
  One tool call per attempt, as a second repeats the first. The ledger moves only while the question is
  open, as nothing reads it before or after. Figures, deciders and requests are symmetric.
- The violation runs use the smallest instance that shows the behaviour.

`CHECK_DEADLOCK FALSE` is given where the system stops: in `DriverLibrary` the saves run out, in
`AgentTeam` the question is answered and the proposals are decided, in `VarianceReport` every report is
closed; in `Governance` and `AuditChain` the ids run out,
which is a bound of the model (that no two transactions wait for each other is `LocksInOrder`), in
`ComputePhase` and `DirtySet` the run ends, and in
`Settlement` the revisions up to `MaxRevision` run out (`Begin` needs a free one), which is a bound of
the model and not a state of the code.

### Fairness

`FairSpec` of `Settlement` is weak fairness of `RunStep`, the disjunction of the run's own steps and
its timer. Temporal redelivers a task until a worker takes it, an attempt ends by its start-to-close
timeout at the latest, the policies bound the attempts, and the park has a deadline: so some step of the
run always happens. People and ClickHouse owe nothing. `FairSpec` of `ComputePhase` is weak fairness of
the coroutine and of the children, for the same reasons; the handlers and the failure of an activity
are never forced. Under weak fairness of a disjunction TLC may choose which step is taken, so
termination does not rest on success.

`DirtySet` states no liveness: its attempts are bounded and its progress is that of `ComputePhase`,
where `RunsToTheGate` treats a child as one step. `VarianceReport`, `DriverLibrary` and `AgentTeam` state
none either: a person asks, and a request that fails is not repeated by anybody but a person; the two
attempts of a question are bounded by `TypeOK`.

### Properties and mutants

Every property of a passing run has a mutant, an operator beside the one it replaces that changes it as
a plausible bug would (`SweepDoneAnyway` forgets to raise what is outstanding, `EarlierOrOwn` turns `<`
into `<=`, `RestoreNothing` takes deleting for undoing, ...). TLC finds the property violated with it.

## 4. Proofs

For every value of the constants:

| Theorem | Says |
|---|---|
| `CommitmentServiceProofs!TypeCorrect` | `Spec => []TypeOK` |
| `CommitmentServiceProofs!OneRowPerKeyAlways` | `Spec => []OneRowPerKey` |
| `CommitmentServiceProofs!SameKeySameAnswerAlways` | `Spec => []SameKeySameAnswer` |
| `CommitmentServiceProofs!Refinement` | `Spec => ImplementsLedger` |
| `SettlementProofs!TypeCorrect` | `Spec => []TypeOK` |
| `SettlementProofs!PublishedOnlyLockedAlways` | `Spec => []PublishedOnlyLocked` |
| `SettlementProofs!NeverSilentlyPublishedAlways` | `Spec => []NeverSilentlyPublished` |
| `SettlementProofs!NothingStrandedAlways` | `~LateFoldIn ⊢ Spec => []NothingStranded` |
| `SettlementProofs!NeverUnfundedAlways` | `~LateFoldIn, ~Repeats ⊢ Spec => []NeverUnfunded` |
| `SettlementProofs!CompensationRestoresAlways` | `~PartialPreimage ⊢ Spec => CompensationRestores` |
| `SettlementProofs!SurfacesAgreeAlways` | `~LateFoldIn, ~Repeats, ~PartialPreimage, ~Overtaken ⊢ Spec => []SurfacesAgree` |
| `GovernanceProofs!ChainHonestAlways` | `ChainSpec => []HonestLogVerifies`, of the audit chain by itself |
| `DirtySetProofs!TypeCorrect` | `Spec => []TypeOK` |
| `DirtySetProofs!CountedIsWrittenAlways` | `Spec => []CountedIsWritten` |
| `DirtySetProofs!PlanIsPartitionAlways` | `ScenariosDiffer ⊢ Spec => []PlanIsPartition` |
| `DirtySetProofs!FactorsAreNumbers` | the engine's factors are the numbers by closed sets, for every dag |
| `DirtySetProofs!ParkedIsComputedAlways` | `Spec => []ParkedIsComputed` |
| `VarianceReportProofs!ReportStandsAlways` | `Spec => ReportStands` |
| `VarianceReportProofs!DrillAgreesAlways` | `Spec => []DrillAgrees` |
| `VarianceReportProofs!TypeOKAlways` | `Spec => []TypeOK` |
| `VarianceReportProofs!DeltaExplainsAlways` | `Spec => []DeltaExplains` |
| `VarianceReportProofs!BridgeAddsUpAlways` | `Spec => []BridgeAddsUp` |
| `VarianceReportProofs!ReadsAreWholeAlways` | `Spec => []ReadsAreWhole` |
| `VarianceReportProofs!BridgeTiesAlways` | `RatesAreSmall ⊢ Spec => []BridgeTies` |
| `DriverLibraryProofs!TypeOKAlways` | `Spec => []TypeOK` |
| `DriverLibraryProofs!LibrarySoundAlways` | `Spec => []LibrarySound` |
| `DriverLibraryProofs!EditsReplaceWhatWasReadAlways` | `Spec => EditsReplaceWhatWasRead` |
| `DriverLibraryProofs!DetectCyclesIsExact` | `DetectCycles(graph) <=> NeedsItself(graph)` for every finite graph |
| `DriverLibraryProofs!DependenciesAreReadNow` | a formula that parses needs `ReadNow` of its tokens, and reads all of it |
| `AgentTeamProofs!TypeCorrect` | `Spec => []TypeOK` |
| `AgentTeamProofs!DecisionStandsAlways` | `Spec => []DecisionStands` |
| `AgentTeamProofs!Refinement` | `Spec => ImplementsApproval` |
| `AgentTeamProofs!AnswersBacked` | `Spec => []AnswersAreBacked` |
| `GovernanceProofs!TypeCorrect` | `Spec => []TypeOK` |
| `GovernanceProofs!AgreedIsReviewedAlways` | `Spec => []AgreedIsReviewed` |
| `GovernanceProofs!LockedIsFinalAlways` | `Spec => LockedIsFinal` |
| `GovernanceProofs!NoLostUpdateAlways` | `Spec => NoLostUpdate` |
| `GovernanceProofs!HonestLogVerifiesAlways` | `Spec => []HonestLogVerifies` |
| `GovernanceProofs!LocksInOrderAlways` | `Spec => []LocksInOrder` |
| `GovernanceProofs!LogAgreesAlways` | `Spec => []LogAgrees` |
| `ComputePhaseProofs!TypeCorrect` | `Spec => []TypeOK` |
| `ComputePhaseProofs!HistoryIsBoundedAlways` | `Spec => []HistoryIsBounded` |
| `ComputePhaseProofs!ParkedIsWholeAlways` | `Spec => []ParkedIsWhole` |
| `ComputePhaseProofs!CancelLeavesNothingAlways` | `Spec => []CancelLeavesNothing` |

What stands before `⊢` is assumed of the constants by that theorem alone. All of them rest on the named
assumptions of the modules (`KeysAssumption`, `BodyAssumption`, `SettlementAssumption`,
`DirtySetAssumption`, `CellsAssumption`, `DagsAssumption`, `LedgerAssumption`, `ScaleAssumption`, `ScenariosAssumption`, `InstantsAssumption`,
`PostedAssumption`, `StagedAssumption`, `QuestionsAssumption`, `LevelsAssumption`, `NoneIsNothing`, `TeamAssumption`,
`GovernanceAssumption`, `ComputeAssumption`, `NumbersAssumption`, `LibraryAssumption`, `SeedAssumption`), which TLC evaluates in the runs: finite sets of lines, keys
and drivers, whole amounts, positive bounds, roll-ups no deeper than a key's path, null values that
are no member of the set they stand beside, lines whose month and scenario are the plan's
(`CellsAssumption`: the months are read from the frozen baseline, and `resolve_dirty_set` refuses a
request for other scenarios), questions with one connector between every two filters, as the parser
makes them, and offsets that are not negative (`QuestionsAssumption`), libraries without a cycle (`DagsAssumption`: both writers of
`calc_order_dag` call `detect_cycles` first), numerals that are no punctuation (`NumbersAssumption`), and
a seeded driver library that passes the validation every save passes (`SeedAssumption`: which is what
`tests/test_seed_model.py` asserts of the seed).

**CommitmentService.** `OneRowPerKey` is not inductive with respect to what a request believes: a
request at `select` must find a row, and one at `reply` must name the row of its key. `IInv` adds
`CallKnows` (what each step of a request has established) and `AnswerStands` (an answered pair is a row
of the table). Rows are never deleted and keys never change (`KeysKept`), which keeps both. The
refinement is one lemma per kind of step: an insertion is `Reserve` of a key that had no row
(`InsertView`), a release is `Release` if the row has a key and a stutter otherwise (`UpdateView`), and
every other step leaves the view alone (`SameRowsSameView`). The view picks a row with CHOOSE; only
`OneRowPerKey` makes it the row the step was about (`OnlyRow`).

**Settlement.** `PublishedOnlyLocked` says that a row of revision r in the cube has a locked, covenanted
successor. It is not inductive: a rollback puts rows back from the preimage, and a publish depends on a
verification several steps earlier. `GateInv` adds that an APPROVED or LOCKED successor has its covenant
(`Reviewed`), that the run is past the gate only with its own successor agreed (`RunIsAgreed`), and that
whatever the cube or a preimage holds is agreed (`CubeIsAgreed`, `SavedIsAgreed`). The reason all of it
survives the people is that nothing leads out of LOCKED: no declared transition, no clean-up, no
covenant change (`VersionMoves`). The proof holds with all five constants as they please: part of a
preimage is a subset of rows that are agreed.

The other five properties are one invariant each on top of that, in the order of the module.

- *NeverSilentlyPublished* (`RowsInv`) says who answers for a row while a run is writing or rolling back:
  every row of the cube and of a preimage is of the plan, of a COMMITTED or SUPERSEDED revision, or of a
  run that failed aloud, except for the open run's own rows between its publish and its rollback; and no
  run finds a row of its own revision before that. It needs nothing assumed.
- *NothingStranded* (`ReleaseInv`): a commitment was made by a publication with the shock set of its key,
  and a sweep's list misses nothing of what is held under the run's payload (`Swept`). A shock folded in
  late makes the payload another set than the row's, and the POSTs go under a key no later sweep looks at.
- *NeverUnfunded* (`FundInv`): a published revision's key is open, an open key is one revision's, and a
  commitment under the payload of a run that is committing was never released (`Posted`), so a POST
  answered is budget held. An older revision loses its own only when a newer one stands that no run can
  still take back (`Replaced`). A repeated request would post under released keys.
- *CompensationRestores* (`RestoreInv`): at every step between publish and rollback each line can go back
  to what it showed when the run began. Either the preimage has the row that goes back, and nothing else of
  an earlier revision is newer than it; or the line had no row; or its row was never touched
  (`Restorable`). Merges may take any overwritten row away; a preimage copied in part would break it.
- *SurfacesAgree* (`AgreeInv`) leans on the other four. While nothing failed aloud there is at most one
  committed revision besides the one the open run is handing over to (`OneBefore`), it is below the run's
  own (`AboveBefore`), the run's set contains its set and is staged whole (`Cumulative`, `AllStaged`), and
  the cube shows the one or the other according to where the run is (`CubeStands`). `AboveBefore` is what
  `Overtaken` breaks, and how that finding was made.

**AuditChain.** `HonestLogVerifies` needs to know that a row about to be committed still points at the
tail. `CInv` adds that an id drawn is nobody else's (`OwnId`), and that whoever has linked holds the lock
alone, so that the tail it found is still the tail and, unless it was overtaken, below its own id
(`StillTail`). Only a commit moves the tail, and only the holder commits a linked row.

**DirtySet.** `CountedIsWritten` depends on cursors recorded many steps, and several attempts, earlier.
`DInv` says what a cursor stands for: every line before it is in both stores (`Written(.., Before(..))`),
for the delivered heartbeat of each open child and for the offset of the attempt that is waited for,
whose recorded cursor is never ahead of it (`Sound`). Two facts carry it: rows are never taken out of a
store while a child is open (`StoresGrow`, for the zombies as well), and a page with what came before it
is what comes before the next, a short page being the last (`NextPage`, `ShortPage`, from the
cardinalities of FiniteSetTheorems). `TypeCorrect` follows from the same invariant, because a heartbeat
is a number only if the thread that is waited for is at work.

`PlanIsPartition` and `ParkedIsComputed` rest on what the engine computes, which is three recursions; each
is shown to exist (`CutExists`, `PlanExists`, `WalkExists`) and then followed by `CountingUp`, an induction
over a set of numbers that the provers can instantiate. For the cut, `CutOk` says what holds after each
month: the closed partitions and the open one take in exactly the cells with a line, apart from each
other, each with its count (`CutGrows`); `PlanSplits` joins the scenarios. That no cell is in two
partitions needs the scenarios to differ (`ScenariosDiffer`), which no code checks: finding (16). For the
walk, `Downstream` says that it stops at the least closed set, since it grows by a driver at every level
until it does, and `MovesAre` that in a dag it never returns to the shock; so a ratio is 1 or 0 and the
factors are `Numbers`. `Inv` then follows a run: while no later execution has read another library,
every attempt, abandoned ones included, has the factors of one dag and selects among its dirty lines, a
row of either store is absent or the line's own (`Numbered`), and the partitions behind the cursor, or
answered in the open batch, are counted (`Complete`, `Finished`). The cursor that continue-as-new carries
means the same partitions in the next execution because the plan is a function of the dag. A parked run
has the cursor at the end of the plan, so every dirty line is counted, and by `DInv` written.
`ParkedIsComputed` does not need the scenarios to differ: two children that write the same row write the
same numbers.

**VarianceReport.** `ReportStands` is an action property of one stored report. `ReportInv` adds what
makes it survive: a stored report has its six columns and a status of the five (so a moved report is
never mistaken for none), and one that is closed was closed by a human closer over all it cites. What a
report says does not enter this proof. Each action that writes a report writes one (`OneWritten`): a first report where there was none (`FirstStands`), or a move
(`SetStatusStands`). The constant list of scenarios is only assumed to be a sequence.

`DrillAgrees` (`DrillInv`) is about two reads some closes apart: rows are only added under newer versions
and taken away by a merge, which `merged` remembers, so the vintage subquery at the report's close still
finds the row it found (`VintageStands`). `TypeOK` (`TypeInv`) includes that a report's residual is an
integer, so it needs the arithmetic already.

The rest is about sums over finite sets of lines. `SumFunction` is a fold; `SumExists` and `SumsAgree`
show once that it is the sum, whatever order the fold takes, and `SumOfUnion`, `SumAdds`, `SumScales`,
`SumOfParts` and `SumRenamed` are what the proofs cite. The library's induction theorems cannot be used
here (see below), so `SubsetInduction` and `CountingUp` state induction over a finite set, and over an
interval, for a predicate given as the *set* of what satisfies it. The tree of a decomposition is a
recursive function, shown to be the fixed point it is written as (`TreeIsMade`). `DeltaExplains` splits
both closes by their keys (`SplitByKeys`, `DeltaAddsUp`). For `BridgeTies`, a line's amounts tie exactly
(`LineTies`), sums of lines therefore do up to their rounding (`ResidualIsRounding`), and a node's children
partition its lines, so legs and volumes add up (`LegsSum`, `VolumesSum`). The hard part is mix: that the
quantity variance is the volume at the average price and the mix at every level is proved from the leaves
up (`AllMixed`), and with it that the code's fold of the leftover into mix never moves anything. A forecast
read with two levels and with three is the same lines under renamed keys (`Twins`). None of this depends on
`Scale`, so it does not depend on the average price being exact. The table's check does depend on data:
half a cent at a line's rate and half a cent for each of eight amounts must stay below the tolerance, a
dollar up to 100 lines and a cent per line beyond. `RatesAreSmall` says so: true of rates up to one for any
number of lines and of a rate of two for up to 95. It is assumed by `BridgeTiesAlways` alone;
`BridgeAddsUpAlways` is everything else without it.

`ReadsAreWhole` compares two ways of reading, and the ledger enters only by the keys of its rows. A chain
of filters is a recursive function; `IsJoin` says what such a chain is, `JoinExists` that there is one,
and `JoinedByAnd`, `JoinsAgree` and `JoinOfTrue` what it comes to where nothing is joined by OR, where two
chains have the same filters, and where all filters hold. `FiltersSplit` then is the reason for the rule
on OR: with AND alone the formula is the filters of either kind together, and with an OR only one kind is
there, so that the other half asks nothing and the connectors keep their places. Without the rule it is
false, as the mutant of `ValidateQuery` shows. `SourceWithin` takes keys and scope inside the vintage
subquery, since a row supersedes rows of its own key only. HAVING keeps or drops a cell whole
(`CellIsKeptWhole`), and so does a range of months (`SeriesWithin`); every frame of a month asked for lies
in the widened range (`RangeHasFrames`, one case per function: year and quarter starts by division,
the others by the offset), so windows over that range are windows over all of history (`WindowsWithin`).

**DriverLibrary.** `LibrarySound` is stated with the reference definitions and what the code validates by
is the parser and the search, so most of the proof is about these two, for every formula and every graph.

*The search* (`DetectCyclesIsExact`). The recursive function exists because each call has less left to do,
`Left`: drivers off the branch first, names pending second (`SearchUnfolds`). Its answer is `Right`, by induction
on the same number: a search that found nothing has completed a set of drivers that holds what it was asked
for and, with a driver, everything that driver needs, and none of which needs itself; one that found a loop
has a driver that does. The mutant `VisitDoneFirst` is refuted exactly there.

*The parser* (`DependenciesAreReadNow`). Its function asks itself about later positions or a tighter layer,
`Ahead`, and every layer ends further on than it starts (`ReadingIsLocal`, `ParseUnfolds`). By induction on
the same number every reading is `Faithful`: the stretch of tokens it took is balanced in parentheses and
has no comma outside of them, so no parenthesis reaches across its ends (`ClosedBehind`); therefore the
names needed in two stretches are those of the one and those of the other (`NeededSplit`), parentheses that shift
nothing add and hide none (`NeededInside`), and of a time-shifting call exactly the first argument, up to the
first comma one level in, is hidden (`FirstIsShifted`, `RestIsNotShifted`, `ReadsShifted`). `ReadNow` looks
for enclosing calls from the start of the text, however many there are; the induction only ever looks within
a stretch.

*The lock.* `IInv` is `TypeOK`, `InFlight`, `SeenIsSaved` and `LibraryValid`. `InFlight` says what each step
of a save has established about what is committed *now*: past `CheckVersion` the version it brought is the row's,
past `Validate` the formula is accepted and the graph it carries is that of the library with the formula in it. It is
stable because whoever is in flight holds the model's row (`TypeOK`'s last part) and `save_planning_model`
writes no driver; without the lock it is false, and the mutant `LockModelNot` shows so. `SeenIsSaved` (a
driver somebody has listed is never taken away) is what makes "none" mean a new driver in
`EditsReplaceWhatWasRead`. A driver added or edited cannot invalidate another's formula, as names are only ever
added to the library (`ValidOfMore`).

**AgentTeam.** `DecisionStands` is the invariant: a request that has loaded its row read it decided, the
decision has not moved since, and a result was told that verdict. With it `Decide` of a pending row is
`Approval`'s Decide, of a decided one a stutter, and `KeepContinuation` is Keep of the decided verdict or
a stutter; a pause is Propose or, by the run id, a stutter. `AnswersBacked` rests on the types and on the
fact that a proposal's asker and scope never change and that its asker never becomes its decider.

**Governance.** Three families of facts hold together. `PlanInv`: the row always satisfies the table's
constraints and names a controller if it names an approver, each transaction's request is one its
caller was entitled to make, and whoever holds the row has written it, on a locked version the row as it
was. That makes `AgreedIsReviewed` and `LockedIsFinal` survive any interleaving, the worker's approval
without a row version included. `LogInv` is the audit chain's own `CInv`, instantiated, with
`AppendsFollow` and `LinkedHold`: a transaction's progress in the log is that of its progress in the plan.
`ChainStep` shows that every step of `Governance` is a step of `AuditChain` or none, so
`HonestLogVerifies` comes from the other module's lemmas. `ReadInv` bounds what a client has read by
what is there: an older row version is strictly older (`ReadsAge`), so one that still matches at the
UPDATE is the newest, and the row lock keeps it so until the commit (`NoLostUpdate`). `LogAgrees`
(`DeedInv`) relates the committed version to audit rows that commit in another order than they were drawn
and may be dropped as repeated: what the holder of the row lock has written is what its own pending audit
row says (`HolderDoes`), a person's row is new by the row version it names, and only the worker goes on
without the lock, when it has changed nothing.

**ComputePhase.** `HistoryIsBounded` takes two invariants. `BatchInBounds` (a batch ends at the dirty set's
end, at the cap and at the concurrency bound) bounds one pass of `_compute`; it rests on what the next
children are, the least of an interval (`LeastOfInterval`). `SpentInBounds` bounds the passes: every pass
but the first is paid for by a shock of its own among `joined`, and while the restart flag is up one shock
is still unspent (`FlagIsPaid`). A fold-in raises the flag and adds a shock that was not there
(`JoinedIsCounted`), a restart spends one, and continue-as-new clears both sides. `ParkedIsWhole` and `CancelLeavesNothing` need what an execution hands to the next:
`Coherent` says that, as long as nothing has slipped, only the current revision has rows, that they are
the partitions before the cursor and not yet running, computed from that revision's set (`OnlyOurs`), and
that the payload, the revision and the factors agree unless the restart flag is up (`InStep`). Two facts
make continue-as-new harmless: merging the published set a second time changes nothing (`MergedOnce`),
and no accepted driver is ever taken out of the set (`Carried`). A run that failed may leave children
that still write; they write under its own revision, and it ends neither parked nor cancelled.

Only model-checked: liveness (`RunEnds`, `RunsToTheGate`), since it rests on fairness, and the provers
have no ENABLED; and, by their nature, the properties of the violation runs. Every other property of a
passing run is stated by a theorem. The library's induction theorems take an operator as a parameter, which
none of the installed provers can instantiate; where induction was needed it is over sets, as above, which is
also how the recursive functions of `Engine`, `Bridge`, `LedgerRead` and `Formula` are shown to be what they
are written as.

## 5. What is left out, and why

- Roles and identities in `Settlement`: `Approve` is a decision by somebody entitled to it; a refused one leaves the run
  parked and is no step. The source plan is taken to be APPROVED or LOCKED, which `_execute` checks.
- In `Governance`: creating a version (an INSERT under a fresh code), roles that change while a request
  runs, and the comments of an approval.
- In `VarianceReport`: metric formulas of the registry (a measure is a sum of quantities there), SQL text,
  parsing a query, row budgets, `reconciliation.py` (it compares two reads and stores nothing), and a body
  that narrows the caller's companies, which `ReadsAreWhole` covers by taking every subset as a scope.
- In `DriverLibrary`: more than one effective date per driver (the API has one; `_model_schema` would
  keep one formula of several), units and value types, RETIRED, which nothing sets. A formula is given as
  its tokens: how a text falls into them is left out, with the strings and comparisons no formula may hold.
  (The tokenizer knows the months of a period by the `-` before them, so `rate-12` and `rate-100` are refused
  as formulas, while `rate - 12` and `rate-9` are not.)
- In `AgentTeam`: masking and the guardrails' text, delegation between members (it is model turns and
  tool calls like any other), API keys, and the direct FinOpsExpr path, which is `Finalize` alone. Figures
  a narrative takes from the query's own text are not figures of the ledger and are left out.
- Amounts, FX and rounding: a line's number is determined by its driver's value (`Settlement`) or by
  the factors multiplied into it (`DirtySet`). The derivation trace is left out.
- In `DirtySet`: edits of bindings or of a driver's status between the two readings of one execution
  (they are two reads, and the model takes the edges as what may change), a shock folded in (see
  `ComputePhase`), and the count an attempt returns.
- `_mirror` and `recompute_run`, the audit rows. `compute_variance` may fail in `Settlement`; what it
  stores is in `VarianceReport`.
- Temporal's own cancellation: the client sends `cancel_run` instead.
- A partial copy of the baseline, and of the staged rows into the cube, inside one ClickHouse statement
  (the preimage's is modelled; a repeated publish completes its own), attempts of other activities than
  `evaluate_partition` that outlive their timeout, and POSTs that land after the sweep: listed as hazards,
  planned.
- The compute phase inside `Settlement` is one step per line; the two modules meet at the reservation
  and at the park and are not composed yet.

## 6. Plan

In order of importance; done so far are the modules and proofs above.

1. Composition of `ComputePhase` with `Settlement`'s reservation, and late POSTs and zombie attempts in
   `Settlement`; the requester of each run, and the shock set a decision was made on; the baseline's copy.
2. The tokenizer, and creating versions in `Governance`.

## 7. Running

```
tlc -config MCSettlement.cfg MCSettlement
tlapm SettlementProofs.tla
```
