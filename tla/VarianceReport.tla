--------------------------- MODULE VarianceReport ---------------------------
(***************************************************************************)
(* Variance reports (src/src/fpa_project/bridge_service.py) over a ledger  *)
(* whose closes are being recorded, restated and merged while people ask:  *)
(* fact_gl_actual and dim_ledger_vintage as data/seed_fpa.py makes them,   *)
(* run_bridge with its two reads, compute_variance with its retries, the   *)
(* report's tables with their constraints and trigger (migrations 006 and  *)
(* 010), and the endpoints of app.py that read and move a report.          *)
(***************************************************************************)
EXTENDS LedgerRead, Bridge

CONSTANTS Users,
          UserInfo,       \* scope, whether a human, whether controller or CFO
          Posted,         \* the rows of the first close
          Restatable,     \* the keys the second close looks at again
          Trued,          \* Trued[q] is what a restatement makes of quantity q
          BridgeQueries,  \* the cuts people bridge
          Questions,      \* the plain and monthly questions people ask
          Scenarios,      \* the scenarios of a forecast, in order
          Staged,         \* Staged[s][k] is quantity and price of the re-forecast
          Instants,       \* the timestamps AS OF may name
          AdHoc,          \* bound: ids drawn for the reports people run
          MaxMerges,      \* bound: rows dropped by merges
          Materiality,
          NoRun, NoUser

ASSUME ScenariosAssumption == Scenarios \in Seq(ToSet(Scenarios)) /\ Len(Scenarios) > 0
ASSUME InstantsAssumption == Instants \subseteq Nat
ASSUME PostedAssumption ==
  /\ IsFiniteSet(Posted) /\ Posted \subseteq Row
  /\ \A r \in Posted : r.version = 1 /\ (r.key \in Restatable => Trued[r.quantity] \in Nat)
  /\ \A r, s \in Posted : r.key = s.key /\ r.voucher = s.voucher => r = s
ASSUME StagedAssumption ==
  \A s \in ToSet(Scenarios) :
    /\ IsFiniteSet(DOMAIN Staged[s]) /\ DOMAIN Staged[s] \subseteq Keys
    /\ \A k \in DOMAIN Staged[s] : {Staged[s][k].quantity, Staged[s][k].price} \subseteq Nat
ASSUME QuestionsAssumption ==
  \A q \in Questions :
    /\ q.where \in Seq(ToSet(q.where)) /\ \A filter \in ToSet(q.where) : filter.on \in {"dimension", "measure"}
    /\ DOMAIN q.connectors = 1 .. Len(q.where) - 1   \* the parser reads one before each further filter
    /\ IsFiniteSet(q.functions) /\ \A f \in q.functions : f.offset \in Nat
    /\ {q.from.unit, q.from.index, q.to.unit, q.to.index} \subseteq Nat
ASSUME LevelsAssumption ==
  \A q \in BridgeQueries : q.levels \in Nat /\ \A k \in Keys : q.levels <= Len(KeyInfo[k].path)

VARIABLES rows,      \* the physical rows of fact_gl_actual
          merged,    \* the rows background merges have dropped from it
          closes,    \* how many closes dim_ledger_vintage records
          due,       \* the last close is recorded, its rows are not yet there
          run,       \* a run_bridge between its two reads
          computing, \* the scenario compute_variance is at, 0 when it is not running
          report     \* report[id] is the stored report

ledger == <<rows, merged, closes, due>>
vars == <<ledger, run, computing, report>>

Forecasts == ToSet(Scenarios)
Ids == AdHoc \cup Forecasts
Status == {"OPEN", "INVESTIGATING", "ESCALATED", "REVIEWED", "CLOSED"}
NoReport == [status |-> "NONE"]   \* nothing stored under an id

(***************************************************************************)
(* The lines a report is decomposed from.                                  *)
(***************************************************************************)
LedgerLine(r, q) ==
  LET k == KeyInfo[r.key]
  IN [key |-> r.key, path |-> SubSeq(k.path, 1, q.levels), cost |-> k.cost,
      pq |-> k.plan, aq |-> r.quantity, pp |-> k.planPrice, ap |-> k.price, pf |-> k.pf, af |-> k.af,
      plan |-> StoredAmount(k.plan * k.planPrice), actual |-> StoredAmount(r.quantity * k.price)]

LinesAt(q, scope, asOf) ==
  {LedgerLine(r, q) : r \in CompileBridge(q, scope, rows, VintageAt(closes, asOf))}

(* Baseline against the re-forecast; the rate is the plan's on both sides. *)
ForecastLines(s, levels) ==
  {LET info == KeyInfo[k]
       staged == Staged[s][k]
   IN [key |-> k, path |-> SubSeq(<<info.account, info.company, info.month>>, 1, levels), cost |-> info.cost,
       pq |-> info.plan, aq |-> staged.quantity, pp |-> info.planPrice, ap |-> staged.price,
       pf |-> info.pf, af |-> info.pf,
       plan |-> StoredAmount(info.plan * info.planPrice),
       actual |-> StoredAmount(staged.quantity * staged.price)] : k \in DOMAIN Staged[s]}

AllTie(tree) == \A path \in DOMAIN tree : TiesWhenStored(tree[path])
Stored(lines, levels) == AllTie(Decompose(lines, levels, "volume_first"))

RootGap(lines) == Gap(Decompose(lines, 0, "volume_first")[<<>>])

(***************************************************************************)
(* A report: the close it names (0 for a forecast, which names none), what *)
(* it cites, its gap and where it stands.  settled says that no close was  *)
(* recorded or restated between the two reads of the run and none was due. *)
(***************************************************************************)
NewReport(vintage, lines, settled) ==
  LET gap == RootGap(lines)
  IN [vintage |-> vintage, settled |-> settled,
      cited |-> {[key |-> line.key, amount |-> line.actual] : line \in lines},
      gap |-> Rounded(gap),
      status |-> IF Absolute(gap) >= Materiality THEN "ESCALATED" ELSE "OPEN",
      closedBy |-> NoUser]

CitedKeys(r) == {c.key : c \in r.cited}

ReportInScope(r, companies) ==
  /\ r # NoReport
  /\ CitedKeys(r) # {} /\ CitedKeys(r) \subseteq ScopeKeys(companies)

Init ==
  /\ rows = Posted /\ merged = {} /\ closes = 1 /\ due = FALSE
  /\ run = NoRun /\ computing = 0
  /\ report = [id \in Ids |-> NoReport]

(***************************************************************************)
(* The books: a close is recorded, then its rows are inserted.  Each row   *)
(* of a restated key is reversed, trued up when it is a cost, or kept.     *)
(***************************************************************************)
Unsettle == run' = IF run = NoRun THEN NoRun ELSE [run EXCEPT !.settled = FALSE]

RecordClose ==
  /\ closes = 1
  /\ closes' = 2 /\ due' = TRUE
  /\ Unsettle
  /\ UNCHANGED <<rows, merged, computing, report>>

FateOf(r) == {"kept", "reversed"} \cup (IF KeyInfo[r.key].cost THEN {"trued"} ELSE {})

\* mutant: a row restated into the close after the one recorded
RestatedRowLate(r, fate) ==
  [r EXCEPT !.version = 3, !.deleted = (fate = "reversed"),
            !.quantity = IF fate = "trued" THEN Trued[r.quantity] ELSE r.quantity]

RestatedRow(r, fate) ==
  [r EXCEPT !.version = 2, !.deleted = (fate = "reversed"),
            !.quantity = IF fate = "trued" THEN Trued[r.quantity] ELSE r.quantity]

Restate ==
  /\ due
  /\ LET old == {r \in rows : r.version = 1 /\ r.key \in Restatable}
     IN \E fate \in [old -> {"kept", "reversed", "trued"}] :
          /\ \A r \in old : fate[r] \in FateOf(r)
          /\ \E r \in old : fate[r] # "kept"
          /\ rows' = rows \cup {RestatedRow(r, fate[r]) : r \in {r \in old : fate[r] # "kept"}}
  /\ due' = FALSE
  /\ Unsettle
  /\ UNCHANGED <<merged, closes, computing, report>>

(* ReplacingMergeTree merges parts by key: of two rows it keeps the later  *)
(* version, and of two of one version either.                              *)
Merge ==
  /\ Cardinality(merged) < MaxMerges
  /\ \E old, new \in rows :
       /\ old # new /\ old.key = new.key /\ old.version <= new.version
       /\ rows' = rows \ {old}
       /\ merged' = merged \cup {old}
  /\ UNCHANGED <<closes, due, run, computing, report>>

(***************************************************************************)
(* run_bridge.  The first read names the vintage; the second reads the     *)
(* rows, and the report is stored in one transaction with all its nodes,   *)
(* or not at all.  A run that is refused or dies stores nothing.           *)
(***************************************************************************)
LookUpVintage(companies, q, asOf) ==
  /\ run = NoRun /\ \E id \in AdHoc : report[id] = NoReport
  /\ VintageAt(closes, asOf) # 0
  /\ run' = [scope |-> companies, query |-> q, asOf |-> asOf,
             vintage |-> VintageAt(closes, asOf), settled |-> TRUE]
  /\ UNCHANGED <<ledger, computing, report>>

Persist(id) ==
  LET lines == LinesAt(run.query, run.scope, run.asOf)
  IN /\ run # NoRun /\ report[id] = NoReport
     /\ lines # {} /\ Stored(lines, run.query.levels)
     /\ report' = [report EXCEPT ![id] = NewReport(run.vintage, lines, run.settled /\ ~due)]
     /\ run' = NoRun
     /\ UNCHANGED <<ledger, computing>>

EndRun ==
  /\ run # NoRun /\ run' = NoRun
  /\ UNCHANGED <<ledger, computing, report>>

(***************************************************************************)
(* compute_variance: one report per scenario, each in a transaction of its *)
(* own under an id made of the revision and the scenario.  Temporal may    *)
(* run it again from the start at any time; a report that is there stays.  *)
(***************************************************************************)
StartForecast ==
  /\ computing' = 1
  /\ UNCHANGED <<ledger, run, report>>

\* mutant: a retry stores its report over the one that is there
PersistForecastOver ==
  /\ computing # 0
  /\ LET s == Scenarios[computing]
         lines == ForecastLines(s, 3)
     IN report' = IF lines = {} THEN report ELSE [report EXCEPT ![s] = NewReport(0, lines, FALSE)]
  /\ computing' = IF computing = Len(Scenarios) THEN 0 ELSE computing + 1
  /\ UNCHANGED <<ledger, run>>

PersistForecast ==
  /\ computing # 0
  /\ LET s == Scenarios[computing]
         lines == ForecastLines(s, 3)
     IN report' = IF lines = {} \/ report[s] # NoReport THEN report
                  ELSE [report EXCEPT ![s] = NewReport(0, lines, FALSE)]
  /\ computing' = IF computing = Len(Scenarios) THEN 0 ELSE computing + 1
  /\ UNCHANGED <<ledger, run>>

(***************************************************************************)
(* The status endpoint: the caller's companies cover every citation, and   *)
(* the trigger admits the move.  A move to where it stands changes nothing.*)
(***************************************************************************)
GuardVarianceReportStatus(old, new, u) ==
  /\ old.status # "CLOSED"
  /\ old.status = "ESCALATED" => new \notin {"OPEN", "INVESTIGATING"}
  /\ new = "CLOSED" => UserInfo[u].human /\ UserInfo[u].closer

SetStatus(u, id, new) ==
  LET old == report[id]
  IN /\ old # NoReport /\ new # old.status /\ GuardVarianceReportStatus(old, new, u)
     /\ ReportInScope(old, UserInfo[u].scope)
     /\ report' = [report EXCEPT ![id] =
          [old EXCEPT !.status = new, !.closedBy = IF new = "CLOSED" THEN u ELSE old.closedBy]]
     /\ UNCHANGED <<ledger, run, computing>>

Next ==
  \/ RecordClose \/ Restate \/ Merge
  \/ \E u \in Users, q \in BridgeQueries, asOf \in Instants \cup {Current} :
       LookUpVintage(UserInfo[u].scope, q, asOf)
  \/ \E id \in AdHoc : Persist(id)
  \/ EndRun
  \/ StartForecast \/ PersistForecast
  \/ \E u \in Users, id \in Ids, new \in Status : SetStatus(u, id, new)

Spec == Init /\ [][Next]_vars

-----------------------------------------------------------------------------
Report == [vintage : 0 .. 2, settled : BOOLEAN, cited : SUBSET [key : Keys, amount : Nat], gap : Int,
           status : Status, closedBy : Users \cup {NoUser}]

(* The types; and every version in the ledger belongs to a recorded close. *)
TypeOK ==
  /\ rows \subseteq Row /\ merged \subseteq Row
  /\ closes \in Vintages /\ due \in BOOLEAN /\ (due => closes = 2)
  /\ \A r \in rows \cup merged : r.version <= closes
  /\ run # NoRun => run.vintage \in 1 .. closes
  /\ computing \in 0 .. Len(Scenarios)
  /\ \A id \in Ids : report[id] = NoReport \/ report[id] \in Report

(* What only depends on the ledger is looked at before anybody asks.       *)
LedgerAlone == run = NoRun /\ computing = 0 /\ \A id \in Ids : report[id] = NoReport

Answer(q, scope, vintage) ==
  IF IsMonthly(q) THEN CompileMonthly(q, scope, rows, vintage) ELSE CompilePlain(q, scope, rows, vintage)

(* A question that validation lets through is answered by what it means:   *)
(* splitting its filters between WHERE and HAVING, taking them and the     *)
(* scope inside the vintage subquery, and reading a widened range instead  *)
(* of all history add no row to a group or a window and lose none, at any  *)
(* close and for any set of companies.                                     *)
ReadsAreWhole ==
  LedgerAlone =>
    \A q \in Questions, scope \in SUBSET Companies, vintage \in 1 .. closes :
      ValidateQuery(q) => Answer(q, scope, vintage) = Meaning(q, scope, rows, vintage)

(* What the impact page shows for a forecast: two levels of the same       *)
(* lines, with the report it drills into once that is stored.              *)
ReforecastImpact(s) ==
  LET lines == ForecastLines(s, 2)
  IN IF lines = {} THEN NoReport
     ELSE [root |-> Decompose(lines, 2, "volume_first")[<<>>], drill |-> report[s] # NoReport]

(* The line sets anything is bridged over in this state.                   *)
LineSets ==
  {[lines |-> LinesAt(q, Companies, asOf), levels |-> q.levels] : q \in BridgeQueries, asOf \in 1 .. closes}
    \cup {[lines |-> ForecastLines(s, 3), levels |-> 3] : s \in Forecasts}

(* What the rounding of the stored amounts leaves over, at the plan's rate.*)
RoundingOf(lines, margin) ==
  Scale * SumFunction([l \in lines |->
    Sign(l, margin) * l.pf * ((l.actual - l.aq * l.ap) - (l.plan - l.pq * l.pp))])

Legs(node) == <<node.plan, node.actual, node.price, node.rate, node.efficiency, node.fx>>
AllLegs(node) == <<Legs(node), node.volume, Mix(node)>>

AgreesWithImpact(set, root) ==
  \A s \in Forecasts :
    set.lines = ForecastLines(s, 3) => AllLegs(root) = AllLegs(ReforecastImpact(s).root)

NodeTies(node, tree, set, path) ==
  LET sum(part(_)) == SumFunction([c \in Children(set.lines, path) |-> part(tree[c])])
  IN /\ Residual(node) = RoundingOf(Under(set.lines, path), Margin(set.lines))
     /\ node.folded = 0
     /\ TiesWhenStored(node)
     /\ Len(path) < set.levels =>
          /\ \A i \in 1 .. 6 : Legs(node)[i] = sum(LAMBDA n : Legs(n)[i])
          /\ node.volume + node.mixBetween = sum(LAMBDA n : n.volume)

TreeTies(tree, set, convention) ==
  /\ \A path \in DOMAIN tree : NodeTies(tree[path], tree, set, path)
  /\ set.lines # {} =>
       /\ AllLegs(tree[<<>>]) = AllLegs(Decompose(set.lines, 0, convention)[<<>>])
       /\ convention = "volume_first" => AgreesWithImpact(set, tree[<<>>])

(* The bridge ties as an identity, in both conventions and at every node:  *)
(* the residual is the rounding of the stored amounts and nothing else;    *)
(* volume and mix are the quantity variance without the fold ever moving   *)
(* anything; a node is the sum of its children, and its volume is theirs   *)
(* less the mix between them; its row passes the table's own check; and    *)
(* the root does not depend on how many levels the report rolls up by, so  *)
(* the impact page an approver reads, which has two, agrees with the       *)
(* report of three that it drills into.                                    *)
BridgeTies ==
  LedgerAlone =>
    \A set \in LineSets, convention \in Conventions :
      TreeTies(Decompose(set.lines, set.levels, convention), set, convention)

(* The bridge between two closes explains the change: restated, reversed   *)
(* and new lines add up to the difference of the two reports' own gaps, at *)
(* every node and in either order of the instants, and where the ledger    *)
(* shows no drift nothing is restated.  (The gaps are the reports' own     *)
(* when each side holds the kinds of account that both hold together.)     *)
DeltaExplains ==
  LedgerAlone =>
    \A q \in BridgeQueries, from, to \in 1 .. closes :
      LET left  == LinesAt(q, Companies, from)
          right == LinesAt(q, Companies, to)
          whole == VintageDelta(left, right, <<>>)
      IN left # {} /\ right # {} =>
           /\ \A path \in Nodes(left \cup right, q.levels) :
                LET delta == VintageDelta(left, right, path)
                IN delta.rightGap - delta.leftGap = delta.restated + delta.reversed + delta.new
           /\ (Margin(left) = Margin(right) /\ Margin(left) = Margin(left \cup right)) =>
                /\ Scale * whole.leftGap = RootGap(left)
                /\ Scale * whole.rightGap = RootGap(right)
           /\ left = right => whole.restated = 0 /\ whole.reversed = 0 /\ whole.new = 0

Lost == {r.key : r \in merged}

(* Drill-through: however long after, and whatever the books have become,  *)
(* the rows a report cites are read back at the close it names with the    *)
(* amounts it reported, unless a merge has taken the older row of the key  *)
(* away or a close was being recorded while the report was read.           *)
DrillAgrees ==
  \A id \in AdHoc :
    LET r == report[id]
    IN r # NoReport /\ r.settled =>
         \A c \in r.cited : c.key \notin Lost =>
           \E row \in CompileCitationRows(CitedKeys(r), Companies, rows, VintageAt(closes, r.vintage)) :
             row.key = c.key /\ StoredAmount(row.quantity * KeyInfo[row.key].price) = c.amount

(* A stored report stands: a retry of the activity, another run or a move  *)
(* never changes what it says, closed is final and the doing of a human    *)
(* closer who may see every company it cites, and an escalation is only    *)
(* left by being reviewed or closed.                                       *)
ReportStands ==
  [][\A id \in Ids : report[id] # NoReport =>
       LET old == report[id]
           new == report'[id]
       IN /\ new # NoReport
          /\ <<new.vintage, new.cited, new.gap>> = <<old.vintage, old.cited, old.gap>>
          /\ old.status = "CLOSED" => new = old
          /\ old.status = "ESCALATED" => new.status \in {"ESCALATED", "REVIEWED", "CLOSED"}
          /\ new.status = "CLOSED" =>
               /\ UserInfo[new.closedBy].human /\ UserInfo[new.closedBy].closer
               /\ CitedKeys(new) \subseteq ScopeKeys(UserInfo[new.closedBy].scope)]_vars

(* What data/seed_fpa.py promises of both vintages staying in the table:   *)
(* a read as of a close answers with that close's rows, whatever has been  *)
(* merged since.                                                           *)
AsOfStands ==
  \A vintage \in 1 .. closes :
    Live(ActualSource(rows, Keys, vintage)) = Live(ActualSource(rows \cup merged, Keys, vintage))
=============================================================================
