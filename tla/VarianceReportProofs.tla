------------------------ MODULE VarianceReportProofs ------------------------
(***************************************************************************)
(* Proofs about variance reports, for any ledger, any people, any cuts and *)
(* any number of reports and scenarios: which step may write a report, and *)
(* what the lines of a report add up to, and which rows a question reads.  *)
(* The middle rests on lemmas about sums over finite sets and about the    *)
(* tree of a decomposition, the last part on those about chains of filters *)
(* and about the cells a question's rows fall into.                        *)
(***************************************************************************)
EXTENDS VarianceReport, FiniteSetTheorems, SequenceTheorems, TLAPS

(* A stored report has its six columns, a status of the five, and if it is *)
(* closed, a human closer who may see all it cites.                        *)
Columns(r) ==
  r \in [vintage : {r.vintage}, settled : {r.settled}, cited : {r.cited}, gap : {r.gap},
         status : {r.status}, closedBy : {r.closedBy}]

ClosedByCloser(r) ==
  r.status = "CLOSED" =>
    /\ UserInfo[r.closedBy].human /\ UserInfo[r.closedBy].closer
    /\ CitedKeys(r) \subseteq ScopeKeys(UserInfo[r.closedBy].scope)

Sane(r) == r # NoReport => Columns(r) /\ r.status \in Status /\ ClosedByCloser(r)

ReportInv ==
  /\ report = [id \in Ids |-> report[id]]
  /\ \A id \in Ids : Sane(report[id])

(* What ReportStands asks of one report in one step.                       *)
Stands(old, new) ==
  old # NoReport =>
    /\ new # NoReport
    /\ <<new.vintage, new.cited, new.gap>> = <<old.vintage, old.cited, old.gap>>
    /\ old.status = "CLOSED" => new = old
    /\ old.status = "ESCALATED" => new.status \in {"ESCALATED", "REVIEWED", "CLOSED"}
    /\ new.status = "CLOSED" =>
         /\ UserInfo[new.closedBy].human /\ UserInfo[new.closedBy].closer
         /\ CitedKeys(new) \subseteq ScopeKeys(UserInfo[new.closedBy].scope)

AllStand == ReportInv' /\ \A id \in Ids : Stands(report[id], report'[id])

----------------------------------------------------------------------------
LEMMA StatusIsNotNone ==
  ASSUME NEW r, r.status \in Status
  PROVE  r # NoReport
BY DEF Status, NoReport

(* A new report is open or escalated, whatever its lines.                  *)
LEMMA NewReportIsSane ==
  ASSUME NEW vintage, NEW lines, NEW settled
  PROVE  Sane(NewReport(vintage, lines, settled))
<1> DEFINE r == NewReport(vintage, lines, settled)
<1>1. Columns(r) /\ r.status \in {"OPEN", "ESCALATED"}
  BY DEF NewReport, Columns
<1> HIDE DEF r
<1>2. Sane(r)
  BY <1>1 DEF Sane, ClosedByCloser, Status
<1> QED
  BY <1>2 DEF r

(* A report that is sane stands where nothing is written to it.            *)
LEMMA StandsStill ==
  ASSUME NEW r, Sane(r)
  PROVE  Stands(r, r)
<1>1. r # NoReport => (r.status = "ESCALATED" => r.status \in {"ESCALATED", "REVIEWED", "CLOSED"})
  OBVIOUS
<1> QED
  BY <1>1 DEF Sane, Stands, ClosedByCloser

LEMMA NothingWritten ==
  ASSUME ReportInv, report' = report
  PROVE  AllStand
BY StandsStill DEF ReportInv, AllStand

(* One report is written: it and the others stand.                         *)
LEMMA OneWritten ==
  ASSUME ReportInv, NEW id \in Ids, NEW r, report' = [report EXCEPT ![id] = r],
         Sane(r), Stands(report[id], r)
  PROVE  AllStand
<1>1. \A other \in Ids : report'[other] = IF other = id THEN r ELSE report[other]
  BY DEF ReportInv
<1>2. report' = [other \in Ids |-> report'[other]]
  BY DEF ReportInv
<1>3. \A other \in Ids : Sane(report'[other]) /\ Stands(report[other], report'[other])
  BY <1>1, StandsStill DEF ReportInv
<1> QED
  BY <1>2, <1>3 DEF ReportInv, AllStand

(* Where nothing is stored yet, anything sane may be.                      *)
LEMMA FirstStands ==
  ASSUME NEW r
  PROVE  Stands(NoReport, r)
BY DEF Stands

LEMMA PersistStands ==
  ASSUME ReportInv, NEW id \in AdHoc, Persist(id)
  PROVE  AllStand
<1> DEFINE r == NewReport(run.vintage, LinesAt(run.query, run.scope, run.asOf), run.settled /\ ~due)
<1>1. id \in Ids /\ report[id] = NoReport /\ report' = [report EXCEPT ![id] = r]
  BY DEF Persist, Ids
<1>2. Sane(r)
  BY NewReportIsSane
<1> HIDE DEF r
<1> QED
  BY <1>1, <1>2, FirstStands, OneWritten

(* A retry finds the report of a scenario it stored before, and leaves it. *)
LEMMA PersistForecastStands ==
  ASSUME ReportInv, computing \in 0 .. Len(Scenarios), PersistForecast
  PROVE  AllStand
<1> DEFINE s == Scenarios[computing]
           r == NewReport(0, ForecastLines(s, 3), FALSE)
<1>1. CASE report' = report
  BY <1>1, NothingWritten
<1>2. CASE report[s] = NoReport /\ report' = [report EXCEPT ![s] = r]
  <2>1. s \in Ids
    BY ScenariosAssumption DEF PersistForecast, Ids, Forecasts
  <2>2. Sane(r)
    BY NewReportIsSane
  <2> HIDE DEF r, s
  <2> QED
    BY <1>2, <2>1, <2>2, FirstStands, OneWritten
<1> QED
  BY <1>1, <1>2 DEF PersistForecast

Moved(old, new, by) == [old EXCEPT !.status = new, !.closedBy = by]

LEMMA MovedReport ==
  ASSUME NEW old, NEW new, NEW by, Columns(old),
         NEW r, r = Moved(old, new, by)
  PROVE  /\ r.vintage = old.vintage /\ r.cited = old.cited /\ r.gap = old.gap
         /\ r.status = new /\ r.closedBy = by
         /\ Columns(r)
<1>1. r \in [vintage : {old.vintage}, settled : {old.settled}, cited : {old.cited}, gap : {old.gap},
              status : {new}, closedBy : {by}]
  BY DEF Columns, Moved
<1>2. /\ r.vintage = old.vintage /\ r.settled = old.settled /\ r.cited = old.cited /\ r.gap = old.gap
      /\ r.status = new /\ r.closedBy = by
  BY <1>1
<1>3. Columns(r)
  BY <1>1, <1>2 DEF Columns
<1> QED
  BY <1>2, <1>3

(* A move: the trigger's rules, and the caller's scope over the citations. *)
LEMMA SetStatusStands ==
  ASSUME ReportInv, NEW u \in Users, NEW id \in Ids, NEW new \in Status, SetStatus(u, id, new)
  PROVE  AllStand
<1> DEFINE old == report[id]
           by == IF new = "CLOSED" THEN u ELSE old.closedBy
           r == Moved(old, new, by)
<1>1. /\ report' = [report EXCEPT ![id] = r]
      /\ old # NoReport /\ CitedKeys(old) \subseteq ScopeKeys(UserInfo[u].scope)
      /\ new # old.status /\ old.status # "CLOSED"
      /\ old.status = "ESCALATED" => new \notin {"OPEN", "INVESTIGATING"}
      /\ new = "CLOSED" => UserInfo[u].human /\ UserInfo[u].closer
  BY DEF SetStatus, ReportInScope, Moved, GuardVarianceReportStatus
<1>2. Sane(old) /\ Columns(old) /\ old.status \in Status
  BY <1>1 DEF ReportInv, Sane
<1>3. /\ r.vintage = old.vintage /\ r.cited = old.cited /\ r.gap = old.gap
      /\ r.status = new
      /\ new = "CLOSED" => r.closedBy = u
      /\ Columns(r)
  <2>1. new = "CLOSED" => by = u
    OBVIOUS
  <2>2. r = Moved(old, new, by)
    OBVIOUS
  <2> HIDE DEF r, by, old
  <2> QED
    BY <2>1, <2>2, <1>2, MovedReport
<1>4. CitedKeys(r) = CitedKeys(old)
  BY <1>3 DEF CitedKeys
<1> HIDE DEF r, old
<1>5. r # NoReport
  BY <1>3, StatusIsNotNone
<1>6. Sane(r)
  BY <1>1, <1>3, <1>4, <1>5 DEF Sane, ClosedByCloser
<1>7. old.status = "ESCALATED" => new \in {"ESCALATED", "REVIEWED", "CLOSED"}
  BY <1>1 DEF Status
<1>8. Stands(old, r)
  BY <1>1, <1>3, <1>4, <1>5, <1>6, <1>7 DEF Stands, Sane, ClosedByCloser
<1> QED
  BY <1>1, <1>6, <1>8, OneWritten DEF old

(* compute_variance is at one of its scenarios, or nowhere.                *)
AtScenario == computing \in 0 .. Len(Scenarios)

Inv == ReportInv /\ AtScenario

LEMMA InitInv == Init => Inv
BY ScenariosAssumption DEF Init, Inv, ReportInv, AtScenario, Sane

LEMMA StepStands ==
  ASSUME Inv, [Next]_vars
  PROVE  AllStand
<1>1. CASE \E u \in Users, id \in Ids, new \in Status : SetStatus(u, id, new)
  BY <1>1, SetStatusStands DEF Inv
<1>2. CASE \E id \in AdHoc : Persist(id)
  BY <1>2, PersistStands DEF Inv
<1>3. CASE PersistForecast
  BY <1>3, PersistForecastStands, ScenariosAssumption DEF Inv, AtScenario
<1>4. CASE report' = report
  BY <1>4, NothingWritten DEF Inv
<1> QED
  BY <1>1, <1>2, <1>3, <1>4
     DEF Next, RecordClose, Restate, Merge, LookUpVintage, EndRun, StartForecast, vars

LEMMA StepAtScenario ==
  ASSUME AtScenario, [Next]_vars
  PROVE  AtScenario'
<1>1. CASE StartForecast
  BY <1>1, ScenariosAssumption DEF StartForecast, AtScenario
<1>2. CASE PersistForecast
  BY <1>2, ScenariosAssumption DEF PersistForecast, AtScenario
<1>3. CASE computing' = computing
  BY <1>3 DEF AtScenario
<1> QED
  BY <1>1, <1>2, <1>3
     DEF Next, RecordClose, Restate, Merge, LookUpVintage, Persist, EndRun, SetStatus, vars

----------------------------------------------------------------------------
(* Whatever retries, other runs and people do: what a stored report says   *)
(* never changes, closed is final and done by a human closer over all the  *)
(* companies it cites, and an escalation is only reviewed or closed.       *)
THEOREM ReportStandsAlways == Spec => ReportStands
<1>1. Inv /\ [Next]_vars => Inv'
  BY StepStands, StepAtScenario DEF Inv, AllStand
<1>2. Inv /\ [Next]_vars =>
        \A id \in Ids : report[id] # NoReport =>
          LET old == report[id]
              new == report'[id]
          IN /\ new # NoReport
             /\ <<new.vintage, new.cited, new.gap>> = <<old.vintage, old.cited, old.gap>>
             /\ old.status = "CLOSED" => new = old
             /\ old.status = "ESCALATED" => new.status \in {"ESCALATED", "REVIEWED", "CLOSED"}
             /\ new.status = "CLOSED" =>
                  /\ UserInfo[new.closedBy].human /\ UserInfo[new.closedBy].closer
                  /\ CitedKeys(new) \subseteq ScopeKeys(UserInfo[new.closedBy].scope)
  BY StepStands DEF AllStand, Stands
<1> QED
  BY InitInv, <1>1, <1>2, PTL DEF Spec, ReportStands

----------------------------------------------------------------------------
(***************************************************************************)
(* Drill-through.  What a settled report cites is in the ledger, and at    *)
(* the close the report names nothing supersedes it: a restatement only    *)
(* adds rows of the second close, and once they are there no other         *)
(* restatement comes.                                                      *)
(***************************************************************************)
Newest(row, vintage) ==
  /\ row \in rows /\ row.version <= vintage
  /\ \A other \in rows : other.version <= vintage => ~Supersedes(other, row)

ReadBack(c, vintage) ==
  \E row \in rows :
    /\ Newest(row, vintage) /\ ~row.deleted
    /\ row.key = c.key /\ StoredAmount(row.quantity * KeyInfo[row.key].price) = c.amount

CitesTheLedger(r) ==
  r # NoReport /\ r.settled =>
    /\ r.vintage \in 1 .. closes
    /\ r.vintage = 2 => ~due
    /\ \A c \in r.cited : c.key \in Keys /\ (c.key \notin Lost => ReadBack(c, r.vintage))

(* A run whose ledger nobody has touched still names the close it reads.   *)
RunNames ==
  run # NoRun =>
    /\ run \in [scope : {run.scope}, query : {run.query}, asOf : Instants \cup {Current},
                vintage : Nat, settled : BOOLEAN]
    /\ run.settled => run.vintage = VintageAt(closes, run.asOf) /\ run.vintage \in 1 .. closes

Books == closes \in 1 .. 2 /\ due \in BOOLEAN /\ (due => closes = 2)

DrillInv == Books /\ RunNames /\ \A id \in AdHoc : CitesTheLedger(report[id])

(* The close a report names is the one its rows are read at again.         *)
LEMMA VintageStands ==
  ASSUME Books, NEW v \in 1 .. closes
  PROVE  VintageAt(closes, v) = v
BY LedgerAssumption DEF VintageAt, Books

LEMMA CitationsReadBack ==
  ASSUME DrillInv
  PROVE  DrillAgrees
<1> SUFFICES ASSUME NEW id \in AdHoc, report[id] # NoReport, report[id].settled,
                    NEW c \in report[id].cited, c.key \notin Lost
             PROVE  \E row \in CompileCitationRows(CitedKeys(report[id]), Companies, rows,
                                                   VintageAt(closes, report[id].vintage)) :
                      /\ row.key = c.key
                      /\ StoredAmount(row.quantity * KeyInfo[row.key].price) = c.amount
  BY DEF DrillAgrees
<1> DEFINE r == report[id]
           keys == CitedKeys(r)
<1>1. r.vintage \in 1 .. closes /\ \A d \in r.cited : d.key \in Keys
  BY DEF DrillInv, CitesTheLedger
<1>2. PICK row \in rows : /\ Newest(row, r.vintage) /\ ~row.deleted /\ row.key = c.key
                          /\ StoredAmount(row.quantity * KeyInfo[row.key].price) = c.amount
  BY DEF DrillInv, CitesTheLedger, ReadBack
<1>3. c.key \in keys /\ keys \subseteq ScopeKeys(Companies)
  BY <1>1, LedgerAssumption DEF CitedKeys, ScopeKeys
<1>4. VintageAt(closes, r.vintage) = r.vintage
  BY <1>1, VintageStands DEF DrillInv
<1>5. row \in Live(ActualSource(rows, keys, r.vintage))
  BY <1>2, <1>3 DEF Newest, ActualSource, Live
<1> HIDE DEF keys
<1> QED
  BY <1>2, <1>3, <1>4, <1>5 DEF CompileCitationRows, keys

(* A new report cites what the ledger has.                                 *)
LEMMA PersistCites ==
  ASSUME DrillInv, NEW id \in AdHoc, Persist(id)
  PROVE  DrillInv'
<1> DEFINE lines == LinesAt(run.query, run.scope, run.asOf)
           r == NewReport(run.vintage, lines, run.settled /\ ~due)
<1>1. /\ report' = [report EXCEPT ![id] = r] /\ run # NoRun /\ run' = NoRun
      /\ UNCHANGED <<rows, merged, closes, due>>
  BY DEF Persist, ledger
<1>2. /\ r.vintage = run.vintage /\ r.settled = (run.settled /\ ~due)
      /\ r.cited = {[key |-> line.key, amount |-> line.actual] : line \in lines}
  BY DEF NewReport
<1>3. ASSUME r.settled, NEW c \in r.cited
      PROVE  c.key \in Keys /\ ReadBack(c, r.vintage)
  <2>1. PICK line \in lines : c = [key |-> line.key, amount |-> line.actual]
    BY <1>2, <1>3
  <2>2. run.vintage = VintageAt(closes, run.asOf)
    BY <1>1, <1>2, <1>3 DEF DrillInv, RunNames
  <2>3. PICK row \in CompileBridge(run.query, run.scope, rows, run.vintage) :
          line = LedgerLine(row, run.query)
    BY <2>1, <2>2 DEF LinesAt
  <2>4. /\ row.key \in Keys /\ ~row.deleted /\ row \in rows /\ row.version <= run.vintage
        /\ \A other \in rows : other.version <= run.vintage => ~Supersedes(other, row)
    BY <2>3 DEF CompileBridge, Live, ActualSource, Supersedes
  <2>5. c.key = row.key /\ c.amount = StoredAmount(row.quantity * KeyInfo[row.key].price)
    BY <2>1, <2>3 DEF LedgerLine
  <2> QED
    BY <1>2, <2>4, <2>5 DEF ReadBack, Newest
<1>4. r.settled => r.vintage \in 1 .. closes /\ ~due
  BY <1>1, <1>2 DEF DrillInv, RunNames
<1>5. CitesTheLedger(r)
  BY <1>3, <1>4 DEF CitesTheLedger
<1> HIDE DEF r, lines
<1>6. ASSUME NEW other \in AdHoc PROVE CitesTheLedger(report[other])'
  <2>1. CitesTheLedger(report'[other])
    BY <1>1, <1>5 DEF DrillInv
  <2> QED
    BY <1>1, <2>1 DEF CitesTheLedger, ReadBack, Newest, Lost
<1> QED
  BY <1>1, <1>6 DEF DrillInv, Books, RunNames

(* The books move on: nothing a report cites is superseded at its close.   *)
LEMMA BooksCite ==
  ASSUME DrillInv, RecordClose \/ Restate
  PROVE  DrillInv'
<1> USE DEF DrillInv, Books
<1>0. /\ UNCHANGED <<merged, report>> /\ Books' /\ closes <= closes'
      /\ run' = (IF run = NoRun THEN NoRun ELSE [run EXCEPT !.settled = FALSE])
  <2>1. CASE RecordClose
    BY <2>1 DEF RecordClose, Unsettle
  <2>2. CASE Restate
    <3>1. due /\ due' = FALSE /\ Unsettle /\ UNCHANGED <<merged, closes, report>>
      BY <2>2 DEF Restate
    <3>2. due' \in BOOLEAN /\ ~due'
      BY <3>1
    <3>3. Books' /\ closes <= closes'
      BY <3>1, <3>2
    <3> QED
      BY <3>1, <3>3 DEF Unsettle
  <2> QED
    BY <2>1, <2>2
<1>1. rows \subseteq rows' /\ UNCHANGED <<merged, report>> /\ Books' /\ closes <= closes'
  BY <1>0 DEF RecordClose, Restate
<1>2. ASSUME NEW row \in rows' \ rows
      PROVE  closes = 2 /\ due /\ row.version = 2
  <2>1. Restate
    BY <1>2 DEF RecordClose
  <2>2. closes = 2 /\ due
    BY <2>1 DEF Restate
  <2>3. \E r \in rows : \E f : r.version = 1 /\ row = RestatedRow(r, f)
    BY <1>2, <2>1 DEF Restate
  <2>4. row.version = 2
    BY <2>3 DEF RestatedRow
  <2> QED
    BY <2>2, <2>4
<1>3. RunNames'
  BY <1>0 DEF RunNames
<1>4. ASSUME NEW id \in AdHoc PROVE CitesTheLedger(report[id])'
  <2> DEFINE r == report[id]
  <2> SUFFICES ASSUME r # NoReport, r.settled
               PROVE  /\ r.vintage \in 1 .. closes' /\ (r.vintage = 2 => ~due')
                      /\ \A c \in r.cited :
                           c.key \in Keys /\ (c.key \notin Lost => ReadBack(c, r.vintage)')
    BY <1>1 DEF CitesTheLedger, Lost
  <2>1. /\ r.vintage \in 1 .. closes /\ (r.vintage = 2 => ~due)
        /\ \A c \in r.cited : c.key \in Keys /\ (c.key \notin Lost => ReadBack(c, r.vintage))
    BY DEF CitesTheLedger
  <2>2. r.vintage \in 1 .. closes' /\ (r.vintage = 2 => ~due')
    BY <2>1, <1>1 DEF RecordClose, Restate
  <2>3. \A row \in rows' \ rows : ~(row.version <= r.vintage)
    BY <1>2, <2>1
  <2>4. ASSUME NEW row, Newest(row, r.vintage) PROVE Newest(row, r.vintage)'
    <3> DEFINE v == r.vintage
    <3>1. v' = v
      BY <1>1
    <3>2. \A other \in rows' : other.version <= v => ~Supersedes(other, row)
      BY <2>3, <2>4 DEF Newest
    <3> HIDE DEF v
    <3>3. row \in rows' /\ row.version <= v
      BY <1>1, <2>4 DEF Newest, v
    <3> QED
      BY <3>1, <3>2, <3>3 DEF Newest, Supersedes, v
  <2>5. \A c : ReadBack(c, r.vintage) => ReadBack(c, r.vintage)'
    BY <1>1, <2>4 DEF ReadBack
  <2> QED
    BY <2>1, <2>2, <2>5
<1> QED
  BY <1>1, <1>3, <1>4

(* A merge takes a row of a key that counts as lost from then on.          *)
LEMMA MergeCites ==
  ASSUME DrillInv, Merge
  PROVE  DrillInv'
<1> PICK old \in rows : rows' = rows \ {old} /\ merged' = merged \cup {old}
  BY DEF Merge
<1>1. UNCHANGED <<closes, due, run, report>>
  BY DEF Merge
<1>2. Lost' = Lost \cup {old.key}
  BY DEF Lost
<1>3. ASSUME NEW c, NEW v, c.key \notin Lost', ReadBack(c, v)
      PROVE  ReadBack(c, v)'
  <2>1. PICK row \in rows : /\ Newest(row, v) /\ ~row.deleted /\ row.key = c.key
                            /\ StoredAmount(row.quantity * KeyInfo[row.key].price) = c.amount
    BY <1>3 DEF ReadBack
  <2>2. row \in rows'
    BY <1>2, <1>3, <2>1
  <2> QED
    BY <2>1, <2>2 DEF ReadBack, Newest, Supersedes
<1>4. ASSUME NEW id \in AdHoc PROVE CitesTheLedger(report[id])'
  BY <1>1, <1>2, <1>3 DEF DrillInv, CitesTheLedger
<1> QED
  BY <1>1, <1>4 DEF DrillInv, Books, RunNames

LEMMA LookUpCites ==
  ASSUME DrillInv, NEW scope, NEW q, NEW asOf \in Instants \cup {Current},
         LookUpVintage(scope, q, asOf)
  PROVE  DrillInv'
<1> DEFINE new == [scope |-> scope, query |-> q, asOf |-> asOf,
                   vintage |-> VintageAt(closes, asOf), settled |-> TRUE]
<1>1. /\ run' = new /\ VintageAt(closes, asOf) # 0
      /\ UNCHANGED <<rows, merged, closes, due, report>>
  BY DEF LookUpVintage, ledger
<1>2. VintageAt(closes, asOf) \in 1 .. closes
  BY <1>1, InstantsAssumption DEF VintageAt, DrillInv, Books
<1>3. /\ new \in [scope : {new.scope}, query : {new.query}, asOf : Instants \cup {Current},
                  vintage : Nat, settled : BOOLEAN]
      /\ new.vintage = VintageAt(closes, asOf) /\ new.asOf = asOf
  BY <1>2 DEF DrillInv, Books
<1> HIDE DEF new
<1>4. RunNames'
  BY <1>1, <1>2, <1>3 DEF RunNames
<1> QED
  BY <1>1, <1>4 DEF DrillInv, Books, CitesTheLedger, ReadBack, Newest, Lost

(* A report that is moved cites what it cited; a forecast's names no close *)
(* of the ledger and is not read back from it.                             *)
LEMMA OthersCite ==
  ASSUME DrillInv, Inv,
         \/ EndRun \/ StartForecast \/ PersistForecast
         \/ \E u \in Users, id \in Ids, new \in Status : SetStatus(u, id, new)
  PROVE  DrillInv'
<1>1. UNCHANGED <<rows, merged, closes, due>> /\ (run' = run \/ run' = NoRun)
  BY DEF EndRun, StartForecast, PersistForecast, SetStatus, ledger
<1>2. ASSUME NEW r, CitesTheLedger(r) PROVE CitesTheLedger(r)'
  BY <1>1, <1>2 DEF CitesTheLedger, ReadBack, Newest, Lost
<1>3. ASSUME NEW id \in AdHoc PROVE CitesTheLedger(report'[id])
  <2>0. CitesTheLedger(report[id]) /\ id \in Ids
    BY DEF DrillInv, Ids
  <2>1. CASE EndRun \/ StartForecast
    BY <2>0, <2>1 DEF EndRun, StartForecast
  <2>2. CASE PersistForecast
    <3> DEFINE s == Scenarios[computing]
               r == NewReport(0, ForecastLines(s, 3), FALSE)
    <3>1. report' = report \/ report' = [report EXCEPT ![s] = r]
      BY <2>2 DEF PersistForecast
    <3>2. ~r.settled
      BY DEF NewReport
    <3>3. CitesTheLedger(r)
      BY <3>2 DEF CitesTheLedger
    <3> HIDE DEF r, s
    <3> QED
      BY <2>0, <3>1, <3>3 DEF Inv, ReportInv
  <2>3. ASSUME NEW u \in Users, NEW moved \in Ids, NEW new \in Status, SetStatus(u, moved, new)
        PROVE  CitesTheLedger(report'[id])
    <3> DEFINE old == report[moved]
               by == IF new = "CLOSED" THEN u ELSE old.closedBy
               r == Moved(old, new, by)
    <3>1. report' = [report EXCEPT ![moved] = r] /\ old # NoReport
      BY <2>3 DEF SetStatus, Moved
    <3>2. Columns(old)
      BY <3>1 DEF Inv, ReportInv, Sane
    <3>3. /\ r.vintage = old.vintage /\ r.cited = old.cited /\ r.settled = old.settled
      <4> HIDE DEF old, by
      <4> QED
        BY <3>2 DEF Columns, Moved
    <3>4. moved = id => CitesTheLedger(r)
      <4> HIDE DEF r
      <4> QED
        BY <2>0, <3>1, <3>3 DEF CitesTheLedger
    <3> HIDE DEF r
    <3> QED
      BY <2>0, <3>1, <3>4 DEF Inv, ReportInv
  <2> QED
    BY <2>1, <2>2, <2>3
<1>4. ASSUME NEW id \in AdHoc PROVE CitesTheLedger(report[id])'
  <2>1. CitesTheLedger(report'[id])
    BY <1>3
  <2> QED
    BY <1>1, <2>1 DEF CitesTheLedger, ReadBack, Newest, Lost
<1>5. RunNames' /\ Books'
  BY <1>1 DEF DrillInv, RunNames, Books
<1> QED
  BY <1>4, <1>5 DEF DrillInv

LEMMA DrillInvInit == Init => DrillInv
<1> SUFFICES ASSUME Init PROVE DrillInv
  OBVIOUS
<1>1. \A id \in AdHoc : report[id] = NoReport
  BY DEF Init, Ids
<1>2. due \in BOOLEAN /\ ~due
  BY DEF Init
<1>3. Books
  BY <1>2 DEF Init, Books
<1>4. RunNames
  BY DEF Init, RunNames
<1> QED
  BY <1>1, <1>3, <1>4 DEF DrillInv, CitesTheLedger

LEMMA DrillInvNext ==
  ASSUME DrillInv, Inv, [Next]_vars
  PROVE  DrillInv'
<1>1. CASE UNCHANGED vars
  BY <1>1 DEF vars, ledger, DrillInv, Books, RunNames, CitesTheLedger, ReadBack, Newest, Lost
<1> QED
  BY <1>1, BooksCite, MergeCites, LookUpCites, PersistCites, OthersCite DEF Next

(* Drill-through: however the books move on, a report's citations are read *)
(* back at the close it names with the amounts it reported, unless a merge *)
(* has dropped a row of the key, or a close was being recorded while the   *)
(* report was read (compile_citation_rows, bridge_service.run_bridge).     *)
THEOREM DrillAgreesAlways == Spec => []DrillAgrees
<1>1. Inv /\ [Next]_vars => Inv'
  BY StepStands, StepAtScenario DEF Inv, AllStand
<1>2. Inv /\ DrillInv /\ [Next]_vars => DrillInv'
  BY DrillInvNext
<1> QED
  BY InitInv, DrillInvInit, CitationsReadBack, <1>1, <1>2, PTL DEF Spec

----------------------------------------------------------------------------
(***************************************************************************)
(* Sums.  The library's induction theorems take an operator, so induction  *)
(* over the subsets of a finite set is stated with the set of those that   *)
(* are good.                                                               *)
(***************************************************************************)
(* Induction over the subsets of a finite set.                             *)
LEMMA SubsetInduction ==
  ASSUME NEW S, IsFiniteSet(S), NEW Good,
         \A T \in SUBSET S : (\A x \in T : T \ {x} \in Good) => T \in Good
  PROVE  S \in Good
<1> DEFINE Bad == (SUBSET S) \ Good
<1>1. SUFFICES ASSUME S \notin Good PROVE FALSE
  OBVIOUS
<1>2. Bad # {} /\ Bad \subseteq SUBSET S
  BY <1>1
<1>3. IsWellFoundedOn(StrictSubsetOrdering(S), SUBSET S)
  BY FS_StrictSubsetOrderingWellFounded, FS_FiniteSubsetsOfFinite
<1>4. PICK T \in Bad : \A U \in Bad : <<U, T>> \notin StrictSubsetOrdering(S)
  <2> HIDE DEF Bad
  <2> QED
    BY <1>2, <1>3, WFMin
<1>5. \A x \in T : <<T \ {x}, T>> \in StrictSubsetOrdering(S)
  BY DEF StrictSubsetOrdering
<1>6. \A x \in T : T \ {x} \in Good
  BY <1>4, <1>5
<1> QED
  BY <1>6

(* A set named by a finite one is finite.                                  *)
LEMMA ImageIsFinite ==
  ASSUME NEW S, IsFiniteSet(S), NEW f
  PROVE  IsFiniteSet({f[x] : x \in S})
<1> DEFINE q == [x \in S |-> f[x]]
<1>1. q \in Surjection(S, {f[x] : x \in S})
  BY DEF Surjection
<1> QED
  BY <1>1, FS_Surjection

(* Induction up to a number.                                               *)
LEMMA CountingUp ==
  ASSUME NEW n \in Nat, NEW Good, \A m \in 0 .. n : (m # 0 => m - 1 \in Good) => m \in Good
  PROVE  n \in Good
<1> DEFINE S == 0 .. n
           Fine == {T \in SUBSET S : \A m \in S : T = 0 .. m => m \in Good}
<1>1. ASSUME NEW T \in SUBSET S, \A x \in T : T \ {x} \in Fine, NEW m \in S, T = 0 .. m
      PROVE  m \in Good
  <2>1. CASE m = 0
    BY <2>1
  <2>2. CASE m # 0
    <3>1. m - 1 \in S /\ m \in T /\ T \ {m} = 0 .. m - 1
      BY <1>1, <2>2
    <3>2. T \ {m} \in Fine
      BY <1>1, <3>1
    <3>3. m - 1 \in Good
      BY <3>1, <3>2
    <3> QED
      BY <3>3
  <2> QED
    BY <2>1, <2>2
<1>2. S \in Fine
  <2>1. \A T \in SUBSET S : (\A x \in T : T \ {x} \in Fine) => T \in Fine
    BY <1>1
  <2>2. IsFiniteSet(S)
    BY FS_Interval
  <2> HIDE DEF Fine, S
  <2> QED
    BY <2>1, <2>2, SubsetInduction
<1> QED
  BY <1>2

----------------------------------------------------------------------------
(* The sum of a function as SumFunction computes it: a function of the     *)
(* subsets of its domain, one chosen element less at a time.               *)
Picked(T) == CHOOSE x \in T : TRUE
SumOn(g, f, S) ==
  g = [T \in SUBSET S |-> IF T = {} THEN 0 ELSE f[Picked(T)] + g[T \ {Picked(T)}]]

LEMMA SumIsChosen ==
  ASSUME NEW f
  PROVE  SumFunction(f) = (CHOOSE g : SumOn(g, f, DOMAIN f))[DOMAIN f]
BY DEF SumFunction, SumFunctionOnSet, FoldFunctionOnSet, MapThenFoldSet, SumOn, Picked

LEMMA PickedIn == ASSUME NEW T, T # {} PROVE Picked(T) \in T
BY DEF Picked

(* Sums of functions that agree on a set agree on it.                      *)
LEMMA SumsAgree ==
  ASSUME NEW S, IsFiniteSet(S), NEW f, NEW g, NEW D, NEW h, NEW i, NEW E,
         S \subseteq D, S \subseteq E, SumOn(g, f, D), SumOn(i, h, E),
         \A x \in S : f[x] = h[x]
  PROVE  g[S] = i[S]
<1> DEFINE Good == {T \in SUBSET S : g[T] = i[T]}
<1>1. ASSUME NEW T \in SUBSET S, \A x \in T : T \ {x} \in Good
      PROVE  T \in Good
  <2>1. T \in SUBSET D /\ T \in SUBSET E
    OBVIOUS
  <2>2. /\ g[T] = IF T = {} THEN 0 ELSE f[Picked(T)] + g[T \ {Picked(T)}]
        /\ i[T] = IF T = {} THEN 0 ELSE h[Picked(T)] + i[T \ {Picked(T)}]
    BY <2>1 DEF SumOn
  <2>3. T # {} => g[T \ {Picked(T)}] = i[T \ {Picked(T)}] /\ f[Picked(T)] = h[Picked(T)]
    BY <1>1, PickedIn
  <2> QED
    BY <2>2, <2>3
<1> HIDE DEF Good
<1>2. S \in Good
  BY <1>1, SubsetInduction
<1> QED
  BY <1>2 DEF Good

LEMMA SumExists ==
  ASSUME NEW S, IsFiniteSet(S), NEW f
  PROVE  \E g : SumOn(g, f, S)
<1> DEFINE Good == {T \in SUBSET S : \E g : SumOn(g, f, T)}
<1>1. ASSUME NEW T \in SUBSET S, \A x \in T : T \ {x} \in Good
      PROVE  T \in Good
  <2> DEFINE below(U) == CHOOSE g : SumOn(g, f, U)
             g == [U \in SUBSET T |-> IF U = {} THEN 0
                     ELSE f[Picked(U)] + below(U \ {Picked(U)})[U \ {Picked(U)}]]
  <2>1. \A U : U \in SUBSET T /\ U # T => \E h : SumOn(h, f, U)
    <3> SUFFICES ASSUME NEW U \in SUBSET T, U # T PROVE \E h : SumOn(h, f, U)
      OBVIOUS
    <3> PICK x \in T : x \notin U
      OBVIOUS
    <3>1. PICK h : SumOn(h, f, T \ {x})
      BY <1>1
    <3> DEFINE k == [V \in SUBSET U |-> h[V]]
    <3>2. ASSUME NEW V \in SUBSET U
          PROVE  k[V] = IF V = {} THEN 0 ELSE f[Picked(V)] + k[V \ {Picked(V)}]
      <4>1. V \in SUBSET (T \ {x}) /\ V \ {Picked(V)} \in SUBSET U
        OBVIOUS
      <4>2. h[V] = IF V = {} THEN 0 ELSE f[Picked(V)] + h[V \ {Picked(V)}]
        BY <3>1, <4>1 DEF SumOn
      <4> QED
        BY <4>1, <4>2
    <3>3. SumOn(k, f, U)
      BY <3>2 DEF SumOn
    <3> QED
      BY <3>3
  <2>2. \A U : U \in SUBSET T /\ U # T => SumOn(below(U), f, U)
    BY <2>1
  <2>3. \A U \in SUBSET T : U # T => g[U] = below(U)[U]
    <3> SUFFICES ASSUME NEW U \in SUBSET T, U # T PROVE g[U] = below(U)[U]
      OBVIOUS
    <3>1. SumOn(below(U), f, U)
      BY <2>2
    <3>2. below(U)[U] = IF U = {} THEN 0 ELSE f[Picked(U)] + below(U)[U \ {Picked(U)}]
      BY <3>1 DEF SumOn
    <3>3. CASE U # {}
      <4> DEFINE V == U \ {Picked(U)}
      <4>1. V \in SUBSET U /\ V \in SUBSET T /\ V # T
        BY <3>3, PickedIn
      <4>2. SumOn(below(V), f, V)
        BY <2>2, <4>1
      <4>3. IsFiniteSet(V)
        BY <4>1, FS_Subset
      <4> HIDE DEF below
      <4>4. below(V)[V] = below(U)[V]
        BY <3>1, <4>1, <4>2, <4>3, SumsAgree
      <4> QED
        BY <3>2, <3>3, <4>4
    <3> QED
      BY <3>2, <3>3
  <2>4. ASSUME NEW U \in SUBSET T
        PROVE  g[U] = IF U = {} THEN 0 ELSE f[Picked(U)] + g[U \ {Picked(U)}]
    <3>1. U # {} => U \ {Picked(U)} \in SUBSET T /\ U \ {Picked(U)} # T
      BY PickedIn
    <3> HIDE DEF below
    <3> QED
      BY <2>3, <3>1
  <2>5. SumOn(g, f, T)
    <3> HIDE DEF below
    <3> QED
      BY <2>4 DEF SumOn
  <2> QED
    BY <2>5
<1> HIDE DEF Good
<1>2. S \in Good
  BY <1>1, SubsetInduction
<1> QED
  BY <1>2 DEF Good

(* The partial sums of an integer function are integers, and any element   *)
(* may be the one that is taken.                                           *)
LEMMA SumIsInt ==
  ASSUME NEW S, IsFiniteSet(S), NEW f \in [S -> Int], NEW g, SumOn(g, f, S),
         NEW U \in SUBSET S
  PROVE  g[U] \in Int
<1> DEFINE Good == {T \in SUBSET S : g[T] \in Int}
<1>1. ASSUME NEW T \in SUBSET S, \A x \in T : T \ {x} \in Good
      PROVE  T \in Good
  <2>2. g[T] = IF T = {} THEN 0 ELSE f[Picked(T)] + g[T \ {Picked(T)}]
    BY DEF SumOn
  <2>3. CASE T # {}
    <3> DEFINE x == Picked(T)
               left == g[T \ {x}]
    <3>1. x \in T /\ g[T] = f[x] + left
      BY <2>2, <2>3, PickedIn
    <3> HIDE DEF x
    <3>2. f[x] \in Int /\ left \in Int
      BY <1>1, <3>1
    <3> HIDE DEF left
    <3> QED
      BY <3>1, <3>2
  <2> QED
    BY <2>2, <2>3
<1>2. \A T \in SUBSET U : (\A x \in T : T \ {x} \in Good) => T \in Good
  BY <1>1
<1>3. IsFiniteSet(U)
  BY FS_Subset
<1> HIDE DEF Good
<1>4. U \in Good
  BY <1>2, <1>3, SubsetInduction
<1> QED
  BY <1>4 DEF Good

LEMMA SumStepAny ==
  ASSUME NEW S, IsFiniteSet(S), NEW f \in [S -> Int], NEW g, SumOn(g, f, S)
  PROVE  \A y \in S : g[S] = f[y] + g[S \ {y}]
<1> DEFINE Stepwise(T) == \A y \in T : g[T] = f[y] + g[T \ {y}]
           Good == {T \in SUBSET S : Stepwise(T)}
<1>1. ASSUME NEW T \in SUBSET S, \A x \in T : T \ {x} \in Good
      PROVE  T \in Good
  <2>1. \A x \in T : Stepwise(T \ {x})
    BY <1>1
  <2>2. g[T] = IF T = {} THEN 0 ELSE f[Picked(T)] + g[T \ {Picked(T)}]
    BY DEF SumOn
  <2>4. ASSUME NEW y \in T PROVE g[T] = f[y] + g[T \ {y}]
    <3> DEFINE x == Picked(T)
    <3>1. x \in T /\ g[T] = f[x] + g[T \ {x}]
      BY <2>2, PickedIn
    <3> HIDE DEF x
    <3>2. CASE x = y
      BY <3>1, <3>2
    <3>3. CASE x # y
      <4>1. y \in T \ {x} /\ x \in T \ {y} /\ (T \ {x}) \ {y} = (T \ {y}) \ {x}
        BY <3>1, <3>3
      <4>2. g[T \ {x}] = f[y] + g[(T \ {x}) \ {y}]
        BY <2>1, <3>1, <4>1
      <4>3. g[T \ {y}] = f[x] + g[(T \ {y}) \ {x}]
        BY <2>1, <4>1
      <4> DEFINE rest == g[(T \ {x}) \ {y}]
      <4>4. rest \in Int
        BY SumIsInt
      <4>5. f[x] \in Int /\ f[y] \in Int
        BY <3>1
      <4>6. g[T] = f[x] + (f[y] + rest) /\ g[T \ {y}] = f[x] + rest
        BY <3>1, <4>1, <4>2, <4>3
      <4> HIDE DEF rest
      <4> QED
        BY <4>4, <4>5, <4>6
    <3> QED
      BY <3>2, <3>3
  <2> QED
    BY <2>4
<1> HIDE DEF Good
<1>2. S \in Good
  BY <1>1, SubsetInduction
<1> QED
  BY <1>2 DEF Good

(* The two facts the rest needs: nothing sums to 0, and a sum is any of    *)
(* its terms and the sum of the others.                                    *)
Less(f, y) == [x \in DOMAIN f \ {y} |-> f[x]]

LEMMA SumOfNothing == ASSUME NEW f, DOMAIN f = {} PROVE SumFunction(f) = 0
<1>1. \E g : SumOn(g, f, {})
  BY SumExists, FS_EmptySet
<1>2. SumOn(CHOOSE g : SumOn(g, f, {}), f, {})
  BY <1>1
<1> QED
  BY <1>2, SumIsChosen DEF SumOn

LEMMA SumTakesOne ==
  ASSUME NEW S, IsFiniteSet(S), NEW f \in [S -> Int]
  PROVE  /\ SumFunction(f) \in Int
         /\ \A y \in S : SumFunction(f) = f[y] + SumFunction(Less(f, y))
<1> DEFINE sums(h, T) == CHOOSE g : SumOn(g, h, T)
<1>1. SumOn(sums(f, S), f, S) /\ SumFunction(f) = sums(f, S)[S]
  BY SumExists, SumIsChosen
<1>2. sums(f, S)[S] \in Int /\ \A y \in S : sums(f, S)[S] = f[y] + sums(f, S)[S \ {y}]
  <2> HIDE DEF sums
  <2> QED
    BY <1>1, SumStepAny, SumIsInt
<1>3. ASSUME NEW y \in S
      PROVE  sums(f, S)[S \ {y}] = SumFunction(Less(f, y))
  <2> DEFINE h == Less(f, y)
             T == S \ {y}
  <2>1. DOMAIN h = T /\ IsFiniteSet(T) /\ \A x \in T : f[x] = h[x]
    BY FS_Subset DEF Less
  <2>2. SumOn(sums(h, T), h, T) /\ SumFunction(h) = sums(h, T)[T]
    BY <2>1, SumExists, SumIsChosen
  <2> HIDE DEF sums, h
  <2> QED
    BY <1>1, <2>1, <2>2, SumsAgree DEF h
<1> HIDE DEF sums
<1> QED
  BY <1>1, <1>2, <1>3

----------------------------------------------------------------------------
(* The sum over a set of lines (or nodes) of what a function says of each. *)
SumOver(S, e) == SumFunction([x \in S |-> e[x]])

LEMMA SumOverStep ==
  ASSUME NEW S, IsFiniteSet(S), NEW e, \A x \in S : e[x] \in Int
  PROVE  /\ SumOver(S, e) \in Int
         /\ S = {} => SumOver(S, e) = 0
         /\ \A y \in S : SumOver(S, e) = e[y] + SumOver(S \ {y}, e)
<1> DEFINE f == [x \in S |-> e[x]]
<1>1. f \in [S -> Int] /\ DOMAIN f = S
  OBVIOUS
<1>2. ASSUME NEW y \in S PROVE Less(f, y) = [x \in S \ {y} |-> e[x]] /\ f[y] = e[y]
  BY DEF Less
<1>3. SumOver(S, e) = SumFunction(f) /\ \A y \in S : SumOver(S \ {y}, e) = SumFunction([x \in S \ {y} |-> e[x]])
  BY DEF SumOver
<1> HIDE DEF f
<1>4. S = {} => SumFunction(f) = 0
  BY <1>1, SumOfNothing
<1>5. SumFunction(f) \in Int /\ \A y \in S : SumFunction(f) = f[y] + SumFunction(Less(f, y))
  BY <1>1, SumTakesOne
<1> QED
  BY <1>2, <1>3, <1>4, <1>5

(* The same with the rest of the sum at hand.                              *)
LEMMA SumOverLess ==
  ASSUME NEW S, IsFiniteSet(S), NEW e, \A x \in S : e[x] \in Int, NEW y \in S
  PROVE  /\ IsFiniteSet(S \ {y}) /\ e[y] \in Int /\ SumOver(S \ {y}, e) \in Int
         /\ SumOver(S, e) = e[y] + SumOver(S \ {y}, e)
<1>1. IsFiniteSet(S \ {y}) /\ \A x \in S \ {y} : e[x] \in Int
  BY FS_Subset
<1>2. SumOver(S \ {y}, e) \in Int
  BY <1>1, SumOverStep
<1>3. SumOver(S, e) = e[y] + SumOver(S \ {y}, e)
  BY SumOverStep
<1> QED
  BY <1>1, <1>2, <1>3

LEMMA SumOverNothing == ASSUME NEW e PROVE SumOver({}, e) = 0
BY SumOverStep, FS_EmptySet

LEMMA SumOfUnion ==
  ASSUME NEW A, NEW B, NEW e, \A x \in A \cup B : e[x] \in Int,
         IsFiniteSet(A), IsFiniteSet(B), A \cap B = {}
  PROVE  SumOver(A \cup B, e) = SumOver(A, e) + SumOver(B, e)
<1> DEFINE Good == {T \in SUBSET A : SumOver(T \cup B, e) = SumOver(T, e) + SumOver(B, e)}
<1>0. SumOver(B, e) \in Int
  BY SumOverStep
<1>1. ASSUME NEW T \in SUBSET A, \A x \in T : T \ {x} \in Good
      PROVE  T \in Good
  <2>1. IsFiniteSet(T) /\ IsFiniteSet(T \cup B) /\ \A x \in T \cup B : e[x] \in Int
    BY FS_Subset, FS_Union
  <2>2. CASE T = {}
    <3> DEFINE b == SumOver(B, e)
    <3>1. T \cup B = B /\ SumOver(T, e) = 0
      BY <2>2, SumOverNothing
    <3>2. b \in Int /\ SumOver(T \cup B, e) = b
      BY <1>0, <3>1
    <3> HIDE DEF b
    <3>3. SumOver(T \cup B, e) = SumOver(T, e) + b
      BY <3>1, <3>2
    <3> QED
      BY <3>3 DEF b
  <2>3. ASSUME NEW x \in T PROVE T \in Good
    <3> DEFINE a == SumOver(T \ {x}, e)
               b == SumOver(B, e)
    <3>1. SumOver(T, e) = e[x] + a /\ e[x] \in Int /\ a \in Int
      BY <2>1, SumOverLess
    <3>2. SumOver(T \cup B, e) = e[x] + SumOver((T \ {x}) \cup B, e)
      <4>1. (T \cup B) \ {x} = (T \ {x}) \cup B /\ x \in T \cup B
        OBVIOUS
      <4>2. SumOver(T \cup B, e) = e[x] + SumOver((T \cup B) \ {x}, e)
        BY <2>1, <4>1, SumOverStep
      <4> QED
        BY <4>1, <4>2
    <3>3. SumOver((T \ {x}) \cup B, e) = a + b
      BY <1>1
    <3>4. b \in Int
      BY <1>0
    <3> HIDE DEF a, b
    <3>5. SumOver(T \cup B, e) = SumOver(T, e) + b
      BY <3>1, <3>2, <3>3, <3>4
    <3> QED
      BY <3>5 DEF b
  <2> QED
    BY <2>2, <2>3
<1> HIDE DEF Good
<1>2. A \in Good
  BY <1>1, SubsetInduction
<1> QED
  BY <1>2 DEF Good

(* Sums are linear.                                                        *)
LEMMA SumAdds ==
  ASSUME NEW S, IsFiniteSet(S), NEW e, NEW h, NEW s,
         \A x \in S : e[x] \in Int /\ h[x] \in Int /\ s[x] = e[x] + h[x]
  PROVE  SumOver(S, s) = SumOver(S, e) + SumOver(S, h)
<1> DEFINE Good == {T \in SUBSET S : SumOver(T, s) = SumOver(T, e) + SumOver(T, h)}
<1>0. \A x \in S : e[x] \in Int /\ h[x] \in Int /\ s[x] \in Int
  OBVIOUS
<1>1. ASSUME NEW T \in SUBSET S, \A x \in T : T \ {x} \in Good
      PROVE  T \in Good
  <2>1. IsFiniteSet(T) /\ \A x \in T : e[x] \in Int /\ h[x] \in Int /\ s[x] \in Int
    BY <1>0, FS_Subset
  <2>2. CASE T = {}
    <3>1. SumOver(T, s) = 0 /\ SumOver(T, e) = 0 /\ SumOver(T, h) = 0
      BY <2>2, SumOverNothing
    <3> QED
      BY <3>1
  <2>3. ASSUME NEW x \in T PROVE T \in Good
    <3> DEFINE a == SumOver(T \ {x}, e)
               b == SumOver(T \ {x}, h)
    <3>1. SumOver(T, e) = e[x] + a /\ e[x] \in Int /\ a \in Int
      BY <2>1, SumOverLess
    <3>2. SumOver(T, h) = h[x] + b /\ h[x] \in Int /\ b \in Int
      BY <2>1, SumOverLess
    <3>3. SumOver(T, s) = s[x] + SumOver(T \ {x}, s)
      BY <2>1, SumOverLess
    <3>4. SumOver(T \ {x}, s) = a + b /\ s[x] = e[x] + h[x]
      BY <1>1
    <3> HIDE DEF a, b
    <3>5. SumOver(T, s) = SumOver(T, e) + SumOver(T, h)
      BY <3>1, <3>2, <3>3, <3>4
    <3> QED
      BY <3>5
  <2> QED
    BY <2>2, <2>3
<1>2. S \in Good
  <2> HIDE DEF Good
  <2> QED
    BY <1>1, SubsetInduction
<1> QED
  BY <1>2

LEMMA SumScales ==
  ASSUME NEW S, IsFiniteSet(S), NEW e, NEW s, NEW c \in Int,
         \A x \in S : e[x] \in Int /\ s[x] = c * e[x]
  PROVE  SumOver(S, s) = c * SumOver(S, e)
<1> DEFINE Good == {T \in SUBSET S : SumOver(T, s) = c * SumOver(T, e)}
<1>0. \A x \in S : e[x] \in Int /\ s[x] \in Int
  OBVIOUS
<1>1. ASSUME NEW T \in SUBSET S, \A x \in T : T \ {x} \in Good
      PROVE  T \in Good
  <2>1. IsFiniteSet(T) /\ \A x \in T : e[x] \in Int /\ s[x] \in Int
    BY <1>0, FS_Subset
  <2>2. CASE T = {}
    <3>1. SumOver(T, s) = 0 /\ SumOver(T, e) = 0
      BY <2>2, SumOverNothing
    <3> QED
      BY <3>1
  <2>3. ASSUME NEW x \in T PROVE T \in Good
    <3> DEFINE a == SumOver(T \ {x}, e)
    <3>1. SumOver(T, e) = e[x] + a /\ e[x] \in Int /\ a \in Int
      BY <2>1, SumOverLess
    <3>2. SumOver(T, s) = s[x] + SumOver(T \ {x}, s)
      BY <2>1, SumOverLess
    <3>3. SumOver(T \ {x}, s) = c * a /\ s[x] = c * e[x]
      BY <1>1
    <3> HIDE DEF a
    <3>4. c * e[x] + c * a = c * (e[x] + a)
      BY <3>1
    <3>5. SumOver(T, s) = c * SumOver(T, e)
      BY <3>1, <3>2, <3>3, <3>4
    <3> QED
      BY <3>5
  <2> QED
    BY <2>2, <2>3
<1>2. S \in Good
  <2> HIDE DEF Good
  <2> QED
    BY <1>1, SubsetInduction
<1> QED
  BY <1>2

LEMMA SumSubtracts ==
  ASSUME NEW S, IsFiniteSet(S), NEW e, NEW h, NEW s,
         \A x \in S : e[x] \in Int /\ h[x] \in Int /\ s[x] = e[x] - h[x]
  PROVE  SumOver(S, s) = SumOver(S, e) - SumOver(S, h)
<1>1. \A x \in S : s[x] \in Int /\ h[x] \in Int /\ e[x] = s[x] + h[x]
  OBVIOUS
<1>2. SumOver(S, e) = SumOver(S, s) + SumOver(S, h)
  BY <1>1, SumAdds
<1>3. SumOver(S, s) \in Int /\ SumOver(S, h) \in Int
  BY <1>1, SumOverStep
<1> QED
  BY <1>2, <1>3

(* Two functions that say the same of every member have the same sum.      *)
LEMMA SumOfSame ==
  ASSUME NEW S, NEW e, NEW h, \A x \in S : e[x] = h[x]
  PROVE  SumOver(S, e) = SumOver(S, h)
<1>1. [x \in S |-> e[x]] = [x \in S |-> h[x]]
  OBVIOUS
<1> QED
  BY <1>1 DEF SumOver

LEMMA SumOfNone ==
  ASSUME NEW S, IsFiniteSet(S), NEW e, \A x \in S : e[x] = 0
  PROVE  SumOver(S, e) = 0
<1>1. \A x \in S : e[x] \in Int /\ e[x] = 0 * e[x]
  OBVIOUS
<1>2. SumOver(S, e) = 0 * SumOver(S, e) /\ SumOver(S, e) \in Int
  BY <1>1, SumScales, SumOverStep
<1> QED
  BY <1>2

(* The sum over part of a set, as a sum over all of it.                    *)
LEMMA SumOfPart ==
  ASSUME NEW S, IsFiniteSet(S), NEW A \in SUBSET S, NEW e, NEW w,
         \A x \in S : e[x] \in Int /\ w[x] = IF x \in A THEN e[x] ELSE 0
  PROVE  SumOver(A, e) = SumOver(S, w)
<1> DEFINE B == S \ A
           a == SumOver(A, w)
<1>1. /\ IsFiniteSet(A) /\ IsFiniteSet(B) /\ A \cup B = S /\ A \cap B = {}
      /\ \A x \in A \cup B : w[x] \in Int
  BY FS_Subset
<1>2. (\A x \in A : w[x] = e[x]) /\ \A x \in B : w[x] = 0
  OBVIOUS
<1> HIDE DEF B
<1>3. SumOver(S, w) = a + SumOver(B, w)
  BY <1>1, SumOfUnion
<1>4. SumOver(B, w) = 0 /\ a = SumOver(A, e)
  BY <1>1, <1>2, SumOfNone, SumOfSame
<1>5. a \in Int
  BY <1>1, SumOverStep
<1> HIDE DEF a
<1>6. SumOver(S, w) = a
  BY <1>3, <1>4, <1>5
<1> QED
  BY <1>4, <1>6

(* A sum over a set is the sum over its parts.                             *)
Part(S, p, c) == {x \in S : p[x] = c}

PartsOf(S, p, C, e, parts) ==
  /\ IsFiniteSet(S) /\ \A x \in S : e[x] \in Int /\ p[x] \in C
  /\ \A c \in C : \E x \in S : p[x] = c
  /\ \A c \in C : parts[c] = SumOver(Part(S, p, c), e)

LEMMA SumOfParts ==
  ASSUME NEW S, NEW e, NEW p, NEW C, NEW parts, PartsOf(S, p, C, e, parts)
  PROVE  SumOver(C, parts) = SumOver(S, e)
<1>a. /\ IsFiniteSet(S) /\ (\A x \in S : e[x] \in Int) /\ (\A x \in S : p[x] \in C)
      /\ (\A c \in C : \E x \in S : p[x] = c)
      /\ (\A c \in C : parts[c] = SumOver(Part(S, p, c), e))
  BY DEF PartsOf
<1> DEFINE upTo(T) == {x \in S : p[x] \in T}
           Good == {T \in SUBSET C : SumOver(T, parts) = SumOver(upTo(T), e)}
<1>0. IsFiniteSet(C)
  <2>1. C = {p[x] : x \in S}
    BY <1>a
  <2> QED
    BY <1>a, <2>1, ImageIsFinite
<1>1. ASSUME NEW c \in C
      PROVE  IsFiniteSet(Part(S, p, c)) /\ parts[c] = SumOver(Part(S, p, c), e) /\ parts[c] \in Int
  <2>1. IsFiniteSet(Part(S, p, c)) /\ \A x \in Part(S, p, c) : e[x] \in Int
    BY <1>a, FS_Subset DEF Part
  <2>2. SumOver(Part(S, p, c), e) \in Int
    BY <2>1, SumOverStep
  <2> QED
    BY <1>a, <2>1, <2>2
<1>2. ASSUME NEW T \in SUBSET C, \A c \in T : T \ {c} \in Good
      PROVE  T \in Good
  <2>1. IsFiniteSet(T) /\ \A c \in T : parts[c] \in Int
    BY <1>0, <1>1, FS_Subset
  <2>2. CASE T = {}
    <3>1. upTo(T) = {}
      BY <2>2
    <3> QED
      BY <2>2, <3>1, SumOverNothing
  <2>3. ASSUME NEW c \in T PROVE T \in Good
    <3> DEFINE A == Part(S, p, c)
               B == upTo(T \ {c})
    <3>1. upTo(T) = A \cup B /\ A \cap B = {} /\ \A x \in A \cup B : e[x] \in Int
      BY <1>a DEF Part
    <3>2. IsFiniteSet(A) /\ IsFiniteSet(B)
      BY <1>a, FS_Subset DEF Part
    <3>3. SumOver(T, parts) = parts[c] + SumOver(T \ {c}, parts)
      BY <2>1, SumOverStep
    <3>4. SumOver(T \ {c}, parts) = SumOver(B, e)
      BY <1>2
    <3>5. parts[c] = SumOver(A, e)
      BY <1>1
    <3> HIDE DEF upTo, A, B
    <3>6. SumOver(upTo(T), e) = SumOver(A, e) + SumOver(B, e)
      BY <3>1, <3>2, SumOfUnion
    <3>7. SumOver(T, parts) = SumOver(upTo(T), e)
      BY <3>3, <3>4, <3>5, <3>6
    <3> QED
      BY <3>7
  <2> QED
    BY <2>2, <2>3
<1>3. C \in Good
  <2> HIDE DEF Good
  <2> QED
    BY <1>0, <1>2, SubsetInduction
<1>4. upTo(C) = S
  BY <1>a
<1> HIDE DEF upTo
<1> QED
  BY <1>3, <1>4

(* A sum over a set that is named one for one by another.                  *)
LEMMA SumRenamed ==
  ASSUME NEW K, IsFiniteSet(K), NEW b, \A k, l \in K : b[k] = b[l] => k = l,
         NEW I, \A k \in K : b[k] \in I, \A x \in I : \E k \in K : b[k] = x,
         NEW e, \A x \in I : e[x] \in Int,
         NEW named, \A k \in K : named[k] = e[b[k]]
  PROVE  SumOver(I, e) = SumOver(K, named)
<1> DEFINE image(T) == {b[k] : k \in T}
           Good == {T \in SUBSET K : SumOver(image(T), e) = SumOver(T, named)}
<1>1. ASSUME NEW T \in SUBSET K, \A k \in T : T \ {k} \in Good
      PROVE  T \in Good
  <2>1. IsFiniteSet(T) /\ IsFiniteSet(image(T))
    <3>1. IsFiniteSet(T)
      BY FS_Subset
    <3> QED
      BY <3>1, ImageIsFinite
  <2>2. (\A x \in image(T) : e[x] \in Int) /\ \A k \in T : named[k] \in Int
    OBVIOUS
  <2>3. CASE T = {}
    <3>1. image(T) = {}
      BY <2>3
    <3> QED
      BY <2>3, <3>1, SumOverNothing
  <2>4. ASSUME NEW k \in T PROVE T \in Good
    <3>1. image(T) \ {b[k]} = image(T \ {k}) /\ b[k] \in image(T)
      OBVIOUS
    <3>2. SumOver(image(T \ {k}), e) = SumOver(T \ {k}, named) /\ named[k] = e[b[k]]
      BY <1>1
    <3> HIDE DEF image
    <3>3. SumOver(image(T), e) = e[b[k]] + SumOver(image(T) \ {b[k]}, e)
      BY <2>1, <2>2, <3>1, SumOverStep
    <3>4. SumOver(T, named) = named[k] + SumOver(T \ {k}, named)
      BY <2>1, <2>2, SumOverStep
    <3>5. SumOver(image(T), e) = SumOver(T, named)
      BY <3>1, <3>2, <3>3, <3>4
    <3> QED
      BY <3>5
  <2> QED
    BY <2>3, <2>4
<1>2. K \in Good
  <2> HIDE DEF Good
  <2> QED
    BY <1>1, SubsetInduction
<1>3. image(K) = I
  OBVIOUS
<1> HIDE DEF image
<1> QED
  BY <1>2, <1>3

(* A sum is at most as many times the largest term as it has terms.        *)
LEMMA SumIsBounded ==
  ASSUME NEW S, IsFiniteSet(S), NEW most \in Nat, NEW e,
         \A x \in S : e[x] \in Int /\ e[x] <= most /\ -most <= e[x]
  PROVE  SumOver(S, e) <= most * Cardinality(S) /\ -(most * Cardinality(S)) <= SumOver(S, e)
<1> DEFINE bound(T) == most * Cardinality(T)
           Good == {T \in SUBSET S : SumOver(T, e) <= bound(T) /\ -bound(T) <= SumOver(T, e)}
<1>1. ASSUME NEW T \in SUBSET S, \A x \in T : T \ {x} \in Good
      PROVE  T \in Good
  <2>1. IsFiniteSet(T) /\ \A x \in T : e[x] \in Int
    BY FS_Subset
  <2>2. CASE T = {}
    <3>1. SumOver(T, e) = 0 /\ Cardinality(T) = 0
      BY <2>2, SumOverNothing, FS_EmptySet
    <3> QED
      BY <3>1
  <2>3. ASSUME NEW x \in T PROVE T \in Good
    <3> DEFINE n == Cardinality(T \ {x})
               a == SumOver(T \ {x}, e)
               m == most * n
    <3>1. SumOver(T, e) = e[x] + a /\ e[x] \in Int /\ a \in Int /\ IsFiniteSet(T \ {x})
      BY <2>1, SumOverLess
    <3>2. n \in Nat /\ Cardinality(T) = n + 1
      BY <2>1, <3>1, FS_CardinalityType, FS_RemoveElement
    <3>3. a <= m /\ -m <= a
      BY <1>1
    <3>4. e[x] <= most /\ -most <= e[x]
      OBVIOUS
    <3> HIDE DEF n, a
    <3>5. most * (n + 1) = m + most /\ m \in Nat
      BY <3>2
    <3> HIDE DEF m
    <3>6. SumOver(T, e) <= m + most /\ -(m + most) <= SumOver(T, e)
      BY <3>1, <3>3, <3>4, <3>5
    <3>7. bound(T) = m + most
      BY <3>2, <3>5
    <3> QED
      BY <3>6, <3>7
  <2> QED
    BY <2>2, <2>3
<1>2. S \in Good
  <2> HIDE DEF Good
  <2> QED
    BY <1>1, SubsetInduction
<1> QED
  BY <1>2

LEMMA SumIsNat ==
  ASSUME NEW S, IsFiniteSet(S), NEW e, \A x \in S : e[x] \in Nat
  PROVE  SumOver(S, e) \in Nat
<1> DEFINE Good == {T \in SUBSET S : SumOver(T, e) \in Nat}
<1>1. ASSUME NEW T \in SUBSET S, \A x \in T : T \ {x} \in Good
      PROVE  T \in Good
  <2>1. IsFiniteSet(T) /\ \A x \in T : e[x] \in Int
    BY FS_Subset
  <2>2. T = {} => SumOver(T, e) = 0
    BY SumOverNothing
  <2>3. ASSUME NEW x \in T PROVE SumOver(T, e) \in Nat
    <3> DEFINE left == SumOver(T \ {x}, e)
    <3>1. e[x] \in Nat /\ left \in Nat
      BY <1>1
    <3>2. SumOver(T, e) = e[x] + left
      BY <2>1, SumOverStep
    <3> HIDE DEF left
    <3> QED
      BY <3>1, <3>2
  <2> QED
    BY <2>2, <2>3
<1>2. S \in Good
  <2> HIDE DEF Good
  <2> QED
    BY <1>1, SubsetInduction
<1> QED
  BY <1>2

----------------------------------------------------------------------------
(***************************************************************************)
(* The types.  Rows are finitely many; those of the first close are the    *)
(* ones posted, and a close holds one row of a key and voucher.            *)
(***************************************************************************)
RowsInv ==
  /\ IsFiniteSet(rows) /\ rows \subseteq Row /\ merged \subseteq Row
  /\ \A r \in rows \cup merged : r.version <= closes
  /\ \A r \in rows : r.version = 1 => r \in Posted
  /\ \A r, s \in rows : r.key = s.key /\ r.version = s.version /\ r.voucher = s.voucher => r = s
  /\ due => \A r \in rows : r.version = 1

(* The run is the one a lookup made, and the report on hand is typed.      *)
RunTyped ==
  run # NoRun =>
    run \in [scope : {run.scope}, query : BridgeQueries, asOf : Instants \cup {Current},
             vintage : 1 .. closes, settled : BOOLEAN]

ReportsTyped ==
  /\ report = [id \in Ids |-> report[id]]
  /\ \A id \in Ids : report[id] = NoReport \/ report[id] \in Report

TypeInv ==
  /\ Books /\ RowsInv /\ RunTyped /\ ReportsTyped
  /\ computing \in 0 .. Len(Scenarios)

LEMMA TypeInvTypeOK == TypeInv => TypeOK
BY DEF TypeInv, Books, RowsInv, RunTyped, ReportsTyped, TypeOK, Vintages

LEMMA RestatedRowIs ==
  ASSUME NEW r \in Row, Trued[r.quantity] \in Nat, NEW fate
  PROVE  LET new == RestatedRow(r, fate)
         IN new \in Row /\ new.key = r.key /\ new.voucher = r.voucher /\ new.version = 2
<1> DEFINE quantity == IF fate = "trued" THEN Trued[r.quantity] ELSE r.quantity
           deleted == (fate = "reversed")
<1>1. quantity \in Nat /\ deleted \in BOOLEAN
  BY DEF Row
<1>2. RestatedRow(r, fate) = [r EXCEPT !.version = 2, !.deleted = deleted, !.quantity = quantity]
  BY DEF RestatedRow
<1> HIDE DEF quantity, deleted
<1>3. RestatedRow(r, fate) = [key |-> r.key, version |-> 2, voucher |-> r.voucher,
                              quantity |-> quantity, deleted |-> deleted]
  BY <1>2 DEF Row
<1>4. r.key \in Keys /\ r.voucher \in Nat
  BY DEF Row
<1> QED
  BY <1>1, <1>3, <1>4 DEF Row, Vintages

(* The restated rows: one for a row of the first close, of the second.     *)
LEMMA RestateKeepsRows ==
  ASSUME Books, RowsInv, Restate
  PROVE  RowsInv'
<1> DEFINE old == {r \in rows : r.version = 1 /\ r.key \in Restatable}
<1>1. PICK fate \in [old -> {"kept", "reversed", "trued"}] :
        rows' = rows \cup {RestatedRow(r, fate[r]) : r \in {r \in old : fate[r] # "kept"}}
  BY DEF Restate
<1>2. due /\ closes' = closes /\ merged' = merged /\ ~due' /\ closes = 2
  BY DEF Restate, Books
<1> DEFINE changed == {r \in old : fate[r] # "kept"}
           new == [r \in changed |-> RestatedRow(r, fate[r])]
<1>3. rows' = rows \cup {new[r] : r \in changed}
  BY <1>1
<1>4. \A r \in changed : r \in rows /\ r \in Row /\ r \in Posted /\ Trued[r.quantity] \in Nat
  <2>1. \A r \in changed : r \in rows /\ r.version = 1 /\ r.key \in Restatable
    OBVIOUS
  <2> HIDE DEF changed
  <2>2. \A r \in changed : r \in Row /\ r \in Posted
    BY <2>1 DEF RowsInv
  <2> QED
    BY <2>1, <2>2, PostedAssumption
<1>5. ASSUME NEW r \in changed
      PROVE  new[r] \in Row /\ new[r].key = r.key /\ new[r].voucher = r.voucher /\ new[r].version = 2
  BY <1>4, RestatedRowIs
<1>6. IsFiniteSet(rows')
  <2>1. IsFiniteSet(changed)
    BY FS_Subset DEF RowsInv
  <2>2. IsFiniteSet({new[r] : r \in changed})
    <3> HIDE DEF new, changed
    <3> QED
      BY <2>1, ImageIsFinite
  <2>3. IsFiniteSet(rows)
    BY DEF RowsInv
  <2> HIDE DEF new, changed
  <2>4. IsFiniteSet(rows \cup {new[r] : r \in changed})
    BY <2>2, <2>3, FS_Union
  <2> QED
    BY <1>3, <2>4
<1>7. \A r \in rows : r.version = 1
  BY <1>2 DEF RowsInv
<1>8. \A r \in changed : r.version = 1
  BY <1>4, <1>7
<1> HIDE DEF new, changed
<1>9. rows' \subseteq Row /\ \A r \in rows' : r.version = 1 => r \in rows
  BY <1>3, <1>5 DEF RowsInv
<1>10. ASSUME NEW r \in rows', NEW s \in rows',
              r.key = s.key, r.version = s.version, r.voucher = s.voucher
       PROVE  r = s
  <2>1. CASE r \in rows /\ s \in rows
    BY <1>10, <2>1 DEF RowsInv
  <2>2. CASE r \notin rows
    <3>1. PICK a \in changed : r = new[a]
      BY <1>3, <2>2
    <3>2. PICK b \in changed : s = new[b]
      BY <1>3, <1>5, <1>7, <1>10, <3>1
    <3>3. a = b
      BY <1>4, <1>5, <1>8, <1>10, <3>1, <3>2 DEF RowsInv
    <3> QED
      BY <3>1, <3>2, <3>3
  <2>3. CASE s \notin rows
    <3>1. PICK a \in changed : s = new[a]
      BY <1>3, <2>3
    <3>2. PICK b \in changed : r = new[b]
      BY <1>3, <1>5, <1>7, <1>10, <3>1
    <3>3. a = b
      BY <1>4, <1>5, <1>8, <1>10, <3>1, <3>2 DEF RowsInv
    <3> QED
      BY <3>1, <3>2, <3>3
  <2> QED
    BY <2>1, <2>2, <2>3
<1>11. \A r \in rows' \cup merged' : r.version <= closes'
  <2>1. \A r \in rows' : r.version \in 1 .. 2
    BY <1>9 DEF Row, Vintages
  <2> QED
    BY <1>2, <2>1 DEF RowsInv
<1> QED
  BY <1>2, <1>6, <1>9, <1>10, <1>11 DEF RowsInv

LEMMA StoredIsNat == \A n \in Nat : StoredAmount(n) \in Nat
BY DEF StoredAmount

LEMMA RoundedIsInt == \A n \in Int : Rounded(n) \in Int
<1>1. Cent \in Nat \ {0}
  BY ScaleAssumption DEF Cent
<1> SUFFICES ASSUME NEW n \in Int PROVE Rounded(n) \in Int
  OBVIOUS
<1> DEFINE cents == n \div Cent
<1>2. cents \in Int
  BY <1>1
<1> HIDE DEF cents
<1>3. Cent * cents \in Int /\ Cent * (cents + 1) \in Int
  BY <1>1, <1>2
<1>4. Rounded(n) \in {Cent * cents, Cent * (cents + 1)}
  BY DEF Rounded, cents
<1> QED
  BY <1>3, <1>4

----------------------------------------------------------------------------
(***************************************************************************)
(* The lines a report is made of: finitely many, one of a key, each with a *)
(* path of at least as many values as it is rolled up by, and the amounts    *)
(* that its quantities and prices make once they are rounded.              *)
(***************************************************************************)
OkLine(l, levels) ==
  /\ l.key \in Keys /\ l.cost \in BOOLEAN
  /\ l.pq \in Nat /\ l.aq \in Nat /\ l.pp \in Nat /\ l.ap \in Nat /\ l.af \in Nat
  /\ l.pf \in Nat /\ l.pf = KeyInfo[l.key].pf
  /\ l.plan = StoredAmount(l.pq * l.pp) /\ l.actual = StoredAmount(l.aq * l.ap)
  /\ levels \in 0 .. Len(l.path) /\ \E values : l.path \in Seq(values)

LineSet(lines, levels) ==
  /\ IsFiniteSet(lines) /\ levels \in Nat
  /\ \A l \in lines : OkLine(l, levels)
  /\ \A l, m \in lines : l.key = m.key => l = m

LEMMA CutIsOk ==
  ASSUME NEW values, NEW path \in Seq(values), NEW n \in 0 .. Len(path)
  PROVE  Cut(path, n) \in Seq(values) /\ Len(Cut(path, n)) = n
<1>1. Len(path) \in Nat /\ \A i \in 1 .. n : path[i] \in values
  BY LenProperties, ElementOfSeq
<1>2. SubSeq(path, 1, n) \in Seq(values) /\ Len(SubSeq(path, 1, n)) = IF 1 <= n THEN n - 1 + 1 ELSE 0
  BY <1>1, SubSeqProperties
<1> QED
  BY <1>1, <1>2 DEF Cut

LEMMA LedgerLinesAreOk ==
  ASSUME RowsInv, NEW q \in BridgeQueries, NEW scope, NEW vintage
  PROVE  LineSet({LedgerLine(r, q) : r \in CompileBridge(q, scope, rows, vintage)}, q.levels)
<1> DEFINE read == CompileBridge(q, scope, rows, vintage)
<1>1. /\ read \subseteq rows
      /\ \A r \in read : r.key \in Keys /\ KeyInfo[r.key].plan > 0 /\ r.version <= vintage
      /\ \A r \in read, s \in read : r.key = s.key => ~Supersedes(r, s)
  BY DEF CompileBridge, Live, ActualSource
<1>2. \A r \in read : r \in Row
  BY <1>1 DEF RowsInv
<1> HIDE DEF read
<1>3. ASSUME NEW r \in read, NEW s \in read, r.key = s.key
      PROVE  r = s
  <2>1. ~Supersedes(r, s) /\ ~Supersedes(s, r)
    BY <1>1, <1>3
  <2>2. {r.version, s.version, r.voucher, s.voucher} \subseteq Nat
    BY <1>2 DEF Row, Vintages
  <2>3. r.version = s.version /\ r.voucher = s.voucher
    BY <1>3, <2>1, <2>2 DEF Supersedes
  <2> QED
    BY <1>1, <1>3, <2>3 DEF RowsInv
<1>4. ASSUME NEW r \in read PROVE OkLine(LedgerLine(r, q), q.levels)
  <2> DEFINE k == KeyInfo[r.key]
             l == LedgerLine(r, q)
  <2>1. /\ r.key \in Keys /\ r.quantity \in Nat /\ k.cost \in BOOLEAN
        /\ {k.plan, k.planPrice, k.price, k.pf, k.af} \subseteq Nat
        /\ k.path \in Seq(ToSet(k.path))
    BY <1>1, <1>2, LedgerAssumption DEF Row
  <2>2. q.levels \in 0 .. Len(k.path)
    BY <2>1, LevelsAssumption, LenProperties
  <2>3. Cut(k.path, q.levels) \in Seq(ToSet(k.path)) /\ Len(Cut(k.path, q.levels)) = q.levels
    BY <2>1, <2>2, CutIsOk
  <2>4. /\ l.key = r.key /\ l.path = Cut(k.path, q.levels) /\ l.cost = k.cost
        /\ l.pq = k.plan /\ l.aq = r.quantity /\ l.pp = k.planPrice /\ l.ap = k.price
        /\ l.pf = k.pf /\ l.af = k.af
        /\ l.plan = StoredAmount(k.plan * k.planPrice)
        /\ l.actual = StoredAmount(r.quantity * k.price)
    BY DEF LedgerLine, Cut
  <2> HIDE DEF l, k
  <2>5. OkLine(l, q.levels)
    BY <2>1, <2>3, <2>4 DEF OkLine, k
  <2> QED
    BY <2>5 DEF l
<1>5. IsFiniteSet(read)
  BY <1>1, FS_Subset DEF RowsInv
<1>6. q.levels \in Nat
  BY LevelsAssumption
<1> DEFINE f == [r \in read |-> LedgerLine(r, q)]
<1>7. IsFiniteSet({f[r] : r \in read})
  <2> HIDE DEF f
  <2> QED
    BY <1>5, ImageIsFinite
<1>8. {f[r] : r \in read} = {LedgerLine(r, q) : r \in read}
  OBVIOUS
<1>9. \A r \in read : LedgerLine(r, q).key = r.key
  BY DEF LedgerLine
<1> DEFINE lines == {LedgerLine(r, q) : r \in read}
<1>10. IsFiniteSet(lines) /\ \A l \in lines : OkLine(l, q.levels)
  BY <1>4, <1>7, <1>8
<1>11. ASSUME NEW l \in lines, NEW m \in lines, l.key = m.key
       PROVE  l = m
  <2>1. PICK r \in read, s \in read : l = LedgerLine(r, q) /\ m = LedgerLine(s, q)
    OBVIOUS
  <2> QED
    BY <1>3, <1>9, <1>11, <2>1
<1> HIDE DEF lines
<1>12. LineSet(lines, q.levels)
  BY <1>6, <1>10, <1>11 DEF LineSet
<1> QED
  BY <1>12 DEF lines, read

(* The line of a forecast for a key, by how many levels it rolls up.       *)
ForecastLine(s, levels, k) ==
  LET info == KeyInfo[k]
      staged == Staged[s][k]
  IN [key |-> k, path |-> SubSeq(<<info.account, info.company, info.month>>, 1, levels), cost |-> info.cost,
      pq |-> info.plan, aq |-> staged.quantity, pp |-> info.planPrice, ap |-> staged.price,
      pf |-> info.pf, af |-> info.pf,
      plan |-> StoredAmount(info.plan * info.planPrice),
      actual |-> StoredAmount(staged.quantity * staged.price)]

LEMMA ForecastLinesAreOk ==
  ASSUME NEW s \in Forecasts, NEW levels \in 0 .. 3
  PROVE  LineSet(ForecastLines(s, levels), levels)
<1> DEFINE keys == DOMAIN Staged[s]
           f == [k \in keys |-> ForecastLine(s, levels, k)]
<1>1. IsFiniteSet(keys) /\ keys \subseteq Keys
  BY StagedAssumption DEF Forecasts
<1>2. ForecastLines(s, levels) = {f[k] : k \in keys}
  BY DEF ForecastLines, ForecastLine
<1>3. ASSUME NEW k \in keys PROVE OkLine(f[k], levels) /\ f[k].key = k
  <2> DEFINE info == KeyInfo[k]
             staged == Staged[s][k]
             path == <<info.account, info.company, info.month>>
             values == {info.account, info.company, info.month}
             l == ForecastLine(s, levels, k)
  <2>1. /\ info.cost \in BOOLEAN /\ {info.plan, info.planPrice, info.pf} \subseteq Nat
        /\ {staged.quantity, staged.price} \subseteq Nat
    BY <1>1, LedgerAssumption, StagedAssumption DEF Forecasts
  <2>2. path \in Seq(values) /\ Len(path) = 3
    OBVIOUS
  <2>3. /\ l.key = k /\ l.path = SubSeq(path, 1, levels) /\ l.cost = info.cost
        /\ l.pq = info.plan /\ l.aq = staged.quantity /\ l.pp = info.planPrice /\ l.ap = staged.price
        /\ l.pf = info.pf /\ l.af = info.pf
        /\ l.plan = StoredAmount(info.plan * info.planPrice)
        /\ l.actual = StoredAmount(staged.quantity * staged.price)
    BY DEF ForecastLine
  <2> HIDE DEF l, path, values, staged
  <2>4. l.path \in Seq(values) /\ levels \in 0 .. Len(l.path)
    <3>1. Len(l.path) = levels /\ l.path \in Seq(values)
      BY <2>2, <2>3, CutIsOk DEF Cut
    <3> QED
      BY <3>1
  <2> HIDE DEF info
  <2>5. OkLine(l, levels)
    BY <1>1, <2>1, <2>3, <2>4 DEF OkLine, info
  <2> QED
    BY <2>3, <2>5 DEF l
<1> HIDE DEF f, keys
<1>4. IsFiniteSet({f[k] : k \in keys})
  BY <1>1, ImageIsFinite
<1> QED
  BY <1>2, <1>3, <1>4 DEF LineSet

----------------------------------------------------------------------------
(***************************************************************************)
(* The rollup.  What a node is made of is known of a tree that every node  *)
(* of it is made in; that there is one is shown from the leaves up.        *)
(***************************************************************************)
LEMMA CutOfCut ==
  ASSUME NEW values, NEW path \in Seq(values), NEW n \in Nat, n < Len(path)
  PROVE  Cut(Cut(path, n + 1), n) = Cut(path, n)
<1>1. Len(path) \in Nat
  BY LenProperties
<1>2. CASE n = 0
  BY <1>2, SubSeqEmpty DEF Cut
<1>3. CASE n # 0
  <2>1. 1 \in 1 .. Len(path) /\ n + 1 \in 1 .. Len(path)
    BY <1>1, <1>3
  <2>2. 1 \in 1 .. (n + 1) - 1 + 1 /\ n \in 1 .. (n + 1) - 1 + 1
    BY <1>3
  <2>3. SubSeq(SubSeq(path, 1, n + 1), 1, n) = SubSeq(path, 1 + 1 - 1, 1 + n - 1)
    BY <2>1, <2>2, SubSeqOfSubSeq
  <2>4. 1 + 1 - 1 = 1 /\ 1 + n - 1 = n
    OBVIOUS
  <2> QED
    BY <2>3, <2>4 DEF Cut
<1> QED
  BY <1>2, <1>3

(* Nodes are as long as they were cut, and the lines under one below it    *)
(* are under it.                                                           *)
LEMMA NodesAre ==
  ASSUME NEW lines, NEW levels, LineSet(lines, levels)
  PROVE  /\ \A path \in Nodes(lines, levels) : Len(path) \in 0 .. levels
         /\ \A path \in Nodes(lines, levels) : Len(path) < levels =>
              /\ Children(lines, path) \subseteq Nodes(lines, levels)
              /\ \A c \in Children(lines, path) :
                   /\ Len(c) = Len(path) + 1
                   /\ Under(lines, c) = {l \in Under(lines, path) : Cut(l.path, Len(path) + 1) = c}
<1>1. ASSUME NEW l \in lines, NEW n \in 0 .. levels
      PROVE  Len(Cut(l.path, n)) = n
  BY <1>1, CutIsOk DEF LineSet, OkLine
<1>2. ASSUME NEW l \in lines, NEW n \in Nat, n < levels
      PROVE  Cut(Cut(l.path, n + 1), n) = Cut(l.path, n)
  BY <1>2, CutOfCut DEF LineSet, OkLine
<1>3. levels \in Nat
  BY DEF LineSet
<1>4. ASSUME NEW path \in Nodes(lines, levels)
      PROVE  Len(path) \in 0 .. levels
  BY <1>1 DEF Nodes
<1>5. ASSUME NEW path \in Nodes(lines, levels), Len(path) < levels, NEW c \in Children(lines, path)
      PROVE  /\ c \in Nodes(lines, levels) /\ Len(c) = Len(path) + 1
             /\ Under(lines, c) = {l \in Under(lines, path) : Cut(l.path, Len(path) + 1) = c}
  <2> DEFINE n == Len(path)
  <2>1. n \in 0 .. levels /\ n \in Nat /\ n < levels /\ n + 1 \in 0 .. levels
    BY <1>3, <1>4, <1>5
  <2>2. PICK l \in lines : Cut(l.path, n) = path /\ c = Cut(l.path, n + 1)
    BY DEF Children, Under
  <2> HIDE DEF n
  <2>3. Len(c) = n + 1
    BY <1>1, <2>1, <2>2
  <2>4. c \in Nodes(lines, levels)
    BY <2>1, <2>2 DEF Nodes
  <2>5. \A m \in lines : Cut(m.path, n + 1) = c => Cut(m.path, n) = path
    BY <1>2, <2>1, <2>2
  <2>6. Under(lines, c) = {m \in lines : Cut(m.path, n + 1) = c}
    BY <2>3 DEF Under
  <2>7. Under(lines, path) = {m \in lines : Cut(m.path, n) = path}
    BY DEF Under, n
  <2> QED
    BY <2>3, <2>4, <2>5, <2>6, <2>7 DEF n
<1> QED
  BY <1>4, <1>5

(* A node looks at the tree for its children only.                         *)
LEMMA NodeLooksDown ==
  ASSUME NEW lines, NEW path, NEW depth, NEW convention, NEW t, NEW u,
         Len(path) < depth => \A c \in Children(lines, path) : t[c] = u[c]
  PROVE  Node(lines, path, depth, convention, t) = Node(lines, path, depth, convention, u)
<1>1. Len(path) < depth =>
        [c \in Children(lines, path) |-> Mix(t[c])] = [c \in Children(lines, path) |-> Mix(u[c])]
  OBVIOUS
<1> DEFINE inner == Len(path) < depth /\ Revenue(Under(lines, path)) # {}
           below(tree) == IF inner THEN SumFunction([c \in Children(lines, path) |-> Mix(tree[c])]) ELSE 0
<1>2. below(t) = below(u)
  BY <1>1
<1> QED
  BY <1>2 DEF Node

(* There is a tree.                                                        *)
LEMMA TreeIsMade ==
  ASSUME NEW lines, NEW levels, LineSet(lines, levels), NEW convention
  PROVE  Decompose(lines, levels, convention) =
           [path \in Nodes(lines, levels) |->
              Node(lines, path, levels, convention, Decompose(lines, levels, convention))]
<1> DEFINE node(path, t) == Node(lines, path, levels, convention, t)
           nodes(n) == {path \in Nodes(lines, levels) : levels - n <= Len(path)}
           made(t, n) == t = [path \in nodes(n) |-> node(path, t)]
           Good == {n \in 0 .. levels : \E t : made(t, n)}
<1>0. levels \in Nat /\ \A path \in Nodes(lines, levels) : Len(path) \in 0 .. levels
  BY NodesAre DEF LineSet
<1>1. ASSUME NEW m \in 0 .. levels, m # 0 => m - 1 \in Good
      PROVE  m \in Good
  <2>1. CASE m = 0
    <3> DEFINE t == [path \in nodes(0) |-> node(path, {})]
    <3>1. ASSUME NEW path \in nodes(0) PROVE t[path] = node(path, t)
      <4>1. ~(Len(path) < levels)
        BY <1>0
      <4> HIDE DEF t
      <4>2. node(path, {}) = node(path, t)
        BY <4>1, NodeLooksDown
      <4> QED
        BY <4>2 DEF t
    <3> HIDE DEF node
    <3>2. made(t, 0)
      BY <3>1
    <3> QED
      BY <1>0, <2>1, <3>2
  <2>2. CASE m # 0
    <3> DEFINE n == m - 1
    <3>1. n \in 0 .. levels /\ n \in Good /\ n < m
      <4> HIDE DEF Good
      <4> QED
        BY <1>0, <1>1, <2>2
    <3>2. PICK t : made(t, n)
      BY <3>1
    <3> DEFINE u == [path \in nodes(m) |-> node(path, t)]
    <3>3. ASSUME NEW path \in nodes(m), Len(path) < levels, NEW c \in Children(lines, path)
          PROVE  c \in nodes(n) /\ c \in nodes(m)
      <4>1. c \in Nodes(lines, levels) /\ Len(c) = Len(path) + 1
        BY <3>3, NodesAre
      <4> QED
        BY <1>0, <4>1
    <3>4. ASSUME NEW path \in nodes(m) PROVE u[path] = node(path, u)
      <4>1. \A c \in nodes(n) : c \in nodes(m) => t[c] = u[c]
        <5> HIDE DEF node, nodes
        <5> QED
          BY <3>2
      <4>2. Len(path) < levels => \A c \in Children(lines, path) : t[c] = u[c]
        <5> HIDE DEF u
        <5> QED
          BY <3>3, <4>1
      <4> HIDE DEF u
      <4>3. node(path, t) = node(path, u)
        BY <4>2, NodeLooksDown
      <4> QED
        BY <4>3 DEF u
    <3> HIDE DEF node
    <3>5. made(u, m)
      BY <3>4
    <3> QED
      BY <3>5
  <2> QED
    BY <2>1, <2>2
<1> HIDE DEF Good
<1>2. levels \in Good
  BY <1>0, <1>1, CountingUp
<1>3. PICK t : made(t, levels)
  BY <1>2 DEF Good
<1>4. nodes(levels) = Nodes(lines, levels)
  BY <1>0
<1>5. \E t0 : t0 = [path \in Nodes(lines, levels) |-> node(path, t0)]
  BY <1>3, <1>4
<1> HIDE DEF node
<1>6. Decompose(lines, levels, convention) =
        CHOOSE t0 : t0 = [path \in Nodes(lines, levels) |-> node(path, t0)]
  BY DEF Decompose, node
<1> QED
  BY <1>5, <1>6 DEF node

----------------------------------------------------------------------------
(***************************************************************************)
(* What a node adds up: each amount of a line, or nothing where the line   *)
(* is not of the kind the leg is about.                                    *)
(***************************************************************************)
PlanOf(lines, margin)   == [l \in lines |-> PlanUsd(l, margin)]
ActualOf(lines, margin) == [l \in lines |-> ActualUsd(l, margin)]
FxOf(lines, margin)     == [l \in lines |-> FxLeg(l, margin)]
PriceOf(lines, margin, convention)    == [l \in lines |-> PriceLeg(l, margin, convention)]
QuantityOf(lines, margin, convention) == [l \in lines |-> QuantityLeg(l, margin, convention)]
DeltaOf(lines) == [l \in lines |-> l.aq - l.pq]

(* The amounts are whole numbers.                                          *)
LEMMA AmountsAreInts ==
  ASSUME NEW lines, NEW levels, LineSet(lines, levels), NEW margin, NEW convention
  PROVE  /\ PlanOf(lines, margin) \in [lines -> Int] /\ ActualOf(lines, margin) \in [lines -> Int]
         /\ FxOf(lines, margin) \in [lines -> Int]
         /\ PriceOf(lines, margin, convention) \in [lines -> Int]
         /\ QuantityOf(lines, margin, convention) \in [lines -> Int]
         /\ DeltaOf(lines) \in [lines -> Int]
         /\ \A l \in lines : MixPrice(l, convention) \in Nat /\ Sign(l, margin) \in {1, -1}
         /\ \A l \in lines : ~l.cost => Sign(l, margin) = 1
<1>1. ASSUME NEW l \in lines
      PROVE  /\ l.pq \in Nat /\ l.aq \in Nat /\ l.pp \in Nat /\ l.ap \in Nat /\ l.af \in Nat
             /\ l.pf \in Nat /\ l.plan \in Nat /\ l.actual \in Nat
  <2>1. /\ {l.pq, l.aq, l.pp, l.ap, l.af, l.pf} \subseteq Nat
        /\ l.plan = StoredAmount(l.pq * l.pp) /\ l.actual = StoredAmount(l.aq * l.ap)
    BY DEF LineSet, OkLine
  <2>2. l.pq * l.pp \in Nat /\ l.aq * l.ap \in Nat
    BY <2>1
  <2>3. l.plan \in Nat /\ l.actual \in Nat
    BY <2>1, <2>2, StoredIsNat
  <2> QED
    BY <2>1, <2>3
<1>2. ASSUME NEW l \in lines
      PROVE  Sign(l, margin) \in {1, -1} /\ MixPrice(l, convention) \in Nat /\ (~l.cost => Sign(l, margin) = 1)
  BY <1>1 DEF Sign, MixPrice
<1>3. ASSUME NEW l \in lines
      PROVE  /\ PlanUsd(l, margin) \in Int /\ ActualUsd(l, margin) \in Int /\ FxLeg(l, margin) \in Int
             /\ PriceLeg(l, margin, convention) \in Int /\ QuantityLeg(l, margin, convention) \in Int
             /\ l.aq - l.pq \in Int
  <2> DEFINE sign == Sign(l, margin)
             price == MixPrice(l, convention)
             quantity == IF convention = "volume_first" THEN l.aq ELSE l.pq
  <2>1. sign \in Int /\ price \in Int /\ quantity \in Int
    BY <1>1, <1>2
  <2> HIDE DEF sign, price, quantity
  <2>2. /\ PlanUsd(l, margin) = sign * l.plan * l.pf
        /\ ActualUsd(l, margin) = sign * l.actual * l.af
        /\ FxLeg(l, margin) = sign * l.actual * (l.af - l.pf)
        /\ PriceLeg(l, margin, convention) = sign * (l.ap - l.pp) * l.pf * quantity
        /\ QuantityLeg(l, margin, convention) = sign * (l.aq - l.pq) * price
    BY DEF PlanUsd, ActualUsd, FxLeg, PriceLeg, QuantityLeg, sign, price, quantity
  <2>3. /\ sign * l.plan * l.pf \in Int /\ sign * l.actual * l.af \in Int
        /\ sign * l.actual * (l.af - l.pf) \in Int
    BY <1>1, <2>1
  <2>4. sign * (l.ap - l.pp) * l.pf * quantity \in Int /\ sign * (l.aq - l.pq) * price \in Int
    BY <1>1, <2>1
  <2> QED
    BY <1>1, <2>2, <2>3, <2>4
<1> QED
  BY <1>2, <1>3 DEF PlanOf, ActualOf, FxOf, PriceOf, QuantityOf, DeltaOf

LEMMA AmountSumsAreInts ==
  ASSUME NEW lines, NEW levels, LineSet(lines, levels), NEW margin, NEW convention,
         NEW some \in SUBSET lines
  PROVE  /\ IsFiniteSet(some)
         /\ SumOver(some, PlanOf(lines, margin)) \in Int /\ SumOver(some, ActualOf(lines, margin)) \in Int
         /\ SumOver(some, FxOf(lines, margin)) \in Int
         /\ SumOver(some, PriceOf(lines, margin, convention)) \in Int
         /\ SumOver(some, QuantityOf(lines, margin, convention)) \in Int
         /\ SumOver(some, DeltaOf(lines)) \in Int
<1>1. IsFiniteSet(some)
  BY FS_Subset DEF LineSet
<1>2. ASSUME NEW e \in [lines -> Int] PROVE SumOver(some, e) \in Int
  <2>1. \A x \in some : e[x] \in Int
    OBVIOUS
  <2> QED
    BY <1>1, <2>1, SumOverStep
<1> QED
  BY <1>1, <1>2, AmountsAreInts

(* The average price is a whole number: no quantity is planned below zero. *)
LEMMA AverageIsInt ==
  ASSUME NEW lines, NEW levels, LineSet(lines, levels), NEW some \in SUBSET lines, NEW convention
  PROVE  AveragePlanPrice(some, convention) \in Int
<1> DEFINE pq == [l \in lines |-> l.pq]
           priced == [l \in lines |-> l.pq * MixPrice(l, convention)]
<1>1. ASSUME NEW l \in lines PROVE l.pq \in Nat /\ MixPrice(l, convention) \in Nat
  BY AmountsAreInts DEF LineSet, OkLine
<1>2. pq \in [lines -> Nat] /\ priced \in [lines -> Int]
  <2>1. ASSUME NEW l \in lines PROVE l.pq * MixPrice(l, convention) \in Int
    BY <1>1
  <2> QED
    BY <1>1, <2>1
<1>3. /\ SumFunction([line \in some |-> line.pq]) = SumOver(some, pq)
      /\ SumFunction([line \in some |-> line.pq * MixPrice(line, convention)]) = SumOver(some, priced)
  <2>1. /\ [x \in some |-> pq[x]] = [line \in some |-> line.pq]
        /\ [x \in some |-> priced[x]] = [line \in some |-> line.pq * MixPrice(line, convention)]
    OBVIOUS
  <2> HIDE DEF pq, priced
  <2> QED
    BY <2>1 DEF SumOver
<1>4. IsFiniteSet(some)
  BY FS_Subset DEF LineSet
<1> HIDE DEF pq, priced
<1> DEFINE planned == SumOver(some, pq)
           total == SumOver(some, priced)
<1>5. planned \in Nat
  <2>1. \A l \in some : pq[l] \in Nat
    BY <1>2
  <2> QED
    BY <1>4, <2>1, SumIsNat
<1>6. total \in Int
  <2>1. \A l \in some : priced[l] \in Int
    BY <1>2
  <2> QED
    BY <1>4, <2>1, SumOverStep
<1>7. AveragePlanPrice(some, convention) = IF planned = 0 THEN 0 ELSE (Scale * total) \div planned
  BY <1>3 DEF AveragePlanPrice
<1> HIDE DEF planned, total
<1>8. Scale * total \in Int
  BY <1>6, ScaleAssumption
<1> QED
  BY <1>5, <1>7, <1>8

(* A node of the tree, leg by leg.                                         *)
LEMMA PartsOfSums ==
  ASSUME NEW lines, NEW some \in SUBSET lines, NEW margin, NEW convention
  PROVE  /\ SumFunction([line \in some |-> PlanUsd(line, margin)]) = SumOver(some, PlanOf(lines, margin))
         /\ SumFunction([line \in some |-> ActualUsd(line, margin)]) = SumOver(some, ActualOf(lines, margin))
         /\ SumFunction([line \in some |-> FxLeg(line, margin)]) = SumOver(some, FxOf(lines, margin))
         /\ SumFunction([line \in some |-> PriceLeg(line, margin, convention)])
              = SumOver(some, PriceOf(lines, margin, convention))
         /\ SumFunction([line \in some |-> QuantityLeg(line, margin, convention)])
              = SumOver(some, QuantityOf(lines, margin, convention))
         /\ DeltaQuantity(some) = SumOver(some, DeltaOf(lines))
<1>1. /\ [line \in some |-> PlanUsd(line, margin)] = [x \in some |-> PlanOf(lines, margin)[x]]
      /\ [line \in some |-> ActualUsd(line, margin)] = [x \in some |-> ActualOf(lines, margin)[x]]
      /\ [line \in some |-> FxLeg(line, margin)] = [x \in some |-> FxOf(lines, margin)[x]]
      /\ [line \in some |-> PriceLeg(line, margin, convention)]
           = [x \in some |-> PriceOf(lines, margin, convention)[x]]
      /\ [line \in some |-> QuantityLeg(line, margin, convention)]
           = [x \in some |-> QuantityOf(lines, margin, convention)[x]]
      /\ [line \in some |-> line.aq - line.pq] = [x \in some |-> DeltaOf(lines)[x]]
  BY DEF PlanOf, ActualOf, FxOf, PriceOf, QuantityOf, DeltaOf
<1> QED
  BY <1>1 DEF SumOver, DeltaQuantity

Below(lines, path, depth, tree) ==
  IF Len(path) < depth /\ Revenue(Under(lines, path)) # {}
  THEN SumFunction([c \in Children(lines, path) |-> Mix(tree[c])]) ELSE 0

(* Quantity variance of the revenue under a path, at the mix price.        *)
Quantity(lines, path, convention) ==
  Scale * SumOver(Revenue(Under(lines, path)), QuantityOf(lines, Margin(lines), convention))

Volume(lines, path, convention) ==
  SumOver(Revenue(Under(lines, path)), DeltaOf(lines))
    * AveragePlanPrice(Revenue(Under(lines, path)), convention)

LEMMA NodeIs ==
  ASSUME NEW lines, NEW levels, LineSet(lines, levels), NEW convention,
         NEW path \in Nodes(lines, levels)
  PROVE  LET tree == Decompose(lines, levels, convention)
             node == tree[path]
             own == Under(lines, path)
             margin == Margin(lines)
             below == Below(lines, path, levels, tree)
         IN /\ node.plan = Scale * SumOver(own, PlanOf(lines, margin))
            /\ node.actual = Scale * SumOver(own, ActualOf(lines, margin))
            /\ node.price = Scale * SumOver(Revenue(own), PriceOf(lines, margin, convention))
            /\ node.rate = Scale * SumOver(Costs(own), PriceOf(lines, margin, convention))
            /\ node.efficiency = Scale * SumOver(Costs(own), QuantityOf(lines, margin, convention))
            /\ node.fx = Scale * SumOver(own, FxOf(lines, margin))
            /\ node.volume = Volume(lines, path, convention)
            /\ node.mixBetween = MixBetween(lines, path, levels, convention)
            /\ node.folded = Quantity(lines, path, convention) - (node.volume + node.mixBetween + below)
            /\ node.mixWithin = below + node.folded
            /\ node.count = Cardinality(own)
<1> DEFINE tree == Decompose(lines, levels, convention)
           own == Under(lines, path)
           margin == Margin(lines)
           below == Below(lines, path, levels, tree)
<1>1. tree[path] = Node(lines, path, levels, convention, tree)
  <2>1. tree = [p \in Nodes(lines, levels) |-> Node(lines, p, levels, convention, tree)]
    BY TreeIsMade
  <2> HIDE DEF tree
  <2> QED
    BY <2>1
<1>2. own \in SUBSET lines /\ Revenue(own) \in SUBSET lines /\ Costs(own) \in SUBSET lines
  BY DEF Under, Revenue, Costs
<1> HIDE DEF tree, own, margin
<1>3. tree[path] = Completed(own, margin, convention, Volume(lines, path, convention),
                     MixBetween(lines, path, levels, convention), below)
  BY <1>1, <1>2, PartsOfSums DEF Node, Below, Volume, own, margin
<1> HIDE DEF below
<1>4. tree[path] = Assembled(own, margin, convention, Volume(lines, path, convention),
                     MixBetween(lines, path, levels, convention), below,
                     Quantity(lines, path, convention)
                       - (Volume(lines, path, convention) + MixBetween(lines, path, levels, convention) + below))
  BY <1>2, <1>3, PartsOfSums DEF Completed, Quantity, own, margin
<1> DEFINE node == tree[path]
           volume == Volume(lines, path, convention)
           between == MixBetween(lines, path, levels, convention)
           unplaced == Quantity(lines, path, convention) - (volume + between + below)
<1>5. /\ node.plan = Scale * SumFunction([line \in own |-> PlanUsd(line, margin)])
      /\ node.actual = Scale * SumFunction([line \in own |-> ActualUsd(line, margin)])
      /\ node.price = Scale * SumFunction([line \in Revenue(own) |-> PriceLeg(line, margin, convention)])
      /\ node.rate = Scale * SumFunction([line \in Costs(own) |-> PriceLeg(line, margin, convention)])
      /\ node.efficiency = Scale * SumFunction([line \in Costs(own) |-> QuantityLeg(line, margin, convention)])
      /\ node.fx = Scale * SumFunction([line \in own |-> FxLeg(line, margin)])
      /\ node.volume = volume /\ node.mixBetween = between /\ node.mixWithin = below + unplaced
      /\ node.folded = unplaced /\ node.count = Cardinality(own)
  <2> HIDE DEF volume, between, unplaced
  <2> QED
    BY <1>4 DEF Assembled, volume, between, unplaced
<1>6. /\ node.plan = Scale * SumOver(own, PlanOf(lines, margin))
      /\ node.actual = Scale * SumOver(own, ActualOf(lines, margin))
      /\ node.price = Scale * SumOver(Revenue(own), PriceOf(lines, margin, convention))
      /\ node.rate = Scale * SumOver(Costs(own), PriceOf(lines, margin, convention))
      /\ node.efficiency = Scale * SumOver(Costs(own), QuantityOf(lines, margin, convention))
      /\ node.fx = Scale * SumOver(own, FxOf(lines, margin))
  <2> DEFINE rev == Revenue(own)
             cost == Costs(own)
  <2>1. /\ SumFunction([line \in own |-> PlanUsd(line, margin)]) = SumOver(own, PlanOf(lines, margin))
        /\ SumFunction([line \in own |-> ActualUsd(line, margin)]) = SumOver(own, ActualOf(lines, margin))
        /\ SumFunction([line \in own |-> FxLeg(line, margin)]) = SumOver(own, FxOf(lines, margin))
    BY <1>2, PartsOfSums
  <2> HIDE DEF node, rev, cost
  <2>2. /\ SumFunction([line \in rev |-> PriceLeg(line, margin, convention)])
             = SumOver(rev, PriceOf(lines, margin, convention))
        /\ SumFunction([line \in cost |-> PriceLeg(line, margin, convention)])
             = SumOver(cost, PriceOf(lines, margin, convention))
        /\ SumFunction([line \in cost |-> QuantityLeg(line, margin, convention)])
             = SumOver(cost, QuantityOf(lines, margin, convention))
    <3>1. rev \in SUBSET lines /\ cost \in SUBSET lines
      BY <1>2 DEF rev, cost
    <3> QED
      BY <3>1, PartsOfSums
  <2>3. /\ node.plan = Scale * SumOver(own, PlanOf(lines, margin))
        /\ node.actual = Scale * SumOver(own, ActualOf(lines, margin))
        /\ node.fx = Scale * SumOver(own, FxOf(lines, margin))
    BY <1>5, <2>1, Zenon
  <2>4. /\ node.price = Scale * SumOver(rev, PriceOf(lines, margin, convention))
        /\ node.rate = Scale * SumOver(cost, PriceOf(lines, margin, convention))
        /\ node.efficiency = Scale * SumOver(cost, QuantityOf(lines, margin, convention))
    BY <1>5, <2>2, Zenon DEF rev, cost
  <2> QED
    BY <2>3, <2>4 DEF rev, cost
<1> QED
  BY <1>5, <1>6 DEF tree, own, margin, below

(* The lines under a node are those under its children.                    *)
LEMMA ChildrenSum ==
  ASSUME NEW lines, NEW levels, LineSet(lines, levels), NEW path \in Nodes(lines, levels),
         Len(path) < levels, NEW e \in [lines -> Int], NEW sums,
         \A c \in Children(lines, path) : sums[c] = SumOver(Under(lines, c), e)
  PROVE  SumOver(Under(lines, path), e) = SumOver(Children(lines, path), sums)
<1> DEFINE S == Under(lines, path)
           p == [l \in S |-> Cut(l.path, Len(path) + 1)]
           C == Children(lines, path)
<1>1. S \subseteq lines /\ IsFiniteSet(S)
  BY FS_Subset DEF Under, LineSet
<1>2. (\A l \in S : p[l] \in C) /\ \A c \in C : \E l \in S : p[l] = c
  BY DEF Children
<1>3. \A l \in S : e[l] \in Int
  BY <1>1
<1>4. ASSUME NEW c \in C
      PROVE  sums[c] = SumOver(Part(S, p, c), e)
  <2>1. Under(lines, c) = Part(S, p, c)
    BY NodesAre DEF Part
  <2> QED
    BY <2>1
<1> HIDE DEF C, S, p
<1>5. SumOver(C, sums) = SumOver(S, e)
  <2>1. PartsOf(S, p, C, e, sums)
    BY <1>1, <1>2, <1>3, <1>4 DEF PartsOf
  <2> QED
    BY <2>1, SumOfParts
<1> QED
  BY <1>5 DEF C, S

LEMMA ChildrenAreFinite ==
  ASSUME NEW lines, NEW levels, LineSet(lines, levels), NEW path
  PROVE  IsFiniteSet(Children(lines, path))
<1> DEFINE S == Under(lines, path)
           p == [l \in S |-> Cut(l.path, Len(path) + 1)]
<1>1. IsFiniteSet(S)
  BY FS_Subset DEF Under, LineSet
<1>2. Children(lines, path) = {p[l] : l \in S}
  BY DEF Children
<1> HIDE DEF S, p
<1> QED
  BY <1>1, <1>2, ImageIsFinite

(* Revenue and costs under a node are kinds of its lines, and what they    *)
(* add up to is a sum over all of them.                                    *)
RevenueOnly(lines, e) == [l \in lines |-> IF l.cost THEN 0 ELSE e[l]]
CostsOnly(lines, e)   == [l \in lines |-> IF l.cost THEN e[l] ELSE 0]

LEMMA KindsOf ==
  ASSUME NEW lines, NEW levels, LineSet(lines, levels), NEW path
  PROVE  /\ Under(lines, path) \in SUBSET lines /\ IsFiniteSet(Under(lines, path))
         /\ Revenue(Under(lines, path)) \in SUBSET lines /\ IsFiniteSet(Revenue(Under(lines, path)))
         /\ Costs(Under(lines, path)) \in SUBSET lines /\ IsFiniteSet(Costs(Under(lines, path)))
<1>1. /\ Under(lines, path) \in SUBSET lines /\ Revenue(Under(lines, path)) \in SUBSET lines
      /\ Costs(Under(lines, path)) \in SUBSET lines /\ IsFiniteSet(lines)
  BY DEF Under, Revenue, Costs, LineSet
<1>2. /\ IsFiniteSet(Under(lines, path)) /\ IsFiniteSet(Revenue(Under(lines, path)))
      /\ IsFiniteSet(Costs(Under(lines, path)))
  BY <1>1, FS_Subset
<1> QED
  BY <1>1, <1>2

LEMMA KindSums ==
  ASSUME NEW lines, NEW levels, LineSet(lines, levels), NEW path, NEW e \in [lines -> Int]
  PROVE  /\ RevenueOnly(lines, e) \in [lines -> Int] /\ CostsOnly(lines, e) \in [lines -> Int]
         /\ SumOver(Revenue(Under(lines, path)), e) = SumOver(Under(lines, path), RevenueOnly(lines, e))
         /\ SumOver(Costs(Under(lines, path)), e) = SumOver(Under(lines, path), CostsOnly(lines, e))
<1> DEFINE own == Under(lines, path)
           rev == Revenue(own)
           cost == Costs(own)
           r == RevenueOnly(lines, e)
           c == CostsOnly(lines, e)
<1>1. own \in SUBSET lines /\ IsFiniteSet(own)
  BY KindsOf
<1>2. r \in [lines -> Int] /\ c \in [lines -> Int]
  BY DEF RevenueOnly, CostsOnly
<1>3. rev \in SUBSET own /\ \A l \in own : e[l] \in Int /\ r[l] = IF l \in rev THEN e[l] ELSE 0
  BY <1>1 DEF Revenue, RevenueOnly
<1>4. cost \in SUBSET own /\ \A l \in own : e[l] \in Int /\ c[l] = IF l \in cost THEN e[l] ELSE 0
  BY <1>1 DEF Costs, CostsOnly
<1> HIDE DEF own, rev, cost, r, c
<1>5. SumOver(rev, e) = SumOver(own, r)
  BY <1>1, <1>3, SumOfPart
<1>6. SumOver(cost, e) = SumOver(own, c)
  BY <1>1, <1>4, SumOfPart
<1> QED
  BY <1>2, <1>5, <1>6 DEF own, rev, cost, r, c

(* Volume and quantity variance are whole numbers.                         *)
LEMMA VolumeIsInt ==
  ASSUME NEW lines, NEW levels, LineSet(lines, levels), NEW path, NEW convention
  PROVE  /\ SumOver(Revenue(Under(lines, path)), DeltaOf(lines)) \in Int
         /\ AveragePlanPrice(Revenue(Under(lines, path)), convention) \in Int
         /\ Volume(lines, path, convention) \in Int
         /\ SumOver(Revenue(Under(lines, path)), QuantityOf(lines, Margin(lines), convention)) \in Int
         /\ Quantity(lines, path, convention) \in Int
<1> DEFINE rev == Revenue(Under(lines, path))
           d == SumOver(rev, DeltaOf(lines))
           a == AveragePlanPrice(rev, convention)
           q == SumOver(rev, QuantityOf(lines, Margin(lines), convention))
<1>1. rev \in SUBSET lines /\ IsFiniteSet(rev)
  BY KindsOf
<1>2. d \in Int /\ q \in Int
  BY <1>1, AmountSumsAreInts
<1>3. a \in Int
  <2> HIDE DEF rev
  <2> QED
    BY <1>1, AverageIsInt
<1>4. Volume(lines, path, convention) = d * a /\ Quantity(lines, path, convention) = Scale * q
  BY DEF Volume, Quantity
<1> HIDE DEF d, a, q
<1>5. d * a \in Int /\ Scale * q \in Int
  BY <1>2, <1>3, ScaleAssumption
<1> QED
  BY <1>2, <1>3, <1>4, <1>5 DEF d, a, q, rev

(* At the leaves mix is taken line by line, and with the volume it makes   *)
(* the quantity variance.                                                  *)
LEMMA BetweenAtTheLeaves ==
  ASSUME NEW lines, NEW levels, LineSet(lines, levels), NEW convention,
         NEW path, ~(Len(path) < levels)
  PROVE  MixBetween(lines, path, levels, convention)
           = Quantity(lines, path, convention) - Volume(lines, path, convention)
<1> DEFINE rev == Revenue(Under(lines, path))
           a == AveragePlanPrice(rev, convention)
           qs == QuantityOf(lines, Margin(lines), convention)
           ds == DeltaOf(lines)
           sq == [l \in lines |-> Scale * qs[l]]
           ad == [l \in lines |-> a * ds[l]]
           d == SumOver(rev, ds)
           q == SumOver(rev, qs)
<1>1. rev \in SUBSET lines /\ IsFiniteSet(rev)
  BY KindsOf
<1>2. a \in Int /\ d \in Int /\ q \in Int
  BY VolumeIsInt
<1>3. qs \in [lines -> Int] /\ ds \in [lines -> Int]
  BY AmountsAreInts
<1>4. sq \in [lines -> Int] /\ ad \in [lines -> Int]
  <2> HIDE DEF a, qs, ds
  <2> QED
    BY <1>2, <1>3, ScaleAssumption
<1>5. ASSUME NEW line \in rev
      PROVE  (line.aq - line.pq) * (Scale * MixPrice(line, convention) - a) = sq[line] - ad[line]
  <2>1. line \in lines /\ ~line.cost
    BY DEF Revenue, Under
  <2>2. Sign(line, Margin(lines)) = 1 /\ MixPrice(line, convention) \in Int
    <3> DEFINE margin == Margin(lines)
    <3> HIDE DEF margin, rev, a, qs, ds, sq, ad, d, q
    <3>1. \A l \in lines : MixPrice(l, convention) \in Nat
      BY AmountsAreInts
    <3>2. \A l \in lines : ~l.cost => Sign(l, margin) = 1
      BY AmountsAreInts
    <3> QED
      BY <2>1, <3>1, <3>2 DEF margin
  <2>3. line.aq \in Int /\ line.pq \in Int
    BY <2>1 DEF LineSet, OkLine
  <2> DEFINE price == MixPrice(line, convention)
  <2>4. qs[line] = 1 * (line.aq - line.pq) * price /\ ds[line] = line.aq - line.pq
    BY <2>1, <2>2 DEF QuantityOf, QuantityLeg, DeltaOf
  <2>5. sq[line] = Scale * qs[line] /\ ad[line] = a * ds[line]
    BY <2>1
  <2> HIDE DEF price, a, qs, ds, sq, ad
  <2>6. price \in Int
    BY <2>2 DEF price
  <2>7. Scale * (1 * (line.aq - line.pq) * price) - a * (line.aq - line.pq)
          = (line.aq - line.pq) * (Scale * price - a)
    BY <1>2, <2>3, <2>6, ScaleAssumption
  <2> QED
    BY <2>4, <2>5, <2>7 DEF price
<1>6. MixBetween(lines, path, levels, convention)
        = SumFunction([line \in rev |-> (line.aq - line.pq) * (Scale * MixPrice(line, convention) - a)])
  BY DEF MixBetween, MixAround
<1> HIDE DEF a, qs, ds, sq, ad, rev
<1> DEFINE diff == [l \in lines |-> sq[l] - ad[l]]
<1>7. MixBetween(lines, path, levels, convention) = SumOver(rev, diff)
  <2>1. [line \in rev |-> (line.aq - line.pq) * (Scale * MixPrice(line, convention) - a)]
          = [line \in rev |-> diff[line]]
    BY <1>1, <1>5
  <2> QED
    BY <1>6, <2>1 DEF SumOver
<1>8. SumOver(rev, diff) = SumOver(rev, sq) - SumOver(rev, ad)
  <2>1. \A l \in rev : sq[l] \in Int /\ ad[l] \in Int /\ diff[l] = sq[l] - ad[l]
    BY <1>1, <1>4
  <2> HIDE DEF diff
  <2> QED
    BY <1>1, <2>1, SumSubtracts
<1>9. SumOver(rev, sq) = Scale * q /\ SumOver(rev, ad) = a * d
  <2>1. \A l \in rev : qs[l] \in Int /\ sq[l] = Scale * qs[l]
    BY <1>1, <1>3 DEF sq
  <2>2. \A l \in rev : ds[l] \in Int /\ ad[l] = a * ds[l]
    BY <1>1, <1>3 DEF ad
  <2>3. Scale \in Int
    BY ScaleAssumption
  <2>4. SumOver(rev, sq) = Scale * q
    BY <1>1, <2>1, <2>3, SumScales
  <2>5. SumOver(rev, ad) = a * d
    BY <1>1, <1>2, <2>2, SumScales
  <2> QED
    BY <2>4, <2>5
<1>10. Quantity(lines, path, convention) = Scale * q /\ Volume(lines, path, convention) = d * a
  BY DEF Quantity, Volume, qs, ds, rev, a
<1> HIDE DEF d, q
<1>11. a * d = d * a
  BY <1>2
<1> QED
  BY <1>7, <1>8, <1>9, <1>10, <1>11

(* Above them it is taken between the children: their volume, less the     *)
(* node's own.                                                             *)
LEMMA BetweenAbove ==
  ASSUME NEW lines, NEW levels, LineSet(lines, levels), NEW convention,
         NEW path \in Nodes(lines, levels), Len(path) < levels
  PROVE  MixBetween(lines, path, levels, convention)
           = SumOver(Children(lines, path),
                     [c \in Children(lines, path) |-> Volume(lines, c, convention)])
               - Volume(lines, path, convention)
<1> DEFINE C == Children(lines, path)
           rev == Revenue(Under(lines, path))
           a == AveragePlanPrice(rev, convention)
           d == SumOver(rev, DeltaOf(lines))
           vs == [c \in C |-> Volume(lines, c, convention)]
           ds == [c \in C |-> SumOver(Revenue(Under(lines, c)), DeltaOf(lines))]
           ad == [c \in C |-> a * ds[c]]
           diff == [c \in C |-> vs[c] - ad[c]]
<1>1. a \in Int /\ d \in Int /\ vs \in [C -> Int] /\ ds \in [C -> Int]
  BY VolumeIsInt
<1>2. IsFiniteSet(C) /\ d = SumOver(C, ds)
  <2>1. DeltaOf(lines) \in [lines -> Int]
    BY AmountsAreInts
  <2> DEFINE e == RevenueOnly(lines, DeltaOf(lines))
  <2>2. e \in [lines -> Int] /\ d = SumOver(Under(lines, path), e)
    BY <2>1, KindSums
  <2>3. \A c \in C : ds[c] = SumOver(Under(lines, c), e)
    BY <2>1, KindSums
  <2> HIDE DEF ds, e
  <2>4. SumOver(Under(lines, path), e) = SumOver(C, ds)
    BY <2>2, <2>3, ChildrenSum
  <2> QED
    BY <2>2, <2>4, ChildrenAreFinite
<1>3. ad \in [C -> Int]
  <2> HIDE DEF a, ds
  <2> QED
    BY <1>1
<1>4. ASSUME NEW c \in C
      PROVE  DeltaQuantity(Revenue(Under(lines, c)))
               * (AveragePlanPrice(Revenue(Under(lines, c)), convention) - a) = diff[c]
  <2> DEFINE x == SumOver(Revenue(Under(lines, c)), DeltaOf(lines))
             y == AveragePlanPrice(Revenue(Under(lines, c)), convention)
  <2>1. x \in Int /\ y \in Int
    BY VolumeIsInt
  <2>2. DeltaQuantity(Revenue(Under(lines, c))) = x
    BY KindsOf, PartsOfSums
  <2>3. vs[c] = x * y /\ ad[c] = a * x /\ diff[c] = vs[c] - ad[c]
    BY DEF Volume
  <2> HIDE DEF x, y, a, vs, ad, diff
  <2>4. x * (y - a) = x * y - a * x
    BY <1>1, <2>1
  <2> QED
    BY <2>2, <2>3, <2>4 DEF y
<1>5. MixBetween(lines, path, levels, convention)
        = SumFunction([c \in C |-> DeltaQuantity(Revenue(Under(lines, c)))
                                     * (AveragePlanPrice(Revenue(Under(lines, c)), convention) - a)])
  BY DEF MixBetween, MixAround
<1>6. SumFunction([c \in C |-> diff[c]]) = SumOver(C, diff)
  BY DEF SumOver
<1> HIDE DEF C, a, vs, ds, ad, diff, d, rev
<1>7. [c \in C |-> DeltaQuantity(Revenue(Under(lines, c)))
                     * (AveragePlanPrice(Revenue(Under(lines, c)), convention) - a)]
        = [c \in C |-> diff[c]]
  BY <1>4
<1>8. MixBetween(lines, path, levels, convention) = SumOver(C, diff)
  BY <1>5, <1>6, <1>7
<1>9. SumOver(C, diff) = SumOver(C, vs) - SumOver(C, ad)
  <2>1. diff \in [C -> Int] /\ \A c \in C : diff[c] = vs[c] - ad[c]
    BY <1>1, <1>3 DEF diff
  <2>2. \A c \in C : vs[c] \in Int /\ ad[c] \in Int /\ diff[c] = vs[c] - ad[c]
    BY <1>1, <1>3, <2>1
  <2> QED
    BY <1>2, <2>2, SumSubtracts
<1>10. SumOver(C, ad) = a * d
  <2>1. \A c \in C : ds[c] \in Int /\ ad[c] = a * ds[c]
    BY <1>1 DEF ad
  <2>2. a \in Int
    BY <1>1
  <2>3. SumOver(C, ad) = a * SumOver(C, ds)
    BY <1>2, <2>1, <2>2, SumScales
  <2> QED
    BY <1>2, <2>3
<1>11. Volume(lines, path, convention) = d * a
  BY DEF Volume, d, a, rev
<1>12. a * d = d * a
  BY <1>1
<1> QED
  BY <1>8, <1>9, <1>10, <1>11, <1>12 DEF vs, C

(* The quantity variance of a node is that of its children.                *)
LEMMA QuantityAbove ==
  ASSUME NEW lines, NEW levels, LineSet(lines, levels), NEW convention,
         NEW path \in Nodes(lines, levels), Len(path) < levels
  PROVE  SumOver(Children(lines, path),
                 [c \in Children(lines, path) |-> Quantity(lines, c, convention)])
           = Quantity(lines, path, convention)
<1> DEFINE C == Children(lines, path)
           e == QuantityOf(lines, Margin(lines), convention)
           qs == [c \in C |-> SumOver(Revenue(Under(lines, c)), e)]
           all == [c \in C |-> Quantity(lines, c, convention)]
           q == SumOver(Revenue(Under(lines, path)), e)
           r == RevenueOnly(lines, e)
<1>1. e \in [lines -> Int]
  BY AmountsAreInts
<1>2. IsFiniteSet(C) /\ qs \in [C -> Int]
  BY VolumeIsInt, ChildrenAreFinite
<1>3. \A c \in C : all[c] = Scale * qs[c]
  BY DEF Quantity
<1>4. r \in [lines -> Int] /\ q = SumOver(Under(lines, path), r)
  <2> HIDE DEF e
  <2> QED
    BY <1>1, KindSums
<1>5. \A c \in C : qs[c] = SumOver(Under(lines, c), r)
  <2> HIDE DEF e
  <2> QED
    BY <1>1, KindSums
<1>6. Quantity(lines, path, convention) = Scale * q
  BY DEF Quantity
<1> HIDE DEF e, qs, all, q, r
<1>7. q = SumOver(C, qs)
  BY <1>4, <1>5, ChildrenSum
<1> HIDE DEF C
<1>8. SumOver(C, all) = Scale * SumOver(C, qs)
  <2>1. \A c \in C : qs[c] \in Int /\ all[c] = Scale * qs[c]
    BY <1>2, <1>3
  <2>2. Scale \in Int
    BY ScaleAssumption
  <2> QED
    BY <1>2, <2>1, <2>2, SumScales
<1>9. SumOver(C, all) = Quantity(lines, path, convention)
  BY <1>6, <1>7, <1>8
<1> QED
  BY <1>9 DEF all, C

(* Where there is no revenue there is nothing to mix.                      *)
LEMMA NothingToMix ==
  ASSUME NEW lines, NEW levels, LineSet(lines, levels), NEW convention, NEW path,
         Revenue(Under(lines, path)) = {}
  PROVE  Quantity(lines, path, convention) = 0 /\ Volume(lines, path, convention) = 0
<1> DEFINE a == AveragePlanPrice(Revenue(Under(lines, path)), convention)
<1>1. a \in Int
  BY VolumeIsInt
<1>2. /\ SumOver(Revenue(Under(lines, path)), QuantityOf(lines, Margin(lines), convention)) = 0
      /\ SumOver(Revenue(Under(lines, path)), DeltaOf(lines)) = 0
  BY SumOverNothing
<1>3. Quantity(lines, path, convention) = Scale * 0 /\ Volume(lines, path, convention) = 0 * a
  BY <1>2 DEF Quantity, Volume
<1> HIDE DEF a
<1>4. Scale * 0 = 0 /\ 0 * a = 0
  BY <1>1, ScaleAssumption
<1> QED
  BY <1>3, <1>4

(***************************************************************************)
(* Volume and mix make the quantity variance at every node, and the fold   *)
(* moves nothing: at the leaves, and above them when the children's mix is *)
(* what they are short of their volume.                                    *)
(***************************************************************************)
Mixed(lines, levels, convention, path) ==
  LET node == Decompose(lines, levels, convention)[path]
  IN /\ Mix(node) = Quantity(lines, path, convention) - Volume(lines, path, convention)
     /\ node.folded = 0
     /\ node.mixBetween \in Int /\ node.mixWithin \in Int

LEMMA MixedIf ==
  ASSUME NEW lines, NEW levels, LineSet(lines, levels), NEW convention,
         NEW path \in Nodes(lines, levels),
         LET between == MixBetween(lines, path, levels, convention)
             below == Below(lines, path, levels, Decompose(lines, levels, convention))
         IN /\ between \in Int /\ below \in Int
            /\ between + below = Quantity(lines, path, convention) - Volume(lines, path, convention)
  PROVE  Mixed(lines, levels, convention, path)
<1> DEFINE node == Decompose(lines, levels, convention)[path]
           between == MixBetween(lines, path, levels, convention)
           below == Below(lines, path, levels, Decompose(lines, levels, convention))
           q == Quantity(lines, path, convention)
           v == Volume(lines, path, convention)
<1>1. q \in Int /\ v \in Int
  BY VolumeIsInt
<1>2. between \in Int /\ below \in Int /\ between + below = q - v
  OBVIOUS
<1>3. /\ node.volume = v /\ node.mixBetween = between
      /\ node.folded = q - (node.volume + node.mixBetween + below)
      /\ node.mixWithin = below + node.folded
  BY NodeIs
<1>4. Mix(node) = node.mixBetween + node.mixWithin
  BY DEF Mix
<1> HIDE DEF node, between, below, q, v
<1>5. node.folded = 0
  BY <1>1, <1>2, <1>3
<1>6. node.mixWithin = below /\ Mix(node) = q - v
  BY <1>1, <1>2, <1>3, <1>4, <1>5
<1> QED
  BY <1>2, <1>3, <1>5, <1>6 DEF Mixed, node, q, v

LEMMA MixedAtTheLeaves ==
  ASSUME NEW lines, NEW levels, LineSet(lines, levels), NEW convention,
         NEW path \in Nodes(lines, levels), ~(Len(path) < levels)
  PROVE  Mixed(lines, levels, convention, path)
<1> DEFINE between == MixBetween(lines, path, levels, convention)
           below == Below(lines, path, levels, Decompose(lines, levels, convention))
           q == Quantity(lines, path, convention)
           v == Volume(lines, path, convention)
<1>1. q \in Int /\ v \in Int
  BY VolumeIsInt
<1>2. between = q - v
  BY BetweenAtTheLeaves
<1>3. below = 0
  BY DEF Below
<1> HIDE DEF between, below, q, v
<1>4. between \in Int /\ below \in Int /\ between + below = q - v
  BY <1>1, <1>2, <1>3
<1> QED
  BY <1>4, MixedIf DEF between, below, q, v

LEMMA MixedAbove ==
  ASSUME NEW lines, NEW levels, LineSet(lines, levels), NEW convention,
         NEW path \in Nodes(lines, levels), Len(path) < levels,
         \A c \in Children(lines, path) : Mixed(lines, levels, convention, c)
  PROVE  Mixed(lines, levels, convention, path)
<1> DEFINE C == Children(lines, path)
           tree == Decompose(lines, levels, convention)
           between == MixBetween(lines, path, levels, convention)
           below == Below(lines, path, levels, tree)
           q == Quantity(lines, path, convention)
           v == Volume(lines, path, convention)
           qs == [c \in C |-> Quantity(lines, c, convention)]
           vs == [c \in C |-> Volume(lines, c, convention)]
           ms == [c \in C |-> Mix(tree[c])]
           qsum == SumOver(C, qs)
           vsum == SumOver(C, vs)
<1>1. q \in Int /\ v \in Int /\ qs \in [C -> Int] /\ vs \in [C -> Int] /\ IsFiniteSet(C)
  BY VolumeIsInt, ChildrenAreFinite
<1>2. between = vsum - v /\ qsum = q
  BY BetweenAbove, QuantityAbove
<1>3. \A c \in C : qs[c] \in Int /\ vs[c] \in Int /\ ms[c] = qs[c] - vs[c]
  BY <1>1 DEF Mixed
<1>4. SumFunction([c \in C |-> Mix(tree[c])]) = SumOver(C, ms)
  BY DEF SumOver
<1>5. below = IF Revenue(Under(lines, path)) # {} THEN SumOver(C, ms) ELSE 0
  BY <1>4 DEF Below
<1>6. Revenue(Under(lines, path)) = {} => q = 0 /\ v = 0
  BY NothingToMix
<1>7. ASSUME Revenue(Under(lines, path)) = {}, NEW c \in C
      PROVE  vs[c] = 0
  <2>1. Under(lines, c) \subseteq Under(lines, path)
    BY NodesAre
  <2>2. Revenue(Under(lines, c)) = {}
    BY <1>7, <2>1 DEF Revenue
  <2> QED
    BY <2>2, NothingToMix
<1> HIDE DEF between, below, q, v, qs, vs, ms, tree
<1>8. vsum \in Int /\ SumOver(C, ms) = qsum - vsum
  <2>1. \A c \in C : vs[c] \in Int
    BY <1>3
  <2> HIDE DEF C
  <2>2. SumOver(C, vs) \in Int
    BY <1>1, <2>1, SumOverStep
  <2> QED
    BY <1>1, <1>3, <2>2, SumSubtracts
<1>9. Revenue(Under(lines, path)) = {} => vsum = 0
  <2>1. Revenue(Under(lines, path)) = {} => \A c \in C : vs[c] = 0
    BY <1>7
  <2> HIDE DEF C
  <2> QED
    BY <1>1, <2>1, SumOfNone
<1> HIDE DEF qsum, vsum, C
<1>10. between \in Int /\ below \in Int /\ between + below = q - v
  <2>1. CASE Revenue(Under(lines, path)) = {}
    BY <1>1, <1>2, <1>5, <1>6, <1>8, <1>9, <2>1
  <2>2. CASE Revenue(Under(lines, path)) # {}
    BY <1>1, <1>2, <1>5, <1>8, <2>2
  <2> QED
    BY <2>1, <2>2
<1> QED
  BY <1>10, MixedIf DEF between, below, q, v, tree

LEMMA AllMixed ==
  ASSUME NEW lines, NEW levels, LineSet(lines, levels), NEW convention,
         NEW path \in Nodes(lines, levels)
  PROVE  Mixed(lines, levels, convention, path)
<1> DEFINE Good == {n \in 0 .. levels :
                      \A p \in Nodes(lines, levels) :
                        levels - n <= Len(p) => Mixed(lines, levels, convention, p)}
<1>1. levels \in Nat /\ \A p \in Nodes(lines, levels) : Len(p) \in 0 .. levels
  BY NodesAre DEF LineSet
<1>2. ASSUME NEW m \in 0 .. levels, m # 0 => m - 1 \in Good
      PROVE  m \in Good
  <2> SUFFICES ASSUME NEW p \in Nodes(lines, levels), levels - m <= Len(p)
               PROVE  Mixed(lines, levels, convention, p)
    OBVIOUS
  <2>1. CASE ~(Len(p) < levels)
    BY <2>1, MixedAtTheLeaves
  <2>2. CASE Len(p) < levels
    <3>1. m # 0
      BY <1>1, <2>2
    <3>2. ASSUME NEW c \in Children(lines, p)
          PROVE  c \in Nodes(lines, levels) /\ levels - (m - 1) <= Len(c)
      <4>1. c \in Nodes(lines, levels) /\ Len(c) = Len(p) + 1
        BY <2>2, NodesAre
      <4> QED
        BY <1>1, <4>1
    <3>3. \A c \in Children(lines, p) : Mixed(lines, levels, convention, c)
      BY <1>2, <3>1, <3>2
    <3> QED
      BY <2>2, <3>3, MixedAbove
  <2> QED
    BY <2>1, <2>2
<1> HIDE DEF Good
<1>3. levels \in Good
  BY <1>1, <1>2, CountingUp
<1> QED
  BY <1>1, <1>3 DEF Good

(* What a node adds up to is whole.                                        *)
LEMMA LegsAreInts ==
  ASSUME NEW lines, NEW levels, LineSet(lines, levels), NEW convention,
         NEW path \in Nodes(lines, levels)
  PROVE  LET node == Decompose(lines, levels, convention)[path]
         IN /\ node.plan \in Int /\ node.actual \in Int /\ node.price \in Int /\ node.rate \in Int
            /\ node.efficiency \in Int /\ node.fx \in Int /\ node.volume \in Int
            /\ node.mixBetween \in Int /\ Mix(node) \in Int /\ node.count \in Nat
<1> DEFINE node == Decompose(lines, levels, convention)[path]
           own == Under(lines, path)
           margin == Margin(lines)
           rev == Revenue(own)
           cost == Costs(own)
           x1 == SumOver(own, PlanOf(lines, margin))
           x2 == SumOver(own, ActualOf(lines, margin))
           x3 == SumOver(rev, PriceOf(lines, margin, convention))
           x4 == SumOver(cost, PriceOf(lines, margin, convention))
           x5 == SumOver(cost, QuantityOf(lines, margin, convention))
           x6 == SumOver(own, FxOf(lines, margin))
<1>1. /\ own \in SUBSET lines /\ IsFiniteSet(own) /\ rev \in SUBSET lines /\ cost \in SUBSET lines
  BY KindsOf
<1>2. x1 \in Int /\ x2 \in Int /\ x3 \in Int /\ x4 \in Int /\ x5 \in Int /\ x6 \in Int
  <2> HIDE DEF own, rev, cost, margin
  <2> QED
    BY <1>1, AmountSumsAreInts
<1>3. /\ node.plan = Scale * x1 /\ node.actual = Scale * x2 /\ node.price = Scale * x3
      /\ node.rate = Scale * x4 /\ node.efficiency = Scale * x5 /\ node.fx = Scale * x6
      /\ node.volume = Volume(lines, path, convention) /\ node.count = Cardinality(own)
  BY NodeIs
<1>4. Volume(lines, path, convention) \in Int /\ Quantity(lines, path, convention) \in Int
  BY VolumeIsInt
<1>5. /\ Mix(node) = Quantity(lines, path, convention) - Volume(lines, path, convention)
      /\ node.mixBetween \in Int
  BY AllMixed DEF Mixed
<1> HIDE DEF node, x1, x2, x3, x4, x5, x6, own
<1>6. Cardinality(own) \in Nat
  BY <1>1, FS_CardinalityType
<1>7. Mix(node) \in Int
  BY <1>4, <1>5
<1>8. /\ Scale * x1 \in Int /\ Scale * x2 \in Int /\ Scale * x3 \in Int
      /\ Scale * x4 \in Int /\ Scale * x5 \in Int /\ Scale * x6 \in Int
  BY <1>2, ScaleAssumption
<1> QED
  BY <1>3, <1>4, <1>5, <1>6, <1>7, <1>8 DEF node

(* The root is a node of every rollup of some lines.                       *)
LEMMA RootIsNode ==
  ASSUME NEW lines, NEW levels, LineSet(lines, levels)
  PROVE  /\ \A l \in lines : Cut(l.path, 0) = <<>>
         /\ Under(lines, <<>>) = lines /\ (lines # {} => <<>> \in Nodes(lines, levels))
         /\ LineSet(lines, 0)
<1>1. ASSUME NEW l \in lines PROVE Cut(l.path, 0) = <<>>
  <2>1. PICK values : l.path \in Seq(values)
    BY DEF LineSet, OkLine
  <2> QED
    BY <2>1, SubSeqEmpty DEF Cut
<1>2. Len(<<>>) = 0 /\ 0 \in 0 .. levels /\ levels \in Nat
  BY DEF LineSet
<1>3. Under(lines, <<>>) = lines
  BY <1>1, <1>2 DEF Under
<1>4. lines # {} => <<>> \in Nodes(lines, levels)
  <2> SUFFICES ASSUME NEW l \in lines PROVE <<>> \in Nodes(lines, levels)
    OBVIOUS
  <2> QED
    BY <1>1, <1>2 DEF Nodes
<1>5. ASSUME NEW l \in lines PROVE OkLine(l, 0)
  <2>1. OkLine(l, levels)
    BY DEF LineSet
  <2>2. 0 \in 0 .. Len(l.path)
    <3>1. levels \in 0 .. Len(l.path)
      BY <2>1 DEF OkLine
    <3>2. PICK values : l.path \in Seq(values)
      BY <2>1 DEF OkLine
    <3> QED
      BY <3>1, <3>2, LenProperties
  <2> QED
    BY <2>1, <2>2 DEF OkLine
<1>6. LineSet(lines, 0)
  BY <1>5 DEF LineSet
<1> QED
  BY <1>1, <1>3, <1>4, <1>6

LEMMA NewReportIsTyped ==
  ASSUME NEW lines, NEW levels, LineSet(lines, levels), lines # {},
         NEW vintage \in 0 .. 2, NEW settled \in BOOLEAN
  PROVE  NewReport(vintage, lines, settled) \in Report
<1> DEFINE node == Decompose(lines, 0, "volume_first")[<<>>]
           cited == {[key |-> line.key, amount |-> line.actual] : line \in lines}
           gap == RootGap(lines)
           r == NewReport(vintage, lines, settled)
<1>1. LineSet(lines, 0) /\ <<>> \in Nodes(lines, 0)
  <2>1. LineSet(lines, 0)
    BY RootIsNode
  <2> QED
    BY <2>1, RootIsNode
<1>2. node.actual \in Int /\ node.plan \in Int
  BY <1>1, LegsAreInts
<1>3. gap = node.actual - node.plan
  BY DEF RootGap, Gap
<1> HIDE DEF node, gap
<1>4. Rounded(gap) \in Int
  BY <1>2, <1>3, RoundedIsInt
<1>5. cited \in SUBSET [key : Keys, amount : Nat]
  <2>1. ASSUME NEW line \in lines PROVE line.key \in Keys /\ line.actual \in Nat
    <3>1. line.key \in Keys /\ line.aq \in Nat /\ line.ap \in Nat /\ line.actual = StoredAmount(line.aq * line.ap)
      BY DEF LineSet, OkLine
    <3>2. line.aq * line.ap \in Nat
      BY <3>1
    <3> QED
      BY <3>1, <3>2, StoredIsNat
  <2> QED
    BY <2>1
<1>6. /\ r = [vintage |-> vintage, settled |-> settled, cited |-> cited, gap |-> Rounded(gap),
              status |-> IF Absolute(gap) >= Materiality THEN "ESCALATED" ELSE "OPEN",
              closedBy |-> NoUser]
  BY DEF NewReport, gap
<1> HIDE DEF cited, r
<1>7. r \in Report
  BY <1>4, <1>5, <1>6 DEF Report, Status
<1> QED
  BY <1>7 DEF r

(* The lines of a read in the state it is made in.                         *)
LEMMA LinesAtAreOk ==
  ASSUME RowsInv, NEW q \in BridgeQueries, NEW scope, NEW asOf
  PROVE  LineSet(LinesAt(q, scope, asOf), q.levels)
BY LedgerLinesAreOk DEF LinesAt

LEMMA PersistTyped ==
  ASSUME TypeInv, NEW id \in AdHoc, Persist(id)
  PROVE  TypeInv'
<1> DEFINE lines == LinesAt(run.query, run.scope, run.asOf)
           settled == run.settled /\ ~due
           r == NewReport(run.vintage, lines, settled)
<1>1. /\ report' = [report EXCEPT ![id] = r] /\ run # NoRun /\ run' = NoRun /\ lines # {}
      /\ UNCHANGED <<rows, merged, closes, due, computing>>
  BY DEF Persist, ledger
<1>2. run.query \in BridgeQueries /\ run.vintage \in 1 .. closes /\ run.settled \in BOOLEAN
  BY <1>1 DEF TypeInv, RunTyped
<1>3. LineSet(lines, run.query.levels)
  BY <1>2, LinesAtAreOk DEF TypeInv
<1>4. settled \in BOOLEAN /\ run.vintage \in 0 .. 2
  BY <1>2 DEF TypeInv, Books
<1> HIDE DEF lines, settled
<1>5. r \in Report
  BY <1>1, <1>3, <1>4, NewReportIsTyped
<1>6. ReportsTyped'
  <2> HIDE DEF r
  <2> QED
    BY <1>1, <1>5 DEF TypeInv, ReportsTyped
<1>7. Books' /\ RowsInv' /\ RunTyped' /\ (computing \in 0 .. Len(Scenarios))'
  BY <1>1 DEF TypeInv, Books, RowsInv, RunTyped
<1> QED
  BY <1>6, <1>7 DEF TypeInv

LEMMA PersistForecastTyped ==
  ASSUME TypeInv, PersistForecast
  PROVE  TypeInv'
<1> DEFINE s == Scenarios[computing]
           lines == ForecastLines(s, 3)
           r == NewReport(0, lines, FALSE)
<1>1. /\ report' = report \/ (lines # {} /\ report' = [report EXCEPT ![s] = r])
      /\ UNCHANGED <<rows, merged, closes, due, run>>
      /\ computing # 0 /\ computing' = IF computing = Len(Scenarios) THEN 0 ELSE computing + 1
  BY DEF PersistForecast, ledger
<1>2. s \in Forecasts
  BY <1>1, ScenariosAssumption DEF TypeInv, Forecasts
<1>3. LineSet(lines, 3)
  BY <1>2, ForecastLinesAreOk
<1> HIDE DEF lines
<1>4. lines # {} => r \in Report
  BY <1>3, NewReportIsTyped, 0 \in 0 .. 2, FALSE \in BOOLEAN, Zenon
<1> HIDE DEF r, s
<1>5. ReportsTyped'
  BY <1>1, <1>4 DEF TypeInv, ReportsTyped
<1>6. Books' /\ RowsInv' /\ RunTyped'
  BY <1>1 DEF TypeInv, Books, RowsInv, RunTyped
<1>7. computing' \in 0 .. Len(Scenarios)
  BY <1>1, ScenariosAssumption DEF TypeInv
<1> QED
  BY <1>5, <1>6, <1>7 DEF TypeInv

(* The books, and a run that they unsettle.                                *)
LEMMA UnsettledIsTyped ==
  ASSUME RunTyped, Unsettle, closes <= closes', closes \in Nat, closes' \in Nat
  PROVE  RunTyped'
<1>1. CASE run = NoRun
  BY <1>1 DEF RunTyped, Unsettle
<1>2. CASE run # NoRun
  <2>1. /\ run \in [scope : {run.scope}, query : BridgeQueries, asOf : Instants \cup {Current},
                   vintage : 1 .. closes, settled : BOOLEAN]
        /\ run' = [run EXCEPT !.settled = FALSE]
    BY <1>2 DEF RunTyped, Unsettle
  <2>2. 1 .. closes \subseteq 1 .. closes'
    OBVIOUS
  <2>3. run' \in [scope : {run.scope}, query : BridgeQueries, asOf : Instants \cup {Current},
                 vintage : 1 .. closes', settled : BOOLEAN]
    BY <2>1, <2>2
  <2>4. run'.scope = run.scope
    BY <2>1
  <2> QED
    BY <2>3, <2>4 DEF RunTyped
<1> QED
  BY <1>1, <1>2

LEMMA BooksTyped ==
  ASSUME TypeInv, RecordClose \/ Restate \/ Merge
  PROVE  TypeInv'
<1> USE DEF TypeInv
<1>1. CASE RecordClose
  <2>1. /\ closes = 1 /\ closes' = 2 /\ due' = TRUE /\ Unsettle
        /\ UNCHANGED <<rows, merged, computing, report>>
    BY <1>1 DEF RecordClose
  <2>2. \A r \in rows \cup merged : r.version = 1
    BY <2>1 DEF RowsInv, Row, Vintages
  <2>3. RowsInv'
    BY <2>1, <2>2 DEF RowsInv
  <2>4. Books' /\ ReportsTyped'
    BY <2>1 DEF Books, ReportsTyped
  <2>5. RunTyped'
    BY <2>1, UnsettledIsTyped
  <2> QED
    BY <2>1, <2>3, <2>4, <2>5
<1>2. CASE Restate
  <2>1. RowsInv'
    BY <1>2, RestateKeepsRows
  <2>2. due /\ due' = FALSE /\ Unsettle /\ UNCHANGED <<merged, closes, computing, report>>
    BY <1>2 DEF Restate
  <2>3. due' \in BOOLEAN /\ ~due'
    BY <2>2
  <2>4. Books' /\ ReportsTyped'
    BY <2>2, <2>3 DEF Books, ReportsTyped
  <2>5. closes \in Nat /\ closes' = closes
    BY <2>2 DEF Books
  <2>6. RunTyped'
    BY <2>2, <2>5, UnsettledIsTyped
  <2> QED
    BY <2>1, <2>2, <2>4, <2>6
<1>3. CASE Merge
  <2>1. PICK old \in rows : rows' = rows \ {old} /\ merged' = merged \cup {old}
    BY <1>3 DEF Merge
  <2>2. UNCHANGED <<closes, due, run, computing, report>>
    BY <1>3 DEF Merge
  <2>3. IsFiniteSet(rows')
    BY <2>1, FS_Subset DEF RowsInv
  <2>4. RowsInv'
    BY <2>1, <2>2, <2>3 DEF RowsInv
  <2> QED
    BY <2>2, <2>4 DEF Books, RunTyped, ReportsTyped
<1> QED
  BY <1>1, <1>2, <1>3

LEMMA AskedTyped ==
  ASSUME TypeInv,
         \/ \E u \in Users, q \in BridgeQueries, asOf \in Instants \cup {Current} :
              LookUpVintage(UserInfo[u].scope, q, asOf)
         \/ EndRun \/ StartForecast
  PROVE  TypeInv'
<1>1. UNCHANGED <<rows, merged, closes, due, report>>
  BY DEF LookUpVintage, EndRun, StartForecast, ledger
<1>2. Books' /\ RowsInv' /\ ReportsTyped'
  BY <1>1 DEF TypeInv, Books, RowsInv, ReportsTyped
<1>3. (computing \in 0 .. Len(Scenarios))'
  BY ScenariosAssumption, LenProperties DEF TypeInv, LookUpVintage, EndRun, StartForecast
<1>4. ASSUME NEW u \in Users, NEW q \in BridgeQueries, NEW asOf \in Instants \cup {Current},
             LookUpVintage(UserInfo[u].scope, q, asOf)
      PROVE  RunTyped'
  <2> DEFINE new == [scope |-> UserInfo[u].scope, query |-> q, asOf |-> asOf,
                     vintage |-> VintageAt(closes, asOf), settled |-> TRUE]
  <2>1. run' = new /\ VintageAt(closes, asOf) # 0
    BY <1>4 DEF LookUpVintage
  <2>2. VintageAt(closes, asOf) \in 1 .. closes
    BY <2>1, InstantsAssumption DEF VintageAt, TypeInv, Books
  <2>3. new \in [scope : {new.scope}, query : BridgeQueries, asOf : Instants \cup {Current},
                 vintage : 1 .. closes, settled : BOOLEAN]
    BY <2>2
  <2> HIDE DEF new
  <2> QED
    BY <1>1, <2>1, <2>3 DEF RunTyped
<1>5. ASSUME EndRun PROVE RunTyped'
  <2>1. run' = NoRun
    BY <1>5 DEF EndRun
  <2> QED
    BY <2>1 DEF RunTyped
<1>6. ASSUME StartForecast PROVE RunTyped'
  <2>1. run' = run /\ closes' = closes
    BY <1>6 DEF StartForecast, ledger
  <2> QED
    BY <2>1 DEF RunTyped, TypeInv
<1> QED
  BY <1>2, <1>3, <1>4, <1>5, <1>6 DEF TypeInv

LEMMA StatusTyped ==
  ASSUME TypeInv, NEW u \in Users, NEW id \in Ids, NEW new \in Status, SetStatus(u, id, new)
  PROVE  TypeInv'
<1> DEFINE old == report[id]
           by == IF new = "CLOSED" THEN u ELSE old.closedBy
           r == Moved(old, new, by)
<1>1. /\ report' = [report EXCEPT ![id] = r] /\ old # NoReport
      /\ UNCHANGED <<rows, merged, closes, due, run, computing>>
  BY DEF SetStatus, Moved, ledger
<1>2. old \in Report
  BY <1>1 DEF TypeInv, ReportsTyped
<1>3. by \in Users \cup {NoUser}
  BY <1>2 DEF Report
<1> HIDE DEF old, by
<1>4. r \in Report
  BY <1>2, <1>3 DEF Moved, Report
<1> HIDE DEF r
<1>5. ReportsTyped'
  BY <1>1, <1>4 DEF TypeInv, ReportsTyped
<1>6. Books' /\ RowsInv' /\ RunTyped' /\ (computing \in 0 .. Len(Scenarios))'
  BY <1>1 DEF TypeInv, Books, RowsInv, RunTyped
<1> QED
  BY <1>5, <1>6 DEF TypeInv

LEMMA TypeInvInit == Init => TypeInv
<1> SUFFICES ASSUME Init PROVE TypeInv
  OBVIOUS
<1>1. due \in BOOLEAN /\ ~due /\ closes = 1 /\ rows = Posted /\ merged = {}
  BY DEF Init
<1>2. Books
  BY <1>1 DEF Books
<1>3. RowsInv
  BY <1>1, PostedAssumption DEF RowsInv
<1>4. RunTyped /\ ReportsTyped /\ computing \in 0 .. Len(Scenarios)
  BY ScenariosAssumption, LenProperties DEF Init, RunTyped, ReportsTyped
<1> QED
  BY <1>2, <1>3, <1>4 DEF TypeInv

LEMMA TypeInvNext == TypeInv /\ [Next]_vars => TypeInv'
<1> SUFFICES ASSUME TypeInv, [Next]_vars PROVE TypeInv'
  OBVIOUS
<1>1. CASE UNCHANGED vars
  BY <1>1 DEF vars, ledger, TypeInv, Books, RowsInv, RunTyped, ReportsTyped
<1> QED
  BY <1>1, BooksTyped, AskedTyped, PersistTyped, PersistForecastTyped, StatusTyped DEF Next

LEMMA TypeInvAlways == Spec => []TypeInv
BY TypeInvInit, TypeInvNext, PTL DEF Spec

(* The types hold: rows are rows of the ledger's keys, no version is later *)
(* than the last recorded close, a run names one of the closes, and what a *)
(* report's rounding and averages leave of its gap is a whole amount.      *)
THEOREM TypeOKAlways == Spec => []TypeOK
BY TypeInvAlways, TypeInvTypeOK, PTL

----------------------------------------------------------------------------
(***************************************************************************)
(* The change of a gap between two closes.                                 *)
(***************************************************************************)
GapOf(lines, margin) == [l \in lines |-> LineGap(l, margin)]
KeysOf(lines) == {line.key : line \in lines}
With(lines, ks) == {line \in lines : line.key \in ks}

LEMMA GapsAreInts ==
  ASSUME NEW lines, NEW levels, LineSet(lines, levels), NEW margin, NEW l \in lines
  PROVE  /\ LineGap(l, margin) = ActualOf(lines, margin)[l] - PlanOf(lines, margin)[l]
         /\ ActualOf(lines, margin)[l] \in Int /\ PlanOf(lines, margin)[l] \in Int
         /\ LineGap(l, margin) \in Int
<1>1. ActualOf(lines, margin) \in [lines -> Int] /\ PlanOf(lines, margin) \in [lines -> Int]
  BY AmountsAreInts
<1>2. LineGap(l, margin) = ActualOf(lines, margin)[l] - PlanOf(lines, margin)[l]
  BY DEF LineGap, ActualOf, PlanOf
<1> QED
  BY <1>1, <1>2

(* The keys that both sides have, and those that only one has, split it.   *)
LEMMA SplitByKeys ==
  ASSUME NEW S, IsFiniteSet(S), NEW ks, NEW g, \A x \in S : g[x] \in Int
  PROVE  /\ SumOver(S, g) = SumOver(With(S, ks), g) + SumOver(With(S, KeysOf(S) \ ks), g)
         /\ SumOver(With(S, ks), g) \in Int /\ SumOver(With(S, KeysOf(S) \ ks), g) \in Int
<1> DEFINE A == With(S, ks)
           B == With(S, KeysOf(S) \ ks)
<1>1. A \cup B = S /\ A \cap B = {} /\ A \subseteq S /\ B \subseteq S
  BY DEF With, KeysOf
<1>2. IsFiniteSet(A) /\ IsFiniteSet(B)
  BY <1>1, FS_Subset
<1>3. (\A x \in A \cup B : g[x] \in Int) /\ (\A x \in A : g[x] \in Int) /\ \A x \in B : g[x] \in Int
  BY <1>1
<1> HIDE DEF A, B
<1>4. SumOver(A \cup B, g) = SumOver(A, g) + SumOver(B, g)
  BY <1>1, <1>2, <1>3, SumOfUnion
<1>5. SumOver(A, g) \in Int /\ SumOver(B, g) \in Int
  BY <1>2, <1>3, SumOverStep
<1> QED
  BY <1>1, <1>4, <1>5 DEF A, B

Delta(left, right, g, before, after, both, delta) ==
  /\ delta.leftGap = SumOver(before, g) /\ delta.rightGap = SumOver(after, g)
  /\ delta.restated = SumOver(With(after, both), g) - SumOver(With(before, both), g)
  /\ delta.reversed = -SumOver(With(before, KeysOf(before) \ both), g)
  /\ delta.new = SumOver(With(after, KeysOf(after) \ both), g)

LEMMA DeltaIs ==
  ASSUME NEW left, NEW right, NEW path
  PROVE  LET before == Under(left, path)
             after == Under(right, path)
         IN Delta(left, right, GapOf(left \cup right, Margin(left \cup right)), before, after,
                  KeysOf(before) \cap KeysOf(after), VintageDelta(left, right, path))
<1> DEFINE margin == Margin(left \cup right)
           g == GapOf(left \cup right, margin)
           gap(lines) == SumFunction([line \in lines |-> LineGap(line, margin)])
           before == Under(left, path)
           after == Under(right, path)
           both == KeysOf(before) \cap KeysOf(after)
           delta == VintageDelta(left, right, path)
<1>1. ASSUME NEW some \in SUBSET (left \cup right)
      PROVE  gap(some) = SumOver(some, g)
  <2>1. [line \in some |-> LineGap(line, margin)] = [line \in some |-> g[line]]
    BY DEF GapOf
  <2> HIDE DEF g, margin
  <2> QED
    BY <2>1 DEF SumOver
<1>2. /\ before \in SUBSET (left \cup right) /\ after \in SUBSET (left \cup right)
      /\ With(after, both) \in SUBSET (left \cup right)
      /\ With(before, both) \in SUBSET (left \cup right)
      /\ With(before, KeysOf(before) \ both) \in SUBSET (left \cup right)
      /\ With(after, KeysOf(after) \ both) \in SUBSET (left \cup right)
  BY DEF Under, With
<1>3. delta = [leftGap |-> gap(before), rightGap |-> gap(after),
               restated |-> gap(With(after, both)) - gap(With(before, both)),
               reversed |-> -gap(With(before, KeysOf(before) \ both)),
               new |-> gap(With(after, KeysOf(after) \ both))]
  BY DEF VintageDelta, With, KeysOf
<1> HIDE DEF gap, delta, before, after, both, g
<1>4. /\ delta.leftGap = gap(before) /\ delta.rightGap = gap(after)
      /\ delta.restated = gap(With(after, both)) - gap(With(before, both))
      /\ delta.reversed = -gap(With(before, KeysOf(before) \ both))
      /\ delta.new = gap(With(after, KeysOf(after) \ both))
  BY <1>3
<1>5. /\ gap(before) = SumOver(before, g) /\ gap(after) = SumOver(after, g)
      /\ gap(With(after, both)) = SumOver(With(after, both), g)
      /\ gap(With(before, both)) = SumOver(With(before, both), g)
      /\ gap(With(before, KeysOf(before) \ both)) = SumOver(With(before, KeysOf(before) \ both), g)
      /\ gap(With(after, KeysOf(after) \ both)) = SumOver(With(after, KeysOf(after) \ both), g)
  BY <1>1, <1>2
<1>6. Delta(left, right, g, before, after, both, delta)
  BY <1>4, <1>5 DEF Delta
<1> QED
  BY <1>6, Zenon DEF delta, before, after, both, g

(* At every node the restated, reversed and new lines are the change.      *)
LEMMA DeltaAddsUp ==
  ASSUME NEW left, NEW right, NEW levels, LineSet(left, levels), LineSet(right, levels), NEW path
  PROVE  LET delta == VintageDelta(left, right, path)
         IN delta.rightGap - delta.leftGap = delta.restated + delta.reversed + delta.new
<1> DEFINE g == GapOf(left \cup right, Margin(left \cup right))
           before == Under(left, path)
           after == Under(right, path)
           both == KeysOf(before) \cap KeysOf(after)
           delta == VintageDelta(left, right, path)
           b1 == SumOver(With(before, both), g)
           b2 == SumOver(With(before, KeysOf(before) \ both), g)
           a1 == SumOver(With(after, both), g)
           a2 == SumOver(With(after, KeysOf(after) \ both), g)
<1>1. IsFiniteSet(before) /\ IsFiniteSet(after)
  BY KindsOf
<1>2. (\A l \in before : g[l] \in Int) /\ \A l \in after : g[l] \in Int
  BY GapsAreInts DEF GapOf, Under
<1>3. /\ delta.leftGap = SumOver(before, g) /\ delta.rightGap = SumOver(after, g)
      /\ delta.restated = a1 - b1 /\ delta.reversed = -b2 /\ delta.new = a2
  <2>1. Delta(left, right, g, before, after, both, delta)
    BY DeltaIs, Zenon
  <2> QED
    BY <2>1, Zenon DEF Delta
<1> HIDE DEF g, before, after, both, delta
<1>4. SumOver(before, g) = b1 + b2 /\ b1 \in Int /\ b2 \in Int
  BY <1>1, <1>2, SplitByKeys
<1>5. SumOver(after, g) = a1 + a2 /\ a1 \in Int /\ a2 \in Int
  BY <1>1, <1>2, SplitByKeys
<1> HIDE DEF a1, a2, b1, b2
<1>6. (a1 + a2) - (b1 + b2) = (a1 - b1) + (-b2) + a2
  BY <1>4, <1>5
<1> QED
  BY <1>3, <1>4, <1>5, <1>6 DEF delta

(* Where both reads are the same, nothing is restated, reversed or new.    *)
LEMMA NoDriftNoDelta ==
  ASSUME NEW lines, NEW levels, LineSet(lines, levels), NEW path
  PROVE  LET delta == VintageDelta(lines, lines, path)
         IN delta.restated = 0 /\ delta.reversed = 0 /\ delta.new = 0
<1> DEFINE g == GapOf(lines \cup lines, Margin(lines \cup lines))
           own == Under(lines, path)
           both == KeysOf(own) \cap KeysOf(own)
           delta == VintageDelta(lines, lines, path)
           a1 == SumOver(With(own, both), g)
           a2 == SumOver(With(own, KeysOf(own) \ both), g)
<1>1. IsFiniteSet(own)
  BY KindsOf
<1>2. \A l \in own : g[l] \in Int
  BY GapsAreInts DEF GapOf, Under
<1>3. delta.restated = a1 - a1 /\ delta.reversed = -a2 /\ delta.new = a2
  <2>1. Delta(lines, lines, g, own, own, both, delta)
    BY DeltaIs, Zenon
  <2> QED
    BY <2>1, Zenon DEF Delta
<1>4. With(own, KeysOf(own) \ both) = {}
  BY DEF With
<1> HIDE DEF g, own, both, delta
<1>5. a1 \in Int /\ a2 = 0
  BY <1>1, <1>2, <1>4, SplitByKeys, SumOverNothing
<1> HIDE DEF a1, a2
<1>6. a1 - a1 = 0 /\ -a2 = 0
  <2>1. \A n \in Int : n - n = 0 /\ (n + n = n => -n = 0)
    OBVIOUS
  <2>2. a1 \in Int /\ a2 \in Int /\ a2 + a2 = a2
    BY <1>5
  <2> QED
    BY <2>1, <2>2, Zenon
<1>7. delta.restated = 0 /\ delta.reversed = 0 /\ delta.new = 0
  BY <1>3, <1>5, <1>6, Zenon
<1> QED
  BY <1>7, Zenon DEF delta

(* The gap of a side is its own report's, where the sides hold the same    *)
(* kinds of account: the report signs its lines by its own.                *)
LEMMA GapIsTheReports ==
  ASSUME NEW lines, NEW levels, LineSet(lines, levels), lines # {},
         NEW all, lines \subseteq all, Margin(all) = Margin(lines)
  PROVE  Scale * SumOver(Under(lines, <<>>), GapOf(all, Margin(all))) = RootGap(lines)
<1> DEFINE margin == Margin(lines)
           as == ActualOf(lines, margin)
           ps == PlanOf(lines, margin)
           g == GapOf(all, Margin(all))
           node == Decompose(lines, 0, "volume_first")[<<>>]
           a == SumOver(lines, as)
           p == SumOver(lines, ps)
<1>1. LineSet(lines, 0) /\ <<>> \in Nodes(lines, 0) /\ Under(lines, <<>>) = lines
  <2>1. LineSet(lines, 0)
    BY RootIsNode
  <2> QED
    BY <2>1, RootIsNode
<1>2. node.actual = Scale * a /\ node.plan = Scale * p
  BY <1>1, NodeIs
<1>3. ASSUME NEW l \in lines PROVE as[l] \in Int /\ ps[l] \in Int /\ g[l] = as[l] - ps[l]
  <2>1. g[l] = LineGap(l, margin)
    BY DEF GapOf
  <2> QED
    BY <2>1, GapsAreInts
<1>4. IsFiniteSet(lines)
  BY DEF LineSet
<1>5. RootGap(lines) = node.actual - node.plan
  BY DEF RootGap, Gap
<1> HIDE DEF as, ps, g, node
<1>6. SumOver(lines, g) = a - p
  BY <1>3, <1>4, SumSubtracts
<1>7. a \in Int /\ p \in Int
  BY <1>3, <1>4, SumOverStep
<1> HIDE DEF a, p
<1>8. Scale * (a - p) = Scale * a - Scale * p
  BY <1>7, ScaleAssumption
<1> QED
  BY <1>1, <1>2, <1>5, <1>6, <1>8 DEF g

LEMMA DeltasExplain ==
  ASSUME RowsInv
  PROVE  DeltaExplains
<1> SUFFICES ASSUME NEW q \in BridgeQueries, NEW from \in 1 .. closes, NEW to \in 1 .. closes
             PROVE  LET left  == LinesAt(q, Companies, from)
                        right == LinesAt(q, Companies, to)
                        whole == VintageDelta(left, right, <<>>)
                    IN left # {} /\ right # {} =>
                       /\ \A path \in Nodes(left \cup right, q.levels) :
                            LET delta == VintageDelta(left, right, path)
                            IN delta.rightGap - delta.leftGap = delta.restated + delta.reversed + delta.new
                       /\ (Margin(left) = Margin(right) /\ Margin(left) = Margin(left \cup right)) =>
                            /\ Scale * whole.leftGap = RootGap(left)
                            /\ Scale * whole.rightGap = RootGap(right)
                       /\ left = right => whole.restated = 0 /\ whole.reversed = 0 /\ whole.new = 0
  BY Zenon DEF DeltaExplains
<1> DEFINE left == LinesAt(q, Companies, from)
           right == LinesAt(q, Companies, to)
           whole == VintageDelta(left, right, <<>>)
           g == GapOf(left \cup right, Margin(left \cup right))
<1>1. LineSet(left, q.levels) /\ LineSet(right, q.levels)
  BY LinesAtAreOk
<1> HIDE DEF left, right
<1> SUFFICES ASSUME left # {}, right # {}
             PROVE  /\ \A path \in Nodes(left \cup right, q.levels) :
                         LET delta == VintageDelta(left, right, path)
                         IN delta.rightGap - delta.leftGap = delta.restated + delta.reversed + delta.new
                    /\ (Margin(left) = Margin(right) /\ Margin(left) = Margin(left \cup right)) =>
                         /\ Scale * whole.leftGap = RootGap(left)
                         /\ Scale * whole.rightGap = RootGap(right)
                    /\ left = right => whole.restated = 0 /\ whole.reversed = 0 /\ whole.new = 0
  BY DEF left, right
<1>3. ASSUME NEW path
      PROVE  LET delta == VintageDelta(left, right, path)
             IN delta.rightGap - delta.leftGap = delta.restated + delta.reversed + delta.new
  BY <1>1, DeltaAddsUp
<1>4. whole.leftGap = SumOver(Under(left, <<>>), g) /\ whole.rightGap = SumOver(Under(right, <<>>), g)
  BY DeltaIs, Zenon DEF Delta
<1>5. ASSUME Margin(left) = Margin(right), Margin(left) = Margin(left \cup right)
      PROVE  Scale * whole.leftGap = RootGap(left) /\ Scale * whole.rightGap = RootGap(right)
  <2> DEFINE all == left \cup right
  <2>1. left \subseteq all /\ right \subseteq all /\ Margin(all) = Margin(left) /\ Margin(all) = Margin(right)
    BY <1>5
  <2> HIDE DEF all
  <2>2. Scale * SumOver(Under(left, <<>>), GapOf(all, Margin(all))) = RootGap(left)
    BY <1>1, <2>1, GapIsTheReports
  <2>3. Scale * SumOver(Under(right, <<>>), GapOf(all, Margin(all))) = RootGap(right)
    BY <1>1, <2>1, GapIsTheReports
  <2> QED
    BY <1>4, <2>2, <2>3 DEF all
<1>6. left = right => whole.restated = 0 /\ whole.reversed = 0 /\ whole.new = 0
  BY <1>1, NoDriftNoDelta
<1> QED
  BY <1>3, <1>5, <1>6

(* Between any two closes of any ledger: what is restated, reversed and    *)
(* new explains the change of the gap at every node (bridge.vintage_delta  *)
(* over the two reads of dsl/bridge_diff), and no drift is no delta.       *)
THEOREM DeltaExplainsAlways == Spec => []DeltaExplains
<1>1. TypeInv => DeltaExplains
  BY DeltasExplain DEF TypeInv
<1> QED
  BY TypeInvAlways, <1>1, PTL

----------------------------------------------------------------------------
(***************************************************************************)
(* The bridge ties.  Line by line, what the legs leave of the gap is the   *)
(* rounding of the two stored amounts, in either convention.               *)
(***************************************************************************)
LeftOf(lines, margin) ==
  [l \in lines |-> Sign(l, margin) * l.pf * ((l.actual - l.aq * l.ap) - (l.plan - l.pq * l.pp))]

LEMMA LineTies ==
  ASSUME NEW lines, NEW levels, LineSet(lines, levels), NEW margin, NEW convention, NEW l \in lines
  PROVE  /\ LeftOf(lines, margin)[l] \in Int
         /\ LeftOf(lines, margin)[l] =
              ActualOf(lines, margin)[l] - PlanOf(lines, margin)[l] - PriceOf(lines, margin, convention)[l]
                - QuantityOf(lines, margin, convention)[l] - FxOf(lines, margin)[l]
<1> DEFINE s == Sign(l, margin)
           first == convention = "volume_first"
<1>1. {l.pq, l.aq, l.pp, l.ap, l.af, l.pf, l.plan, l.actual} \subseteq Int
  <2>1. /\ {l.pq, l.aq, l.pp, l.ap, l.af, l.pf} \subseteq Nat
        /\ l.plan = StoredAmount(l.pq * l.pp) /\ l.actual = StoredAmount(l.aq * l.ap)
    BY DEF LineSet, OkLine
  <2>2. l.pq * l.pp \in Nat /\ l.aq * l.ap \in Nat
    BY <2>1
  <2> QED
    BY <2>1, <2>2, StoredIsNat
<1>2. s \in Int
  BY DEF Sign
<1>3. /\ LeftOf(lines, margin)[l] = s * l.pf * ((l.actual - l.aq * l.ap) - (l.plan - l.pq * l.pp))
      /\ ActualOf(lines, margin)[l] = s * l.actual * l.af
      /\ PlanOf(lines, margin)[l] = s * l.plan * l.pf
      /\ FxOf(lines, margin)[l] = s * l.actual * (l.af - l.pf)
      /\ PriceOf(lines, margin, convention)[l] = s * (l.ap - l.pp) * l.pf * (IF first THEN l.aq ELSE l.pq)
      /\ QuantityOf(lines, margin, convention)[l]
           = s * (l.aq - l.pq) * (l.pf * (IF first THEN l.pp ELSE l.ap))
  BY DEF LeftOf, ActualOf, PlanOf, FxOf, PriceOf, QuantityOf, ActualUsd, PlanUsd, FxLeg, PriceLeg,
         QuantityLeg, MixPrice
<1> HIDE DEF s, first
<1>4. /\ \A t, pq, aq, pp, ap, pf, af, plan, actual \in Int :
           t * pf * ((actual - aq * ap) - (plan - pq * pp))
             = t * actual * af - t * plan * pf - t * (ap - pp) * pf * aq
                 - t * (aq - pq) * (pf * pp) - t * actual * (af - pf)
      /\ \A t, pq, aq, pp, ap, pf, af, plan, actual \in Int :
           t * pf * ((actual - aq * ap) - (plan - pq * pp))
             = t * actual * af - t * plan * pf - t * (ap - pp) * pf * pq
                 - t * (aq - pq) * (pf * ap) - t * actual * (af - pf)
  OBVIOUS
<1>5. s * l.pf * ((l.actual - l.aq * l.ap) - (l.plan - l.pq * l.pp))
        = s * l.actual * l.af - s * l.plan * l.pf - s * (l.ap - l.pp) * l.pf * (IF first THEN l.aq ELSE l.pq)
            - s * (l.aq - l.pq) * (l.pf * (IF first THEN l.pp ELSE l.ap)) - s * l.actual * (l.af - l.pf)
  BY <1>1, <1>2, <1>4
<1>6. s * l.pf * ((l.actual - l.aq * l.ap) - (l.plan - l.pq * l.pp)) \in Int
  BY <1>1, <1>2
<1> QED
  BY <1>3, <1>5, <1>6

(* Revenue and costs are all of it.                                        *)
LEMMA KindsAddUp ==
  ASSUME NEW lines, NEW levels, LineSet(lines, levels), NEW path, NEW e \in [lines -> Int]
  PROVE  LET own == Under(lines, path)
         IN /\ SumOver(own, e) = SumOver(Revenue(own), e) + SumOver(Costs(own), e)
            /\ SumOver(Revenue(own), e) \in Int /\ SumOver(Costs(own), e) \in Int
<1> DEFINE own == Under(lines, path)
           A == Revenue(own)
           B == Costs(own)
<1>1. IsFiniteSet(A) /\ IsFiniteSet(B) /\ A \in SUBSET lines /\ B \in SUBSET lines
  BY KindsOf
<1>2. A \cup B = own /\ A \cap B = {}
  BY DEF Revenue, Costs
<1>3. (\A l \in A \cup B : e[l] \in Int) /\ (\A l \in A : e[l] \in Int) /\ \A l \in B : e[l] \in Int
  BY <1>1
<1> HIDE DEF A, B
<1>4. SumOver(A \cup B, e) = SumOver(A, e) + SumOver(B, e)
  BY <1>1, <1>2, <1>3, SumOfUnion
<1>5. SumOver(A, e) \in Int /\ SumOver(B, e) \in Int
  BY <1>1, <1>3, SumOverStep
<1> QED
  BY <1>2, <1>4, <1>5 DEF A, B

LEMMA LeftAddsUp ==
  ASSUME NEW lines, NEW levels, LineSet(lines, levels), NEW margin, NEW convention, NEW path
  PROVE  LET own == Under(lines, path)
         IN SumOver(own, LeftOf(lines, margin)) =
              SumOver(own, ActualOf(lines, margin)) - SumOver(own, PlanOf(lines, margin))
                - SumOver(own, PriceOf(lines, margin, convention))
                - SumOver(own, QuantityOf(lines, margin, convention)) - SumOver(own, FxOf(lines, margin))
<1> DEFINE own == Under(lines, path)
           a == ActualOf(lines, margin)
           p == PlanOf(lines, margin)
           r == PriceOf(lines, margin, convention)
           q == QuantityOf(lines, margin, convention)
           f == FxOf(lines, margin)
           left == LeftOf(lines, margin)
           d1 == [l \in own |-> a[l] - p[l]]
           d2 == [l \in own |-> d1[l] - r[l]]
           d3 == [l \in own |-> d2[l] - q[l]]
<1>1. own \in SUBSET lines /\ IsFiniteSet(own)
  BY KindsOf
<1>2. \A l \in own : a[l] \in Int /\ p[l] \in Int /\ r[l] \in Int /\ q[l] \in Int /\ f[l] \in Int
  <2>1. a \in [lines -> Int] /\ p \in [lines -> Int] /\ r \in [lines -> Int] /\ q \in [lines -> Int]
          /\ f \in [lines -> Int]
    BY AmountsAreInts
  <2> HIDE DEF own, a, p, r, q, f
  <2> QED
    BY <1>1, <2>1
<1>3. \A l \in own : left[l] = a[l] - p[l] - r[l] - q[l] - f[l]
  <2> HIDE DEF own
  <2> QED
    BY <1>1, LineTies
<1> HIDE DEF own, a, p, r, q, f, left
<1>4. \A l \in own : d1[l] = a[l] - p[l] /\ d1[l] \in Int
  BY <1>2
<1> HIDE DEF d1
<1>5. \A l \in own : d2[l] = d1[l] - r[l] /\ d2[l] \in Int
  BY <1>2, <1>4
<1> HIDE DEF d2
<1>6. \A l \in own : d3[l] = d2[l] - q[l] /\ d3[l] \in Int
  BY <1>2, <1>5
<1> HIDE DEF d3
<1>7. \A l \in own : left[l] = d3[l] - f[l]
  BY <1>3, <1>4, <1>5, <1>6
<1>8. SumOver(own, d1) = SumOver(own, a) - SumOver(own, p)
  BY <1>1, <1>2, <1>4, SumSubtracts
<1>9. SumOver(own, d2) = SumOver(own, d1) - SumOver(own, r)
  BY <1>1, <1>2, <1>4, <1>5, SumSubtracts
<1>10. SumOver(own, d3) = SumOver(own, d2) - SumOver(own, q)
  BY <1>1, <1>2, <1>5, <1>6, SumSubtracts
<1>11. SumOver(own, left) = SumOver(own, d3) - SumOver(own, f)
  BY <1>1, <1>2, <1>6, <1>7, SumSubtracts
<1>12. SumOver(own, left) = SumOver(own, a) - SumOver(own, p) - SumOver(own, r)
                              - SumOver(own, q) - SumOver(own, f)
  BY <1>8, <1>9, <1>10, <1>11
<1> QED
  BY <1>12 DEF own, a, p, r, q, f, left

(* The residual of a node is the rounding of its lines and nothing else.   *)
LEMMA ResidualIsRounding ==
  ASSUME NEW lines, NEW levels, LineSet(lines, levels), NEW convention,
         NEW path \in Nodes(lines, levels)
  PROVE  LET own == Under(lines, path)
             left == SumOver(own, LeftOf(lines, Margin(lines)))
         IN /\ Residual(Decompose(lines, levels, convention)[path]) = Scale * left
            /\ RoundingOf(own, Margin(lines)) = Scale * left
            /\ left \in Int
<1> DEFINE node == Decompose(lines, levels, convention)[path]
           own == Under(lines, path)
           margin == Margin(lines)
           a == SumOver(own, ActualOf(lines, margin))
           p == SumOver(own, PlanOf(lines, margin))
           r == SumOver(own, PriceOf(lines, margin, convention))
           q == SumOver(own, QuantityOf(lines, margin, convention))
           f == SumOver(own, FxOf(lines, margin))
           r1 == SumOver(Revenue(own), PriceOf(lines, margin, convention))
           r2 == SumOver(Costs(own), PriceOf(lines, margin, convention))
           q1 == SumOver(Revenue(own), QuantityOf(lines, margin, convention))
           q2 == SumOver(Costs(own), QuantityOf(lines, margin, convention))
           v == Volume(lines, path, convention)
           left == SumOver(own, LeftOf(lines, margin))
<1>1. own \in SUBSET lines
  BY KindsOf
<1>2. a \in Int /\ p \in Int /\ f \in Int
  <2> HIDE DEF own, margin
  <2> QED
    BY <1>1, AmountSumsAreInts
<1>3. /\ r = r1 + r2 /\ q = q1 + q2
      /\ r1 \in Int /\ r2 \in Int /\ q1 \in Int /\ q2 \in Int
  <2> HIDE DEF margin
  <2>1. PriceOf(lines, margin, convention) \in [lines -> Int]
        /\ QuantityOf(lines, margin, convention) \in [lines -> Int]
    BY AmountsAreInts
  <2> QED
    BY <2>1, KindsAddUp
<1>4. left = a - p - r - q - f
  BY LeftAddsUp
<1>5. /\ node.plan = Scale * p /\ node.actual = Scale * a /\ node.price = Scale * r1
      /\ node.rate = Scale * r2 /\ node.efficiency = Scale * q2 /\ node.fx = Scale * f
      /\ node.volume = v
  BY NodeIs
<1>6. Mix(node) = Scale * q1 - v /\ v \in Int
  BY AllMixed, VolumeIsInt DEF Mixed, Quantity
<1>7. Residual(node) = node.actual - node.plan
        - (node.price + node.volume + Mix(node) + node.fx + node.rate + node.efficiency)
  BY DEF Residual, Gap, Explained
<1>8. RoundingOf(own, margin) = Scale * left
  <2>1. [l \in own |-> Sign(l, margin) * l.pf * ((l.actual - l.aq * l.ap) - (l.plan - l.pq * l.pp))]
          = [l \in own |-> LeftOf(lines, margin)[l]]
    BY <1>1 DEF LeftOf
  <2> QED
    BY <2>1 DEF RoundingOf, SumOver
<1> HIDE DEF node, own, margin, a, p, r, q, f, r1, r2, q1, q2, v, left
<1>9. left \in Int /\ left = a - p - (r1 + r2) - (q1 + q2) - f
  BY <1>2, <1>3, <1>4
<1>10. Residual(node) = Scale * a - Scale * p
         - (Scale * r1 + v + (Scale * q1 - v) + Scale * f + Scale * r2 + Scale * q2)
  BY <1>5, <1>6, <1>7
<1>11. Scale * a - Scale * p - (Scale * r1 + v + (Scale * q1 - v) + Scale * f + Scale * r2 + Scale * q2)
         = Scale * (a - p - (r1 + r2) - (q1 + q2) - f)
  BY <1>2, <1>3, <1>6, ScaleAssumption
<1>12. Residual(node) = Scale * left
  BY <1>9, <1>10, <1>11
<1> QED
  BY <1>8, <1>9, <1>12 DEF node, own, margin, left

(* A leg of a node is the sum of its children's.                           *)
LEMMA LegOfChildren ==
  ASSUME NEW lines, NEW levels, LineSet(lines, levels), NEW path \in Nodes(lines, levels),
         Len(path) < levels, NEW e \in [lines -> Int], NEW legs,
         \A c \in Children(lines, path) : legs[c] = Scale * SumOver(Under(lines, c), e)
  PROVE  SumOver(Children(lines, path), legs) = Scale * SumOver(Under(lines, path), e)
<1> DEFINE C == Children(lines, path)
           sums == [c \in C |-> SumOver(Under(lines, c), e)]
<1>1. \A c \in C : sums[c] = SumOver(Under(lines, c), e) /\ legs[c] = Scale * sums[c]
  OBVIOUS
<1>2. ASSUME NEW c \in C PROVE sums[c] \in Int
  <2> DEFINE own == Under(lines, c)
  <2>1. own \in SUBSET lines /\ IsFiniteSet(own)
    BY KindsOf
  <2> HIDE DEF own
  <2>2. \A l \in own : e[l] \in Int
    BY <2>1
  <2>3. SumOver(own, e) \in Int
    BY <2>1, <2>2, SumOverStep
  <2> QED
    BY <1>1, <2>3 DEF own
<1>3. IsFiniteSet(C)
  BY ChildrenAreFinite
<1> HIDE DEF sums
<1>4. SumOver(Under(lines, path), e) = SumOver(C, sums)
  BY <1>1, ChildrenSum
<1> HIDE DEF C
<1>5. SumOver(C, legs) = Scale * SumOver(C, sums)
  <2>1. \A c \in C : sums[c] \in Int /\ legs[c] = Scale * sums[c]
    BY <1>1, <1>2
  <2>2. Scale \in Int
    BY ScaleAssumption
  <2> QED
    BY <1>3, <2>1, <2>2, SumScales
<1> QED
  BY <1>4, <1>5 DEF C

(* The legs of a node as sums over all of its lines.                       *)
LEMMA LegsAre ==
  ASSUME NEW lines, NEW levels, LineSet(lines, levels), NEW convention,
         NEW path \in Nodes(lines, levels)
  PROVE  LET node == Decompose(lines, levels, convention)[path]
             own == Under(lines, path)
             margin == Margin(lines)
             price == PriceOf(lines, margin, convention)
             quantity == QuantityOf(lines, margin, convention)
         IN /\ node.plan = Scale * SumOver(own, PlanOf(lines, margin))
            /\ node.actual = Scale * SumOver(own, ActualOf(lines, margin))
            /\ node.price = Scale * SumOver(own, RevenueOnly(lines, price))
            /\ node.rate = Scale * SumOver(own, CostsOnly(lines, price))
            /\ node.efficiency = Scale * SumOver(own, CostsOnly(lines, quantity))
            /\ node.fx = Scale * SumOver(own, FxOf(lines, margin))
<1> DEFINE margin == Margin(lines)
           price == PriceOf(lines, margin, convention)
           quantity == QuantityOf(lines, margin, convention)
<1>1. price \in [lines -> Int] /\ quantity \in [lines -> Int]
  BY AmountsAreInts
<1> HIDE DEF price, quantity
<1>2. /\ SumOver(Revenue(Under(lines, path)), price) = SumOver(Under(lines, path), RevenueOnly(lines, price))
      /\ SumOver(Costs(Under(lines, path)), price) = SumOver(Under(lines, path), CostsOnly(lines, price))
      /\ SumOver(Costs(Under(lines, path)), quantity) = SumOver(Under(lines, path), CostsOnly(lines, quantity))
  BY <1>1, KindSums
<1> QED
  BY <1>2, NodeIs DEF price, quantity

SumsOf(C, tree) ==
  <<SumFunction([c \in C |-> tree[c].plan]), SumFunction([c \in C |-> tree[c].actual]),
    SumFunction([c \in C |-> tree[c].price]), SumFunction([c \in C |-> tree[c].rate]),
    SumFunction([c \in C |-> tree[c].efficiency]), SumFunction([c \in C |-> tree[c].fx])>>

LEMMA LegsSum ==
  ASSUME NEW lines, NEW levels, LineSet(lines, levels), NEW convention,
         NEW path \in Nodes(lines, levels), Len(path) < levels
  PROVE  LET tree == Decompose(lines, levels, convention)
         IN Legs(tree[path]) = SumsOf(Children(lines, path), tree)
<1> DEFINE tree == Decompose(lines, levels, convention)
           C == Children(lines, path)
           margin == Margin(lines)
           price == PriceOf(lines, margin, convention)
           quantity == QuantityOf(lines, margin, convention)
           p == PlanOf(lines, margin)
           a == ActualOf(lines, margin)
           f == FxOf(lines, margin)
           r1 == RevenueOnly(lines, price)
           r2 == CostsOnly(lines, price)
           q2 == CostsOnly(lines, quantity)
<1>1. C \subseteq Nodes(lines, levels)
  BY NodesAre
<1>2. price \in [lines -> Int] /\ quantity \in [lines -> Int]
        /\ p \in [lines -> Int] /\ a \in [lines -> Int] /\ f \in [lines -> Int]
  BY AmountsAreInts
<1>3. r1 \in [lines -> Int] /\ r2 \in [lines -> Int] /\ q2 \in [lines -> Int]
  <2> HIDE DEF price, quantity
  <2> QED
    BY <1>2 DEF RevenueOnly, CostsOnly
<1>4. ASSUME NEW n \in Nodes(lines, levels)
      PROVE  LET own == Under(lines, n)
             IN /\ tree[n].plan = Scale * SumOver(own, p) /\ tree[n].actual = Scale * SumOver(own, a)
                /\ tree[n].price = Scale * SumOver(own, r1) /\ tree[n].rate = Scale * SumOver(own, r2)
                /\ tree[n].efficiency = Scale * SumOver(own, q2) /\ tree[n].fx = Scale * SumOver(own, f)
  BY LegsAre
<1> HIDE DEF tree, margin, p, a, f, r1, r2, q2
<1>5. ASSUME NEW e \in [lines -> Int], NEW legs,
             \A c \in C : legs[c] = Scale * SumOver(Under(lines, c), e)
      PROVE  SumFunction([c \in C |-> legs[c]]) = Scale * SumOver(Under(lines, path), e)
  <2>1. SumOver(C, legs) = Scale * SumOver(Under(lines, path), e)
    BY <1>5, LegOfChildren
  <2> QED
    BY <2>1 DEF SumOver
<1> DEFINE l1 == [c \in C |-> tree[c].plan]
           l2 == [c \in C |-> tree[c].actual]
           l3 == [c \in C |-> tree[c].price]
           l4 == [c \in C |-> tree[c].rate]
           l5 == [c \in C |-> tree[c].efficiency]
           l6 == [c \in C |-> tree[c].fx]
<1>6. ASSUME NEW c \in C
      PROVE  LET own == Under(lines, c)
             IN /\ l1[c] = Scale * SumOver(own, p) /\ l2[c] = Scale * SumOver(own, a)
                /\ l3[c] = Scale * SumOver(own, r1) /\ l4[c] = Scale * SumOver(own, r2)
                /\ l5[c] = Scale * SumOver(own, q2) /\ l6[c] = Scale * SumOver(own, f)
  BY <1>1, <1>4
<1>7. /\ [c \in C |-> l1[c]] = [c \in C |-> tree[c].plan]
      /\ [c \in C |-> l2[c]] = [c \in C |-> tree[c].actual]
      /\ [c \in C |-> l3[c]] = [c \in C |-> tree[c].price]
      /\ [c \in C |-> l4[c]] = [c \in C |-> tree[c].rate]
      /\ [c \in C |-> l5[c]] = [c \in C |-> tree[c].efficiency]
      /\ [c \in C |-> l6[c]] = [c \in C |-> tree[c].fx]
  OBVIOUS
<1> HIDE DEF l1, l2, l3, l4, l5, l6, C
<1> DEFINE own == Under(lines, path)
<1>8. /\ SumFunction([c \in C |-> l1[c]]) = Scale * SumOver(own, p)
      /\ SumFunction([c \in C |-> l2[c]]) = Scale * SumOver(own, a)
      /\ SumFunction([c \in C |-> l3[c]]) = Scale * SumOver(own, r1)
      /\ SumFunction([c \in C |-> l4[c]]) = Scale * SumOver(own, r2)
      /\ SumFunction([c \in C |-> l5[c]]) = Scale * SumOver(own, q2)
      /\ SumFunction([c \in C |-> l6[c]]) = Scale * SumOver(own, f)
  BY <1>2, <1>3, <1>5, <1>6
<1> DEFINE node == tree[path]
<1>9. /\ node.plan = Scale * SumOver(own, p) /\ node.actual = Scale * SumOver(own, a)
      /\ node.price = Scale * SumOver(own, r1) /\ node.rate = Scale * SumOver(own, r2)
      /\ node.efficiency = Scale * SumOver(own, q2) /\ node.fx = Scale * SumOver(own, f)
  BY <1>4
<1> HIDE DEF own, node
<1>10. Legs(node) = SumsOf(C, tree)
  BY <1>7, <1>8, <1>9, Zenon DEF Legs, SumsOf
<1> QED
  BY <1>10 DEF node, tree, C

(* A node's volume and the mix between its children are their volume.      *)
LEMMA VolumesSum ==
  ASSUME NEW lines, NEW levels, LineSet(lines, levels), NEW convention,
         NEW path \in Nodes(lines, levels), Len(path) < levels
  PROVE  LET tree == Decompose(lines, levels, convention)
         IN tree[path].volume + tree[path].mixBetween
              = SumFunction([c \in Children(lines, path) |-> tree[c].volume])
<1> DEFINE tree == Decompose(lines, levels, convention)
           C == Children(lines, path)
           vs == [c \in C |-> Volume(lines, c, convention)]
           v == Volume(lines, path, convention)
<1>1. C \subseteq Nodes(lines, levels) /\ IsFiniteSet(C)
  BY NodesAre, ChildrenAreFinite
<1>2. \A n \in Nodes(lines, levels) :
        tree[n].volume = Volume(lines, n, convention)
        /\ tree[n].mixBetween = MixBetween(lines, n, levels, convention)
  BY NodeIs
<1>3. MixBetween(lines, path, levels, convention) = SumOver(C, vs) - v
  BY BetweenAbove
<1>4. v \in Int /\ \A c \in C : vs[c] \in Int
  BY VolumeIsInt
<1> HIDE DEF tree
<1>5. [c \in C |-> tree[c].volume] = [c \in C |-> vs[c]]
  BY <1>1, <1>2
<1> HIDE DEF C, vs, v
<1>6. SumOver(C, vs) \in Int
  BY <1>1, <1>4, SumOverStep
<1>7. tree[path].volume + tree[path].mixBetween = SumOver(C, vs)
  BY <1>2, <1>3, <1>4, <1>6 DEF v
<1> QED
  BY <1>5, <1>7 DEF tree, C, SumOver

(* The root adds up the same however many levels there are below it.       *)
LEMMA RootStands ==
  ASSUME NEW lines, NEW levels, LineSet(lines, levels), lines # {}, NEW convention
  PROVE  LET root == Decompose(lines, levels, convention)[<<>>]
         IN /\ AllLegs(root) = AllLegs(Decompose(lines, 0, convention)[<<>>])
            /\ Mix(root) = Quantity(lines, <<>>, convention) - Volume(lines, <<>>, convention)
<1> DEFINE root == Decompose(lines, levels, convention)[<<>>]
           alone == Decompose(lines, 0, convention)[<<>>]
<1>1. LineSet(lines, 0) /\ <<>> \in Nodes(lines, levels)
  BY RootIsNode
<1>2. <<>> \in Nodes(lines, 0)
  BY <1>1, RootIsNode
<1>3. Legs(root) = Legs(alone)
  BY <1>1, <1>2, LegsAre DEF Legs
<1>4. root.volume = alone.volume
  BY <1>1, <1>2, NodeIs
<1>5. Mix(root) = Mix(alone) /\ Mix(root) = Quantity(lines, <<>>, convention) - Volume(lines, <<>>, convention)
  BY <1>1, <1>2, AllMixed DEF Mixed
<1> HIDE DEF root, alone
<1>6. AllLegs(root) = AllLegs(alone)
  BY <1>3, <1>4, <1>5 DEF AllLegs
<1> QED
  BY <1>5, <1>6 DEF root, alone

(***************************************************************************)
(* Two rollups of the same lines by different paths: w gives the line that *)
(* stands for one of the others, and only their paths differ.              *)
(***************************************************************************)
SameLine(l, m) ==
  /\ l.cost = m.cost /\ l.pq = m.pq /\ l.aq = m.aq /\ l.pp = m.pp /\ l.ap = m.ap
  /\ l.pf = m.pf /\ l.af = m.af /\ l.plan = m.plan /\ l.actual = m.actual

Twins(S, T, w) ==
  /\ IsFiniteSet(S)
  /\ \A x \in S : w[x] \in T /\ SameLine(x, w[x])
  /\ \A x, y \in S : w[x] = w[y] => x = y
  /\ \A z \in T : \E x \in S : w[x] = z

LEMMA TwinSum ==
  ASSUME NEW S, NEW T, NEW w, Twins(S, T, w), NEW e, \A z \in T : e[z] \in Int,
         NEW h, \A x \in S : h[x] = e[w[x]]
  PROVE  SumOver(T, e) = SumOver(S, h)
<1>1. /\ IsFiniteSet(S) /\ (\A x, y \in S : w[x] = w[y] => x = y)
      /\ (\A x \in S : w[x] \in T) /\ (\A z \in T : \E x \in S : w[x] = z)
  BY DEF Twins
<1> QED
  BY <1>1, SumRenamed

LEMMA TwinKinds ==
  ASSUME NEW S, NEW T, NEW w, Twins(S, T, w)
  PROVE  Twins(Revenue(S), Revenue(T), w) /\ Twins(Costs(S), Costs(T), w) /\ Margin(S) = Margin(T)
<1>1. IsFiniteSet(Revenue(S)) /\ IsFiniteSet(Costs(S))
  BY FS_Subset DEF Twins, Revenue, Costs
<1>2. /\ \A x \in S : w[x] \in T /\ SameLine(x, w[x]) /\ w[x].cost = x.cost
      /\ \A x, y \in S : w[x] = w[y] => x = y
      /\ \A z \in T : \E x \in S : w[x] = z /\ z.cost = x.cost
  BY DEF Twins, SameLine
<1>3. Twins(Revenue(S), Revenue(T), w)
  BY <1>1, <1>2 DEF Twins, Revenue
<1>4. Twins(Costs(S), Costs(T), w)
  BY <1>1, <1>2 DEF Twins, Costs
<1>5. {l.cost : l \in S} = {l.cost : l \in T}
  BY <1>2
<1> QED
  BY <1>3, <1>4, <1>5 DEF Margin

(* What a line says does not depend on its path.                           *)
SaySame(S, x, T, z, margin, convention) ==
  /\ PlanOf(S, margin)[x] = PlanOf(T, margin)[z] /\ ActualOf(S, margin)[x] = ActualOf(T, margin)[z]
  /\ FxOf(S, margin)[x] = FxOf(T, margin)[z]
  /\ PriceOf(S, margin, convention)[x] = PriceOf(T, margin, convention)[z]
  /\ QuantityOf(S, margin, convention)[x] = QuantityOf(T, margin, convention)[z]
  /\ DeltaOf(S)[x] = DeltaOf(T)[z]
  /\ x.pq = z.pq /\ MixPrice(x, convention) = MixPrice(z, convention)

LEMMA TwinsSay ==
  ASSUME NEW S, NEW T, NEW x \in S, NEW z \in T, SameLine(x, z), NEW margin, NEW convention
  PROVE  SaySame(S, x, T, z, margin, convention)
<1>1. /\ PlanUsd(x, margin) = PlanUsd(z, margin) /\ ActualUsd(x, margin) = ActualUsd(z, margin)
      /\ FxLeg(x, margin) = FxLeg(z, margin) /\ PriceLeg(x, margin, convention) = PriceLeg(z, margin, convention)
      /\ QuantityLeg(x, margin, convention) = QuantityLeg(z, margin, convention)
      /\ x.aq - x.pq = z.aq - z.pq /\ x.pq = z.pq /\ MixPrice(x, convention) = MixPrice(z, convention)
  BY Zenon DEF SameLine, PlanUsd, ActualUsd, FxLeg, PriceLeg, QuantityLeg, Sign, MixPrice
<1> QED
  BY <1>1 DEF SaySame, PlanOf, ActualOf, FxOf, PriceOf, QuantityOf, DeltaOf

LEMMA TwinSums ==
  ASSUME NEW lines, NEW n, LineSet(lines, n), NEW others, NEW m, LineSet(others, m),
         NEW margin, NEW convention,
         NEW S \in SUBSET lines, NEW T \in SUBSET others, NEW w, Twins(S, T, w)
  PROVE  /\ SumOver(T, PlanOf(others, margin)) = SumOver(S, PlanOf(lines, margin))
         /\ SumOver(T, ActualOf(others, margin)) = SumOver(S, ActualOf(lines, margin))
         /\ SumOver(T, FxOf(others, margin)) = SumOver(S, FxOf(lines, margin))
         /\ SumOver(T, PriceOf(others, margin, convention)) = SumOver(S, PriceOf(lines, margin, convention))
         /\ SumOver(T, QuantityOf(others, margin, convention))
              = SumOver(S, QuantityOf(lines, margin, convention))
         /\ SumOver(T, DeltaOf(others)) = SumOver(S, DeltaOf(lines))
         /\ AveragePlanPrice(T, convention) = AveragePlanPrice(S, convention)
<1>1. /\ PlanOf(others, margin) \in [others -> Int] /\ ActualOf(others, margin) \in [others -> Int]
      /\ FxOf(others, margin) \in [others -> Int]
      /\ PriceOf(others, margin, convention) \in [others -> Int]
      /\ QuantityOf(others, margin, convention) \in [others -> Int]
      /\ DeltaOf(others) \in [others -> Int]
  BY AmountsAreInts
<1>2. ASSUME NEW x \in S
      PROVE  /\ PlanOf(lines, margin)[x] = PlanOf(others, margin)[w[x]]
             /\ ActualOf(lines, margin)[x] = ActualOf(others, margin)[w[x]]
             /\ FxOf(lines, margin)[x] = FxOf(others, margin)[w[x]]
             /\ PriceOf(lines, margin, convention)[x] = PriceOf(others, margin, convention)[w[x]]
             /\ QuantityOf(lines, margin, convention)[x] = QuantityOf(others, margin, convention)[w[x]]
             /\ DeltaOf(lines)[x] = DeltaOf(others)[w[x]]
             /\ x.pq = w[x].pq /\ MixPrice(x, convention) = MixPrice(w[x], convention)
  <2>1. w[x] \in others /\ SameLine(x, w[x]) /\ x \in lines
    BY DEF Twins
  <2>2. SaySame(lines, x, others, w[x], margin, convention)
    BY <2>1, TwinsSay
  <2> QED
    BY <2>2 DEF SaySame
<1>3. ASSUME NEW e \in [others -> Int], NEW h, \A x \in S : h[x] = e[w[x]]
      PROVE  SumOver(T, e) = SumOver(S, h)
  <2>1. \A z \in T : e[z] \in Int
    OBVIOUS
  <2> QED
    BY <1>3, <2>1, TwinSum
<1> DEFINE pqT == [l \in T |-> l.pq]
           pqS == [l \in S |-> l.pq]
           prT == [l \in T |-> l.pq * MixPrice(l, convention)]
           prS == [l \in S |-> l.pq * MixPrice(l, convention)]
<1>4. \A z \in T : pqT[z] \in Int /\ prT[z] \in Int
  <2> SUFFICES ASSUME NEW z \in T PROVE z.pq \in Int /\ z.pq * MixPrice(z, convention) \in Int
    OBVIOUS
  <2>1. z.pq \in Nat
    BY DEF LineSet, OkLine
  <2>2. MixPrice(z, convention) \in Nat
    BY AmountsAreInts
  <2> QED
    BY <2>1, <2>2
<1>5. \A x \in S : pqS[x] = pqT[w[x]] /\ prS[x] = prT[w[x]]
  <2>1. \A x \in S : w[x] \in T
    BY DEF Twins
  <2> QED
    BY <1>2, <2>1
<1>6. /\ SumFunction([line \in T |-> line.pq]) = SumFunction([l \in T |-> pqT[l]])
      /\ SumFunction([line \in S |-> line.pq]) = SumFunction([l \in S |-> pqS[l]])
      /\ SumFunction([line \in T |-> line.pq * MixPrice(line, convention)]) = SumFunction([l \in T |-> prT[l]])
      /\ SumFunction([line \in S |-> line.pq * MixPrice(line, convention)]) = SumFunction([l \in S |-> prS[l]])
  <2>1. /\ [line \in T |-> line.pq] = [l \in T |-> pqT[l]]
        /\ [line \in S |-> line.pq] = [l \in S |-> pqS[l]]
        /\ [line \in T |-> line.pq * MixPrice(line, convention)] = [l \in T |-> prT[l]]
        /\ [line \in S |-> line.pq * MixPrice(line, convention)] = [l \in S |-> prS[l]]
    OBVIOUS
  <2> HIDE DEF pqT, pqS, prT, prS
  <2> QED
    BY <2>1, Zenon
<1> HIDE DEF pqT, pqS, prT, prS
<1>7. SumOver(T, pqT) = SumOver(S, pqS) /\ SumOver(T, prT) = SumOver(S, prS)
  BY <1>4, <1>5, TwinSum
<1>8. AveragePlanPrice(T, convention) = AveragePlanPrice(S, convention)
  BY <1>6, <1>7, Zenon DEF AveragePlanPrice, SumOver
<1> QED
  BY <1>1, <1>2, <1>3, <1>8

LEMMA TwinRoots ==
  ASSUME NEW lines, NEW n, LineSet(lines, n), lines # {},
         NEW others, NEW m, LineSet(others, m), NEW w, Twins(lines, others, w), NEW convention
  PROVE  AllLegs(Decompose(lines, n, convention)[<<>>]) = AllLegs(Decompose(others, m, convention)[<<>>])
<1> DEFINE root == Decompose(lines, n, convention)[<<>>]
           other == Decompose(others, m, convention)[<<>>]
           margin == Margin(lines)
<1>1. others # {}
  BY DEF Twins
<1>2. /\ <<>> \in Nodes(lines, n) /\ Under(lines, <<>>) = lines
      /\ <<>> \in Nodes(others, m) /\ Under(others, <<>>) = others
  BY <1>1, RootIsNode
<1>3. /\ Twins(Revenue(lines), Revenue(others), w) /\ Twins(Costs(lines), Costs(others), w)
      /\ Margin(others) = margin
      /\ Revenue(lines) \in SUBSET lines /\ Costs(lines) \in SUBSET lines
      /\ Revenue(others) \in SUBSET others /\ Costs(others) \in SUBSET others
  BY TwinKinds DEF Revenue, Costs
<1> HIDE DEF margin
<1>4. /\ SumOver(others, PlanOf(others, margin)) = SumOver(lines, PlanOf(lines, margin))
      /\ SumOver(others, ActualOf(others, margin)) = SumOver(lines, ActualOf(lines, margin))
      /\ SumOver(others, FxOf(others, margin)) = SumOver(lines, FxOf(lines, margin))
  <2>1. lines \in SUBSET lines /\ others \in SUBSET others
    OBVIOUS
  <2> QED
    BY <2>1, TwinSums
<1> DEFINE rev == Revenue(lines)
           revs == Revenue(others)
           cost == Costs(lines)
           costs == Costs(others)
<1> HIDE DEF rev, revs, cost, costs
<1>5. /\ SumOver(revs, PriceOf(others, margin, convention)) = SumOver(rev, PriceOf(lines, margin, convention))
      /\ SumOver(revs, QuantityOf(others, margin, convention))
           = SumOver(rev, QuantityOf(lines, margin, convention))
      /\ SumOver(revs, DeltaOf(others)) = SumOver(rev, DeltaOf(lines))
      /\ AveragePlanPrice(revs, convention) = AveragePlanPrice(rev, convention)
  <2>1. Twins(rev, revs, w) /\ rev \in SUBSET lines /\ revs \in SUBSET others
    BY <1>3 DEF rev, revs
  <2> QED
    BY <2>1, TwinSums
<1>6. /\ SumOver(costs, PriceOf(others, margin, convention)) = SumOver(cost, PriceOf(lines, margin, convention))
      /\ SumOver(costs, QuantityOf(others, margin, convention))
           = SumOver(cost, QuantityOf(lines, margin, convention))
  <2>1. Twins(cost, costs, w) /\ cost \in SUBSET lines /\ costs \in SUBSET others
    BY <1>3 DEF cost, costs
  <2> QED
    BY <2>1, TwinSums
<1>7. /\ root.plan = Scale * SumOver(lines, PlanOf(lines, margin))
      /\ root.actual = Scale * SumOver(lines, ActualOf(lines, margin))
      /\ root.price = Scale * SumOver(rev, PriceOf(lines, margin, convention))
      /\ root.rate = Scale * SumOver(cost, PriceOf(lines, margin, convention))
      /\ root.efficiency = Scale * SumOver(cost, QuantityOf(lines, margin, convention))
      /\ root.fx = Scale * SumOver(lines, FxOf(lines, margin))
      /\ root.volume = Volume(lines, <<>>, convention)
  BY <1>2, NodeIs DEF margin, rev, cost
<1>8. /\ other.plan = Scale * SumOver(others, PlanOf(others, margin))
      /\ other.actual = Scale * SumOver(others, ActualOf(others, margin))
      /\ other.price = Scale * SumOver(revs, PriceOf(others, margin, convention))
      /\ other.rate = Scale * SumOver(costs, PriceOf(others, margin, convention))
      /\ other.efficiency = Scale * SumOver(costs, QuantityOf(others, margin, convention))
      /\ other.fx = Scale * SumOver(others, FxOf(others, margin))
      /\ other.volume = Volume(others, <<>>, convention)
  BY <1>2, <1>3, NodeIs DEF revs, costs
<1>9. /\ Mix(root) = Quantity(lines, <<>>, convention) - Volume(lines, <<>>, convention)
      /\ Mix(other) = Quantity(others, <<>>, convention) - Volume(others, <<>>, convention)
  BY <1>1, RootStands
<1>10. /\ Quantity(lines, <<>>, convention) = Quantity(others, <<>>, convention)
       /\ Volume(lines, <<>>, convention) = Volume(others, <<>>, convention)
  BY <1>2, <1>3, <1>5, Zenon DEF Quantity, Volume, rev, revs, margin
<1> HIDE DEF root, other
<1>11. AllLegs(root) = AllLegs(other)
  BY <1>4, <1>5, <1>6, <1>7, <1>8, <1>9, <1>10, Zenon DEF AllLegs, Legs
<1> QED
  BY <1>11 DEF root, other

(* The impact page's two levels and the report's three are twins.          *)
LEMMA ForecastsAreTwins ==
  ASSUME NEW s \in Forecasts
  PROVE  \E w : Twins(ForecastLines(s, 3), ForecastLines(s, 2), w)
<1> DEFINE keys == DOMAIN Staged[s]
           three == ForecastLines(s, 3)
           two == ForecastLines(s, 2)
           w == [l \in three |-> ForecastLine(s, 2, l.key)]
<1>1. IsFiniteSet(three)
  <2>1. LineSet(three, 3)
    BY ForecastLinesAreOk
  <2> QED
    BY <2>1 DEF LineSet
<1>2. three = {ForecastLine(s, 3, k) : k \in keys} /\ two = {ForecastLine(s, 2, k) : k \in keys}
  BY DEF ForecastLines, ForecastLine
<1>3. ASSUME NEW k \in keys
      PROVE  /\ ForecastLine(s, 3, k).key = k /\ ForecastLine(s, 2, k).key = k
             /\ SameLine(ForecastLine(s, 3, k), ForecastLine(s, 2, k))
  BY DEF ForecastLine, SameLine
<1> HIDE DEF three, two, keys
<1>4. \A k \in keys : w[ForecastLine(s, 3, k)] = ForecastLine(s, 2, k)
  BY <1>2, <1>3
<1> HIDE DEF w
<1>5. \A x \in three : w[x] \in two /\ SameLine(x, w[x])
  BY <1>2, <1>3, <1>4
<1>6. \A x, y \in three : w[x] = w[y] => x = y
  BY <1>2, <1>3, <1>4
<1>7. \A z \in two : \E x \in three : w[x] = z
  BY <1>2, <1>4
<1>8. Twins(three, two, w)
  BY <1>1, <1>5, <1>6, <1>7 DEF Twins
<1> QED
  BY <1>8 DEF three, two

----------------------------------------------------------------------------
(***************************************************************************)
(* The row of a node passes the table's check.  What rounding can leave is *)
(* half a cent at a line's rate and half a cent for each of the eight      *)
(* amounts, so it passes whatever the lines say where the rates are small: *)
(* rates up to one always are, and a rate of two is up to 95 lines.        *)
(***************************************************************************)
RatesAreSmall ==
  \E top \in Nat :
    /\ \A k \in Keys : KeyInfo[k].pf <= top
    /\ \A n \in 1 .. Cardinality(Keys) : top * n + 8 < 2 * (IF n > 100 THEN n ELSE 100)

LEMMA RoundedIsNear ==
  ASSUME NEW n \in Int
  PROVE  Rounded(n) - n <= Scale /\ -Scale <= Rounded(n) - n /\ Rounded(n) \in Int
<1> DEFINE c == Cent
           cents == n \div c
           rest == n % c
           up == 2 * rest > c \/ (2 * rest = c /\ cents % 2 = 1)
<1>1. c = 2 * Scale /\ c \in Nat \ {0} /\ Scale \in Nat \ {0}
  BY ScaleAssumption DEF Cent
<1>2. \A a \in Int, b \in Nat \ {0} : a = b * (a \div b) + (a % b) /\ a % b \in 0 .. b - 1 /\ a \div b \in Int
  OBVIOUS
<1> HIDE DEF c
<1>3. n = c * cents + rest /\ rest \in 0 .. c - 1 /\ cents \in Int
  BY <1>1, <1>2
<1>4. Rounded(n) = c * (IF up THEN cents + 1 ELSE cents)
  BY DEF Rounded, c
<1>5. up => 2 * rest >= c
  BY <1>1, <1>3
<1>6. ~up => 2 * rest <= c
  BY <1>1, <1>3
<1> HIDE DEF cents, rest, up
<1>7. CASE up
  <2>1. Rounded(n) = c * cents + c
    BY <1>1, <1>3, <1>4, <1>7
  <2>2. c * cents \in Int
    BY <1>1, <1>3
  <2> DEFINE x == c * cents
  <2> HIDE DEF x
  <2>3. x \in Int /\ n = x + rest /\ Rounded(n) = x + c
    BY <1>3, <2>1, <2>2 DEF x
  <2> QED
    BY <1>1, <1>3, <1>5, <1>7, <2>3
<1>8. CASE ~up
  <2>1. Rounded(n) = c * cents
    BY <1>4, <1>8
  <2>2. c * cents \in Int
    BY <1>1, <1>3
  <2> DEFINE x == c * cents
  <2> HIDE DEF x
  <2>3. x \in Int /\ n = x + rest /\ Rounded(n) = x
    BY <1>3, <2>1, <2>2 DEF x
  <2> QED
    BY <1>1, <1>3, <1>6, <1>8, <2>3
<1> QED
  BY <1>7, <1>8

(* A line leaves at most half a cent at its rate.                          *)
LEMMA LeftIsSmall ==
  ASSUME NEW lines, NEW levels, LineSet(lines, levels), NEW margin, NEW l \in lines,
         NEW top \in Nat, l.pf <= top
  PROVE  LeftOf(lines, margin)[l] <= top /\ -top <= LeftOf(lines, margin)[l]
<1> DEFINE s == Sign(l, margin)
           x == l.aq * l.ap
           y == l.pq * l.pp
           d == (l.actual - x) - (l.plan - y)
<1>1. /\ {l.pq, l.aq, l.pp, l.ap, l.pf} \subseteq Nat
      /\ l.plan = StoredAmount(y) /\ l.actual = StoredAmount(x)
  BY DEF LineSet, OkLine
<1>2. x \in Nat /\ y \in Nat
  BY <1>1
<1>3. \A n \in Nat : StoredAmount(n) - n \in {0, 1} /\ StoredAmount(n) \in Nat
  BY DEF StoredAmount
<1>4. LeftOf(lines, margin)[l] = s * l.pf * d
  BY DEF LeftOf
<1>5. s \in {1, -1}
  BY DEF Sign
<1> HIDE DEF s, x, y
<1>6. d \in {-1, 0, 1}
  BY <1>1, <1>2, <1>3
<1> HIDE DEF d
<1>7. s * l.pf * d \in {l.pf, -l.pf, 0}
  <2>1. l.pf \in Int
    BY <1>1
  <2>2. \A f \in Int : /\ 1 * f * 1 = f /\ 1 * f * 0 = 0 /\ 1 * f * (-1) = -f
                       /\ (-1) * f * 1 = -f /\ (-1) * f * 0 = 0 /\ (-1) * f * (-1) = f
    OBVIOUS
  <2> QED
    BY <1>5, <1>6, <2>1, <2>2
<1>8. l.pf \in Nat
  BY <1>1
<1> QED
  BY <1>4, <1>7, <1>8

(* No more lines than keys.                                                *)
LEMMA AtMostKeys ==
  ASSUME NEW lines, NEW levels, LineSet(lines, levels), NEW path \in Nodes(lines, levels)
  PROVE  Cardinality(Under(lines, path)) \in 1 .. Cardinality(Keys)
<1> DEFINE own == Under(lines, path)
           f == [l \in own |-> l.key]
<1>1. own \in SUBSET lines /\ IsFiniteSet(own)
  BY KindsOf
<1>2. f \in Injection(own, Keys)
  BY <1>1 DEF Injection, IsInjective, LineSet, OkLine
<1>3. IsFiniteSet(Keys)
  BY LedgerAssumption
<1> HIDE DEF f
<1>4. Cardinality(own) <= Cardinality(Keys)
  BY <1>2, <1>3, FS_Injection
<1>5. Cardinality(own) \in Nat /\ Cardinality(Keys) \in Nat
  BY <1>1, <1>3, FS_CardinalityType
<1>6. own # {}
  <2>1. PICK l \in lines, n \in 0 .. levels : path = Cut(l.path, n)
    BY DEF Nodes
  <2>2. Len(path) = n
    BY <2>1, CutIsOk DEF LineSet, OkLine
  <2>3. l \in own
    BY <2>1, <2>2 DEF Under
  <2> QED
    BY <2>3
<1>7. Cardinality(own) # 0
  BY <1>1, <1>6, FS_EmptySet
<1> QED
  BY <1>4, <1>5, <1>7

LEMMA RowPasses ==
  ASSUME RatesAreSmall, NEW lines, NEW levels, LineSet(lines, levels), NEW convention,
         NEW path \in Nodes(lines, levels)
  PROVE  TiesWhenStored(Decompose(lines, levels, convention)[path])
<1> DEFINE node == Decompose(lines, levels, convention)[path]
           own == Under(lines, path)
           n == Cardinality(own)
           left == SumOver(own, LeftOf(lines, Margin(lines)))
           most == IF n > 100 THEN n ELSE 100
<1>1. PICK top \in Nat :
        /\ \A k \in Keys : KeyInfo[k].pf <= top
        /\ \A m \in 1 .. Cardinality(Keys) : top * m + 8 < 2 * (IF m > 100 THEN m ELSE 100)
  BY DEF RatesAreSmall
<1>2. n \in 1 .. Cardinality(Keys) /\ n \in Nat
  <2>1. IsFiniteSet(Keys)
    BY LedgerAssumption
  <2>2. Cardinality(Keys) \in Nat
    BY <2>1, FS_CardinalityType
  <2> QED
    BY <2>2, AtMostKeys
<1>3. own \in SUBSET lines /\ IsFiniteSet(own)
  BY KindsOf
<1>4. left <= top * n /\ -(top * n) <= left
  <2> DEFINE e == LeftOf(lines, Margin(lines))
  <2>1. ASSUME NEW l \in own PROVE e[l] \in Int /\ e[l] <= top /\ -top <= e[l]
    <3>1. l \in lines
      BY <1>3
    <3>2. l.pf <= top
      BY <1>1, <3>1 DEF LineSet, OkLine
    <3>3. e[l] \in Int
      BY <3>1, LineTies
    <3>4. e[l] <= top /\ -top <= e[l]
      BY <3>1, <3>2, LeftIsSmall
    <3> QED
      BY <3>3, <3>4
  <2> HIDE DEF e, own
  <2>2. SumOver(own, e) <= top * Cardinality(own) /\ -(top * Cardinality(own)) <= SumOver(own, e)
    BY <1>3, <2>1, SumIsBounded
  <2> QED
    BY <2>2 DEF e
<1>5. Residual(node) = Scale * left /\ left \in Int
  BY ResidualIsRounding
<1>6. /\ node.plan \in Int /\ node.actual \in Int /\ node.price \in Int /\ node.rate \in Int
      /\ node.efficiency \in Int /\ node.fx \in Int /\ node.volume \in Int /\ Mix(node) \in Int
  BY LegsAreInts
<1>7. node.count = n
  BY NodeIs
<1>8. Residual(node) = (node.actual - node.plan)
        - (node.price + node.volume + Mix(node) + node.fx + node.rate + node.efficiency)
  BY DEF Residual, Gap, Explained
<1>9. StoredResidual(node) = (Rounded(node.actual) - Rounded(node.plan))
        - (Rounded(node.price) + Rounded(node.volume) + Rounded(Mix(node))
             + Rounded(node.fx) + Rounded(node.rate) + Rounded(node.efficiency))
  BY DEF StoredResidual
<1>10. Tolerance(node) = Cent * most
  <2>1. Tolerance(node) = IF n > 100 THEN Cent * n ELSE 100 * Cent
    BY <1>7 DEF Tolerance
  <2>2. 100 * Cent = Cent * 100
    BY ScaleAssumption DEF Cent
  <2> QED
    BY <2>1, <2>2
<1>11. top * n + 8 < 2 * most
  BY <1>1, <1>2
<1> HIDE DEF node, own, n, left, most
<1>12. /\ StoredResidual(node) - Residual(node) <= 8 * Scale
       /\ -(8 * Scale) <= StoredResidual(node) - Residual(node)
       /\ StoredResidual(node) \in Int /\ Residual(node) \in Int
  BY <1>6, <1>8, <1>9, RoundedIsNear, ScaleAssumption
<1>13. most \in Nat /\ top * n \in Nat
  BY <1>2 DEF most
<1>14. \A s \in Nat \ {0}, x, y, z \in Int :
         /\ x <= y /\ -y <= x => s * x <= s * y /\ -(s * y) <= s * x
         /\ y + 8 < 2 * z => s * y + 8 * s < 2 * s * z
  OBVIOUS
<1>15. Scale * left <= Scale * (top * n) /\ -(Scale * (top * n)) <= Scale * left
  BY <1>4, <1>5, <1>13, <1>14, ScaleAssumption
<1>16. Scale * (top * n) + 8 * Scale < 2 * Scale * most
  BY <1>11, <1>13, <1>14, ScaleAssumption
<1>17. Scale * (top * n) \in Int /\ 2 * Scale * most \in Int
  BY <1>13, ScaleAssumption
<1>18. StoredResidual(node) < 2 * Scale * most /\ -StoredResidual(node) < 2 * Scale * most
  <2> DEFINE a == Scale * (top * n)
             b == 2 * Scale * most
  <2>1. a \in Int /\ b \in Int /\ a + 8 * Scale < b
        /\ Residual(node) <= a /\ -a <= Residual(node)
    BY <1>5, <1>15, <1>16, <1>17
  <2> HIDE DEF a, b
  <2>2. StoredResidual(node) < b /\ -StoredResidual(node) < b
    BY <1>12, <2>1, ScaleAssumption
  <2> QED
    BY <2>2 DEF b
<1>19. Absolute(StoredResidual(node)) < Tolerance(node)
  BY <1>10, <1>12, <1>18 DEF Absolute, Cent
<1> QED
  BY <1>19 DEF TiesWhenStored, node

----------------------------------------------------------------------------
(* What a node says is an identity, whatever the rates: NodeTies but for   *)
(* the check of the table.                                                 *)
AddsUp(node, tree, set, path) ==
  /\ Residual(node) = RoundingOf(Under(set.lines, path), Margin(set.lines))
  /\ node.folded = 0
  /\ Len(path) < set.levels =>
       LET C == Children(set.lines, path)
       IN /\ \A i \in 1 .. 6 : Legs(node)[i] = SumFunction([c \in C |-> Legs(tree[c])[i]])
          /\ node.volume + node.mixBetween = SumFunction([c \in C |-> tree[c].volume])

(* The tree of one set of lines, node by node, and its root.               *)
LEMMA NodesAddUp ==
  ASSUME NEW set, LineSet(set.lines, set.levels), NEW convention,
         NEW path \in Nodes(set.lines, set.levels)
  PROVE  LET tree == Decompose(set.lines, set.levels, convention)
         IN AddsUp(tree[path], tree, set, path)
<1> DEFINE lines == set.lines
           levels == set.levels
           tree == Decompose(lines, levels, convention)
           C == Children(lines, path)
<1>1. Residual(tree[path]) = RoundingOf(Under(lines, path), Margin(lines))
  BY ResidualIsRounding
<1>2. tree[path].folded = 0
  BY AllMixed DEF Mixed
<1>4. ASSUME Len(path) < levels
      PROVE  /\ Legs(tree[path]) = SumsOf(C, tree)
             /\ tree[path].volume + tree[path].mixBetween = SumFunction([c \in C |-> tree[c].volume])
  BY <1>4, LegsSum, VolumesSum
<1> HIDE DEF tree, C
<1>5. ASSUME NEW i \in 1 .. 6
      PROVE  SumsOf(C, tree)[i] = SumFunction([c \in C |-> Legs(tree[c])[i]])
  <2>1. CASE i = 1
    <3>1. [c \in C |-> Legs(tree[c])[1]] = [c \in C |-> tree[c].plan]
      BY DEF Legs
    <3> QED
      BY <2>1, <3>1 DEF SumsOf
  <2>2. CASE i = 2
    <3>1. [c \in C |-> Legs(tree[c])[2]] = [c \in C |-> tree[c].actual]
      BY DEF Legs
    <3> QED
      BY <2>2, <3>1 DEF SumsOf
  <2>3. CASE i = 3
    <3>1. [c \in C |-> Legs(tree[c])[3]] = [c \in C |-> tree[c].price]
      BY DEF Legs
    <3> QED
      BY <2>3, <3>1 DEF SumsOf
  <2>4. CASE i = 4
    <3>1. [c \in C |-> Legs(tree[c])[4]] = [c \in C |-> tree[c].rate]
      BY DEF Legs
    <3> QED
      BY <2>4, <3>1 DEF SumsOf
  <2>5. CASE i = 5
    <3>1. [c \in C |-> Legs(tree[c])[5]] = [c \in C |-> tree[c].efficiency]
      BY DEF Legs
    <3> QED
      BY <2>5, <3>1 DEF SumsOf
  <2>6. CASE i = 6
    <3>1. [c \in C |-> Legs(tree[c])[6]] = [c \in C |-> tree[c].fx]
      BY DEF Legs
    <3> QED
      BY <2>6, <3>1 DEF SumsOf
  <2> QED
    BY <2>1, <2>2, <2>3, <2>4, <2>5, <2>6
<1>6. Len(path) < levels =>
        /\ \A i \in 1 .. 6 : Legs(tree[path])[i] = SumFunction([c \in C |-> Legs(tree[c])[i]])
        /\ tree[path].volume + tree[path].mixBetween = SumFunction([c \in C |-> tree[c].volume])
  BY <1>4, <1>5
<1> QED
  BY <1>1, <1>2, <1>6, Zenon DEF AddsUp, tree, C

LEMMA NodesTie ==
  ASSUME RatesAreSmall, NEW set, LineSet(set.lines, set.levels), NEW convention,
         NEW path \in Nodes(set.lines, set.levels)
  PROVE  LET tree == Decompose(set.lines, set.levels, convention)
         IN NodeTies(tree[path], tree, set, path)
<1> DEFINE tree == Decompose(set.lines, set.levels, convention)
<1>1. AddsUp(tree[path], tree, set, path)
  BY NodesAddUp
<1>2. TiesWhenStored(tree[path])
  BY RowPasses
<1> HIDE DEF tree
<1>3. NodeTies(tree[path], tree, set, path)
  BY <1>1, <1>2, Zenon DEF AddsUp, NodeTies
<1> QED
  BY <1>3 DEF tree

LEMMA ImpactAgrees ==
  ASSUME NEW set, set.lines # {}, LineSet(set.lines, set.levels)
  PROVE  AgreesWithImpact(set, Decompose(set.lines, set.levels, "volume_first")[<<>>])
<1> SUFFICES ASSUME NEW s \in Forecasts, set.lines = ForecastLines(s, 3)
             PROVE  AllLegs(Decompose(set.lines, set.levels, "volume_first")[<<>>])
                      = AllLegs(ReforecastImpact(s).root)
  BY DEF AgreesWithImpact
<1> DEFINE lines == ForecastLines(s, 2)
           root == Decompose(lines, 2, "volume_first")[<<>>]
<1>1. PICK w : Twins(set.lines, lines, w)
  BY ForecastsAreTwins
<1>2. LineSet(lines, 2)
  BY ForecastLinesAreOk
<1>3. lines # {}
  BY <1>1 DEF Twins
<1>4. ReforecastImpact(s) = [root |-> root, drill |-> report[s] # NoReport]
  BY <1>3 DEF ReforecastImpact
<1> HIDE DEF lines
<1>5. AllLegs(Decompose(set.lines, set.levels, "volume_first")[<<>>]) = AllLegs(root)
  BY <1>1, <1>2, TwinRoots
<1> HIDE DEF root
<1> QED
  BY <1>4, <1>5

TreeAddsUp(tree, set, convention) ==
  /\ \A path \in DOMAIN tree : AddsUp(tree[path], tree, set, path)
  /\ set.lines # {} =>
       /\ AllLegs(tree[<<>>]) = AllLegs(Decompose(set.lines, 0, convention)[<<>>])
       /\ convention = "volume_first" => AgreesWithImpact(set, tree[<<>>])

LEMMA TreesAddUp ==
  ASSUME NEW set, LineSet(set.lines, set.levels), NEW convention
  PROVE  /\ TreeAddsUp(Decompose(set.lines, set.levels, convention), set, convention)
         /\ RatesAreSmall => TreeTies(Decompose(set.lines, set.levels, convention), set, convention)
<1> DEFINE tree == Decompose(set.lines, set.levels, convention)
<1>1. DOMAIN tree = Nodes(set.lines, set.levels)
  <2>1. tree = [path \in Nodes(set.lines, set.levels) |->
                  Node(set.lines, path, set.levels, convention, tree)]
    BY TreeIsMade
  <2> HIDE DEF tree
  <2> QED
    BY <2>1
<1>2. \A path \in DOMAIN tree : AddsUp(tree[path], tree, set, path)
  BY <1>1, NodesAddUp
<1>3. RatesAreSmall => \A path \in DOMAIN tree : NodeTies(tree[path], tree, set, path)
  BY <1>1, NodesTie
<1>4. set.lines # {} => AllLegs(tree[<<>>]) = AllLegs(Decompose(set.lines, 0, convention)[<<>>])
  BY RootStands
<1>5. set.lines # {} => (convention = "volume_first" => AgreesWithImpact(set, tree[<<>>]))
  BY ImpactAgrees
<1> HIDE DEF tree
<1>6. TreeAddsUp(tree, set, convention)
  BY <1>2, <1>4, <1>5 DEF TreeAddsUp
<1>7. RatesAreSmall => TreeTies(tree, set, convention)
  BY <1>3, <1>4, <1>5 DEF TreeTies
<1> QED
  BY <1>6, <1>7 DEF tree

LEMMA LineSetsAreOk ==
  ASSUME RowsInv, NEW set \in LineSets
  PROVE  LineSet(set.lines, set.levels)
<1>1. ASSUME NEW q \in BridgeQueries, NEW asOf,
             set = [lines |-> LinesAt(q, Companies, asOf), levels |-> q.levels]
      PROVE  LineSet(set.lines, set.levels)
  BY <1>1, LinesAtAreOk
<1>2. ASSUME NEW s \in Forecasts, set = [lines |-> ForecastLines(s, 3), levels |-> 3]
      PROVE  LineSet(set.lines, set.levels)
  BY <1>2, ForecastLinesAreOk
<1> QED
  BY <1>1, <1>2 DEF LineSets

(* The bridge is an identity, for every ledger, cut, forecast, convention  *)
(* and rate, and however the average price is rounded: the residual of     *)
(* every node is the rounding of its stored amounts, the fold of           *)
(* bridge.decompose moves nothing, every level adds up from the one below, *)
(* and the report and the impact page of one forecast agree.               *)
BridgeAddsUp ==
  \A set \in LineSets, convention \in Conventions :
    TreeAddsUp(Decompose(set.lines, set.levels, convention), set, convention)

THEOREM BridgeAddsUpAlways == Spec => []BridgeAddsUp
<1>1. TypeInv => BridgeAddsUp
  BY LineSetsAreOk, TreesAddUp DEF TypeInv, BridgeAddsUp
<1> QED
  BY TypeInvAlways, <1>1, PTL

(* Where the rates are small, the row of every node also passes the check  *)
(* ck_variance_report_line_ties, so a report that adds up can be stored.   *)
THEOREM BridgeTiesAlways ==
  ASSUME RatesAreSmall
  PROVE  Spec => []BridgeTies
<1>1. TypeInv => BridgeTies
  BY LineSetsAreOk, TreesAddUp DEF TypeInv, BridgeTies
<1> QED
  BY TypeInvAlways, <1>1, PTL
----------------------------------------------------------------------------
(***************************************************************************)
(* What a query reads.  A chain of filters is a join: those in skip are    *)
(* left out, those in ors are joined by OR and the others by AND, and true *)
(* has those that hold.                                                    *)
(***************************************************************************)
IsJoin(f, n, skip, ors, true) ==
  /\ f \in [0 .. n -> BOOLEAN] /\ f[0]
  /\ \A i \in 1 .. n :
       f[i] = IF i \in skip THEN f[i - 1]
              ELSE IF i \in ors THEN f[i - 1] \/ i \in true ELSE f[i - 1] /\ i \in true

LEMMA JoinExists ==
  ASSUME NEW n \in Nat, NEW skip, NEW ors, NEW true
  PROVE  \E f : IsJoin(f, n, skip, ors, true)
<1> DEFINE Good == {m \in 0 .. n : \E f : IsJoin(f, m, skip, ors, true)}
<1>1. ASSUME NEW m \in 0 .. n, m # 0 => m - 1 \in Good
      PROVE  m \in Good
  <2>1. CASE m = 0
    <3> DEFINE f == [i \in 0 .. 0 |-> TRUE]
    <3>1. IsJoin(f, 0, skip, ors, true)
      BY DEF IsJoin
    <3> QED
      BY <2>1, <3>1
  <2>2. CASE m # 0
    <3>1. PICK f : IsJoin(f, m - 1, skip, ors, true)
      BY <1>1, <2>2
    <3> DEFINE last == IF m \in skip THEN f[m - 1]
                       ELSE IF m \in ors THEN f[m - 1] \/ m \in true ELSE f[m - 1] /\ m \in true
               g == [i \in 0 .. m |-> IF i = m THEN last ELSE f[i]]
    <3>2. f[m - 1] \in BOOLEAN
      BY <2>2, <3>1 DEF IsJoin
    <3>3. last \in BOOLEAN
      BY <3>2
    <3> HIDE DEF last
    <3>a. f \in [0 .. m - 1 -> BOOLEAN] /\ f[0]
      BY <3>1 DEF IsJoin
    <3>b. m \in 0 .. m /\ 0 \in 0 .. m - 1 /\ \A i \in 0 .. m : i # m => i \in 0 .. m - 1
      BY <2>2
    <3>c. g[m] = last /\ \A i \in 0 .. m - 1 : g[i] = f[i]
      BY <3>b
    <3>d. \A i \in 0 .. m : (IF i = m THEN last ELSE f[i]) \in BOOLEAN
      BY <3>3, <3>a, <3>b
    <3>4. g \in [0 .. m -> BOOLEAN] /\ g[0] /\ g[m] = last /\ \A i \in 0 .. m - 1 : g[i] = f[i]
      BY <3>a, <3>b, <3>c, <3>d
    <3> HIDE DEF g
    <3>5. ASSUME NEW i \in 1 .. m
          PROVE  g[i] = IF i \in skip THEN g[i - 1]
                        ELSE IF i \in ors THEN g[i - 1] \/ i \in true ELSE g[i - 1] /\ i \in true
      <4>1. CASE i = m
        <5>1. g[i - 1] = f[m - 1]
          BY <2>2, <3>4, <4>1
        <5> QED
          BY <3>4, <4>1, <5>1 DEF last
      <4>2. CASE i # m
        <5>1. i \in 1 .. m - 1 /\ i - 1 \in 0 .. m - 1
          BY <4>2
        <5>2. f[i] = IF i \in skip THEN f[i - 1]
                     ELSE IF i \in ors THEN f[i - 1] \/ i \in true ELSE f[i - 1] /\ i \in true
          BY <3>1, <5>1 DEF IsJoin
        <5>3. g[i] = f[i] /\ g[i - 1] = f[i - 1]
          BY <3>4, <5>1
        <5> QED
          BY <5>2, <5>3
      <4> QED
        BY <4>1, <4>2
    <3>6. IsJoin(g, m, skip, ors, true)
      BY <3>4, <3>5 DEF IsJoin
    <3> QED
      BY <3>6
  <2> QED
    BY <2>1, <2>2
<1> HIDE DEF Good
<1>2. n \in Good
  BY <1>1, CountingUp
<1> QED
  BY <1>2 DEF Good

(* Where nothing is joined by OR, everything that is joined has to hold.   *)
LEMMA JoinedByAnd ==
  ASSUME NEW n \in Nat, NEW skip, NEW ors, NEW true, NEW f, IsJoin(f, n, skip, ors, true),
         \A i \in 1 .. n : i \in ors => i \in skip
  PROVE  f[n] <=> \A i \in 1 .. n : i \in skip \/ i \in true
<1> DEFINE Good == {m \in 0 .. n : f[m] <=> \A i \in 1 .. m : i \in skip \/ i \in true}
<1>1. ASSUME NEW m \in 0 .. n, m # 0 => m - 1 \in Good
      PROVE  m \in Good
  <2>1. CASE m = 0
    BY <2>1 DEF IsJoin
  <2>2. CASE m # 0
    <3>1. f[m - 1] <=> \A i \in 1 .. m - 1 : i \in skip \/ i \in true
      BY <1>1, <2>2
    <3>2. f[m] = IF m \in skip THEN f[m - 1] ELSE f[m - 1] /\ m \in true
      BY <2>2 DEF IsJoin
    <3>3. f[m - 1] \in BOOLEAN /\ f[m] \in BOOLEAN
      BY <2>2 DEF IsJoin
    <3>4. (\A i \in 1 .. m : i \in skip \/ i \in true)
            <=> (\A i \in 1 .. m - 1 : i \in skip \/ i \in true) /\ (m \in skip \/ m \in true)
      BY <2>2
    <3>5. f[m] <=> f[m - 1] /\ (m \in skip \/ m \in true)
      BY <3>2, <3>3
    <3> QED
      BY <3>1, <3>4, <3>5
  <2> QED
    BY <2>1, <2>2
<1> HIDE DEF Good
<1>2. n \in Good
  BY <1>1, CountingUp
<1> QED
  BY <1>2 DEF Good

(* Where everything that is joined holds, so does the whole.               *)
LEMMA JoinOfTrue ==
  ASSUME NEW n \in Nat, NEW skip, NEW ors, NEW true, NEW f, IsJoin(f, n, skip, ors, true),
         \A i \in 1 .. n : i \in skip \/ i \in true
  PROVE  f[n] = TRUE
<1> DEFINE Good == {m \in 0 .. n : f[m] = TRUE}
<1>1. ASSUME NEW m \in 0 .. n, m # 0 => m - 1 \in Good
      PROVE  m \in Good
  <2>1. CASE m = 0
    BY <2>1 DEF IsJoin
  <2>2. CASE m # 0
    <3>1. f[m - 1] = TRUE
      BY <1>1, <2>2
    <3>2. m \in 1 .. n
      BY <2>2
    <3> QED
      BY <3>1, <3>2 DEF IsJoin
  <2> QED
    BY <2>1, <2>2
<1> HIDE DEF Good
<1>2. n \in Good
  BY <1>1, CountingUp
<1> QED
  BY <1>2 DEF Good

(* Joins of the same filters are the same.                                 *)
LEMMA JoinsAgree ==
  ASSUME NEW n \in Nat, NEW skip, NEW ors, NEW true, NEW f, IsJoin(f, n, skip, ors, true),
         NEW skip2, NEW ors2, NEW true2, NEW g, IsJoin(g, n, skip2, ors2, true2),
         \A i \in 1 .. n : /\ i \in skip <=> i \in skip2
                           /\ i \in ors <=> i \in ors2
                           /\ i \in true <=> i \in true2
  PROVE  f[n] = g[n]
<1> DEFINE Good == {m \in 0 .. n : f[m] = g[m]}
<1>1. ASSUME NEW m \in 0 .. n, m # 0 => m - 1 \in Good
      PROVE  m \in Good
  <2>1. CASE m = 0
    BY <2>1 DEF IsJoin
  <2>2. CASE m # 0
    <3>1. f[m - 1] = g[m - 1]
      BY <1>1, <2>2
    <3>2. m \in 1 .. n
      BY <2>2
    <3> QED
      BY <3>1, <3>2 DEF IsJoin
  <2> QED
    BY <2>1, <2>2
<1> HIDE DEF Good
<1>2. n \in Good
  BY <1>1, CountingUp
<1> QED
  BY <1>2 DEF Good

----------------------------------------------------------------------------
(* What a question is, as the parser makes it.                             *)
IsQuestion(q) ==
  /\ q.where \in Seq(ToSet(q.where)) /\ \A filter \in ToSet(q.where) : filter.on \in {"dimension", "measure"}
  /\ DOMAIN q.connectors = 1 .. Len(q.where) - 1
  /\ IsFiniteSet(q.functions) /\ \A f \in q.functions : f.offset \in Nat
  /\ {q.from.unit, q.from.index, q.to.unit, q.to.index} \subseteq Nat

Size(q) == Len(q.where)
Skipped(q, kind) == (1 .. Len(q.where)) \ Of(q, kind)
Nth(q, kind, i) == Cardinality({j \in Of(q, kind) : j < i})
OrsOf(q, kind) ==
  {i \in 1 .. Len(q.where) :
     Nth(q, kind, i) \in DOMAIN q.connectors /\ q.connectors[Nth(q, kind, i)] = "OR"}
OrsOfAll(q) == {i \in 1 .. Len(q.where) : i > 1 /\ q.connectors[i - 1] = "OR"}

LEMMA FiltersAre ==
  ASSUME NEW q, IsQuestion(q)
  PROVE  /\ Size(q) \in Nat /\ Size(q) = Len(q.where) /\ DOMAIN q.where = 1 .. Size(q)
         /\ \A i \in 1 .. Size(q) : q.where[i] \in ToSet(q.where) /\ q.where[i].on \in {"dimension", "measure"}
         /\ \A kind : Of(q, kind) \subseteq 1 .. Size(q)
         /\ Of(q, "dimension") \cup Of(q, "measure") = 1 .. Size(q)
         /\ Of(q, "dimension") \cap Of(q, "measure") = {}
<1>1. Size(q) \in Nat /\ DOMAIN q.where = 1 .. Size(q)
  BY DEF IsQuestion, Size
<1>2. \A i \in 1 .. Size(q) : q.where[i] \in ToSet(q.where)
  BY <1>1 DEF ToSet
<1>3. \A i \in 1 .. Size(q) : q.where[i].on \in {"dimension", "measure"}
  BY <1>2 DEF IsQuestion
<1> QED
  BY <1>1, <1>2, <1>3 DEF Of, Size

(* The chain of the filters of a kind, and of all of them, are joins.      *)
LEMMA CombineIsJoin ==
  ASSUME NEW q, IsQuestion(q), NEW kind, NEW true
  PROVE  \E f : /\ IsJoin(f, Size(q), Skipped(q, kind), OrsOf(q, kind), true)
                /\ CombinePredicates(q, kind, true) = f[Size(q)]
<1> DEFINE n == Len(q.where)
           P(f) == f = [i \in 0 .. n |->
             CASE i \notin Of(q, kind) -> i = 0 \/ f[i - 1]
               [] i \in Of(q, kind) /\ Nth(q, kind, i) \in DOMAIN q.connectors
                    /\ q.connectors[Nth(q, kind, i)] = "OR" -> f[i - 1] \/ i \in true
               [] OTHER -> f[i - 1] /\ i \in true]
           joined == CHOOSE f : P(f)
<1>1. n \in Nat /\ n = Size(q) /\ Of(q, kind) \subseteq 1 .. n
  BY FiltersAre DEF Size
<1>2. CombinePredicates(q, kind, true) = joined[n]
  BY DEF CombinePredicates, Nth
<1>3. ASSUME NEW f
      PROVE  P(f) <=> IsJoin(f, n, Skipped(q, kind), OrsOf(q, kind), true)
  <2> DEFINE body(i) ==
               CASE i \notin Of(q, kind) -> i = 0 \/ f[i - 1]
                 [] i \in Of(q, kind) /\ Nth(q, kind, i) \in DOMAIN q.connectors
                      /\ q.connectors[Nth(q, kind, i)] = "OR" -> f[i - 1] \/ i \in true
                 [] OTHER -> f[i - 1] /\ i \in true
             step(i) == IF i \in Skipped(q, kind) THEN f[i - 1]
                        ELSE IF i \in OrsOf(q, kind) THEN f[i - 1] \/ i \in true ELSE f[i - 1] /\ i \in true
  <2>1. P(f) <=> f = [i \in 0 .. n |-> body(i)]
    OBVIOUS
  <2>2. body(0) = TRUE
    <3>1. 0 \notin Of(q, kind)
      BY <1>1
    <3>2. body(0) = (0 = 0 \/ f[0 - 1])
      BY <3>1
    <3> QED
      BY <3>2
  <2>3. \A i \in 0 .. n : body(i) \in BOOLEAN
    OBVIOUS
  <2>4. ASSUME NEW i \in 1 .. n, f[i - 1] \in BOOLEAN PROVE body(i) = step(i)
    BY <2>4, <1>1 DEF Skipped, OrsOf
  <2>5. IsJoin(f, n, Skipped(q, kind), OrsOf(q, kind), true)
          <=> f \in [0 .. n -> BOOLEAN] /\ f[0] /\ \A i \in 1 .. n : f[i] = step(i)
    BY DEF IsJoin
  <2> HIDE DEF body, step, P
  <2>6. ASSUME P(f) PROVE IsJoin(f, n, Skipped(q, kind), OrsOf(q, kind), true)
    <3>1. f \in [0 .. n -> BOOLEAN] /\ \A i \in 0 .. n : f[i] = body(i)
      BY <2>1, <2>3, <2>6
    <3>2. \A i \in 1 .. n : f[i - 1] \in BOOLEAN
      BY <1>1, <3>1
    <3> QED
      BY <1>1, <2>2, <2>4, <2>5, <3>1, <3>2
  <2>7. ASSUME IsJoin(f, n, Skipped(q, kind), OrsOf(q, kind), true) PROVE P(f)
    <3>1. f \in [0 .. n -> BOOLEAN] /\ f[0] /\ \A i \in 1 .. n : f[i] = step(i)
      BY <2>5, <2>7
    <3>2. \A i \in 1 .. n : f[i - 1] \in BOOLEAN
      BY <1>1, <3>1
    <3>3. f[0] = TRUE
      BY <1>1, <3>1
    <3>4. ASSUME NEW i \in 0 .. n PROVE f[i] = body(i)
      <4>1. CASE i = 0
        BY <2>2, <3>3, <4>1
      <4>2. CASE i # 0
        <5>1. i \in 1 .. n
          BY <1>1, <4>2
        <5>2. body(i) = step(i) /\ f[i] = step(i)
          BY <2>4, <3>1, <3>2, <5>1
        <5> QED
          BY <5>2
      <4> QED
        BY <4>1, <4>2
    <3> QED
      BY <2>1, <3>1, <3>4
  <2> QED
    BY <2>6, <2>7
<1>4. PICK f : IsJoin(f, n, Skipped(q, kind), OrsOf(q, kind), true)
  BY <1>1, JoinExists
<1> HIDE DEF P
<1>5. P(joined)
  BY <1>3, <1>4
<1> QED
  BY <1>1, <1>2, <1>3, <1>5

LEMMA HoldsIsJoin ==
  ASSUME NEW q, IsQuestion(q), NEW true
  PROVE  \E f : IsJoin(f, Size(q), {}, OrsOfAll(q), true) /\ Holds(q, true) = f[Size(q)]
<1> DEFINE n == Len(q.where)
           P(f) == f = [i \in 0 .. n |->
             CASE i = 0 -> TRUE
               [] i > 1 /\ q.connectors[i - 1] = "OR" -> f[i - 1] \/ i \in true
               [] OTHER -> f[i - 1] /\ i \in true]
           upTo == CHOOSE f : P(f)
<1>1. n \in Nat /\ n = Size(q)
  BY FiltersAre DEF Size
<1>2. Holds(q, true) = upTo[n]
  BY DEF Holds
<1>3. ASSUME NEW f
      PROVE  P(f) <=> IsJoin(f, n, {}, OrsOfAll(q), true)
  <2> DEFINE body(i) ==
               CASE i = 0 -> TRUE
                 [] i > 1 /\ q.connectors[i - 1] = "OR" -> f[i - 1] \/ i \in true
                 [] OTHER -> f[i - 1] /\ i \in true
             step(i) == IF i \in {} THEN f[i - 1]
                        ELSE IF i \in OrsOfAll(q) THEN f[i - 1] \/ i \in true ELSE f[i - 1] /\ i \in true
  <2>1. P(f) <=> f = [i \in 0 .. n |-> body(i)]
    OBVIOUS
  <2>2. body(0) = TRUE
    BY <1>1
  <2>3. \A i \in 0 .. n : body(i) \in BOOLEAN
    OBVIOUS
  <2>4. ASSUME NEW i \in 1 .. n, f[i - 1] \in BOOLEAN PROVE body(i) = step(i)
    BY <2>4, <1>1 DEF OrsOfAll
  <2>5. IsJoin(f, n, {}, OrsOfAll(q), true)
          <=> f \in [0 .. n -> BOOLEAN] /\ f[0] /\ \A i \in 1 .. n : f[i] = step(i)
    BY DEF IsJoin
  <2> HIDE DEF body, step, P
  <2>6. ASSUME P(f) PROVE IsJoin(f, n, {}, OrsOfAll(q), true)
    <3>1. f \in [0 .. n -> BOOLEAN] /\ \A i \in 0 .. n : f[i] = body(i)
      BY <2>1, <2>3, <2>6
    <3>2. \A i \in 1 .. n : f[i - 1] \in BOOLEAN
      BY <1>1, <3>1
    <3> QED
      BY <1>1, <2>2, <2>4, <2>5, <3>1, <3>2
  <2>7. ASSUME IsJoin(f, n, {}, OrsOfAll(q), true) PROVE P(f)
    <3>1. f \in [0 .. n -> BOOLEAN] /\ f[0] /\ \A i \in 1 .. n : f[i] = step(i)
      BY <2>5, <2>7
    <3>2. \A i \in 1 .. n : f[i - 1] \in BOOLEAN
      BY <1>1, <3>1
    <3>3. f[0] = TRUE
      BY <1>1, <3>1
    <3>4. ASSUME NEW i \in 0 .. n PROVE f[i] = body(i)
      <4>1. CASE i = 0
        BY <2>2, <3>3, <4>1
      <4>2. CASE i # 0
        <5>1. i \in 1 .. n
          BY <1>1, <4>2
        <5>2. body(i) = step(i) /\ f[i] = step(i)
          BY <2>4, <3>1, <3>2, <5>1
        <5> QED
          BY <5>2
      <4> QED
        BY <4>1, <4>2
    <3> QED
      BY <2>1, <3>1, <3>4
  <2> QED
    BY <2>6, <2>7
<1>4. PICK f : IsJoin(f, n, {}, OrsOfAll(q), true)
  BY <1>1, JoinExists
<1> HIDE DEF P
<1>5. P(upTo)
  BY <1>3, <1>4
<1> QED
  BY <1>1, <1>2, <1>3, <1>5

(* Validation: an OR joins filters of one kind only.                       *)
LEMMA OrJoinsOneKind ==
  ASSUME NEW q, IsQuestion(q), ValidateQuery(q), "OR" \in ToSet(q.connectors)
  PROVE  Of(q, "dimension") = {} \/ Of(q, "measure") = {}
<1> DEFINE kinds == {filter.on : filter \in ToSet(q.where)}
<1>1. Cardinality(kinds) = 1
  BY DEF ValidateQuery
<1>2. kinds \subseteq {"dimension", "measure"}
  BY DEF IsQuestion
<1>3. IsFiniteSet({"dimension", "measure"})
  <2>1. IsFiniteSet({"dimension"})
    BY FS_Singleton
  <2>2. {"dimension", "measure"} = {"dimension"} \cup {"measure"}
    OBVIOUS
  <2> QED
    BY <2>1, <2>2, FS_AddElement
<1>4. IsFiniteSet(kinds)
  BY <1>2, <1>3, FS_Subset
<1>5. \A i \in 1 .. Size(q) : q.where[i].on \in kinds
  BY FiltersAre
<1> HIDE DEF kinds
<1>6. PICK kind : kinds = {kind}
  BY <1>1, <1>4, FS_Singleton
<1> QED
  BY <1>5, <1>6, FiltersAre DEF Of

LEMMA NthOfOneKind ==
  ASSUME NEW q, IsQuestion(q), NEW kind, Of(q, kind) = 1 .. Size(q), NEW i \in 1 .. Size(q)
  PROVE  Nth(q, kind, i) = i - 1
<1>1. Size(q) \in Nat
  BY FiltersAre
<1>2. {j \in Of(q, kind) : j < i} = 1 .. i - 1
  BY <1>1
<1>3. Cardinality(1 .. i - 1) = i - 1
  BY <1>1, FS_Interval
<1> QED
  BY <1>2, <1>3 DEF Nth

(* All filters are of one kind: what is left is the formula as written.    *)
LEMMA OneKindHolds ==
  ASSUME NEW q, IsQuestion(q), NEW kind, Of(q, kind) = 1 .. Size(q), NEW true
  PROVE  CombinePredicates(q, kind, true) = Holds(q, true)
<1>1. PICK f : /\ IsJoin(f, Size(q), Skipped(q, kind), OrsOf(q, kind), true)
               /\ CombinePredicates(q, kind, true) = f[Size(q)]
  BY CombineIsJoin
<1>2. PICK g : IsJoin(g, Size(q), {}, OrsOfAll(q), true) /\ Holds(q, true) = g[Size(q)]
  BY HoldsIsJoin
<1>3. Size(q) \in Nat /\ Size(q) = Len(q.where)
  BY FiltersAre
<1>4. ASSUME NEW i \in 1 .. Size(q)
      PROVE  /\ i \in Skipped(q, kind) <=> i \in {}
             /\ i \in OrsOf(q, kind) <=> i \in OrsOfAll(q)
  <2>1. Nth(q, kind, i) = i - 1
    BY NthOfOneKind
  <2>2. i - 1 \in DOMAIN q.connectors <=> i > 1
    BY <1>3 DEF IsQuestion
  <2> QED
    BY <1>3, <2>1, <2>2 DEF Skipped, OrsOf, OrsOfAll
<1>5. f[Size(q)] = g[Size(q)]
  BY <1>1, <1>2, <1>3, <1>4, JoinsAgree
<1> QED
  BY <1>1, <1>2, <1>5

(* No filter is of the kind: nothing is asked.                             *)
LEMMA NoKindHolds ==
  ASSUME NEW q, IsQuestion(q), NEW kind, Of(q, kind) = {}, NEW true
  PROVE  CombinePredicates(q, kind, true) = TRUE
<1>1. PICK f : /\ IsJoin(f, Size(q), Skipped(q, kind), OrsOf(q, kind), true)
               /\ CombinePredicates(q, kind, true) = f[Size(q)]
  BY CombineIsJoin
<1>2. Size(q) \in Nat /\ \A i \in 1 .. Size(q) : i \in Skipped(q, kind) \/ i \in true
  BY FiltersAre DEF Skipped, Size
<1> QED
  BY <1>1, <1>2, JoinOfTrue

LEMMA AllHold ==
  ASSUME NEW q, IsQuestion(q), NEW true, 1 .. Size(q) \subseteq true
  PROVE  Holds(q, true) = TRUE
<1>1. PICK g : IsJoin(g, Size(q), {}, OrsOfAll(q), true) /\ Holds(q, true) = g[Size(q)]
  BY HoldsIsJoin
<1> QED
  BY <1>1, FiltersAre, JoinOfTrue

(* No OR anywhere: every filter has to hold.                               *)
LEMMA AndOfAKind ==
  ASSUME NEW q, IsQuestion(q), "OR" \notin ToSet(q.connectors), NEW kind, NEW true
  PROVE  CombinePredicates(q, kind, true) <=> Of(q, kind) \subseteq true
<1>1. PICK f : /\ IsJoin(f, Size(q), Skipped(q, kind), OrsOf(q, kind), true)
               /\ CombinePredicates(q, kind, true) = f[Size(q)]
  BY CombineIsJoin
<1>2. Size(q) \in Nat /\ Size(q) = Len(q.where) /\ Of(q, kind) \subseteq 1 .. Size(q)
  BY FiltersAre
<1>3. OrsOf(q, kind) = {}
  BY DEF OrsOf, ToSet
<1>4. f[Size(q)] <=> \A i \in 1 .. Size(q) : i \in Skipped(q, kind) \/ i \in true
  BY <1>1, <1>2, <1>3, JoinedByAnd
<1>5. (\A i \in 1 .. Size(q) : i \in Skipped(q, kind) \/ i \in true) <=> Of(q, kind) \subseteq true
  BY <1>2 DEF Skipped
<1> QED
  BY <1>1, <1>4, <1>5

LEMMA AndOfAll ==
  ASSUME NEW q, IsQuestion(q), "OR" \notin ToSet(q.connectors), NEW true
  PROVE  Holds(q, true) <=> 1 .. Size(q) \subseteq true
<1>1. PICK g : IsJoin(g, Size(q), {}, OrsOfAll(q), true) /\ Holds(q, true) = g[Size(q)]
  BY HoldsIsJoin
<1>2. Size(q) \in Nat /\ Size(q) = Len(q.where)
  BY FiltersAre
<1>3. OrsOfAll(q) = {}
  <2>1. \A i \in 1 .. Size(q) : i > 1 => i - 1 \in DOMAIN q.connectors
    BY <1>2 DEF IsQuestion
  <2>2. \A j \in DOMAIN q.connectors : q.connectors[j] # "OR"
    BY DEF ToSet
  <2> QED
    BY <1>2, <2>1, <2>2 DEF OrsOfAll
<1>4. g[Size(q)] <=> \A i \in 1 .. Size(q) : i \in {} \/ i \in true
  BY <1>1, <1>2, <1>3, JoinedByAnd
<1> QED
  BY <1>1, <1>4

(* The filters in WHERE are those of the formula that the row decides, and *)
(* on the rows they let in, those in HAVING decide the rest.               *)
MayPass(q, key) == Holds(q, Admitting(q, key) \cup Of(q, "measure"))

LEMMA FiltersSplit ==
  ASSUME NEW q, IsQuestion(q), ValidateQuery(q), NEW key
  PROVE  /\ CombinePredicates(q, "dimension", Admitting(q, key)) <=> MayPass(q, key)
         /\ MayPass(q, key) =>
              \A reached \in SUBSET Of(q, "measure") :
                CombinePredicates(q, "measure", reached) <=> Holds(q, Admitting(q, key) \cup reached)
<1> DEFINE D == Of(q, "dimension")
           M == Of(q, "measure")
           admitting == Admitting(q, key)
<1>1. D \cup M = 1 .. Size(q) /\ D \cap M = {} /\ admitting \subseteq D
  BY FiltersAre DEF Admitting
<1>2. CASE "OR" \notin ToSet(q.connectors)
  <2>1. CombinePredicates(q, "dimension", admitting) <=> D \subseteq admitting
    BY <1>2, AndOfAKind
  <2>2. MayPass(q, key) <=> 1 .. Size(q) \subseteq admitting \cup M
    BY <1>2, AndOfAll DEF MayPass
  <2>3. 1 .. Size(q) \subseteq admitting \cup M <=> D \subseteq admitting
    BY <1>1
  <2>4. ASSUME NEW reached \in SUBSET M, D \subseteq admitting
        PROVE  CombinePredicates(q, "measure", reached) <=> Holds(q, admitting \cup reached)
    <3>1. CombinePredicates(q, "measure", reached) <=> M \subseteq reached
      BY <1>2, AndOfAKind
    <3>2. Holds(q, admitting \cup reached) <=> 1 .. Size(q) \subseteq admitting \cup reached
      BY <1>2, AndOfAll
    <3>3. 1 .. Size(q) \subseteq admitting \cup reached <=> M \subseteq reached
      BY <1>1, <2>4
    <3> QED
      BY <3>1, <3>2, <3>3
  <2> QED
    BY <2>1, <2>2, <2>3, <2>4
<1>3. CASE M = {}
  <2>1. CombinePredicates(q, "dimension", admitting) = Holds(q, admitting)
    BY <1>1, <1>3, OneKindHolds
  <2>2. admitting \cup M = admitting
    BY <1>3
  <2>3. ASSUME NEW reached \in SUBSET M, MayPass(q, key)
        PROVE  CombinePredicates(q, "measure", reached) <=> Holds(q, admitting \cup reached)
    <3>1. CombinePredicates(q, "measure", reached) = TRUE
      BY <1>3, NoKindHolds
    <3>2. admitting \cup reached = admitting \cup M
      BY <1>3
    <3> QED
      BY <2>3, <3>1, <3>2 DEF MayPass
  <2> QED
    BY <2>1, <2>2, <2>3 DEF MayPass
<1>4. CASE D = {}
  <2>1. CombinePredicates(q, "dimension", admitting) = TRUE
    BY <1>4, NoKindHolds
  <2>2. MayPass(q, key) = TRUE
    <3>1. 1 .. Size(q) \subseteq admitting \cup M
      BY <1>1, <1>4
    <3> QED
      BY <3>1, AllHold DEF MayPass
  <2>3. ASSUME NEW reached \in SUBSET M
        PROVE  CombinePredicates(q, "measure", reached) <=> Holds(q, admitting \cup reached)
    <3>1. CombinePredicates(q, "measure", reached) = Holds(q, reached)
      BY <1>1, <1>4, OneKindHolds
    <3>2. admitting \cup reached = reached
      BY <1>1, <1>4
    <3> QED
      BY <3>1, <3>2
  <2> QED
    BY <2>1, <2>2, <2>3
<1> QED
  BY <1>2, <1>3, <1>4, OrJoinsOneKind

----------------------------------------------------------------------------
(* Keys and the scope taken inside the vintage subquery: a row supersedes  *)
(* rows of its own key only, so they admit the rows they would outside.    *)
LEMMA SourceWithin ==
  ASSUME NEW R, \A r \in R : r.key \in Keys, NEW K \in SUBSET Keys, NEW vintage
  PROVE  Live(ActualSource(R, K, vintage)) = {r \in Live(ActualSource(R, Keys, vintage)) : r.key \in K}
<1>1. \A r, s \in R : Supersedes(s, r) => s.key = r.key
  BY DEF Supersedes
<1>2. \A r : r \in ActualSource(R, K, vintage)
               <=> /\ r \in R /\ r.key \in K /\ r.version <= vintage
                   /\ \A s \in R : s.key \in K /\ s.version <= vintage => ~Supersedes(s, r)
  BY DEF ActualSource
<1>3. \A r : r \in ActualSource(R, Keys, vintage)
               <=> /\ r \in R /\ r.version <= vintage
                   /\ \A s \in R : s.version <= vintage => ~Supersedes(s, r)
  BY DEF ActualSource
<1>4. \A r : r \in ActualSource(R, K, vintage) <=> r \in ActualSource(R, Keys, vintage) /\ r.key \in K
  BY <1>1, <1>2, <1>3
<1> QED
  BY <1>4 DEF Live

(* The rows a question may count, of all months.                           *)
ReadBy(q, scope, R, vintage) ==
  {r \in Live(ActualSource(R, Keys, vintage)) : r.key \in UserKeys(q) /\ r.key \in ScopeKeys(scope)}

In(S, K) == {r \in S : r.key \in K}

LEMMA ReadWithin ==
  ASSUME NEW R, \A r \in R : r.key \in Keys, NEW q, NEW scope, NEW vintage, NEW K \in SUBSET Keys
  PROVE  Live(ActualSource(R, UserKeys(q) \cap K \cap ScopeKeys(scope), vintage))
           = In(ReadBy(q, scope, R, vintage), K)
<1> DEFINE keys == UserKeys(q) \cap K \cap ScopeKeys(scope)
<1>1. keys \in SUBSET Keys
  OBVIOUS
<1> HIDE DEF keys
<1>2. Live(ActualSource(R, keys, vintage)) = {r \in Live(ActualSource(R, Keys, vintage)) : r.key \in keys}
  BY <1>1, SourceWithin
<1>3. Live(ActualSource(R, keys, vintage)) = In(ReadBy(q, scope, R, vintage), K)
  BY <1>2 DEF keys, In, ReadBy
<1> QED
  BY <1>3 DEF keys

LEMMA SeenAndMayPass ==
  ASSUME NEW q, IsQuestion(q), ValidateQuery(q), NEW R, \A r \in R : r.key \in Keys, NEW scope, NEW vintage
  PROVE  /\ \A r \in Seen(R, scope, vintage) : r.key \in Keys
         /\ {r \in Seen(R, scope, vintage) : MayPass(q, r.key)} = ReadBy(q, scope, R, vintage)
<1>1. \A r \in Live(ActualSource(R, Keys, vintage)) : r.key \in Keys
  BY DEF Live, ActualSource
<1>2. \A k \in Keys : k \in UserKeys(q) <=> MayPass(q, k)
  BY FiltersSplit DEF UserKeys
<1> QED
  BY <1>1, <1>2 DEF Seen, ReadBy, ScopeKeys

(* The rows of a row's cell, and the rows whose cells HAVING keeps.        *)
Cell(q, S, r) == {other \in S : CellOf(q, other.key) = CellOf(q, r.key)}
Kept(q, S) == {r \in S : Having(q, Cell(q, S, r))}

LEMMA CountedIs ==
  ASSUME NEW q, IsQuestion(q), ValidateQuery(q), NEW S, NEW T, T = {r \in S : MayPass(q, r.key)}
  PROVE  Counted(q, S) = Kept(q, T)
<1>1. \A U : Reached(q, U) \in SUBSET Of(q, "measure")
  BY DEF Reached
<1>2. \A r \in T : \A U : Having(q, U) <=> Holds(q, Admitting(q, r.key) \cup Reached(q, U))
  BY <1>1, FiltersSplit DEF Having
<1>3. Counted(q, S) = {r \in T : Holds(q, Admitting(q, r.key) \cup Reached(q, Cell(q, T, r)))}
  BY DEF Counted, MayPass, Cell
<1> QED
  BY <1>2, <1>3 DEF Kept

(* HAVING keeps a cell whole.                                              *)
LEMMA CellIsKeptWhole ==
  ASSUME NEW q, NEW S, NEW r \in Kept(q, S)
  PROVE  Cell(q, Kept(q, S), r) = Cell(q, S, r)
<1>1. \A other \in Cell(q, S, r) : Cell(q, S, other) = Cell(q, S, r)
  BY DEF Cell
<1>2. \A other \in Cell(q, S, r) : other \in Kept(q, S)
  BY <1>1 DEF Kept, Cell
<1> QED
  BY <1>2 DEF Kept, Cell

Groups(q, S) == {[group |-> GroupOf(q, r.key), rows |-> Cell(q, S, r)] : r \in Kept(q, S)}
Series(q, S) ==
  {[group |-> GroupOf(q, r.key), month |-> KeyInfo[r.key].month, rows |-> Cell(q, S, r)] : r \in Kept(q, S)}

(* The meaning of a question, by the rows of a cell.                       *)
LEMMA CellsOfCounted ==
  ASSUME NEW q, NEW S, NEW counted, counted = Kept(q, S)
  PROVE  LET rowsOf(c) == {r \in counted : CellOf(q, r.key) = c}
             cells == {CellOf(q, r.key) : r \in counted}
         IN /\ {[group |-> c.group, rows |-> rowsOf(c)] : c \in cells} = Groups(q, S)
            /\ IsMonthly(q) => {[group |-> c.group, month |-> c.month, rows |-> rowsOf(c)] : c \in cells} = Series(q, S)
<1> DEFINE rowsOf(c) == {r \in counted : CellOf(q, r.key) = c}
           cells == {CellOf(q, r.key) : r \in counted}
<1>1. ASSUME NEW r \in counted
      PROVE  /\ rowsOf(CellOf(q, r.key)) = Cell(q, S, r)
             /\ CellOf(q, r.key).group = GroupOf(q, r.key)
             /\ IsMonthly(q) => CellOf(q, r.key).month = KeyInfo[r.key].month
  <2>1. rowsOf(CellOf(q, r.key)) = Cell(q, Kept(q, S), r)
    BY DEF Cell
  <2> QED
    BY <2>1, CellIsKeptWhole DEF CellOf
<1> HIDE DEF rowsOf
<1>2. {[group |-> c.group, rows |-> rowsOf(c)] : c \in cells}
        = {[group |-> CellOf(q, r.key).group, rows |-> rowsOf(CellOf(q, r.key))] : r \in counted}
  OBVIOUS
<1>3. {[group |-> c.group, month |-> c.month, rows |-> rowsOf(c)] : c \in cells}
        = {[group |-> CellOf(q, r.key).group, month |-> CellOf(q, r.key).month, rows |-> rowsOf(CellOf(q, r.key))]
             : r \in counted}
  OBVIOUS
<1>4. {[group |-> c.group, rows |-> rowsOf(c)] : c \in cells} = Groups(q, S)
  BY <1>1, <1>2 DEF Groups
<1>5. IsMonthly(q) => {[group |-> c.group, month |-> c.month, rows |-> rowsOf(c)] : c \in cells} = Series(q, S)
  BY <1>1, <1>3 DEF Series
<1> QED
  BY <1>4, <1>5 DEF rowsOf

LEMMA MeaningIs ==
  ASSUME NEW q, IsQuestion(q), ValidateQuery(q), NEW R, \A r \in R : r.key \in Keys, NEW scope, NEW vintage
  PROVE  LET read == ReadBy(q, scope, R, vintage)
         IN /\ IsMonthly(q) => Meaning(q, scope, R, vintage) = WindowsOver(q, Series(q, read))
            /\ ~IsMonthly(q) =>
                 Meaning(q, scope, R, vintage) = Groups(q, In(read, KeysWithin(Before(q), After(q))))
<1> DEFINE read == ReadBy(q, scope, R, vintage)
           seen == Seen(R, scope, vintage)
           K == KeysWithin(Before(q), After(q))
           counted == Counted(q, IF IsMonthly(q) THEN seen ELSE {r \in seen : r.key \in K})
           rowsOf(c) == {r \in counted : CellOf(q, r.key) = c}
           cells == {CellOf(q, r.key) : r \in counted}
<1>1. Meaning(q, scope, R, vintage)
        = IF IsMonthly(q)
          THEN WindowsOver(q, {[group |-> c.group, month |-> c.month, rows |-> rowsOf(c)] : c \in cells})
          ELSE {[group |-> c.group, rows |-> rowsOf(c)] : c \in cells}
  BY DEF Meaning
<1>2. read = {r \in seen : MayPass(q, r.key)}
  BY SeenAndMayPass
<1>3. ASSUME IsMonthly(q) PROVE counted = Kept(q, read)
  BY <1>2, <1>3, CountedIs
<1>4. ASSUME ~IsMonthly(q) PROVE counted = Kept(q, In(read, K))
  <2>1. In(read, K) = {r \in {r \in seen : r.key \in K} : MayPass(q, r.key)}
    BY <1>2 DEF In
  <2> QED
    BY <1>4, <2>1, CountedIs
<1> HIDE DEF counted, read, K
<1>5. ASSUME IsMonthly(q) PROVE Meaning(q, scope, R, vintage) = WindowsOver(q, Series(q, read))
  BY <1>1, <1>3, <1>5, CellsOfCounted
<1>6. ASSUME ~IsMonthly(q) PROVE Meaning(q, scope, R, vintage) = Groups(q, In(read, K))
  BY <1>1, <1>4, <1>6, CellsOfCounted
<1> QED
  BY <1>5, <1>6 DEF read, K

(* What the SQL of a plain question groups, and of a monthly one.          *)
LEMMA PlainIs ==
  ASSUME NEW q, ~IsMonthly(q), NEW R, \A r \in R : r.key \in Keys, NEW scope, NEW vintage
  PROVE  CompilePlain(q, scope, R, vintage)
           = Groups(q, In(ReadBy(q, scope, R, vintage), KeysWithin(Before(q), After(q))))
<1> DEFINE K == KeysWithin(Before(q), After(q))
           read == Live(ActualSource(R, UserKeys(q) \cap K \cap ScopeKeys(scope), vintage))
           group(g) == {r \in read : GroupOf(q, r.key) = g}
<1>1. CompilePlain(q, scope, R, vintage)
        = {[group |-> g, rows |-> group(g)] :
             g \in {GroupOf(q, r.key) : r \in {r \in read : Having(q, group(GroupOf(q, r.key)))}}}
  BY DEF CompilePlain
<1>2. K \in SUBSET Keys
  BY DEF KeysWithin
<1>3. read = In(ReadBy(q, scope, R, vintage), K)
  <2> HIDE DEF K
  <2> QED
    BY <1>2, ReadWithin
<1> HIDE DEF read, K
<1>4. \A r \in read : group(GroupOf(q, r.key)) = Cell(q, read, r)
  BY DEF Cell, CellOf
<1> HIDE DEF group
<1>5. {r \in read : Having(q, group(GroupOf(q, r.key)))} = Kept(q, read)
  BY <1>4 DEF Kept
<1>6. {[group |-> g, rows |-> group(g)] : g \in {GroupOf(q, r.key) : r \in Kept(q, read)}}
        = {[group |-> GroupOf(q, r.key), rows |-> group(GroupOf(q, r.key))] : r \in Kept(q, read)}
  OBVIOUS
<1>7. {[group |-> GroupOf(q, r.key), rows |-> group(GroupOf(q, r.key))] : r \in Kept(q, read)} = Groups(q, read)
  BY <1>4 DEF Groups, Kept
<1> QED
  BY <1>1, <1>3, <1>5, <1>6, <1>7 DEF K

LEMMA SeriesIs ==
  ASSUME NEW q, IsMonthly(q), NEW R, \A r \in R : r.key \in Keys, NEW scope, NEW vintage, NEW start, NEW end
  PROVE  MonthlySeries(q, scope, R, vintage, start, end)
           = Series(q, In(ReadBy(q, scope, R, vintage), KeysWithin(start, end)))
<1> DEFINE K == KeysWithin(start, end)
           read == Live(ActualSource(R, UserKeys(q) \cap K \cap ScopeKeys(scope), vintage))
           at(r) == <<GroupOf(q, r.key), KeyInfo[r.key].month>>
           rowsOf(c) == {r \in read : <<GroupOf(q, r.key), KeyInfo[r.key].month>> = c}
           cells == {<<GroupOf(q, r.key), KeyInfo[r.key].month>> : r \in read}
<1>1. MonthlySeries(q, scope, R, vintage, start, end)
        = {[group |-> c[1], month |-> c[2], rows |-> rowsOf(c)] : c \in {c \in cells : Having(q, rowsOf(c))}}
  BY DEF MonthlySeries
<1>2. K \in SUBSET Keys
  BY DEF KeysWithin
<1>3. read = In(ReadBy(q, scope, R, vintage), K)
  <2> HIDE DEF K
  <2> QED
    BY <1>2, ReadWithin
<1> HIDE DEF read, K
<1>4. \A r \in read : rowsOf(at(r)) = Cell(q, read, r)
  BY DEF Cell, CellOf
<1> HIDE DEF rowsOf
<1>5. {c \in cells : Having(q, rowsOf(c))} = {at(r) : r \in Kept(q, read)}
  BY <1>4 DEF Kept
<1>6. {[group |-> c[1], month |-> c[2], rows |-> rowsOf(c)] : c \in {at(r) : r \in Kept(q, read)}}
        = {[group |-> at(r)[1], month |-> at(r)[2], rows |-> rowsOf(at(r))] : r \in Kept(q, read)}
  OBVIOUS
<1>7. {[group |-> at(r)[1], month |-> at(r)[2], rows |-> rowsOf(at(r))] : r \in Kept(q, read)} = Series(q, read)
  BY <1>4 DEF Series, Kept
<1> QED
  BY <1>1, <1>3, <1>5, <1>6, <1>7 DEF K

(* A range keeps or drops a month's cells whole.                           *)
Between(series, start, end) == {c \in series : start <= c.month /\ c.month < end}

LEMMA SeriesWithin ==
  ASSUME NEW q, IsMonthly(q), NEW S, \A r \in S : r.key \in Keys, NEW start, NEW end
  PROVE  Series(q, In(S, KeysWithin(start, end))) = Between(Series(q, S), start, end)
<1> DEFINE T == In(S, KeysWithin(start, end))
           within(m) == start <= m /\ m < end
<1>1. \A r : r \in T <=> r \in S /\ within(KeyInfo[r.key].month)
  BY DEF In, KeysWithin
<1> HIDE DEF T, within
<1>2. ASSUME NEW r \in T PROVE Cell(q, T, r) = Cell(q, S, r)
  <2>1. \A o : CellOf(q, o.key) = CellOf(q, r.key) => KeyInfo[o.key].month = KeyInfo[r.key].month
    BY DEF CellOf
  <2> QED
    BY <1>1, <2>1 DEF Cell
<1>3. Kept(q, T) = {r \in Kept(q, S) : within(KeyInfo[r.key].month)}
  BY <1>1, <1>2 DEF Kept
<1>4. Series(q, T) = {[group |-> GroupOf(q, r.key), month |-> KeyInfo[r.key].month,
                       rows |-> Cell(q, S, r)] : r \in Kept(q, T)}
  BY <1>2 DEF Series, Kept
<1>5. Series(q, T) = {c \in Series(q, S) : within(c.month)}
  BY <1>3, <1>4 DEF Series
<1> QED
  BY <1>5 DEF T, within, Between

----------------------------------------------------------------------------
(* The greatest of finitely many numbers, and 0.                           *)
LEMMA GreatestIs ==
  ASSUME NEW N \in SUBSET Int, IsFiniteSet(N)
  PROVE  Greatest(N) \in Int /\ Greatest(N) >= 0 /\ \A n \in N : n <= Greatest(N)
<1> DEFINE Good == {T \in SUBSET N : \E n \in T \cup {0} : \A m \in T \cup {0} : n >= m}
<1>1. ASSUME NEW T \in SUBSET N, \A x \in T : T \ {x} \in Good PROVE T \in Good
  <2>1. CASE T = {}
    BY <2>1
  <2>2. CASE T # {}
    <3>1. PICK x : x \in T
      BY <2>2
    <3>2. PICK n \in (T \ {x}) \cup {0} : \A m \in (T \ {x}) \cup {0} : n >= m
      BY <1>1, <3>1
    <3>3. x \in Int /\ n \in Int /\ \A m \in T \cup {0} : m \in Int
      BY <3>1
    <3>4. CASE n >= x
      BY <3>1, <3>2, <3>4
    <3>5. CASE x >= n
      <4>1. \A m \in T \cup {0} : x >= m
        BY <3>1, <3>2, <3>3, <3>5
      <4> QED
        BY <3>1, <4>1
    <3> QED
      BY <3>3, <3>4, <3>5
  <2> QED
    BY <2>1, <2>2
<1> HIDE DEF Good
<1>2. N \in Good
  BY <1>1, SubsetInduction
<1>3. \E n \in N \cup {0} : \A m \in N \cup {0} : n >= m
  BY <1>2 DEF Good
<1>4. Greatest(N) \in N \cup {0} /\ \A m \in N \cup {0} : Greatest(N) >= m
  BY <1>3 DEF Greatest
<1>5. 0 \in N \cup {0} /\ N \subseteq N \cup {0} /\ N \cup {0} \subseteq Int
  OBVIOUS
<1> QED
  BY <1>4, <1>5

Lookbacks(q) == {Lookback(f) : f \in q.functions}
Lookaheads(q) == {OffsetOf(f) : f \in {f \in q.functions : f.name = "LEAD"}}

LEMMA OffsetsAre ==
  ASSUME NEW q, IsQuestion(q), NEW f \in q.functions
  PROVE  OffsetOf(f) \in Nat /\ OffsetOf(f) > 0 /\ Lookback(f) \in Nat
<1>1. f.offset \in Nat
  BY DEF IsQuestion
<1>2. OffsetOf(f) \in Nat /\ OffsetOf(f) > 0
  BY <1>1 DEF OffsetOf
<1> QED
  BY <1>2 DEF Lookback

LEMMA WidenedBy ==
  ASSUME NEW q, IsQuestion(q)
  PROVE  /\ Greatest(Lookbacks(q)) \in Nat /\ \A f \in q.functions : Lookback(f) <= Greatest(Lookbacks(q))
         /\ Greatest(Lookaheads(q)) \in Nat
         /\ \A f \in q.functions : f.name = "LEAD" => OffsetOf(f) <= Greatest(Lookaheads(q))
<1>1. IsFiniteSet(q.functions)
  BY DEF IsQuestion
<1>2. IsFiniteSet(Lookbacks(q)) /\ Lookbacks(q) \in SUBSET Int
  <2> DEFINE g == [f \in q.functions |-> Lookback(f)]
  <2>1. IsFiniteSet({g[f] : f \in q.functions})
    <3> HIDE DEF g
    <3> QED
      BY <1>1, ImageIsFinite
  <2>2. Lookbacks(q) = {g[f] : f \in q.functions}
    BY DEF Lookbacks
  <2> QED
    BY <2>1, <2>2, OffsetsAre DEF Lookbacks
<1>3. IsFiniteSet(Lookaheads(q)) /\ Lookaheads(q) \in SUBSET Int
  <2> DEFINE ahead == {f \in q.functions : f.name = "LEAD"}
             g == [f \in ahead |-> OffsetOf(f)]
  <2>0. IsFiniteSet(ahead)
    BY <1>1, FS_Subset
  <2>1. IsFiniteSet({g[f] : f \in ahead})
    <3> HIDE DEF g, ahead
    <3> QED
      BY <2>0, ImageIsFinite
  <2>2. Lookaheads(q) = {g[f] : f \in ahead}
    BY DEF Lookaheads
  <2>3. \A n \in Lookaheads(q) : n \in Int
    BY OffsetsAre DEF Lookaheads
  <2> QED
    BY <2>1, <2>2, <2>3
<1>4. /\ \A f \in q.functions : Lookback(f) \in Lookbacks(q)
      /\ \A f \in q.functions : f.name = "LEAD" => OffsetOf(f) \in Lookaheads(q)
  BY DEF Lookbacks, Lookaheads
<1> QED
  BY <1>2, <1>3, <1>4, GreatestIs

LEMMA PeriodsAre ==
  ASSUME NEW q, IsQuestion(q)
  PROVE  Before(q) \in Int /\ After(q) \in Int
BY DEF IsQuestion, Before, After, PeriodStart, PeriodEnd

(* The widened range has the months asked for and those of every frame     *)
(* that starts from them.                                                  *)
LEMMA RangeHasFrames ==
  ASSUME NEW q, IsQuestion(q), ValidateQuery(q)
  PROVE  /\ WideStart(q) \in Int /\ WideStart(q) <= Before(q)
         /\ WideEnd(q) \in Int /\ After(q) <= WideEnd(q)
         /\ \A f \in q.functions, at, month \in Int :
              Before(q) <= at /\ at < After(q) /\ InFrame(f, at, month)
                => WideStart(q) <= month /\ month < WideEnd(q)
<1> DEFINE b == Before(q)
           a == After(q)
           back == Greatest(Lookbacks(q))
           ahead == Greatest(Lookaheads(q))
           ytd == \E f \in q.functions : f.name = "YTD"
<1>1. b \in Int /\ a \in Int
  BY PeriodsAre
<1>2. /\ back \in Nat /\ ahead \in Nat
      /\ \A f \in q.functions : Lookback(f) <= back /\ (f.name = "LEAD" => OffsetOf(f) <= ahead)
  BY WidenedBy
<1>3. /\ WideStart(q) = IF ytd /\ b - (b % 12) < b - back THEN b - (b % 12) ELSE b - back
      /\ WideEnd(q) = a + ahead
  BY DEF WideStart, WideEnd, Lookbacks, Lookaheads
<1> HIDE DEF b, a, back, ahead, ytd
<1>4. b % 12 \in 0 .. 11
  BY <1>1
<1>5. /\ WideStart(q) \in Int /\ WideStart(q) <= b - back /\ WideStart(q) <= b
      /\ ytd => WideStart(q) <= b - (b % 12)
      /\ WideEnd(q) \in Int /\ a <= WideEnd(q)
  BY <1>1, <1>2, <1>3, <1>4
<1>6. ASSUME NEW f \in q.functions, NEW at \in Int, NEW month \in Int, b <= at, at < a, InFrame(f, at, month)
      PROVE  WideStart(q) <= month /\ month < WideEnd(q)
  <2>1. OffsetOf(f) \in Nat /\ OffsetOf(f) > 0 /\ Lookback(f) \in Nat /\ Lookback(f) <= back
    BY <1>2, OffsetsAre
  <2>2. CASE f.name = "PRIOR"
    <3>1. Lookback(f) = OffsetOf(f) /\ month = at - OffsetOf(f)
      BY <1>6, <2>2 DEF InFrame, Lookback
    <3> QED
      BY <1>1, <1>2, <1>5, <1>6, <2>1, <3>1
  <2>3. CASE f.name = "LEAD"
    <3>1. month = at + OffsetOf(f) /\ OffsetOf(f) <= ahead
      BY <1>2, <1>6, <2>3 DEF InFrame
    <3> QED
      BY <1>1, <1>2, <1>3, <1>5, <1>6, <2>1, <3>1
  <2>4. CASE f.name = "YOY"
    <3>1. Lookback(f) = 12 /\ month \in {at, at - 12}
      BY <1>6, <2>4 DEF InFrame, Lookback
    <3> QED
      BY <1>1, <1>2, <1>5, <1>6, <2>1, <3>1
  <2>5. CASE f.name = "CAGR"
    <3>1. Lookback(f) = 12 * OffsetOf(f) /\ month \in {at, at - 12 * OffsetOf(f)}
      BY <1>6, <2>5 DEF InFrame, Lookback
    <3> QED
      BY <1>1, <1>2, <1>5, <1>6, <2>1, <3>1
  <2>6. CASE f.name = "ROLLING"
    <3>1. Lookback(f) = OffsetOf(f) - 1 /\ at - (OffsetOf(f) - 1) <= month /\ month <= at
      BY <1>6, <2>6 DEF InFrame, Lookback
    <3> QED
      BY <1>1, <1>2, <1>5, <1>6, <2>1, <3>1
  <2>7. CASE f.name = "YTD"
    <3>1. month \div 12 = at \div 12 /\ month <= at /\ ytd
      BY <1>6, <2>7 DEF InFrame, ytd
    <3>2. b - (b % 12) <= month
      BY <1>1, <1>6, <3>1
    <3> QED
      BY <1>1, <1>5, <1>6, <3>1, <3>2
  <2>8. CASE f.name = "QTD"
    <3>1. Lookback(f) = 2 /\ month \div 3 = at \div 3 /\ month <= at
      BY <1>6, <2>8 DEF InFrame, Lookback
    <3>2. at - 2 <= month
      BY <1>6, <3>1
    <3> QED
      BY <1>1, <1>2, <1>5, <1>6, <2>1, <3>1, <3>2
  <2>9. CASE f.name \notin {"PRIOR", "LEAD", "YOY", "CAGR", "ROLLING", "YTD", "QTD"}
    <3>1. month = at
      BY <1>6, <2>9 DEF InFrame
    <3> QED
      BY <1>1, <1>5, <1>6, <3>1
  <2> QED
    BY <2>2, <2>3, <2>4, <2>5, <2>6, <2>7, <2>8, <2>9
<1> QED
  BY <1>5, <1>6 DEF a, b

(* So windows over the range are windows over all of history.              *)
LEMMA WindowsWithin ==
  ASSUME NEW q, IsQuestion(q), ValidateQuery(q), NEW series, \A c \in series : c.month \in Int
  PROVE  WindowsOver(q, Between(series, WideStart(q), WideEnd(q))) = WindowsOver(q, series)
<1> DEFINE some == Between(series, WideStart(q), WideEnd(q))
           asked == {c \in series : Before(q) <= c.month /\ c.month < After(q)}
           frame(S, c, f) == {d.rows : d \in {d \in S : d.group = c.group /\ InFrame(f, c.month, d.month)}}
           window(S, c) == [group |-> c.group, month |-> c.month, windows |-> [f \in q.functions |-> frame(S, c, f)]]
<1>1. Before(q) \in Int /\ After(q) \in Int
  BY PeriodsAre
<1>2. {c \in some : Before(q) <= c.month /\ c.month < After(q)} = asked
  BY <1>1, RangeHasFrames DEF Between
<1>3. ASSUME NEW c \in asked, NEW f \in q.functions
      PROVE  frame(some, c, f) = frame(series, c, f)
  <2>1. \A d \in series : InFrame(f, c.month, d.month) => d \in some
    BY <1>3, RangeHasFrames DEF Between
  <2>2. some \subseteq series
    BY DEF Between
  <2> QED
    BY <2>1, <2>2
<1>4. WindowsOver(q, some) = {window(some, c) : c \in asked}
  BY <1>2 DEF WindowsOver
<1>5. WindowsOver(q, series) = {window(series, c) : c \in asked}
  BY DEF WindowsOver
<1> HIDE DEF frame, asked, some
<1>6. \A c \in asked : window(some, c) = window(series, c)
  BY <1>3
<1> HIDE DEF window
<1>7. WindowsOver(q, some) = WindowsOver(q, series)
  BY <1>4, <1>5, <1>6
<1> QED
  BY <1>7 DEF some

(* A question that passes validation is answered by what it means.         *)
LEMMA AnswersMean ==
  ASSUME NEW q, IsQuestion(q), ValidateQuery(q), \A r \in rows : r.key \in Keys, NEW scope, NEW vintage
  PROVE  Answer(q, scope, vintage) = Meaning(q, scope, rows, vintage)
<1> DEFINE read == ReadBy(q, scope, rows, vintage)
<1>1. CASE ~IsMonthly(q)
  BY <1>1, PlainIs, MeaningIs DEF Answer
<1>2. CASE IsMonthly(q)
  <2>1. \A r \in read : r.key \in Keys
    BY DEF ReadBy, Live, ActualSource
  <2>2. Answer(q, scope, vintage)
          = WindowsOver(q, Series(q, In(read, KeysWithin(WideStart(q), WideEnd(q)))))
    BY <1>2, SeriesIs DEF Answer, CompileMonthly
  <2>3. Meaning(q, scope, rows, vintage) = WindowsOver(q, Series(q, read))
    BY <1>2, MeaningIs
  <2> HIDE DEF read
  <2>4. Series(q, In(read, KeysWithin(WideStart(q), WideEnd(q)))) = Between(Series(q, read), WideStart(q), WideEnd(q))
    BY <1>2, <2>1, SeriesWithin
  <2>5. \A c \in Series(q, read) : c.month \in Int
    BY <2>1, LedgerAssumption DEF Series, Kept
  <2> QED
    BY <2>2, <2>3, <2>4, <2>5, WindowsWithin
<1> QED
  BY <1>1, <1>2

(* Every question that validation lets through is answered by what it      *)
(* means, at any close, for any set of companies and whatever has been     *)
(* posted, restated and merged: CompilePlain and CompileMonthly neither    *)
(* add a row to a group or a window nor lose one.                          *)
THEOREM ReadsAreWholeAlways == Spec => []ReadsAreWhole
<1>1. ASSUME TypeInv PROVE ReadsAreWhole
  <2>1. \A r \in rows : r.key \in Keys
    BY <1>1 DEF TypeInv, RowsInv, Row
  <2>2. \A q \in Questions : IsQuestion(q)
    BY QuestionsAssumption DEF IsQuestion
  <2> QED
    BY <2>1, <2>2, AnswersMean DEF ReadsAreWhole
<1> QED
  BY <1>1, TypeInvAlways, PTL
=============================================================================
