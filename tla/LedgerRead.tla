----------------------------- MODULE LedgerRead -----------------------------
(***************************************************************************)
(* What a FinOpsExpr query reads (src/src/fpa_project/dsl): the grammar's  *)
(* query as a record, the rules a query must pass, the vintage it resolves *)
(* to, and the rows its SQL selects from fact_gl_actual.  A measure is the *)
(* set of rows it aggregates, so two answers agree when they add up the    *)
(* same rows.  Every dimension of a row is part of its key: a key's        *)
(* signature hash is made of all of them.  Months are counted from year 0. *)
(***************************************************************************)
EXTENDS Integers, FiniteSets, Sequences, SequencesExt

CONSTANTS Keys,      \* ledger keys: company, month, account, signature
          KeyInfo,   \* what a key says of its rows, and the plan line it matches
          Companies,
          Current    \* stands for the absence of AS OF

ASSUME LedgerAssumption ==
  /\ IsFiniteSet(Keys) /\ Current \notin Nat
  /\ \A k \in Keys :
       LET info == KeyInfo[k]
       IN /\ info.company \in Companies /\ info.cost \in BOOLEAN /\ info.month \in Nat
          /\ {info.plan, info.planPrice, info.price, info.pf, info.af} \subseteq Nat
          /\ info.path \in Seq(ToSet(info.path))

Vintages == 1 .. 2

(* One physical row.  amount is derived from the quantity, so a row is a   *)
(* key, the close it belongs to, its voucher, its quantity, and whether it *)
(* is a deletion marker.                                                   *)
Row == [key : Keys, version : Vintages, voucher : Nat, quantity : Nat, deleted : BOOLEAN]

(***************************************************************************)
(* Periods: a year, half, quarter or month is a unit and an index, and     *)
(* every range is half open.                                               *)
(***************************************************************************)
PeriodStart(period) == period.unit * period.index
PeriodEnd(period) == period.unit * (period.index + 1)

Before(q) == PeriodStart(q.from)
After(q)  == PeriodEnd(q.to)

KeysWithin(start, end) == {k \in Keys : start <= KeyInfo[k].month /\ KeyInfo[k].month < end}

(***************************************************************************)
(* Which close a read sees.  Close v happened at instant v, so an instant  *)
(* before the first close is 0, and closes is how many are recorded.       *)
(***************************************************************************)
VintageAt(closes, asOf) ==
  IF asOf = Current THEN closes ELSE IF asOf < closes THEN asOf ELSE closes

Supersedes(new, old) ==
  /\ new.key = old.key
  /\ new.version > old.version \/ (new.version = old.version /\ new.voucher > old.voucher)

\* mutant: the newest row wins whatever close was asked for
ActualSourceNewest(rows, keys, vintage) ==
  LET admitted == {r \in rows : r.key \in keys}
  IN {r \in admitted : \A other \in admitted : ~Supersedes(other, r)}

(* ORDER BY _version DESC, voucher_no DESC LIMIT 1 BY the key, over the    *)
(* rows the inner predicates and the vintage admit.                        *)
ActualSource(rows, keys, vintage) ==
  LET admitted == {r \in rows : r.key \in keys /\ r.version <= vintage}
  IN {r \in admitted : \A other \in admitted : ~Supersedes(other, r)}

Live(rows) == {r \in rows : ~r.deleted}

(***************************************************************************)
(* Filters.  A dimension filter is the set of keys it admits, decided per  *)
(* row; a measure filter is a least total, decided per group.  The filters *)
(* of one kind are joined from the left, each with the connector that has  *)
(* the position it has among its kind, and with AND where there is none.   *)
(***************************************************************************)
Of(q, kind) == {i \in DOMAIN q.where : q.where[i].on = kind}

(* true is the set of the positions whose filter holds. *)
CombinePredicates(q, kind, true) ==
  LET nth(i) == Cardinality({j \in Of(q, kind) : j < i})
      joined[i \in 0 .. Len(q.where)] ==
        CASE i \notin Of(q, kind) -> i = 0 \/ joined[i - 1]
          [] i \in Of(q, kind) /\ nth(i) \in DOMAIN q.connectors /\ q.connectors[nth(i)] = "OR"
               -> joined[i - 1] \/ i \in true
          [] OTHER -> joined[i - 1] /\ i \in true
  IN joined[Len(q.where)]

Admitting(q, key) == {i \in Of(q, "dimension") : key \in q.where[i].keys}

UserKeys(q) == {k \in Keys : CombinePredicates(q, "dimension", Admitting(q, k))}

ScopeKeys(scope) == {k \in Keys : KeyInfo[k].company \in scope}

Total(rows) == SumFunction([r \in rows |-> r.quantity])

Reached(q, rows) == {i \in Of(q, "measure") : Total(rows) >= q.where[i].least}

Having(q, rows) == CombinePredicates(q, "measure", Reached(q, rows))

(***************************************************************************)
(* Rules a query passes before any SQL exists.  An absent offset is 0.     *)
(***************************************************************************)
Summing == {"ROLLING", "YTD", "QTD"}

ValidateMeasure(q, function) ==
  \/ q.kind = "additive"
  \/ q.kind = "ratio" /\ function \notin Summing
  \/ /\ q.kind = "semi_additive"
     /\ function \notin Summing
     /\ function = "plain" => q.from = q.to

\* mutant: OR may join a dimension filter and a measure filter
ValidateQueryAnyOr(q) ==
  /\ \A f \in q.functions : ValidateMeasure(q, f.name)
  /\ Before(q) < After(q)

ValidateQuery(q) ==
  /\ \A f \in q.functions : ValidateMeasure(q, f.name)
  /\ Before(q) < After(q)
  /\ "OR" \in ToSet(q.connectors) => Cardinality({filter.on : filter \in ToSet(q.where)}) = 1

(***************************************************************************)
(* Plain queries: the filtered rows, grouped by company or not at all, and *)
(* the groups the measure filters keep.                                    *)
(***************************************************************************)
GroupOf(q, key) == IF q.by THEN KeyInfo[key].company ELSE "all"

CompilePlain(q, scope, rows, vintage) ==
  LET read == Live(ActualSource(rows, UserKeys(q) \cap KeysWithin(Before(q), After(q)) \cap ScopeKeys(scope), vintage))
      group(g) == {r \in read : GroupOf(q, r.key) = g}
  IN {[group |-> g, rows |-> group(g)] :
        g \in {GroupOf(q, r.key) : r \in {r \in read : Having(q, group(GroupOf(q, r.key)))}}}

(***************************************************************************)
(* Monthly queries: one cell per group and month over a range widened by   *)
(* what the functions look back and ahead, then the windows, then the      *)
(* months asked for.                                                       *)
(***************************************************************************)
OffsetOf(f) ==
  IF f.offset # 0 THEN f.offset ELSE IF f.name \in {"PRIOR", "LEAD", "CAGR"} THEN 1 ELSE 3

Greatest(numbers) == CHOOSE n \in numbers \cup {0} : \A m \in numbers \cup {0} : n >= m

(* How many months before the asked-for start the windows reach. *)
Lookback(f) ==
  CASE f.name = "PRIOR"   -> OffsetOf(f)
    [] f.name = "ROLLING" -> OffsetOf(f) - 1
    [] f.name = "CAGR"    -> 12 * OffsetOf(f)
    [] f.name = "YOY"     -> 12
    [] f.name = "QTD"     -> 2
    [] OTHER              -> 0

WideStart(q) ==
  LET back == Before(q) - Greatest({Lookback(f) : f \in q.functions})
      year == Before(q) - (Before(q) % 12)
  IN IF (\E f \in q.functions : f.name = "YTD") /\ year < back THEN year ELSE back

WideEnd(q) == After(q) + Greatest({OffsetOf(f) : f \in {f \in q.functions : f.name = "LEAD"}})

(* The cells of layer 1 over the given months, after HAVING. *)
MonthlySeries(q, scope, rows, vintage, start, end) ==
  LET read == Live(ActualSource(rows, UserKeys(q) \cap KeysWithin(start, end) \cap ScopeKeys(scope), vintage))
      cells == {<<GroupOf(q, r.key), KeyInfo[r.key].month>> : r \in read}
      rowsOf(c) == {r \in read : <<GroupOf(q, r.key), KeyInfo[r.key].month>> = c}
  IN {[group |-> c[1], month |-> c[2], rows |-> rowsOf(c)] : c \in {c \in cells : Having(q, rowsOf(c))}}

(* The window frame: RANGE over the month number, so a month that has no   *)
(* cell does not shift the others.                                         *)
InFrame(f, at, month) ==
  CASE f.name = "PRIOR" -> month = at - OffsetOf(f)
    [] f.name = "LEAD"  -> month = at + OffsetOf(f)
    [] f.name = "YOY"   -> month \in {at, at - 12}
    [] f.name = "CAGR"  -> month \in {at, at - 12 * OffsetOf(f)}
    [] f.name = "ROLLING" -> at - (OffsetOf(f) - 1) <= month /\ month <= at
    [] f.name = "YTD"   -> month \div 12 = at \div 12 /\ month <= at
    [] f.name = "QTD"   -> month \div 3 = at \div 3 /\ month <= at
    [] OTHER            -> month = at

WindowsOver(q, series) ==
  {[group |-> c.group, month |-> c.month,
    windows |-> [f \in q.functions |->
       {d.rows : d \in {d \in series : d.group = c.group /\ InFrame(f, c.month, d.month)}}]] :
     c \in {c \in series : Before(q) <= c.month /\ c.month < After(q)}}

CompileMonthly(q, scope, rows, vintage) ==
  WindowsOver(q, MonthlySeries(q, scope, rows, vintage, WideStart(q), WideEnd(q)))

IsMonthly(q) == \E f \in q.functions : f.name # "plain"

(***************************************************************************)
(* What a query means, said without SQL: filters as the one formula the    *)
(* user wrote, every row of the ledger as the close saw it, and windows    *)
(* over the whole of history.                                              *)
(***************************************************************************)
Holds(q, true) ==
  LET upTo[i \in 0 .. Len(q.where)] ==
        CASE i = 0 -> TRUE
          [] i > 1 /\ q.connectors[i - 1] = "OR" -> upTo[i - 1] \/ i \in true
          [] OTHER -> upTo[i - 1] /\ i \in true
  IN upTo[Len(q.where)]

Seen(rows, scope, vintage) ==
  {r \in Live(ActualSource(rows, Keys, vintage)) : KeyInfo[r.key].company \in scope}

(* What the measure filters are decided over: a group's rows of all the    *)
(* months asked for, or of one month of all there are.                     *)
CellOf(q, key) == [group |-> GroupOf(q, key), month |-> IF IsMonthly(q) THEN KeyInfo[key].month ELSE 0]

(* The rows that count: those that pass with the total of their cell, and  *)
(* a cell has the rows that may pass, were every measure filter reached.   *)
Counted(q, rows) ==
  LET possible == {r \in rows : Holds(q, Admitting(q, r.key) \cup Of(q, "measure"))}
      cell(r) == {other \in possible : CellOf(q, other.key) = CellOf(q, r.key)}
  IN {r \in possible : Holds(q, Admitting(q, r.key) \cup Reached(q, cell(r)))}

Meaning(q, scope, rows, vintage) ==
  LET seen == Seen(rows, scope, vintage)
      counted == Counted(q, IF IsMonthly(q) THEN seen ELSE {r \in seen : r.key \in KeysWithin(Before(q), After(q))})
      cells == {CellOf(q, r.key) : r \in counted}
      rowsOf(c) == {r \in counted : CellOf(q, r.key) = c}
  IN IF IsMonthly(q)
     THEN WindowsOver(q, {[group |-> c.group, month |-> c.month, rows |-> rowsOf(c)] : c \in cells})
     ELSE {[group |-> c.group, rows |-> rowsOf(c)] : c \in cells}

(***************************************************************************)
(* The two reads of a report: the matched lines of a bridge query, and the *)
(* rows its citations name, for a caller who may see all of them.          *)
(***************************************************************************)
CompileBridge(q, scope, rows, vintage) ==
  LET keys == {k \in Keys : KeyInfo[k].plan > 0 /\ ~KeyInfo[k].internal /\ KeyInfo[k].account \in q.accounts}
  IN Live(ActualSource(rows, keys \cap KeysWithin(Before(q), After(q)) \cap ScopeKeys(scope) \cap UserKeys(q), vintage))

CompileCitationRows(keys, scope, rows, vintage) ==
  IF keys \subseteq ScopeKeys(scope) /\ keys # {} THEN Live(ActualSource(rows, keys, vintage)) ELSE {}
=============================================================================
