------------------------- MODULE CommitmentService -------------------------
(***************************************************************************)
(* The Commitment Service, src/src/fpa_project/commitment/service.py: the  *)
(* counterparty that fails on purpose.  Every HTTP request is a process.   *)
(* A keyed POST is two statements, the INSERT that the partial unique      *)
(* index may turn into a no-op and the SELECT of the row that beat it, so  *)
(* concurrent requests interleave between them.  The injected failure is   *)
(* picked when the request arrives: "error" answers 500 before anything    *)
(* is written, "timeout" writes and then never answers.                    *)
(***************************************************************************)
EXTENDS Naturals, FiniteSets

CONSTANTS Requests,   \* slots for concurrent HTTP requests
          Keys,       \* idempotency keys callers send
          NoKey,      \* a POST without the Idempotency-Key header
          Ids,        \* commitment ids; a POST that inserts takes a fresh one
          NoId,       \* no commitment found or made yet
          Revisions   \* the revision in the request body

ASSUME KeysAssumption == NoKey \notin Keys /\ NoId \notin Ids
ASSUME BodyAssumption == Revisions \subseteq Nat /\ 0 \notin Revisions

VARIABLES rows,       \* the commitment table: rows[id]
          call,       \* call[q]: what request q is doing
          failing,    \* the failure mode in force: "off" when the rate is 0
          answered    \* history: <<key, id>> of every answered keyed POST

vars == <<rows, call, failing, answered>>

Modes == {"off", "error", "timeout", "mixed"}

Row  == [state : {"NONE", "RESERVED", "RELEASED"}, key : Keys \cup {NoKey},
         rev : Revisions \cup {0}]
Idle == [at |-> "idle", key |-> NoKey, rev |-> 0, id |-> NoId, hangs |-> FALSE]
Call == [at : {"idle", "insert", "select", "update", "reply"}, key : Keys \cup {NoKey},
         rev : Revisions \cup {0}, id : Ids \cup {NoId}, hangs : BOOLEAN]

Blank    == [state |-> "NONE", key |-> NoKey, rev |-> 0]
Exists(i) == rows[i].state # "NONE"
Under(k) == {i \in Ids : Exists(i) /\ rows[i].key = k}

Init ==
  /\ rows     = [i \in Ids |-> Blank]
  /\ call     = [q \in Requests |-> Idle]
  /\ failing  = "off"
  /\ answered = {}

(***************************************************************************)
(* POST /admin/failure-rate, at any time.                                  *)
(***************************************************************************)
SetFailureRate ==
  /\ failing' \in Modes \ {failing}
  /\ UNCHANGED <<rows, call, answered>>

(***************************************************************************)
(* The failure a request meets.  "error" refuses it before the write, so a *)
(* refused request is no step of the service; "timeout" lets it write and  *)
(* then hangs.                                                             *)
(***************************************************************************)
MayHang == IF failing \in {"timeout", "mixed"} THEN BOOLEAN ELSE {FALSE}

ArriveCreate(q, k, r) ==
  /\ call[q].at = "idle"
  /\ \E h \in MayHang :
       call' = [call EXCEPT ![q] = [at |-> "insert", key |-> k, rev |-> r,
                                    id |-> NoId, hangs |-> h]]
  /\ UNCHANGED <<rows, failing, answered>>

ArriveRelease(q, i) ==
  /\ call[q].at = "idle"
  /\ \E h \in MayHang :
       call' = [call EXCEPT ![q] = [Idle EXCEPT !.at = "update", !.id = i, !.hangs = h]]
  /\ UNCHANGED <<rows, failing, answered>>

(***************************************************************************)
(* INSERT ... ON CONFLICT (idempotency_key) DO NOTHING RETURNING: decided  *)
(* by the unique index in one statement.  Without a key every POST         *)
(* inserts.                                                                *)
(***************************************************************************)
InsertsOverReleased(q) ==   \* mutant: a released commitment frees its key
  call[q].key = NoKey \/ ~\E i \in Under(call[q].key) : rows[i].state = "RESERVED"

Inserts(q) == call[q].key = NoKey \/ Under(call[q].key) = {}

Insert(q) ==
  /\ call[q].at = "insert"
  /\ IF Inserts(q)
       THEN \E i \in {j \in Ids : ~Exists(j)} :
              /\ rows' = [rows EXCEPT ![i] = [state |-> "RESERVED", key |-> call[q].key,
                                              rev |-> call[q].rev]]
              /\ call' = [call EXCEPT ![q].at = "reply", ![q].id = i]
       ELSE /\ call' = [call EXCEPT ![q].at = "select"]
            /\ UNCHANGED rows
  /\ UNCHANGED <<failing, answered>>

(***************************************************************************)
(* The second statement of a replay: SELECT the row the key already has.   *)
(***************************************************************************)
SelectAnyRow(q) ==          \* mutant: the WHERE clause is lost
  /\ call[q].at = "select"
  /\ \E i \in {j \in Ids : Exists(j)} : call' = [call EXCEPT ![q].at = "reply", ![q].id = i]
  /\ UNCHANGED <<rows, failing, answered>>

SelectRevives(q) ==         \* mutant: DO UPDATE SET state, instead of DO NOTHING
  /\ call[q].at = "select"
  /\ \E i \in Under(call[q].key) :
       /\ call' = [call EXCEPT ![q].at = "reply", ![q].id = i]
       /\ rows' = [rows EXCEPT ![i].state = "RESERVED"]
  /\ UNCHANGED <<failing, answered>>

Select(q) ==
  /\ call[q].at = "select"
  /\ \E i \in Under(call[q].key) : call' = [call EXCEPT ![q].at = "reply", ![q].id = i]
  /\ UNCHANGED <<rows, failing, answered>>

(***************************************************************************)
(* DELETE: UPDATE ... SET state = 'RELEASED' WHERE commitment_id; an       *)
(* unknown id is a 404 and changes nothing.                                *)
(***************************************************************************)
UpdateDeletes(q) ==         \* mutant: a state the table does not have
  /\ call[q].at = "update"
  /\ rows' = [rows EXCEPT ![call[q].id].state = "DELETED"]
  /\ call' = [call EXCEPT ![q].at = "reply"]
  /\ UNCHANGED <<failing, answered>>

Update(q) ==
  /\ call[q].at = "update"
  /\ rows' = IF Exists(call[q].id) THEN [rows EXCEPT ![call[q].id].state = "RELEASED"]
                                   ELSE rows
  /\ call' = [call EXCEPT ![q].at = "reply"]
  /\ UNCHANGED <<failing, answered>>

(***************************************************************************)
(* The answer, or the hang in its place: the write has committed either    *)
(* way, and the caller that timed out knows nothing.                       *)
(***************************************************************************)
Reply(q) ==
  /\ call[q].at = "reply"
  /\ call' = [call EXCEPT ![q] = Idle]
  /\ answered' = IF call[q].hangs \/ call[q].key = NoKey
                   THEN answered ELSE answered \cup {<<call[q].key, call[q].id>>}
  /\ UNCHANGED <<rows, failing>>

Next ==
  \/ SetFailureRate
  \/ \E q \in Requests :
       \/ \E k \in Keys \cup {NoKey}, r \in Revisions : ArriveCreate(q, k, r)
       \/ \E i \in Ids : ArriveRelease(q, i)
       \/ Insert(q) \/ Select(q) \/ Update(q) \/ Reply(q)

Spec == Init /\ [][Next]_vars

----------------------------------------------------------------------------
TypeOK ==
  /\ rows \in [Ids -> Row]
  /\ call \in [Requests -> Call]
  /\ failing \in Modes
  /\ answered \subseteq Keys \X Ids

(***************************************************************************)
(* However many requests carry one key, and however they interleave or     *)
(* time out, the table holds at most one commitment under it: a retried    *)
(* POST cannot reserve the budget twice.                                   *)
(***************************************************************************)
OneRowPerKey ==
  \A i, j \in Ids :
    Exists(i) /\ Exists(j) /\ rows[i].key = rows[j].key /\ rows[i].key \in Keys => i = j

(***************************************************************************)
(* Every answer ever given for a key names the same commitment, and it is  *)
(* still there: what a caller was told cannot be contradicted later.       *)
(***************************************************************************)
SameKeySameAnswer ==
  \A a, b \in answered : a[1] = b[1] => a[2] = b[2] /\ Under(a[1]) = {a[2]}

----------------------------------------------------------------------------
(***************************************************************************)
(* The refinement: seen through its keys, the table is the Ledger.         *)
(***************************************************************************)
LedgerView ==
  [k \in Keys |->
     IF Under(k) = {} THEN [state |-> "NONE", rev |-> 0]
     ELSE LET i == CHOOSE j \in Under(k) : TRUE
          IN  [state |-> rows[i].state, rev |-> rows[i].rev]]

L == INSTANCE Ledger WITH ledger <- LedgerView

(***************************************************************************)
(* The service keeps the Ledger's promise: seen by key, every step of      *)
(* every interleaving is a first reservation, a final release or nothing.  *)
(***************************************************************************)
ImplementsLedger == L!LedgerSpec
=============================================================================
