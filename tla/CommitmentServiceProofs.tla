---------------------- MODULE CommitmentServiceProofs ----------------------
(***************************************************************************)
(* Proofs about the Commitment Service, for any number of concurrent       *)
(* requests, keys and commitments.                                         *)
(***************************************************************************)
EXTENDS CommitmentService, TLAPS

(***************************************************************************)
(* What a request in progress already knows: a release names a commitment  *)
(* id and no key, a keyed create about to answer holds the id of the row   *)
(* its key has.                                                            *)
(***************************************************************************)
CallKnows(q) ==
  /\ call[q].at = "insert" => call[q].rev \in Revisions
  /\ call[q].at = "update" => call[q].id \in Ids /\ call[q].key = NoKey
  /\ call[q].at = "reply" /\ call[q].key # NoKey =>
       call[q].id \in Ids /\ Exists(call[q].id) /\ rows[call[q].id].key = call[q].key

(* OneRowPerKey is not enough to say what was answered: an answer is the   *)
(* id a request holds, so what requests hold is part of the invariant.     *)
AnswerStands(a) == Exists(a[2]) /\ rows[a[2]].key = a[1]

IInv ==
  /\ TypeOK
  /\ OneRowPerKey
  /\ \A q \in Requests : CallKnows(q)
  /\ \A a \in answered : AnswerStands(a)

----------------------------------------------------------------------------
LEMMA InitIInv == Init => IInv
<1> SUFFICES ASSUME Init PROVE IInv
  OBVIOUS
<1> USE DEF Init, Blank, Idle, Exists
<1>1. TypeOK
  BY KeysAssumption DEF TypeOK, Row, Call, Modes
<1>2. OneRowPerKey
  BY DEF OneRowPerKey
<1>3. \A q \in Requests : CallKnows(q)
  BY DEF CallKnows
<1> QED
  BY <1>1, <1>2, <1>3 DEF IInv

(* A step that leaves every row its key and its existence leaves the       *)
(* answers standing and the table with one row for each key.               *)
LEMMA KeysKept ==
  ASSUME IInv, rows' \in [Ids -> Row], answered' = answered,
         \A i \in Ids : rows'[i].key = rows[i].key /\ (Exists(i)' <=> Exists(i))
  PROVE  OneRowPerKey' /\ \A a \in answered' : AnswerStands(a)'
BY DEF IInv, OneRowPerKey, AnswerStands, TypeOK, Exists

(***************************************************************************)
(* A request that has its commitment id is a request about to reply.       *)
(***************************************************************************)
LEMMA ReplyIsCall ==
  ASSUME NEW c \in Call, NEW i \in Ids
  PROVE  [c EXCEPT !.at = "reply", !.id = i] \in Call
BY DEF Call

LEMMA NextIInv == IInv /\ [Next]_vars => IInv'
<1> SUFFICES ASSUME IInv, [Next]_vars PROVE IInv'
  OBVIOUS
<1> USE DEF IInv
<1>1. CASE SetFailureRate
  BY <1>1 DEF SetFailureRate, TypeOK, OneRowPerKey, CallKnows, AnswerStands, Exists, Modes
<1>2. ASSUME NEW q \in Requests, NEW k \in Keys \cup {NoKey}, NEW r \in Revisions,
             ArriveCreate(q, k, r)
      PROVE IInv'
  <2>1. TypeOK'
    <3>1. PICK h \in BOOLEAN :
            call' = [call EXCEPT ![q] = [at |-> "insert", key |-> k, rev |-> r,
                                         id |-> NoId, hangs |-> h]]
      BY <1>2 DEF ArriveCreate, MayHang
    <3>2. [at |-> "insert", key |-> k, rev |-> r, id |-> NoId, hangs |-> h] \in Call
      BY DEF Call
    <3>3. call' \in [Requests -> Call]
      BY <3>1, <3>2 DEF TypeOK
    <3> QED
      BY <1>2, <3>3 DEF ArriveCreate, TypeOK
  <2>2. \A p \in Requests : CallKnows(p)'
    BY <1>2 DEF ArriveCreate, TypeOK, CallKnows, Exists
  <2> QED
    BY <1>2, <2>1, <2>2 DEF ArriveCreate, OneRowPerKey, AnswerStands, Exists
<1>3. ASSUME NEW q \in Requests, NEW i \in Ids, ArriveRelease(q, i)
      PROVE IInv'
  <2>1. TypeOK'
    <3>1. PICK h \in BOOLEAN :
            call' = [call EXCEPT ![q] = [Idle EXCEPT !.at = "update", !.id = i, !.hangs = h]]
      BY <1>3 DEF ArriveRelease, MayHang
    <3>2. Idle \in Call
      BY DEF Idle, Call
    <3>3. [Idle EXCEPT !.at = "update", !.id = i, !.hangs = h] \in Call
      BY <3>2 DEF Call
    <3>4. call' \in [Requests -> Call]
      BY <3>1, <3>3 DEF TypeOK
    <3> QED
      BY <1>3, <3>4 DEF ArriveRelease, TypeOK
  <2>2. \A p \in Requests : CallKnows(p)'
    BY <1>3 DEF ArriveRelease, TypeOK, CallKnows, Exists, Idle
  <2> QED
    BY <1>3, <2>1, <2>2 DEF ArriveRelease, OneRowPerKey, AnswerStands, Exists
<1>4. ASSUME NEW q \in Requests, Insert(q)
      PROVE IInv'
  <2>1. CASE ~Inserts(q)
    <3>1. TypeOK'
      BY <1>4, <2>1 DEF Insert, TypeOK, Call
    <3>2. \A p \in Requests : CallKnows(p)'
      <4>1. rows' = rows /\ call' = [call EXCEPT ![q].at = "select"]
        BY <1>4, <2>1 DEF Insert
      <4>2. call'[q].at = "select" /\ \A p \in Requests : p # q => call'[p] = call[p]
        BY <4>1 DEF TypeOK, Call
      <4> QED
        BY <4>1, <4>2 DEF CallKnows, Exists
    <3> QED
      BY <1>4, <2>1, <3>1, <3>2 DEF Insert, OneRowPerKey, AnswerStands, Exists
  <2>2. CASE Inserts(q)
    <3>1. PICK i \in Ids :
            /\ ~Exists(i)
            /\ rows' = [rows EXCEPT ![i] = [state |-> "RESERVED", key |-> call[q].key,
                                            rev |-> call[q].rev]]
            /\ call' = [call EXCEPT ![q].at = "reply", ![q].id = i]
      BY <1>4, <2>2 DEF Insert
    <3>2. call[q].at = "insert" /\ UNCHANGED <<failing, answered>>
      BY <1>4 DEF Insert
    <3>3. call[q] \in Call /\ call[q].rev \in Revisions
      BY <3>2 DEF TypeOK, CallKnows
    <3>4. TypeOK'
      BY <3>1, <3>2, <3>3 DEF TypeOK, Call, Row
    <3>5. \A j \in Ids : j # i => rows'[j] = rows[j]
      BY <3>1 DEF TypeOK
    <3>6. rows'[i] = [state |-> "RESERVED", key |-> call[q].key, rev |-> call[q].rev]
      BY <3>1 DEF TypeOK
    <3>7. OneRowPerKey'
      <4> SUFFICES ASSUME NEW a \in Ids, NEW b \in Ids, Exists(a)', Exists(b)',
                          rows'[a].key = rows'[b].key, rows'[a].key \in Keys
                   PROVE  a = b
        BY DEF OneRowPerKey
      <4>1. CASE a # i /\ b # i
        BY <4>1, <3>5 DEF OneRowPerKey, Exists
      <4>2. ASSUME NEW j \in Ids, j # i, Exists(j)', rows'[j].key = rows'[i].key,
                   rows'[i].key \in Keys
            PROVE FALSE
        <5>1. Exists(j) /\ rows[j].key = call[q].key /\ call[q].key # NoKey
          BY <4>2, <3>5, <3>6, KeysAssumption DEF Exists
        <5> QED
          BY <5>1, <2>2 DEF Inserts, Under
      <4> QED
        BY <4>1, <4>2
    <3>8. \A p \in Requests : CallKnows(p)'
      <4> SUFFICES ASSUME NEW p \in Requests PROVE CallKnows(p)'
        OBVIOUS
      <4>1. CASE p = q
        BY <4>1, <3>1, <3>3, <3>6 DEF CallKnows, TypeOK, Call, Exists
      <4>2. CASE p # q
        <5>1. call'[p] = call[p]
          BY <4>2, <3>1 DEF TypeOK
        <5>2. CallKnows(p)
          OBVIOUS
        <5> QED
          BY <5>1, <5>2, <3>1, <3>5 DEF CallKnows, Exists
      <4> QED
        BY <4>1, <4>2
    <3>9. \A a \in answered' : AnswerStands(a)'
      <4> SUFFICES ASSUME NEW a \in answered PROVE AnswerStands(a)'
        BY <3>2
      <4>1. a[2] \in Ids /\ AnswerStands(a)
        BY DEF TypeOK
      <4> QED
        BY <4>1, <3>1, <3>5 DEF AnswerStands, Exists
    <3> QED
      BY <3>4, <3>7, <3>8, <3>9
  <2> QED
    BY <2>1, <2>2
<1>5. ASSUME NEW q \in Requests, Select(q)
      PROVE IInv'
  <2>1. TypeOK'
    <3>1. PICK i \in Ids : call' = [call EXCEPT ![q].at = "reply", ![q].id = i]
      BY <1>5 DEF Select, Under
    <3>2. call' = [call EXCEPT ![q] = [call[q] EXCEPT !.at = "reply", !.id = i]]
      BY <3>1 DEF TypeOK
    <3>3. call[q] \in Call
      BY DEF TypeOK
    <3>4. [call[q] EXCEPT !.at = "reply", !.id = i] \in Call
      BY <3>1, <3>3, ReplyIsCall
    <3>5. call' \in [Requests -> Call]
      BY <3>2, <3>4 DEF TypeOK
    <3> QED
      BY <1>5, <3>5 DEF Select, TypeOK
  <2>2. \A p \in Requests : CallKnows(p)'
    BY <1>5 DEF Select, TypeOK, CallKnows, Exists, Under
  <2> QED
    BY <1>5, <2>1, <2>2 DEF Select, OneRowPerKey, AnswerStands, Exists
<1>6. ASSUME NEW q \in Requests, Update(q)
      PROVE IInv'
  <2>1. call[q].id \in Ids /\ call[q].key = NoKey
    BY <1>6 DEF Update, CallKnows
  <2>2. rows' \in [Ids -> Row]
    BY <1>6, <2>1 DEF Update, TypeOK, Row
  <2>3. \A i \in Ids : rows'[i].key = rows[i].key /\ (Exists(i)' <=> Exists(i))
    BY <1>6, <2>1 DEF Update, TypeOK, Row, Exists
  <2>4. TypeOK'
    BY <1>6, <2>2 DEF Update, TypeOK, Call
  <2>5. \A p \in Requests : CallKnows(p)'
    BY <1>6, <2>1, <2>3 DEF Update, TypeOK, CallKnows
  <2> QED
    BY <1>6, <2>2, <2>3, <2>4, <2>5, KeysKept DEF Update
<1>7. ASSUME NEW q \in Requests, Reply(q)
      PROVE IInv'
  <2>1. call[q].key # NoKey => call[q].key \in Keys /\ call[q].id \in Ids
    BY <1>7 DEF Reply, CallKnows, TypeOK, Call
  <2>2. TypeOK'
    BY <1>7, <2>1 DEF Reply, TypeOK, Call, Idle
  <2>3. \A p \in Requests : CallKnows(p)'
    BY <1>7 DEF Reply, TypeOK, CallKnows, Exists, Idle
  <2>4. \A a \in answered' : AnswerStands(a)'
    BY <1>7 DEF Reply, AnswerStands, CallKnows, Exists
  <2> QED
    BY <1>7, <2>2, <2>3, <2>4 DEF Reply, OneRowPerKey, Exists
<1>8. CASE UNCHANGED vars
  BY <1>8 DEF vars, TypeOK, OneRowPerKey, CallKnows, AnswerStands, Exists
<1> QED
  BY <1>1, <1>2, <1>3, <1>4, <1>5, <1>6, <1>7, <1>8 DEF Next

LEMMA Invariance == Spec => []IInv
BY InitIInv, NextIInv, PTL DEF Spec

(***************************************************************************)
(* Type correctness of the service (service.py:141-231).                   *)
(***************************************************************************)
THEOREM TypeCorrect == Spec => []TypeOK
<1>1. IInv => TypeOK
  BY DEF IInv
<1> QED
  BY <1>1, Invariance, PTL

(***************************************************************************)
(* However many requests carry one idempotency key, the table never holds  *)
(* two commitments under it (service.py:81-86, 166-181).                   *)
(***************************************************************************)
THEOREM OneRowPerKeyAlways == Spec => []OneRowPerKey
<1>1. IInv => OneRowPerKey
  BY DEF IInv
<1> QED
  BY <1>1, Invariance, PTL

(* The row of a key, once there is one, is the only one.                   *)
LEMMA OnlyRow ==
  ASSUME TypeOK, OneRowPerKey, NEW k \in Keys, NEW i \in Ids, Exists(i), rows[i].key = k
  PROVE  Under(k) = {i}
BY DEF OneRowPerKey, Under

(***************************************************************************)
(* Every answer given for a key names the one commitment there is under it *)
(* and always will be (service.py:183-202).                                *)
(***************************************************************************)
THEOREM SameKeySameAnswerAlways == Spec => []SameKeySameAnswer
<1>1. IInv => SameKeySameAnswer
  <2> SUFFICES ASSUME IInv, NEW a \in answered, NEW b \in answered, a[1] = b[1]
               PROVE  a[2] = b[2] /\ Under(a[1]) = {a[2]}
    BY DEF SameKeySameAnswer
  <2>1. a[1] \in Keys /\ a[2] \in Ids /\ b[2] \in Ids
    BY DEF IInv, TypeOK
  <2>2. AnswerStands(a) /\ AnswerStands(b)
    BY DEF IInv
  <2>3. Under(a[1]) = {a[2]} /\ Under(a[1]) = {b[2]}
    BY <2>1, <2>2, OnlyRow DEF IInv, AnswerStands
  <2> QED
    BY <2>3
<1> QED
  BY <1>1, Invariance, PTL

----------------------------------------------------------------------------
(***************************************************************************)
(* The refinement.                                                         *)
(***************************************************************************)
LEMMA InitView == Init => L!LedgerInit
BY DEF Init, Blank, Exists, Under, LedgerView, L!LedgerInit, L!Absent

LEMMA SameRowsSameView ==
  ASSUME rows' = rows PROVE LedgerView' = LedgerView
BY DEF LedgerView, Under, Exists

LEMMA InsertView ==
  ASSUME IInv, IInv', NEW q \in Requests, Insert(q)
  PROVE  [L!LedgerNext]_LedgerView
<1>1. CASE ~Inserts(q)
  BY <1>1, SameRowsSameView DEF Insert
<1>2. CASE Inserts(q)
  <2>0. PICK key, r : key = call[q].key /\ r = call[q].rev
    OBVIOUS
  <2>1. PICK i \in Ids :
          /\ ~Exists(i)
          /\ rows' = [rows EXCEPT ![i] = [state |-> "RESERVED", key |-> key, rev |-> r]]
    BY <1>2, <2>0 DEF Insert
  <2>2. /\ rows'[i] = [state |-> "RESERVED", key |-> key, rev |-> r]
        /\ \A j \in Ids : j # i => rows'[j] = rows[j]
    BY <2>1 DEF IInv, TypeOK
  <2>3. Exists(i)' /\ rows'[i].key = key
    BY <2>2 DEF Exists
  <2>4. key \in Keys \cup {NoKey} /\ r \in Revisions
    BY <2>0 DEF Insert, IInv, TypeOK, Call, CallKnows
  <2>5. ASSUME NEW k \in Keys, k # key
        PROVE LedgerView'[k] = LedgerView[k]
    <3>1. Under(k)' = Under(k)
      BY <2>1, <2>2, <2>5 DEF Under, Exists
    <3>2. \A j \in Under(k) : rows'[j] = rows[j]
      BY <2>1, <2>2 DEF Under
    <3>3. CASE Under(k) = {}
      BY <3>1, <3>3 DEF LedgerView
    <3>4. CASE Under(k) # {}
      <4>1. (CHOOSE j \in Under(k) : TRUE) \in Under(k)
        BY <3>4
      <4> QED
        BY <3>1, <3>2, <3>4, <4>1 DEF LedgerView
    <3> QED
      BY <3>3, <3>4
  <2>6. CASE key = NoKey
    <3>1. \A k \in Keys : LedgerView'[k] = LedgerView[k]
      BY <2>5, <2>6, KeysAssumption
    <3> QED
      BY <3>1 DEF LedgerView
  <2>7. CASE key \in Keys
    <3>1. LedgerView[key] = [state |-> "NONE", rev |-> 0]
      BY <1>2, <2>0, <2>7, KeysAssumption DEF Inserts, LedgerView
    <3>2. LedgerView'[key] = [state |-> "RESERVED", rev |-> r]
      <4>1. (TypeOK /\ OneRowPerKey)'
        BY DEF IInv
      <4>2. Under(key)' = {i}
        BY <2>3, <2>7, <4>1 DEF OneRowPerKey, Under
      <4>3. (CHOOSE j \in Under(key)' : TRUE) = i
        BY <4>2
      <4> QED
        BY <2>2, <2>7, <4>2, <4>3 DEF LedgerView
    <3>3. LedgerView' = [LedgerView EXCEPT ![key] = [state |-> "RESERVED", rev |-> r]]
      BY <2>5, <2>7, <3>2 DEF LedgerView
    <3>4. L!Reserve(key, r)
      BY <3>1, <3>3 DEF L!Reserve
    <3> QED
      BY <2>4, <2>7, <3>4 DEF L!LedgerNext
  <2> QED
    BY <2>4, <2>6, <2>7
<1> QED
  BY <1>1, <1>2

LEMMA UpdateView ==
  ASSUME IInv, IInv', NEW q \in Requests, Update(q)
  PROVE  [L!LedgerNext]_LedgerView
<1>1. PICK i \in Ids : i = call[q].id
  BY DEF Update, IInv, CallKnows
<1>4. PICK key : key = rows[i].key
  OBVIOUS
<1>2. CASE ~Exists(i)
  BY <1>1, <1>2, SameRowsSameView DEF Update
<1>3. CASE Exists(i)
  <2>1. rows' = [rows EXCEPT ![i].state = "RELEASED"]
    BY <1>1, <1>3 DEF Update
  <2>2. /\ rows'[i].state = "RELEASED" /\ rows'[i].key = key /\ rows'[i].rev = rows[i].rev
        /\ \A j \in Ids : j # i => rows'[j] = rows[j]
    BY <1>1, <1>4, <2>1 DEF IInv, TypeOK, Row
  <2>3. \A j \in Ids : (Exists(j)' <=> Exists(j)) /\ rows'[j].key = rows[j].key
    BY <1>3, <1>4, <2>2 DEF Exists
  <2>4. \A k \in Keys : Under(k)' = Under(k)
    BY <2>3 DEF Under
  <2>5. ASSUME NEW k \in Keys, k # key
        PROVE LedgerView'[k] = LedgerView[k]
    <3>1. \A j \in Under(k) : rows'[j] = rows[j]
      BY <1>4, <2>2, <2>5 DEF Under
    <3>2. CASE Under(k) = {}
      BY <2>4, <3>2 DEF LedgerView
    <3>3. CASE Under(k) # {}
      <4>1. (CHOOSE j \in Under(k) : TRUE) \in Under(k)
        BY <3>3
      <4> QED
        BY <2>4, <3>1, <3>3, <4>1 DEF LedgerView
    <3> QED
      BY <3>2, <3>3
  <2>6. CASE key \notin Keys
    <3>1. \A k \in Keys : LedgerView'[k] = LedgerView[k]
      BY <2>5, <2>6
    <3> QED
      BY <3>1 DEF LedgerView
  <2>7. CASE key \in Keys
    <3>1. Under(key) = {i}
      BY <1>1, <1>3, <1>4, <2>7, OnlyRow DEF IInv
    <3>2. Under(key)' = {i} /\ (CHOOSE j \in {i} : TRUE) = i
      BY <2>4, <2>7, <3>1
    <3>3. LedgerView[key] = [state |-> rows[i].state, rev |-> rows[i].rev]
      BY <2>7, <3>1, <3>2 DEF LedgerView
    <3>4. LedgerView'[key] = [state |-> "RELEASED", rev |-> rows[i].rev]
      BY <2>2, <2>7, <3>2 DEF LedgerView
    <3>5. LedgerView' = [LedgerView EXCEPT ![key].state = "RELEASED"]
      <4>1. [LedgerView[key] EXCEPT !.state = "RELEASED"]
              = [state |-> "RELEASED", rev |-> rows[i].rev]
        BY <3>3
      <4>2. LedgerView' = [k \in Keys |-> IF k = key THEN LedgerView'[key] ELSE LedgerView[k]]
        BY <2>5 DEF LedgerView
      <4>3. LedgerView = [k \in Keys |-> LedgerView[k]]
        BY DEF LedgerView
      <4> QED
        BY <2>7, <3>4, <4>1, <4>2, <4>3
    <3>6. LedgerView[key].state # "NONE"
      BY <1>3, <3>3 DEF Exists
    <3>7. L!Release(key)
      BY <3>5, <3>6 DEF L!Release
    <3> QED
      BY <2>7, <3>7 DEF L!LedgerNext
  <2> QED
    BY <2>6, <2>7
<1> QED
  BY <1>2, <1>3

LEMMA NextView == IInv /\ IInv' /\ [Next]_vars => [L!LedgerNext]_LedgerView
<1> SUFFICES ASSUME IInv, IInv', [Next]_vars PROVE [L!LedgerNext]_LedgerView
  OBVIOUS
<1>1. CASE SetFailureRate \/ UNCHANGED vars
  BY <1>1, SameRowsSameView DEF SetFailureRate, vars
<1>2. ASSUME NEW q \in Requests, \/ \E k \in Keys \cup {NoKey}, r \in Revisions : ArriveCreate(q, k, r)
                                 \/ \E i \in Ids : ArriveRelease(q, i)
                                 \/ Select(q) \/ Reply(q)
      PROVE LedgerView' = LedgerView
  BY <1>2, SameRowsSameView DEF ArriveCreate, ArriveRelease, Select, Reply
<1> QED
  BY <1>1, <1>2, InsertView, UpdateView DEF Next

(***************************************************************************)
(* The service implements the Ledger: seen by idempotency key, whatever    *)
(* the interleaving and the injected failures, it makes a first            *)
(* reservation, a final release, or nothing (service.py:141-231).          *)
(***************************************************************************)
THEOREM Refinement == Spec => ImplementsLedger
<1>1. Spec => L!LedgerInit
  BY InitView DEF Spec
<1>2. Spec => [][L!LedgerNext]_LedgerView
  BY Invariance, NextView, PTL DEF Spec
<1> QED
  BY <1>1, <1>2 DEF ImplementsLedger, L!LedgerSpec
=============================================================================
