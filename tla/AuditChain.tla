----------------------------- MODULE AuditChain -----------------------------
(***************************************************************************)
(* The audit log: rows chained by hash in a trigger (migration 011), added *)
(* by any transaction that records what it did, and read back by           *)
(* verify_audit_chain.                                                     *)
(*                                                                         *)
(* A row's id comes from the table's sequence when the INSERT evaluates    *)
(* its defaults.  Only then does the BEFORE INSERT trigger take the        *)
(* advisory lock, which the transaction keeps until it ends, and read the  *)
(* tail, which is the row with the highest id.  The hash of a row is       *)
(* identified with the row: two rows never have the same one.              *)
(***************************************************************************)
EXTENDS Naturals

CONSTANTS Sessions,   \* transactions under way at the same time
          Facts,      \* what can be recorded; a row's event_key is a function of it
          MaxEvents   \* bound: ids drawn from the sequence

VARIABLES audit,      \* the committed rows
          sequence,   \* the last id drawn
          appends,    \* appends[s] is the INSERT of session s
          chainLock,  \* the sessions that hold the advisory lock
          overtaken   \* history: some row was linked behind a row with a higher id

chainVars == <<audit, sequence, appends, chainLock, overtaken>>

\* prev is the id of the row a row's prev_hash was taken from, 0 for none.
EventRow == [id : Nat, key : Facts, prev : Nat]
NoAppend == [at |-> "idle"]
Append == {NoAppend} \cup [at : {"drawn", "linked"}, id : Nat, key : Facts, prev : Nat]

ChainTypeOK ==
  /\ audit \subseteq EventRow
  /\ sequence \in Nat
  /\ appends \in [Sessions -> Append]
  /\ chainLock \subseteq Sessions
  /\ overtaken \in BOOLEAN

ChainInit ==
  /\ audit = {}
  /\ sequence = 0
  /\ appends = [s \in Sessions |-> NoAppend]
  /\ chainLock = {}
  /\ overtaken = FALSE

(***************************************************************************)
(* nextval: outside any transaction, never given back.                     *)
(***************************************************************************)
Draw(s, k) ==
  /\ appends[s].at = "idle"
  /\ sequence < MaxEvents
  /\ sequence' = sequence + 1
  /\ appends' = [appends EXCEPT ![s] =
                   [at |-> "drawn", id |-> sequence + 1, key |-> k, prev |-> 0]]
  /\ UNCHANGED <<audit, chainLock, overtaken>>

(***************************************************************************)
(* SELECT event_hash ... ORDER BY audit_event_id DESC LIMIT 1.             *)
(***************************************************************************)
IsTail(p) ==
  \/ audit = {} /\ p = 0
  \/ \E r \in audit : r.id = p /\ \A q \in audit : q.id <= p

PointAtTail(s) ==
  /\ appends[s].at = "drawn"
  /\ \E p \in {0} \cup {r.id : r \in audit} :
       /\ IsTail(p)
       /\ appends' = [appends EXCEPT ![s].at = "linked", ![s].prev = p]
       /\ overtaken' = (overtaken \/ p > appends[s].id)
  /\ UNCHANGED <<audit, sequence>>

\* Mutant of Link: the trigger without its advisory lock.
LinkUnlocked(s) == PointAtTail(s) /\ UNCHANGED chainLock

Link(s) == chainLock = {} /\ PointAtTail(s) /\ chainLock' = {s}

(***************************************************************************)
(* The end of the transaction gives the lock back.  ON CONFLICT DO NOTHING *)
(* drops a row whose event_key is there already.                           *)
(***************************************************************************)
\* Mutant of Unlock: a lock of the session, which the end of a transaction keeps.
UnlockNever(s) == UNCHANGED chainLock

Unlock(s) == chainLock' = chainLock \ {s}

Recorded(k) == \E r \in audit : r.key = k

Commit(s) ==
  /\ appends[s].at = "linked"
  /\ audit' = IF Recorded(appends[s].key)
                THEN audit
                ELSE audit \cup {[id |-> appends[s].id, key |-> appends[s].key,
                                  prev |-> appends[s].prev]}
  /\ appends' = [appends EXCEPT ![s] = NoAppend]
  /\ Unlock(s)
  /\ UNCHANGED <<sequence, overtaken>>

\* Mutant of Rollback: the row written on a connection of its own, before the change.
RollbackKeepsRow(s) ==
  /\ audit' = IF appends[s].at = "linked"
                THEN audit \cup {[id |-> appends[s].id, key |-> appends[s].key,
                                  prev |-> appends[s].prev]}
                ELSE audit
  /\ appends' = [appends EXCEPT ![s] = NoAppend]
  /\ Unlock(s)
  /\ UNCHANGED <<sequence, overtaken>>

Rollback(s) ==
  /\ appends' = [appends EXCEPT ![s] = NoAppend]
  /\ Unlock(s)
  /\ UNCHANGED <<audit, sequence, overtaken>>

ChainNext ==
  \E s \in Sessions :
    \/ \E k \in Facts : Draw(s, k)
    \/ Link(s)
    \/ Commit(s)
    \/ Rollback(s)

ChainSpec == ChainInit /\ [][ChainNext]_chainVars

(***************************************************************************)
(* verify_audit_chain: rows by id, each pointing at the one before it.     *)
(***************************************************************************)
RowBefore(r, p) ==
  \/ p = 0 /\ \A q \in audit : q.id >= r.id
  \/ \E q \in audit : /\ q.id = p
                      /\ q.id < r.id
                      /\ \A o \in audit : o.id <= q.id \/ o.id >= r.id

VerifierAccepts == \A r \in audit : RowBefore(r, r.prev)

----------------------------------------------------------------------------
(***************************************************************************)
(* As long as no transaction was overtaken between drawing its id and      *)
(* taking the lock, the verifier accepts what honest writers wrote,        *)
(* whatever they do at the same time, retry or roll back.                  *)
(***************************************************************************)
HonestLogVerifies == overtaken \/ VerifierAccepts

(***************************************************************************)
(* What the comment over the trigger promises: two rows never point at the *)
(* same tail.                                                              *)
(***************************************************************************)
NoFork == \A r, q \in audit : r.prev = q.prev => r = q
=============================================================================
