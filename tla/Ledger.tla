------------------------------- MODULE Ledger -------------------------------
(***************************************************************************)
(* What the Commitment Service promises to a caller that always sends an   *)
(* idempotency key (src/src/fpa_project/commitment/service.py): one        *)
(* commitment per key, ever.  The first reservation under a key wins and   *)
(* records the plan revision it was made for; asking again changes         *)
(* nothing, whatever became of it; a release is final.                     *)
(*                                                                         *)
(* CommitmentService implements this specification.  Settlement composes   *)
(* the re-forecast workflow with it.                                       *)
(***************************************************************************)
EXTENDS Naturals

CONSTANTS Keys,       \* idempotency keys
          Revisions   \* plan revisions a reservation can be made for, none of them 0

VARIABLE ledger       \* ledger[k] is the commitment made under key k

Commitment == [state : {"NONE", "RESERVED", "RELEASED"}, rev : Revisions \cup {0}]

Absent == [state |-> "NONE", rev |-> 0]

LedgerTypeOK == ledger \in [Keys -> Commitment]

LedgerInit == ledger = [k \in Keys |-> Absent]

(***************************************************************************)
(* POST /commitments with a key: INSERT ... ON CONFLICT DO NOTHING.  An    *)
(* existing commitment comes back unchanged, released or not.              *)
(***************************************************************************)
Reserve(k, r) ==
  ledger' = IF ledger[k].state = "NONE"
              THEN [ledger EXCEPT ![k] = [state |-> "RESERVED", rev |-> r]]
              ELSE ledger

(***************************************************************************)
(* DELETE /commitments/{id}: idempotent, and a 404 changes nothing.        *)
(***************************************************************************)
Release(k) ==
  ledger' = IF ledger[k].state = "NONE"
              THEN ledger
              ELSE [ledger EXCEPT ![k].state = "RELEASED"]

LedgerNext == \E k \in Keys : Release(k) \/ \E r \in Revisions : Reserve(k, r)

LedgerSpec == LedgerInit /\ [][LedgerNext]_ledger

(***************************************************************************)
(* The keys that hold budget for revision r.                               *)
(***************************************************************************)
HeldFor(r) == {k \in Keys : ledger[k].state = "RESERVED" /\ ledger[k].rev = r}
=============================================================================
