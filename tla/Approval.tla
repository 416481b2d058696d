------------------------------ MODULE Approval ------------------------------
(***************************************************************************)
(* What the agent tier promises of a proposal: somebody asks for it, a     *)
(* second person decides it once, and at most one continuation of it is    *)
(* kept, which followed the decision.  Nothing else ever happens to it.    *)
(***************************************************************************)
CONSTANTS
  Proposals,
  People,
  Deciders,        \* the people who may decide at all
  Requests,        \* what a kept continuation is known by
  None

VARIABLE approval  \* proposal |-> [asker, state, decider, kept], or None

States == {"PENDING", "APPROVED", "REJECTED"}

Init == approval = [p \in Proposals |-> None]

Propose(p, asker) ==
  /\ approval[p] = None
  /\ approval' = [approval EXCEPT ![p] =
       [asker |-> asker, state |-> "PENDING", decider |-> None, kept |-> None]]

Decide(p, person, verdict) ==
  /\ approval[p] # None
  /\ approval[p].state = "PENDING"
  /\ person \in Deciders /\ person # approval[p].asker
  /\ approval' = [approval EXCEPT ![p] =
       [asker |-> approval[p].asker, state |-> verdict, decider |-> person, kept |-> None]]

Keep(p, by) ==
  /\ approval[p] # None
  /\ approval[p].state # "PENDING"
  /\ approval[p].kept = None
  /\ approval' = [approval EXCEPT ![p] =
       [asker |-> approval[p].asker, state |-> approval[p].state, decider |-> approval[p].decider,
        kept |-> [verdict |-> approval[p].state, by |-> by]]]

Next ==
  \E p \in Proposals :
    \/ \E person \in People : Propose(p, person)
    \/ \E person \in People, verdict \in {"APPROVED", "REJECTED"} : Decide(p, person, verdict)
    \/ \E by \in Requests : Keep(p, by)

Spec == Init /\ [][Next]_approval
=============================================================================
