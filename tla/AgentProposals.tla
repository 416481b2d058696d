--------------------------- MODULE AgentProposals ---------------------------
(***************************************************************************)
(* Draft-driver proposals of the agent team: the agent_proposal rows       *)
(* (agent_team/proposals.py, migration 013) and the decision endpoint      *)
(* (app.py), whose steps are separate transactions with a model call       *)
(* between the last two.  A decision, its continuation and the decider's   *)
(* repeats may overlap, and any of them may stop half-way.                 *)
(***************************************************************************)
EXTENDS Naturals, FiniteSets

CONSTANTS
  Users,
  Approvers,       \* the humans with the controller or CFO role
  Companies,
  Proposals,       \* run ids of paused team runs
  Requests,        \* decision requests that may be under way at once
  MaxRevocations,  \* bound: people who lose a company or their account
  None

Results == [verdict : {"APPROVED", "REJECTED"}, by : Requests]
Rows == [requested_by : Users, companies : SUBSET Companies,
         state : {"PENDING", "APPROVED", "REJECTED"}, decided_by : Users \cup {None},
         resumed : Results \cup {None}]
Stages == {"DECIDED", "LOADED", "CHECKED", "CONTINUED"}
UnderWay == [proposal : Proposals, at : Stages, row : Rows \cup {None}, result : Results \cup {None}]

SeenRows == [asker : Users, state : {"PENDING", "APPROVED", "REJECTED"}, decider : Users \cup {None},
             kept : Results \cup {None}]

ASSUME NoneIsNothing ==
  /\ None \notin Users /\ None \notin Results /\ None \notin Rows
  /\ None \notin UnderWay /\ None \notin SeenRows

VARIABLES
  account,         \* user |-> [active, companies]: app_user, user_company_scope
  proposal,        \* run id |-> its agent_proposal row, or None
  request          \* decision request |-> how far it is, or None

proposalVars == <<account, proposal, request>>

Whole == [active |-> TRUE, companies |-> Companies]

ProposalInit ==
  /\ account = [u \in Users |-> Whole]
  /\ proposal = [p \in Proposals |-> None]
  /\ request = [d \in Requests |-> None]

(* An administrator takes away a company, or the account (no code of the   *)
(* repository does).                                                       *)
Revoke(u) ==
  /\ Cardinality({v \in Users : account[v] # Whole}) < MaxRevocations
  /\ \/ \E c \in account[u].companies :
          account' = [account EXCEPT ![u] = [active |-> account[u].active,
                                             companies |-> account[u].companies \ {c}]]
     \/ /\ account[u].active
        /\ account' = [account EXCEPT ![u] = [active |-> FALSE, companies |-> account[u].companies]]
  /\ UNCHANGED <<proposal, request>>

(* save_pause: the run id is unique, and a second insert answers the row.  *)
ProposalRow(asker, companies, state, decider, resumed) ==
  [requested_by |-> asker, companies |-> companies, state |-> state, decided_by |-> decider,
   resumed |-> resumed]

SavePause(p, asker, companies) ==
  IF proposal[p] = None
  THEN proposal' = [proposal EXCEPT ![p] = ProposalRow(asker, companies, "PENDING", None, None)]
  ELSE UNCHANGED proposal

(* What both the endpoint and the trigger ask of a decider: a live human   *)
(* controller or CFO, whose scope is the whole model.                      *)
MayDecide(u) == u \in Approvers /\ account[u].active /\ account[u].companies = Companies

(* The row is held FOR UPDATE from the read to the commit.  Repeating      *)
(* one's own decision goes on to the continuation; any other is refused.   *)
DecideAnew(d, u, p, verdict) ==   \* mutant: a decision is not final for who decides
  /\ request[d] = None
  /\ MayDecide(u)
  /\ proposal[p] # None
  /\ u # proposal[p].requested_by
  /\ proposal' = [proposal EXCEPT ![p] =
       ProposalRow(proposal[p].requested_by, proposal[p].companies, verdict, u, proposal[p].resumed)]
  /\ request' = [request EXCEPT ![d] =
       [proposal |-> p, at |-> "DECIDED", row |-> None, result |-> None]]
  /\ UNCHANGED account

Decide(d, u, p, verdict) ==
  /\ request[d] = None
  /\ MayDecide(u)
  /\ proposal[p] # None
  /\ u # proposal[p].requested_by
  /\ \/ /\ proposal[p].state = "PENDING"
        /\ proposal' = [proposal EXCEPT ![p] =
             ProposalRow(proposal[p].requested_by, proposal[p].companies, verdict, u, proposal[p].resumed)]
     \/ /\ proposal[p].state = verdict
        /\ proposal[p].decided_by = u
        /\ UNCHANGED proposal
  /\ request' = [request EXCEPT ![d] =
       [proposal |-> p, at |-> "DECIDED", row |-> None, result |-> None]]
  /\ UNCHANGED account

(* load: the row all that follows works from.                              *)
Load(d) ==
  /\ request[d] # None /\ request[d].at = "DECIDED"
  /\ request' = [request EXCEPT ![d] =
       [proposal |-> request[d].proposal, at |-> "LOADED",
        row |-> proposal[request[d].proposal], result |-> None]]
  /\ UNCHANGED <<account, proposal>>

(* The asker must still hold the scope the question was asked in, and a    *)
(* continuation already kept is not run again.                             *)
ScopeStands(row) ==
  account[row.requested_by].active /\ row.companies \subseteq account[row.requested_by].companies

CheckScope(d) ==
  /\ request[d] # None /\ request[d].at = "LOADED"
  /\ ScopeStands(request[d].row)
  /\ request[d].row.resumed = None
  /\ request' = [request EXCEPT ![d] =
       [proposal |-> request[d].proposal, at |-> "CHECKED", row |-> request[d].row, result |-> None]]
  /\ UNCHANGED <<account, proposal>>

(* continue_run, outside any transaction, told the verdict of the row.     *)
Continue(d) ==
  /\ request[d] # None /\ request[d].at = "CHECKED"
  /\ request' = [request EXCEPT ![d] =
       [proposal |-> request[d].proposal, at |-> "CONTINUED", row |-> request[d].row,
        result |-> [verdict |-> request[d].row.state, by |-> d]]]
  /\ UNCHANGED <<account, proposal>>

(* UPDATE ... WHERE resumed_run IS NULL: the first continuation is kept.   *)
WithResult(row, result) ==
  ProposalRow(row.requested_by, row.companies, row.state, row.decided_by, result)

KeepLast(d) ==   \* mutant: the UPDATE has no WHERE resumed_run IS NULL
  /\ request[d] # None /\ request[d].at = "CONTINUED"
  /\ LET p == request[d].proposal
     IN  proposal' = [proposal EXCEPT ![p] = WithResult(proposal[p], request[d].result)]
  /\ request' = [request EXCEPT ![d] = None]
  /\ UNCHANGED account

KeepContinuation(d) ==
  /\ request[d] # None /\ request[d].at = "CONTINUED"
  /\ LET p == request[d].proposal
     IN  IF proposal[p].resumed = None
         THEN proposal' = [proposal EXCEPT ![p] = WithResult(proposal[p], request[d].result)]
         ELSE UNCHANGED proposal
  /\ request' = [request EXCEPT ![d] = None]
  /\ UNCHANGED account

(* A refusal (no decision yet, the scope is gone, the run paused again),   *)
(* an answer already kept, or a process that stopped.  What was committed  *)
(* stays.                                                                  *)
EndRequest(d) ==
  /\ request[d] # None
  /\ request' = [request EXCEPT ![d] = None]
  /\ UNCHANGED <<account, proposal>>

ProposalNext ==
  \/ \E u \in Users : Revoke(u)
  \/ \E d \in Requests :
       \/ \E u \in Users, p \in Proposals, verdict \in {"APPROVED", "REJECTED"} : Decide(d, u, p, verdict)
       \/ Load(d)
       \/ CheckScope(d)
       \/ Continue(d)
       \/ KeepContinuation(d)
       \/ EndRequest(d)

----------------------------------------------------------------------------

(* Rows and requests have their shapes.                                    *)
ProposalTypeOK ==
  /\ account \in [Users -> [active : BOOLEAN, companies : SUBSET Companies]]
  /\ proposal \in [Proposals -> Rows \cup {None}]
  /\ request \in [Requests -> UnderWay \cup {None}]

(* The promise: a row seen as the abstract approval.                       *)
Seen(row) == [asker |-> row.requested_by, state |-> row.state, decider |-> row.decided_by,
              kept |-> row.resumed]
Approvals == [p \in Proposals |-> IF proposal[p] = None THEN None ELSE Seen(proposal[p])]

Approve == INSTANCE Approval WITH People <- Users, Deciders <- Approvers, approval <- Approvals

(* However decisions, repeats, revocations and crashes interleave, a       *)
(* proposal is only ever made, decided once by a second person with the    *)
(* right to, and continued once as decided.                                *)
ImplementsApproval == Approve!Spec

(* Whoever is asked to continue a proposal read it decided, and nothing    *)
(* about the decision has moved since; what it then got was told of it.    *)
DecisionStands ==
  \A d \in Requests : request[d] # None =>
    LET p == request[d].proposal
    IN  /\ proposal[p] # None
        /\ proposal[p].state # "PENDING"
        /\ request[d].at = "DECIDED" \/ request[d].row # None
        /\ request[d].row # None => /\ request[d].row.state = proposal[p].state
                                    /\ request[d].row.decided_by = proposal[p].decided_by
        /\ request[d].at = "CONTINUED" =>
             request[d].result = [verdict |-> proposal[p].state, by |-> d]
=============================================================================
