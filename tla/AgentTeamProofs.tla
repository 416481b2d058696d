--------------------------- MODULE AgentTeamProofs ---------------------------
(***************************************************************************)
(* Proofs about the agent team's questions and proposals, for any number   *)
(* of people, companies, paused runs and overlapping decision requests,    *)
(* any figures and any limit on calls.                                     *)
(***************************************************************************)
EXTENDS AgentTeam, TLAPS, FiniteSetTheorems

(***************************************************************************)
(* A request works from a row it read earlier.  That what it then writes   *)
(* follows the decision needs DecisionStands: the row read was decided,    *)
(* and a decided row's state and decider never move.                       *)
(***************************************************************************)
UndecidedIsUnkept ==
  \A p \in Proposals :
    proposal[p] # None /\ proposal[p].state = "PENDING" => proposal[p].resumed = None

IInv == TypeOK /\ DecisionStands /\ UndecidedIsUnkept

USE NoneIsNothing, TeamAssumption

----------------------------------------------------------------------------
LEMMA InitIInv == Init => IInv
<1> SUFFICES ASSUME Init PROVE IInv
  OBVIOUS
<1>1. ProposalTypeOK
  BY DEF Init, ProposalInit, ProposalTypeOK, Whole
<1>2. ChatTypeOK
  BY DEF Init, ChatTypeOK, Places, MaxSyntaxRetries
<1>3. DecisionStands
  BY DEF Init, ProposalInit, DecisionStands
<1>4. UndecidedIsUnkept
  BY DEF Init, ProposalInit, UndecidedIsUnkept
<1> QED
  BY <1>1, <1>2, <1>3, <1>4 DEF IInv, TypeOK

LEMMA RequestKinds ==
  ASSUME NEW p \in Proposals, NEW s \in Stages, NEW w \in Rows \cup {None},
         NEW r \in Results \cup {None}
  PROVE  [proposal |-> p, at |-> s, row |-> w, result |-> r] \in UnderWay
BY DEF UnderWay

LEMMA RowParts ==
  ASSUME ProposalTypeOK, NEW p \in Proposals, proposal[p] # None
  PROVE  /\ proposal[p] \in Rows
         /\ proposal[p].requested_by \in Users
         /\ proposal[p].companies \in SUBSET Companies
         /\ proposal[p].state \in {"PENDING", "APPROVED", "REJECTED"}
         /\ proposal[p].decided_by \in Users \cup {None}
         /\ proposal[p].resumed \in Results \cup {None}
BY DEF ProposalTypeOK, Rows

LEMMA RequestParts ==
  ASSUME ProposalTypeOK, NEW d \in Requests, request[d] # None
  PROVE  /\ request[d].proposal \in Proposals
         /\ request[d].row \in Rows \cup {None}
         /\ request[d].result \in Results \cup {None}
BY DEF ProposalTypeOK, UnderWay

(***************************************************************************)
(* One row is written, the others stay: the abstract step is the one that  *)
(* writes the same row.                                                    *)
(***************************************************************************)
LEMMA OneRowSeen ==
  ASSUME ProposalTypeOK, NEW p \in Proposals, NEW row \in Rows,
         proposal' = [proposal EXCEPT ![p] = row]
  PROVE  Approvals' = [Approvals EXCEPT ![p] = Seen(row)]
BY DEF ProposalTypeOK, Approvals

LEMMA SeenParts ==
  ASSUME ProposalTypeOK, NEW p \in Proposals
  PROVE  /\ proposal[p] = None => Approvals[p] = None
         /\ proposal[p] # None =>
              /\ Approvals[p] = Seen(proposal[p])
              /\ Approvals[p] # None
              /\ Approvals[p].asker = proposal[p].requested_by
              /\ Approvals[p].state = proposal[p].state
              /\ Approvals[p].decider = proposal[p].decided_by
              /\ Approvals[p].kept = proposal[p].resumed
<1>1. proposal[p] # None => Seen(proposal[p]) \in SeenRows
  BY RowParts DEF Seen, SeenRows
<1> QED
  BY <1>1 DEF Approvals, Seen

(* What every step has to keep, and be in the abstract.                    *)
Sound == ProposalTypeOK' /\ DecisionStands' /\ UndecidedIsUnkept' /\ [Approve!Next]_Approvals

(* Nothing of the rows moves: the abstract stutters.                       *)
LEMMA RowsStay ==
  ASSUME proposal' = proposal
  PROVE  Approvals' = Approvals
BY DEF Approvals

LEMMA AllStay ==
  ASSUME IInv, UNCHANGED proposalVars
  PROVE  Sound
<1>1. Approvals' = Approvals
  BY RowsStay DEF proposalVars
<1> QED
  BY <1>1 DEF Sound, IInv, TypeOK, ProposalTypeOK, DecisionStands, UndecidedIsUnkept, proposalVars

LEMMA RevokeSound ==
  ASSUME IInv, NEW u \in Users, Revoke(u)
  PROVE  Sound
<1>1. Approvals' = Approvals
  BY RowsStay DEF Revoke
<1>2. account' \in [Users -> [active : BOOLEAN, companies : SUBSET Companies]]
  <2>1. [active |-> FALSE, companies |-> account[u].companies]
          \in [active : BOOLEAN, companies : SUBSET Companies]
    BY DEF IInv, TypeOK, ProposalTypeOK
  <2>2. \A c : [active |-> account[u].active, companies |-> account[u].companies \ {c}]
          \in [active : BOOLEAN, companies : SUBSET Companies]
    BY DEF IInv, TypeOK, ProposalTypeOK
  <2>3. PICK a \in [active : BOOLEAN, companies : SUBSET Companies] :
          account' = [account EXCEPT ![u] = a]
    BY <2>1, <2>2 DEF Revoke
  <2> QED
    BY <2>3 DEF IInv, TypeOK, ProposalTypeOK
<1> QED
  BY <1>1, <1>2 DEF Revoke, Sound, IInv, TypeOK, ProposalTypeOK, DecisionStands, UndecidedIsUnkept

(* A request moves on and no row does.                                     *)
LEMMA RequestMoves ==
  ASSUME IInv, NEW d \in Requests, NEW r \in UnderWay \cup {None},
         request' = [request EXCEPT ![d] = r], proposal' = proposal, account' = account,
         r # None =>
           /\ proposal[r.proposal] # None
           /\ proposal[r.proposal].state # "PENDING"
           /\ r.at = "DECIDED" \/ r.row # None
           /\ r.row # None => /\ r.row.state = proposal[r.proposal].state
                              /\ r.row.decided_by = proposal[r.proposal].decided_by
           /\ r.at = "CONTINUED" => r.result = [verdict |-> proposal[r.proposal].state, by |-> d]
  PROVE  Sound
<1>1. Approvals' = Approvals
  BY RowsStay
<1>2. ProposalTypeOK'
  BY DEF IInv, TypeOK, ProposalTypeOK
<1>3. DecisionStands'
  BY DEF IInv, TypeOK, ProposalTypeOK, DecisionStands
<1>4. UndecidedIsUnkept'
  BY DEF IInv, UndecidedIsUnkept
<1> QED
  BY <1>1, <1>2, <1>3, <1>4 DEF Sound

LEMMA LoadSound ==
  ASSUME IInv, NEW d \in Requests, Load(d)
  PROVE  Sound
<1> DEFINE p == request[d].proposal
           r == [proposal |-> p, at |-> "LOADED", row |-> proposal[p], result |-> None]
<1>1. p \in Proposals /\ proposal[p] \in Rows \cup {None}
  BY RequestParts DEF Load, IInv, TypeOK, ProposalTypeOK
<1>2. r \in UnderWay
  BY <1>1, RequestKinds DEF Stages
<1>3. proposal[p] # None /\ proposal[p].state # "PENDING"
  BY DEF IInv, DecisionStands, Load
<1> QED
  BY <1>2, <1>3, RequestMoves DEF Load

LEMMA CheckScopeSound ==
  ASSUME IInv, NEW d \in Requests, CheckScope(d)
  PROVE  Sound
<1> DEFINE r == [proposal |-> request[d].proposal, at |-> "CHECKED", row |-> request[d].row,
                 result |-> None]
<1>1. r \in UnderWay
  BY RequestParts, RequestKinds DEF CheckScope, IInv, TypeOK, Stages
<1> QED
  BY <1>1, RequestMoves DEF CheckScope, IInv, DecisionStands

LEMMA ContinueSound ==
  ASSUME IInv, NEW d \in Requests, Continue(d)
  PROVE  Sound
<1> DEFINE p == request[d].proposal
           result == [verdict |-> request[d].row.state, by |-> d]
           r == [proposal |-> p, at |-> "CONTINUED", row |-> request[d].row, result |-> result]
<1>1. /\ p \in Proposals /\ proposal[p] # None /\ proposal[p].state # "PENDING"
      /\ request[d].row # None => request[d].row.state = proposal[p].state
  BY RequestParts DEF Continue, IInv, TypeOK, DecisionStands
<1>2. request[d].row # None
  BY DEF Continue, IInv, DecisionStands
<1>3. result \in Results
  BY <1>1, <1>2, RowParts DEF Results, IInv, TypeOK
<1>4. r \in UnderWay
  BY <1>1, <1>3, RequestParts, RequestKinds DEF Continue, IInv, TypeOK, Stages
<1> QED
  BY <1>1, <1>2, <1>4, RequestMoves DEF Continue, IInv, DecisionStands

LEMMA EndRequestSound ==
  ASSUME IInv, NEW d \in Requests, EndRequest(d)
  PROVE  Sound
BY RequestMoves DEF EndRequest


(***************************************************************************)
(* A row is written: typed, its requests' decisions still standing, and    *)
(* the abstract writes the same.                                           *)
(***************************************************************************)
LEMMA DecideSound ==
  ASSUME IInv, NEW d \in Requests, NEW u \in Users, NEW p \in Proposals,
         NEW verdict \in {"APPROVED", "REJECTED"}, Decide(d, u, p, verdict)
  PROVE  Sound
<1> DEFINE r == [proposal |-> p, at |-> "DECIDED", row |-> None, result |-> None]
<1>1. r \in UnderWay /\ r # None
  BY RequestKinds DEF Stages
<1>2. CASE proposal' = proposal /\ proposal[p].state = verdict
  BY <1>1, <1>2, RequestMoves DEF Decide
<1>3. CASE /\ proposal[p].state = "PENDING"
           /\ proposal' = [proposal EXCEPT ![p] =
                ProposalRow(proposal[p].requested_by, proposal[p].companies, verdict, u, proposal[p].resumed)]
  <2> DEFINE row == ProposalRow(proposal[p].requested_by, proposal[p].companies, verdict, u,
                                proposal[p].resumed)
  <2>1. /\ row \in Rows /\ row # None /\ row.requested_by = proposal[p].requested_by
        /\ row.state = verdict /\ row.decided_by = u /\ row.resumed = proposal[p].resumed
    <3>1. /\ proposal[p].requested_by \in Users /\ proposal[p].companies \in SUBSET Companies
          /\ proposal[p].resumed \in Results \cup {None}
      BY RowParts DEF Decide, IInv, TypeOK
    <3>2. verdict \in {"PENDING", "APPROVED", "REJECTED"} /\ u \in Users \cup {None}
      OBVIOUS
    <3> QED
      BY <3>1, <3>2 DEF ProposalRow, Rows
  <2> HIDE DEF row
  <2>2. ProposalTypeOK'
    BY <1>1, <1>3, <2>1 DEF Decide, IInv, TypeOK, ProposalTypeOK, row
  <2>3. DecisionStands'
    <3>1. request' = [request EXCEPT ![d] = r] /\ proposal' = [proposal EXCEPT ![p] = row]
      BY <1>3 DEF Decide, row
    <3>2. proposal'[p] = row /\ row.state # "PENDING"
      BY <2>1, <3>1 DEF IInv, TypeOK, ProposalTypeOK
    <3>3. ASSUME NEW e \in Requests, e # d, request[e] # None
          PROVE  /\ request'[e] = request[e] /\ request[e].proposal \in Proposals
                 /\ request[e].proposal # p /\ proposal'[request[e].proposal] = proposal[request[e].proposal]
      <4>1. request[e].proposal \in Proposals /\ proposal[request[e].proposal].state # "PENDING"
        BY <3>3, RequestParts DEF IInv, TypeOK, DecisionStands
      <4> QED
        BY <1>3, <3>1, <3>3, <4>1 DEF IInv, TypeOK, ProposalTypeOK
    <3>4. request'[d] = r
      BY <3>1 DEF IInv, TypeOK, ProposalTypeOK
    <3>5. ASSUME NEW e \in Requests, e # d
          PROVE  request'[e] = request[e]
      BY <3>1, <3>5 DEF IInv, TypeOK, ProposalTypeOK
    <3> QED
      BY <2>1, <3>2, <3>3, <3>4, <3>5 DEF IInv, DecisionStands
  <2>4. UndecidedIsUnkept'
    BY <1>3, <2>1 DEF IInv, TypeOK, ProposalTypeOK, UndecidedIsUnkept, row
  <2>5. Approve!Decide(p, u, verdict)
    <3>1. Approvals' = [Approvals EXCEPT ![p] = Seen(row)]
      BY <1>3, <2>1, OneRowSeen DEF IInv, TypeOK, row
    <3>2. Seen(row) = [asker |-> Approvals[p].asker, state |-> verdict, decider |-> u, kept |-> None]
      BY <1>3, <2>1, SeenParts DEF Seen, Decide, IInv, TypeOK, UndecidedIsUnkept
    <3>3. Approvals[p] # None /\ Approvals[p].state = "PENDING" /\ u # Approvals[p].asker
      BY <1>3, SeenParts DEF Decide, IInv, TypeOK
    <3> QED
      BY <3>1, <3>2, <3>3 DEF Approve!Decide, Decide, MayDecide
  <2> QED
    BY <2>2, <2>3, <2>4, <2>5 DEF Sound, Approve!Next
<1> QED
  BY <1>2, <1>3 DEF Decide


LEMMA KeepContinuationSound ==
  ASSUME IInv, NEW d \in Requests, KeepContinuation(d)
  PROVE  Sound
<1> DEFINE p == request[d].proposal
           row == WithResult(proposal[p], request[d].result)
<1>1. /\ p \in Proposals /\ proposal[p] # None /\ proposal[p].state # "PENDING"
      /\ request[d].result = [verdict |-> proposal[p].state, by |-> d]
  BY RequestParts DEF KeepContinuation, IInv, TypeOK, DecisionStands
<1>2. CASE proposal' = proposal
  BY <1>2, RequestMoves DEF KeepContinuation
<1>3. CASE proposal[p].resumed = None /\ proposal' = [proposal EXCEPT ![p] = row]
  <2>1. request[d].result \in Results \cup {None}
    BY RequestParts DEF KeepContinuation, IInv, TypeOK
  <2>2. /\ row \in Rows /\ row # None /\ row.requested_by = proposal[p].requested_by
        /\ row.state = proposal[p].state /\ row.decided_by = proposal[p].decided_by
        /\ row.resumed = request[d].result
    <3>1. /\ proposal[p].requested_by \in Users /\ proposal[p].companies \in SUBSET Companies
          /\ proposal[p].state \in {"PENDING", "APPROVED", "REJECTED"}
          /\ proposal[p].decided_by \in Users \cup {None}
      BY <1>1, RowParts DEF IInv, TypeOK
    <3> QED
      BY <2>1, <3>1 DEF WithResult, ProposalRow, Rows
  <2> HIDE DEF row
  <2>3. ProposalTypeOK'
    BY <1>3, <2>2 DEF KeepContinuation, IInv, TypeOK, ProposalTypeOK
  <2>4. DecisionStands'
    BY <1>1, <1>3, <2>2 DEF KeepContinuation, IInv, TypeOK, ProposalTypeOK, DecisionStands
  <2>5. UndecidedIsUnkept'
    BY <1>1, <1>3, <2>2 DEF IInv, TypeOK, ProposalTypeOK, UndecidedIsUnkept
  <2>6. Approve!Keep(p, d)
    <3>1. Approvals' = [Approvals EXCEPT ![p] = Seen(row)]
      BY <1>1, <1>3, <2>2, OneRowSeen DEF IInv, TypeOK
    <3>2. request[d].result = [verdict |-> proposal[p].state, by |-> d]
      BY <1>1
    <3>3. /\ Approvals[p] # None /\ Approvals[p].state # "PENDING" /\ Approvals[p].kept = None
          /\ Approvals[p].asker = proposal[p].requested_by /\ Approvals[p].state = proposal[p].state
          /\ Approvals[p].decider = proposal[p].decided_by
      BY <1>1, <1>3, SeenParts DEF IInv, TypeOK
    <3> QED
      BY <2>2, <3>1, <3>2, <3>3 DEF Approve!Keep, Seen
  <2> QED
    BY <1>1, <2>3, <2>4, <2>5, <2>6 DEF Sound, Approve!Next
<1> QED
  BY <1>2, <1>3 DEF KeepContinuation


LEMMA ProposalNextSound ==
  ASSUME IInv, ProposalNext
  PROVE  Sound
BY RevokeSound, DecideSound, LoadSound, CheckScopeSound, ContinueSound, KeepContinuationSound,
   EndRequestSound DEF ProposalNext

(***************************************************************************)
(* The question's side.  An attempt that is not over is the first or the   *)
(* second, so its run id is a proposal's key.                              *)
(***************************************************************************)
LEMMA AttemptRuns ==
  ASSUME ChatTypeOK, at # "IDLE"
  PROVE  attempt \in 1 .. MaxSyntaxRetries /\ RunOf[attempt] \in Proposals
BY DEF ChatTypeOK, MaxSyntaxRetries

LEMMA FailedAttemptTyped ==
  ASSUME ChatTypeOK, at # "IDLE", at # "DONE", FailedAttempt
  PROVE  /\ at' \in {"TURN", "DONE"}
         /\ attempt' \in 1 .. MaxSyntaxRetries /\ turn' \in 0 .. CallLimit
         /\ response' \in Responses \cup {None}
         /\ at' = "DONE" <=> response' # None
         /\ response' # None => response'.status = "VALIDATION_ERROR"
<1>1. attempt \in 1 .. MaxSyntaxRetries
  BY AttemptRuns
<1>2. Response("VALIDATION_ERROR", {}, {}) \in Responses
  BY DEF Response, Responses, Statuses
<1>3. Response("VALIDATION_ERROR", {}, {}).status = "VALIDATION_ERROR"
  BY DEF Response
<1> HIDE DEF Response
<1> QED
  BY <1>1, <1>2, <1>3 DEF FailedAttempt, ChatTypeOK, MaxSyntaxRetries

LEMMA EndsTyped ==
  ASSUME ChatTypeOK, NEW status \in Statuses, NEW rows \in SUBSET Figures,
         NEW cited \in SUBSET Figures, Ends(status, rows, cited)
  PROVE  /\ at' = "DONE" /\ attempt' = attempt /\ turn' = turn
         /\ response' \in Responses /\ response' # None
         /\ response'.status = status /\ response'.rows = rows /\ response'.cited = cited
BY DEF Ends, Response, Responses

LEMMA PassTyped ==
  ASSUME ChatTypeOK, at # "IDLE", NEW kind \in {"messages", "rows"}, Pass(kind)
  PROVE  disclosed' \subseteq Payloads /\ sent' \subseteq Payloads
<1>1. Payload(kind) \in Payloads
  BY AttemptRuns DEF Payload, Payloads, ChatTypeOK
<1> QED
  BY <1>1 DEF Pass, ChatTypeOK

LEMMA ChatTyped ==
  ASSUME ChatTypeOK, ChatNext
  PROVE  ChatTypeOK'
<1>1. CASE LedgerMoves
  BY <1>1 DEF LedgerMoves, ChatTypeOK
<1>2. CASE \E companies \in SUBSET Companies : Ask(companies)
  BY <1>2 DEF Ask, ChatTypeOK, MaxSyntaxRetries, Places
<1>3. CASE SendToModel
  BY <1>3, PassTyped DEF SendToModel, ChatTypeOK, Places
<1>4. CASE Blocked
  <2>1. CASE FailedAttempt
    BY <1>4, <2>1, FailedAttemptTyped DEF Blocked, ChatTypeOK, Places
  <2>2. CASE Ends("REFUSED", {}, {})
    BY <1>4, <2>2, EndsTyped DEF Blocked, ChatTypeOK, Places, Statuses
  <2> QED
    BY <1>4, <2>1, <2>2 DEF Blocked
<1>5. CASE CallTool
  BY <1>5 DEF CallTool, ChatTypeOK, Places
<1>6. CASE ReturnRows
  BY <1>6, PassTyped DEF ReturnRows, ChatTypeOK, Places
<1>7. CASE Pause
  <2>1. CASE FailedAttempt
    BY <1>7, <2>1, FailedAttemptTyped DEF Pause, ChatTypeOK, Places
  <2>2. CASE Ends("AWAITING_APPROVAL", {}, {})
    BY <1>7, <2>2, EndsTyped DEF Pause, ChatTypeOK, Places, Statuses
  <2> QED
    BY <1>7, <2>1, <2>2 DEF Pause
<1>8. ASSUME NEW figures \in SUBSET Figures, Answer(figures)
      PROVE  ChatTypeOK'
  <2>1. CASE FailedAttempt /\ UNCHANGED claims
    BY <1>8, <2>1, FailedAttemptTyped DEF Answer, ChatTypeOK, Places
  <2>2. CASE at' = "ANSWERED" /\ claims' = figures /\ UNCHANGED <<attempt, turn, response>>
    BY <1>8, <2>2 DEF Answer, ChatTypeOK, Places
  <2> QED
    BY <1>8, <2>1, <2>2 DEF Answer
<1>9. CASE Finalize
  <2>1. CASE FailedAttempt
    BY <1>9, <2>1, FailedAttemptTyped DEF Finalize, ChatTypeOK, Places
  <2>2. CASE Ends("SUCCESS", {figure}, claims)
    <3>1. {figure} \in SUBSET Figures /\ claims \in SUBSET Figures /\ "SUCCESS" \in Statuses
      BY DEF ChatTypeOK, Statuses
    <3> QED
      BY <1>9, <2>2, <3>1, EndsTyped DEF Finalize, ChatTypeOK, Places
  <2> QED
    BY <1>9, <2>1, <2>2 DEF Finalize
<1>10. CASE AnswerWithoutQuery
  <2>1. PICK status \in {"OUT_OF_SCOPE", "DRAFT"} : Ends(status, {}, {})
    BY <1>10 DEF AnswerWithoutQuery
  <2> QED
    BY <1>10, <2>1, EndsTyped DEF AnswerWithoutQuery, ChatTypeOK, Places, Statuses
<1>11. CASE ModelFails
  <2>1. CASE FailedAttempt
    BY <1>11, <2>1, FailedAttemptTyped DEF ModelFails, ChatTypeOK, Places
  <2>2. CASE Ends("REFUSED", {}, {})
    BY <1>11, <2>2, EndsTyped DEF ModelFails, ChatTypeOK, Places, Statuses
  <2> QED
    BY <1>11, <2>1, <2>2 DEF ModelFails
<1> QED
  BY <1>1, <1>2, <1>3, <1>4, <1>5, <1>6, <1>7, <1>8, <1>9, <1>10, <1>11 DEF ChatNext


(***************************************************************************)
(* A pause stores a row nobody has decided, or finds the one there is.     *)
(***************************************************************************)
LEMMA SavePauseSound ==
  ASSUME IInv, NEW p \in Proposals, SavePause(p, Asker, scope), UNCHANGED <<account, request>>
  PROVE  Sound
<1> DEFINE row == ProposalRow(Asker, scope, "PENDING", None, None)
<1>1. CASE proposal[p] # None
  BY <1>1, AllStay DEF SavePause, proposalVars
<1>2. CASE proposal[p] = None
  <2>1. proposal' = [proposal EXCEPT ![p] = row]
    BY <1>2 DEF SavePause
  <2>2. row \in Rows /\ row # None
    BY DEF ProposalRow, Rows, IInv, TypeOK, ChatTypeOK
  <2>3. row.requested_by = Asker /\ row.decided_by = None /\ row.resumed = None /\ row.state = "PENDING"
    BY DEF ProposalRow
  <2> HIDE DEF row
  <2>4. ProposalTypeOK'
    BY <2>1, <2>2 DEF IInv, TypeOK, ProposalTypeOK
  <2>5. DecisionStands'
    <3>1. ASSUME NEW d \in Requests, request[d] # None
          PROVE  proposal'[request[d].proposal] = proposal[request[d].proposal]
      BY <1>2, <2>1, <3>1, RequestParts DEF IInv, TypeOK, ProposalTypeOK, DecisionStands
    <3> QED
      BY <3>1 DEF IInv, DecisionStands
  <2>6. UndecidedIsUnkept'
    BY <2>1, <2>3 DEF IInv, TypeOK, ProposalTypeOK, UndecidedIsUnkept
  <2>7. Approve!Propose(p, Asker)
    <3>1. Approvals' = [Approvals EXCEPT ![p] = Seen(row)]
      BY <2>1, <2>2, OneRowSeen DEF IInv, TypeOK
    <3>2. Approvals[p] = None
      BY <1>2, SeenParts DEF IInv, TypeOK
    <3> QED
      BY <2>3, <3>1, <3>2 DEF Approve!Propose, Seen
  <2> QED
    BY <2>4, <2>5, <2>6, <2>7 DEF Sound, Approve!Next
<1> QED
  BY <1>1, <1>2

LEMMA ChatSound ==
  ASSUME IInv, ChatNext
  PROVE  Sound
<1>1. CASE Pause
  <2>1. CASE proposal' = proposal
    BY <1>1, <2>1, AllStay DEF Pause, proposalVars
  <2>2. CASE SavePause(RunOf[attempt], Asker, scope)
    <3>1. RunOf[attempt] \in Proposals
      BY <1>1, AttemptRuns DEF Pause, IInv, TypeOK
    <3> QED
      BY <1>1, <2>2, <3>1, SavePauseSound DEF Pause
  <2> QED
    BY <1>1, <2>1, <2>2 DEF Pause
<1>2. CASE ~Pause
  <2>1. UNCHANGED proposalVars
    BY <1>2 DEF ChatNext, LedgerMoves, Ask, SendToModel, Blocked, CallTool, ReturnRows, Answer,
       Finalize, AnswerWithoutQuery, ModelFails
  <2> QED
    BY <2>1, AllStay
<1> QED
  BY <1>1, <1>2

LEMMA NextIInv == IInv /\ [Next]_vars => IInv' /\ [Approve!Next]_Approvals
<1> SUFFICES ASSUME IInv, [Next]_vars PROVE IInv' /\ [Approve!Next]_Approvals
  OBVIOUS
<1>1. CASE ChatNext
  BY <1>1, ChatSound, ChatTyped DEF IInv, TypeOK, Sound
<1>2. CASE ProposalNext /\ UNCHANGED chatVars
  <2>1. ChatTypeOK'
    BY <1>2 DEF IInv, TypeOK, ChatTypeOK, chatVars
  <2> QED
    BY <1>2, <2>1, ProposalNextSound DEF IInv, TypeOK, Sound
<1>3. CASE UNCHANGED vars
  <2>1. ChatTypeOK'
    BY <1>3 DEF IInv, TypeOK, ChatTypeOK, chatVars, vars
  <2> QED
    BY <1>3, <2>1, AllStay DEF IInv, TypeOK, Sound, vars
<1> QED
  BY <1>1, <1>2, <1>3 DEF Next

----------------------------------------------------------------------------
LEMMA IInvAlways == Spec => []IInv
<1>1. IInv /\ [Next]_vars => IInv'
  BY NextIInv
<1> QED
  BY InitIInv, <1>1, PTL DEF Spec

(* Every reachable state has the shapes of TypeOK, which says too that a   *)
(* question makes at most two attempts and ends with one response.         *)
THEOREM TypeCorrect == Spec => []TypeOK
<1>1. IInv => TypeOK
  BY DEF IInv
<1> QED
  BY IInvAlways, <1>1, PTL

(* Whoever is asked to continue a proposal holds it decided, as it is.     *)
THEOREM DecisionStandsAlways == Spec => []DecisionStands
<1>1. IInv => DecisionStands
  BY DEF IInv
<1> QED
  BY IInvAlways, <1>1, PTL

(* Whatever interleaves, proposals only do what Approval lets them: made,  *)
(* decided once by a second person, continued once as decided.             *)
THEOREM Refinement == Spec => ImplementsApproval
<1>1. Init => Approve!Init
  BY DEF Init, ProposalInit, Approve!Init, Approvals
<1>2. IInv /\ [Next]_vars => [Approve!Next]_Approvals
  BY NextIInv
<1> QED
  BY IInvAlways, <1>1, <1>2, PTL DEF Spec, ImplementsApproval, Approve!Spec


----------------------------------------------------------------------------
(***************************************************************************)
(* That what a response says is stored is the asker's own needs to know    *)
(* who made every row: only the question did, over its scope, and none     *)
(* before it was asked.                                                    *)
(***************************************************************************)
Owned ==
  /\ \A p \in Proposals : proposal[p] # None =>
       proposal[p].requested_by = Asker /\ proposal[p].companies = scope /\ proposal[p].decided_by # Asker
  /\ at = "IDLE" => \A p \in Proposals : proposal[p] = None

RowsOwned(p) ==
  proposal'[p] # None =>
    /\ proposal[p] # None
    /\ proposal'[p].requested_by = proposal[p].requested_by
    /\ proposal'[p].companies = proposal[p].companies
    /\ proposal'[p].decided_by \in {proposal[p].decided_by} \cup (Users \ {proposal[p].requested_by})

LEMMA RowsKept ==
  ASSUME IInv, ProposalNext, NEW p \in Proposals
  PROVE  RowsOwned(p) /\ (proposal[p] # None => proposal'[p] # None)
<1>1. CASE UNCHANGED proposal
  BY <1>1 DEF RowsOwned
<1>2. ASSUME NEW d \in Requests, NEW u \in Users, NEW q \in Proposals,
             NEW verdict \in {"APPROVED", "REJECTED"}, Decide(d, u, q, verdict)
      PROVE  RowsOwned(p) /\ (proposal[p] # None => proposal'[p] # None)
  <2>1. Sound
    BY <1>2, DecideSound
  <2>2. proposal' \in [Proposals -> Rows \cup {None}]
    BY <2>1 DEF Sound, ProposalTypeOK
  <2> DEFINE row == ProposalRow(proposal[q].requested_by, proposal[q].companies, verdict, u, proposal[q].resumed)
  <2>3. CASE proposal' = [proposal EXCEPT ![q] = row]
    <3>1. row.requested_by = proposal[q].requested_by /\ row.companies = proposal[q].companies
          /\ row.decided_by = u /\ u # proposal[q].requested_by /\ proposal[q] # None
      BY <1>2 DEF ProposalRow, Decide
    <3>2. row \in Rows
      BY <1>2, RowParts DEF ProposalRow, Rows, IInv, TypeOK, Decide
    <3> HIDE DEF row
    <3> QED
      BY <2>3, <3>1, <3>2 DEF RowsOwned, IInv, TypeOK, ProposalTypeOK
  <2> QED
    BY <1>1, <1>2, <2>3 DEF Decide
<1>3. ASSUME NEW d \in Requests, KeepContinuation(d)
      PROVE  RowsOwned(p) /\ (proposal[p] # None => proposal'[p] # None)
  <2> DEFINE q == request[d].proposal
             row == WithResult(proposal[q], request[d].result)
  <2>1. q \in Proposals /\ proposal[q] # None /\ request[d].result \in Results \cup {None}
    BY <1>3, RequestParts DEF KeepContinuation, IInv, TypeOK, DecisionStands
  <2>2. CASE proposal' = [proposal EXCEPT ![q] = row]
    <3>1. row.requested_by = proposal[q].requested_by /\ row.companies = proposal[q].companies
          /\ row.decided_by = proposal[q].decided_by
      BY DEF ProposalRow, WithResult
    <3>2. row \in Rows
      BY <2>1, RowParts DEF ProposalRow, WithResult, Rows, IInv, TypeOK
    <3> HIDE DEF row
    <3> QED
      BY <2>1, <2>2, <3>1, <3>2 DEF RowsOwned, IInv, TypeOK, ProposalTypeOK
  <2> QED
    BY <1>1, <1>3, <2>2 DEF KeepContinuation
<1> QED
  BY <1>1, <1>2, <1>3 DEF ProposalNext, Revoke, Load, CheckScope, Continue, EndRequest

(* The parts of AnswersAreBacked, by what a response says.                 *)
ResponseBacked ==
  response # None =>
    /\ response.status = "SUCCESS" => response.cited \subseteq response.rows /\ Cardinality(response.rows) = 1
    /\ response.status = "AWAITING_APPROVAL" => proposal[RunOf[attempt]] # None

BackedInv == Owned /\ sent \subseteq disclosed /\ ResponseBacked

LEMMA FailedIsBacked ==
  ASSUME IInv, at # "IDLE", at # "DONE", FailedAttempt
  PROVE  ResponseBacked' /\ at' # "IDLE"
BY FailedAttemptTyped DEF ResponseBacked, IInv, TypeOK

LEMMA EndIsBacked ==
  ASSUME IInv, NEW status \in Statuses \ {"SUCCESS", "AWAITING_APPROVAL"}, Ends(status, {}, {})
  PROVE  ResponseBacked' /\ at' # "IDLE"
BY EndsTyped DEF ResponseBacked, IInv, TypeOK

LEMMA OwnedStays ==
  ASSUME Owned, UNCHANGED <<proposal, scope>>, at' # "IDLE"
  PROVE  Owned'
BY DEF Owned

LEMMA InitBacked == Init => BackedInv
BY DEF Init, ProposalInit, BackedInv, Owned, ResponseBacked

(* A step of the question that leaves the rows, its scope and what was     *)
(* sent alone, and comes to an end that is backed.                         *)
LEMMA QuestionStep ==
  ASSUME BackedInv, UNCHANGED <<proposal, scope, disclosed, sent>>, at' # "IDLE", ResponseBacked'
  PROVE  BackedInv'
BY OwnedStays DEF BackedInv

(* A payload is recorded and sent in one step.                             *)
LEMMA PassStep ==
  ASSUME IInv, BackedInv, at # "DONE", UNCHANGED <<proposal, scope, response>>, at' # "IDLE",
         NEW kind \in {"messages", "rows"}, Pass(kind)
  PROVE  BackedInv'
<1>1. ResponseBacked'
  BY DEF IInv, TypeOK, ChatTypeOK, ResponseBacked
<1>2. sent' \subseteq disclosed'
  BY DEF Pass, BackedInv
<1> QED
  BY <1>1, <1>2, OwnedStays DEF BackedInv

(* A pause: its row is the asker's, over the question's scope, undecided   *)
(* when it is new.                                                         *)
LEMMA PauseStep ==
  ASSUME IInv, BackedInv, Pause
  PROVE  BackedInv'
<1>1. RunOf[attempt] \in Proposals /\ at # "IDLE" /\ at # "DONE"
  BY AttemptRuns DEF Pause, IInv, TypeOK
<1>2. UNCHANGED <<scope, disclosed, sent>>
  BY DEF Pause
<1>3. CASE proposal' = proposal /\ FailedAttempt
  BY <1>1, <1>2, <1>3, FailedIsBacked, QuestionStep
<1>4. CASE SavePause(RunOf[attempt], Asker, scope)
  <2> DEFINE run == RunOf[attempt]
             row == ProposalRow(Asker, scope, "PENDING", None, None)
  <2>1. proposal'[run] # None /\ at' # "IDLE" => Owned'
    <3>1. CASE proposal[run] # None
      BY <1>2, <1>4, <3>1, OwnedStays DEF SavePause, BackedInv
    <3>2. CASE proposal[run] = None
      <4>1. proposal' = [proposal EXCEPT ![run] = row]
        BY <1>4, <3>2 DEF SavePause
      <4>2. row.requested_by = Asker /\ row.companies = scope /\ row.decided_by # Asker
        BY DEF ProposalRow
      <4> HIDE DEF row
      <4> QED
        BY <1>1, <1>2, <4>1, <4>2 DEF BackedInv, Owned, IInv, TypeOK, ProposalTypeOK
    <3> QED
      BY <3>1, <3>2
  <2>2. proposal'[run] # None
    <3>1. row \in Rows
      BY DEF ProposalRow, Rows, IInv, TypeOK, ChatTypeOK
    <3> QED
      BY <1>1, <1>4, <3>1 DEF SavePause, IInv, TypeOK, ProposalTypeOK
  <2>3. CASE FailedAttempt
    BY <1>1, <1>2, <2>1, <2>2, <2>3, FailedIsBacked DEF BackedInv
  <2>4. CASE Ends("AWAITING_APPROVAL", {}, {})
    <3>1. /\ at' = "DONE" /\ attempt' = attempt /\ response'.status = "AWAITING_APPROVAL"
      BY <2>4, EndsTyped DEF IInv, TypeOK, Statuses
    <3> QED
      BY <1>2, <2>1, <2>2, <3>1 DEF BackedInv, ResponseBacked
  <2> QED
    BY <1>4, <2>3, <2>4, <1>3 DEF Pause, SavePause
<1> QED
  BY <1>3, <1>4 DEF Pause

(* An answer succeeds on one reading of the ledger that holds its figures. *)
LEMMA FinalizeStep ==
  ASSUME IInv, BackedInv, Finalize
  PROVE  BackedInv'
<1>1. CASE FailedAttempt
  BY <1>1, FailedIsBacked, QuestionStep DEF Finalize, proposalVars
<1>2. CASE Verified({figure}) /\ Ends("SUCCESS", {figure}, claims)
  <2>1. {figure} \in SUBSET Figures /\ claims \in SUBSET Figures /\ "SUCCESS" \in Statuses
    BY DEF IInv, TypeOK, ChatTypeOK, Statuses
  <2>2. /\ at' = "DONE" /\ response'.status = "SUCCESS"
        /\ response'.rows = {figure} /\ response'.cited = claims
    BY <1>2, <2>1, EndsTyped DEF IInv, TypeOK
  <2>3. Cardinality({figure}) = 1
    BY FS_Singleton
  <2>4. ResponseBacked'
    BY <1>2, <2>2, <2>3 DEF ResponseBacked, Verified
  <2> QED
    BY <2>2, <2>4, QuestionStep DEF Finalize, proposalVars
<1> QED
  BY <1>1, <1>2 DEF Finalize

LEMMA ChatBacked ==
  ASSUME IInv, BackedInv, ChatNext
  PROVE  BackedInv'
<1>1. CASE LedgerMoves
  BY <1>1 DEF LedgerMoves, proposalVars, BackedInv, Owned, ResponseBacked
<1>2. ASSUME NEW companies \in SUBSET Companies, Ask(companies)
      PROVE  BackedInv'
  BY <1>2 DEF Ask, proposalVars, BackedInv, Owned, ResponseBacked, IInv, TypeOK, ChatTypeOK
<1>3. CASE SendToModel
  BY <1>3, PassStep DEF SendToModel, proposalVars
<1>4. CASE Blocked
  <2>1. ResponseBacked' /\ at' # "IDLE"
    BY <1>4, FailedIsBacked, EndIsBacked DEF Blocked, Statuses
  <2> QED
    BY <1>4, <2>1, QuestionStep DEF Blocked, proposalVars
<1>5. CASE CallTool
  <2>1. ResponseBacked' /\ at' # "IDLE"
    BY <1>5 DEF CallTool, IInv, TypeOK, ChatTypeOK, ResponseBacked
  <2> QED
    BY <1>5, <2>1, QuestionStep DEF CallTool, proposalVars
<1>6. CASE ReturnRows
  BY <1>6, PassStep DEF ReturnRows, proposalVars
<1>7. CASE Pause
  BY <1>7, PauseStep
<1>8. ASSUME NEW figures \in SUBSET Figures, Answer(figures)
      PROVE  BackedInv'
  <2>1. ResponseBacked' /\ at' # "IDLE"
    <3>1. CASE FailedAttempt
      BY <1>8, <3>1, FailedIsBacked DEF Answer
    <3>2. CASE at' = "ANSWERED" /\ response' = response
      BY <1>8, <3>2 DEF Answer, IInv, TypeOK, ChatTypeOK, ResponseBacked
    <3> QED
      BY <1>8, <3>1, <3>2 DEF Answer
  <2> QED
    BY <1>8, <2>1, QuestionStep DEF Answer, proposalVars
<1>9. CASE Finalize
  BY <1>9, FinalizeStep
<1>10. CASE AnswerWithoutQuery
  <2>1. ResponseBacked' /\ at' # "IDLE"
    BY <1>10, EndIsBacked DEF AnswerWithoutQuery, Statuses
  <2> QED
    BY <1>10, <2>1, QuestionStep DEF AnswerWithoutQuery, proposalVars
<1>11. CASE ModelFails
  <2>1. ResponseBacked' /\ at' # "IDLE"
    BY <1>11, FailedIsBacked, EndIsBacked DEF ModelFails, Statuses
  <2> QED
    BY <1>11, <2>1, QuestionStep DEF ModelFails, proposalVars
<1> QED
  BY <1>1, <1>2, <1>3, <1>4, <1>5, <1>6, <1>7, <1>8, <1>9, <1>10, <1>11 DEF ChatNext

LEMMA NextBacked == IInv /\ BackedInv /\ [Next]_vars => BackedInv'
<1> SUFFICES ASSUME IInv, BackedInv, [Next]_vars PROVE BackedInv'
  OBVIOUS
<1>1. CASE ChatNext
  BY <1>1, ChatBacked
<1>2. CASE ProposalNext /\ UNCHANGED chatVars
  <2>1. Owned'
    <3>1. ASSUME NEW p \in Proposals, proposal'[p] # None
          PROVE  /\ at # "IDLE" /\ proposal'[p].requested_by = Asker
                 /\ proposal'[p].companies = scope /\ proposal'[p].decided_by # Asker
      BY <1>2, <3>1, RowsKept DEF RowsOwned, BackedInv, Owned
    <3> QED
      BY <1>2, <3>1 DEF Owned, chatVars
  <2>2. ResponseBacked'
    <3>1. response # None => RunOf[attempt] \in Proposals
      BY AttemptRuns DEF IInv, TypeOK, ChatTypeOK
    <3> QED
      BY <1>2, <3>1, RowsKept DEF BackedInv, ResponseBacked, chatVars
  <2> QED
    BY <1>2, <2>1, <2>2 DEF BackedInv, chatVars
<1>3. CASE UNCHANGED vars
  BY <1>3 DEF vars, chatVars, proposalVars, BackedInv, Owned, ResponseBacked
<1> QED
  BY <1>1, <1>2, <1>3 DEF Next

(* Whatever the model does, however the ledger moves and whoever decides   *)
(* meanwhile: a successful answer's figures are in the rows it cites, a    *)
(* pending one has its proposal, and nothing left unrecorded.              *)
THEOREM AnswersBacked == Spec => []AnswersAreBacked
<1>1. IInv /\ BackedInv => AnswersAreBacked
  <2>1. ASSUME IInv, BackedInv, response # None, response.status = "AWAITING_APPROVAL"
        PROVE  /\ proposal[RunOf[attempt]] # None
               /\ proposal[RunOf[attempt]].requested_by = Asker
               /\ proposal[RunOf[attempt]].companies = scope
               /\ proposal[RunOf[attempt]].decided_by # Asker
    BY <2>1, AttemptRuns DEF IInv, TypeOK, ChatTypeOK, BackedInv, Owned, ResponseBacked
  <2> QED
    BY <2>1 DEF BackedInv, ResponseBacked, AnswersAreBacked
<1> QED
  BY IInvAlways, InitBacked, NextBacked, <1>1, PTL DEF Spec
=============================================================================
