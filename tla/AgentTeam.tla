------------------------------ MODULE AgentTeam ------------------------------
(***************************************************************************)
(* One question to the agent team, from POST /query to its response:       *)
(* run_with_team's two attempts, the boundary every model turn and tool    *)
(* result passes (agent_team/security.py), the arithmetic checks, and      *)
(* finalize's own reading of the ledger; beside it the proposals a pause   *)
(* leaves behind (AgentProposals).                                         *)
(*                                                                         *)
(* The model is anybody: it may call the tool, pause, answer anything or   *)
(* fail.  A payload is known by its attempt and its place in it, a         *)
(* query's rows by the figure the ledger answers with.                     *)
(***************************************************************************)
EXTENDS AgentProposals

CONSTANTS
  Figures,         \* figures the ledger may answer with, as closes go by
  CallLimit,       \* tool_call_limit
  Asker,           \* who asks
  RunOf            \* attempt |-> the run id Agno gives it, a proposal's key

MaxSyntaxRetries == 2

Statuses == {"SUCCESS", "VALIDATION_ERROR", "OUT_OF_SCOPE", "AWAITING_APPROVAL", "DRAFT", "REFUSED"}
Responses == [status : Statuses, rows : SUBSET Figures, cited : SUBSET Figures]

ASSUME TeamAssumption ==
  /\ CallLimit \in Nat
  /\ Asker \in Users
  /\ RunOf \in [1 .. MaxSyntaxRetries -> Proposals]
  /\ None \notin Responses

VARIABLES
  figure,          \* what a query answers now
  at,              \* where the question is
  attempt,
  turn,            \* model turns sent in this attempt
  evidence,        \* figures in the rows the tools returned, both attempts
  claims,          \* figures in the model's last answer
  scope,           \* the companies the question is asked over
  response,        \* what the caller gets, or None
  disclosed,       \* llm_disclosure_log
  sent             \* history: payloads that left for the model

chatVars == <<figure, at, attempt, turn, evidence, claims, scope, response, disclosed, sent>>
vars == <<proposalVars, chatVars>>

Response(status, rows, cited) == [status |-> status, rows |-> rows, cited |-> cited]

Init ==
  /\ ProposalInit
  /\ figure \in Figures
  /\ at = "IDLE" /\ attempt = 0 /\ turn = 0
  /\ evidence = {} /\ claims = {} /\ scope = {}
  /\ response = None
  /\ disclosed = {} /\ sent = {}

(* A close, or a restatement read at the next one.  Bound: nothing reads   *)
(* the ledger before the question or after its answer.                     *)
LedgerMoves ==
  /\ at \notin {"IDLE", "DONE"}
  /\ figure' \in Figures \ {figure}
  /\ UNCHANGED <<proposalVars, at, attempt, turn, evidence, claims, scope, response,
                 disclosed, sent>>

(* The scope is the token's, narrowed at most by the body, to nothing even. *)
Ask(companies) ==
  /\ at = "IDLE"
  /\ account[Asker].active
  /\ companies \subseteq account[Asker].companies
  /\ scope' = companies
  /\ at' = "TURN" /\ attempt' = 1
  /\ UNCHANGED <<proposalVars, figure, turn, evidence, claims, response, disclosed, sent>>

(* Whatever ends an attempt short of an answer: the other one, or giving up. *)
FailedAttemptLate ==   \* mutant: the cap is off by one
  IF attempt <= MaxSyntaxRetries
  THEN at' = "TURN" /\ attempt' = attempt + 1 /\ turn' = 0 /\ response' = None
  ELSE at' = "DONE" /\ response' = Response("VALIDATION_ERROR", {}, {}) /\ UNCHANGED <<attempt, turn>>

FailedAttempt ==
  IF attempt < MaxSyntaxRetries
  THEN at' = "TURN" /\ attempt' = attempt + 1 /\ turn' = 0 /\ response' = None
  ELSE at' = "DONE" /\ response' = Response("VALIDATION_ERROR", {}, {}) /\ UNCHANGED <<attempt, turn>>

Ends(status, rows, cited) ==
  at' = "DONE" /\ response' = Response(status, rows, cited) /\ UNCHANGED <<attempt, turn>>

(* gate_messages masks, then records, then sends, and asks for a scope     *)
(* first.  When any of it fails nothing is sent, and Agno makes of the     *)
(* check error a refusal, or a failed attempt.                             *)
Payload(kind) == <<kind, attempt, turn>>

PassUnrecorded(kind) ==   \* mutant: an audit failure is logged and ignored
  \E recorded \in BOOLEAN :
    /\ disclosed' = IF recorded THEN disclosed \cup {Payload(kind)} ELSE disclosed
    /\ sent' = sent \cup {Payload(kind)}

Pass(kind) ==
  /\ disclosed' = disclosed \cup {Payload(kind)}
  /\ sent' = sent \cup {Payload(kind)}

SendToModel ==
  /\ at = "TURN"
  /\ scope # {}
  /\ Pass("messages")
  /\ at' = "MODEL"
  /\ UNCHANGED <<proposalVars, figure, attempt, turn, evidence, claims, scope, response>>

Blocked ==
  /\ at \in {"TURN", "TOOL"}
  /\ FailedAttempt \/ Ends("REFUSED", {}, {})
  /\ UNCHANGED <<proposalVars, figure, evidence, claims, scope, disclosed, sent>>

(* run_finops_query: compiled in the question's scope, executed now; or it *)
(* is refused, or another tool is called, and no rows come back.           *)
CallTool ==
  /\ at = "MODEL" /\ turn < CallLimit
  /\ at' = "TOOL"
  /\ evidence' \in {evidence, evidence \cup {figure}}
  /\ UNCHANGED <<proposalVars, figure, attempt, turn, claims, scope, response, disclosed, sent>>

(* The tool hook records the masked rows before the framework sees them.   *)
ReturnRows ==
  /\ at = "TOOL"
  /\ Pass("rows")
  /\ at' = "TURN" /\ turn' = turn + 1
  /\ UNCHANGED <<proposalVars, figure, attempt, evidence, claims, scope, response>>

(* propose_driver pauses the run.  save_pause commits and the caller is    *)
(* told; or it refuses, or the answer of the commit is lost, and the       *)
(* attempt has failed.                                                     *)
Pause ==
  /\ at = "MODEL"
  /\ \/ SavePause(RunOf[attempt], Asker, scope) /\ Ends("AWAITING_APPROVAL", {}, {})
     \/ SavePause(RunOf[attempt], Asker, scope) /\ FailedAttempt
     \/ UNCHANGED proposal /\ FailedAttempt
  /\ UNCHANGED <<account, request, figure, evidence, claims, scope, disclosed, sent>>

(* An answer with figures in it.  The post-hook holds them against every   *)
(* row the tools returned; one it cannot trace fails the attempt.          *)
Answer(figures) ==
  /\ at = "MODEL"
  /\ \/ /\ figures \subseteq evidence
        /\ at' = "ANSWERED" /\ claims' = figures
        /\ UNCHANGED <<attempt, turn, response>>
     \/ /\ ~(figures \subseteq evidence)
        /\ FailedAttempt
        /\ UNCHANGED claims
  /\ UNCHANGED <<proposalVars, figure, evidence, scope, disclosed, sent>>

(* finalize: the plan's query is executed again, and the figures must be   *)
(* in the rows of that reading.  A query that does not compile or run      *)
(* fails the attempt too.                                                  *)
VerifiedByEvidence(rows) == claims \subseteq rows \cup evidence   \* mutant: the team's rows count

Verified(rows) == claims \subseteq rows

Finalize ==
  /\ at = "ANSWERED"
  /\ \/ Verified({figure}) /\ Ends("SUCCESS", {figure}, claims)
     \/ FailedAttempt
  /\ UNCHANGED <<proposalVars, figure, evidence, claims, scope, disclosed, sent>>

(* A plan without a query: out of scope (its figures are dropped), or said *)
(* to be a draft.  Whether a proposal is stored is not asked.              *)
AnswerWithoutQuery ==
  /\ at = "MODEL"
  /\ Ends("OUT_OF_SCOPE", {}, {}) \/ Ends("DRAFT", {}, {})
  /\ UNCHANGED <<proposalVars, figure, evidence, claims, scope, disclosed, sent>>

(* The provider fails, or what came back is no plan; a guardrail refuses.  *)
ModelFails ==
  /\ at = "MODEL"
  /\ FailedAttempt \/ Ends("REFUSED", {}, {})
  /\ UNCHANGED <<proposalVars, figure, evidence, claims, scope, disclosed, sent>>

ChatNext ==
  \/ LedgerMoves
  \/ \E companies \in SUBSET Companies : Ask(companies)
  \/ SendToModel
  \/ Blocked
  \/ CallTool
  \/ ReturnRows
  \/ Pause
  \/ \E figures \in SUBSET Figures : Answer(figures)
  \/ Finalize
  \/ AnswerWithoutQuery
  \/ ModelFails

Next == ChatNext \/ (ProposalNext /\ UNCHANGED chatVars)

Spec == Init /\ [][Next]_vars

----------------------------------------------------------------------------

(* The question's variables and the proposals' have their shapes.          *)
Places == {"IDLE", "TURN", "MODEL", "TOOL", "ANSWERED", "DONE"}
Payloads == {"messages", "rows"} \X (1 .. MaxSyntaxRetries) \X (0 .. CallLimit)
ChatTypeOK ==
  /\ figure \in Figures
  /\ at \in Places
  /\ attempt \in 0 .. MaxSyntaxRetries /\ turn \in 0 .. CallLimit
  /\ at = "IDLE" <=> attempt = 0
  /\ at = "TOOL" => turn < CallLimit
  /\ evidence \subseteq Figures /\ claims \subseteq Figures /\ scope \subseteq Companies
  /\ response \in Responses \cup {None}
  /\ at = "DONE" <=> response # None
  /\ disclosed \subseteq Payloads /\ sent \subseteq Payloads

TypeOK == ProposalTypeOK /\ ChatTypeOK

(* Whatever the model did over both attempts and however the ledger moved  *)
(* meanwhile: the figures of a successful answer are all in the rows it    *)
(* cites, read in one query after the model had answered; a question said  *)
(* to await approval has its proposal stored under its asker and scope,    *)
(* and nobody decided it for them; nothing reached the model unrecorded.   *)
AnswersAreBacked ==
  /\ sent \subseteq disclosed
  /\ response # None =>
       /\ response.status = "SUCCESS" =>
            response.cited \subseteq response.rows /\ Cardinality(response.rows) = 1
       /\ response.status = "AWAITING_APPROVAL" =>
            /\ proposal[RunOf[attempt]] # None
            /\ proposal[RunOf[attempt]].requested_by = Asker
            /\ proposal[RunOf[attempt]].companies = scope
            /\ proposal[RunOf[attempt]].decided_by # Asker

(* A response that speaks of a draft has one stored.  It need not.         *)
DraftIsStored ==
  response # None /\ response.status = "DRAFT" => \E p \in Proposals : proposal[p] # None
=============================================================================
