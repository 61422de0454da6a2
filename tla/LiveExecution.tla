---------------------------- MODULE LiveExecution ----------------------------
(***************************************************************************)
(* The live orchestrator of botbook.dev (orchestrator.py), which runs a    *)
(* task with an agent: it asks PrivateVault for a decision, has it         *)
(* reviewed when PrivateVault asks for a human, lets the language model    *)
(* ask for tools, each behind a policy gate, and records the run in LORK.  *)
(*                                                                         *)
(* A run is a coroutine that streams events to a browser; it is modelled   *)
(* call by call.  A call of PrivateVault is a request in flight: it may    *)
(* be handled, handled without its answer arriving, lost, or handled       *)
(* after the caller has given up.                                          *)
(***************************************************************************)
EXTENDS Integers, Sequences, FiniteSets

CONSTANTS
  Runs,         (* calls of execute_stream                                   *)
  Clients,      (* those who call shadow_verify themselves, once each        *)
  Amounts,
  MaxToolCalls, (* bound on the tools the language model asks for            *)
  MaxRestarts,  (* bound on the restarts of PrivateVault                     *)
  Faults        (* whether requests and answers may be late or lost          *)

ASSUME LiveAssumption ==
  /\ Amounts \subseteq Nat
  /\ MaxToolCalls \in Nat
  /\ MaxRestarts \in Nat
  /\ Faults \in BOOLEAN
  /\ Runs \cap Clients = {}

VARIABLES
  pending, audit, (* PrivateVault, see Governance                            *)
  pc,             (* where each run is                                       *)
  intent,         (* the request made, or to be made, for a transaction      *)
  requests,       (* the requests to PrivateVault that are in flight         *)
  answer,         (* gov_result of a run, vr of a tool's gate                *)
  approval,       (* the answer to the run's call of human_approve           *)
  asked,          (* how many tools the language model asked for             *)
  tool,           (* which of them the run is at                             *)
  used,           (* those that it executed                                  *)
  recorded,       (* runs_store of LORK: the status recorded for each run    *)
  earned,         (* the runs for which the agent's trust was raised         *)
  restarts        (* restarts so far                                         *)

(* A run has a transaction of its own, 0, and one for each tool it uses.   *)
Transactions == (Runs \X (0 .. MaxToolCalls)) \cup (Clients \X {0})

INSTANCE Governance

vault == <<pending, audit>>
tools == <<asked, tool, used>>
outcome == <<recorded, earned>>
calls == <<requests, answer, approval>>

vars == <<vault, pc, intent, calls, tools, outcome, restarts>>

Places ==
  {"new", "verifying", "blocking", "review", "approving", "drift", "react", "tools",
   "gating", "concluding", "recording", "recorded", "ended", "gone"}

Over == {"ended", "gone"}

Unanswered == "none"

TypeOK ==
  /\ VaultTypeOK
  /\ pc \in [Runs -> Places]
  /\ intent \in [Transactions -> TransactionRequest]
  /\ requests \subseteq (Transactions \X {"verify", "approve"})
  /\ answer \in [Transactions -> Decisions \cup {"ERROR", Unanswered}]
  /\ approval \in [Runs -> {"ALLOW", "missing", "ERROR", Unanswered}]
  /\ asked \in [Runs -> 0 .. MaxToolCalls]
  /\ tool \in [Runs -> 0 .. MaxToolCalls]
  /\ \A r \in Runs : tool[r] <= asked[r]
  /\ used \in [Runs -> SUBSET (1 .. MaxToolCalls)]
  /\ recorded \in [Runs -> {"none", "blocked", "drift_blocked", "completed"}]
  /\ earned \subseteq Runs
  /\ restarts \in 0 .. MaxRestarts

Init ==
  /\ VaultInit
  /\ pc = [r \in Runs |-> "new"]
  /\ intent = [tx \in Transactions |->
                 [action |-> "listed", amount |-> 0, recipient |-> "known"]]
  /\ requests = {}
  /\ answer = [tx \in Transactions |-> Unanswered]
  /\ approval = [r \in Runs |-> Unanswered]
  /\ asked = [r \in Runs |-> 0]
  /\ tool = [r \in Runs |-> 0]
  /\ used = [r \in Runs |-> {}]
  /\ recorded = [r \in Runs |-> "none"]
  /\ earned = {}
  /\ restarts = 0

Goto(r, place) == pc' = [pc EXCEPT ![r] = place]

(* The transaction that a run is about.                                    *)
Current(r) == <<r, tool[r]>>

Post(tx, call) == requests' = requests \cup {<<tx, call>>}

-----------------------------------------------------------------------------
(* PrivateVault and the network.                                           *)

Waits(tx) == \E r \in Runs :
  pc[r] \in {"verifying", "gating"} /\ tx = Current(r) /\ answer[tx] = Unanswered

(* What a caller that waits for an answer learns: it, or nothing.          *)
Reply(tx, status) ==
  \/ Waits(tx) /\ answer' = [answer EXCEPT ![tx] = status]
  \/ (Faults \/ ~Waits(tx)) /\ UNCHANGED answer

HandleVerify(tx) ==
  /\ <<tx, "verify">> \in requests
  /\ requests' = requests \ {<<tx, "verify">>}
  /\ ShadowVerify(tx, intent[tx])
  /\ Reply(tx, CheckPolicy(intent[tx]))
  /\ UNCHANGED <<pc, intent, approval, tools, outcome, restarts>>

ReplyApproval(r, status) ==
  LET waits == pc[r] = "approving" /\ approval[r] = Unanswered
  IN  \/ waits /\ approval' = [approval EXCEPT ![r] = status]
      \/ (Faults \/ ~waits) /\ UNCHANGED approval

(* The orchestrator always approves; the answer of 404 has no final_status. *)
HandleApprove(r) ==
  LET tx == <<r, 0>> IN
  /\ <<tx, "approve">> \in requests
  /\ requests' = requests \ {<<tx, "approve">>}
  /\ \/ HumanApprove(tx, TRUE) /\ ReplyApproval(r, "ALLOW")
     \/ tx \notin pending /\ UNCHANGED vault /\ ReplyApproval(r, "missing")
  /\ UNCHANGED <<pc, intent, answer, tools, outcome, restarts>>

RequestLost(request) ==
  /\ Faults
  /\ requests' = requests \ {request}
  /\ UNCHANGED <<vault, pc, intent, answer, approval, tools, outcome, restarts>>

ReviewerDecides(tx, approved) ==
  /\ HumanApprove(tx, approved)
  /\ UNCHANGED <<pc, intent, calls, tools, outcome, restarts>>

ClientVerifies(c, request) ==
  LET tx == <<c, 0>> IN
  /\ audit[tx] = <<>>
  /\ ShadowVerify(tx, request)
  /\ UNCHANGED <<pc, intent, calls, tools, outcome, restarts>>

(* Reviews live in memory only.                                            *)
VaultRestarts ==
  /\ restarts < MaxRestarts
  /\ restarts' = restarts + 1
  /\ pending' = {}
  /\ UNCHANGED <<audit, pc, intent, calls, tools, outcome>>

-----------------------------------------------------------------------------
(* execute_stream.                                                         *)

(* No agent matches, or it is not registered.                              *)
NoAgent(r) ==
  /\ pc[r] = "new"
  /\ Goto(r, "ended")
  /\ UNCHANGED <<vault, intent, calls, tools, outcome, restarts>>

(* classify_intent yields actions of the whitelist only.                   *)
Start(r, request) ==
  /\ pc[r] = "new"
  /\ request.action = "listed"
  /\ intent' = [intent EXCEPT ![Current(r)] = request]
  /\ Post(Current(r), "verify")
  /\ Goto(r, "verifying")
  /\ UNCHANGED <<vault, answer, approval, tools, outcome, restarts>>

(* Mutant: no timeout.                                                     *)
WaitsForEver(r) == FALSE

(* The timeout of the HTTP client, or an answer that cannot be read.       *)
TimeOut(r) ==
  /\ Faults
  /\ \/ /\ pc[r] \in {"verifying", "gating"} /\ Waits(Current(r))
        /\ answer' = [answer EXCEPT ![Current(r)] = "ERROR"]
        /\ UNCHANGED approval
     \/ /\ pc[r] = "approving" /\ approval[r] = Unanswered
        /\ approval' = [approval EXCEPT ![r] = "ERROR"]
        /\ UNCHANGED answer
  /\ UNCHANGED <<vault, pc, intent, requests, tools, outcome, restarts>>

(* A task marked [DRIFT_TEST] goes through drift detection first.          *)
Proceed(r) == Goto(r, "drift") \/ Goto(r, "react")

(* Only the two answers BLOCK and REVIEW stop a run.                       *)
Decide(r) ==
  /\ pc[r] = "verifying"
  /\ \/ answer[Current(r)] = "BLOCK" /\ Goto(r, "blocking")
     \/ answer[Current(r)] = "REVIEW" /\ Goto(r, "review")
     \/ answer[Current(r)] \in {"ALLOW", "ERROR"} /\ Proceed(r)
  /\ UNCHANGED <<vault, intent, calls, tools, outcome, restarts>>

(* The simulated time of a human review has passed.                        *)
Review(r) ==
  /\ pc[r] = "review"
  /\ Post(Current(r), "approve")
  /\ Goto(r, "approving")
  /\ UNCHANGED <<vault, intent, answer, approval, tools, outcome, restarts>>

(* Mutant: a review that is not found counts as rejected.                  *)
ReviewedOrMissing(r) ==
  /\ pc[r] = "approving" /\ approval[r] # Unanswered
  /\ IF approval[r] = "missing" THEN Goto(r, "blocking") ELSE Proceed(r)
  /\ UNCHANGED <<vault, intent, calls, tools, outcome, restarts>>

(* Without a final_status, or without an answer, the review counts as      *)
(* approved, and an answer to an approval is never BLOCK: the branch that  *)
(* stops a run after a rejection cannot be reached.                        *)
Reviewed(r) ==
  /\ pc[r] = "approving" /\ approval[r] # Unanswered
  /\ Proceed(r)
  /\ UNCHANGED <<vault, intent, calls, tools, outcome, restarts>>

(* The call of the language model is synchronous: the event loop stands    *)
(* still until the model answers, and there is no timeout.                 *)
Responsive == \A r \in Runs : pc[r] \notin {"react", "concluding"}

(* The model's first answer; without a key there is one without tools.     *)
React(r) ==
  /\ pc[r] = "react"
  /\ \E n \in 0 .. MaxToolCalls : asked' = [asked EXCEPT ![r] = n]
  /\ Goto(r, "tools")
  /\ UNCHANGED <<vault, intent, calls, tool, used, outcome, restarts>>

NextTool(r) == pc[r] = "tools" /\ tool[r] < asked[r] /\ tool' = [tool EXCEPT ![r] = @ + 1]

(* The orchestrator's own policy: the agent may not use the tool, or the   *)
(* recipient is external.                                                  *)
ToolDenied(r) ==
  /\ NextTool(r)
  /\ UNCHANGED <<vault, pc, intent, calls, asked, used, outcome, restarts>>

ToolGate(r, recipient) ==
  LET tx == <<r, tool[r] + 1>> IN
  /\ NextTool(r)
  /\ intent' = [intent EXCEPT ![tx].recipient = recipient]
  /\ Post(tx, "verify")
  /\ Goto(r, "gating")
  /\ UNCHANGED <<vault, answer, approval, asked, used, outcome, restarts>>

(* Only the answer BLOCK denies the tool.                                  *)
ToolAnswered(r) ==
  /\ pc[r] = "gating" /\ answer[Current(r)] # Unanswered
  /\ used' = [used EXCEPT ![r] = @ \cup {k \in {tool[r]} : answer[Current(r)] # "BLOCK"}]
  /\ Goto(r, "tools")
  /\ UNCHANGED <<vault, intent, calls, asked, tool, outcome, restarts>>

ToolsDone(r) ==
  /\ pc[r] = "tools" /\ tool[r] = asked[r]
  /\ Goto(r, IF asked[r] = 0 THEN "recording" ELSE "concluding")
  /\ UNCHANGED <<vault, intent, calls, tools, outcome, restarts>>

(* The second answer, to the results of the tools, is asked for without    *)
(* tools and ends the loop.                                                *)
Conclude(r) ==
  /\ pc[r] = "concluding"
  /\ Goto(r, "recording")
  /\ UNCHANGED <<vault, intent, calls, tools, outcome, restarts>>

RunStatus == [blocking |-> "blocked", drift |-> "drift_blocked", recording |-> "completed"]

(* Drift detection finds the payload that the orchestrator tampered with,  *)
(* and fails closed.  _record_run ignores a failure.                       *)
Record(r) ==
  /\ pc[r] \in {"blocking", "drift", "recording"}
  /\ \/ recorded' = [recorded EXCEPT ![r] = RunStatus[pc[r]]]
     \/ Faults /\ UNCHANGED recorded
  /\ Goto(r, IF pc[r] = "recording" THEN "recorded" ELSE "ended")
  /\ UNCHANGED <<vault, intent, calls, tools, earned, restarts>>

UpdateTrust(r) ==
  /\ pc[r] = "recorded"
  /\ earned' = earned \cup {r}
  /\ Goto(r, "ended")
  /\ UNCHANGED <<vault, intent, calls, tools, recorded, restarts>>

(* The browser goes away: the stream is cancelled where it waits.          *)
Disconnect(r) ==
  /\ pc[r] \notin Over \cup {"new"}
  /\ Goto(r, "gone")
  /\ UNCHANGED <<vault, intent, calls, tools, outcome, restarts>>

-----------------------------------------------------------------------------

Handle ==
  \/ \E tx \in Transactions : HandleVerify(tx)
  \/ \E r \in Runs : HandleApprove(r)

Run(r) ==
  \/ TimeOut(r) \/ Decide(r) \/ Review(r) \/ Reviewed(r)
  \/ ToolDenied(r) \/ ToolAnswered(r) \/ ToolsDone(r)
  \/ \E recipient \in {"known", "unknown"} : ToolGate(r, recipient)
  \/ Record(r) \/ UpdateTrust(r)

ModelAnswers(r) == React(r) \/ Conclude(r)

Next ==
  \/ Handle
  \/ \E request \in requests : RequestLost(request)
  \/ \E tx \in pending, approved \in BOOLEAN : ReviewerDecides(tx, approved)
  \/ \E request \in TransactionRequest, c \in Clients : ClientVerifies(c, request)
  \/ VaultRestarts
  \/ /\ Responsive
     /\ \E r \in Runs :
          \/ \E request \in TransactionRequest : Start(r, request)
          \/ NoAgent(r) \/ Run(r) \/ Disconnect(r)
  \/ \E r \in Runs : ModelAnswers(r)

Spec == Init /\ [][Next]_vars

(* While it is responsive the event loop runs a started run, whose calls   *)
(* of PrivateVault time out after a minute without an answer; PrivateVault *)
(* handles what it receives.  Nothing is assumed of the language model.    *)
Fairness == WF_vars(Handle) /\ \A r \in Runs : WF_vars(Responsive /\ Run(r))

FairSpec == Spec /\ Fairness

-----------------------------------------------------------------------------

(* However the answers, the reviewers, the orchestrator's own approval and *)
(* restarts of PrivateVault interleave, the policy decides a transaction   *)
(* once and a human at most once, only after an escalation; a review       *)
(* stays in the queue until it is decided or PrivateVault restarts.        *)
DecidedOnce ==
  /\ \A tx \in Transactions :
       \/ audit[tx] \in {<<>>, <<"ALLOW">>, <<"BLOCK">>, <<"REVIEW">>}
       \/ audit[tx] \in {<<"REVIEW", "ALLOW">>, <<"REVIEW", "BLOCK">>}
  /\ \A tx \in pending : audit[tx] = <<"REVIEW">>
  /\ restarts = 0 => {tx \in Transactions : audit[tx] = <<"REVIEW">>} \subseteq pending

Executes(r) ==
  \/ pc[r] \in {"drift", "react", "tools", "gating", "concluding", "recording", "recorded"}
  \/ used[r] # {} \/ r \in earned \/ recorded[r] = "completed"

(* The three tiers of shadow_verify, seen from the run: if it got an       *)
(* answer and goes on, then the transaction has a known recipient and at   *)
(* most 25000, and from 10000 on the review was waited for.  The tools it  *)
(* executed, with an answer for their gates, were each allowed.            *)
ExecutionGoverned ==
  \A r \in Runs :
    LET request == intent[<<r, 0>>] IN
    /\ Executes(r) /\ answer[<<r, 0>>] # "ERROR" =>
         /\ request.recipient = "known" /\ request.amount <= HUMAN_REVIEW_LIMIT
         /\ request.amount >= AUTO_APPROVE_LIMIT =>
              Head(audit[<<r, 0>>]) = "REVIEW" /\ approval[r] # Unanswered
    /\ \A k \in used[r] : answer[<<r, k>>] # "ERROR" => audit[<<r, k>>] = <<"ALLOW">>

(* What LORK was told agrees with PrivateVault: a run recorded as blocked  *)
(* was blocked by the last decision logged for it, used no tool, and       *)
(* raised no trust.                                                        *)
BlockedAgrees ==
  \A r \in Runs :
    recorded[r] = "blocked" =>
      /\ LET log == audit[<<r, 0>>] IN log # <<>> /\ log[Len(log)] = "BLOCK"
      /\ used[r] = {} /\ r \notin earned

(* A run that has started ends, whatever is lost and whoever decides its   *)
(* review first, provided that the language model answers whenever it is   *)
(* called: one that never does stops every run of the orchestrator.        *)
RunsEnd ==
  []<>Responsive => \A r \in Runs : pc[r] = "verifying" ~> pc[r] \in Over

(* PRIVATEVAULT_OVERVIEW.md: every action is evaluated before execution,   *)
(* "deny -> blocked with reason".  A run that a human rejected does not    *)
(* complete.                                                               *)
RejectionRespected ==
  \A r \in Runs : audit[<<r, 0>>] = <<"REVIEW", "BLOCK">> => recorded[r] # "completed"

(* DEMO.md: no agent can move money without policy checks.  A run that     *)
(* completes was decided by the policy.                                    *)
EvaluatedFirst ==
  \A r \in Runs : recorded[r] = "completed" => audit[<<r, 0>>] # <<>>

=============================================================================
