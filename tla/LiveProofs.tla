------------------------------ MODULE LiveProofs ------------------------------
(***************************************************************************)
(* What holds of governed live execution for any number of runs, clients,  *)
(* tool calls and restarts, whatever is lost or late.                      *)
(***************************************************************************)
EXTENDS LiveExecution, SequenceTheorems, TLAPS

-----------------------------------------------------------------------------
(* Where a run is says whether it is at a tool.                            *)

BeforeTools == {"new", "verifying", "blocking", "review", "approving", "drift", "react"}

PlaceInv ==
  \A r \in Runs :
    /\ pc[r] \in BeforeTools => tool[r] = 0
    /\ pc[r] = "gating" => tool[r] # 0

(* Transactions and requests.                                              *)

LEMMA RunTransaction ==
  ASSUME NEW r \in Runs, NEW k \in 0 .. MaxToolCalls
  PROVE  <<r, k>> \in Transactions
BY DEF Transactions

LEMMA ClientTransaction ==
  ASSUME NEW c \in Clients
  PROVE  /\ <<c, 0>> \in Transactions
         /\ \A r \in Runs, k \in 0 .. MaxToolCalls : <<r, k>> # <<c, 0>>
BY LiveAssumption DEF Transactions

LEMMA CurrentTransaction ==
  ASSUME TypeOK, NEW r \in Runs
  PROVE  Current(r) \in Transactions /\ tool[r] \in 0 .. MaxToolCalls /\ 0 \in 0 .. MaxToolCalls
BY RunTransaction, LiveAssumption DEF TypeOK, Current

LEMMA DecisionType ==
  ASSUME NEW request \in TransactionRequest
  PROVE  CheckPolicy(request) \in Decisions
BY DEF CheckPolicy, Decisions

LEMMA ShadowVerifyType ==
  ASSUME VaultTypeOK, NEW tx \in Transactions, NEW request \in TransactionRequest,
         ShadowVerify(tx, request)
  PROVE  VaultTypeOK'
<1>1. CheckPolicy(request) \in Decisions  BY DecisionType
<1>2. Append(audit[tx], CheckPolicy(request)) \in Seq(Decisions)  BY <1>1 DEF VaultTypeOK
<1> QED  BY <1>2 DEF VaultTypeOK, ShadowVerify, Log

LEMMA HumanApproveType ==
  ASSUME VaultTypeOK, NEW tx \in Transactions, NEW approved \in BOOLEAN, HumanApprove(tx, approved)
  PROVE  VaultTypeOK'
<1>1. Append(audit[tx], IF approved THEN "ALLOW" ELSE "BLOCK") \in Seq(Decisions)
  BY DEF VaultTypeOK, Decisions
<1> QED  BY <1>1 DEF VaultTypeOK, HumanApprove, Log

LEMMA VaultUnchanged ==
  ASSUME VaultTypeOK, UNCHANGED vault
  PROVE  VaultTypeOK'
BY DEF VaultTypeOK, vault

LEMMA GotoType ==
  ASSUME TypeOK, NEW r \in Runs, NEW place \in Places, Goto(r, place)
  PROVE  pc' \in [Runs -> Places]
BY DEF TypeOK, Goto

-----------------------------------------------------------------------------

LEMMA TypeInit == Init => TypeOK /\ PlaceInv
<1> SUFFICES ASSUME Init PROVE TypeOK /\ PlaceInv  OBVIOUS
<1>1. VaultTypeOK  BY DEF Init, VaultInit, VaultTypeOK
<1>2. [action |-> "listed", amount |-> 0, recipient |-> "known"] \in TransactionRequest
  BY DEF TransactionRequest
<1>3. PlaceInv  BY DEF Init, PlaceInv
<1> QED  BY <1>1, <1>2, <1>3, LiveAssumption DEF Init, TypeOK, Places, Decisions, Unanswered

LEMMA TypeStep == TypeOK /\ PlaceInv /\ [Next]_vars => TypeOK'
<1> SUFFICES ASSUME TypeOK, PlaceInv, [Next]_vars PROVE TypeOK'  OBVIOUS
<1> USE VaultUnchanged, GotoType
<1>1. ASSUME NEW tx \in Transactions, HandleVerify(tx) PROVE TypeOK'
  <2>1. VaultTypeOK'  BY <1>1, ShadowVerifyType DEF TypeOK, HandleVerify
  <2>2. CheckPolicy(intent[tx]) \in Decisions  BY DecisionType DEF TypeOK
  <2>3. answer' \in [Transactions -> Decisions \cup {"ERROR", Unanswered}]
    BY <1>1, <2>2 DEF TypeOK, HandleVerify, Reply
  <2> QED  BY <1>1, <2>1, <2>3 DEF TypeOK, HandleVerify, tools, outcome
<1>2. ASSUME NEW r \in Runs, HandleApprove(r) PROVE TypeOK'
  <2>1. <<r, 0>> \in Transactions  BY RunTransaction, LiveAssumption
  <2>2. VaultTypeOK'
    BY <1>2, <2>1, HumanApproveType DEF TypeOK, HandleApprove
  <2> QED  BY <1>2, <2>2 DEF TypeOK, HandleApprove, ReplyApproval, tools, outcome
<1>3. ASSUME NEW request \in requests, RequestLost(request) PROVE TypeOK'
  BY <1>3 DEF TypeOK, RequestLost, tools, outcome
<1>4. ASSUME NEW tx \in pending, NEW approved \in BOOLEAN, ReviewerDecides(tx, approved)
      PROVE  TypeOK'
  <2>1. tx \in Transactions  BY DEF TypeOK, VaultTypeOK
  <2>2. VaultTypeOK'  BY <1>4, <2>1, HumanApproveType DEF TypeOK, ReviewerDecides
  <2> QED  BY <1>4, <2>2 DEF TypeOK, ReviewerDecides, calls, tools, outcome
<1>5. ASSUME NEW request \in TransactionRequest, NEW c \in Clients, ClientVerifies(c, request)
      PROVE  TypeOK'
  <2>1. VaultTypeOK'
    BY <1>5, ClientTransaction, ShadowVerifyType DEF TypeOK, ClientVerifies
  <2> QED  BY <1>5, <2>1 DEF TypeOK, ClientVerifies, calls, tools, outcome
<1>6. ASSUME NEW request \in TransactionRequest, NEW r \in Runs, Start(r, request) PROVE TypeOK'
  <2>1. pc' \in [Runs -> Places]  BY <1>6 DEF Start, Places
  <2>2. Current(r) \in Transactions  BY CurrentTransaction
  <2>3. intent' \in [Transactions -> TransactionRequest]  BY <1>6 DEF TypeOK, Start
  <2>4. requests' \subseteq Transactions \X {"verify", "approve"}
    BY <1>6, <2>2 DEF TypeOK, Start, Post
  <2> QED  BY <1>6, <2>1, <2>3, <2>4 DEF TypeOK, Start, vault, tools, outcome, VaultTypeOK
<1>7. CASE VaultRestarts
  <2>1. VaultTypeOK'  BY <1>7 DEF TypeOK, VaultTypeOK, VaultRestarts
  <2>2. restarts' \in 0 .. MaxRestarts
    BY <1>7, LiveAssumption DEF TypeOK, VaultRestarts
  <2> QED  BY <1>7, <2>1, <2>2 DEF TypeOK, VaultRestarts, calls, tools, outcome
<1>8. ASSUME NEW r \in Runs, TimeOut(r) PROVE TypeOK'
  <2>1. answer' \in [Transactions -> Decisions \cup {"ERROR", Unanswered}]
    BY <1>8 DEF TypeOK, TimeOut
  <2>2. approval' \in [Runs -> {"ALLOW", "missing", "ERROR", Unanswered}]
    BY <1>8 DEF TypeOK, TimeOut
  <2> QED  BY <1>8, <2>1, <2>2 DEF TypeOK, TimeOut, tools, outcome
<1>9. ASSUME NEW r \in Runs, NoAgent(r) \/ Decide(r) \/ Reviewed(r) \/ ToolsDone(r) \/ Conclude(r) \/ Disconnect(r)
      PROVE  TypeOK'
  <2>1. pc' \in [Runs -> Places]
    BY <1>9 DEF NoAgent, Decide, Reviewed, ToolsDone, Conclude, Disconnect, Proceed, Places
  <2> QED  BY <1>9, <2>1 DEF TypeOK, NoAgent, Decide, Reviewed, ToolsDone, Conclude, Disconnect,
              calls, tools, outcome
<1>10. ASSUME NEW r \in Runs, Review(r) PROVE TypeOK'
  <2>1. pc' \in [Runs -> Places]  BY <1>10 DEF Review, Places
  <2>2. requests' \subseteq Transactions \X {"verify", "approve"}
    BY <1>10, CurrentTransaction DEF TypeOK, Review, Post
  <2> QED  BY <1>10, <2>1, <2>2 DEF TypeOK, Review, tools, outcome
<1>11. ASSUME NEW r \in Runs, React(r) PROVE TypeOK'
  <2>1. pc' \in [Runs -> Places]  BY <1>11 DEF React, Places
  <2>2. /\ asked' \in [Runs -> 0 .. MaxToolCalls]
        /\ \A q \in Runs : tool'[q] <= asked'[q]
    BY <1>11, LiveAssumption DEF TypeOK, React, PlaceInv, BeforeTools
  <2> QED  BY <1>11, <2>1, <2>2 DEF TypeOK, React, calls, outcome
<1>12. ASSUME NEW r \in Runs, ToolDenied(r) PROVE TypeOK'
  <2>1. /\ tool' \in [Runs -> 0 .. MaxToolCalls]
        /\ \A q \in Runs : tool'[q] <= asked[q]
    BY <1>12, LiveAssumption DEF TypeOK, ToolDenied, NextTool
  <2> QED  BY <1>12, <2>1 DEF TypeOK, ToolDenied, calls, outcome
<1>13. ASSUME NEW r \in Runs, NEW recipient \in {"known", "unknown"}, ToolGate(r, recipient)
       PROVE  TypeOK'
  <2> DEFINE tx == <<r, tool[r] + 1>>
  <2>1. /\ tool' \in [Runs -> 0 .. MaxToolCalls]
        /\ \A q \in Runs : tool'[q] <= asked[q]
        /\ tool[r] + 1 \in 0 .. MaxToolCalls
    BY <1>13, LiveAssumption DEF TypeOK, ToolGate, NextTool
  <2>2. tx \in Transactions  BY <2>1, RunTransaction
  <2>3. intent' \in [Transactions -> TransactionRequest]
    <3>1. [intent[tx] EXCEPT !.recipient = recipient] \in TransactionRequest
      BY <2>2 DEF TypeOK, TransactionRequest
    <3> QED  BY <1>13, <2>2, <3>1 DEF TypeOK, ToolGate
  <2>4. requests' \subseteq Transactions \X {"verify", "approve"}
    BY <1>13, <2>2 DEF TypeOK, ToolGate, Post
  <2>5. pc' \in [Runs -> Places]  BY <1>13 DEF ToolGate, Places
  <2> QED  BY <1>13, <2>1, <2>3, <2>4, <2>5 DEF TypeOK, ToolGate, outcome
<1>14. ASSUME NEW r \in Runs, ToolAnswered(r) PROVE TypeOK'
  <2>1. pc' \in [Runs -> Places]  BY <1>14 DEF ToolAnswered, Places
  <2>2. tool[r] \in 1 .. MaxToolCalls
    BY <1>14, CurrentTransaction DEF ToolAnswered, PlaceInv
  <2>3. used' \in [Runs -> SUBSET (1 .. MaxToolCalls)]
    BY <1>14, <2>2 DEF TypeOK, ToolAnswered
  <2> QED  BY <1>14, <2>1, <2>3 DEF TypeOK, ToolAnswered, calls, outcome
<1>15. ASSUME NEW r \in Runs, Record(r) PROVE TypeOK'
  <2>1. pc' \in [Runs -> Places]  BY <1>15 DEF Record, Places
  <2>2. recorded' \in [Runs -> {"none", "blocked", "drift_blocked", "completed"}]
    BY <1>15 DEF TypeOK, Record, RunStatus
  <2> QED  BY <1>15, <2>1, <2>2 DEF TypeOK, Record, calls, tools
<1>16. ASSUME NEW r \in Runs, UpdateTrust(r) PROVE TypeOK'
  <2>1. pc' \in [Runs -> Places]  BY <1>16 DEF UpdateTrust, Places
  <2> QED  BY <1>16, <2>1 DEF TypeOK, UpdateTrust, calls, tools
<1>17. CASE UNCHANGED vars
  BY <1>17 DEF TypeOK, vars, calls, tools, outcome
<1> QED
  BY <1>1, <1>2, <1>3, <1>4, <1>5, <1>6, <1>7, <1>8, <1>9, <1>10, <1>11, <1>12, <1>13, <1>14,
     <1>15, <1>16, <1>17 DEF Next, Handle, Run, ModelAnswers

LEMMA PlaceStep == TypeOK /\ PlaceInv /\ [Next]_vars => PlaceInv'
<1> SUFFICES ASSUME TypeOK, PlaceInv, [Next]_vars, NEW r \in Runs
             PROVE  (/\ pc[r] \in BeforeTools => tool[r] = 0
                     /\ pc[r] = "gating" => tool[r] # 0)'
  BY DEF PlaceInv
<1> USE DEF PlaceInv, BeforeTools
<1>1. ASSUME UNCHANGED <<pc, tool>>
      PROVE  (/\ pc[r] \in BeforeTools => tool[r] = 0
              /\ pc[r] = "gating" => tool[r] # 0)'
  BY <1>1
<1>2. ASSUME NEW q \in Runs, NEW place \in Places \ {"gating"}, Goto(q, place), UNCHANGED tool,
             place \in BeforeTools => pc[q] \in BeforeTools
      PROVE  (/\ pc[r] \in BeforeTools => tool[r] = 0
              /\ pc[r] = "gating" => tool[r] # 0)'
  BY <1>2 DEF Goto, TypeOK
<1>3. CASE \/ \E tx \in Transactions : HandleVerify(tx)
           \/ \E q \in Runs : HandleApprove(q) \/ TimeOut(q)
           \/ \E request \in requests : RequestLost(request)
           \/ \E tx \in pending, approved \in BOOLEAN : ReviewerDecides(tx, approved)
           \/ \E request \in TransactionRequest, c \in Clients : ClientVerifies(c, request)
           \/ VaultRestarts
           \/ UNCHANGED vars
  BY <1>1, <1>3 DEF HandleVerify, HandleApprove, TimeOut, RequestLost, ReviewerDecides,
     ClientVerifies, VaultRestarts, tools, vars
<1>4. ASSUME NEW q \in Runs,
             \/ \E request \in TransactionRequest : Start(q, request)
             \/ NoAgent(q) \/ Decide(q) \/ Review(q) \/ Reviewed(q) \/ React(q)
             \/ ToolAnswered(q) \/ ToolsDone(q) \/ Conclude(q) \/ Record(q) \/ UpdateTrust(q) \/ Disconnect(q)
      PROVE  (/\ pc[r] \in BeforeTools => tool[r] = 0
              /\ pc[r] = "gating" => tool[r] # 0)'
  <2>1. /\ UNCHANGED tool
        /\ \E place \in Places \ {"gating"} :
             Goto(q, place) /\ (place \in BeforeTools => pc[q] \in BeforeTools)
    BY <1>4 DEF Start, NoAgent, Decide, Proceed, Review, Reviewed, React, ToolAnswered, ToolsDone, Conclude,
       Record, UpdateTrust, Disconnect, tools, Places
  <2> QED  BY <1>2, <2>1
<1>5. ASSUME NEW q \in Runs, ToolDenied(q)
      PROVE  (/\ pc[r] \in BeforeTools => tool[r] = 0
              /\ pc[r] = "gating" => tool[r] # 0)'
  BY <1>5 DEF ToolDenied, NextTool, TypeOK
<1>6. ASSUME NEW q \in Runs, NEW recipient \in {"known", "unknown"}, ToolGate(q, recipient)
      PROVE  (/\ pc[r] \in BeforeTools => tool[r] = 0
              /\ pc[r] = "gating" => tool[r] # 0)'
  BY <1>6 DEF ToolGate, NextTool, Goto, TypeOK
<1> QED
  BY <1>3, <1>4, <1>5, <1>6 DEF Next, Handle, Run, ModelAnswers

(* The model's state never leaves its types, for any number of runs.       *)
THEOREM LiveTypeCorrect == Spec => []TypeOK
<1>1. TypeOK /\ PlaceInv /\ [Next]_vars => (TypeOK /\ PlaceInv)'
  BY TypeStep, PlaceStep
<1> QED  BY TypeInit, <1>1, PTL DEF Spec

-----------------------------------------------------------------------------
(* Each transaction is asked about once.                                   *)

(* A request in flight was not handled yet, and is a run's.                *)
RequestInv ==
  \A tx \in Transactions :
    <<tx, "verify">> \in requests => audit[tx] = <<>> /\ \A c \in Clients : tx # <<c, 0>>

Fresh(r, k) == pc[r] = "new" \/ tool[r] < k

(* Nothing is known of a transaction that its run has not come to.         *)
FreshInv ==
  \A r \in Runs, k \in 0 .. MaxToolCalls :
    Fresh(r, k) => /\ audit[<<r, k>>] = <<>>
                   /\ <<<<r, k>>, "verify">> \notin requests
                   /\ answer[<<r, k>>] = Unanswered

(* An answer is the policy's, and is what was logged first.                *)
AnswerInv ==
  \A tx \in Transactions :
    answer[tx] \in Decisions =>
      /\ audit[tx] # <<>> /\ Head(audit[tx]) = answer[tx]
      /\ CheckPolicy(intent[tx]) = answer[tx]

GateInv ==
  \A r \in Runs, k \in 1 .. MaxToolCalls : intent[<<r, k>>].amount = 0

(* What a run does follows from the answer that it got.                    *)
RunInv ==
  \A r \in Runs :
    LET status == answer[<<r, 0>>] IN
    /\ pc[r] = "blocking" \/ recorded[r] = "blocked" => status = "BLOCK"
    /\ pc[r] \in {"review", "approving"} => status = "REVIEW"
    /\ Executes(r) =>
         status \in {"ALLOW", "ERROR"} \/ (status = "REVIEW" /\ approval[r] # Unanswered)

UsedInv ==
  \A r \in Runs : \A k \in used[r] : answer[<<r, k>>] \in {"ALLOW", "ERROR"}

VaultInv == DecidedOnce /\ RequestInv /\ FreshInv

LiveInv == TypeOK /\ PlaceInv /\ VaultInv /\ AnswerInv /\ GateInv /\ RunInv /\ UsedInv

LEMMA LiveInit == Init => LiveInv
<1> SUFFICES ASSUME Init PROVE LiveInv  OBVIOUS
<1>1. \A r \in Runs, k \in 0 .. MaxToolCalls : <<r, k>> \in Transactions  BY RunTransaction
<1>2. DecidedOnce  BY DEF Init, VaultInit, DecidedOnce
<1>3. RequestInv /\ FreshInv  BY <1>1 DEF Init, VaultInit, RequestInv, FreshInv
<1>4. AnswerInv  BY DEF Init, AnswerInv, Decisions, Unanswered
<1>5. GateInv
  <2>1. \A k \in 1 .. MaxToolCalls : k \in 0 .. MaxToolCalls  BY LiveAssumption
  <2> QED  BY <1>1, <2>1 DEF Init, GateInv
<1>6. RunInv  BY DEF Init, RunInv, Executes
<1>7. UsedInv  BY DEF Init, UsedInv
<1> QED  BY TypeInit, <1>2, <1>3, <1>4, <1>5, <1>6, <1>7 DEF LiveInv, VaultInv

(* Steps that take no decision.                                            *)
Undecided == UNCHANGED <<vault, restarts>>

LEMMA UndecidedSteps ==
  ASSUME \/ \E request \in requests : RequestLost(request)
         \/ \E request \in TransactionRequest, r \in Runs : Start(r, request)
         \/ \E r \in Runs : NoAgent(r) \/ Run(r) \/ Disconnect(r) \/ ModelAnswers(r)
         \/ UNCHANGED vars
  PROVE  Undecided
BY DEF Undecided, RequestLost, Start, NoAgent, Run, ModelAnswers, TimeOut, Decide, Review, Reviewed, React,
   ToolDenied, ToolGate, ToolAnswered, ToolsDone, Conclude, Record, UpdateTrust, Disconnect, vars

(* The policy decides a transaction of which nothing was logged.           *)
LEMMA PolicyDecides ==
  ASSUME TypeOK, DecidedOnce, NEW tx \in Transactions, NEW request \in TransactionRequest,
         audit[tx] = <<>>, ShadowVerify(tx, request), UNCHANGED restarts
  PROVE  /\ DecidedOnce'
         /\ audit' = [audit EXCEPT ![tx] = <<CheckPolicy(request)>>]
<1>1. CheckPolicy(request) \in Decisions  BY DecisionType
<1>2. audit' = [audit EXCEPT ![tx] = <<CheckPolicy(request)>>]
  BY DEF ShadowVerify, Log
<1>3. tx \notin pending  BY DEF DecidedOnce
<1>4. pending' = IF CheckPolicy(request) = "REVIEW" THEN pending \cup {tx} ELSE pending
  BY DEF ShadowVerify
<1>5. audit'[tx] = <<CheckPolicy(request)>> /\ \A t \in Transactions \ {tx} : audit'[t] = audit[t]
  BY <1>2 DEF TypeOK, VaultTypeOK
<1>6. <<CheckPolicy(request)>> = <<"REVIEW">> <=> CheckPolicy(request) = "REVIEW"
  OBVIOUS
<1>7. pending \subseteq Transactions  BY DEF TypeOK, VaultTypeOK
<1>8. (\A t \in Transactions :
        \/ audit[t] \in {<<>>, <<"ALLOW">>, <<"BLOCK">>, <<"REVIEW">>}
        \/ audit[t] \in {<<"REVIEW", "ALLOW">>, <<"REVIEW", "BLOCK">>})'
  BY <1>1, <1>5 DEF DecidedOnce, Decisions
<1>9. (\A t \in pending : audit[t] = <<"REVIEW">>)'
  BY <1>3, <1>4, <1>5, <1>6, <1>7 DEF DecidedOnce
<1>10. (restarts = 0 => {t \in Transactions : audit[t] = <<"REVIEW">>} \subseteq pending)'
  BY <1>4, <1>5, <1>6 DEF DecidedOnce
<1> QED  BY <1>2, <1>8, <1>9, <1>10 DEF DecidedOnce

LEMMA SecondEntry ==
  ASSUME NEW first \in Decisions, NEW second \in Decisions
  PROVE  Append(<<first>>, second) = <<first, second>>
<1> DEFINE log == Append(<<first>>, second)
           pair == <<first, second>>
<1>1. <<first>> \in Seq(Decisions) /\ Len(<<first>>) = 1  OBVIOUS
<1>2. log \in Seq(Decisions) /\ Len(log) = 2 /\ log[1] = first /\ log[2] = second  BY <1>1
<1>3. pair \in Seq(Decisions) /\ Len(pair) = 2 /\ pair[1] = first /\ pair[2] = second  OBVIOUS
<1> HIDE DEF log, pair
<1>4. \A i \in 1 .. Len(log) : log[i] = pair[i]  BY <1>2, <1>3
<1>5. log = pair  BY <1>2, <1>3, <1>4, SeqEqual
<1> QED  BY <1>5 DEF log, pair

(* A human decides a transaction that was escalated.                       *)
LEMMA HumanDecides ==
  ASSUME TypeOK, DecidedOnce, NEW tx \in Transactions, NEW approved \in BOOLEAN,
         HumanApprove(tx, approved), UNCHANGED restarts
  PROVE  /\ DecidedOnce'
         /\ audit[tx] = <<"REVIEW">>
         /\ audit' = [audit EXCEPT ![tx] = <<"REVIEW", IF approved THEN "ALLOW" ELSE "BLOCK">>]
<1> DEFINE decision == IF approved THEN "ALLOW" ELSE "BLOCK"
<1>1. audit[tx] = <<"REVIEW">>  BY DEF DecidedOnce, HumanApprove
<1>2. audit' = [audit EXCEPT ![tx] = <<"REVIEW", decision>>]
  <2>1. audit' = [audit EXCEPT ![tx] = Append(@, decision)]  BY DEF HumanApprove, Log
  <2>2. decision \in Decisions /\ "REVIEW" \in Decisions  BY DEF Decisions
  <2>3. Append(<<"REVIEW">>, decision) = <<"REVIEW", decision>>  BY <2>2, SecondEntry
  <2> QED  BY <1>1, <2>1, <2>3 DEF TypeOK, VaultTypeOK
<1>3. audit'[tx] = <<"REVIEW", decision>> /\ \A t \in Transactions \ {tx} : audit'[t] = audit[t]
  BY <1>2 DEF TypeOK, VaultTypeOK
<1>4. pending' = pending \ {tx} /\ pending \subseteq Transactions
  BY DEF HumanApprove, TypeOK, VaultTypeOK
<1>5. <<"REVIEW", decision>> # <<"REVIEW">>  OBVIOUS
<1>6. <<"REVIEW", decision>> \in {<<"REVIEW", "ALLOW">>, <<"REVIEW", "BLOCK">>}  OBVIOUS
<1> QED  BY <1>1, <1>2, <1>3, <1>4, <1>5, <1>6 DEF DecidedOnce

LEMMA DecidedStep ==
  ASSUME LiveInv, [Next]_vars
  PROVE  DecidedOnce'
<1> USE DEF LiveInv, VaultInv
<1>1. CASE Undecided
  BY <1>1 DEF Undecided, vault, DecidedOnce
<1>2. ASSUME NEW tx \in Transactions, HandleVerify(tx) PROVE DecidedOnce'
  <2>1. audit[tx] = <<>> /\ intent[tx] \in TransactionRequest
    BY <1>2 DEF HandleVerify, RequestInv, TypeOK
  <2> QED  BY <1>2, <2>1, PolicyDecides DEF HandleVerify
<1>3. ASSUME NEW r \in Runs, HandleApprove(r) PROVE DecidedOnce'
  <2>1. <<r, 0>> \in Transactions  BY RunTransaction, LiveAssumption
  <2>2. CASE UNCHANGED vault  BY <1>3, <2>2 DEF HandleApprove, vault, DecidedOnce
  <2> QED  BY <1>3, <2>1, <2>2, HumanDecides DEF HandleApprove
<1>4. ASSUME NEW tx \in pending, NEW approved \in BOOLEAN, ReviewerDecides(tx, approved)
      PROVE  DecidedOnce'
  BY <1>4, HumanDecides DEF ReviewerDecides, TypeOK, VaultTypeOK
<1>5. ASSUME NEW request \in TransactionRequest, NEW c \in Clients, ClientVerifies(c, request)
      PROVE  DecidedOnce'
  BY <1>5, ClientTransaction, PolicyDecides DEF ClientVerifies
<1>6. CASE VaultRestarts
  BY <1>6 DEF VaultRestarts, DecidedOnce, TypeOK
<1> QED
  BY <1>1, <1>2, <1>3, <1>4, <1>5, <1>6, UndecidedSteps DEF Next, Handle

LEMMA RequestStep ==
  ASSUME LiveInv, [Next]_vars
  PROVE  RequestInv'
<1> USE DEF LiveInv, VaultInv
<1>1. ASSUME UNCHANGED audit,
             \A tx \in Transactions : <<tx, "verify">> \in requests' => <<tx, "verify">> \in requests
      PROVE  RequestInv'
  BY <1>1 DEF RequestInv
<1>2. ASSUME NEW tx \in Transactions, HandleVerify(tx) PROVE RequestInv'
  <2>1. \A t \in Transactions \ {tx} : audit'[t] = audit[t]
    BY <1>2 DEF HandleVerify, ShadowVerify, Log, TypeOK, VaultTypeOK
  <2> QED  BY <1>2, <2>1 DEF HandleVerify, RequestInv
<1>3. ASSUME NEW tx \in Transactions, NEW approved \in BOOLEAN, HumanApprove(tx, approved),
             UNCHANGED restarts,
             \A t \in Transactions : <<t, "verify">> \in requests' => <<t, "verify">> \in requests
      PROVE  RequestInv'
  <2>1. audit[tx] = <<"REVIEW">>  BY <1>3, HumanDecides
  <2>2. \A t \in Transactions \ {tx} : audit'[t] = audit[t]
    BY <1>3 DEF HumanApprove, Log, TypeOK, VaultTypeOK
  <2> QED  BY <1>3, <2>1, <2>2 DEF RequestInv
<1>4. ASSUME NEW r \in Runs, HandleApprove(r) PROVE RequestInv'
  <2>1. <<r, 0>> \in Transactions  BY RunTransaction, LiveAssumption
  <2> QED  BY <1>1, <1>3, <1>4, <2>1 DEF HandleApprove, vault
<1>5. ASSUME NEW tx \in pending, NEW approved \in BOOLEAN, ReviewerDecides(tx, approved)
      PROVE  RequestInv'
  BY <1>3, <1>5 DEF ReviewerDecides, calls, TypeOK, VaultTypeOK
<1>6. ASSUME NEW request \in TransactionRequest, NEW c \in Clients, ClientVerifies(c, request)
      PROVE  RequestInv'
  <2>1. \A t \in Transactions \ {<<c, 0>>} : audit'[t] = audit[t]
    BY <1>6, ClientTransaction DEF ClientVerifies, ShadowVerify, Log, TypeOK, VaultTypeOK
  <2> QED  BY <1>6, <2>1 DEF ClientVerifies, RequestInv, calls
<1>7. ASSUME NEW r \in Runs, NEW k \in 0 .. MaxToolCalls, Fresh(r, k), UNCHANGED audit,
             Post(<<r, k>>, "verify")
      PROVE  RequestInv'
  <2>1. <<r, k>> \in Transactions /\ \A c \in Clients : <<r, k>> # <<c, 0>>
    BY RunTransaction, ClientTransaction
  <2>2. audit[<<r, k>>] = <<>>  BY <1>7 DEF FreshInv
  <2> QED  BY <1>7, <2>1, <2>2 DEF Post, RequestInv
<1>8. ASSUME NEW request \in TransactionRequest, NEW r \in Runs, Start(r, request)
      PROVE  RequestInv'
  BY <1>7, <1>8, CurrentTransaction DEF Start, Fresh, Current, vault
<1>9. ASSUME NEW r \in Runs, NEW recipient \in {"known", "unknown"}, ToolGate(r, recipient)
      PROVE  RequestInv'
  <2>1. tool[r] + 1 \in 0 .. MaxToolCalls /\ tool[r] < tool[r] + 1
    BY <1>9, LiveAssumption DEF ToolGate, NextTool, TypeOK
  <2> QED  BY <1>7, <1>9, <2>1 DEF ToolGate, Fresh, vault
<1>10. CASE \/ \E request \in requests : RequestLost(request)
            \/ VaultRestarts
            \/ \E r \in Runs :
                 \/ NoAgent(r) \/ Disconnect(r) \/ TimeOut(r) \/ Decide(r) \/ Review(r) \/ Reviewed(r)
                 \/ React(r) \/ ToolDenied(r) \/ ToolAnswered(r) \/ ToolsDone(r) \/ Conclude(r)
                 \/ Record(r) \/ UpdateTrust(r)
            \/ UNCHANGED vars
  BY <1>1, <1>10 DEF RequestLost, VaultRestarts, NoAgent, Disconnect, TimeOut, Decide, Review,
     Reviewed, React, ToolDenied, ToolAnswered, ToolsDone, Conclude, Record, UpdateTrust, Post, vault, calls,
     vars
<1> QED
  BY <1>2, <1>4, <1>5, <1>6, <1>8, <1>9, <1>10 DEF Next, Handle, Run, ModelAnswers

(* A transaction that is no longer fresh never becomes fresh again, and    *)
(* what is fresh is only left to itself.                                   *)
LEMMA FreshStep ==
  ASSUME LiveInv, [Next]_vars
  PROVE  FreshInv'
<1> USE DEF LiveInv, VaultInv
<1> DEFINE Clean(r, k) == /\ audit[<<r, k>>] = <<>>
                          /\ <<<<r, k>>, "verify">> \notin requests
                          /\ answer[<<r, k>>] = Unanswered
<1> SUFFICES ASSUME NEW r \in Runs, NEW k \in 0 .. MaxToolCalls, Fresh(r, k)' PROVE Clean(r, k)'
  BY DEF FreshInv
<1>0. <<r, k>> \in Transactions  BY RunTransaction
<1>1. Fresh(r, k) => Clean(r, k)  BY DEF FreshInv
<1>2. ASSUME NEW tx \in Transactions, HandleVerify(tx) PROVE Clean(r, k)'
  <2>1. Fresh(r, k)  BY <1>2 DEF HandleVerify, Fresh, tools
  <2>2. tx # <<r, k>>  BY <1>1, <1>2, <2>1 DEF HandleVerify
  <2>3. audit'[<<r, k>>] = audit[<<r, k>>]
    BY <1>0, <1>2, <2>2 DEF HandleVerify, ShadowVerify, Log, TypeOK, VaultTypeOK
  <2>4. answer'[<<r, k>>] = answer[<<r, k>>]
    BY <1>0, <1>2, <2>2 DEF HandleVerify, Reply, TypeOK
  <2> QED  BY <1>1, <1>2, <2>1, <2>3, <2>4 DEF HandleVerify
<1>3. ASSUME NEW tx \in Transactions, NEW approved \in BOOLEAN, HumanApprove(tx, approved),
             UNCHANGED <<restarts, pc, tool, answer>>, requests' \subseteq requests
      PROVE  Clean(r, k)'
  <2>1. audit[tx] = <<"REVIEW">>  BY <1>3, HumanDecides
  <2>2. Fresh(r, k)  BY <1>3 DEF Fresh
  <2>3. tx # <<r, k>>
    <3>1. <<"REVIEW">> # <<>>  OBVIOUS
    <3> QED  BY <1>1, <2>1, <2>2, <3>1
  <2>4. audit'[<<r, k>>] = audit[<<r, k>>]
    BY <1>0, <1>3, <2>3 DEF HumanApprove, Log, TypeOK, VaultTypeOK
  <2> QED  BY <1>1, <1>3, <2>2, <2>4
<1>4. ASSUME NEW q \in Runs, HandleApprove(q) PROVE Clean(r, k)'
  <2>1. <<q, 0>> \in Transactions  BY RunTransaction, LiveAssumption
  <2>2. CASE UNCHANGED vault  BY <1>1, <1>4, <2>2 DEF HandleApprove, vault, tools, Fresh
  <2> QED  BY <1>3, <1>4, <2>1, <2>2 DEF HandleApprove, tools
<1>5. ASSUME NEW tx \in pending, NEW approved \in BOOLEAN, ReviewerDecides(tx, approved)
      PROVE  Clean(r, k)'
  BY <1>3, <1>5 DEF ReviewerDecides, calls, tools, TypeOK, VaultTypeOK
<1>6. ASSUME NEW request \in TransactionRequest, NEW c \in Clients, ClientVerifies(c, request)
      PROVE  Clean(r, k)'
  <2>1. Fresh(r, k)  BY <1>6 DEF ClientVerifies, Fresh, tools
  <2>2. audit'[<<r, k>>] = audit[<<r, k>>]
    BY <1>0, <1>6, ClientTransaction DEF ClientVerifies, ShadowVerify, Log, TypeOK, VaultTypeOK
  <2> QED  BY <1>1, <1>6, <2>1, <2>2 DEF ClientVerifies, calls
<1>7. ASSUME NEW request \in TransactionRequest, NEW q \in Runs, Start(q, request)
      PROVE  Clean(r, k)'
  <2>1. Current(q) = <<q, 0>>  BY <1>7 DEF Start, PlaceInv, BeforeTools, Current
  <2>2. q = r => tool[r] < k  BY <1>7 DEF Start, Fresh, Goto, TypeOK, tools
  <2>3. Fresh(r, k)  BY <1>7, <2>2 DEF Start, Fresh, Goto, TypeOK, tools
  <2>4. <<r, k>> # Current(q)  BY <2>1, <2>2, LiveAssumption, CurrentTransaction
  <2> QED  BY <1>1, <1>7, <2>3, <2>4 DEF Start, Post, vault
<1>8. ASSUME NEW q \in Runs, NEW recipient \in {"known", "unknown"}, ToolGate(q, recipient)
      PROVE  Clean(r, k)'
  <2>1. tool[q] \in Nat  BY LiveAssumption DEF TypeOK
  <2>2. Fresh(r, k) /\ <<r, k>> # <<q, tool[q] + 1>>
    BY <1>8, <2>1 DEF ToolGate, NextTool, Fresh, Goto, TypeOK
  <2> QED  BY <1>1, <1>8, <2>2 DEF ToolGate, Post, vault
<1>9. ASSUME NEW q \in Runs, TimeOut(q) PROVE Clean(r, k)'
  <2>1. Fresh(r, k)  BY <1>9 DEF TimeOut, Fresh, tools
  <2>2. answer'[<<r, k>>] = answer[<<r, k>>]
    <3>1. pc[q] \in {"verifying", "gating"} => <<r, k>> # Current(q)
      BY <2>1, CurrentTransaction DEF Fresh, Current
    <3> QED  BY <1>0, <1>9, <3>1 DEF TimeOut, TypeOK
  <2> QED  BY <1>1, <1>9, <2>1, <2>2 DEF TimeOut, vault
<1>10. ASSUME NEW q \in Runs, ToolDenied(q) PROVE Clean(r, k)'
  <2>1. tool[q] \in Nat  BY LiveAssumption DEF TypeOK
  <2>2. Fresh(r, k)  BY <1>10, <2>1 DEF ToolDenied, NextTool, Fresh, TypeOK
  <2> QED  BY <1>1, <1>10, <2>2 DEF ToolDenied, vault, calls
<1>11. CASE \/ \E request \in requests : RequestLost(request)
            \/ VaultRestarts
            \/ \E q \in Runs :
                 \/ NoAgent(q) \/ Disconnect(q) \/ Decide(q) \/ Review(q) \/ Reviewed(q)
                 \/ React(q) \/ ToolAnswered(q) \/ ToolsDone(q) \/ Conclude(q) \/ Record(q) \/ UpdateTrust(q)
            \/ UNCHANGED vars
  <2>1. UNCHANGED <<tool, audit, answer>>
    BY <1>11 DEF RequestLost, VaultRestarts, NoAgent, Disconnect, Decide, Review, Reviewed, React,
       ToolAnswered, ToolsDone, Conclude, Record, UpdateTrust, vault, tools, calls, vars
  <2>2. pc'[r] = "new" => pc[r] = "new"
    BY <1>11 DEF RequestLost, VaultRestarts, NoAgent, Disconnect, Decide, Proceed, Review, Reviewed,
       React, ToolAnswered, ToolsDone, Conclude, Record, UpdateTrust, Goto, TypeOK, vars
  <2>3. <<<<r, k>>, "verify">> \in requests' => <<<<r, k>>, "verify">> \in requests
    BY <1>11 DEF RequestLost, VaultRestarts, NoAgent, Disconnect, Decide, Review, Reviewed, React,
       ToolAnswered, ToolsDone, Conclude, Record, UpdateTrust, Post, calls, vars
  <2> QED  BY <1>1, <2>1, <2>2, <2>3 DEF Fresh
<1> QED
  BY <1>2, <1>4, <1>5, <1>6, <1>7, <1>8, <1>9, <1>10, <1>11 DEF Next, Handle, Run, ModelAnswers

(* What a step leaves of what was logged and answered: the first entry     *)
(* logged of a transaction stays, and so does an answer.                   *)
LEMMA LogStep ==
  ASSUME LiveInv, [Next]_vars, NEW t \in Transactions
  PROVE  audit[t] # <<>> => audit'[t] # <<>> /\ Head(audit'[t]) = Head(audit[t])
<1> USE DEF LiveInv, VaultInv
<1>1. CASE UNCHANGED audit  BY <1>1
<1>2. ASSUME NEW tx \in Transactions, NEW approved \in BOOLEAN, HumanApprove(tx, approved),
             UNCHANGED restarts
      PROVE  audit[t] # <<>> => audit'[t] # <<>> /\ Head(audit'[t]) = Head(audit[t])
  BY <1>2, HumanDecides DEF TypeOK, VaultTypeOK
<1>3. ASSUME NEW tx \in Transactions, NEW request \in TransactionRequest,
             audit[tx] = <<>>, ShadowVerify(tx, request)
      PROVE  audit[t] # <<>> => audit'[t] # <<>> /\ Head(audit'[t]) = Head(audit[t])
  BY <1>3 DEF ShadowVerify, Log, TypeOK, VaultTypeOK
<1>4. ASSUME NEW tx \in Transactions, HandleVerify(tx)
      PROVE  audit[t] # <<>> => audit'[t] # <<>> /\ Head(audit'[t]) = Head(audit[t])
  BY <1>3, <1>4 DEF HandleVerify, RequestInv, TypeOK
<1>5. ASSUME NEW r \in Runs, HandleApprove(r)
      PROVE  audit[t] # <<>> => audit'[t] # <<>> /\ Head(audit'[t]) = Head(audit[t])
  <2>1. <<r, 0>> \in Transactions  BY RunTransaction, LiveAssumption
  <2> QED  BY <1>1, <1>2, <1>5, <2>1 DEF HandleApprove, vault
<1>6. ASSUME NEW tx \in pending, NEW approved \in BOOLEAN, ReviewerDecides(tx, approved)
      PROVE  audit[t] # <<>> => audit'[t] # <<>> /\ Head(audit'[t]) = Head(audit[t])
  BY <1>2, <1>6 DEF ReviewerDecides, TypeOK, VaultTypeOK
<1>7. ASSUME NEW request \in TransactionRequest, NEW c \in Clients, ClientVerifies(c, request)
      PROVE  audit[t] # <<>> => audit'[t] # <<>> /\ Head(audit'[t]) = Head(audit[t])
  BY <1>3, <1>7, ClientTransaction DEF ClientVerifies
<1>8. CASE Undecided  BY <1>1, <1>8 DEF Undecided, vault
<1>9. CASE VaultRestarts  BY <1>1, <1>9 DEF VaultRestarts
<1> QED
  BY <1>4, <1>5, <1>6, <1>7, <1>8, <1>9, UndecidedSteps DEF Next, Handle

LEMMA AnswerStep ==
  ASSUME LiveInv, [Next]_vars, NEW t \in Transactions
  PROVE  \/ answer'[t] = answer[t]
         \/ answer[t] = Unanswered /\ answer'[t] = "ERROR"
         \/ /\ answer[t] = Unanswered /\ answer'[t] = CheckPolicy(intent[t])
            /\ audit'[t] = <<CheckPolicy(intent[t])>> /\ intent' = intent
<1> USE DEF LiveInv, VaultInv
<1> DEFINE Goal == \/ answer'[t] = answer[t]
                   \/ answer[t] = Unanswered /\ answer'[t] = "ERROR"
                   \/ /\ answer[t] = Unanswered /\ answer'[t] = CheckPolicy(intent[t])
                      /\ audit'[t] = <<CheckPolicy(intent[t])>> /\ intent' = intent
<1>1. CASE UNCHANGED answer  BY <1>1
<1>2. ASSUME NEW tx \in Transactions, HandleVerify(tx) PROVE Goal
  <2>1. audit[tx] = <<>> /\ intent[tx] \in TransactionRequest
    BY <1>2 DEF HandleVerify, RequestInv, TypeOK
  <2>2. audit' = [audit EXCEPT ![tx] = <<CheckPolicy(intent[tx])>>] /\ UNCHANGED intent
    BY <1>2, <2>1, PolicyDecides DEF HandleVerify
  <2>3. CASE t = tx /\ Waits(tx) /\ answer' = [answer EXCEPT ![tx] = CheckPolicy(intent[tx])]
    BY <2>2, <2>3 DEF Waits, TypeOK, VaultTypeOK
  <2>4. CASE ~(t = tx /\ Waits(tx) /\ answer' = [answer EXCEPT ![tx] = CheckPolicy(intent[tx])])
    BY <1>2, <2>4 DEF HandleVerify, Reply, TypeOK
  <2> QED  BY <2>3, <2>4
<1>3. ASSUME NEW r \in Runs, TimeOut(r) PROVE Goal
  BY <1>3 DEF TimeOut, Waits, TypeOK
<1>4. CASE \/ \E request \in requests : RequestLost(request)
           \/ \E tx \in pending, approved \in BOOLEAN : ReviewerDecides(tx, approved)
           \/ \E request \in TransactionRequest :
                \/ \E c \in Clients : ClientVerifies(c, request)
                \/ \E r \in Runs : Start(r, request)
           \/ VaultRestarts
           \/ \E r \in Runs :
                \/ HandleApprove(r)
                \/ NoAgent(r) \/ Disconnect(r) \/ Decide(r) \/ Review(r) \/ Reviewed(r)
                \/ React(r) \/ ToolDenied(r) \/ ToolAnswered(r) \/ ToolsDone(r) \/ Conclude(r)
                \/ \E recipient \in {"known", "unknown"} : ToolGate(r, recipient)
                \/ Record(r) \/ UpdateTrust(r)
           \/ UNCHANGED vars
  BY <1>1, <1>4 DEF RequestLost, ReviewerDecides, ClientVerifies, Start, VaultRestarts,
     HandleApprove, NoAgent, Disconnect, Decide, Review, Reviewed, React, ToolDenied, ToolAnswered,
     ToolsDone, Conclude, ToolGate, Record, UpdateTrust, calls, vars
<1> QED
  BY <1>2, <1>3, <1>4 DEF Next, Handle, Run, ModelAnswers

(* A request is settled before it is made.                                 *)
LEMMA IntentStep ==
  ASSUME LiveInv, [Next]_vars, NEW t \in Transactions
  PROVE  answer[t] # Unanswered => intent'[t] = intent[t]
<1> USE DEF LiveInv, VaultInv
<1>1. CASE UNCHANGED intent  BY <1>1
<1>2. ASSUME NEW request \in TransactionRequest, NEW r \in Runs, Start(r, request)
      PROVE  answer[t] # Unanswered => intent'[t] = intent[t]
  <2>1. answer[Current(r)] = Unanswered
    BY <1>2, CurrentTransaction DEF Start, FreshInv, Fresh, Current
  <2> QED  BY <1>2, <2>1 DEF Start, TypeOK
<1>3. ASSUME NEW r \in Runs, NEW recipient \in {"known", "unknown"}, ToolGate(r, recipient)
      PROVE  answer[t] # Unanswered => intent'[t] = intent[t]
  <2>1. tool[r] + 1 \in 0 .. MaxToolCalls /\ tool[r] < tool[r] + 1
    BY <1>3, LiveAssumption DEF ToolGate, NextTool, TypeOK
  <2>2. answer[<<r, tool[r] + 1>>] = Unanswered  BY <2>1 DEF FreshInv, Fresh
  <2> QED  BY <1>3, <2>2 DEF ToolGate, TypeOK
<1>4. CASE \/ \E tx \in Transactions : HandleVerify(tx)
           \/ \E request \in requests : RequestLost(request)
           \/ \E tx \in pending, approved \in BOOLEAN : ReviewerDecides(tx, approved)
           \/ \E request \in TransactionRequest, c \in Clients : ClientVerifies(c, request)
           \/ VaultRestarts
           \/ \E r \in Runs :
                \/ HandleApprove(r)
                \/ NoAgent(r) \/ Disconnect(r) \/ TimeOut(r) \/ Decide(r) \/ Review(r) \/ Reviewed(r)
                \/ React(r) \/ ToolDenied(r) \/ ToolAnswered(r) \/ ToolsDone(r) \/ Conclude(r)
                \/ Record(r) \/ UpdateTrust(r)
           \/ UNCHANGED vars
  BY <1>1, <1>4 DEF HandleVerify, RequestLost, ReviewerDecides, ClientVerifies, VaultRestarts,
     HandleApprove, NoAgent, Disconnect, TimeOut, Decide, Review, Reviewed, React, ToolDenied,
     ToolAnswered, ToolsDone, Conclude, Record, UpdateTrust, vars
<1> QED
  BY <1>2, <1>3, <1>4 DEF Next, Handle, Run, ModelAnswers

LEMMA AnswerInvStep ==
  ASSUME LiveInv, [Next]_vars
  PROVE  AnswerInv'
<1> SUFFICES ASSUME NEW t \in Transactions, answer'[t] \in Decisions
             PROVE  /\ audit'[t] # <<>> /\ Head(audit'[t]) = answer'[t]
                    /\ CheckPolicy(intent'[t]) = answer'[t]
  BY DEF AnswerInv, CheckPolicy, Refused
<1>1. "ERROR" \notin Decisions /\ Unanswered \notin Decisions  BY DEF Decisions, Unanswered
<1>2. CASE answer'[t] = answer[t]
  <2>1. /\ audit[t] # <<>> /\ Head(audit[t]) = answer[t]
        /\ CheckPolicy(intent[t]) = answer[t]
    BY <1>2 DEF LiveInv, AnswerInv
  <2>2. intent'[t] = intent[t]  BY <1>1, <1>2, IntentStep
  <2>3. audit'[t] # <<>> /\ Head(audit'[t]) = Head(audit[t])  BY <2>1, LogStep
  <2> QED  BY <1>2, <2>1, <2>2, <2>3
<1>3. CASE /\ answer'[t] = CheckPolicy(intent[t])
           /\ audit'[t] = <<CheckPolicy(intent[t])>> /\ intent' = intent
  <2>1. Head(<<CheckPolicy(intent[t])>>) = CheckPolicy(intent[t])
        /\ <<CheckPolicy(intent[t])>> # <<>>
    OBVIOUS
  <2> QED  BY <1>3, <2>1
<1> QED  BY <1>1, <1>2, <1>3, AnswerStep

LEMMA GateStep ==
  ASSUME LiveInv, [Next]_vars
  PROVE  GateInv'
<1> SUFFICES ASSUME NEW r \in Runs, NEW k \in 1 .. MaxToolCalls PROVE intent'[<<r, k>>].amount = 0
  BY DEF GateInv
<1>1. intent[<<r, k>>].amount = 0  BY DEF LiveInv, GateInv
<1>2. k \in 0 .. MaxToolCalls /\ k # 0  BY LiveAssumption
<1>3. <<r, k>> \in Transactions  BY <1>2, RunTransaction
<1>4. ASSUME NEW request \in TransactionRequest, NEW q \in Runs, Start(q, request)
      PROVE  intent'[<<r, k>>].amount = 0
  <2>1. Current(q) # <<r, k>>
    BY <1>2, <1>4 DEF LiveInv, PlaceInv, BeforeTools, Start, Current
  <2> QED  BY <1>1, <1>3, <1>4, <2>1 DEF Start, LiveInv, TypeOK
<1>5. ASSUME NEW q \in Runs, NEW recipient \in {"known", "unknown"}, ToolGate(q, recipient)
      PROVE  intent'[<<r, k>>].amount = 0
  <2>1. intent[<<r, k>>] \in TransactionRequest  BY <1>3 DEF LiveInv, TypeOK
  <2> QED  BY <1>1, <1>3, <1>5, <2>1 DEF ToolGate, LiveInv, TypeOK, TransactionRequest
<1>6. CASE UNCHANGED intent  BY <1>1, <1>6
<1>7. \/ UNCHANGED intent
      \/ \E request \in TransactionRequest, q \in Runs : Start(q, request)
      \/ \E q \in Runs, recipient \in {"known", "unknown"} : ToolGate(q, recipient)
  BY DEF Next, Handle, Run, ModelAnswers, HandleVerify, RequestLost, ReviewerDecides, ClientVerifies,
     VaultRestarts, HandleApprove, NoAgent, Disconnect, TimeOut, Decide, Review, Reviewed, React,
     ToolDenied, ToolAnswered, ToolsDone, Conclude, Record, UpdateTrust, vars
<1> QED  BY <1>4, <1>5, <1>6, <1>7

(* What a run did: what RunInv and UsedInv read of it.                     *)
Deeds(r) == <<pc[r], recorded[r], used[r], r \in earned>>

LEMMA RunStep ==
  ASSUME LiveInv, [Next]_vars
  PROVE  RunInv'
<1> USE DEF LiveInv
<1> DEFINE Sound(r, status) ==
             /\ pc[r] = "blocking" \/ recorded[r] = "blocked" => status = "BLOCK"
             /\ pc[r] \in {"review", "approving"} => status = "REVIEW"
             /\ Executes(r) =>
                  status \in {"ALLOW", "ERROR"} \/ (status = "REVIEW" /\ approval[r] # Unanswered)
<1> SUFFICES ASSUME NEW r \in Runs PROVE Sound(r, answer[<<r, 0>>])'
  BY DEF RunInv
<1> DEFINE status == answer[<<r, 0>>]
<1>0. <<r, 0>> \in Transactions  BY RunTransaction, LiveAssumption
<1>1. Sound(r, status)  BY DEF RunInv
<1>2. status # Unanswered => status' = status  BY <1>0, AnswerStep
<1>3. approval[r] # Unanswered => approval'[r] = approval[r]
  BY DEF Next, Handle, Run, ModelAnswers, HandleVerify, RequestLost, ReviewerDecides, ClientVerifies, Start,
     VaultRestarts, HandleApprove, ReplyApproval, NoAgent, Disconnect, TimeOut, Decide, Review,
     Reviewed, React, ToolDenied, ToolGate, ToolAnswered, ToolsDone, Conclude, Record, UpdateTrust, calls,
     vars, TypeOK
<1>4. ASSUME Deeds(r)' = Deeds(r) PROVE Sound(r, status)'
  <2>1. /\ pc'[r] = pc[r] /\ recorded'[r] = recorded[r] /\ used'[r] = used[r]
        /\ r \in earned' <=> r \in earned
    BY <1>4 DEF Deeds
  <2>2. Executes(r)' <=> Executes(r)  BY <2>1 DEF Executes
  <2> QED  BY <1>1, <1>2, <1>3, <2>1, <2>2 DEF Unanswered
<1>5. ASSUME NEW q \in Runs,
             \/ \E request \in TransactionRequest : Start(q, request)
             \/ \E recipient \in {"known", "unknown"} : ToolGate(q, recipient)
             \/ NoAgent(q) \/ Decide(q) \/ Review(q) \/ Reviewed(q) \/ React(q)
             \/ ToolAnswered(q) \/ ToolsDone(q) \/ Conclude(q) \/ Record(q) \/ UpdateTrust(q) \/ Disconnect(q)
      PROVE  Sound(r, status)'
  <2>1. UNCHANGED <<answer, approval>>
    BY <1>5 DEF Start, ToolGate, NoAgent, Decide, Review, Reviewed, React, ToolAnswered, ToolsDone, Conclude,
       Record, UpdateTrust, Disconnect, calls
  <2>2. CASE q # r
    <3>1. Deeds(r)' = Deeds(r)
      BY <1>5, <2>2 DEF Deeds, Start, ToolGate, NoAgent, Decide, Proceed, Review, Reviewed, React,
         ToolAnswered, ToolsDone, Conclude, Record, UpdateTrust, Disconnect, Goto, tools, outcome, TypeOK
    <3> QED  BY <1>4, <3>1
  <2>3. CASE q = r
    <3> USE <2>1, <2>3, <1>1
    <3>1. CASE \E request \in TransactionRequest : Start(r, request)
      BY <3>1 DEF Start, Goto, TypeOK, Executes, tools, outcome
    <3>2. CASE NoAgent(r) \/ Disconnect(r)
      BY <3>2 DEF NoAgent, Disconnect, Goto, TypeOK, Executes, tools, outcome
    <3>3. CASE Decide(r)
      <4>1. Current(r) = <<r, 0>>  BY <3>3 DEF Decide, PlaceInv, BeforeTools, Current
      <4> QED  BY <3>3, <4>1 DEF Decide, Proceed, Goto, TypeOK, Executes, tools, outcome
    <3>4. CASE Review(r)
      BY <3>4 DEF Review, Goto, TypeOK, Executes, tools, outcome
    <3>5. CASE Reviewed(r)
      BY <3>5 DEF Reviewed, Proceed, Goto, TypeOK, Executes, tools, outcome
    <3>6. CASE \/ \E recipient \in {"known", "unknown"} : ToolGate(r, recipient)
               \/ React(r) \/ ToolsDone(r) \/ Conclude(r)
      BY <3>6 DEF ToolGate, NextTool, React, ToolsDone, Conclude, Goto, TypeOK, Executes, tools, outcome
    <3>7. CASE ToolAnswered(r)
      BY <3>7 DEF ToolAnswered, Goto, TypeOK, Executes, outcome
    <3>8. CASE Record(r)
      <4>1. pc[r] = "drift" \/ pc[r] = "recording" => Executes(r)  BY DEF Executes
      <4> QED  BY <3>8, <4>1 DEF Record, RunStatus, Goto, TypeOK, Executes, tools
    <3>9. CASE UpdateTrust(r)
      BY <3>9 DEF UpdateTrust, Goto, TypeOK, Executes, tools
    <3> QED  BY <1>5, <3>1, <3>2, <3>3, <3>4, <3>5, <3>6, <3>7, <3>8, <3>9
  <2> QED  BY <2>2, <2>3
<1>6. CASE \/ \E tx \in Transactions : HandleVerify(tx)
           \/ \E q \in Runs : HandleApprove(q) \/ TimeOut(q) \/ ToolDenied(q)
           \/ \E request \in requests : RequestLost(request)
           \/ \E tx \in pending, approved \in BOOLEAN : ReviewerDecides(tx, approved)
           \/ \E request \in TransactionRequest, c \in Clients : ClientVerifies(c, request)
           \/ VaultRestarts
           \/ UNCHANGED vars
  <2>1. Deeds(r)' = Deeds(r)
    BY <1>6 DEF Deeds, HandleVerify, HandleApprove, TimeOut, ToolDenied, RequestLost,
       ReviewerDecides, ClientVerifies, VaultRestarts, tools, outcome, vars
  <2> QED  BY <1>4, <2>1
<1> QED
  BY <1>5, <1>6 DEF Next, Handle, Run, ModelAnswers

LEMMA UsedStep ==
  ASSUME LiveInv, [Next]_vars
  PROVE  UsedInv'
<1> USE DEF LiveInv
<1> SUFFICES ASSUME NEW r \in Runs, NEW k \in used'[r] PROVE answer'[<<r, k>>] \in {"ALLOW", "ERROR"}
  BY DEF UsedInv
<1>1. k \in 1 .. MaxToolCalls /\ k \in 0 .. MaxToolCalls
  BY TypeStep, LiveAssumption DEF TypeOK
<1>2. <<r, k>> \in Transactions  BY <1>1, RunTransaction
<1>3. CASE k \in used[r]
  <2>1. answer[<<r, k>>] \in {"ALLOW", "ERROR"}  BY <1>3 DEF UsedInv
  <2> QED  BY <1>2, <2>1, AnswerStep DEF Unanswered
<1>4. ASSUME NEW q \in Runs, ToolAnswered(q), k \notin used[r]
      PROVE  answer'[<<r, k>>] \in {"ALLOW", "ERROR"}
  <2>1. q = r /\ k = tool[r] /\ answer[Current(r)] \notin {"BLOCK", Unanswered}
    BY <1>4 DEF ToolAnswered, TypeOK
  <2>2. answer[<<r, k>>] \in {"ALLOW", "ERROR", "REVIEW"} /\ answer' = answer
    BY <1>2, <1>4, <2>1 DEF ToolAnswered, Current, TypeOK, Decisions, calls
  <2>3. answer[<<r, k>>] # "REVIEW"
    <3>1. intent[<<r, k>>].amount = 0  BY <1>1 DEF GateInv
    <3>2. CheckPolicy(intent[<<r, k>>]) # "REVIEW"
      BY <3>1 DEF CheckPolicy, AUTO_APPROVE_LIMIT
    <3> QED  BY <1>2, <3>2 DEF AnswerInv, Decisions
  <2> QED  BY <2>2, <2>3
<1>5. k \in used[r] \/ \E q \in Runs : ToolAnswered(q)
  BY DEF Next, Handle, Run, ModelAnswers, HandleVerify, RequestLost, ReviewerDecides, ClientVerifies, Start,
     VaultRestarts, HandleApprove, NoAgent, Disconnect, TimeOut, Decide, Review, Reviewed, React,
     ToolDenied, ToolGate, ToolsDone, Conclude, Record, UpdateTrust, tools, vars
<1> QED  BY <1>3, <1>4, <1>5

LEMMA LiveStep == LiveInv /\ [Next]_vars => LiveInv'
<1> SUFFICES ASSUME LiveInv, [Next]_vars PROVE LiveInv'  OBVIOUS
<1>1. TypeOK' /\ PlaceInv'  BY TypeStep, PlaceStep DEF LiveInv
<1>2. VaultInv'  BY DecidedStep, RequestStep, FreshStep DEF VaultInv
<1>3. AnswerInv' /\ GateInv' /\ RunInv' /\ UsedInv'
  BY AnswerInvStep, GateStep, RunStep, UsedStep
<1> QED  BY <1>1, <1>2, <1>3 DEF LiveInv

-----------------------------------------------------------------------------

(* The policy decides a transaction once and a human at most once, only    *)
(* after an escalation, however many ask and whatever is lost.             *)
THEOREM DecidedOnceCorrect == Spec => []DecidedOnce
<1>1. LiveInv => DecidedOnce  BY DEF LiveInv, VaultInv
<1> QED  BY <1>1, LiveInit, LiveStep, PTL DEF Spec

(* A run that got an answer goes on within the three tiers only, and every *)
(* tool that it executed with an answer was allowed.                       *)
THEOREM GovernedCorrect == Spec => []ExecutionGoverned
<1>1. LiveInv => ExecutionGoverned
  <2> SUFFICES ASSUME LiveInv, NEW r \in Runs
               PROVE  /\ Executes(r) /\ answer[<<r, 0>>] # "ERROR" =>
                           /\ /\ intent[<<r, 0>>].recipient = "known"
                              /\ intent[<<r, 0>>].amount <= HUMAN_REVIEW_LIMIT
                           /\ intent[<<r, 0>>].amount >= AUTO_APPROVE_LIMIT =>
                                /\ Head(audit[<<r, 0>>]) = "REVIEW"
                                /\ approval[r] # Unanswered
                      /\ \A k \in used[r] :
                           answer[<<r, k>>] # "ERROR" => audit[<<r, k>>] = <<"ALLOW">>
    BY DEF ExecutionGoverned
  <2> USE DEF LiveInv, VaultInv
  <2> DEFINE tx == <<r, 0>>
  <2>1. tx \in Transactions /\ intent[tx] \in TransactionRequest
    BY RunTransaction, LiveAssumption DEF TypeOK
  <2>2. intent[tx].amount \in Nat
    <3>1. Amounts \cup {0} \subseteq Nat  BY LiveAssumption
    <3>2. intent[tx].amount \in Amounts \cup {0}  BY <2>1 DEF TransactionRequest
    <3> QED  BY <3>1, <3>2
  <2>3. ASSUME Executes(r), answer[tx] # "ERROR"
        PROVE  /\ intent[tx].recipient = "known" /\ intent[tx].amount <= HUMAN_REVIEW_LIMIT
               /\ intent[tx].amount >= AUTO_APPROVE_LIMIT =>
                    Head(audit[tx]) = "REVIEW" /\ approval[r] # Unanswered
    <3>1. answer[tx] = "ALLOW" \/ (answer[tx] = "REVIEW" /\ approval[r] # Unanswered)
      BY <2>3 DEF RunInv
    <3>2. Head(audit[tx]) = answer[tx] /\ CheckPolicy(intent[tx]) = answer[tx]
      BY <2>1, <3>1 DEF AnswerInv, Decisions
    <3>3. ~Refused(intent[tx])  BY <3>1, <3>2 DEF CheckPolicy
    <3>4. intent[tx].recipient = "known" /\ intent[tx].amount <= HUMAN_REVIEW_LIMIT
      BY <2>1, <2>2, <3>3 DEF Refused, TransactionRequest, HUMAN_REVIEW_LIMIT
    <3>5. intent[tx].amount >= AUTO_APPROVE_LIMIT => answer[tx] = "REVIEW"
      BY <3>2, <3>3 DEF CheckPolicy
    <3> QED  BY <3>1, <3>2, <3>4, <3>5
  <2>4. ASSUME NEW k \in used[r], answer[<<r, k>>] # "ERROR"
        PROVE  audit[<<r, k>>] = <<"ALLOW">>
    <3>1. k \in 0 .. MaxToolCalls  BY LiveAssumption DEF TypeOK
    <3>2. <<r, k>> \in Transactions  BY <3>1, RunTransaction
    <3>3. answer[<<r, k>>] = "ALLOW"  BY <2>4 DEF UsedInv
    <3>4. audit[<<r, k>>] # <<>> /\ Head(audit[<<r, k>>]) = "ALLOW"
      BY <3>2, <3>3 DEF AnswerInv, Decisions
    <3> QED  BY <3>2, <3>4 DEF DecidedOnce
  <2> QED  BY <2>3, <2>4
<1> QED  BY <1>1, LiveInit, LiveStep, PTL DEF Spec

(* A run recorded as blocked was blocked by the last decision logged for   *)
(* it, used no tool and raised no trust.                                   *)
THEOREM BlockedCorrect == Spec => []BlockedAgrees
<1>1. LiveInv => BlockedAgrees
  <2> SUFFICES ASSUME LiveInv, NEW r \in Runs, recorded[r] = "blocked"
               PROVE  /\ LET log == audit[<<r, 0>>] IN log # <<>> /\ log[Len(log)] = "BLOCK"
                      /\ used[r] = {} /\ r \notin earned
    BY DEF BlockedAgrees
  <2> USE DEF LiveInv, VaultInv
  <2>1. <<r, 0>> \in Transactions  BY RunTransaction, LiveAssumption
  <2>2. answer[<<r, 0>>] = "BLOCK"  BY DEF RunInv
  <2>3. audit[<<r, 0>>] # <<>> /\ Head(audit[<<r, 0>>]) = "BLOCK"
    BY <2>1, <2>2 DEF AnswerInv, Decisions
  <2>4. audit[<<r, 0>>] = <<"BLOCK">>  BY <2>1, <2>3 DEF DecidedOnce
  <2>5. ~Executes(r)  BY <2>2 DEF RunInv, Unanswered
  <2> QED  BY <2>4, <2>5 DEF Executes
<1> QED  BY <1>1, LiveInit, LiveStep, PTL DEF Spec
=============================================================================
