------------------------------ MODULE MeshProofs ------------------------------
(***************************************************************************)
(* Proofs about MeshExecution, AgentMarket and DriftDetection.             *)
(***************************************************************************)
EXTENDS MeshExecution, AgentMarket, DriftDetection, Induction

-----------------------------------------------------------------------------
(* What a decision is.                                                     *)

(* How the parts of a decision hang together: the verdict is the consensus *)
(* unless a hard limit failed, and the reason is of the first that did.    *)
IsDecision(d) ==
  /\ d.final \in {"ALLOW", "BLOCK"}
  /\ d.policy_pass \in BOOLEAN
  /\ d.final = "ALLOW" <=> d.consensus = "APPROVE" /\ d.policy_pass
  /\ d.policy_pass <=> d.failed = <<>>
  /\ d.final_reason = IF d.consensus # "APPROVE" THEN "quorum"
                      ELSE IF d.policy_pass THEN "approved" ELSE "override"
  /\ d.failed \in Seq({"max_discount_amount", "max_discount_percent", "hard_block_limit", "kyc_sanctions"})
  /\ d.failed # <<>> => Head(d.reason) = Head(d.failed)
  /\ d.amount \in Int /\ Len(d.votes) \in Nat

(* The requests that the model is given.                                   *)
IsRequest(r) == r.agents \in Seq(Agents) /\ r.amount \in Int /\ WeightsTyped(r.override)

LEMMA GivenRequests == \A r \in Requests \cup Unnamed : IsRequest(r)
  BY MeshAssumption DEF IsRequest

LEMMA FailedType ==
  ASSUME NEW request, NEW w
  PROVE  FailedChecks(request, w)
           \in Seq({"max_discount_amount", "max_discount_percent", "hard_block_limit", "kyc_sanctions"})
<1>. DEFINE R == {"max_discount_amount", "max_discount_percent", "hard_block_limit", "kyc_sanctions"}
            check(rule, fails) == IF fails THEN <<rule>> ELSE <<>>
            A == check("max_discount_amount", request.amount > w.max_discount_amount)
            B == check("max_discount_percent",
                       Get(request.context, "discount_percent", 0) > w.max_discount_percent)
            C == check("hard_block_limit", request.action \in {"transfer", "pay_invoice"}
                                           /\ request.amount > w.human_review_limit)
            D == check("kyc_sanctions", Get(request.context, "recipient", "") \in RiskyRecipients)
<1>0. ASSUME NEW rule \in R, NEW fails
      PROVE  check(rule, fails) \in Seq(R)
  <2>1. CASE fails
    BY <2>1
  <2>2. CASE ~fails
    BY <2>2
  <2>. QED  BY <2>1, <2>2
<1>1. A \in Seq(R) /\ B \in Seq(R) /\ C \in Seq(R) /\ D \in Seq(R)
  BY <1>0
<1>2. FailedChecks(request, w) = A \o B \o C \o D
  BY DEF FailedChecks
<1>. HIDE DEF A, B, C, D, R
<1>3. A \o B \o C \o D \in Seq(R)
  BY <1>1
<1>. QED  BY <1>2, <1>3 DEF R

(* The decision is of the request and its verdict is consistent.           *)
LEMMA DecideIsDecision ==
  ASSUME NEW id, NEW request, IsRequest(request)
  PROVE  LET d == Decide(id, request)
         IN  /\ IsDecision(d)
             /\ d.action_id = id /\ d.amount = request.amount
             /\ d.votes = [i \in 1 .. Len(request.agents) |->
                             [agent |-> request.agents[i], decision |-> Vote(request.agents[i], request)]]
<1>. DEFINE d == Decide(id, request)
            w == GetWeights(request.tenant, request.override)
            failed == FailedChecks(request, w)
<1>1. /\ d.final = IF d.consensus = "APPROVE" /\ d.policy_pass THEN "ALLOW" ELSE "BLOCK"
      /\ d.policy_pass = (failed = <<>>)
      /\ d.failed = failed
      /\ d.reason = Reason(failed, request, w)
      /\ d.final_reason = IF d.consensus # "APPROVE" THEN "quorum"
                          ELSE IF d.policy_pass THEN "approved" ELSE "override"
  BY DEF Decide
<1>2. /\ d.action_id = id /\ d.amount = request.amount
      /\ d.votes = [i \in 1 .. Len(request.agents) |->
                      [agent |-> request.agents[i], decision |-> Vote(request.agents[i], request)]]
  BY DEF Decide
<1>. HIDE DEF d, w
<1>3. failed \in Seq({"max_discount_amount", "max_discount_percent", "hard_block_limit", "kyc_sanctions"})
  BY FailedType
<1>4. failed # <<>> => Head(Reason(failed, request, w)) = Head(failed)
  BY <1>3 DEF Reason
<1>5. Len(d.votes) \in Nat
  BY <1>2 DEF IsRequest
<1>6. IsDecision(d)
  BY <1>1, <1>2, <1>3, <1>4, <1>5 DEF IsDecision, IsRequest
<1>. QED  BY <1>2, <1>6 DEF d

-----------------------------------------------------------------------------
(* The nodes of the graph.                                                 *)

(* A decision as the graph tells it.                                       *)
TellsDecision(nodes, id, d) ==
  /\ <<"decision", id>> \in DOMAIN nodes /\ <<"outcome", id>> \in DOMAIN nodes
  /\ nodes[<<"decision", id>>].final_decision = d.final
  /\ nodes[<<"decision", id>>].amount = d.amount
  /\ nodes[<<"decision", id>>].reason = d.reason
  /\ nodes[<<"decision", id>>].final_reason = d.final_reason
  /\ nodes[<<"outcome", id>>].decision = d.final

LEMMA MeshNodesAt ==
  ASSUME NEW r, NEW time
  PROVE  LET new == MeshNodes(r, time)
         IN  /\ <<"decision", r.action_id>> \in DOMAIN new
             /\ new[<<"decision", r.action_id>>] =
                  [final_decision |-> r.final, amount |-> r.amount, action_type |-> ActionType(r),
                   reason |-> r.reason, final_reason |-> r.final_reason, time |-> time]
             /\ <<"outcome", r.action_id>> \in DOMAIN new
             /\ new[<<"outcome", r.action_id>>] = [decision |-> r.final, time |-> time]
             /\ \A n \in DOMAIN new :
                  /\ n[1] \in {"decision", "consensus", "policy", "outcome", "agent", "reasoning"}
                  /\ n[1] \in {"decision", "outcome"} => n[2] = r.action_id
<1>. DEFINE agents == {r.votes[i].agent : i \in 1 .. Len(r.votes)}
            ids == {<<kind, r.action_id>> : kind \in {"decision", "consensus", "policy", "outcome"}}
                     \cup {<<"agent", a>> : a \in agents} \cup {<<"reasoning", r.action_id, a>> : a \in agents}
            new == MeshNodes(r, time)
<1>1. DOMAIN new = ids
  BY DEF MeshNodes
<1>2. /\ new[<<"decision", r.action_id>>] =
           [final_decision |-> r.final, amount |-> r.amount, action_type |-> ActionType(r),
            reason |-> r.reason, final_reason |-> r.final_reason, time |-> time]
      /\ new[<<"outcome", r.action_id>>] = [decision |-> r.final, time |-> time]
  BY DEF MeshNodes
<1>. HIDE DEF new
<1>3. \A n \in ids : /\ n[1] \in {"decision", "consensus", "policy", "outcome", "agent", "reasoning"}
                     /\ n[1] \in {"decision", "outcome"} => n[2] = r.action_id
  OBVIOUS
<1>4. <<"decision", r.action_id>> \in ids /\ <<"outcome", r.action_id>> \in ids
  OBVIOUS
<1>. HIDE DEF ids
<1>. QED  BY <1>1, <1>2, <1>3, <1>4 DEF new

(* New nodes: those that are not mentioned stay, and the fields of those   *)
(* that are mentioned are the new ones.                                    *)
LEMMA WithNodesAt ==
  ASSUME NEW nodes, NEW new
  PROVE  /\ DOMAIN WithNodes(nodes, new) = DOMAIN nodes \cup DOMAIN new
         /\ \A n \in DOMAIN nodes \ DOMAIN new : WithNodes(nodes, new)[n] = nodes[n]
  BY DEF WithNodes, Updated

LEMMA NewFields ==
  ASSUME NEW nodes, NEW new, NEW n \in DOMAIN new, NEW f \in DOMAIN new[n]
  PROVE  WithNodes(nodes, new)[n][f] = new[n][f]
<1>. DEFINE merged == [m \in DOMAIN new |-> IF m \in DOMAIN nodes THEN Updated(nodes[m], new[m]) ELSE new[m]]
<1>1. WithNodes(nodes, new)[n] = merged[n]
  BY DEF WithNodes, Updated
<1>2. merged[n][f] = new[n][f]
  BY DEF Updated
<1>. QED  BY <1>1, <1>2

LEMMA IngestMeshTells ==
  ASSUME NEW g, NEW r
  PROVE  LET nodes == IngestMesh(g, r).nodes
         IN  /\ TellsDecision(nodes, r.action_id, r)
             /\ \A id, d : id # r.action_id /\ TellsDecision(g.nodes, id, d) => TellsDecision(nodes, id, d)
<1>. DEFINE new == MeshNodes(r, Len(g.history) + 1)
            nodes == WithNodes(g.nodes, new)
<1>1. IngestMesh(g, r).nodes = nodes
  BY DEF IngestMesh
<1>. HIDE DEF new
<1>2. /\ DOMAIN nodes = DOMAIN g.nodes \cup DOMAIN new
      /\ \A n \in DOMAIN g.nodes \ DOMAIN new : nodes[n] = g.nodes[n]
      /\ \A n \in DOMAIN new : \A f \in DOMAIN new[n] : nodes[n][f] = new[n][f]
  <2>1. DOMAIN WithNodes(g.nodes, new) = DOMAIN g.nodes \cup DOMAIN new
    BY WithNodesAt
  <2>2. \A n \in DOMAIN g.nodes \ DOMAIN new : WithNodes(g.nodes, new)[n] = g.nodes[n]
    BY WithNodesAt
  <2>3. ASSUME NEW n \in DOMAIN new, NEW f \in DOMAIN new[n]
        PROVE  WithNodes(g.nodes, new)[n][f] = new[n][f]
    BY NewFields
  <2>. QED  BY <2>1, <2>2, <2>3
<1>3. /\ <<"decision", r.action_id>> \in DOMAIN new
      /\ new[<<"decision", r.action_id>>] =
           [final_decision |-> r.final, amount |-> r.amount, action_type |-> ActionType(r),
            reason |-> r.reason, final_reason |-> r.final_reason, time |-> Len(g.history) + 1]
      /\ <<"outcome", r.action_id>> \in DOMAIN new
      /\ new[<<"outcome", r.action_id>>] = [decision |-> r.final, time |-> Len(g.history) + 1]
      /\ \A n \in DOMAIN new : n[1] \in {"decision", "outcome"} => n[2] = r.action_id
  BY MeshNodesAt DEF new
<1>. HIDE DEF nodes
<1>4. TellsDecision(nodes, r.action_id, r)
  <2>1. DOMAIN new[<<"decision", r.action_id>>] =
          {"final_decision", "amount", "action_type", "reason", "final_reason", "time"}
    BY <1>3
  <2>2. DOMAIN new[<<"outcome", r.action_id>>] = {"decision", "time"}
    BY <1>3
  <2>3. /\ nodes[<<"decision", r.action_id>>].final_decision = r.final
        /\ nodes[<<"decision", r.action_id>>].amount = r.amount
        /\ nodes[<<"decision", r.action_id>>].reason = r.reason
        /\ nodes[<<"decision", r.action_id>>].final_reason = r.final_reason
    BY <1>2, <1>3, <2>1
  <2>4. nodes[<<"outcome", r.action_id>>].decision = r.final
    BY <1>2, <1>3, <2>2
  <2>. QED  BY <1>2, <1>3, <2>3, <2>4 DEF TellsDecision
<1>5. ASSUME NEW id, NEW d, id # r.action_id, TellsDecision(g.nodes, id, d)
      PROVE  TellsDecision(nodes, id, d)
  <2>1. <<"decision", id>> \notin DOMAIN new /\ <<"outcome", id>> \notin DOMAIN new
    BY <1>3, <1>5
  <2>2. /\ nodes[<<"decision", id>>] = g.nodes[<<"decision", id>>]
        /\ nodes[<<"outcome", id>>] = g.nodes[<<"outcome", id>>]
    BY <1>2, <1>5, <2>1 DEF TellsDecision
  <2>. QED  BY <1>2, <1>5, <2>2 DEF TellsDecision
<1>. QED  BY <1>1, <1>4, <1>5

LEMMA OthersTell ==
  ASSUME NEW g, NEW entry, NEW tx, NEW approved, NEW id, NEW d, TellsDecision(g.nodes, id, d)
  PROVE  /\ TellsDecision(IngestAudit(g, entry).nodes, id, d)
         /\ TellsDecision(IngestApproval(g, tx, approved).nodes, id, d)
<1>1. ASSUME NEW new, <<"decision", id>> \notin DOMAIN new, <<"outcome", id>> \notin DOMAIN new
      PROVE  TellsDecision(WithNodes(g.nodes, new), id, d)
  <2>1. /\ DOMAIN WithNodes(g.nodes, new) = DOMAIN g.nodes \cup DOMAIN new
        /\ \A n \in DOMAIN g.nodes \ DOMAIN new : WithNodes(g.nodes, new)[n] = g.nodes[n]
    BY WithNodesAt
  <2>. QED  BY <1>1, <2>1 DEF TellsDecision
<1>2. TellsDecision(IngestAudit(g, entry).nodes, id, d)
  <2>. DEFINE ids == {<<"tx", entry.transaction_id>>, <<"agent", entry.agent_id>>,
                      <<"entity", entry.recipient>>, <<"tier", entry.policy_tier>>}
  <2>1. PICK new : IngestAudit(g, entry).nodes = WithNodes(g.nodes, new) /\ DOMAIN new = ids
    <3>. DEFINE data == [n \in ids |->
                          CASE n = <<"tx", entry.transaction_id>> ->
                                 [status |-> entry.status, action |-> entry.action,
                                  amount |-> entry.amount, time |-> Len(g.history) + 1]
                            [] n = <<"agent", entry.agent_id>> -> [agent_id |-> entry.agent_id]
                            [] n = <<"entity", entry.recipient>> -> [entity_id |-> entry.recipient]
                            [] n = <<"tier", entry.policy_tier>> -> [tier |-> entry.policy_tier]]
    <3>1. IngestAudit(g, entry).nodes = WithNodes(g.nodes, data)
      BY DEF IngestAudit
    <3>2. DOMAIN data = ids
      OBVIOUS
    <3>. HIDE DEF data, ids
    <3>. QED  BY <3>1, <3>2
  <2>2. <<"decision", id>> \notin ids /\ <<"outcome", id>> \notin ids
    OBVIOUS
  <2>. QED  BY <1>1, <2>1, <2>2
<1>3. TellsDecision(IngestApproval(g, tx, approved).nodes, id, d)
  <2>1. IngestApproval(g, tx, approved).nodes = WithNodes(g.nodes, Reviewer)
    BY DEF IngestApproval
  <2>2. <<"decision", id>> \notin DOMAIN Reviewer /\ <<"outcome", id>> \notin DOMAIN Reviewer
    BY DEF Reviewer
  <2>. QED  BY <1>1, <2>1, <2>2
<1>. QED  BY <1>2, <1>3

-----------------------------------------------------------------------------
(* Streams and what is recorded of them.                                   *)

(* Nothing is answered before a request is handled, each is handled once,  *)
(* and only a decision is recorded.                                        *)
StreamInv ==
  /\ DOMAIN pc = Streams /\ DOMAIN asked = Streams /\ DOMAIN answer = Streams /\ DOMAIN runs = Streams
  /\ calls \subseteq Streams \X {"evaluate", "record"}
  /\ \A s \in Streams :
       /\ pc[s] = "new" => answer[s] = Unanswered /\ <<s, "evaluate">> \notin calls
       /\ <<s, "evaluate">> \in calls => asked[s] \in Requests /\ answer[s] \in {Unanswered, Failed}
       /\ <<s, "record">> \in calls => IsDecision(answer[s])
       /\ answer[s] \in {Unanswered, Failed} \/ IsDecision(answer[s])
       /\ runs[s] # Unrecorded => IsDecision(answer[s]) /\ runs[s] = MeshData(answer[s])

DecidedAndTold(nodes, id, d) == d = Undecided \/ (IsDecision(d) /\ TellsDecision(nodes, id, d))

(* What is decided is consistent, and told by the graph; and unless        *)
(* PrivateVault restarted, it is what the stream was answered.             *)
DecisionInv ==
  /\ DOMAIN decided = ActionIds
  /\ \A id \in ActionIds : DecidedAndTold(graph.nodes, id, decided[id])
  /\ restarts \in Nat
  /\ restarts = 0 => \A s \in Streams : IsDecision(answer[s]) => decided[s] = answer[s]

LEMMA NoDecision == ~IsDecision(Unanswered) /\ ~IsDecision(Failed)
  BY DEF IsDecision, Unanswered, Undecided, Failed

LEMMA DecisionInit == Init => StreamInv /\ DecisionInv
<1>. SUFFICES ASSUME Init
              PROVE  StreamInv /\ DecisionInv
  OBVIOUS
<1>1. StreamInv
  BY NoDecision DEF Init, StreamInv
<1>2. DecisionInv
  BY NoDecision DEF Init, MeshInit, Started, DecisionInv, DecidedAndTold
<1>. QED  BY <1>1, <1>2

(* A decision is stored and told, and the others with it.                  *)
LEMMA PipelineDecides ==
  ASSUME NEW id \in ActionIds, NEW request, IsRequest(request), FullPipeline(id, request), DecisionInv
  PROVE  /\ decided' = [decided EXCEPT ![id] = Decide(id, request)]
         /\ \A i \in ActionIds : DecidedAndTold(graph'.nodes, i, decided'[i])
<1>. DEFINE d == Decide(id, request)
<1>1. decided' = [decided EXCEPT ![id] = d] /\ graph' = IngestMesh(graph, d)
  BY DEF FullPipeline
<1>2. IsDecision(d) /\ d.action_id = id
  BY DecideIsDecision
<1>. HIDE DEF d
<1>3. /\ TellsDecision(graph'.nodes, id, d)
      /\ \A i, e : i # id /\ TellsDecision(graph.nodes, i, e) => TellsDecision(graph'.nodes, i, e)
  BY <1>1, <1>2, IngestMeshTells
<1>4. ASSUME NEW i \in ActionIds
      PROVE  DecidedAndTold(graph'.nodes, i, decided'[i])
  <2>1. CASE i = id
    BY <1>1, <1>2, <1>3, <2>1 DEF DecisionInv, DecidedAndTold
  <2>2. CASE i # id
    BY <1>1, <1>3, <2>2 DEF DecisionInv, DecidedAndTold
  <2>. QED  BY <2>1, <2>2
<1>5. decided' = [decided EXCEPT ![id] = Decide(id, request)]
  BY <1>1 DEF d
<1>. QED  BY <1>4, <1>5

(* What the handlers of transactions leave of it.                          *)
LEMMA TransactionsKeep ==
  ASSUME DecisionInv, UNCHANGED <<decided, restarts, answer>>,
         \/ \E entry : graph' = IngestAudit(graph, entry)
         \/ \E tx, approved : graph' = IngestApproval(graph, tx, approved)
  PROVE  DecisionInv'
<1>1. ASSUME NEW id \in ActionIds, decided[id] # Undecided
      PROVE  TellsDecision(graph'.nodes, id, decided'[id])
  BY <1>1, OthersTell DEF DecisionInv, DecidedAndTold
<1>. QED  BY <1>1 DEF DecisionInv, DecidedAndTold

LEMMA DecisionNext ==
  ASSUME StreamInv, DecisionInv, [Next]_vars
  PROVE  StreamInv' /\ DecisionInv'
<1>. USE NoDecision
<1>1. ASSUME NEW s \in Streams, HandleEvaluate(s)
      PROVE  StreamInv' /\ DecisionInv'
  <2>. DEFINE d == Decide(s, asked[s])
  <2>0. s \in ActionIds /\ IsRequest(asked[s]) /\ IsDecision(d)
    <3>1. asked[s] \in Requests
      BY <1>1 DEF HandleEvaluate, StreamInv
    <3>. QED  BY <3>1, GivenRequests, DecideIsDecision DEF ActionIds
  <2>. HIDE DEF d
  <2>1. CASE Raises(asked[s])
    <3>1. \/ answer' = answer
          \/ answer[s] = Unanswered /\ answer' = [answer EXCEPT ![s] = Failed]
      BY <1>1, <2>1 DEF HandleEvaluate, Reply, Waits
    <3>2. /\ calls' = calls \ {<<s, "evaluate">>} /\ <<s, "evaluate">> \in calls
          /\ UNCHANGED <<decided, graph, restarts, pc, asked, runs>>
      BY <1>1, <2>1 DEF HandleEvaluate
    <3>3. StreamInv'
      BY <3>1, <3>2 DEF StreamInv
    <3>4. DecisionInv'
      BY <3>1, <3>2 DEF StreamInv, DecisionInv
    <3>. QED  BY <3>3, <3>4
  <2>2. CASE ~Raises(asked[s])
    <3>1. \/ answer' = answer
          \/ answer[s] = Unanswered /\ answer' = [answer EXCEPT ![s] = d] /\ pc[s] = "evaluating"
      BY <1>1, <2>2 DEF HandleEvaluate, Reply, Waits, d
    <3>2. /\ calls' = calls \ {<<s, "evaluate">>} /\ <<s, "evaluate">> \in calls
          /\ UNCHANGED <<restarts, pc, asked, runs>>
          /\ FullPipeline(s, asked[s])
      BY <1>1, <2>2 DEF HandleEvaluate
    <3>3. /\ decided' = [decided EXCEPT ![s] = d]
          /\ \A i \in ActionIds : DecidedAndTold(graph'.nodes, i, decided'[i])
      BY <2>0, <3>2, PipelineDecides DEF d
    <3>4. StreamInv'
      BY <2>0, <3>1, <3>2 DEF StreamInv
    <3>5. ASSUME restarts' = 0, NEW r \in Streams, IsDecision(answer'[r])
          PROVE  decided'[r] = answer'[r]
      <4>1. answer[s] \in {Unanswered, Failed} /\ restarts = 0
        BY <3>2, <3>5 DEF StreamInv
      <4>2. CASE r = s
        BY <3>1, <3>3, <3>5, <4>1, <4>2, <2>0 DEF DecisionInv, StreamInv
      <4>3. CASE r # s
        BY <3>1, <3>3, <3>5, <4>1, <4>3, <2>0 DEF DecisionInv, StreamInv
      <4>. QED  BY <4>2, <4>3
    <3>6. DecisionInv'
      BY <3>2, <3>3, <3>5 DEF DecisionInv
    <3>. QED  BY <3>4, <3>6
  <2>. QED  BY <2>1, <2>2
<1>2. ASSUME NEW request \in Unnamed, EvaluateUnnamed(request)
      PROVE  StreamInv' /\ DecisionInv'
  <2>1. NoId \in ActionIds /\ \A s \in Streams : s # NoId
    BY MeshAssumption DEF ActionIds
  <2>2. FullPipeline(NoId, request) /\ UNCHANGED <<pc, asked, calls, answer, runs, restarts>>
    BY <1>2 DEF EvaluateUnnamed
  <2>3. /\ decided' = [decided EXCEPT ![NoId] = Decide(NoId, request)]
        /\ \A i \in ActionIds : DecidedAndTold(graph'.nodes, i, decided'[i])
    BY <2>1, <2>2, GivenRequests, PipelineDecides
  <2>4. StreamInv'
    BY <2>2 DEF StreamInv
  <2>5. DecisionInv'
    BY <2>1, <2>2, <2>3 DEF DecisionInv
  <2>. QED  BY <2>4, <2>5
<1>3. ASSUME NEW t \in Tenants, TenantConfigures(t)
      PROVE  StreamInv' /\ DecisionInv'
  <2>1. UNCHANGED <<decided, graph, pc, asked, calls, answer, runs, restarts>>
    BY <1>3 DEF TenantConfigures, Configure, ResetConfig
  <2>. QED  BY <2>1 DEF StreamInv, DecisionInv
<1>4. ASSUME NEW tx \in Transactions, NEW request \in ToVerify, Verify(tx, request)
      PROVE  StreamInv' /\ DecisionInv'
  <2>1. \E entry : graph' = IngestAudit(graph, entry)
    BY <1>4 DEF Verify
  <2>2. UNCHANGED <<decided, pc, asked, calls, answer, runs, restarts>>
    BY <1>4 DEF Verify
  <2>3. DecisionInv'
    BY <2>1, <2>2, TransactionsKeep
  <2>. QED  BY <2>2, <2>3 DEF StreamInv
<1>5. ASSUME NEW tx \in Transactions, NEW approved \in BOOLEAN, ReviewerDecides(tx, approved)
      PROVE  StreamInv' /\ DecisionInv'
  <2>1. graph' = IngestApproval(graph, tx, approved)
    BY <1>5 DEF ReviewerDecides
  <2>2. UNCHANGED <<decided, pc, asked, calls, answer, runs, restarts>>
    BY <1>5 DEF ReviewerDecides
  <2>3. DecisionInv'
    BY <2>1, <2>2, TransactionsKeep
  <2>. QED  BY <2>2, <2>3 DEF StreamInv
<1>6. ASSUME VaultRestarts
      PROVE  StreamInv' /\ DecisionInv'
  <2>1. StreamInv'
    BY <1>6 DEF VaultRestarts, StreamInv
  <2>2. DOMAIN decided' = ActionIds /\ \A id \in ActionIds : decided'[id] = Undecided
    BY <1>6 DEF VaultRestarts, MeshRestart, Started
  <2>3. restarts' \in Nat /\ restarts' # 0
    BY <1>6 DEF VaultRestarts, DecisionInv
  <2>. QED  BY <2>1, <2>2, <2>3 DEF DecisionInv, DecidedAndTold
<1>7. ASSUME NEW s \in Streams, HandleRecord(s)
      PROVE  StreamInv' /\ DecisionInv'
  <2>1. StreamInv'
    BY <1>7 DEF HandleRecord, StreamInv
  <2>. QED  BY <1>7, <2>1 DEF HandleRecord, vault, DecisionInv
<1>8. ASSUME NEW s \in Streams, NEW request \in Requests, Start(s, request)
      PROVE  StreamInv' /\ DecisionInv'
  <2>1. StreamInv'
    BY <1>8 DEF Start, Goto, StreamInv
  <2>. QED  BY <1>8, <2>1 DEF Start, vault, DecisionInv
<1>9. ASSUME NEW s \in Streams, Stream(s) \/ Disconnect(s)
      PROVE  StreamInv' /\ DecisionInv'
  <2>1. CASE TimeOut(s)
    <3>1. StreamInv'
      BY <2>1 DEF TimeOut, Waits, StreamInv
    <3>. QED  BY <2>1, <3>1 DEF TimeOut, Waits, vault, DecisionInv, StreamInv
  <2>2. CASE Answered(s)
    <3>1. StreamInv'
      BY <2>2 DEF Answered, Goto, StreamInv
    <3>. QED  BY <2>2, <3>1 DEF Answered, vault, DecisionInv
  <2>3. CASE Complete(s) \/ Disconnect(s)
    <3>1. StreamInv'
      BY <2>3 DEF Complete, Disconnect, Goto, StreamInv
    <3>. QED  BY <2>3, <3>1 DEF Complete, Disconnect, vault, DecisionInv
  <2>. QED  BY <1>9, <2>1, <2>2, <2>3 DEF Stream
<1>10. CASE UNCHANGED vars
  BY <1>10 DEF vars, vault, StreamInv, DecisionInv
<1>. QED  BY <1>1, <1>2, <1>3, <1>4, <1>5, <1>6, <1>7, <1>8, <1>9, <1>10 DEF Next

LEMMA DecisionAlways == Spec => [](StreamInv /\ DecisionInv)
<1>1. Init => StreamInv /\ DecisionInv
  BY DecisionInit
<1>2. (StreamInv /\ DecisionInv) /\ [Next]_vars => (StreamInv /\ DecisionInv)'
  BY DecisionNext
<1>. QED  BY <1>1, <1>2, PTL DEF Spec

(* Whatever calls are late or lost, and whoever else decides, configures   *)
(* or reviews in between, for any streams and callers: the verdict that    *)
(* reached a stream is the one of the audit and of the graph, and LORK's   *)
(* record of the run leads to the same.                                    *)
THEOREM VerdictAgreesAlways == Spec => []VerdictAgrees
<1>1. ASSUME StreamInv, DecisionInv
      PROVE  VerdictAgrees
  <2>1. SUFFICES ASSUME NEW s \in Streams, answer[s].final \in {"ALLOW", "BLOCK"}
                 PROVE  /\ restarts = 0 => /\ decided[s] = answer[s]
                                           /\ graph.nodes[<<"outcome", s>>].decision = answer[s].final
                        /\ runs[s] # Unrecorded =>
                             (answer[s].final = "ALLOW") = (runs[s].consensus = "APPROVE" /\ runs[s].policy_pass)
    BY DEF VerdictAgrees
  <2>2. IsDecision(answer[s]) /\ s \in ActionIds
    <3>1. answer[s] \in {Unanswered, Failed} \/ IsDecision(answer[s])
      BY <1>1 DEF StreamInv
    <3>2. Unanswered.final = "-" /\ Failed.final = "ERROR"
      BY DEF Unanswered, Undecided, Failed
    <3>. QED  BY <2>1, <3>1, <3>2 DEF ActionIds
  <2>3. ASSUME restarts = 0
        PROVE  decided[s] = answer[s] /\ graph.nodes[<<"outcome", s>>].decision = answer[s].final
    <3>1. decided[s] = answer[s]
      BY <1>1, <2>2, <2>3 DEF DecisionInv
    <3>. QED  BY <1>1, <2>2, <3>1, NoDecision DEF DecisionInv, DecidedAndTold, Unanswered, TellsDecision
  <2>4. ASSUME runs[s] # Unrecorded
        PROVE  (answer[s].final = "ALLOW") = (runs[s].consensus = "APPROVE" /\ runs[s].policy_pass)
    <3>1. runs[s].consensus = answer[s].consensus /\ runs[s].policy_pass = answer[s].policy_pass
      <4>1. runs[s] = MeshData(answer[s])
        BY <1>1, <2>4 DEF StreamInv
      <4>. QED  BY <4>1 DEF MeshData
    <3>. QED  BY <2>2, <3>1 DEF IsDecision
  <2>. QED  BY <2>3, <2>4
<1>. QED  BY <1>1, DecisionAlways, PTL

(* For any agents, requests and decisions in between: the graph's what-if  *)
(* analysis answers what PrivateVault would decide under the new limit     *)
(* exactly where no limit that it mistakes for the one on amounts, or that *)
(* hides behind that one, refused the decision.                            *)
THEOREM WhatIfExactAlways == Spec => []WhatIfExact
<1>1. ASSUME DecisionInv
      PROVE  WhatIfExact
  <2>1. ASSUME NEW id \in ActionIds, NEW newMax \in {20000, 250000, 400000}, DecidedOnly(id)
        PROVE  Projected(graph.nodes[<<"decision", id>>], newMax)
                 = IF Fits(decided[id], newMax) /\ Misleading(decided[id]) THEN "ALLOW"
                   ELSE DecidedAgain(decided[id], newMax)
    <3>. DEFINE d == decided[id]
                data == graph.nodes[<<"decision", id>>]
                others == OtherLimits(d)
    <3>1. IsDecision(d) /\ TellsDecision(graph.nodes, id, d)
      BY <1>1, <2>1 DEF DecisionInv, DecidedOnly, DecidedAndTold
    <3>2. /\ data.final_decision = d.final /\ data.amount = d.amount
          /\ data.reason = d.reason /\ data.final_reason = d.final_reason
      BY <3>1 DEF TellsDecision
    <3>3. d.policy_pass => others = {}
      BY <3>1 DEF IsDecision, OtherLimits, Range
    <3>4. ASSUME ~d.policy_pass
          PROVE  /\ NamesLimit(data.reason) <=> Head(d.failed) \in {"max_discount_amount", "hard_block_limit"}
                 /\ others = {} => Head(d.failed) = "max_discount_amount"
      <4>1. d.failed # <<>> /\ Head(data.reason) = Head(d.failed)
        BY <3>1, <3>2, <3>4 DEF IsDecision
      <4>2. Head(d.failed) \in Range(d.failed)
        BY <3>1, <4>1 DEF IsDecision, Range
      <4>. QED  BY <4>1, <4>2 DEF NamesLimit, OtherLimits
    <3>. HIDE DEF d, data, others
    <3>5. Projected(data, newMax)
            = IF Fits(d, newMax) /\ Misleading(d) THEN "ALLOW" ELSE DecidedAgain(d, newMax)
      <4>1. CASE d.consensus # "APPROVE"
        BY <3>1, <3>2, <4>1 DEF Projected, IsDecision, Fits, DecidedAgain
      <4>2. CASE d.consensus = "APPROVE" /\ d.policy_pass
        <5>1. d.final = "ALLOW" /\ others = {}
          BY <3>1, <3>3, <4>2 DEF IsDecision
        <5>2. Projected(data, newMax) = IF d.amount <= newMax THEN "ALLOW" ELSE "BLOCK"
          BY <3>1, <3>2, <5>1 DEF Projected, IsDecision
        <5>. QED  BY <4>2, <5>1, <5>2 DEF Fits, Misleading, DecidedAgain, others
      <4>3. CASE d.consensus = "APPROVE" /\ ~d.policy_pass
        <5>1. d.final = "BLOCK" /\ d.final_reason = "override" /\ d.amount \in Int
          BY <3>1, <4>3 DEF IsDecision
        <5>2. Projected(data, newMax)
                = IF d.amount <= newMax /\ Head(d.failed) \in {"max_discount_amount", "hard_block_limit"}
                  THEN "ALLOW" ELSE "BLOCK"
          BY <3>2, <3>4, <4>3, <5>1 DEF Projected
        <5>. QED  BY <3>4, <4>3, <5>2 DEF Fits, Misleading, DecidedAgain, others
      <4>. QED  BY <4>1, <4>2, <4>3
    <3>. QED  BY <3>5 DEF d, data
  <2>. QED  BY <2>1 DEF WhatIfExact
<1>. QED  BY <1>1, DecisionAlways, PTL

-----------------------------------------------------------------------------
(* The edges of the graph and the reviews among them.                      *)

IsList(s) == \E S : s \in Seq(S)

(* A list of edges none of which is a review.                              *)
Unreviewed(s) == IsList(s) /\ \A i \in 1 .. Len(s) : s[i].type # "approved_by"

LEMMA ListJoin ==
  ASSUME NEW s, NEW t, IsList(s), IsList(t)
  PROVE  /\ IsList(s \o t) /\ Len(s) \in Nat /\ Len(t) \in Nat
         /\ Len(s \o t) = Len(s) + Len(t)
         /\ \A i \in 1 .. Len(s) : (s \o t)[i] = s[i]
         /\ \A i \in 1 .. Len(t) : (s \o t)[Len(s) + i] = t[i]
         /\ \A i \in 1 .. Len(s \o t) : i \in 1 .. Len(s) \/ \E j \in 1 .. Len(t) : i = Len(s) + j
<1>1. PICK S : s \in Seq(S)
  BY DEF IsList
<1>2. PICK T : t \in Seq(T)
  BY DEF IsList
<1>3. s \in Seq(S \cup T) /\ t \in Seq(S \cup T)
  BY <1>1, <1>2
<1>4. s \o t \in Seq(S \cup T)
  BY <1>3
<1>5. ASSUME NEW i \in 1 .. Len(s \o t), i \notin 1 .. Len(s)
      PROVE  \E j \in 1 .. Len(t) : i = Len(s) + j
  <2>1. i - Len(s) \in 1 .. Len(t) /\ i = Len(s) + (i - Len(s))
    BY <1>3, <1>5
  <2>. QED  BY <2>1
<1>. QED  BY <1>3, <1>4, <1>5 DEF IsList

(* A list that another one grew from, by edges that are no reviews.        *)
Grows(s, t) ==
  /\ IsList(s) /\ IsList(t) /\ Len(s) \in Nat /\ Len(t) \in Nat /\ Len(s) <= Len(t)
  /\ \A i \in 1 .. Len(s) : t[i] = s[i]
  /\ \A i \in 1 .. Len(t) : i \notin 1 .. Len(s) => t[i].type # "approved_by"

LEMMA GrowsJoin ==
  ASSUME NEW s, NEW u, IsList(s), Unreviewed(u)
  PROVE  Grows(s, s \o u)
<1>1. IsList(u)
  BY DEF Unreviewed
<1>. DEFINE t == s \o u
<1>2. /\ IsList(t) /\ Len(s) \in Nat /\ Len(u) \in Nat
      /\ Len(t) = Len(s) + Len(u)
      /\ \A i \in 1 .. Len(s) : t[i] = s[i]
      /\ \A i \in 1 .. Len(u) : t[Len(s) + i] = u[i]
      /\ \A i \in 1 .. Len(t) : i \in 1 .. Len(s) \/ \E j \in 1 .. Len(u) : i = Len(s) + j
  BY <1>1, ListJoin
<1>. HIDE DEF t
<1>3. Grows(s, t)
  BY <1>2 DEF Grows, Unreviewed
<1>. QED  BY <1>3 DEF t

LEMMA GrowsTwice ==
  ASSUME NEW s, NEW t, NEW u, Grows(s, t), Grows(t, u)
  PROVE  Grows(s, u)
<1>1. ASSUME NEW i \in 1 .. Len(u), i \notin 1 .. Len(s)
      PROVE  u[i].type # "approved_by"
  <2>1. CASE i \in 1 .. Len(t)
    BY <1>1, <2>1 DEF Grows
  <2>2. CASE i \notin 1 .. Len(t)
    BY <2>2 DEF Grows
  <2>. QED  BY <2>1, <2>2
<1>2. \A i \in 1 .. Len(s) : u[i] = s[i]
  BY DEF Grows
<1>. QED  BY <1>1, <1>2 DEF Grows

LEMMA UnreviewedJoin ==
  ASSUME NEW s, NEW t, Unreviewed(s), Unreviewed(t)
  PROVE  Unreviewed(s \o t)
<1>1. IsList(s) /\ IsList(t)
  BY DEF Unreviewed
<1>2. ASSUME NEW i \in 1 .. Len(s \o t)
      PROVE  (s \o t)[i].type # "approved_by"
  BY <1>1, <1>2, ListJoin DEF Unreviewed
<1>. QED  BY <1>1, <1>2, ListJoin DEF Unreviewed

LEMMA UnreviewedOne ==
  ASSUME NEW a, NEW b, NEW type, NEW data, type # "approved_by"
  PROVE  Unreviewed(<<>>) /\ Unreviewed(<<Edge(a, b, type, data)>>)
<1>1. Unreviewed(<<>>)
  <2>1. <<>> \in Seq({})
    OBVIOUS
  <2>. QED  BY <2>1 DEF Unreviewed, IsList
<1>2. Unreviewed(<<Edge(a, b, type, data)>>)
  <2>. DEFINE e == Edge(a, b, type, data)
  <2>1. e.type = type
    BY DEF Edge
  <2>. HIDE DEF e
  <2>. DEFINE s == <<e>>
  <2>2. s \in Seq({e}) /\ Len(s) = 1 /\ s[1] = e
    OBVIOUS
  <2>. HIDE DEF s
  <2>3. Unreviewed(s)
    BY <2>1, <2>2 DEF Unreviewed, IsList
  <2>. QED  BY <2>3 DEF e, s
<1>. QED  BY <1>1, <1>2

LEMMA UnreviewedFunction ==
  ASSUME NEW n \in Nat, NEW s, s = [i \in 1 .. n |-> s[i]], \A i \in 1 .. n : s[i].type # "approved_by"
  PROVE  Unreviewed(s)
<1>1. s \in Seq({s[i] : i \in 1 .. n}) /\ Len(s) = n
  OBVIOUS
<1>. QED  BY <1>1 DEF Unreviewed, IsList

(* The links to earlier decisions are links: the loop over the history     *)
(* adds nothing else.                                                      *)
LEMMA SameActionType ==
  ASSUME NEW g, NEW n, NEW actionType, Len(g.history) \in Nat
  PROVE  SameAction(g, n, actionType)
           \in Seq({Edge(g.history[i], n, "linked_via_same_action", actionType) : i \in 1 .. Len(g.history)})
<1>. DEFINE m == Len(g.history)
            edge(p) == Edge(p, n, "linked_via_same_action", actionType)
            E == {edge(g.history[i]) : i \in 1 .. m}
            turn(i, s) == LET p == g.history[i]
                          IN  IF p # n /\ p[1] = "decision" /\ g.nodes[p].action_type = actionType
                              THEN Append(s, edge(p)) ELSE s
            linked[i \in 0 .. m] == IF i = 0 THEN <<>> ELSE turn(i, linked[i - 1])
            step == [i \in 1 .. m |-> [s \in Seq(E) |-> turn(i, s)]]
<1>1. m \in Nat /\ <<>> \in Seq(E)
  OBVIOUS
<1>2. SameAction(g, n, actionType) = linked[m]
  BY DEF SameAction
<1>3. ASSUME NEW i \in 1 .. m, NEW s \in Seq(E)
      PROVE  turn(i, s) \in Seq(E)
  <2>1. edge(g.history[i]) \in E
    OBVIOUS
  <2>. HIDE DEF edge, E
  <2>. QED  BY <2>1
<1>. HIDE DEF turn, m, E
<1>4. IsLoop(m, Seq(E), <<>>, step)
  BY <1>1, <1>3 DEF IsLoop
<1>5. PICK f : IsRunOf(f, m, Seq(E), <<>>, step)
  <2>. HIDE DEF step
  <2>. QED  BY <1>4, LoopExists
<1>6. f = [i \in 0 .. m |-> IF i = 0 THEN <<>> ELSE turn(i, f[i - 1])]
  <2>1. f = [i \in 0 .. m |-> f[i]] /\ f[0] = <<>>
    BY <1>5 DEF IsRunOf
  <2>2. ASSUME NEW i \in 0 .. m, i # 0
        PROVE  f[i] = turn(i, f[i - 1])
    <3>1. i \in 1 .. m
      BY <1>1, <2>2
    <3>2. f[i - 1] \in Seq(E) /\ f[i] = step[i][f[i - 1]]
      <4>. HIDE DEF step
      <4>. QED  BY <1>1, <1>5, <3>1 DEF IsRunOf
    <3>. QED  BY <3>1, <3>2
  <2>. QED  BY <2>1, <2>2
<1>7. linked = [i \in 0 .. m |-> IF i = 0 THEN <<>> ELSE turn(i, linked[i - 1])]
  BY <1>6, Zenon
<1>. HIDE DEF linked
<1>8. IsKept(Seq(E), linked, m)
  <2>1. linked[0] = <<>>
    BY <1>1, <1>7
  <2>2. ASSUME NEW i \in 1 .. m, linked[i - 1] \in Seq(E)
        PROVE  linked[i] \in Seq(E)
    <3>1. linked[i] = turn(i, linked[i - 1])
      BY <1>1, <1>7
    <3>. QED  BY <1>3, <2>2, <3>1
  <2>. QED  BY <1>1, <2>1, <2>2 DEF IsKept
<1>9. linked[m] \in Seq(E)
  BY <1>1, <1>8, LoopKeeps
<1>. QED  BY <1>2, <1>9 DEF E, m

LEMMA MeshUnreviewed ==
  ASSUME NEW g, NEW r, IsList(g.edges), IsList(g.history), Len(r.votes) \in Nat
  PROVE  /\ IsList(IngestMesh(g, r).history)
         /\ Grows(g.edges, IngestMesh(g, r).edges)
<1>. DEFINE decision == <<"decision", r.action_id>>
            consensus == <<"consensus", r.action_id>>
            policy == <<"policy", r.action_id>>
            outcome == <<"outcome", r.action_id>>
            reasoning(v) == <<"reasoning", r.action_id, v.agent>>
            h == [g EXCEPT !.nodes = WithNodes(g.nodes, MeshNodes(r, Len(g.history) + 1))]
            A == [k \in 1 .. 2 * Len(r.votes) |->
                    LET v == r.votes[(k + 1) \div 2]
                    IN  IF k % 2 = 1 THEN Edge(<<"agent", v.agent>>, reasoning(v), "reasoned_by", "-")
                        ELSE Edge(reasoning(v), decision, "contributed_to", v.decision)]
            B == <<Edge(decision, consensus, "evaluated_by", "-"), Edge(consensus, policy, "evaluated_by", "-")>>
            C == IF Overridden(r) THEN <<Edge(policy, consensus, "overrode", r.reason)>> ELSE <<>>
            D == <<Edge(policy, outcome, "produced", "-"), Edge(decision, outcome, "caused_outcome", "-")>>
            E == [i \in 1 .. Len(r.votes) |-> Edge(outcome, <<"agent", r.votes[i].agent>>, "updated_trust", "-")]
            F == Followed(g.history, decision)
            S == SameAction(h, decision, ActionType(r))
<1>1. MeshEdges(r) = A \o B \o C \o D \o E
  BY DEF MeshEdges
<1>2. IngestMesh(g, r).edges = g.edges \o (A \o B \o C \o D \o E) \o F \o S
  BY <1>1 DEF IngestMesh
<1>3. Unreviewed(A)
  <2>1. \A k \in 1 .. 2 * Len(r.votes) : A[k].type # "approved_by"
    BY DEF Edge
  <2>2. A = [k \in 1 .. 2 * Len(r.votes) |-> A[k]]
    OBVIOUS
  <2>3. 2 * Len(r.votes) \in Nat
    OBVIOUS
  <2>. DEFINE n == 2 * Len(r.votes)
  <2>. HIDE DEF A, n
  <2>4. n \in Nat /\ A = [k \in 1 .. n |-> A[k]] /\ \A k \in 1 .. n : A[k].type # "approved_by"
    BY <2>1, <2>2, <2>3 DEF n
  <2>. QED  BY <2>4, UnreviewedFunction
<1>4. Unreviewed(E)
  <2>1. \A k \in 1 .. Len(r.votes) : E[k].type # "approved_by"
    BY DEF Edge
  <2>2. E = [k \in 1 .. Len(r.votes) |-> E[k]]
    OBVIOUS
  <2>. HIDE DEF E
  <2>. QED  BY <2>1, <2>2, UnreviewedFunction
<1>5. Unreviewed(B)
  <2>1. B = <<Edge(decision, consensus, "evaluated_by", "-")>> \o <<Edge(consensus, policy, "evaluated_by", "-")>>
    OBVIOUS
  <2>. HIDE DEF B, decision, consensus, policy
  <2>. QED  BY <2>1, UnreviewedOne, UnreviewedJoin
<1>6. Unreviewed(D)
  <2>1. D = <<Edge(policy, outcome, "produced", "-")>> \o <<Edge(decision, outcome, "caused_outcome", "-")>>
    OBVIOUS
  <2>. HIDE DEF D, decision, outcome, policy
  <2>. QED  BY <2>1, UnreviewedOne, UnreviewedJoin
<1>7. Unreviewed(C)
  <2>. HIDE DEF consensus, policy
  <2>. QED  BY UnreviewedOne
<1>8. Unreviewed(F)
  <2>. HIDE DEF decision
  <2>. QED  BY UnreviewedOne DEF Followed
<1>9. Unreviewed(S)
  <2>1. h.history = g.history /\ Len(g.history) \in Nat
    BY DEF IsList
  <2>. HIDE DEF h, decision
  <2>2. S \in Seq({Edge(g.history[i], decision, "linked_via_same_action", ActionType(r)) : i \in 1 .. Len(g.history)})
    BY <2>1, SameActionType
  <2>. HIDE DEF S
  <2>3. \A i \in 1 .. Len(S) : S[i].type = "linked_via_same_action"
    BY <2>2 DEF Edge
  <2>. QED  BY <2>2, <2>3 DEF Unreviewed, IsList
<1>10. IsList(IngestMesh(g, r).history)
  <2>1. IngestMesh(g, r).history = Append(g.history, decision)
    BY DEF IngestMesh
  <2>2. PICK H : g.history \in Seq(H)
    BY DEF IsList
  <2>3. Append(g.history, decision) \in Seq(H \cup {decision})
    BY <2>2
  <2>. QED  BY <2>1, <2>3 DEF IsList
<1>. HIDE DEF A, B, C, D, E, F, S
<1>11. Unreviewed(A \o B \o C \o D \o E)
  BY <1>3, <1>4, <1>5, <1>6, <1>7, UnreviewedJoin
<1>12. Grows(g.edges, IngestMesh(g, r).edges)
  <2>. DEFINE e == g.edges
              X == A \o B \o C \o D \o E
              eX == e \o X
              eXF == eX \o F
              eXFS == eXF \o S
  <2>1. IsList(e) /\ Unreviewed(X)
    BY <1>11
  <2>. HIDE DEF e, X
  <2>2. Grows(e, eX)
    BY <2>1, GrowsJoin, Zenon
  <2>. HIDE DEF eX
  <2>3. IsList(eX)
    BY <2>2 DEF Grows
  <2>4. Grows(eX, eXF)
    BY <1>8, <2>3, GrowsJoin, Zenon
  <2>. HIDE DEF eXF
  <2>5. IsList(eXF)
    BY <2>4 DEF Grows
  <2>6. Grows(eXF, eXFS)
    BY <1>9, <2>5, GrowsJoin, Zenon
  <2>. HIDE DEF eXFS
  <2>7. Grows(e, eXFS)
    BY <2>2, <2>4, <2>6, GrowsTwice, Zenon
  <2>. QED  BY <1>2, <2>7, Zenon DEF e, X, eX, eXF, eXFS
<1>. QED  BY <1>10, <1>12

LEMMA AuditUnreviewed ==
  ASSUME NEW g, NEW entry, IsList(g.edges), IsList(g.history)
  PROVE  /\ IsList(IngestAudit(g, entry).history)
         /\ Grows(g.edges, IngestAudit(g, entry).edges)
<1>. DEFINE tx == <<"tx", entry.transaction_id>>
            agent == <<"agent", entry.agent_id>>
            entity == <<"entity", entry.recipient>>
            tier == <<"tier", entry.policy_tier>>
            a == Edge(agent, tx, "initiated", "-")
            b == Edge(tx, entity, "linked_to", "recipient")
            c == Edge(tx, tier, "evaluated_as", "-")
            A == <<a, b, c>>
            F == Followed(g.history, tx)
            e == g.edges
            eA == e \o A
            eAF == eA \o F
<1>1. IngestAudit(g, entry).edges = eAF
  BY DEF IngestAudit
<1>2. Unreviewed(A)
  <2>1. a.type # "approved_by" /\ b.type # "approved_by" /\ c.type # "approved_by"
    BY DEF Edge
  <2>. HIDE DEF a, b, c
  <2>2. A \in Seq({a, b, c}) /\ Len(A) = 3
    OBVIOUS
  <2>3. A[1] = a /\ A[2] = b /\ A[3] = c
    OBVIOUS
  <2>. HIDE DEF A
  <2>. QED  BY <2>1, <2>2, <2>3 DEF Unreviewed, IsList
<1>3. Unreviewed(F)
  <2>. HIDE DEF tx
  <2>. QED  BY UnreviewedOne DEF Followed
<1>4. IsList(IngestAudit(g, entry).history)
  <2>1. IngestAudit(g, entry).history = Append(g.history, tx)
    BY DEF IngestAudit
  <2>2. PICK H : g.history \in Seq(H)
    BY DEF IsList
  <2>3. Append(g.history, tx) \in Seq(H \cup {tx})
    BY <2>2
  <2>. QED  BY <2>1, <2>3 DEF IsList
<1>5. IsList(e)
  OBVIOUS
<1>. HIDE DEF A, F, e
<1>6. Grows(e, eA)
  BY <1>2, <1>5, GrowsJoin, Zenon
<1>. HIDE DEF eA
<1>7. IsList(eA)
  BY <1>6 DEF Grows
<1>8. Grows(eA, eAF)
  BY <1>3, <1>7, GrowsJoin, Zenon
<1>. HIDE DEF eAF
<1>9. Grows(e, eAF)
  BY <1>6, <1>8, GrowsTwice, Zenon
<1>. QED  BY <1>1, <1>4, <1>9, Zenon DEF e

(* The reviews of a transaction in a list of edges.                        *)
ReviewsOf(edges, tx) == {i \in DOMAIN edges : edges[i].type = "approved_by" /\ edges[i].to = <<"tx", tx>>}

(* What the graph says of a transaction, against the log of it.            *)
Known(nodes, edges, log, tx) ==
  /\ nodes[<<"tx", tx>>].status = log[1]
  /\ ReviewsOf(edges, tx) = {} <=> Len(log) = 1
  /\ \A i \in ReviewsOf(edges, tx) : (edges[i].data = "APPROVED") = (Last(log) = "ALLOW")

(* A transaction is in the graph once it is verified, and waits for its    *)
(* review only there and only once.                                        *)
ReviewOf(tx, nodes, edges, logs, waiting) ==
  /\ <<"tx", tx>> \in DOMAIN nodes => logs[tx] # <<>> /\ Known(nodes, edges, logs[tx], tx)
  /\ <<"tx", tx>> \notin DOMAIN nodes => ReviewsOf(edges, tx) = {}
  /\ tx \in waiting => <<"tx", tx>> \in DOMAIN nodes /\ Len(logs[tx]) = 1

ReviewInv ==
  /\ VaultTypeOK
  /\ IsList(graph.edges) /\ IsList(graph.history)
  /\ \A tx \in Transactions : ReviewOf(tx, graph.nodes, graph.edges, audit, pending)

LEMMA SameReviews ==
  ASSUME NEW edges, NEW more, NEW tx, Grows(edges, more)
  PROVE  /\ ReviewsOf(more, tx) = ReviewsOf(edges, tx)
         /\ \A i \in ReviewsOf(edges, tx) : more[i] = edges[i]
<1>1. DOMAIN edges = 1 .. Len(edges) /\ DOMAIN more = 1 .. Len(more)
  BY DEF Grows, IsList
<1>2. ASSUME NEW i \in 1 .. Len(more), more[i].type = "approved_by"
      PROVE  i \in 1 .. Len(edges)
  BY <1>2 DEF Grows
<1>3. \A i \in 1 .. Len(edges) : i \in 1 .. Len(more) /\ more[i] = edges[i]
  BY DEF Grows
<1>. QED  BY <1>1, <1>2, <1>3 DEF ReviewsOf

(* An entry that does not review this transaction, and leaves its node and *)
(* its log, leaves what is known of it.                                    *)
LEMMA UnreviewedKeeps ==
  ASSUME NEW tx, NEW nodes, NEW edges, NEW logs, NEW waiting, ReviewOf(tx, nodes, edges, logs, waiting),
         NEW nodes2, NEW edges2, NEW logs2, NEW waiting2,
         ReviewsOf(edges2, tx) = ReviewsOf(edges, tx),
         \A i \in ReviewsOf(edges, tx) : edges2[i] = edges[i],
         <<"tx", tx>> \in DOMAIN nodes2 <=> <<"tx", tx>> \in DOMAIN nodes,
         <<"tx", tx>> \in DOMAIN nodes => nodes2[<<"tx", tx>>] = nodes[<<"tx", tx>>],
         logs2[tx] = logs[tx], tx \in waiting2 => tx \in waiting
  PROVE  ReviewOf(tx, nodes2, edges2, logs2, waiting2)
<1>1. ASSUME <<"tx", tx>> \in DOMAIN nodes2
      PROVE  logs2[tx] # <<>> /\ Known(nodes2, edges2, logs2[tx], tx)
  <2>1. logs[tx] # <<>> /\ Known(nodes, edges, logs[tx], tx) /\ nodes2[<<"tx", tx>>] = nodes[<<"tx", tx>>]
    BY <1>1, Zenon DEF ReviewOf
  <2>. QED  BY <2>1 DEF Known
<1>. QED  BY <1>1, Zenon DEF ReviewOf

LEMMA PipelineKnows ==
  ASSUME ReviewInv, NEW id, NEW request, IsRequest(request), FullPipeline(id, request),
         UNCHANGED <<pending, audit>>
  PROVE  ReviewInv'
<1>. DEFINE d == Decide(id, request)
            made == MeshNodes(d, Len(graph.history) + 1)
<1>1. graph' = IngestMesh(graph, d) /\ Len(d.votes) \in Nat
  BY DecideIsDecision DEF FullPipeline, IsDecision
<1>. HIDE DEF d
<1>2. IsList(graph'.history) /\ Grows(graph.edges, graph'.edges)
  BY <1>1, MeshUnreviewed DEF ReviewInv
<1>3. graph'.nodes = WithNodes(graph.nodes, made)
  BY <1>1 DEF IngestMesh
<1>4. ASSUME NEW tx \in Transactions
      PROVE  ReviewOf(tx, graph'.nodes, graph'.edges, audit', pending')
  <2>1. \A n \in DOMAIN made : n[1] \in {"decision", "consensus", "policy", "outcome", "agent", "reasoning"}
    BY MeshNodesAt, Zenon
  <2>. HIDE DEF made
  <2>2. <<"tx", tx>> \notin DOMAIN made
    BY <2>1
  <2>3. /\ DOMAIN WithNodes(graph.nodes, made) = DOMAIN graph.nodes \cup DOMAIN made
        /\ \A n \in DOMAIN graph.nodes \ DOMAIN made : WithNodes(graph.nodes, made)[n] = graph.nodes[n]
    BY WithNodesAt, Zenon
  <2>4. /\ <<"tx", tx>> \in DOMAIN graph'.nodes <=> <<"tx", tx>> \in DOMAIN graph.nodes
        /\ <<"tx", tx>> \in DOMAIN graph.nodes => graph'.nodes[<<"tx", tx>>] = graph.nodes[<<"tx", tx>>]
    BY <1>3, <2>2, <2>3
  <2>5. /\ ReviewsOf(graph'.edges, tx) = ReviewsOf(graph.edges, tx)
        /\ \A i \in ReviewsOf(graph.edges, tx) : graph'.edges[i] = graph.edges[i]
    <3>. DEFINE e == graph.edges
                f == graph'.edges
    <3>1. Grows(e, f)
      BY <1>2
    <3>. HIDE DEF e, f
    <3>2. ReviewsOf(f, tx) = ReviewsOf(e, tx) /\ \A i \in ReviewsOf(e, tx) : f[i] = e[i]
      BY <3>1, SameReviews
    <3>. QED  BY <3>2 DEF e, f
  <2>6. ReviewOf(tx, graph.nodes, graph.edges, audit, pending)
    BY DEF ReviewInv
  <2>. QED  BY <2>4, <2>5, <2>6, UnreviewedKeeps, Zenon
<1>. QED  BY <1>2, <1>4 DEF ReviewInv, VaultTypeOK, Grows

(* A transaction enters the graph with the status that is logged of it.    *)
LEMMA VerifyKnows ==
  ASSUME ReviewInv, NEW tx \in Transactions, NEW request, Verify(tx, request)
  PROVE  ReviewInv'
<1>. DEFINE entry == [transaction_id |-> tx, agent_id |-> "assistant", recipient |-> request.recipient,
                      action |-> request.action, amount |-> request.amount, status |-> CheckPolicy(request),
                      policy_tier |-> PolicyTier(CheckPolicy(request))]
            ids == {<<"tx", entry.transaction_id>>, <<"agent", entry.agent_id>>,
                    <<"entity", entry.recipient>>, <<"tier", entry.policy_tier>>}
            made == [n \in ids |->
                       CASE n = <<"tx", entry.transaction_id>> ->
                              [status |-> entry.status, action |-> entry.action,
                               amount |-> entry.amount, time |-> Len(graph.history) + 1]
                         [] n = <<"agent", entry.agent_id>> -> [agent_id |-> entry.agent_id]
                         [] n = <<"entity", entry.recipient>> -> [entity_id |-> entry.recipient]
                         [] n = <<"tier", entry.policy_tier>> -> [tier |-> entry.policy_tier]]
<1>1. graph' = IngestAudit(graph, entry) /\ audit[tx] = <<>> /\ ShadowVerify(tx, request)
  BY DEF Verify
<1>2. IsList(graph'.history) /\ Grows(graph.edges, graph'.edges)
  <2>. HIDE DEF entry
  <2>. QED  BY <1>1, AuditUnreviewed DEF ReviewInv
<1>3. graph'.nodes = WithNodes(graph.nodes, made)
  <2>. HIDE DEF entry
  <2>. QED  BY <1>1 DEF IngestAudit
<1>4. CheckPolicy(request) \in Decisions
  BY DEF CheckPolicy, Decisions
<1>5. VaultTypeOK'
  BY <1>1, <1>4 DEF ReviewInv, VaultTypeOK, ShadowVerify, Log
<1>6. /\ audit'[tx] = <<CheckPolicy(request)>> /\ \A t \in Transactions \ {tx} : audit'[t] = audit[t]
      /\ \A t \in Transactions : t \in pending' => t \in pending \/ t = tx
  BY <1>1 DEF ReviewInv, VaultTypeOK, ShadowVerify, Log
<1>7. /\ DOMAIN made = ids
      /\ made[<<"tx", tx>>].status = CheckPolicy(request)
      /\ "status" \in DOMAIN made[<<"tx", tx>>]
      /\ \A t : <<"tx", t>> \in DOMAIN made => t = tx
      /\ <<"tx", tx>> \in DOMAIN made
  <2>1. entry.transaction_id = tx /\ entry.status = CheckPolicy(request)
    OBVIOUS
  <2>. HIDE DEF entry
  <2>2. DOMAIN made = ids
    OBVIOUS
  <2>3. made[<<"tx", entry.transaction_id>>] = [status |-> entry.status, action |-> entry.action,
                                                amount |-> entry.amount, time |-> Len(graph.history) + 1]
    OBVIOUS
  <2>4. <<"tx", tx>> \in ids /\ \A t : <<"tx", t>> \in ids => t = tx
    BY <2>1
  <2>. HIDE DEF made, ids
  <2>. QED  BY <2>1, <2>2, <2>3, <2>4
<1>. HIDE DEF entry, ids, made
<1>8. ASSUME NEW t \in Transactions
      PROVE  /\ ReviewsOf(graph'.edges, t) = ReviewsOf(graph.edges, t)
             /\ \A i \in ReviewsOf(graph.edges, t) : graph'.edges[i] = graph.edges[i]
             /\ ReviewOf(t, graph.nodes, graph.edges, audit, pending)
  <2>1. ReviewOf(t, graph.nodes, graph.edges, audit, pending)
    BY DEF ReviewInv
  <2>. DEFINE e == graph.edges
              f == graph'.edges
  <2>2. Grows(e, f)
    BY <1>2
  <2>. HIDE DEF e, f
  <2>3. ReviewsOf(f, t) = ReviewsOf(e, t) /\ \A i \in ReviewsOf(e, t) : f[i] = e[i]
    BY <2>2, SameReviews
  <2>. QED  BY <2>1, <2>3 DEF e, f
<1>9. ReviewOf(tx, graph'.nodes, graph'.edges, audit', pending')
  <2>1. ReviewsOf(graph'.edges, tx) = {}
    BY <1>1, <1>8, Zenon DEF ReviewOf
  <2>2. <<"tx", tx>> \in DOMAIN made
    BY <1>7
  <2>. HIDE DEF made
  <2>3. /\ <<"tx", tx>> \in DOMAIN WithNodes(graph.nodes, made)
        /\ WithNodes(graph.nodes, made)[<<"tx", tx>>].status = made[<<"tx", tx>>].status
    <3>1. DOMAIN WithNodes(graph.nodes, made) = DOMAIN graph.nodes \cup DOMAIN made
      BY WithNodesAt, Zenon
    <3>2. ASSUME NEW n \in DOMAIN made, NEW f \in DOMAIN made[n]
          PROVE  WithNodes(graph.nodes, made)[n][f] = made[n][f]
      BY NewFields
    <3>3. WithNodes(graph.nodes, made)[<<"tx", tx>>].status = made[<<"tx", tx>>].status
      BY <1>7, <2>2, <3>2
    <3>. QED  BY <2>2, <3>1, <3>3
  <2>4. graph'.nodes[<<"tx", tx>>].status = CheckPolicy(request)
    BY <1>3, <1>7, <2>3, Zenon
  <2>5. audit'[tx] # <<>> /\ audit'[tx][1] = CheckPolicy(request) /\ Len(audit'[tx]) = 1
    BY <1>6
  <2>. QED  BY <1>3, <2>1, <2>3, <2>4, <2>5, Zenon DEF ReviewOf, Known
<1>10. ASSUME NEW t \in Transactions, t # tx
       PROVE  ReviewOf(t, graph'.nodes, graph'.edges, audit', pending')
  <2>1. <<"tx", t>> \notin DOMAIN made
    BY <1>7, <1>10
  <2>. HIDE DEF made
  <2>2. /\ DOMAIN WithNodes(graph.nodes, made) = DOMAIN graph.nodes \cup DOMAIN made
        /\ \A n \in DOMAIN graph.nodes \ DOMAIN made : WithNodes(graph.nodes, made)[n] = graph.nodes[n]
    BY WithNodesAt, Zenon
  <2>3. /\ <<"tx", t>> \in DOMAIN graph'.nodes <=> <<"tx", t>> \in DOMAIN graph.nodes
        /\ <<"tx", t>> \in DOMAIN graph.nodes => graph'.nodes[<<"tx", t>>] = graph.nodes[<<"tx", t>>]
    BY <1>3, <2>1, <2>2
  <2>4. audit'[t] = audit[t] /\ (t \in pending' => t \in pending)
    BY <1>6, <1>10
  <2>5. /\ ReviewsOf(graph'.edges, t) = ReviewsOf(graph.edges, t)
        /\ \A i \in ReviewsOf(graph.edges, t) : graph'.edges[i] = graph.edges[i]
        /\ ReviewOf(t, graph.nodes, graph.edges, audit, pending)
    BY <1>8
  <2>. QED  BY <2>3, <2>4, <2>5, UnreviewedKeeps, Zenon
<1>11. \A t \in Transactions : ReviewOf(t, graph'.nodes, graph'.edges, audit', pending')
  BY <1>9, <1>10
<1>. QED  BY <1>2, <1>5, <1>11 DEF ReviewInv, Grows

(* A review adds its edge, the only one of the transaction, and its entry  *)
(* in the log, the second.                                                 *)
LEMMA ReviewerKnows ==
  ASSUME ReviewInv, NEW tx \in Transactions, NEW approved \in BOOLEAN, ReviewerDecides(tx, approved)
  PROVE  ReviewInv'
<1>. DEFINE data == IF approved THEN "APPROVED" ELSE "REJECTED"
            decision == IF approved THEN "ALLOW" ELSE "BLOCK"
            review == Edge(<<"human", "reviewer">>, <<"tx", tx>>, "approved_by", data)
            edges == graph.edges
<1>1. /\ tx \in pending /\ pending' = pending \ {tx}
      /\ audit' = [audit EXCEPT ![tx] = Append(@, decision)]
  BY DEF ReviewerDecides, HumanApprove, Log
<1>2. /\ graph'.nodes = WithNodes(graph.nodes, Reviewer)
      /\ graph'.edges = Append(graph.edges, review)
      /\ graph'.history = graph.history
  <2>1. graph' = IngestApproval(graph, tx, approved)
    BY DEF ReviewerDecides
  <2>2. graph'.nodes = WithNodes(graph.nodes, Reviewer)
    BY <2>1 DEF IngestApproval
  <2>3. graph'.edges = Append(graph.edges, review)
    BY <2>1 DEF IngestApproval
  <2>4. graph'.history = graph.history
    BY <2>1 DEF IngestApproval
  <2>. QED  BY <2>2, <2>3, <2>4
<1>3. VaultTypeOK'
  BY <1>1 DEF ReviewInv, VaultTypeOK, Decisions
<1>4. ReviewOf(tx, graph.nodes, graph.edges, audit, pending)
  BY DEF ReviewInv
<1>5. <<"tx", tx>> \in DOMAIN graph.nodes /\ Len(audit[tx]) = 1 /\ Known(graph.nodes, graph.edges, audit[tx], tx)
  BY <1>1, <1>4, Zenon DEF ReviewOf
<1>6. /\ Len(audit'[tx]) = 2 /\ audit'[tx][1] = audit[tx][1] /\ audit'[tx] # <<>> /\ Last(audit'[tx]) = decision
  <2>1. audit[tx] \in Seq(Decisions) /\ audit'[tx] = Append(audit[tx], decision)
    BY <1>1 DEF ReviewInv, VaultTypeOK
  <2>. QED  BY <1>5, <2>1 DEF Last
<1>7. \A t : /\ <<"tx", t>> \in DOMAIN graph'.nodes <=> <<"tx", t>> \in DOMAIN graph.nodes
             /\ <<"tx", t>> \in DOMAIN graph.nodes => graph'.nodes[<<"tx", t>>] = graph.nodes[<<"tx", t>>]
  <2>1. /\ DOMAIN WithNodes(graph.nodes, Reviewer) = DOMAIN graph.nodes \cup DOMAIN Reviewer
        /\ \A n \in DOMAIN graph.nodes \ DOMAIN Reviewer : WithNodes(graph.nodes, Reviewer)[n] = graph.nodes[n]
    BY WithNodesAt, Zenon
  <2>2. \A t : <<"tx", t>> \notin DOMAIN Reviewer
    BY DEF Reviewer
  <2>. QED  BY <1>2, <2>1, <2>2
<1>. DEFINE more == graph'.edges
<1>8. /\ IsList(more) /\ DOMAIN more = 1 .. Len(edges) + 1 /\ DOMAIN edges = 1 .. Len(edges) /\ Len(edges) \in Nat
      /\ \A i \in 1 .. Len(edges) : more[i] = edges[i]
      /\ more[Len(edges) + 1] = review
  <2>1. IsList(edges) /\ more = Append(edges, review)
    BY <1>2 DEF ReviewInv
  <2>. HIDE DEF edges, more, review
  <2>2. PICK S : edges \in Seq(S)
    BY <2>1 DEF IsList
  <2>3. more \in Seq(S \cup {review})
    BY <2>1, <2>2
  <2>. QED  BY <2>1, <2>2, <2>3 DEF IsList
<1>9. review.type = "approved_by" /\ review.to = <<"tx", tx>> /\ review.data = data
  BY DEF Edge
<1>. HIDE DEF edges, more, review
<1>10. ReviewsOf(more, tx) = {Len(edges) + 1}
  <2>1. ReviewsOf(edges, tx) = {}
    BY <1>5, Zenon DEF Known, edges
  <2>. QED  BY <1>8, <1>9, <2>1 DEF ReviewsOf
<1>11. ReviewOf(tx, graph'.nodes, more, audit', pending')
  <2>1. <<"tx", tx>> \in DOMAIN graph'.nodes /\ graph'.nodes[<<"tx", tx>>].status = audit'[tx][1]
    BY <1>5, <1>6, <1>7, Zenon DEF Known
  <2>2. (data = "APPROVED") = (decision = "ALLOW")
    OBVIOUS
  <2>3. \A i \in ReviewsOf(more, tx) : (more[i].data = "APPROVED") = (Last(audit'[tx]) = "ALLOW")
    <3>. HIDE DEF data, decision
    <3>. QED  BY <1>6, <1>8, <1>9, <1>10, <2>2
  <2>4. ReviewsOf(more, tx) # {} /\ Len(audit'[tx]) # 1 /\ tx \notin pending'
    BY <1>1, <1>6, <1>10
  <2>. QED  BY <1>6, <2>1, <2>3, <2>4, Zenon DEF ReviewOf, Known
<1>12. ASSUME NEW t \in Transactions, t # tx
       PROVE  ReviewOf(t, graph'.nodes, more, audit', pending')
  <2>1. ReviewsOf(more, t) = ReviewsOf(edges, t)
    BY <1>8, <1>9, <1>12 DEF ReviewsOf
  <2>2. \A i \in ReviewsOf(edges, t) : more[i] = edges[i]
    BY <1>8 DEF ReviewsOf
  <2>5. /\ <<"tx", t>> \in DOMAIN graph'.nodes <=> <<"tx", t>> \in DOMAIN graph.nodes
        /\ <<"tx", t>> \in DOMAIN graph.nodes => graph'.nodes[<<"tx", t>>] = graph.nodes[<<"tx", t>>]
    BY <1>7, Zenon
  <2>3. audit'[t] = audit[t] /\ (t \in pending' => t \in pending)
    BY <1>1, <1>12 DEF ReviewInv, VaultTypeOK
  <2>4. ReviewOf(t, graph.nodes, edges, audit, pending)
    BY DEF ReviewInv, edges
  <2>. QED  BY <2>1, <2>2, <2>3, <2>4, <2>5, UnreviewedKeeps
<1>13. \A t \in Transactions : ReviewOf(t, graph'.nodes, graph'.edges, audit', pending')
  BY <1>11, <1>12 DEF more
<1>14. IsList(graph'.edges) /\ IsList(graph'.history)
  BY <1>2, <1>8 DEF ReviewInv, more
<1>. QED  BY <1>3, <1>13, <1>14 DEF ReviewInv

LEMMA ReviewNext ==
  ASSUME StreamInv, ReviewInv, [Next]_vars
  PROVE  ReviewInv'
<1>1. ASSUME NEW s \in Streams, HandleEvaluate(s)
      PROVE  ReviewInv'
  <2>1. UNCHANGED <<pending, audit>> /\ IsRequest(asked[s])
    BY <1>1, GivenRequests DEF HandleEvaluate, StreamInv
  <2>2. UNCHANGED graph \/ FullPipeline(s, asked[s])
    BY <1>1 DEF HandleEvaluate
  <2>3. CASE UNCHANGED graph
    BY <2>1, <2>3 DEF ReviewInv, VaultTypeOK
  <2>4. CASE FullPipeline(s, asked[s])
    BY <2>1, <2>4, PipelineKnows
  <2>. QED  BY <2>2, <2>3, <2>4
<1>2. ASSUME NEW request \in Unnamed, EvaluateUnnamed(request)
      PROVE  ReviewInv'
  BY <1>2, GivenRequests, PipelineKnows DEF EvaluateUnnamed
<1>3. ASSUME NEW tx \in Transactions, NEW request \in ToVerify, Verify(tx, request)
      PROVE  ReviewInv'
  BY <1>3, VerifyKnows
<1>4. ASSUME NEW tx \in Transactions, NEW approved \in BOOLEAN, ReviewerDecides(tx, approved)
      PROVE  ReviewInv'
  BY <1>4, ReviewerKnows
<1>5. ASSUME VaultRestarts
      PROVE  ReviewInv'
  <2>1. graph' = EmptyGraph /\ pending' = {} /\ audit' = audit
    BY <1>5 DEF VaultRestarts, MeshRestart, Started
  <2>2. graph'.nodes = [n \in {} |-> {}] /\ graph'.edges = <<>> /\ graph'.history = <<>>
    BY <2>1 DEF EmptyGraph
  <2>3. IsList(<<>>)
    <3>1. <<>> \in Seq({})
      OBVIOUS
    <3>. QED  BY <3>1 DEF IsList
  <2>4. ASSUME NEW tx \in Transactions
        PROVE  ReviewOf(tx, graph'.nodes, graph'.edges, audit', pending')
    <3>1. ReviewsOf(graph'.edges, tx) = {} /\ <<"tx", tx>> \notin DOMAIN graph'.nodes /\ tx \notin pending'
      BY <2>1, <2>2 DEF ReviewsOf
    <3>. QED  BY <3>1 DEF ReviewOf
  <2>. QED  BY <2>1, <2>2, <2>3, <2>4 DEF ReviewInv, VaultTypeOK
<1>6. ASSUME UNCHANGED <<graph, pending, audit>>
      PROVE  ReviewInv'
  BY <1>6 DEF ReviewInv, VaultTypeOK
<1>7. ASSUME NEW t \in Tenants, TenantConfigures(t)
      PROVE  UNCHANGED <<graph, pending, audit>>
  BY <1>7 DEF TenantConfigures, Configure, ResetConfig
<1>8. ASSUME NEW s \in Streams, \/ HandleRecord(s) \/ Stream(s) \/ Disconnect(s)
                                \/ \E request \in Requests : Start(s, request)
      PROVE  UNCHANGED <<graph, pending, audit>>
  BY <1>8 DEF HandleRecord, Stream, TimeOut, Answered, Complete, Disconnect, Start, vault
<1>9. CASE UNCHANGED vars
  BY <1>6, <1>9 DEF vars, vault
<1>. QED  BY <1>1, <1>2, <1>3, <1>4, <1>5, <1>6, <1>7, <1>8, <1>9 DEF Next

LEMMA ReviewInit == Init => ReviewInv
<1>. SUFFICES ASSUME Init
              PROVE  ReviewInv
  OBVIOUS
<1>1. graph.nodes = [n \in {} |-> {}] /\ graph.edges = <<>> /\ graph.history = <<>>
  BY DEF Init, MeshInit, Started, EmptyGraph
<1>2. pending = {} /\ audit = [tx \in Transactions |-> <<>>]
  BY DEF Init, VaultInit
<1>3. IsList(<<>>)
  <2>1. <<>> \in Seq({})
    OBVIOUS
  <2>. QED  BY <2>1 DEF IsList
<1>4. ASSUME NEW tx \in Transactions
      PROVE  ReviewOf(tx, graph.nodes, graph.edges, audit, pending)
  <2>1. ReviewsOf(graph.edges, tx) = {} /\ <<"tx", tx>> \notin DOMAIN graph.nodes /\ tx \notin pending
    BY <1>1, <1>2 DEF ReviewsOf
  <2>. QED  BY <2>1 DEF ReviewOf
<1>. QED  BY <1>1, <1>2, <1>3, <1>4 DEF ReviewInv, VaultTypeOK

(* The graph tells the state of a transaction: whatever decisions it also  *)
(* tells, and whenever PrivateVault restarts, its node has the status that *)
(* was logged first and the edge of its review what was logged last.       *)
THEOREM GraphKnowsReviewsAlways == Spec => []GraphKnowsReviews
<1>1. Init => StreamInv /\ DecisionInv /\ ReviewInv
  BY DecisionInit, ReviewInit
<1>2. (StreamInv /\ DecisionInv /\ ReviewInv) /\ [Next]_vars => (StreamInv /\ DecisionInv /\ ReviewInv)'
  BY DecisionNext, ReviewNext
<1>3. StreamInv /\ DecisionInv /\ ReviewInv => GraphKnowsReviews
  BY DEF ReviewInv, ReviewOf, Known, ReviewsOf, GraphKnowsReviews
<1>. QED  BY <1>1, <1>2, <1>3, PTL DEF Spec

-----------------------------------------------------------------------------
(* Weights and trust.                                                      *)

(* Weights that leave the least trust where it is, and whose penalties     *)
(* are none.                                                               *)
FirmWeights(weights) ==
  \A k \in DOMAIN weights :
    /\ k = "min_trust" => weights[k] = 500
    /\ k \in {"misalignment_penalty", "policy_miss_penalty"} => weights[k] >= 0

LEMMA UpdatedWeights ==
  ASSUME NEW a, NEW b
  PROVE  LET c == Updated(a, b)
         IN  /\ DOMAIN c = DOMAIN a \cup DOMAIN b
             /\ WeightsTyped(a) /\ WeightsTyped(b) => WeightsTyped(c)
             /\ FirmWeights(a) /\ FirmWeights(b) => FirmWeights(c)
<1>. DEFINE c == Updated(a, b)
<1>1. DOMAIN c = DOMAIN a \cup DOMAIN b
  BY DEF Updated
<1>2. \A k \in DOMAIN c : c[k] = IF k \in DOMAIN b THEN b[k] ELSE a[k]
  BY DEF Updated
<1>. HIDE DEF c
<1>3. WeightsTyped(a) /\ WeightsTyped(b) => WeightsTyped(c)
  BY <1>1, <1>2 DEF WeightsTyped
<1>5. FirmWeights(a) /\ FirmWeights(b) => FirmWeights(c)
  BY <1>1, <1>2 DEF FirmWeights
<1>. QED  BY <1>1, <1>3, <1>5 DEF c

Keys ==
  {"quorum_threshold", "approve_weight", "reject_weight", "deadlock_action", "alignment_boost",
   "misalignment_penalty", "policy_miss_penalty", "static_dynamic_blend", "min_trust", "max_trust",
   "auto_approve_limit", "human_review_limit", "max_discount_amount", "max_discount_percent",
   "approve_below_percent", "reject_above_percent", "approve_below_amount", "reject_above_amount",
   "reject_loss_threshold_percent", "require_kyc", "approve_above_margin_percent",
   "reject_below_margin_percent"}

LEMMA DefaultWeights ==
  /\ DOMAIN DEFAULT_WEIGHTS = Keys
  /\ WeightsTyped(DEFAULT_WEIGHTS) /\ FirmWeights(DEFAULT_WEIGHTS)
  /\ CautiousWeights(DEFAULT_WEIGHTS)
<1>1. DOMAIN DEFAULT_WEIGHTS = Keys
  BY DEF DEFAULT_WEIGHTS, Keys
<1>2. WeightsTyped(DEFAULT_WEIGHTS)
  BY DEF DEFAULT_WEIGHTS, WeightsTyped
<1>3. CautiousWeights(DEFAULT_WEIGHTS)
  BY DEF DEFAULT_WEIGHTS, CautiousWeights
<1>4. FirmWeights(DEFAULT_WEIGHTS)
  BY DEF DEFAULT_WEIGHTS, FirmWeights
<1>. QED  BY <1>1, <1>2, <1>3, <1>4

LEMMA NoWeights == DOMAIN NoOverride = {} /\ WeightsTyped(NoOverride) /\ FirmWeights(NoOverride)
  BY DEF NoOverride, WeightsTyped, FirmWeights

(* The weights of tenants are those of the patches.                        *)
WeightsInv ==
  /\ DOMAIN overrides = Tenants
  /\ \A t \in Tenants :
       /\ WeightsTyped(overrides[t])
       /\ (\A p \in Patches : FirmWeights(p)) => FirmWeights(overrides[t])

LEMMA GivenWeights ==
  ASSUME WeightsInv, NEW tenant, NEW override, WeightsTyped(override)
  PROVE  LET w == GetWeights(tenant, override)
         IN  /\ Keys \subseteq DOMAIN w
             /\ WeightsTyped(w)
             /\ (\A p \in Patches : FirmWeights(p)) /\ FirmWeights(override) => FirmWeights(w)
<1>. DEFINE own == IF tenant \in Tenants THEN overrides[tenant] ELSE NoOverride
            v == Updated(DEFAULT_WEIGHTS, own)
            w == Updated(v, override)
            firm == \A p \in Patches : FirmWeights(p)
<1>1. GetWeights(tenant, override) = w
  BY DEF GetWeights
<1>2. WeightsTyped(own) /\ (firm => FirmWeights(own))
  BY NoWeights DEF WeightsInv
<1>. HIDE DEF own, firm
<1>3. /\ DOMAIN v = DOMAIN DEFAULT_WEIGHTS \cup DOMAIN own
      /\ WeightsTyped(DEFAULT_WEIGHTS) /\ WeightsTyped(own) => WeightsTyped(v)
      /\ FirmWeights(DEFAULT_WEIGHTS) /\ FirmWeights(own) => FirmWeights(v)
  BY UpdatedWeights
<1>4. /\ DOMAIN w = DOMAIN v \cup DOMAIN override
      /\ WeightsTyped(v) /\ WeightsTyped(override) => WeightsTyped(w)
      /\ FirmWeights(v) /\ FirmWeights(override) => FirmWeights(w)
  <2>. HIDE DEF v
  <2>. QED  BY UpdatedWeights
<1>. HIDE DEF v, w
<1>5. /\ Keys \subseteq DOMAIN w
      /\ WeightsTyped(w)
      /\ firm /\ FirmWeights(override) => FirmWeights(w)
  BY <1>2, <1>3, <1>4, DefaultWeights
<1>. QED  BY <1>1, <1>5 DEF firm

LEMMA WeightsNext == WeightsInv /\ [Next]_vars => WeightsInv'
<1>. SUFFICES ASSUME WeightsInv, [Next]_vars
              PROVE  WeightsInv'
  OBVIOUS
<1>1. ASSUME NEW t \in Tenants, NEW patch \in Patches, Configure(t, patch)
      PROVE  WeightsInv'
  <2>. DEFINE old == overrides[t]
              new == Updated(old, patch)
  <2>1. overrides' = [overrides EXCEPT ![t] = new]
    BY <1>1 DEF Configure
  <2>. HIDE DEF old
  <2>2. /\ WeightsTyped(old) /\ WeightsTyped(patch) => WeightsTyped(new)
        /\ FirmWeights(old) /\ FirmWeights(patch) => FirmWeights(new)
    BY UpdatedWeights
  <2>3. WeightsTyped(patch)
    BY MeshAssumption
  <2>. HIDE DEF new
  <2>. QED  BY <2>1, <2>2, <2>3 DEF WeightsInv, old
<1>2. ASSUME NEW t \in Tenants, ResetConfig(t)
      PROVE  WeightsInv'
  BY <1>2, NoWeights DEF ResetConfig, WeightsInv
<1>3. ASSUME VaultRestarts
      PROVE  WeightsInv'
  BY <1>3, NoWeights DEF VaultRestarts, MeshRestart, Started, WeightsInv
<1>4. ASSUME UNCHANGED overrides
      PROVE  WeightsInv'
  BY <1>4 DEF WeightsInv
<1>5. ASSUME NEW s \in Streams, \/ HandleEvaluate(s) \/ HandleRecord(s) \/ Stream(s) \/ Disconnect(s)
                                \/ \E request \in Requests : Start(s, request)
      PROVE  UNCHANGED overrides
  BY <1>5 DEF HandleEvaluate, FullPipeline, HandleRecord, Stream, TimeOut, Answered, Complete,
              Disconnect, Start, vault
<1>6. ASSUME NEW request \in Unnamed, EvaluateUnnamed(request)
      PROVE  UNCHANGED overrides
  BY <1>6 DEF EvaluateUnnamed, FullPipeline
<1>7. ASSUME NEW tx \in Transactions, \/ \E request \in ToVerify : Verify(tx, request)
                                      \/ \E approved \in BOOLEAN : ReviewerDecides(tx, approved)
      PROVE  UNCHANGED overrides
  BY <1>7 DEF Verify, ReviewerDecides
<1>8. CASE UNCHANGED vars
  BY <1>4, <1>8 DEF vars, vault
<1>. QED  BY <1>1, <1>2, <1>3, <1>4, <1>5, <1>6, <1>7, <1>8 DEF Next, TenantConfigures

-----------------------------------------------------------------------------
(* Scores.                                                                 *)

LEMMA ClampBetween ==
  ASSUME NEW score \in Int, NEW w, w.min_trust \in Int, w.max_trust \in Int
  PROVE  /\ Clamp(score, w) \in Int /\ Clamp(score, w) >= w.min_trust
         /\ Clamp(score, w) <= w.max_trust \/ Clamp(score, w) <= w.min_trust
         /\ Clamp(score, w) <= score \/ Clamp(score, w) <= w.min_trust
<1>. DEFINE least == w.min_trust
            most == w.max_trust
            capped == Min({most, score})
<1>0. least \in Int /\ most \in Int /\ Clamp(score, w) = Max({least, capped})
  BY DEF Clamp
<1>. HIDE DEF least, most
<1>1. capped = IF most <= score THEN most ELSE score
  BY <1>0, MinOfTwo
<1>. HIDE DEF capped
<1>2. capped \in Int
  BY <1>0, <1>1
<1>3. Max({least, capped}) = IF least >= capped THEN least ELSE capped
  BY <1>0, <1>2, MaxOfTwo
<1>4. /\ Clamp(score, w) \in Int /\ Clamp(score, w) >= least
      /\ Clamp(score, w) <= most \/ Clamp(score, w) <= least
      /\ Clamp(score, w) <= score \/ Clamp(score, w) <= least
  BY <1>0, <1>1, <1>2, <1>3
<1>. QED  BY <1>4 DEF least, most

LEMMA CombinedBetween ==
  ASSUME NEW agent \in Agents, trust \in [Agents -> Int], NEW w, Keys \subseteq DOMAIN w,
         WeightsTyped(w)
  PROVE  /\ CombinedScore(agent, w) \in Int
         /\ CautiousWeights(w) => CombinedScore(agent, w) <= 10000
<1>. DEFINE blend == w.static_dynamic_blend
            static == StaticTrust(agent)
            dynamic == trust[agent]
            mixed == (blend * static + (10 - blend) * dynamic) \div 10
<1>1. blend \in Int /\ w.min_trust \in Int /\ w.max_trust \in Int
  BY DEF WeightsTyped, Keys
<1>2. static \in Int /\ dynamic \in Int
  <2>1. static \in Int
    BY DEF StaticTrust
  <2>. QED  BY <2>1
<1>3. CautiousWeights(w) => w.min_trust <= 10000 /\ w.max_trust <= 10000
  BY DEF CautiousWeights
<1>4. CombinedScore(agent, w) = Clamp(mixed, w)
  BY DEF CombinedScore
<1>5. mixed \in Int
  <2>. HIDE DEF blend, static, dynamic
  <2>1. blend * static \in Int /\ (10 - blend) * dynamic \in Int
    BY <1>1, <1>2
  <2>. DEFINE sum == blend * static + (10 - blend) * dynamic
  <2>2. sum \in Int
    BY <2>1
  <2>. HIDE DEF sum
  <2>3. sum \div 10 \in Int
    BY <2>2
  <2>. QED  BY <2>3 DEF sum
<1>. HIDE DEF mixed
<1>. QED  BY <1>1, <1>3, <1>4, <1>5, ClampBetween

(* The values of the sum that Score divides.                               *)
IsSum(sum, votes, decision, multiplier, w) ==
  /\ DOMAIN sum = 0 .. Len(votes)
  /\ sum[0] = 0
  /\ \A i \in 1 .. Len(votes) :
       /\ sum[i - 1] \in Int /\ sum[i] \in Int
       /\ sum[i] = IF votes[i].decision = decision
                   THEN sum[i - 1] + CombinedScore(votes[i].agent, w) * multiplier
                   ELSE sum[i - 1]

AreVotes(votes) ==
  /\ Len(votes) \in Nat
  /\ \A i \in 1 .. Len(votes) : votes[i].agent \in Agents

LEMMA ScoreIsSum ==
  ASSUME NEW votes, NEW decision, NEW multiplier \in Int, NEW w, AreVotes(votes),
         trust \in [Agents -> Int], Keys \subseteq DOMAIN w, WeightsTyped(w)
  PROVE  \E sum : IsSum(sum, votes, decision, multiplier, w)
                  /\ Score(votes, decision, multiplier, w) = sum[Len(votes)] \div 10
<1>. DEFINE m == Len(votes)
            turn(i, s) == IF votes[i].decision = decision
                          THEN s + CombinedScore(votes[i].agent, w) * multiplier ELSE s
            sum[i \in 0 .. m] == IF i = 0 THEN 0 ELSE turn(i, sum[i - 1])
            step == [i \in 1 .. m |-> [s \in Int |-> turn(i, s)]]
<1>1. m \in Nat
  BY DEF AreVotes
<1>2. Score(votes, decision, multiplier, w) = sum[m] \div 10
  BY DEF Score
<1>3. ASSUME NEW i \in 1 .. m, NEW s \in Int
      PROVE  turn(i, s) \in Int
  <2>1. CombinedScore(votes[i].agent, w) \in Int
    BY CombinedBetween DEF AreVotes
  <2>. QED  BY <2>1
<1>. HIDE DEF turn, m
<1>4. IsLoop(m, Int, 0, step)
  BY <1>1, <1>3 DEF IsLoop
<1>5. PICK f : IsRunOf(f, m, Int, 0, step)
  <2>. HIDE DEF step
  <2>. QED  BY <1>4, LoopExists
<1>6. f = [i \in 0 .. m |-> IF i = 0 THEN 0 ELSE turn(i, f[i - 1])]
  <2>1. f = [i \in 0 .. m |-> f[i]] /\ f[0] = 0
    BY <1>5 DEF IsRunOf
  <2>2. ASSUME NEW i \in 0 .. m, i # 0
        PROVE  f[i] = turn(i, f[i - 1])
    <3>1. i \in 1 .. m
      BY <1>1, <2>2
    <3>2. f[i - 1] \in Int /\ f[i] = step[i][f[i - 1]]
      <4>. HIDE DEF step
      <4>. QED  BY <1>1, <1>5, <3>1 DEF IsRunOf
    <3>. QED  BY <3>1, <3>2
  <2>. QED  BY <2>1, <2>2
<1>7. sum = [i \in 0 .. m |-> IF i = 0 THEN 0 ELSE turn(i, sum[i - 1])]
  BY <1>6, Zenon
<1>. HIDE DEF sum
<1>8. IsKept(Int, sum, m)
  <2>1. sum[0] = 0
    BY <1>1, <1>7
  <2>2. ASSUME NEW i \in 1 .. m, sum[i - 1] \in Int
        PROVE  sum[i] \in Int
    <3>1. sum[i] = turn(i, sum[i - 1])
      BY <1>1, <1>7
    <3>. QED  BY <1>3, <2>2, <3>1
  <2>. QED  BY <1>1, <2>1, <2>2 DEF IsKept
<1>9. \A i \in 0 .. m : sum[i] \in Int
  BY <1>8, LoopKeeps
<1>10. DOMAIN sum = 0 .. m /\ sum[0] = 0 /\ \A i \in 1 .. m : sum[i] = turn(i, sum[i - 1])
  BY <1>1, <1>7
<1>11. \A i \in 1 .. m : i \in 0 .. m /\ i - 1 \in 0 .. m
  BY <1>1
<1>12. IsSum(sum, votes, decision, multiplier, w)
  BY <1>9, <1>10, <1>11 DEF IsSum, turn, m
<1>. QED  BY <1>2, <1>12 DEF m

(* One vote alone counts 1 at most.                                        *)
LEMMA SoleVote ==
  ASSUME NEW votes, NEW multiplier \in 0 .. 10, NEW w, AreVotes(votes),
         trust \in [Agents -> Int], Keys \subseteq DOMAIN w, WeightsTyped(w), CautiousWeights(w),
         \A i, j \in 1 .. Len(votes) :
           votes[i].decision = "APPROVE" /\ votes[j].decision = "APPROVE" => i = j
  PROVE  Score(votes, "APPROVE", multiplier, w) <= 10000
<1>. DEFINE m == Len(votes)
<1>1. PICK sum : /\ IsSum(sum, votes, "APPROVE", multiplier, w)
                 /\ Score(votes, "APPROVE", multiplier, w) = sum[m] \div 10
  BY ScoreIsSum
<1>2. m \in Nat
  BY DEF AreVotes
<1>. HIDE DEF m
<1>. DEFINE voted(i) == \E j \in 1 .. i : votes[j].decision = "APPROVE"
            T == {i \in 0 .. m : sum[i] \in Int /\ sum[i] <= 100000 /\ (~voted(i) => sum[i] <= 0)}
<1>3. 0 \in T
  BY <1>1, <1>2 DEF IsSum, m
<1>4. ASSUME NEW i \in 0 .. m - 1, i \in T
      PROVE  i + 1 \in T
  <2>. DEFINE k == i + 1
  <2>1. k \in 1 .. m /\ k - 1 = i
    BY <1>2
  <2>2. /\ sum[k] = IF votes[k].decision = "APPROVE"
                    THEN sum[i] + CombinedScore(votes[k].agent, w) * multiplier ELSE sum[i]
        /\ sum[k] \in Int /\ sum[i] \in Int
    BY <1>1, <2>1 DEF IsSum, m
  <2>3. CASE votes[k].decision # "APPROVE"
    <3>1. sum[k] = sum[i] /\ (voted(i) => voted(k))
      BY <2>2, <2>3
    <3>. QED  BY <1>2, <1>4, <2>1, <2>2, <3>1
  <2>4. CASE votes[k].decision = "APPROVE"
    <3>1. ~voted(i)
      BY <1>2, <2>1, <2>4 DEF m
    <3>2. voted(k)
      BY <2>1, <2>4
    <3>. DEFINE c == CombinedScore(votes[k].agent, w)
    <3>3. c \in Int /\ c <= 10000
      BY <2>1, CombinedBetween DEF AreVotes, m
    <3>4. sum[k] = sum[i] + c * multiplier
      BY <2>2, <2>4
    <3>. HIDE DEF c
    <3>5. c * multiplier \in Int /\ c * multiplier <= 100000
      <4>1. multiplier \in {0, 1, 2, 3, 4, 5, 6, 7, 8, 9, 10}
        OBVIOUS
      <4>. QED  BY <3>3, <4>1
    <3>6. sum[i] \in Int /\ sum[i] <= 0
      BY <1>4, <3>1
    <3>. DEFINE p == c * multiplier
    <3>. HIDE DEF p, voted
    <3>7. sum[k] <= 100000
      <4>1. p \in Int /\ p <= 100000 /\ sum[k] = sum[i] + p
        BY <3>4, <3>5 DEF p
      <4>. QED  BY <3>6, <4>1
    <3>8. k \in 0 .. m /\ sum[k] \in Int
      BY <1>2, <2>1, <2>2
    <3>. QED  BY <3>2, <3>7, <3>8
  <2>. QED  BY <2>3, <2>4
<1>. HIDE DEF T
<1>5. m \in T
  <2>1. 0 .. m \subseteq T
    BY <1>2, <1>3, <1>4, UpToInduct
  <2>. QED  BY <1>2, <2>1
<1>6. sum[m] \in Int /\ sum[m] <= 100000
  BY <1>5 DEF T
<1>. QED  BY <1>1, <1>6

(* Two votes are behind a decision, or its threshold is low.               *)
Backed(d) ==
  d.final = "ALLOW" =>
    \/ d.threshold < DEFAULT_WEIGHTS.quorum_threshold
    \/ \E i, j \in {i \in 1 .. Len(d.votes) : d.votes[i].decision = "APPROVE"} : i # j

LEMMA DecideBacked ==
  ASSUME WeightsInv, trust \in [Agents -> Int], NEW id, NEW request, IsRequest(request),
         CautiousWeights(GetWeights(request.tenant, NoOverride))
  PROVE  Backed(Decide(id, request))
<1>. DEFINE d == Decide(id, request)
            w == GetWeights(request.tenant, request.override)
            own == GetWeights(request.tenant, NoOverride)
<1>. SUFFICES ASSUME ~Backed(d)
              PROVE  FALSE
  OBVIOUS
<1>1. /\ d.final = "ALLOW" /\ ~(d.threshold < 15000)
      /\ \A i, j \in 1 .. Len(d.votes) :
           d.votes[i].decision = "APPROVE" /\ d.votes[j].decision = "APPROVE" => i = j
  <2>. DEFINE approving == {i \in 1 .. Len(d.votes) : d.votes[i].decision = "APPROVE"}
  <2>. HIDE DEF d
  <2>1. DEFAULT_WEIGHTS.quorum_threshold = 15000
    BY DEF DEFAULT_WEIGHTS
  <2>2. ~(d.final = "ALLOW" => \/ d.threshold < DEFAULT_WEIGHTS.quorum_threshold
                              \/ \E i, j \in approving : i # j)
    BY DEF Backed
  <2>. HIDE DEF approving
  <2>3. d.final = "ALLOW" /\ ~(d.threshold < 15000) /\ \A i, j \in approving : i = j
    BY <2>1, <2>2
  <2>. QED  BY <2>3 DEF approving
<1>2. /\ d.threshold = w.quorum_threshold
      /\ d.final = "ALLOW" => d.consensus = "APPROVE"
      /\ d.consensus = IF d.approve >= w.quorum_threshold THEN "APPROVE"
                       ELSE IF d.reject >= w.quorum_threshold THEN "REJECT"
                       ELSE own.deadlock_action
      /\ d.approve = Score(d.votes, "APPROVE", own.approve_weight, own)
      /\ d.votes = [i \in 1 .. Len(request.agents) |->
                      [agent |-> request.agents[i], decision |-> Vote(request.agents[i], request)]]
  BY DEF Decide
<1>. HIDE DEF d
<1>3. AreVotes(d.votes)
  BY <1>2 DEF IsRequest, AreVotes
<1>4. Keys \subseteq DOMAIN own /\ WeightsTyped(own) /\ CautiousWeights(own)
  BY GivenWeights, NoWeights
<1>5. w.quorum_threshold \in Int
  <2>1. Keys \subseteq DOMAIN w /\ WeightsTyped(w)
    BY GivenWeights DEF IsRequest
  <2>. HIDE DEF w
  <2>. QED  BY <2>1 DEF WeightsTyped, Keys
<1>. HIDE DEF w, own
<1>6. own.approve_weight \in 0 .. 10 /\ own.deadlock_action # "APPROVE"
  BY <1>4 DEF CautiousWeights
<1>7. d.approve \in Int /\ d.approve <= 10000
  <2>. DEFINE votes == d.votes
  <2>1. AreVotes(votes) /\ \A i, j \in 1 .. Len(votes) :
                              votes[i].decision = "APPROVE" /\ votes[j].decision = "APPROVE" => i = j
    BY <1>1, <1>3
  <2>. HIDE DEF votes
  <2>2. Score(votes, "APPROVE", own.approve_weight, own) <= 10000
    BY <1>4, <1>6, <2>1, SoleVote
  <2>3. PICK sum : /\ IsSum(sum, votes, "APPROVE", own.approve_weight, own)
                   /\ Score(votes, "APPROVE", own.approve_weight, own) = sum[Len(votes)] \div 10
    BY <1>4, <1>6, <2>1, ScoreIsSum
  <2>4. sum[Len(votes)] \in Int
    BY <2>1, <2>3 DEF IsSum, AreVotes
  <2>. QED  BY <1>2, <2>2, <2>3, <2>4 DEF votes
<1>. QED  BY <1>1, <1>2, <1>5, <1>6, <1>7

(* The trust before and after each vote.                                   *)
IsTrust(scores, votes, final, pass, w) ==
  /\ scores[0] = trust
  /\ \A i \in 0 .. Len(votes) : scores[i] \in [Agents -> Int]
  /\ \A i \in 1 .. Len(votes) :
       scores[i] = [scores[i - 1] EXCEPT ![votes[i].agent] =
                      Clamp(@ + Adjustment(votes[i].decision, final, pass, w), w)]

LEMMA TrustAfterIs ==
  ASSUME NEW votes, NEW final, NEW pass, NEW w, AreVotes(votes), trust \in [Agents -> Int],
         Keys \subseteq DOMAIN w, WeightsTyped(w)
  PROVE  \E scores : /\ IsTrust(scores, votes, final, pass, w)
                     /\ TrustAfter(votes, final, pass, w) = scores[Len(votes)]
<1>. DEFINE m == Len(votes)
            S == [Agents -> Int]
            turn(i, s) == [s EXCEPT ![votes[i].agent] =
                             Clamp(@ + Adjustment(votes[i].decision, final, pass, w), w)]
            scores[i \in 0 .. m] == IF i = 0 THEN trust ELSE turn(i, scores[i - 1])
            step == [i \in 1 .. m |-> [s \in S |-> turn(i, s)]]
<1>1. m \in Nat /\ trust \in S
  BY DEF AreVotes
<1>2. TrustAfter(votes, final, pass, w) = scores[m]
  BY DEF TrustAfter
<1>3. ASSUME NEW i \in 1 .. m, NEW s \in S
      PROVE  turn(i, s) \in S
  <2>. DEFINE a == votes[i].agent
              change == Adjustment(votes[i].decision, final, pass, w)
  <2>1. a \in Agents /\ s[a] \in Int
    BY DEF AreVotes
  <2>2. change \in Int
    <3>1. w.alignment_boost \in Int /\ w.misalignment_penalty \in Int /\ w.policy_miss_penalty \in Int
      BY DEF WeightsTyped, Keys
    <3>. QED  BY <3>1 DEF Adjustment
  <2>. HIDE DEF change
  <2>3. w.min_trust \in Int /\ w.max_trust \in Int
    BY DEF WeightsTyped, Keys
  <2>4. Clamp(s[a] + change, w) \in Int
    BY <2>1, <2>2, <2>3, ClampBetween
  <2>5. turn(i, s) = [s EXCEPT ![a] = Clamp(s[a] + change, w)]
    BY DEF change
  <2>. DEFINE new == Clamp(s[a] + change, w)
  <2>. HIDE DEF new, a, turn
  <2>6. turn(i, s) = [s EXCEPT ![a] = new] /\ new \in Int
    BY <2>4, <2>5 DEF new
  <2>. QED  BY <2>1, <2>6
<1>. HIDE DEF turn, m, S
<1>4. IsLoop(m, S, trust, step)
  BY <1>1, <1>3 DEF IsLoop
<1>5. PICK f : IsRunOf(f, m, S, trust, step)
  <2>. HIDE DEF step
  <2>. QED  BY <1>4, LoopExists
<1>6. f = [i \in 0 .. m |-> IF i = 0 THEN trust ELSE turn(i, f[i - 1])]
  <2>1. f = [i \in 0 .. m |-> f[i]] /\ f[0] = trust
    BY <1>5 DEF IsRunOf
  <2>2. ASSUME NEW i \in 0 .. m, i # 0
        PROVE  f[i] = turn(i, f[i - 1])
    <3>1. i \in 1 .. m
      BY <1>1, <2>2
    <3>2. f[i - 1] \in S /\ f[i] = step[i][f[i - 1]]
      <4>. HIDE DEF step
      <4>. QED  BY <1>1, <1>5, <3>1 DEF IsRunOf
    <3>. QED  BY <3>1, <3>2
  <2>. QED  BY <2>1, <2>2
<1>7. scores = [i \in 0 .. m |-> IF i = 0 THEN trust ELSE turn(i, scores[i - 1])]
  BY <1>6, Zenon
<1>. HIDE DEF scores
<1>8. scores[0] = trust /\ \A i \in 1 .. m : scores[i] = turn(i, scores[i - 1])
  BY <1>1, <1>7
<1>9. IsKept(S, scores, m)
  BY <1>1, <1>3, <1>8 DEF IsKept
<1>10. \A i \in 0 .. m : scores[i] \in S
  BY <1>9, LoopKeeps
<1>11. IsTrust(scores, votes, final, pass, w)
  BY <1>8, <1>10 DEF IsTrust, turn, m, S
<1>. QED  BY <1>2, <1>11 DEF m

(* A vote on what policy refuses earns nothing.                            *)
LEMMA NothingEarned ==
  ASSUME NEW votes, NEW final, NEW w, AreVotes(votes), trust \in [Agents -> Int],
         Keys \subseteq DOMAIN w, WeightsTyped(w), FirmWeights(w), \A a \in Agents : trust[a] >= 500
  PROVE  \A a \in Agents : TrustAfter(votes, final, FALSE, w)[a] <= trust[a]
<1>. DEFINE m == Len(votes)
<1>. PICK scores : /\ IsTrust(scores, votes, final, FALSE, w)
                   /\ TrustAfter(votes, final, FALSE, w) = scores[m]
  BY TrustAfterIs
<1>1. /\ TrustAfter(votes, final, FALSE, w) = scores[m]
      /\ scores[0] = trust
      /\ \A i \in 0 .. m : scores[i] \in [Agents -> Int]
      /\ \A i \in 1 .. m :
           scores[i] = [scores[i - 1] EXCEPT ![votes[i].agent] =
                          Clamp(@ + Adjustment(votes[i].decision, final, FALSE, w), w)]
  BY DEF IsTrust
<1>2. m \in Nat /\ \A i \in 1 .. m : votes[i].agent \in Agents
  BY DEF AreVotes
<1>3. w.min_trust = 500 /\ w.max_trust \in Int
  BY DEF FirmWeights, WeightsTyped, Keys
<1>. HIDE DEF m
<1>. DEFINE T == {i \in 0 .. m : \A a \in Agents : 500 <= scores[i][a] /\ scores[i][a] <= trust[a]}
<1>4. 0 \in T
  BY <1>1, <1>2
<1>5. ASSUME NEW i \in 0 .. m - 1, i \in T
      PROVE  i + 1 \in T
  <2>. DEFINE k == i + 1
              b == votes[k].agent
              change == Adjustment(votes[k].decision, final, FALSE, w)
              old == scores[i]
              new == Clamp(old[b] + change, w)
  <2>1. k \in 1 .. m /\ k \in 0 .. m /\ k - 1 = i
    BY <1>2
  <2>2. b \in Agents /\ old \in [Agents -> Int] /\ scores[k] = [old EXCEPT ![b] = new]
    <3>1. scores[k] = [scores[i] EXCEPT ![b] = Clamp(@ + change, w)]
      BY <1>1, <2>1
    <3>2. b \in Agents /\ old \in [Agents -> Int]
      BY <1>1, <1>2, <2>1
    <3>. HIDE DEF change, b
    <3>. QED  BY <3>1, <3>2
  <2>3. change \in Int /\ change <= 0
    <3>1. /\ w.misalignment_penalty \in Int /\ w.misalignment_penalty >= 0
          /\ w.policy_miss_penalty \in Int /\ w.policy_miss_penalty >= 0
      BY DEF FirmWeights, WeightsTyped, Keys
    <3>. QED  BY <3>1 DEF Adjustment
  <2>. HIDE DEF change
  <2>4. 500 <= old[b] /\ old[b] <= trust[b] /\ old[b] \in Int
    BY <1>5, <2>2
  <2>5. new \in Int /\ 500 <= new /\ new <= old[b]
    <3>. DEFINE sum == old[b] + change
    <3>1. sum \in Int /\ sum <= old[b]
      BY <2>3, <2>4
    <3>. HIDE DEF sum
    <3>2. /\ Clamp(sum, w) \in Int /\ Clamp(sum, w) >= w.min_trust
          /\ Clamp(sum, w) <= sum \/ Clamp(sum, w) <= w.min_trust
      BY <1>3, <3>1, ClampBetween
    <3>. QED  BY <1>3, <2>4, <3>1, <3>2 DEF sum
  <2>. HIDE DEF new, b, old
  <2>6. ASSUME NEW a \in Agents
        PROVE  500 <= scores[k][a] /\ scores[k][a] <= trust[a]
    <3>1. 500 <= old[a] /\ old[a] <= trust[a]
      BY <1>5 DEF old
    <3>2. trust[b] \in Int
      BY <2>2
    <3>. QED  BY <2>2, <2>4, <2>5, <3>1, <3>2
  <2>. QED  BY <2>1, <2>6
<1>. HIDE DEF T
<1>6. m \in T
  <2>1. 0 .. m \subseteq T
    BY <1>2, <1>4, <1>5, UpToInduct
  <2>. QED  BY <1>2, <2>1
<1>. QED  BY <1>1, <1>6 DEF T

(* Under firm weights nobody's trust is below the least.                   *)
TrustInv ==
  /\ trust \in [Agents -> Int]
  /\ (\A p \in Patches : FirmWeights(p)) => \A a \in Agents : trust[a] >= 500

LEMMA TrustStays ==
  ASSUME TrustInv, NEW votes, NEW final, NEW pass, NEW w, AreVotes(votes),
         Keys \subseteq DOMAIN w, WeightsTyped(w), (\A p \in Patches : FirmWeights(p)) => FirmWeights(w),
         trust' = TrustAfter(votes, final, pass, w)
  PROVE  TrustInv'
<1>. DEFINE m == Len(votes)
            firm == \A p \in Patches : FirmWeights(p)
<1>0. trust \in [Agents -> Int]
  BY DEF TrustInv
<1>. PICK scores : /\ IsTrust(scores, votes, final, pass, w)
                   /\ TrustAfter(votes, final, pass, w) = scores[m]
  BY <1>0, TrustAfterIs
<1>1. /\ TrustAfter(votes, final, pass, w) = scores[m]
      /\ scores[0] = trust
      /\ \A i \in 0 .. m : scores[i] \in [Agents -> Int]
      /\ \A i \in 1 .. m :
           scores[i] = [scores[i - 1] EXCEPT ![votes[i].agent] =
                          Clamp(@ + Adjustment(votes[i].decision, final, pass, w), w)]
  BY DEF IsTrust
<1>2. m \in Nat /\ \A i \in 1 .. m : votes[i].agent \in Agents
  BY DEF AreVotes
<1>. HIDE DEF m
<1>3. trust' \in [Agents -> Int]
  BY <1>1, <1>2
<1>4. ASSUME firm
      PROVE  \A a \in Agents : trust'[a] >= 500
  <2>. DEFINE T == {i \in 0 .. m : \A a \in Agents : scores[i][a] >= 500}
  <2>1. w.min_trust = 500 /\ w.max_trust \in Int
    BY <1>4 DEF FirmWeights, WeightsTyped, Keys
  <2>2. 0 \in T
    BY <1>1, <1>2, <1>4 DEF TrustInv
  <2>3. ASSUME NEW i \in 0 .. m - 1, i \in T
        PROVE  i + 1 \in T
    <3>. DEFINE k == i + 1
                b == votes[k].agent
                change == Adjustment(votes[k].decision, final, pass, w)
                old == scores[i]
                new == Clamp(old[b] + change, w)
    <3>1. k \in 1 .. m /\ k \in 0 .. m /\ k - 1 = i
      BY <1>2
    <3>2. b \in Agents /\ old \in [Agents -> Int] /\ scores[k] = [old EXCEPT ![b] = new]
      <4>1. scores[k] = [scores[i] EXCEPT ![b] = Clamp(@ + change, w)]
        BY <1>1, <3>1
      <4>2. b \in Agents /\ old \in [Agents -> Int]
        BY <1>1, <1>2, <3>1
      <4>. HIDE DEF change, b
      <4>. QED  BY <4>1, <4>2
    <3>3. change \in Int
      <4>1. w.alignment_boost \in Int /\ w.misalignment_penalty \in Int /\ w.policy_miss_penalty \in Int
        BY DEF WeightsTyped, Keys
      <4>. QED  BY <4>1 DEF Adjustment
    <3>. HIDE DEF change
    <3>4. new >= 500 /\ new \in Int
      <4>1. old[b] + change \in Int
        BY <3>2, <3>3
      <4>. QED  BY <2>1, <4>1, ClampBetween
    <3>. HIDE DEF new, b, old
    <3>5. ASSUME NEW a \in Agents
          PROVE  scores[k][a] >= 500
      <4>1. old[a] >= 500
        BY <2>3 DEF old
      <4>. QED  BY <3>2, <3>4, <4>1
    <3>. QED  BY <3>1, <3>5
  <2>. HIDE DEF T
  <2>4. 0 .. m \subseteq T
    BY <1>2, <2>2, <2>3, UpToInduct
  <2>5. m \in T
    BY <1>2, <2>4
  <2>. QED  BY <1>1, <2>5 DEF T
<1>. QED  BY <1>3, <1>4 DEF TrustInv

LEMMA TrustStarts ==
  ASSUME NEW scores, scores = [a \in Agents |-> StaticTrust(a)]
  PROVE  scores \in [Agents -> Int] /\ \A a \in Agents : scores[a] >= 500
<1>1. ASSUME NEW a
      PROVE  StaticTrust(a) \in Int /\ StaticTrust(a) >= 500
  BY DEF StaticTrust
<1>. QED  BY <1>1

(* What a decision does to trust, and what the steps that decide nothing   *)
(* do.                                                                     *)
LEMMA PipelineTrusts ==
  ASSUME WeightsInv, TrustInv, NEW id, NEW request, IsRequest(request), FullPipeline(id, request)
  PROVE  /\ TrustInv'
         /\ (\A p \in Patches : FirmWeights(p)) /\ ~Decide(id, request).policy_pass
              => \A a \in Agents : trust'[a] <= trust[a]
<1>. DEFINE d == Decide(id, request)
            own == GetWeights(request.tenant, NoOverride)
<1>1. trust' = TrustAfter(d.votes, d.final, d.policy_pass, own)
  BY DEF FullPipeline
<1>2. AreVotes(d.votes) /\ d.policy_pass \in BOOLEAN
  <2>1. d.votes = [i \in 1 .. Len(request.agents) |->
                     [agent |-> request.agents[i], decision |-> Vote(request.agents[i], request)]]
    BY DEF Decide
  <2>2. IsDecision(d)
    BY DecideIsDecision
  <2>. HIDE DEF d
  <2>. QED  BY <2>1, <2>2 DEF AreVotes, IsRequest, IsDecision
<1>3. /\ Keys \subseteq DOMAIN own /\ WeightsTyped(own)
      /\ (\A p \in Patches : FirmWeights(p)) => FirmWeights(own)
  BY GivenWeights, NoWeights
<1>. HIDE DEF own, d
<1>. DEFINE votes == d.votes
            final == d.final
            pass == d.policy_pass
<1>4. AreVotes(votes) /\ pass \in BOOLEAN /\ trust' = TrustAfter(votes, final, pass, own)
  BY <1>1, <1>2
<1>. HIDE DEF votes, final, pass
<1>5. TrustInv'
  BY <1>3, <1>4, TrustStays
<1>6. ASSUME \A p \in Patches : FirmWeights(p), ~pass
      PROVE  \A a \in Agents : trust'[a] <= trust[a]
  <2>1. trust' = TrustAfter(votes, final, FALSE, own)
    BY <1>4, <1>6
  <2>2. trust \in [Agents -> Int] /\ \A a \in Agents : trust[a] >= 500
    BY <1>6 DEF TrustInv
  <2>3. \A a \in Agents : TrustAfter(votes, final, FALSE, own)[a] <= trust[a]
    BY <1>3, <1>4, <1>6, <2>2, NothingEarned
  <2>. QED  BY <2>1, <2>3
<1>. QED  BY <1>5, <1>6 DEF pass, d

LEMMA OthersTrust ==
  ASSUME UNCHANGED <<trust, decided>>, TrustInv
  PROVE  TrustInv'
  BY DEF TrustInv

(* Every step decides a request, or resets, or leaves trust and decisions. *)
LEMMA StepDecides ==
  ASSUME StreamInv, [Next]_vars
  PROVE  \/ \E id \in ActionIds : \E request : IsRequest(request) /\ FullPipeline(id, request)
         \/ MeshRestart
         \/ UNCHANGED <<trust, decided>>
<1>1. ASSUME NEW s \in Streams, HandleEvaluate(s)
      PROVE  \/ s \in ActionIds /\ IsRequest(asked[s]) /\ FullPipeline(s, asked[s])
             \/ UNCHANGED <<trust, decided>>
  <2>1. s \in ActionIds /\ IsRequest(asked[s])
    BY <1>1, GivenRequests DEF HandleEvaluate, StreamInv, ActionIds
  <2>. QED  BY <1>1, <2>1 DEF HandleEvaluate
<1>2. ASSUME NEW request \in Unnamed, EvaluateUnnamed(request)
      PROVE  NoId \in ActionIds /\ IsRequest(request) /\ FullPipeline(NoId, request)
  BY <1>2, GivenRequests DEF EvaluateUnnamed, ActionIds
<1>3. ASSUME NEW t \in Tenants, TenantConfigures(t)
      PROVE  UNCHANGED <<trust, decided>>
  BY <1>3 DEF TenantConfigures, Configure, ResetConfig
<1>4. ASSUME NEW tx \in Transactions, \/ \E request \in ToVerify : Verify(tx, request)
                                      \/ \E approved \in BOOLEAN : ReviewerDecides(tx, approved)
      PROVE  UNCHANGED <<trust, decided>>
  BY <1>4 DEF Verify, ReviewerDecides
<1>5. ASSUME NEW s \in Streams, \/ HandleRecord(s) \/ Stream(s) \/ Disconnect(s)
                                \/ \E request \in Requests : Start(s, request)
      PROVE  UNCHANGED <<trust, decided>>
  BY <1>5 DEF HandleRecord, Stream, TimeOut, Answered, Complete, Disconnect, Start, vault
<1>6. VaultRestarts => MeshRestart
  BY DEF VaultRestarts
<1>7. CASE UNCHANGED vars
  BY <1>7 DEF vars, vault
<1>. QED  BY <1>1, <1>2, <1>3, <1>4, <1>5, <1>6, <1>7 DEF Next

LEMMA TrustNext ==
  ASSUME StreamInv, WeightsInv, TrustInv, [Next]_vars
  PROVE  TrustInv'
<1>1. ASSUME NEW id \in ActionIds, NEW request, IsRequest(request), FullPipeline(id, request)
      PROVE  TrustInv'
  BY <1>1, PipelineTrusts
<1>2. ASSUME MeshRestart
      PROVE  TrustInv'
  <2>1. trust' = [a \in Agents |-> StaticTrust(a)]
    BY <1>2 DEF MeshRestart, Started
  <2>. QED  BY <2>1, TrustStarts DEF TrustInv
<1>3. ASSUME UNCHANGED <<trust, decided>>
      PROVE  TrustInv'
  BY <1>3 DEF TrustInv
<1>. QED  BY <1>1, <1>2, <1>3, StepDecides

LEMMA TrustInit == Init => WeightsInv /\ TrustInv
<1>. SUFFICES ASSUME Init
              PROVE  WeightsInv /\ TrustInv
  OBVIOUS
<1>1. trust = [a \in Agents |-> StaticTrust(a)] /\ overrides = [t \in Tenants |-> NoOverride]
  BY DEF Init, MeshInit, Started
<1>2. WeightsInv
  BY <1>1, NoWeights DEF WeightsInv
<1>3. TrustInv
  BY <1>1, TrustStarts DEF TrustInv
<1>. QED  BY <1>2, <1>3

LEMMA TrustAlways == Spec => [](StreamInv /\ DecisionInv /\ WeightsInv /\ TrustInv)
<1>1. Init => StreamInv /\ DecisionInv /\ WeightsInv /\ TrustInv
  BY DecisionInit, TrustInit
<1>2. (StreamInv /\ DecisionInv /\ WeightsInv /\ TrustInv) /\ [Next]_vars
        => (StreamInv /\ DecisionInv /\ WeightsInv /\ TrustInv)'
  BY DecisionNext, WeightsNext, TrustNext
<1>. QED  BY <1>1, <1>2, PTL DEF Spec

(* The weights of who is no tenant are the defaults.                       *)
LEMMA DefaultOf ==
  ASSUME NEW tenant, tenant \notin Tenants
  PROVE  CautiousWeights(GetWeights(tenant, NoOverride))
<1>. DEFINE w == GetWeights(tenant, NoOverride)
<1>1. w = Updated(Updated(DEFAULT_WEIGHTS, NoOverride), NoOverride)
  BY DEF GetWeights
<1>2. DOMAIN NoOverride = {}
  BY NoWeights
<1>3. \A k \in DOMAIN DEFAULT_WEIGHTS : w[k] = DEFAULT_WEIGHTS[k]
  BY <1>1, <1>2 DEF Updated
<1>. HIDE DEF w
<1>4. /\ w.approve_weight = DEFAULT_WEIGHTS.approve_weight
      /\ w.min_trust = DEFAULT_WEIGHTS.min_trust /\ w.max_trust = DEFAULT_WEIGHTS.max_trust
      /\ w.deadlock_action = DEFAULT_WEIGHTS.deadlock_action
  BY <1>3, DefaultWeights DEF Keys
<1>. QED  BY <1>4, DefaultWeights DEF CautiousWeights, w

(* For any agents, requests and weights: what is let through under the     *)
(* default threshold or a higher one has two votes behind it, unless some  *)
(* tenant's weights at the time let one vote do.                           *)
THEOREM TwoVotesBehindAllowAlways == Spec => TwoVotesBehindAllow
<1>. DEFINE Inv == StreamInv /\ DecisionInv /\ WeightsInv /\ TrustInv
            Covered(d) == \/ d.threshold < DEFAULT_WEIGHTS.quorum_threshold
                          \/ \E i, j \in {i \in 1 .. Len(d.votes) : d.votes[i].decision = "APPROVE"} : i # j
                          \/ \E t \in Tenants : ~CautiousWeights(GetWeights(t, NoOverride))
            Step == \A id \in ActionIds :
                      decided'[id] # decided[id] /\ decided'[id].final = "ALLOW" => Covered(decided'[id])
<1>1. ASSUME Inv, [Next]_vars
      PROVE  Step
  <2>1. ASSUME NEW id \in ActionIds, NEW request, IsRequest(request), FullPipeline(id, request)
        PROVE  Step
    <3>. DEFINE d == Decide(id, request)
    <3>1. decided' = [decided EXCEPT ![id] = d]
      BY <2>1 DEF FullPipeline
    <3>2. d.final = "ALLOW" => Covered(d)
      <4>1. CASE \E t \in Tenants : ~CautiousWeights(GetWeights(t, NoOverride))
        BY <4>1
      <4>2. CASE \A t \in Tenants : CautiousWeights(GetWeights(t, NoOverride))
        <5>1. CautiousWeights(GetWeights(request.tenant, NoOverride))
          BY <4>2, DefaultOf
        <5>2. trust \in [Agents -> Int]
          BY <1>1 DEF TrustInv
        <5>3. Backed(d)
          BY <1>1, <2>1, <5>1, <5>2, DecideBacked
        <5>. HIDE DEF d
        <5>. QED  BY <5>3 DEF Backed
      <4>. QED  BY <4>1, <4>2
    <3>. HIDE DEF d, Covered
    <3>3. \A i \in ActionIds : decided'[i] = IF i = id THEN d ELSE decided[i]
      BY <1>1, <3>1 DEF DecisionInv
    <3>. QED  BY <3>2, <3>3
  <2>2. ASSUME MeshRestart
        PROVE  Step
    <3>1. \A id \in ActionIds : decided'[id].final = "-"
      BY <2>2 DEF MeshRestart, Started, Undecided
    <3>. QED  BY <3>1
  <2>3. ASSUME UNCHANGED <<trust, decided>>
        PROVE  Step
    BY <2>3
  <2>. HIDE DEF Step
  <2>. QED  BY <1>1, <2>1, <2>2, <2>3, StepDecides
<1>2. Inv /\ [Next]_vars => [Step]_vars
  BY <1>1
<1>3. [Step]_vars => [\A id \in ActionIds :
        LET d == decided'[id]
            approving == {i \in 1 .. Len(d.votes) : d.votes[i].decision = "APPROVE"}
        IN  d # decided[id] /\ d.final = "ALLOW" =>
              \/ d.threshold < DEFAULT_WEIGHTS.quorum_threshold
              \/ \E i, j \in approving : i # j
              \/ \E t \in Tenants : ~CautiousWeights(GetWeights(t, NoOverride)) ]_vars
  OBVIOUS
<1>. HIDE DEF Step
<1>4. Spec => [][Step]_vars
  BY <1>2, TrustAlways, PTL DEF Spec
<1>. QED  BY <1>3, <1>4, PTL DEF TwoVotesBehindAllow

(* A decision that policy refuses raises nobody's trust, whatever the      *)
(* votes, as long as no tenant moves the least trust or turns a penalty    *)
(* into a reward.  (A tenant with a higher least trust than the others'    *)
(* lifts an agent to it even when it refuses.)                             *)
THEOREM NoTrustFromRefusalAlways ==
  ASSUME \A p \in Patches : FirmWeights(p)
  PROVE  Spec => NoTrustFromRefusal
<1>. DEFINE Inv == StreamInv /\ DecisionInv /\ WeightsInv /\ TrustInv
            Kept == \A id \in ActionIds :
                      decided'[id] # decided[id] /\ decided'[id] # Undecided /\ ~decided'[id].policy_pass
                        => \A a \in Agents : trust'[a] <= trust[a]
<1>1. ASSUME Inv, [Next]_vars
      PROVE  Kept
  <2>1. ASSUME NEW id \in ActionIds, NEW request, IsRequest(request), FullPipeline(id, request)
        PROVE  Kept
    <3>1. decided' = [decided EXCEPT ![id] = Decide(id, request)]
      BY <2>1 DEF FullPipeline
    <3>2. ~Decide(id, request).policy_pass => \A a \in Agents : trust'[a] <= trust[a]
      BY <1>1, <2>1, PipelineTrusts
    <3>. DEFINE d == Decide(id, request)
    <3>. HIDE DEF d
    <3>3. \A i \in ActionIds : decided'[i] # decided[i] => decided'[i] = d
      BY <1>1, <3>1 DEF DecisionInv, d
    <3>4. ~d.policy_pass => \A a \in Agents : trust'[a] <= trust[a]
      BY <3>2 DEF d
    <3>. QED  BY <3>3, <3>4
  <2>2. ASSUME MeshRestart
        PROVE  Kept
    <3>1. \A id \in ActionIds : decided'[id] = Undecided
      BY <2>2 DEF MeshRestart, Started
    <3>. QED  BY <3>1
  <2>3. ASSUME UNCHANGED <<trust, decided>>
        PROVE  Kept
    BY <2>3
  <2>. QED  BY <1>1, <2>1, <2>2, <2>3, StepDecides
<1>2. Inv /\ [Next]_vars => [Kept]_vars
  BY <1>1
<1>. HIDE DEF Inv, Kept
<1>3. Spec => []Inv
  BY TrustAlways DEF Inv
<1>4. Spec => [][Kept]_vars
  BY <1>2, <1>3, PTL DEF Spec
<1>. QED  BY <1>4 DEF NoTrustFromRefusal, Kept

-----------------------------------------------------------------------------
(* The registry of BotBook.                                                *)

(* In the steps below FullScore is the number it stands for only where     *)
(* that matters: the provers would spell out the interval.                 *)
IsScore(n) == n \in Int /\ 0 <= n /\ n <= FullScore

LEMMA FullScoreType == FullScore \in Nat /\ FullScore > 0
  BY DEF FullScore

LEMMA WithinBounds ==
  ASSUME NEW n \in Int
  PROVE  IsScore(Within(0, n, FullScore))
<1>. DEFINE capped == Min({FullScore, n})
<1>1. capped = IF FullScore <= n THEN FullScore ELSE n
  BY FullScoreType, MinOfTwo
<1>2. Within(0, n, FullScore) = Max({0, capped})
  BY DEF Within
<1>. HIDE DEF capped
<1>3. capped \in Int /\ capped <= FullScore
  BY <1>1, FullScoreType
<1>. DEFINE kept == Max({0, capped})
<1>4. kept = IF 0 >= capped THEN 0 ELSE capped
  BY <1>3, MaxOfTwo
<1>. HIDE DEF kept
<1>5. IsScore(kept)
  BY <1>3, <1>4, FullScoreType DEF IsScore
<1>. QED  BY <1>2, <1>5 DEF kept

(* Scores are within their bounds whatever the record.                     *)
LEMMA TrustBounds ==
  ASSUME NEW t, IsRecord(t)
  PROVE  IsScore(ComputeTrust(t))
<1>2. CASE t.completed = 0
  BY <1>2, FullScoreType DEF ComputeTrust, IsScore
<1>3. CASE t.completed # 0
  <2>. DEFINE all == t.completed + t.failed
              share == Rounded(4000 * t.completed, all)
              rated == 80 * Max({t.rating, 0})
              lost == Min({1000 * t.violations, 5000})
  <2>1. all \in Nat /\ all > 0
    BY <1>3 DEF IsRecord
  <2>2. share \in Int
    <3>. DEFINE over == 2 * (4000 * t.completed) + all
                under == 2 * all
    <3>1. over \in Int /\ under \in Nat /\ under > 0
      BY <2>1 DEF IsRecord
    <3>2. share = over \div under
      BY DEF Rounded
    <3>. HIDE DEF over, under, share
    <3>. QED  BY <3>1, <3>2
  <2>3. rated \in Int
    <3>1. Max({t.rating, 0}) = IF t.rating >= 0 THEN t.rating ELSE 0
      BY MaxOfTwo DEF IsRecord
    <3>. QED  BY <3>1 DEF IsRecord
  <2>4. lost \in Int
    <3>. DEFINE n == 1000 * t.violations
    <3>1. n \in Int
      BY DEF IsRecord
    <3>. HIDE DEF n
    <3>2. Min({n, 5000}) = IF n <= 5000 THEN n ELSE 5000
      BY <3>1, MinOfTwo
    <3>. QED  BY <3>1, <3>2 DEF n
  <2>5. ComputeTrust(t) = Within(0, share + rated - lost, FullScore)
    BY <1>3 DEF ComputeTrust
  <2>. HIDE DEF share, rated, lost
  <2>. DEFINE n == share + rated - lost
  <2>6. n \in Int
    BY <2>2, <2>3, <2>4
  <2>7. ComputeTrust(t) = Within(0, n, FullScore)
    BY <2>5
  <2>. HIDE DEF n
  <2>8. IsScore(Within(0, n, FullScore))
    BY <2>6, WithinBounds
  <2>. QED  BY <2>7, <2>8
<1>. QED  BY <1>2, <1>3

(* What the badge says of a score and a record.                            *)
Earned(badge, score, t) ==
  /\ badge = "certified" => score >= 9000 /\ t.completed >= 500 /\ t.violations = 0
  /\ badge = "trusted" => score >= 8000 /\ t.completed >= 100 /\ t.violations = 0

(* An agent of the registry: what BadgeBacked says of it.                  *)
AgentOK(a) ==
  /\ {"score", "badge"} \subseteq DOMAIN a
  /\ IsRecord(a)
  /\ IsScore(a.score)
  /\ Earned(a.badge, a.score, a)

LEMMA BadgeOK ==
  ASSUME NEW t, IsRecord(t), NEW score
  PROVE  Earned(ComputeBadge(t, score), score, t)
  BY DEF ComputeBadge, IsRecord, Earned

LEMMA EnrichOK ==
  ASSUME NEW agent, IsRecord(agent)
  PROVE  AgentOK(Enrich(agent))
<1>. DEFINE score == ComputeTrust(agent)
            badge == ComputeBadge(agent, score)
            e == Enrich(agent)
<1>1. /\ DOMAIN e = DOMAIN agent \cup {"score", "badge"}
      /\ e["score"] = score /\ e["badge"] = badge
      /\ \A f \in DOMAIN agent \ {"score", "badge"} : e[f] = agent[f]
  BY DEF Enrich
<1>2. IsScore(score)
  BY TrustBounds
<1>. HIDE DEF score
<1>3. Earned(badge, score, agent)
  BY BadgeOK
<1>. HIDE DEF badge, e
<1>4. /\ e.completed = agent.completed /\ e.failed = agent.failed
      /\ e.violations = agent.violations /\ e.rating = agent.rating
      /\ {"completed", "failed", "violations", "rating", "score", "badge"} \subseteq DOMAIN e
      /\ e.score = score /\ e.badge = badge
  BY <1>1 DEF IsRecord
<1>a. Skilled(e)
  <2>1. "capabilities" \in DOMAIN agent /\ Skilled(agent)
    BY DEF IsRecord, Skilled
  <2>2. "capabilities" \in DOMAIN e /\ e.capabilities = agent.capabilities
    BY <1>1, <2>1
  <2>. QED  BY <2>1, <2>2 DEF Skilled
<1>5. IsRecord(e)
  BY <1>4, <1>a DEF IsRecord
<1>6. AgentOK(e)
  BY <1>2, <1>3, <1>4, <1>5 DEF AgentOK, Earned
<1>. QED  BY <1>6 DEF e

LEMMA RecordedOK ==
  ASSUME NEW agent, AgentOK(agent), NEW success \in BOOLEAN, NEW rating \in Int
  PROVE  AgentOK(Recorded(agent, success, rating))
<1>. DEFINE now == [agent EXCEPT !.completed = IF success THEN @ + 1 ELSE @,
                                 !.failed = IF success THEN @ ELSE @ + 1,
                                 !.rating = rating]
            score == ComputeTrust(now)
            badge == ComputeBadge(now, score)
            r == [now EXCEPT !.score = score, !.badge = badge]
<1>1. Recorded(agent, success, rating) = r
  BY DEF Recorded
<1>a. now.capabilities = agent.capabilities /\ DOMAIN now = DOMAIN agent
  OBVIOUS
<1>b. Skilled(now)
  BY <1>a DEF AgentOK, IsRecord, Skilled
<1>2. IsRecord(now) /\ {"score", "badge"} \subseteq DOMAIN now
  BY <1>b DEF AgentOK, IsRecord
<1>. HIDE DEF now
<1>3. IsScore(score)
  BY <1>2, TrustBounds
<1>. HIDE DEF score
<1>4. Earned(badge, score, now)
  BY <1>2, BadgeOK
<1>. HIDE DEF badge
<1>5. /\ DOMAIN r = DOMAIN now
      /\ r.score = score /\ r.badge = badge
      /\ r.completed = now.completed /\ r.failed = now.failed
      /\ r.violations = now.violations /\ r.rating = now.rating
      /\ r.capabilities = now.capabilities
  BY <1>2
<1>. HIDE DEF r
<1>c. Skilled(r)
  BY <1>2, <1>5 DEF IsRecord, Skilled
<1>6. AgentOK(r)
  BY <1>2, <1>3, <1>4, <1>5, <1>c DEF AgentOK, IsRecord, Earned
<1>. QED  BY <1>1, <1>6 DEF r

LEMMA CompletedOK ==
  ASSUME NEW agent, AgentOK(agent)
  PROVE  AgentOK(Completed(agent))
<1>. DEFINE score == agent.score
            n == score + 20
            raised == Min({FullScore, n})
            new == [agent EXCEPT !.score = raised, !.completed = @ + 1]
<1>1. Completed(agent) = new
  BY DEF Completed
<1>2. IsScore(score)
  BY DEF AgentOK
<1>3. IsRecord(agent) /\ {"score", "badge"} \subseteq DOMAIN agent /\ Earned(agent.badge, score, agent)
  BY DEF AgentOK
<1>4. /\ DOMAIN new = DOMAIN agent
      /\ new.score = raised /\ new.badge = agent.badge
      /\ new.completed = agent.completed + 1 /\ new.failed = agent.failed
      /\ new.violations = agent.violations /\ new.rating = agent.rating
      /\ new.capabilities = agent.capabilities
  BY <1>3 DEF IsRecord
<1>a. Skilled(new)
  BY <1>3, <1>4 DEF IsRecord, Skilled
<1>. HIDE DEF score, new
<1>5. n \in Int /\ n > score /\ n > 0
  BY <1>2 DEF IsScore
<1>. HIDE DEF n
<1>6. raised = IF FullScore <= n THEN FullScore ELSE n
  BY <1>5, FullScoreType, MinOfTwo
<1>. HIDE DEF raised
<1>7. IsScore(raised) /\ raised >= score
  BY <1>2, <1>5, <1>6, FullScoreType DEF IsScore
<1>8. AgentOK(new)
  BY <1>2, <1>3, <1>4, <1>7, <1>a DEF AgentOK, IsRecord, Earned, IsScore
<1>. QED  BY <1>1, <1>8

MarketInv ==
  /\ DOMAIN agents_store = 1 .. Len(agents_store) /\ Len(agents_store) \in Nat
  /\ IsList(agents_store)
  /\ \A i \in 1 .. Len(agents_store) : AgentOK(agents_store[i])

LEMMA LoadedOK ==
  /\ IsList(Loaded) /\ DOMAIN Loaded = 1 .. Len(Loaded) /\ Len(Loaded) \in Nat
  /\ \A i \in 1 .. Len(Loaded) : AgentOK(Loaded[i])
<1>1. \A i \in 1 .. Len(Mock) : AgentOK(Loaded[i])
  BY EnrichOK, MarketAssumption DEF Loaded
<1>2. DOMAIN Loaded = 1 .. Len(Mock) /\ Len(Mock) \in Nat /\ Loaded = [i \in 1 .. Len(Mock) |-> Loaded[i]]
  BY MarketAssumption DEF Loaded
<1>3. Loaded \in Seq({Loaded[i] : i \in 1 .. Len(Mock)}) /\ Len(Loaded) = Len(Mock)
  BY <1>2
<1>. QED  BY <1>1, <1>2, <1>3 DEF IsList

(* Replacing one agent of the list.                                        *)
LEMMA OneReplaced ==
  ASSUME MarketInv, NEW i, NEW a, i \in 1 .. Len(agents_store) => AgentOK(a),
         agents_store' = [agents_store EXCEPT ![i] = a]
  PROVE  MarketInv'
<1>1. PICK S : agents_store \in Seq(S)
  BY DEF MarketInv, IsList
<1>. DEFINE T == S \cup {a}
            n == Len(agents_store)
<1>2. /\ n \in Nat
      /\ agents_store \in [1 .. n -> S]
  BY <1>1
<1>3. agents_store' \in [1 .. n -> T]
  BY <1>2
<1>4. agents_store' \in Seq(T) /\ Len(agents_store') = n
  BY <1>2, <1>3
<1>5. \A j \in 1 .. n : AgentOK(agents_store'[j])
  BY <1>2 DEF MarketInv
<1>6. IsList(agents_store')
  BY <1>4 DEF IsList
<1>7. DOMAIN agents_store' = 1 .. n
  BY <1>3
<1>. QED  BY <1>2, <1>4, <1>5, <1>6, <1>7 DEF MarketInv

LEMMA MarketStep == MarketInv /\ [MarketNext]_market => MarketInv'
<1>. SUFFICES ASSUME MarketInv, [MarketNext]_market
              PROVE  MarketInv'
  OBVIOUS
<1>1. ASSUME NEW applicant \in Applicants, RegisterAgent(applicant)
      PROVE  MarketInv'
  <2>. DEFINE a == Enrich(Untried(applicant))
  <2>a. Skilled(Untried(applicant))
    BY MarketAssumption DEF Untried, Skilled
  <2>1. IsRecord(Untried(applicant))
    BY <2>a DEF Untried, IsRecord
  <2>2. AgentOK(a)
    BY <2>1, EnrichOK
  <2>3. agents_store' = Append(agents_store, a)
    BY <1>1 DEF RegisterAgent
  <2>. HIDE DEF a
  <2>4. PICK S : agents_store \in Seq(S)
    BY DEF MarketInv, IsList
  <2>5. agents_store' \in Seq(S \cup {a}) /\ Len(agents_store') = Len(agents_store) + 1
    BY <2>3, <2>4
  <2>6. \A i \in 1 .. Len(agents_store') : AgentOK(agents_store'[i])
    BY <2>2, <2>3, <2>4, <2>5 DEF MarketInv
  <2>. QED  BY <2>5, <2>6 DEF MarketInv, IsList
<1>2. ASSUME NEW i \in 1 .. Len(agents_store), NEW success \in BOOLEAN, NEW rating \in Ratings,
             RecordTask(i, success, rating)
      PROVE  MarketInv'
  <2>1. AgentOK(Recorded(agents_store[i], success, rating))
    BY RecordedOK, MarketAssumption DEF MarketInv
  <2>2. agents_store' = [agents_store EXCEPT ![i] = Recorded(agents_store[i], success, rating)]
    BY <1>2 DEF RecordTask, MarketInv
  <2>. QED  BY <2>1, <2>2, OneReplaced
<1>3. ASSUME NEW r \in LiveRuns, CompleteRun(r)
      PROVE  MarketInv'
  <2>. DEFINE i == agent_of[r]
              old == agents_store[i]
              new == Completed(old)
  <2>1. i \in 1 .. Len(agents_store) => AgentOK(old)
    BY DEF MarketInv
  <2>2. agents_store' = [agents_store EXCEPT ![i] = new]
    BY <1>3 DEF CompleteRun
  <2>. HIDE DEF i, old
  <2>3. i \in 1 .. Len(agents_store) => AgentOK(new)
    BY <2>1, CompletedOK
  <2>. HIDE DEF new
  <2>. QED  BY <2>2, <2>3, OneReplaced
<1>4. ASSUME NEW r \in LiveRuns, SelectAgent(r) \/ NoneSelected(r) \/ StopRun(r)
      PROVE  MarketInv'
  BY <1>4 DEF SelectAgent, NoneSelected, StopRun, MarketInv
<1>5. ASSUME MarketRestarts
      PROVE  MarketInv'
  BY <1>5, LoadedOK DEF MarketRestarts, MarketInv
<1>6. CASE UNCHANGED market
  BY <1>6 DEF market, MarketInv
<1>. QED  BY <1>1, <1>2, <1>3, <1>4, <1>5, <1>6 DEF MarketNext

(* A badge never promises more than the record behind it, for any agents,  *)
(* runs and ratings: the score is what the badge was computed from, or it  *)
(* went up since.                                                          *)
THEOREM BadgeBackedAlways == MarketSpec => []BadgeBacked
<1>1. MarketInit => MarketInv
  BY LoadedOK DEF MarketInit, MarketInv
<1>2. MarketInv => BadgeBacked
  <2>. SUFFICES ASSUME MarketInv, NEW a \in Range(agents_store)
                PROVE  AgentOK(a)
    BY FullScoreType DEF BadgeBacked, AgentOK, Earned, IsScore
  <2>1. PICK i \in 1 .. Len(agents_store) : a = agents_store[i]
    BY DEF MarketInv, Range
  <2>. QED  BY <2>1 DEF MarketInv
<1>. QED  BY <1>1, <1>2, MarketStep, PTL DEF MarketSpec

-----------------------------------------------------------------------------
(* Ranked lists.                                                           *)

(* Who is ahead of whom when n of them are ranked.                         *)
IsRanking(ahead, n) ==
  /\ n \in Nat /\ ahead \in [1 .. n -> SUBSET (1 .. n)]
  /\ \A i \in 1 .. n : i \notin ahead[i]
  /\ \A i, j \in 1 .. n : j \in ahead[i] => ahead[j] \subseteq ahead[i]
  /\ \A i, j \in 1 .. n : i # j => i \in ahead[j] \/ j \in ahead[i]

(* Every place is somebody's, and who is ahead has an earlier one.         *)
LEMMA Ranks ==
  ASSUME NEW n, NEW ahead, IsRanking(ahead, n)
  PROVE  /\ \A i, j \in 1 .. n : j \in ahead[i] => Cardinality(ahead[j]) < Cardinality(ahead[i])
         /\ \A i \in 1 .. n : Cardinality(ahead[i]) \in 0 .. n - 1
         /\ \A k \in 1 .. n : \E i \in 1 .. n : Cardinality(ahead[i]) = k - 1
<1>1. /\ n \in Nat /\ \A i \in 1 .. n : ahead[i] \subseteq 1 .. n /\ i \notin ahead[i]
      /\ \A i, j \in 1 .. n : j \in ahead[i] => ahead[j] \subseteq ahead[i]
      /\ \A i, j \in 1 .. n : i # j => i \in ahead[j] \/ j \in ahead[i]
  BY DEF IsRanking
<1>2. ASSUME NEW i \in 1 .. n
      PROVE  IsFiniteSet(ahead[i]) /\ Cardinality(ahead[i]) \in Nat
  BY <1>1, PartOf1
<1>3. ASSUME NEW i \in 1 .. n, NEW j \in 1 .. n, j \in ahead[i]
      PROVE  Cardinality(ahead[j]) < Cardinality(ahead[i])
  <2>1. ahead[j] \in SUBSET ahead[i] /\ ahead[j] # ahead[i]
    BY <1>1, <1>3
  <2>2. Cardinality(ahead[j]) <= Cardinality(ahead[i])
        /\ (Cardinality(ahead[j]) = Cardinality(ahead[i]) => ahead[j] = ahead[i])
    BY <1>2, <2>1, FS_Subset
  <2>. QED  BY <1>2, <2>1, <2>2
<1>4. ASSUME NEW i \in 1 .. n
      PROVE  Cardinality(ahead[i]) \in 0 .. n - 1
  <2>1. ahead[i] \in SUBSET ((1 .. n) \ {i})
    BY <1>1
  <2>2. IsFiniteSet(1 .. n) /\ Cardinality(1 .. n) = n
    BY <1>1, UpTo1
  <2>3. IsFiniteSet((1 .. n) \ {i}) /\ Cardinality((1 .. n) \ {i}) = n - 1
    BY <2>2, FS_RemoveElement
  <2>4. Cardinality(ahead[i]) <= n - 1
    BY <2>1, <2>3, FS_Subset
  <2>. QED  BY <1>1, <1>2, <2>4
<1>5. PICK f : f = [i \in 1 .. n |-> Cardinality(ahead[i]) + 1]
  OBVIOUS
<1>6. f \in [1 .. n -> 1 .. n]
  BY <1>1, <1>4, <1>5
<1>7. ASSUME NEW i \in 1 .. n, NEW j \in 1 .. n, f[i] = f[j]
      PROVE  i = j
  <2>1. Cardinality(ahead[i]) = Cardinality(ahead[j])
    BY <1>2, <1>5, <1>7
  <2>2. i \notin ahead[j] /\ j \notin ahead[i]
    BY <1>2, <1>3, <2>1
  <2>. QED  BY <1>1, <2>2
<1>8. f \in Injection(1 .. n, 1 .. n)
  BY <1>6, <1>7 DEF Injection, IsInjective
<1>9. f \in Surjection(1 .. n, 1 .. n)
  BY <1>1, <1>8, UpTo1, FS_Injection
<1>10. ASSUME NEW k \in 1 .. n
       PROVE  \E i \in 1 .. n : Cardinality(ahead[i]) = k - 1
  <2>1. PICK i \in 1 .. n : f[i] = k
    BY <1>9 DEF Surjection
  <2>. QED  BY <1>2, <1>5, <2>1
<1>. QED  BY <1>3, <1>4, <1>10

LEMMA AheadRanks ==
  ASSUME NEW n \in Nat, NEW scores, scores \in [1 .. n -> Int]
  PROVE  IsRanking([i \in 1 .. n |-> Ahead(scores, i)], n)
<1>1. \A i, j \in 1 .. n : j \in Ahead(scores, i) <=> scores[j] > scores[i] \/ (scores[j] = scores[i] /\ j < i)
  BY DEF Ahead
<1>2. \A i \in 1 .. n : Ahead(scores, i) \in SUBSET (1 .. n)
  BY DEF Ahead
<1>3. \A i \in 1 .. n : scores[i] \in Int /\ i \in Int
  OBVIOUS
<1>4. \A i \in 1 .. n : i \notin Ahead(scores, i)
  BY <1>1, <1>3
<1>5. \A i, j \in 1 .. n : i # j => i \in Ahead(scores, j) \/ j \in Ahead(scores, i)
  BY <1>1, <1>3
<1>6. \A i, j \in 1 .. n : j \in Ahead(scores, i) => Ahead(scores, j) \subseteq Ahead(scores, i)
  <2>1. ASSUME NEW i \in 1 .. n, NEW j \in 1 .. n, j \in Ahead(scores, i), NEW k \in Ahead(scores, j)
        PROVE  k \in Ahead(scores, i)
    <3>1. k \in 1 .. n
      BY <1>2
    <3>. QED  BY <1>1, <1>3, <2>1, <3>1
  <2>. QED  BY <2>1
<1>. QED  BY <1>2, <1>4, <1>5, <1>6 DEF IsRanking

(* The places of a list in the order of their scores, the greatest first   *)
(* and of equal ones the first of the list.                                *)
IsOrder(order, m, n, scores) ==
  /\ m \in Nat /\ m <= n /\ order \in [1 .. m -> 1 .. n]
  /\ \A k \in 1 .. m : \A j \in 1 .. m : j < k =>
       \/ scores[order[j]] > scores[order[k]]
       \/ scores[order[j]] = scores[order[k]] /\ order[j] < order[k]

IsScored(list, n, scores) == n \in Nat /\ Len(list) = n /\ scores \in [1 .. n -> Int]

IsRanked(ranked, list, n, scores) ==
  \E m, order : IsOrder(order, m, n, scores) /\ ranked = [x \in 1 .. m |-> list[order[x]]]

LEMMA RankedIs ==
  ASSUME NEW list, NEW n, NEW scores, IsScored(list, n, scores), NEW max \in Nat
  PROVE  IsRanked(Ranked(list, scores, max), list, n, scores)
<1>0. n \in Nat /\ Len(list) = n /\ scores \in [1 .. n -> Int]
  BY DEF IsScored
<1>1. PICK ahead : ahead = [i \in 1 .. n |-> Ahead(scores, i)]
  OBVIOUS
<1>2. IsRanking(ahead, n)
  BY <1>0, <1>1, AheadRanks
<1>3. PICK place : place = [x \in 1 .. n |-> CHOOSE i \in 1 .. n : Cardinality(ahead[i]) = x - 1]
  OBVIOUS
<1>4. \A x \in 1 .. n : place[x] \in 1 .. n /\ Cardinality(ahead[place[x]]) = x - 1
  <2>1. ASSUME NEW x \in 1 .. n
        PROVE  \E i \in 1 .. n : Cardinality(ahead[i]) = x - 1
    BY <1>2, Ranks
  <2>. QED  BY <1>3, <2>1
<1>5. PICK m : m = Min({max, n})
  OBVIOUS
<1>6. m \in Nat /\ m <= n
  <2>1. m = IF max <= n THEN max ELSE n
    BY <1>0, <1>5, MinOfTwo
  <2>. QED  BY <1>0, <2>1
<1>7. \A x \in 1 .. m : x \in 1 .. n
  BY <1>0, <1>6
<1>8. Ranked(list, scores, max) = [x \in 1 .. m |-> list[place[x]]]
  <2>1. DOMAIN scores = 1 .. n /\ \A i \in 1 .. n : ahead[i] = Ahead(scores, i)
    BY <1>0, <1>1
  <2>2. \A x \in 1 .. n : place[x] = CHOOSE i \in DOMAIN scores : Cardinality(Ahead(scores, i)) = x - 1
    BY <1>3, <2>1
  <2>3. Ranked(list, scores, max)
          = [x \in 1 .. m |-> list[CHOOSE i \in DOMAIN scores : Cardinality(Ahead(scores, i)) = x - 1]]
    BY <1>0, <1>5, Zenon DEF Ranked
  <2>4. \A x \in 1 .. m :
          list[CHOOSE i \in DOMAIN scores : Cardinality(Ahead(scores, i)) = x - 1] = list[place[x]]
    BY <1>7, <2>2, Zenon
  <2>. QED  BY <2>3, <2>4, Zenon
<1>9. PICK order : order = [x \in 1 .. m |-> place[x]]
  OBVIOUS
<1>10. order \in [1 .. m -> 1 .. n] /\ \A x \in 1 .. m : order[x] = place[x]
  BY <1>4, <1>7, <1>9
<1>11. ASSUME NEW k \in 1 .. m, NEW j \in 1 .. m, j < k
       PROVE  \/ scores[order[j]] > scores[order[k]]
              \/ scores[order[j]] = scores[order[k]] /\ order[j] < order[k]
  <2>1. PICK a : a = order[j]
    OBVIOUS
  <2>2. PICK b : b = order[k]
    OBVIOUS
  <2>3. /\ a \in 1 .. n /\ Cardinality(ahead[a]) = j - 1
        /\ b \in 1 .. n /\ Cardinality(ahead[b]) = k - 1
    BY <1>4, <1>7, <1>10, <2>1, <2>2
  <2>4. a # b
    BY <1>11, <2>3
  <2>5. ~(b \in ahead[a])
    <3>1. b \in ahead[a] => Cardinality(ahead[b]) < Cardinality(ahead[a])
      BY <1>2, <2>3, Ranks
    <3>. QED  BY <1>11, <2>3, <3>1
  <2>6. a \in ahead[b]
    BY <1>2, <2>3, <2>4, <2>5 DEF IsRanking
  <2>7. a \in Ahead(scores, b)
    BY <1>1, <2>3, <2>6
  <2>. QED  BY <1>0, <2>1, <2>2, <2>3, <2>7 DEF Ahead
<1>12. IsOrder(order, m, n, scores)
  BY <1>6, <1>10, <1>11 DEF IsOrder
<1>13. Ranked(list, scores, max) = [x \in 1 .. m |-> list[order[x]]]
  <2>1. \A x \in 1 .. m : list[place[x]] = list[order[x]]
    BY <1>10
  <2>. QED  BY <1>8, <2>1, Zenon
<1>. QED  BY <1>12, <1>13 DEF IsRanked

-----------------------------------------------------------------------------
(* Drift detection.                                                        *)

(* What the loops over the fields make of the risk.                        *)
IsRisk(risk, fields, levels) ==
  /\ risk[0] = LOW
  /\ \A i \in 1 .. Len(fields) : risk[i] = Escalate(risk[i - 1], levels[fields[i]])

LEMMA EscalateIs ==
  ASSUME NEW a \in 0 .. 3, NEW b \in 0 .. 3
  PROVE  Escalate(a, b) \in 0 .. 3 /\ \A k \in 1 .. 3 : Escalate(a, b) >= k <=> a >= k \/ b >= k
<1>1. Escalate(a, b) = IF a >= b THEN a ELSE b
  BY MaxOfTwo DEF Escalate
<1>. QED  BY <1>1

LEMMA RiskLoops ==
  ASSUME NEW S, NEW fields, fields \in Seq(S), NEW levels, levels \in [S -> 0 .. 3]
  PROVE  \E risk : IsRisk(risk, fields, levels) /\ Risk(fields, levels) = risk[Len(fields)]
<1>. DEFINE m == Len(fields)
            turn(i, r) == Escalate(r, levels[fields[i]])
            step == [i \in 1 .. m |-> [r \in 0 .. 3 |-> turn(i, r)]]
            risk[i \in 0 .. m] == IF i = 0 THEN LOW ELSE turn(i, risk[i - 1])
<1>1. m \in Nat /\ LOW \in 0 .. 3
  BY DEF LOW
<1>2. Risk(fields, levels) = risk[m]
  BY DEF Risk
<1>3. ASSUME NEW i \in 1 .. m, NEW r \in 0 .. 3
      PROVE  turn(i, r) \in 0 .. 3
  <2>1. levels[fields[i]] \in 0 .. 3
    OBVIOUS
  <2>. QED  BY <2>1, EscalateIs
<1>. HIDE DEF turn, m
<1>4. IsLoop(m, 0 .. 3, LOW, step)
  BY <1>1, <1>3 DEF IsLoop
<1>5. PICK f : IsRunOf(f, m, 0 .. 3, LOW, step)
  <2>. HIDE DEF step
  <2>. QED  BY <1>4, LoopExists
<1>6. f = [i \in 0 .. m |-> IF i = 0 THEN LOW ELSE turn(i, f[i - 1])]
  <2>1. f = [i \in 0 .. m |-> f[i]] /\ f[0] = LOW
    BY <1>5 DEF IsRunOf
  <2>2. ASSUME NEW i \in 0 .. m, i # 0
        PROVE  f[i] = turn(i, f[i - 1])
    <3>1. i \in 1 .. m
      BY <1>1, <2>2
    <3>2. f[i - 1] \in 0 .. 3 /\ f[i] = step[i][f[i - 1]]
      <4>. HIDE DEF step
      <4>. QED  BY <1>1, <1>5, <3>1 DEF IsRunOf
    <3>. QED  BY <3>1, <3>2
  <2>. QED  BY <2>1, <2>2
<1>7. risk = [i \in 0 .. m |-> IF i = 0 THEN LOW ELSE turn(i, risk[i - 1])]
  BY <1>6, Zenon
<1>. HIDE DEF risk
<1>8. risk[0] = LOW /\ \A i \in 1 .. m : risk[i] = turn(i, risk[i - 1])
  BY <1>1, <1>7
<1>9. IsRisk(risk, fields, levels)
  BY <1>8 DEF IsRisk, turn, m
<1>. QED  BY <1>2, <1>9 DEF m

(* The risk is at a level or above it when the level of some field is.     *)
LEMMA RiskIs ==
  ASSUME NEW S, NEW fields, fields \in Seq(S), NEW levels, levels \in [S -> 0 .. 3]
  PROVE  /\ Risk(fields, levels) \in 0 .. 3
         /\ \A k \in 1 .. 3 : Risk(fields, levels) >= k <=> \E i \in 1 .. Len(fields) : levels[fields[i]] >= k
<1>1. PICK risk : IsRisk(risk, fields, levels) /\ Risk(fields, levels) = risk[Len(fields)]
  BY RiskLoops
<1>. DEFINE m == Len(fields)
            T == {n \in 0 .. m : /\ risk[n] \in 0 .. 3
                                 /\ \A k \in 1 .. 3 : risk[n] >= k <=> \E i \in 1 .. n : levels[fields[i]] >= k}
<1>2. m \in Nat /\ \A i \in 1 .. m : levels[fields[i]] \in 0 .. 3
  OBVIOUS
<1>3. 0 \in T
  <2>1. risk[0] = 0
    BY <1>1 DEF IsRisk, LOW
  <2>. QED  BY <1>2, <2>1
<1>4. ASSUME NEW n \in 0 .. m - 1, n \in T
      PROVE  n + 1 \in T
  <2>1. PICK level : level = levels[fields[n + 1]]
    OBVIOUS
  <2>2. n + 1 \in 1 .. m /\ (n + 1) - 1 = n /\ n + 1 \in 0 .. m /\ level \in 0 .. 3 /\ risk[n] \in 0 .. 3
    BY <1>2, <1>4, <2>1
  <2>3. risk[n + 1] = Escalate(risk[n], level)
    BY <1>1, <2>1, <2>2 DEF IsRisk
  <2>4. risk[n + 1] \in 0 .. 3 /\ \A k \in 1 .. 3 : risk[n + 1] >= k <=> risk[n] >= k \/ level >= k
    BY <2>2, <2>3, EscalateIs
  <2>5. ASSUME NEW k \in 1 .. 3
        PROVE  risk[n + 1] >= k <=> \E i \in 1 .. n + 1 : levels[fields[i]] >= k
    <3>1. risk[n] >= k <=> \E i \in 1 .. n : levels[fields[i]] >= k
      BY <1>4
    <3>2. \A i \in 1 .. n + 1 : i \in 1 .. n \/ i = n + 1
      OBVIOUS
    <3>3. n + 1 \in 1 .. n + 1 /\ \A i \in 1 .. n : i \in 1 .. n + 1
      OBVIOUS
    <3>. QED  BY <2>1, <2>4, <3>1, <3>2, <3>3
  <2>. QED  BY <2>2, <2>4, <2>5
<1>. HIDE DEF T
<1>5. 0 .. m \subseteq T
  BY <1>2, <1>3, <1>4, UpToInduct
<1>6. m \in T
  BY <1>2, <1>5
<1>. QED  BY <1>1, <1>6 DEF T

(* An order of some fields has them all, and those that are picked from it *)
(* are those that are asked for.                                           *)
LEMMA OrderCovers ==
  ASSUME NEW F, IsFiniteSet(F), NEW order, order \in SetToSeqs(F)
  PROVE  order \in Seq(F) /\ Len(order) \in Nat /\ \A x \in F : \E i \in 1 .. Len(order) : order[i] = x
<1>1. PICK n : n = Cardinality(F)
  OBVIOUS
<1>2. n \in Nat
  BY <1>1, FS_CardinalityType
<1>3. order \in [1 .. n -> F] /\ \A i, j \in 1 .. n : i # j => order[i] # order[j]
  BY <1>1 DEF SetToSeqs
<1>4. order \in Seq(F) /\ Len(order) = n
  BY <1>2, <1>3
<1>5. order \in Injection(1 .. n, F)
  BY <1>3 DEF Injection, IsInjective
<1>6. Cardinality(1 .. n) = Cardinality(F)
  BY <1>1, <1>2, UpTo1
<1>7. order \in Surjection(1 .. n, F)
  BY <1>5, <1>6, FS_Injection
<1>8. \A x \in F : \E i \in 1 .. n : order[i] = x
  BY <1>7 DEF Surjection
<1>. QED  BY <1>2, <1>4, <1>8

LEMMA ThoseAre ==
  ASSUME NEW F, IsFiniteSet(F), NEW order, order \in SetToSeqs(F), NEW A, A \in SUBSET F
  PROVE  /\ Those(order, A) \in Seq(A)
         /\ \A x \in A : \E k \in 1 .. Len(Those(order, A)) : Those(order, A)[k] = x
<1>1. order \in Seq(F) /\ Len(order) \in Nat /\ \A x \in F : \E i \in 1 .. Len(order) : order[i] = x
  BY OrderCovers
<1>2. PICK keep : keep = {i \in 1 .. Len(order) : order[i] \in A}
  OBVIOUS
<1>3. PICK p : p = Picked(order, keep)
  OBVIOUS
<1>4. p = Those(order, A)
  BY <1>2, <1>3 DEF Those
<1>5. PICK at : PickOf(p, at, order, keep)
  BY <1>1, <1>3, PickedPlaces
<1>6. p \in Seq(F)
  BY <1>1, <1>3, PickedPlaces
<1>7. \A k \in 1 .. Len(p) : p[k] \in A
  BY <1>2, <1>5 DEF PickOf
<1>8. p \in Seq(A)
  BY <1>6, <1>7
<1>9. ASSUME NEW x \in A
      PROVE  \E k \in 1 .. Len(p) : p[k] = x
  <2>1. PICK i \in 1 .. Len(order) : order[i] = x
    BY <1>1
  <2>2. PICK k \in 1 .. Len(p) : at[k] = i
    BY <1>2, <1>5, <2>1 DEF PickOf
  <2>3. p[k] = order[at[k]]
    BY <1>5 DEF PickOf
  <2>. QED  BY <2>1, <2>2, <2>3
<1>. QED  BY <1>4, <1>8, <1>9

(* A report tells the fields that differ and the highest of their levels.  *)
Tells(report, fields, levels) ==
  /\ report.drifted = fields /\ report.risk \in 0 .. 3
  /\ \A k \in 1 .. 3 : report.risk >= k <=> \E f \in fields : levels[f] >= k

LEMMA ReportTells ==
  ASSUME NEW F, IsFiniteSet(F), NEW order, order \in SetToSeqs(F),
         NEW A, A \in SUBSET F, NEW B, B \in SUBSET F, NEW levels, levels \in [A \cup B -> 0 .. 3]
  PROVE  Tells(Report(Those(order, A) \o Those(order, B), levels), A \cup B, levels)
<1>1. PICK s : s = Those(order, A)
  OBVIOUS
<1>2. PICK t : t = Those(order, B)
  OBVIOUS
<1>3. PICK u : u = s \o t
  OBVIOUS
<1>4. s \in Seq(A) /\ \A x \in A : \E k \in 1 .. Len(s) : s[k] = x
  BY <1>1, ThoseAre
<1>5. t \in Seq(B) /\ \A x \in B : \E k \in 1 .. Len(t) : t[k] = x
  BY <1>2, ThoseAre
<1>6. s \in Seq(A \cup B) /\ t \in Seq(A \cup B)
  BY <1>4, <1>5
<1>7. /\ u \in Seq(A \cup B) /\ Len(u) = Len(s) + Len(t) /\ Len(s) \in Nat
      /\ \A i \in 1 .. Len(s) : u[i] = s[i]
      /\ \A i \in 1 .. Len(t) : u[Len(s) + i] = t[i]
  BY <1>3, <1>6, Joined
<1>8. \A x \in A \cup B : \E i \in 1 .. Len(u) : u[i] = x
  <2>1. ASSUME NEW x \in A
        PROVE  \E i \in 1 .. Len(u) : u[i] = x
    <3>1. PICK k \in 1 .. Len(s) : s[k] = x
      BY <1>4
    <3>2. k \in 1 .. Len(u) /\ u[k] = x
      <4>1. Len(t) \in Nat
        BY <1>5
      <4>. QED  BY <1>7, <3>1, <4>1
    <3>. QED  BY <3>2
  <2>2. ASSUME NEW x \in B
        PROVE  \E i \in 1 .. Len(u) : u[i] = x
    <3>1. PICK k \in 1 .. Len(t) : t[k] = x
      BY <1>5
    <3>2. Len(s) + k \in 1 .. Len(u) /\ u[Len(s) + k] = x
      <4>1. Len(t) \in Nat
        BY <1>5
      <4>. QED  BY <1>7, <3>1, <4>1
    <3>. QED  BY <3>2
  <2>. QED  BY <2>1, <2>2
<1>9. \A i \in 1 .. Len(u) : u[i] \in A \cup B
  BY <1>7
<1>10. Risk(u, levels) \in 0 .. 3 /\ \A k \in 1 .. 3 : Risk(u, levels) >= k <=> \E i \in 1 .. Len(u) : levels[u[i]] >= k
  BY <1>7, RiskIs
<1>11. \A k \in 1 .. 3 : (\E i \in 1 .. Len(u) : levels[u[i]] >= k) <=> \E f \in A \cup B : levels[f] >= k
  BY <1>8, <1>9
<1>12. DOMAIN levels = A \cup B
  OBVIOUS
<1>13. Report(s \o t, levels) = [drifted |-> A \cup B, risk |-> Risk(u, levels)]
  BY <1>3, <1>12 DEF Report
<1>. QED  BY <1>1, <1>2, <1>10, <1>11, <1>13 DEF Tells

IsPayload(p) == IsFiniteSet(DOMAIN p) /\ \A f \in DOMAIN p : IsValue(p[f])

AddedTo(d, a) == DOMAIN a \ DOMAIN d

(* What differs, and at which level, for main.py and for shadow_firewall.ts.*)
PyChanged(d, a) == {f \in DOMAIN d : ~Equal(d[f], Read(a, f))}

PyLevels(d, a) ==
  [f \in AddedTo(d, a) \cup PyChanged(d, a) |->
     IF f \in AddedTo(d, a) THEN HIGH ELSE FieldLevel(f, d[f], Read(a, f))]

TsValue(a, f) == IF f \in DOMAIN a THEN a[f] ELSE Undefined

TsChanged(d, a) ==
  {f \in DOMAIN d : d[f].type # TsValue(a, f).type \/ d[f].content # TsValue(a, f).content}

TsLevel(d, a, f) ==
  IF d[f].type # TsValue(a, f).type THEN HIGH
  ELSE IF d[f].type = "number" THEN Inflation(d[f].content, TsValue(a, f).content)
  ELSE MEDIUM

TsLevels(d, a) ==
  [f \in AddedTo(d, a) \cup TsChanged(d, a) |-> IF f \in AddedTo(d, a) THEN HIGH ELSE TsLevel(d, a, f)]

LEMMA InflationLevel ==
  ASSUME NEW x \in Int, NEW y \in Int
  PROVE  /\ Inflation(x, y) \in 0 .. 3
         /\ ~(Inflation(x, y) >= 2) => Abs(y - x) <= Abs(x)
<1>1. Abs(y - x) \in Nat /\ Abs(x) \in Nat
  BY DEF Abs
<1>. PICK c : c = Abs(y - x)
  OBVIOUS
<1>. PICK b : b = Abs(x)
  OBVIOUS
<1>2. Inflation(x, y) = IF c > 10 * b THEN 3 ELSE IF c > b THEN 2 ELSE IF 10 * c > b THEN 1 ELSE 0
  BY DEF Inflation, CRITICAL, HIGH, MEDIUM, LOW
<1>. QED  BY <1>1, <1>2

LEMMA FieldLevelIs ==
  ASSUME NEW f, NEW x, IsValue(x), NEW y, IsValue(y)
  PROVE  FieldLevel(f, x, y) \in 0 .. 3
<1>1. CASE IsNumber(x) /\ IsNumber(y)
  <2>1. x.content \in Int /\ y.content \in Int
    BY <1>1 DEF IsNumber, IsValue
  <2>. QED  BY <1>1, <2>1, InflationLevel DEF FieldLevel
<1>2. CASE ~(IsNumber(x) /\ IsNumber(y))
  BY <1>2 DEF FieldLevel, HIGH, MEDIUM
<1>. QED  BY <1>1, <1>2

LEMMA ReadIs ==
  ASSUME NEW a, IsPayload(a), NEW f
  PROVE  IsValue(Read(a, f))
<1>1. IsValue(Null)
  BY DEF Null, IsValue
<1>. QED  BY <1>1 DEF Read, IsPayload

LEMMA PyTells ==
  ASSUME NEW d, IsPayload(d), NEW a, IsPayload(a), NEW order, order \in SetToSeqs(DOMAIN d \cup DOMAIN a)
  PROVE  Tells(DetectDrift(d, a, order), AddedTo(d, a) \cup PyChanged(d, a), PyLevels(d, a))
<1>1. PICK F : F = DOMAIN d \cup DOMAIN a
  OBVIOUS
<1>2. PICK A : A = AddedTo(d, a)
  OBVIOUS
<1>3. PICK B : B = PyChanged(d, a)
  OBVIOUS
<1>4. PICK levels : levels = PyLevels(d, a)
  OBVIOUS
<1>5. IsFiniteSet(F)
  BY <1>1, FS_Union DEF IsPayload
<1>6. A \in SUBSET F /\ B \in SUBSET F
  BY <1>1, <1>2, <1>3 DEF AddedTo, PyChanged
<1>7. ASSUME NEW f \in A \cup B
      PROVE  (IF f \in A THEN HIGH ELSE FieldLevel(f, d[f], Read(a, f))) \in 0 .. 3
  <2>1. CASE f \in A
    BY <2>1 DEF HIGH
  <2>2. CASE f \notin A
    <3>1. IsValue(d[f]) /\ IsValue(Read(a, f))
      BY <1>3, <1>7, <2>2, ReadIs DEF PyChanged, IsPayload
    <3>. QED  BY <2>2, <3>1, FieldLevelIs
  <2>. QED  BY <2>1, <2>2
<1>8. levels \in [A \cup B -> 0 .. 3]
  BY <1>2, <1>3, <1>4, <1>7 DEF PyLevels
<1>9. Tells(Report(Those(order, A) \o Those(order, B), levels), A \cup B, levels)
  BY <1>1, <1>5, <1>6, <1>8, ReportTells
<1>10. DetectDrift(d, a, order) = Report(Those(order, A) \o Those(order, B), levels)
  BY <1>2, <1>3, <1>4 DEF DetectDrift, AddedTo, PyChanged, PyLevels
<1>. QED  BY <1>2, <1>3, <1>4, <1>9, <1>10

LEMMA TsLevelIs ==
  ASSUME NEW d, IsPayload(d), NEW a, IsPayload(a), NEW f \in DOMAIN d
  PROVE  TsLevel(d, a, f) \in 0 .. 3
<1>1. CASE d[f].type = TsValue(a, f).type /\ d[f].type = "number"
  <2>1. f \in DOMAIN a
    BY <1>1 DEF TsValue, Undefined
  <2>2. d[f].content \in Int /\ TsValue(a, f).content \in Int
    BY <1>1, <2>1 DEF TsValue, IsPayload, IsValue
  <2>. QED  BY <1>1, <2>2, InflationLevel DEF TsLevel
<1>2. CASE ~(d[f].type = TsValue(a, f).type /\ d[f].type = "number")
  BY <1>2 DEF TsLevel, HIGH, MEDIUM
<1>. QED  BY <1>1, <1>2

LEMMA TsTells ==
  ASSUME NEW d, IsPayload(d), NEW a, IsPayload(a), NEW order, order \in SetToSeqs(DOMAIN d \cup DOMAIN a)
  PROVE  Tells(Analyze(d, a, order), AddedTo(d, a) \cup TsChanged(d, a), TsLevels(d, a))
<1>1. PICK F : F = DOMAIN d \cup DOMAIN a
  OBVIOUS
<1>2. PICK A : A = AddedTo(d, a)
  OBVIOUS
<1>3. PICK B : B = TsChanged(d, a)
  OBVIOUS
<1>4. PICK levels : levels = TsLevels(d, a)
  OBVIOUS
<1>5. IsFiniteSet(F)
  BY <1>1, FS_Union DEF IsPayload
<1>6. A \in SUBSET F /\ B \in SUBSET F
  BY <1>1, <1>2, <1>3 DEF AddedTo, TsChanged
<1>7. ASSUME NEW f \in A \cup B
      PROVE  (IF f \in A THEN HIGH ELSE TsLevel(d, a, f)) \in 0 .. 3
  <2>1. CASE f \in A
    BY <2>1 DEF HIGH
  <2>2. CASE f \notin A
    <3>1. f \in DOMAIN d
      BY <1>3, <1>7, <2>2 DEF TsChanged
    <3>. QED  BY <2>2, <3>1, TsLevelIs
  <2>. QED  BY <2>1, <2>2
<1>8. levels \in [A \cup B -> 0 .. 3]
  BY <1>2, <1>3, <1>4, <1>7 DEF TsLevels
<1>9. Tells(Report(Those(order, A) \o Those(order, B), levels), A \cup B, levels)
  BY <1>1, <1>5, <1>6, <1>8, ReportTells
<1>10. Analyze(d, a, order) = Report(Those(order, A) \o Those(order, B), levels)
  BY <1>2, <1>3, <1>4 DEF Analyze, AddedTo, TsChanged, TsLevels, TsLevel, TsValue
<1>. QED  BY <1>2, <1>3, <1>4, <1>9, <1>10

(* Two reports of the same fields at the same levels are the same.         *)
LEMMA TellTheSame ==
  ASSUME NEW r, NEW s, NEW fields, NEW levels, Tells(r, fields, levels), Tells(s, fields, levels)
  PROVE  r.drifted = s.drifted /\ r.risk = s.risk
<1>1. r.risk \in 0 .. 3 /\ s.risk \in 0 .. 3 /\ r.drifted = s.drifted
  BY DEF Tells
<1>2. \A k \in 1 .. 3 : r.risk >= k <=> s.risk >= k
  BY DEF Tells
<1>3. (r.risk >= 1 <=> s.risk >= 1) /\ (r.risk >= 2 <=> s.risk >= 2) /\ (r.risk >= 3 <=> s.risk >= 3)
  BY <1>2
<1>. QED  BY <1>1, <1>3

LEMMA TellsMore ==
  ASSUME NEW r, NEW s, NEW fields, NEW levels, NEW less, Tells(r, fields, levels), Tells(s, fields, less),
         \A f \in fields : levels[f] \in Int /\ less[f] \in Int /\ levels[f] >= less[f]
  PROVE  r.risk >= s.risk
<1>1. r.risk \in 0 .. 3 /\ s.risk \in 0 .. 3
  BY DEF Tells
<1>2. CASE s.risk = 0
  BY <1>1, <1>2
<1>3. CASE s.risk # 0
  <2>1. PICK k : k = s.risk
    OBVIOUS
  <2>2. k \in 1 .. 3 /\ s.risk >= k
    BY <1>1, <1>3, <2>1
  <2>3. PICK f \in fields : less[f] >= k
    BY <2>2 DEF Tells
  <2>4. levels[f] >= k
    BY <2>2, <2>3
  <2>5. r.risk >= k
    BY <2>2, <2>4 DEF Tells
  <2>. QED  BY <2>1, <2>5
<1>. QED  BY <1>2, <1>3

-----------------------------------------------------------------------------

(* What is let through differs at no level that is high.                   *)
LEMMA AllowedIs ==
  ASSUME NEW d, IsPayload(d), NEW a, IsPayload(a), NEW r,
         Tells(r, AddedTo(d, a) \cup PyChanged(d, a), PyLevels(d, a)), PolicyDecision(r) = "ALLOW"
  PROVE  Harmless(d, a)
<1>1. \A f \in AddedTo(d, a) \cup PyChanged(d, a) : ~(PyLevels(d, a)[f] >= 2)
  <2>1. ~(r.risk >= 2)
    BY DEF PolicyDecision, HIGH
  <2>. QED  BY <2>1 DEF Tells
<1>2. AddedTo(d, a) = {}
  <2>1. ASSUME NEW f \in AddedTo(d, a)
        PROVE  FALSE
    <3>1. PyLevels(d, a)[f] = 2
      BY DEF PyLevels, HIGH
    <3>. QED  BY <1>1, <3>1
  <2>. QED  BY <2>1
<1>3. ASSUME NEW f \in DOMAIN d, ~Equal(d[f], Read(a, f))
      PROVE  ~(FieldLevel(f, d[f], Read(a, f)) >= 2)
  <2>1. f \in PyChanged(d, a) /\ f \notin AddedTo(d, a)
    BY <1>2, <1>3 DEF PyChanged
  <2>2. PyLevels(d, a)[f] = FieldLevel(f, d[f], Read(a, f))
    BY <2>1 DEF PyLevels
  <2>. QED  BY <1>1, <2>1, <2>2
<1>4. DOMAIN a \subseteq DOMAIN d
  BY <1>2 DEF AddedTo
<1>5. ASSUME NEW f \in DOMAIN d, d[f].type # "null", f \notin DOMAIN a
      PROVE  FALSE
  <2>1. Read(a, f).type = "null"
    BY <1>5 DEF Read, Null
  <2>2. ~IsNumber(Read(a, f))
    BY <2>1 DEF IsNumber
  <2>3. ~Equal(d[f], Read(a, f))
    BY <1>5, <2>1, <2>2 DEF Equal
  <2>4. FieldLevel(f, d[f], Read(a, f)) = 2
    BY <1>5, <2>1, <2>2 DEF FieldLevel, HIGH
  <2>. QED  BY <1>3, <2>3, <2>4
<1>6. ASSUME NEW f \in DOMAIN a, IsNumber(d[f]), IsNumber(a[f])
      PROVE  Abs(a[f].content - d[f].content) <= Abs(d[f].content)
  <2>1. f \in DOMAIN d /\ Read(a, f) = a[f]
    BY <1>4 DEF Read
  <2>2. d[f].content \in Int /\ a[f].content \in Int
    BY <1>6, <2>1 DEF IsPayload, IsValue, IsNumber
  <2>3. CASE Equal(d[f], Read(a, f))
    <3>1. a[f].content - d[f].content = 0
      BY <2>1, <2>2, <2>3 DEF Equal
    <3>. QED  BY <2>2, <3>1 DEF Abs
  <2>4. CASE ~Equal(d[f], Read(a, f))
    <3>1. FieldLevel(f, d[f], Read(a, f)) = Inflation(d[f].content, a[f].content)
      BY <1>6, <2>1 DEF FieldLevel
    <3>. QED  BY <1>3, <2>1, <2>2, <2>4, <3>1, InflationLevel
  <2>. QED  BY <2>3, <2>4
<1>7. ASSUME NEW f, Replaced(d, a, f)
      PROVE  /\ f \in DOMAIN d /\ Read(a, f) = a[f] /\ ~Equal(d[f], Read(a, f))
             /\ ~IsNumber(d[f]) /\ d[f].type = a[f].type
  <2>1. f \in DOMAIN d /\ f \in DOMAIN a /\ d[f].type = "text" /\ a[f].type = "text" /\ d[f] # a[f]
    BY <1>7 DEF Replaced
  <2>2. Read(a, f) = a[f] /\ ~IsNumber(d[f])
    BY <2>1 DEF Read, IsNumber
  <2>3. IsValue(d[f]) /\ IsValue(a[f])
    BY <2>1 DEF IsPayload
  <2>4. d[f].content # a[f].content
    BY <2>1, <2>3 DEF IsValue
  <2>. QED  BY <2>1, <2>2, <2>4 DEF Equal
<1>8. ~Replaced(d, a, "action")
  <2>1. SUFFICES ASSUME Replaced(d, a, "action")
                 PROVE  FALSE
    OBVIOUS
  <2>2. FieldLevel("action", d["action"], Read(a, "action")) = 2
    BY <1>7, <2>1 DEF FieldLevel, HIGH
  <2>. QED  BY <1>3, <1>7, <2>1, <2>2
<1>9. ASSUME Replaced(d, a, "recipient"), a["recipient"].content \in Risky
      PROVE  FALSE
  <2>1. FieldLevel("recipient", d["recipient"], Read(a, "recipient")) = 2
    BY <1>7, <1>9 DEF FieldLevel, HIGH
  <2>. QED  BY <1>3, <1>7, <1>9, <2>1
<1>. QED  BY <1>4, <1>5, <1>6, <1>8, <1>9 DEF Harmless, Escalated

(* shadow_firewall.ts sees what main.py does, and what is unseen to it.    *)
LEMMA SeenIs ==
  ASSUME NEW d, IsPayload(d), NEW a, IsPayload(a)
  PROVE  TsChanged(d, a) = PyChanged(d, a) \cup Unseen(d, a)
<1>1. ASSUME NEW f \in DOMAIN d
      PROVE  (d[f].type # TsValue(a, f).type \/ d[f].content # TsValue(a, f).content)
               <=> ~Equal(d[f], Read(a, f)) \/ f \in Unseen(d, a)
  <2>1. PICK x : x = d[f]
    OBVIOUS
  <2>2. PICK y : y = a[f]
    OBVIOUS
  <2>3. IsValue(x)
    BY <2>1 DEF IsPayload
  <2>4. CASE f \in DOMAIN a
    <3>1. IsValue(y) /\ Read(a, f) = y /\ TsValue(a, f) = y
      BY <2>2, <2>4 DEF IsPayload, Read, TsValue
    <3>2. f \in Unseen(d, a) <=> {x.type, y.type} = {"bool", "number"} /\ x.content = y.content
      BY <2>1, <2>2, <2>4 DEF Unseen
    <3>3. {x.type, y.type} = {"bool", "number"}
            <=> x.type # y.type /\ x.type \in {"bool", "number"} /\ y.type \in {"bool", "number"}
      OBVIOUS
    <3>. QED  BY <2>1, <2>2, <3>1, <3>2, <3>3 DEF Equal, IsNumber
  <2>5. CASE f \notin DOMAIN a
    <3>1. Read(a, f) = Null /\ TsValue(a, f) = Undefined
      BY <2>5 DEF Read, TsValue
    <3>2. f \in Unseen(d, a) <=> x.type = "null"
      BY <2>1, <2>5 DEF Unseen
    <3>3. x.type \in {"number", "bool", "text", "null"} /\ (x.type = "null" => x.content = 0)
      BY <2>3 DEF IsValue
    <3>. QED  BY <2>1, <3>1, <3>2, <3>3 DEF Equal, IsNumber, Null, Undefined
  <2>. QED  BY <2>4, <2>5
<1>. QED  BY <1>1 DEF TsChanged, PyChanged, Unseen

(* What is parsed is a payload of the same fields and types.               *)
LEMMA ParsedIs ==
  ASSUME NEW d, IsPayload(d)
  PROVE  LET core == ParseCore(d)
         IN  IsPayload(core) /\ DOMAIN core = DOMAIN d /\ \A f \in DOMAIN d : core[f].type = d[f].type
<1>. DEFINE core == ParseCore(d)
<1>1. DOMAIN core = DOMAIN d /\ \A f \in DOMAIN d : core[f] = Normalised(d[f])
  BY DEF ParseCore
<1>2. ASSUME NEW x, IsValue(x)
      PROVE  IsValue(Normalised(x)) /\ Normalised(x).type = x.type
  <2>1. x = [type |-> x.type, content |-> x.content]
    BY <1>2 DEF IsValue
  <2>2. CASE x.type = "number"
    <3>1. x.content \in Int
      BY <1>2, <2>2 DEF IsValue
    <3>. DEFINE rounded == 10 * ((x.content + 5) \div 10)
    <3>2. rounded \in Int
      BY <3>1
    <3>. HIDE DEF rounded
    <3>3. Normalised(x) = [type |-> "number", content |-> rounded]
      BY <2>1, <2>2 DEF Normalised, rounded
    <3>. QED  BY <2>2, <3>2, <3>3 DEF IsValue
  <2>3. CASE x.type = "text"
    <3>. DEFINE lower == LowerTrimmed[x.content]
    <3>. HIDE DEF lower
    <3>1. Normalised(x) = [type |-> "text", content |-> lower]
      BY <2>1, <2>3 DEF Normalised, lower
    <3>. QED  BY <2>3, <3>1 DEF IsValue
  <2>4. CASE x.type \notin {"number", "text"}
    <3>1. Normalised(x) = x
      BY <2>4 DEF Normalised
    <3>. QED  BY <1>2, <3>1
  <2>. QED  BY <2>2, <2>3, <2>4
<1>. HIDE DEF core
<1>3. IsPayload(core) /\ \A f \in DOMAIN d : core[f].type = d[f].type
  BY <1>1, <1>2 DEF IsPayload
<1>. QED  BY <1>1, <1>3 DEF core

(* On plain payloads the detectors see the same fields, and their levels   *)
(* differ only on a replaced action or recipient.                          *)
LEMMA PlainIs ==
  ASSUME NEW d, IsPayload(d), NEW a, IsPayload(a), Plain(d, a)
  PROVE  /\ PyChanged(d, a) = TsChanged(d, a)
         /\ \A f \in AddedTo(d, a) \cup PyChanged(d, a) :
              /\ PyLevels(d, a)[f] \in Int /\ TsLevels(d, a)[f] \in Int
              /\ PyLevels(d, a)[f] >= TsLevels(d, a)[f]
              /\ ~Escalated(d, a) =>
                   TsLevels(d, a)[f] >= PyLevels(d, a)[f]
<1>1. ASSUME NEW f \in DOMAIN d
      PROVE  d[f].type \in {"number", "text"} /\ IsValue(d[f])
  BY DEF Plain, IsPayload, IsValue
<1>2. ASSUME NEW f \in DOMAIN a
      PROVE  a[f].type \in {"number", "text"} /\ IsValue(a[f])
  BY DEF Plain, IsPayload, IsValue
<1>3. ASSUME NEW f \in DOMAIN d, f \notin DOMAIN a
      PROVE  /\ ~Equal(d[f], Read(a, f)) /\ d[f].type # TsValue(a, f).type
             /\ FieldLevel(f, d[f], Read(a, f)) = 2 /\ TsLevel(d, a, f) = 2
  <2>1. Read(a, f).type = "null" /\ TsValue(a, f).type = "undefined"
    BY <1>3 DEF Read, Null, TsValue, Undefined
  <2>2. d[f].type \in {"number", "text"}
    BY <1>1
  <2>3. ~IsNumber(Read(a, f)) /\ d[f].type # Read(a, f).type /\ d[f].type # TsValue(a, f).type
    BY <2>1, <2>2 DEF IsNumber
  <2>. QED  BY <2>3 DEF Equal, FieldLevel, TsLevel, HIGH
<1>4. ASSUME NEW f \in DOMAIN d, f \in DOMAIN a
      PROVE  /\ Read(a, f) = a[f] /\ TsValue(a, f) = a[f]
             /\ Equal(d[f], a[f]) <=> d[f].type = a[f].type /\ d[f].content = a[f].content
  <2>1. Read(a, f) = a[f] /\ TsValue(a, f) = a[f]
    BY <1>4 DEF Read, TsValue
  <2>2. d[f].type \in {"number", "text"} /\ a[f].type \in {"number", "text"}
    BY <1>1, <1>2, <1>4
  <2>3. IsNumber(d[f]) /\ IsNumber(a[f]) => d[f].type = a[f].type
    BY <2>2 DEF IsNumber
  <2>. QED  BY <2>1, <2>3 DEF Equal
<1>5. PyChanged(d, a) = TsChanged(d, a)
  <2>1. ASSUME NEW f \in DOMAIN d
        PROVE  ~Equal(d[f], Read(a, f)) <=>
                 (d[f].type # TsValue(a, f).type \/ d[f].content # TsValue(a, f).content)
    <3>1. CASE f \in DOMAIN a
      BY <1>4, <3>1
    <3>2. CASE f \notin DOMAIN a
      BY <1>3, <3>2
    <3>. QED  BY <3>1, <3>2
  <2>. QED  BY <2>1 DEF PyChanged, TsChanged
<1>6. ASSUME NEW f \in AddedTo(d, a)
      PROVE  PyLevels(d, a)[f] = 2 /\ TsLevels(d, a)[f] = 2
  BY DEF PyLevels, TsLevels, HIGH
<1>7. ASSUME NEW f \in PyChanged(d, a), f \notin AddedTo(d, a)
      PROVE  /\ f \in DOMAIN d
             /\ PyLevels(d, a)[f] = FieldLevel(f, d[f], Read(a, f))
             /\ TsLevels(d, a)[f] = TsLevel(d, a, f)
  BY <1>5, <1>7 DEF PyLevels, TsLevels, PyChanged
<1>8. ASSUME NEW f \in PyChanged(d, a), f \notin AddedTo(d, a)
      PROVE  /\ PyLevels(d, a)[f] \in Int /\ TsLevels(d, a)[f] \in Int
             /\ PyLevels(d, a)[f] >= TsLevels(d, a)[f]
             /\ ~Escalated(d, a) =>
                  TsLevels(d, a)[f] >= PyLevels(d, a)[f]
  <2>1. PICK x : x = d[f]
    OBVIOUS
  <2>2. PICK y : y = a[f]
    OBVIOUS
  <2>3. CASE f \notin DOMAIN a
    <3>1. PyLevels(d, a)[f] = 2 /\ TsLevels(d, a)[f] = 2
      BY <1>3, <1>7, <1>8, <2>3
    <3>. QED  BY <3>1
  <2>4. CASE f \in DOMAIN a
    <3>1. /\ PyLevels(d, a)[f] = FieldLevel(f, x, y)
          /\ TsLevels(d, a)[f] = IF x.type # y.type THEN HIGH
                                 ELSE IF x.type = "number" THEN Inflation(x.content, y.content)
                                 ELSE MEDIUM
      BY <1>4, <1>7, <1>8, <2>1, <2>2, <2>4 DEF TsLevel
    <3>2. x.type \in {"number", "text"} /\ IsValue(x) /\ y.type \in {"number", "text"} /\ IsValue(y)
      BY <1>1, <1>2, <1>7, <1>8, <2>1, <2>2, <2>4
    <3>3. CASE x.type = "number" /\ y.type = "number"
      <4>1. x.content \in Int /\ y.content \in Int
        BY <3>2, <3>3 DEF IsValue
      <4>2. FieldLevel(f, x, y) = Inflation(x.content, y.content)
        BY <3>3 DEF FieldLevel, IsNumber
      <4>3. Inflation(x.content, y.content) \in 0 .. 3
        BY <4>1, InflationLevel
      <4>. QED  BY <3>1, <3>3, <4>2, <4>3
    <3>4. CASE x.type # y.type
      <4>1. FieldLevel(f, x, y) = 2
        BY <3>2, <3>4 DEF FieldLevel, IsNumber, HIGH
      <4>. QED  BY <3>1, <3>4, <4>1 DEF HIGH
    <3>5. CASE x.type = "text" /\ y.type = "text"
      <4>1. TsLevels(d, a)[f] = 1
        BY <3>1, <3>5 DEF MEDIUM
      <4>2. FieldLevel(f, x, y) = IF f = "action" THEN 2
                                  ELSE IF f = "recipient" /\ y.content \in Risky THEN 2 ELSE 1
        BY <3>5 DEF FieldLevel, IsNumber, HIGH, MEDIUM
      <4>3. f \in {"action", "recipient"} => Replaced(d, a, f)
        <5>1. f \in DOMAIN d /\ ~Equal(d[f], Read(a, f))
          BY <1>8 DEF PyChanged
        <5>2. x # y
          BY <1>4, <2>1, <2>2, <2>4, <5>1
        <5>. QED  BY <2>1, <2>2, <2>4, <3>5, <5>1, <5>2 DEF Replaced
      <4>4. ~Escalated(d, a) => f # "action" /\ ~(f = "recipient" /\ y.content \in Risky)
        BY <2>2, <4>3 DEF Escalated
      <4>. QED  BY <3>1, <4>1, <4>2, <4>4
    <3>. QED  BY <3>2, <3>3, <3>4, <3>5
  <2>. QED  BY <2>3, <2>4
<1>9. ASSUME NEW f \in AddedTo(d, a) \cup PyChanged(d, a)
      PROVE  /\ PyLevels(d, a)[f] \in Int /\ TsLevels(d, a)[f] \in Int
             /\ PyLevels(d, a)[f] >= TsLevels(d, a)[f]
             /\ ~Escalated(d, a) =>
                  TsLevels(d, a)[f] >= PyLevels(d, a)[f]
  <2>1. CASE f \in AddedTo(d, a)
    BY <1>6, <2>1
  <2>2. CASE f \notin AddedTo(d, a)
    BY <1>8, <1>9, <2>2
  <2>. QED  BY <2>1, <2>2
<1>. QED  BY <1>5, <1>9

LEMMA SoundFor ==
  ASSUME NEW d, IsPayload(d), NEW a, IsPayload(a),
         NEW p, p \in SetToSeqs(DOMAIN d \cup DOMAIN a), NEW q, q \in SetToSeqs(DOMAIN d \cup DOMAIN a)
  PROVE  DriftSoundFor(d, a, p, q)
<1>1. ASSUME NEW x, IsPayload(x), DOMAIN x = DOMAIN d
      PROVE  /\ Tells(DetectDrift(x, a, p), AddedTo(x, a) \cup PyChanged(x, a), PyLevels(x, a))
             /\ Tells(DetectDrift(x, a, q), AddedTo(x, a) \cup PyChanged(x, a), PyLevels(x, a))
             /\ Tells(Analyze(x, a, q), AddedTo(x, a) \cup TsChanged(x, a), TsLevels(x, a))
  <2>1. p \in SetToSeqs(DOMAIN x \cup DOMAIN a) /\ q \in SetToSeqs(DOMAIN x \cup DOMAIN a)
    BY <1>1
  <2>. QED  BY <1>1, <2>1, PyTells, TsTells
<1>2. DetectDrift(d, a, p) = DetectDrift(d, a, q)
  <2>1. PICK r : r = DetectDrift(d, a, p)
    OBVIOUS
  <2>2. PICK s : s = DetectDrift(d, a, q)
    OBVIOUS
  <2>3. r.drifted = s.drifted /\ r.risk = s.risk
    BY <1>1, <2>1, <2>2, TellTheSame
  <2>4. r = [drifted |-> r.drifted, risk |-> r.risk]
    BY <2>1 DEF DetectDrift, Report
  <2>5. s = [drifted |-> s.drifted, risk |-> s.risk]
    BY <2>2 DEF DetectDrift, Report
  <2>. QED  BY <2>1, <2>2, <2>3, <2>4, <2>5
<1>3. PolicyDecision(DetectDrift(d, a, p)) = "ALLOW" => Harmless(d, a)
  BY <1>1, AllowedIs
<1>4. PICK core : core = ParseCore(d)
  OBVIOUS
<1>5. IsPayload(core) /\ DOMAIN core = DOMAIN d /\ \A f \in DOMAIN d : core[f].type = d[f].type
  BY <1>4, ParsedIs
<1>6. PICK r : r = DetectDrift(core, a, p)
  OBVIOUS
<1>7. PICK t : t = Analyze(core, a, q)
  OBVIOUS
<1>8. PICK D : D = AddedTo(core, a) \cup PyChanged(core, a)
  OBVIOUS
<1>9. Tells(r, D, PyLevels(core, a))
  BY <1>1, <1>5, <1>6, <1>8
<1>10. Tells(t, AddedTo(core, a) \cup TsChanged(core, a), TsLevels(core, a))
  BY <1>1, <1>5, <1>7
<1>11. t.drifted = r.drifted \cup Unseen(core, a)
  <2>1. TsChanged(core, a) = PyChanged(core, a) \cup Unseen(core, a)
    BY <1>5, SeenIs
  <2>. QED  BY <1>8, <1>9, <1>10, <2>1 DEF Tells
<1>12. ASSUME Plain(d, a)
       PROVE  r.risk >= t.risk /\ (~Escalated(core, a) => r.risk = t.risk)
  <2>1. Plain(core, a)
    BY <1>5, <1>12 DEF Plain
  <2>2. Tells(t, D, TsLevels(core, a))
    BY <1>5, <1>8, <1>10, <2>1, PlainIs
  <2>3. \A f \in D : /\ PyLevels(core, a)[f] \in Int /\ TsLevels(core, a)[f] \in Int
                     /\ PyLevels(core, a)[f] >= TsLevels(core, a)[f]
    BY <1>5, <1>8, <2>1, PlainIs
  <2>4. r.risk >= t.risk
    BY <1>9, <2>2, <2>3, TellsMore
  <2>5. ASSUME ~Escalated(core, a)
        PROVE  r.risk = t.risk
    <3>1. \A f \in D : TsLevels(core, a)[f] >= PyLevels(core, a)[f]
      BY <1>5, <1>8, <2>1, <2>5, PlainIs
    <3>2. t.risk >= r.risk
      BY <1>9, <2>2, <2>3, <3>1, TellsMore
    <3>3. r.risk \in Int /\ t.risk \in Int
      BY <1>9, <2>2 DEF Tells
    <3>. QED  BY <2>4, <3>2, <3>3
  <2>. QED  BY <2>4, <2>5
<1>. QED  BY <1>2, <1>3, <1>4, <1>6, <1>7, <1>11, <1>12 DEF DriftSoundFor

(* What is compared are payloads that are tried.                          *)
ComparedInv ==
  \A c \in compared : c.declared \in Declared /\ c.actual \in Actual

(* For any payloads, in whatever order their fields come: what main.py lets*)
(* through is harmless, and where it and shadow_firewall.ts differ is just *)
(* where DriftSound says they do.                                          *)
THEOREM DriftSoundAlways == DriftSpec => []DriftSound
<1>1. DriftInit => ComparedInv
  BY DEF DriftInit, ComparedInv
<1>2. ComparedInv /\ [DriftNext]_compared => ComparedInv'
  BY DEF ComparedInv, DriftNext
<1>3. ComparedInv => DriftSound
  <2>1. SUFFICES ASSUME ComparedInv, NEW c \in compared,
                        NEW p, p \in SetToSeqs(DOMAIN c.declared \cup DOMAIN c.actual),
                        NEW q, q \in SetToSeqs(DOMAIN c.declared \cup DOMAIN c.actual)
                 PROVE  DriftSoundFor(c.declared, c.actual, p, q)
    BY DEF DriftSound
  <2>2. PICK d : d = c.declared
    OBVIOUS
  <2>3. PICK a : a = c.actual
    OBVIOUS
  <2>4. IsPayload(d) /\ IsPayload(a)
    <3>1. d \in Declared \cup Actual /\ a \in Declared \cup Actual
      BY <2>1, <2>2, <2>3 DEF ComparedInv
    <3>. QED  BY <3>1, DriftAssumption DEF IsPayload
  <2>. QED  BY <2>1, <2>2, <2>3, <2>4, SoundFor
<1>. QED  BY <1>1, <1>2, <1>3, PTL DEF DriftSpec

-----------------------------------------------------------------------------
(* Answers from the graph.                                                 *)

Ends(e) == {e.from, e.to}

(* A graph whose edges lead from nodes to nodes.                           *)
IsContext(g) == AList(g.edges) /\ \A e \in Held(g.edges) : Ends(e) \subseteq DOMAIN g.nodes

(* What a query makes of its matches.                                      *)
Connected(found, g, matches) ==
  /\ AList(found.edges)
  /\ found.nodes = matches \cup UNION {Ends(e) : e \in Held(found.edges)}
  /\ \A e \in Held(g.edges) : Ends(e) \cap matches # {} => e \in Held(found.edges)

(* The same after some of the edges.                                       *)
ConnectedUpTo(found, g, matches, n) ==
  /\ found.edges \in Seq(Held(g.edges))
  /\ found.nodes = matches \cup UNION {Ends(e) : e \in Held(found.edges)}
  /\ \A i \in 1 .. n : Ends(g.edges[i]) \cap matches # {} => g.edges[i] \in Held(found.edges)

ExpandTurn(g, s, e) ==
  IF {e.from, e.to} \cap s.nodes = {} THEN s
  ELSE [nodes |-> s.nodes \cup ({e.from, e.to} \cap DOMAIN g.nodes), edges |-> Append(s.edges, e)]

(* Another edge.                                                           *)
LEMMA ExpandTurns ==
  ASSUME NEW g, IsContext(g), NEW matches, NEW n \in Nat, n + 1 <= Len(g.edges),
         NEW s, ConnectedUpTo(s, g, matches, n)
  PROVE  ConnectedUpTo(ExpandTurn(g, s, g.edges[n + 1]), g, matches, n + 1)
<1>1. PICK e : e = g.edges[n + 1]
  OBVIOUS
<1>2. PICK W : W = Held(g.edges)
  OBVIOUS
<1>3. e \in W /\ Ends(e) \subseteq DOMAIN g.nodes
  <2>1. Len(g.edges) \in Nat
    BY DEF IsContext, AList
  <2>2. n + 1 \in 1 .. Len(g.edges)
    BY <2>1
  <2>. QED  BY <1>1, <1>2, <2>2 DEF IsContext, Held
<1>4. /\ s.edges \in Seq(W)
      /\ s.nodes = matches \cup UNION {Ends(d) : d \in Held(s.edges)}
      /\ \A i \in 1 .. n : Ends(g.edges[i]) \cap matches # {} => g.edges[i] \in Held(s.edges)
  BY <1>2 DEF ConnectedUpTo
<1>5. \A i \in 1 .. n + 1 : i \in 1 .. n \/ i = n + 1
  OBVIOUS
<1>6. CASE Ends(e) \cap s.nodes = {}
  <2>1. ExpandTurn(g, s, e) = s
    BY <1>6 DEF ExpandTurn, Ends
  <2>2. Ends(e) \cap matches = {}
    BY <1>4, <1>6
  <2>3. \A i \in 1 .. n + 1 : Ends(g.edges[i]) \cap matches # {} => g.edges[i] \in Held(s.edges)
    BY <1>1, <1>4, <1>5, <2>2
  <2>. QED  BY <1>1, <1>2, <1>4, <2>1, <2>3 DEF ConnectedUpTo
<1>7. CASE Ends(e) \cap s.nodes # {}
  <2>1. PICK t : t = ExpandTurn(g, s, e)
    OBVIOUS
  <2>2. t = [nodes |-> s.nodes \cup (Ends(e) \cap DOMAIN g.nodes), edges |-> Append(s.edges, e)]
    BY <1>7, <2>1 DEF ExpandTurn, Ends
  <2>3. t.nodes = s.nodes \cup Ends(e) /\ t.edges = Append(s.edges, e)
    BY <1>3, <2>2
  <2>4. AList(s.edges)
    BY <1>4 DEF AList
  <2>5. Held(t.edges) = Held(s.edges) \cup {e}
    BY <2>3, <2>4, HeldAppend
  <2>6. t.edges \in Seq(W)
    BY <1>3, <1>4, <2>3
  <2>7. t.nodes = matches \cup UNION {Ends(d) : d \in Held(t.edges)}
    BY <1>4, <2>3, <2>5
  <2>8. \A i \in 1 .. n + 1 : Ends(g.edges[i]) \cap matches # {} => g.edges[i] \in Held(t.edges)
    BY <1>1, <1>4, <1>5, <2>5
  <2>. QED  BY <1>1, <1>2, <2>1, <2>6, <2>7, <2>8 DEF ConnectedUpTo
<1>. QED  BY <1>6, <1>7

LEMMA ExpandedIs ==
  ASSUME NEW g, IsContext(g), NEW matches
  PROVE  Connected(Expanded(g, matches), g, matches)
<1>. DEFINE m == Len(g.edges)
            base == [nodes |-> matches, edges |-> <<>>]
            W == Held(g.edges)
            U == matches \cup DOMAIN g.nodes
            S == [nodes : SUBSET U, edges : Seq(W)]
            step == [i \in 1 .. m |-> [s \in S |-> ExpandTurn(g, s, g.edges[i])]]
            found[i \in 0 .. m] == IF i = 0 THEN base ELSE ExpandTurn(g, found[i - 1], g.edges[i])
<1>1. m \in Nat /\ \A i \in 1 .. m : g.edges[i] \in W
  BY DEF IsContext, AList, Held
<1>2. Expanded(g, matches) = found[m]
  BY DEF Expanded, ExpandTurn
<1>3. base \in S
  OBVIOUS
<1>4. ASSUME NEW i \in 1 .. m, NEW s \in S
      PROVE  ExpandTurn(g, s, g.edges[i]) \in S
  <2>1. PICK e : e = g.edges[i]
    OBVIOUS
  <2>2. e \in W /\ s.edges \in Seq(W) /\ s.nodes \in SUBSET U
    BY <1>1, <2>1
  <2>3. Append(s.edges, e) \in Seq(W) /\ s.nodes \cup ({e.from, e.to} \cap DOMAIN g.nodes) \in SUBSET U
    <3>. HIDE DEF W
    <3>. QED  BY <2>2
  <2>. HIDE DEF W, U
  <2>. QED  BY <2>1, <2>3 DEF ExpandTurn
<1>. HIDE DEF m, S, base
<1>5. IsLoop(m, S, base, step)
  BY <1>1, <1>3, <1>4 DEF IsLoop
<1>6. PICK f : IsRunOf(f, m, S, base, step)
  <2>. HIDE DEF step
  <2>. QED  BY <1>5, LoopExists
<1>7. f = [i \in 0 .. m |-> IF i = 0 THEN base ELSE ExpandTurn(g, f[i - 1], g.edges[i])]
  <2>1. f = [i \in 0 .. m |-> f[i]] /\ f[0] = base
    BY <1>6 DEF IsRunOf
  <2>2. ASSUME NEW i \in 0 .. m, i # 0
        PROVE  f[i] = ExpandTurn(g, f[i - 1], g.edges[i])
    <3>1. i \in 1 .. m
      BY <1>1, <2>2
    <3>2. f[i - 1] \in S /\ f[i] = step[i][f[i - 1]]
      <4>. HIDE DEF step
      <4>. QED  BY <1>1, <1>6, <3>1 DEF IsRunOf
    <3>. QED  BY <3>1, <3>2
  <2>. QED  BY <2>1, <2>2
<1>8. found = [i \in 0 .. m |-> IF i = 0 THEN base ELSE ExpandTurn(g, found[i - 1], g.edges[i])]
  BY <1>7, Zenon
<1>. HIDE DEF found
<1>9. found[0] = base /\ \A i \in 1 .. m : found[i] = ExpandTurn(g, found[i - 1], g.edges[i])
  BY <1>1, <1>8
<1>10. PICK T : T = {i \in 0 .. m : ConnectedUpTo(found[i], g, matches, i)}
  OBVIOUS
<1>11. 0 \in T
  <2>1. found[0].nodes = matches /\ found[0].edges = <<>>
    BY <1>9 DEF base
  <2>2. Held(found[0].edges) = {} /\ found[0].edges \in Seq(W)
    BY <2>1, HeldNothing
  <2>3. ConnectedUpTo(found[0], g, matches, 0)
    BY <2>1, <2>2 DEF ConnectedUpTo
  <2>. QED  BY <1>1, <1>10, <2>3
<1>12. ASSUME NEW i \in 0 .. m - 1, i \in T
       PROVE  i + 1 \in T
  <2>1. i + 1 \in 1 .. m /\ (i + 1) - 1 = i /\ i + 1 \in 0 .. m /\ i \in Nat
    BY <1>1, NextPlace
  <2>2. ConnectedUpTo(found[i], g, matches, i)
    BY <1>10, <1>12
  <2>3. i + 1 <= Len(g.edges)
    BY <2>1 DEF m
  <2>4. ConnectedUpTo(ExpandTurn(g, found[i], g.edges[i + 1]), g, matches, i + 1)
    BY <2>1, <2>2, <2>3, ExpandTurns
  <2>5. found[i + 1] = ExpandTurn(g, found[i], g.edges[i + 1])
    BY <1>9, <2>1
  <2>. QED  BY <1>10, <2>1, <2>4, <2>5
<1>13. 0 .. m \subseteq T
  BY <1>1, <1>11, <1>12, UpToInduct
<1>14. m \in T
  BY <1>1, <1>13
<1>15. PICK s : s = Expanded(g, matches)
  OBVIOUS
<1>16. ConnectedUpTo(s, g, matches, m)
  BY <1>2, <1>10, <1>14, <1>15
<1>17. Connected(s, g, matches)
  BY <1>16 DEF ConnectedUpTo, Connected, AList, m, Held
<1>. QED  BY <1>15, <1>17

-----------------------------------------------------------------------------
(* Breadth first searches.                                                 *)

EdgePlaces(g, n) == {i \in 1 .. Len(g.edges) : n \in {g.edges[i].from, g.edges[i].to}}

LEMMA TouchingIs ==
  ASSUME NEW g, AList(g.edges), NEW n
  PROVE  /\ Touching(g, n) \in Seq(Held(g.edges))
         /\ Len(Touching(g, n)) = Cardinality(EdgePlaces(g, n))
         /\ Held(Touching(g, n)) = {e \in Held(g.edges) : n \in Ends(e)}
<1>1. PICK W : W = Held(g.edges)
  OBVIOUS
<1>2. g.edges \in Seq(W) /\ W = {g.edges[i] : i \in 1 .. Len(g.edges)}
  BY <1>1 DEF AList, Held
<1>3. PICK keep : keep = {i \in 1 .. Len(g.edges) : n \in {g.edges[i].from, g.edges[i].to}}
  OBVIOUS
<1>4. PICK p : p = Picked(g.edges, keep)
  OBVIOUS
<1>5. p \in Seq(W) /\ Len(p) = Cardinality(KeptPlaces(g.edges, keep))
      /\ Held(p) = {g.edges[i] : i \in KeptPlaces(g.edges, keep)}
  <2>1. PICK s : s = g.edges
    OBVIOUS
  <2>2. s \in Seq(W)
    BY <1>2, <2>1
  <2>3. /\ Picked(s, keep) \in Seq(W)
        /\ Len(Picked(s, keep)) = Cardinality(KeptPlaces(s, keep))
        /\ Held(Picked(s, keep)) = {s[i] : i \in KeptPlaces(s, keep)}
    BY <2>2, PickedSize
  <2>. QED  BY <1>4, <2>1, <2>3
<1>6. KeptPlaces(g.edges, keep) = EdgePlaces(g, n)
  BY <1>3 DEF KeptPlaces, EdgePlaces
<1>7. Touching(g, n) = p
  BY <1>3, <1>4 DEF Touching
<1>8. {g.edges[i] : i \in EdgePlaces(g, n)} = {e \in W : n \in Ends(e)}
  BY <1>2 DEF EdgePlaces, Ends
<1>. QED  BY <1>1, <1>5, <1>6, <1>7, <1>8

(* The ends of edges, with the places of the edges, that are in a set.     *)
Touches(g, Q) ==
  {<<g.edges[i].from, i>> : i \in {j \in 1 .. Len(g.edges) : g.edges[j].from \in Q}}
    \cup {<<g.edges[i].to, i>> : i \in {j \in 1 .. Len(g.edges) : g.edges[j].to \in Q}}

LEMMA PairedSize ==
  ASSUME NEW D, IsFiniteSet(D), NEW h
  PROVE  IsFiniteSet({<<h[i], i>> : i \in D}) /\ Cardinality({<<h[i], i>> : i \in D}) = Cardinality(D)
<1>1. PICK f : f = [i \in D |-> <<h[i], i>>]
  OBVIOUS
<1>2. PICK P : P = {<<h[i], i>> : i \in D}
  OBVIOUS
<1>3. f \in Surjection(D, P)
  BY <1>1, <1>2 DEF Surjection
<1>4. f \in Injection(D, P)
  BY <1>1, <1>2 DEF Injection, IsInjective
<1>5. IsFiniteSet(P) /\ Cardinality(P) = Cardinality(D)
  BY <1>3, <1>4, FS_Surjection
<1>. QED  BY <1>2, <1>5

LEMMA TouchesSize ==
  ASSUME NEW g, AList(g.edges), NEW Q
  PROVE  LET from == {i \in 1 .. Len(g.edges) : g.edges[i].from \in Q}
             to == {i \in 1 .. Len(g.edges) : g.edges[i].to \in Q}
             loops == {i \in from : g.edges[i].from = g.edges[i].to}
         IN  /\ IsFiniteSet(Touches(g, Q))
             /\ Cardinality(Touches(g, Q)) = Cardinality(from) + Cardinality(to) - Cardinality(loops)
             /\ Cardinality(from) \in 0 .. Len(g.edges) /\ Cardinality(to) \in 0 .. Len(g.edges)
             /\ Cardinality(loops) \in Nat
<1>1. PICK m : m = Len(g.edges)
  OBVIOUS
<1>2. m \in Nat
  BY <1>1 DEF AList
<1>3. PICK from : from = {i \in 1 .. m : g.edges[i].from \in Q}
  OBVIOUS
<1>4. PICK to : to = {i \in 1 .. m : g.edges[i].to \in Q}
  OBVIOUS
<1>5. PICK loops : loops = {i \in from : g.edges[i].from = g.edges[i].to}
  OBVIOUS
<1>6. /\ from \subseteq 1 .. m /\ to \subseteq 1 .. m /\ loops \subseteq 1 .. m
      /\ IsFiniteSet(from) /\ Cardinality(from) \in Nat /\ Cardinality(from) <= m
      /\ IsFiniteSet(to) /\ Cardinality(to) \in Nat /\ Cardinality(to) <= m
      /\ IsFiniteSet(loops) /\ Cardinality(loops) \in Nat
  <2>1. from \subseteq 1 .. m /\ to \subseteq 1 .. m /\ loops \subseteq 1 .. m
    BY <1>3, <1>4, <1>5
  <2>. QED  BY <1>2, <2>1, PartOf1
<1>7. PICK h : h = [i \in 1 .. m |-> g.edges[i].from]
  OBVIOUS
<1>8. PICK k : k = [i \in 1 .. m |-> g.edges[i].to]
  OBVIOUS
<1>9. PICK A : A = {<<h[i], i>> : i \in from}
  OBVIOUS
<1>10. PICK B : B = {<<k[i], i>> : i \in to}
  OBVIOUS
<1>11. Touches(g, Q) = A \cup B
  <2>1. A = {<<g.edges[i].from, i>> : i \in from}
    BY <1>6, <1>7, <1>9
  <2>2. B = {<<g.edges[i].to, i>> : i \in to}
    BY <1>6, <1>8, <1>10
  <2>. QED  BY <1>1, <1>3, <1>4, <2>1, <2>2 DEF Touches
<1>12. A \cap B = {<<h[i], i>> : i \in loops}
  <2>1. \A i \in 1 .. m : i \in loops <=> i \in from /\ i \in to /\ h[i] = k[i]
    BY <1>3, <1>4, <1>5, <1>7, <1>8
  <2>. QED  BY <1>6, <1>9, <1>10, <2>1
<1>13. IsFiniteSet(A) /\ Cardinality(A) = Cardinality(from)
  BY <1>6, <1>9, PairedSize
<1>14. IsFiniteSet(B) /\ Cardinality(B) = Cardinality(to)
  BY <1>6, <1>10, PairedSize
<1>15. Cardinality(A \cap B) = Cardinality(loops)
  BY <1>6, <1>12, PairedSize
<1>16. IsFiniteSet(A \cup B) /\ Cardinality(A \cup B) = Cardinality(A) + Cardinality(B) - Cardinality(A \cap B)
  BY <1>13, <1>14, FS_Union
<1>17. Cardinality(from) \in 0 .. m /\ Cardinality(to) \in 0 .. m
  BY <1>2, <1>6
<1>. QED  BY <1>1, <1>3, <1>4, <1>5, <1>6, <1>11, <1>13, <1>14, <1>15, <1>16, <1>17

(* A node more.                                                            *)
LEMMA TouchesMore ==
  ASSUME NEW g, AList(g.edges), NEW Q, NEW n, n \notin Q
  PROVE  Cardinality(Touches(g, Q \cup {n})) = Cardinality(Touches(g, Q)) + Cardinality(EdgePlaces(g, n))
<1>1. PICK m : m = Len(g.edges)
  OBVIOUS
<1>2. m \in Nat
  BY <1>1 DEF AList
<1>3. PICK D : D = EdgePlaces(g, n)
  OBVIOUS
<1>4. D \subseteq 1 .. m /\ \A i \in 1 .. m : i \in D <=> n = g.edges[i].from \/ n = g.edges[i].to
  BY <1>1, <1>3 DEF EdgePlaces
<1>5. IsFiniteSet(D)
  BY <1>2, <1>4, PartOf1
<1>6. PICK h : h = [i \in D |-> n]
  OBVIOUS
<1>7. PICK N : N = {<<h[i], i>> : i \in D}
  OBVIOUS
<1>8. IsFiniteSet(N) /\ Cardinality(N) = Cardinality(D)
  BY <1>5, <1>7, PairedSize
<1>9. N = {<<n, i>> : i \in D}
  BY <1>6, <1>7
<1>10. PICK a : a = [i \in 1 .. m |-> g.edges[i].from]
  OBVIOUS
<1>17. PICK b : b = [i \in 1 .. m |-> g.edges[i].to]
  OBVIOUS
<1>18. ASSUME NEW R, NEW p
       PROVE  p \in Touches(g, R) <=> \E i \in 1 .. m : \E x \in {a[i], b[i]} : x \in R /\ p = <<x, i>>
  <2>1. Touches(g, R) = {<<a[i], i>> : i \in {j \in 1 .. m : a[j] \in R}}
                          \cup {<<b[i], i>> : i \in {j \in 1 .. m : b[j] \in R}}
    BY <1>1, <1>10, <1>17 DEF Touches
  <2>2. p \in {<<a[i], i>> : i \in {j \in 1 .. m : a[j] \in R}}
          <=> \E i \in 1 .. m : a[i] \in R /\ p = <<a[i], i>>
    OBVIOUS
  <2>3. p \in {<<b[i], i>> : i \in {j \in 1 .. m : b[j] \in R}}
          <=> \E i \in 1 .. m : b[i] \in R /\ p = <<b[i], i>>
    OBVIOUS
  <2>. QED  BY <2>1, <2>2, <2>3
<1>19. \A i \in 1 .. m : i \in D <=> n = a[i] \/ n = b[i]
  BY <1>4, <1>10, <1>17
<1>11. Touches(g, Q \cup {n}) = Touches(g, Q) \cup N
  <2>1. ASSUME NEW p, p \in Touches(g, Q \cup {n})
        PROVE  p \in Touches(g, Q) \cup N
    <3>1. PICK i \in 1 .. m : \E x \in {a[i], b[i]} : x \in Q \cup {n} /\ p = <<x, i>>
      BY <1>18, <2>1
    <3>2. PICK x \in {a[i], b[i]} : x \in Q \cup {n} /\ p = <<x, i>>
      BY <3>1
    <3>3. CASE x \in Q
      BY <1>18, <3>2, <3>3
    <3>4. CASE x = n
      BY <1>9, <1>19, <3>2, <3>4
    <3>. QED  BY <3>2, <3>3, <3>4
  <2>2. ASSUME NEW p, p \in Touches(g, Q)
        PROVE  p \in Touches(g, Q \cup {n})
    <3>1. PICK i \in 1 .. m : \E x \in {a[i], b[i]} : x \in Q /\ p = <<x, i>>
      BY <1>18, <2>2
    <3>2. \E x \in {a[i], b[i]} : x \in Q \cup {n} /\ p = <<x, i>>
      BY <3>1
    <3>. QED  BY <1>18, <3>2
  <2>3. ASSUME NEW p, p \in N
        PROVE  p \in Touches(g, Q \cup {n})
    <3>1. PICK i \in D : p = <<n, i>>
      BY <1>9, <2>3
    <3>2. i \in 1 .. m /\ n \in {a[i], b[i]} /\ n \in Q \cup {n}
      BY <1>4, <1>19
    <3>. QED  BY <1>18, <3>1, <3>2
  <2>. QED  BY <2>1, <2>2, <2>3
<1>12. Touches(g, Q) \cap N = {}
  <2>1. ASSUME NEW p, p \in Touches(g, Q)
        PROVE  p[1] \in Q
    <3>1. PICK i \in 1 .. m : \E x \in {a[i], b[i]} : x \in Q /\ p = <<x, i>>
      BY <1>18, <2>1
    <3>. QED  BY <3>1
  <2>2. \A p \in N : p[1] = n
    BY <1>9
  <2>. QED  BY <2>1, <2>2
<1>13. IsFiniteSet(Touches(g, Q))
  BY TouchesSize
<1>14. Cardinality(Touches(g, Q) \cup N)
         = Cardinality(Touches(g, Q)) + Cardinality(N) - Cardinality(Touches(g, Q) \cap N)
  BY <1>8, <1>13, FS_Union
<1>15. Cardinality(Touches(g, Q) \cap N) = 0
  BY <1>12, FS_EmptySet
<1>16. Cardinality(Touches(g, Q)) \in Nat /\ Cardinality(N) \in Nat
  BY <1>8, <1>13, FS_CardinalityType
<1>20. PICK c : c = Cardinality(Touches(g, Q))
  OBVIOUS
<1>21. PICK d : d = Cardinality(N)
  OBVIOUS
<1>22. Cardinality(Touches(g, Q) \cup N) = c + d - 0 /\ c \in Nat /\ d \in Nat
  BY <1>14, <1>15, <1>16, <1>20, <1>21
<1>23. c + d - 0 = c + d
  BY <1>22
<1>24. Cardinality(Touches(g, Q \cup {n})) = c + d
  BY <1>11, <1>22, <1>23
<1>25. d = Cardinality(EdgePlaces(g, n))
  BY <1>3, <1>8, <1>21
<1>. QED  BY <1>20, <1>24, <1>25

LEMMA HeadAndTail ==
  ASSUME NEW S, NEW q, q \in Seq(S), q # <<>>
  PROVE  /\ Head(q) \in S /\ Tail(q) \in Seq(S) /\ Len(q) \in Nat /\ Len(Tail(q)) = Len(q) - 1
         /\ Held(q) = {Head(q)} \cup Held(Tail(q))
<1>1. PICK t : t = Tail(q)
  OBVIOUS
<1>2. PICK n : n = Len(q)
  OBVIOUS
<1>3. n \in Nat /\ n # 0
  BY <1>2
<1>4. t \in Seq(S) /\ Len(t) = n - 1 /\ Head(q) = q[1] /\ q[1] \in S
  BY <1>1, <1>2, <1>3
<1>5. \A i \in 1 .. n - 1 : t[i] = q[i + 1]
  BY <1>1, <1>2, <1>3
<1>6. \A i \in 1 .. n : i = 1 \/ (i - 1 \in 1 .. n - 1 /\ (i - 1) + 1 = i)
  BY <1>3
<1>7. \A i \in 1 .. n - 1 : i + 1 \in 1 .. n
  BY <1>3
<1>8. Held(q) = {q[1]} \cup Held(t)
  <2>1. Held(q) = {q[i] : i \in 1 .. n} /\ Held(t) = {t[i] : i \in 1 .. n - 1}
    BY <1>2, <1>4 DEF Held
  <2>2. 1 \in 1 .. n
    BY <1>3
  <2>. QED  BY <1>5, <1>6, <1>7, <2>1, <2>2
<1>. QED  BY <1>1, <1>2, <1>3, <1>4, <1>8

(* What a turn of the search queues.                                       *)
Queued(g, n, Q) ==
  LET edges == Touching(g, n)
      new == Picked(edges, {i \in 1 .. Len(edges) : Neighbour(edges[i], n) \notin Q})
  IN  [i \in 1 .. Len(new) |-> Neighbour(new[i], n)]

Around(g, n) == {Neighbour(e, n) : e \in {d \in Held(g.edges) : n \in Ends(d)}}

LEMMA QueuedIs ==
  ASSUME NEW g, AList(g.edges), NEW n, NEW Q
  PROVE  /\ Queued(g, n, Q) \in Seq(Around(g, n)) /\ Len(Queued(g, n, Q)) \in Nat
         /\ Len(Queued(g, n, Q)) <= Len(Touching(g, n))
         /\ Held(Queued(g, n, Q)) = Around(g, n) \ Q
<1>1. PICK W : W = Held(g.edges)
  OBVIOUS
<1>2. PICK touch : touch = Touching(g, n)
  OBVIOUS
<1>3. touch \in Seq(W) /\ Held(touch) = {e \in W : n \in Ends(e)}
  BY <1>1, <1>2, TouchingIs
<1>4. PICK keep : keep = {i \in 1 .. Len(touch) : Neighbour(touch[i], n) \notin Q}
  OBVIOUS
<1>5. PICK new : new = Picked(touch, keep)
  OBVIOUS
<1>6. /\ Picked(touch, keep) \in Seq(W)
      /\ Held(Picked(touch, keep)) = {touch[i] : i \in KeptPlaces(touch, keep)}
  BY <1>3, PickedSize
<1>7. Len(Picked(touch, keep)) \in Nat /\ Len(Picked(touch, keep)) <= Len(touch)
  BY <1>3, PickedShorter
<1>8. KeptPlaces(touch, keep) = keep
  BY <1>4 DEF KeptPlaces
<1>9. Held(new) = {e \in Held(touch) : Neighbour(e, n) \notin Q}
  BY <1>4, <1>5, <1>6, <1>8 DEF Held
<1>10. PICK l : l = Len(new)
  OBVIOUS
<1>11. PICK q : q = [i \in 1 .. l |-> Neighbour(new[i], n)]
  OBVIOUS
<1>12. Queued(g, n, Q) = q
  BY <1>2, <1>4, <1>5, <1>10, <1>11 DEF Queued
<1>13. l \in Nat /\ l <= Len(touch)
  BY <1>5, <1>7, <1>10
<1>14. \A i \in 1 .. l : new[i] \in Held(new)
  BY <1>10 DEF Held
<1>15. \A i \in 1 .. l : q[i] \in Around(g, n)
  <2>1. \A i \in 1 .. l : new[i] \in W /\ n \in Ends(new[i])
    BY <1>3, <1>9, <1>14
  <2>. QED  BY <1>1, <1>11, <2>1 DEF Around
<1>16. q \in Seq(Around(g, n)) /\ Len(q) = l
  BY <1>11, <1>13, <1>15
<1>17. Held(q) = {Neighbour(e, n) : e \in Held(new)}
  BY <1>10, <1>11, <1>16 DEF Held
<1>18. Held(q) = Around(g, n) \ Q
  BY <1>1, <1>3, <1>9, <1>17 DEF Around
<1>. QED  BY <1>2, <1>12, <1>13, <1>16, <1>18

SearchNodes(g, root) == {root} \cup UNION {Ends(e) : e \in Held(g.edges)}

(* What is visited is found with its edges, what they lead to waits, and   *)
(* no turn is for nothing.                                                 *)
Searched(g, root, s, turns) ==
  /\ s.queue \in Seq(SearchNodes(g, root)) /\ s.edges \in Seq(Held(g.edges))
  /\ s.visited \subseteq SearchNodes(g, root)
  /\ root \in s.visited \cup Held(s.queue)
  /\ \A e \in Held(g.edges) : Ends(e) \cap s.visited # {} => Ends(e) \subseteq s.visited \cup Held(s.queue)
  /\ Held(s.edges) = {e \in Held(g.edges) : Ends(e) \cap s.visited # {}}
  /\ Len(s.edges) = Cardinality(Touches(g, s.visited))
  /\ s.queue = <<>> \/ turns + Len(s.queue) <= 1 + Len(s.edges)

LEMMA VisitIs ==
  ASSUME NEW g, NEW s
  PROVE  Visit(g, s) = IF Head(s.queue) \in s.visited THEN [s EXCEPT !.queue = Tail(@)]
                       ELSE [queue |-> Tail(s.queue) \o Queued(g, Head(s.queue), s.visited \cup {Head(s.queue)}),
                             visited |-> s.visited \cup {Head(s.queue)},
                             edges |-> s.edges \o Touching(g, Head(s.queue))]
  BY DEF Visit, Queued

IsSearch(s) == s = [queue |-> s.queue, visited |-> s.visited, edges |-> s.edges]

LEMMA VisitSearches ==
  ASSUME NEW g, AList(g.edges), NEW root, NEW s, IsSearch(s), NEW turns \in Nat,
         Searched(g, root, s, turns), s.queue # <<>>
  PROVE  IsSearch(Visit(g, s)) /\ Searched(g, root, Visit(g, s), turns + 1)
<1>1. PICK n : n = Head(s.queue)
  OBVIOUS
<1>2. PICK t : t = Visit(g, s)
  OBVIOUS
<1>3. PICK W : W = Held(g.edges)
  OBVIOUS
<1>4. PICK V : V = SearchNodes(g, root)
  OBVIOUS
<1>5. PICK rest : rest = Tail(s.queue)
  OBVIOUS
<1>6. /\ s.queue \in Seq(V) /\ s.edges \in Seq(W) /\ s.visited \subseteq V
      /\ root \in s.visited \cup Held(s.queue)
      /\ \A e \in W : Ends(e) \cap s.visited # {} => Ends(e) \subseteq s.visited \cup Held(s.queue)
      /\ Held(s.edges) = {e \in W : Ends(e) \cap s.visited # {}}
      /\ Len(s.edges) = Cardinality(Touches(g, s.visited))
      /\ turns + Len(s.queue) <= 1 + Len(s.edges)
  BY <1>3, <1>4 DEF Searched
<1>7. /\ n \in V /\ rest \in Seq(V) /\ Len(s.queue) \in Nat /\ Len(rest) = Len(s.queue) - 1
      /\ Held(s.queue) = {n} \cup Held(rest)
  <2>1. PICK q : q = s.queue
    OBVIOUS
  <2>2. q \in Seq(V) /\ q # <<>>
    BY <1>6, <2>1
  <2>. QED  BY <1>1, <1>5, <2>1, <2>2, HeadAndTail
<1>8. Len(s.edges) \in Nat /\ Len(rest) \in Nat
  BY <1>6, <1>7
<1>11. PICK a : a = Len(s.queue)
  OBVIOUS
<1>12. PICK b : b = Len(rest)
  OBVIOUS
<1>13. PICK c : c = Len(s.edges)
  OBVIOUS
<1>14. a \in Nat /\ b = a - 1 /\ c \in Nat /\ turns + a <= 1 + c
  BY <1>6, <1>7, <1>8, <1>11, <1>12, <1>13
<1>9. CASE n \in s.visited
  <2>1. t = [queue |-> rest, visited |-> s.visited, edges |-> s.edges]
    <3>1. t = [s EXCEPT !.queue = rest]
      BY <1>1, <1>2, <1>5, <1>9, VisitIs
    <3>. QED  BY <3>1 DEF IsSearch
  <2>2. t.queue = rest /\ t.visited = s.visited /\ t.edges = s.edges /\ IsSearch(t)
    BY <2>1 DEF IsSearch
  <2>3. s.visited \cup Held(rest) = s.visited \cup Held(s.queue)
    BY <1>7, <1>9
  <2>4. (turns + 1) + Len(rest) <= 1 + Len(s.edges)
    <3>1. (turns + 1) + b <= 1 + c
      BY <1>14
    <3>. QED  BY <1>12, <1>13, <3>1, Zenon
  <2>5. Searched(g, root, t, turns + 1)
    BY <1>3, <1>4, <1>6, <1>7, <2>2, <2>3, <2>4 DEF Searched
  <2>. QED  BY <1>2, <2>2, <2>5
<1>10. CASE n \notin s.visited
  <2>1. PICK Q : Q = s.visited \cup {n}
    OBVIOUS
  <2>2. PICK more : more = Queued(g, n, Q)
    OBVIOUS
  <2>3. PICK touch : touch = Touching(g, n)
    OBVIOUS
  <2>4. t = [queue |-> rest \o more, visited |-> Q, edges |-> s.edges \o touch]
    BY <1>1, <1>2, <1>5, <1>10, <2>1, <2>2, <2>3, VisitIs
  <2>5. t.queue = rest \o more /\ t.visited = Q /\ t.edges = s.edges \o touch /\ IsSearch(t)
    BY <2>4 DEF IsSearch
  <2>6. /\ more \in Seq(Around(g, n)) /\ Len(more) \in Nat /\ Len(more) <= Len(touch)
        /\ Held(more) = Around(g, n) \ Q
    BY <2>2, <2>3, QueuedIs
  <2>7. touch \in Seq(W) /\ Len(touch) = Cardinality(EdgePlaces(g, n)) /\ Held(touch) = {e \in W : n \in Ends(e)}
    BY <1>3, <2>3, TouchingIs
  <2>8. Around(g, n) = {Neighbour(e, n) : e \in {d \in W : n \in Ends(d)}}
    BY <1>3 DEF Around
  <2>9. \A e : n \in Ends(e) => Ends(e) = {n, Neighbour(e, n)}
    BY DEF Ends, Neighbour
  <2>10. \A e \in W : Ends(e) \subseteq V
    BY <1>3, <1>4 DEF SearchNodes
  <2>11. Around(g, n) \subseteq V
    BY <2>8, <2>9, <2>10
  <2>12. more \in Seq(V)
    BY <2>6, <2>11
  <2>13. t.queue \in Seq(V) /\ Len(t.queue) = Len(rest) + Len(more) /\ Held(t.queue) = Held(rest) \cup Held(more)
    <3>1. AList(rest) /\ AList(more)
      BY <1>7, <2>12 DEF AList
    <3>2. Held(rest \o more) = Held(rest) \cup Held(more)
      BY <3>1, HeldJoined
    <3>3. rest \o more \in Seq(V) /\ Len(rest \o more) = Len(rest) + Len(more)
      BY <1>7, <2>12
    <3>. QED  BY <2>5, <3>2, <3>3
  <2>14. t.edges \in Seq(W) /\ Len(t.edges) = Len(s.edges) + Len(touch) /\ Held(t.edges) = Held(s.edges) \cup Held(touch)
    <3>1. AList(s.edges) /\ AList(touch)
      BY <1>6, <2>7 DEF AList
    <3>2. Held(s.edges \o touch) = Held(s.edges) \cup Held(touch)
      BY <3>1, HeldJoined
    <3>3. PICK u : u = s.edges
      OBVIOUS
    <3>4. u \in Seq(W)
      BY <1>6, <3>3
    <3>5. u \o touch \in Seq(W) /\ Len(u \o touch) = Len(u) + Len(touch)
      BY <2>7, <3>4
    <3>. QED  BY <2>5, <3>2, <3>3, <3>5
  <2>15. t.visited \cup Held(t.queue) = s.visited \cup Held(s.queue) \cup Around(g, n)
    BY <1>7, <2>1, <2>5, <2>6, <2>13
  <2>16. t.visited \subseteq V /\ root \in t.visited \cup Held(t.queue)
    BY <1>6, <1>7, <2>1, <2>5, <2>15
  <2>17. \A e \in W : Ends(e) \cap t.visited # {} => Ends(e) \subseteq t.visited \cup Held(t.queue)
    <3>1. ASSUME NEW e \in W, n \in Ends(e)
          PROVE  Ends(e) \subseteq t.visited \cup Held(t.queue)
      <4>1. Neighbour(e, n) \in Around(g, n)
        BY <2>8, <3>1
      <4>2. n \in t.visited
        BY <2>1, <2>5
      <4>. QED  BY <2>9, <2>15, <3>1, <4>1, <4>2
    <3>2. ASSUME NEW e \in W, Ends(e) \cap s.visited # {}
          PROVE  Ends(e) \subseteq t.visited \cup Held(t.queue)
      BY <1>6, <2>15, <3>2
    <3>. QED  BY <2>1, <2>5, <3>1, <3>2
  <2>18. Held(t.edges) = {e \in W : Ends(e) \cap t.visited # {}}
    BY <1>6, <2>1, <2>5, <2>7, <2>14
  <2>19. Len(t.edges) = Cardinality(Touches(g, t.visited))
    <3>1. Cardinality(Touches(g, s.visited \cup {n}))
            = Cardinality(Touches(g, s.visited)) + Cardinality(EdgePlaces(g, n))
      BY <1>10, TouchesMore
    <3>. QED  BY <1>6, <2>1, <2>5, <2>7, <2>14, <3>1
  <2>20. (turns + 1) + Len(t.queue) <= 1 + Len(t.edges)
    <3>1. Len(touch) \in Nat
      BY <2>7
    <3>2. PICK d : d = Len(more)
      OBVIOUS
    <3>3. PICK f : f = Len(touch)
      OBVIOUS
    <3>4. d \in Nat /\ f \in Nat /\ d <= f
      BY <2>6, <3>1, <3>2, <3>3
    <3>5. Len(t.queue) = b + d /\ Len(t.edges) = c + f
      BY <1>12, <1>13, <2>13, <2>14, <3>2, <3>3
    <3>6. (turns + 1) + (b + d) <= 1 + (c + f)
      BY <1>14, <3>4
    <3>. QED  BY <3>5, <3>6
  <2>21. Searched(g, root, t, turns + 1)
    BY <1>3, <1>4, <2>13, <2>14, <2>16, <2>17, <2>18, <2>19, <2>20 DEF Searched
  <2>. QED  BY <1>2, <2>5, <2>21
<1>. QED  BY <1>9, <1>10

(* A turn of the loop, while something waits.                              *)
SearchTurn(g, s) == IF s.queue = <<>> THEN s ELSE Visit(g, s)

LEMMA SearchTurns ==
  ASSUME NEW g, AList(g.edges), NEW root, NEW s, IsSearch(s), NEW turns \in Nat, Searched(g, root, s, turns)
  PROVE  IsSearch(SearchTurn(g, s)) /\ Searched(g, root, SearchTurn(g, s), turns + 1)
<1>1. CASE s.queue = <<>>
  <2>1. SearchTurn(g, s) = s
    BY <1>1 DEF SearchTurn
  <2>. QED  BY <1>1, <2>1 DEF Searched
<1>2. CASE s.queue # <<>>
  <2>1. SearchTurn(g, s) = Visit(g, s)
    BY <1>2 DEF SearchTurn
  <2>. QED  BY <1>2, <2>1, VisitSearches
<1>. QED  BY <1>1, <1>2

LEMMA SearchStarts ==
  ASSUME NEW g, AList(g.edges), NEW root, NEW s, s = [queue |-> <<root>>, visited |-> {}, edges |-> <<>>]
  PROVE  IsSearch(s) /\ Searched(g, root, s, 0)
<1>1. PICK q : q = <<root>>
  OBVIOUS
<1>2. s.queue = q /\ s.visited = {} /\ s.edges = <<>> /\ IsSearch(s)
  BY <1>1 DEF IsSearch
<1>3. q \in Seq(SearchNodes(g, root)) /\ Len(q) = 1 /\ Held(q) = {root}
  <2>1. q \in Seq(SearchNodes(g, root))
    BY <1>1 DEF SearchNodes
  <2>2. Len(q) = 1 /\ q[1] = root
    BY <1>1
  <2>. QED  BY <2>1, <2>2 DEF Held
<1>4. <<>> \in Seq(Held(g.edges)) /\ Held(<<>>) = {} /\ Len(<<>>) = 0
  BY HeldNothing
<1>5. Touches(g, {}) = {}
  BY DEF Touches
<1>6. Cardinality(Touches(g, {})) = 0
  BY <1>5, FS_EmptySet
<1>. QED  BY <1>2, <1>3, <1>4, <1>6 DEF Searched

(* Every search is the loop, turn by turn.                                 *)
LEMMA SubgraphSearches ==
  ASSUME NEW g, AList(g.edges), NEW root
  PROVE  Searched(g, root, Subgraph(g, root), 2 * Len(g.edges) + 1)
<1>. DEFINE m == 2 * Len(g.edges) + 1
            base == [queue |-> <<root>>, visited |-> {}, edges |-> <<>>]
            V == SearchNodes(g, root)
            W == Held(g.edges)
            R == [queue : Seq(V), visited : SUBSET V, edges : Seq(W)]
            S == {s \in R : \E k \in Nat : Searched(g, root, s, k)}
            step == [i \in 1 .. m |-> [s \in S |-> SearchTurn(g, s)]]
            after[k \in 0 .. m] == IF k = 0 THEN base ELSE SearchTurn(g, after[k - 1])
<1>1. m \in Nat
  <2>1. Len(g.edges) \in Nat
    BY DEF AList
  <2>. QED  BY <2>1
<1>2. Subgraph(g, root) = after[m]
  BY DEF Subgraph, SearchTurn
<1>3. ASSUME NEW s, IsSearch(s), NEW k \in Nat, Searched(g, root, s, k)
      PROVE  s \in S
  <2>1. s.queue \in Seq(V) /\ s.visited \subseteq V /\ s.edges \in Seq(W)
    BY <1>3 DEF Searched
  <2>. HIDE DEF V, W
  <2>2. s \in R
    BY <1>3, <2>1 DEF IsSearch
  <2>. QED  BY <1>3, <2>2
<1>4. ASSUME NEW s \in S
      PROVE  IsSearch(s) /\ \E k \in Nat : Searched(g, root, s, k)
  <2>1. s \in R /\ \E k \in Nat : Searched(g, root, s, k)
    OBVIOUS
  <2>. HIDE DEF V, W
  <2>2. IsSearch(s)
    BY <2>1 DEF IsSearch
  <2>. QED  BY <2>1, <2>2
<1>5. IsSearch(base) /\ Searched(g, root, base, 0)
  BY SearchStarts
<1>. HIDE DEF m, S, base
<1>6. base \in S
  BY <1>3, <1>5
<1>7. ASSUME NEW s \in S
      PROVE  SearchTurn(g, s) \in S
  <2>1. PICK k \in Nat : Searched(g, root, s, k)
    BY <1>4
  <2>2. IsSearch(s)
    BY <1>4
  <2>3. IsSearch(SearchTurn(g, s)) /\ Searched(g, root, SearchTurn(g, s), k + 1) /\ k + 1 \in Nat
    BY <2>1, <2>2, SearchTurns
  <2>. QED  BY <1>3, <2>3
<1>8. IsLoop(m, S, base, step)
  BY <1>1, <1>6, <1>7 DEF IsLoop
<1>9. PICK f : IsRunOf(f, m, S, base, step)
  <2>. HIDE DEF step
  <2>. QED  BY <1>8, LoopExists
<1>10. f = [i \in 0 .. m |-> IF i = 0 THEN base ELSE SearchTurn(g, f[i - 1])]
  <2>1. f = [i \in 0 .. m |-> f[i]] /\ f[0] = base
    BY <1>9 DEF IsRunOf
  <2>2. ASSUME NEW i \in 0 .. m, i # 0
        PROVE  f[i] = SearchTurn(g, f[i - 1])
    <3>1. i \in 1 .. m
      BY <1>1, <2>2
    <3>2. f[i - 1] \in S /\ f[i] = step[i][f[i - 1]]
      <4>. HIDE DEF step
      <4>. QED  BY <1>1, <1>9, <3>1 DEF IsRunOf
    <3>. QED  BY <3>1, <3>2
  <2>. QED  BY <2>1, <2>2
<1>11. after = [i \in 0 .. m |-> IF i = 0 THEN base ELSE SearchTurn(g, after[i - 1])]
  BY <1>10, Zenon
<1>. HIDE DEF after
<1>12. after[0] = base /\ \A i \in 1 .. m : after[i] = SearchTurn(g, after[i - 1])
  BY <1>1, <1>11
<1>13. PICK T : T = {i \in 0 .. m : IsSearch(after[i]) /\ Searched(g, root, after[i], i)}
  OBVIOUS
<1>14. 0 \in T
  BY <1>1, <1>5, <1>12, <1>13
<1>15. ASSUME NEW i \in 0 .. m - 1, i \in T
       PROVE  i + 1 \in T
  <2>1. i + 1 \in 1 .. m /\ (i + 1) - 1 = i /\ i + 1 \in 0 .. m /\ i \in Nat
    BY <1>1, NextPlace
  <2>2. PICK s : s = after[i]
    OBVIOUS
  <2>3. IsSearch(s) /\ Searched(g, root, s, i)
    BY <1>13, <1>15, <2>2
  <2>4. IsSearch(SearchTurn(g, s)) /\ Searched(g, root, SearchTurn(g, s), i + 1)
    BY <2>1, <2>3, SearchTurns
  <2>5. after[i + 1] = SearchTurn(g, s)
    BY <1>12, <2>1, <2>2
  <2>. QED  BY <1>13, <2>1, <2>4, <2>5
<1>16. 0 .. m \subseteq T
  BY <1>1, <1>14, <1>15, UpToInduct
<1>17. m \in T
  BY <1>1, <1>16
<1>18. Searched(g, root, after[m], m)
  BY <1>13, <1>17
<1>. QED  BY <1>2, <1>18 DEF m

(* When nothing waits, everything connected is found, each edge from both  *)
(* of its ends; and the turns are enough.                                  *)
FoundAll(g, root, found) ==
  LET among == {i \in 1 .. Len(g.edges) : g.edges[i].from \in found.visited}
      loops == {i \in among : g.edges[i].from = g.edges[i].to}
  IN  /\ found.queue = <<>> /\ root \in found.visited
      /\ \A i \in 1 .. Len(g.edges) :
           (g.edges[i].from \in found.visited) = (g.edges[i].to \in found.visited)
      /\ Range(found.edges) = {g.edges[i] : i \in among}
      /\ Len(found.edges) = 2 * Cardinality(among) - Cardinality(loops)

LEMMA SubgraphFinds ==
  ASSUME NEW g, AList(g.edges), NEW root
  PROVE  FoundAll(g, root, Subgraph(g, root))
<1>1. PICK s : s = Subgraph(g, root)
  OBVIOUS
<1>2. PICK m : m = Len(g.edges)
  OBVIOUS
<1>3. m \in Nat
  BY <1>2 DEF AList
<1>4. Searched(g, root, s, 2 * m + 1)
  BY <1>1, <1>2, SubgraphSearches
<1>5. PICK from : from = {i \in 1 .. m : g.edges[i].from \in s.visited}
  OBVIOUS
<1>6. PICK to : to = {i \in 1 .. m : g.edges[i].to \in s.visited}
  OBVIOUS
<1>7. PICK loops : loops = {i \in from : g.edges[i].from = g.edges[i].to}
  OBVIOUS
<1>8. PICK l : l = Len(s.edges)
  OBVIOUS
<1>9. PICK x : x = Cardinality(from)
  OBVIOUS
<1>10. PICK y : y = Cardinality(to)
  OBVIOUS
<1>11. PICK z : z = Cardinality(loops)
  OBVIOUS
<1>12. l = x + y - z /\ x \in 0 .. m /\ y \in 0 .. m /\ z \in Nat
  <2>1. Cardinality(Touches(g, s.visited)) = x + y - z /\ x \in 0 .. m /\ y \in 0 .. m /\ z \in Nat
    BY <1>2, <1>5, <1>6, <1>7, <1>9, <1>10, <1>11, TouchesSize
  <2>. QED  BY <1>4, <1>8, <2>1 DEF Searched
<1>13. s.queue = <<>>
  <2>1. PICK q : q = s.queue
    OBVIOUS
  <2>2. q \in Seq(SearchNodes(g, root)) /\ (q = <<>> \/ (2 * m + 1) + Len(q) <= 1 + l)
    BY <1>4, <1>8, <2>1 DEF Searched
  <2>3. Len(q) \in Nat /\ (Len(q) = 0 => q = <<>>)
    BY <2>2
  <2>4. PICK d : d = Len(q)
    OBVIOUS
  <2>5. ~((2 * m + 1) + d <= 1 + l) \/ d = 0
    BY <1>3, <1>12, <2>3, <2>4
  <2>. QED  BY <2>1, <2>2, <2>3, <2>4, <2>5
<1>14. /\ root \in s.visited
       /\ \A e \in Held(g.edges) : Ends(e) \cap s.visited # {} => Ends(e) \subseteq s.visited
       /\ Held(s.edges) = {e \in Held(g.edges) : Ends(e) \cap s.visited # {}}
       /\ s.edges \in Seq(Held(g.edges))
  <2>1. Held(<<>>) = {}
    BY HeldNothing
  <2>. QED  BY <1>4, <1>13, <2>1 DEF Searched
<1>15. \A i \in 1 .. m : (g.edges[i].from \in s.visited) = (g.edges[i].to \in s.visited)
  <2>1. \A i \in 1 .. m : g.edges[i] \in Held(g.edges)
    BY <1>2 DEF Held
  <2>. QED  BY <1>14, <2>1 DEF Ends
<1>16. from = to
  BY <1>5, <1>6, <1>15
<1>17. l = 2 * x - z
  BY <1>9, <1>10, <1>12, <1>16
<1>18. Range(s.edges) = Held(s.edges)
  <2>1. PICK p : p = s.edges
    OBVIOUS
  <2>2. DOMAIN p = 1 .. Len(p)
    BY <1>14, <2>1
  <2>. QED  BY <2>1, <2>2 DEF Range, Held
<1>19. Held(s.edges) = {g.edges[i] : i \in from}
  <2>1. Held(g.edges) = {g.edges[i] : i \in 1 .. m}
    BY <1>2 DEF Held
  <2>. QED  BY <1>5, <1>14, <1>15, <2>1 DEF Ends
<1>20. /\ from = {i \in 1 .. Len(g.edges) : g.edges[i].from \in s.visited}
       /\ loops = {i \in from : g.edges[i].from = g.edges[i].to}
  BY <1>2, <1>5, <1>7
<1>21. FoundAll(g, root, s)
  BY <1>2, <1>8, <1>9, <1>11, <1>13, <1>14, <1>15, <1>17, <1>18, <1>19, <1>20 DEF FoundAll
<1>. QED  BY <1>1, <1>21

-----------------------------------------------------------------------------
(* Precedents.                                                             *)

(* What is said of an entry is about an amount of money, as is what is     *)
(* asked for.                                                              *)
IsAsked(wanted) == wanted.min_amount \in Int /\ wanted.max_amount \in Int /\ wanted.limit \in Nat

LEMMA ConfidenceType ==
  ASSUME NEW g, NEW n, g.nodes[n].amount \in Int, NEW wanted, IsAsked(wanted)
  PROVE  LET c == Confidence(g, n, wanted) IN c.of \in Int /\ c.per \in Int /\ c.per > 0
<1>. DEFINE x == 2 * g.nodes[n].amount
            y == wanted.min_amount + wanted.max_amount
            a == IF ActionOf(g.nodes[n]) = wanted.action_type THEN 400 ELSE 100
            b == IF \E i \in 1 .. Len(g.edges) :
                      LET e == g.edges[i] IN
                      /\ n \in {e.from, e.to}
                      /\ Field(g.nodes[IF e.from = n THEN e.to ELSE e.from], "entity_id", "") = wanted.entity
                 THEN 300 ELSE 0
            near == IF x > 0 /\ y > 0 THEN [of |-> 300 * Min({x, y}), per |-> Max({x, y})]
                    ELSE [of |-> 0, per |-> 1]
<1>1. Confidence(g, n, wanted) = [of |-> (a + b) * near.per + near.of, per |-> near.per]
  BY DEF Confidence
<1>2. x \in Int /\ y \in Int
  BY DEF IsAsked
<1>3. (a = 400 \/ a = 100) /\ (b = 300 \/ b = 0)
  OBVIOUS
<1>. HIDE DEF a, b, x, y
<1>4. near.of \in Int /\ near.per \in Int /\ near.per > 0
  <2>1. Min({x, y}) \in Int /\ Max({x, y}) \in Int /\ (x > 0 /\ y > 0 => Max({x, y}) > 0)
    BY <1>2, MinOfTwo, MaxOfTwo
  <2>. QED  BY <2>1
<1>. HIDE DEF near
<1>5. (a + b) * near.per + near.of \in Int
  BY <1>3, <1>4
<1>. QED  BY <1>1, <1>4, <1>5

LEMMA CardIs ==
  ASSUME NEW g, NEW n, g.nodes[n].amount \in Int, NEW wanted, IsAsked(wanted)
  PROVE  LET card == Card(g, n, wanted)
         IN  card.node = n /\ card.outcome = OutcomeOf(g, n) /\ card.confidence \in Int
<1>1. PICK of : of = Confidence(g, n, wanted).of
  OBVIOUS
<1>2. PICK per : per = Confidence(g, n, wanted).per
  OBVIOUS
<1>3. of \in Int /\ per \in Int /\ per > 0
  BY <1>1, <1>2, ConfidenceType
<1>4. PICK q : q = (2 * of + per) \div (2 * per)
  OBVIOUS
<1>5. q \in Int
  <2>1. PICK u : u = 2 * of + per
    OBVIOUS
  <2>2. PICK v : v = 2 * per
    OBVIOUS
  <2>3. u \in Int /\ v \in Int /\ v > 0
    BY <1>3, <2>1, <2>2
  <2>. QED  BY <1>4, <2>1, <2>2, <2>3
<1>6. Min({1000, q}) \in Int
  BY <1>5, MinOfTwo
<1>7. Card(g, n, wanted) = [node |-> n, outcome |-> OutcomeOf(g, n), confidence |-> Min({1000, q})]
  BY <1>1, <1>2, <1>4 DEF Card
<1>. QED  BY <1>6, <1>7

(* What PrecedentsExact says of the order.                                 *)
Sorted(cards, entry, history) ==
  \A i \in 1 .. Len(cards) :
    /\ cards[i].node = history[entry[i]]
    /\ \A j \in 1 .. i - 1 :
         \/ cards[j].confidence > cards[i].confidence
         \/ cards[j].confidence = cards[i].confidence /\ entry[j] > entry[i]

LEMMA PrecedentsSorted ==
  ASSUME NEW g, AList(g.history), \A n \in Held(g.history) : g.nodes[n].amount \in Int,
         NEW wanted, IsAsked(wanted)
  PROVE  LET cards == FindPrecedents(g, wanted)
         IN  /\ \A i \in 1 .. Len(cards) : cards[i].outcome = OutcomeOf(g, cards[i].node)
             /\ \A i \in 1 .. Len(cards) : cards[i].node \in Held(g.history)
             /\ \E entry \in [1 .. Len(cards) -> 1 .. Len(g.history)] : Sorted(cards, entry, g.history)
<1>1. PICK h : h = g.history
  OBVIOUS
<1>2. PICK H : h \in Seq(H)
  BY <1>1 DEF AList
<1>3. PICK recent : recent = Reverse(h)
  OBVIOUS
<1>4. /\ recent \in Seq(H) /\ Len(recent) = Len(h) /\ Len(h) \in Nat
      /\ \A i \in 1 .. Len(h) : recent[i] = h[Len(h) - i + 1] /\ Len(h) - i + 1 \in 1 .. Len(h)
  BY <1>2, <1>3, ReverseIs
<1>5. PICK keep : keep = {i \in 1 .. Len(recent) :
                            LET c == Confidence(g, recent[i], wanted) IN c.of > 100 * c.per}
  OBVIOUS
<1>6. PICK entries : entries = Picked(recent, keep)
  OBVIOUS
<1>7. entries \in Seq(H)
  BY <1>4, <1>6, PickedPlaces
<1>8. PICK at : PickOf(entries, at, recent, keep)
  BY <1>4, <1>6, PickedPlaces
<1>9. PICK n : n = Len(entries)
  OBVIOUS
<1>10. n \in Nat
  BY <1>7, <1>9
<1>11. ASSUME NEW i \in 1 .. n
       PROVE  /\ at[i] \in 1 .. Len(h) /\ Len(h) - at[i] + 1 \in 1 .. Len(h)
              /\ entries[i] = h[Len(h) - at[i] + 1] /\ entries[i] \in Held(h)
  <2>1. at[i] \in 1 .. Len(recent) /\ entries[i] = recent[at[i]]
    BY <1>8, <1>9 DEF PickOf
  <2>. QED  BY <1>4, <2>1 DEF Held
<1>12. PICK cards : cards = [i \in 1 .. n |-> Card(g, entries[i], wanted)]
  OBVIOUS
<1>13. Len(cards) = n
  BY <1>10, <1>12
<1>14. ASSUME NEW i \in 1 .. n
       PROVE  /\ cards[i].node = entries[i] /\ cards[i].outcome = OutcomeOf(g, entries[i])
              /\ cards[i].confidence \in Int
  <2>1. cards[i] = Card(g, entries[i], wanted)
    BY <1>12
  <2>2. g.nodes[entries[i]].amount \in Int
    BY <1>1, <1>11
  <2>. QED  BY <2>1, <2>2, CardIs
<1>15. PICK scores : scores = [i \in 1 .. n |-> cards[i].confidence]
  OBVIOUS
<1>16. scores \in [1 .. n -> Int]
  BY <1>14, <1>15
<1>17. wanted.limit \in Nat
  BY DEF IsAsked
<1>18. FindPrecedents(g, wanted) = Ranked(cards, scores, wanted.limit)
  <2>. DEFINE kept == Picked(Reverse(g.history), {i \in 1 .. Len(Reverse(g.history)) :
                            LET c == Confidence(g, Reverse(g.history)[i], wanted) IN c.of > 100 * c.per})
              some == [i \in 1 .. Len(kept) |-> Card(g, kept[i], wanted)]
  <2>1. FindPrecedents(g, wanted) = Ranked(some, [i \in 1 .. Len(some) |-> some[i].confidence], wanted.limit)
    BY DEF FindPrecedents
  <2>2. kept = entries
    BY <1>1, <1>3, <1>5, <1>6
  <2>. HIDE DEF kept
  <2>3. some = cards
    BY <1>9, <1>12, <2>2
  <2>. HIDE DEF some
  <2>. QED  BY <1>13, <1>15, <2>1, <2>3
<1>19. IsRanked(Ranked(cards, scores, wanted.limit), cards, n, scores)
  <2>1. IsScored(cards, n, scores)
    BY <1>10, <1>13, <1>16 DEF IsScored
  <2>. QED  BY <1>17, <2>1, RankedIs
<1>20. PICK m : \E order : IsOrder(order, m, n, scores)
                     /\ Ranked(cards, scores, wanted.limit) = [x \in 1 .. m |-> cards[order[x]]]
  BY <1>19 DEF IsRanked
<1>21. PICK order : IsOrder(order, m, n, scores)
                     /\ Ranked(cards, scores, wanted.limit) = [x \in 1 .. m |-> cards[order[x]]]
  BY <1>20
<1>22. PICK found : found = FindPrecedents(g, wanted)
  OBVIOUS
<1>23. m \in Nat /\ found = [x \in 1 .. m |-> cards[order[x]]] /\ \A x \in 1 .. m : order[x] \in 1 .. n
  BY <1>18, <1>21, <1>22 DEF IsOrder
<1>24. Len(found) = m /\ \A x \in 1 .. m : found[x] = cards[order[x]]
  BY <1>23
<1>25. PICK entry : entry = [x \in 1 .. m |-> Len(h) - at[order[x]] + 1]
  OBVIOUS
<1>26. entry \in [1 .. m -> 1 .. Len(h)]
  BY <1>11, <1>23, <1>25
<1>27. ASSUME NEW i \in 1 .. m
       PROVE  /\ found[i].node = h[entry[i]] /\ found[i].node \in Held(h)
              /\ found[i].outcome = OutcomeOf(g, found[i].node)
  BY <1>11, <1>14, <1>23, <1>24, <1>25
<1>28. ASSUME NEW i \in 1 .. m, NEW j \in 1 .. m, j < i
       PROVE  \/ found[j].confidence > found[i].confidence
              \/ found[j].confidence = found[i].confidence /\ entry[j] > entry[i]
  <2>1. PICK a : a = order[j]
    OBVIOUS
  <2>2. PICK b : b = order[i]
    OBVIOUS
  <2>3. a \in 1 .. n /\ b \in 1 .. n
    BY <1>23, <2>1, <2>2
  <2>4. scores[a] > scores[b] \/ (scores[a] = scores[b] /\ a < b)
    BY <1>21, <1>28, <2>1, <2>2 DEF IsOrder
  <2>5. found[j].confidence = scores[a] /\ found[i].confidence = scores[b]
    BY <1>15, <1>24, <2>1, <2>2, <2>3
  <2>6. a < b => at[a] < at[b]
    BY <1>8, <1>9, <2>3 DEF PickOf
  <2>7. entry[j] = Len(h) - at[a] + 1 /\ entry[i] = Len(h) - at[b] + 1
    BY <1>25, <2>1, <2>2
  <2>8. at[a] \in Int /\ at[b] \in Int /\ Len(h) \in Int
    BY <1>4, <1>11, <2>3
  <2>9. a < b => entry[j] > entry[i]
    BY <2>6, <2>7, <2>8
  <2>. QED  BY <2>4, <2>5, <2>9
<1>29. \A i \in 1 .. m : \A j \in 1 .. i - 1 : j \in 1 .. m /\ j < i
  BY <1>23
<1>30. Sorted(found, entry, h)
  BY <1>24, <1>27, <1>28, <1>29 DEF Sorted
<1>. QED  BY <1>1, <1>22, <1>24, <1>26, <1>27, <1>30

-----------------------------------------------------------------------------
(* What is reported of overrides.                                          *)

OverrodeEdges(g) == {e \in Held(g.edges) : e.type = "overrode"}

LEMMA OverridesAre ==
  ASSUME NEW g, AList(g.edges)
  PROVE  AList(Overrides(g)) /\ Held(Overrides(g)) = OverrodeEdges(g)
<1>1. PICK S : g.edges \in Seq(S)
  BY DEF AList
<1>2. PICK s : s = g.edges
  OBVIOUS
<1>3. PICK keep : keep = {i \in 1 .. Len(s) : s[i].type = "overrode"}
  OBVIOUS
<1>4. Overrides(g) = Picked(s, keep)
  BY <1>2, <1>3 DEF Overrides
<1>5. s \in Seq(S)
  BY <1>1, <1>2
<1>6. Picked(s, keep) \in Seq(S) /\ Held(Picked(s, keep)) = {s[i] : i \in KeptPlaces(s, keep)}
  BY <1>5, PickedSize
<1>7. {s[i] : i \in KeptPlaces(s, keep)} = {e \in Held(s) : e.type = "overrode"}
  BY <1>3 DEF KeptPlaces, Held
<1>. QED  BY <1>2, <1>4, <1>6, <1>7 DEF AList, OverrodeEdges

LEMMA OverridesForAre ==
  ASSUME NEW g, AList(g.edges), NEW reason
  PROVE  LET all == Overrides(g)
             group == OverridesFor(g, reason)
         IN  /\ AList(group)
             /\ Len(group) = Cardinality({i \in 1 .. Len(all) : ReasonOf(g, all[i]) = reason})
             /\ Held(group) = {e \in OverrodeEdges(g) : ReasonOf(g, e) = reason}
<1>1. PICK all : all = Overrides(g)
  OBVIOUS
<1>2. PICK S : all \in Seq(S)
  BY <1>1, OverridesAre DEF AList
<1>3. PICK keep : keep = {i \in 1 .. Len(all) : ReasonOf(g, all[i]) = reason}
  OBVIOUS
<1>4. OverridesFor(g, reason) = Picked(all, keep)
  BY <1>1, <1>3 DEF OverridesFor
<1>5. /\ Picked(all, keep) \in Seq(S) /\ Len(Picked(all, keep)) = Cardinality(KeptPlaces(all, keep))
      /\ Held(Picked(all, keep)) = {all[i] : i \in KeptPlaces(all, keep)}
  BY <1>2, PickedSize
<1>6. KeptPlaces(all, keep) = keep
  BY <1>3 DEF KeptPlaces
<1>7. {all[i] : i \in keep} = {e \in Held(all) : ReasonOf(g, e) = reason}
  BY <1>3 DEF Held
<1>8. Held(all) = OverrodeEdges(g)
  BY <1>1, OverridesAre
<1>. QED  BY <1>1, <1>3, <1>4, <1>5, <1>6, <1>7, <1>8 DEF AList

LEMMA LastFiveAre ==
  ASSUME NEW s, AList(s)
  PROVE  /\ AList(LastFive(s)) /\ Held(LastFive(s)) \subseteq Held(s)
         /\ Len(s) \in Nat /\ (Len(s) <= 5 => Held(LastFive(s)) = Held(s))
<1>1. PICK S : s \in Seq(S)
  BY DEF AList
<1>2. PICK n : n = Len(s)
  OBVIOUS
<1>3. n \in Nat
  BY <1>1, <1>2
<1>4. PICK m : m = Max({1, n - 4})
  OBVIOUS
<1>5. m \in Nat /\ m >= 1 /\ (n <= 5 => m = 1) /\ m <= n + 1
  <2>1. m = IF 1 >= n - 4 THEN 1 ELSE n - 4
    BY <1>3, <1>4, MaxOfTwo
  <2>. QED  BY <1>3, <2>1
<1>6. PICK t : t = SubSeq(s, m, n)
  OBVIOUS
<1>7. LastFive(s) = t
  BY <1>2, <1>4, <1>6 DEF LastFive
<1>8. /\ t \in Seq(S) /\ Len(t) = n - m + 1
      /\ \A i \in 1 .. n - m + 1 : t[i] = s[m + i - 1]
  BY <1>1, <1>2, <1>3, <1>5, <1>6
<1>9. \A i \in 1 .. Len(t) : m + i - 1 \in 1 .. n /\ t[i] = s[m + i - 1]
  BY <1>3, <1>5, <1>8
<1>10. Held(t) \subseteq Held(s)
  BY <1>2, <1>9 DEF Held
<1>11. n <= 5 => Held(s) \subseteq Held(t)
  <2>1. SUFFICES ASSUME n <= 5, NEW i \in 1 .. n
                 PROVE  i \in 1 .. Len(t) /\ t[i] = s[i]
    BY <1>2 DEF Held
  <2>2. m = 1 /\ Len(t) = n
    BY <1>3, <1>5, <1>8, <2>1
  <2>3. i \in 1 .. n - m + 1 /\ m + i - 1 = i
    BY <1>3, <2>1, <2>2
  <2>. QED  BY <1>8, <2>1, <2>2, <2>3
<1>12. AList(t)
  BY <1>8 DEF AList
<1>. QED  BY <1>2, <1>3, <1>7, <1>10, <1>11, <1>12

(* What the report lists under a reason.                                   *)
Reports(report, g, reason) ==
  LET group == {e \in OverrodeEdges(g) : ReasonOf(g, e) = reason}
  IN  /\ report[reason].occurrence_count \in Nat
      /\ Range(report[reason].occurrences) \subseteq {DecisionOf(g, e) : e \in group}
      /\ report[reason].occurrence_count <= 5 =>
           {DecisionOf(g, e) : e \in group} \subseteq Range(report[reason].occurrences)

LEMMA ReportIs ==
  ASSUME NEW g, AList(g.edges)
  PROVE  LET report == DetectPolicyDrift(g)
         IN  /\ DOMAIN report = {ReasonOf(g, e) : e \in OverrodeEdges(g)}
             /\ \A reason \in DOMAIN report :
                  /\ Reports(report, g, reason)
                  /\ report[reason].occurrence_count = Len(OverridesFor(g, reason))
<1>1. PICK R : R = {ReasonOf(g, Overrides(g)[i]) : i \in 1 .. Len(Overrides(g))}
  OBVIOUS
<1>2. PICK report : report = DetectPolicyDrift(g)
  OBVIOUS
<1>3. DOMAIN report = R
  BY <1>1, <1>2 DEF DetectPolicyDrift
<1>4. R = {ReasonOf(g, e) : e \in OverrodeEdges(g)}
  <2>1. R = {ReasonOf(g, e) : e \in Held(Overrides(g))}
    BY <1>1 DEF Held
  <2>. QED  BY <2>1, OverridesAre
<1>5. ASSUME NEW reason \in R
      PROVE  Reports(report, g, reason) /\ report[reason].occurrence_count = Len(OverridesFor(g, reason))
  <2>1. PICK group : group = OverridesFor(g, reason)
    OBVIOUS
  <2>2. PICK few : few = LastFive(group)
    OBVIOUS
  <2>3. /\ report[reason].occurrence_count = Len(group)
        /\ report[reason].occurrences = [i \in 1 .. Len(few) |-> DecisionOf(g, few[i])]
    BY <1>1, <1>2, <1>5, <2>1, <2>2 DEF DetectPolicyDrift
  <2>4. AList(group) /\ Held(group) = {e \in OverrodeEdges(g) : ReasonOf(g, e) = reason}
    BY <2>1, OverridesForAre
  <2>5. Held(few) \subseteq Held(group) /\ Len(group) \in Nat /\ (Len(group) <= 5 => Held(few) = Held(group))
    BY <2>2, <2>4, LastFiveAre
  <2>6. Range(report[reason].occurrences) = {DecisionOf(g, e) : e \in Held(few)}
    BY <2>3 DEF Range, Held
  <2>. QED  BY <2>1, <2>3, <2>4, <2>5, <2>6 DEF Reports
<1>. QED  BY <1>2, <1>3, <1>4, <1>5

(* The decision that an override belongs to.                               *)
OverrideLeads(g, e, x) ==
  /\ e.from = <<"policy", x>> /\ e.to = <<"consensus", x>>
  /\ \E d \in Held(g.edges) : d.type = "evaluated_by" /\ d.to = e.to
  /\ \A d \in Held(g.edges) : d.type = "evaluated_by" /\ d.to = e.to => d.from = <<"decision", x>>

LEMMA DecisionOfIs ==
  ASSUME NEW g, AList(g.edges), NEW e, NEW x, OverrideLeads(g, e, x)
  PROVE  DecisionOf(g, e) = <<"decision", x>>
<1>1. PICK at : at = {i \in 1 .. Len(g.edges) : g.edges[i].to = e.to /\ g.edges[i].type = "evaluated_by"}
  OBVIOUS
<1>2. at # {}
  BY <1>1 DEF OverrideLeads, Held
<1>3. Len(g.edges) \in Nat
  BY DEF AList
<1>4. Min(at) \in at
  <2>1. at \subseteq Nat
    BY <1>1, <1>3
  <2>. QED  BY <1>2, <2>1, MinIn
<1>5. DecisionOf(g, e) = g.edges[Min(at)].from
  BY <1>1 DEF DecisionOf
<1>. QED  BY <1>1, <1>4, <1>5 DEF OverrideLeads, Held

-----------------------------------------------------------------------------
(* What is counted.                                                        *)

LEMMA OverridesCounted ==
  ASSUME NEW g, AList(g.edges)
  PROVE  LET report == DetectPolicyDrift(g)
         IN  Len(Overrides(g)) = AddedUp([reason \in DOMAIN report |-> report[reason].occurrence_count])
<1>1. PICK report : report = DetectPolicyDrift(g)
  OBVIOUS
<1>2. PICK R : R = DOMAIN report
  OBVIOUS
<1>3. PICK all : all = Overrides(g)
  OBVIOUS
<1>4. PICK n : n = Len(all)
  OBVIOUS
<1>5. n \in Nat /\ Held(all) = OverrodeEdges(g)
  BY <1>3, <1>4, OverridesAre DEF AList
<1>6. R = {ReasonOf(g, e) : e \in OverrodeEdges(g)}
  BY <1>1, <1>2, ReportIs
<1>7. PICK which : which = [i \in 1 .. n |-> ReasonOf(g, all[i])]
  OBVIOUS
<1>8. which \in [1 .. n -> R]
  BY <1>4, <1>5, <1>6, <1>7 DEF Held
<1>9. IsFiniteSet(1 .. n) /\ Cardinality(1 .. n) = n
  BY <1>5, UpTo1
<1>10. AddedUp([r \in R |-> Cardinality({d \in 1 .. n : which[d] = r})]) = Cardinality(1 .. n)
  <2>1. PICK D : D = 1 .. n
    OBVIOUS
  <2>2. IsFiniteSet(D) /\ which \in [D -> R]
    BY <1>8, <1>9, <2>1
  <2>3. AddedUp([r \in R |-> Cardinality({d \in D : which[d] = r})]) = Cardinality(D)
    BY <2>2, CountedParts
  <2>. QED  BY <2>1, <2>3
<1>11. ASSUME NEW r \in R
       PROVE  report[r].occurrence_count = Cardinality({d \in 1 .. n : which[d] = r})
  <2>1. report[r].occurrence_count = Len(OverridesFor(g, r))
    BY <1>1, <1>2, ReportIs
  <2>2. Len(OverridesFor(g, r)) = Cardinality({i \in 1 .. n : ReasonOf(g, all[i]) = r})
    BY <1>3, <1>4, OverridesForAre
  <2>3. {i \in 1 .. n : ReasonOf(g, all[i]) = r} = {d \in 1 .. n : which[d] = r}
    BY <1>7
  <2>. QED  BY <2>1, <2>2, <2>3
<1>12. [r \in R |-> report[r].occurrence_count] = [r \in R |-> Cardinality({d \in 1 .. n : which[d] = r})]
  BY <1>11
<1>. QED  BY <1>1, <1>2, <1>3, <1>4, <1>9, <1>10, <1>12

LEMMA OutcomesCounted ==
  ASSUME NEW g, IsFiniteSet({n \in DOMAIN g.nodes : n[1] \in {"decision", "tx"}})
  PROVE  AddedUp(Stats(g).outcomes) = Cardinality({n \in DOMAIN g.nodes : n[1] \in {"decision", "tx"}})
<1>1. PICK D : D = {n \in DOMAIN g.nodes : n[1] \in {"decision", "tx"}}
  OBVIOUS
<1>2. PICK which : which = [n \in D |-> Field(g.nodes[n], "final_decision", Field(g.nodes[n], "status", "UNKNOWN"))]
  OBVIOUS
<1>3. PICK R : R = {which[n] : n \in D}
  OBVIOUS
<1>4. which \in [D -> R]
  BY <1>2, <1>3
<1>5. AddedUp([r \in R |-> Cardinality({d \in D : which[d] = r})]) = Cardinality(D)
  BY <1>1, <1>4, CountedParts
<1>6. Stats(g).outcomes = [r \in R |-> Cardinality({d \in D : which[d] = r})]
  <2>. DEFINE outcome(n) == Field(g.nodes[n], "final_decision", Field(g.nodes[n], "status", "UNKNOWN"))
  <2>1. Stats(g).outcomes = [o \in {outcome(n) : n \in D} |-> Cardinality({n \in D : outcome(n) = o})]
    BY <1>1 DEF Stats
  <2>2. \A n \in D : outcome(n) = which[n]
    BY <1>2
  <2>. HIDE DEF outcome
  <2>3. {outcome(n) : n \in D} = R
    BY <1>3, <2>2
  <2>4. \A o : {n \in D : outcome(n) = o} = {n \in D : which[n] = o}
    BY <2>2
  <2>. QED  BY <2>1, <2>3, <2>4
<1>. QED  BY <1>1, <1>5, <1>6

(* A list holds finitely much.                                             *)
LEMMA HeldFinite ==
  ASSUME NEW s, AList(s)
  PROVE  IsFiniteSet(Held(s)) /\ Range(s) = Held(s)
<1>1. Len(s) \in Nat /\ DOMAIN s = 1 .. Len(s)
  BY DEF AList
<1>2. Range(s) = Held(s)
  BY <1>1 DEF Range, Held
<1>3. IsFiniteSet(1 .. Len(s))
  BY <1>1, UpTo1
<1>4. PICK n : n = Len(s)
  OBVIOUS
<1>5. PICK f : f = [i \in 1 .. n |-> s[i]]
  OBVIOUS
<1>6. f \in Surjection(1 .. n, Held(s))
  BY <1>4, <1>5 DEF Surjection, Held
<1>7. IsFiniteSet(Held(s))
  BY <1>3, <1>4, <1>6, FS_Surjection
<1>. QED  BY <1>2, <1>7

-----------------------------------------------------------------------------
(* What the graph holds.                                                   *)

(* An edge of a decision: the override of one that policy refused leads    *)
(* from its policy node to its consensus node, its consensus is evaluated  *)
(* from its own node, and it causes its own outcome.                       *)
EdgeOK(e, nodes, told) ==
  /\ Ends(e) \subseteq DOMAIN nodes
  /\ e.type = "overrode" => \E x \in told : e.from = <<"policy", x>> /\ e.to = <<"consensus", x>>
  /\ e.type = "evaluated_by" => \A x \in ActionIds : e.to = <<"consensus", x>> => e.from = <<"decision", x>>
  /\ e.type = "caused_outcome" => \A x \in ActionIds : e.from = <<"decision", x>> => e.to = <<"outcome", x>>

Told(dec) == {x \in ActionIds : dec[x] # Undecided}

(* The edges and the node that every decision has.                         *)
HasEdges(g, x) ==
  /\ \E e \in Held(g.edges) : e.type = "evaluated_by" /\ e.to = <<"consensus", x>>
  /\ \E e \in Held(g.edges) : e.type = "caused_outcome" /\ e.from = <<"decision", x>>

StatesReason(nodes, x, d) == <<"policy", x>> \in DOMAIN nodes /\ nodes[<<"policy", x>>].reason = d.reason

Once(history, n) == \E i \in 1 .. Len(history) : \A j \in 1 .. Len(history) : history[j] = n <=> j = i

OverrodeIn(edges, x) == \E e \in Held(edges) : e.type = "overrode" /\ e.from = <<"policy", x>>

(* An override is drawn for a decision when it is overridden, and stays    *)
(* when its identifier is decided again.                                   *)
OverrideOf(g, x, d) ==
  /\ <<"decision", x>> \notin Held(g.history) => ~OverrodeIn(g.edges, x)
  /\ Once(g.history, <<"decision", x>>) => (OverrodeIn(g.edges, x) <=> Overridden(d))

Entered(nodes) == {n \in DOMAIN nodes : n[1] \in {"decision", "tx"}}

EntriesOK(g, told) ==
  /\ AList(g.edges) /\ AList(g.history)
  /\ Held(g.history) = Entered(g.nodes)
  /\ \A n \in Held(g.history) : n[1] = "decision" => \E x \in told : n = <<"decision", x>>
  /\ \A n \in Held(g.history) : g.nodes[n].amount \in Int

GraphOK(g, dec) ==
  /\ EntriesOK(g, Told(dec))
  /\ \A e \in Held(g.edges) : EdgeOK(e, g.nodes, Told(dec))
  /\ \A x \in Told(dec) : HasEdges(g, x) /\ StatesReason(g.nodes, x, dec[x])
  /\ \A x \in ActionIds : OverrideOf(g, x, dec[x])

GraphInv == GraphOK(graph, decided)

LEMMA OnceLonger ==
  ASSUME NEW s, AList(s), NEW e, NEW n
  PROVE  /\ n # e => (Once(Append(s, e), n) <=> Once(s, n))
         /\ Once(Append(s, e), e) => e \notin Held(s)
<1>1. PICK t : t = Append(s, e)
  OBVIOUS
<1>2. PICK m : m = Len(s)
  OBVIOUS
<1>3. /\ Len(t) = m + 1 /\ m \in Nat /\ t[m + 1] = e
      /\ \A i \in 1 .. m : t[i] = s[i]
  BY <1>1, <1>2, HeldAppend
<1>4. \A i \in 1 .. m + 1 : i \in 1 .. m \/ i = m + 1
  BY <1>3
<1>5. \A i \in 1 .. m : i \in 1 .. m + 1 /\ i # m + 1
  BY <1>3
<1>6. m + 1 \in 1 .. m + 1
  BY <1>3
<1>7. ASSUME n # e, Once(t, n)
      PROVE  Once(s, n)
  <2>1. PICK i \in 1 .. m + 1 : \A j \in 1 .. m + 1 : t[j] = n <=> j = i
    BY <1>3, <1>7 DEF Once
  <2>2. i \in 1 .. m
    BY <1>3, <1>4, <1>7, <2>1
  <2>3. \A j \in 1 .. m : s[j] = n <=> j = i
    BY <1>3, <1>5, <2>1
  <2>. QED  BY <1>2, <2>2, <2>3 DEF Once
<1>8. ASSUME n # e, Once(s, n)
      PROVE  Once(t, n)
  <2>1. PICK i \in 1 .. m : \A j \in 1 .. m : s[j] = n <=> j = i
    BY <1>2, <1>8 DEF Once
  <2>2. \A j \in 1 .. m + 1 : t[j] = n <=> j = i
    BY <1>3, <1>4, <1>5, <1>8, <2>1
  <2>3. i \in 1 .. m + 1
    BY <1>5
  <2>4. Len(t) = m + 1
    BY <1>3
  <2>5. i \in 1 .. Len(t) /\ \A j \in 1 .. Len(t) : t[j] = n <=> j = i
    BY <2>2, <2>3, <2>4
  <2>. QED  BY <2>5, Zenon DEF Once
<1>9. ASSUME Once(t, e)
      PROVE  e \notin Held(s)
  <2>1. PICK i \in 1 .. m + 1 : \A j \in 1 .. m + 1 : t[j] = e <=> j = i
    BY <1>3, <1>9 DEF Once
  <2>2. i = m + 1
    BY <1>3, <1>6, <2>1
  <2>3. \A j \in 1 .. m : s[j] # e
    BY <1>3, <1>5, <2>1, <2>2
  <2>. QED  BY <1>2, <2>3 DEF Held
<1>. QED  BY <1>1, <1>7, <1>8, <1>9

-----------------------------------------------------------------------------
(* What a decision adds to the graph.                                      *)

MeshIds(r) ==
  LET agents == {r.votes[i].agent : i \in 1 .. Len(r.votes)}
  IN  {<<kind, r.action_id>> : kind \in {"decision", "consensus", "policy", "outcome"}}
        \cup {<<"agent", a>> : a \in agents} \cup {<<"reasoning", r.action_id, a>> : a \in agents}

LEMMA MeshIdsAre ==
  ASSUME NEW r, NEW time
  PROVE  LET new == MeshNodes(r, time)
         IN  /\ DOMAIN new = MeshIds(r)
             /\ new[<<"policy", r.action_id>>] = [pass |-> r.policy_pass, reason |-> r.reason, time |-> time]
             /\ \A kind \in {"decision", "consensus", "policy", "outcome"} : <<kind, r.action_id>> \in DOMAIN new
             /\ \A n \in DOMAIN new : n[1] \in {"decision", "tx"} => n = <<"decision", r.action_id>>
             /\ \A x : <<"policy", x>> \in DOMAIN new => x = r.action_id
<1>. DEFINE new == MeshNodes(r, time)
<1>1. DOMAIN new = MeshIds(r)
  BY DEF MeshNodes, MeshIds
<1>2. new[<<"policy", r.action_id>>] = [pass |-> r.policy_pass, reason |-> r.reason, time |-> time]
  BY DEF MeshNodes
<1>. HIDE DEF new
<1>3. \A kind \in {"decision", "consensus", "policy", "outcome"} : <<kind, r.action_id>> \in MeshIds(r)
  BY DEF MeshIds
<1>4. \A n \in MeshIds(r) : n[1] \in {"decision", "tx"} => n = <<"decision", r.action_id>>
  BY DEF MeshIds
<1>5. \A x : <<"policy", x>> \in MeshIds(r) => x = r.action_id
  BY DEF MeshIds
<1>. QED  BY <1>1, <1>2, <1>3, <1>4, <1>5 DEF new

(* An edge that a decision adds, between nodes that are known.             *)
AddedBy(e, r, known) ==
  /\ Ends(e) \subseteq known
  /\ e.type = "overrode" => Overridden(r) /\ e.from = <<"policy", r.action_id>>
                                          /\ e.to = <<"consensus", r.action_id>>
  /\ e.type = "evaluated_by" => \A x : e.to = <<"consensus", x>> => e.from = <<"decision", x>>
  /\ e.type = "caused_outcome" => e.from = <<"decision", r.action_id>> /\ e.to = <<"outcome", r.action_id>>

AllAddedBy(edges, r, known) == AList(edges) /\ \A e \in Held(edges) : AddedBy(e, r, known)

LEMMA AddedJoin ==
  ASSUME NEW s, NEW t, NEW r, NEW known, AllAddedBy(s, r, known), AllAddedBy(t, r, known)
  PROVE  AllAddedBy(s \o t, r, known) /\ Held(s \o t) = Held(s) \cup Held(t)
  BY HeldJoined DEF AllAddedBy

LEMMA AddedOne ==
  ASSUME NEW e, NEW r, NEW known
  PROVE  /\ AllAddedBy(<<>>, r, known)
         /\ AddedBy(e, r, known) => AllAddedBy(<<e>>, r, known) /\ Held(<<e>>) = {e}
<1>1. AList(<<>>) /\ Held(<<>>) = {}
  BY HeldNothing
<1>2. AllAddedBy(<<>>, r, known)
  BY <1>1 DEF AllAddedBy
<1>3. ASSUME AddedBy(e, r, known)
      PROVE  AllAddedBy(<<e>>, r, known) /\ Held(<<e>>) = {e}
  <2>1. PICK s : s = <<e>>
    OBVIOUS
  <2>2. s \in Seq({e}) /\ Len(s) = 1 /\ s[1] = e
    BY <2>1
  <2>3. Held(s) = {e}
    BY <2>2 DEF Held
  <2>4. AllAddedBy(s, r, known)
    BY <1>3, <2>2, <2>3 DEF AllAddedBy, AList
  <2>. QED  BY <2>1, <2>3, <2>4
<1>. QED  BY <1>2, <1>3

LEMMA AddedTwo ==
  ASSUME NEW e, NEW f, NEW r, NEW known, AddedBy(e, r, known), AddedBy(f, r, known)
  PROVE  AllAddedBy(<<e, f>>, r, known) /\ Held(<<e, f>>) = {e, f}
<1>1. PICK s : s = <<e, f>>
  OBVIOUS
<1>2. s \in Seq({e, f}) /\ Len(s) = 2 /\ s[1] = e /\ s[2] = f
  BY <1>1
<1>3. Held(s) = {e, f}
  BY <1>2 DEF Held
<1>4. AllAddedBy(s, r, known)
  BY <1>2, <1>3 DEF AllAddedBy, AList
<1>. QED  BY <1>1, <1>3, <1>4

LEMMA AddedFunction ==
  ASSUME NEW n \in Nat, NEW s, s = [i \in 1 .. n |-> s[i]], NEW r, NEW known,
         \A i \in 1 .. n : AddedBy(s[i], r, known)
  PROVE  AllAddedBy(s, r, known)
<1>1. s \in Seq({s[i] : i \in 1 .. n}) /\ Len(s) = n
  OBVIOUS
<1>. QED  BY <1>1 DEF AllAddedBy, AList, Held

(* The edges of the votes.                                                 *)
LEMMA VotesAdd ==
  ASSUME NEW r, Len(r.votes) \in Nat, NEW known, MeshIds(r) \subseteq known
  PROVE  /\ AllAddedBy([k \in 1 .. 2 * Len(r.votes) |->
                 LET v == r.votes[(k + 1) \div 2]
                 IN  IF k % 2 = 1 THEN Edge(<<"agent", v.agent>>, <<"reasoning", r.action_id, v.agent>>, "reasoned_by", "-")
                     ELSE Edge(<<"reasoning", r.action_id, v.agent>>, <<"decision", r.action_id>>, "contributed_to", v.decision)],
               r, known)
         /\ AllAddedBy([i \in 1 .. Len(r.votes) |->
                 Edge(<<"outcome", r.action_id>>, <<"agent", r.votes[i].agent>>, "updated_trust", "-")], r, known)
<1>1. PICK m : m = Len(r.votes)
  OBVIOUS
<1>2. m \in Nat
  BY <1>1
<1>3. ASSUME NEW i \in 1 .. m
      PROVE  /\ <<"agent", r.votes[i].agent>> \in known
             /\ <<"reasoning", r.action_id, r.votes[i].agent>> \in known
  BY <1>1 DEF MeshIds
<1>4. <<"decision", r.action_id>> \in known /\ <<"outcome", r.action_id>> \in known
  BY DEF MeshIds
<1>5. \A a, b \in known : \A data : /\ AddedBy(Edge(a, b, "reasoned_by", data), r, known)
                                    /\ AddedBy(Edge(a, b, "contributed_to", data), r, known)
                                    /\ AddedBy(Edge(a, b, "updated_trust", data), r, known)
  BY DEF AddedBy, Edge, Ends
<1>6. PICK A : A = [k \in 1 .. 2 * m |->
                 LET v == r.votes[(k + 1) \div 2]
                 IN  IF k % 2 = 1 THEN Edge(<<"agent", v.agent>>, <<"reasoning", r.action_id, v.agent>>, "reasoned_by", "-")
                     ELSE Edge(<<"reasoning", r.action_id, v.agent>>, <<"decision", r.action_id>>, "contributed_to", v.decision)]
  OBVIOUS
<1>7. ASSUME NEW k \in 1 .. 2 * m
      PROVE  AddedBy(A[k], r, known)
  <2>1. PICK i : i = (k + 1) \div 2
    OBVIOUS
  <2>2. i \in 1 .. m
    BY <1>2, <2>1
  <2>3. \/ A[k] = Edge(<<"agent", r.votes[i].agent>>, <<"reasoning", r.action_id, r.votes[i].agent>>, "reasoned_by", "-")
        \/ A[k] = Edge(<<"reasoning", r.action_id, r.votes[i].agent>>, <<"decision", r.action_id>>,
                       "contributed_to", r.votes[i].decision)
    BY <1>6, <2>1
  <2>. QED  BY <1>3, <1>4, <1>5, <2>2, <2>3
<1>8. AllAddedBy(A, r, known)
  <2>1. PICK n : n = 2 * m
    OBVIOUS
  <2>2. n \in Nat
    BY <1>2, <2>1
  <2>3. A = [k \in 1 .. n |-> A[k]]
    BY <1>6, <2>1
  <2>4. \A k \in 1 .. n : AddedBy(A[k], r, known)
    BY <1>7, <2>1
  <2>. QED  BY <2>2, <2>3, <2>4, AddedFunction
<1>9. PICK E : E = [i \in 1 .. m |->
                 Edge(<<"outcome", r.action_id>>, <<"agent", r.votes[i].agent>>, "updated_trust", "-")]
  OBVIOUS
<1>10. \A i \in 1 .. m : AddedBy(E[i], r, known)
  BY <1>3, <1>4, <1>5, <1>9
<1>11. AllAddedBy(E, r, known)
  <2>1. E = [i \in 1 .. m |-> E[i]]
    BY <1>9
  <2>. QED  BY <1>2, <1>10, <2>1, AddedFunction
<1>. QED  BY <1>1, <1>6, <1>8, <1>9, <1>11

(* The edges that every decision has.                                      *)
Evaluation(r) == Edge(<<"decision", r.action_id>>, <<"consensus", r.action_id>>, "evaluated_by", "-")

Causation(r) == Edge(<<"decision", r.action_id>>, <<"outcome", r.action_id>>, "caused_outcome", "-")

Overriding(r) == Edge(<<"policy", r.action_id>>, <<"consensus", r.action_id>>, "overrode", r.reason)

LEMMA MeshEdgesAdded ==
  ASSUME NEW r, Len(r.votes) \in Nat, NEW known, MeshIds(r) \subseteq known
  PROVE  /\ AllAddedBy(MeshEdges(r), r, known)
         /\ Evaluation(r) \in Held(MeshEdges(r)) /\ Causation(r) \in Held(MeshEdges(r))
         /\ Overridden(r) => Overriding(r) \in Held(MeshEdges(r))
<1>. DEFINE decision == <<"decision", r.action_id>>
            consensus == <<"consensus", r.action_id>>
            policy == <<"policy", r.action_id>>
            outcome == <<"outcome", r.action_id>>
            a == Evaluation(r)
            b == Edge(consensus, policy, "evaluated_by", "-")
            c == Overriding(r)
            d == Edge(policy, outcome, "produced", "-")
            e == Causation(r)
<1>1. decision \in known /\ consensus \in known /\ policy \in known /\ outcome \in known
  BY DEF MeshIds
<1>2. AddedBy(a, r, known) /\ AddedBy(b, r, known) /\ AddedBy(d, r, known) /\ AddedBy(e, r, known)
  <2>1. AddedBy(a, r, known)
    BY <1>1 DEF AddedBy, Edge, Ends, Evaluation
  <2>2. AddedBy(b, r, known)
    BY <1>1 DEF AddedBy, Edge, Ends
  <2>3. AddedBy(d, r, known)
    BY <1>1 DEF AddedBy, Edge, Ends
  <2>4. AddedBy(e, r, known)
    BY <1>1 DEF AddedBy, Edge, Ends, Causation
  <2>. QED  BY <2>1, <2>2, <2>3, <2>4
<1>3. Overridden(r) => AddedBy(c, r, known)
  BY <1>1 DEF AddedBy, Edge, Ends, Overriding
<1>4. PICK A : A = [k \in 1 .. 2 * Len(r.votes) |->
                 LET v == r.votes[(k + 1) \div 2]
                 IN  IF k % 2 = 1 THEN Edge(<<"agent", v.agent>>, <<"reasoning", r.action_id, v.agent>>, "reasoned_by", "-")
                     ELSE Edge(<<"reasoning", r.action_id, v.agent>>, <<"decision", r.action_id>>, "contributed_to", v.decision)]
  OBVIOUS
<1>5. PICK E : E = [i \in 1 .. Len(r.votes) |->
                 Edge(<<"outcome", r.action_id>>, <<"agent", r.votes[i].agent>>, "updated_trust", "-")]
  OBVIOUS
<1>6. AllAddedBy(A, r, known) /\ AllAddedBy(E, r, known)
  BY <1>4, <1>5, VotesAdd
<1>7. PICK C : C = IF Overridden(r) THEN <<c>> ELSE <<>>
  OBVIOUS
<1>8. AllAddedBy(C, r, known) /\ (Overridden(r) => c \in Held(C))
  <2>. HIDE DEF c
  <2>1. CASE Overridden(r)
    BY <1>3, <1>7, <2>1, AddedOne
  <2>2. CASE ~Overridden(r)
    BY <1>7, <2>2, AddedOne
  <2>. QED  BY <2>1, <2>2
<1>9. MeshEdges(r) = A \o <<a, b>> \o C \o <<d, e>> \o E
  BY <1>4, <1>5, <1>7 DEF MeshEdges, Evaluation, Causation, Overriding
<1>. HIDE DEF a, b, c, d, e
<1>10. PICK B : B = <<a, b>>
  OBVIOUS
<1>11. PICK D : D = <<d, e>>
  OBVIOUS
<1>12. AllAddedBy(B, r, known) /\ a \in Held(B)
  BY <1>2, <1>10, AddedTwo
<1>13. AllAddedBy(D, r, known) /\ e \in Held(D)
  BY <1>2, <1>11, AddedTwo
<1>14. MeshEdges(r) = A \o B \o C \o D \o E
  BY <1>9, <1>10, <1>11
<1>15. AllAddedBy(A \o B, r, known) /\ Held(A \o B) = Held(A) \cup Held(B)
  BY <1>6, <1>12, AddedJoin
<1>16. AllAddedBy(A \o B \o C, r, known) /\ Held(A \o B \o C) = Held(A \o B) \cup Held(C)
  BY <1>8, <1>15, AddedJoin
<1>17. AllAddedBy(A \o B \o C \o D, r, known) /\ Held(A \o B \o C \o D) = Held(A \o B \o C) \cup Held(D)
  BY <1>13, <1>16, AddedJoin
<1>18. /\ AllAddedBy(A \o B \o C \o D \o E, r, known)
       /\ Held(A \o B \o C \o D \o E) = Held(A \o B \o C \o D) \cup Held(E)
  BY <1>6, <1>17, AddedJoin
<1>19. Held(MeshEdges(r)) = Held(A) \cup Held(B) \cup Held(C) \cup Held(D) \cup Held(E)
  BY <1>14, <1>15, <1>16, <1>17, <1>18
<1>20. AllAddedBy(MeshEdges(r), r, known)
  BY <1>14, <1>18
<1>21. a \in Held(MeshEdges(r)) /\ e \in Held(MeshEdges(r)) /\ (Overridden(r) => c \in Held(MeshEdges(r)))
  BY <1>8, <1>12, <1>13, <1>19
<1>. QED  BY <1>20, <1>21 DEF a, c, e

(* The entry before, and the earlier decisions of its kind.                *)
LEMMA FollowedAdded ==
  ASSUME NEW history, AList(history), NEW n
  PROVE  /\ AList(Followed(history, n))
         /\ \A e \in Held(Followed(history, n)) :
              e.type = "followed_by" /\ Ends(e) \subseteq Held(history) \cup {n}
<1>1. CASE history = <<>>
  BY <1>1, HeldNothing DEF Followed
<1>2. CASE history # <<>>
  <2>1. PICK e : e = Edge(Last(history), n, "followed_by", "temporal")
    OBVIOUS
  <2>2. Last(history) \in Held(history)
    <3>1. PICK S : history \in Seq(S)
      BY DEF AList
    <3>2. Len(history) \in 1 .. Len(history)
      BY <1>2, <3>1
    <3>. QED  BY <3>2 DEF Last, Held
  <2>3. e.type = "followed_by" /\ Ends(e) \subseteq Held(history) \cup {n}
    BY <2>1, <2>2 DEF Edge, Ends
  <2>4. Followed(history, n) = <<e>>
    BY <1>2, <2>1 DEF Followed
  <2>5. AList(<<e>>) /\ Held(<<e>>) = {e}
    <3>1. <<e>> = Append(<<>>, e)
      OBVIOUS
    <3>2. AList(Append(<<>>, e)) /\ Held(Append(<<>>, e)) = Held(<<>>) \cup {e}
      BY HeldNothing, HeldAppend
    <3>. QED  BY <3>1, <3>2, HeldNothing
  <2>. QED  BY <2>3, <2>4, <2>5
<1>. QED  BY <1>1, <1>2

(* A list that grew by edges.                                              *)
GrownBy(s, t, extra) == AList(t) /\ Held(t) = Held(s) \cup extra

LEMMA IngestMeshAdds ==
  ASSUME NEW g, NEW r, AList(g.edges), AList(g.history), Len(r.votes) \in Nat
  PROVE  \E extra :
           /\ GrownBy(g.edges, IngestMesh(g, r).edges, extra)
           /\ \A e \in extra : AddedBy(e, r, MeshIds(r) \cup Held(g.history))
           /\ Evaluation(r) \in extra /\ Causation(r) \in extra
           /\ Overridden(r) => Overriding(r) \in extra
<1>1. PICK known : known = MeshIds(r) \cup Held(g.history)
  OBVIOUS
<1>2. PICK n : n = <<"decision", r.action_id>>
  OBVIOUS
<1>3. n \in known
  BY <1>1, <1>2 DEF MeshIds
<1>4. PICK h : h = [g EXCEPT !.nodes = WithNodes(g.nodes, MeshNodes(r, Len(g.history) + 1))]
  OBVIOUS
<1>5. PICK M : M = MeshEdges(r)
  OBVIOUS
<1>6. PICK F : F = Followed(g.history, n)
  OBVIOUS
<1>7. PICK S : S = SameAction(h, n, ActionType(r))
  OBVIOUS
<1>8. IngestMesh(g, r).edges = g.edges \o M \o F \o S
  BY <1>2, <1>4, <1>5, <1>6, <1>7 DEF IngestMesh
<1>9. /\ AllAddedBy(M, r, known) /\ Evaluation(r) \in Held(M) /\ Causation(r) \in Held(M)
      /\ Overridden(r) => Overriding(r) \in Held(M)
  BY <1>1, <1>5, MeshEdgesAdded
<1>10. AllAddedBy(F, r, known)
  BY <1>1, <1>3, <1>6, FollowedAdded DEF AllAddedBy, AddedBy
<1>11. AllAddedBy(S, r, known)
  <2>1. PICK T : T = {Edge(g.history[i], n, "linked_via_same_action", ActionType(r)) : i \in 1 .. Len(g.history)}
    OBVIOUS
  <2>2. S \in Seq(T)
    <3>1. h.history = g.history /\ Len(h.history) \in Nat
      <4>1. h.history = g.history
        BY <1>4
      <4>2. Len(g.history) \in Nat
        BY DEF AList
      <4>. QED  BY <4>1, <4>2
    <3>2. S \in Seq({Edge(h.history[i], n, "linked_via_same_action", ActionType(r)) : i \in 1 .. Len(h.history)})
      BY <1>7, <3>1, SameActionType
    <3>. QED  BY <2>1, <3>1, <3>2
  <2>3. ASSUME NEW e \in T
        PROVE  AddedBy(e, r, known)
    <3>1. PICK i \in 1 .. Len(g.history) : e = Edge(g.history[i], n, "linked_via_same_action", ActionType(r))
      BY <2>1
    <3>2. g.history[i] \in known
      BY <1>1 DEF Held
    <3>. QED  BY <1>3, <3>1, <3>2 DEF AddedBy, Edge, Ends
  <2>4. Held(S) \subseteq T
    BY <2>2 DEF Held
  <2>. QED  BY <2>2, <2>3, <2>4 DEF AllAddedBy, AList
<1>12. AList(g.edges \o M) /\ Held(g.edges \o M) = Held(g.edges) \cup Held(M)
  BY <1>9, HeldJoined DEF AllAddedBy
<1>13. AList(g.edges \o M \o F) /\ Held(g.edges \o M \o F) = Held(g.edges \o M) \cup Held(F)
  BY <1>10, <1>12, HeldJoined DEF AllAddedBy
<1>14. AList(g.edges \o M \o F \o S) /\ Held(g.edges \o M \o F \o S) = Held(g.edges \o M \o F) \cup Held(S)
  BY <1>11, <1>13, HeldJoined DEF AllAddedBy
<1>15. PICK extra : extra = Held(M) \cup Held(F) \cup Held(S)
  OBVIOUS
<1>16. GrownBy(g.edges, IngestMesh(g, r).edges, extra)
  BY <1>8, <1>12, <1>13, <1>14, <1>15 DEF GrownBy
<1>17. \A e \in extra : AddedBy(e, r, known)
  BY <1>9, <1>10, <1>11, <1>15 DEF AllAddedBy
<1>. QED  BY <1>1, <1>9, <1>15, <1>16, <1>17

(* Edges of transactions are none of a decision's.                         *)
OfTransaction(e, known) ==
  Ends(e) \subseteq known /\ e.type \notin {"overrode", "evaluated_by", "caused_outcome"}

AuditIds(entry) ==
  {<<"tx", entry.transaction_id>>, <<"agent", entry.agent_id>>,
   <<"entity", entry.recipient>>, <<"tier", entry.policy_tier>>}

LEMMA IngestAuditAdds ==
  ASSUME NEW g, NEW entry, AList(g.edges), AList(g.history)
  PROVE  \E extra : /\ GrownBy(g.edges, IngestAudit(g, entry).edges, extra)
                    /\ \A e \in extra : OfTransaction(e, AuditIds(entry) \cup Held(g.history))
<1>1. PICK known : known = AuditIds(entry) \cup Held(g.history)
  OBVIOUS
<1>2. PICK tx : tx = <<"tx", entry.transaction_id>>
  OBVIOUS
<1>3. PICK a : a = Edge(<<"agent", entry.agent_id>>, tx, "initiated", "-")
  OBVIOUS
<1>4. PICK b : b = Edge(tx, <<"entity", entry.recipient>>, "linked_to", "recipient")
  OBVIOUS
<1>5. PICK c : c = Edge(tx, <<"tier", entry.policy_tier>>, "evaluated_as", "-")
  OBVIOUS
<1>6. PICK A : A = <<a, b, c>>
  OBVIOUS
<1>7. PICK F : F = Followed(g.history, tx)
  OBVIOUS
<1>8. IngestAudit(g, entry).edges = g.edges \o A \o F
  BY <1>2, <1>3, <1>4, <1>5, <1>6, <1>7 DEF IngestAudit
<1>9. AList(A) /\ Held(A) = {a, b, c}
  <2>1. A \in Seq({a, b, c}) /\ Len(A) = 3 /\ A[1] = a /\ A[2] = b /\ A[3] = c
    BY <1>6
  <2>. QED  BY <2>1 DEF AList, Held
<1>10. tx \in known /\ <<"agent", entry.agent_id>> \in known
       /\ <<"entity", entry.recipient>> \in known /\ <<"tier", entry.policy_tier>> \in known
  BY <1>1, <1>2 DEF AuditIds
<1>11. OfTransaction(a, known) /\ OfTransaction(b, known) /\ OfTransaction(c, known)
  BY <1>3, <1>4, <1>5, <1>10 DEF OfTransaction, Edge, Ends
<1>12. AList(F) /\ \A e \in Held(F) : OfTransaction(e, known)
  BY <1>1, <1>7, <1>10, FollowedAdded DEF OfTransaction
<1>13. AList(g.edges \o A) /\ Held(g.edges \o A) = Held(g.edges) \cup Held(A)
  BY <1>9, HeldJoined
<1>14. AList(g.edges \o A \o F) /\ Held(g.edges \o A \o F) = Held(g.edges \o A) \cup Held(F)
  BY <1>12, <1>13, HeldJoined
<1>15. PICK extra : extra = {a, b, c} \cup Held(F)
  OBVIOUS
<1>16. GrownBy(g.edges, IngestAudit(g, entry).edges, extra)
  BY <1>8, <1>9, <1>13, <1>14, <1>15 DEF GrownBy
<1>. QED  BY <1>1, <1>11, <1>12, <1>15, <1>16

-----------------------------------------------------------------------------
(* What every entry keeps.                                                 *)

LEMMA MeshKeepsGraph ==
  ASSUME NEW g, NEW dec, DOMAIN dec = ActionIds, GraphOK(g, dec), NEW id \in ActionIds,
         NEW d, IsDecision(d), d.action_id = id
  PROVE  GraphOK(IngestMesh(g, d), [dec EXCEPT ![id] = d])
<1>1. PICK h : h = IngestMesh(g, d)
  OBVIOUS
<1>2. PICK n : n = <<"decision", id>>
  OBVIOUS
<1>3. PICK made : made = MeshNodes(d, Len(g.history) + 1)
  OBVIOUS
<1>4. PICK after : after = [dec EXCEPT ![id] = d]
  OBVIOUS
<1>5. h.nodes = WithNodes(g.nodes, made) /\ h.history = Append(g.history, n)
  <2>1. h.nodes = WithNodes(g.nodes, made)
    BY <1>1, <1>3 DEF IngestMesh
  <2>2. h.history = Append(g.history, n)
    BY <1>1, <1>2 DEF IngestMesh
  <2>. QED  BY <2>1, <2>2
<1>6. EntriesOK(g, Told(dec)) /\ \A e \in Held(g.edges) : EdgeOK(e, g.nodes, Told(dec))
  BY DEF GraphOK
<1>7. AList(g.edges) /\ AList(g.history) /\ Held(g.history) = Entered(g.nodes)
  BY <1>6 DEF EntriesOK
<1>8. \E extra : /\ GrownBy(g.edges, h.edges, extra)
                 /\ \A e \in extra : AddedBy(e, d, MeshIds(d) \cup Held(g.history))
                 /\ Evaluation(d) \in extra /\ Causation(d) \in extra
                 /\ Overridden(d) => Overriding(d) \in extra
  <2>1. Len(d.votes) \in Nat
    BY DEF IsDecision
  <2>. QED  BY <1>1, <1>7, <2>1, IngestMeshAdds
<1>9. PICK extra : /\ GrownBy(g.edges, h.edges, extra)
                   /\ \A e \in extra : AddedBy(e, d, MeshIds(d) \cup Held(g.history))
                   /\ Evaluation(d) \in extra /\ Causation(d) \in extra
                   /\ Overridden(d) => Overriding(d) \in extra
  BY <1>8
<1>10. AList(h.edges) /\ Held(h.edges) = Held(g.edges) \cup extra
  BY <1>9 DEF GrownBy
<1>11. AList(h.history) /\ Held(h.history) = Held(g.history) \cup {n}
  BY <1>5, <1>7, HeldAppend
<1>12. /\ DOMAIN made = MeshIds(d) /\ n \in DOMAIN made /\ <<"policy", id>> \in DOMAIN made
       /\ \A m \in DOMAIN made : m[1] \in {"decision", "tx"} => m = n
       /\ \A x : <<"policy", x>> \in DOMAIN made => x = id
       /\ made[<<"policy", id>>] = [pass |-> d.policy_pass, reason |-> d.reason, time |-> Len(g.history) + 1]
  BY <1>2, <1>3, MeshIdsAre
<1>13. made[n] = [final_decision |-> d.final, amount |-> d.amount, action_type |-> ActionType(d),
                  reason |-> d.reason, final_reason |-> d.final_reason, time |-> Len(g.history) + 1]
  BY <1>2, <1>3, MeshNodesAt
<1>14. /\ DOMAIN h.nodes = DOMAIN g.nodes \cup MeshIds(d)
       /\ \A m \in DOMAIN g.nodes : m \notin DOMAIN made => h.nodes[m] = g.nodes[m]
  <2>1. /\ DOMAIN WithNodes(g.nodes, made) = DOMAIN g.nodes \cup DOMAIN made
        /\ \A m \in DOMAIN g.nodes \ DOMAIN made : WithNodes(g.nodes, made)[m] = g.nodes[m]
    BY WithNodesAt
  <2>. QED  BY <1>5, <1>12, <2>1
<1>15. h.nodes[n].amount = d.amount /\ h.nodes[<<"policy", id>>].reason = d.reason
  <2>1. "amount" \in DOMAIN made[n] /\ made[n].amount = d.amount
    BY <1>13
  <2>2. "reason" \in DOMAIN made[<<"policy", id>>] /\ made[<<"policy", id>>].reason = d.reason
    BY <1>12
  <2>. QED  BY <1>5, <1>12, <2>1, <2>2, NewFields
<1>16. /\ after[id] = d /\ \A x \in ActionIds : x # id => after[x] = dec[x]
       /\ Told(after) = Told(dec) \cup {id}
  <2>1. d # Undecided
    BY NoDecision DEF Unanswered
  <2>2. after[id] = d /\ \A x \in ActionIds : x # id => after[x] = dec[x]
    BY <1>4
  <2>. QED  BY <2>1, <2>2 DEF Told
<1>17. Entered(h.nodes) = Entered(g.nodes) \cup {n}
  <2>1. n[1] = "decision"
    BY <1>2
  <2>2. n \in MeshIds(d) /\ \A m \in MeshIds(d) : m[1] \in {"decision", "tx"} => m = n
    BY <1>12
  <2>. QED  BY <1>14, <2>1, <2>2 DEF Entered
<1>18. EntriesOK(h, Told(after))
  <2>1. ASSUME NEW m \in Held(h.history)
        PROVE  h.nodes[m].amount \in Int
    <3>1. CASE m = n
      BY <1>15, <3>1 DEF IsDecision
    <3>2. CASE m # n
      <4>1. m \in Held(g.history) /\ m \in DOMAIN g.nodes /\ m[1] \in {"decision", "tx"}
        BY <1>7, <1>11, <2>1, <3>2 DEF Entered
      <4>2. h.nodes[m] = g.nodes[m]
        BY <1>12, <1>14, <3>2, <4>1
      <4>. QED  BY <1>6, <4>1, <4>2 DEF EntriesOK
    <3>. QED  BY <3>1, <3>2
  <2>2. ASSUME NEW m \in Held(h.history), m[1] = "decision"
        PROVE  \E x \in Told(after) : m = <<"decision", x>>
    BY <1>2, <1>6, <1>11, <1>16, <2>2 DEF EntriesOK
  <2>. QED  BY <1>7, <1>10, <1>11, <1>17, <2>1, <2>2 DEF EntriesOK
<1>19. ASSUME NEW e \in Held(h.edges)
       PROVE  EdgeOK(e, h.nodes, Told(after))
  <2>1. CASE e \in Held(g.edges)
    <3>1. EdgeOK(e, g.nodes, Told(dec))
      BY <1>6, <2>1
    <3>. QED  BY <1>14, <1>16, <3>1 DEF EdgeOK
  <2>2. CASE e \in extra
    <3>1. AddedBy(e, d, MeshIds(d) \cup Held(g.history))
      BY <1>9, <2>2
    <3>2. Ends(e) \subseteq DOMAIN h.nodes
      BY <1>7, <1>14, <3>1 DEF AddedBy, Entered
    <3>3. e.type = "overrode" => \E x \in Told(after) : e.from = <<"policy", x>> /\ e.to = <<"consensus", x>>
      BY <1>16, <3>1 DEF AddedBy
    <3>4. e.type = "evaluated_by" => \A x \in ActionIds : e.to = <<"consensus", x>> => e.from = <<"decision", x>>
      BY <3>1 DEF AddedBy
    <3>5. e.type = "caused_outcome" => \A x \in ActionIds : e.from = <<"decision", x>> => e.to = <<"outcome", x>>
      BY <3>1 DEF AddedBy
    <3>. QED  BY <3>2, <3>3, <3>4, <3>5 DEF EdgeOK
  <2>. QED  BY <1>10, <2>1, <2>2
<1>20. ASSUME NEW x \in Told(after)
       PROVE  HasEdges(h, x) /\ StatesReason(h.nodes, x, after[x])
  <2>1. CASE x = id
    <3>1. HasEdges(h, x)
      <4>1. Evaluation(d) \in Held(h.edges) /\ Causation(d) \in Held(h.edges)
        BY <1>9, <1>10
      <4>2. Evaluation(d).type = "evaluated_by" /\ Evaluation(d).to = <<"consensus", x>>
        BY <2>1 DEF Evaluation, Edge
      <4>3. Causation(d).type = "caused_outcome" /\ Causation(d).from = <<"decision", x>>
        BY <2>1 DEF Causation, Edge
      <4>. QED  BY <4>1, <4>2, <4>3 DEF HasEdges
    <3>2. StatesReason(h.nodes, x, after[x])
      BY <1>12, <1>14, <1>15, <1>16, <2>1 DEF StatesReason
    <3>. QED  BY <3>1, <3>2
  <2>2. CASE x # id
    <3>1. x \in Told(dec) /\ after[x] = dec[x]
      BY <1>16, <2>2 DEF Told
    <3>2. HasEdges(g, x) /\ StatesReason(g.nodes, x, dec[x])
      BY <3>1 DEF GraphOK
    <3>3. HasEdges(h, x)
      BY <1>10, <3>2 DEF HasEdges
    <3>4. <<"policy", x>> \notin DOMAIN made
      BY <1>12, <2>2
    <3>5. StatesReason(h.nodes, x, after[x])
      BY <1>14, <3>1, <3>2, <3>4 DEF StatesReason
    <3>. QED  BY <3>3, <3>5
  <2>. QED  BY <2>1, <2>2
<1>21. ASSUME NEW x \in ActionIds
       PROVE  OverrideOf(h, x, after[x])
  <2>1. OverrideOf(g, x, dec[x])
    BY DEF GraphOK
  <2>2. CASE x = id
    <3>1. n \in Held(h.history)
      BY <1>11
    <3>2. ASSUME Once(h.history, n)
          PROVE  OverrodeIn(h.edges, id) <=> Overridden(d)
      <4>1. n \notin Held(g.history)
        BY <1>5, <1>7, <3>2, OnceLonger
      <4>2. ~OverrodeIn(g.edges, id)
        BY <1>2, <2>1, <2>2, <4>1 DEF OverrideOf
      <4>3. ASSUME Overridden(d)
            PROVE  OverrodeIn(h.edges, id)
        <5>1. Overriding(d) \in Held(h.edges)
          BY <1>9, <1>10, <4>3
        <5>2. Overriding(d).type = "overrode" /\ Overriding(d).from = <<"policy", id>>
          BY DEF Overriding, Edge
        <5>. QED  BY <5>1, <5>2 DEF OverrodeIn
      <4>4. ASSUME OverrodeIn(h.edges, id)
            PROVE  Overridden(d)
        <5>1. PICK e \in Held(h.edges) : e.type = "overrode" /\ e.from = <<"policy", id>>
          BY <4>4 DEF OverrodeIn
        <5>2. e \in extra
          BY <1>10, <4>2, <5>1 DEF OverrodeIn
        <5>. QED  BY <1>9, <5>1, <5>2 DEF AddedBy
      <4>. QED  BY <4>3, <4>4
    <3>. QED  BY <1>2, <1>16, <2>2, <3>1, <3>2 DEF OverrideOf
  <2>3. CASE x # id
    <3>1. PICK m : m = <<"decision", x>>
      OBVIOUS
    <3>2. m # n
      BY <1>2, <2>3, <3>1
    <3>3. (Once(h.history, m) <=> Once(g.history, m)) /\ (m \in Held(h.history) <=> m \in Held(g.history))
      BY <1>5, <1>7, <1>11, <3>2, OnceLonger
    <3>4. OverrodeIn(h.edges, x) <=> OverrodeIn(g.edges, x)
      <4>1. \A e \in extra : ~(e.type = "overrode" /\ e.from = <<"policy", x>>)
        BY <1>9, <2>3 DEF AddedBy
      <4>. QED  BY <1>10, <4>1 DEF OverrodeIn
    <3>. QED  BY <1>16, <2>1, <2>3, <3>1, <3>3, <3>4 DEF OverrideOf
  <2>. QED  BY <2>2, <2>3
<1>22. GraphOK(h, after)
  BY <1>18, <1>19, <1>20, <1>21 DEF GraphOK
<1>. QED  BY <1>1, <1>4, <1>22

LEMMA AuditKeepsGraph ==
  ASSUME NEW g, NEW dec, GraphOK(g, dec), NEW entry, entry.amount \in Int
  PROVE  GraphOK(IngestAudit(g, entry), dec)
<1>1. PICK h : h = IngestAudit(g, entry)
  OBVIOUS
<1>2. PICK n : n = <<"tx", entry.transaction_id>>
  OBVIOUS
<1>. DEFINE ids == {<<"tx", entry.transaction_id>>, <<"agent", entry.agent_id>>,
                    <<"entity", entry.recipient>>, <<"tier", entry.policy_tier>>}
            new == [m \in ids |->
                      CASE m = <<"tx", entry.transaction_id>> ->
                             [status |-> entry.status, action |-> entry.action,
                              amount |-> entry.amount, time |-> Len(g.history) + 1]
                        [] m = <<"agent", entry.agent_id>> -> [agent_id |-> entry.agent_id]
                        [] m = <<"entity", entry.recipient>> -> [entity_id |-> entry.recipient]
                        [] m = <<"tier", entry.policy_tier>> -> [tier |-> entry.policy_tier]]
<1>4. PICK made : made = new
  OBVIOUS
<1>5. h.nodes = WithNodes(g.nodes, made) /\ h.history = Append(g.history, n)
  <2>1. IngestAudit(g, entry).nodes = WithNodes(g.nodes, new)
    BY DEF IngestAudit
  <2>2. h.history = Append(g.history, n)
    BY <1>1, <1>2 DEF IngestAudit
  <2>. HIDE DEF new
  <2>. QED  BY <1>1, <1>4, <2>1, <2>2
<1>6. EntriesOK(g, Told(dec)) /\ \A e \in Held(g.edges) : EdgeOK(e, g.nodes, Told(dec))
  BY DEF GraphOK
<1>7. AList(g.edges) /\ AList(g.history) /\ Held(g.history) = Entered(g.nodes)
  BY <1>6 DEF EntriesOK
<1>8. PICK extra : /\ GrownBy(g.edges, h.edges, extra)
                   /\ \A e \in extra : OfTransaction(e, AuditIds(entry) \cup Held(g.history))
  BY <1>1, <1>7, IngestAuditAdds
<1>9. AList(h.edges) /\ Held(h.edges) = Held(g.edges) \cup extra
  BY <1>8 DEF GrownBy
<1>10. AList(h.history) /\ Held(h.history) = Held(g.history) \cup {n}
  BY <1>5, <1>7, HeldAppend
<1>11. /\ DOMAIN made = AuditIds(entry) /\ n \in DOMAIN made /\ n[1] = "tx"
       /\ \A m \in DOMAIN made : m[1] \in {"decision", "tx"} => m = n
       /\ \A x : <<"policy", x>> \notin DOMAIN made
  <2>1. DOMAIN made = ids
    BY <1>4
  <2>. HIDE DEF new
  <2>. QED  BY <1>2, <2>1 DEF AuditIds
<1>12. "amount" \in DOMAIN made[n] /\ made[n].amount = entry.amount
  <2>1. new[<<"tx", entry.transaction_id>>] = [status |-> entry.status, action |-> entry.action,
                                              amount |-> entry.amount, time |-> Len(g.history) + 1]
    OBVIOUS
  <2>. HIDE DEF new
  <2>. QED  BY <1>2, <1>4, <2>1
<1>. HIDE DEF new, ids
<1>13. /\ DOMAIN h.nodes = DOMAIN g.nodes \cup AuditIds(entry)
       /\ \A m \in DOMAIN g.nodes : m \notin DOMAIN made => h.nodes[m] = g.nodes[m]
  <2>1. /\ DOMAIN WithNodes(g.nodes, made) = DOMAIN g.nodes \cup DOMAIN made
        /\ \A m \in DOMAIN g.nodes \ DOMAIN made : WithNodes(g.nodes, made)[m] = g.nodes[m]
    BY WithNodesAt
  <2>. QED  BY <1>5, <1>11, <2>1
<1>14. h.nodes[n].amount = entry.amount
  BY <1>5, <1>11, <1>12, NewFields
<1>15. Entered(h.nodes) = Entered(g.nodes) \cup {n}
  <2>1. n \in AuditIds(entry) /\ \A m \in AuditIds(entry) : m[1] \in {"decision", "tx"} => m = n
    BY <1>11
  <2>. QED  BY <1>11, <1>13, <2>1 DEF Entered
<1>16. EntriesOK(h, Told(dec))
  <2>1. ASSUME NEW m \in Held(h.history)
        PROVE  h.nodes[m].amount \in Int
    <3>1. CASE m = n
      BY <1>14, <3>1
    <3>2. CASE m # n
      <4>1. m \in Held(g.history) /\ m \in DOMAIN g.nodes /\ m[1] \in {"decision", "tx"}
        BY <1>7, <1>10, <2>1, <3>2 DEF Entered
      <4>2. h.nodes[m] = g.nodes[m]
        BY <1>11, <1>13, <3>2, <4>1
      <4>. QED  BY <1>6, <4>1, <4>2 DEF EntriesOK
    <3>. QED  BY <3>1, <3>2
  <2>2. ASSUME NEW m \in Held(h.history), m[1] = "decision"
        PROVE  \E x \in Told(dec) : m = <<"decision", x>>
    <3>1. m \in Held(g.history)
      BY <1>10, <1>11, <2>2
    <3>. QED  BY <1>6, <2>2, <3>1 DEF EntriesOK
  <2>. QED  BY <1>7, <1>9, <1>10, <1>15, <2>1, <2>2 DEF EntriesOK
<1>17. ASSUME NEW e \in Held(h.edges)
       PROVE  EdgeOK(e, h.nodes, Told(dec))
  <2>1. CASE e \in Held(g.edges)
    <3>1. EdgeOK(e, g.nodes, Told(dec))
      BY <1>6, <2>1
    <3>. QED  BY <1>13, <3>1 DEF EdgeOK
  <2>2. CASE e \in extra
    <3>1. OfTransaction(e, AuditIds(entry) \cup Held(g.history))
      BY <1>8, <2>2
    <3>2. Ends(e) \subseteq DOMAIN h.nodes
      BY <1>7, <1>13, <3>1 DEF OfTransaction, Entered
    <3>. QED  BY <3>1, <3>2 DEF EdgeOK, OfTransaction
  <2>. QED  BY <1>9, <2>1, <2>2
<1>18. ASSUME NEW x \in Told(dec)
       PROVE  HasEdges(h, x) /\ StatesReason(h.nodes, x, dec[x])
  <2>1. HasEdges(g, x) /\ StatesReason(g.nodes, x, dec[x])
    BY DEF GraphOK
  <2>2. HasEdges(h, x)
    BY <1>9, <2>1 DEF HasEdges
  <2>3. StatesReason(h.nodes, x, dec[x])
    BY <1>11, <1>13, <2>1 DEF StatesReason
  <2>. QED  BY <2>2, <2>3
<1>19. ASSUME NEW x \in ActionIds
       PROVE  OverrideOf(h, x, dec[x])
  <2>1. OverrideOf(g, x, dec[x])
    BY DEF GraphOK
  <2>2. PICK m : m = <<"decision", x>>
    OBVIOUS
  <2>3. m # n
    BY <1>2, <2>2
  <2>4. (Once(h.history, m) <=> Once(g.history, m)) /\ (m \in Held(h.history) <=> m \in Held(g.history))
    BY <1>5, <1>7, <1>10, <2>3, OnceLonger
  <2>5. OverrodeIn(h.edges, x) <=> OverrodeIn(g.edges, x)
    BY <1>8, <1>9 DEF OverrodeIn, OfTransaction
  <2>. QED  BY <2>1, <2>2, <2>4, <2>5 DEF OverrideOf
<1>20. GraphOK(h, dec)
  BY <1>16, <1>17, <1>18, <1>19 DEF GraphOK
<1>. QED  BY <1>1, <1>20

LEMMA ApprovalKeepsGraph ==
  ASSUME NEW g, NEW dec, GraphOK(g, dec), NEW tx, <<"tx", tx>> \in DOMAIN g.nodes, NEW approved
  PROVE  GraphOK(IngestApproval(g, tx, approved), dec)
<1>1. PICK h : h = IngestApproval(g, tx, approved)
  OBVIOUS
<1>2. PICK human : human = <<"human", "reviewer">>
  OBVIOUS
<1>3. PICK review : review = Edge(human, <<"tx", tx>>, "approved_by", IF approved THEN "APPROVED" ELSE "REJECTED")
  OBVIOUS
<1>4. h.nodes = WithNodes(g.nodes, Reviewer) /\ h.edges = Append(g.edges, review) /\ h.history = g.history
  <2>1. h.nodes = WithNodes(g.nodes, Reviewer)
    BY <1>1 DEF IngestApproval
  <2>2. h.edges = Append(g.edges, review)
    BY <1>1, <1>2, <1>3 DEF IngestApproval
  <2>3. h.history = g.history
    BY <1>1 DEF IngestApproval
  <2>. QED  BY <2>1, <2>2, <2>3
<1>5. EntriesOK(g, Told(dec)) /\ \A e \in Held(g.edges) : EdgeOK(e, g.nodes, Told(dec))
  BY DEF GraphOK
<1>6. AList(g.edges) /\ AList(g.history) /\ Held(g.history) = Entered(g.nodes)
  BY <1>5 DEF EntriesOK
<1>7. AList(h.edges) /\ Held(h.edges) = Held(g.edges) \cup {review}
  BY <1>4, <1>6, HeldAppend
<1>8. DOMAIN Reviewer = {human} /\ human[1] = "human"
  BY <1>2 DEF Reviewer
<1>9. /\ DOMAIN h.nodes = DOMAIN g.nodes \cup {human}
      /\ \A m \in DOMAIN g.nodes : m # human => h.nodes[m] = g.nodes[m]
  <2>1. /\ DOMAIN WithNodes(g.nodes, Reviewer) = DOMAIN g.nodes \cup DOMAIN Reviewer
        /\ \A m \in DOMAIN g.nodes \ DOMAIN Reviewer : WithNodes(g.nodes, Reviewer)[m] = g.nodes[m]
    BY WithNodesAt
  <2>. QED  BY <1>4, <1>8, <2>1
<1>10. Entered(h.nodes) = Entered(g.nodes) /\ \A m \in Entered(g.nodes) : h.nodes[m] = g.nodes[m]
  BY <1>8, <1>9 DEF Entered
<1>11. EntriesOK(h, Told(dec))
  BY <1>4, <1>5, <1>7, <1>10 DEF EntriesOK
<1>12. ASSUME NEW e \in Held(h.edges)
       PROVE  EdgeOK(e, h.nodes, Told(dec))
  <2>1. CASE e \in Held(g.edges)
    <3>1. EdgeOK(e, g.nodes, Told(dec))
      BY <1>5, <2>1
    <3>. QED  BY <1>9, <3>1 DEF EdgeOK
  <2>2. CASE e = review
    <3>1. e.from = human /\ e.to = <<"tx", tx>> /\ e.type = "approved_by"
      BY <1>3, <2>2 DEF Edge
    <3>. QED  BY <1>9, <3>1 DEF EdgeOK, Ends
  <2>. QED  BY <1>7, <2>1, <2>2
<1>13. ASSUME NEW x \in Told(dec)
       PROVE  HasEdges(h, x) /\ StatesReason(h.nodes, x, dec[x])
  <2>1. HasEdges(g, x) /\ StatesReason(g.nodes, x, dec[x])
    BY DEF GraphOK
  <2>2. HasEdges(h, x)
    BY <1>7, <2>1 DEF HasEdges
  <2>3. <<"policy", x>> # human
    BY <1>2
  <2>4. StatesReason(h.nodes, x, dec[x])
    BY <1>9, <2>1, <2>3 DEF StatesReason
  <2>. QED  BY <2>2, <2>4
<1>14. ASSUME NEW x \in ActionIds
       PROVE  OverrideOf(h, x, dec[x])
  <2>1. OverrideOf(g, x, dec[x])
    BY DEF GraphOK
  <2>2. review.type = "approved_by"
    BY <1>3 DEF Edge
  <2>3. OverrodeIn(h.edges, x) <=> OverrodeIn(g.edges, x)
    BY <1>7, <2>2 DEF OverrodeIn
  <2>. QED  BY <1>4, <2>1, <2>3 DEF OverrideOf
<1>15. GraphOK(h, dec)
  BY <1>11, <1>12, <1>13, <1>14 DEF GraphOK
<1>. QED  BY <1>1, <1>15

(* Nothing is decided and nothing held at the start.                       *)
LEMMA EmptyGraphOK ==
  ASSUME NEW dec, \A x \in ActionIds : dec[x] = Undecided
  PROVE  GraphOK(EmptyGraph, dec)
<1>1. EmptyGraph.nodes = [n \in {} |-> {}] /\ EmptyGraph.edges = <<>> /\ EmptyGraph.history = <<>>
  BY DEF EmptyGraph
<1>2. AList(<<>>) /\ Held(<<>>) = {} /\ Len(<<>>) = 0
  BY HeldNothing
<1>3. Told(dec) = {}
  BY DEF Told
<1>4. Entered(EmptyGraph.nodes) = {}
  BY <1>1 DEF Entered
<1>5. EntriesOK(EmptyGraph, Told(dec))
  BY <1>1, <1>2, <1>4 DEF EntriesOK
<1>6. ASSUME NEW x \in ActionIds
      PROVE  OverrideOf(EmptyGraph, x, dec[x])
  <2>1. ~OverrodeIn(EmptyGraph.edges, x)
    BY <1>1, <1>2 DEF OverrodeIn
  <2>2. ~Once(EmptyGraph.history, <<"decision", x>>)
    BY <1>1, <1>2 DEF Once
  <2>. QED  BY <2>1, <2>2 DEF OverrideOf
<1>. QED  BY <1>1, <1>2, <1>3, <1>5, <1>6 DEF GraphOK

LEMMA GraphInit == Init => GraphInv
<1>. SUFFICES ASSUME Init
              PROVE  GraphInv
  OBVIOUS
<1>1. graph = EmptyGraph /\ \A x \in ActionIds : decided[x] = Undecided
  BY DEF Init, MeshInit, Started
<1>. QED  BY <1>1, EmptyGraphOK DEF GraphInv

LEMMA PipelineKeepsGraph ==
  ASSUME DecisionInv, GraphInv, NEW id \in ActionIds, NEW request, IsRequest(request), FullPipeline(id, request)
  PROVE  GraphInv'
<1>1. PICK d : d = Decide(id, request)
  OBVIOUS
<1>2. decided' = [decided EXCEPT ![id] = d] /\ graph' = IngestMesh(graph, d)
  BY <1>1 DEF FullPipeline
<1>3. IsDecision(d) /\ d.action_id = id
  BY <1>1, DecideIsDecision
<1>4. DOMAIN decided = ActionIds /\ GraphOK(graph, decided)
  BY DEF DecisionInv, GraphInv
<1>5. GraphOK(IngestMesh(graph, d), [decided EXCEPT ![id] = d])
  BY <1>3, <1>4, MeshKeepsGraph
<1>. QED  BY <1>2, <1>5 DEF GraphInv

LEMMA GraphNext ==
  ASSUME StreamInv, DecisionInv, ReviewInv, GraphInv, [Next]_vars
  PROVE  GraphInv'
<1>1. ASSUME NEW s \in Streams, HandleEvaluate(s)
      PROVE  GraphInv'
  <2>1. s \in ActionIds /\ IsRequest(asked[s])
    BY <1>1, GivenRequests DEF HandleEvaluate, StreamInv, ActionIds
  <2>2. UNCHANGED <<decided, graph>> \/ FullPipeline(s, asked[s])
    BY <1>1 DEF HandleEvaluate
  <2>3. CASE UNCHANGED <<decided, graph>>
    BY <2>3 DEF GraphInv
  <2>4. CASE FullPipeline(s, asked[s])
    BY <2>1, <2>4, PipelineKeepsGraph
  <2>. QED  BY <2>2, <2>3, <2>4
<1>2. ASSUME NEW request \in Unnamed, EvaluateUnnamed(request)
      PROVE  GraphInv'
  <2>1. NoId \in ActionIds
    BY DEF ActionIds
  <2>. QED  BY <1>2, <2>1, GivenRequests, PipelineKeepsGraph DEF EvaluateUnnamed
<1>3. ASSUME NEW tx \in Transactions, NEW request \in ToVerify, Verify(tx, request)
      PROVE  GraphInv'
  <2>1. PICK entry : entry = [transaction_id |-> tx, agent_id |-> "assistant", recipient |-> request.recipient,
                              action |-> request.action, amount |-> request.amount,
                              status |-> CheckPolicy(request), policy_tier |-> PolicyTier(CheckPolicy(request))]
    OBVIOUS
  <2>2. graph' = IngestAudit(graph, entry) /\ decided' = decided
    BY <1>3, <2>1 DEF Verify
  <2>3. entry.amount \in Int
    BY <2>1, MeshAssumption
  <2>4. GraphOK(IngestAudit(graph, entry), decided)
    BY <2>3, AuditKeepsGraph DEF GraphInv
  <2>. QED  BY <2>2, <2>4 DEF GraphInv
<1>4. ASSUME NEW tx \in Transactions, NEW approved \in BOOLEAN, ReviewerDecides(tx, approved)
      PROVE  GraphInv'
  <2>1. graph' = IngestApproval(graph, tx, approved) /\ decided' = decided
    BY <1>4 DEF ReviewerDecides
  <2>2. tx \in pending
    BY <1>4 DEF ReviewerDecides, HumanApprove
  <2>3. ReviewOf(tx, graph.nodes, graph.edges, audit, pending)
    BY DEF ReviewInv
  <2>4. <<"tx", tx>> \in DOMAIN graph.nodes
    BY <2>2, <2>3, Zenon DEF ReviewOf
  <2>5. GraphOK(IngestApproval(graph, tx, approved), decided)
    BY <2>4, ApprovalKeepsGraph DEF GraphInv
  <2>. QED  BY <2>1, <2>5 DEF GraphInv
<1>5. ASSUME VaultRestarts
      PROVE  GraphInv'
  <2>1. graph' = EmptyGraph /\ \A x \in ActionIds : decided'[x] = Undecided
    BY <1>5 DEF VaultRestarts, MeshRestart, Started
  <2>2. GraphOK(EmptyGraph, decided')
    BY <2>1, EmptyGraphOK
  <2>. QED  BY <2>1, <2>2 DEF GraphInv
<1>6. ASSUME UNCHANGED <<graph, decided>>
      PROVE  GraphInv'
  BY <1>6 DEF GraphInv
<1>7. ASSUME NEW t \in Tenants, TenantConfigures(t)
      PROVE  UNCHANGED <<graph, decided>>
  BY <1>7 DEF TenantConfigures, Configure, ResetConfig
<1>8. ASSUME NEW s \in Streams, \/ HandleRecord(s) \/ Stream(s) \/ Disconnect(s)
                                \/ \E request \in Requests : Start(s, request)
      PROVE  UNCHANGED <<graph, decided>>
  BY <1>8 DEF HandleRecord, Stream, TimeOut, Answered, Complete, Disconnect, Start, vault
<1>9. CASE UNCHANGED vars
  BY <1>6, <1>9 DEF vars, vault
<1>. QED  BY <1>1, <1>2, <1>3, <1>4, <1>5, <1>6, <1>7, <1>8, <1>9 DEF Next

-----------------------------------------------------------------------------
(* What is answered from it.                                               *)

LEMMA OnceDecided == \A id \in ActionIds : DecidedOnly(id) <=> decided[id] # Undecided /\ Once(graph.history, <<"decision", id>>)
  BY DEF DecidedOnly, Once

LEMMA OverridesLead ==
  ASSUME NEW g, NEW dec, GraphOK(g, dec), NEW e \in OverrodeEdges(g)
  PROVE  \E x \in Told(dec) : /\ e.from = <<"policy", x>>
                              /\ ReasonOf(g, e) = dec[x].reason /\ DecisionOf(g, e) = <<"decision", x>>
<1>1. e \in Held(g.edges) /\ e.type = "overrode"
  BY DEF OverrodeEdges
<1>2. AList(g.edges) /\ \A d \in Held(g.edges) : EdgeOK(d, g.nodes, Told(dec))
  BY DEF GraphOK, EntriesOK
<1>3. PICK x \in Told(dec) : e.from = <<"policy", x>> /\ e.to = <<"consensus", x>>
  BY <1>1, <1>2 DEF EdgeOK
<1>4. x \in ActionIds
  BY DEF Told
<1>5. HasEdges(g, x) /\ StatesReason(g.nodes, x, dec[x])
  BY DEF GraphOK
<1>6. OverrideLeads(g, e, x)
  <2>1. \E d \in Held(g.edges) : d.type = "evaluated_by" /\ d.to = e.to
    BY <1>3, <1>5 DEF HasEdges
  <2>2. ASSUME NEW d \in Held(g.edges), d.type = "evaluated_by", d.to = e.to
        PROVE  d.from = <<"decision", x>>
    BY <1>2, <1>3, <1>4, <2>2 DEF EdgeOK
  <2>. QED  BY <1>3, <2>1, <2>2 DEF OverrideLeads
<1>7. DecisionOf(g, e) = <<"decision", x>>
  BY <1>2, <1>6, DecisionOfIs
<1>8. ReasonOf(g, e) = dec[x].reason
  BY <1>3, <1>5 DEF ReasonOf, StatesReason
<1>. QED  BY <1>3, <1>7, <1>8

LEMMA DriftExact ==
  ASSUME DecisionInv, GraphInv
  PROVE  DriftReportExact
<1>1. PICK report : report = DetectPolicyDrift(graph)
  OBVIOUS
<1>2. GraphOK(graph, decided) /\ AList(graph.edges)
  BY DEF GraphInv, GraphOK, EntriesOK
<1>3. /\ DOMAIN report = {ReasonOf(graph, e) : e \in OverrodeEdges(graph)}
      /\ \A r \in DOMAIN report : Reports(report, graph, r)
  BY <1>1, <1>2, ReportIs
<1>4. ASSUME NEW id \in ActionIds, DecidedOnly(id)
      PROVE  LET naming == {r \in DOMAIN report : <<"decision", id>> \in Range(report[r].occurrences)}
             IN  IF decided[id].consensus = "APPROVE" /\ decided[id].final = "BLOCK"
                 THEN \/ naming = {decided[id].reason}
                      \/ naming = {} /\ report[decided[id].reason].occurrence_count > 5
                 ELSE naming = {}
  <2>1. PICK naming : naming = {r \in DOMAIN report : <<"decision", id>> \in Range(report[r].occurrences)}
    OBVIOUS
  <2>2. decided[id] # Undecided /\ Once(graph.history, <<"decision", id>>)
    BY <1>4, OnceDecided
  <2>3. IsDecision(decided[id])
    BY <2>2 DEF DecisionInv, DecidedAndTold
  <2>4. OverrodeIn(graph.edges, id) <=> Overridden(decided[id])
    BY <1>2, <2>2 DEF GraphOK, OverrideOf
  <2>5. Overridden(decided[id]) <=> decided[id].consensus = "APPROVE" /\ decided[id].final = "BLOCK"
    BY <2>3 DEF IsDecision, Overridden
  <2>6. ASSUME NEW r \in naming
        PROVE  r = decided[id].reason /\ OverrodeIn(graph.edges, id)
    <3>1. r \in DOMAIN report /\ <<"decision", id>> \in Range(report[r].occurrences)
      BY <2>1
    <3>2. PICK e \in OverrodeEdges(graph) : ReasonOf(graph, e) = r /\ DecisionOf(graph, e) = <<"decision", id>>
      BY <1>3, <3>1 DEF Reports
    <3>3. PICK x \in Told(decided) : /\ e.from = <<"policy", x>>
                                     /\ ReasonOf(graph, e) = decided[x].reason
                                     /\ DecisionOf(graph, e) = <<"decision", x>>
      BY <1>2, OverridesLead
    <3>4. x = id
      BY <3>2, <3>3
    <3>. QED  BY <3>2, <3>3, <3>4 DEF OverrodeIn, OverrodeEdges
  <2>7. CASE ~Overridden(decided[id])
    <3>1. naming = {}
      BY <2>4, <2>6, <2>7
    <3>. QED  BY <2>1, <2>5, <2>7, <3>1
  <2>8. CASE Overridden(decided[id])
    <3>1. PICK reason : reason = decided[id].reason
      OBVIOUS
    <3>2. PICK e \in Held(graph.edges) : e.type = "overrode" /\ e.from = <<"policy", id>>
      BY <2>4, <2>8 DEF OverrodeIn
    <3>3. e \in OverrodeEdges(graph)
      BY <3>2 DEF OverrodeEdges
    <3>4. PICK x \in Told(decided) : /\ e.from = <<"policy", x>>
                                     /\ ReasonOf(graph, e) = decided[x].reason
                                     /\ DecisionOf(graph, e) = <<"decision", x>>
      BY <1>2, <3>3, OverridesLead
    <3>5. ReasonOf(graph, e) = reason /\ DecisionOf(graph, e) = <<"decision", id>>
      BY <3>1, <3>2, <3>4
    <3>6. reason \in DOMAIN report
      BY <1>3, <3>3, <3>5
    <3>7. Reports(report, graph, reason)
      BY <1>3, <3>6
    <3>8. report[reason].occurrence_count \in Nat
      BY <3>7 DEF Reports
    <3>9. report[reason].occurrence_count <= 5 => reason \in naming
      BY <2>1, <3>3, <3>5, <3>6, <3>7 DEF Reports
    <3>10. naming \subseteq {reason}
      BY <2>6, <3>1
    <3>11. naming = {reason} \/ (naming = {} /\ report[reason].occurrence_count > 5)
      BY <3>8, <3>9, <3>10
    <3>. QED  BY <2>1, <2>5, <2>8, <3>1, <3>11
  <2>. QED  BY <2>7, <2>8
<1>. QED  BY <1>1, <1>4, Zenon DEF DriftReportExact

LEMMA SubgraphsComplete ==
  ASSUME GraphInv
  PROVE  SubgraphComplete
<1>1. AList(graph.edges)
  BY DEF GraphInv, GraphOK, EntriesOK
<1>2. ASSUME NEW root
      PROVE  FoundAll(graph, root, Subgraph(graph, root))
  BY <1>1, SubgraphFinds
<1>3. ASSUME NEW root, NEW found, FoundAll(graph, root, found)
      PROVE  LET among == {i \in 1 .. Len(graph.edges) : graph.edges[i].from \in found.visited}
                 loops == {i \in among : graph.edges[i].from = graph.edges[i].to}
             IN  /\ found.queue = <<>> /\ root \in found.visited
                 /\ \A i \in 1 .. Len(graph.edges) :
                      (graph.edges[i].from \in found.visited) = (graph.edges[i].to \in found.visited)
                 /\ Range(found.edges) = {graph.edges[i] : i \in among}
                 /\ Len(found.edges) = 2 * Cardinality(among) - Cardinality(loops)
  BY <1>3 DEF FoundAll
<1>. QED  BY <1>2, <1>3 DEF SubgraphComplete

LEMMA QueriesConnected ==
  ASSUME GraphInv
  PROVE  QueryConnected
<1>1. IsContext(graph)
  BY DEF GraphInv, GraphOK, EntriesOK, EdgeOK, IsContext
<1>2. ASSUME NEW matches
      PROVE  LET found == Expanded(graph, matches)
             IN  /\ {e \in Range(graph.edges) : {e.from, e.to} \cap matches # {}} \subseteq Range(found.edges)
                 /\ found.nodes = matches \cup UNION {{e.from, e.to} : e \in Range(found.edges)}
  <2>1. PICK found : found = Expanded(graph, matches)
    OBVIOUS
  <2>2. Connected(found, graph, matches)
    BY <1>1, <2>1, ExpandedIs
  <2>3. Range(found.edges) = Held(found.edges) /\ Range(graph.edges) = Held(graph.edges)
    BY <1>1, <2>2, HeldFinite DEF Connected, IsContext
  <2>4. {e \in Range(graph.edges) : {e.from, e.to} \cap matches # {}} \subseteq Range(found.edges)
    BY <2>2, <2>3 DEF Connected, Ends
  <2>5. found.nodes = matches \cup UNION {{e.from, e.to} : e \in Range(found.edges)}
    BY <2>2, <2>3 DEF Connected, Ends
  <2>. QED  BY <2>1, <2>4, <2>5
<1>. QED  BY <1>2 DEF QueryConnected

LEMMA PrecedentsAreExact ==
  ASSUME DecisionInv, GraphInv
  PROVE  PrecedentsExact
<1>1. GraphOK(graph, decided) /\ EntriesOK(graph, Told(decided))
  BY DEF GraphInv, GraphOK
<1>2. SUFFICES ASSUME NEW question \in Precedents
               PROVE  LET cards == FindPrecedents(graph, question)
                      IN  /\ \A i \in 1 .. Len(cards) :
                               cards[i].node[1] = "decision" =>
                                 cards[i].outcome = graph.nodes[cards[i].node].final_decision
                          /\ \E entry \in [1 .. Len(cards) -> 1 .. Len(graph.history)] :
                               Sorted(cards, entry, graph.history)
  BY DEF PrecedentsExact, Sorted
<1>3. PICK cards : cards = FindPrecedents(graph, question)
  OBVIOUS
<1>4. IsAsked(question)
  BY MeshAssumption DEF IsAsked
<1>5. /\ \A i \in 1 .. Len(cards) : cards[i].outcome = OutcomeOf(graph, cards[i].node)
      /\ \A i \in 1 .. Len(cards) : cards[i].node \in Held(graph.history)
      /\ \E entry \in [1 .. Len(cards) -> 1 .. Len(graph.history)] : Sorted(cards, entry, graph.history)
  BY <1>1, <1>3, <1>4, PrecedentsSorted DEF EntriesOK
<1>6. ASSUME NEW n \in Held(graph.history), n[1] = "decision"
      PROVE  OutcomeOf(graph, n) = graph.nodes[n].final_decision
  <2>1. PICK x \in Told(decided) : n = <<"decision", x>>
    BY <1>1, <1>6 DEF EntriesOK
  <2>2. x \in ActionIds /\ decided[x] # Undecided
    BY DEF Told
  <2>3. TellsDecision(graph.nodes, x, decided[x])
    BY <2>2 DEF DecisionInv, DecidedAndTold
  <2>4. PICK leads : leads = {i \in 1 .. Len(graph.edges) :
                                graph.edges[i].from = n /\ graph.edges[i].type = "caused_outcome"}
    OBVIOUS
  <2>5. leads # {}
    <3>1. HasEdges(graph, x)
      BY <1>1 DEF GraphOK
    <3>. QED  BY <2>1, <2>4, <3>1 DEF HasEdges, Held
  <2>6. Min(leads) \in leads
    <3>1. leads \subseteq Nat
      <4>1. Len(graph.edges) \in Nat
        BY <1>1 DEF EntriesOK, AList
      <4>. QED  BY <2>4, <4>1
    <3>. QED  BY <2>5, <3>1, MinIn
  <2>7. graph.edges[Min(leads)].to = <<"outcome", x>>
    <3>1. PICK e : e = graph.edges[Min(leads)]
      OBVIOUS
    <3>2. e \in Held(graph.edges) /\ e.from = <<"decision", x>> /\ e.type = "caused_outcome"
      BY <2>1, <2>4, <2>6, <3>1 DEF Held
    <3>3. EdgeOK(e, graph.nodes, Told(decided))
      BY <1>1, <3>2 DEF GraphOK
    <3>. QED  BY <2>2, <3>1, <3>2, <3>3 DEF EdgeOK
  <2>8. OutcomeOf(graph, n) = graph.nodes[graph.edges[Min(leads)].to].decision
    BY <2>4, <2>5 DEF OutcomeOf
  <2>. QED  BY <2>1, <2>3, <2>7, <2>8 DEF TellsDecision
<1>7. ASSUME NEW i \in 1 .. Len(cards), cards[i].node[1] = "decision"
      PROVE  cards[i].outcome = graph.nodes[cards[i].node].final_decision
  BY <1>5, <1>6, <1>7
<1>. QED  BY <1>3, <1>5, <1>7

LEMMA StatsAreAgreed ==
  ASSUME GraphInv
  PROVE  StatsAgree
<1>1. AList(graph.edges) /\ AList(graph.history) /\ Held(graph.history) = Entered(graph.nodes)
  BY DEF GraphInv, GraphOK, EntriesOK
<1>2. PICK report : report = DetectPolicyDrift(graph)
  OBVIOUS
<1>3. Stats(graph).override_count = Len(Overrides(graph))
  BY DEF Stats
<1>4. Len(Overrides(graph)) = AddedUp([r \in DOMAIN report |-> report[r].occurrence_count])
  BY <1>1, <1>2, OverridesCounted
<1>5. IsFiniteSet(Held(graph.history)) /\ Range(graph.history) = Held(graph.history)
  BY <1>1, HeldFinite
<1>6. AddedUp(Stats(graph).outcomes) = Cardinality(Range(graph.history))
  BY <1>1, <1>5, OutcomesCounted DEF Entered
<1>. QED  BY <1>2, <1>3, <1>4, <1>6 DEF StatsAgree

(* What is answered from the graph is what the decisions put into it, for  *)
(* any streams, callers and transactions, however many and however often   *)
(* PrivateVault restarts: the drift report names those that were           *)
(* overridden, under their reasons (detect_policy_drift), the breadth      *)
(* first search finds all that is connected (get_decision_subgraph), a     *)
(* query all edges of its matches (query), precedents come with their own  *)
(* outcomes, the closest and latest first (find_precedents), and the       *)
(* statistics count the same (get_stats).                                  *)
THEOREM AnswersFaithfulAlways == Spec => []AnswersFaithful
<1>1. Init => StreamInv /\ DecisionInv /\ ReviewInv /\ GraphInv
  BY DecisionInit, ReviewInit, GraphInit
<1>2. (StreamInv /\ DecisionInv /\ ReviewInv /\ GraphInv) /\ [Next]_vars
        => (StreamInv /\ DecisionInv /\ ReviewInv /\ GraphInv)'
  BY DecisionNext, ReviewNext, GraphNext
<1>3. DecisionInv /\ GraphInv => AnswersFaithful
  BY DriftExact, SubgraphsComplete, QueriesConnected, PrecedentsAreExact, StatsAreAgreed DEF AnswersFaithful
<1>. QED  BY <1>1, <1>2, <1>3, PTL DEF Spec

=============================================================================
