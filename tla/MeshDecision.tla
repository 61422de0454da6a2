---------------------------- MODULE MeshDecision ----------------------------
(***************************************************************************)
(* The multi-agent decisions of PrivateVault: every agent votes by its own *)
(* rules (agent_policy_engine.py), the votes are weighed by trust          *)
(* (drift_aware_quorum.py, trust_registry.py, trust_engine.py) under       *)
(* configured weights (weight_config.py), hard limits may override the     *)
(* consensus, and the agents' trust is adjusted (decision_engine.py).      *)
(* The handlers of PrivateVault never await, so each is one step.          *)
(*                                                                         *)
(* Trust, weights and scores are in units of 0.0001, the precision to      *)
(* which the code rounds; multipliers are in tenths; amounts are dollars.  *)
(* The nested configuration is flattened to the keys that are read.        *)
(***************************************************************************)
EXTENDS ContextGraph, SequencesExt, FiniteSetsExt

CONSTANTS
  ActionIds,    (* the identifiers of actions, NoId among them               *)
  NoId,         (* None: what an omitted identifier stands for               *)
  Agents,       (* the agents that are asked                                 *)
  Tenants       (* tenants that configure weights of their own               *)

VARIABLES
  trust,        (* _dynamic_scores of the trust engine                       *)
  overrides,    (* _tenant_overrides                                         *)
  decided,      (* _audit_store                                              *)
  graph         (* the context graph                                         *)

mesh == <<trust, overrides, decided, graph>>

Undecided == [final |-> "-"]

-----------------------------------------------------------------------------
(* Configuration.                                                          *)

DEFAULT_WEIGHTS ==
  [quorum_threshold |-> 15000, approve_weight |-> 10, reject_weight |-> 10,
   deadlock_action |-> "BLOCK",
   alignment_boost |-> 500, misalignment_penalty |-> 300, policy_miss_penalty |-> 500,
   static_dynamic_blend |-> 6, min_trust |-> 500, max_trust |-> 10000,
   auto_approve_limit |-> 10000, human_review_limit |-> 25000,
   max_discount_amount |-> 250000, max_discount_percent |-> 25,
   approve_below_percent |-> 20, reject_above_percent |-> 30,
   approve_below_amount |-> 200000, reject_above_amount |-> 300000,
   reject_loss_threshold_percent |-> 5, require_kyc |-> TRUE,
   approve_above_margin_percent |-> 15, reject_below_margin_percent |-> 10]

NoOverride == [k \in {} |-> 0]

(* get_weights: the request's override wins over the tenant's, and that    *)
(* over the defaults.                                                      *)
GetWeights(tenant, override) ==
  Updated(Updated(DEFAULT_WEIGHTS, IF tenant \in Tenants THEN overrides[tenant] ELSE NoOverride), override)

(* set_tenant_weights, POST /mesh/configure                                *)
Configure(tenant, patch) ==
  /\ overrides' = [overrides EXCEPT ![tenant] = Updated(@, patch)]
  /\ UNCHANGED <<trust, decided, graph>>

(* reset_tenant_weights, POST /mesh/configure/reset                        *)
ResetConfig(tenant) ==
  /\ overrides' = [overrides EXCEPT ![tenant] = NoOverride]
  /\ UNCHANGED <<trust, decided, graph>>

-----------------------------------------------------------------------------
(* The votes.                                                              *)

(* dict.get                                                                *)
Get(f, key, default) == IF key \in DOMAIN f THEN f[key] ELSE default

DealValue(request) == Get(request.context, "deal_value", request.amount * 5)

(* The discount in percent, as a fraction: the one that is stated, or else *)
(* the one that the amount is of the value of the deal.                    *)
Discount(request) ==
  LET stated == Get(request.context, "discount_percent", 0)
  IN  IF stated = 0 /\ request.amount > 0 /\ DealValue(request) > 0
      THEN [of |-> request.amount * 100, per |-> DealValue(request)]
      ELSE [of |-> stated, per |-> 1]

(* The recipients whose names contain a word of either list: "unknown"     *)
(* and "bank" contain the "nk" that stands for a country.                  *)
Sanctioned == {"sanction", "embargo", "unknown", "bank"}

RiskyRecipients == {"sanction", "unknown", "offshore"}

(* The agents' rules.  What is neither approved nor rejected outright is   *)
(* approved, by the risk agent only if no risk factor is stated.           *)
ApprovesPricing(request, w) ==
  LET discount == Discount(request)
  IN  \/ discount.of <= w.approve_below_percent * discount.per
      \/ discount.of < w.reject_above_percent * discount.per

ApprovesRisk(request, w) ==
  \/ request.amount <= w.approve_below_amount
  \/ /\ request.amount < w.reject_above_amount
     /\ ~ Get(request.context, "new_customer", FALSE)
     /\ ~ Get(request.context, "cross_border", FALSE)

(* Without a deal the margin is 0.                                         *)
ApprovesRevenue(request, w) ==
  LET deal == DealValue(request)
      net == deal - request.amount
  IN  /\ net > 0
      /\ IF deal > 0 THEN net * 100 >= w.reject_loss_threshold_percent * deal
                     ELSE 0 >= w.reject_loss_threshold_percent

ApprovesCompliance(request, w) ==
  /\ Get(request.context, "recipient", "") \notin Sanctioned
  /\ w.require_kyc => Get(request.context, "kyc_status", "verified") \notin {"unknown", "failed", "pending"}
  /\ ~ Get(request.context, "aml_flag", FALSE)

(* The cost is 60% of the value of the deal unless it is stated.           *)
ApprovesMargin(request, w) ==
  LET deal == DealValue(request)
      cost == IF "cost" \in DOMAIN request.context THEN request.context.cost * 100 ELSE deal * 60
      left == (deal - request.amount) * 100 - cost
      reaches(percent) == IF deal > 0 THEN left >= percent * deal ELSE 0 >= percent
  IN  reaches(w.approve_above_margin_percent) \/ reaches(w.reject_below_margin_percent)

(* PolicyEngine.evaluate, under the weights of the tenant: the request's   *)
(* own override does not reach it.                                         *)
Vote(agent, request) ==
  LET w == GetWeights(request.tenant, NoOverride)
      approves ==
        CASE agent = "pricing_agent" -> ApprovesPricing(request, w)
          [] agent = "risk_agent" -> ApprovesRisk(request, w)
          [] agent = "revenue_agent" -> ApprovesRevenue(request, w)
          [] agent = "compliance_agent" -> ApprovesCompliance(request, w)
          [] agent = "margin_agent" -> ApprovesMargin(request, w)
          [] OTHER -> request.amount <= w.auto_approve_limit
  IN  IF approves THEN "APPROVE" ELSE "REJECT"

-----------------------------------------------------------------------------
(* Trust.                                                                  *)

(* TrustRegistry.get: the scores are set at startup only.                  *)
StaticTrust(agent) ==
  CASE agent = "pricing_agent" -> 9000
    [] agent = "risk_agent" -> 7000
    [] agent = "revenue_agent" -> 8000
    [] agent = "compliance_agent" -> 8500
    [] agent = "margin_agent" -> 7500
    [] OTHER -> 5000

Clamp(score, w) == Max({w.min_trust, Min({w.max_trust, score})})

(* Mutant: the two scores are added, not blended.                          *)
CombinedScoreAdded(agent, w) == StaticTrust(agent) + trust[agent]

(* get_combined_score                                                      *)
CombinedScore(agent, w) ==
  Clamp((w.static_dynamic_blend * StaticTrust(agent)
         + (10 - w.static_dynamic_blend) * trust[agent]) \div 10, w)

(* Mutant: agreement with the outcome is rewarded whatever policy said.    *)
AdjustmentBlind(vote, final, pass, w) ==
  LET aligned == (vote = "APPROVE") = (final = "ALLOW")
  IN  IF aligned THEN w.alignment_boost ELSE - w.misalignment_penalty

(* record_outcome: what a vote earns or costs.                             *)
Adjustment(vote, final, pass, w) ==
  LET aligned == (vote = "APPROVE") = (final = "ALLOW")
  IN  IF aligned /\ pass THEN w.alignment_boost
      ELSE IF vote = "APPROVE" /\ ~pass THEN - (w.misalignment_penalty + w.policy_miss_penalty)
      ELSE IF ~aligned THEN - w.misalignment_penalty
      ELSE 0

(* An agent that is listed twice votes twice and is adjusted twice.        *)
TrustAfter(votes, final, pass, w) ==
  LET scores[i \in 0 .. Len(votes)] ==
        IF i = 0 THEN trust
        ELSE [scores[i - 1] EXCEPT
                ![votes[i].agent] = Clamp(@ + Adjustment(votes[i].decision, final, pass, w), w)]
  IN  scores[Len(votes)]

-----------------------------------------------------------------------------
(* The decision.                                                           *)

(* get_result: the sum of the weights of those who voted so.               *)
Score(votes, decision, multiplier, w) ==
  LET sum[i \in 0 .. Len(votes)] ==
        IF i = 0 THEN 0
        ELSE IF votes[i].decision = decision
             THEN sum[i - 1] + CombinedScore(votes[i].agent, w) * multiplier
             ELSE sum[i - 1]
  IN  sum[Len(votes)] \div 10

(* The hard limits that a request exceeds, first to last.                  *)
FailedChecks(request, w) ==
  LET check(rule, fails) == IF fails THEN <<rule>> ELSE <<>>
  IN  check("max_discount_amount", request.amount > w.max_discount_amount)
      \o check("max_discount_percent",
               Get(request.context, "discount_percent", 0) > w.max_discount_percent)
      \o check("hard_block_limit",
               request.action \in {"transfer", "pay_invoice"} /\ request.amount > w.human_review_limit)
      \o check("kyc_sanctions", Get(request.context, "recipient", "") \in RiskyRecipients)

(* What the decision says of the first of them: the rule with what its     *)
(* text names.                                                             *)
Reason(failed, request, w) ==
  IF failed = <<>> THEN <<"passed">>
  ELSE CASE Head(failed) = "max_discount_amount" ->
              <<Head(failed), request.amount, w.max_discount_amount>>
         [] Head(failed) = "max_discount_percent" ->
              <<Head(failed), request.context.discount_percent, w.max_discount_percent>>
         [] Head(failed) = "hard_block_limit" ->
              <<Head(failed), request.amount, w.human_review_limit>>
         [] OTHER -> <<Head(failed), request.context.recipient>>

(* The threshold and the hard limits obey the request's override, the      *)
(* weights of votes and of trust only the tenant's.                        *)
Decide(id, request) ==
  LET w == GetWeights(request.tenant, request.override)
      own == GetWeights(request.tenant, NoOverride)
      votes == [i \in 1 .. Len(request.agents) |->
                  [agent |-> request.agents[i], decision |-> Vote(request.agents[i], request)]]
      approve == Score(votes, "APPROVE", own.approve_weight, own)
      reject == Score(votes, "REJECT", own.reject_weight, own)
      consensus == IF approve >= w.quorum_threshold THEN "APPROVE"
                   ELSE IF reject >= w.quorum_threshold THEN "REJECT"
                   ELSE own.deadlock_action
      failed == FailedChecks(request, w)
      pass == failed = <<>>
  IN  [action_id |-> id, votes |-> votes, approve |-> approve, reject |-> reject,
       threshold |-> w.quorum_threshold, consensus |-> consensus,
       policy_pass |-> pass, failed |-> failed, amount |-> request.amount,
       reason |-> Reason(failed, request, w),
       final |-> IF consensus = "APPROVE" /\ pass THEN "ALLOW" ELSE "BLOCK",
       final_reason |-> IF consensus # "APPROVE" THEN "quorum"
                        ELSE IF pass THEN "approved" ELSE "override"]

(* Mutant: the identifier that was given is not used.                      *)
FullPipelineUnnamed(id, request) ==
  LET result == Decide(NoId, request)
  IN  /\ decided' = [decided EXCEPT ![NoId] = result]
      /\ graph' = IngestMesh(graph, result)
      /\ trust' = TrustAfter(result.votes, result.final, result.policy_pass,
                             GetWeights(request.tenant, NoOverride))
      /\ UNCHANGED overrides

(* full_pipeline                                                           *)
FullPipeline(id, request) ==
  LET result == Decide(id, request)
  IN  /\ decided' = [decided EXCEPT ![id] = result]
      /\ graph' = IngestMesh(graph, result)
      /\ trust' = TrustAfter(result.votes, result.final, result.policy_pass,
                             GetWeights(request.tenant, NoOverride))
      /\ UNCHANGED overrides

(* A discount that is not a number makes the comparisons raise: before     *)
(* anything is stored, for the agents' trust starts where it is anyway.    *)
Raises(request) == "not_a_number" \in DOMAIN request.context

(* Module load and init_mesh_agents.                                       *)
Started ==
  [trust |-> [a \in Agents |-> StaticTrust(a)],
   overrides |-> [t \in Tenants |-> NoOverride],
   decided |-> [id \in ActionIds |-> Undecided],
   graph |-> EmptyGraph]

MeshInit ==
  /\ trust = Started.trust
  /\ overrides = Started.overrides
  /\ decided = Started.decided
  /\ graph = Started.graph

(* All of it lives in memory.                                              *)
MeshRestart ==
  /\ trust' = Started.trust
  /\ overrides' = Started.overrides
  /\ decided' = Started.decided
  /\ graph' = Started.graph

=============================================================================
