---------------------------- MODULE MeshExecution ----------------------------
(***************************************************************************)
(* Multi-agent decisions as they are run: the streams of botbook.dev       *)
(* (MeshOrchestrator in orchestrator.py) ask PrivateVault for a decision   *)
(* and record it in LORK, while others call PrivateVault directly,         *)
(* configure it, and have single transactions verified and reviewed.       *)
(*                                                                         *)
(* A call of a stream is a request in flight: handled, handled without     *)
(* its answer arriving, handled after the stream has given up, or never    *)
(* handled, which is what a lost request is.                               *)
(***************************************************************************)
EXTENDS ContextGraph, SequencesExt, FiniteSetsExt

CONSTANTS
  Streams,      (* calls of execute_mesh_stream; each draws its own mesh_id  *)
  NoId,         (* the identifier that a direct caller leaves out            *)
  Agents, Tenants,
  Requests,     (* the requests of streams that are tried                    *)
  Unnamed,      (* and those of callers that leave the identifier out        *)
  Patches,      (* the weights that a tenant may configure                   *)
  Transactions, Amounts,
  ToVerify,     (* the requests that are tried for transactions              *)
  Filters, Precedents,   (* what is searched for in the graph                *)
  MaxEntries,   (* bound on the graph's history for others than streams      *)
  MaxRestarts   (* bound on the restarts of PrivateVault                     *)

(* Of the weights all but two are numbers.                                 *)
WeightsTyped(weights) ==
  \A k \in DOMAIN weights \ {"deadlock_action", "require_kyc"} : weights[k] \in Int

ASSUME MeshAssumption ==
  /\ NoId \notin Streams
  /\ \A r \in Requests \cup Unnamed :
       r.agents \in Seq(Agents) /\ r.amount \in Int /\ WeightsTyped(r.override)
  /\ \A r \in ToVerify : r.amount \in Int
  /\ \A question \in Precedents :
       question.min_amount \in Int /\ question.max_amount \in Int /\ question.limit \in Nat
  /\ \A patch \in Patches : WeightsTyped(patch)
  /\ Amounts \subseteq Nat
  /\ MaxEntries \in Nat
  /\ MaxRestarts \in Nat

VARIABLES
  trust, overrides, decided, graph,   (* PrivateVault, see MeshDecision      *)
  pending, audit,                     (* PrivateVault, see Governance        *)
  pc,           (* where each stream is                                      *)
  asked,        (* the request it makes                                      *)
  calls,        (* its requests in flight, to PrivateVault or to LORK        *)
  answer,       (* the decision that reached the stream                      *)
  runs,         (* runs_store of LORK: the decision recorded for a stream    *)
  restarts      (* restarts so far                                           *)

ActionIds == Streams \cup {NoId}

INSTANCE MeshDecision
INSTANCE Governance

vault == <<trust, overrides, decided, graph, pending, audit>>

vars == <<vault, pc, asked, calls, answer, runs, restarts>>

Unanswered == Undecided

Failed == [final |-> "ERROR"]

Places == {"new", "evaluating", "recording", "complete", "error", "gone"}

Over == {"complete", "error", "gone"}

Unrecorded == [consensus |-> "-"]

(* The part of the decision that _record_mesh_run sends as mesh_data: the  *)
(* verdict itself is not in it.                                            *)
MeshData(result) ==
  [consensus |-> result.consensus, policy_pass |-> result.policy_pass, votes |-> result.votes]

Init ==
  /\ MeshInit
  /\ VaultInit
  /\ pc = [s \in Streams |-> "new"]
  /\ asked = [s \in Streams |-> CHOOSE r \in Requests : TRUE]
  /\ calls = {}
  /\ answer = [s \in Streams |-> Unanswered]
  /\ runs = [s \in Streams |-> Unrecorded]
  /\ restarts = 0

Goto(s, place) == pc' = [pc EXCEPT ![s] = place]

-----------------------------------------------------------------------------
(* PrivateVault.                                                           *)

Waits(s) == pc[s] = "evaluating" /\ answer[s] = Unanswered

(* What a stream that waits for an answer learns: it, or nothing.          *)
Reply(s, result) ==
  \/ Waits(s) /\ answer' = [answer EXCEPT ![s] = result]
  \/ UNCHANGED answer

(* POST /mesh/evaluate for a stream.                                       *)
HandleEvaluate(s) ==
  /\ <<s, "evaluate">> \in calls
  /\ calls' = calls \ {<<s, "evaluate">>}
  /\ IF Raises(asked[s])
     THEN UNCHANGED <<trust, overrides, decided, graph>> /\ Reply(s, Failed)
     ELSE FullPipeline(s, asked[s]) /\ Reply(s, Decide(s, asked[s]))
  /\ UNCHANGED <<pending, audit, pc, asked, runs, restarts>>

(* The same for a caller that leaves the identifier out.                   *)
EvaluateUnnamed(request) ==
  /\ Len(graph.history) < MaxEntries
  /\ ~Raises(request)
  /\ FullPipeline(NoId, request)
  /\ UNCHANGED <<pending, audit, pc, asked, calls, answer, runs, restarts>>

TenantConfigures(t) ==
  /\ \/ \E patch \in Patches : Configure(t, patch)
     \/ ResetConfig(t)
  /\ UNCHANGED <<pending, audit, pc, asked, calls, answer, runs, restarts>>

PolicyTier(status) ==
  CASE status = "ALLOW" -> "auto_approve"
    [] status = "REVIEW" -> "human_review"
    [] OTHER -> "hard_block"

(* shadow_verify of a transaction of its own, with its entry in the graph. *)
Verify(tx, request) ==
  /\ audit[tx] = <<>> /\ Len(graph.history) < MaxEntries
  /\ ShadowVerify(tx, request)
  /\ graph' = IngestAudit(graph,
       [transaction_id |-> tx, agent_id |-> "assistant", recipient |-> request.recipient,
        action |-> request.action, amount |-> request.amount, status |-> CheckPolicy(request),
        policy_tier |-> PolicyTier(CheckPolicy(request))])
  /\ UNCHANGED <<trust, overrides, decided, pc, asked, calls, answer, runs, restarts>>

(* human_approve                                                           *)
ReviewerDecides(tx, approved) ==
  /\ HumanApprove(tx, approved)
  /\ graph' = IngestApproval(graph, tx, approved)
  /\ UNCHANGED <<trust, overrides, decided, pc, asked, calls, answer, runs, restarts>>

(* A request in flight may be handled after the restart, or never.         *)
VaultRestarts ==
  /\ restarts < MaxRestarts
  /\ restarts' = restarts + 1
  /\ MeshRestart
  /\ pending' = {}
  /\ UNCHANGED <<audit, pc, asked, calls, answer, runs>>

-----------------------------------------------------------------------------
(* LORK.                                                                   *)

(* POST /runs/record stores the run under its identifier.                  *)
HandleRecord(s) ==
  /\ <<s, "record">> \in calls
  /\ calls' = calls \ {<<s, "record">>}
  /\ runs' = [runs EXCEPT ![s] = MeshData(answer[s])]
  /\ UNCHANGED <<vault, pc, asked, answer, restarts>>

-----------------------------------------------------------------------------
(* execute_mesh_stream                                                     *)

Start(s, request) ==
  /\ pc[s] = "new"
  /\ asked' = [asked EXCEPT ![s] = request]
  /\ calls' = calls \cup {<<s, "evaluate">>}
  /\ Goto(s, "evaluating")
  /\ UNCHANGED <<vault, answer, runs, restarts>>

(* The 30 seconds of the HTTP client have passed.                          *)
TimeOut(s) ==
  /\ Waits(s)
  /\ answer' = [answer EXCEPT ![s] = Failed]
  /\ UNCHANGED <<vault, pc, asked, calls, runs, restarts>>

(* The events of the decision are streamed, then the run is recorded; an   *)
(* answer that cannot be read ends the stream with mesh_error.             *)
Answered(s) ==
  /\ pc[s] = "evaluating" /\ answer[s] # Unanswered
  /\ IF answer[s] = Failed
     THEN Goto(s, "error") /\ UNCHANGED calls
     ELSE Goto(s, "recording") /\ calls' = calls \cup {<<s, "record">>}
  /\ UNCHANGED <<vault, asked, answer, runs, restarts>>

(* mesh_complete, whether LORK answered or not: a failure is swallowed.    *)
Complete(s) ==
  /\ pc[s] = "recording"
  /\ Goto(s, "complete")
  /\ UNCHANGED <<vault, asked, calls, answer, runs, restarts>>

(* The browser goes away: the generator is cancelled where it waits.       *)
Disconnect(s) ==
  /\ pc[s] \in {"evaluating", "recording"}
  /\ Goto(s, "gone")
  /\ UNCHANGED <<vault, asked, calls, answer, runs, restarts>>

-----------------------------------------------------------------------------

Stream(s) == TimeOut(s) \/ Answered(s) \/ Complete(s)

Next ==
  \/ \E s \in Streams :
       \/ HandleEvaluate(s) \/ HandleRecord(s) \/ Stream(s) \/ Disconnect(s)
       \/ \E request \in Requests : Start(s, request)
  \/ \E request \in Unnamed : EvaluateUnnamed(request)
  \/ \E t \in Tenants : TenantConfigures(t)
  \/ \E tx \in Transactions :
       \/ \E request \in ToVerify : Verify(tx, request)
       \/ \E approved \in BOOLEAN : ReviewerDecides(tx, approved)
  \/ VaultRestarts

Spec == Init /\ [][Next]_vars

-----------------------------------------------------------------------------

(* The decisions whose identifier was decided once since the last restart. *)
DecidedOnly(id) ==
  /\ decided[id] # Undecided
  /\ \E i \in 1 .. Len(graph.history) :
       \A j \in 1 .. Len(graph.history) : graph.history[j] = <<"decision", id>> <=> j = i

(* Whatever calls are late or lost, whoever else decides, configures or    *)
(* reviews in between: a decision that reached a stream is the one that    *)
(* the audit of PrivateVault and its graph hold under the stream's         *)
(* identifier, unless it restarted, and the run in LORK leads to the same  *)
(* verdict.                                                                *)
VerdictAgrees ==
  \A s \in Streams :
    answer[s].final \in {"ALLOW", "BLOCK"} =>
      /\ restarts = 0 => /\ decided[s] = answer[s]
                         /\ graph.nodes[<<"outcome", s>>].decision = answer[s].final
      /\ runs[s] # Unrecorded =>
           (answer[s].final = "ALLOW") = (runs[s].consensus = "APPROVE" /\ runs[s].policy_pass)

(* Weights under which a vote counts 1 at most and only votes decide.      *)
CautiousWeights(w) ==
  /\ w.approve_weight \in 0 .. 10
  /\ w.min_trust <= 10000 /\ w.max_trust <= 10000
  /\ w.deadlock_action # "APPROVE"

(* An action that is let through under the default threshold or a higher   *)
(* one has two votes behind it, however trusted an agent has become and    *)
(* whoever else is asked, unless a tenant's own weights let one vote do.   *)
(* They are votes, not agents: a request that lists an agent twice has     *)
(* both from that one.                                                     *)
TwoVotesBehindAllow ==
  [][ \A id \in ActionIds :
        LET d == decided'[id]
            approving == {i \in 1 .. Len(d.votes) : d.votes[i].decision = "APPROVE"}
        IN  d # decided[id] /\ d.final = "ALLOW" =>
              \/ d.threshold < DEFAULT_WEIGHTS.quorum_threshold
              \/ \E i, j \in approving : i # j
              \/ \E t \in Tenants : ~CautiousWeights(GetWeights(t, NoOverride)) ]_vars

(* The drift report names a decision exactly when its agents agreed to     *)
(* what policy refused, and under its reason only, although it is read off *)
(* edges that other entries are mixed with.  It may have been pushed out   *)
(* of a reason that is listed more than five times.                        *)
DriftReportExact ==
  LET report == DetectPolicyDrift(graph)
      naming(id) == {r \in DOMAIN report : <<"decision", id>> \in Range(report[r].occurrences)}
  IN  \A id \in ActionIds :
        DecidedOnly(id) =>
          IF decided[id].consensus = "APPROVE" /\ decided[id].final = "BLOCK"
          THEN \/ naming(id) = {decided[id].reason}
               \/ naming(id) = {} /\ report[decided[id].reason].occurrence_count > 5
          ELSE naming(id) = {}

(* A decision made again under another limit on amounts.                   *)
OtherLimits(d) == Range(d.failed) \ {"max_discount_amount"}

Fits(d, newMax) == d.consensus = "APPROVE" /\ d.amount <= newMax

DecidedAgain(d, newMax) == IF Fits(d, newMax) /\ OtherLimits(d) = {} THEN "ALLOW" ELSE "BLOCK"

(* The limit on amounts hides another one, or it is hard_block_limit that  *)
(* is taken for it.                                                        *)
Misleading(d) ==
  OtherLimits(d) # {} /\ Head(d.failed) \in {"max_discount_amount", "hard_block_limit"}

(* What-if analysis of the limit on amounts, which reads the one reason    *)
(* that the graph keeps, against deciding again under the new limit.  It   *)
(* errs in one case only: where another limit would still block, it may    *)
(* report that the action is let through.                                  *)
WhatIfExact ==
  \A id \in ActionIds, newMax \in {20000, 250000, 400000} :
    DecidedOnly(id) =>
      Projected(graph.nodes[<<"decision", id>>], newMax)
        = IF Fits(decided[id], newMax) /\ Misleading(decided[id]) THEN "ALLOW"
          ELSE DecidedAgain(decided[id], newMax)

(* The breadth first search finds everything that is connected to a node   *)
(* and the edges between, each from both of its ends.                      *)
SubgraphComplete ==
  \A root \in {n \in DOMAIN graph.nodes : n[1] \in {"decision", "human"}} :
    LET found == Subgraph(graph, root)
        among == {i \in 1 .. Len(graph.edges) : graph.edges[i].from \in found.visited}
        loops == {i \in among : graph.edges[i].from = graph.edges[i].to}
    IN  /\ found.queue = <<>> /\ root \in found.visited
        /\ \A i \in 1 .. Len(graph.edges) :
             (graph.edges[i].from \in found.visited) = (graph.edges[i].to \in found.visited)
        /\ Range(found.edges) = {graph.edges[i] : i \in among}
        /\ Len(found.edges) = 2 * Cardinality(among) - Cardinality(loops)

(* A query answers with its matches, with all of their edges, with both   *)
(* ends of each, and with no node that no edge of the answer leads to.     *)
QueryConnected ==
  \A filters \in Filters : \A matches \in Newest(graph, filters) :
    LET found == Expanded(graph, matches)
        touching == {e \in Range(graph.edges) : {e.from, e.to} \cap matches # {}}
    IN  /\ touching \subseteq Range(found.edges)
        /\ found.nodes = matches \cup UNION {{e.from, e.to} : e \in Range(found.edges)}

(* A precedent comes with the outcome of its own decision, the closest     *)
(* first; of equally close ones, each of which is an entry of the history, *)
(* the latest.                                                             *)
PrecedentsExact ==
  \A question \in Precedents :
    LET cards == FindPrecedents(graph, question)
    IN  /\ \A i \in 1 .. Len(cards) :
             cards[i].node[1] = "decision" =>
               cards[i].outcome = graph.nodes[cards[i].node].final_decision
        /\ \E entry \in [1 .. Len(cards) -> 1 .. Len(graph.history)] :
             \A i \in 1 .. Len(cards) :
               /\ cards[i].node = graph.history[entry[i]]
               /\ \A j \in 1 .. i - 1 :
                    \/ cards[j].confidence > cards[i].confidence
                    \/ cards[j].confidence = cards[i].confidence /\ entry[j] > entry[i]

(* The statistics agree with the other answers: as many overrides as the   *)
(* drift report counts, and as many decisions as entries, save those whose *)
(* identifier was used again.                                              *)
StatsAgree ==
  LET stats == Stats(graph)
      report == DetectPolicyDrift(graph)
  IN  /\ stats.override_count = AddedUp([r \in DOMAIN report |-> report[r].occurrence_count])
      /\ AddedUp(stats.outcomes) = Cardinality(Range(graph.history))

(* What is answered from the graph, the drift report included, is what the *)
(* decisions put into it.                                                  *)
AnswersFaithful ==
  DriftReportExact /\ SubgraphComplete /\ QueryConnected /\ PrecedentsExact /\ StatsAgree

(* The graph tells the state of a transaction: what the reviewer decided,  *)
(* on an edge, and else the status on its node.                            *)
GraphKnowsReviews ==
  \A tx \in Transactions :
    <<"tx", tx>> \in DOMAIN graph.nodes =>
      LET reviews == {i \in DOMAIN graph.edges :
                        graph.edges[i].type = "approved_by" /\ graph.edges[i].to = <<"tx", tx>>}
          log == audit[tx]
      IN  /\ graph.nodes[<<"tx", tx>>].status = log[1]
          /\ reviews = {} <=> Len(log) = 1
          /\ \A i \in reviews : (graph.edges[i].data = "APPROVED") = (Last(log) = "ALLOW")

(* A decision that policy refuses raises nobody's trust.                   *)
NoTrustFromRefusal ==
  [][\A id \in ActionIds :
       decided'[id] # decided[id] /\ decided'[id] # Undecided /\ ~decided'[id].policy_pass
         => \A a \in Agents : trust'[a] <= trust[a]]_vars

=============================================================================
