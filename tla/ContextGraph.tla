---------------------------- MODULE ContextGraph ----------------------------
(***************************************************************************)
(* The decision context graph of PrivateVault (context_graph.py): what is  *)
(* stored of each decision, and what is answered from it.                  *)
(*                                                                         *)
(* A graph is a value: its nodes (a function from identifiers to data),    *)
(* its edges and its history, both oldest first.  An identifier is a kind  *)
(* followed by what the code puts behind the colon, so the type of a node  *)
(* is the head of its identifier.  The time of an entry is its place in    *)
(* the history.  Hashes, trust scores of nodes, weights of edges,          *)
(* snapshots, and the two indexes that nothing reads are left out.         *)
(***************************************************************************)
EXTENDS Lists, SequencesExt, FiniteSetsExt

EmptyGraph == [nodes |-> [n \in {} |-> {}], edges |-> <<>>, history |-> <<>>]

Edge(from, to, type, data) == [from |-> from, to |-> to, type |-> type, data |-> data]

(* dict.update                                                             *)
Updated(old, new) ==
  [k \in DOMAIN old \cup DOMAIN new |-> IF k \in DOMAIN new THEN new[k] ELSE old[k]]

(* _add_node for every node of new: a node that exists keeps the fields    *)
(* that the new data does not mention.                                     *)
WithNodes(nodes, new) ==
  Updated(nodes, [n \in DOMAIN new |-> IF n \in DOMAIN nodes THEN Updated(nodes[n], new[n]) ELSE new[n]])

(* The temporal edge that every new entry of the history gets.             *)
Followed(history, n) ==
  IF history = <<>> THEN <<>> ELSE <<Edge(Last(history), n, "followed_by", "temporal")>>

(* Links to the earlier decisions of the same action type.                 *)
SameAction(g, n, actionType) ==
  LET linked[i \in 0 .. Len(g.history)] ==
        IF i = 0 THEN <<>>
        ELSE LET p == g.history[i]
             IN  IF p # n /\ p[1] = "decision" /\ g.nodes[p].action_type = actionType
                 THEN Append(linked[i - 1], Edge(p, n, "linked_via_same_action", actionType))
                 ELSE linked[i - 1]
  IN  linked[Len(g.history)]

(* The type of action is guessed from the words of the agents' reasons:    *)
(* those of these two agents mention a discount.                           *)
ActionType(r) ==
  IF \E i \in 1 .. Len(r.votes) : r.votes[i].agent \in {"pricing_agent", "margin_agent"}
  THEN "approve_discount" ELSE "unknown"

Overridden(r) == r.consensus = "APPROVE" /\ ~r.policy_pass

(* The edges of a decision, in the order in which they are added.          *)
MeshEdges(r) ==
  LET decision == <<"decision", r.action_id>>
      consensus == <<"consensus", r.action_id>>
      policy == <<"policy", r.action_id>>
      outcome == <<"outcome", r.action_id>>
      reasoning(v) == <<"reasoning", r.action_id, v.agent>>
  IN  [k \in 1 .. 2 * Len(r.votes) |->
         LET v == r.votes[(k + 1) \div 2]
         IN  IF k % 2 = 1 THEN Edge(<<"agent", v.agent>>, reasoning(v), "reasoned_by", "-")
             ELSE Edge(reasoning(v), decision, "contributed_to", v.decision)]
      \o <<Edge(decision, consensus, "evaluated_by", "-"),
           Edge(consensus, policy, "evaluated_by", "-")>>
      \o (IF Overridden(r) THEN <<Edge(policy, consensus, "overrode", r.reason)>> ELSE <<>>)
      \o <<Edge(policy, outcome, "produced", "-"),
           Edge(decision, outcome, "caused_outcome", "-")>>
      \o [i \in 1 .. Len(r.votes) |->
            Edge(outcome, <<"agent", r.votes[i].agent>>, "updated_trust", "-")]

(* The nodes of a decision at a time.                                      *)
MeshNodes(r, time) ==
  LET agents == {r.votes[i].agent : i \in 1 .. Len(r.votes)}
      vote(a) == Last(SelectSeq(r.votes, LAMBDA v : v.agent = a)).decision
  IN  [n \in {<<kind, r.action_id>> : kind \in {"decision", "consensus", "policy", "outcome"}}
             \cup {<<"agent", a>> : a \in agents} \cup {<<"reasoning", r.action_id, a>> : a \in agents} |->
         CASE n[1] = "decision" ->
                [final_decision |-> r.final, amount |-> r.amount, action_type |-> ActionType(r),
                 reason |-> r.reason, final_reason |-> r.final_reason, time |-> time]
           [] n[1] = "consensus" -> [result |-> r.consensus, time |-> time]
           [] n[1] = "policy" -> [pass |-> r.policy_pass, reason |-> r.reason, time |-> time]
           [] n[1] = "outcome" -> [decision |-> r.final, time |-> time]
           [] n[1] = "agent" -> [agent_id |-> n[2]]
           [] n[1] = "reasoning" -> [agent_id |-> n[3], decision |-> vote(n[3]), time |-> time]]

(* ingest_mesh_decision                                                    *)
IngestMesh(g, r) ==
  LET decision == <<"decision", r.action_id>>
      nodes == WithNodes(g.nodes, MeshNodes(r, Len(g.history) + 1))
  IN  [nodes |-> nodes,
       edges |-> g.edges \o MeshEdges(r) \o Followed(g.history, decision)
                 \o SameAction([g EXCEPT !.nodes = nodes], decision, ActionType(r)),
       history |-> Append(g.history, decision)]

(* ingest_audit_entry                                                      *)
IngestAudit(g, entry) ==
  LET tx == <<"tx", entry.transaction_id>>
      agent == <<"agent", entry.agent_id>>
      entity == <<"entity", entry.recipient>>
      tier == <<"tier", entry.policy_tier>>
  IN  [nodes |-> WithNodes(g.nodes,
                   [n \in {tx, agent, entity, tier} |->
                      CASE n = tx -> [status |-> entry.status, action |-> entry.action,
                                      amount |-> entry.amount, time |-> Len(g.history) + 1]
                        [] n = agent -> [agent_id |-> entry.agent_id]
                        [] n = entity -> [entity_id |-> entry.recipient]
                        [] n = tier -> [tier |-> entry.policy_tier]]),
       edges |-> g.edges \o <<Edge(agent, tx, "initiated", "-"),
                              Edge(tx, entity, "linked_to", "recipient"),
                              Edge(tx, tier, "evaluated_as", "-")>>
                 \o Followed(g.history, tx),
       history |-> Append(g.history, tx)]

(* The reviewer's node.                                                    *)
Reviewer == [n \in {<<"human", "reviewer">>} |-> [name |-> "reviewer"]]

(* Mutant: the decision is left out of the edge.                           *)
IngestApprovalUnsaid(g, tx, approved) ==
  [g EXCEPT !.nodes = WithNodes(@, Reviewer),
            !.edges = Append(@, Edge(<<"human", "reviewer">>, <<"tx", tx>>, "approved_by", "APPROVED"))]

(* ingest_human_approval: the node of the transaction keeps its status.    *)
IngestApproval(g, tx, approved) ==
  [g EXCEPT !.nodes = WithNodes(@, Reviewer),
            !.edges = Append(@, Edge(<<"human", "reviewer">>, <<"tx", tx>>, "approved_by",
                                     IF approved THEN "APPROVED" ELSE "REJECTED"))]

-----------------------------------------------------------------------------
(* Answers.                                                                *)

Overrides(g) == Picked(g.edges, {i \in 1 .. Len(g.edges) : g.edges[i].type = "overrode"})

(* The decision that an override belongs to: where the first edge of type  *)
(* evaluated_by into its consensus node comes from.                        *)
DecisionOf(g, override) ==
  g.edges[Min({i \in 1 .. Len(g.edges) :
                 g.edges[i].to = override.to /\ g.edges[i].type = "evaluated_by"})].from

(* The reason that the policy node of an override now states.              *)
ReasonOf(g, override) == g.nodes[override.from].reason

OverridesFor(g, reason) ==
  LET all == Overrides(g)
  IN  Picked(all, {i \in 1 .. Len(all) : ReasonOf(g, all[i]) = reason})

LastFive(list) == SubSeq(list, Max({1, Len(list) - 4}), Len(list))

(* detect_policy_drift: the overrides by their reason, the last five of    *)
(* each.                                                                   *)
DetectPolicyDrift(g) ==
  [reason \in {ReasonOf(g, Overrides(g)[i]) : i \in 1 .. Len(Overrides(g))} |->
     LET group == OverridesFor(g, reason)
     IN  [occurrence_count |-> Len(group),
          severity |-> IF Len(group) >= 3 THEN "HIGH"
                       ELSE IF Len(group) = 2 THEN "MEDIUM" ELSE "LOW",
          occurrences |-> [i \in 1 .. Len(LastFive(group)) |-> DecisionOf(g, LastFive(group)[i])]]]

(* The limits of which a reason says that they are exceeded.               *)
NamesLimit(reason) == Head(reason) \in {"max_discount_amount", "hard_block_limit"}

(* Mutant: any refusal is undone by a limit above the amount.              *)
ProjectedWithoutReason(data, newMax) ==
  IF data.amount > newMax THEN "BLOCK" ELSE "ALLOW"

(* what_if_analysis of one decision.  It looks at the amount only, and at  *)
(* the words of the reason that was given.                                 *)
Projected(data, newMax) ==
  IF data.amount > newMax /\ data.final_decision = "ALLOW" THEN "BLOCK"
  ELSE IF /\ data.amount <= newMax
          /\ data.final_decision = "BLOCK"
          /\ data.final_reason = "override" /\ NamesLimit(data.reason)
       THEN "ALLOW"
       ELSE data.final_decision

Touching(g, n) ==
  Picked(g.edges, {i \in 1 .. Len(g.edges) : n \in {g.edges[i].from, g.edges[i].to}})

Neighbour(e, n) == IF e.from = n THEN e.to ELSE e.from

(* Mutant: edges are followed in their direction only.                     *)
VisitForwards(g, s) ==
  LET n == Head(s.queue)
      edges == Touching(g, n)
      new == Picked(edges, {i \in 1 .. Len(edges) :
                              edges[i].from = n /\ edges[i].to \notin s.visited \cup {n}})
  IN  IF n \in s.visited THEN [s EXCEPT !.queue = Tail(@)]
      ELSE [queue |-> Tail(s.queue) \o [i \in 1 .. Len(new) |-> new[i].to],
            visited |-> s.visited \cup {n},
            edges |-> s.edges \o edges]

(* One turn of the loop.  A node may wait in the queue several times, and  *)
(* an edge is listed once from each of its ends.                           *)
Visit(g, s) ==
  LET n == Head(s.queue)
      edges == Touching(g, n)
      new == Picked(edges, {i \in 1 .. Len(edges) : Neighbour(edges[i], n) \notin s.visited \cup {n}})
  IN  IF n \in s.visited THEN [s EXCEPT !.queue = Tail(@)]
      ELSE [queue |-> Tail(s.queue) \o [i \in 1 .. Len(new) |-> Neighbour(new[i], n)],
            visited |-> s.visited \cup {n},
            edges |-> s.edges \o edges]

(* get_decision_subgraph: breadth first from a node, along the edges in    *)
(* both directions.  Every edge queues a node at most twice.               *)
Subgraph(g, root) ==
  LET turns == 2 * Len(g.edges) + 1
      after[k \in 0 .. turns] ==
        IF k = 0 THEN [queue |-> <<root>>, visited |-> {}, edges |-> <<>>]
        ELSE LET s == after[k - 1] IN IF s.queue = <<>> THEN s ELSE Visit(g, s)
  IN  after[turns]

-----------------------------------------------------------------------------
(* Searches.                                                               *)

(* dict.get                                                                *)
Field(data, key, default) == IF key \in DOMAIN data THEN data[key] ELSE default

(* What a node says of its action, and of the decision on it.              *)
ActionOf(data) == Field(data, "action_type", Field(data, "action", ""))

StatusOf(data) == Field(data, "status", Field(data, "final_decision", Field(data, "decision", "")))

(* _node_matches, without its filter on time.  Transactions do not carry   *)
(* their recipient, so only entities and agents are found by an entity.    *)
NodeMatches(n, data, filters) ==
  \A key \in DOMAIN filters :
    LET wanted == filters[key] IN
    CASE key = "node_type" -> n[1] = wanted
      [] key = "action_type" -> ActionOf(data) = wanted
      [] key = "entity" -> wanted \in {Field(data, "entity_id", ""), Field(data, "agent_id", "")}
      [] key = "status" -> StatusOf(data) = wanted
      [] key = "min_amount" -> Field(data, "amount", 0) >= wanted
      [] key = "max_amount" -> Field(data, "amount", 0) <= wanted
      [] key = "agent_id" -> Field(data, "agent_id", "") = wanted
      [] OTHER -> TRUE

(* The newest matches up to the limit; nodes of the same time come in any  *)
(* order, and those without a time come last.                              *)
Newest(g, filters) ==
  LET matches == {n \in DOMAIN g.nodes : NodeMatches(n, g.nodes[n], filters)}
      time(n) == Field(g.nodes[n], "time", 0)
      size == Min({filters.limit, Cardinality(matches)})
  IN  {some \in kSubset(size, matches) :
         \A n \in some, other \in matches \ some : time(n) >= time(other)}

(* query, once the matches are cut: the edges of what is in the answer so  *)
(* far, in their order, each of which adds its ends.                       *)
Expanded(g, matches) ==
  LET turn(s, e) ==
        IF {e.from, e.to} \cap s.nodes = {} THEN s
        ELSE [nodes |-> s.nodes \cup ({e.from, e.to} \cap DOMAIN g.nodes),
              edges |-> Append(s.edges, e)]
      found[i \in 0 .. Len(g.edges)] ==
        IF i = 0 THEN [nodes |-> matches, edges |-> <<>>] ELSE turn(found[i - 1], g.edges[i])
  IN  found[Len(g.edges)]

(* How close an entry of the history is to an action, a range of amounts   *)
(* and an entity, as a fraction of 1000.                                   *)
Confidence(g, n, asked) ==
  LET data == g.nodes[n]
      action == IF ActionOf(data) = asked.action_type THEN 400 ELSE 100
      middle == asked.min_amount + asked.max_amount
      amount == 2 * data.amount
      near == IF amount > 0 /\ middle > 0
              THEN [of |-> 300 * Min({amount, middle}), per |-> Max({amount, middle})]
              ELSE [of |-> 0, per |-> 1]
      met == \E i \in 1 .. Len(g.edges) :
               LET e == g.edges[i] IN
               /\ n \in {e.from, e.to}
               /\ Field(g.nodes[IF e.from = n THEN e.to ELSE e.from], "entity_id", "") = asked.entity
  IN  [of |-> (action + (IF met THEN 300 ELSE 0)) * near.per + near.of, per |-> near.per]

(* The outcome that the first edge to one leads to.                        *)
OutcomeOf(g, n) ==
  LET leads == {i \in 1 .. Len(g.edges) : g.edges[i].from = n /\ g.edges[i].type = "caused_outcome"}
  IN  IF leads = {} THEN "-" ELSE g.nodes[g.edges[Min(leads)].to].decision

(* What is said of an entry.                                               *)
Card(g, n, asked) ==
  LET c == Confidence(g, n, asked)
  IN  [node |-> n, outcome |-> OutcomeOf(g, n),
       confidence |-> Min({1000, (2 * c.of + c.per) \div (2 * c.per)})]

(* find_precedents: the history is read backwards and the sort is stable,  *)
(* so of equally close entries the most recent comes first.                *)
FindPrecedents(g, asked) ==
  LET recent == Reverse(g.history)
      close(n) == LET c == Confidence(g, n, asked) IN c.of > 100 * c.per
      entries == Picked(recent, {i \in 1 .. Len(recent) : close(recent[i])})
      cards == [i \in 1 .. Len(entries) |-> Card(g, entries[i], asked)]
  IN  Ranked(cards, [i \in 1 .. Len(cards) |-> cards[i].confidence], asked.limit)

(* get_stats: an agent that is asked twice is counted twice.               *)
Stats(g) ==
  LET decisions == {n \in DOMAIN g.nodes : n[1] \in {"decision", "tx"}}
      outcome(n) == Field(g.nodes[n], "final_decision", Field(g.nodes[n], "status", "UNKNOWN"))
      active == {i \in 1 .. Len(g.edges) : g.edges[i].type \in {"reasoned_by", "initiated"}}
  IN  [total_decisions |-> Len(g.history),
       outcomes |-> [o \in {outcome(n) : n \in decisions} |->
                       Cardinality({n \in decisions : outcome(n) = o})],
       agent_activity |-> [a \in {g.edges[i].from[2] : i \in active} |->
                             Cardinality({i \in active : g.edges[i].from[2] = a})],
       override_count |-> Len(Overrides(g))]

=============================================================================
