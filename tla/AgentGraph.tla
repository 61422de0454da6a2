------------------------------ MODULE AgentGraph ------------------------------
(***************************************************************************)
(* The order in which a graph of agents is executed                        *)
(* (LORK/lork/agent_graph/orchestrator.py): the nodes that the start agent *)
(* reaches, in reverse order of the end of their visit by a depth-first    *)
(* search.  A graph is a function from the agents that were added to the   *)
(* sequence of each one's next_nodes; a next node need not be one of them. *)
(***************************************************************************)
EXTENDS Integers, Sequences, FiniteSets, SequencesExt

CONSTANT AgentIds

ASSUME AgentAssumption == IsFiniteSet(AgentIds)

IsGraph(nodes) == DOMAIN nodes \subseteq AgentIds /\ \A a \in DOMAIN nodes : nodes[a] \in Seq(AgentIds)

(* What the closure of execution_order keeps between its calls: failed     *)
(* once a KeyError went through it.                                        *)
Search == [visited : SUBSET AgentIds, order : Seq(AgentIds), failed : BOOLEAN]

NoSearch == [visited |-> {}, order |-> <<>>, failed |-> FALSE]

Enter(w, node) == [w EXCEPT !.visited = @ \cup {node}]

Leave(w, node) == [w EXCEPT !.order = Append(@, node)]

(* The loop over next_nodes, with what is known of dfs.                    *)
VisitAll(dfs, next, w) ==
  LET visit[i \in 0 .. Len(next)] ==
        IF i = 0 THEN w
        ELSE LET before == visit[i - 1] IN dfs[<<next[i], before>>]
  IN  visit[Len(next)]

VisitNode(nodes, dfs, node, w) ==
  IF node \in w.visited \/ w.failed THEN w
  ELSE IF node \notin DOMAIN nodes THEN [w EXCEPT !.failed = TRUE]
  ELSE Leave(VisitAll(dfs, nodes[node], Enter(w, node)), node)

Dfs(nodes, start) ==
  LET dfs[x \in AgentIds \X Search] == VisitNode(nodes, dfs, x[1], x[2])
  IN  dfs[<<start, NoSearch>>]

(* Mutant: in the order in which the visits end.                           *)
ExecutionOrderUnreversed(nodes, start) ==
  LET found == Dfs(nodes, start) IN
  IF found.failed THEN <<>> ELSE found.order

(* Empty when the search raises.                                           *)
ExecutionOrder(nodes, start) ==
  LET found == Dfs(nodes, start) IN
  IF found.failed THEN <<>> ELSE Reverse(found.order)

(***************************************************************************)
(* Reference: what the graph says, without an order.                       *)
(***************************************************************************)

Leads(nodes, a, b) == a \in DOMAIN nodes /\ b \in {nodes[a][i] : i \in 1 .. Len(nodes[a])}

(* Whom its members lead to is a member.                                   *)
IsClosed(nodes, S) == \A a \in S, b \in AgentIds : Leads(nodes, a, b) => b \in S

(* The least closed set with start.                                        *)
Reachable(nodes, start) ==
  {b \in AgentIds : \A S \in SUBSET AgentIds : start \in S /\ IsClosed(nodes, S) => b \in S}

(* Nobody that start reaches leads to one that reaches it.                 *)
Acyclic(nodes, start) ==
  \A a \in Reachable(nodes, start), b \in AgentIds :
    Leads(nodes, a, b) => a \notin Reachable(nodes, b)

===============================================================================
