---------------------------- MODULE EngineProofs -----------------------------
(***************************************************************************)
(* What holds of the engines for any value of their constants: the history *)
(* of runs, the logs of the state engine and the answers of the run server *)
(* (LORK), the policy engine's decisions, the context vault, the runtime   *)
(* of a botbook deployment, and the conscience engine of Galani.           *)
(***************************************************************************)
EXTENDS RunTimeline, StateEngine, PolicyEngine, ContextVault, BotbookRuntime, ConscienceEngine,
        RunServer, Induction, SequenceTheorems

-----------------------------------------------------------------------------
(* What the graph says.                                                    *)

LEMMA ReachStart ==
  ASSUME NEW nodes, NEW a \in AgentIds
  PROVE  a \in Reachable(nodes, a)
  BY DEF Reachable

LEMMA ReachOn ==
  ASSUME NEW nodes, NEW s, NEW a \in Reachable(nodes, s), NEW b \in AgentIds, Leads(nodes, a, b)
  PROVE  b \in Reachable(nodes, s)
<1>1. \A S \in SUBSET AgentIds : s \in S /\ IsClosed(nodes, S) => a \in S
  BY DEF Reachable
<1>2. \A S \in SUBSET AgentIds : s \in S /\ IsClosed(nodes, S) => b \in S
  BY <1>1 DEF IsClosed
<1>. QED  BY <1>2 DEF Reachable

LEMMA ReachLeast ==
  ASSUME NEW nodes, NEW s, NEW S, S \subseteq AgentIds, s \in S, IsClosed(nodes, S)
  PROVE  Reachable(nodes, s) \subseteq S
  BY DEF Reachable

-----------------------------------------------------------------------------
(* The recursion of the search ends: every call but the last has fewer     *)
(* agents left to visit.                                                   *)
Unseen(w) == Cardinality(AgentIds \ w.visited)

From(w) == {v \in Search : w.visited \subseteq v.visited}

LEMMA UnseenIs ==
  ASSUME NEW w \in Search
  PROVE  /\ Unseen(w) \in Nat /\ Unseen(w) <= Cardinality(AgentIds)
         /\ \A v \in From(w) : Unseen(v) \in Nat /\ Unseen(v) <= Unseen(w)
         /\ \A node \in AgentIds : node \notin w.visited =>
              Enter(w, node) \in From(w) /\ Unseen(Enter(w, node)) < Unseen(w)
<1>1. \A A \in SUBSET AgentIds : IsFiniteSet(A) /\ Cardinality(A) \in Nat
  BY AgentAssumption, FS_Subset, FS_CardinalityType
<1>2. \A A \in SUBSET AgentIds : \A B \in SUBSET A : Cardinality(B) <= Cardinality(A)
  BY <1>1, FS_Subset
<1>3. Unseen(w) \in Nat /\ Unseen(w) <= Cardinality(AgentIds)
  BY <1>1, <1>2 DEF Unseen
<1>4. ASSUME NEW v \in From(w)
      PROVE  Unseen(v) \in Nat /\ Unseen(v) <= Unseen(w)
  <2>1. (AgentIds \ v.visited) \in SUBSET (AgentIds \ w.visited)
    BY <1>4 DEF From
  <2>. QED  BY <1>1, <1>2, <2>1 DEF Unseen
<1>5. ASSUME NEW node \in AgentIds, node \notin w.visited
      PROVE  Enter(w, node) \in From(w) /\ Unseen(Enter(w, node)) < Unseen(w)
  <2>1. Enter(w, node) \in From(w) /\ Enter(w, node).visited = w.visited \cup {node}
    BY DEF Enter, From, Search
  <2>2. PICK A : A = AgentIds \ w.visited
    OBVIOUS
  <2>3. AgentIds \ Enter(w, node).visited = A \ {node} /\ node \in A
    BY <1>5, <2>1, <2>2
  <2>4. IsFiniteSet(A) /\ Cardinality(A) \in Nat
    BY <1>1, <2>2
  <2>5. Cardinality(A \ {node}) = Cardinality(A) - 1
    BY <2>3, <2>4, FS_RemoveElement
  <2>6. Cardinality(A \ {node}) < Cardinality(A)
    BY <2>4, <2>5
  <2>. QED  BY <2>1, <2>2, <2>3, <2>6 DEF Unseen
<1>. QED  BY <1>3, <1>4, <1>5

LEMMA FromTo ==
  ASSUME NEW w \in Search, NEW v \in From(w), NEW u \in From(v)
  PROVE  u \in From(w) /\ w \in From(w) /\ v \in Search
  BY DEF From

(* The loop over the next nodes, while dfs stays in S.                     *)
IsVisit(visit, S, dfs, nexts, w) ==
  /\ visit \in [0 .. Len(nexts) -> S] /\ Len(nexts) \in Nat
  /\ visit[0] = w
  /\ \A i \in 1 .. Len(nexts) : visit[i] = dfs[<<nexts[i], visit[i - 1]>>]
  /\ VisitAll(dfs, nexts, w) = visit[Len(nexts)]

StaysIn(dfs, S) == \A node \in AgentIds, v \in S : dfs[<<node, v>>] \in S

LEMMA VisitAllIs ==
  ASSUME NEW S, NEW dfs, StaysIn(dfs, S), NEW nexts, nexts \in Seq(AgentIds), NEW w \in S
  PROVE  \E visit : IsVisit(visit, S, dfs, nexts, w)
<1>. DEFINE m == Len(nexts)
            turn(i, v) == dfs[<<nexts[i], v>>]
            step == [i \in 1 .. m |-> [v \in S |-> turn(i, v)]]
            visit[i \in 0 .. m] ==
              IF i = 0 THEN w ELSE LET before == visit[i - 1] IN dfs[<<nexts[i], before>>]
<1>1. m \in Nat
  OBVIOUS
<1>2. VisitAll(dfs, nexts, w) = visit[m]
  BY DEF VisitAll
<1>3. ASSUME NEW i \in 1 .. m, NEW v \in S
      PROVE  turn(i, v) \in S
  BY DEF StaysIn
<1>. HIDE DEF turn, m
<1>4. IsLoop(m, S, w, step)
  BY <1>1, <1>3 DEF IsLoop
<1>5. PICK f : IsRunOf(f, m, S, w, step)
  <2>. HIDE DEF step
  <2>. QED  BY <1>4, LoopExists
<1>6. f = [i \in 0 .. m |-> IF i = 0 THEN w ELSE dfs[<<nexts[i], f[i - 1]>>]]
  <2>1. f = [i \in 0 .. m |-> f[i]] /\ f[0] = w
    BY <1>5 DEF IsRunOf
  <2>2. ASSUME NEW i \in 0 .. m, i # 0
        PROVE  f[i] = dfs[<<nexts[i], f[i - 1]>>]
    <3>1. i \in 1 .. m
      BY <1>1, <2>2
    <3>2. f[i - 1] \in S /\ f[i] = step[i][f[i - 1]]
      <4>. HIDE DEF step
      <4>. QED  BY <1>1, <1>5, <3>1 DEF IsRunOf
    <3>. QED  BY <3>1, <3>2 DEF turn
  <2>. QED  BY <2>1, <2>2
<1>7. visit = [i \in 0 .. m |-> IF i = 0 THEN w ELSE dfs[<<nexts[i], visit[i - 1]>>]]
  BY <1>6, Zenon
<1>. HIDE DEF visit
<1>8. visit[0] = w /\ \A i \in 1 .. m : visit[i] = turn(i, visit[i - 1])
  BY <1>1, <1>7 DEF turn
<1>9. IsKept(S, visit, m)
  <2>1. \A i \in 1 .. m : visit[i - 1] \in S => visit[i] \in S
    BY <1>3, <1>8
  <2>. QED  BY <1>1, <1>8, <2>1 DEF IsKept
<1>10. \A i \in 0 .. m : visit[i] \in S
  BY <1>9, LoopKeeps
<1>11. visit \in [0 .. m -> S]
  BY <1>7, <1>10
<1>12. IsVisit(visit, S, dfs, nexts, w)
  BY <1>1, <1>2, <1>8, <1>11 DEF IsVisit, turn, m
<1>. QED  BY <1>12

(* Two searches that do the same.                                          *)
LEMMA VisitAllSame ==
  ASSUME NEW S, NEW dfs, StaysIn(dfs, S), NEW other,
         \A node \in AgentIds, v \in S : other[<<node, v>>] = dfs[<<node, v>>],
         NEW nexts, nexts \in Seq(AgentIds), NEW w \in S
  PROVE  VisitAll(other, nexts, w) = VisitAll(dfs, nexts, w)
<1>1. StaysIn(other, S)
  BY DEF StaysIn
<1>2. PICK f : IsVisit(f, S, dfs, nexts, w)
  BY VisitAllIs
<1>3. PICK g : IsVisit(g, S, other, nexts, w)
  BY <1>1, VisitAllIs
<1>4. PICK m : m = Len(nexts)
  OBVIOUS
<1>5. /\ m \in Nat /\ f[0] = g[0] /\ \A i \in 0 .. m : f[i] \in S
      /\ \A i \in 1 .. m : f[i] = dfs[<<nexts[i], f[i - 1]>>] /\ g[i] = other[<<nexts[i], g[i - 1]>>]
      /\ VisitAll(dfs, nexts, w) = f[m] /\ VisitAll(other, nexts, w) = g[m]
  BY <1>2, <1>3, <1>4 DEF IsVisit
<1>6. PICK T : T = {i \in 0 .. m : f[i] = g[i]}
  OBVIOUS
<1>7. 0 \in T
  BY <1>5, <1>6
<1>8. ASSUME NEW i \in 0 .. m - 1, i \in T
      PROVE  i + 1 \in T
  <2>1. i + 1 \in 1 .. m /\ (i + 1) - 1 = i /\ i + 1 \in 0 .. m /\ i \in 0 .. m
    BY <1>5, NextPlace
  <2>2. f[i] \in S /\ g[i] = f[i] /\ nexts[i + 1] \in AgentIds
    BY <1>4, <1>5, <1>6, <1>8, <2>1
  <2>3. f[i + 1] = dfs[<<nexts[i + 1], f[i]>>] /\ g[i + 1] = other[<<nexts[i + 1], f[i]>>]
    BY <1>5, <2>1, <2>2
  <2>4. g[i + 1] = f[i + 1]
    BY <2>2, <2>3
  <2>. QED  BY <1>6, <2>1, <2>4
<1>9. 0 .. m \subseteq T
  BY <1>5, <1>7, <1>8, UpToInduct
<1>. QED  BY <1>5, <1>6, <1>9

(* What a search returns where fewer than k agents are left to visit.      *)
GrowsBelow(dfs, k) ==
  \A node \in AgentIds, w \in Search : Unseen(w) < k => dfs[<<node, w>>] \in From(w)

SameBelow(dfs, other, k) ==
  \A node \in AgentIds, w \in Search : Unseen(w) < k => other[<<node, w>>] = dfs[<<node, w>>]

LEMMA StaysFrom ==
  ASSUME NEW dfs, NEW w \in Search, GrowsBelow(dfs, Unseen(w)), NEW node \in AgentIds,
         node \notin w.visited
  PROVE  /\ Enter(w, node) \in Search /\ Enter(w, node) \in From(Enter(w, node))
         /\ StaysIn(dfs, From(Enter(w, node)))
         /\ \A v \in From(Enter(w, node)) : v \in Search /\ v \in From(w) /\ Unseen(v) < Unseen(w)
<1>1. PICK e : e = Enter(w, node)
  OBVIOUS
<1>2. e \in From(w) /\ Unseen(e) < Unseen(w) /\ Unseen(w) \in Nat
  BY <1>1, UnseenIs
<1>3. e \in Search /\ Unseen(e) \in Nat
  BY <1>2, UnseenIs DEF From
<1>4. ASSUME NEW v \in From(e)
      PROVE  v \in Search /\ v \in From(w) /\ Unseen(v) < Unseen(w)
  <2>1. Unseen(v) \in Nat /\ Unseen(v) <= Unseen(e)
    BY <1>3, UnseenIs
  <2>. QED  BY <1>2, <1>3, <2>1 DEF From
<1>5. ASSUME NEW n \in AgentIds, NEW v \in From(e)
      PROVE  dfs[<<n, v>>] \in From(e)
  <2>1. dfs[<<n, v>>] \in From(v)
    BY <1>4 DEF GrowsBelow
  <2>. QED  BY <1>3, <2>1, FromTo
<1>. QED  BY <1>1, <1>3, <1>4, <1>5 DEF StaysIn, From

LEMMA VisitNodeGrows ==
  ASSUME NEW nodes, IsGraph(nodes), NEW dfs, NEW node \in AgentIds, NEW w \in Search,
         GrowsBelow(dfs, Unseen(w))
  PROVE  VisitNode(nodes, dfs, node, w) \in From(w)
<1>1. CASE node \in w.visited \/ w.failed
  BY <1>1 DEF VisitNode, From
<1>2. CASE ~(node \in w.visited \/ w.failed) /\ node \notin DOMAIN nodes
  BY <1>2 DEF VisitNode, From, Search
<1>3. CASE ~(node \in w.visited \/ w.failed) /\ node \in DOMAIN nodes
  <2>1. PICK e : e = Enter(w, node)
    OBVIOUS
  <2>2. e \in From(e) /\ StaysIn(dfs, From(e)) /\ \A v \in From(e) : v \in From(w)
    BY <1>3, <2>1, StaysFrom
  <2>3. nodes[node] \in Seq(AgentIds)
    BY <1>3 DEF IsGraph
  <2>4. PICK visit : IsVisit(visit, From(e), dfs, nodes[node], e)
    BY <2>2, <2>3, VisitAllIs
  <2>5. VisitAll(dfs, nodes[node], e) \in From(e)
    BY <2>4 DEF IsVisit
  <2>6. PICK u : u = VisitAll(dfs, nodes[node], e)
    OBVIOUS
  <2>7. u \in From(w)
    BY <2>2, <2>5, <2>6
  <2>8. Leave(u, node) \in From(w)
    BY <2>7 DEF Leave, From, Search
  <2>. QED  BY <1>3, <2>1, <2>6, <2>8 DEF VisitNode
<1>. QED  BY <1>1, <1>2, <1>3

LEMMA VisitNodeSame ==
  ASSUME NEW nodes, IsGraph(nodes), NEW dfs, NEW other, NEW node \in AgentIds, NEW w \in Search,
         GrowsBelow(dfs, Unseen(w)), SameBelow(dfs, other, Unseen(w))
  PROVE  VisitNode(nodes, other, node, w) = VisitNode(nodes, dfs, node, w)
<1>1. CASE ~(~(node \in w.visited \/ w.failed) /\ node \in DOMAIN nodes)
  BY <1>1 DEF VisitNode
<1>2. CASE ~(node \in w.visited \/ w.failed) /\ node \in DOMAIN nodes
  <2>1. PICK e : e = Enter(w, node)
    OBVIOUS
  <2>2. /\ e \in From(e) /\ StaysIn(dfs, From(e))
        /\ \A v \in From(e) : v \in Search /\ Unseen(v) < Unseen(w)
    BY <1>2, <2>1, StaysFrom
  <2>3. nodes[node] \in Seq(AgentIds)
    BY <1>2 DEF IsGraph
  <2>4. \A n \in AgentIds, v \in From(e) : other[<<n, v>>] = dfs[<<n, v>>]
    BY <2>2 DEF SameBelow
  <2>5. VisitAll(other, nodes[node], e) = VisitAll(dfs, nodes[node], e)
    BY <2>2, <2>3, <2>4, VisitAllSame
  <2>. QED  BY <1>2, <2>1, <2>5 DEF VisitNode
<1>. QED  BY <1>1, <1>2

-----------------------------------------------------------------------------
(* The recursion has a solution: the function that follows it to a depth   *)
(* that no search exceeds.                                                 *)
Finders == {dfs \in [AgentIds \X Search -> Search] :
              \A node \in AgentIds, w \in Search : dfs[<<node, w>>] \in From(w)}

IsDfs(dfs, nodes) ==
  \A node \in AgentIds, w \in Search :
    dfs[<<node, w>>] = VisitNode(nodes, dfs, node, w) /\ dfs[<<node, w>>] \in From(w)

Visiting(nodes, dfs) == [x \in AgentIds \X Search |-> VisitNode(nodes, dfs, x[1], x[2])]

LEMMA VisitingIs ==
  ASSUME NEW nodes, IsGraph(nodes), NEW dfs \in Finders
  PROVE  /\ Visiting(nodes, dfs) \in Finders
         /\ \A node \in AgentIds, w \in Search :
              Visiting(nodes, dfs)[<<node, w>>] = VisitNode(nodes, dfs, node, w)
<1>1. \A k : GrowsBelow(dfs, k)
  BY DEF GrowsBelow, Finders
<1>2. ASSUME NEW node \in AgentIds, NEW w \in Search
      PROVE  VisitNode(nodes, dfs, node, w) \in From(w)
  BY <1>1, VisitNodeGrows
<1>3. \A node \in AgentIds, w \in Search :
        Visiting(nodes, dfs)[<<node, w>>] = VisitNode(nodes, dfs, node, w)
  BY DEF Visiting
<1>4. \A x \in AgentIds \X Search : VisitNode(nodes, dfs, x[1], x[2]) \in Search
  BY <1>2 DEF From
<1>5. Visiting(nodes, dfs) \in [AgentIds \X Search -> Search]
  BY <1>4 DEF Visiting
<1>. QED  BY <1>2, <1>3, <1>5 DEF Finders

LEMMA VisitingSolves ==
  ASSUME NEW nodes, IsGraph(nodes)
  PROVE  \E dfs \in Finders : dfs = Visiting(nodes, dfs)
<1>1. PICK N : N = Cardinality(AgentIds) + 1
  OBVIOUS
<1>2. N \in Nat /\ \A w \in Search : Unseen(w) \in Nat /\ Unseen(w) < N
  <2>1. Cardinality(AgentIds) \in Nat
    BY AgentAssumption, FS_CardinalityType
  <2>2. \A w \in Search : Unseen(w) \in Nat /\ Unseen(w) <= Cardinality(AgentIds)
    BY UnseenIs
  <2>. QED  BY <1>1, <2>1, <2>2
<1>3. PICK ground : ground = [x \in AgentIds \X Search |-> x[2]]
  OBVIOUS
<1>4. ground \in Finders
  BY <1>3 DEF Finders, From
<1>5. PICK step : step = [i \in 1 .. N + 1 |-> [dfs \in Finders |-> Visiting(nodes, dfs)]]
  OBVIOUS
<1>6. IsLoop(N + 1, Finders, ground, step)
  <2>1. \A dfs \in Finders : Visiting(nodes, dfs) \in Finders
    BY VisitingIs
  <2>. QED  BY <1>2, <1>4, <1>5, <2>1 DEF IsLoop
<1>7. PICK f : IsRunOf(f, N + 1, Finders, ground, step)
  BY <1>6, LoopExists
<1>8. \A k \in 0 .. N : f[k] \in Finders /\ f[k + 1] = Visiting(nodes, f[k])
  <2>1. SUFFICES ASSUME NEW k \in 0 .. N
                 PROVE  f[k] \in Finders /\ f[k + 1] = Visiting(nodes, f[k])
    OBVIOUS
  <2>2. k \in 0 .. N + 1 /\ k + 1 \in 1 .. N + 1 /\ (k + 1) - 1 = k
    BY <1>2
  <2>3. f[k] \in Finders /\ f[k + 1] = step[k + 1][f[k]]
    BY <1>7, <2>2 DEF IsRunOf
  <2>. QED  BY <1>5, <2>2, <2>3
<1>9. PICK T : T = {k \in 0 .. N : SameBelow(f[k], f[k + 1], k)}
  OBVIOUS
<1>10. 0 \in T
  <2>1. SameBelow(f[0], f[0 + 1], 0)
    BY <1>2 DEF SameBelow
  <2>. QED  BY <1>2, <1>9, <2>1
<1>11. ASSUME NEW k \in 0 .. N - 1, k \in T
       PROVE  k + 1 \in T
  <2>1. k \in 0 .. N /\ k + 1 \in 0 .. N /\ k \in Nat
    BY <1>2
  <2>2. PICK g : g = f[k]
    OBVIOUS
  <2>3. PICK h : h = f[k + 1]
    OBVIOUS
  <2>4. PICK i : i = f[(k + 1) + 1]
    OBVIOUS
  <2>5. g \in Finders /\ h \in Finders /\ h = Visiting(nodes, g) /\ i = Visiting(nodes, h)
    BY <1>8, <2>1, <2>2, <2>3, <2>4
  <2>6. ASSUME NEW node \in AgentIds, NEW w \in Search, Unseen(w) < k + 1
        PROVE  i[<<node, w>>] = h[<<node, w>>]
    <3>1. \A v \in Search : Unseen(v) < Unseen(w) => Unseen(v) < k
      BY <1>2, <2>1, <2>6
    <3>2. SameBelow(g, h, k)
      BY <1>9, <1>11, <2>2, <2>3
    <3>3. SameBelow(g, h, Unseen(w))
      BY <3>1, <3>2 DEF SameBelow
    <3>4. GrowsBelow(g, Unseen(w))
      BY <2>5 DEF GrowsBelow, Finders
    <3>5. VisitNode(nodes, h, node, w) = VisitNode(nodes, g, node, w)
      BY <3>3, <3>4, VisitNodeSame
    <3>6. h[<<node, w>>] = VisitNode(nodes, g, node, w)
      BY <2>5, VisitingIs
    <3>7. i[<<node, w>>] = VisitNode(nodes, h, node, w)
      BY <2>5, VisitingIs
    <3>. QED  BY <3>5, <3>6, <3>7
  <2>7. SameBelow(h, i, k + 1)
    BY <2>6 DEF SameBelow
  <2>. QED  BY <1>9, <2>1, <2>3, <2>4, <2>7
<1>12. 0 .. N \subseteq T
  BY <1>2, <1>10, <1>11, UpToInduct
<1>13. N \in 0 .. N /\ SameBelow(f[N], f[N + 1], N)
  BY <1>2, <1>9, <1>12
<1>14. PICK dfs : dfs = f[N]
  OBVIOUS
<1>15. dfs \in Finders /\ f[N + 1] = Visiting(nodes, dfs)
  BY <1>8, <1>13, <1>14
<1>16. \A node \in AgentIds, w \in Search : Visiting(nodes, dfs)[<<node, w>>] = dfs[<<node, w>>]
  BY <1>2, <1>13, <1>14, <1>15 DEF SameBelow
<1>17. dfs = Visiting(nodes, dfs)
  <2>1. PICK g : g = Visiting(nodes, dfs)
    OBVIOUS
  <2>2. g \in [AgentIds \X Search -> Search] /\ dfs \in [AgentIds \X Search -> Search]
    BY <1>15, <2>1, VisitingIs DEF Finders
  <2>3. \A x \in AgentIds \X Search : g[x] = dfs[x]
    BY <1>16, <2>1
  <2>. QED  BY <2>1, <2>2, <2>3
<1>. QED  BY <1>15, <1>17

LEMMA DfsSolves ==
  ASSUME NEW nodes, IsGraph(nodes), NEW start
  PROVE  \E dfs : IsDfs(dfs, nodes) /\ Dfs(nodes, start) = dfs[<<start, NoSearch>>]
<1>. DEFINE dfs[x \in AgentIds \X Search] == VisitNode(nodes, dfs, x[1], x[2])
<1>1. Dfs(nodes, start) = dfs[<<start, NoSearch>>]
  BY DEF Dfs
<1>2. PICK found \in Finders : found = Visiting(nodes, found)
  BY VisitingSolves
<1>3. found = [x \in AgentIds \X Search |-> VisitNode(nodes, found, x[1], x[2])]
  BY <1>2 DEF Visiting
<1>4. dfs = [x \in AgentIds \X Search |-> VisitNode(nodes, dfs, x[1], x[2])]
  BY <1>3, Zenon
<1>. HIDE DEF dfs
<1>5. \A node \in AgentIds, w \in Search : dfs[<<node, w>>] = VisitNode(nodes, dfs, node, w)
  <2>1. PICK g : g = [x \in AgentIds \X Search |-> VisitNode(nodes, dfs, x[1], x[2])]
    OBVIOUS
  <2>2. g = dfs
    BY <1>4, <2>1
  <2>3. \A node \in AgentIds, w \in Search : g[<<node, w>>] = VisitNode(nodes, dfs, node, w)
    BY <2>1
  <2>. QED  BY <2>2, <2>3
<1>6. PICK T : T = {k \in Nat : GrowsBelow(dfs, k)}
  OBVIOUS
<1>7. 0 \in T
  <2>1. GrowsBelow(dfs, 0)
    BY UnseenIs DEF GrowsBelow
  <2>. QED  BY <1>6, <2>1
<1>8. ASSUME NEW k \in Nat, k \in T
      PROVE  k + 1 \in T
  <2>1. ASSUME NEW node \in AgentIds, NEW w \in Search, Unseen(w) < k + 1
        PROVE  dfs[<<node, w>>] \in From(w)
    <3>1. Unseen(w) \in Nat /\ \A v \in Search : Unseen(v) \in Nat
      BY UnseenIs
    <3>2. \A v \in Search : Unseen(v) < Unseen(w) => Unseen(v) < k
      BY <2>1, <3>1
    <3>3. GrowsBelow(dfs, Unseen(w))
      BY <1>6, <1>8, <3>2 DEF GrowsBelow
    <3>4. VisitNode(nodes, dfs, node, w) \in From(w)
      BY <3>3, VisitNodeGrows
    <3>. QED  BY <1>5, <3>4
  <2>2. GrowsBelow(dfs, k + 1)
    BY <2>1 DEF GrowsBelow
  <2>. QED  BY <1>6, <2>2
<1>9. Nat \subseteq T
  BY <1>7, <1>8, NatInduct
<1>10. ASSUME NEW node \in AgentIds, NEW w \in Search
       PROVE  dfs[<<node, w>>] \in From(w)
  <2>1. Unseen(w) \in Nat
    BY UnseenIs
  <2>2. Unseen(w) + 1 \in T /\ Unseen(w) < Unseen(w) + 1
    BY <1>9, <2>1
  <2>. QED  BY <1>6, <2>2 DEF GrowsBelow
<1>11. IsDfs(dfs, nodes)
  BY <1>5, <1>10 DEF IsDfs
<1>. QED  BY <1>1, <1>11

-----------------------------------------------------------------------------
(* What the search finds.                                                  *)

(* Those whose visit has begun and not ended.                              *)
Open(w) == w.visited \ Held(w.order)

Distinct(s) == \A p, q \in 1 .. Len(s) : s[p] = s[q] => p = q

(* Whom the agents at earlier places, or cycles, account for.              *)
Settled(nodes, w) ==
  \A p \in 1 .. Len(w.order), b \in AgentIds : Leads(nodes, w.order[p], b) =>
    /\ b \in w.visited
    /\ (\E q \in 1 .. p - 1 : w.order[q] = b) \/ w.order[p] \in Reachable(nodes, b)

Sound(nodes, start, w) ==
  /\ Held(w.order) \subseteq w.visited /\ w.visited \subseteq Reachable(nodes, start)
  /\ Distinct(w.order)
  /\ Settled(nodes, w)

(* A call: the node is reached from all those that are open.               *)
Called(nodes, start, node, w) ==
  ~w.failed =>
    /\ Sound(nodes, start, w)
    /\ node \in Reachable(nodes, start)
    /\ \A g \in Open(w) : node \in Reachable(nodes, g)

Returned(nodes, start, node, w, v) ==
  ~v.failed =>
    /\ ~w.failed
    /\ Sound(nodes, start, v)
    /\ node \in v.visited /\ Open(v) = Open(w)

FindsBelow(dfs, nodes, start, k) ==
  \A node \in AgentIds, w \in Search :
    Unseen(w) < k /\ Called(nodes, start, node, w) => Returned(nodes, start, node, w, dfs[<<node, w>>])

LEMMA OrderHeld ==
  ASSUME NEW w \in Search
  PROVE  /\ AList(w.order) /\ w.order \in Seq(AgentIds) /\ Len(w.order) \in Nat
         /\ w.visited \subseteq AgentIds /\ w.failed \in BOOLEAN
         /\ \A a \in Held(w.order) : \E p \in 1 .. Len(w.order) : w.order[p] = a
         /\ \A p \in 1 .. Len(w.order) : w.order[p] \in Held(w.order) /\ w.order[p] \in AgentIds
<1>1. w.order \in Seq(AgentIds) /\ w.visited \subseteq AgentIds /\ w.failed \in BOOLEAN
  BY DEF Search
<1>2. PICK s : s = w.order
  OBVIOUS
<1>3. Len(s) \in Nat /\ \A p \in 1 .. Len(s) : s[p] \in AgentIds
  BY <1>1, <1>2
<1>4. AList(s)
  BY <1>1, <1>2 DEF AList
<1>. QED  BY <1>1, <1>2, <1>3, <1>4 DEF Held

(* A visit begins.                                                         *)
LEMMA EnterSound ==
  ASSUME NEW nodes, NEW start, NEW node \in AgentIds, NEW w \in Search, ~w.failed,
         node \notin w.visited, Called(nodes, start, node, w)
  PROVE  LET e == Enter(w, node)
         IN  ~e.failed /\ Sound(nodes, start, e) /\ Open(e) = Open(w) \cup {node}
<1>1. PICK e : e = Enter(w, node)
  OBVIOUS
<1>2. e.visited = w.visited \cup {node} /\ e.order = w.order /\ e.failed = w.failed
  BY <1>1 DEF Enter, Search
<1>3. /\ Held(w.order) \subseteq w.visited /\ w.visited \subseteq Reachable(nodes, start)
      /\ Distinct(w.order) /\ Settled(nodes, w) /\ node \in Reachable(nodes, start)
  BY DEF Called, Sound
<1>4. Open(e) = Open(w) \cup {node}
  BY <1>2, <1>3 DEF Open
<1>5. Settled(nodes, e)
  BY <1>2, <1>3 DEF Settled
<1>6. Sound(nodes, start, e)
  BY <1>2, <1>3, <1>5 DEF Sound
<1>. QED  BY <1>1, <1>2, <1>4, <1>6

(* And ends.                                                               *)
LEMMA LeaveSound ==
  ASSUME NEW nodes, NEW start, NEW node \in AgentIds, NEW w \in Search, ~w.failed,
         node \notin w.visited, Called(nodes, start, node, w),
         NEW u \in Search, Sound(nodes, start, u), Open(u) = Open(w) \cup {node},
         \A b \in AgentIds : Leads(nodes, node, b) => b \in u.visited
  PROVE  LET v == Leave(u, node)
         IN  /\ Sound(nodes, start, v) /\ v.visited = u.visited
             /\ node \in v.visited /\ Open(v) = Open(w)
<1>1. PICK v : v = Leave(u, node)
  OBVIOUS
<1>2. v.visited = u.visited /\ v.order = Append(u.order, node)
  BY <1>1 DEF Leave, Search
<1>3. PICK s : s = u.order
  OBVIOUS
<1>4. PICK t : t = v.order
  OBVIOUS
<1>5. PICK m : m = Len(s)
  OBVIOUS
<1>6. AList(s) /\ m \in Nat
  BY <1>3, <1>5, OrderHeld
<1>7. /\ Len(t) = m + 1 /\ t[m + 1] = node /\ (\A i \in 1 .. m : t[i] = s[i])
      /\ Held(t) = Held(s) \cup {node}
  <2>1. t = Append(s, node)
    BY <1>2, <1>3, <1>4
  <2>. QED  BY <1>5, <1>6, <2>1, HeldAppend
<1>8. /\ Held(s) \subseteq u.visited /\ u.visited \subseteq Reachable(nodes, start)
      /\ Distinct(s) /\ Settled(nodes, u)
  BY <1>3 DEF Sound
<1>9. node \in u.visited /\ node \notin Held(s)
  BY <1>3 DEF Open
<1>10. Open(v) = Open(w)
  BY <1>2, <1>3, <1>4, <1>7, <1>9 DEF Open
<1>11. \A i \in 1 .. m : s[i] \in Held(s)
  BY <1>5 DEF Held
<1>12. \A i \in 1 .. m + 1 : i \in 1 .. m \/ i = m + 1
  BY <1>6
<1>13. Distinct(t)
  <2>1. ASSUME NEW p \in 1 .. m + 1, NEW q \in 1 .. m + 1, t[p] = t[q]
        PROVE  p = q
    <3>1. CASE p \in 1 .. m /\ q \in 1 .. m
      BY <1>5, <1>7, <1>8, <2>1, <3>1 DEF Distinct
    <3>2. CASE ~(p \in 1 .. m /\ q \in 1 .. m)
      BY <1>7, <1>9, <1>11, <1>12, <2>1, <3>2
    <3>. QED  BY <3>1, <3>2
  <2>. QED  BY <1>7, <2>1 DEF Distinct
<1>14. Settled(nodes, v)
  <2>1. ASSUME NEW p \in 1 .. m + 1, NEW b \in AgentIds, Leads(nodes, t[p], b)
        PROVE  b \in v.visited /\ ((\E q \in 1 .. p - 1 : t[q] = b) \/ t[p] \in Reachable(nodes, b))
    <3>1. CASE p \in 1 .. m
      <4>1. t[p] = s[p]
        BY <1>7, <3>1
      <4>2. b \in u.visited /\ ((\E q \in 1 .. p - 1 : s[q] = b) \/ s[p] \in Reachable(nodes, b))
        BY <1>3, <1>5, <1>8, <2>1, <3>1, <4>1 DEF Settled
      <4>3. \A q \in 1 .. p - 1 : q \in 1 .. m
        BY <1>6, <3>1
      <4>. QED  BY <1>2, <1>7, <4>1, <4>2, <4>3
    <3>2. CASE p = m + 1
      <4>1. t[p] = node /\ b \in u.visited
        BY <1>7, <2>1, <3>2
      <4>2. CASE b \in Held(s)
        <5>1. PICK q \in 1 .. m : s[q] = b
          BY <1>5, <4>2 DEF Held
        <5>2. q \in 1 .. p - 1 /\ t[q] = b
          BY <1>6, <1>7, <3>2, <5>1
        <5>. QED  BY <1>2, <4>1, <5>2
      <4>3. CASE b \notin Held(s)
        <5>1. b \in Open(w) \cup {node}
          BY <1>3, <4>1, <4>3 DEF Open
        <5>2. node \in Reachable(nodes, b)
          BY <5>1, ReachStart DEF Called
        <5>. QED  BY <1>2, <4>1, <5>2
      <4>. QED  BY <4>2, <4>3
    <3>. QED  BY <1>12, <3>1, <3>2
  <2>. QED  BY <1>4, <1>7, <2>1 DEF Settled
<1>15. Sound(nodes, start, v)
  BY <1>2, <1>4, <1>7, <1>8, <1>9, <1>13, <1>14 DEF Sound
<1>. QED  BY <1>1, <1>2, <1>9, <1>10, <1>15

(* Between the two, the next nodes.                                        *)
LEMMA NextSound ==
  ASSUME NEW nodes, IsGraph(nodes), NEW start, NEW dfs, IsDfs(dfs, nodes),
         NEW node \in DOMAIN nodes, NEW w \in Search, ~w.failed,
         node \notin w.visited, Called(nodes, start, node, w), node \in AgentIds,
         FindsBelow(dfs, nodes, start, Unseen(w))
  PROVE  LET u == VisitAll(dfs, nodes[node], Enter(w, node))
         IN  /\ u \in Search
             /\ ~u.failed =>
                  /\ Sound(nodes, start, u) /\ Open(u) = Open(w) \cup {node}
                  /\ \A b \in AgentIds : Leads(nodes, node, b) => b \in u.visited
<1>1. PICK e : e = Enter(w, node)
  OBVIOUS
<1>2. PICK nexts : nexts = nodes[node]
  OBVIOUS
<1>3. nexts \in Seq(AgentIds)
  BY <1>2 DEF IsGraph
<1>4. GrowsBelow(dfs, Unseen(w))
  BY DEF GrowsBelow, IsDfs
<1>5. /\ e \in Search /\ e \in From(e) /\ StaysIn(dfs, From(e))
      /\ \A v \in From(e) : v \in Search /\ Unseen(v) < Unseen(w)
  BY <1>1, <1>4, StaysFrom
<1>6. PICK visit : IsVisit(visit, From(e), dfs, nexts, e)
  BY <1>3, <1>5, VisitAllIs
<1>7. PICK m : m = Len(nexts)
  OBVIOUS
<1>8. /\ m \in Nat /\ visit[0] = e /\ \A i \in 0 .. m : visit[i] \in From(e)
      /\ \A i \in 1 .. m : visit[i] = dfs[<<nexts[i], visit[i - 1]>>] /\ nexts[i] \in AgentIds
      /\ VisitAll(dfs, nexts, e) = visit[m]
  BY <1>3, <1>6, <1>7 DEF IsVisit
<1>9. \A i \in 1 .. m : Leads(nodes, node, nexts[i])
  BY <1>2, <1>7 DEF Leads
<1>10. node \in Reachable(nodes, start) /\ \A g \in Open(w) \cup {node} : node \in Reachable(nodes, g)
  BY ReachStart DEF Called
<1>11. \A i \in 1 .. m :
         /\ nexts[i] \in Reachable(nodes, start)
         /\ \A g \in Open(w) \cup {node} : nexts[i] \in Reachable(nodes, g)
  BY <1>8, <1>9, <1>10, ReachOn
<1>12. PICK T : T = {i \in 0 .. m : ~visit[i].failed =>
                       /\ Sound(nodes, start, visit[i]) /\ Open(visit[i]) = Open(w) \cup {node}
                       /\ \A j \in 1 .. i : nexts[j] \in visit[i].visited}
  OBVIOUS
<1>13. 0 \in T
  <2>1. Sound(nodes, start, e) /\ Open(e) = Open(w) \cup {node}
    BY <1>1, EnterSound
  <2>2. \A j \in 1 .. 0 : nexts[j] \in e.visited
    OBVIOUS
  <2>. QED  BY <1>8, <1>12, <2>1, <2>2
<1>14. ASSUME NEW i \in 0 .. m - 1, i \in T
       PROVE  i + 1 \in T
  <2>1. i + 1 \in 1 .. m /\ (i + 1) - 1 = i /\ i + 1 \in 0 .. m /\ i \in 0 .. m
    BY <1>8, NextPlace
  <2>2. PICK v : v = visit[i]
    OBVIOUS
  <2>3. PICK u : u = visit[i + 1]
    OBVIOUS
  <2>4. PICK b : b = nexts[i + 1]
    OBVIOUS
  <2>5. v \in From(e) /\ v \in Search /\ Unseen(v) < Unseen(w) /\ b \in AgentIds /\ u = dfs[<<b, v>>]
    BY <1>5, <1>8, <2>1, <2>2, <2>3, <2>4
  <2>6. ~v.failed =>
          /\ Sound(nodes, start, v) /\ Open(v) = Open(w) \cup {node}
          /\ \A j \in 1 .. i : nexts[j] \in v.visited
    BY <1>12, <1>14, <2>2
  <2>7. Called(nodes, start, b, v)
    BY <1>11, <2>1, <2>4, <2>6 DEF Called
  <2>8. Returned(nodes, start, b, v, u)
    BY <2>5, <2>7 DEF FindsBelow
  <2>9. v.visited \subseteq u.visited
    <3>1. u \in From(v)
      BY <2>5 DEF IsDfs
    <3>. QED  BY <3>1 DEF From
  <2>10. ASSUME ~u.failed
         PROVE  /\ Sound(nodes, start, u) /\ Open(u) = Open(w) \cup {node}
                /\ \A j \in 1 .. i + 1 : nexts[j] \in u.visited
    <3>1. ~v.failed /\ Sound(nodes, start, u) /\ b \in u.visited /\ Open(u) = Open(v)
      BY <2>8, <2>10 DEF Returned
    <3>2. \A j \in 1 .. i + 1 : j \in 1 .. i \/ j = i + 1
      BY <1>8
    <3>. QED  BY <2>4, <2>6, <2>9, <3>1, <3>2
  <2>. QED  BY <1>12, <2>1, <2>3, <2>10
<1>15. 0 .. m \subseteq T
  BY <1>8, <1>13, <1>14, UpToInduct
<1>16. m \in T /\ visit[m] \in Search
  BY <1>5, <1>8, <1>15
<1>17. PICK u : u = visit[m]
  OBVIOUS
<1>18. ~u.failed =>
         /\ Sound(nodes, start, u) /\ Open(u) = Open(w) \cup {node}
         /\ \A j \in 1 .. m : nexts[j] \in u.visited
  BY <1>12, <1>16, <1>17
<1>19. \A b \in AgentIds : Leads(nodes, node, b) => \E j \in 1 .. m : b = nexts[j]
  BY <1>2, <1>7 DEF Leads
<1>. QED  BY <1>1, <1>2, <1>8, <1>16, <1>17, <1>18, <1>19

LEMMA VisitNodeFinds ==
  ASSUME NEW nodes, IsGraph(nodes), NEW start, NEW dfs, IsDfs(dfs, nodes),
         NEW node \in AgentIds, NEW w \in Search, Called(nodes, start, node, w),
         FindsBelow(dfs, nodes, start, Unseen(w))
  PROVE  Returned(nodes, start, node, w, VisitNode(nodes, dfs, node, w))
<1>1. CASE node \in w.visited \/ w.failed
  BY <1>1 DEF VisitNode, Returned, Called
<1>2. CASE ~(node \in w.visited \/ w.failed) /\ node \notin DOMAIN nodes
  <2>1. VisitNode(nodes, dfs, node, w).failed
    BY <1>2 DEF VisitNode, Search
  <2>. QED  BY <2>1 DEF Returned
<1>3. CASE ~(node \in w.visited \/ w.failed) /\ node \in DOMAIN nodes
  <2>1. PICK u : u = VisitAll(dfs, nodes[node], Enter(w, node))
    OBVIOUS
  <2>2. /\ u \in Search
        /\ ~u.failed =>
             /\ Sound(nodes, start, u) /\ Open(u) = Open(w) \cup {node}
             /\ \A b \in AgentIds : Leads(nodes, node, b) => b \in u.visited
    BY <1>3, <2>1, NextSound
  <2>3. PICK v : v = Leave(u, node)
    OBVIOUS
  <2>4. VisitNode(nodes, dfs, node, w) = v /\ v.failed = u.failed
    BY <1>3, <2>1, <2>2, <2>3 DEF VisitNode, Leave, Search
  <2>5. ASSUME ~u.failed
        PROVE  Sound(nodes, start, v) /\ node \in v.visited /\ Open(v) = Open(w)
    BY <1>3, <2>2, <2>3, <2>5, LeaveSound
  <2>. QED  BY <1>3, <2>4, <2>5 DEF Returned
<1>. QED  BY <1>1, <1>2, <1>3

LEMMA DfsFinds ==
  ASSUME NEW nodes, IsGraph(nodes), NEW start, NEW dfs, IsDfs(dfs, nodes),
         NEW node \in AgentIds, NEW w \in Search, Called(nodes, start, node, w)
  PROVE  Returned(nodes, start, node, w, dfs[<<node, w>>])
<1>1. PICK T : T = {k \in Nat : FindsBelow(dfs, nodes, start, k)}
  OBVIOUS
<1>2. 0 \in T
  <2>1. FindsBelow(dfs, nodes, start, 0)
    BY UnseenIs DEF FindsBelow
  <2>. QED  BY <1>1, <2>1
<1>3. ASSUME NEW k \in Nat, k \in T
      PROVE  k + 1 \in T
  <2>1. ASSUME NEW n \in AgentIds, NEW v \in Search, Unseen(v) < k + 1, Called(nodes, start, n, v)
        PROVE  Returned(nodes, start, n, v, dfs[<<n, v>>])
    <3>1. Unseen(v) \in Nat /\ \A u \in Search : Unseen(u) \in Nat
      BY UnseenIs
    <3>2. \A u \in Search : Unseen(u) < Unseen(v) => Unseen(u) < k
      BY <2>1, <3>1
    <3>3. FindsBelow(dfs, nodes, start, Unseen(v))
      BY <1>1, <1>3, <3>2 DEF FindsBelow
    <3>4. Returned(nodes, start, n, v, VisitNode(nodes, dfs, n, v))
      BY <2>1, <3>3, VisitNodeFinds
    <3>. QED  BY <3>4 DEF IsDfs
  <2>2. FindsBelow(dfs, nodes, start, k + 1)
    BY <2>1 DEF FindsBelow
  <2>. QED  BY <1>1, <2>2
<1>4. Nat \subseteq T
  BY <1>2, <1>3, NatInduct
<1>5. Unseen(w) \in Nat /\ Unseen(w) + 1 \in Nat /\ Unseen(w) < Unseen(w) + 1
  <2>1. Unseen(w) \in Nat
    BY UnseenIs
  <2>. QED  BY <2>1
<1>6. FindsBelow(dfs, nodes, start, Unseen(w) + 1)
  BY <1>1, <1>4, <1>5
<1>. QED  BY <1>5, <1>6 DEF FindsBelow

-----------------------------------------------------------------------------
(* The order of execution.                                                 *)
LEMMA NothingFound ==
  ASSUME NEW nodes, NEW start \in AgentIds
  PROVE  /\ NoSearch \in Search /\ ~NoSearch.failed /\ Open(NoSearch) = {}
         /\ Called(nodes, start, start, NoSearch)
<1>1. NoSearch.visited = {} /\ NoSearch.order = <<>> /\ NoSearch.failed = FALSE
  BY DEF NoSearch
<1>2. <<>> \in Seq(AgentIds) /\ Held(<<>>) = {} /\ Len(<<>>) = 0
  BY HeldNothing
<1>3. NoSearch \in Search
  BY <1>2 DEF NoSearch, Search
<1>4. \A p \in 1 .. 0 : FALSE
  OBVIOUS
<1>5. Open(NoSearch) = {}
  BY <1>1 DEF Open
<1>6. Distinct(NoSearch.order) /\ Settled(nodes, NoSearch)
  BY <1>1, <1>2, <1>4 DEF Distinct, Settled
<1>7. Sound(nodes, start, NoSearch)
  BY <1>1, <1>2, <1>6 DEF Sound
<1>8. start \in Reachable(nodes, start)
  BY ReachStart
<1>. QED  BY <1>1, <1>3, <1>5, <1>7, <1>8 DEF Called

LEMMA FoundIs ==
  ASSUME NEW nodes, IsGraph(nodes), NEW start \in AgentIds
  PROVE  LET found == Dfs(nodes, start)
         IN  /\ found \in Search
             /\ ~found.failed =>
                  /\ Sound(nodes, start, found) /\ Held(found.order) = Reachable(nodes, start)
                  /\ Len(found.order) > 0 /\ found.order[Len(found.order)] = start
<1>1. PICK dfs : IsDfs(dfs, nodes) /\ Dfs(nodes, start) = dfs[<<start, NoSearch>>]
  BY DfsSolves
<1>2. PICK found : found = Dfs(nodes, start)
  OBVIOUS
<1>3. /\ NoSearch \in Search /\ ~NoSearch.failed /\ Open(NoSearch) = {}
      /\ Called(nodes, start, start, NoSearch)
  BY NothingFound
<1>4. found \in From(NoSearch) /\ found = VisitNode(nodes, dfs, start, NoSearch)
  BY <1>1, <1>2, <1>3 DEF IsDfs
<1>5. Returned(nodes, start, start, NoSearch, found)
  BY <1>1, <1>2, <1>3, DfsFinds
<1>6. found \in Search
  BY <1>4 DEF From
<1>7. ASSUME ~found.failed
      PROVE  /\ Sound(nodes, start, found) /\ Held(found.order) = Reachable(nodes, start)
             /\ Len(found.order) > 0 /\ found.order[Len(found.order)] = start
  <2>1. Sound(nodes, start, found) /\ start \in found.visited /\ Open(found) = {}
    BY <1>3, <1>5, <1>7 DEF Returned
  <2>2. /\ Held(found.order) \subseteq found.visited /\ found.visited \subseteq Reachable(nodes, start)
        /\ Settled(nodes, found)
    BY <2>1 DEF Sound
  <2>3. Held(found.order) = found.visited
    BY <2>1, <2>2 DEF Open
  <2>4. IsClosed(nodes, found.visited)
    <3>1. ASSUME NEW a \in found.visited, NEW b \in AgentIds, Leads(nodes, a, b)
          PROVE  b \in found.visited
      <4>1. PICK p \in 1 .. Len(found.order) : found.order[p] = a
        BY <2>3, <3>1 DEF Held
      <4>. QED  BY <2>2, <3>1, <4>1 DEF Settled
    <3>. QED  BY <3>1 DEF IsClosed
  <2>5. found.visited \subseteq AgentIds
    BY <1>6 DEF Search
  <2>6. Reachable(nodes, start) \subseteq found.visited
    BY <2>1, <2>4, <2>5, ReachLeast
  <2>7. start \in DOMAIN nodes
    <3>1. NoSearch.visited = {}
      BY DEF NoSearch
    <3>2. CASE start \notin DOMAIN nodes
      <4>1. found = [NoSearch EXCEPT !.failed = TRUE]
        BY <1>3, <1>4, <3>1, <3>2 DEF VisitNode
      <4>. QED  BY <1>7, <4>1 DEF NoSearch
    <3>. QED  BY <3>2
  <2>8. PICK u : u = VisitAll(dfs, nodes[start], Enter(NoSearch, start))
    OBVIOUS
  <2>9. start \notin NoSearch.visited
    BY DEF NoSearch
  <2>10. u \in Search
    <3>1. FindsBelow(dfs, nodes, start, Unseen(NoSearch))
      BY <1>1, DfsFinds DEF FindsBelow
    <3>. QED  BY <1>1, <1>3, <2>7, <2>8, <2>9, <3>1, NextSound
  <2>11. found = Leave(u, start)
    BY <1>3, <1>4, <2>7, <2>8, <2>9 DEF VisitNode
  <2>12. found.order = Append(u.order, start)
    BY <2>10, <2>11 DEF Leave, Search
  <2>13. AList(u.order)
    BY <2>10, OrderHeld
  <2>14. /\ Len(found.order) = Len(u.order) + 1 /\ Len(u.order) \in Nat
         /\ found.order[Len(found.order)] = start
    BY <2>12, <2>13, HeldAppend
  <2>15. Len(found.order) > 0
    BY <2>14
  <2>. QED  BY <2>1, <2>2, <2>3, <2>6, <2>14, <2>15
<1>. QED  BY <1>2, <1>6, <1>7

(* What the order says, turned around.                                     *)
Follows(nodes, start, order) ==
  /\ order \in Seq(AgentIds)
  /\ order # <<>> =>
       /\ Len(order) > 0 /\ order[1] = start
       /\ Held(order) = Reachable(nodes, start)
       /\ Distinct(order)
       /\ Acyclic(nodes, start) =>
            \A n \in 1 .. Len(order), a \in Reachable(nodes, start) :
              Leads(nodes, a, order[n]) => \E q \in 1 .. n - 1 : order[q] = a

LEMMA OrderFollows ==
  ASSUME NEW nodes, IsGraph(nodes), NEW start \in AgentIds
  PROVE  Follows(nodes, start, ExecutionOrder(nodes, start))
<1>1. PICK found : found = Dfs(nodes, start)
  OBVIOUS
<1>2. found \in Search
  BY <1>1, FoundIs
<1>3. CASE found.failed
  <2>1. ExecutionOrder(nodes, start) = <<>>
    BY <1>1, <1>3 DEF ExecutionOrder
  <2>2. <<>> \in Seq(AgentIds)
    OBVIOUS
  <2>. QED  BY <2>1, <2>2 DEF Follows
<1>4. CASE ~found.failed
  <2>1. PICK s : s = found.order
    OBVIOUS
  <2>2. PICK m : m = Len(s)
    OBVIOUS
  <2>3. PICK t : t = Reverse(s)
    OBVIOUS
  <2>4. ExecutionOrder(nodes, start) = t
    BY <1>1, <1>4, <2>1, <2>3 DEF ExecutionOrder
  <2>5. /\ Sound(nodes, start, found) /\ Held(s) = Reachable(nodes, start)
        /\ m > 0 /\ s[m] = start
    BY <1>1, <1>4, <2>1, <2>2, FoundIs
  <2>6. Distinct(s) /\ Settled(nodes, found)
    BY <2>1, <2>5 DEF Sound
  <2>7. s \in Seq(AgentIds)
    BY <1>2, <2>1 DEF Search
  <2>8. /\ t \in Seq(AgentIds) /\ Len(t) = m /\ m \in Nat
        /\ \A i \in 1 .. m : t[i] = s[m - i + 1] /\ m - i + 1 \in 1 .. m
    BY <2>2, <2>3, <2>7, ReverseIs
  <2>9. \A i \in 1 .. m : m - (m - i + 1) + 1 = i
    BY <2>8
  <2>10. \A i \in 1 .. m : s[i] = t[m - i + 1]
    BY <2>8, <2>9
  <2>11. t[1] = start
    <3>1. 1 \in 1 .. m /\ m - 1 + 1 = m
      BY <2>5, <2>8
    <3>2. t[1] = s[m - 1 + 1]
      BY <2>8, <3>1
    <3>. QED  BY <2>5, <3>1, <3>2
  <2>12. Held(t) = Held(s)
    BY <2>2, <2>8, <2>10 DEF Held
  <2>13. Distinct(t)
    <3>1. ASSUME NEW p \in 1 .. m, NEW q \in 1 .. m, t[p] = t[q]
          PROVE  p = q
      <4>1. m - p + 1 = m - q + 1
        BY <2>2, <2>6, <2>8, <3>1 DEF Distinct
      <4>. QED  BY <2>8, <4>1
    <3>. QED  BY <2>8, <3>1 DEF Distinct
  <2>14. ASSUME Acyclic(nodes, start), NEW n \in 1 .. m, NEW a \in Reachable(nodes, start),
                Leads(nodes, a, t[n])
         PROVE  \E q \in 1 .. n - 1 : t[q] = a
    <3>1. PICK b : b = t[n]
      OBVIOUS
    <3>2. b \in AgentIds /\ Leads(nodes, a, b)
      BY <2>8, <2>14, <3>1
    <3>3. a \notin Reachable(nodes, b)
      BY <2>14, <3>2 DEF Acyclic
    <3>4. PICK p \in 1 .. m : s[p] = a
      BY <2>2, <2>5 DEF Held
    <3>5. PICK q \in 1 .. p - 1 : s[q] = b
      BY <2>1, <2>2, <2>6, <3>2, <3>3, <3>4 DEF Settled
    <3>6. q \in 1 .. m /\ m - n + 1 \in 1 .. m /\ s[m - n + 1] = b
      BY <2>8, <3>1, <3>4, <3>5
    <3>7. q = m - n + 1
      BY <2>2, <2>6, <3>5, <3>6 DEF Distinct
    <3>8. m - p + 1 \in 1 .. n - 1
      BY <2>8, <3>4, <3>5, <3>7
    <3>. QED  BY <2>10, <3>4, <3>8
  <2>. QED  BY <2>4, <2>5, <2>8, <2>11, <2>12, <2>13, <2>14 DEF Follows
<1>. QED  BY <1>3, <1>4

-----------------------------------------------------------------------------
(* The history of runs.                                                    *)

(* The rows of a process or of a run start at 1 and have no gap.           *)

Gapless(rows) == \A n \in DOMAIN rows, m \in Nat \ {0} : m < n => m \in DOMAIN rows

(* Which run a process may write.                                          *)
RunInv ==
  /\ \A x \in Executors : run[x] \in Given \cup {None}
  /\ \A x \in Workflows \cup Forkers : run[x] \in {x, None}
  /\ \A p \in Readers : run[p] = None

ProcessInv ==
  \A p \in Processes :
    /\ Gapless(script[p])
    /\ pc[p] = "idle" => sequence[p] = 0 /\ run[p] = None /\ source[p] = None
    /\ pc[p] = "appending" => run[p] # None /\ p \in Writers
    /\ sequence[p] # 0 => sequence[p] \in DOMAIN script[p] /\ run[p] # None /\ p \in Writers

(* A writer that has begun wrote all that its run has, and is alone.       *)
AuthorInv ==
  /\ \A p \in Writers : sequence[p] # 0 => run_events[run[p]] = UpTo(script[p], sequence[p])
  /\ \A p, q \in Writers : sequence[p] # 0 /\ sequence[q] # 0 /\ run[p] = run[q] => p = q
  /\ \A r \in Runs : run_events[r] # NoRows => \E p \in Writers : run[p] = r /\ sequence[p] # 0

SourceInv ==
  \A p \in Processes : source[p] # None => Prefix(script[p], run_events[source[p]])

TimelineInv == TypeOK /\ RunInv /\ ProcessInv /\ AuthorInv /\ SourceInv

-----------------------------------------------------------------------------
(* Rows.                                                                   *)

LEMMA RowNumbers ==
  ASSUME NEW rows, IsRows(rows)
  PROVE  \A n \in DOMAIN rows : n \in Nat /\ n > 0 /\ rows[n] \in Event
BY DEF IsRows

LEMMA EmptyRows ==
  ASSUME NEW rows, IsRows(rows), DOMAIN rows = {}
  PROVE  rows = NoRows
BY DEF IsRows, NoRows

LEMMA NoRowsType == IsRows(NoRows) /\ DOMAIN NoRows = {} /\ Gapless(NoRows)
BY DEF IsRows, NoRows, Gapless

LEMMA UpToType ==
  ASSUME NEW rows, IsRows(rows), NEW k \in Nat
  PROVE  /\ IsRows(UpTo(rows, k))
         /\ DOMAIN UpTo(rows, k) = {m \in DOMAIN rows : m <= k}
         /\ \A m \in DOMAIN rows : m <= k => UpTo(rows, k)[m] = rows[m]
<1>1. DOMAIN UpTo(rows, k) = {m \in DOMAIN rows : m <= k}  BY DEF UpTo
<1>2. \A m \in DOMAIN UpTo(rows, k) : UpTo(rows, k)[m] = rows[m]  BY DEF UpTo
<1>3. UpTo(rows, k) = [m \in DOMAIN UpTo(rows, k) |-> UpTo(rows, k)[m]]  BY DEF UpTo
<1> QED  BY <1>1, <1>2, <1>3 DEF IsRows

LEMMA UpToZero ==
  ASSUME NEW rows, IsRows(rows)
  PROVE  UpTo(rows, 0) = NoRows
<1>1. IsRows(UpTo(rows, 0)) /\ DOMAIN UpTo(rows, 0) = {m \in DOMAIN rows : m <= 0}
  BY UpToType
<1>2. DOMAIN UpTo(rows, 0) = {}  BY <1>1, RowNumbers
<1> QED  BY <1>1, <1>2, EmptyRows

LEMMA UpToGapless ==
  ASSUME NEW rows, IsRows(rows), Gapless(rows), NEW k \in Nat
  PROVE  Gapless(UpTo(rows, k))
<1>1. DOMAIN UpTo(rows, k) = {m \in DOMAIN rows : m <= k}  BY UpToType
<1>2. \A n \in DOMAIN rows : n \in Nat  BY RowNumbers
<1> QED  BY <1>1, <1>2 DEF Gapless

LEMMA WithType ==
  ASSUME NEW rows, IsRows(rows), NEW n \in Nat \ {0}, NEW event \in Event
  PROVE  /\ IsRows(With(rows, n, event))
         /\ DOMAIN With(rows, n, event) = DOMAIN rows \cup {n}
         /\ With(rows, n, event)[n] = event
         /\ \A m \in DOMAIN rows : m # n => With(rows, n, event)[m] = rows[m]
BY DEF IsRows, With

LEMMA EqualRows ==
  ASSUME NEW f, NEW g, IsRows(f), IsRows(g), DOMAIN f = DOMAIN g,
         \A n \in DOMAIN f : f[n] = g[n]
  PROVE  f = g
BY DEF IsRows

(* Writing the next row of a script is moving the cut behind it.           *)
LEMMA UpToNext ==
  ASSUME NEW rows, IsRows(rows), NEW k \in Nat, NEW n \in DOMAIN rows, n > k,
         \A m \in DOMAIN rows : m > k => n <= m
  PROVE  With(UpTo(rows, k), n, rows[n]) = UpTo(rows, n)
<1>1. n \in Nat \ {0} /\ n \in Nat /\ rows[n] \in Event
  BY RowNumbers
<1>0. /\ IsRows(UpTo(rows, k))
      /\ DOMAIN UpTo(rows, k) = {m \in DOMAIN rows : m <= k}
      /\ \A m \in DOMAIN rows : m <= k => UpTo(rows, k)[m] = rows[m]
  BY UpToType
<1> DEFINE longer == With(UpTo(rows, k), n, rows[n])
<1>7. /\ IsRows(longer)
      /\ DOMAIN longer = DOMAIN UpTo(rows, k) \cup {n}
      /\ longer[n] = rows[n]
      /\ \A m \in DOMAIN UpTo(rows, k) : m # n => longer[m] = UpTo(rows, k)[m]
  BY <1>0, <1>1, WithType
<1> HIDE DEF longer
<1>2. IsRows(longer) /\ IsRows(UpTo(rows, n))  BY <1>1, <1>7, UpToType
<1>3. DOMAIN longer = {m \in DOMAIN rows : m <= k} \cup {n}  BY <1>7, <1>0
<1>4. DOMAIN UpTo(rows, n) = {m \in DOMAIN rows : m <= n}  BY <1>1, UpToType
<1>5. DOMAIN longer = DOMAIN UpTo(rows, n)
  <2>1. \A m \in DOMAIN rows : m \in Nat  BY RowNumbers
  <2>2. \A m \in DOMAIN rows : m <= n <=> (m <= k \/ m = n)  BY <2>1, <1>1
  <2> QED  BY <1>3, <1>4, <2>2
<1>6. ASSUME NEW m \in DOMAIN longer PROVE longer[m] = UpTo(rows, n)[m]
  <2>1. CASE m = n
    <3>1. longer[n] = rows[n]  BY <1>7
    <3>2. UpTo(rows, n)[n] = rows[n]  BY <1>1, UpToType
    <3> QED  BY <2>1, <3>1, <3>2
  <2>2. CASE m # n
    <3>1. m \in DOMAIN rows /\ m <= k /\ m \in DOMAIN UpTo(rows, k)  BY <2>2, <1>3, <1>0
    <3>2. longer[m] = UpTo(rows, k)[m]  BY <2>2, <3>1, <1>7
    <3>3. UpTo(rows, k)[m] = rows[m]  BY <3>1, <1>0
    <3>4. m <= n  BY <1>6, <1>5, <1>4
    <3>5. UpTo(rows, n)[m] = rows[m]  BY <3>1, <3>4, <1>1, UpToType
    <3> QED  BY <3>2, <3>3, <3>5
  <2> QED  BY <2>1, <2>2
<1> QED  BY <1>2, <1>5, <1>6, EqualRows DEF longer

LEMMA PrefixReflexive ==
  ASSUME NEW rows
  PROVE  Prefix(rows, rows)
BY DEF Prefix

LEMMA PrefixUpTo ==
  ASSUME NEW rows, IsRows(rows), NEW k \in Nat
  PROVE  Prefix(UpTo(rows, k), rows)
<1>1. /\ DOMAIN UpTo(rows, k) = {m \in DOMAIN rows : m <= k}
      /\ \A m \in DOMAIN rows : m <= k => UpTo(rows, k)[m] = rows[m]
  BY UpToType
<1>2. \A n \in DOMAIN rows : n \in Nat  BY RowNumbers
<1> QED  BY <1>1, <1>2 DEF Prefix

LEMMA PrefixTransitive ==
  ASSUME NEW f, NEW g, NEW h, Prefix(f, g), Prefix(g, h)
  PROVE  Prefix(f, h)
BY DEF Prefix

(* A run that grows at its end is still the beginning of itself.           *)
LEMMA PrefixWith ==
  ASSUME NEW rows, IsRows(rows), NEW n \in Nat \ {0}, NEW event \in Event,
         \A m \in DOMAIN rows : m < n
  PROVE  Prefix(rows, With(rows, n, event))
<1>1. /\ DOMAIN With(rows, n, event) = DOMAIN rows \cup {n}
      /\ \A m \in DOMAIN rows : m # n => With(rows, n, event)[m] = rows[m]
  BY WithType
<1>2. \A m \in DOMAIN rows : m < n /\ m \in Nat  BY RowNumbers
<1>3. \A m \in DOMAIN rows : m # n  BY <1>2
<1>4. \A m \in DOMAIN rows : With(rows, n, event)[m] = rows[m]  BY <1>1, <1>3
<1> QED  BY <1>1, <1>2, <1>4 DEF Prefix

-----------------------------------------------------------------------------
(* Types.                                                                  *)

LEMMA ScriptType ==
  ASSUME NEW t \in Tasks
  PROVE  LET rows == ScriptOf(ExecutionOrder(t.graph, t.start)) IN IsRows(rows) /\ Gapless(rows)
<1> DEFINE order == ExecutionOrder(t.graph, t.start)
<1> DEFINE rows == ScriptOf(order)
<1>1. order \in Seq(AgentIds)  BY TimelineAssumption, OrderFollows DEF Follows
<1> HIDE DEF order
<1>2. Len(order) \in Nat /\ \A i \in 1..Len(order) : order[i] \in AgentIds  BY <1>1
<1>3. DOMAIN rows = 1..(2 * Len(order))  BY DEF ScriptOf
<1>4. ASSUME NEW n \in DOMAIN rows PROVE rows[n] \in Event
  <2>1. n \in Nat /\ n >= 1 /\ n <= 2 * Len(order)  BY <1>2, <1>3
  <2>2. (n + 1) \div 2 \in 1..Len(order)  BY <1>2, <2>1
  <2>3. order[(n + 1) \div 2] \in AgentIds  BY <1>2, <2>2
  <2> QED  BY <2>3, <1>3 DEF ScriptOf, Event
<1>5. rows = [n \in DOMAIN rows |-> rows[n]]  BY DEF ScriptOf
<1>6. IsRows(rows)  BY <1>2, <1>3, <1>4, <1>5 DEF IsRows
<1>7. Gapless(rows)  BY <1>2, <1>3 DEF Gapless
<1> QED  BY <1>6, <1>7 DEF order

LEMMA SpecType ==
  ASSUME NEW spec \in Specs
  PROVE  LET rows == [n \in DOMAIN spec |-> [type |-> "agent_step", agent |-> spec[n]]]
         IN  IsRows(rows) /\ Gapless(rows)
<1>1. spec \in Seq(AgentIds)  BY TimelineAssumption
<1>2. Len(spec) \in Nat /\ DOMAIN spec = 1..Len(spec) /\ \A n \in DOMAIN spec : spec[n] \in AgentIds
  BY <1>1
<1> QED  BY <1>2 DEF IsRows, Gapless, Event

LEMMA InitTimelineInv ==
  ASSUME Init
  PROVE  TimelineInv
<1>1. \A p \in Processes : script[p] = NoRows /\ sequence[p] = 0 /\ run[p] = None /\ source[p] = None
  BY DEF Init
<1>2. \A r \in Runs : run_events[r] = NoRows  BY DEF Init
<1>3. Writers \subseteq Processes /\ Readers \subseteq Processes  BY DEF Processes
<1>4. TypeOK  BY <1>1, <1>2, NoRowsType DEF TypeOK, Init
<1>5. RunInv  BY <1>1, <1>3 DEF RunInv, Writers
<1>6. ProcessInv  BY <1>1, NoRowsType DEF ProcessInv, Init
<1>7. AuthorInv  BY <1>1, <1>2, <1>3 DEF AuthorInv
<1>8. SourceInv  BY <1>1 DEF SourceInv
<1> QED  BY <1>4, <1>5, <1>6, <1>7, <1>8 DEF TimelineInv

-----------------------------------------------------------------------------
(* Steps.                                                                  *)

Places == {"idle", "appending", "holding", "done", "failed", "dead"}

(* A process that was idle takes its rows; the table does not change.      *)
LEMMA Begin ==
  ASSUME TimelineInv, NEW p \in Processes, pc[p] = "idle",
         NEW rows, IsRows(rows), Gapless(rows),
         NEW r \in Runs \cup {None}, NEW s \in Runs \cup {None},
         NEW place \in Places \ {"idle"},
         place = "appending" => r # None /\ p \in Writers,
         s # None => Prefix(rows, run_events[s]),
         p \in Executors => r \in Given \cup {None},
         p \in Workflows \cup Forkers => r \in {p, None},
         p \in Readers => r = None,
         script' = [script EXCEPT ![p] = rows],
         run' = [run EXCEPT ![p] = r],
         source' = [source EXCEPT ![p] = s],
         pc' = [pc EXCEPT ![p] = place],
         task' \in [Processes -> Tasks \cup {None}],
         UNCHANGED <<run_events, sequence>>
  PROVE  TimelineInv'
<1> USE DEF TimelineInv
<1>0. sequence[p] = 0  BY DEF ProcessInv
<1>1. TypeOK'
  <2>1. /\ \A q \in Processes : IsRows(script'[q])
        /\ script' = [q \in Processes |-> script'[q]]
    BY DEF TypeOK
  <2>2. pc' \in [Processes -> Places]  BY DEF TypeOK, Places
  <2> QED  BY <2>1, <2>2 DEF TypeOK, Places
<1>2. RunInv'  BY DEF RunInv, TypeOK, Processes, Writers
<1>3. ProcessInv'
  <2> SUFFICES ASSUME NEW q \in Processes
               PROVE  /\ Gapless(script'[q])
                      /\ pc'[q] = "idle" => sequence[q] = 0 /\ run'[q] = None /\ source'[q] = None
                      /\ pc'[q] = "appending" => run'[q] # None /\ q \in Writers
                      /\ sequence[q] # 0 => sequence[q] \in DOMAIN script'[q] /\ run'[q] # None /\ q \in Writers
    BY DEF ProcessInv
  <2>1. CASE q = p  BY <2>1, <1>0 DEF TypeOK
  <2>2. CASE q # p
    <3>1. script'[q] = script[q] /\ pc'[q] = pc[q] /\ run'[q] = run[q] /\ source'[q] = source[q]
      BY <2>2 DEF TypeOK
    <3> QED  BY <3>1 DEF ProcessInv
  <2> QED  BY <2>1, <2>2
<1>4. \A q \in Writers : sequence[q] # 0 => run'[q] = run[q] /\ script'[q] = script[q]
  BY <1>0 DEF TypeOK, Processes
<1>5. AuthorInv'  BY <1>4 DEF AuthorInv
<1>6. SourceInv'
  <2> SUFFICES ASSUME NEW q \in Processes, source'[q] # None
               PROVE  Prefix(script'[q], run_events[source'[q]])
    BY DEF SourceInv
  <2>1. CASE q = p  BY <2>1 DEF TypeOK
  <2>2. CASE q # p
    <3>1. script'[q] = script[q] /\ source'[q] = source[q]  BY <2>2 DEF TypeOK
    <3> QED  BY <3>1 DEF SourceInv
  <2> QED  BY <2>1, <2>2
<1> QED  BY <1>1, <1>2, <1>3, <1>5, <1>6

LEMMA IdleNone ==
  ASSUME TimelineInv, NEW p \in Processes, pc[p] = "idle"
  PROVE  /\ run[p] = None /\ source[p] = None
         /\ run = [run EXCEPT ![p] = None] /\ source = [source EXCEPT ![p] = None]
<1>1. run[p] = None /\ source[p] = None  BY DEF TimelineInv, ProcessInv
<1> QED  BY <1>1 DEF TimelineInv, TypeOK

LEMMA Memberships ==
  /\ \A x \in Executors : x \in Processes /\ x \in Writers /\ x \notin Workflows \cup Forkers /\ x \notin Readers
  /\ \A x \in Workflows \cup Forkers :
       x \in Processes /\ x \in Writers /\ x \in Runs /\ x \notin Executors /\ x \notin Readers /\ x \notin Given
  /\ \A x \in Readers : x \in Processes /\ x \notin Writers
  /\ None \notin Runs
BY TimelineAssumption DEF Processes, Writers, Runs

LEMMA ExecuteInv ==
  ASSUME TimelineInv, NEW x \in Executors, NEW r \in Given, NEW t \in Tasks, Execute(x, r, t)
  PROVE  TimelineInv'
<1> DEFINE order == ExecutionOrder(t.graph, t.start)
<1> DEFINE rows == ScriptOf(order)
<1> DEFINE place == IF order = <<>> THEN "failed" ELSE "appending"
<1>1. IsRows(rows) /\ Gapless(rows)  BY ScriptType
<1>2. /\ pc[x] = "idle"
      /\ script' = [script EXCEPT ![x] = rows]
      /\ run' = [run EXCEPT ![x] = r]
      /\ task' = [task EXCEPT ![x] = t]
      /\ pc' = [pc EXCEPT ![x] = place]
      /\ UNCHANGED <<run_events, source, sequence>>
  BY DEF Execute, Take, Goto
<1>3. place \in Places \ {"idle"}  BY DEF Places
<1>4. x \in Processes /\ x \in Writers /\ x \notin Workflows \cup Forkers /\ x \notin Readers
  BY Memberships
<1>5. task' \in [Processes -> Tasks \cup {None}]  BY <1>2, <1>4 DEF TimelineInv, TypeOK
<1>6. source' = [source EXCEPT ![x] = None]  BY <1>2, <1>4, IdleNone
<1>7. r \in Runs \cup {None} /\ r # None  BY Memberships DEF Runs
<1> HIDE DEF rows, place
<1> QED  BY <1>1, <1>2, <1>3, <1>4, <1>5, <1>6, <1>7, Begin

LEMMA RunWorkflowInv ==
  ASSUME TimelineInv, NEW x \in Workflows, NEW spec \in Specs, RunWorkflow(x, spec)
  PROVE  TimelineInv'
<1> DEFINE rows == [n \in DOMAIN spec |-> [type |-> "agent_step", agent |-> spec[n]]]
<1>1. IsRows(rows) /\ Gapless(rows)  BY SpecType
<1>2. /\ pc[x] = "idle"
      /\ script' = [script EXCEPT ![x] = rows]
      /\ run' = [run EXCEPT ![x] = x]
      /\ pc' = [pc EXCEPT ![x] = "appending"]
      /\ UNCHANGED <<run_events, source, task, sequence>>
  BY DEF RunWorkflow, Take, Goto
<1>3. "appending" \in Places \ {"idle"}  BY DEF Places
<1>4. x \in Processes /\ x \in Writers /\ x \in Runs /\ x \notin Executors /\ x \notin Readers /\ x # None
  BY Memberships
<1>5. task' \in [Processes -> Tasks \cup {None}]  BY <1>2 DEF TimelineInv, TypeOK
<1>6. source' = [source EXCEPT ![x] = None]  BY <1>2, <1>4, IdleNone
<1> HIDE DEF rows
<1> QED  BY <1>1, <1>2, <1>3, <1>4, <1>5, <1>6, Begin

(* What a run has is gapless, so what a fork or a reader takes is too.     *)
LEMMA RunGapless ==
  ASSUME TimelineInv, NEW r \in Runs
  PROVE  IsRows(run_events[r]) /\ Gapless(run_events[r])
<1>1. IsRows(run_events[r])  BY DEF TimelineInv, TypeOK
<1>2. CASE run_events[r] = NoRows  BY <1>1, <1>2, NoRowsType
<1>3. CASE run_events[r] # NoRows
  <2>1. PICK p \in Writers : run[p] = r /\ sequence[p] # 0  BY <1>3 DEF TimelineInv, AuthorInv
  <2>2. p \in Processes  BY DEF Processes
  <2>3. run_events[r] = UpTo(script[p], sequence[p])  BY <2>1 DEF TimelineInv, AuthorInv
  <2>4. IsRows(script[p]) /\ Gapless(script[p]) /\ sequence[p] \in Nat
    BY <2>2 DEF TimelineInv, TypeOK, ProcessInv
  <2> QED  BY <1>1, <2>3, <2>4, UpToGapless
<1> QED  BY <1>2, <1>3

LEMMA ForkInv ==
  ASSUME TimelineInv, NEW x \in Forkers, NEW r \in Runs, Fork(x, r)
  PROVE  TimelineInv'
<1> DEFINE rows == run_events[r]
<1>1. IsRows(rows) /\ Gapless(rows) /\ Prefix(rows, run_events[r])
  BY RunGapless, PrefixReflexive
<1>2. /\ pc[x] = "idle"
      /\ script' = [script EXCEPT ![x] = rows]
      /\ run' = [run EXCEPT ![x] = x]
      /\ source' = [source EXCEPT ![x] = r]
      /\ pc' = [pc EXCEPT ![x] = "appending"]
      /\ UNCHANGED <<run_events, task, sequence>>
  BY DEF Fork, Take, Goto
<1>3. "appending" \in Places \ {"idle"}  BY DEF Places
<1>4. x \in Processes /\ x \in Writers /\ x \in Runs /\ x \notin Executors /\ x \notin Readers /\ x # None
  BY Memberships
<1>5. task' \in [Processes -> Tasks \cup {None}]  BY <1>2 DEF TimelineInv, TypeOK
<1> HIDE DEF rows
<1> QED  BY <1>1, <1>2, <1>3, <1>4, <1>5, Begin

LEMMA ReadForkInv ==
  ASSUME TimelineInv, NEW x \in Readers, NEW r \in Runs, NEW step \in Steps, ReadFork(x, r, step)
  PROVE  TimelineInv'
<1> DEFINE rows == UpTo(run_events[r], step)
<1>1. step \in Nat  BY TimelineAssumption
<1>2. IsRows(rows) /\ Gapless(rows) /\ Prefix(rows, run_events[r])
  BY <1>1, RunGapless, UpToType, UpToGapless, PrefixUpTo
<1>3. /\ pc[x] = "idle"
      /\ script' = [script EXCEPT ![x] = rows]
      /\ source' = [source EXCEPT ![x] = r]
      /\ pc' = [pc EXCEPT ![x] = "holding"]
      /\ UNCHANGED <<run_events, run, task, sequence>>
  BY DEF ReadFork, Take, Goto
<1>4. "holding" \in Places \ {"idle"}  BY DEF Places
<1>5. x \in Processes /\ x \notin Workflows \cup Forkers /\ x \notin Executors
  BY Memberships DEF Writers
<1>6. task' \in [Processes -> Tasks \cup {None}]  BY <1>3 DEF TimelineInv, TypeOK
<1>7. run' = [run EXCEPT ![x] = None]  BY <1>3, <1>5, IdleNone
<1> HIDE DEF rows
<1> QED  BY <1>2, <1>3, <1>4, <1>5, <1>6, <1>7, Begin

(* A process that ends, however it does.                                   *)
LEMMA EndInv ==
  ASSUME TimelineInv, NEW p \in Writers, NEW place \in {"done", "failed", "dead"}, Goto(p, place),
         UNCHANGED <<run_events, run, source, task, script, sequence>>
  PROVE  TimelineInv'
<1>1. TypeOK'  BY DEF TimelineInv, TypeOK, Goto
<1>2. ProcessInv'  BY DEF TimelineInv, TypeOK, ProcessInv, Goto
<1>3. RunInv' /\ AuthorInv' /\ SourceInv'  BY DEF TimelineInv, RunInv, AuthorInv, SourceInv
<1> QED  BY <1>1, <1>2, <1>3 DEF TimelineInv

(* The run of a writer has what the writer wrote: nothing yet, if another  *)
(* writer's first row is not there to refuse the first one of this.        *)
LEMMA AppendsBehind ==
  ASSUME TimelineInv, NEW p \in Writers, pc[p] = "appending",
         NEW n \in DOMAIN script[p], IsNext(p, n), n \notin DOMAIN run_events[run[p]]
  PROVE  /\ run_events[run[p]] = UpTo(script[p], sequence[p])
         /\ \A q \in Writers : sequence[q] # 0 /\ run[q] = run[p] => q = p
<1>1. /\ p \in Processes /\ run[p] \in Runs /\ sequence[p] \in Nat
      /\ IsRows(script[p]) /\ Gapless(script[p])
  BY DEF TimelineInv, TypeOK, ProcessInv, Processes
<1>2. CASE sequence[p] # 0  BY <1>2 DEF TimelineInv, AuthorInv
<1>3. CASE sequence[p] = 0
  <2>1. \A m \in DOMAIN script[p] : m \in Nat /\ m > 0 /\ n <= m
    BY <1>1, <1>3, RowNumbers DEF IsNext, Remaining
  <2>2. n \in Nat /\ n > 0  BY <2>1
  <2>3. 1 \in DOMAIN script[p]  BY <1>1, <2>2 DEF Gapless
  <2>4. n = 1  BY <2>1, <2>2, <2>3
  <2>5. ASSUME NEW q \in Writers, sequence[q] # 0, run[q] = run[p]
        PROVE  FALSE
    <3>1. /\ q \in Processes /\ sequence[q] \in DOMAIN script[q]
          /\ IsRows(script[q]) /\ Gapless(script[q]) /\ sequence[q] \in Nat
      BY <2>5 DEF TimelineInv, TypeOK, ProcessInv, Processes
    <3>2. 1 \in DOMAIN script[q] /\ 1 <= sequence[q]  BY <2>5, <3>1 DEF Gapless
    <3>3. run_events[run[p]] = UpTo(script[q], sequence[q])  BY <2>5 DEF TimelineInv, AuthorInv
    <3>4. 1 \in DOMAIN run_events[run[p]]  BY <3>1, <3>2, <3>3, UpToType
    <3> QED  BY <2>4, <3>4
  <2>6. run_events[run[p]] = NoRows  BY <1>1, <2>5 DEF TimelineInv, AuthorInv
  <2> QED  BY <1>1, <1>3, <2>5, <2>6, UpToZero
<1> QED  BY <1>2, <1>3

LEMMA AppendEventInv ==
  ASSUME TimelineInv, NEW p \in Writers, AppendEvent(p)
  PROVE  TimelineInv'
<1> DEFINE r == run[p]
<1>1. PICK n \in DOMAIN script[p] :
        /\ IsNext(p, n)
        /\ n \notin DOMAIN run_events[r]
        /\ Insert(r, n, script[p][n])
        /\ sequence' = [sequence EXCEPT ![p] = n]
  BY DEF AppendEvent
<1>2. pc[p] = "appending" /\ UNCHANGED <<pc, run, source, task, script>>  BY DEF AppendEvent
<1>3. /\ p \in Processes /\ r \in Runs /\ sequence[p] \in Nat
      /\ IsRows(script[p]) /\ Gapless(script[p]) /\ IsRows(run_events[r])
  BY <1>2 DEF TimelineInv, TypeOK, ProcessInv, Processes
<1>4. n \in Nat \ {0} /\ n \in Nat /\ script[p][n] \in Event /\ n > sequence[p]
  BY <1>1, <1>3, RowNumbers DEF IsNext, Remaining
<1>5. /\ run_events[r] = UpTo(script[p], sequence[p])
      /\ \A q \in Writers : sequence[q] # 0 /\ run[q] = r => q = p
  BY <1>1, <1>2, AppendsBehind
<1> DEFINE rows == With(run_events[r], n, script[p][n])
<1>6. run_events' = [run_events EXCEPT ![r] = rows]  BY <1>1 DEF Insert
<1>7. \A m \in DOMAIN script[p] : m > sequence[p] => n <= m  BY <1>1 DEF IsNext, Remaining
<1>8. rows = UpTo(script[p], n)  BY <1>3, <1>4, <1>5, <1>7, UpToNext
<1>9. IsRows(rows) /\ DOMAIN rows = DOMAIN run_events[r] \cup {n}  BY <1>3, <1>4, WithType
<1>10. \A m \in DOMAIN run_events[r] : m < n
  <2>0. DOMAIN UpTo(script[p], sequence[p]) = {m \in DOMAIN script[p] : m <= sequence[p]}
    BY <1>3, UpToType
  <2>1. DOMAIN run_events[r] = {m \in DOMAIN script[p] : m <= sequence[p]}  BY <1>5, <2>0
  <2>2. \A m \in DOMAIN script[p] : m \in Nat  BY <1>3, RowNumbers
  <2> QED  BY <1>3, <1>4, <2>1, <2>2
<1>11. Prefix(run_events[r], rows)  BY <1>3, <1>4, <1>10, PrefixWith
<1> HIDE DEF rows
<1>12. run_events'[r] = rows /\ \A s \in Runs \ {r} : run_events'[s] = run_events[s]
  BY <1>3, <1>6 DEF TimelineInv, TypeOK
<1>13. sequence'[p] = n /\ \A q \in Processes \ {p} : sequence'[q] = sequence[q]
  BY <1>1, <1>3 DEF TimelineInv, TypeOK
<1>14. TypeOK'
  <2>1. run_events' = [s \in Runs |-> run_events'[s]]  BY <1>6 DEF TimelineInv, TypeOK
  <2>2. \A s \in Runs : IsRows(run_events'[s])  BY <1>9, <1>12 DEF TimelineInv, TypeOK
  <2>3. sequence' \in [Processes -> Nat]  BY <1>1, <1>4 DEF TimelineInv, TypeOK
  <2> QED  BY <1>2, <2>1, <2>2, <2>3 DEF TimelineInv, TypeOK
<1>15. RunInv'  BY <1>2 DEF TimelineInv, RunInv
<1>16. ProcessInv'
  <2> SUFFICES ASSUME NEW q \in Processes
               PROVE  /\ Gapless(script[q])
                      /\ pc[q] = "idle" => sequence'[q] = 0 /\ run[q] = None /\ source[q] = None
                      /\ pc[q] = "appending" => run[q] # None /\ q \in Writers
                      /\ sequence'[q] # 0 => sequence'[q] \in DOMAIN script[q] /\ run[q] # None /\ q \in Writers
    BY <1>2 DEF ProcessInv
  <2>1. CASE q = p  BY <1>1, <1>2, <1>13, <2>1 DEF TimelineInv, ProcessInv
  <2>2. CASE q # p  BY <1>13, <2>2 DEF TimelineInv, ProcessInv
  <2> QED  BY <2>1, <2>2
<1>17. AuthorInv'
  <2>1. ASSUME NEW q \in Writers, sequence'[q] # 0
        PROVE  run_events'[run[q]] = UpTo(script[q], sequence'[q])
    <3>0. q \in Processes  BY DEF Processes
    <3>1. CASE q = p  BY <3>1, <1>8, <1>12, <1>13
    <3>2. CASE q # p
      <4>1. sequence[q] # 0 /\ sequence'[q] = sequence[q]  BY <2>1, <3>0, <3>2, <1>13
      <4>2. run[q] # r /\ run[q] \in Runs
        BY <4>1, <3>0, <3>2, <1>5 DEF TimelineInv, ProcessInv, TypeOK
      <4>3. run_events'[run[q]] = run_events[run[q]]  BY <4>2, <1>12
      <4> QED  BY <4>1, <4>3 DEF TimelineInv, AuthorInv
    <3> QED  BY <3>1, <3>2
  <2>2. ASSUME NEW q1 \in Writers, NEW q2 \in Writers, sequence'[q1] # 0, sequence'[q2] # 0,
               run[q1] = run[q2]
        PROVE  q1 = q2
    <3>0. q1 \in Processes /\ q2 \in Processes  BY DEF Processes
    <3>1. CASE q1 # p /\ q2 # p
      <4>1. sequence[q1] # 0 /\ sequence[q2] # 0  BY <2>2, <3>0, <3>1, <1>13
      <4> QED  BY <2>2, <4>1 DEF TimelineInv, AuthorInv
    <3>2. CASE q1 = p \/ q2 = p  BY <2>2, <3>0, <3>2, <1>5, <1>13
    <3> QED  BY <3>1, <3>2
  <2>3. ASSUME NEW s \in Runs, run_events'[s] # NoRows
        PROVE  \E q \in Writers : run[q] = s /\ sequence'[q] # 0
    <3>1. CASE s = r  BY <3>1, <1>4, <1>13
    <3>2. CASE s # r
      <4>1. PICK q \in Writers : run[q] = s /\ sequence[q] # 0
        BY <2>3, <3>2, <1>12 DEF TimelineInv, AuthorInv
      <4>2. q # p /\ q \in Processes  BY <3>2, <4>1 DEF Processes
      <4> QED  BY <4>1, <4>2, <1>13
    <3> QED  BY <3>1, <3>2
  <2> QED  BY <1>2, <2>1, <2>2, <2>3 DEF AuthorInv
<1>18. SourceInv'
  <2> SUFFICES ASSUME NEW q \in Processes, source[q] # None
               PROVE  Prefix(script[q], run_events'[source[q]])
    BY <1>2 DEF SourceInv
  <2>1. source[q] \in Runs /\ Prefix(script[q], run_events[source[q]])
    BY DEF TimelineInv, TypeOK, SourceInv
  <2>2. CASE source[q] = r
    <3>1. Prefix(script[q], rows)  BY <2>1, <2>2, <1>11, PrefixTransitive
    <3> QED  BY <2>2, <3>1, <1>12
  <2>3. CASE source[q] # r  BY <2>1, <2>3, <1>12
  <2> QED  BY <2>2, <2>3
<1> QED  BY <1>14, <1>15, <1>16, <1>17, <1>18 DEF TimelineInv

-----------------------------------------------------------------------------
(* Theorems.                                                               *)

LEMMA NextTimelineInv ==
  ASSUME TimelineInv, [Next]_vars
  PROVE  TimelineInv'
<1>1. CASE UNCHANGED vars
  <2>1. TypeOK' /\ RunInv' /\ ProcessInv'  BY <1>1 DEF vars, TimelineInv, TypeOK, RunInv, ProcessInv
  <2>2. AuthorInv' /\ SourceInv'  BY <1>1 DEF vars, TimelineInv, AuthorInv, SourceInv
  <2> QED  BY <2>1, <2>2 DEF TimelineInv
<1>2. CASE \E x \in Executors, r \in Given, t \in Tasks : Execute(x, r, t)  BY <1>2, ExecuteInv
<1>3. CASE \E x \in Workflows, spec \in Specs : RunWorkflow(x, spec)  BY <1>3, RunWorkflowInv
<1>4. CASE \E x \in Forkers, r \in Runs : Fork(x, r)  BY <1>4, ForkInv
<1>5. CASE \E x \in Readers, r \in Runs, step \in Steps : ReadFork(x, r, step)
  BY <1>5, ReadForkInv
<1>6. CASE \E p \in Writers : AppendEvent(p)  BY <1>6, AppendEventInv
<1>7. ASSUME NEW p \in Writers, AppendFails(p) \/ Finish(p) \/ Crash(p) PROVE TimelineInv'
  <2>1. CASE AppendFails(p)  BY <2>1, EndInv DEF AppendFails
  <2>2. CASE Finish(p)  BY <2>2, EndInv DEF Finish
  <2>3. CASE Crash(p)  BY <2>3, EndInv DEF Crash
  <2> QED  BY <1>7, <2>1, <2>2, <2>3
<1> QED  BY <1>1, <1>2, <1>3, <1>4, <1>5, <1>6, <1>7 DEF Next

LEMMA Invariant == Spec => []TimelineInv
<1>1. Init => TimelineInv  BY InitTimelineInv
<1>2. TimelineInv /\ [Next]_vars => TimelineInv'  BY NextTimelineInv
<1> QED  BY <1>1, <1>2, PTL DEF Spec

(* The types of the history's table and of the processes around it.        *)
THEOREM TimelineTypes == Spec => []TypeOK
<1>1. TimelineInv => TypeOK  BY DEF TimelineInv
<1> QED  BY <1>1, Invariant, PTL

LEMMA InvOneAuthor ==
  ASSUME TimelineInv
  PROVE  OneAuthor
<1> SUFFICES ASSUME NEW r \in Runs, run_events[r] # NoRows
             PROVE  \E p \in Writers :
                      /\ run[p] = r
                      /\ run_events[r] = UpTo(script[p], sequence[p])
                      /\ \A q \in Writers \ {p} : run[q] = r => sequence[q] = 0
  BY DEF OneAuthor
<1>1. PICK p \in Writers : run[p] = r /\ sequence[p] # 0  BY DEF TimelineInv, AuthorInv
<1>2. run_events[r] = UpTo(script[p], sequence[p])  BY <1>1 DEF TimelineInv, AuthorInv
<1>3. \A q \in Writers \ {p} : run[q] = r => sequence[q] = 0  BY <1>1 DEF TimelineInv, AuthorInv
<1> QED  BY <1>1, <1>2, <1>3

(* However many executions are given one run id, and whenever they or      *)
(* their processes end, the rows of the run are the work of one of them.   *)
THEOREM OneAuthorAlways == Spec => []OneAuthor
BY Invariant, InvOneAuthor, PTL

LEMMA InvForkIsPrefix ==
  ASSUME TimelineInv
  PROVE  ForkIsPrefix
<1> SUFFICES ASSUME NEW x \in Processes, source[x] # None
             PROVE  /\ Prefix(script[x], run_events[source[x]])
                    /\ x \in Forkers => Prefix(run_events[x], run_events[source[x]])
  BY DEF ForkIsPrefix
<1>1. Prefix(script[x], run_events[source[x]])  BY DEF TimelineInv, SourceInv
<1>2. ASSUME x \in Forkers PROVE Prefix(run_events[x], script[x])
  <2>1. x \in Runs /\ x \in Writers /\ IsRows(script[x]) /\ sequence[x] \in Nat
    BY <1>2, Memberships DEF TimelineInv, TypeOK
  <2>2. CASE run_events[x] = NoRows  BY <2>2, NoRowsType DEF Prefix
  <2>3. CASE run_events[x] # NoRows
    <3>1. PICK p \in Writers : run[p] = x /\ sequence[p] # 0  BY <2>1, <2>3 DEF TimelineInv, AuthorInv
    <3>2. p = x  BY <3>1, <1>2, Memberships DEF TimelineInv, RunInv, Writers
    <3>3. run_events[x] = UpTo(script[x], sequence[x])  BY <3>1, <3>2 DEF TimelineInv, AuthorInv
    <3> QED  BY <2>1, <3>3, PrefixUpTo
  <2> QED  BY <2>2, <2>3
<1> QED  BY <1>1, <1>2, PrefixTransitive

(* Forks, forks of forks and what readers hold are beginnings of the runs  *)
(* they were taken from, for ever.                                         *)
THEOREM ForkIsPrefixAlways == Spec => []ForkIsPrefix
BY Invariant, InvForkIsPrefix, PTL

-----------------------------------------------------------------------------
(* The rows that an execution writes, told by the order it follows.        *)
StartsOf(rows) == {n \in DOMAIN rows : rows[n].type = "agent_start"}

StartedIn(rows) == {rows[n].agent : n \in StartsOf(rows)}

EndedIn(rows, a, n) == \E m \in DOMAIN rows : m < n /\ rows[m] = [type |-> "agent_end", agent |-> a]

(* The first k rows of the script of an order.                             *)
IsWritten(rows, order, k) ==
  order \in Seq(AgentIds) /\ k \in 1 .. 2 * Len(order) /\ rows = UpTo(ScriptOf(order), k)

(* The rows 2i - 1 and 2i are those of the agent at place i.               *)
LEMMA WrittenIs ==
  ASSUME NEW rows, NEW order, NEW k, IsWritten(rows, order, k)
  PROVE  /\ DOMAIN rows = 1 .. k /\ k \in Nat /\ k > 0 /\ Len(order) \in Nat
         /\ \A n \in StartsOf(rows) : \E i \in 1 .. Len(order) :
              n = 2 * i - 1 /\ n \in 1 .. k /\ rows[n].agent = order[i]
         /\ \A i \in 1 .. Len(order) : 2 * i - 1 <= k =>
              2 * i - 1 \in StartsOf(rows) /\ rows[2 * i - 1].agent = order[i]
         /\ \A i \in 1 .. Len(order) : 2 * i <= k =>
              2 * i \in 1 .. k /\ rows[2 * i] = [type |-> "agent_end", agent |-> order[i]]
<1>1. PICK m : m = Len(order)
  OBVIOUS
<1>2. m \in Nat /\ k \in 1 .. 2 * m
  BY <1>1 DEF IsWritten
<1>3. DOMAIN rows = 1 .. k
  <2>1. DOMAIN ScriptOf(order) = 1 .. 2 * m
    BY <1>1 DEF ScriptOf
  <2>2. {n \in 1 .. 2 * m : n <= k} = 1 .. k
    BY <1>2
  <2>. QED  BY <2>1, <2>2 DEF IsWritten, UpTo
<1>4. ASSUME NEW n \in 1 .. k
      PROVE  rows[n] = [type |-> IF n % 2 = 1 THEN "agent_start" ELSE "agent_end",
                        agent |-> order[(n + 1) \div 2]]
  <2>1. n \in 1 .. 2 * Len(order) /\ n \in DOMAIN ScriptOf(order) /\ n <= k
    BY <1>1, <1>2 DEF ScriptOf
  <2>2. rows[n] = ScriptOf(order)[n]
    BY <2>1 DEF IsWritten, UpTo
  <2>. QED  BY <2>1, <2>2 DEF ScriptOf
<1>5. ASSUME NEW n \in StartsOf(rows)
      PROVE  \E i \in 1 .. m : n = 2 * i - 1 /\ n \in 1 .. k /\ rows[n].agent = order[i]
  <2>1. n \in 1 .. k /\ rows[n].type = "agent_start"
    BY <1>3 DEF StartsOf
  <2>2. n % 2 = 1 /\ rows[n].agent = order[(n + 1) \div 2]
    <3>1. PICK type : type = IF n % 2 = 1 THEN "agent_start" ELSE "agent_end"
      OBVIOUS
    <3>2. PICK a : a = order[(n + 1) \div 2]
      OBVIOUS
    <3>3. rows[n] = [type |-> type, agent |-> a]
      BY <1>4, <2>1, <3>1, <3>2
    <3>4. type = "agent_start" /\ rows[n].agent = a
      BY <2>1, <3>3
    <3>5. n % 2 = 1
      BY <3>1, <3>4
    <3>. QED  BY <3>2, <3>4, <3>5
  <2>3. PICK i : i = (n + 1) \div 2
    OBVIOUS
  <2>4. i \in 1 .. m /\ n = 2 * i - 1
    BY <1>2, <2>1, <2>2, <2>3
  <2>. QED  BY <2>1, <2>2, <2>3, <2>4
<1>6. ASSUME NEW i \in 1 .. m, 2 * i - 1 <= k
      PROVE  2 * i - 1 \in StartsOf(rows) /\ rows[2 * i - 1].agent = order[i]
  <2>1. PICK n : n = 2 * i - 1
    OBVIOUS
  <2>2. n \in 1 .. k /\ n % 2 = 1 /\ (n + 1) \div 2 = i
    BY <1>2, <1>6, <2>1
  <2>3. rows[n] = [type |-> "agent_start", agent |-> order[i]]
    <3>1. rows[n] = [type |-> IF n % 2 = 1 THEN "agent_start" ELSE "agent_end",
                     agent |-> order[(n + 1) \div 2]]
      BY <1>4, <2>2
    <3>2. (IF n % 2 = 1 THEN "agent_start" ELSE "agent_end") = "agent_start"
      BY <2>2
    <3>. QED  BY <2>2, <3>1, <3>2
  <2>. QED  BY <1>3, <2>1, <2>2, <2>3 DEF StartsOf
<1>7. ASSUME NEW i \in 1 .. m, 2 * i <= k
      PROVE  2 * i \in 1 .. k /\ rows[2 * i] = [type |-> "agent_end", agent |-> order[i]]
  <2>1. PICK n : n = 2 * i
    OBVIOUS
  <2>2. n \in 1 .. k /\ n % 2 = 0 /\ (n + 1) \div 2 = i
    BY <1>2, <1>7, <2>1
  <2>3. rows[n] = [type |-> "agent_end", agent |-> order[i]]
    BY <1>4, <2>2
  <2>. QED  BY <2>1, <2>2, <2>3
<1>8. k \in Nat /\ k > 0
  BY <1>2
<1>. QED  BY <1>1, <1>2, <1>3, <1>5, <1>6, <1>7, <1>8

LEMMA WrittenFollows ==
  ASSUME NEW nodes, NEW start, NEW order, Follows(nodes, start, order),
         NEW rows, NEW k, IsWritten(rows, order, k)
  PROVE  /\ StartedIn(rows) \subseteq Reachable(nodes, start)
         /\ rows[1].agent = start
         /\ Cardinality(StartsOf(rows)) = Cardinality(StartedIn(rows))
         /\ k = 2 * Len(order) => StartedIn(rows) = Reachable(nodes, start)
         /\ \A m, n \in StartsOf(rows) : m < n => EndedIn(rows, rows[m].agent, n)
         /\ Acyclic(nodes, start) =>
              \A n \in StartsOf(rows), a \in Reachable(nodes, start) :
                Leads(nodes, a, rows[n].agent) => EndedIn(rows, a, n)
<1>1. PICK l : l = Len(order)
  OBVIOUS
<1>2. PICK S : S = StartsOf(rows)
  OBVIOUS
<1>3. /\ DOMAIN rows = 1 .. k /\ k \in Nat /\ k > 0 /\ l \in Nat
      /\ \A n \in S : \E i \in 1 .. l : n = 2 * i - 1 /\ n \in 1 .. k /\ rows[n].agent = order[i]
      /\ \A i \in 1 .. l : 2 * i - 1 <= k => 2 * i - 1 \in S /\ rows[2 * i - 1].agent = order[i]
      /\ \A i \in 1 .. l : 2 * i <= k =>
           2 * i \in 1 .. k /\ rows[2 * i] = [type |-> "agent_end", agent |-> order[i]]
  BY <1>1, <1>2, WrittenIs
<1>4. k <= 2 * l /\ l > 0
  <2>1. k \in 1 .. 2 * l
    BY <1>1 DEF IsWritten
  <2>. QED  BY <1>3, <2>1
<1>5. /\ order[1] = start /\ Held(order) = Reachable(nodes, start) /\ Distinct(order)
      /\ Acyclic(nodes, start) =>
           \A n \in 1 .. l, a \in Reachable(nodes, start) :
             Leads(nodes, a, order[n]) => \E q \in 1 .. n - 1 : order[q] = a
  <2>1. order # <<>>
    BY <1>1, <1>4
  <2>. QED  BY <1>1, <2>1 DEF Follows
<1>6. \A i \in 1 .. l : order[i] \in Held(order)
  BY <1>1 DEF Held
<1>7. StartedIn(rows) \subseteq Reachable(nodes, start)
  BY <1>2, <1>3, <1>5, <1>6 DEF StartedIn
<1>8. rows[1].agent = start
  <2>1. 1 \in 1 .. l /\ 2 * 1 - 1 = 1 /\ 2 * 1 - 1 <= k
    BY <1>3, <1>4
  <2>2. rows[2 * 1 - 1].agent = order[1]
    BY <1>3, <2>1
  <2>. QED  BY <1>5, <2>1, <2>2
<1>9. Cardinality(S) = Cardinality(StartedIn(rows))
  <2>1. PICK T : T = StartedIn(rows)
    OBVIOUS
  <2>2. PICK f : f = [n \in S |-> rows[n].agent]
    OBVIOUS
  <2>3. ASSUME NEW m \in S, NEW n \in S, rows[m].agent = rows[n].agent
        PROVE  m = n
    <3>1. PICK i \in 1 .. l : m = 2 * i - 1 /\ rows[m].agent = order[i]
      BY <1>3
    <3>2. PICK j \in 1 .. l : n = 2 * j - 1 /\ rows[n].agent = order[j]
      BY <1>3
    <3>3. i = j
      BY <1>1, <1>5, <2>3, <3>1, <3>2 DEF Distinct
    <3>. QED  BY <3>1, <3>2, <3>3
  <2>4. f \in Surjection(S, T) /\ f \in Injection(S, T)
    <3>1. f \in [S -> T] /\ \A a \in T : \E n \in S : f[n] = a
      BY <1>2, <2>1, <2>2 DEF StartedIn
    <3>2. \A m, n \in S : f[m] = f[n] => m = n
      BY <2>2, <2>3
    <3>. QED  BY <3>1, <3>2 DEF Surjection, Injection, IsInjective
  <2>5. IsFiniteSet(S)
    <3>1. S \subseteq 1 .. k
      BY <1>2, <1>3 DEF StartsOf
    <3>. QED  BY <1>3, <3>1, PartOf1
  <2>. QED  BY <2>1, <2>4, <2>5, FS_Surjection
<1>10. ASSUME k = 2 * l
       PROVE  StartedIn(rows) = Reachable(nodes, start)
  <2>1. ASSUME NEW i \in 1 .. l
        PROVE  order[i] \in StartedIn(rows)
    <3>1. 2 * i - 1 <= k
      BY <1>3, <1>10
    <3>2. 2 * i - 1 \in S /\ rows[2 * i - 1].agent = order[i]
      BY <1>3, <3>1
    <3>. QED  BY <1>2, <3>2 DEF StartedIn
  <2>2. Held(order) \subseteq StartedIn(rows)
    BY <1>1, <2>1 DEF Held
  <2>. QED  BY <1>5, <1>7, <2>2
<1>11. ASSUME NEW i \in 1 .. l, NEW n \in 1 .. k, 2 * i < n
       PROVE  EndedIn(rows, order[i], n)
  <2>1. 2 * i <= k
    BY <1>3, <1>11
  <2>2. 2 * i \in DOMAIN rows /\ rows[2 * i] = [type |-> "agent_end", agent |-> order[i]]
    BY <1>3, <2>1
  <2>. QED  BY <1>11, <2>2 DEF EndedIn
<1>12. ASSUME NEW m \in S, NEW n \in S, m < n
       PROVE  EndedIn(rows, rows[m].agent, n)
  <2>1. PICK i \in 1 .. l : m = 2 * i - 1 /\ rows[m].agent = order[i]
    BY <1>3
  <2>2. PICK j \in 1 .. l : n = 2 * j - 1 /\ n \in 1 .. k
    BY <1>3
  <2>3. 2 * i < n
    BY <1>3, <1>12, <2>1, <2>2
  <2>. QED  BY <1>11, <2>1, <2>2, <2>3
<1>13. ASSUME Acyclic(nodes, start), NEW n \in S, NEW a \in Reachable(nodes, start),
              Leads(nodes, a, rows[n].agent)
       PROVE  EndedIn(rows, a, n)
  <2>1. PICK j \in 1 .. l : n = 2 * j - 1 /\ n \in 1 .. k /\ rows[n].agent = order[j]
    BY <1>3
  <2>2. PICK q \in 1 .. j - 1 : order[q] = a
    BY <1>5, <1>13, <2>1
  <2>3. q \in 1 .. l /\ 2 * q < n
    BY <1>3, <2>1, <2>2
  <2>. QED  BY <1>11, <2>1, <2>2, <2>3
<1>. QED  BY <1>1, <1>2, <1>7, <1>8, <1>9, <1>10, <1>12, <1>13

-----------------------------------------------------------------------------
(* The history of an execution.                                            *)
OrderOf(x) == ExecutionOrder(task[x].graph, task[x].start)

ExecutorInv ==
  \A x \in Executors : pc[x] # "idle" =>
    /\ task[x] \in Tasks /\ script[x] = ScriptOf(OrderOf(x))
    /\ pc[x] = "done" => Remaining(x) = {}

(* A step of another process, or one that leaves the rows alone.           *)
LEMMA ExecutorKept ==
  ASSUME NEW x \in Executors, ExecutorInv,
         task'[x] = task[x], script'[x] = script[x], pc'[x] # "idle" => pc[x] # "idle",
         pc'[x] = "done" => Remaining(x) = {} /\ sequence'[x] = sequence[x]
  PROVE  pc'[x] # "idle" =>
           /\ task'[x] \in Tasks /\ script'[x] = ScriptOf(OrderOf(x)')
           /\ pc'[x] = "done" => Remaining(x)' = {}
BY DEF ExecutorInv, OrderOf, Remaining

LEMMA ExecutorStep ==
  ASSUME TimelineInv, ExecutorInv, Next
  PROVE  ExecutorInv'
<1>0. /\ pc \in [Processes -> Places] /\ task \in [Processes -> Tasks \cup {None}]
      /\ script = [p \in Processes |-> script[p]] /\ sequence \in [Processes -> Nat]
  BY DEF TimelineInv, TypeOK, Places
<1>. SUFFICES ASSUME NEW y \in Executors
              PROVE  pc'[y] # "idle" =>
                       /\ task'[y] \in Tasks /\ script'[y] = ScriptOf(OrderOf(y)')
                       /\ pc'[y] = "done" => Remaining(y)' = {}
  BY DEF ExecutorInv
<1>1. y \in Processes /\ y \notin Workflows \cup Forkers /\ y \notin Readers
  BY Memberships
<1>2. ASSUME NEW x \in Executors, NEW r \in Given, NEW t \in Tasks, Execute(x, r, t)
      PROVE  pc'[y] # "idle" =>
               /\ task'[y] \in Tasks /\ script'[y] = ScriptOf(OrderOf(y)')
               /\ pc'[y] = "done" => Remaining(y)' = {}
  <2>1. PICK place : /\ place \in {"failed", "appending"} /\ pc' = [pc EXCEPT ![x] = place]
                     /\ task' = [task EXCEPT ![x] = t]
                     /\ script' = [script EXCEPT ![x] = ScriptOf(ExecutionOrder(t.graph, t.start))]
                     /\ sequence' = sequence
    BY <1>2 DEF Execute, Take, Goto
  <2>2. CASE y = x
    <3>1. pc'[y] \in {"failed", "appending"} /\ task'[y] = t
      BY <1>0, <1>1, <2>1, <2>2
    <3>2. script'[y] = ScriptOf(ExecutionOrder(t.graph, t.start))
      BY <1>0, <1>1, <2>1, <2>2
    <3>3. OrderOf(y)' = ExecutionOrder(t.graph, t.start)
      BY <3>1 DEF OrderOf
    <3>. QED  BY <3>1, <3>2, <3>3
  <2>3. CASE y # x
    <3>1. pc'[y] = pc[y] /\ task'[y] = task[y] /\ script'[y] = script[y] /\ sequence'[y] = sequence[y]
      BY <1>0, <1>1, <2>1, <2>3
    <3>2. pc[y] = "done" => Remaining(y) = {}
      BY DEF ExecutorInv
    <3>. QED  BY <3>1, <3>2, ExecutorKept
  <2>. QED  BY <2>2, <2>3
<1>3. ASSUME NEW x \in Processes, x # y, NEW place, NEW rows,
             pc' = [pc EXCEPT ![x] = place], script' = [script EXCEPT ![x] = rows],
             task' = task, sequence' = sequence
      PROVE  pc'[y] # "idle" =>
               /\ task'[y] \in Tasks /\ script'[y] = ScriptOf(OrderOf(y)')
               /\ pc'[y] = "done" => Remaining(y)' = {}
  <2>1. pc'[y] = pc[y] /\ task'[y] = task[y] /\ script'[y] = script[y] /\ sequence'[y] = sequence[y]
    BY <1>0, <1>1, <1>3
  <2>2. pc[y] = "done" => Remaining(y) = {}
    BY DEF ExecutorInv
  <2>. QED  BY <2>1, <2>2, ExecutorKept
<1>4. ASSUME NEW x \in Workflows, NEW spec \in Specs, RunWorkflow(x, spec)
      PROVE  pc'[y] # "idle" =>
               /\ task'[y] \in Tasks /\ script'[y] = ScriptOf(OrderOf(y)')
               /\ pc'[y] = "done" => Remaining(y)' = {}
  BY <1>1, <1>3, <1>4, Memberships DEF RunWorkflow, Take, Goto
<1>5. ASSUME NEW x \in Forkers, NEW r \in Runs, Fork(x, r)
      PROVE  pc'[y] # "idle" =>
               /\ task'[y] \in Tasks /\ script'[y] = ScriptOf(OrderOf(y)')
               /\ pc'[y] = "done" => Remaining(y)' = {}
  BY <1>1, <1>3, <1>5, Memberships DEF Fork, Take, Goto
<1>6. ASSUME NEW x \in Readers, NEW r \in Runs, NEW step \in Steps, ReadFork(x, r, step)
      PROVE  pc'[y] # "idle" =>
               /\ task'[y] \in Tasks /\ script'[y] = ScriptOf(OrderOf(y)')
               /\ pc'[y] = "done" => Remaining(y)' = {}
  BY <1>1, <1>3, <1>6, Memberships DEF ReadFork, Take, Goto
<1>7. ASSUME NEW p \in Writers, AppendEvent(p)
      PROVE  pc'[y] # "idle" =>
               /\ task'[y] \in Tasks /\ script'[y] = ScriptOf(OrderOf(y)')
               /\ pc'[y] = "done" => Remaining(y)' = {}
  <2>1. pc' = pc /\ task' = task /\ script' = script /\ pc[p] = "appending"
    BY <1>7 DEF AppendEvent
  <2>2. pc[y] = "done" => sequence'[y] = sequence[y]
    BY <1>0, <1>1, <1>7, <2>1 DEF AppendEvent
  <2>3. pc[y] = "done" => Remaining(y) = {}
    BY DEF ExecutorInv
  <2>. QED  BY <2>1, <2>2, <2>3, ExecutorKept
<1>8. ASSUME NEW p \in Writers, AppendFails(p) \/ Finish(p) \/ Crash(p)
      PROVE  pc'[y] # "idle" =>
               /\ task'[y] \in Tasks /\ script'[y] = ScriptOf(OrderOf(y)')
               /\ pc'[y] = "done" => Remaining(y)' = {}
  <2>1. PICK place : /\ place \in {"failed", "done", "dead"} /\ pc' = [pc EXCEPT ![p] = place]
                     /\ place = "done" => Remaining(p) = {}
                     /\ pc[p] = "appending"
                     /\ task' = task /\ script' = script /\ sequence' = sequence
    BY <1>8 DEF AppendFails, Finish, Crash, Goto
  <2>2. pc'[y] = IF y = p THEN place ELSE pc[y]
    BY <1>0, <1>1, <2>1
  <2>3. pc'[y] # "idle" => pc[y] # "idle"
    BY <2>1, <2>2
  <2>4. pc'[y] = "done" => Remaining(y) = {}
    BY <2>1, <2>2 DEF ExecutorInv
  <2>. QED  BY <2>1, <2>3, <2>4, ExecutorKept
<1>. QED  BY <1>2, <1>4, <1>5, <1>6, <1>7, <1>8 DEF Next

LEMMA ExecutorAlways == Spec => [](TimelineInv /\ ExecutorInv)
<1>1. Init => ExecutorInv
  BY Memberships DEF Init, ExecutorInv
<1>2. ExecutorInv /\ UNCHANGED vars => ExecutorInv'
  BY DEF ExecutorInv, OrderOf, Remaining, vars
<1>3. TimelineInv /\ ExecutorInv /\ [Next]_vars => ExecutorInv'
  BY <1>2, ExecutorStep
<1>. QED  BY <1>1, <1>3, Invariant, PTL DEF Spec

LEMMA InvHistory ==
  ASSUME TimelineInv, ExecutorInv
  PROVE  HistoryFollowsGraph
<1>. SUFFICES ASSUME NEW x \in Executors, sequence[x] > 0
              PROVE  LET graph == task[x].graph
                         start == task[x].start
                         rows == Wrote(x)
                     IN  /\ StartedIn(rows) \subseteq Reachable(graph, start)
                         /\ rows[1].agent = start
                         /\ Cardinality(StartsOf(rows)) = Cardinality(StartedIn(rows))
                         /\ pc[x] = "done" => StartedIn(rows) = Reachable(graph, start)
                         /\ \A m, n \in StartsOf(rows) : m < n => EndedIn(rows, rows[m].agent, n)
                         /\ Acyclic(graph, start) =>
                              \A n \in StartsOf(rows), a \in Reachable(graph, start) :
                                Leads(graph, a, rows[n].agent) => EndedIn(rows, a, n)
  BY DEF HistoryFollowsGraph, StartedIn, StartsOf, EndedIn
<1>1. x \in Processes /\ x \in Writers
  BY Memberships
<1>2. PICK k : k = sequence[x]
  OBVIOUS
<1>3. k \in Nat /\ k > 0 /\ k \in DOMAIN script[x] /\ pc[x] # "idle"
  BY <1>1, <1>2 DEF TimelineInv, TypeOK, ProcessInv
<1>4. task[x] \in Tasks /\ script[x] = ScriptOf(OrderOf(x)) /\ (pc[x] = "done" => Remaining(x) = {})
  BY <1>3 DEF ExecutorInv
<1>5. PICK order : order = OrderOf(x)
  OBVIOUS
<1>6. Follows(task[x].graph, task[x].start, order)
  BY <1>4, <1>5, TimelineAssumption, OrderFollows DEF OrderOf
<1>7. order \in Seq(AgentIds) /\ Len(order) \in Nat
  BY <1>6 DEF Follows
<1>8. DOMAIN script[x] = 1 .. 2 * Len(order)
  BY <1>4, <1>5 DEF ScriptOf
<1>9. Wrote(x) = UpTo(script[x], k)
  BY <1>1, <1>2, <1>3 DEF TimelineInv, AuthorInv, Wrote
<1>10. IsWritten(Wrote(x), order, k)
  BY <1>3, <1>4, <1>5, <1>7, <1>8, <1>9 DEF IsWritten
<1>11. ASSUME pc[x] = "done"
       PROVE  k = 2 * Len(order)
  <2>1. PICK l : l = 2 * Len(order)
    OBVIOUS
  <2>2. l \in Nat /\ k \in 1 .. l /\ DOMAIN script[x] = 1 .. l
    BY <1>3, <1>7, <1>8, <2>1
  <2>3. \A n \in 1 .. l : ~(n > k)
    BY <1>2, <1>4, <1>11, <2>2 DEF Remaining
  <2>4. l \in 1 .. l
    BY <2>2
  <2>5. k = l
    BY <2>2, <2>3, <2>4
  <2>. QED  BY <2>1, <2>5
<1>. QED  BY <1>6, <1>10, <1>11, WrittenFollows

(* The history of an execution agrees with its graph at every moment:      *)
(* whom the start reaches, the start first, one after the other, each      *)
(* once, all of them in the end, and where there is no cycle nobody before *)
(* one that leads to it.                                                   *)
THEOREM HistoryFollowsGraphAlways == Spec => []HistoryFollowsGraph
BY ExecutorAlways, InvHistory, PTL

-----------------------------------------------------------------------------
(* The logs of the state engine.                                           *)

(* A run that was never started has no log; one that was holds at least    *)
(* its first event and what it inherited.                                  *)
LengthInv ==
  \A r \in RunIds :
    /\ r \notin Known => log[r] = <<>> /\ inherited[r].length = 0
    /\ r \in Known => /\ Len(log[r]) >= inherited[r].length + 1
                      /\ 1 \in DOMAIN log[r] /\ log[r][1].type = "run_started"
    /\ r \notin Known => readTo[r] = 0

LogInv == \A r \in RunIds : Numbered(r) /\ Repeats(r)

AgreeInv == \A r \in Known : /\ Numbered(r) /\ Repeats(r)
                             /\ CountAgrees(r) /\ StatusAgrees(r) /\ DataAgrees(r)

EngineInv == EngineTypeOK /\ LengthInv /\ LogInv /\ AgreeInv

-----------------------------------------------------------------------------
(* Logs.                                                                   *)

LEMMA RecordEventsFacts ==
  ASSUME NEW events \in Seq(StateEvent), NEW more \in Seq(StateEvent)
  PROVE  LET longer == RecordEvents(events, more) IN
         /\ longer \in Seq(StateEvent)
         /\ Len(longer) = Len(events) + Len(more)
         /\ \A i \in DOMAIN events : i \in DOMAIN longer /\ longer[i] = events[i]
         /\ \A i \in DOMAIN more : /\ Len(events) + i \in DOMAIN longer
                                   /\ longer[Len(events) + i] = [more[i] EXCEPT !.step = Len(events) + i]
         /\ \A i \in DOMAIN longer : i \in DOMAIN events \/ i - Len(events) \in DOMAIN more
<1> DEFINE added == [i \in DOMAIN more |-> [more[i] EXCEPT !.step = Len(events) + i]]
<1>1. Len(events) \in Nat /\ Len(more) \in Nat /\ DOMAIN events = 1..Len(events) /\ DOMAIN more = 1..Len(more)
  OBVIOUS
<1>7. \A i \in DOMAIN more : more[i] \in StateEvent  OBVIOUS
<1>2. ASSUME NEW i \in DOMAIN more PROVE added[i] \in StateEvent
  <2>1. more[i] \in StateEvent /\ Len(events) + i \in Nat  BY <1>1, <1>7
  <2>2. [more[i] EXCEPT !.step = Len(events) + i] \in StateEvent  BY <2>1 DEF StateEvent
  <2> QED  BY <2>2
<1>3. added \in Seq(StateEvent) /\ Len(added) = Len(more)
  BY <1>1, <1>2
<1> HIDE DEF added
<1>4. /\ events \o added \in Seq(StateEvent)
      /\ Len(events \o added) = Len(events) + Len(added)
      /\ \A i \in 1..Len(events) : (events \o added)[i] = events[i]
      /\ \A i \in 1..Len(added) : (events \o added)[Len(events) + i] = added[i]
  BY <1>1, <1>3
<1>5. RecordEvents(events, more) = events \o added  BY DEF RecordEvents, added
<1>6. \A i \in DOMAIN more : added[i] = [more[i] EXCEPT !.step = Len(events) + i]  BY DEF added
<1> QED  BY <1>1, <1>3, <1>4, <1>5, <1>6

LEMMA NewEventType ==
  ASSUME NEW type \in EventType, NEW payload \in Payloads \cup {NoPayload}
  PROVE  NewEvent(type, payload) \in StateEvent
BY DEF NewEvent, StateEvent

(* A log that only got longer explains all that it explained, but for what *)
(* is new in it.                                                           *)
Longer(old, new) ==
  /\ new \in Seq(StateEvent)
  /\ Len(new) >= Len(old)
  /\ \A i \in DOMAIN old : i \in DOMAIN new /\ new[i] = old[i]

LEMMA RecordEventsLonger ==
  ASSUME NEW events \in Seq(StateEvent), NEW more \in Seq(StateEvent)
  PROVE  Longer(events, RecordEvents(events, more))
<1>1. /\ RecordEvents(events, more) \in Seq(StateEvent)
      /\ Len(RecordEvents(events, more)) = Len(events) + Len(more)
      /\ \A i \in DOMAIN events : i \in DOMAIN RecordEvents(events, more) /\ RecordEvents(events, more)[i] = events[i]
  BY RecordEventsFacts
<1>2. Len(events) \in Nat /\ Len(more) \in Nat  OBVIOUS
<1> QED  BY <1>1, <1>2 DEF Longer

LEMMA RepeatsLonger ==
  ASSUME NEW r \in RunIds, inherited' = inherited, EngineTypeOK, Repeats(r),
         \A q \in RunIds : Longer(log[q], log'[q])
  PROVE  Repeats(r)'
<1>1. inherited[r].parent \in RunIds  BY DEF EngineTypeOK
<1>2. Longer(log[r], log'[r]) /\ Longer(log[inherited[r].parent], log'[inherited[r].parent])
  BY <1>1
<1> QED  BY <1>2 DEF Repeats, Longer

(* A known run records one event of its own.                               *)
LEMMA RecordOwn ==
  ASSUME EngineInv, NEW r \in Known, NEW type \in EventType, NEW payload \in Payloads \cup {NoPayload},
         RecordAll(r, <<NewEvent(type, payload)>>), inherited' = inherited
  PROVE  /\ log' \in [RunIds -> Seq(StateEvent)]
         /\ \A q \in RunIds : Longer(log[q], log'[q])
         /\ \A q \in RunIds \ {r} : log'[q] = log[q]
         /\ Len(log'[r]) = Len(log[r]) + 1
         /\ \A q \in RunIds : Numbered(q)' /\ Repeats(q)'
         /\ \A types : type \in types => OwnOf(r, types)' = OwnOf(r, types) \cup {Len(log[r]) + 1}
         /\ \A types : type \notin types => OwnOf(r, types)' = OwnOf(r, types)
         /\ \A q \in RunIds \ {r} : \A types : OwnOf(q, types)' = OwnOf(q, types)
<1> DEFINE more == <<NewEvent(type, payload)>>
<1> DEFINE old == log[r]
<1> DEFINE new == log'[r]
<1>0. r \in RunIds /\ old \in Seq(StateEvent) /\ log \in [RunIds -> Seq(StateEvent)] /\ Len(old) \in Nat
  BY DEF EngineInv, EngineTypeOK, Known
<1>1. more \in Seq(StateEvent) /\ Len(more) = 1 /\ more[1] = NewEvent(type, payload) /\ DOMAIN more = {1}
  BY NewEventType
<1>2. new = RecordEvents(old, more) /\ \A q \in RunIds \ {r} : log'[q] = log[q]
  BY <1>0 DEF RecordAll
<1>3. log' = [log EXCEPT ![r] = RecordEvents(old, more)]  BY DEF RecordAll
<1> HIDE DEF more
<1>4. /\ new \in Seq(StateEvent)
      /\ Len(new) = Len(old) + 1
      /\ \A i \in DOMAIN old : i \in DOMAIN new /\ new[i] = old[i]
      /\ Len(old) + 1 \in DOMAIN new
      /\ new[Len(old) + 1] = [more[1] EXCEPT !.step = Len(old) + 1]
      /\ \A i \in DOMAIN new : i \in DOMAIN old \/ i - Len(old) \in DOMAIN more
  <2> DEFINE longer == RecordEvents(old, more)
  <2>1. /\ longer \in Seq(StateEvent)
        /\ Len(longer) = Len(old) + Len(more)
        /\ \A i \in DOMAIN old : i \in DOMAIN longer /\ longer[i] = old[i]
        /\ \A i \in DOMAIN more : /\ Len(old) + i \in DOMAIN longer
                                  /\ longer[Len(old) + i] = [more[i] EXCEPT !.step = Len(old) + i]
        /\ \A i \in DOMAIN longer : i \in DOMAIN old \/ i - Len(old) \in DOMAIN more
    BY <1>0, <1>1, RecordEventsFacts
  <2>2. new = longer  BY <1>2
  <2> HIDE DEF longer
  <2> QED  BY <1>1, <2>1, <2>2
<1>5. new[Len(old) + 1] = [step |-> Len(old) + 1, type |-> type, payload |-> payload]
  BY <1>1, <1>4 DEF NewEvent
<1>6. DOMAIN old = 1..Len(old) /\ DOMAIN new = 1..(Len(old) + 1)  BY <1>0, <1>4
<1>7. log' \in [RunIds -> Seq(StateEvent)]  BY <1>0, <1>2, <1>3, <1>4
<1>8. ASSUME NEW q \in RunIds PROVE Longer(log[q], log'[q])
  <2>1. CASE q = r  BY <2>1, <1>0, <1>1, <1>2, RecordEventsLonger
  <2>2. CASE q # r
    <3>1. log'[q] = log[q] /\ log[q] \in Seq(StateEvent)  BY <2>2, <1>0, <1>2
    <3>2. Len(log[q]) \in Nat  BY <3>1
    <3> QED  BY <3>1, <3>2 DEF Longer
  <2> QED  BY <2>1, <2>2
<1>9. ASSUME NEW q \in RunIds PROVE Repeats(q)'
  BY <1>8, RepeatsLonger DEF EngineInv, LogInv
<1>10. ASSUME NEW q \in RunIds PROVE Numbered(q)'
  <2>1. CASE q = r
    <3>1. \A i \in DOMAIN old : old[i].step = i  BY <1>0 DEF EngineInv, LogInv, Numbered
    <3>2. \A i \in DOMAIN new : i \in DOMAIN old \/ i = Len(old) + 1  BY <1>0, <1>6
    <3>3. \A i \in DOMAIN new : new[i].step = i  BY <3>1, <3>2, <1>4, <1>5
    <3> QED  BY <2>1, <3>3 DEF Numbered
  <2>2. CASE q # r  BY <2>2, <1>2 DEF EngineInv, LogInv, Numbered
  <2> QED  BY <2>1, <2>2
<1>11. ASSUME NEW types
       PROVE  /\ type \in types => OwnOf(r, types)' = OwnOf(r, types) \cup {Len(old) + 1}
              /\ type \notin types => OwnOf(r, types)' = OwnOf(r, types)
  <2>1. inherited[r].length \in Nat /\ Len(old) >= inherited[r].length + 1
    BY <1>0 DEF EngineInv, EngineTypeOK, LengthInv
  <2>2. OwnOf(r, types)' = {i \in DOMAIN new : i > inherited[r].length + 1 /\ new[i].type \in types}
    BY DEF OwnOf, Of
  <2>3. OwnOf(r, types) = {i \in DOMAIN old : i > inherited[r].length + 1 /\ old[i].type \in types}
    BY DEF OwnOf, Of
  <2>4. Len(old) + 1 > inherited[r].length + 1 /\ new[Len(old) + 1].type = type  BY <1>0, <1>5, <2>1
  <2>5. \A i \in DOMAIN new : i \in DOMAIN old \/ i = Len(old) + 1  BY <1>0, <1>6
  <2> QED  BY <1>4, <2>2, <2>3, <2>4, <2>5
<1>12. \A q \in RunIds \ {r} : \A types : OwnOf(q, types)' = OwnOf(q, types)
  BY <1>2 DEF OwnOf, Of
<1> QED  BY <1>2, <1>4, <1>7, <1>8, <1>9, <1>10, <1>11, <1>12

(* A new run begins with an event of its own, then what it copies.         *)
LEMMA RecordNew ==
  ASSUME EngineInv, NEW r \in RunIds, r \notin Known, NEW copied \in Seq(StateEvent),
         RecordAll(r, <<NewEvent("run_started", NoPayload)>> \o copied),
         \A q \in RunIds \ {r} : inherited'[q] = inherited[q],
         inherited'[r].length = Len(copied),
         Len(copied) # 0 => inherited'[r].parent \in Known /\ copied = log[inherited'[r].parent]
  PROVE  /\ log' \in [RunIds -> Seq(StateEvent)]
         /\ \A q \in RunIds \ {r} : log'[q] = log[q]
         /\ Len(log'[r]) = Len(copied) + 1
         /\ 1 \in DOMAIN log'[r] /\ log'[r][1].type = "run_started"
         /\ \A q \in RunIds : Numbered(q)' /\ Repeats(q)'
         /\ \A types : OwnOf(r, types)' = {}
         /\ \A q \in RunIds \ {r} : \A types : OwnOf(q, types)' = OwnOf(q, types)
<1> DEFINE first == NewEvent("run_started", NoPayload)
<1> DEFINE more == <<first>> \o copied
<1> DEFINE new == log'[r]
<1>0. log \in [RunIds -> Seq(StateEvent)] /\ log[r] = <<>> /\ inherited \in [RunIds -> [parent : RunIds, length : Nat]]
  BY DEF EngineInv, EngineTypeOK, LengthInv
<1>1. first \in StateEvent  BY NewEventType DEF EventType
<1>2. Len(copied) \in Nat /\ DOMAIN copied = 1..Len(copied) /\ \A i \in DOMAIN copied : copied[i] \in StateEvent
  OBVIOUS
<1> HIDE DEF first
<1>3. /\ more \in Seq(StateEvent) /\ Len(more) = Len(copied) + 1
      /\ \A i \in 1..Len(copied) : more[i + 1] = copied[i]
  BY <1>1, <1>2
<1>4. DOMAIN more = 1..(Len(copied) + 1)  BY <1>2, <1>3
<1>5. log' = [log EXCEPT ![r] = RecordEvents(<<>>, more)]  BY <1>0 DEF RecordAll, first
<1> HIDE DEF more
<1>6. /\ new \in Seq(StateEvent)
      /\ Len(new) = Len(copied) + 1
      /\ \A i \in DOMAIN more : i \in DOMAIN new /\ new[i] = [more[i] EXCEPT !.step = i]
  <2> DEFINE longer == RecordEvents(<<>>, more)
  <2>1. <<>> \in Seq(StateEvent) /\ Len(<<>>) = 0  OBVIOUS
  <2>2. /\ longer \in Seq(StateEvent)
        /\ Len(longer) = Len(<<>>) + Len(more)
        /\ \A i \in DOMAIN more : /\ Len(<<>>) + i \in DOMAIN longer
                                  /\ longer[Len(<<>>) + i] = [more[i] EXCEPT !.step = Len(<<>>) + i]
    BY <1>3, <2>1, RecordEventsFacts
  <2>3. new = longer  BY <1>0, <1>5
  <2> HIDE DEF longer
  <2>4. ASSUME NEW i \in DOMAIN more
        PROVE  i \in DOMAIN longer /\ longer[i] = [more[i] EXCEPT !.step = i]
    <3>1. Len(<<>>) + i = i  BY <1>2, <1>4, <2>1
    <3>2. Len(<<>>) + i \in DOMAIN longer /\ longer[Len(<<>>) + i] = [more[i] EXCEPT !.step = Len(<<>>) + i]
      BY <2>2
    <3> QED  BY <3>1, <3>2
  <2>5. Len(longer) = Len(copied) + 1  BY <1>2, <1>3, <2>1, <2>2
  <2> QED  BY <2>2, <2>3, <2>4, <2>5
<1>7. DOMAIN new = 1..(Len(copied) + 1)  BY <1>2, <1>6
<1>8. /\ log' \in [RunIds -> Seq(StateEvent)]
      /\ \A q \in RunIds \ {r} : log'[q] = log[q]
  BY <1>0, <1>5, <1>6
<1>9. ASSUME NEW q \in RunIds PROVE Numbered(q)'
  <2>1. CASE q = r
    <3>1. \A i \in DOMAIN more : more[i] \in StateEvent /\ i \in Nat  BY <1>2, <1>3, <1>4
    <3>2. \A i \in DOMAIN more : [more[i] EXCEPT !.step = i].step = i  BY <3>1 DEF StateEvent
    <3> QED  BY <2>1, <3>2, <1>4, <1>6, <1>7 DEF Numbered
  <2>2. CASE q # r  BY <2>2, <1>8 DEF EngineInv, LogInv, Numbered
  <2> QED  BY <2>1, <2>2
<1>10. ASSUME NEW q \in RunIds PROVE Repeats(q)'
  <2>1. CASE q = r /\ Len(copied) # 0
    <3>1. inherited'[r].parent \in RunIds /\ inherited'[r].parent # r /\ copied = log[inherited'[r].parent]
      BY <2>1 DEF Known
    <3>2. log'[inherited'[r].parent] = copied  BY <3>1, <1>8
    <3>3. ASSUME NEW i \in 1..Len(copied)
          PROVE  i \in DOMAIN copied /\ i + 1 \in DOMAIN new /\ new[i + 1] = [copied[i] EXCEPT !.step = i + 1]
      <4>1. i \in DOMAIN copied /\ i + 1 \in DOMAIN more  BY <1>2, <1>4
      <4>2. more[i + 1] = copied[i]  BY <1>3
      <4> QED  BY <4>1, <4>2, <1>6
    <3> QED  BY <2>1, <3>2, <3>3 DEF Repeats
  <2>2. CASE q = r /\ Len(copied) = 0  BY <2>2 DEF Repeats
  <2>3. CASE q # r
    <3>1. Repeats(q) /\ inherited'[q] = inherited[q] /\ log'[q] = log[q]
      BY <2>3, <1>8 DEF EngineInv, LogInv
    <3>2. CASE inherited[q].parent = r
      <4>1. inherited[q].length = 0  BY <3>1, <3>2, <1>0 DEF Repeats
      <4> QED  BY <3>1, <4>1 DEF Repeats
    <3>3. CASE inherited[q].parent # r
      <4>1. log'[inherited[q].parent] = log[inherited[q].parent]  BY <3>3, <1>0, <1>8
      <4> QED  BY <3>1, <4>1 DEF Repeats
    <3> QED  BY <3>2, <3>3
  <2> QED  BY <2>1, <2>2, <2>3
<1>11. \A types : OwnOf(r, types)' = {}  BY <1>2, <1>7 DEF OwnOf, Of
<1>12. \A q \in RunIds \ {r} : \A types : OwnOf(q, types)' = OwnOf(q, types)  BY <1>8 DEF OwnOf, Of
<1>13. 1 \in DOMAIN new /\ new[1].type = "run_started"
  <2>1. 1 \in DOMAIN more /\ more[1] = first
    BY <1>1, <1>2, <1>4 DEF more
  <2>2. new[1] = [first EXCEPT !.step = 1]
    BY <1>6, <2>1
  <2>3. 1 \in DOMAIN new
    BY <1>2, <1>7
  <2>. QED  BY <2>2, <2>3 DEF first, NewEvent
<1> QED  BY <1>6, <1>8, <1>9, <1>10, <1>11, <1>12, <1>13

-----------------------------------------------------------------------------
(* Steps.                                                                  *)

LEMMA OwnFinite ==
  ASSUME EngineTypeOK, NEW r \in RunIds, NEW types
  PROVE  IsFiniteSet(OwnOf(r, types)) /\ OwnOf(r, types) \subseteq 1..Len(log[r])
<1>1. log[r] \in Seq(StateEvent)  BY DEF EngineTypeOK
<1>2. Len(log[r]) \in Nat /\ OwnOf(r, types) \subseteq 1..Len(log[r])  BY <1>1 DEF OwnOf, Of
<1>3. IsFiniteSet(1..Len(log[r]))  BY <1>2, FS_Interval
<1> QED  BY <1>2, <1>3, FS_Subset

LEMMA InitEngineInv ==
  ASSUME EngineInit
  PROVE  EngineInv
<1>1. Absent \in [status : {"absent", "running", "completed"}, steps : Nat,
                  data : [StepTypes -> Payloads \cup {NoPayload}]]
  BY DEF Absent
<1>2. EngineTypeOK  BY <1>1 DEF EngineInit, EngineTypeOK
<1>3. Known = {}  BY DEF EngineInit, Known, Absent
<1>4. LengthInv  BY <1>3 DEF EngineInit, LengthInv
<1>5. LogInv  BY DEF EngineInit, LogInv, Numbered, Repeats
<1>6. AgreeInv  BY <1>3 DEF AgreeInv
<1> QED  BY <1>2, <1>4, <1>5, <1>6 DEF EngineInv

LEMMA RunStateType ==
  ASSUME EngineTypeOK, NEW r \in RunIds
  PROVE  /\ runs[r] \in [status : {"absent", "running", "completed"}, steps : Nat,
                         data : [StepTypes -> Payloads \cup {NoPayload}]]
         /\ runs[r].steps \in Nat
BY DEF EngineTypeOK

(* What a run had cached stays in a log that only got longer.              *)
LEMMA DataLonger ==
  ASSUME EngineTypeOK, NEW q \in RunIds, DataAgrees(q), Longer(log[q], log'[q]),
         runs'[q].data = runs[q].data, readTo' = readTo
  PROVE  DataAgrees(q)'
<1>1. /\ readTo[q] \in Nat /\ readTo[q] <= Len(log[q])
      /\ log[q] \in Seq(StateEvent) /\ Len(log[q]) \in Nat /\ DOMAIN log[q] = 1..Len(log[q])
      /\ log'[q] \in Seq(StateEvent) /\ Len(log'[q]) \in Nat /\ DOMAIN log'[q] = 1..Len(log'[q])
      /\ Len(log'[q]) >= Len(log[q]) /\ \A i \in DOMAIN log[q] : i \in DOMAIN log'[q] /\ log'[q][i] = log[q][i]
  BY DEF EngineTypeOK, DataAgrees, Longer
<1>2. ASSUME NEW t
      PROVE  {i \in Of(q, {t}) : i <= readTo[q]}' = {i \in Of(q, {t}) : i <= readTo[q]}
  <2>1. {i \in Of(q, {t}) : i <= readTo[q]} = {i \in 1..readTo[q] : log[q][i].type = t}
    BY <1>1 DEF Of
  <2>2. {i \in Of(q, {t}) : i <= readTo[q]}' = {i \in 1..readTo[q] : log'[q][i].type = t}
    BY <1>1 DEF Of
  <2>3. \A i \in 1..readTo[q] : log'[q][i] = log[q][i]
    <3>1. \A i \in 1..readTo[q] : i \in 1..Len(log[q])
      BY <1>1
    <3>. QED  BY <1>1, <3>1
  <2>. QED  BY <2>1, <2>2, <2>3
<1>3. readTo'[q] <= Len(log'[q])
  BY <1>1
<1>4. ASSUME NEW t \in StepTypes
      PROVE  LET found == {i \in Of(q, {t}) : i <= readTo[q]} IN
             IF found = {} THEN runs'[q].data[t] = NoPayload
             ELSE \E i \in found : /\ \A j \in found : j <= i
                                   /\ runs'[q].data[t] = log'[q][i].payload
  <2>. DEFINE found == {i \in Of(q, {t}) : i <= readTo[q]}
  <2>1. \A i \in found : log'[q][i] = log[q][i]
    BY <1>1 DEF Of
  <2>. QED  BY <2>1 DEF DataAgrees
<1>. QED  BY <1>2, <1>3, <1>4 DEF DataAgrees

(* A known run whose new state agrees with its log and the one new event.  *)
LEMMA OwnEventInv ==
  ASSUME EngineInv, NEW r \in Known, NEW type \in EventType, NEW payload \in Payloads \cup {NoPayload},
         RecordAll(r, <<NewEvent(type, payload)>>), inherited' = inherited, readTo' = readTo, steps' \in Nat,
         NEW state \in [status : {"running", "completed"}, steps : Nat,
                        data : [StepTypes -> Payloads \cup {NoPayload}]],
         state.data = runs[r].data, runs' = [runs EXCEPT ![r] = state],
         CountAgrees(r)', StatusAgrees(r)'
  PROVE  EngineInv'
<1>0. r \in RunIds /\ r \in Known /\ inherited \in [RunIds -> [parent : RunIds, length : Nat]]
  BY DEF Known, EngineInv, EngineTypeOK
<1>2. /\ log' \in [RunIds -> Seq(StateEvent)]
      /\ \A q \in RunIds : Longer(log[q], log'[q])
      /\ \A q \in RunIds \ {r} : log'[q] = log[q]
      /\ Len(log'[r]) = Len(log[r]) + 1
      /\ \A q \in RunIds : Numbered(q)' /\ Repeats(q)'
      /\ \A q \in RunIds \ {r} : \A types : OwnOf(q, types)' = OwnOf(q, types)
  BY RecordOwn
<1>3. /\ runs'[r] = state
      /\ \A q \in RunIds \ {r} : runs'[q] = runs[q]
  BY <1>0 DEF EngineInv, EngineTypeOK
<1>4. state.status # "absent"  OBVIOUS
<1>5. Known' = Known  BY <1>0, <1>3, <1>4 DEF Known
<1>6. EngineTypeOK'
  <2>1. state \in [status : {"absent", "running", "completed"}, steps : Nat,
                   data : [StepTypes -> Payloads \cup {NoPayload}]]
    OBVIOUS
  <2>2. runs' \in [RunIds -> [status : {"absent", "running", "completed"}, steps : Nat,
                              data : [StepTypes -> Payloads \cup {NoPayload}]]]
    BY <2>1 DEF EngineInv, EngineTypeOK
  <2>3. readTo' \in [RunIds -> Nat]
    BY DEF EngineInv, EngineTypeOK
  <2> QED  BY <1>0, <1>2, <2>2, <2>3 DEF EngineTypeOK
<1>7. LengthInv'
  <2> SUFFICES ASSUME NEW q \in RunIds
               PROVE  /\ q \notin Known => log'[q] = <<>> /\ inherited[q].length = 0
                      /\ q \in Known => /\ Len(log'[q]) >= inherited[q].length + 1
                                        /\ 1 \in DOMAIN log'[q] /\ log'[q][1].type = "run_started"
                      /\ q \notin Known => readTo[q] = 0
    BY <1>5 DEF LengthInv
  <2>1. CASE q = r
    <3>1. Len(log[r]) >= inherited[r].length + 1 /\ Len(log[r]) \in Nat /\ inherited[r].length \in Nat
      BY <1>0 DEF EngineInv, LengthInv, EngineTypeOK
    <3>2. 1 \in DOMAIN log'[r] /\ log'[r][1].type = "run_started"
      BY <1>0, <1>2 DEF EngineInv, LengthInv, Longer
    <3> QED  BY <1>0, <1>2, <2>1, <3>1, <3>2
  <2>2. CASE q # r  BY <1>2, <2>2 DEF EngineInv, LengthInv
  <2> QED  BY <2>1, <2>2
<1>8. LogInv'  BY <1>2 DEF LogInv
<1>9. AgreeInv'
  <2> SUFFICES ASSUME NEW q \in Known
               PROVE  CountAgrees(q)' /\ StatusAgrees(q)' /\ DataAgrees(q)'
    BY <1>2, <1>5 DEF AgreeInv, Known
  <2>1. q \in RunIds /\ CountAgrees(q) /\ StatusAgrees(q) /\ DataAgrees(q)
    BY DEF EngineInv, AgreeInv, Known
  <2>2. runs'[q].data = runs[q].data  BY <1>3, <2>1
  <2>3. DataAgrees(q)'  BY <1>2, <2>1, <2>2, DataLonger DEF EngineInv
  <2>4. CASE q = r  BY <2>3, <2>4
  <2>5. CASE q # r
    <3>1. \A s \in RunIds \ {r} : \A types : OwnOf(s, types)' = OwnOf(s, types)  BY <1>2
    <3>2. OwnOf(q, StepTypes)' = OwnOf(q, StepTypes)  BY <2>1, <2>5, <3>1
    <3>3. OwnOf(q, Completions)' = OwnOf(q, Completions)  BY <2>1, <2>5, <3>1
    <3> QED  BY <1>3, <2>1, <2>3, <2>5, <3>2, <3>3 DEF CountAgrees, StatusAgrees
  <2> QED  BY <2>4, <2>5
<1> QED  BY <1>6, <1>7, <1>8, <1>9 DEF EngineInv

LEMMA KnownState ==
  ASSUME EngineInv, NEW r \in RunIds, r \in Known
  PROVE  /\ runs[r] \in [status : {"running", "completed"}, steps : Nat,
                         data : [StepTypes -> Payloads \cup {NoPayload}]]
         /\ CountAgrees(r) /\ StatusAgrees(r)
         /\ Len(log[r]) \in Nat
         /\ \A types : IsFiniteSet(OwnOf(r, types)) /\ Len(log[r]) + 1 \notin OwnOf(r, types)
<1>1. EngineTypeOK  BY DEF EngineInv
<1>2. Len(log[r]) \in Nat  BY <1>1 DEF EngineTypeOK
<1>3. ASSUME NEW types PROVE IsFiniteSet(OwnOf(r, types)) /\ Len(log[r]) + 1 \notin OwnOf(r, types)
  BY <1>1, <1>2, OwnFinite
<1>4. CountAgrees(r) /\ StatusAgrees(r)  BY DEF EngineInv, AgreeInv
<1>5. runs[r].status # "absent"  BY DEF Known
<1>6. runs[r] \in [status : {"running", "completed"}, steps : Nat,
                   data : [StepTypes -> Payloads \cup {NoPayload}]]
  BY <1>1, <1>5, RunStateType
<1> QED  BY <1>2, <1>3, <1>4, <1>6

LEMMA RecordStepInv ==
  ASSUME EngineInv, NEW r \in RunIds, NEW type \in StepTypes, NEW payload \in Payloads,
         RecordStep(r, type, payload)
  PROVE  EngineInv'
<1> DEFINE state == [runs[r] EXCEPT !.steps = @ + 1]
<1>0. /\ r \in Known
      /\ runs' = [runs EXCEPT ![r].steps = @ + 1]
      /\ RecordAll(r, <<NewEvent(type, payload)>>)
      /\ inherited' = inherited /\ readTo' = readTo /\ steps' = steps + 1
  BY DEF RecordStep, Counted
<1>1. type \in EventType /\ type \notin Completions /\ payload \in Payloads \cup {NoPayload}
  BY DEF EventType, StepTypes, Completions
<1>2. /\ \A types : type \in types => OwnOf(r, types)' = OwnOf(r, types) \cup {Len(log[r]) + 1}
      /\ \A types : type \notin types => OwnOf(r, types)' = OwnOf(r, types)
  BY <1>0, <1>1, RecordOwn
<1>3. /\ state \in [status : {"running", "completed"}, steps : Nat,
                    data : [StepTypes -> Payloads \cup {NoPayload}]]
      /\ state.data = runs[r].data /\ state.status = runs[r].status /\ state.steps = runs[r].steps + 1
  BY <1>0, KnownState
<1>4. runs' = [runs EXCEPT ![r] = state]  BY <1>0 DEF EngineInv, EngineTypeOK
<1>5. runs'[r] = state  BY <1>4 DEF EngineInv, EngineTypeOK
<1> HIDE DEF state
<1>6. CountAgrees(r)'
  <2>1. OwnOf(r, StepTypes)' = OwnOf(r, StepTypes) \cup {Len(log[r]) + 1}  BY <1>2
  <2>2. IsFiniteSet(OwnOf(r, StepTypes)) /\ Len(log[r]) + 1 \notin OwnOf(r, StepTypes)
    BY <1>0, KnownState
  <2>3. Cardinality(OwnOf(r, StepTypes) \cup {Len(log[r]) + 1}) = Cardinality(OwnOf(r, StepTypes)) + 1
    BY <2>2, FS_AddElement
  <2>4. runs[r].steps = Cardinality(OwnOf(r, StepTypes))  BY <1>0, KnownState DEF CountAgrees
  <2> QED  BY <1>3, <1>5, <2>1, <2>3, <2>4 DEF CountAgrees
<1>7. StatusAgrees(r)'
  <2>1. OwnOf(r, Completions)' = OwnOf(r, Completions)  BY <1>1, <1>2
  <2> QED  BY <1>0, <1>3, <1>5, <2>1, KnownState DEF StatusAgrees
<1>8. steps' \in Nat  BY <1>0 DEF EngineInv, EngineTypeOK
<1> QED  BY <1>0, <1>1, <1>3, <1>4, <1>6, <1>7, <1>8, OwnEventInv

LEMMA FinishRunInv ==
  ASSUME EngineInv, NEW r \in RunIds, FinishRun(r)
  PROVE  EngineInv'
<1> DEFINE state == [runs[r] EXCEPT !.status = "completed"]
<1>0. /\ r \in Known
      /\ runs' = [runs EXCEPT ![r].status = "completed"]
      /\ RecordAll(r, <<NewEvent("run_completed", NoPayload)>>)
      /\ inherited' = inherited /\ readTo' = readTo /\ steps' = steps + 1
  BY DEF FinishRun, Counted
<1>1. "run_completed" \in EventType /\ "run_completed" \in Completions /\ "run_completed" \notin StepTypes
  BY DEF EventType, StepTypes, Completions
<1>2. /\ \A types : "run_completed" \in types => OwnOf(r, types)' = OwnOf(r, types) \cup {Len(log[r]) + 1}
      /\ \A types : "run_completed" \notin types => OwnOf(r, types)' = OwnOf(r, types)
  BY <1>0, <1>1, RecordOwn
<1>3. /\ state \in [status : {"running", "completed"}, steps : Nat,
                    data : [StepTypes -> Payloads \cup {NoPayload}]]
      /\ state.data = runs[r].data /\ state.status = "completed" /\ state.steps = runs[r].steps
  BY <1>0, KnownState
<1>4. runs' = [runs EXCEPT ![r] = state]  BY <1>0 DEF EngineInv, EngineTypeOK
<1>5. runs'[r] = state  BY <1>4 DEF EngineInv, EngineTypeOK
<1> HIDE DEF state
<1>6. CountAgrees(r)'
  <2>1. OwnOf(r, StepTypes)' = OwnOf(r, StepTypes)  BY <1>1, <1>2
  <2> QED  BY <1>0, <1>3, <1>5, <2>1, KnownState DEF CountAgrees
<1>7. StatusAgrees(r)'
  <2>1. OwnOf(r, Completions)' = OwnOf(r, Completions) \cup {Len(log[r]) + 1}  BY <1>1, <1>2
  <2> QED  BY <1>3, <1>5, <2>1 DEF StatusAgrees
<1>8. steps' \in Nat  BY <1>0 DEF EngineInv, EngineTypeOK
<1> QED  BY <1>0, <1>1, <1>3, <1>4, <1>6, <1>7, <1>8, OwnEventInv

(* There is a last position among some positions of a log.                 *)
LEMMA HasLast ==
  ASSUME NEW n \in Nat, NEW found \in SUBSET (1..n), found # {}
  PROVE  \E i \in found : \A j \in found : j <= i
<1> DEFINE behind == {n - i : i \in found}
<1>1. behind \subseteq Nat /\ behind # {}
  <2>1. \A i \in found : i \in 1..n  OBVIOUS
  <2>2. \A i \in found : n - i \in Nat  BY <2>1
  <2>3. PICK i \in found : TRUE  OBVIOUS
  <2>4. n - i \in behind  BY <2>3
  <2> QED  BY <2>2, <2>4
<1>2. PICK x \in behind : \A y \in behind : ~(<<y, x>> \in OpToRel(<, Nat))
  <2>1. IsWellFoundedOn(OpToRel(<, Nat), Nat)  BY NatLessThanWellFounded
  <2> HIDE DEF behind
  <2> QED  BY <1>1, <2>1, WFMin
<1>3. \A y \in behind : ~(y < x)  BY <1>1, <1>2 DEF OpToRel
<1>4. PICK i \in found : x = n - i  OBVIOUS
<1>5. ASSUME NEW j \in found PROVE j <= i
  <2>1. ~(n - j < n - i)  BY <1>3, <1>4
  <2> QED  BY <2>1
<1> QED  BY <1>5

LEMMA LatestFacts ==
  ASSUME NEW events \in Seq(StateEvent), NEW type, NEW otherwise
  PROVE  LET found == {i \in DOMAIN events : events[i].type = type} IN
         \/ found = {} /\ Latest(events, type, otherwise) = otherwise
         \/ \E i \in found : /\ \A j \in found : j <= i
                             /\ events[i].payload = Latest(events, type, otherwise)
<1> DEFINE found == {i \in DOMAIN events : events[i].type = type}
<1>1. CASE found = {}  BY <1>1 DEF Latest
<1>2. CASE found # {}
  <2>1. Len(events) \in Nat /\ found \in SUBSET (1..Len(events))  OBVIOUS
  <2>2. \E i \in found : \A j \in found : j <= i
    <3> HIDE DEF found
    <3> QED  BY <1>2, <2>1, HasLast
  <2> DEFINE last == CHOOSE i \in found : \A j \in found : j <= i
  <2>3. last \in found /\ \A j \in found : j <= last  BY <2>2
  <2>4. Latest(events, type, otherwise) = events[last].payload  BY <1>2 DEF Latest
  <2> HIDE DEF last
  <2> QED  BY <2>3, <2>4
<1> QED  BY <1>1, <1>2

LEMMA GetStateInv ==
  ASSUME EngineInv, NEW r \in RunIds, GetState(r)
  PROVE  EngineInv'
<1> DEFINE data == [t \in StepTypes |-> Latest(log[r], t, runs[r].data[t])]
<1> DEFINE state == [runs[r] EXCEPT !.data = data]
<1>0. /\ r \in Known
      /\ runs' = [runs EXCEPT ![r].data = [t \in StepTypes |-> Latest(log[r], t, @[t])]]
      /\ readTo' = [readTo EXCEPT ![r] = Len(log[r])]
      /\ log' = log /\ inherited' = inherited /\ steps' = steps
  BY DEF GetState
<1>1. /\ log[r] \in Seq(StateEvent)
      /\ \A i \in DOMAIN log[r] : log[r][i] \in StateEvent /\ log[r][i].payload \in Payloads \cup {NoPayload}
      /\ runs[r].data \in [StepTypes -> Payloads \cup {NoPayload}]
  <2>1. log[r] \in Seq(StateEvent)  BY DEF EngineInv, EngineTypeOK
  <2>2. \A i \in DOMAIN log[r] : log[r][i] \in StateEvent  BY <2>1
  <2>3. \A i \in DOMAIN log[r] : log[r][i].payload \in Payloads \cup {NoPayload}  BY <2>2 DEF StateEvent
  <2> QED  BY <1>0, <2>1, <2>2, <2>3, KnownState
<1>2. ASSUME NEW t \in StepTypes
      PROVE  \/ Of(r, {t}) = {} /\ data[t] = runs[r].data[t]
             \/ \E i \in Of(r, {t}) : /\ \A j \in Of(r, {t}) : j <= i
                                     /\ data[t] = log[r][i].payload
  <2>1. Of(r, {t}) = {i \in DOMAIN log[r] : log[r][i].type = t}
    BY DEF Of
  <2>2. data[t] = Latest(log[r], t, runs[r].data[t])
    OBVIOUS
  <2>. PICK found : found = {i \in DOMAIN log[r] : log[r][i].type = t}
    OBVIOUS
  <2>. PICK latest : latest = Latest(log[r], t, runs[r].data[t])
    OBVIOUS
  <2>3. \/ found = {} /\ latest = runs[r].data[t]
        \/ \E i \in found : (\A j \in found : j <= i) /\ log[r][i].payload = latest
    BY <1>1, LatestFacts
  <2>. HIDE DEF data
  <2>. QED  BY <2>1, <2>2, <2>3
<1>3. \A t \in StepTypes : data[t] \in Payloads \cup {NoPayload}
  <2>. HIDE DEF data
  <2>. QED  BY <1>1, <1>2 DEF Of
<1>4. data \in [StepTypes -> Payloads \cup {NoPayload}]  BY <1>3
<1>5. runs' = [runs EXCEPT ![r] = state]  BY <1>0 DEF EngineInv, EngineTypeOK
<1> HIDE DEF data
<1>6. /\ state \in [status : {"running", "completed"}, steps : Nat,
                    data : [StepTypes -> Payloads \cup {NoPayload}]]
      /\ state.data = data /\ state.status = runs[r].status /\ state.steps = runs[r].steps
  BY <1>0, <1>4, KnownState
<1> HIDE DEF state
<1>7. /\ runs'[r] = state
      /\ \A q \in RunIds \ {r} : runs'[q] = runs[q]
  BY <1>5 DEF EngineInv, EngineTypeOK
<1>8. Known' = Known  BY <1>0, <1>6, <1>7 DEF Known
<1>9. EngineTypeOK'
  <2>1. runs' \in [RunIds -> [status : {"absent", "running", "completed"}, steps : Nat,
                              data : [StepTypes -> Payloads \cup {NoPayload}]]]
    BY <1>5, <1>6 DEF EngineInv, EngineTypeOK
  <2>2. readTo' \in [RunIds -> Nat]
    <3>1. Len(log[r]) \in Nat
      BY <1>1
    <3>. QED  BY <1>0, <3>1 DEF EngineInv, EngineTypeOK
  <2> QED  BY <1>0, <2>1, <2>2 DEF EngineInv, EngineTypeOK
<1>10. LengthInv' /\ LogInv'
  <2>1. \A q \in RunIds : q \notin Known => readTo'[q] = readTo[q]
    BY <1>0 DEF EngineInv, EngineTypeOK
  <2>. QED  BY <1>0, <1>8, <2>1 DEF EngineInv, LengthInv, LogInv, Numbered, Repeats
<1>11. AgreeInv'
  <2> SUFFICES ASSUME NEW q \in Known
               PROVE  Numbered(q)' /\ Repeats(q)' /\ CountAgrees(q)' /\ StatusAgrees(q)' /\ DataAgrees(q)'
    BY <1>8 DEF AgreeInv
  <2>1. q \in RunIds /\ CountAgrees(q) /\ StatusAgrees(q) /\ DataAgrees(q)
    BY DEF EngineInv, AgreeInv, Known
  <2>2. Numbered(q)' /\ Repeats(q)'  BY <1>10, <2>1 DEF LogInv
  <2>3. OwnOf(q, StepTypes)' = OwnOf(q, StepTypes) /\ OwnOf(q, Completions)' = OwnOf(q, Completions)
    BY <1>0 DEF OwnOf, Of
  <2>4. runs'[q].steps = runs[q].steps /\ runs'[q].status = runs[q].status  BY <1>6, <1>7, <2>1
  <2>5. CountAgrees(q)' /\ StatusAgrees(q)'  BY <2>1, <2>3, <2>4 DEF CountAgrees, StatusAgrees
  <2>6. DataAgrees(q)'
    <3>1. CASE q = r
      <4>1. readTo'[r] = Len(log[r]) /\ Len(log[r]) \in Nat /\ DOMAIN log[r] = 1..Len(log[r])
        BY <1>0, <1>1 DEF EngineInv, EngineTypeOK
      <4>2. ASSUME NEW t \in StepTypes
            PROVE  IF Of(r, {t}) = {} THEN data[t] = NoPayload
                   ELSE \E i \in Of(r, {t}) : /\ \A j \in Of(r, {t}) : j <= i
                                             /\ data[t] = log[r][i].payload
        <5>1. Of(r, {t}) = {} => runs[r].data[t] = NoPayload
          <6>1. Of(r, {t}) = {} => {i \in Of(r, {t}) : i <= readTo[r]} = {}
            OBVIOUS
          <6>. QED  BY <2>1, <3>1, <6>1 DEF DataAgrees
        <5>. QED  BY <1>2, <5>1
      <4>3. \A t : {i \in Of(r, {t}) : i <= readTo[r]}' = Of(r, {t})
        BY <1>0, <4>1 DEF Of
      <4>4. runs'[r].data = data /\ log' = log
        BY <1>0, <1>6, <1>7
      <4>5. (readTo[r] <= Len(log[r]))'
        BY <1>0, <4>1
      <4>. QED  BY <3>1, <4>2, <4>3, <4>4, <4>5 DEF DataAgrees
    <3>2. CASE q # r
      <4>1. readTo'[q] = readTo[q] /\ log' = log /\ runs'[q] = runs[q]
        BY <1>0, <1>7, <2>1, <3>2 DEF EngineInv, EngineTypeOK
      <4>. QED  BY <2>1, <4>1 DEF DataAgrees, Of
    <3> QED  BY <3>1, <3>2
  <2> QED  BY <2>2, <2>5, <2>6
<1> QED  BY <1>9, <1>10, <1>11 DEF EngineInv

(* A run that is new in its state, its log and what it inherits.           *)
LEMMA NewRunInv ==
  ASSUME EngineInv, NEW r \in RunIds, r \notin Known, NEW copied \in Seq(StateEvent),
         RecordAll(r, <<NewEvent("run_started", NoPayload)>> \o copied),
         inherited' \in [RunIds -> [parent : RunIds, length : Nat]],
         \A q \in RunIds \ {r} : inherited'[q] = inherited[q],
         inherited'[r].length = Len(copied),
         Len(copied) # 0 => inherited'[r].parent \in Known /\ copied = log[inherited'[r].parent],
         runs' = [runs EXCEPT ![r] = Started], readTo' = readTo, steps' = steps
  PROVE  EngineInv'
<1>1. /\ log' \in [RunIds -> Seq(StateEvent)]
      /\ \A q \in RunIds \ {r} : log'[q] = log[q]
      /\ Len(log'[r]) = Len(copied) + 1
      /\ 1 \in DOMAIN log'[r] /\ log'[r][1].type = "run_started"
      /\ \A q \in RunIds : Numbered(q)' /\ Repeats(q)'
      /\ \A types : OwnOf(r, types)' = {}
      /\ \A q \in RunIds \ {r} : \A types : OwnOf(q, types)' = OwnOf(q, types)
  BY RecordNew
<1>2. /\ Started \in [status : {"absent", "running", "completed"}, steps : Nat,
                      data : [StepTypes -> Payloads \cup {NoPayload}]]
      /\ Started.status = "running" /\ Started.steps = 0
      /\ \A t \in StepTypes : Started.data[t] = NoPayload
  BY DEF Started, Absent
<1>3. /\ runs'[r] = Started
      /\ \A q \in RunIds \ {r} : runs'[q] = runs[q]
  BY DEF EngineInv, EngineTypeOK
<1>4. Known' = Known \cup {r}  BY <1>2, <1>3 DEF Known
<1>5. EngineTypeOK'
  <2>1. runs' \in [RunIds -> [status : {"absent", "running", "completed"}, steps : Nat,
                              data : [StepTypes -> Payloads \cup {NoPayload}]]]
    BY <1>2 DEF EngineInv, EngineTypeOK
  <2>2. steps' \in Nat  BY DEF EngineInv, EngineTypeOK
  <2>3. readTo' \in [RunIds -> Nat]
    BY DEF EngineInv, EngineTypeOK
  <2> QED  BY <1>1, <2>1, <2>2, <2>3 DEF EngineTypeOK
<1>6. LengthInv'
  <2> SUFFICES ASSUME NEW q \in RunIds
               PROVE  /\ q \notin Known' => log'[q] = <<>> /\ inherited'[q].length = 0
                      /\ q \in Known' => /\ Len(log'[q]) >= inherited'[q].length + 1
                                         /\ 1 \in DOMAIN log'[q] /\ log'[q][1].type = "run_started"
                      /\ q \notin Known' => readTo'[q] = 0
    BY DEF LengthInv
  <2>1. CASE q = r
    <3>1. Len(copied) \in Nat  OBVIOUS
    <3> QED  BY <1>1, <1>4, <2>1, <3>1
  <2>2. CASE q # r  BY <1>1, <1>4, <2>2 DEF EngineInv, LengthInv
  <2> QED  BY <2>1, <2>2
<1>7. LogInv'  BY <1>1 DEF LogInv
<1>8. AgreeInv'
  <2> SUFFICES ASSUME NEW q \in Known'
               PROVE  CountAgrees(q)' /\ StatusAgrees(q)' /\ DataAgrees(q)'
    BY <1>1 DEF AgreeInv, Known
  <2>1. CASE q = r
    <3>1. OwnOf(r, StepTypes)' = {} /\ OwnOf(r, Completions)' = {}  BY <1>1
    <3>2. CountAgrees(r)'  BY <1>2, <1>3, <3>1, FS_EmptySet DEF CountAgrees
    <3>3. StatusAgrees(r)'  BY <1>2, <1>3, <3>1 DEF StatusAgrees
    <3>4. DataAgrees(r)'
      <4>1. readTo'[r] = 0 /\ Len(log'[r]) \in Nat
        BY <1>1 DEF EngineInv, LengthInv
      <4>2. \A t : {i \in Of(r, {t}) : i <= readTo[r]}' = {}
        BY <1>1, <4>1 DEF Of
      <4>3. \A t \in StepTypes : runs'[r].data[t] = NoPayload
        BY <1>2, <1>3
      <4>4. (readTo[r] <= Len(log[r]))'
        BY <4>1
      <4>. QED  BY <4>2, <4>3, <4>4 DEF DataAgrees
    <3> QED  BY <2>1, <3>2, <3>3, <3>4
  <2>2. CASE q # r
    <3>1. q \in RunIds \ {r} /\ CountAgrees(q) /\ StatusAgrees(q) /\ DataAgrees(q)
      BY <1>4, <2>2 DEF EngineInv, AgreeInv, Known
    <3>2. \A s \in RunIds \ {r} : \A types : OwnOf(s, types)' = OwnOf(s, types)  BY <1>1
    <3>3. OwnOf(q, StepTypes)' = OwnOf(q, StepTypes)  BY <3>1, <3>2
    <3>4. OwnOf(q, Completions)' = OwnOf(q, Completions)  BY <3>1, <3>2
    <3>5. CountAgrees(q)' /\ StatusAgrees(q)'  BY <1>3, <3>1, <3>3, <3>4 DEF CountAgrees, StatusAgrees
    <3>6. DataAgrees(q)'
      <4>1. log'[q] = log[q] /\ runs'[q] = runs[q] /\ readTo'[q] = readTo[q]
        BY <1>1, <1>3, <3>1
      <4>. QED  BY <3>1, <4>1 DEF DataAgrees, Of
    <3> QED  BY <3>5, <3>6
  <2> QED  BY <2>1, <2>2
<1> QED  BY <1>5, <1>6, <1>7, <1>8 DEF EngineInv

LEMMA StartRunInv ==
  ASSUME EngineInv, NEW r \in RunIds, StartRun(r)
  PROVE  EngineInv'
<1> DEFINE first == NewEvent("run_started", NoPayload)
<1>1. /\ r \notin Known /\ runs' = [runs EXCEPT ![r] = Started]
      /\ RecordAll(r, <<first>>)
      /\ inherited' = inherited /\ readTo' = readTo /\ steps' = steps
  BY DEF StartRun
<1>2. first \in StateEvent  BY NewEventType DEF EventType
<1> HIDE DEF first
<1>3. <<first>> = <<first>> \o <<>>  BY <1>2
<1>4. RecordAll(r, <<first>> \o <<>>)  BY <1>1, <1>3
<1>5. /\ inherited' \in [RunIds -> [parent : RunIds, length : Nat]]
      /\ inherited'[r].length = Len(<<>>) /\ Len(<<>>) = 0 /\ <<>> \in Seq(StateEvent)
  BY <1>1 DEF EngineInv, EngineTypeOK, LengthInv
<1> QED  BY <1>1, <1>4, <1>5, NewRunInv DEF first

LEMMA ForkRunInv ==
  ASSUME EngineInv, NEW parent \in RunIds, NEW r \in RunIds, ForkRun(parent, r)
  PROVE  EngineInv'
<1>1. /\ parent \in Known /\ r \notin Known /\ runs' = [runs EXCEPT ![r] = Started]
      /\ RecordAll(r, <<NewEvent("run_started", NoPayload)>> \o log[parent])
      /\ inherited' = [inherited EXCEPT ![r] = [parent |-> parent, length |-> Len(log[parent])]]
      /\ readTo' = readTo /\ steps' = steps
  BY DEF ForkRun
<1>2. log[parent] \in Seq(StateEvent) /\ Len(log[parent]) \in Nat  BY DEF EngineInv, EngineTypeOK
<1>3. /\ inherited' \in [RunIds -> [parent : RunIds, length : Nat]]
      /\ \A q \in RunIds \ {r} : inherited'[q] = inherited[q]
      /\ inherited'[r].length = Len(log[parent]) /\ inherited'[r].parent = parent
  BY <1>1, <1>2 DEF EngineInv, EngineTypeOK
<1> QED  BY <1>1, <1>2, <1>3, NewRunInv

-----------------------------------------------------------------------------
(* Theorems.                                                               *)

LEMMA NextEngineInv ==
  ASSUME EngineInv, [EngineNext]_engineVars
  PROVE  EngineInv'
<1>1. CASE UNCHANGED engineVars
  <2>1. runs' = runs /\ log' = log /\ inherited' = inherited /\ readTo' = readTo /\ steps' = steps  BY <1>1 DEF engineVars
  <2>2. EngineTypeOK' /\ LengthInv'  BY <2>1 DEF EngineInv, EngineTypeOK, LengthInv, Known
  <2>3. LogInv'  BY <2>1 DEF EngineInv, LogInv, Numbered, Repeats
  <2>4. \A q \in RunIds : OwnOf(q, StepTypes)' = OwnOf(q, StepTypes) /\ OwnOf(q, Completions)' = OwnOf(q, Completions)
    BY <2>1 DEF OwnOf, Of
  <2>5. Known' = Known  BY <2>1 DEF Known
  <2>6. ASSUME NEW q \in Known
        PROVE  Numbered(q)' /\ Repeats(q)' /\ CountAgrees(q)' /\ StatusAgrees(q)' /\ DataAgrees(q)'
    <3>1. q \in RunIds /\ CountAgrees(q) /\ StatusAgrees(q) /\ DataAgrees(q)
      BY DEF EngineInv, AgreeInv, Known
    <3>2. CountAgrees(q)' /\ StatusAgrees(q)'  BY <2>1, <2>4, <3>1 DEF CountAgrees, StatusAgrees
    <3>3. DataAgrees(q)'  BY <2>1, <3>1 DEF DataAgrees, Of
    <3> QED  BY <2>3, <3>1, <3>2, <3>3 DEF LogInv
  <2> QED  BY <2>2, <2>3, <2>5, <2>6 DEF EngineInv, AgreeInv
<1>2. ASSUME NEW r \in RunIds, StartRun(r) PROVE EngineInv'  BY <1>2, StartRunInv
<1>3. ASSUME NEW r \in RunIds, FinishRun(r) PROVE EngineInv'  BY <1>3, FinishRunInv
<1>4. ASSUME NEW r \in RunIds, GetState(r) PROVE EngineInv'  BY <1>4, GetStateInv
<1>5. ASSUME NEW r \in RunIds, NEW type \in StepTypes, NEW payload \in Payloads, RecordStep(r, type, payload)
      PROVE EngineInv'
  BY <1>5, RecordStepInv
<1>6. ASSUME NEW r \in RunIds, NEW parent \in RunIds, ForkRun(parent, r) PROVE EngineInv'
  BY <1>6, ForkRunInv
<1> QED  BY <1>1, <1>2, <1>3, <1>4, <1>5, <1>6 DEF EngineNext

(* The types of the engine's runs and logs.                                *)
THEOREM EngineTypes == EngineSpec => []EngineTypeOK
<1>1. EngineInit => EngineInv  BY InitEngineInv
<1>2. EngineInv /\ [EngineNext]_engineVars => EngineInv'  BY NextEngineInv
<1>3. EngineInv => EngineTypeOK  BY DEF EngineInv
<1> QED  BY <1>1, <1>2, <1>3, PTL DEF EngineSpec

(* A log is its first event, what was copied and what is the run's own; so *)
(* a replay counts what the RunState does and what was copied.             *)
LEMMA InvExplains == EngineInv => LogExplainsRun
<1>. SUFFICES ASSUME EngineInv, NEW r \in Known
              PROVE  ReplayAgrees(r)
  BY DEF EngineInv, AgreeInv, LogExplainsRun
<1>1. /\ r \in RunIds /\ CountAgrees(r) /\ StatusAgrees(r) /\ EngineTypeOK
      /\ log[r][1].type = "run_started" /\ inherited[r].length \in Nat
      /\ log[r] \in Seq(StateEvent)
  BY DEF EngineInv, AgreeInv, Known, LengthInv, EngineTypeOK
<1>2. ASSUME NEW types, "run_started" \notin types
      PROVE  /\ Of(r, types) = OwnOf(r, types) \cup CopiedOf(r, types)
             /\ OwnOf(r, types) \cap CopiedOf(r, types) = {}
             /\ IsFiniteSet(CopiedOf(r, types)) /\ IsFiniteSet(OwnOf(r, types))
  <2>1. \A i \in Of(r, types) : i \in Nat /\ i >= 2
    BY <1>1, <1>2 DEF Of
  <2>2. \A i \in Of(r, types) : i > inherited[r].length + 1 \/ i \in 2..inherited[r].length + 1
    BY <1>1, <2>1
  <2>3. \A i \in 2..inherited[r].length + 1 : ~(i > inherited[r].length + 1)
    BY <1>1
  <2>4. IsFiniteSet(2..inherited[r].length + 1) /\ CopiedOf(r, types) \subseteq 2..inherited[r].length + 1
    <3>1. 2 \in Int /\ inherited[r].length + 1 \in Int
      BY <1>1
    <3>2. IsFiniteSet(2..inherited[r].length + 1)
      BY <3>1, FS_Interval
    <3>. QED  BY <3>2 DEF CopiedOf
  <2>. QED  BY <1>1, <2>2, <2>3, <2>4, OwnFinite, FS_Subset DEF OwnOf, CopiedOf
<1>3. "run_started" \notin StepTypes /\ "run_started" \notin Completions
  BY DEF StepTypes, Completions
<1>4. Cardinality(Of(r, StepTypes)) = runs[r].steps + Cardinality(CopiedOf(r, StepTypes))
  <2>1. Cardinality(Of(r, StepTypes))
          = Cardinality(OwnOf(r, StepTypes)) + Cardinality(CopiedOf(r, StepTypes)) - Cardinality({})
    BY <1>2, <1>3, FS_Union
  <2>2. Cardinality({}) = 0 /\ Cardinality(OwnOf(r, StepTypes)) \in Nat /\ Cardinality(CopiedOf(r, StepTypes)) \in Nat
    BY <1>2, <1>3, FS_EmptySet, FS_CardinalityType
  <2>. QED  BY <1>1, <2>1, <2>2 DEF CountAgrees
<1>5. Of(r, Completions) # {} <=> runs[r].status = "completed" \/ CopiedOf(r, Completions) # {}
  BY <1>1, <1>2, <1>3 DEF StatusAgrees
<1>. QED  BY <1>4, <1>5 DEF ReplayAgrees

(* However runs are recorded, completed, read and forked, and forks forked *)
(* again: the state beside a log is that of the run's own events, with the *)
(* data of the last read, and differs from what a replay of the log would  *)
(* rebuild by exactly what was copied.                                     *)
THEOREM LogExplainsRunAlways == EngineSpec => []LogExplainsRun
<1>1. EngineInit => EngineInv  BY InitEngineInv
<1>2. EngineInv /\ [EngineNext]_engineVars => EngineInv'  BY NextEngineInv
<1>3. EngineInv => LogExplainsRun  BY InvExplains
<1> QED  BY <1>1, <1>2, <1>3, PTL DEF EngineSpec

-----------------------------------------------------------------------------
(* The policy engine.                                                      *)

(* A list of policies whose rules have an effect.                          *)
ArePolicies(ps) ==
  /\ AList(ps)
  /\ \A p \in Held(ps) : AList(p.rules) /\ \A r \in Held(p.rules) : r.effect \in {"allow", "deny"}

(* A rule of a policy that counts for the agent.                           *)
Bears(r, ps, agent) ==
  \E i \in 1 .. Len(ps) : Applicable(ps[i], agent) /\ ps[i].enabled /\ r \in Held(ps[i].rules)

Fits(r, q) == RuleMatches(r, q.action, EvalContext(q.agent, q.context))

Some(effect, ps, q) == \E r : Bears(r, ps, q.agent) /\ r.effect = effect /\ Fits(r, q)

(* The rules that are collected are those of the policies that count.      *)
LEMMA RulesCollected ==
  ASSUME NEW ps, ArePolicies(ps), NEW agent
  PROVE  /\ AList(RulesOf(ps, agent))
         /\ \A r : r \in Held(RulesOf(ps, agent)) <=> Bears(r, ps, agent)
<1>. DEFINE m == Len(ps)
            U == UNION {Held(ps[i].rules) : i \in 1 .. m}
            counts(i) == Applicable(ps[i], agent) /\ ps[i].enabled
            turn(i, s) == IF counts(i) THEN s \o ps[i].rules ELSE s
            step == [i \in 1 .. m |-> [s \in Seq(U) |-> turn(i, s)]]
            rules[i \in 0 .. m] == IF i = 0 THEN <<>> ELSE turn(i, rules[i - 1])
<1>1. m \in Nat /\ <<>> \in Seq(U)
  BY DEF ArePolicies, AList
<1>2. RulesOf(ps, agent) = rules[m]
  BY DEF RulesOf
<1>3. ASSUME NEW i \in 1 .. m
      PROVE  AList(ps[i].rules) /\ ps[i].rules \in Seq(U)
  <2>. PICK s : s = ps[i].rules
    OBVIOUS
  <2>1. AList(s)
    BY DEF ArePolicies, Held
  <2>2. \A j \in 1 .. Len(s) : s[j] \in U
    BY DEF Held
  <2>3. s = [j \in 1 .. Len(s) |-> s[j]] /\ Len(s) \in Nat
    BY <2>1 DEF AList
  <2>. HIDE DEF U
  <2>4. s \in [1 .. Len(s) -> U]
    BY <2>2, <2>3
  <2>. QED  BY <2>1, <2>3, <2>4
<1>. HIDE DEF U
<1>4. ASSUME NEW i \in 1 .. m, NEW s \in Seq(U)
      PROVE  turn(i, s) \in Seq(U)
  <2>1. s \o ps[i].rules \in Seq(U)
    BY <1>3, Joined
  <2>. QED  BY <2>1
<1>. HIDE DEF turn, m
<1>5. IsLoop(m, Seq(U), <<>>, step)
  BY <1>1, <1>4 DEF IsLoop
<1>6. PICK f : IsRunOf(f, m, Seq(U), <<>>, step)
  <2>. HIDE DEF step
  <2>. QED  BY <1>5, LoopExists
<1>7. f = [i \in 0 .. m |-> IF i = 0 THEN <<>> ELSE turn(i, f[i - 1])]
  <2>1. f = [i \in 0 .. m |-> f[i]] /\ f[0] = <<>>
    BY <1>6 DEF IsRunOf
  <2>2. ASSUME NEW i \in 0 .. m, i # 0
        PROVE  f[i] = turn(i, f[i - 1])
    <3>1. i \in 1 .. m
      BY <1>1, <2>2
    <3>2. f[i - 1] \in Seq(U) /\ f[i] = step[i][f[i - 1]]
      <4>. HIDE DEF step
      <4>. QED  BY <1>1, <1>6, <3>1 DEF IsRunOf
    <3>. QED  BY <3>1, <3>2
  <2>. QED  BY <2>1, <2>2
<1>8. rules = [i \in 0 .. m |-> IF i = 0 THEN <<>> ELSE turn(i, rules[i - 1])]
  BY <1>7, Zenon
<1>. HIDE DEF rules
<1>9. rules[0] = <<>> /\ \A i \in 1 .. m : rules[i] = turn(i, rules[i - 1])
  BY <1>1, <1>8
<1>. DEFINE upTo(n, r) == \E i \in 1 .. n : counts(i) /\ r \in Held(ps[i].rules)
            T == {n \in 0 .. m : AList(rules[n]) /\ \A r : r \in Held(rules[n]) <=> upTo(n, r)}
<1>. HIDE DEF counts
<1>10. 0 \in T
  BY <1>1, <1>9, HeldNothing
<1>11. ASSUME NEW n \in 0 .. m - 1, n \in T
       PROVE  n + 1 \in T
  <2>1. n + 1 \in 1 .. m /\ n + 1 \in 0 .. m /\ (n + 1) - 1 = n
    BY <1>1
  <2>2. AList(rules[n]) /\ \A r : r \in Held(rules[n]) <=> upTo(n, r)
    BY <1>11
  <2>3. rules[n + 1] = turn(n + 1, rules[n])
    BY <1>9, <2>1
  <2>4. \A r : upTo(n + 1, r) <=> upTo(n, r) \/ (counts(n + 1) /\ r \in Held(ps[n + 1].rules))
    <3>1. \A i \in 1 .. n + 1 : i = n + 1 \/ i \in 1 .. n
      BY <1>1
    <3>2. n + 1 \in 1 .. n + 1 /\ \A i \in 1 .. n : i \in 1 .. n + 1
      BY <1>1
    <3>. QED  BY <3>1, <3>2
  <2>. HIDE DEF upTo
  <2>5. CASE counts(n + 1)
    <3>. PICK t : t = ps[n + 1].rules
      OBVIOUS
    <3>. PICK s : s = rules[n]
      OBVIOUS
    <3>1. rules[n + 1] = s \o t
      BY <2>3, <2>5 DEF turn
    <3>2. AList(t)
      BY <1>3, <2>1
    <3>3. AList(s \o t) /\ Held(s \o t) = Held(s) \cup Held(t)
      BY <2>2, <3>2, HeldJoined
    <3>. QED  BY <2>1, <2>2, <2>4, <2>5, <3>1, <3>3
  <2>6. CASE ~counts(n + 1)
    <3>1. rules[n + 1] = rules[n]
      BY <2>3, <2>6 DEF turn
    <3>. QED  BY <2>1, <2>2, <2>4, <2>6, <3>1
  <2>. QED  BY <2>5, <2>6
<1>12. m \in T
  <2>. HIDE DEF T
  <2>1. 0 .. m \subseteq T
    BY <1>1, <1>10, <1>11, UpToInduct
  <2>. QED  BY <1>1, <2>1
<1>. QED  BY <1>2, <1>12 DEF Bears, counts, m

LEMMA MatchingAre ==
  ASSUME NEW rules, AList(rules), NEW effect, NEW action, NEW context
  PROVE  LET p == Matching(rules, effect, action, context) IN
         /\ AList(p) /\ Len(p) \in Nat
         /\ \A r : r \in Held(p) <=> r \in Held(rules) /\ r.effect = effect /\ RuleMatches(r, action, context)
<1>. PICK S : rules \in Seq(S)
  BY DEF AList
<1>. DEFINE keep == {i \in 1 .. Len(rules) : rules[i].effect = effect /\ RuleMatches(rules[i], action, context)}
<1>. PICK p : p = Picked(rules, keep)
  OBVIOUS
<1>1. Matching(rules, effect, action, context) = p
  BY DEF Matching
<1>2. p \in Seq(S) /\ \E at : PickOf(p, at, rules, keep)
  <2>. HIDE DEF keep
  <2>. QED  BY PickedPlaces
<1>3. PICK at : PickOf(p, at, rules, keep)
  BY <1>2
<1>4. \A r : r \in Held(p) <=> \E i \in keep : r = rules[i]
  <2>1. keep \subseteq 1 .. Len(rules)
    OBVIOUS
  <2>. HIDE DEF keep
  <2>. QED  BY <1>3, <2>1 DEF PickOf, Held
<1>5. \A r : r \in Held(rules) /\ r.effect = effect /\ RuleMatches(r, action, context)
             <=> \E i \in keep : r = rules[i]
  BY Zenon DEF Held
<1>6. AList(p) /\ Len(p) \in Nat
  <2>1. p \in Seq(S)
    BY <1>2
  <2>2. Len(p) \in Nat
    BY <2>1
  <2>. QED  BY <2>1, <2>2 DEF AList
<1>. HIDE DEF keep
<1>. QED  BY <1>1, <1>4, <1>5, <1>6

(* What evaluate decides, by the rules that count.                         *)
Decided(d, ps, q) ==
  /\ d.allowed \in BOOLEAN
  /\ d.allowed <=> ~Some("deny", ps, q) /\ Some("allow", ps, q)
  /\ d.requires_approval => d.allowed
  /\ d.allowed => \A r \in Held(d.matched) : r.effect = "allow"
  /\ AList(d.matched) /\ Len(d.matched) \in Nat
  /\ ~d.allowed /\ Len(d.matched) > 0 => d.matched[1].effect = "deny"
  /\ \A r : Bears(r, ps, q.agent) /\ Fits(r, q) /\ r.effect \in {"allow", "deny"} => r \in Held(d.matched)

LEMMA EvaluateDecides ==
  ASSUME NEW q, NEW ps, ps = q.policies, ArePolicies(ps)
  PROVE  Decided(Evaluate(q), ps, q)
<1>. PICK context : context = EvalContext(q.agent, q.context)
  OBVIOUS
<1>. PICK rules : rules = RulesOf(ps, q.agent)
  OBVIOUS
<1>. PICK allow : allow = Matching(rules, "allow", q.action, context)
  OBVIOUS
<1>. PICK deny : deny = Matching(rules, "deny", q.action, context)
  OBVIOUS
<1>. PICK d : d = Evaluate(q)
  OBVIOUS
<1>1. AList(rules) /\ \A r : r \in Held(rules) <=> Bears(r, ps, q.agent)
  BY RulesCollected
<1>2. /\ AList(allow) /\ Len(allow) \in Nat
      /\ \A r : r \in Held(allow) <=> Bears(r, ps, q.agent) /\ r.effect = "allow" /\ Fits(r, q)
  <2>1. /\ AList(allow) /\ Len(allow) \in Nat
        /\ \A r : r \in Held(allow) <=> r \in Held(rules) /\ r.effect = "allow" /\ RuleMatches(r, q.action, context)
    BY <1>1, MatchingAre
  <2>. QED  BY <1>1, <2>1 DEF Fits
<1>3. /\ AList(deny) /\ Len(deny) \in Nat
      /\ \A r : r \in Held(deny) <=> Bears(r, ps, q.agent) /\ r.effect = "deny" /\ Fits(r, q)
  <2>1. /\ AList(deny) /\ Len(deny) \in Nat
        /\ \A r : r \in Held(deny) <=> r \in Held(rules) /\ r.effect = "deny" /\ RuleMatches(r, q.action, context)
    BY <1>1, MatchingAre
  <2>. QED  BY <1>1, <2>1 DEF Fits
<1>4. d = IF deny # <<>> THEN Denied(deny \o allow)
          ELSE IF allow = <<>> THEN Denied(<<>>)
          ELSE [allowed |-> TRUE, matched |-> allow, requires_approval |-> q.action \in q.agent.approval]
  BY Zenon DEF Evaluate
<1>5. deny # <<>> => Len(deny) > 0 /\ deny[1] \in Held(deny)
  BY <1>3 DEF Held, AList
<1>6. allow # <<>> => Len(allow) > 0 /\ allow[1] \in Held(allow)
  BY <1>2 DEF Held, AList
<1>7. Some("deny", ps, q) <=> deny # <<>>
  <2>1. deny = <<>> => Held(deny) = {}
    BY HeldNothing
  <2>. QED  BY <1>3, <1>5, <2>1 DEF Some
<1>8. Some("allow", ps, q) <=> allow # <<>>
  <2>1. allow = <<>> => Held(allow) = {}
    BY HeldNothing
  <2>. QED  BY <1>2, <1>6, <2>1 DEF Some
<1>9. CASE deny # <<>>
  <2>. PICK both : both = deny \o allow
    OBVIOUS
  <2>1. d = [allowed |-> FALSE, matched |-> both, requires_approval |-> FALSE]
    BY <1>4, <1>9 DEF Denied
  <2>2. AList(both) /\ Held(both) = Held(deny) \cup Held(allow)
    BY <1>2, <1>3, HeldJoined
  <2>3. Len(both) \in Nat /\ both[1] = deny[1]
    BY <1>2, <1>3, <1>5, <1>9 DEF AList
  <2>4. both[1].effect = "deny"
    BY <1>3, <1>5, <1>9, <2>3
  <2>5. \A r : Bears(r, ps, q.agent) /\ Fits(r, q) /\ r.effect \in {"allow", "deny"} => r \in Held(both)
    BY <1>2, <1>3, <2>2
  <2>. QED  BY <1>7, <1>9, <2>1, <2>2, <2>3, <2>4, <2>5 DEF Decided
<1>10. CASE deny = <<>> /\ allow = <<>>
  <2>1. d = [allowed |-> FALSE, matched |-> <<>>, requires_approval |-> FALSE]
    BY <1>4, <1>10 DEF Denied
  <2>. QED  BY <1>2, <1>3, <1>7, <1>8, <1>10, <2>1 DEF Decided, Some
<1>11. CASE deny = <<>> /\ allow # <<>>
  <2>1. d = [allowed |-> TRUE, matched |-> allow, requires_approval |-> q.action \in q.agent.approval]
    BY <1>4, <1>11
  <2>2. \A r \in Held(allow) : r.effect = "allow"
    BY <1>2
  <2>3. \A r : Bears(r, ps, q.agent) /\ Fits(r, q) /\ r.effect \in {"allow", "deny"} => r \in Held(allow)
    BY <1>2, <1>7, <1>11 DEF Some
  <2>. QED  BY <1>2, <1>7, <1>8, <1>11, <2>1, <2>2, <2>3 DEF Decided
<1>. QED  BY <1>9, <1>10, <1>11

(* The documented algorithm decides the same: by induction over the rules  *)
(* that it has read.                                                       *)
LEMMA DocumentedDecides ==
  ASSUME NEW q, NEW ps, ps = q.policies, ArePolicies(ps)
  PROVE  Documented(q) = "allowed" <=> ~Some("deny", ps, q) /\ Some("allow", ps, q)
<1>. PICK context : context = EvalContext(q.agent, q.context)
  OBVIOUS
<1>. PICK rules : rules = RulesOf(ps, q.agent)
  OBVIOUS
<1>. DEFINE m == Len(rules)
            V == {"unmatched", "denied", "allowed"}
            fits(i) == RuleMatches(rules[i], q.action, context)
            denies(i) == rules[i].effect = "deny"
            turn(i, before) == IF before = "denied" \/ ~fits(i) THEN before
                               ELSE IF denies(i) THEN "denied" ELSE "allowed"
            step == [i \in 1 .. m |-> [v \in V |-> turn(i, v)]]
            read[i \in 0 .. m] == IF i = 0 THEN "unmatched" ELSE turn(i, read[i - 1])
<1>1. AList(rules) /\ \A r : r \in Held(rules) <=> Bears(r, ps, q.agent)
  BY RulesCollected
<1>2. m \in Nat
  BY <1>1 DEF AList
<1>3. Documented(q) = read[m]
  BY Zenon DEF Documented
<1>. HIDE DEF m, fits, denies
<1>4. IsLoop(m, V, "unmatched", step)
  BY <1>2 DEF IsLoop
<1>5. PICK f : IsRunOf(f, m, V, "unmatched", step)
  <2>. HIDE DEF step, V
  <2>. QED  BY <1>4, LoopExists
<1>6. f = [i \in 0 .. m |-> IF i = 0 THEN "unmatched" ELSE turn(i, f[i - 1])]
  <2>1. f = [i \in 0 .. m |-> f[i]] /\ f[0] = "unmatched"
    BY <1>5 DEF IsRunOf
  <2>2. ASSUME NEW i \in 0 .. m, i # 0
        PROVE  f[i] = turn(i, f[i - 1])
    <3>1. i \in 1 .. m
      BY <1>2, <2>2
    <3>2. f[i - 1] \in V /\ f[i] = step[i][f[i - 1]]
      <4>. HIDE DEF step, V
      <4>. QED  BY <1>2, <1>5, <3>1 DEF IsRunOf
    <3>. HIDE DEF turn, V
    <3>. QED  BY <3>1, <3>2
  <2>. HIDE DEF turn
  <2>. QED  BY <2>1, <2>2
<1>7. read = [i \in 0 .. m |-> IF i = 0 THEN "unmatched" ELSE turn(i, read[i - 1])]
  <2>. HIDE DEF turn
  <2>. QED  BY <1>6, Zenon
<1>. HIDE DEF read
<1>8. read[0] = "unmatched" /\ \A i \in 1 .. m : read[i] = turn(i, read[i - 1])
  <2>. HIDE DEF turn
  <2>. QED  BY <1>2, <1>7
<1>. DEFINE deniedBy(n) == \E i \in 1 .. n : fits(i) /\ denies(i)
            allowedBy(n) == \E i \in 1 .. n : fits(i) /\ ~denies(i)
            T == {n \in 0 .. m : /\ read[n] \in V
                                 /\ read[n] = "denied" <=> deniedBy(n)
                                 /\ read[n] = "allowed" <=> ~deniedBy(n) /\ allowedBy(n)}
<1>9. 0 \in T
  BY <1>2, <1>8
<1>10. ASSUME NEW n \in 0 .. m - 1, n \in T
       PROVE  n + 1 \in T
  <2>1. n + 1 \in 1 .. m /\ n + 1 \in 0 .. m /\ (n + 1) - 1 = n
    BY <1>2
  <2>2. read[n + 1] = turn(n + 1, read[n])
    BY <1>8, <2>1
  <2>3. /\ deniedBy(n + 1) <=> deniedBy(n) \/ (fits(n + 1) /\ denies(n + 1))
        /\ allowedBy(n + 1) <=> allowedBy(n) \/ (fits(n + 1) /\ ~denies(n + 1))
    <3>1. \A i \in 1 .. n + 1 : i = n + 1 \/ i \in 1 .. n
      BY <1>2
    <3>2. n + 1 \in 1 .. n + 1 /\ \A i \in 1 .. n : i \in 1 .. n + 1
      BY <1>2
    <3>. QED  BY <3>1, <3>2
  <2>4. /\ read[n] \in V
        /\ read[n] = "denied" <=> deniedBy(n)
        /\ read[n] = "allowed" <=> ~deniedBy(n) /\ allowedBy(n)
    BY <1>10
  <2>. HIDE DEF deniedBy, allowedBy
  <2>. QED  BY <2>1, <2>2, <2>3, <2>4
<1>11. m \in T
  <2>. HIDE DEF T
  <2>1. 0 .. m \subseteq T
    BY <1>2, <1>9, <1>10, UpToInduct
  <2>. QED  BY <1>2, <2>1
<1>12. deniedBy(m) <=> Some("deny", ps, q)
  <2>1. deniedBy(m) <=> \E r \in Held(rules) : r.effect = "deny" /\ RuleMatches(r, q.action, context)
    BY Zenon DEF Held, m, fits, denies
  <2>. QED  BY <1>1, <2>1 DEF Some, Fits
<1>13. allowedBy(m) <=> Some("allow", ps, q)
  <2>1. allowedBy(m) <=> \E r \in Held(rules) : r.effect # "deny" /\ RuleMatches(r, q.action, context)
    BY Zenon DEF Held, m, fits, denies
  <2>2. \A r \in Held(rules) : r.effect \in {"allow", "deny"}
    <3>1. ASSUME NEW r, Bears(r, ps, q.agent)
          PROVE  r.effect \in {"allow", "deny"}
      <4>1. PICK i \in 1 .. Len(ps) : r \in Held(ps[i].rules)
        BY <3>1 DEF Bears
      <4>2. ps[i] \in Held(ps)
        BY DEF Held
      <4>. QED  BY <4>1, <4>2 DEF ArePolicies
    <3>. QED  BY <1>1, <3>1
  <2>. QED  BY <1>1, <2>1, <2>2 DEF Some, Fits
<1>. HIDE DEF deniedBy, allowedBy
<1>. QED  BY <1>3, <1>11, <1>12, <1>13

(* A list read backwards holds the same, and one from which an element is  *)
(* taken holds the others.                                                 *)
LEMMA HeldReversed ==
  ASSUME NEW s, AList(s)
  PROVE  AList(Reverse(s)) /\ Held(Reverse(s)) = Held(s)
<1>. PICK S : s \in Seq(S)
  BY DEF AList
<1>. PICK t : t = Reverse(s)
  OBVIOUS
<1>1. t = [i \in 1 .. Len(s) |-> s[(Len(s) - i) + 1]] /\ Len(s) \in Nat
  BY DEF Reverse
<1>2. t \in Seq(S) /\ Len(t) = Len(s)
  <2>1. \A i \in 1 .. Len(s) : s[(Len(s) - i) + 1] \in S
    OBVIOUS
  <2>. QED  BY <1>1, <2>1
<1>3. Held(t) = Held(s)
  <2>1. \A i \in 1 .. Len(s) : (Len(s) - i) + 1 \in 1 .. Len(s) /\ t[i] = s[(Len(s) - i) + 1]
    BY <1>1
  <2>2. \A i \in 1 .. Len(s) : s[i] = t[(Len(s) - i) + 1]
    BY <1>1
  <2>3. Held(t) \subseteq Held(s)
    <3>1. \A i \in 1 .. Len(t) : t[i] \in {s[j] : j \in 1 .. Len(s)}
      BY <1>2, <2>1
    <3>. QED  BY <3>1 DEF Held
  <2>4. Held(s) \subseteq Held(t)
    <3>1. \A i \in 1 .. Len(s) : s[i] \in {t[j] : j \in 1 .. Len(t)}
      BY <1>2, <2>1, <2>2
    <3>. QED  BY <3>1 DEF Held
  <2>. QED  BY <2>3, <2>4
<1>. QED  BY <1>2, <1>3 DEF AList

LEMMA HeldWithout ==
  ASSUME NEW s, AList(s), NEW i \in 1 .. Len(s)
  PROVE  /\ AList(RemoveAt(s, i))
         /\ Held(RemoveAt(s, i)) = {s[j] : j \in 1 .. Len(s) \ {i}}
<1>. PICK S : s \in Seq(S)
  BY DEF AList
<1>. PICK m : m = Len(s)
  OBVIOUS
<1>. PICK u : u = SubSeq(s, 1, i - 1)
  OBVIOUS
<1>. PICK v : v = SubSeq(s, i + 1, m)
  OBVIOUS
<1>0. m \in Nat /\ i \in 1 .. m /\ \A j \in 1 .. m : s[j] \in S
  OBVIOUS
<1>1. /\ u \in Seq(S) /\ Len(u) = i - 1
      /\ \A j \in 1 .. i - 1 : u[j] = s[j]
  <2>1. \A j \in 1 .. i - 1 : s[j] \in S
    BY <1>0
  <2>2. /\ u \in Seq(S) /\ Len(u) = IF 1 <= i - 1 THEN (i - 1) - 1 + 1 ELSE 0
        /\ \A j \in 1 .. (i - 1) - 1 + 1 : u[j] = s[1 + j - 1]
    BY <1>0, <2>1, SubSeqProperties
  <2>. QED  BY <1>0, <2>2
<1>2. /\ v \in Seq(S) /\ Len(v) = m - i
      /\ \A j \in 1 .. m - i : v[j] = s[i + j]
  <2>1. \A j \in i + 1 .. m : s[j] \in S
    BY <1>0
  <2>2. /\ v \in Seq(S) /\ Len(v) = IF i + 1 <= m THEN m - (i + 1) + 1 ELSE 0
        /\ \A j \in 1 .. m - (i + 1) + 1 : v[j] = s[i + 1 + j - 1]
    BY <1>0, <2>1, SubSeqProperties
  <2>. QED  BY <1>0, <2>2
<1>3. RemoveAt(s, i) = u \o v
  BY DEF RemoveAt
<1>4. AList(u \o v) /\ Held(u \o v) = Held(u) \cup Held(v)
  BY <1>1, <1>2, HeldJoined DEF AList
<1>5. Held(u) \cup Held(v) = {s[j] : j \in 1 .. m \ {i}}
  <2>1. Held(u) = {s[j] : j \in 1 .. i - 1}
    BY <1>1 DEF Held
  <2>2. Held(v) = {s[j] : j \in i + 1 .. m}
    <3>1. \A j \in 1 .. m - i : i + j \in i + 1 .. m
      BY <1>0
    <3>2. \A j \in i + 1 .. m : j - i \in 1 .. m - i /\ i + (j - i) = j
      BY <1>0
    <3>3. \A j \in i + 1 .. m : v[j - i] = s[j]
      BY <1>2, <3>2
    <3>4. \A j \in 1 .. Len(v) : v[j] \in {s[k] : k \in i + 1 .. m}
      BY <1>2, <3>1
    <3>5. \A k \in i + 1 .. m : s[k] \in {v[j] : j \in 1 .. Len(v)}
      BY <1>2, <3>2, <3>3
    <3>6. Held(v) \subseteq {s[k] : k \in i + 1 .. m}
      BY <3>4, Zenon DEF Held
    <3>7. {s[k] : k \in i + 1 .. m} \subseteq Held(v)
      BY <3>5, Zenon DEF Held
    <3>. QED  BY <3>6, <3>7, Zenon
  <2>3. 1 .. m \ {i} = (1 .. i - 1) \cup (i + 1 .. m)
    BY <1>0
  <2>. QED  BY <2>1, <2>2, <2>3
<1>. QED  BY <1>3, <1>4, <1>5

LEMMA AnswersExact ==
  ASSUME NEW q \in Questions, NEW d, d = Evaluate(q)
  PROVE  LET agrees(other) == Evaluate([q EXCEPT !.policies = other]).allowed = d.allowed
         IN  /\ d.allowed <=> Documented(q) = "allowed"
             /\ d.requires_approval => d.allowed
             /\ d.allowed => \A i \in DOMAIN d.matched : d.matched[i].effect = "allow"
             /\ ~d.allowed /\ d.matched # <<>> => d.matched[1].effect = "deny"
             /\ agrees(Reverse(q.policies))
             /\ \A i \in DOMAIN q.policies :
                  (\A j \in DOMAIN q.policies[i].rules : \A k \in DOMAIN d.matched :
                     q.policies[i].rules[j] # d.matched[k])
                  => agrees(RemoveAt(q.policies, i))
<1>. PICK ps : ps = q.policies
  OBVIOUS
<1>0. DOMAIN q = {"policies", "agent", "action", "context"}
  BY PolicyAssumption
<1>1. ArePolicies(ps)
  <2>1. /\ ps \in Seq(Range(ps))
        /\ \A p \in Range(ps) : p.rules \in Seq(Range(p.rules)) /\ \A r \in Range(p.rules) : r.effect \in {"allow", "deny"}
    BY PolicyAssumption
  <2>2. \A i \in 1 .. Len(ps) : ps[i] \in Range(ps)
    BY <2>1
  <2>3. ASSUME NEW p \in Range(ps)
        PROVE  AList(p.rules) /\ \A r \in Held(p.rules) : r.effect \in {"allow", "deny"}
    <3>1. p.rules \in Seq(Range(p.rules))
      BY <2>1
    <3>2. \A i \in 1 .. Len(p.rules) : p.rules[i] \in Range(p.rules)
      BY <3>1
    <3>. QED  BY <2>1, <3>1, <3>2 DEF Held, AList
  <2>. QED  BY <2>1, <2>2, <2>3 DEF ArePolicies, Held, AList
<1>2. Decided(d, ps, q)
  BY <1>1, EvaluateDecides
<1>3. Documented(q) = "allowed" <=> ~Some("deny", ps, q) /\ Some("allow", ps, q)
  BY <1>1, DocumentedDecides
(* The answer for another list that holds some of the policies.            *)
<1>4. ASSUME NEW other, AList(other), Held(other) \subseteq Held(ps)
      PROVE  /\ \A effect : Some(effect, other, q) => Some(effect, ps, q)
             /\ Evaluate([q EXCEPT !.policies = other]).allowed \in BOOLEAN
             /\ Evaluate([q EXCEPT !.policies = other]).allowed <=> ~Some("deny", other, q) /\ Some("allow", other, q)
  <2>. PICK p : p = [q EXCEPT !.policies = other]
    OBVIOUS
  <2>1. p.policies = other /\ p.agent = q.agent /\ p.action = q.action /\ p.context = q.context
    BY <1>0
  <2>2. ArePolicies(other)
    BY <1>1, <1>4 DEF ArePolicies
  <2>3. Decided(Evaluate(p), other, p)
    BY <2>1, <2>2, EvaluateDecides
  <2>4. \A effect : Some(effect, other, p) <=> Some(effect, other, q)
    BY <2>1 DEF Some, Fits
  <2>5. ASSUME NEW r, Bears(r, other, q.agent)
        PROVE  Bears(r, ps, q.agent)
    <3>1. PICK i \in 1 .. Len(other) : Applicable(other[i], q.agent) /\ other[i].enabled /\ r \in Held(other[i].rules)
      BY <2>5 DEF Bears
    <3>2. other[i] \in Held(ps)
      BY <1>4 DEF Held
    <3>. QED  BY <3>1, <3>2 DEF Bears, Held
  <2>. QED  BY <2>3, <2>4, <2>5 DEF Decided, Some
<1>5. ASSUME NEW other, AList(other), Held(other) \subseteq Held(ps),
             \A effect \in {"allow", "deny"} : Some(effect, ps, q) => Some(effect, other, q)
      PROVE  Evaluate([q EXCEPT !.policies = other]).allowed = d.allowed
  <2>. PICK e : e = Evaluate([q EXCEPT !.policies = other]).allowed
    OBVIOUS
  <2>1. /\ e \in BOOLEAN /\ d.allowed \in BOOLEAN
        /\ e <=> ~Some("deny", other, q) /\ Some("allow", other, q)
        /\ d.allowed <=> ~Some("deny", ps, q) /\ Some("allow", ps, q)
        /\ \A effect : Some(effect, other, q) => Some(effect, ps, q)
    BY <1>2, <1>4, <1>5 DEF Decided
  <2>2. \A effect \in {"allow", "deny"} : Some(effect, ps, q) <=> Some(effect, other, q)
    BY <1>5, <2>1
  <2>3. e <=> d.allowed
    BY <2>1, <2>2
  <2>. QED  BY <2>1, <2>3, Zenon
<1>6. Evaluate([q EXCEPT !.policies = Reverse(ps)]).allowed = d.allowed
  <2>. PICK other : other = Reverse(ps)
    OBVIOUS
  <2>1. AList(other) /\ Held(other) = Held(ps)
    BY <1>1, HeldReversed DEF ArePolicies
  <2>2. \A effect : Some(effect, ps, q) => Some(effect, other, q)
    <3>1. ASSUME NEW r, Bears(r, ps, q.agent)
          PROVE  Bears(r, other, q.agent)
      <4>1. PICK i \in 1 .. Len(ps) : Applicable(ps[i], q.agent) /\ ps[i].enabled /\ r \in Held(ps[i].rules)
        BY <3>1 DEF Bears
      <4>2. ps[i] \in Held(other)
        BY <2>1 DEF Held
      <4>. QED  BY <4>1, <4>2 DEF Bears, Held
    <3>. QED  BY <3>1 DEF Some
  <2>. QED  BY <1>5, <2>1, <2>2
<1>7. ASSUME NEW i \in 1 .. Len(ps),
             \A r \in Held(ps[i].rules) : r \notin Held(d.matched)
      PROVE  Evaluate([q EXCEPT !.policies = RemoveAt(ps, i)]).allowed = d.allowed
  <2>. PICK other : other = RemoveAt(ps, i)
    OBVIOUS
  <2>1. AList(other) /\ Held(other) = {ps[j] : j \in 1 .. Len(ps) \ {i}}
    BY <1>1, HeldWithout DEF ArePolicies
  <2>2. Held(other) \subseteq Held(ps)
    BY <2>1 DEF Held
  <2>3. ASSUME NEW effect \in {"allow", "deny"}, Some(effect, ps, q)
        PROVE  Some(effect, other, q)
    <3>1. PICK r : Bears(r, ps, q.agent) /\ r.effect = effect /\ Fits(r, q)
      BY <2>3 DEF Some
    <3>2. r \in Held(d.matched)
      BY <1>2, <3>1 DEF Decided
    <3>3. PICK j \in 1 .. Len(ps) : Applicable(ps[j], q.agent) /\ ps[j].enabled /\ r \in Held(ps[j].rules)
      BY <3>1 DEF Bears
    <3>4. j # i
      BY <1>7, <3>2, <3>3
    <3>5. ps[j] \in Held(other)
      BY <2>1, <3>4
    <3>6. Bears(r, other, q.agent)
      BY <3>3, <3>5 DEF Bears, Held
    <3>. QED  BY <3>1, <3>6 DEF Some
  <2>. QED  BY <1>5, <2>1, <2>2, <2>3
<1>8. ASSUME NEW i \in DOMAIN ps,
             \A j \in DOMAIN ps[i].rules : \A k \in DOMAIN d.matched : ps[i].rules[j] # d.matched[k]
      PROVE  Evaluate([q EXCEPT !.policies = RemoveAt(ps, i)]).allowed = d.allowed
  <2>1. i \in 1 .. Len(ps)
    BY <1>1 DEF ArePolicies, AList
  <2>2. AList(ps[i].rules) /\ AList(d.matched)
    BY <1>1, <1>2, <2>1 DEF ArePolicies, Decided, Held
  <2>3. DOMAIN ps[i].rules = 1 .. Len(ps[i].rules) /\ DOMAIN d.matched = 1 .. Len(d.matched)
    BY <2>2 DEF AList
  <2>4. \A r \in Held(ps[i].rules) : r \notin Held(d.matched)
    BY <1>8, <2>3 DEF Held
  <2>. QED  BY <1>7, <2>1, <2>4
<1>9. d.allowed => \A i \in DOMAIN d.matched : d.matched[i].effect = "allow"
  BY <1>2 DEF Decided, AList, Held
<1>10. d.matched # <<>> => Len(d.matched) > 0
  BY <1>2 DEF Decided, AList
<1>11. d.allowed <=> Documented(q) = "allowed"
  BY <1>2, <1>3 DEF Decided
<1>12. /\ d.requires_approval => d.allowed
       /\ ~d.allowed /\ d.matched # <<>> => d.matched[1].effect = "deny"
  BY <1>2, <1>10 DEF Decided
<1>. QED  BY <1>6, <1>8, <1>9, <1>11, <1>12

(* Whatever the policies, the agent, the action and the context: the       *)
(* engine decides what its documentation decides rule by rule, and no      *)
(* policy matters but by the rules that match.                             *)
THEOREM DecisionExactAlways == PolicySpec => []DecisionExact
<1>. DEFINE Inv == \A a \in answered : a.question \in Questions /\ a.decision = Evaluate(a.question)
<1>1. PolicyInit => Inv
  BY DEF PolicyInit
<1>2. Inv /\ [PolicyNext]_answered => Inv'
  <2>1. ASSUME NEW q \in Questions, Ask(q)
        PROVE  Inv'
    BY <2>1 DEF Ask
  <2>. QED  BY <2>1 DEF PolicyNext
<1>3. Inv => DecisionExact
  BY AnswersExact, Zenon DEF DecisionExact
<1>. QED  BY <1>1, <1>2, <1>3, PTL DEF PolicySpec

-----------------------------------------------------------------------------
(* The context vault.                                                      *)

Busy == {"append", "truncate", "write"}

(* The entries of an approval file have a time at which they expire.       *)
Expires(f, e) == f = "approvals" => e.expires_at \in Int

(* One list begins another.                                                *)
Begins(s, t) == Len(s) <= Len(t) /\ \A i \in 1 .. Len(s) : t[i] = s[i]

(* What a request to append is about to write.                             *)
CopyOK(c) ==
  LET s == copy[c].entries
      f == Target(call[c])
  IN  /\ AList(s) /\ Len(s) > 0
      /\ \A i \in 1 .. Len(s) : Expires(f, s[i])
      /\ \A i \in 1 .. Len(s) - 1 : s[i] \in Held(kept[f])
      /\ Begins(base[f], s)

FileOK(f) ==
  /\ file[f].state \in {"absent", "empty", "garbage", "list"}
  /\ AList(file[f].entries) /\ AList(kept[f]) /\ AList(base[f])
  /\ Held(file[f].entries) \subseteq Held(kept[f])
  /\ \A e \in Held(file[f].entries) : Expires(f, e)
  /\ Loads(f) => Begins(base[f], file[f].entries)

Approved(c, a, role) ==
  /\ a \in Held(kept["approvals"])
  /\ a.context_id = call[c].context_id /\ a.role = role /\ a.expires_at > since[c]

(* What authorize has found so far.                                        *)
FoundOK(c) ==
  LET found == copy[c].found
      roles == RolesOf(call[c])
  IN  /\ AList(found) /\ Len(found) <= Len(roles)
      /\ serving[c] = "roles" => Len(found) < Len(roles)
      /\ serving[c] = "allowed" =>
           Len(found) = Len(roles) /\ Judged(call[c].action, copy[c].context.data) = "met"
      /\ copy[c].context \in Held(kept["contexts"])
      /\ alone => FirstStored(copy[c].context, call[c].context_id)
      /\ copy[c].context.id = call[c].context_id
      /\ \A i \in 1 .. Len(found) : Approved(c, found[i], roles[i])

CallOK(c) ==
  /\ serving[c] \in {"idle", "append", "truncate", "write", "lookup", "roles", "answered", "failed", "refused", "allowed"}
  /\ since[c] \in Int /\ since[c] <= hour
  /\ copy[c] = [entries |-> copy[c].entries, context |-> copy[c].context, found |-> copy[c].found]
  /\ serving[c] # "idle" => call[c] \in Requests
  /\ serving[c] \in Busy => call[c].endpoint \in {"context", "approve"}
  /\ serving[c] \in {"truncate", "write"} => CopyOK(c)
  /\ serving[c] \in {"idle", "append", "lookup"} => copy[c] = Nothing
  /\ serving[c] \in {"roles", "allowed"} => FoundOK(c)

(* While requests append one at a time: what a file holds, and what will   *)
(* be in it.                                                               *)
Whole(f) == file[f].entries = kept[f] /\ file[f].state \in {"absent", "list"}

AloneOK(f) ==
  \/ Appending(f) = {} /\ Whole(f)
  \/ \E c \in Callers : /\ Appending(f) = {c}
                        /\ \E e : copy[c].entries = Append(kept[f], e)
                        /\ serving[c] = "truncate" => Whole(f)
                        /\ serving[c] = "write" => file[f] = Content("empty", <<>>)

VaultInv ==
  /\ hour \in Nat
  /\ DOMAIN file = Files /\ DOMAIN kept = Files /\ DOMAIN base = Files
  /\ DOMAIN serving = Callers /\ DOMAIN call = Callers /\ DOMAIN since = Callers /\ DOMAIN copy = Callers
  /\ \A f \in Files : FileOK(f)
  /\ \A c \in Callers : CallOK(c)
  /\ alone => \A f \in Files : AloneOK(f)

(* The roles that are looked up: those of the region, and those with a     *)
(* key; never none.                                                        *)
LEMMA RolesAre ==
  ASSUME NEW request
  PROVE  LET roles == RolesOf(request) IN
         /\ AList(roles) /\ Len(roles) \in Nat /\ Len(roles) > 0
         /\ \A role \in Range(REGIONS(request.region)) \cup KEYS : \E i \in 1 .. Len(roles) : roles[i] = role
<1>. DEFINE R == {"CRO", "LEGAL", "FINANCE", "DPO"}
<1>. PICK s : s = REGIONS(request.region)
  OBVIOUS
<1>. PICK t : t = <<"CRO", "LEGAL">>
  OBVIOUS
<1>1. s \in Seq(R)
  <2>1. <<"CRO", "LEGAL", "FINANCE">> \in Seq(R) /\ <<"CRO", "LEGAL", "DPO">> \in Seq(R) /\ <<"CRO", "LEGAL">> \in Seq(R)
    OBVIOUS
  <2>2. s \in {<<"CRO", "LEGAL", "FINANCE">>, <<"CRO", "LEGAL", "DPO">>, <<"CRO", "LEGAL">>}
    <3>1. CASE request.region = "US"
      BY <3>1, Zenon DEF REGIONS
    <3>2. CASE request.region = "EU"
      BY <3>2, Zenon DEF REGIONS
    <3>3. CASE request.region \notin {"US", "EU"}
      BY <3>3, Zenon DEF REGIONS
    <3>. QED  BY <3>1, <3>2, <3>3
  <2>. QED  BY <2>1, <2>2
<1>2. t \in Seq(R) /\ Len(t) = 2 /\ t[1] = "CRO" /\ t[2] = "LEGAL"
  OBVIOUS
<1>3. RolesOf(request) = s \o t
  BY DEF RolesOf
<1>. HIDE DEF R
<1>4. /\ s \o t \in Seq(R) /\ Len(s \o t) = Len(s) + 2 /\ Len(s) \in Nat
      /\ \A i \in 1 .. Len(s) : (s \o t)[i] = s[i]
      /\ \A i \in 1 .. Len(t) : (s \o t)[Len(s) + i] = t[i]
  <2>1. /\ s \o t \in Seq(R) /\ Len(s \o t) = Len(s) + Len(t) /\ Len(s) \in Nat
        /\ \A i \in 1 .. Len(s) : (s \o t)[i] = s[i]
        /\ \A i \in 1 .. Len(t) : (s \o t)[Len(s) + i] = t[i]
    BY <1>1, <1>2, Joined
  <2>. QED  BY <1>2, <2>1
<1>5. (s \o t)[Len(s) + 1] = "CRO" /\ (s \o t)[Len(s) + 2] = "LEGAL"
  <2>1. 1 \in 1 .. Len(t) /\ 2 \in 1 .. Len(t)
    BY <1>2
  <2>. QED  BY <1>2, <1>4, <2>1
<1>6. ASSUME NEW role \in Range(s) \cup KEYS
      PROVE  \E i \in 1 .. Len(s \o t) : (s \o t)[i] = role
  <2>1. CASE role \in Range(s)
    <3>1. PICK i \in 1 .. Len(s) : s[i] = role
      BY <1>1, <2>1 DEF Range
    <3>2. i \in 1 .. Len(s \o t)
      BY <1>4
    <3>. QED  BY <1>4, <3>1, <3>2
  <2>2. CASE role \in KEYS
    <3>1. Len(s) + 1 \in 1 .. Len(s \o t) /\ Len(s) + 2 \in 1 .. Len(s \o t)
      BY <1>4
    <3>. QED  BY <1>5, <2>2, <3>1 DEF KEYS
  <2>. QED  BY <1>6, <2>1, <2>2
<1>. QED  BY <1>3, <1>4, <1>6 DEF AList

LEMMA JudgedIs ==
  ASSUME NEW action, NEW data
  PROVE  Judged(action, data) \in {"met", "unmet", "raises"}
<1>1. \A condition : Outcome(condition, data) \in {"met", "unmet", "raises"}
  BY DEF Outcome
<1>. QED  BY <1>1 DEF Judged

(* The callers that a step does not touch.                                 *)
Same(c) ==
  serving'[c] = serving[c] /\ call'[c] = call[c] /\ since'[c] = since[c] /\ copy'[c] = copy[c]

KeptGrows == \A f \in Files : Held(kept[f]) \subseteq Held(kept'[f]) /\ Begins(kept[f], kept'[f])

LEMMA TargetFile == \A request : Target(request) \in Files
  BY DEF Target, Files

(* Lists that only grow; the first that was stored stays the first.        *)
LEMMA BeginsSame == ASSUME NEW s, AList(s) PROVE Begins(s, s)
BY DEF Begins, AList

LEMMA FirstStays ==
  ASSUME NEW context, NEW id, FirstStored(context, id), AList(kept["contexts"]), AList(kept'["contexts"]),
         Begins(kept["contexts"], kept'["contexts"])
  PROVE  FirstStored(context, id)'
<1>. PICK k : k = kept["contexts"]
  OBVIOUS
<1>. PICK l : l = kept'["contexts"]
  OBVIOUS
<1>1. /\ DOMAIN k = 1 .. Len(k) /\ DOMAIN l = 1 .. Len(l) /\ Len(k) \in Nat /\ Len(l) \in Nat
      /\ Len(k) <= Len(l) /\ \A i \in 1 .. Len(k) : l[i] = k[i]
  BY DEF AList, Begins
<1>2. PICK i \in DOMAIN k : k[i] = context /\ \A j \in 1 .. i - 1 : k[j].id # id
  BY DEF FirstStored
<1>3. i \in DOMAIN l /\ l[i] = context /\ \A j \in 1 .. i - 1 : l[j].id # id
  BY <1>1, <1>2
<1>. QED  BY <1>3 DEF FirstStored

LEMMA CallStays ==
  ASSUME VaultInv, NEW c \in Callers, Same(c), hour' \in Int, hour <= hour', KeptGrows, alone' => alone,
         AList(kept'["contexts"]),
         serving[c] \in {"truncate", "write"} => base'[Target(call[c])] = base[Target(call[c])]
  PROVE  CallOK(c)'
<1>1. CallOK(c) /\ hour \in Int
  BY DEF VaultInv
<1>2. /\ serving'[c] = serving[c] /\ call'[c] = call[c] /\ since'[c] = since[c] /\ copy'[c] = copy[c]
      /\ since[c] <= hour'
  BY <1>1 DEF Same, CallOK
<1>3. serving[c] \in {"truncate", "write"} /\ CopyOK(c) => CopyOK(c)'
  <2>1. Held(kept[Target(call[c])]) \subseteq Held(kept'[Target(call[c])])
    BY TargetFile DEF KeptGrows
  <2>. QED  BY <1>2, <2>1 DEF CopyOK
<1>4. FoundOK(c) => FoundOK(c)'
  <2>1. /\ Held(kept["approvals"]) \subseteq Held(kept'["approvals"])
        /\ Held(kept["contexts"]) \subseteq Held(kept'["contexts"])
        /\ Begins(kept["contexts"], kept'["contexts"])
    BY DEF KeptGrows, Files
  <2>2. \A a, role : Approved(c, a, role) => Approved(c, a, role)'
    BY <1>2, <2>1 DEF Approved
  <2>3. ASSUME FoundOK(c), alone'
        PROVE  FirstStored(copy[c].context, call[c].context_id)'
    <3>1. AList(kept["contexts"]) /\ FirstStored(copy[c].context, call[c].context_id)
      BY <2>3 DEF VaultInv, FileOK, Files, FoundOK
    <3>2. PICK context : context = copy[c].context
      OBVIOUS
    <3>3. PICK id : id = call[c].context_id
      OBVIOUS
    <3>4. FirstStored(context, id)'
      BY <2>1, <3>1, <3>2, <3>3, FirstStays
    <3>. QED  BY <1>2, <3>2, <3>3, <3>4 DEF FirstStored
  <2>. QED  BY <1>2, <2>1, <2>2, <2>3 DEF FoundOK
<1>. QED  BY <1>1, <1>2, <1>3, <1>4 DEF CallOK

LEMMA AloneStays ==
  ASSUME NEW f, AloneOK(f), Appending(f)' = Appending(f), file'[f] = file[f], kept'[f] = kept[f],
         \A c \in Appending(f) : Same(c)
  PROVE  AloneOK(f)'
<1>1. CASE Appending(f) = {} /\ Whole(f)
  BY <1>1 DEF AloneOK, Whole
<1>2. CASE ~(Appending(f) = {} /\ Whole(f))
  <2>1. PICK c \in Callers : /\ Appending(f) = {c}
                             /\ \E e : copy[c].entries = Append(kept[f], e)
                             /\ serving[c] = "truncate" => Whole(f)
                             /\ serving[c] = "write" => file[f] = Content("empty", <<>>)
    BY <1>2 DEF AloneOK
  <2>2. serving'[c] = serving[c] /\ copy'[c] = copy[c]
    BY <2>1 DEF Same
  <2>. QED  BY <2>1, <2>2 DEF AloneOK, Whole
<1>. QED  BY <1>1, <1>2

LEMMA FileStays ==
  ASSUME NEW f, FileOK(f), file'[f] = file[f], kept'[f] = kept[f], base'[f] = base[f]
  PROVE  FileOK(f)'
BY DEF FileOK, Loads

LEMMA KeptSame ==
  ASSUME VaultInv, kept' = kept
  PROVE  KeptGrows /\ AList(kept'["contexts"])
BY BeginsSame DEF VaultInv, KeptGrows, FileOK, Files

(* A step of one caller that appends to nothing, before and after.         *)
LEMMA OneServed ==
  ASSUME VaultInv, NEW c \in Callers, \A d \in Callers \ {c} : Same(d),
         hour' = hour, file' = file, kept' = kept, alone' = alone, base' = base,
         DOMAIN serving' = Callers, DOMAIN call' = Callers, DOMAIN since' = Callers, DOMAIN copy' = Callers,
         serving[c] \notin {"truncate", "write"}, serving'[c] \notin {"truncate", "write"}, CallOK(c)'
  PROVE  VaultInv'
<1>1. KeptGrows /\ AList(kept'["contexts"])
  BY KeptSame
<1>2. \A d \in Callers \ {c} : CallOK(d)'
  BY <1>1, CallStays DEF VaultInv
<1>3. ASSUME NEW f \in Files
      PROVE  Appending(f)' = Appending(f) /\ \A d \in Appending(f) : Same(d)
  BY DEF Appending, Same
<1>4. ASSUME alone', NEW f \in Files
      PROVE  AloneOK(f)'
  BY <1>3, <1>4, AloneStays DEF VaultInv
<1>5. \A f \in Files : FileOK(f)'
  BY FileStays DEF VaultInv
<1>. QED  BY <1>2, <1>4, <1>5 DEF VaultInv

LEMMA VaultStarts == VaultInit => VaultInv
<1>. SUFFICES ASSUME VaultInit PROVE VaultInv
  OBVIOUS
<1>1. ASSUME NEW f \in Files
      PROVE  FileOK(f) /\ AloneOK(f)
  <2>1. /\ file[f] = Content("absent", <<>>) /\ kept[f] = <<>> /\ base[f] = <<>>
        /\ \A c \in Callers : serving[c] = "idle"
    BY DEF VaultInit
  <2>2. FileOK(f)
    BY <2>1, HeldNothing DEF FileOK, Content, Begins
  <2>3. Appending(f) = {} /\ Whole(f)
    BY <2>1 DEF Appending, Whole, Content
  <2>. QED  BY <2>2, <2>3 DEF AloneOK
<1>2. ASSUME NEW c \in Callers
      PROVE  CallOK(c)
  BY DEF VaultInit, CallOK, Nothing, Busy
<1>. QED  BY <1>1, <1>2 DEF VaultInit, VaultInv

LEMMA HourStep == VaultInv /\ HourPasses => VaultInv'
<1>. SUFFICES ASSUME VaultInv, HourPasses PROVE VaultInv'
  OBVIOUS
<1>1. hour' \in Int /\ hour <= hour' /\ \A d \in Callers : Same(d)
  BY DEF HourPasses, VaultInv, Same
<1>0. KeptGrows /\ AList(kept'["contexts"]) /\ alone' = alone /\ base' = base
  BY KeptSame DEF HourPasses
<1>2. \A d \in Callers : CallOK(d)'
  BY <1>0, <1>1, CallStays
<1>3. \A f \in Files : FileOK(f)'
  BY FileStays DEF VaultInv, HourPasses
<1>4. \A f \in Files : alone' => AloneOK(f)'
  BY DEF VaultInv, HourPasses, AloneOK, Appending, Whole
<1>. QED  BY <1>1, <1>2, <1>3, <1>4 DEF VaultInv, HourPasses

LEMMA ArriveStep ==
  ASSUME VaultInv, NEW c \in Callers, NEW request \in Requests, Arrive(c, request)
  PROVE  VaultInv'
<1>. DEFINE place == CASE request.endpoint = "context" -> "append"
                       [] request.endpoint = "approve" ->
                            IF request.role \in KEYS THEN "append" ELSE "failed"
                       [] request.endpoint = "authorize" -> "lookup"
<1>1. /\ serving[c] = "idle"
      /\ serving' = [serving EXCEPT ![c] = place]
      /\ call' = [call EXCEPT ![c] = request] /\ since' = [since EXCEPT ![c] = hour]
      /\ hour' = hour /\ file' = file /\ copy' = copy /\ kept' = kept /\ alone' = alone /\ base' = base
  BY DEF Arrive, Reach
<1>2. request.endpoint \in {"context", "approve", "authorize"}
  BY VaultAssumption
<1>3. place \in {"append", "failed", "lookup"} /\ (place = "append" => request.endpoint \in {"context", "approve"})
  <2>1. CASE request.endpoint = "context"
    BY <2>1, Zenon
  <2>2. CASE request.endpoint = "approve"
    <3>1. place = IF request.role \in KEYS THEN "append" ELSE "failed"
      BY <2>2, Zenon
    <3>. HIDE DEF place
    <3>. QED  BY <2>2, <3>1
  <2>3. CASE request.endpoint = "authorize"
    BY <2>3, Zenon
  <2>. QED  BY <1>2, <2>1, <2>2, <2>3
<1>. HIDE DEF place
<1>4. \A d \in Callers \ {c} : Same(d)
  BY <1>1 DEF VaultInv, Same
<1>5. /\ serving'[c] = place /\ call'[c] = request /\ since'[c] = hour /\ copy'[c] = copy[c]
      /\ DOMAIN serving' = Callers /\ DOMAIN call' = Callers /\ DOMAIN since' = Callers /\ DOMAIN copy' = Callers
  BY <1>1 DEF VaultInv
<1>6. CallOK(c) /\ hour \in Int
  BY DEF VaultInv
<1>7. CallOK(c)'
  BY <1>1, <1>3, <1>5, <1>6 DEF CallOK, Busy
<1>. QED  BY <1>1, <1>3, <1>4, <1>5, <1>7, OneServed

LEMMA DepartStep ==
  ASSUME VaultInv, NEW c \in Callers, Depart(c)
  PROVE  VaultInv'
<1>1. /\ serving[c] \in {"answered", "failed", "refused", "allowed"}
      /\ serving' = [serving EXCEPT ![c] = "idle"]
      /\ since' = [since EXCEPT ![c] = 0] /\ copy' = [copy EXCEPT ![c] = Nothing]
      /\ hour' = hour /\ file' = file /\ kept' = kept /\ alone' = alone /\ base' = base
      /\ call' = [call EXCEPT ![c] = AnyRequest]
  BY DEF Depart, Reach
<1>2. /\ serving'[c] = "idle" /\ since'[c] = 0 /\ copy'[c] = Nothing
      /\ DOMAIN serving' = Callers /\ DOMAIN call' = Callers /\ DOMAIN since' = Callers /\ DOMAIN copy' = Callers
      /\ \A d \in Callers \ {c} : Same(d)
  BY <1>1 DEF VaultInv, Same
<1>3. CallOK(c) /\ hour \in Int
  BY DEF VaultInv
<1>4. 0 <= hour
  BY DEF VaultInv
<1>5. CallOK(c)'
  BY <1>1, <1>2, <1>3, <1>4 DEF CallOK, Busy, Nothing
<1>. QED  BY <1>1, <1>2, <1>5, OneServed

LEMMA LookupStep ==
  ASSUME VaultInv, NEW c \in Callers, Lookup(c)
  PROVE  VaultInv'
<1>. DEFINE entries == file["contexts"].entries
            stop == {i \in DOMAIN entries : entries[i].id \in {call[c].context_id, NoId}}
            entry == entries[Min(stop)]
<1>1. /\ serving[c] = "lookup"
      /\ hour' = hour /\ file' = file /\ kept' = kept /\ alone' = alone /\ call' = call /\ since' = since
      /\ base' = base
      /\ \/ serving' = [serving EXCEPT ![c] = "failed"] /\ copy' = copy
         \/ serving' = [serving EXCEPT ![c] = "refused"] /\ copy' = copy
         \/ /\ stop # {} /\ entry.id # NoId /\ Loads("contexts")
            /\ copy' = [copy EXCEPT ![c].context = entry]
            /\ serving' = [serving EXCEPT ![c] = "roles"]
  BY DEF Lookup, Reach
<1>. HIDE DEF entry
<1>2. /\ serving'[c] \in {"failed", "refused", "roles"}
      /\ DOMAIN serving' = Callers /\ DOMAIN call' = Callers /\ DOMAIN since' = Callers /\ DOMAIN copy' = Callers
      /\ \A d \in Callers \ {c} : Same(d)
      /\ call'[c] = call[c] /\ since'[c] = since[c]
  BY <1>1 DEF VaultInv, Same
<1>3. CallOK(c) /\ copy[c] = Nothing /\ hour \in Int
  BY <1>1 DEF VaultInv, CallOK
<1>4. CASE serving'[c] # "roles"
  <2>1. copy'[c] = copy[c]
    BY <1>1, <1>4 DEF VaultInv
  <2>2. CallOK(c)'
    BY <1>1, <1>2, <1>3, <1>4, <2>1 DEF CallOK, Busy
  <2>. QED  BY <1>1, <1>2, <2>2, OneServed
<1>5. CASE serving'[c] = "roles"
  <2>1. stop # {} /\ entry.id # NoId /\ Loads("contexts") /\ copy' = [copy EXCEPT ![c].context = entry]
    BY <1>1, <1>5 DEF VaultInv
  <2>2. stop \subseteq Nat
    BY DEF VaultInv, FileOK, AList, Files
  <2>10. FileOK("contexts") /\ AList(entries) /\ DOMAIN entries = 1 .. Len(entries) /\ Len(entries) \in Nat
    BY DEF VaultInv, FileOK, AList, Files
  <2>11. Min(stop) \in stop /\ \A j \in stop : Min(stop) <= j
    <3>. HIDE DEF stop
    <3>. QED  BY <2>1, <2>2, NatLeast DEF Min
  <2>12. PICK m : m = Min(stop)
    OBVIOUS
  <2>3. entry.id = call[c].context_id /\ entry = entries[m] /\ m \in 1 .. Len(entries)
    BY <2>1, <2>10, <2>11, <2>12 DEF entry
  <2>13. \A j \in 1 .. m - 1 : entries[j].id # call[c].context_id
    <3>1. ASSUME NEW j \in 1 .. m - 1
          PROVE  j \in 1 .. Len(entries) /\ j \notin stop
      <4>1. j \in 1 .. Len(entries) /\ ~(m <= j)
        BY <2>3, <2>10
      <4>. QED  BY <2>11, <2>12, <4>1
    <3>. QED  BY <2>10, <3>1
  <2>14. ASSUME alone
         PROVE  FirstStored(entry, call[c].context_id)
    <3>1. entries = kept["contexts"]
      <4>1. AloneOK("contexts")
        BY <2>14 DEF VaultInv, Files
      <4>. QED  BY <2>1, <4>1 DEF AloneOK, Whole, Loads, Content, Appending
    <3>2. \E i \in DOMAIN kept["contexts"] : /\ kept["contexts"][i] = entry
                                             /\ \A j \in 1 .. i - 1 : kept["contexts"][j].id # call[c].context_id
      <4>1. m \in DOMAIN entries /\ entries[m] = entry
        BY <2>3, <2>10
      <4>. QED  BY <2>13, <3>1, <4>1, Zenon
    <3>. QED  BY <3>2, Zenon DEF FirstStored
  <2>15. entry \in Held(kept["contexts"])
    BY <2>3, <2>10 DEF FileOK, Held
  <2>4. copy'[c] = [entries |-> <<>>, context |-> entry, found |-> <<>>]
    BY <1>3, <2>1 DEF Nothing, VaultInv
  <2>5. Len(RolesOf(call[c])) > 0
    BY RolesAre
  <2>6. FoundOK(c)'
    <3>1. copy'[c].context = entry /\ copy'[c].found = <<>> /\ kept' = kept /\ call'[c] = call[c] /\ alone' = alone
      BY <1>1, <1>2, <2>4
    <3>2. alone' => FirstStored(copy[c].context, call[c].context_id)'
      BY <2>14, <3>1, Zenon DEF FirstStored
    <3>. QED  BY <1>2, <1>5, <2>3, <2>5, <2>15, <3>1, <3>2, HeldNothing DEF FoundOK
  <2>7. CallOK(c)'
    BY <1>1, <1>2, <1>3, <1>5, <2>4, <2>6 DEF CallOK, Busy
  <2>. QED  BY <1>1, <1>2, <2>7, OneServed
<1>. QED  BY <1>4, <1>5

(* A request that appends has the file to itself while alone holds.        *)
LEMMA ReadToAppendStep ==
  ASSUME VaultInv, NEW c \in Callers, ReadToAppend(c)
  PROVE  VaultInv'
<1>. PICK f \in Files : f = Target(call[c])
  BY TargetFile
<1>. DEFINE s == file[f].entries
            e == Entry(c)
<1>1. /\ serving[c] = "append" /\ hour' = hour /\ file' = file /\ kept' = kept
      /\ call' = call /\ since' = since
      /\ \/ serving' = [serving EXCEPT ![c] = "failed"] /\ copy' = copy /\ alone' = alone /\ base' = base
         \/ /\ Loads(f)
            /\ copy' = [copy EXCEPT ![c].entries = Append(s, e)]
            /\ alone' = (alone /\ Appending(f) = {})
            /\ base' = IF Appending(f) = {} THEN [base EXCEPT ![f] = s] ELSE base
            /\ serving' = [serving EXCEPT ![c] = "truncate"]
  BY DEF ReadToAppend, Reach
<1>2. f \in Files /\ CallOK(c) /\ copy[c] = Nothing /\ call[c].endpoint \in {"context", "approve"} /\ call[c] \in Requests
  BY <1>1, TargetFile DEF VaultInv, CallOK, Busy
<1>3. /\ DOMAIN serving' = Callers /\ DOMAIN call' = Callers /\ DOMAIN since' = Callers /\ DOMAIN copy' = Callers
      /\ \A d \in Callers \ {c} : Same(d)
      /\ call'[c] = call[c] /\ since'[c] = since[c]
  BY <1>1 DEF VaultInv, Same
<1>4. CASE serving' = [serving EXCEPT ![c] = "failed"] /\ copy' = copy /\ alone' = alone /\ base' = base
  <2>1. serving'[c] = "failed" /\ copy'[c] = copy[c]
    BY <1>4 DEF VaultInv
  <2>2. CallOK(c)'
    BY <1>1, <1>2, <1>3, <2>1 DEF CallOK, Busy
  <2>. QED  BY <1>1, <1>3, <1>4, <2>1, <2>2, OneServed
<1>5. CASE /\ Loads(f)
           /\ copy' = [copy EXCEPT ![c].entries = Append(s, e)]
           /\ alone' = (alone /\ Appending(f) = {})
           /\ base' = IF Appending(f) = {} THEN [base EXCEPT ![f] = s] ELSE base
           /\ serving' = [serving EXCEPT ![c] = "truncate"]
  <2>. DEFINE t == Append(s, e)
  <2>1. FileOK(f)
    BY <1>2 DEF VaultInv
  <2>2. /\ AList(t) /\ Len(t) = Len(s) + 1 /\ Len(s) \in Nat /\ t[Len(t)] = e
        /\ \A i \in 1 .. Len(s) : t[i] = s[i]
    BY <2>1, HeldAppend DEF FileOK
  <2>3. Expires(f, e)
    <3>1. CASE call[c].endpoint = "approve"
      <4>1. since[c] \in Int /\ call[c].ttl \in Int
        BY <1>2, <3>1, VaultAssumption DEF CallOK
      <4>. QED  BY <3>1, <4>1 DEF Expires, Entry
    <3>2. CASE call[c].endpoint = "context"
      BY <3>2 DEF Expires, Target
    <3>. QED  BY <1>2, <3>1, <3>2
  <2>12. /\ Begins(s, t) /\ Begins(s, s) /\ Begins(base[f], s) /\ AList(s)
    BY <1>5, <2>1, <2>2, BeginsSame DEF Begins, FileOK
  <2>13. Begins(base[f], t)
    <3>1. /\ AList(base[f]) /\ Len(base[f]) \in Nat
      BY <2>1 DEF FileOK, AList
    <3>2. Len(base[f]) <= Len(s) /\ \A i \in 1 .. Len(base[f]) : i \in 1 .. Len(s) /\ s[i] = base[f][i]
      BY <2>2, <2>12, <3>1 DEF Begins
    <3>. QED  BY <2>2, <3>1, <3>2 DEF Begins
  <2>14. /\ DOMAIN base' = Files /\ \A g \in Files \ {f} : base'[g] = base[g]
         /\ base'[f] = base[f] \/ base'[f] = s
         /\ Appending(f) # {} => base' = base
    BY <1>5 DEF VaultInv
  <2>. HIDE DEF s, e, t
  <2>4. \A i \in 1 .. Len(s) : Expires(f, s[i]) /\ s[i] \in Held(kept[f])
    BY <2>1 DEF FileOK, Held, s
  <2>5. \A i \in 1 .. Len(t) : Expires(f, t[i])
    <3>1. \A i \in 1 .. Len(t) : i = Len(t) \/ i \in 1 .. Len(s)
      BY <2>2
    <3>. QED  BY <2>2, <2>3, <2>4, <3>1
  <2>6. \A i \in 1 .. Len(t) - 1 : t[i] \in Held(kept[f])
    BY <2>2, <2>4
  <2>7. serving'[c] = "truncate" /\ copy'[c] = [entries |-> t, context |-> NoId, found |-> <<>>]
    <3>1. copy' = [copy EXCEPT ![c].entries = t]
      BY <1>5, Zenon DEF t
    <3>2. copy'[c] = [copy[c] EXCEPT !.entries = t]
      BY <3>1 DEF VaultInv
    <3>3. serving'[c] = "truncate"
      BY <1>1, <1>3, <1>5, Zenon DEF VaultInv
    <3>. QED  BY <1>2, <3>2, <3>3 DEF Nothing
  <2>8. CallOK(c)'
    <3>0. Begins(base'[f], t)
      BY <2>12, <2>13, <2>14
    <3>1. CopyOK(c)'
      BY <1>1, <1>3, <2>2, <2>5, <2>6, <2>7, <3>0 DEF CopyOK
    <3>. QED  BY <1>1, <1>2, <1>3, <2>7, <3>1 DEF CallOK, Busy
  <2>9. ASSUME NEW d \in Callers \ {c}
        PROVE  CallOK(d)'
    <3>1. KeptGrows /\ AList(kept'["contexts"]) /\ (alone' => alone) /\ Same(d) /\ hour' \in Int /\ hour <= hour'
      <4>1. alone' => alone
        BY <1>5, Zenon
      <4>2. KeptGrows /\ AList(kept'["contexts"])
        BY <1>1, KeptSame
      <4>3. Same(d) /\ hour' \in Int /\ hour <= hour'
        BY <1>1, <1>3 DEF VaultInv
      <4>. QED  BY <4>1, <4>2, <4>3
    <3>2. serving[d] \in {"truncate", "write"} => base'[Target(call[d])] = base[Target(call[d])]
      <4>1. CASE Target(call[d]) = f
        BY <2>14, <4>1 DEF Appending
      <4>2. CASE Target(call[d]) # f
        BY <2>14, <4>2, TargetFile
      <4>. QED  BY <4>1, <4>2
    <3>. QED  BY <3>1, <3>2, CallStays
  <2>10. ASSUME NEW g \in Files
         PROVE  FileOK(g)'
    <3>1. CASE g = f
      <4>1. AList(base'[f]) /\ Begins(base'[f], s)
        BY <2>1, <2>12, <2>14 DEF FileOK
      <4>. QED  BY <1>1, <2>1, <3>1, <4>1 DEF FileOK, Loads, s
    <3>2. CASE g # f
      BY <1>1, <2>14, <3>2, FileStays DEF VaultInv
    <3>. QED  BY <3>1, <3>2
  <2>11. ASSUME alone', NEW g \in Files
         PROVE  AloneOK(g)'
    <3>1. alone /\ Appending(f) = {} /\ AloneOK(g) /\ AloneOK(f)
      BY <1>2, <1>5, <2>11 DEF VaultInv
    <3>2. CASE g = f
      <4>1. Whole(f)
        BY <1>1, <3>1 DEF AloneOK
      <4>2. Appending(f)' = {c}
        <5>1. \A d \in Callers : d \in Appending(f)' <=> d = c
          BY <1>1, <1>3, <2>7, <3>1 DEF Appending, Same
        <5>. QED  BY <5>1 DEF Appending
      <4>3. copy'[c].entries = Append(kept'[f], e)
        BY <1>1, <2>7, <4>1 DEF Whole, t, s
      <4>4. Whole(f)'
        BY <1>1, <4>1 DEF Whole
      <4>. QED  BY <2>7, <3>2, <4>2, <4>3, <4>4 DEF AloneOK
    <3>3. CASE g # f
      <4>1. Appending(g)' = Appending(g)
        BY <1>1, <1>3, <2>7, <3>3 DEF Appending, Same
      <4>2. c \notin Appending(g)
        BY <3>3 DEF Appending
      <4>. QED  BY <1>1, <1>3, <3>1, <4>1, <4>2, AloneStays DEF Appending
    <3>. QED  BY <3>2, <3>3
  <2>. QED  BY <1>1, <1>3, <2>8, <2>9, <2>10, <2>11, <2>14 DEF VaultInv
<1>. QED  BY <1>1, <1>4, <1>5

LEMMA TruncateStep ==
  ASSUME VaultInv, NEW c \in Callers, Truncate(c)
  PROVE  VaultInv'
<1>. PICK f \in Files : f = Target(call[c])
  BY TargetFile
<1>1. /\ serving[c] = "truncate" /\ hour' = hour /\ kept' = kept /\ alone' = alone /\ base' = base
      /\ call' = call /\ since' = since /\ copy' = copy
      /\ file' = [file EXCEPT ![f] = Content("empty", <<>>)]
      /\ serving' = [serving EXCEPT ![c] = "write"]
  BY DEF Truncate, Reach
<1>2. f \in Files /\ CallOK(c) /\ FileOK(f)
  BY <1>1, TargetFile DEF VaultInv
<1>3. /\ DOMAIN serving' = Callers /\ DOMAIN file' = Files /\ serving'[c] = "write"
      /\ \A d \in Callers \ {c} : Same(d)
      /\ call'[c] = call[c] /\ since'[c] = since[c] /\ copy'[c] = copy[c]
      /\ file'[f] = Content("empty", <<>>) /\ \A g \in Files \ {f} : file'[g] = file[g]
  BY <1>1, <1>2 DEF VaultInv, Same
<1>4. KeptGrows /\ AList(kept'["contexts"]) /\ hour \in Int
  BY <1>1, KeptSame DEF VaultInv
<1>5. CallOK(c)'
  <2>1. CopyOK(c)'
    BY <1>1, <1>2 DEF CallOK, CopyOK
  <2>. QED  BY <1>1, <1>2, <1>3, <2>1 DEF CallOK, Busy
<1>6. \A d \in Callers \ {c} : CallOK(d)'
  BY <1>1, <1>3, <1>4, CallStays
<1>7. \A g \in Files : FileOK(g)'
  <2>1. FileOK(f)'
    BY <1>1, <1>2, <1>3, HeldNothing DEF FileOK, Content, Loads
  <2>2. \A g \in Files \ {f} : FileOK(g)'
    BY <1>1, <1>3, FileStays DEF VaultInv
  <2>. QED  BY <2>1, <2>2
<1>8. ASSUME alone', NEW g \in Files
      PROVE  AloneOK(g)'
  <2>1. AloneOK(g) /\ AloneOK(f) /\ Appending(g)' = Appending(g) /\ Appending(f)' = Appending(f)
    BY <1>1, <1>2, <1>3, <1>8 DEF VaultInv, Appending, Same
  <2>2. CASE g = f
    <3>1. c \in Appending(f)
      BY <1>1 DEF Appending
    <3>2. Appending(f) = {c} /\ \E e : copy[c].entries = Append(kept[f], e)
      BY <2>1, <3>1 DEF AloneOK
    <3>. QED  BY <1>1, <1>3, <2>1, <2>2, <3>2 DEF AloneOK
  <2>3. CASE g # f
    <3>1. c \notin Appending(g)
      BY <2>3 DEF Appending
    <3>. QED  BY <1>1, <1>3, <2>1, <2>3, <3>1, AloneStays DEF Appending
  <2>. QED  BY <2>2, <2>3
<1>. QED  BY <1>1, <1>3, <1>4, <1>5, <1>6, <1>7, <1>8 DEF VaultInv

LEMMA WriteStep ==
  ASSUME VaultInv, NEW c \in Callers, Write(c)
  PROVE  VaultInv'
<1>. PICK f \in Files : f = Target(call[c])
  BY TargetFile
<1>. PICK s : s = copy[c].entries
  OBVIOUS
<1>1. /\ serving[c] = "write" /\ hour' = hour /\ alone' = alone /\ base' = base
      /\ call' = call /\ since' = since /\ copy' = copy
      /\ \/ file' = [file EXCEPT ![f] = Content("list", s)]
         \/ file[f].state # "empty" /\ file' = [file EXCEPT ![f] = Content("garbage", <<>>)]
      /\ kept' = [kept EXCEPT ![f] = Append(kept[f], Last(s))]
      /\ \E place \in {"failed", "answered"} : serving' = [serving EXCEPT ![c] = place]
  BY DEF Write, Reach
<1>. PICK e : e = Last(s)
  OBVIOUS
<1>. PICK k : k = kept[f]
  OBVIOUS
<1>2. CallOK(c) /\ FileOK(f) /\ CopyOK(c) /\ f \in Files
  BY <1>1 DEF VaultInv, CallOK
<1>3. /\ DOMAIN serving' = Callers /\ serving'[c] \in {"failed", "answered"}
      /\ \A d \in Callers \ {c} : Same(d)
      /\ call'[c] = call[c] /\ since'[c] = since[c] /\ copy'[c] = copy[c]
  BY <1>1 DEF VaultInv, Same
<1>4. /\ DOMAIN kept' = Files /\ kept'[f] = Append(k, e) /\ \A g \in Files \ {f} : kept'[g] = kept[g]
  <2>1. kept' = [kept EXCEPT ![f] = Append(k, e)]
    BY <1>1
  <2>. QED  BY <2>1, Zenon DEF VaultInv
<1>5. /\ AList(Append(k, e)) /\ Held(Append(k, e)) = Held(k) \cup {e} /\ Begins(k, Append(k, e))
  BY <1>2, HeldAppend DEF FileOK, Begins
<1>6. KeptGrows /\ AList(kept'["contexts"]) /\ hour \in Int
  <2>1. \A g \in Files : Held(kept[g]) \subseteq Held(kept'[g])
    BY <1>4, <1>5, Zenon
  <2>2. \A g \in Files : AList(kept[g]) /\ Begins(kept[g], kept[g])
    BY BeginsSame DEF VaultInv, FileOK
  <2>3. \A g \in Files : Begins(kept[g], kept'[g]) /\ AList(kept'[g])
    BY <1>4, <1>5, <2>2, Zenon
  <2>. QED  BY <2>1, <2>3 DEF KeptGrows, VaultInv, Files
<1>7. /\ AList(s) /\ Len(s) \in Nat /\ Len(s) > 0 /\ s[Len(s)] = e
      /\ \A i \in 1 .. Len(s) : Expires(f, s[i])
      /\ \A i \in 1 .. Len(s) - 1 : s[i] \in Held(k)
  BY <1>2 DEF CopyOK, Last, AList
<1>8. DOMAIN file' = Files /\ \A g \in Files \ {f} : file'[g] = file[g]
  BY <1>1 DEF VaultInv
<1>9. FileOK(f)'
  <2>1. Held(s) \subseteq Held(Append(k, e)) /\ \A x \in Held(s) : Expires(f, x)
    <3>1. \A i \in 1 .. Len(s) : i = Len(s) \/ i \in 1 .. Len(s) - 1
      BY <1>7
    <3>2. \A i \in 1 .. Len(s) : s[i] \in Held(k) \cup {e}
      BY <1>7, <3>1
    <3>. QED  BY <1>5, <1>7, <3>2 DEF Held
  <2>2. CASE file' = [file EXCEPT ![f] = Content("list", s)]
    <3>1. file'[f].state = "list" /\ file'[f].entries = s
      BY <2>2 DEF VaultInv, Content
    <3>2. Begins(base'[f], s) /\ AList(base'[f])
      BY <1>1, <1>2 DEF CopyOK, FileOK
    <3>. QED  BY <1>4, <1>5, <1>7, <2>1, <3>1, <3>2, Zenon DEF FileOK
  <2>3. CASE file' = [file EXCEPT ![f] = Content("garbage", <<>>)]
    <3>1. file'[f].state = "garbage" /\ file'[f].entries = <<>>
      BY <2>3 DEF VaultInv, Content
    <3>. QED  BY <1>1, <1>2, <1>4, <1>5, <3>1, HeldNothing DEF FileOK, Loads
  <2>. QED  BY <1>1, <2>2, <2>3
<1>10. \A g \in Files : FileOK(g)'
  <2>1. \A g \in Files \ {f} : FileOK(g)'
    BY <1>1, <1>4, <1>8, FileStays DEF VaultInv
  <2>. QED  BY <1>9, <2>1
<1>11. \A d \in Callers \ {c} : CallOK(d)'
  BY <1>1, <1>3, <1>6, CallStays
<1>12. CallOK(c)'
  BY <1>1, <1>2, <1>3 DEF CallOK, Busy
<1>13. ASSUME alone', NEW g \in Files
       PROVE  AloneOK(g)'
  <2>1. AloneOK(g) /\ AloneOK(f)
    BY <1>1, <1>2, <1>13 DEF VaultInv
  <2>2. CASE g = f
    <3>1. c \in Appending(f)
      BY <1>1 DEF Appending
    <3>2. Appending(f) = {c} /\ (\E x : s = Append(k, x)) /\ file[f] = Content("empty", <<>>)
      BY <1>1, <2>1, <3>1 DEF AloneOK
    <3>3. Appending(f)' = {}
      BY <1>1, <1>3, <3>2 DEF Appending, Same
    <3>4. PICK x : s = Append(k, x)
      BY <3>2
    <3>5. e = x
      BY <1>2, <3>4, HeldAppend DEF FileOK
    <3>6. file'[f].entries = kept'[f] /\ file'[f].state = "list"
      <4>1. file' = [file EXCEPT ![f] = Content("list", s)]
        BY <1>1, <3>2 DEF Content
      <4>2. file'[f] = Content("list", s)
        BY <4>1 DEF VaultInv
      <4>3. file'[f].entries = s /\ file'[f].state = "list"
        BY <4>2 DEF Content
      <4>. QED  BY <1>4, <3>4, <3>5, <4>3, Zenon
    <3>. QED  BY <2>2, <3>3, <3>6 DEF AloneOK, Whole
  <2>3. CASE g # f
    <3>1. Appending(g)' = Appending(g) /\ c \notin Appending(g)
      BY <1>1, <1>3, <2>3 DEF Appending, Same
    <3>. QED  BY <1>3, <1>4, <1>8, <2>1, <2>3, <3>1, AloneStays DEF Appending
  <2>. QED  BY <2>2, <2>3
<1>. QED  BY <1>1, <1>3, <1>4, <1>8, <1>10, <1>11, <1>12, <1>13 DEF VaultInv

LEMMA RestartStep == VaultInv /\ Restart => VaultInv'
<1>. SUFFICES ASSUME VaultInv, Restart PROVE VaultInv'
  OBVIOUS
<1>1. /\ hour' = hour /\ kept' = kept /\ base' = base
      /\ serving' = [c \in Callers |-> "idle"]
      /\ call' = [c \in Callers |-> AnyRequest]
      /\ since' = [c \in Callers |-> 0]
      /\ copy' = [c \in Callers |-> Nothing]
      /\ \/ file' = file
         \/ \E c \in Callers : /\ serving[c] = "write"
                               /\ file' = [file EXCEPT ![Target(call[c])] = Content("garbage", <<>>)]
      /\ alone' = (alone /\ \A f \in Files : Appending(f) = {})
  BY DEF Restart
<1>2. ASSUME NEW c \in Callers
      PROVE  CallOK(c)'
  <2>1. 0 <= hour /\ hour' = hour
    BY <1>1 DEF VaultInv
  <2>. QED  BY <1>1, <2>1 DEF CallOK, Busy, Nothing
<1>3. ASSUME NEW f \in Files
      PROVE  FileOK(f)' /\ DOMAIN file' = Files
  <2>1. CASE file' = file
    BY <1>1, <2>1, FileStays DEF VaultInv
  <2>2. CASE file' # file
    <3>1. PICK g : file' = [file EXCEPT ![g] = Content("garbage", <<>>)]
      BY <1>1, <2>2
    <3>2. CASE f = g
      <4>1. file'[f].state = "garbage" /\ file'[f].entries = <<>>
        BY <3>1, <3>2 DEF VaultInv, Content
      <4>2. FileOK(f) /\ kept'[f] = kept[f]
        BY <1>1 DEF VaultInv
      <4>. QED  BY <1>1, <3>1, <4>1, <4>2, HeldNothing DEF FileOK, VaultInv, Loads
    <3>3. CASE f # g
      <4>1. file'[f] = file[f]
        BY <3>1, <3>3 DEF VaultInv
      <4>. QED  BY <1>1, <3>1, <4>1, FileStays DEF VaultInv
    <3>. QED  BY <3>2, <3>3
  <2>. QED  BY <2>1, <2>2
<1>4. ASSUME alone', NEW f \in Files
      PROVE  AloneOK(f)'
  <2>1. alone /\ Appending(f) = {} /\ AloneOK(f)
    BY <1>1, <1>4 DEF VaultInv
  <2>2. file' = file
    BY <1>1, <1>4 DEF Appending, VaultInv, Target, Files
  <2>3. Whole(f)' /\ Appending(f)' = {}
    BY <1>1, <2>1, <2>2 DEF AloneOK, Whole, Appending
  <2>. QED  BY <2>3 DEF AloneOK
<1>5. DOMAIN file' = Files
  BY <1>3 DEF Files
<1>. QED  BY <1>1, <1>2, <1>3, <1>4, <1>5 DEF VaultInv

LEMMA CheckRoleStep ==
  ASSUME VaultInv, NEW c \in Callers, CheckRole(c)
  PROVE  VaultInv'
<1>. PICK r : r = call[c]
  OBVIOUS
<1>. PICK found : found = copy[c].found
  OBVIOUS
<1>. PICK roles : roles = RolesOf(r)
  OBVIOUS
<1>. PICK entries : entries = file["approvals"].entries
  OBVIOUS
<1>. PICK role : role = roles[Len(found) + 1]
  OBVIOUS
<1>. PICK valid : valid = Valid(r.context_id, role)
  OBVIOUS
<1>. PICK judged : judged = Judged(r.action, copy[c].context.data)
  OBVIOUS
<1>0. PICK after : after = IF Len(found) + 1 < Len(roles) THEN "roles"
                         ELSE CASE judged = "met" -> "allowed"
                                [] judged = "unmet" -> "refused"
                                [] judged = "raises" -> "failed"
  OBVIOUS
<1>1. /\ serving[c] = "roles"
      /\ hour' = hour /\ file' = file /\ kept' = kept /\ alone' = alone /\ call' = call /\ since' = since
      /\ base' = base
      /\ \/ serving' = [serving EXCEPT ![c] = "failed"] /\ copy' = copy
         \/ serving' = [serving EXCEPT ![c] = "refused"] /\ copy' = copy
         \/ /\ valid # {}
            /\ copy' = [copy EXCEPT ![c].found = Append(found, entries[Min(valid)])]
            /\ serving' = [serving EXCEPT ![c] = after]
  <2>1. CheckRole(c)
    OBVIOUS
  <2>. QED  BY <1>0, <2>1, Zenon DEF CheckRole, Reach
<1>2. /\ CallOK(c) /\ FoundOK(c) /\ FileOK("approvals") /\ call'[c] = call[c] /\ since'[c] = since[c]
      /\ DOMAIN serving' = Callers /\ DOMAIN call' = Callers /\ DOMAIN since' = Callers /\ DOMAIN copy' = Callers
      /\ \A d \in Callers \ {c} : Same(d)
  BY <1>1 DEF VaultInv, CallOK, Same, Files
<1>3. CASE \E place \in {"failed", "refused"} : serving' = [serving EXCEPT ![c] = place] /\ copy' = copy
  <2>1. serving'[c] \in {"failed", "refused"} /\ copy'[c] = copy[c]
    BY <1>3 DEF VaultInv
  <2>2. CallOK(c)'
    BY <1>1, <1>2, <2>1 DEF CallOK, Busy
  <2>. QED  BY <1>1, <1>2, <2>1, <2>2, OneServed
<1>4. CASE /\ valid # {}
           /\ copy' = [copy EXCEPT ![c].found = Append(found, entries[Min(valid)])]
           /\ serving' = [serving EXCEPT ![c] = after]
  <2>. PICK a : a = entries[Min(valid)]
    OBVIOUS
  <2>0. PICK more : more = Append(found, a)
    OBVIOUS
  <2>1. serving'[c] = after /\ copy'[c] = [copy[c] EXCEPT !.found = more]
    BY <1>4, <2>0, Zenon DEF VaultInv
  <2>2. judged \in {"met", "unmet", "raises"}
    BY JudgedIs
  <2>3. /\ after \in {"roles", "allowed", "refused", "failed"}
        /\ Len(found) + 1 < Len(roles) => after = "roles"
        /\ after = "roles" => Len(found) + 1 < Len(roles)
        /\ after = "allowed" => judged = "met"
    <3>1. CASE Len(found) + 1 < Len(roles)
      <4>1. after = "roles"
        BY <1>0, <3>1, Zenon
      <4>. QED  BY <3>1, <4>1
    <3>2. CASE ~(Len(found) + 1 < Len(roles))
      <4>1. /\ judged = "met" => after = "allowed"
            /\ judged = "unmet" => after = "refused"
            /\ judged = "raises" => after = "failed"
        BY <1>0, <3>2, Zenon
      <4>. QED  BY <2>2, <3>2, <4>1
    <3>. QED  BY <3>1, <3>2
  <2>4. /\ AList(found) /\ Len(found) \in Nat /\ Len(roles) \in Nat /\ Len(found) + 1 <= Len(roles)
        /\ copy[c].context.id = r.context_id
        /\ copy[c].context \in Held(kept["contexts"])
        /\ alone => FirstStored(copy[c].context, r.context_id)
        /\ \A i \in 1 .. Len(found) : Approved(c, found[i], roles[i])
    <3>1. Len(roles) \in Nat
      BY RolesAre
    <3>. QED  BY <1>1, <1>2, <3>1 DEF FoundOK, AList
  <2>5. Approved(c, a, role)
    <3>1. AList(entries) /\ Held(entries) \subseteq Held(kept["approvals"]) /\ \A x \in Held(entries) : x.expires_at \in Int
      BY <1>2 DEF FileOK, Expires
    <3>2. valid = {i \in 1 .. Len(entries) : entries[i].context_id = r.context_id /\ entries[i].role = role /\ entries[i].expires_at > hour}
      BY <3>1 DEF Valid, AList
    <3>3. Min(valid) \in valid
      <4>1. valid \subseteq Nat
        BY <3>1, <3>2 DEF AList
      <4>. QED  BY <1>4, <4>1, MinIn
    <3>4. a \in Held(entries) /\ a.context_id = r.context_id /\ a.role = role /\ a.expires_at > hour
      BY <3>2, <3>3 DEF Held
    <3>5. a.expires_at > since[c]
      BY <1>2, <3>1, <3>4 DEF CallOK, VaultInv
    <3>. QED  BY <3>1, <3>4, <3>5 DEF Approved
  <2>6. /\ AList(more) /\ Len(more) = Len(found) + 1 /\ more[Len(found) + 1] = a
        /\ \A i \in 1 .. Len(found) : more[i] = found[i]
    BY <2>0, <2>4, HeldAppend
  <2>7. \A i \in 1 .. Len(more) : Approved(c, more[i], roles[i])
    <3>1. \A i \in 1 .. Len(more) : i = Len(found) + 1 \/ i \in 1 .. Len(found)
      BY <2>4, <2>6
    <3>. QED  BY <2>4, <2>5, <2>6, <3>1
  <2>8. /\ copy'[c] = [entries |-> copy[c].entries, context |-> copy[c].context, found |-> more]
        /\ copy'[c].found = more /\ copy'[c].context = copy[c].context
    BY <1>2, <2>1 DEF CallOK
  <2>9. FoundOK(c)'
    <3>1. \A x, y : Approved(c, x, y)' <=> Approved(c, x, y)
      BY <1>1 DEF Approved
    <3>0. Len(more) = Len(found) + 1
      BY <2>6
    <3>2. after = "roles" => Len(more) < Len(roles)
      BY <2>3, <3>0
    <3>3. after = "allowed" => Len(more) = Len(roles) /\ judged = "met"
      <4>1. Len(found) \in Nat /\ Len(roles) \in Nat /\ Len(found) + 1 <= Len(roles)
        BY <2>4
      <4>2. ASSUME after = "allowed"
            PROVE  ~(Len(found) + 1 < Len(roles)) /\ judged = "met"
        BY <2>3, <4>2
      <4>. QED  BY <3>0, <4>1, <4>2
    <3>4. Len(more) <= Len(roles)
      BY <2>4, <3>0
    <3>5. RolesOf(call'[c]) = roles /\ call'[c] = r
      BY <1>2
    <3>6. kept' = kept /\ alone' = alone
      BY <1>1
    <3>7. alone' => FirstStored(copy[c].context, call[c].context_id)'
      BY <2>4, <2>8, <3>5, <3>6, Zenon DEF FirstStored
    <3>. QED  BY <2>1, <2>4, <2>6, <2>7, <2>8, <3>1, <3>2, <3>3, <3>4, <3>5, <3>6, <3>7 DEF FoundOK
  <2>10. CallOK(c)'
    BY <1>1, <1>2, <2>1, <2>3, <2>8, <2>9 DEF CallOK, Busy
  <2>. QED  BY <1>1, <1>2, <2>1, <2>3, <2>10, OneServed
<1>. QED  BY <1>1, <1>3, <1>4

(* The inductive invariant of the vault.                                   *)
THEOREM VaultInvAlways == VaultSpec => []VaultInv
<1>1. VaultInv /\ [VaultNext]_vaultVars => VaultInv'
  <2>. SUFFICES ASSUME VaultInv, [VaultNext]_vaultVars PROVE VaultInv'
    OBVIOUS
  <2>1. CASE HourPasses
    BY <2>1, HourStep
  <2>2. CASE Restart
    BY <2>2, RestartStep
  <2>3. ASSUME NEW c \in Callers,
               \/ \E request \in Requests : Arrive(c, request)
               \/ ReadToAppend(c) \/ Truncate(c) \/ Write(c)
               \/ Lookup(c) \/ CheckRole(c) \/ Depart(c)
        PROVE  VaultInv'
    BY <2>3, ArriveStep, ReadToAppendStep, TruncateStep, WriteStep, LookupStep, CheckRoleStep, DepartStep
  <2>4. CASE UNCHANGED vaultVars
    <3>1. /\ hour' = hour /\ file' = file /\ serving' = serving /\ call' = call /\ since' = since
          /\ copy' = copy /\ kept' = kept /\ alone' = alone /\ base' = base
      BY <2>4 DEF vaultVars
    <3>2. \A f \in Files : FileOK(f)'
      BY <3>1, FileStays DEF VaultInv
    <3>3. ASSUME alone', NEW f \in Files
          PROVE  AloneOK(f)'
      <4>1. AloneOK(f) /\ Appending(f)' = Appending(f) /\ \A c \in Appending(f) : Same(c)
        BY <3>1, <3>3 DEF VaultInv, Appending, Same
      <4>. QED  BY <3>1, <4>1, AloneStays
    <3>4. \A c \in Callers : CallOK(c)'
      <4>1. /\ hour' \in Int /\ hour <= hour' /\ KeptGrows /\ AList(kept'["contexts"])
            /\ \A d \in Callers : Same(d)
        BY <3>1, KeptSame DEF VaultInv, Same
      <4>. QED  BY <3>1, <4>1, CallStays
    <3>. QED  BY <3>1, <3>2, <3>3, <3>4 DEF VaultInv
  <2>. QED  BY <2>1, <2>2, <2>3, <2>4 DEF VaultNext
<1>. QED  BY <1>1, VaultStarts, PTL DEF VaultSpec

(* What evaluate allows has met all that the first policy asks.            *)
LEMMA JudgedFits ==
  ASSUME NEW action, NEW data, Judged(action, data) = "met"
  PROVE  FitsPolicy(action, data)
<1>. DEFINE mine == {i \in DOMAIN ActionRules : ActionRules[i].action = action}
<1>1. mine # {} /\ mine \subseteq Nat
  BY VaultAssumption DEF Judged
<1>2. Min(mine) \in mine /\ \A j \in mine : Min(mine) <= j
  <2>. HIDE DEF mine
  <2>. QED  BY <1>1, NatLeast DEF Min
<1>3. PICK m : m = Min(mine)
  OBVIOUS
<1>. DEFINE conditions == ActionRules[m].allowed_if
            stop == {i \in DOMAIN conditions : Outcome(conditions[i], data) # "met"}
<1>4. m \in DOMAIN ActionRules /\ ActionRules[m].action = action
      /\ \A j \in DOMAIN ActionRules : ActionRules[j].action = action => m <= j
  BY <1>2, <1>3
<1>5. stop = {} \/ Outcome(conditions[Min(stop)], data) = "met"
  BY <1>1, <1>3 DEF Judged
<1>6. stop = {}
  <2>1. stop \subseteq Nat
    BY <1>4, VaultAssumption
  <2>2. stop # {} => Min(stop) \in stop
    <3>. HIDE DEF stop
    <3>. QED  BY <2>1, MinIn
  <2>3. Min(stop) \in stop => Outcome(conditions[Min(stop)], data) # "met"
    OBVIOUS
  <2>. QED  BY <1>5, <2>2, <2>3
<1>7. ASSUME NEW condition, Outcome(condition, data) = "met"
      PROVE  Meets(condition, data)
  <2>. PICK actual : actual = IF condition.field \in DOMAIN data THEN data[condition.field]
                              ELSE [kind |-> "none", v |-> NoId]
    OBVIOUS
  <2>1. /\ condition.op = "is" \/ actual.kind \in {"number", "numeral", "code"}
        /\ \/ condition.op = "is" /\ condition.field \in DOMAIN data /\ actual = condition.value
           \/ condition.op # "is" /\ actual.kind = "code" /\ actual.v = 1
           \/ /\ actual.kind \in {"number", "numeral"}
              /\ \/ condition.op = ">" /\ actual.v > condition.value.v
                 \/ condition.op = "<" /\ actual.v < condition.value.v
    BY <1>7, Zenon DEF Outcome
  <2>2. condition.field \in DOMAIN data /\ actual = data[condition.field]
    BY <2>1
  <2>. QED  BY <2>1, <2>2, Zenon DEF Meets
<1>8. \A condition \in Range(conditions) : Meets(condition, data)
  <2>1. \A i \in DOMAIN conditions : Outcome(conditions[i], data) = "met"
    BY <1>6
  <2>. QED  BY <1>7, <2>1 DEF Range
<1>. QED  BY <1>4, <1>8 DEF FitsPolicy

LEMMA Backed == VaultInv => AuthorizationBacked
<1>. SUFFICES ASSUME VaultInv, NEW c \in Callers, serving[c] = "allowed"
              PROVE  /\ FitsPolicy(call[c].action, copy[c].context.data)
                     /\ copy[c].context.id = call[c].context_id
                     /\ copy[c].context \in Range(kept["contexts"])
                     /\ alone => FirstStored(copy[c].context, call[c].context_id)
                     /\ \A role \in Range(REGIONS(call[c].region)) \cup KEYS :
                          \E a \in Range(kept["approvals"]) :
                            a.context_id = call[c].context_id /\ a.role = role /\ a.expires_at > since[c]
  BY DEF AuthorizationBacked
<1>1. FoundOK(c)
  BY DEF VaultInv, CallOK
<1>2. \A f \in Files : Held(kept[f]) \subseteq Range(kept[f])
  BY DEF VaultInv, Files, FileOK, AList, Held, Range
<1>3. ASSUME NEW role \in Range(REGIONS(call[c].region)) \cup KEYS
      PROVE  \E a \in Range(kept["approvals"]) :
               a.context_id = call[c].context_id /\ a.role = role /\ a.expires_at > since[c]
  <2>1. PICK i \in 1 .. Len(RolesOf(call[c])) : RolesOf(call[c])[i] = role
    BY RolesAre
  <2>2. Approved(c, copy[c].found[i], role)
    BY <1>1, <2>1 DEF FoundOK
  <2>. QED  BY <1>2, <2>2 DEF Approved, Files
<1>4. FitsPolicy(call[c].action, copy[c].context.data)
  BY <1>1, JudgedFits DEF FoundOK
<1>. QED  BY <1>1, <1>2, <1>3, <1>4 DEF FoundOK, Files

LEMMA Lossless == VaultInv => NothingLost
<1>1. ASSUME VaultInv, alone, NEW f \in Files, Appending(f) = {}
      PROVE  file[f].entries = kept[f] /\ Loads(f)
  <2>1. AloneOK(f)
    BY <1>1 DEF VaultInv
  <2>. QED  BY <1>1, <2>1 DEF AloneOK, Whole, Loads
<1>2. ASSUME VaultInv, NEW f \in Files, Loads(f), NEW i \in DOMAIN base[f]
      PROVE  i \in DOMAIN file[f].entries /\ file[f].entries[i] = base[f][i]
  <2>1. Begins(base[f], file[f].entries) /\ AList(base[f]) /\ AList(file[f].entries)
    BY <1>2 DEF VaultInv, FileOK
  <2>2. /\ DOMAIN base[f] = 1 .. Len(base[f]) /\ DOMAIN file[f].entries = 1 .. Len(file[f].entries)
        /\ Len(base[f]) \in Nat /\ Len(file[f].entries) \in Nat
    BY <2>1 DEF AList
  <2>. QED  BY <1>2, <2>1, <2>2 DEF Begins
<1>. QED  BY <1>1, <1>2 DEF NothingLost

(* Whatever the requests, the callers and the crashes: an action is        *)
(* allowed only when every role it needs has approved its context and what *)
(* was stored meets the policy, by numbers or by texts that Python takes   *)
(* for true; and a file loses only what overlapping requests append.       *)
THEOREM VaultSoundAlways == VaultSpec => []VaultSound
<1>1. VaultInv => VaultSound
  BY Backed, Lossless DEF VaultSound
<1>. QED  BY <1>1, VaultInvAlways, PTL

-----------------------------------------------------------------------------
(* The runtime of workflows.                                               *)

IsRun(r) == r = [worker |-> r.worker, agent |-> r.agent, status |-> r.status, context |-> r.context]

PlacesOf(files, w) == {i \in 1 .. Len(files) : files[i].worker = w}

RunsIn(files, w) == Picked(files, PlacesOf(files, w))

(* The runs of a process, the results that it holds, and its pipeline.     *)
Explained(mine, held, p) ==
  /\ AList(mine) /\ AList(held) /\ Len(held) \in {Len(mine), Len(mine) - 1}
  /\ \A i \in 1 .. Len(mine) :
       /\ mine[i].context = {mine[j].agent : j \in 1 .. i - 1}
       /\ p.kind = "dag" => p.deps[mine[i].agent] \subseteq mine[i].context
       /\ p.kind = "dag" => mine[i].agent \notin mine[i].context
       /\ p.kind = "steps" => mine[i].agent = p.agents[i]
  /\ \A i \in 1 .. Len(held) : held[i] = mine[i].agent /\ mine[i].status = "completed"

(* What this turn of the loop has passed over could not run, as long as it *)
(* has run none.                                                           *)
Passed(w, agent) == agent \in Completed(w) \/ ~Ready(w, agent)

Left(w) == Range(pipeline[w].agents) \ Completed(w)

WorkerOK(w) ==
  LET p == pipeline[w]
      begun == Len(RunsIn(runFiles, w))
      held == Len(results[w])
      active == stage[w] \in {"looping"} \cup AtWork
  IN  /\ p \in Pipelines /\ next[w] \in Nat /\ next[w] > 0
      /\ stage[w] \in {"looping", "dead", "done", "spinning"} \cup AtWork
      /\ Explained(RunsIn(runFiles, w), results[w], p)
      /\ stage[w] \in {"looping", "done", "spinning"} => held = begun
      /\ stage[w] \in AtWork => /\ begun = held + 1 /\ next[w] <= Len(p.agents)
                              /\ RunsIn(runFiles, w)[begun].agent = p.agents[next[w]]
      /\ stage[w] = "completed" => RunsIn(runFiles, w)[begun].status = "completed"
      /\ active /\ p.kind = "steps" => next[w] = held + 1
      /\ active /\ p.kind = "dag" /\ ~ran[w] => \A i \in 1 .. next[w] - 1 : Passed(w, p.agents[i])
      /\ stage[w] = "spinning" => Left(w) # {} /\ \A agent \in Left(w) : ~Ready(w, agent)
      /\ stage[w] = "done" => Left(w) = {}

RuntimeInv ==
  /\ AList(runFiles) /\ \A i \in 1 .. Len(runFiles) : IsRun(runFiles[i])
  /\ DOMAIN pipeline = Workers /\ DOMAIN stage = Workers /\ DOMAIN next = Workers
  /\ DOMAIN ran = Workers /\ DOMAIN results = Workers
  /\ \A w \in Workers : WorkerOK(w)

LEMMA RunsAre == \A w : RunsOf(w) = RunsIn(runFiles, w)
  BY DEF RunsOf, RunsIn, PlacesOf

LEMMA RunsInIs ==
  ASSUME NEW files, AList(files), NEW w
  PROVE  LET mine == RunsIn(files, w) IN
         /\ AList(mine) /\ Len(mine) \in Nat /\ mine = [k \in 1 .. Len(mine) |-> mine[k]]
         /\ \E at : PickOf(mine, at, files, PlacesOf(files, w))
<1>. PICK S : files \in Seq(S)
  BY DEF AList
<1>. DEFINE keep == PlacesOf(files, w)
<1>. PICK mine : mine = RunsIn(files, w)
  OBVIOUS
<1>1. mine = Picked(files, keep)
  BY DEF RunsIn
<1>. HIDE DEF keep
<1>2. mine \in Seq(S) /\ \E at : PickOf(mine, at, files, keep)
  BY <1>1, PickedPlaces
<1>3. Len(mine) \in Nat /\ mine = [k \in 1 .. Len(mine) |-> mine[k]]
  <2>1. mine \in Seq(S)
    BY <1>2
  <2>. QED  BY <2>1
<1>. QED  BY <1>2, <1>3 DEF AList, keep

(* A run more.                                                             *)
LEMMA RunBegins ==
  ASSUME NEW files, AList(files), NEW r, NEW w
  PROVE  RunsIn(Append(files, r), w) = IF r.worker = w THEN Append(RunsIn(files, w), r) ELSE RunsIn(files, w)
<1>. PICK S : files \in Seq(S)
  BY DEF AList
<1>0. PICK t : t = Append(files, r)
  OBVIOUS
<1>. DEFINE U == S \cup {r}
            keep == PlacesOf(files, w)
            more == PlacesOf(t, w)
<1>1. files \in Seq(U) /\ r \in U
  OBVIOUS
<1>. HIDE DEF U
<1>2. t \in Seq(U) /\ Len(t) = Len(files) + 1 /\ Len(files) \in Nat
  BY <1>0, <1>1
<1>3. t[Len(t)] = r /\ \A i \in 1 .. Len(files) : t[i] = files[i]
  BY <1>0, <1>1, <1>2
<1>4. Len(t) \in more <=> r.worker = w
  BY <1>2, <1>3 DEF PlacesOf
<1>5. \A i \in 1 .. Len(files) : t[i] = files[i] /\ (i \in keep <=> i \in more)
  BY <1>2, <1>3 DEF PlacesOf
<1>. HIDE DEF keep, more
<1>6. Picked(t, more) = IF Len(t) \in more THEN Append(Picked(files, keep), t[Len(t)]) ELSE Picked(files, keep)
  BY <1>1, <1>2, <1>5, PickedLonger
<1>7. RunsIn(t, w) = Picked(t, more) /\ RunsIn(files, w) = Picked(files, keep)
  BY Zenon DEF RunsIn, keep, more
<1>. QED  BY <1>0, <1>3, <1>4, <1>6, <1>7, Zenon

(* The file of a run is written: c is its place among the files.           *)
Filed(files, t, c, status) ==
  /\ AList(files) /\ c \in 1 .. Len(files) /\ (\A i \in 1 .. Len(files) : IsRun(files[i]))
  /\ t = [files EXCEPT ![c].status = status]

Over(r, status) == [r EXCEPT !.status = status]

LEMMA RunEnds ==
  ASSUME NEW files, NEW t, NEW c, NEW status, Filed(files, t, c, status)
  PROVE  /\ AList(t) /\ Len(t) = Len(files) /\ Len(t) \in Nat
         /\ t[c] = Over(files[c], status)
         /\ \A i \in 1 .. Len(files) : i # c => t[i] = files[i]
         /\ \A i \in 1 .. Len(t) : IsRun(t[i])
         /\ \A v : PlacesOf(t, v) = PlacesOf(files, v)
<1>. PICK S : files \in Seq(S)
  BY DEF AList, Filed
<1>. PICK m : m = Len(files)
  OBVIOUS
<1>0. PICK done : done = [files[c] EXCEPT !.status = status]
  OBVIOUS
<1>. DEFINE U == S \cup {done}
<1>1. files \in Seq(U) /\ done \in U /\ m \in Nat
  OBVIOUS
<1>. HIDE DEF U
<1>2. files \in [1 .. m -> U]
  BY <1>1
<1>3. /\ t \in [1 .. m -> U]
      /\ t[c] = done /\ \A i \in 1 .. m : i # c => t[i] = files[i]
  BY <1>0, <1>1, <1>2 DEF Filed
<1>4. t \in Seq(U) /\ Len(t) = m
  BY <1>1, <1>3
<1>5. done.worker = files[c].worker /\ IsRun(done)
  <2>1. IsRun(files[c])
    BY DEF Filed
  <2>. QED  BY <1>0, <2>1 DEF IsRun
<1>6. \A i \in 1 .. Len(t) : IsRun(t[i])
  BY <1>3, <1>4, <1>5 DEF Filed
<1>7. \A v : PlacesOf(t, v) = PlacesOf(files, v)
  BY <1>3, <1>4, <1>5 DEF PlacesOf
<1>. QED  BY <1>0, <1>1, <1>3, <1>4, <1>6, <1>7 DEF AList, Over

LEMMA RunEndsElsewhere ==
  ASSUME NEW files, NEW t, NEW c, NEW status, Filed(files, t, c, status), NEW v, files[c].worker # v
  PROVE  RunsIn(t, v) = RunsIn(files, v)
<1>. PICK mine : mine = RunsIn(files, v)
  OBVIOUS
<1>. PICK keep : keep = PlacesOf(files, v)
  OBVIOUS
<1>1. AList(t) /\ Len(t) = Len(files) /\ PlacesOf(t, v) = keep /\ \A i \in 1 .. Len(files) : i # c => t[i] = files[i]
  BY RunEnds
<1>2. mine = [k \in 1 .. Len(mine) |-> mine[k]] /\ \E at : PickOf(mine, at, files, keep)
  BY RunsInIs DEF Filed
<1>3. PICK at : PickOf(mine, at, files, keep)
  BY <1>2
<1>4. c \notin keep
  BY DEF PlacesOf
<1>5. PickOf(mine, at, t, keep)
  BY <1>1, <1>3, <1>4 DEF PickOf
<1>6. Picked(t, keep) = mine
  BY <1>1, <1>2, <1>5, PickedIs DEF AList
<1>. QED  BY <1>1, <1>6 DEF RunsIn

(* It is the last one of its process.                                      *)
LEMMA RunEndsHere ==
  ASSUME NEW files, NEW t, NEW c, NEW status, Filed(files, t, c, status), NEW mine, mine = RunsIn(files, files[c].worker),
         NEW n, n = Len(mine), n > 0,
         \A j \in 1 .. Len(files) : files[j].worker = files[c].worker => j <= c
  PROVE  RunsIn(t, files[c].worker) = [mine EXCEPT ![n].status = status]
<1>. PICK v : v = files[c].worker
  OBVIOUS
<1>. PICK keep : keep = PlacesOf(files, v)
  OBVIOUS
<1>1. /\ AList(t) /\ Len(t) = Len(files) /\ Len(t) \in Nat /\ PlacesOf(t, v) = keep
      /\ t[c] = Over(files[c], status) /\ \A i \in 1 .. Len(files) : i # c => t[i] = files[i]
  <2>1. /\ AList(t) /\ Len(t) = Len(files) /\ Len(t) \in Nat
        /\ t[c] = Over(files[c], status)
        /\ \A i \in 1 .. Len(files) : i # c => t[i] = files[i]
        /\ \A u : PlacesOf(t, u) = PlacesOf(files, u)
    BY RunEnds
  <2>. QED  BY <2>1
<1>2. AList(mine) /\ n \in Nat /\ n \in 1 .. n /\ \E at : PickOf(mine, at, files, keep)
  <2>1. AList(mine) /\ n \in Nat /\ \E at : PickOf(mine, at, files, keep)
    BY RunsInIs DEF Filed
  <2>. QED  BY <2>1
<1>3. PICK at : PickOf(mine, at, files, keep)
  BY <1>2
<1>4. at[n] = c /\ mine[n] = files[c]
  <2>1. c \in keep /\ c \in 1 .. Len(files)
    BY DEF PlacesOf, Filed
  <2>2. PICK k \in 1 .. n : at[k] = c
    BY <1>3, <2>1 DEF PickOf
  <2>3. mine[k] = files[c]
    BY <1>3, <2>2 DEF PickOf
  <2>4. at[n] <= c /\ at[n] \in Int /\ c \in Int
    <3>1. at[n] \in keep /\ at[n] \in 1 .. Len(files)
      BY <1>2, <1>3 DEF PickOf
    <3>2. files[at[n]].worker = files[c].worker
      BY <3>1 DEF PlacesOf
    <3>. QED  BY <2>1, <3>1, <3>2
  <2>5. ~(k < n)
    BY <1>2, <1>3, <2>2, <2>4 DEF PickOf
  <2>6. k = n
    BY <1>2, <2>5
  <2>. QED  BY <2>2, <2>3, <2>6
<1>5. PICK p : p = [mine EXCEPT ![n].status = status]
  OBVIOUS
<1>6. /\ AList(p) /\ p = [k \in 1 .. n |-> p[k]] /\ p[n] = t[c] /\ \A k \in 1 .. n : k # n => p[k] = mine[k]
      /\ Len(p) = n
  <2>1. PICK W : mine \in Seq(W)
    BY <1>2 DEF AList
  <2>2. mine \in [1 .. n -> W \cup {t[c]}]
    BY <2>1
  <2>3. p \in [1 .. n -> W \cup {t[c]}] /\ p[n] = t[c] /\ \A k \in 1 .. n : k # n => p[k] = mine[k]
    BY <1>1, <1>2, <1>4, <1>5, <2>2 DEF Over
  <2>4. p \in Seq(W \cup {t[c]}) /\ Len(p) = n
    <3>1. n \in Nat
      BY <1>2
    <3>. QED  BY <2>3, <3>1
  <2>. QED  BY <2>3, <2>4 DEF AList
<1>7. \A k \in 1 .. n : k # n => at[k] # c
  BY <1>2, <1>3, <1>4 DEF PickOf
<1>8. PickOf(p, at, t, keep)
  <2>1. \A k \in 1 .. n : at[k] \in keep /\ at[k] \in 1 .. Len(files) /\ mine[k] = files[at[k]]
    BY <1>3 DEF PickOf
  <2>2. \A k \in 1 .. n : p[k] = t[at[k]]
    BY <1>1, <1>4, <1>6, <1>7, <2>1
  <2>3. \A i \in 1 .. Len(files) : i \in keep => \E k \in 1 .. n : at[k] = i
    BY <1>3 DEF PickOf
  <2>4. \A k \in 1 .. n : \A l \in 1 .. n : k < l => at[k] < at[l]
    BY <1>3 DEF PickOf
  <2>. QED  BY <1>1, <1>2, <1>6, <2>1, <2>2, <2>3, <2>4 DEF PickOf
<1>9. Picked(t, keep) = p
  <2>1. p = [k \in 1 .. Len(p) |-> p[k]]
    BY <1>6
  <2>. QED  BY <1>1, <1>8, <2>1, PickedIs DEF AList
<1>. QED  BY <1>1, <1>5, <1>9 DEF RunsIn

(* What a process has, as long as nothing of it changes.                   *)
LEMMA OthersStay ==
  ASSUME NEW v, WorkerOK(v), RunsIn(runFiles', v) = RunsIn(runFiles, v),
         pipeline'[v] = pipeline[v], stage'[v] = stage[v], next'[v] = next[v],
         ran'[v] = ran[v], results'[v] = results[v]
  PROVE  WorkerOK(v)'
BY DEF WorkerOK, Passed, Left, Completed, Ready

LEMMA NoRuns == \A w : RunsIn(<<>>, w) = <<>>
<1>. SUFFICES ASSUME NEW w PROVE RunsIn(<<>>, w) = <<>>
  OBVIOUS
<1>1. PICK files : files = <<>>
  OBVIOUS
<1>. PICK mine : mine = RunsIn(files, w)
  OBVIOUS
<1>2. AList(files) /\ Len(files) = 0
  BY <1>1, HeldNothing
<1>3. /\ Len(mine) \in Nat /\ mine = [k \in 1 .. Len(mine) |-> mine[k]]
      /\ \E at : PickOf(mine, at, files, PlacesOf(files, w))
  BY <1>2, RunsInIs
<1>4. Len(mine) = 0
  BY <1>2, <1>3 DEF PickOf
<1>. QED  BY <1>1, <1>3, <1>4

LEMMA RuntimeStarts == RuntimeInit => RuntimeInv
<1>. SUFFICES ASSUME RuntimeInit PROVE RuntimeInv
  OBVIOUS
<1>1. runFiles = <<>> /\ AList(runFiles) /\ Len(runFiles) = 0
  BY HeldNothing DEF RuntimeInit
<1>2. ASSUME NEW w \in Workers
      PROVE  WorkerOK(w)
  <2>1. /\ RunsIn(runFiles, w) = <<>> /\ results[w] = <<>> /\ Len(<<>>) = 0 /\ AList(<<>>)
        /\ pipeline[w] \in Pipelines /\ stage[w] = "looping" /\ next[w] = 1
    BY <1>1, NoRuns, HeldNothing DEF RuntimeInit
  <2>2. Explained(<<>>, <<>>, pipeline[w])
    BY <2>1 DEF Explained
  <2>. QED  BY <2>1, <2>2 DEF WorkerOK, AtWork
<1>. QED  BY <1>1, <1>2 DEF RuntimeInit, RuntimeInv

(* A step that files nothing.                                              *)
LEMMA OneWorks ==
  ASSUME RuntimeInv, NEW w \in Workers, WorkerOK(w)', runFiles' = runFiles, pipeline' = pipeline, results' = results,
         DOMAIN stage' = Workers, DOMAIN next' = Workers, DOMAIN ran' = Workers,
         \A v \in Workers \ {w} : stage'[v] = stage[v] /\ next'[v] = next[v] /\ ran'[v] = ran[v]
  PROVE  RuntimeInv'
<1>1. \A v \in Workers \ {w} : WorkerOK(v)'
  BY OthersStay DEF RuntimeInv
<1>. QED  BY <1>1 DEF RuntimeInv

(* The agents of a pipeline, and those that are completed.                 *)
LEMMA AgentsAre ==
  ASSUME NEW w, pipeline[w] \in Pipelines, AList(results[w])
  PROVE  /\ pipeline[w].kind \in {"dag", "steps"} /\ Len(pipeline[w].agents) \in Nat
         /\ Range(pipeline[w].agents) = Held(pipeline[w].agents)
         /\ Completed(w) = Held(results[w])
<1>1. pipeline[w].kind \in {"dag", "steps"} /\ pipeline[w].agents \in Seq(Range(pipeline[w].agents))
  BY RuntimeAssumption
<1>. PICK s : s = pipeline[w].agents
  OBVIOUS
<1>2. DOMAIN s = 1 .. Len(s) /\ Len(s) \in Nat
  BY <1>1
<1>3. DOMAIN results[w] = 1 .. Len(results[w])
  BY DEF AList
<1>. QED  BY <1>1, <1>2, <1>3 DEF Range, Held, Completed

LEMMA PassOverStep ==
  ASSUME RuntimeInv, NEW w \in Workers, PassOver(w)
  PROVE  RuntimeInv'
<1>. PICK p : p = pipeline[w]
  OBVIOUS
<1>1. /\ stage[w] = "looping" /\ next[w] <= Len(p.agents) /\ p.kind = "dag"
      /\ Passed(w, p.agents[next[w]])
      /\ next' = [next EXCEPT ![w] = @ + 1]
      /\ pipeline' = pipeline /\ stage' = stage /\ ran' = ran /\ results' = results /\ runFiles' = runFiles
  BY DEF PassOver, InLoop, Passed
<1>2. WorkerOK(w) /\ DOMAIN next = Workers
  BY DEF RuntimeInv
<1>3. /\ DOMAIN next' = Workers /\ next'[w] = next[w] + 1 /\ next[w] \in Nat /\ next[w] > 0
      /\ \A v \in Workers \ {w} : next'[v] = next[v]
  BY <1>1, <1>2 DEF WorkerOK
<1>4. \A agent : Passed(w, agent)' <=> Passed(w, agent)
  BY <1>1 DEF Passed, Completed, Ready
<1>5. ~ran[w] => \A i \in 1 .. next'[w] - 1 : Passed(w, p.agents[i])
  <2>1. \A i \in 1 .. next'[w] - 1 : i = next[w] \/ i \in 1 .. next[w] - 1
    BY <1>3
  <2>. QED  BY <1>1, <1>2, <2>1 DEF WorkerOK
<1>6. WorkerOK(w)'
  BY <1>1, <1>2, <1>3, <1>4, <1>5 DEF WorkerOK
<1>. QED  BY <1>1, <1>3, <1>6, OneWorks DEF RuntimeInv

LEMMA AbortStep ==
  ASSUME RuntimeInv, NEW w \in Workers, Abort(w)
  PROVE  RuntimeInv'
<1>1. /\ stage' = [stage EXCEPT ![w] = "dead"]
      /\ pipeline' = pipeline /\ next' = next /\ ran' = ran /\ results' = results /\ runFiles' = runFiles
  BY DEF Abort
<1>2. WorkerOK(w) /\ DOMAIN stage = Workers
  BY DEF RuntimeInv
<1>3. DOMAIN stage' = Workers /\ stage'[w] = "dead" /\ \A v \in Workers \ {w} : stage'[v] = stage[v]
  BY <1>1, <1>2
<1>4. WorkerOK(w)'
  BY <1>1, <1>2, <1>3 DEF WorkerOK, AtWork
<1>. QED  BY <1>1, <1>3, <1>4, OneWorks DEF RuntimeInv

LEMMA EndOfLoopStep ==
  ASSUME RuntimeInv, NEW w \in Workers, EndOfLoop(w)
  PROVE  RuntimeInv'
<1>. PICK p : p = pipeline[w]
  OBVIOUS
<1>. PICK place : place = IF p.kind = "steps" \/ Left(w) = {} THEN "done"
                          ELSE IF ran[w] THEN "looping" ELSE "spinning"
  OBVIOUS
<1>1. /\ stage[w] = "looping" /\ next[w] > Len(p.agents)
      /\ stage' = [stage EXCEPT ![w] = place]
      /\ next' = [next EXCEPT ![w] = 1] /\ ran' = [ran EXCEPT ![w] = FALSE]
      /\ pipeline' = pipeline /\ results' = results /\ runFiles' = runFiles
  BY DEF EndOfLoop, Left
<1>2. WorkerOK(w) /\ DOMAIN stage = Workers /\ DOMAIN next = Workers /\ DOMAIN ran = Workers
  BY DEF RuntimeInv
<1>3. /\ DOMAIN stage' = Workers /\ DOMAIN next' = Workers /\ DOMAIN ran' = Workers
      /\ stage'[w] = place /\ next'[w] = 1
      /\ \A v \in Workers \ {w} : stage'[v] = stage[v] /\ next'[v] = next[v] /\ ran'[v] = ran[v]
  BY <1>1, <1>2
<1>4. /\ p.kind \in {"dag", "steps"} /\ Len(p.agents) \in Nat
      /\ Range(p.agents) = Held(p.agents) /\ Completed(w) = Held(results[w])
  BY <1>2, AgentsAre DEF WorkerOK, Explained
<1>5. p.kind = "steps" => Left(w) = {}
  <2>. SUFFICES ASSUME p.kind = "steps", NEW i \in 1 .. Len(p.agents)
                PROVE  p.agents[i] \in Held(results[w])
    BY <1>4 DEF Left, Held
  <2>. PICK mine : mine = RunsIn(runFiles, w)
    OBVIOUS
  <2>. PICK held : held = results[w]
    OBVIOUS
  <2>1. next[w] = Len(held) + 1 /\ Explained(mine, held, p) /\ Len(held) = Len(mine)
    BY <1>1, <1>2 DEF WorkerOK
  <2>2. Len(mine) \in Nat
    BY <2>1 DEF Explained, AList
  <2>3. i \in 1 .. Len(held) /\ i \in 1 .. Len(mine)
    BY <1>1, <1>4, <2>1, <2>2
  <2>4. held[i] = p.agents[i]
    BY <2>1, <2>3 DEF Explained
  <2>. QED  BY <2>3, <2>4 DEF Held
<1>6. place = "spinning" => Left(w) # {} /\ \A agent \in Left(w) : ~Ready(w, agent)
  <2>. SUFFICES ASSUME p.kind # "steps", Left(w) # {}, ~ran[w], NEW agent \in Left(w)
                PROVE  ~Ready(w, agent)
    BY <1>5
  <2>1. p.kind = "dag" /\ \A i \in 1 .. next[w] - 1 : Passed(w, p.agents[i])
    BY <1>1, <1>2, <1>4 DEF WorkerOK
  <2>2. PICK i \in 1 .. Len(p.agents) : agent = p.agents[i]
    BY <1>4 DEF Left, Held
  <2>3. i \in 1 .. next[w] - 1
    BY <1>1, <1>2, <1>4 DEF WorkerOK
  <2>. QED  BY <2>1, <2>2, <2>3 DEF Passed, Left
<1>7. place = "done" => Left(w) = {}
  BY <1>5
<1>8. place = "looping" => p.kind = "dag"
  BY <1>4
<1>9. place \in {"looping", "spinning", "done"}
  OBVIOUS
<1>10. /\ Left(w)' = Left(w) /\ \A agent : Ready(w, agent)' <=> Ready(w, agent)
       /\ RunsIn(runFiles, w)' = RunsIn(runFiles, w)
  BY <1>1 DEF Left, Ready, Completed
<1>11. WorkerOK(w)'
  BY <1>1, <1>2, <1>3, <1>6, <1>7, <1>8, <1>9, <1>10 DEF WorkerOK, AtWork
<1>. QED  BY <1>1, <1>3, <1>11, OneWorks DEF RuntimeInv

(* The agent that a process runs next: it is explained by the results.     *)
LEMMA CreateRunStep ==
  ASSUME RuntimeInv, NEW w \in Workers, CreateRun(w)
  PROVE  RuntimeInv'
<1>. PICK p : p = pipeline[w]
  OBVIOUS
<1>. PICK agent : agent = p.agents[next[w]]
  OBVIOUS
<1>0. PICK r : r = [worker |-> w, agent |-> agent, status |-> "torn", context |-> Completed(w)]
  OBVIOUS
<1>1. /\ stage[w] = "looping" /\ next[w] <= Len(p.agents)
      /\ p.kind = "dag" => agent \notin Completed(w) /\ Ready(w, agent)
      /\ runFiles' = Append(runFiles, r)
      /\ stage' = [stage EXCEPT ![w] = "creating"]
      /\ pipeline' = pipeline /\ next' = next /\ ran' = ran /\ results' = results
  BY <1>0 DEF CreateRun, InLoop
<1>2. WorkerOK(w) /\ DOMAIN stage = Workers /\ AList(runFiles) /\ p \in Pipelines
  BY DEF RuntimeInv, WorkerOK
<1>3. /\ DOMAIN stage' = Workers /\ stage'[w] = "creating"
      /\ \A v \in Workers \ {w} : stage'[v] = stage[v]
  BY <1>1, <1>2
<1>4. r.worker = w /\ r.agent = agent /\ r.context = Completed(w) /\ IsRun(r)
  BY <1>0 DEF IsRun
<1>5. AList(runFiles') /\ \A i \in 1 .. Len(runFiles') : IsRun(runFiles'[i])
  <2>. PICK t : t = runFiles'
    OBVIOUS
  <2>1. /\ AList(t) /\ Len(t) = Len(runFiles) + 1 /\ Len(runFiles) \in Nat /\ t[Len(t)] = r
        /\ \A i \in 1 .. Len(runFiles) : t[i] = runFiles[i]
    BY <1>1, <1>2, HeldAppend
  <2>2. \A i \in 1 .. Len(t) : i = Len(t) \/ i \in 1 .. Len(runFiles)
    BY <2>1
  <2>. QED  BY <1>4, <2>1, <2>2 DEF RuntimeInv
<1>6. \A v \in Workers \ {w} : RunsIn(runFiles', v) = RunsIn(runFiles, v)
  BY <1>1, <1>2, <1>4, RunBegins
<1>7. \A v \in Workers \ {w} : WorkerOK(v)'
  BY <1>1, <1>3, <1>6, OthersStay DEF RuntimeInv
<1>8. WorkerOK(w)'
  <2>. PICK mine : mine = RunsIn(runFiles, w)
    OBVIOUS
  <2>. PICK held : held = results[w]
    OBVIOUS
  <2>1. PICK more : more = Append(mine, r)
    OBVIOUS
  <2>2. RunsIn(runFiles', w) = more
    BY <1>1, <1>2, <1>4, <2>1, RunBegins
  <2>3. Explained(mine, held, p) /\ Len(held) = Len(mine) /\ AList(mine) /\ AList(held) /\ Len(mine) \in Nat
    <3>1. Explained(mine, held, p) /\ Len(held) = Len(mine)
      BY <1>1, <1>2 DEF WorkerOK
    <3>2. AList(mine) /\ AList(held)
      BY <3>1 DEF Explained
    <3>. QED  BY <3>1, <3>2 DEF AList
  <2>4. /\ AList(more) /\ Len(more) = Len(mine) + 1 /\ more[Len(mine) + 1] = r
        /\ \A i \in 1 .. Len(mine) : more[i] = mine[i]
    BY <2>1, <2>3, HeldAppend
  <2>5. Completed(w) = {mine[j].agent : j \in 1 .. Len(mine)}
    <3>1. Completed(w) = Held(held)
      BY <1>2, <2>3, AgentsAre
    <3>2. \A i \in 1 .. Len(held) : held[i] = mine[i].agent
      BY <2>3 DEF Explained
    <3>. QED  BY <2>3, <3>1, <3>2 DEF Held
  <2>6. Explained(more, held, p)
    <3>1. ASSUME NEW i \in 1 .. Len(mine)
          PROVE  {more[j].agent : j \in 1 .. i - 1} = {mine[j].agent : j \in 1 .. i - 1}
      <4>1. \A j \in 1 .. i - 1 : more[j] = mine[j]
        BY <2>3, <2>4
      <4>. QED  BY <4>1
    <3>2. {more[j].agent : j \in 1 .. Len(mine)} = {mine[j].agent : j \in 1 .. Len(mine)}
      BY <2>4
    <3>3. ASSUME NEW i \in 1 .. Len(mine)
          PROVE  /\ more[i].context = {more[j].agent : j \in 1 .. i - 1}
                 /\ p.kind = "dag" => p.deps[more[i].agent] \subseteq more[i].context
                 /\ p.kind = "dag" => more[i].agent \notin more[i].context
                 /\ p.kind = "steps" => more[i].agent = p.agents[i]
      BY <2>3, <2>4, <3>1 DEF Explained
    <3>4. /\ r.context = {more[j].agent : j \in 1 .. (Len(mine) + 1) - 1}
          /\ p.kind = "dag" => p.deps[r.agent] \subseteq r.context
          /\ p.kind = "dag" => r.agent \notin r.context
          /\ p.kind = "steps" => r.agent = p.agents[Len(mine) + 1]
      <4>1. (Len(mine) + 1) - 1 = Len(mine) /\ ~(Len(mine) + 1 <= Len(held))
        BY <2>3
      <4>2. p.kind = "steps" => next[w] = Len(mine) + 1
        BY <1>1, <1>2, <2>3 DEF WorkerOK
      <4>. QED  BY <1>1, <1>4, <2>5, <3>2, <4>1, <4>2 DEF Ready
    <3>5. \A i \in 1 .. Len(more) : i = Len(mine) + 1 \/ i \in 1 .. Len(mine)
      BY <2>3, <2>4
    <3>6. \A i \in 1 .. Len(held) : held[i] = more[i].agent /\ more[i].status = "completed"
      BY <2>3, <2>4 DEF Explained
    <3>7. Len(held) \in {Len(more), Len(more) - 1}
      BY <2>3, <2>4
    <3>. QED  BY <2>3, <2>4, <3>3, <3>4, <3>5, <3>6, <3>7 DEF Explained
  <2>7. \A a : Passed(w, a)' <=> Passed(w, a)
    BY <1>1 DEF Passed, Completed, Ready
  <2>8. /\ Len(more) = Len(held) + 1 /\ more[Len(more)].agent = agent
    BY <1>4, <2>3, <2>4
  <2>. QED  BY <1>1, <1>2, <1>3, <2>2, <2>3, <2>6, <2>7, <2>8 DEF WorkerOK, AtWork
<1>. QED  BY <1>1, <1>3, <1>5, <1>7, <1>8 DEF RuntimeInv

(* The file that a process is at is the last of its own.                   *)
LEMMA FileStep ==
  ASSUME RuntimeInv, NEW w \in Workers, NEW from \in AtWork, NEW status, NEW to \in AtWork,
         File(w, from, status, to), to = "completed" => status = "completed"
  PROVE  RuntimeInv'
<1>. PICK p : p = pipeline[w]
  OBVIOUS
<1>. PICK c : c = Current(w)
  OBVIOUS
<1>1. /\ stage[w] \in AtWork
      /\ runFiles' = [runFiles EXCEPT ![c].status = status]
      /\ stage' = [stage EXCEPT ![w] = to]
      /\ pipeline' = pipeline /\ next' = next /\ ran' = ran /\ results' = results
  BY DEF File
<1>2. /\ WorkerOK(w) /\ AList(runFiles) /\ (\A i \in 1 .. Len(runFiles) : IsRun(runFiles[i])) /\ p \in Pipelines
      /\ DOMAIN stage = Workers
  BY DEF RuntimeInv, WorkerOK
<1>. PICK mine : mine = RunsIn(runFiles, w)
  OBVIOUS
<1>. PICK held : held = results[w]
  OBVIOUS
<1>. PICK n : n = Len(mine)
  OBVIOUS
<1>3. /\ Explained(mine, held, p) /\ n = Len(held) + 1 /\ AList(mine) /\ AList(held) /\ Len(held) \in Nat
      /\ n \in Nat /\ n > 0 /\ mine[n].agent = p.agents[next[w]] /\ next[w] <= Len(p.agents)
  BY <1>1, <1>2 DEF WorkerOK, Explained, AList
<1>4. /\ c \in 1 .. Len(runFiles) /\ runFiles[c].worker = w
      /\ \A j \in 1 .. Len(runFiles) : runFiles[j].worker = w => j <= c
  <2>1. DOMAIN runFiles = 1 .. Len(runFiles)
    BY <1>2 DEF AList
  <2>2. PICK at : PickOf(mine, at, runFiles, PlacesOf(runFiles, w))
    BY <1>2, RunsInIs
  <2>3. at[n] \in 1 .. Len(runFiles) /\ runFiles[at[n]].worker = w
    BY <1>3, <2>2 DEF PickOf, PlacesOf
  <2>4. ASSUME NEW j \in 1 .. Len(runFiles), runFiles[j].worker = w
        PROVE  j <= at[n]
    <3>1. j \in PlacesOf(runFiles, w)
      BY <2>4 DEF PlacesOf
    <3>2. PICK k \in 1 .. n : at[k] = j
      BY <2>2, <2>4, <3>1 DEF PickOf
    <3>3. k = n \/ k < n
      BY <1>3
    <3>. QED  BY <1>3, <2>2, <2>3, <3>2, <3>3 DEF PickOf
  <2>. QED  BY <2>1, <2>3, <2>4, Zenon DEF Current
<1>5. /\ AList(runFiles') /\ \A i \in 1 .. Len(runFiles') : IsRun(runFiles'[i])
      /\ \A v \in Workers \ {w} : RunsIn(runFiles', v) = RunsIn(runFiles, v)
      /\ RunsIn(runFiles', w) = [mine EXCEPT ![n].status = status]
  <2>. PICK t : t = runFiles'
    OBVIOUS
  <2>1. t = [runFiles EXCEPT ![c].status = status]
    BY <1>1
  <2>2. Filed(runFiles, t, c, status)
    BY <1>2, <1>4, <2>1 DEF Filed
  <2>3. AList(t) /\ \A i \in 1 .. Len(t) : IsRun(t[i])
    BY <2>2, RunEnds
  <2>4. \A v \in Workers \ {w} : RunsIn(t, v) = RunsIn(runFiles, v)
    BY <1>4, <2>2, RunEndsElsewhere
  <2>5. RunsIn(t, w) = [mine EXCEPT ![n].status = status]
    <3>1. mine = RunsIn(runFiles, runFiles[c].worker)
      BY <1>4
    <3>2. n > 0 /\ \A j \in 1 .. Len(runFiles) : runFiles[j].worker = runFiles[c].worker => j <= c
      BY <1>3, <1>4
    <3>3. RunsIn(t, runFiles[c].worker) = [mine EXCEPT ![n].status = status]
      BY <2>2, <3>1, <3>2, RunEndsHere
    <3>. QED  BY <1>4, <3>3
  <2>. QED  BY <2>3, <2>4, <2>5
<1>6. /\ DOMAIN stage' = Workers /\ stage'[w] = to
      /\ \A v \in Workers \ {w} : stage'[v] = stage[v]
  BY <1>1, <1>2
<1>7. \A v \in Workers \ {w} : WorkerOK(v)'
  BY <1>1, <1>5, <1>6, OthersStay DEF RuntimeInv
<1>8. WorkerOK(w)'
  <2>0. PICK q : q = [mine EXCEPT ![n].status = status]
    OBVIOUS
  <2>1. RunsIn(runFiles', w) = q
    BY <1>5, <2>0
  <2>2. /\ AList(q) /\ Len(q) = n /\ q[n].agent = mine[n].agent /\ q[n].status = status
        /\ q[n].context = mine[n].context /\ \A k \in 1 .. n : k # n => q[k] = mine[k]
    <3>. PICK r : r = [mine[n] EXCEPT !.status = status]
      OBVIOUS
    <3>1. PICK W : mine \in Seq(W)
      BY <1>3 DEF AList
    <3>2. mine \in [1 .. n -> W \cup {r}]
      BY <3>1
    <3>3. q \in [1 .. n -> W \cup {r}] /\ q[n] = r /\ \A k \in 1 .. n : k # n => q[k] = mine[k]
      BY <1>3, <2>0, <3>2
    <3>4. q \in Seq(W \cup {r}) /\ Len(q) = n
      <4>1. n \in Nat
        BY <1>3
      <4>. QED  BY <3>3, <4>1
    <3>5. IsRun(mine[n])
      <4>1. PICK at : PickOf(mine, at, runFiles, PlacesOf(runFiles, w))
        BY <1>2, RunsInIs
      <4>. QED  BY <1>2, <1>3, <4>1 DEF PickOf
    <3>6. r.agent = mine[n].agent /\ r.context = mine[n].context /\ r.status = status
      BY <3>5 DEF IsRun
    <3>. QED  BY <3>3, <3>4, <3>6 DEF AList
  <2>3. Explained(q, held, p)
    <3>1. \A k \in 1 .. n : q[k].agent = mine[k].agent /\ q[k].context = mine[k].context
      BY <1>3, <2>2
    <3>2. \A k \in 1 .. n : {q[j].agent : j \in 1 .. k - 1} = {mine[j].agent : j \in 1 .. k - 1}
      <4>1. \A k \in 1 .. n : \A j \in 1 .. k - 1 : j \in 1 .. n
        BY <1>3
      <4>. QED  BY <3>1, <4>1
    <3>3. \A i \in 1 .. Len(held) : held[i] = q[i].agent /\ q[i].status = "completed"
      <4>1. \A i \in 1 .. Len(held) : i \in 1 .. n /\ i # n
        BY <1>3
      <4>2. \A i \in 1 .. Len(held) : held[i] = mine[i].agent /\ mine[i].status = "completed"
        BY <1>3 DEF Explained
      <4>. QED  BY <2>2, <4>1, <4>2
    <3>4. \A k \in 1 .. n :
            /\ mine[k].context = {mine[j].agent : j \in 1 .. k - 1}
            /\ p.kind = "dag" => p.deps[mine[k].agent] \subseteq mine[k].context
            /\ p.kind = "dag" => mine[k].agent \notin mine[k].context
            /\ p.kind = "steps" => mine[k].agent = p.agents[k]
      BY <1>3 DEF Explained
    <3>5. \A k \in 1 .. Len(q) :
            /\ q[k].context = {q[j].agent : j \in 1 .. k - 1}
            /\ p.kind = "dag" => p.deps[q[k].agent] \subseteq q[k].context
            /\ p.kind = "dag" => q[k].agent \notin q[k].context
            /\ p.kind = "steps" => q[k].agent = p.agents[k]
      BY <2>2, <3>1, <3>2, <3>4
    <3>6. AList(q) /\ AList(held) /\ Len(held) \in {Len(q), Len(q) - 1}
      BY <1>3, <2>2
    <3>. QED  BY <3>3, <3>5, <3>6, Zenon DEF Explained
  <2>4. \A a : Passed(w, a)' <=> Passed(w, a)
    BY <1>1 DEF Passed, Completed, Ready
  <2>5. to \notin {"looping", "done", "spinning", "dead"} /\ (to = "completed" => q[n].status = "completed")
    BY <2>2 DEF AtWork
  <2>6. n = Len(q) /\ q[n].agent = p.agents[next[w]]
    BY <1>3, <2>2
  <2>. QED  BY <1>1, <1>2, <1>3, <1>6, <2>1, <2>3, <2>4, <2>5, <2>6 DEF WorkerOK
<1>. QED  BY <1>1, <1>5, <1>6, <1>7, <1>8 DEF RuntimeInv

(* And the last result that it holds is the one of this file.              *)
LEMMA KeepResultStep ==
  ASSUME RuntimeInv, NEW w \in Workers, KeepResult(w)
  PROVE  RuntimeInv'
<1>. PICK p : p = pipeline[w]
  OBVIOUS
<1>. PICK agent : agent = p.agents[next[w]]
  OBVIOUS
<1>1. /\ stage[w] = "completed" /\ runFiles' = runFiles
      /\ results' = [results EXCEPT ![w] = Append(results[w], agent)]
      /\ ran' = [ran EXCEPT ![w] = TRUE] /\ next' = [next EXCEPT ![w] = next[w] + 1]
      /\ stage' = [stage EXCEPT ![w] = "looping"]
      /\ pipeline' = pipeline
  BY DEF KeepResult
<1>2. /\ WorkerOK(w) /\ p \in Pipelines
      /\ DOMAIN stage = Workers /\ DOMAIN next = Workers /\ DOMAIN ran = Workers /\ DOMAIN results = Workers
  BY DEF RuntimeInv, WorkerOK
<1>. PICK mine : mine = RunsIn(runFiles, w)
  OBVIOUS
<1>. PICK held : held = results[w]
  OBVIOUS
<1>. PICK n : n = Len(mine)
  OBVIOUS
<1>3. /\ Explained(mine, held, p) /\ n = Len(held) + 1 /\ AList(mine) /\ AList(held) /\ Len(held) \in Nat
      /\ n \in Nat /\ n > 0 /\ mine[n].agent = agent /\ mine[n].status = "completed"
      /\ next[w] <= Len(p.agents) /\ next[w] \in Nat
  <2>1. "completed" \in AtWork
    BY DEF AtWork
  <2>2. /\ Explained(mine, held, p) /\ n = Len(held) + 1
        /\ mine[n].agent = agent /\ mine[n].status = "completed"
        /\ next[w] <= Len(p.agents) /\ next[w] \in Nat
    BY <1>1, <1>2, <2>1 DEF WorkerOK
  <2>3. AList(mine) /\ AList(held) /\ Len(held) \in Nat
    BY <2>2 DEF Explained, AList
  <2>. QED  BY <2>2, <2>3
<1>4. /\ DOMAIN stage' = Workers /\ DOMAIN next' = Workers /\ DOMAIN ran' = Workers /\ DOMAIN results' = Workers
      /\ stage'[w] = "looping" /\ next'[w] = next[w] + 1 /\ ran'[w] = TRUE
      /\ \A v \in Workers \ {w} : stage'[v] = stage[v] /\ next'[v] = next[v] /\ ran'[v] = ran[v] /\ results'[v] = results[v]
  BY <1>1, <1>2
<1>5. \A v \in Workers \ {w} : WorkerOK(v)'
  BY <1>1, <1>4, OthersStay DEF RuntimeInv
<1>6. WorkerOK(w)'
  <2>1. PICK more : more = Append(held, agent)
    OBVIOUS
  <2>2. results'[w] = more
    <3>1. results' = [results EXCEPT ![w] = more]
      BY <1>1, <2>1
    <3>. QED  BY <1>2, <3>1, Zenon
  <2>3. RunsIn(runFiles', w) = mine
    BY <1>1
  <2>4. /\ AList(more) /\ Len(more) = n /\ more[n] = agent
        /\ \A i \in 1 .. Len(held) : more[i] = held[i]
    BY <1>3, <2>1, HeldAppend
  <2>5. Explained(mine, more, p)
    <3>1. \A i \in 1 .. n : more[i] = mine[i].agent /\ mine[i].status = "completed"
      <4>1. \A i \in 1 .. n : i = n \/ i \in 1 .. Len(held)
        BY <1>3
      <4>2. \A i \in 1 .. Len(held) : held[i] = mine[i].agent /\ mine[i].status = "completed"
        BY <1>3 DEF Explained
      <4>. QED  BY <1>3, <2>4, <4>1, <4>2
    <3>2. \A k \in 1 .. n :
            /\ mine[k].context = {mine[j].agent : j \in 1 .. k - 1}
            /\ p.kind = "dag" => p.deps[mine[k].agent] \subseteq mine[k].context
            /\ p.kind = "dag" => mine[k].agent \notin mine[k].context
            /\ p.kind = "steps" => mine[k].agent = p.agents[k]
      BY <1>3 DEF Explained
    <3>. QED  BY <1>3, <2>4, <3>1, <3>2 DEF Explained
  <2>6. p.kind = "steps" => next'[w] = Len(more) + 1
    BY <1>1, <1>2, <1>3, <1>4, <2>4 DEF WorkerOK, AtWork
  <2>7. next'[w] \in Nat /\ next'[w] > 0
    BY <1>3, <1>4
  <2>. QED  BY <1>1, <1>2, <1>4, <2>2, <2>3, <2>4, <2>5, <2>6, <2>7 DEF WorkerOK, AtWork
<1>. QED  BY <1>1, <1>4, <1>5, <1>6 DEF RuntimeInv

(* The inductive invariant of the runtime.                                 *)
THEOREM RuntimeInvAlways == RuntimeSpec => []RuntimeInv
<1>1. RuntimeInv /\ [RuntimeNext]_runtimeVars => RuntimeInv'
  <2>. SUFFICES ASSUME RuntimeInv, [RuntimeNext]_runtimeVars PROVE RuntimeInv'
    OBVIOUS
  <2>1. ASSUME NEW w \in Workers,
               \/ PassOver(w) \/ CreateRun(w) \/ SaveRun(w) \/ ReopenRun(w) \/ SaveResult(w) \/ KeepResult(w)
               \/ Abort(w) \/ EndOfLoop(w)
        PROVE  RuntimeInv'
    <3>1. CASE SaveRun(w) \/ ReopenRun(w) \/ SaveResult(w)
      BY <3>1, FileStep DEF SaveRun, ReopenRun, SaveResult, AtWork
    <3>. QED  BY <2>1, <3>1, PassOverStep, CreateRunStep, KeepResultStep, AbortStep, EndOfLoopStep
  <2>2. CASE UNCHANGED runtimeVars
    <3>1. /\ pipeline' = pipeline /\ stage' = stage /\ next' = next
          /\ ran' = ran /\ results' = results /\ runFiles' = runFiles
      BY <2>2 DEF runtimeVars
    <3>2. \A w \in Workers : WorkerOK(w)'
      BY <3>1, OthersStay DEF RuntimeInv
    <3>. QED  BY <3>1, <3>2 DEF RuntimeInv
  <2>. QED  BY <2>1, <2>2 DEF RuntimeNext
<1>. QED  BY <1>1, RuntimeStarts, PTL DEF RuntimeSpec

LEMMA ExplainedTells ==
  ASSUME NEW mine, NEW held, NEW p, Explained(mine, held, p)
  PROVE  /\ \A i \in DOMAIN mine :
              /\ mine[i].context = {mine[j].agent : j \in 1 .. i - 1}
              /\ p.kind = "dag" => p.deps[mine[i].agent] \subseteq mine[i].context
              /\ p.kind = "dag" => mine[i].agent \notin mine[i].context
              /\ p.kind = "steps" => mine[i].agent = p.agents[i]
         /\ held = [i \in 1 .. Len(held) |-> mine[i].agent]
         /\ \A i \in 1 .. Len(held) : mine[i].status = "completed"
         /\ Len(mine) = Len(held) \/ Len(mine) = Len(held) + 1
<1>1. DOMAIN mine = 1 .. Len(mine) /\ Len(mine) \in Nat /\ Len(held) \in Nat /\ Len(held) \in {Len(mine), Len(mine) - 1}
  BY DEF Explained, AList
<1>2. held = [i \in 1 .. Len(held) |-> held[i]]
  BY DEF Explained, AList
<1>3. \A i \in 1 .. Len(held) : held[i] = mine[i].agent /\ mine[i].status = "completed"
  BY DEF Explained
<1>4. held = [i \in 1 .. Len(held) |-> mine[i].agent]
  BY <1>2, <1>3
<1>5. Len(mine) = Len(held) \/ Len(mine) = Len(held) + 1
  <2>1. PICK n, k : n = Len(mine) /\ k = Len(held)
    OBVIOUS
  <2>2. n \in Nat /\ k \in Nat /\ (k = n \/ k = n - 1)
    BY <1>1, <2>1
  <2>3. n = k \/ n = k + 1
    BY <2>2
  <2>. QED  BY <2>1, <2>3
<1>6. \A i \in 1 .. Len(mine) :
        /\ mine[i].context = {mine[j].agent : j \in 1 .. i - 1}
        /\ p.kind = "dag" => p.deps[mine[i].agent] \subseteq mine[i].context
        /\ p.kind = "dag" => mine[i].agent \notin mine[i].context
        /\ p.kind = "steps" => mine[i].agent = p.agents[i]
  BY DEF Explained
<1>7. \A i \in 1 .. Len(held) : mine[i].status = "completed"
  BY <1>3
<1>. HIDE DEF Explained
<1>. QED  BY <1>1, <1>4, <1>5, <1>6, <1>7, Zenon

LEMMA FilesExplain == RuntimeInv => RunsExplained
<1>. SUFFICES ASSUME RuntimeInv PROVE RunsExplained
  OBVIOUS
<1>1. ASSUME NEW w \in Workers
      PROVE  /\ Explained(RunsOf(w), results[w], pipeline[w])
             /\ Len(RunsOf(w)) = Len(results[w]) \/ stage[w] \in AtWork \cup {"dead"}
  BY RunsAre DEF RuntimeInv, WorkerOK
<1>. QED  BY <1>1, ExplainedTells DEF RunsExplained

LEMMA StallsExplained == RuntimeInv => SpinsOnlyOnCycle
<1>. SUFFICES ASSUME RuntimeInv, NEW w \in Workers
              PROVE  /\ stage[w] = "spinning" => Left(w) # {} /\ \A agent \in Left(w) : pipeline[w].deps[agent] \ Completed(w) # {}
                     /\ stage[w] = "done" => Left(w) = {}
  BY Zenon DEF SpinsOnlyOnCycle, Left
<1>. QED  BY DEF RuntimeInv, WorkerOK, Ready

(* Whatever the workflows, however many processes execute them and         *)
(* wherever they die: the run files, but perhaps the last of a process,    *)
(* tell what it did, in an order that its dependencies allow, and a dag    *)
(* stalls only on agents that wait for one another or for none of it.      *)
THEOREM RuntimeSoundAlways == RuntimeSpec => []RuntimeSound
<1>1. RuntimeInv => RuntimeSound
  BY FilesExplain, StallsExplained DEF RuntimeSound
<1>. QED  BY <1>1, RuntimeInvAlways, PTL

-----------------------------------------------------------------------------
(* The conscience engine.                                                  *)

(* The policies, highest priority first and each of them once.             *)
PoliciesInv ==
  LET P == engine.policies IN
  /\ engine \in [domain : Domains, policies : Seq(Rules)]
  /\ \A i, j \in 1 .. Len(P) : i < j => Priority(P[i]) >= Priority(P[j]) /\ P[i] # P[j]
  /\ chain = <<>> /\ raised = {} => history = [rule \in RateRules |-> [a \in Agents |-> <<>>]]

(* The verdict on what every policy let pass.                              *)
Weighted(level, status, intent) ==
  /\ level = RiskLevel(RiskScore(intent))
  /\ status = "APPROVED" <=> RiskScore(intent) < 60000

(* What a record of the trail says, whatever has happened since.           *)
Told(r) ==
  LET P == engine.policies IN
  /\ r.intent \in Intents /\ r.timestamp \in Int /\ r.timestamp <= clock
  /\ r.reason \in 0 .. Len(P) + 1
  /\ r.intent.signed <=> r.reason # 0
  /\ r.status = "APPROVED" => r.reason = Len(P) + 1
  /\ r.reason = Len(P) + 1 => Weighted(r.risk_level, r.status, r.intent)
  /\ \A place \in 1 .. Len(P) :
       r.intent.signed /\ place < r.reason => ~Forbids(P[place], r.intent)

SignedOnes == {i \in 1 .. Len(chain) : chain[i].intent.signed}
ApprovedOnes == {i \in 1 .. Len(chain) : chain[i].status = "APPROVED"}

TrailInv ==
  /\ AList(chain)
  /\ \A i \in 1 .. Len(chain) : Told(chain[i])
  /\ ChainVerifies(chain)
  /\ stats = [total |-> Cardinality(SignedOnes), approved |-> Cardinality(ApprovedOnes),
              rejected |-> Cardinality(SignedOnes \ ApprovedOnes)]

(* What a rate limit remembers of an agent from b on, and what the trail   *)
(* and the calls that raised show of it.                                   *)
Since(at, b) == {k \in 1 .. Len(at) : at[k] >= b}

GotPast(place, a, b) ==
  {j \in 1 .. Len(chain) : /\ chain[j].intent.agent = a
                           /\ chain[j].reason > place
                           /\ chain[j].timestamp >= b}

Lost(a, b) == {l \in raised : l.agent = a /\ l.at >= b}

(* Within the window the two agree.                                        *)
WindowInv ==
  \A place \in 1 .. Len(engine.policies) :
    LET rule == engine.policies[place] IN
    rule.kind = "rate" =>
      \A a \in Agents, b \in Int : b > clock - rule.window_seconds =>
        Cardinality(Since(history[rule][a], b)) = Cardinality(GotPast(place, a, b)) + Cardinality(Lost(a, b))

RaisedInv ==
  /\ IsFiniteSet(raised)
  /\ \A l \in raised : l.id \in 0 .. Cardinality(raised) - 1 /\ l.at \in Int /\ l.at <= clock

ConscienceInv ==
  /\ clock \in Int
  /\ history \in [RateRules -> [Agents -> Seq(Int)]]
  /\ PoliciesInv /\ TrailInv /\ RaisedInv /\ WindowInv /\ RateRespected(chain)

-----------------------------------------------------------------------------
(* Policies.                                                               *)

LEMMA PriorityType == \A rule \in Rules : Priority(rule) \in Nat
<1>1. SUFFICES ASSUME NEW rule \in Rules
               PROVE  Priority(rule) \in Nat
  OBVIOUS
<1>2. rule.kind \in {"sanctions", "rate", "amount"}
  BY ConscienceAssumption
<1>. QED  BY <1>2 DEF Priority

(* What is put into a list before the place that follows n.                *)
IsInserted(t, S, s, n, e) ==
  /\ t \in Seq(S) /\ Len(t) = Len(s) + 1 /\ t[n + 1] = e
  /\ \A i \in 1 .. n : t[i] = s[i]
  /\ \A i \in n + 1 .. Len(s) : t[i + 1] = s[i]

LEMMA Inserted ==
  ASSUME NEW S, NEW s, s \in Seq(S), NEW e, e \in S, NEW n, n \in 0 .. Len(s)
  PROVE  IsInserted(InsertAt(s, n + 1, e), S, s, n, e)
<1>1. PICK u : u = SubSeq(s, 1, n)
  OBVIOUS
<1>2. PICK v : v = <<e>>
  OBVIOUS
<1>3. PICK w : w = SubSeq(s, n + 1, Len(s))
  OBVIOUS
<1>4. PICK x : x = u \o v
  OBVIOUS
<1>5. PICK t : t = x \o w
  OBVIOUS
<1>6. /\ u \in Seq(S) /\ Len(u) = n /\ \A i \in 1 .. n : u[i] = s[i]
      /\ v \in Seq(S) /\ Len(v) = 1 /\ v[1] = e
      /\ w \in Seq(S) /\ Len(w) = Len(s) - n /\ \A i \in 1 .. Len(s) - n : w[i] = s[n + i]
      /\ Len(s) \in Nat
  <2>0. Len(s) \in Nat
    OBVIOUS
  <2>1. u \in Seq(S) /\ Len(u) = n /\ \A i \in 1 .. n : u[i] = s[i]
    BY <1>1, <2>0
  <2>2. v \in Seq(S) /\ Len(v) = 1 /\ v[1] = e
    BY <1>2
  <2>3. w \in Seq(S) /\ Len(w) = Len(s) - n
    BY <1>3, <2>0
  <2>4. \A i \in 1 .. Len(s) - n : w[i] = s[n + i]
    BY <1>3, <2>0
  <2>. QED  BY <2>0, <2>1, <2>2, <2>3, <2>4
<1>7. /\ x \in Seq(S) /\ Len(x) = n + 1
      /\ \A i \in 1 .. n : x[i] = s[i]
      /\ x[n + 1] = e
  <2>1. /\ x \in Seq(S) /\ Len(x) = Len(u) + Len(v)
        /\ \A i \in 1 .. Len(u) : x[i] = u[i]
        /\ \A i \in 1 .. Len(v) : x[Len(u) + i] = v[i]
    <3>1. u \in Seq(S) /\ v \in Seq(S)
      BY <1>6
    <3>. QED  BY <1>4, <3>1, Joined
  <2>2. x[Len(u) + 1] = v[1]
    BY <1>6, <2>1
  <2>. QED  BY <1>6, <2>1, <2>2
<1>8. /\ t \in Seq(S) /\ Len(t) = Len(x) + Len(w)
      /\ \A i \in 1 .. Len(x) : t[i] = x[i]
      /\ \A i \in 1 .. Len(w) : t[Len(x) + i] = w[i]
  <2>1. x \in Seq(S) /\ w \in Seq(S)
    BY <1>6, <1>7
  <2>. QED  BY <1>5, <2>1, Joined
<1>9. t = InsertAt(s, n + 1, e)
  <2>1. (n + 1) - 1 = n
    OBVIOUS
  <2>. QED  BY <1>1, <1>2, <1>3, <1>4, <1>5, <2>1 DEF InsertAt
<1>10. Len(t) = Len(s) + 1 /\ t[n + 1] = e /\ \A i \in 1 .. n : t[i] = s[i]
  <2>1. n + 1 \in 1 .. Len(x) /\ \A i \in 1 .. n : i \in 1 .. Len(x)
    BY <1>7
  <2>. QED  BY <1>6, <1>7, <1>8, <2>1
<1>11. \A i \in n + 1 .. Len(s) : t[i + 1] = s[i]
  <2>1. SUFFICES ASSUME NEW i \in n + 1 .. Len(s)
                 PROVE  t[i + 1] = s[i]
    OBVIOUS
  <2>2. i - n \in 1 .. Len(w) /\ Len(x) + (i - n) = i + 1 /\ n + (i - n) = i
    BY <1>6, <1>7
  <2>3. t[Len(x) + (i - n)] = w[i - n]
    BY <1>8, <2>2
  <2>4. w[i - n] = s[n + (i - n)]
    BY <1>6, <2>2
  <2>. QED  BY <2>2, <2>3, <2>4
<1>. QED  BY <1>8, <1>9, <1>10, <1>11 DEF IsInserted

(* A policy goes behind those of its priority or a higher one.             *)
LEMMA RegisteredInOrder ==
  ASSUME NEW P, P \in Seq(Rules), NEW rule, rule \in Rules,
         \A i, j \in 1 .. Len(P) : i < j => Priority(P[i]) >= Priority(P[j]) /\ P[i] # P[j],
         \A i \in 1 .. Len(P) : P[i] # rule
  PROVE  LET Q == Registered(P, rule)
         IN  /\ Q \in Seq(Rules)
             /\ \A i, j \in 1 .. Len(Q) : i < j => Priority(Q[i]) >= Priority(Q[j]) /\ Q[i] # Q[j]
<1>d. PICK D : D = {i \in DOMAIN P : Priority(P[i]) >= Priority(rule)}
  OBVIOUS
<1>a. PICK n : n = Cardinality(D)
  OBVIOUS
<1>0. /\ Len(P) \in Nat /\ Priority(rule) \in Nat
      /\ \A i \in 1 .. Len(P) : P[i] \in Rules /\ Priority(P[i]) \in Nat
  BY PriorityType
<1>1. n \in 0 .. Len(P) /\ D = 1 .. n
  <2>1. D \subseteq 1 .. Len(P) /\ \A i \in 1 .. Len(P) : i \in D <=> Priority(P[i]) >= Priority(rule)
    BY <1>d
  <2>2. ASSUME NEW i \in D, NEW j \in 1 .. Len(P), j < i
        PROVE  j \in D
    <3>1. i \in 1 .. Len(P) /\ Priority(P[i]) >= Priority(rule) /\ Priority(P[j]) >= Priority(P[i])
      BY <2>1, <2>2
    <3>. QED  BY <1>0, <2>1, <3>1
  <2>. QED  BY <1>a, <1>0, <2>1, <2>2, FirstPlaces
<1>b. PICK Q : Q = InsertAt(P, n + 1, rule)
  OBVIOUS
<1>2. /\ Q \in Seq(Rules) /\ Len(Q) = Len(P) + 1 /\ Q[n + 1] = rule
      /\ \A i \in 1 .. n : Q[i] = P[i]
      /\ \A i \in n + 1 .. Len(P) : Q[i + 1] = P[i]
  <2>1. IsInserted(Q, Rules, P, n, rule)
    BY <1>b, <1>1, Inserted
  <2>. QED  BY <2>1 DEF IsInserted
<1>3. Q = Registered(P, rule)
  BY <1>a, <1>b, <1>d DEF Registered
<1>4. \A i \in 1 .. n : Priority(P[i]) >= Priority(rule) /\ i \in 1 .. Len(P)
  BY <1>d, <1>1
<1>5. \A i \in n + 1 .. Len(P) : Priority(rule) >= Priority(P[i]) /\ i \in 1 .. Len(P)
  <2>1. SUFFICES ASSUME NEW i \in n + 1 .. Len(P)
                 PROVE  Priority(rule) >= Priority(P[i]) /\ i \in 1 .. Len(P)
    OBVIOUS
  <2>2. i \in 1 .. Len(P) /\ i \notin D
    BY <1>0, <1>1
  <2>. QED  BY <1>d, <1>0, <2>2
<1>6. ASSUME NEW i \in 1 .. Len(Q), NEW j \in 1 .. Len(Q), i < j
      PROVE  Priority(Q[i]) >= Priority(Q[j]) /\ Q[i] # Q[j]
  <2>1. CASE j \in 1 .. n
    <3>1. i \in 1 .. n /\ Q[i] = P[i] /\ Q[j] = P[j] /\ i \in 1 .. Len(P) /\ j \in 1 .. Len(P)
      BY <1>0, <1>1, <1>2, <1>6, <2>1
    <3>. QED  BY <1>6, <3>1
  <2>2. CASE j = n + 1
    <3>1. i \in 1 .. n /\ Q[i] = P[i] /\ i \in 1 .. Len(P)
      BY <1>0, <1>1, <1>2, <1>6, <2>2
    <3>. QED  BY <1>2, <1>4, <2>2, <3>1
  <2>3. CASE j > n + 1
    <3>1. j - 1 \in n + 1 .. Len(P) /\ (j - 1) + 1 = j
      BY <1>0, <1>1, <1>2, <2>3
    <3>2. Q[j] = P[j - 1] /\ Priority(rule) >= Priority(P[j - 1]) /\ j - 1 \in 1 .. Len(P)
      BY <1>2, <1>5, <3>1
    <3>3. CASE i \in 1 .. n
      <4>1. Q[i] = P[i] /\ i \in 1 .. Len(P)
        BY <1>2, <1>4, <3>3
      <4>2. i < j - 1 /\ i \in 1 .. Len(P) /\ j - 1 \in 1 .. Len(P)
        BY <1>1, <3>1, <3>2, <3>3, <4>1
      <4>3. Priority(P[i]) >= Priority(P[j - 1]) /\ P[i] # P[j - 1]
        BY <4>2
      <4>. QED  BY <3>2, <4>1, <4>3
    <3>4. CASE i = n + 1
      BY <1>2, <3>2, <3>4
    <3>5. CASE i > n + 1
      <4>1. i - 1 \in n + 1 .. Len(P) /\ (i - 1) + 1 = i /\ i - 1 < j - 1
        BY <1>0, <1>1, <1>2, <1>6, <3>5
      <4>2. Q[i] = P[i - 1] /\ i - 1 \in 1 .. Len(P)
        BY <1>2, <1>5, <4>1
      <4>. QED  BY <3>2, <4>1, <4>2
    <3>. QED  BY <1>1, <3>3, <3>4, <3>5
  <2>. QED  BY <1>1, <1>2, <2>1, <2>2, <2>3
<1>. QED  BY <1>2, <1>3, <1>6

(* The policy that refuses is the first that does.                         *)
LEMMA FirstRefusalIs ==
  ASSUME engine.policies \in Seq(Rules), NEW intent
  PROVE  LET f == FirstRefusal(intent)
             P == engine.policies
         IN  /\ f \in 1 .. Len(P) + 1
             /\ f <= Len(P) => Refuses(P[f], intent) \/ PolicyRaises(P[f], intent)
             /\ \A i \in 1 .. Len(P) : i < f => ~Refuses(P[i], intent)
<1>. PICK P : P = engine.policies
  OBVIOUS
<1>. PICK D : D = {i \in DOMAIN P : Refuses(P[i], intent) \/ PolicyRaises(P[i], intent)}
                    \cup {Len(P) + 1}
  OBVIOUS
<1>1. Len(P) \in Nat /\ DOMAIN P = 1 .. Len(P)
  OBVIOUS
<1>2. D \subseteq Nat /\ D # {}
  BY <1>1
<1>3. PICK x \in D : \A y \in D : x <= y
  BY <1>2, NatLeast
<1>4. Min(D) = x
  <2>1. ASSUME NEW z \in D, \A y \in D : z <= y
        PROVE  z = x
    BY <1>2, <1>3, <2>1
  <2>. QED  BY <1>3, <2>1 DEF Min
<1>5. FirstRefusal(intent) = x
  BY <1>4 DEF FirstRefusal
<1>6. x \in 1 .. Len(P) + 1 /\ (x <= Len(P) => Refuses(P[x], intent) \/ PolicyRaises(P[x], intent))
  BY <1>1
<1>7. ASSUME NEW i \in 1 .. Len(P), i < x
      PROVE  ~Refuses(P[i], intent)
  <2>1. i \notin D
    BY <1>2, <1>3, <1>6, <1>7
  <2>. QED  BY <1>1, <2>1
<1>. QED  BY <1>5, <1>6, <1>7

-----------------------------------------------------------------------------
(* Counting.                                                               *)

LEMMA OneMore ==
  ASSUME NEW A, IsFiniteSet(A), NEW x, x \notin A, NEW c, NEW B, B = IF c THEN A \cup {x} ELSE A
  PROVE  /\ IsFiniteSet(B) /\ Cardinality(B) \in Nat /\ Cardinality(A) \in Nat
         /\ Cardinality(B) = Cardinality(A) + (IF c THEN 1 ELSE 0)
<1>1. Cardinality(A) \in Nat
  BY FS_CardinalityType
<1>2. CASE c
  <2>1. B = A \cup {x}
    BY <1>2
  <2>2. IsFiniteSet(A \cup {x}) /\ Cardinality(A \cup {x}) = Cardinality(A) + 1
    BY FS_AddElement
  <2>. QED  BY <1>1, <1>2, <2>1, <2>2
<1>3. CASE ~c
  <2>1. B = A
    BY <1>3
  <2>. QED  BY <1>1, <1>3, <2>1
<1>. QED  BY <1>2, <1>3

LEMMA SinceFinite ==
  ASSUME NEW at, at \in Seq(Int), NEW b
  PROVE  IsFiniteSet(Since(at, b)) /\ Cardinality(Since(at, b)) \in Nat
<1>1. Since(at, b) \subseteq 1 .. Len(at) /\ Len(at) \in Nat
  BY DEF Since
<1>. QED  BY <1>1, PartOf1

LEMMA SinceAppended ==
  ASSUME NEW at, at \in Seq(Int), NEW e, e \in Int, NEW b, b \in Int
  PROVE  Cardinality(Since(Append(at, e), b)) = Cardinality(Since(at, b)) + (IF b <= e THEN 1 ELSE 0)
<1>1. PICK p : p = Append(at, e)
  OBVIOUS
<1>2. /\ Len(at) \in Nat /\ Len(p) = Len(at) + 1 /\ p[Len(at) + 1] = e
      /\ \A i \in 1 .. Len(at) : p[i] = at[i] /\ at[i] \in Int
  BY <1>1
<1>3. PICK A : A = Since(at, b)
  OBVIOUS
<1>4. PICK B : B = Since(p, b)
  OBVIOUS
<1>5. IsFiniteSet(A) /\ Len(at) + 1 \notin A
  <2>1. Len(at) + 1 \notin A
    BY <1>2, <1>3 DEF Since
  <2>. QED  BY <1>3, <2>1, SinceFinite
<1>6. B = IF b <= e THEN A \cup {Len(at) + 1} ELSE A
  <2>1. \A i : i \in 1 .. Len(p) <=> i \in 1 .. Len(at) \/ i = Len(at) + 1
    BY <1>2
  <2>2. \A i : i \in B <=> i \in A \/ (i = Len(at) + 1 /\ b <= e)
    BY <1>2, <1>3, <1>4, <2>1 DEF Since
  <2>3. CASE b <= e
    BY <2>2, <2>3
  <2>4. CASE ~(b <= e)
    BY <2>2, <2>4
  <2>. QED  BY <2>3, <2>4
<1>7. Cardinality(B) = Cardinality(A) + (IF b <= e THEN 1 ELSE 0)
  BY <1>5, <1>6, OneMore
<1>. QED  BY <1>1, <1>3, <1>4, <1>7

(* Cleaning out what is too old takes nothing away that still counts.      *)
LEMMA SinceRecent ==
  ASSUME clock \in Int, history \in [RateRules -> [Agents -> Seq(Int)]],
         NEW rule, rule \in RateRules, NEW a, a \in Agents
  PROVE  LET w == rule.window_seconds
             recent == Recent(rule, a)
         IN  /\ recent \in Seq(Int) /\ w \in Int
             /\ \A b \in Int : b > clock - w =>
                  Cardinality(Since(recent, b)) = Cardinality(Since(history[rule][a], b))
             /\ Len(recent) = Cardinality(Since(history[rule][a], clock - w + 1))
<1>1. PICK w : w = rule.window_seconds
  OBVIOUS
<1>2. PICK at : at = history[rule][a]
  OBVIOUS
<1>3. PICK keep : keep = {i \in DOMAIN at : clock - at[i] < w}
  OBVIOUS
<1>4. PICK p : p = Picked(at, keep)
  OBVIOUS
<1>5. p = Recent(rule, a)
  BY <1>1, <1>2, <1>3, <1>4 DEF Recent
<1>6. at \in Seq(Int) /\ Len(at) \in Nat /\ DOMAIN at = 1 .. Len(at) /\ \A i \in 1 .. Len(at) : at[i] \in Int
  <2>1. at \in Seq(Int)
    BY <1>2
  <2>. QED  BY <2>1
<1>7. w \in Int
  BY <1>1, ConscienceAssumption DEF RateRules
<1>8. p \in Seq(Int)
  BY <1>4, <1>6, PickedPlaces
<1>9. PICK bt : PickOf(p, bt, at, keep)
  BY <1>4, <1>6, PickedPlaces
<1>10. \A k \in 1 .. Len(p) : bt[k] \in 1 .. Len(at) /\ p[k] = at[bt[k]] /\ bt[k] \in keep
  BY <1>9 DEF PickOf
<1>11. ASSUME NEW b \in Int, b > clock - w
       PROVE  Cardinality(Since(p, b)) = Cardinality(Since(at, b))
  <2>1. PICK D : D = Since(at, b)
    OBVIOUS
  <2>2. AmongKept(D, at, keep)
    BY <1>3, <1>6, <1>7, <1>11, <2>1 DEF Since, AmongKept
  <2>3. LeadsTo(p, bt, D) = Since(p, b)
    BY <1>10, <2>1 DEF LeadsTo, Since
  <2>4. Cardinality(LeadsTo(p, bt, D)) = Cardinality(D)
    BY <1>9, <2>2, PickedCount
  <2>. QED  BY <2>1, <2>3, <2>4
<1>12. Len(p) = Cardinality(Since(p, clock - w + 1))
  <2>1. Since(p, clock - w + 1) = 1 .. Len(p)
    <3>1. ASSUME NEW k \in 1 .. Len(p)
          PROVE  p[k] >= clock - w + 1
      <4>1. clock - at[bt[k]] < w
        BY <1>3, <1>10
      <4>2. at[bt[k]] \in Int /\ p[k] = at[bt[k]]
        BY <1>6, <1>10
      <4>. QED  BY <1>7, <4>1, <4>2
    <3>. QED  BY <3>1 DEF Since
  <2>2. Len(p) \in Nat
    BY <1>8
  <2>. QED  BY <2>1, <2>2, UpTo1
<1>13. Len(p) = Cardinality(Since(at, clock - w + 1))
  <2>1. clock - w + 1 \in Int /\ clock - w + 1 > clock - w
    BY <1>7
  <2>. QED  BY <1>11, <1>12, <2>1
<1>. QED  BY <1>1, <1>2, <1>5, <1>7, <1>8, <1>11, <1>13

(* What a call leaves of the history of a rate limit: f is the place of    *)
(* the policy that refuses.                                                *)
LeftOf(intent, place, a) ==
  LET rule == engine.policies[place] IN
  IF a # intent.agent \/ place > FirstRefusal(intent) THEN history[rule][a]
  ELSE IF place < FirstRefusal(intent) THEN Append(Recent(rule, a), clock) ELSE Recent(rule, a)

LEMMA AskedIs ==
  ASSUME clock \in Int, history \in [RateRules -> [Agents -> Seq(Int)]], PoliciesInv,
         NEW intent, intent \in Intents
  PROVE  /\ Asked(intent) \in [RateRules -> [Agents -> Seq(Int)]]
         /\ \A place \in 1 .. Len(engine.policies) : engine.policies[place].kind = "rate" =>
              \A a \in Agents : Asked(intent)[engine.policies[place]][a] = LeftOf(intent, place, a)
<1>1. PICK P : P = engine.policies
  OBVIOUS
<1>2. PICK f : f = FirstRefusal(intent)
  OBVIOUS
<1>. DEFINE found(rule) == CHOOSE i \in DOMAIN P : P[i] = rule
            place_(rule) == IF rule \in Range(P) THEN found(rule) ELSE Len(P) + 1
            noted(rule) == LET recent == Recent(rule, intent.agent) IN
                           IF place_(rule) < f THEN Append(recent, clock) ELSE recent
            entry(rule) == IF place_(rule) > f \/ rule \notin Range(P) THEN history[rule]
                           ELSE [history[rule] EXCEPT ![intent.agent] = noted(rule)]
<1>3. Asked(intent) = [rule \in RateRules |-> entry(rule)]
  BY <1>1, <1>2 DEF Asked
<1>4. intent.agent \in Agents
  BY DEF Agents
<1>5. /\ P \in Seq(Rules) /\ Len(P) \in Nat /\ DOMAIN P = 1 .. Len(P)
      /\ \A i \in 1 .. Len(P) : P[i] \in Rules
      /\ \A i, j \in 1 .. Len(P) : i < j => P[i] # P[j]
  <2>1. P \in Seq(Rules)
    BY <1>1 DEF PoliciesInv
  <2>2. \A i, j \in 1 .. Len(P) : i < j => P[i] # P[j]
    BY <1>1 DEF PoliciesInv
  <2>. QED  BY <2>1, <2>2
<1>6. ASSUME NEW rule \in RateRules
      PROVE  noted(rule) \in Seq(Int)
  <2>1. Recent(rule, intent.agent) \in Seq(Int)
    BY <1>4, SinceRecent
  <2>. QED  BY <2>1
<1>7. ASSUME NEW rule \in RateRules
      PROVE  entry(rule) \in [Agents -> Seq(Int)]
  <2>. HIDE DEF place_, noted
  <2>1. history[rule] \in [Agents -> Seq(Int)]
    OBVIOUS
  <2>. QED  BY <1>4, <1>6, <2>1
<1>8. ASSUME NEW place \in 1 .. Len(P), P[place].kind = "rate", NEW a \in Agents
      PROVE  Asked(intent)[P[place]][a] = LeftOf(intent, place, a)
  <2>1. PICK rule : rule = P[place]
    OBVIOUS
  <2>2. rule \in RateRules /\ rule \in Range(P)
    BY <1>5, <1>8, <2>1 DEF RateRules, Range
  <2>3. found(rule) = place
    <3>1. \A i \in 1 .. Len(P) : P[i] = rule => i = place
      <4>1. \A i \in 1 .. Len(P) : i < place \/ place < i \/ i = place
        BY <1>5
      <4>. QED  BY <1>5, <2>1, <4>1
    <3>. QED  BY <1>5, <2>1, <3>1
  <2>4. place_(rule) = place
    BY <2>2, <2>3
  <2>5. Asked(intent)[rule] = entry(rule)
    BY <1>3, <2>2
  <2>6. history[rule] \in [Agents -> Seq(Int)]
    BY <2>2
  <2>. HIDE DEF place_, found
  <2>7. CASE place > f
    <3>1. entry(rule) = history[rule]
      BY <2>4, <2>7
    <3>. HIDE DEF entry
    <3>. QED  BY <1>1, <1>2, <2>1, <2>5, <2>7, <3>1 DEF LeftOf
  <2>8. CASE ~(place > f)
    <3>1. entry(rule) = [history[rule] EXCEPT ![intent.agent] = noted(rule)]
      BY <2>2, <2>4, <2>8
    <3>2. noted(rule) = IF place < f THEN Append(Recent(rule, intent.agent), clock)
                        ELSE Recent(rule, intent.agent)
      BY <2>4
    <3>3. entry(rule)[a] = IF a = intent.agent THEN noted(rule) ELSE history[rule][a]
      <4>. HIDE DEF entry, noted
      <4>. QED  BY <1>4, <2>6, <3>1
    <3>. HIDE DEF entry, noted
    <3>4. CASE a # intent.agent
      BY <1>1, <1>2, <2>1, <2>5, <3>3, <3>4 DEF LeftOf
    <3>5. CASE a = intent.agent
      BY <1>1, <1>2, <2>1, <2>5, <2>8, <3>2, <3>3, <3>5 DEF LeftOf
    <3>. QED  BY <3>4, <3>5
  <2>. QED  BY <2>7, <2>8
<1>9. Asked(intent) \in [RateRules -> [Agents -> Seq(Int)]]
  <2>. HIDE DEF entry
  <2>. QED  BY <1>3, <1>7
<1>. QED  BY <1>1, <1>8, <1>9

(* What a call adds to what a rate limit remembers.                        *)
Watched(place, a, b) ==
  /\ place \in 1 .. Len(engine.policies) /\ engine.policies[place].kind = "rate"
  /\ a \in Agents /\ b \in Int /\ b > clock - engine.policies[place].window_seconds

LEMMA LeftCount ==
  ASSUME clock \in Int, history \in [RateRules -> [Agents -> Seq(Int)]], PoliciesInv,
         NEW intent, NEW place, NEW a, NEW b, Watched(place, a, b)
  PROVE  /\ Cardinality(Since(history[engine.policies[place]][a], b)) \in Nat
         /\ Cardinality(Since(LeftOf(intent, place, a), b)) =
              Cardinality(Since(history[engine.policies[place]][a], b))
              + (IF a = intent.agent /\ place < FirstRefusal(intent) /\ b <= clock THEN 1 ELSE 0)
<1>. /\ place \in 1 .. Len(engine.policies) /\ engine.policies[place].kind = "rate"
     /\ a \in Agents /\ b \in Int /\ b > clock - engine.policies[place].window_seconds
  BY DEF Watched
<1>1. PICK P : P = engine.policies
  OBVIOUS
<1>2. PICK f : f = FirstRefusal(intent)
  OBVIOUS
<1>3. PICK rule : rule = P[place]
  OBVIOUS
<1>4. P \in Seq(Rules) /\ rule \in RateRules
  <2>1. P \in Seq(Rules)
    BY <1>1 DEF PoliciesInv
  <2>. QED  BY <1>1, <1>3, <2>1 DEF RateRules
<1>5. f \in 1 .. Len(P) + 1 /\ place \in 1 .. Len(P)
  BY <1>1, <1>2, <1>4, FirstRefusalIs
<1>6. PICK recent : recent = Recent(rule, a)
  OBVIOUS
<1>7. PICK at : at = history[rule][a]
  OBVIOUS
<1>8. recent \in Seq(Int) /\ Cardinality(Since(recent, b)) = Cardinality(Since(at, b))
  BY <1>1, <1>3, <1>4, <1>6, <1>7, SinceRecent
<1>9. Cardinality(Since(at, b)) \in Nat
  <2>1. at \in Seq(Int)
    BY <1>4, <1>7
  <2>. QED  BY <2>1, SinceFinite
<1>10. Cardinality(Since(Append(recent, clock), b))
         = Cardinality(Since(recent, b)) + (IF b <= clock THEN 1 ELSE 0)
  BY <1>8, SinceAppended
<1>11. LeftOf(intent, place, a) = IF a # intent.agent \/ place > f THEN at
                                  ELSE IF place < f THEN Append(recent, clock) ELSE recent
  BY <1>1, <1>2, <1>3, <1>6, <1>7 DEF LeftOf
<1>12. CASE a # intent.agent \/ place > f
  BY <1>1, <1>2, <1>3, <1>5, <1>7, <1>9, <1>11, <1>12
<1>13. CASE ~(a # intent.agent \/ place > f) /\ place < f
  <2>1. LeftOf(intent, place, a) = Append(recent, clock)
    BY <1>11, <1>13
  <2>. QED  BY <1>1, <1>2, <1>3, <1>7, <1>8, <1>9, <1>10, <1>13, <2>1
<1>14. CASE ~(a # intent.agent \/ place > f) /\ ~(place < f)
  <2>1. LeftOf(intent, place, a) = recent
    BY <1>11, <1>14
  <2>. QED  BY <1>1, <1>2, <1>3, <1>7, <1>8, <1>9, <1>14, <2>1
<1>. QED  BY <1>12, <1>13, <1>14

-----------------------------------------------------------------------------
(* The trail.                                                              *)

LEMMA AuditRecordIs ==
  ASSUME NEW intent, NEW level, NEW status, NEW reason
  PROVE  LET r == AuditRecord(intent, level, status, reason)
         IN  /\ r.intent = intent /\ r.status = status /\ r.timestamp = clock /\ r.reason = reason
             /\ r.risk_level = level
             /\ r.previous_hash = IF chain = <<>> THEN <<>> ELSE Last(chain).merkle_hash
             /\ r.merkle_hash = RecordHash(r)
<1>1. PICK q : q = [record_id |-> Len(chain) + 1, intent |-> intent, risk_level |-> level,
                    status |-> status, timestamp |-> clock, reason |-> reason,
                    previous_hash |-> IF chain = <<>> THEN <<>> ELSE Last(chain).merkle_hash,
                    merkle_hash |-> <<>>]
  OBVIOUS
<1>2. PICK h : h = RecordHash(q)
  OBVIOUS
<1>3. PICK r : r = [q EXCEPT !.merkle_hash = h]
  OBVIOUS
<1>4. r = AuditRecord(intent, level, status, reason)
  BY <1>1, <1>2, <1>3 DEF AuditRecord
<1>5. /\ r.intent = intent /\ r.status = status /\ r.timestamp = clock /\ r.reason = reason
      /\ r.risk_level = level
      /\ r.previous_hash = q.previous_hash /\ r.record_id = q.record_id
      /\ q.intent = intent /\ q.status = status /\ q.timestamp = clock
      /\ r.merkle_hash = h
  BY <1>1, <1>3
<1>6. q.previous_hash = IF chain = <<>> THEN <<>> ELSE Last(chain).merkle_hash
  BY <1>1
<1>7. RecordHash(r) = RecordHash(q)
  BY <1>5 DEF RecordHash
<1>. QED  BY <1>2, <1>4, <1>5, <1>6, <1>7

LEMMA PlacesFinite ==
  ASSUME AList(chain)
  PROVE  /\ Len(chain) \in Nat /\ DOMAIN chain = 1 .. Len(chain)
         /\ IsFiniteSet(SignedOnes) /\ IsFiniteSet(ApprovedOnes) /\ IsFiniteSet(SignedOnes \ ApprovedOnes)
         /\ \A place, a, b : IsFiniteSet(GotPast(place, a, b)) /\ Cardinality(GotPast(place, a, b)) \in Nat
<1>1. Len(chain) \in Nat /\ DOMAIN chain = 1 .. Len(chain)
  BY DEF AList
<1>2. SignedOnes \subseteq 1 .. Len(chain) /\ ApprovedOnes \subseteq 1 .. Len(chain)
      /\ SignedOnes \ ApprovedOnes \subseteq 1 .. Len(chain)
  BY DEF SignedOnes, ApprovedOnes
<1>3. \A place, a, b : GotPast(place, a, b) \subseteq 1 .. Len(chain)
  BY DEF GotPast
<1>. QED  BY <1>1, <1>2, <1>3, PartOf1

(* What goes into the trail with a record that is explained.               *)
Appends(intent, level, status, reason) ==
  /\ chain' = Append(chain, AuditRecord(intent, level, status, reason))
  /\ clock' = clock /\ engine' = engine
  /\ intent \in Intents
  /\ reason \in 0 .. Len(engine.policies) + 1
  /\ intent.signed <=> reason # 0
  /\ status = "APPROVED" => reason = Len(engine.policies) + 1
  /\ reason = Len(engine.policies) + 1 => Weighted(level, status, intent)
  /\ \A place \in 1 .. Len(engine.policies) :
       intent.signed /\ place < reason => ~Forbids(engine.policies[place], intent)

LEMMA TrailAppended ==
  ASSUME clock \in Int, PoliciesInv, AList(chain), \A i \in 1 .. Len(chain) : Told(chain[i]),
         ChainVerifies(chain),
         NEW intent, NEW level, NEW status, NEW reason, Appends(intent, level, status, reason)
  PROVE  /\ AList(chain') /\ Len(chain') = Len(chain) + 1 /\ chain' # <<>>
         /\ \A i \in 1 .. Len(chain) : chain'[i] = chain[i]
         /\ chain'[Len(chain) + 1] = AuditRecord(intent, level, status, reason)
         /\ \A i \in 1 .. Len(chain') : Told(chain[i])'
         /\ ChainVerifies(chain')
<1>1. PICK r : r = AuditRecord(intent, level, status, reason)
  OBVIOUS
<1>2. /\ r.intent = intent /\ r.status = status /\ r.timestamp = clock /\ r.reason = reason
      /\ r.risk_level = level
      /\ r.previous_hash = IF chain = <<>> THEN <<>> ELSE Last(chain).merkle_hash
      /\ r.merkle_hash = RecordHash(r)
  BY <1>1, AuditRecordIs
<1>3. PICK c : c = Append(chain, r)
  OBVIOUS
<1>4. c = chain'
  BY <1>1, <1>3 DEF Appends
<1>5. /\ AList(c) /\ Len(c) = Len(chain) + 1 /\ Len(chain) \in Nat
      /\ c[Len(c)] = r /\ \A i \in 1 .. Len(chain) : c[i] = chain[i]
  BY <1>3, HeldAppend
<1>6. c # <<>>
  BY <1>5
<1>7. PICK P : P = engine.policies
  OBVIOUS
<1>8. engine' = engine /\ clock' = clock
  BY DEF Appends
<1>9. ASSUME NEW i \in 1 .. Len(c)
      PROVE  Told(chain[i])'
  <2>1. CASE i \in 1 .. Len(chain)
    <3>1. Told(chain[i]) /\ chain'[i] = chain[i]
      BY <1>4, <1>5, <2>1
    <3>. QED  BY <1>8, <3>1 DEF Told, Weighted, RiskScore
  <2>2. CASE i = Len(c)
    <3>1. chain'[i] = r
      BY <1>4, <1>5, <2>2
    <3>2. /\ r.intent \in Intents /\ r.timestamp \in Int /\ r.timestamp <= clock
          /\ r.reason \in 0 .. Len(P) + 1
          /\ r.intent.signed <=> r.reason # 0
          /\ r.status = "APPROVED" => r.reason = Len(P) + 1
          /\ r.reason = Len(P) + 1 => Weighted(r.risk_level, r.status, r.intent)
          /\ \A place \in 1 .. Len(P) : r.intent.signed /\ place < r.reason => ~Forbids(P[place], r.intent)
      BY <1>2, <1>7 DEF Appends
    <3>. QED  BY <1>7, <1>8, <3>1, <3>2 DEF Told, Weighted, RiskScore
  <2>. QED  BY <1>5, <2>1, <2>2
<1>10. ASSUME NEW i \in 2 .. Len(c)
       PROVE  /\ c[i].previous_hash = c[i - 1].merkle_hash
              /\ c[i].merkle_hash = RecordHash(c[i])
  <2>1. CASE i \in 2 .. Len(chain)
    <3>1. i \in 1 .. Len(chain) /\ i - 1 \in 1 .. Len(chain)
      BY <1>5, <2>1
    <3>2. c[i] = chain[i] /\ c[i - 1] = chain[i - 1]
      BY <1>5, <3>1
    <3>. QED  BY <2>1, <3>2 DEF ChainVerifies
  <2>2. CASE i = Len(c)
    <3>1. i - 1 = Len(chain) /\ Len(chain) \in 1 .. Len(chain)
      BY <1>5, <2>2
    <3>2. chain # <<>>
      BY <3>1
    <3>3. r.previous_hash = chain[Len(chain)].merkle_hash
      BY <1>2, <3>2 DEF Last
    <3>. QED  BY <1>2, <1>5, <2>2, <3>1, <3>3
  <2>. QED  BY <1>5, <2>1, <2>2
<1>11. ChainVerifies(c)
  BY <1>10 DEF ChainVerifies
<1>. QED  BY <1>1, <1>4, <1>5, <1>6, <1>9, <1>11

(* What is counted of the trail.                                           *)
LEMMA TrailCounts ==
  ASSUME clock \in Int, PoliciesInv, AList(chain), \A i \in 1 .. Len(chain) : Told(chain[i]),
         ChainVerifies(chain),
         NEW intent, NEW level, NEW status, NEW reason, Appends(intent, level, status, reason)
  PROVE  /\ Cardinality(SignedOnes') = Cardinality(SignedOnes) + (IF intent.signed THEN 1 ELSE 0)
         /\ Cardinality(ApprovedOnes') = Cardinality(ApprovedOnes) + (IF status = "APPROVED" THEN 1 ELSE 0)
         /\ Cardinality(SignedOnes' \ ApprovedOnes')
              = Cardinality(SignedOnes \ ApprovedOnes) + (IF intent.signed /\ status # "APPROVED" THEN 1 ELSE 0)
         /\ \A place, a, b :
              Cardinality(GotPast(place, a, b)')
                = Cardinality(GotPast(place, a, b))
                  + (IF a = intent.agent /\ place < reason /\ b <= clock THEN 1 ELSE 0)
<1>1. PICK n : n = Len(chain)
  OBVIOUS
<1>2. PICK r : r = AuditRecord(intent, level, status, reason)
  OBVIOUS
<1>3. r.intent = intent /\ r.status = status /\ r.timestamp = clock /\ r.reason = reason
  BY <1>2, AuditRecordIs
<1>4. /\ n \in Nat /\ Len(chain') = n + 1
      /\ \A i \in 1 .. n : chain'[i] = chain[i]
      /\ chain'[n + 1] = r
  BY <1>1, <1>2, TrailAppended, PlacesFinite
<1>5. /\ \A i : i \in 1 .. n + 1 <=> i \in 1 .. n \/ i = n + 1
      /\ n + 1 \notin 1 .. n
  BY <1>4
<1>6. reason \in Int
  BY DEF Appends
<1>7. /\ IsFiniteSet(SignedOnes) /\ IsFiniteSet(ApprovedOnes) /\ IsFiniteSet(SignedOnes \ ApprovedOnes)
      /\ \A place, a, b : IsFiniteSet(GotPast(place, a, b))
  BY PlacesFinite
<1>8. Cardinality(SignedOnes') = Cardinality(SignedOnes) + (IF intent.signed THEN 1 ELSE 0)
  <2>1. n + 1 \notin SignedOnes
    BY <1>1, <1>5 DEF SignedOnes
  <2>2. \A i : i \in SignedOnes' <=> i \in SignedOnes \/ (i = n + 1 /\ intent.signed)
    BY <1>1, <1>3, <1>4, <1>5 DEF SignedOnes
  <2>3. SignedOnes' = IF intent.signed THEN SignedOnes \cup {n + 1} ELSE SignedOnes
    <3>1. CASE intent.signed
      BY <2>2, <3>1
    <3>2. CASE ~intent.signed
      BY <2>2, <3>2
    <3>. QED  BY <3>1, <3>2
  <2>. QED  BY <1>7, <2>1, <2>3, OneMore
<1>9. Cardinality(ApprovedOnes') = Cardinality(ApprovedOnes) + (IF status = "APPROVED" THEN 1 ELSE 0)
  <2>1. n + 1 \notin ApprovedOnes
    BY <1>1, <1>5 DEF ApprovedOnes
  <2>2. \A i : i \in ApprovedOnes' <=> i \in ApprovedOnes \/ (i = n + 1 /\ status = "APPROVED")
    BY <1>1, <1>3, <1>4, <1>5 DEF ApprovedOnes
  <2>3. ApprovedOnes' = IF status = "APPROVED" THEN ApprovedOnes \cup {n + 1} ELSE ApprovedOnes
    <3>1. CASE status = "APPROVED"
      BY <2>2, <3>1
    <3>2. CASE status # "APPROVED"
      BY <2>2, <3>2
    <3>. QED  BY <3>1, <3>2
  <2>. QED  BY <1>7, <2>1, <2>3, OneMore
<1>10. Cardinality(SignedOnes' \ ApprovedOnes')
         = Cardinality(SignedOnes \ ApprovedOnes) + (IF intent.signed /\ status # "APPROVED" THEN 1 ELSE 0)
  <2>a. PICK A : A = SignedOnes \ ApprovedOnes
    OBVIOUS
  <2>b. PICK B : B = SignedOnes' \ ApprovedOnes'
    OBVIOUS
  <2>1. n + 1 \notin A
    BY <1>1, <1>5, <2>a DEF SignedOnes
  <2>2. \A i : i \in B <=> i \in A \/ (i = n + 1 /\ intent.signed /\ status # "APPROVED")
    BY <1>1, <1>3, <1>4, <1>5, <2>a, <2>b DEF SignedOnes, ApprovedOnes
  <2>3. B = IF intent.signed /\ status # "APPROVED" THEN A \cup {n + 1} ELSE A
    <3>1. CASE intent.signed /\ status # "APPROVED"
      BY <2>2, <3>1
    <3>2. CASE ~(intent.signed /\ status # "APPROVED")
      BY <2>2, <3>2
    <3>. QED  BY <3>1, <3>2
  <2>4. IsFiniteSet(A)
    BY <1>7, <2>a
  <2>5. Cardinality(B) = Cardinality(A) + (IF intent.signed /\ status # "APPROVED" THEN 1 ELSE 0)
    BY <2>1, <2>3, <2>4, OneMore
  <2>. QED  BY <2>a, <2>b, <2>5
<1>11. ASSUME NEW place, NEW a, NEW b
       PROVE  Cardinality(GotPast(place, a, b)')
                = Cardinality(GotPast(place, a, b))
                  + (IF a = intent.agent /\ place < reason /\ b <= clock THEN 1 ELSE 0)
  <2>1. PICK A : A = GotPast(place, a, b)
    OBVIOUS
  <2>2. PICK B : B = GotPast(place, a, b)'
    OBVIOUS
  <2>3. n + 1 \notin A
    BY <1>1, <1>5, <2>1 DEF GotPast
  <2>4. \A i : i \in B <=> i \in A \/ (i = n + 1 /\ a = intent.agent /\ reason > place /\ clock >= b)
    BY <1>1, <1>3, <1>4, <1>5, <2>1, <2>2 DEF GotPast
  <2>5. (reason > place <=> place < reason) /\ (clock >= b <=> b <= clock)
    OBVIOUS
  <2>6. B = IF a = intent.agent /\ place < reason /\ b <= clock THEN A \cup {n + 1} ELSE A
    <3>1. CASE a = intent.agent /\ place < reason /\ b <= clock
      BY <2>4, <2>5, <3>1
    <3>2. CASE ~(a = intent.agent /\ place < reason /\ b <= clock)
      BY <2>4, <2>5, <3>2
    <3>. QED  BY <3>1, <3>2
  <2>7. IsFiniteSet(A)
    BY <1>7, <2>1
  <2>8. Cardinality(B) = Cardinality(A) + (IF a = intent.agent /\ place < reason /\ b <= clock THEN 1 ELSE 0)
    BY <2>3, <2>6, <2>7, OneMore
  <2>. QED  BY <2>1, <2>2, <2>8
<1>. QED  BY <1>8, <1>9, <1>10, <1>11

-----------------------------------------------------------------------------
(* Rate limits.                                                            *)

Past(i, place, w) ==
  {j \in 1 .. i - 1 : /\ chain[j].intent.agent = chain[i].intent.agent
                      /\ chain[j].reason > place
                      /\ chain[i].timestamp - chain[j].timestamp < w}

Gone(i, w) ==
  {l \in raised : /\ l.agent = chain[i].intent.agent
                  /\ l.at <= chain[i].timestamp /\ chain[i].timestamp - l.at < w}

(* One record and one rate limit.                                          *)
RateOf(i, place) ==
  LET rule == engine.policies[place] IN
  rule.kind = "rate" =>
    /\ chain[i].reason > place => Cardinality(Past(i, place, rule.window_seconds)) < rule.max_requests
    /\ chain[i].reason = place =>
         Cardinality(Past(i, place, rule.window_seconds)) + Cardinality(Gone(i, rule.window_seconds))
           >= rule.max_requests

LEMMA RateRespectedIs ==
  RateRespected(chain) <=> \A i \in DOMAIN chain, place \in DOMAIN engine.policies : RateOf(i, place)
BY DEF RateRespected, RateOf, Past, Gone

LEMMA RaisedFinite ==
  ASSUME RaisedInv
  PROVE  /\ \A a, b : IsFiniteSet(Lost(a, b)) /\ Cardinality(Lost(a, b)) \in Nat
         /\ \A i, w : IsFiniteSet(Gone(i, w)) /\ Cardinality(Gone(i, w)) \in Nat
<1>1. \A a, b : Lost(a, b) \in SUBSET raised
  BY DEF Lost
<1>2. \A i, w : Gone(i, w) \in SUBSET raised
  BY DEF Gone
<1>3. \A A \in SUBSET raised : IsFiniteSet(A) /\ Cardinality(A) \in Nat
  <2>1. ASSUME NEW A \in SUBSET raised
        PROVE  IsFiniteSet(A) /\ Cardinality(A) \in Nat
    <3>1. IsFiniteSet(A)
      BY FS_Subset DEF RaisedInv
    <3>. QED  BY <3>1, FS_CardinalityType
  <2>. QED  BY <2>1
<1>. QED  BY <1>1, <1>2, <1>3

(* What is asked for its rate now finds what the trail shows.              *)
LEMMA RecentCount ==
  ASSUME ConscienceInv, NEW intent, intent \in Intents,
         NEW place, place \in 1 .. Len(engine.policies), engine.policies[place].kind = "rate"
  PROVE  LET rule == engine.policies[place]
             b == clock - rule.window_seconds + 1
         IN  /\ b \in Int /\ rule.window_seconds \in Int /\ rule.max_requests \in Int
             /\ Len(Recent(rule, intent.agent))
                  = Cardinality(GotPast(place, intent.agent, b)) + Cardinality(Lost(intent.agent, b))
<1>1. PICK rule : rule = engine.policies[place]
  OBVIOUS
<1>2. PICK w : w = rule.window_seconds
  OBVIOUS
<1>3. PICK b : b = clock - w + 1
  OBVIOUS
<1>4. PICK a : a = intent.agent
  OBVIOUS
<1>5. rule \in RateRules /\ a \in Agents /\ clock \in Int
  <2>1. engine.policies \in Seq(Rules)
    BY DEF ConscienceInv, PoliciesInv
  <2>2. rule \in Rules /\ rule.kind = "rate"
    BY <1>1, <2>1
  <2>. QED  BY <1>4, <2>2 DEF RateRules, Agents, ConscienceInv
<1>6. w \in Int /\ rule.max_requests \in Int
  BY <1>2, <1>5, ConscienceAssumption DEF RateRules
<1>7. b \in Int /\ b > clock - w
  BY <1>3, <1>5, <1>6
<1>8. Len(Recent(rule, a)) = Cardinality(Since(history[rule][a], b))
  <2>1. history \in [RateRules -> [Agents -> Seq(Int)]]
    BY DEF ConscienceInv
  <2>. QED  BY <1>2, <1>3, <1>5, <2>1, SinceRecent
<1>9. Cardinality(Since(history[rule][a], b)) = Cardinality(GotPast(place, a, b)) + Cardinality(Lost(a, b))
  BY <1>1, <1>2, <1>5, <1>7 DEF ConscienceInv, WindowInv, RateRules
<1>. QED  BY <1>1, <1>2, <1>3, <1>4, <1>6, <1>7, <1>8, <1>9

(* A record of a call keeps what the trail says of the rate limits, when   *)
(* its reason is the policy that refuses, if it is signed at all.          *)
LEMMA RateAppended ==
  ASSUME ConscienceInv,
         NEW intent, NEW level, NEW status, NEW reason, Appends(intent, level, status, reason),
         reason # 0 => reason = FirstRefusal(intent), raised' = raised
  PROVE  RateRespected(chain)'
<1>1. PICK n : n = Len(chain)
  OBVIOUS
<1>2. PICK P : P = engine.policies
  OBVIOUS
<1>3. /\ clock \in Int /\ PoliciesInv /\ AList(chain) /\ ChainVerifies(chain) /\ RaisedInv
      /\ \A i \in 1 .. Len(chain) : Told(chain[i])
      /\ RateRespected(chain)
  BY DEF ConscienceInv, TrailInv
<1>4. PICK r : r = AuditRecord(intent, level, status, reason)
  OBVIOUS
<1>5. r.intent = intent /\ r.timestamp = clock /\ r.reason = reason
  BY <1>4, AuditRecordIs
<1>6. /\ n \in Nat /\ Len(chain') = n + 1 /\ AList(chain')
      /\ \A i \in 1 .. n : chain'[i] = chain[i]
      /\ chain'[n + 1] = r
  BY <1>1, <1>3, <1>4, TrailAppended, PlacesFinite
<1>7. P \in Seq(Rules) /\ engine'.policies = P /\ DOMAIN P = 1 .. Len(P) /\ Len(P) \in Nat
  <2>1. P \in Seq(Rules)
    BY <1>2, <1>3 DEF PoliciesInv
  <2>. QED  BY <1>2, <2>1 DEF Appends
<1>8. DOMAIN chain = 1 .. n /\ DOMAIN chain' = 1 .. n + 1
  BY <1>1, <1>3, <1>6, PlacesFinite DEF AList
<1>9. ASSUME NEW i \in 1 .. n, NEW place \in 1 .. Len(P)
      PROVE  RateOf(i, place)'
  <2>1. RateOf(i, place)
    BY <1>2, <1>3, <1>7, <1>8, RateRespectedIs
  <2>2. chain'[i] = chain[i] /\ \A j \in 1 .. i - 1 : chain'[j] = chain[j]
    BY <1>6
  <2>3. \A w : Past(i, place, w)' = Past(i, place, w) /\ Gone(i, w)' = Gone(i, w)
    BY <2>2 DEF Past, Gone
  <2>. QED  BY <1>2, <1>7, <2>1, <2>2, <2>3 DEF RateOf
<1>10. ASSUME NEW place \in 1 .. Len(P)
       PROVE  RateOf(n + 1, place)'
  <2>1. SUFFICES ASSUME P[place].kind = "rate"
                 PROVE  RateOf(n + 1, place)'
    BY <1>7 DEF RateOf
  <2>2. PICK w : w = P[place].window_seconds
    OBVIOUS
  <2>3. PICK m : m = P[place].max_requests
    OBVIOUS
  <2>4. PICK b : b = clock - w + 1
    OBVIOUS
  <2>5. PICK a : a = intent.agent
    OBVIOUS
  <2>6. /\ b \in Int /\ w \in Int /\ m \in Int
        /\ Len(Recent(P[place], a)) = Cardinality(GotPast(place, a, b)) + Cardinality(Lost(a, b))
    <3>1. intent \in Intents
      BY DEF Appends
    <3>. QED  BY <1>2, <2>1, <2>2, <2>3, <2>4, <2>5, <3>1, RecentCount
  <2>7. Past(n + 1, place, w)' = GotPast(place, a, b)
    <3>1. (n + 1) - 1 = n
      BY <1>6
    <3>2. ASSUME NEW j \in 1 .. n
          PROVE  /\ chain'[j] = chain[j]
                 /\ clock - chain[j].timestamp < w <=> chain[j].timestamp >= b
      <4>1. chain[j].timestamp \in Int
        BY <1>1, <1>3 DEF Told
      <4>. QED  BY <1>3, <1>6, <2>4, <2>6, <4>1
    <3>. QED  BY <1>1, <1>5, <1>6, <2>5, <3>1, <3>2 DEF Past, GotPast
  <2>8. Gone(n + 1, w)' = Lost(a, b)
    <3>1. ASSUME NEW l \in raised
          PROVE  l.at <= clock /\ (clock - l.at < w <=> l.at >= b)
      <4>1. l.at \in Int /\ l.at <= clock
        BY <1>3 DEF RaisedInv
      <4>. QED  BY <1>3, <2>4, <2>6, <4>1
    <3>. QED  BY <1>5, <1>6, <2>5, <3>1 DEF Gone, Lost
  <2>9. Cardinality(GotPast(place, a, b)) \in Nat /\ Cardinality(Lost(a, b)) \in Nat
    BY <1>3, PlacesFinite, RaisedFinite
  <2>10. Refuses(P[place], intent) <=> Len(Recent(P[place], a)) >= m
    BY <2>1, <2>3, <2>5 DEF Refuses
  <2>11. place \in Int /\ place > 0 /\ reason \in Int
    BY <1>7 DEF Appends
  <2>12. ASSUME reason > place
         PROVE  Cardinality(GotPast(place, a, b)) < m
    <3>1. reason = FirstRefusal(intent)
      BY <2>11, <2>12
    <3>2. place < FirstRefusal(intent)
      BY <2>11, <2>12, <3>1
    <3>3. ~Refuses(P[place], intent)
      BY <1>2, <1>7, <3>2, FirstRefusalIs
    <3>. QED  BY <2>6, <2>9, <2>10, <3>3
  <2>13. ASSUME reason = place
         PROVE  Cardinality(GotPast(place, a, b)) + Cardinality(Lost(a, b)) >= m
    <3>1. reason = FirstRefusal(intent) /\ FirstRefusal(intent) <= Len(P)
      BY <1>7, <2>11, <2>13
    <3>2. Refuses(P[place], intent) \/ PolicyRaises(P[place], intent)
      BY <1>2, <1>7, <2>13, <3>1, FirstRefusalIs
    <3>3. Refuses(P[place], intent)
      BY <2>1, <3>2 DEF PolicyRaises
    <3>. QED  BY <2>6, <2>10, <3>3
  <2>. QED  BY <1>5, <1>6, <1>7, <2>2, <2>3, <2>7, <2>8, <2>12, <2>13 DEF RateOf
<1>11. \A i \in 1 .. n + 1 : i \in 1 .. n \/ i = n + 1
  BY <1>6
<1>12. \A i \in DOMAIN chain', place \in DOMAIN engine'.policies : RateOf(i, place)'
  BY <1>7, <1>8, <1>9, <1>10, <1>11
<1>13. (RateRespected(chain) <=> \A i \in DOMAIN chain, place \in DOMAIN engine.policies : RateOf(i, place))'
  BY RateRespectedIs, PTL
<1>. QED  BY <1>12, <1>13

(* And of the window that is open.                                         *)
LEMMA WindowAppended ==
  ASSUME ConscienceInv,
         NEW intent, NEW level, NEW status, NEW reason, Appends(intent, level, status, reason),
         raised' = raised,
         \/ reason = 0 /\ history' = history
         \/ reason = FirstRefusal(intent) /\ history' = Asked(intent)
  PROVE  WindowInv'
<1>1. PICK P : P = engine.policies
  OBVIOUS
<1>2. /\ clock \in Int /\ PoliciesInv /\ AList(chain) /\ ChainVerifies(chain) /\ RaisedInv
      /\ history \in [RateRules -> [Agents -> Seq(Int)]]
      /\ \A i \in 1 .. Len(chain) : Told(chain[i])
      /\ intent \in Intents /\ engine' = engine /\ clock' = clock
  BY DEF ConscienceInv, TrailInv, Appends
<1>3. SUFFICES ASSUME NEW place \in 1 .. Len(P), P[place].kind = "rate",
                      NEW a \in Agents, NEW b \in Int, b > clock - P[place].window_seconds
               PROVE  Cardinality(Since(history'[P[place]][a], b))
                        = Cardinality(GotPast(place, a, b)') + Cardinality(Lost(a, b)')
  BY <1>1, <1>2 DEF WindowInv
<1>4. PICK old : old = Cardinality(Since(history[P[place]][a], b))
  OBVIOUS
<1>5. old = Cardinality(GotPast(place, a, b)) + Cardinality(Lost(a, b))
  BY <1>1, <1>3, <1>4 DEF ConscienceInv, WindowInv
<1>6. Lost(a, b)' = Lost(a, b)
  BY DEF Lost
<1>7. Cardinality(GotPast(place, a, b)) \in Nat /\ Cardinality(Lost(a, b)) \in Nat
  BY <1>2, PlacesFinite, RaisedFinite
<1>8. Cardinality(GotPast(place, a, b)')
        = Cardinality(GotPast(place, a, b))
          + (IF a = intent.agent /\ place < reason /\ b <= clock THEN 1 ELSE 0)
  BY <1>2, TrailCounts
<1>9. CASE reason = 0 /\ history' = history
  <2>1. ~(place < reason)
    <3>1. place \in Int /\ place > 0
      OBVIOUS
    <3>. QED  BY <1>9, <3>1
  <2>3. Cardinality(GotPast(place, a, b)') = Cardinality(GotPast(place, a, b))
    BY <1>7, <1>8, <2>1
  <2>2. Since(history'[P[place]][a], b) = Since(history[P[place]][a], b)
    BY <1>9
  <2>. QED  BY <1>4, <1>5, <1>6, <2>2, <2>3
<1>10. CASE reason = FirstRefusal(intent) /\ history' = Asked(intent)
  <2>1. history'[P[place]][a] = LeftOf(intent, place, a)
    BY <1>1, <1>2, <1>3, <1>10, AskedIs
  <2>2. Cardinality(Since(LeftOf(intent, place, a), b))
          = old + (IF a = intent.agent /\ place < reason /\ b <= clock THEN 1 ELSE 0)
    <3>1. Watched(place, a, b)
      BY <1>1, <1>3 DEF Watched
    <3>2. Cardinality(Since(LeftOf(intent, place, a), b))
            = Cardinality(Since(history[engine.policies[place]][a], b))
              + (IF a = intent.agent /\ place < FirstRefusal(intent) /\ b <= clock THEN 1 ELSE 0)
      BY <1>2, <3>1, LeftCount
    <3>. QED  BY <1>1, <1>4, <1>10, <3>2
  <2>. QED  BY <1>4, <1>5, <1>6, <1>7, <1>8, <2>1, <2>2
<1>. QED  BY <1>9, <1>10

-----------------------------------------------------------------------------
(* Steps.                                                                  *)

NoRequests == [rule \in RateRules |-> [a \in Agents |-> <<>>]]

(* Before the first intent there is nothing to say.                        *)
LEMMA QuietInv ==
  ASSUME clock \in Int, chain = <<>>, raised = {}, history = NoRequests, engine.policies \in Seq(Rules),
         stats = [total |-> 0, approved |-> 0, rejected |-> 0]
  PROVE  /\ history \in [RateRules -> [Agents -> Seq(Int)]]
         /\ TrailInv /\ RaisedInv /\ WindowInv /\ RateRespected(chain)
<1>1. AList(chain) /\ Len(chain) = 0 /\ DOMAIN chain = {}
  BY HeldNothing
<1>2. Cardinality({}) = 0 /\ IsFiniteSet({})
  BY FS_EmptySet
<1>3. SignedOnes = {} /\ ApprovedOnes = {} /\ SignedOnes \ ApprovedOnes = {}
  BY <1>1 DEF SignedOnes, ApprovedOnes
<1>4. TrailInv
  BY <1>1, <1>2, <1>3 DEF TrailInv, ChainVerifies
<1>5. RaisedInv
  BY <1>2 DEF RaisedInv
<1>6. ASSUME NEW place \in 1 .. Len(engine.policies), engine.policies[place].kind = "rate",
             NEW a \in Agents, NEW b \in Int
      PROVE  Cardinality(Since(history[engine.policies[place]][a], b))
               = Cardinality(GotPast(place, a, b)) + Cardinality(Lost(a, b))
  <2>1. engine.policies[place] \in RateRules
    BY <1>6 DEF RateRules
  <2>2. history[engine.policies[place]][a] = <<>>
    BY <2>1 DEF NoRequests
  <2>3. Since(<<>>, b) = {} /\ GotPast(place, a, b) = {} /\ Lost(a, b) = {}
    BY <1>1 DEF Since, GotPast, Lost
  <2>4. Cardinality(Since(<<>>, b)) = 0 /\ Cardinality(GotPast(place, a, b)) = 0 /\ Cardinality(Lost(a, b)) = 0
    BY <1>2, <2>3
  <2>. QED  BY <2>2, <2>4
<1>7. WindowInv
  BY <1>6 DEF WindowInv
<1>8. RateRespected(chain)
  BY <1>1 DEF RateRespected
<1>9. history \in [RateRules -> [Agents -> Seq(Int)]]
  <2>1. <<>> \in Seq(Int)
    OBVIOUS
  <2>. QED  BY <2>1 DEF NoRequests
<1>. QED  BY <1>4, <1>5, <1>7, <1>8, <1>9

LEMMA ConscienceStarts == ConscienceInit => ConscienceInv
<1>1. SUFFICES ASSUME ConscienceInit
               PROVE  ConscienceInv
  OBVIOUS
<1>2. /\ clock \in Int /\ chain = <<>> /\ raised = {} /\ history = NoRequests
      /\ stats = [total |-> 0, approved |-> 0, rejected |-> 0]
  BY <1>1 DEF ConscienceInit, NoRequests
<1>3. engine \in [domain : Domains, policies : Seq(Rules)] /\ engine.policies = <<>>
  <2>1. <<>> \in Seq(Rules)
    OBVIOUS
  <2>. QED  BY <1>1, <2>1 DEF ConscienceInit
<1>4. engine.policies \in Seq(Rules) /\ Len(engine.policies) = 0
  BY <1>3
<1>5. PoliciesInv
  BY <1>2, <1>3, <1>4 DEF PoliciesInv, NoRequests
<1>. QED  BY <1>2, <1>4, <1>5, QuietInv DEF ConscienceInv

LEMMA TickStep == ConscienceInv /\ ClockTick => ConscienceInv'
<1>1. SUFFICES ASSUME ConscienceInv, ClockTick
               PROVE  ConscienceInv'
  OBVIOUS
<1>2. /\ clock \in Int /\ clock' = clock + 1
      /\ engine' = engine /\ history' = history /\ chain' = chain /\ stats' = stats /\ raised' = raised
  BY <1>1 DEF ClockTick, ConscienceInv
<1>3. PoliciesInv' /\ (history \in [RateRules -> [Agents -> Seq(Int)]])'
  BY <1>1, <1>2 DEF ConscienceInv, PoliciesInv
<1>4. TrailInv'
  <2>1. ASSUME NEW i \in 1 .. Len(chain)
        PROVE  Told(chain[i])'
    <3>1. Told(chain[i])
      BY <1>1 DEF ConscienceInv, TrailInv
    <3>. QED  BY <1>2, <3>1 DEF Told, Weighted, RiskScore
  <2>2. SignedOnes' = SignedOnes /\ ApprovedOnes' = ApprovedOnes
    BY <1>2 DEF SignedOnes, ApprovedOnes
  <2>. QED  BY <1>1, <1>2, <2>1, <2>2 DEF ConscienceInv, TrailInv
<1>5. RaisedInv'
  BY <1>1, <1>2 DEF ConscienceInv, RaisedInv
<1>6. WindowInv'
  <2>1. SUFFICES ASSUME NEW place \in 1 .. Len(engine'.policies), engine'.policies[place].kind = "rate",
                        NEW a \in Agents, NEW b \in Int, b > clock' - engine'.policies[place].window_seconds
                 PROVE  Cardinality(Since(history'[engine'.policies[place]][a], b))
                          = Cardinality(GotPast(place, a, b)') + Cardinality(Lost(a, b)')
    BY DEF WindowInv
  <2>2. engine.policies[place].window_seconds \in Int
    <3>1. PoliciesInv /\ engine'.policies = engine.policies
      BY <1>1, <1>2 DEF ConscienceInv
    <3>2. engine.policies \in Seq(Rules)
      BY <3>1 DEF PoliciesInv
    <3>3. engine.policies[place] \in Rules
      BY <2>1, <3>1, <3>2
    <3>. QED  BY <2>1, <3>1, <3>3, ConscienceAssumption
  <2>3. b > clock - engine.policies[place].window_seconds
    BY <1>2, <2>1, <2>2
  <2>4. GotPast(place, a, b)' = GotPast(place, a, b) /\ Lost(a, b)' = Lost(a, b)
    BY <1>2 DEF GotPast, Lost
  <2>5. WindowInv
    BY <1>1 DEF ConscienceInv
  <2>. QED  BY <1>2, <2>1, <2>3, <2>4, <2>5 DEF WindowInv
<1>7. RateRespected(chain)'
  <2>1. RateRespected(chain)
    BY <1>1 DEF ConscienceInv
  <2>2. engine' = engine /\ chain' = chain /\ raised' = raised
    BY <1>2
  <2>. QED  BY <2>1, <2>2 DEF RateRespected
<1>. QED  BY <1>2, <1>3, <1>4, <1>5, <1>6, <1>7 DEF ConscienceInv

LEMMA RegisterStep ==
  ASSUME ConscienceInv, NEW rule, rule \in Rules, RegisterPolicy(rule)
  PROVE  ConscienceInv'
<1>1. /\ chain = <<>> /\ raised = {} /\ rule \notin Range(engine.policies)
      /\ engine' = [engine EXCEPT !.policies = Registered(engine.policies, rule)]
      /\ clock' = clock /\ history' = history /\ chain' = chain /\ stats' = stats /\ raised' = raised
  BY DEF RegisterPolicy
<1>2. PICK P : P = engine.policies
  OBVIOUS
<1>3. PICK Q : Q = Registered(P, rule)
  OBVIOUS
<1>4. /\ engine \in [domain : Domains, policies : Seq(Rules)] /\ P \in Seq(Rules)
      /\ \A i, j \in 1 .. Len(P) : i < j => Priority(P[i]) >= Priority(P[j]) /\ P[i] # P[j]
      /\ history = NoRequests /\ clock \in Int
  BY <1>1, <1>2 DEF ConscienceInv, PoliciesInv, NoRequests
<1>5. \A i \in 1 .. Len(P) : P[i] # rule
  BY <1>1, <1>2, <1>4 DEF Range
<1>6. /\ Q \in Seq(Rules)
      /\ \A i, j \in 1 .. Len(Q) : i < j => Priority(Q[i]) >= Priority(Q[j]) /\ Q[i] # Q[j]
  BY <1>3, <1>4, <1>5, RegisteredInOrder
<1>7. engine' \in [domain : Domains, policies : Seq(Rules)] /\ engine'.policies = Q
  BY <1>1, <1>2, <1>3, <1>4, <1>6
<1>8. PoliciesInv'
  BY <1>1, <1>4, <1>6, <1>7 DEF PoliciesInv, NoRequests
<1>9. stats = [total |-> 0, approved |-> 0, rejected |-> 0]
  <2>1. SignedOnes = {} /\ ApprovedOnes = {} /\ SignedOnes \ ApprovedOnes = {}
    BY <1>1, HeldNothing DEF SignedOnes, ApprovedOnes
  <2>2. Cardinality({}) = 0
    BY FS_EmptySet
  <2>. QED  BY <2>1, <2>2 DEF ConscienceInv, TrailInv
<1>10. (clock \in Int /\ chain = <<>> /\ raised = {} /\ history = NoRequests /\ engine.policies \in Seq(Rules)
          /\ stats = [total |-> 0, approved |-> 0, rejected |-> 0])'
  BY <1>1, <1>4, <1>6, <1>7, <1>9 DEF NoRequests
<1>11. (clock \in Int /\ chain = <<>> /\ raised = {} /\ history = NoRequests /\ engine.policies \in Seq(Rules)
          /\ stats = [total |-> 0, approved |-> 0, rejected |-> 0])
       => /\ history \in [RateRules -> [Agents -> Seq(Int)]]
          /\ TrailInv /\ RaisedInv /\ WindowInv /\ RateRespected(chain)
  BY QuietInv
<1>12. (/\ history \in [RateRules -> [Agents -> Seq(Int)]]
        /\ TrailInv /\ RaisedInv /\ WindowInv /\ RateRespected(chain))'
  BY <1>10, QuietInv, PTL
<1>. QED  BY <1>8, <1>10, <1>12 DEF ConscienceInv

(* The calls that leave a record.                                          *)
LEMMA RecordedStep ==
  ASSUME ConscienceInv,
         NEW intent, NEW level, NEW status, NEW reason, Appends(intent, level, status, reason),
         raised' = raised,
         \/ reason = 0 /\ history' = history /\ stats' = stats
         \/ reason = FirstRefusal(intent) /\ history' = Asked(intent) /\ stats' = Counting(status = "APPROVED")
  PROVE  ConscienceInv'
<1>1. /\ clock \in Int /\ PoliciesInv /\ AList(chain) /\ ChainVerifies(chain) /\ RaisedInv
      /\ history \in [RateRules -> [Agents -> Seq(Int)]]
      /\ \A i \in 1 .. Len(chain) : Told(chain[i])
      /\ stats = [total |-> Cardinality(SignedOnes), approved |-> Cardinality(ApprovedOnes),
                  rejected |-> Cardinality(SignedOnes \ ApprovedOnes)]
  BY DEF ConscienceInv, TrailInv
<1>2. intent \in Intents /\ engine' = engine /\ clock' = clock /\ (intent.signed <=> reason # 0)
  BY DEF Appends
<1>3. /\ AList(chain') /\ chain' # <<>>
      /\ \A i \in 1 .. Len(chain') : Told(chain[i])'
      /\ ChainVerifies(chain')
  BY <1>1, TrailAppended
<1>4. FirstRefusal(intent) # 0
  <2>1. engine.policies \in Seq(Rules)
    BY <1>1 DEF PoliciesInv
  <2>. QED  BY <2>1, FirstRefusalIs
<1>5. history' \in [RateRules -> [Agents -> Seq(Int)]]
  BY <1>1, <1>2, AskedIs
<1>6. PoliciesInv'
  BY <1>1, <1>2, <1>3 DEF PoliciesInv
<1>7. PICK n : n = Cardinality(SignedOnes)
  OBVIOUS
<1>8. PICK m : m = Cardinality(ApprovedOnes)
  OBVIOUS
<1>9. PICK k : k = Cardinality(SignedOnes \ ApprovedOnes)
  OBVIOUS
<1>10. n \in Nat /\ m \in Nat /\ k \in Nat
  BY <1>1, <1>7, <1>8, <1>9, PlacesFinite, FS_CardinalityType
<1>11. /\ Cardinality(SignedOnes') = n + (IF intent.signed THEN 1 ELSE 0)
       /\ Cardinality(ApprovedOnes') = m + (IF status = "APPROVED" THEN 1 ELSE 0)
       /\ Cardinality(SignedOnes' \ ApprovedOnes') = k + (IF intent.signed /\ status # "APPROVED" THEN 1 ELSE 0)
  BY <1>1, <1>7, <1>8, <1>9, TrailCounts
<1>12. stats' = [total |-> Cardinality(SignedOnes'), approved |-> Cardinality(ApprovedOnes'),
                 rejected |-> Cardinality(SignedOnes' \ ApprovedOnes')]
  <2>1. CASE reason = 0 /\ stats' = stats
    <3>1. ~intent.signed /\ status # "APPROVED"
      <4>1. Len(engine.policies) \in Nat
        BY <1>1 DEF PoliciesInv
      <4>. QED  BY <1>2, <2>1, <4>1 DEF Appends
    <3>. QED  BY <1>1, <1>7, <1>8, <1>9, <1>10, <1>11, <2>1, <3>1
  <2>2. CASE reason = FirstRefusal(intent) /\ stats' = Counting(status = "APPROVED")
    <3>1. intent.signed
      BY <1>2, <1>4, <2>2
    <3>2. stats' = [total |-> n + 1, approved |-> m + (IF status = "APPROVED" THEN 1 ELSE 0),
                    rejected |-> k + (IF status = "APPROVED" THEN 0 ELSE 1)]
      BY <1>1, <1>7, <1>8, <1>9, <2>2 DEF Counting
    <3>. QED  BY <1>10, <1>11, <3>1, <3>2
  <2>. QED  BY <2>1, <2>2
<1>13. TrailInv'
  BY <1>3, <1>12 DEF TrailInv
<1>14. RaisedInv'
  BY <1>1, <1>2 DEF RaisedInv
<1>15. WindowInv'
  BY WindowAppended
<1>16. RateRespected(chain)'
  BY RateAppended
<1>. QED  BY <1>1, <1>2, <1>5, <1>6, <1>13, <1>14, <1>15, <1>16 DEF ConscienceInv

LEMMA RaisesStep ==
  ASSUME ConscienceInv, NEW intent, intent \in Intents, EvaluationRaises(intent), UNCHANGED <<clock, engine>>
  PROVE  ConscienceInv'
<1>1. PICK P : P = engine.policies
  OBVIOUS
<1>2. PICK n : n = Cardinality(raised)
  OBVIOUS
<1>3. PICK e : e = [id |-> n, agent |-> intent.agent, at |-> clock]
  OBVIOUS
<1>4. /\ \/ FirstRefusal(intent) > Len(P)
         \/ ~Refuses(P[FirstRefusal(intent)], intent)
      /\ history' = Asked(intent) /\ raised' = raised \cup {e}
      /\ chain' = chain /\ stats' = stats /\ clock' = clock /\ engine' = engine
  BY <1>1, <1>2, <1>3 DEF EvaluationRaises, AllPass
<1>5. /\ clock \in Int /\ PoliciesInv /\ RaisedInv /\ AList(chain) /\ TrailInv
      /\ history \in [RateRules -> [Agents -> Seq(Int)]]
  BY DEF ConscienceInv, TrailInv
<1>6. P \in Seq(Rules) /\ Len(P) \in Nat
  BY <1>1, <1>5 DEF PoliciesInv
<1>7. e.id = n /\ e.agent = intent.agent /\ e.at = clock
  BY <1>3
<1>8. IsFiniteSet(raised) /\ n \in Nat /\ e \notin raised
  <2>1. IsFiniteSet(raised) /\ n \in Nat
    BY <1>2, <1>5, FS_CardinalityType DEF RaisedInv
  <2>2. \A l \in raised : l.id \in 0 .. n - 1
    BY <1>2, <1>5 DEF RaisedInv
  <2>. QED  BY <1>7, <2>1, <2>2
<1>9. IsFiniteSet(raised') /\ Cardinality(raised') = n + 1
  BY <1>2, <1>4, <1>8, FS_AddElement
<1>10. RaisedInv'
  <2>1. ASSUME NEW l \in raised'
        PROVE  l.id \in 0 .. (n + 1) - 1 /\ l.at \in Int /\ l.at <= clock
    <3>1. CASE l \in raised
      <4>1. l.id \in 0 .. n - 1 /\ l.at \in Int /\ l.at <= clock
        BY <1>2, <1>5, <3>1 DEF RaisedInv
      <4>. QED  BY <1>8, <4>1
    <3>2. CASE l = e
      BY <1>5, <1>7, <1>8, <3>2
    <3>. QED  BY <1>4, <3>1, <3>2
  <2>. QED  BY <1>4, <1>9, <2>1 DEF RaisedInv
<1>11. history' \in [RateRules -> [Agents -> Seq(Int)]]
  BY <1>4, <1>5, AskedIs
<1>12. PoliciesInv'
  BY <1>4, <1>5 DEF PoliciesInv
<1>13. TrailInv'
  <2>1. ASSUME NEW i \in 1 .. Len(chain)
        PROVE  Told(chain[i])'
    <3>1. Told(chain[i])
      BY <1>5 DEF TrailInv
    <3>. QED  BY <1>4, <3>1 DEF Told, Weighted, RiskScore
  <2>2. SignedOnes' = SignedOnes /\ ApprovedOnes' = ApprovedOnes
    BY <1>4 DEF SignedOnes, ApprovedOnes
  <2>. QED  BY <1>4, <1>5, <2>1, <2>2 DEF TrailInv
<1>14. WindowInv'
  <2>1. SUFFICES ASSUME NEW place \in 1 .. Len(P), P[place].kind = "rate",
                        NEW a \in Agents, NEW b \in Int, b > clock - P[place].window_seconds
                 PROVE  Cardinality(Since(history'[P[place]][a], b))
                          = Cardinality(GotPast(place, a, b)') + Cardinality(Lost(a, b)')
    BY <1>1, <1>4 DEF WindowInv
  <2>2. PICK old : old = Cardinality(Since(history[P[place]][a], b))
    OBVIOUS
  <2>3. old = Cardinality(GotPast(place, a, b)) + Cardinality(Lost(a, b))
    BY <1>1, <2>1, <2>2 DEF ConscienceInv, WindowInv
  <2>4. GotPast(place, a, b)' = GotPast(place, a, b)
    BY <1>4 DEF GotPast
  <2>5. Cardinality(GotPast(place, a, b)) \in Nat /\ Cardinality(Lost(a, b)) \in Nat /\ IsFiniteSet(Lost(a, b))
    BY <1>5, PlacesFinite, RaisedFinite
  <2>6. Cardinality(Lost(a, b)') = Cardinality(Lost(a, b)) + (IF a = intent.agent /\ b <= clock THEN 1 ELSE 0)
    <3>1. PICK A : A = Lost(a, b)
      OBVIOUS
    <3>2. PICK B : B = Lost(a, b)'
      OBVIOUS
    <3>3. e \notin A
      BY <1>8, <3>1 DEF Lost
    <3>4. \A l : l \in B <=> l \in A \/ (l = e /\ a = intent.agent /\ b <= clock)
      BY <1>4, <1>5, <1>7, <3>1, <3>2 DEF Lost
    <3>5. B = IF a = intent.agent /\ b <= clock THEN A \cup {e} ELSE A
      <4>1. CASE a = intent.agent /\ b <= clock
        BY <3>4, <4>1
      <4>2. CASE ~(a = intent.agent /\ b <= clock)
        BY <3>4, <4>2
      <4>. QED  BY <4>1, <4>2
    <3>6. IsFiniteSet(A)
      BY <2>5, <3>1
    <3>7. Cardinality(B) = Cardinality(A) + (IF a = intent.agent /\ b <= clock THEN 1 ELSE 0)
      BY <3>3, <3>5, <3>6, OneMore
    <3>. QED  BY <3>1, <3>2, <3>7
  <2>7. history'[P[place]][a] = LeftOf(intent, place, a)
    BY <1>1, <1>4, <1>5, <2>1, AskedIs
  <2>8. Cardinality(Since(LeftOf(intent, place, a), b))
          = old + (IF a = intent.agent /\ b <= clock THEN 1 ELSE 0)
    <3>1. Watched(place, a, b)
      BY <1>1, <2>1 DEF Watched
    <3>2. Cardinality(Since(LeftOf(intent, place, a), b))
            = old + (IF a = intent.agent /\ place < FirstRefusal(intent) /\ b <= clock THEN 1 ELSE 0)
      BY <1>1, <1>5, <2>2, <3>1, LeftCount
    <3>3. place < FirstRefusal(intent)
      <4>1. PICK f : f = FirstRefusal(intent)
        OBVIOUS
      <4>2. f \in 1 .. Len(P) + 1 /\ (f <= Len(P) => Refuses(P[f], intent) \/ PolicyRaises(P[f], intent))
        BY <1>1, <1>6, <4>1, FirstRefusalIs
      <4>3. CASE f > Len(P)
        BY <1>6, <4>1, <4>2, <4>3
      <4>4. CASE f \in 1 .. Len(P)
        <5>1. PolicyRaises(P[f], intent)
          BY <1>4, <1>6, <4>1, <4>2, <4>4
        <5>2. P[f].kind = "amount" /\ Priority(P[f]) = 500 /\ Priority(P[place]) = 800
          BY <2>1, <5>1 DEF PolicyRaises, Priority
        <5>3. ~(f < place)
          <6>1. f < place => Priority(P[f]) >= Priority(P[place])
            BY <1>1, <1>5, <4>4 DEF PoliciesInv
          <6>. QED  BY <5>2, <6>1
        <5>4. f # place
          BY <2>1, <5>2
        <5>. QED  BY <1>6, <4>1, <4>4, <5>3, <5>4
      <4>. QED  BY <1>6, <4>2, <4>3, <4>4
    <3>. QED  BY <3>2, <3>3
  <2>. QED  BY <2>3, <2>4, <2>5, <2>6, <2>7, <2>8
<1>15. RateRespected(chain)'
  <2>1. ASSUME NEW i \in DOMAIN chain, NEW place \in DOMAIN P
        PROVE  RateOf(i, place)'
    <3>1. RateOf(i, place)
      BY <1>1, <2>1, RateRespectedIs DEF ConscienceInv
    <3>2. PICK w : w = P[place].window_seconds
      OBVIOUS
    <3>3. Past(i, place, w)' = Past(i, place, w)
      BY <1>4 DEF Past
    <3>4. Gone(i, w) \in SUBSET Gone(i, w)'
      BY <1>4 DEF Gone
    <3>5. IsFiniteSet(Gone(i, w)') /\ Cardinality(Gone(i, w)') \in Nat
      <4>1. RaisedInv' => IsFiniteSet(Gone(i, w)') /\ Cardinality(Gone(i, w)') \in Nat
        <5>1. Gone(i, w)' \in SUBSET raised'
          BY DEF Gone
        <5>2. IsFiniteSet(Gone(i, w)')
          BY <1>9, <5>1, FS_Subset
        <5>. QED  BY <5>2, FS_CardinalityType
      <4>. QED  BY <1>10, <4>1
    <3>6. Cardinality(Gone(i, w)) <= Cardinality(Gone(i, w)')
      BY <3>4, <3>5, FS_Subset
    <3>7. Cardinality(Past(i, place, w)) \in Nat /\ Cardinality(Gone(i, w)) \in Nat
      <4>1. Len(chain) \in Nat /\ i \in 1 .. Len(chain)
        BY <1>5, PlacesFinite
      <4>2. Past(i, place, w) \subseteq 1 .. Len(chain)
        BY <4>1 DEF Past
      <4>. QED  BY <1>5, <4>1, <4>2, PartOf1, RaisedFinite
    <3>8. P[place].kind = "rate" => P[place].max_requests \in Int
      <4>1. P[place] \in Rules
        BY <1>6
      <4>. QED  BY <4>1, ConscienceAssumption
    <3>. QED  BY <1>1, <1>4, <3>1, <3>2, <3>3, <3>5, <3>6, <3>7, <3>8 DEF RateOf
  <2>2. (RateRespected(chain) <=> \A i \in DOMAIN chain, place \in DOMAIN engine.policies : RateOf(i, place))'
    BY RateRespectedIs, PTL
  <2>. QED  BY <1>1, <1>4, <2>1, <2>2
<1>. QED  BY <1>4, <1>5, <1>10, <1>11, <1>12, <1>13, <1>14, <1>15 DEF ConscienceInv

(* The levels that are not approved begin at the third bound.              *)
LEMMA HighLevels ==
  ASSUME NEW b1 \in Int, NEW b2 \in Int, NEW b3 \in Int, NEW b4 \in Int, b1 < b2, b2 < b3, b3 < b4,
         NEW score \in Int
  PROVE  Levels[1 + Cardinality({bound \in {b1, b2, b3, b4} : score >= bound})] \in {"HIGH", "CRITICAL"}
           <=> score >= b3
<1>1. PICK D : D = {bound \in {b1, b2, b3, b4} : score >= bound}
  OBVIOUS
<1>2. /\ Cardinality({}) = 0 /\ Cardinality({b1}) = 1 /\ Cardinality({b1, b2}) = 2
      /\ Cardinality({b1, b2, b3}) = 3 /\ Cardinality({b1, b2, b3, b4}) = 4
  <2>1. Cardinality({b1}) = 1 /\ IsFiniteSet({b1})
    BY FS_Singleton
  <2>2. PICK A : A = {b1} \cup {b2}
    OBVIOUS
  <2>3. PICK B : B = A \cup {b3}
    OBVIOUS
  <2>4. PICK C : C = B \cup {b4}
    OBVIOUS
  <2>5. b2 \notin {b1} /\ b3 \notin A /\ b4 \notin B
    BY <2>2, <2>3
  <2>6. IsFiniteSet(A) /\ Cardinality(A) = 2
    BY <2>1, <2>2, <2>5, FS_AddElement
  <2>7. IsFiniteSet(B) /\ Cardinality(B) = 3
    BY <2>3, <2>5, <2>6, FS_AddElement
  <2>8. IsFiniteSet(C) /\ Cardinality(C) = 4
    BY <2>4, <2>5, <2>7, FS_AddElement
  <2>9. A = {b1, b2} /\ B = {b1, b2, b3} /\ C = {b1, b2, b3, b4}
    BY <2>2, <2>3, <2>4
  <2>. QED  BY <2>1, <2>6, <2>7, <2>8, <2>9, FS_EmptySet
<1>3. CASE score < b1
  <2>1. D = {}
    BY <1>1, <1>3
  <2>2. Levels[1 + Cardinality(D)] = "SAFE"
    BY <1>2, <2>1 DEF Levels
  <2>. QED  BY <1>1, <1>3, <2>2
<1>4. CASE score >= b1 /\ score < b2
  <2>1. D = {b1}
    BY <1>1, <1>4
  <2>2. Levels[1 + Cardinality(D)] = "LOW"
    BY <1>2, <2>1 DEF Levels
  <2>. QED  BY <1>1, <1>4, <2>2
<1>5. CASE score >= b2 /\ score < b3
  <2>1. D = {b1, b2}
    BY <1>1, <1>5
  <2>2. Levels[1 + Cardinality(D)] = "MEDIUM"
    BY <1>2, <2>1 DEF Levels
  <2>. QED  BY <1>1, <1>5, <2>2
<1>6. CASE score >= b3 /\ score < b4
  <2>1. D = {b1, b2, b3}
    BY <1>1, <1>6
  <2>2. Levels[1 + Cardinality(D)] = "HIGH"
    BY <1>2, <2>1 DEF Levels
  <2>. QED  BY <1>1, <1>6, <2>2
<1>7. CASE score >= b4
  <2>1. D = {b1, b2, b3, b4}
    BY <1>1, <1>7
  <2>2. Levels[1 + Cardinality(D)] = "CRITICAL"
    BY <1>2, <2>1 DEF Levels
  <2>. QED  BY <1>1, <1>7, <2>2
<1>. QED  BY <1>3, <1>4, <1>5, <1>6, <1>7

LEMMA ScoreType ==
  ASSUME NEW intent, intent \in Intents, ~AnalyzeRaises(intent)
  PROVE  RiskScore(intent) \in Int
<1>1. /\ intent.amount \in Int /\ intent.dosage \in Int /\ intent.entity_risk \in Int
      /\ intent.max_safe_dosage \in Nat
  BY ConscienceAssumption
<1>2. \A a, b \in Int : Least(a, b) \in Int
  BY DEF Least
<1>3. \A a, b, c, d \in Int : Weighed(a, b, c, d) \in Int
  BY DEF Weighed
<1>4. CASE engine.domain = "fintech"
  <2>1. PICK risk : risk = intent.entity_risk
    OBVIOUS
  <2>2. PICK financial : financial = Least(intent.amount, 1000)
    OBVIOUS
  <2>3. RiskScore(intent) = Weighed(financial, 100 * risk, 100, 50 * risk)
    BY <1>4, <2>1, <2>2 DEF RiskScore
  <2>4. financial \in Int
    <3>1. PICK amount \in Int : amount = intent.amount
      BY <1>1
    <3>2. PICK bound \in Int : bound = 1000
      OBVIOUS
    <3>3. financial = Least(amount, bound)
      BY <2>2, <3>1, <3>2
    <3>. QED  BY <1>2, <3>3
  <2>5. 100 * risk \in Int /\ 50 * risk \in Int
    BY <1>1, <2>1, SMT
  <2>. QED  BY <1>3, <2>3, <2>4, <2>5, SMT
<1>5. CASE engine.domain = "medtech"
  <2>1. PICK m : m = intent.max_safe_dosage
    OBVIOUS
  <2>2. PICK q : q = (1000 * intent.dosage) \div m
    OBVIOUS
  <2>3. PICK safety : safety = Least(q, 1000)
    OBVIOUS
  <2>4. m \in Nat /\ m > 0
    BY <1>1, <1>5, <2>1 DEF AnalyzeRaises
  <2>5. q \in Int
    BY <1>1, <2>2, <2>4
  <2>6. safety \in Int
    BY <1>2, <2>3, <2>5
  <2>7. PICK c : c = IF intent.dosage > m THEN 200 ELSE 100
    OBVIOUS
  <2>8. RiskScore(intent) = Weighed(100, c, safety, (8 * safety) \div 10)
    BY <1>5, <2>1, <2>2, <2>3, <2>7 DEF RiskScore
  <2>9. (8 * safety) \div 10 \in Int /\ c \in Int /\ 100 \in Int
    BY <2>6, <2>7
  <2>. QED  BY <1>3, <2>6, <2>8, <2>9
<1>6. CASE engine.domain \notin {"fintech", "medtech"}
  BY <1>6 DEF RiskScore
<1>. QED  BY <1>4, <1>5, <1>6

LEMMA LevelOf ==
  ASSUME NEW score, score \in Int
  PROVE  RiskLevel(score) \in {"HIGH", "CRITICAL"} <=> ~(score < 60000)
<1>1. RiskLevel(score) \in {"HIGH", "CRITICAL"} <=> score >= 60000
  BY HighLevels, SMT DEF RiskLevel
<1>. QED  BY <1>1

LEMMA EvaluateStep ==
  ASSUME ConscienceInv, NEW intent, intent \in Intents, EvaluateIntent(intent)
  PROVE  ConscienceInv'
<1>1. PICK P : P = engine.policies
  OBVIOUS
<1>2. PICK f : f = FirstRefusal(intent)
  OBVIOUS
<1>3. P \in Seq(Rules) /\ Len(P) \in Nat
  BY <1>1 DEF ConscienceInv, PoliciesInv
<1>4. /\ f \in 1 .. Len(P) + 1
      /\ \A place \in 1 .. Len(P) : place < f => ~Forbids(P[place], intent)
  <2>1. f \in 1 .. Len(P) + 1 /\ \A place \in 1 .. Len(P) : place < f => ~Refuses(P[place], intent)
    BY <1>1, <1>2, <1>3, FirstRefusalIs
  <2>. QED  BY <2>1 DEF Refuses, Forbids
<1>5. clock' = clock /\ engine' = engine
  BY DEF EvaluateIntent
<1>6. CASE Unsigned(intent)
  <2>1. Appends(intent, "CRITICAL", "REJECTED", 0)
    BY <1>1, <1>3, <1>5, <1>6 DEF Unsigned, Appends
  <2>2. history' = history /\ stats' = stats /\ raised' = raised
    BY <1>6 DEF Unsigned
  <2>. QED  BY <2>1, <2>2, RecordedStep
<1>7. CASE PolicyViolated(intent)
  <2>1. /\ intent.signed /\ ~(f > Len(P)) /\ history' = Asked(intent)
        /\ chain' = Append(chain, AuditRecord(intent, "CRITICAL", "REJECTED", f))
        /\ stats' = Counting("REJECTED" = "APPROVED") /\ raised' = raised
    BY <1>1, <1>2, <1>7 DEF PolicyViolated, Verdict, AllPass
  <2>2. Appends(intent, "CRITICAL", "REJECTED", f)
    BY <1>1, <1>3, <1>4, <1>5, <2>1 DEF Appends
  <2>. QED  BY <1>2, <2>1, <2>2, RecordedStep
<1>8. CASE RiskJudged(intent)
  <2>1. PICK level : level = RiskLevel(RiskScore(intent))
    OBVIOUS
  <2>2. PICK status : status = IF level \in {"HIGH", "CRITICAL"} THEN "REJECTED" ELSE "APPROVED"
    OBVIOUS
  <2>3. /\ intent.signed /\ f > Len(P) /\ ~AnalyzeRaises(intent) /\ history' = Asked(intent)
        /\ chain' = Append(chain, AuditRecord(intent, level, status, f))
        /\ stats' = Counting(status = "APPROVED") /\ raised' = raised
    BY <1>1, <1>2, <1>8, <2>1, <2>2 DEF RiskJudged, Verdict, AllPass
  <2>4. f = Len(P) + 1
    BY <1>3, <1>4, <2>3
  <2>5. Weighted(level, status, intent)
    <3>1. RiskScore(intent) \in Int
      BY <2>3, ScoreType
    <3>2. level \in {"HIGH", "CRITICAL"} <=> ~(RiskScore(intent) < 60000)
      BY <2>1, <3>1, LevelOf
    <3>. QED  BY <2>1, <2>2, <3>2 DEF Weighted
  <2>6. Appends(intent, level, status, f)
    BY <1>1, <1>3, <1>4, <1>5, <2>3, <2>4, <2>5 DEF Appends
  <2>. QED  BY <1>2, <2>3, <2>6, RecordedStep
<1>9. CASE EvaluationRaises(intent)
  BY <1>5, <1>9, RaisesStep
<1>. QED  BY <1>6, <1>7, <1>8, <1>9 DEF EvaluateIntent

LEMMA IdleStep == ConscienceInv /\ UNCHANGED conscienceVars => ConscienceInv'
<1>1. SUFFICES ASSUME ConscienceInv, UNCHANGED conscienceVars
               PROVE  ConscienceInv'
  OBVIOUS
<1>2. /\ engine' = engine /\ history' = history /\ chain' = chain /\ stats' = stats
      /\ raised' = raised /\ clock' = clock
  BY <1>1 DEF conscienceVars
<1>3. PoliciesInv => PoliciesInv'
  BY <1>2 DEF PoliciesInv
<1>4. TrailInv => TrailInv'
  <2>1. SignedOnes' = SignedOnes /\ ApprovedOnes' = ApprovedOnes
    BY <1>2 DEF SignedOnes, ApprovedOnes
  <2>2. \A i : Told(chain[i]) => Told(chain[i])'
    BY <1>2 DEF Told, Weighted, RiskScore
  <2>. QED  BY <1>2, <2>1, <2>2 DEF TrailInv
<1>5. RaisedInv => RaisedInv'
  BY <1>2 DEF RaisedInv
<1>6. WindowInv => WindowInv'
  <2>1. \A place, a, b : GotPast(place, a, b)' = GotPast(place, a, b) /\ Lost(a, b)' = Lost(a, b)
    BY <1>2 DEF GotPast, Lost
  <2>. QED  BY <1>2, <2>1 DEF WindowInv
<1>7. RateRespected(chain) => RateRespected(chain)'
  BY <1>2 DEF RateRespected
<1>. QED  BY <1>1, <1>2, <1>3, <1>4, <1>5, <1>6, <1>7 DEF ConscienceInv

(* The invariant that makes the trail explain the verdicts: within the     *)
(* window, what a rate limit remembers of an agent is what the trail and   *)
(* the calls that raised show of it.                                       *)
THEOREM ConscienceInvAlways == ConscienceSpec => []ConscienceInv
<1>1. ConscienceInv /\ [ConscienceNext]_conscienceVars => ConscienceInv'
  <2>1. SUFFICES ASSUME ConscienceInv, [ConscienceNext]_conscienceVars
                 PROVE  ConscienceInv'
    OBVIOUS
  <2>2. CASE ClockTick
    BY <2>1, <2>2, TickStep
  <2>3. CASE \E rule \in Rules : RegisterPolicy(rule)
    BY <2>1, <2>3, RegisterStep
  <2>4. CASE \E intent \in Intents : EvaluateIntent(intent)
    BY <2>1, <2>4, EvaluateStep
  <2>5. CASE UNCHANGED conscienceVars
    BY <2>1, <2>5, IdleStep
  <2>. QED  BY <2>1, <2>2, <2>3, <2>4, <2>5 DEF ConscienceNext
<1>. QED  BY ConscienceStarts, <1>1, PTL DEF ConscienceSpec

LEMMA TrailTells == ConscienceInv => TrailExplains
<1>1. SUFFICES ASSUME ConscienceInv
               PROVE  TrailExplains
  OBVIOUS
<1>2. PICK P : P = engine.policies
  OBVIOUS
<1>3. /\ AList(chain) /\ ChainVerifies(chain) /\ RateRespected(chain)
      /\ \A i \in 1 .. Len(chain) : Told(chain[i])
      /\ stats = [total |-> Cardinality(SignedOnes), approved |-> Cardinality(ApprovedOnes),
                  rejected |-> Cardinality(SignedOnes \ ApprovedOnes)]
  BY <1>1 DEF ConscienceInv, TrailInv
<1>4. /\ P \in Seq(Rules) /\ Len(P) \in Nat /\ DOMAIN P = 1 .. Len(P)
      /\ \A i, j \in 1 .. Len(P) : i < j => Priority(P[i]) >= Priority(P[j])
  <2>1. P \in Seq(Rules) /\ \A i, j \in 1 .. Len(P) : i < j => Priority(P[i]) >= Priority(P[j])
    BY <1>1, <1>2 DEF ConscienceInv, PoliciesInv
  <2>. QED  BY <2>1
<1>5. DOMAIN chain = 1 .. Len(chain) /\ AuditTrail(0) = chain
  BY <1>3, PlacesFinite DEF AuditTrail
<1>6. SignedOnes = {i \in DOMAIN chain : chain[i].intent.signed}
      /\ ApprovedOnes = {i \in DOMAIN chain : chain[i].status = "APPROVED"}
  BY <1>5 DEF SignedOnes, ApprovedOnes
<1>7. ApprovedOnes \subseteq SignedOnes
  BY <1>2, <1>3, <1>4 DEF ApprovedOnes, SignedOnes, Told
<1>8. ASSUME NEW i \in ApprovedOnes, NEW place \in DOMAIN P
      PROVE  ~Forbids(P[place], chain[i].intent) /\ chain[i].reason > Len(P)
  <2>1. i \in 1 .. Len(chain) /\ chain[i].intent.signed /\ chain[i].status = "APPROVED"
    BY <1>7 DEF ApprovedOnes, SignedOnes
  <2>2. chain[i].reason = Len(P) + 1
    BY <1>2, <1>3, <2>1 DEF Told
  <2>3. place \in 1 .. Len(P) /\ place < chain[i].reason
    BY <1>4, <2>2
  <2>. QED  BY <1>2, <1>3, <1>4, <2>1, <2>2, <2>3 DEF Told
<1>10. RiskRespected(chain)
  <2>1. SUFFICES ASSUME NEW i \in 1 .. Len(chain), chain[i].intent.signed, chain[i].reason > Len(P)
                 PROVE  Weighted(chain[i].risk_level, chain[i].status, chain[i].intent)
    BY <1>2, <1>5 DEF RiskRespected, Weighted
  <2>2. Told(chain[i])
    BY <1>3
  <2>3. chain[i].reason = Len(P) + 1
    BY <1>2, <1>4, <2>1, <2>2 DEF Told
  <2>. QED  BY <1>2, <2>2, <2>3 DEF Told
<1>9. ASSUME NEW i \in SignedOnes, NEW place \in DOMAIN P,
             P[place].kind = "sanctions", chain[i].intent.sanctioned
      PROVE  chain[i].reason <= place /\ P[chain[i].reason].kind = "sanctions"
  <2>1. PICK at : at = chain[i].reason
    OBVIOUS
  <2>2. /\ i \in 1 .. Len(chain) /\ chain[i].intent.signed
        /\ at \in 1 .. Len(P) + 1 /\ place \in 1 .. Len(P)
    BY <1>2, <1>3, <1>4, <2>1 DEF SignedOnes, Told
  <2>3. Forbids(P[place], chain[i].intent)
    BY <1>9 DEF Forbids
  <2>4. at <= place
    BY <1>2, <1>3, <1>4, <2>1, <2>2, <2>3 DEF Told
  <2>5. P[at].kind = "sanctions"
    <3>1. CASE at = place
      BY <1>9, <3>1
    <3>2. CASE at < place
      <4>1. at \in 1 .. Len(P) /\ P[at] \in Rules /\ Priority(P[at]) >= Priority(P[place])
        BY <1>4, <2>2, <3>2
      <4>2. Priority(P[place]) = 1000
        BY <1>9 DEF Priority
      <4>3. P[at].kind \in {"sanctions", "rate", "amount"}
        BY <4>1, ConscienceAssumption
      <4>4. Priority(P[at]) >= 1000
        BY <4>1, <4>2
      <4>5. P[at].kind = "rate" => Priority(P[at]) = 800
        BY DEF Priority
      <4>6. P[at].kind = "amount" => Priority(P[at]) = 500
        BY DEF Priority
      <4>. QED  BY <4>3, <4>4, <4>5, <4>6
    <3>. QED  BY <1>4, <2>2, <2>4, <3>1, <3>2
  <2>. QED  BY <2>1, <2>4, <2>5
<1>. QED  BY <1>2, <1>3, <1>5, <1>6, <1>7, <1>8, <1>9, <1>10 DEF TrailExplains

(* The audit trail explains every verdict, whatever the policies and the   *)
(* intents, and whatever raises: evaluate_intent, RateLimitPolicy.evaluate.*)
THEOREM TrailExplainsAlways == ConscienceSpec => []TrailExplains
BY ConscienceInvAlways, TrailTells, PTL

-----------------------------------------------------------------------------
(* The answers of the run server.                                          *)

(* Every event is of the agent of exactly one of the first events.         *)
IsOfFirst(which, E, F) ==
  /\ which \in [1 .. Len(E) -> 1 .. Len(F)]
  /\ \A i \in 1 .. Len(E) : \A k \in 1 .. Len(F) : which[i] = k <=> E[i].agent = F[k].agent

LEMMA EventsFirsts ==
  ASSUME NEW E, AreEvents(E)
  PROVE  Len(Firsts(E)) \in Nat /\ \E which : IsOfFirst(which, E, Firsts(E))
<1>1. PICK S : E \in Seq(S)
  BY DEF AreEvents
<1>2. PICK n : n = Len(E)
  OBVIOUS
<1>3. n \in Nat
  BY <1>1, <1>2
<1>4. PICK keep : keep = {i \in 1 .. n : \A j \in 1 .. i - 1 : E[j].agent # E[i].agent}
  OBVIOUS
<1>5. PICK F : F = Firsts(E)
  OBVIOUS
<1>6. F = Picked(E, keep)
  BY <1>2, <1>4, <1>5 DEF Firsts
<1>7. PICK at : PickOf(F, at, E, keep)
  BY <1>1, <1>6, PickedPlaces
<1>8. PICK m : m = Len(F)
  OBVIOUS
<1>9. /\ m \in Nat
      /\ \A k \in 1 .. m : at[k] \in keep /\ at[k] \in 1 .. n /\ F[k] = E[at[k]]
      /\ \A k \in 1 .. m : \A l \in 1 .. m : k < l => at[k] < at[l]
      /\ \A i \in 1 .. n : i \in keep => \E k \in 1 .. m : at[k] = i
  BY <1>2, <1>7, <1>8 DEF PickOf
<1>10. ASSUME NEW i \in 1 .. n
       PROVE  \E k \in 1 .. m : F[k].agent = E[i].agent
  <2>1. PICK D : D = {j \in 1 .. n : E[j].agent = E[i].agent}
    OBVIOUS
  <2>2. D \subseteq Nat /\ i \in D
    BY <2>1
  <2>3. PICK j \in D : \A l \in D : j <= l
    BY <2>2, NatLeast
  <2>4. j \in 1 .. n /\ E[j].agent = E[i].agent
    BY <2>1
  <2>5. ASSUME NEW l \in 1 .. j - 1
        PROVE  E[l].agent # E[j].agent
    <3>1. l \in 1 .. n /\ ~(j <= l)
      BY <1>3, <2>4
    <3>2. l \notin D
      BY <2>3, <3>1
    <3>. QED  BY <2>1, <2>4, <3>1, <3>2
  <2>6. j \in keep
    BY <1>4, <2>4, <2>5
  <2>7. PICK k \in 1 .. m : at[k] = j
    BY <1>9, <2>4, <2>6
  <2>. QED  BY <1>9, <2>4, <2>7
<1>11. ASSUME NEW k \in 1 .. m, NEW l \in 1 .. m, k < l
       PROVE  F[k].agent # F[l].agent
  <2>1. at[k] \in 1 .. n /\ at[l] \in 1 .. n /\ at[k] < at[l] /\ at[l] \in keep
    BY <1>9, <1>11
  <2>2. at[k] \in 1 .. at[l] - 1
    BY <1>3, <2>1
  <2>3. E[at[k]].agent # E[at[l]].agent
    BY <1>4, <2>1, <2>2
  <2>. QED  BY <1>9, <2>3
<1>12. \A k, l \in 1 .. m : F[k].agent = F[l].agent => k = l
  <2>1. \A k, l \in 1 .. m : k < l \/ l < k \/ k = l
    BY <1>9
  <2>. QED  BY <1>11, <2>1
<1>13. PICK which : which = [i \in 1 .. n |-> CHOOSE k \in 1 .. m : F[k].agent = E[i].agent]
  OBVIOUS
<1>14. \A i \in 1 .. n : which[i] \in 1 .. m /\ F[which[i]].agent = E[i].agent
  BY <1>10, <1>13
<1>15. IsOfFirst(which, E, F)
  <2>1. which \in [1 .. n -> 1 .. m]
    BY <1>13, <1>14
  <2>2. \A i \in 1 .. n : \A k \in 1 .. m : which[i] = k <=> E[i].agent = F[k].agent
    BY <1>12, <1>14
  <2>. QED  BY <1>2, <1>8, <2>1, <2>2 DEF IsOfFirst
<1>. QED  BY <1>5, <1>8, <1>9, <1>15

(* What is summed up per agent adds up to what is summed up at once.       *)
Values(E, field) == [i \in 1 .. Len(E) |-> IF field = "count" THEN 1 ELSE E[i][field]]

LEMMA StatsAddUp ==
  ASSUME NEW E, AreEvents(E), NEW field \in {"latency", "tokens", "count"}
  PROVE  Total(AgentStats(E), field) = Summed(Values(E, field))
<1>1. PICK S : E \in Seq(S)
  BY DEF AreEvents
<1>2. PICK n : n = Len(E)
  OBVIOUS
<1>3. PICK F : F = Firsts(E)
  OBVIOUS
<1>4. PICK m : m = Len(F)
  OBVIOUS
<1>5. PICK which : IsOfFirst(which, E, F)
  BY <1>3, EventsFirsts
<1>6. n \in Nat /\ m \in Nat
  BY <1>1, <1>2, <1>3, <1>4, EventsFirsts
<1>7. /\ which \in [1 .. n -> 1 .. m]
      /\ \A i \in 1 .. n : \A k \in 1 .. m : which[i] = k <=> E[i].agent = F[k].agent
  BY <1>2, <1>4, <1>5 DEF IsOfFirst
<1>8. PICK s : s = Values(E, field)
  OBVIOUS
<1>9. /\ s = [i \in 1 .. n |-> IF field = "count" THEN 1 ELSE E[i][field]]
      /\ \A i \in 1 .. n : s[i] = (IF field = "count" THEN 1 ELSE E[i][field])
  BY <1>2, <1>8 DEF Values
<1>10. \A i \in 1 .. n : s[i] \in Int
  <2>1. \A i \in 1 .. n : E[i]["latency"] \in Int /\ E[i]["tokens"] \in Int
    BY <1>2 DEF AreEvents
  <2>. QED  BY <1>9, <2>1
<1>11. s \in Seq(Int) /\ Len(s) = n
  BY <1>6, <1>9, <1>10
<1>12. ASSUME NEW k \in 1 .. m
       PROVE  Shared(s, which, k) = Adds(E, F[k].agent, field)
  <2>1. Shared(s, which, k) = [i \in 1 .. n |-> IF which[i] = k THEN s[i] ELSE 0]
    BY <1>11 DEF Shared
  <2>2. Adds(E, F[k].agent, field) =
          [i \in 1 .. n |-> IF E[i].agent # F[k].agent THEN 0
                            ELSE IF field = "count" THEN 1 ELSE E[i][field]]
    BY <1>2 DEF Adds
  <2>3. ASSUME NEW i \in 1 .. n
        PROVE  (IF which[i] = k THEN s[i] ELSE 0) =
               (IF E[i].agent # F[k].agent THEN 0 ELSE IF field = "count" THEN 1 ELSE E[i][field])
    <3>1. which[i] = k <=> E[i].agent = F[k].agent
      BY <1>7
    <3>2. s[i] = (IF field = "count" THEN 1 ELSE E[i][field])
      BY <1>9
    <3>. QED  BY <3>1, <3>2, Zenon
  <2>. QED  BY <2>1, <2>2, <2>3
<1>13. PICK as : as = AgentStats(E)
  OBVIOUS
<1>14. as = [k \in 1 .. m |->
               [agent |-> F[k].agent, latency |-> Summed(Adds(E, F[k].agent, "latency")),
                tokens |-> Summed(Adds(E, F[k].agent, "tokens")),
                count |-> Summed(Adds(E, F[k].agent, "count"))]]
  BY <1>3, <1>4, <1>13 DEF AgentStats
<1>15. Len(as) = m
  BY <1>6, <1>14
<1>16. ASSUME NEW k \in 1 .. m
       PROVE  as[k][field] = Summed(Shared(s, which, k))
  <2>1. as[k]["latency"] = Summed(Adds(E, F[k].agent, "latency"))
    BY <1>14
  <2>2. as[k]["tokens"] = Summed(Adds(E, F[k].agent, "tokens"))
    BY <1>14
  <2>3. as[k]["count"] = Summed(Adds(E, F[k].agent, "count"))
    BY <1>14
  <2>4. as[k][field] = Summed(Adds(E, F[k].agent, field))
    BY <2>1, <2>2, <2>3
  <2>. QED  BY <1>12, <2>4
<1>17. Total(as, field) = Summed([k \in 1 .. m |-> Summed(Shared(s, which, k))])
  <2>1. [k \in 1 .. Len(as) |-> as[k][field]] = [k \in 1 .. m |-> Summed(Shared(s, which, k))]
    BY <1>15, <1>16
  <2>. QED  BY <2>1 DEF Total
<1>18. Summed([k \in 1 .. m |-> Summed(Shared(s, which, k))]) = Summed(s)
  <2>1. which \in [1 .. Len(s) -> 1 .. m]
    BY <1>7, <1>11
  <2>. QED  BY <1>6, <1>11, <2>1, SharedOut
<1>. QED  BY <1>8, <1>13, <1>17, <1>18

(* What RunServed says of the answers about one run.                       *)
AnswersAgree(stored) ==
  LET counts == Stats(stored) replay == Replay(stored) IN
    /\ Listed(stored).latency = counts.latency /\ counts.latency = replay.total
    /\ Listed(stored).tokens = counts.tokens
    /\ Listed(stored).event_count = Len(replay.events)
    /\ Listed(stored).event_count = Total(counts.stats, "count")
    /\ \A i \in DOMAIN replay.events : replay.events[i][2] <= replay.total

Latencies(stored) == [i \in 1 .. Len(stored.events) |-> stored.events[i].latency]

LEMMA LatenciesAre ==
  ASSUME NEW stored, AreEvents(stored.events)
  PROVE  /\ Latencies(stored) \in Seq(Nat) /\ Len(Latencies(stored)) = Len(stored.events)
         /\ Len(stored.events) \in Nat
         /\ \A i \in 1 .. Len(stored.events) : Latencies(stored)[i] = stored.events[i].latency
<1>1. PICK E : E = stored.events
  OBVIOUS
<1>2. PICK S : E \in Seq(S)
  BY <1>1 DEF AreEvents
<1>3. Len(E) \in Nat /\ \A i \in 1 .. Len(E) : E[i].latency \in Nat
  BY <1>1, <1>2 DEF AreEvents
<1>4. PICK l : l = [i \in 1 .. Len(E) |-> E[i].latency]
  OBVIOUS
<1>5. l \in Seq(Nat) /\ Len(l) = Len(E) /\ \A i \in 1 .. Len(E) : l[i] = E[i].latency
  BY <1>3, <1>4
<1>. QED  BY <1>1, <1>3, <1>4, <1>5 DEF Latencies

LEMMA AnswersAgreeAlways ==
  ASSUME NEW stored, AreEvents(stored.events)
  PROVE  AnswersAgree(stored)
<1>1. PICK E : E = stored.events
  OBVIOUS
<1>2. PICK n : n = Len(E)
  OBVIOUS
<1>3. PICK l : l = Latencies(stored)
  OBVIOUS
<1>4. /\ l \in Seq(Nat) /\ Len(l) = n /\ n \in Nat
      /\ l = [i \in 1 .. n |-> E[i].latency]
  BY <1>1, <1>2, <1>3, LatenciesAre DEF Latencies
<1>5. \A i \in 0 .. n : Sums(l)[i] <= Summed(l)
  BY <1>4, SumsGrow
<1>6. PICK counts : counts = AgentStats(E)
  OBVIOUS
<1>7. /\ Total(counts, "latency") = Summed(Values(E, "latency"))
      /\ Total(counts, "tokens") = Summed(Values(E, "tokens"))
      /\ Total(counts, "count") = Summed(Values(E, "count"))
  BY <1>1, <1>6, StatsAddUp
<1>8. Values(E, "latency") = l /\ Total(E, "latency") = Summed(l)
  <2>1. l = [i \in 1 .. n |-> E[i]["latency"]]
    BY <1>4
  <2>2. Values(E, "latency") = [i \in 1 .. n |-> E[i]["latency"]]
    BY <1>2 DEF Values
  <2>. QED  BY <1>2, <2>1, <2>2 DEF Total
<1>9. Summed(Values(E, "tokens")) = Total(E, "tokens")
  <2>1. Values(E, "tokens") = [i \in 1 .. Len(E) |-> E[i]["tokens"]]
    BY DEF Values
  <2>. QED  BY <2>1 DEF Total
<1>10. Summed(Values(E, "count")) = n
  <2>1. Values(E, "count") = [i \in 1 .. n |-> 1]
    BY <1>2 DEF Values
  <2>. QED  BY <1>4, <2>1, SumsOnes
<1>11. PICK s : s = Stats(stored)
  OBVIOUS
<1>12. s.stats = counts /\ s.latency = Total(counts, "latency") /\ s.tokens = Total(counts, "tokens")
  BY <1>1, <1>6, <1>11 DEF Stats
<1>13. PICK r : r = Replay(stored)
  OBVIOUS
<1>14. r.total = Summed(l) /\ r.events = [i \in 1 .. n |-> <<E[i], Sums(l)[i]>>]
  BY <1>1, <1>2, <1>4, <1>13 DEF Replay
<1>15. Len(r.events) = n /\ \A i \in DOMAIN r.events : r.events[i][2] <= r.total
  <2>1. DOMAIN r.events = 1 .. n /\ \A i \in 1 .. n : r.events[i][2] = Sums(l)[i] /\ i \in 0 .. n
    BY <1>4, <1>14
  <2>2. Len(r.events) = n
    BY <1>4, <1>14
  <2>. QED  BY <1>5, <1>14, <2>1, <2>2
<1>16. /\ Listed(stored).event_count = n /\ Listed(stored).latency = Total(E, "latency")
       /\ Listed(stored).tokens = Total(E, "tokens")
  BY <1>1, <1>2 DEF Listed
<1>17. AnswersAgree(stored) <=>
         /\ Listed(stored).latency = s.latency /\ s.latency = r.total
         /\ Listed(stored).tokens = s.tokens
         /\ Listed(stored).event_count = Len(r.events)
         /\ Listed(stored).event_count = Total(s.stats, "count")
         /\ \A i \in DOMAIN r.events : r.events[i][2] <= r.total
  BY <1>11, <1>13 DEF AnswersAgree
<1>. QED  BY <1>7, <1>8, <1>9, <1>10, <1>12, <1>14, <1>15, <1>16, <1>17

-----------------------------------------------------------------------------
(* A fork takes the first events of its parent.                            *)
LEMMA ForkEvents ==
  ASSUME NEW E, AreEvents(E), NEW point
  PROVE  AreEvents(UpToPoint(E, point))
<1>1. PICK S : S = {E[i] : i \in 1 .. Len(E)}
  OBVIOUS
<1>2. E \in Seq(S)
  BY <1>1 DEF AreEvents
<1>3. PICK F : F = UpToPoint(E, point)
  OBVIOUS
<1>4. F \in Seq(S)
  BY <1>2, <1>3, PickedPlaces DEF UpToPoint
<1>5. F \in Seq({F[i] : i \in 1 .. Len(F)})
  BY <1>4
<1>6. \A e \in S : /\ {"agent", "latency", "tokens", "seq"} \subseteq DOMAIN e
                   /\ e.latency \in Nat /\ e.tokens \in Nat
  BY <1>1 DEF AreEvents
<1>7. \A i \in 1 .. Len(F) : F[i] \in S
  BY <1>4
<1>. QED  BY <1>3, <1>5, <1>6, <1>7 DEF AreEvents

LEMMA ForkAgrees ==
  ASSUME NEW parent, AreEvents(parent.events), IsNumbered(parent), NEW fork, NEW point,
         fork.fork_point = point, fork.events = UpToPoint(parent.events, point)
  PROVE  Agrees(fork, parent)
<1>1. PICK E : E = parent.events
  OBVIOUS
<1>2. PICK n : n = Len(E)
  OBVIOUS
<1>3. PICK F : F = fork.events
  OBVIOUS
<1>4. PICK S : E \in Seq(S)
  BY <1>1 DEF AreEvents
<1>5. n \in Nat /\ DOMAIN E = 1 .. n
  BY <1>2, <1>4
<1>6. PICK taken : taken = {i \in 1 .. n : E[i].seq <= point}
  OBVIOUS
<1>7. F = Picked(E, taken)
  BY <1>1, <1>2, <1>3, <1>6 DEF UpToPoint
<1>8. PICK at : PickOf(F, at, E, taken)
  BY <1>4, <1>7, PickedPlaces
<1>9. PICK c : c = Len(F)
  OBVIOUS
<1>10. /\ c \in Nat
       /\ \A k \in 1 .. c : at[k] \in taken /\ at[k] \in 1 .. n /\ F[k] = E[at[k]]
       /\ \A k \in 1 .. c : \A l \in 1 .. c : k < l => at[k] < at[l]
       /\ \A i \in 1 .. n : i \in taken => \E k \in 1 .. c : at[k] = i
  BY <1>2, <1>8, <1>9 DEF PickOf
<1>11. taken \subseteq 1 .. n
  BY <1>6
(* The k-th that is taken has k of them up to its place.                    *)
<1>12. ASSUME NEW k \in 1 .. c
       PROVE  Cardinality({j \in taken : j <= at[k]}) = k
  <2>1. PICK D : D = {j \in taken : j <= at[k]}
    OBVIOUS
  <2>2. AmongKept(D, E, taken)
    BY <1>2, <1>11, <2>1 DEF AmongKept
  <2>3. Cardinality(LeadsTo(F, at, D)) = Cardinality(D)
    BY <1>8, <2>2, PickedCount
  <2>4. LeadsTo(F, at, D) = 1 .. k
    <3>1. ASSUME NEW l \in 1 .. c
          PROVE  at[l] \in D <=> l <= k
      <4>1. at[l] \in 1 .. n /\ at[k] \in 1 .. n /\ at[l] \in taken
        BY <1>10
      <4>2. l <= k => at[l] <= at[k]
        BY <1>10, <4>1
      <4>3. k < l => at[k] < at[l]
        BY <1>10
      <4>. QED  BY <1>5, <1>10, <2>1, <4>1, <4>2, <4>3
    <3>2. \A l : l \in 1 .. k <=> l \in 1 .. c /\ l <= k
      BY <1>10
    <3>. QED  BY <1>9, <3>1, <3>2 DEF LeadsTo
  <2>5. k \in Nat /\ Cardinality(1 .. k) = k
    BY <1>10, UpTo1
  <2>. QED  BY <2>1, <2>3, <2>4, <2>5
<1>13. IsFiniteSet(taken) /\ Cardinality(taken) = c
  <2>1. AmongKept(taken, E, taken)
    BY <1>2, <1>11 DEF AmongKept
  <2>2. Cardinality(LeadsTo(F, at, taken)) = Cardinality(taken)
    BY <1>8, <2>1, PickedCount
  <2>3. LeadsTo(F, at, taken) = 1 .. c
    BY <1>9, <1>10 DEF LeadsTo
  <2>4. Cardinality(1 .. c) = c
    BY <1>10, UpTo1
  <2>. QED  BY <1>5, <1>11, <2>2, <2>3, <2>4, PartOf1
<1>14. \A i \in taken : F[Cardinality({j \in taken : j <= i})] = E[i]
  <2>1. SUFFICES ASSUME NEW i \in taken
                 PROVE  F[Cardinality({j \in taken : j <= i})] = E[i]
    OBVIOUS
  <2>2. PICK k \in 1 .. c : at[k] = i
    BY <1>10, <1>11
  <2>3. F[k] = E[i]
    BY <1>10, <2>2
  <2>4. Cardinality({j \in taken : j <= i}) = k
    BY <1>12, <2>2
  <2>. QED  BY <2>3, <2>4
<1>15. PICK l : l = Latencies(parent)
  OBVIOUS
<1>16. PICK m : m = Latencies(fork)
  OBVIOUS
<1>17. /\ l \in Seq(Nat) /\ Len(l) = n /\ \A i \in 1 .. n : l[i] = E[i].latency
  BY <1>1, <1>2, <1>15, LatenciesAre
<1>18. m \in Seq(Nat) /\ Len(m) = c /\ \A i \in 1 .. c : m[i] = F[i].latency
  <2>1. AreEvents(F)
    BY <1>1, <1>3, ForkEvents
  <2>. QED  BY <1>3, <1>9, <1>16, <2>1, LatenciesAre
<1>19. PICK x : x = Replay(fork).events
  OBVIOUS
<1>20. PICK y : y = Replay(parent).events
  OBVIOUS
<1>21. /\ x = [i \in 1 .. c |-> <<F[i], Sums(m)[i]>>]
       /\ y = [i \in 1 .. n |-> <<E[i], Sums(l)[i]>>]
  BY <1>1, <1>2, <1>3, <1>9, <1>15, <1>16, <1>19, <1>20 DEF Replay, Latencies
<1>22. /\ Len(x) = c /\ Len(y) = n
       /\ \A i \in 1 .. c : x[i] = <<F[i], Sums(m)[i]>>
       /\ \A i \in 1 .. n : y[i] = <<E[i], Sums(l)[i]>>
  BY <1>5, <1>10, <1>21
<1>23. x \in Seq({x[i] : i \in 1 .. c}) /\ y \in Seq({y[i] : i \in 1 .. n})
  <2>1. x = [i \in 1 .. c |-> x[i]]
    BY <1>21
  <2>2. y = [i \in 1 .. n |-> y[i]]
    BY <1>21
  <2>3. x \in Seq({x[i] : i \in 1 .. c})
    BY <1>10, <2>1
  <2>4. y \in Seq({y[i] : i \in 1 .. n})
    BY <1>5, <2>2
  <2>. QED  BY <2>3, <2>4
<1>24. ASSUME taken = 1 .. c
       PROVE  IsPrefix(x, y)
  <2>1. c <= n /\ \A i \in 1 .. c : i \in 1 .. n
    <3>1. \A i \in 1 .. c : i \in 1 .. n
      BY <1>11, <1>24
    <3>2. c # 0 => c \in 1 .. c
      BY <1>10
    <3>3. c # 0 => c \in 1 .. n
      BY <3>1, <3>2
    <3>4. c <= n
      BY <1>5, <1>10, <3>3
    <3>. QED  BY <3>1, <3>4
  <2>2. \A i \in 1 .. c : F[i] = E[i]
    <3>1. SUFFICES ASSUME NEW i \in 1 .. c
                   PROVE  F[i] = E[i]
      OBVIOUS
    <3>2. {j \in taken : j <= i} = 1 .. i
      BY <1>10, <1>24
    <3>3. i \in Nat /\ Cardinality(1 .. i) = i
      BY <1>10, UpTo1
    <3>. QED  BY <1>14, <1>24, <3>2, <3>3
  <2>3. \A i \in 1 .. c : m[i] = l[i]
    BY <1>17, <1>18, <2>1, <2>2
  <2>4. \A i \in 0 .. c : Sums(m)[i] = Sums(l)[i]
    <3>1. m \in Seq(Int) /\ l \in Seq(Int)
      BY <1>17, <1>18
    <3>2. c \in Nat /\ c <= Len(m) /\ c <= Len(l)
      BY <1>10, <1>17, <1>18, <2>1
    <3>. QED  BY <2>3, <3>1, <3>2, SumsAgree
  <2>5. \A i \in 1 .. c : x[i] = y[i]
    BY <1>22, <2>1, <2>2, <2>4
  <2>6. SubSeq(x, 1, c) = [i \in 1 .. c |-> x[i]] /\ SubSeq(y, 1, c) = [i \in 1 .. c |-> y[i]]
    BY <1>5, <1>10, <1>22, <1>23, <2>1
  <2>7. SubSeq(x, 1, c) = SubSeq(y, 1, c)
    BY <2>5, <2>6
  <2>. QED  BY <1>22, <2>1, <2>7 DEF IsPrefix
<1>25. ASSUME IsPrefix(x, y)
       PROVE  taken = 1 .. c
  <2>1. c <= n /\ SubSeq(x, 1, c) = SubSeq(y, 1, c)
    BY <1>22, <1>25 DEF IsPrefix
  <2>2. SubSeq(x, 1, c) = [i \in 1 .. c |-> x[i]] /\ SubSeq(y, 1, c) = [i \in 1 .. c |-> y[i]]
    BY <1>5, <1>10, <1>22, <1>23, <2>1
  <2>3. ASSUME NEW i \in 1 .. c
        PROVE  i \in taken
    <3>1. x[i] = y[i]
      BY <2>1, <2>2
    <3>2. i \in 1 .. n
      BY <1>5, <1>10, <2>1
    <3>3. x[i][1] = F[i] /\ y[i][1] = E[i]
      BY <1>22, <3>2
    <3>4. E[at[i]].seq <= point
      BY <1>6, <1>10
    <3>5. E[i] = E[at[i]]
      BY <1>10, <3>1, <3>3
    <3>. QED  BY <1>6, <3>2, <3>4, <3>5
  <2>4. 1 .. c \in SUBSET taken /\ Cardinality(1 .. c) = Cardinality(taken)
    BY <1>10, <1>13, <2>3, UpTo1
  <2>. QED  BY <1>13, <2>4, FS_Subset
<1>. QED  BY <1>1, <1>2, <1>3, <1>6, <1>9, <1>13, <1>14, <1>19, <1>20, <1>24, <1>25 DEF Agrees

-----------------------------------------------------------------------------
(* What a step leaves of the runs: their events are events, every one of   *)
(* them is a version of its id, and a fork agrees with a version of its    *)
(* parent, whose id is there.                                              *)
ForkedRight(stored, ids, known) ==
  stored.forked_from # NoRun =>
    /\ stored.forked_from \in ids /\ stored.mesh_data = NoRun
    /\ \E v \in known : v.id = stored.forked_from /\ Agrees(stored, v.run)

ServerInv ==
  \A id \in DOMAIN runs_store :
    /\ AreEvents(runs_store[id].events)
    /\ Version(id, runs_store[id]) \in versions
    /\ ForkedRight(runs_store[id], DOMAIN runs_store, versions)

LEMMA ServerInvInit == ServerInit => ServerInv
<1>1. SUFFICES ASSUME ServerInit, NEW id \in DOMAIN runs_store
               PROVE  /\ AreEvents(runs_store[id].events)
                      /\ Version(id, runs_store[id]) \in versions
                      /\ ForkedRight(runs_store[id], DOMAIN runs_store, versions)
  BY DEF ServerInv
<1>2. AreEvents(runs_store[id].events) /\ runs_store[id].forked_from = NoRun
  BY <1>1, RunServerAssumption DEF ServerInit
<1>3. Version(id, runs_store[id]) \in versions
  BY <1>1 DEF ServerInit
<1>. QED  BY <1>2, <1>3 DEF ForkedRight

(* A run is stored that is right itself.                                   *)
LEMMA StoreKeeps ==
  ASSUME ServerInv, NEW id, NEW stored, Store(id, stored), AreEvents(stored.events),
         ForkedRight(stored, DOMAIN runs_store, versions)
  PROVE  ServerInv'
<1>1. PICK ids : ids = DOMAIN runs_store
  OBVIOUS
<1>2. /\ runs_store' = [r \in ids \cup {id} |-> IF r = id THEN stored ELSE runs_store[r]]
      /\ versions' = versions \cup {Version(id, stored)}
  BY <1>1 DEF Store
<1>3. DOMAIN runs_store' = ids \cup {id}
  BY <1>2
<1>4. ASSUME NEW x, ForkedRight(x, ids, versions)
      PROVE  ForkedRight(x, ids \cup {id}, versions')
  BY <1>2, <1>4 DEF ForkedRight
<1>5. ASSUME NEW r \in ids \cup {id}
      PROVE  /\ AreEvents(runs_store'[r].events)
             /\ Version(r, runs_store'[r]) \in versions'
             /\ ForkedRight(runs_store'[r], ids \cup {id}, versions')
  <2>1. CASE r = id
    <3>1. runs_store'[r] = stored
      BY <1>2, <2>1
    <3>. QED  BY <1>1, <1>2, <1>4, <2>1, <3>1
  <2>2. CASE r # id
    <3>1. r \in ids /\ runs_store'[r] = runs_store[r]
      BY <1>2, <2>2
    <3>2. /\ AreEvents(runs_store[r].events) /\ Version(r, runs_store[r]) \in versions
          /\ ForkedRight(runs_store[r], ids, versions)
      BY <1>1, <3>1 DEF ServerInv
    <3>. QED  BY <1>2, <1>4, <3>1, <3>2
  <2>. QED  BY <2>1, <2>2
<1>. QED  BY <1>3, <1>5 DEF ServerInv

LEMMA NumberedEvents ==
  ASSUME NEW E, AreEvents(E)
  PROVE  AreEvents(WithNumbers(E))
<1>1. PICK n : n = Len(E)
  OBVIOUS
<1>2. n \in Nat /\ DOMAIN E = 1 .. n
  BY <1>1 DEF AreEvents
<1>3. PICK F : F = WithNumbers(E)
  OBVIOUS
<1>4. F = [i \in 1 .. n |-> [E[i] EXCEPT !.seq = IF E[i].seq = NoRun THEN i ELSE E[i].seq]]
  BY <1>2, <1>3 DEF WithNumbers
<1>5. Len(F) = n /\ F \in Seq({F[i] : i \in 1 .. n})
  <2>1. F = [i \in 1 .. n |-> F[i]]
    BY <1>4
  <2>2. F \in Seq({F[i] : i \in 1 .. n})
    BY <1>2, <2>1
  <2>3. Len(F) = n
    BY <1>2, <2>1
  <2>. QED  BY <2>2, <2>3
<1>6. ASSUME NEW i \in 1 .. n
      PROVE  /\ {"agent", "latency", "tokens", "seq"} \subseteq DOMAIN F[i]
             /\ F[i].latency \in Nat /\ F[i].tokens \in Nat
  <2>1. PICK e : e = E[i]
    OBVIOUS
  <2>2. /\ {"agent", "latency", "tokens", "seq"} \subseteq DOMAIN e
        /\ e.latency \in Nat /\ e.tokens \in Nat
    BY <1>1, <2>1 DEF AreEvents
  <2>3. PICK x : x = (IF e.seq = NoRun THEN i ELSE e.seq)
    OBVIOUS
  <2>4. F[i] = [e EXCEPT !.seq = x]
    BY <1>4, <2>1, <2>3
  <2>. QED  BY <2>2, <2>4
<1>. QED  BY <1>3, <1>5, <1>6 DEF AreEvents

LEMMA ServerInvStep == ServerInv /\ [ServerNext]_serverVars => ServerInv'
<1>1. SUFFICES ASSUME ServerInv, [ServerNext]_serverVars
               PROVE  ServerInv'
  OBVIOUS
<1>2. ASSUME NEW s \in Submissions, RecordRun(s)
      PROVE  ServerInv'
  <2>1. PICK stored : stored = [status |-> s.status, events |-> WithNumbers(s.events),
                          mesh_data |-> s.mesh_data, forked_from |-> NoRun, fork_point |-> NoRun]
    OBVIOUS
  <2>2. Store(s.run_id, stored)
    BY <1>2, <2>1 DEF RecordRun
  <2>3. AreEvents(s.events)
    BY RunServerAssumption
  <2>4. AreEvents(stored.events)
    BY <2>1, <2>3, NumberedEvents
  <2>5. ForkedRight(stored, DOMAIN runs_store, versions)
    BY <2>1 DEF ForkedRight
  <2>. QED  BY <1>1, <2>2, <2>4, <2>5, StoreKeeps
<1>3. ASSUME NEW id \in DOMAIN runs_store, NEW point \in Points, NEW new \in ForkIds,
             ServeFork(id, point, new)
      PROVE  ServerInv'
  <2>1. PICK parent : parent = runs_store[id]
    OBVIOUS
  <2>2. PICK stored : stored = [status |-> "forked", events |-> UpToPoint(parent.events, point),
                          mesh_data |-> NoRun, forked_from |-> id, fork_point |-> point]
    OBVIOUS
  <2>3. Store(new, stored)
    BY <1>3, <2>1, <2>2 DEF ServeFork
  <2>4. AreEvents(parent.events) /\ Version(id, parent) \in versions
    BY <1>1, <2>1 DEF ServerInv
  <2>5. AreEvents(stored.events)
    BY <2>2, <2>4, ForkEvents
  <2>6. Agrees(stored, parent)
    <3>1. stored.fork_point = point /\ stored.events = UpToPoint(parent.events, point)
      BY <2>2
    <3>2. IsNumbered(parent)
      BY <1>3, <2>1 DEF ServeFork
    <3>. QED  BY <2>4, <3>1, <3>2, ForkAgrees
  <2>7. Version(id, parent).id = id /\ Version(id, parent).run = parent
    BY DEF Version
  <2>8. ForkedRight(stored, DOMAIN runs_store, versions)
    <3>1. stored.forked_from = id /\ stored.mesh_data = NoRun
      BY <2>2
    <3>. QED  BY <2>4, <2>6, <2>7, <3>1 DEF ForkedRight
  <2>. QED  BY <1>1, <2>3, <2>5, <2>8, StoreKeeps
<1>4. CASE LoadData
  <2>1. /\ runs_store' = Shipped
        /\ versions' = {Version(id, Shipped[id]) : id \in DOMAIN Shipped}
    BY <1>4 DEF LoadData
  <2>2. ASSUME NEW id \in DOMAIN Shipped
        PROVE  /\ AreEvents(Shipped[id].events) /\ Version(id, Shipped[id]) \in versions'
               /\ ForkedRight(Shipped[id], DOMAIN Shipped, versions')
    <3>1. AreEvents(Shipped[id].events) /\ Shipped[id].forked_from = NoRun
      BY RunServerAssumption
    <3>2. ForkedRight(Shipped[id], DOMAIN Shipped, versions')
      BY <3>1 DEF ForkedRight
    <3>. QED  BY <2>1, <3>1, <3>2
  <2>. QED  BY <2>1, <2>2 DEF ServerInv
<1>5. CASE UNCHANGED serverVars
  <2>1. runs_store' = runs_store /\ versions' = versions
    BY <1>5 DEF serverVars
  <2>. QED  BY <1>1, <2>1 DEF ServerInv
<1>. QED  BY <1>1, <1>2, <1>3, <1>4, <1>5 DEF ServerNext

LEMMA ServerInvServes == ServerInv => RunServed
<1>1. ASSUME ServerInv, NEW id \in DOMAIN runs_store
      PROVE  LET stored == runs_store[id] IN
             /\ AnswersAgree(stored)
             /\ stored.forked_from # NoRun =>
                  /\ stored.forked_from \in DOMAIN runs_store
                  /\ MeshVotes(id) = 400
                  /\ \E v \in versions : v.id = stored.forked_from /\ Agrees(stored, v.run)
  <2>1. PICK stored : stored = runs_store[id]
    OBVIOUS
  <2>2. AreEvents(stored.events) /\ ForkedRight(stored, DOMAIN runs_store, versions)
    BY <1>1, <2>1 DEF ServerInv
  <2>3. AnswersAgree(stored)
    BY <2>2, AnswersAgreeAlways
  <2>4. stored.mesh_data = NoRun => MeshVotes(id) = 400
    BY <2>1 DEF MeshVotes
  <2>. QED  BY <2>1, <2>2, <2>3, <2>4 DEF ForkedRight
<1>. QED  BY <1>1 DEF RunServed, AnswersAgree

THEOREM ServerInvAlways == ServerSpec => []ServerInv
  BY ServerInvInit, ServerInvStep, PTL DEF ServerSpec

(* RunServed: a fork has the events up to the point of a run that its      *)
(* parent's id once named, whoever numbered them, and the endpoints agree. *)
THEOREM RunServedAlways == ServerSpec => []RunServed
  BY ServerInvAlways, ServerInvServes, PTL

=============================================================================
