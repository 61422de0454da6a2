------------------------------ MODULE RunTimeline ------------------------------
(***************************************************************************)
(* The durable history of LORK's runs: the table run_events, those who     *)
(* write it (RuntimeEngine.execute, cmd/lork-run-workflow.py and           *)
(* cmd/lork-fork-run.py) and those who read it (the replay engine and the  *)
(* time travel debugger).                                                  *)
(*                                                                         *)
(* Each writer is a process with a session of its own.  EventStore.append  *)
(* commits every event before it returns, so other processes act between   *)
(* two events, and one that dies leaves the events it has appended.        *)
(*                                                                         *)
(* The rows of a run are a function from sequence numbers to events:       *)
(* UNIQUE(run_id, sequence) of migrations/0003_run_events.sql makes the    *)
(* second INSERT of a number raise, which ends the writer.  ORDER BY       *)
(* sequence is an ascending walk through the domain.                       *)
(***************************************************************************)
EXTENDS AgentGraph

CONSTANTS
  Executors,   (* calls of RuntimeEngine.execute                             *)
  Workflows,   (* runs of cmd/lork-run-workflow.py                           *)
  Forkers,     (* runs of cmd/lork-fork-run.py                               *)
  Readers,     (* calls of replay or of the debugger's fork                  *)
  Given,       (* the run ids that callers of execute choose from            *)
  Tasks,       (* what they execute: [graph |-> nodes, start |-> an agent]   *)
  Specs,       (* workflow specifications: sequences of agents               *)
  Steps,       (* where readers cut                                          *)
  None

Writers == Executors \cup Workflows \cup Forkers

Processes == Writers \cup Readers

(* A workflow and a fork draw a fresh run id: it is named after them.      *)
Runs == Given \cup Workflows \cup Forkers

ASSUME TimelineAssumption ==
  /\ \A t \in Tasks : IsGraph(t.graph) /\ t.start \in AgentIds
  /\ Specs \subseteq Seq(AgentIds)
  /\ Steps \subseteq Nat
  /\ Given \cap (Workflows \cup Forkers) = {}
  /\ Executors \cap (Workflows \cup Forkers) = {}
  /\ Workflows \cap Forkers = {}
  /\ Readers \cap Writers = {}
  /\ None \notin Runs \cup Tasks

VARIABLES
  run_events,  (* the events of each run, by sequence number                 *)
  pc,          (* where each process is                                      *)
  run,         (* the run that it writes, or that a reader has read          *)
  source,      (* the run that a fork has read                               *)
  task,        (* what an executor executes                                  *)
  script,      (* the rows that it writes, or that a reader holds            *)
  sequence     (* the last number that it has written                        *)

vars == <<run_events, pc, run, source, task, script, sequence>>

Event == [type : {"agent_start", "agent_end", "agent_step"}, agent : AgentIds]

NoRows == [n \in {} |-> None]

IsRows(rows) ==
  /\ rows = [n \in DOMAIN rows |-> rows[n]]
  /\ DOMAIN rows \subseteq Nat \ {0}
  /\ \A n \in DOMAIN rows : rows[n] \in Event

TypeOK ==
  /\ run_events = [r \in Runs |-> run_events[r]]
  /\ \A r \in Runs : IsRows(run_events[r])
  /\ pc \in [Processes -> {"idle", "appending", "holding", "done", "failed", "dead"}]
  /\ run \in [Processes -> Runs \cup {None}]
  /\ source \in [Processes -> Runs \cup {None}]
  /\ task \in [Processes -> Tasks \cup {None}]
  /\ script = [p \in Processes |-> script[p]]
  /\ \A p \in Processes : IsRows(script[p])
  /\ sequence \in [Processes -> Nat]

Init ==
  /\ run_events = [r \in Runs |-> NoRows]
  /\ pc = [p \in Processes |-> "idle"]
  /\ run = [p \in Processes |-> None]
  /\ source = [p \in Processes |-> None]
  /\ task = [p \in Processes |-> None]
  /\ script = [p \in Processes |-> NoRows]
  /\ sequence = [p \in Processes |-> 0]

Goto(p, place) == pc' = [pc EXCEPT ![p] = place]

(* p will write, or holds, these rows.                                     *)
Take(p, rows) == script' = [script EXCEPT ![p] = rows]

(* Two numbers for each agent, from 1 whatever the run already has.        *)
ScriptOf(order) ==
  [n \in 1..(2 * Len(order)) |->
     [type |-> IF n % 2 = 1 THEN "agent_start" ELSE "agent_end",
      agent |-> order[(n + 1) \div 2]]]

(* execute computes the order before it writes anything; the search may    *)
(* raise.                                                                  *)
Execute(x, r, t) ==
  LET order == ExecutionOrder(t.graph, t.start) IN
  /\ pc[x] = "idle"
  /\ Take(x, ScriptOf(order))
  /\ run' = [run EXCEPT ![x] = r]
  /\ task' = [task EXCEPT ![x] = t]
  /\ Goto(x, IF order = <<>> THEN "failed" ELSE "appending")
  /\ UNCHANGED <<run_events, source, sequence>>

RunWorkflow(x, spec) ==
  /\ pc[x] = "idle"
  /\ Take(x, [n \in DOMAIN spec |-> [type |-> "agent_step", agent |-> spec[n]]])
  /\ run' = [run EXCEPT ![x] = x]
  /\ Goto(x, "appending")
  /\ UNCHANGED <<run_events, source, task, sequence>>

(* lork-fork-run reads the whole run, however much of it there is yet, and *)
(* stops when there is nothing.                                            *)
Fork(x, r) ==
  /\ pc[x] = "idle"
  /\ run_events[r] # NoRows
  /\ Take(x, run_events[r])
  /\ run' = [run EXCEPT ![x] = x]
  /\ source' = [source EXCEPT ![x] = r]
  /\ Goto(x, "appending")
  /\ UNCHANGED <<run_events, task, sequence>>

(* Mutant: from step on.                                                   *)
UpToFrom(rows, step) == [n \in {m \in DOMAIN rows : m >= step} |-> rows[n]]

(* The rows whose sequence is at most step.                                *)
UpTo(rows, step) == [n \in {m \in DOMAIN rows : m <= step} |-> rows[n]]

(* TimeTravelDebugger.fork.  Its result is returned and never stored, like *)
(* those of inspect and of ReplayEngine.fork, which keep every row.        *)
ReadFork(x, r, step) ==
  /\ pc[x] = "idle"
  /\ Take(x, UpTo(run_events[r], step))
  /\ source' = [source EXCEPT ![x] = r]
  /\ Goto(x, "holding")
  /\ UNCHANGED <<run_events, run, task, sequence>>

(* What p has still to write, and whether n is the next of them.           *)
Remaining(p) == {n \in DOMAIN script[p] : n > sequence[p]}

IsNext(p, n) == n \in Remaining(p) /\ \A m \in Remaining(p) : n <= m

With(rows, n, event) == [m \in DOMAIN rows \cup {n} |-> IF m = n THEN event ELSE rows[m]]

Insert(r, n, event) ==
  run_events' = [run_events EXCEPT ![r] = With(run_events[r], n, event)]

(* Mutant: no UNIQUE constraint, the later row is the one that is read.    *)
AppendOver(p) ==
  /\ pc[p] = "appending"
  /\ \E n \in DOMAIN script[p] :
       /\ IsNext(p, n)
       /\ Insert(run[p], n, script[p][n])
       /\ sequence' = [sequence EXCEPT ![p] = n]
  /\ UNCHANGED <<pc, run, source, task, script>>

(* EventStore.append: INSERT and commit.                                   *)
AppendEvent(p) ==
  /\ pc[p] = "appending"
  /\ \E n \in DOMAIN script[p] :
       /\ IsNext(p, n)
       /\ n \notin DOMAIN run_events[run[p]]
       /\ Insert(run[p], n, script[p][n])
       /\ sequence' = [sequence EXCEPT ![p] = n]
  /\ UNCHANGED <<pc, run, source, task, script>>

(* The number is taken: IntegrityError goes through the writer.            *)
AppendFails(p) ==
  /\ pc[p] = "appending"
  /\ \E n \in DOMAIN script[p] : IsNext(p, n) /\ n \in DOMAIN run_events[run[p]]
  /\ Goto(p, "failed")
  /\ UNCHANGED <<run_events, run, source, task, script, sequence>>

Finish(p) ==
  /\ pc[p] = "appending"
  /\ Remaining(p) = {}
  /\ Goto(p, "done")
  /\ UNCHANGED <<run_events, run, source, task, script, sequence>>

(* The process dies, or the database refuses a statement.                  *)
Crash(p) ==
  /\ pc[p] = "appending"
  /\ Goto(p, "dead")
  /\ UNCHANGED <<run_events, run, source, task, script, sequence>>

Next ==
  \/ \E x \in Executors, r \in Given, t \in Tasks : Execute(x, r, t)
  \/ \E x \in Workflows, spec \in Specs : RunWorkflow(x, spec)
  \/ \E x \in Forkers, r \in Runs : Fork(x, r)
  \/ \E x \in Readers, r \in Runs, step \in Steps : ReadFork(x, r, step)
  \/ \E p \in Writers : AppendEvent(p) \/ AppendFails(p) \/ Finish(p) \/ Crash(p)

Spec == Init /\ [][Next]_vars

(***************************************************************************)
(* Properties.                                                             *)
(***************************************************************************)

(* f is what g was when it had fewer rows.                                 *)
Prefix(f, g) ==
  /\ DOMAIN f \subseteq DOMAIN g
  /\ \A n \in DOMAIN f :
       /\ f[n] = g[n]
       /\ \A m \in DOMAIN g : m < n => m \in DOMAIN f

(* A fork is a moment of the run it was taken from: what it holds, and     *)
(* what it has stored so far, is the beginning of that run's history, with *)
(* the same numbers and without a gap, however the run, the fork and forks *)
(* of the fork go on, and whoever dies (cmd/lork-fork-run.py and           *)
(* debugger/time_travel.py fork).                                          *)
ForkIsPrefix ==
  \A p \in Processes : source[p] # None =>
    /\ Prefix(script[p], run_events[source[p]])
    /\ p \in Forkers => Prefix(run_events[p], run_events[source[p]])

(* The rows of a run are what one writer wrote, from the first one on: two *)
(* executions of the same run id, at once or one after the death of the    *)
(* other, never mix (runtime/engine.py execute counts from 0 and relies on *)
(* the UNIQUE constraint of run_events).                                   *)
OneAuthor ==
  \A r \in Runs : run_events[r] # NoRows =>
    \E p \in Writers :
      /\ run[p] = r
      /\ run_events[r] = UpTo(script[p], sequence[p])
      /\ \A q \in Writers \ {p} : run[q] = r => sequence[q] = 0

Wrote(x) == run_events[run[x]]

(* The history of an execution agrees with its graph: only agents that the *)
(* start reaches, the start first, each one ended before another starts,   *)
(* nobody twice, everybody once it is done, and, where there is no cycle,  *)
(* an agent starts after every agent that leads to it                      *)
(* (agent_graph/orchestrator.py execution_order, runtime/engine.py).       *)
HistoryFollowsGraph ==
  \A x \in Executors : sequence[x] > 0 =>
    LET graph == task[x].graph
        start == task[x].start
        Starts == {n \in DOMAIN Wrote(x) : Wrote(x)[n].type = "agent_start"}
        Started == {Wrote(x)[n].agent : n \in Starts}
        Ended(a, n) == \E m \in DOMAIN Wrote(x) :
                         m < n /\ Wrote(x)[m] = [type |-> "agent_end", agent |-> a]
    IN  /\ Started \subseteq Reachable(graph, start)
        /\ Wrote(x)[1].agent = start
        /\ Cardinality(Starts) = Cardinality(Started)
        /\ pc[x] = "done" => Started = Reachable(graph, start)
        /\ \A m, n \in Starts : m < n => Ended(Wrote(x)[m].agent, n)
        /\ Acyclic(graph, start) =>
             \A n \in Starts, a \in Reachable(graph, start) :
               Leads(graph, a, Wrote(x)[n].agent) => Ended(a, n)

================================================================================
