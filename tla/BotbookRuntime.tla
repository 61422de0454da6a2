---------------------------- MODULE BotbookRuntime ----------------------------
(***************************************************************************)
(* Botbook's local runtime: workflows of agents (botbook/runtime/          *)
(* workflow.py, one after the other, and dag.py, by dependencies), the     *)
(* executor that runs an agent, and the file that it keeps of each run     *)
(* (registry.py).                                                          *)
(*                                                                         *)
(* A process of the command line executes one workflow; its loop over the  *)
(* agents is taken one agent at a time, and of an agent every step after   *)
(* which a crash leaves something else: a file is empty from the moment it *)
(* is opened for writing until it is written.                              *)
(***************************************************************************)
EXTENDS Integers, Sequences, SequencesExt, FiniteSetsExt, Lists

CONSTANTS
  Workers,      (* processes of the command line                             *)
  Pipelines     (* what they execute: [kind |-> "dag" or "steps", agents     *)
                (* |-> a sequence, deps |-> for "dag", those of each agent]  *)

ASSUME RuntimeAssumption ==
  \A p \in Pipelines : p.kind \in {"dag", "steps"} /\ p.agents \in Seq(Range(p.agents))

VARIABLES
  pipeline,     (* the workflow of each process                              *)
  stage,        (* where each process is                                     *)
  next,         (* the place of the agent that its loop looks at             *)
  ran,          (* whether its present turn of the loop has run an agent     *)
  results,      (* context: the agents whose results it holds, in order      *)
  runFiles      (* runs/: each run as [worker, agent, status], status "torn" *)
                (* when it cannot be read; and, for the properties, context, *)
                (* the results at hand when it was created                   *)

runtimeVars == <<pipeline, stage, next, ran, results, runFiles>>

RuntimeInit ==
  /\ pipeline \in [Workers -> Pipelines]
  /\ stage = [w \in Workers |-> "looping"]
  /\ next = [w \in Workers |-> 1]
  /\ ran = [w \in Workers |-> FALSE]
  /\ results = [w \in Workers |-> <<>>]
  /\ runFiles = <<>>

Completed(w) == Range(results[w])

(* Mutant: an agent is ready when one of its dependencies is completed.    *)
ReadySome(w, agent) ==
  LET deps == pipeline[w].deps[agent] IN deps = {} \/ deps \cap Completed(w) # {}

Ready(w, agent) == pipeline[w].deps[agent] \subseteq Completed(w)

InLoop(w) == stage[w] = "looping" /\ next[w] <= Len(pipeline[w].agents)

(* An agent that is completed or not ready is passed over.                 *)
PassOver(w) ==
  LET agent == pipeline[w].agents[next[w]] IN
  /\ InLoop(w) /\ pipeline[w].kind = "dag"
  /\ agent \in Completed(w) \/ ~Ready(w, agent)
  /\ next' = [next EXCEPT ![w] = @ + 1]
  /\ UNCHANGED <<pipeline, stage, ran, results, runFiles>>

(* create_run opens a file of its own, under a fresh id.                   *)
CreateRun(w) ==
  LET agent == pipeline[w].agents[next[w]] IN
  /\ InLoop(w)
  /\ pipeline[w].kind = "dag" => agent \notin Completed(w) /\ Ready(w, agent)
  /\ runFiles' = Append(runFiles, [worker |-> w, agent |-> agent, status |-> "torn",
                                   context |-> Completed(w)])
  /\ stage' = [stage EXCEPT ![w] = "creating"]
  /\ UNCHANGED <<pipeline, next, ran, results>>

(* The file that a process created last.                                   *)
Current(w) ==
  CHOOSE i \in DOMAIN runFiles :
    /\ runFiles[i].worker = w
    /\ \A j \in DOMAIN runFiles : runFiles[j].worker = w => j <= i

File(w, from, status, to) ==
  /\ stage[w] = from
  /\ runFiles' = [runFiles EXCEPT ![Current(w)].status = status]
  /\ stage' = [stage EXCEPT ![w] = to]
  /\ UNCHANGED <<pipeline, next, ran, results>>

SaveRun(w) == File(w, "creating", "running", "running")

(* generate has answered: complete_run reads the file, which nobody else   *)
(* touches, opens it again and writes it.                                  *)
ReopenRun(w) == File(w, "running", "torn", "completing")

SaveResult(w) == File(w, "completing", "completed", "completed")

(* Back in the loop, the result joins the context.                         *)
KeepResult(w) ==
  /\ stage[w] = "completed"
  /\ results' = [results EXCEPT ![w] = Append(@, pipeline[w].agents[next[w]])]
  /\ ran' = [ran EXCEPT ![w] = TRUE]
  /\ next' = [next EXCEPT ![w] = @ + 1]
  /\ stage' = [stage EXCEPT ![w] = "looping"]
  /\ UNCHANGED <<pipeline, runFiles>>

AtWork == {"creating", "running", "completing", "completed"}

(* The agent has no module, or the model cannot be asked; or a crash.      *)
Abort(w) ==
  /\ stage[w] \in {"looping"} \cup AtWork
  /\ stage' = [stage EXCEPT ![w] = "dead"]
  /\ UNCHANGED <<pipeline, next, ran, results, runFiles>>

(* The end of the loop.  A dag takes another turn until all are completed, *)
(* and if this turn has run none, so will all others: "spinning".          *)
EndOfLoop(w) ==
  LET left == Range(pipeline[w].agents) \ Completed(w) IN
  /\ stage[w] = "looping" /\ next[w] > Len(pipeline[w].agents)
  /\ stage' = [stage EXCEPT ![w] = IF pipeline[w].kind = "steps" \/ left = {} THEN "done"
                                   ELSE IF ran[w] THEN "looping" ELSE "spinning"]
  /\ next' = [next EXCEPT ![w] = 1]
  /\ ran' = [ran EXCEPT ![w] = FALSE]
  /\ UNCHANGED <<pipeline, results, runFiles>>

RuntimeNext ==
  \E w \in Workers :
    \/ PassOver(w) \/ CreateRun(w) \/ SaveRun(w) \/ ReopenRun(w) \/ SaveResult(w) \/ KeepResult(w)
    \/ Abort(w) \/ EndOfLoop(w)

RuntimeSpec == RuntimeInit /\ [][RuntimeNext]_runtimeVars

-----------------------------------------------------------------------------

(* The runs that a process has left, in order.                             *)
RunsOf(w) == Picked(runFiles, {i \in 1 .. Len(runFiles) : runFiles[i].worker = w})

(* Whoever else runs and whatever fails: an agent of a dag is started at   *)
(* most once and with the results of all its dependencies at hand; the     *)
(* steps of a workflow are started in order, each with the results of      *)
(* those before.  The files of a process say "completed" of exactly the    *)
(* results that it holds, in order; there may be one file more while it is *)
(* at it or when it died at it, and that one may say anything: nothing,    *)
(* "running", or "completed" of a result that is lost.                     *)
RunsExplained ==
  \A w \in Workers :
    LET mine == RunsOf(w)
        agents == pipeline[w].agents
        held == Len(results[w])
    IN  /\ \A i \in DOMAIN mine :
             /\ mine[i].context = {mine[j].agent : j \in 1 .. i - 1}
             /\ pipeline[w].kind = "dag" => pipeline[w].deps[mine[i].agent] \subseteq mine[i].context
             /\ pipeline[w].kind = "dag" => mine[i].agent \notin mine[i].context
             /\ pipeline[w].kind = "steps" => mine[i].agent = agents[i]
        /\ results[w] = [i \in 1 .. held |-> mine[i].agent]
        /\ \A i \in 1 .. held : mine[i].status = "completed"
        /\ Len(mine) = held \/ (Len(mine) = held + 1 /\ stage[w] \in AtWork \cup {"dead"})

(* A process only spins when the agents that are left wait for one another *)
(* or for one that is not in the workflow: no order would have run any.    *)
SpinsOnlyOnCycle ==
  \A w \in Workers :
    LET left == Range(pipeline[w].agents) \ Completed(w)
        waits(agent) == pipeline[w].deps[agent] \ Completed(w)
    IN  /\ stage[w] = "spinning" => left # {} /\ \A agent \in left : waits(agent) # {}
        /\ stage[w] = "done" => left = {}

(* The run files, but perhaps the last of a process, tell what happened,   *)
(* and a dag stalls for no other reason than its own dependencies.         *)
RuntimeSound == RunsExplained /\ SpinsOnlyOnCycle

=============================================================================
