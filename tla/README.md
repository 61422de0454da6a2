# Formal models of the PrivateVault deployment

The repository (`src/`) holds four sub-projects: **LORK**, a control plane for
AI agents; **PrivateVault.ai**, governance of what agents may do; **botbook.dev**,
a marketplace and orchestrator of agents; and a demo front end. This directory
holds TLA+ models of them, the TLC runs that check the models, and TLAPS proofs.
`PROJECT.json` maps every modelled definition to source lines and lists the
components, runs, hazards, findings and theorems.

## 1. Inventory

What each part keeps, does, and must guarantee. **Bold** parts are modelled.

### LORK (`src/LORK/lork`, Python, asyncio)

| part | state | operations | what is hard | what makes it correct |
|---|---|---|---|---|
| **task scheduler** `control_plane/scheduler.py` | the heap of waiting tasks, an `asyncio.Lock`, the sweeper's task; every task in a store behind an async protocol | submit, claim, mark_running, mark_succeeded, mark_failed, cancel, start, stop, the deadline sweeper | every store call is an await; status methods take no lock; the sweeper replaces the heap; events are published partly outside the lock | capacity, order, one delivery of each task, no task lost, overdue tasks leave, the lock is given back; a low priority may starve |
| **agent registry** `control_plane/agent_registry.py` | agents in a store | register, activate, suspend, retire, update_permissions, assert_runnable | read-modify-write over awaits, without a lock | names unique per tenant, a call changes only its own part of a record, log agrees with the store |
| **agent controller** `controllers/agent_controller.py` | `_running` | start (loop), stop | works on a list that gets stale; the list is cut at 100 | every PENDING agent gets activated |
| **in-memory stores and bus** `storage/memory.py` | dictionaries, one lock each; the event log | save, get, list, publish | copies on the way in and out; handlers are awaited | nothing suspends inside a call |
| **state engine** `state/state_engine.py` | runs and an event log, in memory | start_run, record_step, finish_run, get_state, fork_run | step numbers come from a counter and data is shared by reference; a fork copies a log | a fork repeats its parent; state and log differ by what a fork copied and by nothing else |
| **policy engine** `policy/engine.py` | none | evaluate | deny overrides, default deny, patterns, conditions on fields that may be missing | the decision agrees with a declarative reference |
| **runtime, replay, fork** | rows of `run_events` and `runs` in a database | execute, replay, fork, read | sequence numbers restart at 1 in each writer, every row is a commit of its own, a fork reads while others write | a run has one author, a fork is a moment of its run |
| **API of runs** `api_server.py` | a dictionary of runs, filled from a file at the start | record, fork, list, stats, replay, mesh votes | a run may be recorded again after it was forked, a client may number events itself | the answers agree with each other; a fork has its parent's events up to the point |
| **agent graph** | nodes, edges | topological execution, delegation | cycles, delegation by name | the history respects the edges |
| celery worker, services | - | - | imports models that do not exist, so it cannot run | - |
| redis/postgres storage, gateways, SDK, CLI, executors | external systems | I/O | - | - |

The scheduler calls the registry (`assert_runnable`), the task store and the
event bus. The controller calls the registry. Registry and scheduler share only
the bus; a worker process calls claim and then reports with the status methods.
The execution engine, the workflow command and the fork command are processes
that share a database; the state engine and the policy engine are libraries.

### PrivateVault.ai (`src/PrivateVault.ai`)

| part | state | operations | what is hard | what makes it correct |
|---|---|---|---|---|
| **governance service** `main.py` | pending reviews, audit entries, the mesh | check_policy, shadow_verify, human_approve, drift_detect, mesh endpoints | tiers with limits at 10k and 25k; several may decide one review; reviews in memory; a timeout is advertised and not implemented | one decision per transaction; nothing above the limit is executed |
| **coordination mesh** `coordination/mesh`, `coordination/trust` | trust of the agents, weights and thresholds of each tenant | four agents vote, weighted quorum, drift, trust updates, configuration | votes are weighted by a trust that each decision changes and all tenants share; an agent may vote twice | the verdict follows from the votes; one vote alone cannot let an action through |
| **context graph** `coordination/graph` | nodes and edges of decisions, agents, policies | three ingestions, search, precedents, subgraph, policy drift, what-if | written by every decision, read as evidence for later ones, lost on a restart | agrees with the audit log; answers say what was decided |
| **core quorum, control plane** `src/core`, `src/security` | nonce, signed context | emit, with the approvals a policy of four layers asks for | duplicate approvers and roles, expiry, the age of a request that waits for its body; a signature covers neither name nor role | what is emitted has enough approver names behind it in the required roles, and its bundle shows which |
| **audit log, evidence** `src/ledger` | a log file, bundles of it with a manifest | append, export, verify | threads write one bundle at once or one within another, a crash tears a line, and so does the next append | what was answered is in the log; a bundle that verifies is whole |
| **context vault** `src/privatevault/context` | contexts and approvals in two JSON files, an audit log | store a context, approve it in a role, authorize an action in it | endpoints run in threads that read, empty and refill the files; approvals expire between lookups; a crash tears a file | what is allowed was approved in every role and fits the policy; nothing is lost by itself |
| **conscience engine** `demos/galani_protocol_v2.py` | policies, request history, chained audit trail, statistics | register a policy, evaluate a signed intent, verify the trail | a rate limit notes what later checks refuse, and what raises; a window that slides | the trail explains every verdict |
| ledgers, approvals of other stacks, gateway | files | append, validate | some name modules they do not import | - |
| billing, licence, Go, Solidity, demos | - | - | separate deployments, I/O | - |

The mesh endpoints of `main.py` call the mesh, then write the graph and the audit
entries in one step of the event loop. The control plane is a process of its own.

### botbook.dev (`src/botbook.dev`)

The **live orchestrator** (`orchestrator.py`) runs a task with an agent and
streams what happens to a browser: it asks PrivateVault for a decision
(`shadow_verify`), calls `human_approve` when the decision is REVIEW, gates every
tool that the language model asks for, records the run in LORK
(`/api/v1/runs/record`) and raises the agent's trust. Its state is that of each
stream; what is hard is that every step is a call that may fail, be late or be
overtaken by a reviewer, and that most failures let the run go on. Correct means:
it executes what PrivateVault decided, LORK's record agrees, every run ends if the
language model answers (its calls are synchronous and stop the event loop).

The **mesh orchestrator** (same file) streams a multi-agent decision: it asks
`/api/v1/mesh/evaluate`, records the run in LORK and reports both. Correct means:
the browser, PrivateVault's audit, its graph and LORK hold one and the same
verdict.

The **agent market** (`main.py`) keeps agents with their trust, badges and tasks in
memory, and matches a task to an agent by keywords and trust; the live
orchestrator selects from it and raises the trust. What is hard is that two
writers of one agent's record do not know of each other. Correct means: a badge
is backed by the trust and the tasks it promises, and who fits is preferred (the
latter fails, see the findings).

The **local runtime** (`botbook/runtime`) executes workflows, as steps or as a dag
of dependencies, in a process of the command line, and leaves a file for each run of
an agent. What is hard is the order of a dag, a cycle in it, and a process that ends
half-way. Correct means: an agent runs once, with its inputs at hand, and the files
say what happened, except perhaps the last one of a process that ended.

Contracts and escrow (`botbook/economy`, `botbook/contracts`, `botbook/payments`)
and jobs, bus and memory are short synchronous code over dictionaries that no
endpoint calls. The contract engine has no guards on its statuses, and escrow
releases what it never held. `demo-frontend` and `scripts` are user interface and
deployment.

## 2. Plan

1. Scheduler and its abstract queue - done.
2. Registry and controller - done.
3. Governance service and live orchestrator - done.
4. Mesh votes and quorum, context graph, the streams against them; core quorum
   within the control plane, audit log and evidence - done.
5. State engine with forks; policy engine against a reference; the history of
   runs with its writers and forks - done, with the proofs of the first and last.
6. Agent market; drift detection in its two languages - done.
7. Proofs: the scheduler behind the in-memory store; that the scheduler without
   faults implements `TaskQueue` - done.
8. Context vault, conscience engine, botbook's runtime, LORK's server of runs - done.
9. Proofs: the mesh with its graph, trust and market; quorum, log and bundles of
   the control plane; policy engine, context vault, botbook's runtime - done.
10. Proofs: conscience engine, server of runs, both drift detectors; the depth-first
    order of agents; the answers from the context graph - done.
11. The approval stores of PrivateVault's other stacks, and its gateway.

Each module has parameters with named assumptions, one action per stretch
between two awaits, no RECURSIVE operator, and invariants in named parts.

## 3. Modules

| module | extends | content |
|---|---|---|
| `TaskQueue` | - | what a task queue promises: Add, Close, Deliver in order of rank, Drop |
| `Scheduler` | - | the scheduler, await by await; its properties; the mapping to `TaskQueue` |
| `MCScheduler` | `Scheduler` | values for TLC |
| `SchedulerProofs` | `Scheduler` | types, inductive invariant and safety theorems; what holds behind the in-memory store only |
| `RefinementProofs` | `SchedulerProofs` | the step simulation of `TaskQueue` |
| `AgentRegistry` | - | the registry and the controller; small enough to run without an MC module |
| `RegistryProofs` | `AgentRegistry` | types behind any store, safety behind the in-memory store |
| `Governance` | - | PrivateVault's policy, its reviews and its log, per transaction |
| `LiveExecution` | instantiates `Governance` | runs of the orchestrator against it, with reviewers, clients and the network; run without an MC module |
| `LiveProofs` | `LiveExecution` | types, and every safety property of the passing run |
| `ContextGraph` | `Lists` | the graph's ingestions and queries, as operators |
| `MeshDecision` | `ContextGraph` | votes, weighted quorum, policy checks, trust and configuration, as operators on PrivateVault's state |
| `MeshExecution` | `ContextGraph`; instantiates `MeshDecision`, `Governance` | streams, direct callers, a tenant and reviewers against PrivateVault and LORK |
| `AgentMarket` | `Lists` | BotBook's registry, and runs that select and raise |
| `DriftDetection` | `Lists` | drift detection in Python and in TypeScript, and what makes two payloads differ |
| `MCMeshExecution` | `MeshExecution`, `AgentMarket`, `DriftDetection` | values; the mesh, the market and the drift questions are run one per behaviour (`part`) |
| `MeshProofs` | `MeshExecution`, `AgentMarket`, `DriftDetection`, `Induction` | verdicts, what-if, reviews in the graph, votes and trust; the answers from the graph; badges; what a drift report means |
| `EmitQuorum` | - | what a quorum asks for, from the policies and the environment, and whether a list of approvals fulfils it |
| `ControlPlane` | instantiates `EmitQuorum`; `Lists` | requests through middleware, endpoint and threads; log and bundles; crashes |
| `MCControlPlane` | `ControlPlane` | values |
| `ControlProofs` | `ControlPlane`, `Induction` | what a quorum's answer means, what the log and the bundles hold |
| `AgentGraph` | - | the order in which a graph of agents is executed |
| `RunTimeline` | `AgentGraph` | the rows of `run_events`, their writers, forks and readers |
| `StateEngine` | - | the in-memory engine, its runs and their logs |
| `PolicyEngine` | `Lists` | evaluation, and the reference it is compared with |
| `ConscienceEngine` | `Lists` | policies by priority, rate limits, risk, the chained trail |
| `ContextVault` | - | two files, the threads that append to them, and authorization |
| `BotbookRuntime` | `Lists` | workflows and dags in processes, and their run files |
| `RunServer` | `Lists` | LORK's server of runs in memory, and its answers |
| `MCEngines` | `RunTimeline`, `StateEngine`, `PolicyEngine`, `ConscienceEngine`, `ContextVault`, `BotbookRuntime`, `RunServer` | values; one of the seven per behaviour (`part`) |
| `EngineProofs` | `RunTimeline`, `StateEngine`, `PolicyEngine`, `ContextVault`, `BotbookRuntime`, `ConscienceEngine`, `RunServer`, `Induction` | one author and prefixes of the history; state and log; decisions; vault; runtime; the trail; the server's answers |
| `Lists` | - | the loops that keep some elements of a list, sort them by score and add numbers up, written so that they can be proved about |
| `Induction` | `Lists` | induction over the numbers, over loops and over finite sets; what `Picked` keeps, what `Summed` and `AddedUp` add up to |

Operators marked "Mutant" are wrong versions of the operator or action next to
them; nothing refers to them. Putting one in place of the right one must make
TLC find a property violated, which shows that the property can fail.

### How code becomes actions

asyncio runs a coroutine alone from one await to the next. So an action is one
such stretch, `pc[c]` says at which await coroutine `c` waits, and `item`,
`copy`, `op` are the locals that it still needs. A call of the store takes
effect in the action that awaits it; its answer is used in a later action.
`StoreYields = TRUE` lets any other coroutine run in between, which is all that
the `TaskStore` and `AgentStore` protocols promise. `StoreYields = FALSE` is
`storage/memory.py`: its stores take an `asyncio.Lock` that is never contended,
and acquiring a free asyncio lock does not suspend, so a coroutine between two
store calls (`AtStore`) keeps the event loop (`MayRun`).

| Scheduler | code (`scheduler.py`) |
|---|---|
| `heap`, `Before`, `Pop` | `_heap` of `_QueueItem`; the set of tasks with an item, ordered by `__lt__` |
| `lock` | `_lock`: the coroutine inside `async with` |
| `store`, `args` | what of a `Task` can change (status, `worker_id`, error), and what cannot |
| `SubmitCheck` ... `SubmitPush` | submit 99-143: check outside the lock; lock, capacity and new task; save; push, unlock and publish without an await between them |
| `ClaimAcquire` ... `ClaimReturn` | claim 146-183: pop; get; skip or save; publish and wait for handlers with the lock held |
| `UpdateGet`, `UpdateSave`, `FailSave`, `UpdatePublish` | the status methods 186-239 over `_update_status` 267-283, without the lock |
| `SweepStart` ... `SweepFinish` | `_sweep_deadlines` 298-328: time first, then the lock; get of each item; TIMEOUT; heap replaced |
| `Stop`, `Abort`, `Unwind` | cancellation and exceptions leave a call at any await and release the lock |
| `AgentChanges`, `DeadlinePasses` | registry and clock around it |

| AgentRegistry | code (`agent_registry.py`, `agent_controller.py`) |
|---|---|
| `RegisterLookup`, `RegisterSave`, `RegisterPublish` | register 78-123 |
| `Require`, `MethodSave`, `MethodPublish`, `Updated` | activate, suspend, retire, update_permissions: `_require_agent`, `model_copy`, save, publish |
| `List`, `ControllerWake`, `ControllerActivates`, `ControllerSleeps`, `ControllerStop` | start, `_reconcile`, stop; `list_by_tenant` of `memory.py` 81-106 |

| Governance, LiveExecution | code (`PrivateVault.ai/main.py`, `botbook.dev/orchestrator.py`) |
|---|---|
| `CheckPolicy`, `ShadowVerify`, `HumanApprove` | check_policy 103-128, shadow_verify 286-350, human_approve 352-398; no await inside, so one step each |
| `pending`, `audit` | `pending_reviews`; the `audit_entries` of each transaction, kept as history over a restart |
| `requests`, `HandleVerify`, `HandleApprove`, `RequestLost`, `TimeOut` | an `http.post`: the request, its handling (then or after the caller gave up), its loss, and the caller's `except` branch |
| `answer`, `approval` | `gov_result`, the gate's `vr`, and the answer of human_approve |
| `Start` ... `Reviewed` | execute_stream 104-222: selection, shadow_verify, BLOCK, REVIEW |
| `Responsive`, `ModelAnswers` | `_call_gemini` 369-406: while it waits, the event loop stands still for all runs |
| `Proceed`, `Record` | drift check 224-287 (its answer is DENY for the tampered payload, and DENY when it fails), `_record_run` 447-450 |
| `React` ... `ToolsDone` | ReAct loop 289-348 with `_policy_gate_tool` 419-434 |
| `UpdateTrust`, `Disconnect` | 355-361; the stream is cancelled where it waits |

| MeshExecution | code (`PrivateVault.ai/main.py`, `coordination/`, `botbook.dev/orchestrator.py`) |
|---|---|
| `Start`, `TimeOut`, `Answered`, `Complete`, `Disconnect` | execute_mesh_stream: the call of evaluate, its `except` branch, the call of `runs/record` (whose failure is ignored) |
| `HandleEvaluate`, `EvaluateUnnamed` | mesh_evaluate, by a stream or by a caller who leaves the identifier out: `full_pipeline`, graph, audit and trust in one step, since nothing is awaited |
| `HandleRecord` | record_run of LORK's `api_server.py` |
| `TenantConfigures`, `Verify`, `ReviewerDecides`, `VaultRestarts` | mesh_configure; shadow_verify and human_approve with what they write into the graph; all state of PrivateVault is in memory |
| `trust`, `overrides`, `graph`, `decided` | `TrustRegistry`, the tenants' `MeshConfig`, `ContextGraph`, the audit entries of the mesh |

| AgentMarket | code (`botbook.dev/main.py`, `orchestrator.py`) |
|---|---|
| `RegisterAgent`, `RecordTask` | the endpoints, with badges and average rating |
| `SelectAgent`, `CompleteRun`, `StopRun` | execute_stream's match and its increments of trust and tasks |
| `MarketRestarts` | the registry is rebuilt from the samples |

| ControlPlane | code (`control_plane_api.py`, `security_context.py`, `audit_logger.py`, `evidence_export.py`) |
|---|---|
| `Arrive`, `SendBody`, `Admit`, `HashMismatch` | the dependencies of an endpoint: context and its age; the body, which the client sends when it likes or never; its hash and the quorum |
| `Execute`, `ImportFails` | emit in its thread, or the import before it raises |
| `Clear`, `ClearFails`, `Load`, `WriteEvents`, `WriteApprovals`, `WriteSummary`, `Seal`, `ExportRefused` | export in its thread: the old directory is removed with all that lies in it, made again, filled a file at a time; the manifest last |
| `Audit` | the middleware's append, after the endpoint |
| `Crash`, `Tick` | a crash may leave part of a line or of a file; the clock |

| RunTimeline, StateEngine | code (LORK `runtime/`, `state/`, `cmd/`, `debugger/`) |
|---|---|
| `Execute`, `RunWorkflow`, `Fork`, `AppendEvent`, `AppendFails`, `Finish` | the three writers: their arguments, then one committed event at a time, up to the `IntegrityError` of a number that is taken |
| `ReadFork`, `Crash` | readers of a prefix; a writer that dies leaves its rows |
| `StartRun`, `RecordStep`, `FinishRun`, `GetState`, `ForkRun` | the methods of `StateEngine`; with the in-memory store nothing suspends inside them |
| `RecordRun`, `ServeFork`, `LoadData`; `Listed`, `Stats`, `Replay`, `MeshVotes` (`RunServer`) | the endpoints of `api_server.py` that write `runs_store`, its load at the start; what those that read answer |

| ConscienceEngine, ContextVault, BotbookRuntime | code |
|---|---|
| `RegisterPolicy`, `EvaluateIntent` | `galani_protocol_v2.py` 315-475; no await in it suspends, so a call is one step with the four ways it can end |
| `ReadToAppend`, `Truncate`, `Write` | save_context and add of `src/privatevault/context`: read the file, open it for writing (which empties it), dump |
| `Arrive`, `Lookup`, `CheckRole`, `Depart` | the endpoints of `api/server.py`; authorize looks each role up in a step of its own |
| `PassOver`, `CreateRun`, `SaveRun`, `ReopenRun`, `SaveResult`, `KeepResult`, `EndOfLoop`, `Abort` | the loops of `dag.py` and `workflow.py` with `executor.run`: its run file is opened and written twice, and the result joins the context after that; the process may end at each step |

### Abstractions

- Payloads, tenants of tasks, metadata other than `worker_id` and `error`, and
  log lines are left out. `created_at` is an order number: two tasks never have
  the same time, since it is drawn under the lock; equal times would leave the
  heap free to choose.
- A deadline is the set `due` of tasks whose deadline has passed; the comparison
  of ISO strings is not modelled.
- Reads that change nothing (`get`, `list_for_agent`, `queue_depth`, claim on an
  empty heap) are left out.
- In `SubmitCheck` the check and the wait for the lock are always two actions,
  though behind the in-memory store they are one when the lock is free: the
  model has more behaviours than the code there.
- One sweeper: `start` is called again only after `stop`, and the controller is
  started again only after its loop has ended.
- Event handlers are a wait that ends; for those of a status method or of an
  operator's call the wait changes nothing and is left out.
- A worker reports on the task it claimed: mark_running, then mark_succeeded or
  mark_failed. The worker class that the examples import is not in the
  repository, so this protocol is an assumption (external in the map).
- An amount is a number, a recipient is known or unknown, an action listed or
  not; a tool's gate asks for amount 0, as in the code. Risk scores, hashes,
  events of the stream and the text of the language model are left out.
- `classify_intent` yields whitelisted actions only, so a run's request is
  `listed`; only a direct client sends others.
- The language model's answer to tool results is asked for without tool
  declarations, so it has no tool calls and ends the loop. It may never come.
- The orchestrator's own tool policy (agent lists, external recipients) is a free
  choice between `ToolDenied` and `ToolGate`.
- The trust score is the fact that it was raised. Runs of one pipeline follow each
  other; in the model runs start at any time, which allows more.
- Agents are never deleted: no caller in the repository deletes one.
- Trust is counted in units of 0.0001 and weights in tenths, so the code's rounding
  to four places is exact arithmetic here. The nested configuration of a tenant is a
  flat record. Texts and time stamps of the graph are left out; its order of
  insertion stands for recency.
- An agent of the mesh votes by the amount, the action and the context; its reasons
  are left out, and so are the hash chains, of which nothing reads the links.
- A signature is the key and the intent that it was made with, for that is all that it
  covers; a canonical encoding is not modelled. A bundle's path is the list of its
  parts after `..` and links are resolved.
- The rows of a run are a function from sequence numbers to events; the UNIQUE
  constraint of the migration makes an INSERT fail.
- In the policy engine a value has a kind and a content, since Python compares any
  two for equality and raises when it cannot order them. Texts are ordered by a given
  rank, and `in` tells which are parts of which; a pattern is the set of actions it
  matches. Every question is asked in a state of its own.
- In the conscience engine scores are in units of 1/100000, which makes the code's
  weights exact, an amount is a number or not one (then comparing it raises), and a
  record's hash is what it is computed from.
- In the context vault a text is a numeral, Python code that `eval` makes true or false,
  or something that raises; a hash is not modelled, for the key that signs is the one that
  verifies; of an overlapping write either the text is whole or it cannot be parsed.
- In drift detection the declared and the actual payload are drawn from small sets
  with the values at which Python and JavaScript differ; the parser's lower case and
  trimming is a function on texts, its rounding arithmetic.
- A client's number of an event is a number or null; the runs that the server was
  shipped with have numbers.

## 4. Runs

| run | instance | shows |
|---|---|---|
| `sched_faults` | 2 tasks, 2 workers, 1 caller (cancel, mark_running), capacity 1, store suspends, faults, 1 stop | `CapacityRespected`; `AssignedOnceAfterCreated`; `SweepSparesClaimed` |
| `sched_queue` | 2 tasks, one of a lower priority or both of one, 1 worker, 1 caller (cancel), capacity 2, store suspends, no faults, fairness | `QueueComplete`, `OverdueLeaves`, `QueuedServed` (unless overtaken for ever), implements `TaskQueue` (`QueueRefinement`) |
| `sched_memory` | 3 tasks of priorities 5, 11, 12, 1 worker, 1 caller, capacity 2, in-memory store | `CancelWins`, `OwnerRecorded`, `LogAgrees` |
| `reg_memory` | 2 agents, 2 names, 2 tenants, 1 operator with 3 calls, controller, list as long as the agents | `NamesUnique`, `ChangesItsOwn`, `LastEventAgrees`, `Reconciled` |
| `reg_limit` | 2 agents, list of 1 | violates `Reconciled` (finding) |
| `live_governed` | 1 run with up to 2 tools, 1 direct client, reviewers, 1 restart, amounts 9999, 10000, 25000, 25001, faults, fairness | `DecidedOnce`, `ExecutionGoverned`, `BlockedAgrees`, `RunsEnd` (if the language model answers) |
| `mesh_governed` | 1 stream, direct callers, 1 tenant with a patch, 1 transaction, 1 restart, 2 further entries of the graph; 5 agents in the market with 2 runs and 2 records; the payloads of drift detection (276 thousand states) | one verdict everywhere (`VerdictAgrees`), two votes behind an ALLOW, though not two agents, unless a tenant's weights let one do (`TwoVotesBehindAllow`), a refusal raises no trust (`NoTrustFromRefusal`), the graph's answers (`WhatIfExact`, which states the one case in which what-if errs, `AnswersFaithful`, which the report on policy drift is part of, `GraphKnowsReviews`); `BadgeBacked`; `DriftSound`, which states where the two detectors differ |
| `ctl_emit` | 1 emission with 4 lists of approvals under one policy and 2 under another, 2 exports of 2 tenants whose directories are the same or one within the other, a range without a time zone, 1 crash, clock up to 1 (653 thousand states) | `QuorumExact`, `AuditKeepsAnswered`, `BundleVerifies`, `RequestsEnd` (once the body has come) |
| `engines` | timeline: 2 executions, 1 workflow, 1 fork, 1 reader, 3 agents; engine: 3 runs, 2 steps; the questions to the policy engine; conscience: 3 intents of 6 kinds, 3 policies, 2 domains, clock up to 2; vault: 2 threads, 7 requests, 1 restart, clock up to 1; runtime: 2 processes with 4 workflows that end anywhere; server: 1 shipped run, 5 submissions, 2 forks at 3 points, 1 restart (1.7 million states) | `ForkIsPrefix`, `OneAuthor`, `HistoryFollowsGraph`; `LogExplainsRun`; `DecisionExact`; `TrailExplains`; `VaultSound`; `RuntimeSound`; `RunServed` |
| `market_trust` | the market of `mesh_governed` | violates `MatchingAgentWins` (finding) |
| `live_rejected` | 1 run, no faults | violates `RejectionRespected` (finding) |
| `live_unreachable` | 1 run, faults | violates `EvaluatedFirst` (finding) |

Bounds. `MaxCalls` and `MaxStops` bound the calls of operators and of stop;
everything else ends by itself, since a task is submitted once and a heap item
is popped once. Capacity 1 with two submits is the smallest instance in which
one submit checks while another is between check and push; two tasks and two
workers give every pair of claim, submit, sweep and status update at once. Three
tasks with priorities 5, 11 and 12 give a difference of priorities and a tie that
clamping makes. The limit of 1 in `reg_limit` stands for the code's 100. Symmetry
of tasks and workers is used in runs without liveness properties only. The
deadlock check is on in the runs of scheduler and registry, where the sweeper or
an operator can always go on; live executions end, so their runs do without it.
The four amounts are the two limits and their neighbours on the other side. Runs
share nothing but PrivateVault, which keeps everything per transaction, so one run
next to a client and reviewers is enough for TLC; the proofs are for any number.

One stream is enough for the mesh because direct callers take every step that a
second stream could take against PrivateVault; the tenant's patch makes the
verdicts on both sides of each threshold happen, and `MaxEntries` leaves room for
an entry before and one after the stream's. Two exports share the directory of a
bundle, or one has the root, which holds that of the other; one crash is where a line is
torn and the next append meets it. Finitely many tasks cannot overtake one for ever, so
`sched_queue` shows that a task is served once those before it are; that a stream of
tasks of a higher priority starves it is excepted by `QueuedServed` itself. Two
executions choose the same run id, a third writer and a fork draw fresh ones, and
two steps let a fork be cut inside and at the end. Three intents with one request a
window fill, pass and refill the rate limit; two threads are enough for each pair
of steps on one file, and the requests store three contexts, approve in both roles
and authorize in two regions. The four workflows repeat a step, list a dag against
its order, and hold a cycle and a name that is not there. The submissions record one run twice, a
mesh run, events out of order and one numbered null; of two forks one may be the other's
parent. Runs, requests and streams end,
so these three runs do without the deadlock check. The parts of one run (mesh,
market, drift; those of `MCEngines`) share nothing; each behaviour is of one
part, so no states are multiplied.

Properties that hold only behind the in-memory store (`CancelWins`,
`OwnerRecorded`, `LogAgrees`, `NamesUnique`, `ChangesItsOwn`, `LastEventAgrees`)
fail behind a store that suspends: two registers of one name, or a cancel between
the get and the save of a claim, interleave. The protocols promise nothing
against it, so this is recorded as a hazard and not as a finding.

Fairness. The event loop runs every coroutine that is ready, so the rest of each
started call is weakly fair. `asyncio.Lock` wakes its waiters in order, so the
sweeper gets the lock if it is free again and again: strong fairness of
`SweepAcquire`. Its loop and the controller's never end. Nothing makes a worker
claim or a client call; `QueuedServed` states this as its premise, and that the task
is not overtaken for ever by tasks of a higher priority, for the heap knows no
ageing. A live run that started goes on while its event loop is responsive, its HTTP
client times out after 60 s, and PrivateVault handles what it receives. The call of the
language model is synchronous and has no timeout, so it stops the loop, and nothing
makes it end: `RunsEnd` has the premise that the loop is responsive again and again.
Reviewers and browsers owe nothing. In the control plane every request whose body has
come goes on (`Serve`), for the event loop and its threads run; clients, who may never
send the body, crashes and the clock owe nothing.

### Findings

- `reg_limit`: the controller lists 100 agents of the tenant, oldest first and
  of any status, so once there are 100 older ones a new agent stays PENDING for
  ever, though the controller "continuously reconciles agent state with desired
  state".
- `live_rejected`: a reviewer's rejection that comes before the orchestrator's own
  approval is overridden: the approval gets 404, whose body has no `final_status`,
  and the default is ALLOW.
- `live_unreachable`: when PrivateVault does not answer, the run goes on without a
  decision, though "every agent action is evaluated before execution"
  (`PRIVATEVAULT_OVERVIEW.md`).
- `market_trust`: an agent that was trusted for long and matches no keyword of the task
  is ranked before one that matches a keyword, though "the agent who actually matches
  the task keywords wins" and "trust alone shouldn't win" (`botbook.dev/main.py`
  323-324, 334): the penalty is a factor on a sum that few keywords do not reach.

## 5. Proofs

For every value of the constants that satisfies the module's assumption. These
say that bounds are numbers and that sets of actors are disjoint, and what the
code's types give:

- `AgentAssumption`: there are finitely many agents; `TimelineAssumption`: graphs
  are lists of agents for each agent, and ids of runs and processes are distinct;
- `MeshAssumption`: requests name agents in a list, an amount is a number, and all
  weights but the action on a deadlock are numbers;
- `MarketAssumption`: samples are a list of records with counters and a list of
  capabilities; a rating is a number, of any sign, for the endpoint does not
  validate it; a task counts no fewer than no hits of a capability;
- `DriftAssumption`: a payload has finitely many fields, each a number, a truth
  value, a text or nothing; `ConscienceAssumption`: the three kinds of policies, and
  a rate limit of whole requests and seconds; amounts, dosages and risks are numbers, and
  whether the client sent the amount as one is said beside it;
- `RunServerAssumption`: events come in lists and take no less than no time or
  tokens, shipped runs are no forks, and a new id is new;
- `ControlPlaneAssumption`: approvals and required roles are lists, times are
  numbers or missing, a bundle's path is a list, and `None` (a field that is missing)
  is no name;
- `PolicyAssumption`: the two members of `PolicyEffect`; `RuntimeAssumption`: the
  two kinds of a file; `VaultAssumption`: the three endpoints, and a validity in
  hours. The state engine has none.

| theorem | statement |
|---|---|
| `TypeCorrect` | `Spec => []TypeOK` (scheduler) |
| `CapacityCorrect` | `Spec => []CapacityRespected` |
| `AssignmentCorrect` | `Spec => []AssignedOnceAfterCreated` |
| `QueueCorrect` | `Spec => []QueueComplete` (its premise: no faults) |
| `SweepCorrect` | `Spec => SweepSparesClaimed` |
| `OwnerCorrect`, `LogAgreesCorrect`, `CancelCorrect` | `OwnerRecorded`, `LogAgrees`, `CancelWins` behind the in-memory store, with or without faults |
| `RefinementCorrect` | `Spec => QueueRefinement`, without faults, behind any store |
| `RegistryTypeCorrect` | `Spec => []TypeOK` (registry, any store) |
| `NamesCorrect`, `LogCorrect`, `ChangesItsOwnCorrect` | `NamesUnique`, `LastEventAgrees`, `ChangesItsOwn` behind the in-memory store |
| `LiveTypeCorrect` | `Spec => []TypeOK` (live execution) |
| `DecidedOnceCorrect`, `GovernedCorrect`, `BlockedCorrect` | `DecidedOnce`, `ExecutionGoverned`, `BlockedAgrees`, with or without faults |
| `TimelineTypes`, `OneAuthorAlways`, `ForkIsPrefixAlways` | types, `OneAuthor`, `ForkIsPrefix` of the history of runs |
| `HistoryFollowsGraphAlways` | `Spec => []HistoryFollowsGraph`, for any finite graphs |
| `EngineTypes`, `LogExplainsRunAlways` | types, `LogExplainsRun` of the state engine |
| `VerdictAgreesAlways`, `WhatIfExactAlways`, `GraphKnowsReviewsAlways` | `VerdictAgrees`, `WhatIfExact`, `GraphKnowsReviews` |
| `AnswersFaithfulAlways` | `Spec => []AnswersFaithful` |
| `TwoVotesBehindAllowAlways` | `TwoVotesBehindAllow`, whatever patches there are: the property itself excepts the times at which a tenant's weights are not `CautiousWeights` |
| `NoTrustFromRefusalAlways` | `NoTrustFromRefusal`, if every patch of a tenant is `FirmWeights` |
| `BadgeBackedAlways` | `MarketSpec => []BadgeBacked` |
| `DriftSoundAlways` | `DriftSpec => []DriftSound` |
| `QuorumExactAlways`, `AuditKeepsAnsweredAlways`, `BundleVerifiesAlways` | `QuorumExact`, `AuditKeepsAnswered`, `BundleVerifies` |
| `DecisionExactAlways` | `PolicySpec => []DecisionExact` |
| `VaultInvAlways`, `VaultSoundAlways` | `VaultSpec => []VaultInv`, `VaultSound` |
| `RuntimeInvAlways`, `RuntimeSoundAlways` | `RuntimeSpec => []RuntimeInv`, `RuntimeSound` |
| `ConscienceInvAlways`, `TrailExplainsAlways` | `ConscienceSpec => []ConscienceInv`, `TrailExplains` |
| `ServerInvAlways`, `RunServedAlways` | `ServerSpec => []ServerInv`, `RunServed` |

**Scheduler.** None of the properties is inductive. `SchedulerProofs` strengthens
the types by `LocalsOK` (where a coroutine is says which locals mean something),
and adds: `LockInv`, the lock's holder is exactly the coroutine
inside a locked block, so at most one of submit, claim and sweep is half-way;
`PlaceInv`, a task in the heap or in hand was pushed, and one in hand is not in
the heap; `RoomInv`, there is room for the submit that passed the check, since
only the lock's holder adds; `SweepInv`, a sweep's `todo` and `kept` are in the
heap and miss no QUEUED task of it; `LogInv`, what is logged of a task follows
from its place; `SkipInv`, a claim skips only what is no longer QUEUED, since no
action makes a task QUEUED again. Their conjunction `IInv` was checked with TLC
first and is then proved to be inductive action by action. `SweepCorrect` follows
because a task being expired is in the heap, and by `LogInv` not yet assigned.

**Scheduler behind the in-memory store.** This part needs neither the lock nor
the heap: one coroutine at most is between two store calls (`OneAtStore`), so its
copy is what the store holds (`CoroutineOK`), and of every task the log already
tells the status or the one coroutine is about to announce it (`TasksOK`). A fault
cannot strike in between, because nothing suspends there.

**Scheduler as a queue.** `RefinementProofs` maps every step of a coroutine to a step
of `TaskQueue` or a stutter: the push is Add; each save of a status that is not
QUEUED is Close; publishing an assignment is Deliver; skipping a popped task and
finishing a sweep are Drop. Beyond `IInv` this needs that a saved task stays saved
(`StoredInv`), that the task in hand outranks the heap (`TopInv`), that what is
announced is closed (`ClosedInv`), and that only submit stores a task for the first
time (`BornInv`). With faults it is false: a claim that aborts loses its task.

**Registry.** Behind the in-memory store `OneAtStore` holds: one coroutine at most
is between two store calls. So what it read is still so when it saves (`FreshInv`
for a register that found its name free, `CopyInv` for a method), and the event
that is missing from the log is the one it is about to publish (`AnnounceInv`).

**Live execution.** `LiveInv` follows one transaction from request to deed. A
request in flight was not handled yet (`RequestInv`), and of a transaction that its
run has not come to nothing is known (`FreshInv`): so the policy decides once, and
since human_approve takes the review out, a human at most once. An answer is what
was logged first and is the policy's word on the request as it still stands
(`AnswerInv`, with `IntentStep`: a request is settled before it is made). Where a
run is, and what it did, follows from its answer (`RunInv`, `UsedInv`), and a
tool's gate is never escalated because its amount is 0 (`GateInv`).

**History of runs.** `OneAuthor` and `ForkIsPrefix` follow from `AuthorInv` (a writer
that has appended wrote all rows of its run and is the only such writer: the
UNIQUE constraint stops every other one at its first number) and `SourceInv` (the
script of a fork or reader is a prefix of its source's rows, which only grow). Both
need that scripts and rows have no gaps (`ProcessInv`).

**Order of agents.** The depth-first search is a function defined by recursion, of
which nothing may be said before it is known to exist: `VisitingSolves` builds it by
following the recursion as often as there are agents, and each call but the last has
fewer left to visit (`UnseenIs`). What a call does is proved by induction on that
number (`DfsFinds`): `Sound` says of a search so far that it saw only what the start
reaches, listed nobody twice, and listed every agent after those it leads to unless
they are in a cycle; and a call leaves those whose visit has begun (`Open`) as they
were. Reversed this is the order that `HistoryFollowsGraph` asks for. Reachability is
the least closed set, so that both directions can be proved without paths.
`ExecutorInv` relates an execution's rows to it.

**State engine.** `LogExplainsRun` speaks of the last event of each type; `LogInv`
adds that the events of a run are numbered by their place and that a fork's log
begins with its parent's. The data are the latest of their types up to where get_state
last read (`readTo`, a history variable); this needs the arithmetic of the last
occurrence (`HasLast`). Against the docstrings the state is not what a replay rebuilds:
`ReplayAgrees` says by what the two differ, and with that it is proved.

**Induction.** The library states induction for an operator, which the provers
cannot instantiate. `Induction` states it for a set instead: a proof defines the set
of the numbers for which its claim holds, and shows that it is closed
(`NatInduct`, `UpToInduct`, `FiniteInduct`). With the least elements of well-founded
sets this gives that a loop over a list, written as a recursive function, exists and
keeps what each round keeps (`LoopExists`, `LoopKeeps`), and what a filter
keeps: the elements at the chosen places, all of them, in their order (`PickedIs`),
and more of them when the list grows (`PickedLonger`). Of sums it says that those of
natural numbers only grow (`SumsGrow`), that a change of one number is a change of
the sum (`SumsChanged`), and that numbers shared out among several sums still add
up to the same (`SharedOut`).

**Mesh and graph.** `VerdictAgrees` needs of each stream that what it was answered is
a decision of PrivateVault (`StreamInv`: nothing is answered before a request is
handled, and each is handled once) and of PrivateVault that it keeps what it
decided and that the graph tells it (`DecisionInv`). Telling is the hard part: the
graph is written by three ingestions that share nodes, so each is shown to leave the
nodes of other decisions as they are (`IngestMeshTells` and its kin). `WhatIfExact`
follows from what is told and from the order of the failed checks: the reason names the
first that failed, so another may hide behind it, and that is the one case in which
what-if errs. For
`GraphKnowsReviews`, `ReviewInv` says of each transaction that it is in the graph once
verified, and that its reviews in the list of edges are those of the log; edges are
only ever appended.

**Answers from the graph.** `AnswersFaithful` speaks of five searches of the graph, and
`GraphInv` says what they may rely on. The history holds exactly the nodes of decisions
and transactions (`EntriesOK`), which the counts of get_stats come from. Each edge joins
nodes that are there, and one that says "evaluated_by" or "caused_outcome" joins nodes
of the same decision (`EdgeOK`); each decision has both (`HasEdges`) and its policy node
states its last reason (`StatesReason`). An override is drawn exactly if the decision
was overridden, provided that its identifier was decided once (`OverrideOf`): when it
is decided again, the old override stays, now under the new reason. TLC checked
`GraphInv` before it was proved, also with 3 further entries. The searches themselves
are proved by induction over their loops: the breadth-first search of
get_decision_subgraph visits everything that is connected, and lists an edge once for
each end (`VisitSearches`, `SubgraphFinds`); the one pass over the edges in query keeps
what its answer is defined by (`ExpandTurns`, `ExpandedIs`); find_precedents sorts as the market
does (`PrecedentsSorted`). The attempt to prove it corrected two parts of the property,
which 2 further entries had been too few to refute: a reason that is listed more than
five times names the last five decisions only, and of equally close precedents
the later entry comes first, whichever entry of its node that is.

**Votes and trust.** With weights of at most 1 and a trust of at most 1 a vote weighs
at most 1, which is below the default threshold of 1.5: hence
`TwoVotesBehindAllow`, while no tenant sets a higher weight of a vote, or lets a
deadlock approve (`CautiousWeights`). mesh_configure does not forbid that, so the
property says it, and TLC's patch is one that does. Two votes are not two agents: the
list of agents is taken as it is, and one that is listed twice passes alone. For
`NoTrustFromRefusal`, `TrustInv` says that nobody's trust is below the least. It needs
that all tenants have the same least trust and no negative penalty (`FirmWeights`):
trust is shared, so a tenant with a higher least trust than the others lifts an agent
to it even with a decision that refuses. `BadgeBacked` follows from `MarketInv`: the
badge was computed from a score, and the score only rises until it is computed anew.

**Control plane.** `QuorumMeans` is what the loop over the approvals has found, proved
by induction over the list: it saw exactly one approval of each approver that counts,
so the number of them is the number of names (`QuorumUsed`). It is not that of people:
the signature covers the hash of the intent only, and no key belongs to a name. `QuorumInv` and
`EmissionInv` carry it from the check to the execution. For the log, `CrashInv` counts:
of the requests that are done, no more lack a line than there were crashes, one less
while the last line is torn, since the next append will swallow that line and the
one it writes. `BundleInv` says of an export that nobody disturbed which files are
there after each step, and that what was read is a prefix of what the log tells now; it
needs that directories that hold one another are of exports that met.

**Policy engine.** `DecisionExact` compares a program that collects rules in loops with
a declarative reference. By `RulesCollected` the rules at hand are those of the
policies that apply and are enabled; the reference quantifies over the same.

**Context vault.** `FileOK` (what a file holds was stored once), `CallOK` (where a
request is says what it holds: a copy to write, or one valid approval for each role
looked up so far) and, while requests append one at a time, `AloneOK`: a file is whole,
or the one that appends to it holds all that was in it. What was found stays approved,
as `kept` is history. Overlapping appends lose entries; `base`, also history, is what
the file held when a request last began to append alone, and survives even those.

**Botbook's runtime.** `RuntimeInv` says of each process that its run files are
what its place in the loop implies: all completed but the last, which may be torn,
running or completed without its result when the process ended, each with the agents
before it as its context, and in a dag with all dependencies among these. That a dag
stalls only for a reason follows from the passes of the loop: if a whole pass ran
nothing, every agent that waits misses one that did not run.

**Conscience engine.** `TrailInv` says what each record of the trail implies: which
policies an approved request passed, and in which order a refused one met them; the
counters count the records. The level of risk is read off the score, which the weights
keep in bounds (`ScoreType`, `LevelOf`). That rate limits are those that the trail
shows is harder, because the engine's lists forget what has left the window, and hold
requests that later left no record. `WindowInv` counts: for each start of an interval
within the window, a rate limit's list holds as many requests since then as the trail
shows to have got past it, plus those whose analysis raised (a history variable).

**Drift.** `RiskIs` reads the loop that escalates: the result is the level of some field
that differs and no field's level is above it. This does not mention the order, which
gives the first claim; the other two compare the levels field by field, in Python's
and in JavaScript's rules of equality (`PyTells`, `TsTells`, `FieldLevelIs`), of the
declared payload as the parser has normalised it.

**Server of runs.** Every event belongs to exactly one of the agents in the order of
their first events (`EventsFirsts`), so by `SharedOut` what is summed per agent and then
over the agents is what is summed at once. A fork has the events of its parent that are
numbered up to the point, in their order (`ForkAgrees`); its partial sums are the
beginning of its parent's exactly when these come first, which a client's own numbers
may prevent. `ServerInv` relates runs to
the versions of their ids, so that the claim survives when the parent is recorded anew.

**Left to TLC.** Liveness (`OverdueLeaves`, `QueuedServed`, `Reconciled`, `RunsEnd`,
`RequestsEnd`), which depends on fairness and ENABLED, is beyond the prover. Of every
safety property of the passing runs there is a theorem.

## 6. Not modelled

Code that cannot run as it stands, so that there is no behaviour to model:

- LORK: `runtime/worker.py`, the celery services and `control_plane/api/tasks.py`,
  `api/policies.py` import models that do not exist; so do `runtime/time_travel.py`
  and `runtime/executors/llm_executor.py`. `ToolGateway.invoke` calls a method
  `check` that the policy engine has not.
- PrivateVault: `src/ledger/decision_ledger.py` uses a name it does not import;
  `policy_admin` imports a `set_active_policy` that does not exist; the usage route
  reads `request.state.api_key`, which nothing sets;
  `services/usage-tracker/index.js` declares `PORT` twice and does not load, so
  royalties and usage of the billing service stay empty.

Code with nothing to check by these means: the stubs of `services/api` (constants
as answers), the licence and billing routes (one SQL statement or one call of
Stripe each), the Go and Solidity parts, deployment scripts, tests, and the many
demos, which print a scripted story. `galani/core/policy_engine.py` is a pure
function whose later definitions shadow earlier ones. `worm_fallback.py` writes
files that nothing reads, so the decisions of a bundle are never there;
`validate_quorum` is the emission's check once more and has no caller;
`tool_authorization` and `ai_firewall` are tables of demonstration roles. Redis
and Postgres classes of LORK implement no protocol of it. Contracts, escrow, jobs,
bus and memory of botbook are dictionaries without callers.

These make up the greater part of the repository's lines: what is mapped is the part
with state that several actors share. Within the modelled parts, log lines,
wording of reasons, hash chains that nothing verifies, risk scores, mock data and
event payloads for display are left out.

## 7. Behaviour worth knowing

What the models made visible beside the findings. Four more statements of the
repository are not what the code does; no run is about them alone, but a property of a
passing run states exactly how far each of them holds:

- `PrivateVault.ai/main.py:172`, "LOGIC MATCHES shadow_firewall.ts": only the latter
  normalises the declared payload, and truth values, nulls, actions and recipients get
  other levels. `DriftSound` states where the two agree, and is proved.
- `context_graph.py:663`, "blocked by amount limit only", and the what-if endpoint
  (`main.py:674`): a decision whose limit on amounts hides another failed check, or
  which `hard_block_limit` stopped, is reported as ALLOW under a higher limit.
  `WhatIfExact` states that case.
- `state_engine.py:30`, `:195` and `:238`, state is rebuilt from the event log: a fork of
  a completed run is running, with no steps, over a log that says otherwise.
  `ReplayAgrees` states by what they differ.
- `LORK/CONTRIBUTING.md:48`, "Every action must produce traceable events": a task that
  the sweeper times out (`scheduler.py:312-319`) leaves none; `LogAgrees` excepts it.

The others are hazards or notes.

- Mesh: the weighted vote counts a duplicate agent twice; trust is shared by
  all tenants; a request's `config_override` is ignored for votes and trust; a
  missing `action_id` is not generated; a restart loses audit, graph and trust;
  what_if looks at the amount only; the node of a reviewed transaction keeps status
  REVIEW; a search may return more than its limit.
- Market: a rating is not validated; recording a task overwrites the average and
  discards what runs added; runs do not update badges; two agents of one name resolve
  to the first.
- Registry: the controller activates from its list an agent that an operator suspended
  or retired since (`agent_controller.py:46-51`).
- Scheduler: a stream of tasks of a higher priority starves one of a lower for ever.
- Live execution: a language model that does not answer stops every run of the
  orchestrator, for its call is synchronous and has no timeout.
- Control plane: neither approvals nor the nonce are consumed; the holder of one key can
  sign under several names and roles, since the signature covers the intent only; a
  bundle named `.` or `a` holds those named `a/b`, and exporting it removes them; a range
  without a time zone fails when the old bundle is already gone; a client that never
  sends its body leaves its request open and unlogged; a torn line swallows
  the event after it; two exports of one bundle interleave; approvals with and
  without an id at one time cannot be sorted, so the export fails when the old
  bundle is already gone; `safe_call` logs an
  error as ALLOW; a maximal age of 0 means unlimited.
- Conscience engine: no fintech intent reaches CRITICAL and no medtech intent HIGH
  by the analyzer's numbers, so in medtech the risk refuses nothing; a safe dosage of 0
  raises after the rate limit has noted the request; an unsigned intent is recorded
  and not counted.
- Context vault: FINANCE and DPO have no key, so nothing can be approved for them
  and nothing authorized in the regions US and EU; a context without an id makes
  every lookup that comes to it raise; a crash after a file was emptied leaves it
  unreadable for good; of two contexts with one id the first is judged;
  a text that is Python, such as `1 or 1`, meets any comparison of a policy; overlapping
  appends lose entries.
- Botbook's runtime: a dag with a cycle, or with a dependency that is not in the
  file, spins for ever; a run whose model fails stays "running"; a process that ends while it
  completes a run leaves an empty file, or a completed one whose result is lost.
- LORK: a second execution of a run id fails at its first event, so a crashed run is
  never resumed; a fork of a run that is going on is a part of it; replay executes
  only event types that no writer emits; a DENY whose condition names a
  missing field does not fire; policies are not filtered by tenant; `record_run` overwrites
  a run that forks point to; the fork of a mesh run says that it is no mesh run;
  a fork of a run whose client numbered the events need not be its beginning.
