------------------------------ MODULE Scheduler ------------------------------
(***************************************************************************)
(* LORK's task scheduler (LORK/lork/control_plane/scheduler.py).           *)
(*                                                                         *)
(* Scheduler is one asyncio object.  Each call of one of its methods is a  *)
(* coroutine that runs alone until its next await, and the model has one   *)
(* action per stretch between two awaits.  A call of the task store takes  *)
(* effect in the action that awaits it; the coroutine uses the answer in a *)
(* later action, so every other coroutine may run in between.              *)
(*                                                                         *)
(* StoreYields tells the two kinds of store apart.  The TaskStore protocol *)
(* (TRUE) promises only coroutines, and an await may suspend.  The         *)
(* in-memory store of lork/storage/memory.py (FALSE) never contends for    *)
(* its own lock, so none of its awaits suspends and a call keeps the event *)
(* loop until it waits for the scheduler's lock or for event handlers.     *)
(***************************************************************************)
EXTENDS Integers, FiniteSets, Sequences

CONSTANTS
  Tasks,         (* the ids that the calls of submit will draw (new_id)      *)
  Workers,       (* the workers that call claim                              *)
  Clients,       (* other callers: operators, API handlers                   *)
  ClientOps,     (* the status methods that those callers use                *)
  Agents,
  Priorities,    (* the values that callers pass as priority                 *)
  MaxQueueSize,
  StoreYields,
  Faults,        (* may a store call raise or a caller be cancelled          *)
  MaxCalls,      (* bound on the calls of Clients                            *)
  MaxStops,      (* bound on the calls of stop                               *)
  Sweeper,       (* the deadline sweeper's background task                   *)
  NoOne          (* no coroutine, no worker, no task, no agent               *)

Coroutines == Tasks \cup Workers \cup Clients \cup {Sweeper}

StatusOps == {"mark_running", "mark_succeeded", "mark_failed", "cancel"}

ASSUME ConstantsAssumption ==
  /\ Priorities \subseteq Int
  /\ MaxQueueSize \in Nat \ {0}
  /\ StoreYields \in BOOLEAN
  /\ Faults \in BOOLEAN
  /\ MaxCalls \in Nat
  /\ MaxStops \in Nat
  /\ ClientOps \subseteq StatusOps
  /\ IsFiniteSet(Tasks)
  /\ Tasks \cap (Workers \cup Clients \cup {Sweeper}) = {}
  /\ Workers \cap (Clients \cup {Sweeper}) = {}
  /\ Sweeper \notin Clients
  /\ NoOne \notin Coroutines \cup Agents

VARIABLES
  active,  (* the agents that the registry's store holds as ACTIVE           *)
  heap,    (* Scheduler._heap: the tasks with an item in it                  *)
  lock,    (* Scheduler._lock: the coroutine that holds it                   *)
  store,   (* the task store: what of each task can change                   *)
  args,    (* what of each task never changes, fixed by submit               *)
  due,     (* the tasks whose deadline_at has passed                         *)
  pc,      (* where each coroutine will resume                               *)
  item,    (* the task that each coroutine is at                             *)
  copy,    (* its copy of that task, as the store last gave it               *)
  op,      (* the status method that it runs                                 *)
  now,     (* _sweep_deadlines: the tasks overdue when it started,           *)
  todo,    (*   the items not yet looked at                                  *)
  kept,    (*   and those that survive                                       *)
  events,  (* the event bus's log, one sequence per task                     *)
  calls,   (* calls of Clients so far                                        *)
  stops    (* calls of stop so far                                           *)

locals == <<item, copy, op>>

sweep == <<now, todo, kept>>

vars == <<active, heap, lock, store, args, due, pc, item, copy, op, now, todo, kept,
          events, calls, stops>>

-----------------------------------------------------------------------------

TaskStatus ==
  {"queued", "assigned", "running", "succeeded", "failed", "cancelled", "timeout"}

EventTypes ==
  {"task.created", "task.assigned", "task.completed", "task.failed", "task.cancelled"}

(* metadata is the worker_id that claim records and whether mark_failed    *)
(* recorded its error.                                                     *)
StoredTask ==
  [status : TaskStatus \cup {"absent"}, worker : Workers \cup {NoOne}, error : BOOLEAN]

Absent == [status |-> "absent", worker |-> NoOne, error |-> FALSE]

(* The priority of a Task model is ge=1, le=10; 0 stands for none yet.     *)
TaskArgs == [agent : Agents \cup {NoOne}, priority : 0 .. 10, created : Nat]

(* model_copy(update={"status": ...})                                      *)
WithStatus(task, status) == [task EXCEPT !.status = status]

(* ... and the worker that claimed it in the metadata.                     *)
Assigned(task, w) == [task EXCEPT !.status = "assigned", !.worker = w]

WithError(task) == [task EXCEPT !.error = TRUE]

(* Where each kind of coroutine can be.  A worker and a client share the   *)
(* status methods: "save", "save2" and "notify".                           *)
SubmitPC == {"new", "checked", "saving", "pushing", "queued", "rejected", "failed"}
StatusPC == {"save", "save2", "notify"}
WorkerPC == {"idle", "get", "got", "publish", "handlers", "claimed", "running"} \cup StatusPC
ClientPC == {"idle"} \cup StatusPC
SweepPC  == {"off", "sleep", "wait", "scan", "expire"}

(* The places inside `async with self._lock`.                              *)
Locked == {"saving", "pushing", "get", "got", "publish", "handlers", "scan", "expire"}

(* The places inside a method with no await left but those of the store.   *)
AtStore ==
  {"saving", "pushing", "get", "got", "publish", "scan", "expire"} \cup StatusPC

(* A coroutine that no call of the store suspends keeps the event loop.    *)
MayRun(c) == StoreYields \/ \A d \in Coroutines \ {c} : pc[d] \notin AtStore

TypeOK ==
  /\ active \subseteq Agents
  /\ heap \subseteq Tasks
  /\ lock \in Coroutines \cup {NoOne}
  /\ store \in [Tasks -> StoredTask]
  /\ args \in [Tasks -> TaskArgs]
  /\ due \subseteq Tasks
  /\ pc \in [Coroutines -> SubmitPC \cup WorkerPC \cup ClientPC \cup SweepPC]
  /\ \A t \in Tasks : pc[t] \in SubmitPC
  /\ \A w \in Workers : pc[w] \in WorkerPC
  /\ \A c \in Clients : pc[c] \in ClientPC
  /\ pc[Sweeper] \in SweepPC
  /\ item \in [Coroutines -> Tasks \cup {NoOne}]
  /\ copy \in [Coroutines -> StoredTask]
  /\ op \in [Coroutines -> StatusOps \cup {"none"}]
  /\ now \subseteq Tasks /\ todo \subseteq Tasks /\ kept \subseteq Tasks
  /\ events \in [Tasks -> Seq(EventTypes)]
  /\ calls \in Nat
  /\ stops \in Nat

Init ==
  /\ active \in SUBSET Agents
  /\ heap = {}
  /\ lock = NoOne
  /\ store = [t \in Tasks |-> Absent]
  /\ args = [t \in Tasks |-> [agent |-> NoOne, priority |-> 0, created |-> 0]]
  /\ due = {}
  /\ pc = [c \in Coroutines |->
             IF c \in Tasks THEN "new" ELSE IF c = Sweeper THEN "off" ELSE "idle"]
  /\ item = [c \in Coroutines |-> NoOne]
  /\ copy = [c \in Coroutines |-> Absent]
  /\ op = [c \in Coroutines |-> "none"]
  /\ now = {} /\ todo = {} /\ kept = {}
  /\ events = [t \in Tasks |-> <<>>]
  /\ calls = 0
  /\ stops = 0

At(c, place) == pc[c] = place /\ MayRun(c)

Goto(c, place) == pc' = [pc EXCEPT ![c] = place]

(* The locals of c: task t, the copy and the method.                       *)
Local(c, t, task, method) ==
  /\ item' = [item EXCEPT ![c] = t]
  /\ copy' = [copy EXCEPT ![c] = task]
  /\ op' = [op EXCEPT ![c] = method]

NoLocal(c) == Local(c, NoOne, Absent, "none")

Publish(t, type) == events' = [events EXCEPT ![t] = Append(@, type)]

-----------------------------------------------------------------------------
(* submit.  Task t stands for the call that will create it.                *)

(* Mutant: the caller's value is taken as it is.                           *)
UnclampedPriority(p) == p

Clamp(p) == IF p < 1 THEN 1 ELSE IF p > 10 THEN 10 ELSE p

(* await assert_runnable, outside the lock; it raises for any other agent  *)
(* and the call ends with nothing changed.                                 *)
SubmitCheck(t) ==
  /\ At(t, "new")
  /\ \E a \in active, p \in Priorities :
       args' = [args EXCEPT ![t] = [agent |-> a, priority |-> Clamp(p), created |-> 0]]
  /\ Goto(t, "checked")
  /\ UNCHANGED <<active, heap, lock, store, due, locals, sweep, events, calls, stops>>

(* created_at is drawn under the lock, so it grows with every task.        *)
Created == {t \in Tasks : args[t].created > 0}

(* Mutant: the queue is checked without the lock.                          *)
SubmitChecksUnlocked(t) ==
  /\ At(t, "checked")
  /\ Cardinality(heap) < MaxQueueSize
  /\ args' = [args EXCEPT ![t].created = Cardinality(Created) + 1]
  /\ Goto(t, "saving")
  /\ UNCHANGED <<active, heap, lock, store, due, locals, sweep, events, calls, stops>>

SubmitAcquire(t) ==
  /\ At(t, "checked")
  /\ lock = NoOne
  /\ Cardinality(heap) < MaxQueueSize
  /\ lock' = t
  /\ args' = [args EXCEPT ![t].created = Cardinality(Created) + 1]
  /\ Goto(t, "saving")
  /\ UNCHANGED <<active, heap, store, due, locals, sweep, events, calls, stops>>

(* SchedulerOverloadedError: the lock is taken and released.               *)
SubmitReject(t) ==
  /\ At(t, "checked")
  /\ lock = NoOne
  /\ Cardinality(heap) >= MaxQueueSize
  /\ Goto(t, "rejected")
  /\ UNCHANGED <<active, heap, lock, store, args, due, locals, sweep, events, calls, stops>>

SubmitSave(t) ==
  /\ At(t, "saving")
  /\ store' = [store EXCEPT ![t] = WithStatus(Absent, "queued")]
  /\ Goto(t, "pushing")
  /\ UNCHANGED <<active, heap, lock, args, due, locals, sweep, events, calls, stops>>

(* Mutant: an await between the locked block and publish.                  *)
SubmitPublishesLate(t) ==
  /\ At(t, "pushing")
  /\ IF lock = t
     THEN heap' = heap \cup {t} /\ lock' = NoOne /\ UNCHANGED <<pc, events>>
     ELSE Publish(t, "task.created") /\ Goto(t, "queued") /\ UNCHANGED <<heap, lock>>
  /\ UNCHANGED <<active, store, args, due, locals, sweep, calls, stops>>

(* The push, the end of the locked block and the start of publish have no  *)
(* await between them.                                                     *)
SubmitPush(t) ==
  /\ At(t, "pushing")
  /\ heap' = heap \cup {t}
  /\ lock' = NoOne
  /\ Publish(t, "task.created")
  /\ Goto(t, "queued")
  /\ UNCHANGED <<active, store, args, due, locals, sweep, calls, stops>>

-----------------------------------------------------------------------------
(* claim.  On an empty heap it takes and releases the lock and returns     *)
(* None, which changes nothing.                                            *)

(* Mutant: ties are not broken by age.                                     *)
BeforeByPriority(t, u) == args[t].priority >= args[u].priority

(* _QueueItem.__lt__ *)
Before(t, u) ==
  \/ args[t].priority > args[u].priority
  \/ args[t].priority = args[u].priority /\ args[t].created < args[u].created

Pop(w) ==
  \E t \in heap :
    /\ \A u \in heap \ {t} : Before(t, u)
    /\ heap' = heap \ {t}
    /\ Local(w, t, Absent, "none")
    /\ Goto(w, "get")

(* Mutant: claim does not wait for the lock.                               *)
ClaimUnlocked(w) ==
  /\ At(w, "idle")
  /\ Pop(w)
  /\ UNCHANGED <<active, lock, store, args, due, sweep, events, calls, stops>>

ClaimAcquire(w) ==
  /\ At(w, "idle")
  /\ lock = NoOne
  /\ lock' = w
  /\ Pop(w)
  /\ UNCHANGED <<active, store, args, due, sweep, events, calls, stops>>

ClaimGet(w) ==
  /\ At(w, "get")
  /\ Local(w, item[w], store[item[w]], "none")
  /\ Goto(w, "got")
  /\ UNCHANGED <<active, heap, lock, store, args, due, sweep, events, calls, stops>>

(* A missing task or one no longer QUEUED: `continue`.                     *)
ClaimSkip(w) ==
  /\ At(w, "got")
  /\ copy[w].status # "queued"
  /\ \/ Pop(w) /\ UNCHANGED lock
     \/ /\ heap = {}
        /\ lock' = NoOne
        /\ NoLocal(w)
        /\ Goto(w, "idle")
        /\ UNCHANGED heap
  /\ UNCHANGED <<active, store, args, due, sweep, events, calls, stops>>

(* Mutant: the status of the popped task is not looked at.                 *)
ClaimAnyStatus(w) ==
  /\ At(w, "got")
  /\ store' = [store EXCEPT ![item[w]] = Assigned(copy[w], w)]
  /\ Goto(w, "publish")
  /\ UNCHANGED <<active, heap, lock, args, due, locals, sweep, events, calls, stops>>

ClaimSave(w) ==
  /\ At(w, "got")
  /\ copy[w].status = "queued"
  /\ store' = [store EXCEPT ![item[w]] = Assigned(copy[w], w)]
  /\ Goto(w, "publish")
  /\ UNCHANGED <<active, heap, lock, args, due, locals, sweep, events, calls, stops>>

(* Mutant: the assignment is not announced.                                *)
ClaimSilently(w) ==
  /\ At(w, "publish")
  /\ Goto(w, "handlers")
  /\ UNCHANGED <<active, heap, lock, store, args, due, locals, sweep, events, calls, stops>>

(* publish appends to the log, then waits for the handlers; the lock is    *)
(* still held.                                                             *)
ClaimPublish(w) ==
  /\ At(w, "publish")
  /\ Publish(item[w], "task.assigned")
  /\ Goto(w, "handlers")
  /\ UNCHANGED <<active, heap, lock, store, args, due, locals, sweep, calls, stops>>

ClaimReturn(w) ==
  /\ At(w, "handlers")
  /\ lock' = NoOne
  /\ Goto(w, "claimed")
  /\ UNCHANGED <<active, heap, store, args, due, locals, sweep, events, calls, stops>>

-----------------------------------------------------------------------------
(* mark_running, mark_succeeded, mark_failed and cancel: _update_status    *)
(* without the lock, then what each method adds.                           *)

NewStatus == [mark_running |-> "running", mark_succeeded |-> "succeeded",
              mark_failed |-> "failed", cancel |-> "cancelled"]

(* The await of store.get; for an absent task the method raises.           *)
UpdateGet(c, method, t) ==
  /\ MayRun(c)
  /\ store[t].status # "absent"
  /\ Local(c, t, store[t], method)
  /\ Goto(c, "save")
  /\ UNCHANGED <<active, heap, lock, store, args, due, sweep, events, stops>>

(* The caller is back where it called from: a worker that marked its task  *)
(* running goes on with it, every other caller is done.                    *)
Return(c) ==
  IF c \in Workers /\ op[c] = "mark_running"
  THEN Goto(c, "running") /\ Local(c, item[c], Absent, "none")
  ELSE Goto(c, "idle") /\ NoLocal(c)

(* Mutant: the status is saved in a fresh record, without the metadata.    *)
UpdateForgets(c) ==
  LET updated == WithStatus(Absent, NewStatus[op[c]]) IN
  /\ At(c, "save")
  /\ store' = [store EXCEPT ![item[c]] = updated]
  /\ \/ op[c] = "mark_running" /\ Return(c)
     \/ op[c] = "mark_failed" /\ Goto(c, "save2") /\ Local(c, item[c], updated, op[c])
     \/ op[c] \in {"mark_succeeded", "cancel"} /\ Goto(c, "notify") /\ UNCHANGED locals
  /\ UNCHANGED <<active, heap, lock, args, due, sweep, events, calls, stops>>

(* The copy read before is saved back whole, with the new status.          *)
UpdateSave(c) ==
  LET updated == WithStatus(copy[c], NewStatus[op[c]]) IN
  /\ At(c, "save")
  /\ store' = [store EXCEPT ![item[c]] = updated]
  /\ \/ op[c] = "mark_running" /\ Return(c)
     \/ op[c] = "mark_failed" /\ Goto(c, "save2") /\ Local(c, item[c], updated, op[c])
     \/ op[c] \in {"mark_succeeded", "cancel"} /\ Goto(c, "notify") /\ UNCHANGED locals
  /\ UNCHANGED <<active, heap, lock, args, due, sweep, events, calls, stops>>

(* mark_failed saves its own copy a second time, with the error.           *)
FailSave(c) ==
  /\ At(c, "save2")
  /\ store' = [store EXCEPT ![item[c]] = WithError(copy[c])]
  /\ Goto(c, "notify")
  /\ UNCHANGED <<active, heap, lock, args, due, locals, sweep, events, calls, stops>>

UpdateEvent == [mark_succeeded |-> "task.completed", mark_failed |-> "task.failed",
                cancel |-> "task.cancelled"]

UpdatePublish(c) ==
  /\ At(c, "notify")
  /\ Publish(item[c], UpdateEvent[op[c]])
  /\ Return(c)
  /\ UNCHANGED <<active, heap, lock, store, args, due, sweep, calls, stops>>

(* A worker reports on the task it claimed and on no other.                *)
WorkerReports(w) ==
  /\ \/ pc[w] = "claimed" /\ UpdateGet(w, "mark_running", item[w])
     \/ pc[w] = "running" /\ \E method \in {"mark_succeeded", "mark_failed"} :
                                UpdateGet(w, method, item[w])
  /\ UNCHANGED calls

ClientCalls(c) ==
  /\ pc[c] = "idle"
  /\ calls < MaxCalls
  /\ \E method \in ClientOps, t \in Tasks : UpdateGet(c, method, t)
  /\ calls' = calls + 1

-----------------------------------------------------------------------------
(* start, stop, _deadline_sweeper and _sweep_deadlines.                    *)

NoSweep == now' = {} /\ todo' = {} /\ kept' = {}

(* Exceptions and cancellation unwind a coroutine: its locals go, and the  *)
(* `async with` releases the lock if it is inside.                         *)
Unwind(c, rest) ==
  /\ lock' = IF lock = c THEN NoOne ELSE lock
  /\ Goto(c, rest)
  /\ NoLocal(c)
  /\ IF c = Sweeper THEN NoSweep ELSE UNCHANGED sweep

Start ==
  /\ At(Sweeper, "off")
  /\ Goto(Sweeper, "sleep")
  /\ UNCHANGED <<active, heap, lock, store, args, due, locals, sweep, events, calls, stops>>

(* Cancels the sweeper wherever it waits; a half-done sweep leaves _heap   *)
(* as it was.                                                              *)
Stop ==
  /\ MayRun(NoOne)
  /\ stops < MaxStops
  /\ pc[Sweeper] # "off"
  /\ Unwind(Sweeper, "off")
  /\ stops' = stops + 1
  /\ UNCHANGED <<active, heap, store, args, due, events, calls>>

(* `now` is read before the lock is waited for.                            *)
SweepStart ==
  /\ At(Sweeper, "sleep")
  /\ now' = due /\ UNCHANGED <<todo, kept>>
  /\ Goto(Sweeper, "wait")
  /\ UNCHANGED <<active, heap, lock, store, args, due, locals, events, calls, stops>>

(* Mutant: the sweeper does not take the lock.                             *)
SweepUnlocked ==
  /\ At(Sweeper, "wait")
  /\ todo' = heap /\ UNCHANGED <<now, kept>>
  /\ Goto(Sweeper, "scan")
  /\ UNCHANGED <<active, heap, lock, store, args, due, locals, events, calls, stops>>

SweepAcquire ==
  /\ At(Sweeper, "wait")
  /\ lock = NoOne
  /\ lock' = Sweeper
  /\ todo' = heap /\ UNCHANGED <<now, kept>>
  /\ Goto(Sweeper, "scan")
  /\ UNCHANGED <<active, heap, store, args, due, locals, events, calls, stops>>

(* Mutant: tasks that are not overdue do not survive.                      *)
SweepDropsRest ==
  /\ At(Sweeper, "scan")
  /\ \E t \in todo :
       /\ todo' = todo \ {t}
       /\ IF t \in now /\ store[t].status # "absent"
          THEN Local(Sweeper, t, store[t], "none") /\ Goto(Sweeper, "expire")
          ELSE UNCHANGED <<locals, pc>>
  /\ UNCHANGED <<now, kept>>
  /\ UNCHANGED <<active, heap, lock, store, args, due, events, calls, stops>>

(* Mutant: the deadline is compared the wrong way round.                   *)
SweepSparesOverdue ==
  /\ At(Sweeper, "scan")
  /\ \E t \in todo :
       /\ todo' = todo \ {t}
       /\ IF t \notin now /\ store[t].status # "absent"
          THEN Local(Sweeper, t, store[t], "none") /\ Goto(Sweeper, "expire") /\ UNCHANGED kept
          ELSE kept' = kept \cup {t} /\ UNCHANGED <<locals, pc>>
  /\ UNCHANGED now
  /\ UNCHANGED <<active, heap, lock, store, args, due, events, calls, stops>>

(* One turn of the loop: the await of store.get, whatever the status is.   *)
SweepGet ==
  /\ At(Sweeper, "scan")
  /\ \E t \in todo :
       /\ todo' = todo \ {t}
       /\ IF t \in now /\ store[t].status # "absent"
          THEN Local(Sweeper, t, store[t], "none") /\ Goto(Sweeper, "expire") /\ UNCHANGED kept
          ELSE kept' = kept \cup {t} /\ UNCHANGED <<locals, pc>>
  /\ UNCHANGED now
  /\ UNCHANGED <<active, heap, lock, store, args, due, events, calls, stops>>

SweepExpire ==
  /\ At(Sweeper, "expire")
  /\ store' = [store EXCEPT ![item[Sweeper]] = WithStatus(copy[Sweeper], "timeout")]
  /\ NoLocal(Sweeper)
  /\ Goto(Sweeper, "scan")
  /\ UNCHANGED <<active, heap, lock, args, due, sweep, events, calls, stops>>

SweepFinish ==
  /\ At(Sweeper, "scan")
  /\ todo = {}
  /\ heap' = kept
  /\ lock' = NoOne
  /\ NoSweep
  /\ Goto(Sweeper, "sleep")
  /\ UNCHANGED <<active, store, args, due, locals, events, calls, stops>>

-----------------------------------------------------------------------------
(* What happens around the scheduler.                                      *)

(* The registry saves an agent as ACTIVE or as something else: none of its *)
(* transitions has a guard.                                                *)
AgentChanges(a) ==
  /\ MayRun(NoOne)
  /\ active' = IF a \in active THEN active \ {a} ELSE active \cup {a}
  /\ UNCHANGED <<heap, lock, store, args, due, pc, locals, sweep, events, calls, stops>>

(* The clock passes t's deadline; for a task without one it never does.    *)
DeadlinePasses(t) ==
  /\ pc[t] # "new"
  /\ t \notin due
  /\ due' = due \cup {t}
  /\ UNCHANGED <<active, heap, lock, store, args, pc, locals, sweep, events, calls, stops>>

(* A store call raises or the caller is cancelled while it waits: the call *)
(* unwinds.  The sweeper swallows the exception; a worker that dies with a *)
(* task comes back without it.                                             *)
Abort(c) ==
  /\ Faults
  /\ pc[c] \notin {"new", "idle", "queued", "rejected", "failed", "off", "sleep"}
  /\ MayRun(c)
  /\ StoreYields \/ pc[c] \notin AtStore
  /\ Unwind(c, IF c \in Tasks THEN "failed" ELSE IF c = Sweeper THEN "sleep" ELSE "idle")
  /\ UNCHANGED <<active, heap, store, args, due, events, calls, stops>>

-----------------------------------------------------------------------------

Submit(t) ==
  SubmitCheck(t) \/ SubmitAcquire(t) \/ SubmitReject(t) \/ SubmitSave(t) \/ SubmitPush(t)

(* The rest of a claim whose worker holds the lock.                        *)
ClaimRest(w) ==
  ClaimGet(w) \/ ClaimSkip(w) \/ ClaimSave(w) \/ ClaimPublish(w) \/ ClaimReturn(w)

UpdateRest(c) == UpdateSave(c) \/ FailSave(c) \/ UpdatePublish(c)

Worker(w) == ClaimAcquire(w) \/ ClaimRest(w) \/ WorkerReports(w) \/ UpdateRest(w)

Client(c) == ClientCalls(c) \/ UpdateRest(c)

SweepRest == SweepStart \/ SweepGet \/ SweepExpire \/ SweepFinish

Next ==
  \/ \E t \in Tasks : Submit(t) \/ DeadlinePasses(t)
  \/ \E w \in Workers : Worker(w)
  \/ \E c \in Clients : Client(c)
  \/ Start \/ Stop \/ SweepAcquire \/ SweepRest
  \/ \E a \in Agents : AgentChanges(a)
  \/ \E c \in Coroutines : Abort(c)

Spec == Init /\ [][Next]_vars

-----------------------------------------------------------------------------
(* Safety, for every store.                                                *)

(* The tasks that a claim has popped and not yet decided on.               *)
InHand == {item[w] : w \in {v \in Workers : pc[v] \in {"get", "got"}}}

(* No task is lost between the store and the heap: without faults, a task  *)
(* stored as QUEUED is in the heap, about to be pushed by the submit that  *)
(* saved it, or in the hand of the claim that popped it.  Submit, claim    *)
(* and sweep each move a task across several awaits, while status updates  *)
(* come from anywhere without the lock.                                    *)
QueueComplete ==
  ~Faults =>
    \A t \in Tasks : store[t].status = "queued" =>
      t \in heap \/ pc[t] = "pushing" \/ t \in InHand

Logged(t, type) == \E i \in DOMAIN events[t] : events[t][i] = type

(* A task is handed to a worker at most once, and never before submit has  *)
(* announced it: the event log of a task holds one task.assigned at most,  *)
(* after its task.created, though the two are published by different       *)
(* coroutines, one of them outside the lock.                               *)
AssignedOnceAfterCreated ==
  \A t \in Tasks : \A i \in DOMAIN events[t] : events[t][i] = "task.assigned" =>
    /\ \E j \in 1 .. i - 1 : events[t][j] = "task.created"
    /\ \A j \in DOMAIN events[t] : events[t][j] = "task.assigned" => j = i

(* The queue never outgrows MAX_QUEUE_SIZE, though submit checks its size  *)
(* and pushes with an await of the store in between.                       *)
CapacityRespected == Cardinality(heap) <= MaxQueueSize

(* The sweeper never times out a task that a worker was given, although it *)
(* does not look at the status: only tasks still in the heap are swept.    *)
SweepSparesClaimed ==
  [][\A t \in Tasks :
       store'[t].status = "timeout" /\ store'[t] # store[t] => ~Logged(t, "task.assigned")]_vars

(* The scheduler is the queue of module TaskQueue: pending are the tasks   *)
(* in the heap or in the hand of a claim, closed those stored as anything  *)
(* but QUEUED.                                                             *)
Pending == heap \cup {item[w] : w \in {v \in Workers : pc[v] \in {"get", "got", "publish"}}}

Accepted == {t \in Tasks : pc[t] = "queued"}

Closed == {t \in Tasks : store[t].status \notin {"absent", "queued"}}

Delivered == {t \in Tasks : Logged(t, "task.assigned")}

TQ == INSTANCE TaskQueue WITH
  Rooms     <- {S \in SUBSET Tasks : Cardinality(S) <= MaxQueueSize},
  pending   <- Pending,
  accepted  <- Accepted,
  closed    <- Closed,
  delivered <- Delivered,
  rank      <- [t \in Tasks |-> <<args[t].priority, args[t].created>>]

(* Without faults the scheduler promises what a task queue does.           *)
QueueRefinement == TQ!Spec

-----------------------------------------------------------------------------
(* Safety that only the in-memory store gives.                             *)

(* A cancel that comes before the claim wins: a task that was cancelled    *)
(* while it waited is never assigned afterwards.                           *)
CancelWins ==
  [][\A t \in Tasks :
       store[t].status = "cancelled" => store'[t].status # "assigned"]_vars

(* The store names the worker that holds a task for as long as it holds    *)
(* it, whatever other callers write into the record meanwhile.             *)
OwnerRecorded ==
  \A w \in Workers : pc[w] \in {"claimed", "running"} => store[item[w]].worker = w

Quiet == \A c \in Coroutines : pc[c] \notin AtStore

StatusEvent == [assigned |-> "task.assigned", succeeded |-> "task.completed",
                failed |-> "task.failed", cancelled |-> "task.cancelled"]

(* Between two calls the log agrees with the store: the last event of a    *)
(* task is the one that goes with its status.                              *)
LogAgrees ==
  Quiet => \A t \in Tasks : store[t].status \in DOMAIN StatusEvent =>
    events[t][Len(events[t])] = StatusEvent[store[t].status]

-----------------------------------------------------------------------------
(* Liveness.  The event loop runs every coroutine that can run, asyncio's  *)
(* lock serves its waiters in order, and the sweeper's loop never ends.    *)
(* Nothing makes workers claim or clients call.                            *)
Fairness ==
  /\ \A t \in Tasks : WF_vars(SubmitSave(t)) /\ WF_vars(SubmitPush(t))
  /\ \A w \in Workers : WF_vars(ClaimRest(w))
  /\ \A c \in Workers \cup Clients : WF_vars(UpdateRest(c))
  /\ WF_vars(Start) /\ WF_vars(SweepRest) /\ SF_vars(SweepAcquire)

FairSpec == Spec /\ Fairness

(* A queued task whose deadline passes does not stay queued, even if no    *)
(* worker ever claims.                                                     *)
OverdueLeaves ==
  \A t \in Tasks : store[t].status = "queued" /\ t \in due ~> store[t].status # "queued"

(* A push that overtakes t (_QueueItem.__lt__: a higher priority goes      *)
(* first, however long the other one has waited).                          *)
Overtaken(t) == \E u \in heap' \ heap : args'[u].priority > args'[t].priority

(* If every worker keeps claiming and finishes what it claims, a queued    *)
(* task leaves the queue, unless it is overtaken for ever: the heap knows  *)
(* no ageing, so only those of the highest priority are never starved.     *)
(* Cancelled tasks, ties and sweeps between the claims cost it its turn    *)
(* never.                                                                  *)
QueuedServed ==
  (\A w \in Workers : SF_vars(ClaimAcquire(w)) /\ WF_vars(WorkerReports(w)))
    => \A t \in Tasks : <>[][~Overtaken(t)]_vars =>
         (store[t].status = "queued" ~> store[t].status # "queued")

=============================================================================
