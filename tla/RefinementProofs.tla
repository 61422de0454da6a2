--------------------------- MODULE RefinementProofs ---------------------------
(***************************************************************************)
(* Without faults the scheduler implements the task queue of TaskQueue,    *)
(* for any number of tasks, workers and clients, any capacity and either   *)
(* kind of store: every step of a coroutine is a step of the queue or      *)
(* leaves it as it is.                                                     *)
(***************************************************************************)
EXTENDS SchedulerProofs

-----------------------------------------------------------------------------
(* What the step simulation needs beyond the safety invariant.             *)

(* A task whose submit has saved it stays stored.                          *)
StoredInv == \A t \in Tasks : pc[t] \in {"pushing", "queued"} => store[t].status # "absent"

(* The task in hand comes before everything in the heap.                   *)
TopInv == \A w \in Workers : pc[w] \in HandPC => \A u \in heap : Before(item[w], u)

(* What is about to be announced as assigned is no longer QUEUED.          *)
ClosedInv == \A w \in Workers : pc[w] = "publish" => store[item[w]].status # "queued"

(* A task is stored by its submit and by nobody before: who updates a task *)
(* has read it.                                                            *)
BornInv ==
  /\ \A t \in Tasks : pc[t] \in {"new", "checked", "saving"} => store[t].status = "absent"
  /\ \A c \in Workers \cup Clients : pc[c] \in StatusPC => store[item[c]].status # "absent"

RInv == StoredInv /\ TopInv /\ ClosedInv /\ BornInv

-----------------------------------------------------------------------------
(* Steps of the queue, in terms of the scheduler.                          *)

QueueStep == [TQ!Next]_(TQ!qvars)

ArgsKept == \A t \in Accepted : args'[t] = args[t]

LEMMA RanksKept ==
  ASSUME ArgsKept
  PROVE  TQ!RanksKept
BY DEF ArgsKept, Accepted, TQ!RanksKept

LEMMA DropStep ==
  ASSUME ArgsKept, NEW S \in SUBSET (Pending \cap Closed), Pending' = Pending \ S,
         UNCHANGED <<Accepted, Closed, Delivered>>
  PROVE  QueueStep
<1>1. S \in SUBSET Tasks
  BY DEF Closed
<1>2. TQ!Drop(S)
  BY RanksKept DEF TQ!Drop
<1> QED BY <1>1, <1>2 DEF QueueStep, TQ!Next

(* What the queue does not see, a rank before its task is accepted         *)
(* included, drops nothing.                                                *)
LEMMA NoStep ==
  ASSUME ArgsKept, UNCHANGED <<Pending, Accepted, Closed, Delivered>>
  PROVE  QueueStep
<1>1. {} \in SUBSET (Pending \cap Closed) /\ Pending' = Pending \ {}
  OBVIOUS
<1> QED BY <1>1, DropStep

LEMMA CloseStep ==
  ASSUME ArgsKept, NEW t \in Tasks, Closed' = Closed \cup {t},
         UNCHANGED <<Pending, Accepted, Delivered>>
  PROVE  QueueStep
BY RanksKept DEF QueueStep, TQ!Next, TQ!Close

LEMMA AddStep ==
  ASSUME ArgsKept, NEW t \in Tasks, t \notin Accepted, Pending \cup {t} \subseteq Tasks,
         Cardinality(Pending \cup {t}) <= MaxQueueSize,
         Pending' = Pending \cup {t}, Accepted' = Accepted \cup {t},
         UNCHANGED <<Closed, Delivered>>
  PROVE  QueueStep
BY RanksKept DEF QueueStep, TQ!Next, TQ!Add

LEMMA DeliverStep ==
  ASSUME ArgsKept, NEW t \in Tasks, t \in Pending \cap Closed, Pending \subseteq Tasks,
         \A u \in Pending \ {t} : Before(t, u), Pending' = Pending \ {t},
         Delivered' = Delivered \cup {t}, UNCHANGED <<Accepted, Closed>>
  PROVE  QueueStep
<1>1. \A u \in Pending \ {t} : TQ!Outranks(t, u)
  BY DEF TQ!Outranks, Before
<1> QED BY <1>1, RanksKept DEF QueueStep, TQ!Next, TQ!Deliver

-----------------------------------------------------------------------------
(* What is pending follows from who holds the lock.                        *)

PendingOf(h, p, i) == h \cup {i[w] : w \in {v \in Workers : p[v] \in HandPC}}

LEMMA PendingIs == Pending = PendingOf(heap, pc, item)
BY DEF Pending, PendingOf, HandPC

LEMMA PendingNext == Pending' = PendingOf(heap', pc', item')
BY DEF Pending, PendingOf, HandPC

(* Nobody has a task in hand after a step of submit or of the sweeper.     *)
LEMMA NoHand ==
  ASSUME IInv', lock' \notin Workers
  PROVE  TopInv' /\ ClosedInv' /\ Pending' = heap'
<1>1. \A c \in Coroutines : pc'[c] \in Locked <=> lock' = c
  BY DEF IInv, LockInv
<1>2. \A w \in Workers : pc'[w] \notin HandPC
  BY <1>1 DEF HandPC, Locked, Coroutines
<1>3. Pending' = heap'
  BY <1>2, PendingNext DEF PendingOf
<1> QED BY <1>2, <1>3 DEF TopInv, ClosedInv, HandPC

LEMMA NoHandNow ==
  ASSUME IInv, lock \notin Workers
  PROVE  Pending = heap
<1>1. \A c \in Coroutines : pc[c] \in Locked <=> lock = c
  BY DEF IInv, LockInv
<1>2. \A w \in Workers : pc[w] \notin HandPC
  BY <1>1 DEF HandPC, Locked, Coroutines
<1> QED BY <1>2, PendingIs DEF PendingOf

LEMMA HandNow ==
  ASSUME IInv, NEW w \in Workers, pc[w] \in HandPC
  PROVE  Pending = heap \cup {item[w]} /\ lock = w /\ item[w] \in Tasks
<1>1. \A c \in Coroutines : pc[c] \in Locked <=> lock = c
  BY DEF IInv, LockInv
<1>2. item[w] \in Tasks
  BY DEF IInv, TypeInv, LocalsOK, HandPC, Holding
<1>3. lock = w /\ \A v \in Workers : pc[v] \in HandPC <=> v = w
  BY <1>1 DEF HandPC, Locked, Coroutines
<1> QED BY <1>2, <1>3, PendingIs DEF PendingOf

(* A saved record that is neither absent nor QUEUED closes its task.       *)
LEMMA SavedClosed ==
  ASSUME TypeOK, NEW t \in Tasks, NEW task, task.status \notin {"absent", "queued"},
         store' = [store EXCEPT ![t] = task]
  PROVE  /\ Closed' = Closed \cup {t}
         /\ \A u \in Tasks : store[u].status # "absent" => store'[u].status # "absent"
         /\ \A u \in Tasks : store[u].status # "queued" => store'[u].status # "queued"
BY DEF TypeOK, Closed

LEMMA SameClosed ==
  ASSUME UNCHANGED store
  PROVE  Closed' = Closed
BY DEF Closed

LEMMA SameDelivered ==
  ASSUME UNCHANGED events
  PROVE  Delivered' = Delivered
BY DEF Delivered, Logged

-----------------------------------------------------------------------------
(* The store.                                                              *)

SavedStep ==
  \/ UNCHANGED store
  \/ \E t \in Tasks : SubmitSave(t)
  \/ \E w \in Workers : ClaimSave(w)
  \/ \E c \in Workers \cup Clients : UpdateSave(c) \/ FailSave(c)
  \/ SweepExpire

LEMMA WhoSaves ==
  ASSUME [Next]_vars
  PROVE  SavedStep
BY DEF SavedStep, Next, vars, Submit, SubmitCheck, SubmitAcquire, SubmitReject, SubmitPush,
   DeadlinePasses, Worker, ClaimAcquire, ClaimRest, ClaimGet, ClaimSkip, ClaimPublish, ClaimReturn,
   WorkerReports, UpdateGet, UpdateRest, UpdatePublish, Client, ClientCalls, Start, Stop,
   SweepAcquire, SweepRest, SweepStart, SweepGet, SweepFinish, AgentChanges, Abort

(* What is saved is not absent, and only submit saves it as QUEUED or      *)
(* saves what was absent.                                                  *)
LEMMA SaveFacts ==
  ASSUME IInv, RInv, SavedStep, NEW t \in Tasks
  PROVE  \/ store'[t] = store[t]
         \/ SubmitSave(t) /\ store'[t].status = "queued"
         \/ store[t].status # "absent" /\ store'[t].status \notin {"absent", "queued"}
<1> USE ConstantsAssumption
<1>0. TypeInv /\ TypeOK
  BY DEF IInv, TypeInv
<1>1. ASSUME NEW u \in Tasks, SubmitSave(u)
      PROVE  \/ store'[t] = store[t]
             \/ SubmitSave(t) /\ store'[t].status = "queued"
  <2>1. WithStatus(Absent, "queued").status = "queued"
    BY AbsentRecord, StatusRecord DEF TaskStatus
  <2>2. store' = [store EXCEPT ![u] = WithStatus(Absent, "queued")]
    BY <1>1 DEF SubmitSave
  <2>3. CASE u = t
    <3>1. store'[t] = WithStatus(Absent, "queued")
      BY <1>0, <2>2, <2>3 DEF TypeOK
    <3> QED BY <1>1, <2>1, <2>3, <3>1
  <2>4. CASE u # t
    BY <1>0, <2>2, <2>4 DEF TypeOK
  <2> QED BY <2>3, <2>4
<1>2. ASSUME NEW w \in Workers, ClaimSave(w)
      PROVE  \/ store'[t] = store[t]
             \/ store[t].status # "absent" /\ store'[t].status \notin {"absent", "queued"}
  <2>1. item[w] \in Tasks /\ store[item[w]].status # "absent"
    <3>1. pc[w] \in HandPC
      BY <1>2 DEF ClaimSave, At, HandPC
    <3> QED BY <1>0, <3>1 DEF IInv, PlaceInv, RInv, StoredInv, TypeInv, LocalsOK, HandPC, Holding
  <2>2. Assigned(copy[w], w).status = "assigned"
    BY <1>0, AssignedRecord DEF TypeOK, Coroutines
  <2>3. store' = [store EXCEPT ![item[w]] = Assigned(copy[w], w)]
    BY <1>2 DEF ClaimSave
  <2> QED BY <1>0, <2>1, <2>2, <2>3 DEF TypeOK
<1>3. ASSUME NEW c \in Workers \cup Clients, UpdateSave(c)
      PROVE  \/ store'[t] = store[t]
             \/ store[t].status # "absent" /\ store'[t].status \notin {"absent", "queued"}
  <2> DEFINE updated == WithStatus(copy[c], NewStatus[op[c]])
  <2>1. op[c] \in StatusOps /\ item[c] \in Tasks /\ copy[c] \in StoredTask
        /\ store[item[c]].status # "absent"
    BY <1>0, <1>3 DEF TypeInv, TypeOK, LocalsOK, UpdateSave, At, StatusPC, Coroutines, RInv, BornInv
  <2>2. NewStatus[op[c]] \in TaskStatus \ {"queued", "absent"}
    BY <2>1 DEF NewStatus, StatusOps, TaskStatus
  <2>3. updated.status \notin {"absent", "queued"}
    BY <2>1, <2>2, StatusRecord
  <2>4. store' = [store EXCEPT ![item[c]] = updated]
    BY <1>3 DEF UpdateSave
  <2> HIDE DEF updated
  <2> QED BY <1>0, <2>1, <2>3, <2>4 DEF TypeOK
<1>4. ASSUME NEW c \in Workers \cup Clients, FailSave(c)
      PROVE  \/ store'[t] = store[t]
             \/ store[t].status # "absent" /\ store'[t].status \notin {"absent", "queued"}
  <2>1. copy[c] \in StoredTask /\ copy[c].status = "failed" /\ item[c] \in Tasks
        /\ store[item[c]].status # "absent"
    BY <1>0, <1>4 DEF TypeInv, TypeOK, LocalsOK, FailSave, At, StatusPC, Coroutines, RInv, BornInv
  <2>2. WithError(copy[c]).status \notin {"absent", "queued"}
    BY <2>1, ErrorRecord
  <2>3. store' = [store EXCEPT ![item[c]] = WithError(copy[c])]
    BY <1>4 DEF FailSave
  <2> QED BY <1>0, <2>1, <2>2, <2>3 DEF TypeOK
<1>5. ASSUME SweepExpire
      PROVE  \/ store'[t] = store[t]
             \/ store[t].status # "absent" /\ store'[t].status \notin {"absent", "queued"}
  <2>1. item[Sweeper] \in Tasks /\ store[item[Sweeper]].status # "absent"
    BY <1>0, <1>5 DEF SweepExpire, At, IInv, SweepInv, PlaceInv, RInv, StoredInv, TypeOK
  <2>2. WithStatus(copy[Sweeper], "timeout").status = "timeout"
    BY <1>0, StatusRecord DEF TypeOK, Coroutines, TaskStatus
  <2>3. store' = [store EXCEPT ![item[Sweeper]] = WithStatus(copy[Sweeper], "timeout")]
    BY <1>5 DEF SweepExpire
  <2> QED BY <1>0, <2>1, <2>2, <2>3 DEF TypeOK
<1> QED BY <1>1, <1>2, <1>3, <1>4, <1>5 DEF SavedStep

(* The closed tasks are those saved as anything else.                      *)
LEMMA ClosedGrows ==
  ASSUME IInv, RInv, [Next]_vars
  PROVE  /\ Closed \subseteq Closed'
         /\ \A t \in Tasks : store[t].status # "absent" => store'[t].status # "absent"
         /\ (\E t \in Tasks : SubmitSave(t)) => Closed' = Closed
<1>1. SavedStep
  BY WhoSaves
<1>2. \A t \in Tasks : SubmitSave(t) => store[t].status = "absent"
  BY DEF SubmitSave, At, RInv, BornInv
<1>3. Closed \subseteq Closed' /\ \A t \in Tasks : store[t].status # "absent" => store'[t].status # "absent"
  BY <1>1, <1>2, SaveFacts DEF Closed
<1>4. ASSUME NEW t \in Tasks, SubmitSave(t) PROVE Closed' = Closed
  <2>1. WithStatus(Absent, "queued").status = "queued"
    BY AbsentRecord, StatusRecord DEF TaskStatus
  <2>2. store' = [store EXCEPT ![t] = WithStatus(Absent, "queued")]
    BY <1>4 DEF SubmitSave
  <2> QED BY <1>2, <1>4, <2>1, <2>2 DEF IInv, TypeInv, TypeOK, Closed
<1> QED BY <1>3, <1>4

(* How a submit goes on, and what a status method is at.                   *)
TaskMoves(t) ==
  \/ pc'[t] = pc[t]
  \/ pc'[t] \in {"rejected", "failed"}
  \/ pc[t] = "new" /\ pc'[t] = "checked"
  \/ pc[t] = "checked" /\ pc'[t] = "saving"
  \/ SubmitSave(t) /\ pc'[t] = "pushing"
  \/ pc[t] = "pushing" /\ pc'[t] = "queued"

CallerMoves(c) ==
  pc'[c] \in StatusPC =>
    \/ pc[c] \in StatusPC /\ item'[c] = item[c]
    \/ item'[c] \in Tasks /\ store[item'[c]].status # "absent"

LEMMA HowTasksMove ==
  ASSUME TypeInv, [Next]_vars, NEW t \in Tasks
  PROVE  TaskMoves(t)
<1> USE ConstantsAssumption
<1>0. TypeOK /\ t \in Coroutines
  BY DEF TypeInv, Coroutines
<1>1. ASSUME NEW u \in Tasks, Submit(u) PROVE TaskMoves(t)
  BY <1>0, <1>1
  DEF Submit, SubmitCheck, SubmitAcquire, SubmitReject, SubmitSave, SubmitPush, At, Goto, TypeOK,
      TaskMoves, Coroutines
<1>2. ASSUME NEW c \in Coroutines, c \notin Tasks, NEW place, Goto(c, place) PROVE TaskMoves(t)
  BY <1>0, <1>2 DEF Goto, TypeOK, TaskMoves
<1>3. ASSUME NEW w \in Workers, Worker(w) PROVE pc' = pc \/ \E place : Goto(w, place)
  BY <1>3
  DEF Worker, ClaimAcquire, ClaimRest, ClaimGet, ClaimSkip, ClaimSave, ClaimPublish, ClaimReturn,
      WorkerReports, UpdateGet, UpdateRest, UpdateSave, FailSave, UpdatePublish, Return, Pop
<1>4. ASSUME NEW c \in Clients, Client(c) PROVE pc' = pc \/ \E place : Goto(c, place)
  BY <1>4 DEF Client, ClientCalls, UpdateGet, UpdateRest, UpdateSave, FailSave, UpdatePublish, Return
<1>5. CASE Start \/ Stop \/ SweepAcquire \/ SweepRest
  <2>1. pc' = pc \/ \E place : Goto(Sweeper, place)
    BY <1>5
    DEF Start, Stop, Unwind, SweepAcquire, SweepRest, SweepStart, SweepGet, SweepExpire, SweepFinish
  <2> QED BY <1>2, <2>1 DEF TaskMoves, Coroutines
<1>6. ASSUME NEW c \in Coroutines, Abort(c) PROVE TaskMoves(t)
  BY <1>0, <1>6 DEF Abort, Unwind, Goto, TypeOK, TaskMoves
<1>7. CASE UNCHANGED pc
  BY <1>7 DEF TaskMoves
<1> QED
  BY <1>1, <1>2, <1>3, <1>4, <1>5, <1>6, <1>7
  DEF Next, vars, DeadlinePasses, AgentChanges, Coroutines, TaskMoves

LEMMA HowCallersMove ==
  ASSUME TypeInv, [Next]_vars, NEW c \in Workers \cup Clients
  PROVE  CallerMoves(c)
<1> USE ConstantsAssumption
<1>0. TypeOK /\ c \in Coroutines /\ c \notin Tasks /\ c # Sweeper
  BY DEF TypeInv, Coroutines
<1>1. ASSUME NEW d \in Workers \cup Clients, NEW method, NEW t \in Tasks, UpdateGet(d, method, t)
      PROVE  CallerMoves(c)
  <2>1. d \in Coroutines
    BY DEF Coroutines
  <2> QED BY <1>0, <1>1, <2>1 DEF UpdateGet, Local, Goto, TypeOK, CallerMoves
<1>2. ASSUME NEW d \in Workers \cup Clients, UpdateRest(d) PROVE CallerMoves(c)
  <2>1. d \in Coroutines
    BY DEF Coroutines
  <2> QED BY <1>0, <1>2, <2>1
          DEF UpdateRest, UpdateSave, FailSave, UpdatePublish, Return, Local, NoLocal, At, Goto,
              locals, TypeOK, StatusPC, CallerMoves
<1>3. ASSUME NEW w \in Workers, ClaimAcquire(w) \/ ClaimRest(w) PROVE CallerMoves(c)
  <2>1. w \in Coroutines
    BY DEF Coroutines
  <2> QED BY <1>0, <1>3, <2>1
          DEF ClaimAcquire, ClaimRest, ClaimGet, ClaimSkip, ClaimSave, ClaimPublish, ClaimReturn,
              Pop, Local, NoLocal, At, Goto, locals, TypeOK, StatusPC, CallerMoves
<1>4. ASSUME NEW w \in Workers, WorkerReports(w) PROVE CallerMoves(c)
  <2>1. item[w] \in Tasks
    BY <1>4 DEF WorkerReports, TypeInv, LocalsOK, Holding
  <2> QED BY <1>1, <1>4, <2>1 DEF WorkerReports
<1>5. ASSUME NEW d \in Clients, ClientCalls(d) PROVE CallerMoves(c)
  BY <1>1, <1>5 DEF ClientCalls
<1>6. CASE Start \/ Stop \/ SweepAcquire \/ SweepRest
  BY <1>0, <1>6
  DEF Start, Stop, Unwind, SweepAcquire, SweepRest, SweepStart, SweepGet, SweepExpire, SweepFinish,
      Local, NoLocal, Goto, locals, TypeOK, CallerMoves
<1>7. ASSUME NEW d \in Coroutines, Abort(d) PROVE CallerMoves(c)
  BY <1>0, <1>7 DEF Abort, Unwind, NoLocal, Local, Goto, TypeOK, StatusPC, CallerMoves
<1>8. ASSUME NEW t \in Tasks, Submit(t) PROVE CallerMoves(c)
  BY <1>0, <1>8
  DEF Submit, SubmitCheck, SubmitAcquire, SubmitReject, SubmitSave, SubmitPush, Goto, locals,
      TypeOK, Coroutines, CallerMoves
<1>9. CASE UNCHANGED <<pc, item>>
  BY <1>9 DEF CallerMoves
<1> QED
  BY <1>1, <1>2, <1>3, <1>4, <1>5, <1>6, <1>7, <1>8, <1>9
  DEF Next, vars, locals, Worker, Client, DeadlinePasses, AgentChanges

LEMMA NextStored ==
  ASSUME IInv, RInv, [Next]_vars
  PROVE  StoredInv' /\ BornInv'
<1>0. TypeInv /\ SavedStep
  BY WhoSaves DEF IInv
<1>1. \A t \in Tasks : TaskMoves(t)
  BY <1>0, HowTasksMove
<1>2. \A c \in Workers \cup Clients : CallerMoves(c)
  BY <1>0, HowCallersMove
<1>3. \A t \in Tasks : store[t].status # "absent" => store'[t].status # "absent"
  BY ClosedGrows
<1>4. ASSUME NEW t \in Tasks, SubmitSave(t) PROVE store'[t].status # "absent"
  <2>1. WithStatus(Absent, "queued").status = "queued"
    BY AbsentRecord, StatusRecord DEF TaskStatus
  <2>2. store' = [store EXCEPT ![t] = WithStatus(Absent, "queued")]
    BY <1>4 DEF SubmitSave
  <2>3. store'[t] = WithStatus(Absent, "queued")
    BY <1>0, <2>2 DEF TypeInv, TypeOK
  <2> QED BY <2>1, <2>3
<1>5. StoredInv'
  BY <1>1, <1>3, <1>4 DEF StoredInv, RInv, TaskMoves
<1>6. ASSUME NEW t \in Tasks, pc'[t] \in {"new", "checked", "saving"} PROVE store'[t].status = "absent"
  <2>1. pc[t] \in {"new", "checked", "saving"} /\ store[t].status = "absent"
    BY <1>1, <1>6 DEF TaskMoves, RInv, BornInv
  <2>2. ~SubmitSave(t)
    <3>1. SubmitSave(t) => pc'[t] = "pushing"
      BY <1>0 DEF SubmitSave, Goto, TypeInv, TypeOK, Coroutines
    <3> QED BY <1>6, <3>1
  <2> QED BY <1>0, <2>1, <2>2, SaveFacts
<1>7. ASSUME NEW c \in Workers \cup Clients, pc'[c] \in StatusPC PROVE store'[item'[c]].status # "absent"
  <2>1. pc[c] \in StatusPC => item[c] \in Tasks /\ store[item[c]].status # "absent"
    BY <1>0 DEF TypeInv, LocalsOK, RInv, BornInv
  <2> QED BY <1>2, <1>3, <1>7, <2>1 DEF CallerMoves
<1> QED BY <1>5, <1>6, <1>7 DEF BornInv

-----------------------------------------------------------------------------
(* Steps outside the lock.                                                 *)

Seen == TopInv' /\ ClosedInv' /\ QueueStep

LEMMA AsideSees ==
  ASSUME IInv, RInv, Aside, ArgsKept
  PROVE  TopInv' /\ ClosedInv' /\ UNCHANGED <<Pending, Accepted, Delivered>>
<1> USE ConstantsAssumption
<1>1. PICK c \in Coroutines :
        /\ pc[c] \notin Locked /\ pc'[c] \notin Locked
        /\ \A d \in Coroutines \ {c} : pc'[d] = pc[d] /\ item'[d] = item[d] /\ copy'[d] = copy[d]
  BY DEF Aside
<1>2. heap' = heap /\ heap \subseteq Accepted
  BY DEF Aside, IInv, PlaceInv, TypeInv, TypeOK, Accepted
<1>3. \A w \in Workers : /\ pc'[w] \in HandPC <=> pc[w] \in HandPC
                         /\ pc[w] \in HandPC => pc'[w] = pc[w] /\ item'[w] = item[w]
  BY <1>1 DEF HandPC, Locked, Coroutines
<1>4. \A w \in Workers : pc[w] \in HandPC => item[w] \in Accepted /\ item[w] \in Tasks
  BY DEF IInv, PlaceInv, Accepted, TypeInv, LocalsOK, HandPC, Holding
<1>5. UNCHANGED <<Pending, Accepted, Delivered>>
  <2>1. Pending' = Pending
    BY <1>2, <1>3, PendingIs, PendingNext DEF PendingOf
  <2>2. Accepted' = Accepted /\ Delivered' = Delivered
    BY DEF Aside, Accepted, Delivered
  <2> QED BY <2>1, <2>2
<1>6. TopInv'
  <2> SUFFICES ASSUME NEW w \in Workers, pc'[w] \in HandPC, NEW u \in heap
               PROVE  Before(item[w], u)'
    BY <1>2 DEF TopInv
  <2>1. item'[w] = item[w] /\ Before(item[w], u) /\ item[w] \in Accepted /\ u \in Accepted
    BY <1>2, <1>3, <1>4 DEF RInv, TopInv
  <2>2. args'[item[w]] = args[item[w]] /\ args'[u] = args[u]
    BY <2>1 DEF ArgsKept
  <2> QED BY <2>1, <2>2 DEF Before
<1>7. ClosedInv'
  BY <1>3, <1>4 DEF Aside, RInv, ClosedInv, HandPC
<1> QED BY <1>5, <1>6, <1>7

LEMMA SubmitOutside ==
  ASSUME IInv, RInv, NEW t \in Tasks, SubmitCheck(t) \/ SubmitReject(t)
  PROVE  Seen
<1>1. Aside /\ UNCHANGED <<store, events>>
  BY SubmitAside DEF SubmitCheck, SubmitReject
<1>2. ArgsKept
  BY DEF ArgsKept, Accepted, SubmitCheck, SubmitReject, At, IInv, TypeInv, TypeOK
<1> QED BY <1>1, <1>2, AsideSees, SameClosed, NoStep DEF Seen

LEMMA SweeperOutside ==
  ASSUME IInv, RInv, Start \/ SweepStart
  PROVE  Seen
<1>1. Aside /\ UNCHANGED <<store, events, args>>
  BY SweeperAside DEF Start, SweepStart
<1>2. ArgsKept
  BY <1>1 DEF ArgsKept
<1> QED BY <1>1, <1>2, AsideSees, SameClosed, NoStep DEF Seen

LEMMA UpdateOutside ==
  ASSUME IInv, RInv, NEW c \in Workers \cup Clients,
         \/ pc[c] \in {"idle", "claimed", "running"}
            /\ \E method \in StatusOps, t \in Tasks : UpdateGet(c, method, t)
         \/ UpdateRest(c)
  PROVE  Seen
<1> USE ConstantsAssumption
<1>0. c \in Coroutines /\ TypeInv /\ TypeOK
  BY DEF Coroutines, IInv, TypeInv
<1>1. Aside
  BY UpdateAside
<1>2. ArgsKept
  BY DEF ArgsKept, UpdateGet, UpdateRest, UpdateSave, FailSave, UpdatePublish
<1>3. CASE UNCHANGED store
  BY <1>1, <1>2, <1>3, AsideSees, SameClosed, NoStep DEF Seen
<1>4. CASE UpdateSave(c)
  <2> DEFINE updated == WithStatus(copy[c], NewStatus[op[c]])
  <2>1. op[c] \in StatusOps /\ item[c] \in Tasks /\ copy[c] \in StoredTask
    BY <1>0, <1>4 DEF TypeInv, TypeOK, LocalsOK, UpdateSave, At, StatusPC
  <2>2. NewStatus[op[c]] \in TaskStatus \ {"queued", "absent"}
    BY <2>1 DEF NewStatus, StatusOps, TaskStatus
  <2>3. updated.status \notin {"absent", "queued"}
    BY <2>1, <2>2, StatusRecord
  <2>4. store' = [store EXCEPT ![item[c]] = updated]
    BY <1>4 DEF UpdateSave
  <2> HIDE DEF updated
  <2> QED BY <1>0, <1>1, <1>2, <2>1, <2>3, <2>4, SavedClosed, AsideSees, CloseStep DEF Seen
<1>5. CASE FailSave(c)
  <2>1. copy[c] \in StoredTask /\ copy[c].status = "failed" /\ item[c] \in Tasks
    BY <1>0, <1>5 DEF TypeInv, TypeOK, LocalsOK, FailSave, At, StatusPC
  <2>2. WithError(copy[c]).status \notin {"absent", "queued"}
    BY <2>1, ErrorRecord
  <2>3. store' = [store EXCEPT ![item[c]] = WithError(copy[c])]
    BY <1>5 DEF FailSave
  <2> QED BY <1>0, <1>1, <1>2, <2>1, <2>2, <2>3, SavedClosed, AsideSees, CloseStep DEF Seen
<1> QED BY <1>3, <1>4, <1>5 DEF UpdateGet, UpdateRest, UpdatePublish

-----------------------------------------------------------------------------
(* submit, inside the lock: the push is what adds the task.                *)

LEMMA SubmitInLock ==
  ASSUME IInv, IInv', RInv, [Next]_vars, NEW t \in Tasks,
         SubmitAcquire(t) \/ SubmitSave(t) \/ SubmitPush(t)
  PROVE  Seen
<1> USE ConstantsAssumption
<1>0. /\ t \in Coroutines /\ t \notin Workers /\ TypeOK
      /\ pc[t] \in {"checked", "saving", "pushing"}
      /\ \A d \in Coroutines \ {t} : pc'[d] = pc[d]
      /\ \A u \in Tasks : args'[u] = args[u] \/ u = t
  BY DEF Coroutines, IInv, TypeInv, TypeOK, SubmitAcquire, SubmitSave, SubmitPush, At, Goto
<1>1. lock \notin Workers /\ lock' \notin Workers
  <2>1. CASE SubmitAcquire(t)
    BY <1>0, <2>1 DEF SubmitAcquire, Coroutines
  <2>2. CASE SubmitSave(t) \/ SubmitPush(t)
    <3>1. lock = t
      BY <1>0, <2>2 DEF SubmitSave, SubmitPush, At, IInv, LockInv, Locked
    <3> QED BY <1>0, <2>2, <3>1 DEF SubmitSave, SubmitPush, Coroutines
  <2> QED BY <2>1, <2>2
<1>2. ArgsKept
  BY <1>0 DEF ArgsKept, Accepted
<1>3. Pending = heap /\ Pending' = heap' /\ TopInv' /\ ClosedInv'
  BY <1>1, NoHandNow, NoHand
<1>4. CASE SubmitAcquire(t)
  <2>1. pc'[t] = "saving" /\ UNCHANGED <<heap, store, events>>
    BY <1>0, <1>4 DEF SubmitAcquire, Goto, TypeOK
  <2>2. Accepted' = Accepted
    BY <1>0, <2>1 DEF Accepted, Coroutines
  <2> QED BY <1>2, <1>3, <2>1, <2>2, SameClosed, SameDelivered, NoStep DEF Seen
<1>5. CASE SubmitSave(t)
  <2>1. pc[t] = "saving" /\ pc'[t] = "pushing" /\ UNCHANGED <<heap, events>>
    BY <1>0, <1>5 DEF SubmitSave, At, Goto, TypeOK
  <2>2. Accepted' = Accepted
    BY <1>0, <2>1 DEF Accepted, Coroutines
  <2>3. Closed' = Closed
    BY <1>5, ClosedGrows
  <2> QED BY <1>2, <1>3, <2>1, <2>2, <2>3, SameDelivered, NoStep DEF Seen
<1>6. CASE SubmitPush(t)
  <2>1. /\ pc[t] = "pushing" /\ pc'[t] = "queued" /\ UNCHANGED store
        /\ heap' = heap \cup {t} /\ Publish(t, "task.created")
    BY <1>0, <1>6 DEF SubmitPush, At, Goto, TypeOK
  <2>2. t \notin Accepted /\ Accepted' = Accepted \cup {t}
    BY <1>0, <2>1 DEF Accepted, Coroutines
  <2>3. Delivered' = Delivered
    BY <1>0, <2>1, PublishLogged DEF Delivered, EventTypes
  <2>4. heap' \subseteq Tasks /\ Cardinality(heap') <= MaxQueueSize
    BY DEF IInv, TypeInv, TypeOK, CapacityRespected
  <2> QED BY <1>2, <1>3, <2>1, <2>2, <2>3, <2>4, SameClosed, AddStep DEF Seen
<1> QED BY <1>4, <1>5, <1>6

-----------------------------------------------------------------------------
(* The sweep: what it expires is closed, and finishing drops it.           *)

LEMMA SweepInLock ==
  ASSUME IInv, IInv', RInv, SweepAcquire \/ SweepGet \/ SweepExpire \/ SweepFinish
  PROVE  Seen
<1> USE ConstantsAssumption
<1>0. /\ Sweeper \in Coroutines /\ Sweeper \notin Workers /\ Sweeper \notin Tasks /\ TypeOK /\ TypeInv
      /\ \A d \in Coroutines \ {Sweeper} : pc'[d] = pc[d]
      /\ ArgsKept /\ UNCHANGED events
  BY DEF Coroutines, IInv, TypeInv, TypeOK, SweepAcquire, SweepGet, SweepExpire, SweepFinish, Goto,
         ArgsKept
<1>1. lock \notin Workers /\ lock' \notin Workers
  <2>1. CASE SweepAcquire
    BY <1>0, <2>1 DEF SweepAcquire, Coroutines
  <2>2. CASE SweepGet \/ SweepExpire \/ SweepFinish
    <3>1. lock = Sweeper
      BY <1>0, <2>2 DEF SweepGet, SweepExpire, SweepFinish, At, IInv, LockInv, Locked
    <3> QED BY <1>0, <2>2, <3>1 DEF SweepGet, SweepExpire, SweepFinish, Coroutines
  <2> QED BY <2>1, <2>2
<1>2. Pending = heap /\ Pending' = heap' /\ TopInv' /\ ClosedInv'
  BY <1>1, NoHandNow, NoHand
<1>3. Accepted' = Accepted /\ Delivered' = Delivered
  BY <1>0, SameDelivered DEF Accepted, Coroutines
<1>4. CASE SweepAcquire \/ SweepGet
  <2>1. UNCHANGED <<heap, store>>
    BY <1>4 DEF SweepAcquire, SweepGet
  <2> QED BY <1>0, <1>2, <1>3, <2>1, SameClosed, NoStep DEF Seen
<1>5. CASE SweepExpire
  <2>1. item[Sweeper] \in Tasks
    BY <1>0, <1>5 DEF SweepExpire, At, TypeInv, LocalsOK
  <2>2. WithStatus(copy[Sweeper], "timeout").status \notin {"absent", "queued"}
    BY <1>0, StatusRecord DEF TypeOK, TaskStatus
  <2>3. store' = [store EXCEPT ![item[Sweeper]] = WithStatus(copy[Sweeper], "timeout")] /\ heap' = heap
    BY <1>5 DEF SweepExpire
  <2> QED BY <1>0, <1>2, <1>3, <2>1, <2>2, <2>3, SavedClosed, CloseStep DEF Seen
<1>6. CASE SweepFinish
  <2>1. heap' = kept /\ todo = {} /\ pc[Sweeper] = "scan" /\ UNCHANGED store
    BY <1>6 DEF SweepFinish, At
  <2>2. kept \subseteq heap /\ heap \subseteq Tasks
    BY <1>0, <2>1 DEF IInv, SweepInv, SweepPlaces, TypeOK
  <2>3. \A t \in heap \ kept : t \in Closed
    <3>1. \A t \in heap : store[t].status # "absent"
      BY <2>2 DEF IInv, PlaceInv, RInv, StoredInv
    <3>2. \A t \in heap : store[t].status = "queued" => t \in kept
      BY <2>1 DEF IInv, SweepInv, SweepPlaces
    <3> QED BY <2>2, <3>1, <3>2 DEF Closed
  <2>4. heap \ kept \in SUBSET (Pending \cap Closed) /\ Pending' = Pending \ (heap \ kept)
    BY <1>2, <2>1, <2>2, <2>3
  <2> QED BY <1>0, <1>2, <1>3, <2>1, <2>4, SameClosed, DropStep DEF Seen
<1> QED BY <1>4, <1>5, <1>6

-----------------------------------------------------------------------------
(* claim: it saves what it closes, skips what is closed, and delivers the  *)
(* first of what is pending.                                               *)

LEMMA HandNext ==
  ASSUME IInv', NEW w \in Workers, pc'[w] \in HandPC,
         \A u \in heap' : Before(item[w], u)',
         pc'[w] = "publish" => store'[item'[w]].status # "queued"
  PROVE  TopInv' /\ ClosedInv' /\ Pending' = heap' \cup {item'[w]}
<1>1. \A c \in Coroutines : pc'[c] \in Locked <=> lock' = c
  BY DEF IInv, LockInv
<1>2. \A v \in Workers : pc'[v] \in HandPC <=> v = w
  BY <1>1 DEF HandPC, Locked, Coroutines
<1> QED BY <1>2, PendingNext DEF PendingOf, TopInv, ClosedInv, HandPC

(* A claim that pops: from the heap alone, or after it dropped S.          *)
LEMMA PopSees ==
  ASSUME IInv, IInv', RInv, NEW w \in Workers, Pop(w), UNCHANGED <<store, args, events>>,
         NEW S \in SUBSET Closed, S \subseteq Pending, Pending \ S = heap
  PROVE  Seen
<1>0. w \in Coroutines /\ w \notin Tasks /\ TypeOK
  BY ConstantsAssumption DEF Coroutines, IInv, TypeInv
<1>1. PICK t \in heap :
        /\ \A u \in heap \ {t} : Before(t, u)
        /\ heap' = heap \ {t} /\ Local(w, t, Absent, "none") /\ Goto(w, "get")
  BY DEF Pop
<1>2. item'[w] = t /\ pc'[w] = "get" /\ \A d \in Coroutines \ {w} : pc'[d] = pc[d]
  BY <1>0, <1>1 DEF Local, Goto, TypeOK
<1>3. \A u \in heap' : Before(item[w], u)'
  BY <1>1, <1>2 DEF Before
<1>4. TopInv' /\ ClosedInv' /\ Pending' = heap' \cup {t}
  BY <1>2, <1>3, HandNext DEF HandPC
<1>5. Pending' = Pending \ S
  BY <1>1, <1>4
<1>6. Accepted' = Accepted /\ ArgsKept
  BY <1>0, <1>2 DEF Accepted, Coroutines, ArgsKept
<1> QED BY <1>4, <1>5, <1>6, SameClosed, SameDelivered, DropStep DEF Seen

LEMMA ClaimInLock ==
  ASSUME IInv, IInv', RInv, NEW w \in Workers, ClaimAcquire(w) \/ ClaimRest(w)
  PROVE  Seen
<1> USE ConstantsAssumption
<1>0. w \in Coroutines /\ w \notin Tasks /\ TypeOK /\ TypeInv
  BY DEF Coroutines, IInv, TypeInv
<1>1. CASE ClaimAcquire(w)
  <2>1. Pop(w) /\ UNCHANGED <<store, args, events>> /\ lock = NoOne
    BY <1>1 DEF ClaimAcquire
  <2>2. Pending \ {} = heap
    BY <2>1, NoHandNow DEF Coroutines
  <2> QED BY <2>1, <2>2, PopSees
<1>2. CASE ClaimSkip(w)
  <2>1. pc[w] = "got" /\ copy[w].status # "queued" /\ UNCHANGED <<store, args, events>>
    BY <1>2 DEF ClaimSkip, At
  <2>2. Pending = heap \cup {item[w]} /\ lock = w /\ item[w] \in Tasks
    BY <2>1, HandNow DEF HandPC
  <2>3. item[w] \in Closed /\ item[w] \notin heap
    <3>1. item[w] \notin heap /\ pc[item[w]] = "queued"
      BY <2>1 DEF IInv, PlaceInv, HandPC
    <3> QED BY <2>1, <2>2, <3>1 DEF IInv, SkipInv, RInv, StoredInv, Closed
  <2>4. CASE Pop(w)
    <3>1. {item[w]} \in SUBSET Closed /\ {item[w]} \subseteq Pending /\ Pending \ {item[w]} = heap
      BY <2>2, <2>3
    <3> QED BY <2>1, <2>4, <3>1, PopSees
  <2>5. CASE heap = {} /\ lock' = NoOne /\ NoLocal(w) /\ Goto(w, "idle") /\ UNCHANGED heap
    <3>1. TopInv' /\ ClosedInv' /\ Pending' = heap'
      BY <2>5, NoHand DEF Coroutines
    <3>2. Accepted' = Accepted /\ ArgsKept
      BY <1>0, <2>1, <2>5 DEF Goto, TypeOK, Accepted, Coroutines, ArgsKept
    <3>3. {item[w]} \in SUBSET (Pending \cap Closed) /\ Pending' = Pending \ {item[w]}
      BY <2>2, <2>3, <2>5, <3>1
    <3> QED BY <2>1, <3>1, <3>2, <3>3, SameClosed, SameDelivered, DropStep DEF Seen
  <2> QED BY <1>2, <2>4, <2>5 DEF ClaimSkip
<1>3. CASE ClaimGet(w) \/ ClaimSave(w) \/ ClaimPublish(w) \/ ClaimReturn(w)
  <2>1. /\ pc[w] \in {"get", "got", "publish", "handlers"}
        /\ \A d \in Coroutines \ {w} : pc'[d] = pc[d]
        /\ UNCHANGED <<heap, args>> /\ item'[w] = item[w]
        /\ pc'[w] \in {"got", "publish", "handlers", "claimed"}
    BY <1>0, <1>3
    DEF ClaimGet, ClaimSave, ClaimPublish, ClaimReturn, At, Goto, Local, locals, TypeOK
  <2>2. item[w] \in Tasks
    BY <2>1, <1>0 DEF TypeInv, LocalsOK, Holding
  <2>3. Accepted' = Accepted /\ ArgsKept
    BY <1>0, <2>1 DEF Accepted, Coroutines, ArgsKept
  <2>4. pc[w] \in HandPC => Pending = heap \cup {item[w]}
    BY HandNow
  <2>5. pc[w] \in HandPC => \A u \in heap' : Before(item[w], u)'
    BY <2>1 DEF RInv, TopInv, Before
  <2>6. CASE ClaimGet(w)
    <3>1. pc[w] = "get" /\ pc'[w] = "got" /\ UNCHANGED <<store, events>>
      BY <1>0, <2>6 DEF ClaimGet, At, Goto, TypeOK
    <3>2. TopInv' /\ ClosedInv' /\ Pending' = Pending
      BY <2>1, <2>4, <2>5, <3>1, HandNext DEF HandPC
    <3> QED BY <2>3, <3>1, <3>2, SameClosed, SameDelivered, NoStep DEF Seen
  <2>7. CASE ClaimSave(w)
    <3>1. /\ pc[w] = "got" /\ pc'[w] = "publish" /\ UNCHANGED events
          /\ store' = [store EXCEPT ![item[w]] = Assigned(copy[w], w)]
      BY <1>0, <2>7 DEF ClaimSave, At, Goto, TypeOK
    <3>2. Assigned(copy[w], w).status = "assigned"
      BY <1>0, AssignedRecord DEF TypeOK
    <3>3. store'[item[w]].status # "queued"
      BY <1>0, <2>2, <3>1, <3>2 DEF TypeOK
    <3>4. TopInv' /\ ClosedInv' /\ Pending' = Pending
      BY <2>1, <2>4, <2>5, <3>1, <3>3, HandNext DEF HandPC
    <3>5. Closed' = Closed \cup {item[w]}
      BY <1>0, <2>2, <3>1, <3>2, SavedClosed
    <3> QED BY <2>2, <2>3, <3>1, <3>4, <3>5, SameDelivered, CloseStep DEF Seen
  <2>8. CASE ClaimPublish(w)
    <3>1. /\ pc[w] = "publish" /\ pc'[w] = "handlers" /\ UNCHANGED store
          /\ Publish(item[w], "task.assigned")
      BY <1>0, <2>8 DEF ClaimPublish, At, Goto, TypeOK
    <3>2. lock' = w
      BY <1>0, <3>1 DEF IInv, LockInv, Locked
    <3>3. \A v \in Workers : pc'[v] \notin HandPC
      <4>1. \A c \in Coroutines : pc'[c] \in Locked <=> lock' = c
        BY DEF IInv, LockInv
      <4> QED BY <3>1, <3>2, <4>1 DEF HandPC, Locked, Coroutines
    <3>4. TopInv' /\ ClosedInv' /\ Pending' = heap'
      BY <3>3, PendingNext DEF PendingOf, TopInv, ClosedInv, HandPC
    <3>5. item[w] \in Closed /\ item[w] \notin heap
      BY <2>2, <3>1 DEF IInv, PlaceInv, RInv, StoredInv, ClosedInv, Closed, HandPC
    <3>6. /\ item[w] \in Pending \cap Closed /\ Pending \subseteq Tasks
          /\ \A u \in Pending \ {item[w]} : Before(item[w], u)
          /\ Pending' = Pending \ {item[w]}
      BY <1>0, <2>1, <2>2, <2>4, <3>1, <3>4, <3>5 DEF HandPC, RInv, TopInv, TypeOK
    <3>7. Delivered' = Delivered \cup {item[w]}
      BY <1>0, <2>2, <3>1, PublishLogged DEF Delivered, EventTypes
    <3> QED BY <2>2, <2>3, <3>1, <3>4, <3>6, <3>7, SameClosed, DeliverStep DEF Seen
  <2>9. CASE ClaimReturn(w)
    <3>1. pc[w] = "handlers" /\ lock' = NoOne /\ UNCHANGED <<store, events>>
      BY <2>9 DEF ClaimReturn, At
    <3>2. \A v \in Workers : pc[v] \notin HandPC
      <4>1. lock = w
        BY <1>0, <3>1 DEF IInv, LockInv, Locked
      <4> QED BY <3>1, <4>1 DEF IInv, LockInv, HandPC, Locked, Coroutines
    <3>3. Pending = heap
      BY <3>2, PendingIs DEF PendingOf
    <3>4. TopInv' /\ ClosedInv' /\ Pending' = heap'
      BY <3>1, NoHand DEF Coroutines
    <3> QED BY <2>1, <2>3, <3>1, <3>3, <3>4, SameClosed, SameDelivered, NoStep DEF Seen
  <2> QED BY <1>3, <2>6, <2>7, <2>8, <2>9
<1> QED BY <1>1, <1>2, <1>3 DEF ClaimRest

-----------------------------------------------------------------------------
(* The rest: stop, the agents, the clock, and steps that do nothing.       *)

LEMMA StopSees ==
  ASSUME IInv, IInv', RInv, Stop
  PROVE  Seen
<1> USE ConstantsAssumption
<1>0. /\ Sweeper \in Coroutines /\ Sweeper \notin Workers /\ Sweeper \notin Tasks /\ TypeOK
      /\ UNCHANGED <<heap, store, args, events>> /\ ArgsKept
      /\ \A d \in Coroutines \ {Sweeper} : pc'[d] = pc[d]
      /\ lock' = IF lock = Sweeper THEN NoOne ELSE lock
  BY DEF Coroutines, IInv, TypeInv, TypeOK, Stop, Unwind, Goto, ArgsKept
<1>1. CASE pc[Sweeper] \notin Locked
  BY <1>0, <1>1, UnwindAside, AsideSees, SameClosed, NoStep DEF Seen
<1>2. CASE pc[Sweeper] \in Locked
  <2>1. lock \notin Workers /\ lock' \notin Workers
    BY <1>0, <1>2 DEF IInv, LockInv, Coroutines
  <2>2. Pending = heap /\ Pending' = heap' /\ TopInv' /\ ClosedInv'
    BY <2>1, NoHandNow, NoHand
  <2>3. Accepted' = Accepted
    BY <1>0 DEF Accepted, Coroutines
  <2> QED BY <1>0, <2>2, <2>3, SameClosed, SameDelivered, NoStep DEF Seen
<1> QED BY <1>1, <1>2

LEMMA NothingSeen ==
  ASSUME RInv, UNCHANGED <<heap, store, args, pc, item, events>>
  PROVE  Seen
<1>1. TopInv' /\ ClosedInv'
  BY DEF RInv, TopInv, ClosedInv, Before
<1>2. UNCHANGED <<Pending, Accepted, Closed, Delivered>> /\ ArgsKept
  BY DEF Pending, Accepted, Closed, Delivered, Logged, ArgsKept
<1> QED BY <1>1, <1>2, NoStep DEF Seen

-----------------------------------------------------------------------------
(* Every step maps to a step of the queue or to none.                      *)

LEMMA InitQueue == Init => RInv /\ TQ!Init
<1> USE ConstantsAssumption
<1> SUFFICES ASSUME Init PROVE RInv /\ TQ!Init
  OBVIOUS
<1>1. /\ \A t \in Tasks : pc[t] = "new" /\ store[t] = Absent /\ events[t] = <<>>
      /\ \A c \in Workers \cup Clients : pc[c] = "idle"
      /\ heap = {}
  BY DEF Init, Coroutines
<1>2. RInv
  BY <1>1, AbsentRecord DEF RInv, StoredInv, TopInv, ClosedInv, BornInv, HandPC, StatusPC
<1>3. Pending = {} /\ Accepted = {} /\ Closed = {} /\ Delivered = {}
  BY <1>1, AbsentRecord DEF Pending, Accepted, Closed, Delivered, Logged
<1>4. \A t \in Tasks : args[t].priority = 0 /\ args[t].created = 0
  BY DEF Init
<1>5. [t \in Tasks |-> <<args[t].priority, args[t].created>>] \in [Tasks -> Int \X Nat]
  BY <1>4
<1> QED BY <1>2, <1>3, <1>5 DEF TQ!Init

LEMMA NextQueue ==
  ASSUME ~Faults, IInv, IInv', RInv, [Next]_vars
  PROVE  RInv' /\ QueueStep
<1> SUFFICES Seen
  BY NextStored DEF Seen, RInv
<1>1. ASSUME NEW t \in Tasks, Submit(t) PROVE Seen
  BY <1>1, SubmitOutside, SubmitInLock DEF Submit
<1>2. ASSUME NEW w \in Workers, Worker(w) PROVE Seen
  <2>1. CASE WorkerReports(w)
    <3>1. item[w] \in Tasks /\ pc[w] \in {"idle", "claimed", "running"}
      BY <2>1 DEF WorkerReports, IInv, TypeInv, LocalsOK, Holding
    <3>2. \E method \in StatusOps, t \in Tasks : UpdateGet(w, method, t)
      BY <2>1, <3>1 DEF WorkerReports, StatusOps
    <3> QED BY <3>1, <3>2, UpdateOutside
  <2> QED BY <1>2, <2>1, ClaimInLock, UpdateOutside DEF Worker
<1>3. ASSUME NEW c \in Clients, Client(c) PROVE Seen
  <2>1. CASE ClientCalls(c)
    <3>1. pc[c] = "idle" /\ \E method \in StatusOps, t \in Tasks : UpdateGet(c, method, t)
      BY ConstantsAssumption, <2>1 DEF ClientCalls
    <3> QED BY <3>1, UpdateOutside
  <2> QED BY <1>3, <2>1, UpdateOutside DEF Client
<1>4. CASE Start \/ SweepStart
  BY <1>4, SweeperOutside
<1>5. CASE SweepAcquire \/ SweepGet \/ SweepExpire \/ SweepFinish
  BY <1>5, SweepInLock
<1>6. CASE Stop
  BY <1>6, StopSees
<1>7. ASSUME NEW t \in Tasks, DeadlinePasses(t) PROVE Seen
  BY <1>7, NothingSeen DEF DeadlinePasses, locals
<1>8. ASSUME NEW a \in Agents, AgentChanges(a) PROVE Seen
  BY <1>8, NothingSeen DEF AgentChanges, locals
<1>9. CASE UNCHANGED vars
  BY <1>9, NothingSeen DEF vars
<1> QED
  BY <1>1, <1>2, <1>3, <1>4, <1>5, <1>6, <1>7, <1>8, <1>9 DEF Next, SweepRest, Abort

(* Without faults every behaviour of the scheduler is one of the queue: no *)
(* more wait than MAX_QUEUE_SIZE, each task is let in once, and what waits *)
(* leaves by being delivered, first in rank first, or by being dropped     *)
(* after someone closed it.                                                *)
THEOREM RefinementCorrect ==
  ASSUME ~Faults
  PROVE  Spec => QueueRefinement
<1>1. Init => IInv /\ RInv /\ TQ!Init
  BY InitIInv, InitQueue
<1>2. IInv /\ RInv /\ [Next]_vars => IInv' /\ RInv' /\ [TQ!Next]_(TQ!qvars)
  BY NextIInv, NextQueue DEF QueueStep
<1> QED BY <1>1, <1>2, PTL DEF Spec, QueueRefinement, TQ!Spec

=============================================================================
