--------------------------- MODULE SchedulerProofs ---------------------------
(***************************************************************************)
(* The scheduler's safety for any number of tasks, workers and clients,    *)
(* any capacity and either kind of store: its types, the inductive         *)
(* invariant and what follows from it, and what the in-memory store adds.  *)
(***************************************************************************)
EXTENDS Scheduler, FiniteSetTheorems, TLAPS

-----------------------------------------------------------------------------
(* Types.  Where a coroutine is says which of its locals are meaningful.   *)

Holding == {"get", "got", "publish", "handlers", "claimed", "running"}

LocalsOK ==
  /\ \A w \in Workers : pc[w] \in Holding => item[w] \in Tasks
  /\ \A c \in Workers \cup Clients : pc[c] \in StatusPC =>
       /\ item[c] \in Tasks
       /\ op[c] # "none"
       /\ pc[c] = "save2" => op[c] = "mark_failed" /\ copy[c].status = "failed"
       /\ pc[c] = "notify" => op[c] # "mark_running"
  /\ pc[Sweeper] = "expire" => item[Sweeper] \in Tasks

TypeInv == TypeOK /\ LocalsOK

(* The heap and the set of created tasks are finite.                       *)
LEMMA FiniteHeap ==
  ASSUME NEW S, S \subseteq Tasks
  PROVE  IsFiniteSet(S) /\ Cardinality(S) \in Nat
BY ConstantsAssumption, FS_Subset, FS_CardinalityType

(* The records that the code derives from a record are records of the type.*)
LEMMA CreatedArgs ==
  ASSUME NEW a \in TaskArgs, NEW n \in Nat
  PROVE  [a EXCEPT !.created = n] \in TaskArgs
BY DEF TaskArgs

LEMMA StatusRecord ==
  ASSUME NEW task \in StoredTask, NEW status \in TaskStatus
  PROVE  WithStatus(task, status) \in StoredTask /\ WithStatus(task, status).status = status
BY DEF StoredTask, WithStatus

LEMMA AssignedRecord ==
  ASSUME NEW task \in StoredTask, NEW w \in Workers
  PROVE  Assigned(task, w) \in StoredTask /\ Assigned(task, w).status = "assigned"
BY DEF StoredTask, Assigned, TaskStatus

LEMMA ErrorRecord ==
  ASSUME NEW task \in StoredTask
  PROVE  WithError(task) \in StoredTask /\ WithError(task).status = task.status
BY DEF StoredTask, WithError

LEMMA AbsentRecord == Absent \in StoredTask /\ Absent.status = "absent"
BY DEF StoredTask, Absent, TaskStatus

(* What an assignment to the locals of one coroutine leaves of the types.  *)
LEMMA LocalType ==
  ASSUME TypeOK, NEW c \in Coroutines, NEW t \in Tasks \cup {NoOne}, NEW task \in StoredTask,
         NEW method \in StatusOps \cup {"none"}, Local(c, t, task, method)
  PROVE  /\ item' \in [Coroutines -> Tasks \cup {NoOne}]
         /\ copy' \in [Coroutines -> StoredTask]
         /\ op' \in [Coroutines -> StatusOps \cup {"none"}]
         /\ item'[c] = t /\ copy'[c] = task /\ op'[c] = method
         /\ \A d \in Coroutines \ {c} : item'[d] = item[d] /\ copy'[d] = copy[d] /\ op'[d] = op[d]
BY DEF TypeOK, Local

(* The places, by the kind of coroutine.                                   *)
PlacesOK(place) ==
  /\ place \in [Coroutines -> SubmitPC \cup WorkerPC \cup ClientPC \cup SweepPC]
  /\ \A t \in Tasks : place[t] \in SubmitPC
  /\ \A w \in Workers : place[w] \in WorkerPC
  /\ \A c \in Clients : place[c] \in ClientPC
  /\ place[Sweeper] \in SweepPC

LEMMA GotoType ==
  ASSUME TypeOK, NEW c \in Coroutines, NEW place, Goto(c, place),
         \/ c \in Tasks /\ place \in SubmitPC
         \/ c \in Workers /\ place \in WorkerPC
         \/ c \in Clients /\ place \in ClientPC
         \/ c = Sweeper /\ place \in SweepPC
  PROVE  /\ PlacesOK(pc')
         /\ pc'[c] = place
         /\ \A d \in Coroutines \ {c} : pc'[d] = pc[d]
BY ConstantsAssumption DEF TypeOK, Goto, Coroutines, PlacesOK

LEMMA PublishType ==
  ASSUME TypeOK, NEW t \in Tasks, NEW type \in EventTypes, Publish(t, type)
  PROVE  events' \in [Tasks -> Seq(EventTypes)]
BY DEF TypeOK, Publish

LEMMA InitType == Init => TypeInv
<1> SUFFICES ASSUME Init PROVE TypeInv
  OBVIOUS
<1>1. store \in [Tasks -> StoredTask] /\ copy \in [Coroutines -> StoredTask]
  BY AbsentRecord DEF Init
<1>2. args \in [Tasks -> TaskArgs]
  BY DEF Init, TaskArgs
<1>3. TypeOK
  BY <1>1, <1>2, ConstantsAssumption
  DEF Init, TypeOK, Coroutines, SubmitPC, WorkerPC, ClientPC, SweepPC, StatusPC
<1>4. LocalsOK
  BY ConstantsAssumption DEF Init, LocalsOK, Coroutines, Holding, StatusPC
<1> QED
  BY <1>3, <1>4 DEF TypeInv

LEMMA SubmitType ==
  ASSUME TypeInv, NEW t \in Tasks, Submit(t)
  PROVE  TypeInv'
<1> USE ConstantsAssumption
<1>0. t \in Coroutines /\ TypeOK
  BY DEF Coroutines, TypeInv
<1>1. CASE SubmitCheck(t)
  <2>1. PICK a \in active, p \in Priorities :
          args' = [args EXCEPT ![t] = [agent |-> a, priority |-> Clamp(p), created |-> 0]]
    BY <1>1 DEF SubmitCheck
  <2>2. [agent |-> a, priority |-> Clamp(p), created |-> 0] \in TaskArgs
    BY <1>0 DEF Clamp, TaskArgs, TypeOK
  <2>3. args' \in [Tasks -> TaskArgs]
    BY <1>0, <2>1, <2>2 DEF TypeOK
  <2>4. PlacesOK(pc') /\ pc'[t] = "checked" /\ \A d \in Coroutines \ {t} : pc'[d] = pc[d]
    BY <1>0, <1>1, GotoType DEF SubmitCheck, SubmitPC
  <2>5. TypeOK'
    BY <1>0, <1>1, <2>3, <2>4 DEF TypeOK, SubmitCheck, PlacesOK, locals, sweep
  <2>6. LocalsOK'
    BY <1>1, <2>4 DEF TypeInv, LocalsOK, SubmitCheck, Coroutines, locals
  <2> QED BY <2>5, <2>6 DEF TypeInv
<1>2. CASE SubmitAcquire(t)
  <2>1. args[t] \in TaskArgs /\ Cardinality(Created) + 1 \in Nat
    <3>1. Created \subseteq Tasks
      BY DEF Created
    <3> QED BY <1>0, <3>1, FiniteHeap DEF TypeOK
  <2>2. [args[t] EXCEPT !.created = Cardinality(Created) + 1] \in TaskArgs
    BY <2>1, CreatedArgs
  <2>3. args' \in [Tasks -> TaskArgs]
    BY <1>0, <1>2, <2>2 DEF TypeOK, SubmitAcquire
  <2>4. PlacesOK(pc') /\ pc'[t] = "saving" /\ \A d \in Coroutines \ {t} : pc'[d] = pc[d]
    BY <1>0, <1>2, GotoType DEF SubmitAcquire, SubmitPC
  <2>5. TypeOK'
    BY <1>0, <1>2, <2>3, <2>4 DEF TypeOK, SubmitAcquire, PlacesOK, locals, sweep
  <2>6. LocalsOK'
    BY <1>2, <2>4 DEF TypeInv, LocalsOK, SubmitAcquire, Coroutines, locals
  <2> QED BY <2>5, <2>6 DEF TypeInv
<1>3. CASE SubmitReject(t)
  <2>1. PlacesOK(pc') /\ pc'[t] = "rejected" /\ \A d \in Coroutines \ {t} : pc'[d] = pc[d]
    BY <1>0, <1>3, GotoType DEF SubmitReject, SubmitPC
  <2>2. TypeOK'
    BY <1>0, <1>3, <2>1 DEF TypeOK, SubmitReject, PlacesOK, locals, sweep
  <2>3. LocalsOK'
    BY <1>3, <2>1 DEF TypeInv, LocalsOK, SubmitReject, Coroutines, locals
  <2> QED BY <2>2, <2>3 DEF TypeInv
<1>4. CASE SubmitSave(t)
  <2>1. store' \in [Tasks -> StoredTask]
    BY <1>0, <1>4, AbsentRecord, StatusRecord DEF TypeOK, SubmitSave, TaskStatus
  <2>2. PlacesOK(pc') /\ pc'[t] = "pushing" /\ \A d \in Coroutines \ {t} : pc'[d] = pc[d]
    BY <1>0, <1>4, GotoType DEF SubmitSave, SubmitPC
  <2>3. TypeOK'
    BY <1>0, <1>4, <2>1, <2>2 DEF TypeOK, SubmitSave, PlacesOK, locals, sweep
  <2>4. LocalsOK'
    BY <1>4, <2>2 DEF TypeInv, LocalsOK, SubmitSave, Coroutines, locals
  <2> QED BY <2>3, <2>4 DEF TypeInv
<1>5. CASE SubmitPush(t)
  <2>1. events' \in [Tasks -> Seq(EventTypes)]
    BY <1>0, <1>5, PublishType DEF SubmitPush, EventTypes
  <2>2. PlacesOK(pc') /\ pc'[t] = "queued" /\ \A d \in Coroutines \ {t} : pc'[d] = pc[d]
    BY <1>0, <1>5, GotoType DEF SubmitPush, SubmitPC
  <2>3. TypeOK'
    BY <1>0, <1>5, <2>1, <2>2 DEF TypeOK, SubmitPush, PlacesOK, locals, sweep
  <2>4. LocalsOK'
    BY <1>5, <2>2 DEF TypeInv, LocalsOK, SubmitPush, Coroutines, locals
  <2> QED BY <2>3, <2>4 DEF TypeInv
<1> QED
  BY <1>1, <1>2, <1>3, <1>4, <1>5 DEF Submit

(* A pop leaves the worker with nothing but the task.                      *)
LEMMA PopType ==
  ASSUME TypeOK, NEW w \in Workers, Pop(w)
  PROVE  /\ heap' \subseteq Tasks
         /\ PlacesOK(pc') /\ pc'[w] = "get"
         /\ \A d \in Coroutines \ {w} : pc'[d] = pc[d]
         /\ item' \in [Coroutines -> Tasks \cup {NoOne}]
         /\ copy' \in [Coroutines -> StoredTask]
         /\ op' \in [Coroutines -> StatusOps \cup {"none"}]
         /\ item'[w] \in heap /\ heap' = heap \ {item'[w]}
         /\ \A d \in Coroutines \ {w} : item'[d] = item[d] /\ copy'[d] = copy[d] /\ op'[d] = op[d]
<1> USE ConstantsAssumption
<1>1. w \in Coroutines
  BY DEF Coroutines
<1>2. PICK t \in heap : heap' = heap \ {t} /\ Local(w, t, Absent, "none") /\ Goto(w, "get")
  BY DEF Pop
<1>3. t \in Tasks
  BY <1>2 DEF TypeOK
<1>4. /\ item' \in [Coroutines -> Tasks \cup {NoOne}]
      /\ copy' \in [Coroutines -> StoredTask]
      /\ op' \in [Coroutines -> StatusOps \cup {"none"}]
      /\ item'[w] = t
      /\ \A d \in Coroutines \ {w} : item'[d] = item[d] /\ copy'[d] = copy[d] /\ op'[d] = op[d]
  BY <1>1, <1>2, <1>3, AbsentRecord, LocalType
<1>5. PlacesOK(pc') /\ pc'[w] = "get" /\ \A d \in Coroutines \ {w} : pc'[d] = pc[d]
  BY <1>1, <1>2, GotoType DEF WorkerPC
<1> QED BY <1>2, <1>3, <1>4, <1>5 DEF TypeOK

LEMMA ClaimType ==
  ASSUME TypeInv, NEW w \in Workers, ClaimAcquire(w) \/ ClaimRest(w)
  PROVE  TypeInv'
<1> USE ConstantsAssumption
<1>0. w \in Coroutines /\ w # Sweeper /\ TypeOK
  BY DEF Coroutines, TypeInv
<1>p. ASSUME Pop(w), lock' \in Coroutines \cup {NoOne},
             UNCHANGED <<active, store, args, due, sweep, events, calls, stops>>
      PROVE  TypeInv'
  <2>1. /\ heap' \subseteq Tasks
        /\ PlacesOK(pc') /\ pc'[w] = "get"
        /\ \A d \in Coroutines \ {w} : pc'[d] = pc[d]
        /\ item' \in [Coroutines -> Tasks \cup {NoOne}]
        /\ copy' \in [Coroutines -> StoredTask]
        /\ op' \in [Coroutines -> StatusOps \cup {"none"}]
        /\ item'[w] \in heap
        /\ \A d \in Coroutines \ {w} : item'[d] = item[d] /\ copy'[d] = copy[d] /\ op'[d] = op[d]
    BY <1>0, <1>p, PopType
  <2>2. TypeOK'
    BY <1>0, <1>p, <2>1 DEF TypeOK, PlacesOK, sweep
  <2>3. LocalsOK'
    BY <1>0, <2>1 DEF TypeInv, TypeOK, LocalsOK, Coroutines, StatusPC
  <2> QED BY <2>2, <2>3 DEF TypeInv
<1>1. CASE ClaimAcquire(w)
  BY <1>0, <1>1, <1>p DEF ClaimAcquire
<1>2. CASE ClaimGet(w)
  <2>1. item[w] \in Tasks
    BY <1>2 DEF TypeInv, LocalsOK, ClaimGet, At, Holding
  <2>2. store[item[w]] \in StoredTask
    BY <1>0, <2>1 DEF TypeOK
  <2>3. /\ item' \in [Coroutines -> Tasks \cup {NoOne}]
        /\ copy' \in [Coroutines -> StoredTask]
        /\ op' \in [Coroutines -> StatusOps \cup {"none"}]
        /\ item'[w] = item[w]
        /\ \A d \in Coroutines \ {w} : item'[d] = item[d] /\ copy'[d] = copy[d] /\ op'[d] = op[d]
    BY <1>0, <1>2, <2>1, <2>2, LocalType DEF ClaimGet
  <2>4. PlacesOK(pc') /\ pc'[w] = "got" /\ \A d \in Coroutines \ {w} : pc'[d] = pc[d]
    BY <1>0, <1>2, GotoType DEF ClaimGet, WorkerPC
  <2>5. TypeOK'
    BY <1>0, <1>2, <2>3, <2>4 DEF TypeOK, ClaimGet, PlacesOK, sweep
  <2>6. LocalsOK'
    BY <1>0, <2>1, <2>3, <2>4 DEF TypeInv, LocalsOK, Coroutines, StatusPC
  <2> QED BY <2>5, <2>6 DEF TypeInv
<1>3. CASE ClaimSkip(w)
  <2>1. CASE Pop(w) /\ UNCHANGED lock
    BY <1>0, <1>3, <1>p, <2>1 DEF ClaimSkip, TypeOK
  <2>2. CASE lock' = NoOne /\ NoLocal(w) /\ Goto(w, "idle") /\ UNCHANGED heap
    <3>1. /\ item' \in [Coroutines -> Tasks \cup {NoOne}]
          /\ copy' \in [Coroutines -> StoredTask]
          /\ op' \in [Coroutines -> StatusOps \cup {"none"}]
          /\ \A d \in Coroutines \ {w} : item'[d] = item[d] /\ copy'[d] = copy[d] /\ op'[d] = op[d]
      BY <1>0, <2>2, AbsentRecord, LocalType DEF NoLocal
    <3>2. PlacesOK(pc') /\ pc'[w] = "idle" /\ \A d \in Coroutines \ {w} : pc'[d] = pc[d]
      BY <1>0, <2>2, GotoType DEF WorkerPC
    <3>3. TypeOK'
      BY <1>0, <1>3, <2>2, <3>1, <3>2 DEF TypeOK, ClaimSkip, PlacesOK, sweep
    <3>4. LocalsOK'
      BY <1>0, <3>1, <3>2 DEF TypeInv, LocalsOK, Coroutines, StatusPC, Holding
    <3> QED BY <3>3, <3>4 DEF TypeInv
  <2> QED BY <1>3, <2>1, <2>2 DEF ClaimSkip
<1>4. CASE ClaimSave(w)
  <2>1. Assigned(copy[w], w) \in StoredTask
    BY <1>0, AssignedRecord DEF TypeOK
  <2>2. store' \in [Tasks -> StoredTask]
    BY <1>0, <1>4, <2>1 DEF TypeOK, ClaimSave
  <2>3. PlacesOK(pc') /\ pc'[w] = "publish" /\ \A d \in Coroutines \ {w} : pc'[d] = pc[d]
    BY <1>0, <1>4, GotoType DEF ClaimSave, WorkerPC
  <2>4. TypeOK'
    BY <1>0, <1>4, <2>2, <2>3 DEF TypeOK, ClaimSave, PlacesOK, locals, sweep
  <2>5. LocalsOK'
    BY <1>0, <1>4, <2>3 DEF TypeInv, LocalsOK, ClaimSave, At, Coroutines, StatusPC, Holding, locals
  <2> QED BY <2>4, <2>5 DEF TypeInv
<1>5. CASE ClaimPublish(w)
  <2>1. item[w] \in Tasks
    BY <1>5 DEF TypeInv, LocalsOK, ClaimPublish, At, Holding
  <2>2. events' \in [Tasks -> Seq(EventTypes)]
    BY <1>0, <1>5, <2>1, PublishType DEF ClaimPublish, EventTypes
  <2>3. PlacesOK(pc') /\ pc'[w] = "handlers" /\ \A d \in Coroutines \ {w} : pc'[d] = pc[d]
    BY <1>0, <1>5, GotoType DEF ClaimPublish, WorkerPC
  <2>4. TypeOK'
    BY <1>0, <1>5, <2>2, <2>3 DEF TypeOK, ClaimPublish, PlacesOK, locals, sweep
  <2>5. LocalsOK'
    BY <1>0, <1>5, <2>1, <2>3 DEF TypeInv, LocalsOK, ClaimPublish, Coroutines, StatusPC, locals
  <2> QED BY <2>4, <2>5 DEF TypeInv
<1>6. CASE ClaimReturn(w)
  <2>1. PlacesOK(pc') /\ pc'[w] = "claimed" /\ \A d \in Coroutines \ {w} : pc'[d] = pc[d]
    BY <1>0, <1>6, GotoType DEF ClaimReturn, WorkerPC
  <2>2. TypeOK'
    BY <1>0, <1>6, <2>1 DEF TypeOK, ClaimReturn, PlacesOK, locals, sweep
  <2>3. LocalsOK'
    BY <1>0, <1>6, <2>1 DEF TypeInv, LocalsOK, ClaimReturn, At, Coroutines, StatusPC, Holding, locals
  <2> QED BY <2>2, <2>3 DEF TypeInv
<1> QED
  BY <1>1, <1>2, <1>3, <1>4, <1>5, <1>6 DEF ClaimRest

(* Where a status method leaves its caller.                                *)
LEMMA ReturnType ==
  ASSUME TypeInv, NEW c \in Workers \cup Clients, pc[c] \in StatusPC, Return(c)
  PROVE  /\ item' \in [Coroutines -> Tasks \cup {NoOne}]
         /\ copy' \in [Coroutines -> StoredTask]
         /\ op' \in [Coroutines -> StatusOps \cup {"none"}]
         /\ \A d \in Coroutines \ {c} : item'[d] = item[d] /\ copy'[d] = copy[d] /\ op'[d] = op[d]
         /\ PlacesOK(pc')
         /\ \A d \in Coroutines \ {c} : pc'[d] = pc[d]
         /\ pc'[c] = "idle" \/ (c \in Workers /\ pc'[c] = "running" /\ item'[c] \in Tasks)
<1> USE ConstantsAssumption
<1>0. c \in Coroutines /\ TypeOK /\ item[c] \in Tasks
  BY DEF Coroutines, TypeInv, LocalsOK
<1>1. CASE c \in Workers /\ op[c] = "mark_running"
  <2>1. Goto(c, "running") /\ Local(c, item[c], Absent, "none")
    BY <1>1 DEF Return
  <2>2. /\ item' \in [Coroutines -> Tasks \cup {NoOne}]
        /\ copy' \in [Coroutines -> StoredTask]
        /\ op' \in [Coroutines -> StatusOps \cup {"none"}]
        /\ item'[c] = item[c]
        /\ \A d \in Coroutines \ {c} : item'[d] = item[d] /\ copy'[d] = copy[d] /\ op'[d] = op[d]
    BY <1>0, <2>1, AbsentRecord, LocalType
  <2>3. PlacesOK(pc') /\ pc'[c] = "running" /\ \A d \in Coroutines \ {c} : pc'[d] = pc[d]
    BY <1>0, <1>1, <2>1, GotoType DEF WorkerPC
  <2> QED BY <1>0, <1>1, <2>2, <2>3
<1>2. CASE ~(c \in Workers /\ op[c] = "mark_running")
  <2>1. Goto(c, "idle") /\ NoLocal(c)
    BY <1>2 DEF Return
  <2>2. /\ item' \in [Coroutines -> Tasks \cup {NoOne}]
        /\ copy' \in [Coroutines -> StoredTask]
        /\ op' \in [Coroutines -> StatusOps \cup {"none"}]
        /\ \A d \in Coroutines \ {c} : item'[d] = item[d] /\ copy'[d] = copy[d] /\ op'[d] = op[d]
    BY <1>0, <2>1, AbsentRecord, LocalType DEF NoLocal
  <2>3. PlacesOK(pc') /\ pc'[c] = "idle" /\ \A d \in Coroutines \ {c} : pc'[d] = pc[d]
    BY <1>0, <2>1, GotoType DEF WorkerPC, ClientPC
  <2> QED BY <2>2, <2>3
<1> QED BY <1>1, <1>2

LEMMA ReportType ==
  ASSUME TypeInv, NEW c \in Workers \cup Clients, NEW method \in StatusOps, NEW t \in Tasks,
         UpdateGet(c, method, t), calls' \in Nat
  PROVE  TypeInv'
<1> USE ConstantsAssumption
<1>0. c \in Coroutines /\ c # Sweeper /\ TypeOK /\ store[t] \in StoredTask
  BY DEF Coroutines, TypeInv, TypeOK
<1>1. /\ item' \in [Coroutines -> Tasks \cup {NoOne}]
      /\ copy' \in [Coroutines -> StoredTask]
      /\ op' \in [Coroutines -> StatusOps \cup {"none"}]
      /\ item'[c] = t /\ op'[c] = method
      /\ \A d \in Coroutines \ {c} : item'[d] = item[d] /\ copy'[d] = copy[d] /\ op'[d] = op[d]
  BY <1>0, LocalType DEF UpdateGet
<1>2. PlacesOK(pc') /\ pc'[c] = "save" /\ \A d \in Coroutines \ {c} : pc'[d] = pc[d]
  BY <1>0, GotoType DEF UpdateGet, WorkerPC, ClientPC, StatusPC
<1>3. TypeOK'
  BY <1>0, <1>1, <1>2 DEF TypeOK, UpdateGet, PlacesOK, sweep
<1>4. LocalsOK'
  BY <1>0, <1>1, <1>2 DEF TypeInv, LocalsOK, Coroutines, StatusPC, StatusOps, Holding
<1> QED BY <1>3, <1>4 DEF TypeInv

LEMMA UpdateType ==
  ASSUME TypeInv, NEW c \in Workers \cup Clients, UpdateRest(c)
  PROVE  TypeInv'
<1> USE ConstantsAssumption
<1>0. c \in Coroutines /\ c # Sweeper /\ TypeOK
  BY DEF Coroutines, TypeInv
<1>r. ASSUME pc[c] \in StatusPC, Return(c), store' \in [Tasks -> StoredTask],
             events' \in [Tasks -> Seq(EventTypes)],
             UNCHANGED <<active, heap, lock, args, due, sweep, calls, stops>>
      PROVE  TypeInv'
  <2>1. /\ item' \in [Coroutines -> Tasks \cup {NoOne}]
        /\ copy' \in [Coroutines -> StoredTask]
        /\ op' \in [Coroutines -> StatusOps \cup {"none"}]
        /\ \A d \in Coroutines \ {c} : item'[d] = item[d] /\ copy'[d] = copy[d] /\ op'[d] = op[d]
        /\ PlacesOK(pc')
        /\ \A d \in Coroutines \ {c} : pc'[d] = pc[d]
        /\ pc'[c] = "idle" \/ (c \in Workers /\ pc'[c] = "running" /\ item'[c] \in Tasks)
    BY <1>r, ReturnType
  <2>2. TypeOK'
    BY <1>0, <1>r, <2>1 DEF TypeOK, PlacesOK, sweep
  <2>3. LocalsOK'
    BY <1>0, <2>1 DEF TypeInv, LocalsOK, Coroutines, StatusPC, Holding
  <2> QED BY <2>2, <2>3 DEF TypeInv
<1>1. CASE UpdateSave(c)
  <2> DEFINE updated == WithStatus(copy[c], NewStatus[op[c]])
  <2>1. pc[c] = "save" /\ op[c] \in StatusOps /\ item[c] \in Tasks /\ copy[c] \in StoredTask
    BY <1>0, <1>1 DEF TypeInv, TypeOK, LocalsOK, UpdateSave, At, StatusPC
  <2>2. NewStatus[op[c]] \in TaskStatus /\ (op[c] = "mark_failed" => NewStatus[op[c]] = "failed")
    BY <2>1 DEF NewStatus, StatusOps, TaskStatus
  <2>3. updated \in StoredTask /\ (op[c] = "mark_failed" => updated.status = "failed")
    BY <2>1, <2>2, StatusRecord
  <2>4. store' = [store EXCEPT ![item[c]] = updated]
    BY <1>1 DEF UpdateSave
  <2> HIDE DEF updated
  <2>5. store' \in [Tasks -> StoredTask]
    BY <1>0, <2>3, <2>4 DEF TypeOK
  <2>6. CASE op[c] = "mark_running" /\ Return(c)
    BY <1>0, <1>1, <1>r, <2>1, <2>5, <2>6 DEF UpdateSave, StatusPC, TypeOK
  <2>7. CASE op[c] = "mark_failed" /\ Goto(c, "save2") /\ Local(c, item[c], updated, op[c])
    <3>1. /\ item' \in [Coroutines -> Tasks \cup {NoOne}]
          /\ copy' \in [Coroutines -> StoredTask]
          /\ op' \in [Coroutines -> StatusOps \cup {"none"}]
          /\ item'[c] = item[c] /\ copy'[c] = updated /\ op'[c] = op[c]
          /\ \A d \in Coroutines \ {c} : item'[d] = item[d] /\ copy'[d] = copy[d] /\ op'[d] = op[d]
      BY <1>0, <2>1, <2>3, <2>7, LocalType
    <3>2. PlacesOK(pc') /\ pc'[c] = "save2" /\ \A d \in Coroutines \ {c} : pc'[d] = pc[d]
      BY <1>0, <2>7, GotoType DEF WorkerPC, ClientPC, StatusPC
    <3>3. TypeOK'
      BY <1>0, <1>1, <2>5, <3>1, <3>2 DEF TypeOK, UpdateSave, PlacesOK, sweep
    <3>4. LocalsOK'
      BY <1>0, <2>1, <2>3, <2>7, <3>1, <3>2 DEF TypeInv, LocalsOK, Coroutines, StatusPC, Holding
    <3> QED BY <3>3, <3>4 DEF TypeInv
  <2>8. CASE op[c] \in {"mark_succeeded", "cancel"} /\ Goto(c, "notify") /\ UNCHANGED locals
    <3>1. PlacesOK(pc') /\ pc'[c] = "notify" /\ \A d \in Coroutines \ {c} : pc'[d] = pc[d]
      BY <1>0, <2>8, GotoType DEF WorkerPC, ClientPC, StatusPC
    <3>2. TypeOK'
      BY <1>0, <1>1, <2>5, <2>8, <3>1 DEF TypeOK, UpdateSave, PlacesOK, sweep, locals
    <3>3. LocalsOK'
      BY <1>0, <2>1, <2>8, <3>1 DEF TypeInv, LocalsOK, Coroutines, StatusPC, Holding, locals
    <3> QED BY <3>2, <3>3 DEF TypeInv
  <2> QED BY <1>1, <2>6, <2>7, <2>8 DEF UpdateSave, updated
<1>2. CASE FailSave(c)
  <2>1. pc[c] = "save2" /\ op[c] = "mark_failed" /\ item[c] \in Tasks
    BY <1>2 DEF TypeInv, LocalsOK, FailSave, At, StatusPC
  <2>2. WithError(copy[c]) \in StoredTask
    BY <1>0, ErrorRecord DEF TypeOK
  <2>3. store' \in [Tasks -> StoredTask]
    BY <1>0, <1>2, <2>2 DEF TypeOK, FailSave
  <2>4. PlacesOK(pc') /\ pc'[c] = "notify" /\ \A d \in Coroutines \ {c} : pc'[d] = pc[d]
    BY <1>0, <1>2, GotoType DEF FailSave, WorkerPC, ClientPC, StatusPC
  <2>5. TypeOK'
    BY <1>0, <1>2, <2>3, <2>4 DEF TypeOK, FailSave, PlacesOK, locals, sweep
  <2>6. LocalsOK'
    BY <1>0, <1>2, <2>1, <2>4
    DEF TypeInv, LocalsOK, FailSave, Coroutines, StatusPC, Holding, locals
  <2> QED BY <2>5, <2>6 DEF TypeInv
<1>3. CASE UpdatePublish(c)
  <2>1. pc[c] = "notify" /\ op[c] \in StatusOps \ {"mark_running"} /\ item[c] \in Tasks
    BY <1>0, <1>3 DEF TypeInv, TypeOK, LocalsOK, UpdatePublish, At, StatusPC
  <2>2. UpdateEvent[op[c]] \in EventTypes
    BY <2>1 DEF UpdateEvent, StatusOps, EventTypes
  <2>3. events' \in [Tasks -> Seq(EventTypes)]
    BY <1>0, <1>3, <2>1, <2>2, PublishType DEF UpdatePublish
  <2> QED BY <1>0, <1>3, <1>r, <2>1, <2>3 DEF UpdatePublish, StatusPC, TypeOK
<1> QED
  BY <1>1, <1>2, <1>3 DEF UpdateRest

(* What an exception or a cancellation leaves of the coroutine.            *)
LEMMA UnwindType ==
  ASSUME TypeInv, NEW c \in Coroutines, NEW rest, Unwind(c, rest),
         \/ c \in Tasks /\ rest \in SubmitPC
         \/ c \in Workers \cup Clients /\ rest = "idle"
         \/ c = Sweeper /\ rest \in {"off", "sleep"},
         UNCHANGED <<active, heap, store, args, due, events, calls>>, stops' \in Nat
  PROVE  TypeInv'
<1> USE ConstantsAssumption
<1>0. TypeOK
  BY DEF TypeInv
<1>1. /\ item' \in [Coroutines -> Tasks \cup {NoOne}]
      /\ copy' \in [Coroutines -> StoredTask]
      /\ op' \in [Coroutines -> StatusOps \cup {"none"}]
      /\ \A d \in Coroutines \ {c} : item'[d] = item[d] /\ copy'[d] = copy[d] /\ op'[d] = op[d]
  BY <1>0, AbsentRecord, LocalType DEF Unwind, NoLocal
<1>2. PlacesOK(pc') /\ pc'[c] = rest /\ \A d \in Coroutines \ {c} : pc'[d] = pc[d]
  BY <1>0, GotoType DEF Unwind, WorkerPC, ClientPC, SweepPC
<1>3. lock' \in Coroutines \cup {NoOne} /\ now' \subseteq Tasks /\ todo' \subseteq Tasks /\ kept' \subseteq Tasks
  BY <1>0 DEF TypeOK, Unwind, NoSweep, sweep
<1>4. TypeOK'
  BY <1>0, <1>1, <1>2, <1>3 DEF TypeOK, PlacesOK
<1>5. LocalsOK'
  BY <1>1, <1>2 DEF TypeInv, LocalsOK, Coroutines, StatusPC, Holding
<1> QED BY <1>4, <1>5 DEF TypeInv

LEMMA SweepType ==
  ASSUME TypeInv, Start \/ Stop \/ SweepAcquire \/ SweepRest
  PROVE  TypeInv'
<1> USE ConstantsAssumption
<1>0. Sweeper \in Coroutines /\ TypeOK
  BY DEF Coroutines, TypeInv
<1>m. ASSUME NEW place \in SweepPC \ {"expire"}, Goto(Sweeper, place), heap' \subseteq Tasks,
             lock' \in Coroutines \cup {NoOne}, store' \in [Tasks -> StoredTask],
             now' \subseteq Tasks, todo' \subseteq Tasks, kept' \subseteq Tasks,
             UNCHANGED <<active, args, due, events, calls, stops>>,
             UNCHANGED locals \/ NoLocal(Sweeper)
      PROVE  TypeInv'
  <2>1. /\ item' \in [Coroutines -> Tasks \cup {NoOne}]
        /\ copy' \in [Coroutines -> StoredTask]
        /\ op' \in [Coroutines -> StatusOps \cup {"none"}]
        /\ \A d \in Coroutines \ {Sweeper} : item'[d] = item[d] /\ copy'[d] = copy[d] /\ op'[d] = op[d]
    BY <1>0, <1>m, AbsentRecord, LocalType DEF NoLocal, TypeOK, locals
  <2>2. PlacesOK(pc') /\ pc'[Sweeper] = place
        /\ \A d \in Coroutines \ {Sweeper} : pc'[d] = pc[d]
    BY <1>0, <1>m, GotoType
  <2>3. TypeOK'
    BY <1>0, <1>m, <2>1, <2>2 DEF TypeOK, PlacesOK
  <2>4. LocalsOK'
    BY <1>0, <1>m, <2>1, <2>2 DEF TypeInv, LocalsOK, Coroutines, SweepPC
  <2> QED BY <2>3, <2>4 DEF TypeInv
<1>1. CASE Start
  BY <1>0, <1>1, <1>m DEF Start, SweepPC, TypeOK, sweep
<1>2. CASE Stop
  BY <1>0, <1>2, UnwindType DEF Stop, TypeOK
<1>3. CASE SweepAcquire
  BY <1>0, <1>3, <1>m DEF SweepAcquire, SweepPC, TypeOK
<1>4. CASE SweepStart
  BY <1>0, <1>4, <1>m DEF SweepStart, SweepPC, TypeOK
<1>5. CASE SweepGet
  <2>1. PICK t \in todo :
          /\ todo' = todo \ {t}
          /\ IF t \in now /\ store[t].status # "absent"
             THEN Local(Sweeper, t, store[t], "none") /\ Goto(Sweeper, "expire") /\ UNCHANGED kept
             ELSE kept' = kept \cup {t} /\ UNCHANGED <<locals, pc>>
    BY <1>5 DEF SweepGet
  <2>2. t \in Tasks /\ store[t] \in StoredTask
    BY <1>0, <2>1 DEF TypeOK
  <2>3. CASE t \in now /\ store[t].status # "absent"
    <3>1. /\ item' \in [Coroutines -> Tasks \cup {NoOne}]
          /\ copy' \in [Coroutines -> StoredTask]
          /\ op' \in [Coroutines -> StatusOps \cup {"none"}]
          /\ item'[Sweeper] = t
          /\ \A d \in Coroutines \ {Sweeper} : item'[d] = item[d] /\ copy'[d] = copy[d] /\ op'[d] = op[d]
      BY <1>0, <2>1, <2>2, <2>3, LocalType
    <3>2. PlacesOK(pc') /\ pc'[Sweeper] = "expire"
          /\ \A d \in Coroutines \ {Sweeper} : pc'[d] = pc[d]
      BY <1>0, <2>1, <2>3, GotoType DEF SweepPC
    <3>3. TypeOK'
      BY <1>0, <1>5, <2>1, <2>3, <3>1, <3>2 DEF TypeOK, PlacesOK, SweepGet
    <3>4. LocalsOK'
      BY <1>0, <2>2, <3>1, <3>2 DEF TypeInv, LocalsOK, Coroutines
    <3> QED BY <3>3, <3>4 DEF TypeInv
  <2>4. CASE ~(t \in now /\ store[t].status # "absent")
    <3>1. TypeOK'
      BY <1>0, <1>5, <2>1, <2>2, <2>4 DEF TypeOK, SweepGet, locals
    <3>2. LocalsOK'
      BY <2>1, <2>4 DEF TypeInv, LocalsOK, locals
    <3> QED BY <3>1, <3>2 DEF TypeInv
  <2> QED BY <2>3, <2>4
<1>6. CASE SweepExpire
  <2>1. WithStatus(copy[Sweeper], "timeout") \in StoredTask
    BY <1>0, StatusRecord DEF TypeOK, TaskStatus
  <2>2. store' \in [Tasks -> StoredTask]
    BY <1>0, <1>6, <2>1 DEF TypeOK, SweepExpire
  <2> QED BY <1>0, <1>6, <1>m, <2>2 DEF SweepExpire, SweepPC, TypeOK, sweep
<1>7. CASE SweepFinish
  BY <1>0, <1>7, <1>m DEF SweepFinish, SweepPC, TypeOK, NoSweep
<1> QED
  BY <1>1, <1>2, <1>3, <1>4, <1>5, <1>6, <1>7 DEF SweepRest

LEMMA NextType == TypeInv /\ [Next]_vars => TypeInv'
<1> USE ConstantsAssumption
<1> SUFFICES ASSUME TypeInv, [Next]_vars PROVE TypeInv'
  OBVIOUS
<1>1. ASSUME NEW t \in Tasks, Submit(t) PROVE TypeInv'
  BY <1>1, SubmitType
<1>2. ASSUME NEW t \in Tasks, DeadlinePasses(t) PROVE TypeInv'
  BY <1>2 DEF DeadlinePasses, TypeInv, TypeOK, LocalsOK, locals, sweep
<1>3. ASSUME NEW w \in Workers, Worker(w) PROVE TypeInv'
  <2>1. CASE WorkerReports(w)
    <3>1. item[w] \in Tasks
      BY <2>1 DEF WorkerReports, TypeInv, LocalsOK, Holding
    <3>2. \E method \in StatusOps : UpdateGet(w, method, item[w])
      BY <2>1 DEF WorkerReports, StatusOps
    <3> QED BY <2>1, <3>1, <3>2, ReportType DEF WorkerReports, TypeInv, TypeOK
  <2> QED BY <1>3, <2>1, ClaimType, UpdateType DEF Worker
<1>4. ASSUME NEW c \in Clients, Client(c) PROVE TypeInv'
  <2>1. CASE ClientCalls(c)
    <3>1. \E method \in StatusOps, t \in Tasks : UpdateGet(c, method, t)
      BY <2>1 DEF ClientCalls
    <3> QED BY <2>1, <3>1, ReportType DEF ClientCalls, TypeInv, TypeOK
  <2> QED BY <1>4, <2>1, UpdateType DEF Client
<1>5. CASE Start \/ Stop \/ SweepAcquire \/ SweepRest
  BY <1>5, SweepType
<1>6. ASSUME NEW a \in Agents, AgentChanges(a) PROVE TypeInv'
  BY <1>6 DEF AgentChanges, TypeInv, TypeOK, LocalsOK, locals, sweep
<1>7. ASSUME NEW c \in Coroutines, Abort(c) PROVE TypeInv'
  <2> DEFINE rest == IF c \in Tasks THEN "failed" ELSE IF c = Sweeper THEN "sleep" ELSE "idle"
  <2>1. Unwind(c, rest) /\ UNCHANGED <<active, heap, store, args, due, events, calls, stops>>
    BY <1>7 DEF Abort
  <2>2. \/ c \in Tasks /\ rest \in SubmitPC
        \/ c \in Workers \cup Clients /\ rest = "idle"
        \/ c = Sweeper /\ rest \in {"off", "sleep"}
    BY DEF Coroutines, SubmitPC
  <2> HIDE DEF rest
  <2> QED BY <1>7, <2>1, <2>2, UnwindType DEF TypeInv, TypeOK
<1>8. CASE UNCHANGED vars
  BY <1>8 DEF vars, TypeInv, TypeOK, LocalsOK, locals, sweep
<1> QED
  BY <1>1, <1>2, <1>3, <1>4, <1>5, <1>6, <1>7, <1>8 DEF Next

(* Every variable keeps its type, whatever the interleaving, and a         *)
(* coroutine inside a method knows which task it is at.                    *)
THEOREM TypeCorrect == Spec => []TypeOK
<1>1. TypeInv => TypeOK
  BY DEF TypeInv
<1> QED BY <1>1, InitType, NextType, PTL DEF Spec

-----------------------------------------------------------------------------
(* The lock says who is inside a locked block, and nobody else is.         *)
LockInv == \A c \in Coroutines : pc[c] \in Locked <=> lock = c

(* The places where a claim has a task in hand that it has not announced.  *)
HandPC == {"get", "got", "publish"}

(* A task enters the heap at the end of its submit, and one in hand is not *)
(* in the heap any more.                                                   *)
PlaceInv ==
  /\ \A t \in heap : pc[t] = "queued"
  /\ \A w \in Workers : pc[w] \in HandPC => item[w] \notin heap /\ pc[item[w]] = "queued"

(* There is room for the submit that passed the check.                     *)
RoomInv ==
  \A t \in Tasks : pc[t] \in {"saving", "pushing"} => Cardinality(heap) < MaxQueueSize

SweepPlaces == {"scan", "expire"}

(* A sweep works on what is in the heap and misses no QUEUED task of it.   *)
SweepInv ==
  /\ pc[Sweeper] \notin SweepPlaces => kept = {}
  /\ pc[Sweeper] \in SweepPlaces =>
       /\ todo \cup kept \subseteq heap
       /\ \A t \in heap : store[t].status = "queued" =>
            t \in todo \cup kept \/ (pc[Sweeper] = "expire" /\ t = item[Sweeper])
  /\ pc[Sweeper] = "expire" => item[Sweeper] \in heap

(* What the log says of a task follows from where the task is.             *)
LogInv ==
  /\ \A t \in Tasks : pc[t] = "queued" => Logged(t, "task.created")
  /\ \A t \in Tasks : t \in heap \/ pc[t] # "queued" => ~Logged(t, "task.assigned")
  /\ \A w \in Workers : pc[w] \in HandPC => ~Logged(item[w], "task.assigned")

(* A claim skips a popped task only if that is no longer QUEUED.           *)
SkipInv ==
  \A w \in Workers :
    pc[w] = "got" /\ copy[w].status # "queued" => store[item[w]].status # "queued"

IInv ==
  /\ TypeInv
  /\ LockInv
  /\ PlaceInv
  /\ RoomInv
  /\ CapacityRespected
  /\ SweepInv
  /\ LogInv
  /\ AssignedOnceAfterCreated
  /\ SkipInv
  /\ QueueComplete

-----------------------------------------------------------------------------
(* The log.                                                                *)

(* Publishing adds one event to the log of one task and nothing else.      *)
LEMMA PublishLogged ==
  ASSUME TypeOK, NEW t \in Tasks, NEW type \in EventTypes, Publish(t, type),
         NEW u \in Tasks, NEW x
  PROVE  Logged(u, x)' <=> Logged(u, x) \/ (u = t /\ x = type)
<1>1. events[t] \in Seq(EventTypes) /\ events'[t] = Append(events[t], type)
      /\ (u # t => events'[u] = events[u])
  BY DEF TypeOK, Publish
<1>2. CASE u = t
  <2>1. Len(events[t]) \in Nat /\ DOMAIN events[t] = 1 .. Len(events[t])
    BY <1>1
  <2>2. DOMAIN events'[t] = 1 .. Len(events[t]) + 1 /\ events'[t][Len(events[t]) + 1] = type
    BY <1>1, <2>1
  <2>3. \A i \in 1 .. Len(events[t]) : events'[t][i] = events[t][i]
    BY <1>1, <2>1
  <2>4. \A i \in DOMAIN events'[t] : i \in DOMAIN events[t] \/ i = Len(events[t]) + 1
    BY <2>1, <2>2
  <2>5. \A i \in DOMAIN events[t] : i \in DOMAIN events'[t]
    BY <2>1, <2>2
  <2>6. Len(events[t]) + 1 \in DOMAIN events'[t]
    BY <2>1, <2>2
  <2> QED BY <1>2, <2>1, <2>2, <2>3, <2>4, <2>5, <2>6 DEF Logged
<1>3. CASE u # t
  BY <1>1, <1>3 DEF Logged
<1> QED BY <1>2, <1>3

(* A log with at most one assignment, after the creation, stays so when    *)
(* anything else is appended, and when the first assignment is.            *)
LEMMA PublishOnce ==
  ASSUME TypeOK, AssignedOnceAfterCreated, NEW t \in Tasks, NEW type \in EventTypes,
         Publish(t, type),
         type = "task.assigned" =>
           Logged(t, "task.created") /\ ~Logged(t, "task.assigned")
  PROVE  AssignedOnceAfterCreated'
<1> SUFFICES ASSUME NEW u \in Tasks, NEW i \in DOMAIN events'[u], events'[u][i] = "task.assigned"
             PROVE  /\ \E j \in 1 .. i - 1 : events'[u][j] = "task.created"
                    /\ \A j \in DOMAIN events'[u] : events'[u][j] = "task.assigned" => j = i
  BY DEF AssignedOnceAfterCreated
<1>1. events[t] \in Seq(EventTypes) /\ events'[t] = Append(events[t], type)
      /\ (u # t => events'[u] = events[u])
  BY DEF TypeOK, Publish
<1>2. CASE u # t
  BY <1>1, <1>2 DEF AssignedOnceAfterCreated
<1>3. CASE u = t
  <2> DEFINE n == Len(events[t])
  <2>1. n \in Nat /\ DOMAIN events[t] = 1 .. n
    BY <1>1
  <2>2. DOMAIN events'[t] = 1 .. n + 1 /\ events'[t][n + 1] = type
    BY <1>1, <2>1
  <2>3. \A j \in 1 .. n : events'[t][j] = events[t][j]
    BY <1>1, <2>1
  <2> HIDE DEF n
  <2>4. CASE type = "task.assigned"
    <3>1. \A j \in 1 .. n : events[t][j] # "task.assigned"
      BY <2>1, <2>4 DEF Logged
    <3>2. i = n + 1
      BY <1>3, <2>1, <2>2, <2>3, <3>1
    <3>3. PICK k \in 1 .. n : events[t][k] = "task.created"
      BY <2>1, <2>4 DEF Logged
    <3>4. k \in 1 .. i - 1 /\ events'[t][k] = "task.created"
      BY <2>1, <2>3, <3>2, <3>3
    <3>5. ASSUME NEW j \in 1 .. n + 1, events'[t][j] = "task.assigned" PROVE j = n + 1
      <4>1. j \in 1 .. n \/ j = n + 1
        BY <2>1
      <4> QED BY <2>3, <3>1, <3>5, <4>1
    <3> QED BY <1>3, <2>2, <3>2, <3>4, <3>5
  <2>5. CASE type # "task.assigned"
    <3>1. i \in 1 .. n /\ events[t][i] = "task.assigned"
      BY <1>3, <2>1, <2>2, <2>3, <2>5
    <3>2. PICK k \in 1 .. i - 1 : events[t][k] = "task.created"
      BY <2>1, <3>1 DEF AssignedOnceAfterCreated
    <3>3. k \in 1 .. i - 1 /\ events'[t][k] = "task.created"
      BY <2>1, <2>3, <3>1, <3>2
    <3>4. \A j \in 1 .. n : events[t][j] = "task.assigned" => j = i
      BY <2>1, <3>1 DEF AssignedOnceAfterCreated
    <3> QED BY <1>3, <2>1, <2>2, <2>3, <2>5, <3>3, <3>4
  <2> QED BY <2>4, <2>5
<1> QED BY <1>2, <1>3

-----------------------------------------------------------------------------
(* Steps outside the lock.  They leave the heap and the sweep alone, make  *)
(* no task QUEUED and announce neither a creation nor an assignment.       *)

Aside ==
  /\ UNCHANGED <<heap, lock, kept>>
  /\ lock = Sweeper => UNCHANGED todo
  /\ \E c \in Coroutines :
       /\ pc[c] \notin Locked /\ pc'[c] \notin Locked
       /\ \A d \in Coroutines \ {c} : pc'[d] = pc[d] /\ item'[d] = item[d] /\ copy'[d] = copy[d]
  /\ \A t \in Tasks : pc'[t] = "queued" <=> pc[t] = "queued"
  /\ \A t \in Tasks : store'[t].status = "queued" => store[t].status = "queued"
  /\ \A t \in Tasks, type \in {"task.created", "task.assigned"} :
       Logged(t, type)' <=> Logged(t, type)
  /\ AssignedOnceAfterCreated'

LEMMA AsideKeeps ==
  ASSUME IInv, TypeInv', Aside
  PROVE  IInv'
<1> USE ConstantsAssumption
<1>1. PICK c \in Coroutines :
        /\ pc[c] \notin Locked /\ pc'[c] \notin Locked
        /\ \A d \in Coroutines \ {c} : pc'[d] = pc[d] /\ item'[d] = item[d] /\ copy'[d] = copy[d]
  BY DEF Aside
<1>2. heap' = heap /\ lock' = lock /\ kept' = kept /\ heap \subseteq Tasks
  BY DEF Aside, IInv, TypeInv, TypeOK
<1>3. LockInv'
  BY <1>1, <1>2 DEF IInv, LockInv
<1>4. \A d \in Coroutines : pc'[d] \in Locked =>
        pc'[d] = pc[d] /\ item'[d] = item[d] /\ copy'[d] = copy[d]
  BY <1>1
<1>5. \A w \in Workers : pc'[w] \in HandPC =>
        pc[w] \in HandPC /\ pc'[w] = pc[w] /\ item'[w] = item[w] /\ copy'[w] = copy[w]
        /\ item[w] \in Tasks
  BY <1>4 DEF HandPC, Locked, Coroutines, IInv, TypeInv, LocalsOK, Holding
<1>6. PlaceInv'
  BY <1>2, <1>5 DEF Aside, IInv, PlaceInv
<1>7. RoomInv'
  BY <1>2, <1>4 DEF IInv, RoomInv, Locked, Coroutines
<1>8. CapacityRespected'
  BY <1>2 DEF IInv, CapacityRespected
<1>9. SweepInv'
  <2>1. CASE pc'[Sweeper] \in SweepPlaces
    <3>1. pc'[Sweeper] = pc[Sweeper] /\ item'[Sweeper] = item[Sweeper] /\ pc[Sweeper] \in Locked
      BY <1>4, <2>1 DEF SweepPlaces, Locked, Coroutines
    <3>2. todo' = todo
      BY <3>1 DEF Aside, IInv, LockInv, Coroutines
    <3> QED BY <1>2, <2>1, <3>1, <3>2 DEF Aside, IInv, SweepInv, SweepPlaces
  <2>2. CASE pc'[Sweeper] \notin SweepPlaces
    <3>1. pc[Sweeper] \notin SweepPlaces
      BY <1>1, <2>2 DEF SweepPlaces, Locked, Coroutines
    <3> QED BY <1>2, <2>2, <3>1 DEF IInv, SweepInv, SweepPlaces
  <2> QED BY <2>1, <2>2
<1>10. LogInv'
  BY <1>2, <1>5 DEF Aside, IInv, LogInv
<1>11. SkipInv'
  BY <1>5 DEF Aside, IInv, SkipInv, HandPC
<1>12. QueueComplete'
  <2> SUFFICES ASSUME ~Faults, NEW t \in Tasks, store'[t].status = "queued"
               PROVE  t \in heap' \/ pc'[t] = "pushing" \/ t \in InHand'
    BY DEF QueueComplete
  <2>1. t \in heap \/ pc[t] = "pushing" \/ t \in InHand
    BY DEF Aside, IInv, QueueComplete
  <2>2. CASE pc[t] = "pushing"
    BY <1>1, <2>2 DEF Locked, Coroutines
  <2>3. CASE t \in InHand
    <3>1. PICK w \in Workers : pc[w] \in {"get", "got"} /\ item[w] = t
      BY <2>3 DEF InHand
    <3>2. pc'[w] = pc[w] /\ item'[w] = item[w]
      BY <1>1, <3>1 DEF Locked, Coroutines
    <3> QED BY <3>1, <3>2 DEF InHand
  <2> QED BY <1>2, <2>1, <2>2, <2>3
<1> QED
  BY <1>3, <1>6, <1>7, <1>8, <1>9, <1>10, <1>11, <1>12 DEF Aside, IInv

(* A log that stays as it is says what it said.                            *)
LEMMA SameLog ==
  ASSUME AssignedOnceAfterCreated, UNCHANGED events
  PROVE  /\ \A t \in Tasks, type \in EventTypes : Logged(t, type)' <=> Logged(t, type)
         /\ AssignedOnceAfterCreated'
BY DEF AssignedOnceAfterCreated, Logged

LEMMA SubmitAside ==
  ASSUME IInv, NEW t \in Tasks, SubmitCheck(t) \/ SubmitReject(t)
  PROVE  Aside
<1> USE ConstantsAssumption
<1>1. UNCHANGED <<heap, lock, kept, todo, store, events, item, copy>>
  BY DEF SubmitCheck, SubmitReject, sweep, locals
<1>2. pc[t] \in {"new", "checked"} /\ pc'[t] \in {"checked", "rejected"}
      /\ \A d \in Coroutines \ {t} : pc'[d] = pc[d]
  BY DEF SubmitCheck, SubmitReject, At, Goto, IInv, TypeInv, TypeOK, Coroutines
<1>3. /\ \A u \in Tasks, type \in {"task.created", "task.assigned"} :
           Logged(u, type)' <=> Logged(u, type)
      /\ AssignedOnceAfterCreated'
  BY <1>1, SameLog DEF IInv, EventTypes
<1>4. t \in Coroutines /\ \A u \in Tasks : pc'[u] = "queued" <=> pc[u] = "queued"
  BY <1>2 DEF Coroutines
<1> QED
  BY <1>1, <1>2, <1>3, <1>4 DEF Aside, Locked

LEMMA UpdateAside ==
  ASSUME IInv, NEW c \in Workers \cup Clients,
         \/ pc[c] \in {"idle", "claimed", "running"}
            /\ \E method \in StatusOps, t \in Tasks : UpdateGet(c, method, t)
         \/ UpdateRest(c)
  PROVE  Aside
<1> USE ConstantsAssumption
<1>0. c \in Coroutines /\ c \notin Tasks /\ c # Sweeper /\ TypeInv /\ TypeOK
  BY DEF Coroutines, IInv, TypeInv
<1>1. UNCHANGED <<heap, lock, kept, todo>>
  BY DEF UpdateGet, UpdateRest, UpdateSave, FailSave, UpdatePublish, sweep
<1>2. /\ pc[c] \notin Locked /\ pc'[c] \notin Locked
      /\ \A d \in Coroutines \ {c} : pc'[d] = pc[d] /\ item'[d] = item[d] /\ copy'[d] = copy[d]
  <2>1. CASE pc[c] \in {"idle", "claimed", "running"}
             /\ \E method \in StatusOps, t \in Tasks : UpdateGet(c, method, t)
    BY <1>0, <2>1 DEF UpdateGet, Goto, Local, Locked, TypeOK
  <2>2. CASE UpdateSave(c)
    BY <1>0, <2>2 DEF UpdateSave, At, Goto, Local, NoLocal, Return, locals, Locked, TypeOK
  <2>3. CASE FailSave(c)
    BY <1>0, <2>3 DEF FailSave, At, Goto, locals, Locked, TypeOK
  <2>4. CASE UpdatePublish(c)
    BY <1>0, <2>4 DEF UpdatePublish, At, Goto, Local, NoLocal, Return, Locked, TypeOK
  <2> QED BY <2>1, <2>2, <2>3, <2>4 DEF UpdateRest
<1>3. \A t \in Tasks : store'[t].status = "queued" => store[t].status = "queued"
  <2>1. CASE UNCHANGED store
    BY <2>1
  <2>2. CASE UpdateSave(c)
    <3> DEFINE updated == WithStatus(copy[c], NewStatus[op[c]])
    <3>1. op[c] \in StatusOps /\ item[c] \in Tasks /\ copy[c] \in StoredTask
      BY <1>0, <2>2 DEF TypeInv, TypeOK, LocalsOK, UpdateSave, At, StatusPC
    <3>2. NewStatus[op[c]] \in TaskStatus \ {"queued"}
      BY <3>1 DEF NewStatus, StatusOps, TaskStatus
    <3>3. updated.status # "queued"
      BY <3>1, <3>2, StatusRecord
    <3>4. store' = [store EXCEPT ![item[c]] = updated]
      BY <2>2 DEF UpdateSave
    <3> HIDE DEF updated
    <3> QED BY <1>0, <3>3, <3>4 DEF TypeOK
  <2>3. CASE FailSave(c)
    <3>1. copy[c] \in StoredTask /\ copy[c].status = "failed"
      BY <1>0, <2>3 DEF TypeInv, TypeOK, LocalsOK, FailSave, At, StatusPC
    <3>2. WithError(copy[c]).status # "queued"
      BY <3>1, ErrorRecord
    <3> QED BY <1>0, <2>3, <3>2 DEF FailSave, TypeOK
  <2> QED BY <2>1, <2>2, <2>3 DEF UpdateGet, UpdateRest, UpdatePublish
<1>4. /\ \A t \in Tasks, type \in {"task.created", "task.assigned"} :
           Logged(t, type)' <=> Logged(t, type)
      /\ AssignedOnceAfterCreated'
  <2>1. CASE UNCHANGED events
    BY <2>1, SameLog DEF IInv, EventTypes
  <2>2. CASE UpdatePublish(c)
    <3>1. op[c] \in StatusOps \ {"mark_running"} /\ item[c] \in Tasks
      BY <1>0, <2>2 DEF TypeInv, TypeOK, LocalsOK, UpdatePublish, At, StatusPC
    <3>2. UpdateEvent[op[c]] \in EventTypes \ {"task.created", "task.assigned"}
      BY <3>1 DEF UpdateEvent, StatusOps, EventTypes
    <3>3. Publish(item[c], UpdateEvent[op[c]])
      BY <2>2 DEF UpdatePublish
    <3> QED BY <1>0, <3>1, <3>2, <3>3, PublishLogged, PublishOnce DEF IInv
  <2> QED BY <2>1, <2>2 DEF UpdateGet, UpdateRest, UpdateSave, FailSave
<1>5. \A t \in Tasks : pc'[t] = pc[t]
  BY <1>0, <1>2 DEF Coroutines
<1> QED
  BY <1>0, <1>1, <1>2, <1>3, <1>4, <1>5 DEF Aside

LEMMA SweeperAside ==
  ASSUME IInv, Start \/ SweepStart
  PROVE  Aside
<1> USE ConstantsAssumption
<1>1. UNCHANGED <<heap, lock, kept, todo, store, events, item, copy>>
  BY DEF Start, SweepStart, sweep, locals
<1>2. pc[Sweeper] \in {"off", "sleep"} /\ pc' = [pc EXCEPT ![Sweeper] = pc'[Sweeper]]
      /\ pc'[Sweeper] \in {"sleep", "wait"} /\ Sweeper \in Coroutines
  BY DEF Start, SweepStart, At, Goto, IInv, TypeInv, TypeOK, Coroutines
<1> QED
  BY <1>1, <1>2, SameLog DEF Aside, IInv, TypeInv, TypeOK, Locked, EventTypes, Coroutines

-----------------------------------------------------------------------------
(* Steps inside the lock.  They take it, keep it or give it back, and      *)
(* everybody else is outside.                                              *)

Inside(c) ==
  /\ lock \in {c, NoOne}
  /\ lock' = IF pc'[c] \in Locked THEN c ELSE NoOne
  /\ \A d \in Coroutines \ {c} : pc'[d] = pc[d] /\ item'[d] = item[d] /\ copy'[d] = copy[d]

LEMMA InsideAlone ==
  ASSUME LockInv, NEW c \in Coroutines, Inside(c)
  PROVE  /\ LockInv'
         /\ \A d \in Coroutines \ {c} : pc[d] \notin Locked /\ pc'[d] \notin Locked
BY ConstantsAssumption DEF LockInv, Inside

(* submit, from the lock to the push.  An aborted submit may leave a task  *)
(* that is stored as QUEUED and in no heap.                                *)
LEMMA SubmitInside ==
  ASSUME IInv, TypeInv', NEW t \in Tasks,
         \/ SubmitAcquire(t) \/ SubmitSave(t) \/ SubmitPush(t)
         \/ Abort(t) /\ pc[t] \in Locked
  PROVE  IInv'
<1> USE ConstantsAssumption
<1>0. t \in Coroutines /\ t # Sweeper /\ t \notin Workers /\ TypeOK /\ heap \subseteq Tasks
      /\ LockInv
  BY DEF Coroutines, IInv, TypeInv, TypeOK
<1>1. /\ pc[t] \in {"checked", "saving", "pushing"}
      /\ pc'[t] \in {"saving", "pushing", "queued", "failed"}
      /\ Inside(t) /\ kept' = kept
  <2>1. CASE SubmitAcquire(t)
    BY <1>0, <2>1 DEF SubmitAcquire, At, Goto, Inside, TypeOK, Locked, sweep, locals
  <2>2. CASE SubmitSave(t)
    BY <1>0, <2>2 DEF SubmitSave, At, Goto, Inside, TypeOK, Locked, LockInv, sweep, locals
  <2>3. CASE SubmitPush(t)
    BY <1>0, <2>3 DEF SubmitPush, At, Goto, Inside, TypeOK, Locked, LockInv, sweep, locals
  <2>4. CASE Abort(t) /\ pc[t] \in Locked
    BY <1>0, <2>4
    DEF Abort, Unwind, NoLocal, Local, Goto, Inside, TypeOK, Locked, LockInv, SubmitPC, sweep
  <2> QED BY <2>1, <2>2, <2>3, <2>4
<1>2. LockInv' /\ \A d \in Coroutines \ {t} : pc[d] \notin Locked /\ pc'[d] \notin Locked
  BY <1>0, <1>1, InsideAlone
<1>3. \A d \in Coroutines \ {t} : pc'[d] = pc[d]
  BY <1>1 DEF Inside
<1>4. \A w \in Workers : pc'[w] \notin HandPC /\ pc'[w] # "got" /\ w \in Coroutines
  BY <1>0, <1>2 DEF HandPC, Locked, Coroutines
<1>5. \A u \in Tasks \ {t} : pc'[u] \notin {"saving", "pushing"} /\ pc'[u] = pc[u]
  BY <1>2, <1>3 DEF Locked, Coroutines
<1>6. t \notin heap /\ ~Logged(t, "task.assigned")
  BY <1>1 DEF IInv, PlaceInv, LogInv
<1>7. heap' = heap \/ (heap' = heap \cup {t} /\ pc'[t] = "queued")
  BY <1>0 DEF SubmitAcquire, SubmitSave, SubmitPush, Goto, Abort, TypeOK
<1>8. PlaceInv'
  BY <1>4, <1>5, <1>6, <1>7 DEF IInv, PlaceInv, TypeInv, TypeOK
<1>9. RoomInv' /\ CapacityRespected'
  <2>0. IsFiniteSet(heap) /\ Cardinality(heap) \in Nat
    BY <1>0, FiniteHeap
  <2>1. CASE SubmitAcquire(t)
    BY <1>5, <2>1 DEF SubmitAcquire, IInv, RoomInv, CapacityRespected
  <2>2. CASE SubmitSave(t)
    BY <1>5, <2>2 DEF SubmitSave, At, IInv, RoomInv, CapacityRespected
  <2>3. CASE SubmitPush(t)
    <3>1. heap' = heap \cup {t} /\ pc[t] = "pushing" /\ pc'[t] = "queued"
      BY <1>0, <2>3 DEF SubmitPush, At, Goto, TypeOK
    <3>2. Cardinality(heap') = Cardinality(heap) + 1
      BY <1>6, <2>0, <3>1, FS_AddElement
    <3>3. Cardinality(heap) < MaxQueueSize
      BY <3>1 DEF IInv, RoomInv
    <3>4. CapacityRespected'
      BY <2>0, <3>2, <3>3 DEF CapacityRespected
    <3> QED BY <1>5, <3>1, <3>4 DEF RoomInv
  <2>4. CASE Abort(t)
    <3>1. pc'[t] \notin {"saving", "pushing"} /\ heap' = heap
      BY <1>0, <2>4 DEF Abort, Unwind, Goto, TypeOK
    <3> QED BY <1>5, <3>1 DEF IInv, RoomInv, CapacityRespected
  <2> QED BY <2>1, <2>2, <2>3, <2>4
<1>10. SweepInv'
  <2>1. pc[Sweeper] \notin SweepPlaces /\ pc'[Sweeper] \notin SweepPlaces
    BY <1>0, <1>2 DEF SweepPlaces, Locked, Coroutines
  <2> QED BY <1>1, <2>1 DEF IInv, SweepInv, SweepPlaces
<1>11. /\ \A u \in Tasks, type \in {"task.created", "task.assigned"} :
            Logged(u, type)' <=>
              Logged(u, type) \/ (SubmitPush(t) /\ u = t /\ type = "task.created")
       /\ AssignedOnceAfterCreated'
  <2>1. CASE SubmitPush(t)
    <3>1. Publish(t, "task.created")
      BY <2>1 DEF SubmitPush
    <3> QED BY <1>0, <2>1, <3>1, PublishLogged, PublishOnce DEF EventTypes, IInv
  <2>2. CASE ~SubmitPush(t)
    <3>1. UNCHANGED events
      BY <2>2 DEF SubmitAcquire, SubmitSave, Abort
    <3> QED BY <2>2, <3>1, SameLog DEF EventTypes, IInv
  <2> QED BY <2>1, <2>2
<1>12. LogInv'
  <2>1. pc'[t] = "queued" => SubmitPush(t)
    BY <1>0 DEF SubmitAcquire, SubmitSave, Abort, Unwind, Goto, TypeOK
  <2> QED BY <1>4, <1>5, <1>6, <1>7, <1>11, <2>1 DEF IInv, LogInv
<1>13. SkipInv'
  BY <1>4 DEF SkipInv
<1>14. QueueComplete'
  <2> SUFFICES ASSUME ~Faults, NEW u \in Tasks, store'[u].status = "queued"
               PROVE  u \in heap' \/ pc'[u] = "pushing"
    BY DEF QueueComplete
  <2>1. InHand = {}
    BY <1>0, <1>2 DEF InHand, Locked, Coroutines
  <2>2. CASE u = t
    <3>1. CASE SubmitAcquire(t)
      BY <1>0, <1>6, <2>1, <2>2, <3>1 DEF SubmitAcquire, At, IInv, QueueComplete
    <3>2. CASE SubmitSave(t) \/ SubmitPush(t)
      BY <1>0, <2>2, <3>2 DEF SubmitSave, SubmitPush, Goto, TypeOK
    <3> QED BY <3>1, <3>2 DEF Abort
  <2>3. CASE u # t
    <3>1. store'[u] = store[u]
      BY <1>0, <2>3 DEF SubmitAcquire, SubmitSave, SubmitPush, Abort, TypeOK
    <3> QED BY <1>5, <1>7, <2>1, <2>3, <3>1 DEF IInv, QueueComplete
  <2> QED BY <2>2, <2>3
<1> QED
  BY <1>2, <1>8, <1>9, <1>10, <1>11, <1>12, <1>13, <1>14 DEF IInv

(* claim, from the lock to its release.  A task in hand goes from claim to *)
(* the log, or is dropped because it is no longer QUEUED.                  *)
LEMMA ClaimInside ==
  ASSUME IInv, TypeInv', NEW w \in Workers,
         ClaimAcquire(w) \/ ClaimRest(w) \/ (Abort(w) /\ pc[w] \in Locked)
  PROVE  IInv'
<1> USE ConstantsAssumption
<1>0. w \in Coroutines /\ w # Sweeper /\ w \notin Tasks /\ TypeOK /\ heap \subseteq Tasks
      /\ LockInv
  BY DEF Coroutines, IInv, TypeInv, TypeOK
<1>p. Pop(w) => /\ item'[w] \in heap /\ heap' = heap \ {item'[w]} /\ pc'[w] = "get"
                /\ \A d \in Coroutines \ {w} :
                     pc'[d] = pc[d] /\ item'[d] = item[d] /\ copy'[d] = copy[d]
  BY <1>0, PopType
<1>1. Inside(w) /\ kept' = kept
  <2>1. CASE ClaimAcquire(w)
    BY <1>0, <1>p, <2>1 DEF ClaimAcquire, At, Inside, Locked, sweep
  <2>2. CASE ClaimGet(w)
    BY <1>0, <2>2 DEF ClaimGet, At, Goto, Local, Inside, TypeOK, Locked, LockInv, sweep
  <2>3. CASE ClaimSkip(w)
    <3>1. lock = w /\ kept' = kept
      BY <1>0, <2>3 DEF ClaimSkip, At, Locked, LockInv, sweep
    <3>2. CASE Pop(w) /\ UNCHANGED lock
      BY <1>0, <1>p, <3>1, <3>2 DEF Inside, Locked
    <3>3. CASE lock' = NoOne /\ NoLocal(w) /\ Goto(w, "idle")
      BY <1>0, <3>1, <3>3 DEF NoLocal, Local, Goto, Inside, TypeOK, Locked
    <3> QED BY <2>3, <3>2, <3>3 DEF ClaimSkip
  <2>4. CASE ClaimSave(w)
    BY <1>0, <2>4 DEF ClaimSave, At, Goto, Inside, TypeOK, Locked, LockInv, sweep, locals
  <2>5. CASE ClaimPublish(w)
    BY <1>0, <2>5 DEF ClaimPublish, At, Goto, Inside, TypeOK, Locked, LockInv, sweep, locals
  <2>6. CASE ClaimReturn(w)
    BY <1>0, <2>6 DEF ClaimReturn, At, Goto, Inside, TypeOK, Locked, LockInv, sweep, locals
  <2>7. CASE Abort(w) /\ pc[w] \in Locked
    BY <1>0, <2>7
    DEF Abort, Unwind, NoLocal, Local, Goto, Inside, TypeOK, Locked, LockInv, sweep
  <2> QED BY <2>1, <2>2, <2>3, <2>4, <2>5, <2>6, <2>7 DEF ClaimRest
<1>2. LockInv' /\ \A d \in Coroutines \ {w} : pc[d] \notin Locked /\ pc'[d] \notin Locked
  BY <1>0, <1>1, InsideAlone
<1>3. \A t \in Tasks : pc'[t] = pc[t] /\ pc'[t] \notin {"saving", "pushing"}
  BY <1>0, <1>1, <1>2 DEF Inside, Locked, Coroutines
<1>4. \A v \in Workers \ {w} : pc[v] \notin HandPC /\ pc'[v] \notin HandPC
  BY <1>2 DEF HandPC, Locked, Coroutines
(* Either the claim pops a task, or the heap stays and the task in hand is *)
(* still the same.                                                         *)
<1>5. \/ Pop(w) /\ UNCHANGED <<store, events>>
      \/ /\ ~Pop(w)
         /\ heap' = heap
         /\ pc'[w] \in HandPC => pc[w] \in HandPC /\ item'[w] = item[w] /\ item[w] \in Tasks
  <2>1. CASE Pop(w)
    <3>1. pc'[w] = "get"
      BY <1>p, <2>1
    <3> QED BY <1>0, <2>1, <3>1
            DEF ClaimAcquire, ClaimRest, ClaimGet, ClaimSkip, ClaimSave, ClaimPublish, ClaimReturn,
                Abort, Unwind, Goto, TypeOK
  <2>2. CASE ~Pop(w)
    <3>1. CASE ClaimGet(w) \/ ClaimSave(w)
      BY <1>0, <2>2, <3>1
      DEF ClaimGet, ClaimSave, At, Local, HandPC, IInv, TypeInv, LocalsOK, Holding, TypeOK, locals
    <3>2. CASE ClaimSkip(w)
      BY <1>0, <2>2, <3>2 DEF ClaimSkip, Goto, HandPC, TypeOK
    <3>3. CASE ClaimPublish(w) \/ ClaimReturn(w) \/ Abort(w)
      BY <1>0, <2>2, <3>3 DEF ClaimPublish, ClaimReturn, Abort, Unwind, Goto, HandPC, TypeOK
    <3> QED BY <2>2, <3>1, <3>2, <3>3 DEF ClaimRest, ClaimAcquire
  <2> QED BY <2>1, <2>2
<1>6. heap' \subseteq heap
  BY <1>p, <1>5
<1>7. PlaceInv'
  <2>1. \A t \in heap' : pc'[t] = "queued"
    BY <1>0, <1>3, <1>6 DEF IInv, PlaceInv
  <2>2. pc'[w] \in HandPC => item'[w] \notin heap' /\ pc'[item'[w]] = "queued"
    BY <1>0, <1>p, <1>3, <1>5 DEF IInv, PlaceInv
  <2> QED BY <1>4, <2>1, <2>2 DEF PlaceInv
<1>8. RoomInv' /\ CapacityRespected'
  <2>1. IsFiniteSet(heap) /\ Cardinality(heap) \in Nat /\ Cardinality(heap') \in Nat
    BY <1>0, <1>6, FiniteHeap
  <2>2. Cardinality(heap') <= Cardinality(heap)
    BY <1>6, <2>1, FS_Subset
  <2> QED BY <1>3, <2>1, <2>2 DEF RoomInv, CapacityRespected, IInv
<1>9. SweepInv'
  <2>1. pc[Sweeper] \notin SweepPlaces /\ pc'[Sweeper] \notin SweepPlaces
    BY <1>0, <1>2 DEF SweepPlaces, Locked, Coroutines
  <2> QED BY <1>1, <2>1 DEF IInv, SweepInv, SweepPlaces
<1>10. LogInv' /\ AssignedOnceAfterCreated'
  <2>1. CASE ClaimPublish(w)
    <3>1. /\ pc[w] = "publish" /\ item[w] \in Tasks /\ item[w] \notin heap
          /\ pc[item[w]] = "queued" /\ heap' = heap
          /\ Publish(item[w], "task.assigned") /\ pc'[w] = "handlers"
      BY <1>0, <2>1
      DEF ClaimPublish, At, Goto, IInv, TypeInv, LocalsOK, Holding, PlaceInv, HandPC, TypeOK
    <3>2. Logged(item[w], "task.created") /\ ~Logged(item[w], "task.assigned")
      BY <3>1 DEF IInv, LogInv, HandPC
    <3>3. AssignedOnceAfterCreated'
      BY <1>0, <3>1, <3>2, PublishOnce DEF EventTypes, IInv
    <3>4. \A t \in Tasks, type \in {"task.created", "task.assigned"} :
            Logged(t, type)' <=> Logged(t, type) \/ (t = item[w] /\ type = "task.assigned")
      BY <1>0, <3>1, PublishLogged DEF EventTypes
    <3>5. \A v \in Workers : pc'[v] \notin HandPC
      BY <1>4, <3>1 DEF HandPC
    <3> QED BY <1>0, <1>3, <3>1, <3>3, <3>4, <3>5 DEF IInv, LogInv
  <2>2. CASE ~ClaimPublish(w)
    <3>1. UNCHANGED events
      BY <2>2 DEF ClaimAcquire, ClaimRest, ClaimGet, ClaimSkip, ClaimSave, ClaimReturn, Abort
    <3>2. /\ \A t \in Tasks, type \in {"task.created", "task.assigned"} :
               Logged(t, type)' <=> Logged(t, type)
          /\ AssignedOnceAfterCreated'
      BY <3>1, SameLog DEF EventTypes, IInv
    <3>3. pc'[w] \in HandPC =>
            item'[w] \in Tasks /\ (item'[w] \in heap \/ (pc[w] \in HandPC /\ item'[w] = item[w]))
      BY <1>0, <1>p, <1>5
    <3> QED BY <1>0, <1>3, <1>4, <1>6, <3>2, <3>3 DEF IInv, LogInv
  <2> QED BY <2>1, <2>2
<1>11. SkipInv'
  <2>1. ASSUME pc'[w] = "got", copy'[w].status # "queued"
        PROVE  store'[item'[w]].status # "queued"
    <3>1. ClaimGet(w)
      <4>1. ~Pop(w)
        BY <1>p, <2>1
      <4> QED BY <1>0, <2>1, <4>1
              DEF ClaimAcquire, ClaimRest, ClaimSkip, ClaimSave, ClaimPublish, ClaimReturn, Abort,
                  Unwind, Goto, TypeOK
    <3> QED BY <1>0, <2>1, <3>1 DEF ClaimGet, Local, TypeOK
  <2> QED BY <1>4, <2>1 DEF SkipInv, HandPC
<1>12. QueueComplete'
  <2> SUFFICES ASSUME ~Faults, NEW t \in Tasks, store'[t].status = "queued"
               PROVE  t \in heap' \/ t \in InHand'
    BY DEF QueueComplete
  <2>1. store[t].status = "queued" /\ (ClaimSave(w) => t # item[w])
    <3>1. CASE ClaimSave(w)
      <4>1. copy[w] \in StoredTask
        BY <1>0 DEF TypeOK
      <4>2. Assigned(copy[w], w).status = "assigned"
        BY <4>1, AssignedRecord
      <4> QED BY <1>0, <3>1, <4>2 DEF ClaimSave, TypeOK
    <3>2. CASE ~ClaimSave(w)
      BY <3>2
      DEF ClaimAcquire, ClaimRest, ClaimGet, ClaimSkip, ClaimPublish, ClaimReturn, Abort
    <3> QED BY <3>1, <3>2
  <2>2. t \in heap \/ (pc[w] \in {"get", "got"} /\ t = item[w])
    <3>1. t \in heap \/ pc[t] = "pushing" \/ t \in InHand
      BY <2>1 DEF IInv, QueueComplete
    <3>2. \A v \in Workers : pc[v] \in {"get", "got"} => v = w
      BY <1>4 DEF HandPC
    <3> QED BY <1>3, <3>1, <3>2 DEF InHand
  <2>3. CASE t \in heap
    BY <1>p, <1>5, <2>3 DEF InHand
  <2>4. CASE t \notin heap
    <3>1. pc[w] \in {"get", "got"} /\ t = item[w]
      BY <2>2, <2>4
    <3>2. ~ClaimSkip(w)
      BY <2>1, <3>1 DEF ClaimSkip, At, IInv, SkipInv
    <3>3. ClaimGet(w)
      BY <2>1, <3>1, <3>2
      DEF ClaimAcquire, ClaimRest, ClaimPublish, ClaimReturn, At, Abort
    <3>4. pc'[w] = "got" /\ item'[w] = item[w]
      BY <1>0, <3>3 DEF ClaimGet, Local, Goto, TypeOK
    <3> QED BY <3>1, <3>4 DEF InHand
  <2> QED BY <2>3, <2>4
<1> QED
  BY <1>2, <1>7, <1>8, <1>9, <1>10, <1>11, <1>12 DEF IInv

(* _sweep_deadlines, from the lock to its release, however it ends.        *)
LEMMA SweepInside ==
  ASSUME IInv, TypeInv',
         \/ SweepAcquire \/ SweepGet \/ SweepExpire \/ SweepFinish
         \/ pc[Sweeper] \in Locked /\ (Abort(Sweeper) \/ Stop)
  PROVE  IInv'
<1> USE ConstantsAssumption
<1>0. Sweeper \in Coroutines /\ Sweeper \notin Tasks /\ Sweeper \notin Workers /\ TypeOK
      /\ heap \subseteq Tasks /\ LockInv /\ SweepInv
  BY DEF Coroutines, IInv, TypeInv, TypeOK
<1>u. pc[Sweeper] \in Locked /\ (Abort(Sweeper) \/ Stop)
      => /\ UNCHANGED <<heap, store, events>> /\ kept' = {} /\ pc'[Sweeper] \in {"off", "sleep"}
         /\ Inside(Sweeper)
  BY <1>0
  DEF Abort, Stop, Unwind, NoLocal, NoSweep, Local, Goto, Inside, TypeOK, Locked, LockInv
<1>1. Inside(Sweeper) /\ UNCHANGED events
  <2>1. CASE SweepAcquire
    BY <1>0, <2>1 DEF SweepAcquire, At, Goto, Inside, TypeOK, Locked, locals
  <2>2. CASE SweepGet
    <3>1. lock = Sweeper /\ lock' = lock /\ UNCHANGED events
      BY <1>0, <2>2 DEF SweepGet, At, Locked, LockInv
    <3>2. /\ pc'[Sweeper] \in Locked
          /\ \A d \in Coroutines \ {Sweeper} :
               pc'[d] = pc[d] /\ item'[d] = item[d] /\ copy'[d] = copy[d]
      BY <1>0, <2>2 DEF SweepGet, At, Goto, Local, TypeOK, Locked, locals
    <3> QED BY <3>1, <3>2 DEF Inside
  <2>3. CASE SweepExpire
    BY <1>0, <2>3 DEF SweepExpire, At, Goto, NoLocal, Local, Inside, TypeOK, Locked, LockInv
  <2>4. CASE SweepFinish
    BY <1>0, <2>4 DEF SweepFinish, At, Goto, Inside, TypeOK, Locked, LockInv, locals
  <2> QED BY <1>u, <2>1, <2>2, <2>3, <2>4
<1>2. LockInv' /\ \A d \in Coroutines \ {Sweeper} : pc[d] \notin Locked /\ pc'[d] \notin Locked
  BY <1>0, <1>1, InsideAlone
<1>3. \A t \in Tasks : pc'[t] = pc[t] /\ pc'[t] \notin {"saving", "pushing"}
  BY <1>0, <1>1, <1>2 DEF Inside, Locked, Coroutines
<1>4. \A w \in Workers : pc[w] \notin HandPC /\ pc'[w] \notin HandPC
  BY <1>0, <1>2 DEF HandPC, Locked, Coroutines
<1>5. heap' \subseteq heap
  BY <1>0, <1>u DEF SweepAcquire, SweepGet, SweepExpire, SweepFinish, At, SweepInv, SweepPlaces
<1>6. PlaceInv'
  BY <1>0, <1>3, <1>4, <1>5 DEF IInv, PlaceInv
<1>7. RoomInv' /\ CapacityRespected'
  <2>1. IsFiniteSet(heap) /\ Cardinality(heap) \in Nat /\ Cardinality(heap') \in Nat
    BY <1>0, <1>5, FiniteHeap
  <2>2. Cardinality(heap') <= Cardinality(heap)
    BY <1>5, <2>1, FS_Subset
  <2> QED BY <1>3, <2>1, <2>2 DEF RoomInv, CapacityRespected, IInv
<1>8. \A t \in Tasks : store'[t].status = "queued" =>
        store[t].status = "queued" /\ (SweepExpire => t # item[Sweeper])
  <2>1. CASE SweepExpire
    <3>1. WithStatus(copy[Sweeper], "timeout").status = "timeout"
      BY <1>0, StatusRecord DEF TypeOK, TaskStatus
    <3> QED BY <1>0, <2>1, <3>1 DEF SweepExpire, TypeOK
  <2>2. CASE ~SweepExpire
    BY <1>u, <2>2 DEF SweepAcquire, SweepGet, SweepFinish
  <2> QED BY <2>1, <2>2
<1>9. SweepInv'
  <2>1. CASE SweepAcquire
    <3>1. kept = {} /\ kept' = kept /\ todo' = heap /\ heap' = heap /\ pc'[Sweeper] = "scan"
      BY <1>0, <2>1 DEF SweepAcquire, At, Goto, SweepInv, SweepPlaces, TypeOK
    <3> QED BY <3>1 DEF SweepInv, SweepPlaces
  <2>2. CASE SweepGet
    <3>1. heap' = heap /\ store' = store /\ pc[Sweeper] = "scan"
      BY <2>2 DEF SweepGet, At
    <3>2. PICK t \in todo :
            /\ todo' = todo \ {t}
            /\ IF t \in now /\ store[t].status # "absent"
               THEN Local(Sweeper, t, store[t], "none") /\ Goto(Sweeper, "expire")
                    /\ UNCHANGED kept
               ELSE kept' = kept \cup {t} /\ UNCHANGED <<locals, pc>>
      BY <2>2 DEF SweepGet
    <3>3. CASE pc'[Sweeper] = "expire" /\ item'[Sweeper] = t /\ kept' = kept
      BY <1>0, <3>1, <3>2, <3>3 DEF SweepInv, SweepPlaces
    <3>4. CASE pc' = pc /\ kept' = kept \cup {t}
      BY <1>0, <3>1, <3>2, <3>4 DEF SweepInv, SweepPlaces
    <3> QED BY <1>0, <3>2, <3>3, <3>4 DEF Local, Goto, TypeOK, locals
  <2>3. CASE SweepExpire
    <3>1. heap' = heap /\ todo' = todo /\ kept' = kept /\ pc[Sweeper] = "expire"
          /\ pc'[Sweeper] = "scan"
      BY <1>0, <2>3 DEF SweepExpire, At, Goto, TypeOK, sweep
    <3> QED BY <1>0, <1>8, <2>3, <3>1 DEF SweepInv, SweepPlaces
  <2>4. CASE SweepFinish
    BY <1>0, <2>4 DEF SweepFinish, NoSweep, Goto, SweepInv, SweepPlaces, TypeOK
  <2>5. CASE pc[Sweeper] \in Locked /\ (Abort(Sweeper) \/ Stop)
    BY <1>u, <2>5 DEF SweepInv, SweepPlaces
  <2> QED BY <2>1, <2>2, <2>3, <2>4, <2>5
<1>10. LogInv' /\ AssignedOnceAfterCreated'
  <2>1. /\ \A t \in Tasks, type \in {"task.created", "task.assigned"} :
             Logged(t, type)' <=> Logged(t, type)
        /\ AssignedOnceAfterCreated'
    BY <1>1, SameLog DEF EventTypes, IInv
  <2> QED BY <1>3, <1>4, <1>5, <2>1 DEF IInv, LogInv
<1>11. SkipInv'
  BY <1>4 DEF SkipInv, HandPC
<1>12. QueueComplete'
  <2> SUFFICES ASSUME ~Faults, NEW t \in Tasks, store'[t].status = "queued"
               PROVE  t \in heap'
    BY DEF QueueComplete
  <2>1. store[t].status = "queued"
    BY <1>8
  <2>2. t \in heap
    <3>1. InHand = {}
      BY <1>4 DEF InHand, HandPC
    <3> QED BY <1>3, <2>1, <3>1 DEF IInv, QueueComplete
  <2>3. CASE SweepFinish
    BY <1>0, <2>1, <2>2, <2>3 DEF SweepFinish, At, SweepInv, SweepPlaces
  <2>4. CASE ~SweepFinish
    BY <1>u, <2>2, <2>4 DEF SweepAcquire, SweepGet, SweepExpire
  <2> QED BY <2>3, <2>4
<1> QED
  BY <1>2, <1>6, <1>7, <1>9, <1>10, <1>11, <1>12 DEF IInv

(* Unwinding outside the lock.                                             *)
LEMMA UnwindAside ==
  ASSUME IInv, NEW c \in Coroutines, pc[c] \notin Locked,
         Abort(c) \/ (c = Sweeper /\ Stop)
  PROVE  Aside
<1> USE ConstantsAssumption
<1>0. TypeOK /\ LockInv /\ SweepInv /\ lock # c
  BY DEF IInv, TypeInv, LockInv
<1>1. UNCHANGED <<heap, store, events>>
  BY DEF Abort, Stop
<1>2. PICK rest \in {"failed", "sleep", "idle", "off"} : Unwind(c, rest)
  BY DEF Abort, Stop
<1>3. /\ lock' = lock /\ pc'[c] = rest
      /\ \A d \in Coroutines \ {c} : pc'[d] = pc[d] /\ item'[d] = item[d] /\ copy'[d] = copy[d]
  BY <1>0, <1>2 DEF Unwind, Goto, NoLocal, Local, TypeOK
<1>4. kept' = kept /\ (lock = Sweeper => todo' = todo)
  BY <1>0, <1>2 DEF Unwind, NoSweep, SweepInv, SweepPlaces, Locked, sweep
<1>5. \A t \in Tasks : pc'[t] = "queued" <=> pc[t] = "queued"
  BY <1>3 DEF Abort, Coroutines
<1>6. /\ \A t \in Tasks, type \in {"task.created", "task.assigned"} :
           Logged(t, type)' <=> Logged(t, type)
      /\ AssignedOnceAfterCreated'
  BY <1>1, SameLog DEF EventTypes, IInv
<1> QED
  BY <1>1, <1>3, <1>4, <1>5, <1>6 DEF Aside, Locked

-----------------------------------------------------------------------------
(* The invariant is inductive.                                             *)

LEMMA InitIInv == Init => IInv
<1> USE ConstantsAssumption
<1> SUFFICES ASSUME Init PROVE IInv
  OBVIOUS
<1>1. TypeInv
  BY InitType
<1>2. Cardinality(heap) = 0
  BY FS_EmptySet DEF Init
<1>3. LockInv /\ PlaceInv /\ SweepInv /\ SkipInv
  BY DEF Init, LockInv, Locked, PlaceInv, SweepInv, SweepPlaces, SkipInv, HandPC, Coroutines
<1>4. RoomInv /\ CapacityRespected
  BY <1>2 DEF RoomInv, CapacityRespected
<1>5. LogInv /\ AssignedOnceAfterCreated
  BY DEF Init, LogInv, AssignedOnceAfterCreated, Logged, HandPC, Coroutines
<1>6. QueueComplete
  BY AbsentRecord DEF Init, QueueComplete
<1> QED
  BY <1>1, <1>3, <1>4, <1>5, <1>6 DEF IInv

LEMMA NextIInv == IInv /\ [Next]_vars => IInv'
<1> USE ConstantsAssumption
<1> SUFFICES ASSUME IInv, [Next]_vars PROVE IInv'
  OBVIOUS
<1>t. TypeInv'
  BY NextType DEF IInv
<1>1. ASSUME NEW t \in Tasks, Submit(t) PROVE IInv'
  BY <1>t, <1>1, SubmitAside, SubmitInside, AsideKeeps DEF Submit
<1>2. ASSUME NEW w \in Workers, Worker(w) PROVE IInv'
  <2>1. CASE WorkerReports(w)
    <3>1. item[w] \in Tasks /\ pc[w] \in {"idle", "claimed", "running"}
      BY <2>1 DEF WorkerReports, IInv, TypeInv, LocalsOK, Holding
    <3>2. \E method \in StatusOps, t \in Tasks : UpdateGet(w, method, t)
      BY <2>1, <3>1 DEF WorkerReports, StatusOps
    <3> QED BY <1>t, <3>1, <3>2, UpdateAside, AsideKeeps
  <2> QED BY <1>t, <1>2, <2>1, ClaimInside, UpdateAside, AsideKeeps DEF Worker
<1>3. ASSUME NEW c \in Clients, Client(c) PROVE IInv'
  <2>1. CASE ClientCalls(c)
    <3>1. pc[c] = "idle" /\ \E method \in StatusOps, t \in Tasks : UpdateGet(c, method, t)
      BY <2>1 DEF ClientCalls
    <3> QED BY <1>t, <3>1, UpdateAside, AsideKeeps
  <2> QED BY <1>t, <1>3, <2>1, UpdateAside, AsideKeeps DEF Client
<1>4. CASE Start \/ SweepStart
  BY <1>t, <1>4, SweeperAside, AsideKeeps
<1>5. CASE SweepAcquire \/ SweepGet \/ SweepExpire \/ SweepFinish
  BY <1>t, <1>5, SweepInside
<1>6. CASE Stop
  <2>1. Sweeper \in Coroutines
    BY DEF Coroutines
  <2> QED BY <1>t, <1>6, <2>1, SweepInside, UnwindAside, AsideKeeps
<1>7. ASSUME NEW c \in Coroutines, Abort(c) PROVE IInv'
  <2>1. CASE pc[c] \notin Locked
    BY <1>t, <1>7, <2>1, UnwindAside, AsideKeeps
  <2>2. CASE pc[c] \in Locked
    <3>1. c \notin Clients
      BY <2>2 DEF IInv, TypeInv, TypeOK, ClientPC, StatusPC, Locked
    <3>2. c \in Tasks \/ c \in Workers \/ c = Sweeper
      BY <3>1 DEF Coroutines
    <3> QED BY <1>t, <1>7, <2>2, <3>2, SubmitInside, ClaimInside, SweepInside
  <2> QED BY <2>1, <2>2
(* The agents, the deadlines and stuttering touch nothing of it.           *)
<1>8. CASE UNCHANGED <<heap, lock, store, pc, locals, sweep, events>>
  BY <1>t, <1>8
  DEF IInv, LockInv, PlaceInv, RoomInv, CapacityRespected, SweepInv, LogInv, Logged,
      AssignedOnceAfterCreated, SkipInv, QueueComplete, InHand, locals, sweep
<1>9. ASSUME NEW t \in Tasks, DeadlinePasses(t) PROVE IInv'
  BY <1>8, <1>9 DEF DeadlinePasses
<1>10. ASSUME NEW a \in Agents, AgentChanges(a) PROVE IInv'
  BY <1>8, <1>10 DEF AgentChanges
<1>11. CASE UNCHANGED vars
  BY <1>8, <1>11 DEF vars, locals, sweep
<1> QED
  BY <1>1, <1>2, <1>3, <1>4, <1>5, <1>6, <1>7, <1>9, <1>10, <1>11 DEF Next, SweepRest

LEMMA Invariant == Spec => []IInv
BY InitIInv, NextIInv, PTL DEF Spec

-----------------------------------------------------------------------------

(* The heap never holds more than MAX_QUEUE_SIZE tasks.                    *)
THEOREM CapacityCorrect == Spec => []CapacityRespected
<1>1. IInv => CapacityRespected
  BY DEF IInv
<1> QED BY <1>1, Invariant, PTL

(* A task is assigned at most once and only after it was announced.        *)
THEOREM AssignmentCorrect == Spec => []AssignedOnceAfterCreated
<1>1. IInv => AssignedOnceAfterCreated
  BY DEF IInv
<1> QED BY <1>1, Invariant, PTL

(* Without faults, no QUEUED task falls between submit, claim and sweep.   *)
THEOREM QueueCorrect == Spec => []QueueComplete
<1>1. IInv => QueueComplete
  BY DEF IInv
<1> QED BY <1>1, Invariant, PTL

(* The records that are saved as timed out are saved by the sweeper.       *)
LEMMA TimeoutSaved ==
  ASSUME IInv, [Next]_vars, NEW t \in Tasks,
         store'[t].status = "timeout", store'[t] # store[t]
  PROVE  SweepExpire /\ t = item[Sweeper]
<1> USE ConstantsAssumption
<1>0. TypeInv /\ TypeOK
  BY DEF IInv, TypeInv
<1>1. ~(UNCHANGED store)
  OBVIOUS
<1>2. ASSUME NEW u \in Tasks, SubmitSave(u) PROVE FALSE
  <2>1. WithStatus(Absent, "queued").status = "queued"
    BY AbsentRecord, StatusRecord DEF TaskStatus
  <2> QED BY <1>0, <1>2, <2>1 DEF SubmitSave, TypeOK
<1>3. ASSUME NEW w \in Workers, ClaimSave(w) PROVE FALSE
  <2>1. Assigned(copy[w], w).status = "assigned"
    BY <1>0, AssignedRecord DEF TypeOK, Coroutines
  <2> QED BY <1>0, <1>3, <2>1 DEF ClaimSave, TypeOK
<1>4. ASSUME NEW c \in Workers \cup Clients, UpdateSave(c) PROVE FALSE
  <2>1. op[c] \in StatusOps /\ copy[c] \in StoredTask
    BY <1>0, <1>4 DEF TypeInv, TypeOK, LocalsOK, UpdateSave, At, StatusPC, Coroutines
  <2>2. NewStatus[op[c]] \in TaskStatus \ {"timeout"}
    BY <2>1 DEF NewStatus, StatusOps, TaskStatus
  <2>3. WithStatus(copy[c], NewStatus[op[c]]).status # "timeout"
    BY <2>1, <2>2, StatusRecord
  <2> QED BY <1>0, <1>4, <2>3 DEF UpdateSave, TypeOK
<1>5. ASSUME NEW c \in Workers \cup Clients, FailSave(c) PROVE FALSE
  <2>1. copy[c].status = "failed" /\ copy[c] \in StoredTask
    BY <1>0, <1>5 DEF TypeInv, TypeOK, LocalsOK, FailSave, At, StatusPC, Coroutines
  <2>2. WithError(copy[c]).status = "failed"
    BY <2>1, ErrorRecord
  <2> QED BY <1>0, <1>5, <2>2 DEF FailSave, TypeOK
<1>6. SweepExpire
  BY <1>1, <1>2, <1>3, <1>4, <1>5
  DEF Next, vars, Submit, SubmitCheck, SubmitAcquire, SubmitReject, SubmitPush, DeadlinePasses,
      Worker, ClaimAcquire, ClaimRest, ClaimGet, ClaimSkip, ClaimPublish, ClaimReturn,
      WorkerReports, UpdateGet, UpdateRest, UpdatePublish, Client, ClientCalls, Start, Stop,
      SweepAcquire, SweepRest, SweepStart, SweepGet, SweepFinish, AgentChanges, Abort
<1> QED BY <1>0, <1>6 DEF SweepExpire, TypeOK

(* A task that times out was never handed to a worker before.              *)
THEOREM SweepCorrect == Spec => SweepSparesClaimed
<1>1. ASSUME IInv, [Next]_vars, NEW t \in Tasks,
             store'[t].status = "timeout", store'[t] # store[t]
      PROVE  ~Logged(t, "task.assigned")
  <2>1. pc[Sweeper] = "expire" /\ t = item[Sweeper]
    BY <1>1, TimeoutSaved DEF SweepExpire, At
  <2>2. t \in heap
    BY <1>1, <2>1 DEF IInv, SweepInv
  <2> QED BY <1>1, <2>2 DEF IInv, LogInv
<1>2. IInv /\ [Next]_vars =>
        [\A t \in Tasks : store'[t].status = "timeout" /\ store'[t] # store[t]
           => ~Logged(t, "task.assigned")]_vars
  BY <1>1
<1> QED BY <1>2, Invariant, PTL DEF Spec, SweepSparesClaimed

-----------------------------------------------------------------------------
(* What the in-memory store adds: no await of it suspends, so a method     *)
(* that has read a task saves it before anyone else touches the store.     *)

(* At most one coroutine is between two calls of the store.                *)
OneAtStore ==
  \A c, d \in Coroutines : pc[c] \in AtStore /\ pc[d] \in AtStore => c = d

(* From the save of claim on, a worker owns its task.                      *)
Owning == {"publish", "handlers", "claimed", "running"} \cup StatusPC

Unborn == {"new", "checked", "saving", "rejected"}

(* What a place says of the stored task: a copy just read is still what is *)
(* stored, and an event about to be published is about what was saved.     *)
CoroutineOK(c) ==
  /\ pc[c] \in {"got", "save", "save2", "expire"} => copy[c] = store[item[c]]
  /\ pc[c] \in {"save", "expire"} => store[item[c]].status # "absent"
  /\ c \in Workers /\ pc[c] \in Owning => store[item[c]].worker = c
  /\ c \in Tasks /\ pc[c] \in Unborn => store[c] = Absent
  /\ c \in Tasks /\ pc[c] = "pushing" => store[c].status = "queued"
  /\ pc[c] = "publish" => store[item[c]].status = "assigned"
  /\ pc[c] = "save2" => store[item[c]].status = "failed"
  /\ pc[c] = "notify" => store[item[c]].status = NewStatus[op[c]]

(* A task that no worker was given has no worker recorded.                 *)
Unowned(t) == store[t].status \in {"absent", "queued"} => store[t].worker = NoOne

(* The last event of a task goes with its status, or is about to.          *)
Announced(t) ==
  store[t].status \in DOMAIN StatusEvent =>
    events[t] # <<>> /\ events[t][Len(events[t])] = StatusEvent[store[t].status]

Announcing(t) ==
  \E c \in Coroutines : pc[c] \in {"publish", "save2", "notify"} /\ item[c] = t

TasksOK == \A t \in Tasks : Unowned(t) /\ (Announced(t) \/ Announcing(t))

MInv == TypeInv /\ OneAtStore /\ (\A c \in Coroutines : CoroutineOK(c)) /\ TasksOK

-----------------------------------------------------------------------------
(* Whoever moves, the others are not at the store, and only move later.    *)

Alone(c) == \A d \in Coroutines \ {c} : pc[d] \notin AtStore

Moves(c) ==
  \A d \in Coroutines \ {c} :
    pc'[d] = pc[d] /\ item'[d] = item[d] /\ copy'[d] = copy[d] /\ op'[d] = op[d]

LEMMA RunsAlone ==
  ASSUME ~StoreYields, NEW c, MayRun(c)
  PROVE  Alone(c)
BY DEF MayRun, Alone

(* A save that keeps the recorded worker, of a task that exists or that    *)
(* the caller creates.                                                     *)
Saves(c, t) ==
  /\ pc[t] \in Unborn => t = c
  /\ store'[t].worker = store[t].worker \/ store[t].worker = NoOne

LEMMA OthersKeep ==
  ASSUME MInv, NEW c \in Coroutines, Alone(c), Moves(c),
         \A t \in Tasks : store'[t] = store[t] \/ Saves(c, t)
  PROVE  OneAtStore' /\ \A d \in Coroutines \ {c} : CoroutineOK(d)'
<1>1. OneAtStore'
  BY DEF OneAtStore, Alone, Moves
<1>2. ASSUME NEW d \in Coroutines \ {c} PROVE CoroutineOK(d)'
  <2>1. pc'[d] = pc[d] /\ item'[d] = item[d] /\ pc[d] \notin AtStore
    BY DEF Alone, Moves
  <2>2. CoroutineOK(d)
    BY DEF MInv
  <2>3. ASSUME d \in Workers, pc[d] \in Owning PROVE store'[item[d]].worker = d
    <3>1. item[d] \in Tasks
      BY <2>1, <2>3 DEF MInv, TypeInv, LocalsOK, Owning, Holding
    <3>2. store[item[d]].worker = d /\ d # NoOne
      BY <2>2, <2>3, ConstantsAssumption DEF CoroutineOK
    <3> QED BY <3>1, <3>2 DEF Saves
  <2>4. ASSUME d \in Tasks, pc[d] \in Unborn PROVE store'[d] = Absent
    <3>1. store[d] = Absent
      BY <2>2, <2>4 DEF CoroutineOK
    <3> QED BY <2>4, <3>1 DEF Saves
  <2> QED BY <2>1, <2>3, <2>4 DEF CoroutineOK, AtStore, StatusPC
<1> QED BY <1>1, <1>2

(* A step that neither saves nor publishes.                                *)
LEMMA SilentStep ==
  ASSUME MInv, TypeInv', NEW c \in Coroutines, Alone(c), Moves(c), CoroutineOK(c)',
         store' = store, events' = events, pc[c] \notin {"publish", "save2", "notify"}
  PROVE  MInv'
<1>1. OneAtStore' /\ \A d \in Coroutines \ {c} : CoroutineOK(d)'
  BY OthersKeep
<1>2. ASSUME NEW t \in Tasks PROVE Unowned(t)' /\ (Announced(t)' \/ Announcing(t)')
  <2>1. Unowned(t) /\ (Announced(t) \/ Announcing(t))
    BY DEF MInv, TasksOK
  <2>2. Announcing(t) => Announcing(t)'
    BY DEF Announcing, Moves
  <2> QED BY <2>1, <2>2 DEF Unowned, Announced
<1> QED BY <1>1, <1>2 DEF MInv, TasksOK

(* A step that publishes what goes with the status of c's task.            *)
LEMMA PublishStep ==
  ASSUME MInv, TypeInv', NEW c \in Coroutines, Alone(c), Moves(c), CoroutineOK(c)',
         store' = store, NEW t \in Tasks, NEW type \in EventTypes, Publish(t, type),
         pc[c] \in {"publish", "save2", "notify"} => item[c] = t,
         store[t].status \in DOMAIN StatusEvent => StatusEvent[store[t].status] = type
  PROVE  MInv'
<1>1. OneAtStore' /\ \A d \in Coroutines \ {c} : CoroutineOK(d)'
  BY OthersKeep
<1>2. events \in [Tasks -> Seq(EventTypes)]
  BY DEF MInv, TypeInv, TypeOK
<1>3. ASSUME NEW u \in Tasks PROVE Unowned(u)' /\ (Announced(u)' \/ Announcing(u)')
  <2>1. Unowned(u) /\ (Announced(u) \/ Announcing(u))
    BY DEF MInv, TasksOK
  <2>2. CASE u = t
    <3>1. events'[u] = Append(events[u], type) /\ events[u] \in Seq(EventTypes)
      BY <1>2, <2>2 DEF Publish
    <3>2. events'[u] # <<>> /\ events'[u][Len(events'[u])] = type
      BY <3>1
    <3> QED BY <2>1, <2>2, <3>2 DEF Unowned, Announced
  <2>3. CASE u # t
    <3>1. events'[u] = events[u]
      BY <1>2, <2>3 DEF Publish
    <3>2. Announcing(u) => Announcing(u)'
      BY <2>3 DEF Announcing, Moves
    <3> QED BY <2>1, <3>1, <3>2 DEF Unowned, Announced
  <2> QED BY <2>2, <2>3
<1> QED BY <1>1, <1>3 DEF MInv, TasksOK

(* A step that saves t: its event is about to be published, or none is due.*)
LEMMA SaveStep ==
  ASSUME MInv, TypeInv', NEW c \in Coroutines, Alone(c), Moves(c), CoroutineOK(c)',
         NEW t \in Tasks, NEW task \in StoredTask, store' = [store EXCEPT ![t] = task],
         Saves(c, t), events' = events, pc[c] \in {"publish", "save2", "notify"} => item[c] = t,
         task.status \in {"absent", "queued"} => task.worker = NoOne,
         \/ task.status \notin DOMAIN StatusEvent
         \/ pc'[c] \in {"publish", "save2", "notify"} /\ item'[c] = t
  PROVE  MInv'
<1>0. store \in [Tasks -> StoredTask]
  BY DEF MInv, TypeInv, TypeOK
<1>1. OneAtStore' /\ \A d \in Coroutines \ {c} : CoroutineOK(d)'
  BY <1>0, OthersKeep
<1>2. ASSUME NEW u \in Tasks PROVE Unowned(u)' /\ (Announced(u)' \/ Announcing(u)')
  <2>1. Unowned(u) /\ (Announced(u) \/ Announcing(u))
    BY DEF MInv, TasksOK
  <2>2. CASE u = t
    <3>1. store'[u] = task
      BY <1>0, <2>2
    <3> QED BY <2>2, <3>1 DEF Unowned, Announced, Announcing
  <2>3. CASE u # t
    <3>1. store'[u] = store[u]
      BY <1>0, <2>3
    <3>2. Announcing(u) => Announcing(u)'
      BY <2>3 DEF Announcing, Moves
    <3> QED BY <2>1, <3>1, <3>2 DEF Unowned, Announced
  <2> QED BY <2>2, <2>3
<1> QED BY <1>1, <1>2 DEF MInv, TasksOK

-----------------------------------------------------------------------------
(* Locals and places change for the one that moves.                        *)

LEMMA MovesOnly ==
  ASSUME TypeOK, NEW c \in Coroutines, NEW place, Goto(c, place),
         UNCHANGED locals \/ \E t, task, method : Local(c, t, task, method)
  PROVE  Moves(c) /\ pc'[c] = place
BY DEF TypeOK, Goto, Moves, Local, locals

LEMMA LocalValues ==
  ASSUME TypeOK, NEW c \in Coroutines, NEW t, NEW task, NEW method, Local(c, t, task, method)
  PROVE  item'[c] = t /\ copy'[c] = task /\ op'[c] = method
BY DEF TypeOK, Local

LEMMA SubmitKeeps ==
  ASSUME ~StoreYields, MInv, TypeInv', NEW t \in Tasks, Submit(t)
  PROVE  MInv'
<1> USE ConstantsAssumption
<1>0. t \in Coroutines /\ t \notin Workers /\ TypeOK /\ CoroutineOK(t)
  BY DEF Coroutines, MInv, TypeInv
<1>1. Alone(t)
  BY RunsAlone
  DEF Submit, SubmitCheck, SubmitAcquire, SubmitReject, SubmitSave, SubmitPush, At
<1>2. CASE SubmitCheck(t) \/ SubmitAcquire(t) \/ SubmitReject(t)
  <2>1. /\ pc[t] \in {"new", "checked"} /\ store' = store /\ events' = events
        /\ \E place \in {"checked", "saving", "rejected"} : Goto(t, place)
        /\ UNCHANGED locals
    BY <1>2 DEF SubmitCheck, SubmitAcquire, SubmitReject, At
  <2>2. Moves(t) /\ pc'[t] \in {"checked", "saving", "rejected"}
    BY <1>0, <2>1, MovesOnly
  <2>3. CoroutineOK(t)'
    BY <1>0, <2>1, <2>2 DEF CoroutineOK, Unborn
  <2> QED BY <1>0, <1>1, <2>1, <2>2, <2>3, SilentStep
<1>3. CASE SubmitSave(t)
  <2> DEFINE task == WithStatus(Absent, "queued")
  <2>1. task \in StoredTask /\ task.status = "queued" /\ task.worker = NoOne
    BY DEF WithStatus, Absent, StoredTask, TaskStatus
  <2> HIDE DEF task
  <2>2. /\ pc[t] = "saving" /\ events' = events /\ Goto(t, "pushing") /\ UNCHANGED locals
        /\ store' = [store EXCEPT ![t] = task]
    BY <1>3 DEF SubmitSave, At, task
  <2>3. Moves(t) /\ pc'[t] = "pushing"
    BY <1>0, <2>2, MovesOnly
  <2>4. store'[t] = task /\ store[t] = Absent
    BY <1>0, <2>2 DEF TypeOK, CoroutineOK, Unborn
  <2>5. CoroutineOK(t)'
    BY <1>0, <2>1, <2>3, <2>4 DEF CoroutineOK, Unborn
  <2>6. Saves(t, t)
    BY <2>4 DEF Saves, Absent
  <2>7. task.status \notin DOMAIN StatusEvent
    BY <2>1 DEF StatusEvent
  <2> QED BY <1>0, <1>1, <2>1, <2>2, <2>3, <2>5, <2>6, <2>7, SaveStep
<1>4. CASE SubmitPush(t)
  <2>1. pc[t] = "pushing" /\ store' = store /\ Publish(t, "task.created")
        /\ Goto(t, "queued") /\ UNCHANGED locals
    BY <1>4 DEF SubmitPush, At
  <2>2. Moves(t) /\ pc'[t] = "queued"
    BY <1>0, <2>1, MovesOnly
  <2>3. CoroutineOK(t)'
    BY <1>0, <2>2 DEF CoroutineOK, Unborn
  <2>4. store[t].status \notin DOMAIN StatusEvent /\ "task.created" \in EventTypes
    BY <1>0, <2>1 DEF CoroutineOK, StatusEvent, EventTypes
  <2> QED BY <1>0, <1>1, <2>1, <2>2, <2>3, <2>4, PublishStep
<1> QED BY <1>2, <1>3, <1>4 DEF Submit

LEMMA ClaimKeeps ==
  ASSUME ~StoreYields, MInv, TypeInv', NEW w \in Workers, ClaimAcquire(w) \/ ClaimRest(w)
  PROVE  MInv'
<1> USE ConstantsAssumption
<1>0. w \in Coroutines /\ w \notin Tasks /\ TypeOK /\ CoroutineOK(w)
  BY DEF Coroutines, MInv, TypeInv
<1>1. Alone(w)
  BY RunsAlone
  DEF ClaimAcquire, ClaimRest, ClaimGet, ClaimSkip, ClaimSave, ClaimPublish, ClaimReturn, At
<1>p. ASSUME Pop(w), pc[w] \in {"idle", "got"}, store' = store, events' = events PROVE MInv'
  <2>1. Moves(w) /\ pc'[w] = "get"
    BY <1>0, <1>p, MovesOnly DEF Pop
  <2>2. CoroutineOK(w)'
    BY <1>0, <2>1 DEF CoroutineOK, Owning, StatusPC
  <2> QED BY <1>0, <1>1, <1>p, <2>1, <2>2, SilentStep
<1>2. CASE ClaimAcquire(w)
  BY <1>2, <1>p DEF ClaimAcquire, At
<1>3. CASE ClaimGet(w)
  <2>1. /\ pc[w] = "get" /\ store' = store /\ events' = events /\ Goto(w, "got")
        /\ Local(w, item[w], store[item[w]], "none")
    BY <1>3 DEF ClaimGet, At
  <2>2. Moves(w) /\ pc'[w] = "got" /\ item'[w] = item[w] /\ copy'[w] = store[item[w]]
    BY <1>0, <2>1, MovesOnly, LocalValues
  <2>3. CoroutineOK(w)'
    BY <1>0, <2>1, <2>2 DEF CoroutineOK, Owning, StatusPC
  <2> QED BY <1>0, <1>1, <2>1, <2>2, <2>3, SilentStep
<1>4. CASE ClaimSkip(w)
  <2>1. pc[w] = "got" /\ store' = store /\ events' = events
    BY <1>4 DEF ClaimSkip, At
  <2>2. CASE Goto(w, "idle") /\ NoLocal(w)
    <3>1. Moves(w) /\ pc'[w] = "idle"
      BY <1>0, <2>2, MovesOnly DEF NoLocal
    <3>2. CoroutineOK(w)'
      BY <1>0, <3>1 DEF CoroutineOK, Owning, StatusPC
    <3> QED BY <1>0, <1>1, <2>1, <3>1, <3>2, SilentStep
  <2> QED BY <1>4, <1>p, <2>1, <2>2 DEF ClaimSkip
<1>5. CASE ClaimSave(w)
  <2> DEFINE t == item[w]
  <2> DEFINE task == Assigned(copy[w], w)
  <2>1. t \in Tasks /\ copy[w] = store[t] /\ store[t].status = "queued" /\ store[t].worker = NoOne
    BY <1>0, <1>5 DEF ClaimSave, At, MInv, TypeInv, LocalsOK, Holding, CoroutineOK, TasksOK, Unowned
  <2>2. task \in StoredTask /\ task.status = "assigned" /\ task.worker = w
    <3>1. copy[w] \in StoredTask
      BY <1>0 DEF TypeOK
    <3> QED BY <3>1, AssignedRecord DEF Assigned, StoredTask
  <2> HIDE DEF task
  <2>3. /\ pc[w] = "got" /\ events' = events /\ Goto(w, "publish") /\ UNCHANGED locals
        /\ store' = [store EXCEPT ![t] = task]
    BY <1>5 DEF ClaimSave, At, task
  <2>4. Moves(w) /\ pc'[w] = "publish" /\ item'[w] = t
    BY <1>0, <2>3, MovesOnly DEF locals
  <2>5. store'[t] = task
    BY <1>0, <2>1, <2>3 DEF TypeOK
  <2>6. CoroutineOK(w)'
    BY <1>0, <2>2, <2>4, <2>5 DEF CoroutineOK
  <2>7. Saves(w, t)
    <3>1. t \in Coroutines /\ store[t] # Absent
      BY <2>1 DEF Coroutines, Absent
    <3>2. pc[t] \notin Unborn
      BY <2>1, <3>1 DEF MInv, CoroutineOK
    <3> QED BY <2>1, <3>2 DEF Saves
  <2>8. pc[w] \notin {"publish", "save2", "notify"} /\ task.status \notin {"absent", "queued"}
    BY <2>2, <2>3
  <2> HIDE DEF t
  <2> QED BY <1>0, <1>1, <2>1, <2>2, <2>3, <2>4, <2>6, <2>7, <2>8, SaveStep
<1>6. CASE ClaimPublish(w)
  <2>1. /\ pc[w] = "publish" /\ store' = store /\ Publish(item[w], "task.assigned")
        /\ Goto(w, "handlers") /\ UNCHANGED locals
    BY <1>6 DEF ClaimPublish, At
  <2>2. Moves(w) /\ pc'[w] = "handlers" /\ item'[w] = item[w]
    BY <1>0, <2>1, MovesOnly DEF locals
  <2>3. item[w] \in Tasks /\ store[item[w]].status = "assigned" /\ store[item[w]].worker = w
    BY <1>0, <2>1 DEF MInv, TypeInv, LocalsOK, Holding, CoroutineOK, Owning
  <2>4. CoroutineOK(w)'
    BY <1>0, <2>1, <2>2, <2>3 DEF CoroutineOK
  <2>5. StatusEvent["assigned"] = "task.assigned" /\ "task.assigned" \in EventTypes
    BY DEF StatusEvent, EventTypes
  <2> QED BY <1>0, <1>1, <2>1, <2>2, <2>3, <2>4, <2>5, PublishStep
<1>7. CASE ClaimReturn(w)
  <2>1. /\ pc[w] = "handlers" /\ store' = store /\ events' = events
        /\ Goto(w, "claimed") /\ UNCHANGED locals
    BY <1>7 DEF ClaimReturn, At
  <2>2. Moves(w) /\ pc'[w] = "claimed" /\ item'[w] = item[w]
    BY <1>0, <2>1, MovesOnly DEF locals
  <2>3. CoroutineOK(w)'
    BY <1>0, <2>1, <2>2 DEF CoroutineOK, Owning
  <2> QED BY <1>0, <1>1, <2>1, <2>2, <2>3, SilentStep
<1> QED BY <1>2, <1>3, <1>4, <1>5, <1>6, <1>7 DEF ClaimRest

(* Where a status method returns to, nothing but the owner is said.        *)
LEMMA ReturnOK ==
  ASSUME MInv, NEW c \in Workers \cup Clients, pc[c] \in StatusPC, Return(c),
         c \in Workers => store'[item[c]].worker = c
  PROVE  Moves(c) /\ CoroutineOK(c)'
<1> USE ConstantsAssumption
<1>0. c \in Coroutines /\ c \notin Tasks /\ TypeOK
  BY DEF Coroutines, MInv, TypeInv
<1>1. CASE c \in Workers /\ op[c] = "mark_running"
  <2>1. Goto(c, "running") /\ Local(c, item[c], Absent, "none")
    BY <1>1 DEF Return
  <2>2. Moves(c) /\ pc'[c] = "running" /\ item'[c] = item[c]
    BY <1>0, <2>1, MovesOnly, LocalValues
  <2> QED BY <1>0, <1>1, <2>2 DEF CoroutineOK
<1>2. CASE ~(c \in Workers /\ op[c] = "mark_running")
  <2>1. Goto(c, "idle") /\ NoLocal(c)
    BY <1>2 DEF Return
  <2>2. Moves(c) /\ pc'[c] = "idle"
    BY <1>0, <2>1, MovesOnly DEF NoLocal
  <2> QED BY <1>0, <2>2 DEF CoroutineOK, Owning, StatusPC
<1> QED BY <1>1, <1>2

(* A worker reports on the task that it owns, others on any.               *)
LEMMA GetKeeps ==
  ASSUME ~StoreYields, MInv, TypeInv', NEW c \in Workers \cup Clients, NEW method \in StatusOps,
         NEW t \in Tasks, UpdateGet(c, method, t),
         pc[c] \notin {"publish", "save2", "notify"}, c \in Workers => store[t].worker = c
  PROVE  MInv'
<1> USE ConstantsAssumption
<1>0. c \in Coroutines /\ c \notin Tasks /\ TypeOK
  BY DEF Coroutines, MInv, TypeInv
<1>1. Alone(c)
  BY RunsAlone DEF UpdateGet
<1>2. /\ store' = store /\ events' = events /\ Goto(c, "save")
      /\ Local(c, t, store[t], method) /\ store[t].status # "absent"
  BY DEF UpdateGet
<1>3. Moves(c) /\ pc'[c] = "save" /\ item'[c] = t /\ copy'[c] = store[t]
  BY <1>0, <1>2, MovesOnly, LocalValues
<1>4. CoroutineOK(c)'
  BY <1>0, <1>2, <1>3 DEF CoroutineOK
<1> QED BY <1>0, <1>1, <1>2, <1>3, <1>4, SilentStep

(* What a coroutine at "save" or "save2" may store: its copy is fresh.     *)
LEMMA SaveOf ==
  ASSUME MInv, NEW c \in Workers \cup Clients, pc[c] \in {"save", "save2"}
  PROVE  /\ item[c] \in Tasks /\ op[c] \in StatusOps
         /\ copy[c] = store[item[c]] /\ copy[c] \in StoredTask
         /\ copy[c].status # "absent"
         /\ c \in Workers => copy[c].worker = c
         /\ \A task : store'[item[c]] = task /\ task.worker = copy[c].worker => Saves(c, item[c])
<1> USE ConstantsAssumption
<1>0. c \in Coroutines /\ TypeOK /\ CoroutineOK(c)
  BY DEF Coroutines, MInv, TypeInv
<1>1. item[c] \in Tasks /\ op[c] \in StatusOps
  BY <1>0 DEF MInv, TypeInv, TypeOK, LocalsOK, StatusPC
<1>2. copy[c] = store[item[c]] /\ copy[c] \in StoredTask
  BY <1>0, <1>1 DEF CoroutineOK, TypeOK
<1>3. copy[c].status # "absent"
  BY <1>0, <1>2 DEF CoroutineOK
<1>4. c \in Workers => copy[c].worker = c
  BY <1>0, <1>2 DEF CoroutineOK, Owning, StatusPC
<1>5. pc[item[c]] \notin Unborn
  <2>1. item[c] \in Coroutines /\ store[item[c]] # Absent
    BY <1>1, <1>2, <1>3 DEF Coroutines, Absent
  <2> QED BY <1>1, <2>1 DEF MInv, CoroutineOK
<1>6. \A task : store'[item[c]] = task /\ task.worker = copy[c].worker => Saves(c, item[c])
  BY <1>2, <1>5 DEF Saves
<1> QED BY <1>1, <1>2, <1>3, <1>4, <1>6

LEMMA UpdateKeeps ==
  ASSUME ~StoreYields, MInv, TypeInv', NEW c \in Workers \cup Clients, UpdateRest(c)
  PROVE  MInv'
<1> USE ConstantsAssumption
<1>0. c \in Coroutines /\ c \notin Tasks /\ TypeOK /\ CoroutineOK(c)
  BY DEF Coroutines, MInv, TypeInv
<1>1. Alone(c)
  BY RunsAlone DEF UpdateRest, UpdateSave, FailSave, UpdatePublish, At
<1>2. CASE UpdateSave(c)
  <2> DEFINE t == item[c]
  <2> DEFINE task == WithStatus(copy[c], NewStatus[op[c]])
  <2>0. pc[c] = "save"
    BY <1>2 DEF UpdateSave, At
  <2>1. /\ t \in Tasks /\ op[c] \in StatusOps /\ copy[c] \in StoredTask
        /\ c \in Workers => copy[c].worker = c
        /\ \A new : store'[t] = new /\ new.worker = copy[c].worker => Saves(c, t)
    BY <2>0, SaveOf
  <2>2. NewStatus[op[c]] \in {"running", "succeeded", "failed", "cancelled"}
    BY <2>1 DEF NewStatus, StatusOps
  <2>3. task \in StoredTask /\ task.status = NewStatus[op[c]]
    BY <2>1, <2>2, StatusRecord DEF TaskStatus
  <2>4. task.worker = copy[c].worker
    BY <2>1 DEF WithStatus, StoredTask
  <2> HIDE DEF task
  <2>5. /\ events' = events /\ store' = [store EXCEPT ![t] = task]
        /\ \/ op[c] = "mark_running" /\ Return(c)
           \/ op[c] = "mark_failed" /\ Goto(c, "save2") /\ Local(c, t, task, op[c])
           \/ op[c] \in {"mark_succeeded", "cancel"} /\ Goto(c, "notify") /\ UNCHANGED locals
    BY <1>2 DEF UpdateSave, task
  <2>6. store'[t] = task /\ Saves(c, t) /\ (c \in Workers => store'[t].worker = c)
    BY <1>0, <2>1, <2>4, <2>5 DEF TypeOK
  <2>7. CASE op[c] = "mark_running" /\ Return(c)
    <3>1. task.status = "running"
      BY <2>3, <2>7 DEF NewStatus
    <3>2. Moves(c) /\ CoroutineOK(c)'
      BY <2>0, <2>6, <2>7, ReturnOK DEF StatusPC
    <3>3. task.status \notin DOMAIN StatusEvent
      BY <3>1 DEF StatusEvent
    <3> HIDE DEF t
    <3> QED BY <1>0, <1>1, <2>0, <2>1, <2>2, <2>3, <2>5, <2>6, <3>1, <3>2, <3>3, SaveStep
  <2>8. CASE op[c] = "mark_failed" /\ Goto(c, "save2") /\ Local(c, t, task, op[c])
    <3>1. Moves(c) /\ pc'[c] = "save2" /\ item'[c] = t /\ copy'[c] = task
      BY <1>0, <2>8, MovesOnly, LocalValues
    <3>2. task.status = "failed"
      BY <2>3, <2>8 DEF NewStatus
    <3>3. CoroutineOK(c)'
      BY <1>0, <2>6, <3>1, <3>2 DEF CoroutineOK
    <3> HIDE DEF t
    <3> QED BY <1>0, <1>1, <2>0, <2>1, <2>3, <2>5, <2>6, <3>1, <3>2, <3>3, SaveStep
  <2>9. CASE op[c] \in {"mark_succeeded", "cancel"} /\ Goto(c, "notify") /\ UNCHANGED locals
    <3>1. Moves(c) /\ pc'[c] = "notify" /\ item'[c] = t /\ op'[c] = op[c]
      BY <1>0, <2>9, MovesOnly DEF locals
    <3>2. CoroutineOK(c)'
      BY <1>0, <2>3, <2>6, <3>1 DEF CoroutineOK
    <3>3. task.status \notin {"absent", "queued"}
      BY <2>2, <2>3
    <3> HIDE DEF t
    <3> QED BY <1>0, <1>1, <2>0, <2>1, <2>3, <2>5, <2>6, <3>1, <3>2, <3>3, SaveStep
  <2> QED BY <2>5, <2>7, <2>8, <2>9
<1>3. CASE FailSave(c)
  <2> DEFINE t == item[c]
  <2> DEFINE task == WithError(copy[c])
  <2>0. pc[c] = "save2" /\ op[c] = "mark_failed" /\ copy[c].status = "failed"
    BY <1>3 DEF FailSave, At, MInv, TypeInv, LocalsOK, StatusPC
  <2>1. /\ t \in Tasks /\ copy[c] \in StoredTask
        /\ c \in Workers => copy[c].worker = c
        /\ \A new : store'[t] = new /\ new.worker = copy[c].worker => Saves(c, t)
    BY <2>0, SaveOf
  <2>2. task \in StoredTask /\ task.status = "failed"
    BY <2>0, <2>1, ErrorRecord
  <2>3. task.worker = copy[c].worker
    BY <2>1 DEF WithError, StoredTask
  <2> HIDE DEF task
  <2>4. /\ events' = events /\ store' = [store EXCEPT ![t] = task]
        /\ Goto(c, "notify") /\ UNCHANGED locals
    BY <1>3 DEF FailSave, task
  <2>5. store'[t] = task /\ Saves(c, t) /\ (c \in Workers => store'[t].worker = c)
    BY <1>0, <2>1, <2>3, <2>4 DEF TypeOK
  <2>6. Moves(c) /\ pc'[c] = "notify" /\ item'[c] = t /\ op'[c] = "mark_failed"
    BY <1>0, <2>0, <2>4, MovesOnly DEF locals
  <2>7. CoroutineOK(c)'
    BY <1>0, <2>2, <2>5, <2>6 DEF CoroutineOK, NewStatus
  <2>8. pc[c] \in {"publish", "save2", "notify"} => item[c] = t
    OBVIOUS
  <2> HIDE DEF t
  <2> QED BY <1>0, <1>1, <2>1, <2>2, <2>4, <2>5, <2>6, <2>7, <2>8, SaveStep
<1>4. CASE UpdatePublish(c)
  <2> DEFINE t == item[c]
  <2>1. /\ pc[c] = "notify" /\ store' = store /\ Publish(t, UpdateEvent[op[c]]) /\ Return(c)
    BY <1>4 DEF UpdatePublish, At
  <2>2. /\ t \in Tasks /\ op[c] \in {"mark_succeeded", "mark_failed", "cancel"}
        /\ store[t].status = NewStatus[op[c]]
        /\ c \in Workers => store'[t].worker = c
    <3>1. op[c] \in StatusOps
      BY <1>0, <2>1 DEF TypeOK, MInv, TypeInv, LocalsOK, StatusPC
    <3> QED BY <1>0, <2>1, <3>1
            DEF MInv, TypeInv, LocalsOK, StatusPC, StatusOps, CoroutineOK, Owning
  <2>3. Moves(c) /\ CoroutineOK(c)'
    BY <2>1, <2>2, ReturnOK DEF StatusPC
  <2>4. StatusEvent[NewStatus[op[c]]] = UpdateEvent[op[c]] /\ UpdateEvent[op[c]] \in EventTypes
    BY <2>2 DEF StatusEvent, NewStatus, UpdateEvent, EventTypes
  <2>5. pc[c] \in {"publish", "save2", "notify"} => item[c] = t
    OBVIOUS
  <2> HIDE DEF t
  <2> QED BY <1>0, <1>1, <2>1, <2>2, <2>3, <2>4, <2>5, PublishStep
<1> QED BY <1>2, <1>3, <1>4 DEF UpdateRest

LEMMA UnwindKeeps ==
  ASSUME MInv, TypeInv', NEW c \in Coroutines, NEW rest, Alone(c), Unwind(c, rest),
         rest \in {"failed", "off", "sleep", "idle"},
         pc[c] \notin {"publish", "save2", "notify"}, store' = store, events' = events
  PROVE  MInv'
<1>0. TypeOK
  BY DEF MInv, TypeInv
<1>1. Moves(c) /\ pc'[c] = rest
  BY <1>0, MovesOnly DEF Unwind, NoLocal
<1>2. CoroutineOK(c)'
  BY <1>1 DEF CoroutineOK, Owning, StatusPC, Unborn
<1> QED BY <1>1, <1>2, SilentStep

LEMMA SweepKeeps ==
  ASSUME ~StoreYields, MInv, TypeInv', Start \/ Stop \/ SweepAcquire \/ SweepRest
  PROVE  MInv'
<1> USE ConstantsAssumption
<1>0. /\ Sweeper \in Coroutines /\ Sweeper \notin Tasks /\ Sweeper \notin Workers
      /\ TypeOK /\ CoroutineOK(Sweeper) /\ pc[Sweeper] \in SweepPC
  BY DEF Coroutines, MInv, TypeInv, TypeOK
<1>1. CASE Stop
  <2>1. Alone(Sweeper)
    <3>1. Alone(NoOne)
      BY <1>1, RunsAlone DEF Stop
    <3> QED BY <3>1 DEF Alone
  <2> QED BY <1>0, <1>1, <2>1, UnwindKeeps DEF Stop, SweepPC
<1>2. CASE Start \/ SweepStart \/ SweepAcquire \/ SweepFinish
  <2>1. Alone(Sweeper)
    BY <1>2, RunsAlone DEF Start, SweepStart, SweepAcquire, SweepFinish, At
  <2>2. /\ store' = store /\ events' = events /\ UNCHANGED locals
        /\ \E place \in {"sleep", "wait", "scan"} : Goto(Sweeper, place)
    BY <1>2 DEF Start, SweepStart, SweepAcquire, SweepFinish
  <2>3. Moves(Sweeper) /\ pc'[Sweeper] \in {"sleep", "wait", "scan"}
    BY <1>0, <2>2, MovesOnly
  <2>4. CoroutineOK(Sweeper)'
    BY <1>0, <2>3 DEF CoroutineOK
  <2> QED BY <1>0, <2>1, <2>2, <2>3, <2>4, SilentStep DEF SweepPC
<1>3. CASE SweepGet
  <2>1. Alone(Sweeper)
    BY <1>3, RunsAlone DEF SweepGet, At
  <2>2. pc[Sweeper] = "scan" /\ store' = store /\ events' = events
    BY <1>3 DEF SweepGet, At
  <2>3. PICK t \in todo :
          \/ store[t].status # "absent" /\ Local(Sweeper, t, store[t], "none") /\ Goto(Sweeper, "expire")
          \/ UNCHANGED <<locals, pc>>
    BY <1>3 DEF SweepGet
  <2>4. CASE store[t].status # "absent" /\ Local(Sweeper, t, store[t], "none") /\ Goto(Sweeper, "expire")
    <3>1. Moves(Sweeper) /\ pc'[Sweeper] = "expire" /\ item'[Sweeper] = t /\ copy'[Sweeper] = store[t]
      BY <1>0, <2>4, MovesOnly, LocalValues
    <3>2. CoroutineOK(Sweeper)'
      BY <1>0, <2>2, <2>4, <3>1 DEF CoroutineOK
    <3> QED BY <1>0, <2>1, <2>2, <3>1, <3>2, SilentStep
  <2>5. CASE UNCHANGED <<locals, pc>>
    <3>1. Moves(Sweeper) /\ pc'[Sweeper] = "scan"
      BY <2>2, <2>5 DEF Moves, locals
    <3>2. CoroutineOK(Sweeper)'
      BY <1>0, <3>1 DEF CoroutineOK
    <3> QED BY <1>0, <2>1, <2>2, <3>1, <3>2, SilentStep
  <2> QED BY <2>3, <2>4, <2>5
<1>4. CASE SweepExpire
  <2> DEFINE t == item[Sweeper]
  <2> DEFINE task == WithStatus(copy[Sweeper], "timeout")
  <2>1. Alone(Sweeper)
    BY <1>4, RunsAlone DEF SweepExpire, At
  <2>2. /\ pc[Sweeper] = "expire" /\ events' = events /\ store' = [store EXCEPT ![t] = task]
        /\ NoLocal(Sweeper) /\ Goto(Sweeper, "scan")
    BY <1>4 DEF SweepExpire, At
  <2>3. t \in Tasks /\ copy[Sweeper] = store[t] /\ store[t] \in StoredTask /\ store[t].status # "absent"
    BY <1>0, <2>2 DEF TypeOK, CoroutineOK, MInv, TypeInv, LocalsOK
  <2>4. task \in StoredTask /\ task.status = "timeout"
    BY <2>3, StatusRecord DEF TaskStatus
  <2>5. task.worker = store[t].worker
    BY <2>3 DEF WithStatus, StoredTask
  <2> HIDE DEF task
  <2>6. Moves(Sweeper) /\ pc'[Sweeper] = "scan"
    BY <1>0, <2>2, MovesOnly DEF NoLocal
  <2>7. CoroutineOK(Sweeper)'
    BY <1>0, <2>6 DEF CoroutineOK
  <2>8. Saves(Sweeper, t)
    <3>1. t \in Coroutines /\ store[t] # Absent
      BY <2>3 DEF Coroutines, Absent
    <3>2. pc[t] \notin Unborn
      BY <2>3, <3>1 DEF MInv, CoroutineOK
    <3>3. store'[t] = task
      BY <1>0, <2>2, <2>3 DEF TypeOK
    <3> QED BY <2>5, <3>2, <3>3 DEF Saves
  <2>9. task.status \notin DOMAIN StatusEvent
    BY <2>4 DEF StatusEvent
  <2> HIDE DEF t
  <2> QED BY <1>0, <2>1, <2>2, <2>3, <2>4, <2>6, <2>7, <2>8, <2>9, SaveStep
<1> QED BY <1>1, <1>2, <1>3, <1>4 DEF SweepRest

-----------------------------------------------------------------------------

LEMMA InitMInv == ~StoreYields /\ Init => MInv
<1> USE ConstantsAssumption
<1> SUFFICES ASSUME Init PROVE MInv
  OBVIOUS
<1>1. TypeInv
  BY InitType
<1>2. OneAtStore
  BY DEF Init, OneAtStore, AtStore, StatusPC
<1>3. ASSUME NEW c \in Coroutines PROVE CoroutineOK(c)
  <2>1. pc[c] \in {"new", "off", "idle"} /\ (c \in Tasks => store[c] = Absent)
    BY DEF Init
  <2> QED BY <2>1 DEF CoroutineOK, Owning, StatusPC
<1>4. TasksOK
  <2> SUFFICES ASSUME NEW t \in Tasks PROVE Unowned(t) /\ Announced(t)
    BY DEF TasksOK
  <2>1. store[t].status = "absent" /\ store[t].worker = NoOne
    BY DEF Init, Absent
  <2> QED BY <2>1 DEF Unowned, Announced, StatusEvent
<1> QED BY <1>1, <1>2, <1>3, <1>4 DEF MInv

LEMMA NextMInv == ~StoreYields /\ MInv /\ [Next]_vars => MInv'
<1> USE ConstantsAssumption
<1> SUFFICES ASSUME ~StoreYields, MInv, [Next]_vars PROVE MInv'
  OBVIOUS
<1>t. TypeInv'
  BY NextType DEF MInv
<1>1. ASSUME NEW t \in Tasks, Submit(t) PROVE MInv'
  BY <1>t, <1>1, SubmitKeeps
<1>2. ASSUME NEW w \in Workers, Worker(w) PROVE MInv'
  <2>1. CASE WorkerReports(w)
    <3>1. pc[w] \in {"claimed", "running"}
      BY <2>1 DEF WorkerReports
    <3>2. w \in Coroutines /\ item[w] \in Tasks
      BY <3>1 DEF Coroutines, MInv, TypeInv, LocalsOK, Holding
    <3>3. store[item[w]].worker = w
      BY <3>1, <3>2 DEF MInv, CoroutineOK, Owning
    <3>4. \E method \in StatusOps : UpdateGet(w, method, item[w])
      BY <2>1 DEF WorkerReports, StatusOps
    <3> QED BY <1>t, <3>1, <3>2, <3>3, <3>4, GetKeeps
  <2> QED BY <1>t, <1>2, <2>1, ClaimKeeps, UpdateKeeps DEF Worker
<1>3. ASSUME NEW c \in Clients, Client(c) PROVE MInv'
  <2>1. CASE ClientCalls(c)
    <3>1. c \notin Workers /\ pc[c] = "idle"
      BY <2>1 DEF ClientCalls
    <3>2. \E method \in StatusOps, t \in Tasks : UpdateGet(c, method, t)
      BY <2>1 DEF ClientCalls
    <3> QED BY <1>t, <3>1, <3>2, GetKeeps
  <2> QED BY <1>t, <1>3, <2>1, UpdateKeeps DEF Client
<1>4. CASE Start \/ Stop \/ SweepAcquire \/ SweepRest
  BY <1>t, <1>4, SweepKeeps
<1>5. ASSUME NEW c \in Coroutines, Abort(c) PROVE MInv'
  <2> DEFINE rest == IF c \in Tasks THEN "failed" ELSE IF c = Sweeper THEN "sleep" ELSE "idle"
  <2>1. /\ Unwind(c, rest) /\ pc[c] \notin AtStore /\ MayRun(c)
        /\ store' = store /\ events' = events
    BY <1>5 DEF Abort
  <2>2. rest \in {"failed", "off", "sleep", "idle"}
    OBVIOUS
  <2> HIDE DEF rest
  <2> QED BY <1>t, <2>1, <2>2, RunsAlone, UnwindKeeps DEF AtStore, StatusPC
(* The agents, the deadlines and stuttering touch nothing of it.           *)
<1>6. CASE UNCHANGED <<store, pc, locals, events>>
  BY <1>t, <1>6
  DEF MInv, OneAtStore, CoroutineOK, TasksOK, Unowned, Announced, Announcing, locals
<1>7. ASSUME NEW t \in Tasks, DeadlinePasses(t) PROVE MInv'
  BY <1>6, <1>7 DEF DeadlinePasses
<1>8. ASSUME NEW a \in Agents, AgentChanges(a) PROVE MInv'
  BY <1>6, <1>8 DEF AgentChanges
<1>9. CASE UNCHANGED vars
  BY <1>6, <1>9 DEF vars, locals
<1> QED BY <1>1, <1>2, <1>3, <1>4, <1>5, <1>7, <1>8, <1>9 DEF Next

LEMMA InMemory ==
  ASSUME ~StoreYields
  PROVE  Spec => []MInv
BY InitMInv, NextMInv, PTL DEF Spec

-----------------------------------------------------------------------------

(* Behind the in-memory store, the record of a task names the worker that  *)
(* claimed it for as long as the worker is at it, though cancel and the    *)
(* other status methods save copies of the record without the lock.        *)
THEOREM OwnerCorrect ==
  ASSUME ~StoreYields
  PROVE  Spec => []OwnerRecorded
<1>1. MInv => OwnerRecorded
  BY DEF MInv, OwnerRecorded, CoroutineOK, Owning, Coroutines
<1> QED BY <1>1, InMemory, PTL

(* Behind the in-memory store, whenever no method is under way the last    *)
(* event of a task is the one that goes with its status, though every      *)
(* method saves first and publishes later, outside the lock.               *)
THEOREM LogAgreesCorrect ==
  ASSUME ~StoreYields
  PROVE  Spec => []LogAgrees
<1>1. ASSUME MInv, Quiet, NEW t \in Tasks, store[t].status \in DOMAIN StatusEvent
      PROVE  events[t][Len(events[t])] = StatusEvent[store[t].status]
  <2>1. ~Announcing(t)
    BY <1>1 DEF Quiet, Announcing, AtStore, StatusPC
  <2> QED BY <1>1, <2>1 DEF MInv, TasksOK, Announced
<1>2. MInv => LogAgrees
  BY <1>1 DEF LogAgrees
<1> QED BY <1>2, InMemory, PTL

(* Behind the in-memory store, a task that was cancelled while it waited   *)
(* in the heap is not assigned afterwards: the claim that pops it reads    *)
(* the cancellation, since nobody cancels between its get and its save.    *)
THEOREM CancelCorrect ==
  ASSUME ~StoreYields
  PROVE  Spec => CancelWins
<1> USE ConstantsAssumption
<1> DEFINE Kept == \A t \in Tasks : store[t].status = "cancelled" => store'[t].status # "assigned"
<1>1. MInv /\ [Next]_vars => [Kept]_vars
  <2> SUFFICES ASSUME MInv, [Next]_vars, NEW t \in Tasks,
                      store[t].status = "cancelled", store'[t].status = "assigned"
               PROVE  FALSE
    OBVIOUS
  <2>0. TypeOK /\ TypeInv /\ store' # store
    BY DEF MInv, TypeInv
  <2>1. ASSUME NEW u \in Tasks, SubmitSave(u) PROVE FALSE
    <3>1. WithStatus(Absent, "queued").status = "queued"
      BY AbsentRecord, StatusRecord DEF TaskStatus
    <3> QED BY <2>0, <2>1, <3>1 DEF SubmitSave, TypeOK
  <2>2. ASSUME NEW w \in Workers, ClaimSave(w) PROVE FALSE
    <3>1. w \in Coroutines /\ copy[w].status = "queued" /\ copy[w] = store[item[w]]
      BY <2>2 DEF ClaimSave, At, Coroutines, MInv, CoroutineOK
    <3> QED BY <2>0, <2>2, <3>1 DEF ClaimSave, TypeOK
  <2>3. ASSUME NEW c \in Workers \cup Clients, UpdateSave(c) PROVE FALSE
    <3>1. op[c] \in StatusOps /\ copy[c] \in StoredTask
      BY <2>0, <2>3 DEF TypeInv, TypeOK, LocalsOK, UpdateSave, At, StatusPC, Coroutines
    <3>2. NewStatus[op[c]] \in TaskStatus \ {"assigned"}
      BY <3>1 DEF NewStatus, StatusOps, TaskStatus
    <3>3. WithStatus(copy[c], NewStatus[op[c]]).status # "assigned"
      BY <3>1, <3>2, StatusRecord
    <3> QED BY <2>0, <2>3, <3>3 DEF UpdateSave, TypeOK
  <2>4. ASSUME NEW c \in Workers \cup Clients, FailSave(c) PROVE FALSE
    <3>1. copy[c].status = "failed" /\ copy[c] \in StoredTask
      BY <2>0, <2>4 DEF TypeInv, TypeOK, LocalsOK, FailSave, At, StatusPC, Coroutines
    <3>2. WithError(copy[c]).status = "failed"
      BY <3>1, ErrorRecord
    <3> QED BY <2>0, <2>4, <3>2 DEF FailSave, TypeOK
  <2>5. CASE SweepExpire
    <3>1. WithStatus(copy[Sweeper], "timeout").status = "timeout"
      BY <2>0, StatusRecord DEF TypeOK, Coroutines, TaskStatus
    <3> QED BY <2>0, <2>5, <3>1 DEF SweepExpire, TypeOK
  <2> QED
    BY <2>0, <2>1, <2>2, <2>3, <2>4, <2>5
    DEF Next, vars, Submit, SubmitCheck, SubmitAcquire, SubmitReject, SubmitPush, DeadlinePasses,
        Worker, ClaimAcquire, ClaimRest, ClaimGet, ClaimSkip, ClaimPublish, ClaimReturn,
        WorkerReports, UpdateGet, UpdateRest, UpdatePublish, Client, ClientCalls, Start, Stop,
        SweepAcquire, SweepRest, SweepStart, SweepGet, SweepFinish, AgentChanges, Abort
<1>2. Spec => [][Kept]_vars
  BY <1>1, InMemory, PTL DEF Spec
<1> QED BY <1>2 DEF CancelWins

=============================================================================
