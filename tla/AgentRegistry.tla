---------------------------- MODULE AgentRegistry ----------------------------
(***************************************************************************)
(* LORK's agent registry (LORK/lork/control_plane/agent_registry.py) and   *)
(* the controller that activates PENDING agents                            *)
(* (LORK/lork/controllers/agent_controller.py).                            *)
(*                                                                         *)
(* The registry has no lock: every method reads the store, builds a new    *)
(* record and saves it, with an await at each call.  As in Scheduler, a    *)
(* call of the store takes effect in the action that awaits it, and        *)
(* StoreYields tells a store that may suspend (TRUE) from the in-memory    *)
(* one (FALSE), behind which a method runs until it waits for the          *)
(* handlers of an event.                                                   *)
(***************************************************************************)
EXTENDS Integers, FiniteSets, Sequences

CONSTANTS
  Agents,        (* the ids that the calls of register will draw             *)
  Names,         (* valid agent names                                        *)
  Tenants,
  DefaultTenant, (* the tenant "default", the only one that is reconciled    *)
  Operators,     (* those who call activate, suspend, retire and so on       *)
  Controller,
  Limit,         (* how many agents the controller's list returns            *)
  StoreYields,
  MaxCalls,      (* bound on the calls of Operators                          *)
  MaxStops,      (* bound on the calls of the controller's stop              *)
  None

Callers == Operators \cup {Controller}

Coroutines == Agents \cup Callers

Transitions == {"activate", "suspend", "retire"}

Methods == Transitions \cup {"update_permissions"}

ASSUME RegistryAssumption ==
  /\ DefaultTenant \in Tenants
  /\ Limit \in Nat
  /\ StoreYields \in BOOLEAN
  /\ MaxCalls \in Nat
  /\ MaxStops \in Nat
  /\ IsFiniteSet(Agents)
  /\ Agents \cap Callers = {}
  /\ Controller \notin Operators
  /\ None \notin Agents \cup Methods

VARIABLES
  store,    (* the agent store                                               *)
  pc,       (* where each coroutine will resume                              *)
  item,     (* the agent that each caller is at                              *)
  copy,     (* its copy of that agent's record                               *)
  op,       (* the method that it runs                                       *)
  todo,     (* _reconcile: the PENDING agents of the list not yet activated  *)
  running,  (* AgentController._running                                      *)
  log,      (* the lifecycle events of each agent, oldest first              *)
  calls,    (* calls of Operators so far                                     *)
  stops     (* calls of stop so far                                          *)

vars == <<store, pc, item, copy, op, todo, running, log, calls, stops>>

Status == {"pending", "active", "suspended", "retired"}

NewStatus == [activate |-> "active", suspend |-> "suspended", retire |-> "retired"]

(* The event's name is the name of the status it announces.                *)
Lifecycle == {"registered", "active", "suspended", "retired"}

(* perms says whether update_permissions ever changed the permissions.     *)
Record == [status : Status \cup {"absent"}, tenant : Tenants, name : Names,
           perms : BOOLEAN, created : Nat]

(* The places of a register call, of an operator and of the controller.    *)
RegisterPC == {"new", "saving", "publish", "done", "refused"}
MethodPC == {"save", "publish"}
OperatorPC == {"idle"} \cup MethodPC
ControllerPC == {"off", "asleep", "loop", "handlers"} \cup MethodPC

(* The places inside a method with no await left but those of the store.   *)
AtStore == {"saving", "publish", "save", "loop"}

MayRun(c) == StoreYields \/ \A d \in Coroutines \ {c} : pc[d] \notin AtStore

TypeOK ==
  /\ store \in [Agents -> Record]
  /\ pc \in [Coroutines -> RegisterPC \cup OperatorPC \cup ControllerPC]
  /\ \A a \in Agents : pc[a] \in RegisterPC
  /\ \A c \in Operators : pc[c] \in OperatorPC
  /\ pc[Controller] \in ControllerPC
  /\ item \in [Callers -> Agents \cup {None}]
  /\ copy \in [Callers -> Record \cup {None}]
  /\ op \in [Callers -> Methods \cup {None}]
  /\ op[Controller] \in {"activate", None}
  /\ \A c \in Callers : pc[c] \in MethodPC =>
       /\ item[c] \in Agents /\ copy[c] \in Record /\ op[c] \in Methods
       /\ pc[c] = "publish" => op[c] \in Transitions
  /\ todo \subseteq Agents
  /\ running \in BOOLEAN
  /\ log \in [Agents -> Seq(Lifecycle)]
  /\ calls \in Nat
  /\ stops \in Nat

(* The arguments of each call of register are settled from the start.      *)
Init ==
  /\ store \in [Agents -> [status : {"absent"}, tenant : Tenants, name : Names,
                           perms : {FALSE}, created : {0}]]
  /\ pc = [c \in Coroutines |->
             IF c \in Agents THEN "new" ELSE IF c = Controller THEN "off" ELSE "idle"]
  /\ item = [c \in Callers |-> None]
  /\ copy = [c \in Callers |-> None]
  /\ op = [c \in Callers |-> None]
  /\ todo = {}
  /\ running = FALSE
  /\ log = [a \in Agents |-> <<>>]
  /\ calls = 0
  /\ stops = 0

locals == <<item, copy, op>>

Local(c, a, record, method) ==
  /\ item' = [item EXCEPT ![c] = a]
  /\ copy' = [copy EXCEPT ![c] = record]
  /\ op' = [op EXCEPT ![c] = method]

control == <<todo, running, stops>>

At(c, place) == pc[c] = place /\ MayRun(c)

Goto(c, place) == pc' = [pc EXCEPT ![c] = place]

Publish(a, type) == log' = [log EXCEPT ![a] = Append(@, type)]

Present == {a \in Agents : store[a].status # "absent"}

-----------------------------------------------------------------------------
(* register.  A name that is not valid is refused before anything is read. *)

SameName(a, b) == store[a].tenant = store[b].tenant /\ store[a].name = store[b].name

(* Mutant: only agents that can run count as existing.                     *)
ExistsActive(a) == \E b \in Present : SameName(a, b) /\ store[b].status = "active"

(* get_by_name *)
Exists(a) == \E b \in Present : SameName(a, b)

RegisterLookup(a) ==
  /\ At(a, "new")
  /\ Goto(a, IF Exists(a) THEN "refused" ELSE "saving")
  /\ UNCHANGED <<store, locals, control, log, calls>>

RegisterSave(a) ==
  /\ At(a, "saving")
  /\ store' = [store EXCEPT ![a].status = "pending", ![a].created = Cardinality(Present) + 1]
  /\ Goto(a, "publish")
  /\ UNCHANGED <<locals, control, log, calls>>

RegisterPublish(a) ==
  /\ At(a, "publish")
  /\ Publish(a, "registered")
  /\ Goto(a, "done")
  /\ UNCHANGED <<store, locals, control, calls>>

-----------------------------------------------------------------------------
(* activate, suspend, retire and update_permissions.                       *)

(* _require_agent; for an absent agent the method raises.                  *)
Require(c, method, a) ==
  /\ a \in Present
  /\ Local(c, a, store[a], method)
  /\ Goto(c, "save")

(* Mutant: model_copy checks nothing, and takes the method's name.         *)
UpdatedUnchecked(record, method) ==
  IF method \in Transitions
  THEN [record EXCEPT !.status = method]
  ELSE [record EXCEPT !.perms = TRUE]

(* Mutant: the record is built anew, with the default status.              *)
UpdatedAnew(record, method) ==
  IF method \in Transitions
  THEN [record EXCEPT !.status = NewStatus[method]]
  ELSE [record EXCEPT !.perms = TRUE, !.status = "pending"]

(* model_copy(update=...).  _transition has no guard.                      *)
Updated(record, method) ==
  IF method \in Transitions
  THEN [record EXCEPT !.status = NewStatus[method]]
  ELSE [record EXCEPT !.perms = TRUE]

MethodSave(c) ==
  /\ At(c, "save")
  /\ store' = [store EXCEPT ![item[c]] = Updated(copy[c], op[c])]
  /\ IF op[c] \in Transitions
     THEN Goto(c, "publish") /\ UNCHANGED locals
     ELSE Goto(c, "idle") /\ Local(c, None, None, None)
  /\ UNCHANGED <<control, log, calls>>

(* Mutant: every transition is announced as an activation.                 *)
PublishActivated(c) ==
  /\ At(c, "publish")
  /\ Publish(item[c], "active")
  /\ Goto(c, IF c = Controller THEN "handlers" ELSE "idle")
  /\ Local(c, None, None, None)
  /\ UNCHANGED <<store, control, calls>>

(* The controller goes on with its loop once the handlers are done.        *)
MethodPublish(c) ==
  /\ At(c, "publish")
  /\ Publish(item[c], NewStatus[op[c]])
  /\ Goto(c, IF c = Controller THEN "handlers" ELSE "idle")
  /\ Local(c, None, None, None)
  /\ UNCHANGED <<store, control, calls>>

OperatorCalls(c) ==
  /\ At(c, "idle")
  /\ calls < MaxCalls
  /\ \E a \in Agents, method \in Methods : Require(c, method, a)
  /\ calls' = calls + 1
  /\ UNCHANGED <<store, control, log>>

-----------------------------------------------------------------------------
(* AgentController.                                                        *)

Older(S, a) == {b \in S : store[b].created < store[a].created}

(* Mutant: off by one at the limit.                                        *)
ListOneShort ==
  LET ofTenant == {a \in Present : store[a].tenant = DefaultTenant}
      listed == {a \in ofTenant : Cardinality(Older(ofTenant, a)) < Limit - 1}
  IN  todo' = {a \in listed : store[a].status = "pending"}

(* list_by_tenant: the oldest Limit agents of the tenant, whatever their   *)
(* status; the loop activates those that were PENDING.                     *)
List ==
  LET ofTenant == {a \in Present : store[a].tenant = DefaultTenant}
      listed == {a \in ofTenant : Cardinality(Older(ofTenant, a)) < Limit}
  IN  todo' = {a \in listed : store[a].status = "pending"}

ControllerStart ==
  /\ At(Controller, "off")
  /\ running' = TRUE
  /\ List
  /\ Goto(Controller, "loop")
  /\ UNCHANGED <<store, locals, log, calls, stops>>

ControllerWake ==
  /\ At(Controller, "asleep")
  /\ IF running THEN List /\ Goto(Controller, "loop") ELSE Goto(Controller, "off") /\ UNCHANGED todo
  /\ UNCHANGED <<store, locals, running, log, calls, stops>>

ControllerActivates ==
  /\ pc[Controller] \in {"loop", "handlers"} /\ MayRun(Controller)
  /\ \E a \in todo :
       /\ Older(todo, a) = {}
       /\ todo' = todo \ {a}
       /\ Require(Controller, "activate", a)
  /\ UNCHANGED <<store, running, log, calls, stops>>

ControllerSleeps ==
  /\ pc[Controller] \in {"loop", "handlers"} /\ MayRun(Controller)
  /\ todo = {}
  /\ Goto(Controller, "asleep")
  /\ UNCHANGED <<store, locals, control, log, calls>>

(* The loop sees it when it wakes.                                         *)
ControllerStop ==
  /\ MayRun(Controller)
  /\ running
  /\ stops < MaxStops
  /\ running' = FALSE
  /\ stops' = stops + 1
  /\ UNCHANGED <<store, pc, locals, todo, log, calls>>

-----------------------------------------------------------------------------

Register(a) == RegisterLookup(a) \/ RegisterSave(a) \/ RegisterPublish(a)

Method(c) == MethodSave(c) \/ MethodPublish(c)

Reconcile ==
  ControllerWake \/ ControllerActivates \/ ControllerSleeps \/ Method(Controller)

Next ==
  \/ \E a \in Agents : Register(a)
  \/ \E c \in Operators : OperatorCalls(c) \/ Method(c)
  \/ ControllerStart \/ ControllerStop \/ Reconcile

Spec == Init /\ [][Next]_vars

(* The event loop runs every call to its end and the controller's loop     *)
(* turns for ever.                                                         *)
Fairness ==
  /\ \A a \in Agents : WF_vars(RegisterSave(a) \/ RegisterPublish(a))
  /\ \A c \in Operators : WF_vars(Method(c))
  /\ WF_vars(Reconcile)

FairSpec == Spec /\ Fairness

-----------------------------------------------------------------------------
(* Behind the in-memory store: what no interleaving of calls may break.    *)

(* register lets no tenant have two agents of one name, though it looks    *)
(* the name up and saves the agent in two calls of the store.              *)
NamesUnique == \A a, b \in Present : SameName(a, b) => a = b

(* Every method saves back a whole record that it read before, yet changes *)
(* of it only what it is for: a change of status keeps the permissions,    *)
(* one of permissions the status, nobody gets permissions back or becomes  *)
(* PENDING again.  It is not said that a status stays: the controller      *)
(* activates from its list an agent suspended or retired since.            *)
ChangesItsOwn ==
  [][\A a \in Present :
       /\ store'[a].status # store[a].status =>
            store'[a].perms = store[a].perms /\ store'[a].status # "pending"
       /\ store'[a].perms # store[a].perms =>
            store'[a].status = store[a].status /\ store'[a].perms]_vars

Quiet == \A c \in Coroutines : pc[c] \notin AtStore

Announced == [pending |-> "registered", active |-> "active", suspended |-> "suspended",
              retired |-> "retired"]

(* Between two calls the last lifecycle event of an agent announces the    *)
(* status it has, so a reader of the log knows who may run.                *)
LastEventAgrees ==
  Quiet => \A a \in Present :
    log[a] # <<>> /\ log[a][Len(log[a])] = Announced[store[a].status]

(* The controller's docstring: it continuously reconciles agent state with *)
(* desired state.  A PENDING agent of the default tenant does not stay     *)
(* PENDING while the controller runs.                                      *)
Reconciled ==
  \A a \in Agents :
    (store[a].status = "pending" /\ store[a].tenant = DefaultTenant /\ running)
      ~> (store[a].status # "pending" \/ ~running)

=============================================================================
