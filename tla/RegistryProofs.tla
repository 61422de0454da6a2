---------------------------- MODULE RegistryProofs ----------------------------
(***************************************************************************)
(* What holds of the agent registry for any number of agents and callers:  *)
(* its types behind every store, and behind the in-memory store that no    *)
(* interleaving of its methods breaks a name, a record or the log.         *)
(***************************************************************************)
EXTENDS AgentRegistry, FiniteSetTheorems, TLAPS

-----------------------------------------------------------------------------
(* Types.                                                                  *)

LEMMA PresentSize ==
  ASSUME TypeOK
  PROVE  Cardinality(Present) + 1 \in Nat
<1>1. Present \subseteq Agents
  BY DEF Present
<1> QED BY <1>1, RegistryAssumption, FS_Subset, FS_CardinalityType

LEMMA UpdatedType ==
  ASSUME NEW record \in Record, NEW method \in Methods
  PROVE  /\ Updated(record, method) \in Record
         /\ Updated(record, method).tenant = record.tenant
         /\ Updated(record, method).name = record.name
         /\ record.status # "absent" => Updated(record, method).status # "absent"
         /\ method \in Transitions =>
              /\ Updated(record, method).status = NewStatus[method]
              /\ Updated(record, method).status # "pending"
              /\ Updated(record, method).perms = record.perms
         /\ method \notin Transitions =>
              Updated(record, method).status = record.status /\ Updated(record, method).perms
<1>1. CASE method \in Transitions
  <2>1. NewStatus[method] \in Status \ {"pending"}
    BY <1>1 DEF Transitions, NewStatus, Status
  <2>2. Updated(record, method) = [record EXCEPT !.status = NewStatus[method]]
    BY <1>1 DEF Updated
  <2> QED BY <1>1, <2>1, <2>2 DEF Record, Status
<1>2. CASE method \notin Transitions
  <2>1. Updated(record, method) = [record EXCEPT !.perms = TRUE]
    BY <1>2 DEF Updated
  <2> QED BY <1>2, <2>1 DEF Record
<1> QED BY <1>1, <1>2

(* Where the callers of the methods are, and with which locals.            *)
PlacesOK(place) ==
  /\ place \in [Coroutines -> RegisterPC \cup OperatorPC \cup ControllerPC]
  /\ \A a \in Agents : place[a] \in RegisterPC
  /\ \A c \in Operators : place[c] \in OperatorPC
  /\ place[Controller] \in ControllerPC

LEMMA GotoType ==
  ASSUME TypeOK, NEW c \in Coroutines, NEW place, Goto(c, place),
         \/ c \in Agents /\ place \in RegisterPC
         \/ c \in Operators /\ place \in OperatorPC
         \/ c = Controller /\ place \in ControllerPC
  PROVE  /\ PlacesOK(pc')
         /\ pc'[c] = place
         /\ \A d \in Coroutines \ {c} : pc'[d] = pc[d]
BY RegistryAssumption DEF TypeOK, Goto, Coroutines, Callers, PlacesOK

LEMMA LocalType ==
  ASSUME TypeOK, NEW c \in Callers, NEW a \in Agents \cup {None}, NEW record \in Record \cup {None},
         NEW method \in Methods \cup {None}, Local(c, a, record, method)
  PROVE  /\ item' \in [Callers -> Agents \cup {None}]
         /\ copy' \in [Callers -> Record \cup {None}]
         /\ op' \in [Callers -> Methods \cup {None}]
         /\ item'[c] = a /\ copy'[c] = record /\ op'[c] = method
         /\ \A d \in Callers \ {c} : item'[d] = item[d] /\ copy'[d] = copy[d] /\ op'[d] = op[d]
BY DEF TypeOK, Local

LEMMA InitType == Init => TypeOK
<1> SUFFICES ASSUME Init PROVE TypeOK
  OBVIOUS
<1>1. store \in [Agents -> Record]
  <2>1. [status : {"absent"}, tenant : Tenants, name : Names, perms : {FALSE}, created : {0}]
          \subseteq Record
    <3> SUFFICES ASSUME NEW r \in [status : {"absent"}, tenant : Tenants, name : Names,
                                   perms : {FALSE}, created : {0}]
                 PROVE  r \in Record
      OBVIOUS
    <3>1. r = [status |-> "absent", tenant |-> r.tenant, name |-> r.name, perms |-> FALSE,
               created |-> 0]
      OBVIOUS
    <3>2. r.tenant \in Tenants /\ r.name \in Names
      OBVIOUS
    <3>3. \A t \in Tenants, n \in Names :
            [status |-> "absent", tenant |-> t, name |-> n, perms |-> FALSE, created |-> 0] \in Record
      BY DEF Record
    <3> QED BY <3>1, <3>2, <3>3, Zenon
  <2> QED BY <2>1 DEF Init
<1>2. PlacesOK(pc) /\ \A c \in Callers : pc[c] \notin MethodPC
  BY RegistryAssumption
  DEF Init, PlacesOK, Coroutines, Callers, RegisterPC, OperatorPC, ControllerPC, MethodPC
<1>3. /\ item \in [Callers -> Agents \cup {None}]
      /\ copy \in [Callers -> Record \cup {None}]
      /\ op \in [Callers -> Methods \cup {None}] /\ op[Controller] = None
      /\ log \in [Agents -> Seq(Lifecycle)]
  BY DEF Init, Callers
<1> QED BY <1>1, <1>2, <1>3 DEF Init, TypeOK, PlacesOK

LEMMA RegisterType ==
  ASSUME TypeOK, NEW a \in Agents, Register(a)
  PROVE  TypeOK'
<1> USE RegistryAssumption
<1>0. a \in Coroutines /\ a \notin Callers
  BY DEF Coroutines
<1>1. store' \in [Agents -> Record]
  <2>1. CASE RegisterSave(a)
    <3>1. [store[a] EXCEPT !.status = "pending", !.created = Cardinality(Present) + 1] \in Record
      <4>1. store[a] \in Record
        BY DEF TypeOK
      <4> QED BY <4>1, PresentSize DEF Record, Status
    <3>2. store' = [store EXCEPT ![a] =
                      [store[a] EXCEPT !.status = "pending", !.created = Cardinality(Present) + 1]]
      BY <2>1 DEF RegisterSave, TypeOK
    <3> QED BY <3>1, <3>2 DEF TypeOK
  <2> QED BY <2>1 DEF Register, RegisterLookup, RegisterPublish, TypeOK
<1>2. log' \in [Agents -> Seq(Lifecycle)]
  <2>1. CASE RegisterPublish(a)
    BY <2>1 DEF RegisterPublish, Publish, TypeOK, Lifecycle
  <2> QED BY <2>1 DEF Register, RegisterLookup, RegisterSave, TypeOK
<1>3. PlacesOK(pc') /\ \A d \in Coroutines \ {a} : pc'[d] = pc[d]
  BY <1>0, GotoType DEF Register, RegisterLookup, RegisterSave, RegisterPublish, RegisterPC
<1>4. UNCHANGED <<item, copy, op, todo, running, calls, stops>>
  BY DEF Register, RegisterLookup, RegisterSave, RegisterPublish, locals, control
<1>5. \A c \in Callers : pc'[c] = pc[c]
  BY <1>0, <1>3 DEF Coroutines
<1> QED BY <1>1, <1>2, <1>3, <1>4, <1>5 DEF TypeOK, PlacesOK

LEMMA MethodType ==
  ASSUME TypeOK, NEW c \in Callers, Method(c)
  PROVE  TypeOK'
<1> USE RegistryAssumption
<1>0. c \in Coroutines /\ c \notin Agents /\ (c \in Operators \/ c = Controller)
  BY DEF Coroutines, Callers
<1>1. item[c] \in Agents /\ copy[c] \in Record /\ op[c] \in Methods
  BY DEF TypeOK, Method, MethodSave, MethodPublish, At, MethodPC
<1>2. UNCHANGED <<todo, running, calls, stops>>
  BY DEF Method, MethodSave, MethodPublish, control
<1>3. store' \in [Agents -> Record] /\ log' \in [Agents -> Seq(Lifecycle)]
  <2>1. CASE MethodSave(c)
    BY <1>1, <2>1, UpdatedType DEF MethodSave, TypeOK
  <2>2. CASE MethodPublish(c)
    <3>1. op[c] \in Transitions
      BY <2>2 DEF TypeOK, MethodPublish, At, MethodPC
    <3>2. NewStatus[op[c]] \in Lifecycle
      BY <3>1 DEF NewStatus, Transitions, Lifecycle
    <3> QED BY <1>1, <2>2, <3>2 DEF MethodPublish, Publish, TypeOK
  <2> QED BY <2>1, <2>2 DEF Method
(* Either the locals stay and the call is at its event, or it has ended.   *)
<1>4. CASE UNCHANGED <<item, copy, op>> /\ Goto(c, "publish") /\ op[c] \in Transitions
  <2>1. PlacesOK(pc') /\ pc'[c] = "publish" /\ \A d \in Coroutines \ {c} : pc'[d] = pc[d]
    BY <1>0, <1>4, GotoType DEF OperatorPC, ControllerPC, MethodPC
  <2> QED BY <1>0, <1>1, <1>2, <1>3, <1>4, <2>1 DEF TypeOK, PlacesOK, Coroutines, Callers
<1>5. CASE Local(c, None, None, None)
           /\ \E place \in {"idle", "handlers"} :
                Goto(c, place) /\ (c = Controller => place = "handlers")
                               /\ (c # Controller => place = "idle")
  <2>1. PICK place \in {"idle", "handlers"} :
          Goto(c, place) /\ (c = Controller => place = "handlers")
                         /\ (c # Controller => place = "idle")
    BY <1>5
  <2>2. PlacesOK(pc') /\ pc'[c] = place /\ \A d \in Coroutines \ {c} : pc'[d] = pc[d]
    BY <1>0, <2>1, GotoType DEF OperatorPC, ControllerPC
  <2>3. /\ item' \in [Callers -> Agents \cup {None}]
        /\ copy' \in [Callers -> Record \cup {None}]
        /\ op' \in [Callers -> Methods \cup {None}]
        /\ op'[c] = None
        /\ \A d \in Callers \ {c} : item'[d] = item[d] /\ copy'[d] = copy[d] /\ op'[d] = op[d]
    BY <1>5, LocalType
  <2>4. \A d \in Callers : pc'[d] \in MethodPC =>
          item'[d] \in Agents /\ copy'[d] \in Record /\ op'[d] \in Methods
               /\ (pc'[d] = "publish" => op'[d] \in Transitions)
    BY <2>1, <2>2, <2>3 DEF TypeOK, MethodPC, Coroutines
  <2>5. op'[Controller] \in {"activate", None}
    BY <2>3 DEF TypeOK, Callers
  <2> QED BY <1>2, <1>3, <2>2, <2>3, <2>4, <2>5 DEF TypeOK, PlacesOK
<1>6. CASE MethodSave(c)
  <2>1. c = Controller => op[c] \in Transitions
    BY <1>1 DEF TypeOK, Transitions, Methods
  <2> QED BY <1>4, <1>5, <1>6, <2>1 DEF MethodSave, locals
<1>7. CASE MethodPublish(c)
  BY <1>5, <1>7 DEF MethodPublish
<1> QED BY <1>6, <1>7 DEF Method

LEMMA RequireType ==
  ASSUME TypeOK, NEW c \in Callers, NEW method \in Methods, NEW a \in Agents,
         Require(c, method, a), c = Controller => method = "activate",
         UNCHANGED <<store, log, running, stops>>, todo' \subseteq Agents, calls' \in Nat
  PROVE  TypeOK'
<1> USE RegistryAssumption
<1>0. c \in Coroutines /\ c \notin Agents /\ (c \in Operators \/ c = Controller)
      /\ store[a] \in Record
  BY DEF Coroutines, Callers, TypeOK
<1>1. /\ item' \in [Callers -> Agents \cup {None}]
      /\ copy' \in [Callers -> Record \cup {None}]
      /\ op' \in [Callers -> Methods \cup {None}]
      /\ item'[c] = a /\ copy'[c] = store[a] /\ op'[c] = method
      /\ \A d \in Callers \ {c} : item'[d] = item[d] /\ copy'[d] = copy[d] /\ op'[d] = op[d]
  BY <1>0, LocalType DEF Require
<1>2. PlacesOK(pc') /\ pc'[c] = "save" /\ \A d \in Coroutines \ {c} : pc'[d] = pc[d]
  BY <1>0, GotoType DEF Require, OperatorPC, ControllerPC, MethodPC
<1>3. \A d \in Callers : pc'[d] \in MethodPC =>
        item'[d] \in Agents /\ copy'[d] \in Record /\ op'[d] \in Methods
        /\ (pc'[d] = "publish" => op'[d] \in Transitions)
  BY <1>0, <1>1, <1>2 DEF TypeOK, Coroutines
<1>4. op'[Controller] \in {"activate", None}
  BY <1>1 DEF TypeOK, Callers
<1> QED BY <1>1, <1>2, <1>3, <1>4 DEF TypeOK, PlacesOK

LEMMA ControllerType ==
  ASSUME TypeOK, ControllerStart \/ ControllerWake \/ ControllerSleeps \/ ControllerStop
  PROVE  TypeOK'
<1> USE RegistryAssumption
<1>0. Controller \in Coroutines /\ Controller \in Callers
  BY DEF Coroutines, Callers
<1>1. UNCHANGED <<store, item, copy, op, log, calls>>
  BY DEF ControllerStart, ControllerWake, ControllerSleeps, ControllerStop, locals
<1>2. todo' \subseteq Agents /\ running' \in BOOLEAN /\ stops' \in Nat
  <2>1. List => todo' \subseteq Agents
    BY DEF List, Present
  <2>2. CASE ControllerStart
    BY <2>1, <2>2 DEF ControllerStart, TypeOK
  <2>3. CASE ControllerWake
    BY <2>1, <2>3 DEF ControllerWake, TypeOK
  <2>4. CASE ControllerSleeps
    BY <2>4 DEF ControllerSleeps, TypeOK, control
  <2>5. CASE ControllerStop
    <3>1. running' = FALSE /\ todo' = todo /\ stops' = stops + 1
      BY <2>5 DEF ControllerStop
    <3>2. running' \in BOOLEAN
      BY <3>1, Zenon
    <3> QED BY <3>1, <3>2 DEF TypeOK
  <2> QED BY <2>2, <2>3, <2>4, <2>5
<1>3. UNCHANGED pc \/ \E place \in {"loop", "off", "asleep"} : Goto(Controller, place)
  BY DEF ControllerStart, ControllerWake, ControllerSleeps, ControllerStop
<1>4. PlacesOK(pc') /\ \A d \in Callers : pc'[d] \in MethodPC => pc'[d] = pc[d]
  <2>1. CASE UNCHANGED pc
    BY <2>1 DEF TypeOK, PlacesOK
  <2>2. ASSUME NEW place \in {"loop", "off", "asleep"}, Goto(Controller, place)
        PROVE  PlacesOK(pc') /\ \A d \in Callers : pc'[d] \in MethodPC => pc'[d] = pc[d]
    <3>1. PlacesOK(pc') /\ pc'[Controller] = place
          /\ \A d \in Coroutines \ {Controller} : pc'[d] = pc[d]
      BY <1>0, <2>2, GotoType DEF ControllerPC
    <3> QED BY <3>1 DEF MethodPC, Coroutines
  <2> QED BY <1>3, <2>1, <2>2
<1> QED BY <1>1, <1>2, <1>4 DEF TypeOK, PlacesOK

LEMMA NextType == TypeOK /\ [Next]_vars => TypeOK'
<1> USE RegistryAssumption
<1> SUFFICES ASSUME TypeOK, [Next]_vars PROVE TypeOK'
  OBVIOUS
<1>1. ASSUME NEW c \in Operators, OperatorCalls(c) PROVE TypeOK'
  <2>1. PICK a \in Agents, method \in Methods : Require(c, method, a)
    BY <1>1 DEF OperatorCalls
  <2>2. c \in Callers /\ c # Controller
    BY DEF Callers
  <2> QED BY <1>1, <2>1, <2>2, RequireType DEF OperatorCalls, TypeOK, control
<1>2. CASE ControllerActivates
  <2>1. PICK a \in todo : todo' = todo \ {a} /\ Require(Controller, "activate", a)
    BY <1>2 DEF ControllerActivates
  <2>2. a \in Agents /\ Controller \in Callers /\ "activate" \in Methods
    BY <2>1 DEF TypeOK, Callers, Methods, Transitions
  <2> QED BY <1>2, <2>1, <2>2, RequireType DEF ControllerActivates, TypeOK
<1>3. ASSUME NEW c \in Callers, Method(c) PROVE TypeOK'
  BY <1>3, MethodType
<1>4. CASE UNCHANGED vars
  BY <1>4 DEF vars, TypeOK
<1> QED
  BY <1>1, <1>2, <1>3, <1>4, RegisterType, ControllerType DEF Next, Reconcile, Callers

(* Every variable keeps its type, whatever the store and the interleaving: *)
(* a caller inside a method knows its agent, its copy and its method.      *)
THEOREM RegistryTypeCorrect == Spec => []TypeOK
BY InitType, NextType, PTL DEF Spec

-----------------------------------------------------------------------------
(* The in-memory store.                                                    *)

(* One coroutine at most is between two calls of the store, so what it has *)
(* read is still so when it saves.                                         *)
OneAtStore ==
  \A c, d \in Coroutines : pc[c] \in AtStore /\ pc[d] \in AtStore => c = d

StoredInv == \A a \in Agents : a \in Present <=> pc[a] \in {"publish", "done"}

FreshInv == \A a \in Agents : pc[a] = "saving" => ~Exists(a)

CopyInv ==
  \A c \in Callers : pc[c] = "save" => item[c] \in Present /\ copy[c] = store[item[c]]

LastIs(a, type) == log[a] # <<>> /\ log[a][Len(log[a])] = type

(* The log agrees with the record unless the event is about to come.       *)
AnnounceInv ==
  /\ \A a \in Agents : pc[a] = "publish" => store[a].status = "pending"
  /\ \A c \in Callers : pc[c] = "publish" =>
       item[c] \in Present /\ store[item[c]].status = NewStatus[op[c]]
  /\ \A a \in Present :
       \/ pc[a] = "publish"
       \/ \E c \in Callers : pc[c] = "publish" /\ item[c] = a
       \/ LastIs(a, Announced[store[a].status])

MemoryInv ==
  /\ TypeOK
  /\ OneAtStore
  /\ StoredInv
  /\ FreshInv
  /\ CopyInv
  /\ AnnounceInv
  /\ NamesUnique

LEMMA PublishLast ==
  ASSUME TypeOK, NEW a \in Agents, NEW type \in Lifecycle, Publish(a, type)
  PROVE  /\ log'[a] # <<>> /\ log'[a][Len(log'[a])] = type
         /\ \A b \in Agents \ {a} : log'[b] = log[b]
<1>1. log[a] \in Seq(Lifecycle) /\ log'[a] = Append(log[a], type)
      /\ \A b \in Agents \ {a} : log'[b] = log[b]
  BY DEF TypeOK, Publish
<1>2. Len(log'[a]) = Len(log[a]) + 1 /\ log'[a][Len(log[a]) + 1] = type /\ Len(log[a]) \in Nat
  BY <1>1
<1>3. log'[a] # <<>>
  BY <1>2
<1> QED BY <1>1, <1>2, <1>3

LEMMA Alone ==
  ASSUME ~StoreYields, NEW c \in Coroutines, MayRun(c)
  PROVE  \A d \in Coroutines \ {c} : pc[d] \notin AtStore
BY DEF MayRun

LEMMA RegisterMemory ==
  ASSUME ~StoreYields, MemoryInv, TypeOK', NEW a \in Agents, Register(a)
  PROVE  MemoryInv'
<1> USE RegistryAssumption
<1>0. a \in Coroutines /\ a \notin Callers /\ TypeOK /\ Callers \subseteq Coroutines
  BY DEF MemoryInv, Coroutines
<1>1. MayRun(a) /\ \A d \in Coroutines \ {a} : pc[d] \notin AtStore /\ pc'[d] = pc[d]
  BY <1>0, Alone
  DEF Register, RegisterLookup, RegisterSave, RegisterPublish, At, Goto, TypeOK
<1>2. OneAtStore'
  BY <1>1 DEF OneAtStore
<1>3. \A c \in Callers : pc'[c] \notin {"save", "publish"} /\ pc[c] \notin {"save", "publish"}
  BY <1>0, <1>1 DEF AtStore
<1>4. \A b \in Agents \ {a} : pc'[b] = pc[b] /\ pc'[b] \notin {"saving", "publish"}
  BY <1>1 DEF AtStore, Coroutines
<1>5. CopyInv'
  BY <1>3 DEF CopyInv
<1>6. CASE RegisterLookup(a)
  <2>1. /\ UNCHANGED <<store, log>> /\ pc[a] = "new" /\ pc'[a] \in {"refused", "saving"}
        /\ pc'[a] = "saving" => ~Exists(a)
    BY <1>0, <1>6 DEF RegisterLookup, At, Goto, TypeOK
  <2>2. Present' = Present /\ \A b \in Agents : Exists(b)' <=> Exists(b)
    BY <2>1 DEF Present, Exists, SameName
  <2>3. StoredInv'
    BY <1>4, <2>1, <2>2 DEF MemoryInv, StoredInv
  <2>4. FreshInv'
    BY <1>4, <2>1, <2>2 DEF FreshInv
  <2>5. AnnounceInv'
    <3>1. \A b \in Present : LastIs(b, Announced[store[b].status])
      BY <1>3, <1>4, <2>1 DEF MemoryInv, AnnounceInv, StoredInv, Present
    <3> QED BY <1>3, <1>4, <2>1, <2>2, <3>1 DEF AnnounceInv, LastIs
  <2>6. NamesUnique'
    BY <2>1, <2>2 DEF MemoryInv, NamesUnique, SameName
  <2> QED BY <1>2, <1>5, <2>3, <2>4, <2>5, <2>6 DEF MemoryInv
<1>7. CASE RegisterSave(a)
  <2>1. /\ UNCHANGED log /\ pc[a] = "saving" /\ pc'[a] = "publish"
        /\ store'[a].status = "pending" /\ store'[a].tenant = store[a].tenant
        /\ store'[a].name = store[a].name
        /\ \A b \in Agents \ {a} : store'[b] = store[b]
    <3>1. store[a] \in Record
      BY <1>0 DEF TypeOK
    <3>2. store' = [store EXCEPT ![a] =
                      [store[a] EXCEPT !.status = "pending", !.created = Cardinality(Present) + 1]]
      BY <1>0, <1>7 DEF RegisterSave, TypeOK
    <3> QED BY <1>0, <1>7, <3>1, <3>2 DEF RegisterSave, At, Goto, TypeOK, Record
  <2>2. a \notin Present /\ Present' = Present \cup {a}
    BY <2>1 DEF MemoryInv, StoredInv, Present
  <2>3. StoredInv'
    BY <1>4, <2>1, <2>2 DEF MemoryInv, StoredInv
  <2>4. FreshInv'
    BY <1>4, <2>1 DEF FreshInv
  <2>5. \A b \in Present : LastIs(b, Announced[store[b].status]) /\ b # a /\ b \in Agents
    BY <1>3, <1>4, <2>1, <2>2 DEF MemoryInv, AnnounceInv, Present
  <2>6. AnnounceInv'
    BY <1>3, <1>4, <2>1, <2>2, <2>5 DEF AnnounceInv, LastIs
  <2>7. NamesUnique'
    <3>1. \A b \in Present : ~SameName(b, a) /\ ~SameName(a, b)
      BY <2>1 DEF MemoryInv, FreshInv, Exists, SameName
    <3>2. \A b, c \in Agents : SameName(b, c)' <=> SameName(b, c)
      BY <2>1 DEF SameName
    <3>3. Present \subseteq Agents
      BY DEF Present
    <3> QED BY <2>2, <3>1, <3>2, <3>3 DEF MemoryInv, NamesUnique
  <2> QED BY <1>2, <1>5, <2>3, <2>4, <2>6, <2>7 DEF MemoryInv
<1>8. CASE RegisterPublish(a)
  <2>1. UNCHANGED store /\ pc[a] = "publish" /\ pc'[a] = "done" /\ Publish(a, "registered")
    BY <1>0, <1>8 DEF RegisterPublish, At, Goto, TypeOK
  <2>2. Present' = Present /\ Present \subseteq Agents
    BY <2>1 DEF Present
  <2>3. StoredInv'
    BY <1>4, <2>1, <2>2 DEF MemoryInv, StoredInv
  <2>4. FreshInv'
    BY <1>4, <2>1 DEF FreshInv
  <2>5. log'[a] # <<>> /\ log'[a][Len(log'[a])] = "registered" /\ \A b \in Agents \ {a} : log'[b] = log[b]
    BY <1>0, <2>1, PublishLast DEF Lifecycle
  <2>6. AnnounceInv'
    <3>1. \A b \in Present \ {a} : LastIs(b, Announced[store[b].status])
      BY <1>3, <1>4, <2>2 DEF MemoryInv, AnnounceInv
    <3>2. \A b \in Present \ {a} : LastIs(b, Announced[store[b].status])'
      BY <2>1, <2>2, <2>5, <3>1 DEF LastIs
    <3>3. store[a].status = "pending"
      BY <2>1 DEF MemoryInv, AnnounceInv
    <3>4. LastIs(a, Announced[store[a].status])'
      BY <2>1, <2>5, <3>3 DEF LastIs, Announced
    <3> QED BY <1>3, <1>4, <2>1, <2>2, <3>2, <3>4 DEF AnnounceInv
  <2>7. NamesUnique'
    BY <2>1, <2>2 DEF MemoryInv, NamesUnique, SameName
  <2> QED BY <1>2, <1>5, <2>3, <2>4, <2>6, <2>7 DEF MemoryInv
<1> QED BY <1>6, <1>7, <1>8 DEF Register

LEMMA MethodMemory ==
  ASSUME ~StoreYields, MemoryInv, TypeOK', NEW c \in Callers, Method(c)
  PROVE  MemoryInv'
<1> USE RegistryAssumption
<1>0. c \in Coroutines /\ c \notin Agents /\ TypeOK /\ Callers \subseteq Coroutines
      /\ Agents \subseteq Coroutines /\ Present \subseteq Agents
  BY DEF MemoryInv, Coroutines, Present
<1>1. MayRun(c) /\ \A d \in Coroutines \ {c} : pc[d] \notin AtStore /\ pc'[d] = pc[d]
  BY <1>0, Alone DEF Method, MethodSave, MethodPublish, At, Goto, TypeOK
<1>2. OneAtStore'
  BY <1>1 DEF OneAtStore
<1>3. \A d \in Callers \ {c} : pc'[d] \notin {"save", "publish"} /\ pc[d] \notin {"save", "publish"}
  BY <1>0, <1>1 DEF AtStore
<1>4. \A b \in Agents : pc'[b] = pc[b] /\ pc'[b] \notin {"saving", "publish"}
  BY <1>0, <1>1 DEF AtStore
<1>5. item[c] \in Agents /\ op[c] \in Methods /\ copy[c] \in Record
      /\ pc[c] \in {"save", "publish"}
  BY DEF MemoryInv, TypeOK, Method, MethodSave, MethodPublish, At, MethodPC
<1>6. PICK a \in Agents, method \in Methods : a = item[c] /\ method = op[c]
  BY <1>5
<1>7. CASE MethodSave(c)
  <2>1. pc[c] = "save" /\ UNCHANGED log /\ a \in Present /\ copy[c] = store[a]
    BY <1>6, <1>7 DEF MethodSave, At, MemoryInv, CopyInv
  <2>2. /\ store'[a] = Updated(store[a], method)
        /\ \A b \in Agents \ {a} : store'[b] = store[b]
    BY <1>0, <1>6, <1>7, <2>1 DEF MethodSave, TypeOK
  <2>3. /\ store'[a].tenant = store[a].tenant /\ store'[a].name = store[a].name
        /\ store'[a].status # "absent"
        /\ method \in Transitions => store'[a].status = NewStatus[method]
        /\ method \notin Transitions => store'[a].status = store[a].status
    BY <1>5, <2>1, <2>2, UpdatedType DEF Present
  <2>4. Present' = Present
    BY <2>1, <2>2, <2>3 DEF Present
  <2>5. StoredInv' /\ FreshInv'
    BY <1>4, <2>4 DEF MemoryInv, StoredInv, FreshInv
  <2>6. CopyInv'
    <3>1. pc'[c] # "save"
      BY <1>0, <1>7 DEF MethodSave, Goto, TypeOK
    <3> QED BY <1>3, <3>1 DEF CopyInv
  <2>7. \A b \in Present : LastIs(b, Announced[store[b].status])
    BY <1>0, <1>3, <1>4, <2>1 DEF MemoryInv, AnnounceInv
  <2>8. \A b \in Present \ {a} : LastIs(b, Announced[store[b].status])'
    BY <1>0, <2>1, <2>2, <2>7 DEF LastIs
  <2>9. AnnounceInv'
    <3>1. CASE method \in Transitions
      <4>1. pc'[c] = "publish" /\ item'[c] = a /\ op'[c] = method
        BY <1>0, <1>6, <1>7, <3>1 DEF MethodSave, Goto, TypeOK, locals
      <4> QED BY <1>3, <1>4, <2>1, <2>3, <2>4, <2>8, <3>1, <4>1 DEF AnnounceInv
    <3>2. CASE method \notin Transitions
      <4>1. pc'[c] = "idle"
        BY <1>0, <1>6, <1>7, <3>2 DEF MethodSave, Goto, TypeOK
      <4>2. LastIs(a, Announced[store[a].status])'
        BY <2>1, <2>3, <2>7, <3>2 DEF LastIs
      <4> QED BY <1>3, <1>4, <2>4, <2>8, <4>1, <4>2 DEF AnnounceInv
    <3> QED BY <3>1, <3>2
  <2>10. NamesUnique'
    <3>1. \A b, d \in Agents : SameName(b, d)' <=> SameName(b, d)
      BY <2>2, <2>3 DEF SameName
    <3> QED BY <1>0, <2>4, <3>1 DEF MemoryInv, NamesUnique
  <2> QED BY <1>2, <2>5, <2>6, <2>9, <2>10 DEF MemoryInv
<1>8. CASE MethodPublish(c)
  <2>1. /\ UNCHANGED store /\ pc[c] = "publish" /\ pc'[c] \in {"handlers", "idle"}
        /\ Publish(a, NewStatus[method])
    BY <1>0, <1>6, <1>8 DEF MethodPublish, At, Goto, TypeOK
  <2>2. Present' = Present /\ NamesUnique'
    BY <2>1 DEF Present, MemoryInv, NamesUnique, SameName
  <2>3. StoredInv' /\ FreshInv'
    BY <1>4, <2>2 DEF MemoryInv, StoredInv, FreshInv
  <2>4. CopyInv'
    BY <1>3, <2>1 DEF CopyInv
  <2>5. a \in Present /\ store[a].status = NewStatus[method] /\ method \in Transitions
    BY <1>6, <2>1 DEF MemoryInv, AnnounceInv, TypeOK, MethodPC
  <2>6. NewStatus[method] \in Lifecycle /\ Announced[NewStatus[method]] = NewStatus[method]
    BY <2>5 DEF NewStatus, Transitions, Lifecycle, Announced
  <2>7. /\ log'[a] # <<>> /\ log'[a][Len(log'[a])] = NewStatus[method]
        /\ \A b \in Agents \ {a} : log'[b] = log[b]
    BY <1>0, <2>1, <2>6, PublishLast
  <2>8. LastIs(a, Announced[store[a].status])'
    BY <2>1, <2>5, <2>6, <2>7 DEF LastIs
  <2>9. \A b \in Present \ {a} : LastIs(b, Announced[store[b].status])'
    <3>1. \A b \in Present \ {a} : LastIs(b, Announced[store[b].status])
      BY <1>0, <1>3, <1>4, <1>6 DEF MemoryInv, AnnounceInv
    <3> QED BY <1>0, <2>1, <2>7, <3>1 DEF LastIs
  <2>10. AnnounceInv'
    BY <1>3, <1>4, <2>1, <2>2, <2>8, <2>9 DEF AnnounceInv
  <2> QED BY <1>2, <2>2, <2>3, <2>4, <2>10 DEF MemoryInv
<1> QED BY <1>7, <1>8 DEF Method

LEMMA RequireMemory ==
  ASSUME ~StoreYields, MemoryInv, TypeOK', NEW c \in Callers, pc[c] \notin MethodPC,
         NEW method \in Methods, NEW a \in Agents, MayRun(c), Require(c, method, a),
         UNCHANGED <<store, log>>
  PROVE  MemoryInv'
<1> USE RegistryAssumption
<1>0. c \in Coroutines /\ c \notin Agents /\ TypeOK /\ Callers \subseteq Coroutines
      /\ Agents \subseteq Coroutines /\ Present' = Present /\ Present \subseteq Agents
  BY DEF MemoryInv, Coroutines, Present
<1>1. /\ a \in Present /\ pc'[c] = "save" /\ item'[c] = a /\ copy'[c] = store[a]
      /\ \A d \in Coroutines \ {c} : pc'[d] = pc[d] /\ pc[d] \notin AtStore
  BY <1>0, Alone DEF Require, Local, Goto, TypeOK
<1>2. OneAtStore'
  BY <1>1 DEF OneAtStore
<1>3. \A d \in Callers \ {c} : pc'[d] \notin {"save", "publish"} /\ pc[d] \notin {"save", "publish"}
  BY <1>0, <1>1 DEF AtStore
<1>4. \A b \in Agents : pc'[b] = pc[b] /\ pc'[b] \notin {"saving", "publish"}
  BY <1>0, <1>1 DEF AtStore
<1>5. StoredInv' /\ FreshInv' /\ NamesUnique'
  BY <1>0, <1>4 DEF MemoryInv, StoredInv, FreshInv, NamesUnique, SameName
<1>6. CopyInv'
  BY <1>0, <1>1, <1>3 DEF CopyInv
<1>7. AnnounceInv'
  <2>1. \A b \in Present : LastIs(b, Announced[store[b].status])
    BY <1>0, <1>3, <1>4 DEF MemoryInv, AnnounceInv, MethodPC
  <2> QED BY <1>0, <1>1, <1>3, <1>4, <2>1 DEF AnnounceInv, LastIs
<1> QED BY <1>2, <1>5, <1>6, <1>7 DEF MemoryInv

(* A step that moves the controller alone, and from no place in a method.  *)
LEMMA ControllerMemory ==
  ASSUME ~StoreYields, MemoryInv, TypeOK',
         ControllerStart \/ ControllerWake \/ ControllerSleeps \/ ControllerStop
  PROVE  MemoryInv'
<1> USE RegistryAssumption
<1>0. Controller \in Coroutines /\ Controller \notin Agents /\ TypeOK
      /\ Callers \subseteq Coroutines /\ Agents \subseteq Coroutines
  BY DEF MemoryInv, Coroutines, Callers
<1>1. UNCHANGED <<store, item, copy, op, log>> /\ MayRun(Controller)
  BY DEF ControllerStart, ControllerWake, ControllerSleeps, ControllerStop, locals, At
<1>2. \A c \in Coroutines \ {Controller} : pc'[c] = pc[c] /\ pc[c] \notin AtStore
  BY <1>0, <1>1, Alone
  DEF ControllerStart, ControllerWake, ControllerSleeps, ControllerStop, Goto, TypeOK
<1>3. \/ pc' = pc
      \/ pc[Controller] \notin {"save", "publish"} /\ pc'[Controller] \notin {"save", "publish"}
  BY <1>0 DEF ControllerStart, ControllerWake, ControllerSleeps, ControllerStop, Goto, At, TypeOK
<1>4. \A c \in Callers : /\ pc'[c] = "save" <=> pc[c] = "save"
                         /\ pc'[c] = "publish" <=> pc[c] = "publish"
  BY <1>0, <1>2, <1>3
<1>5. Present' = Present /\ \A a \in Agents : pc'[a] = pc[a]
  BY <1>0, <1>1, <1>2 DEF Present
<1>6. OneAtStore'
  BY <1>2 DEF OneAtStore
<1>7. StoredInv' /\ FreshInv' /\ NamesUnique'
  BY <1>1, <1>5 DEF MemoryInv, StoredInv, FreshInv, Exists, NamesUnique, SameName
<1>8. CopyInv'
  BY <1>1, <1>4, <1>5 DEF MemoryInv, CopyInv
<1>9. AnnounceInv'
  BY <1>1, <1>4, <1>5 DEF MemoryInv, AnnounceInv, LastIs, Present
<1> QED BY <1>6, <1>7, <1>8, <1>9 DEF MemoryInv

LEMMA InitMemory == Init => MemoryInv
<1> SUFFICES ASSUME Init PROVE MemoryInv
  OBVIOUS
<1>1. TypeOK
  BY InitType
<1>2. \A a \in Agents : store[a].status = "absent"
  BY DEF Init
<1>3. \A c \in Coroutines : pc[c] \in {"new", "off", "idle"}
  BY DEF Init
<1>4. Present = {}
  BY <1>2 DEF Present
<1>5. \A c \in Agents \cup Callers : pc[c] \notin AtStore \cup {"done"}
  BY <1>3 DEF AtStore, Coroutines
<1> QED
  BY <1>1, <1>4, <1>5
  DEF MemoryInv, OneAtStore, StoredInv, FreshInv, CopyInv, AnnounceInv, NamesUnique,
      AtStore, Coroutines

LEMMA NextMemory ==
  ASSUME ~StoreYields
  PROVE  MemoryInv /\ [Next]_vars => MemoryInv'
<1> USE RegistryAssumption
<1> SUFFICES ASSUME MemoryInv, [Next]_vars PROVE MemoryInv'
  OBVIOUS
<1>0. TypeOK'
  BY NextType DEF MemoryInv
<1>1. ASSUME NEW c \in Operators, OperatorCalls(c) PROVE MemoryInv'
  <2>1. PICK a \in Agents, method \in Methods : Require(c, method, a)
    BY <1>1 DEF OperatorCalls
  <2>2. c \in Callers /\ pc[c] \notin MethodPC /\ MayRun(c) /\ UNCHANGED <<store, log>>
    BY <1>1 DEF Callers, OperatorCalls, At, MethodPC
  <2> QED BY <1>0, <2>1, <2>2, RequireMemory
<1>2. CASE ControllerActivates
  <2>1. PICK a \in todo : Require(Controller, "activate", a)
    BY <1>2 DEF ControllerActivates
  <2>2. a \in Agents /\ Controller \in Callers /\ "activate" \in Methods
    BY <2>1 DEF MemoryInv, TypeOK, Callers, Methods, Transitions
  <2>3. pc[Controller] \notin MethodPC /\ MayRun(Controller) /\ UNCHANGED <<store, log>>
    BY <1>2 DEF ControllerActivates, MethodPC
  <2> QED BY <1>0, <2>1, <2>2, <2>3, RequireMemory
<1>3. ASSUME NEW c \in Callers, Method(c) PROVE MemoryInv'
  BY <1>0, <1>3, MethodMemory
<1>4. ASSUME NEW a \in Agents, Register(a) PROVE MemoryInv'
  BY <1>0, <1>4, RegisterMemory
<1>5. CASE ControllerStart \/ ControllerWake \/ ControllerSleeps \/ ControllerStop
  BY <1>0, <1>5, ControllerMemory
<1>6. CASE UNCHANGED vars
  BY <1>0, <1>6
  DEF vars, MemoryInv, OneAtStore, StoredInv, FreshInv, Exists, SameName, CopyInv, AnnounceInv,
      LastIs, NamesUnique, Present
<1> QED
  BY <1>1, <1>2, <1>3, <1>4, <1>5, <1>6 DEF Next, Reconcile, Callers

(* Behind the in-memory store no two agents of a tenant share a name,      *)
(* however many calls of register interleave.                              *)
THEOREM NamesCorrect ==
  ASSUME ~StoreYields
  PROVE  Spec => []NamesUnique
<1>1. MemoryInv => NamesUnique
  BY DEF MemoryInv
<1> QED BY <1>1, InitMemory, NextMemory, PTL DEF Spec

(* Behind the in-memory store the log's last event about an agent is the   *)
(* one of its status whenever no method is between two calls of the store. *)
THEOREM LogCorrect ==
  ASSUME ~StoreYields
  PROVE  Spec => []LastEventAgrees
<1>1. MemoryInv => LastEventAgrees
  <2> SUFFICES ASSUME MemoryInv, Quiet, NEW a \in Present
               PROVE  LastIs(a, Announced[store[a].status])
    BY DEF LastEventAgrees, LastIs
  <2>1. \A c \in Agents \cup Callers : pc[c] # "publish"
    BY DEF Quiet, Coroutines, AtStore
  <2>2. a \in Agents
    BY DEF Present
  <2> QED BY <2>1, <2>2 DEF MemoryInv, AnnounceInv
<1> QED BY <1>1, InitMemory, NextMemory, PTL DEF Spec

(* Behind the in-memory store a method saves only a record that nobody has *)
(* changed since it was read, and changes only what it is for.             *)
THEOREM ChangesItsOwnCorrect ==
  ASSUME ~StoreYields
  PROVE  Spec => ChangesItsOwn
<1> DEFINE Own(a) ==
             /\ store'[a].status # store[a].status =>
                  store'[a].perms = store[a].perms /\ store'[a].status # "pending"
             /\ store'[a].perms # store[a].perms =>
                  store'[a].status = store[a].status /\ store'[a].perms
           Kept == \A a \in Present : Own(a)
<1>1. MemoryInv /\ [Next]_vars => [Kept]_vars
  <2> SUFFICES ASSUME MemoryInv, [Next]_vars, NEW a \in Present
               PROVE  Own(a)
    OBVIOUS
  <2>0. TypeOK /\ a \in Agents /\ store[a] \in Record /\ pc[a] \in {"publish", "done"}
    BY DEF MemoryInv, TypeOK, Present, StoredInv
  <2>1. ASSUME NEW b \in Agents, Register(b) PROVE store'[a] = store[a]
    <3>1. CASE RegisterSave(b)
      <4>1. b # a
        BY <2>0, <3>1 DEF RegisterSave, At
      <4> QED BY <2>0, <3>1, <4>1 DEF RegisterSave, TypeOK
    <3> QED BY <2>1, <3>1 DEF Register, RegisterLookup, RegisterPublish
  <2>2. ASSUME NEW c \in Callers, MethodSave(c), item[c] = a
        PROVE  Own(a)
    <3>1. pc[c] = "save" /\ copy[c] = store[a] /\ op[c] \in Methods
      BY <2>0, <2>2 DEF MethodSave, At, MemoryInv, CopyInv, TypeOK, MethodPC
    <3>2. store'[a] = Updated(store[a], op[c])
      BY <2>0, <2>2, <3>1 DEF MethodSave, TypeOK
    <3>3. CASE op[c] \in Transitions
      BY <2>0, <3>1, <3>2, <3>3, UpdatedType
    <3>4. CASE op[c] \notin Transitions
      BY <2>0, <3>1, <3>2, <3>4, UpdatedType
    <3> QED BY <3>3, <3>4
  <2>3. ASSUME NEW c \in Callers, Method(c), ~(MethodSave(c) /\ item[c] = a)
        PROVE  store'[a] = store[a]
    <3>1. CASE MethodSave(c)
      <4>1. item[c] \in Agents /\ item[c] # a
        BY <2>0, <2>3, <3>1 DEF MethodSave, At, TypeOK, MethodPC
      <4> QED BY <2>0, <3>1, <4>1 DEF MethodSave, TypeOK
    <3> QED BY <2>3, <3>1 DEF Method, MethodPublish
  <2>4. CASE \/ \E c \in Operators : OperatorCalls(c)
             \/ ControllerStart \/ ControllerStop \/ ControllerWake \/ ControllerActivates
             \/ ControllerSleeps \/ UNCHANGED vars
    BY <2>4
    DEF OperatorCalls, ControllerStart, ControllerStop, ControllerWake, ControllerActivates,
        ControllerSleeps, vars
  <2> QED BY <2>1, <2>2, <2>3, <2>4 DEF Next, Reconcile, Callers
<1>2. Spec => [][Kept]_vars
  BY <1>1, InitMemory, NextMemory, PTL DEF Spec
<1> QED BY <1>2 DEF ChangesItsOwn

=============================================================================
