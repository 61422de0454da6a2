------------------------------ MODULE StateEngine ------------------------------
(***************************************************************************)
(* LORK's in-memory state engine (LORK/lork/state/state_engine.py): runs   *)
(* as append-only event logs beside a RunState for each.  With the         *)
(* in-memory event store no await suspends, so a method is one action.     *)
(***************************************************************************)
EXTENDS Integers, FiniteSets, Sequences

CONSTANTS
  RunIds,     (* the ids that start_run will draw                            *)
  Payloads,
  MaxSteps,   (* bound on the calls of record_step and of finish_run         *)
  NoPayload

(* What get_state looks for in the log: last_tool, last_llm and policy.    *)
StepTypes == {"tool_call", "llm_call", "policy_check"}

VARIABLES
  runs,       (* _runs: the RunState of each run                             *)
  log,        (* the event store's list for each run                         *)
  inherited,  (* a history variable: where a fork comes from                 *)
  readTo,     (* a history variable: how long the log was when get_state     *)
              (* last read it                                                *)
  steps       (* calls of record_step and finish_run so far                  *)

engineVars == <<runs, log, inherited, readTo, steps>>

EventType == StepTypes \cup {"run_started", "run_completed"}

StateEvent == [step : Nat, type : EventType, payload : Payloads \cup {NoPayload}]

Absent == [status |-> "absent", steps |-> 0, data |-> [t \in StepTypes |-> NoPayload]]

EngineInit ==
  /\ runs = [r \in RunIds |-> Absent]
  /\ log = [r \in RunIds |-> <<>>]
  /\ inherited = [r \in RunIds |-> [parent |-> r, length |-> 0]]
  /\ readTo = [r \in RunIds |-> 0]
  /\ steps = 0

Known == {r \in RunIds : runs[r].status # "absent"}

(* _record_event for each of events: its step is the length of the log.    *)
RecordEvents(events, more) ==
  events \o [i \in DOMAIN more |-> [more[i] EXCEPT !.step = Len(events) + i]]

NewEvent(type, payload) == [step |-> 0, type |-> type, payload |-> payload]

RecordAll(r, more) == log' = [log EXCEPT ![r] = RecordEvents(@, more)]

Started == [Absent EXCEPT !.status = "running"]

StartRun(r) ==
  /\ r \notin Known
  /\ runs' = [runs EXCEPT ![r] = Started]
  /\ RecordAll(r, <<NewEvent("run_started", NoPayload)>>)
  /\ UNCHANGED <<inherited, readTo, steps>>

Counted == steps < MaxSteps /\ steps' = steps + 1 /\ UNCHANGED <<inherited, readTo>>

FinishRun(r) ==
  /\ r \in Known
  /\ runs' = [runs EXCEPT ![r].status = "completed"]
  /\ RecordAll(r, <<NewEvent("run_completed", NoPayload)>>)
  /\ Counted

(* A run that was completed takes further steps.                           *)
RecordStep(r, type, payload) ==
  /\ r \in Known
  /\ runs' = [runs EXCEPT ![r].steps = @ + 1]
  /\ RecordAll(r, <<NewEvent(type, payload)>>)
  /\ Counted

Latest(events, type, otherwise) ==
  LET found == {i \in DOMAIN events : events[i].type = type} IN
  IF found = {} THEN otherwise
  ELSE events[CHOOSE i \in found : \A j \in found : j <= i].payload

(* get_state copies the RunState but not its data, which the copy shares:  *)
(* what it finds in the log it writes into the stored state too.           *)
GetState(r) ==
  /\ r \in Known
  /\ runs' = [runs EXCEPT ![r].data = [t \in StepTypes |-> Latest(log[r], t, @[t])]]
  /\ readTo' = [readTo EXCEPT ![r] = Len(log[r])]
  /\ UNCHANGED <<log, inherited, steps>>

(* Mutant: the parent's first event is taken for the one just recorded.    *)
ForkRunAfterFirst(parent, r) ==
  /\ parent \in Known
  /\ r \notin Known
  /\ runs' = [runs EXCEPT ![r] = Started]
  /\ RecordAll(r, <<NewEvent("run_started", NoPayload)>> \o Tail(log[parent]))
  /\ inherited' = [inherited EXCEPT ![r] = [parent |-> parent, length |-> Len(log[parent])]]
  /\ UNCHANGED <<readTo, steps>>

(* The fork starts as a new run does, with no step counted, and records    *)
(* the parent's events behind its own first one.                           *)
ForkRun(parent, r) ==
  /\ parent \in Known
  /\ r \notin Known
  /\ runs' = [runs EXCEPT ![r] = Started]
  /\ RecordAll(r, <<NewEvent("run_started", NoPayload)>> \o log[parent])
  /\ inherited' = [inherited EXCEPT ![r] = [parent |-> parent, length |-> Len(log[parent])]]
  /\ UNCHANGED <<readTo, steps>>

EngineNext ==
  \E r \in RunIds :
    \/ StartRun(r) \/ FinishRun(r) \/ GetState(r)
    \/ \E type \in StepTypes, payload \in Payloads : RecordStep(r, type, payload)
    \/ \E parent \in RunIds : ForkRun(parent, r)

EngineSpec == EngineInit /\ [][EngineNext]_engineVars

(***************************************************************************)
(* Properties.                                                             *)
(***************************************************************************)

EngineTypeOK ==
  /\ runs \in [RunIds -> [status : {"absent", "running", "completed"}, steps : Nat,
                          data : [StepTypes -> Payloads \cup {NoPayload}]]]
  /\ log \in [RunIds -> Seq(StateEvent)]
  /\ inherited \in [RunIds -> [parent : RunIds, length : Nat]]
  /\ readTo \in [RunIds -> Nat]
  /\ steps \in Nat

(* Where events of these types are in the log of r, and which of them r    *)
(* recorded by itself, behind its first event and what it copied.          *)
Of(r, types) == {i \in DOMAIN log[r] : log[r][i].type \in types}

OwnOf(r, types) == {i \in Of(r, types) : i > inherited[r].length + 1}

CopiedOf(r, types) == {i \in Of(r, types) : i \in 2..inherited[r].length + 1}

Numbered(r) == \A i \in DOMAIN log[r] : log[r][i].step = i

(* A fork repeats its parent's events behind its own first one.            *)
Repeats(r) ==
  \A i \in 1..inherited[r].length :
    /\ i \in DOMAIN log[inherited[r].parent]
    /\ i + 1 \in DOMAIN log[r]
    /\ log[r][i + 1] = [log[inherited[r].parent][i] EXCEPT !.step = i + 1]

Completions == {"run_completed"}

CountAgrees(r) == runs[r].steps = Cardinality(OwnOf(r, StepTypes))

StatusAgrees(r) == runs[r].status = "completed" <=> OwnOf(r, Completions) # {}

(* The cached data are the latest of their types up to where get_state     *)
(* last read, copied events included, and nothing where it found none.     *)
DataAgrees(r) ==
  /\ readTo[r] <= Len(log[r])
  /\ \A t \in StepTypes :
       LET found == {i \in Of(r, {t}) : i <= readTo[r]} IN
       IF found = {} THEN runs[r].data[t] = NoPayload
       ELSE \E i \in found : /\ \A j \in found : j <= i
                             /\ runs[r].data[t] = log[r][i].payload

(* What a replay of the log counts, against what the RunState says: they   *)
(* differ by the steps that a fork copied, and by a completion among them. *)
ReplayAgrees(r) ==
  /\ Cardinality(Of(r, StepTypes)) = runs[r].steps + Cardinality(CopiedOf(r, StepTypes))
  /\ Of(r, Completions) # {} <=> runs[r].status = "completed" \/ CopiedOf(r, Completions) # {}

(* How the log and the RunState kept beside it agree. Events are numbered  *)
(* as they were appended, so replay returns them in that order; a fork     *)
(* repeats its parent's events, however both go on. The counter and the    *)
(* status are those of the run's own events, and the data are as of the    *)
(* last get_state. So the state is not what a replay of the log rebuilds,  *)
(* which state_engine.py:30, 195 and 238 say: a fork of a completed run is *)
(* running, with no steps, over a log of steps that ends in a completion,  *)
(* and by exactly what it copied the two differ. (record_step, finish_run, *)
(* get_state and fork_run)                                                 *)
LogExplainsRun ==
  \A r \in Known : /\ Numbered(r) /\ Repeats(r)
                   /\ CountAgrees(r) /\ StatusAgrees(r) /\ DataAgrees(r)
                   /\ ReplayAgrees(r)

================================================================================
