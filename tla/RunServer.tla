----------------------------- MODULE RunServer -----------------------------
(***************************************************************************)
(* LORK's control plane API server (api_server.py): the runs that it holds *)
(* in memory, loaded from runs.json when it starts, recorded by the        *)
(* orchestrators, forked, and read by its endpoints.                       *)
(*                                                                         *)
(* No handler awaits anything, so each is one step.  Names, descriptions,  *)
(* payloads and time stamps are left out; what they are copied with is     *)
(* not.  A restart forgets everything but the file.                        *)
(***************************************************************************)
EXTENDS Lists, SequencesExt, FiniteSetsExt

CONSTANTS
  Shipped,      (* runs.json: from run ids to runs                           *)
  Submissions,  (* what is posted to record                                  *)
  ForkIds,      (* the ids that uuid4 draws                                  *)
  Points,       (* where runs are forked                                     *)
  MaxStarts,    (* bound on the restarts                                     *)
  NoRun,        (* a field that a run or an event does not have              *)
  NoNumber      (* the number of an event whose client gave none as number   *)

(* Events take no less than no time.                                       *)
AreEvents(events) ==
  /\ events \in Seq({events[i] : i \in 1 .. Len(events)})
  /\ \A i \in 1 .. Len(events) :
       /\ {"agent", "latency", "tokens", "seq"} \subseteq DOMAIN events[i]
       /\ events[i].latency \in Nat /\ events[i].tokens \in Nat

ASSUME RunServerAssumption ==
  /\ Points \subseteq Int /\ MaxStarts \in Nat
  /\ \A id \in DOMAIN Shipped : AreEvents(Shipped[id].events) /\ Shipped[id].forked_from = NoRun
  /\ \A s \in Submissions : AreEvents(s.events)
  /\ ForkIds \cap (DOMAIN Shipped \cup {s.run_id : s \in Submissions}) = {}

VARIABLES
  runs_store,   (* the runs, by id                                           *)
  versions,     (* history: every run that was ever stored since the start,  *)
                (* with its id                                               *)
  starts        (* restarts so far                                           *)

serverVars == <<runs_store, versions, starts>>

Version(id, run) == [id |-> id, run |-> run]

ServerInit ==
  /\ runs_store = Shipped
  /\ versions = {Version(id, Shipped[id]) : id \in DOMAIN Shipped}
  /\ starts = 0

Store(id, run) ==
  /\ runs_store' = [r \in DOMAIN runs_store \cup {id} |-> IF r = id THEN run ELSE runs_store[r]]
  /\ versions' = versions \cup {Version(id, run)}
  /\ UNCHANGED starts

(* An event without a number gets its place in the list; a client's own    *)
(* number is kept, whatever it is.                                         *)
WithNumbers(events) ==
  [i \in DOMAIN events |->
     [events[i] EXCEPT !.seq = IF events[i].seq = NoRun THEN i ELSE events[i].seq]]

(* record_run: a run of that id is replaced.                               *)
RecordRun(submission) ==
  Store(submission.run_id,
        [status |-> submission.status, events |-> WithNumbers(submission.events),
         mesh_data |-> submission.mesh_data, forked_from |-> NoRun, fork_point |-> NoRun])

(* Mutant: the events before the point, without the one at it.             *)
BeforePoint(events, point) == Picked(events, {i \in 1 .. Len(events) : events[i].seq < point})

UpToPoint(events, point) == Picked(events, {i \in 1 .. Len(events) : events[i].seq <= point})

(* Every event can be compared with a point.                               *)
IsNumbered(run) == \A i \in 1 .. Len(run.events) : run.events[i].seq # NoNumber

(* fork_run: a number that is none raises, and the votes of a mesh are not *)
(* part of the fork.                                                       *)
ServeFork(id, point, fork) ==
  /\ id \in DOMAIN runs_store /\ fork \notin DOMAIN runs_store
  /\ IsNumbered(runs_store[id])
  /\ Store(fork, [status |-> "forked", events |-> UpToPoint(runs_store[id].events, point),
                  mesh_data |-> NoRun, forked_from |-> id, fork_point |-> point])

(* load_data, when the server starts again.                                *)
LoadData ==
  /\ starts < MaxStarts
  /\ starts' = starts + 1
  /\ runs_store' = Shipped
  /\ versions' = {Version(id, Shipped[id]) : id \in DOMAIN Shipped}

ServerNext ==
  \/ \E s \in Submissions : RecordRun(s)
  \/ \E id \in DOMAIN runs_store, point \in Points, fork \in ForkIds : ServeFork(id, point, fork)
  \/ LoadData

ServerSpec == ServerInit /\ [][ServerNext]_serverVars

-----------------------------------------------------------------------------
(* What the endpoints answer.                                              *)

Total(list, field) == Summed([i \in 1 .. Len(list) |-> list[i][field]])

(* list_runs                                                               *)
Listed(run) ==
  [event_count |-> Len(run.events), latency |-> Total(run.events, "latency"),
   tokens |-> Total(run.events, "tokens")]

(* stats_run: the agents, in the order in which they appear.               *)
Firsts(events) ==
  Picked(events, {i \in 1 .. Len(events) : \A j \in 1 .. i - 1 : events[j].agent # events[i].agent})

(* What each event adds to what is counted of an agent.                    *)
Adds(events, agent, field) ==
  [i \in 1 .. Len(events) |->
     IF events[i].agent # agent THEN 0 ELSE IF field = "count" THEN 1 ELSE events[i][field]]

AgentStats(events) ==
  LET of(agent, field) == Summed(Adds(events, agent, field))
  IN  [k \in 1 .. Len(Firsts(events)) |->
         LET agent == Firsts(events)[k].agent
         IN  [agent |-> agent, latency |-> of(agent, "latency"), tokens |-> of(agent, "tokens"),
              count |-> of(agent, "count")]]

(* stats_run: per agent, and in a summary.                                 *)
Stats(run) ==
  LET stats == AgentStats(run.events)
  IN  [stats |-> stats, latency |-> Total(stats, "latency"), tokens |-> Total(stats, "tokens")]

(* replay_run: with the time that has passed at the end of each event.     *)
Replay(run) ==
  LET latencies == [i \in 1 .. Len(run.events) |-> run.events[i].latency]
  IN  [total |-> Summed(latencies),
       events |-> [i \in 1 .. Len(run.events) |-> <<run.events[i], Sums(latencies)[i]>>]]

(* mesh_votes                                                              *)
MeshVotes(id) ==
  IF id \notin DOMAIN runs_store THEN 404
  ELSE IF runs_store[id].mesh_data = NoRun THEN 400 ELSE runs_store[id].mesh_data

-----------------------------------------------------------------------------

(* A fork has the events of its parent that are numbered up to the point,  *)
(* in the order in which its parent has them, whoever numbered them; it    *)
(* replays as its parent did to some event and no further exactly when     *)
(* those are its parent's first events.                                    *)
Agrees(fork, parent) ==
  LET taken == {i \in 1 .. Len(parent.events) : parent.events[i].seq <= fork.fork_point}
      place(i) == Cardinality({j \in taken : j <= i})
  IN  /\ IsNumbered(parent)
      /\ Len(fork.events) = Cardinality(taken)
      /\ \A i \in taken : fork.events[place(i)] = parent.events[i]
      /\ IsPrefix(Replay(fork).events, Replay(parent).events)
           <=> taken = 1 .. Cardinality(taken)

(* The list, the statistics and the replay of a run agree on its events,   *)
(* its time and its tokens.  A fork, of a fork too, has the events up to   *)
(* the point of a run that its parent's id once named, whatever has been   *)
(* recorded under that id since; the id still names one, and the fork      *)
(* never passes for a mesh run.                                            *)
RunServed ==
  \A id \in DOMAIN runs_store :
    LET run == runs_store[id] IN
    /\ LET stats == Stats(run) replay == Replay(run) IN
         /\ Listed(run).latency = stats.latency /\ stats.latency = replay.total
         /\ Listed(run).tokens = stats.tokens
         /\ Listed(run).event_count = Len(replay.events)
         /\ Listed(run).event_count = Total(stats.stats, "count")
         /\ \A i \in DOMAIN replay.events : replay.events[i][2] <= replay.total
    /\ run.forked_from # NoRun =>
         /\ run.forked_from \in DOMAIN runs_store
         /\ MeshVotes(id) = 400
         /\ \E v \in versions : v.id = run.forked_from /\ Agrees(run, v.run)

=============================================================================
