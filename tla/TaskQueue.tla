------------------------------ MODULE TaskQueue ------------------------------
(***************************************************************************)
(* What a task queue promises to those who submit and to those who claim,  *)
(* with no coroutine, lock or store in sight: no more wait than there is   *)
(* room for, and a waiting task leaves by being delivered, once, in the    *)
(* order of its rank, or by being dropped after someone closed it.         *)
(* Scheduler implements it (Scheduler!QueueRefinement).                    *)
(***************************************************************************)
EXTENDS Integers

CONSTANTS
  Tasks,
  Rooms       (* the sets of tasks that may wait at once                     *)

VARIABLES
  pending,    (* the tasks that wait                                         *)
  accepted,   (* the tasks that were ever let in                             *)
  closed,     (* the tasks that someone assigned, finished or cancelled      *)
  delivered,  (* the tasks that a worker was given                           *)
  rank        (* <<priority, order of arrival>> of each task                 *)

qvars == <<pending, accepted, closed, delivered, rank>>

(* Higher priority first, then first come, first served.                   *)
Outranks(t, u) ==
  \/ rank[t][1] > rank[u][1]
  \/ rank[t][1] = rank[u][1] /\ rank[t][2] < rank[u][2]

Init ==
  /\ pending = {} /\ accepted = {} /\ closed = {} /\ delivered = {}
  /\ rank \in [Tasks -> Int \X Nat]

(* The rank of a task is settled when it is let in.                        *)
RanksKept == \A t \in accepted : rank'[t] = rank[t]

Add(t) ==
  /\ t \notin accepted
  /\ pending \cup {t} \in Rooms
  /\ pending' = pending \cup {t}
  /\ accepted' = accepted \cup {t}
  /\ RanksKept
  /\ UNCHANGED <<closed, delivered>>

Close(t) ==
  /\ closed' = closed \cup {t}
  /\ RanksKept
  /\ UNCHANGED <<pending, accepted, delivered>>

Deliver(t) ==
  /\ t \in pending \cap closed
  /\ \A u \in pending \ {t} : Outranks(t, u)
  /\ pending' = pending \ {t}
  /\ delivered' = delivered \cup {t}
  /\ RanksKept
  /\ UNCHANGED <<accepted, closed>>

Drop(S) ==
  /\ S \subseteq pending \cap closed
  /\ pending' = pending \ S
  /\ RanksKept
  /\ UNCHANGED <<accepted, closed, delivered>>

Next ==
  \/ \E t \in Tasks : Add(t) \/ Close(t) \/ Deliver(t)
  \/ \E S \in SUBSET Tasks : Drop(S)

Spec == Init /\ [][Next]_qvars

=============================================================================
