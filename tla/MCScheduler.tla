---------------------------- MODULE MCScheduler ----------------------------
(* Small instances of Scheduler for TLC.                                   *)
EXTENDS Scheduler, TLC

(* 11 and 12 are clamped to one priority, so the order of arrival decides. *)
MCPriorities == {5, 11, 12}

OnePriority == {12}

TwoPriorities == {5, 12}

AllOps == StatusOps

CancelOnly == {"cancel"}

CancelAndRun == {"cancel", "mark_running"}

Symmetry == Permutations(Tasks) \cup Permutations(Workers)

(* One of the tasks may have the lower priority and the other ones not,    *)
(* which is enough for one to be overtaken, and for a tie.                 *)
Lowest == CHOOSE t \in Tasks : TRUE

NextOneLow == Next /\ \A t \in Tasks : args'[t].priority = 5 => t = Lowest

FairSpecOneLow == Init /\ [][NextOneLow]_vars /\ Fairness

=============================================================================
