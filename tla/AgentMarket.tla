----------------------------- MODULE AgentMarket -----------------------------
(***************************************************************************)
(* The registry of BotBook (botbook.dev/main.py): agents with the trust    *)
(* they earned, their ranking for a task, and the runs that choose one of  *)
(* them and raise its trust when they complete (orchestrator.py).          *)
(*                                                                         *)
(* Every endpoint is one step, for none awaits.  A run holds on to the     *)
(* record of its agent from its selection to its end, while tasks are      *)
(* recorded for the same agent.  Scores are in units of 0.0001, ratings in *)
(* tenths.  A task is given by how many keywords of each capability its    *)
(* text contains.                                                          *)
(***************************************************************************)
EXTENDS Lists, SequencesExt, FiniteSetsExt

CONSTANTS
  Mock,         (* the agents that are loaded at startup                     *)
  Applicants,   (* the registrations that are tried                          *)
  MarketTasks,  (* the requests to /match that are tried                     *)
  Ratings,      (* the ratings that are tried: nothing bounds them           *)
  LiveRuns,     (* calls of execute_stream                                   *)
  Nobody,
  MaxAgents,    (* bound on the agents                                       *)
  MaxRecords    (* bound on the tasks recorded                               *)

(* A capability that a task has no keywords of counts none.                *)
Skilled(agent) ==
  /\ "capabilities" \in DOMAIN agent
  /\ \A task \in MarketTasks : agent.capabilities \in Seq(DOMAIN task.hits)

(* What is counted of an agent.                                            *)
IsRecord(agent) ==
  /\ Skilled(agent)
  /\ {"completed", "failed", "violations", "rating"} \subseteq DOMAIN agent
  /\ agent.completed \in Nat /\ agent.failed \in Nat /\ agent.violations \in Nat
  /\ agent.rating \in Int

ASSUME MarketAssumption ==
  /\ MaxAgents \in Nat /\ MaxRecords \in Nat
  /\ Ratings \subseteq Int
  /\ DOMAIN Mock = 1 .. Len(Mock) /\ Len(Mock) \in Nat
  /\ \A i \in 1 .. Len(Mock) : IsRecord(Mock[i])
  /\ \A applicant \in Applicants : Skilled(applicant)
  /\ \A task \in MarketTasks :
       /\ task.hits \in [DOMAIN task.hits -> Nat] /\ task.required \in Seq(DOMAIN task.hits)
       /\ task.max_results \in Nat

VARIABLES
  agents_store, (* the agents, in the order of their registration            *)
  agent_of,     (* the place in agents_store of the agent that a run uses    *)
  ended,        (* the runs that are over                                    *)
  records       (* tasks recorded so far                                     *)

market == <<agents_store, agent_of, ended, records>>

-----------------------------------------------------------------------------
(* Trust.                                                                  *)

FullScore == 10000

Within(low, n, high) == Max({low, Min({high, n})})

Rounded(of, per) == (2 * of + per) \div (2 * per)

(* compute_trust_score: 40% for completed tasks, 40% for the rating, and a *)
(* tenth less for each violation up to a half.                             *)
ComputeTrust(t) ==
  IF t.completed = 0 THEN 0
  ELSE Within(0, Rounded(4000 * t.completed, t.completed + t.failed)
                 + 80 * Max({t.rating, 0}) - Min({1000 * t.violations, 5000}), FullScore)

(* compute_badge: the audit hash is always there.                          *)
ComputeBadge(t, score) ==
  IF t.violations > 0 THEN "verified"
  ELSE IF score >= 9000 /\ t.completed >= 500 THEN "certified"
  ELSE IF score >= 8000 /\ t.completed >= 100 THEN "trusted"
  ELSE "verified"

(* enrich_agent                                                            *)
Enrich(agent) ==
  LET score == ComputeTrust(agent)
  IN  [f \in DOMAIN agent \cup {"score", "badge"} |->
         IF f = "score" THEN score
         ELSE IF f = "badge" THEN ComputeBadge(agent, score) ELSE agent[f]]

(* The record of an agent that registers.                                  *)
Untried(applicant) ==
  [name |-> applicant.name, member_type |-> applicant.member_type,
   capabilities |-> applicant.capabilities,
   completed |-> 0, failed |-> 0, violations |-> 0, rating |-> 0]

(* load_agents                                                             *)
Loaded == [i \in 1 .. Len(Mock) |-> Enrich(Mock[i])]

MarketInit ==
  /\ agents_store = Loaded
  /\ agent_of = [r \in LiveRuns |-> Nobody]
  /\ ended = {}
  /\ records = 0

(* register_agent: a name may be taken already.                            *)
RegisterAgent(applicant) ==
  /\ Len(agents_store) < MaxAgents
  /\ agents_store' = Append(agents_store, Enrich(Untried(applicant)))
  /\ UNCHANGED <<agent_of, ended, records>>

(* Mutant: the badge stays what it was.                                    *)
RecordedUnbadged(agent, success, rating) ==
  LET now == [agent EXCEPT !.completed = IF success THEN @ + 1 ELSE @,
                           !.failed = IF success THEN @ ELSE @ + 1,
                           !.rating = rating]
  IN  [now EXCEPT !.score = ComputeTrust(now)]

(* The agent after a task: the rating replaces the one before, and the     *)
(* score that its runs earned is computed anew.                            *)
Recorded(agent, success, rating) ==
  LET now == [agent EXCEPT !.completed = IF success THEN @ + 1 ELSE @,
                           !.failed = IF success THEN @ ELSE @ + 1,
                           !.rating = rating]
      score == ComputeTrust(now)
  IN  [now EXCEPT !.score = score, !.badge = ComputeBadge(now, score)]

(* record_task                                                             *)
RecordTask(i, success, rating) ==
  /\ records < MaxRecords
  /\ records' = records + 1
  /\ agents_store' = [agents_store EXCEPT ![i] = Recorded(@, success, rating)]
  /\ UNCHANGED <<agent_of, ended>>

-----------------------------------------------------------------------------
(* Ranking.                                                                *)

Count(caps, per) == Summed([i \in 1 .. Len(caps) |-> per[caps[i]]])

(* The keywords of an agent's capabilities that the task contains; those   *)
(* of a capability that is listed twice count twice.                       *)
KeywordHits(agent, task) == Count(agent.capabilities, task.hits)

(* How many of the required capabilities the agent has.                    *)
Offered(agent, task) ==
  Len(Picked(task.required, {i \in 1 .. Len(task.required) :
                               task.required[i] \in Range(agent.capabilities)}))

(* The share of its tasks that it completed, half of none.                 *)
Reliability(agent) ==
  LET total == agent.completed + agent.failed
  IN  IF total > 0 THEN [of |-> agent.completed, per |-> total] ELSE [of |-> 1, per |-> 2]

(* score_agent_for_task, its five factors: 20% required capabilities, 40%  *)
(* keywords, 20% trust, 10% experience, 10% reliability.  A fraction.      *)
Composite(agent, task) ==
  LET asked == Max({Len(task.required), 1})
      reliable == Reliability(agent)
  IN  [of |-> 10000 * Offered(agent, task) * reliable.per + 5000 * reliable.of * asked
              + asked * reliable.per
                * (2000 * Min({KeywordHits(agent, task), 10}) + agent.score
                   + 10 * Min({agent.completed, 500})),
       per |-> 5 * asked * reliable.per]

(* Mutant: an agent that the task does not concern keeps its score.        *)
MatchScoreUnpenalised(agent, task) == Rounded(Composite(agent, task).of, Composite(agent, task).per)

(* match_score: an agent without a keyword of the task keeps 40%.          *)
MatchScore(agent, task) ==
  LET c == Composite(agent, task)
  IN  IF ~task.blank /\ KeywordHits(agent, task) = 0 THEN Rounded(2 * c.of, 5 * c.per)
      ELSE Rounded(c.of, c.per)

(* The agents, not the humans, that are trusted enough.                    *)
Candidates(task) ==
  Picked(agents_store, {i \in 1 .. Len(agents_store) :
                          /\ agents_store[i].member_type = "agent"
                          /\ agents_store[i].score >= task.min_trust_score})

(* match_agents: the candidates, best first.                               *)
MatchAgents(task) ==
  LET list == Candidates(task)
      scores == [i \in 1 .. Len(list) |-> MatchScore(list[i], task)]
  IN  Ranked(list, scores, task.max_results)

-----------------------------------------------------------------------------
(* Runs.                                                                   *)

(* find_agent: the first of a name, a human or not.                        *)
FindAgent(name) == Min({i \in 1 .. Len(agents_store) : agents_store[i].name = name})

Waiting(r) == agent_of[r] = Nobody /\ r \notin ended

(* The agent is named by the caller, or it is the best match, looked up by *)
(* its name: no name ever changes in between.                              *)
SelectAgent(r) ==
  /\ Waiting(r)
  /\ \E name \in {a.name : a \in Range(agents_store)}
                 \cup {MatchAgents(task)[1].name :
                        task \in {t \in MarketTasks : t.automatic /\ MatchAgents(t) # <<>>}} :
       agent_of' = [agent_of EXCEPT ![r] = FindAgent(name)]
  /\ UNCHANGED <<agents_store, ended, records>>

(* There is no such agent, or none that matches.                           *)
NoneSelected(r) ==
  /\ Waiting(r)
  /\ ended' = ended \cup {r}
  /\ UNCHANGED <<agents_store, agent_of, records>>

(* The run completes: its agent's trust goes up by 0.002, its badge stays. *)
Completed(agent) == [agent EXCEPT !.score = Min({FullScore, @ + 20}), !.completed = @ + 1]

CompleteRun(r) ==
  /\ agent_of[r] # Nobody /\ r \notin ended
  /\ agents_store' = [agents_store EXCEPT ![agent_of[r]] = Completed(@)]
  /\ ended' = ended \cup {r}
  /\ UNCHANGED <<agent_of, records>>

(* The run is blocked, or its browser goes away.                           *)
StopRun(r) ==
  /\ agent_of[r] # Nobody /\ r \notin ended
  /\ ended' = ended \cup {r}
  /\ UNCHANGED <<agents_store, agent_of, records>>

(* The registry lives in memory, and so do the runs.                       *)
MarketRestarts ==
  /\ agents_store' = Loaded
  /\ ended' = ended \cup {r \in LiveRuns : agent_of[r] # Nobody}
  /\ UNCHANGED <<agent_of, records>>

MarketNext ==
  \/ \E applicant \in Applicants : RegisterAgent(applicant)
  \/ \E i \in 1 .. Len(agents_store), success \in BOOLEAN, rating \in Ratings :
       RecordTask(i, success, rating)
  \/ \E r \in LiveRuns : SelectAgent(r) \/ NoneSelected(r) \/ CompleteRun(r) \/ StopRun(r)
  \/ MarketRestarts

MarketSpec == MarketInit /\ [][MarketNext]_market

-----------------------------------------------------------------------------

(* A badge never promises more than the record behind it, although runs    *)
(* raise the score without it and tasks recorded for the same agent lower  *)
(* the score again.                                                        *)
BadgeBacked ==
  \A a \in Range(agents_store) :
    /\ a.score \in 0 .. FullScore
    /\ a.badge = "certified" => a.score >= 9000 /\ a.completed >= 500 /\ a.violations = 0
    /\ a.badge = "trusted" => a.score >= 8000 /\ a.completed >= 100 /\ a.violations = 0

(* "the agent who actually matches the task keywords wins" and "trust      *)
(* alone shouldn't win" (main.py:323-324, 334): whenever a candidate has a *)
(* keyword of the task, so has the one that is ranked first.  Trust,       *)
(* experience and reliability outweigh a few keywords, the penalty for     *)
(* having none included.                                                   *)
MatchingAgentWins ==
  \A task \in {t \in MarketTasks : ~t.blank} :
    LET ranking == MatchAgents(task)
    IN  (\E i \in 1 .. Len(ranking) : KeywordHits(ranking[i], task) > 0)
          => KeywordHits(ranking[1], task) > 0

=============================================================================
