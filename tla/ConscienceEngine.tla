--------------------------- MODULE ConscienceEngine ---------------------------
(***************************************************************************)
(* The conscience engine of Galani protocol v2 (demos/                     *)
(* galani_protocol_v2.py): signed intents of agents, judged by policies in *)
(* order of priority and then by a risk score, with every verdict chained  *)
(* into an audit trail.  No await of it suspends, so a call is one action. *)
(*                                                                         *)
(* Scores are in units of 1/100000, an entity's risk in tenths, amounts in *)
(* thousands and dosages in units.                                         *)
(***************************************************************************)
EXTENDS Lists, SequencesExt, FiniteSetsExt

CONSTANTS
  Domains,      (* the domains that an engine may be for                     *)
  Rules,        (* the policies that may be registered                       *)
  Intents,      (* what is asked: [agent, signed, sanctioned, numeric,       *)
                (* amount, dosage, entity_risk, max_safe_dosage]; numeric    *)
                (* when the amount and the dosage are numbers                *)
  MaxClock,     (* bound on the clock                                        *)
  MaxIntents    (* bound on the calls of evaluate_intent                     *)

ASSUME ConscienceAssumption ==
  /\ \A rule \in Rules :
       /\ rule.kind \in {"sanctions", "rate", "amount"}
       /\ rule.kind = "rate" => rule.max_requests \in Int /\ rule.window_seconds \in Int
  /\ \A intent \in Intents :
       /\ intent.amount \in Int /\ intent.dosage \in Int /\ intent.entity_risk \in Int
       /\ intent.max_safe_dosage \in Nat
  /\ MaxClock \in Nat /\ MaxIntents \in Nat

VARIABLES
  clock,        (* time.time()                                               *)
  engine,       (* its domain and its list of policies                       *)
  history,      (* request_history of each rate limit, for each agent        *)
  chain,        (* audit_chain                                               *)
  stats,        (* execution_stats, but for the latency                      *)
  raised        (* a history variable: the calls that raised, as records     *)

conscienceVars == <<clock, engine, history, chain, stats, raised>>

Agents == {intent.agent : intent \in Intents}

RateRules == {rule \in Rules : rule.kind = "rate"}

ConscienceInit ==
  /\ clock = 0
  /\ engine \in [domain : Domains, policies : {<<>>}]
  /\ history = [rule \in RateRules |-> [a \in Agents |-> <<>>]]
  /\ chain = <<>>
  /\ stats = [total |-> 0, approved |-> 0, rejected |-> 0]
  /\ raised = {}

ClockTick ==
  /\ clock < MaxClock
  /\ clock' = clock + 1
  /\ UNCHANGED <<engine, history, chain, stats, raised>>

-----------------------------------------------------------------------------
(* The policies.                                                           *)

Priority(rule) ==
  CASE rule.kind = "sanctions" -> 1000 [] rule.kind = "rate" -> 800 [] rule.kind = "amount" -> 500

(* Append and sort by priority, highest first; the sort is stable.         *)
Registered(policies, rule) ==
  LET before == Cardinality({i \in DOMAIN policies : Priority(policies[i]) >= Priority(rule)})
  IN  InsertAt(policies, before + 1, rule)

(* An engine gets its policies before its first intent.                    *)
RegisterPolicy(rule) ==
  /\ chain = <<>> /\ raised = {}
  /\ rule \notin Range(engine.policies)
  /\ engine' = [engine EXCEPT !.policies = Registered(@, rule)]
  /\ UNCHANGED <<clock, history, chain, stats, raised>>

(* Mutant: a request is still counted when the window has just passed.     *)
RecentOneMore(rule, agent) ==
  LET at == history[rule][agent]
  IN  Picked(at, {i \in DOMAIN at : clock - at[i] <= rule.window_seconds})

(* What is left of an agent's history once old requests are cleaned out.   *)
Recent(rule, agent) ==
  LET at == history[rule][agent]
  IN  Picked(at, {i \in DOMAIN at : clock - at[i] < rule.window_seconds})

Refuses(rule, intent) ==
  \/ rule.kind = "sanctions" /\ intent.sanctioned
  \/ rule.kind = "rate" /\ Len(Recent(rule, intent.agent)) >= rule.max_requests
  \/ rule.kind = "amount" /\ intent.numeric /\ intent.amount > rule.max_amount

(* What is no number is compared with the limit.                           *)
PolicyRaises(rule, intent) == rule.kind = "amount" /\ ~intent.numeric

(* The policies are asked in turn until one refuses or raises: the place   *)
(* of that one, or the place after the last.                               *)
FirstRefusal(intent) ==
  Min({i \in DOMAIN engine.policies : \/ Refuses(engine.policies[i], intent)
                                      \/ PolicyRaises(engine.policies[i], intent)}
      \cup {Len(engine.policies) + 1})

AllPass(intent) == FirstRefusal(intent) > Len(engine.policies)

(* A rate limit that was asked cleans its history, and notes the request   *)
(* unless it refuses it; what comes after it does not take that back.      *)
Asked(intent) ==
  LET place(rule) == IF rule \in Range(engine.policies)
                     THEN CHOOSE i \in DOMAIN engine.policies : engine.policies[i] = rule
                     ELSE Len(engine.policies) + 1
      noted(rule) == LET recent == Recent(rule, intent.agent) IN
                     IF place(rule) < FirstRefusal(intent) THEN Append(recent, clock) ELSE recent
  IN  [rule \in RateRules |->
         IF place(rule) > FirstRefusal(intent) \/ rule \notin Range(engine.policies)
         THEN history[rule]
         ELSE [history[rule] EXCEPT ![intent.agent] = noted(rule)]]

-----------------------------------------------------------------------------
(* The risk analyzer.                                                      *)

Least(a, b) == IF a < b THEN a ELSE b

Weighed(financial, compliance, safety, reputational) ==
  35 * financial + 30 * compliance + 25 * safety + 10 * reputational

(* Each risk in thousandths.                                               *)
RiskScore(intent) ==
  CASE engine.domain = "fintech" ->
         Weighed(Least(intent.amount, 1000), 100 * intent.entity_risk, 100, 50 * intent.entity_risk)
    [] engine.domain = "medtech" ->
         LET safety == Least((1000 * intent.dosage) \div intent.max_safe_dosage, 1000)
         IN  Weighed(100, IF intent.dosage > intent.max_safe_dosage THEN 200 ELSE 100,
                     safety, (8 * safety) \div 10)
    [] OTHER -> 0

Levels == <<"SAFE", "LOW", "MEDIUM", "HIGH", "CRITICAL">>

RiskLevel(score) ==
  Levels[1 + Cardinality({bound \in {20000, 40000, 60000, 80000} : score >= bound})]

(* What is no number is divided, and a safe dosage of zero divided by.     *)
AnalyzeRaises(intent) ==
  \/ engine.domain \in {"fintech", "medtech"} /\ ~intent.numeric
  \/ engine.domain = "medtech" /\ intent.max_safe_dosage = 0

-----------------------------------------------------------------------------
(* The engine.                                                             *)

(* compute_record_hash: what it hashes, and so what it can be told by.     *)
RecordHash(record) ==
  <<record.record_id, record.intent, record.timestamp, record.status, record.previous_hash>>

(* _create_audit_record.  The reason names the policy that refused: its    *)
(* place, or 0 for the signature.                                          *)
AuditRecord(intent, level, status, reason) ==
  LET record == [record_id |-> Len(chain) + 1, intent |-> intent, risk_level |-> level,
                 status |-> status, timestamp |-> clock, reason |-> reason,
                 previous_hash |-> IF chain = <<>> THEN <<>> ELSE Last(chain).merkle_hash,
                 merkle_hash |-> <<>>]
  IN  [record EXCEPT !.merkle_hash = RecordHash(record)]

(* _update_stats                                                           *)
Counting(approved) ==
  [total |-> stats.total + 1,
   approved |-> stats.approved + (IF approved THEN 1 ELSE 0),
   rejected |-> stats.rejected + (IF approved THEN 0 ELSE 1)]

Verdict(intent, level, status, reason) ==
  /\ chain' = Append(chain, AuditRecord(intent, level, status, reason))
  /\ stats' = Counting(status = "APPROVED")
  /\ UNCHANGED raised

(* Nobody counts an intent whose signature is bad.                         *)
Unsigned(intent) ==
  /\ ~intent.signed
  /\ chain' = Append(chain, AuditRecord(intent, "CRITICAL", "REJECTED", 0))
  /\ UNCHANGED <<history, stats, raised>>

PolicyViolated(intent) ==
  /\ intent.signed
  /\ ~AllPass(intent) /\ Refuses(engine.policies[FirstRefusal(intent)], intent)
  /\ history' = Asked(intent)
  /\ Verdict(intent, "CRITICAL", "REJECTED", FirstRefusal(intent))

(* Only a low enough risk is approved.                                     *)
RiskJudged(intent) ==
  LET level == RiskLevel(RiskScore(intent)) IN
  /\ intent.signed
  /\ AllPass(intent) /\ ~AnalyzeRaises(intent)
  /\ history' = Asked(intent)
  /\ Verdict(intent, level, IF level \in {"HIGH", "CRITICAL"} THEN "REJECTED" ELSE "APPROVED",
             FirstRefusal(intent))

(* The call raises: no record, but the rate limit has noted it.            *)
EvaluationRaises(intent) ==
  /\ intent.signed
  /\ IF AllPass(intent) THEN AnalyzeRaises(intent)
                         ELSE ~Refuses(engine.policies[FirstRefusal(intent)], intent)
  /\ history' = Asked(intent)
  /\ raised' = raised \cup {[id |-> Cardinality(raised), agent |-> intent.agent, at |-> clock]}
  /\ UNCHANGED <<chain, stats>>

EvaluateIntent(intent) ==
  /\ Len(chain) + Cardinality(raised) < MaxIntents
  /\ \/ Unsigned(intent) \/ PolicyViolated(intent) \/ RiskJudged(intent) \/ EvaluationRaises(intent)
  /\ UNCHANGED <<clock, engine>>

ConscienceNext ==
  \/ ClockTick
  \/ \E rule \in Rules : RegisterPolicy(rule)
  \/ \E intent \in Intents : EvaluateIntent(intent)

ConscienceSpec == ConscienceInit /\ [][ConscienceNext]_conscienceVars

-----------------------------------------------------------------------------

(* get_audit_trail: the latest records, all of them for a limit of zero.   *)
AuditTrail(limit) ==
  IF limit = 0 \/ limit > Len(chain) THEN chain ELSE SubSeq(chain, Len(chain) - limit + 1, Len(chain))

(* verify_audit_chain: the first record is not looked at.                  *)
ChainVerifies(records) ==
  \A i \in 2 .. Len(records) :
    /\ records[i].previous_hash = records[i - 1].merkle_hash
    /\ records[i].merkle_hash = RecordHash(records[i])

(* An intent is refused for its rate exactly when, of the same agent and   *)
(* within the window, as many as are allowed got past the rate limit,      *)
(* whatever became of them later, and those that raised had left no record *)
(* but count.                                                              *)
RateRespected(trail) ==
  \A i \in DOMAIN trail, place \in DOMAIN engine.policies :
    LET rule == engine.policies[place]
        r == trail[i]
        past == {j \in 1 .. i - 1 : /\ trail[j].intent.agent = r.intent.agent
                                    /\ trail[j].reason > place
                                    /\ r.timestamp - trail[j].timestamp < rule.window_seconds}
        lost == {l \in raised : /\ l.agent = r.intent.agent
                                /\ l.at <= r.timestamp /\ r.timestamp - l.at < rule.window_seconds}
    IN  rule.kind = "rate" =>
          /\ r.reason > place => Cardinality(past) < rule.max_requests
          /\ r.reason = place => Cardinality(past) + Cardinality(lost) >= rule.max_requests

(* What every policy let pass is recorded at its risk, and approved        *)
(* exactly when that is below six tenths.                                  *)
RiskRespected(trail) ==
  \A i \in DOMAIN trail :
    trail[i].intent.signed /\ trail[i].reason > Len(engine.policies) =>
      /\ trail[i].risk_level = RiskLevel(RiskScore(trail[i].intent))
      /\ trail[i].status = "APPROVED" <=> RiskScore(trail[i].intent) < 60000

(* The policies that need no history.                                      *)
Forbids(rule, intent) ==
  \/ rule.kind = "sanctions" /\ intent.sanctioned
  \/ rule.kind = "amount" /\ intent.numeric /\ intent.amount > rule.max_amount

(* The audit trail explains every verdict: it verifies, the statistics are *)
(* those of its signed intents, what it approved no policy refuses, what a *)
(* sanctions policy forbids is refused by one, before everything else is   *)
(* asked, and rate limits and levels of risk are those that the trail      *)
(* itself shows.                                                           *)
TrailExplains ==
  LET trail == AuditTrail(0)
      signed == {i \in DOMAIN trail : trail[i].intent.signed}
      approved == {i \in DOMAIN trail : trail[i].status = "APPROVED"}
  IN  /\ ChainVerifies(trail)
      /\ stats = [total |-> Cardinality(signed), approved |-> Cardinality(approved),
                  rejected |-> Cardinality(signed \ approved)]
      /\ approved \subseteq signed
      /\ \A i \in approved, place \in DOMAIN engine.policies :
           /\ ~Forbids(engine.policies[place], trail[i].intent)
           /\ trail[i].reason > Len(engine.policies)
      /\ \A i \in signed, place \in DOMAIN engine.policies :
           (engine.policies[place].kind = "sanctions" /\ trail[i].intent.sanctioned) =>
             LET at == trail[i].reason IN at <= place /\ engine.policies[at].kind = "sanctions"
      /\ RateRespected(trail) /\ RiskRespected(trail)

=============================================================================
