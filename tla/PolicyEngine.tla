----------------------------- MODULE PolicyEngine -----------------------------
(***************************************************************************)
(* LORK's policy engine (LORK/lork/policy/engine.py): whether an agent may *)
(* take an action.  The engine keeps nothing but its list of policies; the *)
(* variable holds the last question and its answer.                        *)
(*                                                                         *)
(* A value is [kind, v], since Python compares values of any two types for *)
(* equality and raises when it orders two that do not fit.  Lists are only *)
(* looked into.  A pattern is the set of actions that it matches, and a    *)
(* field is its whole path.                                                *)
(***************************************************************************)
EXTENDS Integers, Sequences, SequencesExt, Lists

CONSTANTS
  Questions,    (* what is asked: [policies, agent, action, context]         *)
  TextRank,     (* the place of each text in the order of strings            *)
  TextParts     (* the texts that each text has as substrings                *)

(* PolicyEffect has two members.                                           *)
ASSUME PolicyAssumption ==
  \A q \in Questions :
    /\ DOMAIN q = {"policies", "agent", "action", "context"}
    /\ q.policies \in Seq(Range(q.policies))
    /\ \A p \in Range(q.policies) : /\ p.rules \in Seq(Range(p.rules))
                                    /\ \A r \in Range(p.rules) : r.effect \in {"allow", "deny"}

VARIABLE answered

(* The fields of the agent that conditions name; a caller's context may    *)
(* hold another "agent", which has none of them.                           *)
EvalContext(agent, context) ==
  IF "agent" \in DOMAIN context THEN context
  ELSE [f \in DOMAIN context \cup {"agent.id"} |->
          IF f \in DOMAIN context THEN context[f] ELSE [kind |-> "text", v |-> agent.id]]

Key(value) == IF value.kind = "text" THEN TextRank[value.v] ELSE value.v

(* What can be looked for in the collection, or the text.                  *)
Searchable(col, val) == col.kind = "list" \/ (col.kind = "text" /\ val.kind = "text")

IsWithin(col, val) ==
  Searchable(col, val) /\ IF col.kind = "list" THEN val \in col.v ELSE val.v \in TextParts[col.v]

(* _OPERATORS; what raises is false.                                       *)
Holds(operator, actual, expected) ==
  LET ordered == actual.kind = expected.kind /\ actual.kind \in {"number", "text"} IN
  \/ operator = "eq" /\ actual = expected
  \/ operator = "neq" /\ actual # expected
  \/ operator = "gt" /\ ordered /\ Key(actual) > Key(expected)
  \/ operator = "lt" /\ ordered /\ Key(actual) < Key(expected)
  \/ operator = "gte" /\ ordered /\ Key(actual) >= Key(expected)
  \/ operator = "lte" /\ ordered /\ Key(actual) =< Key(expected)
  \/ operator = "in" /\ IsWithin(expected, actual)
  \/ operator = "not_in" /\ Searchable(expected, actual) /\ ~IsWithin(expected, actual)
  \/ operator = "contains" /\ IsWithin(actual, expected)

(* A field that the context lacks fails every operator, "neq" and "not_in" *)
(* too.                                                                    *)
EvaluateCondition(condition, context) ==
  /\ condition.field \in DOMAIN context
  /\ Holds(condition.operator, context[condition.field], condition.value)

RuleMatches(rule, action, context) ==
  /\ \E pattern \in rule.actions : action \in pattern
  /\ \A condition \in rule.conditions : EvaluateCondition(condition, context)

(* _get_applicable_policies, and of those only the enabled ones.           *)
Applicable(policy, agent) == policy.applies_to = {} \/ agent.id \in policy.applies_to

RulesOf(policies, agent) ==
  LET rules[i \in 0 .. Len(policies)] ==
        IF i = 0 THEN <<>>
        ELSE IF Applicable(policies[i], agent) /\ policies[i].enabled
             THEN rules[i - 1] \o policies[i].rules ELSE rules[i - 1]
  IN  rules[Len(policies)]

Matching(rules, effect, action, context) ==
  Picked(rules, {i \in 1 .. Len(rules) :
                   rules[i].effect = effect /\ RuleMatches(rules[i], action, context)})

Denied(matched) == [allowed |-> FALSE, matched |-> matched, requires_approval |-> FALSE]

(* Mutant: the first rule that matches decides.                            *)
EvaluateFirst(q) ==
  LET context == EvalContext(q.agent, q.context)
      rules == RulesOf(q.policies, q.agent)
      matched == SelectSeq(rules, LAMBDA r : RuleMatches(r, q.action, context))
  IN  IF matched = <<>> THEN Denied(<<>>)
      ELSE [allowed |-> matched[1].effect = "allow", matched |-> <<matched[1]>>,
            requires_approval |-> matched[1].effect = "allow" /\ q.action \in q.agent.approval]

Evaluate(q) ==
  LET context == EvalContext(q.agent, q.context)
      rules == RulesOf(q.policies, q.agent)
      allow_rules == Matching(rules, "allow", q.action, context)
      deny_rules == Matching(rules, "deny", q.action, context)
  IN  IF deny_rules # <<>> THEN Denied(deny_rules \o allow_rules)
      ELSE IF allow_rules = <<>> THEN Denied(<<>>)
      ELSE [allowed |-> TRUE, matched |-> allow_rules,
            requires_approval |-> q.action \in q.agent.approval]

PolicyInit == answered = {}

Ask(q) == answered' = {[question |-> q, decision |-> Evaluate(q)]}

PolicyNext == \E q \in Questions : Ask(q)

PolicySpec == PolicyInit /\ [][PolicyNext]_answered

(***************************************************************************)
(* Reference.                                                              *)
(***************************************************************************)

(* The algorithm of the module's docstring: rule by rule, the first DENY   *)
(* ends it, an ALLOW is remembered, and nothing remembered is a refusal.   *)
Documented(q) ==
  LET context == EvalContext(q.agent, q.context)
      rules == RulesOf(q.policies, q.agent)
      read[i \in 0..Len(rules)] ==
        IF i = 0 THEN "unmatched"
        ELSE LET before == read[i - 1] IN
             IF before = "denied" \/ ~RuleMatches(rules[i], q.action, context) THEN before
             ELSE IF rules[i].effect = "deny" THEN "denied" ELSE "allowed"
  IN  read[Len(rules)]

(* What evaluate collects and decides at the end is what its documentation *)
(* (engine.py:15-24) decides while it reads the rules in order; an answer  *)
(* carries only rules that bear on it, and turning the policies round, or  *)
(* taking away one whose rules did not match, changes no answer.           *)
DecisionExact ==
  \A a \in answered :
    LET q == a.question
        d == a.decision
        agrees(other) == Evaluate([q EXCEPT !.policies = other]).allowed = d.allowed
    IN  /\ d.allowed <=> Documented(q) = "allowed"
        /\ d.requires_approval => d.allowed
        /\ d.allowed => \A i \in DOMAIN d.matched : d.matched[i].effect = "allow"
        /\ ~d.allowed /\ d.matched # <<>> => d.matched[1].effect = "deny"
        /\ agrees(Reverse(q.policies))
        /\ \A i \in DOMAIN q.policies :
             (\A j \in DOMAIN q.policies[i].rules : \A k \in DOMAIN d.matched :
                q.policies[i].rules[j] # d.matched[k])
             => agrees(RemoveAt(q.policies, i))

===============================================================================
