------------------------------- MODULE MCEngines -------------------------------
(***************************************************************************)
(* Small instances of RunTimeline, StateEngine, PolicyEngine,              *)
(* ConscienceEngine, ContextVault, BotbookRuntime and RunServer.  They     *)
(* share no state, so one run explores them side by side: part says which  *)
(* of them this behaviour is about, and the others never move.             *)
(***************************************************************************)
EXTENDS RunTimeline, StateEngine, PolicyEngine, ConscienceEngine, ContextVault, BotbookRuntime, RunServer

VARIABLE part

mcVars == <<vars, engineVars, answered, conscienceVars, vaultVars, runtimeVars, serverVars, part>>

(* The pipelines are chosen first; they only matter to the runtime.        *)
MCInit ==
  /\ Init /\ EngineInit /\ PolicyInit /\ ConscienceInit /\ VaultInit /\ RuntimeInit /\ ServerInit
  /\ part \in {"timeline", "engine", "policy", "conscience", "vault", "runtime", "server"}
  /\ part # "runtime" => \A w \in Workers : pipeline[w] = CHOOSE p \in Pipelines : TRUE
  /\ part # "conscience" => engine.domain = CHOOSE d \in Domains : TRUE

MCNext ==
  /\ \/ part = "timeline" /\ Next
        /\ UNCHANGED <<engineVars, answered, conscienceVars, vaultVars, runtimeVars, serverVars>>
     \/ part = "engine" /\ EngineNext
        /\ UNCHANGED <<vars, answered, conscienceVars, vaultVars, runtimeVars, serverVars>>
     \/ part = "policy" /\ PolicyNext
        /\ UNCHANGED <<vars, engineVars, conscienceVars, vaultVars, runtimeVars, serverVars>>
     \/ part = "conscience" /\ ConscienceNext
        /\ UNCHANGED <<vars, engineVars, answered, vaultVars, runtimeVars, serverVars>>
     \/ part = "vault" /\ VaultNext
        /\ UNCHANGED <<vars, engineVars, answered, conscienceVars, runtimeVars, serverVars>>
     \/ part = "runtime" /\ RuntimeNext
        /\ UNCHANGED <<vars, engineVars, answered, conscienceVars, vaultVars, serverVars>>
     \/ part = "server" /\ ServerNext
        /\ UNCHANGED <<vars, engineVars, answered, conscienceVars, vaultVars, runtimeVars>>
  /\ UNCHANGED part

MCSpec == MCInit /\ [][MCNext]_mcVars

(* Both orders of the diamond's sides, and a cycle with a node nobody      *)
(* added.                                                                  *)
Diamond == [a |-> <<"b", "c">>, b |-> <<"c">>, c |-> <<>>]

MCTasks ==
  { [graph |-> Diamond, start |-> "a"],
    [graph |-> [Diamond EXCEPT !["a"] = <<"c", "b">>], start |-> "a"],
    [graph |-> [b |-> <<"c", "a">>, c |-> <<"b">>], start |-> "b"] }

MCSpecs == {<<"b">>}

Symmetric == Permutations(Executors) \cup Permutations(Callers) \cup Permutations(Workers)

Text(v) == [kind |-> "text", v |-> v]
Number(v) == [kind |-> "number", v |-> v]
List(v) == [kind |-> "list", v |-> v]

MCTextRank == [ada |-> 1, bob |-> 2, eve |-> 3, gmail |-> 4, lots |-> 5, mail |-> 6, search |-> 7, x |-> 8]

MCTextParts == [t \in DOMAIN MCTextRank |-> IF t = "gmail" THEN {"gmail", "mail"} ELSE {t}]

AnyAction == {"api.call", "finance.transfer"}

Rule(effect, actions, conditions) == [effect |-> effect, actions |-> actions, conditions |-> conditions]

Condition(field, operator, value) == [field |-> field, operator |-> operator, value |-> value]

Policy(rules) == [enabled |-> TRUE, applies_to |-> {}, rules |-> rules]

MCPolicies ==
  { Policy(<<Rule("allow", {AnyAction}, {})>>),
    Policy(<<Rule("deny", {{"finance.transfer"}}, {Condition("amount", "gt", Number(100))})>>),
    Policy(<<Rule("allow", {{"api.call"}},
                  {Condition("tool", "in", List({Text("search"), Text("mail"), Text("gmail")}))}),
             Rule("deny", {{"api.call"}}, {Condition("tool", "contains", Text("mail"))})>>),
    [Policy(<<Rule("allow", {{"finance.transfer"}}, {Condition("amount", "lte", Number(100)),
                                                     Condition("agent.id", "gt", Text("ada"))})>>)
       EXCEPT !.applies_to = {"ada", "bob"}],
    [Policy(<<Rule("deny", {AnyAction}, {})>>) EXCEPT !.enabled = FALSE] }

MCContexts == { [tool |-> Text("mail")], [tool |-> Text("gmail")], [amount |-> Number(101)],
                [amount |-> Number(100), agent |-> Text("x")],
                [amount |-> Text("lots"), tool |-> Text("search")] }

MCQuestions ==
  [policies : UNION {[1..n -> MCPolicies] : n \in 0..2},
   agent : {[id |-> "ada", approval |-> {"api.call"}], [id |-> "eve", approval |-> {}]},
   action : AnyAction, context : MCContexts]

(* A signed payment, a client with no safe dosage, and what each check     *)
(* turns away.                                                             *)
MCRules == { [kind |-> "sanctions"], [kind |-> "amount", max_amount |-> 500],
             [kind |-> "rate", max_requests |-> 1, window_seconds |-> 2] }

Payment == [agent |-> "ann", signed |-> TRUE, sanctioned |-> FALSE, numeric |-> TRUE,
            amount |-> 400, dosage |-> 50, entity_risk |-> 2, max_safe_dosage |-> 100]

MCIntents ==
  { Payment, [Payment EXCEPT !.agent = "bob", !.max_safe_dosage = 0],
    [Payment EXCEPT !.signed = FALSE], [Payment EXCEPT !.numeric = FALSE],
    [Payment EXCEPT !.sanctioned = TRUE],
    [Payment EXCEPT !.amount = 1000, !.entity_risk = 8] }

(* A context that the rule refuses, one whose text passes its comparison,  *)
(* and one without id.                                                     *)
Compared(field, op, value) == [field |-> field, op |-> op, value |-> value]

MCActionRules ==
  << [action |-> "refund", allowed_if |-> <<Compared("value", ">", Number(1)),
                                            Compared("tier", "is", Text("gold"))>>] >>

Stored(id, value) ==
  [endpoint |-> "context",
   context |-> [id |-> id, data |-> [value |-> value, tier |-> Text("gold")]]]

MCRequests ==
  { Stored("c1", Number(1)), Stored("c1", [kind |-> "code", v |-> 1]), Stored(NoId, Number(2)) }
  \cup { [endpoint |-> "approve", context_id |-> "c1", role |-> role, ttl |-> 1] :
            role \in {"CRO", "LEGAL"} }
  \cup { [endpoint |-> "authorize", context_id |-> "c1", action |-> "refund", region |-> region] :
            region \in {"UK", "EU"} }

(* Steps that repeat one, dags listed against their order, a cycle, and a  *)
(* dependency that nobody is.                                              *)
MCPipelines ==
  { [kind |-> "steps", agents |-> <<"a", "b", "a">>],
    [kind |-> "dag", agents |-> <<"c", "b", "a">>, deps |-> [a |-> {}, b |-> {"a"}, c |-> {"a", "b"}]],
    [kind |-> "dag", agents |-> <<"b", "a", "c">>, deps |-> [a |-> {}, b |-> {"c"}, c |-> {"b"}]],
    [kind |-> "dag", agents |-> <<"b", "a">>, deps |-> [a |-> {}, b |-> {"z"}]] }
(* A run of the file, runs as the orchestrators record them, one of them   *)
(* twice and one without numbers, and those that a client has numbered,    *)
(* against their order and with what is no number.                         *)
Took(agent, latency, seq) == [agent |-> agent, latency |-> latency, tokens |-> 2 * latency, seq |-> seq]

Recorded(id, events, mesh) == [run_id |-> id, status |-> "completed", events |-> events, mesh_data |-> mesh]

MCShipped ==
  [shipped |-> [status |-> "completed", mesh_data |-> NoRun, forked_from |-> NoRun, fork_point |-> NoRun,
                events |-> <<Took("a", 1, 1), Took("b", 0, 2), Took("a", 2, 3)>>]]

MCSubmissions ==
  { Recorded("live", <<Took("a", 1, 1)>>, NoRun),
    Recorded("live", <<Took("b", 3, NoRun), Took("a", 1, NoRun), Took("b", 1, NoRun)>>, NoRun),
    Recorded("mesh", <<Took("a", 0, 1), Took("b", 1, 2)>>, "votes"),
    Recorded("client", <<Took("a", 1, 2), Took("a", 1, 1)>>, NoRun),
    Recorded("client", <<Took("b", 1, NoNumber)>>, NoRun) }
===============================================================================
