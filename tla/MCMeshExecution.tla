--------------------------- MODULE MCMeshExecution ---------------------------
(***************************************************************************)
(* Small instances of MeshExecution, AgentMarket and DriftDetection.  The  *)
(* three share no state, so one run explores them side by side: part says  *)
(* which of them this behaviour is about, and the others never move.       *)
(***************************************************************************)
EXTENDS MeshExecution, AgentMarket, DriftDetection

VARIABLE part

mcVars == <<vars, market, compared, part>>

MCInit == Init /\ MarketInit /\ DriftInit /\ part \in {"mesh", "market", "drift"}

MCNext ==
  /\ \/ part = "mesh" /\ Next /\ UNCHANGED <<market, compared>>
     \/ part = "market" /\ MarketNext /\ UNCHANGED <<vars, compared>>
     \/ part = "drift" /\ DriftNext /\ UNCHANGED <<vars, market>>
  /\ UNCHANGED part

MCSpec == MCInit /\ [][MCNext]_mcVars

(* BotBook's registry alone.                                               *)
MarketOnly == MCInit /\ part = "market" /\ [][MCNext]_mcVars

(* Requests for every way in which agents and hard limits can agree or     *)
(* disagree.                                                               *)

Default == <<"pricing_agent", "risk_agent", "revenue_agent">>

Discount50k == [action |-> "approve_discount", amount |-> 50000, context |-> NoOverride,
                agents |-> Default, tenant |-> "none", override |-> NoOverride]

Overruled == [Discount50k EXCEPT !.amount = 260000, !.tenant = "acme"]

MCAgents == {"pricing_agent", "risk_agent", "revenue_agent", "compliance_agent", "margin_agent"}

MCRequests ==
  { Discount50k,
    (* agents agree, the limit on amounts does not, unless acme raised it    *)
    Overruled,
    (* agents agree, the limit on transfers does not                         *)
    [Discount50k EXCEPT !.action = "transfer", !.amount = 30000],
    (* agents refuse                                                         *)
    [Discount50k EXCEPT !.amount = 310000, !.context = "deal_value" :> 320000],
    (* another majority, with a recipient that only policy minds             *)
    [Discount50k EXCEPT !.agents = <<"pricing_agent", "margin_agent", "compliance_agent">>,
                        !.context = "recipient" :> "offshore",
                        !.override = "quorum_threshold" :> 8000],
    (* nobody but one agent, asked twice                                     *)
    [Discount50k EXCEPT !.agents = <<"pricing_agent", "pricing_agent">>,
                        !.override = "max_discount_percent" :> 30],
    [Discount50k EXCEPT !.agents = <<"pricing_agent">>, !.tenant = "acme"],
    [Discount50k EXCEPT !.context = "not_a_number" :> TRUE] }

MCUnnamed == {Discount50k, Overruled}

MCToVerify == {[action |-> "listed", amount |-> 10000, recipient |-> "known"]}

MCFilters ==
  { [node_type |-> "decision", min_amount |-> 40000, limit |-> 1],
    [status |-> "ALLOW", limit |-> 2],
    [entity |-> "known", limit |-> 50] }

MCPrecedents ==
  { [action_type |-> "approve_discount", entity |-> "known",
     min_amount |-> 40000, max_amount |-> 60000, limit |-> 2],
    [action_type |-> "listed", entity |-> "known",
     min_amount |-> 0, max_amount |-> 20000, limit |-> 10] }

(* A higher limit, and approvals that count double.                        *)
MCPatches == {[max_discount_amount |-> 300000, approve_weight |-> 20]}

-----------------------------------------------------------------------------

Agent(name, type, capabilities, completed, failed, violations, rating) ==
  [name |-> name, member_type |-> type, capabilities |-> capabilities, completed |-> completed,
   failed |-> failed, violations |-> violations, rating |-> rating]

(* One task short of the trusted badge, one of the certified badge, one    *)
(* with a violation, and a human.                                          *)
MCMock ==
  << Agent("ada", "agent", <<"mail">>, 99, 0, 0, 50),
     Agent("bob", "agent", <<"mail", "report">>, 499, 0, 0, 100),
     Agent("eve", "agent", <<"report">>, 10, 12, 2, 31),
     Agent("mia", "human", <<"audit">>, 45, 0, 0, 50) >>

MCApplicants ==
  { [name |-> "ada", member_type |-> "agent", capabilities |-> <<"audit">>],
    [name |-> "new", member_type |-> "agent", capabilities |-> <<"report", "report">>] }

Task(hits, required, blank) ==
  [hits |-> hits, required |-> required, blank |-> blank,
   min_trust_score |-> 0, max_results |-> 5, automatic |-> required = <<>>]

MCMarketTasks ==
  { Task([mail |-> 0, report |-> 4, audit |-> 7], <<"mail">>, FALSE),
    Task([mail |-> 0, report |-> 0, audit |-> 1], <<>>, FALSE),
    [Task([mail |-> 0, report |-> 0, audit |-> 0], <<"mail", "report">>, TRUE)
       EXCEPT !.min_trust_score = 8000, !.max_results = 1] }

-----------------------------------------------------------------------------

Value(type, content) == [type |-> type, content |-> content]

(* The payloads with some of the fields, each with one of its values.      *)
PayloadsOf(values) ==
  UNION {{[f \in {v[1] : v \in chosen} |-> (CHOOSE v \in chosen : v[1] = f)[2]] : 
            chosen \in {c \in SUBSET values : \A v, w \in c : v[1] = w[1] => v = w}}}

(* Amounts that the parser rounds, a text that it changes.                 *)
MCDeclared ==
  PayloadsOf({<<"amount", Value("number", n)>> : n \in {100, 104, 4, 0}}
             \cup {<<"amount", Value("bool", 1)>>, <<"amount", Value("null", 0)>>,
                   <<"recipient", Value("text", "Acme")>>, <<"recipient", Value("text", "acme")>>,
                   <<"action", Value("text", "pay")>>})

MCActual ==
  PayloadsOf({<<"amount", Value("number", n)>> : n \in {0, 1, 4, 100, 104, 110, 111, 200, 201, 1100, 1101, -50}}
             \cup {<<"amount", Value("text", "much")>>,
                   <<"recipient", Value("text", "Acme")>>, <<"recipient", Value("text", "acme")>>,
                   <<"recipient", Value("text", "bank")>>, <<"recipient", Value("text", "offshore")>>,
                   <<"action", Value("text", "pay")>>, <<"action", Value("text", "transfer")>>})

MCLowerTrimmed ==
  [text \in {"Acme", "acme", "pay"} |-> IF text = "Acme" THEN "acme" ELSE text]

=============================================================================
