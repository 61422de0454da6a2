----------------------------- MODULE ContextVault -----------------------------
(***************************************************************************)
(* PrivateVault's context vault (src/privatevault/context): contexts and   *)
(* approvals in two JSON files, and an endpoint that says whether an       *)
(* action is allowed in a context.                                         *)
(*                                                                         *)
(* The endpoints run in threads and nothing locks the files: a request     *)
(* that appends reads a file, empties it by opening it for writing, and    *)
(* writes what it read with one entry more; each can meet the steps of     *)
(* others, and the process may crash between any two of them and is        *)
(* started again with the files as they are.                               *)
(***************************************************************************)
EXTENDS Integers, Sequences, SequencesExt, FiniteSetsExt

CONSTANTS
  Callers,      (* threads that serve requests                               *)
  Requests,     (* what may be asked for: [endpoint, ...]                    *)
  ActionRules,  (* policies.yaml: a sequence of [action, allowed_if], and    *)
                (* allowed_if one of [field, op, value]                      *)
  NoId,         (* the id of a context that has none                         *)
  MaxHour,      (* bound on the clock                                        *)
  MaxCalls,     (* bound on the requests                                     *)
  MaxRestarts   (* bound on the crashes                                      *)

ASSUME VaultAssumption ==
  /\ \A r \in Requests : /\ r.endpoint \in {"context", "approve", "authorize"}
                         /\ r.endpoint = "approve" => r.ttl \in Int
  /\ DOMAIN ActionRules \subseteq Nat
  /\ \A i \in DOMAIN ActionRules : DOMAIN ActionRules[i].allowed_if \subseteq Nat

VARIABLES
  hour,         (* time.time()                                               *)
  file,         (* the two files                                             *)
  serving,      (* where each thread is                                      *)
  call,         (* the request it serves                                     *)
  since,        (* when that request arrived                                 *)
  copy,         (* what it read, and for authorize the roles still to look   *)
                (* for                                                       *)
  calls,        (* requests so far                                           *)
  restarts,     (* crashes so far                                            *)
  kept,         (* history: the entries whose appending was answered         *)
  alone,        (* history: no two requests appended to a file at a time,    *)
                (* and no crash hit one that did                             *)
  base          (* history: what a file held when a request began to append  *)
                (* that was the only one to                                  *)

vaultVars == <<hour, file, serving, call, since, copy, calls, restarts, kept, alone, base>>

Files == {"contexts", "approvals"}

Nothing == [entries |-> <<>>, context |-> NoId, found |-> <<>>]

AnyRequest == CHOOSE r \in Requests : TRUE     (* of a thread that serves none *)

(* What a file holds: "absent", "empty", "garbage", or "list" of entries.  *)
Content(state, entries) == [state |-> state, entries |-> entries]

VaultInit ==
  /\ hour = 0
  /\ file = [f \in Files |-> Content("absent", <<>>)]
  /\ serving = [c \in Callers |-> "idle"]
  /\ call = [c \in Callers |-> AnyRequest]
  /\ since = [c \in Callers |-> 0]
  /\ copy = [c \in Callers |-> Nothing]
  /\ calls = 0
  /\ restarts = 0
  /\ kept = [f \in Files |-> <<>>]
  /\ alone = TRUE
  /\ base = [f \in Files |-> <<>>]

HourPasses ==
  /\ hour < MaxHour
  /\ hour' = hour + 1
  /\ UNCHANGED <<file, serving, call, since, copy, calls, restarts, kept, alone, base>>

Reach(c, place) == serving' = [serving EXCEPT ![c] = place]

-----------------------------------------------------------------------------
(* The files.                                                              *)

(* _load: nothing for a file that is not there; what json.load cannot      *)
(* parse raises.                                                           *)
Loads(f) == file[f].state \in {"absent", "list"}

Target(request) == IF request.endpoint = "context" THEN "contexts" ELSE "approvals"

Appending(f) == {c \in Callers : serving[c] \in {"truncate", "write"} /\ Target(call[c]) = f}

(* save_context and add: load and append. An approval expires ttl hours    *)
(* after its request arrived; its role must have a key.                    *)
Entry(c) ==
  IF call[c].endpoint = "context" THEN call[c].context
  ELSE [context_id |-> call[c].context_id, role |-> call[c].role,
        expires_at |-> since[c] + call[c].ttl]

ReadToAppend(c) ==
  LET f == Target(call[c]) IN
  /\ serving[c] = "append"
  /\ IF Loads(f)
     THEN /\ copy' = [copy EXCEPT ![c].entries = Append(file[f].entries, Entry(c))]
          /\ alone' = (alone /\ Appending(f) = {})
          /\ base' = IF Appending(f) = {} THEN [base EXCEPT ![f] = file[f].entries] ELSE base
          /\ Reach(c, "truncate")
     ELSE Reach(c, "failed") /\ UNCHANGED <<copy, alone, base>>
  /\ UNCHANGED <<hour, file, call, since, calls, restarts, kept>>

(* _save: open(..., "w") empties the file.                                 *)
Truncate(c) ==
  /\ serving[c] = "truncate"
  /\ file' = [file EXCEPT ![Target(call[c])] = Content("empty", <<>>)]
  /\ Reach(c, "write")
  /\ UNCHANGED <<hour, call, since, copy, calls, restarts, kept, alone, base>>

(* And json.dump fills it from its start; a longer text that another       *)
(* thread wrote meanwhile sticks out behind.                               *)
Write(c) ==
  LET f == Target(call[c]) IN
  /\ serving[c] = "write"
  /\ \/ file' = [file EXCEPT ![f] = Content("list", copy[c].entries)]
     \/ file[f].state # "empty" /\ file' = [file EXCEPT ![f] = Content("garbage", <<>>)]
  /\ kept' = [kept EXCEPT ![f] = Append(@, Last(copy[c].entries))]
  (* logger.snapshot asks for the id when the context is stored already.   *)
  /\ Reach(c, IF f = "contexts" /\ Last(copy[c].entries).id = NoId THEN "failed" ELSE "answered")
  /\ UNCHANGED <<hour, call, since, copy, calls, restarts, alone, base>>

-----------------------------------------------------------------------------
(* The endpoints.                                                          *)

KEYS == {"CRO", "LEGAL"}

(* What a region asks for; FINANCE and DPO have no key, so that nobody can *)
(* approve for them.                                                       *)
REGIONS(region) ==
  CASE region = "US" -> <<"CRO", "LEGAL", "FINANCE">>
    [] region = "EU" -> <<"CRO", "LEGAL", "DPO">>
    [] OTHER -> <<"CRO", "LEGAL">>

Arrive(c, request) ==
  /\ serving[c] = "idle"
  /\ calls < MaxCalls /\ calls' = calls + 1
  /\ call' = [call EXCEPT ![c] = request]
  /\ since' = [since EXCEPT ![c] = hour]
  /\ Reach(c, CASE request.endpoint = "context" -> "append"
                [] request.endpoint = "approve" ->
                     IF request.role \in KEYS THEN "append" ELSE "failed"
                [] request.endpoint = "authorize" -> "lookup")
  /\ UNCHANGED <<hour, file, copy, restarts, kept, alone, base>>

(* The locals of a request go with it.                                     *)
Depart(c) ==
  /\ serving[c] \in {"answered", "failed", "refused", "allowed"}
  /\ Reach(c, "idle")
  /\ call' = [call EXCEPT ![c] = AnyRequest]
  /\ since' = [since EXCEPT ![c] = 0]
  /\ copy' = [copy EXCEPT ![c] = Nothing]
  /\ UNCHANGED <<hour, file, calls, restarts, kept, alone, base>>

(* get_context: the first with that id; one without an id on the way       *)
(* raises.                                                                 *)
Lookup(c) ==
  LET entries == file["contexts"].entries
      stop == {i \in DOMAIN entries : entries[i].id \in {call[c].context_id, NoId}}
  IN
  /\ serving[c] = "lookup"
  /\ IF ~Loads("contexts") THEN Reach(c, "failed") /\ UNCHANGED copy
     ELSE IF stop = {} THEN Reach(c, "refused") /\ UNCHANGED copy
     ELSE IF entries[Min(stop)].id = NoId THEN Reach(c, "failed") /\ UNCHANGED copy
     ELSE copy' = [copy EXCEPT ![c].context = entries[Min(stop)]] /\ Reach(c, "roles")
  /\ UNCHANGED <<hour, file, call, since, calls, restarts, kept, alone, base>>

(* The roles of the region, and then the two whose signatures are          *)
(* verified, each looked up anew.                                          *)
RolesOf(request) == REGIONS(request.region) \o <<"CRO", "LEGAL">>

(* Mutant: get does not look at the role.                                  *)
ValidForAnyRole(id, role) ==
  LET entries == file["approvals"].entries
  IN  {i \in DOMAIN entries : entries[i].context_id = id /\ entries[i].expires_at > hour}

(* The approvals that have not expired, of which get takes the first.      *)
Valid(id, role) ==
  LET entries == file["approvals"].entries
  IN  {i \in DOMAIN entries :
         entries[i].context_id = id /\ entries[i].role = role /\ entries[i].expires_at > hour}

(* PolicyEngine.evaluate hands the text of a value and of the comparison   *)
(* behind it to eval. So a text is read as Python: a "numeral" is compared *)
(* as the number it spells, and "code" such as 1 or 1 comes out 1 (or      *)
(* 0, false) whatever it is compared with. No value, and any other text,   *)
(* raises.                                                                 *)
Outcome(condition, data) ==
  LET present == condition.field \in DOMAIN data
      actual == IF present THEN data[condition.field] ELSE [kind |-> "none", v |-> NoId]
      met == \/ condition.op = "is" /\ present /\ actual = condition.value
             \/ condition.op # "is" /\ actual.kind = "code" /\ actual.v = 1
             \/ /\ actual.kind \in {"number", "numeral"}
                /\ \/ condition.op = ">" /\ actual.v > condition.value.v
                   \/ condition.op = "<" /\ actual.v < condition.value.v
  IN  IF condition.op # "is" /\ actual.kind \notin {"number", "numeral", "code"} THEN "raises"
      ELSE IF met THEN "met" ELSE "unmet"

Judged(action, data) ==
  LET mine == {i \in DOMAIN ActionRules : ActionRules[i].action = action}
      conditions == ActionRules[Min(mine)].allowed_if
      stop == {i \in DOMAIN conditions : Outcome(conditions[i], data) # "met"}
  IN  IF mine = {} THEN "unmet"
      ELSE IF stop = {} THEN "met"
      ELSE Outcome(conditions[Min(stop)], data)

(* One role more is found, and after the last one the policy is asked.     *)
CheckRole(c) ==
  LET found == copy[c].found
      role == RolesOf(call[c])[Len(found) + 1]
      valid == Valid(call[c].context_id, role)
      judged == Judged(call[c].action, copy[c].context.data)
  IN
  /\ serving[c] = "roles"
  /\ IF ~Loads("approvals") THEN Reach(c, "failed") /\ UNCHANGED copy
     ELSE IF valid = {} THEN Reach(c, "refused") /\ UNCHANGED copy
     ELSE /\ copy' = [copy EXCEPT ![c].found = Append(@, file["approvals"].entries[Min(valid)])]
          /\ Reach(c, IF Len(found) + 1 < Len(RolesOf(call[c])) THEN "roles"
                      ELSE CASE judged = "met" -> "allowed"
                             [] judged = "unmet" -> "refused"
                             [] judged = "raises" -> "failed")
  /\ UNCHANGED <<hour, file, call, since, calls, restarts, kept, alone, base>>

(* The process crashes, perhaps within a write, and starts again.          *)
Restart ==
  /\ restarts < MaxRestarts /\ restarts' = restarts + 1
  /\ serving' = [c \in Callers |-> "idle"]
  /\ call' = [c \in Callers |-> AnyRequest]
  /\ since' = [c \in Callers |-> 0]
  /\ copy' = [c \in Callers |-> Nothing]
  /\ \/ UNCHANGED file
     \/ \E c \in Callers : /\ serving[c] = "write"
                           /\ file' = [file EXCEPT ![Target(call[c])] = Content("garbage", <<>>)]
  /\ alone' = (alone /\ \A f \in Files : Appending(f) = {})
  /\ UNCHANGED <<hour, calls, kept, base>>

VaultNext ==
  \/ HourPasses
  \/ \E c \in Callers :
       \/ \E request \in Requests : Arrive(c, request)
       \/ ReadToAppend(c) \/ Truncate(c) \/ Write(c)
       \/ Lookup(c) \/ CheckRole(c) \/ Depart(c)
  \/ Restart

VaultSpec == VaultInit /\ [][VaultNext]_vaultVars

-----------------------------------------------------------------------------

(* What a policy asks of a context, and what takes its place: a comparison *)
(* is met by a number, by a text that spells one, and by a text that       *)
(* Python takes for true by itself.                                        *)
Meets(condition, data) ==
  /\ condition.field \in DOMAIN data
  /\ LET actual == data[condition.field]
     IN  \/ condition.op = "is" /\ actual = condition.value
         \/ condition.op # "is" /\ actual.kind = "code" /\ actual.v = 1
         \/ /\ actual.kind \in {"number", "numeral"}
            /\ \/ condition.op = ">" /\ actual.v > condition.value.v
               \/ condition.op = "<" /\ actual.v < condition.value.v

(* The first policy about the action is met in everything it asks.         *)
FitsPolicy(action, data) ==
  \E i \in DOMAIN ActionRules :
    /\ ActionRules[i].action = action
    /\ \A j \in DOMAIN ActionRules : ActionRules[j].action = action => i <= j
    /\ \A condition \in Range(ActionRules[i].allowed_if) : Meets(condition, data)

(* A context that was stored under this id, and no other before it.        *)
FirstStored(context, id) ==
  \E i \in DOMAIN kept["contexts"] :
    /\ kept["contexts"][i] = context
    /\ \A j \in 1 .. i - 1 : kept["contexts"][j].id # id

(* What is allowed is backed: the policy allows it for a context that was  *)
(* stored under the id that the request names, the first one unless        *)
(* requests to store overlapped or a crash hit one (the first may be lost  *)
(* then); and for every role that the region asks for somebody approved    *)
(* that id, and that approval was still good when the action was asked     *)
(* for.  (server.py:75, policies.py:10)                                    *)
AuthorizationBacked ==
  \A c \in Callers :
    serving[c] = "allowed" =>
      /\ FitsPolicy(call[c].action, copy[c].context.data)
      /\ copy[c].context.id = call[c].context_id
      /\ copy[c].context \in Range(kept["contexts"])
      /\ alone => FirstStored(copy[c].context, call[c].context_id)
      /\ \A role \in Range(REGIONS(call[c].region)) \cup KEYS :
           \E a \in Range(kept["approvals"]) :
             a.context_id = call[c].context_id /\ a.role = role /\ a.expires_at > since[c]

(* However requests overlap and wherever they crash, a file that can be    *)
(* read begins with all it held when a request last began to append alone: *)
(* what is lost was appended by requests that overlapped. Nothing is lost, *)
(* and the order is kept, as long as no two requests append to a file at   *)
(* once and no crash hits one that does; of overlapping ones the file may  *)
(* keep a part, or be garbage that cannot be read.                         *)
(* (vault/store.py:15-24, approvals/store.py)                              *)
NothingLost ==
  /\ \A f \in Files : Loads(f) =>
       \A i \in DOMAIN base[f] : i \in DOMAIN file[f].entries /\ file[f].entries[i] = base[f][i]
  /\ alone => \A f \in Files :
       Appending(f) = {} => /\ file[f].entries = kept[f]
                            /\ Loads(f)

(* Allowed only with backing, and the files lose nothing but what          *)
(* overlapping requests wrote.                                             *)
VaultSound == AuthorizationBacked /\ NothingLost

=============================================================================
