---------------------------- MODULE ControlPlane ----------------------------
(***************************************************************************)
(* The sovereign control plane of PrivateVault (control_plane_api.py):     *)
(* requests with a signed context (security_context.py), emissions that    *)
(* need a quorum, the audit log that the middleware appends to             *)
(* (audit_logger.py), and bundles of evidence exported from that log       *)
(* (evidence_export.py).                                                   *)
(*                                                                         *)
(* The dependencies of an endpoint run on the event loop and wait, for as  *)
(* long as it takes, until the client has sent the body of its request;    *)
(* the endpoints run in threads, later; the log is written when they are   *)
(* through.  The process may crash anywhere, also within a write, and      *)
(* starts again with the log and the bundles it left.                      *)
(*                                                                         *)
(* A bundle is a directory below PV_EXPORT_ROOT, and its name a path: that *)
(* of one may lie in that of another, and "." is the root itself.  A path  *)
(* is the list of its parts; one that lies in a bundle is taken not to be  *)
(* that of a file of this bundle.                                          *)
(***************************************************************************)
EXTENDS Integers, Sequences, SequencesExt, FiniteSetsExt, Lists

CONSTANTS
  Emissions,    (* requests to emit                                          *)
  Exports,      (* requests for a bundle of evidence                         *)
  Tenants,
  Offered,      (* what each request may carry: its tenant, the time it was  *)
                (* signed at, the approvals with it, the range of its bundle *)
                (* and whether it names a time zone, and the bundle's path   *)
  Layers, Environment, ContextKeys, None, (* see EmitQuorum                  *)
  MaxSkew,      (* PV_CONTEXT_MAX_SKEW_SECONDS                               *)
  MaxTime,      (* bound on the clock                                        *)
  MaxCrashes    (* bound on the crashes                                      *)

INSTANCE EmitQuorum

(* The lists that requests and rules hold.                                 *)
IsList(s) == Len(s) \in Nat /\ DOMAIN s = 1 .. Len(s)

IsRule(rule) ==
  LET needed == Get(rule, "roles_required", <<>>) IN
  /\ IsList(needed) /\ None \notin Range(needed)
  /\ MinApprovals(rule) \in Int

(* The path of a bundle: as the caller wants it, or named after what is in *)
(* it.                                                                     *)
BundleId(offered) ==
  IF offered.name # None THEN offered.name ELSE <<<<offered.tenant, offered.start, offered.end>>>>

ASSUME ControlPlaneAssumption ==
  /\ Emissions \cap Exports = {} /\ None \notin Emissions \cup Exports \cup Tenants \cup Int
  /\ MaxSkew \in Nat /\ MaxTime \in Nat /\ MaxCrashes \in Nat
  /\ \A tenant \in Tenants : IsRule(ResolveRule(tenant))
  /\ \A r \in Emissions \cup Exports : \A offered \in Offered[r] :
       /\ offered.tenant \in Tenants
       /\ IsList(offered.approvals)
       /\ r \in Exports => Len(BundleId(offered)) \in Nat

VARIABLES
  now,          (* time.time()                                               *)
  pc,           (* where each request is                                     *)
  request,      (* what it carries                                           *)
  quorum,       (* request.state.pv_quorum, and when it was asked for        *)
  log,          (* the audit log: its lines, and whether the last one lacks  *)
                (* its end of line                                           *)
  loaded,       (* the events that an export read                            *)
  bundle,       (* the directory at each path that has one                   *)
  emitted,      (* the emissions that were executed                          *)
  undisturbed,  (* history: the exports that met no other one in or around   *)
                (* their directory, and whose bundle no later one removed    *)
  crashes       (* crashes so far                                            *)

service == <<pc, request, quorum>>
files == <<log, loaded, bundle, undisturbed>>

vars == <<now, service, files, emitted, crashes>>

Requests == Emissions \cup Exports

Unasked == [met |-> FALSE, required |-> 0, used |-> {}, at |-> 0]

Places ==
  {"new", "signed", "received", "admitted", "removed", "loaded", "written", "approved", "counted", "replying",
   "denied", "failed", "done", "crashed"}

Over == {"new", "done", "crashed"}

Garbage == [request |-> None]

(* A directory, by the files that are in it.                               *)
EmptyBundle == [file \in {} |-> None]

Paths == {BundleId(o) : o \in UNION {Offered[x] : x \in Exports}}

NoRequest ==
  [tenant |-> CHOOSE t \in Tenants : TRUE, timestamp |-> 0, approvals |-> <<>>,
   start |-> 0, end |-> 0, naive |-> FALSE, name |-> None]

Init ==
  /\ now = 0
  /\ pc = [r \in Requests |-> "new"]
  /\ request = [r \in Requests |-> NoRequest]
  /\ quorum = [r \in Requests |-> Unasked]
  /\ log = [lines |-> <<>>, open |-> FALSE]
  /\ loaded = [r \in Exports |-> <<>>]
  /\ bundle = [path \in {} |-> EmptyBundle]
  /\ emitted = {}
  /\ undisturbed = {}
  /\ crashes = 0

Goto(r, place) == pc' = [pc EXCEPT ![r] = place]

Tick ==
  /\ now < MaxTime
  /\ now' = now + 1
  /\ UNCHANGED <<service, files, emitted, crashes>>

-----------------------------------------------------------------------------
(* The dependencies.                                                       *)

Abs(n) == IF n < 0 THEN - n ELSE n

(* require_signed_context, up to the await of the body: the nonce has to   *)
(* be there, and nobody remembers it.                                      *)
Arrive(r, offered) ==
  /\ pc[r] = "new"
  /\ request' = [request EXCEPT ![r] = offered]
  /\ Goto(r, IF Abs(now - offered.timestamp) > MaxSkew THEN "denied" ELSE "signed")
  /\ UNCHANGED <<now, quorum, files, emitted, crashes>>

(* await request.body(): the client sends it when it likes, or goes away.  *)
SendBody(r) ==
  /\ pc[r] = "signed"
  /\ \E place \in {"received", "denied"} : Goto(r, place)
  /\ UNCHANGED <<now, request, quorum, files, emitted, crashes>>

(* The hash of the body is the signed one; an emission needs its quorum    *)
(* now.  The intent of an approval is the request it is for.               *)
Admit(r) ==
  /\ pc[r] = "received"
  /\ IF r \in Exports THEN Goto(r, "admitted") /\ UNCHANGED quorum
     ELSE LET q == Quorum(request[r].approvals, ResolveRule(request[r].tenant), r, now)
          IN  /\ quorum' = [quorum EXCEPT ![r] = q]
              /\ Goto(r, IF q.met THEN "admitted" ELSE "denied")
  /\ UNCHANGED <<now, request, files, emitted, crashes>>

(* Or it is not the body that was signed.                                  *)
HashMismatch(r) ==
  /\ pc[r] = "received"
  /\ Goto(r, "denied")
  /\ UNCHANGED <<now, request, quorum, files, emitted, crashes>>

-----------------------------------------------------------------------------
(* The endpoints.                                                          *)

(* emit_fintech, emit_medtech: safe_call answers whatever happens.         *)
Execute(r) ==
  /\ pc[r] = "admitted" /\ r \in Emissions
  /\ emitted' = emitted \cup {r}
  /\ Goto(r, "replying")
  /\ UNCHANGED <<now, request, quorum, files, crashes>>

(* Or what it needs cannot be imported, which safe_call does not cover.    *)
ImportFails(r) ==
  /\ pc[r] = "admitted" /\ r \in Emissions
  /\ Goto(r, "failed")
  /\ UNCHANGED <<now, request, quorum, files, emitted, crashes>>

BundleOf(x) == BundleId(request[x])

Directory(x) == IF BundleOf(x) \in DOMAIN bundle THEN bundle[BundleOf(x)] ELSE EmptyBundle

(* The directory of one export holds that of the other, or is the same.    *)
Overlap(x, y) == IsPrefix(BundleOf(x), BundleOf(y)) \/ IsPrefix(BundleOf(y), BundleOf(x))

(* _is_ts_in_range                                                         *)
InRange(x, e) == e.timestamp \in request[x].start .. request[x].end

(* Mutant: the events of every tenant are read.                            *)
EventsOfAll(x) ==
  Picked(log.lines, {i \in DOMAIN log.lines : log.lines[i] # Garbage /\ InRange(x, log.lines[i])})

(* _load_audit_events: the lines that can be parsed, name the tenant and   *)
(* are in range.  They are in the order of their time already.             *)
EventsOf(x) ==
  Picked(log.lines, {i \in DOMAIN log.lines :
                       LET e == log.lines[i]
                       IN  e # Garbage /\ e.tenant = request[x].tenant /\ InRange(x, e)})

(* _extract_approvals: a row for every approval that a quorum has used.    *)
ApprovalsIn(events) ==
  UNION {{[request |-> e.request, timestamp |-> e.timestamp, approval_id |-> a.approval_id,
           approver_id |-> a.approver_id, role |-> a.role] : a \in e.approvals} : e \in Range(events)}

(* They are sorted by time and id: at one time, Python does not compare an *)
(* id with one that is missing.                                            *)
Sortable(rows) ==
  \A a, b \in rows : a.timestamp = b.timestamp => (a.approval_id = None <=> b.approval_id = None)

(* _parse_iso reads a time without a zone, and the times in the log have   *)
(* one: comparing them is an error.                                        *)
Comparable(x) ==
  request[x].naive => \A i \in DOMAIN log.lines :
                        log.lines[i] # Garbage => log.lines[i].tenant # request[x].tenant

(* The payload names another tenant, no range of time or not one, or a     *)
(* path that is not below the root.                                        *)
ExportRefused(x) ==
  /\ pc[x] = "admitted" /\ x \in Exports
  /\ Goto(x, "failed")
  /\ UNCHANGED <<now, request, quorum, files, emitted, crashes>>

(* Between Clear and Seal.                                                 *)
Exporting == {"removed", "loaded", "written", "approved", "counted"}

(* Another export is at work in the directory of this one, or around it.   *)
Meets(x, y) == y # x /\ pc[y] \in Exporting /\ Overlap(x, y)

(* export_bundle removes what is there, with all that is in it.            *)
Clear(x) ==
  LET met == {y \in Exports : Meets(x, y)} IN
  /\ pc[x] = "admitted" /\ x \in Exports
  /\ bundle' = Restrict(bundle, {path \in DOMAIN bundle : ~IsPrefix(BundleOf(x), path)})
  /\ undisturbed' = {y \in undisturbed \ met : ~IsPrefix(BundleOf(x), BundleOf(y))}
                      \cup (IF met = {} THEN {x} ELSE {})
  /\ Goto(x, "removed")
  /\ UNCHANGED <<now, request, quorum, log, loaded, emitted, crashes>>

(* rmtree fails when another export makes or removes something there.      *)
ClearFails(x) ==
  /\ pc[x] = "removed" /\ \E y \in Exports : Meets(x, y)
  /\ Goto(x, "failed")
  /\ UNCHANGED <<now, request, quorum, files, emitted, crashes>>

(* It makes the directory, with those around it, and reads the log.        *)
Load(x) ==
  LET events == EventsOf(x) IN
  /\ pc[x] = "removed"
  /\ bundle' = [path \in DOMAIN bundle \cup {p \in Paths : IsPrefix(p, BundleOf(x))} |->
                  IF path \in DOMAIN bundle THEN bundle[path] ELSE EmptyBundle]
  /\ loaded' = [loaded EXCEPT ![x] = events]
  /\ Goto(x, IF Comparable(x) /\ Sortable(ApprovalsIn(events)) THEN "loaded" ELSE "failed")
  /\ UNCHANGED <<now, request, quorum, log, undisturbed, emitted, crashes>>

With(directory, file, content) ==
  [f \in DOMAIN directory \cup {file} |-> IF f = file THEN content ELSE directory[f]]

(* A step of export_bundle that writes a file; it fails when another       *)
(* export has removed the directory.                                       *)
Write(x, from, file, content, to) ==
  /\ pc[x] = from
  /\ IF BundleOf(x) \in DOMAIN bundle
     THEN bundle' = [bundle EXCEPT ![BundleOf(x)] = With(@, file, content)] /\ Goto(x, to)
     ELSE Goto(x, "failed") /\ UNCHANGED bundle
  /\ UNCHANGED <<now, request, quorum, log, loaded, undisturbed, emitted, crashes>>

WriteEvents(x) == Write(x, "loaded", "audit", loaded[x], "written")

WriteApprovals(x) == Write(x, "written", "approvals", ApprovalsIn(loaded[x]), "approved")

WriteSummary(x) ==
  Write(x, "approved", "count", <<Len(loaded[x]), Cardinality(ApprovalsIn(loaded[x]))>>, "counted")

(* The files are hashed as they are on disk; one that another export       *)
(* removed fails the request.                                              *)
Seal(x) ==
  LET b == Directory(x) IN
  /\ pc[x] = "counted"
  /\ IF {"audit", "approvals", "count"} \subseteq DOMAIN b
     THEN /\ bundle' = [bundle EXCEPT ![BundleOf(x)] = With(b, "sums", <<b.audit, b.approvals, b.count>>)]
          /\ Goto(x, "replying")
     ELSE Goto(x, "failed") /\ UNCHANGED bundle
  /\ UNCHANGED <<now, request, quorum, log, loaded, undisturbed, emitted, crashes>>

-----------------------------------------------------------------------------
(* The audit log.                                                          *)

(* A request whose context was refused is logged without a tenant; one     *)
(* whose quorum was refused, without a quorum.                             *)
Event(r) ==
  [request |-> r, timestamp |-> now, decision |-> IF pc[r] = "replying" THEN "ALLOW" ELSE "DENY",
   tenant |-> IF pc[r] = "denied" /\ quorum[r] = Unasked THEN None ELSE request[r].tenant,
   approvals |-> IF quorum[r].met THEN quorum[r].used ELSE {}]

(* A line that is appended to a line without an end spoils both.           *)
Appended(file, line) ==
  IF file.open THEN [file.lines EXCEPT ![Len(file.lines)] = Garbage] ELSE Append(file.lines, line)

AppendLine(file, event) == [lines |-> Appended(file, event), open |-> FALSE]

(* A crash leaves part of a line, or all of it but its end.                *)
TornLine(file, line) == [lines |-> Appended(file, line), open |-> TRUE]

(* Mutant: an export that failed is never answered.                        *)
AuditForgets(r) ==
  /\ pc[r] \in {"replying", "denied"}
  /\ log' = AppendLine(log, Event(r))
  /\ Goto(r, "done")
  /\ UNCHANGED <<now, request, quorum, loaded, bundle, undisturbed, emitted, crashes>>

(* Mutant: the log is opened for writing, not for appending.               *)
AuditOverwrites(r) ==
  /\ pc[r] \in {"replying", "denied", "failed"}
  /\ log' = [lines |-> <<Event(r)>>, open |-> FALSE]
  /\ Goto(r, "done")
  /\ UNCHANGED <<now, request, quorum, loaded, bundle, undisturbed, emitted, crashes>>

(* audit_middleware: the log is written, then the answer is sent.          *)
Audit(r) ==
  /\ pc[r] \in {"replying", "denied", "failed"}
  /\ log' = AppendLine(log, Event(r))
  /\ Goto(r, "done")
  /\ UNCHANGED <<now, request, quorum, loaded, bundle, undisturbed, emitted, crashes>>

(* Everything in progress is lost, perhaps within a write to the log.      *)
Crash ==
  /\ crashes < MaxCrashes
  /\ crashes' = crashes + 1
  /\ pc' = [r \in Requests |-> IF pc[r] \in Over THEN pc[r] ELSE "crashed"]
  /\ \/ UNCHANGED log
     \/ \E r \in Requests : /\ pc[r] \in {"replying", "denied", "failed"}
                            /\ \E line \in {Garbage, Event(r)} : log' = TornLine(log, line)
  /\ UNCHANGED <<now, request, quorum, loaded, bundle, undisturbed, emitted>>

-----------------------------------------------------------------------------

Export(x) ==
  \/ ExportRefused(x) \/ Clear(x) \/ ClearFails(x) \/ Load(x)
  \/ WriteEvents(x) \/ WriteApprovals(x) \/ WriteSummary(x) \/ Seal(x)

Serve(r) ==
  \/ HashMismatch(r) \/ Admit(r) \/ Execute(r) \/ ImportFails(r) \/ Audit(r)
  \/ r \in Exports /\ Export(r)

Next ==
  \/ Tick
  \/ \E r \in Requests :
       \/ \E offered \in Offered[r] : Arrive(r, offered)
       \/ SendBody(r)
       \/ Serve(r)
  \/ Crash

Spec == Init /\ [][Next]_vars

(* The event loop and its threads go on with what has arrived in full; a   *)
(* client owes the body of its request to nobody.                          *)
FairSpec == Spec /\ \A r \in Requests : WF_vars(Serve(r))

-----------------------------------------------------------------------------

(* An emission is let through exactly when, of the approvals that count    *)
(* at that moment, each verifies, those listed first under their names     *)
(* have the roles that the rule requires, and the names, or the roles if   *)
(* they have to differ, are enough, however the list repeats them.  So as  *)
(* many names as required are behind it, with a different one for every    *)
(* required role.  They are names: nothing ties a key to one of them.      *)
QuorumExact ==
  \A r \in {e \in Emissions : quorum[e] # Unasked /\ pc[e] \in {"admitted", "denied"}} :
    LET rule == ResolveRule(request[r].tenant)
        given == request[r].approvals
        required == quorum[r].required
        needed == Range(Get(rule, "roles_required", <<>>))
        counted == {i \in DOMAIN given : Counts(given[i], rule, r, quorum[r].at)}
        first == {i \in counted : \A j \in counted : given[j].approver_id = given[i].approver_id => i <= j}
        names == {given[i].approver_id : i \in counted}
        roles == {given[i].role : i \in first} \ {None}
        inRole(f) == \A role \in needed : \E i \in counted : given[i].approver_id = f[role] /\ given[i].role = role
    IN  /\ quorum[r].met <=>
             /\ \A i \in counted : Verifies(given[i])
             /\ needed \subseteq roles
             /\ Cardinality(IF Get(rule, "require_distinct_roles", FALSE) THEN roles ELSE names) >= required
        /\ quorum[r].met =>
             /\ Cardinality(names) >= required
             /\ \E f \in [needed -> names] : inRole(f) /\ \A p, q \in needed : f[p] = f[q] => p = q

Logged(r) == \E i \in 1 .. Len(log.lines) : log.lines[i].request = r

(* Whatever crashes in between: the log says ALLOW of an emission only     *)
(* when it was executed, and names enough approvers of it; and each crash  *)
(* costs at most one of the requests that were answered their line.        *)
AuditKeepsAnswered ==
  /\ \A i \in 1 .. Len(log.lines) :
       LET e == log.lines[i] IN
         e.request \in Emissions =>
           /\ e.decision = "ALLOW" <=> e.request \in emitted
           /\ e.request \in emitted => Cardinality({a.approver_id : a \in e.approvals}) >= quorum[e.request].required
  /\ Cardinality({r \in Requests : pc[r] = "done" /\ ~Logged(r)}) <= crashes

(* A bundle that was exported undisturbed and has its checksums holds      *)
(* events of its tenant only, all those in range that could be read in the *)
(* log when it was started; of each emission among them that met its       *)
(* quorum, executed or not, the approvals that counted, and of no other    *)
(* request any; and the checksums are those of its files.  Such an export  *)
(* fails only because its approvals cannot be sorted or its range names no *)
(* time zone.  Exports into directories within one another, whatever they  *)
(* are called, do disturb each other.                                      *)
BundleVerifies ==
  \A x \in undisturbed :
    LET b == Directory(x)
        fails == request[x].naive \/ ~Sortable(ApprovalsIn(loaded[x]))
        approvers(r) == {a.approver_id : a \in {row \in b.approvals : row.request = r}}
    IN  /\ pc[x] = "failed" => fails
        /\ pc[x] = "replying" \/ (pc[x] = "done" /\ ~fails) => "sums" \in DOMAIN b
        /\ "sums" \in DOMAIN b =>
             /\ b.audit = loaded[x] /\ b.count = <<Len(b.audit), Cardinality(b.approvals)>>
             /\ b.sums = <<b.audit, b.approvals, b.count>>
             /\ \A i \in 1 .. Len(b.audit) :
                  LET e == b.audit[i] IN
                  /\ e # Garbage /\ request[e.request].tenant = request[x].tenant
                  /\ e.request \in Emissions =>
                       IF quorum[e.request].met
                       THEN /\ approvers(e.request) \subseteq
                                 {a.approver_id : a \in Range(request[e.request].approvals)}
                            /\ Cardinality(approvers(e.request)) >= quorum[e.request].required
                       ELSE approvers(e.request) = {}
             /\ \A row \in b.approvals : row.request \in Emissions /\ quorum[row.request].met
             /\ crashes = 0 => IsPrefix(b.audit, EventsOf(x))

(* A request whose body has come, or that needs none to be denied, is      *)
(* answered and logged, unless the process crashes.                        *)
RequestsEnd == \A r \in Requests : pc[r] \notin {"new", "signed"} ~> pc[r] \in {"done", "crashed"}

=============================================================================
