----------------------------- MODULE EmitQuorum -----------------------------
(***************************************************************************)
(* The human quorum that PrivateVault's control plane asks for before an   *)
(* emission (quorum.py): which approvals count under the rule of a tenant, *)
(* and whether they suffice.  require_quorum_for_emit and validate_quorum  *)
(* hold the same code twice.                                               *)
(*                                                                         *)
(* A rule has only the keys that are configured, and the environment only  *)
(* the variables that are set; None is a field that is missing from an     *)
(* approval.  Hashes are abstracted to the intent they are of, a signature *)
(* to the key that made it and the intent that was signed.  Nothing else   *)
(* is signed, and no key belongs to a name or a role: who holds one key    *)
(* can approve under several names.                                        *)
(***************************************************************************)
EXTENDS Integers, Sequences, FiniteSets, Functions, FiniteSetsExt, TLC

CONSTANTS
  Layers,       (* the configured rules: defaults, actions, and per tenant   *)
  Environment,  (* PV_QUORUM_RULES (its number for the action),              *)
                (* PV_QUORUM_MIN, PV_QUORUM_APPROVER_ALLOWLIST,              *)
                (* PV_QUORUM_REVOKED_IDS                                     *)
  ContextKeys,  (* the keys whose secret is configured                       *)
  None

DEFAULT_QUORUM_MIN == 2

(* dict.get                                                                *)
Get(rule, key, default) == IF key \in DOMAIN rule THEN rule[key] ELSE default

(* _resolve_v2_rule: the defaults of a tenant win over what is configured  *)
(* for the action globally.                                                *)
ResolveRule(tenant) ==
  Layers.tenantActions[tenant] @@ Layers.tenantDefaults[tenant] @@ Layers.actions @@ Layers.defaults

(* _get_quorum_min: what was configured before there were rules.           *)
QuorumMin == Get(Environment, "PV_QUORUM_RULES", Get(Environment, "PV_QUORUM_MIN", DEFAULT_QUORUM_MIN))

(* _get_rule_min_approvals                                                 *)
MinApprovals(rule) == Get(rule, "min_approvals", QuorumMin)

(* _get_approver_allowlist: an empty list allows everybody.                *)
OnAllowlist(approver) ==
  LET list == Get(Environment, "PV_QUORUM_APPROVER_ALLOWLIST", {}) IN list # {} => approver \in list

(* _get_revoked_approval_ids                                               *)
RevokedIds == Get(Environment, "PV_QUORUM_REVOKED_IDS", {})

Roles(rule) == Range(Get(rule, "roles_required", <<>>)) \cup Range(Get(rule, "roles_optional", <<>>))

(* _approval_is_expired, _approval_is_too_old: a maximal age of 0 is none. *)
Stale(a, rule, now) ==
  LET maxAge == Get(rule, "max_approvals_age_seconds", 0)
  IN  \/ a.expires_at # None /\ now > a.expires_at
      \/ maxAge # 0 /\ (a.issued_at = None \/ now - a.issued_at > maxAge)

(* The approvals that the loop does not skip.                              *)
Counts(a, rule, intent, now) ==
  /\ None \notin {a.approver_id, a.key_id, a.signature}
  /\ a.intent = intent
  /\ Get(rule, "require_approval_id", FALSE) => a.approval_id # None
  /\ ~a.revoked /\ a.approval_id \notin RevokedIds
  /\ ~Stale(a, rule, now)
  /\ Get(rule, "approver_regions", {}) # {} => a.region \in rule.approver_regions
  /\ Roles(rule) # {} => a.role \in Roles(rule)
  /\ OnAllowlist(a.approver_id)
  /\ Get(rule, "allow_approver_ids", {}) # {} => a.approver_id \in rule.allow_approver_ids
  /\ a.key_id \in ContextKeys

(* _verify_approval_signature                                              *)
Verifies(a) == a.signature = <<a.key_id, a.intent>>

(* Mutant: the role is noted before the name is known to be new.           *)
CollectRoles(seen, a) ==
  IF ~Verifies(a) THEN [seen EXCEPT !.forged = TRUE]
  ELSE [seen EXCEPT !.approvers = @ \cup {a.approver_id}, !.roles = @ \cup ({a.role} \ {None}),
                     !.used = @ \cup {a}]

(* A turn of the loop: a name counts once, in the role that is listed      *)
(* first; a signature that does not verify ends the request.               *)
Collect(seen, a) ==
  IF ~Verifies(a) THEN [seen EXCEPT !.forged = TRUE]
  ELSE IF a.approver_id \in seen.approvers THEN seen
  ELSE [seen EXCEPT !.approvers = @ \cup {a.approver_id}, !.roles = @ \cup ({a.role} \ {None}),
                     !.used = @ \cup {a}]

NothingSeen == [approvers |-> {}, roles |-> {}, used |-> {}, forged |-> FALSE]

(* The loop over the approvals.                                            *)
Collected(approvals, rule, intent, now) ==
  LET seen[n \in 0 .. Len(approvals)] ==
        IF n = 0 THEN NothingSeen
        ELSE IF Counts(approvals[n], rule, intent, now) THEN Collect(seen[n - 1], approvals[n])
        ELSE seen[n - 1]
  IN  seen[Len(approvals)]

(* require_quorum_for_emit                                                 *)
Quorum(approvals, rule, intent, now) ==
  LET seen == Collected(approvals, rule, intent, now)
      needed == Get(rule, "roles_required", <<>>)
      required == Max({MinApprovals(rule), Len(needed)})
      approved == IF Get(rule, "require_distinct_roles", FALSE)
                  THEN Cardinality(seen.roles) ELSE Cardinality(seen.approvers)
  IN  [met |-> ~seen.forged /\ Range(needed) \subseteq seen.roles /\ approved >= required,
       required |-> required, used |-> seen.used, at |-> now]

=============================================================================
