--------------------------- MODULE MCControlPlane ---------------------------
(***************************************************************************)
(* A small instance of ControlPlane: two tenants with rules of their own,  *)
(* and lists of approvals that each fail in another way.                   *)
(***************************************************************************)
EXTENDS ControlPlane

CONSTANTS e1, x1, x2

MCTenants == {"acme", "other"}

(* All that approve hold the first key.                                    *)
MCContextKeys == {"k1", "k2"}

(* acme asks for two roles within a second; other takes what is configured *)
(* for the action, which its own default of one role for all overrides.    *)
MCLayers ==
  [defaults |-> [require_approval_id |-> TRUE],
   actions |-> [min_approvals |-> 2, approver_regions |-> {"eu"}],
   tenantDefaults |-> [t \in MCTenants |->
     IF t = "acme" THEN [roles_required |-> <<"CRO", "legal">>, roles_optional |-> <<"audit">>]
     ELSE [min_approvals |-> 1, require_distinct_roles |-> TRUE, require_approval_id |-> FALSE]],
   tenantActions |-> [t \in MCTenants |->
     IF t = "acme" THEN [max_approvals_age_seconds |-> 1] ELSE [allow_approver_ids |-> {"ann", "bob"}]]]

By(id, role, intent) ==
  [approver_id |-> id, role |-> role, region |-> "eu", approval_id |-> id, intent |-> intent,
   revoked |-> FALSE, key_id |-> "k1", signature |-> <<"k1", intent>>, issued_at |-> -1, expires_at |-> None]

Ann == By("ann", "CRO", e1)
AnnToo == By("ann", "legal", e1)
Bob == By("bob", "legal", e1)
Cy == By("cy", "audit", e1)

Lists ==
  { <<Ann, AnnToo, Cy>>, <<Bob, Ann, [Cy EXCEPT !.expires_at = 0]>>,
    <<Ann, [Bob EXCEPT !.signature = <<"k2", e1>>]>>,
    (* each of these is skipped, for another reason                          *)
    <<Ann, [Bob EXCEPT !.intent = None], [Bob EXCEPT !.revoked = TRUE], [Bob EXCEPT !.region = "us"],
      [Bob EXCEPT !.approval_id = None], [Bob EXCEPT !.role = None], [Bob EXCEPT !.issued_at = None],
      [Bob EXCEPT !.approval_id = "old"], [Bob EXCEPT !.signature = None],
      [Bob EXCEPT !.approver_id = "dan"], [Bob EXCEPT !.key_id = "lost"], [Bob EXCEPT !.expires_at = -1]>> }

(* Who may approve at all, and an approval that was withdrawn.            *)
MCEnvironment ==
  [PV_QUORUM_MIN |-> 1, PV_QUORUM_APPROVER_ALLOWLIST |-> {"ann", "bob", "cy"},
   PV_QUORUM_REVOKED_IDS |-> {"old"}]

Of(tenant, approvals) ==
  [tenant |-> tenant, timestamp |-> 0, approvals |-> approvals, start |-> 0, end |-> 1,
   naive |-> FALSE, name |-> None]

Bundle(tenant, start, path) == [Of(tenant, <<>>) EXCEPT !.name = path, !.start = start]

MCOffered ==
  e1 :> ({Of("acme", list) : list \in Lists}
         \cup {Of("other", list) : list \in {<<AnnToo, Ann>>, <<Cy, [Ann EXCEPT !.approval_id = None], Bob>>}})
  @@ x1 :> {Bundle("acme", 0, <<"b">>)}
  @@ x2 :> {[Bundle("acme", 1, <<"b">>) EXCEPT !.naive = TRUE], Bundle("other", 0, <<>>)}

=============================================================================
