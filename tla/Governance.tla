------------------------------ MODULE Governance ------------------------------
(***************************************************************************)
(* The governance service of PrivateVault (PrivateVault.ai/main.py): the   *)
(* three tiers of check_policy, the queue of reviews that wait for a       *)
(* human, and what it logged.  Its handlers are coroutines without an      *)
(* await, so each is one step.                                             *)
(*                                                                         *)
(* Everything is kept per transaction: the service draws a fresh uuid for  *)
(* every call of shadow_verify.  Risk scores, hashes, reasons and the      *)
(* context graph are left out: no decision depends on them.                *)
(***************************************************************************)
EXTENDS Integers, Sequences

CONSTANTS
  Transactions,
  Amounts       (* the amounts that are tried                                *)

VARIABLES
  pending,      (* pending_reviews                                           *)
  audit         (* what was logged of each transaction, oldest first: the    *)
                (* entries of audit_entries, kept here beyond a restart      *)

AUTO_APPROVE_LIMIT == 10000

HUMAN_REVIEW_LIMIT == 25000

Decisions == {"ALLOW", "REVIEW", "BLOCK"}

(* A recipient is unknown when its name contains "unknown" or "anon"; an   *)
(* action is listed when it is in the whitelist or starts with "tool.".    *)
TransactionRequest ==
  [action : {"listed", "unlisted"}, amount : Amounts \cup {0}, recipient : {"known", "unknown"}]

Refused(request) ==
  request.recipient = "unknown" \/ request.action = "unlisted" \/ request.amount > HUMAN_REVIEW_LIMIT

(* Mutant: the first limit itself is approved.                             *)
CheckPolicyAbove(request) ==
  IF Refused(request) THEN "BLOCK"
  ELSE IF request.amount > AUTO_APPROVE_LIMIT THEN "REVIEW" ELSE "ALLOW"

CheckPolicy(request) ==
  IF Refused(request) THEN "BLOCK"
  ELSE IF request.amount >= AUTO_APPROVE_LIMIT THEN "REVIEW" ELSE "ALLOW"

Log(tx, decision) == audit' = [audit EXCEPT ![tx] = Append(@, decision)]

(* shadow_verify; the caller is told CheckPolicy(request).                 *)
ShadowVerify(tx, request) ==
  /\ Log(tx, CheckPolicy(request))
  /\ pending' = pending \cup {t \in {tx} : CheckPolicy(request) = "REVIEW"}

(* Mutant: the review is looked up, not taken out.                         *)
HumanApproveKeeps(tx, approved) ==
  /\ tx \in pending
  /\ Log(tx, IF approved THEN "ALLOW" ELSE "BLOCK")
  /\ UNCHANGED pending

(* human_approve of a pending review.  For any other it answers 404 and    *)
(* changes nothing.                                                        *)
HumanApprove(tx, approved) ==
  /\ tx \in pending
  /\ pending' = pending \ {tx}
  /\ Log(tx, IF approved THEN "ALLOW" ELSE "BLOCK")

VaultInit ==
  /\ pending = {}
  /\ audit = [tx \in Transactions |-> <<>>]

VaultTypeOK ==
  /\ pending \subseteq Transactions
  /\ audit \in [Transactions -> Seq(Decisions)]

=============================================================================
