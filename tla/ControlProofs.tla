---------------------------- MODULE ControlProofs ----------------------------
(***************************************************************************)
(* What holds of the control plane for any number of requests, tenants,    *)
(* rules and approvals, any clock and any number of crashes.               *)
(***************************************************************************)
EXTENDS ControlPlane, Induction

-----------------------------------------------------------------------------
(* The loop over the approvals.                                            *)

(* The places of the first n approvals that count, and of those that are   *)
(* listed first under their names.                                         *)
CountedUpTo(s, n, rule, intent, time) == {i \in 1 .. n : Counts(s[i], rule, intent, time)}

FirstOf(s, C) == {i \in C : \A j \in C : s[j].approver_id = s[i].approver_id => i <= j}

NamesAt(s, C) == {s[i].approver_id : i \in C}

RolesAt(s, C) == {s[i].role : i \in C}

(* What has been seen of them.                                             *)
SeenOK(seen, s, C) ==
  /\ seen.forged <=> \E i \in C : ~Verifies(s[i])
  /\ ~seen.forged => /\ seen.approvers = NamesAt(s, C)
                     /\ seen.roles = RolesAt(s, FirstOf(s, C)) \ {None}
                     /\ seen.used = {s[i] : i \in FirstOf(s, C)}

IsSeen(seen) == /\ seen = [approvers |-> seen.approvers, roles |-> seen.roles,
                           used |-> seen.used, forged |-> seen.forged]
                /\ seen.forged \in BOOLEAN

LEMMA CollectOK ==
  ASSUME NEW seen, IsSeen(seen), NEW s, NEW n \in Nat, NEW C, C \subseteq 1 .. n, SeenOK(seen, s, C)
  PROVE  IsSeen(Collect(seen, s[n + 1])) /\ SeenOK(Collect(seen, s[n + 1]), s, C \cup {n + 1})
<1>. DEFINE a == s[n + 1]
            D == C \cup {n + 1}
            after == Collect(seen, a)
<1>1. \A i \in C : i \in Int /\ i <= n + 1 /\ i # n + 1 /\ ~(n + 1 <= i)
  OBVIOUS
<1>2. NamesAt(s, D) = NamesAt(s, C) \cup {a.approver_id}
  BY DEF NamesAt
<1>3. FirstOf(s, D) = FirstOf(s, C) \cup (IF a.approver_id \in NamesAt(s, C) THEN {} ELSE {n + 1})
  <2>1. ASSUME NEW i \in C
        PROVE  i \in FirstOf(s, D) <=> i \in FirstOf(s, C)
    BY <1>1, <2>1 DEF FirstOf
  <2>2. n + 1 \in FirstOf(s, D) <=> a.approver_id \notin NamesAt(s, C)
    <3>1. n + 1 <= n + 1 /\ n + 1 \notin C
      BY <1>1
    <3>. QED  BY <1>1, <3>1 DEF FirstOf, NamesAt
  <2>3. FirstOf(s, D) \subseteq C \cup {n + 1} /\ FirstOf(s, C) \subseteq C /\ n + 1 \notin C
    BY <1>1 DEF FirstOf
  <2>. HIDE DEF D
  <2>. QED  BY <2>1, <2>2, <2>3
<1>4. (\E i \in D : ~Verifies(s[i])) <=> (\E i \in C : ~Verifies(s[i])) \/ ~Verifies(a)
  OBVIOUS
<1>5. CASE ~Verifies(a)
  <2>1. after.forged = TRUE /\ IsSeen(after)
    BY <1>5 DEF Collect, IsSeen
  <2>. HIDE DEF after, a, D
  <2>. QED  BY <1>4, <1>5, <2>1 DEF SeenOK, after, D, a
<1>6. CASE Verifies(a) /\ a.approver_id \in seen.approvers
  <2>1. after = seen
    BY <1>6 DEF Collect
  <2>2. ~seen.forged => /\ seen.approvers = NamesAt(s, D) /\ FirstOf(s, D) = FirstOf(s, C)
    <3>. HIDE DEF D, a
    <3>. QED  BY <1>2, <1>3, <1>6 DEF SeenOK
  <2>. HIDE DEF after, a, D
  <2>3. IsSeen(after) /\ SeenOK(after, s, D)
    BY <1>4, <1>6, <2>1, <2>2 DEF SeenOK
  <2>. QED  BY <2>3 DEF after, D, a
<1>7. CASE Verifies(a) /\ a.approver_id \notin seen.approvers
  <2>1. /\ after.used = seen.used \cup {a} /\ after.approvers = seen.approvers \cup {a.approver_id}
        /\ after.roles = seen.roles \cup ({a.role} \ {None})
        /\ after.forged = seen.forged /\ IsSeen(after)
    BY <1>7 DEF Collect, IsSeen
  <2>2. ~seen.forged => FirstOf(s, D) = FirstOf(s, C) \cup {n + 1}
    <3>. HIDE DEF D, a
    <3>. QED  BY <1>3, <1>7 DEF SeenOK
  <2>3. ~seen.forged => /\ RolesAt(s, FirstOf(s, D)) = RolesAt(s, FirstOf(s, C)) \cup {a.role}
                        /\ {s[i] : i \in FirstOf(s, D)} = {s[i] : i \in FirstOf(s, C)} \cup {a}
    BY <2>2 DEF RolesAt
  <2>. HIDE DEF after, a, D
  <2>4. SeenOK(after, s, D)
    BY <1>2, <1>4, <1>7, <2>1, <2>3 DEF SeenOK
  <2>. QED  BY <2>1, <2>4 DEF after, D, a
<1>. QED  BY <1>5, <1>6, <1>7

LEMMA CollectedOK ==
  ASSUME NEW s, Len(s) \in Nat, NEW rule, NEW intent, NEW time
  PROVE  SeenOK(Collected(s, rule, intent, time), s, CountedUpTo(s, Len(s), rule, intent, time))
<1>. DEFINE m == Len(s)
            turn(n, f) == IF Counts(s[n], rule, intent, time) THEN Collect(f, s[n]) ELSE f
            seen[n \in 0 .. m] == IF n = 0 THEN NothingSeen ELSE turn(n, seen[n - 1])
            A == {s[n].approver_id : n \in 1 .. m}
            R == {s[n].role : n \in 1 .. m}
            U == {s[n] : n \in 1 .. m}
            S == [approvers : SUBSET A, roles : SUBSET R, used : SUBSET U, forged : BOOLEAN]
            step == [n \in 1 .. m |-> [f \in S |-> turn(n, f)]]
            C(n) == CountedUpTo(s, n, rule, intent, time)
<1>1. m \in Nat /\ NothingSeen \in S
  BY DEF NothingSeen
<1>2. Collected(s, rule, intent, time) = seen[m]
  BY DEF Collected
<1>3. ASSUME NEW n \in 1 .. m, NEW f \in S
      PROVE  turn(n, f) \in S
  <2>1. s[n].approver_id \in A /\ s[n].role \in R /\ s[n] \in U
    OBVIOUS
  <2>. HIDE DEF A, R, U, m
  <2>. QED  BY <2>1 DEF Collect
<1>. HIDE DEF turn, m, S
<1>4. IsLoop(m, S, NothingSeen, step)
  BY <1>1, <1>3 DEF IsLoop
<1>5. PICK f : IsRunOf(f, m, S, NothingSeen, step)
  <2>. HIDE DEF step
  <2>. QED  BY <1>4, LoopExists
<1>6. f = [n \in 0 .. m |-> IF n = 0 THEN NothingSeen ELSE turn(n, f[n - 1])]
  <2>1. f = [n \in 0 .. m |-> f[n]] /\ f[0] = NothingSeen
    BY <1>5 DEF IsRunOf
  <2>2. ASSUME NEW n \in 0 .. m, n # 0
        PROVE  f[n] = turn(n, f[n - 1])
    <3>1. n \in 1 .. m
      BY <1>1, <2>2
    <3>2. f[n - 1] \in S /\ f[n] = step[n][f[n - 1]]
      <4>. HIDE DEF step
      <4>. QED  BY <1>1, <1>5, <3>1 DEF IsRunOf
    <3>. QED  BY <3>1, <3>2
  <2>. QED  BY <2>1, <2>2
<1>7. seen = [n \in 0 .. m |-> IF n = 0 THEN NothingSeen ELSE turn(n, seen[n - 1])]
  BY <1>6, Zenon
<1>. HIDE DEF seen
<1>8. /\ seen[0] = NothingSeen
      /\ \A n \in 1 .. m : seen[n] = turn(n, seen[n - 1])
  BY <1>1, <1>7
<1>. DEFINE T == {n \in 0 .. m : IsSeen(seen[n]) /\ SeenOK(seen[n], s, C(n))}
<1>9. 0 \in T
  <2>1. C(0) = {} /\ FirstOf(s, {}) = {} /\ NamesAt(s, {}) = {} /\ RolesAt(s, {}) = {}
    BY DEF CountedUpTo, FirstOf, NamesAt, RolesAt
  <2>2. /\ NothingSeen.used = {} /\ NothingSeen.approvers = {} /\ NothingSeen.roles = {}
        /\ NothingSeen.forged = FALSE /\ IsSeen(NothingSeen)
    BY DEF NothingSeen, IsSeen
  <2>. HIDE DEF C
  <2>3. SeenOK(NothingSeen, s, C(0))
    BY <2>1, <2>2 DEF SeenOK
  <2>. QED  BY <1>1, <1>8, <2>2, <2>3
<1>10. ASSUME NEW n \in 0 .. m - 1, n \in T
       PROVE  n + 1 \in T
  <2>1. n \in Nat /\ n + 1 \in 1 .. m /\ (n + 1) - 1 = n /\ n + 1 \in 0 .. m
    BY <1>1
  <2>2. IsSeen(seen[n]) /\ SeenOK(seen[n], s, C(n)) /\ C(n) \subseteq 1 .. n
    BY <1>10 DEF CountedUpTo
  <2>3. seen[n + 1] = turn(n + 1, seen[n])
    BY <1>8, <2>1
  <2>4. C(n + 1) = C(n) \cup (IF Counts(s[n + 1], rule, intent, time) THEN {n + 1} ELSE {})
    BY <2>1 DEF CountedUpTo
  <2>. HIDE DEF C
  <2>5. CASE Counts(s[n + 1], rule, intent, time)
    <3>1. seen[n + 1] = Collect(seen[n], s[n + 1]) /\ C(n + 1) = C(n) \cup {n + 1}
      BY <2>3, <2>4, <2>5 DEF turn
    <3>2. PICK D, soFar : D = C(n) /\ soFar = seen[n]
      OBVIOUS
    <3>3. IsSeen(soFar) /\ D \subseteq 1 .. n /\ SeenOK(soFar, s, D)
      BY <2>2, <3>2
    <3>4. IsSeen(Collect(soFar, s[n + 1])) /\ SeenOK(Collect(soFar, s[n + 1]), s, D \cup {n + 1})
      BY <2>1, <3>3, CollectOK
    <3>. QED  BY <2>1, <3>1, <3>2, <3>4
  <2>6. CASE ~Counts(s[n + 1], rule, intent, time)
    <3>1. seen[n + 1] = seen[n] /\ C(n + 1) = C(n)
      BY <2>3, <2>4, <2>6 DEF turn
    <3>. QED  BY <2>1, <2>2, <3>1
  <2>. QED  BY <2>5, <2>6
<1>. HIDE DEF T
<1>11. 0 .. m \subseteq T
  BY <1>1, <1>9, <1>10, UpToInduct
<1>12. m \in T
  BY <1>1, <1>11
<1>. QED  BY <1>2, <1>12 DEF T, m

-----------------------------------------------------------------------------
(* What the answer of the quorum means.                                    *)

(* The approvers of a set of approvals.                                    *)
Approvers(A) == {a.approver_id : a \in A}

(* Every name is listed first somewhere; so the names are as many as the   *)
(* approvals listed first, and at least as many as the roles of these.     *)
LEMMA CountFirst ==
  ASSUME NEW s, NEW n \in Nat, NEW C, C \subseteq 1 .. n
  PROVE  LET F == FirstOf(s, C) IN
         /\ \A i, j \in F : s[i].approver_id = s[j].approver_id => i = j
         /\ NamesAt(s, F) = NamesAt(s, C)
         /\ IsFiniteSet({s[i] : i \in F}) /\ IsFiniteSet(NamesAt(s, C))
         /\ Cardinality(NamesAt(s, C)) \in Nat
         /\ Cardinality(RolesAt(s, F) \ {None}) \in Nat
         /\ Cardinality(RolesAt(s, F) \ {None}) <= Cardinality(NamesAt(s, C))
<1>. DEFINE F == FirstOf(s, C)
            names == NamesAt(s, C)
            roles == RolesAt(s, F)
            A == {s[i] : i \in F}
<1>1. F \subseteq C /\ \A i \in C : i \in Nat
  BY DEF FirstOf
<1>2. \A i, j \in F : s[i].approver_id = s[j].approver_id => i = j
  <2>. SUFFICES ASSUME NEW i \in F, NEW j \in F, s[i].approver_id = s[j].approver_id
                PROVE  i = j
    OBVIOUS
  <2>1. i <= j /\ j <= i
    BY <1>1 DEF FirstOf
  <2>2. i \in Nat /\ j \in Nat
    BY <1>1
  <2>. QED  BY <2>1, <2>2
<1>3. NamesAt(s, F) = names
  <2>1. ASSUME NEW i \in C
        PROVE  \E j \in F : s[j].approver_id = s[i].approver_id
    <3>. DEFINE same == {j \in C : s[j].approver_id = s[i].approver_id}
    <3>1. same \subseteq Nat /\ i \in same
      BY <1>1
    <3>. HIDE DEF same
    <3>2. PICK j \in same : \A k \in same : j <= k
      BY <3>1, NatLeast
    <3>. QED  BY <3>2 DEF same, FirstOf
  <2>. HIDE DEF F
  <2>. QED  BY <1>1, <2>1 DEF NamesAt
<1>4. IsFiniteSet(F)
  <2>1. IsFiniteSet(1 .. n)
    BY FS_Interval
  <2>. HIDE DEF F
  <2>. QED  BY <1>1, <2>1, FS_Subset
<1>. DEFINE f == [i \in F |-> s[i].approver_id]
            g == [i \in F |-> s[i].role]
            h == [i \in F |-> s[i]]
<1>5. f \in Surjection(F, names) /\ g \in Surjection(F, roles) /\ h \in Surjection(F, A)
  <2>1. f \in Surjection(F, NamesAt(s, F))
    BY DEF Surjection, NamesAt
  <2>2. g \in Surjection(F, roles) /\ h \in Surjection(F, A)
    BY DEF Surjection, RolesAt
  <2>. QED  BY <1>3, <2>1, <2>2
<1>6. f \in Injection(F, names)
  <2>1. f \in [F -> names]
    BY <1>3 DEF NamesAt
  <2>2. \A i, j \in F : f[i] = f[j] => i = j
    BY <1>2
  <2>. HIDE DEF f
  <2>. QED  BY <2>1, <2>2 DEF Injection, IsInjective
<1>. HIDE DEF F, f, g, h, names, roles, A
<1>7. IsFiniteSet(names) /\ Cardinality(names) = Cardinality(F)
  BY <1>4, <1>5, <1>6, FS_Surjection
<1>8. IsFiniteSet(roles) /\ Cardinality(roles) <= Cardinality(F) /\ IsFiniteSet(A)
  BY <1>4, <1>5, FS_Surjection
<1>9. /\ IsFiniteSet(roles \ {None}) /\ Cardinality(roles \ {None}) <= Cardinality(roles)
  <2>1. roles \ {None} \subseteq roles
    OBVIOUS
  <2>. QED  BY <1>8, <2>1, FS_Subset
<1>10. /\ Cardinality(names) \in Nat /\ Cardinality(F) \in Nat /\ Cardinality(roles) \in Nat
       /\ Cardinality(roles \ {None}) \in Nat
  BY <1>4, <1>7, <1>8, <1>9, FS_CardinalityType
<1>11. Cardinality(roles \ {None}) <= Cardinality(names)
  BY <1>7, <1>8, <1>9, <1>10
<1>. QED  BY <1>2, <1>3, <1>7, <1>8, <1>10, <1>11 DEF names, roles, F, A

(* QuorumExact of one answer.                                              *)
Needed(rule) == Range(Get(rule, "roles_required", <<>>))

InRole(f, s, rule, C) ==
  \A role \in Needed(rule) : \E i \in C : s[i].approver_id = f[role] /\ s[i].role = role

QuorumMeans(q, s, rule, r) ==
  LET C == {i \in DOMAIN s : Counts(s[i], rule, r, q.at)}
      names == NamesAt(s, C)
      roles == RolesAt(s, FirstOf(s, C)) \ {None}
  IN  /\ q.met <=>
           /\ \A i \in C : Verifies(s[i])
           /\ Needed(rule) \subseteq roles
           /\ Cardinality(IF Get(rule, "require_distinct_roles", FALSE) THEN roles ELSE names) >= q.required
      /\ q.met =>
           /\ Cardinality(names) >= q.required
           /\ \E f \in [Needed(rule) -> names] :
                InRole(f, s, rule, C) /\ \A p, t \in Needed(rule) : f[p] = f[t] => p = t

(* And what the audit log says of it.                                      *)
QuorumUsed(q, s) ==
  q.met => /\ q.used \subseteq Range(s) /\ IsFiniteSet(q.used)
           /\ Cardinality(Approvers(q.used)) >= q.required

LEMMA QuorumOK ==
  ASSUME NEW s, IsList(s), NEW rule, IsRule(rule), NEW r, NEW time \in Int
  PROVE  /\ QuorumMeans(Quorum(s, rule, r, time), s, rule, r)
         /\ QuorumUsed(Quorum(s, rule, r, time), s)
<1>. DEFINE q == Quorum(s, rule, r, time)
            seen == Collected(s, rule, r, time)
            needed == Get(rule, "roles_required", <<>>)
            least == MinApprovals(rule)
            required == Max({least, Len(needed)})
            C == {i \in DOMAIN s : Counts(s[i], rule, r, time)}
            F == FirstOf(s, C)
            names == NamesAt(s, C)
            roles == RolesAt(s, F) \ {None}
            byRole == Get(rule, "require_distinct_roles", FALSE)
<1>1. /\ q.required = required /\ q.used = seen.used /\ q.at = time
      /\ q.met <=> /\ ~seen.forged /\ Range(needed) \subseteq seen.roles
                   /\ (IF byRole THEN Cardinality(seen.roles) ELSE Cardinality(seen.approvers)) >= required
  BY DEF Quorum
<1>2. required \in Int
  <2>1. least \in Int /\ Len(needed) \in Int
    BY DEF IsRule, IsList
  <2>. HIDE DEF least, needed
  <2>2. required = IF least >= Len(needed) THEN least ELSE Len(needed)
    BY <2>1, MaxOfTwo
  <2>. HIDE DEF required
  <2>. QED  BY <2>1, <2>2
<1>3. SeenOK(seen, s, C) /\ C \subseteq 1 .. Len(s) /\ Len(s) \in Nat
  <2>1. C = CountedUpTo(s, Len(s), rule, r, time)
    BY DEF CountedUpTo, IsList
  <2>2. SeenOK(seen, s, CountedUpTo(s, Len(s), rule, r, time))
    BY CollectedOK DEF IsList
  <2>. HIDE DEF C, seen
  <2>. QED  BY <2>1, <2>2 DEF CountedUpTo, IsList
<1>. HIDE DEF seen, required, q, least, byRole, C
<1>4. /\ \A i, j \in F : s[i].approver_id = s[j].approver_id => i = j
      /\ NamesAt(s, F) = names
      /\ IsFiniteSet({s[i] : i \in F}) /\ IsFiniteSet(names) /\ Cardinality(names) \in Nat
      /\ Cardinality(roles) \in Nat /\ Cardinality(roles) <= Cardinality(names)
  BY <1>3, CountFirst
<1>5. F \subseteq C
  BY DEF FirstOf
<1>6. /\ seen.forged <=> \E i \in C : ~Verifies(s[i])
      /\ ~seen.forged => seen.approvers = names /\ seen.roles = roles /\ seen.used = {s[i] : i \in F}
  BY <1>3 DEF SeenOK
<1>. HIDE DEF F
<1>7. q.met <=> /\ \A i \in C : Verifies(s[i])
                /\ Needed(rule) \subseteq roles
                /\ Cardinality(IF byRole THEN roles ELSE names) >= required
  <2>. HIDE DEF names, roles, needed
  <2>. QED  BY <1>1, <1>6 DEF Needed, needed
<1>8. ASSUME q.met
      PROVE  Cardinality(names) >= required
  <2>1. Cardinality(roles) >= required \/ Cardinality(names) >= required
    BY <1>7, <1>8
  <2>. HIDE DEF names, roles
  <2>. QED  BY <1>2, <1>4, <2>1
<1>9. ASSUME q.met
      PROVE  \E f \in [Needed(rule) -> names] :
               InRole(f, s, rule, C) /\ \A p, t \in Needed(rule) : f[p] = f[t] => p = t
  <2>. DEFINE of(role) == CHOOSE i \in F : s[i].role = role
              f == [role \in Needed(rule) |-> s[of(role)].approver_id]
  <2>1. \A role \in Needed(rule) : \E i \in F : s[i].role = role
    BY <1>7, <1>9 DEF RolesAt
  <2>2. \A role \in Needed(rule) : of(role) \in F /\ s[of(role)].role = role
    BY <2>1
  <2>. HIDE DEF of
  <2>3. f \in [Needed(rule) -> names]
    BY <1>5, <2>2 DEF NamesAt
  <2>4. \A p, t \in Needed(rule) : f[p] = f[t] => p = t
    BY <1>4, <2>2
  <2>5. InRole(f, s, rule, C)
    BY <1>5, <2>2 DEF InRole
  <2>. HIDE DEF f
  <2>. QED  BY <2>3, <2>4, <2>5
<1>10. QuorumUsed(q, s)
  <2>. SUFFICES ASSUME q.met
                PROVE  /\ q.used \subseteq Range(s) /\ IsFiniteSet(q.used)
                       /\ Cardinality(Approvers(q.used)) >= q.required
    BY DEF QuorumUsed
  <2>1. q.used = {s[i] : i \in F}
    BY <1>1, <1>6, <1>7
  <2>2. Approvers(q.used) = names
    BY <1>4, <2>1 DEF Approvers, NamesAt
  <2>3. q.used \subseteq Range(s)
    BY <1>3, <1>5, <2>1 DEF Range, IsList
  <2>. QED  BY <1>1, <1>4, <1>8, <2>1, <2>2, <2>3
<1>11. QuorumMeans(q, s, rule, r)
  <2>1. C = {i \in DOMAIN s : Counts(s[i], rule, r, q.at)}
    BY <1>1 DEF C
  <2>. HIDE DEF InRole
  <2>. QED  BY <1>1, <1>7, <1>8, <1>9, <2>1 DEF QuorumMeans, F, byRole
<1>. QED  BY <1>10, <1>11 DEF q

-----------------------------------------------------------------------------
(* Where requests are, and what that says of their quorum.                 *)

Ended == {"done", "crashed"}

CtlTypes ==
  /\ now \in Int /\ crashes \in Nat
  /\ pc \in [Requests -> Places]
  /\ DOMAIN request = Requests /\ DOMAIN quorum = Requests /\ DOMAIN loaded = Exports
  /\ \A r \in Requests : pc[r] # "new" => request[r] \in Offered[r]

EmissionPlaces ==
  {"new", "signed", "received", "admitted", "denied", "replying", "failed", "done", "crashed"}

QuorumInv ==
  /\ \A r \in Requests : pc[r] \in {"new", "signed", "received"} \/ r \in Exports => quorum[r] = Unasked
  /\ \A r \in Requests : pc[r] = "denied" => ~quorum[r].met
  /\ \A r \in Emissions :
       quorum[r] # Unasked =>
         /\ QuorumMeans(quorum[r], request[r].approvals, ResolveRule(request[r].tenant), r)
         /\ QuorumUsed(quorum[r], request[r].approvals)

EmissionInv ==
  /\ emitted \subseteq Emissions
  /\ \A r \in Emissions :
       /\ pc[r] \in EmissionPlaces
       /\ pc[r] \in {"admitted", "replying"} => quorum[r].met
       /\ pc[r] = "replying" => r \in emitted
       /\ r \in emitted => pc[r] \in {"replying", "done", "crashed"} /\ quorum[r].met

CoreInv == CtlTypes /\ QuorumInv /\ EmissionInv

LEMMA Distinct3 ==
  /\ Emissions \cap Exports = {} /\ None \notin Requests /\ None \notin Tenants
  /\ Requests = Emissions \cup Exports
  BY ControlPlaneAssumption DEF Requests

LEMMA CoreInit == Init => CoreInv
<1>. SUFFICES ASSUME Init PROVE CoreInv
  OBVIOUS
<1>1. CtlTypes
  BY DEF Init, CtlTypes, Places
<1>2. QuorumInv
  BY Distinct3 DEF Init, QuorumInv, Unasked
<1>3. EmissionInv
  BY Distinct3 DEF Init, EmissionInv, EmissionPlaces
<1>. QED  BY <1>1, <1>2, <1>3 DEF CoreInv

(* The answers that a quorum gives.                                        *)
LEMMA AskedOK ==
  ASSUME CoreInv, NEW r \in Emissions, pc[r] = "received"
  PROVE  LET q == Quorum(request[r].approvals, ResolveRule(request[r].tenant), r, now)
         IN  /\ QuorumMeans(q, request[r].approvals, ResolveRule(request[r].tenant), r)
             /\ QuorumUsed(q, request[r].approvals)
<1>. DEFINE s == request[r].approvals
            rule == ResolveRule(request[r].tenant)
<1>1. request[r] \in Offered[r] /\ r \in Emissions \cup Exports /\ now \in Int
  BY DEF CoreInv, CtlTypes, Requests
<1>2. IsList(s) /\ request[r].tenant \in Tenants
  BY <1>1, ControlPlaneAssumption
<1>3. IsRule(rule)
  BY <1>2, ControlPlaneAssumption
<1>. HIDE DEF s, rule
<1>4. /\ QuorumMeans(Quorum(s, rule, r, now), s, rule, r)
      /\ QuorumUsed(Quorum(s, rule, r, now), s)
  BY <1>1, <1>2, <1>3, QuorumOK
<1>. QED  BY <1>4 DEF s, rule

LEMMA CoreStep == CoreInv /\ [Next]_vars => CoreInv'
<1>. SUFFICES ASSUME CoreInv, [Next]_vars
              PROVE  CoreInv'
  OBVIOUS
<1>. USE Distinct3 DEF CoreInv, CtlTypes, QuorumInv, EmissionInv, EmissionPlaces, Places, Ended, Goto
<1>1. CASE Tick
  BY <1>1 DEF Tick, service, files
<1>2. ASSUME NEW r \in Requests, NEW offered \in Offered[r], Arrive(r, offered)
      PROVE  CoreInv'
  <2>1. CtlTypes'
    BY <1>2 DEF Arrive, files
  <2>2. EmissionInv'
    BY <1>2 DEF Arrive, files
  <2>3. QuorumInv'
    BY <1>2 DEF Arrive, files, Unasked
  <2>. QED  BY <2>1, <2>2, <2>3
<1>3. ASSUME NEW r \in Requests, SendBody(r) \/ HashMismatch(r)
      PROVE  CoreInv'
  <2>1. /\ pc[r] \in {"signed", "received"}
        /\ \E p \in {"received", "denied"} : pc' = [pc EXCEPT ![r] = p]
        /\ UNCHANGED <<now, request, quorum, files, emitted, crashes>>
    BY <1>3 DEF SendBody, HashMismatch
  <2>2. CtlTypes'
    BY <2>1 DEF files
  <2>3. EmissionInv'
    BY <2>1 DEF files
  <2>4. QuorumInv'
    BY <2>1 DEF files, Unasked
  <2>. QED  BY <2>2, <2>3, <2>4
<1>4. ASSUME NEW r \in Requests, Admit(r)
      PROVE  CoreInv'
  <2>1. CASE r \in Exports
    <3>1. CtlTypes'
      BY <1>4, <2>1 DEF Admit, files
    <3>2. EmissionInv'
      BY <1>4, <2>1 DEF Admit, files
    <3>3. QuorumInv'
      BY <1>4, <2>1 DEF Admit, files
    <3>. QED  BY <3>1, <3>2, <3>3
  <2>2. CASE r \in Emissions
    <3>. DEFINE q == Quorum(request[r].approvals, ResolveRule(request[r].tenant), r, now)
    <3>1. /\ pc[r] = "received" /\ quorum' = [quorum EXCEPT ![r] = q]
          /\ pc' = [pc EXCEPT ![r] = IF q.met THEN "admitted" ELSE "denied"]
          /\ now' = now /\ request' = request /\ loaded' = loaded /\ emitted' = emitted /\ crashes' = crashes
      BY <1>4, <2>2 DEF Admit, files
    <3>2. /\ QuorumMeans(q, request[r].approvals, ResolveRule(request[r].tenant), r)
          /\ QuorumUsed(q, request[r].approvals)
      BY <2>2, <3>1, AskedOK
    <3>. HIDE DEF q
    <3>3. CtlTypes'
      BY <3>1
    <3>4. EmissionInv'
      BY <2>2, <3>1
    <3>5. QuorumInv'
      BY <2>2, <3>1, <3>2
    <3>. QED  BY <3>3, <3>4, <3>5
  <2>. QED  BY <2>1, <2>2
<1>5. ASSUME NEW r \in Requests, Execute(r)
      PROVE  CoreInv'
  <2>1. CtlTypes'
    BY <1>5 DEF Execute, files
  <2>2. EmissionInv'
    BY <1>5 DEF Execute, files
  <2>3. QuorumInv'
    BY <1>5 DEF Execute, files
  <2>. QED  BY <2>1, <2>2, <2>3
<1>6. ASSUME NEW r \in Requests, Audit(r)
      PROVE  CoreInv'
  BY <1>6 DEF Audit
<1>11. ASSUME NEW r \in Requests, ImportFails(r)
       PROVE  CoreInv'
  <2>1. CtlTypes'
    BY <1>11 DEF ImportFails, files
  <2>2. EmissionInv'
    BY <1>11 DEF ImportFails, files
  <2>3. QuorumInv'
    BY <1>11 DEF ImportFails, files
  <2>. QED  BY <2>1, <2>2, <2>3
<1>7. ASSUME NEW r \in Exports, ExportRefused(r) \/ Clear(r) \/ ClearFails(r) \/ Load(r)
      PROVE  CoreInv'
  <2>1. /\ pc[r] \in {"admitted", "removed"} /\ now' = now /\ request' = request /\ quorum' = quorum
        /\ emitted' = emitted /\ crashes' = crashes /\ DOMAIN loaded' = Exports
    BY <1>7 DEF ExportRefused, Clear, ClearFails, Load, files
  <2>2. PICK p \in {"removed", "loaded", "failed"} : pc' = [pc EXCEPT ![r] = p]
    BY <1>7 DEF ExportRefused, Clear, ClearFails, Load
  <2>. QED  BY <2>1, <2>2
<1>8. ASSUME NEW r \in Exports, WriteEvents(r) \/ WriteApprovals(r) \/ WriteSummary(r) \/ Seal(r)
      PROVE  CoreInv'
  <2>1. /\ pc[r] \in Exporting /\ now' = now /\ request' = request /\ quorum' = quorum
        /\ emitted' = emitted /\ crashes' = crashes /\ loaded' = loaded
    BY <1>8 DEF WriteEvents, WriteApprovals, WriteSummary, Write, Seal, Exporting
  <2>2. PICK p \in {"written", "approved", "counted", "replying", "failed"} : pc' = [pc EXCEPT ![r] = p]
    BY <1>8 DEF WriteEvents, WriteApprovals, WriteSummary, Write, Seal
  <2>. QED  BY <2>1, <2>2 DEF Exporting
<1>9. CASE Crash
  <2>1. /\ pc' = [r \in Requests |-> IF pc[r] \in Over THEN pc[r] ELSE "crashed"]
        /\ now' = now /\ request' = request /\ quorum' = quorum
        /\ emitted' = emitted /\ crashes' = crashes + 1 /\ loaded' = loaded
    BY <1>9 DEF Crash
  <2>2. \A r \in Requests : pc'[r] = pc[r] \/ pc'[r] = "crashed"
    BY <2>1
  <2>3. \A r \in Requests : pc'[r] \in {"new", "done", "crashed"} /\ (pc'[r] = "new" <=> pc[r] = "new")
    BY <2>1 DEF Over
  <2>4. pc' \in [Requests -> Places]
    BY <2>1, <2>2
  <2>5. CtlTypes'
    <3>1. now' \in Int /\ crashes' \in Nat /\ DOMAIN request' = Requests /\ DOMAIN quorum' = Requests
          /\ DOMAIN loaded' = Exports
      BY <2>1
    <3>2. \A r \in Requests : pc'[r] # "new" => request'[r] \in Offered[r]
      <4>1. request' = request /\ \A r \in Requests : pc'[r] # "new" => pc[r] # "new"
        BY <2>1, <2>3
      <4>. QED  BY <4>1
    <3>. QED  BY <2>4, <3>1, <3>2
  <2>6. EmissionInv'
    BY <2>1, <2>2, <2>3
  <2>7. QuorumInv'
    BY <2>1, <2>2, <2>3
  <2>. QED  BY <2>5, <2>6, <2>7
<1>10. CASE UNCHANGED vars
  BY <1>10 DEF vars, service, files
<1>. QED
  BY <1>1, <1>2, <1>3, <1>4, <1>5, <1>6, <1>7, <1>8, <1>9, <1>10, <1>11 DEF Next, Serve, Export

(* A request that an emission's quorum was asked for is let through        *)
(* exactly when that quorum was met.                                       *)
ExactInv ==
  \A r \in Emissions : quorum[r] # Unasked =>
    QuorumMeans(quorum[r], request[r].approvals, ResolveRule(request[r].tenant), r)

(* For any rules, approvals, requests and crashes: an emission is let      *)
(* through exactly when the approvals that count at that moment verify and *)
(* the names on them, and their roles, are enough; never with fewer names, *)
(* one for every role that its rule requires, than are asked for.          *)
THEOREM QuorumExactAlways == Spec => []QuorumExact
<1>1. CoreInv => QuorumExact
  <2>1. CoreInv => ExactInv
    BY DEF CoreInv, QuorumInv, ExactInv
  <2>2. ExactInv => QuorumExact
    BY Zenon DEF ExactInv, QuorumExact, QuorumMeans, NamesAt, RolesAt, FirstOf, Needed, InRole
  <2>. QED  BY <2>1, <2>2
<1>. QED  BY <1>1, CoreInit, CoreStep, PTL DEF Spec

-----------------------------------------------------------------------------
(* The audit log.                                                          *)

(* An event of the log, compared with what became of its request.          *)
LineOK(e) ==
  LET r == e.request IN
  /\ r \in Requests /\ pc[r] \in Ended
  /\ e.tenant \in {None, request[r].tenant}
  /\ e.approvals = IF quorum[r].met THEN quorum[r].used ELSE {}
  /\ r \in Emissions => /\ e.decision = "ALLOW" <=> r \in emitted
                        /\ r \in emitted => quorum[r].met

LinesOK(lines) == \A i \in 1 .. Len(lines) : lines[i] = Garbage \/ LineOK(lines[i])

IsLog == \E S : log.lines \in Seq(S)

(* The requests whose line a crash has cost; another is at stake while the *)
(* last line has no end, and that one was not answered.                    *)
Unlogged == {r \in Requests : pc[r] = "done" /\ ~Logged(r)}

AtStake == IF log.open THEN 1 ELSE 0

LastLine == log.lines[Len(log.lines)]

CrashInv ==
  /\ IsFiniteSet(Unlogged) /\ Cardinality(Unlogged) + AtStake <= crashes
  /\ log.open \in BOOLEAN
  /\ log.open => /\ Len(log.lines) > 0
                 /\ LastLine.request \in Requests => pc[LastLine.request] = "crashed"

LogInv == IsLog /\ LinesOK(log.lines) /\ CrashInv

(* What no step changes.                                                   *)
Settles ==
  /\ \A r \in Requests : pc[r] \in Ended => pc'[r] = pc[r]
  /\ \A r \in Requests : pc[r] # "new" => request'[r] = request[r]
  /\ \A r \in Requests : pc[r] \notin {"new", "signed", "received"} => quorum'[r] = quorum[r]
  /\ \A r \in Requests : pc[r] \in Ended => (r \in emitted' <=> r \in emitted)

(* The steps that write to the log, and the others.                        *)
LogRests ==
  /\ log' = log /\ crashes' = crashes
  /\ \A r \in Requests : pc'[r] = "done" => pc[r] = "done"

LEMMA Settled == CoreInv /\ [Next]_vars => Settles
<1>. SUFFICES ASSUME CoreInv, [Next]_vars PROVE Settles
  OBVIOUS
<1>. USE Distinct3 DEF CoreInv, CtlTypes, Settles, Ended, Goto
<1>1. CASE Tick
  BY <1>1 DEF Tick, service, files
<1>2. ASSUME NEW r \in Requests, NEW offered \in Offered[r], Arrive(r, offered)
      PROVE  Settles
  BY <1>2 DEF Arrive, files
<1>3. ASSUME NEW r \in Requests, SendBody(r) \/ HashMismatch(r) \/ ImportFails(r)
      PROVE  Settles
  <2>1. /\ pc[r] \in {"signed", "received", "admitted"}
        /\ \E p : pc' = [pc EXCEPT ![r] = p]
        /\ UNCHANGED <<now, request, quorum, files, emitted, crashes>>
    BY <1>3 DEF SendBody, HashMismatch, ImportFails
  <2>. QED  BY <2>1
<1>4. ASSUME NEW r \in Requests, Admit(r)
      PROVE  Settles
  <2>1. /\ pc[r] = "received" /\ request' = request /\ emitted' = emitted
        /\ \E q : quorum' = quorum \/ quorum' = [quorum EXCEPT ![r] = q]
        /\ \E p : pc' = [pc EXCEPT ![r] = p]
    BY <1>4 DEF Admit, files
  <2>. QED  BY <2>1
<1>5. ASSUME NEW r \in Requests, Execute(r)
      PROVE  Settles
  BY <1>5 DEF Execute, files
<1>6. ASSUME NEW r \in Requests, Audit(r)
      PROVE  Settles
  BY <1>6 DEF Audit
<1>7. ASSUME NEW r \in Exports, ExportRefused(r) \/ Clear(r) \/ ClearFails(r) \/ Load(r)
      PROVE  Settles
  <2>1. /\ pc[r] \in {"admitted", "removed"} /\ \E p : pc' = [pc EXCEPT ![r] = p]
        /\ request' = request /\ quorum' = quorum /\ emitted' = emitted
    BY <1>7 DEF ExportRefused, Clear, ClearFails, Load, files
  <2>. QED  BY <2>1
<1>8. ASSUME NEW r \in Exports, WriteEvents(r) \/ WriteApprovals(r) \/ WriteSummary(r) \/ Seal(r)
      PROVE  Settles
  BY <1>8 DEF WriteEvents, WriteApprovals, WriteSummary, Write, Seal
<1>9. CASE Crash
  BY <1>9 DEF Crash, Over
<1>10. CASE UNCHANGED vars
  BY <1>10 DEF vars, service, files
<1>. QED
  BY <1>1, <1>2, <1>3, <1>4, <1>5, <1>6, <1>7, <1>8, <1>9, <1>10 DEF Next, Serve, Export

LEMMA LogMoves ==
  CoreInv /\ [Next]_vars => LogRests \/ (\E r \in Requests : Audit(r)) \/ Crash
<1>. SUFFICES ASSUME CoreInv, [Next]_vars PROVE LogRests \/ (\E r \in Requests : Audit(r)) \/ Crash
  OBVIOUS
<1>. USE Distinct3 DEF CoreInv, CtlTypes, LogRests, Goto
<1>1. CASE Tick
  BY <1>1 DEF Tick, service, files
<1>2. ASSUME NEW r \in Requests, NEW offered \in Offered[r], Arrive(r, offered)
      PROVE  LogRests
  BY <1>2 DEF Arrive, files
<1>3. ASSUME NEW r \in Requests, SendBody(r) \/ HashMismatch(r) \/ ImportFails(r)
      PROVE  LogRests
  <2>1. PICK p \in {"received", "denied", "failed"} :
          pc' = [pc EXCEPT ![r] = p] /\ log' = log /\ crashes' = crashes
    BY <1>3 DEF SendBody, HashMismatch, ImportFails, files
  <2>. QED  BY <2>1
<1>4. ASSUME NEW r \in Requests, Admit(r)
      PROVE  LogRests
  <2>1. PICK p \in {"admitted", "denied"} :
          pc' = [pc EXCEPT ![r] = p] /\ log' = log /\ crashes' = crashes
    BY <1>4 DEF Admit, files
  <2>. QED  BY <2>1
<1>5. ASSUME NEW r \in Requests, Execute(r)
      PROVE  LogRests
  BY <1>5 DEF Execute, files
<1>7. ASSUME NEW r \in Exports, ExportRefused(r) \/ Clear(r) \/ ClearFails(r) \/ Load(r)
      PROVE  LogRests
  <2>1. PICK p \in {"removed", "loaded", "failed"} :
          pc' = [pc EXCEPT ![r] = p] /\ log' = log /\ crashes' = crashes
    BY <1>7 DEF ExportRefused, Clear, ClearFails, Load, files
  <2>. QED  BY <2>1
<1>8. ASSUME NEW r \in Exports, WriteEvents(r) \/ WriteApprovals(r) \/ WriteSummary(r) \/ Seal(r)
      PROVE  LogRests
  <2>1. PICK p \in {"written", "approved", "counted", "replying", "failed"} :
          pc' = [pc EXCEPT ![r] = p] /\ log' = log /\ crashes' = crashes
    BY <1>8 DEF WriteEvents, WriteApprovals, WriteSummary, Write, Seal
  <2>. QED  BY <2>1
<1>10. CASE UNCHANGED vars
  BY <1>10 DEF vars, service, files
<1>. QED
  BY <1>1, <1>2, <1>3, <1>4, <1>5, <1>7, <1>8, <1>10 DEF Next, Serve, Export

(* A line that is in order stays so; and so is the one of a request that   *)
(* ends.                                                                   *)
LEMMA LineStays ==
  ASSUME Settles, NEW e, LineOK(e)
  PROVE  LineOK(e)'
BY DEF Settles, LineOK, Ended

LEMMA EventIsOK ==
  ASSUME CoreInv, Settles, NEW r \in Requests, pc[r] \in {"replying", "denied", "failed"},
         pc'[r] \in Ended, emitted' = emitted, NEW e, e = Event(r)
  PROVE  LineOK(e)'
<1>1. /\ e.request = r /\ (e.decision = "ALLOW" <=> pc[r] = "replying")
      /\ e.tenant \in {None, request[r].tenant}
      /\ e.approvals = IF quorum[r].met THEN quorum[r].used ELSE {}
  BY DEF Event
<1>2. request'[r] = request[r] /\ quorum'[r] = quorum[r]
  BY DEF Settles
<1>3. r \in Emissions => /\ e.decision = "ALLOW" <=> r \in emitted
                         /\ r \in emitted => quorum[r].met
  BY <1>1 DEF CoreInv, EmissionInv, EmissionPlaces, QuorumInv, CtlTypes
<1>. QED  BY <1>1, <1>2, <1>3 DEF LineOK

(* The log after a line was appended.                                      *)
Grown(line) ==
  LET n == Len(log.lines)
      m == Len(log'.lines)
  IN  /\ n \in Nat /\ m \in Nat
      /\ IF log.open THEN /\ m = n /\ \A i \in 1 .. n - 1 : log'.lines[i] = log.lines[i]
                          /\ n > 0 => log'.lines[n] = Garbage
         ELSE /\ m = n + 1 /\ \A i \in 1 .. n : log'.lines[i] = log.lines[i]
              /\ log'.lines[m] = line

LEMMA GrownBy ==
  ASSUME IsLog, NEW line, log'.lines = Appended(log, line)
  PROVE  IsLog' /\ Grown(line)
<1>1. PICK S : log.lines \in Seq(S)
  BY DEF IsLog
<1>. DEFINE s == log.lines
            t == log'.lines
            U == S \cup {Garbage, line}
<1>2. s \in Seq(U) /\ Len(s) \in Nat /\ Garbage \in U /\ line \in U
  BY <1>1
<1>. HIDE DEF U
<1>3. CASE log.open
  <2>1. t = [s EXCEPT ![Len(s)] = Garbage]
    BY <1>3 DEF Appended
  <2>. HIDE DEF s, t
  <2>2. t \in Seq(U) /\ Len(t) = Len(s) /\ (\A i \in 1 .. Len(s) - 1 : t[i] = s[i])
        /\ (Len(s) > 0 => t[Len(s)] = Garbage)
    <3>. DEFINE n == Len(s)
    <3>1. n \in Nat /\ s \in [1 .. n -> U]
      BY <1>2
    <3>0. t = [s EXCEPT ![n] = Garbage]
      BY <2>1
    <3>. HIDE DEF n
    <3>2. t \in [1 .. n -> U]
      BY <1>2, <3>0, <3>1
    <3>3. t \in Seq(U) /\ Len(t) = n
      BY <3>1, <3>2
    <3>4. \A i \in 1 .. n - 1 : t[i] = s[i]
      BY <3>0, <3>1
    <3>5. n > 0 => t[n] = Garbage
      BY <3>0, <3>1
    <3>. QED  BY <3>3, <3>4, <3>5 DEF n
  <2>. QED  BY <1>2, <1>3, <2>2 DEF s, t, IsLog, Grown
<1>4. CASE ~log.open
  <2>1. t = Append(s, line)
    BY <1>4 DEF Appended
  <2>. HIDE DEF s, t
  <2>2. t \in Seq(U)
    BY <1>2, <2>1
  <2>3. Len(t) = Len(s) + 1
    BY <1>2, <2>1
  <2>4. (\A i \in 1 .. Len(s) : t[i] = s[i]) /\ t[Len(t)] = line
    BY <1>2, <2>1, <2>3
  <2>. QED  BY <1>2, <1>4, <2>2, <2>3, <2>4 DEF s, t, IsLog, Grown
<1>. QED  BY <1>3, <1>4

LEMMA GrownOK ==
  ASSUME Settles, NEW line, Grown(line), LinesOK(log.lines), line = Garbage \/ LineOK(line)'
  PROVE  LinesOK(log.lines)'
<1>. DEFINE n == Len(log.lines)
            m == Len(log'.lines)
<1>1. SUFFICES ASSUME NEW i \in 1 .. m
               PROVE  log'.lines[i] = Garbage \/ LineOK(log.lines[i])'
  BY DEF LinesOK
<1>2. \/ i \in 1 .. n /\ log'.lines[i] = log.lines[i]
      \/ log'.lines[i] \in {Garbage, line}
  BY DEF Grown
<1>3. CASE i \in 1 .. n /\ log'.lines[i] = log.lines[i]
  <2>1. log.lines[i] = Garbage \/ LineOK(log.lines[i])
    BY <1>3 DEF LinesOK
  <2>2. PICK e : e = log.lines[i]
    OBVIOUS
  <2>3. LineOK(e) => LineOK(e)'
    BY LineStays
  <2>4. e = log'.lines[i]
    BY <1>3, <2>2
  <2>5. LineOK(e)' => LineOK(log.lines[i])'
    BY <2>4
  <2>. QED  BY <1>3, <2>1, <2>2, <2>3, <2>5
<1>. QED  BY <1>2, <1>3

(* A request that was answered keeps its line.                             *)
LEMMA LoggedStays ==
  ASSUME CrashInv, NEW line, Grown(line), NEW r \in Requests, pc[r] = "done", Logged(r)
  PROVE  Logged(r)'
<1>1. PICK i \in 1 .. Len(log.lines) : log.lines[i].request = r
  BY DEF Logged
<1>2. Len(log.lines) \in Nat /\ i \in 1 .. Len(log'.lines)
  BY DEF Grown
<1>3. log'.lines[i] = log.lines[i]
  <2>1. CASE log.open
    <3>1. i # Len(log.lines)
      BY <1>1, <2>1 DEF CrashInv, LastLine
    <3>2. i \in 1 .. Len(log.lines) - 1
      BY <1>2, <3>1
    <3>. QED  BY <2>1, <3>2 DEF Grown
  <2>2. CASE ~log.open
    BY <2>2 DEF Grown
  <2>. QED  BY <2>1, <2>2
<1>. QED  BY <1>1, <1>2, <1>3 DEF Logged

LEMMA FewerUnlogged ==
  ASSUME CrashInv, CoreInv, NEW U, U \subseteq Unlogged
  PROVE  IsFiniteSet(U) /\ Cardinality(U) \in Nat /\ Cardinality(U) + AtStake <= crashes
<1>1. IsFiniteSet(U) /\ Cardinality(U) <= Cardinality(Unlogged)
  BY FS_Subset DEF CrashInv
<1>2. Cardinality(U) \in Nat /\ Cardinality(Unlogged) \in Nat
  BY <1>1, FS_CardinalityType DEF CrashInv
<1>. QED  BY <1>1, <1>2 DEF CrashInv, AtStake, CoreInv, CtlTypes

LEMMA LogInit == Init => LogInv
<1>. SUFFICES ASSUME Init PROVE LogInv
  OBVIOUS
<1>1. log.lines = <<>> /\ log.open = FALSE /\ crashes = 0 /\ \A r \in Requests : pc[r] = "new"
  BY DEF Init
<1>2. <<>> \in Seq({}) /\ Len(<<>>) = 0
  OBVIOUS
<1>3. Unlogged = {}
  BY <1>1 DEF Unlogged
<1>4. IsFiniteSet({}) /\ Cardinality({}) = 0
  BY FS_EmptySet
<1>5. ~log.open /\ log.open \in BOOLEAN /\ AtStake = 0
  BY <1>1 DEF AtStake
<1>6. IsFiniteSet(Unlogged) /\ Cardinality(Unlogged) + AtStake <= crashes
  BY <1>1, <1>3, <1>4, <1>5
<1>7. CrashInv
  BY <1>5, <1>6, Zenon DEF CrashInv
<1>. QED  BY <1>1, <1>2, <1>7 DEF LogInv, IsLog, LinesOK

LEMMA LogStep == CoreInv /\ LogInv /\ [Next]_vars => LogInv'
<1>. SUFFICES ASSUME CoreInv, LogInv, [Next]_vars PROVE LogInv'
  OBVIOUS
<1>0. Settles /\ IsLog /\ LinesOK(log.lines) /\ CrashInv /\ crashes \in Nat
  BY Settled DEF LogInv, CoreInv, CtlTypes
<1>1. CASE LogRests
  <2>1. IsLog'
    BY <1>0, <1>1 DEF IsLog, LogRests
  <2>2. LinesOK(log.lines)'
    <3>1. SUFFICES ASSUME NEW i \in 1 .. Len(log.lines)
                   PROVE  log.lines[i] = Garbage \/ LineOK(log.lines[i])'
      BY <1>1 DEF LinesOK, LogRests
    <3>2. PICK e : e = log.lines[i]
      OBVIOUS
    <3>3. LineOK(e) => LineOK(e)'
      BY <1>0, LineStays
    <3>4. e = log'.lines[i]
      BY <1>1, <3>2 DEF LogRests
    <3>. QED  BY <1>0, <3>2, <3>3, <3>4 DEF LinesOK
  <2>3. Unlogged' \subseteq Unlogged
    BY <1>1 DEF Unlogged, Logged, LogRests
  <2>4. IsFiniteSet(Unlogged') /\ Cardinality(Unlogged') + AtStake <= crashes
    BY <1>0, <2>3, FewerUnlogged
  <2>5. CrashInv'
    BY <1>0, <1>1, <2>4 DEF CrashInv, AtStake, LogRests, LastLine, Settles, Ended
  <2>. QED  BY <2>1, <2>2, <2>5 DEF LogInv
<1>2. ASSUME NEW r \in Requests, Audit(r)
      PROVE  LogInv'
  <2>1. PICK e : e = Event(r)
    OBVIOUS
  <2>2. /\ log'.lines = Appended(log, e) /\ log'.open = FALSE
        /\ pc[r] \in {"replying", "denied", "failed"} /\ pc' = [pc EXCEPT ![r] = "done"]
        /\ emitted' = emitted /\ crashes' = crashes
    BY <1>2, <2>1 DEF Audit, AppendLine, Goto
  <2>3. pc'[r] = "done" /\ \A q \in Requests \ {r} : pc'[q] = pc[q]
    BY <2>2 DEF CoreInv, CtlTypes
  <2>4. IsLog' /\ Grown(e)
    BY <1>0, <2>2, GrownBy
  <2>5. LineOK(e)'
    BY <1>0, <2>1, <2>2, <2>3, EventIsOK DEF Ended
  <2>6. LinesOK(log.lines)'
    BY <1>0, <2>4, <2>5, GrownOK
  <2>7. Unlogged' \subseteq Unlogged \cup {r}
    BY <1>0, <2>3, <2>4, LoggedStays DEF Unlogged
  <2>8. IsFiniteSet(Unlogged') /\ Cardinality(Unlogged') <= crashes
    <3>1. CASE log.open
      <4>. DEFINE U == Unlogged' \ {r}
      <4>1. IsFiniteSet(U) /\ Cardinality(U) \in Nat /\ Cardinality(U) + 1 <= crashes
        BY <1>0, <2>7, <3>1, FewerUnlogged DEF AtStake
      <4>2. IsFiniteSet(U \cup {r}) /\ Cardinality(U \cup {r}) <= Cardinality(U) + 1
        BY <4>1, FS_AddElement
      <4>3. Unlogged' \subseteq U \cup {r}
        OBVIOUS
      <4>. HIDE DEF U
      <4>4. IsFiniteSet(Unlogged') /\ Cardinality(Unlogged') <= Cardinality(U \cup {r})
        BY <4>2, <4>3, FS_Subset
      <4>5. Cardinality(Unlogged') \in Nat /\ Cardinality(U \cup {r}) \in Nat
        BY <4>2, <4>4, FS_CardinalityType
      <4>. QED  BY <1>0, <4>1, <4>2, <4>4, <4>5
    <3>2. CASE ~log.open
      <4>1. Logged(r)'
        <5>1. Len(log'.lines) \in 1 .. Len(log'.lines) /\ log'.lines[Len(log'.lines)] = e
          BY <2>4, <3>2 DEF Grown
        <5>. QED  BY <2>1, <5>1 DEF Logged, Event
      <4>2. Unlogged' \subseteq Unlogged
        BY <2>7, <4>1 DEF Unlogged
      <4>. QED  BY <1>0, <3>2, <4>2, FewerUnlogged DEF AtStake
    <3>. QED  BY <3>1, <3>2
  <2>9. CrashInv'
    <3>1. Cardinality(Unlogged') \in Nat
      BY <2>8, FS_CardinalityType
    <3>2. ~log'.open /\ log'.open \in BOOLEAN /\ AtStake' = 0
      BY <2>2 DEF AtStake
    <3>3. Cardinality(Unlogged') + AtStake' <= crashes'
      BY <2>2, <2>8, <3>1, <3>2
    <3>. QED  BY <2>8, <3>2, <3>3, Zenon DEF CrashInv
  <2>. QED  BY <2>4, <2>6, <2>9 DEF LogInv
<1>3. CASE Crash
  <2>1. /\ pc' = [q \in Requests |-> IF pc[q] \in Over THEN pc[q] ELSE "crashed"]
        /\ emitted' = emitted /\ crashes' = crashes + 1
    BY <1>3 DEF Crash
  <2>2. \A q \in Requests : (pc'[q] = "done" <=> pc[q] = "done") /\ (pc[q] \notin Over => pc'[q] = "crashed")
    BY <2>1 DEF Over
  <2>3. \A q \in Requests : pc[q] = "crashed" => pc'[q] = "crashed"
    BY <2>1 DEF Over
  <2>4. CASE log' = log
    <3>1. IsLog'
      BY <1>0, <2>4 DEF IsLog
    <3>2. LinesOK(log.lines)'
      <4>1. SUFFICES ASSUME NEW i \in 1 .. Len(log.lines)
                     PROVE  log.lines[i] = Garbage \/ LineOK(log.lines[i])'
        BY <2>4 DEF LinesOK
      <4>2. PICK e : e = log.lines[i]
        OBVIOUS
      <4>3. LineOK(e) => LineOK(e)'
        BY <1>0, LineStays
      <4>4. e = log'.lines[i]
        BY <2>4, <4>2
      <4>. QED  BY <1>0, <4>2, <4>3, <4>4 DEF LinesOK
    <3>3. Unlogged' \subseteq Unlogged
      BY <2>2, <2>4 DEF Unlogged, Logged
    <3>4. IsFiniteSet(Unlogged') /\ Cardinality(Unlogged') + AtStake <= crashes /\ Cardinality(Unlogged') \in Nat
      BY <1>0, <3>3, FewerUnlogged
    <3>5. AtStake' = AtStake /\ AtStake \in Int
      BY <2>4 DEF AtStake
    <3>6. CrashInv'
      BY <1>0, <2>1, <2>3, <2>4, <3>4, <3>5 DEF CrashInv, LastLine
    <3>. QED  BY <3>1, <3>2, <3>6 DEF LogInv
  <2>5. CASE log' # log
    <3>1. PICK r \in Requests :
            /\ pc[r] \in {"replying", "denied", "failed"}
            /\ \E line \in {Garbage, Event(r)} : log' = TornLine(log, line)
      BY <1>3, <2>5 DEF Crash
    <3>2. PICK line : line \in {Garbage, Event(r)} /\ log'.lines = Appended(log, line) /\ log'.open = TRUE
      BY <3>1 DEF TornLine
    <3>3. IsLog' /\ Grown(line)
      BY <1>0, <3>2, GrownBy
    <3>4. pc'[r] = "crashed"
      BY <2>2, <3>1 DEF Over
    <3>5. line = Garbage \/ LineOK(line)'
      BY <1>0, <2>1, <3>1, <3>2, <3>4, EventIsOK DEF Ended
    <3>6. LinesOK(log.lines)'
      BY <1>0, <3>3, <3>5, GrownOK
    <3>7. Unlogged' \subseteq Unlogged
      BY <1>0, <2>2, <3>3, LoggedStays DEF Unlogged
    <3>8. IsFiniteSet(Unlogged') /\ Cardinality(Unlogged') + AtStake <= crashes /\ Cardinality(Unlogged') \in Nat
      BY <1>0, <3>7, FewerUnlogged
    <3>9. Cardinality(Unlogged') + AtStake' <= crashes'
      BY <1>0, <2>1, <3>2, <3>8 DEF AtStake
    <3>10. Len(log'.lines) > 0 /\ LastLine' \in {Garbage, line}
      BY <1>0, <3>3 DEF Grown, CrashInv, LastLine
    <3>11. line.request \in {None, r} /\ Garbage.request = None
      BY <3>2 DEF Event, Garbage
    <3>12. CrashInv'
      BY <3>2, <3>4, <3>8, <3>9, <3>10, <3>11, Distinct3 DEF CrashInv
    <3>. QED  BY <3>3, <3>6, <3>12 DEF LogInv
  <2>. QED  BY <2>4, <2>5
<1>. QED  BY <1>1, <1>2, <1>3, LogMoves

(* Whatever the log says of an emission, and however often the process     *)
(* crashed: it says ALLOW of what was executed and of nothing else, with   *)
(* the approvals that sufficed; and a crash costs no more than one answer  *)
(* its line.                                                               *)
THEOREM AuditKeepsAnsweredAlways == Spec => []AuditKeepsAnswered
<1>1. CoreInv /\ LogInv => AuditKeepsAnswered
  <2>. SUFFICES ASSUME CoreInv, LogInv PROVE AuditKeepsAnswered
    OBVIOUS
  <2>1. ASSUME NEW i \in 1 .. Len(log.lines), log.lines[i].request \in Emissions
        PROVE  /\ log.lines[i].decision = "ALLOW" <=> log.lines[i].request \in emitted
               /\ log.lines[i].request \in emitted =>
                    Cardinality({a.approver_id : a \in log.lines[i].approvals})
                      >= quorum[log.lines[i].request].required
    <3>. DEFINE e == log.lines[i]
                r == e.request
    <3>1. e # Garbage
      BY <2>1, Distinct3 DEF Garbage
    <3>2. LineOK(e)
      BY <3>1 DEF LogInv, LinesOK
    <3>3. r \in Emissions
      BY <2>1
    <3>. HIDE DEF e
    <3>4. r \in emitted => quorum[r].met /\ e.approvals = quorum[r].used
      BY <3>2, <3>3 DEF LineOK
    <3>5. quorum[r].met => Cardinality(Approvers(quorum[r].used)) >= quorum[r].required
      BY <3>3 DEF CoreInv, QuorumInv, QuorumUsed, Unasked
    <3>6. r \in emitted => Cardinality(Approvers(e.approvals)) >= quorum[r].required
      BY <3>4, <3>5
    <3>7. e.decision = "ALLOW" <=> r \in emitted
      BY <3>2, <3>3 DEF LineOK
    <3>. QED  BY <3>6, <3>7 DEF e, Approvers
  <2>2. Cardinality(Unlogged) <= crashes
    BY FewerUnlogged DEF LogInv, AtStake, CoreInv, CtlTypes
  <2>. QED  BY <2>1, <2>2 DEF AuditKeepsAnswered, Unlogged
<1>. QED  BY <1>1, CoreInit, CoreStep, LogInit, LogStep, PTL DEF Spec

-----------------------------------------------------------------------------
(* Bundles of evidence.                                                    *)

Opened ==
  {"removed", "loaded", "written", "approved", "counted", "replying", "done", "failed", "crashed"}

Writing == {"loaded", "written", "approved", "counted"}

Fails(x) == request[x].naive \/ ~Sortable(ApprovalsIn(loaded[x]))

(* The files of a bundle, from the events that were read, the place that   *)
(* the export has reached, and whether it may fail there.                  *)
FilesOK(place, fails, events, b) ==
  LET rows == ApprovalsIn(events)
      sealed == "sums" \in DOMAIN b
  IN  /\ place = "failed" => fails
      /\ place = "replying" \/ (place = "done" /\ ~fails) => sealed
      /\ place \in Exporting => ~sealed
      /\ place \in {"written", "approved", "counted"} \/ sealed =>
           "audit" \in DOMAIN b /\ b.audit = events
      /\ place \in {"approved", "counted"} \/ sealed =>
           "approvals" \in DOMAIN b /\ b.approvals = rows
      /\ place = "counted" \/ sealed =>
           "count" \in DOMAIN b /\ b.count = <<Len(events), Cardinality(rows)>>
      /\ sealed => b.sums = <<b.audit, b.approvals, b.count>>

(* What an export has read.                                                *)
EventsOK(x) ==
  /\ IsList(loaded[x])
  /\ \A i \in 1 .. Len(loaded[x]) : LineOK(loaded[x][i]) /\ loaded[x][i].tenant = request[x].tenant
  /\ crashes = 0 => IsPrefix(loaded[x], EventsOf(x))

(* No other export is at work where it would disturb this one.             *)
Apart(x, y) == ~IsPrefix(BundleOf(y), BundleOf(x)) /\ (pc[x] \in Exporting => ~Overlap(x, y))

Alone(x) == \A y \in Exports \ {x} : pc[y] \in Exporting => Apart(x, y)

BundleOK(x) ==
  /\ pc[x] \in Opened
  /\ Alone(x)
  /\ pc[x] \in Writing => BundleOf(x) \in DOMAIN bundle
  /\ pc[x] \in Writing \/ "sums" \in DOMAIN Directory(x) => EventsOK(x)
  /\ FilesOK(pc[x], Fails(x), loaded[x], Directory(x))

BundleInv == undisturbed \subseteq Exports /\ \A x \in undisturbed : BundleOK(x)

(* The steps that touch no bundle.                                         *)
FilesRest ==
  /\ loaded' = loaded /\ bundle' = bundle /\ undisturbed' = undisturbed
  /\ \A y \in Exports : pc[y] \in Opened =>
       \/ pc'[y] \in {pc[y], "crashed"}
       \/ pc[y] \in {"replying", "failed"} /\ pc'[y] = "done"
  /\ \A y \in Exports : pc'[y] \in Exporting => pc[y] \in Exporting

WritesFile(x) == WriteEvents(x) \/ WriteApprovals(x) \/ WriteSummary(x) \/ Seal(x)

TouchesFiles(x) == Clear(x) \/ ClearFails(x) \/ Load(x) \/ WritesFile(x)

LEMMA FilesMove ==
  CoreInv /\ [Next]_vars => FilesRest \/ \E x \in Exports : TouchesFiles(x)
<1>. SUFFICES ASSUME CoreInv, [Next]_vars
              PROVE  FilesRest \/ \E x \in Exports : TouchesFiles(x)
  OBVIOUS
<1>. USE Distinct3 DEF CoreInv, CtlTypes, FilesRest, Goto, Opened, Exporting
<1>1. CASE Tick
  BY <1>1 DEF Tick, service, files
<1>2. ASSUME NEW r \in Requests, NEW offered \in Offered[r], Arrive(r, offered)
      PROVE  FilesRest
  <2>1. PICK p \in {"denied", "signed"} : pc' = [pc EXCEPT ![r] = p]
    BY <1>2 DEF Arrive
  <2>. QED  BY <1>2, <2>1 DEF Arrive, files
<1>3. ASSUME NEW r \in Requests, SendBody(r) \/ HashMismatch(r) \/ ImportFails(r)
      PROVE  FilesRest
  <2>1. PICK p \in {"received", "denied", "failed"} :
          pc' = [pc EXCEPT ![r] = p] /\ UNCHANGED files /\ pc[r] \in {"signed", "received", "admitted"}
    BY <1>3 DEF SendBody, HashMismatch, ImportFails
  <2>. QED  BY <2>1 DEF files
<1>4. ASSUME NEW r \in Requests, Admit(r)
      PROVE  FilesRest
  <2>1. PICK p \in {"admitted", "denied"} : pc[r] = "received" /\ pc' = [pc EXCEPT ![r] = p]
    BY <1>4 DEF Admit
  <2>2. loaded' = loaded /\ bundle' = bundle /\ undisturbed' = undisturbed
    BY <1>4 DEF Admit, files
  <2>. QED  BY <2>1, <2>2
<1>5. ASSUME NEW r \in Requests, Execute(r)
      PROVE  FilesRest
  BY <1>5 DEF Execute, files
<1>6. ASSUME NEW r \in Requests, Audit(r)
      PROVE  FilesRest
  BY <1>6 DEF Audit
<1>7. ASSUME NEW r \in Exports, ExportRefused(r)
      PROVE  FilesRest
  BY <1>7 DEF ExportRefused, files
<1>9. CASE Crash
  BY <1>9 DEF Crash, Over
<1>10. CASE UNCHANGED vars
  BY <1>10 DEF vars, service, files
<1>. QED
  BY <1>1, <1>2, <1>3, <1>4, <1>5, <1>6, <1>7, <1>9, <1>10 DEF Next, Serve, Export, WritesFile, TouchesFiles

(* What an export would read, and what it is of.                           *)
LEMMA EventsAre ==
  ASSUME IsLog, LinesOK(log.lines), NEW x
  PROVE  /\ IsList(EventsOf(x))
         /\ \A i \in 1 .. Len(EventsOf(x)) :
              LineOK(EventsOf(x)[i]) /\ EventsOf(x)[i].tenant = request[x].tenant
         /\ IsPrefix(EventsOf(x), EventsOf(x))
<1>1. PICK S : log.lines \in Seq(S)
  BY DEF IsLog
<1>. DEFINE s == log.lines
            keep == {i \in DOMAIN s : s[i] # Garbage /\ s[i].tenant = request[x].tenant /\ InRange(x, s[i])}
            p == Picked(s, keep)
<1>2. EventsOf(x) = p
  BY DEF EventsOf
<1>3. \A i \in keep : i \in DOMAIN s /\ s[i] # Garbage /\ s[i].tenant = request[x].tenant
  OBVIOUS
<1>. HIDE DEF keep
<1>4. p \in Seq(S) /\ \E at : PickOf(p, at, s, keep)
  BY <1>1, PickedPlaces
<1>5. PICK at : PickOf(p, at, s, keep)
  BY <1>4
<1>6. IsList(p)
  <2>. HIDE DEF p
  <2>. QED  BY <1>4 DEF IsList
<1>7. ASSUME NEW i \in 1 .. Len(p)
      PROVE  LineOK(p[i]) /\ p[i].tenant = request[x].tenant
  <2>1. at[i] \in keep /\ at[i] \in 1 .. Len(s) /\ p[i] = s[at[i]]
    BY <1>5, <1>7 DEF PickOf
  <2>2. s[at[i]] # Garbage /\ s[at[i]].tenant = request[x].tenant
    BY <1>3, <2>1
  <2>3. LineOK(s[at[i]])
    BY <2>1, <2>2 DEF LinesOK
  <2>. HIDE DEF p
  <2>. QED  BY <2>1, <2>2, <2>3
<1>. HIDE DEF p
<1>8. IsPrefix(p, p)
  BY <1>6 DEF IsPrefix, IsList
<1>. QED  BY <1>2, <1>6, <1>7, <1>8

(* Without a crash, what was read stays the beginning of what would be     *)
(* read now.                                                               *)
LEMMA PrefixOfLonger ==
  ASSUME NEW S, NEW t, t \in Seq(S), NEW s, Len(s) \in Nat, IsPrefix(s, t), NEW e
  PROVE  IsPrefix(s, Append(t, e))
<1>. DEFINE U == S \cup {e}
            u == Append(t, e)
            n == Len(s)
<1>1. t \in Seq(U) /\ e \in U
  OBVIOUS
<1>2. n \in Nat /\ n <= Len(t) /\ SubSeq(s, 1, n) = SubSeq(t, 1, n)
  BY DEF IsPrefix
<1>. HIDE DEF U, n
<1>3. u \in Seq(U) /\ Len(u) = Len(t) + 1 /\ Len(t) \in Nat
  BY <1>1
<1>4. \A i \in 1 .. Len(t) : u[i] = t[i]
  BY <1>1
<1>. HIDE DEF u
<1>5. SubSeq(u, 1, n) = SubSeq(t, 1, n)
  <2>1. SubSeq(u, 1, n) = [i \in 1 .. n |-> u[i]]
    BY <1>2, <1>3
  <2>2. SubSeq(t, 1, n) = [i \in 1 .. n |-> t[i]]
    BY <1>1, <1>2
  <2>3. \A i \in 1 .. n : u[i] = t[i]
    BY <1>2, <1>3, <1>4
  <2>. QED  BY <2>1, <2>2, <2>3
<1>. QED  BY <1>2, <1>3, <1>5 DEF IsPrefix, n, u

LEMMA PrefixStays ==
  ASSUME CoreInv, LogInv, LogInv', Settles, [Next]_vars, NEW x \in Exports, pc[x] # "new",
         NEW s, Len(s) \in Nat, IsPrefix(s, EventsOf(x)), crashes' = 0
  PROVE  IsPrefix(s, EventsOf(x)')
<1>0. request'[x] = request[x]
  BY DEF Settles, Requests
<1>1. CASE LogRests
  <2>1. EventsOf(x)' = EventsOf(x)
    BY <1>0, <1>1 DEF EventsOf, InRange, LogRests
  <2>. QED  BY <2>1
<1>2. ASSUME NEW r \in Requests, Audit(r)
      PROVE  IsPrefix(s, EventsOf(x)')
  <2>1. crashes = 0 /\ log'.lines = Appended(log, Event(r))
    BY <1>2 DEF Audit, AppendLine
  <2>2. ~log.open
    <3>1. Cardinality(Unlogged) \in Nat /\ Cardinality(Unlogged) + AtStake <= 0
      BY <2>1, FS_CardinalityType DEF LogInv, CrashInv
    <3>. QED  BY <3>1 DEF AtStake
  <2>3. PICK e : e = Event(r)
    OBVIOUS
  <2>4. Grown(e)
    BY <2>1, <2>3, GrownBy DEF LogInv
  <2>5. PICK S : log.lines \in Seq(S)
    BY DEF LogInv, IsLog
  <2>6. PICK T : log'.lines \in Seq(T)
    BY DEF LogInv, IsLog
  <2>. DEFINE l == log.lines
              m == log'.lines
              U == S \cup T
              keep == {i \in DOMAIN l : l[i] # Garbage /\ l[i].tenant = request[x].tenant /\ InRange(x, l[i])}
              more == {i \in DOMAIN m : m[i] # Garbage /\ m[i].tenant = request[x].tenant /\ InRange(x, m[i])}
  <2>7. l \in Seq(U) /\ m \in Seq(U)
    BY <2>5, <2>6
  <2>8. Len(m) = Len(l) + 1 /\ (\A i \in 1 .. Len(l) : m[i] = l[i]) /\ Len(l) \in Nat
    BY <2>2, <2>4 DEF Grown
  <2>9. EventsOf(x) = Picked(l, keep)
    BY DEF EventsOf
  <2>10. EventsOf(x)' = Picked(m, more)
    BY <1>0 DEF EventsOf, InRange
  <2>11. \A i \in 1 .. Len(l) : i \in keep <=> i \in more
    <3>1. DOMAIN l = 1 .. Len(l) /\ DOMAIN m = 1 .. Len(m)
      BY <2>7
    <3>. HIDE DEF l, m
    <3>. QED  BY <2>8, <3>1
  <2>. HIDE DEF l, m, keep, more, U
  <2>12. Picked(m, more) = IF Len(m) \in more THEN Append(Picked(l, keep), m[Len(m)]) ELSE Picked(l, keep)
    BY <2>7, <2>8, <2>11, PickedLonger
  <2>13. Picked(l, keep) \in Seq(U)
    BY <2>7, PickedPlaces
  <2>14. IsPrefix(s, Append(Picked(l, keep), m[Len(m)]))
    BY <2>9, <2>13, PrefixOfLonger
  <2>. QED  BY <2>9, <2>10, <2>12, <2>14
<1>3. CASE Crash
  BY <1>3 DEF Crash, CoreInv, CtlTypes
<1>. QED  BY <1>1, <1>2, <1>3, LogMoves

LEMMA EventsStay ==
  ASSUME CoreInv, LogInv, LogInv', Settles, [Next]_vars, NEW x \in Exports, pc[x] # "new",
         EventsOK(x), loaded'[x] = loaded[x]
  PROVE  EventsOK(x)'
<1>1. PICK s : s = loaded[x]
  OBVIOUS
<1>2. request'[x] = request[x]
  BY DEF Settles, Requests
<1>3. IsList(s) /\ Len(s) \in Nat /\ (crashes = 0 => IsPrefix(s, EventsOf(x)))
  BY <1>1 DEF EventsOK, IsList
<1>4. ASSUME NEW i \in 1 .. Len(s)
      PROVE  LineOK(s[i])' /\ s[i].tenant = request'[x].tenant
  <2>1. LineOK(s[i]) /\ s[i].tenant = request[x].tenant
    BY <1>1, <1>4 DEF EventsOK
  <2>2. PICK e : e = s[i]
    OBVIOUS
  <2>3. LineOK(e) => LineOK(e)'
    BY LineStays
  <2>. QED  BY <1>2, <2>1, <2>2, <2>3
<1>5. crashes' = 0 => crashes = 0
  <2>1. CASE LogRests
    BY <2>1 DEF LogRests
  <2>2. CASE \E r \in Requests : Audit(r)
    BY <2>2 DEF Audit
  <2>3. CASE Crash
    BY <2>3 DEF Crash, CoreInv, CtlTypes
  <2>. QED  BY <2>1, <2>2, <2>3, LogMoves
<1>6. crashes' = 0 => IsPrefix(s, EventsOf(x)')
  BY <1>3, <1>5, PrefixStays
<1>. QED  BY <1>1, <1>3, <1>4, <1>6 DEF EventsOK

LEMMA BundleNamed ==
  ASSUME CoreInv, NEW x \in Exports, pc[x] # "new"
  PROVE  BundleOf(x) \in Paths /\ IsPrefix(BundleOf(x), BundleOf(x))
<1>1. request[x] \in Offered[x]
  BY DEF CoreInv, CtlTypes, Requests
<1>2. Len(BundleOf(x)) \in Nat
  BY <1>1, ControlPlaneAssumption DEF BundleOf
<1>. QED  BY <1>1, <1>2 DEF Paths, BundleOf, IsPrefix

LEMMA FilesOnward ==
  ASSUME NEW p, NEW q, NEW fails, NEW events, NEW b, FilesOK(p, fails, events, b),
         q \in {p, "crashed"} \/ (p \in {"replying", "failed"} /\ q = "done")
  PROVE  FilesOK(q, fails, events, b)
BY DEF FilesOK, Exporting

(* The steps of exporting, one place after the other.                      *)
LEMMA FilesWritten ==
  ASSUME NEW fails, NEW events, NEW b, NEW c
  PROVE  /\ FilesOK("loaded", fails, events, b) /\ c = With(b, "audit", events) => FilesOK("written", fails, events, c)
         /\ FilesOK("written", fails, events, b) /\ c = With(b, "approvals", ApprovalsIn(events))
              => FilesOK("approved", fails, events, c)
         /\ FilesOK("approved", fails, events, b)
              /\ c = With(b, "count", <<Len(events), Cardinality(ApprovalsIn(events))>>)
              => FilesOK("counted", fails, events, c)
         /\ FilesOK("counted", fails, events, b) /\ c = With(b, "sums", <<b.audit, b.approvals, b.count>>)
              => FilesOK("replying", fails, events, c)
         /\ FilesOK("counted", fails, events, b) => {"audit", "approvals", "count"} \subseteq DOMAIN b
<1>. DEFINE rows == ApprovalsIn(events)
            lengths == <<Len(events), Cardinality(rows)>>
            sums == <<b.audit, b.approvals, b.count>>
<1>1. ASSUME FilesOK("loaded", fails, events, b), c = With(b, "audit", events)
      PROVE  FilesOK("written", fails, events, c)
  <2>1. "audit" \in DOMAIN c /\ c.audit = events /\ ("sums" \in DOMAIN c <=> "sums" \in DOMAIN b)
    BY <1>1 DEF With
  <2>. QED  BY <1>1, <2>1 DEF FilesOK, Exporting
<1>2. ASSUME FilesOK("written", fails, events, b), c = With(b, "approvals", rows)
      PROVE  FilesOK("approved", fails, events, c)
  <2>. HIDE DEF rows
  <2>1. /\ "approvals" \in DOMAIN c /\ c.approvals = rows /\ ("sums" \in DOMAIN c <=> "sums" \in DOMAIN b)
        /\ "audit" \in DOMAIN b => "audit" \in DOMAIN c /\ c.audit = b.audit
    BY <1>2 DEF With
  <2>. QED  BY <1>2, <2>1 DEF FilesOK, Exporting, rows
<1>3. ASSUME FilesOK("approved", fails, events, b), c = With(b, "count", lengths)
      PROVE  FilesOK("counted", fails, events, c)
  <2>. HIDE DEF lengths
  <2>1. /\ "count" \in DOMAIN c /\ c.count = lengths /\ ("sums" \in DOMAIN c <=> "sums" \in DOMAIN b)
        /\ "audit" \in DOMAIN b => "audit" \in DOMAIN c /\ c.audit = b.audit
        /\ "approvals" \in DOMAIN b => "approvals" \in DOMAIN c /\ c.approvals = b.approvals
    BY <1>3 DEF With
  <2>. QED  BY <1>3, <2>1 DEF FilesOK, Exporting, lengths
<1>4. FilesOK("counted", fails, events, b) => {"audit", "approvals", "count"} \subseteq DOMAIN b
  BY DEF FilesOK
<1>5. ASSUME FilesOK("counted", fails, events, b), c = With(b, "sums", sums)
      PROVE  FilesOK("replying", fails, events, c)
  <2>0. sums = <<b.audit, b.approvals, b.count>>
    OBVIOUS
  <2>. HIDE DEF sums
  <2>1. /\ "sums" \in DOMAIN c /\ c.sums = sums
        /\ "audit" \in DOMAIN c /\ c.audit = b.audit
        /\ "approvals" \in DOMAIN c /\ c.approvals = b.approvals
        /\ "count" \in DOMAIN c /\ c.count = b.count
    BY <1>4, <1>5 DEF With
  <2>2. c.sums = <<c.audit, c.approvals, c.count>>
    BY <2>0, <2>1
  <2>. HIDE DEF sums
  <2>. QED  BY <1>5, <2>1, <2>2 DEF FilesOK, Exporting
<1>. HIDE DEF rows, lengths, sums
<1>. QED  BY <1>1, <1>2, <1>3, <1>4, <1>5 DEF rows, lengths, sums

(* The start of an export.                                                 *)
LEMMA FilesStart ==
  ASSUME NEW fails, NEW events, NEW b
  PROVE  /\ FilesOK("removed", fails, events, EmptyBundle)
         /\ \A seen : FilesOK("removed", fails, events, b) => FilesOK("loaded", fails, seen, b)
         /\ \A may, seen : FilesOK("removed", fails, events, b) /\ may => FilesOK("failed", may, seen, b)
BY DEF FilesOK, EmptyBundle, Exporting

(* A step of another export: it is not at work here, unless it was before. *)
LEMMA OtherRests ==
  ASSUME CoreInv, NEW x \in Exports, BundleOK(x), NEW y \in Exports, y # x, pc[y] # "new",
         NEW p, pc' = [pc EXCEPT ![y] = p],
         request' = request, loaded'[x] = loaded[x], Directory(x)' = Directory(x),
         BundleOf(x) \in DOMAIN bundle => BundleOf(x) \in DOMAIN bundle',
         p \in Exporting => pc[y] \in Exporting \/ Apart(x, y),
         EventsOK(x) => EventsOK(x)'
  PROVE  BundleOK(x)'
<1>1. /\ pc'[x] = pc[x] /\ pc'[y] = p /\ \A z \in Exports \ {y} : pc'[z] = pc[z]
      /\ \A z \in Exports : BundleOf(z)' = BundleOf(z)
  BY DEF CoreInv, CtlTypes, Requests, BundleOf
<1>2. \A z \in Exports : Overlap(x, z)' = Overlap(x, z)
  BY <1>1 DEF Overlap
<1>3. \A z \in Exports : Apart(x, z)' = Apart(x, z)
  BY <1>1, <1>2 DEF Apart
<1>4. ASSUME NEW z \in Exports \ {x}, pc'[z] \in Exporting
      PROVE  Apart(x, z)'
  <2>1. pc[z] \in Exporting \/ Apart(x, z)
    BY <1>1, <1>4
  <2>. QED  BY <1>3, <1>4, <2>1 DEF BundleOK, Alone
<1>5. Alone(x)'
  BY <1>4 DEF Alone
<1>6. Fails(x)' = Fails(x)
  BY DEF Fails
<1>. HIDE DEF Fails
<1>7. FilesOK(pc[x], Fails(x), loaded[x], Directory(x)) /\ pc[x] \in Opened
      /\ (pc[x] \in Writing => BundleOf(x) \in DOMAIN bundle)
      /\ (pc[x] \in Writing \/ "sums" \in DOMAIN Directory(x) => EventsOK(x))
  BY DEF BundleOK
<1>8. FilesOK(pc'[x], Fails(x)', loaded'[x], Directory(x)')
  BY <1>1, <1>6, <1>7
<1>9. BundleOf(x)' = BundleOf(x)
  BY <1>1
<1>. QED  BY <1>1, <1>5, <1>7, <1>8, <1>9 DEF BundleOK

(* What the steps do to the directories.                                   *)
LEMMA DirectoryMoves ==
  ASSUME CoreInv, request' = request, NEW y \in Exports, pc[y] # "new", NEW x
  PROVE  /\ Clear(y) /\ ~IsPrefix(BundleOf(y), BundleOf(x)) =>
              /\ Directory(x)' = Directory(x)
              /\ BundleOf(x) \in DOMAIN bundle => BundleOf(x) \in DOMAIN bundle'
         /\ Clear(y) => Directory(y)' = EmptyBundle
         /\ Load(y) => /\ Directory(x)' = Directory(x)
                       /\ BundleOf(x) \in DOMAIN bundle => BundleOf(x) \in DOMAIN bundle'
                       /\ BundleOf(y) \in DOMAIN bundle'
         /\ WritesFile(y) /\ BundleOf(x) # BundleOf(y) =>
              /\ Directory(x)' = Directory(x)
              /\ BundleOf(x) \in DOMAIN bundle => BundleOf(x) \in DOMAIN bundle'
<1>1. BundleOf(x)' = BundleOf(x) /\ BundleOf(y)' = BundleOf(y)
  BY DEF BundleOf
<1>2. PICK c : c = BundleOf(x)
  OBVIOUS
<1>3. PICK d : d = BundleOf(y)
  OBVIOUS
<1>4. d \in Paths /\ IsPrefix(d, d)
  BY <1>3, BundleNamed
<1>5. ASSUME Clear(y)
      PROVE  /\ \A e : e \in DOMAIN bundle' <=> e \in DOMAIN bundle /\ ~IsPrefix(d, e)
             /\ \A e \in DOMAIN bundle' : bundle'[e] = bundle[e]
  BY <1>3, <1>5 DEF Clear, Restrict
<1>6. ASSUME Load(y)
      PROVE  /\ \A e : e \in DOMAIN bundle' <=> e \in DOMAIN bundle \/ (e \in Paths /\ IsPrefix(e, d))
             /\ \A e \in DOMAIN bundle' : bundle'[e] = IF e \in DOMAIN bundle THEN bundle[e] ELSE EmptyBundle
  BY <1>3, <1>6 DEF Load
<1>7. ASSUME WritesFile(y)
      PROVE  /\ DOMAIN bundle' = DOMAIN bundle
             /\ \A e \in DOMAIN bundle : e # d => bundle'[e] = bundle[e]
  <2>1. bundle' = bundle \/ \E b : bundle' = [bundle EXCEPT ![d] = b]
    BY <1>3, <1>7 DEF WritesFile, WriteEvents, WriteApprovals, WriteSummary, Write, Seal
  <2>. QED  BY <2>1
<1>8. /\ Directory(x) = IF c \in DOMAIN bundle THEN bundle[c] ELSE EmptyBundle
      /\ Directory(y) = IF d \in DOMAIN bundle THEN bundle[d] ELSE EmptyBundle
      /\ Directory(x)' = IF c \in DOMAIN bundle' THEN bundle'[c] ELSE EmptyBundle
      /\ Directory(y)' = IF d \in DOMAIN bundle' THEN bundle'[d] ELSE EmptyBundle
  BY <1>1, <1>2, <1>3 DEF Directory
<1>. QED  BY <1>2, <1>3, <1>4, <1>5, <1>6, <1>7, <1>8

LEMMA BundleInit == Init => BundleInv
BY DEF Init, BundleInv

(* No step of an export disturbs the others that stay undisturbed.         *)
LEMMA OthersStay ==
  ASSUME CoreInv, LogInv, BundleInv, [Next]_vars, NEW y \in Exports, TouchesFiles(y),
         NEW x \in undisturbed, x \in undisturbed', x # y
  PROVE  BundleOK(x)'
<1>0. Settles /\ LogInv'
  BY Settled, CoreStep, LogStep
<1>1. x \in Exports /\ BundleOK(x) /\ pc[x] # "new"
  BY DEF BundleInv, BundleOK, Opened
<1>2. /\ pc[y] \in {"admitted", "removed", "loaded", "written", "approved", "counted"}
      /\ request' = request /\ DOMAIN loaded = Exports
  BY DEF TouchesFiles, WritesFile, WriteEvents, WriteApprovals, WriteSummary, Write, Seal,
         Clear, ClearFails, Load, files, CoreInv, CtlTypes
<1>3. loaded' = loaded \/ loaded' = [loaded EXCEPT ![y] = EventsOf(y)]
  BY DEF TouchesFiles, WritesFile, WriteEvents, WriteApprovals, WriteSummary, Write, Seal,
         Clear, ClearFails, Load, files
<1>4. loaded'[x] = loaded[x]
  BY <1>1, <1>2, <1>3
<1>5. EventsOK(x) => EventsOK(x)'
  BY <1>0, <1>1, <1>4, EventsStay
<1>6. pc[y] # "new"
  BY <1>2
<1>7. CASE Clear(y)
  <2>1. ~Meets(y, x) /\ ~IsPrefix(BundleOf(y), BundleOf(x)) /\ pc' = [pc EXCEPT ![y] = "removed"]
    BY <1>1, <1>7 DEF Clear, Goto
  <2>2. Apart(x, y)
    BY <2>1 DEF Meets, Apart, Overlap
  <2>3. Directory(x)' = Directory(x) /\ (BundleOf(x) \in DOMAIN bundle => BundleOf(x) \in DOMAIN bundle')
    BY <1>2, <1>6, <1>7, <2>1, DirectoryMoves
  <2>. QED  BY <1>1, <1>2, <1>4, <1>5, <1>6, <2>1, <2>2, <2>3, OtherRests
<1>8. CASE ClearFails(y)
  <2>1. pc' = [pc EXCEPT ![y] = "failed"] /\ bundle' = bundle /\ pc[y] \in Exporting
    BY <1>8 DEF ClearFails, Goto, files, Exporting
  <2>2. Directory(x)' = Directory(x) /\ (BundleOf(x) \in DOMAIN bundle => BundleOf(x) \in DOMAIN bundle')
    BY <1>2, <2>1 DEF Directory, BundleOf
  <2>. QED  BY <1>1, <1>2, <1>4, <1>5, <1>6, <2>1, <2>2, OtherRests
<1>9. CASE Load(y)
  <2>1. pc[y] \in Exporting /\ \E p : pc' = [pc EXCEPT ![y] = p]
    BY <1>9 DEF Load, Goto, Exporting
  <2>2. Directory(x)' = Directory(x) /\ (BundleOf(x) \in DOMAIN bundle => BundleOf(x) \in DOMAIN bundle')
    BY <1>2, <1>6, <1>9, DirectoryMoves
  <2>. QED  BY <1>1, <1>2, <1>4, <1>5, <1>6, <2>1, <2>2, OtherRests
<1>10. CASE WritesFile(y)
  <2>1. pc[y] \in Exporting /\ \E p : pc' = [pc EXCEPT ![y] = p]
    BY <1>10 DEF WritesFile, WriteEvents, WriteApprovals, WriteSummary, Write, Seal, Goto, Exporting
  <2>2. Apart(x, y)
    BY <1>1, <2>1 DEF BundleOK, Alone
  <2>3. BundleOf(x) # BundleOf(y)
    BY <1>6, <2>2, BundleNamed DEF Apart
  <2>4. Directory(x)' = Directory(x) /\ (BundleOf(x) \in DOMAIN bundle => BundleOf(x) \in DOMAIN bundle')
    BY <1>2, <1>6, <1>10, <2>3, DirectoryMoves
  <2>. QED  BY <1>1, <1>2, <1>4, <1>5, <1>6, <2>1, <2>4, OtherRests
<1>. QED  BY <1>7, <1>8, <1>9, <1>10 DEF TouchesFiles

(* An export that is alone stays so while it goes on.                      *)
LEMMA StaysAlone ==
  ASSUME CoreInv, NEW y \in Exports, \A z \in Exports \ {y} : pc[z] \in Exporting => ~Overlap(y, z),
         NEW p, pc' = [pc EXCEPT ![y] = p], request' = request
  PROVE  Alone(y)'
<1>1. /\ \A z \in Exports \ {y} : pc'[z] = pc[z]
      /\ \A z \in Exports : BundleOf(z)' = BundleOf(z)
  BY DEF CoreInv, CtlTypes, Requests, BundleOf
<1>2. \A z \in Exports : Overlap(y, z)' = Overlap(y, z)
  BY <1>1 DEF Overlap
<1>3. ASSUME NEW z \in Exports \ {y}, pc'[z] \in Exporting
      PROVE  Apart(y, z)'
  <2>1. ~Overlap(y, z)'
    BY <1>1, <1>2, <1>3
  <2>. QED  BY <2>1 DEF Apart, Overlap
<1>. QED  BY <1>3 DEF Alone

(* What an undisturbed export does to its own files.                       *)
LEMMA OwnStarts ==
  ASSUME CoreInv, NEW y \in Exports, Clear(y), y \in undisturbed'
  PROVE  BundleOK(y)'
<1>1. /\ pc[y] = "admitted" /\ request' = request /\ loaded' = loaded
      /\ pc' = [pc EXCEPT ![y] = "removed"]
  BY DEF Clear, Goto
<1>2. IsPrefix(BundleOf(y), BundleOf(y))
  BY <1>1, BundleNamed
<1>3. {z \in Exports : Meets(y, z)} = {}
  BY <1>2 DEF Clear
<1>4. Alone(y)'
  BY <1>1, <1>3, StaysAlone DEF Meets
<1>5. pc'[y] = "removed"
  BY <1>1 DEF CoreInv, CtlTypes, Requests
<1>6. Directory(y)' = EmptyBundle
  BY <1>1, DirectoryMoves
<1>7. FilesOK("removed", Fails(y)', loaded'[y], EmptyBundle)
  BY FilesStart
<1>8. "sums" \notin DOMAIN EmptyBundle
  BY DEF EmptyBundle
<1>. QED  BY <1>4, <1>5, <1>6, <1>7, <1>8 DEF BundleOK, Opened, Writing

LEMMA OwnLoads ==
  ASSUME CoreInv, LogInv, LogInv', Settles, NEW y \in Exports, BundleOK(y), Load(y)
  PROVE  BundleOK(y)'
<1>. DEFINE seen == EventsOf(y)
            p == IF Comparable(y) /\ Sortable(ApprovalsIn(seen)) THEN "loaded" ELSE "failed"
<1>1. /\ pc[y] = "removed" /\ request' = request /\ loaded' = [loaded EXCEPT ![y] = seen]
      /\ pc' = [pc EXCEPT ![y] = p] /\ log' = log /\ crashes' = crashes
  BY DEF Load, Goto
<1>2. p \in {"loaded", "failed"} /\ (p = "failed" => request[y].naive \/ ~Sortable(ApprovalsIn(seen)))
  BY DEF Comparable
<1>. HIDE DEF p, seen
<1>3. pc'[y] = p /\ loaded'[y] = seen
  BY <1>1 DEF CoreInv, CtlTypes, Requests
<1>4. p = "failed" => Fails(y)'
  BY <1>1, <1>2, <1>3 DEF Fails
<1>5. Alone(y)'
  BY <1>1, StaysAlone DEF BundleOK, Alone, Apart, Exporting
<1>6. Directory(y)' = Directory(y) /\ BundleOf(y)' \in DOMAIN bundle'
  BY <1>1, DirectoryMoves DEF BundleOf
<1>7. EventsOK(y)'
  <2>1. /\ IsList(seen) /\ IsPrefix(seen, seen)
        /\ \A i \in 1 .. Len(seen) : LineOK(seen[i]) /\ seen[i].tenant = request[y].tenant
    BY EventsAre DEF LogInv, seen
  <2>2. ASSUME NEW i \in 1 .. Len(seen)
        PROVE  LineOK(seen[i])' /\ seen[i].tenant = request'[y].tenant
    <3>1. PICK e : e = seen[i]
      OBVIOUS
    <3>2. LineOK(e) => LineOK(e)'
      BY LineStays
    <3>3. PICK here : here = seen
      OBVIOUS
    <3>4. LineOK(e)' /\ e.tenant = request'[y].tenant
      BY <1>1, <2>1, <3>1, <3>2
    <3>5. seen' = seen
      BY <1>1 DEF EventsOf, InRange, seen
    <3>. QED  BY <3>1, <3>4, <3>5
  <2>3. EventsOf(y)' = seen
    BY <1>1 DEF EventsOf, InRange, seen
  <2>4. seen' = seen
    BY <2>3 DEF seen
  <2>. QED  BY <1>3, <2>1, <2>2, <2>3, <2>4 DEF EventsOK
<1>8. FilesOK("removed", Fails(y), loaded[y], Directory(y))
  BY <1>1 DEF BundleOK
<1>9. FilesOK(p, Fails(y)', loaded'[y], Directory(y)')
  <2>1. CASE p = "loaded"
    <3>1. FilesOK("loaded", Fails(y), loaded'[y], Directory(y)) /\ FilesOK("loaded", Fails(y)', loaded'[y], Directory(y))
      BY <1>8 DEF FilesOK, Exporting
    <3>. QED  BY <1>6, <2>1, <3>1
  <2>2. CASE p = "failed"
    <3>1. FilesOK("failed", Fails(y)', loaded'[y], Directory(y))
      BY <1>4, <1>8, <2>2 DEF FilesOK, Exporting
    <3>. QED  BY <1>6, <2>2, <3>1
  <2>. QED  BY <1>2, <2>1, <2>2
<1>. QED  BY <1>2, <1>3, <1>5, <1>6, <1>7, <1>9 DEF BundleOK, Opened, Writing

LEMMA OwnWrites ==
  ASSUME CoreInv, NEW y \in Exports, BundleOK(y), WritesFile(y), EventsOK(y) => EventsOK(y)'
  PROVE  BundleOK(y)'
<1>. DEFINE b == Directory(y)
            d == Directory(y)'
            events == loaded[y]
            f == Fails(y)
<1>1. pc[y] \in Writing /\ request' = request /\ loaded' = loaded /\ \E p : pc' = [pc EXCEPT ![y] = p]
  BY DEF WritesFile, WriteEvents, WriteApprovals, WriteSummary, Write, Seal, Writing, Goto
<1>2. /\ BundleOf(y) \in DOMAIN bundle /\ pc \in [Requests -> Places] /\ y \in Requests
      /\ EventsOK(y)' /\ FilesOK(pc[y], f, events, b)
  BY <1>1 DEF BundleOK, CoreInv, CtlTypes, Requests
<1>3. BundleOf(y)' = BundleOf(y) /\ Fails(y)' = f
  BY <1>1 DEF BundleOf, Fails
<1>4. Alone(y)'
  BY <1>1, StaysAlone DEF BundleOK, Alone, Apart, Exporting, Writing
<1>5. ASSUME NEW dir, bundle' = [bundle EXCEPT ![BundleOf(y)] = dir]
      PROVE  d = dir /\ BundleOf(y)' \in DOMAIN bundle'
  BY <1>2, <1>3, <1>5 DEF Directory
<1>6. b = bundle[BundleOf(y)]
  BY <1>2 DEF Directory
<1>7. FilesOK(pc'[y], f, events, d) /\ pc'[y] \in Opened /\ BundleOf(y)' \in DOMAIN bundle'
  <2>1. CASE WriteEvents(y)
    <3>1. pc[y] = "loaded" /\ pc'[y] = "written" /\ bundle' = [bundle EXCEPT ![BundleOf(y)] = With(b, "audit", events)]
      BY <1>2, <1>6, <2>1 DEF WriteEvents, Write, Goto
    <3>. HIDE DEF b, d, events, f
    <3>2. d = With(b, "audit", events) /\ BundleOf(y)' \in DOMAIN bundle'
      BY <1>5, <3>1
    <3>3. FilesOK("loaded", f, events, b) /\ d = With(b, "audit", events) => FilesOK("written", f, events, d)
      BY FilesWritten
    <3>. QED  BY <1>2, <3>1, <3>2, <3>3 DEF Opened
  <2>2. CASE WriteApprovals(y)
    <3>1. /\ pc[y] = "written" /\ pc'[y] = "approved"
          /\ bundle' = [bundle EXCEPT ![BundleOf(y)] = With(b, "approvals", ApprovalsIn(events))]
      BY <1>2, <1>6, <2>2 DEF WriteApprovals, Write, Goto
    <3>. HIDE DEF b, d, events, f
    <3>2. d = With(b, "approvals", ApprovalsIn(events)) /\ BundleOf(y)' \in DOMAIN bundle'
      BY <1>5, <3>1
    <3>3. FilesOK("written", f, events, b) /\ d = With(b, "approvals", ApprovalsIn(events))
            => FilesOK("approved", f, events, d)
      BY FilesWritten
    <3>. QED  BY <1>2, <3>1, <3>2, <3>3 DEF Opened
  <2>3. CASE WriteSummary(y)
    <3>. DEFINE sizes == <<Len(events), Cardinality(ApprovalsIn(events))>>
    <3>1. /\ pc[y] = "approved" /\ pc'[y] = "counted"
          /\ bundle' = [bundle EXCEPT ![BundleOf(y)] = With(b, "count", sizes)]
      BY <1>2, <1>6, <2>3 DEF WriteSummary, Write, Goto
    <3>2. FilesOK("approved", f, events, b) /\ d = With(b, "count", sizes) => FilesOK("counted", f, events, d)
      <4>. HIDE DEF b, d, events, f
      <4>. QED  BY FilesWritten
    <3>. HIDE DEF b, d, events, f, sizes
    <3>3. d = With(b, "count", sizes) /\ BundleOf(y)' \in DOMAIN bundle'
      BY <1>5, <3>1
    <3>. QED  BY <1>2, <3>1, <3>2, <3>3 DEF Opened
  <2>4. CASE Seal(y)
    <3>1. /\ pc[y] = "counted"
          /\ {"audit", "approvals", "count"} \subseteq DOMAIN b =>
               /\ pc'[y] = "replying"
               /\ bundle' = [bundle EXCEPT ![BundleOf(y)] = With(b, "sums", <<b.audit, b.approvals, b.count>>)]
      BY <1>2, <2>4 DEF Seal, Goto
    <3>. HIDE DEF b, d, events, f
    <3>2. /\ FilesOK("counted", f, events, b) => {"audit", "approvals", "count"} \subseteq DOMAIN b
          /\ FilesOK("counted", f, events, b) /\ d = With(b, "sums", <<b.audit, b.approvals, b.count>>)
               => FilesOK("replying", f, events, d)
      BY FilesWritten
    <3>3. d = With(b, "sums", <<b.audit, b.approvals, b.count>>) /\ BundleOf(y)' \in DOMAIN bundle'
      BY <1>2, <1>5, <3>1, <3>2
    <3>. QED  BY <1>2, <3>1, <3>2, <3>3 DEF Opened
  <2>. QED  BY <2>1, <2>2, <2>3, <2>4 DEF WritesFile
<1>8. FilesOK(pc'[y], Fails(y)', loaded'[y], Directory(y)')
  <2>. HIDE DEF f
  <2>. QED  BY <1>1, <1>3, <1>7
<1>. QED  BY <1>2, <1>4, <1>7, <1>8 DEF BundleOK

LEMMA BundleStep == CoreInv /\ LogInv /\ BundleInv /\ [Next]_vars => BundleInv'
<1>. SUFFICES ASSUME CoreInv, LogInv, BundleInv, [Next]_vars PROVE BundleInv'
  OBVIOUS
<1>0. Settles /\ CoreInv' /\ LogInv'
  BY Settled, CoreStep, LogStep
<1>1. \A x \in undisturbed : x \in Exports /\ pc[x] # "new" /\ BundleOK(x)
  BY DEF BundleInv, BundleOK, Opened
<1>2. ASSUME NEW x \in Exports, pc[x] # "new"
      PROVE  request'[x] = request[x] /\ BundleOf(x)' = BundleOf(x)
  BY <1>0, <1>2 DEF Settles, Requests, BundleOf
<1>3. CASE FilesRest
  <2>1. ASSUME NEW x \in undisturbed'
        PROVE  BundleOK(x)'
    <3>1. x \in undisturbed /\ bundle' = bundle /\ loaded' = loaded
      BY <1>3, <2>1 DEF FilesRest
    <3>2. x \in Exports /\ pc[x] # "new" /\ BundleOK(x)
      BY <1>1, <3>1
    <3>3. EventsOK(x) => EventsOK(x)'
      BY <1>0, <3>1, <3>2, EventsStay
    <3>4. \/ pc'[x] \in {pc[x], "crashed"}
          \/ pc[x] \in {"replying", "failed"} /\ pc'[x] = "done"
      BY <1>3, <3>2 DEF FilesRest, BundleOK
    <3>5. BundleOf(x)' = BundleOf(x) /\ Directory(x)' = Directory(x) /\ Fails(x)' = Fails(x)
      BY <1>2, <3>1, <3>2 DEF Directory, Fails
    <3>6. FilesOK(pc'[x], Fails(x)', loaded'[x], Directory(x)')
      <4>1. FilesOK(pc'[x], Fails(x), loaded[x], Directory(x))
        BY <3>2, <3>4, FilesOnward DEF BundleOK
      <4>. QED  BY <3>1, <3>5, <4>1
    <3>7. ASSUME NEW y \in Exports \ {x}, pc'[y] \in Exporting
          PROVE  Apart(x, y)'
      <4>1. pc[y] \in Exporting /\ (pc'[x] \in Exporting => pc[x] \in Exporting)
        BY <1>3, <3>2, <3>7 DEF FilesRest
      <4>2. Apart(x, y)
        BY <3>2, <3>7, <4>1 DEF BundleOK, Alone
      <4>3. BundleOf(y)' = BundleOf(y)
        BY <1>2, <3>7, <4>1 DEF Exporting
      <4>. QED  BY <3>5, <4>1, <4>2, <4>3 DEF Apart, Overlap
    <3>8. pc'[x] \in Opened /\ (pc'[x] \in Writing => pc[x] \in Writing)
      BY <3>2, <3>4 DEF BundleOK, Opened, Writing
    <3>. QED  BY <3>1, <3>2, <3>3, <3>5, <3>6, <3>7, <3>8 DEF BundleOK, Alone
  <2>. QED  BY <1>3, <2>1 DEF BundleInv, FilesRest
<1>4. ASSUME NEW y \in Exports, TouchesFiles(y)
      PROVE  BundleInv'
  <2>1. undisturbed' \subseteq undisturbed \cup {y} /\ (~Clear(y) => undisturbed' = undisturbed)
    BY <1>4 DEF TouchesFiles, WritesFile, WriteEvents, WriteApprovals, WriteSummary, Write, Seal,
                Clear, ClearFails, Load, files
  <2>2. ASSUME NEW x \in undisturbed', x # y
        PROVE  BundleOK(x)'
    BY <1>4, <2>1, <2>2, OthersStay
  <2>3. ASSUME y \in undisturbed'
        PROVE  BundleOK(y)'
    <3>1. CASE Clear(y)
      BY <2>3, <3>1, OwnStarts
    <3>2. CASE ~Clear(y)
      <4>1. y \in undisturbed /\ BundleOK(y) /\ pc[y] # "new"
        BY <1>1, <2>1, <2>3, <3>2
      <4>2. CASE ClearFails(y)
        <5>1. PICK z \in Exports : z # y /\ pc[z] \in Exporting /\ Overlap(y, z)
          BY <4>2 DEF ClearFails, Meets
        <5>. QED  BY <4>1, <4>2, <5>1 DEF ClearFails, BundleOK, Alone, Apart, Exporting
      <4>3. CASE Load(y)
        BY <1>0, <4>1, <4>3, OwnLoads
      <4>4. CASE WritesFile(y)
        <5>1. loaded' = loaded
          BY <4>4 DEF WritesFile, WriteEvents, WriteApprovals, WriteSummary, Write, Seal
        <5>2. EventsOK(y) => EventsOK(y)'
          BY <1>0, <4>1, <5>1, EventsStay
        <5>. QED  BY <4>1, <4>4, <5>2, OwnWrites
      <4>. QED  BY <1>4, <3>2, <4>2, <4>3, <4>4 DEF TouchesFiles
    <3>. QED  BY <3>1, <3>2
  <2>4. undisturbed' \subseteq Exports
    BY <1>1, <2>1
  <2>. QED  BY <2>2, <2>3, <2>4 DEF BundleInv
<1>. QED  BY <1>3, <1>4, FilesMove

(* The rows of a bundle, and the approvers of one request in them.         *)
LEMMA RowIs ==
  ASSUME NEW events, NEW row
  PROVE  row \in ApprovalsIn(events) <=>
           \E e \in Range(events) : \E a \in e.approvals :
             row = [request |-> e.request, timestamp |-> e.timestamp, approval_id |-> a.approval_id,
                    approver_id |-> a.approver_id, role |-> a.role]
<1>. DEFINE of(e, a) == [request |-> e.request, timestamp |-> e.timestamp, approval_id |-> a.approval_id,
                         approver_id |-> a.approver_id, role |-> a.role]
            ofEvent(e) == {of(e, a) : a \in e.approvals}
<1>1. ApprovalsIn(events) = UNION {ofEvent(e) : e \in Range(events)}
  BY DEF ApprovalsIn
<1>2. \A e : row \in ofEvent(e) <=> \E a \in e.approvals : row = of(e, a)
  <2>. HIDE DEF of
  <2>. QED  OBVIOUS
<1>. HIDE DEF ofEvent
<1>3. row \in ApprovalsIn(events) <=> \E e \in Range(events) : row \in ofEvent(e)
  BY <1>1
<1>4. row \in ApprovalsIn(events) <=> \E e \in Range(events) : \E a \in e.approvals : row = of(e, a)
  BY <1>2, <1>3
<1>. QED  BY <1>4

ApproversOf(r, rows) == {row.approver_id : row \in {other \in rows : other.request = r}}

LEMMA RowsMean ==
  ASSUME NEW events, IsList(events), \A i \in 1 .. Len(events) : LineOK(events[i])
  PROVE  /\ \A row \in ApprovalsIn(events) : row.request \in Requests /\ quorum[row.request].met
         /\ \A i \in 1 .. Len(events) :
              LET r == events[i].request
              IN  ApproversOf(r, ApprovalsIn(events)) = IF quorum[r].met THEN Approvers(quorum[r].used) ELSE {}
<1>. DEFINE rows == ApprovalsIn(events)
            of(r) == IF quorum[r].met THEN quorum[r].used ELSE {}
<1>1. \A e \in Range(events) : e.request \in Requests /\ e.approvals = of(e.request)
  BY DEF Range, IsList, LineOK
<1>2. ASSUME NEW row \in rows
      PROVE  row.request \in Requests /\ \E a \in of(row.request) : row.approver_id = a.approver_id
  <2>1. PICK e \in Range(events) : \E a \in e.approvals :
             row = [request |-> e.request, timestamp |-> e.timestamp, approval_id |-> a.approval_id,
                    approver_id |-> a.approver_id, role |-> a.role]
    BY <1>2, RowIs
  <2>2. PICK a \in e.approvals :
             row = [request |-> e.request, timestamp |-> e.timestamp, approval_id |-> a.approval_id,
                    approver_id |-> a.approver_id, role |-> a.role]
    BY <2>1
  <2>3. row.request = e.request /\ row.approver_id = a.approver_id
    BY <2>2
  <2>4. e.request \in Requests /\ e.approvals = of(e.request)
    BY <1>1
  <2>. HIDE DEF of
  <2>. QED  BY <2>2, <2>3, <2>4
<1>3. ASSUME NEW i \in 1 .. Len(events), NEW a \in of(events[i].request)
      PROVE  \E row \in rows : row.request = events[i].request /\ row.approver_id = a.approver_id
  <2>1. PICK e : e = events[i]
    OBVIOUS
  <2>2. e \in Range(events)
    BY <2>1 DEF Range, IsList
  <2>. DEFINE row == [request |-> e.request, timestamp |-> e.timestamp, approval_id |-> a.approval_id,
                      approver_id |-> a.approver_id, role |-> a.role]
  <2>3. a \in e.approvals
    BY <1>1, <2>1, <2>2
  <2>4. row.request = e.request /\ row.approver_id = a.approver_id
    OBVIOUS
  <2>5. row \in rows
    BY <2>2, <2>3, RowIs
  <2>. HIDE DEF row, rows
  <2>. QED  BY <2>1, <2>4, <2>5
<1>. HIDE DEF rows
<1>4. \A row \in rows : row.request \in Requests /\ quorum[row.request].met
  BY <1>2
<1>5. ASSUME NEW i \in 1 .. Len(events)
      PROVE  ApproversOf(events[i].request, rows) = Approvers(of(events[i].request))
  <2>. DEFINE r == events[i].request
  <2>1. \A row \in rows : row.request = r => \E a \in of(r) : row.approver_id = a.approver_id
    BY <1>2
  <2>2. \A a \in of(r) : \E row \in rows : row.request = r /\ row.approver_id = a.approver_id
    BY <1>3
  <2>. HIDE DEF r, of
  <2>3. ApproversOf(r, rows) = Approvers(of(r))
    BY <2>1, <2>2 DEF ApproversOf, Approvers
  <2>. QED  BY <2>3 DEF r
<1>6. \A r : Approvers(of(r)) = IF quorum[r].met THEN Approvers(quorum[r].used) ELSE {}
  BY DEF Approvers
<1>. HIDE DEF of
<1>. QED  BY <1>4, <1>5, <1>6 DEF rows

(* For any requests and crashes: a bundle that no other export disturbed   *)
(* is what it says once it has checksums: events of its tenant only, those *)
(* that could be read when it was started; of each emission among them     *)
(* whose quorum was met the approvals that counted, of nothing else any;   *)
(* and checksums of what is in its files.  And its export fails only if    *)
(* the approvals cannot be sorted or its range names no time zone.         *)
THEOREM BundleVerifiesAlways == Spec => []BundleVerifies
<1>1. ASSUME CoreInv, BundleInv, NEW x \in undisturbed
      PROVE  LET b == Directory(x)
                 fails == request[x].naive \/ ~Sortable(ApprovalsIn(loaded[x]))
                 approvers(r) == {a.approver_id : a \in {row \in b.approvals : row.request = r}}
             IN  /\ pc[x] = "failed" => fails
                 /\ pc[x] = "replying" \/ (pc[x] = "done" /\ ~fails) => "sums" \in DOMAIN b
                 /\ "sums" \in DOMAIN b =>
                      /\ b.audit = loaded[x] /\ b.count = <<Len(b.audit), Cardinality(b.approvals)>>
                      /\ b.sums = <<b.audit, b.approvals, b.count>>
                      /\ \A i \in 1 .. Len(b.audit) :
                           LET e == b.audit[i] IN
                           /\ e # Garbage /\ request[e.request].tenant = request[x].tenant
                           /\ e.request \in Emissions =>
                                IF quorum[e.request].met
                                THEN /\ approvers(e.request) \subseteq
                                          {a.approver_id : a \in Range(request[e.request].approvals)}
                                     /\ Cardinality(approvers(e.request)) >= quorum[e.request].required
                                ELSE approvers(e.request) = {}
                      /\ \A row \in b.approvals : row.request \in Emissions /\ quorum[row.request].met
                      /\ crashes = 0 => IsPrefix(b.audit, EventsOf(x))
  <2>. DEFINE b == Directory(x)
              events == loaded[x]
              rows == ApprovalsIn(events)
              fails == request[x].naive \/ ~Sortable(rows)
              approvers(r) == {a.approver_id : a \in {row \in b.approvals : row.request = r}}
  <2>1. x \in Exports /\ BundleOK(x)
    BY <1>1 DEF BundleInv
  <2>2. /\ pc[x] = "failed" => fails
        /\ pc[x] = "replying" \/ (pc[x] = "done" /\ ~fails) => "sums" \in DOMAIN b
    BY <2>1 DEF BundleOK, FilesOK, Fails
  <2>3. ASSUME "sums" \in DOMAIN b
        PROVE  /\ b.audit = events /\ b.approvals = rows /\ b.count = <<Len(events), Cardinality(rows)>>
               /\ b.sums = <<b.audit, b.approvals, b.count>>
    BY <2>1, <2>3 DEF BundleOK, FilesOK
  <2>4. ASSUME "sums" \in DOMAIN b
        PROVE  /\ IsList(events)
               /\ \A i \in 1 .. Len(events) : LineOK(events[i]) /\ events[i].tenant = request[x].tenant
               /\ crashes = 0 => IsPrefix(events, EventsOf(x))
    BY <2>1, <2>4 DEF BundleOK, EventsOK
  <2>5. request[x].tenant \in Tenants
    <3>1. request[x] \in Offered[x]
      BY <1>1, <2>1 DEF BundleOK, Opened, CoreInv, CtlTypes, Requests
    <3>. QED  BY <2>1, <3>1, ControlPlaneAssumption
  <2>6. ASSUME "sums" \in DOMAIN b
        PROVE  /\ \A row \in rows : row.request \in Emissions /\ quorum[row.request].met
               /\ \A i \in 1 .. Len(events) :
                    LET r == events[i].request
                    IN  ApproversOf(r, rows) = IF quorum[r].met THEN Approvers(quorum[r].used) ELSE {}
    <3>1. /\ \A row \in rows : row.request \in Requests /\ quorum[row.request].met
          /\ \A i \in 1 .. Len(events) :
               LET r == events[i].request
               IN  ApproversOf(r, rows) = IF quorum[r].met THEN Approvers(quorum[r].used) ELSE {}
      BY <2>4, <2>6, RowsMean
    <3>2. \A r \in Requests : quorum[r].met => r \in Emissions
      BY <1>1 DEF CoreInv, QuorumInv, Unasked, Requests
    <3>. HIDE DEF rows
    <3>. QED  BY <3>1, <3>2
  <2>7. ASSUME "sums" \in DOMAIN b, NEW i \in 1 .. Len(events)
        PROVE  LET r == events[i].request IN
               /\ events[i] # Garbage /\ request[r].tenant = request[x].tenant
               /\ r \in Emissions =>
                    IF quorum[r].met
                    THEN /\ ApproversOf(r, rows) \subseteq {a.approver_id : a \in Range(request[r].approvals)}
                         /\ Cardinality(ApproversOf(r, rows)) >= quorum[r].required
                    ELSE ApproversOf(r, rows) = {}
    <3>. DEFINE e == events[i]
                r == e.request
    <3>1. LineOK(e) /\ e.tenant = request[x].tenant
      BY <2>4, <2>7
    <3>2. ApproversOf(r, rows) = IF quorum[r].met THEN Approvers(quorum[r].used) ELSE {}
      BY <2>6, <2>7
    <3>. HIDE DEF e, rows
    <3>3. r \in Requests /\ e.tenant \in {None, request[r].tenant}
      BY <3>1 DEF LineOK
    <3>4. e # Garbage /\ request[r].tenant = request[x].tenant
      BY <2>5, <3>1, <3>3, Distinct3 DEF Garbage
    <3>5. ASSUME r \in Emissions, quorum[r].met
          PROVE  /\ ApproversOf(r, rows) \subseteq {a.approver_id : a \in Range(request[r].approvals)}
                 /\ Cardinality(ApproversOf(r, rows)) >= quorum[r].required
      <4>1. QuorumUsed(quorum[r], request[r].approvals)
        BY <1>1, <3>5 DEF CoreInv, QuorumInv, Unasked
      <4>. HIDE DEF r
      <4>. QED  BY <3>2, <3>5, <4>1 DEF QuorumUsed, Approvers
    <3>. QED  BY <3>2, <3>4, <3>5 DEF e
  <2>8. \A r : b.approvals = rows => approvers(r) = ApproversOf(r, rows)
    BY DEF ApproversOf
  <2>. HIDE DEF b, events, rows, fails, approvers
  <2>9. ASSUME "sums" \in DOMAIN b
        PROVE  /\ b.audit = events /\ b.count = <<Len(b.audit), Cardinality(b.approvals)>>
               /\ b.sums = <<b.audit, b.approvals, b.count>>
               /\ \A i \in 1 .. Len(b.audit) :
                    LET e == b.audit[i] IN
                    /\ e # Garbage /\ request[e.request].tenant = request[x].tenant
                    /\ e.request \in Emissions =>
                         IF quorum[e.request].met
                         THEN /\ approvers(e.request) \subseteq
                                   {a.approver_id : a \in Range(request[e.request].approvals)}
                              /\ Cardinality(approvers(e.request)) >= quorum[e.request].required
                         ELSE approvers(e.request) = {}
               /\ \A row \in b.approvals : row.request \in Emissions /\ quorum[row.request].met
               /\ crashes = 0 => IsPrefix(b.audit, EventsOf(x))
    <3>1. b.audit = events /\ b.approvals = rows /\ b.count = <<Len(b.audit), Cardinality(b.approvals)>>
          /\ b.sums = <<b.audit, b.approvals, b.count>>
      BY <2>3, <2>9
    <3>2. \A r : approvers(r) = ApproversOf(r, rows)
      BY <2>8, <3>1
    <3>. QED  BY <2>4, <2>6, <2>7, <2>9, <3>1, <3>2
  <2>. QED  BY <2>2, <2>9 DEF b, events, rows, fails, approvers
<1>2. CoreInv /\ BundleInv => BundleVerifies
  BY <1>1, Zenon DEF BundleVerifies
<1>3. Init => CoreInv /\ LogInv /\ BundleInv
  BY CoreInit, LogInit, BundleInit
<1>4. CoreInv /\ LogInv /\ BundleInv /\ [Next]_vars => (CoreInv /\ LogInv /\ BundleInv)'
  BY CoreStep, LogStep, BundleStep
<1>. QED  BY <1>2, <1>3, <1>4, PTL DEF Spec

=============================================================================
