------------------------------ MODULE Induction ------------------------------
(***************************************************************************)
(* Induction as the proofs of this project use it.  The library states it  *)
(* for an operator, which the provers cannot instantiate; here it is       *)
(* stated for a set, and the set of the numbers with a property is defined *)
(* where it is needed.  It rests on the least elements of well-founded     *)
(* sets, and gives the recursive functions, a loop over a list among them. *)
(***************************************************************************)
EXTENDS Lists, SequencesExt, FiniteSets, FiniteSetsExt, FiniteSetTheorems, WellFoundedInduction, TLAPS

LEMMA NatWellFounded == IsWellFoundedOn({ss \in Nat \X Nat : ss[1] < ss[2]}, Nat)
  BY NatLessThanWellFounded DEF OpToRel

(* A set of natural numbers has a least element.                           *)
LEMMA NatLeast ==
  ASSUME NEW T, T \subseteq Nat, T # {}
  PROVE  \E x \in T : \A y \in T : x <= y
<1>. DEFINE R == {ss \in Nat \X Nat : ss[1] < ss[2]}
<1>1. IsWellFoundedOn(R, Nat)
  BY NatWellFounded
<1>2. ASSUME NEW x \in Nat, NEW y \in Nat, ~(<<y, x>> \in R)
      PROVE  x <= y
  BY <1>2
<1>. HIDE DEF R
<1>3. PICK x \in T : \A y \in T : ~(<<y, x>> \in R)
  BY <1>1, WFMin
<1>4. \A y \in T : x <= y
  BY <1>2, <1>3
<1>. QED  BY <1>4

(* And one that is bounded has a greatest.                                 *)
LEMMA NatGreatest ==
  ASSUME NEW n \in Nat, NEW T, T \subseteq 0 .. n, T # {}
  PROVE  \E x \in T : \A y \in T : y <= x
<1>. DEFINE U == {n - x : x \in T}
<1>0. \A x \in T : x \in Int /\ x <= n
  OBVIOUS
<1>1. U \subseteq Nat /\ U # {}
  <2>1. ASSUME NEW u \in U
        PROVE  u \in Nat
    <3>1. PICK x \in T : u = n - x
      OBVIOUS
    <3>. QED  BY <1>0, <3>1
  <2>2. U # {}
    OBVIOUS
  <2>. QED  BY <2>1, <2>2
<1>2. PICK u \in U : \A v \in U : u <= v
  BY <1>1, NatLeast
<1>3. PICK x \in T : u = n - x
  BY <1>2
<1>4. \A y \in T : n - x <= n - y
  BY <1>2, <1>3
<1>. QED  BY <1>4

(* Induction over the natural numbers.                                     *)
LEMMA NatInduct ==
  ASSUME NEW T, 0 \in T, \A n \in Nat : n \in T => n + 1 \in T
  PROVE  Nat \subseteq T
<1>. DEFINE U == Nat \ T
<1>1. SUFFICES ASSUME U # {}
               PROVE  FALSE
  OBVIOUS
<1>2. PICK x \in U : \A y \in U : x <= y
  BY <1>1, NatLeast
<1>3. x \in Nat /\ x # 0
  OBVIOUS
<1>4. x - 1 \in Nat /\ x - 1 \in T
  BY <1>2, <1>3
<1>. QED  BY <1>3, <1>4

(* Induction up to a bound.                                                *)
LEMMA UpToInduct ==
  ASSUME NEW m \in Nat, NEW T, 0 \in T, \A n \in 0 .. m - 1 : n \in T => n + 1 \in T
  PROVE  0 .. m \subseteq T
<1>. DEFINE U == {n \in Nat : n <= m => n \in T}
<1>1. 0 \in U
  OBVIOUS
<1>2. ASSUME NEW n \in Nat, n \in U
      PROVE  n + 1 \in U
  BY <1>2
<1>. HIDE DEF U
<1>3. Nat \subseteq U
  BY <1>1, <1>2, NatInduct
<1>. QED  BY <1>3 DEF U

(* Induction over the finite subsets of a set: an element at a time.       *)
LEMMA FiniteInduct ==
  ASSUME NEW S, IsFiniteSet(S), NEW T, {} \in T,
         \A A \in SUBSET S : \A x \in S \ A : A \in T => A \cup {x} \in T
  PROVE  S \in T
<1>. DEFINE U == {n \in Nat : \A A \in SUBSET S : Cardinality(A) = n => A \in T}
<1>0. \A A \in SUBSET S : IsFiniteSet(A) /\ Cardinality(A) \in Nat
  BY FS_Subset, FS_CardinalityType
<1>1. 0 \in U
  BY <1>0, FS_EmptySet
<1>2. ASSUME NEW n \in Nat, n \in U
      PROVE  n + 1 \in U
  <2>1. SUFFICES ASSUME NEW A \in SUBSET S, Cardinality(A) = n + 1
                 PROVE  A \in T
    OBVIOUS
  <2>2. PICK x \in A : TRUE
    BY <2>1, <1>0, FS_EmptySet
  <2>3. Cardinality(A \ {x}) = n
    <3>1. IsFiniteSet(A)
      BY <1>0
    <3>2. Cardinality(A \ {x}) = Cardinality(A) - 1
      BY <3>1, FS_RemoveElement
    <3>. QED  BY <2>1, <3>2
  <2>4. A \ {x} \in T
    BY <1>2, <2>3
  <2>5. (A \ {x}) \cup {x} = A
    OBVIOUS
  <2>. QED  BY <2>4, <2>5
<1>. HIDE DEF U
<1>3. Nat \subseteq U
  BY <1>1, <1>2, NatInduct
<1>. QED  BY <1>0, <1>3 DEF U

(* A loop over 1 .. n: what it starts from and what each step makes of S.  *)
IsLoop(n, S, base, step) == n \in Nat /\ base \in S /\ step \in [1 .. n -> [S -> S]]

(* The values that a loop takes, as a function of the steps taken.         *)
IsRunOf(f, n, S, base, step) ==
  /\ f \in [0 .. n -> S]
  /\ f[0] = base
  /\ \A i \in 1 .. n : f[i] = step[i][f[i - 1]]

(* The definition of the values by recursion has a solution.  (The two     *)
(* operators are what the provers find this lemma by.)                     *)
LEMMA LoopExists ==
  ASSUME NEW n, NEW S, NEW base, NEW step, IsLoop(n, S, base, step)
  PROVE  \E f : IsRunOf(f, n, S, base, step)
<1>. n \in Nat /\ base \in S /\ step \in [1 .. n -> [S -> S]]
  BY DEF IsLoop
<1>. DEFINE Solves(k, f) ==
       \A i \in 0 .. k : f[i] = IF i = 0 THEN base ELSE step[i][f[i - 1]]
<1>. DEFINE T == {k \in 0 .. n : \E f \in [0 .. k -> S] : Solves(k, f)}
<1>1. 0 \in T
  <2>1. \E f \in [0 .. 0 -> S] : Solves(0, f)
    <3>1. [i \in 0 .. 0 |-> base] \in [0 .. 0 -> S]
      OBVIOUS
    <3>2. Solves(0, [i \in 0 .. 0 |-> base])
      OBVIOUS
    <3>. HIDE DEF Solves
    <3>. QED  BY <3>1, <3>2
  <2>. HIDE DEF Solves
  <2>. QED  BY <2>1
<1>2. ASSUME NEW k \in 0 .. n - 1, k \in T
      PROVE  k + 1 \in T
  <2>1. PICK f \in [0 .. k -> S] : Solves(k, f)
    BY <1>2
  <2>. DEFINE g == [i \in 0 .. k + 1 |-> IF i = k + 1 THEN step[k + 1][f[k]] ELSE f[i]]
  <2>2. f[k] \in S /\ step[k + 1] \in [S -> S]
    OBVIOUS
  <2>3. g \in [0 .. k + 1 -> S]
    BY <2>2
  <2>4. ASSUME NEW i \in 0 .. k + 1
        PROVE  g[i] = IF i = 0 THEN base ELSE step[i][g[i - 1]]
    <3>1. CASE i = k + 1
      <4>1. i - 1 = k /\ g[i - 1] = f[k]
        BY <3>1
      <4>. QED  BY <3>1, <4>1
    <3>2. CASE i \in 0 .. k
      <4>1. g[i] = f[i] /\ (i # 0 => g[i - 1] = f[i - 1])
        BY <3>2
      <4>2. f[i] = IF i = 0 THEN base ELSE step[i][f[i - 1]]
        BY <2>1, <3>2
      <4>. QED  BY <4>1, <4>2
    <3>. QED  BY <3>1, <3>2
  <2>5. Solves(k + 1, g)
    BY <2>4
  <2>. HIDE DEF g, Solves
  <2>. QED  BY <2>3, <2>5
<1>. HIDE DEF T
<1>3. 0 .. n \subseteq T
  BY <1>1, <1>2, UpToInduct
<1>4. PICK f \in [0 .. n -> S] : Solves(n, f)
  BY <1>3 DEF T
<1>5. f[0] = base /\ \A i \in 1 .. n : f[i] = step[i][f[i - 1]]
  BY <1>4
<1>. QED  BY <1>4, <1>5 DEF IsRunOf

(* What holds before a loop and is kept by each of its steps always holds. *)
IsKept(S, f, n) == n \in Nat /\ f[0] \in S /\ \A i \in 1 .. n : f[i - 1] \in S => f[i] \in S

LEMMA LoopKeeps ==
  ASSUME NEW n, NEW S, NEW f, IsKept(S, f, n)
  PROVE  \A i \in 0 .. n : f[i] \in S
<1>. n \in Nat /\ f[0] \in S /\ \A i \in 1 .. n : f[i - 1] \in S => f[i] \in S
  BY DEF IsKept
<1>. DEFINE T == {i \in 0 .. n : f[i] \in S}
<1>1. 0 \in T
  OBVIOUS
<1>2. ASSUME NEW i \in 0 .. n - 1, i \in T
      PROVE  i + 1 \in T
  <2>1. i + 1 \in 1 .. n /\ (i + 1) - 1 = i
    OBVIOUS
  <2>. QED  BY <1>2, <2>1
<1>. HIDE DEF T
<1>3. 0 .. n \subseteq T
  BY <1>1, <1>2, UpToInduct
<1>. QED  BY <1>3 DEF T


-----------------------------------------------------------------------------
(* What Lists says of a loop that keeps some elements of a list.           *)

IsPicks(f, S, s, keep) ==
  /\ s \in Seq(S) /\ Len(s) \in Nat
  /\ \A i \in 0 .. Len(s) : f[i] \in Seq(S)
  /\ f[0] = <<>>
  /\ \A i \in 1 .. Len(s) : f[i] = IF i \in keep THEN Append(f[i - 1], s[i]) ELSE f[i - 1]

LEMMA PicksIs ==
  ASSUME NEW S, NEW s, s \in Seq(S), NEW keep
  PROVE  IsPicks(Picks(s, keep), S, s, keep)
<1>. DEFINE m == Len(s)
            turn(i, p) == IF i \in keep THEN Append(p, s[i]) ELSE p
            step == [i \in 1 .. m |-> [p \in Seq(S) |-> turn(i, p)]]
            kept[i \in 0 .. m] == IF i = 0 THEN <<>> ELSE turn(i, kept[i - 1])
<1>1. m \in Nat /\ <<>> \in Seq(S)
  OBVIOUS
<1>2. Picks(s, keep) = kept
  BY DEF Picks
<1>3. ASSUME NEW i \in 1 .. m, NEW p \in Seq(S)
      PROVE  turn(i, p) \in Seq(S)
  OBVIOUS
<1>. HIDE DEF turn, m
<1>4. IsLoop(m, Seq(S), <<>>, step)
  BY <1>1, <1>3 DEF IsLoop
<1>5. PICK f : IsRunOf(f, m, Seq(S), <<>>, step)
  <2>. HIDE DEF step
  <2>. QED  BY <1>4, LoopExists
<1>6. f = [i \in 0 .. m |-> IF i = 0 THEN <<>> ELSE turn(i, f[i - 1])]
  <2>1. f = [i \in 0 .. m |-> f[i]] /\ f[0] = <<>>
    BY <1>5 DEF IsRunOf
  <2>2. ASSUME NEW i \in 0 .. m, i # 0
        PROVE  f[i] = turn(i, f[i - 1])
    <3>1. i \in 1 .. m
      BY <1>1, <2>2
    <3>2. f[i - 1] \in Seq(S) /\ f[i] = step[i][f[i - 1]]
      <4>. HIDE DEF step
      <4>. QED  BY <1>1, <1>5, <3>1 DEF IsRunOf
    <3>. QED  BY <3>1, <3>2
  <2>. QED  BY <2>1, <2>2
<1>7. kept = [i \in 0 .. m |-> IF i = 0 THEN <<>> ELSE turn(i, kept[i - 1])]
  BY <1>6, Zenon
<1>. HIDE DEF kept
<1>8. /\ kept[0] = <<>>
      /\ \A i \in 1 .. m : kept[i] = turn(i, kept[i - 1])
  BY <1>1, <1>7
<1>9. IsKept(Seq(S), kept, m)
  BY <1>1, <1>3, <1>8 DEF IsKept
<1>10. \A i \in 0 .. m : kept[i] \in Seq(S)
  BY <1>9, LoopKeeps
<1>11. \A i \in 1 .. m : kept[i] = IF i \in keep THEN Append(kept[i - 1], s[i]) ELSE kept[i - 1]
  BY <1>8 DEF turn
<1>. QED  BY <1>1, <1>2, <1>8, <1>10, <1>11 DEF IsPicks, m

(* p is what s holds at the places of keep: at gives the place of each.    *)
PickOf(p, at, s, keep) ==
  /\ Len(p) \in Nat /\ Len(s) \in Nat
  /\ \A k \in 1 .. Len(p) : at[k] \in keep /\ at[k] \in 1 .. Len(s) /\ p[k] = s[at[k]]
  /\ \A k \in 1 .. Len(p) : \A l \in 1 .. Len(p) : k < l => at[k] < at[l]
  /\ \A i \in 1 .. Len(s) : i \in keep => \E k \in 1 .. Len(p) : at[k] = i

LEMMA PickedPlaces ==
  ASSUME NEW S, NEW s, s \in Seq(S), NEW keep
  PROVE  Picked(s, keep) \in Seq(S) /\ \E at : PickOf(Picked(s, keep), at, s, keep)
<1>. DEFINE f == Picks(s, keep)
            m == Len(s)
            upTo(n, at) ==
              /\ \A k \in 1 .. Len(f[n]) : at[k] \in keep /\ at[k] \in 1 .. n /\ f[n][k] = s[at[k]]
              /\ \A k \in 1 .. Len(f[n]) : \A l \in 1 .. Len(f[n]) : k < l => at[k] < at[l]
              /\ \A i \in 1 .. n : i \in keep => \E k \in 1 .. Len(f[n]) : at[k] = i
            T == {n \in 0 .. m : \E at : upTo(n, at)}
<1>1. /\ m \in Nat
      /\ \A i \in 0 .. m : f[i] \in Seq(S)
      /\ f[0] = <<>>
      /\ \A i \in 1 .. m : f[i] = IF i \in keep THEN Append(f[i - 1], s[i]) ELSE f[i - 1]
  BY PicksIs DEF IsPicks
<1>. HIDE DEF f, m
<1>2. 0 \in T
  BY <1>1
<1>3. ASSUME NEW n \in 0 .. m - 1, n \in T
      PROVE  n + 1 \in T
  <2>0. n + 1 \in 1 .. m /\ (n + 1) - 1 = n /\ f[n] \in Seq(S) /\ n + 1 \in 0 .. m
    BY <1>1
  <2>1. PICK at : upTo(n, at)
    BY <1>3
  <2>2. CASE n + 1 \notin keep
    <3>1. f[n + 1] = f[n]
      BY <1>1, <2>0, <2>2
    <3>2. upTo(n + 1, at)
      BY <2>0, <2>1, <2>2, <3>1
    <3>. HIDE DEF upTo
    <3>. QED  BY <2>0, <3>2
  <2>3. CASE n + 1 \in keep
    <3>. DEFINE p == f[n]
                q == f[n + 1]
                c == Len(p) + 1
                bt == [k \in 1 .. c |-> IF k = c THEN n + 1 ELSE at[k]]
    <3>1. q = Append(p, s[n + 1])
      BY <1>1, <2>0, <2>3
    <3>2. /\ Len(p) \in Nat /\ Len(q) = c
          /\ q[c] = s[n + 1] /\ \A k \in 1 .. Len(p) : q[k] = p[k]
      BY <2>0, <3>1
    <3>3. bt[c] = n + 1 /\ \A k \in 1 .. Len(p) : bt[k] = at[k]
      BY <3>2
    <3>4. \A k \in 1 .. c : k = c \/ k \in 1 .. Len(p)
      BY <3>2
    <3>5. /\ \A k \in 1 .. Len(p) : at[k] \in keep /\ at[k] \in 1 .. n /\ p[k] = s[at[k]]
          /\ \A k \in 1 .. Len(p) : \A l \in 1 .. Len(p) : k < l => at[k] < at[l]
          /\ \A i \in 1 .. n : i \in keep => \E k \in 1 .. Len(p) : at[k] = i
      BY <2>1
    <3>. HIDE DEF p, q, bt, upTo
    <3>6. \A k \in 1 .. c : bt[k] \in keep /\ bt[k] \in 1 .. n + 1 /\ q[k] = s[bt[k]]
      BY <2>0, <2>3, <3>2, <3>3, <3>4, <3>5
    <3>7. \A k \in 1 .. c : \A l \in 1 .. c : k < l => bt[k] < bt[l]
      <4>1. ASSUME NEW k \in 1 .. c, NEW l \in 1 .. c, k < l
            PROVE  bt[k] < bt[l]
        <5>1. k \in 1 .. Len(p)
          BY <3>2, <4>1
        <5>2. at[k] \in 1 .. n
          BY <3>5, <5>1
        <5>3. CASE l = c
          BY <3>3, <5>1, <5>2, <5>3
        <5>4. CASE l \in 1 .. Len(p)
          BY <3>3, <3>5, <4>1, <5>1, <5>4
        <5>. QED  BY <3>4, <5>3, <5>4
      <4>. QED  BY <4>1
    <3>8. \A i \in 1 .. n + 1 : i \in keep => \E k \in 1 .. c : bt[k] = i
      <4>1. ASSUME NEW i \in 1 .. n + 1, i \in keep
            PROVE  \E k \in 1 .. c : bt[k] = i
        <5>1. CASE i = n + 1
          <6>1. c \in 1 .. c
            BY <3>2
          <6>. QED  BY <3>3, <5>1, <6>1
        <5>2. CASE i \in 1 .. n
          <6>1. PICK k \in 1 .. Len(p) : at[k] = i
            BY <3>5, <4>1, <5>2
          <6>2. k \in 1 .. c
            BY <3>2
          <6>. QED  BY <3>3, <6>1, <6>2
        <5>. QED  BY <5>1, <5>2
      <4>. QED  BY <4>1
    <3>9. upTo(n + 1, bt)
      BY <3>2, <3>6, <3>7, <3>8 DEF upTo, q
    <3>. QED  BY <2>0, <3>9
  <2>. QED  BY <2>2, <2>3
<1>. HIDE DEF T
<1>4. 0 .. m \subseteq T
  BY <1>1, <1>2, <1>3, UpToInduct
<1>5. PICK at : upTo(m, at)
  <2>1. m \in 0 .. m
    BY <1>1
  <2>2. m \in T
    BY <1>4, <2>1
  <2>. HIDE DEF upTo
  <2>. QED  BY <2>2 DEF T
<1>6. Picked(s, keep) = f[m]
  BY DEF Picked, f, m
<1>7. Len(f[m]) \in Nat /\ f[m] \in Seq(S)
  BY <1>1
<1>8. PickOf(f[m], at, s, keep)
  BY <1>1, <1>5, <1>7 DEF PickOf, m
<1>. QED  BY <1>6, <1>7, <1>8

(* The places are determined, and with them what is kept.                  *)
LEMMA PicksAgree ==
  ASSUME NEW p, NEW q, NEW at, NEW bt, NEW s, NEW keep,
         PickOf(p, at, s, keep), PickOf(q, bt, s, keep)
  PROVE  /\ Len(p) <= Len(q)
         /\ \A k \in 1 .. Len(p) : at[k] = bt[k]
<1>. DEFINE m == Len(p)
            T == {n \in 0 .. m : \A k \in 1 .. n : k <= Len(q) /\ at[k] = bt[k]}
<1>0. m \in Nat /\ Len(q) \in Nat
  BY DEF PickOf
<1>1. 0 \in T
  BY <1>0
<1>2. ASSUME NEW n \in 0 .. m - 1, n \in T
      PROVE  n + 1 \in T
  <2>. DEFINE c == n + 1
  <2>1. c \in 1 .. m /\ n \in Nat
    BY <1>0
  <2>2. at[c] \in keep /\ at[c] \in 1 .. Len(s)
    BY <2>1 DEF PickOf
  <2>3. PICK l \in 1 .. Len(q) : bt[l] = at[c]
    BY <2>2 DEF PickOf
  <2>4. ASSUME l <= n
        PROVE  FALSE
    <3>1. l \in 1 .. n /\ l \in 1 .. m /\ l < c
      BY <1>0, <2>1, <2>3, <2>4
    <3>2. at[l] = bt[l]
      BY <1>2, <3>1
    <3>3. at[l] < at[c]
      BY <2>1, <3>1 DEF PickOf
    <3>. QED  BY <2>2, <2>3, <3>2, <3>3
  <2>5. c \in 1 .. Len(q) /\ c <= l
    BY <1>0, <2>1, <2>3, <2>4
  <2>6. bt[c] \in keep /\ bt[c] \in 1 .. Len(s)
    BY <2>5 DEF PickOf
  <2>7. bt[c] <= at[c]
    <3>1. CASE c = l
      BY <2>2, <2>3, <3>1
    <3>2. CASE c < l
      <4>1. bt[c] < bt[l]
        BY <2>3, <2>5, <3>2 DEF PickOf
      <4>. QED  BY <2>2, <2>3, <2>6, <4>1
    <3>. QED  BY <2>3, <2>5, <3>1, <3>2
  <2>8. PICK j \in 1 .. m : at[j] = bt[c]
    BY <2>6 DEF PickOf
  <2>9. ASSUME j <= n
        PROVE  FALSE
    <3>1. j \in 1 .. n /\ j \in 1 .. Len(q) /\ j < c
      BY <1>0, <1>2, <2>1, <2>5, <2>8, <2>9
    <3>2. at[j] = bt[j]
      BY <1>2, <3>1
    <3>3. bt[j] < bt[c]
      BY <2>5, <3>1 DEF PickOf
    <3>. QED  BY <2>6, <2>8, <3>2, <3>3
  <2>10. at[c] <= bt[c]
    <3>1. c <= j
      BY <1>0, <2>1, <2>8, <2>9
    <3>2. CASE c = j
      BY <2>2, <2>8, <3>2
    <3>3. CASE c < j
      <4>1. at[c] < at[j]
        BY <2>1, <2>8, <3>3 DEF PickOf
      <4>. QED  BY <2>2, <2>6, <2>8, <4>1
    <3>. QED  BY <2>8, <3>1, <3>2, <3>3
  <2>11. at[c] = bt[c]
    BY <2>2, <2>6, <2>7, <2>10
  <2>12. \A k \in 1 .. c : k = c \/ k \in 1 .. n
    BY <2>1
  <2>13. c <= Len(q) /\ c \in 0 .. m
    BY <1>0, <2>1, <2>5
  <2>. HIDE DEF c
  <2>. QED  BY <1>2, <2>11, <2>12, <2>13 DEF c
<1>. HIDE DEF T
<1>3. 0 .. m \subseteq T
  BY <1>0, <1>1, <1>2, UpToInduct
<1>4. m \in T
  BY <1>0, <1>3
<1>5. \A k \in 1 .. m : k <= Len(q) /\ at[k] = bt[k]
  BY <1>4 DEF T
<1>6. m <= Len(q)
  <2>1. CASE m = 0
    BY <1>0, <2>1
  <2>2. CASE m # 0
    BY <1>0, <1>5, <2>2
  <2>. QED  BY <2>1, <2>2
<1>. QED  BY <1>5, <1>6

LEMMA PickedIs ==
  ASSUME NEW S, NEW s, s \in Seq(S), NEW keep, NEW p, NEW at,
         p = [k \in 1 .. Len(p) |-> p[k]], PickOf(p, at, s, keep)
  PROVE  Picked(s, keep) = p
<1>. DEFINE q == Picked(s, keep)
<1>1. q \in Seq(S)
  BY PickedPlaces
<1>2. PICK bt : PickOf(q, bt, s, keep)
  BY PickedPlaces
<1>. HIDE DEF q
<1>3. /\ Len(p) <= Len(q)
      /\ \A k \in 1 .. Len(p) : at[k] = bt[k]
  BY <1>2, PicksAgree
<1>4. Len(q) <= Len(p)
  BY <1>2, PicksAgree
<1>5. Len(p) \in Nat /\ Len(q) \in Nat
  BY <1>2 DEF PickOf
<1>6. Len(p) = Len(q)
  BY <1>3, <1>4, <1>5
<1>7. q = [k \in 1 .. Len(q) |-> q[k]]
  BY <1>1
<1>8. \A k \in 1 .. Len(p) : p[k] = q[k]
  BY <1>2, <1>3, <1>6 DEF PickOf
<1>9. p = q
  BY <1>6, <1>7, <1>8
<1>. QED  BY <1>9 DEF q

(* The loop over a list that is longer by one.                             *)
LEMMA PickedLonger ==
  ASSUME NEW S, NEW s, s \in Seq(S), NEW t, t \in Seq(S), NEW keep, NEW more,
         Len(t) = Len(s) + 1, \A i \in 1 .. Len(s) : t[i] = s[i] /\ (i \in keep <=> i \in more)
  PROVE  Picked(t, more) = IF Len(t) \in more THEN Append(Picked(s, keep), t[Len(t)])
                           ELSE Picked(s, keep)
<1>. DEFINE f == Picks(s, keep)
            g == Picks(t, more)
            m == Len(s)
            T == {n \in 0 .. m : f[n] = g[n]}
<1>1. /\ m \in Nat /\ f[0] = <<>>
      /\ \A i \in 1 .. m : f[i] = IF i \in keep THEN Append(f[i - 1], s[i]) ELSE f[i - 1]
  BY PicksIs DEF IsPicks
<1>2. /\ Len(t) = m + 1 /\ g[0] = <<>>
      /\ \A i \in 1 .. m + 1 : g[i] = IF i \in more THEN Append(g[i - 1], t[i]) ELSE g[i - 1]
  BY PicksIs DEF IsPicks
<1>3. Picked(s, keep) = f[m] /\ Picked(t, more) = g[m + 1]
  BY <1>2 DEF Picked
<1>. HIDE DEF f, g
<1>4. 0 \in T
  BY <1>1, <1>2
<1>5. ASSUME NEW n \in 0 .. m - 1, n \in T
      PROVE  n + 1 \in T
  <2>1. n + 1 \in 1 .. m /\ n + 1 \in 1 .. m + 1 /\ (n + 1) - 1 = n /\ n + 1 \in 0 .. m
    BY <1>1
  <2>2. f[n] = g[n] /\ t[n + 1] = s[n + 1] /\ (n + 1 \in keep <=> n + 1 \in more)
    BY <1>5, <2>1
  <2>3. f[n + 1] = IF n + 1 \in keep THEN Append(f[n], s[n + 1]) ELSE f[n]
    BY <1>1, <2>1
  <2>4. g[n + 1] = IF n + 1 \in more THEN Append(g[n], t[n + 1]) ELSE g[n]
    BY <1>2, <2>1
  <2>5. f[n + 1] = g[n + 1]
    BY <2>2, <2>3, <2>4, Zenon
  <2>. QED  BY <2>1, <2>5
<1>. HIDE DEF T
<1>6. 0 .. m \subseteq T
  BY <1>1, <1>4, <1>5, UpToInduct
<1>7. f[m] = g[m]
  <2>1. m \in 0 .. m
    BY <1>1
  <2>. QED  BY <1>6, <2>1 DEF T
<1>8. m + 1 \in 1 .. m + 1 /\ (m + 1) - 1 = m
  BY <1>1
<1>9. g[m + 1] = IF m + 1 \in more THEN Append(g[m], t[m + 1]) ELSE g[m]
  BY <1>2, <1>8
<1>. HIDE DEF m
<1>. QED  BY <1>2, <1>3, <1>7, <1>9, Zenon

LEMMA UpTo1 ==
  ASSUME NEW n \in Nat
  PROVE  IsFiniteSet(1 .. n) /\ Cardinality(1 .. n) = n
<1>1. n \in Int /\ 1 \in Int /\ (1 <= n \/ n = 0)
  OBVIOUS
<1>2. IsFiniteSet(1 .. n) /\ Cardinality(1 .. n) = IF 1 > n THEN 0 ELSE n - 1 + 1
  BY <1>1, FS_Interval
<1>. QED  BY <1>1, <1>2

LEMMA PartOf1 ==
  ASSUME NEW n \in Nat, NEW D, D \subseteq 1 .. n
  PROVE  IsFiniteSet(D) /\ Cardinality(D) \in Nat /\ Cardinality(D) <= n
<1>1. IsFiniteSet(1 .. n) /\ Cardinality(1 .. n) = n
  BY UpTo1
<1>2. D \in SUBSET (1 .. n)
  OBVIOUS
<1>3. IsFiniteSet(D) /\ Cardinality(D) <= Cardinality(1 .. n)
  BY <1>1, <1>2, FS_Subset
<1>. QED  BY <1>1, <1>3, FS_CardinalityType

(* As many places of what is kept lead to a set as the set has members.    *)
LeadsTo(p, at, D) == {k \in 1 .. Len(p) : at[k] \in D}

AmongKept(D, s, keep) == D \subseteq keep /\ D \subseteq 1 .. Len(s)

LEMMA PickedCount ==
  ASSUME NEW p, NEW at, NEW s, NEW keep, PickOf(p, at, s, keep), NEW D, AmongKept(D, s, keep)
  PROVE  Cardinality(LeadsTo(p, at, D)) = Cardinality(D)
<1>. D \subseteq keep /\ D \subseteq 1 .. Len(s)
  BY DEF AmongKept
<1>. DEFINE K == {k \in 1 .. Len(p) : at[k] \in D}
            f == [k \in K |-> at[k]]
<1>0. Len(p) \in Nat /\ Len(s) \in Nat
  BY DEF PickOf
<1>1. IsFiniteSet(K)
  <2>1. K \subseteq 1 .. Len(p)
    OBVIOUS
  <2>. HIDE DEF K
  <2>. QED  BY <1>0, <2>1, PartOf1
<1>2. f \in Surjection(K, D)
  <2>1. \A i \in D : \E k \in K : f[k] = i
    BY DEF PickOf
  <2>. QED  BY <2>1 DEF Surjection
<1>3. f \in Injection(K, D)
  <2>1. ASSUME NEW k \in K, NEW l \in K, k < l
        PROVE  f[k] # f[l]
    <3>1. at[k] < at[l] /\ at[k] \in 1 .. Len(s) /\ at[l] \in 1 .. Len(s)
      BY <2>1 DEF PickOf
    <3>. QED  BY <1>0, <3>1
  <2>2. \A k, l \in K : k < l \/ l < k \/ k = l
    BY <1>0
  <2>. HIDE DEF f
  <2>3. \A k, l \in K : f[k] = f[l] => k = l
    BY <2>1, <2>2
  <2>4. f \in [K -> D]
    BY <1>2 DEF Surjection
  <2>. QED  BY <2>3, <2>4 DEF Injection, IsInjective
<1>. HIDE DEF f, K
<1>4. IsFiniteSet(D) /\ Cardinality(D) = Cardinality(K)
  BY <1>1, <1>2, <1>3, FS_Surjection
<1>5. K = LeadsTo(p, at, D)
  BY DEF K, LeadsTo
<1>. QED  BY <1>4, <1>5

(* What is kept is no longer than the list.                                *)
LEMMA PickedShorter ==
  ASSUME NEW S, NEW s, s \in Seq(S), NEW keep
  PROVE  Len(Picked(s, keep)) \in Nat /\ Len(Picked(s, keep)) <= Len(s)
<1>. PICK at : PickOf(Picked(s, keep), at, s, keep)
  BY PickedPlaces
<1>. PICK p : p = Picked(s, keep)
  OBVIOUS
<1>. PICK D : D = {i \in 1 .. Len(s) : i \in keep}
  OBVIOUS
<1>. DEFINE K == LeadsTo(p, at, D)
<1>0. Len(p) \in Nat /\ Len(s) \in Nat /\ PickOf(p, at, s, keep)
  BY DEF PickOf
<1>1. K = 1 .. Len(p)
  BY <1>0 DEF PickOf, LeadsTo
<1>2. D \subseteq 1 .. Len(s) /\ AmongKept(D, s, keep)
  BY DEF AmongKept
<1>3. Cardinality(K) = Cardinality(D)
  BY <1>0, <1>2, PickedCount
<1>4. Cardinality(D) <= Len(s)
  BY <1>0, <1>2, PartOf1
<1>5. Cardinality(1 .. Len(p)) = Len(p)
  BY <1>0, UpTo1
<1>. QED  BY <1>0, <1>1, <1>3, <1>4, <1>5

(* A set of places with every place before one of its own.                 *)
LEMMA FirstPlaces ==
  ASSUME NEW n \in Nat, NEW D, D \subseteq 1 .. n,
         \A i \in D : \A j \in 1 .. n : j < i => j \in D
  PROVE  Cardinality(D) \in 0 .. n /\ D = 1 .. Cardinality(D)
<1>1. CASE D = {}
  <2>1. Cardinality(D) = 0
    BY <1>1, FS_EmptySet
  <2>. QED  BY <1>1, <2>1
<1>2. CASE D # {}
  <2>1. D \subseteq 0 .. n
    OBVIOUS
  <2>2. PICK m \in D : \A i \in D : i <= m
    BY <1>2, <2>1, NatGreatest
  <2>3. m \in 1 .. n
    OBVIOUS
  <2>4. D = 1 .. m
    <3>1. \A i \in 1 .. m : i = m \/ (i < m /\ i \in 1 .. n)
      BY <2>3
    <3>2. \A i \in D : i \in 1 .. m
      BY <2>2, <2>3
    <3>. QED  BY <3>1, <3>2
  <2>5. Cardinality(1 .. m) = m
    BY <2>3, UpTo1
  <2>. QED  BY <2>3, <2>4, <2>5
<1>. QED  BY <1>1, <1>2

-----------------------------------------------------------------------------
(* What Lists says of a loop that adds numbers up.                         *)

IsSums(f, s) ==
  /\ s \in Seq(Int) /\ Len(s) \in Nat
  /\ f[0] = 0 /\ \A i \in 1 .. Len(s) : f[i] = f[i - 1] + s[i]
  /\ \A i \in 0 .. Len(s) : f[i] \in Int

LEMMA SumsAre ==
  ASSUME NEW s, s \in Seq(Int)
  PROVE  IsSums(Sums(s), s) /\ Summed(s) = Sums(s)[Len(s)] /\ Summed(s) \in Int
<1>. DEFINE m == Len(s)
            turn(i, n) == n + s[i]
            step == [i \in 1 .. m |-> [n \in Int |-> turn(i, n)]]
            sum[i \in 0 .. m] == IF i = 0 THEN 0 ELSE turn(i, sum[i - 1])
<1>1. m \in Nat
  OBVIOUS
<1>2. Sums(s) = sum
  BY DEF Sums
<1>3. ASSUME NEW i \in 1 .. m, NEW n \in Int
      PROVE  turn(i, n) \in Int
  OBVIOUS
<1>. HIDE DEF turn, m
<1>4. IsLoop(m, Int, 0, step)
  BY <1>1, <1>3 DEF IsLoop
<1>5. PICK f : IsRunOf(f, m, Int, 0, step)
  <2>. HIDE DEF step
  <2>. QED  BY <1>4, LoopExists
<1>6. f = [i \in 0 .. m |-> IF i = 0 THEN 0 ELSE turn(i, f[i - 1])]
  <2>1. f = [i \in 0 .. m |-> f[i]] /\ f[0] = 0
    BY <1>5 DEF IsRunOf
  <2>2. ASSUME NEW i \in 0 .. m, i # 0
        PROVE  f[i] = turn(i, f[i - 1])
    <3>1. i \in 1 .. m
      BY <1>1, <2>2
    <3>2. f[i - 1] \in Int /\ f[i] = step[i][f[i - 1]]
      <4>. HIDE DEF step
      <4>. QED  BY <1>1, <1>5, <3>1 DEF IsRunOf
    <3>. QED  BY <3>1, <3>2
  <2>. QED  BY <2>1, <2>2
<1>7. sum = [i \in 0 .. m |-> IF i = 0 THEN 0 ELSE turn(i, sum[i - 1])]
  BY <1>6, Zenon
<1>. HIDE DEF sum
<1>8. sum[0] = 0 /\ \A i \in 1 .. m : sum[i] = turn(i, sum[i - 1])
  BY <1>1, <1>7
<1>9. IsKept(Int, sum, m)
  <2>1. \A i \in 1 .. m : sum[i - 1] \in Int => sum[i] \in Int
    BY <1>3, <1>8
  <2>. QED  BY <1>1, <1>8, <2>1 DEF IsKept
<1>10. \A i \in 0 .. m : sum[i] \in Int
  BY <1>9, LoopKeeps
<1>11. \A i \in 1 .. m : sum[i] = sum[i - 1] + s[i]
  BY <1>8 DEF turn
<1>12. IsSums(sum, s)
  BY <1>1, <1>8, <1>10, <1>11 DEF IsSums, m
<1>13. sum[m] \in Int
  BY <1>1, <1>10
<1>. QED  BY <1>2, <1>12, <1>13 DEF Summed, m

LEMMA NextPlace ==
  ASSUME NEW n \in Nat, NEW i \in 0 .. n - 1
  PROVE  i + 1 \in 1 .. n /\ (i + 1) - 1 = i /\ i + 1 \in 0 .. n /\ i \in 0 .. n
  OBVIOUS

(* Sums over what is the same are the same.                                *)
LEMMA SumsAgree ==
  ASSUME NEW s, s \in Seq(Int), NEW t, t \in Seq(Int), NEW c \in Nat, c <= Len(s), c <= Len(t),
         \A i \in 1 .. c : s[i] = t[i]
  PROVE  \A i \in 0 .. c : Sums(s)[i] = Sums(t)[i]
<1>1. PICK f : f = Sums(s)
  OBVIOUS
<1>2. PICK g : g = Sums(t)
  OBVIOUS
<1>3. IsSums(f, s) /\ IsSums(g, t)
  BY <1>1, <1>2, SumsAre
<1>4. /\ f[0] = g[0]
      /\ \A i \in 1 .. c : f[i] = f[i - 1] + s[i] /\ g[i] = g[i - 1] + t[i]
  BY <1>3 DEF IsSums
<1>5. PICK T : T = {i \in 0 .. c : f[i] = g[i]}
  OBVIOUS
<1>6. 0 \in T
  BY <1>4, <1>5
<1>7. ASSUME NEW i \in 0 .. c - 1, i \in T
      PROVE  i + 1 \in T
  <2>1. i + 1 \in 1 .. c /\ (i + 1) - 1 = i /\ i + 1 \in 0 .. c
    BY NextPlace
  <2>2. f[i + 1] = f[i] + s[i + 1] /\ g[i + 1] = g[i] + t[i + 1] /\ s[i + 1] = t[i + 1]
    BY <1>4, <2>1
  <2>. QED  BY <1>5, <1>7, <2>1, <2>2
<1>8. 0 .. c \subseteq T
  BY <1>6, <1>7, UpToInduct
<1>. QED  BY <1>1, <1>2, <1>5, <1>8

(* Nothing is ever taken off a sum of natural numbers.                     *)
LEMMA SumsGrow ==
  ASSUME NEW s, s \in Seq(Nat)
  PROVE  \A i \in 0 .. Len(s) : Sums(s)[i] \in Nat /\ Sums(s)[i] <= Summed(s)
<1>1. PICK f : f = Sums(s)
  OBVIOUS
<1>2. PICK m : m = Len(s)
  OBVIOUS
<1>3. m \in Nat /\ \A i \in 1 .. m : s[i] \in Nat
  BY <1>2
<1>4. s \in Seq(Int)
  BY <1>2, <1>3
<1>5. IsSums(f, s) /\ Summed(s) = f[m]
  BY <1>1, <1>2, <1>4, SumsAre
<1>6. f[0] = 0 /\ \A i \in 1 .. m : f[i] = f[i - 1] + s[i]
  BY <1>2, <1>5 DEF IsSums
<1>7. \A i \in 0 .. m : f[i] \in Int
  BY <1>2, <1>5 DEF IsSums
<1>8. PICK T : T = {i \in 0 .. m : \A j \in 0 .. i : f[j] \in Nat /\ f[j] <= f[i]}
  OBVIOUS
<1>9. 0 \in T
  BY <1>3, <1>6, <1>8
<1>10. ASSUME NEW i \in 0 .. m - 1, i \in T
       PROVE  i + 1 \in T
  <2>1. i + 1 \in 1 .. m /\ (i + 1) - 1 = i /\ i + 1 \in 0 .. m /\ i \in 0 .. i
    BY <1>3
  <2>2. f[i + 1] = f[i] + s[i + 1] /\ s[i + 1] \in Nat
    BY <1>3, <1>6, <2>1
  <2>3. \A j \in 0 .. i : f[j] \in Nat /\ f[j] <= f[i]
    BY <1>8, <1>10
  <2>4. f[i] \in Nat
    BY <2>1, <2>3
  <2>5. ASSUME NEW j \in 0 .. i + 1
        PROVE  f[j] \in Nat /\ f[j] <= f[i + 1]
    <3>1. CASE j \in 0 .. i
      BY <2>2, <2>3, <2>4, <3>1
    <3>2. CASE j = i + 1
      BY <2>2, <2>4, <3>2
    <3>. QED  BY <3>1, <3>2
  <2>. QED  BY <1>8, <2>1, <2>5
<1>11. 0 .. m \subseteq T
  BY <1>3, <1>9, <1>10, UpToInduct
<1>12. m \in T
  BY <1>3, <1>11
<1>13. \A j \in 0 .. m : f[j] \in Nat /\ f[j] <= f[m]
  BY <1>8, <1>12
<1>. QED  BY <1>1, <1>2, <1>5, <1>13

LEMMA SumsZero ==
  ASSUME NEW s, s \in Seq(Int), \A i \in 1 .. Len(s) : s[i] = 0
  PROVE  Summed(s) = 0
<1>1. PICK f : f = Sums(s)
  OBVIOUS
<1>2. PICK m : m = Len(s)
  OBVIOUS
<1>3. IsSums(f, s) /\ Summed(s) = f[m]
  BY <1>1, <1>2, SumsAre
<1>4. m \in Nat /\ f[0] = 0 /\ \A i \in 1 .. m : f[i] = f[i - 1] + 0
  BY <1>2, <1>3 DEF IsSums
<1>5. PICK T : T = {i \in 0 .. m : f[i] = 0}
  OBVIOUS
<1>6. 0 \in T
  BY <1>4, <1>5
<1>7. ASSUME NEW i \in 0 .. m - 1, i \in T
      PROVE  i + 1 \in T
  <2>1. i + 1 \in 1 .. m /\ (i + 1) - 1 = i /\ i + 1 \in 0 .. m
    BY <1>4
  <2>2. f[i + 1] = f[i] + 0
    BY <1>4, <2>1
  <2>. QED  BY <1>5, <1>7, <2>1, <2>2
<1>8. 0 .. m \subseteq T
  BY <1>4, <1>6, <1>7, UpToInduct
<1>9. m \in T
  BY <1>4, <1>8
<1>. QED  BY <1>3, <1>5, <1>9

(* The sum of ones.                                                       *)
LEMMA SumsOnes ==
  ASSUME NEW n \in Nat
  PROVE  Summed([i \in 1 .. n |-> 1]) = n
<1>1. PICK s : s = [i \in 1 .. n |-> 1]
  OBVIOUS
<1>2. s \in Seq(Int) /\ Len(s) = n /\ \A i \in 1 .. n : s[i] = 1
  BY <1>1
<1>3. PICK f : f = Sums(s)
  OBVIOUS
<1>4. IsSums(f, s) /\ Summed(s) = f[n]
  BY <1>2, <1>3, SumsAre
<1>5. f[0] = 0 /\ \A i \in 1 .. n : f[i] = f[i - 1] + 1
  BY <1>2, <1>4 DEF IsSums
<1>6. PICK T : T = {i \in 0 .. n : f[i] = i}
  OBVIOUS
<1>7. 0 \in T
  BY <1>5, <1>6
<1>8. ASSUME NEW i \in 0 .. n - 1, i \in T
      PROVE  i + 1 \in T
  <2>1. i + 1 \in 1 .. n /\ (i + 1) - 1 = i /\ i + 1 \in 0 .. n
    BY NextPlace
  <2>2. f[i + 1] = f[i] + 1 /\ f[i] = i
    BY <1>5, <1>6, <1>8, <2>1
  <2>. QED  BY <1>6, <2>1, <2>2
<1>9. 0 .. n \subseteq T
  BY <1>7, <1>8, UpToInduct
<1>10. n \in T
  BY <1>9
<1>. QED  BY <1>1, <1>4, <1>6, <1>10

(* One of the numbers changes.                                             *)
DiffersAt(s, t, k, d) ==
  /\ Len(s) = Len(t) /\ k \in 1 .. Len(s) /\ d \in Int
  /\ t[k] = s[k] + d /\ \A i \in 1 .. Len(s) : i # k => t[i] = s[i]

LEMMA SumsChanged ==
  ASSUME NEW s, s \in Seq(Int), NEW t, t \in Seq(Int), NEW k, NEW d, DiffersAt(s, t, k, d)
  PROVE  Summed(t) = Summed(s) + d
<1>1. PICK f : f = Sums(s)
  OBVIOUS
<1>2. PICK g : g = Sums(t)
  OBVIOUS
<1>3. PICK m : m = Len(s)
  OBVIOUS
<1>4. /\ m = Len(t) /\ k \in 1 .. m /\ d \in Int /\ t[k] = s[k] + d
      /\ \A i \in 1 .. m : i # k => t[i] = s[i]
  BY <1>3 DEF DiffersAt
<1>5. IsSums(f, s) /\ Summed(s) = f[m] /\ IsSums(g, t) /\ Summed(t) = g[m]
  BY <1>1, <1>2, <1>3, <1>4, SumsAre
<1>6. /\ m \in Nat /\ f[0] = 0 /\ g[0] = 0
      /\ \A i \in 1 .. m : f[i] = f[i - 1] + s[i] /\ g[i] = g[i - 1] + t[i]
      /\ \A i \in 0 .. m : f[i] \in Int /\ g[i] \in Int
      /\ \A i \in 1 .. m : s[i] \in Int
  <2>1. /\ m \in Nat /\ f[0] = 0 /\ \A i \in 1 .. m : f[i] = f[i - 1] + s[i]
        /\ \A i \in 0 .. m : f[i] \in Int
    BY <1>3, <1>5 DEF IsSums
  <2>2. /\ g[0] = 0 /\ \A i \in 1 .. m : g[i] = g[i - 1] + t[i]
        /\ \A i \in 0 .. m : g[i] \in Int
    BY <1>4, <1>5 DEF IsSums
  <2>3. \A i \in 1 .. m : s[i] \in Int
    BY <1>3
  <2>. QED  BY <2>1, <2>2, <2>3
<1>7. PICK T : T = {i \in 0 .. m : g[i] = IF i < k THEN f[i] ELSE f[i] + d}
  OBVIOUS
<1>8. 0 \in T
  BY <1>4, <1>6, <1>7
<1>9. ASSUME NEW i \in 0 .. m - 1, i \in T
      PROVE  i + 1 \in T
  <2>1. i + 1 \in 1 .. m /\ (i + 1) - 1 = i /\ i + 1 \in 0 .. m /\ i \in 0 .. m
    BY <1>6
  <2>2. /\ f[i + 1] = f[i] + s[i + 1] /\ g[i + 1] = g[i] + t[i + 1]
        /\ f[i] \in Int /\ s[i + 1] \in Int
    BY <1>6, <2>1
  <2>3. g[i] = IF i < k THEN f[i] ELSE f[i] + d
    BY <1>7, <1>9
  <2>4. CASE i + 1 = k
    <3>0. i \in Int /\ k \in Int
      BY <1>4, <2>4
    <3>1. t[i + 1] = s[i + 1] + d /\ i < k
      BY <1>4, <2>4, <3>0
    <3>2. g[i + 1] = f[i + 1] + d
      BY <1>4, <2>2, <2>3, <3>1
    <3>. QED  BY <1>7, <2>1, <2>4, <3>2
  <2>5. CASE i + 1 # k
    <3>1. t[i + 1] = s[i + 1]
      BY <1>4, <2>1, <2>5
    <3>2. i \in Int /\ k \in Int /\ d \in Int
      BY <1>4, <1>6
    <3>3. i < k <=> i + 1 < k
      BY <2>5, <3>2
    <3>4. CASE i < k
      <4>1. g[i + 1] = f[i + 1]
        BY <2>2, <2>3, <3>1, <3>4
      <4>. QED  BY <1>7, <2>1, <3>3, <3>4, <4>1
    <3>5. CASE ~(i < k)
      <4>1. g[i + 1] = f[i + 1] + d
        BY <2>2, <2>3, <3>1, <3>2, <3>5
      <4>. QED  BY <1>7, <2>1, <3>3, <3>5, <4>1
    <3>. QED  BY <3>4, <3>5
  <2>. QED  BY <2>4, <2>5
<1>10. 0 .. m \subseteq T
  BY <1>6, <1>8, <1>9, UpToInduct
<1>11. m \in T
  BY <1>6, <1>10
<1>12. g[m] = f[m] + d
  BY <1>4, <1>6, <1>7, <1>11
<1>. QED  BY <1>5, <1>12

(* Numbers that are shared out among several sums add up to the same: the  *)
(* number at i goes to the sum of which[i].                                *)
Shared(s, which, k) == [i \in 1 .. Len(s) |-> IF which[i] = k THEN s[i] ELSE 0]

LEMMA SharedOut ==
  ASSUME NEW s, s \in Seq(Int), NEW m \in Nat, NEW which, which \in [1 .. Len(s) -> 1 .. m]
  PROVE  /\ \A k \in 1 .. m : Summed(Shared(s, which, k)) \in Int
         /\ Summed([k \in 1 .. m |-> Summed(Shared(s, which, k))]) = Summed(s)
<1>1. PICK n : n = Len(s)
  OBVIOUS
<1>2. n \in Nat /\ \A i \in 1 .. n : s[i] \in Int /\ which[i] \in 1 .. m
  BY <1>1
<1>3. PICK f : f = Sums(s)
  OBVIOUS
<1>4. PICK of : of = [k \in 1 .. m |-> Sums(Shared(s, which, k))]
  OBVIOUS
<1>5. IsSums(f, s) /\ Summed(s) = f[n]
  BY <1>1, <1>3, SumsAre
<1>6. ASSUME NEW k \in 1 .. m
      PROVE  /\ Summed(Shared(s, which, k)) = of[k][n] /\ of[k][0] = 0
             /\ \A i \in 0 .. n : of[k][i] \in Int
             /\ \A i \in 1 .. n : of[k][i] = of[k][i - 1] + (IF which[i] = k THEN s[i] ELSE 0)
  <2>1. PICK t : t = Shared(s, which, k)
    OBVIOUS
  <2>2. /\ t = [i \in 1 .. n |-> IF which[i] = k THEN s[i] ELSE 0]
        /\ \A i \in 1 .. n : t[i] = (IF which[i] = k THEN s[i] ELSE 0) /\ t[i] \in Int
    BY <1>1, <1>2, <2>1 DEF Shared
  <2>3. t \in Seq(Int) /\ Len(t) = n
    BY <1>2, <2>2
  <2>4. PICK g : g = Sums(t)
    OBVIOUS
  <2>5. IsSums(g, t) /\ Summed(t) = g[n]
    BY <2>3, <2>4, SumsAre
  <2>6. of[k] = g
    BY <1>4, <2>1, <2>4
  <2>7. /\ g[0] = 0 /\ \A i \in 0 .. n : g[i] \in Int
        /\ \A i \in 1 .. n : g[i] = g[i - 1] + t[i]
    BY <2>3, <2>5 DEF IsSums
  <2>. QED  BY <2>1, <2>2, <2>5, <2>6, <2>7
<1>7. f[0] = 0 /\ \A i \in 1 .. n : f[i] = f[i - 1] + s[i]
  BY <1>1, <1>5 DEF IsSums
<1>8. PICK part : part = [i \in 0 .. n |-> [k \in 1 .. m |-> of[k][i]]]
  OBVIOUS
<1>9. ASSUME NEW i \in 0 .. n
      PROVE  part[i] \in Seq(Int) /\ Len(part[i]) = m /\ \A k \in 1 .. m : part[i][k] = of[k][i]
  <2>1. part[i] = [k \in 1 .. m |-> of[k][i]]
    BY <1>8
  <2>2. \A k \in 1 .. m : of[k][i] \in Int
    BY <1>6
  <2>. QED  BY <2>1, <2>2
<1>10. PICK T : T = {i \in 0 .. n : Summed(part[i]) = f[i]}
  OBVIOUS
<1>11. 0 \in T
  <2>1. 0 \in 0 .. n
    BY <1>2
  <2>2. \A k \in 1 .. Len(part[0]) : part[0][k] = 0
    BY <1>6, <1>9, <2>1
  <2>3. Summed(part[0]) = 0
    BY <1>9, <2>1, <2>2, SumsZero
  <2>. QED  BY <1>7, <1>10, <2>1, <2>3
<1>12. ASSUME NEW i \in 0 .. n - 1, i \in T
       PROVE  i + 1 \in T
  <2>1. PICK j : j = i + 1
    OBVIOUS
  <2>2. j \in 1 .. n /\ j - 1 = i /\ j \in 0 .. n /\ i \in 0 .. n
    BY <1>2, <2>1
  <2>3. which[j] \in 1 .. m /\ s[j] \in Int
    BY <1>2, <2>2
  <2>4. PICK p : p = part[i]
    OBVIOUS
  <2>5. PICK q : q = part[j]
    OBVIOUS
  <2>6. \A k \in 1 .. m : q[k] = p[k] + (IF which[j] = k THEN s[j] ELSE 0)
    <3>1. \A k \in 1 .. m : p[k] = of[k][i]
      BY <1>9, <2>2, <2>4
    <3>2. \A k \in 1 .. m : q[k] = of[k][j]
      BY <1>9, <2>2, <2>5
    <3>3. \A k \in 1 .. m : of[k][j] = of[k][j - 1] + (IF which[j] = k THEN s[j] ELSE 0)
      BY <1>6, <2>2
    <3>. QED  BY <2>2, <3>1, <3>2, <3>3
  <2>7. p \in Seq(Int) /\ q \in Seq(Int) /\ Len(p) = m /\ Len(q) = m /\ \A k \in 1 .. m : p[k] \in Int
    BY <1>6, <1>9, <2>2, <2>4, <2>5
  <2>8. DiffersAt(p, q, which[j], s[j])
    BY <2>3, <2>6, <2>7 DEF DiffersAt
  <2>9. Summed(q) = Summed(p) + s[j]
    BY <2>7, <2>8, SumsChanged
  <2>10. Summed(p) = f[i]
    BY <1>10, <1>12, <2>4
  <2>11. f[j] = f[i] + s[j]
    BY <1>7, <2>2
  <2>. QED  BY <1>10, <2>1, <2>2, <2>5, <2>9, <2>10, <2>11
<1>13. 0 .. n \subseteq T
  BY <1>2, <1>11, <1>12, UpToInduct
<1>14. n \in T /\ n \in 0 .. n
  BY <1>2, <1>13
<1>15. part[n] = [k \in 1 .. m |-> Summed(Shared(s, which, k))]
  <2>1. part[n] = [k \in 1 .. m |-> of[k][n]]
    BY <1>8, <1>14
  <2>. QED  BY <1>6, <2>1
<1>16. \A k \in 1 .. m : Summed(Shared(s, which, k)) \in Int
  BY <1>6, <1>14
<1>. QED  BY <1>5, <1>10, <1>14, <1>15, <1>16

-----------------------------------------------------------------------------
(* The greater and the lesser of two numbers.                              *)
LEMMA MaxOfTwo ==
  ASSUME NEW a \in Int, NEW b \in Int
  PROVE  Max({a, b}) = IF a >= b THEN a ELSE b
<1>. DEFINE m == IF a >= b THEN a ELSE b
<1>1. m \in {a, b} /\ \A y \in {a, b} : m >= y
  OBVIOUS
<1>2. \A x \in {a, b} : (\A y \in {a, b} : x >= y) => x = m
  OBVIOUS
<1>. QED  BY <1>1, <1>2 DEF Max

LEMMA MinOfTwo ==
  ASSUME NEW a \in Int, NEW b \in Int
  PROVE  Min({a, b}) = IF a <= b THEN a ELSE b
<1>. DEFINE m == IF a <= b THEN a ELSE b
<1>1. m \in {a, b} /\ \A y \in {a, b} : m <= y
  OBVIOUS
<1>2. \A x \in {a, b} : (\A y \in {a, b} : x <= y) => x = m
  OBVIOUS
<1>. QED  BY <1>1, <1>2 DEF Min

(* What two lists hold that follow each other.                             *)
LEMMA Joined ==
  ASSUME NEW S, NEW s, NEW t, s \in Seq(S), t \in Seq(S)
  PROVE  /\ s \o t \in Seq(S) /\ Len(s \o t) = Len(s) + Len(t) /\ Len(s) \in Nat
         /\ \A i \in 1 .. Len(s) : (s \o t)[i] = s[i]
         /\ \A i \in 1 .. Len(t) : (s \o t)[Len(s) + i] = t[i]
<1>1. s \o t \in Seq(S)
  OBVIOUS
<1>2. Len(s \o t) = Len(s) + Len(t) /\ Len(s) \in Nat
  OBVIOUS
<1>3. \A i \in 1 .. Len(s) : (s \o t)[i] = s[i]
  OBVIOUS
<1>4. \A i \in 1 .. Len(t) : (s \o t)[Len(s) + i] = t[i]
  OBVIOUS
<1>. QED  BY <1>1, <1>2, <1>3, <1>4

-----------------------------------------------------------------------------
(* Lists and what they hold, whatever it is.                               *)
AList(s) == \E S : s \in Seq(S)

Held(s) == {s[i] : i \in 1 .. Len(s)}

LEMMA HeldAppend ==
  ASSUME NEW s, AList(s), NEW e
  PROVE  LET t == Append(s, e)
         IN  /\ AList(t) /\ Len(t) = Len(s) + 1 /\ Len(s) \in Nat
             /\ t[Len(t)] = e /\ Last(t) = e /\ \A i \in 1 .. Len(s) : t[i] = s[i]
             /\ Held(t) = Held(s) \cup {e}
<1>. DEFINE t == Append(s, e)
<1>1. PICK S : s \in Seq(S)
  BY DEF AList
<1>. DEFINE U == S \cup {e}
<1>2. s \in Seq(U) /\ e \in U
  BY <1>1
<1>. HIDE DEF U
<1>3. t \in Seq(U) /\ Len(t) = Len(s) + 1 /\ Len(s) \in Nat
  BY <1>2
<1>4. t[Len(s) + 1] = e /\ \A i \in 1 .. Len(s) : t[i] = s[i]
  BY <1>2
<1>. HIDE DEF t
<1>5. Held(t) = Held(s) \cup {e}
  <2>1. \A i \in 1 .. Len(t) : i = Len(s) + 1 \/ i \in 1 .. Len(s)
    BY <1>3
  <2>2. Len(s) + 1 \in 1 .. Len(t) /\ \A i \in 1 .. Len(s) : i \in 1 .. Len(t)
    BY <1>3
  <2>. QED  BY <1>4, <2>1, <2>2 DEF Held
<1>6. Last(t) = t[Len(t)]
  BY DEF Last
<1>. QED  BY <1>3, <1>4, <1>5, <1>6 DEF t, AList

LEMMA HeldNothing == AList(<<>>) /\ Held(<<>>) = {} /\ Len(<<>>) = 0
<1>1. <<>> \in Seq({}) /\ Len(<<>>) = 0
  OBVIOUS
<1>. QED  BY <1>1 DEF AList, Held

LEMMA MinIn ==
  ASSUME NEW S, S \subseteq Nat, S # {}
  PROVE  Min(S) \in S
<1>1. PICK x \in S : \A y \in S : x <= y
  BY NatLeast
<1>. QED  BY <1>1 DEF Min

LEMMA HeldJoined ==
  ASSUME NEW s, NEW t, AList(s), AList(t)
  PROVE  AList(s \o t) /\ Held(s \o t) = Held(s) \cup Held(t)
<1>. PICK S : s \in Seq(S)
  BY DEF AList
<1>. PICK T : t \in Seq(T)
  BY DEF AList
<1>1. s \in Seq(S \cup T) /\ t \in Seq(S \cup T)
  OBVIOUS
<1>. PICK u : u = s \o t
  OBVIOUS
<1>2. /\ u \in Seq(S \cup T) /\ Len(u) = Len(s) + Len(t) /\ Len(s) \in Nat /\ Len(t) \in Nat
      /\ \A i \in 1 .. Len(s) : u[i] = s[i]
      /\ \A i \in 1 .. Len(t) : u[Len(s) + i] = t[i]
  <2>1. Len(t) \in Nat
    OBVIOUS
  <2>. QED  BY <1>1, <2>1, Joined
<1>3. Held(u) \subseteq Held(s) \cup Held(t)
  <2>1. \A i \in 1 .. Len(u) : i \in 1 .. Len(s) \/ \E j \in 1 .. Len(t) : i = Len(s) + j
    <3>1. \A i \in 1 .. Len(u) : i \notin 1 .. Len(s) => i - Len(s) \in 1 .. Len(t) /\ i = Len(s) + (i - Len(s))
      BY <1>2
    <3>. QED  BY <3>1
  <2>. QED  BY <1>2, <2>1 DEF Held
<1>4. Held(s) \subseteq Held(u) /\ Held(t) \subseteq Held(u)
  <2>1. \A i \in 1 .. Len(s) : i \in 1 .. Len(u)
    BY <1>2
  <2>2. \A i \in 1 .. Len(t) : Len(s) + i \in 1 .. Len(u)
    BY <1>2
  <2>. QED  BY <1>2, <2>1, <2>2 DEF Held
<1>. QED  BY <1>2, <1>3, <1>4 DEF AList

-----------------------------------------------------------------------------
(* How many and which elements are picked.                                 *)
KeptPlaces(s, keep) == {i \in 1 .. Len(s) : i \in keep}

LEMMA PickedSize ==
  ASSUME NEW S, NEW s, s \in Seq(S), NEW keep
  PROVE  /\ Picked(s, keep) \in Seq(S)
         /\ Len(Picked(s, keep)) = Cardinality(KeptPlaces(s, keep))
         /\ Held(Picked(s, keep)) = {s[i] : i \in KeptPlaces(s, keep)}
<1>1. PICK p : p = Picked(s, keep)
  OBVIOUS
<1>2. p \in Seq(S) /\ \E at : PickOf(p, at, s, keep)
  BY <1>1, PickedPlaces
<1>3. PICK at : PickOf(p, at, s, keep)
  BY <1>2
<1>4. PICK D : D = KeptPlaces(s, keep)
  OBVIOUS
<1>5. \A i : i \in D <=> i \in 1 .. Len(s) /\ i \in keep
  BY <1>4 DEF KeptPlaces
<1>6. /\ Len(p) \in Nat
      /\ \A k \in 1 .. Len(p) : at[k] \in D /\ p[k] = s[at[k]]
      /\ \A i \in D : \E k \in 1 .. Len(p) : at[k] = i
  BY <1>3, <1>5 DEF PickOf
<1>7. AmongKept(D, s, keep)
  BY <1>5 DEF AmongKept
<1>8. Cardinality(LeadsTo(p, at, D)) = Cardinality(D)
  BY <1>3, <1>7, PickedCount
<1>9. LeadsTo(p, at, D) = 1 .. Len(p)
  BY <1>6 DEF LeadsTo
<1>10. Cardinality(1 .. Len(p)) = Len(p)
  BY <1>6, UpTo1
<1>11. Held(p) = {s[i] : i \in D}
  BY <1>6 DEF Held
<1>. QED  BY <1>1, <1>2, <1>4, <1>8, <1>9, <1>10, <1>11

-----------------------------------------------------------------------------
(* What falls into parts is as much as the parts together.                 *)
LEMMA CountedParts ==
  ASSUME NEW D, IsFiniteSet(D), NEW R, NEW which, which \in [D -> R]
  PROVE  AddedUp([r \in R |-> Cardinality({d \in D : which[d] = r})]) = Cardinality(D)
<1>1. PICK part : part = [r \in R |-> {d \in D : which[d] = r}]
  OBVIOUS
<1>2. PICK f : f = [r \in R |-> Cardinality(part[r])]
  OBVIOUS
<1>3. f = [r \in R |-> Cardinality({d \in D : which[d] = r})]
  BY <1>1, <1>2
<1>4. \A r \in R : \A d : d \in part[r] <=> d \in D /\ which[d] = r
  BY <1>1
<1>5. ASSUME NEW r \in R
      PROVE  \E b : b \in Bijection(1 .. f[r], part[r])
  <2>1. part[r] \in SUBSET D
    BY <1>4
  <2>2. IsFiniteSet(part[r])
    BY <2>1, FS_Subset
  <2>3. ExistsBijection(1 .. Cardinality(part[r]), part[r])
    BY <2>2, FS_CardinalityType
  <2>. QED  BY <1>2, <2>3 DEF ExistsBijection
<1>6. PICK b : b = [r \in R |-> CHOOSE c : c \in Bijection(1 .. f[r], part[r])]
  OBVIOUS
<1>7. \A r \in R : b[r] \in Bijection(1 .. f[r], part[r])
  BY <1>5, <1>6
<1>8. ASSUME NEW r \in R
      PROVE  /\ \A k \in 1 .. f[r] : b[r][k] \in D /\ which[b[r][k]] = r
             /\ \A k, l \in 1 .. f[r] : b[r][k] = b[r][l] => k = l
             /\ \A d \in D : which[d] = r => \E k \in 1 .. f[r] : b[r][k] = d
  <2>1. b[r] \in Injection(1 .. f[r], part[r]) /\ b[r] \in Surjection(1 .. f[r], part[r])
    BY <1>7 DEF Bijection
  <2>2. b[r] \in [1 .. f[r] -> part[r]] /\ \A k, l \in 1 .. f[r] : b[r][k] = b[r][l] => k = l
    BY <2>1 DEF Injection, IsInjective
  <2>3. \A d \in part[r] : \E k \in 1 .. f[r] : b[r][k] = d
    BY <2>1 DEF Surjection
  <2>. QED  BY <1>4, <2>2, <2>3
<1>9. PICK P : P = UNION {{r} \X (1 .. f[r]) : r \in R}
  OBVIOUS
<1>10. \A p : p \in P <=> \E r \in R : \E k \in 1 .. f[r] : p = <<r, k>>
  BY <1>9
<1>11. PICK h : h = [p \in P |-> b[p[1]][p[2]]]
  OBVIOUS
<1>12. \A r \in R : \A k \in 1 .. f[r] : <<r, k>> \in P /\ h[<<r, k>>] = b[r][k]
  BY <1>10, <1>11
<1>13. h \in [P -> D]
  BY <1>8, <1>10, <1>11
<1>14. ASSUME NEW p \in P, NEW q \in P, h[p] = h[q]
       PROVE  p = q
  <2>1. PICK r \in R : \E k \in 1 .. f[r] : p = <<r, k>>
    BY <1>10
  <2>6. PICK k \in 1 .. f[r] : p = <<r, k>>
    BY <2>1
  <2>2. PICK o \in R : \E l \in 1 .. f[o] : q = <<o, l>>
    BY <1>10
  <2>7. PICK l \in 1 .. f[o] : q = <<o, l>>
    BY <2>2
  <2>3. b[r][k] = b[o][l]
    BY <1>12, <1>14, <2>6, <2>7
  <2>4. r = o
    BY <1>8, <2>3
  <2>5. k = l
    BY <1>8, <2>3, <2>4
  <2>. QED  BY <2>6, <2>7, <2>4, <2>5
<1>15. ASSUME NEW d \in D
       PROVE  \E p \in P : h[p] = d
  <2>1. PICK r \in R : r = which[d]
    OBVIOUS
  <2>2. PICK k \in 1 .. f[r] : b[r][k] = d
    BY <1>8, <2>1
  <2>. QED  BY <1>12, <2>2
<1>16. h \in Injection(P, D)
  BY <1>13, <1>14 DEF Injection, IsInjective
<1>17. h \in Surjection(P, D)
  BY <1>13, <1>15 DEF Surjection
<1>18. Cardinality(P) = Cardinality(D)
  BY <1>16, <1>17, FS_Injection
<1>19. DOMAIN f = R
  BY <1>2
<1>20. AddedUp(f) = Cardinality(P)
  BY <1>9, <1>19 DEF AddedUp
<1>. QED  BY <1>3, <1>18, <1>20

LEMMA ReverseIs ==
  ASSUME NEW S, NEW s, s \in Seq(S)
  PROVE  LET t == Reverse(s)
         IN  /\ t \in Seq(S) /\ Len(t) = Len(s) /\ Len(s) \in Nat
             /\ \A i \in 1 .. Len(s) : t[i] = s[Len(s) - i + 1] /\ Len(s) - i + 1 \in 1 .. Len(s)
<1>1. PICK m : m = Len(s)
  OBVIOUS
<1>2. m \in Nat /\ \A i \in 1 .. m : s[i] \in S
  BY <1>1
<1>3. PICK t : t = Reverse(s)
  OBVIOUS
<1>4. t = [i \in 1 .. m |-> s[(m - i) + 1]]
  BY <1>1, <1>3 DEF Reverse
<1>5. \A i \in 1 .. m : (m - i) + 1 \in 1 .. m
  BY <1>2
<1>6. t \in [1 .. m -> S]
  BY <1>2, <1>4, <1>5
<1>7. t \in Seq(S) /\ Len(t) = m
  BY <1>2, <1>6
<1>. QED  BY <1>1, <1>2, <1>3, <1>4, <1>5, <1>7

=============================================================================
