-------------------------------- MODULE Lists --------------------------------
(***************************************************************************)
(* Loops over lists, written as such, so that theorems about them can be   *)
(* proved by induction.                                                    *)
(***************************************************************************)
EXTENDS Integers, Sequences, FiniteSetsExt

(* The loop that keeps some of the elements, told by their places:         *)
(*   kept = []; for x in s: if ...: kept.append(x)                         *)
Picks(s, keep) ==
  LET kept[n \in 0 .. Len(s)] ==
        IF n = 0 THEN <<>>
        ELSE IF n \in keep THEN Append(kept[n - 1], s[n]) ELSE kept[n - 1]
  IN  kept

Picked(s, keep) == Picks(s, keep)[Len(s)]

(* The loop that adds numbers up: sum = 0; for x in s: sum += x            *)
Sums(s) ==
  LET sum[n \in 0 .. Len(s)] == IF n = 0 THEN 0 ELSE sum[n - 1] + s[n]
  IN  sum

Summed(s) == Sums(s)[Len(s)]

(* The loop that sorts by descending scores, those equal in their order,   *)
(* and keeps the first:                                                    *)
(*   list.sort(key=score, reverse=True); list = list[:max]                 *)
(* Those of a higher score come before another one, and those of the same  *)
(* score that are listed earlier.                                          *)
Ahead(scores, i) ==
  {j \in DOMAIN scores : scores[j] > scores[i] \/ (scores[j] = scores[i] /\ j < i)}

Ranked(list, scores, max) ==
  [k \in 1 .. Min({max, Len(list)}) |->
     list[CHOOSE i \in DOMAIN scores : Cardinality(Ahead(scores, i)) = k - 1]]

(* How much the numbers of f add up to, counted: one for each unit.        *)
AddedUp(f) == Cardinality(UNION {{x} \X (1 .. f[x]) : x \in DOMAIN f})

=============================================================================
