--------------------------- MODULE DriftDetection ---------------------------
(***************************************************************************)
(* Drift between the declared and the actual payload of an action, which   *)
(* PrivateVault detects twice: detect_drift in main.py, and IntentParser   *)
(* with DriftDetector in shadow_firewall.ts.  That the logic of the first  *)
(* matches the second (main.py:172) is so in part only: see DriftSound.    *)
(*                                                                         *)
(* A payload is a function from fields to values; a value is its type and  *)
(* its content.  Numbers are in units of 0.001, a tenth of what the parser *)
(* rounds to; a truth value counts as 1 or 0.                              *)
(***************************************************************************)
EXTENDS Lists, SequencesExt, FiniteSetsExt

CONSTANTS
  Declared,     (* the declared payloads that are tried                      *)
  Actual,       (* and the actual ones                                       *)
  Risky,        (* the texts that name a risky recipient                     *)
  LowerTrimmed  (* each text in lower case and trimmed                       *)

(* A value is a number, a truth value, a text or nothing.                  *)
IsValue(value) ==
  /\ value = [type |-> value.type, content |-> value.content]
  /\ value.type \in {"number", "bool", "text", "null"}
  /\ value.type \in {"number", "bool"} => value.content \in Int
  /\ value.type = "null" => value.content = 0

ASSUME DriftAssumption ==
  \A payload \in Declared \cup Actual :
    IsFiniteSet(DOMAIN payload) /\ \A f \in DOMAIN payload : IsValue(payload[f])

VARIABLE compared   (* the payloads of the one request that is made          *)

Abs(n) == IF n < 0 THEN - n ELSE n

LOW == 0
MEDIUM == 1
HIGH == 2
CRITICAL == 3

(* Mutant: the last level stands.                                          *)
EscalateLast(current, new) == new

Escalate(current, new) == Max({current, new})

(* The level of a number that changed, by its relative change.             *)
Inflation(declared, actual) ==
  LET change == Abs(actual - declared)
      base == Abs(declared)
  IN  IF change > 10 * base THEN CRITICAL
      ELSE IF change > base THEN HIGH
      ELSE IF 10 * change > base THEN MEDIUM ELSE LOW

(* The loops over the fields that differ, in the order in which they are   *)
(* met: the level of each escalates the risk.                              *)
Risk(fields, levels) ==
  LET risk[n \in 0 .. Len(fields)] ==
        IF n = 0 THEN LOW ELSE Escalate(risk[n - 1], levels[fields[n]])
  IN  risk[Len(fields)]

Report(fields, levels) == [drifted |-> DOMAIN levels, risk |-> Risk(fields, levels)]

(* Those of some fields, in the order in which they are met.               *)
Those(order, fields) == Picked(order, {i \in 1 .. Len(order) : order[i] \in fields})

-----------------------------------------------------------------------------
(* main.py                                                                 *)

Null == [type |-> "null", content |-> 0]

(* To Python a truth value is a number.                                    *)
IsNumber(value) == value.type \in {"number", "bool"}

Equal(x, y) == (x.type = y.type \/ (IsNumber(x) /\ IsNumber(y))) /\ x.content = y.content

(* A field that is missing reads as None.                                  *)
Read(payload, field) == IF field \in DOMAIN payload THEN payload[field] ELSE Null

FieldLevel(field, declared, actual) ==
  IF IsNumber(declared) /\ IsNumber(actual) THEN Inflation(declared.content, actual.content)
  ELSE IF declared.type # actual.type \/ field = "action" THEN HIGH
  ELSE IF field = "recipient" /\ actual.content \in Risky THEN HIGH
  ELSE MEDIUM

(* detect_drift: the fields are those of sets, which come in any order,    *)
(* those that were not declared first.                                     *)
DetectDrift(declared, actual, order) ==
  LET added == DOMAIN actual \ DOMAIN declared
      changed == {f \in DOMAIN declared : ~Equal(declared[f], Read(actual, f))}
  IN  Report(Those(order, added) \o Those(order, changed),
             [f \in added \cup changed |->
                IF f \in added THEN HIGH ELSE FieldLevel(f, declared[f], Read(actual, f))])

PolicyDecision(report) == IF report.risk >= HIGH THEN "DENY" ELSE "ALLOW"

-----------------------------------------------------------------------------
(* shadow_firewall.ts                                                      *)

Undefined == [type |-> "undefined", content |-> 0]

(* parseCore: numbers are rounded to two decimals, a half upwards.         *)
Normalised(value) ==
  CASE value.type = "number" -> [value EXCEPT !.content = 10 * ((@ + 5) \div 10)]
    [] value.type = "text" -> [value EXCEPT !.content = LowerTrimmed[@]]
    [] OTHER -> value

ParseCore(payload) == [f \in DOMAIN payload |-> Normalised(payload[f])]

(* analyze, of what was parsed and of the payload as it is.  The typeof of *)
(* a null is that of an object, as is nothing else here.                   *)
Analyze(core, payload, order) ==
  LET value(f) == IF f \in DOMAIN payload THEN payload[f] ELSE Undefined
      added == DOMAIN payload \ DOMAIN core
      changed == {f \in DOMAIN core : core[f].type # value(f).type \/ core[f].content # value(f).content}
      level(f) == IF core[f].type # value(f).type THEN HIGH
                  ELSE IF core[f].type = "number" THEN Inflation(core[f].content, value(f).content)
                  ELSE MEDIUM
  IN  Report(Those(order, added) \o Those(order, changed),
             [f \in added \cup changed |-> IF f \in added THEN HIGH ELSE level(f)])

-----------------------------------------------------------------------------

DriftInit == compared = {}

(* POST /drift_detect                                                      *)
DriftNext ==
  /\ compared = {}
  /\ \E declared \in Declared, actual \in Actual :
       compared' = {[declared |-> declared, actual |-> actual]}

DriftSpec == DriftInit /\ [][DriftNext]_compared

-----------------------------------------------------------------------------

Plain(d, a) == \A p \in {d, a} : \A f \in DOMAIN p : p[f].type \notin {"bool", "null"}

(* One text stands where another one was declared.                         *)
Replaced(d, a, f) ==
  /\ f \in DOMAIN d \cap DOMAIN a
  /\ d[f].type = "text" /\ a[f].type = "text" /\ d[f] # a[f]

(* What main.py alone looks for.                                           *)
Escalated(d, a) ==
  \/ Replaced(d, a, "action")
  \/ Replaced(d, a, "recipient") /\ a["recipient"].content \in Risky

(* The declared fields and no others, each number at most doubled, the     *)
(* action as it was and no risky recipient that was not declared.          *)
Harmless(d, a) ==
  /\ DOMAIN a \subseteq DOMAIN d
  /\ \A f \in DOMAIN d : d[f].type # "null" => f \in DOMAIN a
  /\ \A f \in DOMAIN a : IsNumber(d[f]) /\ IsNumber(a[f]) =>
       Abs(a[f].content - d[f].content) <= Abs(d[f].content)
  /\ ~Escalated(d, a)

(* What main.py takes for equal and shadow_firewall.ts does not: a null    *)
(* and nothing, a truth value and its number.                              *)
Unseen(d, a) ==
  {f \in DOMAIN d : IF f \in DOMAIN a
                    THEN {d[f].type, a[f].type} = {"bool", "number"} /\ d[f].content = a[f].content
                    ELSE d[f].type = "null"}

(* Both detectors, each with an order of the fields.                       *)
DriftSoundFor(d, a, p, q) ==
  LET core == ParseCore(d)
      py == DetectDrift(core, a, p)
      ts == Analyze(core, a, q)
  IN  /\ DetectDrift(d, a, p) = DetectDrift(d, a, q)
      /\ PolicyDecision(DetectDrift(d, a, p)) = "ALLOW" => Harmless(d, a)
      /\ ts.drifted = py.drifted \cup Unseen(core, a)
      /\ Plain(d, a) => py.risk >= ts.risk /\ (~Escalated(core, a) => py.risk = ts.risk)

(* Whatever the order of the fields: what main.py lets through is harmless;*)
(* and shadow_firewall.ts finds what main.py would find if the declared    *)
(* payload, and it alone, were in lower case, trimmed and rounded, and     *)
(* besides what is unseen to main.py.  It finds it at the same level       *)
(* except where main.py looks at an action or a recipient, or where truth  *)
(* values or nulls take part.                                              *)
DriftSound ==
  \A c \in compared :
    LET orders == SetToSeqs(DOMAIN c.declared \cup DOMAIN c.actual)
    IN  \A p, q \in orders : DriftSoundFor(c.declared, c.actual, p, q)

=============================================================================
