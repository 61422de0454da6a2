\* Requests may be lost: the run goes on without a decision.
SPECIFICATION Spec
CONSTANTS
  Runs = {r1}
  Clients = {}
  Amounts = {25001}
  MaxToolCalls = 1
  MaxRestarts = 0
  Faults = TRUE
INVARIANTS
  EvaluatedFirst
CHECK_DEADLOCK FALSE
