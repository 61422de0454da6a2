\* No faults: a reviewer answers before the orchestrator approves by itself.
SPECIFICATION Spec
CONSTANTS
  Runs = {r1}
  Clients = {}
  Amounts = {10000}
  MaxToolCalls = 1
  MaxRestarts = 0
  Faults = FALSE
INVARIANTS
  RejectionRespected
CHECK_DEADLOCK FALSE
