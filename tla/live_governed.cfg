\* One run of the orchestrator and one direct client, requests may be lost or late.
SPECIFICATION FairSpec
CONSTANTS
  Runs = {r1}
  Clients = {c1}
  Amounts = {9999, 10000, 25000, 25001}
  MaxToolCalls = 2
  MaxRestarts = 1
  Faults = TRUE
INVARIANTS
  DecidedOnce
  ExecutionGoverned
  BlockedAgrees
PROPERTIES
  RunsEnd
CHECK_DEADLOCK FALSE
