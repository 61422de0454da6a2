\* The in-memory store: no await of the store suspends.
SPECIFICATION Spec
CONSTANTS
  Tasks = {t1, t2, t3}
  Workers = {w1}
  Clients = {c1}
  ClientOps <- CancelAndRun
  Agents = {a1}
  Priorities <- MCPriorities
  MaxQueueSize = 2
  StoreYields = FALSE
  Faults = FALSE
  MaxCalls = 1
  MaxStops = 0
  Sweeper = sweeper
  NoOne = none
SYMMETRY Symmetry
INVARIANTS
  OwnerRecorded
  LogAgrees
PROPERTIES
  CancelWins
