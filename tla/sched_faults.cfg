\* Any store behind the TaskStore protocol, which may suspend and may fail.
SPECIFICATION Spec
CONSTANTS
  Tasks = {t1, t2}
  Workers = {w1, w2}
  Clients = {c1}
  ClientOps <- CancelAndRun
  Agents = {a1}
  Priorities <- OnePriority
  MaxQueueSize = 1
  StoreYields = TRUE
  Faults = TRUE
  MaxCalls = 1
  MaxStops = 1
  Sweeper = sweeper
  NoOne = none
SYMMETRY Symmetry
INVARIANTS
  AssignedOnceAfterCreated
  CapacityRespected
PROPERTIES
  SweepSparesClaimed
