\* No faults: what the queue, its lock and the event loop guarantee.
SPECIFICATION FairSpecOneLow
CONSTANTS
  Tasks = {t1, t2}
  Workers = {w1}
  Clients = {c1}
  ClientOps <- CancelOnly
  Agents = {a1}
  Priorities <- TwoPriorities
  MaxQueueSize = 2
  StoreYields = TRUE
  Faults = FALSE
  MaxCalls = 1
  MaxStops = 0
  Sweeper = sweeper
  NoOne = none
INVARIANTS
  QueueComplete
PROPERTIES
  QueueRefinement
  OverdueLeaves
  QueuedServed
