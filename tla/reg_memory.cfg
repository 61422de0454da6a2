\* The in-memory store, with fewer agents than the list is long.
SPECIFICATION FairSpec
CONSTANTS
  Agents = {a1, a2}
  Names = {n1, n2}
  Tenants = {default, other}
  DefaultTenant = default
  Operators = {o1}
  Controller = controller
  Limit = 2
  StoreYields = FALSE
  MaxCalls = 3
  MaxStops = 1
  None = none
INVARIANTS
  NamesUnique
  LastEventAgrees
PROPERTIES
  ChangesItsOwn
  Reconciled
