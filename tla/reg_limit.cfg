\* More agents of the tenant than the list is long: limit 100 scaled to 1.
SPECIFICATION FairSpec
CONSTANTS
  Agents = {a1, a2}
  Names = {n1, n2}
  Tenants = {default}
  DefaultTenant = default
  Operators = {o1}
  Controller = controller
  Limit = 1
  StoreYields = FALSE
  MaxCalls = 0
  MaxStops = 0
  None = none
PROPERTIES
  Reconciled
