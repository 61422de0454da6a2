\* An emission with its approvals, and two exports of one bundle, around a crash.
SPECIFICATION FairSpec
CONSTANTS
  e1 = e1
  x1 = x1
  x2 = x2
  Emissions = {e1}
  Exports = {x1, x2}
  Tenants <- MCTenants
  Offered <- MCOffered
  Layers <- MCLayers
  Environment <- MCEnvironment
  ContextKeys <- MCContextKeys
  None = None
  MaxSkew = 0
  MaxTime = 1
  MaxCrashes = 1
INVARIANTS
  QuorumExact
  AuditKeepsAnswered
  BundleVerifies
PROPERTIES
  RequestsEnd
CHECK_DEADLOCK FALSE
