\* An agent that matches the task loses to one that does not.
SPECIFICATION MarketOnly
CONSTANTS
  Streams = {m1}
  NoId = none
  Agents <- MCAgents
  Tenants = {"acme"}
  Requests <- MCRequests
  Unnamed <- MCUnnamed
  ToVerify <- MCToVerify
  Patches <- MCPatches
  Transactions = {t1}
  Amounts = {10000}
  Filters <- MCFilters
  Precedents <- MCPrecedents
  MaxEntries = 2
  MaxRestarts = 1
  Mock <- MCMock
  Applicants <- MCApplicants
  MarketTasks <- MCMarketTasks
  Ratings = {0, 100}
  LiveRuns = {u1, u2}
  Nobody = nobody
  MaxAgents = 5
  MaxRecords = 2
  Declared <- MCDeclared
  Actual <- MCActual
  Risky = {"offshore"}
  LowerTrimmed <- MCLowerTrimmed
INVARIANTS
  MatchingAgentWins
CHECK_DEADLOCK FALSE
