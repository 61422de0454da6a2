\* A stream, direct callers, a tenant that configures and a reviewed transaction;
\* beside them BotBook's registry, and PrivateVault's drift detection.
SPECIFICATION MCSpec
CONSTANTS
  Streams = {m1}
  NoId = none
  Agents <- MCAgents
  Tenants = {"acme"}
  Requests <- MCRequests
  Unnamed <- MCUnnamed
  ToVerify <- MCToVerify
  Patches <- MCPatches
  Transactions = {t1}
  Amounts = {10000}
  Filters <- MCFilters
  Precedents <- MCPrecedents
  MaxEntries = 2
  MaxRestarts = 1
  Mock <- MCMock
  Applicants <- MCApplicants
  MarketTasks <- MCMarketTasks
  Ratings = {0, 100}
  LiveRuns = {u1, u2}
  Nobody = nobody
  MaxAgents = 5
  MaxRecords = 2
  Declared <- MCDeclared
  Actual <- MCActual
  Risky = {"offshore"}
  LowerTrimmed <- MCLowerTrimmed
INVARIANTS
  VerdictAgrees
  
  AnswersFaithful
  GraphKnowsReviews
  BadgeBacked
  DriftSound
PROPERTIES
  TwoVotesBehindAllow
  NoTrustFromRefusal
CHECK_DEADLOCK FALSE
