\* Run histories of LORK, and the engines that decide, authorize and execute.
SPECIFICATION MCSpec
CONSTANTS
  AgentIds = {"a", "b", "c"}
  Executors = {x1, x2}
  Workflows = {w1}
  Forkers = {f1}
  Readers = {d1}
  Given = {r1}
  Tasks <- MCTasks
  Specs <- MCSpecs
  Steps = {2}
  None = none
  RunIds = {s1, s2, s3}
  Payloads = {p1, p2}
  MaxSteps = 2
  NoPayload = none
  Questions <- MCQuestions
  TextRank <- MCTextRank
  TextParts <- MCTextParts
  Domains = {"fintech", "medtech"}
  Rules <- MCRules
  Intents <- MCIntents
  MaxClock = 2
  MaxIntents = 3
  Callers = {k1, k2}
  Requests <- MCRequests
  ActionRules <- MCActionRules
  NoId = noid
  MaxHour = 1
  MaxCalls = 4
  MaxRestarts = 1
  Workers = {o1, o2}
  Pipelines <- MCPipelines
  Shipped <- MCShipped
  Submissions <- MCSubmissions
  ForkIds = {g1, g2}
  Points = {0, 1, 2}
  MaxStarts = 1
  NoRun = norun
  NoNumber = nonumber
SYMMETRY Symmetric
INVARIANTS
  ForkIsPrefix
  OneAuthor
  HistoryFollowsGraph
  LogExplainsRun
  DecisionExact
  TrailExplains
  VaultSound
  RuntimeSound
  RunServed
CHECK_DEADLOCK FALSE
