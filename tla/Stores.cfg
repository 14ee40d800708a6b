SPECIFICATION Spec
CONSTANTS
  p1 = p1
  p2 = p2
  Runtimes = {p1, p2}
  Reads = {"read-logs", "read-deployment"}
  ToolBudget = 2
  RetryBudget = 1
  Targets = {"a", "b"}
  Histories <- MCHistories
  Horizon = 3
  MaxRows = 7
  Workers = {p1, p2}
  SourceType <- MCSources
  Candidates <- MCCandidates
  Jobs <- MCJobs
  MaxVersion = 3
  Periods = 1
  Threads = {p1, p2}
  Requests <- MCRequests
  Catalog <- MCCatalog
  ReadOnly = {"metrics", "logs"}
  Permissions = {"metrics", "logs", "admin"}
  Budget <- MCBudget
  MaxRoots = 2
  MaxDigest = 2
  RollbackProposals <- MCProposals
  Environments = {"production", "staging"}
  Roster <- MCRoster
  Proposer = "bob"
  Executors = {p1, p2}
  MaxAge = 1
  LastHour = 2
  LastVersion = 2
  MaxRollbacks = 3
  NoFlow = NoFlow
  Leaves = {"collect-logs", "collect-deployment"}
  Fallback = "change-index"
  FallbackOf = "collect-deployment"
  CrewBudget <- MCCrewBudget
  Ideas <- MCIdeas
  Texts <- MCTexts
  Grants <- MCGrants
  Classes = {"INTERNAL", "RESTRICTED"}
  Patience = {75, 1000}
  LastContext = 2
  NoReceipt = NoReceipt
  MaxAttempts = 2
  Lifetime = 1
  LastTick = 2
  LastReset = 2
  Attempts = {"a1", "a2"}
  NoReset = NoReset
INVARIANTS
  RollbacksKeepTheirPromise
  CheckpointsKeepTheRun
  SkillsStayInBounds
  PlaneKeepsItsMandate
  ChangesAreVerified
PROPERTIES
  CrewKeepsItsRecord
  ForgettingHolds
  MemoriesKeepTheirLine
  FilesGoForward
CONSTRAINT FewDisturbances
SYMMETRY StoreSymmetry
CHECK_DEADLOCK FALSE
