SPECIFICATION AgentsSpec
CONSTANTS
  p1 = p1
  p2 = p2
  NoApproval = NoApproval
  NoCall = NoCall
  NoState = NoState
  Callers = {p1, p2}
  Ops = {"draft", "query"}
  Sessions = {"s1"}
  Approvals = {}
  ApprovalOp <- MCApprovalOp
  Proposals <- MCProposals
  Sizes = {1}
  MaxToolCalls = 2
  MaxServerCalls = 3
  MaxBytes = 2
  RateLimit = 2
  Clients = {p1, p2}
  ModelRoutes <- MCRoutes
  Contexts <- MCContexts
  Policy <- MCPolicy
  Circuit <- MCCircuit
  Seeds <- MCSeeds
  Capacity = 2
  Latencies = {1}
  Delays = {1}
  Prices = {1, 3}
  MadeAt = {1}
  MaxMade = 2
  Coordinators = {p1, p2}
  Symptoms = {"metrics"}
  ReplanLimit = 1
  MitigationLimit = 2
  LeaseSpan = 1
  ApprovalSpan = 1
  LastHour = 1
  GoalContracts <- MCGoals
  RunOptions <- MCOptions
  GapOwner <- MCOwners
  TeamBudget <- MCTeamBudget
  TurnTimes = {1}
INVARIANTS
  BudgetHolds
  RequestsRecoverInBounds
  RollbackIsSettled
  ResultsAreEarned
  DiagnosisIsGrounded
PROPERTY
  PersonKeepsControl
CONSTRAINT FewAtOnce
ACTION_CONSTRAINT OneSave
SYMMETRY AgentSymmetry
CHECK_DEADLOCK FALSE
