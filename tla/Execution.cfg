SPECIFICATION Spec
CONSTANTS
  r1 = r1
  r2 = r2
  w1 = w1
  w2 = w2
  NoWorker = NoWorker
  NoReceipt = NoReceipt
  ReceiptIssued <- MCReceiptIssued
  ReceiptExpires <- MCReceiptExpires
  Deadline = 2
  MaxFutureSkew = 1
  EnvSkew = 1
  LeaseTicks = 1
  MaxActions = 1
  MaxCost = 5
  Events <- AllEvents
  Receipts <- TwoReceipts
  ReceiptBound <- MCReceiptBound
  Workers = {w1, w2}
  TimeoutPolicies = {"EXPIRE", "ESCALATE"}
  MaxAttempts = 2
  Horizon = 3
INVARIANTS
  RunMatchesOperation
  CallsWithinBudget
  EffectAuthorised
  EveryWaitHasOneEnding
PROPERTIES
  RefusedEventsAreInert
  ReceiptsAreFinal
  LiveLeaseProtects
CONSTRAINT OneStudy
SYMMETRY WorkerSymmetry
CHECK_DEADLOCK FALSE
