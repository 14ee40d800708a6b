SPECIFICATION FairSpec
CONSTANTS
  r1 = r1
  r2 = r2
  w1 = w1
  w2 = w2
  NoWorker = NoWorker
  NoReceipt = NoReceipt
  ReceiptIssued <- MCReceiptIssued
  ReceiptExpires <- MCReceiptExpires
  Deadline = 2
  MaxFutureSkew = 0
  EnvSkew = 0
  LeaseTicks = 1
  MaxActions = 1
  MaxCost = 5
  Events <- ClosureEvents
  Receipts <- OneReceipt
  ReceiptBound <- MCReceiptBound
  Workers = {w1}
  TimeoutPolicies = {"EXPIRE"}
  MaxAttempts = 2
  Horizon = 3
INVARIANTS
  CompletedMeansEffect
  IntentIsKept
PROPERTIES
  RunsSettle
CHECK_DEADLOCK FALSE
