SPECIFICATION Spec
CONSTANTS
  r1 = r1
  r2 = r2
  w1 = w1
  w2 = w2
  NoWorker = NoWorker
  NoReceipt = NoReceipt
  ReceiptIssued <- MCReceiptIssued
  ReceiptExpires <- MCReceiptExpires
  Deadline = 2
  MaxFutureSkew = 0
  EnvSkew = 0
  LeaseTicks = 1
  MaxActions = 1
  MaxCost = 5
  Events <- ExecutionEvents
  Receipts <- OneReceipt
  ReceiptBound <- MCReceiptBound
  Workers = {w1, w2}
  TimeoutPolicies = {"EXPIRE"}
  MaxAttempts = 2
  Horizon = 3
INVARIANT NoEffectErased
CHECK_DEADLOCK FALSE
