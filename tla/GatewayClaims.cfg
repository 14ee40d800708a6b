SPECIFICATION QuietSpec
CONSTANTS
  p1 = p1
  p2 = p2
  a1 = a1
  NoApproval = NoApproval
  NoCall = NoCall
  Callers = {p1, p2}
  Ops = {"pay"}
  Sessions = {"s1", "s2"}
  Approvals = {a1}
  ApprovalOp <- MCApprovalOp
  Proposals <- ClaimCalls
  Sizes = {0}
  MaxToolCalls = 2
  MaxServerCalls = 2
  MaxBytes = 2
  RateLimit = 3
INVARIANTS
  ReservationsMatchAttempts
  ClaimsMatchAttempts
PROPERTIES
  EffectsSettleOnce
  ApprovalsKeepPromise
SYMMETRY CallerSymmetry
CHECK_DEADLOCK FALSE
