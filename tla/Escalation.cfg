SPECIFICATION Spec
CONSTANTS
  commander = commander
  vp = vp
  NoNote = NoNote
  Page = page
  Deliverers = {d1, d2}
  Sweepers = {s1}
  Low = {low}
  Roles <- OneRole
  MaxAttempts = 3
  MaxCrashes = 1
INVARIANTS
  ReachesOnce
  AttemptsAreCounted
  SentMeansDelivered
CONSTRAINT OneInDelivery
SYMMETRY DelivererSymmetry
CHECK_DEADLOCK FALSE
