SPECIFICATION FairSpec
CONSTANTS
  commander = commander
  vp = vp
  NoNote = NoNote
  Page = page
  Deliverers = {}
  Sweepers = {s1}
  Low = {}
  Roles <- TwoRoles
  MaxAttempts = 1
  MaxCrashes = 0
PROPERTY EveryDueRoleIsPaged
CHECK_DEADLOCK FALSE
