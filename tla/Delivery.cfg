SPECIFICATION FairSpec
CONSTANTS
  commander = commander
  vp = vp
  NoNote = NoNote
  Page = page
  Deliverers = {d1, d2}
  Sweepers = {}
  Low = {}
  Roles <- NoRole
  MaxAttempts = 3
  MaxCrashes = 1
PROPERTIES
  ConfirmedPageStays
  PageSettles
CHECK_DEADLOCK FALSE
