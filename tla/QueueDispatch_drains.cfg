SPECIFICATION FairSpec
CONSTANTS
  user = user
  background = background
  Items = {user, background}
  Foreground <- MCForeground
  Runtimes = {p}
  Direct = Direct
  Nobody = Nobody
  MaxClaims = 3
  MaxFaults = 0
  Requests = {"direct", "cancel", "abort", "stop", "continue", "defer"}
INVARIANTS
  CancelledNeverStarts
PROPERTIES
  QueueDrains
CHECK_DEADLOCK FALSE
