SPECIFICATION Spec
CONSTANTS
  user = user
  background = background
  Items = {user, background}
  Foreground <- MCForeground
  Runtimes = {p, q}
  Direct = Direct
  Nobody = Nobody
  MaxClaims = 3
  MaxFaults = 1
  Requests = {"dispatch", "reorder", "defer"}
SYMMETRY RuntimeSymmetry
INVARIANTS
  TypeOK
  StartedAtMostOnce
  StartedIsDelivered
  NeverLost
  FifoKept
  HostHoldsLock
CHECK_DEADLOCK FALSE
