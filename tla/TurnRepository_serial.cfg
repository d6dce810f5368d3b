\* One process at a time: a machine with a single Runtime that may crash
\* and be restarted.  Liveness: no symmetry.
SPECIFICATION FairSpec
CONSTANTS
  Runtimes = {r1, r2}
  Sessions = {s1}
  Turns = {t1, t2}
  Requests = {}
  NoRequest = NoRequest
  NoTurn = NoTurn
  Busy = {"turn", "compaction"}
  Overlap = FALSE
  LeaseTerm = 2
  MaxNow = 5
PROPERTIES AbandonedLockIsReleased
CHECK_DEADLOCK FALSE
