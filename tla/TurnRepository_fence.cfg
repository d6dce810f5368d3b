\* One process alone: the run of its own deletion is enough.
SPECIFICATION Spec
CONSTANTS
  Runtimes = {r1}
  Sessions = {s1}
  Turns = {t1, t2}
  Requests = {}
  NoRequest = NoRequest
  NoTurn = NoTurn
  Busy = {"turn"}
  Overlap = FALSE
  LeaseTerm = 1
  MaxNow = 4
INVARIANT DeletionFenceNeverExpires
CHECK_DEADLOCK FALSE
