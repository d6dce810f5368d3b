SPECIFICATION Spec
CONSTANTS
  Runtimes = {r1, r2}
  Sessions = {s1}
  Turns = {t1, t2}
  Requests = {q1}
  NoRequest = NoRequest
  NoTurn = NoTurn
  Busy = {"turn"}
  Overlap = TRUE
  LeaseTerm = 1
  MaxNow = 4
SYMMETRY Symmetry
INVARIANTS TypeOK AcceptedTurnOwnsLock ActiveLockHasTurn RequestAdmittedOnce
PROPERTIES TerminalIsFinal LiveLeaseIsNotTaken FenceHoldsUntilCleanup
CHECK_DEADLOCK FALSE
