SPECIFICATION FairSpec
CONSTANTS
  Requests = {"q1"}
  Tasks <- MCTasks
  MaxGenerations = 1
  MaxRows = 2
  MaxEras = 2
  MaxFaults = 1
INVARIANTS TypeOK DeliveredAtMostOnce NoTriggerSwallowed FixedTargetIsOne CloseSettlesClaims
PROPERTIES TerminalIsFinal PendingEnds
CHECK_DEADLOCK FALSE
