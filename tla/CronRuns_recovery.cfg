SPECIFICATION Spec
CONSTANTS
  Requests = {"q1"}
  Tasks <- MCTasks
  MaxGenerations = 1
  MaxRows = 2
  MaxEras = 2
  MaxFaults = 0
INVARIANT RecoverySparesOwnRuns
CHECK_DEADLOCK FALSE
