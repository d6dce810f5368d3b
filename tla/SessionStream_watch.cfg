SPECIFICATION FairSpec
CONSTANTS
  u1 = u1
  a1 = a1
  Messages = {u1, a1}
  Users = {u1}
  Assistants = {a1}
  NoMessage = NoMessage
  MaxItems = 2
  MaxBytes = 2
  Retained = 1
  Sizes = {1, 3}
  MaxQueue = 1
  MaxQueueBytes = 2
  MaxTurns = 2
  MaxFrames = 1
  MaxObjects = 2
INVARIANTS TypeOK NothingOwedIsMissing PendingInOrder
PROPERTY WatchEnds
CHECK_DEADLOCK FALSE
