SPECIFICATION FairSpec
CONSTANTS
  u1 = u1
  u2 = u2
  m1 = m1
  Users = {u1, u2}
  Machines = {m1}
  MaxFailures = 2
CHECK_DEADLOCK FALSE
INVARIANTS
  TypeOK
  UserSteeringKept
  EndsOnce
  MachinesConsumed
  SendOrder
  StoppedStaysParked
  ShutdownSaves
PROPERTIES
  EveryBatchLands
  RequeuedIsWoken
