SPECIFICATION FairSpec
CONSTANTS
  Operations = {p1, p2, p3, p4}
  Handoffs = {h1, h2}
  EndFences = {e1, e2}
  Deletion = Deletion
  Objects = {o1, o2}
  NoObject = NoObject
  NoOne = NoOne
INVARIANTS TypeOK OneStateObject
PROPERTIES ExclusiveAccess DeletionDrains
