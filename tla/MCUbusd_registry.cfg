\* Three objects of two clients: removal and disconnection in any order.
CONSTANTS
  c1 = c1
  c2 = c2
  o1 = o1
  o2 = o2
  o3 = o3
  t1 = t1
  t2 = t2
  p1 = p1
  p2 = p2
  NULL = NULL
  Clients <- TwoClients
  ObjIds <- ThreeObjects
  Reserved <- Empty
  TypeIds <- TwoTypes
  Paths <- TwoPaths
  Heard <- Removals
  MaxSubs = 2
SYMMETRY RegistrySymmetry
SPECIFICATION Spec
\* The daemon may have stopped.
CHECK_DEADLOCK FALSE
INVARIANTS
  TypeOK
  NoDangling
  PathsUnique
  RefsMatchUsers
PROPERTIES
  DisappearanceTold
  StatusChangesTold
