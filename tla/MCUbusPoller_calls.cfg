\* Three calls, two slots; the bus may be absent at first and may die.
CONSTANTS
  c1 = c1
  c2 = c2
  c3 = c3
  a1 = a1
  r1 = r1
  w1 = w1
  w2 = w2
  NULL = NULL
  Refused <- Empty
  Invokers <- ThreeCallers
  Adders <- Empty
  Incoming <- Empty
  Workers <- OneWorker
  ConnectOutcomes <- MayNotConnect
  BusMayDie = TRUE
  MaxInvoke = 2
  FetchSize = 1
  AcceptLimit = 2
  MaxObjects = 3
  ReadSize = 2
SYMMETRY CallerSymmetry
\* The poller stops for ever when the bus dies during a lookup.
CHECK_DEADLOCK FALSE
SPECIFICATION Spec
INVARIANTS
  ListsMatchFlags
  SlotsMatchCalls
  NoLostWakeup
  CompletedReleased
PROPERTIES
  ReturnedIsFinal
