\* The daemon may go away: a lookup that was sent is never answered.
CONSTANTS
  c1 = c1
  c2 = c2
  c3 = c3
  a1 = a1
  r1 = r1
  w1 = w1
  w2 = w2
  NULL = NULL
  Refused <- Empty
  Invokers <- TwoCallers
  Adders <- Empty
  Incoming <- Empty
  Workers <- OneWorker
  ConnectOutcomes <- AlwaysConnects
  BusMayDie = TRUE
  MaxInvoke = 2
  FetchSize = 1
  AcceptLimit = 2
  MaxObjects = 3
  ReadSize = 2
CHECK_DEADLOCK FALSE
SPECIFICATION FairSpec
PROPERTY
  EveryCallReturns
