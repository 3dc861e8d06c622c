\* Is a call given up only after wait(4000) has run out?
CONSTANTS
  c1 = c1
  c2 = c2
  c3 = c3
  a1 = a1
  r1 = r1
  w1 = w1
  w2 = w2
  NULL = NULL
  Refused <- Empty
  Invokers <- TwoCallers
  Adders <- Empty
  Incoming <- Empty
  Workers <- OneWorker
  ConnectOutcomes <- AlwaysConnects
  BusMayDie = FALSE
  MaxInvoke = 2
  FetchSize = 1
  AcceptLimit = 2
  MaxObjects = 3
  ReadSize = 2
SPECIFICATION Spec
PROPERTY
  CancelOnlyAfterTimeout
