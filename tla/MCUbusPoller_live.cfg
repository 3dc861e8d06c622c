\* Every call returns and every request is answered while the bus stays up.
CONSTANTS
  c1 = c1
  c2 = c2
  c3 = c3
  a1 = a1
  r1 = r1
  w1 = w1
  w2 = w2
  NULL = NULL
  Refused <- Empty
  Invokers <- OneCallerAndAdder
  Adders <- OneAdder
  Incoming <- OneRequest
  Workers <- TwoWorkers
  ConnectOutcomes <- AlwaysConnects
  BusMayDie = FALSE
  MaxInvoke = 1
  FetchSize = 1
  AcceptLimit = 2
  MaxObjects = 3
  ReadSize = 2
SPECIFICATION FairSpec
PROPERTIES
  EveryCallReturns
  EveryRequestAnswered
