\* Is a message dropped only when the ring is full?
CONSTANTS
  c1 = c1
  NULL = NULL
  Clients <- OneClient
  Backlog = 2
  SockBuf = 2
  MaxMsgs = 4
  DataSizes <- OneSize
SPECIFICATION Spec
CHECK_DEADLOCK FALSE
PROPERTY
  DroppedOnlyWhenFull
