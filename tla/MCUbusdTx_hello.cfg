\* Is a header ever lost in the ring?
CONSTANTS
  c1 = c1
  NULL = NULL
  Clients <- OneClient
  Backlog = 2
  SockBuf = 2
  MaxMsgs = 4
  DataSizes <- OneSize
SPECIFICATION Spec
CHECK_DEADLOCK FALSE
INVARIANT
  NoZeroHeader
