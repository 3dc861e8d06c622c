\* One client, a ring of two slots that fills, wraps and overflows.
CONSTANTS
  c1 = c1
  NULL = NULL
  Clients <- OneClient
  Backlog = 2
  SockBuf = 3
  MaxMsgs = 4
  DataSizes <- TwoSizes
SPECIFICATION FairSpec
\* All clients may be gone.
CHECK_DEADLOCK FALSE
INVARIANTS
  RingShape
  RefsCounted
  Framed
  ContentIntact
PROPERTIES
  ImplementsFifo
  QueueDrains
