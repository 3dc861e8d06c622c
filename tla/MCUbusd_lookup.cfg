\* Is every lookup answered?
CONSTANTS
  c1 = c1
  c2 = c2
  o1 = o1
  o2 = o2
  o3 = o3
  t1 = t1
  t2 = t2
  p1 = p1
  p2 = p2
  NULL = NULL
  Clients <- TwoClients
  ObjIds <- TwoObjects
  Reserved <- LowId
  TypeIds <- TwoTypes
  Paths <- OnePath
  Heard <- Removals
  MaxSubs = 1
SPECIFICATION Spec
\* The daemon may have stopped.
CHECK_DEADLOCK FALSE
INVARIANT
  DaemonStaysUp
