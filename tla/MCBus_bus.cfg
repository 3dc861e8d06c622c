\* libubus requests
CONSTANTS
  Requests = {"q1", "q2", "a1", "n1"}
  ModeOf <- ReqModes
  Invokes = {"m1"}
  MaxReplies = 2
  NotifyTo <- ReqSubscribers
  MaxPeers = 2
  SeqRange = 8
  MaxStarts = 2
  MaxRx = 1
  MayDie = TRUE
\* ubusd's and libubus' reassembly of messages
  HdrLen = 2
  BodyLen = 2
  MaxSent = 3
  Room = 5
  HeadLen = 2
  DataLen = 2
  MaxUnits = 9
  MaxSignals = 2
\* event patterns
  EvObjects = {"o1", "o2"}
  EvClient <- EvClients
  Keys <- EvKeys
  EventNames <- EvNames
  SystemPrefix <- EvSystem
  MaxPatterns = 3
  MaxEvents = 2
\* programs on the bus
  BusClients = {"c1", "c2", "c3"}
  BusObjects = {"o1", "o2", "o3"}
  OwnerOf <- BusOwners
  Watching <- BusWatching
  TimedCallers = {"c2"}
  MaxCalls = 1
  MayLeave = {"c3"}
  MayRemove = {"o2"}
  MaxLost = 1
\* ubus wait_for
  Paths = {"p1", "p2", "p3"}
  Arguments <- WaitArguments
  MaxChanges = 3
\* auto-reconnect
  OurObjects = {"p1", "p2"}
  TypeOf <- ConnTypes
  MaxDeaths = 2
  MaxTaken = 1
\* uloop
  Fds = {"e", "l"}
  EdgeFds = {"e"}
  MaxRuns = 2
  MaxArrivals = 3
  TicksPerMs = 2
  MsPerSec = 2
  Timers = {"t1", "t2", "t3"}
  Delays = {1, 3}
  Pids = {1, 2}
  MaxTime = 3
  MaxSets = 3
\* runqueue
  Tasks = {"t1", "t2"}
  MaxRunning = 1
  MaxAdds = 2
  MaxFrames = 5
\* the Java binding
  NULL = NULL
  Refused <- NoRefusal
  Invokers = {c1, a1}
  Adders = {a1}
  Incoming = {r1, r2}
  Workers = {w1, w2}
  ConnectOutcomes <- AlwaysConnects
  BusMayDie = FALSE
  MaxInvoke = 1
  FetchSize = 1
  AcceptLimit = 2
  MaxObjects = 3
  ReadSize = 1
\* Programs and daemons may stop, and the bounds end every behaviour.
CHECK_DEADLOCK FALSE
SPECIFICATION SuiteSpec
INVARIANTS
  AcceptedAccounted
  RequestsEndRight
  HandlersServed
  StreamIntact
  MessagesWhole
  
  
  WaitsForUnseen
  ObjectsAgree
  EdgeEventsKept
  TimersAndExitsKept
  QueueSound
PROPERTIES
  EventReaches
  NotAfterDelete
