SPECIFICATION WatchSpec
CONSTANT None = None
CONSTANT Threads = {"t1", "t2", "t3"}
CONSTANT SessionsLock = "sessions"
CONSTANT StateLocks = {"dev_queue", "clients"}
CONSTANT LeafLocks = {"events", "inbox"}
CONSTANT BoundedLocks = {"sessions", "dev_queue", "clients"}
CONSTANT PeerNesting <- MCPeerNesting
CONSTANT OrderEnforced = TRUE
CONSTANT BookkeepingFails = FALSE
CONSTANT Sessions = {"s1", "s2"}
CONSTANT Window = 1
CONSTANT MaxNow = 2
CONSTANT MaxActs = 2
CONSTANT MaxFaults = 1
CONSTANT ResultKinds = {"advance", "ship"}
CONSTANT ResultSessions = {"s1", "s2"}
CONSTANT Reporters = {"s1"}
CONSTANT LastStage = 2
CONSTANT MaxCrashes = 1
CONSTANT MaxLog = 2
CONSTANT LogSettings <- MCLogSettings
CONSTANT BusSettings <- MCBusSettings
INVARIANT PagedAfterClear
CHECK_DEADLOCK FALSE
