SPECIFICATION Spec
CONSTANT None = None
CONSTANT WindowClients = {"c1", "c2"}
CONSTANT Loops = {"l1", "l2"}
CONSTANT Forced = {"l2"}
CONSTANT Flat = 1
CONSTANT Resets = {0, 2, 4}
CONSTANT MaxWindow = 3
CONSTANT WindowNow = 3
CONSTANT MaxArms = 2
CONSTANT Threshold = 1
CONSTANT Base = 1
CONSTANT MaxCool = 1
CONSTANT Interval = 4
CONSTANT MaxFails = 1
CONSTANT MaxNow = 2
CONSTANT ProbeLoop = "l1"
CONSTANT ProbeThreshold = 2
CONSTANT ProbeCool = 3
CONSTANT ProbeFails = 5
CONSTANT Threads = {1, 2}
CONSTANT Order <- MCOrder
CONSTANT Phantoms = {"s2"}
CONSTANT Cap = 2
CONSTANT MaxAge = 1
CONSTANT MaxTime = 1
CONSTANT MaxTicks = 2
CONSTANT MaxFlips = 2
CONSTANT ClientSeq <- MCClientSeq
CONSTANT LanesOf <- MCLanesOf
CONSTANT MaxParallel <- MCMaxParallel
CONSTANT LaneOf <- MCLaneOf
CONSTANT Ceiling <- MCCeiling
CONSTANT Budget = 1
CONSTANT MaxClients = 2
INVARIANT OperatorPausesKept
INVARIANT OneFreeProbe
INVARIANT QuietMeansPaged
INVARIANT RequeuedFresh
 
 
 
CHECK_DEADLOCK FALSE
