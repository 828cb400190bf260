--------------------------- MODULE DispatchParts ----------------------------
(***************************************************************************)
(* The parts of the dispatch loop that watch over it: usage-limit windows, *)
(* the lane circuit breaker, and the dirty checks of the reconcile tick.   *)
(***************************************************************************)
EXTENDS Naturals, Sequences, FiniteSets, Parts

CONSTANTS
    WindowClients, Loops, Forced, Flat, Resets, MaxWindow, WindowNow, MaxArms,  \* of Windows
    Threshold, Base, MaxCool, Interval, MaxFails, MaxNow,  \* of Circuit
    ProbeLoop, ProbeThreshold, ProbeCool, ProbeFails,  \* of Probe
    Threads, Order, Phantoms, Cap, MaxAge, MaxTime, MaxTicks, MaxFlips  \* of Dirty

VARIABLES
    now, file, mem, pc, det, active, arms, cleared,
    ov, declared, pending, full, cNow, tick, fails, held, lifted, free, paged,
    qNow, since, fault, ended, row, qTick, announced, deferred, told, stale, n

\* Two loops, one of them forced past the loop lock, and two clients.
Windows == INSTANCE UsageWindows WITH
    Clients <- WindowClients, MaxNow <- WindowNow
\* Two loops on one lane; one loop and a threshold of two failures.
Circuit == INSTANCE LaneCircuit WITH
    now <- cNow
Probe == INSTANCE LaneCircuit WITH
    now <- cNow, Loops <- {ProbeLoop}, Threshold <- ProbeThreshold,
    MaxCool <- ProbeCool, MaxFails <- ProbeFails
\* Two threads that reap two sessions.
Dirty == INSTANCE DirtyChecks WITH
    now <- qNow, tick <- qTick

ASSUME WindowsAssumption == Windows!WindowAssumption
ASSUME CircuitAssumption == Circuit!CircuitAssumption
ASSUME ProbeAssumption == Probe!CircuitAssumption
ASSUME DirtyAssumption == Dirty!DirtyChecksAssumption

wVars == <<now, file, mem, pc, det, active, arms, cleared>>
cVars == <<ov, declared, pending, full, cNow, tick, fails, held, lifted, free,
    paged>>
qVars == <<qNow, since, fault, ended, row, qTick, announced, deferred, told,
    stale, n>>

-----------------------------------------------------------------------------

\* The variables of a component that does not run.
NoUsageWindows ==
    /\ now = 0 /\ file = 0 /\ mem = 0 /\ pc = 0 /\ det = 0 /\ active = 0
    /\ arms = 0 /\ cleared = 0

NoLaneCircuit ==
    /\ ov = 0 /\ declared = 0 /\ pending = 0 /\ full = 0 /\ cNow = 0
    /\ tick = 0 /\ fails = 0 /\ held = 0 /\ lifted = 0 /\ free = 0
    /\ paged = 0

NoDirtyChecks ==
    /\ qNow = 0 /\ since = 0 /\ fault = 0 /\ ended = 0 /\ row = 0
    /\ qTick = 0 /\ announced = 0 /\ deferred = 0 /\ told = 0 /\ stale = 0
    /\ n = 0

DispatchOff == NoUsageWindows /\ NoLaneCircuit /\ NoDirtyChecks

DispatchInit ==
    \/ part = "windows" /\ Windows!Init /\ NoLaneCircuit /\ NoDirtyChecks
    \/ part = "circuit" /\ Circuit!Init /\ NoUsageWindows /\ NoDirtyChecks
    \/ part = "probe" /\ Probe!Init /\ NoUsageWindows /\ NoDirtyChecks
    \/ part = "dirty" /\ Dirty!Init /\ NoUsageWindows /\ NoLaneCircuit

DispatchNext ==
    \/ part = "windows" /\ Windows!Next /\ UNCHANGED <<part, cVars, qVars>>
    \/ part = "circuit" /\ Circuit!Next /\ UNCHANGED <<part, wVars, qVars>>
    \/ part = "probe" /\ Probe!Next /\ UNCHANGED <<part, wVars, qVars>>
    \/ part = "dirty" /\ Dirty!Next /\ UNCHANGED <<part, wVars, cVars>>

DispatchVars == <<wVars, cVars, qVars>>

DispatchSpec == DispatchInit /\ [][DispatchNext]_<<part, DispatchVars>>

-----------------------------------------------------------------------------

\* No step of any process shortens a live persisted window: two loops and the
\* mid-turn act arm concurrently and nobody's lockout is lost (#1409 round 4).
FileNeverShortens ==
    [][part = "windows" => Windows!KeepsLiveWindows]_wVars

\* A pause the operator made, by command or in clients.yaml, ends by the
\* operator's hand only.
OperatorPausesKept == part = "circuit" => Circuit!OperatorPausesKept

\* At most one failure per half-open window goes uncharged, whatever mix of
\* spawn and worktree failures follows the auto-resume.
OneFreeProbe == part = "probe" => Probe!OneFreeProbe

\* An outage that the process keeps quiet about is one that the operator was
\* told of: its latch stands only if the tick that set it recorded the event,
\* or is still about to, whichever of its events failed and whatever the other
\* threads settled meanwhile.
QuietMeansPaged == part = "dirty" => Dirty!QuietMeansPaged

\* A row goes back to the queue only if its tree was seen clean less than the
\* bound ago: unsaved work that is older is never reset by the next claim.
RequeuedFresh == part = "dirty" => Dirty!RequeuedFresh
=============================================================================
