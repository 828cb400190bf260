---------------------------- MODULE UsageWindows ----------------------------
(***************************************************************************)
(* The usage-limit back-off windows: cw/dispatch_state.py (the sidecar key *)
(* usage_limited_until), the part of cw/dispatch/loop.py and tick.py that  *)
(* reads, gates on, arms and persists them, and the transition detector of *)
(* dispatch.usage_limit_cleared.                                           *)
(*                                                                         *)
(* A loop keeps its own copy of the windows, merges the sidecar into it at *)
(* the top of every tick, gates each client on that copy for the whole     *)
(* tick, and persists fresh detections at its end.  Other processes arm    *)
(* windows too (a second loop under --force, the mid-turn act).  Sidecar   *)
(* reads and writes may fail; both failures are swallowed by the code.     *)
(***************************************************************************)
EXTENDS Naturals, FiniteSets

CONSTANTS
    Clients,    \* configured clients
    Loops,      \* dispatch loop processes
    Forced,     \* the loops started with --force (they skip the singleton lock)
    Flat,       \* usage_limit_backoff_seconds
    Resets,     \* reset instants, as distances from now, a limit message names
    MaxWindow,  \* the clamp on a parsed reset (seven days)
    MaxNow,     \* bound on the clock while no window is live
    MaxArms     \* bound on the number of arming ticks and outside arms

WindowAssumption ==
    /\ Forced \subseteq Loops
    /\ Flat \in Nat \ {0}
    /\ Resets \subseteq Nat
    /\ MaxWindow \in Nat /\ MaxNow \in Nat /\ MaxArms \in Nat

NoReset == MaxWindow + 1   \* nothing parsed: resolve falls back to the flat window

VARIABLES
    now,      \* wall clock
    file,     \* [Clients -> Nat]: the persisted deadline, 0 when absent
    mem,      \* [Loops -> [Clients -> Nat]]: a loop's usage_limited_until
    pc,       \* [Loops -> {"off", "top", "tick", "arm", "save"}]
    det,      \* [Loops -> [Clients -> Nat]]: this tick's detections, 0 = none
    active,   \* [Loops -> BOOLEAN]: usage_limit_window_active
    arms,     \* arms so far (bound)
    cleared   \* history: dispatch.usage_limit_cleared events this loop emitted

vars == <<now, file, mem, pc, det, active, arms, cleared>>

NoWindows == [c \in Clients |-> 0]

Init ==
    /\ now = 1
    /\ file = NoWindows
    /\ mem = [l \in Loops |-> NoWindows]
    /\ pc = [l \in Loops |-> "off"]
    /\ det = [l \in Loops |-> NoWindows]
    /\ active = [l \in Loops |-> FALSE]
    /\ arms = 0
    /\ cleared = [l \in Loops |-> 0]

-----------------------------------------------------------------------------

\* _usage_limited_until_from_payload: entries still in the future.
Future(w) == [c \in Clients |-> IF w[c] > now THEN w[c] ELSE 0]

\* merge_usage_limited_until: per client the later deadline.
MergeLater(w, v) == [c \in Clients |-> IF v[c] > w[c] THEN v[c] ELSE w[c]]

\* resolve_usage_limited_until: the parsed reset when it is in the future and
\* inside the clamp, else the flat window.
Resolve(reset) ==
    IF 0 < reset /\ reset <= MaxWindow THEN now + reset ELSE now + Flat

AnyActive(w) == \E c \in Clients : w[c] > now

\* dispatch_loop_lock: a loop without --force runs alone among those that
\* take the lock.
LockFree(l) == l \in Forced \/ \A k \in Loops \ Forced : pc[k] = "off"

\* _run_dispatch_loop_body up to the loop: the persisted windows are loaded.
StartLoop(l) ==
    /\ pc[l] = "off"
    /\ LockFree(l)
    /\ mem' = [mem EXCEPT ![l] = Future(file)]
    /\ active' = [active EXCEPT ![l] = AnyActive(Future(file))]
    /\ pc' = [pc EXCEPT ![l] = "top"]
    /\ det' = [det EXCEPT ![l] = NoWindows]
    /\ UNCHANGED <<now, file, arms, cleared>>

TickTopSticky(l, read) ==
    LET merged == MergeLater(mem[l], read) IN
    /\ pc[l] = "top"
    /\ mem' = [mem EXCEPT ![l] = merged]
    /\ active' = [active EXCEPT ![l] = @ \/ AnyActive(merged)]
    /\ pc' = [pc EXCEPT ![l] = "tick"]
    /\ UNCHANGED <<now, file, det, arms, cleared>>

\* The top of a tick: _merge_persisted_usage_limited_until (an unreadable
\* sidecar reads as no windows) and _handle_usage_limit_window_transition.
TickTop(l, read) ==
    LET merged == MergeLater(mem[l], read) IN
    /\ pc[l] = "top"
    /\ mem' = [mem EXCEPT ![l] = merged]
    /\ active' = [active EXCEPT ![l] = AnyActive(merged)]
    /\ cleared' = [cleared EXCEPT ![l] = @ + (IF active[l] /\ ~AnyActive(merged) THEN 1 ELSE 0)]
    /\ pc' = [pc EXCEPT ![l] = "tick"]
    /\ UNCHANGED <<now, file, det, arms>>

\* _apply_usage_limit_gate: the clients whose window is not open.
Eligible(l) == {c \in Clients : mem[l][c] <= now}

\* dispatch_tick with no fresh limit: every eligible client may spawn.
TickQuiet(l) ==
    /\ pc[l] = "tick"
    /\ pc' = [pc EXCEPT ![l] = "top"]
    /\ UNCHANGED <<now, file, mem, det, active, arms, cleared>>

\* dispatch_tick whose spawn for client c hits the limit: the lane loop of
\* that client stops, and the named reset is kept for that client.
SpawnHitsLimit(l, c, reset) ==
    /\ pc[l] = "tick"
    /\ arms < MaxArms
    /\ c \in Eligible(l)
    /\ det' = [det EXCEPT ![l][c] = reset]
    /\ pc' = [pc EXCEPT ![l] = "arm"]
    /\ arms' = arms + 1
    /\ UNCHANGED <<now, file, mem, active, cleared>>

\* dispatch_tick whose reconcile pass reports a limit: unless every client is
\* limited already, nothing is spawned and EVERY known client is armed flat.
ReconcileHitsLimit(l) ==
    /\ pc[l] = "tick"
    /\ arms < MaxArms
    /\ Eligible(l) # {}
    /\ det' = [det EXCEPT ![l] = [c \in Clients |-> NoReset]]
    /\ pc' = [pc EXCEPT ![l] = "arm"]
    /\ arms' = arms + 1
    /\ UNCHANGED <<now, file, mem, active, cleared>>

Detected(l) == {c \in Clients : det[l][c] # 0}

\* _arm_usage_limit_windows: the loop's copy is overwritten per detection.
ArmWindows(l) ==
    /\ pc[l] = "arm"
    /\ mem' = [mem EXCEPT ![l] =
                 [c \in Clients |-> IF c \in Detected(l) THEN Resolve(det[l][c]) ELSE @[c]]]
    /\ det' = [det EXCEPT ![l] = NoWindows]
    /\ pc' = [pc EXCEPT ![l] = "save"]
    /\ UNCHANGED <<now, file, active, arms, cleared>>

SaveWindowsWhole(l) ==
    /\ pc[l] = "save"
    /\ file' = mem[l]
    /\ pc' = [pc EXCEPT ![l] = "top"]
    /\ UNCHANGED <<now, mem, det, active, arms, cleared>>

\* merge_and_save_usage_limited_until under one dispatch_state_lock hold.
SaveWindows(l) ==
    LET merged == MergeLater(mem[l], Future(file)) IN
    /\ pc[l] = "save"
    /\ file' = merged
    /\ mem' = [mem EXCEPT ![l] = merged]
    /\ pc' = [pc EXCEPT ![l] = "top"]
    /\ UNCHANGED <<now, det, active, arms, cleared>>

\* The write failed: the caller keeps its own windows.
SaveFails(l) ==
    /\ pc[l] = "save"
    /\ pc' = [pc EXCEPT ![l] = "top"]
    /\ UNCHANGED <<now, file, mem, det, active, arms, cleared>>

\* Another process (the mid-turn act) merges one client's window in.
OutsideArm(c, reset) ==
    /\ arms < MaxArms
    /\ file' = MergeLater([NoWindows EXCEPT ![c] = Resolve(reset)], Future(file))
    /\ arms' = arms + 1
    /\ UNCHANGED <<now, mem, pc, det, active, cleared>>

\* The loop ends: --once, version drift, an exception or a kill.
ExitLoop(l) ==
    /\ pc[l] # "off"
    /\ pc' = [pc EXCEPT ![l] = "off"]
    /\ UNCHANGED <<now, file, mem, det, active, arms, cleared>>

\* Bounded by MaxNow, but a live window is always seen to lapse.
ClockTick ==
    /\ now < MaxNow \/ AnyActive(file) \/ \E l \in Loops : AnyActive(mem[l])
    /\ now' = now + 1
    /\ UNCHANGED <<file, mem, pc, det, active, arms, cleared>>

LoopStep(l) ==
    \/ \E read \in {Future(file), NoWindows} : TickTop(l, read)
    \/ TickQuiet(l)
    \/ \E c \in Clients, r \in Resets \cup {NoReset} : SpawnHitsLimit(l, c, r)
    \/ ReconcileHitsLimit(l)
    \/ ArmWindows(l)
    \/ SaveWindows(l)
    \/ SaveFails(l)

Next ==
    \/ \E l \in Loops : StartLoop(l) \/ LoopStep(l) \/ ExitLoop(l)
    \/ \E c \in Clients, r \in Resets \cup {NoReset} : OutsideArm(c, r)
    \/ ClockTick

Spec == Init /\ [][Next]_vars

\* A started loop keeps ticking (it sleeps and wakes), and time passes.
FairSpec ==
    /\ Spec
    /\ WF_vars(ClockTick)
    /\ \A l \in Loops : WF_vars(LoopStep(l))

-----------------------------------------------------------------------------

TypeOK ==
    /\ now \in Nat
    /\ file \in [Clients -> Nat]
    /\ mem \in [Loops -> [Clients -> Nat]]
    /\ pc \in [Loops -> {"off", "top", "tick", "arm", "save"}]
    /\ det \in [Loops -> [Clients -> Nat]]
    /\ active \in [Loops -> BOOLEAN]
    /\ arms \in Nat
    /\ cleared \in [Loops -> Nat]

\* No step of any process shortens a live persisted window: two loops and the
\* mid-turn act arm concurrently and nobody's lockout is lost (#1409 round 4).
KeepsLiveWindows == \A c \in Clients : file[c] > now => file'[c] >= file[c]
FileNeverShortens == [][KeepsLiveWindows]_vars

\* A loop that keeps running and has seen a window announces the all-clear
\* once the windows lapse.
PauseEnds ==
    \A l \in Loops :
        active[l] /\ pc[l] # "off" ~> ~active[l] \/ pc[l] = "off"

\* What _arm_usage_limit_windows's docstring says: a detection fires only for
\* a client whose window lapsed, so overwriting never shortens a window.
ArmOverwritesLapsedOnly ==
    \A l \in Loops : pc[l] = "arm" => \A c \in Detected(l) : mem[l][c] <= now
=============================================================================
