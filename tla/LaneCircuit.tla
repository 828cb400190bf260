----------------------------- MODULE LaneCircuit -----------------------------
(***************************************************************************)
(* The per-lane circuit breaker of cw/dispatch/lane_circuit.py with the    *)
(* lane walk that drives it (cw/dispatch/lanes.py), the charge decision of *)
(* cw/dispatch/claim/spawn.py and the operator's cw lane pause / resume    *)
(* (cw/cli/config_cmds.py), for one lane of one client.                    *)
(*                                                                         *)
(* The override file is read and written under concurrency_override_lock,  *)
(* but a tick decides from copies: whether the lane is paused is computed  *)
(* at its start, the auto-resume precheck and the page use the overrides   *)
(* loaded when the paused lane is met.  Operators write in between.        *)
(***************************************************************************)
EXTENDS Naturals

CONSTANTS
    Loops,      \* dispatch loops
    Threshold,  \* lane_circuit_breaker_threshold
    Base,       \* lane_circuit_auto_resume_minutes (0: auto-resume off)
    MaxCool,    \* lane_circuit_auto_resume_max_minutes
    Interval,   \* lane_starved_notify_interval_minutes
    MaxFails,   \* bound on spawn failures
    MaxNow      \* bound on the clock while no resume is scheduled

CircuitAssumption ==
    /\ Threshold \in Nat \ {0}
    /\ Base \in Nat /\ MaxCool \in Nat /\ Interval \in Nat /\ MaxFails \in Nat /\ MaxNow \in Nat

VARIABLES
    ov,        \* the persisted LaneConcurrencyOverride
    declared,  \* clients.yaml says paused: true
    pending,   \* the lane has PENDING work
    full,      \* the client has no free slot (available_client_slots <= 0)
    now,
    tick,      \* [Loops -> the tick's place and copies]
    fails,     \* failures so far (bound)
    held,      \* history: the operator's last word is a pause
    lifted,    \* history: the operator overrode the declared value
    free,      \* history: uncharged failures since the lane went half-open
    paged      \* history: this pause has been paged as starved

vars == <<ov, declared, pending, full, now, tick, fails, held, lifted, free, paged>>

hist == <<held, lifted, free, paged>>

NoOverride ==
    [paused |-> "none", source |-> "none", spawnErrors |-> 0, worktreeErrors |-> 0,
     streak |-> 0, halfOpen |-> FALSE, resumeAt |-> 0, notifyAt |-> 0]

Idle == [pc |-> "idle", copy |-> NoOverride, pending |-> FALSE, worktree |-> FALSE]

Init ==
    /\ ov = NoOverride
    /\ declared = FALSE
    /\ pending = TRUE
    /\ full = FALSE
    /\ now = 1
    /\ tick = [l \in Loops |-> Idle]
    /\ fails = 0
    /\ held = FALSE
    /\ lifted = FALSE
    /\ free = 0
    /\ paged = FALSE

-----------------------------------------------------------------------------

\* load_effective_clients: a non-None override wins over clients.yaml.
EffectivelyPaused(o) == IF o.paused = "none" THEN declared ELSE o.paused = "true"

WorktreeThreshold == 3 * Threshold

\* breaker_tripped.
BreakerTripped(o) ==
    o.spawnErrors >= Threshold \/ o.worktreeErrors >= WorktreeThreshold

\* _is_operator_held: an operator pause or a legacy one.
IsOperatorHeld(o) == o.paused = "true" /\ o.source # "breaker"

\* _auto_resume_cooldown_minutes: doubled per trip of the streak, capped.
Cooldown(streak) ==
    LET minutes == Base * 2^(streak - 1) IN IF minutes < MaxCool THEN minutes ELSE MaxCool

CountedTakesHold(o, worktree) ==
    LET c == [o EXCEPT !.spawnErrors = IF worktree THEN @ ELSE @ + 1,
                       !.worktreeErrors = IF worktree THEN @ + 1 ELSE @,
                       !.halfOpen = FALSE] IN
    IF BreakerTripped(c)
    THEN [c EXCEPT !.paused = "true", !.source = "breaker", !.streak = @ + 1,
                   !.resumeAt = IF Base > 0 THEN now + Cooldown(o.streak + 1) ELSE 0]
    ELSE c

CountedKeepsProbe(o, worktree) ==
    LET c == [o EXCEPT !.spawnErrors = IF worktree THEN @ ELSE @ + 1,
                       !.worktreeErrors = IF worktree THEN @ + 1 ELSE @]
        trips == IF worktree THEN c.worktreeErrors >= WorktreeThreshold
                             ELSE c.spawnErrors >= Threshold IN
    IF ~trips \/ IsOperatorHeld(o) THEN c
    ELSE [c EXCEPT !.paused = "true", !.source = "breaker", !.streak = @ + 1,
                   !.resumeAt = IF Base > 0 THEN now + Cooldown(o.streak + 1) ELSE 0]

\* _apply_recorded_error: count on the failure's own counter, end the probe,
\* and trip unless an operator holds the lane.
Counted(o, worktree) ==
    LET c == [o EXCEPT !.spawnErrors = IF worktree THEN @ ELSE @ + 1,
                       !.worktreeErrors = IF worktree THEN @ + 1 ELSE @,
                       !.halfOpen = FALSE]
        trips == IF worktree THEN c.worktreeErrors >= WorktreeThreshold
                             ELSE c.spawnErrors >= Threshold IN
    IF ~trips \/ IsOperatorHeld(o) THEN c
    ELSE [c EXCEPT !.paused = "true", !.source = "breaker", !.streak = @ + 1,
                   !.resumeAt = IF Base > 0 THEN now + Cooldown(o.streak + 1) ELSE 0]

AutoResumeDueQuiet(o) ==
    /\ Base > 0
    /\ o.paused = "true" /\ o.source = "breaker" /\ o.streak < 2
    /\ o.resumeAt # 0 /\ now >= o.resumeAt

\* _auto_resume_due.
AutoResumeDue(o) ==
    /\ Base > 0
    /\ o.paused = "true" /\ o.source = "breaker"
    /\ o.resumeAt # 0 /\ now >= o.resumeAt

AtMost(n, bound) == IF n < bound THEN n ELSE bound

\* _half_open: control goes back to the declared value, one failure re-trips.
HalfOpen(o) ==
    [o EXCEPT !.paused = "none", !.source = "none", !.halfOpen = TRUE,
              !.resumeAt = 0, !.notifyAt = 0,
              !.spawnErrors = AtMost(@, Threshold - 1),
              !.worktreeErrors = AtMost(@, WorktreeThreshold - 1)]

\* _quiet_paging: the first two trips of a streak resume on their own.
QuietPaging(o) == Base > 0 /\ o.resumeAt # 0 /\ o.streak < 3

-----------------------------------------------------------------------------
(* One tick of loop l over the lane.                                       *)

\* The tick fixes its effective lanes and queue snapshot.  With no free slot
\* the walk breaks before it looks at the lane.
TickStart(l) ==
    /\ tick[l].pc = "idle"
    /\ ~full
    /\ tick' = [tick EXCEPT ![l].pc = IF EffectivelyPaused(ov) THEN "paused"
                                       ELSE IF pending THEN "spawn" ELSE "idle",
                            ![l].pending = pending]
    /\ UNCHANGED <<ov, declared, pending, full, now, fails>> /\ UNCHANGED hist

\* The paused lane is met: the overrides are loaded, lock-free, and the
\* auto-resume precheck and the page are decided on that copy.
LoadOverrides(l) ==
    /\ tick[l].pc = "paused"
    /\ tick' = [tick EXCEPT ![l].copy = ov,
                            ![l].pc = IF AutoResumeDue(ov) THEN "resume" ELSE "page"]
    /\ UNCHANGED <<ov, declared, pending, full, now, fails>> /\ UNCHANGED hist

AutoResumeStale(l) ==
    /\ tick[l].pc = "resume"
    /\ ov' = HalfOpen(ov)
    /\ free' = 0
    /\ paged' = FALSE
    /\ tick' = [tick EXCEPT ![l] = Idle]
    /\ UNCHANGED <<declared, pending, full, now, fails, held, lifted>>

\* _maybe_auto_resume_lane: checked again under the lock, on a fresh load.
AutoResume(l) ==
    /\ tick[l].pc = "resume"
    /\ IF AutoResumeDue(ov)
       THEN /\ ov' = HalfOpen(ov)
            /\ free' = 0
            /\ paged' = FALSE
            /\ tick' = [tick EXCEPT ![l] = Idle]
       ELSE /\ tick' = [tick EXCEPT ![l].pc = "page"]
            /\ UNCHANGED <<ov, free, paged>>
    /\ UNCHANGED <<declared, pending, full, now, fails, held, lifted>>

\* _check_lane_circuit_paused and _maybe_notify_lane_starved: paged when the
\* copy's counters tripped, work waits, and the debounce stamp has passed.
Page(l) ==
    LET o == tick[l].copy
        starved == BreakerTripped(o) /\ tick[l].pending /\ ~QuietPaging(o) IN
    /\ tick[l].pc = "page"
    /\ IF starved /\ now >= ov.notifyAt
       THEN ov' = [ov EXCEPT !.notifyAt = now + Interval] /\ paged' = TRUE
       ELSE UNCHANGED <<ov, paged>>
    /\ tick' = [tick EXCEPT ![l] = Idle]
    /\ UNCHANGED <<declared, pending, full, now, fails, held, lifted, free>>

\* A claim and spawn that succeeds: _reset_lane_spawn_errors.
SpawnSucceeds(l) ==
    /\ tick[l].pc = "spawn"
    /\ ov' = [ov EXCEPT !.spawnErrors = 0, !.worktreeErrors = 0, !.streak = 0, !.halfOpen = FALSE]
    /\ tick' = [tick EXCEPT ![l] = Idle]
    /\ UNCHANGED <<declared, pending, full, now, fails>> /\ UNCHANGED hist

\* A spawn that fails: the charge is decided on a lock-free read of the
\* half-open flag, before the failure is recorded.
SpawnFails(l, worktree) ==
    /\ tick[l].pc = "spawn"
    /\ fails < MaxFails
    /\ fails' = fails + 1
    /\ free' = IF ov.halfOpen THEN free + 1 ELSE free
    /\ tick' = [tick EXCEPT ![l].pc = "record", ![l].worktree = worktree]
    /\ UNCHANGED <<ov, declared, pending, full, now, held, lifted, paged>>

\* _record_lane_spawn_error; the walk then breaks.
RecordError(l) ==
    /\ tick[l].pc = "record"
    /\ ov' = Counted(ov, tick[l].worktree)
    /\ tick' = [tick EXCEPT ![l] = Idle]
    /\ UNCHANGED <<declared, pending, full, now, fails>> /\ UNCHANGED hist

LoopStep(l) ==
    \/ TickStart(l) \/ LoadOverrides(l) \/ AutoResume(l) \/ Page(l)
    \/ SpawnSucceeds(l) \/ RecordError(l)
    \/ \E w \in BOOLEAN : SpawnFails(l, w)

-----------------------------------------------------------------------------
(* The operator and the rest of the system.                                *)

\* cw lane pause.
LanePause ==
    /\ ov' = [ov EXCEPT !.paused = "true", !.source = "operator", !.resumeAt = 0, !.halfOpen = FALSE]
    /\ held' = TRUE /\ lifted' = FALSE
    /\ UNCHANGED <<declared, pending, full, now, tick, fails, free, paged>>

\* cw lane resume: the streak is kept.
LaneResume ==
    /\ ov' = [NoOverride EXCEPT !.paused = "false", !.streak = ov.streak]
    /\ held' = FALSE /\ lifted' = TRUE /\ paged' = FALSE
    /\ UNCHANGED <<declared, pending, full, now, tick, fails, free>>

\* clients.yaml is edited to declare the lane paused; a resume override in
\* force still wins.
DeclarePause ==
    /\ ~declared
    /\ declared' = TRUE
    /\ lifted' = (ov.paused = "false")
    /\ UNCHANGED <<ov, pending, full, now, tick, fails, held, free, paged>>

\* Work arrives or is drained, slots fill or free up.
QueueMoves ==
    /\ \/ pending' = ~pending /\ UNCHANGED full
       \/ full' = TRUE /\ UNCHANGED pending
    /\ UNCHANGED <<ov, declared, now, tick, fails>> /\ UNCHANGED hist

SlotFrees ==
    /\ full
    /\ full' = FALSE
    /\ UNCHANGED <<ov, declared, pending, now, tick, fails>> /\ UNCHANGED hist

ClockTick ==
    /\ now < MaxNow \/ ov.resumeAt > now
    /\ now' = now + 1
    /\ UNCHANGED <<ov, declared, pending, full, tick, fails>> /\ UNCHANGED hist

Next ==
    \/ \E l \in Loops : LoopStep(l)
    \/ LanePause \/ LaneResume \/ DeclarePause \/ QueueMoves \/ SlotFrees \/ ClockTick

Spec == Init /\ [][Next]_vars

\* Time passes, a started tick finishes, and a client whose slots free up
\* again and again is ticked while it has one.
FairSpec ==
    /\ Spec
    /\ WF_vars(ClockTick) /\ WF_vars(SlotFrees)
    /\ \A l \in Loops : WF_vars(LoopStep(l)) /\ SF_vars(TickStart(l))

-----------------------------------------------------------------------------

\* A cw lane pause stays in force until the operator lifts it: no trip of a
\* spawn already in flight and no racing auto-resume takes it over.
OperatorPauseSticky == held => ov.paused = "true" /\ ov.source = "operator"

\* A pause declared in clients.yaml is lifted by the operator only, never by
\* the breaker's auto-resume.
DeclaredPauseSurvives == declared /\ ~lifted => EffectivelyPaused(ov)

\* A pause the operator made, by command or in clients.yaml, ends by the
\* operator's hand only.
OperatorPausesKept == OperatorPauseSticky /\ DeclaredPauseSurvives

\* At most one failure per half-open window goes uncharged, whatever mix of
\* spawn and worktree failures follows the auto-resume.
OneFreeProbe == free <= 1

\* A pause by the breaker with a schedule is lifted in the end.
PauseEnds ==
    ov.paused = "true" /\ ov.source = "breaker" /\ ov.resumeAt # 0
        ~> ~(ov.paused = "true" /\ ov.source = "breaker")

=============================================================================
