---------------------------- MODULE SessionResult ----------------------------
(***************************************************************************)
(* How the result of a headless worker reaches its row: cw result emit     *)
(* (cw/result.py), the Stop hook (cw/cli/stop_hook), the idle and phantom  *)
(* sweeps of the reconciler, and the dispatch loop's consumer of           *)
(* SESSION_COMPLETED events.                                               *)
(*                                                                         *)
(* One row, and the sessions it is claimed under in turn.  sessions_lock   *)
(* is held by the hook from the route to the harvest and by a reconcile    *)
(* pass throughout; the queue lock only inside a step, so the claim, the   *)
(* consumer and the operator move between the save of the queue and the    *)
(* save of the session.  Any process may die between two steps.            *)
(***************************************************************************)
EXTENDS Naturals, Sequences, FiniteSets

CONSTANTS
    Sessions,   \* sessions the row may be claimed under
    Reporters,  \* those whose worker reports; the others only run
    None,       \* no session, no result
    Kinds,      \* what a worker may report, a subset of Results
    LastStage,
    MaxCrashes, \* bound on processes that die between two steps
    MaxLog      \* bound on SESSION_COMPLETED events

\* "bad" is a sentinel that does not validate (BlockedResult); "mismatch" is
\* one the staged-advance guard refuses.
Results == {"advance", "ship", "hold", "mismatch", "bad"}

ResultAssumption ==
    /\ Reporters \subseteq Sessions
    /\ None \notin Sessions \cup Results \cup {"reconcile", "stamp", "harvest", "emit"}
    /\ Kinds \subseteq Results
    /\ "reconcile" \notin Sessions   \* a holder of sessions_lock besides the hooks
    /\ LastStage \in Nat /\ MaxCrashes \in Nat /\ MaxLog \in Nat

VARIABLES
    row,     \* the TicketTask: status, stage, session
    ses,     \* [Sessions -> status, last_result, its source and latches]
    live,    \* [Sessions -> BOOLEAN]: in the daemon roster
    tail,    \* [Sessions -> the sentinel in the transcript]
    bg,      \* [Sessions -> BOOLEAN]: background tasks are open
    marker,  \* [Sessions -> BOOLEAN]: STAGED_EMIT_RESULT_KEY in cw-context.json
    emit,    \* [Sessions -> the cw result emit in flight]
    hook,    \* [Sessions -> the Stop hook in flight]
    rec,     \* the reconcile pass in flight
    lock,    \* holder of sessions_lock
    log,     \* SESSION_COMPLETED events
    cursor,  \* the dispatch consumer's cursor
    crashes,
    moves,   \* history: [Sessions -> times its result moved the row on]
    routed   \* history: [Sessions -> the result last applied to the row]

vars == <<row, ses, live, tail, bg, marker, emit, hook, rec, lock, log, cursor,
          crashes, moves, routed>>

worker == <<live, tail, bg, emit>>

Idle == [pc |-> "idle", s |-> None, bg |-> FALSE, k |-> None, src |-> None]

NoSession == [status |-> "new", headless |-> TRUE, res |-> None, src |-> None,
              consumed |-> FALSE, refused |-> FALSE]

Init ==
    /\ row = [status |-> "PENDING", stage |-> 1, session |-> None]
    /\ ses = [s \in Sessions |-> NoSession]
    /\ live = [s \in Sessions |-> FALSE]
    /\ tail = [s \in Sessions |-> None]
    /\ bg = [s \in Sessions |-> FALSE]
    /\ marker = [s \in Sessions |-> FALSE]
    /\ emit = [s \in Sessions |-> None]
    /\ hook = [s \in Sessions |-> Idle]
    /\ rec = Idle
    /\ lock = None
    /\ log = <<>>
    /\ cursor = 0
    /\ crashes = 0
    /\ moves = [s \in Sessions |-> 0]
    /\ routed = [s \in Sessions |-> None]

-----------------------------------------------------------------------------
(* The session record *)

\* has_terminal_result.
HasTerminalResult(s) == ses[s].res # None

\* holds_staged_emit_result: emitted by the worker and not yet routed.
HoldsStaged(s) == ses[s].src = "emit" /\ HasTerminalResult(s) /\ ~ses[s].consumed

\* Mutant of EmitResultOn: the last writer wins.
EmitResultOnAnyway(x, k, src) == [x EXCEPT !.res = k, !.src = src]

\* emit_result_on: the first terminal result stays.
EmitResultOn(x, k, src) ==
    IF x.res = None THEN [x EXCEPT !.res = k, !.src = src] ELSE x

-----------------------------------------------------------------------------
(* The row *)

\* _lookup_matching_task: the row of this ticket bound to this session, in a
\* status that occupies the lane.
Target(s) == row.session = s /\ row.status \in {"RUNNING", "BLOCKED"}

AlreadyTerminal(s) == row.session = s /\ row.status \in {"COMPLETED", "FAILED"}

Unbound == [row EXCEPT !.status = "PENDING", !.session = None]

\* apply_staged_decision and _route_blocked_result_to_task: the rows a result
\* may leave; the empty set is a refusal.
Routed(k) ==
    CASE k = "advance" -> IF row.stage = LastStage THEN {}
                          ELSE {[Unbound EXCEPT !.stage = @ + 1]}
      [] k = "ship" -> {[row EXCEPT !.status = "COMPLETED"]}
      [] k = "hold" -> {[row EXCEPT !.status = "BLOCKED"]}
      [] k = "mismatch" -> {}
      [] k = "bad" -> IF row.status = "RUNNING"
                      THEN {Unbound, [row EXCEPT !.status = "FAILED"]} ELSE {row}

\* The queue save of a route, with what it means to the caller: the row moved
\* or has none bound to s ("routed"), is terminal ("terminal"), or the result
\* was refused.  A "bad" result that fails the row has landed it terminal.
ApplySentinel(s, k, out) ==
    \/ /\ Target(s)
       /\ \E r \in Routed(k) :
             /\ row' = r
             /\ out = IF r.status = "FAILED" THEN "landed" ELSE "routed"
             /\ moves' = IF k \in {"advance", "ship"}
                         THEN [moves EXCEPT ![s] = @ + 1] ELSE moves
             /\ routed' = [routed EXCEPT ![s] = k]
    \/ /\ Target(s) /\ Routed(k) = {} /\ out = "refused"
       /\ UNCHANGED <<row, moves, routed>>
    \/ /\ ~Target(s)
       /\ out = IF AlreadyTerminal(s) THEN "terminal" ELSE "routed"
       /\ UNCHANGED <<row, moves, routed>>

\* The claim and the launch of a worker (DevQueue has their steps).
Claim(s) ==
    /\ row.status = "PENDING" /\ ses[s].status = "new"
    /\ row' = [row EXCEPT !.status = "RUNNING", !.session = s]
    /\ \E h \in BOOLEAN :
          ses' = [ses EXCEPT ![s].status = "active", ![s].headless = h]
    /\ live' = [live EXCEPT ![s] = TRUE]
    /\ lock = None
    /\ UNCHANGED <<tail, bg, marker, emit, hook, rec, lock, log, cursor, crashes, moves, routed>>

\* requeue_ticket, unblock_ticket.
Requeue ==
    /\ row.status = "BLOCKED"
    /\ row' = Unbound
    /\ UNCHANGED <<ses, worker, marker, hook, rec, lock, log, cursor, crashes, moves, routed>>

-----------------------------------------------------------------------------
(* The worker, and cw result emit *)

Writes(s, k) ==
    /\ s \in Reporters /\ live[s] /\ tail[s] = None
    /\ tail' = [tail EXCEPT ![s] = k]
    /\ UNCHANGED <<row, ses, live, bg, marker, emit, hook, rec, lock, log, cursor, crashes, moves, routed>>

Background(s) ==
    /\ s \in Reporters /\ live[s]
    /\ bg' = [bg EXCEPT ![s] = ~@]
    /\ UNCHANGED <<row, ses, live, tail, marker, emit, hook, rec, lock, log, cursor, crashes, moves, routed>>

Dies(s) ==
    /\ live[s]
    /\ live' = [live EXCEPT ![s] = FALSE]
    /\ UNCHANGED <<row, ses, tail, bg, marker, emit, hook, rec, lock, log, cursor, crashes, moves, routed>>

\* result_emit up to the lock: the lockless check for an earlier result.
EmitCheck(s, k) ==
    /\ s \in Reporters /\ live[s] /\ emit[s] = None /\ k # "bad"
    /\ ~HasTerminalResult(s)
    /\ emit' = [emit EXCEPT ![s] = k]
    /\ UNCHANGED <<row, ses, live, tail, bg, marker, hook, rec, lock, log, cursor, crashes, moves, routed>>

\* emit_result under sessions_lock, then _stamp_staged_emit_result.
EmitStore(s) ==
    /\ emit[s] \in Results /\ lock = None
    /\ ses' = [ses EXCEPT ![s] = EmitResultOn(@, emit[s], "emit")]
    /\ emit' = [emit EXCEPT ![s] = IF HasTerminalResult(s) THEN None ELSE "stamp"]
    /\ UNCHANGED <<row, live, tail, bg, marker, hook, rec, lock, log, cursor, crashes, moves, routed>>

EmitStamp(s) ==
    /\ emit[s] = "stamp"
    /\ emit' = [emit EXCEPT ![s] = None]
    /\ marker' = [marker EXCEPT ![s] = TRUE]
    /\ UNCHANGED <<row, ses, live, tail, bg, hook, rec, lock, log, cursor, crashes, moves, routed>>

-----------------------------------------------------------------------------
(* The Stop hook: signal_stop *)

\* Up to sessions_lock: with background tasks only a staged marker goes on;
\* the transcript is parsed before the lock unless a result is staged.
StopBegin(s) ==
    /\ s \in Reporters /\ live[s] /\ hook[s] = Idle
    /\ bg[s] => marker[s] /\ ses[s].headless
    /\ ses[s].status = "active"
    /\ hook' = [hook EXCEPT ![s] = [Idle EXCEPT !.pc = "lock", !.s = s, !.bg = bg[s],
                                    !.k = IF HasTerminalResult(s) THEN None ELSE tail[s]]]
    /\ UNCHANGED <<row, ses, worker, marker, rec, lock, log, cursor, crashes, moves, routed>>

\* The result the hook routes: a staged emit before the transcript.
StopSource(s) ==
    IF HasTerminalResult(s) THEN [k |-> ses[s].res, src |-> "emit"]
    ELSE [k |-> hook[s].k, src |-> IF hook[s].k = None THEN None ELSE "harvest"]

Settled(s) == ses[s].status # "active"

StopGone(s) == hook' = [hook EXCEPT ![s] = Idle]

\* _resolve_stop_under_lock on a settled session, and a stop with nothing to
\* route: _park_if_abandoned may park the running row; the hook is done.
StopNothing(s) ==
    /\ hook[s].pc = "lock" /\ lock = None
    /\ \/ Settled(s) /\ UNCHANGED row
       \/ /\ ~Settled(s) /\ ses[s].headless /\ StopSource(s).k = None
          /\ \/ UNCHANGED row
             \/ /\ row.session = s /\ row.status = "RUNNING"
                /\ row' = [row EXCEPT !.status = "BLOCKED"]
    /\ StopGone(s)
    /\ UNCHANGED <<ses, worker, marker, rec, lock, log, cursor, crashes, moves, routed>>

\* A session without the headless flag is completed and leaves the row to the
\* consumer of its event.
StopInteractive(s) ==
    /\ hook[s].pc = "lock" /\ lock = None
    /\ ~Settled(s) /\ ~ses[s].headless
    /\ hook' = [hook EXCEPT ![s].pc = "save", ![s].k = None] /\ lock' = s
    /\ UNCHANGED <<row, ses, worker, marker, rec, log, cursor, crashes, moves, routed>>

\* _resolve_and_complete_headless_session up to the queue save.  A result
\* already routed while background tasks ran is not routed again.
StopRoute(s) ==
    /\ hook[s].pc = "lock" /\ lock = None
    /\ ~Settled(s) /\ ses[s].headless /\ StopSource(s).k # None
    /\ LET x == StopSource(s)
           next(pc) == [hook EXCEPT ![s].pc = pc, ![s].k = x.k, ![s].src = x.src] IN
       \/ /\ ses[s].consumed
          /\ hook' = next("save") /\ lock' = s
          /\ UNCHANGED <<row, marker, moves, routed>>
       \/ /\ ~ses[s].consumed
          /\ \E out \in {"routed", "terminal", "landed", "refused"} :
                /\ ApplySentinel(s, x.k, out)
                /\ IF out \in {"routed", "terminal"}
                   THEN hook' = next("save") /\ lock' = s /\ UNCHANGED marker
                   ELSE /\ hook' = IF out = "landed" THEN next("kill")
                                   ELSE [hook EXCEPT ![s] = Idle]
                        /\ marker' = IF HasTerminalResult(s)
                                     THEN [marker EXCEPT ![s] = FALSE] ELSE marker
                        /\ UNCHANGED lock
    /\ UNCHANGED <<ses, worker, rec, log, cursor, crashes>>

\* The session save.  With background tasks the session stays active and a
\* staged result is marked as consumed.
StopSave(s) ==
    /\ hook[s].pc = "save"
    /\ IF hook[s].bg
       THEN /\ ses' = IF hook[s].src = "emit" THEN [ses EXCEPT ![s].consumed = TRUE] ELSE ses
            /\ marker' = [marker EXCEPT ![s] = FALSE]
            /\ StopGone(s) /\ lock' = None
       ELSE /\ ses' = [ses EXCEPT ![s].status = "completed"]
            /\ hook' = [hook EXCEPT ![s].pc = "harvest"]
            /\ UNCHANGED <<marker, lock>>
    /\ UNCHANGED <<row, worker, rec, log, cursor, crashes, moves, routed>>

\* _harvest_last_result_through_door, still under sessions_lock.
StopHarvest(s) ==
    /\ hook[s].pc = "harvest"
    /\ ses' = IF hook[s].src = "harvest"
              THEN [ses EXCEPT ![s] = EmitResultOn(@, hook[s].k, "harvest")] ELSE ses
    /\ hook' = [hook EXCEPT ![s].pc = "event"]
    /\ lock' = None
    /\ UNCHANGED <<row, worker, marker, rec, log, cursor, crashes, moves, routed>>

Completed(s, crashed) == [s |-> s, crashed |-> crashed]

StopEvent(s) ==
    /\ hook[s].pc = "event" /\ Len(log) < MaxLog
    /\ log' = Append(log, Completed(s, FALSE))
    /\ hook' = [hook EXCEPT ![s].pc = "kill"]
    /\ UNCHANGED <<row, ses, worker, marker, rec, lock, cursor, crashes, moves, routed>>

\* The daemon is told to stop the surface.
StopKill(s) ==
    /\ hook[s].pc = "kill"
    /\ live' = [live EXCEPT ![s] = FALSE]
    /\ StopGone(s)
    /\ UNCHANGED <<row, ses, tail, bg, marker, emit, rec, lock, log, cursor, crashes, moves, routed>>

StopDies(s) ==
    /\ hook[s] # Idle /\ crashes < MaxCrashes
    /\ crashes' = crashes + 1
    /\ StopGone(s)
    /\ lock' = IF lock = s THEN None ELSE lock
    /\ UNCHANGED <<row, ses, worker, marker, rec, log, cursor, moves, routed>>

-----------------------------------------------------------------------------
(* The reconcile pass *)

RecFree == rec = Idle /\ lock = None

RecTo(pc, s, k, src) ==
    rec' = [pc |-> pc, s |-> s, bg |-> FALSE, k |-> k, src |-> src] /\ lock' = "reconcile"

Active(s) == ses[s].status = "active"

\* Mutant of Candidate: a session with a result is left to its Stop hook.
CandidateNoStaged(s) ==
    IF live[s] /\ ses[s].res = None /\ ~ses[s].refused THEN tail[s] ELSE None

\* _detect_idle_candidates and _classify_before_dirty_check: a staged result
\* first, then the transcript.  A refused session is not offered again.
Candidate(s) ==
    IF live[s]
    THEN IF HoldsStaged(s) THEN IF ses[s].refused THEN None ELSE ses[s].res
         ELSE IF ses[s].res # None \/ ses[s].refused THEN None ELSE tail[s]
    ELSE IF HasTerminalResult(s) /\ ~ses[s].refused THEN ses[s].res
         ELSE IF tail[s] \in {"ship", "hold"} THEN tail[s]
         ELSE IF ses[s].refused \/ tail[s] = "bad" THEN None ELSE tail[s]

\* SALVAGE_COMPLETION: a terminal sentinel of a dead worker's transcript.
Salvages(s) ==
    /\ ~live[s] /\ Candidate(s) \in {"ship", "hold"}
    /\ HasTerminalResult(s) => ses[s].refused

\* ROUTE_EMITTED_SENTINEL: the door first (before_persist), then the queue.
RecRoute(s) ==
    /\ RecFree /\ Active(s) /\ Candidate(s) # None /\ ~Salvages(s)
    /\ LET k == Candidate(s) IN
       \E out \in {"routed", "terminal", "landed", "refused"} :
          /\ ApplySentinel(s, k, out)
          /\ IF out = "refused" THEN RecTo("refuse", s, k, None)
             ELSE RecTo("save", s, k, "sweep")
    /\ UNCHANGED <<ses, worker, marker, hook, log, cursor, crashes>>

\* The session save: completed with the routed result through the door.
RecSave ==
    /\ rec.pc = "save"
    /\ ses' = [ses EXCEPT ![rec.s] = [EmitResultOn(@, rec.k, "sweep")
                                      EXCEPT !.status = "completed"]]
    /\ rec' = [rec EXCEPT !.pc = "event"]
    /\ UNCHANGED <<row, worker, marker, hook, lock, log, cursor, crashes, moves, routed>>

\* page_and_latch_stage_refusal: the page, then the latch; for a live worker
\* the stamp takes the place of the result.
RecRefuse ==
    /\ rec.pc = "refuse"
    /\ ses' = [ses EXCEPT ![rec.s] =
                  IF live[rec.s] THEN [@ EXCEPT !.res = None, !.src = None, !.refused = TRUE]
                  ELSE [@ EXCEPT !.refused = TRUE]]
    /\ rec' = Idle /\ lock' = None
    /\ UNCHANGED <<row, worker, marker, hook, log, cursor, crashes, moves, routed>>

\* _apply_phantom_salvage_mutations and _apply_phantom_queue_mutations: any
\* RUNNING row of the ticket takes the result.  The door refuses it when a
\* refused result is still on record.
RecSalvage(s) ==
    /\ RecFree /\ Active(s) /\ Salvages(s) /\ ~HasTerminalResult(s)
    /\ IF row.status = "RUNNING"
       THEN /\ row' = [row EXCEPT !.status =
                          IF Candidate(s) = "ship" THEN "COMPLETED" ELSE "BLOCKED"]
            /\ moves' = IF Candidate(s) = "ship" THEN [moves EXCEPT ![s] = @ + 1] ELSE moves
            /\ routed' = [routed EXCEPT ![s] = Candidate(s)]
       ELSE UNCHANGED <<row, moves, routed>>
    /\ RecTo("save", s, Candidate(s), "sweep")
    /\ UNCHANGED <<ses, worker, marker, hook, log, cursor, crashes>>

\* CRASH_COMPLETE: a dead worker with nothing to route.  A dirty worktree
\* parks the RUNNING row, else it is reverted.
RecCrash(s) ==
    /\ RecFree /\ Active(s) /\ ~live[s]
    /\ Candidate(s) = None
    /\ \E r \in {Unbound, [row EXCEPT !.status = "BLOCKED", !.session = None]} :
          row' = IF row.status = "RUNNING" THEN r ELSE row
    /\ RecTo("crash", s, None, None)
    /\ UNCHANGED <<ses, worker, marker, hook, log, cursor, crashes, moves, routed>>

RecCrashSave ==
    /\ rec.pc = "crash"
    /\ ses' = [ses EXCEPT ![rec.s].status = "completed"]
    /\ rec' = [rec EXCEPT !.pc = "event", !.src = "crash"]
    /\ UNCHANGED <<row, worker, marker, hook, lock, log, cursor, crashes, moves, routed>>

\* The event, and the stop of a live surface deferred past the lock.
RecEvent ==
    /\ rec.pc = "event" /\ Len(log) < MaxLog
    /\ log' = Append(log, Completed(rec.s, rec.src = "crash"))
    /\ live' = [live EXCEPT ![rec.s] = FALSE]
    /\ rec' = Idle /\ lock' = None
    /\ UNCHANGED <<row, ses, tail, bg, emit, marker, hook, cursor, crashes, moves, routed>>

RecDies ==
    /\ rec # Idle /\ crashes < MaxCrashes
    /\ crashes' = crashes + 1
    /\ rec' = Idle /\ lock' = None
    /\ UNCHANGED <<row, ses, worker, marker, hook, log, cursor, moves, routed>>

\* Mutant of Backstop: only behind a session that left no result.
BackstopSilentOnly(s) ==
    /\ RecFree
    /\ row.status = "RUNNING" /\ row.session = s /\ ses[s].status = "completed"
    /\ ses[s].res = None
    /\ row' \in {Unbound, [row EXCEPT !.status = "BLOCKED", !.session = None]}
    /\ UNCHANGED <<ses, worker, marker, hook, rec, lock, log, cursor, crashes, moves, routed>>

\* revert_completed_silent_tasks: a RUNNING row whose session is completed.
Backstop(s) ==
    /\ RecFree
    /\ row.status = "RUNNING" /\ row.session = s /\ ses[s].status = "completed"
    /\ row' \in {Unbound, [row EXCEPT !.status = "BLOCKED", !.session = None]}
    /\ UNCHANGED <<ses, worker, marker, hook, rec, lock, log, cursor, crashes, moves, routed>>

-----------------------------------------------------------------------------
(* The dispatch consumer: consume_completed_sessions *)

\* Mutant of EventRow: any RUNNING row of the ticket.
EventRowByTicket(e) == row.status = "RUNNING"

\* _apply_events_to_store: the RUNNING row bound to the event's session.
EventRow(e) == row.status = "RUNNING" /\ row.session = e.s

\* Without a result the row is parked; a crash belongs to the reconciler.
Applied(e) ==
    IF e.crashed \/ ~EventRow(e) THEN {row}
    ELSE IF ses[e.s].res = None THEN {[row EXCEPT !.status = "BLOCKED"]}
    ELSE IF Routed(ses[e.s].res) = {} THEN {row} ELSE Routed(ses[e.s].res)

\* Applied first, then the cursor; a crash in between replays the event.
Consume(crash) ==
    /\ cursor < Len(log)
    /\ LET e == log[cursor + 1] IN
       /\ row' \in Applied(e)
       /\ moves' = IF row' # row /\ ses[e.s].res \in {"advance", "ship"}
                   THEN [moves EXCEPT ![e.s] = @ + 1] ELSE moves
       /\ routed' = IF row' # row THEN [routed EXCEPT ![e.s] = ses[e.s].res] ELSE routed
    /\ IF crash THEN crashes < MaxCrashes /\ crashes' = crashes + 1 /\ UNCHANGED cursor
       ELSE cursor' = cursor + 1 /\ UNCHANGED crashes
    /\ UNCHANGED <<ses, worker, marker, hook, rec, lock, log>>

-----------------------------------------------------------------------------

HookStep(s) == StopNothing(s) \/ StopInteractive(s) \/ StopRoute(s) \/ StopSave(s) \/ StopHarvest(s)
               \/ StopEvent(s) \/ StopKill(s)

RecStep == RecSave \/ RecRefuse \/ RecCrashSave \/ RecEvent
           \/ \E s \in Sessions : RecRoute(s) \/ RecSalvage(s) \/ RecCrash(s)

BackstopStep == \E s \in Sessions : Backstop(s)

Next ==
    \/ \E s \in Sessions :
          \/ Claim(s) \/ Background(s) \/ Dies(s) \/ EmitStore(s) \/ EmitStamp(s)
          \/ \E k \in Kinds : Writes(s, k) \/ EmitCheck(s, k)
          \/ StopBegin(s) \/ HookStep(s) \/ StopDies(s)
    \/ Requeue \/ RecStep \/ RecDies \/ BackstopStep
    \/ \E crash \in BOOLEAN : Consume(crash)

Spec == Init /\ [][Next]_vars

\* A hook that started goes on, the reconciler runs on a timer, and the
\* dispatch loop consumes on every tick.
Fairness ==
    /\ \A s \in Sessions : WF_vars(HookStep(s))
    /\ WF_vars(RecStep) /\ WF_vars(BackstopStep) /\ WF_vars(Consume(FALSE))

LiveSpec == Spec /\ Fairness

-----------------------------------------------------------------------------
(* Properties *)

\* A result on record is never replaced by another one: cw result emit, the
\* harvest of the Stop hook and the sweeps race for the door of result.py, and
\* the first stays.  (The idle sweep's refusal stamp removes it.)
FirstResultStays ==
    \A s \in Sessions : ses[s].res # None => ses'[s].res \in {ses[s].res, None}

\* The row goes to its next stage only on the word of the session it is bound
\* to: not by a late Stop hook, sweep or replayed event of an earlier one.
OwnerMoves ==
    row'.stage # row.stage =>
        \E s \in Sessions : row.session = s /\ "advance" \in {ses[s].res, tail[s]}

\* One session has one result, and it alone moves the session's row.
ResultStep == FirstResultStays /\ OwnerMoves
ResultKept == [][ResultStep]_vars

\* The result of one session moves the row on at most once, whoever dies
\* between the save of the queue, the save of the session, the event and the
\* consumer's cursor.
MovedOnce == \A s \in Sessions : moves[s] <= 1

\* What was applied to the row is what the session's record says, unless a
\* process died between the two saves.
RecordedIsRouted ==
    crashes = 0 =>
        \A s \in Sessions :
            ses[s].status = "completed" /\ ~ses[s].refused /\ routed[s] \notin {None, "bad"} /\ ses[s].res # None
                => routed[s] = ses[s].res

\* Between the door, the hook, the sweeps and the event consumer, a result is
\* applied once, and it is the one on record.
AppliedAsRecorded == MovedOnce /\ RecordedIsRouted

\* A result handed in with cw result emit is settled: it is routed, its
\* session completes, or the refusal is latched.
StagedSettled ==
    \A s \in Sessions :
        HoldsStaged(s) /\ Active(s) ~> ~HoldsStaged(s) \/ ~Active(s) \/ ses[s].refused

\* A row does not stay RUNNING under a session that has completed.
RunningReleased ==
    \A s \in Sessions :
        row.status = "RUNNING" /\ row.session = s /\ ses[s].status = "completed"
            ~> ~ (row.status = "RUNNING" /\ row.session = s)

\* A result handed in with cw result emit is settled (routed, or its session
\* completes, or the refusal is latched), and a row does not stay RUNNING under
\* a session that has completed.
ResultSettled == StagedSettled /\ RunningReleased
=============================================================================
