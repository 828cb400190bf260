------------------------------ MODULE CodexJob ------------------------------
(***************************************************************************)
(* A codex review as a detached job (cw/executor/core.py, codex.py), the   *)
(* driver that runs it (cw/codex_driver.py, codex_background.py) and the   *)
(* four ways a dead one is recovered: the boot pass                        *)
(* (reconcile/codex_boot.py), the harvest sweep (reconcile/local.py), the  *)
(* live-writer sweep (reconcile/codex_reparks.py) and                      *)
(* cw codex migrate-legacy (codex_legacy_recovery.py).                     *)
(*                                                                         *)
(* One row, and the sessions it is claimed under in turn.  The driver is a *)
(* process of its own with codex children; both may outlive the dispatcher *)
(* and a child may outlive its driver.  sessions_lock is held from the     *)
(* closing of a session to the move of its row, the queue lock only inside *)
(* a step.  A recovery judges from facts it read before it took the locks. *)
(***************************************************************************)
EXTENDS Naturals

CONSTANTS
    Sessions,    \* sessions the row may be claimed under
    Runs,        \* those whose driver is followed; the others only start
    None,
    MaxCrashes   \* bound on processes that die between two steps

VARIABLES
    row,     \* the TicketTask: status, session_id, codex_orphan_session_id
    ses,     \* [Sessions -> status, local_liveness, last_result]
    driver,  \* [Sessions -> where the cw codex run process is]
    codex,   \* sessions with a live codex child in the worktree
    tree,    \* "clean", or "dirty": changes or commits beyond the baseline
    spawn,   \* the CodexExecutor.spawn in flight
    boot,    \* the boot pass: "todo", "done", or the orphan it judged
    sweep,   \* the reconcile pass: what it captured and what it is closing
    legacy,  \* the migrate-legacy run in flight
    marker,  \* the migrate-legacy marker: [Sessions -> its entry]
    events,  \* legacy audit and follow-up events recorded: [Sessions -> 0..2]
    lock,    \* holder of sessions_lock
    crashes

vars == <<row, ses, driver, codex, tree, spawn, boot, sweep, legacy, marker,
          events, lock, crashes>>

CodexAssumption ==
    Runs \subseteq Sessions /\ None \notin Sessions /\ MaxCrashes \in Nat

\* A pass that may hold the lock: its step, the session, the claim identity
\* and the clean probe it captured, whether nothing ran in the worktree at
\* that moment (history), and the disposition it decided.
Idle == [pc |-> "idle", s |-> None, sid |-> None, link |-> None,
         clean |-> FALSE, quiet |-> FALSE, act |-> None]

Entries == {None, "pending", "requeued", "parked", "failed", "handled", "live"}

Init ==
    /\ row = [status |-> "PENDING", sid |-> None, link |-> None]
    /\ ses = [s \in Sessions |-> [status |-> "new", handle |-> FALSE, res |-> None]]
    /\ driver = [s \in Sessions |-> "none"]
    /\ codex = {}
    /\ tree = "clean"
    /\ spawn = [pc |-> "idle", s |-> None]
    /\ boot = [Idle EXCEPT !.pc = "todo"]
    /\ sweep = Idle
    /\ legacy = Idle
    /\ marker = [s \in Sessions |-> None]
    /\ events = [s \in Sessions |-> 0]
    /\ lock = None
    /\ crashes = 0

TypeOK ==
    /\ row \in [status : {"PENDING", "RUNNING", "BLOCKED", "OUT"},
                sid : Sessions \cup {None}, link : Sessions \cup {None}]
    /\ ses \in [Sessions -> [status : {"new", "ACTIVE", "COMPLETED"},
                             handle : BOOLEAN, res : {None, "verdict", "error"}]]
    /\ driver \in [Sessions -> {"none", "start", "review", "emit", "event",
                                "error", "revert", "end"}]
    /\ codex \subseteq Sessions
    /\ tree \in {"clean", "dirty"}
    /\ marker \in [Sessions -> Entries]
    /\ events \in [Sessions -> 0 .. 2]
    /\ lock \in {None, "boot", "sweep", "legacy"}
    /\ crashes \in 0 .. MaxCrashes

-----------------------------------------------------------------------------
(* The row *)

Free == lock = None

\* transition_task_status clears the orphan link; the session id is cleared by
\* every caller here.
ToStatus(status) == [status |-> status, sid |-> None, link |-> None]

\* Mutant of FindRunningRow: the identity of the claim is not compared.
FindRunningRowOfTicket(s) == row.status = "RUNNING"

\* _find_running_row with an expected session id.
FindRunningRow(s) == row.status = "RUNNING" /\ row.sid = s

\* _revert_claimed_task_to_pending.
Reverted(s) == IF FindRunningRow(s) THEN ToStatus("PENDING") ELSE row

\* _park_running_task_blocked_on_user, with the session a live writer leaves
\* open as the link.
Parked(s, link) ==
    IF FindRunningRow(s) THEN [ToStatus("BLOCKED") EXCEPT !.link = link] ELSE row

\* What the operator does to the row: cancel, requeue, unblock.
OperatorMovesRow ==
    /\ row' \in {ToStatus(st) : st \in {"PENDING", "OUT"}} \ {row}
    /\ UNCHANGED <<ses, driver, codex, tree, spawn, boot, sweep, legacy, marker,
                   events, lock, crashes>>

-----------------------------------------------------------------------------
(* CodexExecutor.spawn *)

\* _create_executor_session, _codex_preflight and
\* _stamp_session_id_on_running_task, on the row claimed this tick.
Spawn(s) ==
    /\ boot.pc = "done" /\ spawn.pc = "idle" /\ Free
    /\ row.status = "PENDING" /\ ses[s].status = "new" /\ tree = "clean"
    /\ ses' = [ses EXCEPT ![s].status = "ACTIVE"]
    /\ row' = [row EXCEPT !.status = "RUNNING", !.sid = s]
    /\ spawn' = [pc |-> "launch", s |-> s]
    /\ UNCHANGED <<driver, codex, tree, boot, sweep, legacy, marker, events, lock,
                   crashes>>

\* RealCodexJobRunner.launch.
Launch ==
    /\ spawn.pc = "launch"
    /\ driver' = [driver EXCEPT ![spawn.s] = "start"]
    /\ spawn' = [spawn EXCEPT !.pc = "store"]
    /\ UNCHANGED <<row, ses, codex, tree, boot, sweep, legacy, marker, events, lock,
                   crashes>>

\* _complete_crashed_launch, then the dispatcher reverts its claim.
LaunchFails ==
    /\ spawn.pc = "launch" /\ Free
    /\ LET s == spawn.s IN
       /\ ses' = IF ses[s].status = "COMPLETED" THEN ses
                 ELSE [ses EXCEPT ![s].status = "COMPLETED", ![s].res = "error"]
       /\ row' = Reverted(s)
    /\ spawn' = [pc |-> "idle", s |-> None]
    /\ UNCHANGED <<driver, codex, tree, boot, sweep, legacy, marker, events, lock,
                   crashes>>

\* _record_liveness_handle, or after two failed saves a WorkerLaunchedError:
\* the driver runs on and its session carries no handle.
StoreHandle ==
    /\ spawn.pc = "store" /\ Free
    /\ \E stored \in BOOLEAN :
          ses' = [ses EXCEPT ![spawn.s].handle = stored]
    /\ spawn' = [pc |-> "idle", s |-> None]
    /\ UNCHANGED <<row, driver, codex, tree, boot, sweep, legacy, marker, events,
                   lock, crashes>>

-----------------------------------------------------------------------------
(* The driver: run_codex_review_stage and _run_codex_review_and_complete *)

DriverTo(s, pc) == driver' = [driver EXCEPT ![s] = pc]

\* _load_running_task: without a running row of this session it exits.
DriverLoads(s) ==
    /\ driver[s] = "start"
    /\ DriverTo(s, IF FindRunningRow(s) THEN "review" ELSE "end")
    /\ UNCHANGED <<row, ses, codex, tree, spawn, boot, sweep, legacy, marker, events,
                   lock, crashes>>

\* RealCodexRunner.run starts one codex child at a time.
CodexStarts(s) ==
    /\ driver[s] = "review" /\ s \notin codex
    /\ codex' = codex \cup {s}
    /\ UNCHANGED <<row, ses, driver, tree, spawn, boot, sweep, legacy, marker, events,
                   lock, crashes>>

CodexWrites(s) ==
    /\ s \in codex /\ tree = "clean"
    /\ tree' = "dirty"
    /\ UNCHANGED <<row, ses, driver, codex, spawn, boot, sweep, legacy, marker, events,
                   lock, crashes>>

CodexExits(s) ==
    /\ s \in codex
    /\ codex' = codex \ {s}
    /\ UNCHANGED <<row, ses, driver, tree, spawn, boot, sweep, legacy, marker, events,
                   lock, crashes>>

\* The review ends with a verdict or a blocker, or raises.
ReviewEnds(s) ==
    /\ driver[s] = "review" /\ s \notin codex
    /\ \E pc \in {"emit", "error"} : DriverTo(s, pc)
    /\ UNCHANGED <<row, ses, codex, tree, spawn, boot, sweep, legacy, marker, events,
                   lock, crashes>>

\* emit_result_on keeps the first result.
WithResult(x, res) ==
    [x EXCEPT !.status = "COMPLETED", !.res = IF @ = None THEN res ELSE @]

\* _complete_session_via_door under sessions_lock.
DriverEmits(s) ==
    /\ driver[s] = "emit" /\ Free
    /\ ses' = [ses EXCEPT ![s] = WithResult(@, "verdict")]
    /\ DriverTo(s, "event")
    /\ UNCHANGED <<row, codex, tree, spawn, boot, sweep, legacy, marker, events, lock,
                   crashes>>

\* SESSION_COMPLETED is recorded after the comment is posted; an error on the
\* way goes to the handler.
DriverPosts(s) ==
    /\ driver[s] = "event"
    /\ \E pc \in {"end", "error"} : DriverTo(s, pc)
    /\ UNCHANGED <<row, ses, codex, tree, spawn, boot, sweep, legacy, marker, events,
                   lock, crashes>>

\* _complete_session_as_unexpected_error: nothing on a completed session.
DriverErrs(s) ==
    /\ driver[s] = "error" /\ Free
    /\ ses' = IF ses[s].status = "COMPLETED" THEN ses
              ELSE [ses EXCEPT ![s] = WithResult(@, "error")]
    /\ DriverTo(s, "revert")
    /\ UNCHANGED <<row, codex, tree, spawn, boot, sweep, legacy, marker, events, lock,
                   crashes>>

\* The handler's _revert_claimed_task_to_pending.
DriverReverts(s) ==
    /\ driver[s] = "revert"
    /\ row' = Reverted(s)
    /\ DriverTo(s, "end")
    /\ UNCHANGED <<ses, codex, tree, spawn, boot, sweep, legacy, marker, events, lock,
                   crashes>>

\* The driver is killed; its codex child is not.
DriverDies(s) ==
    /\ driver[s] \notin {"none", "end"} /\ crashes < MaxCrashes
    /\ DriverTo(s, "end")
    /\ crashes' = crashes + 1
    /\ UNCHANGED <<row, ses, codex, tree, spawn, boot, sweep, legacy, marker, events,
                   lock>>

\* The row of a completed session: the consumer routes its result, and
\* revert_completed_silent_tasks gives back or parks a row without one.
RowOfCompleted ==
    /\ row.status = "RUNNING" /\ row.sid # None
    /\ ses[row.sid].status = "COMPLETED" /\ lock \in {None, "sweep"}
    /\ row' = IF ses[row.sid].res # None THEN ToStatus("OUT")
              ELSE ToStatus(IF tree = "clean" THEN "PENDING" ELSE "BLOCKED")
    /\ UNCHANGED <<ses, driver, codex, tree, spawn, boot, sweep, legacy, marker,
                   events, lock, crashes>>

\* The operator settles what is left in the worktree.
CleanTree ==
    /\ tree = "dirty" /\ codex = {}
    /\ tree' = "clean"
    /\ UNCHANGED <<row, ses, driver, codex, spawn, boot, sweep, legacy, marker, events,
                   lock, crashes>>

-----------------------------------------------------------------------------
(* What a recovery decides *)

\* live_writer_park: what a process scan may report; an inconclusive one counts
\* as a live writer.
WriterSeen == {TRUE} \cup {codex # {}}

\* Mutant of GateCleanRequeue: the git checks are skipped.
GateUnchecked(clean) == {"park", "requeue"}

\* _gate_clean_requeue and _evaluate_codex_clean_requeue_gate: the lane may not
\* allow a requeue or its fix loop may be on; else the git checks decide.
GateCleanRequeue(clean) == IF clean THEN {"park", "requeue"} ELSE {"park"}

\* _resolve_orphan_action.
ResolveOrphanAction(clean) ==
    UNION {IF seen THEN {"live"} ELSE GateCleanRequeue(clean) : seen \in WriterSeen}

Clean == tree = "clean"

Quiet ==
    /\ codex = {} /\ spawn.pc = "idle"
    /\ \A t \in Sessions : driver[t] \in {"none", "end"}

\* CleanProbes.capture: the answer is kept under the identity of the claim.
Capture(s) ==
    [Idle EXCEPT !.pc = "probed", !.s = s, !.sid = row.sid, !.link = row.link,
                 !.clean = Clean, !.quiet = Quiet]

-----------------------------------------------------------------------------
(* reap_orphaned_codex_sessions_at_boot *)

\* A live headless session without a liveness handle, bound to the row.
BootOrphan(s) == ses[s].status = "ACTIVE" /\ ~ses[s].handle /\ row.sid = s

BootJudges(s) ==
    /\ boot.pc = "todo" /\ BootOrphan(s)
    /\ \E a \in ResolveOrphanAction(Clean) :
          boot' = [Capture(s) EXCEPT !.pc = "close", !.act = a]
    /\ UNCHANGED <<row, ses, driver, codex, tree, spawn, sweep, legacy, marker, events,
                   lock, crashes>>

BootFindsNone ==
    /\ boot.pc = "todo" /\ \A s \in Sessions : ~BootOrphan(s)
    /\ boot' = [Idle EXCEPT !.pc = "done"]
    /\ UNCHANGED <<row, ses, driver, codex, tree, spawn, sweep, legacy, marker, events,
                   lock, crashes>>

\* stale_snapshot_reason.
StaleSnapshot(s) == ses[s].status # "ACTIVE" \/ ~FindRunningRow(s)

\* _close_or_propose_reap under both locks: left untouched, closed, or with a
\* writer alive kept open.
BootCloses ==
    /\ boot.pc = "close" /\ Free
    /\ IF StaleSnapshot(boot.s)
       THEN /\ boot' = [Idle EXCEPT !.pc = "done"]
            /\ UNCHANGED <<ses, lock>>
       ELSE /\ boot' = [boot EXCEPT !.pc = "move"]
            /\ ses' = IF boot.act = "live" THEN ses
                      ELSE [ses EXCEPT ![boot.s].status = "COMPLETED"]
            /\ lock' = "boot"
    /\ UNCHANGED <<row, driver, codex, tree, spawn, sweep, legacy, marker, events,
                   crashes>>

\* _requeue_clean_orphan or the park, under the queue lock.
BootMoves ==
    /\ boot.pc = "move"
    /\ row' = IF boot.act = "requeue" THEN Reverted(boot.s)
              ELSE Parked(boot.s, IF boot.act = "live" THEN boot.s ELSE None)
    /\ boot' = [Idle EXCEPT !.pc = "done"]
    /\ lock' = None
    /\ UNCHANGED <<ses, driver, codex, tree, spawn, sweep, legacy, marker, events,
                   crashes>>

-----------------------------------------------------------------------------
(* The reconcile pass: clean probes first, then the sweeps under the lock *)

\* _detect_local_harvest_candidates: an active session whose process is gone.
HarvestCandidate(s) ==
    ses[s].status = "ACTIVE" /\ ses[s].handle /\ driver[s] = "end"

\* _detect_live_writer_repark_candidates.
ReparkCandidate(s) == row.status = "BLOCKED" /\ row.link = s

\* CleanProbes.lookup: a probe of another claim is no probe.
Usable(p) == p.sid = row.sid /\ p.link = row.link

SweepProbes(s) ==
    /\ boot.pc = "done" /\ sweep.pc = "idle"
    /\ HarvestCandidate(s) \/ ReparkCandidate(s)
    /\ sweep' = Capture(s)
    /\ UNCHANGED <<row, ses, driver, codex, tree, spawn, boot, legacy, marker, events,
                   lock, crashes>>

\* The pass takes the lock, detects again and either defers or goes on.
SweepSkips ==
    /\ sweep.pc = "probed" /\ Free
    /\ \/ ~Usable(sweep)
       \/ ~HarvestCandidate(sweep.s) /\ ~ReparkCandidate(sweep.s)
    /\ sweep' = Idle
    /\ UNCHANGED <<row, ses, driver, codex, tree, spawn, boot, legacy, marker, events,
                   lock, crashes>>

\* _evaluate_codex_clean_requeue_gate on the captured probe.
HarvestGate == GateCleanRequeue(sweep.clean)

\* act_on_codex_harvest_candidate: audit, then the session, whatever its row is.
HarvestCloses ==
    /\ sweep.pc = "probed" /\ Free /\ Usable(sweep) /\ HarvestCandidate(sweep.s)
    /\ \E a \in HarvestGate :
          sweep' = [sweep EXCEPT !.pc = "move", !.act = a]
    /\ ses' = [ses EXCEPT ![sweep.s].status = "COMPLETED"]
    /\ lock' = "sweep"
    /\ UNCHANGED <<row, driver, codex, tree, spawn, boot, legacy, marker, events,
                   crashes>>

\* _requeue_codex_harvest_orphan or the park.
HarvestMoves ==
    /\ sweep.pc = "move"
    /\ row' = IF sweep.act = "requeue" THEN Reverted(sweep.s) ELSE Parked(sweep.s, None)
    /\ sweep' = Idle
    /\ lock' = None
    /\ UNCHANGED <<ses, driver, codex, tree, spawn, boot, legacy, marker, events,
                   crashes>>

\* run_codex_live_writer_reparks scans and decides under sessions_lock.
ReparkJudges ==
    /\ sweep.pc = "probed" /\ Free /\ Usable(sweep) /\ ReparkCandidate(sweep.s)
    /\ \E a \in ResolveOrphanAction(sweep.clean) :
          sweep' = [sweep EXCEPT !.pc = "repark", !.act = a]
    /\ lock' = "sweep"
    /\ UNCHANGED <<row, ses, driver, codex, tree, spawn, boot, legacy, marker, events,
                   crashes>>

\* _act_on_live_writer_repark_candidates: the linked row looked up again
\* (_find_linked_row), then _apply_decision.
ReparkActs ==
    /\ sweep.pc = "repark"
    /\ LET s == sweep.s
           linked == ReparkCandidate(s) IN
       /\ ses' = IF linked /\ sweep.act # "live"
                 THEN [ses EXCEPT ![s].status = "COMPLETED"] ELSE ses
       /\ row' = IF ~linked \/ sweep.act = "live" THEN row
                 ELSE IF sweep.act = "requeue" THEN ToStatus("PENDING")
                 ELSE [row EXCEPT !.link = None]
    /\ sweep' = Idle
    /\ lock' = None
    /\ UNCHANGED <<driver, codex, tree, spawn, boot, legacy, marker, events, crashes>>

-----------------------------------------------------------------------------
(* cw codex migrate-legacy *)

\* _as_candidate, _row_owned_by and _work_list: live sessions without a handle,
\* not settled by an earlier run.
LegacyCandidate(s) ==
    /\ ses[s].status = "ACTIVE" /\ ~ses[s].handle
    /\ marker[s] \in {None, "pending", "failed", "live"}

\* _recover up to _scan_for_writer: a row of another owner is recorded as
\* handled, a live writer as unresolved; else the intent is made durable
\* (_record_pending) and the probe captured.
LegacyScans(s) ==
    /\ legacy.pc = "idle" /\ LegacyCandidate(s)
    /\ \/ /\ row.sid # s
          /\ marker' = [marker EXCEPT ![s] = "handled"]
          /\ UNCHANGED legacy
       \/ /\ row.sid = s /\ TRUE \in WriterSeen
          /\ marker' = [marker EXCEPT ![s] = "live"]
          /\ UNCHANGED legacy
       \/ /\ row.sid = s /\ FALSE \in WriterSeen
          /\ marker' = [marker EXCEPT ![s] = "pending"]
          /\ legacy' = Capture(s)
    /\ UNCHANGED <<row, ses, driver, codex, tree, spawn, boot, sweep, events, lock,
                   crashes>>

\* _revalidate_and_act: the fresh session and row under both locks.
LegacyCloses ==
    /\ legacy.pc = "probed" /\ Free
    /\ LET s == legacy.s
           ok == ~StaleSnapshot(s) /\ Usable(legacy) IN
       /\ IF ok
          THEN /\ \E a \in GateCleanRequeue(legacy.clean) :
                     legacy' = [legacy EXCEPT !.pc = "move", !.act = a]
               /\ ses' = [ses EXCEPT ![s].status = "COMPLETED"]
               /\ lock' = "legacy"
               /\ events' = [events EXCEPT ![s] = 1]
               /\ UNCHANGED marker
          ELSE /\ legacy' = Idle
               /\ marker' = [marker EXCEPT ![s] =
                                IF StaleSnapshot(s) THEN "handled" ELSE "failed"]
               /\ UNCHANGED <<ses, lock, events>>
    /\ UNCHANGED <<row, driver, codex, tree, spawn, boot, sweep, crashes>>

\* The move of the row with its event; a row that moved first is a lost
\* transition.
LegacyMoves ==
    /\ legacy.pc = "move"
    /\ LET s == legacy.s
           won == FindRunningRow(s) IN
       /\ row' = IF legacy.act = "requeue" THEN Reverted(s) ELSE Parked(s, None)
       /\ legacy' = [legacy EXCEPT !.pc = "mark",
                        !.act = IF ~won THEN "handled"
                                ELSE IF @ = "requeue" THEN "requeued" ELSE "parked"]
       /\ events' = IF won THEN [events EXCEPT ![s] = 2] ELSE events
    /\ lock' = None
    /\ UNCHANGED <<ses, driver, codex, tree, spawn, boot, sweep, marker, crashes>>

\* Mutant of MarkPending: the intent is taken for the outcome.
MarkIntent(s) == "requeued"

\* _reconcile_pending on the next run: what the intent became, if the events
\* confirm it.
MarkPending(s) ==
    IF ses[s].status = "COMPLETED" /\ row.sid = None
       /\ row.status \in {"PENDING", "BLOCKED"} /\ events[s] = 2
    THEN IF row.status = "PENDING" THEN "requeued" ELSE "parked"
    ELSE "failed"

\* _record_outcome.
LegacyMarks ==
    /\ legacy.pc = "mark"
    /\ marker' = [marker EXCEPT ![legacy.s] = legacy.act]
    /\ legacy' = Idle
    /\ UNCHANGED <<row, ses, driver, codex, tree, spawn, boot, sweep, events, lock,
                   crashes>>

\* A later run of the command settles the intents an earlier one left.
LegacyReconciles(s) ==
    /\ legacy.pc = "idle" /\ marker[s] = "pending"
    /\ ~(LegacyCandidate(s) /\ row.sid = s)
    /\ marker' = [marker EXCEPT ![s] = MarkPending(s)]
    /\ UNCHANGED <<row, ses, driver, codex, tree, spawn, boot, sweep, legacy, events,
                   lock, crashes>>

-----------------------------------------------------------------------------
(* Crashes *)

\* The dispatcher dies with its spawn, boot pass and sweep, and starts again
\* with a boot pass.
DispatcherRestarts ==
    /\ crashes < MaxCrashes
    /\ crashes' = crashes + 1
    /\ spawn' = [pc |-> "idle", s |-> None]
    /\ boot' = [Idle EXCEPT !.pc = "todo"]
    /\ sweep' = Idle
    /\ lock' = IF lock = "legacy" THEN lock ELSE None
    /\ UNCHANGED <<row, ses, driver, codex, tree, legacy, marker, events>>

LegacyDies ==
    /\ legacy.pc # "idle" /\ crashes < MaxCrashes
    /\ crashes' = crashes + 1
    /\ legacy' = Idle
    /\ lock' = IF lock = "legacy" THEN None ELSE lock
    /\ UNCHANGED <<row, ses, driver, codex, tree, spawn, boot, sweep, marker, events>>

-----------------------------------------------------------------------------
DriverNext(s) ==
    \/ DriverLoads(s) \/ CodexStarts(s) \/ CodexWrites(s) \/ CodexExits(s)
    \/ ReviewEnds(s) \/ DriverEmits(s) \/ DriverPosts(s) \/ DriverErrs(s)
    \/ DriverReverts(s) \/ DriverDies(s)

SweepNext ==
    \/ \E s \in Sessions : SweepProbes(s)
    \/ SweepSkips \/ HarvestCloses \/ HarvestMoves \/ ReparkJudges \/ ReparkActs

Next ==
    \/ OperatorMovesRow \/ CleanTree \/ RowOfCompleted
    \/ Launch \/ LaunchFails \/ StoreHandle
    \/ BootFindsNone \/ BootCloses \/ BootMoves
    \/ SweepNext
    \/ LegacyCloses \/ LegacyMoves \/ LegacyMarks
    \/ DispatcherRestarts \/ LegacyDies
    \/ \E s \in Sessions :
          \/ Spawn(s) \/ (s \in Runs /\ DriverNext(s)) \/ BootJudges(s)
          \/ LegacyScans(s) \/ LegacyReconciles(s)

Spec == Init /\ [][Next]_vars

-----------------------------------------------------------------------------
(* Properties *)

\* A recovery moves the row: the step that gives sessions_lock back.
RecoveryMoves == lock # None /\ lock' = None /\ row' # row

\* The claim a running row holds ends by the operator, by its driver, after its
\* session is over, or by the recovery of that very session: a recovery that
\* judged an older session leaves the new claim alone (expected_session_id).
ClaimEndsByOwner ==
    (row.status = "RUNNING" /\ row' # row) =>
        \/ OperatorMovesRow
        \/ ses[row.sid].status = "COMPLETED"
        \/ driver[row.sid] = "revert" \/ spawn.s = row.sid
        \/ boot.pc = "move" /\ boot.s = row.sid

ClaimKept == [][ClaimEndsByOwner]_vars

\* A row that a recovery gives back to the queue carries no partial work, if
\* nothing ran in the worktree when the recovery looked: no later claim's work
\* comes between the look and the move.
RequeueStep ==
    (RecoveryMoves /\ row'.status = "PENDING"
       /\ \E p \in {boot, sweep, legacy} : p.pc \in {"move", "repark"} /\ p.quiet)
    => tree = "clean"

RequeuedClean == [][RequeueStep]_vars

\* The marker names an outcome only for a session that is over and whose move
\* was recorded: a crash between the intent and the act leaves neither claimed.
MarkerTruthful ==
    \A s \in Sessions :
        marker[s] \in {"requeued", "parked"} =>
            ses[s].status = "COMPLETED" /\ events[s] = 2
=============================================================================
