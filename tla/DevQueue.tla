------------------------------ MODULE DevQueue ------------------------------
(***************************************************************************)
(* The dev queue: the rows of dev-queue.json and everything that rewrites  *)
(* them -- operator commands, the dispatch loop with its one spawn in      *)
(* flight, the Stop hook's results and the reconcile sweeps.               *)
(*                                                                         *)
(* Each action is one critical section under dev_queue_lock: the store is  *)
(* loaded, rewritten and saved before the lock is released.  What happens  *)
(* outside the lock (git, GitHub, the worker roster) is left open.         *)
(***************************************************************************)
EXTENDS TicketRow, FiniteSets

CONSTANTS MaxRows,             \* bound on the rows ever added
          EntryStages,         \* the stages tickets are added at
          ShipGates,           \* the <<hold, signoff>> settings tickets are given
          Results,             \* the results workers report
          ReapPolicies,        \* reap_policy is AUTO: the values lanes are given
          CancelledRowRestore  \* concierge_recoveries.cancelled_row_restore

ASSUME RowsAssumption == MaxRows \in Nat
ASSUME ConfigAssumption ==
    /\ EntryStages \subseteq Stage
    /\ ShipGates \subseteq BOOLEAN \X BOOLEAN
    /\ Results \subseteq Result
    /\ ReapPolicies \subseteq BOOLEAN
    /\ CancelledRowRestore \in BOOLEAN

VARIABLES rows,      \* slot -> row; slots are given out in created_at order
          added,     \* slots given out so far
          spawn,     \* the claim the dispatch loop is turning into a worker
          launched   \* slot -> attempt of the last worker launched for it, 0 for none

vars == <<rows, added, spawn, launched>>

Slots == 1 .. MaxRows

(* attempt and bypass are taken from the copy of the row made at the claim. *)
NoSpawn == [slot |-> 0, phase |-> "idle", attempt |-> 0, bypass |-> FALSE]
Spawn == [slot: 0 .. MaxRows, phase: {"idle", "claimed", "prepared", "launched"},
          attempt: Nat, bypass: BOOLEAN]

TypeOK ==
    /\ rows \in [Slots -> Row]
    /\ added \in 0 .. MaxRows
    /\ spawn \in Spawn
    /\ launched \in [Slots -> Nat]

Init ==
    /\ \E c \in Clients, t \in Tickets :
          rows = [i \in Slots |-> NewRow(c, t, "absent", PLAN, "none", FALSE, FALSE)]
    /\ added = 0
    /\ spawn = NoSpawn
    /\ launched = [i \in Slots |-> 0]

-----------------------------------------------------------------------------
(* Lookups and updates *)

Present(i) == rows[i].status # "absent"

RowsOf(c, t) == {i \in Slots : Present(i) /\ rows[i].client = c /\ rows[i].ticket = t}

Newest(S) == CHOOSE i \in S : \A j \in S : j <= i

(* _find_ticket: the newest live row, else the newest parked one, else the *)
(* newest.  Only defined when the ticket has a row.                        *)
FindTicket(c, t) ==
    LET live == {i \in RowsOf(c, t) : rows[i].status \in {"pending", "running"}}
        parked == {i \in RowsOf(c, t) : rows[i].status \in Parked}
    IN Newest(IF live # {} THEN live ELSE IF parked # {} THEN parked ELSE RowsOf(c, t))

SetRow(i, r) ==
    /\ rows' = [rows EXCEPT ![i] = r]
    /\ UNCHANGED <<added, spawn, launched>>

(* Rewrite every row of S with Op. *)
SetRows(S, Op(_)) ==
    /\ S # {}
    /\ rows' = [i \in Slots |-> IF i \in S THEN Op(rows[i]) ELSE rows[i]]
    /\ UNCHANGED <<added, spawn, launched>>

-----------------------------------------------------------------------------
(* Operator commands: cw.dev_queue.crud *)

(* Mutant of MayAdd: parked rows are forgotten. *)
MayAddBesideParked(c, t, stage) ==
    \A i \in RowsOf(c, t) :
       /\ rows[i].status \notin {"pending", "running"}
       /\ rows[i].status \in {"completed", "cancelled"} => rows[i].stage # stage

(* add_ticket's dedup: an open row of the ticket refuses the add, and so   *)
(* does a completed or cancelled one at the same stage.                    *)
MayAdd(c, t, stage) ==
    \A i \in RowsOf(c, t) :
       /\ rows[i].status \notin Open
       /\ rows[i].status \in {"completed", "cancelled"} => rows[i].stage # stage

AddRow(r) ==
    /\ added < MaxRows
    /\ added' = added + 1
    /\ rows' = [rows EXCEPT ![added + 1] = r]
    /\ UNCHANGED <<spawn, launched>>

AddTicket(c, t, stage, hold, signoff) ==
    /\ MayAdd(c, t, stage)
    /\ AddRow(NewRow(c, t, "pending", stage, "none", hold, signoff))

(* An adopted pull request enters at REVIEW, or at IMPL with feedback, and *)
(* only for a ticket that has no row at all; it may start out parked.      *)
AddAdopted(c, t, stage, status, hold, signoff) ==
    /\ RowsOf(c, t) = {}
    /\ AddRow(NewRow(c, t, status, stage,
                     IF status = "blocked" THEN "held" ELSE "none", hold, signoff))

(* remove_ticket with its optional --status and --disposition filters; more *)
(* than one match needs --all.                                             *)
RemoveTicket(c, t, status, disp) ==
    SetRows({i \in RowsOf(c, t) : status \in {"any", rows[i].status}
                                  /\ disp \in {"any", rows[i].disposition}},
            Deleted)

CancelRow(r) == Unbind(Transition(r, "cancelled", "none", TRUE))

CancelTicket(c, t) ==
    SetRows({i \in RowsOf(c, t) : rows[i].status # "cancelled"}, CancelRow)

(* cw spawn close: the row a worker session runs. *)
CancelTaskForSession(i) ==
    /\ rows[i].status = "running" /\ rows[i].session # "none"
    /\ SetRow(i, CancelRow(rows[i]))

ClearTickets(c, status) ==
    SetRows({i \in Slots : /\ Present(i) /\ rows[i].client = c
                           /\ IF status = "any" THEN rows[i].status \notin Occupied
                              ELSE rows[i].status = status},
            Deleted)

(* prune_tickets never deletes an occupied row, and a pending one only     *)
(* when it prunes a single client.                                         *)
PruneTickets(S) ==
    /\ \A i \in S : Present(i) /\ rows[i].status \notin Occupied
    /\ \A i, j \in S : rows[i].status = "pending" => rows[i].client = rows[j].client
    /\ SetRows(S, Deleted)

-----------------------------------------------------------------------------
(* Operator commands: cw.dev_queue.requeue and cw.dev_queue.approval *)

ResetAttempts(r, reset) == [r EXCEPT !.unproductive = IF reset THEN 0 ELSE @]

(* requeue_ticket onto an earlier stage (--regress, or inferred). *)
RequeueRegress(c, t, target, reset) ==
    /\ RowsOf(c, t) # {}
    /\ LET i == FindTicket(c, t) IN
       /\ rows[i].status \in Parked
       /\ target < rows[i].stage
       /\ rows[i].regress < MaxRegress
       /\ SetRow(i, StageRegress(ResetAttempts(rows[i], reset), target))

RequeueReset(r) == [ResetForSameStageRequeue(r) EXCEPT !.regress = 0, !.replan = FALSE]

(* requeue_ticket onto the same or a later stage; target 0 is no --stage.  *)
(* A terminal row needs its --from flag.  A jump from PLAN to IMPL needs   *)
(* an approved plan, which is outside the model.                           *)
RequeueForward(c, t, target, reset) ==
    /\ RowsOf(c, t) # {}
    /\ LET i == FindTicket(c, t)
           r == ResetAttempts(rows[i], reset)
           q == IF target = 0 THEN r ELSE AdvanceStage(r, target)
       IN /\ rows[i].status \notin {"pending", "running"}
          /\ target = 0 \/ target >= rows[i].stage
          /\ SetRow(i, RequeueReset(q))

(* unblock_ticket.  The session id it checks was read before the locks; a  *)
(* worker of the ticket must have existed.  Under dev_queue_lock the row is *)
(* found again and only its status is looked at.                           *)
UnblockTicket(c, t) ==
    /\ RowsOf(c, t) # {}
    /\ LET i == FindTicket(c, t) IN
       /\ rows[i].status = "blocked"
       /\ \E j \in Slots : Key(rows[j]) = <<c, t>> /\ launched[j] > 0
       /\ SetRow(i, ToPending(rows[i], TRUE))

ApproveTicket(c, t, reviewed) ==
    /\ RowsOf(c, t) # {}
    /\ LET i == FindTicket(c, t) IN
       \E r \in ApproveTicketLocked(rows[i], TRUE, reviewed) : SetRow(i, r)

RevokePlanApproval(c, t) ==
    /\ RowsOf(c, t) # {}
    /\ LET i == FindTicket(c, t) IN
       /\ rows[i].plan_ok
       /\ SetRow(i, [rows[i] EXCEPT !.plan_ok = FALSE])

-----------------------------------------------------------------------------
(* cw doctor --reap on one ticket id, for the clients in scope.  Each of   *)
(* the three repairs runs only if its finding was made beforehand.         *)

Collapsible(r) ==
    r.status = "blocked" /\ r.disposition \notin {"held", "finalize_held", "terminal_sibling"}

TerminalSiblingPark(r) ==
    /\ r.status = "blocked" /\ r.disposition = "terminal_sibling"
    /\ r.session = "none" /\ r.attempts = 0

DoctorReap(t, scope, running, blocked, sibling) ==
    LET covered == {i \in Slots : Present(i) /\ rows[i].ticket = t /\ rows[i].client \in scope}
        stuck == {i \in covered : running /\ rows[i].status = "running"}
        dead == {i \in covered : blocked /\ Collapsible(rows[i])}
        twins == {i \in covered : sibling /\ TerminalSiblingPark(rows[i])}
    IN /\ stuck \cup dead \cup twins # {}
       /\ rows' = [i \in Slots |->
                     IF i \in stuck THEN ToPending(rows[i], TRUE)
                     ELSE IF i \in dead /\ \A j \in dead : i <= j
                          THEN ToPending(rows[i], TRUE)
                     ELSE IF i \in dead \cup twins
                          THEN Transition(rows[i], "cancelled", "none", TRUE)
                     ELSE rows[i]]
       /\ UNCHANGED <<added, spawn, launched>>

-----------------------------------------------------------------------------
(* The dispatch loop: cw.dispatch.claim.  It is single-threaded, so at     *)
(* most one claim is on its way to a worker.                               *)

(* _screen_and_claim: a pre-dispatch gate parks the row (an open pull      *)
(* request or a missing tracker plugin at PLAN and IMPL, a moved adopted   *)
(* head at any stage) ...                                                  *)
ScreenPark(i, disp) ==
    /\ spawn = NoSpawn
    /\ rows[i].status = "pending"
    /\ disp = "other" => rows[i].stage \in {PLAN, IMPL}
    /\ SetRow(i, Park(rows[i], disp, FALSE))

(* ... the attempt ceiling parks it ... *)
AttemptCapPark(i) ==
    /\ spawn = NoSpawn
    /\ rows[i].status = "pending" /\ rows[i].unproductive >= Ceiling
    /\ SetRow(i, Park(rows[i], "held", TRUE))

(* Mutants of Claim: the ceiling is off by one; the re-plan marker is not  *)
(* looked at.                                                              *)
ClaimAtCeiling(i) ==
    /\ spawn = NoSpawn
    /\ rows[i].status = "pending" /\ rows[i].unproductive <= Ceiling
    /\ rows[i].attempts < MaxAttempts
    /\ rows' = [rows EXCEPT ![i] =
                  [Transition(rows[i], "running", "none", TRUE) EXCEPT !.attempts = @ + 1]]
    /\ spawn' = [slot |-> i, phase |-> "claimed", attempt |-> rows[i].attempts + 1,
                 bypass |-> rows[i].stage = PLAN /\ ~rows[i].replan]
    /\ UNCHANGED <<added, launched>>

ClaimIgnoringReplan(i) ==
    /\ spawn = NoSpawn
    /\ rows[i].status = "pending" /\ rows[i].unproductive < Ceiling
    /\ rows[i].attempts < MaxAttempts
    /\ rows' = [rows EXCEPT ![i] =
                  [Transition(rows[i], "running", "none", TRUE) EXCEPT !.attempts = @ + 1]]
    /\ spawn' = [slot |-> i, phase |-> "claimed", attempt |-> rows[i].attempts + 1,
                 bypass |-> rows[i].stage = PLAN]
    /\ UNCHANGED <<added, launched>>

(* ... or it is claimed.  The claim keeps whatever session_id the row had. *)
Claim(i) ==
    /\ spawn = NoSpawn
    /\ rows[i].status = "pending" /\ rows[i].unproductive < Ceiling
    /\ rows[i].attempts < MaxAttempts
    /\ rows' = [rows EXCEPT ![i] =
                  [Transition(rows[i], "running", "none", TRUE) EXCEPT !.attempts = @ + 1]]
    /\ spawn' = [slot |-> i, phase |-> "claimed", attempt |-> rows[i].attempts + 1,
                 bypass |-> rows[i].stage = PLAN /\ ~rows[i].replan]
    /\ UNCHANGED <<added, launched>>

(* _find_running_row by created_at: the claimed row, if it still runs. *)
ClaimedRowRuns == rows[spawn.slot].status = "running"

(* Mutant of PrepareSpawn: the row is lifted even if it no longer runs. *)
PrepareSpawnUnchecked(bypass) ==
    /\ spawn.phase = "claimed"
    /\ bypass => spawn.bypass
    /\ rows' = IF bypass THEN [rows EXCEPT ![spawn.slot] = AdvanceStage(@, IMPL)] ELSE rows
    /\ spawn' = [spawn EXCEPT !.phase = "prepared"]
    /\ UNCHANGED <<added, launched>>

(* The worktree exists; a signed-off plan on disk lifts the row to IMPL.   *)
(* Whether to try was decided on the copy taken at the claim.              *)
PrepareSpawn(bypass) ==
    /\ spawn.phase = "claimed"
    /\ bypass => spawn.bypass
    /\ rows' = IF bypass /\ ClaimedRowRuns
               THEN [rows EXCEPT ![spawn.slot] = AdvanceStage(@, IMPL)] ELSE rows
    /\ spawn' = [spawn EXCEPT !.phase = "prepared"]
    /\ UNCHANGED <<added, launched>>

(* The codex pre-flight stamps the session of a review on its row before   *)
(* the worker exists, and nothing else.                                    *)
StampCodexSession ==
    /\ spawn.phase = "prepared"
    /\ ClaimedRowRuns /\ rows[spawn.slot].stage = REVIEW
    /\ SetRow(spawn.slot, [rows[spawn.slot] EXCEPT !.session = "bound"])

LaunchWorker ==
    /\ spawn.phase = "prepared"
    /\ spawn' = [spawn EXCEPT !.phase = "launched"]
    /\ launched' = [launched EXCEPT ![spawn.slot] = spawn.attempt]
    /\ UNCHANGED <<rows, added>>

(* _apply_spawn_success_fields *)
SpawnSuccess(r) == [r EXCEPT !.session = "bound", !.spawned = TRUE, !.replan = FALSE]

StampSpawnSuccess ==
    /\ spawn.phase = "launched"
    /\ rows' = IF ClaimedRowRuns
               THEN [rows EXCEPT ![spawn.slot] = SpawnSuccess(@)] ELSE rows
    /\ spawn' = NoSpawn
    /\ UNCHANGED <<added, launched>>

(* A failure after the launch whose stamp fails too, or the loop dying at  *)
(* any point: the row stays as it is.                                      *)
SpawnLost ==
    /\ spawn # NoSpawn
    /\ spawn' = NoSpawn
    /\ UNCHANGED <<rows, added, launched>>

(* _revert_claimed_task_to_pending; a deferred claim gives its attempt back. *)
RevertClaimed(r, how) ==
    LET q == ToPending(r, how = "charged")
    IN IF how = "deferred" /\ q.attempts > 0 THEN [q EXCEPT !.attempts = @ - 1] ELSE q

(* Mutant of SpawnFails: the row is reverted even if it no longer runs. *)
SpawnFailsUnchecked(how) ==
    /\ spawn.phase \in {"claimed", "prepared"}
    /\ how \in Disposition => spawn.phase = "claimed"
    /\ rows' = [rows EXCEPT ![spawn.slot] =
                  IF how \in Disposition THEN Unbind(Park(@, how, FALSE))
                  ELSE RevertClaimed(@, how)]
    /\ spawn' = NoSpawn
    /\ UNCHANGED <<added, launched>>

(* The spawn fails before a worker exists.  Only the checks that run       *)
(* before the worktree is ready park the row: a dirty stale worktree       *)
(* ("held") and the codex capability gate ("other").                       *)
SpawnFails(how) ==
    /\ spawn.phase \in {"claimed", "prepared"}
    /\ how \in Disposition => spawn.phase = "claimed"
    /\ rows' = IF ~ClaimedRowRuns THEN rows
               ELSE [rows EXCEPT ![spawn.slot] =
                       IF how \in Disposition THEN Unbind(Park(@, how, FALSE))
                       ELSE RevertClaimed(@, how)]
    /\ spawn' = NoSpawn
    /\ UNCHANGED <<added, launched>>

-----------------------------------------------------------------------------
(* Results: cw.reconcile._shared._routing.  A result finds its row by      *)
(* ticket and session, so it needs a bound row.                            *)

HasSession(i) == rows[i].session # "none"

(* _apply_sentinel_to_task, on a running row or as the rescue of a parked  *)
(* one.  The session record is saved after the queue; ~saved is a crash in *)
(* between, after which the session's last result is still the old one.    *)
ApplySentinel(i, res, saved) ==
    /\ HasSession(i) /\ rows[i].status \in Occupied
    /\ \E r \in RouteStagedDecision(rows[i], res) :
          SetRow(i, IF r.session = "none" \/ ~saved THEN r
                    ELSE [r EXCEPT !.session =
                             IF res.kind = "approval" THEN "asking" ELSE "bound"])

(* _route_blocked_result_to_task: the result did not parse.  "final" lands *)
(* FAILED, "transient" is retried, "capped" is retried below the cap.      *)
BlockedResult(i, how) ==
    /\ HasSession(i) /\ rows[i].status = "running"
    /\ SetRow(i, IF \/ how = "final"
                    \/ how = "capped" /\ rows[i].attempts >= VALIDATION_FAILED_MAX_ATTEMPTS
                 THEN Transition(rows[i], "failed", "other", TRUE)
                 ELSE ToPending(rows[i], TRUE))

(* _route_stopped_without_sentinel, and the park of a row whose session    *)
(* record is lost (lost_session_rows): uncharged, the session id stays.    *)
ParkWithSession(i) ==
    /\ HasSession(i) /\ rows[i].status = "running"
    /\ SetRow(i, Park(rows[i], "other", FALSE))

(* usage_limit_mid_turn: the act ends in a requeue (AUTO) or a park. *)
UsageLimitMidTurn(i, auto) ==
    /\ HasSession(i) /\ rows[i].status = "running"
    /\ SetRow(i, IF auto THEN ToPending(rows[i], FALSE) ELSE Park(rows[i], "other", FALSE))

-----------------------------------------------------------------------------
(* Reconcile sweeps over the rows *)

(* _revert_running_tasks_for_sessions: the sessions of the rows S ended    *)
(* without a result, the rows of D behind a dirty worktree ("held") or a   *)
(* failed codex harvest ("other").                                         *)
RevertForSessions(S, D, disp) ==
    /\ S # {}
    /\ \A i \in S : HasSession(i) /\ rows[i].status = "running"
    /\ rows' = [i \in Slots |->
                  IF i \in S /\ i \in D THEN Unbind(Park(rows[i], disp, TRUE))
                  ELSE IF i \in S THEN ToPending(rows[i], TRUE) ELSE rows[i]]
    /\ UNCHANGED <<added, spawn, launched>>

(* codex_boot, reconcile.local and codex_background: a codex session       *)
(* without its process is requeued, or parked without its session.         *)
ReapCodexOrphan(i, requeue) ==
    /\ HasSession(i) /\ rows[i].status = "running"
    /\ SetRow(i, IF requeue THEN ToPending(rows[i], TRUE)
                 ELSE Unbind(Park(rows[i], "other", TRUE)))

(* What the sweep of a dead worker does to a row, by what it found. *)
SweptRow(r, found) ==
    CASE found = "crashed" -> ToPending(r, TRUE)
      [] found = "dirty" -> Unbind(Park(r, "held", TRUE))
      [] found = "merged" ->
            Unbind(StampSalvageStage(Transition(r, "completed", "shipped", FALSE)))
      [] found = "gh_blocked" -> Unbind(Park(r, "other", TRUE))
      [] found = "signal_only" -> Park(r, "other", TRUE)
      [] found = "hold" -> Park(r, "held", TRUE)
      [] found = "hold_productive" -> Park(r, "held", FALSE)
      [] OTHER -> Transition(r, "completed", "other", found = "done")

Findings == {"crashed", "dirty", "merged", "gh_blocked", "signal_only",
             "hold", "hold_productive", "done", "done_productive"}

(* A worker launched for slot i is found dead (phantom) or stalled with a  *)
(* result of its own.  The sweep rewrites every running row that carries   *)
(* the ticket id, whatever its client.                                     *)
SweepDeadWorker(i, found) ==
    /\ launched[i] > 0
    /\ SetRows({j \in Slots : rows[j].status = "running" /\ rows[j].ticket = rows[i].ticket},
               LAMBDA r : SweptRow(r, found))

(* Mutant of AdoptUnowned: only rows that had a worker before. *)
AdoptOnlySpawned(i) ==
    /\ rows[i].status = "running" /\ ~HasSession(i) /\ rows[i].spawned
    /\ launched[i] = rows[i].attempts
    /\ \A j \in Slots \ {i} : rows[j].status = "running" => Key(rows[j]) # Key(rows[i])
    /\ SetRow(i, SpawnSuccess(rows[i]))

(* unowned_running: a running row without a session is given the worker    *)
(* launched for this very attempt.                                         *)
AdoptUnowned(i) ==
    /\ rows[i].status = "running" /\ ~HasSession(i)
    /\ launched[i] = rows[i].attempts
    /\ \A j \in Slots \ {i} : rows[j].status = "running" => Key(rows[j]) # Key(rows[i])
    /\ SetRow(i, SpawnSuccess(rows[i]))

(* complete_timed_out_merged_tasks: the first pending row of a ticket one  *)
(* of whose timed-out workers got its pull request merged, unless no       *)
(* worker was ever attached to that row.                                   *)
CompleteTimedOutMerged(i) ==
    /\ rows[i].status = "pending" /\ rows[i].spawned
    /\ \A j \in RowsOf(rows[i].client, rows[i].ticket) : rows[j].status = "pending" => i <= j
    /\ SetRow(i, StampSalvageStage(Transition(rows[i], "completed", "shipped", TRUE)))

(* park_terminal_sibling_tasks: a pending row no older than the newest     *)
(* completed or cancelled row of its ticket, at whatever stage.            *)
TerminalSibling(i) ==
    /\ rows[i].status = "pending"
    /\ \E j \in Slots : j <= i /\ Key(rows[j]) = Key(rows[i])
                        /\ rows[j].status \in {"completed", "cancelled"}
    /\ \A j \in Slots : (Key(rows[j]) = Key(rows[i])
                         /\ rows[j].status \in {"completed", "cancelled"}) => j <= i

ParkTerminalSiblings(auto) ==
    SetRows({i \in Slots : TerminalSibling(i)},
            LAMBDA r : IF auto[r.client] THEN CancelRow(r)
                       ELSE Unbind(Park(r, "terminal_sibling", TRUE)))

(* release_stale_gated_tasks under the AUTO policy: the rows of S whose    *)
(* own pull request merged, or whose earlier one merged or closed.  Under  *)
(* SIGNAL_ONLY it only stamps a timestamp.                                 *)
ReleaseStaleGates(S) ==
    /\ TRUE \in ReapPolicies
    /\ \A i \in S : rows[i].status = "blocked" /\ rows[i].disposition \in {"merge", "pr_open"}
    /\ SetRows(S, LAMBDA r : IF r.disposition = "merge"
                             THEN Unbind(Transition(r, "completed", "shipped", TRUE))
                             ELSE ToPending(r, TRUE))

(* gate_recipes: approval of a blocked row without an operator. *)
GateRecipeApprove(i, reviewed) ==
    /\ rows[i].status = "blocked"
    /\ \E r \in ApproveTicketLocked(rows[i], FALSE, reviewed) : SetRow(i, r)

(* park_marker_poison: slot i is parked behind a dead session with a park  *)
(* marker.  Every blocked row that carries the ticket id is rewritten: the *)
(* first by what the session left behind, the later ones the same way or,  *)
(* once the session has been closed for the first, with a requeue.         *)
PoisonOutcomes == {"requeue", "held", "other", "done"}

PoisonCleared(r, how) ==
    CASE how = "requeue" -> ToPending(r, TRUE)
      [] how = "done" -> Transition(r, "completed", "other", TRUE)
      [] OTHER -> Park(r, how, TRUE)

ClearPoisonMarker(i, how, again) ==
    LET hit == {j \in Slots : rows[j].status = "blocked" /\ rows[j].ticket = rows[i].ticket}
    IN /\ i \in hit /\ rows[i].unproductive < Ceiling
       /\ \E j \in Slots : Key(rows[j]) = Key(rows[i]) /\ launched[j] > 0
       /\ rows' = [j \in Slots |->
                     IF j \notin hit THEN rows[j]
                     ELSE PoisonCleared(rows[j], IF again \/ \A k \in hit : j <= k
                                                 THEN how ELSE "requeue")]
       /\ UNCHANGED <<added, spawn, launched>>

(* fix_dispatch: the review round that handed its findings to a fix agent  *)
(* is over.  Uncharged, and the row keeps the review session's id.         *)
FixDispatchHandBack(i) ==
    /\ HasSession(i) /\ rows[i].status = "running"
    /\ SetRow(i, Transition(rows[i], "pending", "none", FALSE))

(* codex_reparks: a row parked behind a live codex writer that has gone. *)
CodexRepark(i) ==
    /\ rows[i].status = "blocked" /\ ~HasSession(i) /\ rows[i].disposition = "other"
    /\ SetRow(i, Transition(rows[i], "pending", "none", TRUE))

(* The concierge's cancelled-row recipe: every cancelled row that carries  *)
(* the ticket id of a cancelled row with committed work.                   *)
RestoreCancelledRows(t) ==
    /\ CancelledRowRestore
    /\ SetRows({i \in Slots : rows[i].status = "cancelled" /\ rows[i].ticket = t},
               LAMBDA r : Transition(r, "pending", "none", TRUE))

-----------------------------------------------------------------------------
OperatorNext ==
    \/ \E c \in Clients, t \in Tickets :
          \/ \E s \in EntryStages, g \in ShipGates : AddTicket(c, t, s, g[1], g[2])
          \/ \E s \in EntryStages \cap {IMPL, REVIEW}, st \in {"pending", "blocked"}, g \in ShipGates :
                AddAdopted(c, t, s, st, g[1], g[2])
          \/ \E i \in RowsOf(c, t) :
                \E st \in {"any", rows[i].status}, d \in {"any", rows[i].disposition} :
                   RemoveTicket(c, t, st, d)
          \/ CancelTicket(c, t)
          \/ \E s \in Stage, reset \in BOOLEAN : RequeueRegress(c, t, s, reset)
          \/ \E s \in Stage \cup {0}, reset \in BOOLEAN : RequeueForward(c, t, s, reset)
          \/ UnblockTicket(c, t)
          \/ \E reviewed \in BOOLEAN : ApproveTicket(c, t, reviewed)
          \/ RevokePlanApproval(c, t)
    \/ \E i \in Slots : CancelTaskForSession(i)
    \/ \E c \in Clients, st \in Status \cup {"any"} : ClearTickets(c, st)
    \/ \E S \in SUBSET Slots : PruneTickets(S)
    \/ \E t \in Tickets, scope \in {Clients} \cup {{c} : c \in Clients},
          running, blocked, sibling \in BOOLEAN :
          DoctorReap(t, scope, running, blocked, sibling)

SpawnNext ==
    \/ \E i \in Slots : Claim(i)
    \/ \E bypass \in BOOLEAN : PrepareSpawn(bypass)
    \/ StampCodexSession
    \/ LaunchWorker
    \/ StampSpawnSuccess
    \/ SpawnLost
    \/ \E how \in {"charged", "uncharged", "deferred", "held", "other"} : SpawnFails(how)

RowNext(i) ==
    \/ \E disp \in {"held", "other"} : ScreenPark(i, disp)
    \/ AttemptCapPark(i)
    \/ \E res \in Results, saved \in BOOLEAN : ApplySentinel(i, res, saved)
    \/ \E how \in {"final", "capped", "transient"} : BlockedResult(i, how)
    \/ ParkWithSession(i)
    \/ \E auto \in ReapPolicies : UsageLimitMidTurn(i, auto)
    \/ \E requeue \in BOOLEAN : ReapCodexOrphan(i, requeue)
    \/ \E how \in PoisonOutcomes, again \in BOOLEAN : ClearPoisonMarker(i, how, again)
    \/ FixDispatchHandBack(i)
    \/ \E found \in Findings : SweepDeadWorker(i, found)
    \/ AdoptUnowned(i)
    \/ CompleteTimedOutMerged(i)
    \/ \E reviewed \in BOOLEAN : GateRecipeApprove(i, reviewed)
    \/ CodexRepark(i)

DaemonNext ==
    \/ SpawnNext
    \/ \E i \in Slots : RowNext(i)
    \/ \E S \in SUBSET Slots, disp \in {"held", "other"} :
          \E D \in SUBSET S : RevertForSessions(S, D, disp)
    \/ \E auto \in [Clients -> ReapPolicies] : ParkTerminalSiblings(auto)
    \/ \E S \in SUBSET Slots : ReleaseStaleGates(S)
    \/ \E t \in Tickets : RestoreCancelledRows(t)

Next == OperatorNext \/ DaemonNext

Spec == Init /\ [][Next]_vars

-----------------------------------------------------------------------------
(* Properties *)

(* The dedup of add_ticket, _find_ticket's choice of a row and the sweeps  *)
(* that rewrite every row of a ticket together keep a ticket of a client   *)
(* in at most one open row.                                                *)
AtMostOneOpenRow ==
    \A i, j \in Slots :
       (rows[i].status \in Open /\ rows[j].status \in Open /\ Key(rows[i]) = Key(rows[j]))
       => i = j

(* However claims end -- result, crash, timeout, revert, cancel -- the     *)
(* unproductive ones never exceed the attempt ceiling, and a row that runs *)
(* is still below it.                                                      *)
UnproductiveBounded ==
    \A i \in Slots : /\ rows[i].unproductive <= Ceiling
                     /\ rows[i].status = "running" => rows[i].unproductive < Ceiling

(* A row sent back to be planned again keeps nothing of the earlier plan   *)
(* until its new worker is bound: it stays at PLAN, without an approval    *)
(* and without the session that produced the old plan.                     *)
ReplanClean ==
    \A i \in Slots : (rows[i].replan /\ rows[i].status \in Open) =>
       rows[i].stage = PLAN /\ ~rows[i].plan_ok /\ rows[i].session = "none"

(* stage_high_water is never lowered while the row exists, and every       *)
(* forward move of a row that stays or becomes open is recorded in it,     *)
(* several stages at once included.                                        *)
HighWaterFollows ==
    [][\A i \in Slots : (Present(i) /\ rows'[i].status # "absent") =>
         /\ rows[i].high_water <= rows'[i].high_water
         /\ (rows[i].stage < rows'[i].stage /\ rows'[i].status \in Open)
            => rows'[i].stage <= rows'[i].high_water]_vars

(* An approval of a review never outlives the work it approved: a row that *)
(* is back at an earlier stage does not carry one.                         *)
ReviewApprovalStage ==
    \A i \in Slots : (rows[i].review_ok /\ rows[i].status \in Open) =>
       rows[i].stage \in {REVIEW, FINALIZE}

(* No step of the daemon -- routing of a result at any stage, a walk over  *)
(* several stages, a rescue, a recipe's approval, a sweep -- takes a row   *)
(* that is held or needs a sign-off into FINALIZE; an operator does.       *)
ShipGate ==
    [][(\E i \in Slots : /\ rows[i].stage # FINALIZE /\ ShipGated(rows'[i])
                         /\ rows'[i].stage = FINALIZE /\ rows'[i].status \in Open)
       => ~DaemonNext]_vars

(* A row sent back to be planned again is not lifted over PLAN by the      *)
(* daemon while it waits for its worker, whatever plan is on disk.         *)
ReplanNotBypassed ==
    [][(\E i \in Slots : /\ rows[i].replan /\ rows[i].status \in Open
                         /\ rows'[i].stage > PLAN /\ rows'[i].status \in Open)
       => ~DaemonNext]_vars

Terminal == {"completed", "failed", "cancelled"}

(* Once a row is finished, only an operator opens it again: the late steps *)
(* of its spawn, its worker's results and the sweeps leave it alone.       *)
NoTerminalRevival ==
    [][(\E i \in Slots : rows[i].status \in Terminal /\ rows'[i].status \in Open)
       => ~DaemonNext]_vars

(* The reconcile tick runs the adoption sweep again and again.             *)
FairSpec == Spec /\ \A i \in Slots : WF_vars(AdoptUnowned(i))

(* A row whose worker was launched but could not be stamped on it does not *)
(* stay running without a session for ever.                                *)
PostLaunchRecovered ==
    \A i \in Slots :
       (/\ rows[i].status = "running" /\ ~HasSession(i)
        /\ spawn = NoSpawn /\ launched[i] = rows[i].attempts)
       ~> (rows[i].status # "running" \/ HasSession(i))

-----------------------------------------------------------------------------
(* What comments in the code say of the rows, and the code does not keep   *)

(* models.tasks on stage_high_water: the furthest pipeline stage the       *)
(* ticket has ever reached.                                                *)
HighWaterIsFurthestStage ==
    \A i \in Slots : (rows[i].status \in Open /\ rows[i].stage # PLAN) =>
       rows[i].stage <= rows[i].high_water

(* lifecycle on review approvals: a new review round does not start with   *)
(* the approval of the round before.                                       *)
ReviewRoundUnapproved ==
    \A i \in Slots : (rows[i].status \in {"pending", "running"} /\ rows[i].stage = REVIEW) =>
       ~rows[i].review_ok

(* claim.spawn on a claimed row without a worker: it is RUNNING without a  *)
(* session_id.                                                             *)
ClaimedRowUnbound ==
    \A i \in Slots : (/\ spawn.slot = i /\ spawn.phase = "claimed"
                      /\ rows[i].status = "running") => ~HasSession(i)

(* fix_dispatch on ticket ids: not unique across clients, so the end of a  *)
(* worker of one client does not complete the row of another client that   *)
(* has had no worker.                                                      *)
CompletedByOwnWorker ==
    [][\A i \in Slots :
         (/\ rows[i].status = "running"
          /\ \A j \in Slots : Key(rows[j]) = Key(rows[i]) => launched[j] = 0)
         => rows'[i].status # "completed"]_vars

(* crud.add_ticket on its dedup: a completed row at one stage does not     *)
(* stop a row at another stage.                                            *)
TerminalCheckStageScoped ==
    [][\A i \in Slots :
         (/\ rows[i].status = "pending"
          /\ \A j \in Slots :
               (Key(rows[j]) = Key(rows[i]) /\ rows[j].status \in Terminal)
               => rows[j].status = "completed" /\ rows[j].stage # rows[i].stage)
         => rows'[i].disposition # "terminal_sibling"]_vars

=============================================================================
