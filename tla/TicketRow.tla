------------------------------ MODULE TicketRow ------------------------------
(***************************************************************************)
(* One row of the dev queue (cw.models.tasks.TicketTask) and the functions *)
(* that rewrite it: the status funnel, the stage moves, the approval and   *)
(* requeue resets (cw.dev_queue.lifecycle), the verdict of an approval     *)
(* (cw.dev_queue.approval) and the routing of a worker's result            *)
(* (cw.dispatch.routing).                                                  *)
(*                                                                         *)
(* Every operator maps a row to a row, or to the SET of rows the code can  *)
(* leave behind: what git, GitHub or the client configuration answers is   *)
(* outside the model, so each answer the code distinguishes is a member.   *)
(***************************************************************************)
EXTENDS Integers

CONSTANTS Clients,      \* client names
          Tickets,      \* ticket ids; an id is only unique within a client
          Ceiling,      \* attempt ceiling of every client (resolve_attempt_ceiling)
          MaxAttempts,  \* bound on the claims of one row
          MaxRegress    \* bound on the stage regressions of one row

ASSUME CeilingAssumption == Ceiling \in Nat \ {0}
ASSUME BoundAssumption == MaxAttempts \in Nat /\ MaxRegress \in Nat

-----------------------------------------------------------------------------
(* The vocabulary.  "absent" is the slot of a row that was never added or  *)
(* has been deleted.                                                       *)

Status == {"pending", "running", "completed", "failed", "cancelled",
           "blocked", "signoff"}
Open == {"pending", "running", "blocked", "signoff"}
Parked == {"blocked", "signoff"}
Occupied == {"running", "blocked", "signoff"}

PLAN == 1
IMPL == 2
REVIEW == 3
FINALIZE == 4
Stage == PLAN .. FINALIZE

FINALIZE_REGRESS_CAP == 2
VALIDATION_FAILED_MAX_ATTEMPTS == 3

(* Dispositions the code branches on; the rest are "other".  "held" stands *)
(* for the parks doctor leaves to a human: the paused statuses, dirty      *)
(* worktrees, attempt_cap_blocked and the adoption parks.  "merge" is a    *)
(* park waiting for the row's own pull request, "pr_open" one waiting for  *)
(* an earlier pull request.                                                *)
Disposition == {"none", "approval_gate", "finalize_held", "staleness", "held",
                "merge", "pr_open", "terminal_sibling", "shipped", "other"}

(* The row's session_id: none, a bound session, or a bound session whose   *)
(* last result asks for approval (plan_ or review_pending_approval).       *)
SessionRef == {"none", "bound", "asking"}

Row == [client: Clients, ticket: Tickets,
        status: Status \cup {"absent"},
        stage: Stage,
        high_water: 0 .. FINALIZE,      \* stage_high_water, 0 when unset
        session: SessionRef,
        attempts: Nat,
        unproductive: Nat,              \* unproductive_attempts
        regress: Nat,                   \* regress_attempts
        replan: BOOLEAN,                \* regressed_into_stage = PLAN
        disposition: Disposition,
        spawned: BOOLEAN,               \* ever_spawned
        plan_ok: BOOLEAN,               \* plan_approved_at is set
        review_ok: BOOLEAN,             \* review_approved_at is set
        hold: BOOLEAN,                  \* resolve_hold_finalize is "manual"
        signoff: BOOLEAN]               \* resolve_signoff is set

Key(r) == <<r.client, r.ticket>>

(* A fresh row, and the slot a deleted row leaves behind. *)
NewRow(c, t, status, stage, disp, hold, signoff) ==
    [client |-> c, ticket |-> t, status |-> status, stage |-> stage,
     high_water |-> IF stage = PLAN THEN 0 ELSE stage,
     session |-> "none", attempts |-> 0, unproductive |-> 0, regress |-> 0,
     replan |-> FALSE, disposition |-> disp, spawned |-> FALSE,
     plan_ok |-> FALSE, review_ok |-> FALSE, hold |-> hold, signoff |-> signoff]

Deleted(r) == NewRow(r.client, r.ticket, "absent", PLAN, "none", FALSE, FALSE)

-----------------------------------------------------------------------------
(* cw.dev_queue.lifecycle *)

(* transition_task_status: the one place a status is assigned.  Leaving    *)
(* "running" charges the attempt ceiling unless the caller says the claim  *)
(* was productive.                                                         *)
Charge(r, new, unproductive) ==
    IF r.status = "running" /\ new # "running" /\ unproductive THEN 1 ELSE 0

NextDisposition(r, new, disp) ==
    IF new \in {"pending", "cancelled"} THEN "none"
    ELSE IF new = "running" THEN r.disposition ELSE disp

Transition(r, new, disp, unproductive) ==
    [r EXCEPT !.status = new,
              !.unproductive = @ + Charge(r, new, unproductive),
              !.disposition = NextDisposition(r, new, disp)]

Unbind(r) == [r EXCEPT !.session = "none"]

ToPending(r, unproductive) == Unbind(Transition(r, "pending", "none", unproductive))

Park(r, disp, unproductive) == Transition(r, "blocked", disp, unproductive)

RaiseHighWater(r, s) == [r EXCEPT !.high_water = IF s > @ THEN s ELSE @]

AdvanceStage(r, s) == RaiseHighWater([r EXCEPT !.stage = s], s)

(* _stamp_salvage_stage moves the stage and leaves the high water alone. *)
StampSalvageStage(r) == [r EXCEPT !.stage = FINALIZE]

(* Mutant of AdvanceTaskPointer: the high water is not raised. *)
AdvancePointerOnly(r) == ToPending([r EXCEPT !.stage = @ + 1], FALSE)

AdvanceTaskPointer(r) == ToPending(AdvanceStage(r, r.stage + 1), FALSE)

(* Mutants of StageRegress: an approval is carried over. *)
StageRegressKeepsPlan(r, s) ==
    ToPending([r EXCEPT !.stage = s, !.regress = @ + 1, !.replan = (s = PLAN),
                        !.review_ok = FALSE],
              FALSE)

StageRegressKeepsReview(r, s) ==
    ToPending([r EXCEPT !.stage = s, !.regress = @ + 1, !.replan = (s = PLAN),
                        !.plan_ok = IF s = PLAN THEN FALSE ELSE @],
              FALSE)

StageRegress(r, s) ==
    ToPending([r EXCEPT !.stage = s, !.regress = @ + 1, !.replan = (s = PLAN),
                        !.plan_ok = IF s = PLAN THEN FALSE ELSE @,
                        !.review_ok = FALSE],
              FALSE)

ResetForSameStageRequeue(r) ==
    ToPending([r EXCEPT !.review_ok = IF r.stage = REVIEW THEN FALSE ELSE @], TRUE)

ClearSignoffGate(r) ==
    IF r.stage = FINALIZE THEN Transition(r, "completed", "other", TRUE)
    ELSE AdvanceTaskPointer(r)

-----------------------------------------------------------------------------
(* cw.dispatch.review_gates: the two ship gates between REVIEW and         *)
(* FINALIZE.  A held row is parked even when it also asks for a sign-off.  *)

ShipGated(r) == r.hold \/ r.signoff

ParkFinalizeHold(r) == Park(r, "finalize_held", TRUE)
ParkSignoffGate(r) == Transition(r, "signoff", "other", TRUE)
ShipPark(r) == IF r.hold THEN ParkFinalizeHold(r) ELSE ParkSignoffGate(r)

(* The gates a result meets at REVIEW before the ship gates: empty diff    *)
(* and review health ("other"), branch and review staleness, scope hint.   *)
ReviewParks(r, disps) ==
    IF r.stage = REVIEW THEN {Park(r, d, TRUE) : d \in disps} ELSE {}

-----------------------------------------------------------------------------
(* cw.dispatch.routing: what a worker's result does to its row *)

ResultKind == {"approval", "paused", "success", "merge_pending", "no_op", "unknown",
               "must_fix", "regress", "fix_loop", "overload", "stale", "failure"}

(* stage_reached: 0 when the result names no stage, FINALIZE + 1 when it   *)
(* names one that does not map into the pipeline.                          *)
Result == [kind: ResultKind, reached: 0 .. FINALIZE + 1, unproductive: BOOLEAN]

(* Mutant of StageAdvanceUnchecked: the last stage is not told apart. *)
StageAdvancePastEnd(r) == {Park(r, "other", TRUE), AdvanceTaskPointer(r)}

(* _stage_advance_unchecked; the park is the client or the stage missing   *)
(* from the configuration read at that moment.                             *)
StageAdvanceUnchecked(r) ==
    {Park(r, "other", TRUE),
     IF r.stage = FINALIZE THEN Transition(r, "completed", "shipped", FALSE)
     ELSE AdvanceTaskPointer(r)}

ShipOrAdvance(r) ==
    IF r.stage = REVIEW /\ ShipGated(r) THEN {ShipPark(r)}
    ELSE StageAdvanceUnchecked(r)

RouteScopeGatedApproval(r, unproductive, earlier) ==
    ReviewParks(r, {"other", "staleness"})
    \cup {Park(r, "held", unproductive)}
    \cup (IF earlier THEN {} ELSE ShipOrAdvance(r))

RouteStageSuccess(r) ==
    (IF r.stage = IMPL THEN {Park(r, "other", TRUE)} ELSE {})
    \cup ReviewParks(r, {"other", "staleness", "approval_gate"})
    \cup ShipOrAdvance(r)

RouteStageFailure(r, kind, unproductive, earlier) ==
    CASE kind = "must_fix" -> {Park(r, "other", FALSE)}
      [] kind = "regress" ->
            IF r.stage = FINALIZE /\ r.regress < FINALIZE_REGRESS_CAP /\ ~earlier
            THEN {StageRegress(r, IMPL)}
            ELSE {Park(r, "other", unproductive)}
      [] kind = "fix_loop" -> {r}
      [] kind = "overload" -> {ToPending(r, TRUE)}
      [] kind = "stale" -> {Park(r, d, FALSE) : d \in {"pr_open", "other"}}
      [] OTHER -> {Park(r, d, unproductive) : d \in {"merge", "pr_open", "other"}}

(* The rules of _route_staged_decision, once the stage walk has let the    *)
(* result through.                                                         *)
RouteByRule(r, res, earlier) ==
    CASE res.kind = "approval" -> RouteScopeGatedApproval(r, res.unproductive, earlier)
      [] res.kind = "paused" -> {Park(r, "held", res.unproductive)}
      [] res.kind = "success" -> RouteStageSuccess(r)
      [] res.kind = "merge_pending" -> {Park(r, "merge", res.unproductive)}
      [] res.kind = "no_op" -> {Transition(r, "completed", "other", FALSE)}
      [] res.kind = "unknown" -> {Park(r, "other", res.unproductive)}
      [] OTHER -> RouteStageFailure(r, res.kind, res.unproductive, earlier)

(* One hop of the walk advances the pointer and puts the session back, so  *)
(* hopping from r.stage to s in one go is this.                            *)
HopTo(r, s) ==
    IF s = r.stage THEN r
    ELSE Transition(AdvanceStage(r, s), "pending", "none", FALSE)

CrossesReview(r, s) == r.stage <= REVIEW /\ REVIEW < s

(* _walk_stage_pointer_forward stops at the REVIEW rung of a walk that     *)
(* crosses it ...                                                          *)
WalkParked(r, s) ==
    IF ~CrossesReview(r, s) THEN {}
    ELSE LET q == HopTo(r, REVIEW)
         IN ReviewParks(q, {"other", "staleness", "approval_gate"})
            \cup (IF ShipGated(q) THEN {ShipPark(q)} ELSE {})

(* Mutant of WalkProceeds: a walk passes the ship gates. *)
WalkUngated(r, s) == TRUE

(* ... or reaches the stage the result names.                              *)
WalkProceeds(r, s) == ~(CrossesReview(r, s) /\ ShipGated(r))

(* _route_staged_decision.  No row: the result is refused and the store is *)
(* not saved.                                                              *)
RouteStagedDecision(r, res) ==
    LET earlier == res.reached # 0 /\ res.reached < r.stage
        later == res.reached \in Stage /\ res.reached > r.stage
    IN CASE res.reached = FINALIZE + 1 -> {}
         [] earlier /\ res.kind = "success" -> {}
         [] later -> WalkParked(r, res.reached)
                     \cup (IF WalkProceeds(r, res.reached)
                           THEN RouteByRule(HopTo(r, res.reached), res, FALSE)
                           ELSE {})
         [] OTHER -> RouteByRule(r, res, earlier)

-----------------------------------------------------------------------------
(* cw.dev_queue.approval: _approve_ticket_locked.  "operator" is           *)
(* operator_initiated, "reviewed" whether the plan carries its review      *)
(* marks.  No row: refused, or held for the operator without a change.     *)

AtApprovalGate(r) ==
    /\ r.session # "none"
    /\ r.disposition # "staleness"
    /\ r.session = "asking" \/ r.disposition \in {"approval_gate", "finalize_held"}

ApproveAtStage(r, operator, reviewed) ==
    CASE r.stage = PLAN ->
            LET q == [r EXCEPT !.plan_ok = TRUE]
            IN {IF reviewed THEN AdvanceTaskPointer(q) ELSE ResetForSameStageRequeue(q)}
      [] r.stage = REVIEW ->
            IF ~operator /\ r.hold THEN {}
            ELSE {[(IF r.signoff THEN ParkSignoffGate(r) ELSE AdvanceTaskPointer(r))
                      EXCEPT !.review_ok = TRUE]}
      [] OTHER -> {AdvanceTaskPointer(r)}

ApproveTicketLocked(r, operator, reviewed) ==
    CASE r.status = "signoff" -> {ClearSignoffGate(r)}
      [] r.status = "blocked" /\ AtApprovalGate(r) /\ r.stage # FINALIZE ->
            ApproveAtStage(r, operator, reviewed)
      [] OTHER -> {}

=============================================================================
