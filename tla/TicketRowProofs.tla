--------------------------- MODULE TicketRowProofs ---------------------------
(***************************************************************************)
(* What every rewrite of a queue row keeps: the row invariant RowOK and    *)
(* the relation Step between the row before and the row after.             *)
(***************************************************************************)
EXTENDS TicketRow, TLAPS

(* The part of the inductive invariant that speaks of one row. *)
RowOK(r) ==
    /\ r \in Row
    /\ r.unproductive <= Ceiling
    /\ r.status = "running" => r.unproductive < Ceiling
    /\ (r.replan /\ r.status \in Open) =>
          r.stage = PLAN /\ ~r.plan_ok /\ r.session = "none"
    /\ r.review_ok => r.stage \in {REVIEW, FINALIZE}
    /\ r.status = "signoff" => r.stage = REVIEW

(* What every rewrite of r into q keeps, apart from adding a row, claiming *)
(* it and reopening a finished one: the row stays in its ticket, is not    *)
(* opened, does not start running and, while it runs, stays at its stage   *)
(* and is not marked for planning; its ship gates stay, its high water is  *)
(* not lowered and a move to a later stage is recorded in it.              *)
Step(r, q) ==
    /\ RowOK(q)
    /\ q.client = r.client /\ q.ticket = r.ticket
    /\ r.status = "absent" => q.status = "absent"
    /\ q.status \in Open => r.status \in Open
    /\ q.status = "running" =>
          r.status = "running" /\ q.stage = r.stage /\ (q.replan => r.replan)
    /\ q.status # "absent" =>
          r.high_water <= q.high_water /\ q.hold = r.hold /\ q.signoff = r.signoff
    /\ (r.stage < q.stage /\ q.status \in Open) => q.stage <= q.high_water

(* A rewrite that leaves the stage of an open row alone: all but routing,  *)
(* approvals and the requeues of an operator.                              *)
Plain(r, q) == Step(r, q) /\ (q.status \in Open => q.stage = r.stage)

(* A rewrite that takes an open row forward or back to implementation, and *)
(* into FINALIZE only without a ship gate: routing and the gate recipes.   *)
Onward(r, q) ==
    /\ Step(r, q)
    /\ q.status \in Open =>
          /\ r.stage <= q.stage \/ (q.status = "pending" /\ q.stage = IMPL)
          /\ (r.stage # FINALIZE /\ q.stage = FINALIZE) => ~ShipGated(r)

(* The fields RowOK and Step read and most rewrites leave alone. *)
SameMarks(r, q) ==
    /\ q.client = r.client /\ q.ticket = r.ticket
    /\ q.replan = r.replan /\ q.plan_ok = r.plan_ok /\ q.review_ok = r.review_ok
    /\ q.hold = r.hold /\ q.signoff = r.signoff

-----------------------------------------------------------------------------
(* A row that is left alone. *)
LEMMA StepRefl == ASSUME NEW r, RowOK(r) PROVE Plain(r, r)
BY DEF Plain, Step, RowOK, Row, Stage, PLAN, FINALIZE

(* Rewrites in sequence: a stage walk followed by the routing rules. *)
LEMMA StepTrans ==
    ASSUME NEW r, RowOK(r), NEW q, NEW p, Step(r, q), Step(q, p)
    PROVE  /\ Step(r, p)
           /\ Plain(r, q) /\ Plain(q, p) => Plain(r, p)
           /\ Plain(r, q) /\ Onward(q, p) => Onward(r, p)
           /\ Onward(r, q) /\ r.stage <= q.stage /\ Onward(q, p) => Onward(r, p)
<1>1. /\ RowOK(q) /\ RowOK(p)
      /\ \A s \in {r.stage, q.stage, p.stage, r.high_water, q.high_water, p.high_water} : s \in Int
  BY DEF Step, RowOK, Row, Stage, PLAN, FINALIZE
<1>2. Step(r, p)
  <2>1. (r.stage < p.stage /\ p.status \in Open) => p.stage <= p.high_water
    BY <1>1 DEF Step, Open
  <2>2. p.status # "absent" =>
          r.high_water <= p.high_water /\ p.hold = r.hold /\ p.signoff = r.signoff
    BY <1>1 DEF Step
  <2> QED BY <1>1, <2>1, <2>2, Zenon DEF Step
<1>3. Plain(r, q) /\ Plain(q, p) => Plain(r, p)
  BY <1>2, Zenon DEF Plain, Step
<1>4. q.status \in Open => (ShipGated(q) = ShipGated(r))
  BY Zenon DEF Step, ShipGated, Open
<1>5. p.status \in Open => q.status \in Open
  BY Zenon DEF Step
<1>6. Plain(r, q) /\ Onward(q, p) => Onward(r, p)
  BY <1>1, <1>2, <1>4, <1>5, Zenon DEF Plain, Onward
<1>7. Onward(r, q) /\ r.stage <= q.stage /\ Onward(q, p) => Onward(r, p)
  BY <1>1, <1>2, <1>4, <1>5 DEF Onward
<1> QED BY <1>2, <1>3, <1>6, <1>7, Zenon

(* A rewrite that leaves the stage alone is one of the other kind. *)
LEMMA PlainOnward == ASSUME NEW r, RowOK(r), NEW q, Plain(r, q) PROVE Onward(r, q)
BY DEF Plain, Onward, RowOK, Row, Stage, PLAN, FINALIZE

-----------------------------------------------------------------------------
(* The fields after each primitive rewrite *)

(* The fields transition_task_status assigns stay in their types. *)
LEMMA StatusUpdate ==
    ASSUME NEW r \in Row, NEW new \in Status \cup {"absent"}, NEW n \in Nat,
           NEW d \in Disposition
    PROVE  [r EXCEPT !.status = new, !.unproductive = n, !.disposition = d] \in Row
BY Zenon DEF Row

(* transition_task_status assigns the status and charges the ceiling by at *)
(* most one, and only when the row stops running.                          *)
LEMMA TransitionFields ==
    ASSUME NEW r \in Row, NEW new \in Status, NEW d \in Disposition, NEW u \in BOOLEAN
    PROVE  LET q == Transition(r, new, d, u) IN
           /\ q \in Row
           /\ SameMarks(r, q) /\ q.status = new
           /\ q.stage = r.stage /\ q.session = r.session /\ q.high_water = r.high_water
           /\ r.unproductive <= q.unproductive
           /\ q.unproductive <= r.unproductive + 1
           /\ (r.status # "running" \/ new = "running" \/ ~u)
              => q.unproductive = r.unproductive
<1>1. r.unproductive + Charge(r, new, u) \in Nat
  BY DEF Charge, Row
<1>2. NextDisposition(r, new, d) \in Disposition
  BY Zenon DEF Row, Disposition, NextDisposition
<1>3. Transition(r, new, d, u) \in Row
  BY <1>1, <1>2, StatusUpdate, Zenon DEF Transition
<1>4. /\ SameMarks(r, Transition(r, new, d, u))
      /\ Transition(r, new, d, u).status = new
      /\ Transition(r, new, d, u).stage = r.stage
      /\ Transition(r, new, d, u).session = r.session
      /\ Transition(r, new, d, u).high_water = r.high_water
      /\ Transition(r, new, d, u).unproductive = r.unproductive + Charge(r, new, u)
  BY Zenon DEF Transition, SameMarks, Row
<1>5. /\ Charge(r, new, u) \in 0 .. 1
      /\ (r.status # "running" \/ new = "running" \/ ~u) => Charge(r, new, u) = 0
  BY DEF Charge
<1>6. r.unproductive \in Nat
  BY Zenon DEF Row
<1> QED BY <1>3, <1>4, <1>5, <1>6

(* Clearing the session id. *)
LEMMA UnbindFields ==
    ASSUME NEW r \in Row
    PROVE  LET q == Unbind(r) IN
           /\ q \in Row
           /\ SameMarks(r, q) /\ q.status = r.status /\ q.stage = r.stage
           /\ q.session = "none" /\ q.unproductive = r.unproductive
           /\ q.high_water = r.high_water
BY Zenon DEF Unbind, Row, SessionRef, SameMarks

(* Moving the stage forward, with or without the high water. *)
LEMMA StageFields ==
    ASSUME NEW r \in Row, NEW s \in Stage
    PROVE  /\ AdvanceStage(r, s) \in Row
           /\ SameMarks(r, AdvanceStage(r, s))
           /\ AdvanceStage(r, s).status = r.status /\ AdvanceStage(r, s).stage = s
           /\ AdvanceStage(r, s).session = r.session
           /\ AdvanceStage(r, s).unproductive = r.unproductive
           /\ r.high_water <= AdvanceStage(r, s).high_water
           /\ s <= AdvanceStage(r, s).high_water
           /\ StampSalvageStage(r) \in Row
           /\ SameMarks(r, StampSalvageStage(r))
           /\ StampSalvageStage(r).status = r.status
           /\ StampSalvageStage(r).stage = FINALIZE
           /\ StampSalvageStage(r).session = r.session
           /\ StampSalvageStage(r).unproductive = r.unproductive
           /\ StampSalvageStage(r).high_water = r.high_water
<1>1. FINALIZE \in Stage /\ s \in 0 .. FINALIZE
  BY DEF Stage, FINALIZE, PLAN
<1>2. [r EXCEPT !.stage = s] \in Row
  BY Zenon DEF Row
<1>3. \A h \in 0 .. FINALIZE : [[r EXCEPT !.stage = s] EXCEPT !.high_water = h] \in Row
  BY <1>2, Zenon DEF Row
<1>4. AdvanceStage(r, s) \in Row
  BY <1>1, <1>2, <1>3, Zenon DEF AdvanceStage, RaiseHighWater, Row
<1>5. StampSalvageStage(r) \in Row
  BY <1>1, Zenon DEF StampSalvageStage, Row
<1>6. r.high_water <= AdvanceStage(r, s).high_water /\ s <= AdvanceStage(r, s).high_water
  BY <1>1, <1>2 DEF AdvanceStage, RaiseHighWater, Row
<1> QED BY <1>4, <1>5, <1>6 DEF AdvanceStage, RaiseHighWater, StampSalvageStage, SameMarks, Row

-----------------------------------------------------------------------------
(* The rewrites as steps *)

(* transition_task_status to any status but "running", not opening a row. *)
LEMMA TransitionStep ==
    ASSUME NEW r, RowOK(r), NEW new \in Status \ {"running"}, r.status # "absent",
           new \in Open => r.status \in Open, new = "signoff" => r.stage = REVIEW,
           NEW d \in Disposition, NEW u \in BOOLEAN
    PROVE  /\ Plain(r, Transition(r, new, d, u))
           /\ Plain(r, Unbind(Transition(r, new, d, u)))
<1> DEFINE q == Transition(r, new, d, u)
<1>1. /\ q \in Row /\ SameMarks(r, q) /\ q.status = new
      /\ q.stage = r.stage /\ q.session = r.session /\ q.high_water = r.high_water
      /\ q.unproductive <= r.unproductive + 1
      /\ r.status # "running" => q.unproductive = r.unproductive
  BY TransitionFields DEF RowOK
<1>2. r.unproductive \in Nat /\ q.unproductive \in Nat
  BY <1>1, Zenon DEF RowOK, Row
<1>3. q.unproductive <= Ceiling
  BY <1>1, <1>2, CeilingAssumption DEF CeilingAssumption, RowOK
<1>4. r.stage \in Int /\ r.high_water \in Int
  BY DEF RowOK, Row, Stage, PLAN, FINALIZE
<1>5. Plain(r, q)
  BY <1>1, <1>3, <1>4 DEF Plain, Step, RowOK, SameMarks
<1>6. q \in Row /\ q.status # "absent" /\ q.stage \in Int /\ q.high_water \in Int
  BY <1>1, <1>4, Zenon DEF Status
<1> HIDE DEF q
<1>7. Plain(q, Unbind(q))
  BY <1>5, <1>6, UnbindFields DEF Plain, Step, RowOK, SameMarks
<1>8. Plain(r, Unbind(q))
  BY <1>5, <1>7, StepTrans, Zenon DEF Plain
<1> QED BY <1>5, <1>8, Zenon DEF q

(* The transitions the handlers are made of: back into the queue ... *)
LEMMA PendingStep ==
    ASSUME NEW r, RowOK(r), r.status \in Open, NEW u \in BOOLEAN
    PROVE  /\ Plain(r, ToPending(r, u))
           /\ Plain(r, Transition(r, "pending", "none", u))
<1>1. "pending" \in Status \ {"running"} /\ "none" \in Disposition /\ r.status # "absent"
  BY Zenon DEF Status, Disposition, Open
<1> QED BY <1>1, TransitionStep, Zenon DEF ToPending

(* ... and into every other status. *)
LEMMA OpenStep ==
    ASSUME NEW r, RowOK(r), r.status \in Open, NEW d \in Disposition, NEW u \in BOOLEAN
    PROVE  /\ Plain(r, Park(r, d, u)) /\ Plain(r, Unbind(Park(r, d, u)))
           /\ r.stage = REVIEW => Plain(r, Transition(r, "signoff", d, u))
           /\ Plain(r, Transition(r, "completed", d, u))
           /\ Plain(r, Unbind(Transition(r, "completed", d, u)))
           /\ Plain(r, Transition(r, "failed", d, u))
           /\ Plain(r, Transition(r, "cancelled", d, u))
<1>1. /\ {"blocked", "signoff", "completed", "failed", "cancelled"} \subseteq Status \ {"running"}
      /\ r.status # "absent"
  BY Zenon DEF Status, Open
<1> QED BY <1>1, TransitionStep, Zenon DEF Park

(* A stage walk that does not pass a ship gate. *)
LEMMA ForwardOnward ==
    ASSUME NEW r, NEW q, Step(r, q), r.stage <= q.stage,
           (r.stage # FINALIZE /\ q.stage = FINALIZE) => ~ShipGated(r)
    PROVE  Onward(r, q)
BY Zenon DEF Onward

(* The pointer moves forward and the row goes back into the queue, with or *)
(* without its session.                                                    *)
LEMMA AdvancePendingStep ==
    ASSUME NEW r, RowOK(r), r.status \in Open, ~r.replan, NEW s \in Stage, r.stage <= s
    PROVE  LET q == Transition(AdvanceStage(r, s), "pending", "none", FALSE) IN
           /\ Step(r, q) /\ q.stage = s
           /\ Step(r, Unbind(q)) /\ Unbind(q).stage = s
<1> DEFINE q == AdvanceStage(r, s)
           t == Transition(q, "pending", "none", FALSE)
<1>1. /\ q \in Row /\ SameMarks(r, q) /\ q.stage = s /\ q.unproductive = r.unproductive
      /\ r.high_water <= q.high_water /\ s <= q.high_water
  BY StageFields, Zenon DEF RowOK
<1> HIDE DEF q
<1>2. /\ t \in Row /\ SameMarks(q, t) /\ t.status = "pending" /\ t.stage = q.stage
      /\ t.unproductive = q.unproductive /\ t.high_water = q.high_water
  <2>1. "pending" \in Status /\ "none" \in Disposition
    BY Zenon DEF Status, Disposition
  <2> QED BY <1>1, <2>1, TransitionFields, Zenon
<1> HIDE DEF t
<1>3. r.review_ok => s \in {REVIEW, FINALIZE}
  BY DEF RowOK, Stage, PLAN, REVIEW, FINALIZE
<1>4. Step(r, t)
  BY <1>1, <1>2, <1>3, Zenon DEF Step, RowOK, SameMarks, Open
<1>5. Step(t, Unbind(t))
  <2>1. t.stage \in Int /\ t.high_water \in Int
    BY <1>2 DEF Row, Stage, PLAN, FINALIZE
  <2> QED BY <1>2, <1>4, <2>1, UnbindFields DEF Step, RowOK, SameMarks
<1>6. Step(r, Unbind(t))
  BY <1>4, <1>5, StepTrans, Zenon
<1>7. t.stage = s /\ Unbind(t).stage = s
  BY <1>1, <1>2, UnbindFields, Zenon
<1> QED BY <1>4, <1>6, <1>7, Zenon DEF q, t

(* _advance_task_pointer below the last stage. *)
LEMMA PointerStep ==
    ASSUME NEW r, RowOK(r), r.status \in Open, ~r.replan, r.stage # FINALIZE
    PROVE  /\ Step(r, AdvanceTaskPointer(r)) /\ AdvanceTaskPointer(r).stage = r.stage + 1
           /\ (r.stage = REVIEW => ~ShipGated(r)) => Onward(r, AdvanceTaskPointer(r))
<1>1. /\ r.stage + 1 \in Stage /\ r.stage <= r.stage + 1
      /\ r.stage + 1 = FINALIZE => r.stage = REVIEW
  BY DEF RowOK, Row, Stage, PLAN, REVIEW, FINALIZE
<1>2. Step(r, AdvanceTaskPointer(r)) /\ AdvanceTaskPointer(r).stage = r.stage + 1
  BY <1>1, AdvancePendingStep, Zenon DEF AdvanceTaskPointer, ToPending
<1> QED BY <1>1, <1>2, ForwardOnward, Zenon

(* _stage_regress to an earlier stage: the approvals it would outlive go. *)
LEMMA RegressStep ==
    ASSUME NEW r, RowOK(r), r.status \in Open, NEW s \in Stage, s < r.stage
    PROVE  /\ Step(r, StageRegress(r, s))
           /\ StageRegress(r, s).stage = s /\ StageRegress(r, s).status = "pending"
           /\ s = IMPL => Onward(r, StageRegress(r, s))
<1> DEFINE q == [r EXCEPT !.stage = s, !.regress = @ + 1, !.replan = (s = PLAN),
                          !.plan_ok = IF s = PLAN THEN FALSE ELSE @, !.review_ok = FALSE]
           t == Transition(q, "pending", "none", FALSE)
<1>1. StageRegress(r, s) = Unbind(t)
  BY Zenon DEF StageRegress, ToPending
<1>2. q \in Row
  <2>1. r.regress + 1 \in Nat
    BY DEF RowOK, Row
  <2>2. r.plan_ok \in BOOLEAN
    BY Zenon DEF RowOK, Row
  <2>3. (s = PLAN) \in BOOLEAN /\ (IF s = PLAN THEN FALSE ELSE r.plan_ok) \in BOOLEAN
    BY <2>2, Zenon
  <2>4. \A n \in Nat, a, b \in BOOLEAN :
          [r EXCEPT !.stage = s, !.regress = n, !.replan = a, !.plan_ok = b,
                    !.review_ok = FALSE] \in Row
    BY Zenon DEF RowOK, Row
  <2> QED BY <2>1, <2>3, <2>4, Zenon
<1>3. /\ q.client = r.client /\ q.ticket = r.ticket /\ q.status = r.status
      /\ q.unproductive = r.unproductive /\ q.stage = s /\ q.review_ok = FALSE
      /\ q.replan = (s = PLAN) /\ (s = PLAN => q.plan_ok = FALSE)
      /\ q.high_water = r.high_water /\ q.hold = r.hold /\ q.signoff = r.signoff
  BY Zenon DEF RowOK, Row
<1> HIDE DEF q
<1>4. /\ t \in Row /\ SameMarks(q, t) /\ t.status = "pending" /\ t.stage = q.stage
      /\ t.unproductive = q.unproductive /\ t.high_water = q.high_water
  <2>1. "pending" \in Status /\ "none" \in Disposition
    BY Zenon DEF Status, Disposition
  <2> QED BY <1>2, <2>1, TransitionFields, Zenon
<1> HIDE DEF t
<1> DEFINE p == Unbind(t)
<1>5. /\ p \in Row /\ SameMarks(t, p) /\ p.status = t.status /\ p.stage = t.stage
      /\ p.session = "none" /\ p.unproductive = t.unproductive /\ p.high_water = t.high_water
  BY <1>4, UnbindFields, Zenon
<1> HIDE DEF p
<1>6. r.stage \in Int /\ r.high_water \in Int /\ s \in Int
  BY DEF RowOK, Row, Stage, PLAN, FINALIZE
<1>7. RowOK(p)
  BY <1>3, <1>4, <1>5, Zenon DEF RowOK, SameMarks, Open
<1>8. Step(r, p)
  BY <1>3, <1>4, <1>5, <1>6, <1>7 DEF Step, SameMarks, Open
<1>9. s = IMPL => Onward(r, p)
  BY <1>3, <1>4, <1>5, <1>8 DEF Onward, IMPL, FINALIZE
<1> QED BY <1>1, <1>3, <1>4, <1>5, <1>8, <1>9, Zenon DEF p

-----------------------------------------------------------------------------
(* cw.dispatch.routing *)

(* The ship gates at REVIEW. *)
LEMMA ShipParkStep ==
    ASSUME NEW r, RowOK(r), r.status \in Open, r.stage = REVIEW
    PROVE  Plain(r, ShipPark(r)) /\ Plain(r, ParkSignoffGate(r))
<1>1. "finalize_held" \in Disposition /\ "other" \in Disposition
  BY Zenon DEF Disposition
<1> QED BY <1>1, OpenStep, Zenon DEF ShipPark, ParkFinalizeHold, ParkSignoffGate

(* The other gates at REVIEW. *)
LEMMA ReviewParksStep ==
    ASSUME NEW r, RowOK(r), r.status \in Open, NEW D \in SUBSET Disposition,
           NEW q \in ReviewParks(r, D)
    PROVE  Plain(r, q)
<1>1. PICK d \in D : q = Park(r, d, TRUE)
  BY Zenon DEF ReviewParks
<1> QED BY <1>1, OpenStep, Zenon

(* What follows an accepted result. *)
LEMMA ShipOrAdvanceStep ==
    ASSUME NEW r, RowOK(r), r.status \in Open, ~r.replan, NEW q \in ShipOrAdvance(r)
    PROVE  Onward(r, q)
<1>1. "shipped" \in Disposition /\ "other" \in Disposition
  BY Zenon DEF Disposition
<1>2. CASE q = ShipPark(r) /\ r.stage = REVIEW
  BY <1>2, ShipParkStep, PlainOnward, Zenon
<1>3. CASE q \in StageAdvanceUnchecked(r) /\ (r.stage = REVIEW => ~ShipGated(r))
  <2>1. CASE q = Park(r, "other", TRUE)
    BY <1>1, <2>1, OpenStep, PlainOnward, Zenon
  <2>2. CASE r.stage = FINALIZE /\ q = Transition(r, "completed", "shipped", FALSE)
    BY <1>1, <2>2, OpenStep, PlainOnward, Zenon
  <2>3. CASE r.stage # FINALIZE /\ q = AdvanceTaskPointer(r)
    BY <1>3, <2>3, PointerStep, Zenon
  <2> QED BY <1>3, <2>1, <2>2, <2>3, Zenon DEF StageAdvanceUnchecked
<1> QED BY <1>2, <1>3, Zenon DEF ShipOrAdvance

(* _route_stage_failure. *)
LEMMA StageFailureStep ==
    ASSUME NEW r, RowOK(r), r.status \in Open, NEW kind, NEW u \in BOOLEAN,
           NEW earlier \in BOOLEAN, NEW q \in RouteStageFailure(r, kind, u, earlier)
    PROVE  Onward(r, q)
<1>1. {"pr_open", "merge", "other"} \subseteq Disposition /\ IMPL \in Stage
  BY DEF Disposition, Stage, PLAN, IMPL, FINALIZE
<1>2. CASE \E d \in Disposition, v \in BOOLEAN : q = Park(r, d, v)
  BY <1>2, OpenStep, PlainOnward, Zenon
<1>3. CASE r.stage = FINALIZE /\ q = StageRegress(r, IMPL)
  BY <1>1, <1>3, RegressStep DEF IMPL, FINALIZE
<1>4. CASE q = r
  BY <1>4, StepRefl, PlainOnward, Zenon
<1>5. CASE q = ToPending(r, TRUE)
  BY <1>5, PendingStep, PlainOnward, Zenon
<1>6. \/ \E d \in {"pr_open", "merge", "other"}, v \in BOOLEAN : q = Park(r, d, v)
      \/ r.stage = FINALIZE /\ q = StageRegress(r, IMPL)
      \/ q = r \/ q = ToPending(r, TRUE)
  <2>1. CASE kind = "must_fix"
    BY <2>1, Zenon DEF RouteStageFailure
  <2>2. CASE kind = "regress"
    BY <2>2, Zenon DEF RouteStageFailure
  <2>3. CASE kind = "fix_loop"
    BY <2>3, Zenon DEF RouteStageFailure
  <2>4. CASE kind = "overload"
    BY <2>4, Zenon DEF RouteStageFailure
  <2>5. CASE kind = "stale"
    BY <2>5, Zenon DEF RouteStageFailure
  <2>6. CASE kind \notin {"must_fix", "regress", "fix_loop", "overload", "stale"}
    BY <2>6, Zenon DEF RouteStageFailure
  <2> QED BY <2>1, <2>2, <2>3, <2>4, <2>5, <2>6, Zenon
<1> QED BY <1>1, <1>2, <1>3, <1>4, <1>5, <1>6, Zenon

(* The rules of _route_staged_decision. *)
LEMMA RouteByRuleStep ==
    ASSUME NEW r, RowOK(r), r.status \in Open, ~r.replan, NEW res \in Result,
           NEW earlier \in BOOLEAN, NEW q \in RouteByRule(r, res, earlier)
    PROVE  Onward(r, q)
<1>1. /\ {"held", "merge", "other", "staleness", "approval_gate"} \subseteq Disposition
      /\ res.unproductive \in BOOLEAN
  BY Zenon DEF Disposition, Result
<1>2. CASE \E d \in Disposition, v \in BOOLEAN : q = Park(r, d, v)
  BY <1>2, OpenStep, PlainOnward, Zenon
<1>3. CASE \E D \in SUBSET Disposition : q \in ReviewParks(r, D)
  BY <1>3, ReviewParksStep, PlainOnward, Zenon
<1>4. CASE q \in ShipOrAdvance(r)
  BY <1>4, ShipOrAdvanceStep, Zenon
<1>5. CASE q = Transition(r, "completed", "other", FALSE)
  BY <1>1, <1>5, OpenStep, PlainOnward, Zenon
<1>6. CASE q \in RouteStageFailure(r, res.kind, res.unproductive, earlier)
  BY <1>1, <1>6, StageFailureStep, Zenon
<1>7. CASE res.kind = "approval"
  <2>1. \/ q \in ReviewParks(r, {"other", "staleness"})
        \/ q = Park(r, "held", res.unproductive) \/ q \in ShipOrAdvance(r)
    BY <1>7, Zenon DEF RouteByRule, RouteScopeGatedApproval
  <2> QED BY <1>1, <1>2, <1>3, <1>4, <2>1, Zenon
<1>8. CASE res.kind = "success"
  <2>1. \/ q \in ReviewParks(r, {"other", "staleness", "approval_gate"})
        \/ q = Park(r, "other", TRUE) \/ q \in ShipOrAdvance(r)
    BY <1>8, Zenon DEF RouteByRule, RouteStageSuccess
  <2> QED BY <1>1, <1>2, <1>3, <1>4, <2>1, Zenon
<1>9. CASE res.kind \in {"paused", "merge_pending", "unknown"}
  <2>1. \E d \in {"held", "merge", "other"} : q = Park(r, d, res.unproductive)
    BY <1>9, Zenon DEF RouteByRule
  <2> QED BY <1>1, <1>2, <2>1, Zenon
<1>10. CASE res.kind = "no_op"
  BY <1>5, <1>10, Zenon DEF RouteByRule
<1>11. CASE res.kind \notin {"approval", "success", "paused", "merge_pending", "unknown", "no_op"}
  BY <1>6, <1>11, Zenon DEF RouteByRule
<1> QED BY <1>7, <1>8, <1>9, <1>10, <1>11, Zenon

(* A walk of the stage pointer leaves an open row behind. *)
LEMMA HopStep ==
    ASSUME NEW r, RowOK(r), r.status \in Open, ~r.replan, NEW s \in Stage, r.stage <= s
    PROVE  /\ Step(r, HopTo(r, s)) /\ HopTo(r, s).status \in Open
           /\ ~HopTo(r, s).replan /\ HopTo(r, s).stage = s
           /\ ((r.stage # FINALIZE /\ s = FINALIZE) => ~ShipGated(r)) => Onward(r, HopTo(r, s))
<1>1. CASE s = r.stage
  BY <1>1, StepRefl, PlainOnward, Zenon DEF HopTo, Plain
<1>2. CASE s # r.stage
  <2> DEFINE q == AdvanceStage(r, s)
             t == Transition(q, "pending", "none", FALSE)
  <2>1. HopTo(r, s) = t
    BY <1>2, Zenon DEF HopTo
  <2>2. Step(r, t)
    BY AdvancePendingStep, Zenon
  <2>3. q \in Row /\ SameMarks(r, q) /\ q.stage = s
    BY StageFields, Zenon DEF RowOK
  <2> HIDE DEF q
  <2>4. SameMarks(q, t) /\ t.status = "pending" /\ t.stage = q.stage
    <3>1. "pending" \in Status /\ "none" \in Disposition
      BY Zenon DEF Status, Disposition
    <3> QED BY <2>3, <3>1, TransitionFields, Zenon
  <2> QED BY <2>1, <2>2, <2>3, <2>4, ForwardOnward, Zenon DEF SameMarks, Open
<1> QED BY <1>1, <1>2, Zenon

(* _route_staged_decision: whatever a worker reports, from whatever stage. *)
LEMMA RouteStep ==
    ASSUME NEW r, RowOK(r), r.status \in Open, ~r.replan, NEW res \in Result,
           NEW q \in RouteStagedDecision(r, res)
    PROVE  Onward(r, q)
<1>1. r.stage \in Stage /\ res.reached \in 0 .. FINALIZE + 1
  BY Zenon DEF RowOK, Row, Result
<1> DEFINE earlier == res.reached # 0 /\ res.reached < r.stage
           later == res.reached \in Stage /\ res.reached > r.stage
<1>2. CASE later /\ q \in WalkParked(r, res.reached)
  <2> DEFINE h == HopTo(r, REVIEW)
  <2>1. r.stage <= REVIEW /\ REVIEW \in Stage
    BY <1>2 DEF WalkParked, CrossesReview, Stage, REVIEW, PLAN, FINALIZE
  <2>2. Step(r, h) /\ h.status \in Open /\ h.stage = REVIEW /\ Onward(r, h)
    BY <2>1, HopStep DEF REVIEW, FINALIZE
  <2>3. \/ q \in ReviewParks(h, {"other", "staleness", "approval_gate"})
        \/ q = ShipPark(h)
    BY <1>2, Zenon DEF WalkParked
  <2> HIDE DEF h
  <2>4. RowOK(h) /\ {"other", "staleness", "approval_gate"} \in SUBSET Disposition
    BY <2>2, Zenon DEF Step, Disposition
  <2>5. Onward(h, q)
    BY <2>2, <2>3, <2>4, ReviewParksStep, ShipParkStep, PlainOnward, Zenon
  <2> QED BY <2>1, <2>2, <2>5, StepTrans, Zenon DEF Onward
<1>3. CASE /\ later /\ WalkProceeds(r, res.reached)
           /\ q \in RouteByRule(HopTo(r, res.reached), res, FALSE)
  <2> DEFINE h == HopTo(r, res.reached)
  <2>1. r.stage <= res.reached /\ (res.reached = FINALIZE => ~ShipGated(r))
    BY <1>1, <1>3 DEF WalkProceeds, CrossesReview, Stage, PLAN, REVIEW, FINALIZE
  <2>2. Step(r, h) /\ h.status \in Open /\ ~h.replan /\ h.stage = res.reached /\ Onward(r, h)
    BY <1>3, <2>1, HopStep, Zenon
  <2>3. q \in RouteByRule(h, res, FALSE)
    BY <1>3, Zenon
  <2> HIDE DEF h
  <2>4. Onward(h, q)
    BY <2>2, <2>3, RouteByRuleStep, Zenon DEF Step
  <2> QED BY <2>1, <2>2, <2>4, StepTrans, Zenon DEF Onward
<1>4. CASE q \in RouteByRule(r, res, earlier)
  <2>1. earlier \in BOOLEAN
    BY Zenon
  <2> HIDE DEF earlier
  <2> QED BY <1>4, <2>1, RouteByRuleStep, Zenon
<1>5. \/ later /\ q \in WalkParked(r, res.reached)
      \/ /\ later /\ WalkProceeds(r, res.reached)
         /\ q \in RouteByRule(HopTo(r, res.reached), res, FALSE)
      \/ q \in RouteByRule(r, res, earlier)
  BY Zenon DEF RouteStagedDecision
<1> QED BY <1>2, <1>3, <1>4, <1>5, Zenon

-----------------------------------------------------------------------------
(* cw.dev_queue.approval *)

(* Giving and revoking approvals. *)
LEMMA FlagStep ==
    ASSUME NEW r, RowOK(r), NEW b \in BOOLEAN
    PROVE  /\ (b /\ r.status \in Open => ~r.replan) => Plain(r, [r EXCEPT !.plan_ok = b])
           /\ (b => r.stage \in {REVIEW, FINALIZE}) => Plain(r, [r EXCEPT !.review_ok = b])
<1>1. [r EXCEPT !.plan_ok = b] \in Row /\ [r EXCEPT !.review_ok = b] \in Row
  BY Zenon DEF RowOK, Row
<1>2. LET q == [r EXCEPT !.plan_ok = b] IN
      /\ q.client = r.client /\ q.ticket = r.ticket /\ q.replan = r.replan
      /\ q.review_ok = r.review_ok /\ q.plan_ok = b /\ q.status = r.status
      /\ q.stage = r.stage /\ q.session = r.session /\ q.unproductive = r.unproductive
      /\ q.high_water = r.high_water /\ q.hold = r.hold /\ q.signoff = r.signoff
  BY Zenon DEF RowOK, Row
<1>3. LET q == [r EXCEPT !.review_ok = b] IN
      /\ q.client = r.client /\ q.ticket = r.ticket /\ q.replan = r.replan
      /\ q.review_ok = b /\ q.plan_ok = r.plan_ok /\ q.status = r.status
      /\ q.stage = r.stage /\ q.session = r.session /\ q.unproductive = r.unproductive
      /\ q.high_water = r.high_water /\ q.hold = r.hold /\ q.signoff = r.signoff
  BY Zenon DEF RowOK, Row
<1>4. r.stage \in Int /\ r.high_water \in Int
  BY DEF RowOK, Row, Stage, PLAN, FINALIZE
<1> QED BY <1>1, <1>2, <1>3, <1>4 DEF Plain, Step, RowOK

(* _reset_for_same_stage_requeue of an open row. *)
LEMMA ResetStep ==
    ASSUME NEW r, RowOK(r), r.status \in Open
    PROVE  Plain(r, ResetForSameStageRequeue(r))
<1> DEFINE b == IF r.stage = REVIEW THEN FALSE ELSE r.review_ok
           q == [r EXCEPT !.review_ok = b]
<1>1. b \in BOOLEAN /\ (b => r.stage \in {REVIEW, FINALIZE})
  <2>1. r.review_ok \in BOOLEAN /\ (r.review_ok => r.stage \in {REVIEW, FINALIZE})
    BY Zenon DEF RowOK, Row
  <2> QED BY <2>1, Zenon
<1>2. ResetForSameStageRequeue(r) = ToPending(q, TRUE)
  BY Zenon DEF ResetForSameStageRequeue
<1> HIDE DEF b
<1>3. Plain(r, q)
  BY <1>1, FlagStep, Zenon
<1>4. q.status \in Open
  BY Zenon DEF RowOK, Row
<1> HIDE DEF q
<1>5. Plain(q, ToPending(q, TRUE))
  BY <1>3, <1>4, PendingStep, Zenon DEF Plain, Step
<1> QED BY <1>2, <1>3, <1>5, StepTrans, Zenon DEF Plain

(* _approve_ticket_locked, by an operator or by a recipe: the row moves    *)
(* forward or stays, and a recipe does not take it through a ship gate.    *)
LEMMA ApproveStep ==
    ASSUME NEW r, RowOK(r), NEW operator \in BOOLEAN, NEW reviewed \in BOOLEAN,
           NEW q \in ApproveTicketLocked(r, operator, reviewed)
    PROVE  /\ Step(r, q) /\ r.status \in Parked /\ ~r.replan
           /\ q.status \in Open => r.stage <= q.stage
           /\ (r.status = "blocked" /\ ~operator) => Onward(r, q)
<1>1. /\ PLAN # REVIEW /\ REVIEW # FINALIZE /\ PLAN # FINALIZE /\ REVIEW + 1 = FINALIZE
      /\ r.stage \in Int /\ r.stage <= r.stage + 1 /\ r.stage <= r.stage
  BY DEF PLAN, REVIEW, FINALIZE, RowOK, Row, Stage
<1>2. CASE r.status = "signoff"
  <2>1. r.stage = REVIEW /\ r.status \in Open /\ r.status \in Parked /\ ~r.replan
    BY <1>1, <1>2, Zenon DEF RowOK, Open, Parked
  <2>2. q = AdvanceTaskPointer(r)
    BY <1>1, <1>2, <2>1, Zenon DEF ApproveTicketLocked, ClearSignoffGate
  <2> QED BY <1>1, <1>2, <2>1, <2>2, PointerStep, Zenon
<1>3. CASE /\ r.status = "blocked" /\ AtApprovalGate(r) /\ r.stage # FINALIZE
           /\ q \in ApproveAtStage(r, operator, reviewed)
  <2>1. r.status \in Open /\ r.status \in Parked /\ ~r.replan
    BY <1>3, Zenon DEF AtApprovalGate, RowOK, Open, Parked
  <2> SUFFICES /\ Step(r, q)
               /\ q.status \in Open => r.stage <= q.stage
               /\ ~operator => Onward(r, q)
    BY <2>1, Zenon
  <2>2. CASE r.stage = PLAN
    <3> DEFINE a == [r EXCEPT !.plan_ok = TRUE]
    <3>1. q = AdvanceTaskPointer(a) \/ q = ResetForSameStageRequeue(a)
      <4>1. PLAN # REVIEW
        BY <1>1, Zenon
      <4>2. ApproveAtStage(r, operator, reviewed)
              = {IF reviewed THEN AdvanceTaskPointer(a) ELSE ResetForSameStageRequeue(a)}
        BY <2>2, <4>1, Zenon DEF ApproveAtStage
      <4> HIDE DEF a
      <4> QED BY <1>3, <4>2, Zenon
    <3>2. Plain(r, a)
      BY <2>1, FlagStep, Zenon
    <3>3. a.status \in Open /\ ~a.replan /\ a.stage = r.stage
      BY <1>1, <2>1, <2>2, Zenon DEF RowOK, Row
    <3> HIDE DEF a
    <3>4. RowOK(a) /\ a.stage # FINALIZE /\ a.stage # REVIEW
      BY <1>1, <2>2, <3>2, <3>3, Zenon DEF Plain, Step
    <3>5. Onward(a, q) /\ (q.status \in Open => a.stage <= q.stage)
      <4>1. CASE q = AdvanceTaskPointer(a)
        BY <1>1, <3>3, <3>4, <4>1, PointerStep, Zenon
      <4>2. CASE q = ResetForSameStageRequeue(a)
        BY <1>1, <3>3, <3>4, <4>2, ResetStep, PlainOnward, Zenon DEF Plain
      <4> QED BY <3>1, <4>1, <4>2, Zenon
    <3> QED BY <3>2, <3>3, <3>5, StepTrans, Zenon DEF Plain, Onward
  <2>3. CASE r.stage = REVIEW
    <3>1. PICK a : /\ q = [a EXCEPT !.review_ok = TRUE]
                   /\ \/ a = ParkSignoffGate(r)
                      \/ ~r.signoff /\ a = AdvanceTaskPointer(r)
                   /\ ~operator => ~r.hold
      BY <1>1, <1>3, <2>3, Zenon DEF ApproveAtStage
    <3>2. /\ Plain(r, ParkSignoffGate(r)) /\ Step(r, AdvanceTaskPointer(r))
          /\ ~ShipGated(r) => Onward(r, AdvanceTaskPointer(r))
      BY <1>1, <2>1, <2>3, ShipParkStep, PointerStep, Zenon
    <3>3. ParkSignoffGate(r).stage = REVIEW /\ AdvanceTaskPointer(r).stage = FINALIZE
      <4>1. "signoff" \in Status /\ "other" \in Disposition
        BY Zenon DEF Status, Disposition
      <4>2. ParkSignoffGate(r).stage = r.stage
        BY <4>1, TransitionFields, Zenon DEF ParkSignoffGate, RowOK
      <4> QED BY <1>1, <2>1, <2>3, <4>2, PointerStep, Zenon
    <3>4. Step(r, a) /\ a.stage \in {REVIEW, FINALIZE} /\ (~operator => Onward(r, a))
      BY <3>1, <3>2, <3>3, PlainOnward, Zenon DEF Plain, ShipGated
    <3>5. Plain(a, q)
      BY <3>1, <3>4, FlagStep, Zenon DEF Step
    <3>6. r.stage <= a.stage /\ (q.status \in Open => r.stage <= q.stage)
      BY <1>1, <2>3, <3>4, <3>5, Zenon DEF Plain, REVIEW, FINALIZE
    <3> QED BY <3>4, <3>5, <3>6, StepTrans, PlainOnward, ZenonT(40) DEF Plain, Onward, Step
  <2>4. CASE r.stage \notin {PLAN, REVIEW}
    BY <1>1, <1>3, <2>1, <2>4, PointerStep, Zenon DEF ApproveAtStage
  <2> QED BY <2>2, <2>3, <2>4, Zenon
<1> QED BY <1>2, <1>3, Zenon DEF ApproveTicketLocked
=============================================================================
