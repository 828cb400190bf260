----------------------------- MODULE AdoptedPr ------------------------------
(***************************************************************************)
(* An adopted pull request: a row that carries somebody else's branch and  *)
(* the head it was reviewed at, the pin.  The pin follows the pushes of cw *)
(* sessions (settled by the dispatch tick after the session ended) and of  *)
(* the repair recipe; a head that moved otherwise parks the row until the  *)
(* operator re-pins it.  The tick reads the queue and origin without locks *)
(* and compares again under the queue's lock.                              *)
(*                                                                         *)
(* A commit is a number, parent[c] the commit it was made on; commit 1 is  *)
(* the default branch's and commit 2 the head of the PR as it was opened.  *)
(***************************************************************************)
EXTENDS Naturals, Sequences

CONSTANTS
    None,
    Loops,        \* dispatch loops
    MaxCommits,
    MaxTicks,     \* ticks over all loops
    MaxMoves,     \* operator commands, reads before them, and session ends
    MaxRepairs

AdoptedPrAssumption ==
    {MaxCommits, MaxTicks, MaxMoves, MaxRepairs} \subseteq Nat

VARIABLES
    parent,    \* the commit graph
    tip,       \* the head of the PR's branch on origin
    row,       \* None, or status, disposition, pin (adopted_head_sha) and due (adopted_repin_due)
    tick,      \* each loop's tick
    read,      \* the head an operator command read before its lock, or 0
    repair,    \* None, or the push of a repair whose pin is to be advanced
    foreign,   \* commits that others pushed
    covered,   \* those that a session ran over, or that came before its settle
    accepted,  \* those that the operator read and pinned
    missed,    \* a claim over a head that had left the pin before the tick began
    n

vars == <<parent, tip, row, tick, read, repair, foreign, covered, accepted, missed, n>>

-----------------------------------------------------------------------------

Ancestors(c) ==
    LET anc[x \in 0..Len(parent)] == IF x = 0 THEN {} ELSE {x} \cup anc[parent[x]] IN anc[c]
IsAncestor(a, c) == a \in Ancestors(c)

NoTick == [pc |-> "idle"]
Init ==
    /\ parent = <<0, 1>> /\ tip = 2
    /\ row = None /\ read = 0 /\ repair = None
    /\ tick = [l \in Loops |-> NoTick]
    /\ foreign = {} /\ covered = {} /\ accepted = {} /\ missed = FALSE
    /\ n = [ticks |-> 0, moves |-> 0, repairs |-> 0]

Count(f, max) == n[f] < max /\ n' = [n EXCEPT ![f] = @ + 1]

-----------------------------------------------------------------------------
(* Others, and the sessions (external).                                    *)

InSession == row # None /\ (row.status = "running" \/ row.due)

\* A push to the branch, on its head or over an older commit.
ForeignPush ==
    /\ Len(parent) < MaxCommits
    /\ LET c == Len(parent) + 1 IN
       \E on \in Ancestors(tip) :
         /\ parent' = Append(parent, on) /\ tip' = c
         /\ foreign' = foreign \cup {c}
         /\ covered' = IF InSession THEN covered \cup {c} ELSE covered
    /\ UNCHANGED <<row, tick, read, repair, accepted, missed, n>>

SessionPush ==
    /\ row # None /\ row.status = "running" /\ Len(parent) < MaxCommits
    /\ parent' = Append(parent, tip) /\ tip' = Len(parent')
    /\ UNCHANGED <<row, tick, read, repair, foreign, covered, accepted, missed, n>>

-----------------------------------------------------------------------------
(* Adoption.                                                               *)

\* read_adopted_pr: the PR is read, up to three times while its mergeability
\* is unknown; feedback built at another head refuses.
ReadAdoptedPr ==
    /\ row = None /\ Count("moves", MaxMoves)
    /\ read' = tip
    /\ UNCHANGED <<parent, tip, row, tick, repair, foreign, covered, accepted, missed>>
\* build_adopted_task and add_ticket: pinned at the head that was read; one
\* whose mergeability stayed unknown is parked.
BuildAdoptedTask ==
    /\ row = None /\ read # 0
    /\ \E unknown \in BOOLEAN :
         row' = [status |-> IF unknown THEN "blocked" ELSE "pending",
                 disposition |-> IF unknown THEN "adopt_pr_state_unknown" ELSE "none",
                 pin |-> read, due |-> FALSE]
    /\ accepted' = accepted \cup Ancestors(read) /\ read' = 0
    /\ UNCHANGED <<parent, tip, tick, repair, foreign, covered, missed, n>>

\* transition_task_status: every exit from RUNNING makes a settle due.
SessionEnds == \E s \in {"pending", "blocked", "completed", "failed"} :
    /\ row # None /\ row.status = "running" /\ Count("moves", MaxMoves)
    /\ row' = [row EXCEPT !.status = s, !.due = TRUE]
    /\ UNCHANGED <<parent, tip, tick, read, repair, foreign, covered, accepted, missed>>

-----------------------------------------------------------------------------
(* The operator's requeue.                                                 *)

Requeued(r) == [r EXCEPT !.status = "pending", !.disposition = "none"]

\* adopted_requeue_refusal: a drift park and an intake park need their own form.
RequeueTicket ==
    /\ row # None /\ row.status \in {"blocked", "failed", "completed"} /\ Count("moves", MaxMoves)
    /\ row.disposition = "none"
    /\ row' = Requeued(row)
    /\ UNCHANGED <<parent, tip, tick, read, repair, foreign, covered, accepted, missed>>

\* _repin_to_origin_head, under the requeue's lock.
RepinToOriginHead ==
    /\ row # None /\ row.disposition = "adopted_head_drift" /\ Count("moves", MaxMoves)
    /\ IsAncestor(row.pin, tip)
    /\ row' = [Requeued(row) EXCEPT !.pin = tip, !.due = FALSE]
    /\ accepted' = accepted \cup Ancestors(tip)
    /\ UNCHANGED <<parent, tip, tick, read, repair, foreign, covered, missed>>

\* The intake is read again before the lock; _repin_to_recheck takes the head
\* that was read, whatever its ancestry.
ReadRecheck ==
    /\ row # None /\ row.disposition = "adopt_pr_state_unknown" /\ Count("moves", MaxMoves)
    /\ read' = tip
    /\ UNCHANGED <<parent, tip, row, tick, repair, foreign, covered, accepted, missed>>
RepinToRecheck ==
    /\ row # None /\ read # 0 /\ read' = 0
    /\ IF row.disposition = "adopt_pr_state_unknown"
       THEN /\ row' = [Requeued(row) EXCEPT !.pin = read, !.due = FALSE]
            /\ accepted' = accepted \cup Ancestors(read)
       ELSE UNCHANGED <<row, accepted>>
    /\ UNCHANGED <<parent, tip, tick, repair, foreign, covered, missed, n>>

-----------------------------------------------------------------------------
(* The repair recipe on a completed row: the push, then the pin.           *)

RepairPush ==
    /\ row # None /\ row.status = "completed" /\ repair = None /\ Len(parent) < MaxCommits
    /\ Count("repairs", MaxRepairs)
    /\ \E on \in {tip, 1} : parent' = Append(parent, on)
    /\ tip' = Len(parent')
    /\ repair' = [expected |-> tip, new |-> tip']
    /\ UNCHANGED <<row, tick, read, foreign, covered, accepted, missed>>

\* The pin follows whatever the repair pushed over.
PinAny(expected, requireDue) == TRUE
\* _compare_and_set_pin: the pin is still the one that was read and, for a
\* settle, the row is still due one.
PinIsExpected(expected, requireDue) == row.pin = expected /\ (requireDue => row.due)
SetPin(new) == row' = [row EXCEPT !.pin = new, !.due = FALSE]

\* advance_pin_after_repair; a crash between the two leaves the pin behind.
AdvancePinAfterRepair ==
    /\ repair # None /\ repair' = None
    /\ \/ PinIsExpected(repair.expected, FALSE) /\ SetPin(repair.new)
       \/ UNCHANGED row
    /\ UNCHANGED <<parent, tip, tick, read, foreign, covered, accepted, missed, n>>

-----------------------------------------------------------------------------
(* The dispatch tick of loop l.                                            *)

At(l, pc) == tick[l].pc = pc
Go(l, t) == tick' = [tick EXCEPT ![l] = t]

\* The queue is read without a lock at the start of the tick.
TickStart(l) ==
    /\ At(l, "idle") /\ row # None /\ Count("ticks", MaxTicks)
    /\ Go(l, [pc |-> IF row.due THEN "flagged" ELSE "scan", snap |-> row,
              settled |-> FALSE, deferred |-> FALSE, pin |-> row.pin, hit |-> FALSE, blind |-> FALSE,
              drifted |-> (foreign \cap Ancestors(tip)) \ (Ancestors(row.pin) \cup covered)])
    /\ UNCHANGED <<parent, tip, row, read, repair, foreign, covered, accepted, missed>>

\* settle_adopted_pins reads the queue again; a row beyond the tick's limit waits.
FlaggedRow(l) ==
    /\ At(l, "flagged")
    /\ \/ row.due /\ Go(l, [tick[l] EXCEPT !.pc = "settle", !.pin = row.pin])
       \/ Go(l, [tick[l] EXCEPT !.pc = "scan"])
    /\ UNCHANGED <<parent, tip, row, read, repair, foreign, covered, accepted, missed, n>>

\* _settle_one reads origin's head; an unreadable one defers.  The pin moves to
\* a descendant; ancestry that cannot be decided keeps it.
SettleOne(l) ==
    /\ At(l, "settle")
    /\ \/ Go(l, [tick[l] EXCEPT !.pc = "scan", !.deferred = TRUE])
       \/ \E new \in {tick[l].pin} \cup (IF IsAncestor(tick[l].pin, tip) THEN {tip} ELSE {}) :
            Go(l, [pc |-> "apply", snap |-> tick[l].snap, drifted |-> tick[l].drifted,
                   expected |-> tick[l].pin, new |-> new])
    /\ UNCHANGED <<parent, tip, row, read, repair, foreign, covered, accepted, missed, n>>

\* apply_settled_pin: compare and set under the queue's lock.
ApplySettledPin(l) ==
    /\ At(l, "apply")
    /\ LET t == tick[l]
           applied == PinIsExpected(t.expected, TRUE)
       IN /\ IF applied THEN SetPin(t.new) ELSE UNCHANGED row
          /\ Go(l, [pc |-> "scan", snap |-> t.snap, settled |-> applied, deferred |-> ~applied,
                    pin |-> IF applied THEN t.new ELSE t.snap.pin, hit |-> FALSE, blind |-> FALSE,
                    drifted |-> t.drifted])
    /\ UNCHANGED <<parent, tip, read, repair, foreign, covered, accepted, missed, n>>

\* _scan_candidates: a row pending in the snapshot and not about to move.
ScanCandidate(t) ==
    /\ t.snap.status = "pending" /\ ~t.deferred
    /\ t.snap.due => t.settled
EffectivePin(t) == IF t.settled THEN t.pin ELSE t.snap.pin

\* resolve_adopted_head_drifts: one probe; an unreadable head is no drift.
ResolveDrifts(l) ==
    /\ At(l, "scan")
    /\ LET t == tick[l] IN
       \/ /\ ScanCandidate(t)
          /\ Go(l, [t EXCEPT !.pc = "claim", !.pin = EffectivePin(t), !.hit = tip # EffectivePin(t)])
       \/ /\ ScanCandidate(t)
          /\ Go(l, [t EXCEPT !.pc = "claim", !.blind = TRUE])
       \/ ~ScanCandidate(t) /\ Go(l, [t EXCEPT !.pc = "claim"])
    /\ UNCHANGED <<parent, tip, row, read, repair, foreign, covered, accepted, missed, n>>

\* _live_adopted_head_drift: the probe's pin is still the row's.
LiveDrift(t) == t.hit /\ row.pin = t.pin /\ ~row.due

\* _park_if_pre_dispatch_gated and the claim, under the queue's lock.
Claim(l) ==
    /\ At(l, "claim") /\ Go(l, NoTick)
    /\ LET t == tick[l] IN
       \/ (row.status # "pending" \/ row.due) /\ UNCHANGED <<row, covered, missed>>
       \/ /\ row.status = "pending" /\ LiveDrift(t)
          /\ row' = [row EXCEPT !.status = "blocked", !.disposition = "adopted_head_drift"]
          /\ UNCHANGED <<covered, missed>>
       \/ /\ row.status = "pending" /\ ~row.due /\ ~LiveDrift(t)
          /\ row' = [row EXCEPT !.status = "running"]
          /\ covered' = covered \cup (foreign \cap Ancestors(tip))
          /\ missed' = (missed \/ (~t.blind /\ ((t.drifted \cap Ancestors(tip)) \ Ancestors(row.pin)) # {}))
    /\ UNCHANGED <<parent, tip, read, repair, foreign, accepted, n>>

Next ==
    \/ ForeignPush \/ SessionPush \/ ReadAdoptedPr \/ BuildAdoptedTask \/ SessionEnds
    \/ RequeueTicket \/ RepinToOriginHead \/ ReadRecheck \/ RepinToRecheck
    \/ RepairPush \/ AdvancePinAfterRepair
    \/ \E l \in Loops : \/ TickStart(l) \/ FlaggedRow(l) \/ SettleOne(l) \/ ApplySettledPin(l)
                        \/ ResolveDrifts(l) \/ Claim(l)

Spec == Init /\ [][Next]_vars

-----------------------------------------------------------------------------

\* A commit that others pushed enters the pin only when the operator pinned it
\* or a session ran between its push and the settle (_compare_and_set_pin,
\* _settle_one, _repin_to_origin_head).
UnreviewedHeld ==
    row # None => foreign \cap Ancestors(row.pin) \subseteq accepted \cup covered

\* A head that had left the pin outside a session before the tick began, and
\* that origin would have shown, is never claimed (the runbook's "Before every
\* claim the dispatch loop compares the PR's origin head with the pin").
DriftParks == ~missed

=============================================================================
