--------------------------- MODULE DevQueueProofs ---------------------------
(***************************************************************************)
(* Invariants of the dev queue, proved for any clients, tickets, ceiling   *)
(* and bounds, with the cancelled-row recipe off.  The inductive invariant *)
(* is Inv: every row satisfies RowOK, a ticket has one open row, and the   *)
(* copy of a row the dispatch loop took at its claim has not been overtaken. *)
(***************************************************************************)
EXTENDS DevQueue, TicketRowProofs, WellFoundedInduction

(* The claim in flight: as long as its row runs, what the loop decided on  *)
(* its copy -- that the plan may be bypassed -- is true of the row.        *)
SpawnOK ==
    /\ spawn.phase # "idle" => spawn.slot \in Slots
    /\ (spawn.phase = "claimed" /\ spawn.bypass /\ ClaimedRowRuns) =>
          rows[spawn.slot].stage = PLAN /\ ~rows[spawn.slot].replan

(* The slots not given out yet. *)
FreshSlots == \A i \in Slots : i > added => rows[i].status = "absent"

Inv ==
    /\ TypeOK
    /\ \A i \in Slots : RowOK(rows[i])
    /\ AtMostOneOpenRow
    /\ SpawnOK
    /\ FreshSlots

-----------------------------------------------------------------------------
(* The kinds of steps *)

(* What a rewrite of r into q does to the stage of an open row: one that   *)
(* waits in the queue stays at its stage; a claimed or parked one moves    *)
(* forward, or goes back and waits its turn, a claimed one only to         *)
(* implementation.                                                         *)
Moves(r, q) ==
    /\ Step(r, q)
    /\ q.status \in Open =>
          /\ r.status = "pending" => q.stage = r.stage
          /\ q.stage < r.stage => q.status = "pending" /\ (r.status = "running" => q.stage = IMPL)

(* What a rewrite by the daemon keeps as well: it takes no row through a   *)
(* ship gate and none that is to be planned again over PLAN.               *)
AutoMove(r, q) ==
    /\ Moves(r, q)
    /\ q.status \in Open =>
          /\ (r.stage # FINALIZE /\ q.stage = FINALIZE) => ~ShipGated(r)
          /\ r.replan => q.stage = r.stage

Rewrites == \A i \in Slots : Moves(rows[i], rows'[i])
AutoRewrites == \A i \in Slots : AutoMove(rows[i], rows'[i])

(* A row is added, or a parked or finished one put back into the queue:    *)
(* its ticket has no other open row.                                       *)
Opens ==
    \E i \in Slots :
       /\ rows[i].status \notin {"pending", "running"}
       /\ rows'[i].status \in {"pending", "blocked"}
       /\ rows[i].status # "absent" =>
             /\ Key(rows'[i]) = Key(rows[i])
             /\ rows[i].stage <= rows'[i].stage
             /\ rows[i].high_water <= rows'[i].high_water
             /\ rows[i].stage < rows'[i].stage => rows'[i].stage <= rows'[i].high_water
       /\ \A j \in Slots \ {i} :
             /\ rows'[j] = rows[j]
             /\ Key(rows[j]) = Key(rows'[i]) => rows[j].status \notin Open

(* The loop claims a row, or lifts the row it claimed over PLAN. *)
Claims ==
    \E i \in Slots :
       /\ rows[i].status = "pending" /\ rows'[i].status = "running"
       /\ Key(rows'[i]) = Key(rows[i]) /\ rows'[i].stage = rows[i].stage
       /\ rows'[i].high_water = rows[i].high_water
       /\ \A j \in Slots \ {i} : rows'[j] = rows[j]

Lifts ==
    \E i \in Slots :
       /\ rows[i].status = "running" /\ rows'[i].status = "running"
       /\ rows[i].stage = PLAN /\ ~rows[i].replan /\ rows'[i].stage = IMPL
       /\ Key(rows'[i]) = Key(rows[i])
       /\ rows[i].high_water <= rows'[i].high_water /\ IMPL <= rows'[i].high_water
       /\ \A j \in Slots \ {i} : rows'[j] = rows[j]

(* What every step does, and what every step of the daemon does. *)
Kept == Inv' /\ (Rewrites \/ Opens \/ Claims \/ Lifts)
AutoKept == Inv' /\ (AutoRewrites \/ Claims \/ Lifts)

(* The steps of the daemon are steps. *)
LEMMA AutoIsKept == AutoKept => Kept
BY Zenon DEF AutoKept, Kept, AutoRewrites, Rewrites, AutoMove

(* Rewrites that leave the stage alone, and routing and the gate recipes. *)
LEMMA PlainAuto == ASSUME NEW r, RowOK(r), NEW q, Plain(r, q) PROVE AutoMove(r, q)
BY DEF AutoMove, Moves, Plain, RowOK, Row, Stage, PLAN, FINALIZE

LEMMA OnwardAuto ==
    ASSUME NEW r, RowOK(r), NEW q, Onward(r, q), r.status # "pending", ~r.replan
    PROVE  AutoMove(r, q)
<1>1. q.status \in Open => r.stage \in Int /\ q.stage \in Int
  BY DEF Onward, Step, RowOK, Row, Stage, PLAN, FINALIZE
<1> QED BY <1>1 DEF AutoMove, Moves, Onward

-----------------------------------------------------------------------------
(* Lookups *)

(* A non-empty set of slots has a newest member. *)
LEMMA NewestIsLast ==
    ASSUME NEW S, S \subseteq Slots, S # {}
    PROVE  Newest(S) \in S /\ \A j \in S : j <= Newest(S)
<1> DEFINE T == {MaxRows - i : i \in S}
<1>1. T \subseteq Nat /\ T # {}
  <2>1. \A i \in S : MaxRows - i \in Nat
    BY RowsAssumption DEF RowsAssumption, Slots
  <2> QED BY <2>1, Zenon
<1>2. PICK x \in T : \A y \in T : ~(<<y, x>> \in OpToRel(<, Nat))
  BY <1>1, NatLessThanWellFounded, WFMin, Zenon
<1>3. \A y \in T : x <= y
  <2>1. \A y \in T : ~(y < x)
    <3> TAKE y \in T
    <3>1. <<y, x>> \in Nat \X Nat /\ <<y, x>>[1] = y /\ <<y, x>>[2] = x
      BY <1>1, Zenon
    <3> QED BY <1>2, <3>1, Zenon DEF OpToRel
  <2> HIDE DEF T
  <2> QED BY <1>1, <2>1
<1>4. PICK i \in S : x = MaxRows - i
  BY Zenon
<1>5. \A j \in S : j <= i
  <2> TAKE j \in S
  <2>1. MaxRows - i <= MaxRows - j
    BY <1>3, <1>4, Zenon
  <2> QED BY <2>1, RowsAssumption DEF RowsAssumption, Slots
<1> QED BY <1>5, Zenon DEF Newest

(* _find_ticket returns a row of the ticket, and an open one if it has any. *)
LEMMA FindTicketFinds ==
    ASSUME NEW c, NEW t, RowsOf(c, t) # {}
    PROVE  /\ FindTicket(c, t) \in RowsOf(c, t)
           /\ rows[FindTicket(c, t)].status \notin Open =>
                \A j \in RowsOf(c, t) : rows[j].status \notin Open
<1> DEFINE live == {i \in RowsOf(c, t) : rows[i].status \in {"pending", "running"}}
           parked == {i \in RowsOf(c, t) : rows[i].status \in Parked}
           S == IF live # {} THEN live ELSE IF parked # {} THEN parked ELSE RowsOf(c, t)
<1>1. S # {} /\ S \subseteq RowsOf(c, t) /\ RowsOf(c, t) \subseteq Slots
  BY Zenon DEF RowsOf
<1>2. FindTicket(c, t) \in S
  <2>1. FindTicket(c, t) = Newest(S)
    BY Zenon DEF FindTicket
  <2> HIDE DEF S
  <2> QED BY <1>1, <2>1, NewestIsLast, Zenon
<1> QED BY <1>1, <1>2, Zenon DEF Open, Parked

-----------------------------------------------------------------------------
(* Rewrites of the rows *)

(* A step that rewrites every row and does not claim. *)
LEMMA RewriteKeeps ==
    ASSUME Inv, rows' = [i \in Slots |-> rows'[i]], Rewrites,
           added' = added, launched' \in [Slots -> Nat], spawn' \in Spawn,
           spawn'.phase # "idle" => spawn'.slot \in Slots,
           spawn'.phase = "claimed" => spawn' = spawn
    PROVE  Kept /\ (AutoRewrites => AutoKept)
<1>1. \A i \in Slots : Step(rows[i], rows'[i])
  BY Zenon DEF Rewrites, Moves
<1>2. \A i \in Slots : RowOK(rows'[i])
  BY <1>1, Zenon DEF Step
<1>3. rows' \in [Slots -> Row]
  BY <1>2, Zenon DEF RowOK
<1>4. TypeOK'
  BY <1>3, Zenon DEF Inv, TypeOK, Slots, Spawn
<1>5. AtMostOneOpenRow'
  BY <1>1 DEF Inv, AtMostOneOpenRow, Step, Key, Slots
<1>6. SpawnOK'
  BY <1>1 DEF Inv, SpawnOK, Step, ClaimedRowRuns, Slots
<1>7. FreshSlots'
  BY <1>1, Zenon DEF Inv, FreshSlots, Step, Slots
<1> QED BY <1>2, <1>4, <1>5, <1>6, <1>7, Zenon DEF Inv, Slots, Kept, AutoKept

(* A step that rewrites one row and nothing else. *)
LEMMA SetRowKeeps ==
    ASSUME Inv, NEW i \in Slots, NEW q, SetRow(i, q), Plain(rows[i], q) \/ Moves(rows[i], q)
    PROVE  Kept /\ (Plain(rows[i], q) \/ AutoMove(rows[i], q) => AutoKept)
<1>1. /\ rows' = [j \in Slots |-> rows'[j]]
      /\ \A j \in Slots : rows'[j] = IF j = i THEN q ELSE rows[j]
  BY Zenon DEF SetRow, Inv, TypeOK
<1>2. \A j \in Slots : AutoMove(rows[j], rows[j]) /\ RowOK(rows[j])
  BY StepRefl, PlainAuto, Zenon DEF Inv
<1>3. Plain(rows[i], q) => AutoMove(rows[i], q)
  BY <1>2, PlainAuto, Zenon
<1>4. Rewrites
  BY <1>1, <1>2, <1>3, Zenon DEF Rewrites, AutoMove
<1>5. Plain(rows[i], q) \/ AutoMove(rows[i], q) => AutoRewrites
  BY <1>1, <1>2, <1>3, Zenon DEF AutoRewrites
<1> QED BY <1>1, <1>4, <1>5, RewriteKeeps, Zenon DEF SetRow, Inv, TypeOK, SpawnOK

(* A step that rewrites a set of rows at their stages and nothing else. *)
LEMMA BulkKeeps ==
    ASSUME Inv, rows' = [i \in Slots |-> rows'[i]],
           \A i \in Slots : rows'[i] = rows[i] \/ Plain(rows[i], rows'[i]),
           UNCHANGED <<added, spawn, launched>>
    PROVE  Kept /\ AutoKept
<1>1. \A i \in Slots : AutoMove(rows[i], rows'[i])
  BY StepRefl, PlainAuto, Zenon DEF Inv
<1>2. Rewrites /\ AutoRewrites
  BY <1>1, Zenon DEF Rewrites, AutoRewrites, AutoMove
<1> QED BY <1>2, RewriteKeeps, Zenon DEF Inv, TypeOK, SpawnOK

-----------------------------------------------------------------------------
(* New and deleted rows *)

(* A row nothing has happened to yet. *)
LEMMA FreshRowOK ==
    ASSUME NEW q \in Row, q.status \notin {"running", "signoff"}, q.unproductive = 0,
           q.review_ok = FALSE, q.replan = FALSE
    PROVE  RowOK(q)
BY CeilingAssumption DEF CeilingAssumption, RowOK

(* Deleting a row. *)
LEMMA DeletedStep == ASSUME NEW r, RowOK(r) PROVE Plain(r, Deleted(r))
<1> DEFINE q == Deleted(r)
<1>1. r.client \in Clients /\ r.ticket \in Tickets
  BY Zenon DEF RowOK, Row
<1>2. q \in Row
  BY <1>1 DEF Deleted, NewRow, Row, SessionRef, Stage, PLAN, FINALIZE, Disposition
<1>3. /\ q.client = r.client /\ q.ticket = r.ticket /\ q.status = "absent"
      /\ q.unproductive = 0 /\ q.review_ok = FALSE /\ q.replan = FALSE
  BY Zenon DEF Deleted, NewRow
<1> HIDE DEF q
<1>4. RowOK(q)
  BY <1>2, <1>3, FreshRowOK, Zenon
<1> QED BY <1>3, <1>4, Zenon DEF Plain, Step, Open, q

(* Cancelling a row, finished or not. *)
LEMMA CancelStep ==
    ASSUME NEW r, RowOK(r), r.status # "absent"
    PROVE  Plain(r, CancelRow(r)) /\ Plain(r, Transition(r, "cancelled", "none", TRUE))
<1>1. "cancelled" \in Status \ {"running"} /\ "cancelled" \notin Open /\ "none" \in Disposition
  BY Zenon DEF Status, Open, Disposition
<1> QED BY <1>1, TransitionStep, Zenon DEF CancelRow

(* A row is added for a ticket without an open one. *)
LEMMA AddRowKeeps ==
    ASSUME Inv, NEW q, RowOK(q), AddRow(q),
           q.status \in {"pending", "blocked"},
           \A i \in RowsOf(q.client, q.ticket) : rows[i].status \notin Open
    PROVE  Kept
<1> DEFINE n == added + 1
<1>1. n \in Slots
  BY RowsAssumption DEF RowsAssumption, AddRow, Inv, TypeOK, Slots
<1>2. /\ rows' = [rows EXCEPT ![n] = q] /\ spawn' = spawn /\ launched' = launched
      /\ added' = n /\ q \in Row
  BY Zenon DEF AddRow, RowOK
<1>3. \A i \in Slots : rows'[i] = IF i = n THEN q ELSE rows[i]
  BY <1>2, Zenon DEF Inv, TypeOK
<1>4. TypeOK'
  BY <1>1, <1>2 DEF Inv, TypeOK, Slots, Spawn
<1>5. \A i \in Slots : RowOK(rows'[i])
  BY <1>3, Zenon DEF Inv
<1>6. \A i \in Slots : Key(rows[i]) = Key(q) => rows[i].status \notin Open
  <2> SUFFICES ASSUME NEW i \in Slots, Key(rows[i]) = Key(q), rows[i].status \in Open
               PROVE  FALSE
    BY Zenon
  <2>1. rows[i].client = q.client /\ rows[i].ticket = q.ticket
    BY Zenon DEF Key
  <2>2. i \in RowsOf(q.client, q.ticket)
    BY <2>1, Zenon DEF RowsOf, Present, Open
  <2> QED BY <2>2, Zenon
<1>7. n > added /\ \A i \in Slots : i > n => i > added
  BY DEF Inv, TypeOK, Slots
<1> HIDE DEF n
<1>8. AtMostOneOpenRow'
  BY <1>1, <1>3, <1>6, Zenon DEF Inv, AtMostOneOpenRow, Slots
<1>9. SpawnOK'
  BY <1>2, <1>3, Zenon DEF Inv, SpawnOK, ClaimedRowRuns, Slots
<1>10. FreshSlots'
  BY <1>1, <1>2, <1>3, <1>7, SMTT(40) DEF Inv, FreshSlots, Slots
<1>11. Opens
  BY <1>1, <1>3, <1>6, <1>7, Zenon DEF Opens, Inv, FreshSlots
<1> QED BY <1>4, <1>5, <1>8, <1>9, <1>10, <1>11, Zenon DEF Inv, Slots, Kept

-----------------------------------------------------------------------------
(* Operator commands *)

(* reset_attempts of a row that does not run. *)
LEMMA ResetAttemptsStep ==
    ASSUME NEW r, RowOK(r), NEW reset \in BOOLEAN
    PROVE  /\ Plain(r, ResetAttempts(r, reset))
           /\ ResetAttempts(r, reset).status = r.status
           /\ ResetAttempts(r, reset).stage = r.stage
           /\ ResetAttempts(r, reset).high_water = r.high_water
<1> DEFINE n == IF reset THEN 0 ELSE r.unproductive
           q == [r EXCEPT !.unproductive = n]
<1>1. n \in Nat /\ n <= r.unproductive /\ r.unproductive \in Nat
  BY DEF RowOK, Row
<1>2. ResetAttempts(r, reset) = q
  BY Zenon DEF ResetAttempts
<1> HIDE DEF n
<1>3. q \in Row
  BY <1>1, Zenon DEF RowOK, Row
<1>4. SameMarks(r, q) /\ q.status = r.status /\ q.stage = r.stage /\ q.session = r.session
      /\ q.unproductive = n /\ q.high_water = r.high_water
  BY Zenon DEF RowOK, Row, SameMarks
<1> HIDE DEF q
<1>5. RowOK(q) /\ r.stage \in Int /\ r.high_water \in Int
  BY <1>1, <1>3, <1>4, CeilingAssumption, SMTT(40)
  DEF CeilingAssumption, RowOK, SameMarks, Row, Stage, PLAN, FINALIZE
<1>6. Plain(r, q)
  BY <1>4, <1>5 DEF Plain, Step, SameMarks
<1> QED BY <1>2, <1>4, <1>6, Zenon

(* The tail of requeue_ticket: a parked or finished row goes back into the *)
(* queue at its stage or a later one, without its re-plan marker.          *)
LEMMA RequeueTail ==
    ASSUME NEW r, RowOK(r), r.status \notin {"pending", "running"},
           NEW s \in Stage, r.stage <= s, NEW q, q = r \/ q = AdvanceStage(r, s)
    PROVE  LET p == RequeueReset(q) IN
           /\ RowOK(p) /\ p.client = r.client /\ p.ticket = r.ticket /\ p.status = "pending"
           /\ r.stage <= p.stage /\ r.high_water <= p.high_water
           /\ r.stage < p.stage => p.stage <= p.high_water
<1> DEFINE b == IF q.stage = REVIEW THEN FALSE ELSE q.review_ok
           a == [q EXCEPT !.review_ok = b]
           t == Transition(a, "pending", "none", TRUE)
           u == Unbind(t)
           p == [u EXCEPT !.regress = 0, !.replan = FALSE]
<1>1. /\ q \in Row /\ q.client = r.client /\ q.ticket = r.ticket /\ q.status = r.status
      /\ q.unproductive = r.unproductive
      /\ q.review_ok => q.stage \in {REVIEW, FINALIZE}
      /\ r.stage <= q.stage /\ r.high_water <= q.high_water
      /\ r.stage < q.stage => q.stage <= q.high_water
  <2>1. AdvanceStage(r, s) \in Row /\ SameMarks(r, AdvanceStage(r, s))
        /\ AdvanceStage(r, s).status = r.status /\ AdvanceStage(r, s).stage = s
        /\ AdvanceStage(r, s).unproductive = r.unproductive
        /\ r.high_water <= AdvanceStage(r, s).high_water /\ s <= AdvanceStage(r, s).high_water
    BY StageFields, Zenon DEF RowOK
  <2>2. /\ r.review_ok => s \in {REVIEW, FINALIZE}
        /\ r.stage \in Int /\ r.high_water \in Int
    BY DEF RowOK, Row, Stage, PLAN, REVIEW, FINALIZE
  <2> QED BY <2>1, <2>2, SMTT(40) DEF RowOK, SameMarks
<1>2. RequeueReset(q) = p
  BY Zenon DEF RequeueReset, ResetForSameStageRequeue, ToPending
<1>3. b \in BOOLEAN /\ (b => q.stage \in {REVIEW, FINALIZE})
  <2>1. q.review_ok \in BOOLEAN
    BY <1>1, Zenon DEF Row
  <2> QED BY <1>1, <2>1, Zenon
<1> HIDE DEF b
<1>4. /\ a \in Row /\ a.client = q.client /\ a.ticket = q.ticket /\ a.status = q.status
      /\ a.unproductive = q.unproductive /\ a.stage = q.stage /\ a.review_ok = b
      /\ a.high_water = q.high_water
  BY <1>1, <1>3, Zenon DEF Row
<1> HIDE DEF a
<1>5. /\ t \in Row /\ SameMarks(a, t) /\ t.status = "pending" /\ t.stage = a.stage
      /\ t.unproductive = a.unproductive /\ t.high_water = a.high_water
  <2>1. "pending" \in Status /\ "none" \in Disposition
    BY Zenon DEF Status, Disposition
  <2> QED BY <1>1, <1>4, <2>1, TransitionFields, Zenon
<1> HIDE DEF t
<1>6. /\ u \in Row /\ SameMarks(t, u) /\ u.status = "pending" /\ u.stage = t.stage
      /\ u.unproductive = t.unproductive /\ u.high_water = t.high_water
  BY <1>5, UnbindFields, Zenon
<1> HIDE DEF u
<1>7. /\ p \in Row /\ p.client = u.client /\ p.ticket = u.ticket /\ p.status = u.status
      /\ p.unproductive = u.unproductive /\ p.stage = u.stage /\ p.replan = FALSE
      /\ p.review_ok = u.review_ok /\ p.high_water = u.high_water
  BY <1>6, Zenon DEF Row
<1> HIDE DEF p
<1>8. RowOK(p) /\ p.client = r.client /\ p.ticket = r.ticket /\ p.status = "pending"
  BY <1>1, <1>3, <1>4, <1>5, <1>6, <1>7 DEF RowOK, SameMarks
<1>9. p.stage = q.stage /\ p.high_water = q.high_water
  BY <1>4, <1>5, <1>6, <1>7, Zenon
<1> QED BY <1>1, <1>2, <1>8, <1>9, Zenon

(* A finished row is opened again for a ticket without an open one. *)
LEMMA ReopenKeeps ==
    ASSUME Inv, NEW i \in Slots, NEW q, RowOK(q), SetRow(i, q), q.status = "pending",
           rows[i].status \notin {"absent", "pending", "running"},
           q.client = rows[i].client, q.ticket = rows[i].ticket,
           rows[i].stage <= q.stage, rows[i].high_water <= q.high_water,
           rows[i].stage < q.stage => q.stage <= q.high_water,
           \A j \in Slots \ {i} : Key(rows[j]) = Key(rows[i]) => rows[j].status \notin Open
    PROVE  Kept
<1>1. /\ rows' = [rows EXCEPT ![i] = q] /\ spawn' = spawn /\ launched' = launched
      /\ added' = added /\ q \in Row
  BY Zenon DEF SetRow, RowOK
<1>2. \A j \in Slots : rows'[j] = IF j = i THEN q ELSE rows[j]
  BY <1>1, Zenon DEF Inv, TypeOK
<1>3. TypeOK'
  BY <1>1, Zenon DEF Inv, TypeOK, Slots, Spawn
<1>4. \A j \in Slots : RowOK(rows'[j])
  BY <1>2, Zenon DEF Inv
<1>5. Key(q) = Key(rows[i])
  BY Zenon DEF Key
<1>6. AtMostOneOpenRow'
  BY <1>2, <1>5, ZenonT(40) DEF Inv, AtMostOneOpenRow, Slots
<1>7. SpawnOK'
  BY <1>1, <1>2, Zenon DEF Inv, SpawnOK, ClaimedRowRuns, Slots
<1>8. FreshSlots'
  BY <1>1, <1>2, Zenon DEF Inv, FreshSlots, Slots
<1>9. Opens
  BY <1>2, <1>5, ZenonT(40) DEF Opens
<1> QED BY <1>3, <1>4, <1>6, <1>7, <1>8, <1>9, Zenon DEF Inv, Slots, Kept

(* Deleting any set of rows. *)
LEMMA DeleteKeeps == ASSUME Inv, NEW S, SetRows(S, Deleted) PROVE Kept
<1>1. /\ rows' = [i \in Slots |-> IF i \in S THEN Deleted(rows[i]) ELSE rows[i]]
      /\ UNCHANGED <<added, spawn, launched>>
  BY Zenon DEF SetRows
<1>2. \A i \in Slots : rows'[i] = rows[i] \/ Plain(rows[i], rows'[i])
  BY <1>1, DeletedStep, Zenon DEF Inv
<1> QED BY <1>1, <1>2, BulkKeeps, Zenon

(* Adding, removing and cancelling the rows of a ticket. *)
LEMMA CrudKeeps ==
    ASSUME Inv, NEW c \in Clients, NEW t \in Tickets
    PROVE  /\ \A s \in EntryStages, g \in ShipGates : AddTicket(c, t, s, g[1], g[2]) => Kept
           /\ \A s \in EntryStages, st \in {"pending", "blocked"}, g \in ShipGates :
                 AddAdopted(c, t, s, st, g[1], g[2]) => Kept
           /\ \A st, d : RemoveTicket(c, t, st, d) => Kept
           /\ CancelTicket(c, t) => Kept
<1>1. EntryStages \subseteq Stage /\ ShipGates \subseteq BOOLEAN \X BOOLEAN
  BY ConfigAssumption, Zenon DEF ConfigAssumption
<1>2. ASSUME NEW s \in EntryStages, NEW st \in {"pending", "blocked"}, NEW d \in Disposition,
             NEW g \in ShipGates, AddRow(NewRow(c, t, st, s, d, g[1], g[2])),
             \A i \in RowsOf(c, t) : rows[i].status \notin Open
      PROVE  Kept
  <2> DEFINE q == NewRow(c, t, st, s, d, g[1], g[2])
  <2>1. /\ (IF s = PLAN THEN 0 ELSE s) \in 0 .. FINALIZE
        /\ s \in Stage /\ g[1] \in BOOLEAN /\ g[2] \in BOOLEAN
    BY <1>1, SMTT(40) DEF Stage, PLAN, FINALIZE
  <2>2. q \in Row
    BY <2>1, Zenon DEF NewRow, Row, Status, SessionRef
  <2>3. /\ q.client = c /\ q.ticket = t /\ q.status = st /\ q.unproductive = 0
        /\ q.review_ok = FALSE /\ q.replan = FALSE
    BY Zenon DEF NewRow
  <2>4. AddRow(q)
    BY <1>2, Zenon
  <2> HIDE DEF q
  <2>5. RowOK(q)
    BY <2>2, <2>3, FreshRowOK, Zenon
  <2> QED BY <1>2, <2>3, <2>4, <2>5, AddRowKeeps, Zenon
<1>3. /\ \A s \in EntryStages, g \in ShipGates : AddTicket(c, t, s, g[1], g[2]) => Kept
      /\ \A s \in EntryStages, st \in {"pending", "blocked"}, g \in ShipGates :
            AddAdopted(c, t, s, st, g[1], g[2]) => Kept
  BY <1>2, Zenon DEF AddTicket, AddAdopted, MayAdd, Disposition
<1>4. ASSUME CancelTicket(c, t) PROVE Kept
  <2> DEFINE S == {i \in RowsOf(c, t) : rows[i].status # "cancelled"}
  <2>1. /\ rows' = [i \in Slots |-> IF i \in S THEN CancelRow(rows[i]) ELSE rows[i]]
        /\ UNCHANGED <<added, spawn, launched>>
    BY <1>4, Zenon DEF CancelTicket, SetRows
  <2>2. \A i \in S : rows[i].status # "absent"
    BY Zenon DEF RowsOf, Present
  <2> HIDE DEF S
  <2>3. \A i \in Slots : rows'[i] = rows[i] \/ Plain(rows[i], rows'[i])
    BY <2>1, <2>2, CancelStep, Zenon DEF Inv
  <2> QED BY <2>1, <2>3, BulkKeeps, Zenon
<1>5. ASSUME NEW st, NEW d, RemoveTicket(c, t, st, d) PROVE Kept
  BY <1>5, DeleteKeeps, Zenon DEF RemoveTicket
<1> QED BY <1>3, <1>4, <1>5, Zenon

(* Commands that do not name one ticket. *)
LEMMA StoreKeeps ==
    ASSUME Inv
    PROVE  /\ \A i \in Slots : CancelTaskForSession(i) => Kept
           /\ \A c, st : ClearTickets(c, st) => Kept
           /\ \A S \in SUBSET Slots : PruneTickets(S) => Kept
<1>1. ASSUME NEW i \in Slots, CancelTaskForSession(i) PROVE Kept
  <2>1. Plain(rows[i], CancelRow(rows[i]))
    BY <1>1, CancelStep, Zenon DEF Inv, CancelTaskForSession
  <2> QED BY <1>1, <2>1, SetRowKeeps, Zenon DEF CancelTaskForSession
<1>2. ASSUME NEW c, NEW st, ClearTickets(c, st) PROVE Kept
  BY <1>2, DeleteKeeps, Zenon DEF ClearTickets
<1>3. ASSUME NEW S \in SUBSET Slots, PruneTickets(S) PROVE Kept
  BY <1>3, DeleteKeeps, Zenon DEF PruneTickets
<1> QED BY <1>1, <1>2, <1>3, Zenon

(* Requeues, unblocks and approvals act on the row _find_ticket chooses. *)
LEMMA TicketKeeps ==
    ASSUME Inv, NEW c \in Clients, NEW t \in Tickets
    PROVE  /\ \A s \in Stage, reset \in BOOLEAN : RequeueRegress(c, t, s, reset) => Kept
           /\ \A s \in Stage \cup {0}, reset \in BOOLEAN : RequeueForward(c, t, s, reset) => Kept
           /\ UnblockTicket(c, t) => Kept
           /\ \A reviewed \in BOOLEAN : ApproveTicket(c, t, reviewed) => Kept
           /\ RevokePlanApproval(c, t) => Kept
<1> SUFFICES ASSUME RowsOf(c, t) # {} PROVE
           /\ \A s \in Stage, reset \in BOOLEAN : RequeueRegress(c, t, s, reset) => Kept
           /\ \A s \in Stage \cup {0}, reset \in BOOLEAN : RequeueForward(c, t, s, reset) => Kept
           /\ UnblockTicket(c, t) => Kept
           /\ \A reviewed \in BOOLEAN : ApproveTicket(c, t, reviewed) => Kept
           /\ RevokePlanApproval(c, t) => Kept
  BY Zenon DEF RequeueRegress, RequeueForward, UnblockTicket, ApproveTicket, RevokePlanApproval
<1> DEFINE i == FindTicket(c, t)
           r == rows[i]
<1>1. /\ i \in Slots /\ RowOK(r) /\ r.client = c /\ r.ticket = t
      /\ r.status \notin Open => \A j \in RowsOf(c, t) : rows[j].status \notin Open
      /\ r.status # "absent"
  BY FindTicketFinds, Zenon DEF Inv, RowsOf, Present
<1>2. ASSUME NEW q, SetRow(i, q), Plain(r, q) \/ Moves(r, q) PROVE Kept
  <2> HIDE DEF i
  <2> QED BY <1>1, <1>2, SetRowKeeps, Zenon
<1>3. ASSUME NEW s \in Stage, NEW reset \in BOOLEAN, RequeueRegress(c, t, s, reset) PROVE Kept
  <2> DEFINE a == ResetAttempts(r, reset)
  <2>1. r.status \in Parked /\ r.status \in Open /\ s < r.stage /\ SetRow(i, StageRegress(a, s))
    BY <1>3, Zenon DEF RequeueRegress, Parked, Open
  <2>2. Step(r, a) /\ a.status = r.status /\ a.stage = r.stage /\ RowOK(a)
    BY <1>1, ResetAttemptsStep, SMTT(40) DEF Plain, Step
  <2> HIDE DEF a, i
  <2>3. Step(a, StageRegress(a, s)) /\ StageRegress(a, s).status = "pending"
    BY <2>1, <2>2, RegressStep, Zenon
  <2>4. Step(r, StageRegress(a, s))
    BY <1>1, <2>2, <2>3, StepTrans, Zenon
  <2>5. Moves(r, StageRegress(a, s))
    BY <2>1, <2>3, <2>4, Zenon DEF Moves, Parked
  <2> QED BY <1>2, <2>1, <2>5, Zenon DEF i
<1>4. ASSUME NEW s \in Stage \cup {0}, NEW reset \in BOOLEAN, RequeueForward(c, t, s, reset)
      PROVE  Kept
  <2> DEFINE a == ResetAttempts(r, reset)
             q == IF s = 0 THEN a ELSE AdvanceStage(a, s)
             p == RequeueReset(q)
             to == IF s = 0 THEN r.stage ELSE s
  <2>1. /\ r.status \notin {"pending", "running"} /\ (s = 0 \/ s >= r.stage) /\ SetRow(i, p)
    BY <1>4, Zenon DEF RequeueForward
  <2>2. /\ Step(r, a) /\ a.status = r.status /\ a.stage = r.stage /\ RowOK(a)
        /\ a.client = r.client /\ a.ticket = r.ticket /\ a.high_water = r.high_water
    <3>1. Step(r, a) /\ a.status = r.status /\ a.stage = r.stage /\ a.high_water = r.high_water
      BY <1>1, ResetAttemptsStep, Zenon DEF Plain
    <3> HIDE DEF a, r, i
    <3> QED BY <3>1, Zenon DEF Step
  <2>3. to \in Stage /\ r.stage <= to /\ (q = a \/ q = AdvanceStage(a, to))
    <3>1. r.stage \in Stage
      BY <1>1, Zenon DEF RowOK, Row
    <3> HIDE DEF r, a
    <3>2. to \in Stage /\ r.stage <= to
      BY <2>1, <3>1 DEF Stage, PLAN, FINALIZE
    <3>3. q = a \/ q = AdvanceStage(a, to)
      BY Zenon
    <3> QED BY <3>2, <3>3, Zenon
  <2> HIDE DEF a, q, to, i
  <2>4. /\ RowOK(p) /\ p.client = r.client /\ p.ticket = r.ticket /\ p.status = "pending"
        /\ r.stage <= p.stage /\ r.high_water <= p.high_water
        /\ r.stage < p.stage => p.stage <= p.high_water
    BY <2>1, <2>2, <2>3, RequeueTail, SMTT(40)
  <2>5. \A j \in Slots \ {i} : Key(rows[j]) = Key(r) => rows[j].status \notin Open
    <3> SUFFICES ASSUME NEW j \in Slots, j # i, Key(rows[j]) = Key(r), rows[j].status \in Open
                 PROVE  FALSE
      BY Zenon
    <3>1. rows[j].client = c /\ rows[j].ticket = t
      BY <1>1, Zenon DEF Key
    <3>2. j \in RowsOf(c, t)
      BY <3>1, Zenon DEF RowsOf, Present, Open
    <3>3. r.status \in Open
      BY <1>1, <3>2, Zenon DEF i
    <3> QED BY <1>1, <3>3, Zenon DEF Inv, AtMostOneOpenRow, i
  <2> HIDE DEF p
  <2> QED BY <1>1, <2>1, <2>4, <2>5, ReopenKeeps, Zenon DEF i
<1>5. ASSUME UnblockTicket(c, t) PROVE Kept
  <2>1. r.status \in Open /\ SetRow(i, ToPending(r, TRUE))
    BY <1>5, Zenon DEF UnblockTicket, Open
  <2> QED BY <1>1, <1>2, <2>1, PendingStep, Zenon
<1>6. ASSUME NEW reviewed \in BOOLEAN, ApproveTicket(c, t, reviewed) PROVE Kept
  <2>1. PICK q \in ApproveTicketLocked(r, TRUE, reviewed) : SetRow(i, q)
    BY <1>6, Zenon DEF ApproveTicket
  <2>2. Moves(r, q)
    <3>1. Step(r, q) /\ r.status \in Parked /\ (q.status \in Open => r.stage <= q.stage)
      BY <1>1, <2>1, ApproveStep, Zenon
    <3>2. r.stage \in Int /\ q.stage \in Int
      BY <1>1, <3>1 DEF Step, RowOK, Row, Stage, PLAN, FINALIZE
    <3> QED BY <3>1, <3>2 DEF Moves, Parked
  <2> QED BY <1>2, <2>1, <2>2, Zenon
<1>7. ASSUME RevokePlanApproval(c, t) PROVE Kept
  <2>1. SetRow(i, [r EXCEPT !.plan_ok = FALSE])
    BY <1>7, Zenon DEF RevokePlanApproval
  <2>2. Plain(r, [r EXCEPT !.plan_ok = FALSE])
    BY <1>1, FlagStep, Zenon
  <2> QED BY <1>2, <2>1, <2>2, Zenon
<1> QED BY <1>3, <1>4, <1>5, <1>6, <1>7, Zenon

(* cw doctor --reap. *)
LEMMA DoctorKeeps ==
    ASSUME Inv, NEW t, NEW scope, NEW running \in BOOLEAN, NEW blocked \in BOOLEAN,
           NEW sibling \in BOOLEAN, DoctorReap(t, scope, running, blocked, sibling)
    PROVE  Kept
<1>1. \A i \in Slots :
         \/ rows'[i] = rows[i]
         \/ rows[i].status \in Open /\ rows'[i] = ToPending(rows[i], TRUE)
         \/ rows[i].status \in Open /\ rows'[i] = Transition(rows[i], "cancelled", "none", TRUE)
  BY Zenon DEF DoctorReap, Collapsible, TerminalSiblingPark, Open
<1>2. rows' = [i \in Slots |-> rows'[i]] /\ UNCHANGED <<added, spawn, launched>>
  BY Zenon DEF DoctorReap
<1>3. "none" \in Disposition
  BY Zenon DEF Disposition
<1>4. \A i \in Slots : rows'[i] = rows[i] \/ Plain(rows[i], rows'[i])
  BY <1>1, <1>3, PendingStep, OpenStep, Zenon DEF Inv
<1> QED BY <1>2, <1>4, BulkKeeps, Zenon

-----------------------------------------------------------------------------
(* The dispatch loop *)

(* A step of the loop rewrites its row and keeps the row's ticket. *)
LEMMA LoopKeeps ==
    ASSUME Inv, NEW i \in Slots, NEW q, RowOK(q), rows' = [rows EXCEPT ![i] = q],
           q.client = rows[i].client, q.ticket = rows[i].ticket, rows[i].status \in Open,
           added' = added, launched' = launched, spawn' \in Spawn, SpawnOK', Claims \/ Lifts
    PROVE  AutoKept
<1>1. \A j \in Slots : rows'[j] = IF j = i THEN q ELSE rows[j]
  BY Zenon DEF Inv, TypeOK
<1>2. TypeOK'
  BY Zenon DEF Inv, TypeOK, RowOK, Slots, Spawn
<1>3. \A j \in Slots : RowOK(rows'[j])
  BY <1>1, Zenon DEF Inv
<1>4. Key(q) = Key(rows[i])
  BY Zenon DEF Key
<1>5. AtMostOneOpenRow'
  BY <1>1, <1>4, SMTT(40) DEF Inv, AtMostOneOpenRow, Slots
<1>6. FreshSlots'
  BY <1>1, Zenon DEF Inv, FreshSlots, Slots, Open
<1> QED BY <1>2, <1>3, <1>5, <1>6, Zenon DEF Inv, Slots, AutoKept

(* _screen_and_claim. *)
LEMMA ClaimKeeps ==
    ASSUME Inv, NEW i \in Slots, Claim(i)
    PROVE  AutoKept
<1> DEFINE r == rows[i]
           t == Transition(r, "running", "none", TRUE)
           n == t.attempts + 1
           q == [t EXCEPT !.attempts = n]
           b == r.stage = PLAN /\ ~r.replan
           s == [slot |-> i, phase |-> "claimed", attempt |-> r.attempts + 1, bypass |-> b]
<1>1. /\ RowOK(r) /\ r.status = "pending" /\ r.unproductive < Ceiling
      /\ rows' = [rows EXCEPT ![i] = q] /\ spawn' = s /\ added' = added /\ launched' = launched
  BY Zenon DEF Claim, Inv
<1>2. /\ t \in Row /\ SameMarks(r, t) /\ t.status = "running" /\ t.stage = r.stage
      /\ t.session = r.session /\ t.unproductive = r.unproductive
      /\ t.high_water = r.high_water
  <2>1. "running" \in Status /\ "none" \in Disposition
    BY Zenon DEF Status, Disposition
  <2> QED BY <1>1, <2>1, TransitionFields, ZenonT(40) DEF RowOK
<1> HIDE DEF t
<1>3. n \in Nat
  BY <1>2 DEF Row
<1> HIDE DEF n
<1>4. /\ q \in Row /\ SameMarks(t, q) /\ q.status = "running" /\ q.stage = t.stage
      /\ q.session = t.session /\ q.unproductive = t.unproductive
      /\ q.high_water = t.high_water
  BY <1>2, <1>3, Zenon DEF Row, SameMarks
<1> HIDE DEF q
<1>5. RowOK(q) /\ q.client = r.client /\ q.ticket = r.ticket
  BY <1>1, <1>2, <1>4, Zenon DEF RowOK, SameMarks, Open
<1>6. s \in Spawn /\ s.slot = i /\ s.bypass = b
  <2>1. r.attempts + 1 \in Nat /\ i \in 0 .. MaxRows /\ b \in BOOLEAN
    BY <1>1, RowsAssumption, SMTT(40) DEF RowsAssumption, RowOK, Row, Slots
  <2> HIDE DEF b
  <2> QED BY <2>1, Zenon DEF Spawn
<1> HIDE DEF s
<1>7. SpawnOK'
  <2>1. rows'[i] = q
    BY <1>1, Zenon DEF Inv, TypeOK
  <2>2. spawn'.slot = i /\ spawn'.bypass = b
    BY <1>1, <1>6, Zenon
  <2>3. b => q.stage = PLAN /\ ~q.replan
    BY <1>2, <1>4, Zenon DEF SameMarks
  <2> HIDE DEF b
  <2> QED BY <2>1, <2>2, <2>3, Zenon DEF SpawnOK
<1>8. Claims
  <2>1. \A j \in Slots : rows'[j] = IF j = i THEN q ELSE rows[j]
    BY <1>1, Zenon DEF Inv, TypeOK
  <2> QED BY <1>1, <1>2, <1>4, <1>5, <2>1, SMTT(40) DEF Claims, Key
<1> QED BY <1>1, <1>5, <1>6, <1>7, <1>8, LoopKeeps, Zenon DEF Open

(* The session of a row that is not waiting to be planned again, bound to  *)
(* it early or with what it last reported.                                 *)
LEMMA SessionStep ==
    ASSUME NEW r, RowOK(r), r.status \in Open => ~r.replan, NEW s \in SessionRef
    PROVE  /\ Plain(r, [r EXCEPT !.session = s])
           /\ [r EXCEPT !.session = s].status = r.status
           /\ [r EXCEPT !.session = s].stage = r.stage
<1> DEFINE q == [r EXCEPT !.session = s]
<1>1. /\ q \in Row /\ SameMarks(r, q) /\ q.status = r.status /\ q.stage = r.stage
      /\ q.unproductive = r.unproductive /\ q.high_water = r.high_water
  BY Zenon DEF RowOK, Row, SameMarks
<1> HIDE DEF q
<1>2. RowOK(q) /\ r.stage \in Int /\ r.high_water \in Int
  BY <1>1, SMTT(40) DEF RowOK, SameMarks, Row, Stage, PLAN, FINALIZE
<1>3. Plain(r, q)
  BY <1>1, <1>2 DEF Plain, Step, SameMarks
<1> QED BY <1>1, <1>3, Zenon DEF q

(* _apply_spawn_success_fields. *)
LEMMA SpawnSuccessStep ==
    ASSUME NEW r, RowOK(r), r.status = "running"
    PROVE  Plain(r, SpawnSuccess(r))
<1> DEFINE q == SpawnSuccess(r)
<1>1. /\ q \in Row /\ q.client = r.client /\ q.ticket = r.ticket /\ q.status = r.status
      /\ q.stage = r.stage /\ q.replan = FALSE /\ q.review_ok = r.review_ok
      /\ q.unproductive = r.unproductive /\ q.high_water = r.high_water
      /\ q.hold = r.hold /\ q.signoff = r.signoff
  BY Zenon DEF SpawnSuccess, RowOK, Row, SessionRef
<1> HIDE DEF q
<1>2. RowOK(q) /\ r.stage \in Int /\ r.high_water \in Int
  BY <1>1 DEF RowOK, Row, Stage, PLAN, FINALIZE
<1>3. Plain(r, q)
  BY <1>1, <1>2 DEF Plain, Step, Open
<1> QED BY <1>3, Zenon DEF q

(* _revert_claimed_task_to_pending. *)
LEMMA RevertStep ==
    ASSUME NEW r, RowOK(r), r.status \in Open, NEW how
    PROVE  Plain(r, RevertClaimed(r, how))
<1> DEFINE u == how = "charged"
           q == ToPending(r, u)
           n == q.attempts - 1
           p == [q EXCEPT !.attempts = n]
<1>1. u \in BOOLEAN
  BY Zenon
<1> HIDE DEF u
<1>2. Plain(r, q)
  BY <1>1, PendingStep, Zenon
<1>3. RevertClaimed(r, how) = IF how = "deferred" /\ q.attempts > 0 THEN p ELSE q
  BY Zenon DEF RevertClaimed, u
<1> HIDE DEF q
<1>4. ASSUME q.attempts > 0 PROVE Plain(r, p)
  <2>1. n \in Nat /\ RowOK(q)
    BY <1>2, <1>4, SMTT(40) DEF Plain, Step, RowOK, Row
  <2> HIDE DEF n
  <2>2. p \in Row /\ SameMarks(q, p) /\ p.status = q.status /\ p.stage = q.stage
        /\ p.session = q.session /\ p.unproductive = q.unproductive
        /\ p.high_water = q.high_water
    BY <2>1, Zenon DEF RowOK, Row, SameMarks
  <2> HIDE DEF p
  <2>3. RowOK(p) /\ q.stage \in Int /\ q.high_water \in Int
    BY <2>1, <2>2, SMTT(40) DEF RowOK, SameMarks, Row, Stage, PLAN, FINALIZE
  <2>4. Plain(q, p)
    BY <2>2, <2>3, SMTT(40) DEF Plain, Step, SameMarks
  <2> QED BY <1>2, <2>4, StepTrans, Zenon DEF Plain
<1> HIDE DEF p
<1> QED BY <1>2, <1>3, <1>4, Zenon

(* From the claim to the worker, and the ways a spawn ends. *)
LEMMA SpawnKeeps ==
    ASSUME Inv
    PROVE  /\ \A bypass \in BOOLEAN : PrepareSpawn(bypass) => AutoKept
           /\ StampCodexSession => AutoKept
           /\ LaunchWorker => AutoKept
           /\ StampSpawnSuccess => AutoKept
           /\ SpawnLost => AutoKept
           /\ \A how \in {"charged", "uncharged", "deferred", "held", "other"} :
                 SpawnFails(how) => AutoKept
<1> DEFINE i == spawn.slot
           r == rows[i]
<1>1. /\ spawn \in Spawn /\ NoSpawn \in Spawn /\ NoSpawn.phase = "idle"
      /\ spawn.phase # "idle" => i \in Slots /\ RowOK(r)
  BY RowsAssumption, SMTT(40) DEF RowsAssumption, Inv, TypeOK, SpawnOK, Spawn, NoSpawn
<1>2. ASSUME NEW q, Plain(r, q), spawn.phase # "idle", rows' = [rows EXCEPT ![i] = q],
             spawn' = NoSpawn, added' = added, launched' = launched
      PROVE  AutoKept
  <2>1. \A j \in Slots : rows'[j] = IF j = i THEN q ELSE rows[j]
    BY <1>2, Zenon DEF Inv, TypeOK
  <2>2. Rewrites /\ AutoRewrites
    <3>1. \A j \in Slots : AutoMove(rows[j], rows'[j])
      BY <1>1, <1>2, <2>1, StepRefl, PlainAuto, ZenonT(40) DEF Inv
    <3> QED BY <3>1, Zenon DEF Rewrites, AutoRewrites, AutoMove
  <2>3. rows' = [j \in Slots |-> rows'[j]]
    BY <1>2, Zenon DEF Inv, TypeOK
  <2> QED BY <1>1, <1>2, <2>2, <2>3, RewriteKeeps, Zenon DEF Inv, TypeOK
<1>3. ASSUME rows' = rows, added' = added, launched' \in [Slots -> Nat], spawn' \in Spawn,
             spawn'.phase \in {"prepared", "launched"} => spawn'.slot \in Slots,
             spawn'.phase # "claimed"
      PROVE  AutoKept
  <2>1. rows' = [j \in Slots |-> rows'[j]] /\ \A j \in Slots : AutoMove(rows[j], rows'[j])
    BY <1>3, StepRefl, PlainAuto, Zenon DEF Inv, TypeOK
  <2>2. Rewrites /\ AutoRewrites
    BY <2>1, Zenon DEF Rewrites, AutoRewrites, AutoMove
  <2> QED BY <1>3, <2>1, <2>2, RewriteKeeps, Zenon DEF Spawn
<1>4. ASSUME NEW bypass \in BOOLEAN, PrepareSpawn(bypass) PROVE AutoKept
  <2> DEFINE s == [spawn EXCEPT !.phase = "prepared"]
  <2>1. /\ spawn.phase = "claimed" /\ (bypass => spawn.bypass) /\ spawn' = s
        /\ added' = added /\ launched' = launched
    BY <1>4, Zenon DEF PrepareSpawn
  <2>2. s \in Spawn /\ s.phase = "prepared" /\ s.slot = i
    BY <1>1, Zenon DEF Spawn
  <2> HIDE DEF s
  <2>3. CASE bypass /\ ClaimedRowRuns
    <3> DEFINE q == AdvanceStage(r, IMPL)
    <3>1. rows' = [rows EXCEPT ![i] = q]
      BY <1>4, <2>3, Zenon DEF PrepareSpawn
    <3>2. RowOK(r) /\ r.status = "running" /\ ~r.replan /\ i \in Slots /\ IMPL \in Stage
          /\ r.stage = PLAN
      BY <1>1, <2>1, <2>3 DEF Inv, SpawnOK, ClaimedRowRuns, IMPL, Stage, PLAN, FINALIZE
    <3>3. /\ q \in Row /\ SameMarks(r, q) /\ q.status = "running" /\ q.stage = IMPL
          /\ q.unproductive = r.unproductive
          /\ r.high_water <= q.high_water /\ IMPL <= q.high_water
      BY <3>2, StageFields, Zenon DEF RowOK
    <3> HIDE DEF q
    <3>4. RowOK(q) /\ q.client = r.client /\ q.ticket = r.ticket
      <4>1. ~q.review_ok /\ ~q.replan /\ q.unproductive < Ceiling /\ q.unproductive <= Ceiling
        BY <3>2, <3>3, SMTT(40) DEF RowOK, SameMarks, PLAN, REVIEW, FINALIZE
      <4> QED BY <3>3, <4>1, Zenon DEF RowOK, SameMarks
    <3>5. SpawnOK'
      BY <2>1, <2>2, <3>2, Zenon DEF SpawnOK, Slots
    <3>6. Lifts
      <4>1. \A j \in Slots : rows'[j] = IF j = i THEN q ELSE rows[j]
        BY <3>1, Zenon DEF Inv, TypeOK
      <4> HIDE DEF i
      <4> QED BY <3>2, <3>3, <3>4, <4>1, Zenon DEF Lifts, Key
    <3> QED BY <2>1, <2>2, <3>1, <3>2, <3>4, <3>5, <3>6, LoopKeeps, ZenonT(40) DEF Open
  <2>4. CASE ~(bypass /\ ClaimedRowRuns)
    <3>1. rows' = rows
      BY <1>4, <2>4, Zenon DEF PrepareSpawn
    <3> QED BY <1>1, <1>3, <2>1, <2>2, <3>1, Zenon DEF Inv, TypeOK
  <2> QED BY <2>3, <2>4, Zenon
<1>5. ASSUME LaunchWorker PROVE AutoKept
  <2> DEFINE s == [spawn EXCEPT !.phase = "launched"]
  <2>1. s \in Spawn /\ s.phase = "launched" /\ s.slot = i
    BY <1>1, Zenon DEF Spawn
  <2>2. launched' \in [Slots -> Nat]
    BY <1>1, <1>5, Zenon DEF LaunchWorker, Inv, TypeOK, Spawn
  <2>3. spawn' = s /\ rows' = rows /\ added' = added /\ i \in Slots
    BY <1>1, <1>5, Zenon DEF LaunchWorker
  <2> HIDE DEF s
  <2> QED BY <1>3, <2>1, <2>2, <2>3, Zenon
<1>6. ASSUME StampSpawnSuccess PROVE AutoKept
  <2>1. CASE ClaimedRowRuns
    <3>1. rows' = [rows EXCEPT ![i] = SpawnSuccess(r)] /\ RowOK(r) /\ spawn.phase # "idle"
          /\ r.status = "running" /\ spawn' = NoSpawn /\ added' = added /\ launched' = launched
      BY <1>1, <1>6, <2>1, Zenon DEF StampSpawnSuccess, ClaimedRowRuns
    <3> QED BY <1>2, <3>1, SpawnSuccessStep, Zenon
  <2>2. CASE ~ClaimedRowRuns
    BY <1>1, <1>3, <1>6, <2>2, Zenon DEF StampSpawnSuccess, Inv, TypeOK
  <2> QED BY <2>1, <2>2, Zenon
<1>7. ASSUME SpawnLost PROVE AutoKept
  BY <1>1, <1>3, <1>7, Zenon DEF SpawnLost, Inv, TypeOK
<1>8. ASSUME NEW how \in {"charged", "uncharged", "deferred", "held", "other"}, SpawnFails(how)
      PROVE  AutoKept
  <2> DEFINE q == IF how \in Disposition THEN Unbind(Park(r, how, FALSE))
                  ELSE RevertClaimed(r, how)
  <2>1. CASE ClaimedRowRuns
    <3>1. rows' = [rows EXCEPT ![i] = q] /\ RowOK(r) /\ spawn.phase # "idle"
          /\ r.status = "running" /\ spawn' = NoSpawn /\ added' = added /\ launched' = launched
      BY <1>1, <1>8, <2>1, Zenon DEF SpawnFails, ClaimedRowRuns
    <3>2. Plain(r, q)
      BY <3>1, OpenStep, RevertStep, Zenon DEF Open
    <3> HIDE DEF q
    <3> QED BY <1>2, <3>1, <3>2, Zenon
  <2>2. CASE ~ClaimedRowRuns
    BY <1>1, <1>3, <1>8, <2>2, Zenon DEF SpawnFails, Inv, TypeOK
  <2> QED BY <2>1, <2>2, Zenon
<1>9. ASSUME StampCodexSession PROVE AutoKept
  <2> DEFINE q == [r EXCEPT !.session = "bound"]
  <2>1. i \in Slots /\ RowOK(r) /\ r.stage = REVIEW /\ SetRow(i, q)
    BY <1>1, <1>9, Zenon DEF StampCodexSession
  <2>2. r.status \in Open => ~r.replan
    BY <2>1 DEF RowOK, REVIEW, PLAN
  <2>3. Plain(r, q)
    BY <2>1, <2>2, SessionStep, Zenon DEF SessionRef
  <2> HIDE DEF q
  <2> QED BY <2>1, <2>3, SetRowKeeps, Zenon
<1> QED BY <1>4, <1>5, <1>6, <1>7, <1>8, <1>9, Zenon

-----------------------------------------------------------------------------
(* Results and sweeps *)

(* A completed row whose work turned out to be merged moves to FINALIZE. *)
LEMMA SalvageStep ==
    ASSUME NEW r, RowOK(r), r.status \in Open, NEW u \in BOOLEAN
    PROVE  LET q == StampSalvageStage(Transition(r, "completed", "shipped", u)) IN
           Plain(r, q) /\ Plain(r, Unbind(q))
<1> DEFINE t == Transition(r, "completed", "shipped", u)
           q == StampSalvageStage(t)
           p == Unbind(q)
<1>1. "shipped" \in Disposition
  BY Zenon DEF Disposition
<1>2. Plain(r, t) /\ RowOK(t) /\ t.status = "completed"
  <2>1. t.status = "completed"
    BY <1>1, TransitionFields, SMTT(40) DEF RowOK, Status
  <2>2. Plain(r, t)
    BY <1>1, OpenStep, Zenon
  <2> QED BY <2>1, <2>2, Zenon DEF Plain, Step
<1> HIDE DEF t
<1>3. q \in Row /\ SameMarks(t, q) /\ q.status = "completed" /\ q.stage = FINALIZE
      /\ q.unproductive = t.unproductive /\ q.high_water = t.high_water
  <2>1. FINALIZE \in Stage
    BY DEF Stage, PLAN, FINALIZE
  <2> QED BY <1>2, <2>1, StageFields, Zenon DEF RowOK
<1> HIDE DEF q
<1>4. p \in Row /\ SameMarks(q, p) /\ p.status = "completed" /\ p.stage = FINALIZE
      /\ p.unproductive = q.unproductive /\ p.high_water = q.high_water
  BY <1>3, UnbindFields, Zenon
<1> HIDE DEF p
<1>5. Plain(t, q) /\ Plain(t, p)
  <2>1. RowOK(q) /\ RowOK(p) /\ t.high_water \in Int
    BY <1>2, <1>3, <1>4, SMTT(40) DEF RowOK, SameMarks, Open, Row, Stage, PLAN, FINALIZE
  <2> QED BY <1>2, <1>3, <1>4, <2>1, SMTT(40) DEF Plain, Step, SameMarks, Open
<1> QED BY <1>2, <1>5, StepTrans DEF q, p, t, Plain

(* The sweep of a dead worker. *)
LEMMA SweptStep ==
    ASSUME NEW r, RowOK(r), r.status = "running", NEW found
    PROVE  Plain(r, SweptRow(r, found))
<1>1. r.status \in Open /\ {"held", "other", "shipped"} \subseteq Disposition
  BY Zenon DEF Open, Disposition
<1> DEFINE u == found = "done"
<1>2. u \in BOOLEAN
  BY Zenon
<1>3. SweptRow(r, found) \in {ToPending(r, TRUE), Unbind(Park(r, "held", TRUE)),
         Unbind(StampSalvageStage(Transition(r, "completed", "shipped", FALSE))),
         Unbind(Park(r, "other", TRUE)), Park(r, "other", TRUE), Park(r, "held", TRUE),
         Park(r, "held", FALSE), Transition(r, "completed", "other", u)}
  BY Zenon DEF SweptRow
<1> HIDE DEF u
<1>4. /\ Plain(r, ToPending(r, TRUE)) /\ Plain(r, Unbind(Park(r, "held", TRUE)))
      /\ Plain(r, Unbind(Park(r, "other", TRUE))) /\ Plain(r, Park(r, "other", TRUE))
      /\ Plain(r, Park(r, "held", TRUE)) /\ Plain(r, Park(r, "held", FALSE))
      /\ Plain(r, Transition(r, "completed", "other", u))
  BY <1>1, <1>2, PendingStep, OpenStep, Zenon
<1>5. Plain(r, Unbind(StampSalvageStage(Transition(r, "completed", "shipped", FALSE))))
  BY <1>1, SalvageStep, Zenon
<1> QED BY <1>3, <1>4, <1>5, Zenon

(* A worker's result. *)
LEMMA SentinelKeeps ==
    ASSUME Inv, NEW i \in Slots, NEW res \in Results, NEW saved \in BOOLEAN,
           ApplySentinel(i, res, saved)
    PROVE  AutoKept
<1> DEFINE r == rows[i]
           s == IF res.kind = "approval" THEN "asking" ELSE "bound"
<1>1. /\ RowOK(r) /\ r.status \in Open /\ r.status # "pending" /\ ~r.replan /\ res \in Result
  BY ConfigAssumption, Zenon DEF ConfigAssumption, ApplySentinel, HasSession, Inv, RowOK, Row,
                          Occupied, Open
<1>2. PICK q \in RouteStagedDecision(r, res) :
         SetRow(i, IF q.session = "none" \/ ~saved THEN q ELSE [q EXCEPT !.session = s])
  BY Zenon DEF ApplySentinel
<1>3. Onward(r, q)
  BY <1>1, RouteStep, Zenon
<1>4. s \in SessionRef
  BY Zenon DEF SessionRef
<1> HIDE DEF s
<1> DEFINE p == [q EXCEPT !.session = s]
<1>5. ASSUME q.session # "none" PROVE Onward(r, p)
  <2>1. Step(r, q) /\ RowOK(q) /\ (q.status \in Open => ~q.replan)
    BY <1>3, <1>5, Zenon DEF Onward, Step, RowOK, Row
  <2>2. Plain(q, p) /\ p.status = q.status /\ p.stage = q.stage
    BY <1>4, <2>1, SessionStep, Zenon
  <2> HIDE DEF p
  <2>3. Step(r, p)
    BY <1>1, <2>1, <2>2, StepTrans, Zenon DEF Plain
  <2> QED BY <1>3, <2>2, <2>3, Zenon DEF Onward
<1>6. AutoMove(r, q) /\ (q.session # "none" => AutoMove(r, p))
  BY <1>1, <1>3, <1>5, OnwardAuto, Zenon
<1>7. SetRow(i, q) \/ (q.session # "none" /\ SetRow(i, p))
  BY <1>2, Zenon
<1> HIDE DEF p
<1> QED BY <1>6, <1>7, SetRowKeeps, Zenon DEF AutoMove

(* The rewrites of one row. *)
LEMMA RowKeeps ==
    ASSUME Inv, NEW i \in Slots, RowNext(i)
    PROVE  AutoKept
<1> DEFINE r == rows[i]
<1>1. RowOK(r) /\ {"held", "other", "none"} \subseteq Disposition
  BY Zenon DEF Inv, Disposition
<1>2. ASSUME NEW disp \in {"held", "other"}, ScreenPark(i, disp) PROVE AutoKept
  BY <1>1, <1>2, OpenStep, SetRowKeeps, Zenon DEF ScreenPark, Open
<1>3. ASSUME AttemptCapPark(i) PROVE AutoKept
  BY <1>1, <1>3, OpenStep, SetRowKeeps, Zenon DEF AttemptCapPark, Open
<1>4. ASSUME NEW res \in Results, NEW saved \in BOOLEAN, ApplySentinel(i, res, saved) PROVE AutoKept
  BY <1>4, SentinelKeeps, Zenon
<1>5. ASSUME NEW how, BlockedResult(i, how) PROVE AutoKept
  <2>1. r.status = "running" /\ (SetRow(i, Transition(r, "failed", "other", TRUE))
                                 \/ SetRow(i, ToPending(r, TRUE)))
    BY <1>5, Zenon DEF BlockedResult
  <2> QED BY <1>1, <2>1, OpenStep, PendingStep, SetRowKeeps, Zenon DEF Open
<1>6. ASSUME ParkWithSession(i) PROVE AutoKept
  BY <1>1, <1>6, OpenStep, SetRowKeeps, Zenon DEF ParkWithSession, Open
<1>7. ASSUME NEW auto \in ReapPolicies, UsageLimitMidTurn(i, auto) PROVE AutoKept
  <2>1. r.status = "running" /\ (SetRow(i, Park(r, "other", FALSE))
                                 \/ SetRow(i, ToPending(r, FALSE)))
    BY <1>7, Zenon DEF UsageLimitMidTurn
  <2> QED BY <1>1, <2>1, OpenStep, PendingStep, SetRowKeeps, Zenon DEF Open
<1>8. ASSUME NEW requeue \in BOOLEAN, ReapCodexOrphan(i, requeue) PROVE AutoKept
  <2>1. r.status = "running" /\ (SetRow(i, Unbind(Park(r, "other", TRUE)))
                                 \/ SetRow(i, ToPending(r, TRUE)))
    BY <1>8, ZenonT(40) DEF ReapCodexOrphan
  <2> QED BY <1>1, <2>1, OpenStep, PendingStep, SetRowKeeps, Zenon DEF Open
<1>9. ASSUME NEW how \in PoisonOutcomes, NEW again \in BOOLEAN, ClearPoisonMarker(i, how, again)
      PROVE  AutoKept
  <2>1. \A j \in Slots : \/ rows'[j] = rows[j]
                         \/ /\ rows[j].status \in Open
                            /\ rows'[j] \in {PoisonCleared(rows[j], how),
                                             PoisonCleared(rows[j], "requeue")}
    BY <1>9, Zenon DEF ClearPoisonMarker, Open
  <2>2. rows' = [j \in Slots |-> rows'[j]] /\ UNCHANGED <<added, spawn, launched>>
    BY <1>9, Zenon DEF ClearPoisonMarker
  <2>3. ASSUME NEW j \in Slots, rows[j].status \in Open, NEW h \in PoisonOutcomes
        PROVE  Plain(rows[j], PoisonCleared(rows[j], h))
    <3>1. RowOK(rows[j])
      BY Zenon DEF Inv
    <3>2. PoisonCleared(rows[j], h) \in {ToPending(rows[j], TRUE), Park(rows[j], "held", TRUE),
             Park(rows[j], "other", TRUE), Transition(rows[j], "completed", "other", TRUE)}
      BY <2>3, ZenonT(40) DEF PoisonCleared, PoisonOutcomes
    <3> QED BY <1>1, <2>3, <3>1, <3>2, PendingStep, OpenStep, Zenon
  <2>4. "requeue" \in PoisonOutcomes
    BY Zenon DEF PoisonOutcomes
  <2>5. \A j \in Slots : rows'[j] = rows[j] \/ Plain(rows[j], rows'[j])
    BY <2>1, <2>3, <2>4, Zenon
  <2> QED BY <2>2, <2>5, BulkKeeps, Zenon
<1>10. ASSUME FixDispatchHandBack(i) PROVE AutoKept
  BY <1>1, <1>10, PendingStep, SetRowKeeps, Zenon DEF FixDispatchHandBack, Open
<1>11. ASSUME NEW found, SweepDeadWorker(i, found) PROVE AutoKept
  <2>1. \A j \in Slots : \/ rows'[j] = rows[j]
                         \/ rows[j].status = "running" /\ rows'[j] = SweptRow(rows[j], found)
    BY <1>11, Zenon DEF SweepDeadWorker, SetRows
  <2>2. rows' = [j \in Slots |-> rows'[j]] /\ UNCHANGED <<added, spawn, launched>>
    BY <1>11, Zenon DEF SweepDeadWorker, SetRows
  <2>3. \A j \in Slots : rows'[j] = rows[j] \/ Plain(rows[j], rows'[j])
    BY <2>1, SweptStep, Zenon DEF Inv
  <2> QED BY <2>2, <2>3, BulkKeeps, Zenon
<1>12. ASSUME AdoptUnowned(i) PROVE AutoKept
  BY <1>1, <1>12, SpawnSuccessStep, SetRowKeeps, Zenon DEF AdoptUnowned
<1>13. ASSUME CompleteTimedOutMerged(i) PROVE AutoKept
  BY <1>1, <1>13, SalvageStep, SetRowKeeps, ZenonT(40) DEF CompleteTimedOutMerged, Open
<1>14. ASSUME NEW reviewed \in BOOLEAN, GateRecipeApprove(i, reviewed) PROVE AutoKept
  <2>1. PICK q \in ApproveTicketLocked(r, FALSE, reviewed) : SetRow(i, q)
    BY <1>14, ZenonT(40) DEF GateRecipeApprove
  <2>2. r.status = "blocked" => AutoMove(r, q)
    BY <1>1, <2>1, ApproveStep, OnwardAuto, Zenon
  <2> QED BY <1>14, <2>1, <2>2, SetRowKeeps, Zenon DEF GateRecipeApprove, AutoMove
<1>15. ASSUME CodexRepark(i) PROVE AutoKept
  BY <1>1, <1>15, PendingStep, SetRowKeeps, ZenonT(40) DEF CodexRepark, Open
<1> QED BY <1>2, <1>3, <1>4, <1>5, <1>6, <1>7, <1>8, <1>9, <1>10, <1>11, <1>12, <1>13, <1>14,
           <1>15, ZenonT(40) DEF RowNext

(* The rewrites of several rows at once. *)
LEMMA SweepKeeps ==
    ASSUME Inv
    PROVE  /\ \A S \in SUBSET Slots, disp \in {"held", "other"} :
                 \A D \in SUBSET S : RevertForSessions(S, D, disp) => AutoKept
           /\ \A auto : ParkTerminalSiblings(auto) => AutoKept
           /\ \A S \in SUBSET Slots : ReleaseStaleGates(S) => AutoKept
<1>1. /\ \A i \in Slots : RowOK(rows[i])
      /\ {"held", "other", "shipped", "terminal_sibling"} \subseteq Disposition
  BY Zenon DEF Inv, Disposition
<1>2. ASSUME NEW S \in SUBSET Slots, NEW disp \in {"held", "other"}, NEW D \in SUBSET S,
             RevertForSessions(S, D, disp)
      PROVE  AutoKept
  <2>1. \A i \in Slots :
           \/ rows'[i] = rows[i]
           \/ /\ rows[i].status \in Open
              /\ rows'[i] = Unbind(Park(rows[i], disp, TRUE)) \/ rows'[i] = ToPending(rows[i], TRUE)
    BY <1>2, Zenon DEF RevertForSessions, Open
  <2>2. rows' = [i \in Slots |-> rows'[i]] /\ UNCHANGED <<added, spawn, launched>>
    BY <1>2, Zenon DEF RevertForSessions
  <2>3. \A i \in Slots : rows'[i] = rows[i] \/ Plain(rows[i], rows'[i])
    BY <1>1, <2>1, PendingStep, OpenStep, Zenon
  <2> QED BY <2>2, <2>3, BulkKeeps, Zenon
<1>3. ASSUME NEW auto, ParkTerminalSiblings(auto) PROVE AutoKept
  <2>1. \A i \in Slots :
           \/ rows'[i] = rows[i]
           \/ /\ rows[i].status \in Open
              /\ \/ rows'[i] = CancelRow(rows[i])
                 \/ rows'[i] = Unbind(Park(rows[i], "terminal_sibling", TRUE))
    BY <1>3, Zenon DEF ParkTerminalSiblings, SetRows, TerminalSibling, Open
  <2>2. rows' = [i \in Slots |-> rows'[i]] /\ UNCHANGED <<added, spawn, launched>>
    BY <1>3, Zenon DEF ParkTerminalSiblings, SetRows
  <2>3. \A i \in Slots : rows'[i] = rows[i] \/ Plain(rows[i], rows'[i])
    BY <1>1, <2>1, CancelStep, OpenStep, Zenon DEF Open
  <2> QED BY <2>2, <2>3, BulkKeeps, Zenon
<1>4. ASSUME NEW S \in SUBSET Slots, ReleaseStaleGates(S) PROVE AutoKept
  <2>1. \A i \in Slots :
           \/ rows'[i] = rows[i]
           \/ /\ rows[i].status \in Open
              /\ \/ rows'[i] = Unbind(Transition(rows[i], "completed", "shipped", TRUE))
                 \/ rows'[i] = ToPending(rows[i], TRUE)
    BY <1>4, Zenon DEF ReleaseStaleGates, SetRows, Open
  <2>2. rows' = [i \in Slots |-> rows'[i]] /\ UNCHANGED <<added, spawn, launched>>
    BY <1>4, Zenon DEF ReleaseStaleGates, SetRows
  <2>3. \A i \in Slots : rows'[i] = rows[i] \/ Plain(rows[i], rows'[i])
    BY <1>1, <2>1, PendingStep, OpenStep, Zenon
  <2> QED BY <2>2, <2>3, BulkKeeps, Zenon
<1> QED BY <1>2, <1>3, <1>4, Zenon

-----------------------------------------------------------------------------
(* The theorems *)

(* The store starts without rows. *)
LEMMA InitInv == Init => Inv
<1> SUFFICES ASSUME Init PROVE Inv
  BY Zenon
<1>1. PICK c \in Clients, t \in Tickets :
         rows = [i \in Slots |-> NewRow(c, t, "absent", PLAN, "none", FALSE, FALSE)]
  BY Zenon DEF Init
<1> DEFINE q == NewRow(c, t, "absent", PLAN, "none", FALSE, FALSE)
<1>2. q \in Row /\ q.status = "absent" /\ q.unproductive = 0 /\ q.review_ok = FALSE
      /\ q.replan = FALSE
  <2>1. q.status = "absent" /\ q.unproductive = 0 /\ q.review_ok = FALSE /\ q.replan = FALSE
    BY Zenon DEF NewRow
  <2>2. q \in Row
    BY DEF NewRow, Row, SessionRef, Stage, PLAN, FINALIZE, Disposition
  <2> QED BY <2>1, <2>2, Zenon
<1>3. rows = [i \in Slots |-> q]
  BY <1>1, Zenon
<1> HIDE DEF q
<1>4. RowOK(q)
  BY <1>2, FreshRowOK, Zenon
<1>5. \A i \in Slots : RowOK(rows[i]) /\ rows[i].status = "absent"
  BY <1>2, <1>3, <1>4, Zenon
<1>6. TypeOK
  <2>1. spawn \in Spawn
    BY RowsAssumption DEF RowsAssumption, Init, NoSpawn, Spawn
  <2>2. added \in 0 .. MaxRows
    BY RowsAssumption DEF RowsAssumption, Init
  <2>3. launched \in [Slots -> Nat]
    BY Zenon DEF Init
  <2>4. rows \in [Slots -> Row]
    BY <1>2, <1>3, Zenon
  <2> QED BY <2>1, <2>2, <2>3, <2>4, Zenon DEF TypeOK
<1>7. AtMostOneOpenRow
  BY <1>5, Zenon DEF AtMostOneOpenRow, Open
<1>8. SpawnOK
  BY Zenon DEF SpawnOK, Init, NoSpawn
<1> QED BY <1>5, <1>6, <1>7, <1>8, Zenon DEF Inv, FreshSlots

(* Every step keeps Inv and is of one of the kinds above when the          *)
(* cancelled-row recipe is off.                                            *)
LEMMA NextKeeps ==
    ASSUME CancelledRowRestore = FALSE, Inv
    PROVE  /\ DaemonNext => AutoKept
           /\ [Next]_vars => Kept
<1>1. OperatorNext => Kept
  BY CrudKeeps, StoreKeeps, TicketKeeps, DoctorKeeps, SMTT(40) DEF OperatorNext
<1>2. SpawnNext => AutoKept
  BY ClaimKeeps, SpawnKeeps, Zenon DEF SpawnNext
<1>3. (\E i \in Slots : RowNext(i)) => AutoKept
  BY RowKeeps, Zenon
<1>4. DaemonNext => AutoKept
  BY <1>2, <1>3, SweepKeeps, Zenon DEF DaemonNext, RestoreCancelledRows
<1>5. UNCHANGED vars => Kept
  <2> SUFFICES ASSUME UNCHANGED vars PROVE Kept
    BY Zenon
  <2>1. rows' = rows /\ UNCHANGED <<added, spawn, launched>>
    BY Zenon DEF vars
  <2> QED BY <2>1, BulkKeeps, Zenon DEF Inv, TypeOK
<1> QED BY <1>1, <1>4, <1>5, AutoIsKept, Zenon DEF Next

(* The inductive invariant holds of every behaviour. *)
THEOREM InvHolds ==
    ASSUME CancelledRowRestore = FALSE
    PROVE  Spec => []Inv
<1>1. Inv /\ [Next]_vars => Inv'
  BY NextKeeps, Zenon DEF Kept
<1> QED BY <1>1, InitInv, PTL DEF Spec

(* The fields of every row, and the claim in flight, stay in their types. *)
THEOREM TypeCorrect ==
    ASSUME CancelledRowRestore = FALSE
    PROVE  Spec => []TypeOK
<1>1. Inv => TypeOK
  BY Zenon DEF Inv
<1> QED BY <1>1, InvHolds, PTL

(* A ticket of a client is open in at most one row, whatever operators,    *)
(* results, spawns and sweeps do, for any number of rows and clients.      *)
THEOREM OneOpenRow ==
    ASSUME CancelledRowRestore = FALSE
    PROVE  Spec => []AtMostOneOpenRow
<1>1. Inv => AtMostOneOpenRow
  BY Zenon DEF Inv
<1> QED BY <1>1, InvHolds, PTL

(* No sequence of failing claims takes a row over the attempt ceiling. *)
THEOREM CeilingHolds ==
    ASSUME CancelledRowRestore = FALSE
    PROVE  Spec => []UnproductiveBounded
<1>1. Inv => UnproductiveBounded
  BY Zenon DEF Inv, RowOK, UnproductiveBounded
<1> QED BY <1>1, InvHolds, PTL

(* A row sent back to PLAN keeps nothing of its earlier plan. *)
THEOREM ReplanHolds ==
    ASSUME CancelledRowRestore = FALSE
    PROVE  Spec => []ReplanClean
<1>1. Inv => ReplanClean
  BY Zenon DEF Inv, RowOK, ReplanClean
<1> QED BY <1>1, InvHolds, PTL

(* The approval of a review is gone once its row is back before REVIEW. *)
THEOREM ReviewApprovalHolds ==
    ASSUME CancelledRowRestore = FALSE
    PROVE  Spec => []ReviewApprovalStage
<1>1. Inv => ReviewApprovalStage
  BY Zenon DEF Inv, RowOK, ReviewApprovalStage
<1> QED BY <1>1, InvHolds, PTL

-----------------------------------------------------------------------------
(* What a step may not do *)

(* A finished row is opened again by an operator only: no late result,     *)
(* spawn, sweep or recipe of the daemon does it.                           *)
THEOREM TerminalStays ==
    ASSUME CancelledRowRestore = FALSE
    PROVE  Spec => NoTerminalRevival
<1>1. ASSUME Inv, DaemonNext, NEW i \in Slots, rows[i].status \in Terminal,
             rows'[i].status \in Open
      PROVE  FALSE
  <2>1. CASE AutoRewrites
    BY <1>1, <2>1, Zenon DEF AutoRewrites, AutoMove, Moves, Step, Terminal, Open
  <2>2. CASE Claims \/ Lifts
    BY <1>1, <2>2, Zenon DEF Claims, Lifts, Terminal, Open
  <2> QED BY <1>1, <2>1, <2>2, NextKeeps, Zenon DEF AutoKept
<1>2. Inv /\ [Next]_vars =>
        [(\E i \in Slots : rows[i].status \in Terminal /\ rows'[i].status \in Open)
         => ~DaemonNext]_vars
  BY <1>1, Zenon
<1> QED BY <1>2, InvHolds, PTL DEF Spec, NoTerminalRevival

(* No sequence of results, rescues, approvals by recipe and sweeps takes a *)
(* held row, or one that needs a sign-off, into FINALIZE.                  *)
THEOREM ShipGateHolds ==
    ASSUME CancelledRowRestore = FALSE
    PROVE  Spec => ShipGate
<1>1. ASSUME Inv, DaemonNext, NEW i \in Slots, rows[i].stage # FINALIZE, ShipGated(rows'[i]),
             rows'[i].stage = FINALIZE, rows'[i].status \in Open
      PROVE  FALSE
  <2>1. CASE AutoRewrites
    <3>1. AutoMove(rows[i], rows'[i])
      BY <2>1, Zenon DEF AutoRewrites
    <3>2. ~ShipGated(rows[i]) /\ rows'[i].hold = rows[i].hold /\ rows'[i].signoff = rows[i].signoff
      BY <1>1, <3>1, Zenon DEF AutoMove, Moves, Step, Open
    <3> QED BY <1>1, <3>2, Zenon DEF ShipGated
  <2>2. CASE Claims \/ Lifts
    BY <1>1, <2>2, SMTT(40) DEF Claims, Lifts, IMPL, FINALIZE
  <2> QED BY <1>1, <2>1, <2>2, NextKeeps, ZenonT(40) DEF AutoKept
<1>2. Inv /\ [Next]_vars =>
        [(\E i \in Slots : /\ rows[i].stage # FINALIZE /\ ShipGated(rows'[i])
                           /\ rows'[i].stage = FINALIZE /\ rows'[i].status \in Open)
         => ~DaemonNext]_vars
  BY <1>1, Zenon
<1> QED BY <1>2, InvHolds, PTL DEF Spec, ShipGate

(* A row that is to be planned again is never lifted over PLAN by the      *)
(* daemon: the claim's copy that decides a bypass has not been overtaken.  *)
THEOREM ReplanHonoured ==
    ASSUME CancelledRowRestore = FALSE
    PROVE  Spec => ReplanNotBypassed
<1>1. ASSUME Inv, DaemonNext, NEW i \in Slots, rows[i].replan, rows[i].status \in Open,
             rows'[i].stage > PLAN, rows'[i].status \in Open
      PROVE  FALSE
  <2>1. rows[i].stage = PLAN
    BY <1>1, Zenon DEF Inv, RowOK
  <2>2. CASE AutoRewrites
    BY <1>1, <2>1, <2>2 DEF AutoRewrites, AutoMove, PLAN
  <2>3. CASE Claims \/ Lifts
    BY <1>1, <2>1, <2>3, SMTT(40) DEF Claims, Lifts, PLAN
  <2> QED BY <1>1, <2>2, <2>3, NextKeeps, ZenonT(40) DEF AutoKept
<1>2. Inv /\ [Next]_vars =>
        [(\E i \in Slots : /\ rows[i].replan /\ rows[i].status \in Open
                           /\ rows'[i].stage > PLAN /\ rows'[i].status \in Open)
         => ~DaemonNext]_vars
  BY <1>1, Zenon
<1> QED BY <1>2, InvHolds, PTL DEF Spec, ReplanNotBypassed

(* The high water of a row never falls while the row exists, and records   *)
(* every forward move of a row that stays or becomes open.                 *)
THEOREM HighWaterHolds ==
    ASSUME CancelledRowRestore = FALSE
    PROVE  Spec => HighWaterFollows
<1>1. ASSUME Inv, [Next]_vars, NEW i \in Slots, Present(i), rows'[i].status # "absent"
      PROVE  /\ rows[i].high_water <= rows'[i].high_water
             /\ (rows[i].stage < rows'[i].stage /\ rows'[i].status \in Open)
                => rows'[i].stage <= rows'[i].high_water
  <2>1. /\ rows[i].stage \in Int /\ rows[i].high_water \in Int
        /\ rows'[i].stage \in Int /\ rows'[i].high_water \in Int
    <3>1. RowOK(rows[i]) /\ RowOK(rows'[i])
      BY <1>1, NextKeeps, ZenonT(40) DEF Kept, Inv, Slots
    <3> QED BY <3>1, SMTT(40) DEF RowOK, Row, Stage, PLAN, FINALIZE
  <2>2. CASE Rewrites
    BY <1>1, <2>2, Zenon DEF Rewrites, Moves, Step
  <2>3. CASE Opens
    BY <1>1, <2>1, <2>3 DEF Opens, Present
  <2>4. CASE Claims
    BY <1>1, <2>1, <2>4, SMTT(40) DEF Claims
  <2>5. CASE Lifts
    BY <1>1, <2>1, <2>5, SMTT(40) DEF Lifts
  <2> QED BY <1>1, <2>2, <2>3, <2>4, <2>5, NextKeeps, ZenonT(40) DEF Kept
<1>2. Inv /\ [Next]_vars =>
        [\A i \in Slots : (Present(i) /\ rows'[i].status # "absent") =>
           /\ rows[i].high_water <= rows'[i].high_water
           /\ (rows[i].stage < rows'[i].stage /\ rows'[i].status \in Open)
              => rows'[i].stage <= rows'[i].high_water]_vars
  BY <1>1, Zenon
<1> QED BY <1>2, InvHolds, PTL DEF Spec, HighWaterFollows

=============================================================================
