----------------------- MODULE DevQueueLifecycleProofs -----------------------
(***************************************************************************)
(* The dev queue implements the ticket lifecycle, for any clients, tickets *)
(* and bounds.  Since a ticket has one open row, its phase and stage are   *)
(* those of any open row of it, and every kind of step of DevQueueProofs   *)
(* maps to a step of the lifecycle.                                        *)
(***************************************************************************)
EXTENDS DevQueueLifecycle, DevQueueProofs

(* The phase and stage of a ticket are read off any open row of it. *)
LEMMA TicketAt ==
    ASSUME Inv, NEW k \in Keys
    PROVE  /\ OpenRowsOf(k) = {} => phase[k] = "idle" /\ stage[k] = 0
           /\ \A i \in OpenRowsOf(k) : /\ phase[k] = PhaseOf(rows[i].status)
                                       /\ stage[k] = rows[i].stage
                                       /\ rows[i].stage \in 1 .. FINALIZE
<1>1. ASSUME NEW i \in OpenRowsOf(k) PROVE OpenRowOf(k) = i
  <2>1. OpenRowOf(k) \in OpenRowsOf(k)
    BY Zenon DEF OpenRowOf
  <2> QED BY <2>1, Zenon DEF OpenRowsOf, Inv, AtMostOneOpenRow
<1>2. \A i \in OpenRowsOf(k) : rows[i].stage \in 1 .. FINALIZE
  BY Zenon DEF OpenRowsOf, Inv, RowOK, Row, Stage, PLAN, FINALIZE
<1> QED BY <1>1, <1>2, Zenon DEF phase, stage

(* The same after a step. *)
LEMMA TicketAtNext ==
    ASSUME Inv', NEW k \in Keys
    PROVE  /\ OpenRowsOf(k)' = {} => phase'[k] = "idle" /\ stage'[k] = 0
           /\ \A i \in OpenRowsOf(k)' : /\ phase'[k] = PhaseOf(rows'[i].status)
                                        /\ stage'[k] = rows'[i].stage
                                        /\ rows'[i].stage \in 1 .. FINALIZE
<1>1. ASSUME NEW i \in OpenRowsOf(k)' PROVE OpenRowOf(k)' = i
  <2>1. OpenRowOf(k)' \in OpenRowsOf(k)'
    BY Zenon DEF OpenRowOf
  <2> QED BY <2>1, Zenon DEF OpenRowsOf, Inv, AtMostOneOpenRow, Slots
<1>2. \A i \in OpenRowsOf(k)' : rows'[i].stage \in 1 .. FINALIZE
  BY Zenon DEF OpenRowsOf, Inv, RowOK, Row, Stage, PLAN, FINALIZE, Slots
<1> QED BY <1>1, <1>2, Zenon DEF phase, stage, Keys

(* The phases of open rows. *)
LEMMA Phases ==
    /\ PhaseOf("pending") = "queued" /\ PhaseOf("running") = "claimed"
    /\ PhaseOf("blocked") = "parked" /\ PhaseOf("signoff") = "parked"
BY Zenon DEF PhaseOf

(* Any step of the queue leaves a ticket in one phase at one stage. *)
LEMMA TicketTypes ==
    ASSUME Inv, Inv'
    PROVE  /\ phase \in [Keys -> L!Phase] /\ stage \in [Keys -> 0 .. FINALIZE]
           /\ phase' \in [Keys -> L!Phase] /\ stage' \in [Keys -> 0 .. FINALIZE]
<1>1. /\ phase = [k \in Keys |-> phase[k]] /\ stage = [k \in Keys |-> stage[k]]
      /\ phase' = [k \in Keys |-> phase'[k]] /\ stage' = [k \in Keys |-> stage'[k]]
  BY Zenon DEF phase, stage, Keys
<1>2. ASSUME NEW k \in Keys
      PROVE  /\ phase[k] \in L!Phase /\ stage[k] \in 0 .. FINALIZE
             /\ phase'[k] \in L!Phase /\ stage'[k] \in 0 .. FINALIZE
  <2>1. \A s : PhaseOf(s) \in L!Phase
    BY Zenon DEF PhaseOf, L!Phase
  <2>2. "idle" \in L!Phase /\ 0 \in 0 .. FINALIZE /\ 1 .. FINALIZE \subseteq 0 .. FINALIZE
    BY DEF L!Phase, FINALIZE
  <2>3. phase[k] \in L!Phase /\ stage[k] \in 0 .. FINALIZE
    <3>1. CASE OpenRowsOf(k) = {}
      BY <2>2, <3>1, TicketAt, Zenon
    <3>2. CASE OpenRowsOf(k) # {}
      <4>1. PICK i : i \in OpenRowsOf(k)
        BY <3>2, Zenon
      <4> QED BY <2>1, <2>2, <4>1, TicketAt, Zenon
    <3> QED BY <3>1, <3>2, Zenon
  <2>4. phase'[k] \in L!Phase /\ stage'[k] \in 0 .. FINALIZE
    <3>1. CASE OpenRowsOf(k)' = {}
      BY <2>2, <3>1, TicketAtNext, Zenon
    <3>2. CASE OpenRowsOf(k)' # {}
      <4>1. PICK i : i \in OpenRowsOf(k)'
        BY <3>2, Zenon
      <4> QED BY <2>1, <2>2, <4>1, TicketAtNext, Zenon
    <3> QED BY <3>1, <3>2, Zenon
  <2> QED BY <2>3, <2>4, Zenon
<1> QED BY <1>1, <1>2, Zenon

(* A ticket without an open row that was rewritten has not moved. *)
LEMMA UntouchedStays ==
    ASSUME Inv, Inv', NEW k \in Keys, OpenRowsOf(k)' = OpenRowsOf(k),
           \A i \in OpenRowsOf(k) : /\ rows'[i].stage = rows[i].stage
                                    /\ rows'[i].status = rows[i].status
    PROVE  L!Stays(k)
<1>1. CASE OpenRowsOf(k) = {}
  BY <1>1, TicketAt, TicketAtNext, Zenon DEF L!Stays
<1>2. CASE OpenRowsOf(k) # {}
  <2>1. PICK i : i \in OpenRowsOf(k)
    BY <1>2, Zenon
  <2> QED BY <2>1, TicketAt, TicketAtNext, SMTT(40) DEF L!Stays
<1> QED BY <1>1, <1>2, Zenon

-----------------------------------------------------------------------------
(* Rewrites of rows move each ticket on its own. *)
LEMMA RewriteMoves ==
    ASSUME Inv, Inv', Rewrites, NEW k \in Keys
    PROVE  L!Moves(k) \/ L!Stays(k)
<1>1. \A i \in OpenRowsOf(k)' : i \in OpenRowsOf(k) /\ i \in Slots /\ Moves(rows[i], rows'[i])
  BY Zenon DEF OpenRowsOf, Rewrites, Moves, Step, Key, Slots
<1>2. CASE OpenRowsOf(k)' = {} /\ OpenRowsOf(k) = {}
  BY <1>2, UntouchedStays, Zenon
<1>3. CASE OpenRowsOf(k)' = {} /\ OpenRowsOf(k) # {}
  <2>1. PICK i : i \in OpenRowsOf(k)
    BY <1>3, Zenon
  <2>2. phase[k] # "idle"
    BY <2>1, TicketAt, Zenon DEF PhaseOf
  <2> QED BY <1>3, <2>2, TicketAtNext, Zenon DEF L!Moves, L!Leaves
<1>4. CASE OpenRowsOf(k)' # {}
  <2>1. PICK i : i \in OpenRowsOf(k)'
    BY <1>4, Zenon
  <2> DEFINE r == rows[i]
             q == rows'[i]
  <2>2. /\ phase[k] = PhaseOf(r.status) /\ stage[k] = r.stage /\ r.stage \in 1 .. FINALIZE
        /\ phase'[k] = PhaseOf(q.status) /\ stage'[k] = q.stage /\ q.stage \in 1 .. FINALIZE
    BY <1>1, <2>1, TicketAt, TicketAtNext, Zenon
  <2>3. Moves(r, q) /\ r.status \in Open /\ q.status \in Open
    BY <1>1, <2>1, Zenon DEF OpenRowsOf
  <2>4. /\ q.status = "running" => r.status = "running" /\ q.stage = r.stage
        /\ r.status = "pending" => q.stage = r.stage
        /\ q.stage < r.stage => q.status = "pending" /\ (r.status = "running" => q.stage = IMPL)
    BY <2>3, Zenon DEF Moves, Step
  <2> HIDE DEF r, q
  <2>5. CASE q.status = "running" \/ (r.status = "pending" /\ q.status = "pending")
    BY <2>2, <2>4, <2>5, Zenon DEF L!Stays
  <2>6. CASE r.status = "pending" /\ q.status \in Parked
    BY <2>2, <2>4, <2>6, Phases, Zenon DEF L!Moves, L!Parks, Parked
  <2>7. CASE r.status \in {"running", "blocked", "signoff"} /\ q.status # "running"
    <3>1. phase[k] \in {"claimed", "parked"} /\ phase'[k] \in {"queued", "parked"}
          /\ (phase[k] = "claimed" => r.status = "running")
          /\ (q.status = "pending" => phase'[k] = "queued")
      BY <2>2, <2>3, <2>7, Phases, Zenon DEF Open
    <3>2. CASE r.stage <= q.stage
      BY <2>2, <3>1, <3>2, SMTT(40) DEF L!Moves, L!Proceeds
    <3>3. CASE q.stage < r.stage
      BY <2>2, <2>4, <3>1, <3>3, SMTT(40) DEF L!Moves, L!Regresses, L!Impl, IMPL
    <3> QED BY <2>2, <3>2, <3>3, SMTT(40)
  <2> QED BY <2>3, <2>5, <2>6, <2>7, Zenon DEF Open, Parked
<1> QED BY <1>2, <1>3, <1>4, Zenon

(* A row that is added or put back moves its own ticket, which has no      *)
(* other open row.                                                         *)
LEMMA OpenMoves ==
    ASSUME Inv, Inv', Opens, NEW k \in Keys
    PROVE  L!Moves(k) \/ L!Stays(k)
<1>1. PICK i \in Slots :
         /\ rows[i].status \notin {"pending", "running"}
         /\ rows'[i].status \in {"pending", "blocked"}
         /\ rows[i].status # "absent" => Key(rows'[i]) = Key(rows[i])
                                         /\ rows[i].stage <= rows'[i].stage
         /\ \A j \in Slots \ {i} : /\ rows'[j] = rows[j]
                                   /\ Key(rows[j]) = Key(rows'[i]) => rows[j].status \notin Open
  BY Zenon DEF Opens
<1>2. CASE Key(rows'[i]) # k
  <2>1. OpenRowsOf(k)' = OpenRowsOf(k) /\ i \notin OpenRowsOf(k)
    BY <1>1, <1>2, SMTT(40) DEF OpenRowsOf, Open, Slots
  <2> QED BY <1>1, <2>1, UntouchedStays, Zenon DEF OpenRowsOf
<1>3. CASE Key(rows'[i]) = k
  <2>1. i \in OpenRowsOf(k)' /\ OpenRowsOf(k) \subseteq {i}
    BY <1>1, <1>3, Zenon DEF OpenRowsOf, Open, Slots
  <2>2. /\ phase'[k] \in {"queued", "parked"} /\ stage'[k] = rows'[i].stage
        /\ rows'[i].stage \in 1 .. FINALIZE
    BY <1>1, <2>1, TicketAtNext, Phases, Zenon
  <2>3. CASE OpenRowsOf(k) = {}
    BY <2>2, <2>3, TicketAt, Zenon DEF L!Moves, L!Enters
  <2>4. CASE i \in OpenRowsOf(k)
    <3>1. phase[k] = "parked" /\ stage[k] = rows[i].stage /\ rows[i].stage \in 1 .. FINALIZE
      BY <1>1, <2>4, TicketAt, Phases, ZenonT(40) DEF OpenRowsOf, Open
    <3>2. rows[i].stage <= rows'[i].stage
      BY <1>1, <2>4, Zenon DEF OpenRowsOf, Open
    <3> QED BY <2>2, <3>1, <3>2, SMTT(40) DEF L!Moves, L!Proceeds
  <2> QED BY <2>1, <2>3, <2>4, Zenon
<1> QED BY <1>2, <1>3, Zenon

(* A claim takes the ticket out of the queue and moves no other. *)
LEMMA ClaimMoves ==
    ASSUME Inv, Inv', Claims
    PROVE  \E k \in Keys : L!ClaimOne(k)
<1>1. PICK i \in Slots :
         /\ rows[i].status = "pending" /\ rows'[i].status = "running"
         /\ Key(rows'[i]) = Key(rows[i]) /\ rows'[i].stage = rows[i].stage
         /\ \A j \in Slots \ {i} : rows'[j] = rows[j]
  BY Zenon DEF Claims
<1> DEFINE k == Key(rows[i])
<1>2. k \in Keys
  BY Zenon DEF Inv, RowOK, Row, Key, Keys
<1>3. \A x \in Keys : OpenRowsOf(x)' = OpenRowsOf(x)
  BY <1>1, Zenon DEF OpenRowsOf, Open, Slots
<1>4. i \in OpenRowsOf(k) /\ \A x \in Keys : x # k => i \notin OpenRowsOf(x)
  BY <1>1, Zenon DEF OpenRowsOf, Open
<1>5. \A x \in Keys : x # k => L!Stays(x)
  <2> SUFFICES ASSUME NEW x \in Keys, x # k PROVE L!Stays(x)
    BY Zenon
  <2> HIDE DEF k
  <2>1. \A j \in OpenRowsOf(x) : rows'[j] = rows[j]
    BY <1>1, <1>4, Zenon DEF OpenRowsOf
  <2> QED BY <1>3, <2>1, UntouchedStays, Zenon
<1> HIDE DEF k
<1>6. phase[k] = "queued" /\ phase'[k] = "claimed" /\ stage'[k] = stage[k]
  BY <1>1, <1>2, <1>3, <1>4, TicketAt, TicketAtNext, Phases, SMTT(40)
<1>7. phase' = [phase EXCEPT ![k] = "claimed"] /\ stage' = stage
  BY <1>2, <1>5, <1>6, TicketTypes, SMTT(40) DEF L!Stays
<1> QED BY <1>2, <1>6, <1>7, ZenonT(40) DEF L!ClaimOne

(* The plan bypass moves the claimed ticket from planning to               *)
(* implementation.                                                         *)
LEMMA LiftMoves ==
    ASSUME Inv, Inv', Lifts
    PROVE  \E k \in Keys : L!BypassOne(k)
<1>1. PICK i \in Slots :
         /\ rows[i].status = "running" /\ rows'[i].status = "running"
         /\ rows[i].stage = PLAN /\ rows'[i].stage = IMPL
         /\ Key(rows'[i]) = Key(rows[i])
         /\ \A j \in Slots \ {i} : rows'[j] = rows[j]
  BY Zenon DEF Lifts
<1> DEFINE k == Key(rows[i])
<1>2. k \in Keys
  BY Zenon DEF Inv, RowOK, Row, Key, Keys
<1>3. \A x \in Keys : OpenRowsOf(x)' = OpenRowsOf(x)
  BY <1>1, Zenon DEF OpenRowsOf, Open, Slots
<1>4. i \in OpenRowsOf(k) /\ \A x \in Keys : x # k => i \notin OpenRowsOf(x)
  BY <1>1, Zenon DEF OpenRowsOf, Open
<1>5. \A x \in Keys : x # k => L!Stays(x)
  <2> SUFFICES ASSUME NEW x \in Keys, x # k PROVE L!Stays(x)
    BY Zenon
  <2> HIDE DEF k
  <2>1. \A j \in OpenRowsOf(x) : rows'[j] = rows[j]
    BY <1>1, <1>4, Zenon DEF OpenRowsOf
  <2> QED BY <1>3, <2>1, UntouchedStays, Zenon
<1> HIDE DEF k
<1>6. phase[k] = "claimed" /\ phase'[k] = "claimed" /\ stage[k] = 1 /\ stage'[k] = 2
  BY <1>1, <1>2, <1>3, <1>4, TicketAt, TicketAtNext, Phases, SMTT(40) DEF PLAN, IMPL
<1>7. stage' = [stage EXCEPT ![k] = 2] /\ phase' = phase
  BY <1>2, <1>5, <1>6, TicketTypes, SMTT(40) DEF L!Stays
<1> QED BY <1>2, <1>6, <1>7, Zenon DEF L!BypassOne, L!Impl

-----------------------------------------------------------------------------
(* The rows of a ticket, duplicates, deleted and reopened rows included,   *)
(* behave as one ticket of TicketLifecycle: queued, claimed out of the     *)
(* queue at the stage it was queued with, then forward, back to            *)
(* implementation or parked, for any number of clients, tickets and rows.  *)
THEOREM Implements ==
    ASSUME CancelledRowRestore = FALSE
    PROVE  Spec => ImplementsLifecycle
<1>1. Init => L!LifecycleInit
  <2> SUFFICES ASSUME Init PROVE L!LifecycleInit
    BY Zenon
  <2>1. \A i \in Slots : rows[i].status = "absent"
    <3>1. PICK c \in Clients, t \in Tickets :
             rows = [i \in Slots |-> NewRow(c, t, "absent", PLAN, "none", FALSE, FALSE)]
      BY Zenon DEF Init
    <3> QED BY <3>1, Zenon DEF NewRow
  <2>2. \A k \in Keys : OpenRowsOf(k) = {}
    BY <2>1, Zenon DEF OpenRowsOf, Open
  <2> QED BY <2>2, Zenon DEF L!LifecycleInit, phase, stage
<1>2. Inv /\ [Next]_vars => [L!LifecycleNext]_(L!lvars)
  <2> SUFFICES ASSUME Inv, [Next]_vars PROVE L!LifecycleNext
    BY Zenon
  <2>1. Inv' /\ (Rewrites \/ Opens \/ Claims \/ Lifts)
    BY NextKeeps, Zenon DEF Kept
  <2>2. CASE Rewrites \/ Opens
    <3>1. \A k \in Keys : L!Moves(k) \/ L!Stays(k)
      BY <2>1, <2>2, RewriteMoves, OpenMoves, Zenon
    <3> QED BY <2>1, <3>1, TicketTypes, Zenon DEF L!LifecycleNext, L!MoveMany
  <2>3. CASE Claims \/ Lifts
    BY <2>1, <2>3, ClaimMoves, LiftMoves, Zenon DEF L!LifecycleNext
  <2> QED BY <2>1, <2>2, <2>3, Zenon
<1> QED BY <1>1, <1>2, InvHolds, PTL DEF Spec, ImplementsLifecycle, L!Lifecycle

=============================================================================
