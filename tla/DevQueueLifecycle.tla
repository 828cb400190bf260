-------------------------- MODULE DevQueueLifecycle --------------------------
(***************************************************************************)
(* The dev queue implements the ticket lifecycle: a ticket's phase and     *)
(* stage are those of its one open row.                                    *)
(***************************************************************************)
EXTENDS DevQueue

Keys == Clients \X Tickets

OpenRowsOf(k) == {i \in Slots : Key(rows[i]) = k /\ rows[i].status \in Open}

OpenRowOf(k) == CHOOSE i \in OpenRowsOf(k) : TRUE

PhaseOf(status) ==
    CASE status = "pending" -> "queued"
      [] status = "running" -> "claimed"
      [] OTHER -> "parked"

phase == [k \in Keys |-> IF OpenRowsOf(k) = {} THEN "idle"
                         ELSE PhaseOf(rows[OpenRowOf(k)].status)]

stage == [k \in Keys |-> IF OpenRowsOf(k) = {} THEN 0 ELSE rows[OpenRowOf(k)].stage]

L == INSTANCE TicketLifecycle WITH Finalize <- FINALIZE

(* The rows of a ticket, their duplicates, sweeps and rescues included,    *)
(* behave as one ticket that is idle, queued, claimed or parked: it is     *)
(* only ever claimed out of the queue, at the stage it was queued with; no *)
(* step of the daemon or an operator changes the stage of a claimed ticket *)
(* other than the plan bypass; and a ticket whose claim ends goes forward, *)
(* or back to implementation.                                              *)
ImplementsLifecycle == L!Lifecycle

=============================================================================
