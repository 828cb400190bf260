--------------------------- MODULE TicketLifecycle ---------------------------
(***************************************************************************)
(* What the dev queue promises about a ticket, whatever rows it keeps: a   *)
(* ticket of a client is in one phase at a time, is worked on only after   *)
(* waiting in the queue, and its stage moves only in the ways below.       *)
(***************************************************************************)
EXTENDS Integers

CONSTANTS Keys,     \* <<client, ticket>>
          Finalize  \* the last pipeline stage

VARIABLES phase, stage

lvars == <<phase, stage>>

Phase == {"idle", "queued", "claimed", "parked"}

(* The stage after the first one, and the stage finalize sends work back to. *)
Impl == 2

(* An idle ticket has no stage. *)
LifecycleTypeOK ==
    /\ phase \in [Keys -> Phase]
    /\ stage \in [Keys -> 0 .. Finalize]
    /\ \A k \in Keys : phase[k] = "idle" <=> stage[k] = 0

LifecycleInit ==
    /\ phase = [k \in Keys |-> "idle"]
    /\ stage = [k \in Keys |-> 0]

-----------------------------------------------------------------------------
(* The moves of one ticket *)

(* It enters the queue, or is adopted already parked. *)
Enters(k) ==
    /\ phase[k] = "idle"
    /\ phase'[k] \in {"queued", "parked"}
    /\ stage'[k] \in 1 .. Finalize

(* It leaves the queue: finished, failed, cancelled or deleted. *)
Leaves(k) ==
    /\ phase[k] # "idle"
    /\ phase'[k] = "idle" /\ stage'[k] = 0

(* It is put on hold without having been worked on. *)
Parks(k) ==
    /\ phase[k] = "queued" /\ phase'[k] = "parked"
    /\ stage'[k] = stage[k]

(* A claim ends, or a parked ticket is taken up again: the stage stays or  *)
(* moves forward.                                                          *)
Proceeds(k) ==
    /\ phase[k] \in {"claimed", "parked"}
    /\ phase'[k] \in {"queued", "parked"}
    /\ stage'[k] \in stage[k] .. Finalize

(* It goes back to an earlier stage, a claimed ticket only to              *)
(* implementation, and waits its turn again.                               *)
Regresses(k) ==
    /\ phase[k] \in {"claimed", "parked"}
    /\ phase'[k] = "queued"
    /\ stage'[k] \in 1 .. stage[k] - 1
    /\ phase[k] = "claimed" => stage'[k] = Impl

Moves(k) == Enters(k) \/ Leaves(k) \/ Parks(k) \/ Proceeds(k) \/ Regresses(k)

Stays(k) == phase'[k] = phase[k] /\ stage'[k] = stage[k]

-----------------------------------------------------------------------------
(* Claims, and the upgrade of a claim from planning to implementation,     *)
(* happen one at a time; the sweeps and the bulk commands may move several *)
(* tickets at once.                                                        *)

ClaimOne(k) ==
    /\ phase[k] = "queued"
    /\ phase' = [phase EXCEPT ![k] = "claimed"]
    /\ UNCHANGED stage

BypassOne(k) ==
    /\ phase[k] = "claimed" /\ stage[k] = 1
    /\ stage' = [stage EXCEPT ![k] = Impl]
    /\ UNCHANGED phase

MoveMany ==
    /\ phase' \in [Keys -> Phase]
    /\ stage' \in [Keys -> 0 .. Finalize]
    /\ \A k \in Keys : Moves(k) \/ Stays(k)

LifecycleNext ==
    \/ \E k \in Keys : ClaimOne(k) \/ BypassOne(k)
    \/ MoveMany

Lifecycle == LifecycleInit /\ [][LifecycleNext]_lvars

=============================================================================
