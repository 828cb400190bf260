----------------------------- MODULE LaneParts ------------------------------
(***************************************************************************)
(* The dispatch tick over clients, lanes and a host budget.                *)
(***************************************************************************)
EXTENDS Naturals, Sequences, FiniteSets, Parts

CONSTANTS
    ClientSeq, LanesOf, MaxParallel, LaneOf, Ceiling, Budget, MaxClients  \* of Lanes

VARIABLES
    status, sess, dTick, last

\* Two clients under a host budget of one, the second with two lanes and a
\* ceiling of one session.
Lanes == INSTANCE DispatchTick WITH
    tick <- dTick

ASSUME LanesAssumption == Lanes!TickAssumption

dVars == <<status, sess, dTick, last>>

-----------------------------------------------------------------------------

\* The variables of a component that does not run.
NoDispatchTick ==
    /\ status = 0 /\ sess = 0 /\ dTick = 0 /\ last = 0

LaneOff == NoDispatchTick

LaneInit ==
    \/ part = "lanes" /\ Lanes!Init

LaneNext ==
    \/ part = "lanes" /\ Lanes!Next /\ UNCHANGED <<part>>

LaneVars == <<dVars>>

LaneSpec == LaneInit /\ [][LaneNext]_<<part, LaneVars>>

-----------------------------------------------------------------------------

\* No lane, client or host runs more than its capacity.
CapacityHeld == part = "lanes" => Lanes!CapacityHeld
=============================================================================
