----------------------------- MODULE MCDispatch -----------------------------
(***************************************************************************)
(* The dispatch side of the daemon on small instances: usage-limit         *)
(* windows, the lane circuit breaker and the dispatch tick. They share no  *)
(* variable, so a behaviour picks one part and runs it.                    *)
(***************************************************************************)
EXTENDS DispatchParts, LaneParts

VARIABLES
    parent, local, track, upstream, main, origin, pr, tree, ses, disp, gc,
    pushed, late, lost, yN

\* A worktree over two claims while its worker switches branches; and with gc
\* and cw done --cleanup.
Tree == INSTANCE Worktree WITH
    n <- yN, Moves <- {"switch", "detach"}, Cleanup <- FALSE, MaxCommits <- 4,
    MaxWrites <- 4, MaxClaims <- 2, MaxSweeps <- 0, MaxRemote <- 2
Swept == INSTANCE Worktree WITH
    n <- yN, Moves <- {}, Cleanup <- TRUE, MaxCommits <- 4, MaxWrites <- 3,
    MaxClaims <- 2, MaxSweeps <- 1, MaxRemote <- 3

ASSUME Tree!WorktreeAssumption
ASSUME Swept!WorktreeAssumption

yVars == <<parent, local, track, upstream, main, origin, pr, tree, ses, disp,
    gc, pushed, late, lost, yN>>

-----------------------------------------------------------------------------

\* The variables of a component that does not run.
NoWorktree ==
    /\ parent = 0 /\ local = 0 /\ track = 0 /\ upstream = 0 /\ main = 0
    /\ origin = 0 /\ pr = 0 /\ tree = 0 /\ ses = 0 /\ disp = 0 /\ gc = 0
    /\ pushed = 0 /\ late = 0 /\ lost = 0 /\ yN = 0

Init ==
    \/ DispatchInit /\ LaneOff /\ NoWorktree
    \/ LaneInit /\ DispatchOff /\ NoWorktree
    \/ part = "tree" /\ Tree!Init /\ DispatchOff /\ LaneOff
    \/ part = "swept" /\ Swept!Init /\ DispatchOff /\ LaneOff

Next ==
    \/ DispatchNext /\ UNCHANGED <<LaneVars, yVars>>
    \/ LaneNext /\ UNCHANGED <<DispatchVars, yVars>>
    \/ part = "tree" /\ Tree!Next /\ UNCHANGED <<part, DispatchVars,
       LaneVars>>
    \/ part = "swept" /\ Swept!Next /\ UNCHANGED <<part, DispatchVars,
       LaneVars>>

Spec == Init /\ [][Next]_<<part, DispatchVars, LaneVars, yVars>>

\* The tick alone, with one lane and one ticket per client, and a
\* quota that both clients fit in.
Served == INSTANCE DispatchTick WITH
    tick <- dTick, ClientSeq <- <<"a", "b">>,
    LanesOf <- [a |-> <<"a1">>, b |-> <<"b1">>],
    MaxParallel <- [a1 |-> 1, b1 |-> 1], LaneOf <- [t1 |-> "a1", t4 |-> "b1"],
    Ceiling <- [a |-> 2, b |-> 1], Budget <- 3, MaxClients <- 2


ServedInit ==
    /\ part = "lanes" /\ NoUsageWindows /\ NoLaneCircuit /\ NoWorktree /\ NoDirtyChecks
    /\ Served!Init
ServedNext == Served!Next /\ UNCHANGED <<part, wVars, cVars, yVars, qVars>>

ServedSpec ==
    /\ ServedInit /\ [][ServedNext]_<<part, DispatchVars, LaneVars, yVars>>
    /\ WF_dVars(Served!TickStep)
    /\ \A i \in 1..2 : SF_dVars(Served!ClientStart /\ dTick.c = i)
    /\ \A l \in {"a1", "b1"} : SF_dVars(Served!LaneStart /\ Served!Lane = l)
    /\ \A t \in {"t1", "t4"} :
          /\ SF_dVars(\E p \in SUBSET {"t1", "t4"} : Served!Claim(p, t))
          /\ SF_dVars(Served!Spawned(t))
          /\ WF_dVars(Served!WorkerEnds(t, "DONE"))
          /\ WF_dVars(Served!OperatorMoves(t, "DONE"))


-----------------------------------------------------------------------------

\* Removing a worktree or its branch loses no work that was there when the
\* remover last looked: what is uncommitted is not removed, and every commit
\* is on a branch, in the tree or has been pushed (unsaved_work_reason before
\* remove_worktree, _check_dirt before git worktree remove and git branch -D).
WorkKept ==
    /\ part = "tree" => Tree!WorkKept
    /\ part = "swept" => Swept!WorkKept

\* A row waiting in any lane of any client is claimed, parked or cancelled.
PendingServed == Served!PendingServed
-----------------------------------------------------------------------------
\* The values of constants that a configuration cannot write down.
MCOrder == <<"s1", "s2">>
MCClientSeq == <<"a", "b">>
MCLanesOf == [a |-> <<"a1">>, b |-> <<"b1", "b2">>]
MCMaxParallel == [a1 |-> 1, b1 |-> 1, b2 |-> 1]
MCLaneOf == [t1 |-> "a1", t2 |-> "a1", t3 |-> "b1", t4 |-> "b2"]
MCCeiling == [a |-> 1, b |-> 1]
=============================================================================
