---------------------------- MODULE DispatchTick ----------------------------
(***************************************************************************)
(* The capacity arithmetic of one dispatch tick: cw/dispatch/tick.py (the  *)
(* client loop, the Tier-1 quota, the host budget), cw/dispatch/lanes.py   *)
(* (the lane walk and its grants) and cw/dispatch/host_capacity.py.        *)
(*                                                                         *)
(* Three caps are kept by counting on snapshots -- the sessions loaded at  *)
(* the start of the tick, the rows loaded per client -- and spending under *)
(* later locks, while workers and operators go on moving rows.             *)
(***************************************************************************)
EXTENDS Integers, Sequences, FiniteSets

CONSTANTS
    ClientSeq,    \* clients in declaration order
    LanesOf,      \* client -> its lanes in priority order
    MaxParallel,  \* lane -> max_parallel
    LaneOf,       \* ticket -> lane (lane names are unique here)
    Ceiling,      \* client -> per_client_ceiling
    Budget,       \* host_session_budget
    MaxClients    \* max_parallel_clients

Tickets == DOMAIN LaneOf
Lanes == DOMAIN MaxParallel
Clients == DOMAIN LanesOf

\* Every lane has one place in the walk of one client, and every client one
\* place in the tick (mapping keys of clients.yaml).
TickAssumption ==
    /\ IsFiniteSet(Tickets)
    /\ ClientSeq \in Seq(Clients) /\ LanesOf \in [Clients -> Seq(Lanes)]
    /\ \A i, j \in DOMAIN ClientSeq : ClientSeq[i] = ClientSeq[j] => i = j
    /\ \A c, d \in Clients : \A i \in DOMAIN LanesOf[c], j \in DOMAIN LanesOf[d] :
          LanesOf[c][i] = LanesOf[d][j] => c = d /\ i = j
    /\ \A t \in Tickets : \E c \in Clients : \E i \in DOMAIN LanesOf[c] : LanesOf[c][i] = LaneOf[t]
    /\ MaxParallel \in [Lanes -> Nat] /\ Ceiling \in [Clients -> Nat]
    /\ Budget \in Nat /\ MaxClients \in Nat

ClientOf(t) == CHOOSE c \in Clients : \E i \in DOMAIN LanesOf[c] : LanesOf[c][i] = LaneOf[t]

VARIABLES
    status,  \* [Tickets -> status]; "PARKED" stands for BLOCKED_ON_USER and
             \* AWAITING_OPERATOR_SIGNOFF, "SIBLING" for the terminal_sibling park
    sess,    \* [Tickets -> BOOLEAN]: an ACTIVE or IDLE daemon session of the row
    tick,    \* the running tick
    last     \* the last dispatch.tick event of a client

vars == <<status, sess, tick, last>>

Idle == [pc |-> "idle"]

NoEvent == [skip |-> "none", spawned |-> 0]

Init ==
    /\ status = [t \in Tickets |-> "ABSENT"]
    /\ sess = [t \in Tickets |-> FALSE]
    /\ tick = Idle
    /\ last = NoEvent

-----------------------------------------------------------------------------

InLane(l) == {t \in Tickets : LaneOf[t] = l}

Parked == {"PARKED", "SIBLING"}

\* occupies_lane_slot: RUNNING and parked rows, the terminal sibling excepted.
Occupies(st) == st \in {"RUNNING", "PARKED"}

Occupants(l) == Cardinality({t \in InLane(l) : Occupies(status[t])})

Pending(l) == {t \in InLane(l) : status[t] = "PENDING"}

\* counts_toward_client_ceiling.
RunningCount(c) == Cardinality({t \in Tickets : ClientOf(t) = c /\ sess[t]})

\* resolve_host_capacity: parked sessions are not counted.
HostRunning == Cardinality({t \in Tickets : sess[t] /\ status[t] \notin Parked})

Smaller(a, b) == IF a < b THEN a ELSE b

NoCounts == [l \in Lanes |-> [taken |-> 0, waiting |-> 0]]

\* The state is loaded once per tick; the host budget is resolved on it.
TickStart ==
    /\ tick.pc = "idle"
    /\ tick' = [pc |-> "client", c |-> 1, l |-> 1, snap |-> NoCounts,
                running |-> [c \in Clients |-> RunningCount(c)],
                host |-> Budget - HostRunning, gated |-> FALSE, slots |-> 0, grant |-> 0,
                served |-> 0, row |-> {}, capBlocked |-> FALSE, spawned |-> 0, broke |-> "no"]
    /\ UNCHANGED <<status, sess, last>>

Client == ClientSeq[tick.c]
Lane == LanesOf[Client][tick.l]

\* What the walk reads of the client's row snapshot: slots taken, rows waiting.
Counts ==
    [l \in Lanes |-> IF \E i \in DOMAIN LanesOf[Client] : LanesOf[Client][i] = l
                     THEN [taken |-> Occupants(l), waiting |-> Cardinality(Pending(l))]
                     ELSE NoCounts[l]]

\* The client loop ends after the last client or at max_parallel_clients.
TickEnd ==
    /\ tick.pc = "client"
    /\ tick.c > Len(ClientSeq) \/ tick.served >= MaxClients
    /\ tick' = Idle /\ last' = NoEvent
    /\ UNCHANGED <<status, sess>>

\* A usage-limit window, a preflight gate or the freshness gate skips it.
ClientGated ==
    /\ tick.pc = "client"
    /\ tick.c <= Len(ClientSeq) /\ tick.served < MaxClients
    /\ tick' = [tick EXCEPT !.c = @ + 1]
    /\ UNCHANGED <<status, sess, last>>

\* Past the gates: the client's row snapshot and its slot budget.
ClientStart ==
    /\ tick.pc = "client"
    /\ tick.c <= Len(ClientSeq) /\ tick.served < MaxClients
    /\ tick' = [tick EXCEPT !.pc = "lane", !.l = 1, !.snap = Counts, !.served = @ + 1,
                            !.slots = Smaller(Ceiling[Client] - tick.running[Client], tick.host),
                            !.gated = tick.host <= 0,
                            !.capBlocked = FALSE, !.spawned = 0, !.broke = "no"]
    /\ last' = NoEvent
    /\ UNCHANGED <<status, sess>>

GrantLeavesOne(l) ==
    Smaller(MaxParallel[l] - tick.snap[l].taken - 1, Smaller(tick.snap[l].waiting, tick.slots))

\* One lane's grant, counted on the client's snapshot.
Grant(l) ==
    Smaller(MaxParallel[l] - tick.snap[l].taken, Smaller(tick.snap[l].waiting, tick.slots))

\* The walk of _dispatch_client_lanes looks at its next lane.
LaneStart ==
    /\ tick.pc = "lane"
    /\ tick.l <= Len(LanesOf[Client]) /\ tick.slots > 0
    /\ LET g == Grant(Lane) IN
       tick' = IF g > 0
               THEN [tick EXCEPT !.pc = "claim", !.grant = g]
               ELSE [tick EXCEPT !.l = @ + 1,
                                 !.capBlocked = @ \/ tick.snap[Lane].waiting > 0]
    /\ UNCHANGED <<status, sess, last>>

\* A paused lane is passed over.
LanePaused ==
    /\ tick.pc = "lane"
    /\ tick.l <= Len(LanesOf[Client]) /\ tick.slots > 0
    /\ tick' = [tick EXCEPT !.l = @ + 1]
    /\ UNCHANGED <<status, sess, last>>

\* _claim_next_pending, under the lock and on fresh rows: candidates at the
\* attempt ceiling or held by a gate are parked, the first other is claimed.
Claim(parked, t) ==
    /\ tick.pc = "claim"
    /\ parked \subseteq Pending(Lane) \ {t}
    /\ t \in Pending(Lane)
    /\ status' = [u \in Tickets |-> IF u \in parked THEN "PARKED"
                                    ELSE IF u = t THEN "RUNNING" ELSE status[u]]
    /\ tick' = [tick EXCEPT !.pc = "spawn", !.row = {t}]
    /\ UNCHANGED <<sess, last>>

\* Nothing claimable (all parked, in back-off or occupied): the lane is done.
ClaimNothing(parked) ==
    /\ tick.pc = "claim"
    /\ parked \subseteq Pending(Lane)
    /\ status' = [u \in Tickets |-> IF u \in parked THEN "PARKED" ELSE status[u]]
    /\ tick' = [tick EXCEPT !.pc = "lane", !.l = @ + 1]
    /\ UNCHANGED <<sess, last>>

\* The next iteration of the grant, or the next lane.
AfterSpawn(k) ==
    IF k.grant = 1 THEN [k EXCEPT !.pc = "lane", !.l = @ + 1, !.grant = 0, !.row = {}]
    ELSE [k EXCEPT !.pc = "claim", !.grant = @ - 1, !.row = {}]

SpawnedKeepsSlot(t) ==
    /\ tick.pc = "spawn" /\ tick.row = {t}
    /\ sess' = [sess EXCEPT ![t] = TRUE]
    /\ tick' = AfterSpawn([tick EXCEPT !.spawned = @ + 1])
    /\ UNCHANGED <<status, last>>

\* _spawn_claimed_task succeeded.
Spawned(t) ==
    /\ tick.pc = "spawn" /\ tick.row = {t}
    /\ sess' = [sess EXCEPT ![t] = TRUE]
    /\ tick' = AfterSpawn([tick EXCEPT !.slots = @ - 1, !.spawned = @ + 1])
    /\ UNCHANGED <<status, last>>

\* The claim is handed back: an occupied worktree goes on to the next grant, a
\* spawn error or a usage limit breaks the walk.
NotSpawned(t, why) ==
    /\ tick.pc = "spawn" /\ tick.row = {t}
    /\ status' = [status EXCEPT ![t] = IF @ = "RUNNING" THEN "PENDING" ELSE @]
    /\ tick' = IF why = "deferred" THEN AfterSpawn(tick)
               ELSE [tick EXCEPT !.pc = "report", !.broke = why]
    /\ UNCHANGED <<sess, last>>

\* _resolve_dispatch_skip_reason: first match wins.
SkipReason ==
    CASE tick.broke = "limit" -> "usage_limited"
      [] tick.broke # "limit" /\ tick.gated -> "host_capacity_gated"
      [] tick.broke # "limit" /\ ~tick.gated
            /\ tick.running[Client] >= Ceiling[Client] -> "cap_full"
      [] tick.broke # "limit" /\ ~tick.gated
            /\ tick.running[Client] < Ceiling[Client] /\ tick.capBlocked -> "lane_cap_blocked"
      [] tick.broke # "limit" /\ ~tick.gated
            /\ tick.running[Client] < Ceiling[Client] /\ ~tick.capBlocked ->
            IF tick.broke = "error" THEN "spawn_error"
            ELSE IF tick.spawned = 0 THEN "no_pending" ELSE "none"

\* The client's dispatch.tick event; its spawns come off the host budget.
Report ==
    /\ \/ tick.pc = "lane" /\ (tick.l > Len(LanesOf[Client]) \/ tick.slots <= 0)
       \/ tick.pc = "report"
    /\ last' = [skip |-> SkipReason, spawned |-> tick.spawned]
    /\ tick' = [tick EXCEPT !.pc = "client", !.c = @ + 1, !.snap = NoCounts, !.host = @ - tick.spawned,
                            !.row = {}, !.spawned = 0, !.capBlocked = FALSE, !.broke = "no"]
    /\ UNCHANGED <<status, sess>>

TickStep ==
    \/ TickStart \/ TickEnd \/ ClientStart \/ LaneStart \/ Report
    \/ \E t \in Tickets : \E p \in SUBSET Tickets : Claim(p, t)
    \/ \E p \in SUBSET Tickets : ClaimNothing(p)
    \/ \E t \in Tickets : Spawned(t) \/ \E w \in {"deferred", "error", "limit"} : NotSpawned(t, w)

-----------------------------------------------------------------------------
(* Workers and operators, under the same queue lock but at any time.       *)

AddTicket(t) ==
    /\ status[t] = "ABSENT"
    /\ status' = [status EXCEPT ![t] = "PENDING"]
    /\ UNCHANGED <<sess, tick, last>>

\* A worker's result or a sweep ends the run; a parked row may keep its
\* session.
WorkerEnds(t, st) ==
    /\ status[t] = "RUNNING" /\ sess[t]
    /\ status' = [status EXCEPT ![t] = st]
    /\ \/ sess' = [sess EXCEPT ![t] = FALSE]
       \/ st \in Parked /\ UNCHANGED sess
    /\ UNCHANGED <<tick, last>>

\* approve, requeue, unblock, cancel: the row's session is gone by then.
OperatorMoves(t, st) ==
    /\ status[t] \in Parked
    /\ status' = [status EXCEPT ![t] = st]
    /\ sess' = [sess EXCEPT ![t] = FALSE]
    /\ UNCHANGED <<tick, last>>

\* park_terminal_sibling_tasks.
ParkSibling(t) ==
    /\ status[t] = "PENDING"
    /\ status' = [status EXCEPT ![t] = "SIBLING"]
    /\ UNCHANGED <<sess, tick, last>>

Next ==
    \/ TickStep
    \/ ClientGated \/ LanePaused
    \/ \E t \in Tickets : AddTicket(t) \/ ParkSibling(t)
    \/ \E t \in Tickets, st \in {"DONE", "PENDING", "PARKED"} :
          WorkerEnds(t, st)
    \/ \E t \in Tickets, st \in {"DONE", "PENDING"} : OperatorMoves(t, st)

Spec == Init /\ [][Next]_vars

\* The loop keeps ticking; gates open, pauses end, a claimable row is claimed
\* and spawned again and again; workers finish and operators answer parks.
Fairness ==
    /\ WF_vars(TickStep)
    /\ \A i \in DOMAIN ClientSeq : SF_vars(ClientStart /\ tick.c = i)
    /\ \A l \in Lanes : SF_vars(LaneStart /\ Lane = l)
    /\ \A t \in Tickets :
          /\ SF_vars(\E p \in SUBSET Tickets : Claim(p, t))
          /\ SF_vars(Spawned(t))
          /\ WF_vars(WorkerEnds(t, "DONE")) /\ WF_vars(OperatorMoves(t, "DONE"))

-----------------------------------------------------------------------------

\* However rows move while the tick counts on its snapshots, no lane runs more
\* workers than its max_parallel.
RunningWithinLane ==
    \A l \in Lanes : Cardinality({t \in InLane(l) : status[t] = "RUNNING"}) <= MaxParallel[l]

\* The sessions of a client never exceed its ceiling, over all its lanes.
CeilingHeld == \A c \in Clients : RunningCount(c) <= Ceiling[c]

\* The working sessions of all clients never exceed the host budget, though it
\* is counted once and spent client by client.
HostHeld == HostRunning <= Budget

\* No lane, client or host runs more than its capacity.
CapacityHeld == RunningWithinLane /\ CeilingHeld /\ HostHeld

\* A row waiting in any lane of any client is claimed, parked or cancelled.
PendingServed == \A t \in Tickets : status[t] = "PENDING" ~> status[t] # "PENDING"

\* RFC 0004, invariant 4: no lane ever exceeds its own max_parallel, in the
\* slots the code counts as occupied.
SaturationCap == \A l \in Lanes : Occupants(l) <= MaxParallel[l]

\* The docstring of _resolve_dispatch_skip_reason: lane_cap_blocked means that
\* no lane with pending work could be granted a slot.
CapBlockedMeansNoLane ==
    last.skip = "lane_cap_blocked" => last.spawned = 0
=============================================================================
