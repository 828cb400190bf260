------------------------------ MODULE BusParts ------------------------------
(***************************************************************************)
(* The part of the daemon that serves channels: the poller that bridges    *)
(* the event log and the queue to buses, and the clients connected to      *)
(* them.                                                                   *)
(***************************************************************************)
EXTENDS Naturals, Sequences, FiniteSets, Parts

CONSTANTS
    BusSettings  \* of Bus

VARIABLES
    bInbox, fate, bCursor, bRow, snap, bLog, bLock, p, conn, acked, changes,
    connects, bCrashes

\* A client of the operator channel and a ticket that is held; a client of
\* the queue channel.
Bus(st) == INSTANCE EventBus WITH
    inbox <- bInbox, cursor <- bCursor, row <- bRow, log <- bLog,
    lock <- bLock, crashes <- bCrashes, Tickets <- st.Tickets,
    Clients <- st.Clients, Status <- st.Status, Channel <- st.Channel,
    MaxEvents <- st.MaxEvents, MaxChanges <- st.MaxChanges,
    MaxConnects <- st.MaxConnects, MaxCrashes <- st.MaxCrashes

ASSUME BusAssumption ==
    /\ \A st \in BusSettings : Bus(st)!EventBusAssumption
    /\ \A st, other \in BusSettings : st.part = other.part => st = other

bVars == <<bInbox, fate, bCursor, bRow, snap, bLog, bLock, p, conn, acked,
    changes, connects, bCrashes>>

-----------------------------------------------------------------------------

\* The variables of a component that does not run.
NoEventBus ==
    /\ bInbox = 0 /\ fate = 0 /\ bCursor = 0 /\ bRow = 0 /\ snap = 0
    /\ bLog = 0 /\ bLock = 0 /\ p = 0 /\ conn = 0 /\ acked = 0 /\ changes = 0
    /\ connects = 0 /\ bCrashes = 0

BusOff == NoEventBus

BusInit ==
    \/ \E st \in BusSettings : part = st.part /\ Bus(st)!Init

BusNext ==
    \/ \E st \in BusSettings : part = st.part /\ Bus(st)!Next /\ UNCHANGED
       <<part>>

BusVars == <<bVars>>

BusSpec == BusInit /\ [][BusNext]_<<part, BusVars>>

-----------------------------------------------------------------------------

\* Every event the bridge's cursor has passed went out, alone or in a digest, or
\* its ticket still carries the digest marker, or the ticket changed meanwhile
\* (cw_operator_events.py:296-364: "never silently drop a held ticket's attention
\* signal").
HeldAttentionKept ==
    \A st \in BusSettings : part = st.part => Bus(st)!HeldAttentionKept

\* A connected client misses nothing past its acknowledged offset: each persisted
\* notification is in its queue, except the one whose fan-out is under way
\* (event_bus.py:259-296).
NotificationsDelivered ==
    \A st \in BusSettings : part = st.part => Bus(st)!NotificationsDelivered
=============================================================================
