------------------------------ MODULE EventBus ------------------------------
\* The channel server cw-queue-events: its poller thread, which turns changes of
\* the queue into queue.* notifications and bridges the orchestrator's events to
\* the operator channel (cw_queue_events_server, cw_operator_events), the bus
\* each channel is (event_bus), and the clients that connect, replay, acknowledge
\* and drop (the SSE handlers, cw._events_channel_base).
\*
\* A broadcast persists the notification under the bus's file lock and then, the
\* lock released, hands it to every subscriber; clients come and go on another
\* thread.  A held ticket's attention event is not sent but marked on its row, and
\* goes out with a digest later.  The server may be killed at any point.
EXTENDS Integers, Sequences, FiniteSets

CONSTANTS
    Tickets,      \* rows of the queue
    Clients,      \* channel clients
    Status,       \* the statuses rows take
    Channel,      \* Channel[c]: the bus client c reads, "queue" or "operator"
    MaxEvents,    \* bound: orchestrator events recorded
    MaxChanges,   \* bound: status changes and hold changes of rows
    MaxConnects,  \* bound: connections
    MaxCrashes    \* bound: kills of the server

VARIABLES
    inbox,    \* the orchestrator's events, [about, what]
    fate,     \* history: what became of each event
    cursor,   \* the bridge's saved cursor
    row,      \* row[t]: [status, held, marked]
    snap,     \* the saved queue snapshot
    log,      \* log[b]: the notifications bus b persisted
    lock,     \* the connecting client that holds a bus's file lock, or "free"
    p,        \* the poller thread
    conn,     \* the clients' connections
    acked,    \* acked[c]: the client's saved cursor
    changes, connects, crashes

vars == <<inbox, fate, cursor, row, snap, log, lock, p, conn, acked, changes, connects, crashes>>

\* Connections and acknowledgements run one at a time on the event loop; the lock
\* they hold is their own bus's.
LockFree(b) == lock \notin {c \in Clients : Channel[c] = b}

Buses == {"queue", "operator"}
EventBusAssumption ==
    /\ Status \subseteq {"PENDING", "RUNNING", "COMPLETED", "FAILED", "BLOCKED"}
    /\ Channel \in [Clients -> Buses]
    /\ {MaxEvents, MaxChanges, MaxConnects, MaxCrashes} \subseteq Nat

NoConn == [on |-> FALSE, from |-> 0, got |-> <<>>, replayed |-> FALSE]
Idle == [pc |-> "idle", read |-> 0, send |-> {}, digest |-> {}, out |-> <<>>]

\* load_offset_from_file and load_cursors: a restart finds what was persisted.
Init ==
    /\ inbox = <<>> /\ fate = <<>> /\ cursor = 0
    /\ row = [t \in Tickets |-> [status |-> "PENDING", held |-> FALSE, marked |-> FALSE]]
    /\ snap = [t \in Tickets |-> "none"]
    /\ log = [b \in Buses |-> <<>>]
    /\ lock = "free" /\ p = Idle
    /\ conn = [c \in Clients |-> NoConn]
    /\ acked = [c \in Clients |-> 0]
    /\ changes = 0 /\ connects = 0 /\ crashes = 0

\* ------------------------------------------------------------------------
\* The queue and the events, changed by other processes

\* transition_task_status: any change of a row drops its digest marker, and the
\* attention events waiting behind the marker with it.
Excused(t) == [i \in 1..Len(fate) |->
                 IF fate[i] = "buffered" /\ inbox[i].about = t THEN "excused" ELSE fate[i]]
RowChanges(t) ==
    /\ changes < MaxChanges /\ changes' = changes + 1
    /\ \E s \in Status, h \in BOOLEAN :
        /\ h => s = "BLOCKED"
        /\ s # row[t].status
        /\ row' = [row EXCEPT ![t] = [status |-> s, held |-> h, marked |-> FALSE]]
    /\ fate' = Excused(t)
    /\ UNCHANGED <<inbox, cursor, snap, log, lock, p, conn, acked, connects, crashes>>

\* An attention page, another event the channel forwards, or one it filters out.
EventRecorded ==
    /\ Len(inbox) < MaxEvents
    /\ \E t \in Tickets, k \in {"attention", "other", "filtered"} :
         inbox' = Append(inbox, [about |-> t, what |-> k])
    /\ fate' = Append(fate, "new")
    /\ UNCHANGED <<cursor, row, snap, log, lock, p, conn, acked, changes, connects, crashes>>

\* ------------------------------------------------------------------------
\* EventBus.broadcast: persist under the file lock, then fan out

Notes(b) == 1..Len(log[b])
PutTo(b, n) == conn' = [c \in Clients |->
    IF conn[c].on /\ Channel[c] = b THEN [conn[c] EXCEPT !.got = Append(@, n)] ELSE conn[c]]

\* What an append settles: the event itself, or all that waits behind a digest.
Settled(n) == [i \in 1..Len(fate) |->
    IF i = n.event \/ (inbox[i].about \in n.tickets /\ fate[i] = "buffered") THEN "sent" ELSE fate[i]]

AppendEvent(b, n) ==
    /\ LockFree(b)
    /\ log' = [log EXCEPT ![b] = Append(@, n)]
    /\ fate' = Settled(n)

\* ------------------------------------------------------------------------
\* The poller: a tick is the queue deltas, then the bridge

\* _compute_queue_deltas: the changes of a row that have an event.
Delta(old, new) ==
    CASE old = "none"                              -> "enqueued"
      [] old = "PENDING" /\ new = "RUNNING"        -> "claimed"
      [] old = "RUNNING" /\ new = "COMPLETED"      -> "completed"
      [] old = "RUNNING" /\ new = "FAILED"         -> "failed"
      [] OTHER                                     -> "none"
Deltas == {[event |-> 0, tickets |-> {}, delta |-> <<t, Delta(snap[t], row[t].status)>>] :
             t \in {u \in Tickets : Delta(snap[u], row[u].status) # "none"}}

\* _poller_tick up to the broadcasts: compared, and the new snapshot saved, in one
\* hold of the queue bus's file lock.
PollQueue ==
    /\ p.pc = "idle" /\ LockFree("queue")
    /\ snap' = [t \in Tickets |-> row[t].status]
    /\ p' = [p EXCEPT !.pc = "queue", !.send = Deltas]
    /\ UNCHANGED <<inbox, fate, cursor, row, log, lock, conn, acked, changes, connects, crashes>>

\* The order of a tick's broadcasts: the events as they were read, then the
\* digest; the deltas of the queue go out in any order.
Before(n, m) == m.event = 0 \/ (n.event # 0 /\ n.event <= m.event)

\* One broadcast of the list, in its two halves.
Persist(b, pc) ==
    /\ p.pc = pc /\ p.out = <<>>
    /\ \E n \in p.send :
         /\ \A m \in p.send : Before(n, m)
         /\ AppendEvent(b, n)
         /\ p' = [p EXCEPT !.send = @ \ {n}, !.out = <<n>>]
    /\ UNCHANGED <<inbox, cursor, row, snap, lock, conn, acked, changes, connects, crashes>>
FanOut(b, pc) ==
    /\ p.pc = pc /\ p.out # <<>>
    /\ PutTo(b, Head(p.out))
    /\ p' = [p EXCEPT !.out = <<>>]
    /\ UNCHANGED <<inbox, fate, cursor, row, snap, log, lock, acked, changes, connects, crashes>>
BroadcastQueue == Persist("queue", "queue") \/ FanOut("queue", "queue")

\* poll_and_forward_operator_channel: the events past the cursor.
ReadBridge ==
    /\ p.pc = "queue" /\ p.send = {} /\ p.out = <<>>
    /\ p' = [p EXCEPT !.pc = "read", !.read = Len(inbox)]
    /\ UNCHANGED <<inbox, fate, cursor, row, snap, log, lock, conn, acked, changes, connects, crashes>>

\* _admits and _classify_event over the events read, under the queue lock: a held
\* ticket's attention is marked on the row, everything else admitted goes out.
New == {i \in (cursor + 1)..p.read : inbox[i].what # "filtered"}
Buffered == {i \in New : inbox[i].what = "attention" /\ row[inbox[i].about].held}
Individually == {[event |-> i, tickets |-> {}, delta |-> <<>>] : i \in New \ Buffered}
MarkedRow(t) == [row[t] EXCEPT !.marked = @ \/ \E i \in Buffered : inbox[i].about = t]

\* _peek_flushable_digest: the held rows with a marker, when the delivery window
\* is open and the newest marker is old enough.
Flushable == {t \in Tickets : MarkedRow(t).marked /\ row[t].held}
Digest(d) == IF d = {} THEN {} ELSE {[event |-> 0, tickets |-> d, delta |-> <<>>]}

\* The marker cleared with the classification, before the digest is out.
ClassifyClearing ==
    /\ p.pc = "read"
    /\ fate' = [i \in 1..Len(fate) |-> IF i \in Buffered /\ fate[i] = "new" THEN "buffered" ELSE fate[i]]
    /\ \E d \in {{}, Flushable} :
         /\ row' = [t \in Tickets |-> IF t \in d THEN [row[t] EXCEPT !.marked = FALSE] ELSE MarkedRow(t)]
         /\ p' = [p EXCEPT !.pc = "bridge", !.digest = d,
                           !.send = Individually \union Digest(d)]
    /\ UNCHANGED <<inbox, cursor, snap, log, lock, conn, acked, changes, connects, crashes>>

Classify ==
    /\ p.pc = "read"
    /\ row' = [t \in Tickets |-> MarkedRow(t)]
    /\ fate' = [i \in 1..Len(fate) |-> IF i \in Buffered /\ fate[i] = "new" THEN "buffered" ELSE fate[i]]
    /\ \E d \in {{}, Flushable} :
         p' = [p EXCEPT !.pc = "bridge", !.digest = d,
                           !.send = Individually \union Digest(d)]
    /\ UNCHANGED <<inbox, cursor, snap, log, lock, conn, acked, changes, connects, crashes>>

BroadcastBridge == Persist("operator", "bridge") \/ FanOut("operator", "bridge")

Unmark(ts) == [t \in Tickets |-> IF t \in ts THEN [row[t] EXCEPT !.marked = FALSE] ELSE row[t]]

\* _clear_digest_buffer: only after the digest is out, in a second hold of the lock.
ClearDigestBuffer ==
    /\ p.pc = "bridge" /\ p.send = {} /\ p.out = <<>>
    /\ row' = Unmark(p.digest)
    /\ p' = [p EXCEPT !.pc = "advance", !.digest = {}]
    /\ UNCHANGED <<inbox, fate, cursor, snap, log, lock, conn, acked, changes, connects, crashes>>

AdvanceCursor ==
    /\ p.pc = "advance"
    /\ cursor' = p.read /\ p' = Idle
    /\ UNCHANGED <<inbox, fate, row, snap, log, lock, conn, acked, changes, connects, crashes>>

\* ------------------------------------------------------------------------
\* The clients' thread

\* subscribe_with_cursor: the queue is registered and the backlog read in one hold
\* of the file lock; a broadcast that has persisted may fan out in between.
Register(c) ==
    /\ ~conn[c].on /\ connects < MaxConnects /\ connects' = connects + 1
    /\ lock = "free" /\ lock' = c
    /\ conn' = [conn EXCEPT ![c] = [NoConn EXCEPT !.on = TRUE, !.from = acked[c]]]
    /\ UNCHANGED <<inbox, fate, cursor, row, snap, log, p, acked, changes, crashes>>

BacklogLate(c) == SubSeq(log[Channel[c]], conn[c].from + 2, Len(log[Channel[c]]))

\* read_events_from_offset_locked: what is past the client's offset.
Backlog(c) == SubSeq(log[Channel[c]], conn[c].from + 1, Len(log[Channel[c]]))
Replay(c) ==
    /\ lock = c /\ lock' = "free"
    /\ conn' = [conn EXCEPT ![c].got = @ \o Backlog(c), ![c].replayed = TRUE]
    /\ UNCHANGED <<inbox, fate, cursor, row, snap, log, p, acked, changes, connects, crashes>>

\* ack_offset: a client acknowledges a prefix of the log that it has received.
Received(c, k) == \A i \in 1..k : i <= conn[c].from \/ \E j \in 1..Len(conn[c].got) :
                                                          conn[c].got[j] = log[Channel[c]][i]
AckOffset(c) ==
    /\ conn[c].on /\ conn[c].replayed /\ lock = "free"
    /\ \E k \in (acked[c] + 1)..Len(log[Channel[c]]) :
         Received(c, k) /\ acked' = [acked EXCEPT ![c] = k]
    /\ UNCHANGED <<inbox, fate, cursor, row, snap, log, lock, p, conn, changes, connects, crashes>>

\* _drain's send fails, or the client goes: unsubscribe.
Unsubscribe(c) ==
    /\ conn[c].on /\ lock # c
    /\ conn' = [conn EXCEPT ![c] = NoConn]
    /\ UNCHANGED <<inbox, fate, cursor, row, snap, log, lock, p, acked, changes, connects, crashes>>

\* The server is killed and started again.
Restart ==
    /\ crashes < MaxCrashes /\ crashes' = crashes + 1
    /\ p' = Idle /\ lock' = "free"
    /\ conn' = [c \in Clients |-> NoConn]
    /\ UNCHANGED <<inbox, fate, cursor, row, snap, log, acked, changes, connects>>

Next ==
    \/ \E t \in Tickets : RowChanges(t)
    \/ EventRecorded
    \/ PollQueue \/ BroadcastQueue \/ ReadBridge \/ Classify \/ BroadcastBridge
    \/ ClearDigestBuffer \/ AdvanceCursor
    \/ \E c \in Clients : Register(c) \/ Replay(c) \/ AckOffset(c) \/ Unsubscribe(c)
    \/ Restart

Spec == Init /\ [][Next]_vars

\* ------------------------------------------------------------------------
\* Properties

\* Every event the bridge's cursor has passed went out, alone or in a digest, or
\* its ticket still carries the digest marker, or the ticket changed meanwhile
\* (cw_operator_events.py:296-364: "never silently drop a held ticket's attention
\* signal").
HeldAttentionKept ==
    \A i \in 1..cursor :
        inbox[i].what = "filtered" \/ fate[i] \in {"sent", "excused"}
        \/ (fate[i] = "buffered" /\ row[inbox[i].about].marked)

\* A connected client misses nothing past its acknowledged offset: each persisted
\* notification is in its queue, except the one whose fan-out is under way
\* (event_bus.py:259-296).
NotificationsDelivered ==
    \A c \in Clients : conn[c].on /\ conn[c].replayed =>
        \A i \in (conn[c].from + 1)..Len(log[Channel[c]]) :
            \/ \E j \in 1..Len(conn[c].got) : conn[c].got[j] = log[Channel[c]][i]
            \/ p.out = <<log[Channel[c]][i]>>

\* event_bus.py:263: an event is "never duplicated (it is not in the backlog we
\* replay)".
NeverDuplicated ==
    \A c \in Clients : \A k \in 1..Len(conn[c].got) :
        Cardinality({j \in 1..Len(conn[c].got) : conn[c].got[j] = conn[c].got[k]})
          <= Cardinality({i \in 1..Len(log[Channel[c]]) : log[Channel[c]][i] = conn[c].got[k]})
=============================================================================
