---------------------------- MODULE BusPartsProofs --------------------------
(***************************************************************************)
(* What the channel server keeps for every value of its constants: for any *)
(* tickets, clients and events, and killed at any point, the bridge loses  *)
(* no attention of a held ticket and a connected client misses no          *)
(* notification.                                                           *)
(***************************************************************************)
EXTENDS BusParts, Integers, TLAPS

Fates == {"new", "buffered", "sent", "excused"}
OrchestratorEvents(st) == [about : st.Tickets, what : {"attention", "other", "filtered"}]
Statuses == {"PENDING", "RUNNING", "COMPLETED", "FAILED", "BLOCKED"}
DeltaKinds == {"enqueued", "claimed", "completed", "failed", "none"}
Rows == [status : Statuses, held : BOOLEAN, marked : BOOLEAN]
BusNotes(st) == [event : Nat, tickets : SUBSET st.Tickets,
                 delta : {<<>>} \union (st.Tickets \X DeltaKinds)]
Pollers(st) == [pc : {"idle", "queue", "read", "bridge", "advance"}, read : Nat,
                send : SUBSET BusNotes(st), digest : SUBSET st.Tickets,
                out : {<<>>} \union {<<n>> : n \in BusNotes(st)}]
Conns(st) == [on : BOOLEAN, from : Nat, got : Seq(BusNotes(st)), replayed : BOOLEAN]

EventNote(i) == [event |-> i, tickets |-> {}, delta |-> <<>>]
DigestNote(d) == [event |-> 0, tickets |-> d, delta |-> <<>>]

\* What the server's state is made of; every event has a fate.
BusType(st) ==
    /\ bInbox \in Seq(OrchestratorEvents(st)) /\ fate \in Seq(Fates)
    /\ Len(fate) = Len(bInbox)
    /\ bCursor \in 0..Len(bInbox)
    /\ bRow \in [st.Tickets -> Rows]
    /\ snap \in [st.Tickets -> Statuses \union {"none"}]
    /\ bLog \in [Bus(st)!Buses -> Seq(BusNotes(st))]
    /\ p \in Pollers(st)
    /\ conn \in [st.Clients -> Conns(st)] /\ acked \in [st.Clients -> Nat]

\* An event that needs no more of the bridge.
Safe(i) ==
    \/ bInbox[i].what = "filtered" \/ fate[i] \in {"sent", "excused"}
    \/ fate[i] = "buffered" /\ bRow[bInbox[i].about].marked

\* The bridge behind its cursor and in a tick: an event of the tick that is not
\* safe is still to be sent, and so is the digest while an event waits behind it.
Bridged ==
    /\ \A i \in 1..bCursor : Safe(i)
    /\ p.pc \in {"read", "bridge", "advance"} => p.read \in bCursor..Len(bInbox)
    /\ p.pc \in {"bridge", "advance"} =>
         \A i \in (bCursor + 1)..p.read :
            Safe(i) \/ (p.pc = "bridge" /\ EventNote(i) \in p.send)
    /\ p.pc = "bridge" =>
         \A i \in 1..Len(fate) :
            fate[i] = "buffered" /\ bInbox[i].about \in p.digest => DigestNote(p.digest) \in p.send

\* A fan-out under way is one of the bus that the poller serves.
Serves(b) == (p.pc = "queue" /\ b = "queue") \/ (p.pc = "bridge" /\ b = "operator")
Heard(st) ==
    \A c \in st.Clients : conn[c].on /\ conn[c].replayed =>
        \A i \in (conn[c].from + 1)..Len(bLog[st.Channel[c]]) :
            \/ \E j \in 1..Len(conn[c].got) : conn[c].got[j] = bLog[st.Channel[c]][i]
            \/ p.out = <<bLog[st.Channel[c]][i]>> /\ Serves(st.Channel[c])

BusInv(st) == BusType(st) /\ Bridged /\ Heard(st)

-----------------------------------------------------------------------------

\* What is settled stays settled, whatever an append sends.
LEMMA SettledFacts ==
    ASSUME NEW st \in BusSettings, BusType(st), NEW n \in BusNotes(st),
           fate' = Bus(st)!Settled(n)
    PROVE  /\ fate' \in Seq(Fates) /\ Len(fate') = Len(fate)
           /\ \A i \in 1..Len(fate) : fate'[i] \in {"sent", fate[i]}
           /\ \A i \in 1..Len(fate) : i = n.event => fate'[i] = "sent"
           /\ \A i \in 1..Len(fate) :
                fate[i] = "buffered" /\ bInbox[i].about \in n.tickets => fate'[i] = "sent"
<1>1. Len(fate) \in Nat /\ \A i \in 1..Len(fate) : fate[i] \in Fates
  BY DEF BusType
<1>2. fate' \in [1..Len(fate) -> Fates]
  BY <1>1, Zenon DEF Bus!Settled, Fates
<1> QED
  BY <1>1, <1>2 DEF Bus!Settled

LEMMA InboxFacts ==
    ASSUME NEW st, BusType(st)
    PROVE  /\ Len(fate) \in Nat /\ Len(bInbox) = Len(fate) /\ bCursor \in 0..Len(fate)
           /\ \A i \in 1..Len(fate) : fate[i] \in Fates /\ bInbox[i].about \in st.Tickets
<1>1. /\ Len(fate) \in Nat /\ Len(bInbox) = Len(fate) /\ bCursor \in 0..Len(fate)
      /\ \A i \in 1..Len(fate) : fate[i] \in Fates /\ bInbox[i] \in OrchestratorEvents(st)
  BY DEF BusType
<1> QED
  BY <1>1, Zenon DEF OrchestratorEvents

\* One broadcast's append: on either bus, what it sends is settled and awaits the
\* fan-out of that bus.
LEMMA PersistKeeps ==
    ASSUME NEW st \in BusSettings, Bus(st)!EventBusAssumption, BusInv(st),
           NEW b, NEW pc, <<b, pc>> \in {<<"queue", "queue">>, <<"operator", "bridge">>},
           Bus(st)!Persist(b, pc)
    PROVE  BusInv(st)'
<1>0. /\ BusType(st) /\ Bridged /\ Heard(st)
      /\ (b = "queue" /\ pc = "queue") \/ (b = "operator" /\ pc = "bridge")
  BY Zenon DEF BusInv
<1> USE <1>0
<1>1. PICK n \in p.send :
        /\ Bus(st)!AppendEvent(b, n)
        /\ p' = [p EXCEPT !.send = @ \ {n}, !.out = <<n>>]
  BY Zenon DEF Bus!Persist
<1>2. /\ UNCHANGED <<bInbox, bCursor, bRow, snap, conn, acked>> /\ p.pc = pc /\ p.out = <<>>
      /\ bLog' = [bLog EXCEPT ![b] = Append(@, n)] /\ fate' = Bus(st)!Settled(n)
  BY <1>1, Zenon DEF Bus!Persist, Bus!AppendEvent
<1>3. n \in BusNotes(st) /\ p \in Pollers(st)
  BY Zenon DEF BusType, Pollers
<1>4. /\ fate' \in Seq(Fates) /\ Len(fate') = Len(fate)
      /\ \A i \in 1..Len(fate) : fate'[i] \in {"sent", fate[i]}
      /\ \A i \in 1..Len(fate) : i = n.event => fate'[i] = "sent"
      /\ \A i \in 1..Len(fate) :
           fate[i] = "buffered" /\ bInbox[i].about \in n.tickets => fate'[i] = "sent"
  BY <1>2, <1>3, SettledFacts, Zenon
<1>5. /\ p' \in Pollers(st) /\ p'.pc = p.pc /\ p'.read = p.read /\ p'.digest = p.digest
      /\ p'.send = p.send \ {n} /\ p'.out = <<n>>
  BY <1>1, <1>3, Zenon DEF Pollers
<1>6. /\ bLog' \in [Bus(st)!Buses -> Seq(BusNotes(st))]
      /\ \A d \in Bus(st)!Buses \ {b} : bLog'[d] = bLog[d]
      /\ Len(bLog[b]) \in Nat /\ Len(bLog'[b]) = Len(bLog[b]) + 1
      /\ bLog'[b][Len(bLog[b]) + 1] = n
      /\ \A i \in 1..Len(bLog[b]) : bLog'[b][i] = bLog[b][i]
  BY <1>2, <1>3 DEF BusType, Bus!Buses
<1>7. BusType(st)'
  BY <1>2, <1>4, <1>5, <1>6, Zenon DEF BusType, Bus!Buses
<1>8. Bridged'
  <2>1. \A i \in 1..Len(fate) : Safe(i) => Safe(i)'
    BY <1>2, <1>4, Zenon DEF Safe
  <2>2. bCursor \in Nat /\ bCursor <= Len(fate) /\ Len(fate) \in Nat /\ Len(bInbox) = Len(fate)
    BY DEF BusType
  <2>3. \A i \in 1..bCursor : Safe(i)'
    BY <2>1, <2>2 DEF Bridged
  <2>4. p.pc \in {"read", "bridge", "advance"} => p.read \in bCursor..Len(bInbox)
    BY Zenon DEF Bridged
  <2>5. ASSUME p.pc = "bridge", NEW i \in (bCursor + 1)..p.read
        PROVE  Safe(i)' \/ EventNote(i) \in p'.send
    <3>1. i \in 1..Len(fate) /\ (Safe(i) \/ EventNote(i) \in p.send)
      BY <2>2, <2>4, <2>5 DEF Bridged
    <3>2. EventNote(i).event = i
      BY Zenon DEF EventNote
    <3>3. CASE EventNote(i) = n
      BY <1>4, <3>1, <3>2, <3>3, Zenon DEF Safe
    <3> QED
      BY <1>5, <2>1, <3>1, <3>3, Zenon
  <2>6. ASSUME p.pc = "bridge", NEW i \in 1..Len(fate), fate'[i] = "buffered",
               bInbox[i].about \in p.digest
        PROVE  DigestNote(p.digest) \in p'.send
    <3>1. DigestNote(p.digest) \in p.send /\ bInbox[i].about \notin n.tickets
      BY <1>4, <2>6, Zenon DEF Bridged
    <3>2. DigestNote(p.digest).tickets = p.digest
      BY Zenon DEF DigestNote
    <3> QED
      BY <1>5, <2>6, <3>1, <3>2, Zenon
  <2> QED
    BY <1>2, <1>4, <1>5, <2>3, <2>4, <2>5, <2>6, Zenon DEF Bridged
<1>9. Heard(st)'
  <2> SUFFICES ASSUME NEW c \in st.Clients, conn[c].on, conn[c].replayed,
                      NEW i \in (conn[c].from + 1)..Len(bLog'[st.Channel[c]])
               PROVE  \/ \E j \in 1..Len(conn[c].got) : conn[c].got[j] = bLog'[st.Channel[c]][i]
                      \/ p'.out = <<bLog'[st.Channel[c]][i]>> /\ Serves(st.Channel[c])'
    BY <1>2, ZenonT(40) DEF Heard
  <2>1. conn[c].from \in Nat /\ st.Channel[c] \in Bus(st)!Buses
    BY Zenon DEF BusType, Conns, Bus!EventBusAssumption
  <2>2. CASE st.Channel[c] = b /\ i = Len(bLog[b]) + 1
    BY <1>2, <1>5, <1>6, <2>2, Zenon DEF Serves
  <2>3. CASE ~(st.Channel[c] = b /\ i = Len(bLog[b]) + 1)
    <3>1. i \in (conn[c].from + 1)..Len(bLog[st.Channel[c]])
          /\ bLog'[st.Channel[c]][i] = bLog[st.Channel[c]][i]
      BY <1>6, <2>1, <2>3, SMTT(40)
    <3>2. <<bLog[st.Channel[c]][i]>> # p.out
      BY <1>2
    <3> QED
      BY <3>1, <3>2, Zenon DEF Heard
  <2> QED
    BY <2>2, <2>3, Zenon
<1> QED
  BY <1>7, <1>8, <1>9, Zenon DEF BusInv

\* A step that leaves the bridge's state alone, or the connections' while no
\* fan-out is under way.
LEMMA BridgeStays ==
    ASSUME Bridged, UNCHANGED <<bInbox, fate, bCursor, bRow, p>>
    PROVE  Bridged'
BY Zenon DEF Bridged, Safe

LEMMA HeardStays ==
    ASSUME NEW st, Heard(st), UNCHANGED <<bLog, conn>>,
           p.out = <<>> \/ p.pc \notin {"queue", "bridge"} \/ UNCHANGED p
    PROVE  Heard(st)'
<1> SUFFICES ASSUME NEW c \in st.Clients, conn[c].on, conn[c].replayed,
                    NEW i \in (conn[c].from + 1)..Len(bLog[st.Channel[c]])
             PROVE  \/ \E j \in 1..Len(conn[c].got) : conn[c].got[j] = bLog[st.Channel[c]][i]
                    \/ p'.out = <<bLog[st.Channel[c]][i]>> /\ Serves(st.Channel[c])'
  BY Zenon DEF Heard
<1>1. \/ \E j \in 1..Len(conn[c].got) : conn[c].got[j] = bLog[st.Channel[c]][i]
      \/ p.out = <<bLog[st.Channel[c]][i]>> /\ Serves(st.Channel[c])
  BY Zenon DEF Heard
<1>2. p.out = <<bLog[st.Channel[c]][i]>> => p.out # <<>>
  OBVIOUS
<1> QED
  BY <1>1, <1>2, Zenon DEF Serves

\* The other half of a broadcast reaches every subscriber of the bus.
LEMMA FanOutKeeps ==
    ASSUME NEW st \in BusSettings, Bus(st)!EventBusAssumption, BusInv(st),
           NEW b, NEW pc, <<b, pc>> \in {<<"queue", "queue">>, <<"operator", "bridge">>},
           Bus(st)!FanOut(b, pc)
    PROVE  BusInv(st)'
<1>0. /\ BusType(st) /\ Bridged /\ Heard(st)
      /\ (b = "queue" /\ pc = "queue") \/ (b = "operator" /\ pc = "bridge")
  BY Zenon DEF BusInv
<1> USE <1>0
<1>1. /\ UNCHANGED <<bInbox, fate, bCursor, bRow, snap, bLog, acked>> /\ p.pc = pc /\ p.out # <<>>
      /\ Bus(st)!PutTo(b, Head(p.out)) /\ p' = [p EXCEPT !.out = <<>>]
  BY Zenon DEF Bus!FanOut
<1>2. PICK n \in BusNotes(st) : p.out = <<n>>
  BY <1>1, Zenon DEF BusType, Pollers
<1>3. Head(p.out) = n
  BY <1>2
<1>4. /\ p' \in Pollers(st) /\ p'.pc = p.pc /\ p'.read = p.read /\ p'.digest = p.digest
      /\ p'.send = p.send /\ p'.out = <<>>
  <2>1. p \in Pollers(st)
    BY Zenon DEF BusType
  <2> QED
    BY <1>1, <2>1, Zenon DEF Pollers
<1>5. conn' = [c \in st.Clients |->
        IF conn[c].on /\ st.Channel[c] = b THEN [conn[c] EXCEPT !.got = Append(@, n)] ELSE conn[c]]
  BY <1>1, <1>3, Zenon DEF Bus!PutTo
<1>6. ASSUME NEW c \in st.Clients
      PROVE  /\ conn'[c] \in Conns(st) /\ conn'[c].on = conn[c].on
             /\ conn'[c].replayed = conn[c].replayed /\ conn'[c].from = conn[c].from
             /\ \A j \in 1..Len(conn[c].got) :
                  j \in 1..Len(conn'[c].got) /\ conn'[c].got[j] = conn[c].got[j]
             /\ conn[c].on /\ st.Channel[c] = b =>
                  \E j \in 1..Len(conn'[c].got) : conn'[c].got[j] = n
  <2>1. conn[c] \in Conns(st)
    BY Zenon DEF BusType
  <2>2. CASE conn[c].on /\ st.Channel[c] = b
    <3>1. conn'[c] = [conn[c] EXCEPT !.got = Append(@, n)]
      BY <1>5, <2>2, Zenon
    <3> DEFINE g == Append(conn[c].got, n)
    <3>a. g \in Seq(BusNotes(st)) /\ conn'[c] = [conn[c] EXCEPT !.got = g]
      BY <2>1, <3>1 DEF Conns
    <3> HIDE DEF g
    <3>b. /\ conn'[c] \in Conns(st) /\ conn'[c].on = conn[c].on /\ conn'[c].got = g
          /\ conn'[c].replayed = conn[c].replayed /\ conn'[c].from = conn[c].from
      BY <2>1, <3>a, Zenon DEF Conns
    <3>2. /\ conn'[c] \in Conns(st) /\ conn'[c].on = conn[c].on /\ conn'[c].got = Append(conn[c].got, n)
          /\ conn'[c].replayed = conn[c].replayed /\ conn'[c].from = conn[c].from
      BY <3>b, Zenon DEF g
    <3>3. /\ conn[c].got \in Seq(BusNotes(st)) /\ Len(conn[c].got) \in Nat
          /\ Len(conn'[c].got) = Len(conn[c].got) + 1 /\ conn'[c].got[Len(conn[c].got) + 1] = n
          /\ \A j \in 1..Len(conn[c].got) : conn'[c].got[j] = conn[c].got[j]
      BY <2>1, <3>2 DEF Conns
    <3> QED
      BY <3>2, <3>3
  <2>3. CASE ~(conn[c].on /\ st.Channel[c] = b)
    <3>1. conn'[c] = conn[c]
      BY <1>5, <2>3, Zenon
    <3> QED
      BY <2>1, <2>3, <3>1, Zenon
  <2> QED
    BY <2>2, <2>3, Zenon
<1>7. BusType(st)'
  <2>1. conn' \in [st.Clients -> Conns(st)]
    BY <1>5, <1>6, Zenon
  <2> QED
    BY <1>1, <1>4, <2>1, Zenon DEF BusType, Bus!Buses
<1>8. Bridged'
  BY <1>1, <1>4, Zenon DEF Bridged, Safe
<1>9. Heard(st)'
  <2> SUFFICES ASSUME NEW c \in st.Clients, conn'[c].on, conn'[c].replayed,
                      NEW i \in (conn'[c].from + 1)..Len(bLog'[st.Channel[c]])
               PROVE  \E j \in 1..Len(conn'[c].got) : conn'[c].got[j] = bLog'[st.Channel[c]][i]
    BY Zenon DEF Heard
  <2>0. /\ bLog' = bLog /\ conn[c].on /\ conn[c].replayed
        /\ i \in (conn[c].from + 1)..Len(bLog[st.Channel[c]])
    BY <1>1, <1>6, Zenon
  <2>1. \/ \E j \in 1..Len(conn[c].got) : conn[c].got[j] = bLog[st.Channel[c]][i]
        \/ p.out = <<bLog[st.Channel[c]][i]>> /\ Serves(st.Channel[c])
    BY <2>0, Zenon DEF Heard
  <2>2. CASE \E j \in 1..Len(conn[c].got) : conn[c].got[j] = bLog[st.Channel[c]][i]
    BY <1>6, <2>0, <2>2, Zenon
  <2>3. CASE p.out = <<bLog[st.Channel[c]][i]>> /\ Serves(st.Channel[c])
    <3>1. bLog[st.Channel[c]][i] = n /\ st.Channel[c] = b
      BY <1>1, <1>2, <2>3 DEF Serves
    <3> QED
      BY <1>6, <2>0, <3>1, Zenon
  <2> QED
    BY <2>1, <2>2, <2>3, Zenon
<1> QED
  BY <1>7, <1>8, <1>9, Zenon DEF BusInv

\* A tick's own steps on the poller, between broadcasts.
LEMMA PollQueueKeeps ==
    ASSUME NEW st \in BusSettings, BusInv(st), Bus(st)!PollQueue
    PROVE  BusInv(st)'
<1>0. BusType(st) /\ Bridged /\ Heard(st)
  BY Zenon DEF BusInv
<1> USE <1>0
<1>1. /\ UNCHANGED <<bInbox, fate, bCursor, bRow, bLog, conn, acked>> /\ p.pc = "idle"
      /\ snap' = [t \in st.Tickets |-> bRow[t].status]
      /\ p' = [p EXCEPT !.pc = "queue", !.send = Bus(st)!Deltas]
  BY Zenon DEF Bus!PollQueue
<1>2. Bus(st)!Deltas \in SUBSET BusNotes(st)
  <2> SUFFICES ASSUME NEW t \in st.Tickets
               PROVE  [event |-> 0, tickets |-> {},
                       delta |-> <<t, Bus(st)!Delta(snap[t], bRow[t].status)>>] \in BusNotes(st)
    BY Zenon DEF Bus!Deltas
  <2>1. Bus(st)!Delta(snap[t], bRow[t].status) \in DeltaKinds
    BY Zenon DEF Bus!Delta, DeltaKinds
  <2> QED
    BY <2>1, Zenon DEF BusNotes
<1>3. snap' \in [st.Tickets -> Statuses \union {"none"}]
  BY <1>1, Zenon DEF BusType, Rows
<1>4. p' \in Pollers(st) /\ p'.pc = "queue"
  <2> DEFINE d == Bus(st)!Deltas
  <2>1. p \in Pollers(st) /\ d \in SUBSET BusNotes(st) /\ p' = [p EXCEPT !.pc = "queue", !.send = d]
    BY <1>1, <1>2, Zenon DEF BusType
  <2> HIDE DEF d
  <2> QED
    BY <2>1, Zenon DEF Pollers
<1>5. BusType(st)'
  BY <1>1, <1>3, <1>4, Zenon DEF BusType, Bus!Buses
<1>6. Bridged'
  BY <1>1, <1>4, Zenon DEF Bridged, Safe
<1> QED
  BY <1>1, <1>5, <1>6, HeardStays, Zenon DEF BusInv

LEMMA ReadBridgeKeeps ==
    ASSUME NEW st \in BusSettings, BusInv(st), Bus(st)!ReadBridge
    PROVE  BusInv(st)'
<1>0. BusType(st) /\ Bridged /\ Heard(st)
  BY Zenon DEF BusInv
<1> USE <1>0
<1>1. /\ UNCHANGED <<bInbox, fate, bCursor, bRow, snap, bLog, conn, acked>> /\ p.out = <<>>
      /\ p' = [p EXCEPT !.pc = "read", !.read = Len(bInbox)]
  BY Zenon DEF Bus!ReadBridge
<1>2. p' \in Pollers(st) /\ p'.pc = "read" /\ p'.read = Len(bInbox)
  <2>1. p \in Pollers(st) /\ Len(bInbox) \in Nat
    BY DEF BusType
  <2> QED
    BY <1>1, <2>1, Zenon DEF Pollers
<1>3. BusType(st)'
  BY <1>1, <1>2, Zenon DEF BusType, Bus!Buses
<1>4. Bridged'
  BY <1>1, <1>2 DEF Bridged, Safe, BusType
<1> QED
  BY <1>1, <1>3, <1>4, HeardStays, Zenon DEF BusInv

\* The classification leaves each event of the tick filtered, to be sent or
\* buffered behind a marker.
LEMMA ClassifyKeeps ==
    ASSUME NEW st \in BusSettings, BusInv(st), Bus(st)!Classify
    PROVE  BusInv(st)'
<1>0. BusType(st) /\ Bridged /\ Heard(st)
  BY Zenon DEF BusInv
<1> USE <1>0
<1>1. PICK d \in {{}, Bus(st)!Flushable} :
        p' = [p EXCEPT !.pc = "bridge", !.digest = d,
                       !.send = Bus(st)!Individually \union Bus(st)!Digest(d)]
  BY Zenon DEF Bus!Classify
<1>2. /\ UNCHANGED <<bInbox, bCursor, snap, bLog, conn, acked>> /\ p.pc = "read"
      /\ bRow' = [t \in st.Tickets |-> Bus(st)!MarkedRow(t)]
      /\ fate' = [i \in 1..Len(fate) |->
                    IF i \in Bus(st)!Buffered /\ fate[i] = "new" THEN "buffered" ELSE fate[i]]
  BY Zenon DEF Bus!Classify
<1>3. /\ bCursor \in Nat /\ p.read \in Nat /\ bCursor <= p.read /\ p.read <= Len(bInbox)
      /\ Len(bInbox) \in Nat /\ Len(fate) = Len(bInbox)
      /\ \A i \in 1..Len(fate) : fate[i] \in Fates /\ bInbox[i] \in OrchestratorEvents(st)
  BY <1>2 DEF BusType, Pollers, Bridged
<1>4. d \in SUBSET st.Tickets
  BY <1>1, Zenon DEF Bus!Flushable
<1>5. Bus(st)!Individually = {EventNote(i) : i \in Bus(st)!New \ Bus(st)!Buffered}
  BY Zenon DEF Bus!Individually, EventNote
<1>6. Bus(st)!Digest(d) = IF d = {} THEN {} ELSE {DigestNote(d)}
  BY Zenon DEF Bus!Digest, DigestNote
<1>7. Bus(st)!Individually \union Bus(st)!Digest(d) \in SUBSET BusNotes(st)
  <2>1. \A i \in Bus(st)!New : EventNote(i) \in BusNotes(st)
    BY <1>3 DEF Bus!New, EventNote, BusNotes
  <2>2. DigestNote(d) \in BusNotes(st)
    BY <1>4, Zenon DEF DigestNote, BusNotes
  <2> QED
    BY <1>5, <1>6, <2>1, <2>2, Zenon
<1>8. /\ p' \in Pollers(st) /\ p'.pc = "bridge" /\ p'.read = p.read /\ p'.digest = d
      /\ p'.send = Bus(st)!Individually \union Bus(st)!Digest(d)
  <2> DEFINE s == Bus(st)!Individually \union Bus(st)!Digest(d)
  <2>1. /\ p \in Pollers(st) /\ s \in SUBSET BusNotes(st)
        /\ p' = [p EXCEPT !.pc = "bridge", !.digest = d, !.send = s]
    BY <1>1, <1>7, Zenon DEF BusType
  <2> HIDE DEF s
  <2>2. p' \in Pollers(st) /\ p'.pc = "bridge" /\ p'.read = p.read /\ p'.digest = d /\ p'.send = s
    BY <1>4, <2>1, Zenon DEF Pollers
  <2> QED
    BY <2>2, Zenon DEF s
<1>9. ASSUME NEW t \in st.Tickets
      PROVE  /\ bRow'[t] \in Rows
             /\ bRow'[t].marked <=> (bRow[t].marked \/ \E i \in Bus(st)!Buffered : bInbox[i].about = t)
  <2> DEFINE m == bRow[t].marked \/ \E i \in Bus(st)!Buffered : bInbox[i].about = t
  <2>1. bRow[t] \in Rows /\ m \in BOOLEAN /\ bRow'[t] = [bRow[t] EXCEPT !.marked = m]
    BY <1>2, Zenon DEF BusType, Bus!MarkedRow
  <2> HIDE DEF m
  <2>2. bRow'[t] \in Rows /\ bRow'[t].marked = m
    BY <2>1, Zenon DEF Rows
  <2> QED
    BY <2>2, Zenon DEF m
<1>10. ASSUME NEW i \in 1..Len(fate)
       PROVE  /\ fate'[i] = IF i \in Bus(st)!Buffered /\ fate[i] = "new" THEN "buffered" ELSE fate[i]
              /\ bInbox[i].about \in st.Tickets /\ fate[i] \in Fates
  BY <1>2, <1>3, Zenon DEF OrchestratorEvents
<1>11. BusType(st)'
  <2>1. fate' \in Seq(Fates) /\ Len(fate') = Len(fate)
    <3>1. fate' \in [1..Len(fate) -> Fates]
      BY <1>2, <1>10, Zenon DEF Fates
    <3> QED
      BY <1>2, <1>3, <3>1, SMTT(40)
  <2>2. bRow' \in [st.Tickets -> Rows]
    BY <1>2, <1>9, Zenon
  <2> QED
    BY <1>2, <1>8, <2>1, <2>2, Zenon DEF BusType, Bus!Buses
<1>12. Bridged'
  <2>1. ASSUME NEW i \in 1..Len(fate), Safe(i) PROVE Safe(i)'
    BY <1>2, <1>9, <1>10, <2>1, Zenon DEF Safe
  <2>2. \A i \in 1..bCursor' : Safe(i)'
    BY <1>2, <1>3, <2>1, SMTT(40) DEF Bridged
  <2>3. ASSUME NEW i \in (bCursor + 1)..p.read
        PROVE  Safe(i)' \/ EventNote(i) \in p'.send
    <3>1. i \in 1..Len(fate)
      BY <1>3
    <3>2. CASE bInbox[i].what = "filtered"
      BY <1>2, <3>2, Zenon DEF Safe
    <3>3. CASE i \in Bus(st)!Buffered
      <4>1. bRow'[bInbox[i].about].marked
        BY <1>9, <1>10, <3>1, <3>3, Zenon
      <4>2. fate'[i] \in {"buffered", "sent", "excused"}
        BY <1>10, <3>1, <3>3, Zenon DEF Fates
      <4> QED
        BY <1>2, <4>1, <4>2, Zenon DEF Safe
    <3>4. CASE bInbox[i].what # "filtered" /\ i \notin Bus(st)!Buffered
      BY <1>5, <1>8, <3>4, Zenon DEF Bus!New
    <3> QED
      BY <3>2, <3>3, <3>4, Zenon
  <2>4. ASSUME NEW t \in p'.digest
        PROVE  DigestNote(p'.digest) \in p'.send
    BY <1>6, <1>8, <2>4, Zenon
  <2> QED
    BY <1>2, <1>3, <1>8, <2>2, <2>3, <2>4, Zenon DEF Bridged
<1> QED
  BY <1>2, <1>11, <1>12, HeardStays, Zenon DEF BusInv

\* The markers are dropped once the digest is out: nothing waits behind them.
LEMMA ClearDigestBufferKeeps ==
    ASSUME NEW st \in BusSettings, BusInv(st), Bus(st)!ClearDigestBuffer
    PROVE  BusInv(st)'
<1>0. BusType(st) /\ Bridged /\ Heard(st)
  BY Zenon DEF BusInv
<1> USE <1>0
<1>1. /\ UNCHANGED <<bInbox, fate, bCursor, snap, bLog, conn, acked>>
      /\ p.pc = "bridge" /\ p.send = {} /\ p.out = <<>>
      /\ bRow' = Bus(st)!Unmark(p.digest)
      /\ p' = [p EXCEPT !.pc = "advance", !.digest = {}]
  BY Zenon DEF Bus!ClearDigestBuffer
<1>2. p' \in Pollers(st) /\ p'.pc = "advance" /\ p'.read = p.read
  <2>1. p \in Pollers(st)
    BY Zenon DEF BusType
  <2> QED
    BY <1>1, <2>1, Zenon DEF Pollers
<1>3. ASSUME NEW t \in st.Tickets
      PROVE  bRow'[t] \in Rows /\ (t \notin p.digest => bRow'[t] = bRow[t])
  <2>1. bRow[t] \in Rows /\ bRow'[t] = IF t \in p.digest THEN [bRow[t] EXCEPT !.marked = FALSE] ELSE bRow[t]
    BY <1>1, Zenon DEF BusType, Bus!Unmark
  <2> QED
    BY <2>1, Zenon DEF Rows
<1>4. BusType(st)'
  <2>1. bRow' \in [st.Tickets -> Rows]
    BY <1>1, <1>3, Zenon DEF Bus!Unmark
  <2> QED
    BY <1>1, <1>2, <2>1, Zenon DEF BusType, Bus!Buses
<1>5. Bridged'
  <2>1. /\ bCursor \in Nat /\ p.read \in Nat /\ bCursor <= p.read /\ p.read <= Len(bInbox)
        /\ Len(bInbox) \in Nat /\ Len(fate) = Len(bInbox)
        /\ \A i \in 1..Len(fate) : bInbox[i].about \in st.Tickets
    <3>1. p.read \in Nat
      BY Zenon DEF BusType, Pollers
    <3>2. p.read \in bCursor..Len(bInbox)
      BY <1>1, Zenon DEF Bridged
    <3> QED
      BY <3>1, <3>2, InboxFacts
  <2>2. ASSUME NEW i \in 1..Len(fate), Safe(i) PROVE Safe(i)'
    <3>1. fate[i] = "buffered" => bInbox[i].about \notin p.digest
      BY <1>1, Zenon DEF Bridged
    <3> QED
      BY <1>1, <1>3, <2>1, <2>2, <3>1, Zenon DEF Safe
  <2>3. \A i \in 1..p.read : i \in 1..Len(fate) /\ Safe(i)
    BY <1>1, <2>1 DEF Bridged
  <2>4. \A i \in 1..p.read : Safe(i)'
    BY <2>2, <2>3, Zenon
  <2> QED
    BY <1>1, <1>2, <2>1, <2>4 DEF Bridged
<1> QED
  BY <1>1, <1>4, <1>5, HeardStays, Zenon DEF BusInv

LEMMA IdleFacts ==
    ASSUME NEW st
    PROVE  Bus(st)!Idle \in Pollers(st) /\ Bus(st)!Idle.pc = "idle" /\ Bus(st)!Idle.out = <<>>
BY Zenon DEF Bus!Idle, Pollers

LEMMA AdvanceCursorKeeps ==
    ASSUME NEW st \in BusSettings, BusInv(st), Bus(st)!AdvanceCursor
    PROVE  BusInv(st)'
<1>0. BusType(st) /\ Bridged /\ Heard(st)
  BY Zenon DEF BusInv
<1> USE <1>0
<1>1. /\ UNCHANGED <<bInbox, fate, bRow, snap, bLog, conn, acked>> /\ p.pc = "advance"
      /\ bCursor' = p.read /\ p' \in Pollers(st) /\ p'.pc = "idle"
  BY IdleFacts, Zenon DEF Bus!AdvanceCursor
<1>2. bCursor \in Nat /\ p.read \in Nat /\ bCursor <= p.read /\ p.read <= Len(bInbox)
  BY <1>1, SMTT(40) DEF BusType, Pollers, Bridged
<1>3. \A i \in 1..p.read : Safe(i)'
  BY <1>1, <1>2 DEF Bridged, Safe
<1>4. BusType(st)'
  BY <1>1, <1>2 DEF BusType, Bus!Buses
<1>5. Bridged'
  BY <1>1, <1>3, Zenon DEF Bridged
<1> QED
  BY <1>1, <1>4, <1>5, HeardStays, Zenon DEF BusInv

\* Other processes: a row changes, and gives up its marker with what waits behind
\* it; an event is recorded.
LEMMA RowChangesKeeps ==
    ASSUME NEW st \in BusSettings, Bus(st)!EventBusAssumption, BusInv(st),
           NEW t \in st.Tickets, Bus(st)!RowChanges(t)
    PROVE  BusInv(st)'
<1>0. BusType(st) /\ Bridged /\ Heard(st)
  BY Zenon DEF BusInv
<1> USE <1>0
<1>1. PICK s \in st.Status, h \in BOOLEAN :
        bRow' = [bRow EXCEPT ![t] = [status |-> s, held |-> h, marked |-> FALSE]]
  BY Zenon DEF Bus!RowChanges
<1>2. UNCHANGED <<bInbox, bCursor, snap, bLog, p, conn, acked>> /\ fate' = Bus(st)!Excused(t)
  BY Zenon DEF Bus!RowChanges
<1>3. /\ bRow' \in [st.Tickets -> Rows]
      /\ \A u \in st.Tickets : u # t => bRow'[u] = bRow[u]
  <2>1. s \in Statuses
    BY Zenon DEF Bus!EventBusAssumption, Statuses
  <2>2. [status |-> s, held |-> h, marked |-> FALSE] \in Rows
    BY <2>1, Zenon DEF Rows
  <2> QED
    BY <1>1, <2>2, Zenon DEF BusType
<1>4. /\ Len(fate) \in Nat /\ Len(bInbox) = Len(fate)
      /\ \A i \in 1..Len(fate) : fate[i] \in Fates /\ bInbox[i].about \in st.Tickets
  BY InboxFacts, Zenon
<1>5. fate' = [i \in 1..Len(fate) |->
                 IF fate[i] = "buffered" /\ bInbox[i].about = t THEN "excused" ELSE fate[i]]
  BY <1>2, Zenon DEF Bus!Excused
<1>6. fate' \in Seq(Fates) /\ Len(fate') = Len(fate)
  <2>1. fate' \in [1..Len(fate) -> Fates]
    BY <1>4, <1>5, Zenon DEF Fates
  <2> QED
    BY <1>4, <2>1
<1>7. BusType(st)'
  BY <1>2, <1>3, <1>6, Zenon DEF BusType, Bus!Buses
<1>8. Bridged'
  <2>1. \A i \in 1..Len(fate) : fate'[i] = "buffered" => fate[i] = "buffered"
    BY <1>5, Zenon
  <2>2. ASSUME NEW i \in 1..Len(fate), Safe(i) PROVE Safe(i)'
    BY <1>2, <1>3, <1>4, <1>5, <2>2, Zenon DEF Safe
  <2>3. \A i \in 1..bCursor : i \in 1..Len(fate)
    BY <1>4 DEF BusType
  <2>4. p.pc \in {"bridge", "advance"} => \A i \in (bCursor + 1)..p.read : i \in 1..Len(fate)
    BY <1>4 DEF BusType, Bridged
  <2> QED
    BY <1>2, <1>6, <2>1, <2>2, <2>3, <2>4, Zenon DEF Bridged
<1> QED
  BY <1>2, <1>7, <1>8, HeardStays, Zenon DEF BusInv

LEMMA EventRecordedKeeps ==
    ASSUME NEW st \in BusSettings, BusInv(st), Bus(st)!EventRecorded
    PROVE  BusInv(st)'
<1>0. BusType(st) /\ Bridged /\ Heard(st)
  BY Zenon DEF BusInv
<1> USE <1>0
<1>1. PICK t \in st.Tickets, k \in {"attention", "other", "filtered"} :
        bInbox' = Append(bInbox, [about |-> t, what |-> k])
  BY Zenon DEF Bus!EventRecorded
<1>2. UNCHANGED <<bCursor, bRow, snap, bLog, p, conn, acked>> /\ fate' = Append(fate, "new")
  BY Zenon DEF Bus!EventRecorded
<1>3. /\ Len(fate) \in Nat /\ Len(bInbox) = Len(fate) /\ fate' \in Seq(Fates)
      /\ Len(fate') = Len(fate) + 1 /\ fate'[Len(fate) + 1] = "new"
      /\ \A i \in 1..Len(fate) : fate'[i] = fate[i]
  BY <1>2, SMTT(40) DEF BusType, Fates
<1>4. /\ bInbox' \in Seq(OrchestratorEvents(st)) /\ Len(bInbox') = Len(fate) + 1
      /\ \A i \in 1..Len(fate) : bInbox'[i] = bInbox[i]
  <2> DEFINE e == [about |-> t, what |-> k]
  <2>1. e \in OrchestratorEvents(st) /\ bInbox' = Append(bInbox, e)
    BY <1>1, Zenon DEF OrchestratorEvents
  <2> HIDE DEF e
  <2> QED
    BY <1>3, <2>1, SMTT(40) DEF BusType
<1>5. BusType(st)'
  BY <1>2, <1>3, <1>4, SMTT(40) DEF BusType, Bus!Buses
<1>6. Bridged'
  <2>1. ASSUME NEW i \in 1..Len(fate), Safe(i) PROVE Safe(i)'
    BY <1>2, <1>3, <1>4, <2>1, Zenon DEF Safe
  <2>2. \A i \in 1..bCursor : i \in 1..Len(fate)
    BY <1>3, SMTT(40) DEF BusType
  <2>3. p.pc \in {"bridge", "advance"} => \A i \in (bCursor + 1)..p.read : i \in 1..Len(fate)
    BY <1>3 DEF BusType, Bridged
  <2>4. \A i \in 1..Len(fate') : fate'[i] = "buffered" =>
          i \in 1..Len(fate) /\ fate[i] = "buffered" /\ bInbox'[i] = bInbox[i]
    BY <1>3, <1>4, SMTT(40)
  <2>5. p.read \in bCursor..Len(bInbox) => p.read \in bCursor..Len(bInbox')
    BY <1>3, <1>4 DEF BusType, Pollers
  <2> QED
    BY <1>2, <2>1, <2>2, <2>3, <2>4, <2>5, Zenon DEF Bridged
<1> QED
  BY <1>2, <1>5, <1>6, HeardStays, Zenon DEF BusInv

\* What is past an offset.
LEMMA BacklogFacts ==
    ASSUME NEW S, NEW l \in Seq(S), NEW f \in Nat
    PROVE  /\ SubSeq(l, f + 1, Len(l)) \in Seq(S)
           /\ \A i \in (f + 1)..Len(l) :
                /\ i - f \in 1..Len(SubSeq(l, f + 1, Len(l)))
                /\ SubSeq(l, f + 1, Len(l))[i - f] = l[i]
<1>1. Len(l) \in Nat /\ \A i \in 1..Len(l) : l[i] \in S
  OBVIOUS
<1>2. CASE f + 1 <= Len(l)
  <2> DEFINE b == SubSeq(l, f + 1, Len(l))
  <2>1. b \in Seq(S) /\ Len(b) = Len(l) - f
    BY <1>1, <1>2
  <2>2. \A j \in 1..(Len(l) - f) : b[j] = l[f + 1 + j - 1]
    BY <1>1, <1>2
  <2> HIDE DEF b
  <2>3. ASSUME NEW i \in (f + 1)..Len(l) PROVE i - f \in 1..Len(b) /\ b[i - f] = l[i]
    <3>1. i - f \in 1..Len(b) /\ f + 1 + (i - f) - 1 = i
      BY <1>1, <2>1
    <3> QED
      BY <2>1, <2>2, <3>1, Zenon
  <2> QED
    BY <2>1, <2>3, Zenon DEF b
<1>3. CASE ~(f + 1 <= Len(l))
  <2>1. SubSeq(l, f + 1, Len(l)) = <<>>
    BY <1>1, <1>3
  <2> QED
    BY <1>1, <1>3, <2>1
<1> QED
  BY <1>2, <1>3, Zenon

\* The clients' thread: a connection that has been replayed has all past its
\* offset, and one that has not promises nothing yet.
LEMMA RegisterKeeps ==
    ASSUME NEW st \in BusSettings, BusInv(st), NEW c \in st.Clients, Bus(st)!Register(c)
    PROVE  BusInv(st)'
<1>0. BusType(st) /\ Bridged /\ Heard(st)
  BY Zenon DEF BusInv
<1> USE <1>0
<1>1. /\ UNCHANGED <<bInbox, fate, bCursor, bRow, snap, bLog, p, acked>>
      /\ conn' = [conn EXCEPT ![c] = [Bus(st)!NoConn EXCEPT !.on = TRUE, !.from = acked[c]]]
  BY Zenon DEF Bus!Register
<1>2. /\ [Bus(st)!NoConn EXCEPT !.on = TRUE, !.from = acked[c]] \in Conns(st)
      /\ ~[Bus(st)!NoConn EXCEPT !.on = TRUE, !.from = acked[c]].replayed
  <2> DEFINE z == Bus(st)!NoConn
  <2>1. z \in Conns(st) /\ ~z.replayed /\ acked[c] \in Nat
    BY DEF Bus!NoConn, Conns, BusType
  <2> HIDE DEF z
  <2>2. [z EXCEPT !.on = TRUE, !.from = acked[c]] \in Conns(st)
    BY <2>1, Zenon DEF Conns
  <2>3. [z EXCEPT !.on = TRUE, !.from = acked[c]].replayed = z.replayed
    BY <2>1, Zenon DEF Conns
  <2> QED
    BY <2>1, <2>2, <2>3, Zenon DEF z
<1>3. /\ conn' \in [st.Clients -> Conns(st)] /\ ~conn'[c].replayed
      /\ \A x \in st.Clients \ {c} : conn'[x] = conn[x]
  BY <1>1, <1>2, Zenon DEF BusType
<1>4. BusType(st)'
  BY <1>1, <1>3, Zenon DEF BusType, Bus!Buses
<1>5. Heard(st)'
  BY <1>1, <1>3, SMTT(40) DEF Heard, Serves
<1> QED
  BY <1>1, <1>4, <1>5, BridgeStays, Zenon DEF BusInv

LEMMA UnsubscribeKeeps ==
    ASSUME NEW st \in BusSettings, BusInv(st), NEW c \in st.Clients, Bus(st)!Unsubscribe(c)
    PROVE  BusInv(st)'
<1>0. BusType(st) /\ Bridged /\ Heard(st)
  BY Zenon DEF BusInv
<1> USE <1>0
<1>1. /\ UNCHANGED <<bInbox, fate, bCursor, bRow, snap, bLog, p, acked>>
      /\ conn' = [conn EXCEPT ![c] = Bus(st)!NoConn]
  BY Zenon DEF Bus!Unsubscribe
<1>2. Bus(st)!NoConn \in Conns(st) /\ ~Bus(st)!NoConn.replayed
  BY DEF Bus!NoConn, Conns
<1>3. /\ conn' \in [st.Clients -> Conns(st)] /\ ~conn'[c].replayed
      /\ \A x \in st.Clients \ {c} : conn'[x] = conn[x]
  BY <1>1, <1>2, Zenon DEF BusType
<1>4. BusType(st)'
  BY <1>1, <1>3, Zenon DEF BusType, Bus!Buses
<1>5. Heard(st)'
  BY <1>1, <1>3 DEF Heard, Serves
<1> QED
  BY <1>1, <1>4, <1>5, BridgeStays, Zenon DEF BusInv

LEMMA ReplayKeeps ==
    ASSUME NEW st \in BusSettings, Bus(st)!EventBusAssumption, BusInv(st),
           NEW c \in st.Clients, Bus(st)!Replay(c)
    PROVE  BusInv(st)'
<1>0. BusType(st) /\ Bridged /\ Heard(st)
  BY Zenon DEF BusInv
<1> USE <1>0
<1> DEFINE l == bLog[st.Channel[c]]
           f == conn[c].from
           b == SubSeq(l, f + 1, Len(l))
<1>1. /\ UNCHANGED <<bInbox, fate, bCursor, bRow, snap, bLog, p, acked>>
      /\ conn' = [conn EXCEPT ![c].got = @ \o b, ![c].replayed = TRUE]
  BY Zenon DEF Bus!Replay, Bus!Backlog
<1>2. l \in Seq(BusNotes(st)) /\ f \in Nat /\ conn[c] \in Conns(st) /\ conn[c].got \in Seq(BusNotes(st))
  BY Zenon DEF BusType, Conns, Bus!EventBusAssumption
<1>3. /\ b \in Seq(BusNotes(st))
      /\ \A i \in (f + 1)..Len(l) : i - f \in 1..Len(b) /\ b[i - f] = l[i]
  <2> HIDE DEF l, f
  <2> QED
    BY <1>2, BacklogFacts, Zenon
<1> HIDE DEF b
<1> DEFINE g == conn[c].got \o b
<1>4. /\ g \in Seq(BusNotes(st)) /\ \A j \in 1..Len(b) : \E k \in 1..Len(g) : g[k] = b[j]
  <2>1. /\ g \in Seq(BusNotes(st)) /\ Len(g) = Len(conn[c].got) + Len(b)
        /\ Len(conn[c].got) \in Nat /\ Len(b) \in Nat
    BY <1>2, <1>3
  <2>2. ASSUME NEW j \in 1..Len(b) PROVE \E k \in 1..Len(g) : g[k] = b[j]
    <3>1. Len(conn[c].got) + j \in 1..Len(g) /\ g[Len(conn[c].got) + j] = b[j]
      BY <1>2, <1>3, <2>1
    <3> QED
      BY <3>1, Zenon
  <2> QED
    BY <2>1, <2>2, Zenon
<1>5. /\ conn' \in [st.Clients -> Conns(st)] /\ conn'[c].from = f /\ conn'[c].got = g
      /\ \A x \in st.Clients \ {c} : conn'[x] = conn[x]
  <2> HIDE DEF g, l, f
  <2>1. conn'[c] = [conn[c] EXCEPT !.got = g, !.replayed = TRUE]
    BY <1>1, Zenon DEF BusType, g
  <2>2. conn'[c] \in Conns(st) /\ conn'[c].from = conn[c].from /\ conn'[c].got = g
    BY <1>2, <1>4, <2>1, Zenon DEF Conns
  <2>3. \A x \in st.Clients \ {c} : conn'[x] = conn[x]
    BY <1>1, Zenon DEF BusType
  <2>4. conn' \in [st.Clients -> Conns(st)]
    BY <1>1, <2>2, <2>3, ZenonT(40) DEF BusType
  <2> QED
    BY <2>2, <2>3, <2>4, Zenon DEF f
<1>6. BusType(st)'
  BY <1>1, <1>5, Zenon DEF BusType, Bus!Buses
<1>7. Heard(st)'
  <2> SUFFICES ASSUME NEW x \in st.Clients, conn'[x].on, conn'[x].replayed,
                      NEW i \in (conn'[x].from + 1)..Len(bLog'[st.Channel[x]])
               PROVE  \/ \E j \in 1..Len(conn'[x].got) : conn'[x].got[j] = bLog'[st.Channel[x]][i]
                      \/ p'.out = <<bLog'[st.Channel[x]][i]>> /\ Serves(st.Channel[x])'
    BY Zenon DEF Heard
  <2>1. CASE x = c
    <3>1. i \in (f + 1)..Len(l) /\ bLog'[st.Channel[x]][i] = l[i]
      BY <1>1, <1>5, <2>1, Zenon
    <3>2. \E k \in 1..Len(g) : g[k] = l[i]
      <4> HIDE DEF g, l, f
      <4>1. i - f \in 1..Len(b) /\ b[i - f] = l[i]
        BY <1>3, <3>1, Zenon
      <4> QED
        BY <1>4, <4>1, Zenon
    <3> HIDE DEF g, l
    <3> QED
      BY <1>5, <2>1, <3>1, <3>2, Zenon
  <2>2. CASE x # c
    <3>1. conn'[x] = conn[x] /\ bLog' = bLog /\ p' = p
      BY <1>1, <1>5, <2>2, Zenon
    <3>2. Serves(st.Channel[x]) => Serves(st.Channel[x])'
      BY <3>1, Zenon DEF Serves
    <3>3. \/ \E j \in 1..Len(conn[x].got) : conn[x].got[j] = bLog[st.Channel[x]][i]
          \/ p.out = <<bLog[st.Channel[x]][i]>> /\ Serves(st.Channel[x])
      BY <3>1, Zenon DEF Heard
    <3> QED
      BY <3>1, <3>2, <3>3, ZenonT(40)
  <2> QED
    BY <2>1, <2>2, Zenon
<1> QED
  BY <1>1, <1>6, <1>7, BridgeStays, Zenon DEF BusInv

LEMMA AckOffsetKeeps ==
    ASSUME NEW st \in BusSettings, Bus(st)!EventBusAssumption, BusInv(st),
           NEW c \in st.Clients, Bus(st)!AckOffset(c)
    PROVE  BusInv(st)'
<1>0. BusType(st) /\ Bridged /\ Heard(st)
  BY Zenon DEF BusInv
<1> USE <1>0
<1>1. PICK k \in (acked[c] + 1)..Len(bLog[st.Channel[c]]) : acked' = [acked EXCEPT ![c] = k]
  BY Zenon DEF Bus!AckOffset
<1>2. UNCHANGED <<bInbox, fate, bCursor, bRow, snap, bLog, p, conn>>
  BY Zenon DEF Bus!AckOffset
<1>3. acked' \in [st.Clients -> Nat]
  BY <1>1, SMTT(40) DEF BusType, Bus!EventBusAssumption
<1>4. BusType(st)'
  BY <1>2, <1>3, Zenon DEF BusType, Bus!Buses
<1> QED
  BY <1>2, <1>4, BridgeStays, HeardStays, Zenon DEF BusInv

LEMMA RestartKeeps ==
    ASSUME NEW st \in BusSettings, BusInv(st), Bus(st)!Restart
    PROVE  BusInv(st)'
<1>0. BusType(st) /\ Bridged /\ Heard(st)
  BY Zenon DEF BusInv
<1> USE <1>0
<1>1. /\ UNCHANGED <<bInbox, fate, bCursor, bRow, snap, bLog, acked>>
      /\ p' \in Pollers(st) /\ p'.pc = "idle" /\ conn' = [c \in st.Clients |-> Bus(st)!NoConn]
  BY IdleFacts, Zenon DEF Bus!Restart
<1>2. Bus(st)!NoConn \in Conns(st) /\ ~Bus(st)!NoConn.replayed
  BY SMTT(40) DEF Bus!NoConn, Conns
<1>3. BusType(st)'
  BY <1>1, <1>2, Zenon DEF BusType, Bus!Buses
<1>4. Bridged'
  BY <1>1, Zenon DEF Bridged, Safe
<1>5. Heard(st)'
  BY <1>1, <1>2, Zenon DEF Heard
<1> QED
  BY <1>3, <1>4, <1>5, Zenon DEF BusInv

-----------------------------------------------------------------------------

LEMMA BusStarts ==
    ASSUME NEW st \in BusSettings, Bus(st)!Init
    PROVE  BusInv(st)
<1>1. /\ bInbox = <<>> /\ fate = <<>> /\ bCursor = 0 /\ p \in Pollers(st) /\ p.pc = "idle"
      /\ bRow = [t \in st.Tickets |-> [status |-> "PENDING", held |-> FALSE, marked |-> FALSE]]
      /\ snap = [t \in st.Tickets |-> "none"] /\ bLog = [b \in Bus(st)!Buses |-> <<>>]
      /\ conn = [c \in st.Clients |-> Bus(st)!NoConn] /\ acked = [c \in st.Clients |-> 0]
  BY IdleFacts, Zenon DEF Bus!Init
<1>2. Bus(st)!NoConn \in Conns(st) /\ ~Bus(st)!NoConn.replayed
  BY SMTT(40) DEF Bus!NoConn, Conns
<1>3. BusType(st)
  BY <1>1, <1>2, SMTT(40) DEF BusType, Rows, Statuses
<1>4. Bridged
  BY <1>1, SMTT(40) DEF Bridged
<1>5. Heard(st)
  BY <1>1, <1>2, Zenon DEF Heard
<1> QED
  BY <1>3, <1>4, <1>5, Zenon DEF BusInv

\* Every step of the server, of its clients and of the processes around it.
LEMMA BusStep ==
    ASSUME NEW st \in BusSettings, Bus(st)!EventBusAssumption, BusInv(st), Bus(st)!Next
    PROVE  BusInv(st)'
<1>1. ASSUME NEW t \in st.Tickets, Bus(st)!RowChanges(t) PROVE BusInv(st)'
  BY <1>1, RowChangesKeeps, Zenon
<1>2. CASE Bus(st)!EventRecorded
  BY <1>2, EventRecordedKeeps, Zenon
<1>3. CASE Bus(st)!PollQueue \/ Bus(st)!ReadBridge \/ Bus(st)!Classify
  BY <1>3, PollQueueKeeps, ReadBridgeKeeps, ClassifyKeeps, Zenon
<1>4. CASE Bus(st)!BroadcastQueue
  BY <1>4, PersistKeeps, FanOutKeeps DEF Bus!BroadcastQueue
<1>5. CASE Bus(st)!BroadcastBridge
  BY <1>5, PersistKeeps, FanOutKeeps DEF Bus!BroadcastBridge
<1>6. CASE Bus(st)!ClearDigestBuffer \/ Bus(st)!AdvanceCursor
  BY <1>6, ClearDigestBufferKeeps, AdvanceCursorKeeps, Zenon
<1>7. ASSUME NEW c \in st.Clients,
             Bus(st)!Register(c) \/ Bus(st)!Replay(c) \/ Bus(st)!AckOffset(c) \/ Bus(st)!Unsubscribe(c)
      PROVE  BusInv(st)'
  BY <1>7, RegisterKeeps, ReplayKeeps, AckOffsetKeeps, UnsubscribeKeeps, Zenon
<1>8. CASE Bus(st)!Restart
  BY <1>8, RestartKeeps, Zenon
<1> QED
  BY <1>1, <1>2, <1>3, <1>4, <1>5, <1>6, <1>7, <1>8, Zenon DEF Bus!Next

\* The server's invariant, for the settings that run.
BusHolds == \A st \in BusSettings : part = st.part => BusInv(st)

LEMMA BusHoldsStep ==
    ASSUME BusHolds, [BusNext]_<<part, BusVars>>
    PROVE  BusHolds'
<1> SUFFICES ASSUME NEW st \in BusSettings, part' = st.part PROVE BusInv(st)'
  BY Zenon DEF BusHolds, BusInv, BusType, Heard, Serves, Pollers, Conns, BusNotes, OrchestratorEvents
<1>1. CASE BusNext
  <2>1. PICK other \in BusSettings : part = other.part /\ Bus(other)!Next /\ UNCHANGED part
    BY <1>1, Zenon DEF BusNext
  <2>2. other = st
    BY <2>1, BusAssumption, Zenon
  <2> QED
    BY <2>1, <2>2, BusStep, BusAssumption, Zenon DEF BusHolds
<1>2. CASE UNCHANGED <<part, BusVars>>
  <2>1. /\ BusInv(st)
        /\ UNCHANGED <<bInbox, fate, bCursor, bRow, snap, bLog, p, conn, acked>>
    BY <1>2, ZenonT(40) DEF BusVars, bVars, BusHolds
  <2>2. BusType(st)'
    BY <2>1, Zenon DEF BusInv, BusType, Bus!Buses
  <2> QED
    BY <2>1, <2>2, BridgeStays, HeardStays, Zenon DEF BusInv
<1> QED
  BY <1>1, <1>2, Zenon

THEOREM BusSafe == BusSpec => []BusHolds
<1>1. BusInit => BusHolds
  <2> SUFFICES ASSUME BusInit, NEW st \in BusSettings, part = st.part PROVE BusInv(st)
    BY Zenon DEF BusHolds
  <2>1. PICK other \in BusSettings : part = other.part /\ Bus(other)!Init
    BY Zenon DEF BusInit
  <2>2. other = st
    BY <2>1, BusAssumption, Zenon
  <2> QED
    BY <2>1, <2>2, BusStarts, Zenon
<1> QED
  BY <1>1, BusHoldsStep, PTL DEF BusSpec

\* No attention of a held ticket is lost: for any events and tickets, and a
\* server killed at any point of a tick, an event behind the bridge's cursor went
\* out, or still waits behind its row's marker, or its ticket changed
\* (poll_and_forward_operator_channel).
THEOREM AttentionKept == BusSpec => []HeldAttentionKept
<1>1. BusHolds => HeldAttentionKept
  BY Zenon DEF BusHolds, HeldAttentionKept, Bus!HeldAttentionKept, BusInv, Bridged, Safe
<1> QED
  BY <1>1, BusSafe, PTL

\* A connected client misses nothing past its offset, wherever its connection
\* falls between the append and the fan-out of a broadcast
\* (subscribe_with_cursor and broadcast).
THEOREM ClientsServed == BusSpec => []NotificationsDelivered
<1>1. BusHolds => NotificationsDelivered
  <2> SUFFICES ASSUME BusHolds, NEW st \in BusSettings, part = st.part
               PROVE  Bus(st)!NotificationsDelivered
    BY Zenon DEF NotificationsDelivered
  <2>1. Heard(st)
    BY Zenon DEF BusHolds, BusInv
  <2> QED
    BY <2>1, Zenon DEF Heard, Bus!NotificationsDelivered
<1> QED
  BY <1>1, BusSafe, PTL
=============================================================================
