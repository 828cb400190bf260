---------------------------- MODULE DirtyChecks ----------------------------
(***************************************************************************)
(* The dirty checks of the reconcile tick.  Before it takes the sessions   *)
(* lock a tick probes the worktrees of the sessions it may have to reap;   *)
(* inside the lock it only looks the results up, and a session whose check *)
(* is missing or too old waits for a later tick.  A probe that cannot run  *)
(* is an outage of git or of the client configuration, and an outage is    *)
(* announced once, by a latch that the threads of the process share.       *)
(***************************************************************************)
EXTENDS Naturals, Sequences

CONSTANTS
    None,
    Threads,       \* threads of one process that run reconcile()
    Order,         \* the sessions, in the order of the state file
    Phantoms,      \* those that are live in the state and gone from the roster
    Cap,           \* DIRTY_CHECK_MAX_PER_TICK
    MaxAge,        \* DIRTY_CHECK_MAX_AGE_SECONDS
    MaxTime,
    MaxTicks,
    MaxFlips       \* changes of the world around the ticks

Sessions == {Order[i] : i \in DOMAIN Order}
Kinds == {"client", "git"}    \* WorktreeProbeKind

DirtyChecksAssumption ==
    /\ Phantoms \subseteq Sessions
    /\ {Cap, MaxAge, MaxTime, MaxTicks, MaxFlips} \subseteq Nat

VARIABLES
    now,
    since,       \* when the tree of a session became dirty, or None
    fault,       \* what keeps its probe from running, or None
    ended,       \* the sessions that may be reaped
    row,         \* the row of a session
    tick,        \* the tick of each thread
    announced,   \* _ANNOUNCED_OUTAGES: the token of each announced kind
    deferred,    \* _DEFERRED_LAST_TICK
    told,        \* the <<token, kind>> pairs whose event is recorded
    stale,       \* a row was requeued over work older than the bound
    n            \* ticks and changes so far; a tick's number is its token

vars == <<now, since, fault, ended, row, tick, announced, deferred, told, stale, n>>
world == <<since, fault, ended>>

-----------------------------------------------------------------------------

Idle == [pc |-> "idle"]
Init ==
    /\ now = 0
    /\ since = [s \in Sessions |-> None] /\ fault = since
    /\ ended = {} /\ row = [s \in Sessions |-> "RUNNING"]
    /\ tick = [t \in Threads |-> Idle]
    /\ announced = [k \in {} |-> 0] /\ deferred = {} /\ told = {} /\ stale = FALSE
    /\ n = [ticks |-> 0, flips |-> 0]

Running(s) == row[s] = "RUNNING" /\ s \in ended

\* The world: people edit trees, git and the configuration fail and recover.
Flip ==
    /\ n.flips < MaxFlips /\ n' = [n EXCEPT !.flips = @ + 1]
    /\ UNCHANGED <<now, row, tick, announced, deferred, told, stale>>
Edit(s) == /\ Flip /\ since' = [since EXCEPT ![s] = IF @ = None THEN now ELSE None]
           /\ UNCHANGED <<fault, ended>>
Break(s, k) == /\ Flip /\ fault[s] # k /\ fault' = [fault EXCEPT ![s] = k]
               /\ UNCHANGED <<since, ended>>
SessionEnds(s) ==
    /\ s \notin ended /\ ended' = ended \cup {s}
    /\ UNCHANGED <<now, since, fault, row, tick, announced, deferred, told, stale, n>>
ClockTick ==
    /\ now < MaxTime /\ now' = now + 1
    /\ UNCHANGED <<world, row, tick, announced, deferred, told, stale, n>>

-----------------------------------------------------------------------------
\* The captures of a tick, without the lock.

At(t, pc) == tick[t].pc = pc

\* The sessions a list is made of; those deferred last tick go last.
Pending(of) ==
    LET pick(s) == s \in of /\ Running(s)
        first(s) == pick(s) /\ s \notin deferred
        last(s) == pick(s) /\ s \in deferred
    IN  SelectSeq(Order, first) \o SelectSeq(Order, last)

TickStart(t) ==
    /\ At(t, "idle") /\ n.ticks < MaxTicks
    /\ n' = [n EXCEPT !.ticks = @ + 1]
    /\ tick' = [tick EXCEPT ![t] =
         [pc |-> "backstop", todo |-> Pending(Sessions \ Phantoms), store |-> [s \in {} |-> 0],
          outages |-> {}, captures |-> 0, deferred |-> {}, truncated |-> FALSE, token |-> n.ticks + 1, fresh |-> {}]]
    /\ UNCHANGED <<now, world, row, announced, deferred, told, stale>>

Capturing(t) == tick[t].pc \in {"backstop", "phantom"} /\ tick[t].todo # <<>>

\* The probe of a session: it raises, or reads the tree.
Captured(x, s) ==
    LET y == [x EXCEPT !.todo = Tail(@)] IN
    IF fault[s] # None
    THEN [y EXCEPT !.outages = @ \cup {fault[s]}, !.deferred = @ \cup {s}]
    ELSE [y EXCEPT !.store = [r \in DOMAIN @ \cup {s} |->
            IF r = s THEN [dirty |-> since[s] # None, at |-> now] ELSE @[r]]]

\* At the cap or with the budget spent the rest of the tick is not probed.
Capture(t) ==
    LET x == tick[t] IN
    /\ Capturing(t)
    /\ \/ /\ x.captures < Cap
          /\ tick' = [tick EXCEPT ![t] = [Captured(x, Head(x.todo)) EXCEPT !.captures = @ + 1]]
       \/ tick' = [tick EXCEPT ![t].todo = <<>>, ![t].truncated = TRUE]
    /\ UNCHANGED <<now, world, row, announced, deferred, told, stale, n>>

\* A roster that cannot be read, or looks like an outage, shows no phantom.
PrepassPhantomIds(roster) == IF roster THEN Phantoms ELSE {}
CapturePhantoms(t) == \E roster \in BOOLEAN :
    /\ At(t, "backstop") /\ tick[t].todo = <<>>
    /\ tick' = [tick EXCEPT ![t].pc = "phantom",
         ![t].todo = IF tick[t].truncated THEN <<>> ELSE Pending(PrepassPhantomIds(roster))]
    /\ UNCHANGED <<now, world, row, announced, deferred, told, stale, n>>

-----------------------------------------------------------------------------
\* The outages, under _OUTAGE_LOCK except for the events.

\* Which announcements a tick leaves in place: one that was truncated has not
\* seen enough to say that an outage is over.
Kept(x) ==
    LET over == IF x.truncated THEN {} ELSE Kinds \ x.outages
    IN  [k \in DOMAIN announced \ over |-> announced[k]]

SettleOutages(t) ==
    LET x == tick[t] IN
    /\ At(t, "phantom") /\ x.todo = <<>>
    /\ LET kept == Kept(x)
           fresh == x.outages \ DOMAIN kept
       IN  /\ announced' = [k \in DOMAIN kept \cup fresh |-> IF k \in fresh THEN x.token ELSE kept[k]]
           /\ tick' = [tick EXCEPT ![t].pc = "announce", ![t].fresh = fresh]
    /\ deferred' = (IF x.truncated THEN deferred ELSE {}) \cup x.deferred
    /\ UNCHANGED <<now, world, row, told, stale, n>>

\* The claims stay.
KeepClaims(kinds, token) == announced
ReleaseClaims(kinds, token) ==
    [k \in {k \in DOMAIN announced : k \notin kinds \/ announced[k] # token} |-> announced[k]]

NextFresh(t) == IF "client" \in tick[t].fresh THEN "client" ELSE "git"

\* The event is recorded; or the log cannot be written; or something else is
\* raised, and the tick ends.
Announce(t) ==
    LET x == tick[t]
        k == NextFresh(t)
        rest == [x EXCEPT !.fresh = @ \ {k}]
    IN
    /\ At(t, "announce") /\ x.fresh # {}
    /\ \/ /\ told' = told \cup {<<x.token, k>>}
          /\ tick' = [tick EXCEPT ![t] = rest]
          /\ UNCHANGED announced
       \/ /\ announced' = ReleaseClaims({k}, x.token)
          /\ tick' = [tick EXCEPT ![t] = rest]
          /\ UNCHANGED told
       \/ /\ announced' = ReleaseClaims(x.fresh, x.token)
          /\ tick' = [tick EXCEPT ![t] = Idle]
          /\ UNCHANGED told
    /\ UNCHANGED <<now, world, row, deferred, stale, n>>

-----------------------------------------------------------------------------
\* Inside the sessions lock.

UsableAtAnyAge(x, s) == s \in DOMAIN x.store
Usable(x, s) == s \in DOMAIN x.store /\ now - x.store[s].at < MaxAge

\* partition_dirty: what is not usable is deferred.
Ready(x) == {s \in Sessions : Running(s) /\ Usable(x, s)}
\* Every session that is to be reaped now and whose check is usable: its row
\* is parked over unsaved work, and requeued otherwise.
Consume(t) ==
    LET x == tick[t]
        ready == Ready(x)
        clean == {s \in ready : ~x.store[s].dirty}
    IN
    /\ At(t, "announce") /\ x.fresh = {}
    /\ row' = [s \in Sessions |-> IF s \in clean THEN "PENDING"
                                  ELSE IF s \in ready THEN "BLOCKED_ON_USER" ELSE row[s]]
    /\ stale' = (stale \/ \E s \in clean : since[s] # None /\ now - since[s] >= MaxAge)
    /\ tick' = [tick EXCEPT ![t] = Idle]
    /\ UNCHANGED <<now, world, announced, deferred, told, n>>

\* The process dies with its latch and its ticks.
Restart ==
    /\ n.flips < MaxFlips /\ n' = [n EXCEPT !.flips = @ + 1]
    /\ tick' = [t \in Threads |-> Idle]
    /\ announced' = [k \in {} |-> 0] /\ deferred' = {}
    /\ UNCHANGED <<now, world, row, told, stale>>

Next ==
    \/ \E s \in Sessions : Edit(s) \/ SessionEnds(s) \/ \E k \in Kinds \cup {None} : Break(s, k)
    \/ ClockTick \/ Restart
    \/ \E t \in Threads : TickStart(t) \/ Capture(t) \/ CapturePhantoms(t)
                          \/ SettleOutages(t) \/ Announce(t) \/ Consume(t)

Spec == Init /\ [][Next]_vars

-----------------------------------------------------------------------------

\* An outage that the process keeps quiet about is one that the operator was
\* told of: its latch stands only if the tick that set it recorded the event,
\* or is still about to, whichever of its events failed and whatever the other
\* threads settled meanwhile.
QuietMeansPaged ==
    \A k \in DOMAIN announced :
        \/ <<announced[k], k>> \in told
        \/ \E t \in Threads : At(t, "announce") /\ tick[t].token = announced[k] /\ k \in tick[t].fresh

\* A row goes back to the queue only if its tree was seen clean less than the
\* bound ago: unsaved work that is older is never reset by the next claim.
RequeuedFresh == ~stale
=============================================================================
