----------------------------- MODULE LockGuard -----------------------------
(***************************************************************************)
(* The ranked file locks of cw (cw/_lock_guard.py, cw/_flock.py and        *)
(* cw.config._guarded_state_lock).  Every lock context manager enters      *)
(* lock_guard, which keeps the thread's stack of held locks, refuses a     *)
(* re-entry, checks the rank order, and pushes the lock BEFORE the flock   *)
(* call; the flock then blocks, or polls up to a deadline and raises.      *)
(* The sessions lock also carries a holder record: written after the lock  *)
(* is taken, emptied before it is released, and read by a contender whose  *)
(* bounded wait ran out.                                                   *)
(*                                                                         *)
(* A thread stands for one thread of one cw process with a pid of its own. *)
(* The kernel is external: flock excludes, and a dead process releases     *)
(* everything it held.                                                     *)
(***************************************************************************)
EXTENDS Naturals, Sequences

CONSTANTS
    Threads,        \* threads that take cw locks
    None,           \* no thread, no lock
    Sessions,       \* the sessions lock, rank SESSIONS
    StateLocks,     \* rank STATE: dev_queue, clients, dispatch_state, ...
    LeafLocks,      \* rank LEAF: the event inbox, session inboxes, history
    BoundedLocks,   \* locks whose context manager accepts bounded=True
    PeerNesting,    \* pairs <<outer, inner>> of STATE locks the callers nest
    OrderEnforced,  \* CW_LOCK_DEBUG=1, or every caller respects the ranks
    BookkeepingFails \* holder bookkeeping may fail (and is then ignored)

LockAssumption ==
    /\ None \notin Threads
    /\ None \notin {Sessions} \cup StateLocks \cup LeafLocks
    /\ Sessions \notin StateLocks \cup LeafLocks
    /\ StateLocks \cap LeafLocks = {}
    /\ BoundedLocks \subseteq {Sessions} \cup StateLocks
    /\ PeerNesting \subseteq StateLocks \X StateLocks
    \* ADR-0019: one level of peer nesting (dev_queue, then clients).
    /\ \A p, q \in PeerNesting : p[2] # q[1]
    /\ OrderEnforced \in BOOLEAN
    /\ BookkeepingFails \in BOOLEAN

VARIABLES
    stack,    \* [Threads -> Seq(Locks)]: the guard's held stack, outermost first
    pc,       \* where the thread is: "run", "wait", "record" or "clear"
    bounded,  \* is the current wait a bounded one?
    owner,    \* which thread's open file has the flock on a lock file
    record,   \* the holder record in .sessions.lock
    alive     \* threads whose process is alive (os.kill(pid, 0) succeeds)

vars == <<stack, pc, bounded, owner, record, alive>>

Locks == {Sessions} \cup StateLocks \cup LeafLocks

LockRank(l) == IF l = Sessions THEN 0 ELSE IF l \in StateLocks THEN 1 ELSE 2

Held(t) == {stack[t][i] : i \in 1..Len(stack[t])}

Top(t) == stack[t][Len(stack[t])]

Popped(t) == SubSeq(stack[t], 1, Len(stack[t]) - 1)

Init ==
    /\ stack = [t \in Threads |-> <<>>]
    /\ pc = [t \in Threads |-> "run"]
    /\ bounded = [t \in Threads |-> FALSE]
    /\ owner = [l \in Locks |-> None]
    /\ record = None
    /\ alive = Threads

-----------------------------------------------------------------------------

\* _check_reentry: the path is not already on this thread's stack.
ReentryOK(t, l) == l \notin Held(t)

OrderOKLeafFree(t, l) == \A h \in Held(t) : LockRank(h) <= LockRank(l)

\* _order_message: no leaf lock is held, and no held lock has a higher rank.
\* Two different locks of one rank may nest.
OrderOK(t, l) ==
    \A h \in Held(t) : h \notin LeafLocks /\ LockRank(h) <= LockRank(l)

\* The callers' own discipline for two STATE locks, which no check enforces.
PeersOK(t, l) ==
    \A h \in Held(t) :
        h \in StateLocks /\ l \in StateLocks => <<h, l>> \in PeerNesting

\* lock_guard up to the yield, and the open of the lock file: checks, push.
\* A refused check raises and changes nothing.  The sessions lock file is
\* opened in a mode that does not truncate it.
Enter(t, l, b) ==
    /\ t \in alive
    /\ pc[t] = "run"
    /\ b => l \in BoundedLocks
    /\ ReentryOK(t, l)
    /\ OrderEnforced => OrderOK(t, l)
    /\ PeersOK(t, l)
    /\ stack' = [stack EXCEPT ![t] = Append(@, l)]
    /\ pc' = [pc EXCEPT ![t] = "wait"]
    /\ bounded' = [bounded EXCEPT ![t] = b]
    /\ UNCHANGED <<owner, record, alive>>

\* The flock is granted: the blocking call returns, or a poll succeeds.
Acquire(t) ==
    /\ t \in alive
    /\ pc[t] = "wait"
    /\ owner[Top(t)] = None
    /\ owner' = [owner EXCEPT ![Top(t)] = t]
    /\ pc' = [pc EXCEPT ![t] = IF Top(t) = Sessions THEN "record" ELSE "run"]
    /\ UNCHANGED <<stack, bounded, record, alive>>

\* record_lock_holder under fail_open_holder_bookkeeping.
RecordHolder(t) ==
    /\ t \in alive
    /\ pc[t] = "record"
    /\ record' \in {t} \cup (IF BookkeepingFails THEN {record} ELSE {})
    /\ pc' = [pc EXCEPT ![t] = "run"]
    /\ UNCHANGED <<stack, bounded, owner, alive>>

\* try_flock_until gives up at its deadline while another open file still
\* holds the lock: the timeout error unwinds lock_guard, which pops the lock.
Timeout(t) ==
    /\ t \in alive
    /\ pc[t] = "wait"
    /\ bounded[t]
    /\ owner[Top(t)] # None
    /\ stack' = [stack EXCEPT ![t] = Popped(t)]
    /\ pc' = [pc EXCEPT ![t] = "run"]
    /\ UNCHANGED <<bounded, owner, record, alive>>

\* The holder a timed-out contender is told of: read_lock_holder drops a
\* record whose pid is dead.
ReportedHolder == IF record \in alive THEN record ELSE None

\* The body of the innermost sessions block ended: clear_lock_holder runs
\* first, and fails open.
ClearHolder(t) ==
    /\ t \in alive
    /\ pc[t] = "run"
    /\ stack[t] # <<>>
    /\ Top(t) = Sessions
    /\ record' \in {None} \cup (IF BookkeepingFails THEN {record} ELSE {})
    /\ pc' = [pc EXCEPT ![t] = "clear"]
    /\ UNCHANGED <<stack, bounded, owner, alive>>

\* LOCK_UN and close, then lock_guard pops the lock.  Blocks nest, so the
\* innermost lock is released first.
Release(t) ==
    /\ t \in alive
    /\ stack[t] # <<>>
    /\ pc[t] = IF Top(t) = Sessions THEN "clear" ELSE "run"
    /\ owner' = [owner EXCEPT ![Top(t)] = None]
    /\ stack' = [stack EXCEPT ![t] = Popped(t)]
    /\ pc' = [pc EXCEPT ![t] = "run"]
    /\ UNCHANGED <<bounded, record, alive>>

\* The process dies (SIGKILL, power): the kernel drops its flocks; a holder
\* record it wrote stays in the file.
Crash(t) ==
    /\ t \in alive
    /\ alive' = alive \ {t}
    /\ owner' = [l \in Locks |-> IF owner[l] = t THEN None ELSE owner[l]]
    /\ stack' = [stack EXCEPT ![t] = <<>>]
    /\ pc' = [pc EXCEPT ![t] = "run"]
    /\ UNCHANGED <<bounded, record>>

Next ==
    \E t \in Threads :
        \/ \E l \in Locks, b \in BOOLEAN : Enter(t, l, b)
        \/ Acquire(t)
        \/ RecordHolder(t)
        \/ Timeout(t)
        \/ ClearHolder(t)
        \/ Release(t)
        \/ Crash(t)

Spec == Init /\ [][Next]_vars

\* A bounded wait is a poll loop against the clock: the waiter itself keeps
\* moving, whatever the holder does.  Nothing is assumed of holders.
FairSpec == Spec /\ \A t \in Threads : WF_vars(Acquire(t) \/ Timeout(t))

-----------------------------------------------------------------------------

TypeOK ==
    /\ stack \in [Threads -> Seq(Locks)]
    /\ pc \in [Threads -> {"run", "wait", "record", "clear"}]
    /\ bounded \in [Threads -> BOOLEAN]
    /\ owner \in [Locks -> Threads \cup {None}]
    /\ record \in Threads \cup {None}
    /\ alive \in SUBSET Threads

WaitsFor(t, u) == pc[t] = "wait" /\ owner[Top(t)] = u

\* No set of threads in which every member waits, unboundedly, for a lock
\* that another member holds: the lock hierarchy leaves no deadlock behind,
\* given one level of peer nesting among the STATE locks.
NoDeadlock ==
    \A S \in SUBSET Threads :
        (\A t \in S : ~bounded[t] /\ \E u \in S : WaitsFor(t, u)) => S = {}

\* A lock's place in the acquisition order: the rank, with the inner peers of
\* PeerNesting between STATE and LEAF.
Level(l) ==
    IF l = Sessions THEN 0
    ELSE IF l \in LeafLocks THEN 3
    ELSE IF \E p \in PeerNesting : p[2] = l THEN 2 ELSE 1

\* Along a chain of waits the locks waited for climb the order, so no chain
\* can close: whoever blocks me waits, if at all, for a later lock.
WaitsClimb ==
    \A t, u \in Threads :
        WaitsFor(t, u) /\ pc[u] = "wait" => Level(Top(t)) < Level(Top(u))

\* The guard's stack and the kernel agree: a thread holds exactly the locks
\* on its stack, save the top one while it is still waiting for it.  So a
\* thread never waits for a lock it holds (#1228), and a timed-out wait leaves
\* no entry behind that would refuse a later acquisition.
GuardMatchesFlock ==
    \A t \in Threads, l \in Locks :
        owner[l] = t <=> l \in Held(t) /\ ~(pc[t] = "wait" /\ l = Top(t))

=============================================================================
