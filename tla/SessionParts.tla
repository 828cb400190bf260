---------------------------- MODULE SessionParts ----------------------------
(***************************************************************************)
(* The parts of the daemon that touch sessions: the ranked locks and the   *)
(* mid-turn act.                                                           *)
(***************************************************************************)
EXTENDS Naturals, Sequences, FiniteSets, Parts

CONSTANTS
    Threads, SessionsLock, StateLocks, LeafLocks, BoundedLocks, PeerNesting,  \* of Locks
    OrderEnforced, BookkeepingFails,
    Sessions, Window, MaxNow, MaxActs, MaxFaults  \* of Acts

VARIABLES
    stack, pc, bounded, owner, record, alive,
    row, sess, live, tail, window, now, pass, acts, faults, events, stopped,
    charged

\* Three threads and locks of every rank; the one nesting of STATE locks is
\* that of cw lane rm, which takes the clients lock under the dev_queue lock.
Locks == INSTANCE LockGuard WITH
    Sessions <- SessionsLock
\* Two sessions that claim the row in turn, and one fault.
Acts == INSTANCE MidTurnAct

ASSUME LocksAssumption == Locks!LockAssumption
ASSUME ActsAssumption == Acts!ActAssumption

kVars == <<stack, pc, bounded, owner, record, alive>>
mVars == <<row, sess, live, tail, window, now, pass, acts, faults, events,
    stopped, charged>>

-----------------------------------------------------------------------------

\* The variables of a component that does not run.
NoLockGuard ==
    /\ stack = 0 /\ pc = 0 /\ bounded = 0 /\ owner = 0 /\ record = 0
    /\ alive = 0

NoMidTurnAct ==
    /\ row = 0 /\ sess = 0 /\ live = 0 /\ tail = 0 /\ window = 0 /\ now = 0
    /\ pass = 0 /\ acts = 0 /\ faults = 0 /\ events = 0 /\ stopped = 0
    /\ charged = 0

SessionOff == NoLockGuard /\ NoMidTurnAct

SessionInit ==
    \/ part = "locks" /\ Locks!Init /\ NoMidTurnAct
    \/ part = "acts" /\ Acts!Init /\ NoLockGuard

SessionNext ==
    \/ part = "locks" /\ Locks!Next /\ UNCHANGED <<part, mVars>>
    \/ part = "acts" /\ Acts!Next /\ UNCHANGED <<part, kVars>>

SessionVars == <<kVars, mVars>>

SessionSpec == SessionInit /\ [][SessionNext]_<<part, SessionVars>>

-----------------------------------------------------------------------------

\* No set of threads in which every member waits, unboundedly, for a lock
\* that another member holds: the lock hierarchy leaves no deadlock behind,
\* given one level of peer nesting among the STATE locks.
NoDeadlock == part = "locks" => Locks!NoDeadlock

\* The usage limit is honoured for the row and held against nobody: no spawn
\* into the window, no charge for the session that hit it.
LimitHonoured == part = "acts" => Acts!LimitHonoured

\* Every step of an act writes only the row that carries its intent, and hands
\* it on only once the limited worker is gone.
ActsOwned ==
    [][part = "acts" => Acts!ActStep]_mVars
=============================================================================
