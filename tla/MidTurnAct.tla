----------------------------- MODULE MidTurnAct -----------------------------
(***************************************************************************)
(* The mid-turn usage-limit act of cw/reconcile/usage_limit_mid_turn.py on *)
(* one row of the dev queue: detect a worker stopped by the account limit, *)
(* write the intent to the row, then arm the lockout, audit, stop the      *)
(* surface, close the session and move the row, each step resumable from   *)
(* the intent after a crash or a failed write.                             *)
(*                                                                         *)
(* One reconcile pass runs at a time (it holds sessions_lock).  The queue  *)
(* lock is held only inside a step, so the operator, the claim and the     *)
(* worker itself move between any two steps.                               *)
(***************************************************************************)
EXTENDS Naturals, FiniteSets

CONSTANTS
    Sessions,   \* sessions the row may be claimed under, in turn
    None,       \* no session, no act
    Window,     \* length of the resolved back-off window
    MaxNow,     \* bound on the clock
    MaxActs,    \* bound on decided acts
    MaxFaults   \* bound on crashes, failed writes and failed stops

\* UsageLimitAct: the intent an act writes to the row.
Intents == [session : Sessions, branch : {"auto", "park"}, started : Nat, until : Nat,
            audited : BOOLEAN]

ActAssumption ==
    /\ None \notin Sessions \cup Intents
    /\ Window \in Nat /\ MaxNow \in Nat /\ MaxActs \in Nat /\ MaxFaults \in Nat

VARIABLES
    row,      \* the TicketTask: status, session, act (intent), eligible
    sess,     \* [Sessions -> session status]
    live,     \* [Sessions -> BOOLEAN]: the surface is in the daemon roster
    tail,     \* [Sessions -> {"work", "limit", "sentinel"}]: the transcript's tail
    window,   \* the client's persisted usage_limited_until
    now,
    pass,     \* the running pass: pc, its intent snapshot, roster and clock
    acts,     \* acts decided so far; started_at is the act's number
    faults,
    events,   \* history: the acts whose audit events are all recorded
    stopped,  \* history: the sessions an act stopped
    charged   \* history: the sessions charged an unproductive attempt

vars == <<row, sess, live, tail, window, now, pass, acts, faults, events, stopped, charged>>

env == <<window, now, acts, faults, events, stopped>>

Idle == [pc |-> "idle", act |-> None, native |-> {}, at |-> 0]

Terminal == {"completed", "crashed", "usage_limited"}

Init ==
    /\ row = [status |-> "PENDING", session |-> None, act |-> None, eligible |-> 0]
    /\ sess = [s \in Sessions |-> "new"]
    /\ live = [s \in Sessions |-> FALSE]
    /\ tail = [s \in Sessions |-> "work"]
    /\ window = 0
    /\ now = 1
    /\ pass = Idle
    /\ acts = 0
    /\ faults = 0
    /\ events = {}
    /\ stopped = {}
    /\ charged = {}

-----------------------------------------------------------------------------
(* The pass.                                                               *)

Goto(p) == pass' = [pass EXCEPT !.pc = p]

EndPass == pass' = Idle

Fault == faults < MaxFaults /\ faults' = faults + 1

\* _row_carrying: RUNNING under the act's session and with this very intent.
RowCarrying ==
    /\ row.status = "RUNNING"
    /\ row.session = pass.act.session
    /\ row.act # None
    /\ row.act.session = pass.act.session
    /\ row.act.started = pass.act.started

\* The pass loads the roster and the rows; an open intent is resumed
\* (_resume_open_acts), else a candidate is looked for (the detect phase).
BeginPass ==
    /\ pass.pc = "idle"
    /\ LET native == {s \in Sessions : live[s]}
           s == row.session IN
       \/ /\ row.status = "RUNNING" /\ row.act # None
          /\ pass' = [pc |-> "arm", act |-> row.act, native |-> native, at |-> now]
       \/ /\ row.status = "RUNNING" /\ row.act = None
          /\ sess[s] = "active" /\ s \in native /\ tail[s] = "limit"
          /\ pass' = [pc |-> "decide", act |-> [session |-> s], native |-> native, at |-> now]
    /\ UNCHANGED <<row, sess, live, tail, charged>> /\ UNCHANGED env

\* _decide: under the queue lock, re-read tail and row, write the intent.
Decide(branch) ==
    /\ pass.pc = "decide"
    /\ acts < MaxActs
    /\ LET s == pass.act.session
           intent == [session |-> s, branch |-> branch, started |-> acts + 1,
                      until |-> pass.at + Window, audited |-> FALSE] IN
       /\ row.status = "RUNNING" /\ row.session = s /\ row.act = None
       /\ tail[s] = "limit"
       /\ row' = [row EXCEPT !.act = intent]
       /\ pass' = [pass EXCEPT !.pc = "arm", !.act = intent]
    /\ acts' = acts + 1
    /\ UNCHANGED <<sess, live, tail, window, now, faults, events, stopped, charged>>

\* _decide whose gate fails: nothing is written.
DecideNothing ==
    /\ pass.pc = "decide"
    /\ ~ (/\ row.status = "RUNNING" /\ row.session = pass.act.session /\ row.act = None
          /\ tail[pass.act.session] = "limit")
       \/ acts = MaxActs
    /\ EndPass
    /\ UNCHANGED <<row, sess, live, tail, charged>> /\ UNCHANGED env

\* _lockout_covers.
LockoutCovers == pass.act.until <= pass.at \/ window >= pass.act.until

ArmLockoutUnread ==
    /\ pass.pc = "arm"
    /\ Goto("audit")
    /\ \/ window' = IF window >= pass.act.until THEN window ELSE pass.act.until
       \/ UNCHANGED window
    /\ UNCHANGED <<row, sess, live, tail, now, acts, faults, events, stopped, charged>>

\* _arm_lockout: arm unless covered, and read the sidecar back.
ArmLockout ==
    /\ pass.pc = "arm"
    /\ Goto("audit")
    /\ window' = IF LockoutCovers THEN window ELSE pass.act.until
    /\ UNCHANGED <<row, sess, live, tail, now, acts, faults, events, stopped, charged>>

\* The armed event or the sidecar write failed: the attempt ends.
ArmFails ==
    /\ pass.pc = "arm"
    /\ ~LockoutCovers
    /\ Fault
    /\ EndPass
    /\ UNCHANGED <<row, sess, live, tail, window, now, acts, events, stopped, charged>>

\* _audit up to the mark: the events are recorded unless the intent the pass
\* holds is marked audited.
AuditEvents ==
    /\ pass.pc = "audit"
    /\ IF pass.act.audited
       THEN /\ Goto(IF pass.act.branch = "auto" THEN "tail" ELSE "finish")
            /\ UNCHANGED events
       ELSE /\ Goto("mark")
            /\ events' = events \cup {pass.act.started}
    /\ UNCHANGED <<row, sess, live, tail, window, now, acts, faults, stopped, charged>>

\* A write of _audit raised: the attempt ends, the set is recorded again later.
AuditFails ==
    /\ pass.pc = "audit"
    /\ ~pass.act.audited
    /\ Fault
    /\ EndPass
    /\ UNCHANGED <<row, sess, live, tail, window, now, acts, events, stopped, charged>>

\* _mark_audited under the lock; a row that moved on ends the attempt.
MarkAudited ==
    /\ pass.pc = "mark"
    /\ IF RowCarrying
       THEN /\ row' = [row EXCEPT !.act.audited = TRUE]
            /\ Goto(IF pass.act.branch = "auto" THEN "tail" ELSE "finish")
       ELSE EndPass /\ UNCHANGED row
    /\ UNCHANGED <<sess, live, tail, charged>> /\ UNCHANGED env

\* _stop_surface: nothing to stop for a terminal session or an absent surface;
\* new content abandons the act.
StopCheckTail ==
    LET s == pass.act.session IN
    /\ pass.pc = "tail"
    /\ \/ /\ sess[s] \in Terminal \/ s \notin pass.native
          /\ Goto("persist")
          /\ UNCHANGED row
       \/ /\ ~(sess[s] \in Terminal \/ s \notin pass.native)
          /\ tail[s] # "limit"
          /\ row' = IF RowCarrying THEN [row EXCEPT !.act = None] ELSE row
          /\ EndPass
       \/ /\ ~(sess[s] \in Terminal \/ s \notin pass.native)
          /\ tail[s] = "limit"
          /\ Goto("owner")
          /\ UNCHANGED row
    /\ UNCHANGED <<sess, live, tail, charged>> /\ UNCHANGED env

\* The ownership check immediately before the stop.
StopCheckOwner ==
    /\ pass.pc = "owner"
    /\ IF RowCarrying THEN Goto("stop") ELSE EndPass
    /\ UNCHANGED <<row, sess, live, tail, charged>> /\ UNCHANGED env

\* daemon.stop() and the roster poll that confirms it.
StopSurface ==
    LET s == pass.act.session IN
    /\ pass.pc = "stop"
    /\ live' = [live EXCEPT ![s] = FALSE]
    /\ stopped' = stopped \cup {s}
    /\ Goto("persist")
    /\ UNCHANGED <<row, sess, tail, window, now, acts, faults, events, charged>>

\* The stop failed, or took effect but the roster was unreadable: RETRY.
StopUnconfirmed ==
    LET s == pass.act.session IN
    /\ pass.pc = "stop"
    /\ Fault
    /\ \/ UNCHANGED <<live, stopped>>
       \/ live' = [live EXCEPT ![s] = FALSE] /\ stopped' = stopped \cup {s}
    /\ EndPass
    /\ UNCHANGED <<row, sess, tail, window, now, acts, events, charged>>

\* _persist_completed: ownership is checked again under the lock.
PersistCompleted ==
    LET s == pass.act.session IN
    /\ pass.pc = "persist"
    /\ \/ /\ sess[s] \in Terminal
          /\ Goto("finish") /\ UNCHANGED sess
       \/ /\ sess[s] \notin Terminal /\ RowCarrying
          /\ sess' = [sess EXCEPT ![s] = "usage_limited"]
          /\ Goto("finish")
       \/ /\ sess[s] \notin Terminal /\ ~RowCarrying
          /\ EndPass /\ UNCHANGED sess
    /\ UNCHANGED <<row, live, tail, charged>> /\ UNCHANGED env

\* save_state raised: the attempt ends; the session mutated in memory may
\* still be persisted by a later sweep of the same pass.
PersistFails ==
    LET s == pass.act.session IN
    /\ pass.pc = "persist"
    /\ sess[s] \notin Terminal /\ RowCarrying
    /\ Fault
    /\ sess' \in {sess, [sess EXCEPT ![s] = "usage_limited"]}
    /\ EndPass
    /\ UNCHANGED <<row, live, tail, window, now, acts, events, stopped, charged>>

FinishUnowned ==
    /\ pass.pc = "finish"
    /\ EndPass
    /\ row' = IF pass.act.branch = "auto"
              THEN [row EXCEPT !.status = "PENDING", !.session = None, !.act = None,
                               !.eligible = pass.act.until]
              ELSE [row EXCEPT !.status = "BLOCKED_ON_USER", !.act = None]
    /\ UNCHANGED <<sess, live, tail, charged>> /\ UNCHANGED env

FinishKeepsIntent ==
    /\ pass.pc = "finish"
    /\ EndPass
    /\ IF RowCarrying
       THEN row' = IF pass.act.branch = "auto"
                   THEN [row EXCEPT !.status = "PENDING", !.session = None, !.act = None,
                                    !.eligible = pass.act.until]
                   ELSE [row EXCEPT !.status = "BLOCKED_ON_USER"]
       ELSE UNCHANGED row
    /\ UNCHANGED <<sess, live, tail, charged>> /\ UNCHANGED env

\* _finish: _requeue (auto) or _park, clearing the intent in the same write.
Finish ==
    /\ pass.pc = "finish"
    /\ EndPass
    /\ IF RowCarrying
       THEN row' = IF pass.act.branch = "auto"
                   THEN [row EXCEPT !.status = "PENDING", !.session = None, !.act = None,
                                    !.eligible = pass.act.until]
                   ELSE [row EXCEPT !.status = "BLOCKED_ON_USER", !.act = None]
       ELSE UNCHANGED row
    /\ UNCHANGED <<sess, live, tail, charged>> /\ UNCHANGED env

\* A queue write of the pass fails (_decide, the mark, the abandon, _finish):
\* nothing changes and the attempt ends.
QueueWriteFails ==
    /\ pass.pc \in {"decide", "mark", "tail", "finish"}
    /\ Fault
    /\ EndPass
    /\ UNCHANGED <<row, sess, live, tail, window, now, acts, events, stopped, charged>>

\* The reconcile process dies between two steps.
Crash ==
    /\ pass.pc # "idle"
    /\ Fault
    /\ EndPass
    /\ UNCHANGED <<row, sess, live, tail, window, now, acts, events, stopped, charged>>

PassStep ==
    \/ BeginPass
    \/ \E b \in {"auto", "park"} : Decide(b)
    \/ DecideNothing
    \/ ArmLockout
    \/ AuditEvents
    \/ MarkAudited
    \/ StopCheckTail
    \/ StopCheckOwner
    \/ StopSurface
    \/ PersistCompleted
    \/ Finish

-----------------------------------------------------------------------------
(* Everyone else.                                                          *)

\* The claim gate: the row is eligible and the client not locked out.
Claim(s) ==
    /\ row.status = "PENDING" /\ row.eligible <= now /\ window <= now
    /\ sess[s] = "new"
    /\ row' = [row EXCEPT !.status = "RUNNING", !.session = s]
    /\ sess' = [sess EXCEPT ![s] = "active"]
    /\ live' = [live EXCEPT ![s] = TRUE]
    /\ UNCHANGED <<tail, pass, charged>> /\ UNCHANGED env

\* A live worker hits the limit, goes on after it, or reports its result.
WorkerWrites(s, what) ==
    /\ live[s] /\ tail[s] \notin {what, "sentinel"}
    /\ tail' = [tail EXCEPT ![s] = what]
    /\ UNCHANGED <<row, sess, live, pass, charged>> /\ UNCHANGED env

WorkerDies(s) ==
    /\ live[s]
    /\ live' = [live EXCEPT ![s] = FALSE]
    /\ UNCHANGED <<row, sess, tail, pass, charged>> /\ UNCHANGED env

\* The Stop hook routes a reported result (under sessions_lock, so not inside
\* a pass); the transition clears an intent.
RouteResult(s) ==
    /\ pass.pc = "idle"
    /\ sess[s] = "active" /\ tail[s] = "sentinel"
    /\ sess' = [sess EXCEPT ![s] = "completed"]
    /\ row' = IF row.status = "RUNNING" /\ row.session = s
              THEN [row EXCEPT !.status = "DONE", !.act = None] ELSE row
    /\ UNCHANGED <<live, tail, pass, charged>> /\ UNCHANGED env

\* The phantom sweep, another stage of the pass: a session gone from the
\* roster is a crash and its row is charged, unless an act is in flight.
PhantomRevert(s) ==
    /\ pass.pc = "idle"
    /\ sess[s] = "active" /\ ~live[s]
    /\ ~(row.act # None /\ row.act.session = s)
    /\ sess' = [sess EXCEPT ![s] = "crashed"]
    /\ IF row.status = "RUNNING" /\ row.session = s
       THEN /\ row' = [row EXCEPT !.status = "PENDING", !.session = None, !.act = None]
            /\ charged' = charged \cup {s}
       ELSE UNCHANGED <<row, charged>>
    /\ UNCHANGED <<live, tail, pass>> /\ UNCHANGED env

\* An operator requeues the row (dev_queue_lock only).
OperatorRequeue ==
    /\ row.status \in {"RUNNING", "BLOCKED_ON_USER"}
    /\ row' = [row EXCEPT !.status = "PENDING", !.session = None, !.act = None, !.eligible = 0]
    /\ UNCHANGED <<sess, live, tail, pass, charged>> /\ UNCHANGED env

ClockTick ==
    /\ now < MaxNow
    /\ now' = now + 1
    /\ UNCHANGED <<row, sess, live, tail, window, pass, acts, faults, events, stopped, charged>>

Next ==
    \/ PassStep
    \/ ArmFails \/ AuditFails \/ StopUnconfirmed \/ PersistFails \/ QueueWriteFails \/ Crash
    \/ \E s \in Sessions : Claim(s) \/ WorkerDies(s) \/ RouteResult(s) \/ PhantomRevert(s)
    \/ \E s \in Sessions, w \in {"work", "limit", "sentinel"} : WorkerWrites(s, w)
    \/ OperatorRequeue
    \/ ClockTick

Spec == Init /\ [][Next]_vars

\* The dispatch loop runs reconcile every tick.
FairSpec == Spec /\ WF_vars(PassStep)

-----------------------------------------------------------------------------

\* A row is handed to the next worker by the act only when the limited session
\* is closed and its surface gone: never two workers on one ticket, whatever
\* crashed or moved between the steps.
RequeuesStopped ==
    row.act # None /\ row'.status = "PENDING" /\ row'.eligible > 0
        => sess[row.session] \in Terminal /\ ~live[row.session]
\* A row waiting for the window to end waits under a lockout at least as long:
\* neither the row nor any other of the client is spawned into the limit.
LockoutBeforeRequeue ==
    row.status = "PENDING" /\ row.eligible > now => window >= row.eligible

\* A session an act stopped is never charged an unproductive attempt, however
\* the act was interrupted.
StoppedNeverCharged == stopped \cap charged = {}

\* The usage limit is honoured for the row and held against nobody: no spawn
\* into the window, no charge for the session that hit it.
LimitHonoured == LockoutBeforeRequeue /\ StoppedNeverCharged

\* A row an operator requeued, or a new worker claimed, between two steps of
\* an act is left as found, and so is the session: every write of the act's
\* later steps happens only while the row carries this very intent.
WritesOwned ==
    /\ pass.pc \in {"mark", "tail", "persist", "finish"} /\ pass' # pass
    /\ <<row, sess>>' # <<row, sess>>
    => RowCarrying

\* Every step of an act writes only the row that carries its intent, and hands
\* it on only once the limited worker is gone.
ActStep == RequeuesStopped /\ WritesOwned
ActsOwned == [][ActStep]_vars

\* An intent, once written, is resolved: finished, abandoned or dispositioned.
ActResolved == row.act # None ~> row.act = None
=============================================================================
