------------------------------- MODULE MCLive -------------------------------
(* What must eventually happen, on small instances with the fairness of the *)
(* part that runs. The components share no variable.                        *)
EXTENDS Naturals, Sequences, FiniteSets

CONSTANT None  \* no value

VARIABLES
    part,  \* the component this behaviour runs
    now, file, mem, pc, det, active, arms, cleared,
    ov, declared, pending, full, cNow, tick, fails, held, lifted, free, paged,
    row, sess, live, tail, window, mNow, pass, acts, faults, events, stopped,
    charged,
    rRow, ses, rLive, rTail, bg, marker, emit, hook, rec, lock, log, cursor,
    crashes, moves, routed

OneLoop == INSTANCE UsageWindows WITH
    Clients <- {"c1", "c2"}, Loops <- {"l1"}, Forced <- {}, Flat <- 1,
    Resets <- {0, 2, 4}, MaxWindow <- 3, MaxNow <- 3, MaxArms <- 2
\* One loop whose streak runs further.
Resume == INSTANCE LaneCircuit WITH
    now <- cNow, Loops <- {"l1"}, Threshold <- 1, Base <- 1, MaxCool <- 3,
    Interval <- 4, MaxFails <- 2, MaxNow <- 2
\* One session and two faults.
Resumed == INSTANCE MidTurnAct WITH
    now <- mNow, Sessions <- {"s1"}, Window <- 1, MaxNow <- 2, MaxActs <- 2,
    MaxFaults <- 2
\* One session.
Reports == INSTANCE SessionResult WITH
    row <- rRow, live <- rLive, tail <- rTail, Sessions <- {"s1"},
    Reporters <- {"s1"}, Kinds <- {"advance", "mismatch", "bad"},
    LastStage <- 2, MaxCrashes <- 1, MaxLog <- 1

ASSUME OneLoop!WindowAssumption
ASSUME Resume!CircuitAssumption
ASSUME Resumed!ActAssumption
ASSUME Reports!ResultAssumption

wVars == <<now, file, mem, pc, det, active, arms, cleared>>
cVars == <<ov, declared, pending, full, cNow, tick, fails, held, lifted, free,
    paged>>
mVars == <<row, sess, live, tail, window, mNow, pass, acts, faults, events,
    stopped, charged>>
rVars == <<rRow, ses, rLive, rTail, bg, marker, emit, hook, rec, lock, log,
    cursor, crashes, moves, routed>>

-----------------------------------------------------------------------------

\* The parts with their fairness, which binds the part that runs.
LiveInit ==
    /\ part \in {"windows", "circuit", "acts", "result"}
    /\ OneLoop!Init /\ Resume!Init /\ Resumed!Init /\ Reports!Init

LiveNext ==
    \/ part = "windows" /\ OneLoop!Next /\ UNCHANGED <<part, cVars, mVars,
       rVars>>
    \/ part = "circuit" /\ Resume!Next /\ UNCHANGED <<part, wVars, mVars,
       rVars>>
    \/ part = "acts" /\ Resumed!Next /\ UNCHANGED <<part, wVars, cVars,
       rVars>>
    \/ part = "result" /\ Reports!Next /\ UNCHANGED <<part, wVars, cVars,
       mVars>>

LiveSpec ==
    /\ LiveInit /\ [][LiveNext]_<<part, wVars, cVars, mVars, rVars>>
    /\ WF_wVars(part = "windows" /\ OneLoop!ClockTick)
    /\ WF_wVars(part = "windows" /\ OneLoop!LoopStep("l1"))
    /\ WF_cVars(part = "circuit" /\ Resume!ClockTick)
    /\ WF_cVars(part = "circuit" /\ Resume!SlotFrees)
    /\ WF_cVars(part = "circuit" /\ Resume!LoopStep("l1"))
    /\ SF_cVars(part = "circuit" /\ Resume!TickStart("l1"))
    /\ WF_mVars(part = "acts" /\ Resumed!PassStep)
    /\ WF_rVars(part = "result" /\ Reports!HookStep("s1"))
    /\ WF_rVars(part = "result" /\ Reports!RecStep)
    /\ WF_rVars(part = "result" /\ Reports!BackstopStep)
    /\ WF_rVars(part = "result" /\ Reports!Consume(FALSE))

-----------------------------------------------------------------------------

\* A loop that keeps running and has seen a window announces the all-clear
\* once the windows lapse.
\* A pause by the breaker with a schedule is lifted in the end.
PauseEnds == OneLoop!PauseEnds /\ Resume!PauseEnds

\* An intent, once written, is resolved: finished, abandoned or dispositioned.
ActResolved == Resumed!ActResolved

\* A result handed in with cw result emit is settled (routed, or its session
\* completes, or the refusal is latched), and a row does not stay RUNNING under
\* a session that has completed.
ResultSettled == Reports!ResultSettled

=============================================================================
