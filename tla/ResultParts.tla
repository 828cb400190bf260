---------------------------- MODULE ResultParts -----------------------------
(***************************************************************************)
(* A result on its way from the worker to its row.                         *)
(***************************************************************************)
EXTENDS Naturals, Sequences, FiniteSets, Parts

CONSTANTS
    ResultKinds, ResultSessions, Reporters, LastStage, MaxCrashes, MaxLog  \* of Result

VARIABLES
    rRow, ses, rLive, rTail, bg, marker, emit, hook, rec, lock, log, cursor,
    crashes, moves, routed

\* A session that reports and one that claims the row next; one process dies.
Result == INSTANCE SessionResult WITH
    row <- rRow, live <- rLive, tail <- rTail, Sessions <- ResultSessions,
    Kinds <- ResultKinds

ASSUME ResultAssumption == Result!ResultAssumption

rVars == <<rRow, ses, rLive, rTail, bg, marker, emit, hook, rec, lock, log,
    cursor, crashes, moves, routed>>

-----------------------------------------------------------------------------

\* The variables of a component that does not run.
NoSessionResult ==
    /\ rRow = 0 /\ ses = 0 /\ rLive = 0 /\ rTail = 0 /\ bg = 0 /\ marker = 0
    /\ emit = 0 /\ hook = 0 /\ rec = 0 /\ lock = 0 /\ log = 0 /\ cursor = 0
    /\ crashes = 0 /\ moves = 0 /\ routed = 0

ResultOff == NoSessionResult

ResultInit ==
    \/ part = "result" /\ Result!Init

ResultNext ==
    \/ part = "result" /\ Result!Next /\ UNCHANGED <<part>>

ResultVars == <<rVars>>

ResultSpec == ResultInit /\ [][ResultNext]_<<part, ResultVars>>

-----------------------------------------------------------------------------

\* Between the door, the hook, the sweeps and the event consumer, a result is
\* applied once, and it is the one on record.
AppliedAsRecorded == part = "result" => Result!AppliedAsRecorded

\* One session has one result, and it alone moves the session's row.
ResultKept ==
    [][part = "result" => Result!ResultStep]_rVars
=============================================================================
