------------------------------ MODULE MCReview ------------------------------
(* The parts of the review stage and of the pull requests, each a small     *)
(* instance that a behaviour picks in its initial state.                    *)
EXTENDS Naturals, Sequences, FiniteSets

CONSTANT None  \* no value

VARIABLES
    part,  \* the component this behaviour runs
    row, ses, driver, codex, tree, spawn, boot, sweep, legacy, marker, events,
    lock, crashes,
    head, anc, merges, fork, cfg, ledger, s, settle, seen, ruled, pub, fixes,
    faults, hands,
    branch, origin, wt, fS, unread, runs, fHands, fFaults,
    pr, hooks, rows, poll, loop, scan, rec, n, acted, owing, told, pages,
    torn,
    git, main, tip, gPr, gRow, converged, reviewed, attempts, job, theirs,
    gOwing, gTold, gN,
    active, arch, stage, op, returned, wedged, oCrashes,
    parent, aTip, aRow, tick, read, repair, foreign, covered, accepted,
    missed, aN

\* A codex session, one that claims the row after it, and one crash.
Codex == INSTANCE CodexJob WITH
    Sessions <- {"s1", "s2"}, Runs <- {"s1"}, MaxCrashes <- 1
\* The codex lane with one finding and an operator's hand; with two findings
\* and a session that dies; and the agent's commands.
Loop == INSTANCE Convergence WITH
    Ids <- {"f1"}, Loops <- {"codex"}, Outcomes <- {"fix", "operator_action"},
    StallWindow <- 2, Cap <- 1, MaxCycles <- 1, MaxHead <- 2, MaxRounds <- 3,
    MaxHands <- 1, MaxFaults <- 0
Again == INSTANCE Convergence WITH
    Ids <- {"f1", "f2"}, Loops <- {"codex"}, Outcomes <- {"fix"},
    StallWindow <- 2, Cap <- 1, MaxCycles <- 1, MaxHead <- 2, MaxRounds <- 3,
    MaxHands <- 0, MaxFaults <- 1
Agent == INSTANCE Convergence WITH
    Ids <- {"f1"}, Loops <- {"agent"}, Outcomes <- {"fix"}, StallWindow <- 2,
    Cap <- 1, MaxCycles <- 1, MaxHead <- 1, MaxRounds <- 2, MaxHands <- 1,
    MaxFaults <- 1
\* Two runs of the fix loop beside an operator; and two cycles of one run
\* with two reviewer roles.
Fix == INSTANCE FixLoop WITH
    s <- fS, hands <- fHands, faults <- fFaults, Paths <- {"a", "b", "art"},
    Cycle0 <- {"a"}, Planned <- {"a"}, Sensitive <- {"b"},
    Artifacts <- {"art"}, Roles <- {"r1"}, Findings <- {"f1"}, Contests <- {},
    FileOf <- [f1 |-> "a"], Budget <- 1, LoopBudget <- 2, MaxGrowth <- 1,
    StallCycles <- 1, MaxFixCycles <- 1, MaxLines <- 1, MaxRuns <- 2,
    MaxHands <- 1, MaxFaults <- 1
Cycles == INSTANCE FixLoop WITH
    s <- fS, hands <- fHands, faults <- fFaults, Paths <- {"a"},
    Cycle0 <- {"a"}, Planned <- {"a"}, Sensitive <- {}, Artifacts <- {},
    Roles <- {"r1", "r2"}, Findings <- {"f1", "f2"}, Contests <- {"f2"},
    FileOf <- [f1 |-> "a", f2 |-> "a"], Budget <- 1, LoopBudget <- 2,
    MaxGrowth <- 1, StallCycles <- 1, MaxFixCycles <- 2, MaxLines <- 1,
    MaxRuns <- 1, MaxHands <- 0, MaxFaults <- 0
\* Two loops and the recipe that rolls its latch back; a recovery while the
\* row moves on; the red-PR scan over two heads; all four recipes and a
\* crash; and a second row of the ticket.
Rolled == INSTANCE PullRequests WITH
    MaxRows <- 1, MaxPrs <- 1, Loops <- {1, 2}, Recipes <- {"auto_fix_ci"},
    Changes <- {"checks"}, Fails <- {0, 1}, MaxChanges <- 3, MaxPolls <- 1,
    MaxTime <- 3, MaxScans <- 0, MaxRecovers <- 0, MaxMoves <- 3,
    MaxCrashes <- 0
Disarmed == INSTANCE PullRequests WITH
    MaxRows <- 1, MaxPrs <- 1, Loops <- {1}, Recipes <- {},
    Changes <- {"checks", "arm", "end"}, Fails <- {0, 1}, MaxChanges <- 2,
    MaxPolls <- 1, MaxTime <- 0, MaxScans <- 0, MaxRecovers <- 1,
    MaxMoves <- 5, MaxCrashes <- 0
Red == INSTANCE PullRequests WITH
    MaxRows <- 1, MaxPrs <- 1, Loops <- {1}, Recipes <- {},
    Changes <- {"checks", "push"}, Fails <- {0, 1, 2}, MaxChanges <- 3,
    MaxPolls <- 1, MaxTime <- 2, MaxScans <- 2, MaxRecovers <- 0,
    MaxMoves <- 3, MaxCrashes <- 1
Recipe == INSTANCE PullRequests WITH
    MaxRows <- 1, MaxPrs <- 1, Loops <- {1},
    Recipes <- {"address_review", "auto_fix_ci", "request_reviewer", "escalate_merge_block"},
    Changes <- {"checks", "review", "conflict"}, Fails <- {0, 1},
    MaxChanges <- 2, MaxPolls <- 1, MaxTime <- 2, MaxScans <- 0,
    MaxRecovers <- 0, MaxMoves <- 2, MaxCrashes <- 1
Twice == INSTANCE PullRequests WITH
    MaxRows <- 2, MaxPrs <- 1, Loops <- {1}, Recipes <- {},
    Changes <- {"checks", "end"}, Fails <- {0, 1}, MaxChanges <- 2,
    MaxPolls <- 1, MaxTime <- 0, MaxScans <- 0, MaxRecovers <- 1,
    MaxMoves <- 4, MaxCrashes <- 1
\* A repair beside pushes, arms and a review, with history enough for a merge
\* of another branch; and both recipes with retries, clean mode and a crash.
Repair == INSTANCE MergeRepair WITH
    pr <- gPr, row <- gRow, owing <- gOwing, told <- gTold, n <- gN,
    Specs <- {"mechanical"}, Tiers <- {"large"}, CleanModes <- {FALSE},
    Kinds <- {"mechanical"}, MaxCommits <- 6, MaxFlips <- 1, MaxRows <- 1,
    MaxJobs <- 1, MaxAttempts <- 1, MaxCrashes <- 0
Repairs == INSTANCE MergeRepair WITH
    pr <- gPr, row <- gRow, owing <- gOwing, told <- gTold, n <- gN,
    Specs <- {"changelog", "mechanical"}, Tiers <- {"small"},
    CleanModes <- BOOLEAN, Kinds <- {"mechanical", "changelog"},
    MaxCommits <- 5, MaxFlips <- 1, MaxRows <- 1, MaxJobs <- 2,
    MaxAttempts <- 2, MaxCrashes <- 1
\* The findings workspace over three rounds of two tickets and two crashes;
\* and with two reviewers.
Rounds == INSTANCE ReviewWorkspace WITH
    crashes <- oCrashes, Tickets <- {"t1", "t2"}, Roles <- {"r1"},
    MaxRounds <- 3, MaxCrashes <- 2
Returns == INSTANCE ReviewWorkspace WITH
    crashes <- oCrashes, Tickets <- {"t1"}, Roles <- {"r1", "r2"},
    MaxRounds <- 2, MaxCrashes <- 2
\* An adopted PR over three ticks of one loop.
Adopted == INSTANCE AdoptedPr WITH
    tip <- aTip, row <- aRow, n <- aN, Loops <- {1}, MaxCommits <- 5,
    MaxTicks <- 3, MaxMoves <- 3, MaxRepairs <- 1

ASSUME Codex!CodexAssumption
ASSUME Loop!ConvergenceAssumption
ASSUME Again!ConvergenceAssumption
ASSUME Agent!ConvergenceAssumption
ASSUME Fix!FixLoopAssumption
ASSUME Cycles!FixLoopAssumption
ASSUME Rolled!PullRequestsAssumption
ASSUME Disarmed!PullRequestsAssumption
ASSUME Red!PullRequestsAssumption
ASSUME Recipe!PullRequestsAssumption
ASSUME Twice!PullRequestsAssumption
ASSUME Repair!MergeRepairAssumption
ASSUME Repairs!MergeRepairAssumption
ASSUME Rounds!ReviewWorkspaceAssumption
ASSUME Returns!ReviewWorkspaceAssumption
ASSUME Adopted!AdoptedPrAssumption

xVars == <<row, ses, driver, codex, tree, spawn, boot, sweep, legacy, marker,
    events, lock, crashes>>
vVars == <<head, anc, merges, fork, cfg, ledger, s, settle, seen, ruled, pub,
    fixes, faults, hands>>
fVars == <<branch, origin, wt, fS, unread, runs, fHands, fFaults>>
pVars == <<pr, hooks, rows, poll, loop, scan, rec, n, acted, owing, told,
    pages, torn>>
gVars == <<git, main, tip, gPr, gRow, converged, reviewed, attempts, job,
    theirs, gOwing, gTold, gN>>
oVars == <<active, arch, stage, op, returned, wedged, oCrashes>>
aVars == <<parent, aTip, aRow, tick, read, repair, foreign, covered, accepted,
    missed, aN>>

-----------------------------------------------------------------------------

\* The variables of a component that does not run.
NoCodexJob ==
    /\ row = 0 /\ ses = 0 /\ driver = 0 /\ codex = 0 /\ tree = 0 /\ spawn = 0
    /\ boot = 0 /\ sweep = 0 /\ legacy = 0 /\ marker = 0 /\ events = 0
    /\ lock = 0 /\ crashes = 0

NoConvergence ==
    /\ head = 0 /\ anc = 0 /\ merges = 0 /\ fork = 0 /\ cfg = 0 /\ ledger = 0
    /\ s = 0 /\ settle = 0 /\ seen = 0 /\ ruled = 0 /\ pub = 0 /\ fixes = 0
    /\ faults = 0 /\ hands = 0

NoFixLoop ==
    /\ branch = 0 /\ origin = 0 /\ wt = 0 /\ fS = 0 /\ unread = 0 /\ runs = 0
    /\ fHands = 0 /\ fFaults = 0

NoPullRequests ==
    /\ pr = 0 /\ hooks = 0 /\ rows = 0 /\ poll = 0 /\ loop = 0 /\ scan = 0
    /\ rec = 0 /\ n = 0 /\ acted = 0 /\ owing = 0 /\ told = 0 /\ pages = 0
    /\ torn = 0

NoMergeRepair ==
    /\ git = 0 /\ main = 0 /\ tip = 0 /\ gPr = 0 /\ gRow = 0 /\ converged = 0
    /\ reviewed = 0 /\ attempts = 0 /\ job = 0 /\ theirs = 0 /\ gOwing = 0
    /\ gTold = 0 /\ gN = 0

NoReviewWorkspace ==
    /\ active = 0 /\ arch = 0 /\ stage = 0 /\ op = 0 /\ returned = 0
    /\ wedged = 0 /\ oCrashes = 0

NoAdoptedPr ==
    /\ parent = 0 /\ aTip = 0 /\ aRow = 0 /\ tick = 0 /\ read = 0
    /\ repair = 0 /\ foreign = 0 /\ covered = 0 /\ accepted = 0 /\ missed = 0
    /\ aN = 0

Init ==
    \/ part = "codex" /\ Codex!Init /\ NoConvergence /\ NoFixLoop /\
       NoPullRequests /\ NoMergeRepair /\ NoReviewWorkspace /\ NoAdoptedPr
    \/ part = "loop" /\ Loop!Init /\ NoCodexJob /\ NoFixLoop /\ NoPullRequests
       /\ NoMergeRepair /\ NoReviewWorkspace /\ NoAdoptedPr
    \/ part = "again" /\ Again!Init /\ NoCodexJob /\ NoFixLoop /\
       NoPullRequests /\ NoMergeRepair /\ NoReviewWorkspace /\ NoAdoptedPr
    \/ part = "agent" /\ Agent!Init /\ NoCodexJob /\ NoFixLoop /\
       NoPullRequests /\ NoMergeRepair /\ NoReviewWorkspace /\ NoAdoptedPr
    \/ part = "fix" /\ Fix!Init /\ NoCodexJob /\ NoConvergence /\
       NoPullRequests /\ NoMergeRepair /\ NoReviewWorkspace /\ NoAdoptedPr
    \/ part = "cycles" /\ Cycles!Init /\ NoCodexJob /\ NoConvergence /\
       NoPullRequests /\ NoMergeRepair /\ NoReviewWorkspace /\ NoAdoptedPr
    \/ part = "rolled" /\ Rolled!Init /\ NoCodexJob /\ NoConvergence /\
       NoFixLoop /\ NoMergeRepair /\ NoReviewWorkspace /\ NoAdoptedPr
    \/ part = "disarmed" /\ Disarmed!Init /\ NoCodexJob /\ NoConvergence /\
       NoFixLoop /\ NoMergeRepair /\ NoReviewWorkspace /\ NoAdoptedPr
    \/ part = "red" /\ Red!Init /\ NoCodexJob /\ NoConvergence /\ NoFixLoop /\
       NoMergeRepair /\ NoReviewWorkspace /\ NoAdoptedPr
    \/ part = "recipe" /\ Recipe!Init /\ NoCodexJob /\ NoConvergence /\
       NoFixLoop /\ NoMergeRepair /\ NoReviewWorkspace /\ NoAdoptedPr
    \/ part = "twice" /\ Twice!Init /\ NoCodexJob /\ NoConvergence /\
       NoFixLoop /\ NoMergeRepair /\ NoReviewWorkspace /\ NoAdoptedPr
    \/ part = "repair" /\ Repair!Init /\ NoCodexJob /\ NoConvergence /\
       NoFixLoop /\ NoPullRequests /\ NoReviewWorkspace /\ NoAdoptedPr
    \/ part = "repairs" /\ Repairs!Init /\ NoCodexJob /\ NoConvergence /\
       NoFixLoop /\ NoPullRequests /\ NoReviewWorkspace /\ NoAdoptedPr
    \/ part = "rounds" /\ Rounds!Init /\ NoCodexJob /\ NoConvergence /\
       NoFixLoop /\ NoPullRequests /\ NoMergeRepair /\ NoAdoptedPr
    \/ part = "returns" /\ Returns!Init /\ NoCodexJob /\ NoConvergence /\
       NoFixLoop /\ NoPullRequests /\ NoMergeRepair /\ NoAdoptedPr
    \/ part = "adopted" /\ Adopted!Init /\ NoCodexJob /\ NoConvergence /\
       NoFixLoop /\ NoPullRequests /\ NoMergeRepair /\ NoReviewWorkspace

Next ==
    \/ part = "codex" /\ Codex!Next /\ UNCHANGED <<part, vVars, fVars, pVars,
       gVars, oVars, aVars>>
    \/ part = "loop" /\ Loop!Next /\ UNCHANGED <<part, xVars, fVars, pVars,
       gVars, oVars, aVars>>
    \/ part = "again" /\ Again!Next /\ UNCHANGED <<part, xVars, fVars, pVars,
       gVars, oVars, aVars>>
    \/ part = "agent" /\ Agent!Next /\ UNCHANGED <<part, xVars, fVars, pVars,
       gVars, oVars, aVars>>
    \/ part = "fix" /\ Fix!Next /\ UNCHANGED <<part, xVars, vVars, pVars,
       gVars, oVars, aVars>>
    \/ part = "cycles" /\ Cycles!Next /\ UNCHANGED <<part, xVars, vVars,
       pVars, gVars, oVars, aVars>>
    \/ part = "rolled" /\ Rolled!Next /\ UNCHANGED <<part, xVars, vVars,
       fVars, gVars, oVars, aVars>>
    \/ part = "disarmed" /\ Disarmed!Next /\ UNCHANGED <<part, xVars, vVars,
       fVars, gVars, oVars, aVars>>
    \/ part = "red" /\ Red!Next /\ UNCHANGED <<part, xVars, vVars, fVars,
       gVars, oVars, aVars>>
    \/ part = "recipe" /\ Recipe!Next /\ UNCHANGED <<part, xVars, vVars,
       fVars, gVars, oVars, aVars>>
    \/ part = "twice" /\ Twice!Next /\ UNCHANGED <<part, xVars, vVars, fVars,
       gVars, oVars, aVars>>
    \/ part = "repair" /\ Repair!Next /\ UNCHANGED <<part, xVars, vVars,
       fVars, pVars, oVars, aVars>>
    \/ part = "repairs" /\ Repairs!Next /\ UNCHANGED <<part, xVars, vVars,
       fVars, pVars, oVars, aVars>>
    \/ part = "rounds" /\ Rounds!Next /\ UNCHANGED <<part, xVars, vVars,
       fVars, pVars, gVars, aVars>>
    \/ part = "returns" /\ Returns!Next /\ UNCHANGED <<part, xVars, vVars,
       fVars, pVars, gVars, aVars>>
    \/ part = "adopted" /\ Adopted!Next /\ UNCHANGED <<part, xVars, vVars,
       fVars, pVars, gVars, oVars>>

Spec == Init /\ [][Next]_<<part, xVars, vVars, fVars, pVars, gVars, oVars, aVars>>

-----------------------------------------------------------------------------

\* The claim a running row holds ends by the operator, by its driver, after its
\* session is over, or by the recovery of that very session: a recovery that
\* judged an older session leaves the new claim alone (expected_session_id).
ClaimKept ==
    [][part = "codex" => Codex!ClaimEndsByOwner]_xVars

\* A row that a recovery gives back to the queue carries no partial work, if
\* nothing ran in the worktree when the recovery looked: no later claim's work
\* comes between the look and the move.
RequeuedClean ==
    [][part = "codex" => Codex!RequeueStep]_xVars

\* A converged ledger names a commit that the loop backend read clean and, with
\* an independent confirm, the confirm backend too, and a published result
\* vouches for no tip with anything but clean merges above that commit: no
\* unread finding, moved tip, stale confirm or interrupted session is ever
\* taken for a clean round.
\* A clean result stands for a head that is on origin, and every change on
\* the branch was read by every role, but for deltas of unsharded re-reviews
\* that blocked on another role's findings (DeltaGap.fold leaves those out).
CleanMeansRead ==
    /\ part = "loop" => Loop!CleanMeansRead
    /\ part = "agent" => Agent!CleanMeansRead
    /\ part = "cycles" => Cycles!CleanMeansRead

\* However often it is requeued or dies, the codex loop makes no more fix
\* commits than its budget of cycles until somebody touches the branch, the
\* settings or the ledger.
FixesBounded == part = "again" => Again!FixesBounded

\* A fix commit holds exactly the paths its cycle was measured to touch,
\* nothing that lay in the worktree before the cycle, and nothing outside
\* the fence that the cycle-0 diff and the plan set: what the operator edits
\* between the measurement and the commit, or what an earlier run left
\* behind, is never committed as codex's fix.
FixCommitsMeasured == part = "fix" => Fix!FixCommitsMeasured

\* One action per episode: a recipe acts at most once on an attention state
\* that a row was seen to enter, whatever the poll, the pushes, a second loop,
\* a refused requeue and its late rollback do in between.  A death between the
\* event and the save of an act repeats it.
ActedOnce ==
    /\ part = "rolled" => Rolled!ActedOnce
    /\ part = "recipe" => Recipe!ActedOnce

\* A PR that a recovery disarmed is not forgotten: while it is open and
\* unarmed, a row carries the note that its arm is owed, or the command is
\* still on its way to the row, or it said that the row was left unchanged.
\* Auto-merge that a repair took away is back, or the repair is still running,
\* or it has ended with a report (_park, _emit_unarmed_attention).
DisarmRemembered ==
    /\ part = "disarmed" => Disarmed!DisarmRemembered
    /\ part = "twice" => Twice!DisarmRemembered
    /\ part = "repair" => Repair!DisarmRemembered
    /\ part = "repairs" => Repairs!DisarmRemembered

\* The latch that keeps a red PR quiet stands for a page that was recorded or
\* is about to be: a failed append takes its latch back with it.
QuietMeansPaged == part = "red" => Red!QuietMeansPaged

\* A repair arms a large ticket's PR only at a head all of whose work outside
\* the default branch some review approved, and in clean mode only at a head
\* whose own review converged (evaluate_repair_fence before _arm).
\* A commit that others pushed enters the pin only when the operator pinned it
\* or a session ran between its push and the settle (_compare_and_set_pin,
\* _settle_one, _repin_to_origin_head).
UnreviewedHeld ==
    /\ part = "repair" => Repair!UnreviewedHeld
    /\ part = "repairs" => Repairs!UnreviewedHeld
    /\ part = "adopted" => Adopted!UnreviewedHeld

\* No force-push of a repair drops work that others pushed to the branch,
\* however late they pushed it (_push_with_lease, _verify_identical).
\* What a reviewer returned is kept with its round, whatever dies during the
\* promotion of a later one: a document is in the directory of its round and a
\* failure in its marker; at rest no marker stands beside another round's
\* directory; and the next command always finds its way, except from a torn
\* write (recover_workspace and the transaction handlers).
WorkKept ==
    /\ part = "repair" => Repair!WorkKept
    /\ part = "repairs" => Repairs!WorkKept
    /\ part = "rounds" => Rounds!WorkKept
    /\ part = "returns" => Returns!WorkKept

\* operator-settle ends without a warning only if its save undid no write of a
\* worker, as its steps promise of a worker that started in between.
SettleReported == part = "loop" => Loop!SettleReported
=============================================================================
