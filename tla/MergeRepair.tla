---------------------------- MODULE MergeRepair -----------------------------
(***************************************************************************)
(* The two recipes that repair a shipped PR which conflicts with the       *)
(* default branch: a rebase that rebuilds the changelog, and a merge whose *)
(* conflicts lie in paths that a command regenerates.  A repair fetches,   *)
(* rewrites in a scratch worktree, disarms auto-merge, force-pushes over   *)
(* the head it examined, and arms again only behind the review fence.      *)
(* Workers, operators and GitHub move the branch, the default branch, the  *)
(* row and auto-merge between any two of its steps.                        *)
(*                                                                         *)
(* A commit is a number; `adds` is the work it contributes outside the     *)
(* conflicted paths.  Commit 1 is the default branch's, commit 2 the PR's. *)
(***************************************************************************)
EXTENDS Naturals, Sequences, FiniteSets

CONSTANTS
    None,
    Specs,          \* the recipes that the client has enabled
    Tiers,          \* scope tiers of the ticket
    CleanModes,     \* whether the client wants a converged review
    Kinds,          \* what a commit of the default branch conflicts in
    MaxCommits,
    MaxFlips,       \* arms and disarms by others
    MaxRows,        \* approvals, revocations and hydrations of the row
    MaxJobs,        \* repair jobs
    MaxAttempts,    \* _MAX_ATTEMPTS
    MaxCrashes

MergeRepairAssumption ==
    /\ Specs \subseteq {"changelog", "mechanical"}
    /\ Tiers \subseteq {"small", "large", "none"} /\ CleanModes \subseteq BOOLEAN
    /\ Kinds \subseteq {"changelog", "mechanical", "other"}
    /\ {MaxCommits, MaxFlips, MaxRows, MaxJobs, MaxAttempts, MaxCrashes} \subseteq Nat

VARIABLES
    git,     \* the commits: parents, work added, and what a default-branch commit conflicts in
    main,    \* the default branch on origin
    tip,     \* the PR's branch on origin
    pr,      \* open, armed, and the head the repair armed, or 0
    row,     \* tier, clean mode, completed, the approved head, whether it looks repairable
    converged,  \* the head at which the worktree's review ledger has converged, or 0
    reviewed,   \* the heads a review has approved
    attempts,   \* the in-memory latch of each recipe
    job,     \* the repair in flight
    theirs,  \* work that others have pushed to the branch
    owing,   \* a repair disarmed the PR, and nobody armed or ended it since
    told,    \* a report or an attention event stands for the last repair
    n

vars == <<git, main, tip, pr, row, converged, reviewed, attempts, job, theirs, owing, told, n>>

-----------------------------------------------------------------------------
(* Commits.                                                                *)

Ancestors(g) ==
    LET anc[c \in DOMAIN g] == {c} \cup UNION {anc[g[c].parents[i]] : i \in DOMAIN g[c].parents} IN anc
IsAncestor(g, a, c) == a \in Ancestors(g)[c]
Work(g, c) == UNION {g[a].adds : a \in Ancestors(g)[c]}
Commit(parents, adds, kind) == [parents |-> parents, adds |-> adds, kind |-> kind]

\* git merge-tree of the default branch and the head: the kinds of path that
\* the commits the head lacks conflict in.
ConflictSet(m, c) ==
    {git[a].kind : a \in Ancestors(git)[m] \ Ancestors(git)[c]} \ {"none"}

Init ==
    /\ git = <<Commit(<<>>, {}, "none"), Commit(<<1>>, {2}, "none")>>
    /\ main = 1 /\ tip = 2
    /\ pr = [open |-> TRUE, armed |-> FALSE, by |-> 0, fence |-> None]
    /\ \E t \in Tiers, c \in CleanModes :
         row = [tier |-> t, clean |-> c, done |-> TRUE, approved |-> 0, shape |-> FALSE]
    /\ converged = 0 /\ reviewed = {}
    /\ attempts = [s \in Specs |-> 0]
    /\ job = None /\ theirs = {2} /\ owing = FALSE /\ told = FALSE
    /\ n = [flips |-> 0, rows |-> 0, jobs |-> 0, crashes |-> 0]

Tick(f, max) == n[f] < max /\ n' = [n EXCEPT ![f] = @ + 1]

-----------------------------------------------------------------------------
(* The others (external).                                                  *)

\* A commit on the default branch, in conflict with the PR in one kind of path.
DefaultBranchMoves == \E k \in Kinds :
    /\ Len(git) < MaxCommits
    /\ git' = Append(git, Commit(<<main>>, {}, k))
    /\ main' = Len(git')
    /\ UNCHANGED <<tip, pr, row, converged, reviewed, attempts, job, theirs, owing, told, n>>

\* A push to the PR's branch: more work, or the default branch merged in without
\* edits of its own (the fence does not look into a merge of the default branch).
BranchMoves ==
    /\ Len(git) < MaxCommits /\ pr.open
    /\ LET c == Len(git) + 1 IN
       /\ tip' = c
       /\ \/ /\ git' = Append(git, Commit(<<tip>>, {c}, "none"))
             /\ theirs' = theirs \cup {c}
          \/ /\ \E ps \in {<<tip, main>>, <<main, tip>>} : git' = Append(git, Commit(ps, {}, "none"))
             /\ UNCHANGED theirs
    /\ UNCHANGED <<main, pr, row, converged, reviewed, attempts, job, owing, told, n>>
OtherBranchMergedIn ==
    /\ Len(git) + 1 < MaxCommits /\ pr.open
    /\ LET c == Len(git) + 1 IN
       /\ git' = git \o <<Commit(<<1>>, {c}, "none"), Commit(<<tip, c>>, {}, "none")>>
       /\ tip' = c + 1
       /\ theirs' = theirs \cup {c}
    /\ UNCHANGED <<main, pr, row, converged, reviewed, attempts, job, owing, told, n>>

ArmByHand ==
    /\ pr.open /\ ~pr.armed /\ Tick("flips", MaxFlips)
    /\ pr' = [pr EXCEPT !.armed = TRUE, !.by = 0, !.fence = None]
    /\ owing' = FALSE
    /\ UNCHANGED <<git, main, tip, row, converged, reviewed, attempts, job, theirs, told>>
DisarmByHand ==
    /\ pr.armed /\ Tick("flips", MaxFlips)
    /\ pr' = [pr EXCEPT !.armed = FALSE, !.by = 0, !.fence = None]
    /\ UNCHANGED <<git, main, tip, row, converged, reviewed, attempts, job, theirs, owing, told>>

\* GitHub merges an armed PR without conflicts.
AutoMerge ==
    /\ pr.open /\ pr.armed /\ ConflictSet(main, tip) = {} /\ Len(git) < MaxCommits
    /\ git' = Append(git, Commit(<<main, tip>>, {}, "none"))
    /\ main' = Len(git')
    /\ pr' = [pr EXCEPT !.open = FALSE, !.armed = FALSE]
    /\ owing' = FALSE
    /\ UNCHANGED <<tip, row, converged, reviewed, attempts, job, theirs, told, n>>

\* A review approves the head it read, or its ledger converges there.
Approve ==
    /\ Tick("rows", MaxRows)
    /\ row' = [row EXCEPT !.approved = tip]
    /\ converged' = tip /\ reviewed' = reviewed \cup {tip}
    /\ UNCHANGED <<git, main, tip, pr, attempts, job, theirs, owing, told>>
\* The row is requeued, which revokes the approval, or completed again.
RowMoves ==
    /\ Tick("rows", MaxRows)
    /\ row' = [row EXCEPT !.done = ~@, !.approved = IF row.done THEN 0 ELSE @]
    /\ UNCHANGED <<git, main, tip, pr, converged, reviewed, attempts, job, theirs, owing, told>>
\* Hydration sees the conflict, or sees it gone.
Hydrate ==
    /\ row.shape # (pr.open /\ ConflictSet(main, tip) # {})
    /\ row' = [row EXCEPT !.shape = ~@]
    /\ UNCHANGED <<git, main, tip, pr, converged, reviewed, attempts, job, theirs, owing, told, n>>

-----------------------------------------------------------------------------
(* The engine.                                                             *)

\* is_repair_shape.
IsRepairShape == row.done /\ row.shape

\* build_fence_snapshot: what the row says of tier and approval, under the lock.
BuildFenceSnapshot == [tier |-> row.tier, clean |-> row.clean, approved |-> row.approved]

\* act_repairs of both recipes: the latches of a row that is not repairable
\* are swept; one job, and the changelog's recipe goes first.
ActRepairs ==
    /\ job = None
    /\ LET swept == IF IsRepairShape THEN attempts ELSE [s \in Specs |-> 0]
           free == {s \in Specs : swept[s] < MaxAttempts}
           s == IF "changelog" \in free THEN "changelog" ELSE "mechanical"
       IN IF IsRepairShape /\ free # {}
          THEN /\ Tick("jobs", MaxJobs)
               /\ attempts' = [swept EXCEPT ![s] = @ + 1]
               /\ job' = [spec |-> s, pc |-> "fetch", fence |-> BuildFenceSnapshot,
                          expected |-> 0, onto |-> 0, new |-> 0, disarmed |-> FALSE, pushed |-> FALSE]
               /\ told' = (told /\ owing)
          ELSE /\ attempts' = swept /\ swept # attempts
               /\ UNCHANGED <<job, told, n>>
    /\ UNCHANGED <<git, main, tip, pr, row, converged, reviewed, theirs, owing>>

Step(pc) == job # None /\ job.pc = pc

\* A stop that will be tried again goes unreported.
ParkQuietly(transient) ==
    /\ job' = None /\ told' = ~transient
    /\ attempts' = IF transient THEN attempts ELSE [attempts EXCEPT ![job.spec] = MaxAttempts]
\* _park: a stop is reported; one that is not transient ends the attempts.
Park(transient) ==
    /\ job' = None /\ told' = TRUE
    /\ attempts' = IF transient THEN attempts ELSE [attempts EXCEPT ![job.spec] = MaxAttempts]

\* _fetch_and_resolve: the branch and the default branch as origin has them.
FetchAndResolve ==
    /\ Step("fetch")
    /\ \/ Park(TRUE)
       \/ /\ job' = [job EXCEPT !.pc = "examine", !.expected = tip, !.onto = main]
          /\ UNCHANGED <<told, attempts>>
    /\ UNCHANGED <<git, main, tip, pr, row, converged, reviewed, theirs, owing, n>>

\* _read_head: the PR is open at the head that was fetched.
ReadHead == pr.open /\ tip = job.expected
\* _check_changelog_only, _check_conflicts: the conflicts are the recipe's own.
InScope(m) == ConflictSet(m, job.expected) = {job.spec}

\* prepare_repair: the head is read and the conflicts derived from the fetched
\* commits.
PrepareRepair ==
    /\ Step("examine")
    /\ \/ ~(ReadHead /\ InScope(job.onto)) /\ Park(FALSE)
       \/ /\ ReadHead /\ InScope(job.onto)
          /\ job' = [job EXCEPT !.pc = "scratch"]
          /\ UNCHANGED <<told, attempts>>
    /\ UNCHANGED <<git, main, tip, pr, row, converged, reviewed, theirs, owing, n>>

\* scratch_worktree: a worktree that cannot be made is tried again.
ScratchWorktree ==
    /\ Step("scratch")
    /\ \/ Park(TRUE)
       \/ job' = [job EXCEPT !.pc = "rewrite"] /\ UNCHANGED <<told, attempts>>
    /\ UNCHANGED <<git, main, tip, pr, row, converged, reviewed, theirs, owing, n>>

\* _rebase_onto: the work of the branch replayed on the default branch, a new
\* commit that the old head is not an ancestor of.
Rebased(m) == Commit(<<m>>, Work(git, job.expected) \ Work(git, m), "none")
\* _start_merge and the declared command: a merge of the default branch, and
\* whatever the command wrote outside the declared paths.
MergedIn(m, stray) == Commit(<<job.expected, m>>, stray, "none")
\* _verify_non_changelog_identical, verify_outside_scope_identical.
VerifyIdentical(c, m) ==
    c.adds \cup Work(git, m) \cup (IF job.spec = "mechanical" THEN Work(git, job.expected) ELSE {})
      = Work(git, job.expected) \cup Work(git, m)

\* The rewrite on the default branch as the clone has it by then; its gates and
\* commands may stop it.
Rewritten(c, m) ==
    /\ InScope(m) /\ VerifyIdentical(c, m)
    /\ git' = Append(git, c)
    /\ job' = [job EXCEPT !.pc = "disarm", !.new = Len(git'), !.onto = m]
    /\ UNCHANGED <<told, attempts>>
RewriteChangelog(m) == job.spec = "changelog" /\ Rewritten(Rebased(m), m)
RewriteMechanical(m) ==
    /\ job.spec = "mechanical"
    /\ \E stray \in {{}, {Len(git) + 1}} : Rewritten(MergedIn(m, stray), m)
Rewrite ==
    /\ Step("rewrite") /\ Len(git) < MaxCommits
    /\ \/ Park(FALSE) /\ UNCHANGED git
       \/ \E m \in {job.onto, main} : RewriteChangelog(m) \/ RewriteMechanical(m)
    /\ UNCHANGED <<main, tip, pr, row, converged, reviewed, theirs, owing, n>>

Unarmed == [pr EXCEPT !.armed = FALSE, !.by = 0, !.fence = None]

\* _disarm_before_push: the head is read again; a disarm that cannot be
\* verified stops the repair with nothing pushed.
DisarmBeforePush ==
    /\ Step("disarm")
    /\ \/ ~ReadHead /\ Park(FALSE) /\ UNCHANGED <<pr, owing>>
       \/ /\ ReadHead /\ ~pr.armed
          /\ job' = [job EXCEPT !.pc = "push"]
          /\ UNCHANGED <<pr, owing, told, attempts>>
       \/ /\ ReadHead /\ pr.armed
          /\ pr' = Unarmed /\ owing' = TRUE
          /\ \/ job' = [job EXCEPT !.pc = "push", !.disarmed = TRUE] /\ told' = FALSE /\ UNCHANGED attempts
             \/ Park(TRUE)
       \/ /\ ReadHead /\ pr.armed
          /\ Park(TRUE) /\ UNCHANGED <<pr, owing>>
    /\ UNCHANGED <<git, main, tip, row, converged, reviewed, theirs, n>>

\* A force-push that asks nothing of origin.
PushAnyway == TRUE
\* _push_with_lease: origin takes the push while its tip is the head examined.
LeaseHolds == tip = job.expected

\* The push; one that timed out may have landed, and is reported as unknown.
PushWithLease ==
    /\ Step("push")
    /\ \/ /\ LeaseHolds /\ tip' = job.new
          /\ job' = [job EXCEPT !.pc = "finish", !.pushed = TRUE]
          /\ attempts' = [attempts EXCEPT ![job.spec] = MaxAttempts]
          /\ UNCHANGED told
       \/ /\ ~LeaseHolds /\ Park(TRUE) /\ UNCHANGED tip
       \/ /\ tip' \in {tip} \cup (IF LeaseHolds THEN {job.new} ELSE {})
          /\ Park(FALSE)
    /\ UNCHANGED <<git, main, pr, row, converged, reviewed, theirs, owing, n>>

Since(a, c) == Ancestors(git)[c] \ Ancestors(git)[a]
\* _new_non_merge_work: none since the approval but the default branch's own.
NoNewWork(a, c, m) == \A x \in Since(a, c) \ Ancestors(git)[m] : Len(git[x].parents) = 2
\* _merge_parents_on_default: what every merge since brought in is on m.
MergeParentsOnDefault(a, c, m) ==
    \A x \in Since(a, c) : Len(git[x].parents) = 2 => IsAncestor(git, git[x].parents[2], m)

\* The approval still covers a head that descends from the approved one,
\* whatever came in between.
AncestorOnly(a, c, m) == IsAncestor(git, a, c)
\* _approval_ancestry.
ApprovalCovers(a, c, m) ==
    IsAncestor(git, a, c) /\ NoNewWork(a, c, m) /\ MergeParentsOnDefault(a, c, m)

\* _check_approval: a small ticket needs none; an unresolved tier never passes.
CheckApproval(f, c, m) ==
    f.tier = "small" \/ (f.tier = "large" /\ f.approved # 0 /\ ApprovalCovers(f.approved, c, m))

\* evaluate_repair_fence: in clean mode the ledger has converged at the very
\* head, and origin has it; an unreadable tip does not pass.
EvaluateFence(f, c, m, originTip) ==
    CheckApproval(f, c, m) /\ (f.clean => converged = c /\ originTip = c)

\* _finish_steps to the verdict: the pin and the action are recorded, origin's
\* tip is read, and the fence evaluated against the default branch as the
\* clone last fetched it.  Any exception ends in the same
\* disarm as a fence that does not pass.
FinishSteps ==
    /\ Step("finish")
    /\ \E originTip \in {0, tip}, raised \in BOOLEAN, m \in {job.onto, main} :
         job' = [job EXCEPT !.pc = IF ~raised /\ EvaluateFence(job.fence, job.new, m, originTip)
                                   THEN "arm" ELSE "unarm"]
    /\ UNCHANGED <<git, main, tip, pr, row, converged, reviewed, attempts, theirs, owing, told, n>>

\* _arm: the script arms the head it is given, or fails; a client whose
\* configuration forbids it is left as it is.
ArmHead ==
    /\ Step("arm")
    /\ \/ /\ pr.open /\ tip = job.new
          /\ pr' = [pr EXCEPT !.armed = TRUE, !.by = job.new, !.fence = job.fence] /\ owing' = FALSE
          /\ job' = None /\ told' = TRUE
       \/ job' = None /\ told' = TRUE /\ UNCHANGED <<pr, owing>>
       \/ job' = [job EXCEPT !.pc = "unarm"] /\ UNCHANGED <<pr, owing, told>>
    /\ UNCHANGED <<git, main, tip, row, converged, reviewed, attempts, theirs, n>>

\* _leave_unarmed, and the disarm after an arm or a step that failed: the PR is
\* verified unarmed, or the report says that it may still be armed.
LeaveUnarmed ==
    /\ Step("unarm")
    /\ \/ pr' = Unarmed /\ owing' = (owing \/ pr.armed)
       \/ UNCHANGED <<pr, owing>>
    /\ Park(FALSE)
    /\ UNCHANGED <<git, main, tip, row, converged, reviewed, theirs, n>>

\* The daemon dies; the latches were in memory.  A disarm that nobody can
\* report any more is the crash's.
Crash ==
    /\ Tick("crashes", MaxCrashes)
    /\ job' = None /\ attempts' = [s \in Specs |-> 0]
    /\ owing' = (owing /\ (job = None \/ ~job.disarmed))
    /\ UNCHANGED <<git, main, tip, pr, row, converged, reviewed, theirs, told>>

Next ==
    \/ DefaultBranchMoves \/ BranchMoves \/ OtherBranchMergedIn
    \/ ArmByHand \/ DisarmByHand \/ AutoMerge \/ Approve \/ RowMoves \/ Hydrate
    \/ ActRepairs \/ FetchAndResolve \/ PrepareRepair \/ ScratchWorktree \/ Rewrite
    \/ DisarmBeforePush \/ PushWithLease \/ FinishSteps \/ ArmHead \/ LeaveUnarmed \/ Crash

Spec == Init /\ [][Next]_vars

-----------------------------------------------------------------------------

\* A repair arms a large ticket's PR only at a head all of whose work outside
\* the default branch some review approved, and in clean mode only at a head
\* whose own review converged (evaluate_repair_fence before _arm).
UnreviewedHeld ==
    pr.by # 0 =>
      /\ pr.fence.tier = "large" =>
           \E a \in reviewed : Work(git, pr.by) \ Work(git, main) \subseteq Work(git, a)
      /\ pr.fence.clean => pr.by \in reviewed
      /\ pr.fence.tier # "none"

\* No force-push of a repair drops work that others pushed to the branch,
\* however late they pushed it (_push_with_lease, _verify_identical).
WorkKept == pr.open => theirs \subseteq Work(git, tip)

\* Auto-merge that a repair took away is back, or the repair is still running,
\* or it has ended with a report (_park, _emit_unarmed_attention).
DisarmRemembered == owing => job # None \/ told

=============================================================================
