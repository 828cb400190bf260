------------------------------ MODULE FixLoop ------------------------------
(***************************************************************************)
(* The codex fix loop (codex_fix_loop/) and the review passes it is built   *)
(* of (codex_review/).  A run reviews the whole branch diff with every      *)
(* reviewer role, and while MUST_FIX findings stay open it lets codex edit  *)
(* the worktree, measures the edits against the cycle's clean start, fences *)
(* them, commits, pushes, and re-reviews only the delta.  The loop shares   *)
(* the worktree with the operator, with commit hooks and with whatever an   *)
(* earlier run left behind, and the remote branch with everybody.           *)
(*                                                                         *)
(* A path is a model value.  A commit carries the paths it changed and the  *)
(* paths that differ from the default branch after it; the text of a diff,  *)
(* of a finding and of a report is left out.                                *)
(***************************************************************************)
EXTENDS Integers, Sequences, FiniteSets, SequencesExt, FiniteSetsExt

CONSTANTS
    Paths,          \* files of the worktree
    Cycle0,         \* files the implementation commit changed
    Planned,        \* the plan's Files Modified manifest; {} when unparseable
    Sensitive,      \* files of the sensitive-files registry
    Artifacts,      \* files the review step itself writes in the worktree
    Roles,          \* reviewer roles of a pass
    Findings,       \* keys of MUST_FIX findings
    Contests,       \* the findings that contest a decided constraint
    FileOf,         \* the file a finding names
    Budget,         \* net lines a cycle may add per open finding
    LoopBudget,     \* net lines the loop may add per original finding
    MaxGrowth,      \* lines of growth the divergence guard tolerates
    StallCycles,    \* cycles without progress before the loop diverges
    MaxFixCycles,   \* _MAX_FIX_CYCLES
    MaxLines,       \* bound: lines one invocation adds
    MaxRuns,        \* bound: review runs
    MaxHands,       \* bound: operator edits, foreign pushes
    MaxFaults       \* bound: crashes

FixLoopAssumption ==
    /\ Cycle0 \subseteq Paths /\ Planned \subseteq Paths
    /\ Sensitive \subseteq Paths /\ Artifacts \subseteq Paths
    /\ Contests \subseteq Findings /\ FileOf \in [Findings -> Paths]
    /\ {Budget, LoopBudget, MaxGrowth, MaxFixCycles, MaxLines} \subseteq Nat
    /\ {StallCycles, MaxRuns, MaxHands, MaxFaults} \subseteq Nat

VARIABLES
    branch,     \* the local branch, a sequence of commits
    origin,     \* the remote branch: commits of ours it holds, a foreign one
    wt,         \* uncommitted state of the worktree
    s,          \* the running review session
    unread,     \* commit, role, late: changes no completed pass of a role read
    runs, hands, faults

vars == <<branch, origin, wt, s, unread, runs, hands, faults>>

Tip == Len(branch)

\* Paths that differ from the default branch at HEAD.
Net == branch[Tip].net

Commit(files, net, lines, by) ==
    [files |-> files, net |-> net, lines |-> lines, by |-> by,
     measured |-> files, stale |-> {}, scope |-> Paths]

\* An uncommitted state: the edited paths, the paths that then differ from
\* the default branch, the net source lines, what a guard would flag, an
\* unfinished merge.
CleanTree(net) ==
    [edited |-> {}, net |-> net, lines |-> 0, flag |-> "none", merging |-> FALSE]

Idle(reason) ==
    [pc |-> "done", reason |-> reason, cycle |-> 0, base |-> 0, art |-> {},
     stale |-> {}, touched |-> {}, open |-> {}, orig |-> {}, files0 |-> {},
     reviewed |-> 0, start |-> 0, gap0 |-> FALSE, gap |-> FALSE, streak |-> 0]

Init ==
    /\ branch = <<Commit(Cycle0, Cycle0, 0, "impl")>>
    /\ origin = [n |-> 1, foreign |-> FALSE]
    /\ wt = CleanTree(Cycle0)
    /\ s = Idle("queued")
    /\ unread = {}
    /\ runs = 0 /\ hands = 0 /\ faults = 0

----------------------------------------------------------------------------
\* Review passes.

\* What the roles made of a pass: documents for every shard (ok), a document
\* that says the role failed, or a shard without a document.  A pass over
\* the prompt limit is sharded.
Outcomes == [of : [Roles -> {"ok", "failed", "error"}], sharded : BOOLEAN]

FailedRoles(out) == {r \in Roles : out.of[r] # "ok"}
Failures(out) == \E r \in Roles : out.of[r] = "error"
Degraded(out) == \E r \in Roles : out.of[r] = "failed"
Documents(out) == out.sharded \/ \E r \in Roles : out.of[r] # "error"
Read(out) == out.sharded \/ \E r \in Roles : out.of[r] = "ok"

\* A finding comes from a document.
Raises(out, raised) == Documents(out) /\ (raised # {} => Read(out))

Blocking(raised) == raised \ Contests
Contested(raised) == raised \cap Contests # {}

\* synthesize_codex_review_result, for a pass that wrote a document: whether
\* the result blocks, exits for human review or is clean.  A pass is spoiled
\* by findings that were rejected mechanically or discarded, and by a scope
\* tier that cannot be resolved.
VerdictBlocks(out, raised, spoiled) == raised # {} \/ spoiled \/ Failures(out)

EmptyDiff == Net = {}

Synthesize(out, raised, spoiled) ==
    IF VerdictBlocks(out, raised, spoiled) \/ EmptyDiff THEN "blocked"
    ELSE IF Degraded(out) THEN "human_review" ELSE "clean"

Unblocked(reason) == reason # "blocked"

Reads(lo, out) ==
    LET span == (lo + 1)..Tip IN
    unread' = {u \in unread : u[1] \notin span}
                \cup (span \X FailedRoles(out) \X {lo > 0 /\ ~out.sharded})

\* A run ends with its verdict written in the worktree, where uncommitted
\* edits stay.
LeftBehind(w) ==
    [w EXCEPT !.edited = @ \cup Artifacts, !.lines = 0, !.flag = "none"]

Park == s' = Idle("blocked") /\ wt' = LeftBehind(wt)

\* The convergence ledger may stop the ticket on a round with findings.
LedgerPark == Park

\* A result without a blocker has the unpushed-exit guard still to pass.
Leave(reason) ==
    IF Unblocked(reason)
    THEN s' = [Idle(reason) EXCEPT !.pc = "guard"] /\ UNCHANGED wt
    ELSE Park

Keep == UNCHANGED <<runs, hands, faults>>

\* A run starts on whatever the worktree and the branch hold.  Its first
\* pass reads the whole diff, so what it finds committed counts as one
\* commit.
StartReview ==
    /\ s.pc = "done" /\ s.reason # "clean"
    /\ runs < MaxRuns
    /\ s' = [Idle("running") EXCEPT !.pc = "review"]
    /\ branch' = <<Commit(Net, Net, 0, "impl")>>
    /\ origin' = [origin EXCEPT !.n = IF @ = Tip THEN 1 ELSE 0]
    /\ unread' = {}
    /\ runs' = runs + 1
    /\ UNCHANGED <<wt, hands, faults>>

\* Seeds are the findings of a dirty confirm round; they join a verdict that
\* blocks on its own findings or on nothing.
Seeded(raised, reason, seeds) ==
    IF Blocking(raised) # {} \/ Unblocked(reason) THEN seeds ELSE {}

\* What the loop remembers of its start.
EnterLoop(open, gap0) ==
    s' = [s EXCEPT !.pc = "cycle", !.cycle = 1, !.open = open, !.orig = open,
                   !.files0 = Net, !.reviewed = Tip, !.start = Tip,
                   !.gap0 = gap0]

\* The first pass reviews the whole diff.
CycleZero ==
    /\ s.pc = "review"
    /\ \E out \in Outcomes, raised \in SUBSET Findings, seeds \in SUBSET (Findings \ Contests),
          spoiled \in BOOLEAN :
          LET reason == Synthesize(out, raised, spoiled)
              open == Blocking(raised) \cup Seeded(raised, reason, seeds)
          IN  /\ Raises(out, raised)
              /\ Reads(0, out)
              /\ \/ /\ open = {} \/ Contested(raised)
                    /\ Leave(reason)
                 \/ /\ open # {} /\ ~Contested(raised)
                    /\ EnterLoop(open, FailedRoles(out) # {})
                    /\ UNCHANGED wt
                 \/ /\ open # {} /\ ~Contested(raised)
                    /\ LedgerPark
    /\ Keep /\ UNCHANGED <<branch, origin>>

\* A pass that wrote no document, or whose prompt cannot be sharded.
PassFails ==
    /\ s.pc \in {"review", "rereview"}
    /\ Park
    /\ Keep /\ UNCHANGED <<branch, origin, unread>>

----------------------------------------------------------------------------
\* One fix cycle.

BudgetPark ==
    /\ s.pc = "cycle"
    /\ Park
    /\ Keep /\ UNCHANGED <<branch, origin, unread>>

Dirty == wt.merging \/ wt.edited \ Artifacts # {}

CaptureCycleBaseline ==
    s' = [s EXCEPT !.pc = "invoke", !.base = Tip, !.art = wt.edited \cap Artifacts,
                   !.stale = wt.edited \ Artifacts]

BeginCycle ==
    /\ s.pc = "cycle"
    /\ IF Dirty THEN Park ELSE CaptureCycleBaseline /\ UNCHANGED wt
    /\ Keep /\ UNCHANGED <<branch, origin, unread>>

\* What an invocation may do to the worktree: edit paths, some of them back
\* to the default branch's content.
Edits ==
    {[wt EXCEPT !.edited = @ \cup e, !.net = (@ \cup e) \ back, !.lines = l, !.flag = f] :
        e \in SUBSET (Paths \ Artifacts), back \in SUBSET Cycle0,
        l \in 0..MaxLines, f \in {"none", "addition", "constraint"}}

Plausible(w) ==
    /\ (w.lines > 0 \/ w.flag # "none") => w.edited \cap w.net # {}
    /\ w.net \ w.edited = wt.net \ w.edited

\* The invocation fails or times out, its edits left where they are.
InvokeFails ==
    /\ s.pc = "invoke"
    /\ \E w \in Edits :
          Plausible(w) /\ w.flag = "none" /\ w.lines = 0 /\ wt' = LeftBehind(w)
    /\ s' = Idle("blocked")
    /\ Keep /\ UNCHANGED <<branch, origin, unread>>

Invoke ==
    /\ s.pc = "invoke"
    /\ \E w \in Edits : Plausible(w) /\ wt' = w
    /\ s' = [s EXCEPT !.pc = "measure"]
    /\ Keep /\ UNCHANGED <<branch, origin, unread>>

\* The invocation commits its change itself.
InvokeCommits ==
    /\ s.pc = "measure" /\ s.base = Tip
    /\ wt.edited \ Artifacts # {}
    /\ branch' = Append(branch, Commit(wt.edited \ Artifacts, wt.net, wt.lines, "codex"))
    /\ wt' = [CleanTree(wt.net) EXCEPT !.edited = wt.edited \cap Artifacts]
    /\ Keep /\ UNCHANGED <<origin, s, unread>>

\* git add -A, the review artifacts unstaged.
Staged == wt.edited \ s.art

FilesSince(i) == UNION {branch[j].files : j \in (i + 1)..Tip}
LinesSince(i) == FoldSeq(LAMBDA c, n : c.lines + n, 0, SubSeq(branch, i + 1, Tip))

\* Paths that differ from the tree the cycle began with.
CycleTouchedPaths == FilesSince(s.base) \cup Staged

ScopeViolation(touched) == (touched \ s.files0) \cap Sensitive # {}

RevertBreach ==
    LET unnamed == (Net \ wt.net) \ {FileOf[f] : f \in s.open}
    IN  \/ Net # {} /\ wt.net = {}
        \/ 2 * Cardinality(unnamed) > Cardinality(Net)

ScopeBreach(touched) ==
    Planned # {} /\ ~((wt.net \cap touched) \subseteq (Planned \cup s.files0))

AdditionFlagged == wt.flag = "addition"
ConstraintBreach == wt.flag = "constraint"

EffectiveBudget(lines, n) == lines * (IF n = 0 THEN 1 ELSE n)

GrowthBreach ==
    LET cycleNet == wt.lines + LinesSince(s.base)
    IN  /\ Planned # {}
        /\ \/ wt.flag = "addition"
           \/ cycleNet > EffectiveBudget(Budget, Cardinality(s.open))
           \/ /\ cycleNet > 0
              /\ wt.lines + LinesSince(s.start) > EffectiveBudget(LoopBudget, Cardinality(s.orig))

\* The fences look at nothing when the cycle touched nothing; the growth and
\* constraint guards look at the diff, which is then empty.
CycleBreach(touched) ==
    \/ ScopeViolation(touched)
    \/ touched # {} /\ (RevertBreach \/ ScopeBreach(touched))
    \/ GrowthBreach
    \/ ConstraintBreach

Measure ==
    /\ s.pc = "measure"
    /\ IF CycleBreach(CycleTouchedPaths)
       THEN Park
       ELSE s' = [s EXCEPT !.pc = "commit", !.touched = CycleTouchedPaths] /\ UNCHANGED wt
    /\ Keep /\ UNCHANGED <<branch, origin, unread>>

\* A commit of what is staged, and of what a hook rewrote meanwhile.
GitCommit(by, hooked) ==
    /\ branch' = Append(branch,
          [Commit(Staged \cup hooked, wt.net \cup hooked, wt.lines, by) EXCEPT
              !.measured = s.touched, !.scope = s.files0,
              !.stale = s.stale \cap Staged])
    /\ wt' = [CleanTree(wt.net \cup hooked) EXCEPT !.edited = wt.edited \cap s.art]
    /\ s' = [s EXCEPT !.pc = "push"]

StagedSetUnchecked == Staged = {} /\ s.touched # {}
StagedSetMismatch == Staged # s.touched

\* _commit_fix_cycle: the staged set must be the measured set.  A failed
\* commit is retried once over whatever the hook left in the worktree.
CommitFixCycle ==
    /\ s.pc = "commit"
    /\ \/ StagedSetMismatch /\ Park /\ UNCHANGED branch
       \/ /\ ~StagedSetMismatch /\ Staged = {}
          /\ s' = [s EXCEPT !.pc = "rereview"] /\ UNCHANGED <<branch, wt>>
       \/ ~StagedSetMismatch /\ Staged # {} /\ GitCommit("fix", {})
       \/ /\ ~StagedSetMismatch /\ Staged # {}
          /\ \E hooked \in SUBSET (Paths \ Artifacts) :
                Cardinality(hooked) <= 1 /\ GitCommit("hook", hooked)
       \/ ~StagedSetMismatch /\ Staged # {} /\ Park /\ UNCHANGED branch
    /\ Keep /\ UNCHANGED <<origin, unread>>

\* push_and_verify_head: the push may fail, and a branch somebody else moved
\* refuses it.
Push ==
    /\ s.pc = "push"
    /\ \/ /\ ~origin.foreign
          /\ origin' = [origin EXCEPT !.n = Tip]
          /\ s' = [s EXCEPT !.pc = "rereview"] /\ UNCHANGED wt
       \/ Park /\ UNCHANGED origin
    /\ Keep /\ UNCHANGED <<branch, unread>>

----------------------------------------------------------------------------
\* The re-review of a cycle's delta and the ways out of the loop.

\* DeltaGap.fold: only a sharded re-review leaves a gap behind.
FoldForgets(out) == out.sharded /\ FailedRoles(out) # {}
Fold(out) == s.gap \/ (out.sharded /\ FailedRoles(out) # {})

\* A finding that was open stays open when it is raised again; a new one is
\* admitted when it lies in the delta, or with evidence of its impact.
TrackOpen(raised, evidence) ==
    {f \in Blocking(raised) :
        f \in s.open \/ FileOf[f] \in FilesSince(s.reviewed) \/ f \in evidence}

FixLines == FoldSeq(LAMBDA c, n : c.lines + n, 0,
                    SelectSeq(SubSeq(branch, s.start + 1, Tip), LAMBDA c : c.by # "codex"))

RecordDivergence(open) ==
    IF (s.open \cap s.orig) \ open = {} THEN s.streak + 1 ELSE 0

IsDiverging(streak) == streak >= StallCycles /\ FixLines > MaxGrowth

\* A result without a blocker is refused over an unread part of the diff.
CleanExit(reason, gap) ==
    IF Unblocked(reason) /\ (s.gap0 \/ gap) THEN Park ELSE Leave(reason)

NextCycle(open, gap) ==
    /\ s' = [s EXCEPT !.pc = "cycle", !.cycle = @ + 1, !.open = open,
                      !.reviewed = Tip, !.gap = gap, !.touched = {}, !.art = {},
                      !.streak = RecordDivergence(open)]
    /\ UNCHANGED wt

Rereview ==
    /\ s.pc = "rereview"
    /\ \E out \in Outcomes, raised \in SUBSET Findings, evidence \in SUBSET Findings,
          spoiled \in BOOLEAN :
          LET open == TrackOpen(raised, evidence)
              stops == Contested(raised) \/ open = {}
          IN  /\ Raises(out, raised)
              /\ Reads(s.reviewed, out)
              /\ \/ Contested(raised) /\ Park
                 \/ /\ ~Contested(raised) /\ open = {}
                    /\ CleanExit(Synthesize(out, raised, spoiled), Fold(out))
                 \/ ~stops /\ LedgerPark
                 \/ /\ ~stops
                    /\ IsDiverging(RecordDivergence(open)) \/ s.cycle = MaxFixCycles
                    /\ Park
                 \/ /\ ~stops
                    /\ ~IsDiverging(RecordDivergence(open)) /\ s.cycle < MaxFixCycles
                    /\ NextCycle(open, Fold(out))
    /\ Keep /\ UNCHANGED <<branch, origin>>

\* _refuse_unpushed_clean_exit: the head is on origin, is pushed now, or the
\* result is refused.
UnpushedGuard ==
    /\ s.pc = "guard"
    /\ \/ /\ origin.n = Tip /\ ~origin.foreign
          /\ s' = [s EXCEPT !.pc = "done"]
          /\ wt' = LeftBehind(wt)
          /\ UNCHANGED origin
       \/ /\ origin.n # Tip /\ ~origin.foreign
          /\ origin' = [origin EXCEPT !.n = Tip]
          /\ s' = [s EXCEPT !.pc = "done"]
          /\ wt' = LeftBehind(wt)
       \/ /\ origin.n # Tip \/ origin.foreign
          /\ Park /\ UNCHANGED origin
    /\ Keep /\ UNCHANGED <<branch, unread>>

----------------------------------------------------------------------------
\* Others at work on the worktree and the branch.

\* The operator edits a file, whether or not a loop is running.
OperatorEdit(p) ==
    /\ hands < MaxHands
    /\ s.reason # "clean" /\ p \notin wt.edited
    /\ wt' = [wt EXCEPT !.edited = @ \cup {p}, !.net = @ \cup {p}]
    /\ hands' = hands + 1
    /\ UNCHANGED <<branch, origin, s, unread, runs, faults>>

OperatorMerge ==
    /\ hands < MaxHands
    /\ s.pc = "done" /\ s.reason # "clean" /\ ~wt.merging
    /\ wt' = [wt EXCEPT !.merging = TRUE]
    /\ hands' = hands + 1
    /\ UNCHANGED <<branch, origin, s, unread, runs, faults>>

OperatorReset ==
    /\ s.pc = "done" /\ s.reason = "blocked" /\ Dirty
    /\ wt' = [CleanTree(Net) EXCEPT !.edited = wt.edited \cap Artifacts]
    /\ UNCHANGED <<branch, origin, s, unread, runs, hands, faults>>

OperatorCommit ==
    /\ s.pc = "done" /\ s.reason = "blocked" /\ Dirty
    /\ branch' = Append(branch, Commit(wt.edited \ Artifacts, wt.net, wt.lines, "operator"))
    /\ wt' = [CleanTree(wt.net) EXCEPT !.edited = wt.edited \cap Artifacts]
    /\ UNCHANGED <<origin, s, unread, runs, hands, faults>>

ForeignPush ==
    /\ hands < MaxHands
    /\ s.reason # "clean" /\ ~origin.foreign
    /\ origin' = [origin EXCEPT !.foreign = TRUE]
    /\ hands' = hands + 1
    /\ UNCHANGED <<branch, wt, s, unread, runs, faults>>

OperatorPull ==
    /\ s.pc = "done" /\ s.reason = "blocked" /\ origin.foreign /\ ~Dirty
    /\ branch' = Append(branch, Commit({}, Net, 0, "operator"))
    /\ origin' = [n |-> Tip + 1, foreign |-> FALSE]
    /\ UNCHANGED <<wt, s, unread, runs, hands, faults>>

\* The host dies: nothing is parked, the worktree and the branch stay.
Crash ==
    /\ faults < MaxFaults /\ s.pc # "done"
    /\ s' = Idle("blocked")
    /\ faults' = faults + 1
    /\ UNCHANGED <<branch, origin, wt, unread, runs, hands>>

Next ==
    \/ StartReview \/ CycleZero \/ PassFails
    \/ BudgetPark \/ BeginCycle \/ InvokeFails \/ Invoke \/ InvokeCommits
    \/ Measure \/ CommitFixCycle \/ Push \/ Rereview \/ UnpushedGuard
    \/ \E p \in Paths \ Artifacts : OperatorEdit(p)
    \/ OperatorMerge \/ OperatorReset \/ OperatorCommit \/ ForeignPush \/ OperatorPull
    \/ Crash

Spec == Init /\ [][Next]_vars

----------------------------------------------------------------------------

\* A fix commit holds exactly the paths its cycle was measured to touch,
\* nothing that lay in the worktree before the cycle, and nothing outside
\* the fence that the cycle-0 diff and the plan set: what the operator edits
\* between the measurement and the commit, or what an earlier run left
\* behind, is never committed as codex's fix.
FixCommitsMeasured ==
    \A i \in 1..Tip : branch[i].by = "fix" =>
        LET c == branch[i] IN
        /\ c.files = c.measured /\ c.stale = {}
        /\ (c.files \ c.scope) \cap Sensitive = {}
        /\ Planned # {} => (c.files \cap c.net) \subseteq (Planned \cup c.scope)

\* A clean result stands for a head that is on origin, and every change on
\* the branch was read by every role, but for deltas of unsharded re-reviews
\* that blocked on another role's findings (DeltaGap.fold leaves those out).
CleanMeansRead ==
    s.pc = "done" /\ s.reason = "clean" =>
        /\ origin.n = Tip
        /\ \A u \in unread : u[3]
=============================================================================
