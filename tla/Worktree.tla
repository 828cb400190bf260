------------------------------ MODULE Worktree ------------------------------
(***************************************************************************)
(* The worktree of one ticket: dispatch creates it, or reuses it after a   *)
(* refresh, or removes it as stale; cw worktree gc removes it once its     *)
(* branch's PR is over; cw done --cleanup removes it with its session.     *)
(* Meanwhile whoever works in it writes, commits, switches and pushes.     *)
(*                                                                         *)
(* Commits are numbered and `parent` is the graph; 1 is the default        *)
(* branch's first.  A ref is a commit, or 0 where there is none.           *)
(***************************************************************************)
EXTENDS Naturals, Sequences

CONSTANTS
    None,
    Moves,         \* what a worker does to HEAD: "switch", "detach"
    Cleanup,       \* whether the operator runs cw done --cleanup
    MaxCommits,
    MaxWrites,     \* uncommitted writes
    MaxClaims,     \* claims of the ticket
    MaxSweeps,     \* runs of gc
    MaxRemote      \* changes on GitHub and fetches by hand

Branches == {"b", "o"}    \* the ticket's branch, and another one

WorktreeAssumption ==
    /\ Moves \subseteq {"switch", "detach"} /\ Cleanup \in BOOLEAN
    /\ {MaxCommits, MaxWrites, MaxClaims, MaxSweeps, MaxRemote} \subseteq Nat

VARIABLES
    parent,
    local,     \* refs/heads
    track,     \* refs/remotes/origin
    upstream,  \* what a branch was created to follow: "own", "main" or "none"
    main,      \* refs/remotes/origin of the default branch
    origin,    \* the branches on GitHub, and "main"
    pr,        \* the latest PR of each branch
    tree,      \* the directory, or None
    ses,       \* the session recorded as at home in it
    disp,      \* where the claim is
    gc,        \* where the sweep is
    pushed,    \* commits that have been on GitHub
    late,      \* commits made after a remover's last look
    lost,      \* a removal took uncommitted work that it could have seen
    n

vars == <<parent, local, track, upstream, main, origin, pr, tree, ses, disp, gc, pushed, late, lost, n>>
refs == <<local, track, upstream, main>>

-----------------------------------------------------------------------------

Ancestors(c) ==
    LET anc[x \in 0..Len(parent)] == IF x = 0 THEN {} ELSE {x} \cup anc[parent[x]] IN anc[c]
IsAncestor(a, c) == a \in Ancestors(c)
Ahead(c, base) == Ancestors(c) \ Ancestors(base)

Idle == [pc |-> "idle"]
Init ==
    /\ parent = <<0>>
    /\ local = [b \in Branches |-> 0] /\ track = local
    /\ upstream = [b \in Branches |-> "none"]
    /\ main = 1 /\ origin = [b |-> 0, o |-> 0, main |-> 1]
    /\ pr = [b \in Branches |-> ""]
    /\ tree = None /\ ses = "none" /\ disp = Idle /\ gc = Idle
    /\ pushed = {1} /\ late = {} /\ lost = FALSE
    /\ n = [writes |-> 0, claims |-> 0, sweeps |-> 0, remote |-> 0]

Tick(f, max) == n[f] < max /\ n' = [n EXCEPT ![f] = @ + 1]

On(b) == IF tree = None THEN FALSE ELSE tree.on = b
HeadOf(t) == IF t.on \in Branches THEN local[t.on] ELSE t.det
\* A remover has looked and is not done yet.
Looked == disp.pc = "remove" \/ gc.pc \in {"remove", "branch"}

-----------------------------------------------------------------------------
(* Whoever works in the tree, recorded as a session or not (external).     *)

Write ==
    /\ tree # None /\ tree.dirty = "no" /\ Tick("writes", MaxWrites)
    /\ tree' = [tree EXCEPT !.dirty = IF Looked THEN "late" ELSE "yes"]
    /\ UNCHANGED <<parent, refs, origin, pr, ses, disp, gc, pushed, late, lost>>

CommitWork ==
    /\ tree # None /\ tree.dirty # "no" /\ Len(parent) < MaxCommits
    /\ parent' = Append(parent, HeadOf(tree))
    /\ LET c == Len(parent) + 1 IN
       /\ late' = IF Looked THEN late \cup {c} ELSE late
       /\ IF tree.on \in Branches
          THEN local' = [local EXCEPT ![tree.on] = c] /\ tree' = [tree EXCEPT !.dirty = "no"]
          ELSE tree' = [tree EXCEPT !.dirty = "no", !.det = c] /\ UNCHANGED local
    /\ UNCHANGED <<track, upstream, main, origin, pr, ses, disp, gc, pushed, lost, n>>

\* To a branch, created at HEAD where there is none; or to no branch.
SwitchBranch == \E to \in Branches \ {tree.on} :
    /\ tree.on = "detached" => \E b \in Branches : IsAncestor(tree.det, local[b])
    /\ local' = [local EXCEPT ![to] = IF @ = 0 THEN HeadOf(tree) ELSE @]
    /\ tree' = [tree EXCEPT !.on = to]
DetachHead ==
    /\ tree' = [tree EXCEPT !.det = HeadOf(tree), !.on = "detached"]
    /\ UNCHANGED local
MoveHead ==
    /\ tree # None /\ tree.dirty = "no" /\ Tick("writes", MaxWrites)
    /\ \/ "switch" \in Moves /\ SwitchBranch
       \/ "detach" \in Moves /\ tree.on # "detached" /\ DetachHead
    /\ UNCHANGED <<parent, track, upstream, main, origin, pr, ses, disp, gc, pushed, late, lost>>

PushBranch ==
    /\ tree # None /\ tree.on \in Branches
    /\ LET b == tree.on IN
       /\ origin[b] # local[b] /\ (origin[b] = 0 \/ IsAncestor(origin[b], local[b]))
       /\ origin' = [origin EXCEPT ![b] = local[b]]
       /\ track' = [track EXCEPT ![b] = local[b]]
       /\ pushed' = pushed \cup Ancestors(local[b])
    /\ UNCHANGED <<parent, local, upstream, main, pr, tree, ses, disp, gc, late, lost, n>>

-----------------------------------------------------------------------------
(* GitHub, and a fetch by hand in any worktree of the clone (external).    *)

OthersPush ==
    /\ origin["b"] # 0 /\ Len(parent) < MaxCommits /\ Tick("remote", MaxRemote)
    /\ parent' = Append(parent, origin["b"])
    /\ origin' = [origin EXCEPT !["b"] = Len(parent')]
    /\ pushed' = pushed \cup {Len(parent')}
    /\ UNCHANGED <<refs, pr, tree, ses, disp, gc, late, lost>>

\* A PR is opened, closed or squash-merged; its branch may be deleted then.
PrMoves == \E b \in Branches :
    /\ Tick("remote", MaxRemote)
    /\ \/ origin[b] # 0 /\ pr[b] # "OPEN" /\ pr' = [pr EXCEPT ![b] = "OPEN"] /\ UNCHANGED <<parent, origin, pushed>>
       \/ pr[b] = "OPEN" /\ pr' = [pr EXCEPT ![b] = "CLOSED"] /\ UNCHANGED <<parent, origin, pushed>>
       \/ /\ pr[b] = "OPEN" /\ Len(parent) < MaxCommits
          /\ pr' = [pr EXCEPT ![b] = "MERGED"]
          /\ parent' = Append(parent, origin.main)
          /\ pushed' = pushed \cup {Len(parent')}
          /\ \E kept \in {0, origin[b]} : origin' = [origin EXCEPT !.main = Len(parent'), ![b] = kept]
    /\ UNCHANGED <<refs, tree, ses, disp, gc, late, lost>>

FetchPrune ==
    /\ <<track["b"], track["o"], main>> # <<origin.b, origin.o, origin.main>>
    /\ Tick("remote", MaxRemote)
    /\ track' = [b \in Branches |-> origin[b]] /\ main' = origin.main
    /\ UNCHANGED <<parent, local, upstream, origin, pr, tree, ses, disp, gc, pushed, late, lost>>

-----------------------------------------------------------------------------
(* What the removers look at.                                              *)

\* _unpushed_commits_detail: against the checked-out branch on origin, or
\* the first of its upstream and the default branch that resolves.  HEAD of
\* no branch is measured as the ticket's.
Unpushed ==
    LET b == IF tree.on \in Branches THEN tree.on ELSE "b"
        base == IF track[b] # 0 THEN track[b]
                ELSE IF tree.on \in Branches /\ upstream[b] = "own" THEN 0 ELSE main
    IN base = 0 \/ Ahead(HeadOf(tree), base) # {}
\* unsaved_work_reason.
UnsavedWork == tree # None /\ (tree.dirty # "no" \/ Unpushed)

\* gc's own _has_unpushed_commits: without a remote branch the upstream must
\* resolve, or the commits count as unpushed.
HasUnpushedCommits ==
    LET b == tree.on IN
    IF b \in Branches /\ track[b] # 0 THEN Ahead(local[b], track[b]) # {}
    ELSE b \notin Branches \/ upstream[b] # "main" \/ Ahead(local[b], main) # {}
\* _check_dirt, which may be unable to run.
CheckDirt(runs) == IF runs /\ tree # None /\ tree.dirty = "no" /\ ~HasUnpushedCommits THEN "CLEAN" ELSE "KEEP"

\* live_home_reason: a session at home, or a state or roster that cannot be read.
LiveHome(readable) == ses = "live" \/ ~readable

\* git worktree remove --force.
RemoveTree ==
    /\ lost' = (lost \/ (tree # None /\ tree.dirty = "yes"))
    /\ tree' = None

-----------------------------------------------------------------------------
(* create_worktree for a claim, and what follows it.                       *)

At(pc) == disp.pc = pc
Goto(pc) == disp' = [pc |-> pc]

\* The path is free, or holds the ticket's branch, or something else.
CreateWorktree ==
    /\ At("idle") /\ Tick("claims", MaxClaims)
    /\ Goto(IF tree = None THEN "add" ELSE IF On("b") THEN "occupied" ELSE "stale")
    /\ UNCHANGED <<parent, refs, origin, pr, tree, ses, gc, pushed, late, lost>>

\* A local branch is checked out; else origin's is fetched and followed; else a
\* new one starts at the default branch (_resolve_branch_start_point).
AddWorktree ==
    /\ At("add")
    /\ IF tree # None THEN UNCHANGED <<local, track, upstream, tree>> /\ Goto("idle")
       ELSE \E fetched \in BOOLEAN :
         /\ tree' = [on |-> "b", det |-> 0, dirty |-> "no"]
         /\ Goto("spawn")
         /\ IF local["b"] # 0 THEN UNCHANGED <<local, track, upstream>>
            ELSE /\ track' = IF fetched /\ origin["b"] # 0 THEN [track EXCEPT !["b"] = origin["b"]] ELSE track
                 /\ local' = [local EXCEPT !["b"] = IF track'["b"] # 0 THEN track'["b"] ELSE main]
                 /\ upstream' = [upstream EXCEPT !["b"] = IF track'["b"] # 0 THEN "own" ELSE "main"]
    /\ UNCHANGED <<parent, main, origin, pr, ses, gc, pushed, late, lost, n>>

\* _refresh_reused_worktree_steps: an occupant aborts the claim; unsaved work or
\* a branch that was switched leaves the tree as it is.
Occupied == \E readable \in BOOLEAN :
    /\ At("occupied")
    /\ Goto(IF LiveHome(readable) THEN "idle"
            ELSE IF ~On("b") \/ UnsavedWork THEN "spawn" ELSE "fetch")
    /\ UNCHANGED <<parent, refs, origin, pr, tree, ses, gc, pushed, late, lost, n>>

\* _refresh_from_tracking_ref: only a HEAD strictly behind is moved.
Relation(target) ==
    IF tree # None /\ HeadOf(tree) # target /\ IsAncestor(HeadOf(tree), target)
    THEN disp' = [pc |-> "check", target |-> target] ELSE Goto("spawn")
\* _handle_branch_absent: no branch on origin, so the base is what may be stale.
HandleBranchAbsent ==
    /\ origin["b"] = 0
    /\ main' = origin.main
    /\ IF tree = None \/ Ahead(HeadOf(tree), main') # {} THEN Goto("spawn") ELSE Relation(main')
    /\ UNCHANGED track
\* _fetch_gate: a failed fetch leaves the tree as it is.
FetchGate ==
    /\ At("fetch")
    /\ \/ Goto("spawn") /\ UNCHANGED <<track, main>>
       \/ /\ origin["b"] # 0 /\ track' = [track EXCEPT !["b"] = origin["b"]]
          /\ Relation(origin["b"]) /\ UNCHANGED main
       \/ HandleBranchAbsent
    /\ UNCHANGED <<parent, local, upstream, origin, pr, tree, ses, gc, pushed, late, lost, n>>

\* _ff_reused_worktree looks again before it merges; a switched branch is stale.
CheckAgain == \E readable \in BOOLEAN :
    /\ At("check")
    /\ \/ LiveHome(readable) /\ Goto("idle")
       \/ ~LiveHome(readable) /\ ~On("b") /\ Goto("stale")
       \/ ~LiveHome(readable) /\ On("b") /\ UnsavedWork /\ Goto("spawn")
       \/ /\ ~LiveHome(readable) /\ On("b") /\ ~UnsavedWork
          /\ disp' = [disp EXCEPT !.pc = "merge"]
    /\ UNCHANGED <<parent, refs, origin, pr, tree, ses, gc, pushed, late, lost, n>>

\* merge --ff-only, which refuses a HEAD that is not behind, or files in its way.
FastForward ==
    /\ At("merge")
    /\ \/ Goto("spawn") /\ UNCHANGED <<local, tree>>
       \/ /\ tree # None /\ IsAncestor(HeadOf(tree), disp.target)
          /\ IF tree.on \in Branches
             THEN local' = [local EXCEPT ![tree.on] = disp.target] /\ UNCHANGED tree
             ELSE tree' = [tree EXCEPT !.det = disp.target] /\ UNCHANGED local
          /\ Goto("sync")
    /\ UNCHANGED <<parent, track, upstream, main, origin, pr, ses, gc, pushed, late, lost, n>>

\* _sync_reused_submodules looks a third time.
SyncSubmodules == \E readable \in BOOLEAN :
    /\ At("sync")
    /\ Goto(IF LiveHome(readable) THEN "idle"
            ELSE IF ~On("b") THEN "stale" ELSE "spawn")
    /\ UNCHANGED <<parent, refs, origin, pr, tree, ses, gc, pushed, late, lost, n>>

\* The executor puts a session into the tree.
Spawn ==
    /\ At("spawn") /\ Goto("idle")
    /\ ses' = IF tree = None THEN ses ELSE "live"
    /\ UNCHANGED <<parent, refs, origin, pr, tree, gc, pushed, late, lost, n>>

\* _raise_if_stale_tree_occupied.
StaleOccupied == \E readable \in BOOLEAN :
    /\ At("stale")
    /\ Goto(IF LiveHome(readable) THEN "idle" ELSE "unsaved")
    /\ UNCHANGED <<parent, refs, origin, pr, tree, ses, gc, pushed, late, lost, n>>
\* A clean tree is one with nothing uncommitted, whatever its commits.
UncommittedOnly == tree # None /\ tree.dirty # "no"
\* The stale tree's unsaved work parks the row.
StaleUnsaved == UnsavedWork
StaleCheck ==
    /\ At("unsaved")
    /\ Goto(IF tree = None \/ StaleUnsaved THEN "idle" ELSE "remove")
    /\ UNCHANGED <<parent, refs, origin, pr, tree, ses, gc, pushed, late, lost, n>>
\* remove_worktree with force, best effort.
RemoveWorktree ==
    /\ At("remove") /\ Goto("idle")
    /\ RemoveTree \/ UNCHANGED <<tree, lost>>
    /\ UNCHANGED <<parent, refs, origin, pr, ses, gc, pushed, late, n>>

-----------------------------------------------------------------------------
(* cw worktree gc --apply, with or without --include-closed.               *)

\* _live_worktree_paths, where an unreadable state reads as no session, and
\* list_repo_worktrees.
GcSnapshot == \E readable \in BOOLEAN :
    /\ gc.pc = "idle" /\ tree # None /\ Tick("sweeps", MaxSweeps)
    /\ gc' = IF (readable /\ ses = "live") \/ tree.on \notin Branches THEN Idle
             ELSE [pc |-> "classify", branch |-> tree.on]
    /\ UNCHANGED <<parent, refs, origin, pr, tree, ses, disp, pushed, late, lost>>
\* classify_worktrees and _verdict_for_state.
GcClassify == \E closed, runs \in BOOLEAN :
    /\ gc.pc = "classify"
    /\ gc' = IF /\ pr[gc.branch] = "MERGED" \/ (closed /\ pr[gc.branch] = "CLOSED")
                /\ CheckDirt(runs) = "CLEAN"
             THEN [gc EXCEPT !.pc = "recheck"] ELSE Idle
    /\ UNCHANGED <<parent, refs, origin, pr, tree, ses, disp, pushed, late, lost, n>>

\* remove_worktree_gc looks again before it removes.
StillClean(runs) == CheckDirt(runs) = "CLEAN"
GcRecheck == \E runs \in BOOLEAN :
    /\ gc.pc = "recheck"
    /\ gc' = IF StillClean(runs) THEN [gc EXCEPT !.pc = "remove"] ELSE Idle
    /\ UNCHANGED <<parent, refs, origin, pr, tree, ses, disp, pushed, late, lost, n>>
GcRemove ==
    /\ gc.pc = "remove"
    /\ \/ gc' = [gc EXCEPT !.pc = "branch"] /\ RemoveTree
       \/ gc' = Idle /\ UNCHANGED <<tree, lost>>
    /\ UNCHANGED <<parent, refs, origin, pr, ses, disp, pushed, late, n>>
\* git branch -D refuses a branch that is checked out.
GcDeleteBranch ==
    /\ gc.pc = "branch" /\ gc' = Idle
    /\ local' = IF On(gc.branch) THEN local ELSE [local EXCEPT ![gc.branch] = 0]
    /\ UNCHANGED <<parent, track, upstream, main, origin, pr, tree, ses, disp, pushed, late, lost, n>>

-----------------------------------------------------------------------------
(* Sessions.                                                               *)

\* done_session --cleanup: git refuses a tree with changes, and then nothing
\* of the command happens.
DoneCleanup ==
    /\ Cleanup /\ ses = "live" /\ (IF tree = None THEN TRUE ELSE tree.dirty = "no")
    /\ ses' = "done" /\ RemoveTree
    /\ UNCHANGED <<parent, refs, origin, pr, disp, gc, pushed, late, n>>
\* A record that ends by any other way leaves the tree.
SessionEnds ==
    /\ ses = "live" /\ ses' = "done"
    /\ UNCHANGED <<parent, refs, origin, pr, tree, disp, gc, pushed, late, lost, n>>

Next ==
    \/ Write \/ CommitWork \/ MoveHead \/ PushBranch \/ OthersPush \/ PrMoves \/ FetchPrune
    \/ CreateWorktree \/ AddWorktree \/ Occupied \/ FetchGate \/ CheckAgain \/ FastForward
    \/ SyncSubmodules \/ Spawn \/ StaleOccupied \/ StaleCheck \/ RemoveWorktree
    \/ GcSnapshot \/ GcClassify \/ GcRecheck \/ GcRemove \/ GcDeleteBranch
    \/ DoneCleanup \/ SessionEnds

Spec == Init /\ [][Next]_vars

-----------------------------------------------------------------------------

\* Removing a worktree or its branch loses no work that was there when the
\* remover last looked: what is uncommitted is not removed, and every commit
\* is on a branch, in the tree or has been pushed (unsaved_work_reason before
\* remove_worktree, _check_dirt before git worktree remove and git branch -D).
WorkKept ==
    /\ ~lost
    /\ \A c \in DOMAIN parent :
         \/ c \in pushed \cup late
         \/ \E b \in Branches : IsAncestor(c, local[b])
         \/ tree # None /\ IsAncestor(c, HeadOf(tree))

=============================================================================
