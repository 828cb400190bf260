---------------------------- MODULE PullRequests ----------------------------
(***************************************************************************)
(* The pull requests of one ticket as the daemon sees them: the poll and   *)
(* the pushes that hydrate a row's pr_state, the review recipes and their  *)
(* one-shot latches, the signal for a shipped PR whose checks are red, the *)
(* recovery that disarms it, and the note that auto-merge is owed back.    *)
(*                                                                         *)
(* A row is one dispatch of the ticket (add-after-terminal makes a second  *)
(* one).  GitHub changes a PR at any time; the daemon reads it in one step *)
(* and writes what it read in a later one.  Times are a counter.           *)
(***************************************************************************)
EXTENDS Naturals, Sequences, FiniteSets

CONSTANTS
    None,
    MaxRows,        \* rows of the ticket
    MaxPrs,         \* pull requests its workers may open
    Loops,          \* dispatch loops (a second one is forced past the lock)
    Recipes,        \* the review recipes that are enabled
    Changes,        \* the kinds of change that GitHub sees
    Fails,          \* the sets of failing required checks, 0 for green
    MaxChanges,     \* changes on GitHub
    MaxPolls,       \* hydration passes
    MaxTime,        \* fires and alerts
    MaxScans,       \* scans for shipped PRs that are red
    MaxRecovers,    \* runs of recover-red-pr
    MaxMoves,       \* moves of rows by workers and operators
    MaxCrashes

Prs == 1..MaxPrs
Order == <<"address_review", "auto_fix_ci", "request_reviewer", "escalate_merge_block">>
AttentionOf == [address_review |-> "changes_requested", auto_fix_ci |-> "ci_failing",
                request_reviewer |-> "no_reviewer", escalate_merge_block |-> "merge_blocked"]
Terminal == {"MERGED", "CLOSED"}

PullRequestsAssumption ==
    /\ {MaxRows, MaxPrs, MaxChanges, MaxPolls, MaxTime, MaxScans, MaxRecovers,
        MaxMoves, MaxCrashes} \subseteq Nat
    /\ Recipes \subseteq DOMAIN AttentionOf
    /\ 0 \in Fails /\ Fails \subseteq Nat

VARIABLES
    pr,      \* the PRs on GitHub
    hooks,   \* webhook events that GitHub has sent and may still deliver
    rows,    \* the ticket's rows, oldest first
    poll,    \* what the hydration pass has read and not yet persisted
    loop,    \* per loop: the recipes detected, those still to act, the jobs
    scan,    \* the red-PR scan in flight
    rec,     \* the recovery in flight
    n,       \* the counters that the bounds cap
    acted,   \* how often each observed episode was acted on
    owing,   \* PRs a recovery disarmed and nobody armed or ended since
    told,    \* PRs whose disarm an operator was told of, or a crash forgot
    pages,   \* red-PR pages recorded
    torn     \* a crash parted an event from the write beside it

vars == <<pr, hooks, rows, poll, loop, scan, rec, n, acted, owing, told, pages, torn>>

-----------------------------------------------------------------------------
(* What hydration derives.                                                 *)

\* _compute_attention_state, a ladder.  Drafts and the two BLOCKED rows that
\* raise nothing are the "ready" end of it.
ComputeAttentionState(dirty, fails, dec, comment) ==
    IF dirty THEN "merge_blocked"
    ELSE IF fails # 0 THEN "ci_failing"
    ELSE IF comment \/ dec = "changes" THEN "changes_requested"
    ELSE IF dec = "needed" THEN "no_reviewer" ELSE "ready"

\* A blocking comment is not a review decision of GitHub's.
Decision(review) == IF review = "comment" THEN "" ELSE review

\* _derive_pr_state: a terminal PR has no attention state.
DerivePrState(p) ==
    LET g == pr[p] IN
    [of |-> p, st |-> g.st, dirty |-> g.dirty, fails |-> g.fails, dec |-> Decision(g.review),
     att |-> IF g.st \in Terminal THEN "none"
             ELSE ComputeAttentionState(g.dirty, g.fails, Decision(g.review), g.review = "comment")]

\* PrState() with its defaults, for a push that finds no earlier state.
DefaultState(p) == [of |-> p, st |-> "OPEN", dirty |-> FALSE, fails |-> 0, dec |-> "", att |-> "none"]

\* _overlay_push_observation: the pushed field over the state that is there.
\* A blocking comment is inferred from the attention it had caused.
OverlayPushObservation(old, h) ==
    LET base == IF old = None THEN DefaultState(h.of) ELSE old
        o == CASE h.kind = "merged" -> [base EXCEPT !.st = "MERGED"]
               [] h.kind = "ci_failed" -> [base EXCEPT !.fails = h.val]
               [] h.kind = "review" -> [base EXCEPT !.dec = h.val]
               [] h.kind = "mergeable" -> [base EXCEPT !.dirty = FALSE]
    IN [o EXCEPT !.of = h.of,
                 !.att = IF o.st \in Terminal THEN "none"
                         ELSE ComputeAttentionState(o.dirty, o.fails, o.dec,
                                base.att = "changes_requested" /\ base.dec # "changes")]

\* _is_candidate: hydrated while it names a PR that is not known to be over.
IsCandidate(r) == r.url # 0 /\ (r.obs = None \/ r.obs.st \notin Terminal)

Attention(r) == IF r.obs = None THEN "none" ELSE r.obs.att

\* clear_auto_merge_rearm_owed.
ClearRearmOwed(r) == [r EXCEPT !.owed = 0, !.paged = FALSE]

\* The write of apply_pr_state_observation on a row.  `ep` counts the episodes
\* of each recipe's attention state that the row has seen begin.
Observe(r, o) ==
    LET seen == [r EXCEPT !.obs = o,
                          !.ep = [x \in Recipes |-> IF o.att = AttentionOf[x] /\ Attention(r) # o.att
                                                    THEN @[x] + 1 ELSE @[x]]]
    IN IF o.st \in Terminal /\ r.owed = r.url THEN ClearRearmOwed(seen) ELSE seen

\* apply_pr_state_observation takes the first row of the client and ticket.
ApplyPrStateObservation(o) ==
    IF rows = <<>> THEN rows ELSE [rows EXCEPT ![1] = Observe(@, o)]

\* _newest_by_created_at and _find_ticket: a live row, a parked one, the newest.
Newest == Len(rows)
FindTicket ==
    LET of(s) == {r \in DOMAIN rows : rows[r].status = s}
        live == of("pending") \cup of("running")
        best == IF live # {} THEN live
                ELSE IF of("blocked") # {} THEN of("blocked") ELSE DOMAIN rows
    IN CHOOSE r \in best : \A q \in best : q <= r

NewRow == [url |-> 0, had |-> {}, obs |-> None, status |-> "running", stage |-> "impl",
           fired |-> [x \in Recipes |-> 0], ep |-> [x \in Recipes |-> 0],
           owed |-> 0, paged |-> FALSE, red |-> None]
NoPr == [st |-> "none", dirty |-> FALSE, fails |-> 0, review |-> "", armed |-> FALSE, head |-> 0]
Idle == [det |-> {}, todo |-> <<>>, jobs |-> <<>>]

Init ==
    /\ pr = [p \in Prs |-> NoPr]
    /\ hooks = {} /\ rows = <<NewRow>> /\ poll = <<>>
    /\ loop = [l \in Loops |-> Idle]
    /\ scan = None /\ rec = None
    /\ n = [changes |-> 0, polls |-> 0, time |-> 0, scans |-> 0, recovers |-> 0,
            moves |-> 0, crashes |-> 0]
    /\ acted = <<>> /\ owing = {} /\ told = {} /\ pages = {} /\ torn = FALSE

Tick(f, max) == n[f] < max /\ n' = [n EXCEPT ![f] = @ + 1]

-----------------------------------------------------------------------------
(* GitHub and the people on it (external).                                 *)

\* A change of an open PR; the relay may post the webhook it stands for.
Change(p, g, h) ==
    /\ pr[p].st = "OPEN" /\ g # pr[p] /\ Tick("changes", MaxChanges)
    /\ pr' = [pr EXCEPT ![p] = g]
    /\ hooks' = hooks \cup h
    /\ UNCHANGED <<rows, poll, loop, scan, rec, acted, told, pages, torn>>

Hook(p, kind, val) == {[of |-> p, kind |-> kind, val |-> val]}

Checks(p) == \E f \in Fails :
    /\ "checks" \in Changes
    /\ Change(p, [pr[p] EXCEPT !.fails = f], IF f = 0 THEN {} ELSE Hook(p, "ci_failed", f))
    /\ UNCHANGED owing
Review(p) == \E v \in {"", "changes", "needed", "comment"} :
    /\ "review" \in Changes
    /\ Change(p, [pr[p] EXCEPT !.review = v], Hook(p, "review", Decision(v)))
    /\ UNCHANGED owing
Conflict(p) ==
    /\ "conflict" \in Changes
    /\ Change(p, [pr[p] EXCEPT !.dirty = ~@], IF pr[p].dirty THEN Hook(p, "mergeable", "") ELSE {})
    /\ UNCHANGED owing
Push(p) ==
    /\ "push" \in Changes
    /\ Change(p, [pr[p] EXCEPT !.head = @ + 1], {})
    /\ UNCHANGED owing
Arm(p) ==
    /\ "arm" \in Changes
    /\ Change(p, [pr[p] EXCEPT !.armed = TRUE], {})
    /\ owing' = owing \ {p}
Merge(p) ==
    /\ "end" \in Changes
    /\ Change(p, [pr[p] EXCEPT !.st = "MERGED", !.armed = FALSE], Hook(p, "merged", ""))
    /\ owing' = owing \ {p}
Close(p) ==
    /\ "end" \in Changes
    /\ Change(p, [pr[p] EXCEPT !.st = "CLOSED", !.armed = FALSE], {})
    /\ owing' = owing \ {p}

Github == \E p \in Prs :
    Checks(p) \/ Review(p) \/ Conflict(p) \/ Push(p) \/ Arm(p) \/ Merge(p) \/ Close(p)

-----------------------------------------------------------------------------
(* Hydration.                                                              *)

\* hydrate_pr_states up to the persist: the candidates are read, one gh call
\* each, from a snapshot of the store; a failed read leaves a row out.
HydratePrStates ==
    /\ poll = <<>> /\ Tick("polls", MaxPolls)
    /\ \E failed \in SUBSET DOMAIN rows :
       LET cand == SelectSeq([i \in DOMAIN rows |-> i], LAMBDA i : IsCandidate(rows[i]) /\ i \notin failed)
           owed == SelectSeq([i \in DOMAIN rows |-> i],
                             LAMBDA i : rows[i].owed # 0 /\ rows[i].owed # rows[i].url)
       IN /\ cand \o owed # <<>>
          /\ poll' = [i \in DOMAIN cand |-> [owed |-> FALSE, url |-> rows[cand[i]].url,
                                             obs |-> DerivePrState(rows[cand[i]].url)]]
                  \o [i \in DOMAIN owed |-> [owed |-> TRUE, url |-> rows[owed[i]].owed, obs |-> None]]
    /\ UNCHANGED <<pr, hooks, rows, loop, scan, rec, acted, owing, told, pages, torn>>

\* _persist_and_emit, one row at a time, each under the queue lock.
PersistAndEmit ==
    /\ poll # <<>> /\ ~poll[1].owed
    /\ rows' = ApplyPrStateObservation(poll[1].obs)
    /\ poll' = Tail(poll)
    /\ UNCHANGED <<pr, hooks, loop, scan, rec, n, acted, owing, told, pages, torn>>

\* The PR that is owed an arm is read after them, and may be unreadable.
ReadOwed ==
    /\ poll # <<>> /\ poll[1].owed /\ poll[1].obs = None
    /\ \/ poll' = Tail(poll)
       \/ poll' = [poll EXCEPT ![1].obs = DerivePrState(poll[1].url)]
    /\ UNCHANGED <<pr, hooks, rows, loop, scan, rec, n, acted, owing, told, pages, torn>>

\* _persist_rearm_owed_pr_state: on the first row that still owes that PR.
PersistRearmOwed ==
    /\ poll # <<>> /\ poll[1].owed /\ poll[1].obs # None
    /\ LET owes == {r \in DOMAIN rows : rows[r].owed = poll[1].url}
           r == CHOOSE r \in owes : \A q \in owes : r <= q
       IN rows' = IF owes # {} /\ poll[1].obs.st \in Terminal
                  THEN [rows EXCEPT ![r] = ClearRearmOwed(@)] ELSE rows
    /\ poll' = Tail(poll)
    /\ UNCHANGED <<pr, hooks, loop, scan, rec, n, acted, owing, told, pages, torn>>

\* observe_pushed_event: a PR no row names is ignored; late, lost and
\* reordered deliveries are possible.
ObservePushedEvent(h) ==
    /\ hooks' = hooks \ {h}
    /\ rows' = IF \E r \in DOMAIN rows : rows[r].url = h.of
               THEN ApplyPrStateObservation(OverlayPushObservation(rows[1].obs, h)) ELSE rows
    /\ UNCHANGED <<pr, poll, loop, scan, rec, n, acted, owing, told, pages, torn>>

-----------------------------------------------------------------------------
(* The review recipes.                                                     *)

\* _detect_by_attention_state.
Detected(x) == \E r \in DOMAIN rows : IsCandidate(rows[r]) /\ Attention(rows[r]) = AttentionOf[x]

\* The detect phases of run_review_recipes read the store once, unlocked.
Detect(l) ==
    /\ loop[l] = Idle /\ Recipes # {}
    /\ loop' = [loop EXCEPT ![l] = [Idle EXCEPT !.todo = SelectSeq(Order, LAMBDA x : x \in Recipes),
                                                !.det = {x \in Recipes : Detected(x)}]]
    /\ UNCHANGED <<pr, hooks, rows, poll, scan, rec, n, acted, owing, told, pages, torn>>

\* Every latch re-armed, whether or not its episode has ended.
ClearAllEpisodes(x) == [r \in DOMAIN rows |-> [rows[r] EXCEPT !.fired[x] = 0]]
\* _clear_ended_episodes: a latch whose attention state is gone is re-armed.
ClearEndedEpisodes(x) ==
    [r \in DOMAIN rows |-> IF Attention(rows[r]) # AttentionOf[x]
                           THEN [rows[r] EXCEPT !.fired[x] = 0] ELSE rows[r]]

\* The prepare functions fire on the newest row, by what it holds under the
\* lock; `allowed` is the guards on the repository, the worktree and the client.
Fires(x, l, allowed) ==
    /\ x \in loop[l].det /\ allowed /\ rows # <<>>
    /\ Attention(rows[Newest]) = AttentionOf[x]
    /\ ClearEndedEpisodes(x)[Newest].fired[x] = 0
PrepareAddressReview(l, allowed) == Fires("address_review", l, allowed)
PrepareAutoFixCi(l, allowed) == Fires("auto_fix_ci", l, allowed)
PrepareRequestReviewer(l, allowed) == Fires("request_reviewer", l, allowed)

Job(x, at) == [recipe |-> x, row |-> Newest, ep |-> rows[Newest].ep[x], at |-> at,
               status |-> rows[Newest].status, refused |-> FALSE]
Acts(j) == acted' = Append(acted, <<j.recipe, j.row, j.ep>>)

\* The act of a recipe: ended episodes are re-armed, and the latch of a new
\* one is saved with them, all under the queue lock.
Passed(l, x) ==
    /\ rows' = ClearEndedEpisodes(x)
    /\ loop' = [loop EXCEPT ![l].todo = Tail(@)]
    /\ UNCHANGED <<n, acted>>
Latched(l, x) ==
    /\ Tick("time", MaxTime)
    /\ rows' = [ClearEndedEpisodes(x) EXCEPT ![Newest].fired[x] = n.time + 1]
Acting(l, x) == loop[l].todo # <<>> /\ Head(loop[l].todo) = x

\* The recipe leaves a job to be dispatched after the locks.
ActLater(l, x, fires) ==
    /\ Acting(l, x)
    /\ \/ ~fires /\ Passed(l, x)
       \/ /\ fires /\ Latched(l, x)
          /\ loop' = [loop EXCEPT ![l].todo = Tail(@), ![l].jobs = Append(@, Job(x, n.time + 1))]
          /\ UNCHANGED acted
    /\ UNCHANGED <<pr, hooks, poll, scan, rec, owing, told, pages, torn>>
ActAddressReview(l) == \E allowed \in BOOLEAN :
    ActLater(l, "address_review", PrepareAddressReview(l, allowed))
ActAutoFixCi(l) == \E allowed \in BOOLEAN :
    ActLater(l, "auto_fix_ci", PrepareAutoFixCi(l, allowed))
ActRequestReviewer(l) == \E allowed \in BOOLEAN :
    ActLater(l, "request_reviewer", PrepareRequestReviewer(l, allowed))

\* _act_escalate_merge_block: the event is the action.
ActEscalate(l) == LET x == "escalate_merge_block" IN
    /\ Acting(l, x)
    /\ \/ ~Fires(x, l, TRUE) /\ Passed(l, x)
       \/ /\ Fires(x, l, TRUE) /\ Latched(l, x)
          /\ Acts(Job(x, n.time + 1))
          /\ loop' = [loop EXCEPT ![l].todo = Tail(@)]
    /\ UNCHANGED <<pr, hooks, poll, scan, rec, owing, told, pages, torn>>

NextJob(l) == loop[l].todo = <<>> /\ loop[l].jobs # <<>>
DropJob(l) ==
    loop' = [loop EXCEPT ![l] = IF Len(@.jobs) = 1 THEN Idle ELSE [@ EXCEPT !.jobs = Tail(@)]]

\* A pass that fired nothing that is left to dispatch is over.
EndPass(l) ==
    /\ loop[l] # Idle /\ loop[l].todo = <<>> /\ loop[l].jobs = <<>>
    /\ loop' = [loop EXCEPT ![l] = Idle]
    /\ UNCHANGED <<pr, hooks, rows, poll, scan, rec, n, acted, owing, told, pages, torn>>

\* _dispatch_address_review and _dispatch_request_reviewer: a failure is an
\* event, and the latch stays.
DispatchOutside(l, x) ==
    /\ NextJob(l) /\ loop[l].jobs[1].recipe = x
    /\ Acts(loop[l].jobs[1]) \/ UNCHANGED acted
    /\ DropJob(l)
    /\ UNCHANGED <<pr, hooks, rows, poll, scan, rec, n, owing, told, pages, torn>>

DispatchAddressReview(l) == DispatchOutside(l, "address_review")
DispatchRequestReviewer(l) == DispatchOutside(l, "request_reviewer")

\* A reset that forgets the arm with the rest.
ResetOwed(r) == [r EXCEPT !.status = "pending", !.url = 0, !.red = None, !.owed = 0]
\* transition_task_status, as far as the fields here go: a reset clears the
\* PR's URL and not its state, and any transition ends the red episode.
Reset(r) == [r EXCEPT !.status = "pending", !.url = 0, !.red = None]

\* _dispatch_auto_fix_ci: the row is requeued in place if it is still in the
\* closed status the job saw; a live session refuses it.
DispatchAutoFixCi(l) ==
    /\ NextJob(l)
    /\ LET j == loop[l].jobs[1]
           t == FindTicket
       IN /\ j.recipe = "auto_fix_ci" /\ ~j.refused
          /\ \/ /\ j.status \in {"completed", "cancelled"}
                /\ loop' = [loop EXCEPT ![l].jobs[1].refused = TRUE]
                /\ UNCHANGED <<rows, acted>>
             \/ /\ j.status \in {"completed", "cancelled"} /\ rows[t].status = j.status
                /\ rows' = [rows EXCEPT ![t] = Reset(@)]
                /\ Acts(j) /\ DropJob(l)
             \/ /\ ~(j.status \in {"completed", "cancelled"} /\ rows[t].status = j.status)
                /\ DropJob(l) /\ UNCHANGED <<rows, acted>>
    /\ UNCHANGED <<pr, hooks, poll, scan, rec, n, owing, told, pages, torn>>

\* _rollback_latch_if_unchanged: the latch goes only if it is still the job's.
RollbackIfUnchanged(r, j) ==
    IF r.fired[j.recipe] = j.at THEN [r EXCEPT !.fired[j.recipe] = 0] ELSE r

RollbackLatch(l) ==
    /\ NextJob(l) /\ loop[l].jobs[1].refused
    /\ rows' = [rows EXCEPT ![Newest] = RollbackIfUnchanged(@, loop[l].jobs[1])]
    /\ DropJob(l)
    /\ UNCHANGED <<pr, hooks, poll, scan, rec, n, acted, owing, told, pages, torn>>

\* The daemon dies: between the event and the save of an act, or with jobs,
\* observations and pages that nothing has written down.
CrashInAct(l) == LET x == Head(loop[l].todo) IN
    /\ loop[l].todo # <<>> /\ Fires(x, l, TRUE)
    /\ Tick("crashes", MaxCrashes)
    /\ IF x = "escalate_merge_block" THEN Acts(Job(x, 0)) ELSE UNCHANGED acted
    /\ torn' = TRUE
    /\ loop' = [loop EXCEPT ![l] = Idle]
    /\ UNCHANGED <<pr, hooks, rows, poll, scan, rec, owing, told, pages>>
Crash ==
    /\ Tick("crashes", MaxCrashes)
    /\ \E l \in Loops : loop' = [loop EXCEPT ![l] = Idle]
    /\ poll' = <<>> /\ scan' = None
    /\ torn' = (torn \/ (scan # None /\ scan.page # None))
    /\ UNCHANGED <<pr, hooks, rows, rec, acted, owing, told, pages>>

-----------------------------------------------------------------------------
(* The rows' own moves.                                                    *)

Move(r, new) ==
    /\ Tick("moves", MaxMoves)
    /\ rows' = [rows EXCEPT ![r] = new]
    /\ UNCHANGED <<hooks, poll, loop, scan, rec, acted, told, pages, torn>>

\* A claim changes none of the fields here.
Claim(r) ==
    /\ rows[r].status = "pending"
    /\ rows' = [rows EXCEPT ![r].status = "running"]
    /\ UNCHANGED <<pr, hooks, poll, loop, scan, rec, n, acted, owing, told, pages, torn>>

\* _advance_task_pointer: through PENDING, which clears the URL.
Advance(r) ==
    /\ rows[r].status = "running" /\ rows[r].stage = "impl"
    /\ Move(r, [Reset(rows[r]) EXCEPT !.stage = "finalize"])
    /\ UNCHANGED <<pr, owing>>

\* A finalize result lands: the worker has opened or reused the ticket's PR
\* and may have armed it, which the result verifies.  The note that an arm is
\* owed goes if the result names the URL the row had.
Ship(r) == \E p \in Prs, armed \in BOOLEAN :
    /\ rows[r].status = "running" /\ rows[r].stage = "finalize"
    /\ pr[p].st = "none" => \A q \in Prs : q < p => pr[q].st # "none"
    /\ pr[p].st = "none" => \A q \in rows[r].had : pr[q].st # "OPEN"
    /\ pr[p].st # "none" => pr[p].st = "OPEN" /\ p \in rows[r].had
    /\ pr' = [pr EXCEPT ![p].st = "OPEN", ![p].armed = @ \/ armed]
    /\ owing' = IF pr'[p].armed THEN owing \ {p} ELSE owing
    /\ LET new == [rows[r] EXCEPT !.status = "completed", !.url = p, !.had = @ \cup {p}, !.red = None]
       IN Move(r, IF pr'[p].armed /\ p = rows[r].url THEN ClearRearmOwed(new) ELSE new)

\* A park keeps the PR it is given, none here; a cancel drops it, and pages
\* for the arm that is owed.
Park(r) ==
    /\ rows[r].status = "running"
    /\ Move(r, [rows[r] EXCEPT !.status = "blocked", !.url = 0, !.red = None])
    /\ UNCHANGED <<pr, owing>>
Cancel(r) ==
    /\ rows[r].status \in {"pending", "running", "blocked"}
    /\ Move(r, [rows[r] EXCEPT !.status = "cancelled", !.url = 0, !.red = None,
                               !.paged = @ \/ rows[r].owed # 0])
    /\ UNCHANGED <<pr, owing>>
Requeue(r) ==
    /\ r = FindTicket /\ rows[r].status \notin {"pending", "running"}
    /\ Move(r, Reset(rows[r]))
    /\ UNCHANGED <<pr, owing>>

\* add_ticket after a closed row.
AddTicket ==
    /\ Len(rows) < MaxRows /\ \A r \in DOMAIN rows : rows[r].status \in {"completed", "cancelled"}
    /\ Tick("moves", MaxMoves)
    /\ rows' = Append(rows, NewRow)
    /\ UNCHANGED <<pr, hooks, poll, loop, scan, rec, acted, owing, told, pages, torn>>

\* run_rearm_owed_attention_sweep: one page for a park past half an hour.
RearmOwedSweep(r) ==
    /\ rows[r].status = "blocked" /\ rows[r].owed # 0 /\ ~rows[r].paged
    /\ rows' = [rows EXCEPT ![r].paged = TRUE]
    /\ UNCHANGED <<pr, hooks, poll, loop, scan, rec, n, acted, owing, told, pages, torn>>

-----------------------------------------------------------------------------
(* The signal for a shipped PR that is red and armed.                      *)

\* is_shipped_red_candidate.
IsShippedRed(r) ==
    r.status = "completed" /\ r.url # 0 /\ r.obs # None /\ r.obs.st = "OPEN" /\ r.obs.fails # 0

\* _evaluate_fresh, _evaluate_alerted and _classify_required: the live PR
\* against the latch.  Only a page that nobody has had is an alert.
Evaluate(r) ==
    LET g == pr[r.url]
        same == r.red # None /\ r.red.at # 0 /\ r.red.head = g.head
    IN IF g.st # "OPEN" THEN "stamp"
       ELSE IF same /\ r.red.fp = r.obs.fails THEN "continuing"
       ELSE IF g.fails = 0 THEN "stamp"
       ELSE IF same THEN "refresh"
       ELSE IF g.armed THEN "alert" ELSE "stamp"

\* scan_shipped_red_prs up to the write: the ticket's current row, evaluated
\* without the lock.  An unreadable PR is "unknown".  When a row is due is a
\* matter of time.
ScanShippedRed ==
    /\ scan = None /\ Tick("scans", MaxScans)
    /\ LET t == FindTicket
           r == rows[t]
           read == IF IsShippedRed(r) THEN {"unknown", Evaluate(r)} ELSE {"none"}
       IN \E kind \in read :
             scan' = [row |-> t, url |-> r.url, kind |-> kind, page |-> None, written |-> FALSE,
                      fp |-> IF r.obs = None THEN 0 ELSE r.obs.fails,
                      head |-> IF kind = "none" THEN 0 ELSE pr[r.url].head]
    /\ UNCHANGED <<pr, hooks, rows, poll, loop, rec, acted, owing, told, pages, torn>>

\* _apply_outcome.  The counters of an unreadable latch only delay the next try.
ApplyOutcome(latch, o, at) ==
    CASE o.kind = "unknown" -> IF latch = None THEN [fp |-> o.fp, head |-> 0, at |-> 0] ELSE latch
      [] o.kind = "stamp" -> [fp |-> o.fp, head |-> 0, at |-> 0]
      [] o.kind = "alert" -> [fp |-> o.fp, head |-> o.head, at |-> at]
      [] o.kind = "refresh" /\ latch # None -> [latch EXCEPT !.fp = o.fp]
      [] OTHER -> latch

\* _write, under the queue lock: a latch whose row is no candidate any more is
\* cleared, and an outcome counts while its row is the ticket's and a candidate.
WriteScan ==
    /\ scan # None /\ ~scan.written
    /\ LET t == scan.row
           cleared == [r \in DOMAIN rows |-> IF rows[r].status = "completed" /\ ~IsShippedRed(rows[r])
                                             THEN [rows[r] EXCEPT !.red = None] ELSE rows[r]]
           live == /\ scan.kind # "none" /\ rows[t].url = scan.url
                   /\ FindTicket = t /\ IsShippedRed(rows[t])
           alert == live /\ scan.kind = "alert"
       IN /\ IF alert THEN Tick("time", MaxTime) ELSE UNCHANGED n
          /\ rows' = IF live THEN [cleared EXCEPT ![t].red = ApplyOutcome(@, scan, n.time + 1)] ELSE cleared
          /\ scan' = IF alert THEN [scan EXCEPT !.written = TRUE,
                                                !.page = <<t, scan.head, n.time + 1>>] ELSE None
    /\ UNCHANGED <<pr, hooks, poll, loop, rec, acted, owing, told, pages, torn>>

\* _emit, after the lock: the event is recorded, or the append fails.
EmitPage ==
    /\ scan # None /\ scan.written /\ scan.kind = "alert"
    /\ \/ pages' = pages \cup {scan.page} /\ scan' = None
       \/ scan' = [scan EXCEPT !.kind = "failed"] /\ UNCHANGED pages
    /\ UNCHANGED <<pr, hooks, rows, poll, loop, rec, n, acted, owing, told, torn>>

\* The scan with no rollback of the page that was not recorded.
KeepLatch(r, page) == r
\* _rollback_unemitted_page: the latch of a page that was not recorded goes.
RollbackUnemitted(r, page) ==
    IF r.red # None /\ <<r.red.head, r.red.at>> = <<page[2], page[3]>>
    THEN [r EXCEPT !.red = None] ELSE r

RollbackPage ==
    /\ scan # None /\ scan.kind = "failed"
    /\ rows' = IF rows[scan.row].status = "completed" /\ rows[scan.row].url = scan.url
               THEN [rows EXCEPT ![scan.row] = RollbackUnemitted(@, scan.page)] ELSE rows
    /\ scan' = None
    /\ UNCHANGED <<pr, hooks, poll, loop, rec, n, acted, owing, told, pages, torn>>

-----------------------------------------------------------------------------
(* cw dev-queue recover-red-pr.                                            *)

\* prepare_red_pr_recovery's reads: a shipped row, an open PR with a red check.
RecoverRead ==
    /\ rec = None /\ Tick("recovers", MaxRecovers)
    /\ LET r == rows[FindTicket] IN
       /\ r.status = "completed" /\ r.url # 0 /\ pr[r.url].st = "OPEN" /\ pr[r.url].fails # 0
       /\ rec' = [url |-> r.url, head |-> pr[r.url].head, armed |-> pr[r.url].armed, ready |-> FALSE]
    /\ UNCHANGED <<pr, hooks, rows, poll, loop, scan, acted, owing, told, pages, torn>>

\* Its last step, ensure_pr_unarmed: refused if the head moved while reading;
\* a disarm that cannot be verified is refused too, and the operator told.
RecoverDisarm ==
    /\ rec # None /\ ~rec.ready
    /\ \/ /\ pr[rec.url].head # rec.head
          /\ rec' = None /\ UNCHANGED <<pr, owing, told>>
       \/ /\ pr[rec.url].head = rec.head /\ ~rec.armed
          /\ rec' = [rec EXCEPT !.ready = TRUE] /\ UNCHANGED <<pr, owing, told>>
       \/ /\ pr[rec.url].head = rec.head /\ rec.armed
          /\ pr' = [pr EXCEPT ![rec.url].armed = FALSE]
          /\ owing' = IF pr[rec.url].armed THEN owing \cup {rec.url} ELSE owing
          /\ \/ rec' = [rec EXCEPT !.ready = TRUE] /\ UNCHANGED told
             \/ rec' = None /\ told' = told \cup {rec.url}
    /\ UNCHANGED <<hooks, rows, poll, loop, scan, n, acted, pages, torn>>

\* mark_auto_merge_rearm_owed: the row names the PR, or lost its URL to a
\* requeue or a cancel.
MarkAllowed(r, p) ==
    IF r.owed # 0 THEN r.owed = p
    ELSE r.url = p \/ (r.url = 0 /\ r.status \in {"pending", "cancelled"})

Mark(r, p) ==
    [r EXCEPT !.owed = p, !.paged = IF r.owed = 0 THEN r.status = "cancelled" ELSE @ \/ r.status = "cancelled"]

\* recover_red_pr_ticket: refused for a live session before the lock; under
\* it, the row is regressed if it is still the shipped one, and the arm owed.
RecoverLocked ==
    /\ rec # None /\ rec.ready
    /\ rec' = None
    /\ LET t == FindTicket
           valid == rows[t].status = "completed" /\ rows[t].url = rec.url
           fixed == [rows[t] EXCEPT !.status = "pending", !.stage = "impl", !.obs = None, !.red = None]
           marks == rec.armed /\ MarkAllowed(rows[t], rec.url)
       IN \/ told' = (IF rec.armed THEN told \cup {rec.url} ELSE told) /\ UNCHANGED rows
          \/ /\ valid
             /\ rows' = [rows EXCEPT ![t] = IF rec.armed /\ MarkAllowed(fixed, rec.url)
                                            THEN Mark(fixed, rec.url) ELSE fixed]
             /\ UNCHANGED told
          \/ /\ ~valid
             /\ rows' = IF marks THEN [rows EXCEPT ![t] = Mark(@, rec.url)] ELSE rows
             /\ told' = IF rec.armed /\ ~marks THEN told \cup {rec.url} ELSE told
    /\ UNCHANGED <<pr, hooks, poll, loop, scan, n, acted, owing, pages, torn>>

\* The command is killed after the disarm.
RecoverDies ==
    /\ rec # None /\ Tick("crashes", MaxCrashes)
    /\ rec' = None
    /\ told' = IF rec.ready /\ rec.armed THEN told \cup {rec.url} ELSE told
    /\ UNCHANGED <<pr, hooks, rows, poll, loop, scan, acted, owing, pages, torn>>

-----------------------------------------------------------------------------
Next ==
    \/ Github \/ HydratePrStates \/ PersistAndEmit \/ ReadOwed \/ PersistRearmOwed
    \/ \E h \in hooks : ObservePushedEvent(h)
    \/ \E l \in Loops : \/ Detect(l) \/ ActAddressReview(l) \/ ActAutoFixCi(l) \/ ActRequestReviewer(l)
                        \/ ActEscalate(l) \/ EndPass(l) \/ DispatchAddressReview(l) \/ DispatchRequestReviewer(l)
                        \/ DispatchAutoFixCi(l) \/ RollbackLatch(l) \/ CrashInAct(l)
    \/ Crash
    \/ \E r \in DOMAIN rows : \/ Claim(r) \/ Advance(r) \/ Ship(r) \/ Park(r) \/ Cancel(r) \/ Requeue(r)
                             \/ RearmOwedSweep(r)
    \/ AddTicket
    \/ ScanShippedRed \/ WriteScan \/ EmitPage \/ RollbackPage
    \/ RecoverRead \/ RecoverDisarm \/ RecoverLocked \/ RecoverDies

Spec == Init /\ [][Next]_vars

-----------------------------------------------------------------------------
\* One action per episode: a recipe acts at most once on an attention state
\* that a row was seen to enter, whatever the poll, the pushes, a second loop,
\* a refused requeue and its late rollback do in between.  A death between the
\* event and the save of an act repeats it.
ActedOnce ==
    torn \/ \A i, j \in DOMAIN acted : acted[i] = acted[j] => i = j

\* A PR that a recovery disarmed is not forgotten: while it is open and
\* unarmed, a row carries the note that its arm is owed, or the command is
\* still on its way to the row, or it said that the row was left unchanged.
DisarmRemembered ==
    \A p \in owing :
       \/ \E r \in DOMAIN rows : rows[r].owed = p
       \/ p \in told
       \/ rec # None /\ rec.url = p

\* The latch that keeps a red PR quiet stands for a page that was recorded or
\* is about to be: a failed append takes its latch back with it.
QuietMeansPaged ==
    torn \/ \A r \in DOMAIN rows : LET latch == rows[r].red IN
       latch # None /\ latch.at # 0 =>
          LET page == <<r, latch.head, latch.at>> IN
          page \in pages \/ (scan # None /\ scan.page = page)

\* Polled and pushed states land on the row whose PR they describe
\* (hydrate_pr_states: "persists ... state on each TicketTask.pr_state").
ObservedOwnPr ==
    \A r \in DOMAIN rows : rows[r].obs # None => rows[r].obs.of \in rows[r].had

=============================================================================
