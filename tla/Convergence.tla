----------------------------- MODULE Convergence -----------------------------
(***************************************************************************)
(* The converge-to-clean review: the ledger and its engine                 *)
(* (cw/review_convergence), the codex session that loops, fixes and        *)
(* confirms (codex_background.py, codex_loop_rounds.py,                    *)
(* codex_clean_confirm.py, codex_confirm_feedback.py), the agent that does *)
(* the same through cw review converge (cli/review), and the operator who  *)
(* commits, merges and settles between and during sessions.                *)
(*                                                                         *)
(* A commit is a number; a finding is its identity, and a review returns   *)
(* what it found with the outcome an adjudication gives each finding.  The *)
(* ledger is a file nobody locks: a session keeps a copy of it.            *)
(***************************************************************************)
EXTENDS Naturals, Sequences, FiniteSets, SequencesExt

CONSTANTS
    Ids,          \* identities of gating findings
    Loops,        \* loop backends: "codex", "agent"
    None,
    Outcomes,     \* of "fix", "operator_action", "reject"
    StallWindow,  \* STALL_WINDOW
    Cap,          \* CONFIRM_UNAVAILABLE_CAP
    MaxCycles,    \* effective_max_cycles of the client at first
    MaxHead,      \* bound on commits
    MaxRounds,    \* bound on recorded rounds
    MaxHands,     \* bound on what the operator does
    MaxFaults     \* bound on sessions that die and on confirm failures

VARIABLES
    head, anc,    \* the branch tip and the commits under it
    merges,       \* commits that are clean merges of the default branch
    fork,         \* the merge base with the default branch
    cfg,          \* the client's max_cycles and independent confirm
    ledger,       \* .cw/review-convergence.json, or None
    s,            \* the session on the row: its step and its copy of the ledger
    settle,       \* the operator-settle in flight, and whether it undid a write
    seen,         \* history: what complete reviews found, [kind, sha, gates]
    ruled,        \* history: findings some ledger has settled
    pub,          \* history: the last converged result and the tip it vouches for
    fixes,        \* history: fix commits of the loop since a hand on the branch
    faults, hands \* deaths and confirm failures; what the operator did

vars == <<head, anc, merges, fork, cfg, ledger, s, settle, seen, ruled, pub, fixes, faults, hands>>

ConvergenceAssumption ==
    /\ Loops \subseteq {"codex", "agent"}
    /\ Outcomes \subseteq {"fix", "operator_action", "reject"}
    /\ {StallWindow, Cap, MaxCycles, MaxHead, MaxRounds, MaxHands, MaxFaults} \subseteq Nat

-----------------------------------------------------------------------------
(* The ledger *)

NoFailure == [cause |-> None, sha |-> None, round |-> 0, n |-> 0]

\* new_ledger.
NewLedger(loop, f) ==
    [loop |-> loop, fork |-> f, indep |-> cfg.indep, max |-> cfg.max,
     rounds |-> <<>>, settled |-> [i \in Ids |-> None],
     fixed |-> [i \in Ids |-> None], fail |-> NoFailure, await |-> None,
     lastClean |-> None, epoch |-> 0, window |-> 0, used |-> 0,
     status |-> "in_progress", reason |-> None, stops |-> {}, released |-> None]

Off == [pc |-> "idle", loop |-> None, mem |-> None,
        sha |-> None, kind |-> None, found |-> None, unread |-> FALSE,
        consumed |-> 0, iter |-> 0, seeds |-> {}, first |-> FALSE]

NoSettle == [pc |-> "idle", led |-> None, ids |-> {}, lost |-> FALSE]

\* load_convergence_config: the budget and whether clean needs a confirm.
LoadedConfig == [max : {MaxCycles}, indep : BOOLEAN]

Init ==
    /\ head = 0 /\ anc = {} /\ merges = {} /\ fork = 0
    /\ cfg \in LoadedConfig
    /\ ledger = None
    /\ s = Off /\ settle = NoSettle
    /\ seen = {} /\ ruled = {} /\ pub = None /\ fixes = 0 /\ faults = 0 /\ hands = 0

\* finalize_ready.
FinalizeReady(l) == l.status = "converged" /\ l.lastClean # None

\* default_merge_only and converged_across_tolerated_merge: only clean merges
\* of the default branch lie above the clean commit.
Above(c) == {k \in anc \cup {head} : k > c}
DefaultMergeOnly(c) == c \in anc /\ Above(c) \subseteq merges
ToleratedMerge(l) == FinalizeReady(l) /\ l.lastClean # head /\ DefaultMergeOnly(l.lastClean)

\* history_rewritten.
HistoryRewritten(l) ==
    l.rounds # <<>> /\ Last(l.rounds).sha \notin anc \cup {head}

MaxCyclesExhausted(l) == l.used >= l.max

\* demote_for_rereview.
Demote(l) == IF l.status = "converged"
             THEN [l EXCEPT !.status = "in_progress", !.await = None] ELSE l

\* release_cause on an unchanged tip.
ReleaseCause(l) ==
    \/ l.reason = "max_cycles" /\ ~MaxCyclesExhausted(l)
    \/ l.reason = "operator_action"
    \/ l.reason = "oscillation" /\ l.stops # {} /\ \A i \in l.stops : l.settled[i] = "operator"

\* _released: new commits start an epoch with a fresh budget, another cause
\* only a new window for the progress check.
Released(l, epoch) ==
    LET r == [l EXCEPT !.status = "in_progress", !.reason = None, !.stops = {},
                       !.released = Len(l.rounds)] IN
    IF epoch THEN [r EXCEPT !.epoch = Len(l.rounds), !.used = 0]
    ELSE [r EXCEPT !.window = Len(l.rounds)]

ReconcileStopped(l) ==
    IF l.rounds = <<>> \/ Last(l.rounds).sha # head THEN Released(l, TRUE)
    ELSE IF ReleaseCause(l) THEN Released(l, FALSE) ELSE l

\* reconcile_for_init; the codex lane passes no merge tolerance.
Reconcile(l, loop, f) ==
    IF l = None THEN NewLedger(loop, f)
    ELSE IF l.fork # f \/ HistoryRewritten(l) THEN NewLedger(loop, f)
    ELSE LET m == [l EXCEPT !.max = cfg.max]
             n == [m EXCEPT !.indep = cfg.indep] IN
         IF m.status = "converged"
            /\ (head = m.lastClean \/ (loop = "agent" /\ ToleratedMerge(m)))
         THEN m
         ELSE IF n.status = "stopped" THEN ReconcileStopped(n) ELSE Demote(n)

-----------------------------------------------------------------------------
(* record_round *)

\* What a complete review returns, adjudicated finding by finding.
Adjudicated == [Ids -> Outcomes \cup {None}]

\* classify_findings: what is not settled yet and gates.
Gating(l, found) ==
    {i \in Ids : found[i] \in {"fix", "operator_action"} /\ l.settled[i] = None}

\* detect_no_progress: no clean round among the last ones, and their counts,
\* all above the noise floor, never fell.
NoProgress(rounds, start) ==
    LET n == Len(rounds)
        tail == (n - StallWindow) .. n IN
    /\ n - start > StallWindow
    /\ \A k \in tail : rounds[k].n > 1
    /\ \A k \in tail \ {n} : rounds[k + 1].n >= rounds[k].n

\* detect_oscillation: fixed at another commit and back.
Oscillation(l, gating, sha) == {i \in gating : l.fixed[i] \notin {None, sha}}

\* _decide: the decision, and what a stop is about.
Decide(l, found, kind, sha, rounds) ==
    LET gating == Gating(l, found)
        ops == {i \in gating : found[i] = "operator_action"}
        back == Oscillation(l, gating, sha)
        start == IF l.epoch > l.window THEN l.epoch ELSE l.window IN
    IF gating = {} THEN [d |-> IF kind = "loop" /\ l.indep THEN "confirm_required" ELSE "clean",
                         ids |-> {}]
    ELSE IF back # {} THEN [d |-> "oscillation", ids |-> back]
    ELSE IF ops # {} THEN [d |-> "operator_action", ids |-> ops]
    ELSE IF NoProgress(rounds, start) THEN [d |-> "no_progress", ids |-> {}]
    ELSE IF MaxCyclesExhausted(l) THEN [d |-> "max_cycles", ids |-> {}]
    ELSE [d |-> "continue", ids |-> {}]

\* Mutant of RoundRefused: a confirm of any commit is taken.
RoundRefusedNoSha(l, kind, sha, found, unread) ==
    \/ l.status \in {"stopped", "converged"}
    \/ kind = "confirm" /\ l.status # "awaiting_confirm"
    \/ Gating(l, found) = {} /\ unread

\* _require_open_ledger, _require_confirm_preconditions and _guard_unread: a
\* round with findings nobody read is no clean round.
RoundRefused(l, kind, sha, found, unread) ==
    \/ l.status \in {"stopped", "converged"}
    \/ kind = "confirm" /\ (l.status # "awaiting_confirm" \/ l.await # sha)
    \/ Gating(l, found) = {} /\ unread

\* Mutant of Transition: a continued round is not charged.
TransitionUncharged(l, o, found, sha) ==
    CASE o.d = "clean" -> [l EXCEPT !.status = "converged", !.lastClean = sha]
      [] o.d = "confirm_required" -> [l EXCEPT !.status = "awaiting_confirm", !.await = sha]
      [] o.d = "continue" ->
            [l EXCEPT !.status = "in_progress",
                      !.fixed = [i \in Ids |-> IF i \in Gating(l, found) /\ @[i] = None
                                               THEN sha ELSE @[i]]]
      [] OTHER -> [l EXCEPT !.status = "stopped", !.reason = o.d, !.stops = o.ids]

\* _transition and _fixed_after_continue.
Transition(l, o, found, sha) ==
    CASE o.d = "clean" -> [l EXCEPT !.status = "converged", !.lastClean = sha]
      [] o.d = "confirm_required" -> [l EXCEPT !.status = "awaiting_confirm", !.await = sha]
      [] o.d = "continue" ->
            [l EXCEPT !.status = "in_progress", !.used = @ + 1,
                      !.fixed = [i \in Ids |-> IF i \in Gating(l, found) /\ @[i] = None
                                               THEN sha ELSE @[i]]]
      [] OTHER -> [l EXCEPT !.status = "stopped", !.reason = o.d, !.stops = o.ids]

\* _apply_round.
RecordRound(l, kind, sha, found) ==
    LET r == [kind |-> kind, sha |-> sha, n |-> Cardinality(Gating(l, found)),
              fix |-> \E i \in Gating(l, found) : found[i] = "fix"]
        rounds == Append(l.rounds, r)
        o == Decide(l, found, kind, sha, rounds)
        t == Transition([l EXCEPT !.await = None], o, found, sha) IN
    [t EXCEPT !.rounds = rounds,
              !.settled = [i \in Ids |-> IF @[i] = None /\ found[i] = "reject"
                                         THEN "adjudication" ELSE @[i]]]

\* record_confirm_failure, with the run of equal failures at the end of
\* confirm_failures (consecutive_confirm_failures) kept as a count.
ConfirmFailure(l, cause) ==
    LET f == l.fail
        same == f.cause = cause /\ f.sha = l.await /\ f.round = Len(l.rounds) IN
    [l EXCEPT !.fail = [cause |-> cause, sha |-> l.await, round |-> Len(l.rounds),
                        n |-> IF ~same THEN 1 ELSE IF f.n > Cap THEN f.n ELSE f.n + 1]]

\* next_action: the dirty round of the tip is to be fixed.
NextIsFix(l) ==
    /\ l.status \in {"in_progress", "awaiting_confirm"}
    /\ ~(l.status = "awaiting_confirm" /\ l.await = head)
    /\ l.released # Len(l.rounds)
    /\ l.rounds # <<>> /\ Last(l.rounds).n > 0 /\ Last(l.rounds).sha = head

-----------------------------------------------------------------------------
(* The branch and the operator *)

Tip == head + 1
Hand == hands < MaxHands /\ hands' = hands + 1

\* A clean merge of the default branch moves the merge base to the tip.
MergesDefault == anc' = anc \cup {head} /\ merges' = merges \cup {Tip} /\ fork' = Tip

\* A commit, a merge of the default branch, or a rewrite of the branch.
OperatorCommits ==
    /\ Tip <= MaxHead /\ Hand
    /\ head' = Tip
    /\ \/ anc' = anc \cup {head} /\ UNCHANGED <<merges, fork>>
       \/ MergesDefault
       \/ anc' = {} /\ UNCHANGED <<merges, fork>>
    /\ fixes' = 0
    /\ UNCHANGED <<cfg, ledger, s, settle, seen, pub, faults>>

\* The client's review settings change.
OperatorConfigures ==
    /\ cfg' \in {[cfg EXCEPT !.indep = ~@], [cfg EXCEPT !.max = MaxCycles + 1]} \ {cfg}
    /\ s.pc = "idle" /\ Hand
    /\ fixes' = 0
    /\ UNCHANGED <<head, anc, merges, fork, ledger, s, settle, seen, pub, faults>>

\* operator-settle: the parked row and the ledger, with the identities it has
\* recorded (_recorded_identities).
SettleLoads ==
    /\ settle.pc = "idle" /\ s.pc = "idle" /\ Hand
    /\ ledger # None /\ ledger.rounds # <<>>
    /\ \E ids \in SUBSET {i \in Ids : i \in ledger.stops \/ ledger.fixed[i] # None
                                      \/ ledger.settled[i] # None} :
          /\ ids # {}
          /\ settle' = [pc |-> "loaded", led |-> ledger, ids |-> ids, lost |-> FALSE]
    /\ UNCHANGED <<head, anc, merges, fork, cfg, ledger, s, seen, pub, fixes, faults>>

SettleSaves ==
    /\ settle.pc = "loaded"
    /\ ledger' = [settle.led EXCEPT !.settled =
                     [i \in Ids |-> IF i \in settle.ids THEN "operator" ELSE @[i]]]
    /\ settle' = [settle EXCEPT !.pc = "saved", !.lost = ledger # settle.led]
    /\ fixes' = 0
    /\ UNCHANGED <<head, anc, merges, fork, cfg, s, seen, pub, faults, hands>>

\* The second look at the row: a running worker is reported.
SettleEnds ==
    /\ settle.pc = "saved"
    /\ settle' = NoSettle
    /\ UNCHANGED <<head, anc, merges, fork, cfg, ledger, s, seen, pub, fixes, faults, hands>>

-----------------------------------------------------------------------------
(* The codex session *)

Parks == s' = Off
Room(l) == Len(l.rounds) < MaxRounds

\* _resumable and _confirm_choice_differs.
Resumable(l) ==
    /\ l # None /\ l.fork = fork /\ l.loop = "codex"
    /\ l.status = "awaiting_confirm" /\ l.await = head /\ l.indep = cfg.indep

\* load_confirm_feedback: the findings of a dirty confirm round at the tip not
\* fed back yet; those a later settle suppresses are left out (_open_must_fix).
Feedback(l, after) ==
    IF /\ l # None /\ l.fork = fork /\ l.loop = "codex" /\ NextIsFix(l)
       /\ Last(l.rounds).kind = "confirm" /\ Last(l.rounds).fix /\ Len(l.rounds) > after
    THEN {i \in Ids : l.fixed[i] # None /\ l.settled[i] = None}
    ELSE {}

\* _review_and_confirm: resume a pending confirm, else the loop, with the
\* findings of an earlier confirm as seeds.
CodexStarts ==
    /\ "codex" \in Loops /\ s.pc = "idle"
    /\ s' = IF Resumable(ledger)
            THEN [Off EXCEPT !.pc = "confirm", !.loop = "codex", !.mem = ledger]
            ELSE [Off EXCEPT !.pc = "cycle", !.loop = "codex", !.first = TRUE,
                             !.seeds = Feedback(ledger, 0),
                             !.consumed = IF Feedback(ledger, 0) = {} THEN 0
                                          ELSE Len(ledger.rounds)]
    /\ UNCHANGED <<head, anc, merges, fork, cfg, ledger, settle, seen, pub, fixes, faults, hands>>

\* A review of the tip by a loop or confirm backend.
Reads(kind, pc) ==
    \E found \in Adjudicated, unread \in BOOLEAN :
        /\ s' = [s EXCEPT !.pc = pc, !.sha = head, !.kind = kind,
                          !.found = found, !.unread = unread]
        /\ seen' = IF unread THEN seen ELSE seen \cup
                     {[kind |-> kind, sha |-> head,
                       gates |-> {i \in Ids : found[i] \in {"fix", "operator_action"}}]}

\* One pass of run_review_with_fix_loop.
CycleReads ==
    /\ s.pc = "cycle"
    /\ Reads("loop", "observe")
    /\ UNCHANGED <<head, anc, merges, fork, cfg, ledger, settle, pub, fixes, faults, hands>>

\* The seeds are not news on the first pass (_round_findings).
News(l) == [i \in Ids |-> IF s.first /\ i \in s.seeds /\ s.found[i] = "fix"
                          THEN None ELSE s.found[i]]

\* What suppress_settled leaves open of a pass, with the seeds of the first.
Open(l) ==
    {i \in Ids : s.found[i] = "fix" /\ l.settled[i] = None}
        \cup (IF s.first THEN s.seeds ELSE {})

\* LoopRoundRecorder.suppress and record: the ledger is opened once, a stopped
\* or failing one ends the loop, and only a pass with news is recorded.
CycleRecords ==
    /\ s.pc = "observe"
    /\ LET l == IF s.mem = None THEN Reconcile(ledger, "codex", fork) ELSE s.mem
           news == News(l)
           d == Demote(l)
           r == RecordRound(d, "loop", s.sha, news) IN
       \/ /\ l.loop # "codex" \/ l.status = "stopped"
          /\ Parks /\ UNCHANGED ledger
       \/ /\ l.loop = "codex" /\ l.status # "stopped" /\ Gating(l, news) = {}
          /\ s' = [s EXCEPT !.mem = IF Open(l) = {} THEN None ELSE l, !.found = None,
                            !.pc = IF Open(l) = {} THEN "gate" ELSE "fix"]
          /\ UNCHANGED ledger
       \/ /\ l.loop = "codex" /\ l.status # "stopped" /\ Gating(l, news) # {} /\ Room(l)
          /\ ~RoundRefused(d, "loop", s.sha, news, s.unread)
          /\ ledger' = r
          /\ s' = IF r.status = "in_progress" THEN [s EXCEPT !.mem = r, !.pc = "fix", !.found = None, !.unread = FALSE]
                  ELSE Off
    /\ UNCHANGED <<head, anc, merges, fork, cfg, settle, seen, pub, fixes, faults, hands>>

\* The fixer commits and the loop goes round, or it gives up and parks.
CycleFixes ==
    /\ s.pc = "fix"
    /\ \/ /\ Tip <= MaxHead
          /\ head' = Tip /\ anc' = anc \cup {head} /\ fixes' = fixes + 1
          /\ s' = [s EXCEPT !.pc = "cycle", !.first = FALSE, !.seeds = {},
                            !.sha = None, !.found = None, !.unread = FALSE]
       \/ Parks /\ UNCHANGED <<head, anc, fixes, hands>>
    /\ UNCHANGED <<merges, fork, cfg, ledger, settle, seen, pub, faults, hands>>

Publishes(l) == pub' = [sha |-> l.lastClean, tip |-> l.lastClean]

\* The check that opens _gate_after_loop.
HeadIsReviewed == s.sha = head

\* _record_loop_round: the clean pass of the loop, with no finding.
RecordLoopRound(l) == RecordRound(l, "loop", s.sha, [i \in Ids |-> None])

\* _gate_after_loop: the ledger is read and reconciled again; the clean pass is
\* recorded unless the tip already awaits its confirm; any error parks.
GateAfterLoop ==
    /\ s.pc = "gate"
    /\ LET l == Reconcile(ledger, "codex", fork)
           refreshed == ledger # None /\ ledger.indep # cfg.indep
           r == RecordLoopRound(l) IN
       IF ~HeadIsReviewed \/ l.loop # "codex" \/ l.status = "stopped"
       THEN Parks /\ UNCHANGED <<ledger, pub>>
       ELSE IF l.status = "converged" THEN Parks /\ Publishes(l) /\ UNCHANGED ledger
       ELSE IF l.status = "awaiting_confirm" /\ l.await = head /\ ~refreshed
       THEN /\ s' = [s EXCEPT !.pc = "confirm", !.mem = l, !.sha = None, !.unread = FALSE]
            /\ UNCHANGED <<ledger, pub>>
       ELSE IF s.unread THEN Parks /\ UNCHANGED <<ledger, pub>>
       ELSE /\ Room(l)
            /\ ledger' = r
            /\ IF r.status = "converged" THEN Parks /\ Publishes(r)
               ELSE s' = [s EXCEPT !.pc = "confirm", !.mem = r, !.sha = None] /\ UNCHANGED pub
    /\ UNCHANGED <<head, anc, merges, fork, cfg, settle, seen, fixes, faults, hands>>

\* _run_confirm: the claude review of the tip.
ConfirmReads ==
    /\ s.pc = "confirm"
    /\ Reads("confirm", "confirmed")
    /\ UNCHANGED <<head, anc, merges, fork, cfg, ledger, settle, pub, fixes, faults, hands>>

\* The backend is down (_unavailable_outcome), or the round did not complete
\* (_healthy_failure_outcome).
ConfirmFails ==
    /\ s.pc = "confirm" /\ faults < MaxFaults
    /\ faults' = faults + 1
    /\ Parks
    /\ \/ \E cause \in {"binary_missing", "crash"} : ledger' = ConfirmFailure(s.mem, cause)
       \/ UNCHANGED ledger
    /\ UNCHANGED <<head, anc, merges, fork, cfg, settle, seen, pub, fixes, hands>>

\* _record_confirm_round; a refused round parks with nothing saved.
ConfirmRecords ==
    /\ s.pc = "confirmed"
    /\ LET l == s.mem
           r == RecordRound(l, "confirm", s.sha, s.found) IN
       IF RoundRefused(l, "confirm", s.sha, s.found, s.unread)
       THEN Parks /\ UNCHANGED <<ledger, pub>>
       ELSE /\ Room(l)
            /\ ledger' = r
            /\ IF r.status = "converged" THEN Parks /\ Publishes(r)
               ELSE /\ s' = [Off EXCEPT !.pc = "reenter", !.loop = "codex",
                                        !.consumed = s.consumed, !.iter = s.iter]
                    /\ UNCHANGED pub
    /\ UNCHANGED <<head, anc, merges, fork, cfg, settle, seen, fixes, faults, hands>>

\* reenter_feedback: a round later than the last one fed back, within the
\* cycles of the session; the wall clock may be spent.
Reenters ==
    /\ s.pc = "reenter"
    /\ LET back == Feedback(ledger, s.consumed) IN
       \/ /\ back # {} /\ s.iter < cfg.max
          /\ s' = [Off EXCEPT !.pc = "cycle", !.loop = "codex", !.first = TRUE,
                              !.seeds = back, !.consumed = Len(ledger.rounds),
                              !.iter = s.iter + 1]
       \/ Parks
    /\ UNCHANGED <<head, anc, merges, fork, cfg, ledger, settle, seen, pub, fixes, faults, hands>>

\* The session's process dies; the ledger file stays as last saved.
SessionDies ==
    /\ s.pc # "idle" /\ faults < MaxFaults
    /\ faults' = faults + 1
    /\ Parks
    /\ UNCHANGED <<head, anc, merges, fork, cfg, ledger, settle, seen, pub, fixes, hands>>

-----------------------------------------------------------------------------
(* The agent and cw review converge *)

AgentStarts ==
    /\ "agent" \in Loops /\ s.pc = "idle"
    /\ s' = [Off EXCEPT !.pc = "agent", !.loop = "agent"]
    /\ UNCHANGED <<head, anc, merges, fork, cfg, ledger, settle, seen, pub, fixes, faults, hands>>

\* converge init, with the fork point of the branch.
AgentInit ==
    /\ s.pc = "agent"
    /\ ledger' = Reconcile(ledger, "agent", 0)
    /\ ledger' # ledger
    /\ UNCHANGED <<head, anc, merges, fork, cfg, s, settle, seen, pub, fixes, faults, hands>>

\* A review round, or cw review confirm, which fails if the worktree moved.
AgentReads ==
    /\ s.pc = "agent" /\ s.found = None
    /\ \E kind \in {"loop", "confirm"} : Reads(kind, "agent")
    /\ UNCHANGED <<head, anc, merges, fork, cfg, ledger, settle, pub, fixes, faults, hands>>

\* converge record-round, or the round is dropped.
AgentRecords ==
    /\ s.pc = "agent" /\ s.found # None
    /\ \/ /\ ledger # None /\ Room(ledger)
          /\ ~RoundRefused(ledger, s.kind, s.sha, s.found, s.unread)
          /\ ledger' = RecordRound(ledger, s.kind, s.sha, s.found)
       \/ UNCHANGED ledger
    /\ s' = [Off EXCEPT !.pc = "agent", !.loop = "agent"]
    /\ UNCHANGED <<head, anc, merges, fork, cfg, settle, seen, pub, fixes, faults, hands>>

\* converge confirm-failed.
AgentConfirmFailed ==
    /\ s.pc = "agent" /\ faults < MaxFaults
    /\ ledger # None /\ ledger.status = "awaiting_confirm"
    /\ ledger' = ConfirmFailure(ledger, "binary_missing")
    /\ faults' = faults + 1
    /\ UNCHANGED <<head, anc, merges, fork, cfg, s, settle, seen, pub, fixes, hands>>

\* evaluate_tip and _tolerate, with the tip pushed.
TipAccepted(l) == FinalizeReady(l) /\ (l.lastClean = head \/ ToleratedMerge(l))

\* converge finalize: accepted, or demoted when commits follow the clean round.
AgentFinalizes ==
    /\ s.pc = "agent" /\ ledger # None /\ FinalizeReady(ledger)
    /\ IF TipAccepted(ledger)
       THEN pub' = [sha |-> ledger.lastClean, tip |-> head] /\ UNCHANGED ledger
       ELSE ledger' = Demote(ledger) /\ UNCHANGED pub
    /\ UNCHANGED <<head, anc, merges, fork, cfg, s, settle, seen, fixes, faults, hands>>

AgentEnds ==
    /\ s.pc = "agent" /\ Parks
    /\ UNCHANGED <<head, anc, merges, fork, cfg, ledger, settle, seen, pub, fixes, faults, hands>>

-----------------------------------------------------------------------------
CodexNext ==
    \/ CodexStarts \/ CycleReads \/ CycleRecords \/ CycleFixes \/ GateAfterLoop
    \/ ConfirmReads \/ ConfirmFails \/ ConfirmRecords \/ Reenters \/ SessionDies

AgentNext ==
    \/ AgentStarts \/ AgentInit \/ AgentReads \/ AgentRecords
    \/ AgentConfirmFailed \/ AgentFinalizes \/ AgentEnds

OperatorNext ==
    \/ OperatorCommits \/ OperatorConfigures
    \/ SettleLoads \/ SettleSaves \/ SettleEnds

Rules == ruled' = ruled \cup {i \in Ids : ledger' # None /\ ledger'.settled[i] # None}

Next == (CodexNext \/ AgentNext \/ OperatorNext) /\ Rules

Spec == Init /\ [][Next]_vars

-----------------------------------------------------------------------------
(* Properties *)

TypeOK ==
    /\ head \in 0 .. MaxHead /\ anc \subseteq 0 .. MaxHead
    /\ ledger = None \/ /\ ledger.used \in 0 .. MaxCycles + 1
                        /\ Len(ledger.rounds) <= MaxRounds
                        /\ ledger.settled \in [Ids -> {None, "adjudication", "operator"}]
    /\ faults \in 0 .. MaxFaults

\* A review of that kind read the whole change at the commit and found nothing
\* that is not settled.
ReadClean(kind, sha) ==
    \E r \in seen : r.kind = kind /\ r.sha = sha /\ r.gates \subseteq ruled

\* A converged ledger names a commit that the loop backend read clean and, with
\* an independent confirm, the confirm backend too, and a published result
\* vouches for no tip with anything but clean merges above that commit: no
\* unread finding, moved tip, stale confirm or interrupted session is ever
\* taken for a clean round.
CleanMeansRead ==
    /\ (ledger # None /\ ledger.status = "converged") =>
          /\ ReadClean("loop", ledger.lastClean)
          /\ ledger.indep => ReadClean("confirm", ledger.lastClean)
    /\ pub # None => {k \in (pub.sha + 1) .. pub.tip : k \notin merges} = {}

\* However often it is requeued or dies, the codex loop makes no more fix
\* commits than its budget of cycles until somebody touches the branch, the
\* settings or the ledger.
FixesBounded == fixes <= cfg.max

\* operator-settle ends without a warning only if its save undid no write of a
\* worker: what its steps promise of a worker that started in between.
SettleReported == settle.pc = "saved" /\ s.pc = "idle" => ~settle.lost
==============================================================================
