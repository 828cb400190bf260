------------------------------ MODULE EventLog ------------------------------
\* The orchestrator's event inbox (cw.events), the followers that read it
\* without a lock (cw.events_tail, cw.events_follow) and the attention watchers
\* that page the operator from it (cw.attention_stream, cw.attention_watch).
\*
\* The inbox is one file of lines.  A recorder stamps its event before it waits
\* for the inbox lock, so lines need not be in the order of their stamps; a
\* stamp is the event's number here.  A prune archives what it drops and then
\* replaces the file: the replacement has an inode number different from the
\* file it replaces, but may have the number of an older one.  A follower's poll
\* is a stat, possibly a scan for its last event, and a read, each of them an
\* open of its own, with recorders and prunes in between.  A crash inside one
\* write() is left out, and every write moves the file's size or time.
EXTENDS Integers, FiniteSets, Sequences, SequencesExt

CONSTANTS
    Watchers,       \* the processes `cw orchestrate watch` of one scope
    Recorders,      \* processes that record events
    Kinds,          \* what events say: [what, key, mark]
    MaxEvents,      \* bound: events ever recorded
    MaxPrunes,      \* bound: rewrites of the inbox
    MaxArms,        \* bound: starts of watchers
    LatchMaxKeys,   \* LATCH_MAX_KEYS
    Keep,           \* the retention counts a prune may be given
    Cutoffs,        \* the stamps a prune may be given
    ArchiveModes,   \* whether prunes archive
    SinceArms       \* whether watchers are started with --since

VARIABLES
    kind,      \* kind[e]: what event e says
    waiting,   \* recorder -> the stamped event it has not appended yet, 0 if none
    log,       \* history: every event in the order of the appends
    inbox,     \* the lines of the file: event numbers
    torn,      \* the recorder that has written half of its line (and holds the lock), or 0
    ino,       \* the file's inode number
    archive,   \* history: the archived events
    deleted,   \* history: events pruned without archiving
    pruning,   \* the lines a prune holding the lock will keep, or NoPrune
    record,    \* the scope's cursor record
    w,         \* each watcher's process
    printed,   \* history: events whose line reached the operator
    exempt,    \* history: events a watcher started past
    gap,       \* history: a prune dropped something unread, or a --since start jumped
    prunes, arms

vars == <<kind, waiting, log, inbox, torn, ino, archive, deleted, pruning,
          record, w, printed, exempt, gap, prunes, arms>>

Event == 1..MaxEvents
Inodes == 1..2
NoPrune == <<0>>
EventLogAssumption ==
    /\ MaxEvents \in Nat /\ MaxPrunes \in Nat /\ LatchMaxKeys \in Nat \ {0}
    /\ \A k \in Kinds : k.what \in {"page", "clear", "other"} /\ {"key", "mark"} \subseteq DOMAIN k

NoRecord == [cursor |-> -1, latch |-> <<>>, owner |-> 0]

\* A follower that has not polled yet has no position; seed is its cursor.
\* same stands for the size and modification time of the last read: TRUE until
\* the file is next written.
Unresolved == [offset |-> -1, same |-> FALSE, ino |-> 0, cursor |-> 0, anchor |-> 0]

NoPlace == [offset |-> 0, anchor |-> 0]
Off == [pc |-> "off", f |-> Unresolved, latch |-> <<>>, at |-> NoPlace, lines |-> {}]

Init ==
    /\ kind = <<>>
    /\ waiting = [r \in Recorders |-> 0]
    /\ log = <<>> /\ inbox = <<>> /\ torn = 0
    /\ ino = 1
    /\ archive = {} /\ deleted = {}
    /\ pruning = NoPrune
    /\ record = NoRecord
    /\ w = [x \in Watchers |-> Off]
    /\ printed = {} /\ exempt = {} /\ gap = FALSE
    /\ prunes = 0 /\ arms = 0

\* ------------------------------------------------------------------------
\* Recording and pruning, under the inbox lock

\* A write changes the file's size and modification time.
Written == w' = [x \in Watchers |-> [w[x] EXCEPT !.f.same = FALSE]]
InboxFree == torn = 0 /\ pruning = NoPrune

\* OrchestratorEvent(...): the stamp is taken before the lock.
Stamp(r) ==
    /\ waiting[r] = 0 /\ Len(kind) < MaxEvents
    /\ \E k \in Kinds : kind' = Append(kind, k)
    /\ waiting' = [waiting EXCEPT ![r] = Len(kind) + 1]
    /\ UNCHANGED <<log, inbox, torn, ino, archive, deleted, pruning, record, w,
                   printed, exempt, gap, prunes, arms>>

\* The line lands in the file; a reader without the lock may see its first half.
BeginLine(r) ==
    /\ waiting[r] # 0 /\ InboxFree
    /\ torn' = r /\ Written
    /\ UNCHANGED <<kind, waiting, log, inbox, ino, archive, deleted, pruning, record,
                   printed, exempt, gap, prunes, arms>>

\* Partitions of the file for a prune: all but the newest n lines go, or all
\* lines stamped before b.
PartitionByKeep(s, n) == [kept |-> SubSeq(s, IF n >= Len(s) THEN 1 ELSE Len(s) - n + 1, Len(s)),
                          dropped |-> {s[i] : i \in 1..(Len(s) - n)}]
PartitionByBefore(s, b) == [kept |-> SelectSeq(s, LAMBDA e : e >= b),
                            dropped |-> {e \in ToSet(s) : e < b}]

PosIn(l, e) == IF e = 0 THEN 0 ELSE CHOOSE i \in 1..Len(l) : l[i] = e
Pos(e) == PosIn(log, e)

\* What every reader, running or resuming, has read: nothing the prune drops
\* may be past it, and the prune drops a prefix of the file.
Unread(l, e) ==
    \/ record # NoRecord /\ record.cursor >= 0 /\ PosIn(l, e) > Pos(record.cursor)
    \/ \E x \in Watchers : w[x].pc # "off" /\ PosIn(l, e) > Pos(w[x].f.cursor)
Clean(l, p) == /\ \A e \in p.dropped : ~Unread(l, e)
               /\ \A e \in p.dropped, k \in ToSet(p.kept) : PosIn(l, e) < PosIn(l, k)

\* _prune_events_locked up to the rewrite: the dropped lines are archived first.
PruneArchive(l, p, toArchive) ==
    /\ prunes < MaxPrunes /\ prunes' = prunes + 1
    /\ pruning' = p.kept
    /\ archive' = IF toArchive THEN archive \union p.dropped ELSE archive
    /\ deleted' = IF toArchive THEN deleted ELSE deleted \union p.dropped
    /\ gap' = (gap \/ ~Clean(l, p))

\* record_event: the append, then the auto-prune when the file has outgrown its
\* limit, both in the same hold of the lock.
EndLine(r) ==
    /\ torn = r
    /\ waiting' = [waiting EXCEPT ![r] = 0]
    /\ torn' = 0 /\ Written
    /\ inbox' = Append(inbox, waiting[r]) /\ log' = Append(log, waiting[r])
    /\ \/ UNCHANGED <<pruning, archive, deleted, gap, prunes>>
       \/ \E n \in Keep : PruneArchive(log', PartitionByKeep(inbox', n), TRUE)
    /\ UNCHANGED <<kind, ino, record, printed, exempt, arms>>

PruneEvents ==
    /\ InboxFree /\ inbox # <<>>
    /\ \E toArchive \in ArchiveModes :
        \/ \E n \in Keep : PruneArchive(log, PartitionByKeep(inbox, n), toArchive)
        \/ \E b \in Cutoffs : PruneArchive(log, PartitionByBefore(inbox, b), toArchive)
    /\ UNCHANGED <<kind, waiting, log, inbox, torn, ino, record, w, printed, exempt,
                   arms>>

\* atomic_write_text: a new file takes the inbox's name.
PruneRewrite ==
    /\ pruning # NoPrune
    /\ inbox' = pruning /\ pruning' = NoPrune
    /\ ino' \in Inodes \ {ino} /\ Written
    /\ UNCHANGED <<kind, waiting, log, torn, archive, deleted, record, printed, exempt,
                   gap, prunes, arms>>

\* The pruning process dies after archiving: the file is untouched.
PruneCrash ==
    /\ pruning # NoPrune /\ pruning' = NoPrune
    /\ UNCHANGED <<kind, waiting, log, inbox, torn, ino, archive, deleted, record, w,
                   printed, exempt, gap, prunes, arms>>

\* ------------------------------------------------------------------------
\* The dedupe latch: the keys paged and not cleared, oldest first

\* Latch.admit: a page is suppressed while its key is latched with its marker;
\* otherwise it becomes the newest entry, and past the limit the oldest is evicted.
Entry(e) == [key |-> kind[e].key, mark |-> kind[e].mark]
Admit(latch, e) ==
    IF Entry(e) \in ToSet(latch) THEN latch
    ELSE LET grown == Append(SelectSeq(latch, LAMBDA j : j.key # kind[e].key), Entry(e)) IN
         IF Len(grown) > LatchMaxKeys THEN Tail(grown) ELSE grown

\* AttentionStream.step over a batch: clears first touch the whole batch, then
\* the watched events are admitted one by one; the admitted ones are the lines.
Clears(events) == {kind[events[i]].key : i \in {j \in 1..Len(events) : kind[events[j]].what = "clear"}}
Pages(events) == SelectSeq(events, LAMBDA e : kind[e].what = "page")
\* Latch.clear over the batch.
AfterClears(latch, events) == SelectSeq(latch, LAMBDA j : j.key \notin Clears(events))
Admitted(latch, events, n) == FoldLeft(Admit, AfterClears(latch, events), SubSeq(Pages(events), 1, n))
StepLatch(latch, events) == Admitted(latch, events, Len(Pages(events)))
StepLines(latch, events) ==
    {Pages(events)[i] : i \in {j \in 1..Len(Pages(events)) :
                                Entry(Pages(events)[j]) \notin ToSet(Admitted(latch, events, j - 1))}}

\* ------------------------------------------------------------------------
\* The follower: a poll is a stat, perhaps a scan, and a read

Set(x, r) == w' = [w EXCEPT ![x] = r]
FollowOnly == UNCHANGED <<kind, waiting, log, inbox, torn, ino, archive, deleted,
                          pruning, record, printed, exempt, gap, prunes, arms>>

\* _poll_follow_state up to the read it decides on.
StatInbox(x) ==
    LET f == w[x].f IN
    /\ w[x].pc = "poll" /\ FollowOnly
    /\ IF f.offset = -1 \/ ino # f.ino \/ Len(inbox) < f.offset
       THEN Set(x, [w[x] EXCEPT !.pc = "locate"])
       ELSE /\ ~f.same
            /\ Set(x, [w[x] EXCEPT !.pc = "read",
                         !.at = [offset |-> f.offset, anchor |-> f.anchor]])

\* locate_after_event: the newest line of the cursor's event.
LocateAfterEvent(x) ==
    LET c == w[x].f.cursor IN
    /\ w[x].pc = "locate" /\ FollowOnly
    /\ IF c \in ToSet(inbox)
       THEN Set(x, [w[x] EXCEPT !.pc = "read again",
                      !.at = [offset |-> CHOOSE i \in 1..Len(inbox) : inbox[i] = c, anchor |-> c]])
       ELSE Set(x, [w[x] EXCEPT !.pc = "read all"])

\* The bytes before the offset are the ones the follower consumed.
Anchored(at) ==
    \/ at.offset = 0
    \/ at.offset <= Len(inbox) /\ inbox[at.offset] = at.anchor

\* The events of a read (_FollowState.from_read) and AttentionStream.step over
\* them: the lines to print and the latch, both in memory so far.
FromRead(x, events) ==
    [w[x] EXCEPT !.pc = IF events = <<>> THEN "poll" ELSE "emit", !.at = NoPlace,
       !.latch = StepLatch(w[x].latch, events), !.lines = StepLines(w[x].latch, events),
       !.f = [offset |-> Len(inbox), same |-> TRUE, ino |-> ino,
              cursor |-> IF events = <<>> THEN w[x].f.cursor ELSE Last(events),
              anchor |-> IF inbox = <<>> THEN 0 ELSE Last(inbox)]]

AfterOffset(n) == SubSeq(inbox, n + 1, Len(inbox))

\* The read without the comparison of the anchor.
ReadUnanchored(x) ==
    /\ w[x].pc \in {"read", "read again"} /\ FollowOnly
    /\ Set(x, FromRead(x, AfterOffset(w[x].at.offset)))

\* _read_lines_after_offset from a known position; a mismatch is resolved again.
ReadLinesAfterOffset(x) ==
    /\ w[x].pc \in {"read", "read again"} /\ FollowOnly
    /\ IF Anchored(w[x].at) THEN Set(x, FromRead(x, AfterOffset(w[x].at.offset)))
       ELSE Set(x, [w[x] EXCEPT !.pc = IF w[x].pc = "read" THEN "locate" ELSE "read all"])

\* _apply_cursor: past the cursor, or everything when the cursor is gone.
ApplyCursor(c) ==
    IF c \in ToSet(inbox) THEN AfterOffset(CHOOSE i \in 1..Len(inbox) : inbox[i] = c) ELSE inbox

\* _resolve_follow_start without a position: the whole file.
ReadAll(x) ==
    /\ w[x].pc = "read all" /\ FollowOnly
    /\ Set(x, FromRead(x, ApplyCursor(w[x].f.cursor)))


\* ------------------------------------------------------------------------
\* The watcher: cw orchestrate watch

Alive(x) == w[x].pc # "off"
Saved(x, c) == [cursor |-> c, latch |-> w[x].latch, owner |-> x]

\* _resolve_start: --since, else the saved cursor, else now, which starts past
\* every event recorded so far.
ResolveStart(since) ==
    IF since # 0 THEN since
    ELSE IF record.cursor > 0 THEN record.cursor
    ELSE IF inbox = <<>> THEN 0 ELSE Last(inbox)
StartsPast(since) ==
    IF since = 0 /\ record.cursor <= 0 THEN ToSet(log) ELSE {}

\* _serve up to the save: a record of another live watcher refuses the start
\* unless it is forced.
ArmLoad(x, since, force) ==
    /\ ~Alive(x) /\ arms < MaxArms /\ arms' = arms + 1
    /\ since \in {0} \union ToSet(log)
    /\ force \/ record.owner \notin {y \in Watchers : Alive(y)}
    /\ exempt' = exempt \union StartsPast(since)
    /\ gap' = (gap \/ since # 0)
    /\ Set(x, [Off EXCEPT !.pc = "arm", !.latch = record.latch,
                 !.f = [Unresolved EXCEPT !.cursor = ResolveStart(since)]])
    /\ UNCHANGED <<kind, waiting, log, inbox, torn, ino, archive, deleted, pruning,
                   record, printed, prunes>>

ArmSave(x) ==
    /\ w[x].pc = "arm"
    /\ record' = Saved(x, w[x].f.cursor)
    /\ Set(x, [w[x] EXCEPT !.pc = "poll"])
    /\ UNCHANGED <<kind, waiting, log, inbox, torn, ino, archive, deleted, pruning,
                   printed, exempt, gap, prunes, arms>>

\* _emit: the lines are printed; or stdout is gone and the watcher exits with
\* nothing saved.
Emit(x) ==
    /\ w[x].pc = "emit"
    /\ printed' = printed \union w[x].lines
    /\ Set(x, [w[x] EXCEPT !.pc = "save", !.lines = {}])
    /\ UNCHANGED <<kind, waiting, log, inbox, torn, ino, archive, deleted, pruning,
                   record, exempt, gap, prunes, arms>>

SaveCursor(x) ==
    /\ w[x].pc = "save"
    /\ record' = Saved(x, w[x].f.cursor)
    /\ Set(x, [w[x] EXCEPT !.pc = "poll"])
    /\ UNCHANGED <<kind, waiting, log, inbox, torn, ino, archive, deleted, pruning,
                   printed, exempt, gap, prunes, arms>>

\* A signal, a dead stdout, an error or a kill ends the watcher at any point.
Exit(x) == Alive(x) /\ FollowOnly /\ Set(x, Off)

Next ==
    \/ \E r \in Recorders : Stamp(r) \/ BeginLine(r) \/ EndLine(r)
    \/ PruneEvents \/ PruneRewrite \/ PruneCrash
    \/ \E x \in Watchers :
        \/ \E since \in {0} \union (IF SinceArms THEN Event ELSE {}), force \in BOOLEAN :
             ArmLoad(x, since, force)
        \/ ArmSave(x) \/ StatInbox(x) \/ LocateAfterEvent(x) \/ ReadLinesAfterOffset(x)
        \/ ReadAll(x) \/ Emit(x) \/ SaveCursor(x) \/ Exit(x)

Spec == Init /\ [][Next]_vars

\* ------------------------------------------------------------------------
\* Properties

\* The saved cursor is at or past the event.
Passed(e) == record.cursor > 0 /\ e \in ToSet(log) /\ Pos(e) <= Pos(record.cursor)
SameKeyBefore(e) == {d \in ToSet(log) : /\ kind[d] = kind[e] /\ Pos(d) < Pos(e)}
ClearedBetween(d, e) ==
    \E c \in ToSet(log) : /\ kind[c].what = "clear" /\ kind[c].key = kind[e].key
                          /\ Pos(d) < Pos(c) /\ Pos(c) < Pos(e)

\* No page is lost: once the saved cursor has passed a page, its line, or the
\* line of an earlier page with its key, was printed.  The cursor is saved only
\* after the lines are out (attention_stream.py:343-378), and polls without a
\* lock skip nothing over torn lines, prunes, reused inodes, exits and a second
\* forced watcher.  Events before a first start, and prunes of unread events, are
\* outside the claim.
PagesPrinted ==
    ~gap => \A e \in ToSet(log) :
        kind[e].what = "page" /\ Passed(e) /\ e \notin exempt =>
            e \in printed \/ SameKeyBefore(e) \cap printed # {}

\* attention_watch.py: "a repeat is suppressed until a resolving event clears
\* the key": a page after a clear of its key is printed again.
PagedAfterClear ==
    ~gap => \A e \in ToSet(log) :
        kind[e].what = "page" /\ Passed(e) /\ e \notin exempt =>
            \/ e \in printed
            \/ \E d \in SameKeyBefore(e) \cap printed : ~ClearedBetween(d, e)

\* A prune loses no event: what is neither in the inbox nor archived was pruned
\* without archiving (events.py:299-365 archives before it rewrites).
RecordedKept == ToSet(log) \subseteq ToSet(inbox) \union archive \union deleted
=============================================================================
