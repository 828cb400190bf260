----------------------------- MODULE EventParts -----------------------------
(***************************************************************************)
(* The part of the daemon that pages the operator: the event log from its  *)
(* recorders to its watchers.                                              *)
(***************************************************************************)
EXTENDS Naturals, Sequences, FiniteSets, Parts

CONSTANTS
    LogSettings  \* of Log

VARIABLES
    kind, waiting, eLog, inbox, torn, ino, archive, deleted, pruning, eRecord,
    w, printed, exempt, gap, prunes, arms

\* One watcher while the inbox is pruned twice; two recorders and a watcher
\* that starts again; and two watchers.
Log(st) == INSTANCE EventLog WITH
    log <- eLog, record <- eRecord, Watchers <- st.Watchers,
    Recorders <- st.Recorders, Kinds <- st.Kinds, MaxEvents <- st.MaxEvents,
    MaxPrunes <- st.MaxPrunes, MaxArms <- st.MaxArms,
    LatchMaxKeys <- st.LatchMaxKeys, Keep <- st.Keep, Cutoffs <- st.Cutoffs,
    ArchiveModes <- st.ArchiveModes, SinceArms <- st.SinceArms

ASSUME LogAssumption ==
    /\ \A st \in LogSettings : Log(st)!EventLogAssumption
    /\ \A st, other \in LogSettings : st.part = other.part => st = other

eVars == <<kind, waiting, eLog, inbox, torn, ino, archive, deleted, pruning,
    eRecord, w, printed, exempt, gap, prunes, arms>>

-----------------------------------------------------------------------------

\* The variables of a component that does not run.
NoEventLog ==
    /\ kind = 0 /\ waiting = 0 /\ eLog = 0 /\ inbox = 0 /\ torn = 0
    /\ ino = 0 /\ archive = 0 /\ deleted = 0 /\ pruning = 0 /\ eRecord = 0
    /\ w = 0 /\ printed = 0 /\ exempt = 0 /\ gap = 0 /\ prunes = 0
    /\ arms = 0

EventOff == NoEventLog

EventInit ==
    \/ \E st \in LogSettings : part = st.part /\ Log(st)!Init

EventNext ==
    \/ \E st \in LogSettings : part = st.part /\ Log(st)!Next /\ UNCHANGED
       <<part>>

EventVars == <<eVars>>

EventSpec == EventInit /\ [][EventNext]_<<part, EventVars>>

-----------------------------------------------------------------------------

\* No page is lost: once the saved cursor has passed a page, its line, or the
\* line of an earlier page with its key, was printed.  The cursor is saved only
\* after the lines are out (attention_stream.py:343-378), and polls without a
\* lock skip nothing over torn lines, prunes, reused inodes, exits and a second
\* forced watcher.  Events before a first start, and prunes of unread events, are
\* outside the claim.
PagesPrinted ==
    \A st \in LogSettings : part = st.part => Log(st)!PagesPrinted

\* A page after a clear of its key is printed, as attention_watch promises: "a
\* repeat is suppressed until a resolving event clears the key".
PagedAfterClear ==
    \A st \in LogSettings : part = st.part => Log(st)!PagedAfterClear
=============================================================================
