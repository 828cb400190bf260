-------------------------- MODULE ReviewWorkspace --------------------------
(***************************************************************************)
(* The findings workspace of a review, as the cw review workspace commands *)
(* keep it on disk: an active round (a directory of findings documents and *)
(* a marker), the archive of the rounds before it and the staging area of  *)
(* the next.  A new round is promoted by a journalled sequence of renames; *)
(* every command starts with the recovery of what an earlier one left.     *)
(* Commands exclude each other by a lock and may die after any write.      *)
(***************************************************************************)
EXTENDS Naturals, FiniteSets

CONSTANTS
    None,
    Tickets,
    Roles,
    MaxRounds,
    MaxCrashes

ReviewWorkspaceAssumption == MaxRounds \in Nat \ {0} /\ MaxCrashes \in Nat /\ Roles # {}

Rounds == 1..MaxRounds
Terminal == {"completed", "failed"}    \* _TERMINAL_STATES that cw writes

VARIABLES
    active,    \* [dir, marker]
    arch,      \* the archive entry of each round's transaction: [dir, marker, tx]
    stage,     \* the staging entry of each round: [dir, marker]
    op,        \* the command that holds the lock
    returned,  \* what the reviewers of each round returned
    wedged,    \* a command could not make sense of the workspace
    crashes

vars == <<active, arch, stage, op, returned, wedged, crashes>>

\* A directory carries the round it was made for, which the code does not see.
NewDir(i) == [of |-> i, docs |-> [r \in {} |-> ""], junk |-> FALSE]
\* _new_marker.
NewMarker(i, t) ==
    [round |-> i, ticket |-> t, status |-> "in_progress",
     roles |-> [r \in Roles |-> "pending"], fails |-> {}]

Init ==
    /\ active = [dir |-> None, marker |-> None]
    /\ arch = [i \in Rounds |-> None] /\ stage = arch
    /\ op = [pc |-> "idle"]
    /\ returned = [i \in Rounds |-> [r \in Roles |-> "nothing"]]
    /\ wedged = FALSE /\ crashes = 0

-----------------------------------------------------------------------------
(* Reading the workspace.                                                  *)

\* _documents, which refuses what does not belong to a reviewer.
Readable(dir) == IF dir = None THEN FALSE ELSE ~dir.junk
Returned(dir) == DOMAIN dir.docs
Degraded(dir) == \E r \in Returned(dir) : dir.docs[r] # "ok"

\* _reconcile_marker.
Reconciled(m, dir) ==
    LET roles == [r \in Roles |-> IF r \in Returned(dir) THEN "completed"
                                  ELSE IF r \in m.fails THEN "failed" ELSE "pending"]
        open == m.status \in Terminal /\ \E r \in Roles : roles[r] = "pending"
    IN  [m EXCEPT !.roles = roles,
                  !.status = IF open THEN "in_progress"
                             ELSE IF @ = "completed" /\ m.fails # {} THEN "failed" ELSE @]
Reconcilable(m, dir) ==
    IF ~Readable(dir) THEN FALSE
    ELSE /\ Returned(dir) \cap m.fails = {}
         /\ Reconciled(m, dir).status = "completed" => ~Degraded(dir)

\* _verify_bundle.
VerifyBundle(dir, m, i) ==
    IF ~Readable(dir) \/ m = None THEN FALSE
    ELSE /\ m.round = i
         /\ Returned(dir) \cap m.fails = {}
         /\ \A r \in Roles :
              /\ m.roles[r] = "completed" <=> r \in Returned(dir)
              /\ m.roles[r] = "failed" <=> r \in m.fails
         /\ m.status = "completed" =>
              (m.fails = {} /\ Returned(dir) = Roles /\ ~Degraded(dir))

Manifest(i) == IF arch[i] = None THEN None ELSE arch[i].tx
Pending == {i \in Rounds : IF Manifest(i) = None THEN FALSE ELSE Manifest(i).phase # "committed"}
Committed == {i \in Rounds : Manifest(i) # None} \ Pending
StageDir(i) == IF stage[i] = None THEN None ELSE stage[i].dir
StageMarker(i) == IF stage[i] = None THEN None ELSE stage[i].marker
ActivePair == active.dir # None /\ active.marker # None
NoActive == active.dir = None /\ active.marker = None

\* _verify_archived_new.
ArchivedOnce(i) ==
    LET copies == {k \in Rounds : IF arch[k] = None THEN FALSE
                                  ELSE IF arch[k].marker = None THEN FALSE ELSE arch[k].marker.round = i}
    IN  /\ Cardinality(copies) = 1
        /\ \A k \in copies : VerifyBundle(arch[k].dir, arch[k].marker, i)
\* _recover_committed, up to the reconciliation of the active marker.
CommittedOk(i) ==
    /\ StageDir(i) = None /\ StageMarker(i) = None
    /\ IF active.marker = None THEN ArchivedOnce(i)
       ELSE IF active.marker.round = i THEN Reconcilable(active.marker, active.dir)
       ELSE ArchivedOnce(i)
    /\ IF Manifest(i).prev # 0 THEN VerifyBundle(arch[i].dir, arch[i].marker, Manifest(i).prev)
       ELSE arch[i].dir = None /\ arch[i].marker = None

-----------------------------------------------------------------------------
(* The writes of a transaction.                                            *)

At(pc) == op.pc = pc
Goto(pc) == op' = [op EXCEPT !.pc = pc]
Done == op' = [pc |-> "idle"]
Wedge == wedged' = TRUE /\ Done

SetPhase(i, phase) == arch' = [arch EXCEPT ![i].tx.phase = phase] /\ UNCHANGED <<active, stage>>
ArchiveDirectory(i) ==
    /\ arch' = [arch EXCEPT ![i].dir = active.dir]
    /\ active' = [active EXCEPT !.dir = None] /\ UNCHANGED stage
ArchiveMarker(i) ==
    /\ arch' = [arch EXCEPT ![i].marker = active.marker]
    /\ active' = [active EXCEPT !.marker = None] /\ UNCHANGED stage
PromoteDirectory(i) ==
    /\ active' = [active EXCEPT !.dir = stage[i].dir]
    /\ stage' = [stage EXCEPT ![i].dir = None] /\ UNCHANGED arch
PromoteMarker(i) ==
    /\ active' = [active EXCEPT !.marker = stage[i].marker]
    /\ stage' = [stage EXCEPT ![i].marker = None] /\ UNCHANGED arch

\* _pair_state: which of the six paths of a transaction are there.
PairState(i) ==
    LET has(x) == x # None
    IN  <<has(active.dir), has(active.marker), has(arch[i].dir), has(arch[i].marker),
          has(StageDir(i)), has(StageMarker(i))>>
Phase(i) == Manifest(i).phase
VerifyOld(i, dir, m) == VerifyBundle(dir, m, Manifest(i).prev)
VerifyNew(i, dir, m) == VerifyBundle(dir, m, i)

\* The handlers of _recover_old, by the state of the paths.  Each verifies what
\* it is about to move, brings the phase up to date and moves it: one write at a
\* time here, for the next look finds the handler that goes on.
RecoverOldActivePair(i) ==
    /\ PairState(i) = <<TRUE, TRUE, FALSE, FALSE, TRUE, TRUE>>
    /\ Phase(i) = "prepared"
    /\ VerifyOld(i, active.dir, active.marker) /\ VerifyNew(i, StageDir(i), StageMarker(i))
    /\ ArchiveDirectory(i)
RecoverOldDirectoryMoved(i) ==
    /\ PairState(i) = <<FALSE, TRUE, TRUE, FALSE, TRUE, TRUE>>
    /\ VerifyOld(i, arch[i].dir, active.marker) /\ VerifyNew(i, StageDir(i), StageMarker(i))
    /\ \/ Phase(i) = "prepared" /\ SetPhase(i, "active_directory_archived")
       \/ Phase(i) = "active_directory_archived" /\ ArchiveMarker(i)
RecoverOldArchived(i) ==
    /\ PairState(i) = <<FALSE, FALSE, TRUE, TRUE, TRUE, TRUE>>
    /\ VerifyOld(i, arch[i].dir, arch[i].marker) /\ VerifyNew(i, StageDir(i), StageMarker(i))
    /\ \/ Phase(i) = "active_directory_archived" /\ SetPhase(i, "active_marker_archived")
       \/ Phase(i) = "active_marker_archived" /\ SetPhase(i, "archive_committed")
       \/ Phase(i) = "archive_committed" /\ PromoteDirectory(i)
RecoverOldNewDirectory(i) ==
    /\ PairState(i) = <<TRUE, FALSE, TRUE, TRUE, FALSE, TRUE>>
    /\ VerifyOld(i, arch[i].dir, arch[i].marker) /\ VerifyNew(i, active.dir, StageMarker(i))
    /\ \/ Phase(i) = "archive_committed" /\ SetPhase(i, "staging_directory_promoted")
       \/ Phase(i) = "staging_directory_promoted" /\ PromoteMarker(i)
RecoverOldNewPair(i) ==
    /\ PairState(i) = <<TRUE, TRUE, TRUE, TRUE, FALSE, FALSE>>
    /\ VerifyOld(i, arch[i].dir, arch[i].marker) /\ VerifyNew(i, active.dir, active.marker)
    /\ \/ Phase(i) = "staging_directory_promoted" /\ SetPhase(i, "staging_marker_promoted")
       \/ Phase(i) = "staging_marker_promoted" /\ SetPhase(i, "committed")
RecoverOld(i) ==
    /\ Manifest(i).prev # 0
    /\ \/ RecoverOldActivePair(i) \/ RecoverOldDirectoryMoved(i) \/ RecoverOldArchived(i)
       \/ RecoverOldNewDirectory(i) \/ RecoverOldNewPair(i)

\* _recover_no_old: the first round has nothing to archive.
RecoverNoOld(i) ==
    /\ Manifest(i).prev = 0
    /\ \/ /\ PairState(i) = <<FALSE, FALSE, FALSE, FALSE, TRUE, TRUE>>
          /\ \/ Phase(i) = "prepared" /\ SetPhase(i, "archive_committed")
             \/ /\ Phase(i) = "archive_committed" /\ VerifyNew(i, StageDir(i), StageMarker(i))
                /\ PromoteDirectory(i)
       \/ /\ PairState(i) = <<TRUE, FALSE, FALSE, FALSE, FALSE, TRUE>>
          /\ \/ Phase(i) = "archive_committed" /\ SetPhase(i, "staging_directory_promoted")
             \/ /\ Phase(i) = "staging_directory_promoted" /\ VerifyNew(i, active.dir, StageMarker(i))
                /\ PromoteMarker(i)
       \/ /\ PairState(i) = <<TRUE, TRUE, FALSE, FALSE, FALSE, FALSE>>
          /\ VerifyNew(i, active.dir, active.marker)
          /\ \/ Phase(i) = "staging_directory_promoted" /\ SetPhase(i, "staging_marker_promoted")
             \/ Phase(i) = "staging_marker_promoted" /\ SetPhase(i, "committed")

-----------------------------------------------------------------------------
(* _recover_all.                                                           *)

\* It is inconsistent where no handler fits, or more than one is to be recovered.
RecoverTransaction ==
    /\ At("recover") /\ Pending # {}
    /\ IF Cardinality(Pending) = 1 /\ \E i \in Pending : ENABLED (RecoverOld(i) \/ RecoverNoOld(i))
       THEN (\E i \in Pending : RecoverOld(i) \/ RecoverNoOld(i)) /\ UNCHANGED <<op, wedged>>
       ELSE Wedge /\ UNCHANGED <<active, arch, stage>>
    /\ UNCHANGED <<returned, crashes>>

\* Every committed transaction is verified, and the active marker reconciled.
RecoverCommitted ==
    /\ At("recover") /\ Pending = {}
    /\ IF \A i \in Committed : CommittedOk(i)
       THEN /\ Goto("staging") /\ UNCHANGED wedged
            /\ IF active.marker = None THEN UNCHANGED active
               ELSE IF active.marker.round \in Committed
                    THEN active' = [active EXCEPT !.marker = Reconciled(@, active.dir)] ELSE UNCHANGED active
       ELSE Wedge /\ UNCHANGED active
    /\ UNCHANGED <<arch, stage, returned, crashes>>

\* _inspect_staging_entry.
StagedOk(i) ==
    stage[i] # None =>
      IF stage[i].marker = None THEN stage[i].dir = None /\ i \in Committed
      ELSE i \notin Committed
Orphans == {i \in Rounds : StageMarker(i) # None /\ Manifest(i) = None}
Unfinished == {i \in Rounds : arch[i] # None /\ Manifest(i) = None}

\* _transaction_from_staging: what the manifest of an orphan would say.
OrphanOk(i) ==
    /\ VerifyBundle(StageDir(i), StageMarker(i), i) /\ Returned(StageDir(i)) = {}
    /\ \/ NoActive
       \/ /\ ActivePair
          /\ active.marker.status # "in_progress"
          /\ VerifyBundle(active.dir, active.marker, active.marker.round)
NewTransaction == [phase |-> "prepared", prev |-> IF ActivePair THEN active.marker.round ELSE 0]
WriteManifest(i) == arch' = [arch EXCEPT ![i] = [dir |-> None, marker |-> None, tx |-> NewTransaction]]

\* _recover_staging_entries.
RecoverStaging ==
    /\ At("staging")
    /\ IF /\ \A i \in Rounds : StagedOk(i)
          /\ Cardinality(Orphans) <= 1 /\ \A i \in Orphans : OrphanOk(i)
          /\ Unfinished \subseteq Orphans
       THEN /\ IF Orphans = {} THEN Goto("body") /\ UNCHANGED arch
               ELSE Goto("recover") /\ \E i \in Orphans : WriteManifest(i)
            /\ UNCHANGED wedged
       ELSE Wedge /\ UNCHANGED arch
    /\ UNCHANGED <<active, stage, returned, crashes>>

-----------------------------------------------------------------------------
(* The commands.                                                           *)

\* One at a time: the others find the lock taken and return.
Begin(cmd) == At("idle") /\ op' = cmd /\ UNCHANGED <<active, arch, stage, returned, wedged, crashes>>
InitializeWorkspace(t, i) == Begin([pc |-> "recover", cmd |-> "init", ticket |-> t, round |-> i])
RecordDocument(r, d) == Begin([pc |-> "recover", cmd |-> "document", role |-> r, doc |-> d])
RecordFailure(r) == Begin([pc |-> "recover", cmd |-> "failure", role |-> r])
FinishWorkspace(st) == Begin([pc |-> "recover", cmd |-> "finish", status |-> st])
RecoverWorkspace == Begin([pc |-> "recover", cmd |-> "recover"])

Body(cmd) == At("body") /\ op.cmd = cmd
Refused == Done /\ UNCHANGED wedged

\* _resume_or_previous and the refusals of _start_round.
ResumeOrStart ==
    /\ Body("init")
    /\ IF ~(ActivePair \/ NoActive) THEN Wedge
       ELSE /\ UNCHANGED wedged
            /\ IF \/ (IF ActivePair THEN active.marker.status = "in_progress" ELSE FALSE)
                  \/ arch[op.round] # None \/ stage[op.round] # None
               THEN Done ELSE Goto("stage")
    /\ UNCHANGED <<active, arch, stage, returned, crashes>>

\* _start_round, write by write; the promotion is the recovery of its manifest.
StageDirectory ==
    /\ At("stage") /\ Goto("mark")
    /\ stage' = [stage EXCEPT ![op.round] = [dir |-> NewDir(op.round), marker |-> None]]
    /\ UNCHANGED <<active, arch, returned, wedged, crashes>>
StageTheMarker ==
    /\ At("mark") /\ Goto("entry")
    /\ stage' = [stage EXCEPT ![op.round].marker = NewMarker(op.round, op.ticket)]
    /\ UNCHANGED <<active, arch, returned, wedged, crashes>>
MakeEntry ==
    /\ At("entry") /\ Goto("manifest")
    /\ arch' = [arch EXCEPT ![op.round] = [dir |-> None, marker |-> None, tx |-> None]]
    /\ UNCHANGED <<active, stage, returned, wedged, crashes>>
Prepare ==
    /\ At("manifest") /\ op' = [pc |-> "recover", cmd |-> "recover"]
    /\ WriteManifest(op.round)
    /\ UNCHANGED <<active, stage, returned, wedged, crashes>>

\* _require_pending, on the marker that was just reconciled.
RequirePending(r) ==
    IF ActivePair THEN active.marker.status = "in_progress" /\ active.marker.roles[r] = "pending" ELSE FALSE

Note(r, what) == returned' = [returned EXCEPT ![active.marker.round][r] = what]
WriteArtifact ==
    /\ Body("document")
    /\ IF RequirePending(op.role)
       THEN /\ active' = [active EXCEPT !.dir.docs =
                 [q \in DOMAIN @ \cup {op.role} |-> IF q = op.role THEN op.doc ELSE @[q]]]
            /\ Note(op.role, op.doc) /\ Goto("noted")
       ELSE Done /\ UNCHANGED <<active, returned>>
    /\ UNCHANGED <<arch, stage, wedged, crashes>>
\* The marker follows, and is reconciled once more.
WriteMarker ==
    /\ At("noted") /\ Done
    /\ active' = [active EXCEPT !.marker = Reconciled([@ EXCEPT !.roles[op.role] = "completed"], active.dir)]
    /\ UNCHANGED <<arch, stage, returned, wedged, crashes>>

WriteFailure ==
    /\ Body("failure") /\ Done
    /\ IF RequirePending(op.role)
       THEN /\ active' = [active EXCEPT !.marker.roles[op.role] = "failed", !.marker.fails = @ \cup {op.role}]
            /\ Note(op.role, "failure")
       ELSE UNCHANGED <<active, returned>>
    /\ UNCHANGED <<arch, stage, wedged, crashes>>

\* finish_workspace: what stands in the way of a status.
Finishable(m, st) ==
    /\ m.status = "in_progress"
    /\ st = "completed" =>
         /\ \A r \in Roles : m.roles[r] # "pending"
         /\ m.fails = {} /\ ~Degraded(active.dir)
WriteFinish ==
    /\ Body("finish") /\ Done
    /\ active' = IF ~ActivePair THEN active
                 ELSE IF ~Finishable(active.marker, op.status) THEN active
                 ELSE [active EXCEPT !.marker.status = op.status]
    /\ UNCHANGED <<arch, stage, returned, wedged, crashes>>
RecoverEnds == Body("recover") /\ Done /\ UNCHANGED <<active, arch, stage, returned, wedged, crashes>>

\* The command dies, in the write of a document if that is what it was at:
\* the temporary file stays in the directory.
Crash ==
    /\ ~At("idle") /\ crashes < MaxCrashes /\ crashes' = crashes + 1 /\ Done
    /\ \/ UNCHANGED active
       \/ /\ Body("document") /\ RequirePending(op.role)
          /\ active' = [active EXCEPT !.dir.junk = TRUE]
    /\ UNCHANGED <<arch, stage, returned, wedged>>

\* A round identity that was used, or the next new one.
Named(i) == \A k \in 1..(i - 1) : arch[k] # None \/ stage[k] # None

Next ==
    \/ \E t \in Tickets, i \in Rounds : Named(i) /\ InitializeWorkspace(t, i)
    \/ \E r \in Roles : RecordFailure(r) \/ \E d \in {"ok", "degraded"} : RecordDocument(r, d)
    \/ \E st \in Terminal : FinishWorkspace(st)
    \/ RecoverWorkspace \/ RecoverTransaction \/ RecoverCommitted \/ RecoverStaging
    \/ ResumeOrStart \/ StageDirectory \/ StageTheMarker \/ MakeEntry \/ Prepare
    \/ WriteArtifact \/ WriteMarker \/ WriteFailure \/ WriteFinish \/ RecoverEnds \/ Crash

Spec == Init /\ [][Next]_vars

-----------------------------------------------------------------------------

\* The crashes the workspace does not recover from: in the write of a document,
\* and between the staging directory and its marker.
Torn ==
    \/ \E i \in Rounds : StageDir(i) # None /\ StageMarker(i) = None /\ Manifest(i) = None
    \/ IF active.dir = None THEN FALSE ELSE active.dir.junk

Dirs == {active.dir} \cup {arch[i].dir : i \in {i \in Rounds : arch[i] # None}}
Markers == {active.marker} \cup {arch[i].marker : i \in {i \in Rounds : arch[i] # None}}

\* What a reviewer returned is kept with its round, whatever dies during the
\* promotion of a later one: a document is in the directory of its round and a
\* failure in its marker; at rest no marker stands beside another round's
\* directory; and the next command always finds its way, except from a torn
\* write (recover_workspace and the transaction handlers).
WorkKept ==
    /\ \A i \in Rounds, r \in Roles :
         LET x == returned[i][r] IN
         CASE x = "nothing" -> TRUE
           [] x = "failure" -> \E m \in Markers \ {None} : m.round = i /\ r \in m.fails
           [] OTHER -> \E d \in Dirs \ {None} :
                         d.of = i /\ (IF r \in DOMAIN d.docs THEN d.docs[r] = x ELSE FALSE)
    /\ At("body") /\ ActivePair => active.dir.of = active.marker.round
    /\ wedged => Torn

=============================================================================
