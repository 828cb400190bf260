-------------------------- MODULE DispatchPartsProofs --------------------------
(***************************************************************************)
(* What the dispatch side keeps for every value of its constants: the      *)
(* usage-limit windows, the lane circuit breaker and the dirty checks.     *)
(* Each part has an inductive invariant of its own; Inv says that the part *)
(* that runs keeps its own.                                                *)
(***************************************************************************)
EXTENDS DispatchParts, Integers, TLAPS

(***************************************************************************)
(* Usage-limit windows.  The property is about one step, and needs only    *)
(* that deadlines and the clock are numbers.                               *)
(***************************************************************************)

LEMMA WindowsInit ==
    ASSUME Windows!Init
    PROVE  Windows!TypeOK
BY Zenon DEF Windows!Init, Windows!TypeOK, Windows!NoWindows

\* The windows that a loop or the file can hold are numbers per client.
LEMMA WindowValues ==
    ASSUME Windows!TypeOK
    PROVE  /\ Windows!NoWindows \in [WindowClients -> Nat]
           /\ Windows!Future(file) \in [WindowClients -> Nat]
           /\ \A r \in Resets \cup {Windows!NoReset} : r \in Nat
           /\ \A r \in Nat : Windows!Resolve(r) \in Nat
           /\ \A f, g \in [WindowClients -> Nat] : Windows!MergeLater(f, g) \in [WindowClients -> Nat]
BY WindowsAssumption
   DEF Windows!WindowAssumption, Windows!TypeOK, Windows!NoWindows, Windows!Future,
       Windows!Resolve, Windows!NoReset, Windows!MergeLater

LEMMA WindowsStep ==
    ASSUME Windows!TypeOK, Windows!Next
    PROVE  Windows!TypeOK'
<1> USE WindowValues DEF Windows!TypeOK
<1>1. ASSUME NEW l \in Loops, Windows!StartLoop(l)
      PROVE  Windows!TypeOK'
  BY <1>1, Zenon DEF Windows!StartLoop, Windows!AnyActive
<1>2. ASSUME NEW l \in Loops, NEW read \in {Windows!Future(file), Windows!NoWindows},
             Windows!TickTop(l, read)
      PROVE  Windows!TypeOK'
  <2>1. Windows!MergeLater(mem[l], read) \in [WindowClients -> Nat]
    BY Zenon
  <2> QED
    BY <1>2, <2>1 DEF Windows!TickTop, Windows!AnyActive
<1>3. ASSUME NEW l \in Loops, Windows!TickQuiet(l)
      PROVE  Windows!TypeOK'
  BY <1>3, Zenon DEF Windows!TickQuiet
<1>4. ASSUME NEW l \in Loops, NEW c \in WindowClients, NEW r \in Resets \cup {Windows!NoReset},
             Windows!SpawnHitsLimit(l, c, r)
      PROVE  Windows!TypeOK'
  BY <1>4 DEF Windows!SpawnHitsLimit
<1>5. ASSUME NEW l \in Loops, Windows!ReconcileHitsLimit(l)
      PROVE  Windows!TypeOK'
  BY <1>5 DEF Windows!ReconcileHitsLimit
<1>6. ASSUME NEW l \in Loops, Windows!ArmWindows(l)
      PROVE  Windows!TypeOK'
  BY <1>6, Zenon DEF Windows!ArmWindows
<1>7. ASSUME NEW l \in Loops, Windows!SaveWindows(l)
      PROVE  Windows!TypeOK'
  BY <1>7, Zenon DEF Windows!SaveWindows
<1>8. ASSUME NEW l \in Loops, Windows!SaveFails(l) \/ Windows!ExitLoop(l)
      PROVE  Windows!TypeOK'
  BY <1>8, Zenon DEF Windows!SaveFails, Windows!ExitLoop
<1>9. ASSUME NEW c \in WindowClients, NEW r \in Resets \cup {Windows!NoReset},
             Windows!OutsideArm(c, r)
      PROVE  Windows!TypeOK'
  <2>1. [Windows!NoWindows EXCEPT ![c] = Windows!Resolve(r)] \in [WindowClients -> Nat]
    BY Zenon
  <2>2. Windows!MergeLater([Windows!NoWindows EXCEPT ![c] = Windows!Resolve(r)],
                           Windows!Future(file)) \in [WindowClients -> Nat]
    BY <2>1, Zenon
  <2>3. file' \in [WindowClients -> Nat]
    BY <1>9, <2>2, Zenon DEF Windows!OutsideArm
  <2>4. /\ UNCHANGED <<now, mem, pc, det, active, cleared>>
        /\ arms' = arms + 1
    BY <1>9, Zenon DEF Windows!OutsideArm
  <2> QED
    BY <2>3, <2>4
<1>10. ASSUME Windows!ClockTick
       PROVE  Windows!TypeOK'
  BY <1>10 DEF Windows!ClockTick
<1> QED
  BY <1>1, <1>2, <1>3, <1>4, <1>5, <1>6, <1>7, <1>8, <1>9, <1>10, Zenon
     DEF Windows!Next, Windows!LoopStep

\* Only a merge with the live windows of the file writes the file.
LEMMA WindowsKeep ==
    ASSUME Windows!TypeOK, Windows!Next
    PROVE  Windows!KeepsLiveWindows
<1>1. ASSUME NEW f \in [WindowClients -> Nat], file' = Windows!MergeLater(f, Windows!Future(file))
      PROVE  Windows!KeepsLiveWindows
  BY <1>1 DEF Windows!KeepsLiveWindows, Windows!MergeLater, Windows!Future, Windows!TypeOK
<1>2. ASSUME file' = file
      PROVE  Windows!KeepsLiveWindows
  BY <1>2 DEF Windows!KeepsLiveWindows, Windows!TypeOK
<1>3. ASSUME NEW l \in Loops, Windows!SaveWindows(l)
      PROVE  Windows!KeepsLiveWindows
  BY <1>1, <1>3, Zenon DEF Windows!SaveWindows, Windows!TypeOK
<1>4. ASSUME NEW c \in WindowClients, NEW r \in Resets \cup {Windows!NoReset},
             Windows!OutsideArm(c, r)
      PROVE  Windows!KeepsLiveWindows
  <2>1. [Windows!NoWindows EXCEPT ![c] = Windows!Resolve(r)] \in [WindowClients -> Nat]
    BY WindowValues, Zenon
  <2> QED
    BY <1>1, <1>4, <2>1, Zenon DEF Windows!OutsideArm
<1> QED
  BY <1>2, <1>3, <1>4, Zenon
     DEF Windows!Next, Windows!LoopStep, Windows!StartLoop, Windows!TickTop, Windows!TickQuiet,
         Windows!SpawnHitsLimit, Windows!ReconcileHitsLimit, Windows!ArmWindows,
         Windows!SaveFails, Windows!ExitLoop, Windows!ClockTick

-----------------------------------------------------------------------------
(***************************************************************************)
(* The lane circuit breaker: an operator's pause.  The breaker writes the  *)
(* override in two places, a trip and an auto-resume, and both look at the *)
(* source of the pause under the lock.                                     *)
(***************************************************************************)

OverrideFields ==
    {"paused", "source", "spawnErrors", "worktreeErrors", "streak", "halfOpen", "resumeAt",
     "notifyAt"}

\* The inductive invariant of the operator's pauses.
CircuitInv ==
    /\ DOMAIN ov = OverrideFields
    /\ ov.paused \in {"none", "true", "false"}
    /\ held => ov.paused = "true" /\ ov.source = "operator"
    /\ declared /\ ~lifted => ov.paused # "false"

LEMMA CircuitInit ==
    ASSUME Circuit!Init
    PROVE  CircuitInv
BY Zenon DEF Circuit!Init, CircuitInv, OverrideFields, Circuit!NoOverride

LEMMA CircuitStep ==
    ASSUME CircuitInv, Circuit!Next
    PROVE  CircuitInv'
<1> USE DEF CircuitInv, OverrideFields, Circuit!hist
<1>1. ASSUME NEW l \in Loops, Circuit!AutoResume(l)
      PROVE  CircuitInv'
  BY <1>1, Zenon DEF Circuit!AutoResume, Circuit!AutoResumeDue, Circuit!HalfOpen
<1>2. ASSUME NEW l \in Loops, Circuit!Page(l)
      PROVE  CircuitInv'
  BY <1>2, Zenon DEF Circuit!Page
<1>3. ASSUME NEW l \in Loops, Circuit!SpawnSucceeds(l)
      PROVE  CircuitInv'
  BY <1>3, Zenon DEF Circuit!SpawnSucceeds
<1>4. ASSUME NEW l \in Loops, Circuit!RecordError(l)
      PROVE  CircuitInv'
  BY <1>4, Zenon DEF Circuit!RecordError, Circuit!Counted, Circuit!IsOperatorHeld
<1>5. ASSUME NEW l \in Loops, NEW w \in BOOLEAN,
             \/ Circuit!TickStart(l) \/ Circuit!LoadOverrides(l)
             \/ Circuit!SpawnFails(l, w)
      PROVE  CircuitInv'
  BY <1>5 DEF Circuit!TickStart, Circuit!LoadOverrides, Circuit!SpawnFails
<1>6. CASE Circuit!LanePause
  BY <1>6, Zenon DEF Circuit!LanePause
<1>7. CASE Circuit!LaneResume
  BY <1>7, Zenon DEF Circuit!LaneResume, Circuit!NoOverride
<1>8. CASE Circuit!DeclarePause
  BY <1>8, Zenon DEF Circuit!DeclarePause
<1>9. CASE Circuit!QueueMoves \/ Circuit!SlotFrees \/ Circuit!ClockTick
  BY <1>9 DEF Circuit!QueueMoves, Circuit!SlotFrees, Circuit!ClockTick
<1> QED
  BY <1>1, <1>2, <1>3, <1>4, <1>5, <1>6, <1>7, <1>8, <1>9, Zenon DEF Circuit!Next, Circuit!LoopStep

LEMMA CircuitKeeps ==
    ASSUME CircuitInv
    PROVE  Circuit!OperatorPausesKept
BY Zenon DEF CircuitInv, Circuit!OperatorPausesKept, Circuit!OperatorPauseSticky,
       Circuit!DeclaredPauseSurvives, Circuit!EffectivelyPaused

-----------------------------------------------------------------------------
(***************************************************************************)
(* The lane circuit breaker: the free probe.  A failure is uncharged when  *)
(* the half-open flag was set at the charge; the flag is cleared when that *)
(* failure is recorded, so it is clear or the record is still to come.     *)
(***************************************************************************)

\* The inductive invariant of the free probe.
ProbeInv ==
    /\ DOMAIN ov = OverrideFields
    /\ DOMAIN tick = {ProbeLoop}
    /\ DOMAIN tick[ProbeLoop] = {"pc", "copy", "pending", "worktree"}
    /\ \/ free = 0
       \/ free = 1 /\ (tick[ProbeLoop].pc = "record" \/ ~ov.halfOpen)

LEMMA ProbeInit ==
    ASSUME Probe!Init
    PROVE  ProbeInv
BY Zenon DEF Probe!Init, ProbeInv, OverrideFields, Probe!NoOverride, Probe!Idle

LEMMA ProbeStep ==
    ASSUME ProbeInv, Probe!Next
    PROVE  ProbeInv'
<1> USE DEF ProbeInv, OverrideFields, Probe!hist, Probe!Idle
<1>1. CASE Probe!AutoResume(ProbeLoop)
  BY <1>1, Zenon DEF Probe!AutoResume, Probe!AutoResumeDue, Probe!HalfOpen
<1>2. CASE Probe!Page(ProbeLoop)
  BY <1>2, Zenon DEF Probe!Page
<1>3. CASE Probe!SpawnSucceeds(ProbeLoop)
  BY <1>3, Zenon DEF Probe!SpawnSucceeds
<1>4. CASE Probe!RecordError(ProbeLoop)
  BY <1>4, Zenon DEF Probe!RecordError, Probe!Counted
<1>5. CASE Probe!TickStart(ProbeLoop)
  BY <1>5, Zenon DEF Probe!TickStart
<1>6. CASE Probe!LoadOverrides(ProbeLoop)
  BY <1>6, Zenon DEF Probe!LoadOverrides
<1>7. ASSUME NEW w \in BOOLEAN, Probe!SpawnFails(ProbeLoop, w)
      PROVE  ProbeInv'
  BY <1>7 DEF Probe!SpawnFails
<1>8. CASE Probe!LanePause \/ Probe!LaneResume
  BY <1>8, ZenonT(40) DEF Probe!LanePause, Probe!LaneResume, Probe!NoOverride
<1>9. CASE Probe!DeclarePause \/ Probe!QueueMoves \/ Probe!SlotFrees \/ Probe!ClockTick
  BY <1>9, Zenon DEF Probe!DeclarePause, Probe!QueueMoves, Probe!SlotFrees, Probe!ClockTick
<1> QED
  BY <1>1, <1>2, <1>3, <1>4, <1>5, <1>6, <1>7, <1>8, <1>9, Zenon DEF Probe!Next, Probe!LoopStep

LEMMA ProbeKeeps ==
    ASSUME ProbeInv
    PROVE  Probe!OneFreeProbe
BY DEF ProbeInv, Probe!OneFreeProbe

-----------------------------------------------------------------------------
(***************************************************************************)
(* The outages announced by the dirty checks.  A claim on the latch is     *)
(* released with its token, so a thread never drops or keeps the claim of  *)
(* another.                                                                *)
(***************************************************************************)

DirtyTickFields ==
    {"pc", "todo", "store", "outages", "captures", "deferred", "truncated", "token", "fresh"}

\* The inductive invariant of the latch.
DirtyInv ==
    /\ DOMAIN qTick = Threads
    /\ \A t \in Threads : qTick[t] = Dirty!Idle \/ DOMAIN qTick[t] = DirtyTickFields
    /\ Dirty!QuietMeansPaged

LEMMA DirtyInit ==
    ASSUME Dirty!Init
    PROVE  DirtyInv
BY Zenon DEF Dirty!Init, DirtyInv, Dirty!QuietMeansPaged

\* The thread t is about to record the event of kind k under token m.
Owes(t, m, k) == qTick[t].pc = "announce" /\ qTick[t].token = m /\ k \in qTick[t].fresh

LEMMA DirtyStep ==
    ASSUME DirtyInv, Dirty!Next
    PROVE  DirtyInv'
<1> USE DEF DirtyInv, DirtyTickFields, Dirty!Idle, Dirty!At
<1>0. ASSUME UNCHANGED <<qTick, announced, told>>
      PROVE  DirtyInv'
  BY <1>0, Zenon DEF Dirty!QuietMeansPaged
<1>1. CASE Dirty!Restart
  BY <1>1, Zenon DEF Dirty!Restart, Dirty!QuietMeansPaged
<1>2. \A k \in DOMAIN announced :
         <<announced[k], k>> \in told \/ \E t \in Threads : Owes(t, announced[k], k)
  BY Zenon DEF Dirty!QuietMeansPaged, Owes
\* A step of a thread that owes no event leaves the debts of the others.
<1>3. ASSUME NEW t \in Threads, qTick[t].pc # "announce",
             UNCHANGED <<announced, told>>, DOMAIN qTick' = Threads,
             \A u \in Threads \ {t} : qTick'[u] = qTick[u],
             qTick'[t] = Dirty!Idle \/ DOMAIN qTick'[t] = DirtyTickFields
      PROVE  DirtyInv'
  <2>1. \A m, k : \A u \in Threads : Owes(u, m, k) => Owes(u, m, k)'
    BY <1>3, Zenon DEF Owes
  <2> QED
    BY <1>2, <1>3, <2>1 DEF Dirty!QuietMeansPaged, Owes
<1>4. ASSUME NEW t \in Threads, Dirty!TickStart(t)
      PROVE  DirtyInv'
  BY <1>3, <1>4, Zenon DEF Dirty!TickStart
<1>5. ASSUME NEW t \in Threads, Dirty!Capture(t)
      PROVE  DirtyInv'
  <2> DEFINE next == Dirty!Captured(qTick[t], Head(qTick[t].todo))
  <2>1. /\ qTick[t].pc \in {"backstop", "phantom"} /\ UNCHANGED <<announced, told>>
        /\ \/ qTick' = [qTick EXCEPT ![t] = [next EXCEPT !.captures = @ + 1]]
           \/ qTick' = [qTick EXCEPT ![t].todo = <<>>, ![t].truncated = TRUE]
    BY <1>5, Zenon DEF Dirty!Capture, Dirty!Capturing
  <2>2. DOMAIN qTick[t] = DirtyTickFields
    BY <2>1
  <2>3. DOMAIN next = DOMAIN qTick[t]
    BY Zenon DEF Dirty!Captured
  <2> HIDE DEF next
  <2> QED
    BY <1>3, <2>1, <2>2, <2>3, SMTT(40)
<1>6. ASSUME NEW t \in Threads, Dirty!CapturePhantoms(t)
      PROVE  DirtyInv'
  BY <1>3, <1>6, SMTT(40) DEF Dirty!CapturePhantoms
<1>7. ASSUME NEW t \in Threads, Dirty!SettleOutages(t)
      PROVE  DirtyInv'
  <2> DEFINE kept == Dirty!Kept(qTick[t])
             fresh == qTick[t].outages \ DOMAIN kept
  <2>1. /\ qTick[t].pc = "phantom"
        /\ announced' = [k \in DOMAIN kept \cup fresh |->
                            IF k \in fresh THEN qTick[t].token ELSE kept[k]]
        /\ qTick' = [qTick EXCEPT ![t].pc = "announce", ![t].fresh = fresh]
        /\ told' = told
    BY <1>7, Zenon DEF Dirty!SettleOutages
  <2>2. /\ DOMAIN kept \subseteq DOMAIN announced
        /\ \A k \in DOMAIN kept : kept[k] = announced[k]
    BY Zenon DEF Dirty!Kept
  <2>3. /\ DOMAIN qTick' = Threads /\ DOMAIN qTick'[t] = DirtyTickFields
        /\ \A u \in Threads \ {t} : qTick'[u] = qTick[u]
        /\ qTick'[t].pc = "announce" /\ qTick'[t].fresh = fresh /\ qTick'[t].token = qTick[t].token
    BY <2>1
  <2>4. \A m, k : \A u \in Threads : Owes(u, m, k) => Owes(u, m, k)'
    BY <2>1, <2>3, Zenon DEF Owes
  <2>5. \A k \in fresh : Owes(t, announced[k], k)'
    BY <2>1, <2>3, Zenon DEF Owes
  <2>6. \A k \in DOMAIN announced' \ fresh : k \in DOMAIN announced /\ announced'[k] = announced[k]
    BY <2>1, <2>2, Zenon
  <2>7. \A k \in DOMAIN announced' :
            <<announced[k], k>>' \in told' \/ \E u \in Threads : Owes(u, announced[k], k)'
    BY <1>2, <2>1, <2>4, <2>5, <2>6, Zenon
  <2> QED
    BY <2>3, <2>7, ZenonT(40) DEF Dirty!QuietMeansPaged, Owes
<1>8. ASSUME NEW t \in Threads, Dirty!Announce(t)
      PROVE  DirtyInv'
  <2> DEFINE k0 == Dirty!NextFresh(t)
             rest == [qTick[t] EXCEPT !.fresh = @ \ {k0}]
  <2>1. /\ DOMAIN qTick[t] = DirtyTickFields /\ qTick[t].pc = "announce"
        /\ \/ /\ told' = told \cup {<<qTick[t].token, k0>>}
              /\ qTick' = [qTick EXCEPT ![t] = rest] /\ announced' = announced
           \/ /\ announced' = Dirty!ReleaseClaims({k0}, qTick[t].token)
              /\ qTick' = [qTick EXCEPT ![t] = rest] /\ told' = told
           \/ /\ announced' = Dirty!ReleaseClaims(qTick[t].fresh, qTick[t].token)
              /\ qTick' = [qTick EXCEPT ![t] = Dirty!Idle] /\ told' = told
    BY <1>8 DEF Dirty!Announce
  <2>2. /\ DOMAIN qTick' = Threads
        /\ qTick'[t] = Dirty!Idle \/ DOMAIN qTick'[t] = DirtyTickFields
        /\ \A u \in Threads \ {t} : qTick'[u] = qTick[u]
    BY <2>1, Zenon
  <2>3. \A m, k : \A u \in Threads \ {t} : Owes(u, m, k) => Owes(u, m, k)'
    BY <2>2, Zenon DEF Owes
  <2>4. ASSUME NEW k \in DOMAIN announced'
        PROVE  /\ k \in DOMAIN announced /\ announced'[k] = announced[k]
               /\ Owes(t, announced[k], k) =>
                     Owes(t, announced[k], k)' \/ <<announced[k], k>>' \in told'
    BY <2>1 DEF Owes, Dirty!ReleaseClaims
  <2>5. told \subseteq told'
    BY <2>1, Zenon
  <2>6. ASSUME NEW k \in DOMAIN announced'
        PROVE  <<announced[k], k>>' \in told' \/ \E u \in Threads : Owes(u, announced[k], k)'
    BY <1>2, <2>3, <2>4, <2>5, Zenon
  <2> QED
    BY <2>2, <2>6, ZenonT(40) DEF Dirty!QuietMeansPaged, Owes
<1>9. ASSUME NEW t \in Threads, Dirty!Consume(t)
      PROVE  DirtyInv'
  <2>1. /\ qTick[t].fresh = {} /\ UNCHANGED <<announced, told>>
        /\ qTick' = [qTick EXCEPT ![t] = Dirty!Idle]
    BY <1>9, Zenon DEF Dirty!Consume
  <2>2. \A m, k : \A u \in Threads : Owes(u, m, k) => Owes(u, m, k)'
    BY <2>1, Zenon DEF Owes
  <2> QED
    BY <1>2, <2>1, <2>2, ZenonT(40) DEF Dirty!QuietMeansPaged, Owes
<1> QED
  BY <1>0, <1>1, <1>4, <1>5, <1>6, <1>7, <1>8, <1>9, Zenon
     DEF Dirty!Next, Dirty!Edit, Dirty!Break, Dirty!Flip, Dirty!SessionEnds, Dirty!ClockTick

\* A stored check is not of the future, and what it found clean has become
\* dirty after it only.
GoodStore(x) ==
    \A s \in DOMAIN x.store :
        /\ x.store[s].at \in Nat /\ x.store[s].at <= qNow
        /\ ~x.store[s].dirty /\ s \in Dirty!Sessions /\ since[s] # None =>
              x.store[s].at <= since[s]

\* The inductive invariant of the checks.
ChecksInv ==
    /\ ~stale
    /\ qNow \in Nat /\ MaxAge \in Nat
    /\ DOMAIN since = Dirty!Sessions
    /\ \A s \in Dirty!Sessions : since[s] # None => since[s] \in Nat
    /\ \A t \in Threads : qTick[t] = Dirty!Idle \/ GoodStore(qTick[t])

LEMMA ChecksInit ==
    ASSUME Dirty!Init
    PROVE  ChecksInv
BY DirtyAssumption, Zenon DEF Dirty!Init, ChecksInv, Dirty!DirtyChecksAssumption

LEMMA ChecksStep ==
    ASSUME DirtyInv, ChecksInv, Dirty!Next
    PROVE  ChecksInv'
<1> USE DEF ChecksInv
\* A step that adds no check and touches no tree.
<1>1. ASSUME UNCHANGED <<qNow, since, stale>>,
             \A t \in Threads : \/ qTick'[t] = Dirty!Idle
                                \/ /\ qTick[t] # Dirty!Idle
                                   /\ qTick'[t].store = qTick[t].store
                                \/ DOMAIN qTick'[t].store = {}
      PROVE  ChecksInv'
  BY <1>1, Zenon DEF GoodStore
<1>2. ASSUME UNCHANGED <<qNow, since, stale, qTick>>
      PROVE  ChecksInv'
  BY <1>2, Zenon DEF GoodStore
<1>3. ASSUME NEW s \in Dirty!Sessions, Dirty!Edit(s)
      PROVE  ChecksInv'
  <2>1. /\ since' = [since EXCEPT ![s] = IF @ = None THEN qNow ELSE None]
        /\ UNCHANGED <<qNow, stale, qTick>>
    BY <1>3, Zenon DEF Dirty!Edit, Dirty!Flip
  <2>2. ASSUME NEW t \in Threads, GoodStore(qTick[t])
        PROVE  GoodStore(qTick[t])'
    BY <2>1, <2>2, Zenon DEF GoodStore
  <2> QED
    BY <2>1, <2>2, Zenon
<1>4. CASE Dirty!ClockTick
  <2>1. qNow' = qNow + 1 /\ UNCHANGED <<since, stale, qTick>>
    BY <1>4, Zenon DEF Dirty!ClockTick, Dirty!world
  <2>2. ASSUME NEW t \in Threads, GoodStore(qTick[t])
        PROVE  GoodStore(qTick[t])'
    BY <2>1, <2>2 DEF GoodStore
  <2> QED
    BY <2>1, <2>2
<1>5. CASE Dirty!Restart
  BY <1>1, <1>5, Zenon DEF Dirty!Restart, Dirty!world
<1>6. ASSUME NEW t \in Threads, Dirty!TickStart(t)
      PROVE  ChecksInv'
  <2>1. /\ UNCHANGED <<qNow, since, stale>> /\ DOMAIN qTick'[t].store = {}
        /\ \A u \in Threads \ {t} : qTick'[u] = qTick[u]
    BY <1>6, Zenon DEF Dirty!TickStart, Dirty!world, DirtyInv
  <2> QED
    BY <1>1, <2>1, Zenon
<1>7. ASSUME NEW t \in Threads,
             Dirty!CapturePhantoms(t) \/ Dirty!SettleOutages(t) \/ Dirty!Announce(t)
      PROVE  ChecksInv'
  <2>1. qTick[t].pc # "idle" /\ DOMAIN qTick[t] = DirtyTickFields
    BY <1>7 DEF Dirty!CapturePhantoms, Dirty!SettleOutages, Dirty!Announce, Dirty!At, DirtyInv,
                Dirty!Idle
  <2>2. /\ UNCHANGED <<qNow, since, stale>>
        /\ \A u \in Threads \ {t} : qTick'[u] = qTick[u]
        /\ qTick'[t] = Dirty!Idle \/ qTick'[t].store = qTick[t].store
    BY <1>7, <2>1, SMTT(40) DEF Dirty!CapturePhantoms, Dirty!SettleOutages, Dirty!Announce, Dirty!world,
                DirtyInv, DirtyTickFields
  <2>3. qTick[t] # Dirty!Idle
    BY <2>1, SMTT(40) DEF Dirty!Idle
  <2> QED
    BY <1>1, <2>2, <2>3, Zenon
<1>8. ASSUME NEW t \in Threads, Dirty!Capture(t)
      PROVE  ChecksInv'
  <2> DEFINE s0 == Head(qTick[t].todo)
             next == Dirty!Captured(qTick[t], s0)
  <2>1. /\ qTick[t].pc \in {"backstop", "phantom"} /\ UNCHANGED <<qNow, since, stale>>
        /\ \/ qTick' = [qTick EXCEPT ![t] = [next EXCEPT !.captures = @ + 1]]
           \/ qTick' = [qTick EXCEPT ![t].todo = <<>>, ![t].truncated = TRUE]
    BY <1>8, Zenon DEF Dirty!Capture, Dirty!Capturing, Dirty!world
  <2>2. DOMAIN qTick[t] = DirtyTickFields /\ qTick[t] # Dirty!Idle
    BY <2>1 DEF DirtyInv, Dirty!Idle
  <2>3. DOMAIN next = DOMAIN qTick[t]
    BY Zenon DEF Dirty!Captured
  <2> DEFINE probed == [dirty |-> since[s0] # None, at |-> qNow]
             added == [r \in DOMAIN qTick[t].store \cup {s0} |->
                         IF r = s0 THEN probed ELSE qTick[t].store[r]]
  <2>4. next.store = qTick[t].store \/ next.store = added
    BY <2>2, Zenon DEF Dirty!Captured, DirtyTickFields
  <2>5. \A u \in Threads \ {t} : qTick'[u] = qTick[u]
    BY <2>1, Zenon DEF DirtyInv
  <2>6. qTick'[t].store = qTick[t].store \/ qTick'[t].store = added
    <3> HIDE DEF next, added
    <3> QED BY <2>1, <2>2, <2>3, <2>4, Zenon DEF DirtyInv, DirtyTickFields
  <2>7. CASE qTick'[t].store = qTick[t].store
    BY <1>1, <2>1, <2>2, <2>5, <2>7, Zenon
  <2>8. CASE qTick'[t].store = added
    <3>1. GoodStore(qTick[t])
      BY <2>2, Zenon
    <3>2. probed.at = qNow /\ (~probed.dirty => since[s0] = None)
      BY Zenon
    <3>3. /\ DOMAIN added = DOMAIN qTick[t].store \cup {s0}
          /\ \A r \in DOMAIN added : r # s0 => added[r] = qTick[t].store[r]
          /\ added[s0] = probed
      BY Zenon
    <3> HIDE DEF probed, added, s0
    <3>4. ASSUME NEW r \in DOMAIN added
          PROVE  /\ added[r].at \in Nat /\ added[r].at <= qNow
                 /\ ~added[r].dirty /\ r \in Dirty!Sessions /\ since[r] # None =>
                       added[r].at <= since[r]
      <4>1. CASE r = s0
        <5>1. added[r] = probed
          BY <3>3, <4>1, Zenon
        <5>2. added[r].at = qNow
          BY <3>2, <5>1, Zenon
        <5>3. ~added[r].dirty => since[r] = None
          BY <3>2, <4>1, <5>1, Zenon
        <5> QED BY <5>2, <5>3
      <4>2. CASE r # s0
        <5>1. r \in DOMAIN qTick[t].store /\ added[r] = qTick[t].store[r]
          BY <3>3, <4>2, Zenon
        <5> QED BY <3>1, <5>1, Zenon DEF GoodStore
      <4> QED BY <4>1, <4>2, Zenon
    <3>5. GoodStore(qTick[t])'
      BY <2>1, <2>8, <3>4, Zenon DEF GoodStore
    <3>6. ASSUME NEW u \in Threads \ {t}, GoodStore(qTick[u])
          PROVE  GoodStore(qTick[u])'
      BY <2>1, <2>5, <3>6, Zenon DEF GoodStore
    <3> QED
      BY <2>1, <2>5, <3>5, <3>6, Zenon
  <2> QED
    BY <2>6, <2>7, <2>8, Zenon
<1>9. ASSUME NEW t \in Threads, Dirty!Consume(t)
      PROVE  ChecksInv'
  <2> DEFINE clean == {s \in Dirty!Ready(qTick[t]) : ~qTick[t].store[s].dirty}
  <2>1. /\ UNCHANGED <<qNow, since>> /\ qTick[t].pc = "announce"
        /\ qTick' = [qTick EXCEPT ![t] = Dirty!Idle]
        /\ stale' = (stale \/ \E s \in clean : since[s] # None /\ qNow - since[s] >= MaxAge)
    BY <1>9, Zenon DEF Dirty!Consume, Dirty!world, Dirty!At
  <2>2. GoodStore(qTick[t])
    BY <2>1, SMTT(40) DEF Dirty!Idle
  <2>3. ASSUME NEW s \in clean, since[s] # None
        PROVE  ~(qNow - since[s] >= MaxAge)
    <3>1. /\ s \in Dirty!Sessions /\ s \in DOMAIN qTick[t].store /\ ~qTick[t].store[s].dirty
          /\ qNow - qTick[t].store[s].at < MaxAge
      BY Zenon DEF Dirty!Ready, Dirty!Usable
    <3>2. /\ qTick[t].store[s].at \in Nat /\ qTick[t].store[s].at <= since[s] /\ since[s] \in Nat
      BY <2>2, <2>3, <3>1, Zenon DEF GoodStore
    <3> HIDE DEF clean
    <3> QED BY <3>1, <3>2, SMTT(40)
  <2>4. ~stale'
    <3> HIDE DEF clean
    <3> QED BY <2>1, <2>3, Zenon
  <2>5. ASSUME NEW u \in Threads \ {t}, GoodStore(qTick[u])
        PROVE  GoodStore(qTick[u])'
    BY <2>1, <2>5, Zenon DEF GoodStore, DirtyInv
  <2> QED
    BY <2>1, <2>4, <2>5, Zenon DEF DirtyInv
<1> QED
  BY <1>2, <1>3, <1>4, <1>5, <1>6, <1>7, <1>8, <1>9, Zenon
     DEF Dirty!Next, Dirty!Break, Dirty!Flip, Dirty!SessionEnds

-----------------------------------------------------------------------------
(***************************************************************************)
(* The theorems.  A behaviour runs one part, so the invariant is that of   *)
(* the part that runs.                                                     *)
(***************************************************************************)

Inv ==
    /\ part = "windows" => Windows!TypeOK
    /\ part = "circuit" => CircuitInv
    /\ part = "probe" => ProbeInv
    /\ part = "dirty" => DirtyInv /\ ChecksInv

allVars == <<part, DispatchVars>>

LEMMA InvInit == DispatchInit => Inv
BY WindowsInit, CircuitInit, ProbeInit, DirtyInit, ChecksInit, Zenon DEF DispatchInit, Inv

LEMMA InvStutters ==
    ASSUME Inv, UNCHANGED allVars
    PROVE  Inv'
<1> USE DEF Inv, allVars, DispatchVars
<1>1. Windows!TypeOK => Windows!TypeOK'
  BY Zenon DEF Windows!TypeOK, wVars
<1>2. CircuitInv => CircuitInv'
  BY Zenon DEF CircuitInv, cVars
<1>3. ProbeInv => ProbeInv'
  BY Zenon DEF ProbeInv, cVars
<1>4. DirtyInv => DirtyInv'
  BY Zenon DEF DirtyInv, qVars, Dirty!QuietMeansPaged, Dirty!At
<1>5. ChecksInv => ChecksInv'
  <2>1. UNCHANGED <<qNow, since, stale, qTick>>
    BY Zenon DEF qVars
  <2>2. ASSUME NEW t \in Threads
        PROVE  GoodStore(qTick[t])' <=> GoodStore(qTick[t])
    BY <2>1, Zenon DEF GoodStore
  <2> QED
    BY <2>1, <2>2, Zenon DEF ChecksInv
<1> QED
  BY <1>1, <1>2, <1>3, <1>4, <1>5, Zenon

LEMMA InvStep ==
    ASSUME Inv, [DispatchNext]_allVars
    PROVE  Inv'
<1>1. CASE DispatchNext
  BY <1>1, WindowsStep, CircuitStep, ProbeStep, DirtyStep, ChecksStep, Zenon DEF DispatchNext, Inv
<1>2. CASE UNCHANGED allVars
  BY <1>2, InvStutters, Zenon
<1> QED
  BY <1>1, <1>2, Zenon

\* Whichever part runs, its invariant holds, for every value of the constants.
THEOREM InvHolds == DispatchSpec => []Inv
BY InvInit, InvStep, PTL DEF DispatchSpec, allVars

\* A pause the operator made, by cw lane pause or in clients.yaml, is ended by
\* the operator only: no tick of any loop, in any order of their reads and
\* writes of the sidecar, resumes it (_clear_expired_circuit_pauses).
THEOREM PausesKept == DispatchSpec => []OperatorPausesKept
<1>1. Inv => OperatorPausesKept
  BY CircuitKeeps, Zenon DEF Inv, OperatorPausesKept
<1> QED
  BY <1>1, InvHolds, PTL

\* With one loop, at most one failure per half-open window goes uncharged, for
\* every threshold and cool-down (record_lane_failure, probe_used).
THEOREM ProbeIsFreeOnce == DispatchSpec => []OneFreeProbe
<1>1. Inv => OneFreeProbe
  BY ProbeKeeps, Zenon DEF Inv, OneFreeProbe
<1> QED
  BY <1>1, InvHolds, PTL

\* An outage that is kept quiet was recorded, or is about to be by the tick that
\* holds its token, for every number of threads and sessions (_settle_outages).
THEOREM QuietOutagesPaged == DispatchSpec => []QuietMeansPaged
<1>1. Inv => QuietMeansPaged
  BY Zenon DEF Inv, DirtyInv, QuietMeansPaged
<1> QED
  BY <1>1, InvHolds, PTL

\* A row is requeued over a tree seen clean less than MaxAge ago, for every cap,
\* age and number of threads (partition_dirty).
THEOREM RequeueIsFresh == DispatchSpec => []RequeuedFresh
<1>1. Inv => RequeuedFresh
  BY Zenon DEF Inv, ChecksInv, RequeuedFresh, Dirty!RequeuedFresh
<1> QED
  BY <1>1, InvHolds, PTL

\* No step of any loop or of the mid-turn act shortens a live persisted window,
\* for every set of clients and loops (merge_and_save_usage_limited_until).
THEOREM WindowsNeverShorten == DispatchSpec => FileNeverShortens
<1>1. ASSUME Inv, [DispatchNext]_allVars
      PROVE  [part = "windows" => Windows!KeepsLiveWindows]_wVars
  <2>1. CASE UNCHANGED allVars
    BY <2>1, Zenon DEF allVars, DispatchVars
  <2>2. CASE DispatchNext
    <3>1. part = "windows" => Windows!Next
      BY <2>2, Zenon DEF DispatchNext
    <3> QED
      BY <3>1, <1>1, WindowsKeep, Zenon DEF Inv
  <2> QED
    BY <1>1, <2>1, <2>2, Zenon
<1> QED
  BY <1>1, InvHolds, PTL DEF DispatchSpec, allVars, FileNeverShortens
=============================================================================
