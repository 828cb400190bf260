------------------------- MODULE ResultPartsProofs -------------------------
(***************************************************************************)
(* The result of a session on its way to the row.                          *)
(***************************************************************************)
EXTENDS ResultParts, TLAPS

SesFields == {"status", "headless", "res", "src", "consumed", "refused"}

\* The types, as far as the steps rely on them.
ResultType ==
    /\ DOMAIN rRow = {"status", "stage", "session"}
    /\ rRow.status \in {"PENDING", "RUNNING", "BLOCKED", "COMPLETED", "FAILED"}
    /\ rRow.session \in ResultSessions \cup {None}
    /\ DOMAIN ses = ResultSessions /\ DOMAIN hook = ResultSessions /\ DOMAIN rTail = ResultSessions
    /\ DOMAIN marker = ResultSessions /\ DOMAIN emit = ResultSessions /\ DOMAIN routed = ResultSessions
    /\ crashes \in Nat /\ moves \in [ResultSessions -> Nat]
    /\ \A s \in ResultSessions :
         /\ DOMAIN ses[s] = SesFields
         /\ ses[s].status \in {"new", "active", "completed"}
         /\ ses[s].res \in Result!Results \cup {None}
         /\ rTail[s] \in Result!Results \cup {None}
         /\ DOMAIN hook[s] = {"pc", "s", "bg", "k", "src"}
         /\ hook[s].pc \in {"idle", "lock", "save", "harvest", "event", "kill"}
    /\ DOMAIN rec = {"pc", "s", "bg", "k", "src"}
    /\ rec.pc \in {"idle", "save", "refuse", "crash", "event"}
    /\ IF rec.pc = "idle" THEN rec = Result!Idle ELSE rec.s \in ResultSessions

\* sessions_lock is held from the route to the harvest, and by a whole pass.
Locked ==
    /\ \A s \in ResultSessions : hook[s].pc \in {"save", "harvest"} => lock = s
    /\ rec.pc # "idle" => lock = "reconcile"

\* What a hook in flight knows of its session: the result it carries is that
\* of the record or of the transcript, and with open background tasks a result
\* was emitted.
HookFlight ==
    \A s \in ResultSessions :
        /\ hook[s].pc = "save" => ses[s].status = "active"
        /\ hook[s].pc \in {"harvest", "event"} => ses[s].status = "completed"
        /\ hook[s].pc = "lock" => hook[s].k \in {None, rTail[s]} /\ hook[s].src = None
        /\ hook[s].pc \in {"save", "harvest"} =>
             \/ hook[s].src = "harvest" /\ ses[s].res = None /\ hook[s].k \in Result!Results
             \/ hook[s].src = "emit" /\ ses[s].res = hook[s].k
             \/ hook[s].src = None
        /\ hook[s].pc \in {"lock", "save"} /\ hook[s].bg => ses[s].res # None \/ ses[s].refused
        /\ marker[s] => ses[s].res # None \/ ses[s].refused
        /\ emit[s] = "stamp" => ses[s].res # None \/ ses[s].refused

\* What the pass in flight knows of its session: a refusal follows no move.
PassFlight ==
    /\ rec.pc \in {"save", "refuse", "crash"} => ses[rec.s].status = "active"
    /\ rec.pc = "save" => /\ rec.k \in Result!Results
                          /\ ses[rec.s].refused \/ ses[rec.s].res \in {None, rec.k}
    /\ rec.pc = "event" => ses[rec.s].status = "completed"
    /\ rec.pc = "refuse" => moves[rec.s] = 0

\* An event follows the completion of its session.
EventFlight ==
    /\ log \in Seq([s : ResultSessions, crashed : BOOLEAN])
    /\ \A i \in 1..Len(log) : log[i].s \in ResultSessions /\ ses[log[i].s].status = "completed"

InFlight == HookFlight /\ PassFlight /\ EventFlight

\* A session that moved the row on has lost it, or ended it; and if its record
\* is still empty, its transcript has nothing left to salvage.
Moved ==
    \A s \in ResultSessions :
        /\ moves[s] <= 1
        /\ ses[s].status = "new" => moves[s] = 0
        /\ moves[s] = 1 => rRow.session # s \/ rRow.status = "COMPLETED"
        /\ moves[s] = 1 /\ ses[s].status = "active" /\ ses[s].res = None =>
             rTail[s] = "advance" \/ (rTail[s] = "ship" /\ rRow.status = "COMPLETED")

\* Without a crash, what was applied is on record, or is about to be by the hook
\* or the pass that holds the lock.
OnRecord ==
    crashes = 0 => \A s \in ResultSessions :
        ~ses[s].refused /\ routed[s] \notin {None, "bad"} =>
            \/ ses[s].res = routed[s]
            \/ /\ ses[s].res = None
               /\ \/ hook[s].pc \in {"save", "harvest"} /\ hook[s].src = "harvest" /\ hook[s].k = routed[s]
                  \/ rec.pc = "save" /\ rec.s = s /\ rec.k = routed[s]


ResultInv == ResultType /\ Locked /\ InFlight /\ Moved /\ OnRecord

\* A row that a result may leave.
LEMMA RoutedFacts ==
    ASSUME ResultType, NEW k \in Result!Results, NEW r \in Result!Routed(k)
    PROVE  /\ DOMAIN r = {"status", "stage", "session"}
           /\ r.status \in {"PENDING", "RUNNING", "BLOCKED", "COMPLETED", "FAILED"}
           /\ r.session \in {rRow.session, None}
           /\ k = "advance" => r.session = None
           /\ k = "ship" => r.status = "COMPLETED"
           /\ r.status = "FAILED" => k = "bad" \/ rRow.status = "FAILED"
           /\ r.stage # rRow.stage => k = "advance"
<1> DEFINE u == Result!Unbound
<1>0. /\ DOMAIN rRow = {"status", "stage", "session"}
      /\ rRow.status \in {"PENDING", "RUNNING", "BLOCKED", "COMPLETED", "FAILED"}
  BY Zenon DEF ResultType
<1>1. DOMAIN u = DOMAIN rRow /\ u.session = None /\ u.status = "PENDING" /\ u.stage = rRow.stage
  BY <1>0, Zenon DEF Result!Unbound
<1> HIDE DEF u
<1>2. CASE k = "advance"
  <2>1. r = [u EXCEPT !.stage = @ + 1]
    BY <1>2, Zenon DEF Result!Routed, u
  <2> QED
    BY <1>0, <1>1, <1>2, <2>1, Zenon
<1>3. CASE k = "ship"
  BY <1>0, <1>3, Zenon DEF Result!Routed
<1>4. CASE k = "hold"
  BY <1>0, <1>4, Zenon DEF Result!Routed
<1>5. CASE k = "mismatch"
  BY <1>5, Zenon DEF Result!Routed
<1>6. CASE k = "bad"
  <2>1. r \in {u, [rRow EXCEPT !.status = "FAILED"], rRow}
    BY <1>6, Zenon DEF Result!Routed, u
  <2>2. CASE r = u
    BY <1>0, <1>1, <1>6, <2>2, Zenon
  <2>3. CASE r = [rRow EXCEPT !.status = "FAILED"]
    BY <1>0, <1>6, <2>3, Zenon
  <2>4. CASE r = rRow
    BY <1>0, <1>6, <2>4, Zenon
  <2> QED
    BY <2>1, <2>2, <2>3, <2>4, Zenon
<1> QED
  BY <1>2, <1>3, <1>4, <1>5, <1>6, Zenon DEF Result!Results

\* What it means to the row and to the history that result k of s was applied,
\* or was not.
Applies(s, k) ==
    /\ DOMAIN rRow' = {"status", "stage", "session"}
    /\ rRow'.status \in {"PENDING", "RUNNING", "BLOCKED", "COMPLETED", "FAILED"}
    /\ rRow'.session \in {rRow.session, None}
    /\ rRow'.stage # rRow.stage => rRow.session = s /\ k = "advance"
    /\ rRow.status = "COMPLETED" => UNCHANGED rRow
    /\ \/ UNCHANGED moves
       \/ /\ moves' = [moves EXCEPT ![s] = @ + 1] /\ moves[s] = 0
          /\ \/ k = "advance" /\ rRow'.session = None
             \/ k = "ship" /\ rRow'.status = "COMPLETED"
    /\ routed' \in {routed, [routed EXCEPT ![s] = k]}

\* The queue save of a route applies the result, refuses it, or finds no row.
LEMMA SentinelFacts ==
    ASSUME ResultType, Moved, NEW s \in ResultSessions, NEW k \in Result!Results,
           NEW out, Result!ApplySentinel(s, k, out)
    PROVE  /\ Applies(s, k)
           /\ out = "refused" => UNCHANGED <<moves, routed>> /\ moves[s] = 0
           /\ out = "landed" => k = "bad"
<1> USE DEF ResultType, Moved
<1>1. CASE ~Result!Target(s)
  BY <1>1, Zenon DEF Result!ApplySentinel, Result!AlreadyTerminal, Applies
<1>2. CASE Result!Target(s) /\ Result!Routed(k) = {} /\ out = "refused" /\ UNCHANGED <<rRow, moves, routed>>
  BY <1>2 DEF Applies, Result!Target
<1>3. ASSUME Result!Target(s), NEW r \in Result!Routed(k), rRow' = r,
             out = IF r.status = "FAILED" THEN "landed" ELSE "routed",
             moves' = IF k \in {"advance", "ship"} THEN [moves EXCEPT ![s] = @ + 1] ELSE moves,
             routed' = [routed EXCEPT ![s] = k]
      PROVE  Applies(s, k) /\ (out = "landed" => k = "bad") /\ out # "refused"
  <2>1. moves[s] = 0 /\ rRow.session = s /\ rRow.status \in {"RUNNING", "BLOCKED"}
    BY <1>3, SMTT(40) DEF Result!Target
  <2> HIDE DEF ResultType, Moved
  <2> QED
    BY <1>3, <2>1, RoutedFacts, Zenon DEF Applies
<1> QED
  BY <1>1, <1>2, <1>3, Zenon DEF Result!ApplySentinel

\* What a step that applies a result keeps of the row's types and the history.
LEMMA AppliesKeeps ==
    ASSUME ResultType, Moved, NEW s \in ResultSessions, NEW k, Applies(s, k), UNCHANGED <<ses, rTail>>,
           ses[s].status # "new", ses[s].status = "active" /\ ses[s].res = None => k = rTail[s]
    PROVE  /\ Moved'
           /\ rRow'.session \in ResultSessions \cup {None}
           /\ moves' \in [ResultSessions -> Nat] /\ DOMAIN routed' = ResultSessions
           /\ \A z \in ResultSessions : z # s => routed'[z] = routed[z]
           /\ routed'[s] \in {routed[s], k}
<1>1. moves' \in [ResultSessions -> Nat] /\ \A z \in ResultSessions : z # s => moves'[z] = moves[z]
  BY DEF ResultType, Applies
<1>2. ASSUME NEW z \in ResultSessions, z # s
      PROVE  /\ moves'[z] <= 1
             /\ ses[z].status = "new" => moves'[z] = 0
             /\ moves'[z] = 1 => rRow'.session # z \/ rRow'.status = "COMPLETED"
             /\ moves'[z] = 1 /\ ses[z].status = "active" /\ ses[z].res = None =>
                  rTail[z] = "advance" \/ (rTail[z] = "ship" /\ rRow'.status = "COMPLETED")
  BY <1>1, <1>2, ResultAssumption DEF Moved, Applies, Result!ResultAssumption
<1>3. /\ moves'[s] <= 1
      /\ moves'[s] = 1 => rRow'.session # s \/ rRow'.status = "COMPLETED"
      /\ moves'[s] = 1 /\ ses[s].status = "active" /\ ses[s].res = None =>
           rTail[s] = "advance" \/ (rTail[s] = "ship" /\ rRow'.status = "COMPLETED")
  BY <1>1, ResultAssumption DEF ResultType, Moved, Applies, Result!ResultAssumption
<1>4. Moved'
  BY <1>2, <1>3, Zenon DEF Moved
<1>5. DOMAIN routed' = ResultSessions /\ \A z \in ResultSessions : z # s => routed'[z] = routed[z]
  BY Zenon DEF ResultType, Applies
<1>6. routed'[s] \in {routed[s], k}
  BY Zenon DEF ResultType, Applies
<1>7. rRow'.session \in ResultSessions \cup {None}
  BY Zenon DEF ResultType, Applies
<1> QED
  BY <1>1, <1>4, <1>5, <1>6, <1>7, Zenon

\* The door writes the result and its source only, and an empty record only.
LEMMA DoorFacts ==
    ASSUME NEW x, DOMAIN x = SesFields, NEW k, NEW src, NEW y, y = Result!EmitResultOn(x, k, src)
    PROVE  /\ DOMAIN y = SesFields /\ y.status = x.status
           /\ y.refused = x.refused /\ y.consumed = x.consumed /\ y.headless = x.headless
           /\ x.res = None => y.res = k
           /\ x.res # None => y = x
BY Zenon DEF Result!EmitResultOn, SesFields

\* An event of a completed session may be appended.
LEMMA LogGrows ==
    ASSUME EventFlight, NEW e, e \in [s : ResultSessions, crashed : BOOLEAN],
           ses[e.s].status = "completed", log' = Append(log, e), UNCHANGED ses
    PROVE  EventFlight'
<1>1. /\ log' \in Seq([s : ResultSessions, crashed : BOOLEAN])
      /\ Len(log') = Len(log) + 1 /\ Len(log) \in Nat
      /\ \A i \in 1..Len(log) : log'[i] = log[i]
      /\ log'[Len(log) + 1] = e
  BY DEF EventFlight
<1>2. ASSUME NEW i \in 1..Len(log')
      PROVE  log'[i].s \in ResultSessions /\ ses[log'[i].s].status = "completed"
  <2>1. CASE i = Len(log) + 1
    BY <1>1, <2>1, Zenon
  <2>2. CASE i # Len(log) + 1
    <3>1. i \in 1..Len(log)
      BY <1>1, <2>2
    <3> QED
      BY <1>1, <3>1, Zenon DEF EventFlight
  <2> QED
    BY <2>1, <2>2, Zenon
<1> QED
  BY <1>1, <1>2, Zenon DEF EventFlight

-----------------------------------------------------------------------------

\* No session, no result and no holder of a lock are confused with another.
LEMMA ConstantFacts ==
    /\ None \notin ResultSessions /\ None \notin Result!Results /\ ResultKinds \subseteq Result!Results
    /\ "reconcile" \notin ResultSessions \cup {None}
    /\ None # "harvest" /\ None # "emit" /\ None # "stamp"
BY ResultAssumption, Zenon DEF Result!ResultAssumption

USE ConstantFacts DEF Result!Idle, Result!worker, Result!Results

\* A step that starts no stamp and leaves all but emits as it is.
LEMMA QuietKeeps ==
    ASSUME ResultType, Locked, InFlight, Moved, OnRecord, DOMAIN emit' = ResultSessions,
           \A z \in ResultSessions : emit'[z] = "stamp" => emit[z] = "stamp",
           UNCHANGED <<rRow, ses, rTail, marker, hook, rec, lock, log, crashes, moves, routed>>
    PROVE  ResultInv'
<1>1. ResultType'
  BY Zenon DEF ResultType
<1>2. Locked' /\ Moved' /\ OnRecord'
  BY Zenon DEF Locked, Moved, OnRecord
<1>3. HookFlight'
  BY ZenonT(40) DEF InFlight, HookFlight
<1>4. PassFlight' /\ EventFlight'
  BY Zenon DEF InFlight, PassFlight, EventFlight
<1> QED
  BY <1>1, <1>2, <1>3, <1>4, Zenon DEF ResultInv, InFlight

LEMMA WorkerKeeps ==
    ASSUME ResultType, Locked, InFlight, Moved, OnRecord, NEW s \in ResultSessions,
           Result!Background(s) \/ Result!Dies(s) \/ \E k \in ResultKinds : Result!EmitCheck(s, k)
    PROVE  ResultInv'
<1>1. UNCHANGED <<rRow, ses, rTail, marker, hook, rec, lock, log, crashes, moves, routed>>
  BY Zenon DEF Result!Background, Result!Dies, Result!EmitCheck
<1>2. DOMAIN emit' = ResultSessions /\ \A z \in ResultSessions : emit'[z] = "stamp" => emit[z] = "stamp"
  <2>1. ResultKinds \subseteq {"advance", "ship", "hold", "mismatch", "bad"}
    BY ConstantFacts, Zenon
  <2> QED
    BY <2>1, ZenonT(40) DEF Result!Background, Result!Dies, Result!EmitCheck, ResultType
<1> QED
  BY <1>1, <1>2, QuietKeeps, Zenon

LEMMA ClaimKeeps ==
    ASSUME ResultType, Locked, InFlight, Moved, OnRecord, NEW s \in ResultSessions, Result!Claim(s)
    PROVE  ResultInv'
<1>1a. PICK h \in BOOLEAN : ses' = [ses EXCEPT ![s].status = "active", ![s].headless = h]
  BY Zenon DEF Result!Claim
<1>1b. ses' = [ses EXCEPT ![s] = [ses[s] EXCEPT !.status = "active", !.headless = h]]
  BY <1>1a, Zenon DEF ResultType
<1>1c. /\ DOMAIN ses' = ResultSessions /\ \A z \in ResultSessions : z # s => ses'[z] = ses[z]
       /\ DOMAIN ses'[s] = SesFields /\ ses'[s].status = "active"
       /\ ses'[s].res = ses[s].res /\ ses'[s].refused = ses[s].refused
  BY <1>1b DEF ResultType, SesFields
<1>0. /\ DOMAIN ses' = ResultSessions /\ \A z \in ResultSessions : z # s => ses'[z] = ses[z]
      /\ DOMAIN ses'[s] = SesFields /\ ses[s].status = "new" /\ ses'[s].status = "active"
      /\ ses'[s].res = ses[s].res /\ ses'[s].refused = ses[s].refused
      /\ rRow' = [rRow EXCEPT !.status = "RUNNING", !.session = s] /\ rRow.status = "PENDING"
      /\ UNCHANGED <<rTail, marker, emit, hook, rec, lock, log, crashes, moves, routed>>
  BY <1>1c, Zenon DEF Result!Claim
<1> USE <1>0
<1>1. ResultType'
  BY ZenonT(40) DEF ResultType
<1>2. Locked' /\ Moved'
  BY DEF Locked, Moved
<1>3. HookFlight'
  BY DEF Locked, InFlight, HookFlight
<1>4. PassFlight' /\ EventFlight'
  <2>1. PassFlight'
    BY Zenon DEF ResultType, Locked, InFlight, PassFlight, Moved
  <2>2. EventFlight'
    BY Zenon DEF InFlight, EventFlight
  <2> QED
    BY <2>1, <2>2, Zenon
<1>5. OnRecord'
  BY DEF OnRecord
<1> QED
  BY <1>1, <1>2, <1>3, <1>4, <1>5, Zenon DEF ResultInv, InFlight

LEMMA EmitStoreKeeps ==
    ASSUME ResultType, Locked, InFlight, Moved, OnRecord, NEW s \in ResultSessions, Result!EmitStore(s)
    PROVE  ResultInv'
<1>1a. ses'[s] = Result!EmitResultOn(ses[s], emit[s], "emit") /\ DOMAIN ses[s] = SesFields
  BY Zenon DEF ResultType, Result!EmitStore
<1>0. /\ DOMAIN ses' = ResultSessions /\ \A z \in ResultSessions : z # s => ses'[z] = ses[z]
      /\ DOMAIN ses'[s] = SesFields /\ ses'[s].status = ses[s].status
      /\ ses[s].res = None => ses'[s].res \in Result!Results
      /\ ses[s].res # None => ses'[s] = ses[s]
      /\ ses'[s].refused = ses[s].refused
      /\ lock = None /\ ses'[s].res # None /\ DOMAIN emit' = ResultSessions
      /\ \A z \in ResultSessions : emit'[z] = "stamp" => z = s \/ emit[z] = "stamp"
      /\ UNCHANGED <<rRow, rTail, marker, hook, rec, lock, log, crashes, moves, routed>>
  BY <1>1a, DoorFacts, SMTT(40) DEF ResultType, Result!EmitStore
<1> USE <1>0
<1>1. ResultType'
  BY SMTT(40) DEF ResultType
<1>2. Locked' /\ Moved'
  BY DEF Locked, Moved
<1>3. HookFlight'
  BY DEF Locked, InFlight, HookFlight
<1>4. PassFlight' /\ EventFlight'
  <2>1. PassFlight'
    BY Zenon DEF ResultType, Locked, InFlight, PassFlight, Moved
  <2>2. EventFlight'
    BY ZenonT(40) DEF InFlight, EventFlight
  <2> QED
    BY <2>1, <2>2, Zenon
<1>5. OnRecord'
  BY DEF Locked, OnRecord
<1> QED
  BY <1>1, <1>2, <1>3, <1>4, <1>5, Zenon DEF ResultInv, InFlight

LEMMA EmitStampKeeps ==
    ASSUME ResultType, Locked, InFlight, Moved, OnRecord, NEW s \in ResultSessions, Result!EmitStamp(s)
    PROVE  ResultInv'
<1>0. /\ emit[s] = "stamp" /\ DOMAIN marker' = ResultSessions /\ DOMAIN emit' = ResultSessions
      /\ \A z \in ResultSessions : z # s => (marker'[z] => marker[z])
      /\ \A z \in ResultSessions : emit'[z] = "stamp" => emit[z] = "stamp"
      /\ UNCHANGED <<rRow, ses, rTail, hook, rec, lock, log, crashes, moves, routed>>
  <2>1. /\ DOMAIN marker = ResultSessions /\ DOMAIN emit = ResultSessions /\ emit[s] = "stamp"
        /\ emit' = [emit EXCEPT ![s] = None] /\ marker' = [marker EXCEPT ![s] = TRUE]
        /\ UNCHANGED <<rRow, ses, rTail, hook, rec, lock, log, crashes, moves, routed>>
    BY Zenon DEF ResultType, Result!EmitStamp
  <2>2. DOMAIN marker' = ResultSessions /\ \A z \in ResultSessions : z # s => (marker'[z] => marker[z])
    BY <2>1, Zenon
  <2> QED
    BY <2>1, <2>2, Zenon
<1> USE <1>0
<1>1. ResultType'
  BY Zenon DEF ResultType
<1>2. Locked' /\ Moved'
  BY Zenon DEF Locked, Moved
<1>3. HookFlight'
  BY Zenon DEF InFlight, HookFlight
<1>4. PassFlight' /\ EventFlight'
  BY Zenon DEF ResultType, InFlight, PassFlight, EventFlight
<1>5. OnRecord'
  BY Zenon DEF OnRecord
<1> QED
  BY <1>1, <1>2, <1>3, <1>4, <1>5, Zenon DEF ResultInv, InFlight

LEMMA WritesKeeps ==
    ASSUME ResultType, Locked, InFlight, Moved, OnRecord, NEW s \in ResultSessions, NEW k \in ResultKinds, Result!Writes(s, k)
    PROVE  ResultInv'
<1>0. /\ rTail[s] = None /\ DOMAIN rTail' = ResultSessions /\ rTail'[s] \in Result!Results
      /\ \A z \in ResultSessions : z # s => rTail'[z] = rTail[z]
      /\ UNCHANGED <<rRow, ses, marker, emit, hook, rec, lock, log, crashes, moves, routed>>
  BY Zenon DEF ResultType, Result!Writes
<1> USE <1>0
<1>1. ResultType'
  BY Zenon DEF ResultType
<1>2. Locked' /\ Moved'
  BY ZenonT(40) DEF Locked, Moved
<1>3. HookFlight'
  BY SMTT(40) DEF InFlight, HookFlight
<1>4. PassFlight' /\ EventFlight'
  BY Zenon DEF ResultType, InFlight, PassFlight, EventFlight
<1>5. OnRecord'
  BY Zenon DEF OnRecord
<1> QED
  BY <1>1, <1>2, <1>3, <1>4, <1>5, Zenon DEF ResultInv, InFlight

LEMMA StopBeginKeeps ==
    ASSUME ResultType, Locked, InFlight, Moved, OnRecord, NEW s \in ResultSessions, Result!StopBegin(s)
    PROVE  ResultInv'
<1>0. /\ DOMAIN hook' = ResultSessions /\ \A z \in ResultSessions : z # s => hook'[z] = hook[z]
      /\ DOMAIN hook'[s] = DOMAIN hook[s] /\ hook'[s].pc = "lock" /\ hook'[s].k \in {None, rTail[s]}
      /\ hook'[s].src = None
      /\ hook'[s].bg => marker[s]
      /\ hook[s].pc = "idle"
      /\ UNCHANGED <<rRow, ses, rTail, marker, emit, rec, lock, log, crashes, moves, routed>>
  <2> DEFINE mine == hook'[s]
  <2>1. hook[s] = Result!Idle /\ DOMAIN hook = ResultSessions
    BY Zenon DEF ResultType, Result!StopBegin
  <2>2. mine = [Result!Idle EXCEPT !.pc = "lock", !.s = s, !.bg = bg[s],
                                  !.k = IF Result!HasTerminalResult(s) THEN None ELSE rTail[s]]
    BY <2>1, Zenon DEF Result!StopBegin
  <2>3. /\ DOMAIN mine = DOMAIN hook[s] /\ mine.pc = "lock" /\ mine.k \in {None, rTail[s]}
        /\ mine.src = None /\ mine.bg = bg[s] /\ hook[s].pc = "idle"
    <3> HIDE DEF mine
    <3> QED
      BY <2>1, <2>2
  <2>4. bg[s] => marker[s]
    BY Zenon DEF Result!StopBegin
  <2>5. /\ DOMAIN hook' = ResultSessions /\ \A z \in ResultSessions : z # s => hook'[z] = hook[z]
        /\ UNCHANGED <<rRow, ses, rTail, marker, emit, rec, lock, log, crashes, moves, routed>>
    BY <2>1, Zenon DEF Result!StopBegin
  <2> QED
    BY <2>3, <2>4, <2>5, Zenon
<1> USE <1>0
<1>1. ResultType'
  BY DEF ResultType
<1>2. Locked' /\ Moved'
  BY Zenon DEF Locked, Moved
<1>3. HookFlight'
  BY SMTT(40) DEF Locked, InFlight, HookFlight
<1>4. PassFlight' /\ EventFlight'
  BY Zenon DEF ResultType, Locked, InFlight, PassFlight, Moved, EventFlight
<1>5. OnRecord'
  BY DEF OnRecord
<1> QED
  BY <1>1, <1>2, <1>3, <1>4, <1>5, Zenon DEF ResultInv, InFlight

LEMMA StopNothingKeeps ==
    ASSUME ResultType, Locked, InFlight, Moved, OnRecord, NEW s \in ResultSessions, Result!StopNothing(s)
    PROVE  ResultInv'
<1>0. /\ DOMAIN hook' = ResultSessions /\ \A z \in ResultSessions : z # s => hook'[z] = hook[z]
      /\ hook'[s] = Result!Idle /\ hook[s].pc = "lock"
      /\ \/ UNCHANGED rRow
         \/ /\ rRow.status = "RUNNING" /\ DOMAIN rRow' = DOMAIN rRow
            /\ rRow'.session = rRow.session /\ rRow'.status = "BLOCKED"
      /\ UNCHANGED <<ses, rTail, marker, emit, rec, lock, log, crashes, moves, routed>>
  <2>1. rRow' = rRow \/ (rRow.status = "RUNNING" /\ rRow' = [rRow EXCEPT !.status = "BLOCKED"])
    BY Zenon DEF Result!StopNothing
  <2> QED
    BY <2>1, ZenonT(40) DEF ResultType, Result!StopNothing, Result!StopGone
<1> USE <1>0
<1>1. ResultType'
  BY SMTT(40) DEF ResultType
<1>2. Locked' /\ Moved'
  BY SMTT(40) DEF Locked, Moved
<1>3. HookFlight'
  BY SMTT(40) DEF InFlight, HookFlight
<1>4. PassFlight' /\ EventFlight'
  BY Zenon DEF ResultType, InFlight, PassFlight, EventFlight
<1>5. OnRecord'
  BY DEF OnRecord
<1> QED
  BY <1>1, <1>2, <1>3, <1>4, <1>5, Zenon DEF ResultInv, InFlight

LEMMA StopInteractiveKeeps ==
    ASSUME ResultType, Locked, InFlight, Moved, OnRecord, NEW s \in ResultSessions, Result!StopInteractive(s)
    PROVE  ResultInv'
<1>0. /\ DOMAIN hook' = ResultSessions /\ \A z \in ResultSessions : z # s => hook'[z] = hook[z]
      /\ DOMAIN hook'[s] = DOMAIN hook[s] /\ hook'[s].pc = "save" /\ hook'[s].src = hook[s].src
      /\ hook[s].src = None
      /\ hook'[s].bg = hook[s].bg /\ hook[s].pc = "lock"
      /\ lock = None /\ lock' = s /\ ses[s].status = "active"
      /\ UNCHANGED <<rRow, ses, rTail, marker, emit, rec, log, crashes, moves, routed>>
  BY ZenonT(40) DEF ResultType, InFlight, HookFlight, Result!StopInteractive, Result!Settled
<1> USE <1>0
<1>1. ResultType'
  BY SMTT(40) DEF ResultType
<1>2. Locked' /\ Moved'
  BY Zenon DEF Locked, Moved
<1>3. HookFlight'
  BY SMTT(40) DEF Locked, InFlight, HookFlight
<1>4. PassFlight' /\ EventFlight'
  <2>1. PassFlight'
    BY Zenon DEF ResultType, Locked, InFlight, PassFlight, Moved
  <2>2. EventFlight'
    BY Zenon DEF InFlight, EventFlight
  <2> QED
    BY <2>1, <2>2, Zenon
<1>5. OnRecord'
  BY SMTT(40) DEF OnRecord
<1> QED
  BY <1>1, <1>2, <1>3, <1>4, <1>5, Zenon DEF ResultInv, InFlight

LEMMA StopSaveKeeps ==
    ASSUME ResultType, Locked, InFlight, Moved, OnRecord, NEW s \in ResultSessions, Result!StopSave(s)
    PROVE  ResultInv'
<1>0. /\ DOMAIN ses' = ResultSessions /\ \A z \in ResultSessions : z # s => ses'[z] = ses[z]
      /\ DOMAIN ses'[s] = SesFields /\ ses[s].status = "active"
      /\ ses'[s].res = ses[s].res /\ ses'[s].refused = ses[s].refused
      /\ DOMAIN hook' = ResultSessions /\ \A z \in ResultSessions : z # s => hook'[z] = hook[z]
      /\ DOMAIN hook'[s] = DOMAIN hook[s] /\ hook[s].pc = "save" /\ lock = s
      /\ DOMAIN marker' = ResultSessions /\ \A z \in ResultSessions : marker'[z] => marker[z]
      /\ \/ /\ hook[s].bg /\ hook'[s] = Result!Idle /\ lock' = None
            /\ ses'[s].status = ses[s].status
         \/ /\ ses'[s].status = "completed" /\ lock' = lock /\ UNCHANGED marker
            /\ hook'[s].pc = "harvest" /\ hook'[s].k = hook[s].k /\ hook'[s].src = hook[s].src
      /\ UNCHANGED <<rRow, rTail, emit, rec, log, crashes, moves, routed>>
  <2>1. hook[s].pc = "save" /\ lock = s /\ ses[s].status = "active"
    BY Zenon DEF Locked, InFlight, HookFlight, Result!StopSave
  <2>2. CASE hook[s].bg
    <3>1. ses' = ses \/ ses' = [ses EXCEPT ![s] = [ses[s] EXCEPT !.consumed = TRUE]]
      BY <2>2, Zenon DEF ResultType, Result!StopSave
    <3>2. hook' = [hook EXCEPT ![s] = Result!Idle] /\ marker' = [marker EXCEPT ![s] = FALSE] /\ lock' = None
      BY <2>2, Zenon DEF Result!StopSave, Result!StopGone
    <3>3. UNCHANGED <<rRow, rTail, emit, rec, log, crashes, moves, routed>>
      BY Zenon DEF Result!StopSave
    <3>4. /\ DOMAIN ses' = ResultSessions /\ \A z \in ResultSessions : z # s => ses'[z] = ses[z]
          /\ DOMAIN ses'[s] = SesFields /\ ses'[s].status = ses[s].status
          /\ ses'[s].res = ses[s].res /\ ses'[s].refused = ses[s].refused
      BY <3>1 DEF ResultType, SesFields
    <3>5. DOMAIN marker' = ResultSessions /\ \A z \in ResultSessions : marker'[z] => marker[z]
      BY <3>2, Zenon DEF ResultType
    <3>6. /\ DOMAIN hook' = ResultSessions /\ \A z \in ResultSessions : z # s => hook'[z] = hook[z]
          /\ hook'[s] = Result!Idle /\ DOMAIN hook'[s] = DOMAIN hook[s]
      BY <3>2, Zenon DEF ResultType
    <3> QED
      BY <2>1, <2>2, <3>2, <3>3, <3>4, <3>5, <3>6, Zenon
  <2>3. CASE ~hook[s].bg
    <3>1. ses' = [ses EXCEPT ![s] = [ses[s] EXCEPT !.status = "completed"]]
      BY <2>3, Zenon DEF ResultType, Result!StopSave
    <3>2. hook' = [hook EXCEPT ![s] = [hook[s] EXCEPT !.pc = "harvest"]] /\ UNCHANGED <<marker, lock>>
      BY <2>3, Zenon DEF ResultType, Result!StopSave
    <3>3. UNCHANGED <<rRow, rTail, emit, rec, log, crashes, moves, routed>>
      BY Zenon DEF Result!StopSave
    <3>4. /\ DOMAIN ses' = ResultSessions /\ \A z \in ResultSessions : z # s => ses'[z] = ses[z]
          /\ DOMAIN ses'[s] = SesFields /\ ses'[s].status = "completed"
          /\ ses'[s].res = ses[s].res /\ ses'[s].refused = ses[s].refused
      BY <3>1, SMTT(40) DEF ResultType, SesFields
    <3>5. DOMAIN marker = ResultSessions
      BY Zenon DEF ResultType
    <3>6. /\ DOMAIN hook' = ResultSessions /\ \A z \in ResultSessions : z # s => hook'[z] = hook[z]
          /\ DOMAIN hook'[s] = DOMAIN hook[s] /\ hook'[s].pc = "harvest"
          /\ hook'[s].k = hook[s].k /\ hook'[s].src = hook[s].src
      BY <3>2, Zenon DEF ResultType
    <3> QED
      BY <2>1, <3>2, <3>3, <3>4, <3>5, <3>6, Zenon
  <2> QED
    BY <2>2, <2>3, Zenon
<1> USE <1>0
<1>1. ResultType'
  BY SMTT(40) DEF ResultType
<1>2. Locked' /\ Moved'
  BY SMTT(40) DEF Locked, Moved
<1>3. HookFlight'
  BY SMTT(40) DEF Locked, InFlight, HookFlight
<1>4. PassFlight' /\ EventFlight'
  <2>1. PassFlight'
    BY Zenon DEF ResultType, Locked, InFlight, PassFlight, Moved
  <2>2. EventFlight'
    BY Zenon DEF InFlight, EventFlight
  <2> QED
    BY <2>1, <2>2, Zenon
<1>5. OnRecord'
  BY SMTT(40) DEF InFlight, HookFlight, OnRecord
<1> QED
  BY <1>1, <1>2, <1>3, <1>4, <1>5, Zenon DEF ResultInv, InFlight

LEMMA StopHarvestKeeps ==
    ASSUME ResultType, Locked, InFlight, Moved, OnRecord, NEW s \in ResultSessions, Result!StopHarvest(s)
    PROVE  ResultInv'
<1>0. /\ DOMAIN ses' = ResultSessions /\ \A z \in ResultSessions : z # s => ses'[z] = ses[z]
      /\ DOMAIN ses'[s] = SesFields /\ ses'[s].status = ses[s].status /\ ses'[s].refused = ses[s].refused
      /\ IF hook[s].src = "harvest" THEN ses'[s].res = hook[s].k /\ hook[s].k \in Result!Results
                                   ELSE ses'[s].res = ses[s].res
      /\ ses[s].res # None => ses'[s].res = ses[s].res
      /\ DOMAIN hook' = ResultSessions /\ \A z \in ResultSessions : z # s => hook'[z] = hook[z]
      /\ DOMAIN hook'[s] = DOMAIN hook[s] /\ hook'[s].pc = "event"
      /\ hook[s].pc = "harvest" /\ lock = s /\ lock' = None /\ ses[s].status = "completed"
      /\ UNCHANGED <<rRow, rTail, marker, emit, rec, log, crashes, moves, routed>>
  <2>1. /\ hook[s].pc = "harvest" /\ lock = s /\ ses[s].status = "completed"
        /\ hook[s].src = "harvest" => hook[s].k \in Result!Results /\ ses[s].res = None
    BY Zenon DEF Locked, InFlight, HookFlight, Result!StopHarvest
  <2>2. IF hook[s].src = "harvest" THEN ses'[s] = Result!EmitResultOn(ses[s], hook[s].k, "harvest")
                                   ELSE ses'[s] = ses[s]
    BY Zenon DEF ResultType, Result!StopHarvest
  <2>3. /\ DOMAIN ses' = ResultSessions /\ \A z \in ResultSessions : z # s => ses'[z] = ses[z]
        /\ DOMAIN ses[s] = SesFields
    BY Zenon DEF ResultType, Result!StopHarvest
  <2>4. hook' = [hook EXCEPT ![s] = [hook[s] EXCEPT !.pc = "event"]] /\ lock' = None
    BY Zenon DEF ResultType, Result!StopHarvest
  <2>5. /\ DOMAIN hook' = ResultSessions /\ \A z \in ResultSessions : z # s => hook'[z] = hook[z]
        /\ DOMAIN hook'[s] = DOMAIN hook[s] /\ hook'[s].pc = "event"
    BY <2>4, Zenon DEF ResultType
  <2>6. UNCHANGED <<rRow, rTail, marker, emit, rec, log, crashes, moves, routed>>
    BY Zenon DEF Result!StopHarvest
  <2>7. CASE hook[s].src = "harvest"
    BY <2>1, <2>2, <2>3, <2>4, <2>5, <2>6, <2>7, DoorFacts
  <2>8. CASE hook[s].src # "harvest"
    BY <2>1, <2>2, <2>3, <2>4, <2>5, <2>6, <2>8, Zenon
  <2> QED
    BY <2>7, <2>8, Zenon
<1> USE <1>0
<1>1. ResultType'
  BY SMTT(40) DEF ResultType
<1>2. Locked' /\ Moved'
  BY ZenonT(40) DEF Locked, Moved
<1>3. HookFlight'
  BY SMTT(40) DEF Locked, InFlight, HookFlight
<1>4. PassFlight' /\ EventFlight'
  <2>1. PassFlight'
    BY Zenon DEF ResultType, Locked, InFlight, PassFlight, Moved
  <2>2. EventFlight'
    BY Zenon DEF InFlight, EventFlight
  <2> QED
    BY <2>1, <2>2, Zenon
<1>5. OnRecord'
  BY DEF Locked, InFlight, HookFlight, OnRecord
<1> QED
  BY <1>1, <1>2, <1>3, <1>4, <1>5, Zenon DEF ResultInv, InFlight

LEMMA StopEventKeeps ==
    ASSUME ResultType, Locked, InFlight, Moved, OnRecord, NEW s \in ResultSessions, Result!StopEvent(s)
    PROVE  ResultInv'
<1>0. /\ DOMAIN hook' = ResultSessions /\ \A z \in ResultSessions : z # s => hook'[z] = hook[z]
      /\ DOMAIN hook'[s] = DOMAIN hook[s] /\ hook[s].pc = "event" /\ hook'[s].pc = "kill"
      /\ log' = Append(log, Result!Completed(s, FALSE)) /\ ses[s].status = "completed"
      /\ UNCHANGED <<rRow, ses, rTail, marker, emit, rec, lock, crashes, moves, routed>>
  BY SMTT(40) DEF ResultType, InFlight, HookFlight, Result!StopEvent
<1> USE <1>0
<1>1. ResultType'
  BY SMTT(40) DEF ResultType
<1>2. Locked'
  BY Zenon DEF Locked
<1>3. InFlight'
  <2>1. HookFlight'
    BY SMTT(40) DEF InFlight, HookFlight
  <2>2. PassFlight'
    BY Zenon DEF ResultType, InFlight, PassFlight
  <2>3. EventFlight'
    <3> DEFINE e == Result!Completed(s, FALSE)
    <3>1. e \in [s : ResultSessions, crashed : BOOLEAN] /\ e.s = s
      BY Zenon DEF Result!Completed
    <3> HIDE DEF e
    <3>2. log' = Append(log, e)
      BY Zenon DEF e
    <3>3. ses[e.s].status = "completed" /\ EventFlight
      BY <3>1, Zenon DEF InFlight
    <3> QED
      BY <3>1, <3>2, <3>3, LogGrows, Zenon
  <2> QED
    BY <2>1, <2>2, <2>3, ZenonT(40) DEF InFlight
<1>4. Moved'
  BY Zenon DEF Moved
<1>5. OnRecord'
  BY SMTT(40) DEF OnRecord
<1> QED
  BY <1>1, <1>2, <1>3, <1>4, <1>5, Zenon DEF ResultInv

LEMMA StopKillKeeps ==
    ASSUME ResultType, Locked, InFlight, Moved, OnRecord, NEW s \in ResultSessions, Result!StopKill(s)
    PROVE  ResultInv'
<1>0. /\ DOMAIN hook' = ResultSessions /\ \A z \in ResultSessions : z # s => hook'[z] = hook[z]
      /\ hook'[s] = Result!Idle /\ hook[s].pc = "kill"
      /\ UNCHANGED <<rRow, ses, rTail, marker, emit, rec, lock, log, crashes, moves, routed>>
  BY Zenon DEF ResultType, Result!StopKill, Result!StopGone
<1> USE <1>0
<1>1. ResultType'
  BY SMTT(40) DEF ResultType
<1>2. Locked' /\ Moved'
  BY SMTT(40) DEF Locked, Moved
<1>3. HookFlight'
  BY SMTT(40) DEF InFlight, HookFlight
<1>4. PassFlight' /\ EventFlight'
  <2>1. PassFlight'
    BY Zenon DEF ResultType, InFlight, PassFlight
  <2>2. EventFlight'
    BY Zenon DEF InFlight, EventFlight
  <2> QED
    BY <2>1, <2>2, Zenon
<1>5. OnRecord'
  BY SMTT(40) DEF OnRecord
<1> QED
  BY <1>1, <1>2, <1>3, <1>4, <1>5, Zenon DEF ResultInv, InFlight

LEMMA StopDiesKeeps ==
    ASSUME ResultType, Locked, InFlight, Moved, OnRecord, NEW s \in ResultSessions, Result!StopDies(s)
    PROVE  ResultInv'
<1>0. /\ DOMAIN hook' = ResultSessions /\ \A z \in ResultSessions : z # s => hook'[z] = hook[z]
      /\ hook'[s] = Result!Idle /\ lock' = IF lock = s THEN None ELSE lock
      /\ UNCHANGED <<rRow, ses, rTail, marker, emit, rec, log, moves, routed>>
  BY Zenon DEF ResultType, Result!StopDies, Result!StopGone
<1>0c. crashes \in Nat /\ crashes' = crashes + 1
  BY Zenon DEF ResultType, Result!StopDies
<1>0d. crashes' \in Nat /\ crashes' # 0
  BY <1>0c, SMTT(40)
<1> USE <1>0
<1>1. ResultType'
  BY <1>0d, SMTT(40) DEF ResultType
<1>2. Locked' /\ Moved'
  BY SMTT(40) DEF Locked, Moved
<1>3. HookFlight'
  BY SMTT(40) DEF InFlight, HookFlight
<1>4. PassFlight' /\ EventFlight'
  BY Zenon DEF ResultType, InFlight, PassFlight, EventFlight
<1>5. OnRecord'
  BY <1>0d, Zenon DEF OnRecord
<1> QED
  BY <1>1, <1>2, <1>3, <1>4, <1>5, Zenon DEF ResultInv, InFlight

LEMMA RequeueKeeps ==
    ASSUME ResultType, Locked, InFlight, Moved, OnRecord, Result!Requeue
    PROVE  ResultInv'
<1>0. /\ rRow.status = "BLOCKED" /\ DOMAIN rRow' = DOMAIN rRow
      /\ rRow'.session = None /\ rRow'.status = "PENDING"
      /\ UNCHANGED <<ses, rTail, marker, emit, hook, rec, lock, log, crashes, moves, routed>>
  BY Zenon DEF ResultType, Result!Requeue, Result!Unbound
<1> USE <1>0
<1>1. ResultType'
  BY Zenon DEF ResultType
<1>2. Locked' /\ Moved'
  BY Zenon DEF Locked, Moved
<1>3. HookFlight'
  BY Zenon DEF InFlight, HookFlight
<1>4. PassFlight' /\ EventFlight'
  <2>1. PassFlight'
    BY Zenon DEF ResultType, InFlight, PassFlight
  <2>2. EventFlight'
    BY Zenon DEF InFlight, EventFlight
  <2> QED
    BY <2>1, <2>2, Zenon
<1>5. OnRecord'
  BY Zenon DEF OnRecord
<1> QED
  BY <1>1, <1>2, <1>3, <1>4, <1>5, Zenon DEF ResultInv, InFlight

LEMMA RecSaveKeeps ==
    ASSUME ResultType, Locked, InFlight, Moved, OnRecord, Result!RecSave
    PROVE  ResultInv'
<1>0. /\ rec.pc = "save" /\ rec.s \in ResultSessions /\ lock = "reconcile" /\ ses[rec.s].status = "active"
      /\ rec.k \in Result!Results /\ (ses[rec.s].refused \/ ses[rec.s].res \in {None, rec.k})
      /\ DOMAIN ses' = ResultSessions /\ \A z \in ResultSessions : z # rec.s => ses'[z] = ses[z]
      /\ DOMAIN ses'[rec.s] = SesFields /\ ses'[rec.s].status = "completed"
      /\ ses'[rec.s].refused = ses[rec.s].refused
      /\ ses'[rec.s].res = IF ses[rec.s].res = None THEN rec.k ELSE ses[rec.s].res
      /\ DOMAIN rec' = DOMAIN rec /\ rec'.pc = "event" /\ rec'.s = rec.s
      /\ UNCHANGED <<rRow, rTail, marker, emit, hook, lock, log, crashes, moves, routed>>
  <2> DEFINE y == Result!EmitResultOn(ses[rec.s], rec.k, "sweep")
  <2>1. /\ rec.pc = "save" /\ rec.s \in ResultSessions /\ lock = "reconcile" /\ ses[rec.s].status = "active"
        /\ rec.k \in Result!Results /\ (ses[rec.s].refused \/ ses[rec.s].res \in {None, rec.k})
    BY Zenon DEF ResultType, Locked, InFlight, PassFlight, Result!RecSave
  <2>2. DOMAIN ses = ResultSessions /\ DOMAIN ses[rec.s] = SesFields /\ DOMAIN rec = {"pc", "s", "bg", "k", "src"}
    BY <2>1, Zenon DEF ResultType
  <2>3. /\ DOMAIN y = SesFields /\ y.refused = ses[rec.s].refused
        /\ y.res = IF ses[rec.s].res = None THEN rec.k ELSE ses[rec.s].res
    BY <2>2, DoorFacts
  <2>4. /\ ses' = [ses EXCEPT ![rec.s] = [y EXCEPT !.status = "completed"]]
        /\ rec' = [rec EXCEPT !.pc = "event"]
        /\ UNCHANGED <<rRow, rTail, marker, emit, hook, lock, log, crashes, moves, routed>>
    BY <2>1, <2>2, Zenon DEF Result!RecSave
  <2> HIDE DEF y
  <2>5. /\ DOMAIN ses' = ResultSessions /\ \A z \in ResultSessions : z # rec.s => ses'[z] = ses[z]
        /\ ses'[rec.s] = [y EXCEPT !.status = "completed"]
    BY <2>1, <2>2, <2>4, Zenon
  <2>6. DOMAIN rec' = DOMAIN rec /\ rec'.pc = "event" /\ rec'.s = rec.s
    BY <2>2, <2>4, Zenon
  <2> QED
    BY <2>1, <2>3, <2>4, <2>5, <2>6, Zenon DEF SesFields
<1> USE <1>0
<1>1. ResultType'
  BY SMTT(40) DEF ResultType
<1>2. Locked' /\ Moved'
  BY SMTT(40) DEF Locked, Moved
<1>3. HookFlight'
  BY SMTT(40) DEF Locked, InFlight, HookFlight
<1>4. PassFlight' /\ EventFlight'
  <2>1. PassFlight'
    BY Zenon DEF ResultType, Locked, InFlight, PassFlight, Moved
  <2>2. EventFlight'
    BY Zenon DEF InFlight, EventFlight
  <2> QED
    BY <2>1, <2>2, Zenon
<1>5. OnRecord'
  BY SMTT(40) DEF Locked, OnRecord
<1> QED
  BY <1>1, <1>2, <1>3, <1>4, <1>5, Zenon DEF ResultInv, InFlight

LEMMA RecRefuseKeeps ==
    ASSUME ResultType, Locked, InFlight, Moved, OnRecord, Result!RecRefuse
    PROVE  ResultInv'
<1>0. /\ rec.pc = "refuse" /\ rec.s \in ResultSessions /\ moves[rec.s] = 0
      /\ DOMAIN ses' = ResultSessions /\ \A z \in ResultSessions : z # rec.s => ses'[z] = ses[z]
      /\ DOMAIN ses'[rec.s] = SesFields /\ ses'[rec.s].status = ses[rec.s].status
      /\ ses'[rec.s].res \in {None, ses[rec.s].res} /\ ses'[rec.s].refused
      /\ lock = "reconcile" /\ lock' = None /\ rec' = Result!Idle
      /\ UNCHANGED <<rRow, rTail, marker, emit, hook, log, crashes, moves, routed>>
  <2>1. rec.pc = "refuse" /\ rec.s \in ResultSessions /\ moves[rec.s] = 0 /\ lock = "reconcile"
    BY Zenon DEF ResultType, Locked, InFlight, PassFlight, Result!RecRefuse
  <2>2. DOMAIN ses = ResultSessions /\ DOMAIN ses[rec.s] = SesFields
    BY <2>1, Zenon DEF ResultType
  <2>3. /\ lock' = None /\ rec' = Result!Idle
        /\ UNCHANGED <<rRow, rTail, marker, emit, hook, log, crashes, moves, routed>>
    BY Zenon DEF Result!RecRefuse
  <2>4. /\ DOMAIN ses' = ResultSessions /\ \A z \in ResultSessions : z # rec.s => ses'[z] = ses[z]
        /\ ses'[rec.s] \in {[ses[rec.s] EXCEPT !.res = None, !.src = None, !.refused = TRUE],
                               [ses[rec.s] EXCEPT !.refused = TRUE]}
    BY <2>1, <2>2, Zenon DEF Result!RecRefuse
  <2>5. /\ DOMAIN ses'[rec.s] = SesFields /\ ses'[rec.s].status = ses[rec.s].status
        /\ ses'[rec.s].res \in {None, ses[rec.s].res}
    BY <2>2, <2>4, Zenon DEF SesFields
  <2>6. ses'[rec.s].refused
    BY <2>2, <2>4, ZenonT(40) DEF SesFields
  <2> QED
    BY <2>1, <2>3, <2>4, <2>5, <2>6, Zenon
<1> USE <1>0
<1>1. ResultType'
  BY ZenonT(40) DEF ResultType
<1>2. Locked' /\ Moved'
  BY SMTT(40) DEF Locked, Moved
<1>3. HookFlight'
  BY SMTT(40) DEF Locked, InFlight, HookFlight
<1>4. PassFlight' /\ EventFlight'
  <2>1. PassFlight'
    BY Zenon DEF ResultType, InFlight, PassFlight
  <2>2. EventFlight'
    BY ZenonT(40) DEF InFlight, EventFlight
  <2> QED
    BY <2>1, <2>2, Zenon
<1>5. OnRecord'
  BY SMTT(40) DEF OnRecord
<1> QED
  BY <1>1, <1>2, <1>3, <1>4, <1>5, Zenon DEF ResultInv, InFlight

LEMMA RecCrashSaveKeeps ==
    ASSUME ResultType, Locked, InFlight, Moved, OnRecord, Result!RecCrashSave
    PROVE  ResultInv'
<1>0. /\ rec.pc = "crash" /\ rec.s \in ResultSessions /\ ses[rec.s].status = "active"
      /\ DOMAIN ses' = ResultSessions /\ \A z \in ResultSessions : z # rec.s => ses'[z] = ses[z]
      /\ DOMAIN ses'[rec.s] = SesFields /\ ses'[rec.s].status = "completed"
      /\ ses'[rec.s].res = ses[rec.s].res /\ ses'[rec.s].refused = ses[rec.s].refused
      /\ lock = "reconcile" /\ DOMAIN rec' = DOMAIN rec /\ rec'.pc = "event" /\ rec'.s = rec.s
      /\ UNCHANGED <<rRow, rTail, marker, emit, hook, lock, log, crashes, moves, routed>>
  <2>1. rec.pc = "crash" /\ rec.s \in ResultSessions /\ ses[rec.s].status = "active" /\ lock = "reconcile"
    BY Zenon DEF ResultType, Locked, InFlight, PassFlight, Result!RecCrashSave
  <2>2. DOMAIN ses = ResultSessions /\ DOMAIN ses[rec.s] = SesFields /\ DOMAIN rec = {"pc", "s", "bg", "k", "src"}
    BY <2>1, Zenon DEF ResultType
  <2>3. /\ ses' = [ses EXCEPT ![rec.s] = [ses[rec.s] EXCEPT !.status = "completed"]]
        /\ rec' = [rec EXCEPT !.pc = "event", !.src = "crash"]
        /\ UNCHANGED <<rRow, rTail, marker, emit, hook, lock, log, crashes, moves, routed>>
    BY <2>1, <2>2, Zenon DEF Result!RecCrashSave
  <2>4. DOMAIN rec' = DOMAIN rec /\ rec'.pc = "event" /\ rec'.s = rec.s
    BY <2>2, <2>3, Zenon
  <2>5. /\ DOMAIN ses' = ResultSessions /\ \A z \in ResultSessions : z # rec.s => ses'[z] = ses[z]
        /\ DOMAIN ses'[rec.s] = SesFields /\ ses'[rec.s].status = "completed"
        /\ ses'[rec.s].res = ses[rec.s].res /\ ses'[rec.s].refused = ses[rec.s].refused
    BY <2>1, <2>2, <2>3, Zenon DEF SesFields
  <2> QED
    BY <2>1, <2>3, <2>4, <2>5, Zenon
<1> USE <1>0
<1>1. ResultType'
  BY SMTT(40) DEF ResultType
<1>2. Locked' /\ Moved'
  BY ZenonT(40) DEF Locked, Moved
<1>3. HookFlight'
  BY SMTT(40) DEF Locked, InFlight, HookFlight
<1>4. PassFlight' /\ EventFlight'
  <2>1. PassFlight'
    BY Zenon DEF ResultType, InFlight, PassFlight
  <2>2. EventFlight'
    BY Zenon DEF InFlight, EventFlight
  <2> QED
    BY <2>1, <2>2, Zenon
<1>5. OnRecord'
  BY SMTT(40) DEF OnRecord
<1> QED
  BY <1>1, <1>2, <1>3, <1>4, <1>5, Zenon DEF ResultInv, InFlight

LEMMA RecEventKeeps ==
    ASSUME ResultType, Locked, InFlight, Moved, OnRecord, Result!RecEvent
    PROVE  ResultInv'
<1>0. /\ rec.pc = "event" /\ rec.s \in ResultSessions /\ ses[rec.s].status = "completed"
      /\ log' = Append(log, Result!Completed(rec.s, rec.src = "crash"))
      /\ lock = "reconcile" /\ lock' = None /\ rec' = Result!Idle
      /\ UNCHANGED <<rRow, ses, rTail, marker, emit, hook, crashes, moves, routed>>
  BY Zenon DEF ResultType, Locked, InFlight, PassFlight, Result!RecEvent
<1> USE <1>0
<1>1. ResultType'
  BY Zenon DEF ResultType
<1>2. Locked'
  BY Zenon DEF Locked
<1>3. InFlight'
  <2>1. HookFlight'
    BY Zenon DEF InFlight, HookFlight
  <2>2. PassFlight'
    BY Zenon DEF ResultType, InFlight, PassFlight
  <2>3. EventFlight'
    <3> DEFINE e == Result!Completed(rec.s, rec.src = "crash")
    <3>1. e \in [s : ResultSessions, crashed : BOOLEAN] /\ e.s = rec.s
      BY Zenon DEF Result!Completed
    <3> HIDE DEF e
    <3>2. log' = Append(log, e)
      BY Zenon DEF e
    <3>3. ses[e.s].status = "completed" /\ EventFlight
      BY <3>1, Zenon DEF InFlight
    <3> QED
      BY <3>1, <3>2, <3>3, LogGrows, ZenonT(40)
  <2> QED
    BY <2>1, <2>2, <2>3, Zenon DEF InFlight
<1>4. Moved'
  BY Zenon DEF Moved
<1>5. OnRecord'
  BY Zenon DEF OnRecord
<1> QED
  BY <1>1, <1>2, <1>3, <1>4, <1>5, Zenon DEF ResultInv

LEMMA RecDiesKeeps ==
    ASSUME ResultType, Locked, InFlight, Moved, OnRecord, Result!RecDies
    PROVE  ResultInv'
<1>0. /\ rec # Result!Idle /\ lock = "reconcile" /\ lock' = None /\ rec' = Result!Idle
      /\ UNCHANGED <<rRow, ses, rTail, marker, emit, hook, log, moves, routed>>
  BY Zenon DEF ResultType, Locked, Result!RecDies
<1>0c. crashes \in Nat /\ crashes' = crashes + 1
  BY Zenon DEF ResultType, Result!RecDies
<1>0d. crashes' \in Nat /\ crashes' # 0
  BY <1>0c, SMTT(40)
<1> USE <1>0
<1>1. ResultType'
  BY <1>0d, Zenon DEF ResultType
<1>2. Locked' /\ Moved'
  BY Zenon DEF Locked, Moved
<1>3. HookFlight'
  BY Zenon DEF InFlight, HookFlight
<1>4. PassFlight' /\ EventFlight'
  <2>1. PassFlight'
    BY Zenon DEF ResultType, InFlight, PassFlight
  <2>2. EventFlight'
    BY Zenon DEF InFlight, EventFlight
  <2> QED
    BY <2>1, <2>2, Zenon
<1>5. OnRecord'
  BY <1>0d, Zenon DEF OnRecord
<1> QED
  BY <1>1, <1>2, <1>3, <1>4, <1>5, ZenonT(40) DEF ResultInv, InFlight

LEMMA RecCrashKeeps ==
    ASSUME ResultType, Locked, InFlight, Moved, OnRecord, NEW s \in ResultSessions, Result!RecCrash(s)
    PROVE  ResultInv'
<1>0. /\ \/ UNCHANGED rRow
         \/ /\ rRow.status = "RUNNING" /\ DOMAIN rRow' = DOMAIN rRow /\ rRow'.session = None
            /\ rRow'.status \in {"PENDING", "BLOCKED"}
      /\ rec = Result!Idle /\ lock = None /\ ses[s].status = "active" /\ lock' = "reconcile"
      /\ DOMAIN rec' = {"pc", "s", "bg", "k", "src"} /\ rec'.pc = "crash" /\ rec'.s = s
      /\ UNCHANGED <<ses, rTail, marker, emit, hook, log, crashes, moves, routed>>
  <2>0. /\ DOMAIN Result!Unbound = DOMAIN rRow /\ Result!Unbound.session = None /\ Result!Unbound.status = "PENDING"
        /\ DOMAIN [rRow EXCEPT !.status = "BLOCKED", !.session = None] = DOMAIN rRow
        /\ [rRow EXCEPT !.status = "BLOCKED", !.session = None].session = None
        /\ [rRow EXCEPT !.status = "BLOCKED", !.session = None].status = "BLOCKED"
    BY Zenon DEF ResultType, Result!Unbound
  <2>1. /\ rec = Result!Idle /\ lock = None /\ ses[s].status = "active" /\ lock' = "reconcile"
        /\ DOMAIN rec' = {"pc", "s", "bg", "k", "src"} /\ rec'.pc = "crash" /\ rec'.s = s
        /\ UNCHANGED <<ses, rTail, marker, emit, hook, log, crashes, moves, routed>>
    BY Zenon DEF Result!RecCrash, Result!RecFree, Result!Active, Result!RecTo
  <2>2. rRow' \in {rRow, Result!Unbound, [rRow EXCEPT !.status = "BLOCKED", !.session = None]}
        /\ (rRow' = rRow \/ rRow.status = "RUNNING")
    BY Zenon DEF Result!RecCrash
  <2> QED
    BY <2>0, <2>1, <2>2, ZenonT(40)
<1> USE <1>0
<1>1. ResultType'
  BY Zenon DEF ResultType
<1>2. Locked' /\ Moved'
  BY ZenonT(40) DEF Locked, Moved
<1>3. HookFlight'
  BY ZenonT(40) DEF Locked, InFlight, HookFlight
<1>4. PassFlight' /\ EventFlight'
  <2>1. PassFlight'
    BY Zenon DEF ResultType, Locked, InFlight, PassFlight, Moved
  <2>2. EventFlight'
    BY Zenon DEF InFlight, EventFlight
  <2> QED
    BY <2>1, <2>2, Zenon
<1>5. OnRecord'
  BY Zenon DEF OnRecord
<1> QED
  BY <1>1, <1>2, <1>3, <1>4, <1>5, Zenon DEF ResultInv, InFlight

LEMMA BackstopKeeps ==
    ASSUME ResultType, Locked, InFlight, Moved, OnRecord, NEW s \in ResultSessions, Result!Backstop(s)
    PROVE  ResultInv'
<1>0. /\ rRow.status = "RUNNING" /\ DOMAIN rRow' = DOMAIN rRow /\ rRow'.session = None
      /\ rRow'.status \in {"PENDING", "BLOCKED"}
      /\ UNCHANGED <<ses, rTail, marker, emit, hook, rec, lock, log, crashes, moves, routed>>
  <2>0. /\ DOMAIN Result!Unbound = DOMAIN rRow /\ Result!Unbound.session = None /\ Result!Unbound.status = "PENDING"
        /\ DOMAIN [rRow EXCEPT !.status = "BLOCKED", !.session = None] = DOMAIN rRow
        /\ [rRow EXCEPT !.status = "BLOCKED", !.session = None].session = None
        /\ [rRow EXCEPT !.status = "BLOCKED", !.session = None].status = "BLOCKED"
    BY Zenon DEF ResultType, Result!Unbound
  <2>1. /\ rRow.status = "RUNNING"
        /\ UNCHANGED <<ses, rTail, marker, emit, hook, rec, lock, log, crashes, moves, routed>>
        /\ rRow' \in {Result!Unbound, [rRow EXCEPT !.status = "BLOCKED", !.session = None]}
    BY Zenon DEF Result!Backstop
  <2> QED
    BY <2>0, <2>1, ZenonT(40)
<1> USE <1>0
<1>1. ResultType'
  BY Zenon DEF ResultType
<1>2. Locked' /\ Moved'
  BY Zenon DEF Locked, Moved
<1>3. HookFlight'
  BY Zenon DEF Locked, InFlight, HookFlight
<1>4. PassFlight' /\ EventFlight'
  <2>1. PassFlight'
    BY Zenon DEF ResultType, Locked, InFlight, PassFlight, Moved
  <2>2. EventFlight'
    BY Zenon DEF InFlight, EventFlight
  <2> QED
    BY <2>1, <2>2, Zenon
<1>5. OnRecord'
  BY Zenon DEF OnRecord
<1> QED
  BY <1>1, <1>2, <1>3, <1>4, <1>5, Zenon DEF ResultInv, InFlight

\* The route of the Stop hook.
LEMMA StopRouteKeeps ==
    ASSUME ResultType, Locked, InFlight, Moved, OnRecord, NEW s \in ResultSessions, Result!StopRoute(s)
    PROVE  ResultInv' /\ Result!OwnerMoves
<1> DEFINE x == Result!StopSource(s)
           k == x.k
<1>a. /\ hook[s].pc = "lock" /\ lock = None /\ ses[s].status = "active" /\ k # None
      /\ UNCHANGED <<ses, rTail, emit, rec, log, crashes>>
  BY Zenon DEF Result!StopRoute, Result!Settled
<1>b. /\ ses[s].res = None => k = hook[s].k /\ x.src = "harvest"
      /\ ses[s].res # None => k = ses[s].res /\ x.src = "emit"
  BY <1>a, ZenonT(40) DEF Result!StopSource, Result!HasTerminalResult
<1>c. k \in Result!Results /\ (ses[s].res = None => k = rTail[s])
  BY <1>a, <1>b, ZenonT(40) DEF ResultType, InFlight, HookFlight
<1>d. /\ DOMAIN hook = ResultSessions /\ DOMAIN marker = ResultSessions
      /\ DOMAIN hook[s] = {"pc", "s", "bg", "k", "src"}
  BY Zenon DEF ResultType
<1>e. Applies(s, k) /\ (hook'[s].pc # "save" => routed'[s] \in {routed[s], "bad"})
  <2>1. CASE UNCHANGED <<rRow, moves, routed>>
    BY <2>1, Zenon DEF Applies, ResultType
  <2>2. ASSUME NEW out \in {"routed", "terminal", "landed", "refused"}, Result!ApplySentinel(s, k, out),
               out \in {"routed", "terminal"} => hook' = [hook EXCEPT ![s].pc = "save", ![s].k = k, ![s].src = x.src]
        PROVE  Applies(s, k) /\ (hook'[s].pc # "save" => routed'[s] \in {routed[s], "bad"})
    <3>1. Applies(s, k) /\ (out = "refused" => UNCHANGED routed) /\ (out = "landed" => k = "bad")
      BY <1>c, <2>2, SentinelFacts, ZenonT(40)
    <3>2. out \in {"routed", "terminal"} => hook'[s].pc = "save"
      BY <1>d, <2>2, ZenonT(40)
    <3>3. routed'[s] \in {routed[s], k}
      BY <3>1, Zenon DEF Applies, ResultType
    <3> QED
      BY <3>1, <3>2, <3>3, Zenon
  <2> QED
    BY <2>1, <2>2, Zenon DEF Result!StopRoute
<1>f. /\ DOMAIN hook' = ResultSessions /\ \A z \in ResultSessions : z # s => hook'[z] = hook[z]
      /\ DOMAIN hook'[s] = {"pc", "s", "bg", "k", "src"}
      /\ \/ hook'[s].pc = "save" /\ lock' = s /\ hook'[s].k = k /\ hook'[s].src = x.src /\ hook'[s].bg = hook[s].bg
         \/ hook'[s].pc \in {"kill", "idle"} /\ lock' = None
      /\ DOMAIN marker' = ResultSessions /\ \A z \in ResultSessions : marker'[z] => marker[z]
  <2> DEFINE next(pc) == [hook EXCEPT ![s].pc = pc, ![s].k = k, ![s].src = x.src]
  <2>1. \/ hook' = next("save") /\ lock' = s
        \/ hook' = next("kill") /\ lock' = None
        \/ hook' = [hook EXCEPT ![s] = Result!Idle] /\ lock' = None
    BY <1>a, Zenon DEF Result!StopRoute
  <2>2. marker' = marker \/ marker' = [marker EXCEPT ![s] = FALSE]
    BY Zenon DEF Result!StopRoute
  <2>3. ASSUME NEW pc
        PROVE  /\ DOMAIN next(pc) = ResultSessions /\ \A z \in ResultSessions : z # s => next(pc)[z] = hook[z]
               /\ DOMAIN next(pc)[s] = {"pc", "s", "bg", "k", "src"} /\ next(pc)[s].bg = hook[s].bg
               /\ next(pc)[s].pc = pc /\ next(pc)[s].k = k /\ next(pc)[s].src = x.src
    <3> HIDE DEF k, x
    <3> QED
      BY <1>d, Zenon
  <2>4. /\ DOMAIN marker' = ResultSessions
        /\ \A z \in ResultSessions : marker'[z] => marker[z]
    BY <1>d, <2>2, ZenonT(40)
  <2>5. CASE hook' = [hook EXCEPT ![s] = Result!Idle] /\ lock' = None
    BY <1>d, <2>4, <2>5, Zenon
  <2> HIDE DEF next
  <2>6. CASE hook' = next("save") /\ lock' = s
    BY <2>3, <2>4, <2>6, SMTT(40)
  <2>7. CASE hook' = next("kill") /\ lock' = None
    BY <2>3, <2>4, <2>7, SMTT(40)
  <2> QED
    BY <2>1, <2>5, <2>6, <2>7, Zenon
<1> HIDE DEF k, x
<1>g. /\ Moved' /\ rRow'.session \in ResultSessions \cup {None}
      /\ moves' \in [ResultSessions -> Nat] /\ DOMAIN routed' = ResultSessions
      /\ \A z \in ResultSessions : z # s => routed'[z] = routed[z]
      /\ routed'[s] \in {routed[s], k}
  BY <1>a, <1>c, <1>e, AppliesKeeps, Zenon
<1> USE <1>a, <1>b, <1>c, <1>f, <1>g
<1>1. ResultType'
  BY <1>e, SMTT(40) DEF ResultType, Applies
<1>2. Locked'
  BY ZenonT(40) DEF Locked
<1>3. InFlight'
  <2>1. HookFlight'
    BY SMTT(40) DEF InFlight, HookFlight
  <2>2. PassFlight'
    BY Zenon DEF Locked, PassFlight
  <2>3. EventFlight'
    BY Zenon DEF InFlight, EventFlight
  <2> QED
    BY <2>1, <2>2, <2>3, ZenonT(40) DEF InFlight
<1>5. OnRecord'
  BY <1>e, SMTT(40) DEF Locked, OnRecord
<1>6. Result!OwnerMoves
  BY <1>e, ZenonT(40) DEF Applies, Result!OwnerMoves
<1> QED
  BY <1>1, <1>2, <1>3, <1>5, <1>6, Zenon DEF ResultInv

\* Result k is the transcript's when the record is empty, else that of the record
\* unless it was refused.
Carries(s, k) ==
    /\ ses[s].res = None => k = rTail[s]
    /\ ses[s].refused \/ ses[s].res \in {None, k}

\* A pass that starts on an active session with a result to route or to refuse.
LEMMA PassStarts ==
    ASSUME ResultType, Locked, InFlight, Moved, OnRecord, NEW s \in ResultSessions,
           NEW k \in Result!Results, Applies(s, k),
           rec = Result!Idle, lock = None, lock' = "reconcile", ses[s].status = "active",
           DOMAIN rec' = {"pc", "s", "bg", "k", "src"}, rec'.pc \in {"save", "refuse"}, rec'.s = s, rec'.k = k,
           Carries(s, k), rec'.pc = "refuse" => UNCHANGED <<moves, routed>> /\ moves[s] = 0,
           UNCHANGED <<ses, rTail, emit, marker, hook, log, crashes>>
    PROVE  ResultInv'
<1>g. /\ Moved' /\ rRow'.session \in ResultSessions \cup {None}
      /\ moves' \in [ResultSessions -> Nat] /\ DOMAIN routed' = ResultSessions
      /\ \A z \in ResultSessions : z # s => routed'[z] = routed[z]
      /\ routed'[s] \in {routed[s], k}
  BY AppliesKeeps, ZenonT(40) DEF Carries
<1>1. ResultType'
  BY <1>g, ZenonT(40) DEF ResultType, Applies
<1>2. Locked'
  BY Zenon DEF Locked
<1>3. InFlight'
  <2>1. HookFlight'
    BY ZenonT(40) DEF InFlight, HookFlight
  <2>2. PassFlight'
    BY ZenonT(40) DEF PassFlight, Carries
  <2>3. EventFlight'
    BY ZenonT(40) DEF InFlight, EventFlight
  <2> QED
    BY <2>1, <2>2, <2>3, ZenonT(40) DEF InFlight
<1>5. OnRecord'
  BY <1>g, SMTT(40) DEF Locked, OnRecord, Carries
<1> QED
  BY <1>g, <1>1, <1>2, <1>3, <1>5, ZenonT(40) DEF ResultInv

\* What the pass takes from a session: the record before the transcript.
LEMMA CandidateFacts ==
    ASSUME ResultType, NEW s \in ResultSessions, Result!Candidate(s) # None
    PROVE  /\ Result!Candidate(s) \in Result!Results
           /\ Result!Candidate(s) \in {ses[s].res, rTail[s]}
           /\ Carries(s, Result!Candidate(s))
<1>1. ses[s].res \in Result!Results \cup {None} /\ rTail[s] \in Result!Results \cup {None}
  BY Zenon DEF ResultType
<1> QED
  BY <1>1, ZenonT(40) DEF Result!Candidate, Result!HoldsStaged, Result!HasTerminalResult, Carries

LEMMA RecRouteKeeps ==
    ASSUME ResultType, Locked, InFlight, Moved, OnRecord, NEW s \in ResultSessions, Result!RecRoute(s)
    PROVE  ResultInv' /\ Result!OwnerMoves
<1> DEFINE k == Result!Candidate(s)
<1>1. k \in Result!Results /\ k \in {ses[s].res, rTail[s]} /\ Carries(s, k)
  BY CandidateFacts, ZenonT(40) DEF Result!RecRoute
<1>2. /\ rec = Result!Idle /\ lock = None /\ ses[s].status = "active"
      /\ UNCHANGED <<ses, rTail, emit, marker, hook, log, crashes>>
  BY ZenonT(40) DEF Result!RecRoute, Result!RecFree, Result!Active
<1>3. PICK out \in {"routed", "terminal", "landed", "refused"} :
         /\ Result!ApplySentinel(s, k, out)
         /\ IF out = "refused" THEN Result!RecTo("refuse", s, k, None) ELSE Result!RecTo("save", s, k, "sweep")
  BY ZenonT(40) DEF Result!RecRoute
<1> HIDE DEF k
<1>4. Applies(s, k) /\ (out = "refused" => UNCHANGED <<moves, routed>> /\ moves[s] = 0)
  BY <1>1, <1>3, SentinelFacts, Zenon
<1>5. ASSUME out = "refused" PROVE ResultInv'
  <2>1. /\ lock' = "reconcile" /\ DOMAIN rec' = {"pc", "s", "bg", "k", "src"}
        /\ rec'.pc = "refuse" /\ rec'.s = s /\ rec'.k = k
    BY <1>3, <1>5, SMTT(40) DEF Result!RecTo
  <2> QED
    BY <1>1, <1>2, <1>4, <1>5, <2>1, PassStarts, ZenonT(40)
<1>6. ASSUME out # "refused" PROVE ResultInv'
  <2>1. /\ lock' = "reconcile" /\ DOMAIN rec' = {"pc", "s", "bg", "k", "src"}
        /\ rec'.pc = "save" /\ rec'.s = s /\ rec'.k = k
    BY <1>3, <1>6, SMTT(40) DEF Result!RecTo
  <2> QED
    BY <1>1, <1>2, <1>4, <1>6, <2>1, PassStarts, ZenonT(40)
<1>7. Result!OwnerMoves
  BY <1>1, <1>4, Zenon DEF Applies, Result!OwnerMoves
<1> QED
  BY <1>5, <1>6, <1>7, Zenon

\* A salvage: the transcript of a session that moved nothing yet.
LEMMA RecSalvageKeeps ==
    ASSUME ResultType, Locked, InFlight, Moved, OnRecord, NEW s \in ResultSessions, Result!RecSalvage(s)
    PROVE  ResultInv'
<1> DEFINE k == Result!Candidate(s)
<1>1. /\ rec = Result!Idle /\ lock = None /\ ses[s].status = "active" /\ ses[s].res = None
      /\ k \in {"ship", "hold"} /\ lock' = "reconcile"
      /\ DOMAIN rec' = {"pc", "s", "bg", "k", "src"} /\ rec'.pc = "save" /\ rec'.s = s /\ rec'.k = k
      /\ UNCHANGED <<ses, rTail, emit, marker, hook, log, crashes>>
  BY Zenon DEF Result!RecSalvage, Result!RecTo, Result!RecFree, Result!Active, Result!Salvages, Result!HasTerminalResult
<1>2. k \in Result!Results /\ k = rTail[s] /\ Carries(s, k)
  BY <1>1, CandidateFacts, ZenonT(40) DEF Carries
<1>3. Applies(s, k)
  <2>1. CASE rRow.status # "RUNNING"
    BY <2>1, Zenon DEF Result!RecSalvage, Applies, ResultType
  <2>2. CASE rRow.status = "RUNNING"
    <3>1. /\ rRow' = [rRow EXCEPT !.status = IF k = "ship" THEN "COMPLETED" ELSE "BLOCKED"]
          /\ moves' = IF k = "ship" THEN [moves EXCEPT ![s] = @ + 1] ELSE moves
          /\ routed' = [routed EXCEPT ![s] = k]
      BY <2>2, Zenon DEF Result!RecSalvage
    <3> HIDE DEF k
    <3>2. k = "ship" => moves[s] = 0
      <4>1. moves[s] \in Nat /\ moves[s] <= 1
        BY Zenon DEF ResultType, Moved
      <4>2. k = "ship" => moves[s] # 1
        BY <1>1, <1>2, <2>2, Zenon DEF Moved
      <4> QED
        BY <4>1, <4>2, SMTT(40)
    <3>3. /\ DOMAIN rRow' = {"status", "stage", "session"} /\ rRow'.session = rRow.session
          /\ rRow'.stage = rRow.stage /\ rRow'.status = IF k = "ship" THEN "COMPLETED" ELSE "BLOCKED"
      BY <3>1, Zenon DEF ResultType
    <3> QED
      BY <2>2, <3>1, <3>2, <3>3, Zenon DEF Applies
  <2> QED
    BY <2>1, <2>2, Zenon
<1> HIDE DEF k
<1> QED
  BY <1>1, <1>2, <1>3, PassStarts, Zenon

\* The consumer applies what the record says to the row bound to the session.
LEMMA ConsumeKeeps ==
    ASSUME ResultType, Locked, InFlight, Moved, OnRecord, cursor \in Nat,
           NEW crash, Result!Consume(crash)
    PROVE  ResultInv' /\ Result!OwnerMoves
<1> DEFINE e == log[cursor + 1]
           s == e.s
           k == ses[s].res
<1>a. s \in ResultSessions /\ ses[s].status = "completed"
  BY SMTT(40) DEF Result!Consume, InFlight, EventFlight
<1>b. k \in Result!Results \cup {None}
  BY <1>a, ZenonT(40) DEF ResultType
<1>c. /\ rRow' \in Result!Applied(e)
      /\ moves' = IF rRow' # rRow /\ k \in {"advance", "ship"} THEN [moves EXCEPT ![s] = @ + 1] ELSE moves
      /\ routed' = IF rRow' # rRow THEN [routed EXCEPT ![s] = k] ELSE routed
      /\ UNCHANGED <<ses, rTail, emit, marker, hook, rec, lock, log>>
      /\ crashes' \in {crashes, crashes + 1}
  BY Zenon DEF Result!Consume
<1>d. \/ rRow' = rRow
      \/ rRow.status = "RUNNING" /\ rRow.session = s /\ k = None /\ rRow' = [rRow EXCEPT !.status = "BLOCKED"]
      \/ rRow.status = "RUNNING" /\ rRow.session = s /\ k # None /\ rRow' \in Result!Routed(k)
  BY <1>c, Zenon DEF Result!Applied, Result!EventRow
<1> HIDE DEF e, s, k
<1>e. Applies(s, k)
  <2>1. CASE rRow' = rRow
    BY <1>c, <2>1, Zenon DEF Applies, ResultType
  <2>2. CASE rRow' # rRow /\ k = None
    <3>1. rRow.status = "RUNNING" /\ rRow' = [rRow EXCEPT !.status = "BLOCKED"] /\ UNCHANGED moves
      BY <1>c, <1>d, <2>2, Zenon
    <3>2. /\ DOMAIN rRow' = {"status", "stage", "session"} /\ rRow'.session = rRow.session
          /\ rRow'.stage = rRow.stage /\ rRow'.status = "BLOCKED"
      BY <3>1, Zenon DEF ResultType
    <3> QED
      BY <1>c, <3>1, <3>2, Zenon DEF Applies
  <2>3. CASE rRow' # rRow /\ k # None
    <3>1. rRow.status = "RUNNING" /\ rRow.session = s /\ rRow' \in Result!Routed(k) /\ k \in Result!Results
      BY <1>b, <1>d, <2>3, Zenon
    <3>2. moves[s] = 0
      <4>1. moves[s] \in Nat /\ moves[s] <= 1
        BY <1>a, Zenon DEF ResultType, Moved
      <4>2. moves[s] # 1
        BY <1>a, <3>1, Zenon DEF Moved
      <4> QED
        BY <4>1, <4>2, SMTT(40)
    <3> QED
      BY <1>c, <2>3, <3>1, <3>2, RoutedFacts, Zenon DEF Applies
  <2> QED
    BY <2>1, <2>2, <2>3, Zenon
<1>g. /\ Moved' /\ rRow'.session \in ResultSessions \cup {None}
      /\ moves' \in [ResultSessions -> Nat] /\ DOMAIN routed' = ResultSessions
      /\ \A z \in ResultSessions : z # s => routed'[z] = routed[z]
      /\ routed'[s] \in {routed[s], k}
  BY <1>a, <1>c, <1>e, AppliesKeeps, Zenon
<1>1. ResultType'
  BY <1>c, <1>e, <1>g, SMTT(40) DEF ResultType, Applies
<1>2. Locked'
  BY <1>c, Zenon DEF Locked
<1>3. InFlight'
  <2>1. HookFlight'
    BY <1>c, Zenon DEF InFlight, HookFlight
  <2>2. PassFlight'
    <3>1. rec.pc = "refuse" => moves'[rec.s] = moves[rec.s]
      <4>1. rec.pc = "refuse" => rec.s \in ResultSessions /\ ses[rec.s].status = "active"
        BY Zenon DEF ResultType, InFlight, PassFlight
      <4>2. \A z \in ResultSessions : z # s => moves'[z] = moves[z]
        BY <1>c, Zenon DEF ResultType
      <4> QED
        BY <1>a, <4>1, <4>2, Zenon
    <3> QED
      BY <1>c, <3>1, Zenon DEF InFlight, PassFlight
  <2>3. EventFlight'
    BY <1>c, Zenon DEF InFlight, EventFlight
  <2> QED
    BY <2>1, <2>2, <2>3, Zenon DEF InFlight
<1>5. OnRecord'
  <2>1. crashes' = 0 => crashes = 0
    BY <1>c, SMTT(40) DEF ResultType
  <2> QED
    BY <1>c, <1>g, <2>1, ZenonT(40) DEF OnRecord, k
<1>6. rRow'.stage # rRow.stage => rRow.session = s /\ ses[s].res = "advance"
  BY <1>e, Zenon DEF Applies, k
<1> QED
  BY <1>a, <1>g, <1>1, <1>2, <1>3, <1>5, <1>6, Zenon DEF ResultInv, Result!OwnerMoves

-----------------------------------------------------------------------------

LEMMA ResultStarts ==
    ASSUME Result!Init
    PROVE  ResultInv /\ cursor \in Nat
<1> USE DEF Result!Init, Result!NoSession
<1>1. ResultType
  BY Zenon DEF ResultType, SesFields
<1>2. Locked /\ Moved /\ OnRecord
  BY SMTT(40) DEF Locked, Moved, OnRecord
<1>3. InFlight
  BY DEF InFlight, HookFlight, PassFlight, EventFlight
<1> QED
  BY <1>1, <1>2, <1>3, Zenon DEF ResultInv

LEMMA CursorStep ==
    ASSUME cursor \in Nat, Result!Next
    PROVE  cursor' \in Nat
<1>1. ASSUME NEW crash, Result!Consume(crash) PROVE cursor' \in Nat
  BY <1>1 DEF Result!Consume
<1>21. ASSUME NEW s \in ResultSessions,
                Result!Claim(s) \/ Result!Background(s) \/ Result!Dies(s) \/
                Result!EmitStore(s) \/ Result!EmitStamp(s)
       PROVE  UNCHANGED cursor
  BY <1>21, Zenon DEF Result!Claim, Result!Background, Result!Dies, Result!EmitStore, Result!EmitStamp
<1>22. ASSUME NEW s \in ResultSessions, NEW k \in ResultKinds,
                Result!Writes(s, k) \/ Result!EmitCheck(s, k)
       PROVE  UNCHANGED cursor
  BY <1>22, Zenon DEF Result!Writes, Result!EmitCheck
<1>23. ASSUME NEW s \in ResultSessions,
                Result!StopBegin(s) \/ Result!StopNothing(s) \/ Result!StopInteractive(s) \/
                Result!StopRoute(s) \/ Result!StopSave(s)
       PROVE  UNCHANGED cursor
  BY <1>23, Zenon DEF Result!StopBegin, Result!StopNothing, Result!StopInteractive, Result!StopRoute, Result!StopSave
<1>24. ASSUME NEW s \in ResultSessions,
                Result!StopHarvest(s) \/ Result!StopEvent(s) \/
                Result!StopKill(s) \/ Result!StopDies(s)
       PROVE  UNCHANGED cursor
  BY <1>24, Zenon DEF Result!StopHarvest, Result!StopEvent, Result!StopKill, Result!StopDies
<1>25. ASSUME NEW s \in ResultSessions,
                Result!RecRoute(s) \/ Result!RecSalvage(s) \/
                Result!RecCrash(s) \/ Result!Backstop(s)
       PROVE  UNCHANGED cursor
  BY <1>25, Zenon DEF Result!RecRoute, Result!RecSalvage, Result!RecCrash, Result!Backstop
<1>26. ASSUME Result!Requeue \/ Result!RecSave \/ Result!RecRefuse \/
                Result!RecCrashSave \/ Result!RecEvent \/ Result!RecDies
       PROVE  UNCHANGED cursor
  BY <1>26, Zenon DEF Result!Requeue, Result!RecSave, Result!RecRefuse, Result!RecCrashSave, Result!RecEvent, Result!RecDies
<1>2. UNCHANGED cursor => cursor' \in Nat
  BY Zenon
<1> QED
  BY <1>1, <1>2, <1>21, <1>22, <1>23, <1>24, <1>25, <1>26, ZenonT(40) DEF Result!Next, Result!HookStep, Result!RecStep, Result!BackstopStep

LEMMA ResultInvStep ==
    ASSUME ResultInv, cursor \in Nat, Result!Next
    PROVE  ResultInv'
<1> USE DEF ResultInv
<1>1. ASSUME NEW s \in ResultSessions,
             Result!Claim(s) \/ Result!Background(s) \/ Result!Dies(s) \/ Result!EmitStore(s) \/ Result!EmitStamp(s)
      PROVE  ResultInv'
  BY <1>1, ClaimKeeps, WorkerKeeps, EmitStoreKeeps, EmitStampKeeps, Zenon
<1>2. ASSUME NEW s \in ResultSessions, NEW k \in ResultKinds, Result!Writes(s, k) \/ Result!EmitCheck(s, k)
      PROVE  ResultInv'
  BY <1>2, WritesKeeps, WorkerKeeps, ZenonT(40)
<1>3. ASSUME NEW s \in ResultSessions, Result!StopBegin(s) \/ Result!HookStep(s) \/ Result!StopDies(s)
      PROVE  ResultInv'
  BY <1>3, StopBeginKeeps, StopNothingKeeps, StopInteractiveKeeps, StopRouteKeeps, StopSaveKeeps,
     StopHarvestKeeps, StopEventKeeps, StopKillKeeps, StopDiesKeeps, ZenonT(40) DEF Result!HookStep
<1>4. ASSUME Result!Requeue \/ Result!RecStep \/ Result!RecDies \/ Result!BackstopStep
      PROVE  ResultInv'
  BY <1>4, RequeueKeeps, RecSaveKeeps, RecRefuseKeeps, RecCrashSaveKeeps, RecEventKeeps, RecRouteKeeps,
     RecSalvageKeeps, RecCrashKeeps, RecDiesKeeps, BackstopKeeps, ZenonT(40), ZenonT(40) DEF Result!RecStep, Result!BackstopStep
<1>5. ASSUME NEW crash \in BOOLEAN, Result!Consume(crash)
      PROVE  ResultInv'
  BY <1>5, ConsumeKeeps, Zenon
<1> HIDE DEF ResultInv
<1> QED
  BY <1>1, <1>2, <1>3, <1>4, <1>5, Zenon DEF Result!Next

\* Only the door and the refusal's stamp write a record's result.
LEMMA ResultStays ==
    ASSUME ResultInv, Result!Next
    PROVE  Result!FirstResultStays
<1> USE DEF Result!FirstResultStays
<1>0. ResultType
  BY Zenon DEF ResultInv
<1>1. ASSUME NEW s \in ResultSessions, Result!Claim(s)
      PROVE  Result!FirstResultStays
  <2>1. PICK h \in BOOLEAN : ses' = [ses EXCEPT ![s].status = "active", ![s].headless = h]
    BY <1>1, Zenon DEF Result!Claim
  <2>2. ses' = [ses EXCEPT ![s] = [ses[s] EXCEPT !.status = "active", !.headless = h]]
    BY <1>0, <2>1, Zenon DEF ResultType
  <2> QED
    BY <1>0, <2>2 DEF ResultType, SesFields
<1>2. ASSUME NEW s \in ResultSessions, Result!EmitStore(s)
      PROVE  Result!FirstResultStays
  BY <1>0, <1>2, Zenon DEF Result!EmitStore, Result!EmitResultOn, ResultType, SesFields
<1>3. ASSUME NEW s \in ResultSessions, Result!StopSave(s)
      PROVE  Result!FirstResultStays
  BY <1>0, <1>3 DEF Result!StopSave, ResultType, SesFields
<1>4. ASSUME NEW s \in ResultSessions, Result!StopHarvest(s)
      PROVE  Result!FirstResultStays
  BY <1>0, <1>4, Zenon DEF Result!StopHarvest, Result!EmitResultOn, ResultType, SesFields
<1>5. ASSUME Result!RecSave
      PROVE  Result!FirstResultStays
  BY <1>0, <1>5 DEF Result!RecSave, Result!EmitResultOn, ResultType, SesFields
<1>6. ASSUME Result!RecRefuse
      PROVE  Result!FirstResultStays
  BY <1>0, <1>6 DEF Result!RecRefuse, ResultType, SesFields
<1>7. ASSUME Result!RecCrashSave
      PROVE  Result!FirstResultStays
  BY <1>0, <1>7, SMTT(40) DEF Result!RecCrashSave, ResultType, SesFields
<1>8. UNCHANGED ses => Result!FirstResultStays
  BY Zenon
<1> HIDE DEF Result!FirstResultStays
<1>21. ASSUME NEW s \in ResultSessions,
                Result!Background(s) \/ Result!Dies(s) \/ Result!EmitStamp(s)
       PROVE  UNCHANGED ses
  BY <1>21, Zenon DEF Result!Background, Result!Dies, Result!EmitStamp
<1>22. ASSUME NEW s \in ResultSessions, NEW k \in ResultKinds,
                Result!Writes(s, k) \/ Result!EmitCheck(s, k)
       PROVE  UNCHANGED ses
  BY <1>22, Zenon DEF Result!Writes, Result!EmitCheck
<1>23. ASSUME NEW s \in ResultSessions,
                Result!StopBegin(s) \/ Result!StopNothing(s) \/
                Result!StopInteractive(s) \/ Result!StopRoute(s)
       PROVE  UNCHANGED ses
  BY <1>23, Zenon DEF Result!StopBegin, Result!StopNothing, Result!StopInteractive, Result!StopRoute
<1>24. ASSUME NEW s \in ResultSessions,
                Result!StopEvent(s) \/ Result!StopKill(s) \/ Result!StopDies(s)
       PROVE  UNCHANGED ses
  BY <1>24, Zenon DEF Result!StopEvent, Result!StopKill, Result!StopDies
<1>25. ASSUME NEW s \in ResultSessions,
                Result!RecRoute(s) \/ Result!RecSalvage(s) \/
                Result!RecCrash(s) \/ Result!Backstop(s)
       PROVE  UNCHANGED ses
  BY <1>25, Zenon DEF Result!RecRoute, Result!RecSalvage, Result!RecCrash, Result!Backstop
<1>26. ASSUME Result!Requeue \/ Result!RecEvent \/ Result!RecDies
       PROVE  UNCHANGED ses
  BY <1>26, Zenon DEF Result!Requeue, Result!RecEvent, Result!RecDies
<1>27. ASSUME NEW crash,
                Result!Consume(crash)
       PROVE  UNCHANGED ses
  BY <1>27, Zenon DEF Result!Consume
<1> QED
  BY <1>1, <1>2, <1>3, <1>4, <1>5, <1>6, <1>7, <1>8, <1>21, <1>22, <1>23, <1>24, <1>25, <1>26, <1>27, ZenonT(40)
  DEF Result!Next, Result!HookStep, Result!RecStep, Result!BackstopStep

\* Only a route and the consumer change a row's stage.
LEMMA OwnerMovesRow ==
    ASSUME ResultInv, cursor \in Nat, Result!Next
    PROVE  Result!OwnerMoves
<1>0. ResultType /\ Locked /\ InFlight /\ Moved /\ OnRecord
  BY Zenon DEF ResultInv
<1>1. ASSUME NEW s \in ResultSessions, Result!StopRoute(s)
      PROVE  Result!OwnerMoves
  BY <1>0, <1>1, StopRouteKeeps, Zenon
<1>2. ASSUME NEW s \in ResultSessions, Result!RecRoute(s)
      PROVE  Result!OwnerMoves
  BY <1>0, <1>2, RecRouteKeeps, Zenon
<1>3. ASSUME NEW crash \in BOOLEAN, Result!Consume(crash)
      PROVE  Result!OwnerMoves
  BY <1>0, <1>3, ConsumeKeeps, Zenon
<1>4. rRow'.stage = rRow.stage => Result!OwnerMoves
  BY Zenon DEF Result!OwnerMoves
<1>5. UNCHANGED rRow => Result!OwnerMoves
  BY Zenon DEF Result!OwnerMoves
<1>6. DOMAIN rRow = {"status", "stage", "session"}
  BY <1>0, Zenon DEF ResultType
<1>7. ASSUME NEW s \in ResultSessions, Result!Claim(s)
      PROVE  rRow'.stage = rRow.stage
  BY <1>6, <1>7, Zenon DEF Result!Claim
<1>8. ASSUME NEW s \in ResultSessions, Result!StopNothing(s)
      PROVE  rRow'.stage = rRow.stage
  BY <1>6, <1>8, Zenon DEF Result!StopNothing
<1>9. ASSUME Result!Requeue
      PROVE  rRow'.stage = rRow.stage
  BY <1>6, <1>9, Zenon DEF Result!Requeue, Result!Unbound
<1>10. ASSUME NEW s \in ResultSessions, Result!RecSalvage(s)
       PROVE  rRow'.stage = rRow.stage
  BY <1>6, <1>10, Zenon DEF Result!RecSalvage
<1>11. ASSUME NEW s \in ResultSessions, Result!RecCrash(s)
       PROVE  rRow'.stage = rRow.stage
  <2>1. rRow' \in {rRow, Result!Unbound, [rRow EXCEPT !.status = "BLOCKED", !.session = None]}
    BY <1>11, Zenon DEF Result!RecCrash
  <2> QED
    BY <1>6, <2>1, Zenon DEF Result!Unbound
<1>12. ASSUME NEW s \in ResultSessions, Result!Backstop(s)
       PROVE  rRow'.stage = rRow.stage
  <2>1. rRow' \in {Result!Unbound, [rRow EXCEPT !.status = "BLOCKED", !.session = None]}
    BY <1>12, Zenon DEF Result!Backstop
  <2> QED
    BY <1>6, <2>1, Zenon DEF Result!Unbound
<1>21. ASSUME NEW s \in ResultSessions,
                Result!Background(s) \/ Result!Dies(s) \/
                Result!EmitStore(s) \/ Result!EmitStamp(s)
       PROVE  UNCHANGED rRow
  BY <1>21, ZenonT(40) DEF Result!Background, Result!Dies, Result!EmitStore, Result!EmitStamp
<1>22. ASSUME NEW s \in ResultSessions, NEW k \in ResultKinds,
                Result!Writes(s, k) \/ Result!EmitCheck(s, k)
       PROVE  UNCHANGED rRow
  BY <1>22, Zenon DEF Result!Writes, Result!EmitCheck
<1>23. ASSUME NEW s \in ResultSessions,
                Result!StopBegin(s) \/ Result!StopInteractive(s) \/ Result!StopSave(s)
       PROVE  UNCHANGED rRow
  BY <1>23, Zenon DEF Result!StopBegin, Result!StopInteractive, Result!StopSave
<1>24. ASSUME NEW s \in ResultSessions,
                Result!StopHarvest(s) \/ Result!StopEvent(s) \/
                Result!StopKill(s) \/ Result!StopDies(s)
       PROVE  UNCHANGED rRow
  BY <1>24, Zenon DEF Result!StopHarvest, Result!StopEvent, Result!StopKill, Result!StopDies
<1>25. ASSUME Result!RecSave \/ Result!RecRefuse \/ Result!RecCrashSave \/
                Result!RecEvent \/ Result!RecDies
       PROVE  UNCHANGED rRow
  BY <1>25, Zenon DEF Result!RecSave, Result!RecRefuse, Result!RecCrashSave, Result!RecEvent, Result!RecDies
<1> QED
  BY <1>1, <1>2, <1>3, <1>4, <1>5, <1>7, <1>8, <1>9, <1>10, <1>11, <1>12, <1>21, <1>22, <1>23, <1>24, <1>25, ZenonT(40)
 , Zenon DEF Result!Next, Result!HookStep, Result!RecStep, Result!BackstopStep

-----------------------------------------------------------------------------
(***************************************************************************)
(* The theorems.                                                           *)
(***************************************************************************)

\* The result's invariant, when it is the part that runs.
ResultHolds == part = "result" => ResultInv /\ cursor \in Nat

LEMMA ResultHoldsStep ==
    ASSUME ResultHolds, [ResultNext]_<<part, ResultVars>>
    PROVE  ResultHolds'
<1>1. CASE ResultNext
  BY <1>1, ResultInvStep, CursorStep, Zenon DEF ResultNext, ResultHolds
<1>2. CASE UNCHANGED <<part, ResultVars>>
  <2>1. UNCHANGED part /\ UNCHANGED rVars
    BY <1>2, Zenon DEF ResultVars
  <2>2. ResultInv => ResultInv'
    BY <2>1, QuietKeeps, Zenon DEF rVars, ResultInv, ResultType
  <2> QED
    BY <2>1, <2>2, Zenon DEF rVars, ResultHolds
<1> QED
  BY <1>1, <1>2, Zenon

\* The invariant of a result on its way holds, for every value of the constants.
THEOREM ResultSafe == ResultSpec => []ResultHolds
<1>1. ResultInit => ResultHolds
  BY ResultStarts, Zenon DEF ResultInit, ResultHolds
<1> QED
  BY <1>1, ResultHoldsStep, PTL DEF ResultSpec

\* A session's result moves the row on at most once, whoever dies in between,
\* and without a death what was applied is what the record says: for any
\* sessions, any order of the emit, the Stop hook, the sweeps, the operator and
\* the consumer, and any number of crashes and events.
THEOREM ResultAppliedOnce == ResultSpec => []AppliedAsRecorded
<1>1. ASSUME ResultInv
      PROVE  Result!AppliedAsRecorded
  <2>1. Result!MovedOnce
    BY <1>1, Zenon DEF ResultInv, Moved, Result!MovedOnce
  <2>2. Result!RecordedIsRouted
    BY <1>1, Zenon DEF ResultInv, OnRecord, Result!RecordedIsRouted
  <2> QED
    BY <2>1, <2>2, Zenon DEF Result!AppliedAsRecorded
<1>2. ResultHolds => AppliedAsRecorded
  BY <1>1, Zenon DEF ResultHolds, AppliedAsRecorded
<1> QED
  BY <1>2, ResultSafe, PTL

\* The first result on record stays, whichever of the emit, the harvest and the
\* sweeps comes to the door of result.py next, and only the session that the row
\* is bound to takes the row to its next stage.
THEOREM FirstResultKept == ResultSpec => ResultKept
<1>1. ASSUME ResultHolds, [ResultNext]_<<part, ResultVars>>
      PROVE  [part = "result" => Result!ResultStep]_rVars
  <2>1. CASE UNCHANGED <<part, ResultVars>>
    BY <2>1, Zenon DEF ResultVars
  <2>2. CASE ResultNext
    <3>1. part = "result" /\ Result!Next
      BY <2>2, Zenon DEF ResultNext
    <3>2. ResultInv /\ cursor \in Nat
      BY <1>1, <3>1, Zenon DEF ResultHolds
    <3>3. Result!FirstResultStays /\ Result!OwnerMoves
      BY <3>1, <3>2, ResultStays, OwnerMovesRow, Zenon
    <3> QED
      BY <3>3, Zenon DEF Result!ResultStep
  <2> QED
    BY <1>1, <2>1, <2>2, Zenon
<1> QED
  BY <1>1, ResultSafe, PTL DEF ResultSpec, ResultKept
=============================================================================
