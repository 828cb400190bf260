-------------------------- MODULE LanePartsProofs --------------------------
(***************************************************************************)
(* The capacity of a dispatch tick.  The rows and sessions that count      *)
(* against a cap only become fewer while a tick is under way, except by    *)
(* its own claims and spawns; so every count it took is an upper bound of  *)
(* the true one, and what it has granted is still free.                    *)
(***************************************************************************)
EXTENDS LaneParts, Integers, FiniteSetTheorems, TLAPS

Workers(l) == {t \in Lanes!InLane(l) : status[t] = "RUNNING"}
SessionsOf(c) == {t \in Lanes!Tickets : Lanes!ClientOf(t) = c /\ sess[t]}
Working == {t \in Lanes!Tickets : sess[t] /\ status[t] \notin Lanes!Parked}

\* The true counts: workers per lane, sessions per client, working sessions.
Load ==
    [lane |-> [l \in Lanes!Lanes |-> Cardinality(Workers(l))],
     client |-> [c \in Lanes!Clients |-> Cardinality(SessionsOf(c))],
     host |-> Cardinality(Working)]

Loads == [lane : [Lanes!Lanes -> Nat], client : [Lanes!Clients -> Nat], host : Nat]

\* A tick that is under way.
LaneTickFields ==
    {"pc", "c", "l", "snap", "running", "host", "gated", "slots", "grant", "served", "row",
     "capBlocked", "spawned", "broke"}

LaneTick(k) ==
    /\ DOMAIN k = LaneTickFields
    /\ k.pc \in {"client", "lane", "claim", "spawn", "report"}
    /\ k.c \in Nat \ {0} /\ k.l \in Nat \ {0}
    /\ k.snap \in [Lanes!Lanes -> [taken : Nat, waiting : Nat]]
    /\ k.running \in [Lanes!Clients -> Nat]
    /\ k.host \in Int /\ k.slots \in Int /\ k.grant \in Nat /\ k.spawned \in Nat

\* The load is within the caps.
Within(w) ==
    /\ \A l \in Lanes!Lanes : w.lane[l] <= MaxParallel[l]
    /\ \A c \in Lanes!Clients : w.client[c] <= Ceiling[c]
    /\ w.host <= Budget

\* The clients that the tick has not begun with.
Ahead(k, i) == i \in DOMAIN ClientSeq /\ (IF k.pc = "client" THEN i >= k.c ELSE i > k.c)

\* The lanes that the walk has not granted.
Ungranted(k, i) ==
    /\ i \in DOMAIN LanesOf[ClientSeq[k.c]]
    /\ IF k.pc = "lane" THEN i >= k.l ELSE k.pc \in {"claim", "spawn"} /\ i > k.l

\* What the tick k counted and granted fits the load w.
Fits(k, w) ==
    /\ \A i \in DOMAIN ClientSeq :
          Ahead(k, i) => w.client[ClientSeq[i]] <= k.running[ClientSeq[i]]
    /\ w.host + k.host - k.spawned <= Budget
    /\ k.pc = "client" => k.spawned = 0
    /\ k.pc # "client" => k.c \in DOMAIN ClientSeq
    /\ k.pc \in {"lane", "claim", "spawn"} =>
          LET c == ClientSeq[k.c] IN
          /\ k.slots > 0 => w.client[c] + k.slots <= Ceiling[c]
          /\ k.slots <= k.host - k.spawned
          /\ \A i \in DOMAIN LanesOf[c] :
                Ungranted(k, i) => w.lane[LanesOf[c][i]] <= k.snap[LanesOf[c][i]].taken
    /\ k.pc \in {"claim", "spawn"} =>
          LET c == ClientSeq[k.c] IN
          /\ k.l \in DOMAIN LanesOf[c]
          /\ 1 <= k.grant /\ k.grant <= k.slots
          /\ w.lane[LanesOf[c][k.l]] + k.grant - (IF k.pc = "spawn" THEN 1 ELSE 0)
                <= MaxParallel[LanesOf[c][k.l]]
          /\ k.pc = "spawn" => \A t \in k.row : Lanes!ClientOf(t) = c

\* The inductive invariant of the capacity.
LanesInv ==
    /\ DOMAIN status = Lanes!Tickets /\ DOMAIN sess = Lanes!Tickets
    /\ Within(Load)
    /\ dTick = Lanes!Idle \/ (LaneTick(dTick) /\ Fits(dTick, Load))

\* The part counts as this module does.
LEMMA LanesCounts == \A S : Lanes!Cardinality(S) = Cardinality(S)
BY Zenon DEF Lanes!Cardinality, Cardinality

LEMMA LanesFinite == IsFiniteSet(Lanes!Tickets)
BY LanesAssumption, Zenon DEF Lanes!TickAssumption, Lanes!IsFiniteSet, IsFiniteSet

\* The counts are numbers.
LEMMA LoadType == Load \in Loads /\ Load' \in Loads
<1>1. \A S \in SUBSET Lanes!Tickets : Cardinality(S) \in Nat
  BY LanesFinite, FS_Subset, FS_CardinalityType, Zenon
<1>2. /\ \A l : Workers(l) \in SUBSET Lanes!Tickets /\ Workers(l)' \in SUBSET Lanes!Tickets
      /\ \A c : SessionsOf(c) \in SUBSET Lanes!Tickets /\ SessionsOf(c)' \in SUBSET Lanes!Tickets
      /\ Working \in SUBSET Lanes!Tickets /\ Working' \in SUBSET Lanes!Tickets
  BY Zenon DEF Workers, SessionsOf, Working, Lanes!InLane
<1>3. /\ \A l : Cardinality(Workers(l)) \in Nat /\ Cardinality(Workers(l)') \in Nat
      /\ \A c : Cardinality(SessionsOf(c)) \in Nat /\ Cardinality(SessionsOf(c)') \in Nat
      /\ Cardinality(Working) \in Nat /\ Cardinality(Working') \in Nat
  BY <1>1, <1>2, Zenon
<1> QED
  BY <1>3, Zenon DEF Load, Loads

\* A smaller set has no more members, and one new member adds one at most.
LEMMA Fewer ==
    ASSUME NEW S \in SUBSET Lanes!Tickets, NEW T \in SUBSET Lanes!Tickets, T \subseteq S
    PROVE  Cardinality(T) <= Cardinality(S)
BY LanesFinite, FS_Subset, Zenon

LEMMA OneMore ==
    ASSUME NEW S \in SUBSET Lanes!Tickets, NEW T \in SUBSET Lanes!Tickets,
           NEW t, T \subseteq S \cup {t}
    PROVE  Cardinality(T) <= Cardinality(S) + 1
<1>1. IsFiniteSet(S) /\ IsFiniteSet(S \cup {t})
  BY LanesFinite, FS_Subset, FS_AddElement, Zenon
<1>2. Cardinality(T) <= Cardinality(S \cup {t})
  BY <1>1, FS_Subset, Zenon
<1>3. /\ Cardinality(S \cup {t}) = Cardinality(S) \/ Cardinality(S \cup {t}) = Cardinality(S) + 1
      /\ Cardinality(S) \in Nat /\ Cardinality(T) \in Nat
  BY <1>1, FS_AddElement, FS_CardinalityType, FS_Subset, Zenon
<1> QED
  BY <1>2, <1>3

\* The load v is nowhere above the load w.
Lighter(v, w) ==
    /\ \A l \in Lanes!Lanes : v.lane[l] <= w.lane[l]
    /\ \A c \in Lanes!Clients : v.client[c] <= w.client[c]
    /\ v.host <= w.host

LEMMA LoadFalls ==
    ASSUME \A l \in Lanes!Lanes : Workers(l)' \subseteq Workers(l),
           \A c \in Lanes!Clients : SessionsOf(c)' \subseteq SessionsOf(c),
           Working' \subseteq Working
    PROVE  Lighter(Load', Load)
<1>1. /\ \A l : Workers(l) \in SUBSET Lanes!Tickets /\ Workers(l)' \in SUBSET Lanes!Tickets
      /\ \A c : SessionsOf(c) \in SUBSET Lanes!Tickets /\ SessionsOf(c)' \in SUBSET Lanes!Tickets
      /\ Working \in SUBSET Lanes!Tickets /\ Working' \in SUBSET Lanes!Tickets
  BY Zenon DEF Workers, SessionsOf, Working, Lanes!InLane
<1>2. \A l \in Lanes!Lanes : Cardinality(Workers(l)') <= Cardinality(Workers(l))
  BY <1>1, Fewer, Zenon
<1>3. \A c \in Lanes!Clients : Cardinality(SessionsOf(c)') <= Cardinality(SessionsOf(c))
  BY <1>1, Fewer, Zenon
<1>4. Cardinality(Working') <= Cardinality(Working)
  BY <1>1, Fewer, Zenon
<1> QED
  BY <1>2, <1>3, <1>4, Zenon DEF Lighter, Load

\* What fits a load fits a lighter one.
LEMMA LighterFits ==
    ASSUME NEW w \in Loads, NEW v \in Loads, Lighter(v, w), Within(w)
    PROVE  /\ Within(v)
           /\ \A k : LaneTick(k) /\ Fits(k, w) => Fits(k, v)
<1>0. /\ ClientSeq \in Seq(Lanes!Clients) /\ LanesOf \in [Lanes!Clients -> Seq(Lanes!Lanes)]
      /\ MaxParallel \in [Lanes!Lanes -> Nat] /\ Ceiling \in [Lanes!Clients -> Nat]
      /\ Budget \in Nat
  BY LanesAssumption, Zenon DEF Lanes!TickAssumption
<1>1. Within(v)
  BY <1>0, SMTT(40) DEF Within, Lighter, Loads
<1>2. ASSUME NEW k, LaneTick(k), Fits(k, w)
      PROVE  Fits(k, v)
  <2>1. \A i \in DOMAIN ClientSeq : ClientSeq[i] \in Lanes!Clients
    BY <1>0, SMTT(40)
  <2>2. \A i \in DOMAIN ClientSeq :
          Ahead(k, i) => v.client[ClientSeq[i]] <= k.running[ClientSeq[i]]
    BY <1>2, <2>1, SMTT(40) DEF Fits, Lighter, Loads, LaneTick, LaneTickFields
  <2>3. v.host + k.host - k.spawned <= Budget
    BY <1>0, <1>2, SMTT(40) DEF Fits, Lighter, Loads, LaneTick, LaneTickFields
  <2>4. /\ k.pc = "client" => k.spawned = 0
        /\ k.pc # "client" => k.c \in DOMAIN ClientSeq
    BY <1>2, Zenon DEF Fits
  <2> DEFINE c == ClientSeq[k.c]
  <2>5. ASSUME k.pc \in {"lane", "claim", "spawn"}
        PROVE  /\ c \in Lanes!Clients /\ v.client[c] <= w.client[c]
               /\ \A i \in DOMAIN LanesOf[c] : LanesOf[c][i] \in Lanes!Lanes
    BY <1>0, <2>1, <2>4, <2>5, SMTT(40) DEF Lighter
  <2>6. ASSUME k.pc \in {"lane", "claim", "spawn"}
        PROVE  /\ k.slots > 0 => v.client[c] + k.slots <= Ceiling[c]
               /\ k.slots <= k.host - k.spawned
    <3>1. /\ v.client[c] \in Nat /\ w.client[c] \in Nat /\ Ceiling[c] \in Nat
          /\ k.slots \in Int /\ v.client[c] <= w.client[c]
      BY <1>0, <1>2, <2>5, <2>6, ZenonT(40) DEF Loads, LaneTick
    <3>2. /\ k.slots > 0 => w.client[c] + k.slots <= Ceiling[c]
          /\ k.slots <= k.host - k.spawned
      BY <1>2, <2>6, Zenon DEF Fits
    <3> HIDE DEF c
    <3> QED
      BY <3>1, <3>2
  <2>7. ASSUME k.pc \in {"lane", "claim", "spawn"}, NEW i \in DOMAIN LanesOf[c], Ungranted(k, i)
        PROVE  v.lane[LanesOf[c][i]] <= k.snap[LanesOf[c][i]].taken
    <3>1. w.lane[LanesOf[c][i]] <= k.snap[LanesOf[c][i]].taken
      BY <1>2, <2>7, Zenon DEF Fits
    <3> QED
      BY <1>2, <2>5, <2>7, <3>1 DEF Lighter, Loads, LaneTick, LaneTickFields
  <2>8. ASSUME k.pc \in {"claim", "spawn"}
        PROVE  /\ k.l \in DOMAIN LanesOf[c]
               /\ 1 <= k.grant /\ k.grant <= k.slots
               /\ v.lane[LanesOf[c][k.l]] + k.grant - (IF k.pc = "spawn" THEN 1 ELSE 0)
                     <= MaxParallel[LanesOf[c][k.l]]
               /\ k.pc = "spawn" => \A t \in k.row : Lanes!ClientOf(t) = c
    <3>1. /\ k.l \in DOMAIN LanesOf[c] /\ 1 <= k.grant /\ k.grant <= k.slots
          /\ w.lane[LanesOf[c][k.l]] + k.grant - (IF k.pc = "spawn" THEN 1 ELSE 0)
                <= MaxParallel[LanesOf[c][k.l]]
          /\ k.pc = "spawn" => \A t \in k.row : Lanes!ClientOf(t) = c
      BY <1>2, <2>8, Zenon DEF Fits
    <3>2. LanesOf[c][k.l] \in Lanes!Lanes
      BY <2>5, <2>8, <3>1, Zenon
    <3>3. /\ v.lane[LanesOf[c][k.l]] <= w.lane[LanesOf[c][k.l]] /\ k.grant \in Nat
          /\ v.lane[LanesOf[c][k.l]] \in Nat /\ w.lane[LanesOf[c][k.l]] \in Nat
          /\ MaxParallel[LanesOf[c][k.l]] \in Nat
      BY <1>0, <1>2, <3>2, Zenon DEF Lighter, Loads, LaneTick, LaneTickFields
    <3> HIDE DEF c
    <3>4. CASE k.pc = "spawn"
      BY <3>1, <3>3, <3>4
    <3>5. CASE k.pc # "spawn"
      BY <3>1, <3>3, <3>5
    <3> QED
      BY <3>4, <3>5, Zenon
  <2> QED
    BY <2>2, <2>3, <2>4, <2>6, <2>7, <2>8, Zenon DEF Fits
<1> QED
  BY <1>1, <1>2, Zenon

\* The constants of the walk.
LEMMA WalkFacts ==
    /\ ClientSeq \in Seq(Lanes!Clients) /\ LanesOf \in [Lanes!Clients -> Seq(Lanes!Lanes)]
    /\ MaxParallel \in [Lanes!Lanes -> Nat] /\ Ceiling \in [Lanes!Clients -> Nat]
    /\ Budget \in Nat
    /\ DOMAIN ClientSeq = 1..Len(ClientSeq) /\ Len(ClientSeq) \in Nat
    /\ \A i \in DOMAIN ClientSeq : ClientSeq[i] \in Lanes!Clients
    /\ \A c \in Lanes!Clients : \A i \in DOMAIN LanesOf[c] : LanesOf[c][i] \in Lanes!Lanes
    /\ \A c \in Lanes!Clients :
          DOMAIN LanesOf[c] = 1..Len(LanesOf[c]) /\ Len(LanesOf[c]) \in Nat
<1>1. /\ ClientSeq \in Seq(Lanes!Clients) /\ LanesOf \in [Lanes!Clients -> Seq(Lanes!Lanes)]
      /\ MaxParallel \in [Lanes!Lanes -> Nat] /\ Ceiling \in [Lanes!Clients -> Nat]
      /\ Budget \in Nat
  BY LanesAssumption, Zenon DEF Lanes!TickAssumption
<1>2. \A c \in Lanes!Clients : LanesOf[c] \in Seq(Lanes!Lanes)
  BY <1>1, Zenon
<1> QED
  BY <1>1, <1>2

LEMMA PlaceNumbers ==
    /\ \A i \in DOMAIN ClientSeq : i \in Nat
    /\ \A c \in Lanes!Clients : \A i \in DOMAIN LanesOf[c] : i \in Nat
<1>1. \A i \in DOMAIN ClientSeq : i \in 1..Len(ClientSeq)
  BY WalkFacts, Zenon
<1>2. \A c \in Lanes!Clients : \A i \in DOMAIN LanesOf[c] : i \in 1..Len(LanesOf[c])
  BY WalkFacts, Zenon
<1> QED
  BY <1>1, <1>2

LEMMA OneClientPlace ==
    \A i, j \in DOMAIN ClientSeq : ClientSeq[i] = ClientSeq[j] => i = j
BY LanesAssumption, Zenon DEF Lanes!TickAssumption

LEMMA OneLanePlace ==
    \A c, e \in Lanes!Clients : \A i \in DOMAIN LanesOf[c], j \in DOMAIN LanesOf[e] :
        LanesOf[c][i] = LanesOf[e][j] => c = e /\ i = j
BY LanesAssumption, Zenon DEF Lanes!TickAssumption

\* The tick j has counted what the tick k has.
SameCounts(j, k) ==
    j.c = k.c /\ j.snap = k.snap /\ j.running = k.running /\ j.host = k.host

\* The walk goes on to its next lane with nothing granted.
LEMMA NextLaneFits ==
    ASSUME NEW w \in Loads, NEW k, LaneTick(k), NEW j, LaneTick(j), Fits(k, w),
           k.pc \in {"lane", "claim"}, j.pc = "lane", j.l = k.l + 1, SameCounts(j, k),
           j.slots = k.slots, j.spawned = k.spawned
    PROVE  Fits(j, w)
<1>1. k.l \in Nat /\ k.c \in DOMAIN ClientSeq
  BY Zenon DEF LaneTick, LaneTickFields, Fits
<1>2. \A i \in DOMAIN ClientSeq : Ahead(j, i) => Ahead(k, i)
  BY Zenon DEF Ahead, SameCounts
<1>3. \A i \in DOMAIN LanesOf[ClientSeq[j.c]] : Ungranted(j, i) => Ungranted(k, i)
  <2> SUFFICES ASSUME NEW i \in DOMAIN LanesOf[ClientSeq[j.c]], Ungranted(j, i)
               PROVE  Ungranted(k, i)
    BY Zenon
  <2>1. j.c = k.c /\ i \in DOMAIN LanesOf[ClientSeq[k.c]]
    BY Zenon DEF SameCounts
  <2>2. i \in Nat
    <3>1. ClientSeq[k.c] \in Lanes!Clients
      BY <1>1, WalkFacts, Zenon
    <3> DEFINE s == LanesOf[ClientSeq[k.c]]
    <3>2. DOMAIN s = 1..Len(s) /\ Len(s) \in Nat
      BY <3>1, WalkFacts, Zenon
    <3>3. i \in DOMAIN s
      BY <2>1, Zenon
    <3> HIDE DEF s
    <3> QED
      BY <3>2, <3>3, SMTT(40)
  <2>3. i >= k.l + 1
    BY Zenon DEF Ungranted
  <2>4. i >= k.l /\ i > k.l
    BY <1>1, <2>2, <2>3, SMTT(40)
  <2> QED
    BY <2>1, <2>4, Zenon DEF Ungranted
<1> QED
  BY <1>1, <1>2, <1>3, Zenon DEF Fits, SameCounts

\* A row of the granted lane was claimed.
LEMMA ClaimFits ==
    ASSUME NEW w \in Loads, NEW v \in Loads, NEW k, LaneTick(k), NEW j, LaneTick(j),
           Within(w), Fits(k, w), k.pc = "claim", j.pc = "spawn", SameCounts(j, k),
           j.l = k.l, j.grant = k.grant, j.slots = k.slots, j.spawned = k.spawned,
           \A l \in Lanes!Lanes \ {LanesOf[ClientSeq[k.c]][k.l]} : v.lane[l] <= w.lane[l],
           v.lane[LanesOf[ClientSeq[k.c]][k.l]] <= w.lane[LanesOf[ClientSeq[k.c]][k.l]] + 1,
           \A c \in Lanes!Clients : v.client[c] <= w.client[c], v.host <= w.host,
           \A t \in j.row : Lanes!ClientOf(t) = ClientSeq[k.c]
    PROVE  Within(v) /\ Fits(j, v)
<1> DEFINE c == ClientSeq[k.c]
           m == LanesOf[c][k.l]
<1>1. /\ k.c \in DOMAIN ClientSeq /\ k.l \in DOMAIN LanesOf[c]
      /\ 1 <= k.grant /\ k.grant <= k.slots /\ k.slots <= k.host - k.spawned
      /\ k.slots > 0 => w.client[c] + k.slots <= Ceiling[c]
      /\ w.lane[m] + k.grant - 0 <= MaxParallel[m]
      /\ w.host + k.host - k.spawned <= Budget
  BY ZenonT(40) DEF Fits
<1>2. /\ c \in Lanes!Clients /\ m \in Lanes!Lanes
      /\ k.slots \in Int /\ k.grant \in Nat /\ k.host \in Int /\ k.spawned \in Nat
      /\ w.client[c] \in Nat /\ v.client[c] \in Nat /\ Ceiling[c] \in Nat
      /\ w.lane[m] \in Nat /\ v.lane[m] \in Nat /\ MaxParallel[m] \in Nat
      /\ w.host \in Nat /\ v.host \in Nat /\ Budget \in Nat
  BY <1>1, WalkFacts, ZenonT(40) DEF Loads, LaneTick, LaneTickFields
<1>3. v.lane[m] + k.grant - 1 <= MaxParallel[m] /\ v.lane[m] <= MaxParallel[m]
  <2>1. v.lane[m] <= w.lane[m] + 1
    BY Zenon
  <2> HIDE DEF c, m
  <2> QED BY <1>1, <1>2, <2>1, SMTT(40)
<1>4. Within(v)
  <2>1. \A l \in Lanes!Lanes \ {m} : v.lane[l] <= MaxParallel[l]
    BY WalkFacts, SMTT(40) DEF Within, Loads
  <2>2. \A e \in Lanes!Clients : v.client[e] <= Ceiling[e]
    BY WalkFacts, SMTT(40) DEF Within, Loads
  <2>3. v.host <= Budget
    <3>1. w.host <= Budget
      BY Zenon DEF Within
    <3> HIDE DEF c, m
    <3> QED BY <1>2, <3>1, SMTT(40)
  <2> QED
    BY <1>3, <2>1, <2>2, <2>3, ZenonT(40) DEF Within
<1>5. \A i \in DOMAIN ClientSeq :
        Ahead(j, i) => v.client[ClientSeq[i]] <= j.running[ClientSeq[i]]
  <2>1. SUFFICES ASSUME NEW i \in DOMAIN ClientSeq, Ahead(j, i)
                 PROVE  v.client[ClientSeq[i]] <= j.running[ClientSeq[i]]
    BY Zenon
  <2>2. Ahead(k, i) /\ ClientSeq[i] \in Lanes!Clients
    BY <2>1, WalkFacts, Zenon DEF Ahead, SameCounts
  <2>3. w.client[ClientSeq[i]] <= k.running[ClientSeq[i]]
    BY <2>1, <2>2, ZenonT(40) DEF Fits
  <2> QED
    BY <2>2, <2>3, SMTT(40) DEF SameCounts, Loads, LaneTick, LaneTickFields
<1>6. \A i \in DOMAIN LanesOf[c] :
        Ungranted(j, i) => v.lane[LanesOf[c][i]] <= j.snap[LanesOf[c][i]].taken
  <2>1. SUFFICES ASSUME NEW i \in DOMAIN LanesOf[c], Ungranted(j, i)
                 PROVE  v.lane[LanesOf[c][i]] <= j.snap[LanesOf[c][i]].taken
    BY ZenonT(40)
  <2>2. Ungranted(k, i) /\ i # k.l
    <3>1. i \in Nat /\ k.l \in Nat
      BY <1>1, <1>2, <2>1, PlaceNumbers, Zenon
    <3>2. i > k.l
      BY <2>1, Zenon DEF Ungranted
    <3> QED
      <4> HIDE DEF c, m
      <4> QED BY <2>1, <3>1, <3>2, SMTT(40) DEF Ungranted, c, SameCounts
  <2>3. /\ w.lane[LanesOf[c][i]] <= k.snap[LanesOf[c][i]].taken
        /\ LanesOf[c][i] \in Lanes!Lanes
    BY <1>2, <2>1, <2>2, WalkFacts, ZenonT(40) DEF Fits
  <2>4. LanesOf[c][i] # m
    <3> HIDE DEF c
    <3> QED BY <1>1, <1>2, <2>1, <2>2, OneLanePlace, SMTT(40)
  <2>5. v.lane[LanesOf[c][i]] <= w.lane[LanesOf[c][i]]
    BY <2>3, <2>4, ZenonT(40)
  <2>6. /\ v.lane[LanesOf[c][i]] \in Nat /\ w.lane[LanesOf[c][i]] \in Nat
        /\ k.snap[LanesOf[c][i]].taken \in Nat
    BY <2>3, ZenonT(40) DEF Loads, LaneTick, LaneTickFields
  <2>7. j.snap = k.snap
    BY Zenon DEF SameCounts
  <2> DEFINE a == v.lane[LanesOf[c][i]]
             b == w.lane[LanesOf[c][i]]
             e == k.snap[LanesOf[c][i]].taken
  <2>8. a <= e
    <3>1. a \in Nat /\ b \in Nat /\ e \in Nat /\ a <= b /\ b <= e
      BY <2>3, <2>5, <2>6, ZenonT(40)
    <3> HIDE DEF a, b, e
    <3> QED BY <3>1, SMTT(40)
  <2> QED
    BY <2>7, <2>8, ZenonT(40)
<1>7. v.host + j.host - j.spawned <= Budget
  <2> HIDE DEF c, m
  <2> QED BY <1>1, <1>2, SMTT(40) DEF SameCounts
<1>8. /\ j.slots > 0 => v.client[c] + j.slots <= Ceiling[c]
      /\ j.slots <= j.host - j.spawned
  <2>1. v.client[c] <= w.client[c]
    BY <1>2, ZenonT(40)
  <2> HIDE DEF c, m
  <2> QED BY <1>1, <1>2, <2>1, SMTT(40) DEF SameCounts
<1>9. j.c = k.c
  BY Zenon DEF SameCounts
<1> QED
  BY <1>1, <1>3, <1>4, <1>5, <1>6, <1>7, <1>8, <1>9, ZenonT(40) DEF Fits

\* A claimed row was spawned (d = 1) or handed back (d = 0); the walk takes the
\* next place of the grant or the next lane.
LEMMA AfterSpawnFits ==
    ASSUME NEW w \in Loads, NEW v \in Loads, NEW k, LaneTick(k), NEW j, LaneTick(j),
           NEW d \in {0, 1}, Within(w), Fits(k, w), k.pc = "spawn", SameCounts(j, k),
           \/ j.pc = "lane" /\ j.l = k.l + 1
           \/ j.pc = "claim" /\ j.l = k.l /\ k.grant # 1 /\ j.grant = k.grant - 1,
           j.slots = k.slots - d, j.spawned = k.spawned + d,
           \A l \in Lanes!Lanes : v.lane[l] <= w.lane[l],
           \A c \in Lanes!Clients \ {ClientSeq[k.c]} : v.client[c] <= w.client[c],
           v.client[ClientSeq[k.c]] <= w.client[ClientSeq[k.c]] + d, v.host <= w.host + d
    PROVE  Within(v) /\ Fits(j, v)
<1> DEFINE c == ClientSeq[k.c]
           m == LanesOf[c][k.l]
<1>1. /\ k.c \in DOMAIN ClientSeq /\ k.l \in DOMAIN LanesOf[c]
      /\ 1 <= k.grant /\ k.grant <= k.slots /\ k.slots <= k.host - k.spawned
      /\ k.slots > 0 => w.client[c] + k.slots <= Ceiling[c]
      /\ w.lane[m] + k.grant - 1 <= MaxParallel[m]
      /\ w.host + k.host - k.spawned <= Budget
  BY Zenon DEF Fits
<1>2. /\ c \in Lanes!Clients /\ m \in Lanes!Lanes
      /\ k.slots \in Int /\ k.grant \in Nat /\ k.host \in Int /\ k.spawned \in Nat
      /\ k.l \in Nat /\ k.c \in Nat
      /\ w.client[c] \in Nat /\ v.client[c] \in Nat /\ Ceiling[c] \in Nat
      /\ w.lane[m] \in Nat /\ v.lane[m] \in Nat /\ MaxParallel[m] \in Nat
      /\ w.host \in Nat /\ v.host \in Nat /\ Budget \in Nat
  BY <1>1, WalkFacts, Zenon DEF Loads, LaneTick, LaneTickFields
<1>3. Within(v)
  <2>1. \A l \in Lanes!Lanes : v.lane[l] <= MaxParallel[l]
    BY WalkFacts DEF Within, Loads
  <2>2. \A e \in Lanes!Clients \ {c} : v.client[e] <= Ceiling[e]
    BY WalkFacts DEF Within, Loads
  <2>3. v.client[c] <= Ceiling[c] /\ v.host <= Budget
    <3> HIDE DEF c, m
    <3> QED BY <1>1, <1>2, SMTT(40) DEF c
  <2> QED
    BY <2>1, <2>2, <2>3, Zenon DEF Within
<1>4. \A i \in DOMAIN ClientSeq :
        Ahead(j, i) => v.client[ClientSeq[i]] <= j.running[ClientSeq[i]]
  <2>1. SUFFICES ASSUME NEW i \in DOMAIN ClientSeq, Ahead(j, i)
                 PROVE  v.client[ClientSeq[i]] <= j.running[ClientSeq[i]]
    BY Zenon
  <2>2. i > k.c /\ Ahead(k, i)
    BY <2>1, Zenon DEF Ahead, SameCounts
  <2>3. ClientSeq[i] # c /\ ClientSeq[i] \in Lanes!Clients
    <3>1. i \in Nat /\ k.c \in Nat
      BY <1>2, <2>1, PlaceNumbers, Zenon
    <3>2. i # k.c
      <4> HIDE DEF c, m
      <4> QED BY <2>2, <3>1, SMTT(40)
    <3> QED
      BY <1>1, <3>2, WalkFacts, OneClientPlace, Zenon
  <2>4. /\ w.client[ClientSeq[i]] <= k.running[ClientSeq[i]]
        /\ v.client[ClientSeq[i]] <= w.client[ClientSeq[i]]
    BY <2>1, <2>2, <2>3, Zenon DEF Fits
  <2> QED
    BY <2>3, <2>4, SMTT(40) DEF SameCounts, Loads, LaneTick, LaneTickFields
<1>5. v.host + j.host - j.spawned <= Budget
  <2> HIDE DEF c, m
  <2> QED BY <1>1, <1>2, SMTT(40) DEF SameCounts
<1>6. /\ j.slots > 0 => v.client[c] + j.slots <= Ceiling[c]
      /\ j.slots <= j.host - j.spawned
  <2> HIDE DEF c, m
  <2> QED BY <1>1, <1>2, SMTT(40) DEF SameCounts, c
<1>7. \A i \in DOMAIN LanesOf[c] :
        Ungranted(j, i) => v.lane[LanesOf[c][i]] <= j.snap[LanesOf[c][i]].taken
  <2>1. SUFFICES ASSUME NEW i \in DOMAIN LanesOf[c], Ungranted(j, i)
                 PROVE  v.lane[LanesOf[c][i]] <= j.snap[LanesOf[c][i]].taken
    BY Zenon
  <2>2. Ungranted(k, i)
    <3>1. i \in Nat /\ k.l \in Nat
      BY <1>2, <2>1, PlaceNumbers, Zenon
    <3>2. i > k.l
      <4>1. IF j.pc = "lane" THEN i >= j.l ELSE i > j.l
        BY <2>1, Zenon DEF Ungranted
      <4> HIDE DEF c, m
      <4> QED BY <3>1, <4>1
    <3> QED
      BY <2>1, <3>2, Zenon DEF Ungranted
  <2>3. /\ w.lane[LanesOf[c][i]] <= k.snap[LanesOf[c][i]].taken
        /\ LanesOf[c][i] \in Lanes!Lanes
    BY <1>2, <2>1, <2>2, WalkFacts, Zenon DEF Fits
  <2> QED
    BY <2>3, SMTT(40) DEF SameCounts, Loads, LaneTick, LaneTickFields
<1>8. ASSUME j.pc = "claim"
      PROVE  /\ j.l = k.l /\ 1 <= j.grant /\ j.grant <= j.slots
             /\ v.lane[m] + j.grant <= MaxParallel[m]
  <2>1. /\ j.l = k.l /\ k.grant # 1 /\ j.grant = k.grant - 1
        /\ v.lane[m] <= w.lane[m]
    BY <1>2, <1>8, Zenon
  <2>2. j.slots = k.slots - d /\ d \in {0, 1}
    BY Zenon
  <2> HIDE DEF c, m
  <2>3. k.grant >= 2 /\ w.lane[m] + k.grant - 1 <= MaxParallel[m]
    BY <1>1, <1>2, <2>1, SMTT(40)
  <2>4. 1 <= j.grant /\ j.grant <= j.slots
    BY <1>1, <1>2, <2>1, <2>2, <2>3, SMTT(40)
  <2>5. v.lane[m] + j.grant <= MaxParallel[m]
    BY <1>2, <2>1, <2>3, SMTT(40)
  <2> QED BY <2>1, <2>4, <2>5, Zenon
<1>9. j.c = k.c /\ j.pc \in {"lane", "claim"}
  BY Zenon DEF SameCounts
<1>10. v.lane[m] + j.grant - 0 = v.lane[m] + j.grant
  <2>1. j.grant \in Nat /\ v.lane[m] \in Nat
    BY <1>2, Zenon DEF LaneTick, LaneTickFields
  <2> HIDE DEF m
  <2> QED BY <2>1, SMTT(40)
<1> QED
  BY <1>1, <1>3, <1>4, <1>5, <1>6, <1>7, <1>8, <1>9, <1>10, ZenonT(40) DEF Fits

LEMMA LanesInit ==
    ASSUME Lanes!Init
    PROVE  LanesInv
<1>1. /\ \A l : Workers(l) = {}
      /\ \A c : SessionsOf(c) = {}
      /\ Working = {}
  BY Zenon DEF Lanes!Init, Workers, SessionsOf, Working, Lanes!InLane
<1>2. /\ \A l \in Lanes!Lanes : Load.lane[l] = 0
      /\ \A c \in Lanes!Clients : Load.client[c] = 0
      /\ Load.host = 0
  BY <1>1, FS_EmptySet, Zenon DEF Load
<1>3. Within(Load)
  BY <1>2, WalkFacts DEF Within
<1> QED
  BY <1>3, Zenon DEF LanesInv, Lanes!Init

\* Workers, operators and the sibling sweep only free capacity.
LEMMA OthersFree ==
    ASSUME LanesInv,
           \/ \E t \in Lanes!Tickets : Lanes!AddTicket(t) \/ Lanes!ParkSibling(t)
           \/ \E t \in Lanes!Tickets, st \in {"DONE", "PENDING", "PARKED"} : Lanes!WorkerEnds(t, st)
           \/ \E t \in Lanes!Tickets, st \in {"DONE", "PENDING"} : Lanes!OperatorMoves(t, st)
    PROVE  LanesInv'
<1>1. /\ DOMAIN status' = Lanes!Tickets /\ DOMAIN sess' = Lanes!Tickets
      /\ dTick' = dTick
      /\ \A t \in Lanes!Tickets :
            /\ status'[t] = "RUNNING" => status[t] = "RUNNING"
            /\ sess'[t] => sess[t]
            /\ sess'[t] /\ status'[t] \notin Lanes!Parked => status[t] \notin Lanes!Parked
  BY Zenon DEF LanesInv, Lanes!AddTicket, Lanes!ParkSibling, Lanes!WorkerEnds, Lanes!OperatorMoves,
         Lanes!Parked
<1>2. Lighter(Load', Load)
  BY <1>1, LoadFalls, Zenon DEF Workers, SessionsOf, Working, Lanes!InLane
<1>3. Load \in Loads /\ Load' \in Loads
  BY LoadType, Zenon
<1> QED
  BY <1>1, <1>2, <1>3, LighterFits, Zenon DEF LanesInv

\* A step of the tick that writes neither the queue nor a session.
LEMMA SameLoad ==
    ASSUME UNCHANGED <<status, sess>>
    PROVE  Load' = Load
BY Zenon DEF Load, Workers, SessionsOf, Working

LEMMA CountingSteps ==
    ASSUME LanesInv,
           \/ Lanes!TickStart \/ Lanes!TickEnd \/ Lanes!ClientGated \/ Lanes!ClientStart
           \/ Lanes!LaneStart \/ Lanes!LanePaused \/ Lanes!Report
    PROVE  LanesInv'
<1>1. UNCHANGED <<status, sess>>
  BY Zenon DEF Lanes!TickStart, Lanes!TickEnd, Lanes!ClientGated, Lanes!ClientStart,
         Lanes!LaneStart, Lanes!LanePaused, Lanes!Report
<1>2. Load' = Load /\ Load \in Loads
  BY <1>1, SameLoad, LoadType, Zenon
<1>3. SUFFICES dTick' = Lanes!Idle \/ (LaneTick(dTick') /\ Fits(dTick', Load))
  BY <1>1, <1>2, Zenon DEF LanesInv, Within
<1>4. CASE Lanes!TickEnd
  BY <1>4, Zenon DEF Lanes!TickEnd
<1>5. ASSUME Lanes!TickEnd \/ Lanes!ClientGated \/ Lanes!ClientStart
             \/ Lanes!LaneStart \/ Lanes!LanePaused \/ Lanes!Report
      PROVE  LaneTick(dTick) /\ Fits(dTick, Load)
  BY <1>5 DEF LanesInv, Lanes!Idle, Lanes!TickEnd, Lanes!ClientGated, Lanes!ClientStart,
              Lanes!LaneStart, Lanes!LanePaused, Lanes!Report
<1>6. CASE Lanes!TickStart
  <2>1. /\ \A c \in Lanes!Clients : Lanes!RunningCount(c) = Load.client[c]
        /\ Lanes!HostRunning = Load.host
    BY LanesCounts, Zenon DEF Load, SessionsOf, Working, Lanes!RunningCount, Lanes!HostRunning
  <2>2. /\ \A c \in Lanes!Clients : Lanes!RunningCount(c) \in Nat
        /\ Lanes!HostRunning \in Nat
    BY <1>2, <2>1, Zenon DEF Loads
  <2>3. LaneTick(dTick')
    <3>1. /\ Lanes!NoCounts \in [Lanes!Lanes -> [taken : Nat, waiting : Nat]]
          /\ [c \in Lanes!Clients |-> Lanes!RunningCount(c)] \in [Lanes!Clients -> Nat]
          /\ Budget - Lanes!HostRunning \in Int
      BY <2>2, WalkFacts, SMTT(40) DEF Lanes!NoCounts
    <3> QED
      BY <1>6, <3>1 DEF Lanes!TickStart, LaneTick, LaneTickFields
  <2>4. Fits(dTick', Load)
    BY <1>2, <1>6, <2>1, <2>2, WalkFacts, SMTT(40) DEF Lanes!TickStart, Fits, Ahead, Loads
  <2> QED
    BY <2>3, <2>4, Zenon
<1>7. CASE Lanes!ClientGated
  <2>1. /\ LaneTick(dTick) /\ Fits(dTick, Load) /\ dTick.pc = "client"
        /\ dTick' = [dTick EXCEPT !.c = @ + 1]
    BY <1>5, <1>7, Zenon DEF Lanes!ClientGated
  <2>2. /\ LaneTick(dTick') /\ dTick'.pc = "client" /\ dTick'.c = dTick.c + 1
        /\ dTick'.host = dTick.host /\ dTick'.spawned = dTick.spawned
        /\ dTick'.running = dTick.running
    BY <2>1 DEF LaneTick, LaneTickFields
  <2>3. \A i \in DOMAIN ClientSeq : Ahead(dTick', i) => Ahead(dTick, i)
    BY <2>1, <2>2, PlaceNumbers, SMTT(40) DEF Ahead, LaneTick, LaneTickFields
  <2> QED
    BY <2>1, <2>2, <2>3, Zenon DEF Fits
<1>8. CASE Lanes!Report
  <2>1. /\ LaneTick(dTick) /\ Fits(dTick, Load) /\ dTick.pc \in {"lane", "report"}
        /\ dTick' = [dTick EXCEPT !.pc = "client", !.c = @ + 1, !.snap = Lanes!NoCounts,
                                  !.host = @ - dTick.spawned, !.row = {}, !.spawned = 0,
                                  !.capBlocked = FALSE, !.broke = "no"]
    BY <1>5, <1>8, Zenon DEF Lanes!Report
  <2>2. /\ LaneTick(dTick') /\ dTick'.pc = "client" /\ dTick'.c = dTick.c + 1
        /\ dTick'.host = dTick.host - dTick.spawned /\ dTick'.spawned = 0
        /\ dTick'.running = dTick.running
    <3>1. /\ dTick.c + 1 \in Nat \ {0} /\ dTick.host - dTick.spawned \in Int
          /\ Lanes!NoCounts \in [Lanes!Lanes -> [taken : Nat, waiting : Nat]]
      BY <2>1 DEF LaneTick, LaneTickFields, Lanes!NoCounts
    <3> QED
      BY <2>1, <3>1, Zenon DEF LaneTick, LaneTickFields
  <2>3. \A i \in DOMAIN ClientSeq : Ahead(dTick', i) => Ahead(dTick, i)
    BY <2>1, <2>2, PlaceNumbers, SMTT(40) DEF Ahead, LaneTick, LaneTickFields
  <2>4. Load.host + dTick'.host - dTick'.spawned <= Budget
    BY <1>2, <2>1, <2>2, WalkFacts DEF Fits, LaneTick, LaneTickFields, Loads
  <2> QED
    BY <2>1, <2>2, <2>3, <2>4, Zenon DEF Fits
<1>9. CASE Lanes!LanePaused
  <2>1. /\ LaneTick(dTick) /\ Fits(dTick, Load) /\ dTick.pc = "lane"
        /\ dTick' = [dTick EXCEPT !.l = @ + 1]
    BY <1>5, <1>9, Zenon DEF Lanes!LanePaused
  <2>2. /\ LaneTick(dTick') /\ dTick'.pc = "lane" /\ dTick'.l = dTick.l + 1
        /\ SameCounts(dTick', dTick) /\ dTick'.slots = dTick.slots
        /\ dTick'.spawned = dTick.spawned
    BY <2>1 DEF LaneTick, LaneTickFields, SameCounts
  <2> QED
    BY <1>2, <2>1, <2>2, NextLaneFits, Zenon
<1>10. CASE Lanes!ClientStart
  <2> DEFINE c == ClientSeq[dTick.c]
  <2>1. /\ LaneTick(dTick) /\ Fits(dTick, Load) /\ dTick.pc = "client"
        /\ dTick.c <= Len(ClientSeq)
        /\ dTick' = [dTick EXCEPT !.pc = "lane", !.l = 1, !.snap = Lanes!Counts,
                        !.served = @ + 1,
                        !.slots = Lanes!Smaller(Ceiling[c] - dTick.running[c], dTick.host),
                        !.gated = dTick.host <= 0,
                        !.capBlocked = FALSE, !.spawned = 0, !.broke = "no"]
    BY <1>5, <1>10, Zenon DEF Lanes!ClientStart, Lanes!Client
  <2>2. dTick.c \in DOMAIN ClientSeq /\ c \in Lanes!Clients
    BY <2>1, WalkFacts, SMTT(40) DEF LaneTick, LaneTickFields
  <2>3. /\ Lanes!Counts \in [Lanes!Lanes -> [taken : Nat, waiting : Nat]]
        /\ \A i \in DOMAIN LanesOf[c] :
              Load.lane[LanesOf[c][i]] <= Lanes!Counts[LanesOf[c][i]].taken
    <3>1. \A l \in Lanes!Lanes :
            /\ Lanes!Occupants(l) \in Nat /\ Lanes!Cardinality(Lanes!Pending(l)) \in Nat
            /\ Load.lane[l] <= Lanes!Occupants(l)
      <4>1. SUFFICES ASSUME NEW l \in Lanes!Lanes
                     PROVE  /\ Lanes!Occupants(l) \in Nat
                            /\ Lanes!Cardinality(Lanes!Pending(l)) \in Nat
                            /\ Load.lane[l] <= Lanes!Occupants(l)
        BY Zenon
      <4> DEFINE occ == {t \in Lanes!InLane(l) : Lanes!Occupies(status[t])}
      <4>2. /\ occ \in SUBSET Lanes!Tickets /\ Lanes!Pending(l) \in SUBSET Lanes!Tickets
            /\ Workers(l) \in SUBSET Lanes!Tickets /\ Workers(l) \subseteq occ
        BY Zenon DEF Lanes!InLane, Lanes!Pending, Workers, Lanes!Occupies
      <4>3. /\ Cardinality(occ) \in Nat /\ Cardinality(Lanes!Pending(l)) \in Nat
            /\ Cardinality(Workers(l)) <= Cardinality(occ)
        <5> HIDE DEF occ
        <5> QED BY <4>2, Fewer, LanesFinite, FS_Subset, FS_CardinalityType, Zenon
      <4> QED
        BY <4>3, LanesCounts, Zenon DEF Lanes!Occupants, Load
    <3>2. /\ \A l \in Lanes!Lanes : Lanes!Counts[l] =
              IF \E i \in DOMAIN LanesOf[c] : LanesOf[c][i] = l
              THEN [taken |-> Lanes!Occupants(l), waiting |-> Lanes!Cardinality(Lanes!Pending(l))]
              ELSE [taken |-> 0, waiting |-> 0]
          /\ Lanes!Counts = [l \in Lanes!Lanes |-> Lanes!Counts[l]]
      BY Zenon DEF Lanes!Counts, Lanes!Client, Lanes!NoCounts
    <3>3. \A i \in DOMAIN LanesOf[c] : LanesOf[c][i] \in Lanes!Lanes
      BY <2>2, WalkFacts, Zenon
    <3> HIDE DEF c
    <3> QED
      BY <3>1, <3>2, <3>3, SMTT(40)
  <2> DEFINE b == Lanes!Smaller(Ceiling[c] - dTick.running[c], dTick.host)
  <2>4. /\ b \in Int /\ b <= Ceiling[c] - dTick.running[c] /\ b <= dTick.host
        /\ dTick.running[c] \in Nat /\ Ceiling[c] \in Nat /\ dTick.host \in Int
    <3>1. dTick.running \in [Lanes!Clients -> Nat] /\ dTick.host \in Int
      BY <2>1, Zenon DEF LaneTick
    <3>2. dTick.running[c] \in Nat /\ Ceiling[c] \in Nat
      BY <2>2, <3>1, WalkFacts, Zenon
    <3>3. b = IF Ceiling[c] - dTick.running[c] < dTick.host
              THEN Ceiling[c] - dTick.running[c] ELSE dTick.host
      BY Zenon DEF Lanes!Smaller
    <3> HIDE DEF b, c
    <3> QED
      BY <3>1, <3>2, <3>3, SMTT(40)
  <2>5. /\ LaneTick(dTick') /\ dTick'.pc = "lane" /\ dTick'.l = 1
        /\ dTick'.snap = Lanes!Counts /\ dTick'.slots = b /\ dTick'.spawned = 0
        /\ dTick'.c = dTick.c /\ dTick'.host = dTick.host /\ dTick'.running = dTick.running
    <3> HIDE DEF c
    <3>2. dTick' = [dTick EXCEPT !.pc = "lane", !.l = 1, !.snap = Lanes!Counts,
                        !.served = @ + 1, !.slots = b, !.gated = dTick.host <= 0,
                        !.capBlocked = FALSE, !.spawned = 0, !.broke = "no"]
      BY <2>1, Zenon
    <3> HIDE DEF b
    <3>3. LaneTick(dTick) /\ Lanes!Counts \in [Lanes!Lanes -> [taken : Nat, waiting : Nat]]
      BY <2>1, <2>3, Zenon
    <3>4. /\ DOMAIN dTick' = LaneTickFields
          /\ dTick'.pc = "lane" /\ dTick'.l = 1 /\ dTick'.snap = Lanes!Counts
          /\ dTick'.slots = b /\ dTick'.spawned = 0 /\ dTick'.c = dTick.c
          /\ dTick'.host = dTick.host /\ dTick'.running = dTick.running
          /\ dTick'.grant = dTick.grant
      BY <3>2, <3>3, Zenon DEF LaneTick, LaneTickFields
    <3> QED BY <2>4, <3>3, <3>4 DEF LaneTick, LaneTickFields
  <2>6. \A i \in DOMAIN ClientSeq : Ahead(dTick', i) => Ahead(dTick, i)
    <3>1. dTick.c \in Nat /\ \A i \in DOMAIN ClientSeq : i \in Nat
      BY <2>1, PlaceNumbers, Zenon DEF LaneTick, LaneTickFields
    <3> HIDE DEF b, c
    <3> QED BY <2>1, <2>5, <3>1 DEF Ahead
  <2>7. Load.client[c] <= dTick.running[c] /\ dTick.spawned = 0
    BY <2>1, <2>2, PlaceNumbers DEF Fits, Ahead
  <2>8. Load.client[c] + b <= Ceiling[c] /\ b <= dTick.host - 0
    <3>1. Load.client[c] \in Nat
      BY <1>2, <2>2, Zenon DEF Loads
    <3> HIDE DEF b, c
    <3> QED BY <2>4, <2>7, <3>1
  <2> HIDE DEF b
  <2> QED
    BY <2>1, <2>2, <2>3, <2>5, <2>6, <2>7, <2>8, Zenon DEF Fits
<1>11. CASE Lanes!LaneStart
  <2> DEFINE c == ClientSeq[dTick.c]
             m == LanesOf[c][dTick.l]
             g == Lanes!Grant(m)
  <2>1. /\ LaneTick(dTick) /\ Fits(dTick, Load) /\ dTick.pc = "lane"
        /\ dTick.l <= Len(LanesOf[c]) /\ dTick.slots > 0
        /\ dTick' = IF g > 0
                    THEN [dTick EXCEPT !.pc = "claim", !.grant = g]
                    ELSE [dTick EXCEPT !.l = @ + 1,
                                       !.capBlocked = @ \/ dTick.snap[m].waiting > 0]
    BY <1>5, <1>11, Zenon DEF Lanes!LaneStart, Lanes!Client, Lanes!Lane
  <2>2. /\ dTick.c \in DOMAIN ClientSeq /\ c \in Lanes!Clients
        /\ dTick.l \in DOMAIN LanesOf[c] /\ m \in Lanes!Lanes
    <3>1. dTick.c \in DOMAIN ClientSeq
      BY <2>1, Zenon DEF Fits
    <3>2. c \in Lanes!Clients
      BY <3>1, WalkFacts, Zenon
    <3>3. dTick.l \in DOMAIN LanesOf[c]
      BY <2>1, <3>2, WalkFacts, SMTT(40) DEF LaneTick, LaneTickFields
    <3> QED
      BY <3>1, <3>2, <3>3, WalkFacts, Zenon
  <2>3. /\ g \in Int /\ g <= dTick.slots /\ g <= MaxParallel[m] - dTick.snap[m].taken
        /\ dTick.snap[m].taken \in Nat /\ MaxParallel[m] \in Nat /\ dTick.slots \in Int
    <3>1. /\ dTick.snap[m].taken \in Nat /\ dTick.snap[m].waiting \in Nat
          /\ MaxParallel[m] \in Nat /\ dTick.slots \in Int
      BY <2>1, <2>2, WalkFacts, Zenon DEF LaneTick, LaneTickFields
    <3> HIDE DEF m
    <3> QED BY <3>1, SMTT(40) DEF Lanes!Grant, Lanes!Smaller
  <2> HIDE DEF g
  <2>4. CASE g > 0
    <3>1. /\ LaneTick(dTick') /\ dTick'.pc = "claim" /\ dTick'.grant = g
          /\ SameCounts(dTick', dTick) /\ dTick'.l = dTick.l
          /\ dTick'.slots = dTick.slots /\ dTick'.spawned = dTick.spawned
      <4> HIDE DEF m, c
      <4>1. g \in Nat
        BY <2>3, <2>4
      <4>2. dTick' = [dTick EXCEPT !.pc = "claim", !.grant = g]
        BY <2>1, <2>4, Zenon
      <4> QED BY <2>1, <4>1, <4>2, ZenonT(40) DEF LaneTick, LaneTickFields, SameCounts
    <3>2. \A i \in DOMAIN ClientSeq : Ahead(dTick', i) => Ahead(dTick, i)
      BY <2>1, <3>1, Zenon DEF Ahead, SameCounts
    <3>3. \A i \in DOMAIN LanesOf[c] : Ungranted(dTick', i) => Ungranted(dTick, i)
      <4>1. dTick.l \in Nat /\ \A i \in DOMAIN LanesOf[c] : i \in Nat
        BY <2>2, PlaceNumbers, Zenon
      <4> HIDE DEF m, c
      <4> QED BY <2>1, <3>1, <4>1 DEF Ungranted, SameCounts, c
    <3>4. Load.lane[m] <= dTick.snap[m].taken
      <4>1. dTick.l \in Nat
        BY <2>2, PlaceNumbers, Zenon
      <4>2. Ungranted(dTick, dTick.l)
        BY <2>1, <2>2, <4>1, SMTT(40) DEF Ungranted
      <4> QED
        BY <2>1, <2>2, <4>2, Zenon DEF Fits
    <3>5. Load.lane[m] + g - 0 <= MaxParallel[m] /\ 1 <= g /\ g <= dTick.slots
      <4>1. Load.lane[m] \in Nat
        BY <1>2, <2>2, Zenon DEF Loads
      <4> HIDE DEF m, c
      <4> QED BY <2>3, <2>4, <3>4, <4>1, SMTT(40)
    <3> QED
      BY <2>1, <2>2, <3>1, <3>2, <3>3, <3>5, Zenon DEF Fits, SameCounts
  <2>5. CASE ~(g > 0)
    <3>1. /\ LaneTick(dTick') /\ dTick'.pc = "lane" /\ dTick'.l = dTick.l + 1
          /\ SameCounts(dTick', dTick) /\ dTick'.slots = dTick.slots
          /\ dTick'.spawned = dTick.spawned
      <4> HIDE DEF m, c
      <4> QED BY <2>1, <2>5 DEF LaneTick, LaneTickFields, SameCounts
    <3> QED
      BY <1>2, <2>1, <3>1, NextLaneFits, Zenon
  <2> QED
    BY <2>4, <2>5, Zenon
<1> QED
  BY <1>4, <1>6, <1>7, <1>8, <1>9, <1>10, <1>11, Zenon

\* A claim adds one worker to the lane of the grant; a lane with nothing left
\* to claim adds none.
LEMMA ClaimSteps ==
    ASSUME LanesInv,
           \/ \E t \in Lanes!Tickets : \E p \in SUBSET Lanes!Tickets : Lanes!Claim(p, t)
           \/ \E p \in SUBSET Lanes!Tickets : Lanes!ClaimNothing(p)
    PROVE  LanesInv'
<1> DEFINE c == ClientSeq[dTick.c]
           m == LanesOf[c][dTick.l]
<1>1. /\ LaneTick(dTick) /\ Fits(dTick, Load) /\ dTick.pc = "claim" /\ Within(Load)
      /\ Load \in Loads /\ Load' \in Loads
  <2>1. dTick.pc = "claim"
    BY Zenon DEF Lanes!Claim, Lanes!ClaimNothing
  <2>2. dTick # Lanes!Idle
    BY <2>1 DEF Lanes!Idle
  <2> QED
    BY <2>1, <2>2, LoadType, Zenon DEF LanesInv
<1>2. CASE \E p \in SUBSET Lanes!Tickets : Lanes!ClaimNothing(p)
  <2>1. PICK p \in SUBSET Lanes!Tickets : Lanes!ClaimNothing(p)
    BY <1>2, Zenon
  <2>2. /\ DOMAIN status' = Lanes!Tickets /\ sess' = sess
        /\ dTick' = [dTick EXCEPT !.pc = "lane", !.l = @ + 1]
        /\ \A t \in Lanes!Tickets : status'[t] = "PARKED" \/ status'[t] = status[t]
    BY <2>1, Zenon DEF Lanes!ClaimNothing
  <2>3. Lighter(Load', Load)
    BY <2>2, LoadFalls, Zenon DEF Workers, SessionsOf, Working, Lanes!InLane, Lanes!Parked
  <2>4. Within(Load') /\ Fits(dTick, Load')
    BY <1>1, <2>3, LighterFits, Zenon
  <2>5. /\ LaneTick(dTick') /\ dTick'.pc = "lane" /\ dTick'.l = dTick.l + 1
        /\ SameCounts(dTick', dTick) /\ dTick'.slots = dTick.slots
        /\ dTick'.spawned = dTick.spawned
    BY <1>1, <2>2, SMTT(40) DEF LaneTick, LaneTickFields, SameCounts
  <2>6. Fits(dTick', Load')
    BY <1>1, <2>4, <2>5, NextLaneFits, Zenon
  <2> QED
    BY <2>2, <2>4, <2>5, <2>6, Zenon DEF LanesInv
<1>3. CASE \E t \in Lanes!Tickets : \E p \in SUBSET Lanes!Tickets : Lanes!Claim(p, t)
  <2>1. PICK t \in Lanes!Tickets : \E p \in SUBSET Lanes!Tickets : Lanes!Claim(p, t)
    BY <1>3, Zenon
  <2>2. PICK p \in SUBSET Lanes!Tickets : Lanes!Claim(p, t)
    BY <2>1, Zenon
  <2>3. /\ DOMAIN status' = Lanes!Tickets /\ sess' = sess
        /\ dTick' = [dTick EXCEPT !.pc = "spawn", !.row = {t}]
        /\ LaneOf[t] = m /\ status[t] = "PENDING" /\ status'[t] = "RUNNING"
        /\ \A u \in Lanes!Tickets \ {t} : status'[u] = "PARKED" \/ status'[u] = status[u]
    BY <2>2, ZenonT(40) DEF Lanes!Claim, Lanes!Pending, Lanes!InLane, Lanes!Lane, Lanes!Client
  <2>4. /\ dTick.c \in DOMAIN ClientSeq /\ c \in Lanes!Clients
        /\ dTick.l \in DOMAIN LanesOf[c] /\ m \in Lanes!Lanes
    BY <1>1, WalkFacts, Zenon DEF Fits
  <2>5. Lanes!ClientOf(t) = c
    <3>1. \A e \in Lanes!Clients :
            (\E i \in DOMAIN LanesOf[e] : LanesOf[e][i] = LaneOf[t]) <=> e = c
      BY <2>3, <2>4, OneLanePlace, SMTT(40)
    <3> HIDE DEF c
    <3> QED
      BY <2>4, <3>1, Zenon DEF Lanes!ClientOf
  <2>6. /\ \A l \in Lanes!Lanes \ {LaneOf[t]} : Workers(l)' \subseteq Workers(l)
        /\ Workers(LaneOf[t])' \subseteq Workers(LaneOf[t]) \cup {t}
        /\ \A e \in Lanes!Clients : SessionsOf(e)' \subseteq SessionsOf(e)
        /\ Working' \subseteq Working
    <3>1. \A l \in Lanes!Lanes \ {LaneOf[t]} : Workers(l)' \subseteq Workers(l)
      BY <2>3, Zenon DEF Workers, Lanes!InLane
    <3>2. Workers(LaneOf[t])' \subseteq Workers(LaneOf[t]) \cup {t}
      BY <2>3, Zenon DEF Workers, Lanes!InLane
    <3>3. \A e \in Lanes!Clients : SessionsOf(e)' \subseteq SessionsOf(e)
      BY <2>3, Zenon DEF SessionsOf
    <3>4. Working' \subseteq Working
      BY <2>3, Zenon DEF Working, Lanes!Parked
    <3> QED
      BY <3>1, <3>2, <3>3, <3>4, Zenon
  <2>7. /\ \A l : Workers(l) \in SUBSET Lanes!Tickets /\ Workers(l)' \in SUBSET Lanes!Tickets
        /\ \A e : SessionsOf(e) \in SUBSET Lanes!Tickets /\ SessionsOf(e)' \in SUBSET Lanes!Tickets
        /\ Working \in SUBSET Lanes!Tickets /\ Working' \in SUBSET Lanes!Tickets
    BY Zenon DEF Workers, SessionsOf, Working, Lanes!InLane
  <2>8. /\ \A l \in Lanes!Lanes \ {LaneOf[t]} : Load'.lane[l] <= Load.lane[l]
        /\ Load'.lane[LaneOf[t]] <= Load.lane[LaneOf[t]] + 1
        /\ \A e \in Lanes!Clients : Load'.client[e] <= Load.client[e]
        /\ Load'.host <= Load.host
    <3>1. \A l \in Lanes!Lanes \ {LaneOf[t]} : Cardinality(Workers(l)') <= Cardinality(Workers(l))
      BY <2>6, <2>7, Fewer, Zenon
    <3>2. Cardinality(Workers(LaneOf[t])') <= Cardinality(Workers(LaneOf[t])) + 1
      BY <2>6, <2>7, OneMore, Zenon
    <3>3. \A e \in Lanes!Clients : Cardinality(SessionsOf(e)') <= Cardinality(SessionsOf(e))
      BY <2>6, <2>7, Fewer, Zenon
    <3>4. Cardinality(Working') <= Cardinality(Working)
      BY <2>6, <2>7, Fewer, Zenon
    <3>5. /\ \A l \in Lanes!Lanes : /\ Load.lane[l] = Cardinality(Workers(l))
                                    /\ Load'.lane[l] = Cardinality(Workers(l)')
          /\ \A e \in Lanes!Clients : /\ Load.client[e] = Cardinality(SessionsOf(e))
                                       /\ Load'.client[e] = Cardinality(SessionsOf(e)')
          /\ Load.host = Cardinality(Working) /\ Load'.host = Cardinality(Working')
      BY Zenon DEF Load
    <3> QED
      <4>1. LaneOf[t] \in Lanes!Lanes
        BY <2>3, <2>4, Zenon
      <4> HIDE DEF m, c
      <4> QED BY <3>1, <3>2, <3>3, <3>4, <3>5, <4>1, Zenon
  <2>9. /\ LaneTick(dTick') /\ dTick'.pc = "spawn" /\ dTick'.row = {t}
        /\ dTick'.l = dTick.l /\ dTick'.grant = dTick.grant /\ SameCounts(dTick', dTick)
        /\ dTick'.slots = dTick.slots /\ dTick'.spawned = dTick.spawned
    BY <1>1, <2>3, Zenon DEF LaneTick, LaneTickFields, SameCounts
  <2>10. Within(Load') /\ Fits(dTick', Load')
    <3>1. LanesOf[ClientSeq[dTick.c]][dTick.l] = LaneOf[t]
      BY <2>3, Zenon
    <3>2. \A u \in dTick'.row : Lanes!ClientOf(u) = ClientSeq[dTick.c]
      BY <2>5, <2>9, Zenon
    <3> HIDE DEF m, c
    <3> QED
      BY <1>1, <2>8, <2>9, <3>1, <3>2, ClaimFits, Zenon
  <2> QED
    BY <2>3, <2>9, <2>10, Zenon DEF LanesInv
<1> QED
  BY <1>2, <1>3, Zenon

\* A spawn adds one session to the client and the host; a claim that is handed
\* back adds none.
LEMMA SpawnSteps ==
    ASSUME LanesInv, NEW t \in Lanes!Tickets,
           Lanes!Spawned(t) \/ \E why \in {"deferred", "error", "limit"} : Lanes!NotSpawned(t, why)
    PROVE  LanesInv'
<1>1. dTick.pc = "spawn" /\ dTick.row = {t}
  BY Zenon DEF Lanes!Spawned, Lanes!NotSpawned
<1>2. /\ LaneTick(dTick) /\ Fits(dTick, Load) /\ Within(Load)
      /\ Load \in Loads /\ Load' \in Loads
  <2>1. dTick # Lanes!Idle
    BY <1>1, SMTT(40) DEF Lanes!Idle
  <2> QED
    BY <2>1, LoadType, Zenon DEF LanesInv
<1>3. /\ Lanes!ClientOf(t) = ClientSeq[dTick.c] /\ ClientSeq[dTick.c] \in Lanes!Clients
      /\ 1 <= dTick.grant
  BY <1>1, <1>2, WalkFacts, Zenon DEF Fits
\* The places a walk goes to after a spawn.
<1>4. ASSUME NEW k, LaneTick(k), NEW d \in {0, 1}, dTick' = Lanes!AfterSpawn(k), SameCounts(k, dTick),
             k.l = dTick.l, k.grant = dTick.grant, k.slots = dTick.slots - d,
             k.spawned = dTick.spawned + d
      PROVE  /\ LaneTick(dTick') /\ SameCounts(dTick', dTick)
             /\ \/ dTick'.pc = "lane" /\ dTick'.l = dTick.l + 1
                \/ dTick'.pc = "claim" /\ dTick'.l = dTick.l /\ dTick.grant # 1
                   /\ dTick'.grant = dTick.grant - 1
             /\ dTick'.slots = dTick.slots - d /\ dTick'.spawned = dTick.spawned + d
  <2>1. CASE k.grant = 1
    <3>1. dTick' = [k EXCEPT !.pc = "lane", !.l = @ + 1, !.grant = 0, !.row = {}]
      BY <1>4, <2>1, Zenon DEF Lanes!AfterSpawn
    <3> QED
      BY <1>4, <3>1 DEF LaneTick, LaneTickFields, SameCounts
  <2>2. CASE k.grant # 1
    <3>1. dTick' = [k EXCEPT !.pc = "claim", !.grant = @ - 1, !.row = {}]
      BY <1>4, <2>2, Zenon DEF Lanes!AfterSpawn
    <3>2. k.grant - 1 \in Nat
      BY <1>3, <1>4, <2>2, SMTT(40) DEF LaneTick, LaneTickFields
    <3> QED
      BY <1>4, <2>2, <3>1, <3>2 DEF LaneTick, LaneTickFields, SameCounts
  <2> QED
    BY <2>1, <2>2, Zenon
<1>5. ASSUME NEW why \in {"deferred", "error", "limit"}, Lanes!NotSpawned(t, why)
      PROVE  LanesInv'
  <2>1. /\ status' = [status EXCEPT ![t] = IF @ = "RUNNING" THEN "PENDING" ELSE @]
        /\ sess' = sess
        /\ dTick' = IF why = "deferred" THEN Lanes!AfterSpawn(dTick)
                    ELSE [dTick EXCEPT !.pc = "report", !.broke = why]
    BY <1>5, Zenon DEF Lanes!NotSpawned
  <2>2. /\ DOMAIN status' = Lanes!Tickets /\ DOMAIN sess' = Lanes!Tickets
        /\ \A u \in Lanes!Tickets : \/ status'[u] = "PENDING" /\ status[u] = "RUNNING"
                                    \/ status'[u] = status[u]
    BY <2>1, Zenon DEF LanesInv
  <2>3. Lighter(Load', Load)
    BY <2>1, <2>2, LoadFalls, Zenon DEF Workers, SessionsOf, Working, Lanes!InLane, Lanes!Parked
  <2>4. Within(Load') /\ Fits(dTick, Load')
    BY <1>2, <2>3, LighterFits, Zenon
  <2>5. CASE why = "deferred"
    <3>1. /\ dTick' = Lanes!AfterSpawn(dTick) /\ SameCounts(dTick, dTick)
          /\ dTick.slots = dTick.slots - 0 /\ dTick.spawned = dTick.spawned + 0
      BY <1>2, <2>1, <2>5, SMTT(40) DEF SameCounts, LaneTick, LaneTickFields
    <3>2. /\ LaneTick(dTick') /\ SameCounts(dTick', dTick)
          /\ \/ dTick'.pc = "lane" /\ dTick'.l = dTick.l + 1
             \/ dTick'.pc = "claim" /\ dTick'.l = dTick.l /\ dTick.grant # 1
                /\ dTick'.grant = dTick.grant - 1
          /\ dTick'.slots = dTick.slots - 0 /\ dTick'.spawned = dTick.spawned + 0
      BY <1>2, <1>4, <3>1, Zenon
    <3>3. /\ \A l \in Lanes!Lanes : Load'.lane[l] <= Load'.lane[l]
          /\ \A c \in Lanes!Clients : Load'.client[c] <= Load'.client[c]
          /\ Load'.client[ClientSeq[dTick.c]] <= Load'.client[ClientSeq[dTick.c]] + 0
          /\ Load'.host <= Load'.host + 0
      BY <1>2, <1>3, SMTT(40) DEF Loads
    <3>4. Fits(dTick', Load')
      BY <1>1, <1>2, <2>4, <3>2, <3>3, AfterSpawnFits, ZenonT(40)
    <3> QED
      BY <2>2, <2>4, <3>2, <3>4, Zenon DEF LanesInv
  <2>6. CASE why # "deferred"
    <3>1. /\ LaneTick(dTick') /\ dTick'.pc = "report" /\ SameCounts(dTick', dTick)
          /\ dTick'.spawned = dTick.spawned
      BY <1>2, <2>1, <2>6, Zenon DEF SameCounts, LaneTick, LaneTickFields
    <3>2. \A i \in DOMAIN ClientSeq : Ahead(dTick', i) => Ahead(dTick, i)
      BY <1>1, <3>1, Zenon DEF Ahead, SameCounts
    <3>3. Fits(dTick', Load')
      BY <1>1, <2>4, <3>1, <3>2, Zenon DEF Fits, SameCounts
    <3> QED
      BY <2>2, <2>4, <3>1, <3>3, Zenon DEF LanesInv
  <2> QED
    BY <2>5, <2>6, Zenon
<1>6. CASE Lanes!Spawned(t)
  <2> DEFINE k == [dTick EXCEPT !.slots = @ - 1, !.spawned = @ + 1]
  <2>1. /\ sess' = [sess EXCEPT ![t] = TRUE] /\ status' = status
        /\ dTick' = Lanes!AfterSpawn(k)
    BY <1>6, Zenon DEF Lanes!Spawned
  <2>2. /\ DOMAIN status' = Lanes!Tickets /\ DOMAIN sess' = Lanes!Tickets
        /\ \A u \in Lanes!Tickets \ {t} : sess'[u] = sess[u]
    BY <2>1, Zenon DEF LanesInv
  <2>3. /\ LaneTick(k) /\ SameCounts(k, dTick) /\ k.l = dTick.l /\ k.grant = dTick.grant
        /\ k.slots = dTick.slots - 1 /\ k.spawned = dTick.spawned + 1
    BY <1>2, SMTT(40) DEF SameCounts, LaneTick, LaneTickFields
  <2> HIDE DEF k
  <2>4. /\ LaneTick(dTick') /\ SameCounts(dTick', dTick)
        /\ \/ dTick'.pc = "lane" /\ dTick'.l = dTick.l + 1
           \/ dTick'.pc = "claim" /\ dTick'.l = dTick.l /\ dTick.grant # 1
              /\ dTick'.grant = dTick.grant - 1
        /\ dTick'.slots = dTick.slots - 1 /\ dTick'.spawned = dTick.spawned + 1
    BY <1>4, <2>1, <2>3, Zenon
  <2>5. /\ \A l : Workers(l)' = Workers(l)
        /\ \A c : c # Lanes!ClientOf(t) => SessionsOf(c)' = SessionsOf(c)
        /\ SessionsOf(Lanes!ClientOf(t))' \subseteq SessionsOf(Lanes!ClientOf(t)) \cup {t}
        /\ Working' \subseteq Working \cup {t}
    BY <2>1, <2>2, Zenon DEF Workers, SessionsOf, Working
  <2>6. /\ \A c : SessionsOf(c) \in SUBSET Lanes!Tickets /\ SessionsOf(c)' \in SUBSET Lanes!Tickets
        /\ Working \in SUBSET Lanes!Tickets /\ Working' \in SUBSET Lanes!Tickets
    BY Zenon DEF SessionsOf, Working
  <2>7. /\ Cardinality(SessionsOf(Lanes!ClientOf(t))')
              <= Cardinality(SessionsOf(Lanes!ClientOf(t))) + 1
        /\ Cardinality(Working') <= Cardinality(Working) + 1
    BY <2>5, <2>6, OneMore, Zenon
  <2>8. /\ \A l \in Lanes!Lanes : Load'.lane[l] = Load.lane[l]
        /\ \A c \in Lanes!Clients \ {Lanes!ClientOf(t)} : Load'.client[c] = Load.client[c]
        /\ Load'.client[Lanes!ClientOf(t)] <= Load.client[Lanes!ClientOf(t)] + 1
        /\ Load'.host <= Load.host + 1
    BY <1>3, <2>5, <2>7, Zenon DEF Load
  <2>9. /\ \A l \in Lanes!Lanes : Load'.lane[l] <= Load.lane[l]
        /\ \A c \in Lanes!Clients \ {ClientSeq[dTick.c]} : Load'.client[c] <= Load.client[c]
        /\ Load'.client[ClientSeq[dTick.c]] <= Load.client[ClientSeq[dTick.c]] + 1
        /\ Load'.host <= Load.host + 1
    BY <1>2, <1>3, <2>8, SMTT(40) DEF Loads
  <2>10. Within(Load') /\ Fits(dTick', Load')
    BY <1>1, <1>2, <2>4, <2>9, AfterSpawnFits, Zenon
  <2> QED
    BY <2>2, <2>4, <2>10, Zenon DEF LanesInv
<1> QED
  BY <1>5, <1>6, Zenon

LEMMA LanesStep ==
    ASSUME LanesInv, Lanes!Next
    PROVE  LanesInv'
BY OthersFree, CountingSteps, ClaimSteps, SpawnSteps, Zenon DEF Lanes!Next, Lanes!TickStep

LEMMA LanesKeep ==
    ASSUME LanesInv
    PROVE  Lanes!CapacityHeld
BY LanesCounts, Zenon
   DEF LanesInv, Within, Load, Workers, SessionsOf, Working, Lanes!CapacityHeld,
       Lanes!RunningWithinLane, Lanes!CeilingHeld, Lanes!HostHeld, Lanes!RunningCount,
       Lanes!HostRunning

-----------------------------------------------------------------------------

\* No lane, client or host runs more rows than its capacity, for every layout
\* of clients, lanes and tickets and every ceiling and budget, while workers
\* end and operators move rows in the middle of a tick.
THEOREM CapacityKept == LaneSpec => []CapacityHeld
<1> DEFINE Inv == part = "lanes" => LanesInv
           all == <<part, LaneVars>>
<1>1. LaneInit => Inv
  BY LanesInit, Zenon DEF LaneInit
<1>2. Inv /\ [LaneNext]_all => Inv'
  <2>1. CASE LaneNext
    BY <2>1, LanesStep, Zenon DEF LaneNext
  <2>2. ASSUME UNCHANGED all, LanesInv
        PROVE  LanesInv'
    <3>1. Load' = Load /\ UNCHANGED <<status, sess, dTick>>
      BY <2>2, Zenon DEF Load, Workers, SessionsOf, Working, LaneVars, dVars
    <3> QED
      BY <2>2, <3>1, Zenon DEF LanesInv
  <2> QED
    BY <2>1, <2>2, Zenon
<1>3. Inv => CapacityHeld
  BY LanesKeep, Zenon DEF CapacityHeld
<1> QED
  BY <1>1, <1>2, <1>3, PTL DEF LaneSpec
=============================================================================
