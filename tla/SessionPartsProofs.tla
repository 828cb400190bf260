-------------------------- MODULE SessionPartsProofs --------------------------
(***************************************************************************)
(* What the session side of the daemon keeps for every value of its        *)
(* constants: the ranked locks (for any threads and locks: under the       *)
(* enforced rank order, and one level of nesting among STATE locks, the    *)
(* guard's stack always matches the kernel's flocks and no set of threads  *)
(* deadlocks), and the mid-turn act (for any sessions, clock and number of *)
(* faults: the limit is honoured, and a step writes only what it owns).    *)
(***************************************************************************)
EXTENDS SessionParts, Integers, SequenceTheorems, TLAPS

\* The stack is sorted by the acquisition order.
Sorted ==
    \A t \in Threads : \A i, j \in 1..Len(stack[t]) :
        i < j => Locks!Level(stack[t][i]) < Locks!Level(stack[t][j])

\* A thread that waits has its lock on top; one that is about to record or
\* has cleared the holder record has the sessions lock on top.
Placed ==
    \A t \in Threads :
        /\ pc[t] # "run" => stack[t] # <<>>
        /\ pc[t] \in {"record", "clear"} => Locks!Top(t) = SessionsLock

LocksInv == Locks!TypeOK /\ Sorted /\ Placed /\ Locks!GuardMatchesFlock

\* Entering a lock the checks accept puts it above every held lock.
LEMMA EnterClimbs ==
    ASSUME Locks!LockAssumption, Locks!TypeOK, OrderEnforced,
           NEW t \in Threads, NEW l \in Locks!Locks, NEW h \in Locks!Held(t),
           Locks!ReentryOK(t, l), Locks!OrderOK(t, l), Locks!PeersOK(t, l)
    PROVE  Locks!Level(h) < Locks!Level(l)
<1>1. h \in Locks!Locks
  BY DEF Locks!TypeOK, Locks!Held
<1>2. h # l /\ h \notin LeafLocks /\ Locks!LockRank(h) <= Locks!LockRank(l)
  BY Zenon DEF Locks!ReentryOK, Locks!OrderOK
<1>3. CASE l = SessionsLock
  BY <1>1, <1>2, <1>3 DEF Locks!LockRank, Locks!Locks, Locks!LockAssumption
<1>4. CASE l \in LeafLocks
  BY <1>1, <1>2, <1>4 DEF Locks!Level, Locks!Locks, Locks!LockAssumption
<1>5. CASE l \in StateLocks /\ h = SessionsLock
  BY <1>5 DEF Locks!Level, Locks!LockAssumption
<1>6. CASE l \in StateLocks /\ h \in StateLocks
  <2>1. <<h, l>> \in PeerNesting
    BY <1>6, Zenon DEF Locks!PeersOK
  <2>2. <<h, l>>[1] = h /\ <<h, l>>[2] = l
    BY Zenon
  <2>3. \A q \in PeerNesting : q[2] # h
    BY <2>1, <2>2, Zenon DEF Locks!LockAssumption
  <2>4. \E q \in PeerNesting : q[2] = l
    BY <2>1, <2>2, Zenon
  <2>5. Locks!Level(h) = 1
    BY <1>6, <2>3, Zenon DEF Locks!Level, Locks!LockAssumption
  <2>6. Locks!Level(l) = 2
    BY <1>6, <2>4, Zenon DEF Locks!Level, Locks!LockAssumption
  <2> QED BY <2>5, <2>6
<1> QED BY <1>1, <1>2, <1>3, <1>4, <1>5, <1>6, Zenon DEF Locks!Locks

\* What popping a non-empty stack leaves.
LEMMA PopFacts ==
    ASSUME NEW S, NEW s \in Seq(S), s # <<>>
    PROVE  /\ SubSeq(s, 1, Len(s) - 1) \in Seq(S)
           /\ Len(SubSeq(s, 1, Len(s) - 1)) = Len(s) - 1
           /\ Len(s) \in Nat \ {0}
           /\ \A i \in 1..(Len(s) - 1) : SubSeq(s, 1, Len(s) - 1)[i] = s[i]
<1>1. Len(s) \in Nat \ {0}
  BY EmptySeq, Zenon
<1>2. s \in [1..Len(s) -> S]
  BY LenProperties, Zenon
<1>3. Len(s) - 1 \in Int /\ \A i \in 1..(Len(s) - 1) : s[i] \in S
  BY <1>1, <1>2
<1>4. /\ SubSeq(s, 1, Len(s) - 1) \in Seq(S)
      /\ Len(SubSeq(s, 1, Len(s) - 1))
            = IF 1 <= Len(s) - 1 THEN (Len(s) - 1) - 1 + 1 ELSE 0
      /\ \A i \in 1..((Len(s) - 1) - 1 + 1) :
            SubSeq(s, 1, Len(s) - 1)[i] = s[1 + i - 1]
  BY <1>3, SubSeqProperties
<1>5. Len(SubSeq(s, 1, Len(s) - 1)) = Len(s) - 1
  <2> DEFINE n == Len(s)
             k == Len(SubSeq(s, 1, Len(s) - 1))
  <2>1. n \in Nat \ {0} /\ k = IF 1 <= n - 1 THEN (n - 1) - 1 + 1 ELSE 0
    BY <1>1, <1>4, Zenon
  <2> HIDE DEF n, k
  <2>2. k = n - 1
    BY <2>1
  <2> QED BY <2>2, Zenon DEF n, k
<1>6. \A i \in 1..(Len(s) - 1) : SubSeq(s, 1, Len(s) - 1)[i] = s[i]
  <2> TAKE i \in 1..(Len(s) - 1)
  <2>1. i \in 1..((Len(s) - 1) - 1 + 1) /\ 1 + i - 1 = i
    BY <1>1
  <2> QED BY <1>4, <2>1, Zenon
<1> QED BY <1>1, <1>4, <1>5, <1>6, Zenon

\* Popping the top lock removes exactly that lock from the held set, since a
\* sorted stack repeats no lock.
LEMMA PopHeld ==
    ASSUME Locks!TypeOK, Sorted, NEW t \in Threads, stack[t] # <<>>,
           stack' = [stack EXCEPT ![t] = Locks!Popped(t)]
    PROVE  /\ stack' \in [Threads -> Seq(Locks!Locks)]
           /\ Locks!Held(t)' = Locks!Held(t) \ {Locks!Top(t)}
           /\ Sorted'
<1> DEFINE s == stack[t]
<1>1. s \in Seq(Locks!Locks) /\ s # <<>>
  BY Zenon DEF Locks!TypeOK
<1>2. /\ Locks!Popped(t) \in Seq(Locks!Locks)
      /\ Len(Locks!Popped(t)) = Len(s) - 1
      /\ Len(s) \in Nat \ {0}
      /\ \A i \in 1..(Len(s) - 1) : Locks!Popped(t)[i] = s[i]
  BY <1>1, PopFacts, Zenon DEF Locks!Popped
<1>3. stack'[t] = Locks!Popped(t) /\ \A u \in Threads \ {t} : stack'[u] = stack[u]
  BY Zenon DEF Locks!TypeOK
<1>4. \A i \in 1..(Len(s) - 1) : s[i] # s[Len(s)]
  <2> SUFFICES ASSUME NEW i \in 1..(Len(s) - 1), s[i] = s[Len(s)] PROVE FALSE
    BY Zenon
  <2>1. i \in 1..Len(s) /\ Len(s) \in 1..Len(s) /\ i < Len(s)
    BY <1>2
  <2>2. Locks!Level(s[i]) < Locks!Level(s[Len(s)])
    BY <2>1, Zenon DEF Sorted
  <2>3. Locks!Level(s[i]) \in Nat
    BY Zenon DEF Locks!Level
  <2> QED BY <2>2, <2>3
<1>5. Locks!Held(t)' = {s[i] : i \in 1..(Len(s) - 1)}
  BY <1>2, <1>3 DEF Locks!Held
<1>6. Locks!Held(t) = {s[i] : i \in 1..(Len(s) - 1)} \cup {Locks!Top(t)}
  BY <1>2 DEF Locks!Held, Locks!Top
<1>7. Locks!Held(t)' = Locks!Held(t) \ {Locks!Top(t)}
  BY <1>4, <1>5, <1>6, Zenon DEF Locks!Top
<1>8. Sorted'
  <2> SUFFICES ASSUME NEW u \in Threads,
                      NEW i \in 1..Len(stack'[u]), NEW j \in 1..Len(stack'[u]), i < j
               PROVE  Locks!Level(stack'[u][i]) < Locks!Level(stack'[u][j])
    BY Zenon DEF Sorted, Locks!Level
  <2>1. CASE u = t
    <3>1. i \in 1..(Len(s) - 1) /\ j \in 1..(Len(s) - 1)
      BY <1>2, <1>3, <2>1, Zenon
    <3>2. i \in 1..Len(s) /\ j \in 1..Len(s)
      BY <1>2, <3>1
    <3>3. stack'[u][i] = s[i] /\ stack'[u][j] = s[j]
      BY <1>2, <1>3, <2>1, <3>1, Zenon
    <3> QED BY <3>2, <3>3, Zenon DEF Sorted
  <2>2. CASE u # t
    BY <1>3, <2>2, Zenon DEF Sorted
  <2> QED BY <2>1, <2>2, Zenon
<1> QED BY <1>2, <1>7, <1>8, Zenon DEF Locks!TypeOK

\* The initial state satisfies the inductive invariant.
LEMMA InitInv == Locks!LockAssumption /\ Locks!Init => LocksInv
<1> SUFFICES ASSUME Locks!LockAssumption, Locks!Init PROVE LocksInv
  BY Zenon
<1>1. Locks!TypeOK
  BY DEF Locks!Init, Locks!TypeOK, Locks!Locks
<1>2. \A t \in Threads : Len(stack[t]) = 0 /\ Locks!Held(t) = {}
  <2> TAKE t \in Threads
  <2>1. stack[t] = <<>>
    BY Zenon DEF Locks!Init
  <2>2. Len(stack[t]) = 0
    BY <2>1
  <2> QED BY <2>2 DEF Locks!Held
<1>3. Sorted /\ Placed
  BY <1>2 DEF Sorted, Placed, Locks!Init
<1>4. Locks!GuardMatchesFlock
  BY <1>2, Zenon DEF Locks!GuardMatchesFlock, Locks!Init, Locks!LockAssumption
<1> QED BY <1>1, <1>3, <1>4, Zenon DEF LocksInv


\* Entering a lock: the pushed lock is above every held one.
LEMMA EnterInv ==
    ASSUME Locks!LockAssumption, OrderEnforced, LocksInv,
           NEW t \in Threads, NEW l \in Locks!Locks, NEW b \in BOOLEAN, Locks!Enter(t, l, b)
    PROVE  LocksInv'
<1> USE DEF LocksInv
<1>0. stack[t] \in Seq(Locks!Locks) /\ Len(stack[t]) \in Nat
  BY DEF Locks!TypeOK
<1>1. Locks!TypeOK'
  BY DEF Locks!TypeOK, Locks!Enter
<1>2. /\ stack'[t] = Append(stack[t], l)
      /\ Len(stack'[t]) = Len(stack[t]) + 1
      /\ stack'[t][Len(stack[t]) + 1] = l
      /\ \A i \in 1..Len(stack[t]) : stack'[t][i] = stack[t][i]
      /\ \A u \in Threads \ {t} : stack'[u] = stack[u]
  BY <1>0 DEF Locks!TypeOK, Locks!Enter
<1>3. \A h \in Locks!Held(t) : Locks!Level(h) < Locks!Level(l)
  BY EnterClimbs, Zenon DEF Locks!Enter
<1>4. Sorted'
  <2> SUFFICES ASSUME NEW u \in Threads,
                      NEW i \in 1..Len(stack'[u]), NEW j \in 1..Len(stack'[u]), i < j
               PROVE  Locks!Level(stack'[u][i]) < Locks!Level(stack'[u][j])
    BY Zenon DEF Sorted, Locks!Level
  <2>1. CASE u # t
    BY <1>2, <2>1, Zenon DEF Sorted
  <2>2. CASE u = t /\ j = Len(stack[t]) + 1
    <3>1. i \in 1..Len(stack[t])
      BY <1>0, <1>2, <2>2
    <3>2. stack[t][i] \in Locks!Held(t)
      BY <3>1, Zenon DEF Locks!Held
    <3> QED BY <1>2, <1>3, <2>2, <3>1, <3>2, Zenon
  <2>3. CASE u = t /\ j # Len(stack[t]) + 1
    <3>1. i \in 1..Len(stack[t]) /\ j \in 1..Len(stack[t])
      BY <1>0, <1>2, <2>3, SMTT(40)
    <3> QED BY <1>2, <2>3, <3>1, Zenon DEF Sorted
  <2> QED BY <2>1, <2>2, <2>3, Zenon
<1>5. /\ Locks!Held(t)' = Locks!Held(t) \cup {l}
      /\ Locks!Top(t)' = l
      /\ \A u \in Threads \ {t} : Locks!Held(u)' = Locks!Held(u) /\ Locks!Top(u)' = Locks!Top(u)
  <2>1. Locks!Held(t)' = {stack'[t][i] : i \in 1..(Len(stack[t]) + 1)}
    BY <1>2, Zenon DEF Locks!Held
  <2>2. Locks!Held(t)' = Locks!Held(t) \cup {l}
    BY <1>0, <1>2, <2>1 DEF Locks!Held
  <2> QED BY <1>2, <2>2, SMTT(40) DEF Locks!Held, Locks!Top
<1>6. l \notin Locks!Held(t) /\ pc[t] = "run" /\ pc' = [pc EXCEPT ![t] = "wait"]
      /\ owner' = owner
  BY Zenon DEF Locks!Enter, Locks!ReentryOK
<1>7. Placed'
  <2> SUFFICES ASSUME NEW u \in Threads
               PROVE  /\ pc'[u] # "run" => stack'[u] # <<>>
                      /\ pc'[u] \in {"record", "clear"} => Locks!Top(u)' = SessionsLock
    BY Zenon DEF Placed, Locks!Top
  <2>1. CASE u = t
    <3>1. pc'[t] = "wait"
      BY <1>6, Zenon DEF Locks!TypeOK
    <3>2. stack'[t] # <<>>
      BY <1>0, <1>2
    <3> QED BY <2>1, <3>1, <3>2, Zenon
  <2>2. CASE u # t
    <3>1. pc'[u] = pc[u]
      BY <1>6, <2>2, Zenon DEF Locks!TypeOK
    <3> QED BY <1>2, <1>5, <2>2, <3>1, Zenon DEF Placed
  <2> QED BY <2>1, <2>2, Zenon
<1>8. Locks!GuardMatchesFlock'
  <2> SUFFICES ASSUME NEW u \in Threads, NEW m \in Locks!Locks
               PROVE  owner'[m] = u
                        <=> m \in Locks!Held(u)' /\ ~(pc'[u] = "wait" /\ m = Locks!Top(u)')
    BY Zenon DEF Locks!GuardMatchesFlock, Locks!Held, Locks!Top
  <2>1. owner[m] = u <=> m \in Locks!Held(u) /\ ~(pc[u] = "wait" /\ m = Locks!Top(u))
    BY Zenon DEF Locks!GuardMatchesFlock
  <2>2. CASE u = t
    <3>1. pc'[t] = "wait"
      BY <1>6, Zenon DEF Locks!TypeOK
    <3> QED BY <1>5, <1>6, <2>1, <2>2, <3>1, Zenon
  <2>3. CASE u # t
    <3>1. pc'[u] = pc[u]
      BY <1>6, <2>3, Zenon DEF Locks!TypeOK
    <3> QED BY <1>5, <1>6, <2>1, <2>3, <3>1, Zenon
  <2> QED BY <2>2, <2>3, Zenon
<1> QED BY <1>1, <1>4, <1>7, <1>8, Zenon


\* A step of t that leaves every stack and every owner alone keeps the
\* invariant when t was not waiting and is not made to wait.
LEMMA BookkeepingInv ==
    ASSUME LocksInv, NEW t \in Threads, NEW q \in {"run", "clear"},
           pc[t] # "wait", pc' = [pc EXCEPT ![t] = q],
           q = "clear" => stack[t] # <<>> /\ Locks!Top(t) = SessionsLock,
           UNCHANGED <<stack, bounded, owner, alive>>,
           record' \in Threads \cup {None}
    PROVE  LocksInv'
<1> USE DEF LocksInv
<1>1. Locks!TypeOK'
  BY Zenon DEF Locks!TypeOK
<1>2. pc'[t] = q /\ \A u \in Threads \ {t} : pc'[u] = pc[u]
  BY Zenon DEF Locks!TypeOK
<1>3. Sorted'
  BY DEF Sorted, Locks!Level
<1>4. \A u \in Threads : Locks!Held(u)' = Locks!Held(u) /\ Locks!Top(u)' = Locks!Top(u)
  BY Zenon DEF Locks!Held, Locks!Top
<1>5. Placed'
  BY <1>2, <1>4, Zenon DEF Placed
<1>6. Locks!GuardMatchesFlock'
  <2> SUFFICES ASSUME NEW u \in Threads, NEW m \in Locks!Locks
               PROVE  owner'[m] = u
                        <=> m \in Locks!Held(u)' /\ ~(pc'[u] = "wait" /\ m = Locks!Top(u)')
    BY Zenon DEF Locks!GuardMatchesFlock, Locks!Held, Locks!Top
  <2>1. owner[m] = u <=> m \in Locks!Held(u) /\ ~(pc[u] = "wait" /\ m = Locks!Top(u))
    BY Zenon DEF Locks!GuardMatchesFlock
  <2> QED BY <1>2, <1>4, <2>1, Zenon
<1> QED BY <1>1, <1>3, <1>5, <1>6, Zenon

\* The flock is granted to the waiter.
LEMMA AcquireInv ==
    ASSUME Locks!LockAssumption, LocksInv, NEW t \in Threads, Locks!Acquire(t)
    PROVE  LocksInv'
<1> USE DEF LocksInv
<1>0. stack[t] # <<>> /\ Locks!Top(t) \in Locks!Held(t) /\ Locks!Top(t) \in Locks!Locks
  <2>1. stack[t] # <<>> /\ stack[t] \in Seq(Locks!Locks)
    BY Zenon DEF Placed, Locks!Acquire, Locks!TypeOK
  <2>2. Len(stack[t]) \in 1..Len(stack[t])
    BY <2>1, EmptySeq
  <2> QED BY <2>1, <2>2 DEF Locks!Top, Locks!Held
<1>1. Locks!TypeOK'
  BY <1>0, Zenon DEF Locks!TypeOK, Locks!Acquire
<1>2. /\ pc'[t] # "wait"
      /\ pc'[t] # "run" => Locks!Top(t) = SessionsLock
      /\ \A u \in Threads \ {t} : pc'[u] = pc[u]
  BY Zenon DEF Locks!TypeOK, Locks!Acquire
<1>3. Sorted'
  BY SMTT(40) DEF Sorted, Locks!Level, Locks!Acquire
<1>4. \A u \in Threads : Locks!Held(u)' = Locks!Held(u) /\ Locks!Top(u)' = Locks!Top(u)
  BY Zenon DEF Locks!Held, Locks!Top, Locks!Acquire
<1>5. Placed'
  BY <1>0, <1>2, <1>4, Zenon DEF Placed, Locks!Acquire
<1>6. Locks!GuardMatchesFlock'
  <2> SUFFICES ASSUME NEW u \in Threads, NEW m \in Locks!Locks
               PROVE  owner'[m] = u
                        <=> m \in Locks!Held(u)' /\ ~(pc'[u] = "wait" /\ m = Locks!Top(u)')
    BY Zenon DEF Locks!GuardMatchesFlock, Locks!Held, Locks!Top
  <2>1. owner[m] = u <=> m \in Locks!Held(u) /\ ~(pc[u] = "wait" /\ m = Locks!Top(u))
    BY Zenon DEF Locks!GuardMatchesFlock
  <2>2. CASE m # Locks!Top(t)
    <3>1. owner'[m] = owner[m]
      BY <2>2, Zenon DEF Locks!Acquire, Locks!TypeOK
    <3> QED BY <1>2, <1>4, <2>1, <2>2, <3>1, Zenon
  <2>3. CASE m = Locks!Top(t)
    <3>1. owner'[m] = t /\ owner[m] = None
      BY <1>0, <2>3, Zenon DEF Locks!Acquire, Locks!TypeOK
    <3>2. CASE u = t
      BY <1>0, <1>2, <1>4, <2>3, <3>1, <3>2, Zenon
    <3>3. CASE u # t
      <4>1. owner[m] # u
        BY <3>1, Zenon DEF Locks!LockAssumption
      <4> QED BY <1>2, <1>4, <2>1, <3>1, <3>3, <4>1, Zenon
    <3> QED BY <3>2, <3>3, Zenon
  <2> QED BY <2>2, <2>3, Zenon
<1> QED BY <1>1, <1>3, <1>5, <1>6, Zenon

\* Popping the top lock of t: a timed-out wait, whose lock t did not hold, or
\* the release of a lock t held.
LEMMA PopInv ==
    ASSUME Locks!LockAssumption, LocksInv, NEW t \in Threads, stack[t] # <<>>,
           stack' = [stack EXCEPT ![t] = Locks!Popped(t)],
           pc' = [pc EXCEPT ![t] = "run"],
           \/ pc[t] = "wait" /\ owner' = owner
           \/ pc[t] # "wait" /\ owner' = [owner EXCEPT ![Locks!Top(t)] = None],
           UNCHANGED <<bounded, record, alive>>
    PROVE  LocksInv'
<1> USE DEF LocksInv
<1>0. Locks!Top(t) \in Locks!Held(t) /\ Locks!Top(t) \in Locks!Locks
  <2>1. stack[t] \in Seq(Locks!Locks) /\ Len(stack[t]) \in 1..Len(stack[t])
    BY EmptySeq DEF Locks!TypeOK
  <2> QED BY <2>1 DEF Locks!Top, Locks!Held
<1>1. /\ stack' \in [Threads -> Seq(Locks!Locks)]
      /\ Locks!Held(t)' = Locks!Held(t) \ {Locks!Top(t)}
      /\ Sorted'
  BY PopHeld, Zenon
<1>2. Locks!TypeOK'
  BY <1>0, <1>1, Zenon DEF Locks!TypeOK
<1>3. pc'[t] = "run" /\ \A u \in Threads \ {t} : pc'[u] = pc[u]
  BY Zenon DEF Locks!TypeOK
<1>4. \A u \in Threads \ {t} : stack'[u] = stack[u]
  BY Zenon DEF Locks!TypeOK
<1>5. \A u \in Threads \ {t} : Locks!Held(u)' = Locks!Held(u) /\ Locks!Top(u)' = Locks!Top(u)
  BY <1>4 DEF Locks!Held, Locks!Top
<1>6. Placed'
  BY <1>3, <1>4, <1>5, Zenon DEF Placed
<1>7. Locks!GuardMatchesFlock'
  <2> SUFFICES ASSUME NEW u \in Threads, NEW m \in Locks!Locks
               PROVE  owner'[m] = u
                        <=> m \in Locks!Held(u)' /\ ~(pc'[u] = "wait" /\ m = Locks!Top(u)')
    BY Zenon DEF Locks!GuardMatchesFlock, Locks!Held, Locks!Top
  <2>1. \A v \in Threads :
            owner[m] = v <=> m \in Locks!Held(v) /\ ~(pc[v] = "wait" /\ m = Locks!Top(v))
    BY Zenon DEF Locks!GuardMatchesFlock
  <2>2. CASE pc[t] = "wait" /\ owner' = owner
    BY <1>1, <1>3, <1>5, <2>1, <2>2, Zenon
  <2>3. CASE pc[t] # "wait" /\ owner' = [owner EXCEPT ![Locks!Top(t)] = None] /\ m = Locks!Top(t)
    <3>1. owner[m] = t /\ owner'[m] = None
      BY <1>0, <2>1, <2>3, Zenon DEF Locks!TypeOK
    <3>2. owner'[m] # u
      BY <3>1, Zenon DEF Locks!LockAssumption
    <3> QED BY <1>1, <1>3, <1>5, <2>1, <2>3, <3>1, <3>2, Zenon
  <2>4. CASE pc[t] # "wait" /\ owner' = [owner EXCEPT ![Locks!Top(t)] = None] /\ m # Locks!Top(t)
    <3>1. owner'[m] = owner[m]
      BY <2>4, Zenon DEF Locks!TypeOK
    <3> QED BY <1>1, <1>3, <1>5, <2>1, <2>4, <3>1, Zenon
  <2> QED BY <2>2, <2>3, <2>4, Zenon
<1> QED BY <1>1, <1>2, <1>6, <1>7, Zenon


\* A dying thread: the kernel drops its flocks, and its stack is gone.
LEMMA CrashInv ==
    ASSUME Locks!LockAssumption, LocksInv, NEW t \in Threads, Locks!Crash(t)
    PROVE  LocksInv'
<1> USE DEF LocksInv
<1>1. Locks!TypeOK'
  BY DEF Locks!TypeOK, Locks!Crash
<1>2. /\ pc'[t] = "run" /\ stack'[t] = <<>>
      /\ \A u \in Threads \ {t} : pc'[u] = pc[u] /\ stack'[u] = stack[u]
      /\ \A m \in Locks!Locks : owner'[m] = IF owner[m] = t THEN None ELSE owner[m]
  BY Zenon DEF Locks!TypeOK, Locks!Crash
<1>3. Len(stack'[t]) = 0
  BY <1>2, SMTT(40)
<1>4. /\ Locks!Held(t)' = {}
      /\ \A u \in Threads \ {t} : Locks!Held(u)' = Locks!Held(u) /\ Locks!Top(u)' = Locks!Top(u)
  BY <1>2, <1>3 DEF Locks!Held, Locks!Top
<1>5. Sorted'
  <2> SUFFICES ASSUME NEW u \in Threads,
                      NEW i \in 1..Len(stack'[u]), NEW j \in 1..Len(stack'[u]), i < j
               PROVE  Locks!Level(stack'[u][i]) < Locks!Level(stack'[u][j])
    BY Zenon DEF Sorted, Locks!Level
  <2>1. u # t
    BY <1>3
  <2> QED BY <1>2, <2>1, Zenon DEF Sorted
<1>6. Placed'
  BY <1>2, <1>4, Zenon DEF Placed
<1>7. Locks!GuardMatchesFlock'
  <2> SUFFICES ASSUME NEW u \in Threads, NEW m \in Locks!Locks
               PROVE  owner'[m] = u
                        <=> m \in Locks!Held(u)' /\ ~(pc'[u] = "wait" /\ m = Locks!Top(u)')
    BY Zenon DEF Locks!GuardMatchesFlock, Locks!Held, Locks!Top
  <2>1. owner[m] = u <=> m \in Locks!Held(u) /\ ~(pc[u] = "wait" /\ m = Locks!Top(u))
    BY Zenon DEF Locks!GuardMatchesFlock
  <2>2. None # u
    BY Zenon DEF Locks!LockAssumption
  <2> QED BY <1>2, <1>4, <2>1, <2>2, Zenon
<1> QED BY <1>1, <1>5, <1>6, <1>7, Zenon

\* Every step keeps the inductive invariant.
LEMMA NextInv ==
    ASSUME Locks!LockAssumption, OrderEnforced, LocksInv, [Locks!Next]_kVars
    PROVE  LocksInv'
<1>1. CASE UNCHANGED kVars
  <2>1. \A u \in Threads : Locks!Held(u)' = Locks!Held(u) /\ Locks!Top(u)' = Locks!Top(u)
    BY <1>1, Zenon DEF kVars, Locks!Held, Locks!Top
  <2>2. Locks!TypeOK' /\ Sorted' /\ Placed'
    BY <1>1, <2>1, SMTT(40) DEF kVars, LocksInv, Locks!TypeOK, Sorted, Placed, Locks!Level
  <2>3. Locks!GuardMatchesFlock'
    BY <1>1, <2>1 DEF kVars, LocksInv, Locks!GuardMatchesFlock
  <2> QED BY <2>2, <2>3, Zenon DEF LocksInv
<1>2. ASSUME NEW t \in Threads, NEW l \in Locks!Locks, NEW b \in BOOLEAN, Locks!Enter(t, l, b)
      PROVE  LocksInv'
  BY <1>2, EnterInv, Zenon
<1>3. ASSUME NEW t \in Threads, Locks!Acquire(t) PROVE LocksInv'
  BY <1>3, AcquireInv, Zenon
<1>4. ASSUME NEW t \in Threads, Locks!RecordHolder(t) PROVE LocksInv'
  <2>1. /\ pc[t] # "wait" /\ pc' = [pc EXCEPT ![t] = "run"]
        /\ UNCHANGED <<stack, bounded, owner, alive>>
        /\ record' \in Threads \cup {None}
    BY <1>4, Zenon DEF Locks!RecordHolder, LocksInv, Locks!TypeOK
  <2> QED BY <2>1, BookkeepingInv, Zenon
<1>5. ASSUME NEW t \in Threads, Locks!Timeout(t) PROVE LocksInv'
  <2>1. stack[t] # <<>>
    BY <1>5, Zenon DEF Locks!Timeout, LocksInv, Placed
  <2> QED BY <1>5, <2>1, PopInv, Zenon DEF Locks!Timeout
<1>6. ASSUME NEW t \in Threads, Locks!ClearHolder(t) PROVE LocksInv'
  <2>1. /\ pc[t] # "wait" /\ pc' = [pc EXCEPT ![t] = "clear"]
        /\ stack[t] # <<>> /\ Locks!Top(t) = SessionsLock
        /\ UNCHANGED <<stack, bounded, owner, alive>>
        /\ record' \in Threads \cup {None}
    BY <1>6, Zenon DEF Locks!ClearHolder, LocksInv, Locks!TypeOK
  <2> QED BY <2>1, BookkeepingInv, Zenon
<1>7. ASSUME NEW t \in Threads, Locks!Release(t) PROVE LocksInv'
  <2>1. pc[t] # "wait"
    BY <1>7, Zenon DEF Locks!Release
  <2> QED BY <1>7, <2>1, PopInv, Zenon DEF Locks!Release
<1>8. ASSUME NEW t \in Threads, Locks!Crash(t) PROVE LocksInv'
  BY <1>8, CrashInv, Zenon
<1> HIDE DEF LocksInv
<1> QED BY <1>1, <1>2, <1>3, <1>4, <1>5, <1>6, <1>7, <1>8, Zenon DEF Locks!Next

\* The chain of waits climbs the acquisition order.
LEMMA ClimbsFromInv ==
    ASSUME LocksInv PROVE Locks!WaitsClimb
<1> USE DEF LocksInv
<1> SUFFICES ASSUME NEW t \in Threads, NEW u \in Threads,
                    Locks!WaitsFor(t, u), pc[u] = "wait"
             PROVE  Locks!Level(Locks!Top(t)) < Locks!Level(Locks!Top(u))
  BY Zenon DEF Locks!WaitsClimb
<1>1. stack[t] # <<>> /\ stack[u] # <<>>
  BY Zenon DEF Locks!WaitsFor, Placed
<1>2. /\ stack[t] \in Seq(Locks!Locks) /\ stack[u] \in Seq(Locks!Locks)
      /\ Len(stack[t]) \in 1..Len(stack[t]) /\ Len(stack[u]) \in 1..Len(stack[u])
  BY <1>1, EmptySeq DEF Locks!TypeOK
<1>3. Locks!Top(t) \in Locks!Locks /\ owner[Locks!Top(t)] = u
  BY <1>2, SMTT(40) DEF Locks!Top, Locks!WaitsFor
<1>4. Locks!Top(t) \in Locks!Held(u) /\ Locks!Top(t) # Locks!Top(u)
  BY <1>3, Zenon DEF Locks!GuardMatchesFlock
<1>5. PICK i \in 1..Len(stack[u]) : stack[u][i] = Locks!Top(t)
  BY <1>4, Zenon DEF Locks!Held
<1>6. i < Len(stack[u])
  BY <1>2, <1>4, <1>5 DEF Locks!Top
<1> QED BY <1>2, <1>5, <1>6, Zenon DEF Sorted, Locks!Top

\* There are four levels, so a set of threads that all wait for each other
\* would need a fifth.
LEMMA NoDeadlockFromClimb ==
    ASSUME Locks!WaitsClimb PROVE Locks!NoDeadlock
<1> SUFFICES ASSUME NEW S \in SUBSET Threads,
                    \A t \in S : ~bounded[t] /\ \E u \in S : Locks!WaitsFor(t, u),
                    S # {}
             PROVE  FALSE
  BY Zenon DEF Locks!NoDeadlock
<1>1. \A l : Locks!Level(l) \in 0..3
  BY DEF Locks!Level
<1>2. \A t \in S : \E u \in S : Locks!Level(Locks!Top(t)) < Locks!Level(Locks!Top(u))
  BY Zenon DEF Locks!WaitsClimb, Locks!WaitsFor
<1>3. PICK a \in S : TRUE
  BY Zenon
<1>4. PICK b \in S : Locks!Level(Locks!Top(a)) < Locks!Level(Locks!Top(b))
  BY <1>2, Zenon
<1>5. PICK c \in S : Locks!Level(Locks!Top(b)) < Locks!Level(Locks!Top(c))
  BY <1>2, Zenon
<1>6. PICK d \in S : Locks!Level(Locks!Top(c)) < Locks!Level(Locks!Top(d))
  BY <1>2, Zenon
<1>7. PICK e \in S : Locks!Level(Locks!Top(d)) < Locks!Level(Locks!Top(e))
  BY <1>2, Zenon
<1> QED BY <1>1, <1>4, <1>5, <1>6, <1>7

\* The guard's stack always matches what flock granted, waits climb the order,
\* and no set of threads deadlocks: for any threads and locks, crashes included,
\* when the rank order is respected and STATE locks nest one level deep (ADR-0019).
THEOREM LocksSafe ==
    ASSUME OrderEnforced
    PROVE  SessionSpec => []NoDeadlock
<1> DEFINE Inv == part = "locks" => LocksInv
           all == <<part, SessionVars>>
<1>1. SessionInit => Inv
  BY InitInv, LocksAssumption, Zenon DEF SessionInit
<1>2. Inv /\ [SessionNext]_all => Inv'
  <2> SUFFICES ASSUME Inv, [SessionNext]_all, part' = "locks"
               PROVE  LocksInv'
    BY Zenon
  <2>1. part = "locks" /\ [Locks!Next]_kVars
    BY Zenon DEF SessionNext, SessionVars
  <2> QED BY <2>1, NextInv, LocksAssumption, Zenon
<1>3. Inv => NoDeadlock
  BY ClimbsFromInv, NoDeadlockFromClimb, Zenon DEF NoDeadlock
<1> QED BY <1>1, <1>2, <1>3, PTL DEF SessionSpec
-----------------------------------------------------------------------------
(***************************************************************************)
(* The mid-turn act.                                                       *)
(***************************************************************************)

\* The types of what the act and its surroundings share.
ActsType ==
    /\ row \in [status : {"PENDING", "RUNNING", "BLOCKED_ON_USER", "DONE"},
                session : Sessions \cup {None}, act : Acts!Intents \cup {None}, eligible : Nat]
    /\ sess \in [Sessions -> {"new", "active", "completed", "crashed", "usage_limited"}]
    /\ live \in [Sessions -> BOOLEAN]
    /\ {now, window, acts} \subseteq Nat /\ stopped \subseteq Sessions

\* An intent stands only on a running row, under that row's session; a running
\* row's session was claimed; and a row that waits, waits under the lockout.
RowInv ==
    /\ row.act # None => /\ row.status = "RUNNING" /\ row.act.session = row.session
                         /\ row.act.started <= acts
    /\ row.status = "RUNNING" =>
         row.session \in Sessions /\ sess[row.session] \in {"active", "usage_limited"}
    /\ row.eligible > now => window >= row.eligible

\* A session that was never claimed, or that an act closed, has no surface; a
\* charged session crashed; and the row of a stopped session carries an intent
\* for as long as it runs, which is what keeps the phantom sweep off it.
SessInv ==
    \A s \in Sessions :
        /\ sess[s] \in {"new", "usage_limited"} => ~live[s]
        /\ s \in charged => sess[s] = "crashed"
        /\ s \in stopped => /\ ~live[s] /\ s \notin charged /\ sess[s] # "new"
                            /\ row.status = "RUNNING" /\ row.session = s => row.act # None

Acting == {"arm", "audit", "mark", "tail", "owner", "stop", "persist", "finish"}

\* What the running pass knows of the row and the session between its steps:
\* its copy of the intent is that of the row if the numbers agree, the lockout
\* covers the intent once armed, and the surface is gone before the session is
\* closed.
PassInv ==
    LET a == pass.act
        s == pass.act.session
    IN
    /\ pass.pc \in {"idle", "decide"} \cup Acting
    /\ DOMAIN pass = {"pc", "act", "native", "at"}
    /\ pass.pc # "idle" => pass.at \in Nat /\ pass.at <= now
    /\ pass.pc = "decide" => s \in Sessions /\ s \in pass.native
    /\ pass.pc \in Acting =>
         /\ a \in Acts!Intents /\ a.started <= acts
         /\ sess[s] # "new" /\ (s \notin pass.native => ~live[s])
         /\ row.act # None /\ row.act.started = a.started =>
              row.act.session = s /\ row.act.branch = a.branch /\ row.act.until = a.until
    /\ pass.pc \in Acting \ {"arm"} => a.until <= now \/ window >= a.until
    /\ pass.pc \in {"decide", "arm", "audit", "mark", "tail", "owner", "stop"} =>
         pass.native \cap stopped = {}
    /\ pass.pc \in {"owner", "stop"} => sess[s] = "active"
    /\ pass.pc = "stop" => (row.status = "RUNNING" /\ row.session = s => row.act # None)
    /\ pass.pc = "persist" => ~live[s] \/ sess[s] \in Acts!Terminal
    /\ pass.pc = "finish" /\ a.branch = "auto" => sess[s] \in Acts!Terminal


ActsInv == ActsType /\ RowInv /\ SessInv /\ PassInv

LEMMA ActsInit ==
    ASSUME Acts!ActAssumption, Acts!Init
    PROVE  ActsInv
BY SMTT(40) DEF Acts!ActAssumption, Acts!Init, Acts!Idle, ActsInv, ActsType, RowInv, SessInv, PassInv, Acting

LEMMA ActsStep ==
    ASSUME Acts!ActAssumption, ActsInv, Acts!Next
    PROVE  ActsInv'
<1> USE DEF Acts!ActAssumption, ActsInv, ActsType, RowInv, SessInv, PassInv, Acting, Acts!env,
            Acts!Idle, Acts!Goto, Acts!EndPass, Acts!Fault, Acts!Terminal, Acts!RowCarrying, Acts!Intents
<1>1. CASE Acts!BeginPass
  BY <1>1, SMTT(40) DEF Acts!BeginPass
<1>2. CASE Acts!DecideNothing
  BY <1>2, Zenon DEF Acts!DecideNothing
<1>3. CASE Acts!ArmLockout
  BY <1>3 DEF Acts!ArmLockout, Acts!LockoutCovers
<1>4. CASE Acts!AuditEvents
  BY <1>4 DEF Acts!AuditEvents
<1>5. CASE Acts!MarkAudited
  <2> DEFINE marked == [row.act EXCEPT !.audited = TRUE]
  <2>1. CASE Acts!RowCarrying
    <3>1. row.act \in Acts!Intents
      BY <2>1, Zenon
    <3>2. /\ marked.session = row.act.session /\ marked.branch = row.act.branch
          /\ marked.started = row.act.started /\ marked.until = row.act.until
      BY <3>1, Zenon
    <3>3. marked \in Acts!Intents
      BY <3>1, Zenon DEF Acts!Intents
    <3>4. marked # None
      BY <3>3, Zenon
    <3>5. /\ row' = [row EXCEPT !.act = marked]
          /\ pass' = [pass EXCEPT !.pc = IF pass.act.branch = "auto" THEN "tail" ELSE "finish"]
          /\ UNCHANGED <<sess, live, window, now, acts, stopped, charged>>
          /\ pass.pc = "mark"
      BY <1>5, <2>1, Zenon DEF Acts!MarkAudited
    <3> HIDE DEF marked
    <3>6. ActsType'
      BY <3>3, <3>5, Zenon
    <3>7. RowInv' /\ SessInv'
      BY <2>1, <3>2, <3>4, <3>5, Zenon
    <3>8. PassInv'
      BY <2>1, <3>2, <3>4, <3>5, ZenonT(40)
    <3> QED
      BY <3>6, <3>7, <3>8, ZenonT(40)
  <2>2. CASE ~Acts!RowCarrying
    BY <1>5, <2>2, SMTT(40) DEF Acts!MarkAudited
  <2> QED
    BY <2>1, <2>2, ZenonT(40)
<1>6. CASE Acts!StopCheckTail
  BY <1>6 DEF Acts!StopCheckTail
<1>7. CASE Acts!StopCheckOwner
  BY <1>7, SMTT(40) DEF Acts!StopCheckOwner
<1>8. CASE Acts!StopSurface
  <2>1. ActsType'
    BY <1>8, Zenon DEF Acts!StopSurface
  <2>2. RowInv'
    BY <1>8, Zenon DEF Acts!StopSurface
  <2>3. SessInv'
    <3>1. /\ pass.act.session \in Sessions /\ sess[pass.act.session] = "active"
          /\ live' = [live EXCEPT ![pass.act.session] = FALSE]
          /\ stopped' = stopped \cup {pass.act.session}
          /\ UNCHANGED <<row, sess, charged>>
          /\ row.status = "RUNNING" /\ row.session = pass.act.session => row.act # None
      BY <1>8, Zenon DEF Acts!StopSurface
    <3>2. \A z \in Sessions : ~live[z] => ~live'[z]
      BY <3>1, ZenonT(40)
    <3>3. ~live'[pass.act.session]
      BY <3>1, ZenonT(40)
    <3> HIDE DEF Acts!Intents, PassInv
    <3> QED
      BY <3>1, <3>2, <3>3, Zenon
  <2>4. PassInv'
    BY <1>8, ZenonT(40) DEF Acts!StopSurface
  <2> QED
    BY <2>1, <2>2, <2>3, <2>4, Zenon
<1>9. CASE Acts!PersistCompleted
  BY <1>9, SMTT(40) DEF Acts!PersistCompleted
<1>10. CASE Acts!Finish
  <2> DEFINE Rows == [status : {"PENDING", "RUNNING", "BLOCKED_ON_USER", "DONE"},
                      session : Sessions \cup {None}, act : Acts!Intents \cup {None}, eligible : Nat]
  <2>1. /\ row \in Rows /\ pass.act.until \in Nat /\ pass.pc = "finish"
        /\ pass.act.until <= now \/ window >= pass.act.until
        /\ pass' = Acts!Idle /\ UNCHANGED <<sess, live, window, now, acts, stopped, charged>>
    BY <1>10, Zenon DEF Acts!Finish
  <2>2. CASE Acts!RowCarrying /\ pass.act.branch = "auto"
    <3>1. row' = [row EXCEPT !.status = "PENDING", !.session = None, !.act = None,
                             !.eligible = pass.act.until]
      BY <1>10, <2>2, Zenon DEF Acts!Finish
    <3>2. /\ row' \in Rows /\ row'.status = "PENDING" /\ row'.act = None
          /\ row'.eligible = pass.act.until
      <4> HIDE DEF ActsInv, ActsType, RowInv, SessInv, PassInv, Acts!Intents
      <4> QED
        BY <2>1, <3>1, Zenon
    <3> QED
      BY <2>1, <3>2, SMTT(40)
  <2>3. CASE Acts!RowCarrying /\ pass.act.branch # "auto"
    <3>1. row' = [row EXCEPT !.status = "BLOCKED_ON_USER", !.act = None]
      BY <1>10, <2>3, Zenon DEF Acts!Finish
    <3>2. /\ row' \in Rows /\ row'.status = "BLOCKED_ON_USER" /\ row'.act = None
          /\ row'.eligible = row.eligible
      <4> HIDE DEF ActsInv, ActsType, RowInv, SessInv, PassInv, Acts!Intents
      <4> QED
        BY <2>1, <3>1, Zenon
    <3> QED
      BY <2>1, <3>2, Zenon
  <2>4. CASE ~Acts!RowCarrying
    BY <1>10, <2>1, <2>4 DEF Acts!Finish
  <2> QED
    BY <2>2, <2>3, <2>4, Zenon
<1>11. CASE Acts!ArmFails
  BY <1>11, ZenonT(40) DEF Acts!ArmFails, Acts!LockoutCovers
<1>12. CASE Acts!AuditFails
  BY <1>12, ZenonT(40) DEF Acts!AuditFails
<1>13. CASE Acts!StopUnconfirmed
  <2>1. ActsType'
    BY <1>13, ZenonT(40) DEF Acts!StopUnconfirmed
  <2>2. RowInv'
    BY <1>13, Zenon DEF Acts!StopUnconfirmed
  <2>3. SessInv'
    <3>1. /\ pass.act.session \in Sessions /\ sess[pass.act.session] = "active"
          /\ UNCHANGED <<row, sess, charged>>
          /\ row.status = "RUNNING" /\ row.session = pass.act.session => row.act # None
      BY <1>13, Zenon DEF Acts!StopUnconfirmed
    <3>2. CASE UNCHANGED <<live, stopped>>
      BY <3>1, <3>2, Zenon
    <3>3. CASE /\ live' = [live EXCEPT ![pass.act.session] = FALSE]
               /\ stopped' = stopped \cup {pass.act.session}
      <4>1. \A z \in Sessions : ~live[z] => ~live'[z]
        BY <3>1, <3>3, ZenonT(40)
      <4>2. ~live'[pass.act.session]
        BY <3>1, <3>3, ZenonT(40)
      <4> HIDE DEF Acts!Intents, PassInv
      <4> QED
        BY <3>1, <3>3, <4>1, <4>2, Zenon
    <3> QED
      BY <1>13, <3>2, <3>3, Zenon DEF Acts!StopUnconfirmed
  <2>4. PassInv'
    BY <1>13, Zenon DEF Acts!StopUnconfirmed
  <2> QED
    BY <2>1, <2>2, <2>3, <2>4, ZenonT(40)
<1>14. CASE Acts!PersistFails
  BY <1>14, SMTT(40) DEF Acts!PersistFails
<1>15. CASE Acts!QueueWriteFails
  BY <1>15, Zenon DEF Acts!QueueWriteFails
<1>16. CASE Acts!Crash
  BY <1>16, ZenonT(40) DEF Acts!Crash
<1>17. CASE Acts!OperatorRequeue
  <2>1. ActsType'
    BY <1>17, ZenonT(40) DEF Acts!OperatorRequeue
  <2>2. RowInv'
    BY <1>17 DEF Acts!OperatorRequeue
  <2>3. SessInv'
    BY <1>17, Zenon DEF Acts!OperatorRequeue
  <2>4. PassInv'
    BY <1>17, Zenon DEF Acts!OperatorRequeue
  <2> QED
    BY <2>1, <2>2, <2>3, <2>4, Zenon
<1>18. CASE Acts!ClockTick
  BY <1>18 DEF Acts!ClockTick
<1>19. ASSUME NEW b \in {"auto", "park"}, Acts!Decide(b)
      PROVE  ActsInv'
  <2>1. ActsType'
    <3> DEFINE intent == [session |-> pass.act.session, branch |-> b, started |-> acts + 1,
                          until |-> pass.at + Window, audited |-> FALSE]
    <3>1. acts + 1 \in Nat /\ pass.at + Window \in Nat /\ pass.act.session \in Sessions
      BY <1>19 DEF Acts!Decide
    <3>2. intent \in Acts!Intents
      BY <1>19, <3>1, Zenon DEF Acts!Intents
    <3>3. /\ row' = [row EXCEPT !.act = intent]
          /\ UNCHANGED <<sess, live, window, now, stopped>> /\ acts' = acts + 1
      BY <1>19, Zenon DEF Acts!Decide
    <3> HIDE DEF intent
    <3> QED
      BY <3>1, <3>2, <3>3, SMTT(40)
  <2>2. RowInv'
    BY <1>19 DEF Acts!Decide
  <2>3. SessInv'
    BY <1>19, Zenon DEF Acts!Decide
  <2>4. PassInv'
    BY <1>19, SMTT(40) DEF Acts!Decide
  <2> QED
    BY <2>1, <2>2, <2>3, <2>4, Zenon
<1>20. ASSUME NEW s \in Sessions, Acts!Claim(s)
      PROVE  ActsInv'
  <2>1. ActsType'
    BY <1>20, Zenon DEF Acts!Claim
  <2>2. RowInv'
    BY <1>20, ZenonT(40) DEF Acts!Claim
  <2>3. SessInv'
    BY <1>20 DEF Acts!Claim
  <2>4. PassInv'
    BY <1>20, ZenonT(40) DEF Acts!Claim
  <2> QED
    BY <2>1, <2>2, <2>3, <2>4, Zenon
<1>21. ASSUME NEW s \in Sessions, Acts!WorkerDies(s)
      PROVE  ActsInv'
  BY <1>21 DEF Acts!WorkerDies
<1>22. ASSUME NEW s \in Sessions, Acts!RouteResult(s)
      PROVE  ActsInv'
  BY <1>22, ZenonT(40) DEF Acts!RouteResult
<1>23. ASSUME NEW s \in Sessions, Acts!PhantomRevert(s)
      PROVE  ActsInv'
  <2>1. ActsType'
    <3>1. sess' = [sess EXCEPT ![s] = "crashed"] /\ UNCHANGED <<live, now, window, acts, stopped>>
      BY <1>23, Zenon DEF Acts!PhantomRevert
    <3>2. \/ UNCHANGED row
          \/ row' = [row EXCEPT !.status = "PENDING", !.session = None, !.act = None]
      BY <1>23, Zenon DEF Acts!PhantomRevert
    <3> HIDE DEF SessInv, PassInv, RowInv, Acts!Intents
    <3> QED
      BY <3>1, <3>2, ZenonT(40)
  <2>2. RowInv'
    <3>1. CASE row.status = "RUNNING" /\ row.session = s
      <4>1. /\ row' = [row EXCEPT !.status = "PENDING", !.session = None, !.act = None]
            /\ UNCHANGED <<now, window, acts>>
        BY <1>23, <3>1, Zenon DEF Acts!PhantomRevert
      <4>2. row'.status = "PENDING" /\ row'.act = None /\ row'.eligible = row.eligible
        BY <4>1, ZenonT(40) DEF ActsType
      <4> QED
        BY <4>1, <4>2, Zenon DEF RowInv
    <3>2. CASE ~(row.status = "RUNNING" /\ row.session = s)
      BY <1>23, <3>2, ZenonT(40) DEF Acts!PhantomRevert
    <3> QED
      BY <3>1, <3>2, Zenon
  <2>3. SessInv'
    <3>1. /\ sess' = [sess EXCEPT ![s] = "crashed"] /\ sess[s] = "active" /\ ~live[s]
          /\ UNCHANGED <<live, stopped>>
          /\ ~(row.act # None /\ row.act.session = s)
      BY <1>23, Zenon DEF Acts!PhantomRevert
    <3>2. CASE row.status = "RUNNING" /\ row.session = s
      <4>1. row'.status = "PENDING" /\ charged' = charged \cup {s}
        BY <1>23, <3>2, ZenonT(40) DEF Acts!PhantomRevert
      <4>2. s \notin stopped
        BY <3>1, <3>2, Zenon
      <4> QED
        BY <3>1, <4>1, <4>2, ZenonT(40)
    <3>3. CASE ~(row.status = "RUNNING" /\ row.session = s)
      <4>1. UNCHANGED <<row, charged>>
        BY <1>23, <3>3, Zenon DEF Acts!PhantomRevert
      <4> QED
        BY <3>1, <4>1, ZenonT(40)
    <3> QED
      BY <3>2, <3>3, Zenon

  <2>4. PassInv'
    BY <1>23, Zenon DEF Acts!PhantomRevert
  <2> QED
    BY <2>1, <2>2, <2>3, <2>4, Zenon
<1>24. ASSUME NEW s \in Sessions, NEW k \in {"work", "limit", "sentinel"}, Acts!WorkerWrites(s, k)
      PROVE  ActsInv'
  BY <1>24, SMTT(40) DEF Acts!WorkerWrites
<1> HIDE DEF ActsInv
<1> QED
  BY <1>1, <1>2, <1>3, <1>4, <1>5, <1>6, <1>7, <1>8, <1>9, <1>10, <1>11, <1>12, <1>13, <1>14, <1>15, <1>16, <1>17, <1>18, <1>19, <1>20, <1>21, <1>22, <1>23, <1>24, Zenon DEF Acts!Next, Acts!PassStep


\* What the intent's invariant says of a step of the act.
LEMMA ActsStepOwned ==
    ASSUME Acts!ActAssumption, ActsInv, Acts!Next
    PROVE  Acts!ActStep
<1> USE DEF Acts!env, Acts!Goto, Acts!EndPass, Acts!Fault
<1>1. Acts!RequeuesStopped
  <2> SUFFICES ASSUME row.act # None, row'.status = "PENDING", row'.eligible > 0
               PROVE  sess[row.session] \in Acts!Terminal /\ ~live[row.session]
    BY Zenon DEF Acts!RequeuesStopped
  <2>1. row.status = "RUNNING" /\ row.act.session = row.session /\ row.session \in Sessions
    BY Zenon DEF ActsInv, RowInv
  <2>2. row' # row
    BY <2>1, Zenon
  <2>3. ~Acts!OperatorRequeue
    <3>1. Acts!OperatorRequeue => row'.eligible = 0
      BY Zenon DEF ActsInv, ActsType, Acts!OperatorRequeue
    <3> QED
      BY <3>1
  <2>4. \A s \in Sessions : ~Acts!PhantomRevert(s)
    BY <2>1, <2>2, Zenon DEF Acts!PhantomRevert
  <2>5. \A s \in Sessions : ~Acts!Claim(s) /\ ~Acts!RouteResult(s)
    BY <2>1, <2>2, Zenon DEF Acts!Claim, Acts!RouteResult, ActsInv, ActsType
  <2>6. ~Acts!MarkAudited /\ ~Acts!StopCheckTail /\ \A b : ~Acts!Decide(b)
    BY <2>1, <2>2, Zenon DEF Acts!MarkAudited, Acts!StopCheckTail, Acts!Decide, ActsInv, ActsType
  <2>7. Acts!Finish
    BY <2>2, <2>3, <2>4, <2>5, <2>6, Zenon
    DEF Acts!Next, Acts!PassStep, Acts!BeginPass, Acts!DecideNothing, Acts!ArmLockout,
        Acts!AuditEvents, Acts!StopCheckOwner, Acts!StopSurface, Acts!PersistCompleted,
        Acts!ArmFails, Acts!AuditFails, Acts!StopUnconfirmed, Acts!PersistFails,
        Acts!QueueWriteFails, Acts!Crash, Acts!WorkerDies, Acts!WorkerWrites, Acts!ClockTick
  <2>8. Acts!RowCarrying /\ pass.act.branch = "auto" /\ pass.pc = "finish"
    BY <2>2, <2>7, Zenon DEF Acts!Finish, ActsInv, ActsType
  <2>9. sess[row.session] = "usage_limited"
    BY <2>1, <2>8, Zenon DEF Acts!RowCarrying, Acts!Terminal, ActsInv, RowInv, PassInv
  <2> QED
    BY <2>1, <2>9, Zenon DEF Acts!Terminal, ActsInv, SessInv
<1>2. Acts!WritesOwned
  <2> SUFFICES ASSUME pass.pc \in {"mark", "tail", "persist", "finish"}, pass' # pass,
                      <<row, sess>>' # <<row, sess>>
               PROVE  Acts!RowCarrying
    BY Zenon DEF Acts!WritesOwned
  <2>1. Acts!MarkAudited \/ Acts!StopCheckTail \/ Acts!PersistCompleted \/ Acts!Finish \/ Acts!PersistFails
    BY Zenon DEF Acts!Next, Acts!PassStep, Acts!BeginPass, Acts!Decide, Acts!DecideNothing, Acts!ArmLockout,
        Acts!AuditEvents, Acts!StopCheckOwner, Acts!StopSurface, Acts!ArmFails, Acts!AuditFails,
        Acts!StopUnconfirmed, Acts!QueueWriteFails, Acts!Crash, Acts!WorkerDies, Acts!WorkerWrites,
        Acts!ClockTick, Acts!Claim, Acts!RouteResult, Acts!PhantomRevert, Acts!OperatorRequeue
  <2> QED
    BY <2>1, Zenon DEF Acts!MarkAudited, Acts!StopCheckTail, Acts!PersistCompleted, Acts!Finish, Acts!PersistFails
<1> QED
  BY <1>1, <1>2, Zenon DEF Acts!ActStep

\* The invariant gives both halves of the limit's promise.
LEMMA ActsHonour ==
    ASSUME ActsInv
    PROVE  Acts!LimitHonoured
<1>1. Acts!LockoutBeforeRequeue
  BY Zenon DEF Acts!LockoutBeforeRequeue, ActsInv, RowInv
<1>2. Acts!StoppedNeverCharged
  BY Zenon DEF Acts!StoppedNeverCharged, ActsInv, ActsType, SessInv
<1> QED
  BY <1>1, <1>2, Zenon DEF Acts!LimitHonoured

\* The act's invariant, when it is the part that runs.
ActsHold == part = "acts" => ActsInv

LEMMA ActsHoldStep ==
    ASSUME ActsHold, [SessionNext]_<<part, SessionVars>>
    PROVE  ActsHold'
<1>1. CASE SessionNext
  BY <1>1, ActsStep, ActsAssumption, Zenon DEF ActsHold, SessionNext
<1>2. CASE UNCHANGED <<part, SessionVars>>
  <2>1. UNCHANGED part /\ UNCHANGED mVars
    BY <1>2, Zenon DEF SessionVars
  <2>2. ActsInv => ActsInv'
    <3>1. ActsType => ActsType'
      BY <2>1, Zenon DEF mVars, ActsType
    <3>2. RowInv => RowInv'
      BY <2>1, Zenon DEF mVars, RowInv
    <3>3. SessInv => SessInv'
      BY <2>1, Zenon DEF mVars, SessInv
    <3>4. PassInv => PassInv'
      BY <2>1, ZenonT(40) DEF mVars, PassInv
    <3> QED
      BY <3>1, <3>2, <3>3, <3>4, Zenon DEF ActsInv
  <2> QED
    BY <2>1, <2>2, Zenon DEF ActsHold
<1> QED
  BY <1>1, <1>2, Zenon

\* The invariant of the act holds, for every value of the constants.
THEOREM ActsSafe == SessionSpec => []ActsHold
<1>1. SessionInit => ActsHold
  BY ActsInit, ActsAssumption, Zenon DEF SessionInit, ActsHold
<1> QED
  BY <1>1, ActsHoldStep, PTL DEF SessionSpec

\* No row waits for a spawn inside a window that the lockout does not cover, and
\* no session that an act stopped is charged as a crash: for any sessions, any
\* order of the act's steps with the sweeps and the operator, and any faults
\* (_mid_turn_act's intent and its resumption).
THEOREM LimitKept == SessionSpec => []LimitHonoured
<1>1. ActsHold => LimitHonoured
  BY ActsHonour, Zenon DEF ActsHold, LimitHonoured
<1> QED
  BY <1>1, ActsSafe, PTL

\* A step of the act writes only the row that carries its intent and requeues it
\* only once the limited worker is gone, whatever else moves the row in between.
THEOREM ActsOwnTheirRow == SessionSpec => ActsOwned
<1>1. ASSUME ActsHold, [SessionNext]_<<part, SessionVars>>
      PROVE  [part = "acts" => Acts!ActStep]_mVars
  <2>1. CASE UNCHANGED <<part, SessionVars>>
    BY <2>1, Zenon DEF SessionVars
  <2>2. CASE SessionNext
    <3>1. part = "acts" => Acts!Next
      BY <2>2, Zenon DEF SessionNext
    <3> QED
      BY <1>1, <3>1, ActsStepOwned, ActsAssumption, Zenon DEF ActsHold
  <2> QED
    BY <1>1, <2>1, <2>2, Zenon
<1> QED
  BY <1>1, ActsSafe, PTL DEF SessionSpec, ActsOwned
=============================================================================
