--------------------------- MODULE RunQueueProofs ---------------------------
(* The pointers of the run queue make the ring that SchedVM's sequence        *)
(* describes, for every set of processes and every profile.                   *)
EXTENDS RunQueue, SchedVMProofs

\* The place after place i in a ring of n.
After(i, n) == IF i = n THEN 1 ELSE i + 1

LEMMA AfterIsModulo ==
    ASSUME NEW n \in Nat, NEW i \in 1..n
    PROVE  (i % n) + 1 = After(i, n) /\ After(i, n) \in 1..n
BY DEF After

\* The pointers nx and pv lead round the n elements of s.
Cycles(n, s, nx, pv) ==
    \A i \in 1..n : nx[s[i]] = s[After(i, n)] /\ pv[s[After(i, n)]] = s[i]

-----------------------------------------------------------------------------
(* The stores on any ring, each seen at the elements it changes *)

\* An element t goes in after the first.
LEMMA LinkedCycle ==
    ASSUME NEW S, NEW n \in Nat, n > 0, NEW s, \A i \in 1..n : s[i] \in S,
           \A i, j \in 1..n : s[i] = s[j] => i = j, NEW nx, NEW pv, Cycles(n, s, nx, pv),
           NEW t \in S, \A i \in 1..n : s[i] # t,
           NEW r, r[1] = s[1], r[2] = t, \A k \in 2..n : r[k + 1] = s[k],
           NEW nx2, nx2[t] = nx[s[1]], nx2[s[1]] = t,
           \A u \in S \ {t, s[1]} : nx2[u] = nx[u],
           NEW pv2, pv2[t] = s[1], pv2[nx[s[1]]] = t,
           \A u \in S \ {t, nx[s[1]]} : pv2[u] = pv[u]
    PROVE  Cycles(n + 1, r, nx2, pv2)
<1>1. 1 \in 1..n /\ After(1, n) \in 1..n /\ nx[s[1]] = s[After(1, n)]
    BY AfterIsModulo DEF Cycles
<1>2. ASSUME NEW i \in 1..(n + 1)
      PROVE  nx2[r[i]] = r[After(i, n + 1)] /\ pv2[r[After(i, n + 1)]] = r[i]
  <2>1. CASE i = 1
    <3>1. After(i, n + 1) = 2
        BY <2>1 DEF After
    <3> QED
        BY <2>1, <3>1
  <2>2. CASE i = 2
    <3>1. r[After(i, n + 1)] = s[After(1, n)]
      <4>1. CASE n = 1
          BY <2>2, <4>1 DEF After
      <4>2. CASE n # 1
        <5>1. After(i, n + 1) = 2 + 1 /\ After(1, n) = 2 /\ 2 \in 2..n
            BY <2>2, <4>2 DEF After
        <5> QED
            BY <5>1
      <4> QED
          BY <4>1, <4>2
    <3> QED
        BY <1>1, <2>2, <3>1
  <2>3. CASE i > 2
    <3>1. PICK j \in 2..n : i = j + 1
      <4>1. i - 1 \in 2..n /\ i = (i - 1) + 1
          BY <2>3
      <4> QED
          BY <4>1
    <3>2. r[i] = s[j] /\ j \in 1..n /\ After(j, n) \in 1..n
      <4>1. r[i] = s[j]
          BY <3>1
      <4>2. j \in 1..n
          BY <3>1
      <4> QED
          BY <4>1, <4>2, AfterIsModulo
    <3>3. r[After(i, n + 1)] = s[After(j, n)]
      <4>1. CASE j = n
          BY <3>1, <4>1 DEF After
      <4>2. CASE j # n
        <5>1. After(i, n + 1) = (j + 1) + 1 /\ After(j, n) = j + 1 /\ j + 1 \in 2..n
            BY <3>1, <4>2 DEF After
        <5> QED
            BY <5>1
      <4> QED
          BY <4>1, <4>2
    <3>4. nx[s[j]] = s[After(j, n)] /\ pv[s[After(j, n)]] = s[j]
        BY <3>2 DEF Cycles
    <3>5. s[j] # s[1] /\ s[After(j, n)] # s[After(1, n)]
      <4>1. j # 1 /\ After(j, n) # After(1, n)
          BY <3>1 DEF After
      <4> QED
          BY <1>1, <3>2, <4>1
    <3>6. s[j] \in S \ {t, s[1]} /\ s[After(j, n)] \in S \ {t, nx[s[1]]}
        BY <1>1, <3>2, <3>5
    <3>7. nx2[s[j]] = nx[s[j]] /\ pv2[s[After(j, n)]] = pv[s[After(j, n)]]
        BY <3>6
    <3> QED
        BY <3>2, <3>3, <3>4, <3>7
  <2> QED
      BY <2>1, <2>2, <2>3
<1> QED
    BY <1>2 DEF Cycles

\* fw2 is fw, but leads past the element at place i, which comes after bw of it.
LeadsPast(n, s, i, fw, bw, fw2) ==
    /\ n # 1 => fw2[bw[s[i]]] = fw[s[i]]
    /\ \A k \in 1..n : s[k] \notin {s[i], bw[s[i]]} => fw2[s[k]] = fw[s[k]]

\* r is s without its place i.
IsWithout(n, s, i, m, r) ==
    /\ n > 0 /\ m = n - 1 /\ i \in 1..n /\ \A k, j \in 1..n : s[k] = s[j] => k = j
    /\ \A k \in 1..m : r[k] = IF k < i THEN s[k] ELSE s[k + 1]

\* The element at place i goes out, and the ring closes over its place.
LEMMA UnlinkedCycle ==
    ASSUME NEW n \in Nat, NEW m \in Nat, NEW s, NEW r, NEW i, IsWithout(n, s, i, m, r),
           NEW nx, NEW pv, Cycles(n, s, nx, pv), NEW nx2, LeadsPast(n, s, i, nx, pv, nx2),
           NEW pv2, LeadsPast(n, s, i, pv, nx, pv2)
    PROVE  Cycles(m, r, nx2, pv2)
<1>0. /\ n > 0 /\ m = n - 1 /\ i \in 1..n /\ \A k, j \in 1..n : s[k] = s[j] => k = j
      /\ \A k \in 1..m : r[k] = IF k < i THEN s[k] ELSE s[k + 1]
    BY DEF IsWithout
<1> SUFFICES ASSUME NEW k \in 1..m
             PROVE  nx2[r[k]] = r[After(k, m)] /\ pv2[r[After(k, m)]] = r[k]
    BY DEF Cycles
<1>1. PICK a \in 1..n : a = IF k < i THEN k ELSE k + 1
  <2>1. k \in 1..n /\ k + 1 \in 1..n
      BY <1>0
  <2> QED
      BY <2>1
<1>2. PICK b \in 1..n : b = IF After(k, m) < i THEN After(k, m) ELSE After(k, m) + 1
  <2>1. After(k, m) \in 1..m
      BY AfterIsModulo
  <2>2. After(k, m) \in 1..n /\ After(k, m) + 1 \in 1..n
      BY <1>0, <2>1
  <2> QED
      BY <2>2
<1>3. r[k] = s[a] /\ r[After(k, m)] = s[b]
    BY <1>0, <1>1, <1>2, AfterIsModulo
<1>4. a # i /\ b # i /\ n # 1
  <2>1. After(k, m) \in 1..m
      BY AfterIsModulo
  <2>2. a # i /\ b # i
      BY <1>0, <1>1, <1>2, <2>1
  <2>3. n # 1
      BY <1>0
  <2> QED
      BY <2>2, <2>3
<1>5. \/ b = After(a, n)
      \/ i = After(a, n) /\ b = After(i, n)
    BY <1>0, <1>1, <1>2 DEF After
<1>6. CASE b = After(a, n)
  <2>1. nx[s[a]] = s[b] /\ pv[s[b]] = s[a]
      BY <1>6 DEF Cycles
  <2>2. pv[s[i]] # s[a] /\ nx[s[i]] # s[b]
    <3>1. PICK p \in 1..n : i = After(p, n)
      <4>1. (IF i = 1 THEN n ELSE i - 1) \in 1..n
          BY <1>0
      <4>2. i = After(IF i = 1 THEN n ELSE i - 1, n)
          BY <1>0 DEF After
      <4> QED
          BY <4>1, <4>2
    <3>2. pv[s[i]] = s[p] /\ nx[s[i]] = s[After(i, n)] /\ After(i, n) \in 1..n
        BY <1>0, <3>1, AfterIsModulo DEF Cycles
    <3>3. p # a /\ After(i, n) # b
        BY <1>0, <1>4, <1>6, <3>1 DEF After
    <3> QED
        BY <1>0, <3>2, <3>3
  <2>3. s[a] \notin {s[i], pv[s[i]]} /\ s[b] \notin {s[i], nx[s[i]]}
      BY <1>0, <1>4, <2>2
  <2> QED
      BY <1>3, <2>1, <2>3 DEF LeadsPast
<1>7. CASE i = After(a, n) /\ b = After(i, n)
  <2>1. pv[s[i]] = s[a] /\ nx[s[i]] = s[b]
      BY <1>0, <1>7 DEF Cycles
  <2> QED
      BY <1>3, <1>4, <2>1 DEF LeadsPast
<1> QED
    BY <1>5, <1>6, <1>7

-----------------------------------------------------------------------------
(* What a step of SchedVM does to the run queue *)

Inserts(t) == rq # <<>> /\ t \in Tasks /\ ~InRing(t) /\ rq' = InsertAt(rq, 2, t)
Removes(i) == i \in 1..Len(rq) /\ rq' = RemoveAt(rq, i)

LEMMA UnlinkRemoves ==
    ASSUME Unlink(current) PROVE \E i \in Nat : Removes(i)
BY DEF Unlink, Removes

LEMMA RingSteps ==
    ASSUME IInv, [Next]_vars
    PROVE  rq' = rq \/ (\E t \in Tasks : Inserts(t)) \/ (\E i \in Nat : Removes(i))
<1>1. CASE UNCHANGED vars
    BY <1>1 DEF vars, queue
<1>2. CASE Cycle
  <2>1. CASE Exit
      BY <2>1, UnlinkRemoves DEF Exit
  <2>2. CASE KeepRunning
      BY <2>2 DEF KeepRunning, queue
  <2>3. CASE Sleep
      BY <2>3, UnlinkRemoves DEF Sleep
  <2> QED
      BY <1>2, <2>1, <2>2, <2>3 DEF Cycle
<1>3. CASE Spawn
  <2>1. CASE SpawnDone
      BY <2>1 DEF SpawnDone, queue
  <2>2. ASSUME NEW c \in Procs, Fork(c) PROVE Inserts(c) /\ c \in Tasks
    <3>1. c \in unspawned /\ rq' = InsertAt(rq, 2, c)
        BY <2>2 DEF Fork, Enqueue, Due
    <3>2. c \notin ToSet(rq)
        BY <3>1 DEF IInv, QueueInv, QueuesHoldLiveTasksOnce
    <3>3. InitTask \in alive
        BY <2>2, AliveHasInit DEF Fork, IInv, ControlInv, FamilyInv
    <3>4. rq # <<>>
        BY <3>3, InitIsQueued DEF IInv
    <3> QED
        BY <3>1, <3>2, <3>4 DEF Inserts, InRing, Tasks
  <2> QED
      BY <1>3, <2>1, <2>2 DEF Spawn
<1>4. CASE Interrupt
  <2>1. CASE TickCountdown \/ TickFires \/ IoCountdown \/ IoEvent \/ WakeDone
      BY <2>1 DEF TickCountdown, TickFires, IoCountdown, IoEvent, WakeDone, queue
  <2>2. ASSUME WakeOne PROVE \E t \in Tasks : Inserts(t)
    <3>1. PICK t : t = Head(intwaitlist)
        OBVIOUS
    <3>2. intwaitlist # <<>> /\ rq' = InsertAt(rq, 2, t)
        BY <2>2, <3>1 DEF WakeOne, Enqueue
    <3>3. t \in Procs /\ t \in ToSet(intwaitlist)
        BY <3>1, <3>2, TailMembers DEF IInv, TypeOK, QueueInv, QueuesHoldLiveTasksOnce
    <3>4. t \in alive /\ t \notin ToSet(rq)
        BY <3>3 DEF IInv, QueueInv, QueuesHoldLiveTasksOnce
    <3>5. InitTask \in alive
        BY <3>4, AliveHasInit DEF IInv, FamilyInv
    <3>6. rq # <<>>
        BY <3>5, InitIsQueued DEF IInv
    <3> QED
        BY <3>2, <3>3, <3>4, <3>6 DEF Inserts, InRing, Tasks
  <2> QED
      BY <1>4, <2>1, <2>2 DEF Interrupt
<1>5. CASE Finish
  <2>1. rq' = rq
      BY <1>5 DEF Finish, NoReschedule, Reschedule, RescheduleEmpty, EndCycle, EndCycleFreed, queue
  <2> QED
      BY <2>1
<1>6. CASE Stopped
    BY <1>6 DEF Stopped, vars, queue
<1> QED
    BY <1>1, <1>2, <1>3, <1>4, <1>5, <1>6 DEF Next

-----------------------------------------------------------------------------
(* The invariant of the pointers *)

Nodes == Tasks \cup {IdleTask}

\* The pointers are those of the ring, and NULL outside it.
RingInv ==
    /\ next \in [Nodes -> Nodes \cup {Null}] /\ prev \in [Nodes -> Nodes \cup {Null}]
    /\ Cycles(Len(rq), rq, next, prev)
    /\ \A t \in Nodes : InRing(t) <=> (next[t] # Null /\ prev[t] # Null)

LEMMA InitRing == Init /\ RingInit => RingInv
<1> SUFFICES ASSUME Init, RingInit PROVE RingInv
    OBVIOUS
<1>1. rq = <<InitTask>> /\ Len(rq) = 1 /\ rq[1] = InitTask /\ InitTask \in Nodes
    BY DEF Init, Nodes, Tasks
<1>2. /\ next \in [Nodes -> Nodes \cup {Null}] /\ prev = next
      /\ \A t \in Nodes : next[t] = IF t = InitTask THEN InitTask ELSE Null
    BY <1>1 DEF RingInit, Nodes
<1>3. \A t \in Nodes : InRing(t) <=> t = InitTask
    BY <1>1 DEF InRing, ToSet
<1>4. Cycles(Len(rq), rq, next, prev)
    BY <1>1, <1>2 DEF Cycles, After
<1>5. InitTask # Null
    BY <1>1, NullAssumption DEF Nodes
<1> QED
    BY <1>2, <1>3, <1>4, <1>5 DEF RingInv

\* The ring before a step, place by place.
LEMMA RingFacts ==
    ASSUME IInv, RingInv
    PROVE  /\ rq \in Seq(Tasks) /\ Len(rq) \in Nat /\ Tasks \subseteq Nodes /\ Null \notin Nodes
           /\ \A i \in 1..Len(rq) : rq[i] \in Tasks /\ InRing(rq[i])
           /\ \A i, j \in 1..Len(rq) : rq[i] = rq[j] => i = j
           /\ \A i \in 1..Len(rq) : /\ next[rq[i]] \in Tasks /\ InRing(next[rq[i]])
                                    /\ prev[rq[i]] \in Tasks /\ InRing(prev[rq[i]])
<1>1. rq \in Seq(Tasks) /\ IsInjective(rq) /\ Len(rq) \in Nat
    BY DEF IInv, TypeOK, QueueInv, QueuesHoldLiveTasksOnce
<1>2. /\ \A i \in 1..Len(rq) : rq[i] \in Tasks /\ InRing(rq[i])
      /\ \A i, j \in 1..Len(rq) : rq[i] = rq[j] => i = j
    BY <1>1 DEF IsInjective, InRing, ToSet
<1>3. ASSUME NEW i \in 1..Len(rq)
      PROVE  /\ next[rq[i]] \in Tasks /\ InRing(next[rq[i]])
             /\ prev[rq[i]] \in Tasks /\ InRing(prev[rq[i]])
  <2>1. next[rq[i]] = rq[After(i, Len(rq))] /\ After(i, Len(rq)) \in 1..Len(rq)
      BY <1>1, AfterIsModulo DEF RingInv, Cycles
  <2>2. PICK p \in 1..Len(rq) : i = After(p, Len(rq))
    <3>1. (IF i = 1 THEN Len(rq) ELSE i - 1) \in 1..Len(rq)
        BY <1>1
    <3>2. i = After(IF i = 1 THEN Len(rq) ELSE i - 1, Len(rq))
        BY <1>1 DEF After
    <3> QED
        BY <3>1, <3>2
  <2>3. prev[rq[i]] = rq[p]
      BY <2>2 DEF RingInv, Cycles
  <2> QED
      BY <1>2, <2>1, <2>3
<1> QED
    BY <1>1, <1>2, <1>3, NullAssumption DEF Nodes

\* A task is queued: the pointers follow.
LEMMA InsertStep ==
    ASSUME IInv, RingInv, NEW t \in Tasks, Inserts(t), Pointers
    PROVE  RingInv'
<1>1. PICK n \in Nat : n = Len(rq)
    BY RingFacts
<1>2. /\ n > 0 /\ rq \in Seq(Tasks) /\ Tasks \subseteq Nodes /\ Null \notin Nodes
      /\ \A i \in 1..n : rq[i] \in Tasks
      /\ \A i, j \in 1..n : rq[i] = rq[j] => i = j
      /\ next[rq[1]] \in Tasks /\ InRing(next[rq[1]]) /\ rq[1] \in Tasks /\ InRing(rq[1])
  <2>1. rq \in Seq(Tasks) /\ rq # <<>>
      BY RingFacts DEF Inserts
  <2>2. n > 0 /\ 1 \in 1..n
      BY <1>1, <2>1
  <2> QED
      BY <1>1, <2>1, <2>2, RingFacts
<1>3. rq[1] = InitTask /\ ~InRing(t) /\ rq' = InsertAt(rq, 2, t)
    BY DEF Inserts, IInv, QueueInv, HeadIsInitAndCountExact
<1>4. /\ Len(rq') = n + 1 /\ rq'[1] = rq[1] /\ rq'[2] = t
      /\ \A k \in 2..n : rq'[k + 1] = rq[k]
  <2>1. 2 \in 1..(Len(rq) + 1)
      BY <1>1, <1>2
  <2>2. /\ Len(rq') = Len(rq) + 1
        /\ \A k \in 1..Len(rq') :
              rq'[k] = IF k < 2 THEN rq[k] ELSE IF k = 2 THEN t ELSE rq[k - 1]
      BY <1>2, <1>3, <2>1, InsertAtPosition
  <2>3. Len(rq') = n + 1
      BY <1>1, <2>2
  <2>4. \A k \in 1..(n + 1) : rq'[k] = IF k < 2 THEN rq[k] ELSE IF k = 2 THEN t ELSE rq[k - 1]
      BY <2>2, <2>3
  <2>5. 1 \in 1..(n + 1) /\ 2 \in 1..(n + 1) /\ \A k \in 2..n : k + 1 \in 1..(n + 1)
      BY <1>2
  <2>6. ASSUME NEW k \in 2..n PROVE rq'[k + 1] = rq[k]
    <3>1. ~(k + 1 < 2) /\ k + 1 # 2 /\ (k + 1) - 1 = k /\ k + 1 \in 1..(n + 1)
        BY <2>5
    <3> QED
        BY <2>4, <3>1
  <2> QED
      BY <2>3, <2>4, <2>5, <2>6
<1>5. \A u \in Nodes : InRing(u)' <=> InRing(u) \/ u = t
  <2>1. 2 \in 1..(Len(rq) + 1)
      BY <1>1, <1>2
  <2>2. ToSet(rq') = ToSet(rq) \cup {t}
      BY <1>2, <1>3, <2>1, InsertPositionMembers
  <2> QED
      BY <2>2 DEF InRing
<1>6. LinkAfterHead(t)
  <2>1. t \in Nodes /\ InRing(t)'
      BY <1>2, <1>5
  <2>2. \A u \in Tasks : (Queued(u) => u = t) /\ ~Unqueued(u)
      BY <1>2, <1>5 DEF Queued, Unqueued
  <2>3. rq' # rq
      BY <1>3, <2>1 DEF InRing
  <2> QED
      BY <2>2, <2>3 DEF Pointers
<1>7. PICK a : a = next[rq[1]]
    OBVIOUS
<1>8. a \in Tasks /\ InRing(a) /\ a # t /\ rq[1] # t /\ t \in Nodes
    BY <1>2, <1>3, <1>7
<1>9. /\ next' \in [Nodes -> Nodes \cup {Null}] /\ next'[t] = a /\ next'[rq[1]] = t
      /\ \A u \in Nodes \ {t, rq[1]} : next'[u] = next[u]
    BY <1>2, <1>3, <1>6, <1>7, <1>8 DEF LinkAfterHead, RingInv
<1>10. /\ prev' \in [Nodes -> Nodes \cup {Null}] /\ prev'[t] = rq[1] /\ prev'[a] = t
       /\ \A u \in Nodes \ {t, a} : prev'[u] = prev[u]
    BY <1>2, <1>3, <1>6, <1>7, <1>8 DEF LinkAfterHead, RingInv
<1>11. Cycles(n + 1, rq', next', prev')
  <2>1. \A i \in 1..n : rq[i] # t
      BY <1>1, <1>3, RingFacts
  <2>2. Cycles(n, rq, next, prev)
      BY <1>1 DEF RingInv
  <2> QED
      BY <1>2, <1>4, <1>7, <1>8, <1>9, <1>10, <2>1, <2>2, LinkedCycle
<1>12. ASSUME NEW u \in Nodes PROVE InRing(u)' <=> (next'[u] # Null /\ prev'[u] # Null)
  <2>1. InRing(u) <=> (next[u] # Null /\ prev[u] # Null)
      BY DEF RingInv
  <2>2. t # Null /\ a # Null /\ rq[1] # Null
      BY <1>2, <1>8
  <2> QED
      BY <1>2, <1>5, <1>8, <1>9, <1>10, <2>1, <2>2
<1> QED
    BY <1>4, <1>9, <1>10, <1>11, <1>12 DEF RingInv

\* A task is unqueued: the ring closes over it and its own pointers are cleared.
LEMMA RemoveStep ==
    ASSUME IInv, RingInv, NEW i \in Nat, Removes(i), Pointers
    PROVE  RingInv'
<1>1. PICK n \in Nat : n = Len(rq)
    BY RingFacts
<1>2. PICK m \in Nat : m = n - 1 /\ n > 0
  <2>1. n - 1 \in Nat /\ n > 0
      BY <1>1 DEF Removes
  <2> QED
      BY <2>1
<1>3. /\ i \in 1..n /\ rq' = RemoveAt(rq, i) /\ rq \in Seq(Tasks) /\ IsInjective(rq)
      /\ Tasks \subseteq Nodes /\ Null \notin Nodes
      /\ \A k \in 1..n : rq[k] \in Tasks
      /\ \A k, j \in 1..n : rq[k] = rq[j] => k = j
    BY <1>1, RingFacts DEF Removes, IInv, QueueInv, QueuesHoldLiveTasksOnce
<1>4. PICK t \in Tasks : t = rq[i]
    BY <1>3
<1>5. PICK a \in Tasks : a = next[t] /\ InRing(a)
    BY <1>1, <1>3, <1>4, RingFacts
<1>6. PICK b \in Tasks : b = prev[t] /\ InRing(b)
    BY <1>1, <1>3, <1>4, RingFacts
<1>7. Len(rq') = m /\ \A k \in 1..m : rq'[k] = IF k < i THEN rq[k] ELSE rq[k + 1]
  <2>1. rq' = SubSeq(rq, 1, i - 1) \o SubSeq(rq, i + 1, Len(rq)) /\ i \in 1..Len(rq)
      BY <1>1, <1>3 DEF RemoveAt
  <2>2. rq \in Seq(Tasks)
      BY <1>3
  <2>3. /\ Len(rq') = Len(rq) - 1
        /\ \A k \in 1..Len(rq') : rq'[k] = IF k < i THEN rq[k] ELSE rq[k + 1]
      BY <2>1, <2>2, RemoveAtPosition
  <2> QED
      BY <1>1, <1>2, <2>3
<1>8. \A u \in Nodes : InRing(u)' <=> InRing(u) /\ u # t
  <2>1. ToSet(rq') = ToSet(rq) \ {t}
      BY <1>1, <1>3, <1>4, RemovePositionMembers
  <2> QED
      BY <2>1 DEF InRing
<1>9. UnlinkPointers(t)
  <2>1. InRing(t) /\ ~InRing(t)'
      BY <1>1, <1>3, <1>4, <1>8, RingFacts
  <2>2. \A u \in Tasks : ~Queued(u) /\ (Unqueued(u) => u = t)
      BY <1>3, <1>8 DEF Queued, Unqueued
  <2>3. rq' # rq
      BY <2>1 DEF InRing
  <2> QED
      BY <2>2, <2>3 DEF Pointers
<1>10. a = t <=> n = 1
  <2>1. a = rq[After(i, n)] /\ After(i, n) \in 1..n
      BY <1>1, <1>3, <1>4, <1>5, AfterIsModulo DEF RingInv, Cycles
  <2>2. a = t <=> After(i, n) = i
      BY <1>3, <1>4, <2>1
  <2>3. After(i, n) = i <=> n = 1
      BY <1>2, <1>3 DEF After
  <2> QED
      BY <2>2, <2>3
<1>11. b = t <=> n = 1
  <2>1. ASSUME a = t PROVE b = t
    <3>1. n = 1 /\ i = 1 /\ After(1, 1) = 1
        BY <1>3, <1>10, <2>1 DEF After
    <3>2. Cycles(1, rq, next, prev)
        BY <1>1, <3>1 DEF RingInv
    <3>3. prev[rq[1]] = rq[1]
        BY <3>1, <3>2 DEF Cycles
    <3> QED
        BY <1>4, <1>6, <3>1, <3>3
  <2>2. b = t => a = t
    <3>1. PICK p \in 1..n : i = After(p, n)
      <4>1. (IF i = 1 THEN n ELSE i - 1) \in 1..n
          BY <1>3
      <4>2. i = After(IF i = 1 THEN n ELSE i - 1, n)
          BY <1>3 DEF After
      <4> QED
          BY <4>1, <4>2
    <3>2. b = rq[p] /\ next[rq[p]] = t
        BY <1>1, <1>4, <1>6, <3>1 DEF RingInv, Cycles
    <3> QED
        BY <1>5, <3>2
  <2> QED
      BY <1>10, <2>1, <2>2
<1>12. /\ next' \in [Nodes -> Nodes \cup {Null}] /\ next'[t] = Null
       /\ n # 1 => next'[b] = a
       /\ \A u \in Nodes \ {t, b} : next'[u] = next[u]
    BY <1>3, <1>5, <1>6, <1>9, <1>11 DEF UnlinkPointers, RingInv
<1>13. /\ prev' \in [Nodes -> Nodes \cup {Null}] /\ prev'[t] = Null
       /\ n # 1 => prev'[a] = b
       /\ \A u \in Nodes \ {t, a} : prev'[u] = prev[u]
    BY <1>3, <1>5, <1>6, <1>9, <1>10 DEF UnlinkPointers, RingInv
<1>14. Cycles(m, rq', next', prev')
  <2>1. Cycles(n, rq, next, prev)
      BY <1>1 DEF RingInv
  <2>2. LeadsPast(n, rq, i, next, prev, next')
      BY <1>3, <1>4, <1>5, <1>6, <1>12 DEF LeadsPast
  <2>3. LeadsPast(n, rq, i, prev, next, prev')
      BY <1>3, <1>4, <1>5, <1>6, <1>13 DEF LeadsPast
  <2>4. IsWithout(n, rq, i, m, rq')
      BY <1>2, <1>3, <1>7 DEF IsWithout
  <2> QED
      BY <2>1, <2>2, <2>3, <2>4, UnlinkedCycle
<1>15. ASSUME NEW u \in Nodes PROVE InRing(u)' <=> (next'[u] # Null /\ prev'[u] # Null)
  <2>1. InRing(u) <=> (next[u] # Null /\ prev[u] # Null)
      BY DEF RingInv
  <2>2. a # Null /\ b # Null
      BY <1>3
  <2> QED
      BY <1>3, <1>5, <1>6, <1>8, <1>10, <1>11, <1>12, <1>13, <2>1, <2>2
<1> QED
    BY <1>7, <1>12, <1>13, <1>14, <1>15 DEF RingInv

LEMMA RingStep == IInv /\ RingInv /\ [Next /\ Pointers]_ringVars => RingInv'
<1> SUFFICES ASSUME IInv, RingInv, [Next /\ Pointers]_ringVars PROVE RingInv'
    OBVIOUS
<1>1. CASE rq' = rq /\ UNCHANGED <<next, prev>>
    BY <1>1 DEF RingInv, InRing, Cycles
<1>2. CASE Next /\ Pointers /\ rq' = rq
  <2>1. \A t \in Tasks : ~Queued(t) /\ ~Unqueued(t)
      BY <1>2 DEF Queued, Unqueued, InRing
  <2> QED
      BY <1>1, <1>2, <2>1 DEF Pointers
<1>3. CASE Next /\ Pointers /\ rq' # rq
    BY <1>3, RingSteps, InsertStep, RemoveStep
<1>4. CASE UNCHANGED ringVars
    BY <1>1, <1>4 DEF ringVars, vars, queue
<1> QED
    BY <1>2, <1>3, <1>4

LEMMA RingIsPointers == IInv /\ RingInv => PointersAreTheRing
<1> SUFFICES ASSUME IInv, RingInv PROVE PointersAreTheRing
    OBVIOUS
<1>1. ASSUME NEW i \in 1..Len(rq), NEW after, after = rq[(i % Len(rq)) + 1]
      PROVE  next[rq[i]] = after /\ prev[after] = rq[i]
  <2>1. (i % Len(rq)) + 1 = After(i, Len(rq))
      BY RingFacts, AfterIsModulo
  <2> QED
      BY <1>1, <2>1 DEF RingInv, Cycles
<1> QED
    BY <1>1 DEF PointersAreTheRing, RingInv, Nodes

\* The four pointer stores of wake_up_new_task, activate_task and deactivate_task
\* keep one circular list, both ways, from rq->head, of exactly the queued tasks, in
\* the order of the sequence SchedVM's theorems are about; and next is NULL for a
\* task exactly when it is not queued.
THEOREM RingOfPointers == RingSpec => []PointersAreTheRing
<1>1. Init /\ RingInit => IInv /\ RingInv
    BY InitIInv, InitRing
<1>2. IInv /\ RingInv /\ [Next /\ Pointers]_ringVars => IInv' /\ RingInv'
  <2>1. [Next /\ Pointers]_ringVars => [Next]_vars
      BY DEF ringVars
  <2> QED
      BY <2>1, NextIInv, RingStep
<1> QED
    BY <1>1, <1>2, RingIsPointers, PTL DEF RingSpec
=============================================================================
