--------------------------- MODULE SchedVMProofs ---------------------------
(* What holds of SchedVM for every set of processes, every set of profiles    *)
(* whose parents form a tree, and every choice of times.                      *)
EXTENDS SchedVM, SequenceLemmas, FiniteSetTheorems

-----------------------------------------------------------------------------
(* Facts about single states *)

\* The clock and the averages of sjf_lib.c stay within the natural numbers.
LEMMA ClockType ==
    ASSUME NEW j \in Nat
    PROVE  sched_clock(j) \in Nat /\ sched_clock(j) <= sched_clock(j + 1)
<1>1. NsPerJiffy \in Nat
    BY TimeAssumption
<1>2. (j + 1) * NsPerJiffy = j * NsPerJiffy + NsPerJiffy /\ j * NsPerJiffy \in Nat
    BY <1>1
<1> QED
    BY <1>1, <1>2 DEF sched_clock

LEMMA AcctType ==
    ASSUME NEW j \in Nat, NEW a,
           a \in [exp_burst: Nat, waiting_in_rq: Nat, process_start_time: Nat],
           a.process_start_time <= sched_clock(j)
    PROVE  CalcWaiting(a, j) \in Nat /\ CalcExpBurst(a, j) \in Nat
<1> DEFINE now == sched_clock(j)
<1>1. now \in Nat
    BY ClockType
<1> HIDE DEF now
<1>2. 2 * (now - a.process_start_time) + a.exp_burst \in Nat
    BY <1>1 DEF now
<1>3. \A n \in Nat : n \div 3 \in Nat
    OBVIOUS
<1> QED
    BY <1>1, <1>2, <1>3 DEF CalcWaiting, CalcExpBurst, now

LEMMA ProfileType ==
    ASSUME TypeOK, NEW t \in Procs
    PROVE  /\ profile[t].parent \in Tasks /\ profile[t].work_duration \in Nat \cup {-1}
           /\ profile[t] \in Info
<1>1. profile \in [Procs -> Info]
    BY ProfileAssumption DEF TypeOK
<1> QED
    BY <1>1 DEF Info, Tasks

\* As long as a task is allocated, Init is: the parents form a tree under it.
LEMMA AliveHasInit ==
    ASSUME TypeOK, ParentOutlivesChild, alive # {}
    PROVE  InitTask \in alive
<1>1. CASE alive \cap Procs = {}
    BY <1>1 DEF TypeOK, Tasks
<1>2. CASE alive \cap Procs # {}
  <2>1. PICK t \in alive \cap Procs : profile[t].parent \notin alive \cap Procs
      BY <1>2, ProfileAssumption DEF TypeOK
  <2>2. profile[t].parent \in alive /\ profile[t].parent \in Tasks
      BY <2>1, ProfileType DEF ParentOutlivesChild
  <2> QED
      BY <2>1, <2>2 DEF Tasks
<1> QED
    BY <1>1, <1>2

\* While Init is allocated the ring is not empty, and Init is its head.
LEMMA InitIsQueued ==
    ASSUME TypeOK, QueueInv, InitTask \in alive
    PROVE  rq # <<>> /\ rq[1] = InitTask /\ InRing(InitTask)
<1>1. InitTask \notin ToSet(intwaitlist)
  <2>1. intwaitlist \in Seq(Procs)
      BY DEF TypeOK
  <2> QED
      BY <2>1, TaskAssumption DEF ToSet
<1>2. InitTask \in ToSet(rq)
    BY <1>1 DEF QueueInv, QueuesHoldLiveTasksOnce
<1>3. rq # <<>>
    BY <1>2 DEF ToSet
<1> QED
    BY <1>2, <1>3 DEF QueueInv, HeadIsInitAndCountExact, InRing

\* A position in the ring exists for every task in it.
LEMMA RingPosition ==
    ASSUME TypeOK, QueueInv, NEW t, InRing(t)
    PROVE  \E i \in 1..Len(rq) : rq[i] = t
BY DEF TypeOK, InRing, ToSet

\* The number of live children is a natural number, and positive for the parent
\* of a live process.
LEMMA ChildrenFinite ==
    ASSUME NEW p
    PROVE  /\ IsFiniteSet({t \in alive \cap Procs : profile[t].parent = p})
           /\ Cardinality({t \in alive \cap Procs : profile[t].parent = p}) \in Nat
<1> DEFINE K == {t \in alive \cap Procs : profile[t].parent = p}
<1>1. IsFiniteSet(K)
    BY TaskAssumption, FS_Subset
<1>2. Cardinality(K) \in Nat
    BY <1>1, FS_CardinalityType
<1> QED
    BY <1>1, <1>2

LEMMA HasChild ==
    ASSUME TypeOK, FamilyInv, NEW t \in alive \cap Procs
    PROVE  children[profile[t].parent] \in Nat \ {0}
<1> DEFINE p == profile[t].parent
           K == {u \in alive \cap Procs : profile[u].parent = p}
<1>1. IsFiniteSet(K) /\ Cardinality(K) \in Nat
    BY ChildrenFinite
<1>2. Cardinality(K) # 0
  <2>1. t \in K
      OBVIOUS
  <2> QED
      BY <1>1, <2>1, FS_EmptySet
<1>3. children[p] = Cardinality(K)
    BY ProfileType DEF FamilyInv, ChildCountExact
<1> QED
    BY <1>1, <1>2, <1>3

\* A task without children in the count has none among the live processes; when
\* that task is Init, no process is alive.
LEMMA NoChild ==
    ASSUME TypeOK, FamilyInv, NEW p \in Tasks, children[p] = 0
    PROVE  \A t \in alive \cap Procs : profile[t].parent # p
<1> SUFFICES ASSUME NEW t \in alive \cap Procs, profile[t].parent = p
             PROVE  FALSE
    OBVIOUS
<1> QED
    BY HasChild

LEMMA NoChildOfInit ==
    ASSUME TypeOK, FamilyInv, children[InitTask] = 0
    PROVE  alive \cap Procs = {}
<1> SUFFICES ASSUME alive \cap Procs # {} PROVE FALSE
    OBVIOUS
<1>1. PICK t \in alive \cap Procs : profile[t].parent \notin alive \cap Procs
    BY ProfileAssumption DEF TypeOK
<1>2. profile[t].parent \in alive /\ profile[t].parent \in Tasks
    BY ProfileType DEF FamilyInv, ParentOutlivesChild
<1>3. profile[t].parent = InitTask
    BY <1>1, <1>2 DEF Tasks
<1> QED
    BY <1>3, NoChild DEF Tasks

-----------------------------------------------------------------------------
(* Schedule, the operator two actions share *)

\* What schedule() leaves behind, when the ring it reads is sound.
LEMMA ScheduleEffect ==
    ASSUME TypeOK, QueueInv, TimesInPast, ControlInv, nr_running # 0,
           NEW j \in Nat, sched_clock(jiffies) <= sched_clock(j),
           Schedule(j), UNCHANGED rq
    PROVE  /\ current' \in Tasks /\ InRing(current')
           /\ current' = InitTask => nr_running = 1
           /\ need_reschedule' = {}
           /\ intWaitTimer' \in Nat \cup {-1}
           /\ acct' \in [Procs -> [exp_burst: Nat, waiting_in_rq: Nat, process_start_time: Nat]]
           /\ \A t \in Procs : /\ acct'[t].process_start_time <= sched_clock(j)
                               /\ acct'[t].waiting_in_rq <= sched_clock(j)
<1> DEFINE Acct == [exp_burst: Nat, waiting_in_rq: Nat, process_start_time: Nat]
           Past(a) == \A t \in Procs : /\ a[t].process_start_time <= sched_clock(j)
                                       /\ a[t].waiting_in_rq <= sched_clock(j)
<1>1. sched_clock(j) \in Nat /\ sched_clock(jiffies) \in Nat
    BY ClockType DEF TypeOK
<1>2. acct \in [Procs -> Acct] /\ Past(acct)
  <2>1. acct \in [Procs -> Acct]
      BY DEF TypeOK
  <2> QED
      BY <1>1, <2>1 DEF TimesInPast
<1>3. Accounted(j) \in [Procs -> Acct] /\ Past(Accounted(j))
  <2>1. CASE current \in Procs
    <3> DEFINE w == CalcWaiting(acct[current], j)
               e == CalcExpBurst(acct[current], j)
    <3>1. w \in Nat /\ e \in Nat
        BY <1>2, <2>1, AcctType
    <3>2. w <= sched_clock(j)
        BY <1>1, <1>2, <2>1 DEF CalcWaiting
    <3>3. Accounted(j) = [acct EXCEPT ![current].waiting_in_rq = w, ![current].exp_burst = e]
        BY <2>1 DEF Accounted
    <3> HIDE DEF w, e
    <3>4. \A t \in Procs :
             Accounted(j)[t] = IF t = current
                               THEN [acct[t] EXCEPT !.waiting_in_rq = w, !.exp_burst = e]
                               ELSE acct[t]
        BY <1>2, <2>1, <3>3
    <3>5. \A t \in Procs :
             /\ Accounted(j)[t] \in Acct
             /\ Accounted(j)[t].process_start_time = acct[t].process_start_time
             /\ Accounted(j)[t].waiting_in_rq \in {w, acct[t].waiting_in_rq}
      <4> TAKE t \in Procs
      <4>1. acct[t] \in Acct
          BY <1>2
      <4>2. [acct[t] EXCEPT !.waiting_in_rq = w, !.exp_burst = e] \in Acct
          BY <3>1, <4>1
      <4> QED
          BY <3>4, <4>1, <4>2
    <3>6. Accounted(j) = [t \in Procs |-> Accounted(j)[t]]
        BY <1>2, <3>3
    <3> QED
        BY <1>2, <3>2, <3>5, <3>6
  <2>2. CASE current \notin Procs
      BY <1>2, <2>2 DEF Accounted
  <2> QED
      BY <2>1, <2>2
<1>4. need_reschedule' = {}
    BY DEF Schedule, ResetFlag, ControlInv
<1>5. nr_running = Len(rq) /\ rq \in Seq(Tasks) /\ rq # <<>> /\ rq[1] = InitTask
    BY DEF TypeOK, QueueInv, HeadIsInitAndCountExact
<1>6. \A i \in 1..Len(rq) : rq[i] \in Tasks /\ InRing(rq[i])
    BY <1>5 DEF InRing, ToSet
<1>7. ASSUME NEW t, ContextSwitch(t)
      PROVE  current' = t /\ intWaitTimer' \in Nat \cup {-1}
    BY <1>7, TimeAssumption DEF ContextSwitch, TypeOK
<1>8. CASE nr_running = 1 /\ ContextSwitch(rq[1]) /\ UNCHANGED acct
  <2>1. current' = rq[1] /\ intWaitTimer' \in Nat \cup {-1}
      BY <1>7, <1>8
  <2> QED
      BY <1>2, <1>4, <1>5, <1>6, <1>8, <2>1
<1>9. ASSUME NEW i \in 2..Len(rq), nr_running # 1,
             IF rq[i] = current
             THEN UNCHANGED <<current, intWaitTimer, acct>>
             ELSE /\ ContextSwitch(rq[i])
                  /\ acct' = [Accounted(j) EXCEPT
                                 ![rq[i]].process_start_time = sched_clock(j)]
      PROVE  /\ current' = rq[i] /\ intWaitTimer' \in Nat \cup {-1}
             /\ acct' \in [Procs -> Acct] /\ Past(acct')
  <2>1. CASE rq[i] = current
      BY <1>2, <1>9, <2>1 DEF TypeOK
  <2>2. CASE rq[i] # current
    <3>1. current' = rq[i] /\ intWaitTimer' \in Nat \cup {-1}
        BY <1>7, <1>9, <2>2
    <3>2. acct' = [Accounted(j) EXCEPT ![rq[i]].process_start_time = sched_clock(j)]
        BY <1>9, <2>2
    <3>3. acct' \in [Procs -> Acct] /\ Past(acct')
      <4> DEFINE a == Accounted(j)
                 now == sched_clock(j)
      <4> HIDE DEF a, now
      <4>1. acct' = [a EXCEPT ![rq[i]].process_start_time = now]
            /\ a \in [Procs -> Acct] /\ now \in Nat
          BY <1>1, <1>3, <3>2 DEF a, now
      <4>2. \A t \in Procs : /\ acct'[t] \in Acct
                             /\ acct'[t].waiting_in_rq = a[t].waiting_in_rq
                             /\ acct'[t].process_start_time \in {now, a[t].process_start_time}
        <5> TAKE t \in Procs
        <5>1. a[t] \in Acct /\ [a[t] EXCEPT !.process_start_time = now] \in Acct
            BY <4>1
        <5>2. acct'[t] \in {a[t], [a[t] EXCEPT !.process_start_time = now]}
            BY <4>1
        <5> QED
            BY <5>1, <5>2
      <4>3. acct' = [t \in Procs |-> acct'[t]]
          BY <4>1
      <4>4. Past(a)
          BY <1>3 DEF a
      <4>5. acct' \in [Procs -> Acct]
          BY <4>2, <4>3
      <4>6. now <= now /\ now = sched_clock(j)
          BY <4>1 DEF now
      <4>7. Past(acct')
          BY <4>2, <4>4, <4>6
      <4> QED
          BY <4>5, <4>7
    <3> QED
        BY <3>1, <3>3
  <2> QED
      BY <2>1, <2>2
<1>10. \A i \in 2..Len(rq) : i \in 1..Len(rq) /\ rq[i] # InitTask
    BY <1>5 DEF QueueInv, QueuesHoldLiveTasksOnce, IsInjective
<1>11. CASE nr_running # 1 /\ \E i \in 2..Len(rq) :
                /\ IsSjfChoice(i, Accounted(j), j)
                /\ IF rq[i] = current
                   THEN UNCHANGED <<current, intWaitTimer, acct>>
                   ELSE /\ ContextSwitch(rq[i])
                        /\ acct' = [Accounted(j) EXCEPT
                               ![rq[i]].process_start_time = sched_clock(j)]
  <2>1. PICK i \in 2..Len(rq) : /\ current' = rq[i] /\ intWaitTimer' \in Nat \cup {-1}
                                /\ acct' \in [Procs -> Acct] /\ Past(acct')
      BY <1>9, <1>11
  <2>2. current' \in Tasks /\ InRing(current') /\ current' # InitTask
      BY <1>6, <1>10, <2>1
  <2> QED
      BY <1>4, <2>1, <2>2
<1> QED
    BY <1>8, <1>11 DEF Schedule

-----------------------------------------------------------------------------
(* What insertion and removal do to a sound ring *)

LEMMA EnqueueEffect ==
    ASSUME TypeOK, QueueInv, rq # <<>>, NEW t \in Tasks, t \notin ToSet(rq), Enqueue(t)
    PROVE  /\ rq' \in Seq(Tasks) /\ rq' # <<>> /\ rq'[1] = InitTask
           /\ nr_running' \in Nat /\ nr_running' = Len(rq')
           /\ ToSet(rq') = ToSet(rq) \cup {t} /\ IsInjective(rq')
<1>1. rq \in Seq(Tasks) /\ IsInjective(rq) /\ rq[1] = InitTask /\ nr_running = Len(rq)
    BY DEF TypeOK, QueueInv, QueuesHoldLiveTasksOnce, HeadIsInitAndCountExact
<1>2. rq' = InsertAt(rq, 2, t) /\ nr_running' = nr_running + 1
    BY DEF Enqueue, CountQueued
<1>3. /\ rq' \in Seq(Tasks) /\ rq' # <<>> /\ Len(rq') = Len(rq) + 1 /\ rq'[1] = rq[1]
      /\ ToSet(rq') = ToSet(rq) \cup {t} /\ IsInjective(rq')
  <2>1. 2 \in 1..(Len(rq) + 1)
      BY <1>1
  <2> QED
      BY <1>1, <1>2, <2>1, InsertPositionMembers
<1>4. nr_running' = Len(rq') /\ nr_running' \in Nat
  <2>1. Len(rq) \in Nat
      BY <1>1
  <2> QED
      BY <1>1, <1>2, <1>3, <2>1
<1>5. rq'[1] = InitTask
    BY <1>1, <1>3
<1> QED
    BY <1>3, <1>4, <1>5

LEMMA UnlinkEffect ==
    ASSUME TypeOK, QueueInv, CpuReady, Unlink(current)
    PROVE  /\ rq' \in Seq(Tasks) /\ nr_running' \in Nat /\ nr_running' = Len(rq')
           /\ ToSet(rq') = ToSet(rq) \ {current} /\ IsInjective(rq')
           /\ rq' # <<>> => rq'[1] = InitTask
           /\ current # InitTask => rq' # <<>>
           /\ current = InitTask => rq' = <<>>
<1>1. rq \in Seq(Tasks) /\ IsInjective(rq) /\ rq[1] = InitTask /\ nr_running = Len(rq)
      /\ current \in ToSet(rq)
  <2>1. rq # <<>>
      BY DEF CpuReady, InRing, ToSet
  <2> QED
      BY <2>1 DEF TypeOK, QueueInv, QueuesHoldLiveTasksOnce, HeadIsInitAndCountExact,
                  CpuReady, InRing
<1>2. PICK i \in 1..Len(rq) : rq[i] = current /\ rq' = RemoveAt(rq, i)
    BY DEF Unlink
<1>3. /\ rq' \in Seq(Tasks) /\ Len(rq') = Len(rq) - 1
      /\ ToSet(rq') = ToSet(rq) \ {current} /\ IsInjective(rq')
      /\ i # 1 => rq' # <<>> /\ rq'[1] = rq[1]
    BY <1>1, <1>2, RemovePositionMembers
<1>4. nr_running' = Len(rq') /\ nr_running' \in Nat
    BY <1>1, <1>3 DEF Unlink
<1>5. CASE current = InitTask
  <2>1. Len(rq') = 0
      BY <1>1, <1>3, <1>5 DEF CpuReady
  <2> QED
      BY <1>3, <1>4, <1>5, <2>1
<1>6. CASE current # InitTask
    BY <1>1, <1>2, <1>3, <1>4, <1>6
<1> QED
    BY <1>5, <1>6

-----------------------------------------------------------------------------
(* The invariant holds at the start *)

LEMMA InitIInv == Init => IInv
<1> SUFFICES ASSUME Init PROVE IInv
    OBVIOUS
<1>1. TypeOK
    BY TimeAssumption DEF Init, TypeOK, Tasks, NoAcct
<1>2. ToSet(rq) = {InitTask} /\ ToSet(intwaitlist) = {} /\ Len(rq) = 1
    BY DEF Init, ToSet
<1>3. QueueInv
    BY <1>2, TaskAssumption
    DEF Init, QueueInv, QueuesHoldLiveTasksOnce, HeadIsInitAndCountExact, IsInjective
<1>4. FamilyInv
  <2>1. alive \cap Procs = {}
      BY TaskAssumption DEF Init
  <2>2. ParentOutlivesChild /\ kill \subseteq alive
      BY <2>1 DEF ParentOutlivesChild, Init
  <2>3. ChildCountExact
    <3> SUFFICES ASSUME NEW p \in Tasks
                 PROVE  children[p] = Cardinality({t \in alive \cap Procs : profile[t].parent = p})
        BY DEF ChildCountExact
    <3>1. {t \in alive \cap Procs : profile[t].parent = p} = {}
        BY <2>1
    <3> QED
        BY <3>1, FS_EmptySet DEF Init
  <2> QED
      BY <2>2, <2>3 DEF FamilyInv
<1>5. TimerInv
    BY DEF Init, TimerInv
<1>6. TimesInPast
    BY ClockType DEF Init, TimesInPast, NoAcct
<1>7. ControlInv
    BY <1>2 DEF Init, ControlInv, CpuReady, InRing
<1> QED
    BY <1>1, <1>3, <1>4, <1>5, <1>6, <1>7 DEF IInv

-----------------------------------------------------------------------------
(* Parts of the invariant a step leaves alone *)

LEMMA QueueFrame ==
    ASSUME QueueInv, UNCHANGED <<rq, nr_running, intwaitlist, alive, unspawned>>
    PROVE  QueueInv'
BY DEF QueueInv, QueuesHoldLiveTasksOnce, HeadIsInitAndCountExact

LEMMA FamilyFrame ==
    ASSUME FamilyInv, UNCHANGED <<profile, alive, children>>, kill' \subseteq alive
    PROVE  FamilyInv'
<1>1. ParentOutlivesChild'
    BY DEF FamilyInv, ParentOutlivesChild
<1>2. ChildCountExact'
    BY DEF FamilyInv, ChildCountExact
<1> QED
    BY <1>1, <1>2 DEF FamilyInv

LEMMA TimesFrame ==
    ASSUME TimesInPast, UNCHANGED <<acct, jiffies>>
    PROVE  TimesInPast'
BY DEF TimesInPast, sched_clock

\* A step that moves no task, frees none and keeps no account.
LEMMA Frame ==
    ASSUME IInv,
           UNCHANGED <<profile, jiffies, rq, nr_running, intwaitlist, alive, unspawned,
                       children, acct>>,
           kill' \subseteq alive
    PROVE  QueueInv' /\ FamilyInv' /\ TimesInPast'
BY QueueFrame, FamilyFrame, TimesFrame DEF IInv

-----------------------------------------------------------------------------
(* Every step keeps it: cycle() *)

\* The task in the CPU is queued, allocated, and the only one if it is Init.
LEMMA CpuFacts ==
    ASSUME IInv, pc = "cycle"
    PROVE  /\ CpuReady /\ need_reschedule = {}
           /\ current \in Tasks /\ current \in alive /\ current \in ToSet(rq)
           /\ current \notin ToSet(intwaitlist)
<1>1. CpuReady /\ need_reschedule = {}
    BY DEF IInv, ControlInv
<1>2. current \in ToSet(rq) /\ current \in alive /\ current \notin ToSet(intwaitlist)
    BY <1>1 DEF CpuReady, InRing, IInv, QueueInv, QueuesHoldLiveTasksOnce
<1> QED
    BY <1>1, <1>2 DEF IInv, TypeOK

LEMMA ExitStep == IInv /\ Exit => IInv'
<1> SUFFICES ASSUME IInv, Exit PROVE IInv'
    OBVIOUS
<1> USE DEF IInv
<1>1. /\ CpuReady /\ need_reschedule = {} /\ current \in Tasks /\ current \in alive
      /\ current \in ToSet(rq) /\ current \notin ToSet(intwaitlist)
    BY CpuFacts DEF Exit
<1>2. /\ rq' \in Seq(Tasks) /\ nr_running' \in Nat /\ nr_running' = Len(rq')
      /\ ToSet(rq') = ToSet(rq) \ {current} /\ IsInjective(rq')
      /\ rq' # <<>> => rq'[1] = InitTask
      /\ current # InitTask => rq' # <<>>
      /\ current = InitTask => rq' = <<>>
    BY <1>1, UnlinkEffect DEF Exit
<1>3. \A t \in alive \cap Procs : profile[t].parent # current
    BY <1>1, NoChild DEF Exit, MayBeFreed
<1>4. children' \in [Tasks -> Nat]
  <2>1. CASE current \in Procs
    <3>1. children[profile[current].parent] - 1 \in Nat
      <4>1. children[profile[current].parent] \in Nat \ {0}
          BY <1>1, <2>1, HasChild
      <4> QED
          BY <4>1
    <3>2. children' = [children EXCEPT ![profile[current].parent] = children[profile[current].parent] - 1]
        BY <2>1 DEF Exit, CountChildGone
    <3>3. children \in [Tasks -> Nat]
        BY DEF TypeOK
    <3> QED
        BY <3>1, <3>2, <3>3
  <2>2. CASE current \notin Procs
      BY <2>2 DEF Exit, CountChildGone, TypeOK
  <2> QED
      BY <2>1, <2>2
<1>5. TypeOK'
  <2>1. acct' \in [Procs -> [exp_burst: Nat, waiting_in_rq: Nat, process_start_time: Nat]]
      BY DEF Exit, TypeOK, NoAcct
  <2> QED
      BY <1>1, <1>2, <1>4, <2>1 DEF Exit, TypeOK, clocks
<1>6. QueueInv'
    BY <1>1, <1>2 DEF Exit, QueueInv, QueuesHoldLiveTasksOnce, HeadIsInitAndCountExact
<1>7. FamilyInv'
  <2>1. ParentOutlivesChild'
      BY <1>3 DEF Exit, FamilyInv, ParentOutlivesChild
  <2>2. ChildCountExact'
    <3> SUFFICES ASSUME NEW p \in Tasks
                 PROVE  children'[p] = Cardinality({t \in alive' \cap Procs : profile'[t].parent = p})
        BY DEF ChildCountExact
    <3> DEFINE K == {t \in alive \cap Procs : profile[t].parent = p}
               L == {t \in alive' \cap Procs : profile'[t].parent = p}
    <3>1. IsFiniteSet(K) /\ Cardinality(K) \in Nat /\ children[p] = Cardinality(K)
        BY ChildrenFinite DEF FamilyInv, ChildCountExact
    <3>2. CASE current \in Procs /\ p = profile[current].parent
      <4>1. L = K \ {current} /\ current \in K
          BY <1>1, <3>2 DEF Exit
      <4>2. Cardinality(L) = Cardinality(K) - 1
          BY <3>1, <4>1, FS_RemoveElement
      <4>3. children'[p] = children[p] - 1
          BY <3>2 DEF Exit, CountChildGone, TypeOK
      <4> QED
          BY <3>1, <4>2, <4>3
    <3>3. CASE ~(current \in Procs /\ p = profile[current].parent)
      <4>1. L = K
          BY <3>3 DEF Exit
      <4>2. children'[p] = children[p]
          BY <3>3, ProfileType DEF Exit, CountChildGone, TypeOK
      <4> QED
          BY <3>1, <4>1, <4>2
    <3> QED
        BY <3>2, <3>3
  <2> QED
      BY <2>1, <2>2 DEF Exit, FamilyInv
<1>8. TimerInv'
    BY DEF Exit, TimerInv, clocks
<1>9. TimesInPast'
  <2>1. jiffies \in Nat
      BY DEF TypeOK
  <2> QED
      BY <2>1, ClockType DEF Exit, TimesInPast, clocks, NoAcct
<1>10. ControlInv'
  <2>1. current' = IdleTask /\ pc' = "tick"
        /\ need_reschedule' = IF nr_running' # 0 THEN {IdleTask} ELSE {}
      BY <1>1 DEF Exit
  <2>2. nr_running' = 0 => rq' = <<>>
    <3>1. nr_running' = Len(rq') /\ rq' \in Seq(Tasks)
        BY <1>2
    <3> QED
        BY <3>1, EmptySeq
  <2> QED
      BY <2>1, <2>2 DEF ControlInv
<1> QED
    BY <1>5, <1>6, <1>7, <1>8, <1>9, <1>10

\* What the two running outcomes of cycle() share.
LEMMA RunTickEffect ==
    ASSUME IInv, RunTick
    PROVE  /\ CpuReady /\ need_reschedule = {} /\ current \in Tasks /\ current \in alive
           /\ current \in ToSet(rq) /\ current \notin ToSet(intwaitlist)
           /\ kill' \subseteq alive /\ kill' \in SUBSET Tasks
           /\ work' \in [Tasks -> Nat \cup {-1}]
           /\ intTimer' \in Nat \ {0} /\ pc' = "spawn"
           /\ UNCHANGED <<profile, clocktick, jiffies, timer, current, alive, unspawned, children>>
<1>1. /\ CpuReady /\ need_reschedule = {} /\ current \in Tasks /\ current \in alive
      /\ current \in ToSet(rq) /\ current \notin ToSet(intwaitlist)
    BY CpuFacts DEF RunTick
<1>2. kill' \subseteq alive /\ kill' \in SUBSET Tasks
    BY <1>1 DEF RunTick, IInv, FamilyInv, TypeOK
<1>3. work' \in [Tasks -> Nat \cup {-1}]
  <2>1. work \in [Tasks -> Nat \cup {-1}] /\ work[current] \in Nat \cup {-1}
      BY <1>1 DEF IInv, TypeOK
  <2>2. WorkLeft \in Nat \cup {-1}
      BY <2>1 DEF WorkLeft
  <2> QED
      BY <2>1, <2>2 DEF RunTick
<1>4. intTimer' \in Nat \ {0}
    BY TimeAssumption DEF RunTick, ArmIoTimer, IInv, TypeOK, TimerInv
<1> QED
    BY <1>1, <1>2, <1>3, <1>4 DEF RunTick

LEMMA KeepRunningStep == IInv /\ KeepRunning => IInv'
<1> SUFFICES ASSUME IInv, KeepRunning PROVE IInv'
    OBVIOUS
<1>1. /\ CpuReady /\ need_reschedule = {} /\ current \in alive
      /\ kill' \subseteq alive /\ kill' \in SUBSET Tasks
      /\ work' \in [Tasks -> Nat \cup {-1}]
      /\ intTimer' \in Nat \ {0} /\ pc' = "spawn"
      /\ UNCHANGED <<profile, clocktick, jiffies, timer, current, alive, unspawned, children>>
    BY RunTickEffect DEF KeepRunning
<1>2. UNCHANGED <<rq, nr_running, intwaitlist, need_reschedule, acct>>
    BY DEF KeepRunning, queue
<1>3. TypeOK'
  <2>1. intWaitTimer' \in Nat \cup {-1}
      BY DEF KeepRunning, IInv, TypeOK
  <2> QED
      BY <1>1, <1>2, <2>1 DEF IInv, TypeOK
<1>4. QueueInv' /\ FamilyInv' /\ TimesInPast'
    BY <1>1, <1>2, Frame
<1>5. TimerInv'
    BY <1>1 DEF TimerInv
<1>6. ControlInv'
    BY <1>1, <1>2 DEF ControlInv, CpuReady, InRing
<1> QED
    BY <1>3, <1>4, <1>5, <1>6 DEF IInv

LEMMA SleepStep == IInv /\ Sleep => IInv'
<1> SUFFICES ASSUME IInv, Sleep PROVE IInv'
    OBVIOUS
<1>1. /\ CpuReady /\ need_reschedule = {} /\ current \in Tasks /\ current \in alive
      /\ current \in ToSet(rq) /\ current \notin ToSet(intwaitlist)
      /\ kill' \subseteq alive /\ kill' \in SUBSET Tasks
      /\ work' \in [Tasks -> Nat \cup {-1}]
      /\ intTimer' \in Nat \ {0} /\ pc' = "spawn"
      /\ UNCHANGED <<profile, clocktick, jiffies, timer, current, alive, unspawned, children>>
    BY RunTickEffect DEF Sleep
<1>2. current \in Procs /\ intWaitTimer' = -1 /\ need_reschedule' = {current}
    BY <1>1 DEF Sleep, WaitTimerExpires, IsInteractive, RequestReschedule
<1>3. /\ rq' \in Seq(Tasks) /\ nr_running' \in Nat /\ nr_running' = Len(rq')
      /\ ToSet(rq') = ToSet(rq) \ {current} /\ IsInjective(rq')
      /\ rq' # <<>> => rq'[1] = InitTask
    BY <1>1, UnlinkEffect DEF Sleep, IInv
<1>4. /\ intwaitlist' \in Seq(Procs) /\ intwaitlist' # <<>> /\ IsInjective(intwaitlist')
      /\ ToSet(intwaitlist') = ToSet(intwaitlist) \cup {current}
  <2>1. intwaitlist' = Append(intwaitlist, current)
      BY DEF Sleep
  <2>2. intwaitlist \in Seq(Procs) /\ IsInjective(intwaitlist)
      BY DEF IInv, TypeOK, QueueInv, QueuesHoldLiveTasksOnce
  <2>3. /\ Append(intwaitlist, current) \in Seq(Procs)
        /\ Append(intwaitlist, current) # <<>>
        /\ ToSet(Append(intwaitlist, current)) = ToSet(intwaitlist) \cup {current}
        /\ IsInjective(Append(intwaitlist, current))
      BY <1>1, <1>2, <2>2, AppendMembers
  <2> QED
      BY <2>1, <2>3
<1>5. /\ acct' \in [Procs -> [exp_burst: Nat, waiting_in_rq: Nat, process_start_time: Nat]]
      /\ TimesInPast'
  <2> DEFINE w == CalcWaiting(acct[current], jiffies)
  <2>1. jiffies \in Nat /\ sched_clock(jiffies) \in Nat
      BY ClockType DEF IInv, TypeOK
  <2>2. w \in Nat /\ w <= sched_clock(jiffies)
      BY <1>2, <2>1 DEF CalcWaiting, IInv, TypeOK, TimesInPast
  <2>3. acct' = [acct EXCEPT ![current].waiting_in_rq = w] /\ jiffies' = jiffies
      BY <1>1 DEF Sleep
  <2> HIDE DEF w
  <2>4. \A t \in Procs :
           /\ acct[t] \in [exp_burst: Nat, waiting_in_rq: Nat, process_start_time: Nat]
           /\ acct[t].process_start_time <= sched_clock(jiffies)
           /\ acct[t].waiting_in_rq <= sched_clock(jiffies)
      BY DEF IInv, TypeOK, TimesInPast
  <2>5. acct \in [Procs -> [exp_burst: Nat, waiting_in_rq: Nat, process_start_time: Nat]]
      BY DEF IInv, TypeOK
  <2>6. acct' \in [Procs -> [exp_burst: Nat, waiting_in_rq: Nat, process_start_time: Nat]]
      BY <1>2, <2>2, <2>3, <2>4, <2>5
  <2>7. TimesInPast'
      BY <1>2, <2>2, <2>3, <2>4, <2>5 DEF TimesInPast, sched_clock
  <2> QED
      BY <2>6, <2>7
<1>6. TypeOK'
    BY <1>1, <1>2, <1>3, <1>4, <1>5 DEF IInv, TypeOK
<1>7. QueueInv'
    BY <1>1, <1>3, <1>4
    DEF IInv, QueueInv, QueuesHoldLiveTasksOnce, HeadIsInitAndCountExact
<1>8. FamilyInv'
    BY <1>1, FamilyFrame DEF IInv
<1>9. TimerInv'
    BY <1>1 DEF TimerInv
<1>10. ControlInv'
    BY <1>1, <1>2 DEF ControlInv
<1> QED
    BY <1>5, <1>6, <1>7, <1>8, <1>9, <1>10 DEF IInv

-----------------------------------------------------------------------------
(* Every step keeps it: spawnChildren() *)

LEMMA ForkStep == IInv /\ (\E c \in Procs : Fork(c)) => IInv'
<1> SUFFICES ASSUME IInv, NEW c \in Procs, Fork(c) PROVE IInv'
    OBVIOUS
<1> DEFINE p == profile[c].parent
           Acct == [exp_burst: Nat, waiting_in_rq: Nat, process_start_time: Nat]
<1>1. current \in alive /\ InitTask \in alive
    BY AliveHasInit DEF Fork, IInv, ControlInv, FamilyInv
<1>2. rq # <<>> /\ rq[1] = InitTask
    BY <1>1, InitIsQueued DEF IInv
<1>3. c \in unspawned /\ p \in {current, InitTask} /\ p \in alive /\ p \in Tasks
    BY <1>1, ProfileType DEF Fork, Due, IInv
<1>4. c \notin alive /\ c \notin ToSet(rq) /\ c \notin ToSet(intwaitlist)
    BY <1>3 DEF IInv, QueueInv, QueuesHoldLiveTasksOnce
<1>5. /\ rq' \in Seq(Tasks) /\ rq' # <<>> /\ rq'[1] = InitTask
      /\ nr_running' \in Nat /\ nr_running' = Len(rq')
      /\ ToSet(rq') = ToSet(rq) \cup {c} /\ IsInjective(rq')
  <2>1. c \in Tasks
      BY DEF Tasks
  <2> QED
      BY <1>2, <1>4, <2>1, EnqueueEffect DEF Fork, IInv
<1>6. /\ UNCHANGED <<pc, profile, clocktick, jiffies, timer, intTimer, intWaitTimer,
                     intwaitlist, current, kill>>
      /\ alive' = alive \cup {c} /\ unspawned' = unspawned \ {c}
      /\ need_reschedule' = need_reschedule \cup {current}
    BY DEF Fork, clocks, RequestReschedule
<1>7. acct' \in [Procs -> Acct] /\ TimesInPast'
  <2> DEFINE a == [NoAcct EXCEPT !.waiting_in_rq = sched_clock(jiffies)]
  <2>1. jiffies \in Nat /\ sched_clock(jiffies) \in Nat
      BY ClockType DEF IInv, TypeOK
  <2>2. a \in Acct /\ a.process_start_time <= sched_clock(jiffies)
        /\ a.waiting_in_rq <= sched_clock(jiffies)
      BY <2>1 DEF NoAcct
  <2>3. acct' = [acct EXCEPT ![c] = a] /\ acct \in [Procs -> Acct]
      BY DEF Fork, IInv, TypeOK
  <2> HIDE DEF a
  <2>4. acct' \in [Procs -> Acct]
      BY <2>2, <2>3
  <2>5. \A t \in Procs : acct'[t] = IF t = c THEN a ELSE acct[t]
      BY <2>3
  <2>6. TimesInPast'
      BY <1>6, <2>2, <2>5 DEF IInv, TimesInPast, sched_clock
  <2> QED
      BY <2>4, <2>6
<1>8. children' \in [Tasks -> Nat] /\ work' \in [Tasks -> Nat \cup {-1}]
  <2>1. profile[c].work_duration \in Nat \cup {-1}
      BY ProfileType DEF IInv
  <2>2. children \in [Tasks -> Nat] /\ work \in [Tasks -> Nat \cup {-1}] /\ c \in Tasks
      BY DEF IInv, TypeOK, Tasks
  <2>3. children[p] + 1 \in Nat
      BY <1>3, <2>2
  <2>4. children' = [children EXCEPT ![p] = children[p] + 1]
      BY DEF Fork, CountChild
  <2>5. work' = [work EXCEPT ![c] = profile[c].work_duration]
      BY DEF Fork
  <2> QED
      BY <2>1, <2>2, <2>3, <2>4, <2>5
<1>9. TypeOK'
    BY <1>1, <1>5, <1>6, <1>7, <1>8 DEF IInv, TypeOK, Tasks
<1>10. QueueInv'
    BY <1>4, <1>5, <1>6
    DEF IInv, QueueInv, QueuesHoldLiveTasksOnce, HeadIsInitAndCountExact
<1>11. FamilyInv'
  <2>1. ParentOutlivesChild' /\ (kill \subseteq alive)'
      BY <1>3, <1>6 DEF IInv, FamilyInv, ParentOutlivesChild
  <2>2. ChildCountExact'
    <3> SUFFICES ASSUME NEW q \in Tasks
                 PROVE  children'[q] = Cardinality({t \in alive' \cap Procs : profile'[t].parent = q})
        BY DEF ChildCountExact
    <3> DEFINE K == {t \in alive \cap Procs : profile[t].parent = q}
               L == {t \in alive' \cap Procs : profile'[t].parent = q}
    <3>1. IsFiniteSet(K) /\ Cardinality(K) \in Nat /\ children[q] = Cardinality(K)
        BY ChildrenFinite DEF IInv, FamilyInv, ChildCountExact
    <3>2. children \in [Tasks -> Nat] /\ children' = [children EXCEPT ![p] = children[p] + 1]
        BY DEF Fork, CountChild, IInv, TypeOK
    <3>3. CASE q = p
      <4>1. L = K \cup {c} /\ c \notin K
          BY <1>4, <1>6, <3>3
      <4>2. Cardinality(L) = Cardinality(K) + 1
          BY <3>1, <4>1, FS_AddElement
      <4>3. children'[q] = children[q] + 1
          BY <3>2, <3>3
      <4> QED
          BY <3>1, <4>2, <4>3
    <3>4. CASE q # p
      <4>1. L = K
          BY <1>6, <3>4
      <4>2. children'[q] = children[q]
          BY <3>2, <3>4
      <4> QED
          BY <3>1, <4>1, <4>2
    <3> QED
        BY <3>3, <3>4
  <2> QED
      BY <2>1, <2>2 DEF FamilyInv
<1>12. TimerInv'
    BY <1>6 DEF IInv, TimerInv
<1>13. ControlInv'
    BY <1>1, <1>6 DEF Fork, IInv, ControlInv
<1> QED
    BY <1>7, <1>9, <1>10, <1>11, <1>12, <1>13 DEF IInv

LEMMA SpawnDoneStep == IInv /\ SpawnDone => IInv'
<1> SUFFICES ASSUME IInv, SpawnDone PROVE IInv'
    OBVIOUS
<1>1. /\ pc = "spawn" /\ pc' = "tick"
      /\ UNCHANGED <<profile, clocktick, jiffies, timer, intTimer, intWaitTimer, rq,
                     nr_running, intwaitlist, current, need_reschedule, alive, unspawned,
                     kill, children, work, acct>>
    BY DEF SpawnDone, clocks, queue, tree
<1>2. TypeOK'
    BY <1>1 DEF IInv, TypeOK
<1>3. QueueInv' /\ FamilyInv' /\ TimesInPast'
    BY <1>1, Frame DEF IInv, FamilyInv
<1>4. TimerInv'
    BY <1>1 DEF IInv, TimerInv
<1>5. ControlInv'
    BY <1>1 DEF IInv, ControlInv, CpuReady, InRing
<1> QED
    BY <1>2, <1>3, <1>4, <1>5 DEF IInv

-----------------------------------------------------------------------------
(* Every step keeps it: interrupt() *)

LEMMA TickCountdownStep == IInv /\ TickCountdown => IInv'
<1> SUFFICES ASSUME IInv, TickCountdown PROVE IInv'
    OBVIOUS
<1>1. /\ pc = "tick" /\ pc' = "io" /\ timer > 1 /\ timer' = timer - 1
      /\ UNCHANGED <<profile, clocktick, jiffies, intTimer, intWaitTimer, rq,
                     nr_running, intwaitlist, current, need_reschedule, alive, unspawned,
                     kill, children, work, acct>>
    BY DEF TickCountdown, queue, tree
<1>2. timer' \in 1..TicksPerJiffy
    BY <1>1, TimeAssumption DEF IInv, TypeOK
<1>3. TypeOK'
    BY <1>1, <1>2 DEF IInv, TypeOK
<1>4. QueueInv' /\ FamilyInv' /\ TimesInPast'
    BY <1>1, Frame DEF IInv, FamilyInv
<1>5. TimerInv'
    BY <1>1 DEF IInv, TimerInv
<1>6. ControlInv'
    BY <1>1 DEF IInv, ControlInv, CpuReady, InRing
<1> QED
    BY <1>3, <1>4, <1>5, <1>6 DEF IInv

LEMMA TickFiresStep == IInv /\ TickFires => IInv'
<1> SUFFICES ASSUME IInv, TickFires PROVE IInv'
    OBVIOUS
<1>1. /\ pc = "tick" /\ pc' = "io" /\ timer' = TicksPerJiffy
      /\ UNCHANGED <<profile, clocktick, intTimer, rq, nr_running, intwaitlist, alive,
                     unspawned, kill, children, work>>
    BY DEF TickFires, queue, tree
<1>2. /\ jiffies' \in 0..MaxJiffies /\ jiffies' \in Nat
      /\ sched_clock(jiffies) \in Nat /\ sched_clock(jiffies') \in Nat
      /\ sched_clock(jiffies) <= sched_clock(jiffies')
  <2>1. jiffies \in 0..MaxJiffies /\ jiffies \in Nat /\ MaxJiffies \in Nat
      BY TimeAssumption DEF IInv, TypeOK
  <2>2. jiffies' = (IF jiffies < MaxJiffies THEN jiffies + 1 ELSE jiffies)
      BY DEF TickFires
  <2>3. jiffies' \in 0..MaxJiffies /\ jiffies' \in Nat
      BY <2>1, <2>2
  <2>4. sched_clock(jiffies) \in Nat /\ sched_clock(jiffies') \in Nat
      BY <2>1, <2>3, ClockType
  <2>5. sched_clock(jiffies) <= sched_clock(jiffies')
    <3>1. CASE jiffies' = jiffies + 1
        BY <2>1, <3>1, ClockType
    <3>2. CASE jiffies' = jiffies
        BY <2>4, <3>2
    <3> QED
        BY <2>2, <3>1, <3>2
  <2> QED
      BY <2>3, <2>4, <2>5
<1>3. /\ current' \in Tasks \cup {IdleTask} /\ intWaitTimer' \in Nat \cup {-1}
      /\ acct' \in [Procs -> [exp_burst: Nat, waiting_in_rq: Nat, process_start_time: Nat]]
      /\ TimesInPast' /\ ControlInv'
      /\ need_reschedule' \in SUBSET (Tasks \cup {IdleTask})
  <2>1. CASE InRing(current)
    <3>1. Schedule(jiffies')
        BY <2>1 DEF TickFires
    <3>2. nr_running # 0
      <4>1. rq # <<>> /\ nr_running = Len(rq) /\ rq \in Seq(Tasks)
          BY <2>1 DEF InRing, ToSet, IInv, TypeOK, QueueInv, HeadIsInitAndCountExact
      <4> QED
          BY <4>1, EmptySeq
    <3>3. /\ current' \in Tasks /\ InRing(current')
          /\ current' = InitTask => nr_running = 1
          /\ need_reschedule' = {}
          /\ intWaitTimer' \in Nat \cup {-1}
          /\ acct' \in [Procs -> [exp_burst: Nat, waiting_in_rq: Nat,
                                  process_start_time: Nat]]
          /\ \A t \in Procs : /\ acct'[t].process_start_time <= sched_clock(jiffies')
                              /\ acct'[t].waiting_in_rq <= sched_clock(jiffies')
        BY <1>1, <1>2, <3>1, <3>2, ScheduleEffect DEF IInv
    <3>4. ControlInv'
        BY <1>1, <3>3 DEF ControlInv, CpuReady, InRing
    <3>5. TimesInPast'
        BY <3>3 DEF TimesInPast, sched_clock
    <3> QED
        BY <3>3, <3>4, <3>5
  <2>2. CASE ~InRing(current)
    <3>1. UNCHANGED <<current, intWaitTimer, need_reschedule, acct>>
        BY <2>2 DEF TickFires
    <3>2. \A t \in Procs : /\ acct[t] \in [exp_burst: Nat, waiting_in_rq: Nat,
                                             process_start_time: Nat]
                           /\ acct[t].process_start_time <= sched_clock(jiffies)
                           /\ acct[t].waiting_in_rq <= sched_clock(jiffies)
        BY DEF IInv, TypeOK, TimesInPast
    <3>3. \A t \in Procs : /\ acct'[t].process_start_time <= sched_clock(jiffies')
                           /\ acct'[t].waiting_in_rq <= sched_clock(jiffies')
      <4> DEFINE old == sched_clock(jiffies)
                 new == sched_clock(jiffies')
      <4>1. old \in Nat /\ new \in Nat /\ old <= new
          BY <1>2
      <4>2. \A t \in Procs : /\ acct[t].process_start_time \in Nat
                             /\ acct[t].waiting_in_rq \in Nat
                             /\ acct[t].process_start_time <= old
                             /\ acct[t].waiting_in_rq <= old
          BY <3>2
      <4> HIDE DEF old, new
      <4>3. \A t \in Procs : /\ acct[t].process_start_time <= new
                             /\ acct[t].waiting_in_rq <= new
          BY <4>1, <4>2
      <4> QED
          BY <3>1, <4>3 DEF new
    <3>4. TimesInPast'
        BY <3>3 DEF TimesInPast, sched_clock
    <3>5. ControlInv'
        BY <1>1, <2>2, <3>1 DEF IInv, ControlInv, CpuReady, InRing
    <3> QED
        BY <3>1, <3>4, <3>5 DEF IInv, TypeOK
  <2> QED
      BY <2>1, <2>2
<1>4. TypeOK'
    BY <1>1, <1>2, <1>3, TimeAssumption DEF IInv, TypeOK
<1>5. QueueInv' /\ FamilyInv' /\ TimerInv'
  <2>1. QueueInv' /\ FamilyInv'
      BY <1>1, QueueFrame, FamilyFrame DEF IInv, FamilyInv
  <2>2. TimerInv'
      BY <1>1 DEF IInv, TimerInv
  <2> QED
      BY <2>1, <2>2
<1> QED
    BY <1>3, <1>4, <1>5 DEF IInv

LEMMA IoStep == IInv /\ (IoCountdown \/ IoEvent) => IInv'
<1> SUFFICES ASSUME IInv, IoCountdown \/ IoEvent PROVE IInv'
    OBVIOUS
<1>1. /\ pc = "io" /\ pc' \in {"wake", "check"}
      /\ UNCHANGED <<profile, clocktick, jiffies, timer, intWaitTimer, rq,
                     nr_running, intwaitlist, current, need_reschedule, alive, unspawned,
                     kill, children, work, acct>>
    BY DEF IoCountdown, IoEvent, queue, tree
<1>2. intTimer' \in Nat \cup {-1} /\ TimerInv'
  <2>1. /\ intTimer \in Nat \cup {-1} /\ intTimer # 0
        /\ intwaitlist # <<>> => intTimer > 0
      BY <1>1 DEF IInv, TypeOK, TimerInv
  <2>2. CASE IoCountdown
    <3>1. intTimer # 0 /\ intTimer # 1
        BY <2>2 DEF IoCountdown, IoFires
    <3>2. intTimer' = IF intTimer > 0 THEN intTimer - 1 ELSE intTimer
        BY <2>2 DEF IoCountdown
    <3>3. CASE intTimer = -1
        BY <1>1, <2>1, <3>2, <3>3 DEF TimerInv
    <3>4. CASE intTimer \in Nat \ {0, 1}
      <4>1. intTimer' = intTimer - 1
          BY <3>2, <3>4
      <4>2. intTimer' \in Nat /\ intTimer' # 0 /\ intTimer' > 0
          BY <3>4, <4>1
      <4> QED
          BY <4>2 DEF TimerInv
    <3> QED
        BY <2>1, <3>1, <3>3, <3>4
  <2>3. CASE IoEvent
      BY <1>1, <2>3 DEF IoEvent, TimerInv
  <2> QED
      BY <2>2, <2>3
<1>3. TypeOK'
    BY <1>1, <1>2 DEF IInv, TypeOK
<1>4. QueueInv' /\ FamilyInv' /\ TimesInPast'
    BY <1>1, Frame DEF IInv, FamilyInv
<1>5. ControlInv'
    BY <1>1 DEF IInv, ControlInv, CpuReady, InRing
<1> QED
    BY <1>2, <1>3, <1>4, <1>5 DEF IInv

LEMMA WakeOneStep == IInv /\ WakeOne => IInv'
<1> SUFFICES ASSUME IInv, WakeOne PROVE IInv'
    OBVIOUS
<1> DEFINE t == Head(intwaitlist)
           Acct == [exp_burst: Nat, waiting_in_rq: Nat, process_start_time: Nat]
<1>1. /\ pc = "wake" /\ intwaitlist # <<>> /\ intwaitlist' = Tail(intwaitlist)
      /\ Enqueue(t)
      /\ acct' = [acct EXCEPT ![t].waiting_in_rq = CalcWaiting(acct[t], jiffies)]
      /\ UNCHANGED <<pc, profile, clocktick, jiffies, timer, intTimer, intWaitTimer, current,
                     need_reschedule, alive, unspawned, kill, children, work>>
    BY DEF WakeOne, ListDelFirst, clocks, tree
<1>2. /\ intwaitlist' \in Seq(Procs) /\ t \in Procs /\ t \in ToSet(intwaitlist)
      /\ ToSet(intwaitlist') = ToSet(intwaitlist) \ {t}
      /\ IsInjective(intwaitlist')
  <2>1. intwaitlist \in Seq(Procs) /\ IsInjective(intwaitlist)
      BY DEF IInv, TypeOK, QueueInv, QueuesHoldLiveTasksOnce
  <2> QED
      BY <1>1, <2>1, TailMembers
<1> HIDE DEF t
<1>3. /\ rq # <<>> /\ t \notin ToSet(rq)
  <2>1. t \in alive /\ t \notin ToSet(rq)
      BY <1>2 DEF IInv, QueueInv, QueuesHoldLiveTasksOnce
  <2>2. InitTask \in alive
      BY <2>1, AliveHasInit DEF IInv, FamilyInv
  <2> QED
      BY <2>1, <2>2, InitIsQueued DEF IInv
<1>4. /\ rq' \in Seq(Tasks) /\ rq' # <<>> /\ rq'[1] = InitTask
      /\ nr_running' \in Nat /\ nr_running' = Len(rq')
      /\ ToSet(rq') = ToSet(rq) \cup {t} /\ IsInjective(rq')
  <2>1. t \in Tasks
      BY <1>2 DEF Tasks
  <2> QED
      BY <1>1, <1>3, <2>1, EnqueueEffect DEF IInv
<1>5. acct' \in [Procs -> Acct] /\ TimesInPast'
  <2> DEFINE w == CalcWaiting(acct[t], jiffies)
  <2>1. jiffies \in Nat /\ sched_clock(jiffies) \in Nat
      BY ClockType DEF IInv, TypeOK
  <2>2. w \in Nat /\ w <= sched_clock(jiffies)
      BY <1>2, <2>1 DEF CalcWaiting, IInv, TypeOK, TimesInPast
  <2>3. acct' = [acct EXCEPT ![t].waiting_in_rq = w] /\ jiffies' = jiffies
      BY <1>1
  <2> HIDE DEF w
  <2>4. \A u \in Procs :
           /\ acct[u] \in Acct
           /\ acct[u].process_start_time <= sched_clock(jiffies)
           /\ acct[u].waiting_in_rq <= sched_clock(jiffies)
      BY DEF IInv, TypeOK, TimesInPast
  <2>5. acct \in [Procs -> Acct]
      BY DEF IInv, TypeOK
  <2>6. acct' \in [Procs -> Acct]
      BY <1>2, <2>2, <2>3, <2>4, <2>5
  <2>7. TimesInPast'
      BY <1>2, <2>2, <2>3, <2>4, <2>5 DEF TimesInPast, sched_clock
  <2> QED
      BY <2>6, <2>7
<1>6. TypeOK'
    BY <1>1, <1>2, <1>4, <1>5 DEF IInv, TypeOK
<1>7. QueueInv'
    BY <1>1, <1>2, <1>3, <1>4
    DEF IInv, QueueInv, QueuesHoldLiveTasksOnce, HeadIsInitAndCountExact
<1>8. FamilyInv'
    BY <1>1, FamilyFrame DEF IInv, FamilyInv
<1>9. TimerInv' /\ ControlInv'
    BY <1>1 DEF IInv, TimerInv, ControlInv
<1> QED
    BY <1>5, <1>6, <1>7, <1>8, <1>9 DEF IInv

LEMMA WakeDoneStep == IInv /\ WakeDone => IInv'
<1> SUFFICES ASSUME IInv, WakeDone PROVE IInv'
    OBVIOUS
<1>1. /\ pc = "wake" /\ pc' = "check" /\ intwaitlist = <<>>
      /\ need_reschedule' = need_reschedule \cup {current}
      /\ UNCHANGED <<profile, clocktick, jiffies, timer, intTimer, intWaitTimer, rq,
                     nr_running, intwaitlist, current, alive, unspawned,
                     kill, children, work, acct>>
    BY DEF WakeDone, RequestReschedule, clocks, queue, tree
<1>2. TypeOK' /\ TimerInv'
    BY <1>1 DEF IInv, TypeOK, TimerInv
<1>3. QueueInv' /\ FamilyInv' /\ TimesInPast'
    BY <1>1, Frame DEF IInv, FamilyInv
<1>4. ControlInv'
    BY <1>1 DEF IInv, ControlInv
<1> QED
    BY <1>2, <1>3, <1>4 DEF IInv

-----------------------------------------------------------------------------
(* Every step keeps it: the rest of runcpu()'s loop *)

LEMMA AdvanceType == ASSUME TypeOK, Advance PROVE clocktick' \in 0..MaxTick
BY TimeAssumption DEF TypeOK, Advance

LEMMA NoRescheduleStep == IInv /\ NoReschedule => IInv'
<1> SUFFICES ASSUME IInv, NoReschedule PROVE IInv'
    OBVIOUS
<1>1. /\ pc = "check" /\ pc' = "end" /\ current \notin need_reschedule
      /\ UNCHANGED <<profile, jiffies, timer, intTimer, intWaitTimer, rq,
                     nr_running, intwaitlist, current, need_reschedule, alive, unspawned,
                     kill, children, work, acct>>
    BY DEF NoReschedule, queue, tree
<1>2. TypeOK'
  <2>1. clocktick' \in 0..MaxTick
      BY AdvanceType DEF NoReschedule, IInv
  <2> QED
      BY <1>1, <2>1 DEF IInv, TypeOK
<1>3. QueueInv' /\ FamilyInv' /\ TimesInPast'
    BY <1>1, Frame DEF IInv, FamilyInv
<1>4. TimerInv'
    BY <1>1 DEF IInv, TimerInv
<1>5. ControlInv'
    BY <1>1 DEF IInv, ControlInv, CpuReady, InRing
<1> QED
    BY <1>2, <1>3, <1>4, <1>5 DEF IInv

LEMMA RescheduleStep == IInv /\ Reschedule => IInv'
<1> SUFFICES ASSUME IInv, Reschedule PROVE IInv'
    OBVIOUS
<1>1. /\ pc = "check" /\ pc' = "end" /\ nr_running # 0 /\ Schedule(jiffies)
      /\ UNCHANGED <<profile, jiffies, timer, intTimer, rq, nr_running, intwaitlist,
                     alive, unspawned, kill, children, work>>
    BY DEF Reschedule, queue, tree
<1>2. /\ current' \in Tasks /\ InRing(current')
      /\ current' = InitTask => nr_running = 1
      /\ need_reschedule' = {}
      /\ intWaitTimer' \in Nat \cup {-1}
      /\ acct' \in [Procs -> [exp_burst: Nat, waiting_in_rq: Nat, process_start_time: Nat]]
      /\ \A t \in Procs : /\ acct'[t].process_start_time <= sched_clock(jiffies)
                          /\ acct'[t].waiting_in_rq <= sched_clock(jiffies)
  <2>1. jiffies \in Nat /\ sched_clock(jiffies) \in Nat
      BY ClockType DEF IInv, TypeOK
  <2>2. sched_clock(jiffies) <= sched_clock(jiffies)
      BY <2>1
  <2> QED
      BY <1>1, <2>1, <2>2, ScheduleEffect DEF IInv
<1>3. TypeOK'
  <2>1. clocktick' \in 0..MaxTick
      BY AdvanceType DEF Reschedule, IInv
  <2> QED
      BY <1>1, <1>2, <2>1 DEF IInv, TypeOK
<1>4. QueueInv' /\ FamilyInv' /\ TimerInv'
  <2>1. QueueInv' /\ FamilyInv'
      BY <1>1, QueueFrame, FamilyFrame DEF IInv, FamilyInv
  <2>2. TimerInv'
      BY <1>1 DEF IInv, TimerInv
  <2> QED
      BY <2>1, <2>2
<1>5. TimesInPast'
    BY <1>1, <1>2 DEF TimesInPast, sched_clock
<1>6. ControlInv'
    BY <1>1, <1>2 DEF ControlInv, CpuReady, InRing
<1> QED
    BY <1>3, <1>4, <1>5, <1>6 DEF IInv

LEMMA RescheduleEmptyStep == IInv /\ RescheduleEmpty => IInv'
<1> SUFFICES ASSUME IInv, RescheduleEmpty PROVE IInv'
    OBVIOUS
<1>1. /\ pc = "check" /\ pc' = "crashed"
      /\ UNCHANGED <<profile, clocktick, jiffies, timer, intTimer, intWaitTimer, rq,
                     nr_running, intwaitlist, current, need_reschedule, alive, unspawned,
                     kill, children, work, acct>>
    BY DEF RescheduleEmpty, clocks, queue, tree
<1>2. TypeOK' /\ TimerInv' /\ ControlInv'
    BY <1>1 DEF IInv, TypeOK, TimerInv, ControlInv
<1>3. QueueInv' /\ FamilyInv' /\ TimesInPast'
    BY <1>1, Frame DEF IInv, FamilyInv
<1> QED
    BY <1>2, <1>3 DEF IInv

LEMMA EndCycleStep == IInv /\ (EndCycle \/ EndCycleFreed) => IInv'
<1> SUFFICES ASSUME IInv, EndCycle \/ EndCycleFreed PROVE IInv'
    OBVIOUS
<1>1. /\ pc = "end" /\ pc' \in {"cycle", "done", "crashed"}
      /\ pc' = "cycle" => nr_running # 0
      /\ pc' = "done" => nr_running = 0
      /\ UNCHANGED <<profile, clocktick, jiffies, timer, intTimer, intWaitTimer, rq,
                     nr_running, intwaitlist, current, need_reschedule, alive, unspawned,
                     children, work, acct>>
    BY DEF EndCycle, EndCycleFreed, LoopGoesOn, clocks, queue, tree
<1>2. kill' \subseteq alive /\ kill' \in SUBSET Tasks
    BY DEF EndCycle, EndCycleFreed, SendKillMessage, tree, IInv, TypeOK, FamilyInv, Tasks
<1>3. TypeOK' /\ TimerInv'
    BY <1>1, <1>2 DEF IInv, TypeOK, TimerInv
<1>4. QueueInv' /\ FamilyInv' /\ TimesInPast'
    BY <1>1, <1>2, Frame
<1>5. nr_running = 0 <=> rq = <<>>
  <2>1. nr_running = Len(rq) /\ rq \in Seq(Tasks)
      BY DEF IInv, TypeOK, QueueInv, HeadIsInitAndCountExact
  <2> QED
      BY <2>1, EmptySeq
<1>6. ControlInv'
    BY <1>1, <1>5 DEF IInv, ControlInv, CpuReady, InRing
<1> QED
    BY <1>3, <1>4, <1>6 DEF IInv

-----------------------------------------------------------------------------
(* The invariant, and what it gives *)

LEMMA StutteringStep == IInv /\ UNCHANGED vars => IInv'
<1> SUFFICES ASSUME IInv, UNCHANGED vars PROVE IInv'
    OBVIOUS
<1>1. UNCHANGED <<pc, profile, clocktick, jiffies, timer, intTimer, intWaitTimer, rq,
                  nr_running, intwaitlist, current, need_reschedule, alive, unspawned,
                  kill, children, work, acct>>
    BY DEF vars, clocks, queue, tree
<1>2. TypeOK' /\ TimerInv'
    BY <1>1 DEF IInv, TypeOK, TimerInv
<1>3. QueueInv' /\ FamilyInv' /\ TimesInPast'
    BY <1>1, Frame DEF IInv, FamilyInv
<1>4. ControlInv'
    BY <1>1 DEF IInv, ControlInv, CpuReady, InRing
<1> QED
    BY <1>2, <1>3, <1>4 DEF IInv

\* Every step of runcpu()'s loop keeps the inductive invariant.
LEMMA NextIInv == IInv /\ [Next]_vars => IInv'
<1> SUFFICES ASSUME IInv, [Next]_vars PROVE IInv'
    OBVIOUS
<1>1. CASE Cycle
    BY <1>1, ExitStep, KeepRunningStep, SleepStep DEF Cycle
<1>2. CASE Spawn
    BY <1>2, ForkStep, SpawnDoneStep DEF Spawn
<1>3. CASE Interrupt
    BY <1>3, TickCountdownStep, TickFiresStep, IoStep, WakeOneStep, WakeDoneStep
    DEF Interrupt
<1>4. CASE Finish
    BY <1>4, NoRescheduleStep, RescheduleStep, RescheduleEmptyStep, EndCycleStep DEF Finish
<1>5. CASE Stopped \/ UNCHANGED vars
    BY <1>5, StutteringStep DEF Stopped
<1> QED
    BY <1>1, <1>2, <1>3, <1>4, <1>5 DEF Next

\* The machine's inductive invariant holds throughout: the queues, the family
\* tree, the timers, the accounting and the control flow of runcpu() agree.
THEOREM Invariance == Spec => []IInv
<1>1. Init => IInv
    BY InitIInv
<1>2. IInv /\ [Next]_vars => IInv'
    BY NextIInv
<1> QED
    BY <1>1, <1>2, PTL DEF Spec

\* When the loop of runcpu() is left nothing is allocated any more: a task still
\* asleep would keep its ancestors, hence Init, in the ring the loop tests.
LEMMA ShutdownIsClean == IInv => NothingLeftAtShutdown
<1> SUFFICES ASSUME IInv, pc = "done"
             PROVE  alive = {} /\ intwaitlist = <<>> /\ kill = {} /\ need_reschedule = {}
    BY DEF NothingLeftAtShutdown
<1>1. rq = <<>> /\ need_reschedule = {}
    BY DEF IInv, ControlInv
<1>2. alive = {}
  <2>1. InitTask \notin alive
      BY <1>1, InitIsQueued DEF IInv
  <2> QED
      BY <2>1, AliveHasInit DEF IInv, FamilyInv
<1>3. intwaitlist = <<>>
  <2>1. ToSet(intwaitlist) = {} /\ intwaitlist \in Seq(Procs)
      BY <1>2 DEF IInv, TypeOK, QueueInv, QueuesHoldLiveTasksOnce
  <2>2. \A i \in DOMAIN intwaitlist : intwaitlist[i] \in ToSet(intwaitlist)
      BY DEF ToSet
  <2>3. CASE intwaitlist # <<>>
    <3>1. 1 \in DOMAIN intwaitlist
        BY <2>1, <2>3, EmptySeq
    <3> QED
        BY <2>1, <2>2, <3>1
  <2> QED
      BY <2>3
<1> QED
    BY <1>1, <1>2, <1>3 DEF IInv, FamilyInv

\* Each safety property is a consequence of the invariant in the same state.
LEMMA InvariantGives ==
    IInv => /\ TypeOK /\ QueuesHoldLiveTasksOnce /\ HeadIsInitAndCountExact
            /\ CpuRunsQueuedTask /\ InitRunsOnlyWhenAlone /\ RescheduleServedInItsPass
            /\ ParentOutlivesChild /\ ChildCountExact
            /\ SleeperHasArmedTimer /\ NothingLeftAtShutdown
<1> SUFFICES ASSUME IInv
             PROVE  /\ TypeOK /\ QueuesHoldLiveTasksOnce /\ HeadIsInitAndCountExact
                    /\ CpuRunsQueuedTask /\ InitRunsOnlyWhenAlone /\ RescheduleServedInItsPass
                    /\ ParentOutlivesChild /\ ChildCountExact
                    /\ SleeperHasArmedTimer /\ NothingLeftAtShutdown
    OBVIOUS
<1>1. TypeOK /\ QueuesHoldLiveTasksOnce /\ HeadIsInitAndCountExact
    BY DEF IInv, QueueInv
<1>2. CpuRunsQueuedTask /\ InitRunsOnlyWhenAlone /\ RescheduleServedInItsPass
    BY DEF IInv, ControlInv, CpuReady, CpuRunsQueuedTask, InitRunsOnlyWhenAlone,
       RescheduleServedInItsPass
<1>3. ParentOutlivesChild /\ ChildCountExact
    BY DEF IInv, FamilyInv
<1>4. SleeperHasArmedTimer
    BY DEF IInv, TimerInv, SleeperHasArmedTimer
<1> QED
    BY <1>1, <1>2, <1>3, <1>4, ShutdownIsClean

\* The state of the machine keeps its type: no counter or accounting time of
\* schedule.c and sjf_lib.c leaves the natural numbers.
THEOREM TypeCorrectness == Spec => []TypeOK
BY Invariance, InvariantGives, PTL

\* wake_up_new_task, activate_task, deactivate_task and killtask keep every
\* allocated task in the run queue or on the wait list, once, and nothing else.
THEOREM QueueSoundness == Spec => []QueuesHoldLiveTasksOnce
BY Invariance, InvariantGives, PTL

\* The head pointer schedule() follows is Init's, and the count schedule() and
\* runcpu() branch on is the length of the ring.
THEOREM RingShape == Spec => []HeadIsInitAndCountExact
BY Invariance, InvariantGives, PTL

\* cycle() is only ever run for a task of the run queue.
THEOREM CpuSafety == Spec => []CpuRunsQueuedTask
BY Invariance, InvariantGives, PTL

\* schedule() hands the CPU to Init only when no process is runnable, also after
\* a fork or a wake-up of the same pass of the loop.
THEOREM InitYields == Spec => []InitRunsOnlyWhenAlone
BY Invariance, InvariantGives, PTL

\* No need_reschedule flag survives the pass of runcpu()'s loop that set it.
THEOREM RescheduleServed == Spec => []RescheduleServedInItsPass
BY Invariance, InvariantGives, PTL

\* taskEnd and killtask never go through a parent that was freed.
THEOREM ParentSafety == Spec => []ParentOutlivesChild
BY Invariance, InvariantGives, PTL

\* forktask and killtask keep thread_info.children the number of live children.
THEOREM ChildCount == Spec => []ChildCountExact
BY Invariance, InvariantGives, PTL

\* Whenever the CPU runs while a task waits for IO, the one global timer that
\* wakes it is running.
THEOREM TimerSafety == Spec => []SleeperHasArmedTimer
BY Invariance, InvariantGives, PTL

\* The loop of runcpu() is left only when every task was freed.
THEOREM CleanShutdown == Spec => []NothingLeftAtShutdown
BY Invariance, InvariantGives, PTL

-----------------------------------------------------------------------------
(* The machine implements TaskLife *)

LEMMA BecomeStep ==
    ASSUME NEW t \in Tasks, NEW s, Status(t)' = s, UNCHANGED profile,
           \A u \in Tasks \ {t} : Status(u)' = Status(u)
    PROVE  Life!Become(t, s) /\ UNCHANGED [u \in Procs |-> profile[u].parent]
<1>1. [u \in Tasks |-> Status(u)]' = [[u \in Tasks |-> Status(u)] EXCEPT ![t] = s]
    OBVIOUS
<1> QED
    BY <1>1 DEF Life!Become

\* A step that moves no task leaves every life as it was.
LEMMA SameStatus ==
    ASSUME UNCHANGED <<profile, rq, intwaitlist, unspawned>>
    PROVE  UNCHANGED <<[u \in Procs |-> profile[u].parent], [u \in Tasks |-> Status(u)]>>
<1>1. \A u \in Tasks : Status(u)' = Status(u)
    BY DEF Status, InRing
<1> QED
    BY <1>1

\* Where the queues say a task is, as TaskLife reads it.
LEMMA LifeReads ==
    ASSUME QueueInv, NEW t \in Tasks
    PROVE  /\ Life!Ready(t) <=> InRing(t)
           /\ Status(t) = "waiting" <=> t \in ToSet(intwaitlist)
           /\ Status(t) \in {"ready", "waiting"} <=> t \in alive
           /\ Status(t) = "unborn" => t \in unspawned
           /\ t \in unspawned => Status(t) = "unborn"
           /\ [u \in Tasks |-> Status(u)][t] = Status(t)
<1>1. /\ ToSet(rq) \cap ToSet(intwaitlist) = {} /\ alive \cap unspawned = {}
      /\ ToSet(rq) \cup ToSet(intwaitlist) = alive
    BY DEF QueueInv, QueuesHoldLiveTasksOnce
<1>2. Life!Ready(t) <=> Status(t) = "ready"
    BY DEF Life!Ready, Life!Tasks, Tasks
<1>3. Status(t) = "ready" <=> InRing(t)
    BY DEF Status
<1> QED
    BY <1>1, <1>2, <1>3 DEF Status, InRing

\* The CPU given away by schedule(), or kept.
LEMMA DispatchStep ==
    ASSUME IInv, UNCHANGED <<profile, rq, intwaitlist, unspawned>>,
           current' \in Tasks, InRing(current'), current' = InitTask => nr_running = 1
    PROVE  [Life!Next]_Life!vars
<1>1. UNCHANGED <<[u \in Procs |-> profile[u].parent], [u \in Tasks |-> Status(u)]>>
    BY SameStatus
<1>2. CASE current' = current
    BY <1>1, <1>2 DEF Life!vars
<1>3. CASE current' # current
  <2>1. Life!Ready(current')
      BY LifeReads DEF IInv
  <2>2. ASSUME current' = InitTask PROVE \A p \in Procs : ~Life!Ready(p)
    <3>1. rq \in Seq(Tasks) /\ Len(rq) = 1 /\ rq[1] = InitTask
      <4>1. rq # <<>> /\ rq \in Seq(Tasks)
          BY DEF IInv, TypeOK, InRing, ToSet
      <4> QED
          BY <2>2, <4>1 DEF IInv, QueueInv, HeadIsInitAndCountExact
    <3>2. ToSet(rq) = {InitTask}
        BY <3>1 DEF ToSet
    <3>3. \A p \in Procs : p \in Tasks /\ ~InRing(p)
        BY <3>2, TaskAssumption DEF InRing, Tasks
    <3> QED
        BY <3>3, LifeReads DEF IInv
  <2>3. Life!Dispatch(current')
      BY <1>1, <1>3, <2>1, <2>2 DEF Life!Dispatch
  <2>4. current' \in Life!Tasks
      BY DEF Life!Tasks, Tasks
  <2> QED
      BY <1>1, <2>3, <2>4 DEF Life!Next
<1> QED
    BY <1>2, <1>3

LEMMA ExitLife == IInv /\ Exit => Life!Next
<1> SUFFICES ASSUME IInv, Exit PROVE Life!Next
    OBVIOUS
<1>1. /\ CpuReady /\ current \in Tasks /\ current \in ToSet(rq)
      /\ current \notin ToSet(intwaitlist)
    BY CpuFacts DEF Exit
<1>2. ToSet(rq') = ToSet(rq) \ {current}
    BY <1>1, UnlinkEffect DEF Exit, IInv
<1>3. UNCHANGED <<profile, intwaitlist, unspawned>> /\ current' = IdleTask
    BY DEF Exit
<1>4. Life!Become(current, "gone") /\ UNCHANGED [u \in Procs |-> profile[u].parent]
  <2>1. PICK c : c = current
      OBVIOUS
  <2>2. c \notin unspawned
      BY <1>1, <2>1 DEF IInv, QueueInv, QueuesHoldLiveTasksOnce
  <2>3. Status(c)' = "gone"
      BY <1>1, <1>2, <1>3, <2>1, <2>2 DEF Status, InRing
  <2>4. \A u \in Tasks \ {c} : Status(u)' = Status(u)
      BY <1>2, <1>3, <2>1 DEF Status, InRing
  <2>5. Life!Become(c, "gone") /\ UNCHANGED [u \in Procs |-> profile[u].parent]
      BY <1>1, <1>3, <2>1, <2>3, <2>4, BecomeStep
  <2> QED
      BY <2>1, <2>5
<1>5. \A t \in Procs : profile[t].parent = current => Status(t) \in {"unborn", "gone"}
  <2> SUFFICES ASSUME NEW t \in Procs, profile[t].parent = current
               PROVE  Status(t) \in {"unborn", "gone"}
      OBVIOUS
  <2>1. t \notin alive
      BY <1>1, NoChild DEF Exit, MayBeFreed, IInv
  <2>2. t \in Tasks
      BY DEF Tasks
  <2>3. Status(t) \notin {"ready", "waiting"}
      BY <2>1, <2>2, LifeReads DEF IInv
  <2> QED
      BY <2>3 DEF Status
<1>6. \A t \in Procs : [u \in Procs |-> profile[u].parent][t] = current
          => [u \in Tasks |-> Status(u)][t] \in {"unborn", "gone"}
    BY <1>5 DEF Tasks
<1>7. Life!Ready(current)
    BY <1>1, LifeReads DEF IInv, InRing
<1> QED
    BY <1>3, <1>4, <1>6, <1>7 DEF Life!Next, Life!End

LEMMA SleepLife == IInv /\ Sleep => Life!Next
<1> SUFFICES ASSUME IInv, Sleep PROVE Life!Next
    OBVIOUS
<1>1. /\ CpuReady /\ current \in Tasks /\ current \in ToSet(rq)
      /\ current \notin ToSet(intwaitlist)
      /\ UNCHANGED <<profile, unspawned, current>>
    BY RunTickEffect DEF Sleep
<1>2. current \in Procs /\ current # InitTask
    BY TaskAssumption DEF Sleep, WaitTimerExpires, IsInteractive
<1>3. ToSet(rq') = ToSet(rq) \ {current}
    BY <1>1, UnlinkEffect DEF Sleep, IInv
<1>4. ToSet(intwaitlist') = ToSet(intwaitlist) \cup {current}
  <2>1. intwaitlist \in Seq(Procs)
      BY DEF IInv, TypeOK
  <2> QED
      BY <1>2, <2>1, AppendMembers DEF Sleep
<1>5. Life!Become(current, "waiting") /\ UNCHANGED [u \in Procs |-> profile[u].parent]
  <2>1. Status(current)' = "waiting"
      BY <1>1, <1>3, <1>4 DEF Status, InRing
  <2>2. \A u \in Tasks \ {current} : Status(u)' = Status(u)
      BY <1>1, <1>3, <1>4 DEF Status, InRing
  <2> QED
      BY <1>1, <2>1, <2>2, BecomeStep
<1>6. Life!Ready(current)
    BY <1>1, LifeReads DEF IInv, InRing
<1> QED
    BY <1>1, <1>2, <1>5, <1>6 DEF Life!Next, Life!Wait

LEMMA ForkLife == IInv /\ (\E c \in Procs : Fork(c)) => Life!Next
<1> SUFFICES ASSUME IInv, NEW c \in Procs, Fork(c) PROVE Life!Next
    OBVIOUS
<1>1. current \in alive /\ InitTask \in alive
    BY AliveHasInit DEF Fork, IInv, ControlInv, FamilyInv
<1>2. /\ c \in unspawned /\ profile[c].parent \in alive /\ profile[c].parent \in Tasks
      /\ c \in Tasks
    BY <1>1, ProfileType DEF Fork, Due, IInv, Tasks
<1>3. c \notin ToSet(rq) /\ rq # <<>>
    BY <1>1, <1>2, InitIsQueued DEF IInv, QueueInv, QueuesHoldLiveTasksOnce
<1>4. ToSet(rq') = ToSet(rq) \cup {c}
    BY <1>2, <1>3, EnqueueEffect DEF Fork, IInv
<1>5. UNCHANGED <<profile, intwaitlist, current>> /\ unspawned' = unspawned \ {c}
    BY DEF Fork
<1>6. Life!Become(c, "ready") /\ UNCHANGED [u \in Procs |-> profile[u].parent]
  <2>1. Status(c)' = "ready"
      BY <1>4 DEF Status, InRing
  <2>2. \A u \in Tasks \ {c} : Status(u)' = Status(u)
      BY <1>4, <1>5 DEF Status, InRing
  <2> QED
      BY <1>2, <1>5, <2>1, <2>2, BecomeStep
<1>7. Status(c) = "unborn" /\ Status(profile[c].parent) \in {"ready", "waiting"}
    BY <1>2, LifeReads DEF IInv
<1>8. /\ [u \in Tasks |-> Status(u)][c] = "unborn"
      /\ [u \in Tasks |-> Status(u)][[u \in Procs |-> profile[u].parent][c]]
            \in {"ready", "waiting"}
    BY <1>2, <1>7
<1> QED
    BY <1>5, <1>6, <1>8 DEF Life!Next, Life!Fork

LEMMA WakeLife == IInv /\ WakeOne => Life!Next
<1> SUFFICES ASSUME IInv, WakeOne PROVE Life!Next
    OBVIOUS
<1>0. PICK t : t = Head(intwaitlist)
    OBVIOUS
<1>1. /\ intwaitlist # <<>> /\ intwaitlist' = Tail(intwaitlist) /\ Enqueue(t)
      /\ UNCHANGED <<profile, current, unspawned>>
    BY <1>0 DEF WakeOne, ListDelFirst, tree
<1>2. /\ t \in Procs /\ t \in ToSet(intwaitlist) /\ t \in Tasks
      /\ ToSet(intwaitlist') = ToSet(intwaitlist) \ {t}
  <2>1. intwaitlist \in Seq(Procs) /\ IsInjective(intwaitlist)
      BY DEF IInv, TypeOK, QueueInv, QueuesHoldLiveTasksOnce
  <2> QED
      BY <1>0, <1>1, <2>1, TailMembers DEF Tasks
<1>3. rq # <<>> /\ t \notin ToSet(rq)
  <2>1. t \in alive /\ t \notin ToSet(rq)
      BY <1>2 DEF IInv, QueueInv, QueuesHoldLiveTasksOnce
  <2>2. InitTask \in alive
      BY <2>1, AliveHasInit DEF IInv, FamilyInv
  <2> QED
      BY <2>1, <2>2, InitIsQueued DEF IInv
<1>4. ToSet(rq') = ToSet(rq) \cup {t}
    BY <1>1, <1>2, <1>3, EnqueueEffect DEF IInv
<1>5. Life!Become(t, "ready") /\ UNCHANGED [u \in Procs |-> profile[u].parent]
  <2>1. Status(t)' = "ready"
      BY <1>4 DEF Status, InRing
  <2>2. \A u \in Tasks \ {t} : Status(u)' = Status(u)
      BY <1>1, <1>2, <1>4 DEF Status, InRing
  <2> QED
      BY <1>1, <1>2, <2>1, <2>2, BecomeStep
<1>6. [u \in Tasks |-> Status(u)][t] = "waiting"
    BY <1>2, LifeReads DEF IInv
<1> QED
    BY <1>1, <1>2, <1>5, <1>6 DEF Life!Next, Life!Wake

\* The steps that schedule() is part of.
LEMMA ScheduleLife == IInv /\ (TickFires \/ Reschedule) => [Life!Next]_Life!vars
<1> SUFFICES ASSUME IInv, TickFires \/ Reschedule PROVE [Life!Next]_Life!vars
    OBVIOUS
<1>1. UNCHANGED <<profile, rq, nr_running, intwaitlist, unspawned>>
    BY DEF TickFires, Reschedule, queue, tree
<1>2. CASE TickFires /\ ~InRing(current)
  <2>1. current' = current
      BY <1>2 DEF TickFires
  <2> QED
      BY <1>1, <2>1, SameStatus DEF Life!vars
<1>3. CASE TickFires /\ InRing(current)
  <2>1. IInv'
      BY <1>3, TickFiresStep
  <2>2. pc' = "io" /\ need_reschedule' \cap {current'} = {}
    <3>1. pc' = "io" /\ Schedule(jiffies')
        BY <1>3 DEF TickFires
    <3> QED
        BY <3>1 DEF Schedule, ResetFlag, IInv, ControlInv
  <2>3. CpuReady' \/ rq' = <<>>
      BY <2>1, <2>2 DEF IInv, ControlInv
  <2>4. rq' # <<>>
      BY <1>1, <1>3 DEF InRing, ToSet
  <2>5. InRing(current') /\ (current' = InitTask => nr_running = 1)
      BY <1>1, <2>3, <2>4 DEF CpuReady, InRing
  <2>6. current' \in Tasks
      BY <2>5 DEF InRing, IInv, QueueInv, QueuesHoldLiveTasksOnce, TypeOK
  <2> QED
      BY <1>1, <2>5, <2>6, DispatchStep
<1>4. CASE Reschedule
  <2>1. IInv'
      BY <1>4, RescheduleStep
  <2>2. pc' = "end" /\ nr_running # 0
      BY <1>4 DEF Reschedule
  <2>3. CpuReady' \/ rq' = <<>>
      BY <2>1, <2>2 DEF IInv, ControlInv
  <2>4. rq' # <<>>
      BY <1>1, <2>2, EmptySeq DEF IInv, QueueInv, HeadIsInitAndCountExact
  <2>5. InRing(current') /\ (current' = InitTask => nr_running = 1)
      BY <1>1, <2>3, <2>4 DEF CpuReady, InRing
  <2>6. current' \in Tasks
      BY <2>5 DEF InRing, IInv, QueueInv, QueuesHoldLiveTasksOnce, TypeOK
  <2> QED
      BY <1>1, <2>5, <2>6, DispatchStep
<1> QED
    BY <1>2, <1>3, <1>4

\* Every step of the machine is a step of some task's life, or none.
LEMMA NextLife == IInv /\ [Next]_vars => [Life!Next]_Life!vars
<1> SUFFICES ASSUME IInv, [Next]_vars PROVE [Life!Next]_Life!vars
    OBVIOUS
<1>1. CASE Exit \/ Sleep \/ (\E c \in Procs : Fork(c)) \/ WakeOne
    BY <1>1, ExitLife, SleepLife, ForkLife, WakeLife
<1>2. CASE TickFires \/ Reschedule
    BY <1>2, ScheduleLife
<1>3. ASSUME UNCHANGED <<profile, rq, intwaitlist, unspawned, current>>
      PROVE  [Life!Next]_Life!vars
    BY <1>3, SameStatus DEF Life!vars
<1>4. CASE KeepRunning
  <2>1. UNCHANGED <<profile, rq, intwaitlist, unspawned, current>>
      BY <1>4 DEF KeepRunning, RunTick, queue
  <2> QED
      BY <1>3, <2>1
<1>5. CASE SpawnDone \/ TickCountdown \/ IoCountdown \/ IoEvent \/ WakeDone
  <2>1. UNCHANGED <<profile, rq, intwaitlist, unspawned, current>>
      BY <1>5 DEF SpawnDone, TickCountdown, IoCountdown, IoEvent, WakeDone, queue, tree
  <2> QED
      BY <1>3, <2>1
<1>6. CASE NoReschedule \/ RescheduleEmpty \/ EndCycle \/ EndCycleFreed
  <2>1. UNCHANGED <<profile, rq, intwaitlist, unspawned, current>>
      BY <1>6 DEF NoReschedule, RescheduleEmpty, EndCycle, EndCycleFreed, queue, tree
  <2> QED
      BY <1>3, <2>1
<1>7. CASE Stopped \/ UNCHANGED vars
  <2>1. UNCHANGED <<profile, rq, intwaitlist, unspawned, current>>
      BY <1>7 DEF Stopped, vars, queue, tree
  <2> QED
      BY <1>3, <2>1
<1> QED
    BY <1>1, <1>2, <1>4, <1>5, <1>6, <1>7 DEF Next, Cycle, Spawn, Interrupt, Finish

LEMMA InitLife == Init => Life!Init
<1> SUFFICES ASSUME Init PROVE Life!Init
    OBVIOUS
<1>1. IInv
    BY InitIInv
<1>2. [t \in Procs |-> profile[t].parent] \in [Procs -> Life!Tasks]
  <2>1. \A t \in Procs : profile[t].parent \in Tasks
      BY <1>1, ProfileType DEF IInv
  <2> QED
      BY <2>1 DEF Life!Tasks, Tasks
<1>3. ToSet(rq) = {InitTask} /\ ToSet(intwaitlist) = {} /\ unspawned = Procs
    BY DEF Init, ToSet
<1>4. \A t \in Tasks : Status(t) = IF t = InitTask THEN "ready" ELSE "unborn"
    BY <1>3, TaskAssumption DEF Status, InRing, Tasks
<1> QED
    BY <1>2, <1>4 DEF Life!Init, Life!Tasks, Tasks, Init

\* runcpu() implements TaskLife: no order of forks, sleeps, wake-ups, exits and
\* calls of schedule() gives a task a second life, ends it before its children, or
\* hands the CPU to a task that cannot use it.
THEOREM TaskLifeRefinement == Spec => FollowsTaskLife
<1>1. Init => Life!Init
    BY InitLife
<1>2. IInv /\ [Next]_vars => [Life!Next]_Life!vars
    BY NextLife
<1> QED
    BY <1>1, <1>2, Invariance, PTL DEF Spec, FollowsTaskLife, Life!Spec

-----------------------------------------------------------------------------
(* The accounting of schedule() *)

IsAcct(r, exp, waiting, start) ==
    r.exp_burst = exp /\ r.waiting_in_rq = waiting /\ r.process_start_time = start

Accts == [exp_burst: Nat, waiting_in_rq: Nat, process_start_time: Nat]

\* Only the process that gives up the CPU is accounted for.
LEMMA AccountedIs ==
    ASSUME TypeOK, TimesInPast, NEW j \in Nat, sched_clock(jiffies) <= sched_clock(j)
    PROVE  /\ Accounted(j) \in [Procs -> Accts]
           /\ \A t \in Procs :
                 IF t = current
                 THEN IsAcct(Accounted(j)[t], CalcExpBurst(acct[t], j),
                             CalcWaiting(acct[t], j), acct[t].process_start_time)
                 ELSE Accounted(j)[t] = acct[t]
<1>1. acct \in [Procs -> Accts]
    BY DEF TypeOK, Accts
<1>2. CASE current \in Procs
  <2> DEFINE w == CalcWaiting(acct[current], j)
             e == CalcExpBurst(acct[current], j)
  <2>1. sched_clock(j) \in Nat /\ sched_clock(jiffies) \in Nat
      BY ClockType DEF TypeOK
  <2>2. acct[current] \in Accts /\ acct[current].process_start_time <= sched_clock(j)
    <3>1. acct[current] \in Accts /\ acct[current].process_start_time <= sched_clock(jiffies)
        BY <1>1, <1>2 DEF TimesInPast
    <3>2. acct[current].process_start_time \in Nat
        BY <3>1 DEF Accts
    <3> QED
        BY <2>1, <3>1, <3>2
  <2>3. w \in Nat /\ e \in Nat
      BY <2>2, AcctType DEF Accts
  <2>4. Accounted(j) = [acct EXCEPT ![current].waiting_in_rq = w, ![current].exp_burst = e]
      BY <1>2 DEF Accounted
  <2> HIDE DEF w, e
  <2>5. PICK r \in Accts : r = acct[current]
      BY <2>2
  <2>6. /\ [r EXCEPT !.waiting_in_rq = w, !.exp_burst = e] \in Accts
        /\ IsAcct([r EXCEPT !.waiting_in_rq = w, !.exp_burst = e], e, w, r.process_start_time)
      BY <2>3 DEF IsAcct, Accts
  <2>7. \A t \in Procs :
           Accounted(j)[t] = IF t = current
                             THEN [r EXCEPT !.waiting_in_rq = w, !.exp_burst = e]
                             ELSE acct[t]
      BY <1>1, <1>2, <2>4, <2>5
  <2>8. Accounted(j) = [t \in Procs |-> Accounted(j)[t]]
      BY <1>1, <2>4
  <2>9. Accounted(j) \in [Procs -> Accts]
      BY <1>1, <2>6, <2>7, <2>8
  <2> QED
      BY <2>5, <2>6, <2>7, <2>9 DEF w, e
<1>3. CASE current \notin Procs
    BY <1>1, <1>3 DEF Accounted
<1> QED
    BY <1>2, <1>3

\* The average calc_exp_burst takes is bounded below by two thirds of the burst
\* that ends, above by the clock.
LEMMA ExpBurstBounds ==
    ASSUME NEW j \in Nat, NEW a \in Accts,
           a.process_start_time <= sched_clock(j), a.exp_burst <= sched_clock(j)
    PROVE  /\ CalcExpBurst(a, j) \in Nat /\ CalcExpBurst(a, j) <= sched_clock(j)
           /\ 3 * (1 + CalcExpBurst(a, j)) >= 2 * (sched_clock(j) - a.process_start_time) + 1
<1> DEFINE now == sched_clock(j)
           b == now - a.process_start_time
           x == a.exp_burst
<1>1. now \in Nat
    BY ClockType
<1>2. b \in Nat /\ b <= now /\ x \in Nat /\ x <= now
    BY <1>1 DEF Accts
<1>3. CalcExpBurst(a, j) = (2 * b + x) \div 3
    BY DEF CalcExpBurst
<1> HIDE DEF now, b, x
<1>4. /\ (2 * b + x) \div 3 \in Nat /\ 3 * ((2 * b + x) \div 3) <= 2 * b + x
      /\ 2 * b + x <= 3 * ((2 * b + x) \div 3) + 2
    BY <1>1, <1>2
<1>5. /\ CalcExpBurst(a, j) \in Nat /\ CalcExpBurst(a, j) <= now
      /\ 3 * (1 + CalcExpBurst(a, j)) >= 2 * b + 1
    BY <1>1, <1>2, <1>3, <1>4
<1> QED
    BY <1>5 DEF now, b

\* No expected burst is longer than the machine has been running.
BurstsBounded == \A t \in Procs : acct[t].exp_burst <= sched_clock(jiffies)

LEMMA ClockMoves ==
    ASSUME TypeOK, [Next]_vars
    PROVE  /\ jiffies \in Nat /\ jiffies' \in Nat
           /\ sched_clock(jiffies) \in Nat /\ sched_clock(jiffies') \in Nat
           /\ sched_clock(jiffies) <= sched_clock(jiffies')
<1>1. jiffies \in Nat
    BY DEF TypeOK
<1>2. jiffies' \in {jiffies, jiffies + 1}
    BY DEF Next, Cycle, Spawn, Interrupt, Finish, Exit, KeepRunning, Sleep, RunTick, Fork,
       SpawnDone, TickCountdown, TickFires, IoCountdown, IoEvent, WakeOne, WakeDone,
       NoReschedule, Reschedule, RescheduleEmpty, EndCycle, EndCycleFreed, Stopped, vars, clocks
<1>3. sched_clock(jiffies) \in Nat /\ sched_clock(jiffies + 1) \in Nat
      /\ sched_clock(jiffies) <= sched_clock(jiffies + 1)
    BY <1>1, ClockType
<1>4. sched_clock(jiffies) <= sched_clock(jiffies)
    BY <1>3
<1> QED
    BY <1>1, <1>2, <1>3, <1>4

LEMMA ScheduleBursts ==
    ASSUME IInv, BurstsBounded, NEW j \in Nat, sched_clock(jiffies) <= sched_clock(j),
           sched_clock(j) \in Nat, Schedule(j)
    PROVE  \A t \in Procs : acct'[t].exp_burst <= sched_clock(j)
<1>1. /\ acct \in [Procs -> Accts]
      /\ \A t \in Procs : /\ acct[t].exp_burst <= sched_clock(j)
                          /\ acct[t].process_start_time <= sched_clock(j)
  <2> DEFINE old == sched_clock(jiffies)
             new == sched_clock(j)
  <2>1. acct \in [Procs -> Accts]
      BY DEF IInv, TypeOK, Accts
  <2>2. \A t \in Procs : /\ acct[t].exp_burst \in Nat /\ acct[t].exp_burst <= old
                         /\ acct[t].process_start_time \in Nat
                         /\ acct[t].process_start_time <= old
      BY <2>1 DEF Accts, IInv, TimesInPast, BurstsBounded
  <2>3. old \in Nat /\ new \in Nat /\ old <= new
      BY ClockType DEF IInv, TypeOK
  <2> HIDE DEF old, new
  <2>4. \A t \in Procs : /\ acct[t].exp_burst <= new /\ acct[t].process_start_time <= new
      BY <2>2, <2>3
  <2> QED
      BY <2>1, <2>4 DEF new
<1>2. Accounted(j) \in [Procs -> Accts]
      /\ \A t \in Procs : Accounted(j)[t].exp_burst <= sched_clock(j)
  <2>1. /\ Accounted(j) \in [Procs -> Accts]
        /\ \A t \in Procs :
              IF t = current
              THEN IsAcct(Accounted(j)[t], CalcExpBurst(acct[t], j),
                          CalcWaiting(acct[t], j), acct[t].process_start_time)
              ELSE Accounted(j)[t] = acct[t]
      BY AccountedIs DEF IInv
  <2>2. \A t \in Procs : CalcExpBurst(acct[t], j) <= sched_clock(j)
      BY <1>1, ExpBurstBounds
  <2>3. \A t \in Procs : Accounted(j)[t].exp_burst \in {acct[t].exp_burst, CalcExpBurst(acct[t], j)}
      BY <2>1 DEF IsAcct
  <2> QED
      BY <1>1, <2>1, <2>2, <2>3
<1>3. CASE UNCHANGED acct
    BY <1>1, <1>3
<1>4. ASSUME NEW i \in 2..Len(rq),
             acct' = [Accounted(j) EXCEPT ![rq[i]].process_start_time = sched_clock(j)]
      PROVE  \A t \in Procs : acct'[t].exp_burst <= sched_clock(j)
  <2>1. \A t \in Procs : acct'[t].exp_burst = Accounted(j)[t].exp_burst
      BY <1>2, <1>4 DEF Accts
  <2> QED
      BY <1>2, <2>1
<1> QED
    BY <1>3, <1>4 DEF Schedule

LEMMA NextBursts == IInv /\ BurstsBounded /\ [Next]_vars => BurstsBounded'
<1> SUFFICES ASSUME IInv, BurstsBounded, [Next]_vars PROVE BurstsBounded'
    OBVIOUS
<1>1. /\ jiffies \in Nat /\ jiffies' \in Nat
      /\ sched_clock(jiffies) \in Nat /\ sched_clock(jiffies') \in Nat
      /\ sched_clock(jiffies) <= sched_clock(jiffies')
    BY ClockMoves DEF IInv
<1>2. /\ acct \in [Procs -> Accts]
      /\ \A t \in Procs : /\ acct[t].exp_burst \in Nat
                          /\ acct[t].exp_burst <= sched_clock(jiffies)
    BY DEF IInv, TypeOK, Accts, BurstsBounded
<1>3. ASSUME \A t \in Procs : acct'[t].exp_burst \in {0, acct[t].exp_burst}
      PROVE  BurstsBounded'
  <2> DEFINE old == sched_clock(jiffies)
             new == sched_clock(jiffies')
  <2>1. old \in Nat /\ new \in Nat /\ old <= new
        /\ \A t \in Procs : acct[t].exp_burst \in Nat /\ acct[t].exp_burst <= old
      BY <1>1, <1>2
  <2> HIDE DEF old, new
  <2>2. \A t \in Procs : acct'[t].exp_burst <= new
      BY <1>3, <2>1
  <2> QED
      BY <2>2 DEF new, BurstsBounded, sched_clock
<1>4. CASE (TickFires /\ InRing(current)) \/ Reschedule
  <2>1. PICK j \in Nat : j = jiffies'
      BY <1>1
  <2>2. Schedule(j)
      BY <1>4, <2>1 DEF TickFires, Reschedule
  <2>3. \A t \in Procs : acct'[t].exp_burst <= sched_clock(jiffies')
      BY <1>1, <2>1, <2>2, ScheduleBursts
  <2> QED
      BY <2>3 DEF BurstsBounded, sched_clock
<1>5. CASE Exit
  <2>1. \A t \in Procs : acct'[t].exp_burst \in {0, acct[t].exp_burst}
      BY <1>5 DEF Exit, NoAcct
  <2> QED
      BY <1>3, <2>1
<1>6. CASE Sleep \/ WakeOne
  <2>1. PICK t, w : acct' = [acct EXCEPT ![t].waiting_in_rq = w]
      BY <1>6 DEF Sleep, WakeOne
  <2>2. \A u \in Procs : acct'[u].exp_burst = acct[u].exp_burst
      BY <1>2, <2>1 DEF Accts
  <2> QED
      BY <1>3, <2>2
<1>7. CASE \E c \in Procs : Fork(c)
  <2>1. PICK c \in Procs :
           acct' = [acct EXCEPT ![c] = [NoAcct EXCEPT !.waiting_in_rq = sched_clock(jiffies)]]
      BY <1>7 DEF Fork
  <2>2. [NoAcct EXCEPT !.waiting_in_rq = sched_clock(jiffies)].exp_burst = 0
      BY DEF NoAcct
  <2>3. \A u \in Procs : acct'[u].exp_burst \in {0, acct[u].exp_burst}
      BY <1>2, <2>1, <2>2
  <2> QED
      BY <1>3, <2>3
<1>8. CASE UNCHANGED acct
    BY <1>3, <1>8
<1>9. CASE KeepRunning \/ SpawnDone \/ TickCountdown \/ IoCountdown \/ IoEvent \/ WakeDone
  <2>1. UNCHANGED acct
      BY <1>9 DEF KeepRunning, SpawnDone, TickCountdown, IoCountdown, IoEvent, WakeDone
  <2> QED
      BY <1>8, <2>1
<1>10. CASE \/ TickFires /\ ~InRing(current)
            \/ NoReschedule \/ RescheduleEmpty \/ EndCycle \/ EndCycleFreed \/ Stopped
            \/ UNCHANGED vars
  <2>1. UNCHANGED acct
      BY <1>10 DEF TickFires, NoReschedule, RescheduleEmpty, EndCycle, EndCycleFreed, Stopped, vars
  <2> QED
      BY <1>8, <2>1
<1> QED
    BY <1>4, <1>5, <1>6, <1>7, <1>9, <1>10 DEF Next, Cycle, Spawn, Interrupt, Finish

-----------------------------------------------------------------------------
(* The schedule tick takes the CPU away *)

LEMMA ProductsGrow ==
    ASSUME NEW a \in Nat, NEW b \in Nat, NEW c \in Nat, NEW d \in Nat, a <= b, c <= d
    PROVE  a * c \in Nat /\ b * d \in Nat /\ a * c <= b * d
<1>1. PICK u \in Nat : b = a + u
    BY (b - a) \in Nat
<1>2. PICK v \in Nat : d = c + v
    BY (d - c) \in Nat
<1>3. b * d = a * c + a * v + u * c + u * v
    BY <1>1, <1>2
<1>4. a * c \in Nat /\ a * v \in Nat /\ u * c \in Nat /\ u * v \in Nat
    OBVIOUS
<1> QED
    BY <1>3, <1>4

\* Against a process that waited for a jiffy, one that held the CPU for a jiffy
\* has the greater goodness, as long as the machine has not run for too long.
LEMMA HolderIsWorse ==
    ASSUME NEW J \in Nat \ {0}, NEW f \in Nat, NEW M \in Nat, f < M, 3 * M <= 2 * J,
           NEW x \in Nat, x <= f * J,
           NEW y \in Nat, 3 * (1 + y) >= 2 * J + 1,
           NEW age \in Nat, age >= J
    PROVE  (1 + x) * 1 < (1 + y) * (1 + age)
<1>1. (3 * (1 + y)) * (1 + age) >= (2 * J + 1) * (1 + J)
    BY ProductsGrow
<1>2. (2 * J + 1) * (1 + J) = 2 * (J * J) + 3 * J + 1
    OBVIOUS
<1>3. (3 * f) * J + 3 * J <= 2 * (J * J)
  <2>1. 3 * f + 3 <= 2 * J
      OBVIOUS
  <2>2. (3 * f + 3) * J <= (2 * J) * J
      BY <2>1, ProductsGrow
  <2>3. (3 * f + 3) * J = (3 * f) * J + 3 * J /\ (2 * J) * J = 2 * (J * J)
      OBVIOUS
  <2> QED
      BY <2>2, <2>3
<1>4. 3 * x <= (3 * f) * J
  <2>1. (3 * f) * J = 3 * (f * J) /\ f * J \in Nat
      OBVIOUS
  <2> QED
      BY <2>1
<1>5. 3 * ((1 + y) * (1 + age)) = (3 * (1 + y)) * (1 + age)
    OBVIOUS
<1> DEFINE p == (1 + y) * (1 + age)
           q == J * J
           r == (3 * f) * J
<1>6. p \in Nat /\ q \in Nat /\ r \in Nat
    OBVIOUS
<1>7. 3 * p >= 2 * q + 3 * J + 1 /\ r + 3 * J <= 2 * q /\ 3 * x <= r
    BY <1>1, <1>2, <1>3, <1>4, <1>5
<1> HIDE DEF p, q, r
<1>8. 1 + x < p
    BY <1>6, <1>7
<1> QED
    BY <1>8 DEF p

\* What the tick of a full ring compares: the holder's burst of at least a jiffy
\* against the wait of at least a jiffy of everybody else.
LEMMA TickTakesTheCpu ==
    ASSUME IInv, BurstsBounded, 3 * MaxJiffies <= 2 * NsPerJiffy, jiffies < MaxJiffies,
           TickFires, current \in Procs, InRing(current), nr_running > 2
    PROVE  current' # current
<1> SUFFICES ASSUME current' = current PROVE FALSE
    OBVIOUS
<1> DEFINE j == jiffies + 1
           J == NsPerJiffy
           old == sched_clock(jiffies)
           now == sched_clock(j)
<1>1. J \in Nat \ {0} /\ jiffies \in Nat /\ j \in Nat /\ MaxJiffies \in Nat
    BY TimeAssumption DEF IInv, TypeOK
<1>2. old \in Nat /\ now \in Nat /\ old <= now /\ now = old + J /\ old = jiffies * J
  <2>1. (jiffies + 1) * J = jiffies * J + J
      BY <1>1
  <2> QED
      BY <1>1, <2>1, ClockType DEF sched_clock
<1>3. rq \in Seq(Tasks) /\ rq[1] = InitTask /\ Len(rq) > 2 /\ IsInjective(rq)
  <2>1. rq # <<>>
      BY DEF InRing, ToSet
  <2> QED
      BY <2>1 DEF IInv, TypeOK, QueueInv, QueuesHoldLiveTasksOnce, HeadIsInitAndCountExact
<1>4. Schedule(j)
    BY <1>1 DEF TickFires
<1>5. \A k \in 2..Len(rq) : rq[k] \in Procs
  <2>1. \A k \in 2..Len(rq) : rq[k] \in Tasks /\ rq[k] # rq[1]
      BY <1>3 DEF IsInjective
  <2> QED
      BY <1>3, <2>1 DEF Tasks
<1>6. PICK i \in 2..Len(rq) : IsSjfChoice(i, Accounted(j), j) /\ rq[i] = current
  <2>1. nr_running # 1
      OBVIOUS
  <2>2. PICK i \in 2..Len(rq) : /\ IsSjfChoice(i, Accounted(j), j)
                                /\ rq[i] # current => ContextSwitch(rq[i])
      BY <1>4, <2>1, Zenon DEF Schedule
  <2>3. rq[i] = current
      BY <2>2 DEF ContextSwitch
  <2> QED
      BY <2>2, <2>3
<1>7. PICK k \in 2..Len(rq) : rq[k] # current
  <2>1. 2 \in 2..Len(rq) /\ 3 \in 2..Len(rq) /\ rq[2] # rq[3]
      BY <1>3 DEF IsInjective
  <2> QED
      BY <2>1
<1>8. PICK s \in Procs : s = rq[k] /\ s # current
    BY <1>5, <1>7
<1>9. PICK c \in Procs : c = current
    OBVIOUS
<1> DEFINE a == Accounted(j)
<1>10. /\ a[s] = acct[s]
       /\ a[c].exp_burst = CalcExpBurst(acct[c], j)
       /\ a[c].waiting_in_rq = CalcWaiting(acct[c], j)
    BY <1>1, <1>2, <1>8, <1>9, AccountedIs DEF IInv, IsAcct
<1>11. /\ acct[c] \in Accts /\ acct[s] \in Accts
       /\ acct[c].process_start_time <= old /\ acct[c].waiting_in_rq <= old
       /\ acct[c].exp_burst <= old /\ acct[s].exp_burst <= old
       /\ acct[s].waiting_in_rq <= old
    BY DEF IInv, TypeOK, TimesInPast, BurstsBounded, Accts
<1>12. a[c].waiting_in_rq = now
  <2>1. acct[c].waiting_in_rq \in Nat /\ acct[c].waiting_in_rq <= now
    <3>1. acct[c].waiting_in_rq \in Nat
        BY <1>11 DEF Accts
    <3> HIDE DEF old, now, J
    <3> QED
        BY <1>2, <1>11, <3>1
  <2>2. a[c].waiting_in_rq = IF now > acct[c].waiting_in_rq THEN now ELSE acct[c].waiting_in_rq
      BY <1>10, Zenon DEF CalcWaiting
  <2> HIDE DEF old, now, J, a
  <2> QED
      BY <1>2, <2>1, <2>2
<1> DEFINE x == acct[s].exp_burst
           y == a[c].exp_burst
           start == acct[c].process_start_time
           age == now - acct[s].waiting_in_rq
<1>13. x \in Nat /\ age \in Nat /\ age >= J /\ x <= jiffies * J
  <2>1. x \in Nat /\ x <= old /\ acct[s].waiting_in_rq \in Nat /\ acct[s].waiting_in_rq <= old
      BY <1>11 DEF Accts
  <2>2. x <= jiffies * J
      BY <1>2, <2>1
  <2> HIDE DEF x, now, old, J
  <2> QED
      BY <1>1, <1>2, <2>1, <2>2
<1>14. y \in Nat /\ 3 * (1 + y) >= 2 * J + 1
  <2>1. /\ y \in Nat
        /\ 3 * (1 + y) >= 2 * (now - start) + 1
    <3>1. start <= now /\ acct[c].exp_burst <= now
      <4>1. start \in Nat /\ acct[c].exp_burst \in Nat
          BY <1>11 DEF Accts
      <4>2. start <= old /\ acct[c].exp_burst <= old
          BY <1>11
      <4> HIDE DEF start, old, now
      <4> QED
          BY <1>2, <4>1, <4>2
    <3> QED
        BY <1>1, <1>10, <1>11, <3>1, ExpBurstBounds
  <2>2. now - start >= J /\ now - start \in Nat
    <3>1. start \in Nat /\ start <= old
        BY <1>11 DEF Accts
    <3> HIDE DEF start, now, old, J
    <3> QED
        BY <1>1, <1>2, <3>1
  <2> HIDE DEF y, now, start
  <2> QED
      BY <1>1, <2>1, <2>2
<1>15. (1 + x) * 1 < (1 + y) * (1 + age)
  <2> HIDE DEF x, y, age, J
  <2> QED
      BY <1>1, <1>13, <1>14, HolderIsWorse DEF J
<1>16. Better(a, s, c, j)
  <2>1. 1 + now - a[c].waiting_in_rq = 1 /\ 1 + now - a[s].waiting_in_rq = 1 + age
      BY <1>2, <1>10, <1>11, <1>12 DEF Accts
  <2> QED
      BY <1>10, <1>15, <2>1 DEF Better
<1>17. ~Better(a, rq[k], rq[i], j)
    BY <1>6, <1>7 DEF IsSjfChoice
<1> QED
    BY <1>6, <1>8, <1>9, <1>16, <1>17

\* No expected burst is ever longer than the time the machine has run.
THEOREM BurstBound == Spec => []BurstsBounded
<1>1. Init => BurstsBounded
    BY ClockType DEF Init, BurstsBounded, NoAcct
<1>2. IInv /\ BurstsBounded /\ [Next]_vars => BurstsBounded'
    BY NextBursts
<1> QED
    BY <1>1, <1>2, Invariance, PTL DEF Spec

\* A schedule tick always hands the CPU to another process of the ring, however
\* the bursts and waits compare, as long as the machine has run for at most two
\* thirds of the jiffies that make one of its nanoseconds a jiffy (18 simulated
\* hours at the program's 10^7 ns to a jiffy).  Beyond that a process with a long
\* history of short bursts can keep the CPU over one with a single long burst.
THEOREM RoundRobin ==
    ASSUME 3 * MaxJiffies <= 2 * NsPerJiffy
    PROVE  Spec /\ []ShutsDownInTime => TickRotates
<1>1. IInv /\ BurstsBounded /\ ShutsDownInTime /\ [Next]_vars
         => [TickFires /\ current \in Procs /\ InRing(current) /\ nr_running > 2
                => current' # current]_vars
    BY TickTakesTheCpu DEF ShutsDownInTime
<1> QED
    BY <1>1, Invariance, BurstBound, PTL DEF Spec, TickRotates

-----------------------------------------------------------------------------
(* Sjf_algo finds one task *)

\* Ratios p/a, q/b, r/c of positive numbers, compared across.
LEMMA RatioChain ==
    ASSUME NEW p \in Nat, NEW q \in Nat, NEW r \in Nat,
           NEW a \in Nat \ {0}, NEW b \in Nat \ {0}, NEW c \in Nat \ {0},
           p * b < q * a, q * c <= r * b
    PROVE  p * c < r * a
<1>1. (p * b) * c < (q * a) * c
  <2>1. p * b \in Nat /\ q * a \in Nat /\ p * b + 1 <= q * a
      OBVIOUS
  <2> DEFINE u == p * b
             v == q * a
  <2> HIDE DEF u, v
  <2>2. (u + 1) * c <= v * c
      BY <2>1, ProductsGrow DEF u, v
  <2>3. (u + 1) * c = u * c + c
      BY <2>1 DEF u
  <2>4. u * c \in Nat /\ v * c \in Nat
      BY <2>1 DEF u, v
  <2>5. u * c < v * c
      BY <2>2, <2>3, <2>4
  <2> QED
      BY <2>5 DEF u, v
<1>2. (q * c) * a <= (r * b) * a
    BY ProductsGrow
<1>3. /\ (p * b) * c = (p * c) * b /\ (q * a) * c = (q * c) * a
      /\ (r * b) * a = (r * a) * b
    OBVIOUS
<1> DEFINE x == p * c
           y == r * a
<1>4. x \in Nat /\ y \in Nat
    OBVIOUS
<1>5. x * b < y * b
  <2> DEFINE l == (p * c) * b
             m == (q * c) * a
             n == (r * a) * b
  <2>1. l \in Nat /\ m \in Nat /\ n \in Nat /\ l < m /\ m <= n
      BY <1>1, <1>2, <1>3
  <2> HIDE DEF l, m, n
  <2>2. l < n
      BY <2>1
  <2> QED
      BY <2>2 DEF l, n
<1> HIDE DEF x, y
<1>6. CASE y <= x
  <2>1. y * b <= x * b
      BY <1>4, <1>6, ProductsGrow
  <2> QED
      BY <1>4, <1>5, <2>1
<1>7. CASE ~(y <= x)
    BY <1>4, <1>7 DEF x, y
<1> QED
    BY <1>6, <1>7

\* Numerators and denominators of Better, as Sjf_algo meets them.
Comparable(a, j, T) ==
    \A t \in T : /\ a[t].exp_burst \in Nat /\ a[t].waiting_in_rq \in Nat
                 /\ a[t].waiting_in_rq <= sched_clock(j)

\* Goodness orders the tasks of the ring: a strict order in which tasks that are
\* not ordered have the same rank.
LEMMA BetterOrders ==
    ASSUME NEW j \in Nat, NEW T, NEW a, Comparable(a, j, T), NEW s \in T, NEW t \in T
    PROVE  /\ Better(a, s, t, j) => ~Better(a, t, s, j)
           /\ \A u \in T : Better(a, s, t, j) /\ ~Better(a, u, t, j) => Better(a, s, u, j)
<1> DEFINE num(v) == 1 + a[v].exp_burst
           den(v) == 1 + (sched_clock(j) - a[v].waiting_in_rq)
<1>1. \A v \in T : num(v) \in Nat /\ den(v) \in Nat \ {0}
    BY ClockType DEF Comparable
<1>2. \A v, w \in T : Better(a, v, w, j) <=> num(v) * den(w) < num(w) * den(v)
  <2> TAKE v, w \in T
  <2>1. a[v].waiting_in_rq \in Int /\ a[w].waiting_in_rq \in Int /\ sched_clock(j) \in Nat
      BY ClockType DEF Comparable
  <2> QED
      BY <2>1 DEF Better
<1>3. \A v, w \in T : num(v) * den(w) \in Nat
    BY <1>1
<1> HIDE DEF num, den
<1>4. Better(a, s, t, j) => ~Better(a, t, s, j)
    BY <1>2, <1>3
<1>5. ASSUME NEW u \in T, Better(a, s, t, j), ~Better(a, u, t, j)
      PROVE  Better(a, s, u, j)
  <2>1. num(s) * den(t) < num(t) * den(s) /\ num(t) * den(u) <= num(u) * den(t)
      BY <1>2, <1>3, <1>5
  <2>2. num(s) * den(u) < num(u) * den(s)
      BY <1>1, <2>1, RatioChain
  <2> QED
      BY <1>2, <2>2
<1> QED
    BY <1>4, <1>5

\* The loop of Sjf_algo up to position n.
BestUpTo(i, n, a, j) ==
    /\ i \in 2..n
    /\ \A k \in 2..n : ~Better(a, rq[k], rq[i], j) /\ (k < i => Better(a, rq[i], rq[k], j))

LEMMA ScanFinds ==
    ASSUME NEW j \in Nat, NEW a, NEW T, Comparable(a, j, T), NEW len \in Nat, len > 1,
           \A k \in 2..len : rq[k] \in T
    PROVE  \E i : BestUpTo(i, len, a, j)
<1> DEFINE S == {m \in 0..(len - 2) : \E i : BestUpTo(i, m + 2, a, j)}
<1>1. len - 2 \in Nat
    OBVIOUS
<1>2. 0 \in S
  <2>1. rq[2] \in T
      OBVIOUS
  <2>2. ~Better(a, rq[2], rq[2], j)
      BY <2>1, BetterOrders
  <2>3. BestUpTo(2, 2, a, j)
      BY <2>2 DEF BestUpTo
  <2> QED
      BY <1>1, <2>3
<1>3. ASSUME NEW m \in 1..(len - 2), m - 1 \in S PROVE m \in S
  <2>1. PICK n \in Nat : n = m + 1 /\ n \in 2..len /\ n + 1 \in 2..len
      OBVIOUS
  <2>2. PICK i : BestUpTo(i, n, a, j)
    <3>1. (m - 1) + 2 = n
        BY <2>1
    <3> QED
        BY <1>3, <3>1
  <2>3. i \in 2..n /\ rq[i] \in T /\ rq[n + 1] \in T /\ n + 1 \in 2..(n + 1)
    <3>1. i \in 2..n
        BY <2>2 DEF BestUpTo
    <3> QED
        BY <2>1, <3>1
  <2>4. \A k \in 2..(n + 1) : k \in 2..n \/ k = n + 1
      BY <2>1
  <2>5. CASE Better(a, rq[n + 1], rq[i], j)
    <3>1. \A k \in 2..n : Better(a, rq[n + 1], rq[k], j) /\ ~Better(a, rq[k], rq[n + 1], j)
      <4> TAKE k \in 2..n
      <4>1. ~Better(a, rq[k], rq[i], j) /\ rq[k] \in T
          BY <2>1, <2>2 DEF BestUpTo
      <4>2. Better(a, rq[n + 1], rq[k], j)
          BY <2>3, <2>5, <4>1, BetterOrders
      <4> QED
          BY <2>3, <4>1, <4>2, BetterOrders
    <3>2. ~Better(a, rq[n + 1], rq[n + 1], j)
        BY <2>3, BetterOrders
    <3>3. BestUpTo(n + 1, n + 1, a, j)
      <4>1. ~(n + 1 < n + 1)
          BY <2>1
      <4> QED
          BY <2>3, <2>4, <3>1, <3>2, <4>1 DEF BestUpTo
    <3> QED
        BY <2>1, <3>3
  <2>6. CASE ~Better(a, rq[n + 1], rq[i], j)
    <3>1. ~(n + 1 < i) /\ i \in 2..(n + 1)
        BY <2>1, <2>3
    <3>2. BestUpTo(i, n + 1, a, j)
        BY <2>2, <2>4, <2>6, <3>1 DEF BestUpTo
    <3> QED
        BY <2>1, <3>2
  <2> QED
      BY <2>5, <2>6
<1>4. len - 2 \in S
  <2> HIDE DEF S
  <2>1. \A m \in 0..(len - 2) : m \in S
      BY <1>1, <1>2, <1>3, AllUpTo
  <2> QED
      BY <1>1, <2>1
<1>5. (len - 2) + 2 = len
    OBVIOUS
<1> QED
    BY <1>4, <1>5

\* schedule() may be called at the present jiffy, or at the next by the tick.
SjfDecides ==
    nr_running > 1 =>
        \A j \in {jiffies, jiffies + 1} :
            \E i \in 2..Len(rq) :
                /\ IsSjfChoice(i, Accounted(j), j)
                /\ \A k \in 2..Len(rq) : IsSjfChoice(k, Accounted(j), j) => k = i

LEMMA InvariantDecides == IInv => SjfDecides
<1> SUFFICES ASSUME IInv, nr_running > 1, NEW j \in {jiffies, jiffies + 1}
             PROVE  \E i \in 2..Len(rq) :
                       /\ IsSjfChoice(i, Accounted(j), j)
                       /\ \A k \in 2..Len(rq) : IsSjfChoice(k, Accounted(j), j) => k = i
    BY DEF SjfDecides
<1>1. /\ jiffies \in Nat /\ j \in Nat
      /\ sched_clock(j) \in Nat /\ sched_clock(jiffies) \in Nat
      /\ sched_clock(jiffies) <= sched_clock(j)
  <2>1. jiffies \in Nat
      BY DEF IInv, TypeOK
  <2>2. sched_clock(jiffies) \in Nat /\ sched_clock(jiffies + 1) \in Nat
        /\ sched_clock(jiffies) <= sched_clock(jiffies + 1)
      BY <2>1, ClockType
  <2>3. sched_clock(jiffies) <= sched_clock(jiffies)
      BY <2>2
  <2> QED
      BY <2>1, <2>2, <2>3
<1>2. rq \in Seq(Tasks) /\ rq[1] = InitTask /\ Len(rq) > 1 /\ IsInjective(rq)
  <2>1. rq # <<>> /\ rq \in Seq(Tasks) /\ nr_running = Len(rq)
      BY EmptySeq DEF IInv, TypeOK, QueueInv, HeadIsInitAndCountExact
  <2> QED
      BY <2>1 DEF IInv, QueueInv, QueuesHoldLiveTasksOnce, HeadIsInitAndCountExact
<1>3. \A k \in 2..Len(rq) : rq[k] \in Procs
  <2>1. \A k \in 2..Len(rq) : rq[k] \in Tasks /\ rq[k] # rq[1]
      BY <1>2 DEF IsInjective
  <2> QED
      BY <1>2, <2>1 DEF Tasks
<1> DEFINE a == Accounted(j)
<1>4. Comparable(a, j, Procs)
  <2> SUFFICES ASSUME NEW t \in Procs
               PROVE  /\ a[t].exp_burst \in Nat /\ a[t].waiting_in_rq \in Nat
                      /\ a[t].waiting_in_rq <= sched_clock(j)
      BY DEF Comparable
  <2>1. a[t] \in Accts /\ acct[t] \in Accts /\ acct[t].waiting_in_rq <= sched_clock(jiffies)
      BY <1>1, AccountedIs DEF IInv, TypeOK, TimesInPast, Accts
  <2>2. a[t].waiting_in_rq \in {acct[t].waiting_in_rq, CalcWaiting(acct[t], j)}
      BY <1>1, AccountedIs DEF IInv, IsAcct
  <2>3. acct[t].waiting_in_rq <= sched_clock(j)
    <3>1. acct[t].waiting_in_rq \in Nat
        BY <2>1 DEF Accts
    <3> QED
        BY <1>1, <2>1, <3>1
  <2>4. CalcWaiting(acct[t], j) <= sched_clock(j)
      BY <1>1, <2>3 DEF CalcWaiting
  <2>5. a[t].waiting_in_rq <= sched_clock(j) /\ a[t].waiting_in_rq \in Nat
        /\ a[t].exp_burst \in Nat
      BY <2>1, <2>2, <2>3, <2>4 DEF Accts
  <2> HIDE DEF a
  <2> QED
      BY <1>1, <2>5
<1> HIDE DEF a
<1>5. PICK i : BestUpTo(i, Len(rq), a, j)
    BY <1>1, <1>2, <1>3, <1>4, ScanFinds
<1>6. i \in 2..Len(rq) /\ IsSjfChoice(i, a, j)
    BY <1>5 DEF BestUpTo, IsSjfChoice
<1>7. ASSUME NEW k \in 2..Len(rq), IsSjfChoice(k, a, j) PROVE k = i
  <2>1. CASE k < i
      BY <1>6, <1>7, <2>1 DEF IsSjfChoice
  <2>2. CASE i < k
      BY <1>6, <1>7, <2>2 DEF IsSjfChoice
  <2> QED
      BY <1>2, <1>6, <2>1, <2>2
<1> QED
    BY <1>6, <1>7 DEF a

\* Whenever schedule() has processes to choose from, the strict comparison of
\* Sjf_algo settles on exactly one of them: it neither runs off the ring without
\* a choice nor depends on anything but the order of the ring.
THEOREM SjfAlgoDecides == Spec => []SjfDecides
BY Invariance, InvariantDecides, PTL

-----------------------------------------------------------------------------
(* When the machine stops *)

\* Init is told to die at the end time, and stays in the ring until then.
EndInv ==
    /\ InitTask \in kill => clocktick >= EndTime
    /\ InitTask \notin alive => clocktick >= EndTime
    /\ pc \in {"done", "crashed"} => InitTask \notin alive

LEMMA EmptyRing ==
    ASSUME TypeOK, QueueInv, nr_running = 0
    PROVE  rq = <<>> /\ InitTask \notin alive
<1>1. rq = <<>>
    BY EmptySeq DEF TypeOK, QueueInv, HeadIsInitAndCountExact
<1> QED
    BY <1>1, InitIsQueued

LEMMA NextEnd == IInv /\ EndInv /\ [Next]_vars => EndInv'
<1> SUFFICES ASSUME IInv, EndInv, [Next]_vars PROVE EndInv'
    OBVIOUS
<1>1. clocktick \in Nat /\ EndTime \in Nat /\ MaxTick \in Nat
    BY TimeAssumption DEF IInv, TypeOK
<1>2. ASSUME pc \notin {"done", "crashed"}, UNCHANGED clocktick,
             InitTask \in kill' => InitTask \in kill \/ clocktick >= EndTime,
             InitTask \notin alive' => InitTask \notin alive \/ clocktick >= EndTime,
             pc' \in {"done", "crashed"} => InitTask \notin alive'
      PROVE  EndInv'
    BY <1>2 DEF EndInv
<1>3. CASE Exit
  <2>1. pc = "cycle" /\ pc' = "tick" /\ UNCHANGED clocktick
        /\ alive' = alive \ {current} /\ kill' = kill \ {current}
      BY <1>3 DEF Exit, clocks
  <2>2. current = InitTask => InitTask \in kill
      BY <1>3, TaskAssumption DEF Exit, Ending
  <2>3. InitTask \notin alive' => InitTask \notin alive \/ clocktick >= EndTime
      BY <2>1, <2>2 DEF EndInv
  <2> QED
      BY <1>2, <2>1, <2>3
<1>4. CASE KeepRunning \/ Sleep
  <2>1. /\ pc = "cycle" /\ pc' = "spawn" /\ UNCHANGED <<clocktick, alive>>
        /\ kill' = IF Ending THEN kill \cup {current} ELSE kill
      BY <1>4 DEF KeepRunning, Sleep, RunTick
  <2>2. current = InitTask /\ Ending => InitTask \in kill
      BY TaskAssumption DEF Ending
  <2> QED
      BY <1>2, <2>1, <2>2
<1>5. CASE \E c \in Procs : Fork(c)
  <2>1. PICK c \in Procs : Fork(c)
      BY <1>5
  <2>2. pc = "spawn" /\ UNCHANGED <<pc, clocktick, kill>> /\ alive' = alive \cup {c}
      BY <2>1 DEF Fork, clocks
  <2> QED
      BY <1>2, <2>2
<1>6. CASE \/ SpawnDone \/ TickCountdown \/ TickFires \/ IoCountdown \/ IoEvent \/ WakeOne
           \/ WakeDone
  <2>1. /\ pc \notin {"done", "crashed"} /\ pc' \notin {"done", "crashed"}
        /\ UNCHANGED <<clocktick, alive, kill>>
      BY <1>6 DEF SpawnDone, TickCountdown, TickFires, IoCountdown, IoEvent, WakeOne, WakeDone,
         tree, clocks
  <2> QED
      BY <1>2, <2>1
<1>7. CASE NoReschedule \/ Reschedule
  <2>1. pc' = "end" /\ UNCHANGED <<alive, kill>> /\ Advance
      BY <1>7 DEF NoReschedule, Reschedule, tree
  <2>2. clocktick' >= clocktick /\ clocktick' \in Nat
      BY <1>1, <2>1 DEF Advance
  <2> QED
      BY <1>1, <2>1, <2>2 DEF EndInv
<1>8. CASE RescheduleEmpty
  <2>1. pc = "check" /\ nr_running = 0 /\ UNCHANGED <<clocktick, alive, kill>>
      BY <1>8 DEF RescheduleEmpty, clocks, tree
  <2>2. InitTask \notin alive'
      BY <2>1, EmptyRing DEF IInv
  <2> QED
      BY <1>2, <2>1, <2>2
<1>9. CASE EndCycle
  <2>1. /\ pc = "end" /\ UNCHANGED <<clocktick, alive>> /\ InitTask \in alive
        /\ kill' = IF clocktick >= EndTime THEN kill \cup {InitTask} ELSE kill
        /\ pc' = IF nr_running # 0 THEN "cycle" ELSE "done"
      BY <1>9 DEF EndCycle, SendKillMessage, LoopGoesOn, clocks
  <2>2. pc' = "cycle"
      BY <2>1, EmptyRing DEF IInv
  <2> QED
      BY <1>2, <2>1, <2>2
<1>10. CASE EndCycleFreed
  <2>1. pc = "end" /\ UNCHANGED <<clocktick, alive, kill>> /\ InitTask \notin alive
      BY <1>10 DEF EndCycleFreed, clocks, tree
  <2> QED
      BY <1>2, <2>1
<1>11. CASE Stopped \/ UNCHANGED vars
    BY <1>11 DEF Stopped, vars, clocks, tree, EndInv
<1> QED
    BY <1>3, <1>4, <1>5, <1>6, <1>7, <1>8, <1>9, <1>10, <1>11
    DEF Next, Cycle, Spawn, Interrupt, Finish

LEMMA EndGives == IInv /\ EndInv => StopsOnlyAtEnd
<1> SUFFICES ASSUME IInv, EndInv, pc \in {"done", "crashed"}
             PROVE  clocktick >= EndTime /\ alive = {} /\ intwaitlist = <<>> /\ rq = <<>>
    BY DEF StopsOnlyAtEnd
<1>1. InitTask \notin alive /\ clocktick >= EndTime
    BY DEF EndInv
<1>2. alive = {}
    BY <1>1, AliveHasInit DEF IInv, FamilyInv
<1>3. ToSet(rq) = {} /\ ToSet(intwaitlist) = {}
    BY <1>2 DEF IInv, QueueInv, QueuesHoldLiveTasksOnce
<1>4. ASSUME NEW S, NEW s \in Seq(S), ToSet(s) = {} PROVE s = <<>>
  <2>1. CASE s # <<>>
    <3>1. 1 \in DOMAIN s
        BY <2>1, EmptySeq
    <3>2. s[1] \in ToSet(s)
        BY <3>1 DEF ToSet
    <3> QED
        BY <1>4, <3>2
  <2> QED
      BY <2>1
<1>5. rq \in Seq(Tasks) /\ intwaitlist \in Seq(Procs)
    BY DEF IInv, TypeOK
<1> QED
    BY <1>1, <1>2, <1>3, <1>4, <1>5

\* The machine never stops before the end time, and every way it stops, also the
\* crashes of schedule() on an empty queue and of END_CYCLE through a freed init,
\* comes after every process was freed: no task's work is cut short by them.
THEOREM OrderlyStop == Spec => []StopsOnlyAtEnd
<1>1. Init => EndInv
    BY DEF Init, EndInv
<1>2. IInv /\ EndInv /\ [Next]_vars => EndInv'
    BY NextEnd
<1>3. IInv /\ EndInv => StopsOnlyAtEnd
    BY EndGives
<1> QED
    BY <1>1, <1>2, <1>3, Invariance, PTL DEF Spec

-----------------------------------------------------------------------------
(* A pass of the loop ends *)

LEMMA Stages ==
    /\ Stage("cycle") = 9 /\ Stage("spawn") = 7 /\ Stage("tick") = 6 /\ Stage("io") = 5
    /\ Stage("wake") = 4 /\ Stage("check") = 3 /\ Stage("end") = 2 /\ Stage("done") = 1
    /\ Stage("crashed") = 0
BY DEF Stage

LEMMA NextAdvances == IInv /\ [Next]_vars => [pc # "end" => Left' < Left]_vars
<1> SUFFICES ASSUME IInv, Next, vars' # vars, pc # "end" PROVE Left' < Left
    OBVIOUS
<1>1. /\ Left = Stage(pc) + Len(intwaitlist) + Cardinality(unspawned)
      /\ Left' = Stage(pc') + Len(intwaitlist') + Cardinality(unspawned')
    BY DEF Left, Stage
<1>2. /\ Len(intwaitlist) \in Nat /\ IsFiniteSet(unspawned) /\ Cardinality(unspawned) \in Nat
      /\ intwaitlist \in Seq(Procs)
  <2>1. intwaitlist \in Seq(Procs) /\ unspawned \in SUBSET Procs
      BY DEF IInv, TypeOK
  <2>2. IsFiniteSet(unspawned)
      BY <2>1, TaskAssumption, FS_Subset
  <2>3. Cardinality(unspawned) \in Nat
      BY <2>2, FS_CardinalityType
  <2> QED
      BY <2>1, <2>2, <2>3
<1>3. ASSUME UNCHANGED <<intwaitlist, unspawned>>,
             \/ pc = "cycle" /\ pc' \in {"tick", "spawn"}
             \/ pc = "spawn" /\ pc' = "tick"
             \/ pc = "tick" /\ pc' = "io"
             \/ pc = "io" /\ pc' \in {"wake", "check"}
             \/ pc = "wake" /\ pc' = "check"
             \/ pc = "check" /\ pc' \in {"end", "crashed"}
      PROVE  Left' < Left
  <2>1. Stage(pc') \in Nat /\ Stage(pc) \in Nat /\ Stage(pc') < Stage(pc)
      BY <1>3, Stages
  <2> QED
      BY <1>1, <1>2, <1>3, <2>1
<1>4. CASE Exit \/ KeepRunning
  <2>1. UNCHANGED <<intwaitlist, unspawned>> /\ pc = "cycle" /\ pc' \in {"tick", "spawn"}
      BY <1>4 DEF Exit, KeepRunning, RunTick, queue
  <2> QED
      BY <1>3, <2>1
<1>5. CASE Sleep
  <2>1. pc = "cycle" /\ pc' = "spawn" /\ unspawned' = unspawned
        /\ intwaitlist' = Append(intwaitlist, current) /\ current \in Procs
      BY <1>5 DEF Sleep, RunTick, WaitTimerExpires, IsInteractive
  <2>2. Len(intwaitlist') = Len(intwaitlist) + 1
      BY <1>2, <2>1
  <2> QED
      BY <1>1, <1>2, <2>1, <2>2, Stages
<1>6. CASE \E c \in Procs : Fork(c)
  <2>1. PICK c \in Procs : Fork(c)
      BY <1>6
  <2>2. /\ pc = "spawn" /\ UNCHANGED <<pc, intwaitlist>>
        /\ c \in unspawned /\ unspawned' = unspawned \ {c}
      BY <2>1 DEF Fork, Due
  <2>3. Cardinality(unspawned') = Cardinality(unspawned) - 1
      BY <1>2, <2>2, FS_RemoveElement
  <2> QED
      BY <1>1, <1>2, <2>2, <2>3, Stages
<1>7. CASE WakeOne
  <2>1. /\ pc = "wake" /\ UNCHANGED <<pc, unspawned>>
        /\ intwaitlist # <<>> /\ intwaitlist' = Tail(intwaitlist)
      BY <1>7 DEF WakeOne, ListDelFirst, tree
  <2>2. Len(intwaitlist') = Len(intwaitlist) - 1
      BY <1>2, <2>1
  <2> QED
      BY <1>1, <1>2, <2>1, <2>2, Stages
<1>8. CASE SpawnDone \/ TickCountdown \/ TickFires \/ IoCountdown \/ IoEvent \/ WakeDone
  <2>1. /\ UNCHANGED <<intwaitlist, unspawned>>
        /\ \/ pc = "spawn" /\ pc' = "tick"
           \/ pc = "tick" /\ pc' = "io"
           \/ pc = "io" /\ pc' \in {"wake", "check"}
           \/ pc = "wake" /\ pc' = "check"
      BY <1>8 DEF SpawnDone, TickCountdown, TickFires, IoCountdown, IoEvent, WakeDone,
         queue, tree
  <2> QED
      BY <1>3, <2>1
<1>9. CASE NoReschedule \/ Reschedule \/ RescheduleEmpty
  <2>1. UNCHANGED <<intwaitlist, unspawned>> /\ pc = "check" /\ pc' \in {"end", "crashed"}
      BY <1>9 DEF NoReschedule, Reschedule, RescheduleEmpty, queue, tree
  <2> QED
      BY <1>3, <2>1
<1>10. CASE EndCycle \/ EndCycleFreed \/ Stopped
    BY <1>10 DEF EndCycle, EndCycleFreed, Stopped
<1> QED
    BY <1>4, <1>5, <1>6, <1>7, <1>8, <1>9, <1>10 DEF Next, Cycle, Spawn, Interrupt, Finish

\* The loops of spawnChildren() and of the IO event end, and with them every pass
\* of runcpu()'s loop: what is left of it gets smaller with each step.
THEOREM PassEnds == Spec => PassAdvances
BY NextAdvances, Invariance, PTL DEF Spec, PassAdvances
=============================================================================
