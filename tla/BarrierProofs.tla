---------------------------- MODULE BarrierProofs ----------------------------
(* The elevator implements BarrierQueue: whatever is merged, sorted, drained, *)
(* requeued or aborted, no request is given to the driver past a barrier.     *)
EXTENDS ElevatorProofs

-----------------------------------------------------------------------------
(* The state of a submission *)

\* What a request stands for in the abstract queue.
Standing(R, A, r) == IF r \in A THEN "driver" ELSE R[r].where

\* The submission i is in the state s.
IsIn(R, n, S, F, A, i, s) ==
    \/ i >= n /\ s = "new"
    \/ i \in S /\ s = "done"
    \/ i \in F /\ s = "failed"
    \/ \E r \in Ids : i \in R[r].bios /\ s = Standing(R, A, r)

Now(i, s) == IsIn(rq, next, served, failed, active, i, s)

StatusOf(R, n, S, F, A) == [i \in Ids |->
    IF i >= n THEN "new"
    ELSE IF i \in S THEN "done"
    ELSE IF i \in F THEN "failed"
    ELSE Standing(R, A, CHOOSE r \in Ids : i \in R[r].bios)]

\* The state is a function of the submission.
LEMMA StatusIs ==
    ASSUME NEW R, NEW n \in Nat, NEW S, NEW F, NEW A, BiosOnce(R, n, S, F),
           NEW i \in Ids, NEW s
    PROVE  StatusOf(R, n, S, F, A)[i] = s <=> IsIn(R, n, S, F, A, i, s)
<1>1. /\ S \cap F = {}
      /\ \A j \in S \cup F : j < n
      /\ \A r \in Ids : \A j \in R[r].bios :
            j < n /\ j \notin S \cup F /\ \A q \in Ids \ {r} : j \notin R[q].bios
      /\ \A j \in 1..(n - 1) : j \in S \cup F \/ \E r \in Ids : j \in R[r].bios
    BY DEF BiosOnce
<1>2. i \in Nat /\ 1 <= i /\ (i >= n <=> ~(i < n))
    BY ElevatorAssumption DEF Ids
<1>3. CASE i >= n
  <2>1. StatusOf(R, n, S, F, A)[i] = "new"
      BY <1>3 DEF StatusOf
  <2> QED
      BY <1>1, <1>2, <1>3, <2>1 DEF IsIn
<1>4. CASE i \in S
  <2>1. ~(i >= n) /\ i \notin F /\ \A r \in Ids : i \notin R[r].bios
      BY <1>1, <1>2, <1>4
  <2>2. StatusOf(R, n, S, F, A)[i] = "done"
      BY <1>4, <2>1 DEF StatusOf
  <2> QED
      BY <1>4, <2>1, <2>2 DEF IsIn
<1>5. CASE i \in F
  <2>1. ~(i >= n) /\ i \notin S /\ \A r \in Ids : i \notin R[r].bios
      BY <1>1, <1>2, <1>5
  <2>2. StatusOf(R, n, S, F, A)[i] = "failed"
      BY <1>5, <2>1 DEF StatusOf
  <2> QED
      BY <1>5, <2>1, <2>2 DEF IsIn
<1>6. CASE ~(i >= n) /\ i \notin S \cup F
  <2>1. i \in 1..(n - 1)
      BY <1>2, <1>6
  <2>2. PICK r \in Ids : i \in R[r].bios
      BY <1>1, <1>6, <2>1
  <2>3. \A q \in Ids : i \in R[q].bios => q = r
      BY <1>1, <2>2
  <2>4. (CHOOSE q \in Ids : i \in R[q].bios) = r
      BY <2>2, <2>3
  <2>5. StatusOf(R, n, S, F, A)[i] = Standing(R, A, r)
      BY <1>6, <2>4 DEF StatusOf
  <2>6. IsIn(R, n, S, F, A, i, s) <=> s = Standing(R, A, r)
      BY <1>6, <2>2, <2>3 DEF IsIn
  <2> QED
      BY <2>5, <2>6
<1> QED
    BY <1>3, <1>4, <1>5, <1>6

LEMMA StatusNow ==
    ASSUME IInv
    PROVE  /\ status = [i \in Ids |-> status[i]]
           /\ \A i \in Ids : \A s : status[i] = s <=> Now(i, s)
<1>1. status = StatusOf(rq, next, served, failed, active)
    BY DEF status, StatusOf, Standing
<1>2. next \in Nat /\ BiosOnce(rq, next, served, failed)
    BY ElevatorAssumption DEF IInv, TypeOK
<1>3. \A i \in Ids : \A s : status[i] = s <=> Now(i, s)
    BY <1>1, <1>2, StatusIs DEF Now
<1>4. status = [i \in Ids |-> status[i]]
    BY DEF status
<1> QED
    BY <1>3, <1>4

LEMMA StatusNext ==
    ASSUME IInv'
    PROVE  /\ status' = [i \in Ids |-> status'[i]]
           /\ \A i \in Ids : \A s : status'[i] = s <=> Now(i, s)'
<1>1. status' = StatusOf(rq', next', served', failed', active')
    BY DEF status, StatusOf, Standing
<1>2. next' \in Nat /\ BiosOnce(rq', next', served', failed')
    BY ElevatorAssumption DEF IInv, TypeOK
<1>3. \A i \in Ids : \A s : status'[i] = s <=> Now(i, s)'
    BY <1>1, <1>2, StatusIs DEF Now
<1>4. status' = [i \in Ids |-> status'[i]]
    BY DEF status
<1> QED
    BY <1>3, <1>4

\* The submissions S are now in the state s, and the others in the state they were in.
LEMMA Becomes ==
    ASSUME IInv, IInv', NEW S, NEW s, \A i \in S : Now(i, s)',
           \A i \in Ids \ S : \A t : Now(i, t) => Now(i, t)'
    PROVE  BQ!Become(S, s)
<1>1. ASSUME NEW i \in Ids PROVE status'[i] = IF i \in S THEN s ELSE status[i]
  <2>1. CASE i \in S
      BY <2>1, StatusNext
  <2>2. CASE i \notin S
    <3>1. PICK t : t = status[i]
        OBVIOUS
    <3>2. Now(i, t)
        BY <3>1, StatusNow
    <3>3. Now(i, t)'
        BY <2>2, <3>2
    <3> QED
        BY <2>2, <3>1, <3>3, StatusNext
  <2> QED
      BY <2>1, <2>2
<1>2. status' = [i \in Ids |-> IF i \in S THEN s ELSE status[i]]
    BY <1>1, StatusNext
<1> QED
    BY <1>2 DEF BQ!Become, BQ!Ids, Ids

\* What is to be shown of a step for the submissions it is not about.
LEMMA Stays ==
    ASSUME NEW S, \A i \in Ids \ S : i >= next => i >= next',
           served \subseteq served', failed \subseteq failed',
           \A r \in Ids : \A i \in rq[r].bios \ S :
              \E q \in Ids : i \in rq'[q].bios
                             /\ Standing(rq', active', q) = Standing(rq, active, r)
    PROVE  \A i \in Ids \ S : \A t : Now(i, t) => Now(i, t)'
BY DEF Now, IsIn

\* No submission changed its state.
LEMMA Steady ==
    ASSUME IInv, IInv', UNCHANGED <<next, served, failed>>,
           \A r \in Ids : \A i \in rq[r].bios :
              \E q \in Ids : i \in rq'[q].bios
                             /\ Standing(rq', active', q) = Standing(rq, active, r)
    PROVE  UNCHANGED status
<1>1. PICK S, s : S = {} /\ s = "new"
    OBVIOUS
<1>2. \A i \in Ids \ S : \A t : Now(i, t) => Now(i, t)'
    BY <1>1, Stays
<1>3. BQ!Become(S, s)
    BY <1>1, <1>2, Becomes
<1>4. status' = [i \in Ids |-> status[i]]
    BY <1>1, <1>3 DEF BQ!Become, BQ!Ids, Ids
<1> QED
    BY <1>4, StatusNow

\* A submission that is pending, by the request that carries it.
LEMMA Carrier ==
    ASSUME IInv, NEW j \in Ids, status[j] \in BQ!Kinds
    PROVE  \E q \in Ids : j \in rq[q].bios /\ q \notin active /\ status[j] = rq[q].where
<1>1. PICK s : s = status[j]
    OBVIOUS
<1>2. Now(j, s) /\ s \in {"SORT", "BACK", "FRONT"}
    BY <1>1, StatusNow DEF BQ!Kinds
<1>3. PICK q \in Ids : j \in rq[q].bios /\ s = Standing(rq, active, q)
    BY <1>2 DEF Now, IsIn
<1> QED
    BY <1>1, <1>2, <1>3 DEF Standing

\* The requests R carry, in the same standing, whatever is carried now.
Extends(R) == \A x \in Ids : \A i \in rq[x].bios :
    i \in R[x].bios /\ Standing(R, active, x) = Standing(rq, active, x)

\* Whatever the requests R carry is carried after the step by one of the same standing.
Follows(R) == \A x \in Ids : \A i \in R[x].bios :
    \E q \in Ids : i \in rq'[q].bios
                   /\ Standing(rq', active', q) = Standing(R, active, x)

\* The next submission is made: R is what the requests are once the new one is among
\* them, and the step may still merge them.
LEMMA Submitted ==
    ASSUME IInv, IInv', next \in Ids, next' = next + 1, UNCHANGED <<active, served, failed>>,
           NEW k \in {"SORT", "BACK", "FRONT"}, NEW R, NEW p \in Ids,
           next \in R[p].bios, Standing(R, active, p) = k,
           Extends(R), Follows(R)
    PROVE  BQ!Next
<1>1. next \in Nat /\ \A i \in Ids : i \in Int
    BY DEF Ids
<1>2. Now(next, "new")
    BY <1>1 DEF Now, IsIn
<1>3. status[next] = "new"
    BY <1>2, StatusNow
<1>4. ASSUME NEW j \in Ids, j < next PROVE status[j] # "new"
  <2>1. ASSUME Now(j, "new") PROVE FALSE
    <3>1. \E r \in Ids : j \in rq[r].bios /\ "new" = Standing(rq, active, r)
      <4>1. ~(j >= next)
          BY <1>1, <1>4
      <4> QED
          BY <2>1, <4>1 DEF Now, IsIn
    <3>2. \A r \in Ids : rq[r].where \in {"SORT", "BACK", "FRONT"}
        BY RequestFields DEF IInv, TypeOK
    <3> QED
        BY <3>1, <3>2 DEF Standing
  <2> QED
      BY <2>1, StatusNow
<1>5. PICK S : S = {next}
    OBVIOUS
<1>6. \A i \in S : Now(i, k)'
    BY <1>5 DEF Now, IsIn, Follows
<1>7. \A i \in Ids \ S : \A t : Now(i, t) => Now(i, t)'
  <2>1. \A i \in Ids \ S : i >= next => i >= next'
      BY <1>1, <1>5
  <2> QED
      BY <2>1, Stays DEF Extends, Follows
<1>8. BQ!Become({next}, k)
    BY <1>5, <1>6, <1>7, Becomes
<1>9. BQ!Submit(next, k)
    BY <1>3, <1>4, <1>8 DEF BQ!Submit, BQ!Ids, Ids
<1> QED
    BY <1>9 DEF BQ!Next, BQ!Ids, BQ!Kinds, Ids

-----------------------------------------------------------------------------
(* The order of the lists *)

\* What the refinement rests on.
Orders == IInv /\ WhereInv /\ PassInv

\* i was submitted after everything that is on the dispatch list.
Late(i) == \A d \in Dispatched : \A j \in rq[d].bios : j < i

\* What a step is to show for the specification and for the order.
Step == (BQ!Next \/ UNCHANGED status) /\ WhereInv' /\ PassInv'

\* A step that makes of the requests R what they are then.
Keeps(R) == WhereInv' /\ PassInv' /\ Follows(R)

LEMMA NextLate ==
    ASSUME IInv
    PROVE  Late(next)
BY Pending DEF Late, IInv, BiosOnce

\* The request that is being inserted is the newest.
LEMMA LooseLate ==
    ASSUME Orders, NEW r \in Loose
    PROVE  \A i \in rq[r].bios : Late(i)
<1>1. rq[r].bios = {r} /\ next = r + 1 /\ r \in Ids /\ Dispatched \subseteq Ids
      /\ r \notin Dispatched
    BY Pending DEF Orders, WhereInv, IInv, PlacesInv
<1>2. ASSUME NEW d \in Dispatched, NEW j \in rq[d].bios PROVE j < r
  <2>1. j < next /\ j # r
      BY <1>1 DEF Orders, IInv, BiosOnce
  <2>2. j \in Int /\ r \in Int
    <3>1. rq[d].bios \subseteq Ids
        BY <1>1, RequestFields DEF Orders, IInv, TypeOK
    <3> QED
        BY <1>1, <3>1 DEF Ids
  <2> QED
      BY <1>1, <2>1, <2>2
<1> QED
    BY <1>1, <1>2 DEF Late

\* The dispatch list is left alone, and what the scheduler has got is newer than all
\* that is on it.
LEMMA PassFrame ==
    ASSUME Orders, UNCHANGED queue_head,
           \A x \in Dispatched : rq'[x].bios = rq[x].bios /\ rq'[x].where = rq[x].where,
           \A x \in Held' : /\ rq'[x].where = "SORT"
                            /\ \A i \in rq'[x].bios :
                                  Late(i) \/ \E y \in Held : i \in rq[y].bios
    PROVE  PassInv'
<1>1. Dispatched' = Dispatched
    BY DEF Dispatched
<1>2. \A k \in 1..Len(queue_head) : queue_head[k] \in Dispatched
    BY ListedAt DEF Orders, IInv, TypeOK, Dispatched
<1>3. ASSUME NEW k \in 1..Len(queue_head), NEW m \in 1..Len(queue_head), k < m
      PROVE  MayLead(rq'[queue_head[k]], rq'[queue_head[m]])
  <2>1. MayLead(rq[queue_head[k]], rq[queue_head[m]])
      BY <1>3 DEF Orders, PassInv
  <2> QED
      BY <1>2, <2>1 DEF MayLead
<1>4. ASSUME NEW r \in Dispatched, NEW s \in Held'
      PROVE  MayLead(rq'[r], rq'[s])
  <2>1. rq'[s].where = "SORT" /\ rq'[s].where # "FRONT" /\ rq'[s].where # "BACK"
      OBVIOUS
  <2>2. ASSUME rq[r].where = "BACK", NEW i \in rq[r].bios, NEW j \in rq'[s].bios
        PROVE  i < j
    <3>1. CASE Late(j)
        BY <3>1 DEF Late
    <3>2. CASE \E y \in Held : j \in rq[y].bios
      <4>1. PICK y \in Held : j \in rq[y].bios
          BY <3>2
      <4>2. MayLead(rq[r], rq[y])
          BY DEF Orders, PassInv
      <4> QED
          BY <2>2, <4>1, <4>2 DEF MayLead
    <3> QED
        BY <3>1, <3>2
  <2> QED
      BY <2>1, <2>2 DEF MayLead
<1> QED
    BY <1>1, <1>3, <1>4 DEF PassInv

-----------------------------------------------------------------------------
(* Merging and inserting *)

\* What elv_merge_requests does to the two requests and to the scheduler's list.
LEMMA MergeFacts ==
    ASSUME IInv, NEW R \in [Ids -> Request], NEW H, NEW r \in Ids, NEW s \in Ids, r # s,
           MergeRequests(R, H, r, s)
    PROVE  /\ rq'[r].bios = R[r].bios \cup R[s].bios /\ rq'[r].where = R[r].where
           /\ rq'[s].bios = {}
           /\ \A x \in Ids \ {r, s} : rq'[x] = R[x]
           /\ Held \ {s} \subseteq Held' /\ Held' \subseteq Held
<1>1. PICK G : G = [R[r] EXCEPT !.end = R[s].end, !.bios = R[r].bios \cup R[s].bios]
    OBVIOUS
<1>2. G.bios = R[r].bios \cup R[s].bios /\ G.where = R[r].where
    BY <1>1 DEF Request
<1>3. rq' = [R EXCEPT ![r] = G, ![s] = NoRq]
    BY <1>1 DEF MergeRequests, Chained
<1>4. rq'[r] = G /\ rq'[s] = NoRq /\ \A x \in Ids \ {r, s} : rq'[x] = R[x]
    BY <1>3
<1>5. Held \ {s} \subseteq Held' /\ Held' \subseteq Held
  <2>1. queue \in Seq(Ids) /\ IsInjective(queue)
      BY DEF IInv, TypeOK, PlacesInv
  <2>2. CASE "SORTED" \notin R[s].flags
    <3>1. queue' = queue
        BY <2>2 DEF MergeRequests
    <3> QED
        BY <3>1 DEF Held
  <2>3. CASE "SORTED" \in R[s].flags
    <3>1. PICK k \in 1..Len(queue) : queue[k] = s /\ queue' = RemoveAt(queue, k)
        BY <2>3 DEF MergeRequests, DropFromScheduler
    <3>2. ToSet(queue') = ToSet(queue) \ {queue[k]}
        BY <2>1, <3>1, RemovePositionMembers
    <3> QED
        BY <3>1, <3>2 DEF Held
  <2> QED
      BY <2>2, <2>3
<1> QED
    BY <1>2, <1>4, <1>5, NoRqType

\* r takes s over: both are ordinary ones, and the driver sees nothing of it.
LEMMA Joining ==
    ASSUME Orders, IInv', NEW R \in [Ids -> Request], NEW H, NEW r \in Held, NEW s \in Ids,
           r # s, s \notin Dispatched \cup active, MergeRequests(R, H, r, s),
           UNCHANGED <<queue_head, active>>, cur' \in {NULL, r},
           \A x \in Dispatched \cup active : R[x] = rq[x],
           \A x \in Held \cup {s} : /\ R[x].where = "SORT"
                                    /\ \A i \in R[x].bios :
                                          Late(i) \/ \E y \in Held : i \in rq[y].bios
    PROVE  Keeps(R)
<1>1. /\ IInv /\ r \in Ids /\ Held \subseteq Ids /\ Dispatched \subseteq Ids /\ active \subseteq Ids
      /\ Held \cap Dispatched = {} /\ Held \cap active = {}
    BY Pending DEF Orders, IInv, PlacesInv
<1>2. /\ rq'[r].bios = R[r].bios \cup R[s].bios /\ rq'[r].where = R[r].where
      /\ rq'[s].bios = {}
      /\ \A x \in Ids \ {r, s} : rq'[x] = R[x]
      /\ Held \ {s} \subseteq Held' /\ Held' \subseteq Held
    BY <1>1, MergeFacts
<1>3. Held' \cap Loose' = {} /\ \A x \in Held' : x \in Ids /\ rq'[x].bios # {}
    BY DEF IInv, PlacesInv, Live
<1>4. Loose' = {}
  <2>1. r \in Held'
      BY <1>2
  <2> QED
      BY <1>3, <2>1 DEF Loose
<1>5. Dispatched' = Dispatched
    BY DEF Dispatched
<1>6. \A x \in Dispatched \cup active : rq'[x] = rq[x]
    BY <1>1, <1>2
<1>7. \A x \in Held' : /\ rq'[x].where = "SORT"
                       /\ \A i \in rq'[x].bios :
                             Late(i) \/ \E y \in Held : i \in rq[y].bios
    BY <1>2, <1>3
<1>8. PassInv'
    BY <1>6, <1>7, PassFrame
<1>9. WhereInv'
    BY <1>4, <1>5, <1>6, <1>7 DEF Orders, WhereInv
<1>10. ASSUME NEW x \in Ids, NEW i \in R[x].bios
       PROVE  \E q \in Ids : i \in rq'[q].bios
                             /\ Standing(rq', active', q) = Standing(R, active, x)
  <2>1. CASE x \in {r, s}
      BY <1>1, <1>2, <2>1 DEF Standing
  <2>2. CASE x \notin {r, s}
      BY <1>2, <2>2 DEF Standing
  <2> QED
      BY <2>1, <2>2
<1> QED
    BY <1>8, <1>9, <1>10 DEF Keeps, Follows

\* What ELEVATOR_INSERT_SORT does to the request and to the scheduler's list.
LEMMA InsertFacts ==
    ASSUME IInv, NEW R \in [Ids -> Request], NEW H, NEW r \in Ids, InsertSort(R, H, r)
    PROVE  /\ rq'[r].bios = R[r].bios /\ rq'[r].where = R[r].where
           /\ \A x \in Ids \ {r} : rq'[x] = R[x]
           /\ Held' = Held \cup {r}
<1>1. PICK y : y = [R[r] EXCEPT !.flags = R[r].flags \cup {"SORTED"}]
    OBVIOUS
<1>2. y.bios = R[r].bios /\ y.where = R[r].where
    BY <1>1 DEF Request
<1>3. rq' = [R EXCEPT ![r] = y]
    BY <1>1 DEF InsertSort
<1>4. rq'[r] = y /\ \A x \in Ids \ {r} : rq'[x] = R[x]
    BY <1>3
<1>5. queue \in Seq(Ids)
    BY DEF IInv, TypeOK
<1>6. PICK p \in 1..(Len(queue) + 1) : queue' = InsertAt(queue, p, r)
    BY DEF InsertSort, AddToScheduler
<1>7. ToSet(queue') = ToSet(queue) \cup {r}
    BY <1>5, <1>6, InsertPositionMembers
<1> QED
    BY <1>2, <1>4, <1>7 DEF Held

\* r, which is the newest, joins the scheduler's list.
LEMMA Sorting ==
    ASSUME Orders, IInv', NEW R \in [Ids -> Request], NEW H, NEW r \in Ids,
           r \notin Held \cup Dispatched \cup active, InsertSort(R, H, r),
           UNCHANGED <<queue_head, active>>, cur' = NULL,
           \A x \in Held \cup Dispatched : R[x] = rq[x],
           R[r].where = "SORT", \A i \in R[r].bios : Late(i)
    PROVE  Keeps(R)
<1>1. IInv /\ Held \subseteq Ids /\ Dispatched \subseteq Ids
    BY Pending DEF Orders
<1>2. /\ rq'[r].bios = R[r].bios /\ rq'[r].where = R[r].where
      /\ \A x \in Ids \ {r} : rq'[x] = R[x]
      /\ Held' = Held \cup {r}
    BY <1>1, InsertFacts
<1>3. Loose' = {}
    BY DEF Loose
<1>4. Dispatched' = Dispatched
    BY DEF Dispatched
<1>5. \A x \in Held \cup Dispatched : rq'[x] = rq[x]
    BY <1>1, <1>2
<1>6. \A x \in Held' : /\ rq'[x].where = "SORT"
                       /\ \A i \in rq'[x].bios :
                             Late(i) \/ \E y \in Held : i \in rq[y].bios
    BY <1>2, <1>5 DEF Orders, WhereInv
<1>7. PassInv'
    BY <1>5, <1>6, PassFrame
<1>8. WhereInv'
    BY <1>3, <1>4, <1>5, <1>6 DEF Orders, WhereInv
<1>9. \A x \in Ids : rq'[x].bios = R[x].bios /\ Standing(rq', active', x) = Standing(R, active, x)
    BY <1>2 DEF Standing
<1>10. Follows(R)
    BY <1>9 DEF Follows
<1> QED
    BY <1>7, <1>8, <1>10 DEF Keeps

\* A request that grew stands where it stood.
LEMMA GrownWhere ==
    ASSUME rq \in [Ids -> Request], NEW b, NEW r \in Ids, NEW how, NEW R, R = Grown(r, b, how)
    PROVE  R[r].where = rq[r].where
<1>1. PICK x \in Request : x = rq[r]
    OBVIOUS
<1>2. PICK G : G = [x EXCEPT !.bios = @ \cup {next},
                             !.end = IF how = "BACK" THEN @ + b.len ELSE @,
                             !.pos = IF how = "FRONT" THEN @ - b.len ELSE @]
    OBVIOUS
<1>3. R = [rq EXCEPT ![r] = G]
    BY <1>1, <1>2 DEF Grown
<1>4. R[r] = G
    BY <1>3
<1>5. G.where = x.where
    BY <1>2 DEF Request
<1> QED
    BY <1>1, <1>4, <1>5

\* A bio is merged: it is pending as an ordinary submission.
LEMMA MergeBioOrder ==
    ASSUME Orders, IInv', NEW b \in Bios, MergeBio(b)
    PROVE  Step
<1> USE DEF Orders
<1>1. PICK r, how, H, R :
         /\ r \in Live /\ how \in {"BACK", "FRONT"} /\ H \in Swept
         /\ R = Grown(r, b, how)
         /\ MaySubmit(b) /\ Found(b, r, how, H)
         /\ IF \E s \in IF how = "BACK" THEN Latter(r) ELSE Former(r) :
                  IF how = "BACK" THEN CanMerge(R, r, s) ELSE CanMerge(R, s, r)
            THEN \E s \in IF how = "BACK" THEN Latter(r) ELSE Former(r) :
                    IF how = "BACK" THEN MergeRequests(R, H, r, s)
                                    ELSE MergeRequests(R, H, s, r)
            ELSE MergedRequest(R, H, r, how)
         /\ next' = next + 1
         /\ UNCHANGED <<pc, merges, queue_head, boundary, cur, driver>>
    BY DEF MergeBio
<1>2. r \in Ids
    BY <1>1 DEF Live
<1>3. r \in Held /\ (how = "FRONT" => rq[r].pos = b.pos + b.len)
    BY <1>1, <1>2, FoundHeld
<1>4. pc = "free" /\ cur = NULL /\ next \in Ids
    BY <1>1, SubmitFree, NothingLoose
<1>5. /\ rq \in [Ids -> Request] /\ Held \subseteq Ids /\ Dispatched \subseteq Ids
      /\ Held \cap Dispatched = {} /\ Held \cap active = {}
    BY Pending DEF IInv, TypeOK, PlacesInv
<1>6. /\ R \in [Ids -> Request] /\ R[r].bios = rq[r].bios \cup {next}
      /\ R[r].where = rq[r].where
      /\ \A x \in Ids \ {r} : R[x] = rq[x]
    BY <1>1, <1>2, <1>3, <1>4, <1>5, GrownFields, GrownWhere
<1>7. UNCHANGED <<queue_head, active, served, failed>> /\ cur' = NULL
    BY <1>1, <1>4 DEF driver
<1>8. \A x \in Dispatched \cup active : R[x] = rq[x]
    BY <1>3, <1>5, <1>6, Pending
<1>9. \A x \in Held : /\ R[x].where = "SORT"
                      /\ \A i \in R[x].bios : Late(i) \/ \E y \in Held : i \in rq[y].bios
  <2>1. \A x \in Held : rq[x].where = "SORT"
      BY DEF WhereInv
  <2>2. Late(next)
      BY NextLate
  <2> QED
      BY <1>5, <1>6, <2>1, <2>2
<1>10. ASSUME NEW t \in Held, NEW s \in Held, t # s, MergeRequests(R, H, t, s)
       PROVE  Keeps(R)
  <2>1. s \notin Dispatched \cup active /\ s \in Ids
      BY <1>5
  <2> QED
      BY <1>6, <1>7, <1>8, <1>9, <1>10, <2>1, Joining
<1>11. ASSUME MergedRequest(R, H, r, how)
       PROVE  Keeps(R)
  <2>1. rq' = R /\ Held' = Held /\ Dispatched' = Dispatched
      BY <1>7, <1>11 DEF MergedRequest, Held, Dispatched
  <2>2. PassInv'
      BY <1>7, <1>8, <1>9, <2>1, PassFrame
  <2>3. Loose' = {}
      BY <1>7 DEF Loose
  <2>4. WhereInv'
      BY <1>8, <1>9, <2>1, <2>3 DEF WhereInv
  <2>5. Follows(R)
      BY <1>7, <2>1 DEF Follows
  <2> QED
      BY <2>2, <2>4, <2>5 DEF Keeps
<1>12. Keeps(R)
  <2>1. CASE how = "BACK" /\ \E s \in Latter(r) : MergeRequests(R, H, r, s)
      BY <1>3, <1>10, <2>1, OneNeighbour
  <2>2. CASE how = "FRONT" /\ \E s \in Former(r) : MergeRequests(R, H, s, r)
      BY <1>3, <1>10, <2>2, OneNeighbour
  <2> QED
      BY <1>1, <1>11, <2>1, <2>2
<1>13. PICK k \in {"SORT", "BACK", "FRONT"} : k = Standing(R, active, r)
    BY <1>3, <1>5, <1>9 DEF Standing
<1>14. Extends(R)
    BY <1>6 DEF Extends, Standing
<1>15. next \in R[r].bios /\ Follows(R)
    BY <1>6, <1>12 DEF Keeps
<1>16. IInv /\ next' = next + 1 /\ UNCHANGED <<active, served, failed>>
    BY <1>1, <1>7
<1>17. BQ!Next
    BY <1>2, <1>4, <1>13, <1>14, <1>15, <1>16, Submitted
<1> QED
    BY <1>12, <1>17 DEF Step, Keeps

\* Nothing that the driver or a list can tell is changed.
LEMMA Quiet ==
    ASSUME Orders, IInv', UNCHANGED <<next, queue_head, active, served, failed>>,
           Held' = Held, Loose' = {}, \A x \in Dispatched : Barrier(rq[x]) => Barrier(rq'[x]),
           \A x \in Ids : rq'[x].bios = rq[x].bios /\ rq'[x].where = rq[x].where
    PROVE  Step
<1> USE DEF Orders
<1>1. Held \subseteq Ids /\ Dispatched \subseteq Ids /\ Dispatched' = Dispatched
    BY Pending DEF Dispatched
<1>2. UNCHANGED status
    BY Steady DEF Standing
<1>3. \A x \in Held' : /\ rq'[x].where = "SORT"
                       /\ \A i \in rq'[x].bios : \E y \in Held : i \in rq[y].bios
    BY <1>1 DEF WhereInv
<1>4. \A x \in Dispatched : rq'[x].bios = rq[x].bios /\ rq'[x].where = rq[x].where
    BY <1>1
<1>5. PassInv'
    BY <1>3, <1>4, PassFrame
<1>6. WhereInv'
    BY <1>1, <1>3, <1>4 DEF WhereInv
<1> QED
    BY <1>2, <1>5, <1>6 DEF Step

\* A request that would grow too large is marked.
LEMMA RefuseMergeOrder ==
    ASSUME Orders, IInv', NEW b \in Bios, RefuseMerge(b)
    PROVE  Step
<1> USE DEF Orders
<1>1. PICK r \in Live :
         /\ MaySubmit(b)
         /\ rq' = [rq EXCEPT ![r].flags = @ \cup {"NOMERGE"}]
         /\ UNCHANGED <<pc, merges, next, queue, queue_head, nr_sorted, boundary, cur, driver>>
    BY DEF RefuseMerge
<1>2. r \in Ids /\ rq \in [Ids -> Request] /\ cur = NULL /\ Dispatched \subseteq Ids
    BY <1>1, SubmitFree, NothingLoose, Pending DEF Live, IInv, TypeOK
<1>3. PICK y : y = [rq[r] EXCEPT !.flags = rq[r].flags \cup {"NOMERGE"}]
    OBVIOUS
<1>4. /\ y.bios = rq[r].bios /\ y.where = rq[r].where
      /\ y.flags = rq[r].flags \cup {"NOMERGE"}
    BY <1>2, <1>3 DEF Request
<1>5. rq' = [rq EXCEPT ![r] = y]
    BY <1>1, <1>3
<1>6. rq'[r] = y /\ \A x \in Ids \ {r} : rq'[x] = rq[x]
    BY <1>2, <1>5
<1>7. \A x \in Dispatched : Barrier(rq[x]) => Barrier(rq'[x])
    BY <1>2, <1>4, <1>6 DEF Barrier
<1>8. \A x \in Ids : rq'[x].bios = rq[x].bios /\ rq'[x].where = rq[x].where
    BY <1>4, <1>6
<1>9. Held' = Held /\ Loose' = {} /\ UNCHANGED <<next, queue_head, active, served, failed>>
    BY <1>1, <1>2 DEF Held, Loose, driver
<1> QED
    BY <1>7, <1>8, <1>9, Quiet

\* Where a new request was inserted.
LEMMA NewWhere ==
    ASSUME rq \in [Ids -> Request], NEW r \in Ids, NEW b \in Bios, NEW fs \in BOOLEAN,
           NEW elvpriv \in BOOLEAN, NEW where \in {"SORT", "BACK", "FRONT"}, NEW R,
           R = NewRequest(r, b, fs, elvpriv, where)
    PROVE  R[r].where = where
<1>1. PICK y : y = [pos |-> IF fs THEN b.pos ELSE 0, end |-> IF fs THEN b.pos + b.len ELSE 0,
                    dir |-> b.dir, fs |-> fs, bios |-> {r}, where |-> where,
                    flags |-> IF elvpriv THEN {"ELVPRIV"} ELSE {}]
    OBVIOUS
<1>2. y.where = where
    BY <1>1
<1>3. R = [rq EXCEPT ![r] = y]
    BY <1>1 DEF NewRequest
<1> QED
    BY <1>2, <1>3

\* A new request is sorted, merged at once, or held until a neighbour was looked for.
LEMMA AddSortedOrder ==
    ASSUME Orders, IInv', NEW b \in Bios, AddSorted(b)
    PROVE  Step
<1> USE DEF Orders
<1>1. PICK R :
         /\ R = NewRequest(next, b, TRUE, TRUE, "SORT") /\ MaySubmit(b)
         /\ \/ /\ last_merge # NULL
               /\ MergeRequests(R, hash, last_merge, next)
               /\ UNCHANGED <<pc, cur>>
            \/ InsertSort(R, hash, next) /\ UNCHANGED <<pc, cur>>
            \/ pc' = "merge" /\ cur' = next /\ rq' = R /\ UNCHANGED sched
         /\ next' = next + 1
         /\ UNCHANGED <<merges, queue_head, boundary, driver>>
    BY DEF AddSorted
<1>2. /\ next \in Ids /\ pc = "free" /\ cur = NULL
      /\ rq[next].bios = {} /\ next # NULL
      /\ next \notin Held \cup Dispatched \cup active
      /\ rq \in [Ids -> Request]
      /\ Held \subseteq Ids /\ Dispatched \subseteq Ids /\ active \subseteq Ids
    BY <1>1, SubmitFree, NothingLoose, Unused, Pending DEF IInv, TypeOK
<1>3. /\ R \in [Ids -> Request] /\ R[next].bios = {next} /\ R[next].flags = {"ELVPRIV"}
      /\ \A x \in Ids \ {next} : R[x] = rq[x]
  <2>1. PICK t \in BOOLEAN, w \in {"SORT", "BACK", "FRONT"} : t = TRUE /\ w = "SORT"
      OBVIOUS
  <2>2. R = NewRequest(next, b, t, t, w)
      BY <1>1, <2>1
  <2>3. /\ R \in [Ids -> Request] /\ R[next].bios = {next}
        /\ R[next].flags = IF t THEN {"ELVPRIV"} ELSE {}
        /\ \A x \in Ids \ {next} : R[x] = rq[x]
      BY <1>2, <2>2, NewFields
  <2> QED
      BY <2>1, <2>3
<1>4. R[next].where = "SORT"
  <2>1. PICK t \in BOOLEAN, w \in {"SORT", "BACK", "FRONT"} : t = TRUE /\ w = "SORT"
      OBVIOUS
  <2>2. R = NewRequest(next, b, t, t, w)
      BY <1>1, <2>1
  <2>3. rq \in [Ids -> Request] /\ next \in Ids
      BY <1>2
  <2>4. R[next].where = w
      BY <2>2, <2>3, NewWhere
  <2> QED
      BY <2>1, <2>4
<1>5. \A x \in Held \cup Dispatched \cup active : x # next /\ R[x] = rq[x]
    BY <1>2, <1>3
<1>6. UNCHANGED <<queue_head, active, served, failed>> /\ next' = next + 1
    BY <1>1 DEF driver
<1>7. Late(next) /\ \A x \in Held : rq[x].where = "SORT"
    BY NextLate DEF WhereInv
<1>8. ASSUME last_merge # NULL, MergeRequests(R, hash, last_merge, next), UNCHANGED cur
      PROVE  Keeps(R)
  <2>1. PICK r \in Held : r = last_merge
      BY <1>8 DEF IInv, LastMergeHeld
  <2>2. r # next /\ MergeRequests(R, hash, r, next) /\ cur' \in {NULL, r}
      BY <1>2, <1>8, <2>1
  <2>3. \A x \in Held \cup {next} : /\ R[x].where = "SORT"
                                    /\ \A i \in R[x].bios :
                                          Late(i) \/ \E y \in Held : i \in rq[y].bios
      BY <1>3, <1>4, <1>5, <1>7
  <2> QED
      BY <1>2, <1>3, <1>5, <1>6, <2>2, <2>3, Joining
<1>9. ASSUME InsertSort(R, hash, next), UNCHANGED cur
      PROVE  Keeps(R)
    BY <1>2, <1>3, <1>4, <1>5, <1>6, <1>7, <1>9, Sorting
<1>10. ASSUME pc' = "merge", cur' = next, rq' = R, UNCHANGED sched
       PROVE  Keeps(R)
  <2>1. Held' = Held /\ Dispatched' = Dispatched
      BY <1>6, <1>10 DEF Held, Dispatched, sched
  <2>2. \A x \in Held' : /\ rq'[x].where = "SORT"
                         /\ \A i \in rq'[x].bios : \E y \in Held : i \in rq[y].bios
      BY <1>5, <1>7, <1>10, <2>1
  <2>3. PassInv'
      BY <1>5, <1>6, <1>10, <2>2, PassFrame
  <2>4. Loose' \subseteq {next}
      BY <1>10 DEF Loose
  <2>5. WhereInv'
      BY <1>3, <1>4, <1>5, <1>6, <1>7, <1>10, <2>1, <2>4 DEF WhereInv
  <2>6. Follows(R)
      BY <1>6, <1>10 DEF Follows
  <2> QED
      BY <2>3, <2>5, <2>6 DEF Keeps
<1>11. Keeps(R)
    BY <1>1, <1>8, <1>9, <1>10
<1>12. PICK k \in {"SORT", "BACK", "FRONT"} : k = Standing(R, active, next)
    BY <1>2, <1>4 DEF Standing
<1>13. Extends(R)
  <2>1. \A x \in Ids : rq[x].bios # {} => x # next
      BY <1>2
  <2> QED
      BY <1>3, <2>1 DEF Extends, Standing
<1>14. next \in R[next].bios /\ Follows(R) /\ UNCHANGED <<active, served, failed>> /\ IInv
    BY <1>3, <1>6, <1>11 DEF Keeps
<1>15. BQ!Next
    BY <1>2, <1>6, <1>12, <1>13, <1>14, Submitted
<1> QED
    BY <1>11, <1>15 DEF Step, Keeps

\* The newest request, or one the scheduler holds, is merged into its neighbour.
LEMMA MergeStepOrder ==
    ASSUME Orders, IInv', MergeStep
    PROVE  Step
<1> USE DEF Orders
<1>1. PICK s \in HashFind(rq[cur].pos), H \in Swept :
         /\ pc = "merge" /\ CanMerge(rq, s, cur) /\ MergeRequests(rq, H, s, cur)
         /\ cur' = s /\ UNCHANGED <<pc, merges, next, queue_head, boundary, driver>>
    BY DEF MergeStep
<1>2. /\ rq \in [Ids -> Request] /\ cur \in Loose \cup Held /\ cur \in Ids
      /\ rq[cur].bios # {} /\ rq[cur].fs
    BY <1>1, Pending DEF IInv, TypeOK, LockInv
<1>3. s \in Ids /\ hash[s] = rq[cur].pos
    BY <1>1 DEF HashFind
<1>4. s \in Held /\ hash[s] = rq[s].end
  <2>1. hash[s] # NotHashed
      BY <1>2, <1>3, RequestFields DEF NotHashed
  <2> QED
      BY <1>3, <2>1 DEF IInv, HashMatches
<1>5. s # cur
  <2>1. rq[cur].pos < rq[cur].end /\ rq[cur].pos \in Nat /\ rq[cur].end \in Nat
      BY <1>2, RequestFields DEF IInv, SectorsOnce, Extent
  <2> QED
      BY <1>3, <1>4, <2>1
<1>6. cur \notin Dispatched \cup active
    BY <1>2 DEF IInv, PlacesInv
<1>7. UNCHANGED <<next, queue_head, active, served, failed>> /\ cur' \in {NULL, s}
    BY <1>1 DEF driver
<1>8. \A x \in Held \cup {cur} : /\ rq[x].where = "SORT"
                                 /\ \A i \in rq[x].bios :
                                       Late(i) \/ \E y \in Held : i \in rq[y].bios
  <2>1. cur \in Loose => \A i \in rq[cur].bios : Late(i)
      BY LooseLate
  <2>2. \A x \in Held \cup Loose : rq[x].where = "SORT"
      BY <1>1 DEF WhereInv
  <2> QED
      BY <1>2, <2>1, <2>2
<1>9. Keeps(rq)
    BY <1>1, <1>2, <1>4, <1>5, <1>6, <1>7, <1>8, Joining
<1>10. UNCHANGED status
    BY <1>7, <1>9, Steady DEF Keeps, Follows
<1> QED
    BY <1>9, <1>10 DEF Keeps, Step

\* The loop ends.
LEMMA MergeDoneOrder ==
    ASSUME Orders, IInv', MergeDone
    PROVE  Step
<1> USE DEF Orders
<1>1. PICK H \in Swept :
         /\ pc = "merge"
         /\ IF "SORTED" \in rq[cur].flags
            THEN hash' = H /\ UNCHANGED <<rq, queue, nr_sorted, last_merge>>
            ELSE InsertSort(rq, H, cur)
         /\ pc' = "free" /\ cur' = NULL
         /\ UNCHANGED <<merges, next, queue_head, boundary, driver>>
    BY DEF MergeDone
<1>2. rq \in [Ids -> Request] /\ cur \in Loose \cup Held /\ cur \in Ids /\ cur # NULL
    BY <1>1, Pending DEF IInv, TypeOK, LockInv
<1>3. UNCHANGED <<next, queue_head, active, served, failed>> /\ Loose' = {}
    BY <1>1 DEF driver, Loose
<1>4. CASE "SORTED" \notin rq[cur].flags
  <2>1. cur \in Loose
      BY <1>2, <1>4 DEF Loose
  <2>2. cur \notin Held \cup Dispatched \cup active
      BY <2>1 DEF IInv, PlacesInv
  <2>3. rq[cur].where = "SORT" /\ \A i \in rq[cur].bios : Late(i)
      BY <1>1, <2>1, LooseLate DEF WhereInv
  <2>4. Keeps(rq)
      BY <1>1, <1>2, <1>3, <1>4, <2>2, <2>3, Sorting
  <2>5. UNCHANGED status
      BY <1>3, <2>4, Steady DEF Keeps, Follows
  <2> QED
      BY <2>4, <2>5 DEF Keeps, Step
<1>5. CASE "SORTED" \in rq[cur].flags
  <2>1. rq' = rq /\ Held' = Held
      BY <1>1, <1>5 DEF Held
  <2> QED
      BY <1>3, <2>1, Quiet
<1> QED
    BY <1>4, <1>5

-----------------------------------------------------------------------------
(* Barriers and dispatching *)

\* Where a new barrier was inserted.
LEMMA BarrierWhere ==
    ASSUME rq \in [Ids -> Request], NEW r \in Ids, NEW b \in Bios, NEW fs \in BOOLEAN,
           NEW elvpriv \in BOOLEAN, NEW where \in {"SORT", "BACK", "FRONT"},
           rq' = [NewRequest(r, b, fs, elvpriv, where)
                     EXCEPT ![r].flags = @ \cup {"SOFTBARRIER"}]
    PROVE  rq'[r].where = where
<1>1. PICK R : R = NewRequest(r, b, fs, elvpriv, where)
    OBVIOUS
<1>2. R \in [Ids -> Request] /\ R[r].where = where
    BY <1>1, NewFields, NewWhere
<1>3. PICK y : y = [R[r] EXCEPT !.flags = R[r].flags \cup {"SOFTBARRIER"}]
    OBVIOUS
<1>4. y.where = R[r].where
    BY <1>2, <1>3 DEF Request
<1>5. rq' = [R EXCEPT ![r] = y]
    BY <1>1, <1>3
<1> QED
    BY <1>2, <1>4, <1>5

\* A barrier is submitted: it carries its submission only.
LEMMA BarrierSubmitted ==
    ASSUME Orders, IInv', next \in Ids, next' = next + 1, UNCHANGED <<active, served, failed>>,
           rq'[next].bios = {next}, rq'[next].where \in {"BACK", "FRONT"},
           \A x \in Ids \ {next} : rq'[x] = rq[x]
    PROVE  BQ!Next
<1>1. IInv /\ rq[next].bios = {} /\ next \notin active
    BY Unused DEF Orders
<1>2. PICK R : R = rq'
    OBVIOUS
<1>3. PICK k \in {"SORT", "BACK", "FRONT"} : k = Standing(R, active, next)
    BY <1>1, <1>2 DEF Standing
<1>4. Extends(R)
    BY <1>1, <1>2 DEF Extends, Standing
<1>5. Follows(R)
    BY <1>2 DEF Follows
<1>6. next \in R[next].bios
    BY <1>2
<1> QED
    BY <1>1, <1>3, <1>4, <1>5, <1>6, Submitted

\* A barrier to the back: it is not on a list before the scheduler is drained.
LEMMA AddBackOrder ==
    ASSUME Orders, IInv', NEW b \in Bios, AddBack(b)
    PROVE  Step
<1> USE DEF Orders
<1>1. PICK fs \in BOOLEAN, elvpriv \in Privileged :
         /\ MaySubmit(b)
         /\ rq' = [NewRequest(next, b, fs, elvpriv, "BACK")
                      EXCEPT ![next].flags = @ \cup {"SOFTBARRIER"}]
         /\ pc' = "drain" /\ cur' = next /\ next' = next + 1
         /\ UNCHANGED <<merges, sched, queue_head, boundary, driver>>
    BY DEF AddBack
<1>2. /\ elvpriv \in BOOLEAN /\ next \in Ids /\ rq \in [Ids -> Request]
      /\ next \notin Held \cup Dispatched \cup active
      /\ Held \subseteq Ids /\ Dispatched \subseteq Ids
    BY <1>1, ElevatorAssumption, SubmitFree, Unused, Pending DEF IInv, TypeOK
<1>3. /\ rq'[next].bios = {next} /\ rq'[next].where = "BACK"
      /\ \A x \in Ids \ {next} : rq'[x] = rq[x]
  <2>1. PICK w \in {"SORT", "BACK", "FRONT"} : w = "BACK" /\ w \in {"BACK", "FRONT"}
      OBVIOUS
  <2>2. rq' = [NewRequest(next, b, fs, elvpriv, w) EXCEPT ![next].flags = @ \cup {"SOFTBARRIER"}]
      BY <1>1, <2>1
  <2>3. rq'[next].where = w
      BY <1>2, <2>2, BarrierWhere
  <2>4. AsBarrier(b, fs, elvpriv, w)
      BY <2>2 DEF AsBarrier
  <2>5. BarrierMade(fs)
      BY <1>1, <1>2, <2>1, <2>4, NewBarrier
  <2>6. rq'[next].bios = {next} /\ \A x \in Ids \ {next} : rq'[x] = rq[x]
      BY <2>5 DEF BarrierMade
  <2> QED
      BY <2>1, <2>3, <2>6
<1>4. UNCHANGED <<queue, queue_head, active, served, failed>> /\ next' = next + 1
    BY <1>1 DEF sched, driver
<1>5. Held' = Held /\ Dispatched' = Dispatched /\ Loose' \subseteq {next}
    BY <1>1, <1>4 DEF Held, Dispatched, Loose
<1>6. \A x \in Held \cup Dispatched : rq'[x] = rq[x]
    BY <1>2, <1>3
<1>7. \A x \in Held' : /\ rq'[x].where = "SORT"
                       /\ \A i \in rq'[x].bios : \E y \in Held : i \in rq[y].bios
    BY <1>5, <1>6 DEF WhereInv
<1>8. PassInv'
    BY <1>4, <1>6, <1>7, PassFrame
<1>9. WhereInv'
    BY <1>1, <1>3, <1>5, <1>6, <1>7 DEF WhereInv
<1>10. BQ!Next
    BY <1>2, <1>3, <1>4, BarrierSubmitted
<1> QED
    BY <1>8, <1>9, <1>10 DEF Step

\* What is at the very front may be taken first.
LEMMA Fronted ==
    ASSUME Orders, NEW r \in Ids, queue_head' = AtHead(r), UNCHANGED queue,
           rq'[r].where = "FRONT", \A x \in Held \cup Dispatched : rq'[x] = rq[x]
    PROVE  PassInv' /\ Dispatched' = Dispatched \cup {r}
<1>1. queue_head \in Seq(Ids) /\ Len(queue_head) \in Nat /\ Held' = Held
    BY ListedAt DEF Orders, IInv, TypeOK, Held
<1>2. Prepended(Ids, queue_head, r, queue_head')
    BY <1>1, PrependMembers DEF AtHead
<1>3. /\ Len(queue_head') = Len(queue_head) + 1 /\ queue_head'[1] = r
      /\ \A k \in 1..Len(queue_head) : queue_head'[k + 1] = queue_head[k]
      /\ Dispatched' = Dispatched \cup {r}
    BY <1>2 DEF Prepended, Dispatched
<1>4. \A k \in 1..Len(queue_head) : queue_head[k] \in Dispatched
    BY <1>1, ListedAt DEF Dispatched
<1>5. ASSUME NEW i \in 1..Len(queue_head'), NEW j \in 1..Len(queue_head'), i < j
      PROVE  MayLead(rq'[queue_head'[i]], rq'[queue_head'[j]])
  <2>1. CASE i = 1
      BY <1>3, <2>1 DEF MayLead
  <2>2. CASE i # 1
    <3>1. PICK n \in Nat : n = Len(queue_head)
        BY <1>1
    <3>2. PICK k \in 1..n, m \in 1..n : i = k + 1 /\ j = m + 1 /\ k < m
      <4>1. i - 1 \in 1..n /\ j - 1 \in 1..n
          BY <1>3, <1>5, <2>2, <3>1
      <4> QED
          BY <1>5, <4>1
    <3>3. MayLead(rq[queue_head[k]], rq[queue_head[m]])
        BY <3>1, <3>2 DEF Orders, PassInv
    <3>4. queue_head'[i] = queue_head[k] /\ queue_head'[j] = queue_head[m]
        BY <1>3, <3>1, <3>2
    <3> QED
        BY <1>4, <3>1, <3>3, <3>4
  <2> QED
      BY <2>1, <2>2
<1>6. ASSUME NEW x \in Dispatched', NEW s \in Held'
      PROVE  MayLead(rq'[x], rq'[s])
  <2>1. CASE x = r
      BY <2>1 DEF MayLead
  <2>2. CASE x \in Dispatched
    <3>1. MayLead(rq[x], rq[s])
        BY <1>1, <2>2 DEF Orders, PassInv
    <3> QED
        BY <1>1, <2>2, <3>1
  <2> QED
      BY <1>3, <2>1, <2>2
<1> QED
    BY <1>3, <1>5, <1>6 DEF PassInv

\* A barrier to the very front.
LEMMA AddFrontOrder ==
    ASSUME Orders, IInv', NEW b \in Bios, AddFront(b)
    PROVE  Step
<1> USE DEF Orders
<1>1. /\ MaySubmit(b)
      /\ rq' = [NewRequest(next, b, FALSE, TRUE, "FRONT")
                   EXCEPT ![next].flags = @ \cup {"SOFTBARRIER"}]
      /\ queue_head' = AtHead(next) /\ next' = next + 1
      /\ UNCHANGED <<pc, merges, sched, boundary, cur, driver>>
    BY DEF AddFront
<1>2. /\ next \in Ids /\ rq \in [Ids -> Request] /\ cur = NULL
      /\ next \notin Held \cup Dispatched \cup active
      /\ Held \subseteq Ids /\ Dispatched \subseteq Ids
    BY <1>1, SubmitFree, NothingLoose, Unused, Pending DEF IInv, TypeOK
<1>3. /\ rq'[next].bios = {next} /\ rq'[next].where = "FRONT" /\ Barrier(rq'[next])
      /\ \A x \in Ids \ {next} : rq'[x] = rq[x]
  <2>1. PICK w \in {"SORT", "BACK", "FRONT"}, f \in BOOLEAN, t \in BOOLEAN :
           w = "FRONT" /\ w \in {"BACK", "FRONT"} /\ f = FALSE /\ t = TRUE
      OBVIOUS
  <2>2. rq' = [NewRequest(next, b, f, t, w) EXCEPT ![next].flags = @ \cup {"SOFTBARRIER"}]
      BY <1>1, <2>1
  <2>3. rq'[next].where = w
      BY <1>2, <2>2, BarrierWhere
  <2>4. AsBarrier(b, f, t, w)
      BY <2>2 DEF AsBarrier
  <2>5. BarrierMade(f)
      BY <1>1, <1>2, <2>1, <2>4, NewBarrier
  <2>6. /\ rq'[next].bios = {next} /\ Barrier(rq'[next])
        /\ \A x \in Ids \ {next} : rq'[x] = rq[x]
      BY <2>5 DEF BarrierMade
  <2> QED
      BY <2>1, <2>3, <2>6
<1>4. UNCHANGED <<queue, active, served, failed>> /\ next' = next + 1
      /\ queue_head' = AtHead(next)
    BY <1>1 DEF sched, driver
<1>5. Held' = Held /\ Loose' = {}
    BY <1>1, <1>2, <1>4 DEF Held, Loose
<1>6. \A x \in Held \cup Dispatched : rq'[x] = rq[x]
    BY <1>2, <1>3
<1>7. PassInv' /\ Dispatched' = Dispatched \cup {next}
    BY <1>2, <1>3, <1>4, <1>6, Fronted
<1>8. WhereInv'
    BY <1>3, <1>5, <1>6, <1>7 DEF WhereInv
<1>9. BQ!Next
    BY <1>2, <1>3, <1>4, BarrierSubmitted
<1> QED
    BY <1>7, <1>8, <1>9 DEF Step

\* The scheduler's first request goes behind what it may not pass: it stops at barriers.
LEMMA DispatchOrder ==
    ASSUME Orders, IInv', DispatchFirst, UNCHANGED <<pc, rq, next, cur, driver>>
    PROVE  Step
<1> USE DEF Orders
<1>1. /\ queue \in Seq(Ids) /\ queue # <<>> /\ IsInjective(queue)
      /\ queue_head \in Seq(Ids) /\ Len(queue_head) \in Nat
      /\ \A k \in 1..Len(queue_head) : queue_head[k] \in Dispatched
    BY ListedAt DEF IInv, TypeOK, PlacesInv, Dispatched, DispatchFirst
<1>2. PICK r : r = Head(queue)
    OBVIOUS
<1>3. r \in Ids /\ r \in Held /\ Held' = Held \ {r}
    BY <1>1, <1>2, TailMembers DEF Held, DispatchFirst
<1>4. PICK p \in 1..(Len(queue_head) + 1) :
         /\ \A k \in p..Len(queue_head) : ~StopsSort(rq[r], rq[queue_head[k]])
         /\ queue_head' = InsertAt(queue_head, p, r)
    BY <1>2 DEF DispatchFirst, DispatchSort
<1>5. Dispatched' = Dispatched \cup {r}
    BY <1>1, <1>3, <1>4, InsertPositionMembers DEF Dispatched
<1>6. /\ Len(queue_head') = Len(queue_head) + 1
      /\ \A k \in 1..Len(queue_head') :
            queue_head'[k] = IF k < p THEN queue_head[k]
                             ELSE IF k = p THEN r ELSE queue_head[k - 1]
    BY <1>1, <1>3, <1>4, InsertAtPosition
<1>7. rq[r].where = "SORT" /\ \A x \in Held : rq[x].where = "SORT"
    BY <1>3 DEF WhereInv
<1>8. \A k \in p..Len(queue_head) : rq[queue_head[k]].where = "SORT"
  <2>1. ASSUME NEW k \in p..Len(queue_head)
        PROVE  rq[queue_head[k]].where = "SORT"
    <3>1. ~Barrier(rq[queue_head[k]])
        BY <1>4 DEF StopsSort
    <3>2. k \in 1..Len(queue_head)
        BY <1>1
    <3> QED
        BY <1>1, <3>1, <3>2 DEF WhereInv
  <2> QED
      BY <2>1
<1>9. ASSUME NEW i \in 1..Len(queue_head'), NEW j \in 1..Len(queue_head'), i < j
      PROVE  MayLead(rq[queue_head'[i]], rq[queue_head'[j]])
  <2>1. PICK n, q : n \in Nat /\ q \in 1..(n + 1) /\ n = Len(queue_head) /\ q = p
      BY <1>1
  <2>2. i \in 1..(n + 1) /\ j \in 1..(n + 1)
      BY <1>6, <2>1
  <2>3. CASE i = q
    <3>1. PICK k : k \in q..n /\ k = j - 1
      <4>1. j - 1 \in q..n
          BY <1>9, <2>1, <2>2, <2>3
      <4> QED
          BY <4>1
    <3>2. queue_head'[i] = r /\ queue_head'[j] = queue_head[k]
        BY <1>6, <1>9, <2>1, <2>2, <2>3, <3>1
    <3>3. rq[queue_head[k]].where = "SORT"
        BY <1>8, <2>1, <3>1
    <3> QED
        BY <1>7, <3>2, <3>3 DEF MayLead
  <2>4. CASE j = q
    <3>1. queue_head'[j] = r /\ queue_head'[i] = queue_head[i] /\ i \in 1..Len(queue_head)
        BY <1>6, <1>9, <2>1, <2>2, <2>4
    <3> QED
        BY <1>1, <1>3, <3>1 DEF PassInv
  <2>5. CASE i # q /\ j # q
    <3>1. PICK k, m : /\ k = (IF i < q THEN i ELSE i - 1)
                      /\ m = (IF j < q THEN j ELSE j - 1)
        OBVIOUS
    <3>2. k \in 1..n /\ m \in 1..n /\ k < m
        BY <1>9, <2>1, <2>2, <2>5, <3>1
    <3>3. queue_head'[i] = queue_head[k] /\ queue_head'[j] = queue_head[m]
        BY <1>6, <2>1, <2>2, <2>5, <3>1
    <3> QED
        BY <2>1, <3>2, <3>3 DEF PassInv
  <2> QED
      BY <2>3, <2>4, <2>5
<1>10. \A x \in Dispatched', s \in Held' : MayLead(rq[x], rq[s])
  <2>1. \A s \in Held' : MayLead(rq[r], rq[s])
      BY <1>3, <1>7 DEF MayLead
  <2>2. \A x \in Dispatched, s \in Held' : MayLead(rq[x], rq[s])
      BY <1>3 DEF PassInv
  <2> QED
      BY <1>5, <2>1, <2>2
<1>11. PassInv'
    BY <1>9, <1>10 DEF PassInv
<1>12. WhereInv'
  <2>1. Loose' = Loose
      BY DEF Loose
  <2> QED
      BY <1>3, <1>5, <1>7, <2>1 DEF WhereInv
<1>13. UNCHANGED status
    BY Steady DEF driver
<1> QED
    BY <1>11, <1>12, <1>13 DEF Step

\* The barrier goes behind all that was submitted before it, which the drain has put on
\* the dispatch list.
LEMMA DrainDoneOrder ==
    ASSUME Orders, IInv', DrainDone
    PROVE  Step
<1> USE DEF Orders
<1>1. /\ pc = "drain" /\ queue = <<>> /\ queue_head' = Append(queue_head, cur) /\ cur' = NULL
      /\ UNCHANGED <<rq, next, queue, active, served, failed>>
    BY DEF DrainDone, sched, driver
<1>2. cur \in Loose /\ Barrier(rq[cur]) /\ cur \in Ids
    BY <1>1, Pending DEF IInv, LockInv
<1>3. /\ rq[cur].where = "BACK" /\ \A i \in rq[cur].bios : Late(i)
    BY <1>1, <1>2, LooseLate DEF WhereInv
<1>4. /\ queue_head \in Seq(Ids) /\ Len(queue_head) \in Nat
      /\ \A k \in 1..Len(queue_head) : queue_head[k] \in Dispatched
    BY ListedAt DEF IInv, TypeOK, Dispatched
<1>5. Dispatched' = Dispatched \cup {cur}
    BY <1>1, <1>2, <1>4, AppendMembers DEF Dispatched
<1>6. /\ Len(queue_head') = Len(queue_head) + 1 /\ queue_head'[Len(queue_head) + 1] = cur
      /\ \A k \in 1..Len(queue_head) : queue_head'[k] = queue_head[k]
    BY <1>1, <1>2, <1>4, AppendProperties
<1>7. Held' = {} /\ Loose' = {}
    BY <1>1 DEF Held, Loose, ToSet
<1>8. ASSUME NEW i \in 1..Len(queue_head'), NEW j \in 1..Len(queue_head'), i < j
      PROVE  MayLead(rq[queue_head'[i]], rq[queue_head'[j]])
  <2>1. i \in 1..Len(queue_head) /\ queue_head'[i] = queue_head[i]
      BY <1>4, <1>6, <1>8
  <2>2. CASE j = Len(queue_head) + 1
    <3>1. \A m \in rq[queue_head[i]].bios, n \in rq[cur].bios : m < n
        BY <1>3, <1>4, <2>1 DEF Late
    <3> QED
        BY <1>3, <1>6, <2>1, <2>2, <3>1 DEF MayLead
  <2>3. CASE j # Len(queue_head) + 1
    <3>1. j \in 1..Len(queue_head) /\ queue_head'[j] = queue_head[j]
        BY <1>4, <1>6, <2>3
    <3> QED
        BY <1>8, <2>1, <3>1 DEF PassInv
  <2> QED
      BY <2>2, <2>3
<1>9. PassInv'
    BY <1>1, <1>7, <1>8 DEF PassInv
<1>10. WhereInv'
    BY <1>1, <1>2, <1>5, <1>7 DEF WhereInv
<1>11. UNCHANGED status
    BY <1>1, Steady
<1> QED
    BY <1>9, <1>10, <1>11 DEF Step

-----------------------------------------------------------------------------
(* The driver's side *)

\* The driver is shown the first request.
LEMMA PeekOrder ==
    ASSUME Orders, IInv', Peek
    PROVE  Step
<1> USE DEF Orders
<1>1. PICK r : r = Head(queue_head)
    OBVIOUS
<1>2. /\ pc = "free" /\ queue_head # <<>>
      /\ rq' = [rq EXCEPT ![r].flags = @ \cup {"STARTED"}]
      /\ UNCHANGED <<next, queue, queue_head, cur, active, served, failed>>
    BY <1>1 DEF Peek, sched, driver
<1>3. r \in Ids /\ rq \in [Ids -> Request] /\ cur = NULL /\ Dispatched \subseteq Ids
  <2>1. queue_head \in Seq(Ids) /\ IsInjective(queue_head)
      BY DEF IInv, TypeOK, PlacesInv
  <2>2. r \in Ids
      BY <1>1, <1>2, <2>1, TailMembers
  <2> QED
      BY <1>2, <2>2, NothingLoose, Pending DEF IInv, TypeOK
<1>4. PICK y : y = [rq[r] EXCEPT !.flags = rq[r].flags \cup {"STARTED"}]
    OBVIOUS
<1>5. /\ y.bios = rq[r].bios /\ y.where = rq[r].where
      /\ y.flags = rq[r].flags \cup {"STARTED"}
    BY <1>3, <1>4 DEF Request
<1>6. rq' = [rq EXCEPT ![r] = y]
    BY <1>2, <1>4
<1>7. rq'[r] = y /\ \A x \in Ids \ {r} : rq'[x] = rq[x]
    BY <1>3, <1>6
<1>8. \A x \in Dispatched : Barrier(rq[x]) => Barrier(rq'[x])
    BY <1>3, <1>5, <1>7 DEF Barrier
<1>9. \A x \in Ids : rq'[x].bios = rq[x].bios /\ rq'[x].where = rq[x].where
    BY <1>5, <1>7
<1>10. Held' = Held /\ Loose' = {} /\ UNCHANGED <<next, queue_head, active, served, failed>>
    BY <1>2, <1>3 DEF Held, Loose
<1> QED
    BY <1>8, <1>9, <1>10, Quiet

\* The driver takes the first request, and passes no barrier with it.
LEMMA DequeueOrder ==
    ASSUME Orders, IInv', Dequeue
    PROVE  Step
<1> USE DEF Orders
<1>1. PICK r : r = Head(queue_head)
    OBVIOUS
<1>2. /\ pc = "free" /\ queue_head # <<>> /\ active' = active \cup {r}
      /\ queue_head' = Tail(queue_head)
      /\ UNCHANGED <<rq, next, queue, cur, served, failed>>
    BY <1>1 DEF Dequeue, sched
<1>3. /\ queue_head \in Seq(Ids) /\ IsInjective(queue_head) /\ Len(queue_head) \in Nat
      /\ \A x \in Dispatched : \E k \in 1..Len(queue_head) : queue_head[k] = x
      /\ Dispatched \subseteq Ids /\ Held \subseteq Ids /\ rq \in [Ids -> Request]
    BY ListedAt, Pending DEF IInv, TypeOK, PlacesInv, Dispatched
<1>4. /\ r \in Ids /\ r \in Dispatched /\ Dispatched' = Dispatched \ {r}
    BY <1>1, <1>2, <1>3, TailMembers DEF Dispatched
<1>5. /\ Len(queue_head') = Len(queue_head) - 1 /\ Len(queue_head) # 0 /\ r = queue_head[1]
      /\ \A k \in 1..(Len(queue_head) - 1) : queue_head'[k] = queue_head[k + 1]
    BY <1>1, <1>2, <1>3, HeadTailProperties
<1>6. /\ r \notin active /\ rq[r].bios # {} /\ Loose = {} /\ Held' = Held /\ Loose' = {}
      /\ \A x \in Ids : rq[x].bios # {} => x \in Held \cup Dispatched \cup active
    BY <1>2, <1>4, NothingLoose, Pending DEF IInv, PlacesInv, Held, Loose
<1>7. \A x \in (Held \cup Dispatched) \ {r} : MayLead(rq[r], rq[x])
  <2>1. ASSUME NEW x \in Dispatched, x # r PROVE MayLead(rq[r], rq[x])
    <3>1. PICK k \in 1..Len(queue_head) : queue_head[k] = x
        BY <1>3
    <3>2. 1 \in 1..Len(queue_head) /\ 1 < k
        BY <1>3, <1>5, <2>1, <3>1
    <3> QED
        BY <1>5, <3>1, <3>2 DEF PassInv
  <2>2. \A x \in Held : MayLead(rq[r], rq[x])
      BY <1>4 DEF PassInv
  <2> QED
      BY <2>1, <2>2
<1>8. PICK S : S = rq[r].bios
    OBVIOUS
<1>9. S \subseteq Ids /\ S # {} /\ rq[r].where \in {"SORT", "BACK", "FRONT"}
    BY <1>3, <1>4, <1>6, <1>8, RequestFields
<1>10. \A i \in S : status[i] = rq[r].where
  <2>1. PICK w : w = rq[r].where
      OBVIOUS
  <2>2. \A i \in S : Now(i, w)
      BY <1>4, <1>6, <1>8, <2>1 DEF Now, IsIn, Standing
  <2> QED
      BY <1>9, <2>1, <2>2, StatusNow
<1>11. ASSUME NEW i \in S, NEW j \in Ids \ S, status[j] \in BQ!Kinds
       PROVE  BQ!MayPass(i, j)
  <2>1. PICK q \in Ids : j \in rq[q].bios /\ q \notin active /\ status[j] = rq[q].where
      BY <1>11, Carrier
  <2>2. q # r /\ q \in Held \cup Dispatched
      BY <1>6, <1>8, <1>11, <2>1
  <2>3. MayLead(rq[r], rq[q])
      BY <1>7, <2>2
  <2>4. /\ rq[r].where = status[i] /\ rq[q].where = status[j]
        /\ i \in rq[r].bios /\ j \in rq[q].bios
      BY <1>8, <1>10, <2>1
  <2> QED
      BY <2>3, <2>4 DEF MayLead, BQ!MayPass
<1>12. BQ!Become(S, "driver")
  <2>1. PICK d : d = "driver"
      OBVIOUS
  <2>2. \A i \in S : Now(i, d)'
      BY <1>2, <1>4, <1>8, <2>1 DEF Now, IsIn, Standing
  <2>3. \A i \in Ids \ S : \A t : Now(i, t) => Now(i, t)'
    <3>1. ASSUME NEW x \in Ids, NEW i \in rq[x].bios \ S
          PROVE  \E q \in Ids : i \in rq'[q].bios
                                /\ Standing(rq', active', q) = Standing(rq, active, x)
      <4>1. x # r
          BY <1>8, <3>1
      <4> QED
          BY <1>2, <4>1 DEF Standing
    <3> QED
        BY <1>2, <3>1, Stays
  <2> QED
      BY <2>1, <2>2, <2>3, Becomes
<1>13. BQ!Take(S)
    BY <1>9, <1>10, <1>11, <1>12 DEF BQ!Take, BQ!Kinds, BQ!Ids, Ids
<1>14. BQ!Next
    BY <1>9, <1>13 DEF BQ!Next, BQ!Ids, Ids
<1>15. WhereInv'
    BY <1>2, <1>4, <1>6 DEF WhereInv
<1>16. PassInv'
  <2>1. ASSUME NEW i \in 1..Len(queue_head'), NEW j \in 1..Len(queue_head'), i < j
        PROVE  MayLead(rq[queue_head'[i]], rq[queue_head'[j]])
    <3>1. /\ i + 1 \in 1..Len(queue_head) /\ j + 1 \in 1..Len(queue_head) /\ i + 1 < j + 1
          /\ queue_head'[i] = queue_head[i + 1] /\ queue_head'[j] = queue_head[j + 1]
        BY <1>3, <1>5, <2>1
    <3> QED
        BY <3>1 DEF PassInv
  <2> QED
      BY <1>2, <1>4, <1>6, <2>1 DEF PassInv
<1> QED
    BY <1>14, <1>15, <1>16 DEF Step

\* What a request carries is with the driver.
LEMMA WithDriver ==
    ASSUME Orders, NEW r \in active
    PROVE  /\ r \in Ids /\ rq[r].bios \subseteq Ids /\ rq[r].bios # {}
           /\ r \notin Held /\ r \notin Dispatched
           /\ \A i \in rq[r].bios : status[i] = "driver"
<1>1. /\ r \in Ids /\ rq \in [Ids -> Request] /\ rq[r].bios # {} /\ r \notin Held
      /\ r \notin Dispatched /\ IInv
    BY Pending DEF Orders, IInv, TypeOK, PlacesInv
<1>2. rq[r].bios \subseteq Ids
    BY <1>1, RequestFields
<1>3. PICK d : d = "driver"
    OBVIOUS
<1>4. \A i \in rq[r].bios : Now(i, d)
    BY <1>1, <1>3 DEF Now, IsIn, Standing
<1> QED
    BY <1>1, <1>2, <1>3, <1>4, StatusNow

\* A request is completed.
LEMMA CompleteOrder ==
    ASSUME Orders, IInv', NEW r \in Ids, Complete(r)
    PROVE  Step
<1> USE DEF Orders
<1>1. /\ pc = "free" /\ r \in active /\ active' = active \ {r}
      /\ served' = served \cup rq[r].bios /\ rq' = [rq EXCEPT ![r] = NoRq]
      /\ UNCHANGED <<next, queue, queue_head, cur, failed>>
    BY DEF Complete, sched
<1>2. PICK S : S = rq[r].bios
    OBVIOUS
<1>3. /\ S \subseteq Ids /\ S # {} /\ r \notin Held /\ r \notin Dispatched
      /\ \A i \in S : status[i] = "driver"
    BY <1>1, <1>2, WithDriver
<1>4. /\ rq'[r].bios = {} /\ \A x \in Ids \ {r} : rq'[x] = rq[x]
    BY <1>1, NoRqType DEF IInv, TypeOK
<1>5. Held' = Held /\ Dispatched' = Dispatched /\ Loose' = {}
      /\ Held \subseteq Ids /\ Dispatched \subseteq Ids
    BY <1>1, NothingLoose, Pending DEF Held, Dispatched, Loose
<1>6. \A x \in Held \cup Dispatched : rq'[x] = rq[x]
    BY <1>3, <1>4, <1>5
<1>7. WhereInv'
    BY <1>5, <1>6 DEF WhereInv
<1>8. PassInv'
  <2>1. \A x \in Held' : /\ rq'[x].where = "SORT"
                         /\ \A i \in rq'[x].bios : \E y \in Held : i \in rq[y].bios
      BY <1>5, <1>6 DEF WhereInv
  <2> QED
      BY <1>1, <1>6, <2>1, PassFrame
<1>9. BQ!Become(S, "done")
  <2>1. PICK d : d = "done"
      OBVIOUS
  <2>2. \A i \in S : Now(i, d)'
      BY <1>1, <1>2, <2>1 DEF Now, IsIn
  <2>3. \A x \in Ids : \A i \in rq[x].bios \ S :
           \E q \in Ids : i \in rq'[q].bios
                          /\ Standing(rq', active', q) = Standing(rq, active, x)
    <3>1. ASSUME NEW x \in Ids, NEW i \in rq[x].bios \ S
          PROVE  i \in rq'[x].bios /\ Standing(rq', active', x) = Standing(rq, active, x)
      <4>1. x # r
          BY <1>2, <3>1
      <4> QED
          BY <1>1, <1>4, <4>1 DEF Standing
    <3> QED
        BY <3>1
  <2>4. \A i \in Ids \ S : \A t : Now(i, t) => Now(i, t)'
      BY <1>1, <2>3, Stays
  <2> QED
      BY <2>1, <2>2, <2>4, Becomes
<1>10. BQ!Finish(S)
    BY <1>3, <1>9 DEF BQ!Finish
<1>11. BQ!Next
    BY <1>3, <1>10 DEF BQ!Next, BQ!Ids, Ids
<1> QED
    BY <1>7, <1>8, <1>11 DEF Step

\* A request is handed back, to the front.
LEMMA RequeueOrder ==
    ASSUME Orders, IInv', NEW r \in Ids, Requeue(r)
    PROVE  Step
<1> USE DEF Orders
<1>1. /\ pc = "free" /\ r \in active /\ active' = active \ {r}
      /\ rq' = [rq EXCEPT ![r].flags = (@ \ {"STARTED"}) \cup {"SOFTBARRIER"}, ![r].where = "FRONT"]
      /\ queue_head' = AtHead(r)
      /\ UNCHANGED <<next, queue, cur, served, failed>>
    BY DEF Requeue, sched
<1>2. PICK S : S = rq[r].bios
    OBVIOUS
<1>3. /\ S \subseteq Ids /\ S # {} /\ r \notin Held /\ r \notin Dispatched
      /\ \A i \in S : status[i] = "driver"
    BY <1>1, <1>2, WithDriver
<1>4. PICK y : y = [rq[r] EXCEPT !.flags = (rq[r].flags \ {"STARTED"}) \cup {"SOFTBARRIER"},
                                 !.where = "FRONT"]
    OBVIOUS
<1>5. y.bios = S /\ y.where = "FRONT" /\ Barrier(y)
  <2>1. rq[r] \in Request
      BY DEF IInv, TypeOK
  <2>2. /\ y.bios = rq[r].bios /\ y.where = "FRONT"
        /\ y.flags = (rq[r].flags \ {"STARTED"}) \cup {"SOFTBARRIER"}
      BY <1>4, <2>1 DEF Request
  <2> QED
      BY <1>2, <2>2 DEF Barrier
<1>6. rq' = [rq EXCEPT ![r] = y]
  <2>1. rq \in [Ids -> Request]
      BY DEF IInv, TypeOK
  <2> QED
      BY <1>1, <1>4, <2>1
<1>7. rq'[r] = y /\ \A x \in Ids \ {r} : rq'[x] = rq[x]
    BY <1>6 DEF IInv, TypeOK
<1>8. Held' = Held /\ Loose' = {} /\ Held \subseteq Ids /\ Dispatched \subseteq Ids
    BY <1>1, NothingLoose, Pending DEF Held, Loose
<1>9. \A x \in Held \cup Dispatched : rq'[x] = rq[x]
    BY <1>3, <1>7, <1>8
<1>10. PassInv' /\ Dispatched' = Dispatched \cup {r}
    BY <1>1, <1>5, <1>7, <1>9, Fronted
<1>11. WhereInv'
    BY <1>5, <1>7, <1>8, <1>9, <1>10 DEF WhereInv
<1>12. BQ!Become(S, "FRONT")
  <2>1. PICK d : d = "FRONT"
      OBVIOUS
  <2>2. \A i \in S : Now(i, d)'
      BY <1>1, <1>5, <1>7, <2>1 DEF Now, IsIn, Standing
  <2>3. \A x \in Ids : \A i \in rq[x].bios \ S :
           \E q \in Ids : i \in rq'[q].bios
                          /\ Standing(rq', active', q) = Standing(rq, active, x)
    <3>1. ASSUME NEW x \in Ids, NEW i \in rq[x].bios \ S
          PROVE  i \in rq'[x].bios /\ Standing(rq', active', x) = Standing(rq, active, x)
      <4>1. x # r
          BY <1>2, <3>1
      <4>2. rq'[x] = rq[x]
          BY <1>7, <3>1, <4>1
      <4>3. x \in active' <=> x \in active
          BY <1>1, <4>1
      <4> QED
          BY <3>1, <4>2, <4>3 DEF Standing
    <3> QED
        BY <3>1
  <2>4. \A i \in Ids \ S : \A t : Now(i, t) => Now(i, t)'
      BY <1>1, <2>3, Stays
  <2> QED
      BY <2>1, <2>2, <2>4, Becomes
<1>13. BQ!Return(S)
    BY <1>3, <1>12 DEF BQ!Return
<1>14. BQ!Next
    BY <1>3, <1>13 DEF BQ!Next, BQ!Ids, Ids
<1> QED
    BY <1>10, <1>11, <1>14 DEF Step

\* The dispatch list fails: all that it carries was pending.
LEMMA AbortOrder ==
    ASSUME Orders, IInv', AbortQueue
    PROVE  Step
<1> USE DEF Orders
<1>1. /\ pc = "free" /\ queue_head # <<>>
      /\ failed' = failed \cup UNION {rq[r].bios : r \in Dispatched}
      /\ rq' = [r \in Ids |-> IF r \in Dispatched THEN NoRq ELSE rq[r]]
      /\ queue_head' = <<>>
      /\ UNCHANGED <<next, queue, cur, active, served>>
    BY DEF AbortQueue, sched
<1>2. /\ rq \in [Ids -> Request] /\ Held \subseteq Ids /\ Dispatched \subseteq Ids
      /\ Held \cap Dispatched = {} /\ Dispatched \cap active = {}
      /\ \A r \in Dispatched : rq[r].bios # {}
    BY Pending DEF IInv, TypeOK, PlacesInv
<1>3. \A x \in Ids \ Dispatched : rq'[x] = rq[x]
    BY <1>1
<1>4. Held' = Held /\ Loose' = {} /\ Dispatched' = {} /\ Len(queue_head') = 0
    BY <1>1, NothingLoose DEF Held, Loose, Dispatched, ToSet
<1>5. WhereInv'
    BY <1>2, <1>3, <1>4 DEF WhereInv
<1>6. PassInv'
  <2>1. \A i : i \notin 1..Len(queue_head')
      BY <1>4
  <2> QED
      BY <1>4, <2>1 DEF PassInv
<1>7. PICK S : S = UNION {rq[r].bios : r \in Dispatched}
    OBVIOUS
<1>8. S \subseteq Ids /\ S # {}
  <2>1. S \subseteq Ids
      BY <1>2, <1>7, RequestFields
  <2>2. Head(queue_head) \in Dispatched
      BY <1>1, TailMembers DEF IInv, TypeOK, PlacesInv, Dispatched
  <2> QED
      BY <1>2, <1>7, <2>1, <2>2
<1>9. \A i \in S : status[i] \in BQ!Kinds
  <2>1. ASSUME NEW i \in S PROVE status[i] \in BQ!Kinds
    <3>1. PICK r \in Dispatched : i \in rq[r].bios
        BY <1>7
    <3>2. PICK w \in {"SORT", "BACK", "FRONT"} : w = rq[r].where
        BY <1>2, <3>1, RequestFields
    <3>3. Now(i, w)
        BY <1>2, <3>1, <3>2 DEF Now, IsIn, Standing
    <3>4. status[i] = w
        BY <1>8, <3>3, StatusNow
    <3> QED
        BY <3>2, <3>4 DEF BQ!Kinds
  <2> QED
      BY <2>1
<1>10. BQ!Become(S, "failed")
  <2>1. PICK d : d = "failed"
      OBVIOUS
  <2>2. \A i \in S : Now(i, d)'
      BY <1>1, <1>7, <2>1 DEF Now, IsIn
  <2>3. \A x \in Ids : \A i \in rq[x].bios \ S :
           \E q \in Ids : i \in rq'[q].bios
                          /\ Standing(rq', active', q) = Standing(rq, active, x)
    <3>1. ASSUME NEW x \in Ids, NEW i \in rq[x].bios \ S
          PROVE  i \in rq'[x].bios /\ Standing(rq', active', x) = Standing(rq, active, x)
      <4>1. x \notin Dispatched
          BY <1>7, <3>1
      <4>2. rq'[x] = rq[x]
          BY <1>3, <3>1, <4>1
      <4>3. active' = active
          BY <1>1
      <4> QED
          BY <3>1, <4>2, <4>3 DEF Standing
    <3> QED
        BY <3>1
  <2>4. \A i \in Ids \ S : \A t : Now(i, t) => Now(i, t)'
      BY <1>1, <2>3, Stays
  <2> QED
      BY <2>1, <2>2, <2>4, Becomes
<1>11. BQ!Fail(S)
    BY <1>8, <1>9, <1>10 DEF BQ!Fail
<1>12. BQ!Next
    BY <1>8, <1>11 DEF BQ!Next, BQ!Ids, Ids
<1> QED
    BY <1>5, <1>6, <1>12 DEF Step

-----------------------------------------------------------------------------
(* The refinement *)

LEMMA InitOrders == Init => BQ!Init /\ Orders
<1> SUFFICES ASSUME Init PROVE BQ!Init /\ Orders
    OBVIOUS
<1>1. IInv
    BY InitIInv
<1>2. next = 1 /\ cur = NULL /\ queue = <<>> /\ queue_head = <<>>
    BY DEF Init
<1>3. Held = {} /\ Dispatched = {} /\ Loose = {} /\ Len(queue_head) = 0
    BY <1>2 DEF Held, Dispatched, Loose, ToSet
<1>4. WhereInv
    BY <1>3 DEF WhereInv
<1>5. PassInv
  <2>1. \A i : i \notin 1..Len(queue_head)
      BY <1>3
  <2> QED
      BY <1>3, <2>1 DEF PassInv
<1>6. \A i \in Ids : status[i] = "new"
  <2>1. ASSUME NEW i \in Ids PROVE status[i] = "new"
    <3>1. PICK s : s = "new"
        OBVIOUS
    <3>2. i >= next
        BY <1>2 DEF Ids
    <3>3. Now(i, s)
        BY <3>1, <3>2 DEF Now, IsIn
    <3> QED
        BY <1>1, <3>1, <3>3, StatusNow
  <2> QED
      BY <2>1
<1>7. BQ!Init
  <2>1. status = [i \in Ids |-> status[i]]
      BY <1>1, StatusNow
  <2> QED
      BY <1>6, <2>1 DEF BQ!Init, BQ!Ids, Ids
<1> QED
    BY <1>1, <1>4, <1>5, <1>7 DEF Orders

\* Nothing happens.
LEMMA StutterOrder ==
    ASSUME Orders, IInv', UNCHANGED vars
    PROVE  Step
<1>1. UNCHANGED <<pc, rq, next, queue, queue_head, cur, active, served, failed>>
    BY DEF vars, sched, driver
<1>2. Held' = Held /\ Dispatched' = Dispatched /\ Loose' = Loose
    BY <1>1 DEF Held, Dispatched, Loose
<1>3. WhereInv'
    BY <1>1, <1>2 DEF Orders, WhereInv, Barrier
<1>4. PassInv'
    BY <1>1, <1>2 DEF Orders, PassInv, MayLead
<1>5. UNCHANGED status
    BY <1>1, Steady DEF Orders, Standing
<1> QED
    BY <1>3, <1>4, <1>5 DEF Step

LEMMA NextOrders == Orders /\ [Next]_vars => Orders' /\ [BQ!Next]_status
<1> SUFFICES ASSUME Orders, [Next]_vars PROVE Orders' /\ [BQ!Next]_status
    OBVIOUS
<1>1. IInv'
    BY NextIInv DEF Orders
<1>2. Step
  <2>1. CASE \E b \in Bios : Submit(b)
      BY <1>1, <2>1, MergeBioOrder, RefuseMergeOrder, AddSortedOrder, AddBackOrder,
         AddFrontOrder DEF Submit
  <2>2. CASE MergeStep \/ MergeDone \/ DrainDone
      BY <1>1, <2>2, MergeStepOrder, MergeDoneOrder, DrainDoneOrder
  <2>3. CASE DrainOne \/ Fetch
      BY <1>1, <2>3, DispatchOrder DEF DrainOne, Fetch
  <2>4. CASE Peek \/ Dequeue
      BY <1>1, <2>4, PeekOrder, DequeueOrder
  <2>5. CASE \E r \in Ids : Complete(r) \/ Requeue(r)
      BY <1>1, <2>5, CompleteOrder, RequeueOrder
  <2>6. CASE AbortQueue
      BY <1>1, <2>6, AbortOrder
  <2>7. CASE Idle \/ UNCHANGED vars
      BY <1>1, <2>7, StutterOrder DEF Idle
  <2> QED
      BY <2>1, <2>2, <2>3, <2>4, <2>5, <2>6, <2>7 DEF Next, Locked
<1> QED
    BY <1>1, <1>2 DEF Step, Orders

\* The lists never are in an order in which the head of the dispatch list, given to the
\* driver, passes a barrier: not when a request is merged into one that was inserted
\* before it, sorted past the ones dispatched already, or put back at the head, and not
\* while the scheduler is being drained (elevator.c 351-388, 462-543, 595-671).
THEOREM BarriersInOrder == Spec => [](WhereInv /\ PassInv)
<1>1. Orders => WhereInv /\ PassInv
    BY DEF Orders
<1> QED
    BY <1>1, InitOrders, NextOrders, PTL DEF Spec

\* The elevator implements the abstract queue: each of its steps is one of BarrierQueue,
\* or changes nothing there.  So no submission is given to the driver past a barrier, a
\* barrier waits for what was submitted before it, and nothing is lost or ended twice,
\* for every number of requests and every mix of insertion points, merges, requeues
\* and aborts (elevator.c 351-388, 583-671).
THEOREM BarriersKept == Spec => KeepsBarriers
BY InitOrders, NextOrders, PTL DEF Spec, KeepsBarriers, BQ!Spec
=============================================================================
