------------------------------ MODULE Elevator ------------------------------
(* The block-layer elevator of hw4 (elevator.c) with one of the repository's  *)
(* I/O schedulers behind it: C-LOOK (clook-iosched.c), or the FIFO of hw1     *)
(* (project1-iosched.c), which has the same operations but for the place a    *)
(* new request takes.  Every operation runs under q->queue_lock; the loops    *)
(* that run under it are steps, and pc says which of them holds the lock.     *)
(* Submitting a bio and serving a request (blk-core.c and the driver, outside *)
(* the repository) are modelled from the calls they make into elevator.c.     *)
EXTENDS Integers, SequencesExt

CONSTANTS
    MaxRequests,    \* submissions are numbered 1..MaxRequests, in their order
    Bios,           \* what can be submitted: [pos, len, dir], in sectors
    Wheres,         \* insertion points used by the callers of __elv_add_request
    Privileged,     \* {TRUE}, or {TRUE, FALSE}: does a request have REQ_ELVPRIV
    MayOverlap,     \* may a bio touch sectors of a request that is still pending
    Scheduler,      \* "clook" or "team42_noop"
    MergeLevels,    \* settings of the queue's nomerges flags
    MaxSectors,     \* the largest request the queue accepts
    MaxRequeues,    \* how often the driver hands a request back
    MayAbort        \* is elv_abort_queue ever called

Ids == 1..MaxRequests
NULL == 0
Dirs == {"READ", "WRITE", "DISCARD"}
Flags == {"ELVPRIV", "SORTED", "STARTED", "SOFTBARRIER", "NOMERGE"}
NotHashed == -1

ASSUME ElevatorAssumption ==
    /\ MaxRequests \in Nat /\ MaxSectors \in Nat /\ MaxRequeues \in Nat
    /\ Bios \subseteq [pos: Nat, len: Nat \ {0}, dir: Dirs]
    /\ Wheres \subseteq {"SORT", "SORT_MERGE", "BACK", "FRONT"}
    /\ Privileged \subseteq BOOLEAN /\ MayOverlap \in BOOLEAN /\ MayAbort \in BOOLEAN
    /\ Scheduler \in {"clook", "team42_noop"}
    /\ MergeLevels \subseteq {"merges", "noxmerges", "nomerges"}

VARIABLES
    pc,             \* "free", or the loop that holds the lock: "merge", "drain"
    merges,         \* the queue's merge setting, fixed in a behaviour
    rq,             \* the request structures
    next,           \* the next submission
    queue,          \* the scheduler's list, nd->queue
    queue_head,     \* the dispatch list, q->queue_head
    hash,           \* the key a request is hashed under
    nr_sorted, last_merge, end_sector, boundary_rq, in_flight,
    cur,            \* the request the loop that holds the lock is about
    active,         \* requests in the hands of the driver
    served,         \* submissions completed
    failed,         \* submissions ended by elv_abort_queue
    requeues

sched == <<queue, hash, nr_sorted, last_merge>>
boundary == <<end_sector, boundary_rq>>
driver == <<in_flight, active, served, failed, requeues>>
vars == <<pc, merges, rq, next, sched, queue_head, boundary, cur, driver>>

\* A request.  bios are the submissions it carries (the chain rq->bio); where
\* is the point of its last insertion, kept for the properties only.
Request == [pos: Nat, end: Nat, dir: Dirs, fs: BOOLEAN, flags: SUBSET Flags,
            bios: SUBSET Ids, where: {"SORT", "BACK", "FRONT"}]

\* A request structure that is not in use.
NoRq == [pos |-> 0, end |-> 0, dir |-> "READ", fs |-> FALSE, flags |-> {},
         bios |-> {}, where |-> "SORT"]

Live == {r \in Ids : rq[r].bios # {}}

\* What the scheduler holds, and what is on the dispatch list.
Held == ToSet(queue)
Dispatched == ToSet(queue_head)

\* rq_mergeable; STARTED and SOFTBARRIER are among REQ_NOMERGE_FLAGS.
Mergeable(x) == x.fs /\ x.flags \cap {"NOMERGE", "STARTED", "SOFTBARRIER"} = {}

-----------------------------------------------------------------------------
(* The merge hash *)

\* Mutation of Hashed: an entry that is on the hash keeps its old key.
HashedOnce(h, r, key) == IF h[r] = NotHashed THEN [h EXCEPT ![r] = key] ELSE h

\* elv_rqhash_add and elv_rqhash_reposition.
Hashed(h, r, key) == [h EXCEPT ![r] = key]

\* elv_rqhash_del.
Unhashed(h, r) == [h EXCEPT ![r] = NotHashed]

\* The requests elv_rqhash_find can return; of several with one key it returns
\* the one first in its bucket.
HashFind(key) == {r \in Ids : hash[r] = key /\ Mergeable(rq[r])}

\* A lookup also drops the requests it meets that can no longer be merged.
Swept == {[r \in Ids |-> IF r \in S THEN NotHashed ELSE hash[r]] :
             S \in SUBSET {r \in Ids : hash[r] # NotHashed /\ ~Mergeable(rq[r])}}

-----------------------------------------------------------------------------
(* The scheduler: clook-iosched.c, project1-iosched.c *)

\* Mutation of InsertPosition: in front of the requests that end at the same
\* sector or before it.
WrongPosition(p, r) == p = 1

\* The FIFO of hw1 adds at the tail.
AtTail(p) == p = Len(queue) + 1

\* Where the new request goes: C-LOOK puts it before the first request that
\* ends past it.
InsertPosition(p, r) ==
    IF Scheduler = "clook"
    THEN /\ \A k \in 1..(p - 1) : rq'[queue[k]].end <= rq'[r].end
         /\ p <= Len(queue) => rq'[queue[p]].end > rq'[r].end
    ELSE AtTail(p)

\* elevator_add_req_fn.
AddToScheduler(r) ==
    \E p \in 1..(Len(queue) + 1) : InsertPosition(p, r) /\ queue' = InsertAt(queue, p, r)

\* elevator_merge_req_fn: list_del_init.
DropFromScheduler(r) ==
    \E i \in 1..Len(queue) : queue[i] = r /\ queue' = RemoveAt(queue, i)

\* elevator_former_req_fn and elevator_latter_req_fn, as sets of at most one.
Former(r) == {queue[i] : i \in {j \in 1..(Len(queue) - 1) : queue[j + 1] = r}}
Latter(r) == {queue[i] : i \in {j \in 2..Len(queue) : queue[j - 1] = r}}

-----------------------------------------------------------------------------
(* elv_dispatch_sort *)

\* What no request is sorted past.
Barrier(x) == x.flags \cap {"SOFTBARRIER", "STARTED"} # {}

\* Mutation of StopsSort: the sweep does not wrap at end_sector.
StopsIgnoringBoundary(r, x) ==
    \/ r.dir # x.dir
    \/ Barrier(x)
    \/ r.pos >= x.pos

\* The walk from the tail stops at x: r goes right behind it.
StopsSort(r, x) ==
    \/ r.dir # x.dir
    \/ Barrier(x)
    \/ IF r.pos >= end_sector THEN x.pos >= end_sector /\ r.pos >= x.pos
       ELSE x.pos >= end_sector \/ r.pos >= x.pos

\* Mutation of ForgetLastMerge: the one-hit cache is not reset.
KeepLastMerge(r) == UNCHANGED last_merge

ForgetLastMerge(r) == last_merge' = IF last_merge = r THEN NULL ELSE last_merge

CountDispatched == nr_sorted' = nr_sorted - 1

DispatchSort(r) ==
    /\ ForgetLastMerge(r)
    /\ hash' = Unhashed(hash, r)
    /\ CountDispatched
    /\ \E p \in 1..(Len(queue_head) + 1) :
          /\ p > 1 => StopsSort(rq[r], rq[queue_head[p - 1]])
          /\ \A k \in p..Len(queue_head) : ~StopsSort(rq[r], rq[queue_head[k]])
          /\ queue_head' = InsertAt(queue_head, p, r)

\* elevator_dispatch_fn: the scheduler's first request.
DispatchFirst ==
    /\ queue # <<>>
    /\ DispatchSort(Head(queue))
    /\ queue' = Tail(queue)

-----------------------------------------------------------------------------
(* Merging two requests *)

\* blk_attempt_req_merge accepts r and, right behind it, s.
CanMerge(R, r, s) ==
    /\ Mergeable(R[r]) /\ Mergeable(R[s])
    /\ R[r].end = R[s].pos /\ R[r].dir = R[s].dir
    /\ R[s].end - R[r].pos <= MaxSectors

\* Mutation of CountMerged: nr_sorted is decremented for every merge.
CountEveryMerge(sorted) == nr_sorted' = nr_sorted - 1

CountMerged(sorted) == nr_sorted' = IF sorted THEN nr_sorted - 1 ELSE nr_sorted

\* Mutation of Chained: the chain of the request merged away is lost.
ChainLost(R, r, s) == R[r].bios

Chained(R, r, s) == R[r].bios \cup R[s].bios

\* elv_merge_requests: r, of the requests R, takes s over, which is freed.
MergeRequests(R, H, r, s) ==
    LET sorted == "SORTED" \in R[s].flags
        G      == Hashed(H, r, R[s].end)
    IN  /\ rq' = [R EXCEPT ![r] = [R[r] EXCEPT !.end = R[s].end, !.bios = Chained(R, r, s)],
                           ![s] = NoRq]
        /\ IF sorted THEN DropFromScheduler(s) ELSE UNCHANGED queue
        /\ hash' = IF sorted THEN Unhashed(G, s) ELSE G
        /\ CountMerged(sorted)
        /\ last_merge' = r

-----------------------------------------------------------------------------
(* Merging a bio into a request: elv_merge and its caller *)

\* The next submission may be b: where overlaps are excluded, it touches no
\* sector of a request that is pending.
MaySubmit(b) ==
    /\ pc = "free" /\ next \in Ids
    /\ ~MayOverlap => \A r \in Live : b.pos + b.len <= rq[r].pos \/ rq[r].end <= b.pos

\* elv_rq_merge_ok.
MergeOk(r, b) == Mergeable(rq[r]) /\ rq[r].dir = b.dir

\* The one-hit cache: what blk_try_merge says of last_merge.
LastMergeHit(b) ==
    IF last_merge = NULL THEN {}
    ELSE {h \in {"BACK", "FRONT"} :
            /\ MergeOk(last_merge, b)
            /\ IF h = "BACK" THEN rq[last_merge].end = b.pos
                             ELSE rq[last_merge].pos = b.pos + b.len}

\* The lookup of elv_merge: through the cache, or through the hash, which may be
\* swept on the way.
FromCache(b, r, how, H) ==
    /\ merges # "nomerges"
    /\ r = last_merge /\ how \in LastMergeHit(b) /\ H = hash

FromHash(b, r, how, H) ==
    /\ merges = "merges" /\ LastMergeHit(b) = {}
    /\ r \in HashFind(b.pos) /\ MergeOk(r, b) /\ how = "BACK" /\ H \in Swept

Found(b, r, how, H) == FromCache(b, r, how, H) \/ FromHash(b, r, how, H)

\* r with the bio of the next submission at its back or at its front.
Grown(r, b, how) ==
    [rq EXCEPT ![r] = [rq[r] EXCEPT !.bios = @ \cup {next},
                                    !.end = IF how = "BACK" THEN @ + b.len ELSE @,
                                    !.pos = IF how = "FRONT" THEN @ - b.len ELSE @]]

\* Mutation of Rehash: the key of a request that grew is left as it was.
NoRehash(H, r, end) == H

\* elv_rqhash_reposition in elv_merged_request.
Rehash(H, r, end) == Hashed(H, r, end)

\* elv_merged_request, when the request met no neighbour.
MergedRequest(R, H, r, how) ==
    /\ rq' = R
    /\ hash' = IF how = "BACK" THEN Rehash(H, r, R[r].end) ELSE H
    /\ last_merge' = r
    /\ UNCHANGED <<queue, nr_sorted>>

\* The request grows, and takes in, or is taken in by, the neighbour it now
\* touches (attempt_back_merge, attempt_front_merge).
MergeBio(b) == \E r \in Live, how \in {"BACK", "FRONT"}, H \in Swept :
    LET R == Grown(r, b, how)
        neighbours == IF how = "BACK" THEN Latter(r) ELSE Former(r)
        Meets(s) == IF how = "BACK" THEN CanMerge(R, r, s) ELSE CanMerge(R, s, r)
    IN  /\ MaySubmit(b) /\ Found(b, r, how, H)
        /\ R[r].end - R[r].pos <= MaxSectors
        /\ IF \E s \in neighbours : Meets(s)
           THEN \E s \in neighbours : IF how = "BACK" THEN MergeRequests(R, H, r, s)
                                                      ELSE MergeRequests(R, H, s, r)
           ELSE MergedRequest(R, H, r, how)
        /\ next' = next + 1
        /\ UNCHANGED <<pc, merges, queue_head, boundary, cur, driver>>

\* The request would grow too large: it is never merged again.
RefuseMerge(b) == \E r \in Live, how \in {"BACK", "FRONT"}, H \in Swept :
    LET R == Grown(r, b, how)
    IN  /\ MaySubmit(b) /\ Found(b, r, how, H)
        /\ R[r].end - R[r].pos > MaxSectors
        /\ rq' = [rq EXCEPT ![r].flags = @ \cup {"NOMERGE"}]
        /\ last_merge' = IF last_merge = r THEN NULL ELSE last_merge
        /\ hash' = H
        /\ UNCHANGED <<pc, merges, next, queue, queue_head, nr_sorted, boundary, cur, driver>>

-----------------------------------------------------------------------------
(* __elv_add_request *)

\* ELEVATOR_INSERT_SORT of r, of the requests R.
InsertSort(R, H, r) ==
    /\ rq' = [R EXCEPT ![r].flags = @ \cup {"SORTED"}]
    /\ nr_sorted' = nr_sorted + 1
    /\ hash' = IF Mergeable(R[r]) THEN Hashed(H, r, R[r].end) ELSE H
    /\ last_merge' = IF Mergeable(R[r]) /\ last_merge = NULL THEN r ELSE last_merge
    /\ AddToScheduler(r)

\* A new request r: an ordinary one, or one without sectors (a driver's command).
NewRequest(r, b, fs, elvpriv, where) ==
    [rq EXCEPT ![r] = [pos |-> IF fs THEN b.pos ELSE 0,
                       end |-> IF fs THEN b.pos + b.len ELSE 0,
                       dir |-> b.dir, fs |-> fs, bios |-> {r}, where |-> where,
                       flags |-> IF elvpriv THEN {"ELVPRIV"} ELSE {}]]

\* ELEVATOR_INSERT_SORT, and what ELEVATOR_INSERT_SORT_MERGE does without a
\* lookup in the hash: one try with the one-hit cache.
AddSorted(b) == \E where \in Wheres \cap {"SORT", "SORT_MERGE"} :
    LET r   == next
        R   == NewRequest(r, b, TRUE, TRUE, "SORT")
        hit == where = "SORT_MERGE" /\ merges # "nomerges"
               /\ last_merge # NULL /\ CanMerge(R, last_merge, r)
    IN  /\ MaySubmit(b) /\ TRUE \in Privileged
        /\ \/ /\ hit
              /\ MergeRequests(R, hash, last_merge, r)
              /\ UNCHANGED <<pc, cur>>
           \/ /\ ~hit /\ (where = "SORT" \/ merges # "merges")
              /\ InsertSort(R, hash, r)
              /\ UNCHANGED <<pc, cur>>
           \/ /\ ~hit /\ where = "SORT_MERGE" /\ merges = "merges"
              /\ pc' = "merge" /\ cur' = r /\ rq' = R
              /\ UNCHANGED sched
        /\ next' = next + 1
        /\ UNCHANGED <<merges, queue_head, boundary, driver>>

\* The loop of elv_attempt_insert_merge: cur is appended to the request that ends
\* where it begins, and what it became may be appended in turn.
MergeStep == pc = "merge" /\ \E s \in HashFind(rq[cur].pos), H \in Swept :
    /\ CanMerge(rq, s, cur)
    /\ MergeRequests(rq, H, s, cur)
    /\ cur' = s
    /\ UNCHANGED <<pc, merges, next, queue_head, boundary, driver>>

\* The loop ends; a request that met nobody is inserted.
MergeDone == \E H \in Swept :
    /\ pc = "merge"
    /\ HashFind(rq[cur].pos) # {} => \E s \in HashFind(rq[cur].pos) : ~CanMerge(rq, s, cur)
    /\ IF "SORTED" \in rq[cur].flags
       THEN hash' = H /\ UNCHANGED <<rq, queue, nr_sorted, last_merge>>
       ELSE InsertSort(rq, H, cur)
    /\ pc' = "free" /\ cur' = NULL
    /\ UNCHANGED <<merges, next, queue_head, boundary, driver>>

\* Mutation of AddBack: the scheduler is not drained.
AddBackOnly(b) == \E fs \in BOOLEAN :
    /\ MaySubmit(b) /\ "BACK" \in Wheres
    /\ rq' = [NewRequest(next, b, fs, TRUE, "BACK") EXCEPT ![next].flags = @ \cup {"SOFTBARRIER"}]
    /\ queue_head' = Append(queue_head, next)
    /\ next' = next + 1
    /\ UNCHANGED <<pc, cur, merges, sched, boundary, driver>>

\* ELEVATOR_INSERT_BACK, which is also where a request without REQ_ELVPRIV goes:
\* a barrier, behind everything the scheduler holds.
AddBack(b) == \E fs \in BOOLEAN, elvpriv \in Privileged :
    /\ MaySubmit(b)
    /\ "BACK" \in Wheres \/ (fs /\ ~elvpriv /\ Wheres \cap {"SORT", "SORT_MERGE"} # {})
    /\ rq' = [NewRequest(next, b, fs, elvpriv, "BACK")
                 EXCEPT ![next].flags = @ \cup {"SOFTBARRIER"}]
    /\ pc' = "drain" /\ cur' = next
    /\ next' = next + 1
    /\ UNCHANGED <<merges, sched, queue_head, boundary, driver>>

\* elv_drain_elevator, one forced dispatch.
DrainOne ==
    /\ pc = "drain"
    /\ DispatchFirst
    /\ UNCHANGED <<pc, merges, rq, next, boundary, cur, driver>>

DrainDone ==
    /\ pc = "drain" /\ queue = <<>>
    /\ queue_head' = Append(queue_head, cur)
    /\ pc' = "free" /\ cur' = NULL
    /\ UNCHANGED <<merges, rq, next, sched, boundary, driver>>

AtHead(r) == Cons(r, queue_head)

\* ELEVATOR_INSERT_FRONT, used for the commands of drivers.
AddFront(b) ==
    /\ MaySubmit(b) /\ "FRONT" \in Wheres
    /\ rq' = [NewRequest(next, b, FALSE, TRUE, "FRONT")
                 EXCEPT ![next].flags = @ \cup {"SOFTBARRIER"}]
    /\ queue_head' = AtHead(next)
    /\ next' = next + 1
    /\ UNCHANGED <<pc, merges, sched, boundary, cur, driver>>

-----------------------------------------------------------------------------
(* The driver's side: blk_peek_request and what follows it *)

\* The dispatch list is empty: the scheduler is asked for a request.
Fetch ==
    /\ pc = "free" /\ queue_head = <<>>
    /\ DispatchFirst
    /\ UNCHANGED <<pc, merges, rq, next, boundary, cur, driver>>

\* Mutation of PassBoundary: the boundary stays pending.
KeepBoundary(r) ==
    /\ end_sector' = IF boundary_rq \in {NULL, r} THEN rq[r].end ELSE end_sector
    /\ UNCHANGED boundary_rq

PassBoundary(r) ==
    IF boundary_rq \in {NULL, r} THEN end_sector' = rq[r].end /\ boundary_rq' = NULL
    ELSE UNCHANGED boundary

\* blk_peek_request: the driver is shown the request at the head.
Peek ==
    /\ pc = "free" /\ queue_head # <<>>
    /\ rq' = [rq EXCEPT ![Head(queue_head)].flags = @ \cup {"STARTED"}]
    /\ PassBoundary(Head(queue_head))
    /\ UNCHANGED <<pc, merges, next, sched, queue_head, cur, driver>>

\* blk_dequeue_request: the driver takes it.
Dequeue ==
    /\ pc = "free" /\ queue_head # <<>>
    /\ LET r == Head(queue_head)
       IN  /\ "STARTED" \in rq[r].flags
           /\ active' = active \cup {r}
           /\ in_flight' = IF rq[r].fs THEN in_flight + 1 ELSE in_flight
    /\ queue_head' = Tail(queue_head)
    /\ UNCHANGED <<pc, merges, rq, next, sched, boundary, cur, served, failed, requeues>>

\* Mutation of LeavesFlight: not counted back.
StaysInFlight(r) == in_flight

\* blk_account_rq: in_flight counts the started requests that have sectors.
LeavesFlight(r) ==
    IF rq[r].fs /\ "STARTED" \in rq[r].flags THEN in_flight - 1 ELSE in_flight

\* elv_completed_request, and the request is freed.
Complete(r) ==
    /\ pc = "free" /\ r \in active
    /\ in_flight' = LeavesFlight(r)
    /\ active' = active \ {r}
    /\ served' = served \cup rq[r].bios
    /\ rq' = [rq EXCEPT ![r] = NoRq]
    /\ UNCHANGED <<pc, merges, next, sched, queue_head, boundary, cur, failed, requeues>>

\* elv_requeue_request: back at the head, as a barrier; a request that was one
\* before becomes the boundary.
Requeue(r) ==
    /\ pc = "free" /\ r \in active /\ requeues < MaxRequeues
    /\ in_flight' = LeavesFlight(r)
    /\ active' = active \ {r}
    /\ IF rq[r].fs /\ "SOFTBARRIER" \in rq[r].flags
       THEN end_sector' = rq[r].end /\ boundary_rq' = r
       ELSE UNCHANGED boundary
    /\ rq' = [rq EXCEPT ![r].flags = (@ \ {"STARTED"}) \cup {"SOFTBARRIER"}, ![r].where = "FRONT"]
    /\ queue_head' = AtHead(r)
    /\ requeues' = requeues + 1
    /\ UNCHANGED <<pc, merges, next, sched, cur, served, failed>>

\* elv_abort_queue: what is on the dispatch list fails, what the scheduler holds
\* stays.  boundary_rq is left alone.
AbortQueue ==
    /\ MayAbort /\ pc = "free" /\ queue_head # <<>>
    /\ failed' = failed \cup UNION {rq[r].bios : r \in Dispatched}
    /\ rq' = [r \in Ids |-> IF r \in Dispatched THEN NoRq ELSE rq[r]]
    /\ queue_head' = <<>>
    /\ UNCHANGED <<pc, merges, next, sched, boundary, cur, in_flight, active, served, requeues>>

-----------------------------------------------------------------------------
Init ==
    /\ pc = "free" /\ merges \in MergeLevels
    /\ rq = [r \in Ids |-> NoRq] /\ next = 1
    /\ queue = <<>> /\ queue_head = <<>>
    /\ hash = [r \in Ids |-> NotHashed]
    /\ nr_sorted = 0 /\ last_merge = NULL /\ end_sector = 0 /\ boundary_rq = NULL
    /\ cur = NULL
    /\ in_flight = 0 /\ active = {} /\ served = {} /\ failed = {} /\ requeues = 0

\* Everything has been submitted and ended.
Idle ==
    /\ next > MaxRequests /\ Live = {}
    /\ UNCHANGED vars

Submit(b) == MergeBio(b) \/ RefuseMerge(b) \/ AddSorted(b) \/ AddBack(b) \/ AddFront(b)
Locked == MergeStep \/ MergeDone \/ DrainOne \/ DrainDone

Next ==
    \/ \E b \in Bios : Submit(b)
    \/ Locked
    \/ Fetch \/ Peek \/ Dequeue
    \/ \E r \in Ids : Complete(r) \/ Requeue(r)
    \/ AbortQueue
    \/ Idle

Spec == Init /\ [][Next]_vars

\* A loop under the lock goes on; the driver is run again as long as there is
\* work, and ends the requests it has.
FairSpec ==
    /\ Spec
    /\ WF_vars(Locked) /\ WF_vars(Fetch) /\ WF_vars(Peek) /\ WF_vars(Dequeue)
    /\ \A r \in Ids : WF_vars(Complete(r))

-----------------------------------------------------------------------------
TypeOK ==
    /\ pc \in {"free", "merge", "drain"} /\ merges \in MergeLevels
    /\ rq \in [Ids -> Request] /\ next \in 1..(MaxRequests + 1)
    /\ queue \in Seq(Ids) /\ queue_head \in Seq(Ids)
    /\ hash \in [Ids -> Nat \cup {NotHashed}]
    /\ nr_sorted \in Nat /\ in_flight \in Nat
    /\ {last_merge, boundary_rq, cur} \subseteq Ids \cup {NULL}
    /\ end_sector \in Nat
    /\ active \subseteq Ids /\ served \subseteq Ids /\ failed \subseteq Ids
    /\ requeues \in 0..MaxRequeues

\* How often the structure r is linked anywhere: in a list, in the driver's
\* hands, or held by the loop that is inserting it.
Links(r) ==
    Cardinality({i \in 1..Len(queue) : queue[i] = r})
    + Cardinality({i \in 1..Len(queue_head) : queue_head[i] = r})
    + (IF r \in active THEN 1 ELSE 0)
    + (IF r = cur /\ "SORTED" \notin rq[r].flags THEN 1 ELSE 0)

\* Every submission is carried by exactly one request or has ended exactly one
\* way, and a request is linked in exactly one place as long as it carries
\* something, whatever merging, draining, requeueing and aborting did
\* (elevator.c 462-543, 568-657; the lists of clook-iosched.c).
KeptOnce ==
    /\ \A i \in 1..(next - 1) :
          Cardinality({r \in Ids : i \in rq[r].bios})
          + (IF i \in served THEN 1 ELSE 0) + (IF i \in failed THEN 1 ELSE 0) = 1
    /\ \A r \in Ids : Links(r) = IF r \in Live THEN 1 ELSE 0

\* nr_sorted counts what the scheduler holds, so that elv_drain_elevator never
\* finds forced dispatching broken (elevator.c 578-591).
NrSortedExact == nr_sorted = Len(queue)

\* The hash finds what can be merged: a request on it is held by the scheduler and
\* hashed under the sector it ends at now, and one the scheduler holds is on it as
\* long as it can be merged (elevator.c 245-295, 382, 508, 522-528).
HashMatches == \A r \in Ids :
    /\ hash[r] # NotHashed => r \in Held /\ hash[r] = rq[r].end
    /\ r \in Held /\ Mergeable(rq[r]) => hash[r] # NotHashed

\* The one-hit cache never names a request that was dispatched, merged away or
\* freed: elv_merge and the scheduler's former and latter follow it without
\* a check (elevator.c 382, 425, 478; clook-iosched.c 60-79).
LastMergeHeld == last_merge # NULL => last_merge \in Held

\* All that is recorded of a request agrees: the lists, the count of sorted
\* requests, the hash and the one-hit cache, also after an abort that ends the
\* dispatch list only, and for requests without elevator data.
BooksAgree == KeptOnce /\ NrSortedExact /\ HashMatches /\ LastMergeHeld

\* A pending boundary request is on the dispatch list and will be seen by the
\* driver, so that end_sector is not frozen for ever; it is the sector the boundary
\* ends at (elevator.c 602-607, the reset in blk_peek_request).
BoundaryPending ==
    boundary_rq # NULL =>
        /\ boundary_rq \in Dispatched
        /\ end_sector = rq[boundary_rq].end

\* in_flight counts the requests with sectors the driver has, requeued ones not
\* (elevator.c 557-561, 755-765).
InFlightExact == in_flight = Cardinality({r \in active : rq[r].fs})

\* The C-LOOK list stays sorted while merges move the ends of its requests: former
\* and latter are the neighbours on the disk (clook-iosched.c 42-79).
QueueSorted ==
    \A i, j \in 1..Len(queue) : i < j => rq[queue[i]].end <= rq[queue[j]].end

\* x may stand right before y in a sweep that begins at end_sector.
InSweep(x, y) ==
    IF x.pos >= end_sector THEN y.pos >= x.pos \/ y.pos < end_sector
    ELSE y.pos < end_sector /\ y.pos >= x.pos

\* The dispatch list holds no barrier from position i on.
NoBarrierFrom(i) == \A k \in i..Len(queue_head) : ~Barrier(rq[queue_head[k]])

\* Behind the last barrier, each run of requests of one direction is one sweep that
\* begins at end_sector and wraps once.
LastGroupSweeps ==
    \A i \in 2..Len(queue_head) :
       LET x == rq[queue_head[i - 1]]
           y == rq[queue_head[i]]
       IN  NoBarrierFrom(i - 1) /\ x.dir = y.dir => InSweep(x, y)

\* When the scheduler has been drained, what it held is on the dispatch list in
\* sweeps, whatever was there before (elevator.c 363-385, 583).
DrainSweeps == [][pc = "drain" /\ pc' = "free" => LastGroupSweeps]_vars

\* Every submission ends, whatever it was merged with and however often it was
\* requeued.
EverySubmissionEnds == \A i \in Ids : next > i ~> i \in served \cup failed

-----------------------------------------------------------------------------
(* The inductive invariant the proofs rest on *)

\* The requests R carry each of the submissions before n once, but for those that
\* ended, in S or in F.
BiosOnce(R, n, S, F) ==
    /\ S \cap F = {}
    /\ \A i \in S \cup F : i < n
    /\ \A r \in Ids : R[r].bios # {} => r < n
    /\ \A r \in Ids : \A i \in R[r].bios :
          i < n /\ i \notin S \cup F /\ \A s \in Ids \ {r} : i \notin R[s].bios
    /\ \A i \in 1..(n - 1) : i \in S \cup F \/ \E r \in Ids : i \in R[r].bios

\* A pending request has sectors, and shares none where overlaps are excluded.
Extent(x) == x.bios # {} /\ x.fs

SectorsOnce(R) ==
    /\ \A r \in Ids : Extent(R[r]) => R[r].pos < R[r].end
    /\ ~MayOverlap =>
          \A r, s \in Ids : r # s /\ Extent(R[r]) /\ Extent(R[s])
                             => R[r].end <= R[s].pos \/ R[s].end <= R[r].pos

\* The request that is being inserted, as long as nothing holds it.
Loose == {r \in {cur} \ {NULL} : "SORTED" \notin rq[r].flags}

\* Every pending request is in one place, once, and what its flags say of it is so.
PlacesInv ==
    /\ IsInjective(queue) /\ IsInjective(queue_head)
    /\ Held \cap Dispatched = {} /\ (Held \cup Dispatched) \cap active = {}
    /\ Loose \cap (Held \cup Dispatched \cup active) = {}
    /\ Live = Held \cup Dispatched \cup active \cup Loose
    /\ \A r \in Held : "SORTED" \in rq[r].flags /\ rq[r].fs
    /\ \A r \in active : "STARTED" \in rq[r].flags

\* What a loop is about is there.
LockInv ==
    /\ cur = NULL <=> pc = "free"
    /\ pc = "drain" => cur \in Loose /\ Barrier(rq[cur])
    /\ pc = "merge" => cur \in Loose \cup Held /\ rq[cur].fs

OrderInv == Scheduler = "clook" /\ ~MayOverlap => QueueSorted

BoundaryInv ==
    ~MayAbort /\ boundary_rq # NULL =>
        /\ boundary_rq \in Dispatched /\ "STARTED" \notin rq[boundary_rq].flags
        /\ end_sector = rq[boundary_rq].end

\* Only while it drains is there more than one request behind the last barrier.
SweepInv ==
    /\ LastGroupSweeps
    /\ pc # "drain" => \A i \in 1..(Len(queue_head) - 1) : ~NoBarrierFrom(i)

IInv ==
    /\ TypeOK /\ BiosOnce(rq, next, served, failed) /\ SectorsOnce(rq)
    /\ PlacesInv /\ LockInv /\ NrSortedExact /\ HashMatches /\ LastMergeHeld
    /\ OrderInv /\ InFlightExact /\ BoundaryInv /\ SweepInv

-----------------------------------------------------------------------------
(* What the elevator promises: see BarrierQueue *)

\* The state of a submission: not made, pending where it was inserted, with the
\* driver, or ended.
status == [i \in Ids |->
    IF i >= next THEN "new"
    ELSE IF i \in served THEN "done"
    ELSE IF i \in failed THEN "failed"
    ELSE LET r == CHOOSE s \in Ids : i \in rq[s].bios
         IN  IF r \in active THEN "driver" ELSE rq[r].where]

\* Whatever is merged, sorted, drained or requeued, no request is given to the
\* driver past a barrier (elevator.c 351-388, 583-671).
BQ == INSTANCE BarrierQueue WITH MaxRequests <- MaxRequests, status <- status
KeepsBarriers == BQ!Spec

\* The proof that it does needs to know where a request on a list was inserted, and
\* that a list is in an order in which no barrier is passed: x may be taken while y
\* is pending.
MayLead(x, y) ==
    \/ x.where = "FRONT"
    \/ /\ y.where # "FRONT"
       /\ "BACK" \in {x.where, y.where} => \A i \in x.bios, j \in y.bios : i < j

WhereInv ==
    /\ \A r \in Held : rq[r].where = "SORT"
    /\ \A r \in Dispatched : rq[r].where # "SORT" => Barrier(rq[r])
    /\ \A r \in Loose : /\ rq[r].bios = {r} /\ next = r + 1
                        /\ rq[r].where = IF pc = "drain" THEN "BACK" ELSE "SORT"

PassInv ==
    /\ \A i, j \in 1..Len(queue_head) :
          i < j => MayLead(rq[queue_head[i]], rq[queue_head[j]])
    /\ \A r \in Dispatched, s \in Held : MayLead(rq[r], rq[s])
=============================================================================
