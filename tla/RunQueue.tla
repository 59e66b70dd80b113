------------------------------ MODULE RunQueue ------------------------------
(* The run queue of schedule.c as the pointers that make it: SchedVM, whose    *)
(* rq is a sequence, with task_struct's next and prev beside it.  Each step of *)
(* SchedVM that queues or unqueues a task does to the pointers what            *)
(* wake_up_new_task, activate_task and deactivate_task do.                     *)
EXTENDS SchedVM

CONSTANT Null       \* the null pointer

ASSUME NullAssumption == Null \notin Tasks \cup {IdleTask}

VARIABLES next, prev

ringVars == <<next, prev, vars>>

\* initschedule: the seed task alone is a ring; createTask clears the others.
RingInit ==
    /\ next = [t \in Tasks \cup {IdleTask} |-> IF t = InitTask THEN InitTask ELSE Null]
    /\ prev = next

\* Mutation of LinkAfterHead: the old second task keeps its prev.
LinkForward(t) ==
    /\ next' = [next EXCEPT ![t] = next[InitTask], ![InitTask] = t]
    /\ prev' = [prev EXCEPT ![t] = InitTask]

\* The four stores that put t after rq->head; in a ring of one the head is also
\* the task after it.
LinkAfterHead(t) ==
    /\ next' = [next EXCEPT ![t] = next[InitTask], ![InitTask] = t]
    /\ prev' = [prev EXCEPT ![t] = InitTask, ![next[InitTask]] = t]

\* deactivate_task, for the head too: rq->head is not moved.
UnlinkPointers(t) ==
    /\ next' = [next EXCEPT ![prev[t]] = next[t], ![t] = Null]
    /\ prev' = [prev EXCEPT ![next[t]] = prev[t], ![t] = Null]

Queued(t) == ~InRing(t) /\ InRing(t)'
Unqueued(t) == InRing(t) /\ ~InRing(t)'

Pointers ==
    \/ \E t \in Tasks : Queued(t) /\ LinkAfterHead(t)
    \/ \E t \in Tasks : Unqueued(t) /\ UnlinkPointers(t)
    \/ rq' = rq /\ UNCHANGED <<next, prev>>

RingSpec == Init /\ RingInit /\ [][Next /\ Pointers]_ringVars

-----------------------------------------------------------------------------
\* The pointers make the ring SchedVM describes, both ways and starting at
\* rq->head, after any order of forks, sleeps, wake-ups and exits; and a task is
\* out of the ring exactly when its next is NULL, which is how interrupt() asks
\* whether a task that was put to sleep is to be scheduled (cpu.c:318).
PointersAreTheRing ==
    /\ \A i \in 1..Len(rq) : LET after == rq[(i % Len(rq)) + 1] IN
          next[rq[i]] = after /\ prev[after] = rq[i]
    /\ \A t \in Tasks \cup {IdleTask} :
          InRing(t) <=> (next[t] # Null /\ prev[t] # Null)
=============================================================================
