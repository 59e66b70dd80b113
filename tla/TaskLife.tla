------------------------------ MODULE TaskLife ------------------------------
(* What the scheduler machine promises of its tasks, with no queues, timers,  *)
(* flags or accounting: a task is born under a task that lives, shares one    *)
(* CPU, waits and is woken, and goes once, after its children.                *)
CONSTANTS Procs, Root, Nobody

VARIABLES
    parent,     \* of every process
    status,     \* "unborn", "ready", "waiting" or "gone"
    running     \* the task in the CPU, or Nobody

vars == <<parent, status, running>>
Tasks == Procs \cup {Root}
Ready(t) == t \in Tasks /\ status[t] = "ready"
Become(t, s) == status' = [status EXCEPT ![t] = s]

Init ==
    /\ parent \in [Procs -> Tasks]
    /\ status = [t \in Tasks |-> IF t = Root THEN "ready" ELSE "unborn"]
    /\ running = Root

Fork(t) ==
    /\ status[t] = "unborn" /\ status[parent[t]] \in {"ready", "waiting"}
    /\ Become(t, "ready")
    /\ UNCHANGED running

\* Only the task in the CPU goes to wait or ends; it keeps the name of the running
\* task until another takes the CPU, also when it is woken before.
Wait ==
    /\ Ready(running) /\ running # Root
    /\ Become(running, "waiting")
    /\ UNCHANGED running

Wake(t) ==
    /\ status[t] = "waiting"
    /\ Become(t, "ready")
    /\ UNCHANGED running

\* A task that goes leaves no child that was born and lives on.
End ==
    /\ Ready(running)
    /\ \A t \in Procs : parent[t] = running => status[t] \in {"unborn", "gone"}
    /\ Become(running, "gone")
    /\ running' = Nobody

\* The CPU is given to a ready task, to Root only when no process is ready.
Dispatch(t) ==
    /\ Ready(t) /\ t # running
    /\ t = Root => \A p \in Procs : ~Ready(p)
    /\ running' = t
    /\ UNCHANGED status

Next ==
    /\ \/ \E t \in Procs : Fork(t) \/ Wake(t)
       \/ \E t \in Tasks : Dispatch(t)
       \/ Wait \/ End
    /\ UNCHANGED parent

Spec == Init /\ [][Next]_vars
=============================================================================
