---------------------------- MODULE SchedQuanta ----------------------------
(* SchedVM with a history: in which jiffy each process last ran while another *)
(* process was in the run queue with it.  A quantum is a jiffy.               *)
EXTENDS MCSchedVM

VARIABLE lastShared     \* the jiffy of the process's last shared run, -2 if none

\* The process in the CPU runs for a tick with another process in the ring.
RunsShared == KeepRunning /\ current \in Procs /\ nr_running > 2

QInit == Init /\ lastShared = [t \in Procs |-> -2]

QNext ==
    \/ RunsShared /\ lastShared' = [lastShared EXCEPT ![current] = jiffies]
    \/ Next /\ ~RunsShared /\ UNCHANGED lastShared

QSpec == QInit /\ [][QNext]_<<vars, lastShared>>

\* A process does not run in two consecutive quanta unless it is alone in the
\* run queue (hw2/README.txt:29-30).
NoTwoQuantaInARow == [][RunsShared => jiffies # lastShared[current] + 1]_<<vars, lastShared>>
=============================================================================
