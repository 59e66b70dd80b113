------------------------------ MODULE SchedVM ------------------------------
(* The scheduler virtual machine of hw2/Scheduler_VM: the simulated CPU of   *)
(* cpu.c with the SJF-by-goodness scheduler of schedule.c and sjf_lib.c.     *)
(* One pass of runcpu()'s loop is a chain of steps ordered by pc:            *)
(*                                                                           *)
(*   cycle -> spawn* -> tick -> io -> wake* -> check -> end -> cycle | done  *)
(*                                                                           *)
(* (a task that exits goes from "cycle" straight to "tick").  The circular   *)
(* run queue is the sequence rq, read from its head, which is always Init.   *)
EXTENDS Integers, SequencesExt

CONSTANTS
    Procs,          \* the processes a profile describes
    InitTask,       \* the task init points to, head of the run queue
    IdleTask,       \* the task that stands in for one that exited
    Profiles,       \* the profiles considered: Procs -> Info, times in ticks
    EndTime,        \* endtime, in clock ticks
    TicksPerJiffy,  \* MS_TO_TICKS(HZ_TO_MS): clock ticks between timer ticks
    NsPerJiffy,     \* JIFFIES_TO_NS(1)
    IOTimes,        \* values the random time to the next IO event can take
    WaitTimes,      \* values the random time to an interactive wait can take
    MaxTick,        \* clocktick saturates here: past every time it is compared to
    MaxWait,        \* NoStarvation: the longest wait for the CPU, in jiffies
    MaxJiffies      \* jiffies saturates here: never reached (ShutsDownInTime)

INTERACTIVE == "INTERACTIVE"
NONINTERACTIVE == "NONINTERACTIVE"

Info == [thread_type: {INTERACTIVE, NONINTERACTIVE},
         parent: Procs \cup {InitTask},
         spawn_time: Nat,
         kill_time: Nat \cup {-1},
         work_duration: Nat \cup {-1}]

\* Two pseudo-tasks besides the processes; every timer reload is positive.
ASSUME TaskAssumption ==
    /\ IsFiniteSet(Procs)
    /\ InitTask \notin Procs /\ IdleTask \notin Procs /\ InitTask # IdleTask
ASSUME TimeAssumption ==
    /\ TicksPerJiffy \in Nat \ {0} /\ NsPerJiffy \in Nat \ {0}
    /\ IOTimes \subseteq Nat \ {0} /\ IOTimes # {}
    /\ WaitTimes \subseteq Nat \ {0} /\ WaitTimes # {}
    /\ EndTime \in Nat /\ MaxTick \in Nat /\ MaxWait \in Nat /\ MaxJiffies \in Nat \ {0}
\* readProfile nests a process in the SPAWN block of one it has already read,
\* so the parents form a tree under Init: no set of processes is its own parentage.
ASSUME ProfileAssumption ==
    /\ Profiles \subseteq [Procs -> Info]
    /\ \A pr \in Profiles : \A S \in SUBSET Procs :
          S # {} => \E t \in S : pr[t].parent \notin S
ASSUME MaxTickAssumption ==
    /\ EndTime <= MaxTick
    /\ \A pr \in Profiles : \A t \in Procs :
          pr[t].spawn_time <= MaxTick /\ pr[t].kill_time <= MaxTick

VARIABLES
    pc,               \* the step of runcpu's loop to be taken next
    profile,          \* what readProfile built: constant during a behaviour
    clocktick, jiffies,
    timer,            \* ticks to the next schedule tick
    intTimer,         \* ticks to the IO event, negative when not armed
    intWaitTimer,     \* ticks until the interactive task in the CPU waits
    rq, nr_running,   \* the ring from its head, and the count the code keeps
    intwaitlist,      \* tasks waiting for the IO event, oldest first
    current,
    need_reschedule,  \* the tasks whose need_reschedule flag is set
    alive,            \* Init and the processes whose task_struct is allocated
    unspawned,        \* processes still in their parent's list of children
    kill,             \* the live tasks whose kill flag is set
    children,         \* thread_info.children of every task
    work,             \* thread_info.work_duration of every process
    acct              \* exp_burst, waiting_in_rq, process_start_time

clocks == <<clocktick, jiffies, timer, intTimer, intWaitTimer>>
queue == <<rq, nr_running, intwaitlist>>
tree == <<alive, unspawned, kill, children, work>>
vars == <<pc, profile, clocks, queue, current, need_reschedule, tree, acct>>

Tasks == Procs \cup {InitTask}
InRing(t) == t \in ToSet(rq)
IsInteractive(t) == t \in Procs /\ profile[t].thread_type = INTERACTIVE
NoAcct == [exp_burst |-> 0, waiting_in_rq |-> 0, process_start_time |-> 0]

-----------------------------------------------------------------------------
(* schedule.c and sjf_lib.c *)

sched_clock(j) == j * NsPerJiffy

\* Mutation of CalcWaiting: the stamp already there is kept.
KeepWaiting(a, j) == a.waiting_in_rq

\* calc_waiting_time_in_rq: the later of now and the stamp already there.
CalcWaiting(a, j) ==
    IF sched_clock(j) > a.waiting_in_rq THEN sched_clock(j) ELSE a.waiting_in_rq

\* calc_exp_burst, (burst + exp / 2) / (3 / 2), in whole nanoseconds.
CalcExpBurst(a, j) ==
    (2 * (sched_clock(j) - a.process_start_time) + a.exp_burst) \div 3

\* The accounting schedule() does for the process that is giving up the CPU.
Accounted(j) ==
    IF current \in Procs
    THEN [acct EXCEPT ![current].waiting_in_rq = CalcWaiting(acct[current], j),
                      ![current].exp_burst = CalcExpBurst(acct[current], j)]
    ELSE acct

\* Mutation of Better: the expected burst alone, without the waiting time.
BetterNoAging(a, s, t, j) == a[s].exp_burst < a[t].exp_burst

\* goodness(s) < goodness(t): (1 + exp) / (1 + age) without the division and
\* without the factors calc_goodness gives every process of the ring.
Better(a, s, t, j) ==
    (1 + a[s].exp_burst) * (1 + sched_clock(j) - a[t].waiting_in_rq)
        < (1 + a[t].exp_burst) * (1 + sched_clock(j) - a[s].waiting_in_rq)

\* Sjf_algo stops at position i of the ring: the first of least goodness.
IsSjfChoice(i, a, j) ==
    \A k \in 2..Len(rq) : /\ ~Better(a, rq[k], rq[i], j)
                          /\ k < i => Better(a, rq[i], rq[k], j)

\* Mutation of ResetFlag: the flag stays as it was.
KeepFlag == UNCHANGED need_reschedule

\* schedule() resets the flag on entry, in case the running task asked for it.
ResetFlag == need_reschedule' = need_reschedule \ {current}

\* Mutation of RequestReschedule: nothing asks for the CPU to be given away.
RequestNothing == UNCHANGED need_reschedule

\* need_reschedule = 1 of the task in the CPU: after a fork, a sleep, an IO event.
RequestReschedule == need_reschedule' = need_reschedule \cup {current}

ContextSwitch(next) ==
    /\ current' = next
    /\ intWaitTimer' \in IF IsInteractive(next) THEN WaitTimes ELSE {intWaitTimer}

\* schedule() at jiffy j.  When it picks the running task again it restores the
\* old accounting and does not switch.
Schedule(j) ==
    /\ ResetFlag
    /\ \/ nr_running = 1 /\ ContextSwitch(rq[1]) /\ UNCHANGED acct
       \/ /\ nr_running # 1
          /\ \E i \in 2..Len(rq) :
                /\ IsSjfChoice(i, Accounted(j), j)
                /\ IF rq[i] = current
                   THEN UNCHANGED <<current, intWaitTimer, acct>>
                   ELSE /\ ContextSwitch(rq[i])
                        /\ acct' = [Accounted(j) EXCEPT
                               ![rq[i]].process_start_time = sched_clock(j)]

\* Mutation of CountQueued: nr_running is left alone.
CountNobody == UNCHANGED nr_running

CountQueued == nr_running' = nr_running + 1

\* The ring insertion wake_up_new_task and activate_task share.
Enqueue(t) ==
    /\ rq' = InsertAt(rq, 2, t)
    /\ CountQueued

\* deactivate_task's unlinking.
Unlink(t) ==
    /\ \E i \in 1..Len(rq) : rq[i] = t /\ rq' = RemoveAt(rq, i)
    /\ nr_running' = nr_running - 1

-----------------------------------------------------------------------------
(* cycle(): the task in the CPU ends, or runs for one clock tick *)

\* Mutation of WorkLeft: counts down without looking for the -1 of "no limit".
WorkLeftUnguarded == work[current] - 1

\* What is left of the task's work after this tick; -1 is no limit.
WorkLeft == IF work[current] > 0 THEN work[current] - 1 ELSE work[current]

\* The test of taskEnd, called before the work is counted and again when none is left.
Ending ==
    \/ current \in kill
    \/ /\ current \in Procs
       /\ \/ profile[current].parent \in kill
          \/ /\ profile[current].kill_time >= 0
             /\ clocktick >= profile[current].kill_time
          \/ WorkLeft = 0

\* Mutation of MayBeFreed: a task ends without waiting for its children.
MayAlwaysBeFreed == TRUE

\* A task is freed only when none of its children is left.
MayBeFreed == children[current] = 0

\* Mutation of CountChildGone: the parent's count is not decremented.
CountChildForEver == UNCHANGED children

CountChildGone ==
    children' = IF current \in Procs
                THEN [children EXCEPT ![profile[current].parent] = @ - 1]
                ELSE children

\* taskEnd and killtask: a task that ends with no child left is freed, and
\* idle takes the CPU.
Exit ==
    /\ pc = "cycle" /\ Ending /\ MayBeFreed
    /\ Unlink(current)
    /\ CountChildGone
    /\ alive' = alive \ {current}
    /\ kill' = kill \ {current}
    /\ acct' = [t \in Procs |-> IF t = current THEN NoAcct ELSE acct[t]]
    /\ work' = [work EXCEPT ![current] = -1]
    /\ current' = IdleTask
    /\ need_reschedule' = (need_reschedule \ {current})
                             \cup (IF nr_running' # 0 THEN {IdleTask} ELSE {})
    /\ pc' = "tick"
    /\ UNCHANGED <<profile, clocks, intwaitlist, unspawned>>

WaitTimerExpires == IsInteractive(current) /\ intWaitTimer \in {0, 1}

\* Mutation of ArmIoTimer: a cycle that puts its task to sleep does not arm it.
ArmIoTimerUnlessSleeping ==
    intTimer' \in IF intTimer < 0 /\ ~WaitTimerExpires THEN IOTimes ELSE {intTimer}

\* Mutation of ArmIoTimer: it is never armed.
ArmNothing == UNCHANGED intTimer

\* The general IO timer starts again as soon as it has fired.
ArmIoTimer == intTimer' \in IF intTimer < 0 THEN IOTimes ELSE {intTimer}

\* What every cycle that does not free the task does: raise the kill flag of an
\* ending task whose children still run, count the work, arm the IO timer.
RunTick ==
    /\ pc = "cycle" /\ ~(Ending /\ MayBeFreed)
    /\ kill' = IF Ending THEN kill \cup {current} ELSE kill
    /\ work' = [work EXCEPT ![current] = WorkLeft]
    /\ ArmIoTimer
    /\ pc' = "spawn"
    /\ UNCHANGED <<profile, clocktick, jiffies, timer, current, alive, unspawned, children>>

KeepRunning ==
    /\ RunTick /\ ~WaitTimerExpires
    /\ intWaitTimer' = IF IsInteractive(current) /\ intWaitTimer > 0
                       THEN intWaitTimer - 1 ELSE intWaitTimer
    /\ UNCHANGED <<queue, need_reschedule, acct>>

\* An interactive task goes to wait for the IO event.
Sleep ==
    /\ RunTick /\ WaitTimerExpires
    /\ intWaitTimer' = -1
    /\ intwaitlist' = Append(intwaitlist, current)
    /\ Unlink(current)
    /\ acct' = [acct EXCEPT ![current].waiting_in_rq = CalcWaiting(acct[current], jiffies)]
    /\ RequestReschedule

Cycle == Exit \/ KeepRunning \/ Sleep

-----------------------------------------------------------------------------
(* spawnChildren(current), then spawnChildren(init) *)

Due(p) == {c \in unspawned : profile[c].parent = p /\ profile[c].spawn_time <= clocktick}

CountChild(c) == children' = [children EXCEPT ![profile[c].parent] = @ + 1]

\* forktask: siblings that fall due together are forked in any order (the order
\* in which the profile lists them).
Fork(c) ==
    /\ pc = "spawn"
    /\ c \in IF Due(current) # {} THEN Due(current) ELSE Due(InitTask)
    /\ unspawned' = unspawned \ {c}
    /\ alive' = alive \cup {c}
    /\ CountChild(c)
    /\ work' = [work EXCEPT ![c] = profile[c].work_duration]
    /\ Enqueue(c)
    /\ acct' = [acct EXCEPT ![c] = [NoAcct EXCEPT !.waiting_in_rq = sched_clock(jiffies)]]
    /\ RequestReschedule
    /\ UNCHANGED <<pc, profile, clocks, intwaitlist, current, kill>>

SpawnDone ==
    /\ pc = "spawn" /\ Due(current) = {} /\ Due(InitTask) = {}
    /\ pc' = "tick"
    /\ UNCHANGED <<profile, clocks, queue, current, need_reschedule, tree, acct>>

-----------------------------------------------------------------------------
(* interrupt(): the schedule tick, then the IO event *)

TickCountdown ==
    /\ pc = "tick" /\ timer > 1
    /\ timer' = timer - 1
    /\ pc' = "io"
    /\ UNCHANGED <<profile, clocktick, jiffies, intTimer, intWaitTimer, queue, current,
                   need_reschedule, tree, acct>>

\* The tick calls schedule() only for a task that is in the ring.
TickFires ==
    /\ pc = "tick" /\ timer <= 1
    /\ timer' = TicksPerJiffy
    /\ jiffies' = IF jiffies < MaxJiffies THEN jiffies + 1 ELSE jiffies
    /\ IF InRing(current) THEN Schedule(jiffies')
       ELSE UNCHANGED <<current, intWaitTimer, need_reschedule, acct>>
    /\ pc' = "io"
    /\ UNCHANGED <<profile, clocktick, intTimer, queue, tree>>

IoFires == intTimer \in {0, 1}

IoCountdown ==
    /\ pc = "io" /\ ~IoFires
    /\ intTimer' = IF intTimer > 0 THEN intTimer - 1 ELSE intTimer
    /\ pc' = "check"
    /\ UNCHANGED <<profile, clocktick, jiffies, timer, intWaitTimer, queue, current,
                   need_reschedule, tree, acct>>

IoEvent ==
    /\ pc = "io" /\ IoFires
    /\ intTimer' = -1
    /\ pc' = "wake"
    /\ UNCHANGED <<profile, clocktick, jiffies, timer, intWaitTimer, queue, current,
                   need_reschedule, tree, acct>>

\* Mutation of ListDelFirst: the entry stays on the wait list.
ListDelNothing == UNCHANGED intwaitlist

ListDelFirst == intwaitlist' = Tail(intwaitlist)

\* One turn of the wake-up loop: activate_task of the oldest waiter.
WakeOne ==
    /\ pc = "wake" /\ intwaitlist # <<>>
    /\ LET t == Head(intwaitlist) IN
          /\ Enqueue(t)
          /\ acct' = [acct EXCEPT ![t].waiting_in_rq = CalcWaiting(acct[t], jiffies)]
    /\ ListDelFirst
    /\ UNCHANGED <<pc, profile, clocks, current, need_reschedule, tree>>

WakeDone ==
    /\ pc = "wake" /\ intwaitlist = <<>>
    /\ RequestReschedule
    /\ pc' = "check"
    /\ UNCHANGED <<profile, clocks, queue, current, tree, acct>>

-----------------------------------------------------------------------------
(* the rest of runcpu()'s loop *)

Advance == clocktick' = IF clocktick < MaxTick THEN clocktick + 1 ELSE clocktick

NoReschedule ==
    /\ pc = "check" /\ current \notin need_reschedule
    /\ Advance
    /\ pc' = "end"
    /\ UNCHANGED <<profile, jiffies, timer, intTimer, intWaitTimer, queue, current,
                   need_reschedule, tree, acct>>

Reschedule ==
    /\ pc = "check" /\ current \in need_reschedule /\ nr_running # 0
    /\ Advance
    /\ Schedule(jiffies)
    /\ pc' = "end"
    /\ UNCHANGED <<profile, jiffies, timer, intTimer, queue, tree>>

\* schedule() with nothing queued follows the head pointer into freed memory.
RescheduleEmpty ==
    /\ pc = "check" /\ current \in need_reschedule /\ nr_running = 0
    /\ pc' = "crashed"
    /\ UNCHANGED <<profile, clocks, queue, current, need_reschedule, tree, acct>>

\* Past the end time, init is told to die.
SendKillMessage == kill' = IF clocktick >= EndTime THEN kill \cup {InitTask} ELSE kill

LoopGoesOn == nr_running # 0

\* END_CYCLE, and the condition of the loop: go on while anything is queued.
EndCycle ==
    /\ pc = "end" /\ InitTask \in alive
    /\ SendKillMessage
    /\ pc' = IF LoopGoesOn THEN "cycle" ELSE "done"
    /\ UNCHANGED <<profile, clocks, queue, current, need_reschedule,
                   alive, unspawned, children, work, acct>>

\* END_CYCLE after init exited reads (and may write) init's freed thread_info.
EndCycleFreed ==
    /\ pc = "end" /\ InitTask \notin alive
    /\ pc' \in {"crashed", IF LoopGoesOn THEN "cycle" ELSE "done"}
    /\ UNCHANGED <<profile, clocks, queue, current, need_reschedule, tree, acct>>

Stopped == pc \in {"done", "crashed"} /\ UNCHANGED vars

-----------------------------------------------------------------------------
\* main has set the scheduler up, read a profile, called schedule() once (which
\* puts Init, alone in the ring, in the CPU) and set the first schedule tick.
Init ==
    /\ pc = "cycle"
    /\ profile \in Profiles
    /\ clocktick = 0 /\ jiffies = 0
    /\ timer = TicksPerJiffy /\ intTimer = -1 /\ intWaitTimer = -1
    /\ rq = <<InitTask>> /\ nr_running = 1 /\ intwaitlist = <<>>
    /\ current = InitTask
    /\ need_reschedule = {}
    /\ alive = {InitTask} /\ unspawned = Procs /\ kill = {}
    /\ children = [t \in Tasks |-> 0]
    /\ work = [t \in Tasks |-> -1]
    /\ acct = [t \in Procs |-> NoAcct]

Spawn == SpawnDone \/ \E c \in Procs : Fork(c)
Interrupt == TickCountdown \/ TickFires \/ IoCountdown \/ IoEvent \/ WakeOne \/ WakeDone
Finish == NoReschedule \/ Reschedule \/ RescheduleEmpty \/ EndCycle \/ EndCycleFreed

Next == Cycle \/ Spawn \/ Interrupt \/ Finish \/ Stopped

Spec == Init /\ [][Next]_vars

\* The program is sequential and its loop never blocks, so it keeps taking steps.
FairSpec == Spec /\ WF_vars(Next)
-----------------------------------------------------------------------------
(* Safety *)

\* Every variable keeps its type; accounting times are natural numbers.
TypeOK ==
    /\ pc \in {"cycle", "spawn", "tick", "io", "wake", "check", "end", "done", "crashed"}
    /\ profile \in Profiles
    /\ clocktick \in 0..MaxTick /\ jiffies \in 0..MaxJiffies /\ timer \in 1..TicksPerJiffy
    /\ intTimer \in Nat \cup {-1} /\ intWaitTimer \in Nat \cup {-1}
    /\ rq \in Seq(Tasks) /\ nr_running \in Nat /\ intwaitlist \in Seq(Procs)
    /\ current \in Tasks \cup {IdleTask}
    /\ need_reschedule \in SUBSET (Tasks \cup {IdleTask})
    /\ alive \in SUBSET Tasks /\ unspawned \in SUBSET Procs /\ kill \in SUBSET Tasks
    /\ children \in [Tasks -> Nat] /\ work \in [Tasks -> Nat \cup {-1}]
    /\ acct \in [Procs -> [exp_burst: Nat, waiting_in_rq: Nat, process_start_time: Nat]]

\* Every allocated task is in exactly one place exactly once: in the run queue,
\* or on the IO wait list; nothing freed or not yet forked is in either
\* (wake_up_new_task, activate_task, deactivate_task, killtask).
QueuesHoldLiveTasksOnce ==
    /\ IsInjective(rq) /\ IsInjective(intwaitlist)
    /\ ToSet(rq) \cap ToSet(intwaitlist) = {}
    /\ ToSet(rq) \cup ToSet(intwaitlist) = alive
    /\ alive \cap unspawned = {}

\* Init stays at the head of the ring as long as anything is queued, and the
\* counter schedule() and runcpu() branch on is the length of the ring.
HeadIsInitAndCountExact ==
    /\ rq # <<>> => rq[1] = InitTask
    /\ nr_running = Len(rq)

\* The CPU never runs a task that is waiting for IO or was freed, nor idle.
CpuRunsQueuedTask == pc = "cycle" => InRing(current)

\* Init gets the CPU only when no process is runnable.
InitRunsOnlyWhenAlone == pc = "cycle" /\ current = InitTask => nr_running = 1

\* A request to reschedule (a fork, a sleep, an exit, an IO event) is served in
\* the loop pass it was made in: none is left when the CPU runs its next tick.
RescheduleServedInItsPass == pc = "cycle" => need_reschedule = {}

\* killtask and taskEnd go through thread_info->parent: a live process has a
\* live parent, so Init is the last task to be freed.
ParentOutlivesChild == \A t \in alive \cap Procs : profile[t].parent \in alive

\* The count that keeps a dying parent allocated is the number of its live children.
ChildCountExact ==
    \A p \in Tasks :
        children[p] = Cardinality({t \in alive \cap Procs : profile[t].parent = p})

\* When the CPU is about to run, a task waiting for IO has an armed IO timer to
\* wake it: the one global intTimer is never lost, whoever exits or sleeps.
SleeperHasArmedTimer == pc = "cycle" /\ intwaitlist # <<>> => intTimer > 0

\* A machine that shut down normally has freed every task: none is left waiting
\* for IO, none holds a stale flag.
NothingLeftAtShutdown ==
    pc = "done" => alive = {} /\ intwaitlist = <<>> /\ kill = {} /\ need_reschedule = {}

\* The machine stops only after the end time, and then with every task freed: also
\* where schedule() finds nothing queued, and where init is read after it was freed.
StopsOnlyAtEnd ==
    pc \in {"done", "crashed"} =>
        clocktick >= EndTime /\ alive = {} /\ intwaitlist = <<>> /\ rq = <<>>

\* Shutdown needs no more than MaxJiffies jiffies, so the cap on jiffies is never felt.
ShutsDownInTime == jiffies < MaxJiffies

\* The goodness heuristic does not starve: no runnable process waits for the CPU
\* longer than MaxWait jiffies (hw2/README.txt, "goodness against expected burst").
NoStarvation ==
    \A t \in Procs : InRing(t) /\ t # current =>
        sched_clock(jiffies) - acct[t].waiting_in_rq <= MaxWait * NsPerJiffy

-----------------------------------------------------------------------------
(* The inductive invariant the proofs rest on *)

\* The task in the CPU may run its next tick.
CpuReady == InRing(current) /\ (current = InitTask => nr_running = 1)

\* Between two cycles either the task in the CPU may run, or it has asked for a
\* reschedule, or nothing is queued any more.
ControlInv ==
    /\ need_reschedule \subseteq {current}
    /\ pc = "cycle" => need_reschedule = {} /\ CpuReady
    /\ pc = "spawn" => current \in alive
    /\ pc \in {"spawn", "tick", "io", "check"} /\ current \notin need_reschedule
          => CpuReady \/ rq = <<>>
    /\ pc = "end" => need_reschedule = {} /\ (CpuReady \/ rq = <<>>)
    /\ pc = "done" => need_reschedule = {} /\ rq = <<>>

QueueInv == QueuesHoldLiveTasksOnce /\ HeadIsInitAndCountExact

FamilyInv == ParentOutlivesChild /\ ChildCountExact /\ kill \subseteq alive

TimerInv ==
    /\ intTimer # 0
    /\ pc # "wake" /\ intwaitlist # <<>> => intTimer > 0

\* No stamp lies in the future, so the ages and bursts goodness divides by are
\* not negative.
TimesInPast ==
    \A t \in Procs : /\ acct[t].process_start_time <= sched_clock(jiffies)
                     /\ acct[t].waiting_in_rq <= sched_clock(jiffies)

\* Inductive, and stronger than each safety property above.
IInv == TypeOK /\ QueueInv /\ FamilyInv /\ TimerInv /\ TimesInPast /\ ControlInv

-----------------------------------------------------------------------------
(* What comments of cpu.c and hw2/README.txt say, and the code does not do *)

\* schedule() is called when "there are still tasks to be run" (cpu.c:571).
ScheduleOnlyWithTasks == pc = "check" /\ current \in need_reschedule => nr_running # 0

\* init is the "Pointer to the init task" (cpu.c:64) when END_CYCLE reads through it.
InitPointsToInitAtEndCycle == pc = "end" => InitTask \in alive

\* intWaitTimer dictates "when an interactive process will go and wait on IO"
\* (cpu.c:81-82): an interactive task in the CPU has it running.
InteractiveWaitTimerRuns == pc = "cycle" /\ IsInteractive(current) => intWaitTimer > 0

-----------------------------------------------------------------------------
(* What a step may do *)

\* A schedule tick takes the CPU from the process that holds it whenever
\* another process is in the ring (the round-robin of hw2/README.txt).
TickRotates ==
    [][TickFires /\ current \in Procs /\ InRing(current) /\ nr_running > 2
          => current' # current]_vars

\* The steps of a pass of the loop, counted down to its end.
Stage(p) ==
    [cycle |-> 9, spawn |-> 7, tick |-> 6, io |-> 5, wake |-> 4, check |-> 3, end |-> 2,
     done |-> 1, crashed |-> 0][p]

\* What is left of a pass: its steps, the tasks it may still wake and the processes
\* it may still fork.
Left == Stage(pc) + Len(intwaitlist) + Cardinality(unspawned)

\* Every pass of runcpu()'s loop gets to its END_CYCLE: each step leaves less of
\* the pass, though a task may go to sleep in it, children fall due and sleepers wake.
PassAdvances == [][pc # "end" => Left' < Left]_vars

-----------------------------------------------------------------------------
(* The life of a task *)

\* Where the queues and flags of the code say a task is.
Status(t) ==
    IF InRing(t) THEN "ready"
    ELSE IF t \in ToSet(intwaitlist) THEN "waiting"
    ELSE IF t \in unspawned THEN "unborn" ELSE "gone"

Life == INSTANCE TaskLife WITH
            Root <- InitTask, Nobody <- IdleTask,
            parent <- [t \in Procs |-> profile[t].parent],
            status <- [t \in Tasks |-> Status(t)],
            running <- current

\* The machine implements TaskLife: whatever is forked, put to sleep, woken, told
\* to end and rescheduled in one pass of the loop, each task lives one life, only
\* the task in the CPU waits or ends, and Init gets the CPU only when no process
\* can use it.
FollowsTaskLife == Life!Spec

-----------------------------------------------------------------------------
(* Liveness *)

\* The machine stops: every task is told to end, is scheduled, and ends.
Termination == <>(pc \in {"done", "crashed"})

\* A task that waits for IO is woken.
SleeperWakes == \A t \in Procs : t \in ToSet(intwaitlist) ~> InRing(t)
=============================================================================
