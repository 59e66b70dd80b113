# TLA+ models of uth-operating-systems

The repository holds four operating-systems assignments: small kernel pieces
(an I/O scheduler, a system call that walks the process tree, a slab allocator,
a block-layer elevator) and one user-space simulator of a CPU with a process
scheduler. This directory keeps their models in TLA+: what each part does, the
properties that make it correct, the TLC runs that check them on small
instances, and TLAPS proofs of the most important ones for every instance.

Run a check with `tlc -config sched_pairs.cfg MCSchedVM`; check the proofs of a
module with `tlapm SchedVMProofs.tla`, and likewise `SequenceLemmas`,
`RunQueueProofs`, `ProfileProofs`, `ElevatorProofs`, `BarrierProofs`,
`ElevatorSwitchProofs` and `SlobProofs` (the last takes some minutes).

## 1. Inventory

### hw2: the scheduler virtual machine (`src/hw2/Scheduler_VM`)

One sequential C program that simulates a CPU tick by tick.

| part | state | operations |
| --- | --- | --- |
| simulated CPU, `cpu.c` | `clocktick`, `jiffies`, `timer`, `intTimer`, `intWaitTimer`, `intwaitlist`, `current`, `init`, `idle`, the tree of `task_struct`/`thread_info` | `runcpu` (loop), `cycle`, `interrupt`, `context_switch`, `forktask`, `spawnChildren`, `taskEnd`, `killtask` |
| scheduler, `schedule.c` | run queue (`head`, circular list), `nr_running`, per task `need_reschedule`, burst and waiting times | `schedule`, `wake_up_new_task`, `activate_task`, `deactivate_task`, `scheduler_tick` |
| SJF by goodness, `sjf_lib.c` | none (reads the accounting of the ring) | `Sjf_algo`, `min_burst_max_waiting_in_rq`, `calc_*` |
| profile parser, `cpuinit.c`; clean-up, `cpu.c` | the tree of future processes; `newtask`, `top`, the count of open `SPAWN`s | `readProfile`, `SPAWN`/`ENDSPAWN` nesting; `badshutdowncpu`, `cleanuptask` |
| lists, `list.h` | linked nodes | insertion, deletion |

Interaction: `runcpu` calls `cycle` (which may free, fork or put to sleep the
running task), then `interrupt` (the schedule tick and the IO event), then
`schedule` if the task in the CPU asked for it; all of them share `current`,
the run queue and the flags. Hard behaviours: several of these events in one
pass of the loop (an exit and a tick, a sleep and its own wake-up), the order
in which a process tree is torn down, one global IO timer for all sleepers,
starvation under a heuristic. Correct when: every live task is in one queue,
once; the CPU only runs queued tasks; parents outlive children; requests to
reschedule and wake-ups are not lost; nobody starves; the machine stops and
leaves nothing behind.

### hw4: the elevator (`src/hw4`)

| part | state | operations |
| --- | --- | --- |
| elevator core, `elevator.c` | per queue: dispatch list `queue_head`, `end_sector`, `boundary_rq`, `nr_sorted`, `last_merge`, merge hash; globally: `elv_list`, module references | `elv_dispatch_sort`, `elv_dispatch_add_tail`, `elv_merge`, `elv_attempt_insert_merge`, `elv_merge_requests`, `elv_merged_request`, `elv_requeue_request`, `elv_drain_elevator`, `__elv_add_request`, `elv_register`/`unregister`, `elevator_init`, `elevator_switch` |
| C-LOOK, `clook-iosched.c` | one list of requests ordered by end sector | `clook_add_request`, `clook_dispatch`, `clook_merged_requests`, `clook_former_request`, `clook_latter_request`, `init`/`exit` |

Interaction: the block layer calls the core with the queue lock held; the core
calls the scheduler through its `ops`, and the scheduler calls back
`elv_dispatch_sort`. Hard behaviours: merges that change a request after it was
placed, barriers against sorting, counters kept in two places, replacing a
scheduler while requests are in flight and failing half way. Correct when:
requests are neither lost nor duplicated, `nr_sorted` is what the scheduler
holds, nothing passes a barrier, the order kept is the order promised, module
references balance.

### hw3: the SLOB allocator (`src/hw3/slob.c`)

State: three lists of partly free pages, in each page a list of free blocks
with sizes in the blocks themselves, and the two counters the assignment adds.
Operations: `slob_alloc` (best-fit page, best-fit block, or a new page),
`slob_free` (address-ordered coalescing, whole-page release), `__do_kmalloc`,
`kfree`, `ksize`, `kmem_cache_*`, and two system calls that read the counters.
Hard behaviours: `slob_lock` dropped between search and new page, counters
updated outside the lock, boundary units. Correct when: blocks in use never
overlap, what is freed is free again, pages sit on the list their free units
call for, the counters say what is allocated.

### hw1: FIFO I/O scheduler and `find_roots` (`src/hw1`)

`project1-iosched.c` is the kernel's noop scheduler under another name (a FIFO
list behind the same `ops` as C-LOOK). `find_roots` follows `real_parent` from
the caller to the root without a lock, while other tasks may exit and be
reparented; it is correct when the walk ends at the root and visits ancestors.

### Not program logic

`src/hw1/kernel_files/syscalls.h`, `src/hw3/kernel_files/syscalls.h`, tables and
Makefiles, `src/hw4/header_files/*` and `src/hw4/docs/*` are kernel files with a
line added or unchanged; the user-space tests in `hw3/syscall` measure and print.

## 2. Plan

What exists, in the order the modules build on each other:

| component | modules | composed with | proofs |
| --- | --- | --- | --- |
| the simulated machine and its scheduler | **SchedVM**; **SchedQuanta** and **RunQueue** extend it; **MCSchedVM**, **MCRunQueue** | implements **TaskLife** | **SchedVMProofs**, **RunQueueProofs** |
| profile parser and clean-up | **Profile** on **ListHead** | yields SchedVM's `ProfileAssumption` | **ProfileProofs** |
| elevator core, C-LOOK, FIFO | **Elevator**, **MCElevator** | implements **BarrierQueue** | **ElevatorProofs**, **BarrierProofs** |
| registering and switching schedulers | **ElevatorSwitch**, **MCElevatorSwitch** | counts the requests Elevator follows one by one | **ElevatorSwitchProofs** |
| SLOB allocator | **Slob**, **MCSlob** | implements **Heap** | **SlobProofs** |

`SequenceLemmas` (inserting into, removing from and indexing sequences without
duplicates, and how a function defined by recursion on its position is computed)
serves all of them but ElevatorSwitchProofs.

The plan is carried out. Every safety and action property the passing runs check is
also a theorem, for every value of the constants, but for two that bound the whole
history of the scheduler machine (`ShutsDownInTime`, `NoStarvation`); liveness stays
with TLC. Section by section, "What is proved" says which and along which argument.

## 3. SchedVM: the simulated machine

### State and actions

Each variable is one of the program's, or a field of its structures collected
over all tasks (`need_reschedule`, `kill` are the sets of tasks whose flag is
set; `children`, `work`, `acct` are functions). `rq` is the circular run queue
read from its head; `alive` says which `task_struct`s are allocated,
`unspawned` which processes are still in their parents' lists of future
children. `profile` is the parsed profile, fixed in a behaviour.

`pc` orders one pass of the loop of `runcpu`:

| pc | actions | code |
| --- | --- | --- |
| `cycle` | `Exit`, `KeepRunning`, `Sleep` | `cycle`, `taskEnd`, `killtask` |
| `spawn` | `Fork(c)`, `SpawnDone` | `spawnChildren`, `forktask` |
| `tick` | `TickCountdown`, `TickFires` | first half of `interrupt`, `scheduler_tick` |
| `io`, `wake` | `IoCountdown`, `IoEvent`, `WakeOne`, `WakeDone` | second half of `interrupt` |
| `check` | `NoReschedule`, `Reschedule`, `RescheduleEmpty` | `RESCHEDULE` of `runcpu` |
| `end` | `EndCycle`, `EndCycleFreed` | `END_CYCLE` of `runcpu` |
| `done`, `crashed` | `Stopped` | the loop left; memory freed or NULL followed |

The program has one thread, so its nondeterminism is what it draws at random
(the IO and wait timers: `IOTimes`, `WaitTimes`), the profile, and the order in
which siblings due at the same tick are forked, which is the order of the
profile file. Following a freed pointer is undefined in C: `EndCycleFreed`
may crash or read what `killtask` left there, and `RescheduleEmpty` ends in
`crashed`.

### Abstractions

- Time in whole nanoseconds is kept (`NsPerJiffy`), because the order of
  goodness depends on it. The floating-point quotient of `calc_goodness` is
  compared by cross multiplication; the factors `Sjf_algo` gives every process
  of the ring are the same for all and are left out. The average of
  `calc_exp_burst` is taken in whole nanoseconds.
- `clocktick` and `jiffies` stop growing at `MaxTick` and `MaxJiffies`. The
  first is past every time it is compared with (`MaxTickAssumption`); the
  second is never reached (`ShutsDownInTime`; raising it in `sched_pairs` adds
  no state).
- Printing and the statistics are left out. `Init` starts after `initschedule`
  and the first `schedule`; a profile that is not accepted never gets here and
  is Profile's subject (section 7).

### The run queue as pointers

`RunQueue` puts `task_struct`'s `next` and `prev` beside SchedVM's sequence: each
step of SchedVM that queues or unqueues a task also does the stores of
`wake_up_new_task`, `activate_task` or `deactivate_task`, in their order and with
their aliasing when the ring is one task. `PointersAreTheRing` says both
descriptions agree, which is what the sequence in SchedVM rests on.

### The promise

`TaskLife` knows no queue, timer, flag or accounting: a task is unborn, ready,
waiting or gone, and one task has the CPU. Its actions say what may happen to a
task: it is forked by a parent that lives, only the task in the CPU goes to wait
or ends, it ends after its children, once, and the CPU goes to ready tasks, to
Init only when no process is ready. SchedVM reads a task's state off its queues
(`Status`) and implements it (`FollowsTaskLife`), whatever happens in one pass of
the loop. The CPU's name lags behind: a task that went to wait is `current` until
the pass ends, and may be woken before it ever lost the CPU, which `TaskLife` allows.

### Runs

`MCSchedVM` names the profile sets; bounds are as small as the events that must
meet allow: `EndTime` leaves room for a fork, a sleep, a wake-up and an exit of
each process, and IO and wait times from 1 to 4 ticks let a timer end in the pass
it was set and in a later one.

| run | shows |
| --- | --- |
| `sched_pairs` | every profile of two processes over small ranges: queues, ring, CPU, flags and timers agree after every step; refinement of `TaskLife`; under `FairSpec` the machine stops and every sleeper is woken |
| `sched_trees` | on RunQueue, three processes, flat, nested, chained, or runnable for six jiffies: tear-down order, child counts, bounded shutdown, pointers against sequence; nobody waits more than two jiffies (with `MaxWait = 1` the run fails: the bound is tight); a tick rotates |
| `sched_empty_queue`, `sched_two_quanta` | a comment and a statement of `hw2/README.txt` that the code does not keep (see "findings" in PROJECT.json) |

In `sched_trees` an IO takes two and a half jiffies or more; in the program it
takes five or more (50 ms against a jiffy of 10 ms). The ratio matters: when an IO lasts
exactly as long as a jiffy, each IO event meets a tick, and a process that was told
to end may keep losing the CPU before it runs a cycle.

Two more statements of comments fail, and are kept in SchedVM without a run of
their own: `InitPointsToInitAtEndCycle` (`init` is read at the end of the pass in
which it was freed, on every normal shutdown) and `InteractiveWaitTimerRuns`
(an interactive task woken in the pass it went to sleep in is restored without
its wait timer). Either, added to the invariants of `sched_pairs`, is violated.

Fairness: `FairSpec` assumes `WF_vars(Next)` only. The loop is sequential and
never blocks, so it keeps taking steps; nothing is assumed about which random
times come up.

`SchedQuanta` extends the machine by a history variable, the two processes
that held the CPU in the last two quanta, for the statement about consecutive
quanta.

### What is proved

`SchedVMProofs`, for every finite set of processes, every set of profiles whose
parents form a tree (`ProfileAssumption`), and all positive times: `Invariance`
(`Spec => []IInv`) and from it

- one theorem for each safety property of `sched_pairs`, and for `ParentOutlivesChild`
  and `ChildCountExact` of `sched_trees`;
- `TaskLifeRefinement`, the implementation of `TaskLife`;
- `RoundRobin`, that a tick takes the CPU from its holder (`TickRotates`), under a
  bound on the run time, see below;
- and what no run repeats: `InitYields` (Init never holds the CPU when a pass begins
  while another task is in the ring), `CleanShutdown` (when the loop is left, nothing
  is), `OrderlyStop` (also the two crashes come only after the end time, with every
  task freed), `PassEnds` (every step leaves less of the pass of the loop it is in, so
  none of its inner loops goes on for ever), `SjfAlgoDecides` (`Sjf_algo` settles on
  exactly one process whenever there are any) and `BurstBound` (no expected burst is
  longer than the machine has run).

None of the properties is inductive alone. `IInv` adds what ties them together:

- `ControlInv`, per `pc`, says when the task in the CPU may run its next tick
  (`CpuReady`) and that otherwise it has asked for a reschedule or the ring is
  empty. This is why a sleeping task, which stays `current` to the end of the
  pass, is never run, and why Init yields to a fork.
- `FamilyInv` ties `children` to the tree. With the tree assumption it gives
  `AliveHasInit`: while anything is allocated, Init is, hence (`QueueInv`) the
  ring is not empty and the wake-up and fork insertions behind the head are
  well defined, and shutdown leaves nothing.
- `TimerInv` holds outside the wake-up loop, whatever ends the pass.
- `TimesInPast` keeps ages and bursts natural numbers.

The proof has one lemma for each action; `Exit`, `Fork` and `Sleep` rest on
`SequenceLemmas` (inserting into and removing from a sequence without
duplicates) and on the cardinality theorems for the child count; both callers
of `schedule()` share `ScheduleEffect`.

`TaskLifeRefinement` reads `Status` off `IInv`: since every live task is in one queue,
once, an insertion into the ring or a removal changes one task's status and no other
(`EnqueueEffect`, `UnlinkEffect`), and `ControlInv` says that the task `schedule()` gives the
CPU to is queued. That a task ends after its children comes from the child count.

`SjfAlgoDecides`: "better" compares quotients by cross multiplication and orders the
processes only where the denominators are positive (`BetterOrders`), which
`TimesInPast` gives; the choice is then found by induction along the ring.

`RoundRobin` compares the task in the CPU, which has waited for no time, with one that
has waited for at least a jiffy (`HolderIsWorse`). A burst of J nanoseconds leaves an
expected burst of at least two thirds of J (`ExpBurstBounds`), and no expected burst
exceeds the time the machine has run (`BurstBound`); so a tick rotates as long as
`3 * MaxJiffies <= 2 * NsPerJiffy`. The program's jiffy is 10,000,000 ns, which makes
18 simulated hours. The bound is about the code and not the proof: beyond it, the
other's expected burst can outweigh its wait. The hypothesis `[]ShutsDownInTime` leaves
out only what the cap on `jiffies` cuts off; the instance of `sched_trees` meets both.

`RunQueueProofs` adds to `IInv` that the pointers are the ring (`RingInv`, by
position instead of by remainder) and proves `PointersAreTheRing`. Each change of
`rq` inserts one task behind the head or removes one task (`RingSteps`), so two
lemmas about linked cycles carry it: `LinkedCycle` for the four stores of an
insertion, `UnlinkedCycle` for those of a removal, both with the aliasing of a ring
of one or two tasks. That a task is removed only once, and that the ring is never
left empty by a removal that somebody follows, comes from SchedVM's `IInv`. The
one new assumption is that `NULL` is no task (`NullAssumption`).

### Only model-checked

`Termination` and `SleeperWakes` are liveness, out of the prover's reach.
`NoStarvation` and `ShutsDownInTime` bound the whole history of a machine, and no
bound holds for every profile: a newcomer has an expected burst of 0 and goes before
a process with a long one, so how long that one waits depends on when newcomers
arrive. The bounds of `sched_trees` are those of its profiles.

## 4. Elevator: the block layer's request queue

### State and actions

`Elevator` has the fields of `struct request_queue` the core uses, the list
of the scheduler (`queue`), and the request structures (`rq`, by the number of
the submission they were made for, so that a structure is never reused). A
request carries a set of submissions, `bios`. The queue lock serialises
everything: an operation is an action, but for the two loops that run under the
lock, whose iterations are actions while `pc` is `merge` or `drain` and nothing
else is enabled.

| actions | code |
| --- | --- |
| `MergeBio`, `RefuseMerge` | `elv_merge`, then `elv_merged_request` or `elv_merge_requests`; a request that would be too large |
| `AddSorted`, `MergeStep`, `MergeDone` | `__elv_add_request` at `SORT` and `SORT_MERGE`, `elv_attempt_insert_merge`, `clook_add_request` |
| `AddBack`, `DrainOne`, `DrainDone`, `AddFront` | the barriers of `__elv_add_request`, `elv_drain_elevator`, `clook_dispatch`, `elv_dispatch_sort` |
| `Requeue`, `Complete`, `AbortQueue` | `elv_requeue_request`, `elv_completed_request`, `elv_abort_queue` |
| `Fetch`, `Peek`, `Dequeue` | the driver's side, `blk_peek_request` and `blk_dequeue_request`: not in the repository, modelled from the fields of the queue they keep |

What the callers do is external: `blk_queue_bio` tries `elv_merge`, and
otherwise makes a request and adds it, perhaps later (a plug), so `AddSorted`
does not require that a merge was tried just before. `blk_attempt_req_merge` and
the size limit are `CanMerge` and `MaxSectors`.

### Abstractions

- A direction is read, write or discard; the sectors of a command without
  `REQ_TYPE_FS` are 0 and never looked at.
- Hash buckets: a lookup finds any of the requests with the key, and drops any
  set of the entries it may meet that cannot be merged any more (`Swept`).
- `in_flight` is the sum of its two entries.
- A flush (`ELEVATOR_INSERT_FLUSH`), partial completion and run-time power
  management are left out, and so are `elv_dispatch_add_tail` and the red-black
  tree helpers, which no scheduler of the repository calls.

### The promise

`BarrierQueue` knows no list: a submission is pending as an ordinary one, as a
barrier, or at the front, and the driver may take any set of pending ones that
passes no barrier. `Elevator` maps the request a submission is in to that state
(`status`) and implements it (`KeepsBarriers`): this covers sorting on dispatch,
draining, requeueing, and a later bio merged into an earlier request.

`DrainSweeps` speaks of the end of a drain only: between two drains the driver
may peek at a request, which moves `end_sector`, and what stands on the
dispatch list then was sorted for the old one.

### Runs

Three or four submissions are the least that meet: a request between two it can be
merged with, or three to sort and a barrier to drain them.

| run | shows |
| --- | --- |
| `elevator_sorts` | four submissions of adjacent blocks at each merge setting: list, hash and one-hit cache agree, every bio is kept, the C-LOOK list stays sorted |
| `elevator_barriers` | four submissions with barriers and a requeue: refinement of `BarrierQueue`, sweeps after a drain, `boundary_rq`, `in_flight` |
| `elevator_abort` | three overlapping submissions, the FIFO, insertion merges, requests without `REQ_ELVPRIV`, the front, a requeue and aborts: the same bookkeeping (`BooksAgree`), and every submission ends |

`QueueSorted` needs `MayOverlap = FALSE`: no submission touches a sector of one
that is pending. With `Bios <- Extents`, `MayOverlap = TRUE` and `MaxSectors = 5`
in `elevator_sorts` it is violated: a request that grows by a back merge past the
end of one it shares sectors with stays in front of it, because C-LOOK has no
`elevator_merged_fn`, while `biodoc.txt:939-942` has that hook reposition such a
request and `biodoc.txt:960-963` calls former and latter neighbours "in disk sort
order". `BoundaryPending` is checked without aborts: `elv_abort_queue` leaves
`boundary_rq` naming a freed request.

Fairness of `FairSpec`: a loop under the lock goes on; the driver's queue is run
again while there is work (`__elv_add_request` runs it, and so does each
completion), and the device ends what it was given. Requeues are bounded by
`MaxRequeues`. Submissions are finite: with an endless stream of low sectors
C-LOOK, which always dispatches the lowest, may keep a high one waiting.

### What is proved

`ElevatorProofs`, for any number of submissions, any bios, insertion points and
merge settings, and both schedulers (`ElevatorAssumption` only says what kind of
values these are): `SpecIInv` (`Spec => []IInv`) and from it each safety property
the three runs check, and the action property `DrainSweeps`. Two need what their
runs assume, and say so: `StaysSorted` is about C-LOOK without overlapping
bios, `BoundarySeen` about a queue that is never aborted. Both restrictions are
necessary, as the two counterexamples above show.

None of these is inductive alone. `IInv` is a conjunction of named parts:

- `BiosOnce`: a submission is in one request or ended one way. `PlacesInv`: a
  request that carries something is on one list, with the driver or loose in the
  loop that inserts it, and its flags say which. Together they give
  `KeptOnce`, and every other part needs them: without them a merge could free a
  request that is also on the dispatch list.
- `SectorsOnce`: pending requests have sectors, and disjoint ones where overlaps
  are excluded. It is what keeps the list sorted (`OrderInv`): a request that grows
  past the end of its neighbour would share sectors with it.
- `LockInv` says what the two loops hold, `NrSortedExact`, `HashMatches` and
  `LastMergeHeld` are the scheduler's books, `InFlightExact` and `BoundaryInv`
  the driver's. `BoundaryInv` adds to the property that a boundary request has not
  been shown to the driver yet: otherwise a second peek would not reset it.
- `SweepInv`: behind the last barrier the dispatch list is sweeps, and outside a
  drain at most one request is there, since the driver asks the scheduler for one
  only when the list is empty. This is why peeking and requeueing, which move
  `end_sector`, cannot spoil the order.

There is one lemma for each action, and one for each idea the actions share:
`Merging` (two requests become one), `Inserting` (`__elv_add_request` at `SORT`),
`Dispatching` (`elv_dispatch_sort`), `NewBarrier`, `Reflagged`.

`BarrierProofs` proves `Spec => KeepsBarriers`: initial states map to initial
states, and each step of `Elevator` is one of `BarrierQueue` or a stutter there.
The mapping reads the state of a submission off the request that carries it, so
the proof first shows that this is a function (`StatusIs`, from `BiosOnce`).
That the driver's next request passes no barrier needs two more facts about the
lists, proved invariant beside `IInv` (`Orders`): `WhereInv`, what a list holds
was inserted where that list's order supposes; `PassInv`, of any two requests on
the dispatch list, and of one there and one in the scheduler, the earlier may
lead: it was put at the front, or the other was not and either neither is a barrier or
all the submissions of the first are older. `PassInv` must speak of all pairs, and not of neighbours, because
sorting moves a request past many at once.

`EverySubmissionEnds` is liveness and only model-checked.

## 5. ElevatorSwitch: types, references and the change of a scheduler

### State and actions

Module states, `elv_list` and reference counts stand for the registry; each
queue has `elevator`, its bypass flag, `sysfs_lock` (`holder`) and two counts of
its requests with elevator data: `got`, allocated but not yet added, and `out`,
dispatched but not completed. Those inside a scheduler are counted in its
`elevator_queue` (`eq`), an object of a small pool, so that a freed one is
recognised when it is followed.

A caller holds `sysfs_lock` and goes, one step at a time, through
`elevator_init` (`boot`, `boot_init`) or `elevator_change`:

    lookup -> [load -> again] -> found -> drain -> init -> register -> exit
                               fail_register -> fail_init

`Lookup` and `Again` are the two searches of `elevator_get`, between which it
drops `elv_list_lock` to load a module. From `found` on, the caller is in
`elevator_switch`: bypass mode and drain, `elevator_init_fn`,
`elv_register_queue`, `elevator_exit` of the old elevator. Every step that can
fail has an action for its failure. External, from how the code uses it: bypass
mode and its drain, `get_request`, the module loader, the disk's own calls of
`elv_register_queue` and `elevator_exit`.

### Run

`elevator_switch`: a built-in and a loadable scheduler, two queues, two callers,
three slots, one request per queue with elevator data at a time. Two queues and
three slots let a slot freed by one queue be taken by another; one request is
enough because the counts of a queue are only compared with 0.

Found while modelling: `fail_init` registers the old elevator even if it was not
registered before, and does not look at the result; `elevator_init` returns 0
when the scheduler's init failed, and relies on noop being linked in
(`BootAssumption`). `switch_freed` shows that in `fail_register` the queue points
to the elevator just freed until line 958, while a bypassed request may still be
drained through it.

Fairness: a caller that holds the lock proceeds (the drain is a wait, and is
enabled once the counts are 0); requests are added, dispatched and completed,
by contexts that run and by the driver. Nothing is assumed about the arrival of
requests or of modules.

### What is proved

`ElevatorSwitchProofs`, for any modules, queues, callers and slots, of which only the
callers and the slots need be finitely many (`PoolAssumption`):
`SwitchTypeCorrect`, `ReferencesBalance`, `SwitchQuiesces` and
`ChangeLeavesOneElevator`, each safety property of the run, and two theorems about the
flaw `switch_freed` shows: `DanglingWindow`, a queue points to a freed elevator only
while its caller is in `fail_init`, about to put the old one back; and
`OnlyRegisterFailureOops`, in a behaviour in which `elv_register_queue` does not fail
(`NoRegisterFails`, about the steps of the failure and about nothing else) nothing is
ever called through a freed elevator. They follow from one inductive invariant:

- `LocksInv`: a call under way holds its queue's `sysfs_lock`, and only it does.
- `SlotsInv`: a slot is free or holds an elevator of some type and queue.
  `ModulesInv`: a type is registered while its module is loaded.
- `TypesHeld` is inductive with these, because each step of a call moves at most
  one reference: from nobody to the caller, from the caller to a slot, or back.
- `StageInv(q)` says, for each step of the call that holds the lock, which slots
  belong to the queue and what `q->elevator` names: one at rest, the old and the
  new one in the middle of a change, a freed one only on the path that failed.
- `FlowInv(q)` says when requests with elevator data may exist: none from the end
  of the drain to the end of the call, and never more than `MaxIO`.

The references are counted with the cardinality theorems (`RefTaken`,
`RefDropped`, `RefMoved`, `RefFreed`). `StageInv` and `FlowInv` are about one queue
and its lock holder, so a step of a caller leaves every other queue's alone
(`OtherQueue`). `CallEnds` is liveness and only model-checked.

## 6. Slob: pages and blocks

### State and actions

`mem` is the content of each page, a number per `SLOB_UNIT`, and holds what the
code stores there: the sizes and links of free blocks, kmalloc's header, the RCU
footer, the owners' data. `units`, `freelist`, `slab`, `slobFree` are the fields
and flags of `struct page`, `lists` the three lists. `held` and `retired` are the
users' side: the blocks they own, and those waiting for a grace period.

Every section under `slob_lock` is a step; what happens between is a step of
its own, of two threads interleaved:

| actions | code |
| --- | --- |
| `KmallocSmall`, `KmallocLarge`, `CacheAlloc`, `CacheAllocPage` | `__do_kmalloc_node`, `slob_alloc_node`, up to the first lock |
| `SearchHit`, `SearchMiss` | the search of `slob_alloc` over the pages of a list, `slob_page_alloc` |
| `NewPage`, `NoMemory`, `Count`, `AddPage` | the window in which the lock is dropped: `slob_new_pages`, then the second locked section |
| `Kfree`, `KfreeLarge`, `CacheFree`, `CacheFreeRcu`, `RcuFree` | the callers of `slob_free` |
| `FreeLast`, `FreeFirst`, `FreeMore`, `Release`, `Uncount` | `slob_free`'s three cases, and what follows its unlock |

`Scan` and `ScanPage` keep the search as it is written, with the values it carries
from page to page (`diff`, `best_fit`, `best_page_size`). `fit` chooses the
first-fit or best-fit build of `slob_page_alloc` once per behaviour.

### Abstractions and bounds

- Offsets are counted in units and a page's address is the page itself. A page is
  12 bytes (6 units of 2), `MINALIGN` 4, the RCU footer 2, the breaks 6 and 8: six
  units are the least with a free block on both sides of one in use, a head lost
  to alignment and a tail left over.
- A `kmalloc` larger than a page takes one page. NUMA, tracing, leak detection and
  constructors are left out.
- A released page is the page allocator's: its contents are set to 0.
- The counters are kept modulo `WORD`. `slob.cfg` has `WORD = 1`, which makes them
  constant, because the allocator never reads them. With `WORD = 4`,
  `AllocMemCountsPages` (the comment at slob.c:96) is violated: `kfree` of a large
  block gives its page back and counts nothing.
- Two pages, two threads, at most three blocks at once; pages and threads are
  symmetric, and no property checked under symmetry is a liveness property.
  `CHECK_DEADLOCK FALSE`: with `MaxBlocks` reached nobody need call again.

`slob` checks free lists, page lists, the owners' data and the refinement of
`Heap`; `slob_best_page` finds that the best-fit search serves from the first page
with a block that fits, whatever the later ones hold, unlike its comment.

### What is proved

`SlobProofs`, for any set of pages and threads, any even page size, breaks,
sizes and caches, and both fits: `SpecIInv` (`Spec => []IInv`), from it each
safety property `slob` checks (`Types`, `FreeAndUsed`, `Lists`, `NewPages`,
`DataIntact`), the refinement `HeapImplemented`, and `SearchFirst`, which no run repeats. The run finds a counterexample
in six units; the proof covers a page of 4096 bytes and every history.

Assumed of the constants: a page and kmalloc's header are whole units and the header
is smaller than a page (`SizeAssumption`); a cache's alignment is a number of units,
because `kmem_cache_create` rounds it up to one of pointers (`CacheAssumption`). Two
of the assumptions come from the model and not from the code: an object of a
cache under RCU has an even size, because footers are placed by unit here and by byte in
`kmem_rcu_free`, and fits in a page with its footer, like every allocation here.

None of the properties is inductive alone, and `FreeBlocksExact` cannot be used as
it stands: it reads a page by following its links, and a step rewrites links.
`IInv` has these parts:

- `SplitInv`: for each page in service, a set of offsets `F` with sizes `z` such that
  the memory holds exactly the list of these blocks, sorted and never touching
  (`ListHeld`), and the units of `F` and of what is in use split the page. `ListHeld`
  is local: a block's entry depends on its own units and on the next offset of `F`.
- `CallInv`, `BlockInv`: what a call may ask for and what a block looks like. The size a
  call frees is the size that was allocated, since `kfree` and
  `kmem_rcu_free` read it back from memory that `OwnersDataIntact` vouches for. Thus
  `OwnersDataIntact` needs the disjointness of `SplitInv`, and the other way round.
- `OwnersInv`, `PlacesInv`: a block in use has one owner, or one call that frees it; a
  page between the page allocator and the lists (`Private`, `Releasing`) belongs to
  one call and holds no block. This is what makes the windows without `slob_lock`
  harmless.
- `ClassInv`: all blocks of a page belong to one list, also those being freed, so that
  `FreeFirst` puts the page back where its other blocks' sizes are looked for.

The argument goes in four layers:

1. Lists in memory. `Listing`: if `ListHeld`, then the walk from the first block visits
   `F` in order and ends. That the walk exists and is what the definition by recursion
   says is an induction on positions, done with least elements of sets of naturals
   (`BlockExists`). `ReplaceBlock` puts any new blocks (`NewBlocks`) in the place of an
   old one; `CarveHeld` (with or without a head lost to alignment) and `InsertHeld`
   (alone, joined with either neighbour or both) follow from it.
2. A page. `SplitCut`, `SplitNew`, `SplitInsert`, `SplitFirst` carry `Split` over each
   operation, and count its units with the cardinality theorems.
3. The search. `ScanChooses`: whatever `diff` and `best_fit` carry along, a page that is
   chosen is on the list and has a block that fits, so `slob_page_alloc` does not fail.
   `SearchFirst` says which page it is: the first of the list with a block that fits,
   and none only if no page has one. Up to that page nothing is found (`BlocksHit`),
   and on it `best_fit` and the page's size cannot keep it from being chosen
   (`PageHit`: its free block is at most `page->units`, `BlockWithinPage`). This is
   the reason behind `slob_best_page`, and why `slob_alloc` never asks for a page it
   could do without.
4. One lemma per action. Allocations share `ServedKeeps` and `CutDone`, frees share
   `GiveBackKeeps` and `ReturnedKeeps`, and steps that touch no page share `QuietStep`.

For the refinement, `Apart` (blocks in use share no unit, from `SplitInv` and
`OwnersInv`) is applied to the state after a step: a block that is added shares no unit
with any other, which is the guard of Heap's `Allocate`.

The counters are proved to stay in range and nothing more: they are
wrong (`AllocMemCountsPages`).

## 7. Profile: reading a profile and cleaning up

`Profile` reads a file command by command: `NewProcess`, `EndProcess`, `Option`,
`Name`, `Spawn`, `EndSpawn`, `GlobalSetting`, `BadCommand`, `EndlessComment`,
`FileEnds`, each chosen freely, so that all files within the bounds are covered,
well formed or not. The processes hang on the circular lists of `ListHead`
(`list_add_tail`, `list_del` as pointer stores), and `CleanUp`, `CleanChild`,
`ChildCleaned`, `InitCleaned` are `badshutdowncpu` and the recursion of
`cleanuptask`, with its activations on `stack`.

Two history variables say what the file has been so far: `outline` the open
processes and blocks, `formed` whether it has the form of the `.conf` files.
`FormedProfileIsRead` compares them with the parser's pointers. The values of
the options are not kept.

`profile`: up to four processes and three open `SPAWN`s (or as many `ENDSPAWN`s
too many): enough for siblings around a nested block and a block reopened after
an inner one. The parser's odd ends are part of the model: the last command
is not carried out when only white space follows it, a comment at the end of a file
without a newline is read for ever, and the name of a process that has none is
freed uninitialised.

### What is proved

`ProfileProofs`, for every file, of any length and nesting, where `NULL` is no list
head (`NullAssumption`): `ListsHoldTree`, `FormedIsRead` and `CleanedUp`, all the run
checks. The first also discharges, for a profile that was
read, the assumption SchedVM makes of its profiles (`ProfileAssumption`): a parent
comes before its children in the file.

- `ListsAreTheTree` is stated by successors (`IsRing`): each child is linked, both
  ways, with the one `Behind` it in the file. `RingInitialised`, `RingAppended` and
  `RingRemoved` are the three operations of `list.h` as lemmas about such rings,
  with `RingFrame` for the lists a store does not touch. That the child behind another
  exists is the least element of a set of naturals (`LeastNatural`).
- `StackInv`: the activations of `cleanuptask` are a path down the tree, and each
  is about to look at the first child its list still holds; so it never follows
  a pointer into a process that was freed.
- `FormedProfileIsRead` is inductive with `PathInv`: in a formed profile the open
  processes are a path, so that closing one leaves `top` at its parent.

## 8. Not modelled

- `find_roots` (hw1): nine lines that follow `real_parent`. All it could race with
  (exit, reparenting, freeing of `task_struct`s) is kernel code outside the
  repository, and a model would be of an invented kernel.
- The system call tables, and kernel headers beyond
  the fields and predicates the elevator uses: declarations.
- hw3's test programs and the two system calls, which return a variable of Slob.
- In `elevator.c`: flush insertion (`blk_insert_flush` is outside the repository),
  `elv_dispatch_add_tail` and the red-black tree helpers (no scheduler here calls
  them), run-time power management, the sysfs text.
- In `list.h`: `list_del_init`, `list_move`, `list_move_tail`, `list_splice`, which
  nothing calls.
- The commented-out next-fit `slob_alloc` of `slob.c`.
