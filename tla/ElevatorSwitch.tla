--------------------------- MODULE ElevatorSwitch ---------------------------
(* Scheduler types and their modules, and the change of a queue's scheduler   *)
(* while requests flow: elevator.c's registration and switching with the init *)
(* and exit operations of clook-iosched.c and project1-iosched.c, which are   *)
(* the same code.  A caller of elevator_change goes through                   *)
(*                                                                            *)
(*   lookup -> [load -> again] -> found -> drain -> init -> register -> exit   *)
(*                              fail_register -> fail_init <-/                 *)
(*                                                                            *)
(* A queue's elevator is one of a pool of elevator_queue objects.  Requests   *)
(* are only counted: Elevator models what happens to each.                    *)
EXTENDS Integers, FiniteSets, Sequences

CONSTANTS
    Modules,        \* the scheduler modules
    BuiltIn,        \* those linked into the kernel: elevator_owner is NULL
    NameOf,         \* elevator_name of each module's type
    Queues,
    Callers,        \* contexts that call elevator_init, elevator_change
    Boot,           \* the names elevator_init tries: chosen, default, "noop"
    Slots,          \* where an elevator_queue can be allocated
    None,           \* NULL
    MaxIO           \* bound on a queue's requests with elevator data

ASSUME ModuleAssumption ==
    /\ BuiltIn \subseteq Modules /\ NameOf \in [Modules -> STRING]
    /\ \A m, n \in BuiltIn : NameOf[m] = NameOf[n] => m = n
\* noop cannot be configured out or made a module (hw4/Kconfig.iosched), so
\* elevator_init, which does not check its last elevator_get, finds it.
ASSUME BootAssumption ==
    Boot \in Seq(STRING) \ {<<>>} /\ \E m \in BuiltIn : NameOf[m] = Boot[Len(Boot)]
ASSUME PoolAssumption ==
    /\ None \notin Modules \cup Queues \cup Callers \cup Slots
    /\ MaxIO \in Nat /\ IsFiniteSet(Slots) /\ IsFiniteSet(Callers)

Names == {NameOf[m] : m \in Modules}

VARIABLES
    state,          \* of each module: "absent", "live" or "going"
    elv_list,       \* the modules whose type is registered
    refs,           \* the module reference counts
    elevator,       \* q->elevator
    eq,             \* the elevator_queue objects
    bypass,         \* the queues in bypass mode
    holder,         \* who holds q->sysfs_lock
    got, out,       \* requests with elevator data not yet added / dispatched
    call,           \* what each caller is doing
    oops            \* the kernel followed a pointer to nothing

types == <<state, elv_list, refs>>
io == <<got, out>>
vars == <<types, elevator, eq, bypass, holder, io, call, oops>>

NewElevator(m, q) == [type |-> m, queue |-> q, registered |-> FALSE, queued |-> 0]

FreeSlot == [type |-> None, queue |-> None, registered |-> FALSE, queued |-> 0]
Idle == [pc |-> "idle", q |-> None, name |-> None, tries |-> <<>>, type |-> None,
         old |-> None, was |-> FALSE]

-----------------------------------------------------------------------------
(* Types and modules *)

\* elevator_find.
Found(name) == {m \in elv_list : NameOf[m] = name}

\* try_module_get: what is linked in is always there.
CanGet(m) == m \in BuiltIn \/ state[m] = "live"

\* Mutation of ModuleGet: the type is used without holding its module.
ModuleGetNothing(m) == UNCHANGED refs

ModuleGet(m) == refs' = [refs EXCEPT ![m] = @ + 1]

\* Mutation of Put: the reference is kept.
PutNothing(m) == UNCHANGED refs

Put(m) == refs' = [refs EXCEPT ![m] = @ - 1]

\* A module is loaded and its init function registers its type; elv_register
\* allows no second type of the same name.
Load(m) ==
    /\ state[m] = "absent" /\ Found(NameOf[m]) = {}
    /\ state' = [state EXCEPT ![m] = "live"]
    /\ elv_list' = elv_list \cup {m}
    /\ UNCHANGED <<refs, elevator, eq, bypass, holder, io, call, oops>>

\* The module loader lets go of a module nobody refers to.
StartUnload(m) ==
    /\ m \notin BuiltIn /\ state[m] = "live" /\ refs[m] = 0
    /\ state' = [state EXCEPT ![m] = "going"]
    /\ UNCHANGED <<elv_list, refs, elevator, eq, bypass, holder, io, call, oops>>

\* Its exit function: elv_unregister.
Unload(m) ==
    /\ state[m] = "going"
    /\ state' = [state EXCEPT ![m] = "absent"]
    /\ elv_list' = elv_list \ {m}
    /\ UNCHANGED <<refs, elevator, eq, bypass, holder, io, call, oops>>

-----------------------------------------------------------------------------
(* Requests: those with elevator data (REQ_ELVPRIV) *)

\* q->elevator was freed: its slot is free or another queue's.
Dangling(q) == elevator[q] # None /\ eq[elevator[q]].queue # q

Queued(q) == IF elevator[q] = None \/ Dangling(q) THEN 0 ELSE eq[elevator[q]].queued

\* Mutation of MayHaveData: bypass mode is not looked at.
MayHaveDataAlways(q) == elevator[q] # None

\* get_request gives elevator data unless the queue is in bypass mode.
MayHaveData(q) == elevator[q] # None /\ q \notin bypass

GetRequest(q) ==
    /\ MayHaveData(q) /\ got[q] + out[q] + Queued(q) < MaxIO
    /\ got' = [got EXCEPT ![q] = @ + 1]
    /\ UNCHANGED <<types, elevator, eq, bypass, holder, out, call, oops>>

\* __elv_add_request: to the scheduler the queue has now.
AddRequest(q) ==
    /\ got[q] > 0 /\ elevator[q] # None
    /\ got' = [got EXCEPT ![q] = @ - 1]
    /\ eq' = [eq EXCEPT ![elevator[q]].queued = @ + 1]
    /\ UNCHANGED <<types, elevator, bypass, holder, out, call, oops>>

\* elevator_dispatch_fn, called for the driver or by a drain.
Dispatch(q) ==
    /\ Queued(q) > 0
    /\ eq' = [eq EXCEPT ![elevator[q]].queued = @ - 1]
    /\ out' = [out EXCEPT ![q] = @ + 1]
    /\ UNCHANGED <<types, elevator, bypass, holder, got, call, oops>>

Complete(q) ==
    /\ out[q] > 0
    /\ out' = [out EXCEPT ![q] = @ - 1]
    /\ UNCHANGED <<types, elevator, eq, bypass, holder, got, call, oops>>

\* A request without elevator data goes to the back of the dispatch list, after
\* elv_drain_elevator has called the dispatch_fn of the queue's elevator.
SubmitBypassing(q) ==
    /\ q \in bypass /\ elevator[q] # None /\ ~Dangling(q)
    /\ eq' = [eq EXCEPT ![elevator[q]].queued = 0]
    /\ out' = [out EXCEPT ![q] = @ + Queued(q)]
    /\ UNCHANGED <<types, elevator, bypass, holder, got, call, oops>>

\* ... which may have been freed.
SubmitToFreed(q) ==
    /\ q \in bypass /\ Dangling(q)
    /\ oops' = TRUE
    /\ UNCHANGED <<types, elevator, eq, bypass, holder, io, call>>

-----------------------------------------------------------------------------
(* elevator_init, elevator_change: steps of caller t *)

At(t, step) == call[t].pc = step

Goes(t, step) == call' = [call EXCEPT ![t].pc = step]

\* The call returns and sysfs_lock is released.
Return(t) ==
    /\ call' = [call EXCEPT ![t] = Idle]
    /\ holder' = [holder EXCEPT ![call[t].q] = None]

Locks(t, q) ==
    /\ call[t] = Idle /\ holder[q] = None
    /\ holder' = [holder EXCEPT ![q] = t]

\* elevator_get of name once: FALSE when no type of that name can be had.
Gets(t, name, step) ==
    \E m \in Found(name) :
        /\ CanGet(m) /\ ModuleGet(m)
        /\ call' = [call EXCEPT ![t].pc = step, ![t].type = m]

CannotGet(name) == \A m \in Found(name) : ~CanGet(m)

\* elevator_init: a queue that has no elevator yet.
StartInit(t, q) ==
    /\ elevator[q] = None
    /\ Locks(t, q)
    /\ call' = [call EXCEPT ![t] =
          [pc |-> "boot", q |-> q, name |-> None, tries |-> Boot, type |-> None,
           old |-> None, was |-> FALSE]]
    /\ UNCHANGED <<types, elevator, eq, bypass, io, oops>>

\* The chosen elevator, the default, noop: the first that is there.
InitTries(t) ==
    /\ At(t, "boot") /\ call[t].tries # <<>>
    /\ \/ Gets(t, call[t].tries[1], "boot_init")
       \/ /\ CannotGet(call[t].tries[1])
          /\ call' = [call EXCEPT ![t].tries = Tail(@)]
          /\ UNCHANGED refs
    /\ UNCHANGED <<state, elv_list, elevator, eq, bypass, holder, io, oops>>

\* elevator_init_fn succeeds: slot x is the queue's elevator.
InitFn(t, x) ==
    /\ eq[x] = FreeSlot
    /\ eq' = [eq EXCEPT ![x] = NewElevator(call[t].type, call[t].q)]
    /\ elevator' = [elevator EXCEPT ![call[t].q] = x]

BootInit(t) ==
    /\ At(t, "boot_init")
    /\ \E x \in Slots : InitFn(t, x)
    /\ Return(t)
    /\ UNCHANGED <<types, bypass, io, oops>>

\* It fails: elevator_alloc, or kobject_put of what it had made, puts the type;
\* elevator_init returns 0 all the same.
BootInitFails(t) ==
    /\ At(t, "boot_init")
    /\ Put(call[t].type)
    /\ Return(t)
    /\ UNCHANGED <<state, elv_list, elevator, eq, bypass, io, oops>>

\* elevator_change takes the lock; a queue without elevator is refused.
StartChange(t, q, name) ==
    /\ elevator[q] # None
    /\ Locks(t, q)
    /\ call' = [call EXCEPT ![t] =
          [pc |-> "lookup", q |-> q, name |-> name, tries |-> <<>>, type |-> None,
           old |-> elevator[q], was |-> eq[elevator[q]].registered]]
    /\ UNCHANGED <<types, elevator, eq, bypass, io, oops>>

\* elevator_get: found, or the list's lock is dropped to load the module.
Lookup(t) ==
    /\ At(t, "lookup")
    /\ \/ Gets(t, call[t].name, "found") /\ UNCHANGED holder
       \/ Found(call[t].name) = {} /\ Goes(t, "load") /\ UNCHANGED <<refs, holder>>
       \/ /\ Found(call[t].name) # {} /\ CannotGet(call[t].name)
          /\ Return(t) /\ UNCHANGED refs
    /\ UNCHANGED <<state, elv_list, elevator, eq, bypass, io, oops>>

\* request_module has returned, whatever came of it: the list is searched again.
Again(t) ==
    /\ At(t, "load")
    /\ \/ Gets(t, call[t].name, "found") /\ UNCHANGED holder
       \/ CannotGet(call[t].name) /\ Return(t) /\ UNCHANGED refs
    /\ UNCHANGED <<state, elv_list, elevator, eq, bypass, io, oops>>

InUse(q) == eq[elevator[q]].type

\* The queue has this scheduler already.
SameType(t) ==
    /\ At(t, "found") /\ NameOf[call[t].type] = NameOf[InUse(call[t].q)]
    /\ Put(call[t].type)
    /\ Return(t)
    /\ UNCHANGED <<state, elv_list, elevator, eq, bypass, io, oops>>

\* elevator_switch: blk_queue_bypass_start, which then waits for the drain.
StartBypass(t) ==
    /\ At(t, "found") /\ NameOf[call[t].type] # NameOf[InUse(call[t].q)]
    /\ bypass' = bypass \cup {call[t].q}
    /\ Goes(t, "drain")
    /\ UNCHANGED <<types, elevator, eq, holder, io, oops>>

\* Mutation of Drained: requests not yet added to the scheduler are forgotten.
DrainedScheduler(q) == Queued(q) + out[q] = 0

Drained(q) == got[q] + Queued(q) + out[q] = 0

\* All requests with elevator data are done; the old elevator is unregistered.
EndDrain(t) ==
    LET q == call[t].q IN
    /\ At(t, "drain") /\ Drained(q)
    /\ eq' = [eq EXCEPT ![elevator[q]].registered = FALSE]
    /\ Goes(t, "init")
    /\ UNCHANGED <<types, elevator, bypass, holder, io, oops>>

SwitchInit(t) ==
    /\ At(t, "init")
    /\ \E x \in Slots : InitFn(t, x)
    /\ Goes(t, IF call[t].was THEN "register" ELSE "exit")
    /\ UNCHANGED <<types, bypass, holder, io, oops>>

SwitchInitFails(t) ==
    /\ At(t, "init")
    /\ Put(call[t].type)
    /\ Goes(t, "fail_init")
    /\ UNCHANGED <<state, elv_list, elevator, eq, bypass, holder, io, oops>>

Register(t) ==
    /\ At(t, "register")
    /\ eq' = [eq EXCEPT ![elevator[call[t].q]].registered = TRUE]
    /\ Goes(t, "exit")
    /\ UNCHANGED <<types, elevator, bypass, holder, io, oops>>

\* kobject_add fails.
RegisterFails(t) ==
    /\ At(t, "register")
    /\ Goes(t, "fail_register")
    /\ UNCHANGED <<types, elevator, eq, bypass, holder, io, oops>>

\* elevator_exit of slot x: exit_fn insists that nothing is queued; the last put
\* of the kobject puts the type and frees the slot.
Exit(x) ==
    /\ Put(eq[x].type)
    /\ eq' = [eq EXCEPT ![x] = FreeSlot]

ExitOld(t) ==
    /\ At(t, "exit")
    /\ Exit(call[t].old)
    /\ bypass' = bypass \ {call[t].q}
    /\ Return(t)
    /\ UNCHANGED <<state, elv_list, elevator, io, oops>>

\* fail_register: the new elevator exits while the queue still points to it.
FailRegister(t) ==
    /\ At(t, "fail_register")
    /\ Exit(elevator[call[t].q])
    /\ Goes(t, "fail_init")
    /\ UNCHANGED <<state, elv_list, elevator, bypass, holder, io, oops>>

\* Mutation of Restore: the queue's elevator is left as it is.
RestoreNothing(t) == UNCHANGED elevator

Restore(t) == elevator' = [elevator EXCEPT ![call[t].q] = call[t].old]

\* fail_init: the old elevator is put back and registered; whether that works,
\* and whether it was registered before, is not asked.
FailInit(t) ==
    /\ At(t, "fail_init")
    /\ Restore(t)
    /\ \E ok \in BOOLEAN : eq' = [eq EXCEPT ![call[t].old].registered = ok]
    /\ bypass' = bypass \ {call[t].q}
    /\ Return(t)
    /\ UNCHANGED <<types, io, oops>>

\* elv_register_queue and elv_unregister_queue, when the disk comes and goes.
RegisterQueue(q) ==
    /\ holder[q] = None /\ elevator[q] # None /\ ~eq[elevator[q]].registered
    /\ eq' = [eq EXCEPT ![elevator[q]].registered = TRUE]
    /\ UNCHANGED <<types, elevator, bypass, holder, io, call, oops>>

UnregisterQueue(q) ==
    /\ holder[q] = None /\ elevator[q] # None /\ eq[elevator[q]].registered
    /\ eq' = [eq EXCEPT ![elevator[q]].registered = FALSE]
    /\ UNCHANGED <<types, elevator, bypass, holder, io, call, oops>>

\* elevator_exit when the drained queue itself goes away.
ReleaseQueue(q) ==
    /\ holder[q] = None /\ elevator[q] # None /\ ~eq[elevator[q]].registered /\ Drained(q)
    /\ Exit(elevator[q])
    /\ elevator' = [elevator EXCEPT ![q] = None]
    /\ UNCHANGED <<state, elv_list, bypass, holder, io, call, oops>>

-----------------------------------------------------------------------------
Init ==
    /\ state = [m \in Modules |-> IF m \in BuiltIn THEN "live" ELSE "absent"]
    /\ elv_list = BuiltIn /\ refs = [m \in Modules |-> 0]
    /\ elevator = [q \in Queues |-> None] /\ eq = [x \in Slots |-> FreeSlot]
    /\ bypass = {} /\ holder = [q \in Queues |-> None]
    /\ got = [q \in Queues |-> 0] /\ out = [q \in Queues |-> 0]
    /\ call = [t \in Callers |-> Idle]
    /\ oops = FALSE

Proceed(t) ==
    \/ InitTries(t) \/ BootInit(t) \/ BootInitFails(t)
    \/ Lookup(t) \/ Again(t) \/ SameType(t) \/ StartBypass(t) \/ EndDrain(t)
    \/ SwitchInit(t) \/ SwitchInitFails(t) \/ Register(t) \/ RegisterFails(t)
    \/ ExitOld(t) \/ FailRegister(t) \/ FailInit(t)

Serve(q) == AddRequest(q) \/ Dispatch(q) \/ Complete(q)

Next ==
    /\ ~oops
    /\ \/ \E m \in Modules : Load(m) \/ StartUnload(m) \/ Unload(m)
       \/ \E q \in Queues : \/ GetRequest(q) \/ Serve(q)
                            \/ SubmitBypassing(q) \/ SubmitToFreed(q)
                            \/ RegisterQueue(q) \/ UnregisterQueue(q) \/ ReleaseQueue(q)
       \/ \E t \in Callers : \/ Proceed(t)
                             \/ \E q \in Queues : StartInit(t, q)
                             \/ \E q \in Queues, n \in Names : StartChange(t, q, n)

Stopped == oops /\ UNCHANGED vars

Spec == Init /\ [][Next \/ Stopped]_vars

\* A caller that holds the lock goes on, and the requests a queue has are added,
\* dispatched and completed: each is a step of a running context or of the driver.
FairSpec ==
    /\ Spec
    /\ \A t \in Callers : WF_vars(~oops /\ Proceed(t))
    /\ \A q \in Queues : /\ WF_vars(~oops /\ AddRequest(q))
                         /\ WF_vars(~oops /\ Dispatch(q))
                         /\ WF_vars(~oops /\ Complete(q))

-----------------------------------------------------------------------------
(* Safety *)

Steps == {"idle", "boot", "boot_init", "lookup", "load", "found", "drain", "init", "register",
          "exit", "fail_register", "fail_init"}

\* The fields of a call and of a slot.
Call == [pc: Steps, q: Queues \cup {None}, name: STRING \cup {None}, tries: Seq(STRING),
         type: Modules \cup {None}, old: Slots \cup {None}, was: BOOLEAN]
Elevator == [type: Modules \cup {None}, queue: Queues \cup {None}, registered: BOOLEAN,
             queued: 0..MaxIO]

\* Every variable keeps its type.
TypeOK ==
    /\ state \in [Modules -> {"absent", "live", "going"}] /\ elv_list \subseteq Modules
    /\ refs \in [Modules -> Nat]
    /\ elevator \in [Queues -> Slots \cup {None}]
    /\ eq \in [Slots -> Elevator]
    /\ bypass \subseteq Queues /\ holder \in [Queues -> Callers \cup {None}]
    /\ got \in [Queues -> 0..MaxIO] /\ out \in [Queues -> 0..MaxIO]
    /\ call \in [Callers -> Call] /\ oops \in BOOLEAN

HoldsType(t) == call[t].pc \in {"boot_init", "found", "drain", "init"}

\* Who refers to a type: the elevators made of it, the callers about to make one.
ElevatorsOf(m) == {x \in Slots : eq[x].type = m}
UsersOf(m) == {t \in Callers : HoldsType(t) /\ call[t].type = m}

\* A module's reference count is the number of elevators of its type and of
\* callers about to use it, through every error path; and a type in use stays
\* registered and its module loaded, whatever the module loader does.
TypesHeld ==
    /\ \A m \in Modules : refs[m] = Cardinality(ElevatorsOf(m)) + Cardinality(UsersOf(m))
    /\ \A m \in Modules : refs[m] > 0 => m \in elv_list /\ state[m] = "live"

\* BUG_ON(!list_empty(&nd->queue)): an elevator that is not the one its queue
\* uses has no request, and none is on its way to it.
QuiescedIsEmpty ==
    /\ \A x \in Slots : eq[x].queued > 0 => elevator[eq[x].queue] = x
    /\ \A t \in Callers : call[t].pc \in {"init", "register", "exit", "fail_register", "fail_init"}
          => Drained(call[t].q)

\* A change that failed leaves the queue with the elevator it had, and every
\* other slot of the queue freed ("a chance of going back to the old one").
ChangeKeepsOneElevator ==
    \A q \in Queues : holder[q] = None =>
        /\ {x \in Slots : eq[x].queue = q} = {elevator[q]} \ {None}
        /\ q \notin bypass

-----------------------------------------------------------------------------
(* The inductive invariant the proofs rest on *)

\* A call that is under way holds the sysfs_lock of its queue, and only it does.
LocksInv ==
    /\ \A t \in Callers : IF At(t, "idle") THEN call[t] = Idle
                                           ELSE call[t].q \in Queues /\ holder[call[t].q] = t
    /\ \A q \in Queues : holder[q] # None => call[holder[q]].q = q
    /\ \A t \in Callers : HoldsType(t) => call[t].type \in Modules

\* A slot is free as a whole or holds an elevator of some type for some queue.
SlotsInv ==
    \A x \in Slots : \/ eq[x] = FreeSlot
                     \/ eq[x].type \in Modules /\ eq[x].queue \in Queues

\* What is registered and what is loaded.
ModulesInv ==
    \A m \in Modules : /\ m \in elv_list <=> state[m] # "absent"
                       /\ m \in BuiltIn => state[m] = "live"

\* The step of the call that holds the lock of a queue, and the elevator it found.
Step(q) == IF holder[q] = None THEN "idle" ELSE call[holder[q]].pc
Old(q) == call[holder[q]].old

SlotsOf(q) == {x \in Slots : eq[x].queue = q}

\* The elevators of a queue as a call goes on: one or none at rest, the old one
\* until the new one is made, both until one exits, and the old one again after a
\* failure, when q->elevator may name the one that was just freed.
StageInv(q) ==
    /\ Step(q) = "idle" => SlotsOf(q) = {elevator[q]} \ {None}
    /\ Step(q) \in {"boot", "boot_init"} => elevator[q] = None /\ SlotsOf(q) = {}
    /\ Step(q) \in {"lookup", "load", "found", "drain", "init"} =>
          Old(q) \in Slots /\ elevator[q] = Old(q) /\ SlotsOf(q) = {Old(q)}
    /\ Step(q) \in {"register", "exit", "fail_register"} =>
          /\ Old(q) \in Slots /\ elevator[q] \in Slots \ {Old(q)}
          /\ SlotsOf(q) = {Old(q), elevator[q]}
    /\ Step(q) = "fail_init" =>
          Old(q) \in Slots /\ elevator[q] \in Slots /\ SlotsOf(q) = {Old(q)}

Quiesced == {"init", "register", "exit", "fail_register", "fail_init"}

\* Bypass mode lasts from the drain to the end of the call; once the drain is over
\* no request has elevator data; only the queue's own elevator holds requests.
FlowInv(q) ==
    /\ q \in bypass <=> Step(q) \in {"drain"} \cup Quiesced
    /\ Step(q) \in Quiesced =>
          got[q] = 0 /\ out[q] = 0 /\ \A x \in SlotsOf(q) : eq[x].queued = 0
    /\ \A x \in SlotsOf(q) : x # elevator[q] => eq[x].queued = 0
    /\ elevator[q] = None => got[q] = 0 /\ out[q] = 0
    /\ got[q] + out[q] + Queued(q) <= MaxIO

\* Inductive, and stronger than each safety property above.
IInv ==
    /\ TypeOK /\ LocksInv /\ SlotsInv /\ ModulesInv /\ TypesHeld
    /\ \A q \in Queues : StageInv(q) /\ FlowInv(q)

-----------------------------------------------------------------------------
(* Liveness *)

\* A change that holds sysfs_lock ends: the drain comes to an end because no new
\* request is given elevator data.
CallEnds == \A t \in Callers : call[t] # Idle ~> (call[t] = Idle \/ oops)

-----------------------------------------------------------------------------
(* What a comment says, and the code does not do *)

\* "Block layer doesn't call into a quiesced elevator" (elevator.c:920): least of
\* all into one that was freed.
NoCallIntoFreed == ~oops
=============================================================================
