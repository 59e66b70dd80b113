------------------------ MODULE ElevatorSwitchProofs ------------------------
(* What holds of ElevatorSwitch for every set of modules, queues, callers and  *)
(* slots: references balance, changes leave one elevator, quiesced ones are    *)
(* empty.                                                                      *)
EXTENDS ElevatorSwitch, FiniteSetTheorems, TLAPS

Holding == {"boot_init", "found", "drain", "init"}

-----------------------------------------------------------------------------
(* Locks: what a caller's step does to the calls, seen from the queues *)

\* A call under way has its queue to itself.
LEMMA CallerFacts ==
    ASSUME IInv, NEW t \in Callers, ~At(t, "idle"), NEW q, q = call[t].q
    PROVE  /\ q \in Queues /\ holder[q] = t
           /\ \A p \in Queues \ {q} : holder[p] # t
           /\ Step(q) = call[t].pc /\ Old(q) = call[t].old
<1>1. q \in Queues /\ holder[q] = t
    BY DEF IInv, LocksInv
<1>2. t # None
    BY PoolAssumption
<1>3. \A p \in Queues \ {q} : holder[p] # t
    BY <1>2 DEF IInv, LocksInv
<1> QED
    BY <1>1, <1>2, <1>3 DEF Step, Old

\* The others' queues do not see a step of t, and q sees its new call.
OthersCalls(q) ==
    \A p \in Queues \ {q} : /\ holder'[p] = holder[p] /\ Step(p)' = Step(p)
                            /\ holder[p] # None => Old(p)' = Old(p)

\* t refers to the type of its new call c, if c is about to use one.
UsersFollow(t, c) ==
    \A m \in Modules :
        UsersOf(m)' = IF c.pc \in Holding /\ c.type = m THEN UsersOf(m) \cup {t}
                                                          ELSE UsersOf(m) \ {t}

\* A call goes on to another step with its queue and the elevator it found.
LEMMA Advances ==
    ASSUME IInv, NEW t \in Callers, ~At(t, "idle"), NEW q, q = call[t].q,
           NEW c \in Call, c.pc # "idle", c.q = q, c.old = call[t].old,
           c.pc \in Holding => c.type \in Modules,
           call' = [call EXCEPT ![t] = c], holder' = holder
    PROVE  /\ LocksInv' /\ call' \in [Callers -> Call]
           /\ Step(q)' = c.pc /\ Old(q)' = Old(q) /\ OthersCalls(q)
           /\ UsersFollow(t, c)
<1>1. /\ call \in [Callers -> Call] /\ holder \in [Queues -> Callers \cup {None}]
      /\ t # None
    BY PoolAssumption DEF IInv, TypeOK
<1>2. call' \in [Callers -> Call] /\ call'[t] = c /\ \A u \in Callers \ {t} : call'[u] = call[u]
    BY <1>1
<1>3. q \in Queues /\ holder[q] = t /\ Old(q) = call[t].old
      /\ \A p \in Queues \ {q} : holder[p] # t
    BY CallerFacts
<1>4. LocksInv'
    BY <1>2, <1>3, <1>1 DEF IInv, LocksInv, At, HoldsType, Holding
<1>5. Step(q)' = c.pc /\ Old(q)' = Old(q)
    BY <1>2, <1>3, <1>1 DEF Step, Old
<1>6. OthersCalls(q)
    BY <1>2, <1>3, <1>1 DEF Step, Old, OthersCalls
<1>7. UsersFollow(t, c)
    BY <1>2 DEF UsersOf, HoldsType, Holding, UsersFollow
<1> QED
    BY <1>2, <1>4, <1>5, <1>6, <1>7

\* A call returns and releases its queue.
LEMMA Returns ==
    ASSUME IInv, NEW t \in Callers, ~At(t, "idle"), NEW q, q = call[t].q, Return(t)
    PROVE  /\ LocksInv' /\ call' \in [Callers -> Call]
           /\ holder' \in [Queues -> Callers \cup {None}]
           /\ Step(q)' = "idle" /\ OthersCalls(q)
           /\ UsersFollow(t, Idle)
<1>1. /\ call \in [Callers -> Call] /\ holder \in [Queues -> Callers \cup {None}]
      /\ t # None
    BY PoolAssumption DEF IInv, TypeOK
<1>2. Idle \in Call /\ Idle.pc = "idle"
    BY DEF Idle, Call, Steps
<1>3. /\ call' \in [Callers -> Call] /\ call'[t] = Idle
      /\ \A u \in Callers \ {t} : call'[u] = call[u]
    BY <1>1, <1>2 DEF Return
<1>4. q \in Queues /\ holder[q] = t /\ \A p \in Queues \ {q} : holder[p] # t
    BY CallerFacts
<1>5. /\ holder' \in [Queues -> Callers \cup {None}] /\ holder'[q] = None
      /\ \A p \in Queues \ {q} : holder'[p] = holder[p]
    BY <1>1, <1>4 DEF Return
<1>6. LocksInv'
    BY <1>1, <1>2, <1>3, <1>4, <1>5 DEF IInv, LocksInv, At, HoldsType, Holding
<1>7. Step(q)' = "idle" /\ OthersCalls(q)
    BY <1>1, <1>3, <1>4, <1>5 DEF Step, Old, OthersCalls
<1>8. UsersFollow(t, Idle)
    BY <1>2, <1>3 DEF UsersOf, HoldsType, Holding, UsersFollow
<1> QED
    BY <1>3, <1>5, <1>6, <1>7, <1>8

\* A call begins and takes its queue's lock.
LEMMA Begins ==
    ASSUME IInv, NEW t \in Callers, NEW q \in Queues, Locks(t, q),
           NEW c \in Call, c.pc \notin Holding \cup {"idle"}, c.q = q,
           call' = [call EXCEPT ![t] = c]
    PROVE  /\ LocksInv' /\ call' \in [Callers -> Call]
           /\ holder' \in [Queues -> Callers \cup {None}]
           /\ Step(q) = "idle" /\ Step(q)' = c.pc /\ Old(q)' = c.old /\ OthersCalls(q)
           /\ UsersFollow(t, c)
<1>1. /\ call \in [Callers -> Call] /\ holder \in [Queues -> Callers \cup {None}]
      /\ t # None /\ Idle.pc = "idle" /\ None \notin Callers
    BY PoolAssumption DEF IInv, TypeOK, Idle
<1>2. /\ call' \in [Callers -> Call] /\ call'[t] = c
      /\ \A u \in Callers \ {t} : call'[u] = call[u]
    BY <1>1
<1>3. /\ holder' \in [Queues -> Callers \cup {None}] /\ holder'[q] = t
      /\ \A p \in Queues \ {q} : holder'[p] = holder[p]
      /\ holder[q] = None /\ call[t] = Idle
    BY <1>1 DEF Locks
<1>4. \A p \in Queues : holder[p] # t
    BY <1>1, <1>3, PoolAssumption DEF IInv, LocksInv, Idle
<1>5. LocksInv'
    BY <1>1, <1>2, <1>3, <1>4 DEF IInv, LocksInv, At, HoldsType, Holding
<1>6. Step(q) = "idle" /\ Step(q)' = c.pc /\ Old(q)' = c.old /\ OthersCalls(q)
    BY <1>1, <1>2, <1>3, <1>4 DEF Step, Old, OthersCalls
<1>7. UsersFollow(t, c)
    BY <1>2 DEF UsersOf, HoldsType, Holding, UsersFollow
<1> QED
    BY <1>2, <1>3, <1>5, <1>6, <1>7

-----------------------------------------------------------------------------
(* References *)

\* Only finitely many elevators and callers refer to a type.
LEMMA RefsFinite ==
    ASSUME NEW m
    PROVE  /\ IsFiniteSet(ElevatorsOf(m)) /\ Cardinality(ElevatorsOf(m)) \in Nat
           /\ IsFiniteSet(UsersOf(m)) /\ Cardinality(UsersOf(m)) \in Nat
<1>1. IsFiniteSet(ElevatorsOf(m)) /\ IsFiniteSet(UsersOf(m))
    BY PoolAssumption, FS_Subset DEF ElevatorsOf, UsersOf
<1> QED
    BY <1>1, FS_CardinalityType

SameElevators == \A m \in Modules : ElevatorsOf(m)' = ElevatorsOf(m)

\* Nothing refers to a type more or less than before.
LEMMA RefsStay ==
    ASSUME IInv, UNCHANGED <<state, elv_list, refs>>, SameElevators,
           \A m \in Modules : UsersOf(m)' = UsersOf(m)
    PROVE  TypesHeld'
BY DEF IInv, TypesHeld, SameElevators

\* The counts and the load state of one type, once what refers to it is known.
LEMMA RefsBalance ==
    ASSUME IInv, refs' \in [Modules -> Nat], UNCHANGED <<state, elv_list>>,
           \A n \in Modules : /\ refs'[n] = Cardinality(ElevatorsOf(n))' + Cardinality(UsersOf(n))'
                              /\ refs'[n] > 0 /\ refs[n] = 0 => n \in elv_list /\ state[n] = "live"
    PROVE  TypesHeld'
<1>1. refs \in [Modules -> Nat]
    BY DEF IInv, TypeOK
<1> QED
    BY <1>1 DEF IInv, TypesHeld

\* A caller takes a reference to a type that is there.
LEMMA RefTaken ==
    ASSUME IInv, NEW t \in Callers, NEW m \in Modules, ModuleGet(m), m \in elv_list, CanGet(m),
           NEW c, c.pc \in Holding, c.type = m, UsersFollow(t, c), ~HoldsType(t),
           UNCHANGED <<state, elv_list>>, SameElevators
    PROVE  TypesHeld' /\ refs' \in [Modules -> Nat]
<1>1. /\ refs \in [Modules -> Nat]
      /\ \A n \in Modules : refs[n] = Cardinality(ElevatorsOf(n)) + Cardinality(UsersOf(n))
    BY DEF IInv, TypeOK, TypesHeld
<1>2. refs' \in [Modules -> Nat] /\ \A n \in Modules : refs'[n] = IF n = m THEN refs[n] + 1 ELSE refs[n]
    BY <1>1 DEF ModuleGet
<1>3. state[m] = "live"
    BY DEF CanGet, IInv, ModulesInv
<1>4. ASSUME NEW n \in Modules
      PROVE  refs'[n] = Cardinality(ElevatorsOf(n))' + Cardinality(UsersOf(n))'
  <2>1. t \notin UsersOf(n) /\ ElevatorsOf(n)' = ElevatorsOf(n)
      BY DEF UsersOf, SameElevators
  <2>2. UsersOf(n)' = IF n = m THEN UsersOf(n) \cup {t} ELSE UsersOf(n)
      BY <2>1 DEF UsersFollow
  <2>3. Cardinality(UsersOf(n))' = IF n = m THEN Cardinality(UsersOf(n)) + 1
                                            ELSE Cardinality(UsersOf(n))
      BY <2>1, <2>2, RefsFinite, FS_AddElement
  <2> QED
      BY <1>1, <1>2, <2>1, <2>3, RefsFinite
<1> QED
    BY <1>1, <1>2, <1>3, <1>4, RefsBalance

\* A caller gives its reference back.
LEMMA RefDropped ==
    ASSUME IInv, NEW t \in Callers, HoldsType(t), NEW m, m = call[t].type, Put(m),
           NEW c, c.pc \notin Holding, UsersFollow(t, c),
           UNCHANGED <<state, elv_list>>, SameElevators
    PROVE  TypesHeld' /\ refs' \in [Modules -> Nat]
<1>0. m \in Modules
    BY DEF IInv, LocksInv
<1>1. /\ refs \in [Modules -> Nat]
      /\ \A n \in Modules : refs[n] = Cardinality(ElevatorsOf(n)) + Cardinality(UsersOf(n))
    BY DEF IInv, TypeOK, TypesHeld
<1>2. ASSUME NEW n \in Modules
      PROVE  /\ ElevatorsOf(n)' = ElevatorsOf(n)
             /\ Cardinality(UsersOf(n))' \in Nat
             /\ Cardinality(UsersOf(n))' = IF n = m THEN Cardinality(UsersOf(n)) - 1
                                                   ELSE Cardinality(UsersOf(n))
  <2>1. t \in UsersOf(n) <=> n = m
      BY DEF UsersOf
  <2>2. UsersOf(n)' = UsersOf(n) \ {t}
      BY DEF UsersFollow
  <2>3. IsFiniteSet(UsersOf(n)) /\ IsFiniteSet(UsersOf(n) \ {t})
      BY RefsFinite, FS_RemoveElement
  <2>4. Cardinality(UsersOf(n))' = IF n = m THEN Cardinality(UsersOf(n)) - 1
                                            ELSE Cardinality(UsersOf(n))
      BY <2>1, <2>2, <2>3, FS_RemoveElement
  <2>5. Cardinality(UsersOf(n))' \in Nat
      BY <2>2, <2>3, FS_CardinalityType
  <2> QED
      BY <2>4, <2>5 DEF SameElevators
<1>3. refs[m] - 1 \in Nat
    BY <1>0, <1>1, <1>2, RefsFinite
<1>4. refs' \in [Modules -> Nat] /\ \A n \in Modules : refs'[n] = IF n = m THEN refs[n] - 1 ELSE refs[n]
    BY <1>0, <1>1, <1>3 DEF Put
<1>5. ASSUME NEW n \in Modules
      PROVE  refs'[n] = Cardinality(ElevatorsOf(n))' + Cardinality(UsersOf(n))'
    BY <1>1, <1>2, <1>4, RefsFinite
<1> QED
    BY <1>1, <1>3, <1>4, <1>5, RefsBalance

\* A caller's reference becomes that of the elevator it makes in slot x.
LEMMA RefMoved ==
    ASSUME IInv, NEW t \in Callers, HoldsType(t), NEW m, m = call[t].type, refs' = refs,
           NEW c, c.pc \notin Holding, UsersFollow(t, c), UNCHANGED <<state, elv_list>>,
           NEW x \in Slots, eq[x] = FreeSlot, NEW q,
           eq' = [eq EXCEPT ![x] = NewElevator(m, q)]
    PROVE  TypesHeld'
<1>0. m \in Modules /\ eq[x].type \notin Modules /\ eq'[x].type = m
      /\ \A y \in Slots \ {x} : eq'[y] = eq[y]
    BY PoolAssumption DEF IInv, LocksInv, TypeOK, FreeSlot, NewElevator
<1>1. /\ refs \in [Modules -> Nat]
      /\ \A n \in Modules : refs[n] = Cardinality(ElevatorsOf(n)) + Cardinality(UsersOf(n))
    BY DEF IInv, TypeOK, TypesHeld
<1>2. ASSUME NEW n \in Modules
      PROVE  refs'[n] = Cardinality(ElevatorsOf(n))' + Cardinality(UsersOf(n))'
  <2>1. (t \in UsersOf(n) <=> n = m) /\ x \notin ElevatorsOf(n)
      BY <1>0 DEF UsersOf, ElevatorsOf
  <2>2. UsersOf(n)' = UsersOf(n) \ {t}
      BY DEF UsersFollow
  <2>3. ElevatorsOf(n)' = IF n = m THEN ElevatorsOf(n) \cup {x} ELSE ElevatorsOf(n)
      BY <1>0 DEF ElevatorsOf
  <2>4. Cardinality(UsersOf(n))' = IF n = m THEN Cardinality(UsersOf(n)) - 1
                                            ELSE Cardinality(UsersOf(n))
      BY <2>1, <2>2, RefsFinite, FS_RemoveElement
  <2>5. Cardinality(ElevatorsOf(n))' = IF n = m THEN Cardinality(ElevatorsOf(n)) + 1
                                               ELSE Cardinality(ElevatorsOf(n))
      BY <2>1, <2>3, RefsFinite, FS_AddElement
  <2> QED
      BY <1>1, <2>4, <2>5, RefsFinite
<1> QED
    BY <1>1, <1>2, RefsBalance

\* An elevator is freed and gives its type's reference back.
LEMMA RefFreed ==
    ASSUME IInv, NEW x \in Slots, Exit(x), eq[x].type \in Modules,
           \A m \in Modules : UsersOf(m)' = UsersOf(m),
           UNCHANGED <<state, elv_list>>
    PROVE  TypesHeld' /\ refs' \in [Modules -> Nat]
<1>0. PICK m \in Modules : m = eq[x].type
    OBVIOUS
<1>1. /\ refs \in [Modules -> Nat]
      /\ \A n \in Modules : refs[n] = Cardinality(ElevatorsOf(n)) + Cardinality(UsersOf(n))
      /\ eq'[x].type \notin Modules /\ \A y \in Slots \ {x} : eq'[y] = eq[y]
    BY PoolAssumption DEF IInv, TypeOK, TypesHeld, Exit, FreeSlot
<1>2. ASSUME NEW n \in Modules
      PROVE  /\ UsersOf(n)' = UsersOf(n)
             /\ Cardinality(ElevatorsOf(n))' \in Nat
             /\ Cardinality(ElevatorsOf(n))' = IF n = m THEN Cardinality(ElevatorsOf(n)) - 1
                                                       ELSE Cardinality(ElevatorsOf(n))
  <2>1. x \in ElevatorsOf(n) <=> n = m
      BY <1>0 DEF ElevatorsOf
  <2>2. ElevatorsOf(n)' = ElevatorsOf(n) \ {x}
      BY <1>1 DEF ElevatorsOf
  <2>3. IsFiniteSet(ElevatorsOf(n)) /\ IsFiniteSet(ElevatorsOf(n) \ {x})
      BY RefsFinite, FS_RemoveElement
  <2>4. Cardinality(ElevatorsOf(n))' = IF n = m THEN Cardinality(ElevatorsOf(n)) - 1
                                               ELSE Cardinality(ElevatorsOf(n))
      BY <2>1, <2>2, <2>3, FS_RemoveElement
  <2>5. Cardinality(ElevatorsOf(n))' \in Nat
      BY <2>2, <2>3, FS_CardinalityType
  <2> QED
      BY <2>4, <2>5
<1>3. refs[m] - 1 \in Nat
    BY <1>1, <1>2, RefsFinite
<1>4. refs' \in [Modules -> Nat] /\ \A n \in Modules : refs'[n] = IF n = m THEN refs[n] - 1 ELSE refs[n]
    BY <1>0, <1>1, <1>3 DEF Put, Exit
<1>5. ASSUME NEW n \in Modules
      PROVE  refs'[n] = Cardinality(ElevatorsOf(n))' + Cardinality(UsersOf(n))'
    BY <1>1, <1>2, <1>4, RefsFinite
<1> QED
    BY <1>1, <1>3, <1>4, <1>5, RefsBalance

-----------------------------------------------------------------------------
(* Queues: a step changes one and leaves the others as they are *)

\* Slot x is as it was for a queue other than q.
OthersSlots(q) ==
    \A x \in Slots : \/ eq'[x].queue = eq[x].queue /\ eq'[x].queued = eq[x].queued
                     \/ eq[x].queue \in {q, None} /\ eq'[x].queue \in {q, None}

OthersData(q) ==
    /\ \A p \in Queues \ {q} : /\ elevator'[p] = elevator[p]
                               /\ got'[p] = got[p] /\ out'[p] = out[p]
                               /\ p \in bypass' <=> p \in bypass
    /\ OthersSlots(q)

LEMMA OtherQueue ==
    ASSUME IInv, NEW q \in Queues, OthersCalls(q), OthersData(q), NEW p \in Queues \ {q}
    PROVE  StageInv(p)' /\ FlowInv(p)'
<1>1. StageInv(p) /\ FlowInv(p) /\ p # None /\ elevator[p] \in Slots \cup {None}
    BY PoolAssumption DEF IInv, TypeOK
<1>2. /\ holder'[p] = holder[p] /\ Step(p)' = Step(p)
      /\ holder[p] # None => Old(p)' = Old(p)
      /\ elevator'[p] = elevator[p] /\ got'[p] = got[p] /\ out'[p] = out[p]
      /\ p \in bypass' <=> p \in bypass
    BY DEF OthersCalls, OthersData
<1>3. \A x \in Slots : /\ eq'[x].queue = p <=> eq[x].queue = p
                       /\ eq[x].queue = p => eq'[x].queued = eq[x].queued
    BY <1>1 DEF OthersData, OthersSlots
<1>4. SlotsOf(p)' = SlotsOf(p)
    BY <1>3 DEF SlotsOf
<1>5. Queued(p)' = Queued(p)
    BY <1>1, <1>2, <1>3 DEF Queued, Dangling
<1>6. Step(p) # "idle" => holder[p] # None
    BY DEF Step
<1>7. StageInv(p)'
    BY <1>1, <1>2, <1>4, <1>6 DEF StageInv
<1>8. FlowInv(p)'
  <2>1. \A x \in SlotsOf(p) : eq'[x].queued = eq[x].queued
      BY <1>3 DEF SlotsOf
  <2> QED
      BY <1>1, <1>2, <1>4, <1>5, <2>1 DEF FlowInv
<1> QED
    BY <1>7, <1>8

LEMMA OneQueue ==
    ASSUME IInv, NEW q \in Queues, OthersCalls(q), OthersData(q),
           TypeOK', LocksInv', SlotsInv', ModulesInv', TypesHeld', StageInv(q)', FlowInv(q)'
    PROVE  IInv'
BY OtherQueue DEF IInv

\* Steps that leave the calls alone.
LEMMA NoCall ==
    ASSUME IInv, UNCHANGED <<holder, call>>, NEW q \in Queues
    PROVE  /\ LocksInv' /\ OthersCalls(q) /\ Step(q)' = Step(q) /\ Old(q)' = Old(q)
           /\ \A m \in Modules : UsersOf(m)' = UsersOf(m)
<1>1. LocksInv'
    BY DEF IInv, LocksInv, At, HoldsType
<1>2. \A p \in Queues : Step(p)' = Step(p) /\ Old(p)' = Old(p)
    BY DEF Step, Old
<1>3. \A m \in Modules : UsersOf(m)' = UsersOf(m)
    BY DEF UsersOf, HoldsType
<1> QED
    BY <1>1, <1>2, <1>3 DEF OthersCalls

\* A queue follows its elevator to an object of its own, but for a moment in fail_init.
LEMMA OwnElevator ==
    ASSUME IInv, NEW q \in Queues, elevator[q] # None, Step(q) # "fail_init"
    PROVE  /\ elevator[q] \in Slots /\ eq[elevator[q]].queue = q
           /\ Queued(q) = eq[elevator[q]].queued /\ eq[elevator[q]] # FreeSlot
           /\ elevator[q] \in SlotsOf(q) /\ eq[elevator[q]].type \in Modules
<1>1. StageInv(q) /\ elevator[q] \in Slots /\ q # None
    BY PoolAssumption DEF IInv, TypeOK
<1>2. Step(q) \in Steps
    BY PoolAssumption DEF IInv, TypeOK, Step, Steps, Call
<1>3. elevator[q] \in SlotsOf(q)
    BY <1>1, <1>2 DEF StageInv, Steps
<1>4. eq[elevator[q]].queue = q
    BY <1>3 DEF SlotsOf
<1> QED
    BY <1>1, <1>3, <1>4 DEF Queued, Dangling, FreeSlot, IInv, SlotsInv

\* Requests move between g, those a queue's contexts hold, its elevator, n, and o,
\* those the driver has.
LEMMA FlowStep ==
    ASSUME IInv, NEW q \in Queues, elevator[q] \in SlotsOf(q),
           NEW g \in 0..MaxIO, NEW n \in 0..MaxIO, NEW o \in 0..MaxIO, g + n + o <= MaxIO,
           Step(q) \in Quiesced => g = 0 /\ n = 0 /\ o = 0,
           got' = [got EXCEPT ![q] = g], out' = [out EXCEPT ![q] = o],
           eq' = [eq EXCEPT ![elevator[q]].queued = n],
           UNCHANGED <<types, elevator, bypass, holder, call, oops>>
    PROVE  IInv'
<1> DEFINE e == elevator[q]
<1>1. e \in Slots /\ e # None /\ eq[e].queue = q /\ eq[e] # FreeSlot /\ e \in SlotsOf(q)
    BY PoolAssumption DEF SlotsOf, FreeSlot
<1>2. /\ eq' \in [Slots -> Elevator] /\ eq'[e].queued = n
      /\ eq'[e].type = eq[e].type /\ eq'[e].queue = q
      /\ \A x \in Slots \ {e} : eq'[x] = eq[x]
    BY <1>1 DEF IInv, TypeOK, Elevator
<1>3. /\ got' \in [Queues -> 0..MaxIO] /\ out' \in [Queues -> 0..MaxIO]
      /\ got'[q] = g /\ out'[q] = o /\ elevator' = elevator /\ bypass' = bypass
      /\ \A p \in Queues \ {q} : got'[p] = got[p] /\ out'[p] = out[p]
    BY DEF IInv, TypeOK
<1>4. TypeOK'
    BY <1>2, <1>3 DEF IInv, TypeOK, types
<1>5. LocksInv' /\ OthersCalls(q) /\ Step(q)' = Step(q) /\ Old(q)' = Old(q)
      /\ \A m \in Modules : UsersOf(m)' = UsersOf(m)
    BY NoCall
<1>6. OthersData(q)
    BY <1>1, <1>2, <1>3 DEF OthersData, OthersSlots
<1>7. SlotsInv'
    BY <1>1, <1>2 DEF IInv, SlotsInv
<1>8. ModulesInv'
    BY DEF IInv, ModulesInv, types
<1>9. TypesHeld'
  <2>1. SameElevators
      BY <1>1, <1>2 DEF SameElevators, ElevatorsOf
  <2> QED
      BY <1>5, <2>1, RefsStay DEF types
<1>10. SlotsOf(q)' = SlotsOf(q)
    BY <1>1, <1>2 DEF SlotsOf
<1>11. StageInv(q)'
    BY <1>3, <1>5, <1>10 DEF IInv, StageInv
<1>12. FlowInv(q)'
  <2>1. Queued(q)' = n
      BY <1>1, <1>2, <1>3 DEF Queued, Dangling
  <2>2. FlowInv(q)
      BY DEF IInv
  <2>3. SlotsOf(q) \subseteq Slots
      BY DEF SlotsOf
  <2>4. Step(q)' \in Quiesced => \A x \in SlotsOf(q)' : eq'[x].queued = 0
      BY <1>2, <1>5, <1>10, <2>2, <2>3 DEF FlowInv
  <2>5. \A x \in SlotsOf(q)' : x # elevator'[q] => eq'[x].queued = 0
      BY <1>2, <1>3, <1>10, <2>2, <2>3 DEF FlowInv
  <2> QED
      BY <1>1, <1>3, <1>5, <2>1, <2>2, <2>4, <2>5, PoolAssumption DEF FlowInv
<1> QED
    BY <1>4, <1>5, <1>6, <1>7, <1>8, <1>9, <1>11, <1>12, OneQueue

-----------------------------------------------------------------------------
(* The steps of requests *)

LEMMA GetRequestStep == ASSUME IInv, NEW q \in Queues, GetRequest(q) PROVE IInv'
<1>1. /\ elevator[q] # None /\ Step(q) \notin Quiesced /\ Step(q) # "fail_init"
    BY DEF GetRequest, MayHaveData, IInv, FlowInv, Quiesced
<1>2. /\ got \in [Queues -> 0..MaxIO] /\ out \in [Queues -> 0..MaxIO] /\ MaxIO \in Nat
      /\ eq \in [Slots -> Elevator]
    BY PoolAssumption DEF IInv, TypeOK
<1>3. elevator[q] \in SlotsOf(q) /\ elevator[q] \in Slots
      /\ Queued(q) = eq[elevator[q]].queued /\ Queued(q) \in 0..MaxIO
    BY <1>1, <1>2, OwnElevator DEF Elevator
<1>4. eq' = [eq EXCEPT ![elevator[q]].queued = Queued(q)]
    BY <1>2, <1>3 DEF GetRequest, Elevator
<1>5. out' = [out EXCEPT ![q] = out[q]] /\ out[q] \in 0..MaxIO
    BY <1>2 DEF GetRequest
<1>6. /\ got' = [got EXCEPT ![q] = got[q] + 1] /\ got[q] + 1 \in 0..MaxIO
      /\ got[q] + 1 + Queued(q) + out[q] <= MaxIO
    BY <1>2, <1>3, <1>5 DEF GetRequest
<1>7. UNCHANGED <<types, elevator, bypass, holder, call, oops>>
    BY DEF GetRequest
<1> QED
    BY <1>1, <1>3, <1>4, <1>5, <1>6, <1>7, FlowStep

LEMMA AddRequestStep == ASSUME IInv, NEW q \in Queues, AddRequest(q) PROVE IInv'
<1>1. FlowInv(q)
    BY DEF IInv
<1>2. /\ got \in [Queues -> 0..MaxIO] /\ out \in [Queues -> 0..MaxIO] /\ MaxIO \in Nat
      /\ eq \in [Slots -> Elevator]
    BY PoolAssumption DEF IInv, TypeOK
<1>3. elevator[q] # None /\ Step(q) \notin Quiesced /\ Step(q) # "fail_init"
    BY <1>1, <1>2 DEF AddRequest, FlowInv, Quiesced
<1>4. elevator[q] \in SlotsOf(q) /\ elevator[q] \in Slots
      /\ Queued(q) = eq[elevator[q]].queued /\ Queued(q) \in 0..MaxIO
    BY <1>2, <1>3, OwnElevator DEF Elevator
<1>5. eq' = [eq EXCEPT ![elevator[q]].queued = Queued(q) + 1]
    BY <1>2, <1>4 DEF AddRequest, Elevator
<1>6. out' = [out EXCEPT ![q] = out[q]] /\ out[q] \in 0..MaxIO
    BY <1>2 DEF AddRequest
<1>7. /\ got' = [got EXCEPT ![q] = got[q] - 1] /\ got[q] - 1 \in 0..MaxIO
      /\ Queued(q) + 1 \in 0..MaxIO /\ got[q] - 1 + (Queued(q) + 1) + out[q] <= MaxIO
    BY <1>1, <1>2, <1>4, <1>6 DEF AddRequest, FlowInv
<1>8. UNCHANGED <<types, elevator, bypass, holder, call, oops>>
    BY DEF AddRequest
<1> QED
    BY <1>3, <1>4, <1>5, <1>6, <1>7, <1>8, FlowStep

LEMMA DispatchStep == ASSUME IInv, NEW q \in Queues, Dispatch(q) PROVE IInv'
<1>1. FlowInv(q)
    BY DEF IInv
<1>2. /\ got \in [Queues -> 0..MaxIO] /\ out \in [Queues -> 0..MaxIO] /\ MaxIO \in Nat
      /\ eq \in [Slots -> Elevator] /\ elevator \in [Queues -> Slots \cup {None}]
    BY PoolAssumption DEF IInv, TypeOK
<1>3. elevator[q] # None /\ elevator[q] \in SlotsOf(q) /\ Queued(q) = eq[elevator[q]].queued
    BY <1>2 DEF Dispatch, Queued, Dangling, SlotsOf
<1>4. Step(q) \notin Quiesced /\ Step(q) # "fail_init"
    BY <1>1, <1>3 DEF Dispatch, FlowInv, Quiesced
<1>5. elevator[q] \in Slots /\ Queued(q) \in 0..MaxIO
    BY <1>2, <1>3 DEF Elevator, SlotsOf
<1>6. eq' = [eq EXCEPT ![elevator[q]].queued = Queued(q) - 1]
    BY <1>2, <1>3 DEF Dispatch, Elevator
<1>7. got' = [got EXCEPT ![q] = got[q]] /\ got[q] \in 0..MaxIO
    BY <1>2 DEF Dispatch
<1>8. /\ out' = [out EXCEPT ![q] = out[q] + 1] /\ out[q] + 1 \in 0..MaxIO
      /\ Queued(q) - 1 \in 0..MaxIO /\ got[q] + (Queued(q) - 1) + (out[q] + 1) <= MaxIO
    BY <1>1, <1>2, <1>5, <1>7 DEF Dispatch, FlowInv
<1>9. UNCHANGED <<types, elevator, bypass, holder, call, oops>>
    BY DEF Dispatch
<1> QED
    BY <1>3, <1>4, <1>5, <1>6, <1>7, <1>8, <1>9, FlowStep

LEMMA CompleteStep == ASSUME IInv, NEW q \in Queues, Complete(q) PROVE IInv'
<1>1. FlowInv(q)
    BY DEF IInv
<1>2. /\ got \in [Queues -> 0..MaxIO] /\ out \in [Queues -> 0..MaxIO] /\ MaxIO \in Nat
      /\ eq \in [Slots -> Elevator]
    BY PoolAssumption DEF IInv, TypeOK
<1>3. elevator[q] # None /\ Step(q) \notin Quiesced /\ Step(q) # "fail_init"
    BY <1>1, <1>2 DEF Complete, FlowInv, Quiesced
<1>4. elevator[q] \in SlotsOf(q) /\ elevator[q] \in Slots
      /\ Queued(q) = eq[elevator[q]].queued /\ Queued(q) \in 0..MaxIO
    BY <1>2, <1>3, OwnElevator DEF Elevator
<1>5. eq' = [eq EXCEPT ![elevator[q]].queued = Queued(q)]
    BY <1>2, <1>4 DEF Complete, Elevator
<1>6. got' = [got EXCEPT ![q] = got[q]] /\ got[q] \in 0..MaxIO
    BY <1>2 DEF Complete
<1>7. /\ out' = [out EXCEPT ![q] = out[q] - 1] /\ out[q] - 1 \in 0..MaxIO
      /\ got[q] + Queued(q) + (out[q] - 1) <= MaxIO
    BY <1>1, <1>2, <1>4, <1>6 DEF Complete, FlowInv
<1>8. UNCHANGED <<types, elevator, bypass, holder, call, oops>>
    BY DEF Complete
<1> QED
    BY <1>3, <1>4, <1>5, <1>6, <1>7, <1>8, FlowStep

LEMMA SubmitBypassingStep == ASSUME IInv, NEW q \in Queues, SubmitBypassing(q) PROVE IInv'
<1>1. FlowInv(q)
    BY DEF IInv
<1>2. /\ got \in [Queues -> 0..MaxIO] /\ out \in [Queues -> 0..MaxIO] /\ MaxIO \in Nat
      /\ eq \in [Slots -> Elevator] /\ elevator \in [Queues -> Slots \cup {None}]
    BY PoolAssumption DEF IInv, TypeOK
<1>3. elevator[q] \in SlotsOf(q) /\ Queued(q) = eq[elevator[q]].queued /\ Queued(q) \in 0..MaxIO
    BY <1>2 DEF SubmitBypassing, Queued, Dangling, SlotsOf, Elevator
<1>4. Step(q) \in Quiesced => got[q] = 0 /\ Queued(q) = 0 /\ out[q] = 0
    BY <1>1, <1>3 DEF FlowInv
<1>5. got' = [got EXCEPT ![q] = got[q]] /\ got[q] \in 0..MaxIO
    BY <1>2 DEF SubmitBypassing
<1>6. /\ out' = [out EXCEPT ![q] = out[q] + Queued(q)] /\ out[q] + Queued(q) \in 0..MaxIO
      /\ got[q] + 0 + (out[q] + Queued(q)) <= MaxIO
      /\ Step(q) \in Quiesced => out[q] + Queued(q) = 0
    BY <1>1, <1>2, <1>3, <1>4, <1>5 DEF SubmitBypassing, FlowInv
<1>7. /\ eq' = [eq EXCEPT ![elevator[q]].queued = 0] /\ 0 \in 0..MaxIO
      /\ UNCHANGED <<types, elevator, bypass, holder, call, oops>>
    BY <1>2 DEF SubmitBypassing
<1> QED
    BY <1>3, <1>4, <1>5, <1>6, <1>7, FlowStep
-----------------------------------------------------------------------------
(* Modules come and go, and nothing else changes *)

LEMMA ModuleStep ==
    ASSUME IInv, state' \in [Modules -> {"absent", "live", "going"}], elv_list' \subseteq Modules,
           UNCHANGED <<refs, elevator, eq, bypass, holder, io, call>>, oops' \in BOOLEAN,
           ModulesInv', \A m \in Modules : refs[m] > 0 => m \in elv_list' /\ state'[m] = "live"
    PROVE  IInv'
<1>1. TypeOK' /\ SlotsInv'
    BY DEF IInv, TypeOK, SlotsInv, io
<1>2. LocksInv' /\ \A m \in Modules : UsersOf(m)' = UsersOf(m) /\ ElevatorsOf(m)' = ElevatorsOf(m)
    BY DEF IInv, LocksInv, At, HoldsType, UsersOf, ElevatorsOf
<1>3. TypesHeld'
    BY <1>2 DEF IInv, TypesHeld
<1>4. ASSUME NEW q \in Queues PROVE StageInv(q)' /\ FlowInv(q)'
  <2>1. /\ Step(q)' = Step(q) /\ Old(q)' = Old(q) /\ SlotsOf(q)' = SlotsOf(q)
        /\ Queued(q)' = Queued(q)
      BY DEF Step, Old, SlotsOf, Queued, Dangling
  <2>2. StageInv(q) /\ FlowInv(q)
      BY DEF IInv
  <2>3. StageInv(q)'
      BY <2>1, <2>2 DEF StageInv
  <2>4. FlowInv(q)'
      BY <2>1, <2>2 DEF FlowInv, io
  <2> QED
      BY <2>3, <2>4
<1> QED
    BY <1>1, <1>2, <1>3, <1>4 DEF IInv

LEMMA LoadStep == ASSUME IInv, NEW m \in Modules, Load(m) PROVE IInv'
<1>1. /\ state \in [Modules -> {"absent", "live", "going"}] /\ elv_list \subseteq Modules
      /\ oops \in BOOLEAN
    BY DEF IInv, TypeOK
<1>2. /\ state' \in [Modules -> {"absent", "live", "going"}] /\ elv_list' \subseteq Modules
      /\ state'[m] = "live" /\ m \in elv_list' /\ state[m] = "absent"
      /\ \A n \in Modules \ {m} : state'[n] = state[n] /\ (n \in elv_list' <=> n \in elv_list)
    BY <1>1 DEF Load
<1>3. ModulesInv'
    BY <1>2 DEF IInv, ModulesInv
<1>4. \A n \in Modules : refs[n] > 0 => n \in elv_list' /\ state'[n] = "live"
    BY <1>2 DEF IInv, TypesHeld
<1> QED
    BY <1>1, <1>2, <1>3, <1>4, ModuleStep DEF Load

LEMMA StartUnloadStep == ASSUME IInv, NEW m \in Modules, StartUnload(m) PROVE IInv'
<1>1. /\ state \in [Modules -> {"absent", "live", "going"}] /\ elv_list \subseteq Modules
      /\ oops \in BOOLEAN
    BY DEF IInv, TypeOK
<1>2. /\ state' \in [Modules -> {"absent", "live", "going"}] /\ elv_list' = elv_list
      /\ state'[m] = "going" /\ state[m] = "live" /\ m \notin BuiltIn /\ refs[m] = 0
      /\ \A n \in Modules \ {m} : state'[n] = state[n]
    BY <1>1 DEF StartUnload
<1>3. ModulesInv'
    BY <1>2 DEF IInv, ModulesInv
<1>4. \A n \in Modules : refs[n] > 0 => n \in elv_list' /\ state'[n] = "live"
    BY <1>2 DEF IInv, TypesHeld
<1> QED
    BY <1>1, <1>2, <1>3, <1>4, ModuleStep DEF StartUnload

LEMMA UnloadStep == ASSUME IInv, NEW m \in Modules, Unload(m) PROVE IInv'
<1>1. /\ state \in [Modules -> {"absent", "live", "going"}] /\ elv_list \subseteq Modules
      /\ oops \in BOOLEAN
    BY DEF IInv, TypeOK
<1>2. /\ state' \in [Modules -> {"absent", "live", "going"}] /\ elv_list' \subseteq Modules
      /\ state'[m] = "absent" /\ m \notin elv_list' /\ state[m] = "going"
      /\ \A n \in Modules \ {m} : state'[n] = state[n] /\ (n \in elv_list' <=> n \in elv_list)
    BY <1>1 DEF Unload
<1>3. ModulesInv'
    BY <1>2 DEF IInv, ModulesInv
<1>4. \A n \in Modules : refs[n] > 0 => n \in elv_list' /\ state'[n] = "live"
    BY <1>2 DEF IInv, TypesHeld
<1> QED
    BY <1>1, <1>2, <1>3, <1>4, ModuleStep DEF Unload

LEMMA StutterStep ==
    ASSUME IInv, UNCHANGED <<types, elevator, eq, bypass, holder, io, call>>, oops' \in BOOLEAN
    PROVE  IInv'
<1>1. ModulesInv' /\ state' = state /\ elv_list' = elv_list /\ refs' = refs
    BY DEF IInv, ModulesInv, types
<1>2. \A m \in Modules : refs[m] > 0 => m \in elv_list' /\ state'[m] = "live"
    BY <1>1 DEF IInv, TypesHeld
<1>3. state' \in [Modules -> {"absent", "live", "going"}] /\ elv_list' \subseteq Modules
    BY <1>1 DEF IInv, TypeOK
<1> QED
    BY <1>1, <1>2, <1>3, ModuleStep

-----------------------------------------------------------------------------
(* Steps that move no request, and change no slot's queue *)

SameSlots == \A x \in Slots : /\ eq'[x].queue = eq[x].queue /\ eq'[x].queued = eq[x].queued
                               /\ eq'[x].type = eq[x].type

\* Elevators are registered with sysfs and unregistered.
LEMMA RegisteredSet ==
    ASSUME IInv, NEW x \in Slots, eq[x] # FreeSlot, NEW b \in BOOLEAN,
           eq' = [eq EXCEPT ![x].registered = b]
    PROVE  eq' \in [Slots -> Elevator] /\ SlotsInv' /\ SameSlots
<1>1. eq \in [Slots -> Elevator]
    BY DEF IInv, TypeOK
<1>2. /\ eq' \in [Slots -> Elevator] /\ \A y \in Slots \ {x} : eq'[y] = eq[y]
      /\ eq'[x].queue = eq[x].queue /\ eq'[x].queued = eq[x].queued /\ eq'[x].type = eq[x].type
    BY <1>1 DEF Elevator
<1>3. SlotsInv'
    BY <1>2 DEF IInv, SlotsInv
<1> QED
    BY <1>2, <1>3 DEF SameSlots

LEMMA SlotsUnchanged ==
    ASSUME IInv, eq' = eq
    PROVE  eq' \in [Slots -> Elevator] /\ SlotsInv' /\ SameSlots
BY DEF IInv, TypeOK, SlotsInv, SameSlots

LEMMA SameSlotsFacts ==
    ASSUME IInv, SameSlots, NEW q \in Queues, elevator' = elevator
    PROVE  /\ SlotsOf(q)' = SlotsOf(q) /\ Queued(q)' = Queued(q) /\ OthersSlots(q)
           /\ SameElevators
<1>1. elevator[q] \in Slots \cup {None}
    BY DEF IInv, TypeOK
<1> QED
    BY <1>1 DEF SameSlots, SlotsOf, Queued, Dangling, OthersSlots, SameElevators, ElevatorsOf

LEMMA QuietStep ==
    ASSUME IInv, NEW q \in Queues, OthersCalls(q), LocksInv', call' \in [Callers -> Call],
           holder' \in [Queues -> Callers \cup {None}], TypesHeld', refs' \in [Modules -> Nat],
           UNCHANGED <<state, elv_list, elevator, io, oops>>,
           eq' \in [Slots -> Elevator], SlotsInv', SameSlots,
           bypass' \subseteq Queues, \A p \in Queues \ {q} : p \in bypass' <=> p \in bypass,
           q \in bypass' <=> Step(q)' \in {"drain"} \cup Quiesced,
           Step(q)' \in Quiesced => Step(q) \in Quiesced \/ Drained(q),
           StageInv(q), StageInv(q)'
    PROVE  IInv'
<1>1. /\ SlotsOf(q)' = SlotsOf(q) /\ Queued(q)' = Queued(q) /\ OthersSlots(q)
      /\ got' = got /\ out' = out /\ elevator' = elevator
    BY SameSlotsFacts DEF io
<1>2. TypeOK' /\ ModulesInv'
    BY <1>1 DEF IInv, TypeOK, ModulesInv
<1>3. OthersData(q)
    BY <1>1 DEF OthersData
<1>4. FlowInv(q) /\ eq \in [Slots -> Elevator] /\ MaxIO \in Nat
      /\ got[q] \in Nat /\ out[q] \in Nat /\ elevator[q] \in Slots \cup {None}
    BY PoolAssumption DEF IInv, TypeOK
<1>5. \A x \in SlotsOf(q) : eq'[x].queued = eq[x].queued /\ x \in Slots /\ eq[x].queue = q
    BY DEF SlotsOf, SameSlots
<1>6. Queued(q) \in Nat
    BY <1>4 DEF Queued, Elevator
<1>7. Drained(q) => got[q] = 0 /\ out[q] = 0 /\ \A x \in SlotsOf(q) : eq[x].queued = 0
  <2>1. Drained(q) => got[q] = 0 /\ out[q] = 0 /\ Queued(q) = 0
      BY <1>4, <1>6 DEF Drained
  <2>2. \A x \in SlotsOf(q) : eq[x].queued = 0 \/ x = elevator[q]
      BY <1>4 DEF FlowInv
  <2>3. \A x \in SlotsOf(q) : x = elevator[q] => eq[x].queued = Queued(q)
      BY <1>5, PoolAssumption DEF Queued, Dangling
  <2> QED
      BY <2>1, <2>2, <2>3
<1>8. FlowInv(q)'
    BY <1>1, <1>4, <1>5, <1>7 DEF FlowInv
<1> QED
    BY <1>2, <1>3, <1>8, OneQueue

LEMMA RegisterQueueStep == ASSUME IInv, NEW q \in Queues, RegisterQueue(q) PROVE IInv'
<1>1. Step(q) = "idle" /\ StageInv(q) /\ FlowInv(q)
    BY DEF RegisterQueue, Step, IInv
<1>2. elevator[q] \in Slots /\ eq[elevator[q]] # FreeSlot
    BY <1>1, OwnElevator DEF RegisterQueue
<1>3. eq' \in [Slots -> Elevator] /\ SlotsInv' /\ SameSlots
    BY <1>2, RegisteredSet DEF RegisterQueue
<1>4. UNCHANGED <<types, elevator, bypass, holder, io, call, oops>>
    BY DEF RegisterQueue
<1>5. /\ LocksInv' /\ OthersCalls(q) /\ Step(q)' = Step(q) /\ Old(q)' = Old(q)
      /\ \A m \in Modules : UsersOf(m)' = UsersOf(m)
    BY <1>4, NoCall
<1>6. SlotsOf(q)' = SlotsOf(q) /\ SameElevators
    BY <1>3, <1>4, SameSlotsFacts
<1>7. TypesHeld' /\ refs' \in [Modules -> Nat]
    BY <1>4, <1>5, <1>6, RefsStay DEF types, IInv, TypeOK
<1>8. StageInv(q)'
    BY <1>1, <1>4, <1>5, <1>6 DEF StageInv
<1>9. /\ call' \in [Callers -> Call] /\ holder' \in [Queues -> Callers \cup {None}]
      /\ bypass' \subseteq Queues /\ bypass' = bypass
      /\ UNCHANGED <<state, elv_list, elevator, io, oops>>
    BY <1>4 DEF IInv, TypeOK, types
<1>10. q \in bypass' <=> Step(q)' \in {"drain"} \cup Quiesced
    BY <1>1, <1>5, <1>9 DEF FlowInv
<1> QED
    BY <1>1, <1>3, <1>5, <1>7, <1>8, <1>9, <1>10, QuietStep DEF Quiesced

LEMMA UnregisterQueueStep == ASSUME IInv, NEW q \in Queues, UnregisterQueue(q) PROVE IInv'
<1>1. Step(q) = "idle" /\ StageInv(q) /\ FlowInv(q)
    BY DEF UnregisterQueue, Step, IInv
<1>2. elevator[q] \in Slots /\ eq[elevator[q]] # FreeSlot
    BY <1>1, OwnElevator DEF UnregisterQueue
<1>3. eq' \in [Slots -> Elevator] /\ SlotsInv' /\ SameSlots
    BY <1>2, RegisteredSet DEF UnregisterQueue
<1>4. UNCHANGED <<types, elevator, bypass, holder, io, call, oops>>
    BY DEF UnregisterQueue
<1>5. /\ LocksInv' /\ OthersCalls(q) /\ Step(q)' = Step(q) /\ Old(q)' = Old(q)
      /\ \A m \in Modules : UsersOf(m)' = UsersOf(m)
    BY <1>4, NoCall
<1>6. SlotsOf(q)' = SlotsOf(q) /\ SameElevators
    BY <1>3, <1>4, SameSlotsFacts
<1>7. TypesHeld' /\ refs' \in [Modules -> Nat]
    BY <1>4, <1>5, <1>6, RefsStay DEF types, IInv, TypeOK
<1>8. StageInv(q)'
    BY <1>1, <1>4, <1>5, <1>6 DEF StageInv
<1>9. /\ call' \in [Callers -> Call] /\ holder' \in [Queues -> Callers \cup {None}]
      /\ bypass' \subseteq Queues /\ bypass' = bypass
      /\ UNCHANGED <<state, elv_list, elevator, io, oops>>
    BY <1>4 DEF IInv, TypeOK, types
<1>10. q \in bypass' <=> Step(q)' \in {"drain"} \cup Quiesced
    BY <1>1, <1>5, <1>9 DEF FlowInv
<1> QED
    BY <1>1, <1>3, <1>5, <1>7, <1>8, <1>9, <1>10, QuietStep DEF Quiesced

LEMMA SubmitToFreedStep == ASSUME IInv, NEW q \in Queues, SubmitToFreed(q) PROVE IInv'
BY StutterStep DEF SubmitToFreed

-----------------------------------------------------------------------------
(* Steps of a caller that move no request *)

\* The call goes on, and holds its type as before or no longer.
LEMMA GoesOn ==
    ASSUME IInv, NEW t \in Callers, ~At(t, "idle"), NEW q, q = call[t].q,
           NEW step \in Steps \ {"idle"}, step \in Holding => HoldsType(t),
           Goes(t, step), holder' = holder
    PROVE  /\ LocksInv' /\ call' \in [Callers -> Call]
           /\ holder' \in [Queues -> Callers \cup {None}]
           /\ Step(q)' = step /\ Old(q)' = Old(q) /\ OthersCalls(q)
           /\ IF step \in Holding THEN \A m \in Modules : UsersOf(m)' = UsersOf(m)
                                  ELSE UsersFollow(t, Idle)
<1>1. call \in [Callers -> Call] /\ call[t] \in Call
    BY DEF IInv, TypeOK
<1>2. PICK c : c = [call[t] EXCEPT !.pc = step]
    OBVIOUS
<1>3. /\ c \in Call /\ c.pc = step /\ c.q = q /\ c.old = call[t].old
      /\ c.type = call[t].type /\ call' = [call EXCEPT ![t] = c]
    BY <1>1, <1>2 DEF Call, Goes
<1>4. c.pc \in Holding => c.type \in Modules
    BY <1>3 DEF IInv, LocksInv
<1>5. /\ LocksInv' /\ call' \in [Callers -> Call]
      /\ Step(q)' = c.pc /\ Old(q)' = Old(q) /\ OthersCalls(q) /\ UsersFollow(t, c)
    BY <1>3, <1>4, Advances
<1>6. ASSUME step \in Holding, NEW m \in Modules PROVE UsersOf(m)' = UsersOf(m)
  <2>1. t \in UsersOf(m) <=> c.type = m
      BY <1>3, <1>6 DEF UsersOf
  <2>2. UsersOf(m)' = IF c.type = m THEN UsersOf(m) \cup {t} ELSE UsersOf(m) \ {t}
      BY <1>3, <1>5, <1>6 DEF UsersFollow
  <2> QED
      BY <2>1, <2>2
<1>7. ASSUME step \notin Holding PROVE UsersFollow(t, Idle)
    BY <1>3, <1>5, <1>7 DEF UsersFollow, Idle, Holding
<1> QED
    BY <1>3, <1>5, <1>6, <1>7 DEF IInv, TypeOK

\* elevator_get: the call goes on with a type, which it refers to.
LEMMA GotType ==
    ASSUME IInv, NEW t \in Callers, ~At(t, "idle"), NEW q, q = call[t].q, ~HoldsType(t),
           NEW step \in Holding, NEW name, Gets(t, name, step), holder' = holder,
           UNCHANGED <<state, elv_list>>, SameElevators
    PROVE  /\ LocksInv' /\ call' \in [Callers -> Call]
           /\ holder' \in [Queues -> Callers \cup {None}]
           /\ Step(q)' = step /\ Old(q)' = Old(q) /\ OthersCalls(q)
           /\ TypesHeld' /\ refs' \in [Modules -> Nat]
<1>1. call \in [Callers -> Call] /\ call[t] \in Call /\ elv_list \subseteq Modules
    BY DEF IInv, TypeOK
<1>2. PICK m \in Modules : /\ m \in elv_list /\ CanGet(m) /\ ModuleGet(m)
                           /\ call' = [call EXCEPT ![t].pc = step, ![t].type = m]
    BY <1>1 DEF Gets, Found
<1>3. PICK c : c = [call[t] EXCEPT !.pc = step, !.type = m]
    OBVIOUS
<1>4. /\ c \in Call /\ c.pc = step /\ c.q = q /\ c.old = call[t].old
      /\ c.type = m /\ call' = [call EXCEPT ![t] = c]
    BY <1>1, <1>2, <1>3 DEF Call, Holding, Steps
<1>5. /\ LocksInv' /\ call' \in [Callers -> Call]
      /\ Step(q)' = c.pc /\ Old(q)' = Old(q) /\ OthersCalls(q) /\ UsersFollow(t, c)
    BY <1>4, Advances DEF Holding
<1>6. TypesHeld' /\ refs' \in [Modules -> Nat]
    BY <1>2, <1>4, <1>5, RefTaken
<1> QED
    BY <1>4, <1>5, <1>6 DEF IInv, TypeOK

\* What a step of a caller owes to its queue, when it leaves elevator alone.
LEMMA CallerQuiet ==
    ASSUME IInv, NEW t \in Callers, NEW q \in Queues, OthersCalls(q), LocksInv',
           call' \in [Callers -> Call], holder' \in [Queues -> Callers \cup {None}],
           TypesHeld', refs' \in [Modules -> Nat],
           UNCHANGED <<state, elv_list, elevator, eq, bypass, io, oops>>,
           Step(q) \in Quiesced \cup {"drain"} <=> Step(q)' \in Quiesced \cup {"drain"},
           Step(q)' \in Quiesced => Step(q) \in Quiesced, StageInv(q)'
    PROVE  IInv'
<1>1. StageInv(q) /\ FlowInv(q) /\ bypass \subseteq Queues
    BY DEF IInv, TypeOK
<1>2. eq' \in [Slots -> Elevator] /\ SlotsInv' /\ SameSlots
    BY SlotsUnchanged
<1>3. q \in bypass' <=> Step(q)' \in {"drain"} \cup Quiesced
    BY <1>1 DEF FlowInv
<1> QED
    BY <1>1, <1>2, <1>3, QuietStep

-----------------------------------------------------------------------------
(* The steps of elevator_init and elevator_change that move no request *)

LEMMA StartInitStep ==
    ASSUME IInv, NEW t \in Callers, NEW q \in Queues, StartInit(t, q) PROVE IInv'
<1>1. PICK c : c = [pc |-> "boot", q |-> q, name |-> None, tries |-> Boot, type |-> None,
                    old |-> None, was |-> FALSE]
    OBVIOUS
<1>2. c \in Call /\ c.pc = "boot" /\ c.q = q
    BY <1>1, BootAssumption DEF Call, Steps
<1>3. Locks(t, q) /\ call' = [call EXCEPT ![t] = c] /\ elevator[q] = None
    BY <1>1 DEF StartInit
<1>4. UNCHANGED <<types, elevator, eq, bypass, io, oops>>
    BY DEF StartInit
<1>5. /\ LocksInv' /\ call' \in [Callers -> Call]
      /\ holder' \in [Queues -> Callers \cup {None}]
      /\ Step(q) = "idle" /\ Step(q)' = "boot" /\ OthersCalls(q) /\ UsersFollow(t, c)
    BY <1>2, <1>3, Begins DEF Holding
<1>6. SlotsOf(q)' = SlotsOf(q) /\ SameElevators
    BY <1>4, SlotsUnchanged, SameSlotsFacts
<1>7. \A m \in Modules : UsersOf(m)' = UsersOf(m)
    BY <1>2, <1>3, <1>5 DEF UsersFollow, UsersOf, Locks, Idle, HoldsType, Holding
<1>8. TypesHeld' /\ refs' \in [Modules -> Nat]
    BY <1>4, <1>6, <1>7, RefsStay DEF types, IInv, TypeOK
<1>9. StageInv(q)'
  <2>1. SlotsOf(q) = {}
      BY <1>3, <1>5 DEF IInv, StageInv
  <2> QED
      BY <1>3, <1>4, <1>5, <1>6, <2>1 DEF StageInv
<1> QED
    BY <1>4, <1>5, <1>8, <1>9, CallerQuiet DEF types, Quiesced

LEMMA StartChangeStep ==
    ASSUME IInv, NEW t \in Callers, NEW q \in Queues, NEW name \in Names, StartChange(t, q, name)
    PROVE  IInv'
<1>1. PICK c : c = [pc |-> "lookup", q |-> q, name |-> name, tries |-> <<>>, type |-> None,
                    old |-> elevator[q], was |-> eq[elevator[q]].registered]
    OBVIOUS
<1>2. Locks(t, q) /\ call' = [call EXCEPT ![t] = c] /\ elevator[q] # None
    BY <1>1 DEF StartChange
<1>3. UNCHANGED <<types, elevator, eq, bypass, io, oops>>
    BY DEF StartChange
<1>4. elevator[q] \in Slots /\ eq[elevator[q]] \in Elevator /\ name \in STRING
    BY <1>2, ModuleAssumption DEF IInv, TypeOK, Names
<1>5. c \in Call /\ c.pc = "lookup" /\ c.q = q /\ c.old = elevator[q]
    BY <1>1, <1>4 DEF Call, Steps, Elevator
<1>6. /\ LocksInv' /\ call' \in [Callers -> Call]
      /\ holder' \in [Queues -> Callers \cup {None}] /\ Step(q) = "idle"
      /\ Step(q)' = "lookup" /\ Old(q)' = elevator[q] /\ OthersCalls(q) /\ UsersFollow(t, c)
    BY <1>2, <1>5, Begins DEF Holding
<1>7. SlotsOf(q)' = SlotsOf(q) /\ SameElevators
    BY <1>3, SlotsUnchanged, SameSlotsFacts
<1>8. \A m \in Modules : UsersOf(m)' = UsersOf(m)
    BY <1>2, <1>5, <1>6 DEF UsersFollow, UsersOf, Locks, Idle, HoldsType, Holding
<1>9. TypesHeld' /\ refs' \in [Modules -> Nat]
    BY <1>3, <1>7, <1>8, RefsStay DEF types, IInv, TypeOK
<1>10. StageInv(q)'
  <2>1. SlotsOf(q) = {elevator[q]}
      BY <1>2, <1>6 DEF IInv, StageInv
  <2> QED
      BY <1>3, <1>4, <1>6, <1>7, <2>1 DEF StageInv
<1> QED
    BY <1>3, <1>6, <1>9, <1>10, CallerQuiet DEF types, Quiesced

LEMMA InitTriesStep == ASSUME IInv, NEW t \in Callers, InitTries(t) PROVE IInv'
<1>1. PICK q : q = call[t].q
    OBVIOUS
<1>2. ~At(t, "idle") /\ ~HoldsType(t) /\ call[t].pc = "boot"
    BY DEF InitTries, At, HoldsType
<1>3. q \in Queues /\ Step(q) = "boot"
    BY <1>1, <1>2, CallerFacts
<1>4. UNCHANGED <<state, elv_list, elevator, eq, bypass, holder, io, oops>>
    BY DEF InitTries
<1>5. SlotsOf(q)' = SlotsOf(q) /\ SameElevators
    BY <1>3, <1>4, SlotsUnchanged, SameSlotsFacts
<1>6. /\ LocksInv' /\ call' \in [Callers -> Call] /\ Step(q)' \in {"boot", "boot_init"}
      /\ holder' \in [Queues -> Callers \cup {None}]
      /\ OthersCalls(q) /\ TypesHeld' /\ refs' \in [Modules -> Nat]
  <2>1. CASE Gets(t, call[t].tries[1], "boot_init")
      BY <1>1, <1>2, <1>4, <1>5, <2>1, GotType DEF Holding
  <2>2. CASE call' = [call EXCEPT ![t].tries = Tail(@)] /\ UNCHANGED refs
    <3>1. call \in [Callers -> Call] /\ call[t] \in Call /\ call[t].tries # <<>>
        BY DEF IInv, TypeOK, InitTries
    <3>2. PICK c : c = [call[t] EXCEPT !.tries = Tail(call[t].tries)]
        OBVIOUS
    <3>3. /\ c \in Call /\ c.pc = "boot" /\ c.q = q /\ c.old = call[t].old
          /\ call' = [call EXCEPT ![t] = c]
      <4>1. Tail(call[t].tries) \in Seq(STRING)
          BY <3>1 DEF Call
      <4> QED
          BY <1>1, <1>2, <2>2, <3>1, <3>2, <4>1 DEF Call
    <3>4. /\ LocksInv' /\ call' \in [Callers -> Call] /\ Step(q)' = "boot" /\ OthersCalls(q)
          /\ UsersFollow(t, c)
        BY <1>1, <1>2, <1>4, <3>3, Advances DEF Holding
    <3>5. \A m \in Modules : UsersOf(m)' = UsersOf(m)
        BY <1>2, <3>3, <3>4 DEF UsersFollow, UsersOf, Holding
    <3> QED
        BY <1>4, <1>5, <2>2, <3>4, <3>5, RefsStay DEF IInv, TypeOK
  <2> QED
      BY <2>1, <2>2 DEF InitTries
<1>7. StageInv(q)'
    BY <1>3, <1>4, <1>5, <1>6 DEF StageInv, IInv
<1> QED
    BY <1>3, <1>4, <1>6, <1>7, CallerQuiet DEF Quiesced

LEMMA BootInitFailsStep == ASSUME IInv, NEW t \in Callers, BootInitFails(t) PROVE IInv'
<1>1. PICK q : q = call[t].q
    OBVIOUS
<1>2. ~At(t, "idle") /\ HoldsType(t) /\ call[t].pc = "boot_init" /\ Return(t)
    BY DEF BootInitFails, At, HoldsType
<1>3. q \in Queues /\ Step(q) = "boot_init"
    BY <1>1, <1>2, CallerFacts
<1>4. UNCHANGED <<state, elv_list, elevator, eq, bypass, io, oops>>
    BY DEF BootInitFails
<1>5. SlotsOf(q)' = SlotsOf(q) /\ SameElevators
    BY <1>3, <1>4, SlotsUnchanged, SameSlotsFacts
<1>6. /\ LocksInv' /\ call' \in [Callers -> Call] /\ Step(q)' = "idle"
      /\ holder' \in [Queues -> Callers \cup {None}] /\ OthersCalls(q) /\ UsersFollow(t, Idle)
    BY <1>1, <1>2, Returns
<1>7. TypesHeld' /\ refs' \in [Modules -> Nat]
    BY <1>2, <1>4, <1>5, <1>6, RefDropped DEF BootInitFails, Idle, Holding
<1>8. StageInv(q)'
    BY <1>3, <1>4, <1>5, <1>6 DEF StageInv, IInv
<1> QED
    BY <1>3, <1>4, <1>6, <1>7, <1>8, CallerQuiet DEF Quiesced

\* The call goes no further: it had no type.
LEMMA ReturnsWithout ==
    ASSUME IInv, NEW t \in Callers, ~At(t, "idle"), ~HoldsType(t), NEW q, q = call[t].q,
           Return(t), UNCHANGED types, SameElevators
    PROVE  /\ LocksInv' /\ call' \in [Callers -> Call] /\ Step(q)' = "idle"
           /\ holder' \in [Queues -> Callers \cup {None}] /\ OthersCalls(q)
           /\ TypesHeld' /\ refs' \in [Modules -> Nat]
<1>1. /\ LocksInv' /\ call' \in [Callers -> Call] /\ Step(q)' = "idle"
      /\ holder' \in [Queues -> Callers \cup {None}] /\ OthersCalls(q) /\ UsersFollow(t, Idle)
    BY Returns
<1>2. \A m \in Modules : UsersOf(m)' = UsersOf(m)
    BY <1>1 DEF UsersFollow, UsersOf, Idle, Holding
<1> QED
    BY <1>1, <1>2, RefsStay DEF types, IInv, TypeOK

LEMMA LookupStep == ASSUME IInv, NEW t \in Callers, Lookup(t) PROVE IInv'
<1>1. PICK q : q = call[t].q
    OBVIOUS
<1>2. ~At(t, "idle") /\ ~HoldsType(t) /\ call[t].pc = "lookup"
    BY DEF Lookup, At, HoldsType
<1>3. q \in Queues /\ Step(q) = "lookup"
    BY <1>1, <1>2, CallerFacts
<1>4. UNCHANGED <<state, elv_list, elevator, eq, bypass, io, oops>>
    BY DEF Lookup
<1>5. SlotsOf(q)' = SlotsOf(q) /\ SameElevators
    BY <1>3, <1>4, SlotsUnchanged, SameSlotsFacts
<1>6. /\ LocksInv' /\ call' \in [Callers -> Call]
      /\ Step(q)' = "idle" \/ (Step(q)' \in {"load", "found"} /\ Old(q)' = Old(q))
      /\ holder' \in [Queues -> Callers \cup {None}]
      /\ OthersCalls(q) /\ TypesHeld' /\ refs' \in [Modules -> Nat]
  <2>1. CASE Gets(t, call[t].name, "found") /\ UNCHANGED holder
      BY <1>1, <1>2, <1>4, <1>5, <2>1, GotType DEF Holding
  <2>2. CASE Goes(t, "load") /\ UNCHANGED <<refs, holder>>
    <3>1. /\ LocksInv' /\ call' \in [Callers -> Call]
          /\ holder' \in [Queues -> Callers \cup {None}]
          /\ Step(q)' = "load" /\ Old(q)' = Old(q) /\ OthersCalls(q) /\ UsersFollow(t, Idle)
        BY <1>1, <1>2, <2>2, GoesOn DEF Holding, Steps
    <3>2. \A m \in Modules : UsersOf(m)' = UsersOf(m)
        BY <1>2, <3>1 DEF UsersFollow, UsersOf, Idle, Holding
    <3> QED
        BY <1>4, <1>5, <2>2, <3>1, <3>2, RefsStay DEF IInv, TypeOK
  <2>3. CASE Return(t) /\ UNCHANGED refs
      BY <1>1, <1>2, <1>4, <1>5, <2>3, ReturnsWithout DEF types
  <2> QED
      BY <2>1, <2>2, <2>3 DEF Lookup
<1>7. StageInv(q)'
    BY <1>3, <1>4, <1>5, <1>6, PoolAssumption DEF StageInv, IInv
<1> QED
    BY <1>3, <1>4, <1>6, <1>7, CallerQuiet DEF Quiesced

LEMMA AgainStep == ASSUME IInv, NEW t \in Callers, Again(t) PROVE IInv'
<1>1. PICK q : q = call[t].q
    OBVIOUS
<1>2. ~At(t, "idle") /\ ~HoldsType(t) /\ call[t].pc = "load"
    BY DEF Again, At, HoldsType
<1>3. q \in Queues /\ Step(q) = "load"
    BY <1>1, <1>2, CallerFacts
<1>4. UNCHANGED <<state, elv_list, elevator, eq, bypass, io, oops>>
    BY DEF Again
<1>5. SlotsOf(q)' = SlotsOf(q) /\ SameElevators
    BY <1>3, <1>4, SlotsUnchanged, SameSlotsFacts
<1>6. /\ LocksInv' /\ call' \in [Callers -> Call]
      /\ Step(q)' = "idle" \/ (Step(q)' = "found" /\ Old(q)' = Old(q))
      /\ holder' \in [Queues -> Callers \cup {None}]
      /\ OthersCalls(q) /\ TypesHeld' /\ refs' \in [Modules -> Nat]
  <2>1. CASE Gets(t, call[t].name, "found") /\ UNCHANGED holder
      BY <1>1, <1>2, <1>4, <1>5, <2>1, GotType DEF Holding
  <2>2. CASE Return(t) /\ UNCHANGED refs
      BY <1>1, <1>2, <1>4, <1>5, <2>2, ReturnsWithout DEF types
  <2> QED
      BY <2>1, <2>2 DEF Again
<1>7. StageInv(q)'
    BY <1>3, <1>4, <1>5, <1>6, PoolAssumption DEF StageInv, IInv
<1> QED
    BY <1>3, <1>4, <1>6, <1>7, CallerQuiet DEF Quiesced

LEMMA SameTypeStep == ASSUME IInv, NEW t \in Callers, SameType(t) PROVE IInv'
<1>1. PICK q : q = call[t].q
    OBVIOUS
<1>2. ~At(t, "idle") /\ HoldsType(t) /\ call[t].pc = "found" /\ Return(t)
    BY DEF SameType, At, HoldsType
<1>3. q \in Queues /\ Step(q) = "found"
    BY <1>1, <1>2, CallerFacts
<1>4. UNCHANGED <<state, elv_list, elevator, eq, bypass, io, oops>>
    BY DEF SameType
<1>5. SlotsOf(q)' = SlotsOf(q) /\ SameElevators
    BY <1>3, <1>4, SlotsUnchanged, SameSlotsFacts
<1>6. /\ LocksInv' /\ call' \in [Callers -> Call] /\ Step(q)' = "idle"
      /\ holder' \in [Queues -> Callers \cup {None}] /\ OthersCalls(q) /\ UsersFollow(t, Idle)
    BY <1>1, <1>2, Returns
<1>7. TypesHeld' /\ refs' \in [Modules -> Nat]
    BY <1>2, <1>4, <1>5, <1>6, RefDropped DEF SameType, Idle, Holding
<1>8. StageInv(q)'
    BY <1>3, <1>4, <1>5, <1>6, PoolAssumption DEF StageInv, IInv
<1> QED
    BY <1>3, <1>4, <1>6, <1>7, <1>8, CallerQuiet DEF Quiesced

LEMMA StartBypassStep == ASSUME IInv, NEW t \in Callers, StartBypass(t) PROVE IInv'
<1>1. PICK q : q = call[t].q
    OBVIOUS
<1>2. ~At(t, "idle") /\ HoldsType(t) /\ call[t].pc = "found" /\ Goes(t, "drain")
    BY DEF StartBypass, At, HoldsType
<1>3. q \in Queues /\ Step(q) = "found" /\ StageInv(q)
    BY <1>1, <1>2, CallerFacts DEF IInv
<1>4. /\ UNCHANGED <<types, elevator, eq, holder, io, oops>>
      /\ bypass' = bypass \cup {q} /\ bypass \subseteq Queues
    BY <1>1 DEF StartBypass, IInv, TypeOK
<1>5. SlotsOf(q)' = SlotsOf(q) /\ SameElevators
    BY <1>3, <1>4, SlotsUnchanged, SameSlotsFacts
<1>6. /\ LocksInv' /\ call' \in [Callers -> Call] /\ Step(q)' = "drain" /\ Old(q)' = Old(q)
      /\ holder' \in [Queues -> Callers \cup {None}] /\ OthersCalls(q)
      /\ \A m \in Modules : UsersOf(m)' = UsersOf(m)
    BY <1>1, <1>2, <1>4, GoesOn DEF Holding, Steps
<1>7. TypesHeld' /\ refs' \in [Modules -> Nat]
    BY <1>4, <1>5, <1>6, RefsStay DEF types, IInv, TypeOK
<1>8. StageInv(q)'
    BY <1>3, <1>4, <1>5, <1>6 DEF StageInv
<1>9. eq' \in [Slots -> Elevator] /\ SlotsInv' /\ SameSlots
    BY <1>4, SlotsUnchanged
<1> QED
    BY <1>3, <1>4, <1>6, <1>7, <1>8, <1>9, QuietStep DEF Quiesced, types

LEMMA EndDrainStep == ASSUME IInv, NEW t \in Callers, EndDrain(t) PROVE IInv'
<1>1. PICK q : q = call[t].q
    OBVIOUS
<1>2. /\ ~At(t, "idle") /\ HoldsType(t) /\ call[t].pc = "drain" /\ Goes(t, "init")
      /\ Drained(q)
    BY <1>1 DEF EndDrain, At, HoldsType
<1>3. q \in Queues /\ Step(q) = "drain" /\ StageInv(q) /\ FlowInv(q)
    BY <1>1, <1>2, CallerFacts DEF IInv
<1>4. /\ UNCHANGED <<types, elevator, bypass, holder, io, oops>> /\ bypass \subseteq Queues
      /\ eq' = [eq EXCEPT ![elevator[q]].registered = FALSE]
    BY <1>1 DEF EndDrain, IInv, TypeOK
<1>5. elevator[q] \in Slots /\ eq[elevator[q]] # FreeSlot
    BY <1>3, OwnElevator, PoolAssumption DEF StageInv
<1>6. eq' \in [Slots -> Elevator] /\ SlotsInv' /\ SameSlots
    BY <1>4, <1>5, RegisteredSet
<1>7. SlotsOf(q)' = SlotsOf(q) /\ SameElevators
    BY <1>3, <1>4, <1>6, SameSlotsFacts
<1>8. /\ LocksInv' /\ call' \in [Callers -> Call] /\ Step(q)' = "init" /\ Old(q)' = Old(q)
      /\ holder' \in [Queues -> Callers \cup {None}] /\ OthersCalls(q)
      /\ \A m \in Modules : UsersOf(m)' = UsersOf(m)
    BY <1>1, <1>2, <1>4, GoesOn DEF Holding, Steps
<1>9. TypesHeld' /\ refs' \in [Modules -> Nat]
    BY <1>4, <1>7, <1>8, RefsStay DEF types, IInv, TypeOK
<1>10. StageInv(q)'
    BY <1>3, <1>4, <1>7, <1>8 DEF StageInv
<1>11. bypass' = bypass /\ q \in bypass
    BY <1>3, <1>4 DEF FlowInv
<1> QED
    BY <1>2, <1>3, <1>4, <1>6, <1>8, <1>9, <1>10, <1>11, QuietStep DEF Quiesced, types

LEMMA SwitchInitFailsStep == ASSUME IInv, NEW t \in Callers, SwitchInitFails(t) PROVE IInv'
<1>1. PICK q : q = call[t].q
    OBVIOUS
<1>2. ~At(t, "idle") /\ HoldsType(t) /\ call[t].pc = "init" /\ Goes(t, "fail_init")
    BY DEF SwitchInitFails, At, HoldsType
<1>3. q \in Queues /\ Step(q) = "init"
    BY <1>1, <1>2, CallerFacts
<1>4. UNCHANGED <<state, elv_list, elevator, eq, bypass, holder, io, oops>>
    BY DEF SwitchInitFails
<1>5. SlotsOf(q)' = SlotsOf(q) /\ SameElevators
    BY <1>3, <1>4, SlotsUnchanged, SameSlotsFacts
<1>6. /\ LocksInv' /\ call' \in [Callers -> Call] /\ Step(q)' = "fail_init" /\ Old(q)' = Old(q)
      /\ holder' \in [Queues -> Callers \cup {None}] /\ OthersCalls(q) /\ UsersFollow(t, Idle)
    BY <1>1, <1>2, <1>4, GoesOn DEF Holding, Steps
<1>7. TypesHeld' /\ refs' \in [Modules -> Nat]
    BY <1>2, <1>4, <1>5, <1>6, RefDropped DEF SwitchInitFails, Idle, Holding
<1>8. StageInv(q)'
    BY <1>3, <1>4, <1>5, <1>6 DEF StageInv, IInv
<1> QED
    BY <1>3, <1>4, <1>6, <1>7, <1>8, CallerQuiet DEF Quiesced

LEMMA RegisterStep == ASSUME IInv, NEW t \in Callers, Register(t) PROVE IInv'
<1>1. PICK q : q = call[t].q
    OBVIOUS
<1>2. ~At(t, "idle") /\ ~HoldsType(t) /\ call[t].pc = "register" /\ Goes(t, "exit")
    BY DEF Register, At, HoldsType
<1>3. q \in Queues /\ Step(q) = "register" /\ StageInv(q) /\ FlowInv(q)
    BY <1>1, <1>2, CallerFacts DEF IInv
<1>4. /\ UNCHANGED <<types, elevator, bypass, holder, io, oops>> /\ bypass \subseteq Queues
      /\ eq' = [eq EXCEPT ![elevator[q]].registered = TRUE]
    BY <1>1 DEF Register, IInv, TypeOK
<1>5. elevator[q] \in Slots /\ eq[elevator[q]] # FreeSlot
    BY <1>3, OwnElevator, PoolAssumption DEF StageInv
<1>6. eq' \in [Slots -> Elevator] /\ SlotsInv' /\ SameSlots
    BY <1>4, <1>5, RegisteredSet
<1>7. SlotsOf(q)' = SlotsOf(q) /\ SameElevators
    BY <1>3, <1>4, <1>6, SameSlotsFacts
<1>8. /\ LocksInv' /\ call' \in [Callers -> Call] /\ Step(q)' = "exit" /\ Old(q)' = Old(q)
      /\ holder' \in [Queues -> Callers \cup {None}] /\ OthersCalls(q) /\ UsersFollow(t, Idle)
    BY <1>1, <1>2, <1>4, GoesOn DEF Holding, Steps
<1>9. \A m \in Modules : UsersOf(m)' = UsersOf(m)
    BY <1>2, <1>8 DEF UsersFollow, UsersOf, Idle, Holding
<1>10. TypesHeld' /\ refs' \in [Modules -> Nat]
    BY <1>4, <1>7, <1>9, RefsStay DEF types, IInv, TypeOK
<1>11. StageInv(q)'
    BY <1>3, <1>4, <1>7, <1>8 DEF StageInv
<1>12. bypass' = bypass /\ q \in bypass
    BY <1>3, <1>4 DEF FlowInv, Quiesced
<1> QED
    BY <1>3, <1>4, <1>6, <1>8, <1>10, <1>11, <1>12, QuietStep DEF Quiesced, types

LEMMA RegisterFailsStep == ASSUME IInv, NEW t \in Callers, RegisterFails(t) PROVE IInv'
<1>1. PICK q : q = call[t].q
    OBVIOUS
<1>2. ~At(t, "idle") /\ ~HoldsType(t) /\ call[t].pc = "register" /\ Goes(t, "fail_register")
    BY DEF RegisterFails, At, HoldsType
<1>3. q \in Queues /\ Step(q) = "register"
    BY <1>1, <1>2, CallerFacts
<1>4. UNCHANGED <<types, elevator, eq, bypass, holder, io, oops>>
    BY DEF RegisterFails
<1>5. SlotsOf(q)' = SlotsOf(q) /\ SameElevators
    BY <1>3, <1>4, SlotsUnchanged, SameSlotsFacts
<1>6. /\ LocksInv' /\ call' \in [Callers -> Call] /\ Step(q)' = "fail_register"
      /\ Old(q)' = Old(q) /\ holder' \in [Queues -> Callers \cup {None}]
      /\ OthersCalls(q) /\ UsersFollow(t, Idle)
    BY <1>1, <1>2, <1>4, GoesOn DEF Holding, Steps
<1>7. \A m \in Modules : UsersOf(m)' = UsersOf(m)
    BY <1>2, <1>6 DEF UsersFollow, UsersOf, Idle, Holding
<1>8. TypesHeld' /\ refs' \in [Modules -> Nat]
    BY <1>4, <1>5, <1>7, RefsStay DEF types, IInv, TypeOK
<1>9. StageInv(q)'
    BY <1>3, <1>4, <1>5, <1>6 DEF StageInv, IInv
<1> QED
    BY <1>3, <1>4, <1>6, <1>8, <1>9, CallerQuiet DEF Quiesced, types

-----------------------------------------------------------------------------
(* The steps that make and free elevators *)

\* A queue with no request at all, in this state or the next.
LEMMA EmptyFlow ==
    ASSUME NEW q \in Queues, got'[q] = 0, out'[q] = 0,
           elevator'[q] \in Slots \cup {None}, \A x \in SlotsOf(q)' : eq'[x].queued = 0,
           q \in bypass' <=> Step(q)' \in {"drain"} \cup Quiesced
    PROVE  FlowInv(q)'
<1>1. Queued(q)' = 0
    BY DEF Queued, Dangling, SlotsOf
<1> QED
    BY <1>1, PoolAssumption DEF FlowInv

\* A queue whose drain is over, and stays over, has no request.
LEMMA QuiescedFacts ==
    ASSUME IInv, NEW t \in Callers, ~At(t, "idle"), NEW q, q = call[t].q, call[t].pc \in Quiesced
    PROVE  /\ q \in Queues /\ Step(q) = call[t].pc /\ Old(q) = call[t].old /\ Old(q) \in Slots
           /\ StageInv(q) /\ q \in bypass /\ got[q] = 0 /\ out[q] = 0
           /\ \A x \in SlotsOf(q) : eq[x].queued = 0
<1>1. q \in Queues /\ Step(q) = call[t].pc /\ Old(q) = call[t].old
    BY CallerFacts
<1>2. StageInv(q) /\ FlowInv(q)
    BY <1>1 DEF IInv
<1>3. Old(q) \in Slots
    BY <1>1, <1>2 DEF StageInv, Quiesced
<1> QED
    BY <1>1, <1>2, <1>3 DEF FlowInv

LEMMA InitFnFacts ==
    ASSUME IInv, NEW t \in Callers, HoldsType(t), NEW q \in Queues, q = call[t].q,
           NEW x \in Slots, InitFn(t, x)
    PROVE  /\ eq' \in [Slots -> Elevator] /\ SlotsInv' /\ OthersSlots(q)
           /\ elevator' \in [Queues -> Slots \cup {None}] /\ elevator'[q] = x
           /\ \A p \in Queues \ {q} : elevator'[p] = elevator[p]
           /\ SlotsOf(q)' = SlotsOf(q) \cup {x} /\ x \notin SlotsOf(q)
           /\ eq'[x].queued = 0 /\ \A y \in Slots \ {x} : eq'[y] = eq[y]
<1>1. PICK m : m = call[t].type
    OBVIOUS
<1>2. PICK e : e = NewElevator(m, q)
    OBVIOUS
<1>3. m \in Modules /\ None \notin Queues /\ MaxIO \in Nat
    BY <1>1, PoolAssumption DEF IInv, LocksInv
<1>4. e \in Elevator /\ e.type = m /\ e.queue = q /\ e.queued = 0
    BY <1>2, <1>3 DEF NewElevator, Elevator
<1>5. eq[x].queue = None /\ eq \in [Slots -> Elevator] /\ eq' = [eq EXCEPT ![x] = e]
    BY <1>1, <1>2 DEF InitFn, FreeSlot, IInv, TypeOK
<1>6. eq' \in [Slots -> Elevator] /\ eq'[x] = e /\ \A y \in Slots \ {x} : eq'[y] = eq[y]
    BY <1>4, <1>5
<1>7. SlotsInv'
    BY <1>3, <1>4, <1>6 DEF IInv, SlotsInv
<1>8. OthersSlots(q) /\ SlotsOf(q)' = SlotsOf(q) \cup {x} /\ x \notin SlotsOf(q)
    BY <1>3, <1>4, <1>5, <1>6 DEF OthersSlots, SlotsOf
<1>9. /\ elevator' \in [Queues -> Slots \cup {None}] /\ elevator'[q] = x
      /\ \A p \in Queues \ {q} : elevator'[p] = elevator[p]
    BY DEF InitFn, IInv, TypeOK
<1> QED
    BY <1>4, <1>6, <1>7, <1>8, <1>9

LEMMA ExitFacts ==
    ASSUME IInv, NEW q \in Queues, NEW x \in SlotsOf(q), Exit(x)
    PROVE  /\ eq' \in [Slots -> Elevator] /\ SlotsInv' /\ OthersSlots(q)
           /\ SlotsOf(q)' = SlotsOf(q) \ {x} /\ eq[x].type \in Modules
           /\ \A y \in Slots \ {x} : eq'[y] = eq[y]
<1>1. x \in Slots /\ eq[x].queue = q /\ None \notin Queues /\ MaxIO \in Nat
    BY PoolAssumption DEF SlotsOf
<1>2. FreeSlot \in Elevator /\ FreeSlot.queue = None
    BY <1>1 DEF FreeSlot, Elevator
<1>3. eq \in [Slots -> Elevator] /\ eq' = [eq EXCEPT ![x] = FreeSlot]
    BY DEF Exit, IInv, TypeOK
<1>4. eq' \in [Slots -> Elevator] /\ eq'[x] = FreeSlot /\ \A y \in Slots \ {x} : eq'[y] = eq[y]
    BY <1>1, <1>2, <1>3
<1>5. SlotsInv' /\ eq[x].type \in Modules
    BY <1>1, <1>2, <1>4 DEF IInv, SlotsInv
<1>6. OthersSlots(q) /\ SlotsOf(q)' = SlotsOf(q) \ {x}
    BY <1>1, <1>2, <1>4 DEF OthersSlots, SlotsOf
<1> QED
    BY <1>4, <1>5, <1>6

LEMMA BootInitStep == ASSUME IInv, NEW t \in Callers, BootInit(t) PROVE IInv'
<1>1. PICK q : q = call[t].q
    OBVIOUS
<1>2. ~At(t, "idle") /\ HoldsType(t) /\ call[t].pc = "boot_init" /\ Return(t)
    BY DEF BootInit, At, HoldsType
<1>3. q \in Queues /\ Step(q) = "boot_init" /\ StageInv(q) /\ FlowInv(q)
    BY <1>1, <1>2, CallerFacts DEF IInv
<1>4. UNCHANGED <<types, bypass, io, oops>>
    BY DEF BootInit
<1>5. PICK x \in Slots : InitFn(t, x)
    BY DEF BootInit
<1>6. /\ eq' \in [Slots -> Elevator] /\ SlotsInv' /\ OthersSlots(q)
      /\ elevator' \in [Queues -> Slots \cup {None}] /\ elevator'[q] = x
      /\ \A p \in Queues \ {q} : elevator'[p] = elevator[p]
      /\ SlotsOf(q)' = SlotsOf(q) \cup {x} /\ eq'[x].queued = 0
    BY <1>1, <1>2, <1>3, <1>5, InitFnFacts
<1>7. /\ LocksInv' /\ call' \in [Callers -> Call] /\ Step(q)' = "idle"
      /\ holder' \in [Queues -> Callers \cup {None}] /\ OthersCalls(q) /\ UsersFollow(t, Idle)
    BY <1>1, <1>2, Returns
<1>8. TypesHeld'
  <2>1. eq[x] = FreeSlot /\ eq' = [eq EXCEPT ![x] = NewElevator(call[t].type, q)]
      BY <1>1, <1>5 DEF InitFn
  <2> QED
      BY <1>2, <1>4, <1>7, <2>1, RefMoved DEF types, Idle, Holding
<1>9. TypeOK' /\ ModulesInv' /\ OthersData(q)
    BY <1>4, <1>6, <1>7 DEF IInv, TypeOK, ModulesInv, OthersData, types, io
<1>10. SlotsOf(q)' = {x} /\ StageInv(q)'
  <2>1. SlotsOf(q) = {} /\ elevator[q] = None
      BY <1>3 DEF StageInv
  <2> QED
      BY <1>6, <1>7, <2>1, PoolAssumption DEF StageInv
<1>11. FlowInv(q)'
  <2>1. elevator[q] = None
      BY <1>3 DEF StageInv
  <2>2. got'[q] = 0 /\ out'[q] = 0 /\ q \notin bypass'
      BY <1>3, <1>4, <2>1 DEF FlowInv, io, Quiesced
  <2> QED
      BY <1>3, <1>6, <1>7, <1>10, <2>2, EmptyFlow DEF Quiesced
<1> QED
    BY <1>3, <1>6, <1>7, <1>8, <1>9, <1>10, <1>11, OneQueue

LEMMA SwitchInitStep == ASSUME IInv, NEW t \in Callers, SwitchInit(t) PROVE IInv'
<1>1. PICK q : q = call[t].q
    OBVIOUS
<1>2. PICK step \in {"register", "exit"} : Goes(t, step)
    BY DEF SwitchInit
<1>3. ~At(t, "idle") /\ HoldsType(t) /\ call[t].pc = "init" /\ call[t].pc \in Quiesced
    BY DEF SwitchInit, At, HoldsType, Quiesced
<1>4. UNCHANGED <<types, bypass, holder, io, oops>>
    BY DEF SwitchInit
<1>5. PICK x \in Slots : InitFn(t, x)
    BY DEF SwitchInit
<1>6. /\ q \in Queues /\ Step(q) = "init" /\ Old(q) \in Slots /\ StageInv(q) /\ q \in bypass
      /\ got[q] = 0 /\ out[q] = 0 /\ \A y \in SlotsOf(q) : eq[y].queued = 0
    BY <1>1, <1>3, QuiescedFacts
<1>7. /\ eq' \in [Slots -> Elevator] /\ SlotsInv' /\ OthersSlots(q)
      /\ elevator' \in [Queues -> Slots \cup {None}] /\ elevator'[q] = x
      /\ \A p \in Queues \ {q} : elevator'[p] = elevator[p]
      /\ SlotsOf(q)' = SlotsOf(q) \cup {x} /\ x \notin SlotsOf(q) /\ eq'[x].queued = 0
      /\ \A y \in Slots \ {x} : eq'[y] = eq[y]
    BY <1>1, <1>3, <1>5, <1>6, InitFnFacts
<1>8. /\ LocksInv' /\ call' \in [Callers -> Call] /\ Step(q)' = step /\ Old(q)' = Old(q)
      /\ holder' \in [Queues -> Callers \cup {None}] /\ OthersCalls(q) /\ UsersFollow(t, Idle)
    BY <1>1, <1>2, <1>3, <1>4, GoesOn DEF Holding, Steps
<1>9. TypesHeld'
  <2>1. eq[x] = FreeSlot /\ eq' = [eq EXCEPT ![x] = NewElevator(call[t].type, q)]
      BY <1>1, <1>5 DEF InitFn
  <2> QED
      BY <1>3, <1>4, <1>8, <2>1, RefMoved DEF types, Idle, Holding
<1>10. TypeOK' /\ ModulesInv' /\ OthersData(q)
    BY <1>4, <1>7, <1>8 DEF IInv, TypeOK, ModulesInv, OthersData, types, io
<1>11. StageInv(q)'
  <2>1. SlotsOf(q) = {Old(q)}
      BY <1>6 DEF StageInv
  <2> QED
      BY <1>2, <1>6, <1>7, <1>8, <2>1 DEF StageInv
<1>12. FlowInv(q)'
  <2>1. \A y \in SlotsOf(q)' : eq'[y].queued = 0
      BY <1>6, <1>7 DEF SlotsOf
  <2>2. got'[q] = 0 /\ out'[q] = 0 /\ q \in bypass'
      BY <1>4, <1>6 DEF io
  <2> QED
      BY <1>2, <1>6, <1>7, <1>8, <2>1, <2>2, EmptyFlow DEF Quiesced
<1> QED
    BY <1>6, <1>7, <1>8, <1>9, <1>10, <1>11, <1>12, OneQueue

LEMMA ExitOldStep == ASSUME IInv, NEW t \in Callers, ExitOld(t) PROVE IInv'
<1>1. PICK q : q = call[t].q
    OBVIOUS
<1>2. /\ ~At(t, "idle") /\ ~HoldsType(t) /\ call[t].pc = "exit" /\ call[t].pc \in Quiesced
      /\ Return(t)
    BY DEF ExitOld, At, HoldsType, Quiesced
<1>3. UNCHANGED <<state, elv_list, elevator, io, oops>> /\ bypass' = bypass \ {q}
    BY <1>1 DEF ExitOld
<1>4. /\ q \in Queues /\ Step(q) = "exit" /\ Old(q) = call[t].old /\ Old(q) \in Slots
      /\ StageInv(q) /\ got[q] = 0 /\ out[q] = 0 /\ \A y \in SlotsOf(q) : eq[y].queued = 0
    BY <1>1, <1>2, QuiescedFacts
<1>5. /\ elevator[q] \in Slots \ {Old(q)} /\ SlotsOf(q) = {Old(q), elevator[q]}
      /\ Exit(Old(q))
    BY <1>4 DEF StageInv, ExitOld
<1>6. /\ eq' \in [Slots -> Elevator] /\ SlotsInv' /\ OthersSlots(q)
      /\ SlotsOf(q)' = SlotsOf(q) \ {Old(q)} /\ eq[Old(q)].type \in Modules
      /\ \A y \in Slots \ {Old(q)} : eq'[y] = eq[y]
    BY <1>4, <1>5, ExitFacts
<1>7. /\ LocksInv' /\ call' \in [Callers -> Call] /\ Step(q)' = "idle"
      /\ holder' \in [Queues -> Callers \cup {None}] /\ OthersCalls(q) /\ UsersFollow(t, Idle)
    BY <1>1, <1>2, Returns
<1>8. \A m \in Modules : UsersOf(m)' = UsersOf(m)
    BY <1>2, <1>7 DEF UsersFollow, UsersOf, Idle, Holding
<1>9. TypesHeld' /\ refs' \in [Modules -> Nat]
    BY <1>3, <1>4, <1>5, <1>6, <1>8, RefFreed
<1>10. TypeOK' /\ ModulesInv' /\ OthersData(q)
    BY <1>3, <1>6, <1>7, <1>9 DEF IInv, TypeOK, ModulesInv, OthersData, io
<1>11. SlotsOf(q)' = {elevator[q]} /\ StageInv(q)'
    BY <1>3, <1>5, <1>6, <1>7, PoolAssumption DEF StageInv
<1>12. FlowInv(q)'
  <2>1. \A y \in SlotsOf(q)' : eq'[y].queued = 0
      BY <1>4, <1>5, <1>6, <1>11
  <2>2. got'[q] = 0 /\ out'[q] = 0 /\ q \notin bypass' /\ elevator'[q] \in Slots
      BY <1>3, <1>4, <1>5 DEF io
  <2> QED
      BY <1>4, <1>7, <2>1, <2>2, EmptyFlow DEF Quiesced
<1> QED
    BY <1>4, <1>6, <1>7, <1>9, <1>10, <1>11, <1>12, OneQueue

LEMMA FailRegisterStep == ASSUME IInv, NEW t \in Callers, FailRegister(t) PROVE IInv'
<1>1. PICK q : q = call[t].q
    OBVIOUS
<1>2. /\ ~At(t, "idle") /\ ~HoldsType(t) /\ call[t].pc = "fail_register"
      /\ call[t].pc \in Quiesced /\ Goes(t, "fail_init")
    BY DEF FailRegister, At, HoldsType, Quiesced
<1>3. UNCHANGED <<state, elv_list, elevator, bypass, holder, io, oops>>
    BY DEF FailRegister
<1>4. /\ q \in Queues /\ Step(q) = "fail_register" /\ Old(q) \in Slots /\ q \in bypass
      /\ StageInv(q) /\ got[q] = 0 /\ out[q] = 0 /\ \A y \in SlotsOf(q) : eq[y].queued = 0
    BY <1>1, <1>2, QuiescedFacts
<1>5. PICK e \in Slots : e = elevator[q] /\ e # Old(q)
    BY <1>4 DEF StageInv
<1>6. SlotsOf(q) = {Old(q), e} /\ Exit(e)
    BY <1>1, <1>4, <1>5 DEF StageInv, FailRegister
<1>7. /\ eq' \in [Slots -> Elevator] /\ SlotsInv' /\ OthersSlots(q)
      /\ SlotsOf(q)' = SlotsOf(q) \ {e} /\ eq[e].type \in Modules
      /\ \A y \in Slots \ {e} : eq'[y] = eq[y]
    BY <1>4, <1>6, ExitFacts
<1>8. /\ LocksInv' /\ call' \in [Callers -> Call] /\ Step(q)' = "fail_init" /\ Old(q)' = Old(q)
      /\ holder' \in [Queues -> Callers \cup {None}] /\ OthersCalls(q) /\ UsersFollow(t, Idle)
    BY <1>1, <1>2, <1>3, GoesOn DEF Holding, Steps
<1>9. \A m \in Modules : UsersOf(m)' = UsersOf(m)
    BY <1>2, <1>8 DEF UsersFollow, UsersOf, Idle, Holding
<1>10. TypesHeld' /\ refs' \in [Modules -> Nat]
    BY <1>3, <1>6, <1>7, <1>9, RefFreed
<1>11. TypeOK' /\ ModulesInv' /\ OthersData(q)
    BY <1>3, <1>7, <1>8, <1>10 DEF IInv, TypeOK, ModulesInv, OthersData, io
<1>12. SlotsOf(q)' = {Old(q)} /\ StageInv(q)'
    BY <1>3, <1>4, <1>5, <1>6, <1>7, <1>8 DEF StageInv
<1>13. FlowInv(q)'
  <2>1. \A y \in SlotsOf(q)' : eq'[y].queued = 0
      BY <1>4, <1>5, <1>6, <1>7, <1>12
  <2>2. got'[q] = 0 /\ out'[q] = 0 /\ q \in bypass' /\ elevator'[q] \in Slots
      BY <1>3, <1>4, <1>5 DEF io
  <2> QED
      BY <1>4, <1>8, <2>1, <2>2, EmptyFlow DEF Quiesced
<1> QED
    BY <1>4, <1>7, <1>8, <1>10, <1>11, <1>12, <1>13, OneQueue

LEMMA FailInitStep == ASSUME IInv, NEW t \in Callers, FailInit(t) PROVE IInv'
<1>1. PICK q : q = call[t].q
    OBVIOUS
<1>2. /\ ~At(t, "idle") /\ ~HoldsType(t) /\ call[t].pc = "fail_init"
      /\ call[t].pc \in Quiesced /\ Return(t)
    BY DEF FailInit, At, HoldsType, Quiesced
<1>3. UNCHANGED <<types, io, oops>> /\ bypass' = bypass \ {q}
    BY <1>1 DEF FailInit
<1>4. /\ q \in Queues /\ Step(q) = "fail_init" /\ Old(q) = call[t].old /\ Old(q) \in Slots
      /\ StageInv(q) /\ got[q] = 0 /\ out[q] = 0 /\ \A y \in SlotsOf(q) : eq[y].queued = 0
    BY <1>1, <1>2, QuiescedFacts
<1>5. PICK x \in Slots : x = Old(q)
    BY <1>4
<1>6. PICK ok \in BOOLEAN : eq' = [eq EXCEPT ![x].registered = ok]
    BY <1>4, <1>5 DEF FailInit
<1>7. /\ elevator' = [elevator EXCEPT ![q] = x] /\ elevator \in [Queues -> Slots \cup {None}]
      /\ SlotsOf(q) = {x} /\ eq[x] # FreeSlot
  <2>1. SlotsOf(q) = {x}
      BY <1>4, <1>5 DEF StageInv
  <2>2. eq[x].queue = q
      BY <2>1 DEF SlotsOf
  <2> QED
      BY <1>1, <1>4, <1>5, <2>1, <2>2, PoolAssumption DEF FailInit, Restore, FreeSlot, IInv, TypeOK
<1>8. /\ elevator' \in [Queues -> Slots \cup {None}] /\ elevator'[q] = x
      /\ \A p \in Queues \ {q} : elevator'[p] = elevator[p]
    BY <1>4, <1>7
<1>9. eq' \in [Slots -> Elevator] /\ SlotsInv' /\ SameSlots
    BY <1>6, <1>7, RegisteredSet
<1>10. SlotsOf(q)' = {x} /\ OthersSlots(q) /\ SameElevators
    BY <1>7, <1>9 DEF SameSlots, SlotsOf, OthersSlots, SameElevators, ElevatorsOf
<1>11. /\ LocksInv' /\ call' \in [Callers -> Call] /\ Step(q)' = "idle"
       /\ holder' \in [Queues -> Callers \cup {None}] /\ OthersCalls(q)
       /\ TypesHeld' /\ refs' \in [Modules -> Nat]
    BY <1>1, <1>2, <1>3, <1>10, ReturnsWithout
<1>12. TypeOK' /\ ModulesInv' /\ OthersData(q)
    BY <1>3, <1>8, <1>9, <1>10, <1>11 DEF IInv, TypeOK, ModulesInv, OthersData, io, types
<1>13. StageInv(q)'
    BY <1>8, <1>10, <1>11, PoolAssumption DEF StageInv
<1>14. FlowInv(q)'
  <2>1. \A y \in SlotsOf(q)' : eq'[y].queued = 0
      BY <1>4, <1>7, <1>9, <1>10 DEF SameSlots
  <2>2. got'[q] = 0 /\ out'[q] = 0 /\ q \notin bypass'
      BY <1>3, <1>4 DEF io
  <2> QED
      BY <1>4, <1>8, <1>11, <2>1, <2>2, EmptyFlow DEF Quiesced
<1> QED
    BY <1>4, <1>9, <1>11, <1>12, <1>13, <1>14, OneQueue

LEMMA ReleaseQueueStep == ASSUME IInv, NEW q \in Queues, ReleaseQueue(q) PROVE IInv'
<1>1. Step(q) = "idle" /\ StageInv(q) /\ FlowInv(q)
    BY DEF ReleaseQueue, Step, IInv
<1>2. PICK e \in Slots : e = elevator[q] /\ Exit(e) /\ SlotsOf(q) = {e}
    BY <1>1, OwnElevator DEF ReleaseQueue, StageInv
<1>3. /\ UNCHANGED <<state, elv_list, bypass, holder, io, call, oops>>
      /\ elevator' = [elevator EXCEPT ![q] = None]
      /\ elevator \in [Queues -> Slots \cup {None}]
    BY DEF ReleaseQueue, IInv, TypeOK
<1>4. /\ elevator' \in [Queues -> Slots \cup {None}] /\ elevator'[q] = None
      /\ \A p \in Queues \ {q} : elevator'[p] = elevator[p]
    BY <1>3
<1>5. /\ eq' \in [Slots -> Elevator] /\ SlotsInv' /\ OthersSlots(q)
      /\ SlotsOf(q)' = {} /\ eq[e].type \in Modules
    BY <1>2, ExitFacts
<1>6. /\ LocksInv' /\ OthersCalls(q) /\ Step(q)' = "idle"
      /\ \A m \in Modules : UsersOf(m)' = UsersOf(m)
    BY <1>1, <1>3, NoCall
<1>7. TypesHeld' /\ refs' \in [Modules -> Nat]
    BY <1>2, <1>3, <1>5, <1>6, RefFreed
<1>8. TypeOK' /\ ModulesInv' /\ OthersData(q)
    BY <1>3, <1>4, <1>5, <1>7 DEF IInv, TypeOK, ModulesInv, OthersData, io
<1>9. StageInv(q)'
    BY <1>4, <1>5, <1>6 DEF StageInv
<1>10. FlowInv(q)'
  <2>1. /\ got[q] \in Nat /\ out[q] \in Nat /\ Queued(q) \in Nat
        /\ got[q] + Queued(q) + out[q] = 0
      BY <1>1, OwnElevator, PoolAssumption DEF ReleaseQueue, Drained, IInv, TypeOK, Elevator
  <2>2. got'[q] = 0 /\ out'[q] = 0 /\ q \notin bypass'
      BY <1>1, <1>3, <2>1 DEF io, FlowInv, Quiesced
  <2> QED
      BY <1>4, <1>5, <1>6, <2>2, EmptyFlow DEF Quiesced
<1> QED
    BY <1>5, <1>6, <1>7, <1>8, <1>9, <1>10, OneQueue

-----------------------------------------------------------------------------
(* The inductive invariant, and what it implies *)

LEMMA InitIInv == Init => IInv
<1> SUFFICES ASSUME Init PROVE IInv
    OBVIOUS
<1>1. /\ Idle \in Call /\ Idle.pc = "idle" /\ MaxIO \in Nat
      /\ FreeSlot \in Elevator /\ FreeSlot.type = None /\ FreeSlot.queue = None
      /\ None \notin Modules \cup Queues \cup Callers \cup Slots /\ BuiltIn \subseteq Modules
    BY PoolAssumption, ModuleAssumption DEF Idle, Call, Steps, FreeSlot, Elevator
<1>2. /\ \A t \in Callers : call[t] = Idle /\ ~HoldsType(t)
      /\ \A x \in Slots : eq[x] = FreeSlot
      /\ \A q \in Queues : /\ elevator[q] = None /\ holder[q] = None
                            /\ got[q] = 0 /\ out[q] = 0 /\ q \notin bypass
    BY <1>1 DEF Init, HoldsType
<1>3. TypeOK
  <2>1. /\ state \in [Modules -> {"absent", "live", "going"}] /\ elv_list \subseteq Modules
        /\ refs \in [Modules -> Nat] /\ elevator \in [Queues -> Slots \cup {None}]
        /\ bypass \subseteq Queues /\ holder \in [Queues -> Callers \cup {None}]
        /\ got \in [Queues -> 0..MaxIO] /\ out \in [Queues -> 0..MaxIO]
      BY <1>1 DEF Init
  <2>2. eq \in [Slots -> Elevator] /\ call \in [Callers -> Call]
      BY <1>1 DEF Init
  <2>3. oops \in BOOLEAN
      BY DEF Init
  <2> QED
      BY <2>1, <2>2, <2>3 DEF TypeOK
<1>4. LocksInv /\ SlotsInv
    BY <1>1, <1>2 DEF LocksInv, SlotsInv, At
<1>5. ModulesInv
    BY <1>1 DEF Init, ModulesInv
<1>6. TypesHeld
  <2>1. \A m \in Modules : ElevatorsOf(m) = {} /\ UsersOf(m) = {} /\ refs[m] = 0
      BY <1>1, <1>2 DEF ElevatorsOf, UsersOf, Init
  <2> QED
      BY <2>1, FS_EmptySet DEF TypesHeld
<1>7. ASSUME NEW q \in Queues PROVE StageInv(q) /\ FlowInv(q)
  <2>1. Step(q) = "idle" /\ SlotsOf(q) = {} /\ Queued(q) = 0
      BY <1>1, <1>2 DEF Step, SlotsOf, Queued
  <2> QED
      BY <1>1, <1>2, <2>1 DEF StageInv, FlowInv, Quiesced
<1> QED
    BY <1>3, <1>4, <1>5, <1>6, <1>7 DEF IInv

LEMMA CallerStep == ASSUME IInv, NEW t \in Callers, Proceed(t) PROVE IInv'
BY InitTriesStep, BootInitStep, BootInitFailsStep, LookupStep, AgainStep, SameTypeStep,
   StartBypassStep, EndDrainStep, SwitchInitStep, SwitchInitFailsStep, RegisterStep,
   RegisterFailsStep, ExitOldStep, FailRegisterStep, FailInitStep DEF Proceed

\* Every step of Next, and the halt after an oops, keeps the invariant.
LEMMA NextIInv == IInv /\ [Next \/ Stopped]_vars => IInv'
<1> SUFFICES ASSUME IInv, [Next \/ Stopped]_vars PROVE IInv'
    OBVIOUS
<1>1. CASE UNCHANGED vars
  <2>1. UNCHANGED <<types, elevator, eq, bypass, holder, io, call>> /\ oops' \in BOOLEAN
      BY <1>1 DEF vars, IInv, TypeOK
  <2> QED
      BY <2>1, StutterStep
<1>2. ASSUME NEW m \in Modules, Load(m) \/ StartUnload(m) \/ Unload(m) PROVE IInv'
    BY <1>2, LoadStep, StartUnloadStep, UnloadStep
<1>3. ASSUME NEW q \in Queues, \/ GetRequest(q) \/ Serve(q)
                               \/ SubmitBypassing(q) \/ SubmitToFreed(q)
                               \/ RegisterQueue(q) \/ UnregisterQueue(q) \/ ReleaseQueue(q)
      PROVE  IInv'
    BY <1>3, GetRequestStep, AddRequestStep, DispatchStep, CompleteStep, SubmitBypassingStep,
       SubmitToFreedStep, RegisterQueueStep, UnregisterQueueStep, ReleaseQueueStep DEF Serve
<1>4. ASSUME NEW t \in Callers, \/ Proceed(t)
                                \/ \E q \in Queues : StartInit(t, q)
                                \/ \E q \in Queues, n \in Names : StartChange(t, q, n)
      PROVE  IInv'
    BY <1>4, CallerStep, StartInitStep, StartChangeStep
<1> QED
    BY <1>1, <1>2, <1>3, <1>4 DEF Next, Stopped

LEMMA SpecIInv == Spec => []IInv
BY InitIInv, NextIInv, PTL DEF Spec

\* What is true of a caller's queue once the drain is over.
LEMMA IInvQuiesced == IInv => QuiescedIsEmpty
<1> SUFFICES ASSUME IInv PROVE QuiescedIsEmpty
    OBVIOUS
<1>1. ASSUME NEW x \in Slots, eq[x].queued > 0 PROVE elevator[eq[x].queue] = x
  <2>1. eq[x] # FreeSlot /\ eq[x].queue \in Queues
      BY <1>1 DEF FreeSlot, IInv, SlotsInv
  <2>2. PICK q \in Queues : q = eq[x].queue
      BY <2>1
  <2>3. FlowInv(q) /\ x \in SlotsOf(q)
      BY <2>2 DEF IInv, SlotsOf
  <2> QED
      BY <1>1, <2>2, <2>3 DEF FlowInv
<1>2. ASSUME NEW t \in Callers, call[t].pc \in Quiesced PROVE Drained(call[t].q)
  <2>1. PICK q : q = call[t].q
      OBVIOUS
  <2>2. ~At(t, "idle")
      BY <1>2 DEF At, Quiesced
  <2>3. q \in Queues /\ got[q] = 0 /\ out[q] = 0 /\ \A x \in SlotsOf(q) : eq[x].queued = 0
      BY <1>2, <2>1, <2>2, QuiescedFacts
  <2>4. Queued(q) = 0
      BY <2>3 DEF Queued, Dangling, SlotsOf, IInv, TypeOK
  <2> QED
      BY <2>1, <2>3, <2>4 DEF Drained
<1> QED
    BY <1>1, <1>2 DEF QuiescedIsEmpty, Quiesced

LEMMA IInvOneElevator == IInv => ChangeKeepsOneElevator
<1> SUFFICES ASSUME IInv, NEW q \in Queues, holder[q] = None
             PROVE  SlotsOf(q) = {elevator[q]} \ {None} /\ q \notin bypass
    BY DEF ChangeKeepsOneElevator, SlotsOf
<1>1. Step(q) = "idle" /\ StageInv(q) /\ FlowInv(q)
    BY DEF Step, IInv
<1> QED
    BY <1>1 DEF StageInv, FlowInv, Quiesced

\* The variables keep their types: requests with elevator data stay within their
\* bound, and every pointer of a queue or a call names a slot, a module or NULL.
THEOREM SwitchTypeCorrect == Spec => []TypeOK
<1>1. IInv => TypeOK
    BY DEF IInv
<1> QED
    BY <1>1, SpecIInv, PTL

\* elevator_get, elevator_alloc, elevator_release and their error paths balance:
\* however calls and module loading interleave, a module's count is the number of
\* those who use its type, and what is used is registered and loaded.
THEOREM ReferencesBalance == Spec => []TypesHeld
<1>1. IInv => TypesHeld
    BY DEF IInv
<1> QED
    BY <1>1, SpecIInv, PTL

\* elevator_switch quiesces: once its drain is over no request has elevator data
\* until the call returns, so no exit_fn finds its queue non-empty.
THEOREM SwitchQuiesces == Spec => []QuiescedIsEmpty
BY IInvQuiesced, SpecIInv, PTL

\* A queue at rest is out of bypass mode and has exactly the elevator it points to,
\* whichever step of which change failed.
THEOREM ChangeLeavesOneElevator == Spec => []ChangeKeepsOneElevator
BY IInvOneElevator, SpecIInv, PTL

-----------------------------------------------------------------------------
(* When a queue points to a freed elevator *)

\* q->elevator names a freed elevator in one place only: between elevator_exit of
\* the new elevator and the restoring of the old one, after fail_register.
DanglesOnlyInFailInit == \A q \in Queues : Dangling(q) => Step(q) = "fail_init"

LEMMA IInvDangles == IInv => DanglesOnlyInFailInit
<1> SUFFICES ASSUME IInv, NEW q \in Queues, Dangling(q) PROVE Step(q) = "fail_init"
    BY DEF DanglesOnlyInFailInit
<1>1. StageInv(q) /\ elevator[q] \in Slots \cup {None}
    BY DEF IInv, TypeOK
<1>2. elevator[q] # None /\ elevator[q] \notin SlotsOf(q)
    BY <1>1 DEF Dangling, SlotsOf
<1>3. Step(q) \in Steps
  <2>1. call \in [Callers -> Call] /\ holder[q] \in Callers \cup {None}
      BY DEF IInv, TypeOK
  <2> QED
      BY <2>1 DEF Step, Call, Steps
<1> QED
    BY <1>1, <1>2, <1>3 DEF StageInv, Steps

\* Without a failure of elv_register_queue the old elevator is put back before
\* anything else can look at the queue's pointer.
PointerInv ==
    /\ ~oops
    /\ \A t \in Callers : /\ ~At(t, "fail_register")
                          /\ At(t, "fail_init") => elevator[call[t].q] = call[t].old

\* A step that leaves alone the calls of the others and the elevators of their
\* queues, and does not itself end at one of the two failures.
LEMMA OthersKeepPointers ==
    ASSUME IInv, PointerInv, NEW u, oops' = oops,
           u \in Callers => call'[u].pc \notin {"fail_register", "fail_init"},
           \A t \in Callers \ {u} : call'[t] = call[t],
           \A q \in Queues : holder[q] \notin {u, None} => elevator'[q] = elevator[q]
    PROVE  PointerInv'
<1> SUFFICES ASSUME NEW t \in Callers
             PROVE  /\ call'[t].pc # "fail_register"
                    /\ call'[t].pc = "fail_init" => elevator'[call'[t].q] = call'[t].old
    BY DEF PointerInv, At
<1>1. CASE t = u
    BY <1>1
<1>2. CASE t # u
  <2>1. call'[t] = call[t] /\ call[t].pc # "fail_register"
      BY <1>2 DEF PointerInv, At
  <2>2. ASSUME call[t].pc = "fail_init" PROVE elevator'[call[t].q] = call[t].old
    <3>1. call[t].q \in Queues /\ holder[call[t].q] = t /\ t # None
        BY <2>2, PoolAssumption DEF At, IInv, LocksInv
    <3>2. elevator'[call[t].q] = elevator[call[t].q]
        BY <1>2, <3>1
    <3> QED
        BY <2>2, <3>2 DEF PointerInv, At
  <2> QED
      BY <2>1, <2>2
<1> QED
    BY <1>1, <1>2

\* The steps of a caller other than a failing registration.
LEMMA CallerKeepsPointers ==
    ASSUME IInv, PointerInv, NEW t \in Callers, Proceed(t), ~RegisterFails(t)
    PROVE  PointerInv'
<1>1. call \in [Callers -> Call] /\ elevator \in [Queues -> Slots \cup {None}]
      /\ ~At(t, "fail_register") /\ Idle.pc = "idle"
    BY DEF IInv, TypeOK, PointerInv, Idle
<1>2. ~At(t, "idle")
    BY DEF Proceed, InitTries, BootInit, BootInitFails, Lookup, Again, SameType, StartBypass,
       EndDrain, SwitchInit, SwitchInitFails, Register, RegisterFails, ExitOld, FailRegister,
       FailInit, At
<1>3. PICK q \in Queues : q = call[t].q /\ holder[q] = t /\ Step(q) = call[t].pc
                          /\ Old(q) = call[t].old
    BY <1>2, CallerFacts
<1>4. ASSUME oops' = oops, call'[t].pc \notin {"fail_register", "fail_init"},
             \A u \in Callers \ {t} : call'[u] = call[u],
             \A p \in Queues \ {q} : elevator'[p] = elevator[p]
      PROVE  PointerInv'
    BY <1>3, <1>4, OthersKeepPointers
<1>5. ASSUME NEW step, Goes(t, step)
      PROVE  call'[t].pc = step /\ \A u \in Callers \ {t} : call'[u] = call[u]
  <2>1. call[t] \in Call
      BY <1>1
  <2> QED
      BY <1>1, <1>5, <2>1 DEF Goes, Call
<1>6. ASSUME Return(t)
      PROVE  call'[t].pc = "idle" /\ \A u \in Callers \ {t} : call'[u] = call[u]
    BY <1>1, <1>6 DEF Return
<1>7. ASSUME NEW name, NEW step, Gets(t, name, step)
      PROVE  call'[t].pc = step /\ \A u \in Callers \ {t} : call'[u] = call[u]
  <2>1. PICK m : call' = [call EXCEPT ![t].pc = step, ![t].type = m]
      BY <1>7 DEF Gets
  <2>2. call[t] \in Call
      BY <1>1
  <2> QED
      BY <1>1, <2>1, <2>2 DEF Call
<1>8. CASE InitTries(t)
  <2>1. UNCHANGED <<elevator, oops>> /\ call[t].pc = "boot"
      BY <1>8 DEF InitTries, At
  <2>2. CASE Gets(t, call[t].tries[1], "boot_init")
      BY <1>4, <1>7, <2>1, <2>2
  <2>3. CASE call' = [call EXCEPT ![t].tries = Tail(@)]
    <3>1. call[t] \in Call
        BY <1>1
    <3>2. call'[t].pc = "boot" /\ \A u \in Callers \ {t} : call'[u] = call[u]
        BY <1>1, <2>1, <2>3, <3>1 DEF Call
    <3> QED
        BY <1>4, <2>1, <3>2
  <2> QED
      BY <1>8, <2>2, <2>3 DEF InitTries
<1>9. ASSUME NEW x \in Slots, InitFn(t, x) PROVE \A p \in Queues \ {q} : elevator'[p] = elevator[p]
    BY <1>1, <1>3, <1>9 DEF InitFn
<1>10. CASE BootInit(t)
  <2>1. Return(t) /\ oops' = oops /\ \A p \in Queues \ {q} : elevator'[p] = elevator[p]
      BY <1>9, <1>10 DEF BootInit
  <2> QED
      BY <1>4, <1>6, <2>1
<1>11. CASE BootInitFails(t) \/ SameType(t) \/ ExitOld(t)
  <2>1. Return(t) /\ UNCHANGED <<elevator, oops>>
      BY <1>11 DEF BootInitFails, SameType, ExitOld
  <2> QED
      BY <1>4, <1>6, <2>1
<1>12. CASE Lookup(t) \/ Again(t)
  <2>1. UNCHANGED <<elevator, oops>>
        /\ (Gets(t, call[t].name, "found") \/ Goes(t, "load") \/ Return(t))
      BY <1>12 DEF Lookup, Again
  <2> QED
      BY <1>4, <1>5, <1>6, <1>7, <2>1
<1>13. CASE StartBypass(t) \/ EndDrain(t) \/ Register(t)
  <2>1. UNCHANGED <<elevator, oops>> /\ \E step \in {"drain", "init", "exit"} : Goes(t, step)
      BY <1>13 DEF StartBypass, EndDrain, Register
  <2> QED
      BY <1>4, <1>5, <2>1
<1>14. CASE SwitchInit(t)
  <2>1. /\ \E step \in {"register", "exit"} : Goes(t, step)
        /\ oops' = oops /\ \A p \in Queues \ {q} : elevator'[p] = elevator[p]
      BY <1>9, <1>14 DEF SwitchInit
  <2> QED
      BY <1>4, <1>5, <2>1
<1>15. CASE SwitchInitFails(t)
  <2>1. Goes(t, "fail_init") /\ UNCHANGED <<elevator, oops>> /\ call[t].pc = "init"
      BY <1>15 DEF SwitchInitFails, At
  <2>2. elevator[q] = call[t].old
      BY <1>3, <2>1 DEF IInv, StageInv
  <2>3. call'[t].q = q /\ call'[t].old = call[t].old
    <3>1. call[t] \in Call
        BY <1>1
    <3> QED
        BY <1>1, <1>3, <2>1, <3>1 DEF Goes, Call
  <2>4. call'[t].pc = "fail_init" /\ \A u \in Callers \ {t} : call'[u] = call[u]
      BY <1>5, <2>1
  <2> QED
      BY <2>1, <2>2, <2>3, <2>4 DEF PointerInv, At
<1>16. CASE FailInit(t)
  <2>1. Return(t) /\ oops' = oops /\ \A p \in Queues \ {q} : elevator'[p] = elevator[p]
      BY <1>1, <1>3, <1>16 DEF FailInit, Restore
  <2> QED
      BY <1>4, <1>6, <2>1
<1>17. CASE FailRegister(t)
    BY <1>1, <1>17 DEF FailRegister
<1> QED
    BY <1>8, <1>10, <1>11, <1>12, <1>13, <1>14, <1>15, <1>16, <1>17 DEF Proceed

\* elv_register_queue, which makes the sysfs objects of the new elevator, succeeds.
NoRegisterFails == \A t \in Callers : ~RegisterFails(t)

LEMMA NextPointer ==
    IInv /\ PointerInv /\ [Next \/ Stopped]_vars /\ [NoRegisterFails]_vars => PointerInv'
<1> SUFFICES ASSUME IInv, PointerInv, [Next \/ Stopped]_vars, [NoRegisterFails]_vars
             PROVE  PointerInv'
    OBVIOUS
<1>1. CASE UNCHANGED vars
    BY <1>1 DEF vars, PointerInv, At
<1>2. ASSUME UNCHANGED <<call, oops>>,
             \A q \in Queues : holder[q] # None => elevator'[q] = elevator[q]
      PROVE  PointerInv'
  <2>1. None \notin Callers
      BY PoolAssumption
  <2> QED
      BY <1>2, <2>1, OthersKeepPointers
<1>3. ASSUME NEW m \in Modules, Load(m) \/ StartUnload(m) \/ Unload(m) PROVE PointerInv'
  <2>1. UNCHANGED <<call, oops, elevator>>
      BY <1>3 DEF Load, StartUnload, Unload
  <2> QED
      BY <1>2, <2>1
<1>4. ASSUME NEW q \in Queues, SubmitToFreed(q) PROVE FALSE
  <2>1. q \in bypass /\ Dangling(q)
      BY <1>4 DEF SubmitToFreed
  <2>2. Step(q) = "fail_init" /\ StageInv(q)
      BY <2>1, IInvDangles DEF DanglesOnlyInFailInit, IInv
  <2>3. holder[q] # None /\ holder[q] \in Callers /\ call[holder[q]].q = q
      BY <2>2 DEF Step, IInv, TypeOK, LocksInv
  <2>4. elevator[q] = Old(q)
      BY <2>2, <2>3 DEF Step, Old, PointerInv, At
  <2> QED
      BY <2>1, <2>2, <2>4 DEF StageInv, SlotsOf, Dangling
<1>5. ASSUME NEW q \in Queues,
             \/ GetRequest(q) \/ Serve(q) \/ SubmitBypassing(q)
             \/ RegisterQueue(q) \/ UnregisterQueue(q)
      PROVE  PointerInv'
  <2>1. UNCHANGED <<call, oops, elevator>>
      BY <1>5 DEF GetRequest, Serve, AddRequest, Dispatch, Complete, SubmitBypassing,
         RegisterQueue, UnregisterQueue
  <2> QED
      BY <1>2, <2>1
<1>6. ASSUME NEW q \in Queues, ReleaseQueue(q) PROVE PointerInv'
  <2>1. /\ UNCHANGED <<call, oops>> /\ holder[q] = None
        /\ \A p \in Queues \ {q} : elevator'[p] = elevator[p]
      BY <1>6 DEF ReleaseQueue, IInv, TypeOK
  <2> QED
      BY <1>2, <2>1
<1>7. ASSUME NEW t \in Callers, NEW q \in Queues,
             StartInit(t, q) \/ (\E n \in Names : StartChange(t, q, n))
      PROVE  PointerInv'
  <2>1. UNCHANGED <<elevator, oops>> /\ call \in [Callers -> Call]
      BY <1>7 DEF StartInit, StartChange, IInv, TypeOK
  <2>2. call'[t].pc \in {"boot", "lookup"} /\ \A u \in Callers \ {t} : call'[u] = call[u]
    <3>1. CASE StartInit(t, q)
        BY <2>1, <3>1 DEF StartInit
    <3>2. CASE \E n \in Names : StartChange(t, q, n)
        BY <2>1, <3>2 DEF StartChange
    <3> QED
        BY <1>7, <3>1, <3>2
  <2> QED
      BY <2>1, <2>2, OthersKeepPointers
<1>8. ASSUME NEW t \in Callers, Proceed(t) PROVE PointerInv'
  <2>1. CASE RegisterFails(t)
      BY <1>1, <2>1 DEF NoRegisterFails
  <2>2. CASE ~RegisterFails(t)
      BY <1>8, <2>2, CallerKeepsPointers
  <2> QED
      BY <2>1, <2>2
<1>9. CASE Stopped
    BY <1>9 DEF Stopped, PointerInv
<1>10. CASE Next
    BY <1>3, <1>4, <1>5, <1>6, <1>7, <1>8, <1>10 DEF Next
<1> QED
    BY <1>1, <1>9, <1>10

\* However calls, drains, module loading and requests interleave, a queue's pointer
\* is to a freed elevator only while its caller is about to put the old one back.
THEOREM DanglingWindow == Spec => []DanglesOnlyInFailInit
BY IInvDangles, SpecIInv, PTL

\* "Block layer doesn't call into a quiesced elevator" (elevator.c:920), and never
\* into a freed one, as long as elv_register_queue does not fail: the run that
\* violates this needs that failure, and no other failing step is enough.
THEOREM OnlyRegisterFailureOops ==
    Spec /\ [][NoRegisterFails]_vars => []NoCallIntoFreed
<1>1. Init => PointerInv
    BY DEF Init, PointerInv, At, Idle
<1>2. IInv /\ PointerInv /\ [Next \/ Stopped]_vars /\ [NoRegisterFails]_vars => PointerInv'
    BY NextPointer
<1>3. PointerInv => NoCallIntoFreed
    BY DEF PointerInv, NoCallIntoFreed
<1> QED
    BY <1>1, <1>2, <1>3, SpecIInv, PTL DEF Spec
=============================================================================
