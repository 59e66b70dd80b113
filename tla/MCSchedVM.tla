----------------------------- MODULE MCSchedVM -----------------------------
(* Instances of SchedVM for TLC.  One jiffy is TicksPerJiffy clock ticks (5000 *)
(* in the program) and NsPerJiffy "nanoseconds": 3^6, so that six averages of  *)
(* the expected burst are exact.                                               *)
EXTENDS SchedVM, TLC

CONSTANTS p1, p2, p3

Proc(type, parent, spawn, killt, dur) ==
    [thread_type |-> type, parent |-> parent, spawn_time |-> spawn,
     kill_time |-> killt, work_duration |-> dur]

Types == {INTERACTIVE, NONINTERACTIVE}

\* Two processes, every combination of type, nesting, spawn time, kill time and
\* amount of work from small ranges.
PairProfiles ==
    {(p1 :> a @@ p2 :> b) :
        a \in {Proc(ty, InitTask, s, k, w) : ty \in Types, s \in {0, 1}, k \in {-1, 3}, w \in {-1, 2}},
        b \in {Proc(ty, pa, s, k, w) :
                  ty \in Types, pa \in {InitTask, p1}, s \in {0, 2}, k \in {-1, 4}, w \in {-1, 1}}}

\* Three processes: all under Init, two under p1, and a chain of three.
TreeProfiles ==
    {(p1 :> a @@ p2 :> b @@ p3 :> c) :
        a \in {Proc(ty, InitTask, 0, -1, w) : ty \in Types, w \in {-1, 2}},
        b \in {Proc(INTERACTIVE, pa, 1, -1, -1) : pa \in {InitTask, p1}},
        c \in {Proc(ty, pa, 2, k, -1) : ty \in Types, pa \in {p1, p2}, k \in {-1, 4}}}

\* Three processes that run until the end time, so that the ring stays full: CPU
\* hogs, with or without an interactive process among them.
BusyProfiles ==
    {(p1 :> a @@ p2 :> b @@ p3 :> c) :
        a \in {Proc(ty, InitTask, 0, -1, -1) : ty \in Types},
        b \in {Proc(NONINTERACTIVE, InitTask, s, -1, -1) : s \in {0, 7}},
        c \in {Proc(NONINTERACTIVE, InitTask, s, -1, -1) : s \in {1, 9}}}

TreeAndBusyProfiles == TreeProfiles \cup BusyProfiles

FiveOrSix == {5, 6}
OneOrThree == {1, 3}
ThreeOrFour == {3, 4}
OneTwoFour == {1, 2, 4}
=============================================================================
