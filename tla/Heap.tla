-------------------------------- MODULE Heap --------------------------------
(* What the users of kmalloc and of the object caches are promised: a block   *)
(* that was handed out belongs to its owner until it is given back, and one   *)
(* given back under RCU stays readable until the grace period ends.           *)
EXTENDS Naturals

CONSTANTS Pages, PageUnits

VARIABLES held, retired

Block == [page: Pages, at: 0..PageUnits - 1, units: 1..PageUnits]

Overlap(b, c) ==
    /\ b.page = c.page
    /\ b.at < c.at + c.units /\ c.at < b.at + b.units

Init == held = {} /\ retired = {}

\* Memory is handed out only when nobody can still be using any part of it.
Allocate ==
    \E b \in held' \ held :
        /\ b \in Block /\ b.at + b.units <= PageUnits
        /\ \A c \in held \cup retired : ~Overlap(b, c)
        /\ held' = held \cup {b}
        /\ UNCHANGED retired

Free ==
    \E b \in held : held' = held \ {b} /\ UNCHANGED retired

Retire ==
    \E b \in held : held' = held \ {b} /\ retired' = retired \cup {b}

GraceEnds ==
    \E b \in retired : retired' = retired \ {b} /\ UNCHANGED held

Next == Allocate \/ Free \/ Retire \/ GraceEnds

Spec == Init /\ [][Next]_<<held, retired>>
=============================================================================
