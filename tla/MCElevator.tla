----------------------------- MODULE MCElevator -----------------------------
(* Instances of Elevator for TLC. *)
EXTENDS Elevator

Bio(p, l, d) == [pos |-> p, len |-> l, dir |-> d]

\* Four adjacent blocks, and a write among them.
Blocks == {Bio(p, 1, "READ") : p \in 0..3} \cup {Bio(2, 1, "WRITE")}

\* Reads that touch, and a discard.
Mixed == {Bio(0, 1, "READ"), Bio(1, 1, "READ"), Bio(1, 1, "DISCARD")}

\* Two directions, and reads that touch: sweeps that wrap, merges, barriers.
Touching == {Bio(0, 1, "READ"), Bio(1, 1, "READ"), Bio(2, 1, "WRITE")}

\* Extents that share sectors.
Extents == {Bio(0, 2, "READ"), Bio(1, 2, "READ"), Bio(2, 3, "READ")}

=============================================================================
