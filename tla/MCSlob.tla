------------------------------- MODULE MCSlob -------------------------------
(* Instances of Slob for TLC: pages of a few units of two bytes.             *)
EXTENDS Slob, TLC

Tiny == [object_size |-> 2, align |-> 0, rcu |-> FALSE]
Whole == [object_size |-> PAGE_SIZE, align |-> 0, rcu |-> FALSE]
Guarded == [object_size |-> 4, align |-> 0, rcu |-> TRUE]

ManyCaches == {Tiny, Whole, Guarded}
Symmetry == Permutations(Pages) \cup Permutations(Threads)
=============================================================================
