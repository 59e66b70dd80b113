----------------------------- MODULE MCRunQueue -----------------------------
(* RunQueue on the instances of MCSchedVM. *)
EXTENDS RunQueue, MCSchedVM
=============================================================================
