---------------------------- MODULE BarrierQueue ----------------------------
(* What the elevator promises of the order in which submissions reach the     *)
(* driver, with no lists, no sorting and no merging: ordinary submissions may *)
(* be taken in any order and several at a time, but not past a barrier.       *)
EXTENDS Integers

CONSTANTS MaxRequests

\* status[i], of the i-th submission: "new"; pending as an ordinary one ("SORT"),
\* as a barrier at the back ("BACK") or at the very front ("FRONT"); with the
\* driver; ended.
VARIABLE status

Ids == 1..MaxRequests
Kinds == {"SORT", "BACK", "FRONT"}

Init == status = [i \in Ids |-> "new"]

Become(S, s) == status' = [i \in Ids |-> IF i \in S THEN s ELSE status[i]]

Submit(i, kind) ==
    /\ status[i] = "new" /\ \A j \in Ids : j < i => status[j] # "new"
    /\ Become({i}, kind)

\* i, which is pending, may be taken while j still is.  Front ones go first; a
\* barrier waits for all the submissions before it, and those after it wait for
\* the barrier.
MayPass(i, j) ==
    \/ status[i] = "FRONT"
    \/ status[j] # "FRONT" /\ (i < j \/ "BACK" \notin {status[i], status[j]})

\* The driver takes a request that carries the submissions S.
Take(S) ==
    /\ S # {} /\ \A i \in S : status[i] \in Kinds
    /\ \A i \in S, j \in Ids \ S : status[j] \in Kinds => MayPass(i, j)
    /\ Become(S, "driver")

\* It is done with it, or hands it back, to the front; or what is pending fails.
Finish(S) == S # {} /\ (\A i \in S : status[i] = "driver") /\ Become(S, "done")
Return(S) == S # {} /\ (\A i \in S : status[i] = "driver") /\ Become(S, "FRONT")
Fail(S) == S # {} /\ (\A i \in S : status[i] \in Kinds) /\ Become(S, "failed")

Next ==
    \/ \E i \in Ids, kind \in Kinds : Submit(i, kind)
    \/ \E S \in SUBSET Ids : Take(S) \/ Finish(S) \/ Return(S) \/ Fail(S)

Spec == Init /\ [][Next]_status
=============================================================================
