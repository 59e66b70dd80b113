------------------------------ MODULE ListHead ------------------------------
(* The circular doubly linked lists of hw2/Scheduler_VM/list.h, as the machine *)
(* uses them.  A heap h holds the pointers of all list_heads: h.next and       *)
(* h.prev are functions from list_heads to list_heads or NULL.                 *)
EXTENDS Sequences, Naturals

CONSTANT Null       \* the null pointer, and what an uninitialised pointer reads

NewHeap(nodes) == [next |-> [n \in nodes |-> Null], prev |-> [n \in nodes |-> Null]]

\* INIT_LIST_HEAD.
InitListHead(h, n) == [next |-> [h.next EXCEPT ![n] = n], prev |-> [h.prev EXCEPT ![n] = n]]

\* __list_add: the four stores, which overwrite each other when before = after.
LinkBetween(h, new, before, after) ==
    [next |-> [h.next EXCEPT ![new] = after, ![before] = new],
     prev |-> [h.prev EXCEPT ![after] = new, ![new] = before]]

list_add(h, new, head) == LinkBetween(h, new, head, h.next[head])

list_add_tail(h, new, head) == LinkBetween(h, new, h.prev[head], head)

\* __list_del of the neighbours, then the entry's own pointers are cleared.
list_del(h, n) ==
    [next |-> [h.next EXCEPT ![h.prev[n]] = h.next[n], ![n] = Null],
     prev |-> [h.prev EXCEPT ![h.next[n]] = h.prev[n], ![n] = Null]]

list_empty(h, head) == h.next[head] = head
=============================================================================
