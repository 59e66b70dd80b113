------------------------------- MODULE Profile -------------------------------
(* Reading a CPU profile and cleaning up after a bad one: readProfile of       *)
(* cpuinit.c, badshutdowncpu and cleanuptask of cpu.c, on the linked lists of  *)
(* list.h.  The file is read one command at a time; each step chooses the next *)
(* command, so every file is covered, well formed or not.  Process k is the    *)
(* k-th NEWPROCESS of the file and 0 is init.  A list_head is <<"list", t>>,   *)
(* the children of t, or <<"clist", t>>, t's place among its siblings.         *)
EXTENDS Integers, SequencesExt

CONSTANTS
    Null,           \* the null pointer
    MaxProcs,       \* bound on the processes of a profile
    MaxNest         \* bound on SPAWNs without ENDSPAWN, and on the converse

ASSUME ProfileBounds == MaxProcs \in Nat /\ MaxNest \in Nat

Lists == INSTANCE ListHead

VARIABLES
    status,         \* what readProfile, then main, is doing
    made,           \* how many processes were allocated
    newtask, top,   \* as in readProfile
    children,       \* readProfile's count of open SPAWNs
    parent,         \* thread_info.parent
    named,          \* whose processName was set: it is not initialised
    heap,           \* the list_heads
    stack,          \* cleanuptask's activations: task and next child to see
    freed,          \* the thread_infos given back
    outline,        \* history: the processes open where the file is read, and
                    \* whether in a SPAWN block
    formed          \* history: the file has had the form of the .conf files

tree == <<made, parent, heap>>
place == <<newtask, top, children>>
history == <<outline, formed>>
cleaning == <<stack, freed>>
vars == <<status, tree, place, named, cleaning, history>>

Init0 == 0
Tasks == 0..MaxProcs
ListOf(t) == <<"list", t>>
ClistOf(t) == <<"clist", t>>
Nodes == {ListOf(t) : t \in Tasks} \cup {ClistOf(t) : t \in Tasks}

\* The null pointer is the address of nothing.
ASSUME NullAssumption == Null \notin Int /\ Null \notin Nodes

\* list_entry(n, struct thread_info, clist).
Entry(n) == n[2]

-----------------------------------------------------------------------------
(* The form of a profile, as the .conf files have it: processes, their options  *)
(* and SPAWN blocks inside NEWPROCESS and ENDPROCESS, and blocks of processes.  *)

InProcess == outline # <<>> /\ ~Last(outline).spawning
InBlock == outline # <<>> /\ Last(outline).spawning

Deeper(t) == Append(outline, [task |-> t, spawning |-> FALSE])
Block(b) == [outline EXCEPT ![Len(outline)].spawning = b]

\* The outline after command c, and whether c may stand here.
Follows(c) ==
    CASE c = "NEWPROCESS" -> outline = <<>> \/ InBlock
      [] c \in {"ENDPROCESS", "SPAWN", "NAME", "OPTION"} -> InProcess
      [] c = "ENDSPAWN" -> InBlock
      [] OTHER -> TRUE

Outline(c) ==
    CASE c = "NEWPROCESS" -> Deeper(made + 1)
      [] c = "ENDPROCESS" -> Front(outline)
      [] c = "SPAWN" -> Block(TRUE)
      [] c = "ENDSPAWN" -> Block(FALSE)
      [] OTHER -> outline

Reads(c) ==
    /\ formed' = (formed /\ Follows(c))
    /\ outline' = IF formed' THEN Outline(c) ELSE <<>>

-----------------------------------------------------------------------------
(* readProfile *)

\* A store through a null pointer.
Crashes ==
    /\ status' = "crashed"
    /\ UNCHANGED <<tree, place, named>>

\* CYCLE_TIME, SEED and ENDTIME set globals of the machine.
GlobalSetting ==
    /\ status = "reading"
    /\ Reads("SETTING")
    /\ UNCHANGED <<status, tree, place, named, cleaning>>

\* Mutation of AddChild: the child becomes the first.
AddChildFirst(h, t) == Lists!list_add(Lists!InitListHead(h, ListOf(t)), ClistOf(t), ListOf(top))

\* A new process has no children and is the last child of top.
AddChild(h, t) == Lists!list_add_tail(Lists!InitListHead(h, ListOf(t)), ClistOf(t), ListOf(top))

NewProcess ==
    /\ status = "reading" /\ made < MaxProcs
    /\ Reads("NEWPROCESS")
    /\ \/ top = Null /\ Crashes
       \/ /\ top # Null
          /\ made' = made + 1
          /\ newtask' = made + 1
          /\ parent' = [parent EXCEPT ![made + 1] = top]
          /\ heap' = AddChild(heap, made + 1)
          /\ UNCHANGED <<status, top, children, named>>
    /\ UNCHANGED cleaning

EndProcess ==
    /\ status = "reading"
    /\ Reads("ENDPROCESS")
    /\ newtask' = Null
    /\ UNCHANGED <<status, tree, top, children, named, cleaning>>

\* SPAWNTIME, TYPE, KILLTIME, NICE and WORKDURATION set a field of newtask; no
\* field but the name matters here.
Option ==
    /\ status = "reading"
    /\ Reads("OPTION")
    /\ \/ newtask = Null /\ Crashes
       \/ newtask # Null /\ UNCHANGED <<status, tree, place, named>>
    /\ UNCHANGED cleaning

Name ==
    /\ status = "reading"
    /\ Reads("NAME")
    /\ \/ newtask = Null /\ Crashes
       \/ /\ newtask # Null
          /\ named' = named \cup {newtask}
          /\ UNCHANGED <<status, tree, place>>
    /\ UNCHANGED cleaning

\* SPAWN opens newtask, whether or not it is open already.
Spawn ==
    /\ status = "reading" /\ children < MaxNest
    /\ Reads("SPAWN")
    /\ \/ newtask = Null /\ Crashes
       \/ /\ newtask # Null
          /\ children' = children + 1
          /\ top' = newtask
          /\ UNCHANGED <<status, tree, newtask, named>>
    /\ UNCHANGED cleaning

\* Mutation of Reopened: the process the block belonged to is forgotten.
ReopenedNone == Null

\* newtask after a block is the process the block belonged to.
Reopened == top

EndSpawn ==
    /\ status = "reading" /\ children > -MaxNest
    /\ Reads("ENDSPAWN")
    /\ \/ top = Null /\ Crashes
       \/ /\ top # Null
          /\ children' = children - 1
          /\ newtask' = Reopened
          /\ top' = parent[top]
          /\ UNCHANGED <<status, tree, named>>
    /\ UNCHANGED cleaning

\* A missing '#', a name of 48 characters or one that is not in coptions.
BadCommand ==
    /\ status = "reading"
    /\ status' = "rejected"
    /\ formed' = FALSE /\ outline' = <<>>
    /\ UNCHANGED <<tree, place, named, cleaning>>

\* A comment that the file ends in: the loop that looks for its '\n' goes on.
EndlessComment ==
    /\ status = "reading"
    /\ status' = "spinning"
    /\ UNCHANGED <<tree, place, named, cleaning, history>>

Commands == {"SETTING", "NEWPROCESS", "ENDPROCESS", "OPTION", "NAME", "SPAWN", "ENDSPAWN"}

\* The file ends.  A command with nothing after its name but white space is
\* read, not carried out; then open SPAWNs are counted.
FileEnds ==
    /\ status = "reading"
    /\ \/ UNCHANGED history
       \/ \E c \in Commands : Reads(c)
    /\ status' = IF children # 0 THEN "rejected" ELSE "accepted"
    /\ UNCHANGED <<tree, place, named, cleaning>>

-----------------------------------------------------------------------------
(* badshutdowncpu and cleanuptask *)

Activation(h, t) == [task |-> t, child |-> h.next[ListOf(t)]]

CleanUp ==
    /\ status = "rejected"
    /\ status' = "cleaning"
    /\ stack' = <<Activation(heap, Init0)>>
    /\ UNCHANGED <<tree, place, named, freed, history>>

Active == Last(stack)
HasChild == Active.child \notin {Null, ListOf(Active.task)}

\* Mutation of NextSibling: read after list_del has cleared it.
NextSiblingDeleted(h, n) == Lists!list_del(h, n).next[n]

NextSibling(h, n) == h.next[n]

\* A child is unlinked, and its own children are cleaned up first.
CleanChild ==
    /\ status = "cleaning" /\ HasChild
    /\ heap' = Lists!list_del(heap, Active.child)
    /\ stack' = Append([stack EXCEPT ![Len(stack)].child = NextSibling(heap, Active.child)],
                       Activation(heap', Entry(Active.child)))
    /\ UNCHANGED <<status, made, parent, place, named, freed, history>>

\* free(processName), which was never set unless the profile gave a name: what
\* malloc left there may be NULL, and may not.
FreeName(t) == status' \in (IF t \in named THEN {status} ELSE {status, "crashed"})

ChildCleaned ==
    /\ status = "cleaning" /\ ~HasChild /\ Len(stack) > 1
    /\ FreeName(Active.task)
    /\ freed' = freed \cup {Active.task}
    /\ stack' = Front(stack)
    /\ UNCHANGED <<tree, place, named, history>>

InitCleaned ==
    /\ status = "cleaning" /\ ~HasChild /\ Len(stack) = 1
    /\ status' = "cleaned"
    /\ freed' = freed \cup {Init0}
    /\ stack' = <<>>
    /\ UNCHANGED <<tree, place, named, history>>

Stopped ==
    /\ status \in {"accepted", "crashed", "spinning", "cleaned"}
    /\ UNCHANGED vars

-----------------------------------------------------------------------------
\* __init_sched has made init, its name and its empty list of children.
Init ==
    /\ status = "reading" /\ made = 0
    /\ newtask = Null /\ top = Init0 /\ children = 0
    /\ parent = [t \in Tasks |-> Null] /\ named = {Init0}
    /\ heap = Lists!InitListHead(Lists!NewHeap(Nodes), ListOf(Init0))
    /\ stack = <<>> /\ freed = {}
    /\ outline = <<>> /\ formed = TRUE

Read ==
    \/ GlobalSetting \/ NewProcess \/ EndProcess \/ Option \/ Name \/ Spawn \/ EndSpawn
    \/ BadCommand \/ EndlessComment \/ FileEnds

Clean == CleanUp \/ CleanChild \/ ChildCleaned \/ InitCleaned

Next == Read \/ Clean \/ Stopped

Spec == Init /\ [][Next]_vars

-----------------------------------------------------------------------------
(* Safety *)

Activated == {stack[i].task : i \in 1..Len(stack)}

\* The children of t still in its list.
Kids(t) == {p \in 1..made : parent[p] = t /\ p \notin freed \cup Activated}

\* Where p is in the list of t, whose head is written 0.
Place(t, p) == IF p = 0 THEN ListOf(t) ELSE ClistOf(p)

\* In the file's order q comes right behind p in the circular list of K.
Behind(K, p, q) ==
    /\ p < q \/ q = 0
    /\ \A k \in K : p < k => q # 0 /\ q <= k

Linked(h, t, p, q) == h.next[Place(t, p)] = Place(t, q) /\ h.prev[Place(t, q)] = Place(t, p)

\* The list of t is the circular list of the children K, both ways.
IsRing(h, t, K) ==
    /\ \A p \in {0} \cup K : \E q \in {0} \cup K : Behind(K, p, q) /\ Linked(h, t, p, q)
    /\ \A q \in {0} \cup K : \E p \in {0} \cup K : Behind(K, p, q) /\ Linked(h, t, p, q)

\* The pointers and the parents agree, while the tree is built and while it is
\* taken down: the list of every process is the circular list, both ways, of
\* its children in file order, so nobody is in two lists and no list leads to a
\* freed process; and a parent comes before its children in the file, which is
\* what makes the parents the tree SchedVM assumes (ProfileAssumption).
ListsAreTheTree ==
    /\ \A t \in (0..made) \ freed : IsRing(heap, t, Kids(t))
    /\ \A p \in 1..made : parent[p] \in 0..(p - 1)

\* The processes whose SPAWN block is open: all that are open, but the one the file
\* stands in.
Opened == IF InProcess THEN Front(outline) ELSE outline

\* In a profile of the .conf files' form an option, also one after an ENDSPAWN,
\* goes to the process it stands in, a new process to the innermost block, and
\* nothing is stored through a null pointer; and a complete one is accepted,
\* although its last command may not be carried out.
FormedProfileIsRead ==
    formed =>
        /\ status # "reading" /\ outline = <<>> => status \in {"accepted", "spinning"}
        /\ status = "crashed" => stack # <<>>
        /\ status = "reading" =>
              /\ \A i \in 1..Len(Opened) : Opened[i].spawning
              /\ children = Len(Opened)
              /\ top = IF Opened = <<>> THEN Init0 ELSE Last(Opened).task
              /\ InProcess => newtask = Last(outline).task

\* Cleaning up frees every process, children before their parents, and init last.
CleanUpFreesAll ==
    /\ status = "cleaned" => freed = 0..made
    /\ \A p \in 1..made : parent[p] \in freed => p \in freed
    /\ Activated \cap freed = {}

-----------------------------------------------------------------------------
(* The inductive invariant the proofs rest on *)

TypeOK ==
    /\ status \in {"reading", "accepted", "rejected", "spinning", "crashed", "cleaning", "cleaned"}
    /\ made \in Tasks /\ {newtask, top} \subseteq (0..made) \cup {Null}
    /\ children \in Int
    /\ parent \in [Tasks -> Tasks \cup {Null}] /\ parent[Init0] = Null
    /\ heap \in [next: [Nodes -> Nodes \cup {Null}], prev: [Nodes -> Nodes \cup {Null}]]
    /\ stack \in Seq([task: Tasks, child: Nodes \cup {Null}])
    /\ freed \subseteq 0..made
    /\ outline \in Seq([task: Int, spawning: BOOLEAN]) /\ formed \in BOOLEAN

\* The activations are those of a path down the tree, and each of them is about to
\* look at the first child that its list still holds.
StackInv ==
    /\ \A i \in 1..Len(stack) :
          /\ stack[i].task \in (0..made) \ freed
          /\ stack[i].child = heap.next[ListOf(stack[i].task)]
          /\ IF i = 1 THEN stack[i].task = Init0
             ELSE stack[i].task # Init0 /\ parent[stack[i].task] = stack[i - 1].task
    /\ \A i, j \in 1..Len(stack) : stack[i].task = stack[j].task => i = j
    /\ status \in {"reading", "accepted", "rejected", "spinning"} => stack = <<>> /\ freed = {}
    /\ status = "cleaning" => stack # <<>>
    /\ status = "cleaned" => stack = <<>> /\ Init0 \in freed
    /\ \A p \in 1..made : parent[p] \in freed => p \in freed

\* In a formed profile the open processes are a path down the tree.
PathInv ==
    formed /\ status = "reading" =>
        \A i \in 1..Len(outline) :
            /\ outline[i].task \in 1..made
            /\ parent[outline[i].task] = IF i = 1 THEN Init0 ELSE outline[i - 1].task

IInv == TypeOK /\ ListsAreTheTree /\ StackInv /\ PathInv /\ FormedProfileIsRead
=============================================================================
