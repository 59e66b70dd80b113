---------------------------- MODULE ProfileProofs ----------------------------
(* The proofs about Profile: the lists are the tree, a well-formed profile is  *)
(* read as it is written, and cleaning up frees everything.                    *)
EXTENDS Profile, SequenceLemmas

Pointers == [Nodes -> Nodes \cup {Null}]
HeapType == [next: Pointers, prev: Pointers]

-----------------------------------------------------------------------------
(* The list_heads of a process are its own, and never null. *)

LEMMA NodesDiffer ==
    ASSUME NEW s \in Tasks, NEW t \in Tasks
    PROVE  /\ ListOf(t) \in Nodes /\ ClistOf(t) \in Nodes
           /\ ListOf(t) # Null /\ ClistOf(t) # Null
           /\ ListOf(s) # ClistOf(t)
           /\ ListOf(s) = ListOf(t) <=> s = t
           /\ ClistOf(s) = ClistOf(t) <=> s = t
           /\ Entry(ClistOf(t)) = t
    BY NullAssumption DEF Nodes, ListOf, ClistOf, Entry

\* Places in the lists of two processes differ but for a common child.
LEMMA PlacesDiffer ==
    ASSUME NEW s \in Tasks, NEW t \in Tasks, NEW p \in Tasks, NEW q \in Tasks
    PROVE  /\ Place(s, p) \in Nodes /\ Place(s, p) # Null
           /\ Place(s, p) = Place(t, q) <=> p = q /\ (p = 0 => s = t)
    BY NodesDiffer DEF Place

-----------------------------------------------------------------------------
(* What the operations of list.h do to the list of a process. *)

\* A list is untouched by stores elsewhere.
LEMMA RingFrame ==
    ASSUME NEW h, NEW g, NEW t, NEW K, IsRing(h, t, K),
           \A p \in {0} \cup K : /\ g.next[Place(t, p)] = h.next[Place(t, p)]
                                 /\ g.prev[Place(t, p)] = h.prev[Place(t, p)]
    PROVE  IsRing(g, t, K)
<1>1. ASSUME NEW p \in {0} \cup K, NEW q \in {0} \cup K, Linked(h, t, p, q)
      PROVE  Linked(g, t, p, q)
    BY <1>1 DEF Linked
<1> QED
    BY <1>1 DEF IsRing

\* A list that was just initialised is empty.
LEMMA RingInitialised ==
    ASSUME NEW h \in HeapType, NEW t \in Tasks
    PROVE  /\ Lists!InitListHead(h, ListOf(t)) \in HeapType
           /\ IsRing(Lists!InitListHead(h, ListOf(t)), t, {})
           /\ \A n \in Nodes \ {ListOf(t)} :
                 /\ Lists!InitListHead(h, ListOf(t)).next[n] = h.next[n]
                 /\ Lists!InitListHead(h, ListOf(t)).prev[n] = h.prev[n]
<1>1. PICK g : g = Lists!InitListHead(h, ListOf(t))
    OBVIOUS
<1>2. ListOf(t) \in Nodes
    BY NodesDiffer
<1>3. /\ g.next = [h.next EXCEPT ![ListOf(t)] = ListOf(t)]
      /\ g.prev = [h.prev EXCEPT ![ListOf(t)] = ListOf(t)]
      /\ g = [next |-> g.next, prev |-> g.prev]
    BY <1>1 DEF Lists!InitListHead
<1>4. g \in HeapType /\ g.next[ListOf(t)] = ListOf(t) /\ g.prev[ListOf(t)] = ListOf(t)
    BY <1>2, <1>3 DEF HeapType, Pointers
<1>5. IsRing(g, t, {})
    BY <1>4 DEF IsRing, Linked, Behind, Place
<1>6. \A n \in Nodes \ {ListOf(t)} : g.next[n] = h.next[n] /\ g.prev[n] = h.prev[n]
    BY <1>3 DEF HeapType, Pointers
<1> QED
    BY <1>1, <1>4, <1>5, <1>6

\* list_add_tail puts a process that is younger than the others at the end.
LEMMA RingAppended ==
    ASSUME NEW h \in HeapType, NEW t \in Tasks, NEW K, K \subseteq Tasks \ {0}, IsRing(h, t, K),
           NEW m \in Tasks \ {0}, \A k \in K : k < m,
           NEW g, g = Lists!list_add_tail(h, ClistOf(m), ListOf(t))
    PROVE  /\ g \in HeapType /\ IsRing(g, t, K \cup {m})
           /\ \E l \in {0} \cup K :
                 \A n \in Nodes \ {Place(t, l), ListOf(t), ClistOf(m)} :
                     g.next[n] = h.next[n] /\ g.prev[n] = h.prev[n]
<1> USE ProfileBounds DEF Tasks
<1>1. PICK l \in {0} \cup K : Behind(K, l, 0) /\ Linked(h, t, l, 0)
    BY DEF IsRing
<1>2. l \in Tasks /\ 0 \in Tasks /\ m \in Tasks /\ Place(t, 0) = ListOf(t) /\ Place(t, m) = ClistOf(m)
    BY <1>1 DEF Place
<1>3. h.prev[ListOf(t)] = Place(t, l)
    BY <1>1, <1>2 DEF Linked
<1>4. /\ g.next = [h.next EXCEPT ![ClistOf(m)] = ListOf(t), ![Place(t, l)] = ClistOf(m)]
      /\ g.prev = [h.prev EXCEPT ![ListOf(t)] = ClistOf(m), ![ClistOf(m)] = Place(t, l)]
      /\ g = [next |-> g.next, prev |-> g.prev]
    BY <1>3 DEF Lists!list_add_tail, Lists!LinkBetween
<1>5. /\ Place(t, l) \in Nodes /\ ListOf(t) \in Nodes /\ ClistOf(m) \in Nodes
      /\ ClistOf(m) # ListOf(t) /\ ClistOf(m) # Place(t, l)
    BY <1>1, <1>2, PlacesDiffer
<1>6. g \in HeapType
    BY <1>4, <1>5 DEF HeapType, Pointers
<1>7. /\ g.next[ClistOf(m)] = ListOf(t) /\ g.next[Place(t, l)] = ClistOf(m)
      /\ g.prev[ListOf(t)] = ClistOf(m) /\ g.prev[ClistOf(m)] = Place(t, l)
      /\ \A n \in Nodes \ {Place(t, l), ClistOf(m)} : g.next[n] = h.next[n]
      /\ \A n \in Nodes \ {ListOf(t), ClistOf(m)} : g.prev[n] = h.prev[n]
    BY <1>4, <1>5 DEF HeapType, Pointers
<1>8. Linked(g, t, l, m) /\ Linked(g, t, m, 0)
    BY <1>2, <1>7 DEF Linked
<1>9. Behind(K \cup {m}, l, m) /\ Behind(K \cup {m}, m, 0)
    BY <1>1, <1>2 DEF Behind
<1>10. ASSUME NEW p \in {0} \cup K, NEW q \in K, Behind(K, p, q), Linked(h, t, p, q)
       PROVE  Behind(K \cup {m}, p, q) /\ Linked(g, t, p, q)
  <2>1. p # l /\ q # 0 /\ q # m /\ p # m /\ p \in Tasks /\ q \in Tasks
      BY <1>1, <1>2, <1>10 DEF Behind
  <2>2. /\ Place(t, p) \in Nodes \ {Place(t, l), ClistOf(m)}
        /\ Place(t, q) \in Nodes \ {ListOf(t), ClistOf(m)}
      BY <1>2, <2>1, PlacesDiffer
  <2> QED
      BY <1>7, <1>10, <2>1, <2>2 DEF Behind, Linked
<1>11. ASSUME NEW p \in {0} \cup K \cup {m}
       PROVE  \E q \in {0} \cup K \cup {m} : Behind(K \cup {m}, p, q) /\ Linked(g, t, p, q)
  <2>1. CASE p \in {l, m}
      BY <1>8, <1>9, <2>1
  <2>2. CASE p \notin {l, m}
    <3>1. PICK q \in {0} \cup K : Behind(K, p, q) /\ Linked(h, t, p, q)
        BY <2>2 DEF IsRing
    <3>2. q # 0
      <4>1. SUFFICES ASSUME q = 0 PROVE FALSE
          OBVIOUS
      <4>2. p \in {0} \cup K /\ p # l /\ p \in Tasks
          BY <2>2
      <4>3. \A k \in K : ~(p < k) /\ ~(l < k)
          BY <1>1, <3>1, <4>1 DEF Behind
      <4> QED
          BY <1>1, <1>2, <4>2, <4>3
    <3> QED
        BY <1>10, <2>2, <3>1, <3>2
  <2> QED
      BY <2>1, <2>2
<1>12. ASSUME NEW q \in {0} \cup K \cup {m}
       PROVE  \E p \in {0} \cup K \cup {m} : Behind(K \cup {m}, p, q) /\ Linked(g, t, p, q)
  <2>1. CASE q \in {0, m}
      BY <1>8, <1>9, <2>1
  <2>2. CASE q \notin {0, m}
    <3>1. PICK p \in {0} \cup K : Behind(K, p, q) /\ Linked(h, t, p, q)
        BY <2>2 DEF IsRing
    <3> QED
        BY <1>10, <2>2, <3>1
  <2> QED
      BY <2>1, <2>2
<1>13. IsRing(g, t, K \cup {m})
    BY <1>11, <1>12 DEF IsRing
<1>14. \A n \in Nodes \ {Place(t, l), ListOf(t), ClistOf(m)} :
           g.next[n] = h.next[n] /\ g.prev[n] = h.prev[n]
    BY <1>7
<1> QED
    BY <1>1, <1>6, <1>13, <1>14

\* What list_del of the child n makes of the list of t.
Removed(h, g, t, K, n) ==
    /\ g \in HeapType /\ IsRing(g, t, K \ {n})
    /\ h.next[ListOf(t)] = ClistOf(n) => g.next[ListOf(t)] = h.next[ClistOf(n)]
    /\ \E a, b \in ({0} \cup K) \ {n} :
          \A x \in Nodes \ {Place(t, a), Place(t, b), ClistOf(n)} :
              g.next[x] = h.next[x] /\ g.prev[x] = h.prev[x]
    /\ h.next[ListOf(t)] = ClistOf(n) =>
          \A x \in Nodes \ {ListOf(t), ClistOf(n)} : g.next[x] = h.next[x]

\* list_del closes the circle over the process it takes out.
LEMMA RingRemoved ==
    ASSUME NEW h \in HeapType, NEW t \in Tasks, NEW K, K \subseteq Tasks \ {0}, IsRing(h, t, K),
           NEW n \in K, NEW g, g = Lists!list_del(h, ClistOf(n))
    PROVE  Removed(h, g, t, K, n)
<1> USE ProfileBounds DEF Tasks
<1>1. PICK a \in {0} \cup K : Behind(K, a, n) /\ Linked(h, t, a, n)
    BY DEF IsRing
<1>2. PICK b \in {0} \cup K : Behind(K, n, b) /\ Linked(h, t, n, b)
    BY DEF IsRing
<1>3. /\ a \in Tasks /\ b \in Tasks /\ n \in Tasks /\ n # 0 /\ 0 \in Tasks
      /\ a < n /\ a # n /\ b # n /\ (n < b \/ b = 0)
      /\ Place(t, 0) = ListOf(t) /\ Place(t, n) = ClistOf(n)
    BY <1>1, <1>2 DEF Behind, Place
<1>4. h.prev[ClistOf(n)] = Place(t, a) /\ h.next[ClistOf(n)] = Place(t, b)
      /\ h.next[Place(t, a)] = ClistOf(n) /\ h.prev[Place(t, b)] = ClistOf(n)
    BY <1>1, <1>2, <1>3 DEF Linked
<1>5. /\ g.next = [h.next EXCEPT ![Place(t, a)] = Place(t, b), ![ClistOf(n)] = Null]
      /\ g.prev = [h.prev EXCEPT ![Place(t, b)] = Place(t, a), ![ClistOf(n)] = Null]
      /\ g = [next |-> g.next, prev |-> g.prev]
    BY <1>4 DEF Lists!list_del
<1>6. /\ Place(t, a) \in Nodes /\ Place(t, b) \in Nodes /\ ClistOf(n) \in Nodes
      /\ ClistOf(n) # Place(t, a) /\ ClistOf(n) # Place(t, b)
    BY <1>3, PlacesDiffer
<1>7. g \in HeapType
    BY <1>5, <1>6 DEF HeapType, Pointers
<1>8. /\ g.next[Place(t, a)] = Place(t, b) /\ g.prev[Place(t, b)] = Place(t, a)
      /\ \A x \in Nodes \ {Place(t, a), ClistOf(n)} : g.next[x] = h.next[x]
      /\ \A x \in Nodes \ {Place(t, b), ClistOf(n)} : g.prev[x] = h.prev[x]
    BY <1>5, <1>6 DEF HeapType, Pointers
<1>9. Linked(g, t, a, b) /\ Behind(K \ {n}, a, b)
  <2>1. a < b \/ b = 0
      BY <1>3
  <2>2. \A k \in K \ {n} : a < k => b # 0 /\ b <= k
      BY <1>1, <1>2, <1>3 DEF Behind
  <2> QED
      BY <1>8, <2>1, <2>2 DEF Linked, Behind
<1>10. ASSUME NEW p \in ({0} \cup K) \ {n}, NEW q \in ({0} \cup K) \ {n},
              p # a \/ q # b, Behind(K, p, q), Linked(h, t, p, q)
       PROVE  Behind(K \ {n}, p, q) /\ Linked(g, t, p, q)
  <2>1. p \in Tasks /\ q \in Tasks
      BY <1>3, <1>10
  <2>2. p # a
    <3>1. SUFFICES ASSUME p = a PROVE FALSE
        OBVIOUS
    <3>2. q # 0 /\ q <= n /\ q \in K
        BY <1>3, <1>10, <3>1 DEF Behind
    <3>3. a < q => n <= q
        BY <1>1, <3>2 DEF Behind
    <3>4. a < q
        BY <1>10, <3>1, <3>2 DEF Behind
    <3> QED
        BY <2>1, <1>3, <1>10, <3>2, <3>3, <3>4
  <2>3. q # b
    <3>1. SUFFICES ASSUME q = b PROVE FALSE
        OBVIOUS
    <3>2. p < n => b # 0 /\ b <= n
        BY <1>10, <3>1 DEF Behind
    <3>3. n < p => p \in K /\ b # 0 /\ b <= p
        BY <1>2, <1>3, <2>1, <3>1 DEF Behind
    <3>4. p < b \/ b = 0
        BY <1>10, <3>1 DEF Behind
    <3> QED
        BY <1>3, <1>10, <2>1, <3>2, <3>3, <3>4
  <2>4. /\ Place(t, p) \in Nodes \ {Place(t, a), ClistOf(n)}
        /\ Place(t, q) \in Nodes \ {Place(t, b), ClistOf(n)}
      BY <1>3, <1>10, <2>1, <2>2, <2>3, PlacesDiffer
  <2> QED
      BY <1>8, <1>10, <2>4 DEF Behind, Linked
<1>11. ASSUME NEW p \in {0} \cup (K \ {n})
       PROVE  \E q \in {0} \cup (K \ {n}) : Behind(K \ {n}, p, q) /\ Linked(g, t, p, q)
  <2>1. CASE p = a
      BY <1>3, <1>9, <2>1
  <2>2. CASE p # a
    <3>1. PICK q \in {0} \cup K : Behind(K, p, q) /\ Linked(h, t, p, q)
        BY DEF IsRing
    <3>2. q # n
      <4>1. SUFFICES ASSUME q = n PROVE FALSE
          OBVIOUS
      <4>2. p \in Tasks /\ (p < a => n <= a) /\ (a < p => p \in K /\ n <= p) /\ p < n
          BY <1>1, <1>3, <3>1, <4>1 DEF Behind
      <4> QED
          BY <1>3, <2>2, <4>2
    <3> QED
        BY <1>3, <1>10, <2>2, <3>1, <3>2
  <2> QED
      BY <2>1, <2>2
<1>12. ASSUME NEW q \in {0} \cup (K \ {n})
       PROVE  \E p \in {0} \cup (K \ {n}) : Behind(K \ {n}, p, q) /\ Linked(g, t, p, q)
  <2>1. CASE q = b
      BY <1>3, <1>9, <2>1
  <2>2. CASE q # b
    <3>1. PICK p \in {0} \cup K : Behind(K, p, q) /\ Linked(h, t, p, q)
        BY DEF IsRing
    <3>2. p # n
      <4>1. SUFFICES ASSUME p = n PROVE FALSE
          OBVIOUS
      <4>2. q \in Tasks /\ (n < q \/ q = 0) /\ (n < q => b # 0 /\ b <= q)
            /\ (n < b => q # 0 /\ q <= b)
          BY <1>2, <1>3, <3>1, <4>1 DEF Behind
      <4> QED
          BY <1>3, <2>2, <4>2
    <3> QED
        BY <1>3, <1>10, <2>2, <3>1, <3>2
  <2> QED
      BY <2>1, <2>2
<1>13. IsRing(g, t, K \ {n})
    BY <1>11, <1>12 DEF IsRing
<1>14. ASSUME h.next[ListOf(t)] = ClistOf(n)
       PROVE  Place(t, a) = ListOf(t)
  <2>1. PICK q \in {0} \cup K : Behind(K, 0, q) /\ Linked(h, t, 0, q)
      BY DEF IsRing
  <2>2. Place(t, q) = Place(t, n) /\ q \in Tasks
      BY <1>3, <1>14, <2>1 DEF Linked
  <2>3. q = n
      BY <1>3, <2>2, PlacesDiffer
  <2>4. ~(a \in K /\ a < n)
      BY <2>1, <2>3, <1>3 DEF Behind
  <2> QED
      BY <1>1, <1>3, <2>4
<1>15. \A x \in Nodes \ {Place(t, a), Place(t, b), ClistOf(n)} :
           g.next[x] = h.next[x] /\ g.prev[x] = h.prev[x]
    BY <1>8
<1> QED
    BY <1>3, <1>4, <1>7, <1>8, <1>13, <1>14, <1>15 DEF Removed

-----------------------------------------------------------------------------
(* The outline of the file, and what the parser makes of it. *)

Frames == [task: Int, spawning: BOOLEAN]

\* The outline stands in a process, not in a block.
Stands(o) == o # <<>> /\ ~o[Len(o)].spawning
Blocks(o) == IF Stands(o) THEN Len(o) - 1 ELSE Len(o)

\* FormedProfileIsRead of the open processes o and readProfile's variables.
ReadSoFar(o, count, above, new) ==
    /\ \A i \in 1..(Len(o) - 1) : o[i].spawning
    /\ count = Blocks(o)
    /\ above = IF Blocks(o) = 0 THEN Init0 ELSE o[Blocks(o)].task
    /\ Stands(o) => new = o[Len(o)].task

\* PathInv of the same.
OnPath(o, par, m) == \A i \in 1..Len(o) :
    /\ o[i].task \in 1..m
    /\ par[o[i].task] = IF i = 1 THEN Init0 ELSE o[i - 1].task

\* The end of a sequence, and the sequence without it.
LEMMA FrontAndLast ==
    ASSUME NEW S, NEW s \in Seq(S), s # <<>>
    PROVE  /\ Len(s) \in Nat \ {0} /\ Last(s) = s[Len(s)] /\ Last(s) \in S
           /\ Front(s) \in Seq(S) /\ Len(Front(s)) = Len(s) - 1
           /\ \A i \in 1..(Len(s) - 1) : Front(s)[i] = s[i]
<1>1. Len(s) \in Nat \ {0}
    BY EmptySeq
<1>2. \A i \in 1..Len(s) : s[i] \in S
    BY ElementOfSeq
<1>3. PICK n : n = Len(s) - 1
    OBVIOUS
<1>4. /\ n \in Nat /\ n \in Int /\ 1 \in Int /\ n - 1 + 1 = n
      /\ \A i \in 1..n : s[i] \in S
    BY <1>1, <1>2, <1>3
<1>5. /\ SubSeq(s, 1, n) \in Seq(S)
      /\ Len(SubSeq(s, 1, n)) = IF 1 <= n THEN n - 1 + 1 ELSE 0
      /\ \A i \in 1..(n - 1 + 1) : SubSeq(s, 1, n)[i] = s[1 + i - 1]
    BY <1>4, SubSeqProperties
<1>6. Len(SubSeq(s, 1, n)) = n
    BY <1>4, <1>5
<1>7. ASSUME NEW i \in 1..n
      PROVE  SubSeq(s, 1, n)[i] = s[i]
  <2>1. SubSeq(s, 1, n)[i] = s[1 + i - 1]
      BY <1>4, <1>5
  <2>2. 1 + i - 1 = i
      BY <1>4
  <2> QED
      BY <2>1, <2>2
<1>8. Front(s) = SubSeq(s, 1, n)
    BY <1>3 DEF Front
<1> QED
    BY <1>1, <1>2, <1>3, <1>5, <1>6, <1>7, <1>8 DEF Last

\* The two descriptions agree.
LEMMA ReadIsOpened ==
    ASSUME NEW o \in Seq(Frames), NEW count, NEW above, NEW new,
           NEW p, p = IF o # <<>> /\ ~Last(o).spawning THEN Front(o) ELSE o
    PROVE  (/\ \A i \in 1..Len(p) : p[i].spawning
            /\ count = Len(p)
            /\ above = IF p = <<>> THEN Init0 ELSE Last(p).task
            /\ (o # <<>> /\ ~Last(o).spawning) => new = Last(o).task)
           <=> ReadSoFar(o, count, above, new)
<1>1. CASE o = <<>>
  <2>1. p = <<>> /\ Len(o) = 0 /\ ~Stands(o)
      BY <1>1 DEF Stands
  <2> QED
      BY <1>1, <2>1 DEF ReadSoFar, Blocks
<1>2. CASE o # <<>>
  <2>1. /\ Len(o) \in Nat \ {0} /\ Last(o) = o[Len(o)] /\ Last(o) \in Frames
        /\ Front(o) \in Seq(Frames) /\ Len(Front(o)) = Len(o) - 1
        /\ \A i \in 1..(Len(o) - 1) : Front(o)[i] = o[i]
      BY <1>2, FrontAndLast
  <2>2. Stands(o) <=> ~Last(o).spawning
      BY <1>2, <2>1 DEF Stands
  <2>3. CASE Stands(o)
    <3>1. p = Front(o) /\ Blocks(o) = Len(p) /\ Len(p) \in Nat
        BY <1>2, <2>1, <2>2, <2>3 DEF Blocks
    <3>2. p # <<>> => Last(p) = p[Len(p)] /\ Len(p) # 0
        BY <2>1, <3>1, FrontAndLast
    <3>3. p = <<>> <=> Blocks(o) = 0
        BY <2>1, <3>1, <3>2
    <3>4. p # <<>> => Last(p).task = o[Blocks(o)].task
        BY <2>1, <3>1, <3>2
    <3>5. (\A i \in 1..Len(p) : p[i].spawning) <=> \A i \in 1..(Len(o) - 1) : o[i].spawning
        BY <2>1, <3>1
    <3> QED
        BY <1>2, <2>1, <2>2, <2>3, <3>1, <3>3, <3>4, <3>5 DEF ReadSoFar
  <2>4. CASE ~Stands(o)
    <3>1. p = o /\ Blocks(o) = Len(p)
        BY <1>2, <2>2, <2>4 DEF Blocks
    <3>2. (\A i \in 1..Len(p) : p[i].spawning) <=> \A i \in 1..(Len(o) - 1) : o[i].spawning
      <4>1. o[Len(o)].spawning
          BY <1>2, <2>4 DEF Stands
      <4> QED
          BY <2>1, <3>1, <4>1
    <3> QED
        BY <1>2, <2>1, <2>2, <2>4, <3>1, <3>2 DEF ReadSoFar
  <2> QED
      BY <2>3, <2>4
<1> QED
    BY <1>1, <1>2

\* NEWPROCESS where a process may stand.
LEMMA ProcessOpened ==
    ASSUME NEW o \in Seq(Frames), NEW count, NEW above, NEW new, NEW par, NEW m \in Nat,
           ReadSoFar(o, count, above, new), OnPath(o, par, m), ~Stands(o),
           NEW q, q = Append(o, [task |-> m + 1, spawning |-> FALSE]), 
           NEW pas, pas[m + 1] = above, \A t \in 1..m : pas[t] = par[t]
    PROVE  /\ q \in Seq(Frames) /\ q # <<>> /\ ReadSoFar(q, count, above, m + 1)
           /\ OnPath(q, pas, m + 1)
<1>1. /\ Len(o) \in Nat /\ Len(q) = Len(o) + 1 /\ q \in Seq(Frames) /\ q # <<>>
      /\ \A i \in 1..Len(o) : q[i] = o[i]
      /\ q[Len(o) + 1] = [task |-> m + 1, spawning |-> FALSE]
    BY DEF Frames
<1>2. Stands(q) /\ Blocks(q) = Len(o) /\ Blocks(o) = Len(o)
    BY <1>1 DEF Stands, Blocks
<1>3. \A i \in 1..Len(o) : q[i].spawning
  <2>1. Len(o) # 0 => o[Len(o)].spawning
      BY <1>1 DEF Stands
  <2> QED
      BY <1>1, <2>1 DEF ReadSoFar
<1>4. above = IF Len(o) = 0 THEN Init0 ELSE q[Len(o)].task
    BY <1>1, <1>2 DEF ReadSoFar
<1>5. ReadSoFar(q, count, above, m + 1)
    BY <1>1, <1>2, <1>3, <1>4 DEF ReadSoFar
<1>6. ASSUME NEW i \in 1..Len(q)
      PROVE  /\ q[i].task \in 1..(m + 1)
             /\ pas[q[i].task] = IF i = 1 THEN Init0 ELSE q[i - 1].task
  <2>1. CASE i = Len(q)
      BY <1>1, <1>4, <2>1
  <2>2. CASE i # Len(q)
    <3>1. i \in 1..Len(o) /\ q[i] = o[i] /\ (i # 1 => q[i - 1] = o[i - 1])
        BY <1>1, <2>2
    <3>2. /\ o[i].task \in 1..m
          /\ par[o[i].task] = IF i = 1 THEN Init0 ELSE o[i - 1].task
        BY <3>1 DEF OnPath
    <3>3. pas[o[i].task] = par[o[i].task] /\ o[i].task \in 1..(m + 1)
        BY <3>2
    <3> QED
        BY <3>1, <3>2, <3>3
  <2> QED
      BY <2>1, <2>2
<1> QED
    BY <1>1, <1>5, <1>6 DEF OnPath

\* ENDPROCESS in a process.
LEMMA ProcessClosed ==
    ASSUME NEW o \in Seq(Frames), NEW count, NEW above, NEW new, NEW par, NEW m \in Nat,
           ReadSoFar(o, count, above, new), OnPath(o, par, m), Stands(o),
           NEW q, q = Front(o), NEW n
    PROVE  /\ q \in Seq(Frames) /\ ReadSoFar(q, count, above, n) /\ OnPath(q, par, m)
           /\ q = <<>> => count = 0
<1>1. /\ Len(o) \in Nat \ {0} /\ q \in Seq(Frames) /\ Len(q) = Len(o) - 1
      /\ \A i \in 1..(Len(o) - 1) : q[i] = o[i]
    BY FrontAndLast DEF Stands
<1>2. \A i \in 1..Len(q) : q[i].spawning
    BY <1>1 DEF ReadSoFar
<1>3. ~Stands(q) /\ Blocks(q) = Len(o) - 1 /\ Blocks(o) = Len(o) - 1
  <2>1. Len(q) # 0 => q[Len(q)].spawning
      BY <1>1, <1>2
  <2> QED
      BY <1>1, <2>1 DEF Stands, Blocks
<1>4. ReadSoFar(q, count, above, n)
    BY <1>1, <1>2, <1>3 DEF ReadSoFar
<1>5. OnPath(q, par, m)
    BY <1>1 DEF OnPath
<1> QED
    BY <1>1, <1>3, <1>4, <1>5 DEF ReadSoFar

\* SPAWN in a process.
LEMMA BlockOpened ==
    ASSUME NEW o \in Seq(Frames), NEW count, NEW above, NEW new, NEW par, NEW m \in Nat,
           ReadSoFar(o, count, above, new), OnPath(o, par, m), Stands(o),
           NEW q, q = [o EXCEPT ![Len(o)].spawning = TRUE]
    PROVE  /\ q \in Seq(Frames) /\ q # <<>> /\ ReadSoFar(q, count + 1, new, new)
           /\ OnPath(q, par, m)
<1>1. Len(o) \in Nat \ {0} /\ \A i \in 1..Len(o) : o[i] \in Frames
    BY EmptySeq, ElementOfSeq DEF Stands
<1>2. q = [o EXCEPT ![Len(o)] = [o[Len(o)] EXCEPT !.spawning = TRUE]]
    OBVIOUS
<1>3. [o[Len(o)] EXCEPT !.spawning = TRUE] \in Frames
  <2>1. o[Len(o)] \in Frames
      BY <1>1
  <2> QED
      BY <2>1 DEF Frames
<1>4. /\ q \in Seq(Frames) /\ Len(q) = Len(o)
      /\ \A i \in 1..Len(o) : q[i] = IF i = Len(o) THEN [o[Len(o)] EXCEPT !.spawning = TRUE]
                                                   ELSE o[i]
    BY <1>1, <1>2, <1>3, ExceptSeq
<1>5. /\ \A i \in 1..Len(o) : q[i].task = o[i].task
      /\ \A i \in 1..(Len(o) - 1) : q[i].spawning <=> o[i].spawning
      /\ q[Len(o)].spawning
    BY <1>1, <1>4 DEF Frames
<1>6. ~Stands(q) /\ Blocks(q) = Len(o) /\ Blocks(o) = Len(o) - 1 /\ q # <<>>
    BY <1>1, <1>4, <1>5 DEF Stands, Blocks
<1>7. ReadSoFar(q, count + 1, new, new)
    BY <1>1, <1>4, <1>5, <1>6 DEF ReadSoFar
<1>8. OnPath(q, par, m)
    BY <1>1, <1>4, <1>5 DEF OnPath
<1> QED
    BY <1>4, <1>6, <1>7, <1>8

\* ENDSPAWN in a block.
LEMMA BlockClosed ==
    ASSUME NEW o \in Seq(Frames), NEW count, NEW above, NEW new, NEW par, NEW m \in Nat,
           ReadSoFar(o, count, above, new), OnPath(o, par, m), ~Stands(o), o # <<>>,
           NEW q, q = [o EXCEPT ![Len(o)].spawning = FALSE]
    PROVE  /\ q \in Seq(Frames) /\ q # <<>> /\ ReadSoFar(q, count - 1, par[above], above)
           /\ OnPath(q, par, m)
<1>1. Len(o) \in Nat \ {0} /\ \A i \in 1..Len(o) : o[i] \in Frames
    BY EmptySeq, ElementOfSeq
<1>2. q = [o EXCEPT ![Len(o)] = [o[Len(o)] EXCEPT !.spawning = FALSE]]
    OBVIOUS
<1>3. [o[Len(o)] EXCEPT !.spawning = FALSE] \in Frames
  <2>1. o[Len(o)] \in Frames
      BY <1>1
  <2> QED
      BY <2>1 DEF Frames
<1>4. /\ q \in Seq(Frames) /\ Len(q) = Len(o)
      /\ \A i \in 1..Len(o) : q[i] = IF i = Len(o) THEN [o[Len(o)] EXCEPT !.spawning = FALSE]
                                                   ELSE o[i]
    BY <1>1, <1>2, <1>3, ExceptSeq
<1>5. /\ \A i \in 1..Len(o) : q[i].task = o[i].task
      /\ \A i \in 1..(Len(o) - 1) : q[i].spawning <=> o[i].spawning
      /\ ~q[Len(o)].spawning
    BY <1>1, <1>4 DEF Frames
<1>6. Stands(q) /\ Blocks(q) = Len(o) - 1 /\ Blocks(o) = Len(o) /\ q # <<>>
    BY <1>1, <1>4, <1>5 DEF Stands, Blocks
<1>7. above = o[Len(o)].task
    BY <1>1, <1>6 DEF ReadSoFar
<1>8. par[above] = IF Len(o) = 1 THEN Init0 ELSE o[Len(o) - 1].task
  <2>1. Len(o) \in 1..Len(o)
      BY <1>1
  <2> QED
      BY <1>7, <2>1 DEF OnPath
<1>9. ReadSoFar(q, count - 1, par[above], above)
    BY <1>1, <1>4, <1>5, <1>6, <1>7, <1>8 DEF ReadSoFar
<1>10. OnPath(q, par, m)
    BY <1>1, <1>4, <1>5 DEF OnPath
<1> QED
    BY <1>4, <1>6, <1>9, <1>10

-----------------------------------------------------------------------------
(* The steps of readProfile. *)

FormInv == PathInv /\ FormedProfileIsRead

LEMMA FormRead ==
    ASSUME TypeOK, FormInv, formed, status = "reading"
    PROVE  /\ ReadSoFar(outline, children, top, newtask) /\ OnPath(outline, parent, made)
           /\ outline \in Seq(Frames) /\ made \in Nat
           /\ InProcess <=> Stands(outline)
           /\ InBlock <=> outline # <<>> /\ ~Stands(outline)
<1>1. outline \in Seq(Frames) /\ made \in Nat
    BY ProfileBounds DEF TypeOK, Frames, Tasks
<1>2. PICK p : p = IF outline # <<>> /\ ~Last(outline).spawning THEN Front(outline) ELSE outline
    OBVIOUS
<1>3. p = Opened
    BY <1>2 DEF Opened, InProcess
<1>4. ReadSoFar(outline, children, top, newtask)
  <2>1. /\ \A i \in 1..Len(p) : p[i].spawning
        /\ children = Len(p)
        /\ top = IF p = <<>> THEN Init0 ELSE Last(p).task
        /\ (outline # <<>> /\ ~Last(outline).spawning) => newtask = Last(outline).task
      BY <1>3 DEF FormInv, FormedProfileIsRead, InProcess
  <2> QED
      BY <1>1, <1>2, <2>1, ReadIsOpened
<1>5. OnPath(outline, parent, made)
    BY DEF FormInv, PathInv, OnPath
<1>6. outline # <<>> => Last(outline) = outline[Len(outline)]
    BY DEF Last
<1> QED
    BY <1>1, <1>4, <1>5, <1>6 DEF InProcess, InBlock, Stands

\* What is to be shown of a step.
LEMMA FormStep ==
    ASSUME outline' \in Seq(Frames),
           formed' /\ status' = "reading" =>
               /\ ReadSoFar(outline', children', top', newtask')
               /\ OnPath(outline', parent', made'),
           formed' /\ status' # "reading" /\ outline' = <<>> => status' \in {"accepted", "spinning"},
           formed' /\ status' = "crashed" => stack' # <<>>
    PROVE  FormInv'
<1>1. PICK p : p = IF outline' # <<>> /\ ~Last(outline').spawning
                   THEN Front(outline') ELSE outline'
    OBVIOUS
<1>2. p = Opened'
    BY <1>1 DEF Opened, InProcess
<1>3. PathInv'
    BY DEF PathInv, OnPath
<1>4. ASSUME formed', status' = "reading"
      PROVE  /\ \A i \in 1..Len(p) : p[i].spawning
             /\ children' = Len(p)
             /\ top' = IF p = <<>> THEN Init0 ELSE Last(p).task
             /\ InProcess' => newtask' = Last(outline').task
  <2>1. /\ \A i \in 1..Len(p) : p[i].spawning
        /\ children' = Len(p)
        /\ top' = IF p = <<>> THEN Init0 ELSE Last(p).task
        /\ (outline' # <<>> /\ ~Last(outline').spawning) => newtask' = Last(outline').task
      BY <1>1, <1>4, ReadIsOpened
  <2> QED
      BY <2>1 DEF InProcess
<1>5. FormedProfileIsRead'
    BY <1>2, <1>4 DEF FormedProfileIsRead
<1> QED
    BY <1>3, <1>5 DEF FormInv

\* The tree and the clean-up are untouched while a command is read that makes no process.
LEMMA QuietTree ==
    ASSUME TypeOK, ListsAreTheTree, StackInv, status = "reading", UNCHANGED <<tree, cleaning>>,
           status' \in {"reading", "accepted", "rejected", "spinning", "crashed"}
    PROVE  ListsAreTheTree' /\ StackInv'
<1>1. /\ made' = made /\ parent' = parent /\ heap' = heap /\ stack' = stack /\ freed' = freed
      /\ stack = <<>> /\ freed = {}
    BY DEF tree, cleaning, StackInv
<1>2. \A t \in (0..made) \ freed : Kids(t)' = Kids(t)
    BY <1>1 DEF Kids, Activated
<1>3. ListsAreTheTree'
  <2>1. \A t \in (0..made) \ freed : IsRing(heap, t, Kids(t)')
      BY <1>2 DEF ListsAreTheTree
  <2> QED
      BY <1>1, <2>1 DEF ListsAreTheTree
<1>4. StackInv'
    BY <1>1 DEF StackInv
<1> QED
    BY <1>3, <1>4

\* A command adds to the form of the file what it says.
LEMMA ReadsFollows ==
    ASSUME TypeOK, NEW c, Reads(c), formed'
    PROVE  formed /\ Follows(c) /\ outline' = Outline(c)
    BY DEF Reads

LEMMA ReadsType ==
    ASSUME TypeOK, NEW c, Reads(c)
    PROVE  /\ formed' \in BOOLEAN
           /\ outline' \in Seq(Frames) <=> (formed' => outline' \in Seq(Frames))
<1>1. formed' \in BOOLEAN
    BY DEF Reads
<1>2. ~formed' => outline' = <<>>
    BY DEF Reads
<1>3. <<>> \in Seq(Frames)
    BY EmptySeq
<1> QED
    BY <1>1, <1>2, <1>3

LEMMA QuietType ==
    ASSUME TypeOK, UNCHANGED <<made, parent, heap, stack, freed>>,
           status' \in {"reading", "accepted", "rejected", "spinning", "crashed", "cleaning"},
           {newtask', top'} \subseteq (0..made) \cup {Null}, children' \in Int,
           formed' \in BOOLEAN, outline' \in Seq(Frames)
    PROVE  TypeOK'
    BY DEF TypeOK, Frames

LEMMA GlobalSettingStep ==
    ASSUME IInv, GlobalSetting
    PROVE  IInv'
<1>1. /\ status = "reading" /\ Reads("SETTING")
      /\ UNCHANGED <<status, tree, place, named, cleaning>>
    BY DEF GlobalSetting
<1>2. ListsAreTheTree' /\ StackInv'
    BY <1>1, QuietTree DEF IInv
<1>3. ASSUME formed'
      PROVE  formed /\ outline' = outline
  <2>1. formed /\ outline' = Outline("SETTING")
      BY <1>1, <1>3, ReadsFollows DEF IInv
  <2>2. Outline("SETTING") = outline
      BY DEF Outline
  <2> QED
      BY <2>1, <2>2
<1>4. ASSUME formed'
      PROVE  /\ ReadSoFar(outline, children, top, newtask) /\ OnPath(outline, parent, made)
             /\ outline \in Seq(Frames)
    BY <1>1, <1>3, <1>4, FormRead DEF IInv, FormInv
<1>5. formed' \in BOOLEAN /\ outline' \in Seq(Frames)
    BY <1>1, <1>3, <1>4, ReadsType DEF IInv
<1>6. FormInv'
    BY <1>1, <1>3, <1>4, <1>5, FormStep DEF tree, place
<1>7. TypeOK'
  <2>1. UNCHANGED <<made, parent, heap, stack, freed, status, newtask, top, children>>
      BY <1>1 DEF tree, place, cleaning
  <2>2. {newtask', top'} \subseteq (0..made) \cup {Null} /\ children' \in Int /\ TypeOK
      BY <2>1 DEF IInv, TypeOK
  <2> QED
      BY <1>1, <1>5, <2>1, <2>2, QuietType
<1> QED
    BY <1>2, <1>6, <1>7 DEF IInv, FormInv

LEMMA EndProcessStep ==
    ASSUME IInv, EndProcess
    PROVE  IInv'
<1>1. /\ status = "reading" /\ Reads("ENDPROCESS") /\ newtask' = Null
      /\ UNCHANGED <<status, tree, top, children, named, cleaning>>
    BY DEF EndProcess
<1>2. ListsAreTheTree' /\ StackInv'
    BY <1>1, QuietTree DEF IInv
<1>3. ASSUME formed'
      PROVE  formed /\ InProcess /\ outline' = Front(outline)
    BY <1>1, <1>3, ReadsFollows DEF IInv, Outline, Follows
<1>4. ASSUME formed'
      PROVE  /\ ReadSoFar(outline', children', top', newtask') /\ OnPath(outline', parent', made')
             /\ outline' \in Seq(Frames)
  <2>1. /\ ReadSoFar(outline, children, top, newtask) /\ OnPath(outline, parent, made)
        /\ outline \in Seq(Frames) /\ made \in Nat /\ Stands(outline)
      BY <1>1, <1>3, <1>4, FormRead DEF IInv, FormInv
  <2>2. /\ outline' \in Seq(Frames) /\ ReadSoFar(outline', children, top, newtask')
        /\ OnPath(outline', parent, made)
      BY <1>3, <1>4, <2>1, ProcessClosed
  <2> QED
      BY <1>1, <2>2 DEF tree
<1>5. formed' \in BOOLEAN /\ outline' \in Seq(Frames)
    BY <1>1, <1>4, ReadsType DEF IInv
<1>6. FormInv'
    BY <1>1, <1>4, <1>5, FormStep
<1>7. TypeOK'
  <2>1. UNCHANGED <<made, parent, heap, stack, freed, status, top, children>>
      BY <1>1 DEF tree, cleaning
  <2>2. {newtask', top'} \subseteq (0..made) \cup {Null} /\ children' \in Int /\ TypeOK
      BY <1>1, <2>1 DEF IInv, TypeOK
  <2> QED
      BY <1>1, <1>5, <2>1, <2>2, QuietType
<1> QED
    BY <1>2, <1>6, <1>7 DEF IInv, FormInv

\* A process of the outline is one that was made: newtask and top are not null.
LEMMA NotNull ==
    ASSUME IInv, formed, status = "reading"
    PROVE  /\ top \in 0..made /\ top # Null
           /\ InProcess => newtask \in 1..made /\ newtask # Null
<1>1. /\ ReadSoFar(outline, children, top, newtask) /\ OnPath(outline, parent, made)
      /\ outline \in Seq(Frames) /\ made \in Nat
      /\ InProcess <=> Stands(outline)
    BY FormRead DEF IInv, FormInv
<1>2. Len(outline) \in Nat /\ (outline # <<>> => Len(outline) # 0)
    BY <1>1, EmptySeq
<1>3. Blocks(outline) \in 0..Len(outline)
    BY <1>1, <1>2 DEF Blocks, Stands
<1>4. top \in 0..made
  <2>1. CASE Blocks(outline) = 0
      BY <1>1, <2>1 DEF ReadSoFar, Init0
  <2>2. CASE Blocks(outline) # 0
    <3>1. Blocks(outline) \in 1..Len(outline)
        BY <1>2, <1>3, <2>2
    <3>2. outline[Blocks(outline)].task \in 1..made
        BY <1>1, <3>1 DEF OnPath
    <3> QED
        BY <1>1, <2>2, <3>2 DEF ReadSoFar
  <2> QED
      BY <2>1, <2>2
<1>5. ASSUME InProcess
      PROVE  newtask \in 1..made
  <2>1. Len(outline) \in 1..Len(outline)
      BY <1>1, <1>2, <1>5 DEF Stands
  <2> QED
      BY <1>1, <1>5, <2>1 DEF OnPath, ReadSoFar
<1>6. \A n \in Int : n # Null
    BY NullAssumption
<1> QED
    BY <1>1, <1>4, <1>5, <1>6

\* A field of newtask is set, or a null pointer followed.
LEMMA FieldStep ==
    ASSUME IInv, NEW c \in {"OPTION", "NAME"}, status = "reading", Reads(c),
           \/ newtask = Null /\ Crashes
           \/ UNCHANGED <<status, tree, place>>,
           UNCHANGED cleaning
    PROVE  IInv'
<1>1. /\ UNCHANGED <<made, parent, heap, stack, freed, newtask, top, children>>
      /\ status' \in {"reading", "crashed"} /\ UNCHANGED <<tree, cleaning>>
      /\ status' # "reading" => newtask = Null
    BY DEF Crashes, tree, place, cleaning
<1>2. ListsAreTheTree' /\ StackInv'
    BY <1>1, QuietTree DEF IInv
<1>3. ASSUME formed'
      PROVE  formed /\ InProcess /\ outline' = outline
    BY <1>3, ReadsFollows DEF IInv, Outline, Follows
<1>4. ASSUME formed'
      PROVE  /\ ReadSoFar(outline, children, top, newtask) /\ OnPath(outline, parent, made)
             /\ outline \in Seq(Frames) /\ status' = "reading"
    BY <1>1, <1>3, <1>4, FormRead, NotNull DEF IInv, FormInv
<1>5. formed' \in BOOLEAN /\ outline' \in Seq(Frames)
    BY <1>3, <1>4, ReadsType DEF IInv
<1>6. FormInv'
    BY <1>1, <1>3, <1>4, <1>5, FormStep
<1>7. TypeOK'
  <2>1. {newtask', top'} \subseteq (0..made) \cup {Null} /\ children' \in Int /\ TypeOK
      BY <1>1 DEF IInv, TypeOK
  <2> QED
      BY <1>1, <1>5, <2>1, QuietType
<1> QED
    BY <1>2, <1>6, <1>7 DEF IInv, FormInv

LEMMA SpawnStep ==
    ASSUME IInv, Spawn
    PROVE  IInv'
<1>1. /\ status = "reading" /\ Reads("SPAWN") /\ UNCHANGED cleaning
      /\ \/ newtask = Null /\ Crashes
         \/ /\ newtask # Null /\ children' = children + 1 /\ top' = newtask
            /\ UNCHANGED <<status, tree, newtask, named>>
    BY DEF Spawn
<1>2. /\ UNCHANGED <<made, parent, heap, stack, freed, newtask>> /\ UNCHANGED <<tree, cleaning>>
      /\ status' \in {"reading", "crashed"}
      /\ status' # "reading" => newtask = Null
    BY <1>1 DEF Crashes, tree, place, cleaning
<1>3. ListsAreTheTree' /\ StackInv'
    BY <1>1, <1>2, QuietTree DEF IInv
<1>4. ASSUME formed'
      PROVE  formed /\ InProcess /\ outline' = [outline EXCEPT ![Len(outline)].spawning = TRUE]
    BY <1>1, <1>4, ReadsFollows DEF IInv, Outline, Follows, Block
<1>5. ASSUME formed'
      PROVE  /\ ReadSoFar(outline', children', top', newtask') /\ OnPath(outline', parent', made')
             /\ outline' \in Seq(Frames) /\ status' = "reading"
  <2>1. /\ ReadSoFar(outline, children, top, newtask) /\ OnPath(outline, parent, made)
        /\ outline \in Seq(Frames) /\ made \in Nat /\ Stands(outline)
      BY <1>1, <1>4, <1>5, FormRead DEF IInv, FormInv
  <2>2. newtask # Null
      BY <1>1, <1>4, <1>5, NotNull
  <2>3. children' = children + 1 /\ top' = newtask /\ status' = "reading"
      BY <1>1, <1>2, <2>2
  <2>4. /\ outline' \in Seq(Frames) /\ ReadSoFar(outline', children + 1, newtask, newtask)
        /\ OnPath(outline', parent, made)
      BY <1>4, <1>5, <2>1, BlockOpened
  <2> QED
      BY <1>2, <2>3, <2>4
<1>6. formed' \in BOOLEAN /\ outline' \in Seq(Frames)
    BY <1>1, <1>5, ReadsType DEF IInv
<1>7. FormInv'
    BY <1>2, <1>5, <1>6, FormStep
<1>8. TypeOK'
  <2>1. {newtask', top'} \subseteq (0..made) \cup {Null} /\ children' \in Int /\ TypeOK
      BY <1>1, <1>2 DEF IInv, TypeOK, Crashes, place
  <2> QED
      BY <1>2, <1>6, <2>1, QuietType
<1> QED
    BY <1>3, <1>7, <1>8 DEF IInv, FormInv

LEMMA EndSpawnStep ==
    ASSUME IInv, EndSpawn
    PROVE  IInv'
<1>1. /\ status = "reading" /\ Reads("ENDSPAWN") /\ UNCHANGED cleaning
      /\ \/ top = Null /\ Crashes
         \/ /\ top # Null /\ children' = children - 1 /\ newtask' = top /\ top' = parent[top]
            /\ UNCHANGED <<status, tree, named>>
    BY DEF EndSpawn, Reopened
<1>2. /\ UNCHANGED <<made, parent, heap, stack, freed>> /\ UNCHANGED <<tree, cleaning>>
      /\ status' \in {"reading", "crashed"}
      /\ status' # "reading" => top = Null
    BY <1>1 DEF Crashes, tree, place, cleaning
<1>3. ListsAreTheTree' /\ StackInv'
    BY <1>1, <1>2, QuietTree DEF IInv
<1>4. ASSUME formed'
      PROVE  formed /\ InBlock /\ outline' = [outline EXCEPT ![Len(outline)].spawning = FALSE]
    BY <1>1, <1>4, ReadsFollows DEF IInv, Outline, Follows, Block
<1>5. ASSUME formed'
      PROVE  /\ ReadSoFar(outline', children', top', newtask') /\ OnPath(outline', parent', made')
             /\ outline' \in Seq(Frames) /\ status' = "reading"
  <2>1. /\ ReadSoFar(outline, children, top, newtask) /\ OnPath(outline, parent, made)
        /\ outline \in Seq(Frames) /\ made \in Nat /\ outline # <<>> /\ ~Stands(outline)
      BY <1>1, <1>4, <1>5, FormRead DEF IInv, FormInv
  <2>2. top # Null
      BY <1>1, <1>4, <1>5, NotNull
  <2>3. children' = children - 1 /\ newtask' = top /\ top' = parent[top] /\ status' = "reading"
      BY <1>1, <1>2, <2>2
  <2>4. /\ outline' \in Seq(Frames) /\ ReadSoFar(outline', children - 1, parent[top], top)
        /\ OnPath(outline', parent, made)
      BY <1>4, <1>5, <2>1, BlockClosed
  <2> QED
      BY <1>2, <2>3, <2>4
<1>6. formed' \in BOOLEAN /\ outline' \in Seq(Frames)
    BY <1>1, <1>5, ReadsType DEF IInv
<1>7. FormInv'
    BY <1>2, <1>5, <1>6, FormStep
<1>8. TypeOK'
  <2>1. ASSUME NEW t \in 0..made
        PROVE  parent[t] \in (0..made) \cup {Null}
    <3>1. CASE t = 0
        BY <3>1 DEF IInv, TypeOK, Init0
    <3>2. CASE t # 0
      <4>1. t \in 1..made /\ made \in Int
          BY <2>1, <3>2, ProfileBounds DEF IInv, TypeOK, Tasks
      <4>2. parent[t] \in 0..(t - 1)
          BY <4>1 DEF IInv, ListsAreTheTree
      <4> QED
          BY <4>1, <4>2
    <3> QED
        BY <3>1, <3>2
  <2>2. {newtask', top'} \subseteq (0..made) \cup {Null} /\ children' \in Int /\ TypeOK
    <3>1. TypeOK /\ {newtask, top} \subseteq (0..made) \cup {Null} /\ children \in Int
        BY DEF IInv, TypeOK
    <3>2. CASE top = Null /\ Crashes
        BY <3>1, <3>2 DEF Crashes, place
    <3>3. CASE top # Null
        BY <1>1, <2>1, <3>1, <3>3
    <3> QED
        BY <1>1, <3>2, <3>3
  <2> QED
      BY <1>2, <1>6, <2>2, QuietType
<1> QED
    BY <1>3, <1>7, <1>8 DEF IInv, FormInv

LEMMA BadCommandStep ==
    ASSUME IInv, BadCommand
    PROVE  IInv'
<1>1. /\ status = "reading" /\ status' = "rejected" /\ formed' = FALSE /\ outline' = <<>>
      /\ UNCHANGED <<made, parent, heap, stack, freed, newtask, top, children>>
      /\ UNCHANGED <<tree, cleaning>>
    BY DEF BadCommand, tree, place, cleaning
<1>2. ListsAreTheTree' /\ StackInv'
    BY <1>1, QuietTree DEF IInv
<1>3. outline' \in Seq(Frames)
    BY <1>1, EmptySeq
<1>4. FormInv'
    BY <1>1, <1>3, FormStep
<1>5. TypeOK'
  <2>1. {newtask', top'} \subseteq (0..made) \cup {Null} /\ children' \in Int /\ TypeOK
      BY <1>1 DEF IInv, TypeOK
  <2> QED
      BY <1>1, <1>3, <2>1, QuietType
<1> QED
    BY <1>2, <1>4, <1>5 DEF IInv, FormInv

LEMMA EndlessCommentStep ==
    ASSUME IInv, EndlessComment
    PROVE  IInv'
<1>1. /\ status = "reading" /\ status' = "spinning" /\ formed' = formed /\ outline' = outline
      /\ UNCHANGED <<made, parent, heap, stack, freed, newtask, top, children>>
      /\ UNCHANGED <<tree, cleaning>>
    BY DEF EndlessComment, tree, place, cleaning, history
<1>2. ListsAreTheTree' /\ StackInv'
    BY <1>1, QuietTree DEF IInv
<1>3. /\ outline' \in Seq(Frames) /\ formed' \in BOOLEAN
      /\ {newtask', top'} \subseteq (0..made) \cup {Null} /\ children' \in Int /\ TypeOK
    BY <1>1 DEF IInv, TypeOK, Frames
<1>4. FormInv'
    BY <1>1, <1>3, FormStep
<1>5. TypeOK'
    BY <1>1, <1>3, QuietType
<1> QED
    BY <1>2, <1>4, <1>5 DEF IInv, FormInv

\* The outline can become empty only with no block open.
LEMMA LastOutline ==
    ASSUME IInv, status = "reading", NEW c \in Commands, Reads(c), formed'
    PROVE  outline' \in Seq(Frames) /\ (outline' = <<>> => children = 0)
<1>1. formed /\ Follows(c) /\ outline' = Outline(c)
    BY ReadsFollows DEF IInv
<1>2. /\ ReadSoFar(outline, children, top, newtask) /\ OnPath(outline, parent, made)
      /\ outline \in Seq(Frames) /\ made \in Nat
      /\ InProcess <=> Stands(outline)
      /\ InBlock <=> outline # <<>> /\ ~Stands(outline)
    BY <1>1, FormRead DEF IInv, FormInv
<1>3. CASE c = "NEWPROCESS"
  <2>1. outline' = Append(outline, [task |-> made + 1, spawning |-> FALSE])
      BY <1>1, <1>3 DEF Outline, Deeper
  <2>2. [task |-> made + 1, spawning |-> FALSE] \in Frames
      BY <1>2 DEF Frames
  <2> QED
      BY <1>2, <2>1, <2>2
<1>4. CASE c = "ENDPROCESS"
  <2>1. outline' = Front(outline) /\ Stands(outline)
      BY <1>1, <1>2, <1>4 DEF Outline, Follows
  <2> QED
      BY <1>2, <2>1, ProcessClosed
<1>5. CASE c = "SPAWN"
  <2>1. outline' = [outline EXCEPT ![Len(outline)].spawning = TRUE] /\ Stands(outline)
      BY <1>1, <1>2, <1>5 DEF Outline, Follows, Block
  <2> QED
      BY <1>2, <2>1, BlockOpened
<1>6. CASE c = "ENDSPAWN"
  <2>1. outline' = [outline EXCEPT ![Len(outline)].spawning = FALSE] /\ InBlock
      BY <1>1, <1>6 DEF Outline, Follows, Block
  <2> QED
      BY <1>2, <2>1, BlockClosed
<1>7. CASE c \in {"SETTING", "OPTION", "NAME"}
  <2>1. outline' = outline
      BY <1>1, <1>7 DEF Outline
  <2>2. outline = <<>> => children = 0
      BY <1>2 DEF ReadSoFar, Blocks, Stands
  <2> QED
      BY <1>2, <2>1, <2>2
<1> QED
    BY <1>3, <1>4, <1>5, <1>6, <1>7 DEF Commands

LEMMA FileEndsStep ==
    ASSUME IInv, FileEnds
    PROVE  IInv'
<1>1. /\ status = "reading"
      /\ UNCHANGED history \/ \E c \in Commands : Reads(c)
      /\ status' = IF children # 0 THEN "rejected" ELSE "accepted"
      /\ UNCHANGED <<made, parent, heap, stack, freed, newtask, top, children>>
      /\ UNCHANGED <<tree, cleaning>>
    BY DEF FileEnds, tree, place, cleaning
<1>2. ListsAreTheTree' /\ StackInv'
    BY <1>1, QuietTree DEF IInv
<1>3. /\ formed' \in BOOLEAN /\ outline' \in Seq(Frames)
      /\ formed' /\ outline' = <<>> => children = 0
  <2>1. CASE UNCHANGED history
    <3>1. formed' = formed /\ outline' = outline
        BY <2>1 DEF history
    <3>2. formed /\ outline = <<>> => children = 0
      <4>1. SUFFICES ASSUME formed, outline = <<>> PROVE children = 0
          OBVIOUS
      <4>2. ReadSoFar(outline, children, top, newtask)
          BY <1>1, <4>1, FormRead DEF IInv, FormInv
      <4> QED
          BY <4>1, <4>2 DEF ReadSoFar, Blocks, Stands
    <3> QED
        BY <3>1, <3>2 DEF IInv, TypeOK, Frames
  <2>2. CASE \E c \in Commands : Reads(c)
    <3>1. PICK c \in Commands : Reads(c)
        BY <2>2
    <3>2. formed' => outline' \in Seq(Frames) /\ (outline' = <<>> => children = 0)
        BY <1>1, <3>1, LastOutline
    <3> QED
        BY <3>1, <3>2, ReadsType DEF IInv
  <2> QED
      BY <1>1, <2>1, <2>2
<1>4. FormInv'
    BY <1>1, <1>3, FormStep
<1>5. TypeOK'
  <2>1. /\ {newtask', top'} \subseteq (0..made) \cup {Null} /\ children' \in Int /\ TypeOK
        /\ status' \in {"rejected", "accepted"}
      BY <1>1 DEF IInv, TypeOK
  <2> QED
      BY <1>1, <1>3, <2>1, QuietType
<1> QED
    BY <1>2, <1>4, <1>5 DEF IInv, FormInv

\* The children of a process are processes made after it.
LEMMA KidsRange ==
    ASSUME TypeOK, NEW t
    PROVE  /\ Kids(t) \subseteq 1..made /\ Kids(t) \subseteq Tasks \ {0}
           /\ 0..made \subseteq Tasks /\ made \in Nat /\ 0 \in Tasks
    BY ProfileBounds DEF TypeOK, Kids, Tasks

\* A new process hangs on the list of top, behind those made before it.
LEMMA ChildAdded ==
    ASSUME IInv, status = "reading", made < MaxProcs, top # Null,
           made' = made + 1, parent' = [parent EXCEPT ![made + 1] = top],
           heap' = AddChild(heap, made + 1), UNCHANGED cleaning
    PROVE  heap' \in HeapType /\ ListsAreTheTree'
<1> USE ProfileBounds
<1>1. PICK m : m = made + 1
    OBVIOUS
<1>2. /\ made \in Nat /\ m \in Tasks \ {0} /\ m \notin 0..made /\ 0..made \subseteq Tasks
      /\ 0..m \subseteq Tasks /\ top \in 0..made /\ top \in Tasks /\ top # m /\ 0 \in Tasks
    BY <1>1 DEF IInv, TypeOK, Tasks
<1>3. heap \in HeapType
    BY DEF IInv, TypeOK, HeapType, Pointers
<1>4. freed = {} /\ stack = <<>> /\ freed' = {} /\ stack' = <<>>
    BY DEF IInv, StackInv, cleaning
<1>5. \A t : Kids(t) = {p \in 1..made : parent[p] = t}
    BY <1>4 DEF Kids, Activated
<1>6. PICK h : h = Lists!InitListHead(heap, ListOf(m))
    OBVIOUS
<1>7. /\ h \in HeapType /\ IsRing(h, m, {})
      /\ \A n \in Nodes \ {ListOf(m)} : h.next[n] = heap.next[n] /\ h.prev[n] = heap.prev[n]
    BY <1>2, <1>3, <1>6, RingInitialised
<1>8. ASSUME NEW t \in 0..made
      PROVE  IsRing(h, t, Kids(t))
  <2>1. IsRing(heap, t, Kids(t))
      BY <1>4 DEF IInv, ListsAreTheTree
  <2>2. ASSUME NEW p \in {0} \cup Kids(t)
        PROVE  Place(t, p) \in Nodes \ {ListOf(m)}
    <3>1. p \in 0..made /\ t # m /\ t \in Tasks /\ p \in Tasks
        BY <1>2, <2>2, KidsRange DEF IInv
    <3>2. Place(m, 0) = ListOf(m)
        BY DEF Place
    <3> QED
        BY <1>2, <3>1, <3>2, PlacesDiffer
  <2> QED
      BY <1>7, <2>1, <2>2, RingFrame
<1>9. heap' = Lists!list_add_tail(h, ClistOf(m), ListOf(top))
    BY <1>1, <1>6 DEF AddChild
<1>10. /\ Kids(top) \subseteq Tasks \ {0} /\ IsRing(h, top, Kids(top)) /\ \A k \in Kids(top) : k < m
    BY <1>1, <1>2, <1>8, KidsRange DEF IInv
<1>11. /\ heap' \in HeapType /\ IsRing(heap', top, Kids(top) \cup {m})
       /\ \E l \in {0} \cup Kids(top) :
             \A n \in Nodes \ {Place(top, l), ListOf(top), ClistOf(m)} :
                 heap'.next[n] = h.next[n] /\ heap'.prev[n] = h.prev[n]
    BY <1>2, <1>7, <1>9, <1>10, RingAppended
<1>12. PICK l \in {0} \cup Kids(top) :
            \A n \in Nodes \ {Place(top, l), ListOf(top), ClistOf(m)} :
                heap'.next[n] = h.next[n] /\ heap'.prev[n] = h.prev[n]
    BY <1>11
<1>13. ASSUME NEW s \in 0..m, s # top, NEW K, K \subseteq 1..made, K \cap Kids(top) = {},
              IsRing(h, s, K)
       PROVE  IsRing(heap', s, K)
  <2>1. ASSUME NEW p \in {0} \cup K
        PROVE  Place(s, p) \in Nodes \ {Place(top, l), ListOf(top), ClistOf(m)}
    <3>1. /\ p \in Tasks /\ s \in Tasks /\ l \in Tasks /\ p # m
          /\ Place(top, 0) = ListOf(top) /\ Place(top, m) = ClistOf(m)
        BY <1>2, <1>10, <1>12, <1>13, <2>1 DEF Place
    <3>2. p = l => p = 0
        BY <1>12, <1>13, <2>1
    <3> QED
        BY <1>2, <1>13, <3>1, <3>2, PlacesDiffer
  <2> QED
      BY <1>12, <1>13, <2>1, RingFrame
<1>14. \A p \in 1..made : parent[p] \in 0..(p - 1)
    BY DEF IInv, ListsAreTheTree
<1>15. /\ parent'[m] = top /\ \A p \in 1..made : parent'[p] = parent[p]
       /\ made' = m /\ 1..m = (1..made) \cup {m}
    BY <1>1, <1>2 DEF IInv, TypeOK
<1>16. \A t : Kids(t)' = {p \in 1..m : parent'[p] = t}
    BY <1>4, <1>15 DEF Kids, Activated
<1>17. ASSUME NEW s \in 0..m
       PROVE  IsRing(heap', s, Kids(s)')
  <2>1. CASE s = top
    <3>1. Kids(s)' = Kids(top) \cup {m}
        BY <1>5, <1>15, <1>16, <2>1
    <3> QED
        BY <1>11, <2>1, <3>1
  <2>2. CASE s = m
    <3>1. Kids(s)' = {}
      <4>1. \A p \in 1..made : parent[p] # m
          BY <1>1, <1>2, <1>14
      <4> QED
          BY <1>2, <1>15, <1>16, <2>2, <4>1
    <3>2. {} \subseteq 1..made /\ {} \cap Kids(top) = {} /\ s # top
        BY <1>2, <2>2
    <3> QED
        BY <1>7, <1>13, <2>2, <3>1, <3>2
  <2>3. CASE s \in 0..made /\ s # top
    <3>1. Kids(s)' = Kids(s)
        BY <1>2, <1>5, <1>15, <1>16, <2>3
    <3>2. Kids(s) \subseteq 1..made /\ Kids(s) \cap Kids(top) = {}
        BY <1>5, <2>3
    <3> QED
        BY <1>8, <1>13, <2>3, <3>1, <3>2
  <2> QED
      BY <1>1, <1>2, <2>1, <2>2, <2>3
<1>18. \A p \in 1..m : parent'[p] \in 0..(p - 1)
    BY <1>1, <1>2, <1>14, <1>15
<1> QED
    BY <1>4, <1>11, <1>15, <1>17, <1>18 DEF ListsAreTheTree

LEMMA NewProcessStep ==
    ASSUME IInv, NewProcess
    PROVE  IInv'
<1>1. /\ status = "reading" /\ made < MaxProcs /\ Reads("NEWPROCESS") /\ UNCHANGED cleaning
      /\ \/ top = Null /\ Crashes
         \/ /\ top # Null /\ made' = made + 1 /\ newtask' = made + 1
            /\ parent' = [parent EXCEPT ![made + 1] = top]
            /\ heap' = AddChild(heap, made + 1)
            /\ UNCHANGED <<status, top, children, named>>
    BY DEF NewProcess
<1>2. /\ made \in Nat /\ made + 1 \in Tasks \ {0} /\ stack = <<>> /\ freed = {}
      /\ stack' = stack /\ freed' = freed /\ made + 1 \in Int
    BY <1>1, ProfileBounds DEF IInv, TypeOK, StackInv, Tasks, cleaning
<1>3. ASSUME formed'
      PROVE  /\ formed /\ outline' = Append(outline, [task |-> made + 1, spawning |-> FALSE])
             /\ ReadSoFar(outline, children, top, newtask) /\ OnPath(outline, parent, made)
             /\ outline \in Seq(Frames) /\ ~Stands(outline) /\ top # Null
  <2>1. formed /\ Follows("NEWPROCESS") /\ outline' = Outline("NEWPROCESS")
      BY <1>1, <1>3, ReadsFollows DEF IInv
  <2>2. /\ ReadSoFar(outline, children, top, newtask) /\ OnPath(outline, parent, made)
        /\ outline \in Seq(Frames)
        /\ InBlock <=> outline # <<>> /\ ~Stands(outline)
      BY <1>1, <2>1, FormRead DEF IInv, FormInv
  <2>3. top # Null
      BY <1>1, <2>1, NotNull
  <2>4. outline = <<>> \/ InBlock
      BY <2>1 DEF Follows
  <2>5. ~Stands(outline)
      BY <2>2, <2>4 DEF Stands
  <2> QED
      BY <2>1, <2>2, <2>3, <2>5 DEF Outline, Deeper
<1>4. CASE top = Null /\ Crashes
  <2>1. /\ UNCHANGED <<made, parent, heap, newtask, top, children>> /\ status' = "crashed"
        /\ UNCHANGED <<tree, cleaning>>
      BY <1>1, <1>4 DEF Crashes, tree, place
  <2>2. ListsAreTheTree' /\ StackInv'
      BY <1>1, <2>1, QuietTree DEF IInv
  <2>3. ~formed'
      BY <1>3, <1>4
  <2>4. formed' \in BOOLEAN /\ outline' \in Seq(Frames)
      BY <1>1, <2>3, ReadsType DEF IInv
  <2>5. FormInv'
      BY <2>3, <2>4, FormStep
  <2>6. TypeOK'
    <3>1. {newtask', top'} \subseteq (0..made) \cup {Null} /\ children' \in Int /\ TypeOK
        BY <2>1 DEF IInv, TypeOK
    <3> QED
        BY <1>2, <2>1, <2>4, <3>1, QuietType
  <2> QED
      BY <2>2, <2>5, <2>6 DEF IInv, FormInv
<1>5. CASE top # Null
  <2>1. /\ made' = made + 1 /\ newtask' = made + 1 /\ status' = "reading" /\ status = "reading"
        /\ parent' = [parent EXCEPT ![made + 1] = top] /\ heap' = AddChild(heap, made + 1)
        /\ top' = top /\ children' = children
      BY <1>1, <1>5
  <2>2. heap' \in HeapType /\ ListsAreTheTree'
      BY <1>1, <1>5, <2>1, ChildAdded
  <2>3. StackInv'
      BY <1>2, <2>1 DEF StackInv
  <2>4. /\ parent \in [Tasks -> Tasks \cup {Null}] /\ parent[Init0] = Null
        /\ top \in 0..made /\ 0..made \subseteq Tasks /\ children \in Int /\ Init0 = 0
      BY <1>2, <1>5, ProfileBounds DEF IInv, TypeOK, Tasks, Init0
  <2>5. /\ parent' \in [Tasks -> Tasks \cup {Null}] /\ parent'[Init0] = Null
        /\ parent'[made + 1] = top /\ \A t \in 1..made : parent'[t] = parent[t]
      BY <1>2, <2>1, <2>4
  <2>6. ASSUME formed'
        PROVE  /\ ReadSoFar(outline', children', top', newtask')
               /\ OnPath(outline', parent', made')
               /\ outline' \in Seq(Frames) /\ outline' # <<>>
    <3>1. /\ outline' \in Seq(Frames) /\ outline' # <<>>
          /\ ReadSoFar(outline', children, top, made + 1) /\ OnPath(outline', parent', made + 1)
        BY <1>2, <1>3, <2>5, <2>6, ProcessOpened
    <3> QED
        BY <2>1, <3>1
  <2>7. formed' \in BOOLEAN /\ outline' \in Seq(Frames)
      BY <1>1, <2>6, ReadsType DEF IInv
  <2>8. FormInv'
      BY <2>1, <2>6, <2>7, FormStep
  <2>9. stack' \in Seq([task: Tasks, child: Nodes \cup {Null}])
      BY <1>2, EmptySeq
  <2>10. /\ made' \in Tasks /\ freed' \subseteq 0..made' /\ children' \in Int
         /\ {newtask', top'} \subseteq (0..made') \cup {Null}
      BY <1>2, <2>1, <2>4
  <2>11. TypeOK'
      BY <2>1, <2>2, <2>5, <2>7, <2>9, <2>10 DEF TypeOK, HeapType, Pointers, Frames
  <2> QED
      BY <2>2, <2>3, <2>8, <2>11 DEF IInv, FormInv
<1> QED
    BY <1>1, <1>4, <1>5

-----------------------------------------------------------------------------
(* The steps of the clean-up. *)

Activations == [task: Tasks, child: Nodes \cup {Null}]

\* The file has been read: FormInv only asks for the outline of it.
LEMMA FormKept ==
    ASSUME IInv, UNCHANGED history, status \notin {"reading", "accepted", "spinning"},
           status' # "reading", status' = "crashed" => stack' # <<>>
    PROVE  FormInv'
<1>1. formed' = formed /\ outline' = outline
    BY DEF history
<1>2. outline' \in Seq(Frames)
    BY <1>1 DEF IInv, TypeOK, Frames
<1>3. formed /\ outline = <<>> => FALSE
    BY DEF IInv, FormedProfileIsRead
<1> QED
    BY <1>1, <1>2, <1>3, FormStep

\* The lists change only with the heap and the processes that are on them.
LEMMA TreeKept ==
    ASSUME IInv, UNCHANGED tree, freed \subseteq freed',
           \A p \in 1..made : p \in freed' \cup Activated' <=> p \in freed \cup Activated
    PROVE  ListsAreTheTree'
<1>1. made' = made /\ parent' = parent /\ heap' = heap
    BY DEF tree
<1>2. \A t : Kids(t)' = Kids(t)
    BY <1>1 DEF Kids
<1>3. \A t \in (0..made) \ freed' : IsRing(heap, t, Kids(t)')
    BY <1>2 DEF IInv, ListsAreTheTree
<1> QED
    BY <1>1, <1>3 DEF IInv, ListsAreTheTree

LEMMA CleanUpStep ==
    ASSUME IInv, CleanUp
    PROVE  IInv'
<1>1. /\ status = "rejected" /\ status' = "cleaning" /\ stack' = <<Activation(heap, Init0)>>
      /\ UNCHANGED <<made, parent, heap, newtask, top, children, named, freed, formed, outline>>
      /\ UNCHANGED tree /\ UNCHANGED history
    BY DEF CleanUp, tree, place, history
<1>2. PICK a : a = [task |-> 0, child |-> heap.next[ListOf(0)]]
    OBVIOUS
<1>3. stack' = <<a>> /\ a.task = 0 /\ a.child = heap.next[ListOf(0)]
    BY <1>1, <1>2 DEF Activation, Init0
<1>4. /\ 0 \in Tasks /\ ListOf(0) \in Nodes /\ heap \in HeapType /\ made \in Nat
      /\ stack = <<>> /\ freed = {}
    BY <1>1, ProfileBounds, NodesDiffer DEF IInv, TypeOK, StackInv, Tasks, HeapType, Pointers
<1>5. a \in Activations
    BY <1>2, <1>4 DEF Activations, HeapType, Pointers
<1>6. stack' \in Seq(Activations) /\ Len(stack') = 1 /\ stack'[1] = a /\ stack' # <<>>
    BY <1>3, <1>5
<1>7. Activated' = {0} /\ Activated = {}
    BY <1>3, <1>4, <1>6 DEF Activated
<1>8. ListsAreTheTree'
    BY <1>1, <1>4, <1>7, TreeKept
<1>9. StackInv'
    BY <1>1, <1>3, <1>4, <1>6 DEF StackInv, Init0
<1>10. FormInv'
    BY <1>1, FormKept
<1>11. TypeOK'
    BY <1>1, <1>6 DEF IInv, TypeOK, Activations
<1> QED
    BY <1>8, <1>9, <1>10, <1>11 DEF IInv, FormInv

\* The last activation, while there is one.
LEMMA ActiveIs ==
    ASSUME IInv, stack # <<>>
    PROVE  /\ Len(stack) \in Nat \ {0} /\ Active = stack[Len(stack)] /\ Active \in Activations
           /\ stack \in Seq(Activations) /\ \A i \in 1..Len(stack) : stack[i] \in Activations
           /\ Active.task \in (0..made) \ freed /\ Active.task \in Tasks
           /\ Active.child = heap.next[ListOf(Active.task)]
           /\ IsRing(heap, Active.task, Kids(Active.task))
<1>1. stack \in Seq(Activations)
    BY DEF IInv, TypeOK, Activations
<1>2. Len(stack) \in Nat \ {0} /\ \A i \in 1..Len(stack) : stack[i] \in Activations
    BY <1>1, EmptySeq, ElementOfSeq
<1>3. Active = stack[Len(stack)] /\ Len(stack) \in 1..Len(stack)
    BY <1>2 DEF Active, Last
<1>4. Active.task \in (0..made) \ freed /\ Active.child = heap.next[ListOf(Active.task)]
    BY <1>3 DEF IInv, StackInv
<1>5. Active.task \in Tasks
    BY <1>4, KidsRange DEF IInv
<1> QED
    BY <1>1, <1>2, <1>3, <1>4, <1>5 DEF IInv, ListsAreTheTree

\* What it looks at is its first child, or there is none.
LEMMA FirstChild ==
    ASSUME IInv, stack # <<>>
    PROVE  /\ ~HasChild => Kids(Active.task) = {}
           /\ HasChild => \E q \in Kids(Active.task) : Active.child = ClistOf(q)
<1>1. PICK t : t = Active.task
    OBVIOUS
<1>2. t \in Tasks /\ Active.child = heap.next[ListOf(t)] /\ IsRing(heap, t, Kids(t))
    BY <1>1, ActiveIs
<1>3. PICK q \in {0} \cup Kids(t) : Behind(Kids(t), 0, q) /\ Linked(heap, t, 0, q)
    BY <1>2 DEF IsRing
<1>4. q \in Tasks /\ 0 \in Tasks /\ Kids(t) \subseteq 1..made /\ made \in Nat
    BY <1>3, KidsRange DEF IInv
<1>5. Active.child = Place(t, q) /\ Place(t, q) # Null
      /\ (Place(t, q) = ListOf(t) <=> q = 0) /\ (q # 0 => Place(t, q) = ClistOf(q))
  <2>1. Place(t, 0) = ListOf(t) /\ (q # 0 => Place(t, q) = ClistOf(q))
      BY DEF Place
  <2> QED
      BY <1>2, <1>3, <1>4, <2>1, PlacesDiffer DEF Linked
<1>6. q = 0 => Kids(t) = {}
    BY <1>3, <1>4 DEF Behind
<1> QED
    BY <1>1, <1>3, <1>5, <1>6 DEF HasChild

LEMMA CleanChildStep ==
    ASSUME IInv, CleanChild
    PROVE  IInv'
<1>1. /\ status = "cleaning" /\ HasChild /\ stack # <<>>
      /\ heap' = Lists!list_del(heap, Active.child)
      /\ stack' = Append([stack EXCEPT ![Len(stack)].child = NextSibling(heap, Active.child)],
                         Activation(heap', Entry(Active.child)))
      /\ UNCHANGED <<status, made, parent, newtask, top, children, freed, formed, outline>>
      /\ UNCHANGED history
    BY DEF CleanChild, IInv, StackInv, place, history
<1>2. PICK t : t = Active.task
    OBVIOUS
<1>3. PICK D : D = Len(stack)
    OBVIOUS
<1>4. /\ D \in Nat \ {0} /\ stack[D] = Active /\ Active \in Activations
      /\ stack \in Seq(Activations) /\ \A i \in 1..D : stack[i] \in Activations
      /\ t \in (0..made) \ freed /\ t \in Tasks
      /\ IsRing(heap, t, Kids(t)) /\ Active.child = heap.next[ListOf(t)]
    BY <1>1, <1>2, <1>3, ActiveIs
<1>5. PICK q \in Kids(t) : Active.child = ClistOf(q)
    BY <1>1, <1>2, FirstChild
<1>6. /\ Kids(t) \subseteq Tasks \ {0} /\ q \in Tasks \ {0} /\ q \in 1..made /\ made \in Nat
      /\ 0..made \subseteq Tasks
    BY <1>5, KidsRange DEF IInv
<1>7. Entry(Active.child) = q
    BY <1>4, <1>5, <1>6, NodesDiffer
<1>8. heap \in HeapType
    BY DEF IInv, TypeOK, HeapType, Pointers
<1>9. PICK g : g = Lists!list_del(heap, ClistOf(q))
    OBVIOUS
<1>10. PICK nxt : nxt = heap.next[ClistOf(q)]
    OBVIOUS
<1>11. /\ g \in HeapType /\ IsRing(g, t, Kids(t) \ {q})
       /\ g.next[ListOf(t)] = nxt
       /\ \E a, b \in ({0} \cup Kids(t)) \ {q} :
             \A x \in Nodes \ {Place(t, a), Place(t, b), ClistOf(q)} :
                 g.next[x] = heap.next[x] /\ g.prev[x] = heap.prev[x]
       /\ \A x \in Nodes \ {ListOf(t), ClistOf(q)} : g.next[x] = heap.next[x]
  <2>1. PICK K : K = Kids(t)
      OBVIOUS
  <2>2. /\ K \subseteq Tasks \ {0} /\ IsRing(heap, t, K) /\ q \in K
        /\ heap.next[ListOf(t)] = ClistOf(q)
      BY <1>4, <1>5, <1>6, <2>1
  <2>3. Removed(heap, g, t, K, q)
      BY <1>4, <1>8, <1>9, <2>2, RingRemoved
  <2> QED
      BY <1>10, <2>1, <2>2, <2>3 DEF Removed
<1>12. PICK a, b : /\ a \in ({0} \cup Kids(t)) \ {q} /\ b \in ({0} \cup Kids(t)) \ {q}
                   /\ \A x \in Nodes \ {Place(t, a), Place(t, b), ClistOf(q)} :
                          g.next[x] = heap.next[x] /\ g.prev[x] = heap.prev[x]
    BY <1>11
<1>13. heap' = g
    BY <1>1, <1>5, <1>9
<1>14. PICK e : e = [stack[D] EXCEPT !.child = nxt]
    OBVIOUS
<1>15. PICK c : c = [task |-> q, child |-> g.next[ListOf(q)]]
    OBVIOUS
<1>16. /\ nxt \in Nodes \cup {Null} /\ g.next[ListOf(q)] \in Nodes \cup {Null}
       /\ ListOf(q) \in Nodes /\ ClistOf(q) \in Nodes /\ ListOf(q) # ListOf(t)
       /\ q # t
  <2>1. ListOf(q) \in Nodes /\ ClistOf(q) \in Nodes
      BY <1>6, NodesDiffer
  <2>2. q # t
    <3>1. parent[q] = t /\ parent[q] \in 0..(q - 1)
        BY <1>5, <1>6 DEF Kids, IInv, ListsAreTheTree
    <3> QED
        BY <1>6, <3>1
  <2>3. ListOf(q) # ListOf(t)
      BY <1>4, <1>6, <2>2, NodesDiffer
  <2> QED
      BY <1>8, <1>10, <1>11, <2>1, <2>2, <2>3 DEF HeapType, Pointers
<1>17. e \in Activations /\ e.task = t /\ e.child = nxt
  <2>1. stack[D] \in Activations /\ stack[D].task = t
      BY <1>2, <1>4
  <2> QED
      BY <1>14, <1>16, <2>1 DEF Activations
<1>18. c \in Activations /\ c.task = q /\ c.child = g.next[ListOf(q)]
    BY <1>6, <1>15, <1>16 DEF Activations
<1>19. PICK E : E = [stack EXCEPT ![D] = e]
    OBVIOUS
<1>20. stack' = Append(E, c)
  <2>1. [stack EXCEPT ![Len(stack)].child = NextSibling(heap, Active.child)] = E
      BY <1>3, <1>5, <1>10, <1>14, <1>19 DEF NextSibling
  <2>2. Activation(heap', Entry(Active.child)) = c
      BY <1>7, <1>13, <1>15 DEF Activation
  <2> QED
      BY <1>1, <2>1, <2>2
<1>21. /\ E \in Seq(Activations) /\ Len(E) = D
       /\ \A i \in 1..D : E[i] = IF i = D THEN e ELSE stack[i]
  <2>1. D \in 1..Len(stack)
      BY <1>3, <1>4
  <2> QED
      BY <1>3, <1>4, <1>17, <1>19, <2>1, ExceptSeq
<1>22. /\ stack' \in Seq(Activations) /\ Len(stack') = D + 1 /\ stack'[D + 1] = c
       /\ \A i \in 1..D : stack'[i] = E[i]
       /\ stack' # <<>>
    BY <1>4, <1>18, <1>20, <1>21
<1>23. /\ stack'[D + 1].task = q /\ stack'[D].task = t /\ stack'[D].child = nxt
       /\ \A i \in 1..D : stack'[i].task = stack[i].task
       /\ \A i \in 1..(D - 1) : stack'[i] = stack[i]
    BY <1>2, <1>4, <1>17, <1>18, <1>21, <1>22
<1>24. Activated' = Activated \cup {q}
  <2>1. Activated' = {stack'[i].task : i \in 1..(D + 1)}
      BY <1>22 DEF Activated
  <2>2. Activated = {stack[i].task : i \in 1..D}
      BY <1>3 DEF Activated
  <2>3. 1..(D + 1) = (1..D) \cup {D + 1}
      BY <1>4
  <2> QED
      BY <1>23, <2>1, <2>2, <2>3
<1>25. q \notin freed \cup Activated /\ parent[q] = t
    BY <1>5 DEF Kids
<1>26. \A s : Kids(s)' = Kids(s) \ {q}
    BY <1>1, <1>24 DEF Kids
<1>27. ListsAreTheTree'
  <2>1. ASSUME NEW s \in (0..made) \ freed
        PROVE  IsRing(g, s, Kids(s)')
    <3>1. CASE s = t
        BY <1>11, <1>26, <3>1
    <3>2. CASE s # t
      <4>1. q \notin Kids(s) /\ Kids(s)' = Kids(s) /\ Kids(s) \cap Kids(t) = {}
          BY <1>25, <1>26, <3>2 DEF Kids
      <4>2. ASSUME NEW p \in {0} \cup Kids(s)
            PROVE  Place(s, p) \in Nodes \ {Place(t, a), Place(t, b), ClistOf(q)}
        <5>1. /\ p \in Tasks /\ s \in Tasks /\ a \in Tasks /\ b \in Tasks /\ p # q
              /\ Place(t, q) = ClistOf(q)
            BY <1>6, <1>12, <2>1, <4>1, <4>2, KidsRange DEF IInv, Place
        <5>2. (p = a => p = 0) /\ (p = b => p = 0)
            BY <1>12, <4>1, <4>2
        <5> QED
            BY <1>4, <1>6, <3>2, <5>1, <5>2, PlacesDiffer
      <4>3. IsRing(heap, s, Kids(s))
          BY DEF IInv, ListsAreTheTree
      <4>4. IsRing(g, s, Kids(s))
          BY <1>12, <4>2, <4>3, RingFrame
      <4> QED
          BY <4>1, <4>4
    <3> QED
        BY <3>1, <3>2
  <2> QED
      BY <1>1, <1>13, <2>1 DEF IInv, ListsAreTheTree
<1>28. \A i \in 1..D : stack[i].task # q
    BY <1>3, <1>25 DEF Activated
<1>29. ASSUME NEW i \in 1..(D + 1)
       PROVE  /\ stack'[i].task \in (0..made) \ freed
              /\ stack'[i].child = g.next[ListOf(stack'[i].task)]
              /\ IF i = 1 THEN stack'[i].task = Init0
                 ELSE stack'[i].task # Init0 /\ parent[stack'[i].task] = stack'[i - 1].task
  <2>1. CASE i = D + 1
      BY <1>4, <1>6, <1>18, <1>22, <1>23, <1>25, <2>1 DEF Init0
  <2>2. CASE i \in 1..D
    <3>1. /\ stack[i].task \in (0..made) \ freed
          /\ stack[i].child = heap.next[ListOf(stack[i].task)]
          /\ IF i = 1 THEN stack[i].task = Init0
             ELSE stack[i].task # Init0 /\ parent[stack[i].task] = stack[i - 1].task
        BY <1>3, <2>2 DEF IInv, StackInv
    <3>2. /\ stack'[i].task = stack[i].task
          /\ i # 1 => stack'[i - 1].task = stack[i - 1].task
        BY <1>4, <1>23, <2>2
    <3>3. stack'[i].child = g.next[ListOf(stack'[i].task)]
      <4>1. CASE i = D
          BY <1>11, <1>23, <4>1
      <4>2. CASE i # D
        <5>1. stack[i].task # t /\ stack[i].task \in Tasks
            BY <1>2, <1>3, <1>4, <1>6, <2>2, <3>1, <4>2 DEF IInv, StackInv
        <5>2. ListOf(stack[i].task) \in Nodes \ {ListOf(t), ClistOf(q)}
            BY <1>4, <1>6, <5>1, NodesDiffer
        <5>3. stack'[i] = stack[i]
            BY <1>4, <1>23, <2>2, <4>2
        <5> QED
            BY <1>11, <3>1, <5>2, <5>3
      <4> QED
          BY <4>1, <4>2
    <3> QED
        BY <3>1, <3>2, <3>3
  <2> QED
      BY <1>4, <2>1, <2>2
<1>30. ASSUME NEW i \in 1..(D + 1), NEW j \in 1..(D + 1), stack'[i].task = stack'[j].task
       PROVE  i = j
  <2>1. CASE i \in 1..D /\ j \in 1..D
      BY <1>3, <1>23, <1>30, <2>1 DEF IInv, StackInv
  <2>2. CASE i = D + 1 \/ j = D + 1
      BY <1>4, <1>23, <1>28, <1>30, <2>2, SMTT(30)
  <2> QED
      BY <1>4, <2>1, <2>2
<1>31. StackInv'
  <2>1. \A p \in 1..made : parent[p] \in freed => p \in freed
      BY DEF IInv, StackInv
  <2> QED
      BY <1>1, <1>13, <1>22, <1>29, <1>30, <2>1 DEF StackInv
<1>32. FormInv'
    BY <1>1, FormKept
<1>33. TypeOK'
    BY <1>1, <1>11, <1>13, <1>22 DEF IInv, TypeOK, Activations, HeapType, Pointers
<1> QED
    BY <1>27, <1>31, <1>32, <1>33 DEF IInv, FormInv

\* An activation ends when its process has no child left that is not freed.
LEMMA ChildlessActive ==
    ASSUME IInv, stack # <<>>, ~HasChild, NEW p \in 1..made, parent[p] = Active.task
    PROVE  p \in freed
<1>1. PICK D : D = Len(stack)
    OBVIOUS
<1>2. D \in Nat \ {0} /\ stack[D] = Active
    BY <1>1, ActiveIs
<1>3. p \in freed \cup Activated
    BY FirstChild DEF Kids
<1>4. ASSUME p \in Activated
      PROVE  FALSE
  <2>1. PICK i \in 1..D : stack[i].task = p
      BY <1>1, <1>4 DEF Activated
  <2>2. i # 1
    <3>1. i = 1 => p = 0
        BY <1>1, <2>1 DEF IInv, StackInv, Init0
    <3> QED
        BY <3>1
  <2>3. i - 1 \in 1..D /\ D \in 1..D /\ i - 1 # D
      BY <1>2, <2>2
  <2>4. parent[p] = stack[i - 1].task
      BY <1>1, <2>1, <2>2 DEF IInv, StackInv
  <2>5. stack[i - 1].task = stack[D].task
      BY <1>2, <2>4
  <2> QED
      BY <1>1, <2>3, <2>5 DEF IInv, StackInv
<1> QED
    BY <1>3, <1>4

LEMMA ChildCleanedStep ==
    ASSUME IInv, ChildCleaned
    PROVE  IInv'
<1>1. /\ status = "cleaning" /\ ~HasChild /\ Len(stack) > 1 /\ stack # <<>>
      /\ status' \in {"cleaning", "crashed"} /\ freed' = freed \cup {Active.task}
      /\ stack' = Front(stack)
      /\ UNCHANGED <<made, parent, heap, newtask, top, children, formed, outline>>
      /\ UNCHANGED tree /\ UNCHANGED history
    BY DEF ChildCleaned, FreeName, tree, place, history, IInv, StackInv
<1>2. PICK D : D = Len(stack)
    OBVIOUS
<1>3. PICK t : t = Active.task
    OBVIOUS
<1>4. /\ D \in Nat \ {0, 1} /\ stack[D].task = t /\ t \in (0..made) \ freed
      /\ stack \in Seq(Activations)
    BY <1>1, <1>2, <1>3, ActiveIs
<1>5. /\ stack' \in Seq(Activations) /\ Len(stack') = D - 1
      /\ \A i \in 1..(D - 1) : stack'[i] = stack[i]
    BY <1>1, <1>2, <1>4, FrontAndLast
<1>6. stack' # <<>>
    BY <1>4, <1>5
<1>7. Activated = Activated' \cup {t}
  <2>1. Activated' = {stack[i].task : i \in 1..(D - 1)}
      BY <1>5 DEF Activated
  <2>2. Activated = {stack[i].task : i \in 1..D}
      BY <1>2 DEF Activated
  <2>3. 1..D = (1..(D - 1)) \cup {D}
      BY <1>4
  <2> QED
      BY <1>4, <2>1, <2>2, <2>3
<1>8. ListsAreTheTree'
    BY <1>1, <1>3, <1>7, TreeKept
<1>9. \A p \in 1..made : parent[p] \in freed' => p \in freed'
  <2>1. \A p \in 1..made : parent[p] = t => p \in freed
      BY <1>1, <1>3, ChildlessActive
  <2> QED
      BY <1>1, <1>3, <2>1 DEF IInv, StackInv
<1>10. ASSUME NEW i \in 1..(D - 1)
       PROVE  /\ stack'[i].task \in (0..made) \ freed'
              /\ stack'[i].child = heap.next[ListOf(stack'[i].task)]
              /\ IF i = 1 THEN stack'[i].task = Init0
                 ELSE stack'[i].task # Init0 /\ parent[stack'[i].task] = stack'[i - 1].task
              /\ \A j \in 1..(D - 1) : stack'[i].task = stack'[j].task => i = j
  <2>1. i \in 1..D /\ D \in 1..D /\ i # D /\ stack'[i] = stack[i]
        /\ (i # 1 => stack'[i - 1] = stack[i - 1])
      BY <1>4, <1>5
  <2>2. \A j \in 1..(D - 1) : j \in 1..D /\ stack'[j] = stack[j]
      BY <1>4, <1>5
  <2>3. stack[i].task # t
      BY <1>2, <1>4, <2>1 DEF IInv, StackInv
  <2>4. \A j \in 1..(D - 1) : stack'[i].task = stack'[j].task => i = j
      BY <1>2, <2>1, <2>2 DEF IInv, StackInv
  <2>5. /\ stack[i].task \in (0..made) \ freed
        /\ stack[i].child = heap.next[ListOf(stack[i].task)]
        /\ IF i = 1 THEN stack[i].task = Init0
           ELSE stack[i].task # Init0 /\ parent[stack[i].task] = stack[i - 1].task
      BY <1>2, <2>1 DEF IInv, StackInv
  <2> QED
      BY <1>1, <1>3, <2>1, <2>3, <2>4, <2>5
<1>11. StackInv'
    BY <1>1, <1>5, <1>6, <1>9, <1>10 DEF StackInv
<1>12. FormInv'
    BY <1>1, <1>6, FormKept
<1>13. TypeOK'
    BY <1>1, <1>3, <1>4, <1>5 DEF IInv, TypeOK, Activations
<1> QED
    BY <1>8, <1>11, <1>12, <1>13 DEF IInv, FormInv

LEMMA InitCleanedStep ==
    ASSUME IInv, InitCleaned
    PROVE  IInv'
<1>1. /\ status = "cleaning" /\ ~HasChild /\ Len(stack) = 1 /\ stack # <<>>
      /\ status' = "cleaned" /\ freed' = freed \cup {Init0} /\ stack' = <<>>
      /\ UNCHANGED <<made, parent, heap, newtask, top, children, formed, outline>>
      /\ UNCHANGED tree /\ UNCHANGED history
    BY DEF InitCleaned, tree, place, history, IInv, StackInv
<1>2. Active = stack[1] /\ stack[1].task = Init0
    BY <1>1, ActiveIs DEF IInv, StackInv
<1>3. Activated = {Init0} /\ Activated' = {}
    BY <1>1, <1>2 DEF Activated
<1>4. ListsAreTheTree'
    BY <1>1, <1>3, TreeKept
<1>5. \A p \in 1..made : parent[p] \in freed' => p \in freed'
  <2>1. \A p \in 1..made : parent[p] = Init0 => p \in freed
      BY <1>1, <1>2, ChildlessActive
  <2> QED
      BY <1>1, <2>1 DEF IInv, StackInv
<1>6. StackInv'
    BY <1>1, <1>5 DEF StackInv
<1>7. FormInv'
    BY <1>1, FormKept
<1>8. TypeOK'
  <2>1. stack' \in Seq(Activations) /\ Init0 \in 0..made
      BY <1>1, EmptySeq, KidsRange DEF IInv, Init0
  <2> QED
      BY <1>1, <2>1 DEF IInv, TypeOK, Activations
<1> QED
    BY <1>4, <1>6, <1>7, <1>8 DEF IInv, FormInv

-----------------------------------------------------------------------------
(* The theorems *)

LEMMA InitIInv ==
    ASSUME Init
    PROVE  IInv
<1> USE ProfileBounds
<1>1. /\ status = "reading" /\ made = 0 /\ newtask = Null /\ top = 0 /\ children = 0
      /\ parent = [t \in Tasks |-> Null] /\ stack = <<>> /\ freed = {} /\ outline = <<>>
      /\ formed = TRUE
      /\ heap = Lists!InitListHead(Lists!NewHeap(Nodes), ListOf(0))
    BY DEF Init, Init0
<1>2. Lists!NewHeap(Nodes) \in HeapType /\ 0 \in Tasks
    BY DEF Lists!NewHeap, HeapType, Pointers, Tasks
<1>3. heap \in HeapType /\ IsRing(heap, 0, {})
    BY <1>1, <1>2, RingInitialised
<1>4. TypeOK
  <2>1. stack \in Seq(Activations) /\ outline \in Seq(Frames)
      BY <1>1, EmptySeq
  <2> QED
      BY <1>1, <1>2, <1>3, <2>1 DEF TypeOK, Activations, Frames, HeapType, Pointers, Init0
<1>5. ListsAreTheTree
  <2>1. 0..0 = {0} /\ \A p : p \notin 1..0
      OBVIOUS
  <2>2. Kids(0) = {}
      BY <1>1, <2>1 DEF Kids
  <2> QED
      BY <1>1, <1>3, <2>1, <2>2 DEF ListsAreTheTree
<1>6. StackInv
    BY <1>1 DEF StackInv
<1>7. PathInv
    BY <1>1 DEF PathInv
<1>8. FormedProfileIsRead
  <2>1. ~InProcess /\ Opened = <<>>
      BY <1>1 DEF InProcess, Opened
  <2> QED
      BY <1>1, <2>1 DEF FormedProfileIsRead, Init0
<1> QED
    BY <1>4, <1>5, <1>6, <1>7, <1>8 DEF IInv

LEMMA Unmoved ==
    ASSUME IInv, UNCHANGED vars
    PROVE  IInv'
<1>1. /\ UNCHANGED <<status, made, parent, heap, newtask, top, children, stack, freed>>
      /\ UNCHANGED <<outline, formed>>
    BY DEF vars, tree, place, cleaning, history
<1>2. TypeOK' /\ StackInv' /\ PathInv'
    BY <1>1 DEF IInv, TypeOK, StackInv, PathInv
<1>3. ListsAreTheTree'
    BY <1>1 DEF IInv, ListsAreTheTree, Kids, Activated
<1>4. FormedProfileIsRead'
    BY <1>1 DEF IInv, FormedProfileIsRead, Opened, InProcess
<1> QED
    BY <1>2, <1>3, <1>4 DEF IInv

\* The inductive invariant: the lists are those of the tree, the activations of
\* cleanuptask a path down it, and the parser stands where the file does.
THEOREM SpecIInv == Spec => []IInv
<1>1. Init => IInv
    BY InitIInv
<1>2. IInv /\ [Next]_vars => IInv'
  <2> SUFFICES ASSUME IInv, [Next]_vars PROVE IInv'
      OBVIOUS
  <2>1. CASE GlobalSetting BY <2>1, GlobalSettingStep
  <2>2. CASE NewProcess BY <2>2, NewProcessStep
  <2>3. CASE EndProcess BY <2>3, EndProcessStep
  <2>4. CASE Option
    <3>1. /\ status = "reading" /\ Reads("OPTION") /\ UNCHANGED cleaning
          /\ \/ newtask = Null /\ Crashes
             \/ UNCHANGED <<status, tree, place>>
        BY <2>4 DEF Option
    <3> QED
        BY <3>1, FieldStep
  <2>5. CASE Name
    <3>1. /\ status = "reading" /\ Reads("NAME") /\ UNCHANGED cleaning
          /\ \/ newtask = Null /\ Crashes
             \/ UNCHANGED <<status, tree, place>>
        BY <2>5 DEF Name
    <3> QED
        BY <3>1, FieldStep
  <2>6. CASE Spawn BY <2>6, SpawnStep
  <2>7. CASE EndSpawn BY <2>7, EndSpawnStep
  <2>8. CASE BadCommand BY <2>8, BadCommandStep
  <2>9. CASE EndlessComment BY <2>9, EndlessCommentStep
  <2>10. CASE FileEnds BY <2>10, FileEndsStep
  <2>11. CASE CleanUp BY <2>11, CleanUpStep
  <2>12. CASE CleanChild BY <2>12, CleanChildStep
  <2>13. CASE ChildCleaned BY <2>13, ChildCleanedStep
  <2>14. CASE InitCleaned BY <2>14, InitCleanedStep
  <2>15. CASE Stopped \/ UNCHANGED vars BY <2>15, Unmoved DEF Stopped
  <2> QED
      BY <2>1, <2>2, <2>3, <2>4, <2>5, <2>6, <2>7, <2>8, <2>9, <2>10, <2>11, <2>12, <2>13,
         <2>14, <2>15 DEF Next, Read, Clean
<1> QED
    BY <1>1, <1>2, PTL DEF Spec

\* The list of every process that is not freed is the ring of its children in file
\* order, while readProfile builds the tree and while cleanuptask takes it down.
THEOREM ListsHoldTree == Spec => []ListsAreTheTree
<1>1. IInv => ListsAreTheTree
    BY DEF IInv
<1> QED
    BY <1>1, SpecIInv, PTL

\* A profile that has the form of the .conf files is read as it is written, and
\* readProfile follows no null pointer.
THEOREM FormedIsRead == Spec => []FormedProfileIsRead
<1>1. IInv => FormedProfileIsRead
    BY DEF IInv
<1> QED
    BY <1>1, SpecIInv, PTL

\* badshutdowncpu frees every process, each once and after its children.
THEOREM CleanedUp == Spec => []CleanUpFreesAll
<1>1. IInv => CleanUpFreesAll
  <2> SUFFICES ASSUME IInv PROVE CleanUpFreesAll
      OBVIOUS
  <2>1. \A p \in 1..made : parent[p] \in freed => p \in freed
      BY DEF IInv, StackInv
  <2>2. Activated \cap freed = {}
      BY DEF IInv, StackInv, Activated
  <2>3. ASSUME status = "cleaned"
        PROVE  freed = 0..made
    <3>1. 0 \in freed /\ freed \subseteq 0..made /\ made \in Nat
        BY <2>3, KidsRange DEF IInv, StackInv, TypeOK, Init0
    <3>2. PICK T : T = (0..made) \ freed
        OBVIOUS
    <3>3. T = {}
      <4>1. SUFFICES ASSUME T # {} PROVE FALSE
          OBVIOUS
      <4>2. T \in SUBSET Nat
          BY <3>1, <3>2
      <4>3. PICK m \in T : \A k \in T : m <= k
          BY <4>1, <4>2, LeastNatural
      <4>4. m \in 1..made /\ m \notin freed
          BY <3>1, <3>2, <4>3
      <4>5. parent[m] \in 0..(m - 1)
          BY <4>4 DEF IInv, ListsAreTheTree
      <4>6. parent[m] \in T
          BY <2>1, <3>1, <3>2, <4>4, <4>5
      <4> QED
          BY <4>3, <4>4, <4>5, <4>6
    <3> QED
        BY <3>1, <3>2, <3>3
  <2> QED
      BY <2>1, <2>2, <2>3 DEF CleanUpFreesAll
<1> QED
    BY <1>1, SpecIInv, PTL
=============================================================================
