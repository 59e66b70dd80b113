--------------------------- MODULE ElevatorProofs ---------------------------
(* The inductive invariant of Elevator, proved for every number of submissions *)
(* and every setting, and the theorems that follow from it.                   *)
EXTENDS Elevator, SequenceLemmas, FiniteSetTheorems

-----------------------------------------------------------------------------
(* Request structures *)

\* The fields of a request.
LEMMA RequestFields ==
    ASSUME NEW x \in Request
    PROVE  /\ x.pos \in Nat /\ x.end \in Nat /\ x.dir \in Dirs /\ x.fs \in BOOLEAN
           /\ x.flags \in SUBSET Flags /\ x.bios \in SUBSET Ids
           /\ x.where \in {"SORT", "BACK", "FRONT"}
BY DEF Request

LEMMA NoRqType == NoRq \in Request /\ NoRq.bios = {}
BY DEF NoRq, Request, Dirs

\* A request to which one more bio belongs: r grew by the submission n, or is new.
LEMMA TakeBio ==
    ASSUME NEW R \in [Ids -> Request], NEW n \in Ids, NEW S \in SUBSET Ids, NEW F \in SUBSET Ids,
           BiosOnce(R, n, S, F),
           NEW r \in Ids, r <= n, NEW R2,
           R2[r].bios = R[r].bios \cup {n},
           \A x \in Ids \ {r} : R2[x].bios = R[x].bios
    PROVE  BiosOnce(R2, n + 1, S, F)
<1>1. n \in Int /\ \A i \in Ids : i \in Int
    BY DEF Ids
<1>2. \A x \in Ids : R[x].bios \subseteq Ids
    BY RequestFields
<1>3. /\ S \cap F = {}
      /\ \A i \in S \cup F : i < n
      /\ \A x \in Ids : R[x].bios # {} => x < n
      /\ \A x \in Ids : \A i \in R[x].bios :
            i < n /\ i \notin S \cup F /\ \A s \in Ids \ {x} : i \notin R[s].bios
      /\ \A i \in 1..(n - 1) : i \in S \cup F \/ \E x \in Ids : i \in R[x].bios
    BY DEF BiosOnce
<1>4. \A i \in S \cup F : i < n + 1 /\ i # n
    BY <1>1, <1>3
<1>5. ASSUME NEW x \in Ids, R2[x].bios # {} PROVE x < n + 1
  <2>1. CASE x = r
      BY <1>1, <2>1
  <2>2. CASE x # r
    <3>1. R[x].bios # {}
        BY <1>5, <2>2
    <3> QED
        BY <1>1, <1>3, <3>1
  <2> QED
      BY <2>1, <2>2
<1>6. ASSUME NEW x \in Ids, NEW i \in R2[x].bios
      PROVE  i < n + 1 /\ i \notin S \cup F /\ \A s \in Ids \ {x} : i \notin R2[s].bios
  <2>1. CASE i = n
    <3>1. \A s \in Ids : n \notin R[s].bios
        BY <1>1, <1>3
    <3>2. x = r
        BY <1>6, <2>1, <3>1
    <3> QED
        BY <1>1, <1>4, <2>1, <3>1, <3>2
  <2>2. CASE i # n
    <3>1. i \in R[x].bios /\ i \in Ids
        BY <1>2, <1>6, <2>2
    <3>2. i < n + 1 /\ i \notin S \cup F
        BY <1>1, <1>3, <3>1
    <3>3. ASSUME NEW s \in Ids \ {x} PROVE i \notin R2[s].bios
        BY <1>3, <2>2, <3>1
    <3> QED
        BY <3>2, <3>3
  <2> QED
      BY <2>1, <2>2
<1>7. ASSUME NEW i \in 1..((n + 1) - 1)
      PROVE  i \in S \cup F \/ \E x \in Ids : i \in R2[x].bios
  <2>1. CASE i = n
      BY <2>1
  <2>2. CASE i # n
    <3>1. i \in 1..(n - 1)
        BY <1>1, <2>2
    <3>2. ASSUME NEW x \in Ids, i \in R[x].bios PROVE i \in R2[x].bios
        BY <3>2
    <3> QED
        BY <1>3, <3>1, <3>2
  <2> QED
      BY <2>1, <2>2
<1> QED
    BY <1>3, <1>4, <1>5, <1>6, <1>7 DEF BiosOnce

\* r takes the bios of s over.
LEMMA PassBios ==
    ASSUME NEW R, NEW n, NEW S, NEW F, BiosOnce(R, n, S, F),
           NEW r \in Ids, NEW s \in Ids, r # s, R[r].bios # {}, NEW R2,
           R2[r].bios = R[r].bios \cup R[s].bios, R2[s].bios = {},
           \A x \in Ids \ {r, s} : R2[x].bios = R[x].bios
    PROVE  BiosOnce(R2, n, S, F)
BY DEF BiosOnce

\* The requests of G end.
LEMMA EndBios ==
    ASSUME NEW R, NEW n, NEW S, NEW F, BiosOnce(R, n, S, F),
           NEW G, NEW S2, NEW F2, NEW R2,
           S2 \cap F2 = {},
           S2 \cup F2 = S \cup F \cup UNION {R[r].bios : r \in G \cap Ids},
           \A x \in Ids : R2[x].bios = IF x \in G THEN {} ELSE R[x].bios
    PROVE  BiosOnce(R2, n, S2, F2)
BY DEF BiosOnce

-----------------------------------------------------------------------------
(* Sectors *)

\* Fewer requests with sectors, where they were.
LEMMA FewerSectors ==
    ASSUME NEW R, SectorsOnce(R), NEW R2,
           \A x \in Ids : Extent(R2[x]) =>
              Extent(R[x]) /\ R2[x].pos = R[x].pos /\ R2[x].end = R[x].end
    PROVE  SectorsOnce(R2)
BY DEF SectorsOnce

\* The sectors from p to q are free.
Free(R, p, q) == ~MayOverlap => \A x \in Ids : R[x].bios # {} => q <= R[x].pos \/ R[x].end <= p

\* r grows by free sectors.
LEMMA GrowSectors ==
    ASSUME NEW R \in [Ids -> Request], NEW R2 \in [Ids -> Request], SectorsOnce(R),
           NEW p \in Nat, NEW q \in Nat, p < q, Free(R, p, q),
           NEW r \in Ids, Extent(R[r]),
           \/ R[r].end = p /\ R2[r].end = q /\ R2[r].pos = R[r].pos
           \/ R[r].pos = q /\ R2[r].pos = p /\ R2[r].end = R[r].end,
           \A x \in Ids \ {r} : R2[x] = R[x]
    PROVE  SectorsOnce(R2)
<1>1. \A x \in Ids : R[x].pos \in Nat /\ R[x].end \in Nat /\ R2[x].pos \in Nat /\ R2[x].end \in Nat
    BY RequestFields
<1>2. \A x \in Ids : Extent(R[x]) => R[x].pos < R[x].end
    BY DEF SectorsOnce
<1>3. \A x \in Ids : Extent(R2[x]) => R2[x].pos < R2[x].end
    BY <1>1, <1>2
<1>4. ASSUME ~MayOverlap, NEW x \in Ids \ {r}, Extent(R[x])
      PROVE  R2[r].end <= R[x].pos \/ R[x].end <= R2[r].pos
  <2>1. R[r].end <= R[x].pos \/ R[x].end <= R[r].pos
      BY <1>4 DEF SectorsOnce
  <2>2. q <= R[x].pos \/ R[x].end <= p
      BY <1>4 DEF Free, Extent
  <2> QED
      BY <1>1, <1>2, <1>4, <2>1, <2>2
<1>5. ASSUME ~MayOverlap, NEW x \in Ids \ {r}, NEW y \in Ids \ {r}, x # y,
             Extent(R2[x]), Extent(R2[y])
      PROVE  R2[x].end <= R2[y].pos \/ R2[y].end <= R2[x].pos
    BY <1>5 DEF SectorsOnce
<1> QED
    BY <1>3, <1>4, <1>5 DEF SectorsOnce

\* A new request takes free sectors, or has none.
LEMMA NewSectors ==
    ASSUME NEW R \in [Ids -> Request], NEW R2 \in [Ids -> Request], SectorsOnce(R),
           NEW p \in Nat, NEW q \in Nat, p < q, Free(R, p, q), NEW r \in Ids,
           Extent(R2[r]) => R2[r].pos = p /\ R2[r].end = q,
           \A x \in Ids \ {r} : R2[x] = R[x]
    PROVE  SectorsOnce(R2)
<1>1. ASSUME ~MayOverlap, NEW x \in Ids \ {r}, Extent(R[x]), Extent(R2[r])
      PROVE  R2[r].end <= R[x].pos \/ R[x].end <= R2[r].pos
    BY <1>1 DEF Free, Extent
<1>2. ASSUME ~MayOverlap, NEW x \in Ids \ {r}, NEW y \in Ids \ {r}, x # y,
             Extent(R2[x]), Extent(R2[y])
      PROVE  R2[x].end <= R2[y].pos \/ R2[y].end <= R2[x].pos
    BY <1>2 DEF SectorsOnce
<1>3. \A x \in Ids : Extent(R2[x]) => R2[x].pos < R2[x].end
    BY DEF SectorsOnce
<1> QED
    BY <1>1, <1>2, <1>3 DEF SectorsOnce

\* r takes over s, which begins where r ends.
LEMMA JoinSectors ==
    ASSUME NEW R \in [Ids -> Request], NEW R2 \in [Ids -> Request], SectorsOnce(R),
           NEW r \in Ids, NEW s \in Ids, r # s, Extent(R[r]), Extent(R[s]),
           R[r].end = R[s].pos, R2[r].pos = R[r].pos, R2[r].end = R[s].end,
           R2[s].bios = {}, \A x \in Ids \ {r, s} : R2[x] = R[x]
    PROVE  SectorsOnce(R2)
<1>1. \A x \in Ids : R[x].pos \in Nat /\ R[x].end \in Nat
    BY RequestFields
<1>2. \A x \in Ids : Extent(R[x]) => R[x].pos < R[x].end
    BY DEF SectorsOnce
<1>3. ~Extent(R2[s])
    BY DEF Extent
<1>4. \A x \in Ids : Extent(R2[x]) => R2[x].pos < R2[x].end
    BY <1>1, <1>2, <1>3
<1>5. ASSUME ~MayOverlap, NEW x \in Ids \ {r, s}, Extent(R[x])
      PROVE  R2[r].end <= R[x].pos \/ R[x].end <= R2[r].pos
  <2>1. /\ R[r].end <= R[x].pos \/ R[x].end <= R[r].pos
        /\ R[s].end <= R[x].pos \/ R[x].end <= R[s].pos
      BY <1>5 DEF SectorsOnce
  <2> QED
      BY <1>1, <1>2, <1>5, <2>1
<1>6. ASSUME ~MayOverlap, NEW x \in Ids \ {r, s}, NEW y \in Ids \ {r, s}, x # y,
             Extent(R2[x]), Extent(R2[y])
      PROVE  R2[x].end <= R2[y].pos \/ R2[y].end <= R2[x].pos
    BY <1>6 DEF SectorsOnce
<1> QED
    BY <1>3, <1>4, <1>5, <1>6 DEF SectorsOnce

-----------------------------------------------------------------------------
(* The order of the C-LOOK list *)

\* The list Q of requests R is ordered by end sector.
Ordered(R, Q) == \A i, j \in 1..Len(Q) : i < j => R[Q[i]].end <= R[Q[j]].end

\* A request that grows by free sectors stays where it is.
LEMMA GrowOrdered ==
    ASSUME NEW R \in [Ids -> Request], NEW R2 \in [Ids -> Request], SectorsOnce(R), ~MayOverlap,
           NEW Q \in Seq(Ids), IsInjective(Q), Ordered(R, Q),
           \A i \in 1..Len(Q) : Extent(R[Q[i]]),
           NEW p \in Nat, NEW q \in Nat, p < q, Free(R, p, q),
           NEW r \in Ids, Extent(R[r]),
           \/ R[r].end = p /\ R2[r].end = q
           \/ R2[r].end = R[r].end,
           \A x \in Ids \ {r} : R2[x] = R[x]
    PROVE  Ordered(R2, Q)
<1>1. \A x \in Ids : R[x].pos \in Nat /\ R[x].end \in Nat /\ R2[x].end \in Nat
    BY RequestFields
<1>2. \A x \in Ids : Extent(R[x]) => R[x].pos < R[x].end
    BY DEF SectorsOnce
<1>3. \A i \in 1..Len(Q) : Q[i] \in Ids
    OBVIOUS
<1>4. \A i, j \in 1..Len(Q) : Q[i] = Q[j] => i = j
    BY DEF IsInjective
<1>5. ASSUME NEW x \in Ids \ {r}, Extent(R[x]), R[r].end <= R[x].end
      PROVE  R2[r].end <= R[x].end
  <2>1. R[r].end <= R[x].pos \/ R[x].end <= R[r].pos
      BY <1>5 DEF SectorsOnce
  <2>2. q <= R[x].pos \/ R[x].end <= p
      BY <1>5 DEF Free, Extent
  <2> QED
      BY <1>1, <1>2, <1>5, <2>1, <2>2
<1>6. R[r].end <= R2[r].end
    BY <1>1
<1>7. ASSUME NEW i \in 1..Len(Q), NEW j \in 1..Len(Q), i < j
      PROVE  R2[Q[i]].end <= R2[Q[j]].end
  <2>1. Q[i] # Q[j] /\ Q[i] \in Ids /\ Q[j] \in Ids
      BY <1>3, <1>4, <1>7
  <2>2. R[Q[i]].end <= R[Q[j]].end /\ Extent(R[Q[i]]) /\ Extent(R[Q[j]])
      BY <1>7 DEF Ordered
  <2>3. CASE Q[i] = r
      BY <1>5, <2>1, <2>2, <2>3
  <2>4. CASE Q[j] = r
      BY <1>1, <1>6, <2>1, <2>2, <2>4
  <2>5. CASE Q[i] # r /\ Q[j] # r
      BY <2>1, <2>2, <2>5
  <2> QED
      BY <2>3, <2>4, <2>5
<1> QED
    BY <1>7 DEF Ordered

\* Q2 is the list Q after s left it, if it was there.
Without(Q, s, Q2) ==
    \/ s \notin ToSet(Q) /\ Q2 = Q
    \/ \E k \in 1..Len(Q) : Q[k] = s /\ Q2 = RemoveAt(Q, k)

\* r takes over s, which begins where r ends and leaves the list if it is there.
LEMMA JoinOrdered ==
    ASSUME NEW R \in [Ids -> Request], NEW R2 \in [Ids -> Request], SectorsOnce(R), ~MayOverlap,
           NEW Q \in Seq(Ids), IsInjective(Q), Ordered(R, Q),
           \A i \in 1..Len(Q) : Extent(R[Q[i]]),
           NEW r \in Ids, NEW s \in Ids, r # s, Extent(R[r]), Extent(R[s]),
           R[r].end = R[s].pos, R2[r].end = R[s].end, \A x \in Ids \ {r, s} : R2[x] = R[x],
           NEW Q2, Without(Q, s, Q2)
    PROVE  Ordered(R2, Q2)
<1>1. \A x \in Ids : R[x].pos \in Nat /\ R[x].end \in Nat /\ R2[x].end \in Nat
    BY RequestFields
<1>2. \A x \in Ids : Extent(R[x]) => R[x].pos < R[x].end
    BY DEF SectorsOnce
<1>3. \A i \in 1..Len(Q) : Q[i] \in Ids
    OBVIOUS
<1>4. \A i, j \in 1..Len(Q) : Q[i] = Q[j] => i = j
    BY DEF IsInjective
<1>5. ASSUME NEW x \in Ids \ {r, s}, Extent(R[x]), R[r].end <= R[x].end
      PROVE  R2[r].end <= R[x].end
  <2>1. /\ R[r].end <= R[x].pos \/ R[x].end <= R[r].pos
        /\ R[s].end <= R[x].pos \/ R[x].end <= R[s].pos
      BY <1>5 DEF SectorsOnce
  <2> QED
      BY <1>1, <1>2, <1>5, <2>1
<1>6. R[r].end <= R2[r].end
    BY <1>1, <1>2
<1>7. ASSUME NEW i \in 1..Len(Q), NEW j \in 1..Len(Q), i < j, Q[i] # s, Q[j] # s
      PROVE  R2[Q[i]].end <= R2[Q[j]].end
  <2>1. Q[i] # Q[j] /\ Q[i] \in Ids /\ Q[j] \in Ids
      BY <1>3, <1>4, <1>7
  <2>2. R[Q[i]].end <= R[Q[j]].end /\ Extent(R[Q[i]]) /\ Extent(R[Q[j]])
      BY <1>7 DEF Ordered
  <2>3. CASE Q[i] = r
      BY <1>5, <1>7, <2>1, <2>2, <2>3
  <2>4. CASE Q[j] = r
      BY <1>1, <1>6, <1>7, <2>1, <2>2, <2>4
  <2>5. CASE Q[i] # r /\ Q[j] # r
      BY <1>7, <2>1, <2>2, <2>5
  <2> QED
      BY <2>3, <2>4, <2>5
<1>8. CASE s \notin ToSet(Q) /\ Q2 = Q
  <2>1. \A i \in 1..Len(Q) : Q[i] # s
      BY <1>8 DEF ToSet
  <2> QED
      BY <1>7, <1>8, <2>1 DEF Ordered
<1>9. ASSUME NEW k \in 1..Len(Q), Q[k] = s, Q2 = RemoveAt(Q, k)
      PROVE  Ordered(R2, Q2)
  <2>1. /\ Q2 \in Seq(Ids) /\ Len(Q2) = Len(Q) - 1
        /\ \A i \in 1..Len(Q2) : Q2[i] = IF i < k THEN Q[i] ELSE Q[i + 1]
      BY <1>9, RemoveAtPosition DEF RemoveAt
  <2>2. PICK n \in Nat : n = Len(Q)
      OBVIOUS
  <2>3. ASSUME NEW i \in 1..Len(Q2), NEW j \in 1..Len(Q2), i < j
        PROVE  R2[Q2[i]].end <= R2[Q2[j]].end
    <3>1. PICK a \in 1..Len(Q) : a = (IF i < k THEN i ELSE i + 1) /\ Q2[i] = Q[a] /\ a # k
        BY <2>1, <2>2
    <3>2. PICK b \in 1..Len(Q) : b = (IF j < k THEN j ELSE j + 1) /\ Q2[j] = Q[b] /\ b # k
        BY <2>1, <2>2
    <3>3. a < b /\ Q[a] # s /\ Q[b] # s
        BY <1>4, <1>9, <2>1, <2>2, <2>3, <3>1, <3>2
    <3> QED
        BY <1>7, <3>1, <3>2, <3>3
  <2> QED
      BY <2>3 DEF Ordered
<1> QED
    BY <1>8, <1>9 DEF Without

\* The place C-LOOK gives a new request.
LEMMA InsertOrdered ==
    ASSUME NEW R \in [Ids -> Request], NEW R2 \in [Ids -> Request],
           NEW Q \in Seq(Ids), Ordered(R, Q), \A x \in ToSet(Q) : R2[x].end = R[x].end,
           NEW r \in Ids, NEW p \in 1..(Len(Q) + 1),
           \A k \in 1..(p - 1) : R2[Q[k]].end <= R2[r].end,
           p <= Len(Q) => R2[Q[p]].end > R2[r].end
    PROVE  Ordered(R2, InsertAt(Q, p, r))
<1> DEFINE Q2 == InsertAt(Q, p, r)
<1>1. PICK n \in Nat : n = Len(Q)
    OBVIOUS
<1>2. /\ Q2 \in Seq(Ids) /\ Len(Q2) = n + 1
      /\ \A k \in 1..Len(Q2) : Q2[k] = IF k < p THEN Q[k] ELSE IF k = p THEN r ELSE Q[k - 1]
    BY <1>1, InsertAtPosition
<1> HIDE DEF Q2
<1>3. \A x \in Ids : R[x].end \in Nat /\ R2[x].end \in Nat
    BY RequestFields
<1>4. \A i \in 1..n : Q[i] \in Ids /\ R2[Q[i]].end = R[Q[i]].end
    BY <1>1 DEF ToSet
<1>5. ASSUME NEW i \in 1..n, NEW j \in 1..n, i < j
      PROVE  R2[Q[i]].end <= R2[Q[j]].end
    BY <1>1, <1>4, <1>5 DEF Ordered
<1>6. ASSUME NEW i \in 1..n, p <= i
      PROVE  R2[r].end <= R2[Q[i]].end
  <2>1. p \in 1..n /\ (p = i \/ p < i)
      BY <1>1, <1>6
  <2>2. R2[Q[p]].end > R2[r].end /\ R2[Q[p]].end <= R2[Q[i]].end
      BY <1>1, <1>3, <1>4, <1>5, <1>6, <2>1
  <2> QED
      BY <1>3, <1>4, <2>1, <2>2
<1>7. ASSUME NEW i \in 1..(n + 1), NEW j \in 1..(n + 1), i < j
      PROVE  R2[Q2[i]].end <= R2[Q2[j]].end
  <2>1. CASE j < p
    <3>1. i \in 1..n /\ j \in 1..n /\ Q2[i] = Q[i] /\ Q2[j] = Q[j]
        BY <1>1, <1>2, <1>7, <2>1
    <3> QED
        BY <1>5, <1>7, <3>1
  <2>2. CASE j = p
    <3>1. i \in 1..(p - 1) /\ Q2[i] = Q[i] /\ Q2[j] = r
        BY <1>1, <1>2, <1>7, <2>2
    <3> QED
        BY <3>1
  <2>3. CASE p < j /\ i < p
    <3>1. i \in 1..n /\ j - 1 \in 1..n /\ (i = j - 1 \/ i < j - 1)
          /\ Q2[i] = Q[i] /\ Q2[j] = Q[j - 1]
        BY <1>1, <1>2, <1>7, <2>3, SMTT(30)
    <3> QED
        BY <1>3, <1>4, <1>5, <3>1
  <2>4. CASE p < j /\ i = p
    <3>1. j - 1 \in 1..n /\ p <= j - 1 /\ Q2[i] = r /\ Q2[j] = Q[j - 1]
        BY <1>1, <1>2, <1>7, <2>4
    <3> QED
        BY <1>6, <3>1
  <2>5. CASE p < i
    <3>1. i - 1 \in 1..n /\ j - 1 \in 1..n /\ i - 1 < j - 1
          /\ Q2[i] = Q[i - 1] /\ Q2[j] = Q[j - 1]
        BY <1>1, <1>2, <1>7, <2>5
    <3> QED
        BY <1>5, <3>1
  <2> QED
      BY <1>1, <1>7, <2>1, <2>2, <2>3, <2>4, <2>5
<1> QED
    BY <1>2, <1>7 DEF Ordered, Q2

\* The first request leaves.
LEMMA TailOrdered ==
    ASSUME NEW R, NEW Q \in Seq(Ids), Q # <<>>, Ordered(R, Q)
    PROVE  Ordered(R, Tail(Q))
<1>1. PICK n \in Nat : n = Len(Q)
    OBVIOUS
<1>2. /\ Tail(Q) \in Seq(Ids) /\ Len(Tail(Q)) = n - 1
      /\ \A i \in 1..Len(Tail(Q)) : Tail(Q)[i] = Q[i + 1]
    BY <1>1, HeadTailProperties
<1>3. ASSUME NEW i \in 1..(n - 1), NEW j \in 1..(n - 1), i < j
      PROVE  R[Q[i + 1]].end <= R[Q[j + 1]].end
  <2>1. i + 1 \in 1..n /\ j + 1 \in 1..n /\ i + 1 < j + 1
      BY <1>1, <1>3
  <2> QED
      BY <1>1, <2>1 DEF Ordered
<1> QED
    BY <1>2, <1>3 DEF Ordered

\* The requests end where they did.
LEMMA SameOrdered ==
    ASSUME NEW R, NEW R2, NEW Q \in Seq(Ids), Ordered(R, Q), \A x \in ToSet(Q) : R2[x].end = R[x].end
    PROVE  Ordered(R2, Q)
<1>1. \A i \in 1..Len(Q) : R2[Q[i]].end = R[Q[i]].end
    BY DEF ToSet
<1> QED
    BY <1>1 DEF Ordered

-----------------------------------------------------------------------------
(* The parts of the invariant, and what leaves them alone *)

DataInv == BiosOnce(rq, next, served, failed) /\ SectorsOnce(rq)
BookInv == NrSortedExact /\ HashMatches /\ LastMergeHeld /\ OrderInv
DriverInv == InFlightExact /\ BoundaryInv /\ SweepInv

LEMMA Parts == IInv <=> TypeOK /\ DataInv /\ PlacesInv /\ LockInv /\ BookInv /\ DriverInv
BY DEF IInv, DataInv, BookInv, DriverInv

\* The members of a list, by their positions.
LEMMA ListedAt ==
    ASSUME NEW Q \in Seq(Ids)
    PROVE  /\ ToSet(Q) \subseteq Ids /\ Len(Q) \in Nat
           /\ \A i \in 1..Len(Q) : Q[i] \in ToSet(Q)
           /\ \A r \in ToSet(Q) : \E i \in 1..Len(Q) : Q[i] = r
BY DEF ToSet

\* Where pending requests are, and what is true of them.
LEMMA Pending ==
    ASSUME IInv
    PROVE  /\ Held \subseteq Ids /\ Dispatched \subseteq Ids /\ active \subseteq Ids
           /\ Loose \subseteq Ids
           /\ \A r \in Held \cup Dispatched \cup active \cup Loose : rq[r].bios # {} /\ r < next
           /\ \A r \in Ids : rq[r].bios # {} => r \in Held \cup Dispatched \cup active \cup Loose
           /\ \A r \in Held : Extent(rq[r]) /\ "SORTED" \in rq[r].flags
           /\ \A r \in Ids : r \notin Held => hash[r] = NotHashed
<1>1. Held \subseteq Ids /\ Dispatched \subseteq Ids /\ active \subseteq Ids
    BY ListedAt DEF IInv, TypeOK, Held, Dispatched
<1>2. Live = Held \cup Dispatched \cup active \cup Loose
    BY DEF IInv, PlacesInv
<1>3. \A r \in Ids : rq[r].bios # {} => r < next
    BY DEF IInv, BiosOnce
<1>4. \A r \in Held : rq[r].fs /\ "SORTED" \in rq[r].flags
    BY DEF IInv, PlacesInv
<1>5. \A r \in Ids : r \notin Held => hash[r] = NotHashed
    BY DEF IInv, HashMatches
<1>6. Loose \subseteq Ids
    BY <1>2 DEF Live
<1> QED
    BY <1>1, <1>2, <1>3, <1>4, <1>5, <1>6 DEF Live, Extent

\* The structure of a submission that is not made yet is not in use.
LEMMA Unused ==
    ASSUME IInv, next \in Ids
    PROVE  /\ rq[next].bios = {} /\ hash[next] = NotHashed
           /\ next \notin Held \cup Dispatched \cup active \cup Loose
           /\ next # NULL /\ next \in Nat
<1>1. next \in Int /\ next # NULL /\ next \in Nat
    BY DEF Ids, NULL
<1>2. ~(next < next)
    BY <1>1
<1>3. rq[next].bios = {}
    BY <1>2 DEF IInv, BiosOnce
<1> QED
    BY <1>1, <1>2, <1>3, Pending

\* What the scheduler has is left alone.
LEMMA BookFrame ==
    ASSUME IInv, UNCHANGED sched, \A r \in Held : rq'[r] = rq[r]
    PROVE  BookInv'
<1>1. Held' = Held
    BY DEF Held, sched
<1>2. NrSortedExact' /\ LastMergeHeld'
    BY <1>1 DEF IInv, NrSortedExact, LastMergeHeld, sched
<1>3. HashMatches'
    BY <1>1 DEF IInv, HashMatches, sched
<1>4. OrderInv'
  <2>1. \A i \in 1..Len(queue) : rq'[queue[i]] = rq[queue[i]]
      BY ListedAt DEF IInv, TypeOK, Held
  <2> QED
      BY <2>1 DEF IInv, OrderInv, QueueSorted, sched
<1> QED
    BY <1>2, <1>3, <1>4 DEF BookInv

\* What the driver has or can see is left alone.
LEMMA DriverFrame ==
    ASSUME IInv, UNCHANGED <<queue_head, boundary, driver>>, pc = "drain" => pc' = "drain",
           \A r \in Dispatched \cup active : rq'[r] = rq[r]
    PROVE  DriverInv'
<1>1. Dispatched' = Dispatched
    BY DEF Dispatched
<1>2. InFlightExact'
  <2>1. {r \in active : rq'[r].fs} = {r \in active : rq[r].fs}
      OBVIOUS
  <2> QED
      BY <2>1 DEF IInv, InFlightExact, driver
<1>3. BoundaryInv'
    BY <1>1 DEF IInv, BoundaryInv, boundary
<1>4. \A i \in 1..Len(queue_head) : rq'[queue_head[i]] = rq[queue_head[i]]
    BY ListedAt DEF IInv, TypeOK, Dispatched
<1>5. Len(queue_head) \in Nat
    BY ListedAt DEF IInv, TypeOK
<1>6. \A i \in 1..Len(queue_head) : NoBarrierFrom(i)' <=> NoBarrierFrom(i)
    BY <1>4, <1>5 DEF NoBarrierFrom
<1>7. SweepInv'
  <2>1. ASSUME NEW i \in 2..Len(queue_head),
               NoBarrierFrom(i - 1)', rq'[queue_head[i - 1]].dir = rq'[queue_head[i]].dir
        PROVE  InSweep(rq[queue_head[i - 1]], rq[queue_head[i]])'
    <3>1. i \in 1..Len(queue_head) /\ i - 1 \in 1..Len(queue_head)
        BY <1>5
    <3>2. InSweep(rq[queue_head[i - 1]], rq[queue_head[i]])
        BY <1>4, <1>6, <2>1, <3>1 DEF IInv, SweepInv, LastGroupSweeps
    <3> QED
        BY <1>4, <3>1, <3>2 DEF InSweep, boundary
  <2>2. LastGroupSweeps'
      BY <2>1 DEF LastGroupSweeps
  <2>3. ASSUME pc' # "drain", NEW i \in 1..(Len(queue_head) - 1)
        PROVE  ~NoBarrierFrom(i)'
      BY <1>5, <1>6, <2>3 DEF IInv, SweepInv
  <2> QED
      BY <2>2, <2>3 DEF SweepInv
<1> QED
    BY <1>2, <1>3, <1>7 DEF DriverInv

-----------------------------------------------------------------------------
(* Merging two requests *)

\* The hash H agrees with the requests R, but perhaps for those of X.
HashAgrees(R, H, X) ==
    /\ H \in [Ids -> Nat \cup {NotHashed}]
    /\ \A x \in Ids \ X :
          /\ H[x] # NotHashed => x \in Held /\ H[x] = R[x].end
          /\ x \in Held /\ Mergeable(R[x]) => H[x] # NotHashed

\* R is what the requests are when a neighbour is looked for: those of the lists and
\* of the driver, of which what the scheduler holds may have grown, and s.
Prepared(R, n, s) ==
    /\ R \in [Ids -> Request] /\ n \in 1..(MaxRequests + 1)
    /\ BiosOnce(R, n, served, failed) /\ SectorsOnce(R)
    /\ \A x \in Dispatched \cup active : R[x] = rq[x]
    /\ \A x \in Held : R[x].fs = rq[x].fs /\ R[x].flags = rq[x].flags
    /\ \A x \in Ids : R[x].bios # {} <=> x \in Held \cup Dispatched \cup active \cup {s}
    /\ Scheduler = "clook" /\ ~MayOverlap => Ordered(R, queue)

\* elv_merge_requests keeps everything, whoever calls it.
LEMMA Merging ==
    ASSUME IInv, pc # "drain", NEW R, NEW n, NEW H, NEW r \in Held, NEW s \in Ids, r # s,
           Prepared(R, n, s), HashAgrees(R, H, {r}),
           s \notin Dispatched \cup active, s \in Held <=> "SORTED" \in R[s].flags,
           CanMerge(R, r, s), MergeRequests(R, H, r, s),
           next' = n, UNCHANGED <<merges, queue_head, boundary, driver>>,
           \/ pc' = "free" /\ cur' = NULL
           \/ pc' = "merge" /\ cur' = r
    PROVE  IInv'
<1>1. /\ R \in [Ids -> Request] /\ n \in 1..(MaxRequests + 1)
      /\ BiosOnce(R, n, served, failed) /\ SectorsOnce(R)
      /\ \A x \in Dispatched \cup active : R[x] = rq[x]
      /\ \A x \in Held : R[x].fs = rq[x].fs /\ R[x].flags = rq[x].flags
      /\ \A x \in Ids : R[x].bios # {} <=> x \in Held \cup Dispatched \cup active \cup {s}
      /\ Scheduler = "clook" /\ ~MayOverlap => Ordered(R, queue)
    BY DEF Prepared
<1>2. /\ r \in Ids /\ Held \subseteq Ids /\ Dispatched \subseteq Ids /\ active \subseteq Ids
      /\ \A x \in Held : rq[x].fs /\ "SORTED" \in rq[x].flags
      /\ IsInjective(queue) /\ Held \cap Dispatched = {} /\ Held \cap active = {}
      /\ Dispatched \cap active = {}
    BY Pending DEF Extent, IInv, PlacesInv
<1>3. /\ R[r].fs /\ R[s].fs /\ Mergeable(R[r]) /\ R[r].end = R[s].pos
      /\ R[r].bios # {} /\ R[s].bios # {} /\ Extent(R[r]) /\ Extent(R[s])
    BY <1>1, <1>2 DEF CanMerge, Mergeable, Extent
<1>4. PICK G : G = [R[r] EXCEPT !.end = R[s].end, !.bios = R[r].bios \cup R[s].bios]
    OBVIOUS
<1>5. /\ G \in Request /\ G.end = R[s].end /\ G.bios = R[r].bios \cup R[s].bios
      /\ G.pos = R[r].pos /\ G.fs = R[r].fs /\ G.flags = R[r].flags
  <2>1. R[r] \in Request /\ R[s].end \in Nat /\ R[r].bios \cup R[s].bios \in SUBSET Ids
      BY <1>1, <1>2, RequestFields
  <2>2. PICK x \in Request, e \in Nat, c \in SUBSET Ids :
           x = R[r] /\ e = R[s].end /\ c = R[r].bios \cup R[s].bios
      BY <2>1
  <2>3. G = [x EXCEPT !.end = e, !.bios = c]
      BY <1>4, <2>2
  <2> QED
      BY <2>2, <2>3 DEF Request
<1>6. rq' = [R EXCEPT ![r] = G, ![s] = NoRq]
    BY <1>4 DEF MergeRequests, Chained
<1>7. /\ rq' \in [Ids -> Request] /\ rq'[r] = G /\ rq'[s] = NoRq
      /\ \A x \in Ids \ {r, s} : rq'[x] = R[x]
    BY <1>1, <1>2, <1>5, <1>6, NoRqType
<1>8. PICK K \in [Ids -> Nat \cup {NotHashed}] : K = Hashed(H, r, R[s].end)
    BY <1>1, <1>2, RequestFields DEF HashAgrees, Hashed
<1>9. K[r] = R[s].end /\ \A x \in Ids \ {r} : K[x] = H[x]
    BY <1>2, <1>8 DEF Hashed, HashAgrees
<1>10. /\ queue' \in Seq(Ids) /\ IsInjective(queue') /\ Held' = Held \ {s}
       /\ nr_sorted' = Len(queue')
       /\ hash' \in [Ids -> Nat \cup {NotHashed}]
       /\ \A x \in Ids \ {s} : hash'[x] = K[x]
       /\ hash'[s] = NotHashed
       /\ Scheduler = "clook" /\ ~MayOverlap => Ordered(rq', queue')
  <2>1. queue \in Seq(Ids) /\ nr_sorted = Len(queue) /\ Len(queue) \in Nat
      BY DEF IInv, TypeOK, NrSortedExact
  <2>2. \A i \in 1..Len(queue) : Extent(R[queue[i]])
      BY <1>1, <1>2, <2>1, ListedAt DEF Held, Extent
  <2>3. CASE "SORTED" \in R[s].flags
    <3>1. PICK k \in 1..Len(queue) : queue[k] = s /\ queue' = RemoveAt(queue, k)
        BY <2>3 DEF MergeRequests, DropFromScheduler
    <3>2. /\ queue' \in Seq(Ids) /\ Len(queue') = Len(queue) - 1
          /\ ToSet(queue') = ToSet(queue) \ {s} /\ IsInjective(queue')
      <4>1. IsInjective(queue)
          BY <1>2
      <4> QED
          BY <2>1, <3>1, <4>1, RemovePositionMembers
    <3>3. nr_sorted' = Len(queue')
        BY <2>1, <2>3, <3>2 DEF MergeRequests, CountMerged
    <3>4. hash' = [K EXCEPT ![s] = NotHashed]
        BY <1>8, <2>3 DEF MergeRequests, Unhashed
    <3>5. ASSUME Scheduler = "clook", ~MayOverlap PROVE Ordered(rq', queue')
      <4>1. Without(queue, s, queue')
          BY <3>1 DEF Without
      <4> QED
          BY <1>1, <1>2, <1>3, <1>5, <1>7, <2>1, <2>2, <3>5, <4>1, JoinOrdered
    <3> QED
        BY <1>9, <3>2, <3>3, <3>4, <3>5 DEF Held
  <2>4. CASE "SORTED" \notin R[s].flags
    <3>1. queue' = queue /\ nr_sorted' = nr_sorted /\ hash' = K
        BY <1>8, <2>4 DEF MergeRequests, CountMerged
    <3>2. s \notin Held /\ Held' = Held
        BY <2>4, <3>1 DEF Held
    <3>3. hash'[s] = NotHashed
        BY <1>9, <3>1, <3>2 DEF HashAgrees
    <3>4. ASSUME Scheduler = "clook", ~MayOverlap PROVE Ordered(rq', queue')
      <4>1. Without(queue, s, queue')
          BY <3>1, <3>2 DEF Held, Without
      <4> QED
          BY <1>1, <1>2, <1>3, <1>5, <1>7, <2>1, <2>2, <3>4, <4>1, JoinOrdered
    <3> QED
        BY <1>2, <2>1, <3>1, <3>2, <3>3, <3>4
  <2> QED
      BY <2>3, <2>4
<1>11. last_merge' = r
    BY DEF MergeRequests
<1>12. Dispatched' = Dispatched /\ active' = active /\ served' = served /\ failed' = failed
    BY DEF Dispatched, driver
<1>13. TypeOK'
  <2>1. Len(queue') \in Nat
      BY <1>10
  <2>2. r \in Ids \cup {NULL} /\ NULL \in Ids \cup {NULL}
      BY <1>2
  <2> QED
      BY <1>1, <1>7, <1>10, <1>11, <2>1, <2>2 DEF IInv, TypeOK, boundary, driver
<1>14. BiosOnce(rq', n, served, failed)
    BY <1>1, <1>2, <1>3, <1>5, <1>7, NoRqType, PassBios
<1>15. SectorsOnce(rq')
    BY <1>1, <1>2, <1>3, <1>5, <1>7, NoRqType, JoinSectors
<1>16. DataInv'
    BY <1>12, <1>14, <1>15 DEF DataInv
<1>17. \A x \in Held' : x \in Held /\ rq'[x].fs /\ "SORTED" \in rq'[x].flags
    BY <1>1, <1>2, <1>5, <1>7, <1>10
<1>18. Loose' = {}
  <2>1. r \in Held' /\ r # NULL
      BY <1>2, <1>10 DEF Ids, NULL
  <2> QED
      BY <1>17, <2>1 DEF Loose
<1>19. \A x \in Ids : rq'[x].bios # {} <=> x \in Held' \cup Dispatched \cup active
  <2>1. rq'[s].bios = {} /\ s \notin Held' \cup Dispatched \cup active
      BY <1>7, <1>10, NoRqType
  <2>2. rq'[r].bios # {} /\ r \in Held'
      BY <1>3, <1>5, <1>7, <1>10
  <2>3. \A x \in Ids \ {r, s} : rq'[x].bios = R[x].bios /\ (x \in Held' <=> x \in Held)
      BY <1>7, <1>10
  <2> QED
      BY <1>1, <2>1, <2>2, <2>3
<1>20. PlacesInv'
  <2>1. Live' = Held' \cup Dispatched \cup active
      BY <1>2, <1>10, <1>19 DEF Live
  <2>2. \A x \in active : rq'[x] = rq[x]
      BY <1>1, <1>2, <1>7
  <2>3. (\A x \in active : "STARTED" \in rq[x].flags) /\ IsInjective(queue_head)
      BY DEF IInv, PlacesInv
  <2> QED
      BY <1>2, <1>10, <1>12, <1>17, <1>18, <2>1, <2>2, <2>3 DEF PlacesInv
<1>21. LockInv'
  <2>1. r \in Held' /\ r # NULL
      BY <1>2, <1>10 DEF Ids, NULL
  <2> QED
      BY <1>17, <2>1 DEF LockInv
<1>22. BookInv'
  <2>1. HashMatches'
    <3>1. ASSUME NEW x \in Ids
          PROVE  /\ hash'[x] # NotHashed => x \in Held' /\ hash'[x] = rq'[x].end
                 /\ x \in Held' /\ Mergeable(rq'[x]) => hash'[x] # NotHashed
      <4>1. CASE x = s
          BY <1>10, <4>1
      <4>2. CASE x = r
        <5>1. hash'[r] = R[s].end /\ rq'[r].end = R[s].end /\ r \in Held'
            BY <1>2, <1>5, <1>7, <1>9, <1>10
        <5>2. R[s].end \in Nat /\ R[s].end # NotHashed
            BY <1>1, RequestFields DEF NotHashed
        <5> QED
            BY <4>2, <5>1, <5>2
      <4>3. CASE x \notin {r, s}
        <5>1. hash'[x] = H[x] /\ rq'[x] = R[x] /\ (x \in Held' <=> x \in Held)
            BY <1>7, <1>9, <1>10, <4>3
        <5> QED
            BY <4>3, <5>1 DEF HashAgrees
      <4> QED
          BY <4>1, <4>2, <4>3
    <3> QED
        BY <3>1 DEF HashMatches
  <2>2. LastMergeHeld'
      BY <1>10, <1>11 DEF LastMergeHeld
  <2>3. OrderInv'
      BY <1>10 DEF OrderInv, QueueSorted, Ordered
  <2> QED
      BY <1>10, <2>1, <2>2, <2>3 DEF BookInv, NrSortedExact
<1>23. DriverInv'
  <2>1. \A x \in Dispatched \cup active : rq'[x] = rq[x]
      BY <1>1, <1>2, <1>7
  <2> QED
      BY <2>1, DriverFrame
<1> QED
    BY <1>13, <1>16, <1>20, <1>21, <1>22, <1>23, Parts DEF IInv, DataInv, BookInv, DriverInv

-----------------------------------------------------------------------------
(* Merging a bio *)

\* A lookup in the hash keeps it right.
LEMMA SweptAgrees ==
    ASSUME IInv, NEW H \in Swept
    PROVE  HashAgrees(rq, H, {})
<1>1. hash \in [Ids -> Nat \cup {NotHashed}]
    BY DEF IInv, TypeOK
<1>2. PICK S \in SUBSET {r \in Ids : hash[r] # NotHashed /\ ~Mergeable(rq[r])} :
         H = [r \in Ids |-> IF r \in S THEN NotHashed ELSE hash[r]]
    BY DEF Swept
<1>3. H \in [Ids -> Nat \cup {NotHashed}]
    BY <1>1, <1>2
<1>4. ASSUME NEW x \in Ids
      PROVE  /\ H[x] # NotHashed => x \in Held /\ H[x] = rq[x].end
             /\ x \in Held /\ Mergeable(rq[x]) => H[x] # NotHashed
  <2>1. /\ hash[x] # NotHashed => x \in Held /\ hash[x] = rq[x].end
        /\ x \in Held /\ Mergeable(rq[x]) => hash[x] # NotHashed
      BY DEF IInv, HashMatches
  <2>2. H[x] = IF x \in S THEN NotHashed ELSE hash[x]
      BY <1>2
  <2>3. x \in S => ~Mergeable(rq[x])
      BY <1>2
  <2> QED
      BY <2>1, <2>2, <2>3
<1> QED
    BY <1>3, <1>4 DEF HashAgrees

\* The fields of a bio.
LEMMA BioFields ==
    ASSUME NEW b \in Bios
    PROVE  b.pos \in Nat /\ b.len \in Nat \ {0} /\ b.dir \in Dirs
           /\ b.pos + b.len \in Nat /\ b.pos < b.pos + b.len
<1>1. b \in [pos: Nat, len: Nat \ {0}, dir: Dirs]
    BY ElevatorAssumption
<1>2. b.pos \in Nat /\ b.len \in Nat \ {0} /\ b.dir \in Dirs
    BY <1>1
<1> QED
    BY <1>2

\* What elv_merge finds is held by the scheduler and touches the bio.
LEMMA FoundHeld ==
    ASSUME IInv, NEW b \in Bios, NEW r \in Ids, NEW how \in {"BACK", "FRONT"}, NEW H \in Swept,
           Found(b, r, how, H)
    PROVE  /\ r \in Held /\ Mergeable(rq[r]) /\ rq[r].dir = b.dir
           /\ how = "BACK" => rq[r].end = b.pos
           /\ how = "FRONT" => rq[r].pos = b.pos + b.len
<1>1. CASE FromCache(b, r, how, H)
  <2>1. last_merge # NULL
      BY <1>1 DEF FromCache, LastMergeHit
  <2>2. r \in Held
      BY <1>1, <2>1 DEF FromCache, IInv, LastMergeHeld
  <2>3. /\ MergeOk(r, b)
        /\ IF how = "BACK" THEN rq[r].end = b.pos ELSE rq[r].pos = b.pos + b.len
      BY <1>1, <2>1 DEF FromCache, LastMergeHit
  <2> QED
      BY <2>2, <2>3 DEF MergeOk
<1>2. CASE FromHash(b, r, how, H)
  <2>1. hash[r] = b.pos /\ MergeOk(r, b) /\ how = "BACK"
      BY <1>2 DEF FromHash, HashFind
  <2>2. hash[r] # NotHashed
      BY <2>1, BioFields DEF NotHashed
  <2>3. r \in Held /\ hash[r] = rq[r].end
      BY <2>2 DEF IInv, HashMatches
  <2> QED
      BY <2>1, <2>3 DEF MergeOk
<1> QED
    BY <1>1, <1>2 DEF Found

\* Where overlaps are excluded, a bio that may be submitted is on free sectors.
LEMMA SubmitFree ==
    ASSUME NEW b \in Bios, MaySubmit(b)
    PROVE  /\ pc = "free" /\ next \in Ids
           /\ Free(rq, b.pos, b.pos + b.len)
BY DEF MaySubmit, Free, Live

\* Between two calls the queue is as its lists say.
LEMMA NothingLoose ==
    ASSUME IInv, pc = "free"
    PROVE  cur = NULL /\ Loose = {}
           /\ \A x \in Ids : rq[x].bios # {} <=> x \in Held \cup Dispatched \cup active
<1>1. cur = NULL
    BY DEF IInv, LockInv
<1>2. Loose = {}
    BY <1>1 DEF Loose
<1> QED
    BY <1>1, <1>2, Pending

\* A request that grew by a bio.
LEMMA GrownFields ==
    ASSUME NEW b \in Bios, NEW r \in Ids, NEW how \in {"BACK", "FRONT"},
           rq \in [Ids -> Request], next \in Ids,
           how = "FRONT" => rq[r].pos = b.pos + b.len,
           NEW R, R = Grown(r, b, how)
    PROVE  /\ R \in [Ids -> Request]
           /\ R[r].bios = rq[r].bios \cup {next}
           /\ R[r].fs = rq[r].fs /\ R[r].flags = rq[r].flags /\ R[r].dir = rq[r].dir
           /\ R[r].end = IF how = "BACK" THEN rq[r].end + b.len ELSE rq[r].end
           /\ R[r].pos = IF how = "FRONT" THEN b.pos ELSE rq[r].pos
           /\ \A x \in Ids \ {r} : R[x] = rq[x]
<1>1. PICK x \in Request : x = rq[r]
    OBVIOUS
<1>2. PICK G : G = [x EXCEPT !.bios = @ \cup {next},
                             !.end = IF how = "BACK" THEN @ + b.len ELSE @,
                             !.pos = IF how = "FRONT" THEN @ - b.len ELSE @]
    OBVIOUS
<1>3. R = [rq EXCEPT ![r] = G]
    BY <1>1, <1>2 DEF Grown
<1>4. PICK e : e = IF how = "BACK" THEN x.end + b.len ELSE x.end
    OBVIOUS
<1>5. PICK p : p = IF how = "FRONT" THEN b.pos ELSE x.pos
    OBVIOUS
<1>6. e \in Nat /\ p \in Nat /\ x.bios \cup {next} \in SUBSET Ids
    BY <1>4, <1>5, BioFields, RequestFields
<1>7. p = IF how = "FRONT" THEN x.pos - b.len ELSE x.pos
    BY <1>1, <1>5, BioFields
<1>8. G = [x EXCEPT !.bios = x.bios \cup {next}, !.end = e, !.pos = p]
    BY <1>2, <1>4, <1>7 DEF Request
<1>9. /\ G \in Request /\ G.bios = x.bios \cup {next} /\ G.end = e /\ G.pos = p
      /\ G.fs = x.fs /\ G.flags = x.flags /\ G.dir = x.dir
    BY <1>6, <1>8 DEF Request
<1> QED
    BY <1>1, <1>3, <1>4, <1>5, <1>9

\* A request that grew is ready to meet its neighbour.
LEMMA GrownPrepared ==
    ASSUME IInv, NEW b \in Bios, MaySubmit(b), NEW r \in Held, NEW how \in {"BACK", "FRONT"},
           how = "BACK" => rq[r].end = b.pos,
           how = "FRONT" => rq[r].pos = b.pos + b.len,
           NEW R, R = Grown(r, b, how), NEW s \in Held
    PROVE  Prepared(R, next + 1, s)
<1>1. next \in Ids /\ pc = "free" /\ Free(rq, b.pos, b.pos + b.len)
    BY SubmitFree
<1>2. rq \in [Ids -> Request] /\ r \in Ids /\ Extent(rq[r]) /\ r < next
      /\ served \in SUBSET Ids /\ failed \in SUBSET Ids /\ queue \in Seq(Ids)
    BY Pending DEF IInv, TypeOK
<1>3. /\ R \in [Ids -> Request]
      /\ R[r].bios = rq[r].bios \cup {next}
      /\ R[r].fs = rq[r].fs /\ R[r].flags = rq[r].flags
      /\ R[r].end = IF how = "BACK" THEN rq[r].end + b.len ELSE rq[r].end
      /\ R[r].pos = IF how = "FRONT" THEN b.pos ELSE rq[r].pos
      /\ \A x \in Ids \ {r} : R[x] = rq[x]
    BY <1>1, <1>2, GrownFields
<1>4. PICK p \in Nat, q \in Nat : p = b.pos /\ q = b.pos + b.len /\ p < q
    BY BioFields
<1>5. \/ rq[r].end = p /\ R[r].end = q /\ R[r].pos = rq[r].pos
      \/ rq[r].pos = q /\ R[r].pos = p /\ R[r].end = rq[r].end
    BY <1>3, <1>4
<1>6. next + 1 \in 1..(MaxRequests + 1)
    BY <1>1, ElevatorAssumption DEF Ids
<1>7. BiosOnce(R, next + 1, served, failed)
  <2>1. r <= next
      BY <1>1, <1>2 DEF Ids
  <2>2. BiosOnce(rq, next, served, failed)
      BY DEF IInv
  <2>3. \A x \in Ids \ {r} : R[x].bios = rq[x].bios
      BY <1>3
  <2> QED
      BY <1>1, <1>2, <1>3, <2>1, <2>2, <2>3, TakeBio
<1>8. SectorsOnce(rq)
    BY DEF IInv
<1>9. SectorsOnce(R)
    BY <1>1, <1>2, <1>3, <1>4, <1>5, <1>8, GrowSectors
<1>10. ASSUME Scheduler = "clook", ~MayOverlap PROVE Ordered(R, queue)
  <2>1. Ordered(rq, queue) /\ IsInjective(queue)
      BY <1>10 DEF IInv, OrderInv, QueueSorted, Ordered, PlacesInv
  <2>2. \A i \in 1..Len(queue) : Extent(rq[queue[i]])
      BY <1>2, Pending, ListedAt DEF Held
  <2>3. \/ rq[r].end = p /\ R[r].end = q
        \/ R[r].end = rq[r].end
      BY <1>5
  <2> QED
      BY <1>1, <1>2, <1>3, <1>4, <1>8, <1>10, <2>1, <2>2, <2>3, GrowOrdered
<1>11. \A x \in Ids : R[x].bios # {} <=> x \in Held \cup Dispatched \cup active \cup {s}
  <2>1. \A x \in Ids : rq[x].bios # {} <=> x \in Held \cup Dispatched \cup active
      BY <1>1, NothingLoose
  <2>2. R[r].bios # {} /\ r \in Held
      BY <1>3
  <2> QED
      BY <1>3, <2>1, <2>2
<1>12. /\ \A x \in Dispatched \cup active : R[x] = rq[x]
       /\ \A x \in Held : R[x].fs = rq[x].fs /\ R[x].flags = rq[x].flags
  <2>1. r \notin Dispatched /\ r \notin active
      BY DEF IInv, PlacesInv
  <2> QED
      BY <1>3, <2>1, Pending
<1> QED
    BY <1>3, <1>6, <1>7, <1>9, <1>10, <1>11, <1>12 DEF Prepared

\* There is at most one request before another in the list, and one after it.
LEMMA OneNeighbour ==
    ASSUME IInv, NEW r \in Held, NEW s,
           s \in Latter(r) \/ s \in Former(r)
    PROVE  /\ s \in Held /\ s # r
           /\ \A t : (s \in Latter(r) /\ t \in Latter(r)) \/ (s \in Former(r) /\ t \in Former(r))
                        => t = s
<1>1. queue \in Seq(Ids) /\ Len(queue) \in Nat
      /\ \A i, j \in 1..Len(queue) : queue[i] = queue[j] => i = j
    BY ListedAt DEF IInv, TypeOK, PlacesInv, IsInjective
<1>2. \A i \in 1..Len(queue) : queue[i] \in Held
    BY <1>1, ListedAt DEF Held
<1>3. ASSUME NEW t \in Latter(r)
      PROVE  \E i \in 1..Len(queue) : t = queue[i] /\ i - 1 \in 1..Len(queue) /\ queue[i - 1] = r
    BY <1>1 DEF Latter
<1>4. ASSUME NEW t \in Former(r)
      PROVE  \E i \in 1..Len(queue) : t = queue[i] /\ i + 1 \in 1..Len(queue) /\ queue[i + 1] = r
    BY <1>1 DEF Former
<1>5. s \in Held /\ s # r
  <2>1. CASE s \in Latter(r)
    <3>1. PICK i \in 1..Len(queue) : s = queue[i] /\ i - 1 \in 1..Len(queue) /\ queue[i - 1] = r
        BY <1>3, <2>1
    <3>2. i # i - 1
        BY <1>1
    <3> QED
        BY <1>1, <1>2, <3>1, <3>2
  <2>2. CASE s \in Former(r)
    <3>1. PICK i \in 1..Len(queue) : s = queue[i] /\ i + 1 \in 1..Len(queue) /\ queue[i + 1] = r
        BY <1>4, <2>2
    <3>2. i # i + 1
        BY <1>1
    <3> QED
        BY <1>1, <1>2, <3>1, <3>2
  <2> QED
      BY <2>1, <2>2
<1>6. ASSUME NEW t, s \in Latter(r), t \in Latter(r) PROVE t = s
  <2>1. PICK i \in 1..Len(queue) : s = queue[i] /\ i - 1 \in 1..Len(queue) /\ queue[i - 1] = r
      BY <1>3, <1>6
  <2>2. PICK j \in 1..Len(queue) : t = queue[j] /\ j - 1 \in 1..Len(queue) /\ queue[j - 1] = r
      BY <1>3, <1>6
  <2>3. i - 1 = j - 1
      BY <1>1, <2>1, <2>2
  <2> QED
      BY <1>1, <2>1, <2>2, <2>3
<1>7. ASSUME NEW t, s \in Former(r), t \in Former(r) PROVE t = s
  <2>1. PICK i \in 1..Len(queue) : s = queue[i] /\ i + 1 \in 1..Len(queue) /\ queue[i + 1] = r
      BY <1>4, <1>7
  <2>2. PICK j \in 1..Len(queue) : t = queue[j] /\ j + 1 \in 1..Len(queue) /\ queue[j + 1] = r
      BY <1>4, <1>7
  <2>3. i + 1 = j + 1
      BY <1>1, <2>1, <2>2
  <2> QED
      BY <1>1, <2>1, <2>2, <2>3
<1> QED
    BY <1>5, <1>6, <1>7

\* A request that grew and met nobody: elv_merged_request.
LEMMA GrowStep ==
    ASSUME IInv, NEW b \in Bios, MaySubmit(b), NEW r \in Held, NEW how \in {"BACK", "FRONT"},
           how = "BACK" => rq[r].end = b.pos,
           how = "FRONT" => rq[r].pos = b.pos + b.len,
           NEW R, R = Grown(r, b, how), NEW H, HashAgrees(rq, H, {}), Mergeable(rq[r]),
           MergedRequest(R, H, r, how), next' = next + 1,
           UNCHANGED <<pc, merges, queue_head, boundary, cur, driver>>
    PROVE  IInv'
<1>1. Prepared(R, next + 1, r)
    BY GrownPrepared
<1>2. /\ R \in [Ids -> Request] /\ next + 1 \in 1..(MaxRequests + 1)
      /\ BiosOnce(R, next + 1, served, failed) /\ SectorsOnce(R)
      /\ \A x \in Dispatched \cup active : R[x] = rq[x]
      /\ \A x \in Held : R[x].fs = rq[x].fs /\ R[x].flags = rq[x].flags
      /\ \A x \in Ids : R[x].bios # {} <=> x \in Held \cup Dispatched \cup active
      /\ Scheduler = "clook" /\ ~MayOverlap => Ordered(R, queue)
    BY <1>1 DEF Prepared
<1>3. pc = "free" /\ cur = NULL /\ Loose = {} /\ next \in Ids
    BY SubmitFree, NothingLoose
<1>4. r \in Ids /\ rq \in [Ids -> Request] /\ Held \subseteq Ids
    BY Pending DEF IInv, TypeOK
<1>5. /\ R[r].end = IF how = "BACK" THEN rq[r].end + b.len ELSE rq[r].end
      /\ \A x \in Ids \ {r} : R[x] = rq[x]
    BY <1>3, <1>4, GrownFields
<1>6. /\ rq' = R /\ last_merge' = r /\ queue' = queue /\ nr_sorted' = nr_sorted
      /\ Held' = Held /\ Dispatched' = Dispatched
    BY DEF MergedRequest, Held, Dispatched
<1>7. hash' = IF how = "BACK" THEN [H EXCEPT ![r] = R[r].end] ELSE H
    BY DEF MergedRequest, Rehash, Hashed
<1>8. R[r].end \in Nat /\ R[r].end # NotHashed
    BY <1>2, <1>4, RequestFields DEF NotHashed
<1>9. /\ H \in [Ids -> Nat \cup {NotHashed}]
      /\ \A x \in Ids : /\ H[x] # NotHashed => x \in Held /\ H[x] = rq[x].end
                        /\ x \in Held /\ Mergeable(rq[x]) => H[x] # NotHashed
    BY DEF HashAgrees
<1>10. hash' \in [Ids -> Nat \cup {NotHashed}]
    BY <1>7, <1>8, <1>9
<1>11. TypeOK'
  <2>1. r \in Ids \cup {NULL}
      BY <1>4
  <2> QED
      BY <1>2, <1>6, <1>10, <2>1 DEF IInv, TypeOK, boundary, driver
<1>12. DataInv'
    BY <1>2, <1>6 DEF DataInv, driver
<1>13. PlacesInv'
  <2>1. Loose' = {}
      BY <1>3 DEF Loose
  <2>2. Live' = Held \cup Dispatched \cup active
      BY <1>2, <1>4, <1>6, Pending DEF Live
  <2>3. active' = active
      BY DEF driver
  <2> QED
      BY <1>2, <1>3, <1>6, <2>1, <2>2, <2>3 DEF IInv, PlacesInv
<1>14. LockInv'
    BY <1>3 DEF LockInv
<1>15. BookInv'
  <2>1. ASSUME NEW x \in Ids
        PROVE  /\ hash'[x] # NotHashed => x \in Held /\ hash'[x] = R[x].end
               /\ x \in Held /\ Mergeable(R[x]) => hash'[x] # NotHashed
    <3>1. CASE x = r
      <4>1. CASE how = "BACK"
          BY <1>4, <1>7, <1>8, <1>9, <3>1, <4>1
      <4>2. CASE how = "FRONT"
        <5>1. R[r].end = rq[r].end /\ hash'[r] = H[r]
            BY <1>5, <1>7, <4>2
        <5> QED
            BY <1>4, <1>9, <3>1, <5>1
      <4> QED
          BY <4>1, <4>2
    <3>2. CASE x # r
      <4>1. hash'[x] = H[x] /\ R[x] = rq[x]
          BY <1>5, <1>7, <1>9, <3>2
      <4> QED
          BY <1>9, <4>1
    <3> QED
        BY <3>1, <3>2
  <2>2. HashMatches'
      BY <1>6, <2>1 DEF HashMatches
  <2>3. OrderInv'
      BY <1>2, <1>6 DEF OrderInv, QueueSorted, Ordered
  <2>4. NrSortedExact' /\ LastMergeHeld'
      BY <1>6 DEF IInv, NrSortedExact, LastMergeHeld
  <2> QED
      BY <2>2, <2>3, <2>4 DEF BookInv
<1>16. DriverInv'
    BY <1>2, <1>3, <1>6, DriverFrame
<1> QED
    BY <1>11, <1>12, <1>13, <1>14, <1>15, <1>16 DEF IInv, DataInv, BookInv, DriverInv

\* A bio is merged, and the request it made larger perhaps with a neighbour.
LEMMA MergeBioStep ==
    ASSUME IInv, NEW b \in Bios, MergeBio(b)
    PROVE  IInv'
<1>1. PICK r, how, H, R :
         /\ r \in Live /\ how \in {"BACK", "FRONT"} /\ H \in Swept
         /\ R = Grown(r, b, how)
         /\ MaySubmit(b) /\ Found(b, r, how, H)
         /\ R[r].end - R[r].pos <= MaxSectors
         /\ IF \E s \in IF how = "BACK" THEN Latter(r) ELSE Former(r) :
                  IF how = "BACK" THEN CanMerge(R, r, s) ELSE CanMerge(R, s, r)
            THEN \E s \in IF how = "BACK" THEN Latter(r) ELSE Former(r) :
                    IF how = "BACK" THEN MergeRequests(R, H, r, s)
                                    ELSE MergeRequests(R, H, s, r)
            ELSE MergedRequest(R, H, r, how)
         /\ next' = next + 1
         /\ UNCHANGED <<pc, merges, queue_head, boundary, cur, driver>>
    BY DEF MergeBio
<1>2. r \in Ids
    BY <1>1 DEF Live
<1>3. /\ r \in Held /\ Mergeable(rq[r])
      /\ how = "BACK" => rq[r].end = b.pos
      /\ how = "FRONT" => rq[r].pos = b.pos + b.len
    BY <1>1, <1>2, FoundHeld
<1>4. HashAgrees(rq, H, {})
    BY <1>1, SweptAgrees
<1>5. pc = "free" /\ cur = NULL /\ next \in Ids
    BY <1>1, SubmitFree, NothingLoose
<1>6. rq \in [Ids -> Request] /\ Held \subseteq Ids
    BY Pending DEF IInv, TypeOK
<1>7. /\ R[r].flags = rq[r].flags /\ R[r].fs = rq[r].fs
      /\ how = "FRONT" => R[r].end = rq[r].end
      /\ \A x \in Ids \ {r} : R[x] = rq[x]
    BY <1>1, <1>2, <1>3, <1>5, <1>6, GrownFields
<1>8. \A x \in Ids : /\ H[x] # NotHashed => x \in Held /\ H[x] = rq[x].end
                     /\ x \in Held /\ Mergeable(rq[x]) => H[x] # NotHashed
    BY <1>4 DEF HashAgrees
<1>9. \A x \in Ids : Mergeable(R[x]) <=> Mergeable(rq[x])
    BY <1>7 DEF Mergeable
<1>10. ASSUME NEW s \in Held, s # r
       PROVE  /\ s \in Ids /\ s \notin Dispatched \cup active /\ r \notin Dispatched \cup active
              /\ "SORTED" \in R[s].flags /\ "SORTED" \in R[r].flags
    BY <1>3, <1>6, <1>7, <1>10, Pending DEF IInv, PlacesInv
<1>11. CASE how = "BACK" /\ \E s \in Latter(r) : CanMerge(R, r, s)
  <2>1. PICK s \in Latter(r) : MergeRequests(R, H, r, s)
      BY <1>1, <1>11
  <2>2. s \in Held /\ s # r /\ CanMerge(R, r, s)
      BY <1>3, <1>11, <2>1, OneNeighbour
  <2>3. Prepared(R, next + 1, s)
      BY <1>1, <1>3, <2>2, GrownPrepared
  <2>4. HashAgrees(R, H, {r})
      BY <1>4, <1>7, <1>8 DEF HashAgrees
  <2> QED
      BY <1>1, <1>3, <1>5, <1>10, <2>1, <2>2, <2>3, <2>4, Merging
<1>12. CASE how = "FRONT" /\ \E s \in Former(r) : CanMerge(R, s, r)
  <2>1. PICK s \in Former(r) : MergeRequests(R, H, s, r)
      BY <1>1, <1>12
  <2>2. s \in Held /\ s # r /\ CanMerge(R, s, r)
      BY <1>3, <1>12, <2>1, OneNeighbour
  <2>3. Prepared(R, next + 1, r)
      BY <1>1, <1>3, GrownPrepared
  <2>4. HashAgrees(R, H, {s})
      BY <1>4, <1>7, <1>8, <1>9, <1>12 DEF HashAgrees
  <2> QED
      BY <1>1, <1>2, <1>3, <1>5, <1>10, <2>1, <2>2, <2>3, <2>4, Merging
<1>13. CASE MergedRequest(R, H, r, how)
    BY <1>1, <1>3, <1>4, <1>13, GrowStep
<1> QED
    BY <1>1, <1>11, <1>12, <1>13

\* A request that would grow too large is marked.
LEMMA RefuseMergeStep ==
    ASSUME IInv, NEW b \in Bios, RefuseMerge(b)
    PROVE  IInv'
<1>1. PICK r \in Live, how \in {"BACK", "FRONT"}, H \in Swept :
         /\ MaySubmit(b) /\ Found(b, r, how, H)
         /\ rq' = [rq EXCEPT ![r].flags = @ \cup {"NOMERGE"}]
         /\ last_merge' = IF last_merge = r THEN NULL ELSE last_merge
         /\ hash' = H
         /\ UNCHANGED <<pc, merges, next, queue, queue_head, nr_sorted, boundary, cur, driver>>
    BY DEF RefuseMerge
<1>2. r \in Ids
    BY DEF Live
<1>3. r \in Held
    BY <1>1, <1>2, FoundHeld
<1>4. HashAgrees(rq, H, {})
    BY <1>1, SweptAgrees
<1>5. pc = "free" /\ cur = NULL
    BY <1>1, SubmitFree, NothingLoose
<1>6. PICK x \in Request : x = rq[r]
    BY <1>2 DEF IInv, TypeOK
<1>7. rq' = [rq EXCEPT ![r] = [x EXCEPT !.flags = x.flags \cup {"NOMERGE"}]]
    BY <1>1, <1>6
<1>8. PICK y : y = [x EXCEPT !.flags = x.flags \cup {"NOMERGE"}]
    OBVIOUS
<1>9. /\ y \in Request /\ y.flags = x.flags \cup {"NOMERGE"} /\ y.bios = x.bios /\ y.fs = x.fs
      /\ y.pos = x.pos /\ y.end = x.end /\ y.dir = x.dir
    BY <1>8 DEF Request, Flags
<1>10. /\ rq \in [Ids -> Request] /\ rq' \in [Ids -> Request] /\ rq'[r] = y
       /\ \A z \in Ids \ {r} : rq'[z] = rq[z]
    BY <1>2, <1>7, <1>8, <1>9 DEF IInv, TypeOK
<1>11. \A z \in Ids : /\ rq'[z].bios = rq[z].bios /\ rq'[z].pos = rq[z].pos
                      /\ rq'[z].end = rq[z].end /\ rq'[z].fs = rq[z].fs
                      /\ rq[z].flags \subseteq rq'[z].flags
    BY <1>6, <1>9, <1>10
<1>12. Held' = Held /\ Dispatched' = Dispatched /\ active' = active
    BY <1>1 DEF Held, Dispatched, driver
<1>13. TypeOK'
  <2>1. last_merge' \in Ids \cup {NULL}
      BY <1>1 DEF IInv, TypeOK
  <2> QED
      BY <1>1, <1>4, <1>10, <2>1 DEF IInv, TypeOK, HashAgrees, boundary, driver
<1>14. DataInv'
  <2>1. BiosOnce(rq', next, served, failed)
      BY <1>11 DEF IInv, BiosOnce
  <2>2. SectorsOnce(rq')
      BY <1>11, FewerSectors DEF IInv, Extent
  <2> QED
      BY <1>1, <2>1, <2>2 DEF DataInv, driver
<1>15. PlacesInv'
  <2>1. Loose' = {} /\ Loose = {}
      BY <1>1, <1>5 DEF Loose
  <2>2. Live' = Live
      BY <1>11 DEF Live
  <2>3. Held \subseteq Ids /\ active \subseteq Ids
      BY Pending
  <2>4. /\ \A z \in Held : "SORTED" \in rq'[z].flags /\ rq'[z].fs
        /\ \A z \in active : "STARTED" \in rq'[z].flags
      BY <1>11, <2>3 DEF IInv, PlacesInv
  <2> QED
      BY <1>1, <1>12, <2>1, <2>2, <2>4 DEF IInv, PlacesInv
<1>16. LockInv'
    BY <1>1, <1>5 DEF LockInv
<1>17. BookInv'
  <2>1. HashMatches'
    <3>1. ASSUME NEW z \in Ids
          PROVE  /\ H[z] # NotHashed => z \in Held /\ H[z] = rq'[z].end
                 /\ z \in Held /\ Mergeable(rq'[z]) => H[z] # NotHashed
      <4>1. Mergeable(rq'[z]) => Mergeable(rq[z])
          BY <1>11 DEF Mergeable
      <4> QED
          BY <1>4, <1>11, <4>1 DEF HashAgrees
    <3> QED
        BY <1>1, <1>12, <3>1 DEF HashMatches
  <2>2. LastMergeHeld'
      BY <1>1, <1>12 DEF IInv, LastMergeHeld
  <2>3. OrderInv'
    <3>1. queue \in Seq(Ids) /\ \A z \in ToSet(queue) : rq'[z].end = rq[z].end
        BY <1>11, Pending DEF IInv, TypeOK, Held
    <3> QED
        BY <1>1, <3>1, SameOrdered DEF IInv, OrderInv, QueueSorted, Ordered
  <2>4. NrSortedExact'
      BY <1>1 DEF IInv, NrSortedExact
  <2> QED
      BY <2>1, <2>2, <2>3, <2>4 DEF BookInv
<1>18. DriverInv'
  <2>1. r \notin Dispatched \cup active
      BY <1>3 DEF IInv, PlacesInv
  <2>2. \A z \in Dispatched \cup active : rq'[z] = rq[z]
      BY <1>10, <2>1, Pending
  <2> QED
      BY <1>1, <1>5, <2>2, DriverFrame
<1> QED
    BY <1>13, <1>14, <1>15, <1>16, <1>17, <1>18 DEF IInv, DataInv, BookInv, DriverInv

-----------------------------------------------------------------------------
(* Inserting a request *)

\* ELEVATOR_INSERT_SORT of a request that nothing holds yet.
LEMMA Inserting ==
    ASSUME IInv, pc # "drain", NEW R \in [Ids -> Request], NEW n \in 1..(MaxRequests + 1),
           NEW H, HashAgrees(rq, H, {}), NEW r \in Ids,
           BiosOnce(R, n, served, failed), SectorsOnce(R),
           r \notin Held \cup Dispatched \cup active, R[r].bios # {}, R[r].fs,
           \A x \in Ids \ {r} : R[x] = rq[x] /\ (rq[x].bios # {} => x \notin Loose),
           InsertSort(R, H, r), pc' = "free", cur' = NULL, next' = n,
           UNCHANGED <<merges, queue_head, boundary, driver>>
    PROVE  IInv'
<1>1. /\ Held \subseteq Ids /\ Dispatched \subseteq Ids /\ active \subseteq Ids
      /\ queue \in Seq(Ids) /\ Len(queue) \in Nat /\ nr_sorted = Len(queue)
      /\ IsInjective(queue) /\ ToSet(queue) = Held
      /\ rq \in [Ids -> Request] /\ r \notin Held
    BY Pending, ListedAt DEF IInv, TypeOK, NrSortedExact, PlacesInv, Held
<1>2. PICK x \in Request : x = R[r]
    OBVIOUS
<1>3. PICK y : y = [x EXCEPT !.flags = x.flags \cup {"SORTED"}]
    OBVIOUS
<1>4. /\ y \in Request /\ y.flags = x.flags \cup {"SORTED"} /\ y.bios = x.bios /\ y.fs = x.fs
      /\ y.pos = x.pos /\ y.end = x.end /\ y.dir = x.dir
    BY <1>3 DEF Request, Flags
<1>5. rq' = [R EXCEPT ![r] = y]
    BY <1>2, <1>3 DEF InsertSort
<1>6. /\ rq' \in [Ids -> Request] /\ rq'[r] = y
      /\ \A z \in Ids \ {r} : rq'[z] = rq[z] /\ rq'[z] = R[z]
    BY <1>4, <1>5
<1>7. \A z \in Ids : /\ rq'[z].bios = R[z].bios /\ rq'[z].pos = R[z].pos
                     /\ rq'[z].end = R[z].end /\ rq'[z].fs = R[z].fs
    BY <1>2, <1>4, <1>6
<1>8. PICK p \in 1..(Len(queue) + 1) :
         InsertPosition(p, r) /\ queue' = InsertAt(queue, p, r)
    BY DEF InsertSort, AddToScheduler
<1>9. /\ queue' \in Seq(Ids) /\ Len(queue') = Len(queue) + 1
      /\ ToSet(queue') = ToSet(queue) \cup {r} /\ IsInjective(queue')
    BY <1>1, <1>8, InsertPositionMembers
<1>10. Held' = Held \cup {r} /\ Dispatched' = Dispatched /\ active' = active
    BY <1>1, <1>9 DEF Held, Dispatched, driver
<1>11. hash' = (IF Mergeable(x) THEN [H EXCEPT ![r] = x.end] ELSE H)
    BY <1>2 DEF InsertSort, Hashed
<1>12. x.end \in Nat /\ x.end # NotHashed
    BY RequestFields DEF NotHashed
<1>13. hash' \in [Ids -> Nat \cup {NotHashed}]
    BY <1>11, <1>12 DEF HashAgrees
<1>14. last_merge' \in {last_merge, r}
    BY DEF InsertSort
<1>15. nr_sorted' = Len(queue') /\ nr_sorted' \in Nat
    BY <1>1, <1>9 DEF InsertSort
<1>16. TypeOK'
  <2>1. last_merge' \in Ids \cup {NULL} /\ cur' \in Ids \cup {NULL}
      BY <1>14 DEF IInv, TypeOK
  <2> QED
      BY <1>6, <1>9, <1>13, <1>15, <2>1 DEF IInv, TypeOK, boundary, driver
<1>17. DataInv'
  <2>1. BiosOnce(rq', n, served, failed)
      BY <1>7 DEF BiosOnce
  <2>2. SectorsOnce(rq')
    <3>1. \A z \in Ids : Extent(rq'[z]) =>
             Extent(R[z]) /\ rq'[z].pos = R[z].pos /\ rq'[z].end = R[z].end
        BY <1>7 DEF Extent
    <3> QED
        BY <3>1, FewerSectors
  <2> QED
      BY <2>1, <2>2 DEF DataInv, driver
<1>18. PlacesInv'
  <2>1. Loose' = {}
      BY DEF Loose
  <2>2. Live' = Held \cup Dispatched \cup active \cup {r}
    <3>1. \A z \in Ids \ {r} : rq'[z].bios # {} <=> z \in Held \cup Dispatched \cup active
        BY <1>6, Pending
    <3>2. rq'[r].bios # {}
        BY <1>7
    <3> QED
        BY <1>1, <3>1, <3>2 DEF Live
  <2>3. \A z \in Held' : "SORTED" \in rq'[z].flags /\ rq'[z].fs
    <3>1. "SORTED" \in rq'[r].flags /\ rq'[r].fs
        BY <1>2, <1>4, <1>6
    <3>2. \A z \in Held : z # r /\ "SORTED" \in rq[z].flags /\ rq[z].fs
        BY <1>1 DEF IInv, PlacesInv
    <3> QED
        BY <1>1, <1>6, <1>10, <3>1, <3>2
  <2>4. \A z \in active : "STARTED" \in rq'[z].flags
      BY <1>1, <1>6 DEF IInv, PlacesInv
  <2>5. /\ IsInjective(queue_head) /\ Held \cap Dispatched = {}
        /\ (Held \cup Dispatched) \cap active = {}
      BY DEF IInv, PlacesInv
  <2> QED
      BY <1>9, <1>10, <2>1, <2>2, <2>3, <2>4, <2>5 DEF PlacesInv
<1>19. LockInv'
    BY DEF LockInv
<1>20. BookInv'
  <2>1. HashMatches'
    <3>1. ASSUME NEW z \in Ids
          PROVE  /\ hash'[z] # NotHashed => z \in Held' /\ hash'[z] = rq'[z].end
                 /\ z \in Held' /\ Mergeable(rq'[z]) => hash'[z] # NotHashed
      <4>1. CASE z = r
        <5>1. Mergeable(y) <=> Mergeable(x)
            BY <1>4 DEF Mergeable
        <5>2. H[r] = NotHashed
            BY <1>1 DEF HashAgrees
        <5>3. rq'[r] = y /\ r \in Held' /\ y.end = x.end
            BY <1>4, <1>6, <1>10
        <5>4. Mergeable(x) => hash'[r] = x.end
            BY <1>11 DEF HashAgrees
        <5>5. ~Mergeable(x) => hash'[r] = NotHashed
            BY <1>11, <5>2
        <5> QED
            BY <1>12, <4>1, <5>1, <5>3, <5>4, <5>5
      <4>2. CASE z # r
        <5>1. hash'[z] = H[z]
            BY <1>11, <4>2 DEF HashAgrees
        <5>2. rq'[z] = rq[z] /\ (z \in Held' <=> z \in Held)
            BY <1>6, <1>10, <4>2
        <5> QED
            BY <5>1, <5>2 DEF HashAgrees
      <4> QED
          BY <4>1, <4>2
    <3> QED
        BY <3>1 DEF HashMatches
  <2>2. LastMergeHeld'
      BY <1>10, <1>14 DEF IInv, LastMergeHeld
  <2>3. ASSUME Scheduler = "clook", ~MayOverlap PROVE Ordered(rq', queue')
    <3>1. Ordered(rq, queue)
        BY <2>3 DEF IInv, OrderInv, QueueSorted, Ordered
    <3>2. /\ \A k \in 1..(p - 1) : rq'[queue[k]].end <= rq'[r].end
          /\ p <= Len(queue) => rq'[queue[p]].end > rq'[r].end
        BY <1>8, <2>3 DEF InsertPosition
    <3>3. \A z \in ToSet(queue) : rq'[z].end = rq[z].end
        BY <1>1, <1>6
    <3> QED
        BY <1>1, <1>6, <1>8, <3>1, <3>2, <3>3, InsertOrdered
  <2>4. OrderInv'
      BY <2>3 DEF OrderInv, QueueSorted, Ordered
  <2> QED
      BY <1>15, <2>1, <2>2, <2>4 DEF BookInv, NrSortedExact
<1>21. DriverInv'
  <2>1. \A z \in Dispatched \cup active : rq'[z] = rq[z]
      BY <1>1, <1>6
  <2> QED
      BY <2>1, DriverFrame
<1> QED
    BY <1>16, <1>17, <1>18, <1>19, <1>20, <1>21 DEF IInv, DataInv, BookInv, DriverInv

\* The structure of a new request.
LEMMA NewFields ==
    ASSUME rq \in [Ids -> Request], NEW r \in Ids, NEW b \in Bios, NEW fs \in BOOLEAN,
           NEW elvpriv \in BOOLEAN, NEW where \in {"SORT", "BACK", "FRONT"},
           NEW R, R = NewRequest(r, b, fs, elvpriv, where)
    PROVE  /\ R \in [Ids -> Request] /\ R[r].bios = {r} /\ R[r].fs = fs
           /\ R[r].flags = IF elvpriv THEN {"ELVPRIV"} ELSE {}
           /\ fs => R[r].pos = b.pos /\ R[r].end = b.pos + b.len
           /\ \A x \in Ids \ {r} : R[x] = rq[x]
<1>1. PICK p \in Nat, e \in Nat : p = (IF fs THEN b.pos ELSE 0)
                                  /\ e = (IF fs THEN b.pos + b.len ELSE 0)
    BY BioFields
<1>2. PICK f \in SUBSET Flags : f = IF elvpriv THEN {"ELVPRIV"} ELSE {}
    BY DEF Flags
<1>3. PICK y : y = [pos |-> p, end |-> e, dir |-> b.dir, fs |-> fs, flags |-> f,
                    bios |-> {r}, where |-> where]
    OBVIOUS
<1>4. /\ y \in Request /\ y.bios = {r} /\ y.fs = fs /\ y.flags = f /\ y.pos = p /\ y.end = e
    BY <1>3, BioFields DEF Request
<1>5. R = [rq EXCEPT ![r] = [pos |-> p, end |-> e, dir |-> b.dir, fs |-> fs, flags |-> f,
                             bios |-> {r}, where |-> where]]
    BY <1>1, <1>2 DEF NewRequest
<1>6. R = [rq EXCEPT ![r] = y]
    BY <1>3, <1>5
<1> QED
    BY <1>1, <1>2, <1>4, <1>6

\* A new request carries its submission, on sectors that were free.
LEMMA NewData ==
    ASSUME IInv, NEW b \in Bios, MaySubmit(b), NEW R \in [Ids -> Request],
           R[next].bios = {next},
           R[next].fs => R[next].pos = b.pos /\ R[next].end = b.pos + b.len,
           \A x \in Ids \ {next} : R[x] = rq[x]
    PROVE  BiosOnce(R, next + 1, served, failed) /\ SectorsOnce(R)
<1>1. next \in Ids /\ next <= next /\ Free(rq, b.pos, b.pos + b.len)
    BY SubmitFree DEF Ids
<1>2. rq[next].bios = {}
    BY <1>1, Unused
<1>3. rq \in [Ids -> Request] /\ served \in SUBSET Ids /\ failed \in SUBSET Ids
      /\ BiosOnce(rq, next, served, failed) /\ SectorsOnce(rq)
    BY DEF IInv, TypeOK
<1>4. R[next].bios = rq[next].bios \cup {next} /\ \A x \in Ids \ {next} : R[x].bios = rq[x].bios
    BY <1>2
<1>5. BiosOnce(R, next + 1, served, failed)
    BY <1>1, <1>3, <1>4, TakeBio
<1>6. PICK p \in Nat, q \in Nat : p = b.pos /\ q = b.pos + b.len /\ p < q
    BY BioFields
<1>7. Extent(R[next]) => R[next].pos = p /\ R[next].end = q
    BY <1>6 DEF Extent
<1>8. SectorsOnce(R)
    BY <1>1, <1>3, <1>6, <1>7, NewSectors
<1> QED
    BY <1>5, <1>8

\* AddSorted with a hit of the one-hit cache, without one, and before a lookup.
LEMMA AddSortedStep ==
    ASSUME IInv, NEW b \in Bios, AddSorted(b)
    PROVE  IInv'
<1>1. PICK where, R :
         /\ where \in Wheres \cap {"SORT", "SORT_MERGE"}
         /\ R = NewRequest(next, b, TRUE, TRUE, "SORT") /\ MaySubmit(b)
         /\ \/ /\ last_merge # NULL /\ CanMerge(R, last_merge, next)
               /\ MergeRequests(R, hash, last_merge, next)
               /\ UNCHANGED <<pc, cur>>
            \/ InsertSort(R, hash, next) /\ UNCHANGED <<pc, cur>>
            \/ pc' = "merge" /\ cur' = next /\ rq' = R /\ UNCHANGED sched
         /\ next' = next + 1
         /\ UNCHANGED <<merges, queue_head, boundary, driver>>
    BY DEF AddSorted
<1>2. /\ next \in Ids /\ pc = "free" /\ cur = NULL /\ Loose = {}
      /\ \A x \in Ids : rq[x].bios # {} <=> x \in Held \cup Dispatched \cup active
    BY <1>1, SubmitFree, NothingLoose
<1>3. /\ rq[next].bios = {} /\ hash[next] = NotHashed /\ next # NULL
      /\ next \notin Held \cup Dispatched \cup active
    BY <1>2, Unused
<1>4. rq \in [Ids -> Request] /\ hash \in [Ids -> Nat \cup {NotHashed}]
      /\ Held \subseteq Ids /\ Dispatched \subseteq Ids /\ active \subseteq Ids
    BY Pending DEF IInv, TypeOK
<1>5. /\ R \in [Ids -> Request] /\ R[next].bios = {next} /\ R[next].fs
      /\ R[next].flags = {"ELVPRIV"}
      /\ R[next].pos = b.pos /\ R[next].end = b.pos + b.len
      /\ \A x \in Ids \ {next} : R[x] = rq[x]
  <2>1. PICK t \in BOOLEAN, w \in {"SORT", "BACK", "FRONT"} : t = TRUE /\ w = "SORT"
      OBVIOUS
  <2>2. R = NewRequest(next, b, t, t, w)
      BY <1>1, <2>1
  <2>3. /\ R \in [Ids -> Request] /\ R[next].bios = {next} /\ R[next].fs = t
        /\ R[next].flags = IF t THEN {"ELVPRIV"} ELSE {}
        /\ t => R[next].pos = b.pos /\ R[next].end = b.pos + b.len
        /\ \A x \in Ids \ {next} : R[x] = rq[x]
      BY <1>2, <1>4, <2>2, NewFields
  <2> QED
      BY <2>1, <2>3
<1>6. BiosOnce(R, next + 1, served, failed) /\ SectorsOnce(R)
    BY <1>1, <1>5, NewData
<1>7. next + 1 \in 1..(MaxRequests + 1)
    BY <1>2, ElevatorAssumption DEF Ids
<1>8. HashAgrees(rq, hash, {})
    BY <1>4 DEF IInv, HashMatches, HashAgrees
<1>9. \A x \in Held \cup Dispatched \cup active : x # next /\ R[x] = rq[x]
    BY <1>3, <1>4, <1>5
<1>10. CASE /\ last_merge # NULL /\ CanMerge(R, last_merge, next)
            /\ MergeRequests(R, hash, last_merge, next)
            /\ UNCHANGED <<pc, cur>>
  <2>1. last_merge \in Held /\ last_merge # next
      BY <1>3, <1>10 DEF IInv, LastMergeHeld
  <2>2. Prepared(R, next + 1, next)
    <3>1. ASSUME Scheduler = "clook", ~MayOverlap PROVE Ordered(R, queue)
      <4>1. queue \in Seq(Ids) /\ \A x \in ToSet(queue) : R[x].end = rq[x].end
          BY <1>9 DEF IInv, TypeOK, Held
      <4>2. Ordered(rq, queue)
          BY <3>1 DEF IInv, OrderInv, QueueSorted, Ordered
      <4> QED
          BY <4>1, <4>2, SameOrdered
    <3>2. \A x \in Ids : R[x].bios # {} <=> x \in Held \cup Dispatched \cup active \cup {next}
        BY <1>2, <1>5
    <3> QED
        BY <1>5, <1>6, <1>7, <1>9, <3>1, <3>2 DEF Prepared
  <2>3. HashAgrees(R, hash, {last_merge})
      BY <1>3, <1>5, <1>8 DEF HashAgrees
  <2>4. "SORTED" \notin R[next].flags
      BY <1>5
  <2> QED
      BY <1>1, <1>2, <1>3, <1>10, <2>1, <2>2, <2>3, <2>4, Merging
<1>11. CASE InsertSort(R, hash, next) /\ UNCHANGED <<pc, cur>>
    BY <1>1, <1>2, <1>3, <1>5, <1>6, <1>7, <1>8, <1>11, Inserting
<1>12. CASE pc' = "merge" /\ cur' = next /\ rq' = R /\ UNCHANGED sched
  <2>1. Held' = Held /\ Dispatched' = Dispatched /\ active' = active
      BY <1>1, <1>12 DEF Held, Dispatched, driver, sched
  <2>2. TypeOK'
      BY <1>1, <1>2, <1>5, <1>7, <1>12 DEF IInv, TypeOK, boundary, driver, sched
  <2>3. DataInv'
      BY <1>1, <1>6, <1>12 DEF DataInv, driver
  <2>4. Loose' = {next}
      BY <1>3, <1>5, <1>12 DEF Loose
  <2>5. PlacesInv'
    <3>1. Live' = Held \cup Dispatched \cup active \cup {next}
        BY <1>2, <1>4, <1>5, <1>12 DEF Live
    <3>2. /\ \A x \in Held : "SORTED" \in rq'[x].flags /\ rq'[x].fs
          /\ \A x \in active : "STARTED" \in rq'[x].flags
        BY <1>9, <1>12 DEF IInv, PlacesInv
    <3>3. queue' = queue /\ queue_head' = queue_head
        BY <1>1, <1>12 DEF sched
    <3> QED
        BY <1>3, <2>1, <2>4, <3>1, <3>2, <3>3 DEF IInv, PlacesInv
  <2>6. LockInv'
      BY <1>3, <1>5, <1>12, <2>4 DEF LockInv
  <2>7. BookInv'
      BY <1>9, <1>12, BookFrame
  <2>8. DriverInv'
      BY <1>1, <1>2, <1>9, <1>12, DriverFrame
  <2> QED
      BY <2>2, <2>3, <2>5, <2>6, <2>7, <2>8 DEF IInv, DataInv, BookInv, DriverInv
<1> QED
    BY <1>1, <1>10, <1>11, <1>12

\* The loop of elv_attempt_insert_merge.
LEMMA MergeStepStep ==
    ASSUME IInv, MergeStep
    PROVE  IInv'
<1>1. PICK s \in HashFind(rq[cur].pos), H \in Swept :
         /\ pc = "merge" /\ CanMerge(rq, s, cur) /\ MergeRequests(rq, H, s, cur)
         /\ cur' = s /\ UNCHANGED <<pc, merges, next, queue_head, boundary, driver>>
    BY DEF MergeStep
<1>2. /\ rq \in [Ids -> Request] /\ next \in 1..(MaxRequests + 1)
      /\ cur \in Loose \cup Held /\ cur \in Ids /\ rq[cur].bios # {} /\ rq[cur].fs
    BY <1>1, Pending DEF IInv, TypeOK, LockInv
<1>3. s \in Ids /\ hash[s] = rq[cur].pos
    BY <1>1 DEF HashFind
<1>4. s \in Held /\ hash[s] = rq[s].end
  <2>1. hash[s] # NotHashed
      BY <1>2, <1>3, RequestFields DEF NotHashed
  <2> QED
      BY <1>3, <2>1 DEF IInv, HashMatches
<1>5. s # cur
  <2>1. rq[cur].pos < rq[cur].end /\ rq[cur].pos \in Nat /\ rq[cur].end \in Nat
      BY <1>2, RequestFields DEF IInv, SectorsOnce, Extent
  <2> QED
      BY <1>3, <1>4, <2>1
<1>6. /\ cur \notin Dispatched \cup active
      /\ cur \in Held <=> "SORTED" \in rq[cur].flags
    BY <1>2 DEF IInv, PlacesInv, Loose
<1>7. Prepared(rq, next, cur)
  <2>1. \A x \in Loose : x = cur
      BY DEF Loose
  <2>2. \A x \in Ids : rq[x].bios # {} <=> x \in Held \cup Dispatched \cup active \cup {cur}
      BY <1>2, <2>1, Pending
  <2>3. Scheduler = "clook" /\ ~MayOverlap => Ordered(rq, queue)
      BY DEF IInv, OrderInv, QueueSorted, Ordered
  <2> QED
      BY <1>2, <2>2, <2>3 DEF Prepared, IInv
<1>8. HashAgrees(rq, H, {s})
    BY <1>1, SweptAgrees DEF HashAgrees
<1> QED
    BY <1>1, <1>2, <1>4, <1>5, <1>6, <1>7, <1>8, Merging

\* The loop ends.
LEMMA MergeDoneStep ==
    ASSUME IInv, MergeDone
    PROVE  IInv'
<1>1. PICK H \in Swept :
         /\ pc = "merge"
         /\ IF "SORTED" \in rq[cur].flags
            THEN hash' = H /\ UNCHANGED <<rq, queue, nr_sorted, last_merge>>
            ELSE InsertSort(rq, H, cur)
         /\ pc' = "free" /\ cur' = NULL
         /\ UNCHANGED <<merges, next, queue_head, boundary, driver>>
    BY DEF MergeDone
<1>2. /\ rq \in [Ids -> Request] /\ next \in 1..(MaxRequests + 1)
      /\ cur \in Loose \cup Held /\ cur \in Ids /\ rq[cur].bios # {} /\ rq[cur].fs
    BY <1>1, Pending DEF IInv, TypeOK, LockInv
<1>3. HashAgrees(rq, H, {})
    BY <1>1, SweptAgrees
<1>4. CASE "SORTED" \notin rq[cur].flags
  <2>1. cur \notin Held \cup Dispatched \cup active
      BY <1>2, <1>4, Pending DEF IInv, PlacesInv
  <2>2. \A x \in Ids \ {cur} : x \notin Loose
      BY DEF Loose
  <2>3. BiosOnce(rq, next, served, failed) /\ SectorsOnce(rq)
      BY DEF IInv
  <2> QED
      BY <1>1, <1>2, <1>3, <1>4, <2>1, <2>2, <2>3, Inserting
<1>5. CASE "SORTED" \in rq[cur].flags
  <2>1. /\ hash' = H /\ rq' = rq /\ queue' = queue /\ nr_sorted' = nr_sorted
        /\ last_merge' = last_merge
      BY <1>1, <1>5
  <2>2. Held' = Held /\ Dispatched' = Dispatched /\ active' = active
      BY <1>1, <2>1 DEF Held, Dispatched, driver
  <2>3. Loose = {} /\ Loose' = {}
      BY <1>1, <1>5 DEF Loose
  <2>4. TypeOK'
      BY <1>1, <1>3, <2>1 DEF IInv, TypeOK, HashAgrees, boundary, driver
  <2>5. DataInv'
      BY <1>1, <2>1 DEF IInv, DataInv, driver
  <2>6. PlacesInv'
    <3>1. Live' = Live
        BY <2>1 DEF Live
    <3> QED
        BY <1>1, <2>1, <2>2, <2>3, <3>1 DEF IInv, PlacesInv
  <2>7. LockInv'
      BY <1>1 DEF LockInv
  <2>8. HashMatches'
      BY <1>3, <2>1, <2>2 DEF HashAgrees, HashMatches
  <2>9. BookInv'
      BY <2>1, <2>2, <2>8 DEF IInv, BookInv, NrSortedExact, LastMergeHeld, OrderInv, QueueSorted
  <2>10. DriverInv'
      BY <1>1, <2>1, DriverFrame
  <2> QED
      BY <2>4, <2>5, <2>6, <2>7, <2>9, <2>10 DEF IInv, DataInv, BookInv, DriverInv
<1> QED
    BY <1>4, <1>5

-----------------------------------------------------------------------------
(* Dispatching *)

\* elv_dispatch_sort puts a request where the last group stays in sweeps.
LEMMA SweepInsert ==
    ASSUME NEW D, D = queue_head, D \in Seq(Ids), NEW r \in Ids, rq \in [Ids -> Request],
           end_sector \in Nat, LastGroupSweeps,
           NEW p \in 1..(Len(D) + 1),
           p > 1 => StopsSort(rq[r], rq[D[p - 1]]),
           \A k \in p..Len(D) : ~StopsSort(rq[r], rq[D[k]]),
           UNCHANGED <<rq, end_sector>>, queue_head' = InsertAt(D, p, r)
    PROVE  LastGroupSweeps'
<1>1. PICK n \in Nat : n = Len(D)
    OBVIOUS
<1>2. PICK D2 : D2 = InsertAt(D, p, r)
    OBVIOUS
<1>3. /\ D2 \in Seq(Ids) /\ Len(D2) = n + 1
      /\ \A k \in 1..(n + 1) : D2[k] = IF k < p THEN D[k] ELSE IF k = p THEN r ELSE D[k - 1]
    BY <1>1, <1>2, InsertAtPosition
<1>4. p \in 1..(n + 1)
    BY <1>1
<1>5. \A x \in Ids : rq[x].pos \in Nat
    BY RequestFields
<1>6. ASSUME NEW i \in 2..(n + 1), \A k \in (i - 1)..(n + 1) : ~Barrier(rq[D2[k]]),
             rq[D2[i - 1]].dir = rq[D2[i]].dir
      PROVE  InSweep(rq[D2[i - 1]], rq[D2[i]])
  <2>1. ASSUME NEW j \in 2..n, i - 1 <= j, j - 1 < p => i - 1 <= j - 1
        PROVE  NoBarrierFrom(j - 1)
    <3>1. ASSUME NEW k \in (j - 1)..n PROVE ~Barrier(rq[D[k]])
      <4>1. CASE k < p
        <5>1. k \in (i - 1)..(n + 1) /\ k \in 1..(n + 1)
            BY <1>4, <2>1, <4>1
        <5> QED
            BY <1>3, <1>6, <4>1, <5>1
      <4>2. CASE k >= p
        <5>1. k + 1 \in (i - 1)..(n + 1) /\ k + 1 \in 1..(n + 1) /\ ~(k + 1 < p) /\ k + 1 # p
              /\ (k + 1) - 1 = k
            BY <1>4, <2>1, <4>2
        <5>2. D2[k + 1] = D[k]
            BY <1>3, <5>1
        <5> QED
            BY <1>6, <5>1, <5>2
      <4> QED
          BY <1>4, <4>1, <4>2
    <3> QED
        BY <1>1, <3>1 DEF NoBarrierFrom
  <2>2. CASE i < p
    <3>1. i \in 2..n /\ D2[i - 1] = D[i - 1] /\ D2[i] = D[i]
        BY <1>3, <1>4, <2>2
    <3>2. NoBarrierFrom(i - 1)
        BY <2>1, <3>1
    <3> QED
        BY <1>1, <1>6, <3>1, <3>2 DEF LastGroupSweeps
  <2>3. CASE i = p
    <3>1. D2[i - 1] = D[p - 1] /\ D2[i] = r /\ p > 1 /\ D[p - 1] \in Ids
        BY <1>1, <1>3, <1>4, <2>3
    <3>2. ~Barrier(rq[D[p - 1]])
        BY <1>6, <3>1
    <3>3. StopsSort(rq[r], rq[D[p - 1]]) /\ rq[r].dir = rq[D[p - 1]].dir
        BY <1>6, <3>1
    <3> QED
        BY <1>5, <3>1, <3>2, <3>3 DEF StopsSort, InSweep
  <2>4. CASE i = p + 1
    <3>1. D2[i - 1] = r /\ D2[i] = D[p] /\ p \in p..n /\ D[p] \in Ids
        BY <1>1, <1>3, <1>4, <2>4
    <3>2. ~StopsSort(rq[r], rq[D[p]])
        BY <1>1, <3>1
    <3> QED
        BY <1>5, <3>1, <3>2, SMTT(30) DEF StopsSort, InSweep
  <2>5. CASE i > p + 1
    <3>1. PICK j \in 2..n : j = i - 1
        BY <1>4, <2>5
    <3>2. D2[i - 1] = D[j - 1] /\ D2[i] = D[j]
        BY <1>3, <1>4, <2>5, <3>1
    <3>3. NoBarrierFrom(j - 1)
      <4>1. i - 1 <= j /\ ~(j - 1 < p)
          BY <1>4, <2>5, <3>1
      <4> QED
          BY <2>1, <4>1
    <3> QED
        BY <1>1, <1>6, <3>1, <3>2, <3>3 DEF LastGroupSweeps
  <2> QED
      BY <1>4, <2>2, <2>3, <2>4, <2>5
<1>7. ASSUME NEW i \in 2..Len(queue_head'), NoBarrierFrom(i - 1)',
             rq'[queue_head'[i - 1]].dir = rq'[queue_head'[i]].dir
      PROVE  InSweep(rq[queue_head[i - 1]], rq[queue_head[i]])'
  <2>1. queue_head' = D2 /\ rq' = rq /\ i \in 2..(n + 1)
      BY <1>2, <1>3
  <2>2. \A k \in (i - 1)..(n + 1) : ~Barrier(rq[D2[k]])
      BY <1>3, <1>7, <2>1 DEF NoBarrierFrom
  <2>3. InSweep(rq[D2[i - 1]], rq[D2[i]])
      BY <1>6, <1>7, <2>1, <2>2
  <2> QED
      BY <2>1, <2>3 DEF InSweep
<1> QED
    BY <1>7 DEF LastGroupSweeps

\* The scheduler's first request moves to the dispatch list.
LEMMA Dispatching ==
    ASSUME IInv, DispatchFirst, pc = "drain" \/ (pc = "free" /\ queue_head = <<>>),
           UNCHANGED <<pc, merges, rq, next, boundary, cur, driver>>
    PROVE  IInv'
<1>1. /\ queue \in Seq(Ids) /\ queue # <<>> /\ IsInjective(queue) /\ ToSet(queue) = Held
      /\ queue_head \in Seq(Ids) /\ IsInjective(queue_head) /\ ToSet(queue_head) = Dispatched
      /\ Len(queue_head) \in Nat /\ nr_sorted = Len(queue) /\ Len(queue) \in Nat
    BY ListedAt DEF IInv, TypeOK, PlacesInv, NrSortedExact, Held, Dispatched, DispatchFirst
<1>2. PICK r : r = Head(queue)
    OBVIOUS
<1>3. /\ r \in Ids /\ r \in Held /\ queue' = Tail(queue) /\ queue' \in Seq(Ids)
      /\ Held' = Held \ {r} /\ IsInjective(queue') /\ Len(queue') = Len(queue) - 1
      /\ Len(queue') \in Nat
  <2>1. queue' = Tail(queue) /\ Len(Tail(queue)) = Len(queue) - 1 /\ Len(queue) # 0
      BY <1>1, HeadTailProperties DEF DispatchFirst
  <2>2. /\ Tail(queue) \in Seq(Ids) /\ r \in Ids /\ r \in ToSet(queue)
        /\ ToSet(Tail(queue)) = ToSet(queue) \ {r} /\ IsInjective(Tail(queue))
      BY <1>1, <1>2, TailMembers
  <2> QED
      BY <1>1, <2>1, <2>2 DEF Held
<1>4. PICK p \in 1..(Len(queue_head) + 1) :
         /\ p > 1 => StopsSort(rq[r], rq[queue_head[p - 1]])
         /\ \A k \in p..Len(queue_head) : ~StopsSort(rq[r], rq[queue_head[k]])
         /\ queue_head' = InsertAt(queue_head, p, r)
    BY <1>2 DEF DispatchFirst, DispatchSort
<1>5. r \notin Dispatched /\ r \notin active
    BY <1>3 DEF IInv, PlacesInv
<1>6. /\ queue_head' \in Seq(Ids) /\ Len(queue_head') = Len(queue_head) + 1
      /\ ToSet(queue_head') = ToSet(queue_head) \cup {r} /\ IsInjective(queue_head')
    BY <1>1, <1>3, <1>4, <1>5, InsertPositionMembers
<1>7. Dispatched' = Dispatched \cup {r} /\ active' = active /\ Loose' = Loose /\ Live' = Live
    BY <1>1, <1>6 DEF Dispatched, driver, Loose, Live
<1>8. /\ hash' = [hash EXCEPT ![r] = NotHashed] /\ nr_sorted' = nr_sorted - 1
      /\ last_merge' = IF last_merge = r THEN NULL ELSE last_merge
    BY <1>2 DEF DispatchFirst, DispatchSort, Unhashed, CountDispatched, ForgetLastMerge
<1>9. hash \in [Ids -> Nat \cup {NotHashed}] /\ hash' \in [Ids -> Nat \cup {NotHashed}]
    BY <1>8 DEF IInv, TypeOK
<1>10. nr_sorted' = Len(queue') /\ nr_sorted' \in Nat
    BY <1>1, <1>3, <1>8
<1>11. TypeOK'
    BY <1>3, <1>6, <1>8, <1>9, <1>10 DEF IInv, TypeOK, boundary, driver
<1>12. DataInv'
    BY DEF IInv, DataInv, driver
<1>13. PlacesInv'
    BY <1>3, <1>5, <1>6, <1>7 DEF IInv, PlacesInv
<1>14. LockInv'
    BY <1>7 DEF IInv, LockInv
<1>15. BookInv'
  <2>1. HashMatches'
    <3>1. hash'[r] = NotHashed /\ \A x \in Ids \ {r} : hash'[x] = hash[x]
        BY <1>3, <1>8, <1>9
    <3> QED
        BY <1>3, <3>1 DEF IInv, HashMatches
  <2>2. LastMergeHeld'
      BY <1>3, <1>8 DEF IInv, LastMergeHeld
  <2>3. OrderInv'
      BY <1>1, <1>3, TailOrdered DEF IInv, OrderInv, QueueSorted, Ordered
  <2> QED
      BY <1>10, <2>1, <2>2, <2>3 DEF BookInv, NrSortedExact
<1>16. InFlightExact'
    BY DEF IInv, InFlightExact, driver
<1>17. BoundaryInv'
    BY <1>7 DEF IInv, BoundaryInv, boundary
<1>18. SweepInv'
  <2>1. rq \in [Ids -> Request] /\ end_sector \in Nat /\ LastGroupSweeps
        /\ UNCHANGED <<rq, end_sector>>
      BY DEF IInv, TypeOK, SweepInv, boundary
  <2>2. LastGroupSweeps'
      BY <1>1, <1>3, <1>4, <2>1, SweepInsert
  <2>3. CASE pc = "drain"
      BY <2>2, <2>3 DEF SweepInv
  <2>4. CASE queue_head = <<>>
    <3>1. Len(queue_head') - 1 = 0 /\ \A i : i \notin 1..0
        BY <1>6, <2>4
    <3>2. \A i \in 1..(Len(queue_head') - 1) : ~NoBarrierFrom(i)'
        BY <3>1
    <3> QED
        BY <2>2, <3>2 DEF SweepInv
  <2> QED
      BY <2>3, <2>4
<1> QED
    BY <1>11, <1>12, <1>13, <1>14, <1>15, <1>16, <1>17, <1>18
       DEF IInv, DataInv, BookInv, DriverInv

-----------------------------------------------------------------------------
(* Barriers *)

\* The step makes the next request, with the flag of a barrier.
AsBarrier(b, fs, elvpriv, where) ==
    rq' = [NewRequest(next, b, fs, elvpriv, where)
              EXCEPT ![next].flags = @ \cup {"SOFTBARRIER"}]

\* What the next request is then, and that no other changes.
BarrierMade(fs) ==
    /\ rq' \in [Ids -> Request] /\ rq'[next].bios = {next} /\ rq'[next].fs = fs
    /\ Barrier(rq'[next])
    /\ "SORTED" \notin rq'[next].flags /\ "STARTED" \notin rq'[next].flags
    /\ \A x \in Ids \ {next} : rq'[x] = rq[x]
    /\ BiosOnce(rq', next + 1, served, failed) /\ SectorsOnce(rq')

\* A new request to which the flag of a barrier is given.
LEMMA NewBarrier ==
    ASSUME IInv, NEW b \in Bios, MaySubmit(b), NEW fs \in BOOLEAN, NEW elvpriv \in BOOLEAN,
           NEW where \in {"BACK", "FRONT"}, AsBarrier(b, fs, elvpriv, where)
    PROVE  BarrierMade(fs)
<1>1. next \in Ids /\ rq \in [Ids -> Request]
    BY SubmitFree DEF IInv, TypeOK
<1>2. PICK R : R = NewRequest(next, b, fs, elvpriv, where)
    OBVIOUS
<1>3. /\ R \in [Ids -> Request] /\ R[next].bios = {next} /\ R[next].fs = fs
      /\ R[next].flags = IF elvpriv THEN {"ELVPRIV"} ELSE {}
      /\ fs => R[next].pos = b.pos /\ R[next].end = b.pos + b.len
      /\ \A x \in Ids \ {next} : R[x] = rq[x]
    BY <1>1, <1>2, NewFields
<1>4. PICK x \in Request : x = R[next]
    BY <1>1, <1>3
<1>5. PICK y : y = [x EXCEPT !.flags = x.flags \cup {"SOFTBARRIER"}]
    OBVIOUS
<1>6. /\ y \in Request /\ y.flags = x.flags \cup {"SOFTBARRIER"} /\ y.bios = x.bios
      /\ y.fs = x.fs /\ y.pos = x.pos /\ y.end = x.end
    BY <1>5 DEF Request, Flags
<1>7. rq' = [R EXCEPT ![next] = y]
    BY <1>2, <1>4, <1>5 DEF AsBarrier
<1>8. /\ rq' \in [Ids -> Request] /\ rq'[next] = y
      /\ \A z \in Ids \ {next} : rq'[z] = rq[z]
  <2>1. /\ next \in Ids /\ R \in [Ids -> Request] /\ y \in Request
        /\ \A z \in Ids \ {next} : R[z] = rq[z]
      BY <1>1, <1>3, <1>6
  <2>2. /\ rq' \in [Ids -> Request] /\ rq'[next] = y
        /\ \A z \in Ids \ {next} : rq'[z] = R[z]
      BY <1>7, <2>1
  <2> QED
      BY <2>1, <2>2
<1>9. /\ rq'[next].bios = {next} /\ rq'[next].fs = fs
      /\ rq'[next].flags = (IF elvpriv THEN {"ELVPRIV"} ELSE {}) \cup {"SOFTBARRIER"}
      /\ rq'[next].fs => rq'[next].pos = b.pos /\ rq'[next].end = b.pos + b.len
    BY <1>3, <1>4, <1>6, <1>8
<1>10. /\ Barrier(rq'[next]) /\ "SORTED" \notin rq'[next].flags
       /\ "STARTED" \notin rq'[next].flags
    BY <1>9 DEF Barrier
<1>11. BiosOnce(rq', next + 1, served, failed) /\ SectorsOnce(rq')
    BY <1>8, <1>9, NewData
<1> QED
    BY <1>8, <1>9, <1>10, <1>11 DEF BarrierMade

\* A barrier to the back: the scheduler will be drained.
LEMMA AddBackStep ==
    ASSUME IInv, NEW b \in Bios, AddBack(b)
    PROVE  IInv'
<1>1. PICK fs \in BOOLEAN, elvpriv \in Privileged :
         /\ MaySubmit(b)
         /\ rq' = [NewRequest(next, b, fs, elvpriv, "BACK")
                      EXCEPT ![next].flags = @ \cup {"SOFTBARRIER"}]
         /\ pc' = "drain" /\ cur' = next /\ next' = next + 1
         /\ UNCHANGED <<merges, sched, queue_head, boundary, driver>>
    BY DEF AddBack
<1>2. elvpriv \in BOOLEAN
    BY ElevatorAssumption
<1>3. /\ rq' \in [Ids -> Request] /\ rq'[next].bios = {next}
      /\ Barrier(rq'[next]) /\ "SORTED" \notin rq'[next].flags
      /\ \A x \in Ids \ {next} : rq'[x] = rq[x]
      /\ BiosOnce(rq', next + 1, served, failed) /\ SectorsOnce(rq')
  <2>1. PICK w \in {"BACK", "FRONT"} : w = "BACK"
      OBVIOUS
  <2>2. AsBarrier(b, fs, elvpriv, w)
      BY <1>1, <2>1 DEF AsBarrier
  <2>3. BarrierMade(fs)
      BY <1>1, <1>2, <2>2, NewBarrier
  <2> QED
      BY <2>3 DEF BarrierMade
<1>4. /\ next \in Ids /\ pc = "free" /\ cur = NULL /\ Loose = {}
      /\ \A x \in Ids : rq[x].bios # {} <=> x \in Held \cup Dispatched \cup active
    BY <1>1, SubmitFree, NothingLoose
<1>5. /\ next \notin Held \cup Dispatched \cup active /\ next # NULL
      /\ Held \subseteq Ids /\ Dispatched \subseteq Ids /\ active \subseteq Ids
    BY <1>4, Unused, Pending
<1>6. next + 1 \in 1..(MaxRequests + 1)
    BY <1>4, ElevatorAssumption DEF Ids
<1>7. \A x \in Held \cup Dispatched \cup active : rq'[x] = rq[x]
    BY <1>3, <1>5
<1>8. Held' = Held /\ Dispatched' = Dispatched /\ active' = active
    BY <1>1 DEF Held, Dispatched, driver, sched
<1>9. TypeOK'
    BY <1>1, <1>3, <1>4, <1>6 DEF IInv, TypeOK, boundary, driver, sched
<1>10. DataInv'
    BY <1>1, <1>3 DEF DataInv, driver
<1>11. Loose' = {next}
    BY <1>1, <1>3, <1>5 DEF Loose
<1>12. PlacesInv'
  <2>1. Live' = Held \cup Dispatched \cup active \cup {next}
      BY <1>3, <1>4, <1>5 DEF Live
  <2>2. /\ \A x \in Held : "SORTED" \in rq'[x].flags /\ rq'[x].fs
        /\ \A x \in active : "STARTED" \in rq'[x].flags
      BY <1>7 DEF IInv, PlacesInv
  <2>3. queue' = queue /\ queue_head' = queue_head
      BY <1>1 DEF sched
  <2> QED
      BY <1>5, <1>8, <1>11, <2>1, <2>2, <2>3 DEF IInv, PlacesInv
<1>13. LockInv'
    BY <1>1, <1>3, <1>5, <1>11 DEF LockInv
<1>14. BookInv'
    BY <1>1, <1>7, BookFrame
<1>15. DriverInv'
    BY <1>1, <1>4, <1>7, DriverFrame
<1> QED
    BY <1>9, <1>10, <1>12, <1>13, <1>14, <1>15 DEF IInv, DataInv, BookInv, DriverInv

\* The barrier goes behind what was drained.
LEMMA DrainDoneStep ==
    ASSUME IInv, DrainDone
    PROVE  IInv'
<1>1. /\ pc = "drain" /\ queue_head' = Append(queue_head, cur)
      /\ pc' = "free" /\ cur' = NULL
      /\ UNCHANGED <<merges, rq, next, sched, boundary, driver>>
    BY DEF DrainDone
<1>2. cur \in Loose /\ Barrier(rq[cur]) /\ Loose = {cur}
    BY <1>1 DEF IInv, LockInv, Loose
<1>3. /\ cur \in Ids /\ cur \notin Held \cup Dispatched \cup active
      /\ queue_head \in Seq(Ids) /\ IsInjective(queue_head) /\ cur \notin ToSet(queue_head)
      /\ Len(queue_head) \in Nat
    BY <1>2, Pending, ListedAt DEF IInv, TypeOK, PlacesInv, Dispatched
<1>4. /\ queue_head' \in Seq(Ids) /\ Len(queue_head') = Len(queue_head) + 1
      /\ Dispatched' = Dispatched \cup {cur} /\ IsInjective(queue_head')
      /\ queue_head'[Len(queue_head')] = cur
  <2>1. /\ Append(queue_head, cur) \in Seq(Ids)
        /\ Len(Append(queue_head, cur)) = Len(queue_head) + 1
        /\ ToSet(Append(queue_head, cur)) = ToSet(queue_head) \cup {cur}
        /\ IsInjective(Append(queue_head, cur))
      BY <1>3, AppendMembers
  <2>2. Append(queue_head, cur)[Len(queue_head) + 1] = cur
      BY <1>3, AppendProperties
  <2> QED
      BY <1>1, <2>1, <2>2 DEF Dispatched
<1>5. Held' = Held /\ active' = active /\ Live' = Live /\ Loose' = {}
    BY <1>1 DEF Held, sched, driver, Live, Loose
<1>6. TypeOK'
    BY <1>1, <1>4 DEF IInv, TypeOK, sched, boundary, driver
<1>7. DataInv'
    BY <1>1 DEF IInv, DataInv, driver
<1>8. PlacesInv'
  <2>1. IsInjective(queue')
      BY <1>1 DEF IInv, PlacesInv, sched
  <2> QED
      BY <1>1, <1>2, <1>3, <1>4, <1>5, <2>1 DEF IInv, PlacesInv
<1>9. LockInv'
    BY <1>1 DEF LockInv
<1>10. BookInv'
    BY <1>1, BookFrame
<1>11. InFlightExact'
    BY <1>1 DEF IInv, InFlightExact, driver
<1>12. BoundaryInv'
    BY <1>1, <1>4 DEF IInv, BoundaryInv, boundary
<1>13. SweepInv'
  <2>1. ASSUME NEW i \in Int, i <= Len(queue_head')
        PROVE  ~NoBarrierFrom(i)'
    <3>1. Len(queue_head') \in i..Len(queue_head')
        BY <1>3, <1>4, <2>1
    <3> QED
        BY <1>1, <1>2, <1>4, <3>1 DEF NoBarrierFrom
  <2>2. \A i \in 2..Len(queue_head') : ~NoBarrierFrom(i - 1)'
      BY <1>3, <1>4, <2>1
  <2>3. \A i \in 1..(Len(queue_head') - 1) : ~NoBarrierFrom(i)'
      BY <1>3, <1>4, <2>1
  <2> QED
      BY <2>2, <2>3 DEF SweepInv, LastGroupSweeps
<1> QED
    BY <1>6, <1>7, <1>8, <1>9, <1>10, <1>11, <1>12, <1>13
       DEF IInv, DataInv, BookInv, DriverInv

\* A list that begins with a barrier, and has at most one request behind the last.
LEMMA SweepPrepend ==
    ASSUME IInv, pc = "free", NEW r \in Ids, r \notin Dispatched, Barrier(rq'[r]),
           \A x \in Dispatched : rq'[x] = rq[x], queue_head' = AtHead(r)
    PROVE  /\ queue_head' \in Seq(Ids) /\ IsInjective(queue_head')
           /\ Dispatched' = Dispatched \cup {r}
           /\ SweepInv'
<1>1. /\ queue_head \in Seq(Ids) /\ IsInjective(queue_head) /\ r \notin ToSet(queue_head)
      /\ Len(queue_head) \in Nat /\ \A i \in 1..Len(queue_head) : queue_head[i] \in Dispatched
    BY ListedAt DEF IInv, TypeOK, PlacesInv, Dispatched
<1>2. queue_head' = Cons(r, queue_head)
    BY DEF AtHead
<1>3. /\ queue_head' \in Seq(Ids) /\ Len(queue_head') = Len(queue_head) + 1
      /\ queue_head'[1] = r
      /\ \A i \in 1..Len(queue_head) : queue_head'[i + 1] = queue_head[i]
      /\ ToSet(queue_head') = ToSet(queue_head) \cup {r} /\ IsInjective(queue_head')
  <2>1. PICK D \in Seq(Ids) : D = queue_head
      BY <1>1
  <2>2. PICK E : E = Cons(r, D)
      OBVIOUS
  <2>3. Prepended(Ids, D, r, E)
      BY <2>1, <2>2, PrependMembers
  <2>4. queue_head' = E
      BY <1>2, <2>1, <2>2
  <2> QED
      BY <1>1, <2>1, <2>3, <2>4 DEF Prepended
<1>4. ASSUME NEW i \in 1..Len(queue_head)
      PROVE  ~NoBarrierFrom(i)'
  <2>1. CASE i = 1
    <3>1. 1 \in i..Len(queue_head')
        BY <1>1, <1>3, <2>1
    <3> QED
        BY <1>3, <3>1 DEF NoBarrierFrom
  <2>2. CASE i # 1
    <3>1. PICK j \in 1..(Len(queue_head) - 1) : i = j + 1
        BY <1>1, <2>2
    <3>2. ~NoBarrierFrom(j)
        BY DEF IInv, SweepInv
    <3>3. PICK k \in j..Len(queue_head) : Barrier(rq[queue_head[k]])
        BY <3>2 DEF NoBarrierFrom
    <3>4. k \in 1..Len(queue_head) /\ k + 1 \in i..Len(queue_head')
        BY <1>1, <1>3, <3>1, <3>3
    <3>5. Barrier(rq'[queue_head'[k + 1]])
        BY <1>1, <1>3, <3>3, <3>4
    <3> QED
        BY <3>4, <3>5 DEF NoBarrierFrom
  <2> QED
      BY <2>1, <2>2
<1>5. /\ \A i \in 2..Len(queue_head') : ~NoBarrierFrom(i - 1)'
      /\ \A i \in 1..(Len(queue_head') - 1) : ~NoBarrierFrom(i)'
    BY <1>1, <1>3, <1>4
<1>6. SweepInv'
    BY <1>5 DEF SweepInv, LastGroupSweeps
<1> QED
    BY <1>3, <1>6 DEF Dispatched

\* A command goes to the front.
LEMMA AddFrontStep ==
    ASSUME IInv, NEW b \in Bios, AddFront(b)
    PROVE  IInv'
<1>1. /\ MaySubmit(b)
      /\ rq' = [NewRequest(next, b, FALSE, TRUE, "FRONT")
                   EXCEPT ![next].flags = @ \cup {"SOFTBARRIER"}]
      /\ queue_head' = AtHead(next) /\ next' = next + 1
      /\ UNCHANGED <<pc, merges, sched, boundary, cur, driver>>
    BY DEF AddFront
<1>2. /\ rq' \in [Ids -> Request] /\ rq'[next].bios = {next}
      /\ Barrier(rq'[next])
      /\ \A x \in Ids \ {next} : rq'[x] = rq[x]
      /\ BiosOnce(rq', next + 1, served, failed) /\ SectorsOnce(rq')
  <2>1. PICK w \in {"BACK", "FRONT"}, f \in BOOLEAN, t \in BOOLEAN : w = "FRONT" /\ f = FALSE /\ t = TRUE
      OBVIOUS
  <2>2. AsBarrier(b, f, t, w)
      BY <1>1, <2>1 DEF AsBarrier
  <2>3. BarrierMade(f)
      BY <1>1, <2>2, NewBarrier
  <2> QED
      BY <2>3 DEF BarrierMade
<1>3. /\ next \in Ids /\ pc = "free" /\ cur = NULL /\ Loose = {}
      /\ \A x \in Ids : rq[x].bios # {} <=> x \in Held \cup Dispatched \cup active
    BY <1>1, SubmitFree, NothingLoose
<1>4. /\ next \notin Held \cup Dispatched \cup active
      /\ Held \subseteq Ids /\ Dispatched \subseteq Ids /\ active \subseteq Ids
    BY <1>3, Unused, Pending
<1>5. next + 1 \in 1..(MaxRequests + 1)
    BY <1>3, ElevatorAssumption DEF Ids
<1>6. \A x \in Held \cup Dispatched \cup active : rq'[x] = rq[x]
    BY <1>2, <1>4
<1>7. /\ queue_head' \in Seq(Ids) /\ IsInjective(queue_head')
      /\ Dispatched' = Dispatched \cup {next} /\ SweepInv'
    BY <1>1, <1>2, <1>3, <1>4, <1>6, SweepPrepend
<1>8. Held' = Held /\ active' = active /\ Loose' = {}
    BY <1>1, <1>3 DEF Held, driver, sched, Loose
<1>9. TypeOK'
    BY <1>1, <1>2, <1>5, <1>7 DEF IInv, TypeOK, boundary, driver, sched
<1>10. DataInv'
    BY <1>1, <1>2 DEF DataInv, driver
<1>11. PlacesInv'
  <2>1. Live' = Held \cup Dispatched \cup active \cup {next}
      BY <1>2, <1>3, <1>4 DEF Live
  <2>2. /\ \A x \in Held : "SORTED" \in rq'[x].flags /\ rq'[x].fs
        /\ \A x \in active : "STARTED" \in rq'[x].flags
      BY <1>6 DEF IInv, PlacesInv
  <2>3. queue' = queue
      BY <1>1 DEF sched
  <2> QED
      BY <1>4, <1>7, <1>8, <2>1, <2>2, <2>3 DEF IInv, PlacesInv
<1>12. LockInv'
    BY <1>1, <1>3 DEF LockInv
<1>13. BookInv'
    BY <1>1, <1>6, BookFrame
<1>14. InFlightExact'
  <2>1. {x \in active : rq'[x].fs} = {x \in active : rq[x].fs}
      BY <1>6
  <2> QED
      BY <1>1, <2>1 DEF IInv, InFlightExact, driver
<1>15. BoundaryInv'
    BY <1>1, <1>6, <1>7 DEF IInv, BoundaryInv, boundary
<1> QED
    BY <1>7, <1>9, <1>10, <1>11, <1>12, <1>13, <1>14, <1>15
       DEF IInv, DataInv, BookInv, DriverInv

-----------------------------------------------------------------------------
(* The driver's side *)

\* The scheduler is asked for a request, or drained.
LEMMA FetchStep ==
    ASSUME IInv, Fetch
    PROVE  IInv'
BY Dispatching DEF Fetch

LEMMA DrainOneStep ==
    ASSUME IInv, DrainOne
    PROVE  IInv'
BY Dispatching DEF DrainOne

\* The flags of r change, and perhaps where it was inserted.
LEMMA Reflagged ==
    ASSUME IInv, NEW r \in Ids, NEW f \in SUBSET Flags, NEW w \in {"SORT", "BACK", "FRONT"},
           rq' = [rq EXCEPT ![r] = [rq[r] EXCEPT !.flags = f, !.where = w]],
           UNCHANGED <<next, served, failed>>
    PROVE  /\ rq' \in [Ids -> Request] /\ rq'[r].flags = f
           /\ \A x \in Ids \ {r} : rq'[x] = rq[x]
           /\ \A x \in Ids : /\ rq'[x].bios = rq[x].bios /\ rq'[x].fs = rq[x].fs
                             /\ rq'[x].end = rq[x].end
           /\ DataInv' /\ Live' = Live
<1>1. rq \in [Ids -> Request]
    BY DEF IInv, TypeOK
<1>2. PICK x \in Request : x = rq[r]
    BY <1>1
<1>3. PICK y : y = [x EXCEPT !.flags = f, !.where = w]
    OBVIOUS
<1>4. /\ y \in Request /\ y.flags = f /\ y.bios = x.bios /\ y.fs = x.fs
      /\ y.pos = x.pos /\ y.end = x.end
    BY <1>3 DEF Request
<1>5. rq' = [rq EXCEPT ![r] = y]
    BY <1>2, <1>3
<1>6. rq' \in [Ids -> Request] /\ rq'[r] = y /\ \A z \in Ids \ {r} : rq'[z] = rq[z]
    BY <1>1, <1>4, <1>5
<1>7. \A z \in Ids : /\ rq'[z].bios = rq[z].bios /\ rq'[z].fs = rq[z].fs
                     /\ rq'[z].pos = rq[z].pos /\ rq'[z].end = rq[z].end
    BY <1>2, <1>4, <1>6
<1>8. BiosOnce(rq', next, served, failed)
    BY <1>7 DEF IInv, BiosOnce
<1>9. SectorsOnce(rq')
  <2>1. SectorsOnce(rq)
      BY DEF IInv
  <2>2. \A z \in Ids : Extent(rq'[z]) =>
           Extent(rq[z]) /\ rq'[z].pos = rq[z].pos /\ rq'[z].end = rq[z].end
      BY <1>7 DEF Extent
  <2> QED
      BY <2>1, <2>2, FewerSectors
<1> QED
    BY <1>4, <1>6, <1>7, <1>8, <1>9 DEF DataInv, Live

\* No barrier leaves the dispatch list.
LEMMA BarriersStay ==
    ASSUME IInv, pc = "free", UNCHANGED queue_head,
           \A x \in Dispatched : Barrier(rq[x]) => Barrier(rq'[x])
    PROVE  SweepInv'
<1>1. /\ Len(queue_head) \in Nat /\ \A i \in 1..Len(queue_head) : queue_head[i] \in Dispatched
    BY ListedAt DEF IInv, TypeOK, Dispatched
<1>2. ASSUME NEW i \in 1..(Len(queue_head) - 1)
      PROVE  ~NoBarrierFrom(i)'
  <2>1. ~NoBarrierFrom(i)
      BY DEF IInv, SweepInv
  <2>2. PICK k \in i..Len(queue_head) : Barrier(rq[queue_head[k]])
      BY <2>1 DEF NoBarrierFrom
  <2>3. k \in 1..Len(queue_head)
      BY <1>1
  <2>4. Barrier(rq'[queue_head[k]])
      BY <1>1, <2>2, <2>3
  <2> QED
      BY <2>4 DEF NoBarrierFrom
<1>3. \A i \in 2..Len(queue_head) : ~NoBarrierFrom(i - 1)'
    BY <1>1, <1>2
<1> QED
    BY <1>2, <1>3 DEF SweepInv, LastGroupSweeps

\* The driver is shown the first request.
LEMMA PeekStep ==
    ASSUME IInv, Peek
    PROVE  IInv'
<1>1. PICK r : r = Head(queue_head)
    OBVIOUS
<1>2. /\ pc = "free" /\ queue_head # <<>>
      /\ rq' = [rq EXCEPT ![r].flags = @ \cup {"STARTED"}]
      /\ PassBoundary(r)
      /\ UNCHANGED <<pc, merges, next, sched, queue_head, cur, driver>>
    BY <1>1 DEF Peek
<1>3. r \in Ids /\ r \in Dispatched /\ r \notin Held /\ r \notin active
  <2>1. queue_head \in Seq(Ids) /\ IsInjective(queue_head)
      BY DEF IInv, TypeOK, PlacesInv
  <2>2. r \in Ids /\ r \in ToSet(queue_head)
      BY <1>1, <1>2, <2>1, TailMembers
  <2> QED
      BY <2>2 DEF Dispatched, IInv, PlacesInv
<1>4. PICK x \in Request : x = rq[r]
    BY <1>3 DEF IInv, TypeOK
<1>5. PICK f \in SUBSET Flags, w \in {"SORT", "BACK", "FRONT"} :
         f = x.flags \cup {"STARTED"} /\ w = x.where
    BY RequestFields DEF Flags
<1>6. rq' = [rq EXCEPT ![r] = [rq[r] EXCEPT !.flags = f, !.where = w]]
  <2>1. [x EXCEPT !.flags = x.flags \cup {"STARTED"}] = [x EXCEPT !.flags = f, !.where = w]
      BY <1>5 DEF Request
  <2>2. rq' = [rq EXCEPT ![r] = [x EXCEPT !.flags = x.flags \cup {"STARTED"}]]
      BY <1>2, <1>4
  <2> QED
      BY <1>4, <2>1, <2>2
<1>7. UNCHANGED <<next, served, failed>>
    BY <1>2 DEF driver
<1>8. /\ rq' \in [Ids -> Request] /\ rq'[r].flags = f
      /\ \A z \in Ids \ {r} : rq'[z] = rq[z]
      /\ \A z \in Ids : /\ rq'[z].bios = rq[z].bios /\ rq'[z].fs = rq[z].fs
                        /\ rq'[z].end = rq[z].end
      /\ DataInv' /\ Live' = Live
    BY <1>3, <1>6, <1>7, Reflagged
<1>9. /\ Held' = Held /\ Dispatched' = Dispatched /\ active' = active
      /\ Held \subseteq Ids /\ Dispatched \subseteq Ids /\ active \subseteq Ids
    BY <1>2, Pending DEF Held, Dispatched, driver, sched
<1>10. cur = NULL /\ Loose = {} /\ Loose' = {}
    BY <1>2, NothingLoose DEF Loose
<1>11. \/ end_sector' = rq[r].end /\ boundary_rq' = NULL
       \/ UNCHANGED boundary /\ boundary_rq # r
    BY <1>2 DEF PassBoundary
<1>12. TypeOK'
  <2>1. end_sector' \in Nat /\ boundary_rq' \in Ids \cup {NULL}
      BY <1>4, <1>11, RequestFields DEF IInv, TypeOK, boundary
  <2> QED
      BY <1>2, <1>8, <2>1 DEF IInv, TypeOK, driver, sched
<1>13. PlacesInv'
  <2>1. /\ \A z \in Held : "SORTED" \in rq'[z].flags /\ rq'[z].fs
        /\ \A z \in active : "STARTED" \in rq'[z].flags
      BY <1>3, <1>8, <1>9 DEF IInv, PlacesInv
  <2>2. queue' = queue /\ queue_head' = queue_head
      BY <1>2 DEF sched
  <2> QED
      BY <1>8, <1>9, <1>10, <2>1, <2>2 DEF IInv, PlacesInv
<1>14. LockInv'
    BY <1>2, <1>10 DEF LockInv
<1>15. BookInv'
  <2>1. \A z \in Held : rq'[z] = rq[z]
      BY <1>3, <1>8, <1>9
  <2> QED
      BY <1>2, <2>1, BookFrame
<1>16. InFlightExact'
  <2>1. {z \in active : rq'[z].fs} = {z \in active : rq[z].fs}
      BY <1>8, <1>9
  <2> QED
      BY <1>2, <2>1 DEF IInv, InFlightExact, driver
<1>17. BoundaryInv'
  <2>1. ASSUME ~MayAbort, boundary_rq' # NULL
        PROVE  /\ boundary_rq' \in Dispatched' /\ "STARTED" \notin rq'[boundary_rq'].flags
               /\ end_sector' = rq'[boundary_rq'].end
    <3>1. boundary_rq' = boundary_rq /\ end_sector' = end_sector /\ boundary_rq # r
        BY <1>11, <2>1 DEF boundary
    <3>2. /\ boundary_rq \in Dispatched /\ "STARTED" \notin rq[boundary_rq].flags
          /\ end_sector = rq[boundary_rq].end
        BY <2>1, <3>1 DEF IInv, BoundaryInv
    <3> QED
        BY <1>8, <1>9, <3>1, <3>2
  <2> QED
      BY <2>1 DEF BoundaryInv
<1>18. SweepInv'
  <2>1. ASSUME NEW z \in Dispatched, Barrier(rq[z]) PROVE Barrier(rq'[z])
    <3>1. z = r \/ rq'[z] = rq[z]
        BY <1>8, <1>9
    <3>2. Barrier(rq'[r])
        BY <1>5, <1>8 DEF Barrier
    <3> QED
        BY <2>1, <3>1, <3>2
  <2> QED
      BY <1>2, <2>1, BarriersStay
<1> QED
    BY <1>8, <1>12, <1>13, <1>14, <1>15, <1>16, <1>17, <1>18 DEF IInv, DataInv, BookInv, DriverInv

\* The first request leaves a list that has at most one behind the last barrier.
LEMMA SweepTail ==
    ASSUME IInv, pc = "free", queue_head # <<>>, UNCHANGED rq, queue_head' = Tail(queue_head)
    PROVE  SweepInv'
<1>1. /\ queue_head \in Seq(Ids) /\ Len(queue_head) \in Nat
    BY ListedAt DEF IInv, TypeOK
<1>2. /\ Len(queue_head') = Len(queue_head) - 1
      /\ \A i \in 1..Len(queue_head') : queue_head'[i] = queue_head[i + 1]
    BY <1>1, HeadTailProperties
<1>3. ASSUME NEW i \in 1..(Len(queue_head') - 1)
      PROVE  ~NoBarrierFrom(i)'
  <2>1. i + 1 \in 1..(Len(queue_head) - 1)
      BY <1>1, <1>2
  <2>2. ~NoBarrierFrom(i + 1)
      BY <2>1 DEF IInv, SweepInv
  <2>3. PICK k \in (i + 1)..Len(queue_head) : Barrier(rq[queue_head[k]])
      BY <2>2 DEF NoBarrierFrom
  <2>4. PICK j \in i..Len(queue_head') : k = j + 1
      BY <1>1, <1>2
  <2>5. j \in 1..Len(queue_head')
      BY <1>1, <1>2
  <2>6. queue_head'[j] = queue_head[k]
      BY <1>2, <2>4, <2>5
  <2> QED
      BY <2>3, <2>4, <2>6 DEF NoBarrierFrom
<1>4. \A i \in 2..Len(queue_head') : ~NoBarrierFrom(i - 1)'
    BY <1>1, <1>2, <1>3
<1> QED
    BY <1>3, <1>4 DEF SweepInv, LastGroupSweeps

\* The requests in flight are finitely many.
LEMMA FlightFinite ==
    ASSUME NEW A, A \subseteq Ids
    PROVE  IsFiniteSet(A) /\ Cardinality(A) \in Nat
<1>1. IsFiniteSet(Ids)
    BY ElevatorAssumption, FS_Interval DEF Ids
<1> QED
    BY <1>1, FS_Subset, FS_CardinalityType

\* The driver takes the first request.
LEMMA DequeueStep ==
    ASSUME IInv, Dequeue
    PROVE  IInv'
<1>1. PICK r : r = Head(queue_head)
    OBVIOUS
<1>2. /\ pc = "free" /\ queue_head # <<>> /\ "STARTED" \in rq[r].flags
      /\ active' = active \cup {r}
      /\ in_flight' = (IF rq[r].fs THEN in_flight + 1 ELSE in_flight)
      /\ queue_head' = Tail(queue_head)
      /\ UNCHANGED <<pc, merges, rq, next, sched, boundary, cur, served, failed, requeues>>
    BY <1>1 DEF Dequeue
<1>3. /\ r \in Ids /\ r \in Dispatched /\ queue_head' \in Seq(Ids) /\ IsInjective(queue_head')
      /\ Dispatched' = Dispatched \ {r}
  <2>1. queue_head \in Seq(Ids) /\ IsInjective(queue_head)
      BY DEF IInv, TypeOK, PlacesInv
  <2>2. /\ r \in Ids /\ r \in ToSet(queue_head) /\ Tail(queue_head) \in Seq(Ids)
        /\ ToSet(Tail(queue_head)) = ToSet(queue_head) \ {r} /\ IsInjective(Tail(queue_head))
      BY <1>1, <1>2, <2>1, TailMembers
  <2> QED
      BY <1>2, <2>2 DEF Dispatched
<1>4. Held' = Held /\ Loose' = Loose /\ Live' = Live
    BY <1>2 DEF Held, sched, Loose, Live
<1>5. r \notin Held /\ r \notin active /\ r \notin Loose /\ active \subseteq Ids
    BY <1>3, Pending DEF IInv, PlacesInv
<1>6. rq[r].fs \in BOOLEAN
    BY <1>3, RequestFields DEF IInv, TypeOK
<1>7. InFlightExact' /\ in_flight' \in Nat
  <2>1. PICK A : A = {x \in active : rq[x].fs}
      OBVIOUS
  <2>2. IsFiniteSet(A) /\ Cardinality(A) \in Nat /\ in_flight = Cardinality(A)
      BY <1>5, <2>1, FlightFinite DEF IInv, InFlightExact
  <2>3. PICK B : B = {x \in active' : rq'[x].fs}
      OBVIOUS
  <2>4. CASE rq[r].fs
    <3>1. B = A \cup {r} /\ r \notin A
        BY <1>2, <1>5, <2>1, <2>3, <2>4
    <3>2. Cardinality(B) = Cardinality(A) + 1
        BY <2>2, <3>1, FS_AddElement
    <3> QED
        BY <1>2, <2>2, <2>3, <2>4, <3>2 DEF InFlightExact
  <2>5. CASE ~rq[r].fs
    <3>1. B = A
        BY <1>2, <1>5, <2>1, <2>3, <2>5
    <3> QED
        BY <1>2, <2>2, <2>3, <2>5, <3>1 DEF InFlightExact
  <2> QED
      BY <2>4, <2>5
<1>8. TypeOK'
    BY <1>2, <1>3, <1>7 DEF IInv, TypeOK, sched, boundary
<1>9. DataInv'
    BY <1>2 DEF IInv, DataInv
<1>10. PlacesInv'
  <2>1. queue' = queue /\ rq' = rq
      BY <1>2 DEF sched
  <2> QED
      BY <1>2, <1>3, <1>4, <1>5, <2>1 DEF IInv, PlacesInv
<1>11. LockInv'
    BY <1>2, <1>4 DEF IInv, LockInv
<1>12. BookInv'
    BY <1>2, BookFrame
<1>13. BoundaryInv'
    BY <1>2, <1>3 DEF IInv, BoundaryInv, boundary
<1>14. SweepInv'
    BY <1>2, SweepTail
<1> QED
    BY <1>7, <1>8, <1>9, <1>10, <1>11, <1>12, <1>13, <1>14 DEF IInv, DataInv, BookInv, DriverInv

\* A request leaves the driver's hands.
LEMMA FlightLess ==
    ASSUME IInv, NEW r \in active, active' = active \ {r}, in_flight' = LeavesFlight(r),
           \A x \in active \ {r} : rq'[x].fs = rq[x].fs
    PROVE  InFlightExact' /\ in_flight' \in Nat
<1>1. active \subseteq Ids /\ "STARTED" \in rq[r].flags
    BY Pending DEF IInv, PlacesInv
<1>2. rq[r].fs \in BOOLEAN
    BY <1>1, RequestFields DEF IInv, TypeOK
<1>3. PICK A : A = {x \in active : rq[x].fs}
    OBVIOUS
<1>4. IsFiniteSet(A) /\ Cardinality(A) \in Nat /\ in_flight = Cardinality(A)
    BY <1>1, <1>3, FlightFinite DEF IInv, InFlightExact
<1>5. PICK B : B = {x \in active' : rq'[x].fs}
    OBVIOUS
<1>6. CASE rq[r].fs
  <2>1. B = A \ {r} /\ r \in A
      BY <1>3, <1>5, <1>6
  <2>2. Cardinality(B) = Cardinality(A) - 1
      BY <1>4, <2>1, FS_RemoveElement
  <2>3. B \subseteq Ids
      BY <1>1, <1>5
  <2>4. Cardinality(B) \in Nat
      BY <2>3, FlightFinite
  <2> QED
      BY <1>1, <1>4, <1>5, <1>6, <2>2, <2>4 DEF LeavesFlight, InFlightExact
<1>7. CASE ~rq[r].fs
  <2>1. B = A
      BY <1>3, <1>5, <1>7
  <2> QED
      BY <1>4, <1>5, <1>7, <2>1 DEF LeavesFlight, InFlightExact
<1> QED
    BY <1>2, <1>6, <1>7

\* A request is completed and freed.
LEMMA CompleteStep ==
    ASSUME IInv, NEW r \in Ids, Complete(r)
    PROVE  IInv'
<1>1. /\ pc = "free" /\ r \in active /\ in_flight' = LeavesFlight(r) /\ active' = active \ {r}
      /\ served' = served \cup rq[r].bios /\ rq' = [rq EXCEPT ![r] = NoRq]
      /\ UNCHANGED <<pc, merges, next, sched, queue_head, boundary, cur, failed, requeues>>
    BY DEF Complete
<1>2. /\ rq \in [Ids -> Request] /\ rq' \in [Ids -> Request] /\ rq'[r] = NoRq
      /\ \A x \in Ids \ {r} : rq'[x] = rq[x]
    BY <1>1, NoRqType DEF IInv, TypeOK
<1>3. rq[r].bios \subseteq Ids /\ rq'[r].bios = {}
    BY <1>2, RequestFields, NoRqType
<1>4. /\ r \notin Held \cup Dispatched /\ active \subseteq Ids /\ Held \subseteq Ids
      /\ Dispatched \subseteq Ids /\ Loose = {} /\ cur = NULL
      /\ \A x \in Ids : rq[x].bios # {} <=> x \in Held \cup Dispatched \cup active
    BY <1>1, Pending, NothingLoose DEF IInv, PlacesInv
<1>5. Held' = Held /\ Dispatched' = Dispatched /\ Loose' = {}
    BY <1>1, <1>4 DEF Held, Dispatched, sched, Loose
<1>6. InFlightExact' /\ in_flight' \in Nat
    BY <1>1, <1>2, <1>4, FlightLess
<1>7. TypeOK'
    BY <1>1, <1>2, <1>3, <1>6 DEF IInv, TypeOK, sched, boundary
<1>8. DataInv'
  <2>1. BiosOnce(rq, next, served, failed) /\ SectorsOnce(rq)
      BY DEF IInv
  <2>2. PICK G : G = {r}
      OBVIOUS
  <2>3. PICK S2 : S2 = served \cup rq[r].bios
      OBVIOUS
  <2>4. S2 \cap failed = {}
      BY <2>1, <2>3 DEF BiosOnce
  <2>5. S2 \cup failed = served \cup failed \cup UNION {rq[x].bios : x \in G \cap Ids}
      BY <2>2, <2>3
  <2>6. \A x \in Ids : rq'[x].bios = IF x \in G THEN {} ELSE rq[x].bios
      BY <1>2, <1>3, <2>2
  <2>7. BiosOnce(rq', next, S2, failed)
      BY <2>1, <2>4, <2>5, <2>6, EndBios
  <2>8. SectorsOnce(rq')
    <3>1. \A x \in Ids : Extent(rq'[x]) => x # r /\ rq'[x] = rq[x]
        BY <1>2, <1>3 DEF Extent
    <3> QED
        BY <2>1, <3>1, FewerSectors
  <2> QED
      BY <1>1, <2>3, <2>7, <2>8 DEF DataInv
<1>9. PlacesInv'
  <2>1. Live' = Held \cup Dispatched \cup active'
      BY <1>1, <1>2, <1>3, <1>4 DEF Live
  <2>2. /\ \A x \in Held : "SORTED" \in rq'[x].flags /\ rq'[x].fs
        /\ \A x \in active' : "STARTED" \in rq'[x].flags
      BY <1>1, <1>2, <1>4 DEF IInv, PlacesInv
  <2>3. queue' = queue /\ queue_head' = queue_head
      BY <1>1 DEF sched
  <2> QED
      BY <1>1, <1>4, <1>5, <2>1, <2>2, <2>3 DEF IInv, PlacesInv
<1>10. LockInv'
    BY <1>1, <1>4 DEF LockInv
<1>11. \A x \in Held \cup Dispatched : rq'[x] = rq[x]
    BY <1>2, <1>4
<1>12. BookInv'
    BY <1>1, <1>11, BookFrame
<1>13. BoundaryInv'
    BY <1>1, <1>5, <1>11 DEF IInv, BoundaryInv, boundary
<1>14. SweepInv'
    BY <1>1, <1>11, BarriersStay
<1> QED
    BY <1>6, <1>7, <1>8, <1>9, <1>10, <1>12, <1>13, <1>14 DEF IInv, DataInv, BookInv, DriverInv

\* A request is handed back: a barrier at the head of the dispatch list.
LEMMA RequeueStep ==
    ASSUME IInv, NEW r \in Ids, Requeue(r)
    PROVE  IInv'
<1>1. /\ pc = "free" /\ r \in active /\ requeues < MaxRequeues
      /\ in_flight' = LeavesFlight(r) /\ active' = active \ {r}
      /\ \/ end_sector' = rq[r].end /\ boundary_rq' = r
         \/ UNCHANGED boundary
      /\ rq' = [rq EXCEPT ![r].flags = (@ \ {"STARTED"}) \cup {"SOFTBARRIER"}, ![r].where = "FRONT"]
      /\ queue_head' = AtHead(r) /\ requeues' = requeues + 1
      /\ UNCHANGED <<pc, merges, next, sched, cur, served, failed>>
    BY DEF Requeue
<1>2. PICK x \in Request : x = rq[r]
    BY DEF IInv, TypeOK
<1>3. PICK f \in SUBSET Flags, w \in {"SORT", "BACK", "FRONT"} :
         f = (x.flags \ {"STARTED"}) \cup {"SOFTBARRIER"} /\ w = "FRONT"
    BY RequestFields DEF Flags
<1>4. rq' = [rq EXCEPT ![r] = [rq[r] EXCEPT !.flags = f, !.where = w]]
  <2>1. rq \in [Ids -> Request]
      BY DEF IInv, TypeOK
  <2>2. rq' = [rq EXCEPT ![r] = [x EXCEPT !.flags = f, !.where = w]]
      BY <1>1, <1>2, <1>3, <2>1
  <2> QED
      BY <1>2, <2>2
<1>5. UNCHANGED <<next, served, failed>>
    BY <1>1
<1>6. /\ rq' \in [Ids -> Request] /\ rq'[r].flags = f
      /\ \A z \in Ids \ {r} : rq'[z] = rq[z]
      /\ \A z \in Ids : /\ rq'[z].bios = rq[z].bios /\ rq'[z].fs = rq[z].fs
                        /\ rq'[z].end = rq[z].end
      /\ DataInv' /\ Live' = Live
    BY <1>4, <1>5, Reflagged
<1>7. Barrier(rq'[r]) /\ "STARTED" \notin rq'[r].flags
    BY <1>3, <1>6 DEF Barrier
<1>8. /\ r \notin Held /\ r \notin Dispatched /\ active \subseteq Ids /\ Held \subseteq Ids
      /\ Dispatched \subseteq Ids /\ Loose = {} /\ cur = NULL
    BY <1>1, Pending, NothingLoose DEF IInv, PlacesInv
<1>9. \A z \in Held \cup Dispatched \cup (active \ {r}) : rq'[z] = rq[z]
    BY <1>6, <1>8
<1>10. /\ queue_head' \in Seq(Ids) /\ IsInjective(queue_head')
       /\ Dispatched' = Dispatched \cup {r} /\ SweepInv'
    BY <1>1, <1>7, <1>8, <1>9, SweepPrepend
<1>11. Held' = Held /\ Loose' = {}
    BY <1>1, <1>8 DEF Held, sched, Loose
<1>12. InFlightExact' /\ in_flight' \in Nat
    BY <1>1, <1>9, FlightLess
<1>13. TypeOK'
  <2>1. end_sector' \in Nat /\ boundary_rq' \in Ids \cup {NULL}
      BY <1>1, <1>2, RequestFields DEF IInv, TypeOK, boundary
  <2>2. requeues' \in 0..MaxRequeues
      BY <1>1, ElevatorAssumption DEF IInv, TypeOK
  <2> QED
      BY <1>1, <1>6, <1>10, <1>12, <2>1, <2>2 DEF IInv, TypeOK, sched
<1>14. PlacesInv'
  <2>1. /\ \A z \in Held : "SORTED" \in rq'[z].flags /\ rq'[z].fs
        /\ \A z \in active' : "STARTED" \in rq'[z].flags
      BY <1>1, <1>9 DEF IInv, PlacesInv
  <2>2. queue' = queue
      BY <1>1 DEF sched
  <2> QED
      BY <1>1, <1>6, <1>8, <1>10, <1>11, <2>1, <2>2 DEF IInv, PlacesInv
<1>15. LockInv'
    BY <1>1, <1>8 DEF LockInv
<1>16. BookInv'
    BY <1>1, <1>9, BookFrame
<1>17. BoundaryInv'
  <2>1. CASE end_sector' = rq[r].end /\ boundary_rq' = r
      BY <1>6, <1>7, <1>10, <2>1 DEF BoundaryInv
  <2>2. CASE UNCHANGED boundary
      BY <1>9, <1>10, <2>2 DEF IInv, BoundaryInv, boundary
  <2> QED
      BY <1>1, <2>1, <2>2
<1> QED
    BY <1>6, <1>10, <1>12, <1>13, <1>14, <1>15, <1>16, <1>17 DEF IInv, DataInv, BookInv, DriverInv

\* The dispatch list fails.
LEMMA AbortStep ==
    ASSUME IInv, AbortQueue
    PROVE  IInv'
<1>1. /\ MayAbort /\ pc = "free"
      /\ failed' = failed \cup UNION {rq[r].bios : r \in Dispatched}
      /\ rq' = [r \in Ids |-> IF r \in Dispatched THEN NoRq ELSE rq[r]]
      /\ queue_head' = <<>>
      /\ UNCHANGED <<pc, merges, next, sched, boundary, cur, in_flight, active, served, requeues>>
    BY DEF AbortQueue
<1>2. /\ rq \in [Ids -> Request] /\ rq' \in [Ids -> Request]
      /\ \A r \in Ids : rq'[r] = IF r \in Dispatched THEN NoRq ELSE rq[r]
    BY <1>1, NoRqType DEF IInv, TypeOK
<1>3. /\ active \subseteq Ids /\ Held \subseteq Ids /\ Dispatched \subseteq Ids /\ Loose = {}
      /\ cur = NULL
      /\ \A x \in Ids : rq[x].bios # {} <=> x \in Held \cup Dispatched \cup active
      /\ Held \cap Dispatched = {} /\ Dispatched \cap active = {}
    BY <1>1, Pending, NothingLoose DEF IInv, PlacesInv
<1>4. queue_head' \in Seq(Ids) /\ IsInjective(queue_head') /\ Dispatched' = {} /\ Len(queue_head') = 0
    BY <1>1 DEF Dispatched, ToSet, IsInjective
<1>5. Held' = Held /\ Loose' = {}
    BY <1>1, <1>3 DEF Held, sched, Loose
<1>6. \A x \in Held \cup active : rq'[x] = rq[x]
    BY <1>2, <1>3
<1>7. \A x \in Ids : rq'[x].bios = IF x \in Dispatched THEN {} ELSE rq[x].bios
    BY <1>2, NoRqType
<1>8. failed' \subseteq Ids
    BY <1>1, <1>2, <1>3, RequestFields DEF IInv, TypeOK
<1>9. TypeOK'
    BY <1>1, <1>2, <1>4, <1>8 DEF IInv, TypeOK, sched, boundary
<1>10. DataInv'
  <2>1. BiosOnce(rq, next, served, failed) /\ SectorsOnce(rq)
      BY DEF IInv
  <2>2. PICK F2 : F2 = failed \cup UNION {rq[r].bios : r \in Dispatched}
      OBVIOUS
  <2>3. served \cap F2 = {}
      BY <1>3, <2>1, <2>2 DEF BiosOnce
  <2>4. Dispatched \cap Ids = Dispatched
      BY <1>3
  <2>5. served \cup F2 = served \cup failed \cup UNION {rq[x].bios : x \in Dispatched \cap Ids}
      BY <2>2, <2>4
  <2>6. BiosOnce(rq', next, served, F2)
      BY <1>7, <2>1, <2>3, <2>5, EndBios
  <2>7. SectorsOnce(rq')
    <3>1. \A x \in Ids : Extent(rq'[x]) => rq'[x] = rq[x]
        BY <1>2, <1>7 DEF Extent
    <3> QED
        BY <2>1, <3>1, FewerSectors
  <2> QED
      BY <1>1, <2>2, <2>6, <2>7 DEF DataInv
<1>11. PlacesInv'
  <2>1. Live' = Held \cup active
      BY <1>3, <1>7 DEF Live
  <2>2. /\ \A x \in Held : "SORTED" \in rq'[x].flags /\ rq'[x].fs
        /\ \A x \in active : "STARTED" \in rq'[x].flags
      BY <1>6 DEF IInv, PlacesInv
  <2>3. queue' = queue /\ active' = active
      BY <1>1 DEF sched
  <2> QED
      BY <1>4, <1>5, <2>1, <2>2, <2>3 DEF IInv, PlacesInv
<1>12. LockInv'
    BY <1>1, <1>3 DEF LockInv
<1>13. BookInv'
    BY <1>1, <1>6, BookFrame
<1>14. InFlightExact'
  <2>1. {x \in active : rq'[x].fs} = {x \in active : rq[x].fs}
      BY <1>6
  <2> QED
      BY <1>1, <2>1 DEF IInv, InFlightExact
<1>15. BoundaryInv'
    BY <1>1 DEF BoundaryInv
<1>16. SweepInv'
  <2>1. (\A i : i \notin 1..(Len(queue_head') - 1)) /\ \A i : i \notin 2..Len(queue_head')
      BY <1>4
  <2> QED
      BY <2>1 DEF SweepInv, LastGroupSweeps
<1> QED
    BY <1>9, <1>10, <1>11, <1>12, <1>13, <1>14, <1>15, <1>16 DEF IInv, DataInv, BookInv, DriverInv

-----------------------------------------------------------------------------
(* The invariant of the specification *)

LEMMA InitIInv == Init => IInv
<1> SUFFICES ASSUME Init PROVE IInv
    OBVIOUS
<1>1. /\ pc = "free" /\ merges \in MergeLevels /\ rq = [r \in Ids |-> NoRq] /\ next = 1
      /\ queue = <<>> /\ queue_head = <<>> /\ hash = [r \in Ids |-> NotHashed]
      /\ nr_sorted = 0 /\ last_merge = NULL /\ end_sector = 0 /\ boundary_rq = NULL
      /\ cur = NULL /\ in_flight = 0 /\ active = {} /\ served = {} /\ failed = {} /\ requeues = 0
    BY DEF Init
<1>2. rq \in [Ids -> Request] /\ \A r \in Ids : rq[r].bios = {}
    BY <1>1, NoRqType
<1>3. /\ Held = {} /\ Dispatched = {} /\ Loose = {} /\ Live = {}
      /\ queue \in Seq(Ids) /\ queue_head \in Seq(Ids)
      /\ IsInjective(queue) /\ IsInjective(queue_head)
      /\ Len(queue) = 0 /\ Len(queue_head) = 0
    BY <1>1, <1>2 DEF Held, Dispatched, Loose, Live, ToSet, IsInjective
<1>4. TypeOK
  <2>1. 1 \in 1..(MaxRequests + 1) /\ 0 \in 0..MaxRequeues
      BY ElevatorAssumption
  <2>2. hash \in [Ids -> Nat \cup {NotHashed}]
      BY <1>1
  <2> QED
      BY <1>1, <1>2, <1>3, <2>1, <2>2 DEF TypeOK
<1>5. BiosOnce(rq, next, served, failed) /\ SectorsOnce(rq)
  <2>1. \A i : i \notin 1..(1 - 1)
      OBVIOUS
  <2> QED
      BY <1>1, <1>2, <2>1 DEF BiosOnce, SectorsOnce, Extent
<1>6. PlacesInv /\ LockInv
    BY <1>1, <1>3 DEF PlacesInv, LockInv
<1>7. NrSortedExact /\ HashMatches /\ LastMergeHeld
    BY <1>1, <1>3 DEF NrSortedExact, HashMatches, LastMergeHeld
<1>8. OrderInv
  <2>1. \A i : i \notin 1..Len(queue)
      BY <1>3
  <2> QED
      BY <2>1 DEF OrderInv, QueueSorted
<1>9. InFlightExact /\ BoundaryInv
  <2>1. {r \in active : rq[r].fs} = {}
      BY <1>1
  <2> QED
      BY <1>1, <2>1, FS_EmptySet DEF InFlightExact, BoundaryInv
<1>10. SweepInv
  <2>1. (\A i : i \notin 1..(Len(queue_head) - 1)) /\ \A i : i \notin 2..Len(queue_head)
      BY <1>3
  <2> QED
      BY <2>1 DEF SweepInv, LastGroupSweeps
<1> QED
    BY <1>4, <1>5, <1>6, <1>7, <1>8, <1>9, <1>10 DEF IInv

LEMMA StutterStep ==
    ASSUME IInv, UNCHANGED vars
    PROVE  IInv'
<1>1. /\ UNCHANGED <<pc, merges, rq, next, queue_head, cur>> /\ UNCHANGED sched
      /\ UNCHANGED boundary /\ UNCHANGED driver
    BY DEF vars
<1>2. /\ Held' = Held /\ Dispatched' = Dispatched /\ active' = active /\ Loose' = Loose
      /\ Live' = Live
    BY <1>1 DEF Held, Dispatched, Loose, Live, sched, driver
<1>3. TypeOK' /\ DataInv'
    BY <1>1 DEF IInv, TypeOK, DataInv, sched, boundary, driver
<1>4. PlacesInv' /\ LockInv'
    BY <1>1, <1>2 DEF IInv, PlacesInv, LockInv, sched
<1>5. BookInv'
    BY <1>1, BookFrame
<1>6. DriverInv'
    BY <1>1, DriverFrame
<1> QED
    BY <1>3, <1>4, <1>5, <1>6 DEF IInv, DataInv, BookInv, DriverInv

LEMMA NextIInv == IInv /\ [Next]_vars => IInv'
<1> SUFFICES ASSUME IInv, [Next]_vars PROVE IInv'
    OBVIOUS
<1>1. CASE \E b \in Bios : Submit(b)
    BY <1>1, MergeBioStep, RefuseMergeStep, AddSortedStep, AddBackStep, AddFrontStep DEF Submit
<1>2. CASE Locked
    BY <1>2, MergeStepStep, MergeDoneStep, DrainOneStep, DrainDoneStep DEF Locked
<1>3. CASE Fetch \/ Peek \/ Dequeue
    BY <1>3, FetchStep, PeekStep, DequeueStep
<1>4. CASE \E r \in Ids : Complete(r) \/ Requeue(r)
    BY <1>4, CompleteStep, RequeueStep
<1>5. CASE AbortQueue
    BY <1>5, AbortStep
<1>6. CASE Idle \/ UNCHANGED vars
    BY <1>6, StutterStep DEF Idle
<1> QED
    BY <1>1, <1>2, <1>3, <1>4, <1>5, <1>6 DEF Next

\* Whatever is submitted, merged, drained, requeued or aborted, in any order, the parts
\* of the invariant hold: requests, lists, hash, cache, counters and boundary agree.
THEOREM SpecIInv == Spec => []IInv
BY InitIInv, NextIInv, PTL DEF Spec

-----------------------------------------------------------------------------
(* What follows from it *)

\* Every variable of the elevator keeps its type: no counter goes below zero, and no
\* pointer leaves the requests (elevator.c 347-671, 755-765).
THEOREM ElevatorTypeCorrect == Spec => []TypeOK
<1>1. IInv => TypeOK
    BY DEF IInv
<1> QED
    BY <1>1, SpecIInv, PTL

\* How often r is in a list where nothing is twice.
LEMMA PositionCount ==
    ASSUME NEW Q \in Seq(Ids), IsInjective(Q), NEW r
    PROVE  Cardinality({i \in 1..Len(Q) : Q[i] = r}) = IF r \in ToSet(Q) THEN 1 ELSE 0
<1>1. \A i, j \in 1..Len(Q) : Q[i] = Q[j] => i = j
    BY DEF IsInjective
<1>2. CASE r \in ToSet(Q)
  <2>1. PICK k \in 1..Len(Q) : Q[k] = r
      BY <1>2, ListedAt
  <2>2. {i \in 1..Len(Q) : Q[i] = r} = {k}
      BY <1>1, <2>1
  <2> QED
      BY <1>2, <2>2, FS_Singleton
<1>3. CASE r \notin ToSet(Q)
  <2>1. {i \in 1..Len(Q) : Q[i] = r} = {}
      BY <1>3, ListedAt
  <2> QED
      BY <1>3, <2>1, FS_EmptySet
<1> QED
    BY <1>2, <1>3

LEMMA IInvKeptOnce == IInv => KeptOnce
<1> SUFFICES ASSUME IInv PROVE KeptOnce
    OBVIOUS
<1>1. ASSUME NEW i \in 1..(next - 1)
      PROVE  Cardinality({r \in Ids : i \in rq[r].bios})
             + (IF i \in served THEN 1 ELSE 0) + (IF i \in failed THEN 1 ELSE 0) = 1
  <2>1. BiosOnce(rq, next, served, failed)
      BY DEF IInv
  <2>2. i \in served \cup failed \/ \E r \in Ids : i \in rq[r].bios
      BY <2>1 DEF BiosOnce
  <2>3. CASE i \in served \cup failed
    <3>1. {r \in Ids : i \in rq[r].bios} = {}
        BY <2>1, <2>3 DEF BiosOnce
    <3>2. Cardinality({r \in Ids : i \in rq[r].bios}) = 0
        BY <3>1, FS_EmptySet
    <3>3. (i \in served /\ i \notin failed) \/ (i \notin served /\ i \in failed)
        BY <2>1, <2>3 DEF BiosOnce
    <3> QED
        BY <3>2, <3>3
  <2>4. CASE \E r \in Ids : i \in rq[r].bios
    <3>1. PICK r \in Ids : i \in rq[r].bios
        BY <2>4
    <3>2. i \notin served \cup failed /\ \A s \in Ids \ {r} : i \notin rq[s].bios
        BY <2>1, <3>1 DEF BiosOnce
    <3>3. {s \in Ids : i \in rq[s].bios} = {r}
        BY <3>1, <3>2
    <3>4. Cardinality({s \in Ids : i \in rq[s].bios}) = 1
        BY <3>3, FS_Singleton
    <3> QED
        BY <3>2, <3>4
  <2> QED
      BY <2>2, <2>3, <2>4
<1>2. ASSUME NEW r \in Ids
      PROVE  Links(r) = IF r \in Live THEN 1 ELSE 0
  <2>1. PICK a : a = Cardinality({i \in 1..Len(queue) : queue[i] = r})
      OBVIOUS
  <2>2. PICK b : b = Cardinality({i \in 1..Len(queue_head) : queue_head[i] = r})
      OBVIOUS
  <2>3. queue \in Seq(Ids) /\ queue_head \in Seq(Ids) /\ IsInjective(queue) /\ IsInjective(queue_head)
      BY DEF IInv, TypeOK, PlacesInv
  <2>4. a = (IF r \in Held THEN 1 ELSE 0)
      BY <2>1, <2>3, PositionCount DEF Held
  <2>5. b = (IF r \in Dispatched THEN 1 ELSE 0)
      BY <2>2, <2>3, PositionCount DEF Dispatched
  <2>6. (r = cur /\ "SORTED" \notin rq[r].flags) <=> r \in Loose
      BY DEF Loose, Ids, NULL
  <2>7. Links(r) = a + b + (IF r \in active THEN 1 ELSE 0) + (IF r \in Loose THEN 1 ELSE 0)
      BY <2>1, <2>2, <2>6 DEF Links
  <2>8. /\ Held \cap Dispatched = {} /\ (Held \cup Dispatched) \cap active = {}
        /\ Loose \cap (Held \cup Dispatched \cup active) = {}
        /\ Live = Held \cup Dispatched \cup active \cup Loose
      BY DEF IInv, PlacesInv
  <2> QED
      BY <2>4, <2>5, <2>7, <2>8
<1> QED
    BY <1>1, <1>2 DEF KeptOnce

\* No submission is lost, carried twice or ended twice, and no request is left out of
\* the lists or linked in two of them (elevator.c 462-543, 568-657).
THEOREM RequestsKeptOnce == Spec => []KeptOnce
BY SpecIInv, IInvKeptOnce, PTL

\* nr_sorted is the length of the scheduler's list, so that the check of
\* elv_drain_elevator never fires (elevator.c 578-591).
THEOREM CounterExact == Spec => []NrSortedExact
<1>1. IInv => NrSortedExact
    BY DEF IInv
<1> QED
    BY <1>1, SpecIInv, PTL

\* The hash knows exactly what can be merged, under the sector it ends at now
\* (elevator.c 245-295, 382, 508, 522-528).
THEOREM HashExact == Spec => []HashMatches
<1>1. IInv => HashMatches
    BY DEF IInv
<1> QED
    BY <1>1, SpecIInv, PTL

\* The one-hit cache names no request that was dispatched, merged away or freed
\* (elevator.c 382, 425, 478).
THEOREM CacheHeld == Spec => []LastMergeHeld
<1>1. IInv => LastMergeHeld
    BY DEF IInv
<1> QED
    BY <1>1, SpecIInv, PTL

\* The records of a request agree, also after an abort and for requests without
\* elevator data (elevator.c 347-797).
THEOREM BooksBalance == Spec => []BooksAgree
<1>1. IInv => BooksAgree
    BY IInvKeptOnce DEF IInv, BooksAgree
<1> QED
    BY <1>1, SpecIInv, PTL

\* in_flight counts what the driver has (elevator.c 557-561, 755-765).
THEOREM InFlightCounts == Spec => []InFlightExact
<1>1. IInv => InFlightExact
    BY DEF IInv
<1> QED
    BY <1>1, SpecIInv, PTL

\* Where no bio touches a pending request, the C-LOOK list stays sorted by end sector
\* through insertions, merges of bios and merges of requests (clook-iosched.c 42-79).
THEOREM StaysSorted ==
    ASSUME Scheduler = "clook", ~MayOverlap
    PROVE  Spec => []QueueSorted
<1>1. IInv => QueueSorted
    BY DEF IInv, OrderInv
<1> QED
    BY <1>1, SpecIInv, PTL

\* Where no abort removes it, a pending boundary request is on the dispatch list, where
\* the driver will see it (elevator.c 602-607 and blk_peek_request).
THEOREM BoundarySeen ==
    ASSUME ~MayAbort
    PROVE  Spec => []BoundaryPending
<1>1. IInv => BoundaryPending
    BY DEF IInv, BoundaryInv, BoundaryPending
<1> QED
    BY <1>1, SpecIInv, PTL

\* What a drain leaves on the dispatch list behind the last barrier is in sweeps that
\* begin at end_sector (elevator.c 363-385, 583).
THEOREM DrainsInSweeps == Spec => DrainSweeps
<1>1. IInv => LastGroupSweeps
    BY DEF IInv, SweepInv
<1> QED
    BY <1>1, SpecIInv, PTL DEF Spec, DrainSweeps

=============================================================================
