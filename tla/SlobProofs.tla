----------------------------- MODULE SlobProofs -----------------------------
(* Proofs about the SLOB allocator.  The lists of free blocks are reasoned    *)
(* about as sets of offsets: ListHeld says what the memory of a page holds.   *)
EXTENDS Slob, SequenceLemmas, FiniteSetTheorems

-----------------------------------------------------------------------------
(* Numbers *)

LEMMA PageFacts ==
    /\ PageUnits \in Nat /\ 1 < PageUnits /\ PAGE_SIZE = SLOB_UNIT * PageUnits
    /\ SLOB_UNIT = 2 /\ SLOB_UNITS(PAGE_SIZE) = PageUnits
<1>1. /\ PAGE_SIZE \in Nat /\ PAGE_SIZE % 2 = 0
      /\ MINALIGN \in Nat /\ MINALIGN % 2 = 0 /\ 0 < MINALIGN /\ MINALIGN < PAGE_SIZE
    BY SizeAssumption DEF SLOB_UNIT
<1>2. PAGE_SIZE > 2
    BY <1>1
<1> QED
    BY <1>1, <1>2 DEF PageUnits, SLOB_UNITS, SLOB_UNIT

LEMMA UnitsOfSize ==
    ASSUME NEW size \in Nat, 0 < size
    PROVE  /\ SLOB_UNITS(size) \in Nat /\ 0 < SLOB_UNITS(size)
           /\ size <= SLOB_UNIT * SLOB_UNITS(size)
           /\ SLOB_UNIT * SLOB_UNITS(size) <= size + 1
           /\ size <= PAGE_SIZE => SLOB_UNITS(size) <= PageUnits
    BY PageFacts DEF SLOB_UNITS, SLOB_UNIT

LEMMA Times ==
    ASSUME NEW a \in Nat, NEW q \in Int, 0 < a
    PROVE  (1 <= q => a <= q * a) /\ (q <= -1 => q * a <= -a)
    OBVIOUS

\* Alignment loses no negative number of units, and none at the start of a page.
LEMMA DeltaNatural ==
    ASSUME NEW s \in Nat, NEW align \in Nat, align % SLOB_UNIT = 0
    PROVE  Delta(s, align) \in Nat /\ Delta(0, align) = 0
<1>1. CASE align = 0
    BY <1>1 DEF Delta
<1>2. CASE align # 0
  <2>1. PICK a \in Nat : a = align \div SLOB_UNIT /\ 0 < a
      BY <1>2 DEF SLOB_UNIT
  <2>2. PICK q \in Int : q = (s + a - 1) \div a
      BY <2>1
  <2>3. q * a > (s + a - 1) - a /\ q * a \in Int
      BY <2>1, <2>2
  <2>4. Delta(s, align) = q * a - s
      BY <1>2, <2>1, <2>2 DEF Delta
  <2>5. PICK r \in Int : r = (0 + a - 1) \div a
      BY <2>1
  <2>6. r * a > -1 /\ r * a <= a - 1 /\ r * a \in Int
      BY <2>1, <2>5
  <2>7. r = 0
      BY <2>1, <2>6, Times
  <2>8. Delta(0, align) = r * a - 0
      BY <1>2, <2>1, <2>5 DEF Delta
  <2> QED
      BY <2>1, <2>3, <2>4, <2>7, <2>8
<1> QED
    BY <1>1, <1>2

-----------------------------------------------------------------------------
(* What set_slob writes and the walks read *)

\* The memory of one page.
Memory == [0..PageUnits - 1 -> Int]

\* n is m with a block of the given size and link written at s, and nothing else.
Written(m, n, s, size, next) ==
    /\ n \in Memory /\ Stored(n, s, size, next)
    /\ \A x \in 0..PageUnits - 1 : x \notin Covers(s, size) => n[x] = m[x]

LEMMA SetSlob ==
    ASSUME NEW m \in Memory, NEW s \in Nat, NEW size \in Nat, NEW next \in Int,
           0 < size, s + size <= PageUnits
    PROVE  Written(m, set_slob(m, s, size, next), s, size, next)
<1>1. CASE size > 1
  <2>1. PICK n : n = [m EXCEPT ![s] = size, ![s + 1] = next]
      OBVIOUS
  <2>2. s \in 0..PageUnits - 1 /\ s + 1 \in 0..PageUnits - 1 /\ s # s + 1
      BY <1>1, PageFacts
  <2>3. n \in Memory /\ n[s] = size /\ n[s + 1] = next
      BY <2>1, <2>2 DEF Memory
  <2>4. \A x \in 0..PageUnits - 1 : x \notin Covers(s, size) => n[x] = m[x]
      BY <1>1, <2>1, <2>2 DEF Memory, Covers
  <2> QED
      BY <1>1, <2>1, <2>3, <2>4 DEF Written, Stored, set_slob
<1>2. CASE ~(size > 1)
  <2>1. PICK n : n = [m EXCEPT ![s] = -next]
      OBVIOUS
  <2>2. s \in 0..PageUnits - 1
      BY PageFacts
  <2>3. n \in Memory /\ n[s] = -next
      BY <2>1, <2>2 DEF Memory
  <2>4. \A x \in 0..PageUnits - 1 : x \notin Covers(s, size) => n[x] = m[x]
      BY <2>1, <2>2 DEF Memory, Covers
  <2> QED
      BY <1>2, <2>1, <2>3, <2>4 DEF Written, Stored, set_slob
<1> QED
    BY <1>1, <1>2

\* A stored block depends on its own units only.
LEMMA StoredFrame ==
    ASSUME NEW m, NEW n, NEW s \in Nat, NEW size \in Nat, NEW next, 0 < size,
           Stored(m, s, size, next),
           \A x \in Covers(s, size) : n[x] = m[x]
    PROVE  Stored(n, s, size, next)
<1>1. s \in Covers(s, size) /\ (size > 1 => s + 1 \in Covers(s, size))
    BY DEF Covers
<1> QED
    BY <1>1 DEF Stored

LEMMA StoredRead ==
    ASSUME NEW m, NEW s \in Nat, NEW size \in Nat, NEW next \in Nat, 0 < size, s < next,
           Stored(m, s, size, next)
    PROVE  slob_units(m, s) = size /\ slob_next(m, s) = next
    BY DEF Stored, slob_units, slob_next

\* The links of a list that a page's memory holds.
LEMMA Reads ==
    ASSUME NEW m, NEW first, NEW F, NEW z, ListHeld(m, first, F, z), NEW s \in F
    PROVE  /\ s \in 0..PageUnits - 1 /\ z[s] \in 1..PageUnits /\ s + z[s] <= PageUnits
           /\ slob_units(m, s) = z[s]
           /\ Follows(F, s, slob_next(m, s)) /\ Stored(m, s, z[s], slob_next(m, s))
           /\ slob_last(m, s) <=> slob_next(m, s) = PageUnits
           /\ slob_next(m, s) \in 1..PageUnits
<1>1. s \in 0..PageUnits - 1 /\ z[s] \in 1..PageUnits /\ s + z[s] <= PageUnits
      /\ F \subseteq 0..PageUnits - 1
    BY DEF ListHeld
<1>2. PICK k \in F \cup {PageUnits} : Follows(F, s, k) /\ Stored(m, s, z[s], k)
    BY DEF ListHeld
<1>3. k \in 1..PageUnits /\ s < k
    BY <1>1, <1>2, PageFacts DEF Follows
<1>4. slob_units(m, s) = z[s] /\ slob_next(m, s) = k
    BY <1>1, <1>2, <1>3, StoredRead
<1>5. k % PageUnits = 0 <=> k = PageUnits
    BY <1>3, PageFacts
<1> QED
    BY <1>1, <1>2, <1>3, <1>4, <1>5 DEF slob_last

\* What a walk over a page's free blocks visits.
Walk(blocks, m, first, F) ==
    /\ blocks \in Seq(F) /\ blocks # <<>> /\ blocks[1] = first /\ ToSet(blocks) = F
    /\ \A i \in 1..Len(blocks) - 1 : slob_next(m, blocks[i]) = blocks[i + 1]
    /\ slob_next(m, blocks[Len(blocks)]) = PageUnits

\* f lists the n blocks that the links from first on lead to.
Linked(f, m, first, n) ==
    f = [k \in 1..n |-> IF k = 1 THEN first ELSE slob_next(m, f[k - 1])]

\* The function that FreeBlocks is cut from exists.
LEMMA BlockExists ==
    ASSUME NEW m, NEW first, NEW n \in Nat
    PROVE  \E f : Linked(f, m, first, n)
<1> DEFINE Block0(f, k) == f = [j \in 1..k |-> IF j = 1 THEN first ELSE slob_next(m, f[j - 1])]
           S == {k \in 0..n : \E f : Block0(f, k)}
<1>1. 0 \in S
  <2>1. PICK f : f = [j \in 1..0 |-> first]
      OBVIOUS
  <2>2. Block0(f, 0)
    <3>1. 1..0 = {}
        OBVIOUS
    <3> QED
        BY <2>1, <3>1
  <2>3. 0 \in 0..n
      OBVIOUS
  <2> QED
      BY <2>2, <2>3
<1>2. ASSUME NEW k \in 1..n, k - 1 \in S PROVE k \in S
  <2>1. PICK f : Block0(f, k - 1)
      BY <1>2
  <2>2. PICK g : g = [j \in 1..k |-> IF j = k
                                     THEN IF k = 1 THEN first ELSE slob_next(m, f[k - 1])
                                     ELSE f[j]]
      OBVIOUS
  <2>3. PICK h : h = [j \in 1..k |-> IF j = 1 THEN first ELSE slob_next(m, g[j - 1])]
      OBVIOUS
  <2>4. ASSUME NEW j \in 1..k PROVE g[j] = h[j]
    <3>1. CASE j = 1
        BY <2>1, <2>2, <2>3, <3>1
    <3>2. CASE j # 1
      <4>1. j - 1 \in 1..k /\ j - 1 # k /\ g[j - 1] = f[j - 1]
          BY <2>2, <3>2
      <4>2. h[j] = slob_next(m, f[j - 1])
          BY <2>3, <3>2, <4>1
      <4>3. g[j] = slob_next(m, f[j - 1])
        <5>1. CASE j = k
            BY <2>2, <3>2, <5>1
        <5>2. CASE j # k
          <6>1. j \in 1..(k - 1)
              BY <5>2
          <6>2. f[j] = slob_next(m, f[j - 1])
              BY <2>1, <3>2, <6>1
          <6> QED
              BY <2>2, <5>2, <6>2
        <5> QED
            BY <5>1, <5>2
      <4> QED
          BY <4>2, <4>3
    <3> QED
        BY <3>1, <3>2
  <2>5. g = h
      BY <2>2, <2>3, <2>4
  <2>6. Block0(g, k)
      BY <2>3, <2>5
  <2> QED
      BY <2>6
<1>3. \A k \in 0..n : k \in S
  <2> HIDE DEF S
  <2> QED
      BY <1>1, <1>2, AllUpTo
<1>4. \E f : Block0(f, n)
  <2>1. n \in S
      BY <1>3
  <2> QED
      BY <2>1
<1> QED
    BY <1>4 DEF Linked

LEMMA Listing ==
    ASSUME NEW m, NEW first, NEW F, NEW z, ListHeld(m, first, F, z)
    PROVE  Walk(FreeBlocks(m, first), m, first, F)
<1> DEFINE block[k \in 1..PageUnits] == IF k = 1 THEN first ELSE slob_next(m, block[k - 1])
           Ends(k) == slob_last(m, block[k]) /\ \A j \in 1..k - 1 : ~slob_last(m, block[j])
           last == CHOOSE k \in 1..PageUnits : Ends(k)
           blocks == [k \in 1..last |-> block[k]]
<1>1. block = [k \in 1..PageUnits |-> IF k = 1 THEN first ELSE slob_next(m, block[k - 1])]
  <2>1. \E f : f = [k \in 1..PageUnits |-> IF k = 1 THEN first ELSE slob_next(m, f[k - 1])]
    <3>1. \E f : Linked(f, m, first, PageUnits)
        BY PageFacts, BlockExists
    <3> QED
        BY <3>1 DEF Linked
  <2> QED
      BY <2>1
<1>2. blocks = FreeBlocks(m, first)
    BY DEF FreeBlocks
<1> HIDE DEF block
<1>3. block[1] = first /\ \A k \in 2..PageUnits : block[k] = slob_next(m, block[k - 1])
    BY <1>1, PageFacts
<1>4. F \subseteq 0..PageUnits - 1 /\ first \in F /\ \A s \in F : first <= s
    BY DEF ListHeld
<1>5. ASSUME NEW s \in F
      PROVE  /\ Follows(F, s, slob_next(m, s))
             /\ slob_last(m, s) <=> slob_next(m, s) = PageUnits
    BY <1>5, Reads
<1>17. \A s \in F : s \in Int /\ 0 <= s /\ s < PageUnits
    BY <1>4, PageFacts
<1> DEFINE Early(k) == \E j \in 1..k - 1 : slob_last(m, block[j])
           S == {k \in 0..PageUnits : k = 0 \/ Early(k) \/ (block[k] \in F /\ k - 1 <= block[k])}
<1>6. \A k \in 0..PageUnits : k \in S
  <2>1. 0 \in S
      BY PageFacts
  <2>2. ASSUME NEW k \in 1..PageUnits, k - 1 \in S PROVE k \in S
    <3>1. CASE k = 1
        BY <1>3, <1>4, <3>1
    <3>2. CASE k # 1
      <4>1. CASE Early(k - 1)
          BY <4>1
      <4>2. CASE slob_last(m, block[k - 1])
        <5>1. k - 1 \in 1..k - 1
            BY <3>2
        <5> QED
            BY <4>2, <5>1
      <4>3. CASE ~Early(k - 1) /\ ~slob_last(m, block[k - 1])
        <5>1. block[k - 1] \in F /\ (k - 1) - 1 <= block[k - 1]
            BY <2>2, <3>2, <4>3
        <5>2. block[k] = slob_next(m, block[k - 1])
            BY <1>3, <3>2
        <5>3. Follows(F, block[k - 1], block[k]) /\ block[k] # PageUnits
            BY <1>5, <4>3, <5>1, <5>2
        <5>4. block[k] \in F /\ block[k - 1] < block[k]
            BY <5>3 DEF Follows
        <5>5. k - 1 <= block[k]
            BY <1>17, <5>1, <5>4
        <5> QED
            BY <5>4, <5>5
      <4> QED
          BY <4>1, <4>2, <4>3
    <3> QED
        BY <3>1, <3>2
  <2> HIDE DEF S
  <2> QED
      BY <2>1, <2>2, PageFacts, AllUpTo
<1>7. \E k \in 1..PageUnits : Ends(k)
  <2> DEFINE T == {k \in 1..PageUnits : slob_last(m, block[k])}
  <2>1. PageUnits \in 1..PageUnits /\ T \in SUBSET Nat
      BY PageFacts
  <2>2. T # {}
    <3>1. CASE Early(PageUnits)
      <4>1. PICK j \in 1..PageUnits - 1 : slob_last(m, block[j])
          BY <3>1
      <4>2. j \in 1..PageUnits
          BY <4>1, PageFacts
      <4> QED
          BY <4>1, <4>2
    <3>2. CASE ~Early(PageUnits)
      <4>1. block[PageUnits] \in F /\ PageUnits - 1 <= block[PageUnits]
          BY <1>6, <2>1, <3>2, PageFacts
      <4>2. Follows(F, block[PageUnits], slob_next(m, block[PageUnits]))
          BY <1>5, <4>1
      <4>3. slob_next(m, block[PageUnits]) = PageUnits
          BY <1>17, <4>1, <4>2, PageFacts DEF Follows
      <4>4. slob_last(m, block[PageUnits])
          BY <1>5, <4>1, <4>3
      <4> QED
          BY <2>1, <4>4
    <3> QED
        BY <3>1, <3>2
  <2> HIDE DEF T
  <2>3. PICK k \in T : \A j \in T : k <= j
      BY <2>1, <2>2, LeastNatural
  <2>4. k \in 1..PageUnits /\ slob_last(m, block[k])
      BY <2>3 DEF T
  <2>5. \A j \in 1..k - 1 : ~slob_last(m, block[j])
    <3>1. ASSUME NEW j \in 1..k - 1, slob_last(m, block[j]) PROVE FALSE
      <4>1. j \in T
          BY <2>4, <3>1, PageFacts DEF T
      <4> QED
          BY <2>3, <2>4, <3>1, <4>1
    <3> QED
        BY <3>1
  <2> QED
      BY <2>4, <2>5
<1>8. last \in 1..PageUnits /\ Ends(last)
    BY <1>7
<1> HIDE DEF last
<1>9. \A k \in 1..last : block[k] \in F
  <2>1. ASSUME NEW k \in 1..last PROVE block[k] \in F
    <3>1. k \in 1..PageUnits /\ ~Early(k)
        BY <1>8, PageFacts
    <3> QED
        BY <1>6, <3>1
  <2> QED
      BY <2>1
<1>10. \A k \in 1..last - 1 : block[k + 1] = slob_next(m, block[k])
  <2>1. ASSUME NEW k \in 1..last - 1 PROVE block[k + 1] = slob_next(m, block[k])
    <3>1. k + 1 \in 2..PageUnits /\ (k + 1) - 1 = k
        BY <1>8, PageFacts
    <3> QED
        BY <1>3, <3>1
  <2> QED
      BY <2>1
<1>11. slob_next(m, block[last]) = PageUnits
    BY <1>5, <1>8, <1>9
<1>12. ASSUME NEW t \in F PROVE \E k \in 1..last : block[k] = t
  <2>1. SUFFICES ASSUME \A k \in 1..last : block[k] # t PROVE FALSE
      OBVIOUS
  <2> DEFINE R == {k \in 0..last : k = 0 \/ block[k] < t}
  <2>2. 0 \in R
      BY <1>8
  <2>3. ASSUME NEW k \in 1..last, k - 1 \in R PROVE k \in R
    <3>1. block[k] # t /\ block[k] \in Int /\ t \in Int
        BY <1>9, <1>17, <2>1
    <3>2. CASE k = 1
        BY <1>3, <1>4, <3>1, <3>2
    <3>3. CASE k # 1
      <4>1. k - 1 \in 1..last - 1 /\ (k - 1) + 1 = k /\ block[k - 1] < t
          BY <1>8, <2>3, <3>3, PageFacts
      <4>2. Follows(F, block[k - 1], block[k])
        <5>1. block[k - 1] \in F
            BY <1>8, <1>9, <4>1, PageFacts
        <5>2. block[k] = slob_next(m, block[k - 1])
            BY <1>10, <4>1
        <5> QED
            BY <1>5, <5>1, <5>2
      <4>5. block[k - 1] \in F
          BY <1>8, <1>9, <4>1, PageFacts
      <4>3. block[k - 1] \in Int
          BY <1>17, <4>5
      <4>4. t <= block[k - 1] \/ block[k] <= t
          BY <4>2 DEF Follows
      <4> QED
          BY <3>1, <4>1, <4>3, <4>4
    <3> QED
        BY <3>2, <3>3
  <2>4. \A k \in 0..last : k \in R
    <3> HIDE DEF R
    <3> QED
        BY <1>8, <2>2, <2>3, AllUpTo
  <2>5. block[last] < t
      BY <1>8, <2>4
  <2>6. Follows(F, block[last], PageUnits) /\ block[last] \in F
      BY <1>5, <1>8, <1>9, <1>11
  <2>7. t <= block[last] \/ PageUnits <= t
      BY <2>6 DEF Follows
  <2>8. block[last] \in Int /\ t \in Int /\ t < PageUnits
      BY <1>17, <2>6
  <2> QED
      BY <2>5, <2>7, <2>8, PageFacts
<1>13. /\ blocks \in Seq(F) /\ Len(blocks) = last /\ DOMAIN blocks = 1..last
       /\ \A k \in 1..last : blocks[k] = block[k]
    BY <1>8, <1>9
<1> HIDE DEF blocks
<1>14. ToSet(blocks) = F
    BY <1>9, <1>12, <1>13 DEF ToSet
<1>15. 1 \in 1..last /\ last \in 1..last /\ blocks # <<>>
    BY <1>8, <1>13
<1>16. \A i \in 1..last - 1 : slob_next(m, blocks[i]) = blocks[i + 1]
    BY <1>8, <1>10, <1>13
<1> QED
    BY <1>2, <1>3, <1>11, <1>13, <1>14, <1>15, <1>16 DEF Walk

\* What a page holds is known from its list alone, whatever sizes it was given with.
LEMMA Canonical ==
    ASSUME NEW m, NEW first, NEW F, NEW z, ListHeld(m, first, F, z)
    PROVE  /\ ListHeld(m, first, F, SizesOf(m)) /\ UnitsOf(F, SizesOf(m)) = UnitsOf(F, z)
           /\ ToSet(FreeBlocks(m, first)) = F
<1>1. F \subseteq 0..PageUnits - 1
    BY DEF ListHeld
<1>2. \A s \in F : SizesOf(m)[s] = z[s]
    BY <1>1, Reads DEF SizesOf
<1>3. ListHeld(m, first, F, SizesOf(m))
    BY <1>2 DEF ListHeld
<1>4. UnitsOf(F, SizesOf(m)) = UnitsOf(F, z)
    BY <1>2 DEF UnitsOf
<1>5. ToSet(FreeBlocks(m, first)) = F
    BY Listing DEF Walk
<1> QED
    BY <1>3, <1>4, <1>5

\* Whether x is a unit of one of the blocks.
LEMMA InUnits ==
    ASSUME NEW F, NEW z, NEW x
    PROVE  x \in UnitsOf(F, z) <=> \E s \in F : x \in Covers(s, z[s])
    BY DEF UnitsOf

\* A list stays when only memory outside its blocks is written.
LEMMA ListFrame ==
    ASSUME NEW m, NEW first, NEW F, NEW z, ListHeld(m, first, F, z),
           NEW n, \A x \in UnitsOf(F, z) : n[x] = m[x]
    PROVE  ListHeld(n, first, F, z)
<1>1. ASSUME NEW s \in F
      PROVE  \E k \in F \cup {PageUnits} : Follows(F, s, k) /\ Stored(n, s, z[s], k)
  <2>1. PICK k \in F \cup {PageUnits} : Follows(F, s, k) /\ Stored(m, s, z[s], k)
      BY DEF ListHeld
  <2>2. s \in Nat /\ z[s] \in Nat /\ 0 < z[s]
      BY PageFacts DEF ListHeld
  <2>3. \A x \in Covers(s, z[s]) : n[x] = m[x]
      BY InUnits
  <2>4. Stored(n, s, z[s], k)
      BY <2>1, <2>2, <2>3, StoredFrame
  <2> QED
      BY <2>1, <2>4
<1> QED
    BY <1>1 DEF ListHeld

\* The numbers in a list.
LEMMA ListNumbers ==
    ASSUME NEW m, NEW first, NEW F, NEW z, ListHeld(m, first, F, z)
    PROVE  /\ \A s \in F : /\ s \in Int /\ 0 <= s /\ s < PageUnits
                           /\ z[s] \in Int /\ 1 <= z[s] /\ s + z[s] <= PageUnits
           /\ \A s, t \in F : s < t => s + z[s] < t
           /\ first \in F /\ \A s \in F : first <= s
    BY PageFacts DEF ListHeld

\* Between a and e the blocks of F are replaced by the blocks H: before is true of the
\* blocks in front of the change, after of those behind.
Before(t, a) == t < a
After(t, e) == e <= t
Kept(F, a, e) == {t \in F : Before(t, a) \/ After(t, e)}

\* The new blocks lie between a and k, the first old block behind e, and n links them.
NewBlocks(n, H, y, a, k, lo) ==
    /\ \A h \in H : /\ h \in Nat /\ a <= h /\ y[h] \in 1..PageUnits /\ h + y[h] <= PageUnits
                    /\ h + y[h] < k \/ k = PageUnits
    /\ \A h, i \in H : h < i => h + y[h] < i
    /\ \A h \in H : \E i \in H \cup {k} : /\ h < i /\ \A j \in H : j <= h \/ i <= j
                                          /\ Stored(n, h, y[h], i)
    /\ lo \in H \cup {k} /\ \A h \in H : lo <= h

\* One new block.
LEMMA OneBlock ==
    ASSUME NEW n, NEW h \in Nat, NEW y, NEW a \in Nat, NEW k \in Nat,
           a <= h, y[h] \in 1..PageUnits, h + y[h] <= PageUnits,
           h + y[h] < k \/ k = PageUnits, Stored(n, h, y[h], k)
    PROVE  NewBlocks(n, {h}, y, a, k, h)
<1>1. h < k /\ \A j \in {h} : j <= h \/ k <= j
    BY PageFacts
<1>2. k \in {h} \cup {k} /\ h \in {h} \cup {k} /\ \A i \in {h} : i = h
    OBVIOUS
<1>3. \A i \in {h} : \E j \in {h} \cup {k} : /\ i < j /\ \A g \in {h} : g <= i \/ j <= g
                                          /\ Stored(n, i, y[i], j)
    BY <1>1, <1>2
<1>4. \A i, j \in {h} : i < j => i + y[i] < j
    OBVIOUS
<1> QED
    BY <1>2, <1>3, <1>4 DEF NewBlocks

\* The old blocks keep their sizes, and the link into the changed part is redirected.
OldBlocks(m, n, F, z, y, a, e, lo) ==
    /\ \A t \in F : Before(t, a) => /\ y[t] = z[t] /\ t + z[t] < a
                                    /\ Stored(n, t, z[t], IF slob_next(m, t) < a
                                                          THEN slob_next(m, t) ELSE lo)
    /\ \A t \in F : After(t, e) => y[t] = z[t] /\ Stored(n, t, z[t], slob_next(m, t))

LEMMA Rezone ==
    ASSUME NEW m, NEW first, NEW F, NEW z, ListHeld(m, first, F, z),
           NEW n, NEW H, NEW y, NEW a \in Nat, NEW e \in Nat, a <= e,
           NEW k \in F \cup {PageUnits}, e <= k, \A t \in F : t < e \/ k <= t,
           NEW lo,
           NewBlocks(n, H, y, a, k, lo), OldBlocks(m, n, F, z, y, a, e, lo),
           Kept(F, a, e) \cup H # {}
    PROVE  ListHeld(n, IF first < a THEN first ELSE lo, Kept(F, a, e) \cup H, y)
<1> DEFINE G == Kept(F, a, e) \cup H
           nx(t) == slob_next(m, t)
<1>1. /\ \A s \in F : /\ s \in Int /\ 0 <= s /\ s < PageUnits
                      /\ z[s] \in Int /\ 1 <= z[s] /\ s + z[s] <= PageUnits
      /\ \A s, t \in F : s < t => s + z[s] < t
      /\ first \in F /\ \A s \in F : first <= s
    BY ListNumbers
<1>2. \A t \in F : Follows(F, t, nx(t)) /\ nx(t) \in Int
    BY Reads
<1>3. PageUnits \in Int /\ k \in Int /\ k <= PageUnits
    BY <1>1, PageFacts
<1>4. \A h \in H : /\ h \in Int /\ 0 <= h /\ a <= h /\ h < k /\ h < PageUnits
                   /\ y[h] \in Int /\ 1 <= y[h] /\ h + y[h] <= PageUnits
                   /\ h + y[h] < k \/ k = PageUnits
    BY <1>3 DEF NewBlocks
<1>5. lo \in Int /\ a <= lo /\ lo <= k /\ (\A h \in H : lo <= h) /\ lo \in H \cup {k}
    BY <1>3, <1>4 DEF NewBlocks
<1>6. \A t \in F : t < a => y[t] = z[t] /\ t + z[t] < a
    BY DEF OldBlocks, Before
<1>7. \A t \in F : e <= t => y[t] = z[t] /\ k <= t
    BY <1>1 DEF OldBlocks, After
<1>8. \A u \in G : u \in H \/ (u \in F /\ (u < a \/ (e <= u /\ k <= u)))
    BY <1>7 DEF Kept, Before, After
<1>9. (\A u \in F : u < a \/ e <= u => u \in G) /\ H \subseteq G /\ (k # PageUnits => k \in G)
    BY DEF Kept, Before, After
<1> HIDE DEF G
<1>10. \A s \in G : /\ s \in Int /\ 0 <= s /\ s < PageUnits
                    /\ y[s] \in Int /\ 1 <= y[s] /\ s + y[s] <= PageUnits
    BY <1>1, <1>4, <1>6, <1>7, <1>8
<1>11. ASSUME NEW s \in G, NEW t \in G, s < t PROVE s + y[s] < t
  <2>1. CASE s \in H /\ t \in H
      BY <1>11, <2>1 DEF NewBlocks
  <2>2. CASE s \in H /\ t \notin H
    <3>1. t \in F /\ (t < a \/ k <= t) /\ t \in Int /\ t < PageUnits
        BY <1>1, <1>8, <2>2
    <3>2. s \in Int /\ a <= s /\ y[s] \in Int /\ (s + y[s] < k \/ k = PageUnits)
        BY <1>4, <2>2
    <3> QED
        BY <1>3, <1>11, <3>1, <3>2
  <2>3. CASE s \notin H /\ t \in H
    <3>1. s \in F /\ (s < a \/ k <= s) /\ s \in Int
        BY <1>1, <1>8, <2>3
    <3>2. t \in Int /\ a <= t /\ t < k
        BY <1>4, <2>3
    <3>3. s < a /\ y[s] = z[s] /\ z[s] \in Int /\ s + z[s] < a
        BY <1>1, <1>3, <1>6, <1>11, <3>1, <3>2
    <3> QED
        BY <3>1, <3>2, <3>3
  <2>4. CASE s \notin H /\ t \notin H
      BY <1>1, <1>6, <1>7, <1>8, <1>11, <2>4
  <2> QED
      BY <2>1, <2>2, <2>3, <2>4
<1>12. ASSUME NEW s \in G
       PROVE  \E i \in G \cup {PageUnits} : Follows(G, s, i) /\ Stored(n, s, y[s], i)
  <2>1. CASE s \in H
    <3>1. PICK i \in H \cup {k} : /\ s < i /\ \A j \in H : j <= s \/ i <= j
                                  /\ Stored(n, s, y[s], i)
        BY <2>1 DEF NewBlocks
    <3>2. i \in G \cup {PageUnits} /\ i \in Int /\ i <= k
        BY <1>3, <1>4, <1>9, <3>1
    <3>3. \A u \in G : u <= s \/ i <= u
        BY <1>1, <1>3, <1>4, <1>8, <2>1, <3>1, <3>2
    <3> QED
        BY <3>1, <3>2, <3>3 DEF Follows
  <2>2. CASE s \in F /\ s < a /\ nx(s) < a
    <3>1. Stored(n, s, y[s], nx(s))
        BY <2>2 DEF OldBlocks, Before
    <3>2. s < nx(s) /\ nx(s) \in F \cup {PageUnits} /\ \A u \in F : u <= s \/ nx(s) <= u
        BY <1>2, <2>2 DEF Follows
    <3>3. nx(s) \in G \cup {PageUnits}
        BY <1>9, <2>2, <3>2
    <3>4. \A u \in G : u <= s \/ nx(s) <= u
        BY <1>1, <1>2, <1>4, <1>8, <2>2, <3>2
    <3> QED
        BY <3>1, <3>2, <3>3, <3>4 DEF Follows
  <2>3. CASE s \in F /\ s < a /\ ~(nx(s) < a)
    <3>1. Stored(n, s, y[s], lo)
        BY <2>3 DEF OldBlocks, Before
    <3>2. lo \in G \cup {PageUnits} /\ s < lo
        BY <1>1, <1>5, <1>9, <2>3
    <3>3. \A u \in F : u <= s \/ nx(s) <= u
        BY <1>2, <2>3 DEF Follows
    <3>4. \A u \in G : u <= s \/ lo <= u
        BY <1>1, <1>2, <1>3, <1>5, <1>8, <2>3, <3>3
    <3> QED
        BY <3>1, <3>2, <3>4 DEF Follows
  <2>4. CASE s \in F /\ e <= s /\ k <= s
    <3>1. Stored(n, s, y[s], nx(s))
        BY <2>4 DEF OldBlocks, After
    <3>2. s < nx(s) /\ nx(s) \in F \cup {PageUnits} /\ \A u \in F : u <= s \/ nx(s) <= u
        BY <1>2, <2>4 DEF Follows
    <3>3. nx(s) \in G \cup {PageUnits}
        BY <1>1, <1>2, <1>9, <2>4, <3>2
    <3>4. \A u \in G : u <= s \/ nx(s) <= u
        BY <1>1, <1>2, <1>3, <1>4, <1>8, <2>4, <3>2
    <3> QED
        BY <3>1, <3>2, <3>3, <3>4 DEF Follows
  <2> QED
      BY <1>8, <2>1, <2>2, <2>3, <2>4
<1>13. PICK f : f = IF first < a THEN first ELSE lo
    OBVIOUS
<1>14. f \in G /\ \A s \in G : f <= s
  <2>1. CASE first < a
      BY <1>1, <1>4, <1>8, <1>9, <1>13, <2>1
  <2>2. CASE ~(first < a)
    <3>1. f = lo /\ \A u \in G : lo <= u
      <4>1. ASSUME NEW u \in G PROVE lo <= u
        <5>1. CASE u \in H
            BY <1>5, <5>1
        <5>2. CASE u \notin H
          <6>1. u \in F /\ u \in Int /\ first \in Int /\ first <= u /\ (u < a \/ k <= u)
              BY <1>1, <1>8, <5>2
          <6> QED
              BY <1>3, <1>5, <2>2, <6>1
        <5> QED
            BY <5>1, <5>2
      <4> QED
          BY <1>13, <2>2, <4>1
    <3>2. lo \in G
      <4>1. CASE lo \in H
          BY <1>9, <4>1
      <4>2. CASE lo \notin H
        <5>1. lo = k
            BY <1>5, <4>2
        <5>2. PICK u \in G : TRUE
            BY DEF G
        <5>3. k # PageUnits
            BY <1>3, <1>10, <3>1, <5>1, <5>2
        <5> QED
            BY <1>9, <5>1, <5>3
      <4> QED
          BY <4>1, <4>2
    <3> QED
        BY <3>1, <3>2
  <2> QED
      BY <2>1, <2>2
<1>15. G \subseteq 0..PageUnits - 1 /\ \A s \in G : y[s] \in 1..PageUnits /\ s + y[s] <= PageUnits
    BY <1>3, <1>10
<1>16. \A s, t \in G : s < t => s + y[s] < t
    BY <1>11
<1>17. ListHeld(n, f, G, y)
    BY <1>12, <1>14, <1>15, <1>16 DEF ListHeld
<1> QED
    BY <1>13, <1>17 DEF G

-----------------------------------------------------------------------------
(* slob_page_alloc *)

\* p is the block in front of s, or -1.
InFront(m, first, F, p, s) == (p = -1 /\ s = first) \/ (p \in F /\ slob_next(m, p) = s)

LEMMA InFrontOnly ==
    ASSUME NEW m, NEW first, NEW F, NEW z, ListHeld(m, first, F, z),
           NEW s \in F, NEW p, InFront(m, first, F, p, s)
    PROVE  /\ \A t \in F : t < s /\ t # p => slob_next(m, t) < s
           /\ p \in F => p < s
           /\ p = -1 <=> p \notin F
           /\ p \in F <=> first < s
<1>1. /\ \A t \in F : t \in Int /\ 0 <= t
      /\ first \in F /\ \A t \in F : first <= t
    BY ListNumbers
<1>2. \A t \in F : Follows(F, t, slob_next(m, t)) /\ slob_next(m, t) \in Int
    BY Reads
<1>3. p \in F => p < s /\ \A t \in F : t <= p \/ s <= t
    BY <1>1, <1>2 DEF InFront, Follows
<1>4. ASSUME NEW t \in F, t < s, t # p PROVE slob_next(m, t) < s
  <2>1. t \in Int /\ s \in Int /\ slob_next(m, t) \in Int /\ slob_next(m, t) <= s
      BY <1>1, <1>2, <1>4 DEF Follows
  <2>2. p \in F
      BY <1>1, <1>4, <2>1 DEF InFront
  <2>3. t < p /\ p < s /\ p \in Int
      BY <1>1, <1>3, <1>4, <2>1, <2>2
  <2>4. slob_next(m, t) <= p
      BY <1>2, <1>4, <2>1, <2>2, <2>3 DEF Follows
  <2> QED
      BY <2>1, <2>3, <2>4
<1>5. p = -1 <=> p \notin F
    BY <1>1 DEF InFront
<1>6. p \in F <=> first < s
  <2>1. CASE p \in F
      BY <1>1, <1>3, <2>1
  <2>2. CASE p \notin F
      BY <1>1, <2>2 DEF InFront
  <2> QED
      BY <2>1, <2>2
<1> QED
    BY <1>3, <1>4, <1>5, <1>6

\* The units of two blocks of a list have nothing in common.
LEMMA BlocksApart ==
    ASSUME NEW m, NEW first, NEW F, NEW z, ListHeld(m, first, F, z),
           NEW s \in F, NEW t \in F, s # t
    PROVE  \A x \in Covers(s, z[s]) : x \notin Covers(t, z[t])
<1>1. /\ s \in Int /\ z[s] \in Int /\ t \in Int /\ z[t] \in Int
      /\ s < t => s + z[s] < t
      /\ t < s => t + z[t] < s
    BY ListNumbers
<1> QED
    BY <1>1 DEF Covers

\* n keeps the blocks of the list but s; the one in front of s now leads to lo.
Relinked(m, n, F, z, y, s, p, lo) ==
    /\ \A t \in F \ {s} : y[t] = z[t]
    /\ \A t \in F \ {s} : t # p => \A x \in Covers(t, z[t]) : n[x] = m[x]
    /\ p \in F => Stored(n, p, z[p], lo)

\* One block s of a list is replaced by the blocks H, and the link to it by lo.
LEMMA ReplaceBlock ==
    ASSUME NEW m, NEW first, NEW F, NEW z, ListHeld(m, first, F, z),
           NEW s \in F, NEW p, InFront(m, first, F, p, s),
           NEW n, NEW H, NEW y, NEW lo, NewBlocks(n, H, y, s, slob_next(m, s), lo),
           Relinked(m, n, F, z, y, s, p, lo),
           (F \ {s}) \cup H # {}
    PROVE  ListHeld(n, IF p = -1 THEN lo ELSE first, (F \ {s}) \cup H, y)
<1>1. /\ \A t \in F : /\ t \in Int /\ 0 <= t /\ t < PageUnits
                      /\ z[t] \in Int /\ 1 <= z[t] /\ t + z[t] <= PageUnits
      /\ \A u, t \in F : u < t => u + z[u] < t
      /\ first \in F /\ \A t \in F : first <= t
    BY ListNumbers
<1>2. PICK k : k = slob_next(m, s)
    OBVIOUS
<1>3. Follows(F, s, k) /\ k \in Int
    BY <1>2, Reads
<1>4. PICK e \in Nat : e = s + z[s]
    BY <1>1
<1>5. /\ s \in Nat /\ s <= e
      /\ k \in F \cup {PageUnits} /\ e <= k
      /\ \A t \in F : t < e \/ k <= t
  <2>1. s \in Nat /\ s <= e /\ k \in F \cup {PageUnits} /\ s < k
      BY <1>1, <1>3, <1>4 DEF Follows
  <2>2. e <= k
      BY <1>1, <1>4, <2>1
  <2>3. \A t \in F : t < e \/ k <= t
      BY <1>1, <1>3, <1>4 DEF Follows
  <2> QED
      BY <2>1, <2>2, <2>3
<1>6. /\ \A t \in F : t < s /\ t # p => slob_next(m, t) < s
      /\ p \in F => p < s
      /\ p = -1 <=> p \notin F
      /\ p \in F <=> first < s
    BY InFrontOnly
<1>7. \A t \in F : Stored(m, t, z[t], slob_next(m, t)) /\ slob_next(m, t) \in Int
    BY Reads
<1>8. \A t \in F \ {s} : t # p => Stored(n, t, z[t], slob_next(m, t))
  <2>1. ASSUME NEW t \in F \ {s}, t # p PROVE Stored(n, t, z[t], slob_next(m, t))
    <3>1. t \in Nat /\ z[t] \in Nat /\ 0 < z[t]
        BY <1>1
    <3>2. Stored(m, t, z[t], slob_next(m, t)) /\ \A x \in Covers(t, z[t]) : n[x] = m[x]
        BY <1>7, <2>1 DEF Relinked
    <3> QED
        BY <3>1, <3>2, StoredFrame
  <2> QED
      BY <2>1
<1>9. OldBlocks(m, n, F, z, y, s, e, lo)
  <2>1. ASSUME NEW t \in F, Before(t, s)
        PROVE  /\ y[t] = z[t] /\ t + z[t] < s
               /\ Stored(n, t, z[t], IF slob_next(m, t) < s THEN slob_next(m, t) ELSE lo)
    <3>1. t < s /\ t # s /\ t \in Int /\ s \in Int
        BY <1>1, <2>1 DEF Before
    <3>2. y[t] = z[t] /\ t + z[t] < s
        BY <1>1, <3>1 DEF Relinked
    <3>3. CASE t = p
      <4>1. slob_next(m, t) = s
          BY <1>6, <3>3 DEF InFront
      <4>2. ~(slob_next(m, t) < s)
          BY <3>1, <4>1
      <4> QED
          BY <3>2, <3>3, <4>2 DEF Relinked
    <3>4. CASE t # p
      <4>1. slob_next(m, t) < s
          BY <1>6, <3>1, <3>4
      <4>2. Stored(n, t, z[t], slob_next(m, t))
          BY <1>8, <3>1, <3>4
      <4> QED
          BY <3>2, <4>1, <4>2
    <3> QED
        BY <3>3, <3>4
  <2>2. ASSUME NEW t \in F, After(t, e)
        PROVE  y[t] = z[t] /\ Stored(n, t, z[t], slob_next(m, t))
    <3>1. t # s /\ t # p
        BY <1>1, <1>4, <1>6, <2>2 DEF After
    <3> QED
        BY <1>8, <3>1 DEF Relinked
  <2> QED
      BY <2>1, <2>2 DEF OldBlocks
<1>10. Kept(F, s, e) = F \ {s}
    BY <1>1, <1>4 DEF Kept, Before, After
<1>11. NewBlocks(n, H, y, s, k, lo)
    BY <1>2
<1>12. Kept(F, s, e) \cup H # {}
    BY <1>10
<1>13. ListHeld(n, IF first < s THEN first ELSE lo, Kept(F, s, e) \cup H, y)
    BY <1>5, <1>9, <1>11, <1>12, Rezone
<1>14. (IF first < s THEN first ELSE lo) = (IF p = -1 THEN lo ELSE first)
    BY <1>6
<1> QED
    BY <1>10, <1>13, <1>14

\* r is what is left of the blocks F when n units are cut out of them: the blocks G.
Carved(m, F, z, r, n, G, y) ==
    /\ r.mem \in Memory /\ r.freelist \in 0..PageUnits
    /\ r.at \in Nat /\ r.at + n <= PageUnits
    /\ G # {} => ListHeld(r.mem, r.freelist, G, y)
    /\ \A x \in Covers(r.at, n) : x \in UnitsOf(F, z)
    /\ \A x : x \in UnitsOf(G, y) <=> x \in UnitsOf(F, z) /\ x \notin Covers(r.at, n)
    /\ \A x \in 0..PageUnits - 1 : x \notin UnitsOf(F, z) => r.mem[x] = m[x]

\* Of the units of s, those of H are kept and n at c are cut out.
CutOut(F, z, s, H, y, c, n) ==
    /\ \A t \in F \ {s} : y[t] = z[t]
    /\ \A x \in Covers(c, n) : x \in Covers(s, z[s])
    /\ \A x : (\E h \in H : x \in Covers(h, y[h]))
                 <=> x \in Covers(s, z[s]) /\ x \notin Covers(c, n)

\* The blocks G hold what those of F hold, but for n units at c.
UnitsCut(F, z, G, y, c, n) ==
    /\ \A x \in Covers(c, n) : x \in UnitsOf(F, z)
    /\ \A x : x \in UnitsOf(G, y) <=> x \in UnitsOf(F, z) /\ x \notin Covers(c, n)

LEMMA ReplaceUnits ==
    ASSUME NEW m, NEW first, NEW F, NEW z, ListHeld(m, first, F, z), NEW s \in F,
           NEW H, NEW y, NEW c, NEW n, CutOut(F, z, s, H, y, c, n)
    PROVE  UnitsCut(F, z, (F \ {s}) \cup H, y, c, n)
<1>1. \A x : x \in UnitsOf(F, z) <=> \E t \in F : x \in Covers(t, z[t])
    BY InUnits
<1>2. \A x : x \in UnitsOf((F \ {s}) \cup H, y)
                <=> \E t \in (F \ {s}) \cup H : x \in Covers(t, y[t])
    BY InUnits
<1>3. \A t \in F \ {s} : \A x \in Covers(t, z[t]) : x \notin Covers(s, z[s])
    BY BlocksApart
<1>4. ASSUME NEW x, x \in UnitsOf((F \ {s}) \cup H, y)
      PROVE  x \in UnitsOf(F, z) /\ x \notin Covers(c, n)
  <2>1. PICK t \in (F \ {s}) \cup H : x \in Covers(t, y[t])
      BY <1>2, <1>4
  <2>2. CASE t \in H
      BY <1>1, <2>1, <2>2 DEF CutOut
  <2>3. CASE t \in F \ {s}
      BY <1>1, <1>3, <2>1, <2>3 DEF CutOut
  <2> QED
      BY <2>1, <2>2, <2>3
<1>5. ASSUME NEW x, x \in UnitsOf(F, z), x \notin Covers(c, n)
      PROVE  x \in UnitsOf((F \ {s}) \cup H, y)
  <2>1. PICK t \in F : x \in Covers(t, z[t])
      BY <1>1, <1>5
  <2>2. CASE t = s
    <3>1. PICK h \in H : x \in Covers(h, y[h])
        BY <1>5, <2>1, <2>2 DEF CutOut
    <3> QED
        BY <1>2, <3>1
  <2>3. CASE t # s
    <3>1. t \in F \ {s} /\ x \in Covers(t, y[t])
        BY <2>1, <2>3 DEF CutOut
    <3> QED
        BY <1>2, <3>1
  <2> QED
      BY <2>2, <2>3
<1>6. \A x \in Covers(c, n) : x \in UnitsOf(F, z)
    BY <1>1 DEF CutOut
<1> QED
    BY <1>4, <1>5, <1>6 DEF UnitsCut

\* Nothing is skipped: the block is taken as a whole, or its head.
LEMMA CarvePlain ==
    ASSUME NEW m \in Memory, NEW first, NEW F, NEW z, ListHeld(m, first, F, z),
           NEW s \in F, NEW p, InFront(m, first, F, p, s),
           NEW n \in Nat, 0 < n, n <= z[s], NEW align, Delta(s, align) = 0
    PROVE  \E G, y : Carved(m, F, z, Carve(m, first, p, s, n, align), n, G, y)
<1>1. /\ \A t \in F : /\ t \in Int /\ 0 <= t /\ t < PageUnits
                      /\ z[t] \in Int /\ 1 <= z[t] /\ t + z[t] <= PageUnits
      /\ \A u, t \in F : u < t => u + z[u] < t
      /\ first \in F /\ \A t \in F : first <= t
    BY ListNumbers
<1>2. \A t \in F : slob_units(m, t) = z[t] /\ slob_next(m, t) \in 1..PageUnits
                   /\ Follows(F, t, slob_next(m, t))
    BY Reads
<1>3. PICK k : k = slob_next(m, s)
    OBVIOUS
<1>4. k \in Nat /\ k <= PageUnits /\ s < k /\ s + z[s] <= k /\ (s + z[s] < k \/ k = PageUnits)
  <2>1. k \in Int /\ k <= PageUnits /\ s < k /\ k \in F \cup {PageUnits}
      BY <1>2, <1>3, PageFacts DEF Follows
  <2> QED
      BY <1>1, <2>1, PageFacts
<1>5. PICK after : after = IF z[s] = n THEN k ELSE s + n
    OBVIOUS
<1>6. PICK m2 : m2 = IF p = -1 THEN m ELSE set_slob(m, p, slob_units(m, p), after)
    OBVIOUS
<1>7. PICK m3 : m3 = IF z[s] = n THEN m2 ELSE set_slob(m2, s + n, z[s] - n, k)
    OBVIOUS
<1>8. PICK r : r = [mem |-> m3, freelist |-> IF p = -1 THEN after ELSE first, at |-> s]
    OBVIOUS
<1>9. Carve(m, first, p, s, n, align) = r
  <2>1. slob_units(m, s) = z[s] /\ s + 0 = s
      BY <1>1, <1>2
  <2> QED
      BY <1>3, <1>5, <1>6, <1>7, <1>8, <2>1 DEF Carve, Remainder
<1>10. (p = -1 <=> p \notin F) /\ (p \in F => p < s)
    BY InFrontOnly
<1>11. after \in Int /\ s < after /\ after <= PageUnits
    BY <1>1, <1>4, <1>5, PageFacts
\* the link to the block
<1>12. /\ m2 \in Memory
       /\ p \in F => Stored(m2, p, z[p], after)
       /\ \A x \in 0..PageUnits - 1 : (p \in F => x \notin Covers(p, z[p])) => m2[x] = m[x]
  <2>1. CASE p = -1
      BY <1>6, <1>10, <2>1
  <2>2. CASE p # -1
    <3>1. p \in F
        BY <1>10, <2>2
    <3>2. m2 = set_slob(m, p, z[p], after)
        BY <1>2, <1>6, <2>2, <3>1
    <3>3. p \in Nat /\ z[p] \in Nat /\ 0 < z[p] /\ p + z[p] <= PageUnits
        BY <1>1, <3>1
    <3>4. Written(m, m2, p, z[p], after)
        BY <1>11, <3>2, <3>3, SetSlob
    <3> QED
        BY <3>1, <3>4 DEF Written
  <2> QED
      BY <2>1, <2>2
<1>13. \A t \in F : \A x \in Covers(t, z[t]) : x \in 0..PageUnits - 1
    BY <1>1, PageFacts DEF Covers
<1>14. \A t \in F, u \in F : t # u => \A x \in Covers(t, z[t]) : x \notin Covers(u, z[u])
    BY BlocksApart
<1>15. CASE z[s] = n
  <2>1. after = k /\ m3 = m2
      BY <1>5, <1>7, <1>15
  <2>2. NewBlocks(m3, {}, z, s, k, k)
      BY DEF NewBlocks
  <2>3. \A t \in F \ {s} : t # p => \A x \in Covers(t, z[t]) : m3[x] = m[x]
      BY <1>12, <1>13, <1>14, <2>1
  <2>4. p \in F => Stored(m3, p, z[p], k)
      BY <1>12, <2>1
  <2> DEFINE G == (F \ {s}) \cup {}
  <2>5. G # {} => ListHeld(m3, IF p = -1 THEN k ELSE first, G, z)
    <3>1. NewBlocks(m3, {}, z, s, slob_next(m, s), k)
        BY <1>3, <2>2
    <3>2. Relinked(m, m3, F, z, z, s, p, k)
        BY <2>3, <2>4 DEF Relinked
    <3>3. ASSUME G # {} PROVE ListHeld(m3, IF p = -1 THEN k ELSE first, G, z)
        BY <3>1, <3>2, <3>3, ReplaceBlock
    <3> HIDE DEF G
    <3> QED
        BY <3>3
  <2>6. /\ \A x \in Covers(s, n) : x \in UnitsOf(F, z)
        /\ \A x : x \in UnitsOf(G, z) <=> x \in UnitsOf(F, z) /\ x \notin Covers(s, n)
    <3>1. \A x \in Covers(s, n) : x \in Covers(s, z[s])
        BY <1>15
    <3>2. \A x : (\E h \in {} : x \in Covers(h, z[h])) <=> x \in Covers(s, z[s]) /\ x \notin Covers(s, n)
        BY <1>15
    <3>3. PICK H : H = {}
        OBVIOUS
    <3>4. CutOut(F, z, s, H, z, s, n)
        BY <3>1, <3>2, <3>3 DEF CutOut
    <3>5. UnitsCut(F, z, (F \ {s}) \cup H, z, s, n)
        BY <3>4, ReplaceUnits
    <3> QED
        BY <3>3, <3>5 DEF UnitsCut
  <2>7. \A x \in 0..PageUnits - 1 : x \notin UnitsOf(F, z) => m3[x] = m[x]
      BY <1>12, <2>1, InUnits
  <2>8. Carved(m, F, z, r, n, G, z)
    <3>1. r.mem = m3 /\ r.at = s /\ r.freelist = IF p = -1 THEN k ELSE first
        BY <1>8, <2>1
    <3>2. r.freelist \in 0..PageUnits /\ r.at \in Nat /\ r.at + n <= PageUnits
        BY <1>1, <1>4, <1>15, <3>1, PageFacts
    <3>3. r.mem \in Memory
        BY <1>12, <2>1, <3>1
    <3> HIDE DEF G
    <3> QED
        BY <2>5, <2>6, <2>7, <3>1, <3>2, <3>3 DEF Carved
  <2> QED
      BY <1>9, <2>8
<1>16. CASE z[s] # n
  <2>1. PICK c : c = s + n
      OBVIOUS
  <2>2. PICK rest : rest = z[s] - n
      OBVIOUS
  <2>3. /\ c \in Nat /\ rest \in Nat /\ 0 < rest /\ c + rest = s + z[s] /\ s < c
        /\ after = c /\ m3 = set_slob(m2, c, rest, k)
      BY <1>1, <1>5, <1>7, <1>16, <2>1, <2>2
  <2>4. Written(m2, m3, c, rest, k)
      BY <1>1, <1>4, <1>12, <2>3, SetSlob
  <2>5. \A x \in Covers(c, rest) : x \in Covers(s, z[s])
      BY <1>1, <2>3 DEF Covers
  <2>6. \A t \in F \ {s} : \A x \in Covers(t, z[t]) : x \notin Covers(c, rest)
      BY <1>14, <2>5
  <2>7. PICK y : y = [u \in 0..PageUnits - 1 |-> IF u = c THEN rest ELSE z[u]]
      OBVIOUS
  <2>8. \A t \in F \ {s} : t # c
      BY <1>1, <2>3
  <2>9. y[c] = rest /\ \A t \in F \ {s} : y[t] = z[t]
    <3>1. c \in 0..PageUnits - 1 /\ \A t \in F : t \in 0..PageUnits - 1
        BY <1>1, <2>3, PageFacts
    <3> QED
        BY <2>7, <2>8, <3>1
  <2>10. NewBlocks(m3, {c}, y, s, k, c)
    <3>1. Stored(m3, c, rest, k)
        BY <2>4 DEF Written
    <3>2. rest \in 1..PageUnits /\ c + rest <= PageUnits /\ (c + rest < k \/ k = PageUnits)
        BY <1>1, <1>4, <2>3, PageFacts
    <3>3. s \in Nat /\ s <= c
        BY <1>1, <2>3
    <3> QED
        BY <1>4, <2>3, <2>9, <3>1, <3>2, <3>3, OneBlock
  <2>11. \A t \in F \ {s} : t # p => \A x \in Covers(t, z[t]) : m3[x] = m[x]
      BY <1>12, <1>13, <1>14, <2>4, <2>6 DEF Written
  <2>12. p \in F => Stored(m3, p, z[p], c)
    <3>1. ASSUME p \in F PROVE Stored(m3, p, z[p], c)
      <4>1. p \in F \ {s} /\ p \in Nat /\ z[p] \in Nat /\ 0 < z[p]
          BY <1>1, <1>10, <3>1
      <4>2. \A x \in Covers(p, z[p]) : m3[x] = m2[x]
          BY <1>13, <2>4, <2>6, <4>1 DEF Written
      <4>3. Stored(m2, p, z[p], c)
          BY <1>12, <2>3, <3>1
      <4> QED
          BY <4>1, <4>2, <4>3, StoredFrame
    <3> QED
        BY <3>1
  <2> DEFINE G == (F \ {s}) \cup {c}
  <2>13. ListHeld(m3, IF p = -1 THEN c ELSE first, G, y)
    <3>1. NewBlocks(m3, {c}, y, s, slob_next(m, s), c)
        BY <1>3, <2>10
    <3>2. Relinked(m, m3, F, z, y, s, p, c)
        BY <2>9, <2>11, <2>12 DEF Relinked
    <3>3. (F \ {s}) \cup {c} # {}
        OBVIOUS
    <3> QED
        BY <3>1, <3>2, <3>3, ReplaceBlock
  <2>14. /\ \A x \in Covers(s, n) : x \in UnitsOf(F, z)
         /\ \A x : x \in UnitsOf(G, y) <=> x \in UnitsOf(F, z) /\ x \notin Covers(s, n)
    <3>1. \A x \in Covers(s, n) : x \in Covers(s, z[s])
        BY <1>1 DEF Covers
    <3>2. \A x : x \in Covers(c, rest) <=> x \in Covers(s, z[s]) /\ x \notin Covers(s, n)
        BY <1>1, <2>1, <2>3 DEF Covers
    <3>3. \A x : (\E h \in {c} : x \in Covers(h, y[h])) <=> x \in Covers(s, z[s]) /\ x \notin Covers(s, n)
        BY <2>9, <3>2
    <3>4. PICK H : H = {c}
        OBVIOUS
    <3>5. CutOut(F, z, s, H, y, s, n)
        BY <2>9, <3>1, <3>3, <3>4 DEF CutOut
    <3>6. UnitsCut(F, z, (F \ {s}) \cup H, y, s, n)
        BY <3>5, ReplaceUnits
    <3> QED
        BY <3>4, <3>6 DEF UnitsCut
  <2>15. \A x \in 0..PageUnits - 1 : x \notin UnitsOf(F, z) => m3[x] = m[x]
      BY <1>12, <2>4, <2>5, InUnits DEF Written
  <2>16. Carved(m, F, z, r, n, G, y)
    <3>1. r.mem = m3 /\ r.at = s /\ r.freelist = IF p = -1 THEN c ELSE first
        BY <1>8, <2>3
    <3>2. r.freelist \in 0..PageUnits /\ r.at \in Nat /\ r.at + n <= PageUnits
        BY <1>1, <2>3, <3>1, PageFacts
    <3>3. r.mem \in Memory
        BY <2>4, <3>1 DEF Written
    <3> HIDE DEF G
    <3> QED
        BY <2>13, <2>14, <2>15, <3>1, <3>2, <3>3 DEF Carved
  <2> QED
      BY <1>9, <2>16
<1> QED
    BY <1>15, <1>16

\* The head of the block is skipped and stays free.
LEMMA CarveAligned ==
    ASSUME NEW m \in Memory, NEW first, NEW F, NEW z, ListHeld(m, first, F, z),
           NEW s \in F, NEW p, InFront(m, first, F, p, s),
           NEW n \in Nat, 0 < n, NEW d \in Nat, 0 < d, n + d <= z[s],
           NEW align, Delta(s, align) = d
    PROVE  \E G, y : Carved(m, F, z, Carve(m, first, p, s, n, align), n, G, y)
<1>1. /\ \A t \in F : /\ t \in Int /\ 0 <= t /\ t < PageUnits
                      /\ z[t] \in Int /\ 1 <= z[t] /\ t + z[t] <= PageUnits
      /\ \A u, t \in F : u < t => u + z[u] < t
      /\ first \in F /\ \A t \in F : first <= t
    BY ListNumbers
<1>2. \A t \in F : slob_units(m, t) = z[t] /\ slob_next(m, t) \in 1..PageUnits
                   /\ Follows(F, t, slob_next(m, t)) /\ Stored(m, t, z[t], slob_next(m, t))
    BY Reads
<1>3. PICK k : k = slob_next(m, s)
    OBVIOUS
<1>4. k \in Nat /\ k <= PageUnits /\ s < k /\ s + z[s] <= k /\ (s + z[s] < k \/ k = PageUnits)
  <2>1. k \in Int /\ k <= PageUnits /\ s < k /\ k \in F \cup {PageUnits}
      BY <1>2, <1>3, PageFacts DEF Follows
  <2> QED
      BY <1>1, <2>1, PageFacts
<1>5. PICK cur \in Nat, w \in Nat : cur = s + d /\ w = z[s] - d
    BY <1>1
<1>6. /\ s \in Nat /\ z[s] \in Nat /\ s < cur /\ n <= w /\ 0 < w /\ cur + w = s + z[s]
      /\ cur + w <= PageUnits /\ s + d <= PageUnits /\ cur + n <= PageUnits
    BY <1>1, <1>5, PageFacts
<1>7. PICK m0 : m0 = set_slob(m, cur, w, k)
    OBVIOUS
<1>8. Written(m, m0, cur, w, k)
    BY <1>4, <1>6, <1>7, SetSlob
<1>9. PICK m1 : m1 = set_slob(m0, s, d, cur)
    OBVIOUS
<1>10. m0 \in Memory
    BY <1>8 DEF Written
<1>11. Written(m0, m1, s, d, cur)
    BY <1>5, <1>6, <1>9, <1>10, SetSlob
<1>12. slob_units(m1, cur) = w /\ slob_next(m1, cur) = k /\ slob_units(m1, s) = d
  <2>1. \A x \in Covers(cur, w) : m1[x] = m0[x]
    <3>1. \A x \in Covers(cur, w) : x \in 0..PageUnits - 1 /\ x \notin Covers(s, d)
        BY <1>5, <1>6, PageFacts DEF Covers
    <3> QED
        BY <1>11, <3>1 DEF Written
  <2>2. Stored(m0, cur, w, k)
      BY <1>8 DEF Written
  <2>3. Stored(m1, cur, w, k)
      BY <1>6, <2>1, <2>2, StoredFrame
  <2>4. cur < k
      BY <1>4, <1>6
  <2>5. Stored(m1, s, d, cur)
      BY <1>11 DEF Written
  <2> QED
      BY <1>4, <1>6, <2>3, <2>4, <2>5, StoredRead
<1>13. PICK c \in Nat, rest \in Nat : c = cur + n /\ rest = w - n
    BY <1>6
<1>14. PICK after : after = IF w = n THEN k ELSE c
    OBVIOUS
<1>15. PICK m2 : m2 = set_slob(m1, s, d, after)
    OBVIOUS
<1>16. PICK m3 : m3 = IF w = n THEN m2 ELSE set_slob(m2, c, rest, k)
    OBVIOUS
<1>17. PICK r : r = [mem |-> m3, freelist |-> first, at |-> cur]
    OBVIOUS
<1>18. Carve(m, first, p, s, n, align) = r
  <2>1. m1 = set_slob(set_slob(m, s + d, slob_units(m, s) - d, slob_next(m, s)), s, d, s + d)
      BY <1>2, <1>3, <1>5, <1>7, <1>9
  <2>2. s # -1 /\ d # 0
      BY <1>6
  <2> QED
      BY <1>5, <1>12, <1>13, <1>14, <1>15, <1>16, <1>17, <2>1, <2>2 DEF Carve, Remainder
<1>19. after \in Int /\ m1 \in Memory
    BY <1>4, <1>11, <1>13, <1>14 DEF Written
<1>20. Written(m1, m2, s, d, after)
    BY <1>6, <1>15, <1>19, SetSlob
<1>21. \A x \in 0..PageUnits - 1 : x \notin Covers(s, z[s]) => m2[x] = m[x]
  <2>1. \A x : x \notin Covers(s, z[s]) => x \notin Covers(s, d) /\ x \notin Covers(cur, w)
      BY <1>5, <1>6 DEF Covers
  <2> QED
      BY <1>8, <1>11, <1>20, <2>1 DEF Written
<1>22. \A t \in F : \A x \in Covers(t, z[t]) : x \in 0..PageUnits - 1
    BY <1>1, PageFacts DEF Covers
<1>23. \A t \in F, u \in F : t # u => \A x \in Covers(t, z[t]) : x \notin Covers(u, z[u])
    BY BlocksApart
<1>24. p \in F => p # s /\ slob_next(m, p) = s
  <2>1. p \in F => p < s
      BY InFrontOnly
  <2>2. -1 \notin F
      BY <1>1
  <2> QED
      BY <1>6, <2>1, <2>2 DEF InFront
<1>25. (IF p = -1 THEN s ELSE first) = first
    BY <1>1 DEF InFront
<1>26. PICK y : y = [u \in 0..PageUnits - 1 |-> IF u = s THEN d ELSE IF u = c THEN rest ELSE z[u]]
    OBVIOUS
<1>27. y[s] = d /\ (c < PageUnits => y[c] = rest)
  <2>1. s \in 0..PageUnits - 1 /\ c # s /\ (c < PageUnits => c \in 0..PageUnits - 1)
      BY <1>1, <1>6, <1>13, PageFacts
  <2> QED
      BY <1>26, <2>1
<1>28. \A t \in F \ {s} : t # c /\ y[t] = z[t]
  <2>1. \A t \in F \ {s} : t # c
    <3>1. ASSUME NEW t \in F \ {s}, t = c PROVE FALSE
      <4>1. s < t => s + z[s] < t
          BY <1>1, <3>1
      <4> QED
          BY <1>6, <1>13, <3>1, <4>1
    <3> QED
        BY <3>1
  <2>2. \A t \in F : t \in 0..PageUnits - 1
      BY <1>1, PageFacts
  <2> QED
      BY <1>26, <2>1, <2>2
<1>29. CASE w = n
  <2>1. after = k /\ m3 = m2
      BY <1>14, <1>16, <1>29
  <2>2. Stored(m3, s, d, k)
      BY <1>20, <2>1 DEF Written
  <2>3. NewBlocks(m3, {s}, y, s, k, s)
    <3>1. s \in Nat /\ s <= s /\ y[s] \in 1..PageUnits /\ s + y[s] <= PageUnits
          /\ (s + y[s] < k \/ k = PageUnits)
        BY <1>4, <1>5, <1>6, <1>27, PageFacts
    <3>2. Stored(m3, s, y[s], k)
        BY <1>27, <2>2
    <3> QED
        BY <1>4, <3>1, <3>2, OneBlock
  <2>4. Relinked(m, m3, F, z, y, s, p, s)
    <3>1. \A t \in F \ {s} : \A x \in Covers(t, z[t]) : m3[x] = m[x]
        BY <1>21, <1>22, <1>23, <2>1
    <3>2. ASSUME p \in F PROVE Stored(m3, p, z[p], s)
      <4>1. p \in Nat /\ z[p] \in Nat /\ 0 < z[p] /\ Stored(m, p, z[p], s)
          BY <1>1, <1>2, <1>24, <3>2
      <4>2. \A x \in Covers(p, z[p]) : m3[x] = m[x]
          BY <1>24, <3>1, <3>2
      <4> QED
          BY <4>1, <4>2, StoredFrame
    <3> QED
        BY <1>28, <3>1, <3>2 DEF Relinked
  <2> DEFINE G == (F \ {s}) \cup {s}
  <2>5. ListHeld(m3, first, G, y)
    <3>1. NewBlocks(m3, {s}, y, s, slob_next(m, s), s)
        BY <1>3, <2>3
    <3>2. G # {}
        OBVIOUS
    <3>3. ListHeld(m3, IF p = -1 THEN s ELSE first, G, y)
        BY <2>4, <3>1, <3>2, ReplaceBlock
    <3> HIDE DEF G
    <3> QED
        BY <1>25, <3>3
  <2>6. /\ \A x \in Covers(cur, n) : x \in UnitsOf(F, z)
        /\ \A x : x \in UnitsOf(G, y) <=> x \in UnitsOf(F, z) /\ x \notin Covers(cur, n)
    <3>1. \A x \in Covers(cur, n) : x \in Covers(s, z[s])
        BY <1>6 DEF Covers
    <3>2. \A x : x \in Covers(s, d) <=> x \in Covers(s, z[s]) /\ x \notin Covers(cur, n)
        BY <1>5, <1>6, <1>29 DEF Covers
    <3>3. \A x : (\E h \in {s} : x \in Covers(h, y[h])) <=> x \in Covers(s, z[s]) /\ x \notin Covers(cur, n)
        BY <1>27, <3>2
    <3>4. PICK H : H = {s}
        OBVIOUS
    <3>5. CutOut(F, z, s, H, y, cur, n)
        BY <1>28, <3>1, <3>3, <3>4 DEF CutOut
    <3>6. UnitsCut(F, z, (F \ {s}) \cup H, y, cur, n)
        BY <3>5, ReplaceUnits
    <3> QED
        BY <3>4, <3>6 DEF UnitsCut
  <2>7. \A x \in 0..PageUnits - 1 : x \notin UnitsOf(F, z) => m3[x] = m[x]
      BY <1>21, <2>1, InUnits
  <2>8. Carved(m, F, z, r, n, G, y)
    <3>1. r.mem = m3 /\ r.at = cur /\ r.freelist = first
        BY <1>17
    <3>2. r.freelist \in 0..PageUnits /\ r.at \in Nat /\ r.at + n <= PageUnits
        BY <1>1, <1>6, <3>1, PageFacts
    <3>3. r.mem \in Memory
        BY <1>20, <2>1, <3>1 DEF Written
    <3> HIDE DEF G
    <3> QED
        BY <2>5, <2>6, <2>7, <3>1, <3>2, <3>3 DEF Carved
  <2> QED
      BY <1>18, <2>8
<1>30. CASE w # n
  <2>1. /\ after = c /\ m3 = set_slob(m2, c, rest, k) /\ 0 < rest /\ c + rest = s + z[s]
        /\ cur < c /\ c + rest <= PageUnits /\ y[c] = rest
      BY <1>6, <1>13, <1>14, <1>16, <1>27, <1>30, PageFacts
  <2>2. Written(m2, m3, c, rest, k)
    <3>1. m2 \in Memory
        BY <1>20 DEF Written
    <3> QED
        BY <1>4, <2>1, <3>1, SetSlob
  <2>3. Stored(m3, c, rest, k)
      BY <2>2 DEF Written
  <2>4. Stored(m3, s, d, c)
    <3>1. \A x \in Covers(s, d) : x \in 0..PageUnits - 1 /\ x \notin Covers(c, rest)
        BY <1>5, <1>6, <2>1, PageFacts DEF Covers
    <3>2. Stored(m2, s, d, c) /\ \A x \in Covers(s, d) : m3[x] = m2[x]
        BY <1>20, <2>1, <2>2, <3>1 DEF Written
    <3> QED
        BY <1>6, <3>2, StoredFrame
  <2>5. NewBlocks(m3, {s, c}, y, s, k, s)
    <3>1. /\ s \in Nat /\ c \in Nat /\ s < c /\ c < k /\ s < k
          /\ y[s] = d /\ y[c] = rest /\ d \in 1..PageUnits /\ rest \in 1..PageUnits
          /\ s + d <= PageUnits /\ c + rest <= PageUnits /\ s + d < c
          /\ c + rest < k \/ k = PageUnits
          /\ s + d < k
        BY <1>4, <1>5, <1>6, <1>27, <2>1, PageFacts
    <3>2. \A h \in {s, c} : h \in Nat /\ s <= h /\ y[h] \in 1..PageUnits /\ h + y[h] <= PageUnits
                            /\ (h + y[h] < k \/ k = PageUnits)
        BY <3>1
    <3>3. \A h, i \in {s, c} : h < i => h + y[h] < i
        BY <3>1
    <3>4. \A h \in {s, c} : s <= h
        BY <3>1
    <3>5. \A h \in {s, c} : \E i \in {s, c} \cup {k} : /\ h < i /\ \A j \in {s, c} : j <= h \/ i <= j
                                                      /\ Stored(m3, h, y[h], i)
      <4>1. s < c /\ (\A j \in {s, c} : j <= s \/ c <= j) /\ Stored(m3, s, y[s], c)
          BY <2>4, <3>1
      <4>2. c < k /\ (\A j \in {s, c} : j <= c \/ k <= j) /\ Stored(m3, c, y[c], k)
          BY <2>3, <3>1
      <4>3. ASSUME NEW h \in {s, c}
            PROVE  \E i \in {s, c} \cup {k} : /\ h < i /\ \A j \in {s, c} : j <= h \/ i <= j
                                              /\ Stored(m3, h, y[h], i)
        <5>1. CASE h = s
            BY <4>1, <5>1
        <5>2. CASE h = c
            BY <4>2, <5>2
        <5> QED
            BY <5>1, <5>2
      <4> QED
          BY <4>3
    <3>6. s \in {s, c} \cup {k}
        OBVIOUS
    <3> QED
        BY <3>2, <3>3, <3>4, <3>5, <3>6 DEF NewBlocks
  <2>6. \A x : x \in Covers(c, rest) => x \in Covers(s, z[s])
      BY <1>6, <2>1 DEF Covers
  <2>7. Relinked(m, m3, F, z, y, s, p, s)
    <3>1. \A t \in F \ {s} : \A x \in Covers(t, z[t]) : m3[x] = m[x]
        BY <1>21, <1>22, <1>23, <2>2, <2>6 DEF Written
    <3>2. ASSUME p \in F PROVE Stored(m3, p, z[p], s)
      <4>1. p \in Nat /\ z[p] \in Nat /\ 0 < z[p] /\ Stored(m, p, z[p], s)
          BY <1>1, <1>2, <1>24, <3>2
      <4>2. \A x \in Covers(p, z[p]) : m3[x] = m[x]
          BY <1>24, <3>1, <3>2
      <4> QED
          BY <4>1, <4>2, StoredFrame
    <3> QED
        BY <1>28, <3>1, <3>2 DEF Relinked
  <2> DEFINE G == (F \ {s}) \cup {s, c}
  <2>8. ListHeld(m3, first, G, y)
    <3>1. NewBlocks(m3, {s, c}, y, s, slob_next(m, s), s)
        BY <1>3, <2>5
    <3>2. G # {}
        OBVIOUS
    <3>3. ListHeld(m3, IF p = -1 THEN s ELSE first, G, y)
        BY <2>7, <3>1, <3>2, ReplaceBlock
    <3> HIDE DEF G
    <3> QED
        BY <1>25, <3>3
  <2>9. /\ \A x \in Covers(cur, n) : x \in UnitsOf(F, z)
        /\ \A x : x \in UnitsOf(G, y) <=> x \in UnitsOf(F, z) /\ x \notin Covers(cur, n)
    <3>1. \A x \in Covers(cur, n) : x \in Covers(s, z[s])
        BY <1>6 DEF Covers
    <3>2. \A x : x \in Covers(s, d) \/ x \in Covers(c, rest)
                    <=> x \in Covers(s, z[s]) /\ x \notin Covers(cur, n)
        BY <1>5, <1>6, <1>13, <2>1 DEF Covers
    <3>3. \A x : (\E h \in {s, c} : x \in Covers(h, y[h])) <=> x \in Covers(s, z[s]) /\ x \notin Covers(cur, n)
        BY <1>27, <2>1, <3>2
    <3>4. PICK H : H = {s, c}
        OBVIOUS
    <3>5. CutOut(F, z, s, H, y, cur, n)
        BY <1>28, <3>1, <3>3, <3>4 DEF CutOut
    <3>6. UnitsCut(F, z, (F \ {s}) \cup H, y, cur, n)
        BY <3>5, ReplaceUnits
    <3> QED
        BY <3>4, <3>6 DEF UnitsCut
  <2>10. \A x \in 0..PageUnits - 1 : x \notin UnitsOf(F, z) => m3[x] = m[x]
      BY <1>21, <2>2, <2>6, InUnits DEF Written
  <2>11. Carved(m, F, z, r, n, G, y)
    <3>1. r.mem = m3 /\ r.at = cur /\ r.freelist = first
        BY <1>17
    <3>2. r.freelist \in 0..PageUnits /\ r.at \in Nat /\ r.at + n <= PageUnits
        BY <1>1, <1>6, <3>1, PageFacts
    <3>3. r.mem \in Memory
        BY <2>2, <3>1 DEF Written
    <3> HIDE DEF G
    <3> QED
        BY <2>8, <2>9, <2>10, <3>1, <3>2, <3>3 DEF Carved
  <2> QED
      BY <1>18, <2>11
<1> QED
    BY <1>29, <1>30

LEMMA CarveHeld ==
    ASSUME NEW m \in Memory, NEW first, NEW F, NEW z, ListHeld(m, first, F, z),
           NEW n \in Nat, 0 < n, NEW align \in Nat, align % SLOB_UNIT = 0,
           NEW r \in slob_page_alloc(m, first, n, align)
    PROVE  \E G, y : Carved(m, F, z, r, n, G, y)
<1>1. PICK blocks : blocks = FreeBlocks(m, first)
    OBVIOUS
<1>2. Walk(blocks, m, first, F)
    BY <1>1, Listing
<1>3. PICK i \in DOMAIN blocks :
          /\ Fitting(m, blocks[i], n, align)
          /\ r = Carve(m, first, IF i = 1 THEN -1 ELSE blocks[i - 1], blocks[i], n, align)
    BY <1>1 DEF slob_page_alloc, Picks, Candidates
<1>4. PICK s : s = blocks[i]
    OBVIOUS
<1>5. PICK p : p = IF i = 1 THEN -1 ELSE blocks[i - 1]
    OBVIOUS
<1>6. blocks \in Seq(F) /\ Len(blocks) \in Nat /\ i \in 1..Len(blocks)
    BY <1>2 DEF Walk
<1>7. s \in F
    BY <1>4, <1>6
<1>8. InFront(m, first, F, p, s)
  <2>1. CASE i = 1
      BY <1>2, <1>4, <1>5, <2>1 DEF InFront, Walk
  <2>2. CASE i # 1
    <3>1. i - 1 \in 1..Len(blocks) - 1 /\ i - 1 \in 1..Len(blocks) /\ (i - 1) + 1 = i
        BY <1>6, <2>2
    <3>2. blocks[i - 1] \in F
        BY <1>6, <3>1
    <3>3. slob_next(m, blocks[i - 1]) = s
        BY <1>2, <1>4, <3>1 DEF Walk
    <3> QED
        BY <1>5, <2>2, <3>2, <3>3 DEF InFront
  <2> QED
      BY <2>1, <2>2
<1>9. PICK d : d = Delta(s, align)
    OBVIOUS
<1>10. s \in Nat /\ z[s] \in Nat /\ slob_units(m, s) = z[s]
    BY <1>7, Reads, PageFacts
<1>11. d \in Nat
    BY <1>9, <1>10, DeltaNatural
<1>12. n + d <= z[s]
    BY <1>3, <1>4, <1>9, <1>10 DEF Fitting
<1>13. r = Carve(m, first, p, s, n, align)
    BY <1>3, <1>4, <1>5
<1>14. CASE d = 0
  <2>1. n <= z[s] /\ Delta(s, align) = 0
      BY <1>9, <1>12, <1>14
  <2> QED
      BY <1>7, <1>8, <1>13, <2>1, CarvePlain
<1>15. CASE d # 0
  <2>1. 0 < d
      BY <1>11, <1>15
  <2> QED
      BY <1>7, <1>8, <1>9, <1>11, <1>12, <1>13, <2>1, CarveAligned
<1> QED
    BY <1>14, <1>15

-----------------------------------------------------------------------------
(* slob_free's insertion *)

\* n units at b are outside of all blocks of F.
Outside(F, z, b, n) == \A x \in Covers(b, n) : x \notin UnitsOf(F, z)

LEMMA OutsideOrder ==
    ASSUME NEW m, NEW first, NEW F, NEW z, ListHeld(m, first, F, z),
           NEW b \in Nat, NEW n \in Nat, 0 < n, Outside(F, z, b, n)
    PROVE  \A t \in F : (t < b /\ t + z[t] <= b) \/ (b < t /\ b + n <= t)
<1>1. ASSUME NEW t \in F PROVE (t < b /\ t + z[t] <= b) \/ (b < t /\ b + n <= t)
  <2>1. t \in Int /\ z[t] \in Int /\ 1 <= z[t]
      BY ListNumbers
  <2>2. \A x \in Covers(b, n) : x \notin Covers(t, z[t])
      BY InUnits DEF Outside
  <2>3. b \in Covers(b, n) /\ t \in Covers(t, z[t])
      BY <2>1 DEF Covers
  <2>4. b \notin Covers(t, z[t]) /\ t \notin Covers(b, n)
      BY <2>2, <2>3
  <2> QED
      BY <2>1, <2>4 DEF Covers
<1> QED
    BY <1>1

\* The freed block with the next one, if they touch: it ends at e, and k is behind it.
JoinedNext(m, m1, F, z, b, n, e, k) ==
    /\ e \in Nat /\ b + n <= e /\ e <= PageUnits /\ Written(m, m1, b, e - b, k)
    /\ k \in F \cup {PageUnits} /\ k \in Nat /\ e <= k /\ (e < k \/ k = PageUnits)
    /\ \A t \in F : t < e \/ k <= t
    /\ \A x : x \in Covers(b, e - b)
                 <=> x \in Covers(b, n) \/ \E t \in F : b <= t /\ t < e /\ x \in Covers(t, z[t])

LEMMA JoinNext ==
    ASSUME NEW m \in Memory, NEW first, NEW F, NEW z, ListHeld(m, first, F, z),
           NEW b \in Nat, NEW n \in Nat, 0 < n, b + n <= PageUnits, Outside(F, z, b, n),
           NEW next \in F \cup {PageUnits}, b < next, \A t \in F : t < b \/ next <= t,
           NEW m1, m1 = IF JoinsNext(b, n, next)
                        THEN set_slob(m, b, n + slob_units(m, next), slob_next(m, next))
                        ELSE set_slob(m, b, n, next)
    PROVE  \E e, k : JoinedNext(m, m1, F, z, b, n, e, k)
<1>1. /\ \A t \in F : /\ t \in Int /\ 0 <= t /\ t < PageUnits
                      /\ z[t] \in Int /\ 1 <= z[t] /\ t + z[t] <= PageUnits
      /\ \A u, t \in F : u < t => u + z[u] < t
    BY ListNumbers
<1>2. \A t \in F : (t < b /\ t + z[t] <= b) \/ (b < t /\ b + n <= t)
    BY OutsideOrder
<1>3. next \in Nat /\ next <= PageUnits /\ b + n <= next
    BY <1>1, <1>2, PageFacts
<1>4. CASE JoinsNext(b, n, next)
  <2>1. next \in F /\ b + n = next
      BY <1>4 DEF JoinsNext
  <2>2. PICK k : k = slob_next(m, next)
      OBVIOUS
  <2>3. PICK e : e = next + z[next]
      OBVIOUS
  <2>4. slob_units(m, next) = z[next] /\ Follows(F, next, k) /\ k \in 1..PageUnits
      BY <2>1, <2>2, Reads
  <2>5. e \in Nat /\ e <= PageUnits /\ e - b = n + z[next] /\ z[next] \in Nat /\ next < e
      BY <1>1, <1>3, <2>1, <2>3, PageFacts
  <2>6. k \in F \cup {PageUnits} /\ next < k /\ k \in Nat /\ k <= PageUnits
      BY <2>4, PageFacts DEF Follows
  <2>7. e <= k /\ (e < k \/ k = PageUnits)
      BY <1>1, <2>1, <2>3, <2>5, <2>6
  <2>8. \A t \in F : t < e \/ k <= t
      BY <1>1, <2>4, <2>5, <2>6 DEF Follows
  <2>9. m1 = set_slob(m, b, e - b, k)
      BY <1>4, <2>2, <2>4, <2>5
  <2>10. Written(m, m1, b, e - b, k)
    <3>1. e - b \in Nat /\ 0 < e - b /\ b + (e - b) <= PageUnits /\ k \in Int
        BY <2>5, <2>6, PageFacts
    <3> QED
        BY <2>9, <3>1, SetSlob
  <2>11. \A t \in F : b <= t /\ t < e => t = next
      BY <1>1, <1>3, <2>5, <2>6, <2>7, <2>8, <2>4 DEF Follows
  <2>12. \A x : x \in Covers(b, e - b) <=> x \in Covers(b, n) \/ x \in Covers(next, z[next])
      BY <1>3, <2>1, <2>3, <2>5 DEF Covers
  <2>13. b <= next /\ b + n <= e
      BY <1>3, <2>1, <2>5
  <2>14. \A x : x \in Covers(b, e - b)
                 <=> x \in Covers(b, n) \/ \E t \in F : b <= t /\ t < e /\ x \in Covers(t, z[t])
      BY <2>1, <2>5, <2>11, <2>12, <2>13
  <2> QED
      BY <2>5, <2>6, <2>7, <2>8, <2>10, <2>13, <2>14 DEF JoinedNext
<1>5. CASE ~JoinsNext(b, n, next)
  <2>1. PICK e \in Nat : e = b + n
      OBVIOUS
  <2>2. e - b = n /\ e <= PageUnits /\ b + n <= e /\ e <= next
      BY <1>3, <2>1, PageFacts
  <2>3. e < next \/ next = PageUnits
      BY <1>3, <1>5, <2>1, PageFacts DEF JoinsNext
  <2>4. Written(m, m1, b, e - b, next)
      BY <1>3, <1>5, <2>2, SetSlob
  <2>5. \A t \in F : t < e \/ next <= t
      BY <1>1, <2>1
  <2>6. \A t \in F : ~(b <= t /\ t < e)
      BY <1>1, <1>2, <2>1
  <2>7. \A x : x \in Covers(b, e - b)
                 <=> x \in Covers(b, n) \/ \E t \in F : b <= t /\ t < e /\ x \in Covers(t, z[t])
      BY <2>2, <2>6
  <2> QED
      BY <1>3, <2>2, <2>3, <2>4, <2>5, <2>7 DEF JoinedNext
<1> QED
    BY <1>4, <1>5

LEMMA PrevFound ==
    ASSUME NEW m, NEW first, NEW F, NEW z, ListHeld(m, first, F, z),
           NEW b \in Nat, b < PageUnits, first < b, b \notin F,
           NEW blocks, blocks = FreeBlocks(m, first),
           NEW prev, prev = blocks[FreePrev(m, blocks, b)]
    PROVE  prev \in F /\ prev < b /\ b < slob_next(m, prev)
<1>1. Walk(blocks, m, first, F)
    BY Listing
<1>2. blocks \in Seq(F) /\ Len(blocks) \in Nat /\ 1 <= Len(blocks) /\ DOMAIN blocks = 1..Len(blocks)
    BY <1>1 DEF Walk
<1>3. \A t \in F : t \in Int /\ slob_next(m, t) \in Int /\ slob_next(m, t) \in F \cup {PageUnits}
    BY ListNumbers, Reads DEF Follows
<1> DEFINE T == {i \in 1..Len(blocks) : slob_next(m, blocks[i]) >= b}
           Found(i) == /\ slob_next(m, blocks[i]) >= b
                       /\ \A j \in 1..i - 1 : slob_next(m, blocks[j]) < b
<1>4. \E i \in DOMAIN blocks : Found(i)
  <2>1. slob_next(m, blocks[Len(blocks)]) = PageUnits
      BY <1>1 DEF Walk
  <2>2. Len(blocks) \in T
      BY <1>2, <2>1, PageFacts
  <2>3. T \in SUBSET Nat /\ T # {}
      BY <2>2
  <2>4. PICK i \in T : \A j \in T : i <= j
      BY <2>3, LeastNatural
  <2>5. ASSUME NEW j \in 1..i - 1 PROVE slob_next(m, blocks[j]) < b
    <3>1. j \in 1..Len(blocks) /\ ~(i <= j)
        BY <1>2, <2>4
    <3>2. j \notin T
        BY <2>4, <3>1
    <3>3. blocks[j] \in F
        BY <1>2, <3>1
    <3> QED
        BY <1>3, <3>1, <3>2, <3>3
  <2> QED
      BY <1>2, <2>4, <2>5
<1>5. PICK i \in DOMAIN blocks : prev = blocks[i] /\ Found(i)
    BY <1>4 DEF FreePrev
<1>6. prev \in F /\ slob_next(m, prev) >= b /\ i \in 1..Len(blocks)
    BY <1>2, <1>5
<1>7. b < slob_next(m, prev)
    BY <1>3, <1>6, PageFacts
<1>8. prev < b
  <2>1. CASE i = 1
      BY <1>1, <1>5, <2>1 DEF Walk
  <2>2. CASE i # 1
    <3>1. i - 1 \in 1..i - 1 /\ i - 1 \in 1..Len(blocks) - 1 /\ (i - 1) + 1 = i
        BY <1>2, <1>6, <2>2
    <3>2. slob_next(m, blocks[i - 1]) < b
        BY <1>5, <3>1
    <3>3. slob_next(m, blocks[i - 1]) = blocks[i]
        BY <1>1, <3>1 DEF Walk
    <3> QED
        BY <1>5, <3>2, <3>3
  <2> QED
      BY <2>1, <2>2
<1> QED
    BY <1>6, <1>7, <1>8

\* r is the blocks F with n units at b added to them: the blocks G.
Inserted(m, F, z, r, b, n, G, y) ==
    /\ r.mem \in Memory /\ r.freelist \in 0..PageUnits
    /\ ListHeld(r.mem, r.freelist, G, y)
    /\ \A x : x \in UnitsOf(G, y) <=> x \in UnitsOf(F, z) \/ x \in Covers(b, n)
    /\ \A x \in 0..PageUnits - 1 : x \notin UnitsOf(F, z) /\ x \notin Covers(b, n) => r.mem[x] = m[x]

\* The blocks from a on to e are one block now, and hold the n units at b as well.
OneZone(F, z, a, e, b, n) ==
    \A x : x \in Covers(a, e - a)
              <=> x \in Covers(b, n) \/ \E t \in F : a <= t /\ t < e /\ x \in Covers(t, z[t])

\* In n2 one block from a to e has the place of all blocks there, and k is behind it.
Zoned(m, n2, F, z, a, e, k, b, n) ==
    /\ a \in Nat /\ e \in Nat /\ a < e /\ e <= PageUnits
    /\ k \in F \cup {PageUnits} /\ k \in Nat /\ e <= k /\ (e < k \/ k = PageUnits)
    /\ \A t \in F : t < e \/ k <= t
    /\ n2 \in Memory /\ Stored(n2, a, e - a, k)
    /\ \A t \in F : t < a => /\ t + z[t] < a
                             /\ Stored(n2, t, z[t], IF slob_next(m, t) < a
                                                    THEN slob_next(m, t) ELSE a)
    /\ \A t \in F : e <= t => Stored(n2, t, z[t], slob_next(m, t))
    /\ \A x \in 0..PageUnits - 1 : x \notin UnitsOf(F, z) /\ x \notin Covers(b, n) => n2[x] = m[x]
    /\ OneZone(F, z, a, e, b, n)

LEMMA ZoneHeld ==
    ASSUME NEW m, NEW first, NEW F, NEW z, ListHeld(m, first, F, z),
           NEW n2, NEW a, NEW e, NEW k, NEW b, NEW n, Zoned(m, n2, F, z, a, e, k, b, n),
           NEW f, f = IF first < a THEN first ELSE a,
           NEW r, r = [mem |-> n2, freelist |-> f]
    PROVE  \E G, y : Inserted(m, F, z, r, b, n, G, y)
<1>0. /\ a \in Nat /\ e \in Nat /\ a < e /\ e <= PageUnits
      /\ k \in F \cup {PageUnits} /\ k \in Nat /\ e <= k /\ (e < k \/ k = PageUnits)
      /\ \A t \in F : t < e \/ k <= t
      /\ n2 \in Memory /\ Stored(n2, a, e - a, k)
    BY DEF Zoned
<1>1. /\ \A t \in F : /\ t \in Int /\ 0 <= t /\ t < PageUnits
                      /\ z[t] \in Int /\ 1 <= z[t] /\ t + z[t] <= PageUnits
      /\ first \in F
    BY ListNumbers
<1>2. PICK y : y = [u \in 0..PageUnits - 1 |-> IF u = a THEN e - a ELSE z[u]]
    OBVIOUS
<1>3. a < PageUnits /\ a \in 0..PageUnits - 1 /\ y[a] = e - a
    BY <1>0, <1>2, PageFacts
<1>4. \A t \in F : t < a \/ e <= t => y[t] = z[t] /\ t # a
  <2>1. \A t \in F : t \in 0..PageUnits - 1
      BY <1>1, PageFacts
  <2> QED
      BY <1>0, <1>1, <1>2, <2>1
<1>5. NewBlocks(n2, {a}, y, a, k, a)
  <2>1. y[a] \in 1..PageUnits /\ a + y[a] <= PageUnits /\ (a + y[a] < k \/ k = PageUnits)
        /\ Stored(n2, a, y[a], k) /\ a <= a
      BY <1>0, <1>3, PageFacts
  <2> QED
      BY <1>0, <2>1, OneBlock
<1>6. OldBlocks(m, n2, F, z, y, a, e, a)
    BY <1>4 DEF OldBlocks, Before, After, Zoned
<1>7. PICK G : G = Kept(F, a, e) \cup {a}
    OBVIOUS
<1>8. ListHeld(n2, f, G, y)
  <2>1. Kept(F, a, e) \cup {a} # {} /\ a <= e
      BY <1>0
  <2>2. ListHeld(n2, IF first < a THEN first ELSE a, Kept(F, a, e) \cup {a}, y)
      BY <1>0, <1>5, <1>6, <2>1, Rezone
  <2> QED
      BY <1>7, <2>2
<1>9. ASSUME NEW x PROVE x \in UnitsOf(G, y) <=> x \in UnitsOf(F, z) \/ x \in Covers(b, n)
  <2>1. x \in UnitsOf(F, z) <=> \E t \in F : x \in Covers(t, z[t])
      BY InUnits
  <2>2. x \in UnitsOf(G, y) <=> \E t \in G : x \in Covers(t, y[t])
      BY InUnits
  <2>3. \A t \in G : t = a \/ (t \in F /\ (t < a \/ e <= t))
      BY <1>7 DEF Kept, Before, After
  <2>4. a \in G /\ \A t \in F : t < a \/ e <= t => t \in G
      BY <1>7 DEF Kept, Before, After
  <2>5. x \in Covers(a, e - a)
           <=> x \in Covers(b, n) \/ \E t \in F : a <= t /\ t < e /\ x \in Covers(t, z[t])
      BY DEF OneZone, Zoned
  <2>6. ASSUME x \in UnitsOf(G, y) PROVE x \in UnitsOf(F, z) \/ x \in Covers(b, n)
      BY <1>3, <1>4, <2>1, <2>2, <2>3, <2>5, <2>6
  <2>7. ASSUME x \in Covers(b, n) PROVE x \in UnitsOf(G, y)
      BY <1>3, <2>2, <2>4, <2>5, <2>7
  <2>8. ASSUME x \in UnitsOf(F, z) PROVE x \in UnitsOf(G, y)
    <3>1. PICK t \in F : x \in Covers(t, z[t])
        BY <2>1, <2>8
    <3>2. CASE t < a \/ e <= t
        BY <1>4, <2>2, <2>4, <3>1, <3>2
    <3>3. CASE a <= t /\ t < e
        BY <1>3, <2>2, <2>4, <2>5, <3>1, <3>3
    <3> QED
        BY <1>0, <1>1, <3>1, <3>2, <3>3
  <2> QED
      BY <2>6, <2>7, <2>8
<1>10. f \in 0..PageUnits
    BY <1>0, <1>1, <1>3, PageFacts
<1>11. Inserted(m, F, z, r, b, n, G, y)
    BY <1>0, <1>8, <1>9, <1>10 DEF Inserted, Zoned
<1> QED
    BY <1>11

\* Memory outside what was written is as it was, for the blocks behind e.
LEMMA BehindKept ==
    ASSUME NEW m, NEW first, NEW F, NEW z, ListHeld(m, first, F, z), NEW n2, NEW t \in F,
           \A x \in Covers(t, z[t]) : n2[x] = m[x]
    PROVE  Stored(n2, t, z[t], slob_next(m, t))
<1>1. t \in Nat /\ z[t] \in Nat /\ 0 < z[t] /\ Stored(m, t, z[t], slob_next(m, t))
    BY Reads, PageFacts
<1> QED
    BY <1>1, StoredFrame

\* The freed block comes before all others.
LEMMA InsertFront ==
    ASSUME NEW m \in Memory, NEW first, NEW F, NEW z, ListHeld(m, first, F, z),
           NEW b \in Nat, NEW n \in Nat, 0 < n, b + n <= PageUnits, Outside(F, z, b, n), b < first
    PROVE  \E G, y : Inserted(m, F, z, Insert(m, first, b, n), b, n, G, y)
<1>1. /\ \A t \in F : /\ t \in Int /\ 0 <= t /\ t < PageUnits
                      /\ z[t] \in Int /\ 1 <= z[t] /\ t + z[t] <= PageUnits
      /\ first \in F /\ \A t \in F : first <= t
    BY ListNumbers
<1>2. PICK m1 : m1 = IF JoinsNext(b, n, first)
                     THEN set_slob(m, b, n + slob_units(m, first), slob_next(m, first))
                     ELSE set_slob(m, b, n, first)
    OBVIOUS
<1>3. PICK r : r = [mem |-> m1, freelist |-> b]
    OBVIOUS
<1>4. Insert(m, first, b, n) = r
  <2>1. JoinsNext(b, n, first) <=> b + n = first
      BY <1>1, PageFacts DEF JoinsNext
  <2> QED
      BY <1>2, <1>3, <2>1 DEF Insert
<1>5. PICK e, k : JoinedNext(m, m1, F, z, b, n, e, k)
  <2>1. first \in F \cup {PageUnits} /\ \A t \in F : t < b \/ first <= t
      BY <1>1
  <2> QED
      BY <1>2, <2>1, JoinNext
<1>6. /\ e \in Nat /\ b + n <= e /\ e <= PageUnits /\ Written(m, m1, b, e - b, k)
      /\ k \in F \cup {PageUnits} /\ k \in Nat /\ e <= k /\ (e < k \/ k = PageUnits)
      /\ \A t \in F : t < e \/ k <= t
      /\ OneZone(F, z, b, e, b, n)
    BY <1>5 DEF JoinedNext, OneZone
<1>7. \A t \in F : ~(t < b)
    BY <1>1
<1>8. \A t \in F : e <= t => Stored(m1, t, z[t], slob_next(m, t))
  <2>1. ASSUME NEW t \in F, e <= t PROVE Stored(m1, t, z[t], slob_next(m, t))
    <3>1. \A x \in Covers(t, z[t]) : x \in 0..PageUnits - 1 /\ x \notin Covers(b, e - b)
        BY <1>1, <1>6, <2>1, PageFacts DEF Covers
    <3>2. \A x \in Covers(t, z[t]) : m1[x] = m[x]
        BY <1>6, <3>1 DEF Written
    <3> QED
        BY <3>2, BehindKept
  <2> QED
      BY <2>1
<1>9. \A x \in 0..PageUnits - 1 : x \notin UnitsOf(F, z) /\ x \notin Covers(b, n) => m1[x] = m[x]
  <2>1. \A x : x \in Covers(b, e - b) => x \in UnitsOf(F, z) \/ x \in Covers(b, n)
      BY <1>6, InUnits DEF OneZone
  <2> QED
      BY <1>6, <2>1 DEF Written
<1>10. m1 \in Memory /\ Stored(m1, b, e - b, k) /\ b < e
    BY <1>6 DEF Written
<1>11. Zoned(m, m1, F, z, b, e, k, b, n)
    BY <1>6, <1>7, <1>8, <1>9, <1>10 DEF Zoned
<1>12. b = IF first < b THEN first ELSE b
    BY <1>1
<1> QED
    BY <1>3, <1>4, <1>11, <1>12, ZoneHeld

\* It comes behind the block prev.
LEMMA InsertBehind ==
    ASSUME NEW m \in Memory, NEW first, NEW F, NEW z, ListHeld(m, first, F, z),
           NEW b \in Nat, NEW n \in Nat, 0 < n, b + n <= PageUnits, Outside(F, z, b, n), ~(b < first)
    PROVE  \E G, y : Inserted(m, F, z, Insert(m, first, b, n), b, n, G, y)
<1>1. /\ \A t \in F : /\ t \in Int /\ 0 <= t /\ t < PageUnits
                      /\ z[t] \in Int /\ 1 <= z[t] /\ t + z[t] <= PageUnits
      /\ \A u, t \in F : u < t => u + z[u] < t
      /\ first \in F /\ \A t \in F : first <= t
    BY ListNumbers
<1>2. \A t \in F : (t < b /\ t + z[t] <= b) \/ (b < t /\ b + n <= t)
    BY OutsideOrder
<1>3. PICK prev : prev = FreeBlocks(m, first)[FreePrev(m, FreeBlocks(m, first), b)]
    OBVIOUS
<1>4. prev \in F /\ prev < b /\ b < slob_next(m, prev)
  <2>1. b < PageUnits /\ first < b /\ b \notin F
      BY <1>1, <1>2, PageFacts
  <2> QED
      BY <1>3, <2>1, PrevFound
<1>5. PICK next : next = slob_next(m, prev)
    OBVIOUS
<1>6. \A t \in F : Follows(F, t, slob_next(m, t)) /\ slob_next(m, t) \in Int
                   /\ slob_units(m, t) = z[t] /\ Stored(m, t, z[t], slob_next(m, t))
    BY Reads
<1>7. PICK m1 : m1 = IF JoinsNext(b, n, next)
                     THEN set_slob(m, b, n + slob_units(m, next), slob_next(m, next))
                     ELSE set_slob(m, b, n, next)
    OBVIOUS
<1>8. PICK m2 : m2 = IF prev + slob_units(m1, prev) = b
                     THEN set_slob(m1, prev, slob_units(m1, b) + slob_units(m1, prev), slob_next(m1, b))
                     ELSE set_slob(m1, prev, slob_units(m1, prev), b)
    OBVIOUS
<1>9. PICK r : r = [mem |-> m2, freelist |-> first]
    OBVIOUS
<1>10. Insert(m, first, b, n) = r
    BY <1>3, <1>5, <1>7, <1>8, <1>9 DEF Insert
<1>11. next \in F \cup {PageUnits} /\ b < next /\ \A t \in F : t <= prev \/ next <= t
    BY <1>4, <1>5, <1>6 DEF Follows
<1>12. PICK e, k : JoinedNext(m, m1, F, z, b, n, e, k)
  <2>1. \A t \in F : t < b \/ next <= t
      BY <1>1, <1>4, <1>11
  <2> QED
      BY <1>7, <1>11, <2>1, JoinNext
<1>13. /\ e \in Nat /\ b + n <= e /\ e <= PageUnits /\ Written(m, m1, b, e - b, k)
       /\ k \in F \cup {PageUnits} /\ k \in Nat /\ e <= k /\ (e < k \/ k = PageUnits)
       /\ \A t \in F : t < e \/ k <= t
       /\ OneZone(F, z, b, e, b, n)
    BY <1>12 DEF JoinedNext, OneZone
<1>14. /\ prev \in Nat /\ z[prev] \in Nat /\ 0 < z[prev] /\ prev + z[prev] <= b
       /\ prev + z[prev] <= PageUnits /\ b < e
    BY <1>1, <1>2, <1>4, <1>13, PageFacts
<1>15. /\ m1 \in Memory /\ Stored(m1, b, e - b, k)
       /\ \A x \in 0..PageUnits - 1 : x \notin Covers(b, e - b) => m1[x] = m[x]
    BY <1>13 DEF Written
<1>16. slob_units(m1, b) = e - b /\ slob_next(m1, b) = k /\ slob_units(m1, prev) = z[prev]
  <2>1. e - b \in Nat /\ 0 < e - b /\ b < k
      BY <1>13, <1>14
  <2>2. \A x \in Covers(prev, z[prev]) : x \in 0..PageUnits - 1 /\ x \notin Covers(b, e - b)
      BY <1>13, <1>14, PageFacts DEF Covers
  <2>3. Stored(m1, prev, z[prev], next)
    <3>1. \A x \in Covers(prev, z[prev]) : m1[x] = m[x]
        BY <1>15, <2>2
    <3> QED
        BY <1>4, <1>5, <3>1, BehindKept
  <2>4. next \in Nat /\ prev < next
      BY <1>1, <1>4, <1>11, <1>14, PageFacts
  <2> QED
      BY <1>13, <1>14, <1>15, <2>1, <2>3, <2>4, StoredRead
\* blocks that are neither touched by the freed one nor in front of it
<1>17. \A x : x \in Covers(b, e - b) => x \in UnitsOf(F, z) \/ x \in Covers(b, n)
    BY <1>13, InUnits DEF OneZone
<1>18. \A t \in F : t < b /\ t # prev => t < prev /\ slob_next(m, t) <= prev
  <2>1. ASSUME NEW t \in F, t < b, t # prev PROVE t < prev /\ slob_next(m, t) <= prev
    <3>1. t < prev
        BY <1>1, <1>11, <1>14, <2>1, PageFacts
    <3> QED
        BY <1>1, <1>4, <1>6, <1>14, <3>1 DEF Follows
  <2> QED
      BY <2>1
<1>19. first \in Int /\ first <= prev
    BY <1>1, <1>4
<1>20. CASE prev + z[prev] = b
  <2>1. m2 = set_slob(m1, prev, e - prev, k)
    <3>1. (e - b) + z[prev] = e - prev
        BY <1>13, <1>14, <1>20
    <3> QED
        BY <1>8, <1>16, <1>20, <3>1
  <2>2. Written(m1, m2, prev, e - prev, k)
    <3>1. e - prev \in Nat /\ 0 < e - prev /\ prev + (e - prev) <= PageUnits
        BY <1>13, <1>14, PageFacts
    <3> QED
        BY <1>13, <1>14, <1>15, <2>1, <3>1, SetSlob
  <2>3. \A x \in 0..PageUnits - 1 : x \notin Covers(prev, e - prev) => m2[x] = m[x]
    <3>1. \A x : x \notin Covers(prev, e - prev) => x \notin Covers(b, e - b)
        BY <1>13, <1>14 DEF Covers
    <3> QED
        BY <1>15, <2>2, <3>1 DEF Written
  <2>4. \A t \in F : t < prev \/ e <= t => Stored(m2, t, z[t], slob_next(m, t))
    <3>1. ASSUME NEW t \in F, t < prev \/ e <= t PROVE Stored(m2, t, z[t], slob_next(m, t))
      <4>1. t < prev => t + z[t] < prev
          BY <1>1, <1>4
      <4>2. \A x \in Covers(t, z[t]) : x \in 0..PageUnits - 1 /\ x \notin Covers(prev, e - prev)
          BY <1>1, <1>13, <1>14, <3>1, <4>1, PageFacts DEF Covers
      <4>3. \A x \in Covers(t, z[t]) : m2[x] = m[x]
          BY <2>3, <4>2
      <4> QED
          BY <4>3, BehindKept
    <3> QED
        BY <3>1
  <2>5. \A t \in F : t < prev => /\ t + z[t] < prev
                                 /\ Stored(m2, t, z[t], IF slob_next(m, t) < prev
                                                        THEN slob_next(m, t) ELSE prev)
    <3>1. ASSUME NEW t \in F, t < prev
          PROVE  /\ t + z[t] < prev
                 /\ Stored(m2, t, z[t], IF slob_next(m, t) < prev THEN slob_next(m, t) ELSE prev)
      <4>1. t + z[t] < prev /\ t < b /\ t # prev
          BY <1>1, <1>4, <1>14, <3>1
      <4>2. slob_next(m, t) <= prev /\ slob_next(m, t) \in Int
          BY <1>6, <1>18, <4>1
      <4>3. slob_next(m, t) = IF slob_next(m, t) < prev THEN slob_next(m, t) ELSE prev
          BY <1>14, <4>2
      <4>4. Stored(m2, t, z[t], slob_next(m, t))
          BY <2>4, <3>1
      <4> QED
          BY <4>1, <4>3, <4>4
    <3> QED
        BY <3>1
  <2>6. OneZone(F, z, prev, e, b, n)
    <3>1. ASSUME NEW x
          PROVE  x \in Covers(prev, e - prev)
                    <=> x \in Covers(b, n) \/ \E t \in F : prev <= t /\ t < e /\ x \in Covers(t, z[t])
      <4>1. x \in Covers(prev, e - prev) <=> x \in Covers(prev, z[prev]) \/ x \in Covers(b, e - b)
          BY <1>13, <1>14, <1>20 DEF Covers
      <4>2. x \in Covers(b, e - b)
               <=> x \in Covers(b, n) \/ \E t \in F : b <= t /\ t < e /\ x \in Covers(t, z[t])
          BY <1>13 DEF OneZone
      <4>3. \A t \in F : prev <= t /\ t < e => t = prev \/ (b <= t /\ t < e)
          BY <1>1, <1>11, <1>13, <1>14, PageFacts
      <4>4. prev <= prev /\ prev < e /\ \A t \in F : b <= t => prev <= t
          BY <1>1, <1>13, <1>14
      <4> QED
          BY <1>4, <4>1, <4>2, <4>3, <4>4
    <3> QED
        BY <3>1 DEF OneZone
  <2>7. \A x \in 0..PageUnits - 1 : x \notin UnitsOf(F, z) /\ x \notin Covers(b, n) => m2[x] = m[x]
    <3>1. \A x : x \in Covers(prev, e - prev) => x \in UnitsOf(F, z) \/ x \in Covers(b, n)
        BY <2>6, InUnits DEF OneZone
    <3> QED
        BY <2>3, <3>1
  <2>8. Zoned(m, m2, F, z, prev, e, k, b, n)
    <3>1. m2 \in Memory /\ Stored(m2, prev, e - prev, k) /\ prev < e
        BY <1>13, <1>14, <2>2 DEF Written
    <3>2. \A t \in F : e <= t => Stored(m2, t, z[t], slob_next(m, t))
        BY <2>4
    <3> QED
        BY <1>13, <1>14, <2>5, <2>6, <2>7, <3>1, <3>2 DEF Zoned
  <2>9. first = IF first < prev THEN first ELSE prev
      BY <1>14, <1>19
  <2> QED
      BY <1>9, <1>10, <2>8, <2>9, ZoneHeld
<1>21. CASE prev + z[prev] # b
  <2>1. m2 = set_slob(m1, prev, z[prev], b)
      BY <1>8, <1>16, <1>21
  <2>2. Written(m1, m2, prev, z[prev], b)
      BY <1>14, <1>15, <2>1, SetSlob
  <2>3. \A x \in 0..PageUnits - 1 : x \notin Covers(prev, z[prev]) /\ x \notin Covers(b, e - b) => m2[x] = m[x]
      BY <1>15, <2>2 DEF Written
  <2>4. \A t \in F : (t < b /\ t # prev) \/ e <= t => Stored(m2, t, z[t], slob_next(m, t))
    <3>1. ASSUME NEW t \in F, (t < b /\ t # prev) \/ e <= t PROVE Stored(m2, t, z[t], slob_next(m, t))
      <4>1. t < b /\ t # prev => t + z[t] < prev
          BY <1>1, <1>4, <1>18
      <4>2. \A x \in Covers(t, z[t]) : x \in 0..PageUnits - 1 /\ x \notin Covers(prev, z[prev])
                                       /\ x \notin Covers(b, e - b)
          BY <1>1, <1>13, <1>14, <3>1, <4>1, PageFacts DEF Covers
      <4>3. \A x \in Covers(t, z[t]) : m2[x] = m[x]
          BY <2>3, <4>2
      <4> QED
          BY <4>3, BehindKept
    <3> QED
        BY <3>1
  <2>5. \A t \in F : t < b => /\ t + z[t] < b
                              /\ Stored(m2, t, z[t], IF slob_next(m, t) < b
                                                     THEN slob_next(m, t) ELSE b)
    <3>1. ASSUME NEW t \in F, t < b
          PROVE  /\ t + z[t] < b
                 /\ Stored(m2, t, z[t], IF slob_next(m, t) < b THEN slob_next(m, t) ELSE b)
      <4>1. CASE t = prev
        <5>1. t + z[t] < b
            BY <1>14, <1>21, <4>1
        <5>2. ~(slob_next(m, t) < b)
            BY <1>4, <1>6, <4>1
        <5>3. Stored(m2, t, z[t], b)
            BY <2>2, <4>1 DEF Written
        <5> QED
            BY <5>1, <5>2, <5>3
      <4>2. CASE t # prev
        <5>1. t < prev /\ slob_next(m, t) <= prev /\ slob_next(m, t) \in Int
            BY <1>6, <1>18, <3>1, <4>2
        <5>2. t + z[t] < prev
            BY <1>1, <1>4, <5>1
        <5>3. t + z[t] < b /\ slob_next(m, t) < b
            BY <1>1, <1>14, <5>1, <5>2
        <5>4. Stored(m2, t, z[t], slob_next(m, t))
            BY <2>4, <3>1, <4>2
        <5> QED
            BY <5>3, <5>4
      <4> QED
          BY <4>1, <4>2
    <3> QED
        BY <3>1
  <2>6. \A x \in 0..PageUnits - 1 : x \notin UnitsOf(F, z) /\ x \notin Covers(b, n) => m2[x] = m[x]
      BY <1>4, <1>17, <2>3, InUnits
  <2>7. Zoned(m, m2, F, z, b, e, k, b, n)
    <3>1. Stored(m2, b, e - b, k)
      <4>1. \A x \in Covers(b, e - b) : x \in 0..PageUnits - 1 /\ x \notin Covers(prev, z[prev])
          BY <1>13, <1>14, PageFacts DEF Covers
      <4>2. \A x \in Covers(b, e - b) : m2[x] = m1[x]
          BY <2>2, <4>1 DEF Written
      <4>3. e - b \in Nat /\ 0 < e - b
          BY <1>13, <1>14
      <4> QED
          BY <1>15, <4>2, <4>3, StoredFrame
    <3>2. m2 \in Memory
        BY <2>2 DEF Written
    <3>3. \A t \in F : e <= t => Stored(m2, t, z[t], slob_next(m, t))
        BY <2>4
    <3> QED
        BY <1>13, <1>14, <2>5, <2>6, <3>1, <3>2, <3>3 DEF Zoned
  <2>8. first = IF first < b THEN first ELSE b
      BY <1>14, <1>19
  <2> QED
      BY <1>9, <1>10, <2>7, <2>8, ZoneHeld
<1> QED
    BY <1>20, <1>21

LEMMA InsertHeld ==
    ASSUME NEW m \in Memory, NEW first, NEW F, NEW z, ListHeld(m, first, F, z),
           NEW b \in Nat, NEW n \in Nat, 0 < n, b + n <= PageUnits, Outside(F, z, b, n)
    PROVE  \E G, y : Inserted(m, F, z, Insert(m, first, b, n), b, n, G, y)
    BY InsertFront, InsertBehind

-----------------------------------------------------------------------------
(* A page: free blocks and what is in use *)

AllUnits == 0..PageUnits - 1

LEMMA CountUnits ==
    /\ IsFiniteSet(AllUnits) /\ Cardinality(AllUnits) = PageUnits
    /\ \A U \in SUBSET AllUnits : /\ IsFiniteSet(U) /\ Cardinality(U) \in 0..PageUnits
                                  /\ Cardinality(U) = 0 <=> U = {}
                                  /\ Cardinality(U) = PageUnits => U = AllUnits
<1>1. 0 \in Int /\ PageUnits - 1 \in Int
    BY PageFacts
<1>2. IsFiniteSet(AllUnits) /\ Cardinality(AllUnits) = IF 0 > PageUnits - 1 THEN 0 ELSE (PageUnits - 1) - 0 + 1
    BY <1>1, FS_Interval DEF AllUnits
<1>3. Cardinality(AllUnits) = PageUnits
    BY <1>2, PageFacts
<1>4. ASSUME NEW U \in SUBSET AllUnits
      PROVE  /\ IsFiniteSet(U) /\ Cardinality(U) \in 0..PageUnits
             /\ Cardinality(U) = 0 <=> U = {}
             /\ Cardinality(U) = PageUnits => U = AllUnits
  <2>1. /\ IsFiniteSet(U) /\ Cardinality(U) <= Cardinality(AllUnits)
        /\ Cardinality(U) = Cardinality(AllUnits) => U = AllUnits
      BY <1>2, FS_Subset
  <2>2. Cardinality(U) \in Nat
      BY <2>1, FS_CardinalityType
  <2>3. Cardinality(U) = 0 <=> U = {}
      BY <2>1, FS_EmptySet
  <2> QED
      BY <1>3, <2>1, <2>2, <2>3, PageFacts
<1> QED
    BY <1>2, <1>3, <1>4

LEMMA CountCovers ==
    ASSUME NEW a \in Nat, NEW n \in Nat, a + n <= PageUnits
    PROVE  Covers(a, n) \in SUBSET AllUnits /\ Cardinality(Covers(a, n)) = n
<1>1. Covers(a, n) \in SUBSET AllUnits
    BY PageFacts DEF Covers, AllUnits
<1>2. a + n - 1 \in Int /\ a \in Int
    OBVIOUS
<1>3. Cardinality(Covers(a, n)) = IF a > a + n - 1 THEN 0 ELSE (a + n - 1) - a + 1
    BY <1>2, FS_Interval DEF Covers
<1> QED
    BY <1>1, <1>3

\* Units are added to, or taken from, those of a set.
LEMMA CountDisjoint ==
    ASSUME NEW U \in SUBSET AllUnits, NEW a \in Nat, NEW n \in Nat, a + n <= PageUnits,
           \A x \in Covers(a, n) : x \notin U
    PROVE  Cardinality(U \cup Covers(a, n)) = Cardinality(U) + n
<1>1. IsFiniteSet(U) /\ IsFiniteSet(Covers(a, n)) /\ Cardinality(Covers(a, n)) = n
    BY CountUnits, CountCovers
<1>2. Cardinality(U \cup Covers(a, n))
         = Cardinality(U) + Cardinality(Covers(a, n)) - Cardinality(U \cap Covers(a, n))
    BY <1>1, FS_Union
<1>3. U \cap Covers(a, n) = {}
    OBVIOUS
<1>4. Cardinality(U \cap Covers(a, n)) = 0 /\ Cardinality(U) \in Nat
    BY <1>1, <1>3, FS_EmptySet, FS_CardinalityType
<1> QED
    BY <1>1, <1>2, <1>4

\* PageSplit, of the memory m of a page with u free units and the spans W in use.
FreeIn(m, first, u) == IF u = 0 THEN {} ELSE ToSet(FreeBlocks(m, first))
Free(m, first, u) == UnitsOf(FreeIn(m, first, u), SizesOf(m))

Split(m, first, u, W) ==
    /\ u # 0 => ListHeld(m, first, FreeIn(m, first, u), SizesOf(m))
    /\ Cardinality(Free(m, first, u)) = u
    /\ \A s \in W : Covers(s[1], s[2]) \cap Free(m, first, u) = {}
    /\ \A s, r \in W : s # r => Covers(s[1], s[2]) \cap Covers(r[1], r[2]) = {}
    /\ \A x \in 0..PageUnits - 1 :
          x \in Free(m, first, u) \/ \E s \in W : x \in Covers(s[1], s[2])

LEMMA SplitIsPageSplit ==
    ASSUME NEW p
    PROVE  PageSplit(p) <=> Split(mem[p], freelist[p], units[p], UsedSpans(p))
    BY DEF PageSplit, Split, FreeUnits, FreeOn, Free, FreeIn

Spans == {s \in Nat \X Nat : 0 < s[2] /\ s[1] + s[2] <= PageUnits}

\* A list of blocks that hold u units accounts for the free part of a page.
LEMMA SplitFrom ==
    ASSUME NEW m, NEW first, NEW u \in Nat, NEW G, NEW y, G # {} => ListHeld(m, first, G, y),
           Cardinality(UnitsOf(G, y)) = u
    PROVE  /\ Free(m, first, u) = UnitsOf(G, y) /\ UnitsOf(G, y) \in SUBSET AllUnits
           /\ u # 0 => ListHeld(m, first, FreeIn(m, first, u), SizesOf(m))
<1>1. CASE G = {}
  <2>1. UnitsOf(G, y) = {}
      BY <1>1 DEF UnitsOf
  <2>2. u = 0
      BY <2>1, FS_EmptySet
  <2> QED
      BY <2>1, <2>2 DEF Free, FreeIn, UnitsOf
<1>2. CASE G # {}
  <2>1. ListHeld(m, first, G, y)
      BY <1>2
  <2>2. /\ ListHeld(m, first, G, SizesOf(m)) /\ UnitsOf(G, SizesOf(m)) = UnitsOf(G, y)
        /\ ToSet(FreeBlocks(m, first)) = G
      BY <2>1, Canonical
  <2>3. /\ \A s \in G : s \in Int /\ 0 <= s /\ y[s] \in Int /\ 1 <= y[s] /\ s + y[s] <= PageUnits
        /\ first \in G
      BY <2>1, ListNumbers
  <2>4. UnitsOf(G, y) \in SUBSET AllUnits
    <3>1. ASSUME NEW x \in UnitsOf(G, y) PROVE x \in AllUnits
      <4>1. PICK s \in G : x \in Covers(s, y[s])
          BY <3>1, InUnits
      <4> QED
          BY <2>3, <4>1, PageFacts DEF Covers, AllUnits
    <3> QED
        BY <3>1
  <2>5. first \in UnitsOf(G, y)
    <3>1. first \in Covers(first, y[first])
        BY <2>3 DEF Covers
    <3> QED
        BY <2>3, <3>1, InUnits
  <2>6. u # 0
      BY <2>4, <2>5, CountUnits
  <2>7. FreeIn(m, first, u) = G
      BY <2>2, <2>6 DEF FreeIn
  <2> QED
      BY <2>2, <2>4, <2>7 DEF Free
<1> QED
    BY <1>1, <1>2

LEMMA SplitFree ==
    ASSUME NEW m, NEW first, NEW u \in Nat, NEW W, Split(m, first, u, W)
    PROVE  Free(m, first, u) \in SUBSET AllUnits /\ Cardinality(Free(m, first, u)) = u
<1>1. FreeIn(m, first, u) # {} => ListHeld(m, first, FreeIn(m, first, u), SizesOf(m))
    BY DEF Split, FreeIn
<1>2. Cardinality(UnitsOf(FreeIn(m, first, u), SizesOf(m))) = u
    BY DEF Split, Free
<1>3. UnitsOf(FreeIn(m, first, u), SizesOf(m)) \in SUBSET AllUnits
    BY <1>1, <1>2, SplitFrom
<1> QED
    BY <1>2, <1>3 DEF Free

\* n units are cut out of the free blocks; what their owner writes there is in m4.
SplitWith(m4, first4, u4, W4, m, W) ==
    /\ m4 \in Memory /\ first4 \in 0..PageUnits /\ u4 \in Nat
    /\ Split(m4, first4, u4, W4)
    /\ \A s \in W : \A x \in Covers(s[1], s[2]) : m4[x] = m[x]

CutMade(m4, r, u, n, W, m) ==
    /\ SplitWith(m4, r.freelist, u - n, W \cup {<<r.at, n>>}, m, W)
    /\ <<r.at, n>> \in Spans /\ n <= u
    /\ \A s \in W : \A x \in Covers(s[1], s[2]) : x \notin Covers(r.at, n)

LEMMA SplitCut ==
    ASSUME NEW m \in Memory, NEW first, NEW u \in Nat, u # 0, NEW W \in SUBSET Spans,
           Split(m, first, u, W),
           NEW n \in Nat, 0 < n, NEW align \in Nat, align % SLOB_UNIT = 0,
           NEW r \in slob_page_alloc(m, first, n, align),
           NEW m4 \in Memory, \A x \in AllUnits : x \notin Covers(r.at, n) => m4[x] = r.mem[x]
    PROVE  CutMade(m4, r, u, n, W, m)
<1>1. PICK F : F = FreeIn(m, first, u)
    OBVIOUS
<1>2. PICK z : z = SizesOf(m)
    OBVIOUS
<1>3. ListHeld(m, first, F, z)
    BY <1>1, <1>2 DEF Split
<1>4. PICK U : U = Free(m, first, u)
    OBVIOUS
<1>5. U = UnitsOf(F, z) /\ U \in SUBSET AllUnits /\ Cardinality(U) = u
    BY <1>1, <1>2, <1>4, SplitFree DEF Free
<1>6. PICK G, y : Carved(m, F, z, r, n, G, y)
    BY <1>3, CarveHeld
<1>7. /\ r.mem \in Memory /\ r.freelist \in 0..PageUnits
      /\ r.at \in Nat /\ r.at + n <= PageUnits
      /\ G # {} => ListHeld(r.mem, r.freelist, G, y)
      /\ \A x \in Covers(r.at, n) : x \in U
      /\ \A x : x \in UnitsOf(G, y) <=> x \in U /\ x \notin Covers(r.at, n)
      /\ \A x \in AllUnits : x \notin U => r.mem[x] = m[x]
    BY <1>5, <1>6 DEF Carved, AllUnits
<1>8. PICK V : V = UnitsOf(G, y)
    OBVIOUS
<1>9. V \in SUBSET AllUnits /\ U = V \cup Covers(r.at, n) /\ \A x \in Covers(r.at, n) : x \notin V
    BY <1>5, <1>7, <1>8
<1>10. u = Cardinality(V) + n
    BY <1>5, <1>7, <1>9, CountDisjoint
<1>11. Cardinality(V) = u - n /\ u - n \in Nat /\ n <= u
    BY <1>9, <1>10, CountUnits, PageFacts
<1>12. G # {} => ListHeld(m4, r.freelist, G, y)
  <2>1. ASSUME G # {} PROVE ListHeld(m4, r.freelist, G, y)
    <3>1. ListHeld(r.mem, r.freelist, G, y)
        BY <1>7, <2>1
    <3>2. \A x \in UnitsOf(G, y) : m4[x] = r.mem[x]
        BY <1>8, <1>9
    <3> QED
        BY <3>1, <3>2, ListFrame
  <2> QED
      BY <2>1
<1>13. /\ Free(m4, r.freelist, u - n) = V
       /\ u - n # 0 => ListHeld(m4, r.freelist, FreeIn(m4, r.freelist, u - n), SizesOf(m4))
    BY <1>8, <1>11, <1>12, SplitFrom
<1>14. /\ \A s \in W : Covers(s[1], s[2]) \cap U = {}
       /\ \A s, t \in W : s # t => Covers(s[1], s[2]) \cap Covers(t[1], t[2]) = {}
       /\ \A x \in AllUnits : x \in U \/ \E s \in W : x \in Covers(s[1], s[2])
    BY <1>4 DEF Split, AllUnits
<1>15. \A s \in W : \A x \in Covers(s[1], s[2]) : x \in AllUnits
  <2>1. ASSUME NEW s \in W, NEW x \in Covers(s[1], s[2]) PROVE x \in AllUnits
    <3>1. s[1] \in Nat /\ s[2] \in Nat /\ s[1] + s[2] <= PageUnits
        BY <2>1 DEF Spans
    <3> QED
        BY <2>1, <3>1, PageFacts DEF Covers, AllUnits
  <2> QED
      BY <2>1
<1>16. PICK e : e = <<r.at, n>>
    OBVIOUS
<1>17. e[1] = r.at /\ e[2] = n /\ e \in Spans
    BY <1>7, <1>16 DEF Spans
<1>18. Split(m4, r.freelist, u - n, W \cup {e})
  <2>1. \A s \in W \cup {e} : Covers(s[1], s[2]) \cap V = {}
    <3>1. \A s \in W : Covers(s[1], s[2]) \cap V = {}
        BY <1>9, <1>14
    <3>2. Covers(e[1], e[2]) \cap V = {}
        BY <1>9, <1>17
    <3> QED
        BY <3>1, <3>2
  <2>2. \A s, t \in W \cup {e} : s # t => Covers(s[1], s[2]) \cap Covers(t[1], t[2]) = {}
    <3>1. \A s \in W : Covers(s[1], s[2]) \cap Covers(e[1], e[2]) = {}
        BY <1>9, <1>14, <1>17
    <3>2. ASSUME NEW s \in W \cup {e}, NEW t \in W \cup {e}, s # t
          PROVE  Covers(s[1], s[2]) \cap Covers(t[1], t[2]) = {}
      <4>1. CASE s \in W /\ t \in W
          BY <1>14, <3>2, <4>1
      <4>2. CASE s \in W /\ t = e
          BY <3>1, <4>2
      <4>3. CASE s = e /\ t \in W
          BY <3>1, <4>3
      <4> QED
          BY <3>2, <4>1, <4>2, <4>3
    <3> QED
        BY <3>2
  <2>3. \A x \in AllUnits : x \in V \/ \E s \in W \cup {e} : x \in Covers(s[1], s[2])
    <3>1. ASSUME NEW x \in AllUnits, x \notin V PROVE \E s \in W \cup {e} : x \in Covers(s[1], s[2])
      <4>1. CASE x \in Covers(r.at, n)
          BY <1>17, <4>1
      <4>2. CASE x \notin Covers(r.at, n)
        <5>1. x \notin U
            BY <1>9, <3>1, <4>2
        <5>2. PICK s \in W : x \in Covers(s[1], s[2])
            BY <1>14, <5>1
        <5> QED
            BY <5>2
      <4> QED
          BY <4>1, <4>2
    <3> QED
        BY <3>1
  <2> QED
      BY <1>11, <1>13, <2>1, <2>2, <2>3 DEF Split, AllUnits
<1>19. \A s \in W : \A x \in Covers(s[1], s[2]) : x \notin Covers(r.at, n) /\ m4[x] = m[x]
  <2>1. ASSUME NEW s \in W, NEW x \in Covers(s[1], s[2])
        PROVE  x \notin Covers(r.at, n) /\ m4[x] = m[x]
    <3>1. x \in AllUnits /\ x \notin U
        BY <1>14, <1>15, <2>1
    <3>2. x \notin Covers(r.at, n)
        BY <1>7, <3>1
    <3> QED
        BY <1>7, <3>1, <3>2
  <2> QED
      BY <2>1
<1> QED
    BY <1>7, <1>11, <1>16, <1>17, <1>18, <1>19 DEF SplitWith, CutMade

\* The whole of a page in one free block.
LEMMA SplitNew ==
    ASSUME NEW m \in Memory, NEW m4, m4 = set_slob(m, 0, PageUnits, PageUnits)
    PROVE  /\ m4 \in Memory /\ Split(m4, 0, PageUnits, {})
           /\ ListHeld(m4, 0, {0}, [s \in {0} |-> PageUnits])
<1>1. Written(m, m4, 0, PageUnits, PageUnits)
    BY PageFacts, SetSlob
<1>2. PICK y : y = [s \in {0} |-> PageUnits]
    OBVIOUS
<1>3. ListHeld(m4, 0, {0}, y)
  <2>1. Follows({0}, 0, PageUnits) /\ Stored(m4, 0, y[0], PageUnits)
      BY <1>1, <1>2, PageFacts DEF Follows, Written
  <2>2. \A s \in {0} : s = 0
      OBVIOUS
  <2>3. y[0] \in 1..PageUnits /\ 0 + y[0] <= PageUnits /\ 0 \in 0..PageUnits - 1
      BY <1>2, PageFacts
  <2> QED
      BY <2>1, <2>2, <2>3 DEF ListHeld
<1>4. UnitsOf({0}, y) = AllUnits
  <2>1. UnitsOf({0}, y) = Covers(0, y[0])
      BY DEF UnitsOf
  <2>2. y[0] = PageUnits /\ 0 + PageUnits - 1 = PageUnits - 1
      BY <1>2, PageFacts
  <2> QED
      BY <2>1, <2>2 DEF Covers, AllUnits
<1>5. Cardinality(UnitsOf({0}, y)) = PageUnits
    BY <1>4, CountUnits
<1>6. /\ Free(m4, 0, PageUnits) = AllUnits
      /\ ListHeld(m4, 0, FreeIn(m4, 0, PageUnits), SizesOf(m4))
    BY <1>3, <1>4, <1>5, PageFacts, SplitFrom
<1>7. Split(m4, 0, PageUnits, {})
    BY <1>6, CountUnits DEF Split, AllUnits
<1> QED
    BY <1>1, <1>2, <1>3, <1>7 DEF Written

\* Facts about a span in use.
LEMMA SplitBound ==
    ASSUME NEW m, NEW first, NEW u \in Nat, NEW W \in SUBSET Spans, Split(m, first, u, W),
           NEW b \in Nat, NEW n \in Nat, <<b, n>> \in W
    PROVE  /\ u + n <= PageUnits
           /\ u + n = PageUnits => W = {<<b, n>>}
<1>1. PICK U : U = Free(m, first, u)
    OBVIOUS
<1>2. U \in SUBSET AllUnits /\ Cardinality(U) = u
    BY <1>1, SplitFree
<1>3. PICK e : e = <<b, n>>
    OBVIOUS
<1>4. e \in W /\ e[1] = b /\ e[2] = n /\ b + n <= PageUnits
    BY <1>3 DEF Spans
<1>5. \A x \in Covers(b, n) : x \notin U
  <2>1. Covers(e[1], e[2]) \cap U = {}
      BY <1>1, <1>4 DEF Split
  <2> QED
      BY <1>4, <2>1
<1>6. PICK V : V = U \cup Covers(b, n)
    OBVIOUS
<1>7. V \in SUBSET AllUnits /\ Cardinality(V) = u + n
  <2>1. Covers(b, n) \in SUBSET AllUnits
      BY <1>4, CountCovers
  <2>2. Cardinality(U \cup Covers(b, n)) = Cardinality(U) + n
      BY <1>2, <1>4, <1>5, CountDisjoint
  <2> QED
      BY <1>2, <1>6, <2>1, <2>2
<1>8. u + n <= PageUnits
    BY <1>7, CountUnits, PageFacts
<1>9. ASSUME u + n = PageUnits PROVE W = {e}
  <2>1. V = AllUnits
      BY <1>7, <1>9, CountUnits
  <2>2. ASSUME NEW s \in W PROVE s = e
    <3>1. SUFFICES ASSUME s # e PROVE FALSE
        OBVIOUS
    <3>2. s[1] \in Nat /\ s[2] \in Nat /\ 0 < s[2] /\ s[1] + s[2] <= PageUnits
        BY DEF Spans
    <3>3. s[1] \in Covers(s[1], s[2]) /\ s[1] \in AllUnits
        BY <3>2, PageFacts DEF Covers, AllUnits
    <3>4. s[1] \notin U
        BY <1>1, <3>3 DEF Split
    <3>5. s[1] \notin Covers(b, n)
      <4>1. Covers(s[1], s[2]) \cap Covers(e[1], e[2]) = {}
          BY <1>4, <3>1 DEF Split
      <4> QED
          BY <1>4, <3>3, <4>1
    <3> QED
        BY <1>6, <2>1, <3>3, <3>4, <3>5
  <2> QED
      BY <1>4, <2>2
<1> QED
    BY <1>3, <1>8, <1>9

\* A span that was in use becomes free: the page's first, or one more.
LEMMA SplitGrow ==
    ASSUME NEW m \in Memory, NEW first, NEW u \in Nat, NEW W \in SUBSET Spans,
           Split(m, first, u, W),
           NEW b \in Nat, NEW n \in Nat, 0 < n, <<b, n>> \in W,
           NEW m4 \in Memory, NEW first4 \in 0..PageUnits, NEW G, NEW y, ListHeld(m4, first4, G, y),
           \A x : x \in UnitsOf(G, y) <=> x \in Free(m, first, u) \/ x \in Covers(b, n),
           \A x \in AllUnits : x \notin Free(m, first, u) /\ x \notin Covers(b, n) => m4[x] = m[x]
    PROVE  SplitWith(m4, first4, u + n, W \ {<<b, n>>}, m, W \ {<<b, n>>})
<1>1. PICK U : U = Free(m, first, u)
    OBVIOUS
<1>2. U \in SUBSET AllUnits /\ Cardinality(U) = u
    BY <1>1, SplitFree
<1>3. PICK e : e = <<b, n>>
    OBVIOUS
<1>4. e \in W /\ e[1] = b /\ e[2] = n /\ b + n <= PageUnits
    BY <1>3 DEF Spans
<1>5. /\ \A s \in W : Covers(s[1], s[2]) \cap U = {}
      /\ \A s, t \in W : s # t => Covers(s[1], s[2]) \cap Covers(t[1], t[2]) = {}
      /\ \A x \in AllUnits : x \in U \/ \E s \in W : x \in Covers(s[1], s[2])
    BY <1>1 DEF Split, AllUnits
<1>6. PICK V : V = UnitsOf(G, y)
    OBVIOUS
<1>7. V = U \cup Covers(b, n)
    BY <1>1, <1>6
<1>8. Cardinality(V) = u + n
  <2>1. \A x \in Covers(b, n) : x \notin U
      BY <1>4, <1>5
  <2> QED
      BY <1>2, <1>4, <1>7, <2>1, CountDisjoint
<1>9. /\ Free(m4, first4, u + n) = V
      /\ ListHeld(m4, first4, FreeIn(m4, first4, u + n), SizesOf(m4))
    BY <1>6, <1>8, SplitFrom
<1>10. \A s \in W \ {e} : Covers(s[1], s[2]) \cap V = {}
    BY <1>4, <1>5, <1>7
<1>11. \A x \in AllUnits : x \in V \/ \E s \in W \ {e} : x \in Covers(s[1], s[2])
  <2>1. ASSUME NEW x \in AllUnits, x \notin V PROVE \E s \in W \ {e} : x \in Covers(s[1], s[2])
    <3>1. x \notin U /\ x \notin Covers(e[1], e[2])
        BY <1>4, <1>7, <2>1
    <3>2. PICK s \in W : x \in Covers(s[1], s[2])
        BY <1>5, <3>1
    <3> QED
        BY <3>1, <3>2
  <2> QED
      BY <2>1
<1>12. Split(m4, first4, u + n, W \ {e})
    BY <1>5, <1>8, <1>9, <1>10, <1>11 DEF Split, AllUnits
<1>13. \A s \in W \ {e} : \A x \in Covers(s[1], s[2]) : m4[x] = m[x]
  <2>1. ASSUME NEW s \in W \ {e}, NEW x \in Covers(s[1], s[2]) PROVE m4[x] = m[x]
    <3>1. s[1] \in Nat /\ s[2] \in Nat /\ s[1] + s[2] <= PageUnits
        BY DEF Spans
    <3>2. x \in AllUnits
        BY <3>1, PageFacts DEF Covers, AllUnits
    <3>3. x \notin V
        BY <1>10
    <3> QED
        BY <1>1, <1>7, <3>2, <3>3
  <2> QED
      BY <2>1
<1> QED
    BY <1>3, <1>12, <1>13 DEF SplitWith

LEMMA SplitInsert ==
    ASSUME NEW m \in Memory, NEW first, NEW u \in Nat, u # 0, NEW W \in SUBSET Spans,
           Split(m, first, u, W),
           NEW b \in Nat, NEW n \in Nat, 0 < n, <<b, n>> \in W,
           NEW r, r = Insert(m, first, b, n)
    PROVE  SplitWith(r.mem, r.freelist, u + n, W \ {<<b, n>>}, m, W \ {<<b, n>>})
<1>1. PICK F : F = FreeIn(m, first, u)
    OBVIOUS
<1>2. PICK z : z = SizesOf(m)
    OBVIOUS
<1>3. ListHeld(m, first, F, z)
    BY <1>1, <1>2 DEF Split
<1>4. UnitsOf(F, z) = Free(m, first, u)
    BY <1>1, <1>2 DEF Free
<1>5. PICK e : e = <<b, n>>
    OBVIOUS
<1>6. e \in W /\ e[1] = b /\ e[2] = n /\ b + n <= PageUnits
    BY <1>5 DEF Spans
<1>7. Outside(F, z, b, n)
    BY <1>4, <1>6 DEF Outside, Split
<1>8. PICK G, y : Inserted(m, F, z, r, b, n, G, y)
    BY <1>3, <1>6, <1>7, InsertHeld
<1>9. /\ r.mem \in Memory /\ r.freelist \in 0..PageUnits /\ ListHeld(r.mem, r.freelist, G, y)
      /\ \A x : x \in UnitsOf(G, y) <=> x \in Free(m, first, u) \/ x \in Covers(b, n)
      /\ \A x \in AllUnits : x \notin Free(m, first, u) /\ x \notin Covers(b, n) => r.mem[x] = m[x]
    BY <1>4, <1>8 DEF Inserted, AllUnits
<1> QED
    BY <1>9, SplitGrow

LEMMA SplitFirst ==
    ASSUME NEW m \in Memory, NEW first, NEW W \in SUBSET Spans, Split(m, first, 0, W),
           NEW b \in Nat, NEW n \in Nat, 0 < n, <<b, n>> \in W,
           NEW m4, m4 = set_slob(m, b, n, PageUnits)
    PROVE  SplitWith(m4, b, n, W \ {<<b, n>>}, m, W \ {<<b, n>>})
<1>1. b + n <= PageUnits
  <2>1. PICK e : e = <<b, n>>
      OBVIOUS
  <2>2. e \in W /\ e[1] = b /\ e[2] = n
      BY <2>1
  <2> QED
      BY <2>2 DEF Spans
<1>2. Written(m, m4, b, n, PageUnits)
    BY <1>1, PageFacts, SetSlob
<1>3. PICK y : y = [s \in {b} |-> n]
    OBVIOUS
<1>4. ListHeld(m4, b, {b}, y)
  <2>1. Follows({b}, b, PageUnits) /\ Stored(m4, b, y[b], PageUnits)
      BY <1>1, <1>2, <1>3, PageFacts DEF Follows, Written
  <2>2. \A s \in {b} : s = b
      OBVIOUS
  <2>3. y[b] \in 1..PageUnits /\ b + y[b] <= PageUnits /\ b \in 0..PageUnits - 1
      BY <1>1, <1>3, PageFacts
  <2> QED
      BY <2>1, <2>2, <2>3 DEF ListHeld
<1>5. Free(m, first, 0) = {}
    BY DEF Free, FreeIn, UnitsOf
<1>6. \A x : x \in UnitsOf({b}, y) <=> x \in Free(m, first, 0) \/ x \in Covers(b, n)
  <2>1. UnitsOf({b}, y) = Covers(b, n)
      BY <1>3 DEF UnitsOf
  <2> QED
      BY <1>5, <2>1
<1>7. \A x \in AllUnits : x \notin Free(m, first, 0) /\ x \notin Covers(b, n) => m4[x] = m[x]
    BY <1>2 DEF Written, AllUnits
<1>8. m4 \in Memory /\ b \in 0..PageUnits /\ 0 + n = n
    BY <1>1, <1>2, PageFacts DEF Written
<1>9. SplitWith(m4, b, 0 + n, W \ {<<b, n>>}, m, W \ {<<b, n>>})
    BY <1>4, <1>6, <1>7, <1>8, SplitGrow
<1> QED
    BY <1>8, <1>9

-----------------------------------------------------------------------------
(* The lists of pages *)

LEMMA WithoutMembers ==
    ASSUME NEW S, NEW list \in Seq(S), IsInjective(list), NEW p
    PROVE  /\ Without(list, p) \in Seq(S) /\ IsInjective(Without(list, p))
           /\ ToSet(Without(list, p)) = ToSet(list) \ {p}
<1>1. CASE p \notin ToSet(list)
    BY <1>1 DEF Without
<1>2. CASE p \in ToSet(list)
  <2>1. \E k \in DOMAIN list : list[k] = p
      BY <1>2 DEF ToSet
  <2>2. PICK i : i = CHOOSE k \in DOMAIN list : list[k] = p
      OBVIOUS
  <2>3. i \in 1..Len(list) /\ list[i] = p
      BY <2>1, <2>2
  <2>4. PICK r : r = RemoveAt(list, i)
      OBVIOUS
  <2>5. r \in Seq(S) /\ ToSet(r) = ToSet(list) \ {p} /\ IsInjective(r)
      BY <2>3, <2>4, RemovePositionMembers
  <2>6. Without(list, p) = r
      BY <1>2, <2>2, <2>4 DEF Without
  <2> QED
      BY <2>5, <2>6
<1> QED
    BY <1>1, <1>2

\* A sequence turned so that it begins at position i.
Turn(s, i) == SubSeq(s, i, Len(s)) \o SubSeq(s, 1, i - 1)

SameMembers(S, r, s) == r \in Seq(S) /\ IsInjective(r) /\ ToSet(r) = ToSet(s)

LEMMA Turned ==
    ASSUME NEW S, NEW s \in Seq(S), IsInjective(s), NEW i \in 1..(Len(s) + 1),
           NEW r, r = Turn(s, i)
    PROVE  SameMembers(S, r, s)
<1>0. PICK l \in Nat : l = Len(s)
    OBVIOUS
<1>1. Len(s) \in Nat /\ i \in Int /\ 1 <= i /\ i <= Len(s) + 1 /\ DOMAIN s = 1..Len(s)
    OBVIOUS
<1>2. PICK a : a = SubSeq(s, i, Len(s))
    OBVIOUS
<1>3. PICK b : b = SubSeq(s, 1, i - 1)
    OBVIOUS
<1>4. PICK n \in Nat : n = Len(s) - i + 1
  <2>1. l - i + 1 \in Nat
      BY <1>0, <1>1
  <2> QED
      BY <1>0, <2>1
<1>5. a \in Seq(S) /\ Len(a) = n /\ \A k \in 1..n : a[k] = s[i + k - 1]
    BY <1>1, <1>2, <1>4, SubSeqProperties
<1>6. b \in Seq(S) /\ Len(b) = i - 1 /\ \A k \in 1..(i - 1) : b[k] = s[k]
    BY <1>1, <1>3, SubSeqProperties
<1>7. /\ r \in Seq(S) /\ Len(r) = Len(a) + Len(b)
      /\ \A k \in 1..(Len(a) + Len(b)) : r[k] = IF k <= Len(a) THEN a[k] ELSE b[k - Len(a)]
  <2>1. r = a \o b
      BY <1>2, <1>3 DEF Turn
  <2>2. /\ a \o b \in Seq(S) /\ Len(a \o b) = Len(a) + Len(b)
        /\ \A k \in 1..(Len(a) + Len(b)) :
              (a \o b)[k] = IF k <= Len(a) THEN a[k] ELSE b[k - Len(a)]
      BY <1>5, <1>6, ConcatProperties
  <2> QED
      BY <2>1, <2>2
<1>8. Len(r) = Len(s) /\ DOMAIN r = 1..Len(s)
  <2>1. Len(r) = n + (i - 1)
      BY <1>5, <1>6, <1>7
  <2>2. DOMAIN r = 1..Len(r)
      BY <1>7
  <2>3. n + (i - 1) = l
      BY <1>0, <1>1, <1>4
  <2> QED
      BY <1>0, <2>1, <2>2, <2>3
<1> DEFINE Was(k) == IF k <= n THEN i + k - 1 ELSE k - n
<1>9. \A k \in 1..Len(s) : Was(k) \in 1..Len(s) /\ r[k] = s[Was(k)]
  <2>1. ASSUME NEW k \in 1..Len(s) PROVE Was(k) \in 1..Len(s) /\ r[k] = s[Was(k)]
    <3>1. k \in 1..(Len(a) + Len(b)) /\ k \in Int
        BY <1>1, <1>4, <1>5, <1>6
    <3>2. CASE k <= n
      <4>1. k \in 1..n
          BY <3>1, <3>2
      <4>2. r[k] = a[k] /\ a[k] = s[i + k - 1]
          BY <1>5, <1>7, <3>1, <3>2, <4>1
      <4>3. Was(k) = i + k - 1 /\ i + k - 1 \in 1..l
          BY <1>0, <1>1, <1>4, <3>2, <4>1
      <4> QED
          BY <1>0, <4>2, <4>3
    <3>3. CASE ~(k <= n)
      <4>1. k - n \in 1..(i - 1)
          BY <1>1, <1>4, <3>1, <3>3
      <4>2. r[k] = b[k - n] /\ b[k - n] = s[k - n]
          BY <1>5, <1>6, <1>7, <3>1, <3>3, <4>1
      <4>3. Was(k) = k - n /\ k - n \in 1..l
          BY <1>0, <1>1, <1>4, <3>3, <4>1
      <4> QED
          BY <1>0, <4>2, <4>3
    <3> QED
        BY <3>2, <3>3
  <2> QED
      BY <2>1
<1>10. \A j, k \in 1..Len(s) : Was(j) = Was(k) => j = k
    BY <1>1, <1>4
<1>11. \A k \in 1..Len(s) : \E j \in 1..Len(s) : Was(j) = k
  <2>1. ASSUME NEW k \in 1..Len(s) PROVE \E j \in 1..Len(s) : Was(j) = k
    <3>1. CASE k >= i
      <4>1. k - i + 1 \in 1..Len(s) /\ Was(k - i + 1) = k
          BY <1>1, <1>4, <3>1
      <4> QED
          BY <4>1
    <3>2. CASE ~(k >= i)
      <4>1. k + n \in 1..Len(s) /\ Was(k + n) = k
          BY <1>1, <1>4, <3>2
      <4> QED
          BY <4>1
    <3> QED
        BY <3>1, <3>2
  <2> QED
      BY <2>1
<1> HIDE DEF Was
<1>12. IsInjective(r)
  <2>1. \A j, k \in 1..Len(s) : s[j] = s[k] => j = k
      BY <1>1 DEF IsInjective
  <2>2. ASSUME NEW j \in 1..Len(s), NEW k \in 1..Len(s), r[j] = r[k] PROVE j = k
    <3>1. Was(j) = Was(k)
      <4>1. r[j] = s[Was(j)] /\ Was(j) \in 1..Len(s)
          BY <1>9
      <4>2. r[k] = s[Was(k)] /\ Was(k) \in 1..Len(s)
          BY <1>9
      <4> QED
          BY <2>1, <2>2, <4>1, <4>2
    <3> QED
        BY <1>10, <3>1
  <2> QED
      BY <1>8, <2>2 DEF IsInjective
<1>13. ToSet(r) = ToSet(s)
  <2>1. \A k \in 1..Len(s) : r[k] \in ToSet(s)
      BY <1>1, <1>9 DEF ToSet
  <2>2. \A k \in 1..Len(s) : s[k] \in ToSet(r)
      BY <1>8, <1>9, <1>11 DEF ToSet
  <2> QED
      BY <1>1, <1>8, <2>1, <2>2 DEF ToSet
<1> QED
    BY <1>7, <1>12, <1>13 DEF SameMembers

LEMMA NextFitMembers ==
    ASSUME NEW S, NEW list \in Seq(S), IsInjective(list), NEW p \in ToSet(list),
           NEW new, new = list \/ new = Without(list, p)
    PROVE  /\ NextFit(list, new, p) \in Seq(S) /\ IsInjective(NextFit(list, new, p))
           /\ ToSet(NextFit(list, new, p)) = ToSet(new)
<1>1. PICK i : i = CHOOSE k \in DOMAIN list : list[k] = p
    OBVIOUS
<1>2. i \in 1..Len(list) /\ Len(list) \in Nat
  <2>1. \E k \in DOMAIN list : list[k] = p
      BY DEF ToSet
  <2> QED
      BY <1>1, <2>1
<1>3. new \in Seq(S) /\ IsInjective(new)
    BY WithoutMembers
<1>4. i \in 1..(Len(new) + 1)
  <2>1. CASE new = list
      BY <1>2, <2>1
  <2>2. CASE new = Without(list, p)
    <3>1. new = RemoveAt(list, i)
        BY <1>1, <2>2 DEF Without
    <3>2. Len(new) = Len(list) - 1
        BY <1>2, <3>1, RemovePositionMembers
    <3> QED
        BY <1>2, <3>2
  <2> QED
      BY <2>1, <2>2
<1>5. PICK r : r = Turn(new, i)
    OBVIOUS
<1>6. SameMembers(S, r, new)
    BY <1>3, <1>4, <1>5, Turned
<1>7. NextFit(list, new, p) = new \/ NextFit(list, new, p) = r
    BY <1>1, <1>5 DEF NextFit, Turn
<1> QED
    BY <1>3, <1>6, <1>7 DEF SameMembers

-----------------------------------------------------------------------------
(* The walks over lists *)

\* calc_free_mem.
LEMMA SumIsNumber ==
    ASSUME NEW S, NEW u \in [S -> Int], NEW list \in Seq(S)
    PROVE  LET sum[i \in 0..Len(list)] ==
                   IF i = 0 THEN 0 ELSE sum[i - 1] + u[list[i]] * SLOB_UNIT
           IN  sum[Len(list)] \in Int
<1> DEFINE sum[i \in 0..Len(list)] ==
               IF i = 0 THEN 0 ELSE sum[i - 1] + u[list[i]] * SLOB_UNIT
<1>1. PICK n \in Nat : n = Len(list)
    OBVIOUS
<1>2. PICK step : step = [x \in Int \X (1..n) |-> x[1] + u[list[x[2]]] * SLOB_UNIT]
    OBVIOUS
<1>3. \A i \in 1..n : u[list[i]] * SLOB_UNIT \in Int
    BY <1>1, PageFacts
<1>4. step \in [Int \X (1..n) -> Int]
    BY <1>2, <1>3
<1>5. \A x \in Int, i \in 1..n : step[<<x, i>>] = x + u[list[i]] * SLOB_UNIT
    BY <1>2
<1>6. PICK f : Built(f, n, Int, 0, step)
  <2>1. 0 \in Int
      OBVIOUS
  <2> QED
      BY <1>4, <2>1, StepByStep
<1>7. f = [i \in 0..n |-> IF i = 0 THEN 0 ELSE f[i - 1] + u[list[i]] * SLOB_UNIT]
  <2>1. ASSUME NEW i \in 0..n
        PROVE  f[i] = IF i = 0 THEN 0 ELSE f[i - 1] + u[list[i]] * SLOB_UNIT
    <3>1. CASE i = 0
        BY <1>6, <3>1 DEF Built
    <3>2. CASE i # 0
      <4>1. i \in 1..n /\ i - 1 \in 0..n
          BY <3>2
      <4>2. f[i - 1] \in Int
          BY <1>6, <4>1 DEF Built
      <4>3. f[i] = step[<<f[i - 1], i>>]
          BY <1>6, <4>1 DEF Built
      <4> QED
          BY <1>5, <3>2, <4>1, <4>2, <4>3
    <3> QED
        BY <3>1, <3>2
  <2> QED
      BY <1>6, <2>1 DEF Built
<1>8. sum = [i \in 0..n |-> IF i = 0 THEN 0 ELSE sum[i - 1] + u[list[i]] * SLOB_UNIT]
  <2>1. \E g : g = [i \in 0..n |-> IF i = 0 THEN 0 ELSE g[i - 1] + u[list[i]] * SLOB_UNIT]
      BY <1>7
  <2> QED
      BY <1>1, <2>1
<1> HIDE DEF sum
<1>9. Recurs(sum, n, Int, 0, step)
  <2>1. ASSUME NEW i \in 1..n, sum[i - 1] \in Int PROVE sum[i] = step[<<sum[i - 1], i>>]
    <3>1. sum[i] = sum[i - 1] + u[list[i]] * SLOB_UNIT
        BY <1>8
    <3> QED
        BY <1>5, <2>1, <3>1
  <2>2. sum[0] = 0
      BY <1>8
  <2> QED
      BY <2>1, <2>2 DEF Recurs
<1>10. \A i \in 0..n : sum[i] \in Int
  <2>1. 0 \in Int
      OBVIOUS
  <2> QED
      BY <1>4, <1>9, <2>1, StepByStep
<1>11. sum[Len(list)] \in Int
    BY <1>1, <1>10
<1> QED
    BY <1>11 DEF sum

\* What the search carries from block to block and from page to page.
Found(D) == [diff: Int, exact: Int, best_fit: Int, best_page_size: Int, page: D, rotate: BOOLEAN]

\* The search over one page, block by block, and over a list, page by page.
BlocksRun(f, acc, p, n, align, blocks) ==
    /\ blocks = FreeBlocks(mem[p], freelist[p]) /\ blocks \in Seq(AllUnits)
    /\ f[0] = acc
    /\ \A i \in 1..Len(blocks) : f[i] = ScanBlock(f[i - 1], p, blocks[i], n, align)
    /\ ScanBlocks(acc, p, n, align) = f[Len(blocks)]

PagesRun(f, list, n, align) ==
    /\ f[0] = NothingFound
    /\ \A i \in 1..Len(list) : f[i] = ScanPage(f[i - 1], list[i], n, align)
    /\ Scan(list, n, align) = f[Len(list)]

LEMMA ScanBlockFound ==
    ASSUME NEW D, NEW acc \in Found(D), NEW p \in Pages, mem[p] \in Memory, NEW s \in AllUnits,
           NEW n \in Nat, NEW align \in Nat, align % SLOB_UNIT = 0
    PROVE  ScanBlock(acc, p, s, n, align) \in Found(D)
<1>1. PICK left : left = slob_units(mem[p], s) - n + Delta(s, align)
    OBVIOUS
<1>2. left \in Int
  <2>1. s \in Nat /\ mem[p][s] \in Int
      BY PageFacts DEF Memory, AllUnits
  <2>2. Delta(s, align) \in Nat
      BY <2>1, DeltaNatural
  <2>3. slob_units(mem[p], s) \in Int
      BY <2>1 DEF slob_units
  <2> QED
      BY <1>1, <2>2, <2>3
<1>3. PICK e \in Int : e = IF left = 0 THEN 1 ELSE 0
    OBVIOUS
<1>4. [acc EXCEPT !.diff = left, !.exact = e] \in Found(D)
    BY <1>2 DEF Found
<1>5. \/ ScanBlock(acc, p, s, n, align) = acc
      \/ ScanBlock(acc, p, s, n, align) = [acc EXCEPT !.diff = left, !.exact = e]
    BY <1>1, <1>3 DEF ScanBlock
<1> QED
    BY <1>4, <1>5

LEMMA BlocksRuns ==
    ASSUME NEW D, NEW acc \in Found(D), NEW p \in Pages, mem[p] \in Memory,
           FreeBlocks(mem[p], freelist[p]) \in Seq(AllUnits),
           NEW n \in Nat, NEW align \in Nat, align % SLOB_UNIT = 0
    PROVE  \E f, blocks : BlocksRun(f, acc, p, n, align, blocks) /\ f[Len(blocks)] \in Found(D)
<1>1. PICK blocks : blocks = FreeBlocks(mem[p], freelist[p])
    OBVIOUS
<1>2. blocks \in Seq(AllUnits)
    BY <1>1
<1>3. PICK l \in Nat : l = Len(blocks)
    BY <1>2
<1>4. PICK T : T = Found(D)
    OBVIOUS
<1>5. PICK step : step = [x \in T \X (1..l) |-> ScanBlock(x[1], p, blocks[x[2]], n, align)]
    OBVIOUS
<1>6. \A x \in T, i \in 1..l : ScanBlock(x, p, blocks[i], n, align) \in T
  <2>1. \A i \in 1..l : blocks[i] \in AllUnits
      BY <1>2, <1>3
  <2> QED
      BY <1>4, <2>1, ScanBlockFound
<1>7. step \in [T \X (1..l) -> T]
    BY <1>5, <1>6
<1>8. \A x \in T, i \in 1..l : step[<<x, i>>] = ScanBlock(x, p, blocks[i], n, align)
    BY <1>5
<1>9. acc \in T
    BY <1>4
<1>10. PICK f : Built(f, l, T, acc, step)
    BY <1>7, <1>9, StepByStep
<1>11. f = [i \in 0..l |-> IF i = 0 THEN acc ELSE ScanBlock(f[i - 1], p, blocks[i], n, align)]
  <2>1. ASSUME NEW i \in 0..l
        PROVE  f[i] = IF i = 0 THEN acc ELSE ScanBlock(f[i - 1], p, blocks[i], n, align)
    <3>1. CASE i = 0
        BY <1>10, <3>1 DEF Built
    <3>2. CASE i # 0
      <4>1. i \in 1..l /\ i - 1 \in 0..l
          BY <3>2
      <4>2. f[i - 1] \in T
          BY <1>10, <4>1 DEF Built
      <4>3. f[i] = step[<<f[i - 1], i>>]
          BY <1>10, <4>1 DEF Built
      <4> QED
          BY <1>8, <3>2, <4>1, <4>2, <4>3
    <3> QED
        BY <3>1, <3>2
  <2> QED
      BY <1>10, <2>1 DEF Built
<1> DEFINE after[i \in 0..Len(blocks)] ==
               IF i = 0 THEN acc ELSE ScanBlock(after[i - 1], p, blocks[i], n, align)
<1>12. after = [i \in 0..l |-> IF i = 0 THEN acc ELSE ScanBlock(after[i - 1], p, blocks[i], n, align)]
  <2>1. \E g : g = [i \in 0..l |-> IF i = 0 THEN acc ELSE ScanBlock(g[i - 1], p, blocks[i], n, align)]
      BY <1>11
  <2> QED
      BY <1>3, <2>1
<1>13. ScanBlocks(acc, p, n, align) = after[l]
    BY <1>1, <1>3 DEF ScanBlocks
<1> HIDE DEF after
<1>14. Recurs(after, l, T, acc, step)
  <2>1. ASSUME NEW i \in 1..l, after[i - 1] \in T PROVE after[i] = step[<<after[i - 1], i>>]
    <3>0. i \in 0..l /\ i # 0
        OBVIOUS
    <3>1. after[i] = ScanBlock(after[i - 1], p, blocks[i], n, align)
        BY <1>12, <3>0
    <3> QED
        BY <1>8, <2>1, <3>1
  <2>2. after[0] = acc
      BY <1>12
  <2> QED
      BY <2>1, <2>2 DEF Recurs
<1>15. \A i \in 0..l : after[i] \in T
    BY <1>7, <1>9, <1>14, StepByStep
<1>16. BlocksRun(after, acc, p, n, align, blocks)
  <2>1. after[0] = acc
      BY <1>12
  <2>2. \A i \in 1..l : i \in 0..l /\ i # 0
      OBVIOUS
  <2>3. \A i \in 1..l : after[i] = ScanBlock(after[i - 1], p, blocks[i], n, align)
      BY <1>12, <2>2
  <2> QED
      BY <1>1, <1>2, <1>3, <1>13, <2>1, <2>3 DEF BlocksRun
<1>17. after[Len(blocks)] \in Found(D)
    BY <1>3, <1>4, <1>15
<1> QED
    BY <1>16, <1>17

LEMMA ScanBlocksFound ==
    ASSUME NEW D, NEW acc \in Found(D), NEW p \in Pages, mem[p] \in Memory,
           FreeBlocks(mem[p], freelist[p]) \in Seq(AllUnits),
           NEW n \in Nat, NEW align \in Nat, align % SLOB_UNIT = 0
    PROVE  ScanBlocks(acc, p, n, align) \in Found(D)
    BY BlocksRuns DEF BlocksRun

LEMMA ScanPageFound ==
    ASSUME NEW D, NEW acc \in Found(D), NEW p \in Pages, p \in D, mem[p] \in Memory,
           units[p] \in Int, FreeBlocks(mem[p], freelist[p]) \in Seq(AllUnits),
           NEW n \in Nat, NEW align \in Nat, align % SLOB_UNIT = 0
    PROVE  ScanPage(acc, p, n, align) \in Found(D)
<1>1. PICK a : a = ScanBlocks(acc, p, n, align)
    OBVIOUS
<1>2. a \in Found(D)
    BY <1>1, ScanBlocksFound
<1>3. PICK b : b = IF a.exact = 0 /\ (a.best_fit = -1 \/ a.diff < a.best_fit)
                   THEN [a EXCEPT !.best_page_size = units[p], !.best_fit = a.diff]
                   ELSE a
    OBVIOUS
<1>4. b \in Found(D)
  <2>1. [a EXCEPT !.best_page_size = units[p], !.best_fit = a.diff] \in Found(D)
      BY <1>2 DEF Found
  <2> QED
      BY <1>2, <1>3, <2>1
<1>5. [a EXCEPT !.page = p] \in Found(D) /\ [b EXCEPT !.page = p, !.rotate = TRUE] \in Found(D)
    BY <1>2, <1>4 DEF Found
<1>6. \/ ScanPage(acc, p, n, align) = acc
      \/ ScanPage(acc, p, n, align) = a
      \/ ScanPage(acc, p, n, align) = [a EXCEPT !.page = p]
      \/ ScanPage(acc, p, n, align) = [b EXCEPT !.page = p, !.rotate = TRUE]
      \/ ScanPage(acc, p, n, align) = b
    BY <1>1, <1>3 DEF ScanPage
<1> QED
    BY <1>2, <1>4, <1>5, <1>6

\* What a page must be for the search to walk over it.
Walkable(p) ==
    p \in Pages /\ mem[p] \in Memory /\ units[p] \in Int
        /\ FreeBlocks(mem[p], freelist[p]) \in Seq(AllUnits)

\* The search goes over the list page by page ...
LEMMA PagesRuns ==
    ASSUME NEW list \in Seq(Pages), \A q \in ToSet(list) : Walkable(q),
           NEW n \in Nat, NEW align \in Nat, align % SLOB_UNIT = 0,
           NEW D, D = ToSet(list) \cup {NoPage}
    PROVE  \E f : PagesRun(f, list, n, align) /\ f[Len(list)] \in Found(D)
<1>1. D = ToSet(list) \cup {NoPage}
    OBVIOUS
<1>2. PICK l \in Nat : l = Len(list)
    OBVIOUS
<1>3. PICK T : T = Found(D)
    OBVIOUS
<1>4. PICK step : step = [x \in T \X (1..l) |-> ScanPage(x[1], list[x[2]], n, align)]
    OBVIOUS
<1>5. ASSUME NEW x \in T, NEW i \in 1..l PROVE ScanPage(x, list[i], n, align) \in T
  <2>1. PICK q : q = list[i]
      OBVIOUS
  <2>2. q \in ToSet(list)
      BY <1>2, <2>1 DEF ToSet
  <2>3. q \in D /\ Walkable(q)
      BY <1>1, <2>2
  <2>4. x \in Found(D)
      BY <1>3
  <2>5. ScanPage(x, q, n, align) \in Found(D)
      BY <2>3, <2>4, ScanPageFound DEF Walkable
  <2> QED
      BY <1>3, <2>1, <2>5
<1>6. step \in [T \X (1..l) -> T]
    BY <1>4, <1>5
<1>7. \A x \in T, i \in 1..l : step[<<x, i>>] = ScanPage(x, list[i], n, align)
    BY <1>4
<1>8. NothingFound \in T
  <2>1. Huge \in Int
      BY PageFacts DEF Huge
  <2> QED
      BY <1>1, <1>3, <2>1 DEF NothingFound, Found
<1>9. PICK f : Built(f, l, T, NothingFound, step)
    BY <1>6, <1>8, StepByStep
<1>10. f = [i \in 0..l |-> IF i = 0 THEN NothingFound ELSE ScanPage(f[i - 1], list[i], n, align)]
  <2>1. ASSUME NEW i \in 0..l
        PROVE  f[i] = IF i = 0 THEN NothingFound ELSE ScanPage(f[i - 1], list[i], n, align)
    <3>1. CASE i = 0
        BY <1>9, <3>1 DEF Built
    <3>2. CASE i # 0
      <4>1. i \in 1..l /\ i - 1 \in 0..l
          BY <3>2
      <4>2. f[i - 1] \in T
          BY <1>9, <4>1 DEF Built
      <4>3. f[i] = step[<<f[i - 1], i>>]
          BY <1>9, <4>1 DEF Built
      <4> QED
          BY <1>7, <3>2, <4>1, <4>2, <4>3
    <3> QED
        BY <3>1, <3>2
  <2> QED
      BY <1>9, <2>1 DEF Built
<1> DEFINE after[i \in 0..Len(list)] ==
               IF i = 0 THEN NothingFound ELSE ScanPage(after[i - 1], list[i], n, align)
<1>11. after = [i \in 0..l |-> IF i = 0 THEN NothingFound ELSE ScanPage(after[i - 1], list[i], n, align)]
  <2>1. \E g : g = [i \in 0..l |-> IF i = 0 THEN NothingFound ELSE ScanPage(g[i - 1], list[i], n, align)]
      BY <1>10
  <2> QED
      BY <1>2, <2>1
<1>12. Scan(list, n, align) = after[l]
    BY <1>2 DEF Scan
<1> HIDE DEF after
<1>13. Recurs(after, l, T, NothingFound, step)
  <2>1. ASSUME NEW i \in 1..l, after[i - 1] \in T PROVE after[i] = step[<<after[i - 1], i>>]
    <3>1. after[i] = ScanPage(after[i - 1], list[i], n, align)
        BY <1>11
    <3> QED
        BY <1>7, <2>1, <3>1
  <2>2. after[0] = NothingFound
      BY <1>11
  <2> QED
      BY <2>1, <2>2 DEF Recurs
<1>14. \A i \in 0..l : after[i] \in T
    BY <1>6, <1>8, <1>13, StepByStep
<1>15. after[Len(list)] \in Found(D)
  <2>1. l \in 0..l
      OBVIOUS
  <2>2. after[l] \in T
      BY <1>14, <2>1
  <2> QED
      BY <1>2, <1>3, <2>2
<1>16. PagesRun(after, list, n, align)
  <2>1. after[0] = NothingFound
      BY <1>11
  <2>2. \A i \in 1..l : i \in 0..l /\ i # 0
      OBVIOUS
  <2>3. \A i \in 1..l : after[i] = ScanPage(after[i - 1], list[i], n, align)
      BY <1>11, <2>2
  <2> QED
      BY <1>2, <1>12, <2>1, <2>3 DEF PagesRun
<1> QED
    BY <1>15, <1>16

\* ... and ends on a page of it, or on none.
LEMMA ScanChooses ==
    ASSUME NEW list \in Seq(Pages), \A q \in ToSet(list) : Walkable(q),
           NEW n \in Nat, NEW align \in Nat, align % SLOB_UNIT = 0
    PROVE  Scan(list, n, align).page \in ToSet(list) \cup {NoPage}
<1>1. PICK D : D = ToSet(list) \cup {NoPage}
    OBVIOUS
<1>2. PICK f : PagesRun(f, list, n, align) /\ f[Len(list)] \in Found(D)
    BY <1>1, PagesRuns
<1> QED
    BY <1>1, <1>2 DEF PagesRun, Found

\* What total_free_mem is set to is a value it can have.
LEMMA FreeMemoryFits ==
    ASSUME units \in [Pages -> Int], \A l \in ListNames : lists[l] \in Seq(Pages)
    PROVE  FreeMemory \in 0..WORD - 1
<1>1. \A l \in ListNames : calc_free_mem(lists[l]) \in Int
    BY SumIsNumber DEF calc_free_mem
<1>2. PICK a, b, c \in Int : /\ a = calc_free_mem(lists["free_slob_small"])
                             /\ b = calc_free_mem(lists["free_slob_medium"])
                             /\ c = calc_free_mem(lists["free_slob_large"])
    BY <1>1 DEF ListNames
<1>3. FreeMemory = (a + b + c) % WORD
    BY <1>2 DEF FreeMemory
<1> QED
    BY <1>3, CounterAssumption

LEMMA FreeMemoryFitsNext ==
    ASSUME units' \in [Pages -> Int], \A l \in ListNames : lists'[l] \in Seq(Pages)
    PROVE  FreeMemory' \in 0..WORD - 1
<1>1. PICK u : u = units'
    OBVIOUS
<1>2. \A l \in ListNames : calc_free_mem(lists[l])' \in Int
    BY <1>1, SumIsNumber DEF calc_free_mem
<1>3. PICK a, b, c \in Int : /\ a = calc_free_mem(lists["free_slob_small"])'
                             /\ b = calc_free_mem(lists["free_slob_medium"])'
                             /\ c = calc_free_mem(lists["free_slob_large"])'
    BY <1>2 DEF ListNames
<1>4. FreeMemory' = (a + b + c) % WORD
    BY <1>3 DEF FreeMemory
<1> QED
    BY <1>4, CounterAssumption

-----------------------------------------------------------------------------
(* The invariant, block by block and call by call *)

Live == held \cup retired

\* n units at a on page p are in use, for something of size z.
Holds(p, a, n, z) ==
    \/ \E b \in Live : b.page = p /\ b.at = a /\ b.units = n /\ b.size = z
    \/ \E t \in Threads : /\ Freeing(t) /\ call[t].page = p /\ call[t].at = a
                          /\ call[t].size = z /\ n = SLOB_UNITS(z)

\* A step leaves alone what is in use on page p.
SameHolders(p) == \A a, n, z : Holds(p, a, n, z)' <=> Holds(p, a, n, z)

LEMMA HoldersOf ==
    ASSUME NEW p
    PROVE  /\ \A s : s \in UsedSpans(p) <=> \E a, n, z : Holds(p, a, n, z) /\ s = <<a, n>>
           /\ \A z : z \in SizesOn(p) <=> \E a, n : Holds(p, a, n, z)
<1>1. \A s : s \in UsedSpans(p) <=>
          \/ \E b \in Live : b.page = p /\ s = <<b.at, b.units>>
          \/ \E t \in Threads : Freeing(t) /\ call[t].page = p
                                /\ s = <<call[t].at, SLOB_UNITS(call[t].size)>>
    BY DEF UsedSpans, Freeing, Live
<1>2. \A z : z \in SizesOn(p) <=>
          \/ \E b \in Live : b.page = p /\ z = b.size
          \/ \E t \in Threads : Freeing(t) /\ call[t].page = p /\ z = call[t].size
    BY DEF SizesOn, Live
<1>3. ASSUME NEW s PROVE s \in UsedSpans(p) <=> \E a, n, z : Holds(p, a, n, z) /\ s = <<a, n>>
    BY <1>1 DEF Holds
<1>4. ASSUME NEW z PROVE z \in SizesOn(p) <=> \E a, n : Holds(p, a, n, z)
    BY <1>2 DEF Holds
<1> QED
    BY <1>3, <1>4

LEMMA HoldersOfNext ==
    ASSUME NEW p
    PROVE  /\ \A s : s \in UsedSpans(p)' <=> \E a, n, z : Holds(p, a, n, z)' /\ s = <<a, n>>
           /\ \A z : z \in SizesOn(p)' <=> \E a, n : Holds(p, a, n, z)'
<1>1. \A s : s \in UsedSpans(p)' <=>
          \/ \E b \in Live' : b.page = p /\ s = <<b.at, b.units>>
          \/ \E t \in Threads : Freeing(t)' /\ call'[t].page = p
                                /\ s = <<call'[t].at, SLOB_UNITS(call'[t].size)>>
    BY DEF UsedSpans, Freeing, Live
<1>2. \A z : z \in SizesOn(p)' <=>
          \/ \E b \in Live' : b.page = p /\ z = b.size
          \/ \E t \in Threads : Freeing(t)' /\ call'[t].page = p /\ z = call'[t].size
    BY DEF SizesOn, Live
<1>3. ASSUME NEW s PROVE s \in UsedSpans(p)' <=> \E a, n, z : Holds(p, a, n, z)' /\ s = <<a, n>>
    BY <1>1 DEF Holds
<1>4. ASSUME NEW z PROVE z \in SizesOn(p)' <=> \E a, n : Holds(p, a, n, z)'
    BY <1>2 DEF Holds
<1> QED
    BY <1>3, <1>4

LEMMA HoldersKept ==
    ASSUME NEW p, SameHolders(p)
    PROVE  UsedSpans(p)' = UsedSpans(p) /\ SizesOn(p)' = SizesOn(p)
<1>1. \A a, n, z : Holds(p, a, n, z)' <=> Holds(p, a, n, z)
    BY DEF SameHolders
<1>2. \A s : s \in UsedSpans(p)' <=> s \in UsedSpans(p)
    BY <1>1, HoldersOf, HoldersOfNext
<1>3. \A z : z \in SizesOn(p)' <=> z \in SizesOn(p)
    BY <1>1, HoldersOf, HoldersOfNext
<1> QED
    BY <1>2, <1>3

LEMMA SplitIsPageSplitNext ==
    ASSUME NEW p
    PROVE  PageSplit(p)' <=> Split(mem'[p], freelist'[p], units'[p], UsedSpans(p)')
    BY DEF PageSplit, Split, FreeUnits, FreeOn, Free, FreeIn

LEMMA SplitKept ==
    ASSUME NEW p, PageSplit(p), SameHolders(p),
           mem'[p] = mem[p], freelist'[p] = freelist[p], units'[p] = units[p]
    PROVE  PageSplit(p)'
    BY SplitIsPageSplit, SplitIsPageSplitNext, HoldersKept

\* BlockInv of one block; S are the slab pages.
BlockOk(b, S) ==
    /\ b \in Block /\ 0 < b.size /\ b.at + b.units <= PageUnits
    /\ b.page \in S => /\ b.kind \in {"kmalloc", "cache"}
                       /\ b.size < PAGE_SIZE /\ b.units = SLOB_UNITS(b.size)
    /\ b.page \notin S => /\ b.kind \in {"large", "cache"} /\ b.at = 0 /\ b.units = PageUnits
                          /\ b.kind = "cache" => b.size >= PAGE_SIZE
    /\ b.kind = "kmalloc" => b.size > MINALIGN
    /\ b.rcu => b.kind = "cache" /\ \E k \in Caches : k.rcu /\ b.size = CacheSize(k)

\* CallInv of one call.
CallOk(c, S) ==
    /\ c \in Call
    /\ c.pc = "idle" => c = Idle
    /\ c.pc \in {"search", "add"} => Asked(c)
    /\ c.pc \in {"new_page", "count"} => Asked(c) \/ AskedPage(c)
    /\ c.pc \in {"count", "add", "free", "release"} => c.page \in Pages
    /\ c.pc = "free" => /\ 0 < c.size /\ c.size < PAGE_SIZE /\ c.page \in S
                        /\ c.at + SLOB_UNITS(c.size) <= PageUnits
    /\ c.pc # "bug"

\* OwnersDataIntact of one block; m is the memory of its page.
HeldOk(b, m, S) ==
    /\ b.page \in S => \A x \in Covers(b.at, b.units) :
                          m[x] = IF b.kind = "kmalloc" /\ x = b.at THEN b.size - MINALIGN ELSE 0
    /\ b.kind = "kmalloc" =>
          SLOB_UNIT * b.at + MINALIGN + SLOB_UNITS(m[b.at]) * SLOB_UNIT
              <= SLOB_UNIT * (b.at + b.units)

RetiredOk(b, m) ==
    /\ m[Footer(b)] = b.size
    /\ \E c \in Caches :
          /\ c.rcu /\ b.size = CacheSize(c)
          /\ \A x \in Covers(b.at, SLOB_UNITS(c.object_size)) : m[x] = 0

LEMMA InvOfEach ==
    /\ BlockInv <=> (\A b \in Live : BlockOk(b, slab)) /\ \A b \in retired : b.rcu
    /\ CallInv <=> DOMAIN call = Threads /\ call = [t \in Threads |-> call[t]]
                       /\ \A t \in Threads : CallOk(call[t], slab)
    /\ OwnersDataIntact <=> /\ \A b \in held : HeldOk(b, mem[b.page], slab)
                            /\ \A b \in retired : RetiredOk(b, mem[b.page])
<1>1. BlockInv <=> (\A b \in Live : BlockOk(b, slab)) /\ \A b \in retired : b.rcu
    BY DEF BlockInv, BlockOk, Live
<1>2. CallInv <=> DOMAIN call = Threads /\ call = [t \in Threads |-> call[t]]
                      /\ \A t \in Threads : CallOk(call[t], slab)
  <2>1. call \in [Threads -> Call] <=> DOMAIN call = Threads /\ call = [t \in Threads |-> call[t]]
                                           /\ \A t \in Threads : call[t] \in Call
      OBVIOUS
  <2> QED
      BY <2>1 DEF CallInv, CallOk
<1>3. OwnersDataIntact <=> /\ \A b \in held : HeldOk(b, mem[b.page], slab)
                           /\ \A b \in retired : RetiredOk(b, mem[b.page])
    BY DEF OwnersDataIntact, HeldOk, RetiredOk, ksize
<1> QED
    BY <1>1, <1>2, <1>3

LEMMA InvOfEachNext ==
    /\ BlockInv' <=> (\A b \in Live' : BlockOk(b, slab')) /\ \A b \in retired' : b.rcu
    /\ CallInv' <=> DOMAIN call' = Threads /\ call' = [t \in Threads |-> call'[t]]
                       /\ \A t \in Threads : CallOk(call'[t], slab')
    /\ OwnersDataIntact' <=> /\ \A b \in held' : HeldOk(b, mem'[b.page], slab')
                             /\ \A b \in retired' : RetiredOk(b, mem'[b.page])
<1>1. BlockInv' <=> (\A b \in Live' : BlockOk(b, slab')) /\ \A b \in retired' : b.rcu
    BY DEF BlockInv, BlockOk, Live
<1>2. CallInv' <=> DOMAIN call' = Threads /\ call' = [t \in Threads |-> call'[t]]
                      /\ \A t \in Threads : CallOk(call'[t], slab')
  <2>1. call' \in [Threads -> Call] <=> DOMAIN call' = Threads /\ call' = [t \in Threads |-> call'[t]]
                                           /\ \A t \in Threads : call'[t] \in Call
      OBVIOUS
  <2> QED
      BY <2>1 DEF CallInv, CallOk
<1>3. OwnersDataIntact' <=> /\ \A b \in held' : HeldOk(b, mem'[b.page], slab')
                            /\ \A b \in retired' : RetiredOk(b, mem'[b.page])
    BY DEF OwnersDataIntact, HeldOk, RetiredOk, ksize
<1> QED
    BY <1>1, <1>2, <1>3

\* What the invariant says of a page on a list ...
LEMMA PageOnList ==
    ASSUME IInv, NEW l \in ListNames, NEW p \in ToSet(lists[l])
    PROVE  /\ p \in Pages /\ p \in slab /\ p \in slobFree /\ p \in InService
           /\ units[p] \in Nat /\ 0 < units[p] /\ units[p] < PageUnits
           /\ PageSplit(p) /\ Walkable(p)
           /\ \A k \in ListNames : k # l => p \notin ToSet(lists[k])
<1>1. TypeOK /\ PagesListed /\ PlacesInv /\ SplitInv
    BY DEF IInv
<1>2. p \in Pages
  <2>1. lists[l] \in Seq(slab) /\ slab \subseteq Pages
      BY <1>1 DEF TypeOK
  <2> QED
      BY <2>1 DEF ToSet
<1>3. p \in slobFree /\ p \in slab
    BY <1>1, <1>2 DEF PagesListed, TypeOK
<1>4. p \in InService
  <2>1. \A t \in Threads : call[t].pc = "release" => call[t].page # p
      BY <1>1, <1>3 DEF PlacesInv, Releasing
  <2> QED
      BY <1>3, <2>1 DEF InService
<1>5. units[p] \in 0..PageUnits - 1 /\ units[p] > 0
    BY <1>1, <1>2, <1>4 DEF PagesListed, TypeOK
<1>6. PageSplit(p)
    BY <1>1, <1>4 DEF SplitInv
<1>7. Walkable(p)
  <2>1. ListHeld(mem[p], freelist[p], FreeOn(p), SizesOf(mem[p]))
      BY <1>5, <1>6 DEF PageSplit
  <2>2. FreeBlocks(mem[p], freelist[p]) \in Seq(FreeOn(p))
      BY <2>1, Listing DEF Walk
  <2>3. FreeOn(p) \in SUBSET AllUnits
      BY <2>1 DEF ListHeld, AllUnits
  <2>4. FreeBlocks(mem[p], freelist[p]) \in Seq(AllUnits)
      BY <2>2, <2>3
  <2> QED
      BY <1>1, <1>2, <1>5, <2>4, PageFacts DEF Walkable, TypeOK, Memory
<1>8. \A k \in ListNames : k # l => p \notin ToSet(lists[k])
    BY <1>1 DEF PagesListed
<1> QED
    BY <1>2, <1>3, <1>4, <1>5, <1>6, <1>7, <1>8, PageFacts

\* ... of a block on a slab page, and of one that is being freed ...
LEMMA BlockServed ==
    ASSUME IInv
    PROVE  /\ \A b \in Live : BlockOk(b, slab) /\ Holds(b.page, b.at, b.units, b.size)
           /\ \A b \in Live : b.page \in slab => b.page \in InService
           /\ \A t \in Threads : CallOk(call[t], slab)
           /\ \A t \in Threads : Freeing(t) =>
                 /\ call[t].page \in slab /\ call[t].page \in InService
                 /\ Holds(call[t].page, call[t].at, SLOB_UNITS(call[t].size), call[t].size)
           /\ \A p \in InService : p \in slab /\ PageSplit(p)
<1>1. BlockInv /\ CallInv /\ PlacesInv /\ SplitInv
    BY DEF IInv
<1>2. \A b \in Live : BlockOk(b, slab)
    BY <1>1, InvOfEach
<1>3. \A t \in Threads : CallOk(call[t], slab)
    BY <1>1, InvOfEach
<1>4. ASSUME NEW b \in Live PROVE Holds(b.page, b.at, b.units, b.size)
    BY DEF Holds
<1>5. ASSUME NEW b \in Live, b.page \in slab PROVE b.page \in InService
  <2>1. \A t \in Threads : call[t].pc = "release" => call[t].page # b.page
      BY <1>1 DEF PlacesInv, Releasing, Live
  <2> QED
      BY <1>5, <2>1 DEF InService
<1>6. ASSUME NEW t \in Threads, Freeing(t)
      PROVE  /\ call[t].page \in slab /\ call[t].page \in InService
             /\ Holds(call[t].page, call[t].at, SLOB_UNITS(call[t].size), call[t].size)
  <2>1. call[t].page \in slab
      BY <1>3, <1>6 DEF CallOk, Freeing
  <2>2. \A u \in Threads : call[u].pc = "release" => call[u].page # call[t].page
    <3>1. ASSUME NEW u \in Threads, call[u].pc = "release" PROVE call[u].page # call[t].page
      <4>1. u # t
          BY <1>6, <3>1 DEF Freeing
      <4> QED
          BY <1>1, <1>6, <3>1, <4>1 DEF PlacesInv, Releasing
    <3> QED
        BY <3>1
  <2>3. call[t].page \in InService
      BY <2>1, <2>2 DEF InService
  <2>4. Holds(call[t].page, call[t].at, SLOB_UNITS(call[t].size), call[t].size)
      BY <1>6 DEF Holds
  <2> QED
      BY <2>1, <2>3, <2>4
<1>7. \A p \in InService : p \in slab /\ PageSplit(p)
    BY <1>1 DEF SplitInv, InService
<1> QED
    BY <1>2, <1>3, <1>4, <1>5, <1>6, <1>7

LEMMA BlockNumbers ==
    ASSUME NEW b, NEW S, BlockOk(b, S)
    PROVE  /\ b.page \in Pages /\ b.at \in Nat /\ b.units \in Nat /\ 0 < b.units
           /\ b.size \in Nat /\ 0 < b.size /\ b.at + b.units <= PageUnits
           /\ b.rcu \in BOOLEAN
    BY PageFacts DEF BlockOk, Block

\* The numbers of what is in use on a slab page.
LEMMA HoldsNumbers ==
    ASSUME IInv, NEW p \in slab, NEW a, NEW n, NEW z, Holds(p, a, n, z)
    PROVE  /\ a \in Nat /\ n \in Nat /\ z \in Nat /\ 0 < n /\ 0 < z /\ z < PAGE_SIZE
           /\ n = SLOB_UNITS(z) /\ a + n <= PageUnits
<1>1. CASE \E b \in Live : b.page = p /\ b.at = a /\ b.units = n /\ b.size = z
  <2>1. PICK b \in Live : b.page = p /\ b.at = a /\ b.units = n /\ b.size = z
      BY <1>1
  <2>2. BlockOk(b, slab)
      BY BlockServed
  <2>3. z < PAGE_SIZE /\ n = SLOB_UNITS(z)
      BY <2>1, <2>2 DEF BlockOk
  <2> QED
      BY <2>1, <2>2, <2>3, BlockNumbers
<1>2. CASE \E t \in Threads : /\ Freeing(t) /\ call[t].page = p /\ call[t].at = a
                              /\ call[t].size = z /\ n = SLOB_UNITS(z)
  <2>1. PICK t \in Threads : /\ Freeing(t) /\ call[t].page = p /\ call[t].at = a
                             /\ call[t].size = z /\ n = SLOB_UNITS(z)
      BY <1>2
  <2>2. CallOk(call[t], slab)
      BY BlockServed
  <2>3. call[t].size \in Nat /\ call[t].at \in Nat
      BY <2>2 DEF CallOk, Call
  <2>4. 0 < z /\ z < PAGE_SIZE /\ a + n <= PageUnits
      BY <2>1, <2>2 DEF CallOk, Freeing
  <2>5. n \in Nat /\ 0 < n
      BY <2>1, <2>3, <2>4, UnitsOfSize
  <2> QED
      BY <2>1, <2>3, <2>4, <2>5
<1> QED
    BY <1>1, <1>2 DEF Holds

LEMMA SpansInUse ==
    ASSUME IInv, NEW p \in slab
    PROVE  UsedSpans(p) \in SUBSET Spans
<1>1. ASSUME NEW s \in UsedSpans(p) PROVE s \in Spans
  <2>1. PICK a, n, z : Holds(p, a, n, z) /\ s = <<a, n>>
      BY HoldersOf
  <2>2. a \in Nat /\ n \in Nat /\ 0 < n /\ a + n <= PageUnits
      BY <2>1, HoldsNumbers
  <2> QED
      BY <2>1, <2>2 DEF Spans
<1> QED
    BY <1>1

\* Two things in use on a page have no unit in common.
LEMMA HoldersApart ==
    ASSUME IInv, NEW p \in InService, NEW a, NEW n, NEW z, Holds(p, a, n, z),
           NEW b, NEW k, NEW y, Holds(p, b, k, y), a # b
    PROVE  \A x \in Covers(a, n) : x \notin Covers(b, k)
<1>1. PageSplit(p) /\ p \in slab
    BY BlockServed
<1>2. <<a, n>> \in UsedSpans(p) /\ <<b, k>> \in UsedSpans(p)
    BY HoldersOf
<1>3. PICK s, r \in UsedSpans(p) : s = <<a, n>> /\ r = <<b, k>>
    BY <1>2
<1>4. s # r /\ s[1] = a /\ s[2] = n /\ r[1] = b /\ r[2] = k
    BY <1>3
<1>5. Covers(s[1], s[2]) \cap Covers(r[1], r[2]) = {}
    BY <1>1, <1>4 DEF PageSplit
<1> QED
    BY <1>4, <1>5

\* ... and of a block that is not on a slab page.
LEMMA BlockAlone ==
    ASSUME IInv, NEW b \in Live, b.page \notin slab, NEW c \in Live, c.page = b.page
    PROVE  c = b
<1>1. BlockOk(b, slab) /\ BlockOk(c, slab)
    BY BlockServed
<1>2. b.at = 0 /\ c.at = 0
    BY <1>1 DEF BlockOk
<1> QED
    BY <1>2 DEF IInv, OwnersInv, Live

\* The footer of an RCU object is a unit of its block, and lies behind its data.
LEMMA FooterFacts ==
    ASSUME NEW b, NEW S, BlockOk(b, S), NEW c \in Caches, c.rcu, b.size = CacheSize(c)
    PROVE  /\ Footer(b) = b.at + SLOB_UNITS(c.object_size)
           /\ Footer(b) \in Covers(b.at, b.units)
           /\ Footer(b) - (b.size - RCU_SIZE) \div SLOB_UNIT = b.at
           /\ Footer(b) \in AllUnits
           /\ \A x \in Covers(b.at, SLOB_UNITS(c.object_size)) :
                 x \in Covers(b.at, b.units) /\ x # Footer(b)
<1>1. PICK o : o = c.object_size
    OBVIOUS
<1>2. /\ o \in Nat /\ 0 < o /\ o % 2 = 0 /\ o + RCU_SIZE <= PAGE_SIZE
      /\ b.size = o + RCU_SIZE
  <2>1. c.object_size \in 1..PAGE_SIZE /\ PAGE_SIZE \in Nat
      BY CacheAssumption, SizeAssumption
  <2>2. o \in Nat /\ 0 < o
      BY <1>1, <2>1
  <2> QED
      BY <1>1, <2>2, CacheAssumption DEF CacheSize, SLOB_UNIT
<1>3. RCU_SIZE \in Nat /\ 0 < RCU_SIZE /\ RCU_SIZE % 2 = 0
    BY SizeAssumption DEF SLOB_UNIT
<1>4. PICK h \in Nat : o = 2 * h
    BY <1>2
<1>5. SLOB_UNITS(o) = h /\ (b.size - RCU_SIZE) \div SLOB_UNIT = h
    BY <1>2, <1>3, <1>4 DEF SLOB_UNITS, SLOB_UNIT
<1>6. PICK a \in Nat, u \in Nat : a = b.at /\ u = b.units /\ a + u <= PageUnits
    BY BlockNumbers
<1>7. h < u
  <2>1. CASE b.page \in S
    <3>1. u = SLOB_UNITS(b.size)
        BY <1>6, <2>1 DEF BlockOk
    <3> QED
        BY <1>2, <1>3, <1>4, <3>1 DEF SLOB_UNITS, SLOB_UNIT
  <2>2. CASE b.page \notin S
    <3>1. u = PageUnits
        BY <1>6, <2>2 DEF BlockOk
    <3> QED
        BY <1>2, <1>3, <1>4, <3>1, PageFacts
  <2> QED
      BY <2>1, <2>2
<1>8. Footer(b) = a + h
    BY <1>5, <1>6 DEF Footer
<1>9. Footer(b) \in Covers(a, u) /\ Footer(b) \in AllUnits
    BY <1>6, <1>7, <1>8, PageFacts DEF Covers, AllUnits
<1>10. \A x \in Covers(a, h) : x \in Covers(a, u) /\ x # Footer(b)
    BY <1>7, <1>8 DEF Covers
<1> QED
    BY <1>1, <1>5, <1>6, <1>8, <1>9, <1>10

-----------------------------------------------------------------------------
(* Steps that change calls only *)

CallSet(t, c) == call' = [call EXCEPT ![t] = c]

LEMMA CallSetFacts ==
    ASSUME IInv, NEW t \in Threads, NEW c, CallSet(t, c)
    PROVE  /\ call'[t] = c /\ \A u \in Threads \ {t} : call'[u] = call[u]
           /\ DOMAIN call' = Threads /\ call' = [u \in Threads |-> call'[u]]
<1>1. DOMAIN call = Threads /\ call = [u \in Threads |-> call[u]]
    BY InvOfEach DEF IInv
<1> QED
    BY <1>1 DEF CallSet

LEMMA CallsKept ==
    ASSUME IInv, NEW t \in Threads, NEW c, CallSet(t, c), CallOk(c, slab'),
           \A u \in Threads \ {t} : Freeing(u) => call[u].page \in slab'
    PROVE  CallInv'
<1>1. /\ call'[t] = c /\ \A u \in Threads \ {t} : call'[u] = call[u]
      /\ DOMAIN call' = Threads /\ call' = [u \in Threads |-> call'[u]]
    BY CallSetFacts
<1>2. ASSUME NEW u \in Threads \ {t} PROVE CallOk(call'[u], slab')
  <2>1. CallOk(call[u], slab)
      BY BlockServed
  <2> QED
      BY <1>1, <1>2, <2>1 DEF CallOk, Freeing
<1>3. \A u \in Threads : CallOk(call'[u], slab')
    BY <1>1, <1>2
<1> QED
    BY <1>1, <1>3, InvOfEachNext

\* What the invariant asks of a call is what pages it has its hands on, and how.
SameRole(u) ==
    /\ Freeing(u)' <=> Freeing(u)
    /\ Private(u)' <=> Private(u)
    /\ Releasing(u)' <=> Releasing(u)
    /\ Freeing(u) \/ Private(u) \/ Releasing(u) =>
          /\ call'[u].page = call[u].page /\ call'[u].at = call[u].at
          /\ call'[u].size = call[u].size

SameRoles == \A u \in Threads : SameRole(u)

Roles == {"free", "count", "add", "release"}

LEMMA OthersRoles ==
    ASSUME IInv, NEW t \in Threads, NEW c, CallSet(t, c)
    PROVE  /\ \A u \in Threads \ {t} : SameRole(u) /\ call'[u] = call[u]
           /\ Freeing(t)' <=> c.pc = "free"
           /\ Private(t)' <=> c.pc \in {"count", "add"}
           /\ Releasing(t)' <=> c.pc = "release"
    BY CallSetFacts DEF SameRole, Freeing, Private, Releasing

LEMMA SameInService ==
    ASSUME SameRoles, slab' = slab
    PROVE  InService' = InService
<1>1. \A p : p \in InService <=> p \in slab /\ \A u \in Threads : Releasing(u) => call[u].page # p
    BY DEF InService, Releasing
<1>2. \A p : p \in InService' <=>
          p \in slab' /\ \A u \in Threads : Releasing(u)' => call'[u].page # p
    BY DEF InService, Releasing
<1>3. \A p : p \in InService' <=> p \in InService
    BY <1>1, <1>2 DEF SameRoles, SameRole
<1> QED
    BY <1>3

LEMMA SameUsers ==
    ASSUME SameRoles, held' = held, retired' = retired
    PROVE  \A p : SameHolders(p)
<1>1. Live' = Live
    BY DEF Live
<1>2. ASSUME NEW p, NEW a, NEW n, NEW z PROVE Holds(p, a, n, z)' <=> Holds(p, a, n, z)
  <2>1. \A t \in Threads :
            (Freeing(t)' /\ call'[t].page = p /\ call'[t].at = a /\ call'[t].size = z)
               <=> (Freeing(t) /\ call[t].page = p /\ call[t].at = a /\ call[t].size = z)
      BY DEF SameRoles, SameRole
  <2> QED
      BY <1>1, <2>1 DEF Holds
<1> QED
    BY <1>2 DEF SameHolders

\* No page and no block is touched, and every call keeps its part.
LEMMA QuietStep ==
    ASSUME IInv, NEW t \in Threads, NEW c, CallSet(t, c), CallOk(c, slab), SameRole(t),
           UNCHANGED <<fit, page, frames, users>>,
           total_alloc_mem' \in 0..WORD - 1, total_free_mem' \in 0..WORD - 1
    PROVE  IInv'
<1>1. /\ mem' = mem /\ units' = units /\ freelist' = freelist /\ slab' = slab
      /\ slobFree' = slobFree /\ lists' = lists /\ held' = held /\ retired' = retired
    BY DEF page, users
<1>2. TypeOK /\ BlockInv /\ OwnersInv /\ PlacesInv /\ SplitInv /\ ClassInv /\ PagesListed
          /\ OwnersDataIntact
    BY DEF IInv
<1>3. SameRoles
    BY OthersRoles DEF SameRoles
<1>4. InService' = InService
    BY <1>1, <1>3, SameInService
<1>5. \A p : SameHolders(p)
    BY <1>1, <1>3, SameUsers
<1>6. CallInv'
  <2>1. \A u \in Threads \ {t} : Freeing(u) => call[u].page \in slab'
      BY <1>1, BlockServed
  <2> QED
      BY <1>1, <2>1, CallsKept
<1>7. TypeOK'
  <2>1. \A u \in Threads : call'[u].pc \in Steps
      BY <1>6 DEF CallInv, Call
  <2> QED
      BY <1>1, <1>2, <2>1 DEF TypeOK
<1>8. BlockInv'
    BY <1>1, <1>2 DEF BlockInv
<1>9. OwnersInv'
    BY <1>1, <1>2, <1>3 DEF OwnersInv, SameRoles, SameRole
<1>10. PlacesInv'
    BY <1>1, <1>2, <1>3 DEF PlacesInv, SameRoles, SameRole
<1>11. SplitInv'
  <2>1. ASSUME NEW p \in InService PROVE PageSplit(p)'
      BY <1>1, <1>2, <1>5, SplitKept DEF SplitInv
  <2> QED
      BY <1>4, <2>1 DEF SplitInv
<1>12. ClassInv'
  <2>1. \A p : SizesOn(p)' = SizesOn(p)
      BY <1>5, HoldersKept
  <2> QED
      BY <1>1, <1>2, <2>1 DEF ClassInv
<1>13. PagesListed'
    BY <1>1, <1>2, <1>4 DEF PagesListed
<1>14. OwnersDataIntact'
    BY <1>1, <1>2 DEF OwnersDataIntact, ksize, Footer
<1> QED
    BY <1>6, <1>7, <1>8, <1>9, <1>10, <1>11, <1>12, <1>13, <1>14 DEF IInv

\* A call that has its hands on no page, before and after the step.
LEMMA NoRole ==
    ASSUME IInv, NEW t \in Threads, NEW c, CallSet(t, c), call[t].pc \notin Roles, c.pc \notin Roles
    PROVE  SameRole(t)
<1>1. call'[t] = c
    BY CallSetFacts
<1> QED
    BY <1>1 DEF SameRole, Freeing, Private, Releasing, Roles

LEMMA IdleCall == Idle.pc = "idle" /\ \A S : CallOk(Idle, S)
<1>1. Idle \in Call /\ Idle.pc = "idle"
    BY CounterAssumption DEF Idle, Call, Steps
<1> QED
    BY <1>1 DEF CallOk

\* A call that begins.
Begun(step, kind, size, align, rcu) ==
    [Idle EXCEPT !.pc = step, !.kind = kind, !.size = size, !.align = align, !.rcu = rcu]

LEMMA BegunCall ==
    ASSUME NEW step \in {"search", "new_page"}, NEW kind \in {"kmalloc", "large", "cache"},
           NEW size \in Nat, NEW align \in Nat, NEW rcu \in BOOLEAN,
           NEW c, c = Begun(step, kind, size, align, rcu)
    PROVE  /\ c \in Call /\ c.pc = step /\ c.kind = kind /\ c.size = size /\ c.align = align
           /\ c.rcu = rcu
<1>1. c = [pc |-> step, kind |-> kind, size |-> size, align |-> align, rcu |-> rcu,
           page |-> NoPage, at |-> 0, seen |-> 0]
    BY DEF Begun, Idle
<1>2. 0 \in 0..WORD - 1
    BY CounterAssumption
<1> QED
    BY <1>1, <1>2 DEF Call, Steps

LEMMA Entered ==
    ASSUME IInv, NEW t \in Threads, NEW c, CallSet(t, c), call[t] = Idle,
           c \in Call, c.pc \in {"search", "new_page"},
           Asked(c) \/ (c.pc = "new_page" /\ AskedPage(c)),
           UNCHANGED <<fit, page, frames, users>>,
           total_alloc_mem' \in 0..WORD - 1, total_free_mem' \in 0..WORD - 1
    PROVE  IInv'
<1>1. CallOk(c, slab)
    BY DEF CallOk
<1>2. SameRole(t)
    BY IdleCall, NoRole DEF Roles
<1> QED
    BY <1>1, <1>2, QuietStep

LEMMA Counters ==
    ASSUME IInv
    PROVE  /\ total_alloc_mem \in 0..WORD - 1 /\ total_free_mem \in 0..WORD - 1
           /\ 0 \in 0..WORD - 1 /\ FreeMemory \in 0..WORD - 1
<1>1. TypeOK
    BY DEF IInv
<1>2. units \in [Pages -> Int] /\ \A l \in ListNames : lists[l] \in Seq(Pages)
    BY <1>1, PageFacts DEF TypeOK
<1> QED
    BY <1>1, <1>2, FreeMemoryFits, CounterAssumption DEF TypeOK

LEMMA KmallocSmallKeeps ==
    ASSUME IInv, NEW t \in Threads, NEW size \in Sizes, KmallocSmall(t, size)
    PROVE  IInv'
<1>1. size \in Nat /\ 0 < size /\ MINALIGN \in Nat /\ 0 < MINALIGN /\ PAGE_SIZE \in Nat
    BY SizeAssumption
<1>2. size < PAGE_SIZE - MINALIGN
    BY DEF KmallocSmall, Small
<1>3. PICK z \in Nat : z = size + MINALIGN /\ z > MINALIGN /\ 0 < z /\ z < PAGE_SIZE
    BY <1>1, <1>2
<1>0. PICK r \in BOOLEAN : r = FALSE
    OBVIOUS
<1>4. PICK c : c = Begun("search", "kmalloc", z, MINALIGN, r)
    OBVIOUS
<1>5. c \in Call /\ c.pc = "search" /\ Asked(c)
  <2>1. /\ c \in Call /\ c.pc = "search" /\ c.kind = "kmalloc" /\ c.size = z
        /\ c.align = MINALIGN /\ c.rcu = r
      BY <1>1, <1>3, <1>4, BegunCall
  <2> QED
      BY <1>0, <1>3, <2>1 DEF Asked
<1>6. CallSet(t, c) /\ call[t] = Idle
    BY <1>0, <1>3, <1>4 DEF KmallocSmall, Enter, CallSet, Begun
<1>7. /\ UNCHANGED <<fit, page, frames, users>>
      /\ total_alloc_mem' \in 0..WORD - 1 /\ total_free_mem' \in 0..WORD - 1
    BY Counters DEF KmallocSmall
<1> QED
    BY <1>5, <1>6, <1>7, Entered

LEMMA KmallocLargeKeeps ==
    ASSUME IInv, NEW t \in Threads, NEW size \in Sizes, KmallocLarge(t, size)
    PROVE  IInv'
<1>1. PAGE_SIZE \in Nat
    BY SizeAssumption
<1>0. PICK r \in BOOLEAN : r = FALSE
    OBVIOUS
<1>2. PICK c : c = Begun("new_page", "large", PAGE_SIZE, 0, r)
    OBVIOUS
<1>3. c \in Call /\ c.pc = "new_page" /\ AskedPage(c)
  <2>1. /\ c \in Call /\ c.pc = "new_page" /\ c.kind = "large" /\ c.size = PAGE_SIZE
        /\ c.rcu = r
      BY <1>1, <1>2, BegunCall
  <2> QED
      BY <1>0, <2>1 DEF AskedPage
<1>4. CallSet(t, c) /\ call[t] = Idle
    BY <1>0, <1>2 DEF KmallocLarge, Enter, CallSet, Begun
<1>5. /\ UNCHANGED <<fit, page, frames, users>>
      /\ total_alloc_mem' \in 0..WORD - 1 /\ total_free_mem' \in 0..WORD - 1
    BY Counters DEF KmallocLarge, counters
<1> QED
    BY <1>3, <1>4, <1>5, Entered

LEMMA CacheNumbers ==
    ASSUME NEW k \in Caches
    PROVE  /\ CacheSize(k) \in Nat /\ 0 < CacheSize(k)
           /\ k.align \in Nat /\ k.align % SLOB_UNIT = 0 /\ k.rcu \in BOOLEAN
<1>1. k.object_size \in Nat /\ 0 < k.object_size /\ RCU_SIZE \in Nat
    BY CacheAssumption, SizeAssumption
<1>2. CacheSize(k) \in Nat /\ 0 < CacheSize(k)
    BY <1>1 DEF CacheSize
<1> QED
    BY <1>2, CacheAssumption

LEMMA CacheAllocKeeps ==
    ASSUME IInv, NEW t \in Threads, NEW k \in Caches, CacheAlloc(t, k)
    PROVE  IInv'
<1>1. CacheSize(k) < PAGE_SIZE
    BY DEF CacheAlloc
<1>2. PICK z \in Nat : z = CacheSize(k) /\ 0 < z
    BY CacheNumbers
<1>3. PICK a \in Nat, r \in BOOLEAN : a = k.align /\ r = k.rcu
    BY CacheNumbers
<1>4. PICK c : c = Begun("search", "cache", z, a, r)
    OBVIOUS
<1>5. c \in Call /\ c.pc = "search" /\ Asked(c)
  <2>1. /\ c \in Call /\ c.pc = "search" /\ c.kind = "cache" /\ c.size = z
        /\ c.align = a /\ c.rcu = r
      BY <1>4, BegunCall
  <2> QED
      BY <1>1, <1>2, <1>3, <2>1 DEF Asked
<1>6. CallSet(t, c) /\ call[t] = Idle
    BY <1>2, <1>3, <1>4 DEF CacheAlloc, Enter, CallSet, Begun
<1>7. /\ UNCHANGED <<fit, page, frames, users>>
      /\ total_alloc_mem' \in 0..WORD - 1 /\ total_free_mem' \in 0..WORD - 1
    BY Counters DEF CacheAlloc
<1> QED
    BY <1>5, <1>6, <1>7, Entered

LEMMA CacheAllocPageKeeps ==
    ASSUME IInv, NEW t \in Threads, NEW k \in Caches, CacheAllocPage(t, k)
    PROVE  IInv'
<1>1. CacheSize(k) >= PAGE_SIZE
    BY DEF CacheAllocPage
<1>2. PICK z \in Nat : z = CacheSize(k)
    BY CacheNumbers
<1>3. PICK a \in Nat, r \in BOOLEAN : a = k.align /\ r = k.rcu
    BY CacheNumbers
<1>4. PICK c : c = Begun("new_page", "cache", z, a, r)
    OBVIOUS
<1>5. c \in Call /\ c.pc = "new_page" /\ AskedPage(c)
  <2>1. c \in Call /\ c.pc = "new_page" /\ c.kind = "cache" /\ c.size = z /\ c.rcu = r
      BY <1>4, BegunCall
  <2> QED
      BY <1>1, <1>2, <1>3, <2>1 DEF AskedPage
<1>6. CallSet(t, c) /\ call[t] = Idle
    BY <1>2, <1>3, <1>4 DEF CacheAllocPage, Enter, CallSet, Begun
<1>7. /\ UNCHANGED <<fit, page, frames, users>>
      /\ total_alloc_mem' \in 0..WORD - 1 /\ total_free_mem' \in 0..WORD - 1
    BY Counters DEF CacheAllocPage, counters
<1> QED
    BY <1>5, <1>6, <1>7, Entered

\* A call that goes on, or ends.
LEMMA SearchMissKeeps ==
    ASSUME IInv, NEW t \in Threads, SearchMiss(t)
    PROVE  IInv'
<1>1. PICK c : c = [call[t] EXCEPT !.pc = "new_page"]
    OBVIOUS
<1>2. CallSet(t, c) /\ call[t].pc = "search"
    BY <1>1 DEF CallSet, SearchMiss
<1>3. CallOk(call[t], slab)
    BY BlockServed
<1>4. c \in Call /\ c.pc = "new_page" /\ (Asked(call[t]) <=> Asked(c))
    BY <1>1, <1>3 DEF CallOk, Call, Steps, Asked
<1>5. CallOk(c, slab)
    BY <1>2, <1>3, <1>4 DEF CallOk
<1>6. SameRole(t)
    BY <1>2, <1>4, NoRole DEF Roles
<1>7. /\ UNCHANGED <<fit, page, frames, users>>
      /\ total_alloc_mem' \in 0..WORD - 1 /\ total_free_mem' \in 0..WORD - 1
    BY Counters DEF SearchMiss
<1> QED
    BY <1>2, <1>5, <1>6, <1>7, QuietStep

LEMMA NoMemoryKeeps ==
    ASSUME IInv, NEW t \in Threads, NoMemory(t)
    PROVE  IInv'
<1>1. CallSet(t, Idle) /\ call[t].pc = "new_page"
    BY DEF CallSet, NoMemory
<1>2. SameRole(t)
    BY <1>1, IdleCall, NoRole DEF Roles
<1>3. /\ UNCHANGED <<fit, page, frames, users>>
      /\ total_alloc_mem' \in 0..WORD - 1 /\ total_free_mem' \in 0..WORD - 1
    BY Counters DEF NoMemory, counters
<1> QED
    BY <1>1, <1>2, <1>3, IdleCall, QuietStep

LEMMA UncountKeeps ==
    ASSUME IInv, NEW t \in Threads, Uncount(t)
    PROVE  IInv'
<1>1. CallSet(t, Idle) /\ call[t].pc = "uncount"
    BY DEF CallSet, Uncount
<1>2. SameRole(t)
    BY <1>1, IdleCall, NoRole DEF Roles
<1>3. call[t].seen \in 0..WORD - 1
    BY BlockServed DEF CallOk, Call
<1>4. /\ UNCHANGED <<fit, page, frames, users>>
      /\ total_alloc_mem' \in 0..WORD - 1 /\ total_free_mem' \in 0..WORD - 1
    BY <1>3, Counters, CounterAssumption DEF Uncount
<1> QED
    BY <1>1, <1>2, <1>4, IdleCall, QuietStep

LEMMA CountSmallKeeps ==
    ASSUME IInv, NEW t \in Threads, Count(t), FromLists(call[t])
    PROVE  IInv'
<1>1. PICK c : c = [call[t] EXCEPT !.pc = "add"]
    OBVIOUS
<1>2. CallSet(t, c) /\ call[t].pc = "count"
    BY <1>1 DEF CallSet, Count
<1>3. CallOk(call[t], slab)
    BY BlockServed
<1>4. Asked(call[t])
  <2>1. ~AskedPage(call[t])
    <3>1. call[t].size \in Nat /\ PAGE_SIZE \in Nat
        BY <1>3, SizeAssumption DEF CallOk, Call
    <3> QED
        BY <3>1 DEF FromLists, AskedPage
  <2> QED
      BY <1>2, <1>3, <2>1 DEF CallOk
<1>5. c \in Call /\ c.pc = "add" /\ Asked(c) /\ c.page = call[t].page /\ c.at = call[t].at
          /\ c.size = call[t].size
    BY <1>1, <1>3, <1>4 DEF CallOk, Call, Steps, Asked
<1>6. CallOk(c, slab)
    BY <1>2, <1>3, <1>5 DEF CallOk
<1>7. SameRole(t)
  <2>1. call'[t] = c
      BY <1>2, CallSetFacts
  <2> QED
      BY <1>2, <1>5, <2>1 DEF SameRole, Freeing, Private, Releasing
<1>8. call[t].seen \in 0..WORD - 1
    BY <1>3 DEF CallOk, Call
<1>9. /\ UNCHANGED <<fit, page, frames, users>>
      /\ total_alloc_mem' \in 0..WORD - 1 /\ total_free_mem' \in 0..WORD - 1
    BY <1>8, Counters, CounterAssumption DEF Count, users
<1> QED
    BY <1>2, <1>6, <1>7, <1>9, QuietStep

-----------------------------------------------------------------------------
(* Blocks are given back *)

LEMMA InServiceMeans ==
    /\ \A p : p \in InService <=> p \in slab /\ \A u \in Threads : Releasing(u) => call[u].page # p
    /\ \A p : p \in InService' <=>
           p \in slab' /\ \A u \in Threads : Releasing(u)' => call'[u].page # p
<1>1. \A p : p \in InService <=> p \in slab /\ \A u \in Threads : Releasing(u) => call[u].page # p
    BY DEF InService, Releasing
<1>2. \A p : p \in InService' <=>
          p \in slab' /\ \A u \in Threads : Releasing(u)' => call'[u].page # p
    BY DEF InService, Releasing
<1> QED
    BY <1>1, <1>2

\* What follows when there are fewer blocks, and no page has changed.
LEMMA FewerBlocks ==
    ASSUME IInv, UNCHANGED page, held' \subseteq held, retired' \subseteq retired,
           InService' = InService
    PROVE  BlockInv' /\ OwnersDataIntact' /\ PagesListed'
<1>1. /\ mem' = mem /\ units' = units /\ slab' = slab /\ slobFree' = slobFree /\ lists' = lists
    BY DEF page
<1>2. BlockInv /\ PagesListed /\ OwnersDataIntact
    BY DEF IInv
<1>3. BlockInv'
    BY <1>1, <1>2 DEF BlockInv
<1>4. OwnersDataIntact'
    BY <1>1, <1>2, InvOfEach, InvOfEachNext
<1>5. PagesListed'
  <2>1. \A b \in held' \cup retired' : b \in held \cup retired
      OBVIOUS
  <2> QED
      BY <1>1, <1>2, <2>1 DEF PagesListed
<1> QED
    BY <1>3, <1>4, <1>5

LEMMA TypeKept ==
    ASSUME IInv, CallInv', UNCHANGED <<fit, page, counters>>,
           held' \subseteq held, retired' \subseteq Live, frames' \subseteq Pages \ slab
    PROVE  TypeOK'
<1>1. TypeOK
    BY DEF IInv
<1>2. \A u \in Threads : call'[u].pc \in Steps
    BY DEF CallInv, Call
<1>3. retired' \subseteq Block
    BY <1>1 DEF TypeOK, Live
<1> QED
    BY <1>1, <1>2, <1>3 DEF TypeOK, page, counters

\* What is in use, and how a page is split, when slab pages and holders are the same.
LEMMA SameSplits ==
    ASSUME IInv, UNCHANGED page, InService' = InService, \A p \in slab : SameHolders(p)
    PROVE  SplitInv' /\ ClassInv'
<1>1. mem' = mem /\ units' = units /\ freelist' = freelist /\ slab' = slab /\ lists' = lists
    BY DEF page
<1>2. SplitInv'
  <2>1. ASSUME NEW p \in InService PROVE PageSplit(p)'
    <3>1. p \in slab /\ PageSplit(p)
        BY BlockServed
    <3> QED
        BY <1>1, <3>1, SplitKept
  <2> QED
      BY <2>1 DEF SplitInv
<1>3. ClassInv'
  <2>1. \A p \in slab : SizesOn(p)' = SizesOn(p)
      BY HoldersKept
  <2> QED
      BY <1>1, <2>1 DEF ClassInv, IInv
<1> QED
    BY <1>2, <1>3

LEMMA FreeCallFacts ==
    ASSUME IInv, NEW b \in Live, b.page \in slab, NEW c, c = FreeCall(b.page, b.at, b.size)
    PROVE  /\ CallOk(c, slab) /\ c.pc = "free" /\ c.page = b.page /\ c.at = b.at
           /\ c.size = b.size /\ SLOB_UNITS(c.size) = b.units
<1>1. BlockOk(b, slab)
    BY BlockServed
<1>2. b.page \in Pages /\ b.at \in Nat /\ b.size \in Nat /\ 0 < b.size
    BY <1>1, BlockNumbers
<1>3. b.size < PAGE_SIZE /\ b.units = SLOB_UNITS(b.size) /\ b.at + b.units <= PageUnits
    BY <1>1 DEF BlockOk
<1>4. c = [pc |-> "free", kind |-> "none", size |-> b.size, align |-> 0, rcu |-> FALSE,
           page |-> b.page, at |-> b.at, seen |-> 0]
    BY DEF FreeCall, Idle
<1>5. c \in Call
    BY <1>2, <1>4, CounterAssumption DEF Call, Steps
<1> QED
    BY <1>2, <1>3, <1>4, <1>5 DEF CallOk

\* A block of a slab page goes from its owner, or from RCU, to a call of slob_free.
LEMMA GiveBackKeeps ==
    ASSUME IInv, NEW t \in Threads, NEW b \in Live, b.page \in slab, call[t] = Idle,
           NEW c, c = FreeCall(b.page, b.at, b.size), CallSet(t, c),
           held' \subseteq held, retired' \subseteq retired, Live' = Live \ {b},
           UNCHANGED <<fit, page, frames, counters>>
    PROVE  IInv'
<1>1. slab' = slab /\ slobFree' = slobFree /\ mem' = mem /\ frames' = frames
    BY DEF page
<1>2. /\ CallOk(c, slab) /\ c.pc = "free" /\ c.page = b.page /\ c.at = b.at
      /\ c.size = b.size /\ SLOB_UNITS(c.size) = b.units
    BY FreeCallFacts
<1>3. /\ call'[t] = c /\ Freeing(t)' /\ ~Private(t)' /\ ~Releasing(t)'
      /\ ~Freeing(t) /\ ~Private(t) /\ ~Releasing(t)
      /\ \A u \in Threads \ {t} : SameRole(u) /\ call'[u] = call[u]
    BY <1>2, IdleCall, CallSetFacts, OthersRoles DEF Freeing, Private, Releasing
<1>4. CallInv'
    BY <1>1, <1>2, BlockServed, CallsKept
<1>5. \A x \in Live : x.page = b.page /\ x.at = b.at => x = b
    BY DEF IInv, OwnersInv, Live
<1>6. ASSUME NEW p PROVE SameHolders(p)
  <2>1. ASSUME NEW a, NEW n, NEW z, Holds(p, a, n, z)' PROVE Holds(p, a, n, z)
    <3>1. CASE \E x \in Live' : x.page = p /\ x.at = a /\ x.units = n /\ x.size = z
        BY <3>1 DEF Holds
    <3>2. CASE \E u \in Threads : /\ Freeing(u)' /\ call'[u].page = p /\ call'[u].at = a
                                  /\ call'[u].size = z /\ n = SLOB_UNITS(z)
      <4>1. PICK u \in Threads : /\ Freeing(u)' /\ call'[u].page = p /\ call'[u].at = a
                                 /\ call'[u].size = z /\ n = SLOB_UNITS(z)
          BY <3>2
      <4>2. CASE u = t
          BY <1>2, <1>3, <4>1, <4>2 DEF Holds
      <4>3. CASE u # t
          BY <1>3, <4>1, <4>3 DEF Holds, SameRole
      <4> QED
          BY <4>2, <4>3
    <3> QED
        BY <2>1, <3>1, <3>2 DEF Holds
  <2>2. ASSUME NEW a, NEW n, NEW z, Holds(p, a, n, z) PROVE Holds(p, a, n, z)'
    <3>1. CASE \E x \in Live : x.page = p /\ x.at = a /\ x.units = n /\ x.size = z
      <4>1. PICK x \in Live : x.page = p /\ x.at = a /\ x.units = n /\ x.size = z
          BY <3>1
      <4>2. CASE x = b
          BY <1>2, <1>3, <4>1, <4>2 DEF Holds
      <4>3. CASE x # b
          BY <4>1, <4>3 DEF Holds
      <4> QED
          BY <4>2, <4>3
    <3>2. CASE \E u \in Threads : /\ Freeing(u) /\ call[u].page = p /\ call[u].at = a
                                  /\ call[u].size = z /\ n = SLOB_UNITS(z)
      <4>1. PICK u \in Threads : /\ Freeing(u) /\ call[u].page = p /\ call[u].at = a
                                 /\ call[u].size = z /\ n = SLOB_UNITS(z)
          BY <3>2
      <4> QED
          BY <1>3, <4>1 DEF Holds, SameRole
    <3> QED
        BY <2>2, <3>1, <3>2 DEF Holds
  <2> QED
      BY <2>1, <2>2 DEF SameHolders
<1>7. InService' = InService
  <2>1. SUFFICES ASSUME NEW p PROVE p \in InService' <=> p \in InService
      OBVIOUS
  <2>2. \A u \in Threads : (Releasing(u)' /\ call'[u].page = p) <=> (Releasing(u) /\ call[u].page = p)
      BY <1>3 DEF SameRole
  <2> QED
      BY <1>1, <2>2, InServiceMeans
<1>8. BlockInv' /\ OwnersDataIntact' /\ PagesListed'
    BY <1>7, FewerBlocks
<1>9. TypeOK'
    BY <1>1, <1>4, TypeKept DEF IInv, TypeOK, Live
<1>10. SplitInv' /\ ClassInv'
    BY <1>6, <1>7, SameSplits
<1>11. OwnersInv'
  <2>1. \A x \in Live' : x \in Live /\ x # b
      OBVIOUS
  <2>2. held' \cap retired' = {} /\ \A x, y \in Live' : x.page = y.page /\ x.at = y.at => x = y
      BY <2>1 DEF IInv, OwnersInv, Live
  <2>3. ASSUME NEW u \in Threads, Freeing(u)', NEW x \in Live'
        PROVE  ~(x.page = call'[u].page /\ x.at = call'[u].at)
    <3>1. CASE u = t
        BY <1>2, <1>3, <1>5, <2>1, <3>1
    <3>2. CASE u # t
        BY <1>3, <2>1, <2>3, <3>2 DEF IInv, OwnersInv, SameRole, Live
    <3> QED
        BY <3>1, <3>2
  <2>4. ASSUME NEW u \in Threads, Freeing(u)', NEW v \in Threads \ {u}, Freeing(v)'
        PROVE  ~(call'[v].page = call'[u].page /\ call'[v].at = call'[u].at)
    <3>1. \A w \in Threads \ {t} : Freeing(w)' =>
              ~(call'[w].page = b.page /\ call'[w].at = b.at)
        BY <1>3 DEF IInv, OwnersInv, SameRole, Live
    <3>2. CASE u = t
        BY <1>2, <1>3, <2>4, <3>1, <3>2
    <3>3. CASE v = t
        BY <1>2, <1>3, <2>4, <3>1, <3>3
    <3>4. CASE u # t /\ v # t
        BY <1>3, <2>4, <3>4 DEF IInv, OwnersInv, SameRole
    <3> QED
        BY <3>2, <3>3, <3>4
  <2> QED
      BY <2>2, <2>3, <2>4 DEF OwnersInv, Live
<1>12. PlacesInv'
  <2>1. \A x \in Live' : x.page \notin frames'
      BY <1>1 DEF IInv, PlacesInv, Live
  <2>2. ASSUME NEW u \in Threads, Private(u)' \/ Releasing(u)'
        PROVE  /\ call'[u].page \notin frames'
               /\ \A x \in Live' : x.page # call'[u].page
               /\ \A v \in Threads \ {u} :
                     (Private(v)' \/ Releasing(v)' \/ Freeing(v)') => call'[v].page # call'[u].page
               /\ Private(u)' => call'[u].page \notin slab'
               /\ Releasing(u)' => call'[u].page \notin slobFree'
    <3>1. u # t /\ (Private(u) \/ Releasing(u)) /\ call'[u] = call[u]
        BY <1>3, <2>2 DEF SameRole
    <3>2. /\ call[u].page \notin frames
          /\ \A x \in Live : x.page # call[u].page
          /\ \A v \in Threads \ {u} :
                (Private(v) \/ Releasing(v) \/ Freeing(v)) => call[v].page # call[u].page
          /\ Private(u) => call[u].page \notin slab
          /\ Releasing(u) => call[u].page \notin slobFree
        BY <3>1 DEF IInv, PlacesInv, Live
    <3>3. ASSUME NEW v \in Threads \ {u}, Private(v)' \/ Releasing(v)' \/ Freeing(v)'
          PROVE  call'[v].page # call'[u].page
      <4>1. CASE v = t
          BY <1>2, <1>3, <3>1, <3>2, <4>1
      <4>2. CASE v # t
          BY <1>3, <3>1, <3>2, <3>3, <4>2 DEF SameRole
      <4> QED
          BY <4>1, <4>2
    <3> QED
        BY <1>1, <1>3, <3>1, <3>2, <3>3 DEF SameRole
  <2>3. ASSUME NEW p \in Pages \ slab'
        PROVE  \/ mem'[p] = Blank
               \/ \E x \in retired' : x.page = p
               \/ \E u \in Threads : Releasing(u)' /\ call'[u].page = p
    <3>1. \/ mem[p] = Blank
          \/ \E x \in retired : x.page = p
          \/ \E u \in Threads : Releasing(u) /\ call[u].page = p
        BY <1>1 DEF IInv, PlacesInv
    <3>2. CASE mem[p] = Blank
        BY <1>1, <3>2
    <3>3. CASE \E x \in retired : x.page = p
      <4>1. PICK x \in retired : x.page = p
          BY <3>3
      <4>2. x \in Live' /\ x \notin held
          BY <1>1, <4>1 DEF IInv, OwnersInv, Live
      <4>3. x \in retired'
          BY <4>2 DEF Live
      <4> QED
          BY <4>1, <4>3
    <3>4. CASE \E u \in Threads : Releasing(u) /\ call[u].page = p
        BY <1>3, <3>4 DEF SameRole
    <3> QED
        BY <3>1, <3>2, <3>3, <3>4
  <2> QED
      BY <2>1, <2>2, <2>3 DEF PlacesInv, Live
<1> QED
    BY <1>4, <1>8, <1>9, <1>10, <1>11, <1>12 DEF IInv

\* What PlacesInv says of one call and of one page.
PlaceOk(u) ==
    Private(u) \/ Releasing(u) =>
        /\ call[u].page \notin frames
        /\ \A b \in Live : b.page # call[u].page
        /\ \A v \in Threads \ {u} :
              (Private(v) \/ Releasing(v) \/ Freeing(v)) => call[v].page # call[u].page
        /\ Private(u) => call[u].page \notin slab
        /\ Releasing(u) => call[u].page \notin slobFree

UnusedOk(p) ==
    p \in slab \/ mem[p] = Blank \/ (\E b \in retired : b.page = p)
        \/ \E u \in Threads : Releasing(u) /\ call[u].page = p

LEMMA PlacesOfEach ==
    /\ PlacesInv <=> /\ \A b \in Live : b.page \notin frames
                     /\ \A u \in Threads : PlaceOk(u)
                     /\ \A p \in Pages : UnusedOk(p)
    /\ PlacesInv' <=> /\ \A b \in Live' : b.page \notin frames'
                      /\ \A u \in Threads : PlaceOk(u)'
                      /\ \A p \in Pages : UnusedOk(p)'
<1>1. PlacesInv <=> /\ \A b \in Live : b.page \notin frames
                    /\ \A u \in Threads : PlaceOk(u)
                    /\ \A p \in Pages : UnusedOk(p)
    BY DEF PlacesInv, PlaceOk, UnusedOk, Live
<1>2. PlacesInv' <=> /\ \A b \in Live' : b.page \notin frames'
                     /\ \A u \in Threads : PlaceOk(u)'
                     /\ \A p \in Pages : UnusedOk(p)'
    BY DEF PlacesInv, PlaceOk, UnusedOk, Live
<1> QED
    BY <1>1, <1>2

LEMMA ReleaseCallFacts ==
    ASSUME NEW p \in Pages, NEW c, c = [Idle EXCEPT !.pc = "release", !.page = p]
    PROVE  c.pc = "release" /\ c.page = p /\ \A S : CallOk(c, S)
<1>1. Idle \in Call
    BY IdleCall DEF CallOk
<1>2. PICK d : d = [Idle EXCEPT !.pc = "release"]
    OBVIOUS
<1>3. d \in Call /\ d.pc = "release"
    BY <1>1, <1>2 DEF Call, Steps
<1>4. c = [d EXCEPT !.page = p]
    BY <1>2
<1>5. c \in Call /\ c.pc = "release" /\ c.page = p
    BY <1>3, <1>4 DEF Call
<1> QED
    BY <1>5 DEF CallOk

\* A block that is a page of its own goes back to the page allocator, by way of a call.
LEMMA GiveBackPageKeeps ==
    ASSUME IInv, NEW t \in Threads, NEW b \in Live, b.page \notin slab, call[t] = Idle,
           NEW c, c = [Idle EXCEPT !.pc = "release", !.page = b.page], CallSet(t, c),
           held' \subseteq held, retired' \subseteq retired, Live' = Live \ {b},
           UNCHANGED <<fit, page, frames, counters>>
    PROVE  IInv'
<1>1. slab' = slab /\ slobFree' = slobFree /\ mem' = mem /\ frames' = frames
    BY DEF page
<1>2. CallOk(c, slab) /\ c.pc = "release" /\ c.page = b.page
  <2>1. b.page \in Pages
      BY BlockServed, BlockNumbers
  <2> QED
      BY <2>1, ReleaseCallFacts
<1>3. /\ call'[t] = c /\ ~Freeing(t)' /\ ~Private(t)' /\ Releasing(t)'
      /\ ~Freeing(t) /\ ~Private(t) /\ ~Releasing(t)
      /\ \A u \in Threads \ {t} : SameRole(u) /\ call'[u] = call[u]
    BY <1>2, IdleCall, CallSetFacts, OthersRoles DEF Freeing, Private, Releasing
<1>4. CallInv'
    BY <1>1, <1>2, BlockServed, CallsKept
<1>5. \A x \in Live' : x \in Live /\ x.page # b.page
    BY BlockAlone
<1>6. ASSUME NEW p \in slab PROVE SameHolders(p)
  <2>1. p # b.page
      BY <1>6
  <2>2. ASSUME NEW a, NEW n, NEW z PROVE Holds(p, a, n, z)' <=> Holds(p, a, n, z)
    <3>1. \A x : (x \in Live' /\ x.page = p) <=> (x \in Live /\ x.page = p)
        BY <2>1
    <3>2. \A u \in Threads :
              (Freeing(u)' /\ call'[u].page = p /\ call'[u].at = a /\ call'[u].size = z)
                 <=> (Freeing(u) /\ call[u].page = p /\ call[u].at = a /\ call[u].size = z)
        BY <1>3 DEF SameRole
    <3> QED
        BY <3>1, <3>2 DEF Holds
  <2> QED
      BY <2>2 DEF SameHolders
<1>7. InService' = InService
  <2>1. SUFFICES ASSUME NEW p \in slab PROVE p \in InService' <=> p \in InService
      BY <1>1 DEF InService
  <2>2. p # b.page
      BY <2>1
  <2>3. \A u \in Threads : (Releasing(u)' /\ call'[u].page = p) <=> (Releasing(u) /\ call[u].page = p)
      BY <1>2, <1>3, <2>2 DEF SameRole
  <2> QED
      BY <1>1, <2>3, InServiceMeans
<1>8. BlockInv' /\ OwnersDataIntact' /\ PagesListed'
    BY <1>7, FewerBlocks
<1>9. TypeOK'
    BY <1>1, <1>4, TypeKept DEF IInv, TypeOK, Live
<1>10. SplitInv' /\ ClassInv'
    BY <1>6, <1>7, SameSplits
<1>11. OwnersInv'
  <2>1. \A u \in Threads : Freeing(u)' => Freeing(u) /\ call'[u] = call[u]
      BY <1>3 DEF SameRole
  <2> QED
      BY <1>5, <2>1 DEF IInv, OwnersInv, Live
<1>12. PlacesInv'
  <2>1. /\ \A x \in Live : x.page \notin frames
        /\ \A u \in Threads : PlaceOk(u)
        /\ \A p \in Pages : UnusedOk(p)
      BY PlacesOfEach DEF IInv
  <2>2. ASSUME NEW u \in Threads PROVE PlaceOk(u)'
    <3>1. CASE u = t
      <4>1. b.page \notin slobFree
          BY DEF IInv, TypeOK
      <4>2. ASSUME NEW v \in Threads \ {t}, Private(v)' \/ Releasing(v)' \/ Freeing(v)'
            PROVE  call'[v].page # b.page
        <5>1. call'[v] = call[v] /\ (Private(v) \/ Releasing(v) \/ Freeing(v))
            BY <1>3, <4>2 DEF SameRole
        <5>2. CASE Private(v) \/ Releasing(v)
            BY <2>1, <5>1, <5>2 DEF PlaceOk
        <5>3. CASE Freeing(v)
            BY <5>1, <5>3, BlockServed
        <5> QED
            BY <5>1, <5>2, <5>3
      <4>3. call'[t].page = b.page
          BY <1>2, <1>3
      <4> QED
          BY <1>1, <1>3, <1>5, <2>1, <3>1, <4>1, <4>2, <4>3 DEF PlaceOk
    <3>2. CASE u # t
      <4>1. SUFFICES ASSUME Private(u)' \/ Releasing(u)' PROVE PlaceOk(u)'
          BY DEF PlaceOk
      <4>2. call'[u] = call[u] /\ SameRole(u) /\ (Private(u) \/ Releasing(u))
          BY <1>3, <3>2, <4>1 DEF SameRole
      <4>3. \A v \in Threads \ {u} :
                (Private(v)' \/ Releasing(v)' \/ Freeing(v)') => call'[v].page # call[u].page
        <5>1. ASSUME NEW v \in Threads \ {u}, Private(v)' \/ Releasing(v)' \/ Freeing(v)'
              PROVE  call'[v].page # call[u].page
          <6>1. CASE v = t
            <7>1. call'[v].page = b.page
                BY <1>2, <1>3, <6>1
            <7>2. b.page # call[u].page
                BY <2>1, <4>2 DEF PlaceOk
            <7> QED
                BY <7>1, <7>2
          <6>2. CASE v # t
              BY <1>3, <2>1, <4>2, <5>1, <6>2 DEF PlaceOk, SameRole
          <6> QED
              BY <6>1, <6>2
        <5> QED
            BY <5>1
      <4> QED
          BY <1>1, <1>5, <2>1, <4>2, <4>3 DEF PlaceOk, SameRole
    <3> QED
        BY <3>1, <3>2
  <2>3. ASSUME NEW p \in Pages PROVE UnusedOk(p)'
    <3>1. UnusedOk(p)
        BY <2>1
    <3>2. CASE p \in slab \/ mem[p] = Blank
        BY <1>1, <3>2 DEF UnusedOk
    <3>3. CASE \E x \in retired : x.page = p
      <4>1. PICK x \in retired : x.page = p
          BY <3>3
      <4>2. CASE x = b
          BY <1>2, <1>3, <4>1, <4>2 DEF UnusedOk
      <4>3. CASE x # b
        <5>1. x \in Live' /\ x \notin held
            BY <4>1, <4>3 DEF IInv, OwnersInv, Live
        <5>2. x \in retired'
            BY <5>1 DEF Live
        <5> QED
            BY <4>1, <5>2 DEF UnusedOk
      <4> QED
          BY <4>2, <4>3
    <3>4. CASE \E u \in Threads : Releasing(u) /\ call[u].page = p
        BY <1>3, <3>4 DEF SameRole, UnusedOk
    <3> QED
        BY <3>1, <3>2, <3>3, <3>4 DEF UnusedOk
  <2> QED
      BY <1>1, <1>5, <2>1, <2>2, <2>3, PlacesOfEach
<1> QED
    BY <1>4, <1>8, <1>9, <1>10, <1>11, <1>12 DEF IInv

LEMMA KfreeKeeps ==
    ASSUME IInv, NEW t \in Threads, NEW b \in held, Kfree(t, b)
    PROVE  IInv'
<1>1. b \in Live /\ b.kind = "kmalloc" /\ call[t] = Idle /\ b \notin retired
    BY DEF Kfree, Live, IInv, OwnersInv
<1>2. BlockOk(b, slab)
    BY <1>1, BlockServed
<1>3. b.page \in slab
    BY <1>1, <1>2 DEF BlockOk
<1>4. FreedSize(b) = b.size
  <2>1. HeldOk(b, mem[b.page], slab)
      BY InvOfEach DEF IInv
  <2>2. b.at \in Covers(b.at, b.units) /\ b.size \in Nat /\ MINALIGN \in Nat
      BY <1>2, BlockNumbers, SizeAssumption DEF Covers
  <2>3. mem[b.page][b.at] = b.size - MINALIGN
      BY <1>1, <1>3, <2>1, <2>2 DEF HeldOk
  <2> QED
      BY <2>2, <2>3 DEF FreedSize
<1>5. PICK c : c = FreeCall(b.page, b.at, b.size)
    OBVIOUS
<1>6. CallSet(t, c)
    BY <1>4, <1>5 DEF Kfree, CallSet
<1>7. /\ held' \subseteq held /\ retired' \subseteq retired /\ Live' = Live \ {b}
      /\ UNCHANGED <<fit, page, frames, counters>>
    BY <1>1 DEF Kfree, Live
<1> QED
    BY <1>1, <1>3, <1>5, <1>6, <1>7, GiveBackKeeps

LEMMA CacheFreeKeeps ==
    ASSUME IInv, NEW t \in Threads, NEW b \in held, CacheFree(t, b)
    PROVE  IInv'
<1>1. b \in Live /\ b.kind = "cache" /\ call[t] = Idle /\ b \notin retired
    BY DEF CacheFree, Live, IInv, OwnersInv
<1>2. BlockOk(b, slab) /\ b.size \in Nat /\ PAGE_SIZE \in Nat
    BY <1>1, BlockServed, BlockNumbers, SizeAssumption
<1>3. /\ held' \subseteq held /\ retired' \subseteq retired /\ Live' = Live \ {b}
      /\ UNCHANGED <<fit, page, frames, counters>>
    BY <1>1 DEF CacheFree, Live
<1>4. CASE b.page \in slab
  <2>1. b.size < PAGE_SIZE
      BY <1>2, <1>4 DEF BlockOk
  <2>2. PICK c : c = FreeCall(b.page, b.at, b.size)
      OBVIOUS
  <2>3. CallSet(t, c)
      BY <2>1, <2>2 DEF CacheFree, FreeObject, CallSet
  <2> QED
      BY <1>1, <1>3, <1>4, <2>2, <2>3, GiveBackKeeps
<1>5. CASE b.page \notin slab
  <2>1. ~(b.size < PAGE_SIZE)
      BY <1>1, <1>2, <1>5 DEF BlockOk
  <2>2. PICK c : c = [Idle EXCEPT !.pc = "release", !.page = b.page]
      OBVIOUS
  <2>3. CallSet(t, c)
      BY <2>1, <2>2 DEF CacheFree, FreeObject, CallSet
  <2> QED
      BY <1>1, <1>3, <1>5, <2>2, <2>3, GiveBackPageKeeps
<1> QED
    BY <1>4, <1>5

LEMMA RcuFreeKeeps ==
    ASSUME IInv, NEW t \in Threads, NEW b \in retired, RcuFree(t, b)
    PROVE  IInv'
<1>1. b \in Live /\ call[t] = Idle /\ b \notin held
    BY DEF RcuFree, Live, IInv, OwnersInv
<1>2. BlockOk(b, slab) /\ b.size \in Nat /\ PAGE_SIZE \in Nat
    BY <1>1, BlockServed, BlockNumbers, SizeAssumption
<1>3. /\ held' \subseteq held /\ retired' \subseteq retired /\ Live' = Live \ {b}
      /\ UNCHANGED <<fit, page, frames, counters>>
    BY <1>1 DEF RcuFree, Live
<1>4. mem[b.page][Footer(b)] = b.size
    BY InvOfEach DEF IInv, RetiredOk
<1>5. b.rcu
    BY InvOfEach DEF IInv
<1>6. b.kind = "cache" /\ Footer(b) - (b.size - RCU_SIZE) \div SLOB_UNIT = b.at
  <2>1. PICK k \in Caches : k.rcu /\ b.size = CacheSize(k) /\ b.kind = "cache"
      BY <1>2, <1>5 DEF BlockOk
  <2> QED
      BY <1>2, <2>1, FooterFacts
<1>7. FreeObject(t, [b EXCEPT !.at = b.at], b.size)
    BY <1>4, <1>6 DEF RcuFree
<1>8. [b EXCEPT !.at = b.at] = b
    BY <1>2 DEF BlockOk, Block
<1>9. FreeObject(t, b, b.size)
    BY <1>7, <1>8
<1>10. CASE b.page \in slab
  <2>1. b.size < PAGE_SIZE
      BY <1>2, <1>10 DEF BlockOk
  <2>2. PICK c : c = FreeCall(b.page, b.at, b.size)
      OBVIOUS
  <2>3. CallSet(t, c)
      BY <1>9, <2>1, <2>2 DEF FreeObject, CallSet
  <2> QED
      BY <1>1, <1>3, <1>10, <2>2, <2>3, GiveBackKeeps
<1>11. CASE b.page \notin slab
  <2>1. ~(b.size < PAGE_SIZE)
      BY <1>2, <1>6, <1>11 DEF BlockOk
  <2>2. PICK c : c = [Idle EXCEPT !.pc = "release", !.page = b.page]
      OBVIOUS
  <2>3. CallSet(t, c)
      BY <1>9, <2>1, <2>2 DEF FreeObject, CallSet
  <2> QED
      BY <1>1, <1>3, <1>11, <2>2, <2>3, GiveBackPageKeeps
<1> QED
    BY <1>10, <1>11

\* kfree of a page that is not a slab page.
LEMMA KfreeLargeKeeps ==
    ASSUME IInv, NEW t \in Threads, NEW b \in held, KfreeLarge(t, b)
    PROVE  IInv'
<1>1. b \in Live /\ b.kind = "large" /\ b \notin retired
    BY DEF KfreeLarge, Live, IInv, OwnersInv
<1>2. BlockOk(b, slab) /\ b.page \in Pages
    BY <1>1, BlockServed, BlockNumbers
<1>3. b.page \notin slab
    BY <1>1, <1>2 DEF BlockOk
<1>4. /\ call' = call /\ slab' = slab /\ slobFree' = slobFree /\ mem' = mem
      /\ held' = held \ {b} /\ retired' = retired /\ frames' = frames \cup {b.page}
      /\ fit' = fit /\ UNCHANGED page /\ UNCHANGED counters
    BY DEF KfreeLarge, page
<1>5. \A x \in Live' : x \in Live /\ x.page # b.page
  <2>1. \A x \in Live' : x \in Live /\ x # b
      BY <1>1, <1>4 DEF Live
  <2> QED
      BY <1>1, <1>3, <2>1, BlockAlone
<1>6. SameRoles
    BY <1>4 DEF SameRoles, SameRole, Freeing, Private, Releasing
<1>7. InService' = InService
    BY <1>4, <1>6, SameInService
<1>8. CallInv'
    BY <1>4 DEF IInv, CallInv
<1>9. BlockInv' /\ OwnersDataIntact' /\ PagesListed'
    BY <1>4, <1>7, FewerBlocks
<1>10. TypeOK'
  <2>1. frames' \subseteq Pages \ slab
      BY <1>2, <1>3, <1>4 DEF IInv, TypeOK
  <2> QED
      BY <1>4, <1>8, <2>1, TypeKept DEF Live
<1>11. SplitInv' /\ ClassInv'
  <2>1. ASSUME NEW p \in slab PROVE SameHolders(p)
    <3>1. \A x : (x \in Live' /\ x.page = p) <=> (x \in Live /\ x.page = p)
      <4>1. \A x \in Live : x.page = p => x \in Live'
          BY <1>3, <1>4, <2>1 DEF Live
      <4> QED
          BY <1>5, <4>1
    <3>2. ASSUME NEW a, NEW n, NEW z PROVE Holds(p, a, n, z)' <=> Holds(p, a, n, z)
        BY <1>4, <3>1 DEF Holds, Freeing
    <3> QED
        BY <3>2 DEF SameHolders
  <2> QED
      BY <1>4, <1>7, <2>1, SameSplits
<1>12. OwnersInv'
    BY <1>4, <1>5 DEF IInv, OwnersInv, Live, Freeing
<1>13. PlacesInv'
  <2>1. /\ \A x \in Live : x.page \notin frames
        /\ \A u \in Threads : PlaceOk(u)
        /\ \A p \in Pages : UnusedOk(p)
      BY PlacesOfEach DEF IInv
  <2>2. \A u \in Threads : PlaceOk(u)'
      BY <1>1, <1>4, <1>5, <2>1 DEF PlaceOk, Private, Releasing, Freeing
  <2>3. \A p \in Pages : UnusedOk(p)'
      BY <1>4, <2>1 DEF UnusedOk, Releasing
  <2> QED
      BY <1>4, <1>5, <2>1, <2>2, <2>3, PlacesOfEach
<1> QED
    BY <1>8, <1>9, <1>10, <1>11, <1>12, <1>13 DEF IInv

\* A page stays split when memory outside its free blocks is written.
LEMMA SplitFrame ==
    ASSUME NEW m, NEW first, NEW u \in Nat, NEW W, Split(m, first, u, W),
           NEW m4, \A x \in Free(m, first, u) : m4[x] = m[x]
    PROVE  Split(m4, first, u, W)
<1>1. PICK G : G = FreeIn(m, first, u)
    OBVIOUS
<1>2. PICK y : y = SizesOf(m)
    OBVIOUS
<1>3. Free(m, first, u) = UnitsOf(G, y)
    BY <1>1, <1>2 DEF Free
<1>4. Cardinality(UnitsOf(G, y)) = u
    BY <1>3 DEF Split
<1>5. G # {} => ListHeld(m4, first, G, y)
  <2>1. ASSUME G # {} PROVE ListHeld(m4, first, G, y)
    <3>1. u # 0
        BY <1>1, <2>1 DEF FreeIn
    <3>2. ListHeld(m, first, G, y)
        BY <1>1, <1>2, <3>1 DEF Split
    <3> QED
        BY <1>3, <3>2, ListFrame
  <2> QED
      BY <2>1
<1>6. /\ Free(m4, first, u) = UnitsOf(G, y)
      /\ u # 0 => ListHeld(m4, first, FreeIn(m4, first, u), SizesOf(m4))
    BY <1>4, <1>5, SplitFrom
<1>7. Free(m4, first, u) = Free(m, first, u)
    BY <1>3, <1>6
<1> QED
    BY <1>6, <1>7 DEF Split

\* The data of a block is as it was when its units are.
LEMMA HeldKept ==
    ASSUME NEW b, NEW S, BlockOk(b, S), NEW m, HeldOk(b, m, S), NEW T, b.page \in T => b.page \in S,
           NEW m4, \A x \in Covers(b.at, b.units) : m4[x] = m[x]
    PROVE  HeldOk(b, m4, T)
<1>1. b.at \in Covers(b.at, b.units)
    BY BlockNumbers DEF Covers
<1>2. m4[b.at] = m[b.at]
    BY <1>1
<1> QED
    BY <1>2 DEF HeldOk

LEMMA RetiredKept ==
    ASSUME NEW b, NEW S, BlockOk(b, S), NEW m, RetiredOk(b, m),
           NEW m4, \A x \in Covers(b.at, b.units) : m4[x] = m[x]
    PROVE  RetiredOk(b, m4)
<1>1. PICK c \in Caches : /\ c.rcu /\ b.size = CacheSize(c)
                          /\ \A x \in Covers(b.at, SLOB_UNITS(c.object_size)) : m[x] = 0
    BY DEF RetiredOk
<1>2. /\ Footer(b) \in Covers(b.at, b.units)
      /\ \A x \in Covers(b.at, SLOB_UNITS(c.object_size)) : x \in Covers(b.at, b.units)
    BY <1>1, FooterFacts
<1>3. m4[Footer(b)] = b.size
    BY <1>2 DEF RetiredOk
<1>4. \A x \in Covers(b.at, SLOB_UNITS(c.object_size)) : m4[x] = 0
    BY <1>1, <1>2
<1> QED
    BY <1>1, <1>3, <1>4 DEF RetiredOk

\* What one page's blocks need of a step to keep their data: it writes to none of their units.
Untouched(b) == \A x \in Covers(b.at, b.units) : mem'[b.page][x] = mem[b.page][x]

LEMMA DataKept ==
    ASSUME IInv, NEW b \in Live, Untouched(b), b.page \in slab' => b.page \in slab
    PROVE  /\ b \in held => HeldOk(b, mem'[b.page], slab')
           /\ b \in retired => RetiredOk(b, mem'[b.page])
<1>1. PICK m, m4 : m = mem[b.page] /\ m4 = mem'[b.page]
    OBVIOUS
<1>2. \A x \in Covers(b.at, b.units) : m4[x] = m[x]
    BY <1>1 DEF Untouched
<1>3. BlockOk(b, slab)
    BY BlockServed
<1>4. ASSUME b \in held PROVE HeldOk(b, m4, slab')
  <2>1. HeldOk(b, m, slab)
      BY <1>1, <1>4, InvOfEach DEF IInv
  <2>2. PICK S, T : S = slab /\ T = slab'
      OBVIOUS
  <2>3. HeldOk(b, m4, T)
      BY <1>2, <1>3, <2>1, <2>2, HeldKept
  <2> QED
      BY <2>2, <2>3
<1>5. ASSUME b \in retired PROVE RetiredOk(b, m4)
  <2>1. RetiredOk(b, m)
      BY <1>1, <1>5, InvOfEach DEF IInv
  <2> QED
      BY <1>2, <1>3, <2>1, RetiredKept
<1> QED
    BY <1>1, <1>4, <1>5

\* An RCU object: the footer is written, and the block waits for its readers.
LEMMA CacheFreeRcuKeeps ==
    ASSUME IInv, NEW t \in Threads, NEW b \in held, CacheFreeRcu(t, b)
    PROVE  IInv'
<1>1. b \in Live /\ b.kind = "cache" /\ b.rcu /\ b \notin retired
    BY DEF CacheFreeRcu, Live, IInv, OwnersInv
<1>2. BlockOk(b, slab) /\ b.page \in Pages /\ b.size \in Nat
    BY <1>1, BlockServed, BlockNumbers
<1>3. PICK k \in Caches : k.rcu /\ b.size = CacheSize(k)
    BY <1>1, <1>2 DEF BlockOk
<1>4. PICK f : f = Footer(b)
    OBVIOUS
<1>5. f \in AllUnits /\ f \in Covers(b.at, b.units)
      /\ \A x \in Covers(b.at, SLOB_UNITS(k.object_size)) : x \in Covers(b.at, b.units) /\ x # f
    BY <1>2, <1>3, <1>4, FooterFacts
<1>6. /\ call' = call /\ slab' = slab /\ slobFree' = slobFree /\ units' = units
      /\ freelist' = freelist /\ lists' = lists /\ frames' = frames /\ fit' = fit
      /\ UNCHANGED counters
      /\ held' = held \ {b} /\ retired' = retired \cup {b}
      /\ mem' = [mem EXCEPT ![b.page][f] = b.size]
    BY <1>4 DEF CacheFreeRcu
<1>7. mem \in [Pages -> Memory]
    BY DEF IInv, TypeOK, Memory
<1>8. /\ mem' \in [Pages -> Memory]
      /\ mem'[b.page] = [mem[b.page] EXCEPT ![f] = b.size]
      /\ \A p \in Pages : p # b.page => mem'[p] = mem[p]
  <2>1. [mem[b.page] EXCEPT ![f] = b.size] \in Memory
      BY <1>2, <1>5, <1>7 DEF Memory, AllUnits
  <2>2. PICK m4 : m4 = [mem[b.page] EXCEPT ![f] = b.size]
      OBVIOUS
  <2>3. mem' = [mem EXCEPT ![b.page] = m4]
      BY <1>6, <2>2
  <2> QED
      BY <1>2, <1>7, <2>1, <2>2, <2>3
<1>9. \A x \in AllUnits : x # f => mem'[b.page][x] = mem[b.page][x]
    BY <1>2, <1>7, <1>8 DEF Memory, AllUnits
<1>10. mem'[b.page][f] = b.size
    BY <1>2, <1>5, <1>7, <1>8 DEF Memory, AllUnits
<1>11. Live' = Live
    BY <1>1, <1>6 DEF Live
<1>12. \A p : SameHolders(p)
    BY <1>6, <1>11 DEF SameHolders, Holds, Freeing
<1>13. SameRoles
    BY <1>6 DEF SameRoles, SameRole, Freeing, Private, Releasing
<1>14. InService' = InService
    BY <1>6, <1>13, SameInService
<1>15. ASSUME NEW x \in Live, x # b PROVE Untouched(x)
  <2>1. BlockOk(x, slab) /\ x.page \in Pages
      BY BlockServed, BlockNumbers
  <2>2. CASE x.page # b.page
      BY <1>8, <2>1, <2>2 DEF Untouched
  <2>3. CASE x.page = b.page
    <3>1. b.page \in slab
        BY <1>1, <1>15, <2>3, BlockAlone
    <3>2. x.at # b.at
        BY <1>1, <1>15, <2>3 DEF IInv, OwnersInv, Live
    <3>3. /\ Holds(b.page, b.at, b.units, b.size) /\ Holds(b.page, x.at, x.units, x.size)
          /\ b.page \in InService
        BY <1>1, <2>3, <3>1, BlockServed
    <3>4. f \notin Covers(x.at, x.units)
        BY <1>5, <3>2, <3>3, HoldersApart
    <3>5. \A z \in Covers(x.at, x.units) : z \in AllUnits
      <4>1. x.at \in Nat /\ x.units \in Nat /\ x.at + x.units <= PageUnits
          BY <2>1, BlockNumbers
      <4> QED
          BY <4>1, PageFacts DEF Covers, AllUnits
    <3> QED
        BY <1>9, <2>3, <3>4, <3>5 DEF Untouched
  <2> QED
      BY <2>2, <2>3
<1>16. BlockInv'
    BY <1>1, <1>6, <1>11, InvOfEach, InvOfEachNext DEF IInv
<1>17. OwnersDataIntact'
  <2>1. ASSUME NEW x \in held' PROVE HeldOk(x, mem'[x.page], slab')
    <3>1. x \in Live /\ x # b /\ x \in held
        BY <1>6 DEF Live
    <3> QED
        BY <1>6, <1>15, <3>1, DataKept
  <2>2. ASSUME NEW x \in retired' PROVE RetiredOk(x, mem'[x.page])
    <3>1. CASE x # b
      <4>1. x \in Live /\ x \in retired
          BY <1>6, <3>1 DEF Live
      <4> QED
          BY <1>6, <1>15, <3>1, <4>1, DataKept
    <3>2. CASE x = b
      <4>1. \A z \in Covers(b.at, SLOB_UNITS(k.object_size)) : z \in AllUnits /\ mem[b.page][z] = 0
        <5>1. \A z \in Covers(b.at, b.units) : z \in AllUnits
          <6>1. b.at \in Nat /\ b.units \in Nat /\ b.at + b.units <= PageUnits
              BY <1>2, BlockNumbers
          <6> QED
              BY <6>1, PageFacts DEF Covers, AllUnits
        <5>2. CASE b.page \in slab
          <6>1. HeldOk(b, mem[b.page], slab)
              BY InvOfEach DEF IInv
          <6>2. \A z \in Covers(b.at, b.units) : mem[b.page][z] = 0
              BY <1>1, <5>2, <6>1 DEF HeldOk
          <6> QED
              BY <1>5, <5>1, <6>2
        <5>3. CASE b.page \notin slab
          <6>1. PlaceOk(t) /\ UnusedOk(b.page) /\ \A u \in Threads : PlaceOk(u)
              BY <1>2, PlacesOfEach DEF IInv
          <6>2. \A y \in retired : y.page # b.page
              BY <1>1, <5>3, BlockAlone DEF Live
          <6>3. \A u \in Threads : ~(Releasing(u) /\ call[u].page = b.page)
              BY <1>1, <6>1 DEF PlaceOk
          <6>4. mem[b.page] = Blank
              BY <5>3, <6>1, <6>2, <6>3 DEF UnusedOk
          <6>5. \A z \in AllUnits : mem[b.page][z] = 0
              BY <6>4 DEF Blank, AllUnits
          <6> QED
              BY <1>5, <5>1, <6>5
        <5> QED
            BY <5>2, <5>3
      <4>2. \A z \in Covers(b.at, SLOB_UNITS(k.object_size)) : mem'[b.page][z] = 0
          BY <1>5, <1>9, <4>1
      <4> QED
          BY <1>3, <1>4, <1>10, <3>2, <4>2 DEF RetiredOk
    <3> QED
        BY <3>1, <3>2
  <2> QED
      BY <2>1, <2>2, InvOfEachNext
<1>18. CallInv'
    BY <1>6 DEF IInv, CallInv
<1>19. TypeOK'
  <2>1. b \in Block
      BY <1>2 DEF BlockOk
  <2>2. mem' \in [Pages -> [0..PageUnits - 1 -> Int]]
      BY <1>8 DEF Memory
  <2> QED
      BY <1>6, <2>1, <2>2 DEF IInv, TypeOK, counters
<1>20. PagesListed'
  <2>1. \A x : x \in held' \cup retired' <=> x \in held \cup retired
      BY <1>11 DEF Live
  <2> QED
      BY <1>6, <1>14, <2>1 DEF IInv, PagesListed
<1>21. SplitInv'
  <2>1. ASSUME NEW p \in InService PROVE PageSplit(p)'
    <3>1. PageSplit(p) /\ p \in slab /\ p \in Pages
        BY BlockServed DEF IInv, TypeOK
    <3>2. CASE p # b.page
        BY <1>6, <1>8, <1>12, <3>1, <3>2, SplitKept
    <3>3. CASE p = b.page
      <4>1. PICK m, m4, u, W : /\ m = mem[p] /\ m4 = mem'[p] /\ u = units[p]
                               /\ W = UsedSpans(p)
          OBVIOUS
      <4>2. Split(m, freelist[p], u, W)
          BY <3>1, <4>1, SplitIsPageSplit
      <4>3. u \in Nat
          BY <3>1, <4>1, PageFacts DEF IInv, TypeOK
      <4>4. <<b.at, b.units>> \in W
          BY <1>1, <3>3, <4>1, BlockServed, HoldersOf
      <4>5. f \notin Free(m, freelist[p], u)
        <5>1. PICK s \in W : s = <<b.at, b.units>>
            BY <4>4
        <5>2. Covers(s[1], s[2]) \cap Free(m, freelist[p], u) = {}
            BY <4>2 DEF Split
        <5>3. f \in Covers(s[1], s[2])
            BY <1>5, <5>1
        <5> QED
            BY <5>2, <5>3
      <4>6. \A x \in Free(m, freelist[p], u) : m4[x] = m[x]
        <5>1. Free(m, freelist[p], u) \in SUBSET AllUnits
            BY <4>2, <4>3, SplitFree
        <5> QED
            BY <1>9, <3>3, <4>1, <4>5, <5>1
      <4>7. PICK g : g = freelist[p]
          OBVIOUS
      <4>8. Split(m4, g, u, W)
          BY <4>2, <4>3, <4>6, <4>7, SplitFrame
      <4>9. UsedSpans(p)' = W
          BY <1>12, <4>1, HoldersKept
      <4> QED
          BY <1>6, <4>1, <4>7, <4>8, <4>9, SplitIsPageSplitNext
    <3> QED
        BY <3>2, <3>3
  <2> QED
      BY <1>14, <2>1 DEF SplitInv
<1>22. ClassInv'
  <2>1. \A p : SizesOn(p)' = SizesOn(p)
      BY <1>12, HoldersKept
  <2> QED
      BY <1>6, <2>1 DEF ClassInv, IInv
<1>23. OwnersInv'
  <2>1. held' \cap retired' = {}
      BY <1>6 DEF IInv, OwnersInv
  <2> QED
      BY <1>6, <1>11, <2>1 DEF IInv, OwnersInv, Live, Freeing
<1>24. PlacesInv'
  <2>1. /\ \A x \in Live : x.page \notin frames
        /\ \A u \in Threads : PlaceOk(u)
        /\ \A p \in Pages : UnusedOk(p)
      BY PlacesOfEach DEF IInv
  <2>2. \A u \in Threads : PlaceOk(u)'
      BY <1>6, <1>11, <2>1 DEF PlaceOk, Private, Releasing, Freeing
  <2>3. ASSUME NEW p \in Pages PROVE UnusedOk(p)'
    <3>1. CASE p = b.page
        BY <1>6, <3>1 DEF UnusedOk
    <3>2. CASE p # b.page
        BY <1>6, <1>8, <2>1, <3>2 DEF UnusedOk, Releasing
    <3> QED
        BY <3>1, <3>2
  <2> QED
      BY <1>6, <1>11, <2>1, <2>2, <2>3, PlacesOfEach
<1> QED
    BY <1>16, <1>17, <1>18, <1>19, <1>20, <1>21, <1>22, <1>23, <1>24 DEF IInv

-----------------------------------------------------------------------------
(* Pages come from the page allocator and go back to it *)

LEMMA SameFreeing ==
    ASSUME \A u \in Threads : /\ Freeing(u)' <=> Freeing(u)
                              /\ Freeing(u) => call'[u] = call[u],
           NEW p, \A x : (x \in Live' /\ x.page = p) <=> (x \in Live /\ x.page = p)
    PROVE  SameHolders(p)
<1>1. ASSUME NEW a, NEW n, NEW z PROVE Holds(p, a, n, z)' <=> Holds(p, a, n, z)
  <2>1. \A u \in Threads :
            (Freeing(u)' /\ call'[u].page = p /\ call'[u].at = a /\ call'[u].size = z)
               <=> (Freeing(u) /\ call[u].page = p /\ call[u].at = a /\ call[u].size = z)
      OBVIOUS
  <2> QED
      BY <2>1 DEF Holds
<1> QED
    BY <1>1 DEF SameHolders

LEMMA NewPageKeeps ==
    ASSUME IInv, NEW t \in Threads, NewPage(t)
    PROVE  IInv'
<1>1. call[t].pc = "new_page"
    BY DEF NewPage
<1>2. PICK p \in frames :
          /\ frames' = frames \ {p}
          /\ call' = [call EXCEPT ![t].pc = "count", ![t].page = p, ![t].seen = total_alloc_mem]
    BY DEF NewPage
<1>3. /\ slab' = slab /\ slobFree' = slobFree /\ mem' = mem /\ units' = units
      /\ freelist' = freelist /\ lists' = lists
      /\ held' = held /\ retired' = retired /\ fit' = fit
      /\ UNCHANGED page /\ UNCHANGED counters
    BY DEF NewPage, page, users
<1>4. p \in Pages /\ p \notin slab /\ \A b \in Live : b.page # p
    BY DEF IInv, TypeOK, PlacesInv, Live
<1>5. PICK c : c = [call[t] EXCEPT !.pc = "count", !.page = p, !.seen = total_alloc_mem]
    OBVIOUS
<1>6. CallSet(t, c)
    BY <1>2, <1>5 DEF CallSet
<1>7. CallOk(call[t], slab)
    BY BlockServed
<1>8. /\ c \in Call /\ c.pc = "count" /\ c.page = p
      /\ Asked(call[t]) <=> Asked(c)
      /\ AskedPage(call[t]) <=> AskedPage(c)
    BY <1>4, <1>5, <1>7, Counters DEF CallOk, Call, Steps, Asked, AskedPage
<1>9. CallOk(c, slab)
    BY <1>1, <1>4, <1>7, <1>8 DEF CallOk
<1>10. /\ call'[t] = c /\ ~Freeing(t)' /\ Private(t)' /\ ~Releasing(t)'
       /\ ~Freeing(t) /\ ~Private(t) /\ ~Releasing(t)
       /\ \A u \in Threads \ {t} : SameRole(u) /\ call'[u] = call[u]
    BY <1>1, <1>6, <1>8, CallSetFacts, OthersRoles DEF Freeing, Private, Releasing
<1>11. CallInv'
    BY <1>3, <1>6, <1>9, BlockServed, CallsKept
<1>12. Live' = Live
    BY <1>3 DEF Live
<1>13. \A u \in Threads : /\ Freeing(u)' <=> Freeing(u)
                          /\ Freeing(u) => call'[u] = call[u]
    BY <1>10 DEF SameRole
<1>14. \A q : SameHolders(q)
    BY <1>12, <1>13, SameFreeing
<1>15. InService' = InService
  <2>1. \A q, u : u \in Threads => ((Releasing(u)' /\ call'[u].page = q) <=> (Releasing(u) /\ call[u].page = q))
      BY <1>10 DEF SameRole
  <2>2. \A q : q \in InService' <=> q \in InService
      BY <1>3, <2>1, InServiceMeans
  <2> QED
      BY <2>2
<1>16. BlockInv' /\ OwnersDataIntact' /\ PagesListed'
    BY <1>3, <1>15, FewerBlocks
<1>17. TypeOK'
    BY <1>2, <1>3, <1>11, TypeKept DEF IInv, TypeOK, Live
<1>18. SplitInv' /\ ClassInv'
    BY <1>3, <1>14, <1>15, SameSplits
<1>19. OwnersInv'
    BY <1>3, <1>13 DEF IInv, OwnersInv
<1>20. PlacesInv'
  <2>1. /\ \A x \in Live : x.page \notin frames
        /\ \A u \in Threads : PlaceOk(u)
        /\ \A q \in Pages : UnusedOk(q)
      BY PlacesOfEach DEF IInv
  <2>2. ASSUME NEW u \in Threads PROVE PlaceOk(u)'
    <3>1. CASE u = t
      <4>1. ASSUME NEW v \in Threads \ {t}, Private(v)' \/ Releasing(v)' \/ Freeing(v)'
            PROVE  call'[v].page # p
        <5>1. call'[v] = call[v] /\ (Private(v) \/ Releasing(v) \/ Freeing(v))
            BY <1>10, <4>1 DEF SameRole
        <5>2. CASE Private(v) \/ Releasing(v)
            BY <2>1, <5>1, <5>2 DEF PlaceOk
        <5>3. CASE Freeing(v)
            BY <1>4, <5>1, <5>3, BlockServed
        <5> QED
            BY <5>1, <5>2, <5>3
      <4>2. call'[t].page = p
          BY <1>8, <1>10
      <4>3. p \notin frames' /\ p \notin slab' /\ \A x \in Live' : x.page # p
          BY <1>2, <1>3, <1>4, <1>12
      <4> QED
          BY <1>10, <3>1, <4>1, <4>2, <4>3 DEF PlaceOk
    <3>2. CASE u # t
      <4>1. SUFFICES ASSUME Private(u)' \/ Releasing(u)' PROVE PlaceOk(u)'
          BY DEF PlaceOk
      <4>2. call'[u] = call[u] /\ SameRole(u) /\ (Private(u) \/ Releasing(u))
          BY <1>10, <3>2, <4>1 DEF SameRole
      <4>3. call[u].page \notin frames
          BY <2>1, <4>2 DEF PlaceOk
      <4>4. \A v \in Threads \ {u} :
                (Private(v)' \/ Releasing(v)' \/ Freeing(v)') => call'[v].page # call[u].page
        <5>1. ASSUME NEW v \in Threads \ {u}, Private(v)' \/ Releasing(v)' \/ Freeing(v)'
              PROVE  call'[v].page # call[u].page
          <6>1. CASE v = t
              BY <1>8, <1>10, <4>3, <6>1
          <6>2. CASE v # t
              BY <1>10, <2>1, <4>2, <5>1, <6>2 DEF PlaceOk, SameRole
          <6> QED
              BY <6>1, <6>2
        <5> QED
            BY <5>1
      <4>5. /\ call[u].page \notin frames'
            /\ \A x \in Live' : x.page # call[u].page
            /\ Private(u) => call[u].page \notin slab'
            /\ Releasing(u) => call[u].page \notin slobFree'
          BY <1>2, <1>3, <1>12, <2>1, <4>2 DEF PlaceOk
      <4> QED
          BY <4>2, <4>4, <4>5 DEF PlaceOk, SameRole
    <3> QED
        BY <3>1, <3>2
  <2>3. ASSUME NEW q \in Pages PROVE UnusedOk(q)'
    <3>1. \A u \in Threads : Releasing(u) => Releasing(u)' /\ call'[u] = call[u]
        BY <1>10 DEF SameRole
    <3> QED
        BY <1>3, <2>1, <3>1 DEF UnusedOk
  <2> QED
      BY <1>2, <1>12, <2>1, <2>2, <2>3, PlacesOfEach
<1> QED
    BY <1>11, <1>16, <1>17, <1>18, <1>19, <1>20 DEF IInv

\* A caller that wanted a whole page gets it.
LEMMA CountLargeKeeps ==
    ASSUME IInv, NEW t \in Threads, Count(t), ~FromLists(call[t])
    PROVE  IInv'
<1>1. PICK p : p = call[t].page
    OBVIOUS
<1>2. PICK b : b = NewBlock(call[t], p, 0, PageUnits)
    OBVIOUS
<1>3. /\ call[t].pc = "count" /\ CallSet(t, Idle) /\ held' = held \cup {b}
      /\ total_alloc_mem' = (call[t].seen + 1) % WORD
    BY <1>1, <1>2 DEF Count, CallSet
<1>4. /\ slab' = slab /\ slobFree' = slobFree /\ mem' = mem /\ units' = units
      /\ freelist' = freelist /\ lists' = lists /\ frames' = frames
      /\ retired' = retired /\ fit' = fit /\ total_free_mem' = total_free_mem
      /\ UNCHANGED page
    BY DEF Count, page
<1>5. CallOk(call[t], slab)
    BY BlockServed
<1>6. p \in Pages /\ AskedPage(call[t])
    BY <1>1, <1>3, <1>5 DEF CallOk, Asked, FromLists
<1>7. Private(t)
    BY <1>3 DEF Private
<1>8. /\ \A x \in Live : x.page \notin frames
      /\ \A u \in Threads : PlaceOk(u)
      /\ \A q \in Pages : UnusedOk(q)
    BY PlacesOfEach DEF IInv
<1>9. /\ p \notin slab /\ p \notin frames /\ \A x \in Live : x.page # p
      /\ \A v \in Threads \ {t} :
            (Private(v) \/ Releasing(v) \/ Freeing(v)) => call[v].page # p
    BY <1>1, <1>7, <1>8 DEF PlaceOk
<1>10. /\ b.page = p /\ b.at = 0 /\ b.units = PageUnits /\ b.kind = call[t].kind
       /\ b.size = call[t].size /\ b.rcu = call[t].rcu
    BY <1>2 DEF NewBlock
<1>11. BlockOk(b, slab) /\ b.kind # "kmalloc"
  <2>1. call[t].size \in Nat /\ call[t].rcu \in BOOLEAN
      BY <1>5 DEF CallOk, Call
  <2>2. /\ call[t].kind \in {"large", "cache"} /\ 0 < call[t].size
        /\ call[t].kind = "cache" => call[t].size >= PAGE_SIZE
        /\ call[t].rcu => call[t].kind = "cache" /\ \E k \in Caches : k.rcu /\ call[t].size = CacheSize(k)
      BY <1>6, <2>1, SizeAssumption DEF AskedPage
  <2>3. b \in Block
    <3>1. b = [page |-> p, at |-> 0, units |-> PageUnits, kind |-> call[t].kind,
               size |-> call[t].size, rcu |-> call[t].rcu]
        BY <1>2 DEF NewBlock
    <3>2. 0 \in 0..PageUnits - 1 /\ PageUnits \in 1..PageUnits
        BY PageFacts
    <3>3. call[t].kind \in {"kmalloc", "large", "cache"}
        BY <2>2
    <3> QED
        BY <1>6, <2>1, <3>1, <3>2, <3>3 DEF Block
  <2>4. b.kind \in {"large", "cache"} /\ b.kind # "kmalloc"
      BY <1>10, <2>2
  <2>5. b.at + b.units <= PageUnits
      BY <1>10, PageFacts
  <2> QED
      BY <1>9, <1>10, <2>2, <2>3, <2>4, <2>5 DEF BlockOk
<1>12. /\ call'[t] = Idle /\ ~Freeing(t)' /\ ~Private(t)' /\ ~Releasing(t)'
       /\ ~Freeing(t) /\ ~Releasing(t)
       /\ \A u \in Threads \ {t} : SameRole(u) /\ call'[u] = call[u]
    BY <1>3, IdleCall, CallSetFacts, OthersRoles DEF Freeing, Private, Releasing
<1>13. CallInv'
    BY <1>3, <1>4, IdleCall, BlockServed, CallsKept
<1>14. Live' = Live \cup {b} /\ b \notin Live
    BY <1>3, <1>4, <1>9, <1>10 DEF Live
<1>15. \A u \in Threads : /\ Freeing(u)' <=> Freeing(u)
                          /\ Freeing(u) => call'[u] = call[u]
    BY <1>12 DEF SameRole
<1>16. ASSUME NEW q \in slab PROVE SameHolders(q)
  <2>1. \A x : (x \in Live' /\ x.page = q) <=> (x \in Live /\ x.page = q)
      BY <1>9, <1>10, <1>14
  <2> QED
      BY <1>15, <2>1, SameFreeing
<1>17. InService' = InService
  <2>1. \A q, u : u \in Threads => ((Releasing(u)' /\ call'[u].page = q) <=> (Releasing(u) /\ call[u].page = q))
      BY <1>12 DEF SameRole
  <2>2. \A q : q \in InService' <=> q \in InService
      BY <1>4, <2>1, InServiceMeans
  <2> QED
      BY <2>2
<1>18. BlockInv'
    BY <1>4, <1>11, <1>14, InvOfEach, InvOfEachNext DEF IInv
<1>19. OwnersDataIntact'
  <2>1. HeldOk(b, mem'[b.page], slab')
      BY <1>4, <1>9, <1>10, <1>11 DEF HeldOk
  <2> QED
      BY <1>3, <1>4, <2>1, InvOfEach, InvOfEachNext DEF IInv
<1>20. PagesListed'
  <2>1. \A x \in held' \cup retired' : x \in held \cup retired \/ x.page \notin slab
      BY <1>3, <1>4, <1>9, <1>10
  <2> QED
      BY <1>4, <1>17, <2>1 DEF IInv, PagesListed
<1>21. TypeOK'
  <2>1. \A u \in Threads : call'[u].pc \in Steps
      BY <1>13 DEF CallInv, Call
  <2>2. b \in Block
      BY <1>11 DEF BlockOk
  <2>3. total_alloc_mem' \in 0..WORD - 1
    <3>1. call[t].seen \in 0..WORD - 1
        BY <1>5 DEF CallOk, Call
    <3> QED
        BY <1>3, <3>1, CounterAssumption
  <2> QED
      BY <1>3, <1>4, <2>1, <2>2, <2>3 DEF IInv, TypeOK
<1>22. SplitInv' /\ ClassInv'
    BY <1>4, <1>16, <1>17, SameSplits
<1>23. OwnersInv'
  <2>1. held' \cap retired' = {}
      BY <1>3, <1>4, <1>14 DEF IInv, OwnersInv, Live
  <2>2. ASSUME NEW x \in Live', NEW y \in Live', x.page = y.page, x.at = y.at PROVE x = y
    <3>1. CASE x = b \/ y = b
        BY <1>9, <1>10, <1>14, <2>2, <3>1
    <3>2. CASE x # b /\ y # b
        BY <1>14, <2>2, <3>2 DEF IInv, OwnersInv, Live
    <3> QED
        BY <3>1, <3>2
  <2>3. ASSUME NEW u \in Threads, Freeing(u)', NEW x \in Live'
        PROVE  ~(x.page = call'[u].page /\ x.at = call'[u].at)
    <3>1. Freeing(u) /\ call'[u] = call[u] /\ u # t
        BY <1>12, <1>15, <2>3
    <3>2. CASE x = b
        BY <1>9, <1>10, <3>1, <3>2
    <3>3. CASE x # b
        BY <1>14, <3>1, <3>3 DEF IInv, OwnersInv, Live
    <3> QED
        BY <3>2, <3>3
  <2>4. ASSUME NEW u \in Threads, Freeing(u)', NEW v \in Threads \ {u}, Freeing(v)'
        PROVE  ~(call'[v].page = call'[u].page /\ call'[v].at = call'[u].at)
      BY <1>15, <2>4 DEF IInv, OwnersInv
  <2> QED
      BY <2>1, <2>2, <2>3, <2>4 DEF OwnersInv, Live
<1>24. PlacesInv'
  <2>1. ASSUME NEW u \in Threads PROVE PlaceOk(u)'
    <3>1. SUFFICES ASSUME Private(u)' \/ Releasing(u)' PROVE PlaceOk(u)'
        BY DEF PlaceOk
    <3>2. u # t /\ call'[u] = call[u] /\ SameRole(u) /\ (Private(u) \/ Releasing(u))
        BY <1>12, <3>1 DEF SameRole
    <3>3. \A v \in Threads : Private(v)' \/ Releasing(v)' \/ Freeing(v)' =>
              call'[v] = call[v] /\ (Private(v) \/ Releasing(v) \/ Freeing(v))
        BY <1>12 DEF SameRole
    <3>4. \A x \in Live' : x.page # call[u].page
        BY <1>8, <1>9, <1>10, <1>14, <3>2 DEF PlaceOk
    <3> QED
        BY <1>4, <1>8, <3>2, <3>3, <3>4 DEF PlaceOk, SameRole
  <2>2. ASSUME NEW q \in Pages PROVE UnusedOk(q)'
    <3>1. \A u \in Threads : Releasing(u) => Releasing(u)' /\ call'[u] = call[u]
        BY <1>12 DEF SameRole
    <3> QED
        BY <1>4, <1>8, <3>1 DEF UnusedOk
  <2>3. \A x \in Live' : x.page \notin frames'
      BY <1>4, <1>8, <1>9, <1>10, <1>14
  <2> QED
      BY <2>1, <2>2, <2>3, PlacesOfEach
<1> QED
    BY <1>13, <1>18, <1>19, <1>20, <1>21, <1>22, <1>23, <1>24 DEF IInv

-----------------------------------------------------------------------------
(* slob_free *)

\* The page and the units a call gives back.
LEMMA FreeingFacts ==
    ASSUME IInv, NEW t \in Threads, Freeing(t),
           NEW p, p = call[t].page, NEW a, a = call[t].at, NEW n, n = SLOB_UNITS(call[t].size),
           NEW W, W = UsedSpans(p)
    PROVE  /\ p \in Pages /\ p \in slab /\ p \in InService /\ PageSplit(p)
           /\ a \in Nat /\ n \in Nat /\ 0 < n /\ a + n <= PageUnits
           /\ units[p] \in Nat /\ mem[p] \in Memory
           /\ Split(mem[p], freelist[p], units[p], W)
           /\ W \in SUBSET Spans /\ <<a, n>> \in W
           /\ units[p] + n <= PageUnits
           /\ units[p] + n = PageUnits => W = {<<a, n>>}
           /\ call[t].size \in SizesOn(p)
<1>1. p \in slab /\ p \in InService /\ Holds(p, a, n, call[t].size) /\ PageSplit(p)
    BY BlockServed
<1>2. TypeOK
    BY DEF IInv
<1>3. p \in Pages /\ units[p] \in Nat /\ mem[p] \in Memory
    BY <1>1, <1>2, PageFacts DEF TypeOK, Memory
<1>4. a \in Nat /\ n \in Nat /\ 0 < n /\ a + n <= PageUnits
    BY <1>1, HoldsNumbers
<1>5. Split(mem[p], freelist[p], units[p], W)
    BY <1>1, SplitIsPageSplit
<1>6. W \in SUBSET Spans /\ <<a, n>> \in W
    BY <1>1, SpansInUse, HoldersOf
<1>7. /\ units[p] + n <= PageUnits
      /\ units[p] + n = PageUnits => W = {<<a, n>>}
  <2>1. PICK m, g, u : m = mem[p] /\ g = freelist[p] /\ u = units[p]
      OBVIOUS
  <2>2. Split(m, g, u, W) /\ u \in Nat
      BY <1>3, <1>5, <2>1
  <2>3. u + n <= PageUnits /\ (u + n = PageUnits => W = {<<a, n>>})
      BY <1>4, <1>6, <2>2, SplitBound
  <2> QED
      BY <2>1, <2>3
<1>8. call[t].size \in SizesOn(p)
    BY <1>1, HoldersOf
<1> QED
    BY <1>1, <1>3, <1>4, <1>5, <1>6, <1>7, <1>8

\* The step after which nobody holds those units.
LEMMA HoldersDone ==
    ASSUME IInv, NEW t \in Threads, Freeing(t),
           NEW p, p = call[t].page, NEW a, a = call[t].at, NEW n, n = SLOB_UNITS(call[t].size),
           NEW c, CallSet(t, c), c.pc # "free", Live' = Live
    PROVE  /\ \A q, b, k, z : Holds(q, b, k, z)' <=> Holds(q, b, k, z) /\ ~(q = p /\ b = a)
           /\ \A q : q # p => SameHolders(q)
           /\ UsedSpans(p)' = UsedSpans(p) \ {<<a, n>>}
           /\ SizesOn(p)' \subseteq SizesOn(p)
<1>1. /\ call'[t] = c /\ ~Freeing(t)'
      /\ \A u \in Threads \ {t} : SameRole(u) /\ call'[u] = call[u]
    BY CallSetFacts, OthersRoles
<1>2. /\ \A x \in Live : ~(x.page = p /\ x.at = a)
      /\ \A u \in Threads \ {t} : ~(Freeing(u) /\ call[u].page = p /\ call[u].at = a)
    BY DEF IInv, OwnersInv, Live
<1>3. ASSUME NEW q, NEW b, NEW k, NEW z
      PROVE  Holds(q, b, k, z)' <=> Holds(q, b, k, z) /\ ~(q = p /\ b = a)
  <2>1. ASSUME Holds(q, b, k, z)' PROVE Holds(q, b, k, z) /\ ~(q = p /\ b = a)
    <3>1. CASE \E x \in Live' : x.page = q /\ x.at = b /\ x.units = k /\ x.size = z
        BY <1>2, <3>1 DEF Holds
    <3>2. CASE \E u \in Threads : /\ Freeing(u)' /\ call'[u].page = q /\ call'[u].at = b
                                  /\ call'[u].size = z /\ k = SLOB_UNITS(z)
      <4>1. PICK u \in Threads : /\ Freeing(u)' /\ call'[u].page = q /\ call'[u].at = b
                                 /\ call'[u].size = z /\ k = SLOB_UNITS(z)
          BY <3>2
      <4>2. u \in Threads \ {t} /\ call'[u] = call[u] /\ Freeing(u)
          BY <1>1, <4>1 DEF SameRole
      <4> QED
          BY <1>2, <4>1, <4>2 DEF Holds
    <3> QED
        BY <2>1, <3>1, <3>2 DEF Holds
  <2>2. ASSUME Holds(q, b, k, z), ~(q = p /\ b = a) PROVE Holds(q, b, k, z)'
    <3>1. CASE \E x \in Live : x.page = q /\ x.at = b /\ x.units = k /\ x.size = z
        BY <3>1 DEF Holds
    <3>2. CASE \E u \in Threads : /\ Freeing(u) /\ call[u].page = q /\ call[u].at = b
                                  /\ call[u].size = z /\ k = SLOB_UNITS(z)
      <4>1. PICK u \in Threads : /\ Freeing(u) /\ call[u].page = q /\ call[u].at = b
                                 /\ call[u].size = z /\ k = SLOB_UNITS(z)
          BY <3>2
      <4>2. u \in Threads \ {t}
          BY <2>2, <4>1
      <4>3. call'[u] = call[u] /\ Freeing(u)'
          BY <1>1, <4>1, <4>2 DEF SameRole
      <4> QED
          BY <4>1, <4>3 DEF Holds
    <3> QED
        BY <2>2, <3>1, <3>2 DEF Holds
  <2> QED
      BY <2>1, <2>2
<1>4. \A q : q # p => SameHolders(q)
    BY <1>3 DEF SameHolders
<1>5. UsedSpans(p)' = UsedSpans(p) \ {<<a, n>>}
  <2>1. p \in slab
      BY BlockServed
  <2>2. Holds(p, a, n, call[t].size)
      BY BlockServed
  <2>3. ASSUME NEW s PROVE s \in UsedSpans(p)' <=> s \in UsedSpans(p) /\ s # <<a, n>>
    <3>1. ASSUME s \in UsedSpans(p)' PROVE s \in UsedSpans(p) /\ s # <<a, n>>
      <4>1. PICK b, k, z : Holds(p, b, k, z)' /\ s = <<b, k>>
          BY <3>1, HoldersOfNext
      <4>2. Holds(p, b, k, z) /\ b # a
          BY <1>3, <4>1
      <4> QED
          BY <4>1, <4>2, HoldersOf
    <3>2. ASSUME s \in UsedSpans(p), s # <<a, n>> PROVE s \in UsedSpans(p)'
      <4>1. PICK b, k, z : Holds(p, b, k, z) /\ s = <<b, k>>
          BY <3>2, HoldersOf
      <4>2. b # a
        <5>1. SUFFICES ASSUME b = a PROVE FALSE
            OBVIOUS
        <5>2. k # n
            BY <3>2, <4>1, <5>1
        <5>3. \A x \in Live : ~(x.page = p /\ x.at = b)
            BY <1>2, <5>1
        <5>4. PICK u \in Threads : /\ Freeing(u) /\ call[u].page = p /\ call[u].at = b
                                   /\ call[u].size = z /\ k = SLOB_UNITS(z)
            BY <4>1, <5>3 DEF Holds
        <5>5. u = t
            BY <1>2, <5>1, <5>4
        <5> QED
            BY <5>2, <5>4, <5>5
      <4>3. Holds(p, b, k, z)'
          BY <1>3, <4>1, <4>2
      <4> QED
          BY <4>1, <4>3, HoldersOfNext
    <3> QED
        BY <3>1, <3>2
  <2> QED
      BY <2>3
<1>6. SizesOn(p)' \subseteq SizesOn(p)
    BY <1>3, HoldersOf, HoldersOfNext
<1> QED
    BY <1>3, <1>4, <1>5, <1>6

\* What slob_free does when the page stays: W4 is what is still in use on it, L the list
\* it is on afterwards.
Returned(t, p, n, m4, first4, W4, L) ==
    /\ SplitWith(m4, first4, units[p] + n, W4, mem[p], W4)
    /\ mem' = [mem EXCEPT ![p] = m4]
    /\ freelist' = [freelist EXCEPT ![p] = first4]
    /\ units' = [units EXCEPT ![p] = units[p] + n]
    /\ slobFree' = slobFree \cup {p}
    /\ DOMAIN lists' = ListNames /\ lists' = [l \in ListNames |-> lists'[l]]
    /\ \A l \in ListNames : /\ lists'[l] \in Seq(slab) /\ IsInjective(lists'[l])
                            /\ ToSet(lists'[l]) = IF l = L THEN ToSet(lists[l]) \cup {p}
                                                  ELSE ToSet(lists[l])
    /\ \A l \in ListNames : l # L => p \notin ToSet(lists[l])
    /\ CallSet(t, Idle)
    /\ UNCHANGED <<fit, slab, frames, users, counters>>

LEMMA ReturnedKeeps ==
    ASSUME IInv, NEW t \in Threads, Freeing(t),
           NEW p, p = call[t].page, NEW a, a = call[t].at, NEW n, n = SLOB_UNITS(call[t].size),
           NEW W, W = UsedSpans(p), NEW L, L = ListFor(call[t].size), ~WholePage(p, n),
           NEW m4, NEW first4, Returned(t, p, n, m4, first4, W \ {<<a, n>>}, L)
    PROVE  IInv'
<1>1. /\ p \in Pages /\ p \in slab /\ p \in InService /\ PageSplit(p)
      /\ a \in Nat /\ n \in Nat /\ 0 < n /\ a + n <= PageUnits
      /\ units[p] \in Nat /\ mem[p] \in Memory
      /\ Split(mem[p], freelist[p], units[p], W)
      /\ W \in SUBSET Spans /\ <<a, n>> \in W
      /\ units[p] + n <= PageUnits
      /\ call[t].size \in SizesOn(p)
    BY FreeingFacts
<1>2. /\ fit' = fit /\ slab' = slab /\ frames' = frames /\ held' = held /\ retired' = retired
      /\ Live' = Live /\ total_alloc_mem' = total_alloc_mem /\ total_free_mem' = total_free_mem
    BY DEF Returned, users, counters, Live
<1>3. TypeOK
    BY DEF IInv
<1>4. /\ m4 \in Memory /\ first4 \in 0..PageUnits
      /\ Split(m4, first4, units[p] + n, W \ {<<a, n>>})
      /\ \A s \in W \ {<<a, n>>} : \A x \in Covers(s[1], s[2]) : m4[x] = mem[p][x]
    BY DEF Returned, SplitWith
<1>5. /\ mem' \in [Pages -> Memory] /\ mem'[p] = m4 /\ \A q \in Pages : q # p => mem'[q] = mem[q]
  <2>1. mem \in [Pages -> Memory]
      BY <1>3 DEF TypeOK, Memory
  <2> QED
      BY <1>1, <1>4, <2>1 DEF Returned
<1>6. /\ freelist' \in [Pages -> 0..PageUnits] /\ freelist'[p] = first4
      /\ \A q \in Pages : q # p => freelist'[q] = freelist[q]
    BY <1>1, <1>3, <1>4 DEF Returned, TypeOK
<1>7. /\ units' \in [Pages -> 0..PageUnits - 1] /\ units'[p] = units[p] + n /\ units'[p] > 0
      /\ \A q \in Pages : q # p => units'[q] = units[q]
  <2>1. units[p] + n \in 0..PageUnits - 1 /\ units[p] + n > 0
      BY <1>1, PageFacts DEF WholePage
  <2> QED
      BY <1>1, <1>3, <2>1 DEF Returned, TypeOK
<1>8. /\ \A q : q # p => SameHolders(q)
      /\ UsedSpans(p)' = W \ {<<a, n>>}
      /\ SizesOn(p)' \subseteq SizesOn(p)
  <2>1. PICK c : c = Idle /\ c.pc # "free"
      BY IdleCall
  <2>2. CallSet(t, c)
      BY <2>1 DEF Returned
  <2> QED
      BY <1>2, <2>1, <2>2, HoldersDone
<1>9. /\ call'[t] = Idle /\ ~Freeing(t)' /\ ~Private(t)' /\ ~Releasing(t)'
      /\ ~Private(t) /\ ~Releasing(t)
      /\ \A u \in Threads \ {t} : SameRole(u) /\ call'[u] = call[u]
    BY IdleCall, CallSetFacts, OthersRoles DEF Returned, Freeing, Private, Releasing
<1>10. InService' = InService
  <2>1. \A q, u : u \in Threads => ((Releasing(u)' /\ call'[u].page = q) <=> (Releasing(u) /\ call[u].page = q))
      BY <1>9 DEF SameRole
  <2>2. \A q : q \in InService' <=> q \in InService
      BY <1>2, <2>1, InServiceMeans
  <2> QED
      BY <2>2
<1>11. CallInv'
    BY <1>2, IdleCall, BlockServed, CallsKept DEF Returned
<1>12. \A b \in Live : Untouched(b)
  <2>1. ASSUME NEW b \in Live PROVE Untouched(b)
    <3>1. BlockOk(b, slab) /\ b.page \in Pages
        BY BlockServed, BlockNumbers
    <3>2. CASE b.page # p
        BY <1>5, <3>1, <3>2 DEF Untouched
    <3>3. CASE b.page = p
      <4>1. b.at # a
          BY <3>3 DEF IInv, OwnersInv, Live
      <4>2. Holds(p, b.at, b.units, b.size)
          BY <3>3, BlockServed
      <4>3. PICK s : s = <<b.at, b.units>>
          OBVIOUS
      <4>4. s \in W /\ s # <<a, n>> /\ s[1] = b.at /\ s[2] = b.units
          BY <4>1, <4>2, <4>3, HoldersOf
      <4> QED
          BY <1>4, <1>5, <3>3, <4>4 DEF Untouched
    <3> QED
        BY <3>2, <3>3
  <2> QED
      BY <2>1
<1>13. OwnersDataIntact'
  <2>1. \A b \in held' : HeldOk(b, mem'[b.page], slab')
      BY <1>2, <1>12, DataKept DEF Live
  <2>2. \A b \in retired' : RetiredOk(b, mem'[b.page])
      BY <1>2, <1>12, DataKept DEF Live
  <2> QED
      BY <2>1, <2>2, InvOfEachNext
<1>14. BlockInv'
    BY <1>2 DEF IInv, BlockInv
<1>15. TypeOK'
  <2>1. \A u \in Threads : call'[u].pc \in Steps
      BY <1>11 DEF CallInv, Call
  <2>2. slobFree' \subseteq slab'
      BY <1>1, <1>2, <1>3 DEF Returned, TypeOK
  <2>3. lists' \in [ListNames -> Seq(slab')]
      BY <1>2 DEF Returned
  <2>4. mem' \in [Pages -> [0..PageUnits - 1 -> Int]]
      BY <1>5 DEF Memory
  <2> QED
      BY <1>2, <1>3, <1>6, <1>7, <2>1, <2>2, <2>3, <2>4 DEF TypeOK
<1>16. L \in ListNames
    BY DEF ListFor, ListNames
<1>17. \A l \in ListNames : /\ \A q : q # p => (q \in ToSet(lists'[l]) <=> q \in ToSet(lists[l]))
                            /\ p \in ToSet(lists'[l]) <=> l = L
                            /\ p \in ToSet(lists[l]) => l = L
    BY DEF Returned
<1>18. ClassInv'
  <2>1. ASSUME NEW q \in slab
        PROVE  /\ \A x, y \in SizesOn(q)' : ListFor(x) = ListFor(y)
               /\ \A l \in ListNames : q \in ToSet(lists'[l]) => \A x \in SizesOn(q)' : ListFor(x) = l
    <3>1. /\ \A x, y \in SizesOn(q) : ListFor(x) = ListFor(y)
          /\ \A l \in ListNames : q \in ToSet(lists[l]) => \A x \in SizesOn(q) : ListFor(x) = l
        BY DEF IInv, ClassInv
    <3>2. CASE q # p
      <4>1. SizesOn(q)' = SizesOn(q)
          BY <1>8, <3>2, HoldersKept
      <4> QED
          BY <1>17, <3>1, <3>2, <4>1
    <3>3. CASE q = p
      <4>1. \A x \in SizesOn(q)' : ListFor(x) = L
          BY <1>1, <1>8, <3>1, <3>3
      <4> QED
          BY <1>17, <3>3, <4>1
    <3> QED
        BY <3>2, <3>3
  <2> QED
      BY <1>2, <2>1 DEF ClassInv
<1>19. PagesListed'
  <2>1. /\ \A q \in Pages :
              LET on == {l \in ListNames : q \in ToSet(lists[l])} IN
              /\ q \in slobFree <=> on # {}
              /\ q \in InService => (on # {} <=> units[q] > 0)
              /\ \A b \in held \cup retired :
                    b.page = q /\ q \in slab => on \subseteq {ListFor(b.size)}
        /\ \A l, k \in ListNames : l # k => ToSet(lists[l]) \cap ToSet(lists[k]) = {}
      BY DEF IInv, PagesListed
  <2>2. ASSUME NEW q \in Pages
        PROVE  LET on == {l \in ListNames : q \in ToSet(lists'[l])} IN
               /\ q \in slobFree' <=> on # {}
               /\ q \in InService' => (on # {} <=> units'[q] > 0)
               /\ \A b \in held' \cup retired' :
                     b.page = q /\ q \in slab' => on \subseteq {ListFor(b.size)}
    <3> DEFINE on == {l \in ListNames : q \in ToSet(lists'[l])}
               was == {l \in ListNames : q \in ToSet(lists[l])}
    <3>1. CASE q # p
      <4>1. on = was
          BY <1>17, <3>1
      <4>2. /\ q \in slobFree <=> was # {}
            /\ q \in InService => (was # {} <=> units[q] > 0)
            /\ \A b \in held \cup retired : b.page = q /\ q \in slab => was \subseteq {ListFor(b.size)}
          BY <2>1
      <4>3. q \in slobFree' <=> q \in slobFree
          BY <3>1 DEF Returned
      <4> HIDE DEF on, was
      <4>4. /\ q \in slobFree' <=> on # {}
            /\ q \in InService' => (on # {} <=> units'[q] > 0)
            /\ \A b \in held' \cup retired' : b.page = q /\ q \in slab' => on \subseteq {ListFor(b.size)}
          BY <1>2, <1>7, <1>10, <3>1, <4>1, <4>2, <4>3
      <4> QED
          BY <4>4 DEF on
    <3>2. CASE q = p
      <4>1. on = {L}
          BY <1>16, <1>17, <3>2
      <4>2. q \in slobFree'
          BY <3>2 DEF Returned
      <4>3. ASSUME NEW b \in held' \cup retired', b.page = q PROVE ListFor(b.size) = L
        <5>1. b \in Live
            BY <1>2 DEF Live
        <5>2. b.size \in SizesOn(p)
            BY <3>2, <4>3, <5>1, BlockServed, HoldersOf
        <5> QED
            BY <1>1, <5>2 DEF IInv, ClassInv
      <4> HIDE DEF on, was
      <4>4. /\ q \in slobFree' <=> on # {}
            /\ q \in InService' => (on # {} <=> units'[q] > 0)
            /\ \A b \in held' \cup retired' : b.page = q /\ q \in slab' => on \subseteq {ListFor(b.size)}
          BY <1>7, <3>2, <4>1, <4>2, <4>3
      <4> QED
          BY <4>4 DEF on
    <3> QED
        BY <3>1, <3>2
  <2>3. \A l \in ListNames : IsInjective(lists'[l])
      BY DEF Returned
  <2>4. \A l, k \in ListNames : l # k => ToSet(lists'[l]) \cap ToSet(lists'[k]) = {}
      BY <1>17, <2>1
  <2> QED
      BY <2>2, <2>3, <2>4 DEF PagesListed
<1>20. SplitInv'
  <2>1. ASSUME NEW q \in InService PROVE PageSplit(q)'
    <3>1. q \in Pages /\ PageSplit(q)
        BY BlockServed, <1>3 DEF TypeOK
    <3>2. CASE q # p
        BY <1>5, <1>6, <1>7, <1>8, <3>1, <3>2, SplitKept
    <3>3. CASE q = p
        BY <1>4, <1>5, <1>6, <1>7, <1>8, <3>3, SplitIsPageSplitNext
    <3> QED
        BY <3>2, <3>3
  <2> QED
      BY <1>10, <2>1 DEF SplitInv
<1>21. OwnersInv'
  <2>1. \A u \in Threads : Freeing(u)' => Freeing(u) /\ call'[u] = call[u]
      BY <1>9 DEF SameRole
  <2> QED
      BY <1>2, <2>1 DEF IInv, OwnersInv, Live
<1>22. PlacesInv'
  <2>1. /\ \A x \in Live : x.page \notin frames
        /\ \A u \in Threads : PlaceOk(u)
        /\ \A q \in Pages : UnusedOk(q)
      BY PlacesOfEach DEF IInv
  <2>2. ASSUME NEW u \in Threads PROVE PlaceOk(u)'
    <3>1. SUFFICES ASSUME Private(u)' \/ Releasing(u)' PROVE PlaceOk(u)'
        BY DEF PlaceOk
    <3>2. u # t /\ call'[u] = call[u] /\ SameRole(u) /\ (Private(u) \/ Releasing(u))
        BY <1>9, <3>1 DEF SameRole
    <3>3. \A v \in Threads : Private(v)' \/ Releasing(v)' \/ Freeing(v)' =>
              call'[v] = call[v] /\ (Private(v) \/ Releasing(v) \/ Freeing(v))
        BY <1>9 DEF SameRole
    <3>4. call[u].page # p
        BY <2>1, <3>2 DEF PlaceOk
    <3>5. call[u].page \notin slobFree => call[u].page \notin slobFree'
        BY <3>4 DEF Returned
    <3> QED
        BY <1>2, <2>1, <3>2, <3>3, <3>5 DEF PlaceOk, SameRole
  <2>3. ASSUME NEW q \in Pages PROVE UnusedOk(q)'
    <3>1. \A u \in Threads : Releasing(u) => Releasing(u)' /\ call'[u] = call[u]
        BY <1>9 DEF SameRole
    <3>2. CASE q = p
        BY <1>1, <1>2, <3>2 DEF UnusedOk
    <3>3. CASE q # p
        BY <1>2, <1>5, <2>1, <3>1, <3>3 DEF UnusedOk
    <3> QED
        BY <3>2, <3>3
  <2> QED
      BY <1>2, <2>1, <2>2, <2>3, PlacesOfEach
<1> QED
    BY <1>11, <1>13, <1>14, <1>15, <1>18, <1>19, <1>20, <1>21, <1>22 DEF IInv

\* A page that is on no list.
LEMMA OffLists ==
    ASSUME IInv, NEW p \in Pages, p \notin slobFree
    PROVE  /\ \A l \in ListNames : p \notin ToSet(lists[l])
           /\ p \in InService => units[p] = 0
<1>1. PICK on : on = {l \in ListNames : p \in ToSet(lists[l])}
    OBVIOUS
<1>2. (p \in slobFree <=> on # {}) /\ (p \in InService => (on # {} <=> units[p] > 0))
    BY <1>1 DEF IInv, PagesListed
<1>3. units[p] \in Nat
    BY PageFacts DEF IInv, TypeOK
<1> QED
    BY <1>1, <1>2, <1>3

\* The lists of every name.
LEMMA ListTypes ==
    ASSUME IInv
    PROVE  /\ lists \in [ListNames -> Seq(slab)] /\ slab \subseteq Pages /\ slobFree \subseteq slab
           /\ \A l \in ListNames : IsInjective(lists[l])
           /\ \A z : ListFor(z) \in ListNames
    BY DEF IInv, TypeOK, PagesListed, ListFor, ListNames

LEMMA FreeFirstKeeps ==
    ASSUME IInv, NEW t \in Threads, FreeFirst(t)
    PROVE  IInv'
<1>1. PICK p, a, n, L : /\ p = call[t].page /\ a = call[t].at
                        /\ n = SLOB_UNITS(call[t].size) /\ L = ListFor(call[t].size)
    OBVIOUS
<1>2. PICK m4 : m4 = set_slob(mem[p], a, n, PageUnits)
    OBVIOUS
<1>3. PICK W : W = UsedSpans(p)
    OBVIOUS
<1>4. Freeing(t) /\ ~WholePage(p, n) /\ p \notin slobFree
    BY <1>1 DEF FreeFirst, Freeing
<1>5. /\ p \in Pages /\ p \in slab /\ p \in InService
      /\ a \in Nat /\ n \in Nat /\ 0 < n /\ a + n <= PageUnits
      /\ units[p] \in Nat /\ mem[p] \in Memory
      /\ Split(mem[p], freelist[p], units[p], W)
      /\ W \in SUBSET Spans /\ <<a, n>> \in W
    BY <1>1, <1>3, <1>4, FreeingFacts
<1>6. units[p] = 0 /\ \A l \in ListNames : p \notin ToSet(lists[l])
    BY <1>4, <1>5, OffLists
<1>7. SplitWith(m4, a, units[p] + n, W \ {<<a, n>>}, mem[p], W \ {<<a, n>>})
  <2>1. PICK m, g : m = mem[p] /\ g = freelist[p]
      OBVIOUS
  <2>2. SplitWith(m4, a, n, W \ {<<a, n>>}, m, W \ {<<a, n>>})
      BY <1>2, <1>5, <1>6, <2>1, SplitFirst
  <2>3. units[p] + n = n
      BY <1>5, <1>6
  <2> QED
      BY <2>1, <2>2, <2>3
<1>8. /\ lists' = [lists EXCEPT ![L] = <<p>> \o @] /\ slobFree' = slobFree \cup {p}
      /\ units' = [units EXCEPT ![p] = n] /\ freelist' = [freelist EXCEPT ![p] = a]
      /\ mem' = [mem EXCEPT ![p] = set_slob(@, a, n, PageUnits)]
      /\ CallSet(t, Idle) /\ UNCHANGED <<fit, slab, frames, users, counters>>
    BY <1>1 DEF FreeFirst, CallSet
<1>9. PICK r : r = <<p>> \o lists[L]
    OBVIOUS
<1>10. r \in Seq(slab) /\ IsInjective(r) /\ ToSet(r) = ToSet(lists[L]) \cup {p}
  <2>1. PICK s : s = lists[L]
      OBVIOUS
  <2>2. s \in Seq(slab) /\ IsInjective(s) /\ p \notin ToSet(s)
      BY <1>1, <1>6, <2>1, ListTypes
  <2>3. PICK S : S = slab /\ r = <<p>> \o s
      BY <1>9, <2>1
  <2>4. s \in Seq(S) /\ p \in S /\ r = Cons(p, s)
      BY <1>5, <2>2, <2>3 DEF Cons
  <2>5. Prepended(S, s, p, r)
      BY <2>4, PrependMembers
  <2> QED
      BY <2>1, <2>2, <2>3, <2>5 DEF Prepended
<1>11. lists' = [lists EXCEPT ![L] = r] /\ L \in ListNames
    BY <1>1, <1>8, <1>9, ListTypes
<1>12. Returned(t, p, n, m4, a, W \ {<<a, n>>}, L)
  <2>1. mem' = [mem EXCEPT ![p] = m4]
      BY <1>2, <1>8
  <2>2. units' = [units EXCEPT ![p] = units[p] + n]
      BY <1>5, <1>6, <1>8
  <2>3. lists'[L] = r /\ \A l \in ListNames : l # L => lists'[l] = lists[l]
      BY <1>11, ListTypes
  <2>4. DOMAIN lists' = ListNames /\ lists' = [l \in ListNames |-> lists'[l]]
      BY <1>11, ListTypes
  <2>5. ASSUME NEW l \in ListNames
        PROVE  /\ lists'[l] \in Seq(slab) /\ IsInjective(lists'[l])
               /\ ToSet(lists'[l]) = IF l = L THEN ToSet(lists[l]) \cup {p} ELSE ToSet(lists[l])
      BY <1>10, <2>3, ListTypes
  <2> QED
      BY <1>6, <1>7, <1>8, <2>1, <2>2, <2>4, <2>5 DEF Returned
<1> QED
    BY <1>1, <1>3, <1>4, <1>12, ReturnedKeeps

LEMMA FreeMoreKeeps ==
    ASSUME IInv, NEW t \in Threads, FreeMore(t)
    PROVE  IInv'
<1>1. PICK p, a, n, L : /\ p = call[t].page /\ a = call[t].at
                        /\ n = SLOB_UNITS(call[t].size) /\ L = ListFor(call[t].size)
    OBVIOUS
<1>2. PICK r : r = Insert(mem[p], freelist[p], a, n)
    OBVIOUS
<1>3. PICK W : W = UsedSpans(p)
    OBVIOUS
<1>4. Freeing(t) /\ ~WholePage(p, n) /\ p \in slobFree
    BY <1>1 DEF FreeMore, Freeing
<1>5. /\ p \in Pages /\ p \in slab /\ p \in InService
      /\ a \in Nat /\ n \in Nat /\ 0 < n /\ a + n <= PageUnits
      /\ units[p] \in Nat /\ mem[p] \in Memory
      /\ Split(mem[p], freelist[p], units[p], W)
      /\ W \in SUBSET Spans /\ <<a, n>> \in W
      /\ call[t].size \in SizesOn(p)
    BY <1>1, <1>3, <1>4, FreeingFacts
<1>6. \A l \in ListNames : p \in ToSet(lists[l]) => l = L
    BY <1>1, <1>5 DEF IInv, ClassInv
<1>7. p \in ToSet(lists[L]) /\ units[p] # 0
  <2>1. PICK on : on = {l \in ListNames : p \in ToSet(lists[l])}
      OBVIOUS
  <2>2. (p \in slobFree <=> on # {}) /\ (on # {} <=> units[p] > 0)
      BY <1>5, <2>1 DEF IInv, PagesListed
  <2>3. \E l \in ListNames : p \in ToSet(lists[l])
      BY <1>4, <2>1, <2>2
  <2> QED
      BY <1>4, <1>5, <1>6, <2>2, <2>3
<1>8. SplitWith(r.mem, r.freelist, units[p] + n, W \ {<<a, n>>}, mem[p], W \ {<<a, n>>})
  <2>1. PICK m, g, u : m = mem[p] /\ g = freelist[p] /\ u = units[p]
      OBVIOUS
  <2>2. m \in Memory /\ u \in Nat /\ u # 0 /\ Split(m, g, u, W) /\ r = Insert(m, g, a, n)
      BY <1>2, <1>5, <1>7, <2>1
  <2>3. SplitWith(r.mem, r.freelist, u + n, W \ {<<a, n>>}, m, W \ {<<a, n>>})
      BY <1>5, <2>2, SplitInsert
  <2> QED
      BY <2>1, <2>3
<1>9. /\ lists' = lists /\ slobFree' = slobFree
      /\ units' = [units EXCEPT ![p] = @ + n] /\ freelist' = [freelist EXCEPT ![p] = r.freelist]
      /\ mem' = [mem EXCEPT ![p] = r.mem]
      /\ CallSet(t, Idle) /\ UNCHANGED <<fit, slab, frames, users, counters>>
    BY <1>1, <1>2 DEF FreeMore, CallSet
<1>10. PICK m4, g4 : m4 = r.mem /\ g4 = r.freelist
    OBVIOUS
<1>11. Returned(t, p, n, m4, g4, W \ {<<a, n>>}, L)
  <2>1. units' = [units EXCEPT ![p] = units[p] + n] /\ slobFree' = slobFree \cup {p}
      BY <1>4, <1>9
  <2>2. DOMAIN lists' = ListNames /\ lists' = [l \in ListNames |-> lists'[l]]
      BY <1>9, ListTypes
  <2>3. ASSUME NEW l \in ListNames
        PROVE  /\ lists'[l] \in Seq(slab) /\ IsInjective(lists'[l])
               /\ ToSet(lists'[l]) = IF l = L THEN ToSet(lists[l]) \cup {p} ELSE ToSet(lists[l])
      BY <1>7, <1>9, ListTypes
  <2> QED
      BY <1>6, <1>8, <1>9, <1>10, <2>1, <2>2, <2>3 DEF Returned
<1> QED
    BY <1>1, <1>3, <1>4, <1>11, ReturnedKeeps

\* Nothing is left in use on the page: it leaves its list.
LEMMA FreeLastKeeps ==
    ASSUME IInv, NEW t \in Threads, FreeLast(t)
    PROVE  IInv'
<1>1. PICK p, a, n : p = call[t].page /\ a = call[t].at /\ n = SLOB_UNITS(call[t].size)
    OBVIOUS
<1>2. PICK W : W = UsedSpans(p)
    OBVIOUS
<1>3. Freeing(t) /\ units[p] + n = PageUnits
    BY <1>1 DEF FreeLast, WholePage, Freeing
<1>4. p \in Pages /\ p \in slab /\ p \in InService /\ W = {<<a, n>>}
  <2>1. p \in Pages /\ p \in slab /\ p \in InService
      BY <1>1, <1>2, <1>3, FreeingFacts
  <2>2. /\ Split(mem[p], freelist[p], units[p], W) /\ units[p] \in Nat
        /\ a \in Nat /\ n \in Nat /\ 0 < n /\ a + n <= PageUnits
        /\ W \in SUBSET Spans /\ <<a, n>> \in W
      BY <1>1, <1>2, <1>3, FreeingFacts
  <2>3. PICK m, g, u : m = mem[p] /\ g = freelist[p] /\ u = units[p]
      OBVIOUS
  <2>4. Split(m, g, u, W) /\ u \in Nat /\ u + n = PageUnits
      BY <1>3, <2>2, <2>3
  <2>5. W = {<<a, n>>}
      BY <2>2, <2>4, SplitBound
  <2> QED
      BY <2>1, <2>5
<1>5. /\ fit' = fit /\ mem' = mem /\ units' = units /\ freelist' = freelist /\ slab' = slab
      /\ frames' = frames /\ held' = held /\ retired' = retired /\ Live' = Live
      /\ total_alloc_mem' = total_alloc_mem /\ total_free_mem' = total_free_mem
    BY DEF FreeLast, users, counters, Live
<1>6. PICK c : c = [Idle EXCEPT !.pc = "release", !.page = p]
    OBVIOUS
<1>7. /\ slobFree' = slobFree \ {p} /\ lists' = [l \in ListNames |-> Without(lists[l], p)]
      /\ CallSet(t, c)
    BY <1>1, <1>6 DEF FreeLast, CallSet
<1>8. c.pc = "release" /\ c.page = p /\ CallOk(c, slab)
    BY <1>4, <1>6, ReleaseCallFacts
<1>9. /\ call'[t] = c /\ ~Freeing(t)' /\ ~Private(t)' /\ Releasing(t)'
      /\ \A u \in Threads \ {t} : SameRole(u) /\ call'[u] = call[u]
    BY <1>7, <1>8, CallSetFacts, OthersRoles
<1>10. /\ \A q : q # p => SameHolders(q)
       /\ SizesOn(p)' \subseteq SizesOn(p)
    BY <1>1, <1>3, <1>5, <1>7, <1>8, HoldersDone
<1>11. \A x \in Live : x.page # p
  <2>1. ASSUME NEW x \in Live, x.page = p PROVE FALSE
    <3>1. Holds(p, x.at, x.units, x.size)
        BY <2>1, BlockServed
    <3>2. <<x.at, x.units>> \in W
        BY <1>2, <3>1, HoldersOf
    <3>3. x.at = a
        BY <1>4, <3>2
    <3> QED
        BY <1>1, <1>3, <2>1, <3>3 DEF IInv, OwnersInv, Live
  <2> QED
      BY <2>1
<1>12. \A u \in Threads \ {t} : Freeing(u) => call[u].page # p
  <2>1. ASSUME NEW u \in Threads \ {t}, Freeing(u), call[u].page = p PROVE FALSE
    <3>1. Holds(p, call[u].at, SLOB_UNITS(call[u].size), call[u].size)
        BY <2>1, BlockServed
    <3>2. <<call[u].at, SLOB_UNITS(call[u].size)>> \in W
        BY <1>2, <3>1, HoldersOf
    <3>3. call[u].at = a
        BY <1>4, <3>2
    <3> QED
        BY <1>1, <1>3, <2>1, <3>3 DEF IInv, OwnersInv
  <2> QED
      BY <2>1
<1>13. \A q : q \in InService' <=> q \in InService /\ q # p
  <2>1. \A q, u : q # p /\ u \in Threads =>
            ((Releasing(u)' /\ call'[u].page = q) <=> (Releasing(u) /\ call[u].page = q))
    <3>1. ASSUME NEW q, NEW u \in Threads, q # p
          PROVE  (Releasing(u)' /\ call'[u].page = q) <=> (Releasing(u) /\ call[u].page = q)
      <4>1. CASE u = t
          BY <1>3, <1>8, <1>9, <3>1, <4>1 DEF Freeing, Releasing
      <4>2. CASE u # t
          BY <1>9, <4>2 DEF SameRole
      <4> QED
          BY <4>1, <4>2
    <3> QED
        BY <3>1
  <2>2. p \notin InService'
      BY <1>8, <1>9, InServiceMeans
  <2> QED
      BY <1>5, <2>1, <2>2, InServiceMeans
<1>14. /\ lists' \in [ListNames -> Seq(slab)]
       /\ \A l \in ListNames : IsInjective(lists'[l]) /\ ToSet(lists'[l]) = ToSet(lists[l]) \ {p}
  <2>1. ASSUME NEW l \in ListNames
        PROVE  /\ lists'[l] \in Seq(slab) /\ IsInjective(lists'[l])
               /\ ToSet(lists'[l]) = ToSet(lists[l]) \ {p}
    <3>1. PICK s : s = lists[l]
        OBVIOUS
    <3>2. s \in Seq(slab) /\ IsInjective(s)
        BY <3>1, ListTypes
    <3>3. lists'[l] = Without(s, p)
        BY <1>7, <3>1
    <3> QED
        BY <3>1, <3>2, <3>3, WithoutMembers
  <2> QED
      BY <1>7, <2>1
<1>15. CallInv'
    BY <1>5, <1>7, <1>8, BlockServed, CallsKept
<1>16. TypeOK'
  <2>1. TypeOK
      BY DEF IInv
  <2>2. \A u \in Threads : call'[u].pc \in Steps
      BY <1>15 DEF CallInv, Call
  <2> QED
      BY <1>5, <1>7, <1>14, <2>1, <2>2 DEF TypeOK
<1>17. BlockInv'
    BY <1>5 DEF IInv, BlockInv
<1>18. OwnersDataIntact'
    BY <1>5, InvOfEach, InvOfEachNext DEF IInv
<1>19. OwnersInv'
  <2>1. \A u \in Threads : Freeing(u)' => Freeing(u) /\ call'[u] = call[u]
      BY <1>9 DEF SameRole
  <2> QED
      BY <1>5, <2>1 DEF IInv, OwnersInv, Live
<1>20. SplitInv'
  <2>1. ASSUME NEW q \in InService' PROVE PageSplit(q)'
    <3>1. q # p /\ PageSplit(q)
        BY <1>13, <2>1, BlockServed
    <3> QED
        BY <1>5, <1>10, <3>1, SplitKept
  <2> QED
      BY <2>1 DEF SplitInv
<1>21. ClassInv'
  <2>1. ASSUME NEW q \in slab
        PROVE  /\ \A x, y \in SizesOn(q)' : ListFor(x) = ListFor(y)
               /\ \A l \in ListNames : q \in ToSet(lists'[l]) => \A x \in SizesOn(q)' : ListFor(x) = l
    <3>1. /\ \A x, y \in SizesOn(q) : ListFor(x) = ListFor(y)
          /\ \A l \in ListNames : q \in ToSet(lists[l]) => \A x \in SizesOn(q) : ListFor(x) = l
        BY DEF IInv, ClassInv
    <3>2. \A x \in SizesOn(q)' : x \in SizesOn(q)
        BY <1>10, HoldersKept
    <3>3. \A l \in ListNames : q \in ToSet(lists'[l]) => q \in ToSet(lists[l])
        BY <1>14
    <3> QED
        BY <3>1, <3>2, <3>3
  <2> QED
      BY <1>5, <2>1 DEF ClassInv
<1>22. PagesListed'
  <2>1. /\ \A q \in Pages :
              LET on == {l \in ListNames : q \in ToSet(lists[l])} IN
              /\ q \in slobFree <=> on # {}
              /\ q \in InService => (on # {} <=> units[q] > 0)
              /\ \A b \in held \cup retired :
                    b.page = q /\ q \in slab => on \subseteq {ListFor(b.size)}
        /\ \A l, k \in ListNames : l # k => ToSet(lists[l]) \cap ToSet(lists[k]) = {}
      BY DEF IInv, PagesListed
  <2>2. ASSUME NEW q \in Pages
        PROVE  LET on == {l \in ListNames : q \in ToSet(lists'[l])} IN
               /\ q \in slobFree' <=> on # {}
               /\ q \in InService' => (on # {} <=> units'[q] > 0)
               /\ \A b \in held' \cup retired' :
                     b.page = q /\ q \in slab' => on \subseteq {ListFor(b.size)}
    <3> DEFINE on == {l \in ListNames : q \in ToSet(lists'[l])}
               was == {l \in ListNames : q \in ToSet(lists[l])}
    <3>1. /\ q \in slobFree <=> was # {}
          /\ q \in InService => (was # {} <=> units[q] > 0)
          /\ \A b \in held \cup retired : b.page = q /\ q \in slab => was \subseteq {ListFor(b.size)}
        BY <2>1
    <3>2. q # p => on = was
        BY <1>14
    <3>3. q = p => on = {}
        BY <1>14
    <3>4. q = p => q \notin slobFree' /\ q \notin InService'
        BY <1>7, <1>13
    <3>5. q # p => (q \in slobFree' <=> q \in slobFree) /\ (q \in InService' <=> q \in InService)
        BY <1>7, <1>13
    <3> HIDE DEF on, was
    <3>6. /\ q \in slobFree' <=> on # {}
          /\ q \in InService' => (on # {} <=> units'[q] > 0)
          /\ \A b \in held' \cup retired' : b.page = q /\ q \in slab' => on \subseteq {ListFor(b.size)}
        BY <1>5, <3>1, <3>2, <3>3, <3>4, <3>5
    <3> QED
        BY <3>6 DEF on
  <2>3. \A l \in ListNames : IsInjective(lists'[l])
      BY <1>14
  <2>4. \A l, k \in ListNames : l # k => ToSet(lists'[l]) \cap ToSet(lists'[k]) = {}
      BY <1>14, <2>1
  <2> QED
      BY <2>2, <2>3, <2>4 DEF PagesListed
<1>23. PlacesInv'
  <2>1. /\ \A x \in Live : x.page \notin frames
        /\ \A u \in Threads : PlaceOk(u)
        /\ \A q \in Pages : UnusedOk(q)
      BY PlacesOfEach DEF IInv
  <2>2. ASSUME NEW u \in Threads PROVE PlaceOk(u)'
    <3>1. CASE u = t
      <4>1. p \notin frames
          BY <1>4 DEF IInv, TypeOK
      <4>2. ASSUME NEW v \in Threads \ {t}, Private(v)' \/ Releasing(v)' \/ Freeing(v)'
            PROVE  call'[v].page # p
        <5>1. call'[v] = call[v] /\ (Private(v) \/ Releasing(v) \/ Freeing(v))
            BY <1>9, <4>2 DEF SameRole
        <5>2. CASE Private(v) \/ Releasing(v)
            BY <1>1, <1>3, <2>1, <5>1, <5>2 DEF PlaceOk
        <5>3. CASE Freeing(v)
            BY <1>12, <5>1, <5>3
        <5> QED
            BY <5>1, <5>2, <5>3
      <4>3. call'[t].page = p
          BY <1>8, <1>9
      <4> QED
          BY <1>5, <1>7, <1>9, <1>11, <3>1, <4>1, <4>2, <4>3 DEF PlaceOk
    <3>2. CASE u # t
      <4>1. SUFFICES ASSUME Private(u)' \/ Releasing(u)' PROVE PlaceOk(u)'
          BY DEF PlaceOk
      <4>2. call'[u] = call[u] /\ SameRole(u) /\ (Private(u) \/ Releasing(u))
          BY <1>9, <3>2, <4>1 DEF SameRole
      <4>3. \A v \in Threads \ {u} :
                (Private(v)' \/ Releasing(v)' \/ Freeing(v)') => call'[v].page # call[u].page
        <5>1. ASSUME NEW v \in Threads \ {u}, Private(v)' \/ Releasing(v)' \/ Freeing(v)'
              PROVE  call'[v].page # call[u].page
          <6>1. CASE v = t
            <7>1. call[t].page # call[u].page
                BY <1>3, <2>1, <3>2, <4>2 DEF PlaceOk
            <7> QED
                BY <1>1, <1>8, <1>9, <6>1, <7>1
          <6>2. CASE v # t
              BY <1>9, <2>1, <4>2, <5>1, <6>2 DEF PlaceOk, SameRole
          <6> QED
              BY <6>1, <6>2
        <5> QED
            BY <5>1
      <4> QED
          BY <1>5, <1>7, <2>1, <4>2, <4>3 DEF PlaceOk, SameRole
    <3> QED
        BY <3>1, <3>2
  <2>3. ASSUME NEW q \in Pages PROVE UnusedOk(q)'
    <3>1. \A u \in Threads : Releasing(u) => Releasing(u)' /\ call'[u] = call[u]
        BY <1>3, <1>9 DEF SameRole, Freeing, Releasing
    <3> QED
        BY <1>5, <2>1, <3>1 DEF UnusedOk
  <2> QED
      BY <1>5, <2>1, <2>2, <2>3, PlacesOfEach
<1> QED
    BY <1>15, <1>16, <1>17, <1>18, <1>19, <1>20, <1>21, <1>22, <1>23 DEF IInv

\* The page goes back to the page allocator.
LEMMA ReleaseKeeps ==
    ASSUME IInv, NEW t \in Threads, Release(t)
    PROVE  IInv'
<1>1. PICK p : p = call[t].page
    OBVIOUS
<1>2. PICK c : c = [Idle EXCEPT !.pc = "uncount", !.seen = total_alloc_mem]
    OBVIOUS
<1>3. /\ Releasing(t) /\ slab' = slab \ {p} /\ frames' = frames \cup {p} /\ CallSet(t, c)
      /\ mem' = [mem EXCEPT ![p] = [x \in DOMAIN @ |-> 0]]
      /\ units' = [units EXCEPT ![p] = 0] /\ freelist' = [freelist EXCEPT ![p] = 0]
    BY <1>1, <1>2 DEF Release, Releasing, CallSet
<1>4. /\ fit' = fit /\ slobFree' = slobFree /\ lists' = lists /\ held' = held
      /\ retired' = retired /\ Live' = Live
      /\ total_alloc_mem' = total_alloc_mem /\ total_free_mem' = total_free_mem
    BY DEF Release, users, counters, Live
<1>5. /\ \A x \in Live : x.page \notin frames
      /\ \A u \in Threads : PlaceOk(u)
      /\ \A q \in Pages : UnusedOk(q)
    BY PlacesOfEach DEF IInv
<1>6. /\ p \notin slobFree /\ \A x \in Live : x.page # p
      /\ \A u \in Threads \ {t} : Private(u) \/ Releasing(u) \/ Freeing(u) => call[u].page # p
    BY <1>1, <1>3, <1>5 DEF PlaceOk
<1>7. TypeOK
    BY DEF IInv
<1>8. p \in Pages
  <2>1. CallOk(call[t], slab)
      BY BlockServed
  <2> QED
      BY <1>1, <1>3, <2>1 DEF CallOk, Releasing
<1>9. \A l \in ListNames : p \notin ToSet(lists[l])
    BY <1>6, <1>8, OffLists
<1>10. c.pc = "uncount" /\ CallOk(c, slab')
  <2>1. Idle \in Call
      BY IdleCall DEF CallOk
  <2>2. PICK d : d = [Idle EXCEPT !.pc = "uncount"]
      OBVIOUS
  <2>3. d \in Call /\ d.pc = "uncount"
      BY <2>1, <2>2 DEF Call, Steps
  <2>4. c = [d EXCEPT !.seen = total_alloc_mem]
      BY <1>2, <2>2
  <2>5. total_alloc_mem \in 0..WORD - 1
      BY Counters
  <2>6. c \in Call /\ c.pc = "uncount"
      BY <2>3, <2>4, <2>5 DEF Call
  <2> QED
      BY <2>6 DEF CallOk
<1>11. /\ call'[t] = c /\ ~Freeing(t)' /\ ~Private(t)' /\ ~Releasing(t)' /\ ~Freeing(t)
       /\ \A u \in Threads \ {t} : SameRole(u) /\ call'[u] = call[u]
    BY <1>3, <1>10, CallSetFacts, OthersRoles DEF Releasing, Freeing
<1>12. InService' = InService
  <2>1. SUFFICES ASSUME NEW q PROVE q \in InService' <=> q \in InService
      OBVIOUS
  <2>2. CASE q = p
      BY <1>1, <1>3, <2>2, InServiceMeans
  <2>3. CASE q # p
    <3>1. \A u \in Threads : (Releasing(u)' /\ call'[u].page = q) <=> (Releasing(u) /\ call[u].page = q)
        BY <1>1, <1>11, <2>3 DEF SameRole
    <3> QED
        BY <1>3, <2>3, <3>1, InServiceMeans
  <2> QED
      BY <2>2, <2>3
<1>13. \A q : SameHolders(q)
  <2>1. ASSUME NEW q, NEW a, NEW n, NEW z PROVE Holds(q, a, n, z)' <=> Holds(q, a, n, z)
    <3>1. \A u \in Threads :
              (Freeing(u)' /\ call'[u].page = q /\ call'[u].at = a /\ call'[u].size = z)
                 <=> (Freeing(u) /\ call[u].page = q /\ call[u].at = a /\ call[u].size = z)
        BY <1>11 DEF SameRole
    <3> QED
        BY <1>4, <3>1 DEF Holds
  <2> QED
      BY <2>1 DEF SameHolders
<1>14. /\ mem' \in [Pages -> Memory] /\ mem'[p] = Blank /\ \A q \in Pages : q # p => mem'[q] = mem[q]
  <2>1. mem \in [Pages -> Memory]
      BY <1>7 DEF TypeOK, Memory
  <2>2. [x \in DOMAIN mem[p] |-> 0] = Blank /\ Blank \in Memory
      BY <1>8, <2>1 DEF Memory, Blank
  <2>3. mem' = [mem EXCEPT ![p] = Blank]
      BY <1>3, <2>2
  <2> QED
      BY <1>8, <2>1, <2>2, <2>3
<1>15. /\ freelist' \in [Pages -> 0..PageUnits] /\ units' \in [Pages -> 0..PageUnits - 1]
       /\ \A q \in Pages : q # p => freelist'[q] = freelist[q] /\ units'[q] = units[q]
  <2>1. 0 \in 0..PageUnits /\ 0 \in 0..PageUnits - 1
      BY PageFacts
  <2>2. freelist \in [Pages -> 0..PageUnits] /\ units \in [Pages -> 0..PageUnits - 1]
      BY <1>7 DEF TypeOK
  <2> QED
      BY <1>3, <1>8, <2>1, <2>2
<1>16. CallInv'
  <2>1. \A u \in Threads \ {t} : Freeing(u) => call[u].page \in slab'
      BY <1>3, <1>6, BlockServed
  <2> QED
      BY <1>3, <1>10, <2>1, CallsKept
<1>17. BlockInv'
  <2>1. ASSUME NEW b \in Live PROVE BlockOk(b, slab')
    <3>1. BlockOk(b, slab) /\ b.page # p
        BY <1>6, BlockServed
    <3> QED
        BY <1>3, <3>1 DEF BlockOk
  <2>2. \A b \in retired : b.rcu
      BY InvOfEach DEF IInv
  <2> QED
      BY <1>4, <2>1, <2>2, InvOfEachNext
<1>18. OwnersDataIntact'
  <2>1. ASSUME NEW b \in Live PROVE b.page # p /\ mem'[b.page] = mem[b.page]
    <3>1. BlockOk(b, slab)
        BY BlockServed
    <3> QED
        BY <1>6, <1>14, <3>1, BlockNumbers
  <2>2. ASSUME NEW b \in held PROVE HeldOk(b, mem'[b.page], slab')
    <3>1. HeldOk(b, mem[b.page], slab)
        BY InvOfEach DEF IInv
    <3> QED
        BY <1>3, <2>1, <3>1 DEF HeldOk, Live
  <2>3. ASSUME NEW b \in retired PROVE RetiredOk(b, mem'[b.page])
    <3>1. RetiredOk(b, mem[b.page])
        BY InvOfEach DEF IInv
    <3> QED
        BY <2>1, <3>1 DEF Live
  <2> QED
      BY <1>4, <2>2, <2>3, InvOfEachNext
<1>19. TypeOK'
  <2>1. \A u \in Threads : call'[u].pc \in Steps
      BY <1>16 DEF CallInv, Call
  <2>2. lists' \in [ListNames -> Seq(slab')]
    <3>1. ASSUME NEW l \in ListNames PROVE lists[l] \in Seq(slab')
      <4>1. PICK s : s = lists[l]
          OBVIOUS
      <4>2. s \in Seq(slab) /\ p \notin ToSet(s)
          BY <1>9, <4>1, ListTypes
      <4>3. \A i \in 1..Len(s) : s[i] \in slab'
          BY <1>3, <4>2 DEF ToSet
      <4> QED
          BY <4>1, <4>2, <4>3
    <3> QED
        BY <1>4, <3>1, ListTypes
  <2>3. mem' \in [Pages -> [0..PageUnits - 1 -> Int]]
      BY <1>14 DEF Memory
  <2>4. slab' \subseteq Pages /\ slobFree' \subseteq slab' /\ frames' \subseteq Pages \ slab'
      BY <1>3, <1>4, <1>6, <1>7, <1>8 DEF TypeOK
  <2> QED
      BY <1>4, <1>7, <1>15, <2>1, <2>2, <2>3, <2>4 DEF TypeOK
<1>20. SplitInv'
  <2>1. ASSUME NEW q \in InService PROVE PageSplit(q)'
    <3>1. q \in slab /\ PageSplit(q) /\ q # p
        BY <1>1, <1>3, BlockServed, InServiceMeans
    <3>2. q \in Pages
        BY <3>1, ListTypes
    <3> QED
        BY <1>13, <1>14, <1>15, <3>1, <3>2, SplitKept
  <2> QED
      BY <1>12, <2>1 DEF SplitInv
<1>21. ClassInv'
  <2>1. \A q : SizesOn(q)' = SizesOn(q)
      BY <1>13, HoldersKept
  <2> QED
      BY <1>3, <1>4, <2>1 DEF ClassInv, IInv
<1>22. PagesListed'
  <2>1. ASSUME NEW q \in Pages
        PROVE  LET on == {l \in ListNames : q \in ToSet(lists'[l])} IN
               /\ q \in slobFree' <=> on # {}
               /\ q \in InService' => (on # {} <=> units'[q] > 0)
               /\ \A b \in held' \cup retired' :
                     b.page = q /\ q \in slab' => on \subseteq {ListFor(b.size)}
    <3> DEFINE on == {l \in ListNames : q \in ToSet(lists'[l])}
    <3>1. /\ q \in slobFree <=> on # {}
          /\ q \in InService => (on # {} <=> units[q] > 0)
          /\ \A b \in held \cup retired : b.page = q /\ q \in slab => on \subseteq {ListFor(b.size)}
        BY <1>4 DEF IInv, PagesListed
    <3>2. q \in InService => units'[q] = units[q]
        BY <1>1, <1>3, <1>15, InServiceMeans
    <3> HIDE DEF on
    <3>3. /\ q \in slobFree' <=> on # {}
          /\ q \in InService' => (on # {} <=> units'[q] > 0)
          /\ \A b \in held' \cup retired' : b.page = q /\ q \in slab' => on \subseteq {ListFor(b.size)}
        BY <1>3, <1>4, <1>12, <3>1, <3>2
    <3> QED
        BY <3>3 DEF on
  <2>2. \A l \in ListNames : IsInjective(lists'[l])
      BY <1>4, ListTypes
  <2>3. \A l, k \in ListNames : l # k => ToSet(lists'[l]) \cap ToSet(lists'[k]) = {}
      BY <1>4 DEF IInv, PagesListed
  <2> QED
      BY <2>1, <2>2, <2>3 DEF PagesListed
<1>23. OwnersInv'
  <2>1. \A u \in Threads : Freeing(u)' => Freeing(u) /\ call'[u] = call[u]
      BY <1>11 DEF SameRole
  <2> QED
      BY <1>4, <2>1 DEF IInv, OwnersInv, Live
<1>24. PlacesInv'
  <2>1. ASSUME NEW u \in Threads PROVE PlaceOk(u)'
    <3>1. SUFFICES ASSUME Private(u)' \/ Releasing(u)' PROVE PlaceOk(u)'
        BY DEF PlaceOk
    <3>2. u # t /\ call'[u] = call[u] /\ SameRole(u) /\ (Private(u) \/ Releasing(u))
        BY <1>11, <3>1 DEF SameRole
    <3>3. call[u].page # p
        BY <1>6, <3>2
    <3>4. \A v \in Threads : Private(v)' \/ Releasing(v)' \/ Freeing(v)' =>
              call'[v] = call[v] /\ (Private(v) \/ Releasing(v) \/ Freeing(v))
        BY <1>11 DEF SameRole
    <3> QED
        BY <1>3, <1>4, <1>5, <3>2, <3>3, <3>4 DEF PlaceOk, SameRole
  <2>2. ASSUME NEW q \in Pages PROVE UnusedOk(q)'
    <3>1. CASE q = p
        BY <1>14, <3>1 DEF UnusedOk
    <3>2. CASE q # p
      <4>1. \A u \in Threads : Releasing(u) /\ call[u].page = q => Releasing(u)' /\ call'[u].page = q
          BY <1>1, <1>11, <3>2 DEF SameRole
      <4> QED
          BY <1>3, <1>4, <1>5, <1>14, <3>2, <4>1 DEF UnusedOk
    <3> QED
        BY <3>1, <3>2
  <2>3. \A x \in Live' : x.page \notin frames'
      BY <1>3, <1>4, <1>5, <1>6
  <2> QED
      BY <2>1, <2>2, <2>3, PlacesOfEach
<1> QED
    BY <1>16, <1>17, <1>18, <1>19, <1>20, <1>21, <1>22, <1>23, <1>24 DEF IInv

-----------------------------------------------------------------------------
(* A block is handed out *)

\* What Filled writes in the block b of the memory m4.
Data(b, m4) ==
    \A x \in Covers(b.at, b.units) :
        m4[x] = IF b.kind = "kmalloc" /\ x = b.at THEN b.size - MINALIGN ELSE 0

\* The numbers of a call of slob_alloc.
LEMMA AskedFacts ==
    ASSUME NEW c \in Call, Asked(c), NEW n, n = SLOB_UNITS(c.size)
    PROVE  /\ c.size \in Nat /\ 0 < c.size /\ c.size < PAGE_SIZE
           /\ c.align \in Nat /\ c.align % SLOB_UNIT = 0
           /\ n \in Nat /\ 0 < n /\ n <= PageUnits /\ c.rcu \in BOOLEAN
<1>1. c.size \in Nat /\ c.align \in Nat /\ c.rcu \in BOOLEAN
    BY DEF Call
<1>2. 0 < c.size /\ c.size < PAGE_SIZE
    BY DEF Asked
<1>3. c.align % SLOB_UNIT = 0
  <2>1. CASE c.align = MINALIGN
      BY <2>1, SizeAssumption
  <2>2. CASE \E k \in Caches : c.align = k.align
      BY <2>2, CacheAssumption
  <2> QED
      BY <2>1, <2>2 DEF Asked
<1>4. PAGE_SIZE \in Nat
    BY SizeAssumption
<1>5. c.size <= PAGE_SIZE
    BY <1>1, <1>2, <1>4
<1> QED
    BY <1>1, <1>2, <1>3, <1>5, UnitsOfSize

\* A block that is served as it was asked for is a block of a slab page, with the data in
\* place that its owner and kfree go by.
LEMMA NewBlockFacts ==
    ASSUME NEW p \in Pages, NEW c \in Call, Asked(c), NEW n, n = SLOB_UNITS(c.size),
           NEW a \in Nat, a + n <= PageUnits, NEW b, b = NewBlock(c, p, a, n),
           NEW m4, Data(b, m4), NEW S, p \in S
    PROVE  BlockOk(b, S) /\ HeldOk(b, m4, S)
<1>1. /\ b.page = p /\ b.at = a /\ b.units = n /\ b.kind = c.kind /\ b.size = c.size
      /\ b.rcu = c.rcu
    BY DEF NewBlock
<1>2. /\ c.size \in Nat /\ 0 < c.size /\ c.size < PAGE_SIZE
      /\ n \in Nat /\ 0 < n /\ n <= PageUnits /\ c.rcu \in BOOLEAN
    BY AskedFacts
<1>3. c.kind \in {"kmalloc", "cache"}
    BY DEF Asked
<1>4. b \in Block
  <2>1. a \in 0..PageUnits - 1 /\ n \in 1..PageUnits
      BY <1>2, PageFacts
  <2> QED
      BY <1>2, <1>3, <2>1 DEF NewBlock, Block
<1>5. c.kind = "kmalloc" => c.size > MINALIGN
    BY DEF Asked
<1>6. c.rcu => c.kind = "cache" /\ \E k \in Caches : k.rcu /\ c.size = CacheSize(k)
    BY DEF Asked
<1>7. BlockOk(b, S)
    BY <1>1, <1>2, <1>3, <1>4, <1>5, <1>6 DEF BlockOk
<1>8. ASSUME b.kind = "kmalloc"
      PROVE  SLOB_UNIT * b.at + MINALIGN + SLOB_UNITS(m4[b.at]) * SLOB_UNIT
                 <= SLOB_UNIT * (b.at + b.units)
  <2>1. b.at \in Covers(b.at, b.units)
      BY <1>1, <1>2 DEF Covers
  <2>2. m4[b.at] = c.size - MINALIGN
      BY <1>1, <1>8, <2>1 DEF Data
  <2>3. PICK h \in Nat : MINALIGN = 2 * h
      BY SizeAssumption DEF SLOB_UNIT
  <2>4. PICK z \in Nat : z = c.size /\ 2 * h < z
      BY <1>1, <1>2, <1>5, <1>8, <2>3
  <2>5. SLOB_UNITS(z - 2 * h) = (z + 1) \div 2 - h
    <3>1. (z - 2 * h + 2 - 1) \div 2 = (z + 1) \div 2 - h
        BY <2>3, <2>4
    <3> QED
        BY <3>1 DEF SLOB_UNITS, SLOB_UNIT
  <2>6. n = (z + 1) \div 2
      BY <2>4 DEF SLOB_UNITS, SLOB_UNIT
  <2>7. SLOB_UNITS(m4[b.at]) = n - h
      BY <2>2, <2>3, <2>4, <2>5, <2>6
  <2> QED
      BY <1>1, <1>2, <2>3, <2>7 DEF SLOB_UNIT
<1>9. \A x \in Covers(b.at, b.units) :
          m4[x] = IF b.kind = "kmalloc" /\ x = b.at THEN b.size - MINALIGN ELSE 0
    BY DEF Data
<1> QED
    BY <1>7, <1>8, <1>9 DEF HeldOk

\* What the new owner writes stays in its block.
LEMMA FilledFacts ==
    ASSUME NEW m \in Memory, NEW b, b.at \in Nat, b.units \in Nat, b.size \in Nat,
           b.at + b.units <= PageUnits, NEW m4, m4 = Filled(m, b)
    PROVE  /\ m4 \in Memory /\ Data(b, m4)
           /\ \A x \in AllUnits : x \notin Covers(b.at, b.units) => m4[x] = m[x]
<1>1. DOMAIN m = AllUnits /\ \A x \in AllUnits : m[x] \in Int
    BY DEF Memory, AllUnits
<1>2. /\ b.at \in Nat /\ b.units \in Nat /\ b.size \in Nat /\ b.at + b.units <= PageUnits
      /\ MINALIGN \in Nat
    BY SizeAssumption
<1>3. /\ DOMAIN m4 = AllUnits
      /\ m4 = [x \in AllUnits |-> m4[x]]
      /\ \A x \in AllUnits :
            m4[x] = IF x \notin Covers(b.at, b.units) THEN m[x]
                    ELSE IF b.kind = "kmalloc" /\ x = b.at THEN b.size - MINALIGN ELSE 0
    BY <1>1 DEF Filled, Covers
<1>4. \A x \in AllUnits : m4[x] \in Int
    BY <1>1, <1>2, <1>3
<1>5. m4 \in Memory
    BY <1>3, <1>4 DEF Memory, AllUnits
<1>6. \A x \in Covers(b.at, b.units) : x \in AllUnits
    BY <1>2, PageFacts DEF Covers, AllUnits
<1> QED
    BY <1>3, <1>5, <1>6 DEF Data

\* What slob_alloc does to page p, in whose memory m4 it has cut out the block b; u4 units
\* of the page stay free, and L is the list it is on if there are any.
ServedMemory(p, b, m4, first4, u4) ==
    /\ SplitWith(m4, first4, u4, UsedSpans(p) \cup {<<b.at, b.units>>}, mem[p], UsedSpans(p))
    /\ \A s \in UsedSpans(p) : s[1] # b.at
    /\ Data(b, m4) /\ u4 < PageUnits
    /\ mem' = [mem EXCEPT ![p] = m4]
    /\ freelist' = [freelist EXCEPT ![p] = first4]
    /\ units' = [units EXCEPT ![p] = u4]

ServedLists(p, u4, L) ==
    /\ slab' = slab \cup {p}
    /\ slobFree' = IF u4 = 0 THEN slobFree \ {p} ELSE slobFree \cup {p}
    /\ DOMAIN lists' = ListNames /\ lists' = [l \in ListNames |-> lists'[l]]
    /\ \A l \in ListNames :
          /\ lists'[l] \in Seq(slab') /\ IsInjective(lists'[l])
          /\ \A q : q \in ToSet(lists'[l]) <=> IF q = p THEN l = L /\ u4 # 0
                                               ELSE q \in ToSet(lists[l])

\* The page is a slab page already, or in the hands of the call.
Serving(t, p, L) ==
    /\ ~Freeing(t) /\ ~Releasing(t) /\ p \notin frames
    /\ \A u \in Threads \ {t} : Private(u) \/ Releasing(u) => call[u].page # p
    /\ p \notin slab => \A x \in Live : x.page # p
    /\ \A z \in SizesOn(p) : ListFor(z) = L

Served(t, p, b, m4, first4, u4, L) ==
    /\ Serving(t, p, L) /\ ServedMemory(p, b, m4, first4, u4) /\ ServedLists(p, u4, L)
    /\ held' = held \cup {b} /\ CallSet(t, Idle)
    /\ UNCHANGED <<fit, frames, retired, total_alloc_mem>>
    /\ total_free_mem' \in 0..WORD - 1

LEMMA ServedKeeps ==
    ASSUME IInv, NEW t \in Threads, NEW p \in Pages, NEW c, c = call[t], Asked(c),
           NEW n, n = SLOB_UNITS(c.size), NEW a \in Nat, a + n <= PageUnits,
           NEW b, b = NewBlock(c, p, a, n), NEW L, L = ListFor(c.size),
           NEW m4, NEW first4, NEW u4, Served(t, p, b, m4, first4, u4, L)
    PROVE  IInv'
<1>1. PICK W : W = UsedSpans(p)
    OBVIOUS
<1>2. TypeOK
    BY DEF IInv
<1>3. /\ b.page = p /\ b.at = a /\ b.units = n /\ b.size = c.size
      /\ n \in Nat /\ 0 < n
      /\ c.size \in Nat
  <2>1. CallOk(c, slab)
      BY BlockServed
  <2> QED
      BY <2>1, AskedFacts DEF NewBlock, CallOk
<1>4. /\ ~Freeing(t) /\ ~Releasing(t) /\ p \notin frames
      /\ \A u \in Threads \ {t} : Private(u) \/ Releasing(u) => call[u].page # p
      /\ p \notin slab => \A x \in Live : x.page # p
      /\ \A z \in SizesOn(p) : ListFor(z) = L
    BY DEF Served, Serving
<1>5. /\ m4 \in Memory /\ first4 \in 0..PageUnits /\ u4 \in 0..PageUnits - 1
      /\ Split(m4, first4, u4, W \cup {<<a, n>>}) /\ Data(b, m4)
      /\ \A s \in W : \A x \in Covers(s[1], s[2]) : m4[x] = mem[p][x]
      /\ \A s \in W : s[1] # a
      /\ mem' = [mem EXCEPT ![p] = m4]
      /\ freelist' = [freelist EXCEPT ![p] = first4]
      /\ units' = [units EXCEPT ![p] = u4]
  <2>1. ServedMemory(p, b, m4, first4, u4)
      BY DEF Served
  <2>2. u4 \in Nat /\ u4 < PageUnits
      BY <2>1 DEF ServedMemory, SplitWith
  <2> QED
      BY <1>1, <1>3, <2>1, <2>2, PageFacts DEF ServedMemory, SplitWith
<1>6. /\ slab' = slab \cup {p}
      /\ slobFree' = IF u4 = 0 THEN slobFree \ {p} ELSE slobFree \cup {p}
      /\ lists' \in [ListNames -> Seq(slab')]
      /\ \A l \in ListNames : IsInjective(lists'[l])
      /\ \A l \in ListNames, q \in Pages :
            q \in ToSet(lists'[l]) <=> IF q = p THEN l = L /\ u4 # 0 ELSE q \in ToSet(lists[l])
  <2>1. ServedLists(p, u4, L)
      BY DEF Served
  <2> QED
      BY <2>1 DEF ServedLists
<1>7. /\ fit' = fit /\ frames' = frames /\ held' = held \cup {b} /\ retired' = retired
      /\ Live' = Live \cup {b} /\ CallSet(t, Idle)
      /\ total_alloc_mem' = total_alloc_mem /\ total_free_mem' \in 0..WORD - 1
    BY DEF Served, Live
<1>8. /\ call'[t] = Idle /\ ~Freeing(t)' /\ ~Private(t)' /\ ~Releasing(t)'
      /\ \A u \in Threads \ {t} : SameRole(u) /\ call'[u] = call[u]
    BY <1>7, IdleCall, CallSetFacts, OthersRoles
<1>9. BlockOk(b, slab') /\ HeldOk(b, m4, slab')
  <2>1. CallOk(c, slab)
      BY BlockServed
  <2>2. PICK S : S = slab' /\ p \in S
      BY <1>6
  <2>3. BlockOk(b, S) /\ HeldOk(b, m4, S)
      BY <1>5, <2>1, <2>2, NewBlockFacts DEF CallOk
  <2> QED
      BY <2>2, <2>3
<1>10. /\ mem' \in [Pages -> Memory] /\ mem'[p] = m4 /\ \A q \in Pages : q # p => mem'[q] = mem[q]
  <2>1. mem \in [Pages -> Memory]
      BY <1>2 DEF TypeOK, Memory
  <2> QED
      BY <1>5, <2>1
<1>11. /\ freelist' \in [Pages -> 0..PageUnits] /\ units' \in [Pages -> 0..PageUnits - 1]
       /\ freelist'[p] = first4 /\ units'[p] = u4
       /\ \A q \in Pages : q # p => freelist'[q] = freelist[q] /\ units'[q] = units[q]
    BY <1>2, <1>5 DEF TypeOK
\* Nothing in use on the page begins where b does.
<1>12. \A k, z : ~Holds(p, a, k, z)
  <2>1. ASSUME NEW k, NEW z, Holds(p, a, k, z) PROVE FALSE
    <3>1. PICK s : s = <<a, k>>
        OBVIOUS
    <3>2. s \in W /\ s[1] = a
        BY <1>1, <2>1, <3>1, HoldersOf
    <3> QED
        BY <1>5, <3>2
  <2> QED
      BY <2>1
<1>13. /\ \A x \in Live : ~(x.page = p /\ x.at = a)
       /\ \A u \in Threads : Freeing(u) => ~(call[u].page = p /\ call[u].at = a)
    BY <1>12, BlockServed
<1>14. \A q, e, k, z : Holds(q, e, k, z)' <=>
           Holds(q, e, k, z) \/ (q = p /\ e = a /\ k = n /\ z = c.size)
  <2>1. ASSUME NEW q, NEW e, NEW k, NEW z
        PROVE  Holds(q, e, k, z)' <=>
                   Holds(q, e, k, z) \/ (q = p /\ e = a /\ k = n /\ z = c.size)
    <3>1. \A u \in Threads :
              (Freeing(u)' /\ call'[u].page = q /\ call'[u].at = e /\ call'[u].size = z)
                 <=> (Freeing(u) /\ call[u].page = q /\ call[u].at = e /\ call[u].size = z)
        BY <1>4, <1>8 DEF SameRole
    <3>2. (\E x \in Live' : x.page = q /\ x.at = e /\ x.units = k /\ x.size = z)
             <=> \/ \E x \in Live : x.page = q /\ x.at = e /\ x.units = k /\ x.size = z
                 \/ q = p /\ e = a /\ k = n /\ z = c.size
        BY <1>3, <1>7
    <3> QED
        BY <3>1, <3>2 DEF Holds
  <2> QED
      BY <2>1
<1>15. /\ \A q : q # p => SameHolders(q)
       /\ UsedSpans(p)' = W \cup {<<a, n>>}
       /\ \A z \in SizesOn(p)' : ListFor(z) = L
  <2>1. \A q : q # p => SameHolders(q)
      BY <1>14 DEF SameHolders
  <2>2. \A s : s \in UsedSpans(p)' <=> s \in W \/ s = <<a, n>>
    <3>1. ASSUME NEW s PROVE s \in UsedSpans(p)' <=> s \in W \/ s = <<a, n>>
      <4>1. s \in UsedSpans(p)' <=> \E e, k, z : Holds(p, e, k, z)' /\ s = <<e, k>>
          BY HoldersOfNext
      <4>2. s \in W <=> \E e, k, z : Holds(p, e, k, z) /\ s = <<e, k>>
          BY <1>1, HoldersOf
      <4>3. \A e, k, z : Holds(p, e, k, z)' <=>
                Holds(p, e, k, z) \/ (e = a /\ k = n /\ z = c.size)
          BY <1>14
      <4> QED
          BY <4>1, <4>2, <4>3
    <3> QED
        BY <3>1
  <2>3. \A z \in SizesOn(p)' : z \in SizesOn(p) \/ z = c.size
      BY <1>14, HoldersOf, HoldersOfNext
  <2> QED
      BY <1>4, <2>1, <2>2, <2>3
<1>16. \A q : q \in InService' <=> q \in InService \/ q = p
  <2>1. \A u \in Threads : Releasing(u)' => Releasing(u) /\ call'[u] = call[u] /\ call[u].page # p
      BY <1>4, <1>8 DEF SameRole
  <2>2. \A u \in Threads : Releasing(u) => Releasing(u)' /\ call'[u] = call[u]
      BY <1>4, <1>8 DEF SameRole
  <2>3. ASSUME NEW q PROVE q \in InService' <=> q \in InService \/ q = p
    <3>1. CASE q = p
        BY <1>6, <2>1, <3>1, InServiceMeans
    <3>2. CASE q # p
        BY <1>6, <2>1, <2>2, <3>2, InServiceMeans
    <3> QED
        BY <3>1, <3>2
  <2> QED
      BY <2>3
<1>17. CallInv'
  <2>1. \A u \in Threads \ {t} : Freeing(u) => call[u].page \in slab'
      BY <1>6, BlockServed
  <2> QED
      BY <1>7, <2>1, IdleCall, CallsKept
<1>18. ASSUME NEW x \in Live PROVE BlockOk(x, slab') /\ (x.page \in slab' => x.page \in slab)
  <2>1. BlockOk(x, slab)
      BY BlockServed
  <2>2. x.page \in slab' <=> x.page \in slab
      BY <1>4, <1>6
  <2> QED
      BY <2>1, <2>2 DEF BlockOk
<1>19. BlockInv'
  <2>1. \A x \in Live' : BlockOk(x, slab')
      BY <1>7, <1>9, <1>18
  <2>2. \A x \in retired' : x.rcu
      BY <1>7, InvOfEach DEF IInv
  <2> QED
      BY <2>1, <2>2, InvOfEachNext
<1>20. \A x \in Live : Untouched(x)
  <2>1. ASSUME NEW x \in Live PROVE Untouched(x)
    <3>1. x.page \in Pages
        BY BlockServed, BlockNumbers
    <3>2. CASE x.page # p
        BY <1>10, <3>1, <3>2 DEF Untouched
    <3>3. CASE x.page = p
      <4>1. Holds(p, x.at, x.units, x.size)
          BY <3>3, BlockServed
      <4>2. PICK s : s = <<x.at, x.units>>
          OBVIOUS
      <4>3. s \in W /\ s[1] = x.at /\ s[2] = x.units
          BY <1>1, <4>1, <4>2, HoldersOf
      <4> QED
          BY <1>5, <1>10, <3>3, <4>3 DEF Untouched
    <3> QED
        BY <3>2, <3>3
  <2> QED
      BY <2>1
<1>21. OwnersDataIntact'
  <2>1. ASSUME NEW x \in held' PROVE HeldOk(x, mem'[x.page], slab')
    <3>1. CASE x = b
        BY <1>3, <1>9, <1>10, <3>1
    <3>2. CASE x # b
      <4>1. x \in held /\ x \in Live
          BY <1>7, <2>1, <3>2 DEF Live
      <4> QED
          BY <1>18, <1>20, <4>1, DataKept
    <3> QED
        BY <3>1, <3>2
  <2>2. ASSUME NEW x \in retired' PROVE RetiredOk(x, mem'[x.page])
    <3>1. x \in retired /\ x \in Live
        BY <1>7, <2>2 DEF Live
    <3> QED
        BY <1>18, <1>20, <3>1, DataKept
  <2> QED
      BY <2>1, <2>2, InvOfEachNext
<1>22. TypeOK'
  <2>1. \A u \in Threads : call'[u].pc \in Steps
      BY <1>17 DEF CallInv, Call
  <2>2. held' \subseteq Block /\ retired' \subseteq Block
    <3>1. b \in Block
        BY <1>9 DEF BlockOk
    <3> QED
        BY <1>2, <1>7, <3>1 DEF TypeOK
  <2>3. mem' \in [Pages -> [0..PageUnits - 1 -> Int]]
      BY <1>10 DEF Memory
  <2>4. slab' \subseteq Pages /\ slobFree' \subseteq slab' /\ frames' \subseteq Pages \ slab'
    <3>1. slab \subseteq Pages /\ slobFree \subseteq slab /\ frames \subseteq Pages \ slab
        BY <1>2 DEF TypeOK
    <3>2. slobFree' \subseteq slobFree \cup {p}
        BY <1>6
    <3> QED
        BY <1>4, <1>6, <1>7, <3>1, <3>2
  <2> QED
      BY <1>2, <1>6, <1>7, <1>11, <2>1, <2>2, <2>3, <2>4 DEF TypeOK
<1>23. SplitInv'
  <2>1. ASSUME NEW q \in InService' PROVE PageSplit(q)'
    <3>1. CASE q = p
        BY <1>5, <1>10, <1>11, <1>15, <3>1, SplitIsPageSplitNext
    <3>2. CASE q # p
      <4>1. q \in slab /\ PageSplit(q)
          BY <1>16, <3>2, BlockServed
      <4>2. q \in Pages
          BY <4>1, ListTypes
      <4> QED
          BY <1>10, <1>11, <1>15, <3>2, <4>1, <4>2, SplitKept
    <3> QED
        BY <3>1, <3>2
  <2> QED
      BY <2>1 DEF SplitInv
<1>24. ClassInv'
  <2>1. ASSUME NEW q \in slab'
        PROVE  /\ \A x, y \in SizesOn(q)' : ListFor(x) = ListFor(y)
               /\ \A l \in ListNames : q \in ToSet(lists'[l]) => \A x \in SizesOn(q)' : ListFor(x) = l
    <3>1. CASE q = p
        BY <1>6, <1>15, <3>1
    <3>2. CASE q # p
      <4>1. SizesOn(q)' = SizesOn(q)
          BY <1>15, <3>2, HoldersKept
      <4>2. q \in slab /\ q \in Pages
          BY <1>6, <3>2, ListTypes
      <4>3. /\ \A x, y \in SizesOn(q) : ListFor(x) = ListFor(y)
            /\ \A l \in ListNames : q \in ToSet(lists[l]) => \A x \in SizesOn(q) : ListFor(x) = l
          BY <4>2 DEF IInv, ClassInv
      <4> QED
          BY <1>6, <3>2, <4>1, <4>2, <4>3
    <3> QED
        BY <3>1, <3>2
  <2> QED
      BY <2>1 DEF ClassInv
<1>25. PagesListed'
  <2>1. /\ \A q \in Pages :
              LET on == {l \in ListNames : q \in ToSet(lists[l])} IN
              /\ q \in slobFree <=> on # {}
              /\ q \in InService => (on # {} <=> units[q] > 0)
              /\ \A x \in held \cup retired :
                    x.page = q /\ q \in slab => on \subseteq {ListFor(x.size)}
        /\ \A l, k \in ListNames : l # k => ToSet(lists[l]) \cap ToSet(lists[k]) = {}
      BY DEF IInv, PagesListed
  <2>2. ASSUME NEW q \in Pages
        PROVE  LET on == {l \in ListNames : q \in ToSet(lists'[l])} IN
               /\ q \in slobFree' <=> on # {}
               /\ q \in InService' => (on # {} <=> units'[q] > 0)
               /\ \A x \in held' \cup retired' :
                     x.page = q /\ q \in slab' => on \subseteq {ListFor(x.size)}
    <3> DEFINE on == {l \in ListNames : q \in ToSet(lists'[l])}
               was == {l \in ListNames : q \in ToSet(lists[l])}
    <3>1. /\ q \in slobFree <=> was # {}
          /\ q \in InService => (was # {} <=> units[q] > 0)
          /\ \A x \in held \cup retired : x.page = q /\ q \in slab => was \subseteq {ListFor(x.size)}
        BY <2>1
    <3>2. CASE q # p
      <4>1. on = was
          BY <1>6, <3>2
      <4> HIDE DEF on, was
      <4>2. q \in slobFree' <=> q \in slobFree
          BY <1>6, <3>2
      <4>3. \A x \in held' \cup retired' : x.page = q => x \in held \cup retired
          BY <1>3, <1>7, <3>2
      <4>4. /\ q \in slobFree' <=> on # {}
            /\ q \in InService' => (on # {} <=> units'[q] > 0)
          BY <1>11, <1>16, <3>1, <3>2, <4>1, <4>2
      <4>5. \A x \in held' \cup retired' : x.page = q /\ q \in slab' => on \subseteq {ListFor(x.size)}
          BY <1>6, <3>1, <3>2, <4>1, <4>3
      <4> QED
          BY <4>4, <4>5 DEF on
    <3>3. CASE q = p
      <4>1. on = IF u4 # 0 THEN {L} ELSE {}
          BY <1>6, <3>3, ListTypes
      <4> HIDE DEF on, was
      <4>2. /\ q \in slobFree' <=> on # {}
            /\ q \in InService' => (on # {} <=> units'[q] > 0)
          BY <1>5, <1>6, <1>11, <3>3, <4>1
      <4>3. ASSUME NEW x \in held' \cup retired', x.page = q PROVE on \subseteq {ListFor(x.size)}
        <5>1. Holds(p, x.at, x.units, x.size)'
          <6>1. x \in Live'
              BY <4>3 DEF Live
          <6> QED
              BY <3>3, <4>3, <6>1 DEF Holds
        <5>2. ListFor(x.size) = L
            BY <1>15, <5>1, HoldersOfNext
        <5> QED
            BY <4>1, <5>2
      <4> QED
          BY <4>2, <4>3 DEF on
    <3> QED
        BY <3>2, <3>3
  <2>3. ASSUME NEW l \in ListNames, NEW k \in ListNames, l # k
        PROVE  ToSet(lists'[l]) \cap ToSet(lists'[k]) = {}
    <3>1. ASSUME NEW q \in ToSet(lists'[l]), q \in ToSet(lists'[k]) PROVE FALSE
      <4>1. q \in Pages
        <5>1. lists'[l] \in Seq(slab') /\ slab' \subseteq Pages
            BY <1>6, ListTypes
        <5> QED
            BY <3>1, <5>1 DEF ToSet
      <4>2. CASE q = p
          BY <1>6, <2>3, <3>1, <4>1, <4>2
      <4>3. CASE q # p
          BY <1>6, <2>1, <2>3, <3>1, <4>1, <4>3
      <4> QED
          BY <4>2, <4>3
    <3> QED
        BY <3>1
  <2>4. \A l \in ListNames : IsInjective(lists'[l])
      BY <1>6
  <2> QED
      BY <2>2, <2>3, <2>4 DEF PagesListed
<1>26. OwnersInv'
  <2>1. b \notin Live
      BY <1>3, <1>13
  <2>2. held' \cap retired' = {}
      BY <1>7, <2>1 DEF IInv, OwnersInv, Live
  <2>3. ASSUME NEW x \in Live', NEW y \in Live', x.page = y.page, x.at = y.at PROVE x = y
    <3>1. CASE x \in Live /\ y \in Live
        BY <2>3, <3>1 DEF IInv, OwnersInv, Live
    <3>2. CASE x = b \/ y = b
        BY <1>3, <1>7, <1>13, <2>3, <3>2
    <3> QED
        BY <1>7, <3>1, <3>2
  <2>4. \A u \in Threads : Freeing(u)' => Freeing(u) /\ call'[u] = call[u]
      BY <1>8 DEF SameRole
  <2>5. \A u \in Threads : Freeing(u) =>
            /\ \A x \in Live : ~(x.page = call[u].page /\ x.at = call[u].at)
            /\ \A v \in Threads \ {u} :
                  ~(Freeing(v) /\ call[v].page = call[u].page /\ call[v].at = call[u].at)
      BY DEF IInv, OwnersInv, Live
  <2>6. \A u \in Threads : Freeing(u)' =>
            /\ \A x \in Live' : ~(x.page = call'[u].page /\ x.at = call'[u].at)
            /\ \A v \in Threads \ {u} :
                  ~(Freeing(v)' /\ call'[v].page = call'[u].page /\ call'[v].at = call'[u].at)
      BY <1>3, <1>7, <1>13, <2>4, <2>5
  <2> QED
      BY <2>2, <2>3, <2>6 DEF OwnersInv, Live
<1>27. PlacesInv'
  <2>1. /\ \A x \in Live : x.page \notin frames
        /\ \A u \in Threads : PlaceOk(u)
        /\ \A q \in Pages : UnusedOk(q)
      BY PlacesOfEach DEF IInv
  <2>2. \A x \in Live' : x.page \notin frames'
      BY <1>3, <1>4, <1>7, <2>1
  <2>3. ASSUME NEW u \in Threads PROVE PlaceOk(u)'
    <3>1. SUFFICES ASSUME Private(u)' \/ Releasing(u)' PROVE PlaceOk(u)'
        BY DEF PlaceOk
    <3>2. u # t /\ call'[u] = call[u] /\ SameRole(u) /\ (Private(u) \/ Releasing(u))
        BY <1>8, <3>1 DEF SameRole
    <3>3. call[u].page # p
        BY <1>4, <3>2
    <3>4. \A v \in Threads : Private(v)' \/ Releasing(v)' \/ Freeing(v)' =>
              call'[v] = call[v] /\ (Private(v) \/ Releasing(v) \/ Freeing(v))
        BY <1>8 DEF SameRole
    <3>5. \A x \in Live' : x \in Live \/ x.page = p
        BY <1>3, <1>7
    <3>6. call[u].page \notin slobFree => call[u].page \notin slobFree'
        BY <1>6, <3>3
    <3>7. /\ call[u].page \notin frames
          /\ \A x \in Live : x.page # call[u].page
          /\ \A v \in Threads \ {u} :
                (Private(v) \/ Releasing(v) \/ Freeing(v)) => call[v].page # call[u].page
          /\ Private(u) => call[u].page \notin slab
          /\ Releasing(u) => call[u].page \notin slobFree
        BY <2>1, <3>2 DEF PlaceOk
    <3>8. Private(u)' => call'[u].page \notin slab'
        BY <1>6, <3>2, <3>3, <3>7 DEF SameRole
    <3>9. Releasing(u)' => call'[u].page \notin slobFree'
        BY <3>2, <3>6, <3>7 DEF SameRole
    <3>10. \A x \in Live' : x.page # call'[u].page
        BY <3>2, <3>3, <3>5, <3>7
    <3>11. \A v \in Threads \ {u} :
               (Private(v)' \/ Releasing(v)' \/ Freeing(v)') => call'[v].page # call'[u].page
        BY <3>2, <3>4, <3>7
    <3> QED
        BY <1>7, <3>2, <3>7, <3>8, <3>9, <3>10, <3>11 DEF PlaceOk
  <2>4. ASSUME NEW q \in Pages PROVE UnusedOk(q)'
    <3>1. CASE q = p
        BY <1>6, <3>1 DEF UnusedOk
    <3>2. CASE q # p
      <4>1. \A u \in Threads : Releasing(u) => Releasing(u)' /\ call'[u] = call[u]
          BY <1>4, <1>8 DEF SameRole
      <4> QED
          BY <1>6, <1>7, <1>10, <2>1, <3>2, <4>1 DEF UnusedOk
    <3> QED
        BY <3>1, <3>2
  <2> QED
      BY <2>2, <2>3, <2>4, PlacesOfEach
<1> QED
    BY <1>17, <1>19, <1>21, <1>22, <1>23, <1>24, <1>25, <1>26, <1>27 DEF IInv

\* r is a block of n units that slob_page_alloc cuts out of the memory m, in which u units
\* are free and the spans W in use.
Cut(m, first, u, W, n, align, r) ==
    /\ m \in Memory /\ u \in Nat /\ u # 0 /\ u <= PageUnits
    /\ W \in SUBSET Spans /\ Split(m, first, u, W)
    /\ n \in Nat /\ 0 < n /\ align \in Nat /\ align % SLOB_UNIT = 0
    /\ r \in slob_page_alloc(m, first, n, align)

LEMMA CutOutcome ==
    ASSUME NEW m, NEW first, NEW u, NEW W, NEW n, NEW align, NEW r,
           Cut(m, first, u, W, n, align, r)
    PROVE  r.mem \in Memory /\ r.at \in Nat /\ r.at + n <= PageUnits
<1>1. PICK F, z : F = FreeIn(m, first, u) /\ z = SizesOf(m)
    OBVIOUS
<1>2. ListHeld(m, first, F, z)
    BY <1>1 DEF Cut, Split
<1>3. PICK G, y : Carved(m, F, z, r, n, G, y)
    BY <1>2, CarveHeld DEF Cut
<1> QED
    BY <1>3 DEF Carved

\* ... and b is that block with what its owner writes to it.
CutDone(m, u, W, n, r, b, m4) ==
    /\ SplitWith(m4, r.freelist, u - n, W \cup {<<b.at, b.units>>}, m, W)
    /\ \A s \in W : s[1] # b.at
    /\ Data(b, m4) /\ u - n < PageUnits /\ n <= u

LEMMA ServedCut ==
    ASSUME NEW m, NEW first, NEW u, NEW W, NEW n, NEW align, NEW r,
           Cut(m, first, u, W, n, align, r),
           NEW b, b.at = r.at, b.units = n, b.size \in Nat
    PROVE  CutDone(m, u, W, n, r, b, Filled(r.mem, b))
<1>1. r.mem \in Memory /\ r.at \in Nat /\ r.at + n <= PageUnits
    BY CutOutcome
<1>2. n \in Nat /\ 0 < n /\ u \in Nat /\ u <= PageUnits
    BY DEF Cut
<1>3. PICK m4 : m4 = Filled(r.mem, b)
    OBVIOUS
<1>4. /\ m4 \in Memory /\ Data(b, m4)
      /\ \A x \in AllUnits : x \notin Covers(r.at, n) => m4[x] = r.mem[x]
  <2>1. PICK k : k = r.mem
      OBVIOUS
  <2>2. /\ m4 \in Memory /\ Data(b, m4)
        /\ \A x \in AllUnits : x \notin Covers(b.at, b.units) => m4[x] = k[x]
      BY <1>1, <1>2, <1>3, <2>1, FilledFacts
  <2> QED
      BY <2>1, <2>2
<1>5. /\ SplitWith(m4, r.freelist, u - n, W \cup {<<r.at, n>>}, m, W)
      /\ n <= u
      /\ \A s \in W : \A x \in Covers(s[1], s[2]) : x \notin Covers(r.at, n)
  <2>1. /\ m \in Memory /\ u \in Nat /\ u # 0 /\ W \in SUBSET Spans /\ Split(m, first, u, W)
        /\ n \in Nat /\ 0 < n /\ align \in Nat /\ align % SLOB_UNIT = 0
        /\ r \in slob_page_alloc(m, first, n, align)
      BY DEF Cut
  <2>2. m4 \in Memory
      BY <1>4
  <2>3. \A x \in AllUnits : x \notin Covers(r.at, n) => m4[x] = r.mem[x]
      BY <1>4
  <2>4. CutMade(m4, r, u, n, W, m)
      BY <2>1, <2>2, <2>3, SplitCut
  <2> QED
      BY <2>4 DEF CutMade
<1>6. ASSUME NEW s \in W PROVE s[1] # r.at
  <2>1. s[1] \in Nat /\ s[2] \in Nat /\ 0 < s[2]
      BY DEF Cut, Spans
  <2>2. s[1] \in Covers(s[1], s[2]) /\ r.at \in Covers(r.at, n)
      BY <1>1, <1>2, <2>1 DEF Covers
  <2> QED
      BY <1>5, <2>2
<1>7. u - n < PageUnits
    BY <1>2, PageFacts
<1> QED
    BY <1>3, <1>4, <1>5, <1>6, <1>7 DEF CutDone

LEMMA SearchHitKeeps ==
    ASSUME IInv, NEW t \in Threads, SearchHit(t)
    PROVE  IInv'
<1>1. PICK c, n, L : c = call[t] /\ n = SLOB_UNITS(c.size) /\ L = ListFor(c.size)
    OBVIOUS
<1>2. PICK list, align : list = lists[L] /\ align = c.align
    OBVIOUS
<1>3. PICK s, p : s = Scan(list, n, align) /\ p = s.page
    OBVIOUS
<1>4. PICK m, first, u : m = mem[p] /\ first = freelist[p] /\ u = units[p]
    OBVIOUS
<1>5. PICK W : W = UsedSpans(p)
    OBVIOUS
<1>6. /\ c.pc = "search" /\ p # NoPage
      /\ \E r \in slob_page_alloc(m, first, n, align) : HandOut(t, p, r)
      /\ units' = [units EXCEPT ![p] = @ - n]
      /\ lists' = [lists EXCEPT ![L] = IF s.rotate THEN NextFit(@, WithoutFull(@, p), p)
                                       ELSE WithoutFull(@, p)]
      /\ slobFree' = IF units'[p] = 0 THEN slobFree \ {p} ELSE slobFree
      /\ total_free_mem' = FreeMemory'
      /\ UNCHANGED <<fit, slab, frames, retired, total_alloc_mem>>
    BY <1>1, <1>2, <1>3, <1>4 DEF SearchHit
<1>7. c \in Call /\ Asked(c)
  <2>1. CallOk(c, slab)
      BY <1>1, BlockServed
  <2> QED
      BY <1>6, <2>1 DEF CallOk
<1>8. /\ n \in Nat /\ 0 < n /\ align \in Nat /\ align % SLOB_UNIT = 0
    BY <1>1, <1>2, <1>7, AskedFacts
<1>9. L \in ListNames /\ list \in Seq(slab) /\ IsInjective(list) /\ slab \subseteq Pages
    BY <1>1, <1>2, ListTypes
<1>10. p \in ToSet(list)
  <2>1. list \in Seq(Pages)
      BY <1>9
  <2>2. \A q \in ToSet(list) : Walkable(q)
      BY <1>2, <1>9, PageOnList
  <2>3. Scan(list, n, align).page \in ToSet(list) \cup {NoPage}
      BY <1>8, <2>1, <2>2, ScanChooses
  <2> QED
      BY <1>3, <1>6, <2>3
<1>11. /\ p \in Pages /\ p \in slab /\ p \in slobFree /\ p \in InService
       /\ u \in Nat /\ 0 < u /\ u < PageUnits /\ PageSplit(p)
       /\ \A k \in ListNames : k # L => p \notin ToSet(lists[k])
    BY <1>2, <1>4, <1>9, <1>10, PageOnList
<1>12. m \in Memory /\ Split(m, first, u, W) /\ W \in SUBSET Spans
  <2>1. m \in Memory
      BY <1>4, <1>11 DEF IInv, TypeOK, Memory
  <2> QED
      BY <1>4, <1>5, <1>11, <2>1, SplitIsPageSplit, SpansInUse
<1>13. PICK r \in slob_page_alloc(m, first, n, align) : HandOut(t, p, r)
    BY <1>6
<1>14. PICK a, b : a = r.at /\ b = NewBlock(c, p, a, n)
    OBVIOUS
<1>15. PICK m4, first4, u4 : m4 = Filled(r.mem, b) /\ first4 = r.freelist /\ u4 = u - n
    OBVIOUS
<1>16. /\ SplitWith(m4, first4, u4, W \cup {<<b.at, b.units>>}, m, W)
       /\ \A x \in W : x[1] # b.at
       /\ Data(b, m4) /\ u4 < PageUnits /\ n <= u
       /\ a \in Nat /\ a + n <= PageUnits
  <2>1. Cut(m, first, u, W, n, align, r)
      BY <1>8, <1>11, <1>12, PageFacts DEF Cut
  <2>2. b.at = r.at /\ b.units = n /\ b.size \in Nat
      BY <1>7, <1>14 DEF NewBlock, Call
  <2>3. CutDone(m, u, W, n, r, b, Filled(r.mem, b))
      BY <2>1, <2>2, ServedCut
  <2>4. a \in Nat /\ a + n <= PageUnits
      BY <1>14, <2>1, CutOutcome
  <2> QED
      BY <1>15, <2>3, <2>4 DEF CutDone
<1>17. /\ mem' = [mem EXCEPT ![p] = m4] /\ freelist' = [freelist EXCEPT ![p] = first4]
       /\ held' = held \cup {b} /\ CallSet(t, Idle)
    BY <1>1, <1>13, <1>14, <1>15 DEF HandOut, CallSet
<1>18. units' = [units EXCEPT ![p] = u4] /\ units'[p] = u4
  <2>1. units \in [Pages -> 0..PageUnits - 1]
      BY DEF IInv, TypeOK
  <2> QED
      BY <1>4, <1>6, <1>11, <1>15, <2>1
<1>19. PICK new : new = WithoutFull(list, p)
    OBVIOUS
<1>20. PICK q : q = IF s.rotate THEN NextFit(list, new, p) ELSE new
    OBVIOUS
<1>21. q \in Seq(slab) /\ IsInjective(q) /\ ToSet(q) = IF u4 = 0 THEN ToSet(list) \ {p} ELSE ToSet(list)
  <2>1. new = IF u4 = 0 THEN Without(list, p) ELSE list
      BY <1>18, <1>19 DEF WithoutFull
  <2>2. /\ new \in Seq(slab) /\ IsInjective(new)
        /\ ToSet(new) = IF u4 = 0 THEN ToSet(list) \ {p} ELSE ToSet(list)
      BY <1>9, <2>1, WithoutMembers
  <2>3. /\ NextFit(list, new, p) \in Seq(slab) /\ IsInjective(NextFit(list, new, p))
        /\ ToSet(NextFit(list, new, p)) = ToSet(new)
      BY <1>9, <1>10, <2>1, NextFitMembers
  <2>4. q = NextFit(list, new, p) \/ q = new
      BY <1>20
  <2> QED
      BY <2>2, <2>3, <2>4
<1>22. lists' = [lists EXCEPT ![L] = q]
    BY <1>2, <1>6, <1>19, <1>20
<1>23. ServedLists(p, u4, L)
  <2>1. slab' = slab \cup {p}
      BY <1>6, <1>11
  <2>2. slobFree' = IF u4 = 0 THEN slobFree \ {p} ELSE slobFree \cup {p}
      BY <1>6, <1>11, <1>18
  <2>3. /\ DOMAIN lists' = ListNames /\ lists' = [l \in ListNames |-> lists'[l]]
        /\ lists'[L] = q /\ \A l \in ListNames : l # L => lists'[l] = lists[l]
      BY <1>9, <1>22, ListTypes
  <2>4. ASSUME NEW l \in ListNames
        PROVE  /\ lists'[l] \in Seq(slab') /\ IsInjective(lists'[l])
               /\ \A x : x \in ToSet(lists'[l]) <=> IF x = p THEN l = L /\ u4 # 0
                                                    ELSE x \in ToSet(lists[l])
    <3>1. CASE l = L
        BY <1>2, <1>6, <1>10, <1>21, <2>3, <3>1
    <3>2. CASE l # L
        BY <1>6, <1>11, <2>3, <3>2, ListTypes
    <3> QED
        BY <3>1, <3>2
  <2> QED
      BY <2>1, <2>2, <2>3, <2>4 DEF ServedLists
<1>24. ServedMemory(p, b, m4, first4, u4)
    BY <1>4, <1>5, <1>16, <1>17, <1>18 DEF ServedMemory
<1>25. Serving(t, p, L)
  <2>1. ~Freeing(t) /\ ~Releasing(t)
      BY <1>1, <1>6 DEF Freeing, Releasing
  <2>2. p \notin frames
      BY <1>11 DEF IInv, TypeOK
  <2>3. \A v \in Threads \ {t} : Private(v) \/ Releasing(v) => call[v].page # p
      BY <1>11 DEF IInv, PlacesInv
  <2>4. \A z \in SizesOn(p) : ListFor(z) = L
      BY <1>2, <1>9, <1>10, <1>11 DEF IInv, ClassInv
  <2> QED
      BY <1>11, <2>1, <2>2, <2>3, <2>4 DEF Serving
<1>26. total_free_mem' \in 0..WORD - 1
  <2>1. units' \in [Pages -> Int]
    <3>1. units \in [Pages -> 0..PageUnits - 1]
        BY DEF IInv, TypeOK
    <3>2. u4 \in Int /\ \A x \in 0..PageUnits - 1 : x \in Int
        BY <1>8, <1>11, <1>15, PageFacts
    <3>3. units \in [Pages -> Int]
        BY <3>1, <3>2
    <3> QED
        BY <1>18, <3>2, <3>3
  <2>2. \A l \in ListNames : lists'[l] \in Seq(Pages)
      BY <1>6, <1>9, <1>23 DEF ServedLists
  <2> QED
      BY <1>6, <2>1, <2>2, FreeMemoryFitsNext
<1>27. Served(t, p, b, m4, first4, u4, L)
    BY <1>6, <1>17, <1>23, <1>24, <1>25, <1>26 DEF Served
<1> QED
    BY <1>1, <1>7, <1>11, <1>14, <1>16, <1>27, ServedKeeps

\* BUG_ON(!b) never fires: a new page serves the request it was taken for.
LEMMA NewPageHasRoom ==
    ASSUME NEW m \in Memory, NEW blank, blank = set_slob(m, 0, PageUnits, PageUnits),
           NEW n \in Nat, 0 < n, n <= PageUnits, NEW align \in Nat, align % SLOB_UNIT = 0
    PROVE  slob_page_alloc(blank, 0, n, align) # {}
<1>1. PICK blocks : blocks = FreeBlocks(blank, 0)
    OBVIOUS
<1>2. Walk(blocks, blank, 0, {0})
  <2>1. ListHeld(blank, 0, {0}, [s \in {0} |-> PageUnits])
      BY SplitNew
  <2> QED
      BY <1>1, <2>1, Listing
<1>3. slob_units(blank, 0) = PageUnits /\ slob_next(blank, 0) = PageUnits
  <2>1. Written(m, blank, 0, PageUnits, PageUnits)
      BY PageFacts, SetSlob
  <2> QED
      BY <2>1, PageFacts, StoredRead DEF Written
<1>4. DOMAIN blocks = {1} /\ blocks[1] = 0
  <2>1. /\ blocks \in Seq({0}) /\ Len(blocks) \in Nat /\ 1 <= Len(blocks)
        /\ \A i \in 1..Len(blocks) - 1 : slob_next(blank, blocks[i]) = blocks[i + 1]
        /\ DOMAIN blocks = 1..Len(blocks)
      BY <1>2 DEF Walk
  <2>2. \A i \in 1..Len(blocks) : blocks[i] = 0
      BY <2>1
  <2>3. PICK k \in Nat : k = Len(blocks) /\ 1 <= k
      BY <2>1
  <2>4. ~(2 <= k)
    <3>1. ASSUME 2 <= k PROVE FALSE
      <4>1. 1 \in 1..k - 1 /\ 1 \in 1..k /\ 2 \in 1..k /\ 1 + 1 = 2
          BY <2>3, <3>1
      <4>2. slob_next(blank, blocks[1]) = blocks[2]
          BY <2>1, <2>3, <4>1
      <4>3. slob_next(blank, 0) = 0
          BY <2>2, <2>3, <4>1, <4>2
      <4>4. slob_next(blank, 0) = PageUnits
          BY <1>3
      <4> QED
          BY <4>3, <4>4, PageFacts
    <3> QED
        BY <3>1
  <2>5. k = 1
      BY <2>3, <2>4
  <2>6. DOMAIN blocks = 1..1 /\ 1 \in 1..1 /\ 1..1 = {1}
      BY <2>1, <2>3, <2>5
  <2>7. blocks[1] = 0
      BY <2>2, <2>3, <2>5, <2>6
  <2> QED
      BY <2>6, <2>7
<1>5. Fitting(blank, 0, n, align)
    BY <1>3, DeltaNatural DEF Fitting
<1>6. Candidates(blank, blocks, n, align) = {1}
    BY <1>4, <1>5 DEF Candidates
<1>7. Picks(blank, blocks, n, align, 1)
  <2>1. Delta(0, align) \in Int
      BY DeltaNatural
  <2>2. Waste(blank, blocks[1], n, align) \in Int
      BY <1>4, <1>3, <2>1, PageFacts DEF Waste
  <2>3. PICK w \in Int : w = Waste(blank, blocks[1], n, align)
      BY <2>2
  <2> QED
      BY <1>6, <2>3 DEF Picks
<1> QED
    BY <1>1, <1>4, <1>7 DEF slob_page_alloc

LEMMA AddPageKeeps ==
    ASSUME IInv, NEW t \in Threads, AddPage(t)
    PROVE  IInv'
<1>1. PICK c, n, L : c = call[t] /\ n = SLOB_UNITS(c.size) /\ L = ListFor(c.size)
    OBVIOUS
<1>2. PICK p, align : p = c.page /\ align = c.align
    OBVIOUS
<1>3. PICK m, blank : m = mem[p] /\ blank = set_slob(m, 0, PageUnits, PageUnits)
    OBVIOUS
<1>4. PICK outcomes : outcomes = slob_page_alloc(blank, 0, n, align)
    OBVIOUS
<1>5. Private(t) /\ c.pc = "add" /\ UNCHANGED <<fit, frames, retired, counters>>
    BY <1>1 DEF AddPage, Private
<1>6. c \in Call /\ Asked(c) /\ p \in Pages
  <2>1. CallOk(c, slab)
      BY <1>1, BlockServed
  <2> QED
      BY <1>2, <1>5, <2>1 DEF CallOk
<1>7. /\ n \in Nat /\ 0 < n /\ n <= PageUnits /\ align \in Nat /\ align % SLOB_UNIT = 0
    BY <1>1, <1>2, <1>6, AskedFacts
<1>8. /\ p \notin frames /\ p \notin slab /\ \A x \in Live : x.page # p
      /\ \A u \in Threads \ {t} : (Private(u) \/ Releasing(u) \/ Freeing(u)) => call[u].page # p
  <2>1. PlaceOk(t)
      BY PlacesOfEach DEF IInv
  <2> QED
      BY <1>1, <1>2, <1>5, <2>1 DEF PlaceOk
<1>9. ~Freeing(t) /\ ~Releasing(t)
    BY <1>1, <1>5 DEF Freeing, Releasing
<1>10. UsedSpans(p) = {} /\ SizesOn(p) = {}
  <2>1. \A a, k, z : ~Holds(p, a, k, z)
    <3>1. \A u \in Threads : Freeing(u) => call[u].page # p
        BY <1>8, <1>9
    <3> QED
        BY <1>8, <3>1 DEF Holds
  <2>2. \A s : s \notin UsedSpans(p)
      BY <2>1, HoldersOf
  <2>3. \A z : z \notin SizesOn(p)
      BY <2>1, HoldersOf
  <2> QED
      BY <2>2, <2>3
<1>11. m \in Memory
    BY <1>3, <1>6 DEF IInv, TypeOK, Memory
<1>12. blank \in Memory /\ Split(blank, 0, PageUnits, {})
    BY <1>3, <1>11, SplitNew
<1>13. outcomes # {}
    BY <1>3, <1>4, <1>7, <1>11, NewPageHasRoom
<1>14. /\ slab' = slab \cup {p}
       /\ units' = [units EXCEPT ![p] = PageUnits - n]
       /\ \E r \in outcomes : HandOut(t, p, r)
       /\ lists' = [lists EXCEPT ![L] = WithoutFull(<<p>> \o @, p)]
       /\ slobFree' = IF n = PageUnits THEN slobFree ELSE slobFree \cup {p}
  <2>1. outcomes = {} <=> FALSE
      BY <1>13
  <2> QED
      BY <1>1, <1>2, <1>3, <1>4, <2>1 DEF AddPage
<1>15. PICK r \in outcomes : HandOut(t, p, r)
    BY <1>14
<1>16. PICK a, b : a = r.at /\ b = NewBlock(c, p, a, n)
    OBVIOUS
<1>17. PICK m4, first4, u4 : m4 = Filled(r.mem, b) /\ first4 = r.freelist /\ u4 = PageUnits - n
    OBVIOUS
<1>18. /\ SplitWith(m4, first4, u4, {<<b.at, b.units>>}, m, {})
       /\ Data(b, m4) /\ u4 < PageUnits
       /\ a \in Nat /\ a + n <= PageUnits
  <2>1. PageUnits \in Nat /\ PageUnits # 0 /\ PageUnits <= PageUnits /\ {} \in SUBSET Spans
      BY PageFacts
  <2>2. Cut(blank, 0, PageUnits, {}, n, align, r)
      BY <1>4, <1>7, <1>12, <1>15, <2>1 DEF Cut
  <2>3. b.at = r.at /\ b.units = n /\ b.size \in Nat
      BY <1>6, <1>16 DEF NewBlock, Call
  <2>4. CutDone(blank, PageUnits, {}, n, r, b, Filled(r.mem, b))
      BY <2>2, <2>3, ServedCut
  <2>5. a \in Nat /\ a + n <= PageUnits
      BY <1>16, <2>2, CutOutcome
  <2>6. {} \cup {<<b.at, b.units>>} = {<<b.at, b.units>>}
      OBVIOUS
  <2>7. SplitWith(m4, first4, u4, {<<b.at, b.units>>}, blank, {}) /\ Data(b, m4) /\ u4 < PageUnits
      BY <1>17, <2>4, <2>6 DEF CutDone
  <2> QED
      BY <2>5, <2>7 DEF SplitWith
<1>19. /\ mem' = [mem EXCEPT ![p] = m4] /\ freelist' = [freelist EXCEPT ![p] = first4]
       /\ held' = held \cup {b} /\ CallSet(t, Idle)
    BY <1>1, <1>15, <1>16, <1>17 DEF HandOut, CallSet
<1>20. units' = [units EXCEPT ![p] = u4] /\ units'[p] = u4
  <2>1. units \in [Pages -> 0..PageUnits - 1]
      BY DEF IInv, TypeOK
  <2> QED
      BY <1>6, <1>14, <1>17, <2>1
<1>21. u4 = 0 <=> n = PageUnits
    BY <1>7, <1>17, PageFacts
<1>22. ServedMemory(p, b, m4, first4, u4)
  <2>1. UsedSpans(p) \cup {<<b.at, b.units>>} = {<<b.at, b.units>>}
      BY <1>10
  <2> QED
      BY <1>3, <1>10, <1>18, <1>19, <1>20, <2>1 DEF ServedMemory
<1>23. L \in ListNames /\ \A l \in ListNames : p \notin ToSet(lists[l])
  <2>1. p \notin slobFree
      BY <1>8, ListTypes
  <2> QED
      BY <1>1, <1>6, <2>1, ListTypes, OffLists
<1>24. PICK S, list : S = slab' /\ list = lists[L]
    OBVIOUS
<1>25. PICK grown : grown = Cons(p, list)
    OBVIOUS
<1>26. PICK q : q = IF u4 = 0 THEN Without(grown, p) ELSE grown
    OBVIOUS
<1>27. \A l \in ListNames : lists[l] \in Seq(S)
  <2>1. \A l \in ListNames : lists[l] \in Seq(slab)
      BY ListTypes
  <2>2. slab \subseteq S
      BY <1>14, <1>24
  <2> QED
      BY <2>1, <2>2
<1>28. /\ q \in Seq(S) /\ IsInjective(q)
       /\ ToSet(q) = IF u4 = 0 THEN ToSet(list) ELSE ToSet(list) \cup {p}
  <2>1. list \in Seq(S) /\ p \in S /\ IsInjective(list) /\ p \notin ToSet(list)
      BY <1>14, <1>23, <1>24, <1>27, ListTypes
  <2>2. Prepended(S, list, p, grown)
      BY <1>25, <2>1, PrependMembers
  <2>3. grown \in Seq(S) /\ IsInjective(grown) /\ ToSet(grown) = ToSet(list) \cup {p}
      BY <2>1, <2>2 DEF Prepended
  <2>4. /\ Without(grown, p) \in Seq(S) /\ IsInjective(Without(grown, p))
        /\ ToSet(Without(grown, p)) = ToSet(grown) \ {p}
      BY <2>3, WithoutMembers
  <2> QED
      BY <1>26, <2>1, <2>3, <2>4
<1>29. lists' = [lists EXCEPT ![L] = q]
  <2>1. WithoutFull(<<p>> \o list, p) = q
      BY <1>20, <1>25, <1>26 DEF WithoutFull, Cons
  <2> QED
      BY <1>14, <1>24, <2>1
<1>30. ServedLists(p, u4, L)
  <2>1. slobFree' = IF u4 = 0 THEN slobFree \ {p} ELSE slobFree \cup {p}
      BY <1>8, <1>14, <1>21, ListTypes
  <2>2. /\ DOMAIN lists' = ListNames /\ lists' = [l \in ListNames |-> lists'[l]]
        /\ lists'[L] = q /\ \A l \in ListNames : l # L => lists'[l] = lists[l]
      BY <1>23, <1>29, ListTypes
  <2>3. ASSUME NEW l \in ListNames
        PROVE  /\ lists'[l] \in Seq(slab') /\ IsInjective(lists'[l])
               /\ \A x : x \in ToSet(lists'[l]) <=> IF x = p THEN l = L /\ u4 # 0
                                                    ELSE x \in ToSet(lists[l])
    <3>1. CASE l = L
        BY <1>23, <1>24, <1>28, <2>2, <3>1
    <3>2. CASE l # L
        BY <1>23, <1>24, <1>27, <2>2, <3>2, ListTypes
    <3> QED
        BY <3>1, <3>2
  <2> QED
      BY <1>14, <2>1, <2>2, <2>3 DEF ServedLists
<1>31. Serving(t, p, L)
    BY <1>8, <1>9, <1>10 DEF Serving
<1>32. Served(t, p, b, m4, first4, u4, L)
  <2>1. total_free_mem' \in 0..WORD - 1 /\ total_alloc_mem' = total_alloc_mem
      BY <1>5, Counters DEF counters
  <2> QED
      BY <1>5, <1>19, <1>22, <1>30, <1>31, <2>1 DEF Served
<1> QED
    BY <1>1, <1>6, <1>16, <1>18, <1>32, ServedKeeps

-----------------------------------------------------------------------------
(* The invariant holds *)

LEMMA InitIInv ==
    ASSUME Init
    PROVE  IInv
<1>1. /\ mem = [p \in Pages |-> [x \in 0..PageUnits - 1 |-> 0]]
      /\ units = [p \in Pages |-> 0] /\ freelist = [p \in Pages |-> 0]
      /\ slab = {} /\ slobFree = {} /\ frames = Pages /\ fit \in Fits
      /\ lists = [l \in ListNames |-> <<>>]
      /\ held = {} /\ retired = {} /\ total_alloc_mem = 0 /\ total_free_mem = 0
    BY DEF Init
<1>2. \A t \in Threads : call[t] = Idle
    BY DEF Init
<1>3. InService = {}
    BY <1>1 DEF InService
<1>4. CallInv
  <2>1. \A t \in Threads : CallOk(call[t], slab)
      BY <1>2, IdleCall
  <2>2. DOMAIN call = Threads /\ call = [t \in Threads |-> call[t]]
      BY DEF Init
  <2> QED
      BY <2>1, <2>2, InvOfEach
<1>5. \A t \in Threads : ~Freeing(t) /\ ~Private(t) /\ ~Releasing(t)
    BY <1>2, IdleCall DEF Freeing, Private, Releasing
<1>6. TypeOK
  <2>1. mem \in [Pages -> [0..PageUnits - 1 -> Int]]
      BY <1>1
  <2>2. units \in [Pages -> 0..PageUnits - 1] /\ freelist \in [Pages -> 0..PageUnits]
      BY <1>1, PageFacts
  <2>3. lists \in [ListNames -> Seq(slab)]
      BY <1>1
  <2>4. \A t \in Threads : call[t].pc \in Steps
      BY <1>2, IdleCall DEF Steps
  <2>5. total_alloc_mem \in 0..WORD - 1 /\ total_free_mem \in 0..WORD - 1
      BY <1>1, CounterAssumption
  <2> QED
      BY <1>1, <2>1, <2>2, <2>3, <2>4, <2>5 DEF TypeOK
<1>7. BlockInv /\ OwnersDataIntact
    BY <1>1 DEF BlockInv, OwnersDataIntact
<1>8. OwnersInv
    BY <1>1, <1>5 DEF OwnersInv
<1>9. PlacesInv
    BY <1>1, <1>5 DEF PlacesInv, Blank
<1>10. SplitInv /\ ClassInv
    BY <1>1, <1>3 DEF SplitInv, ClassInv
<1>11. PagesListed
  <2>1. \A l \in ListNames : ToSet(lists[l]) = {} /\ lists[l] = <<>>
      BY <1>1 DEF ToSet
  <2>2. \A l \in ListNames : IsInjective(lists[l])
      BY <2>1 DEF IsInjective
  <2> QED
      BY <1>1, <1>3, <2>1, <2>2 DEF PagesListed
<1> QED
    BY <1>4, <1>6, <1>7, <1>8, <1>9, <1>10, <1>11 DEF IInv

LEMMA StutterIInv ==
    ASSUME IInv, UNCHANGED vars
    PROVE  IInv'
<1>1. /\ fit' = fit /\ mem' = mem /\ units' = units /\ freelist' = freelist /\ slab' = slab
      /\ slobFree' = slobFree /\ lists' = lists /\ frames' = frames /\ call' = call
      /\ held' = held /\ retired' = retired
      /\ total_alloc_mem' = total_alloc_mem /\ total_free_mem' = total_free_mem
    BY DEF vars, page, users, counters
<1>2. SameRoles
    BY <1>1 DEF SameRoles, SameRole, Freeing, Private, Releasing
<1>3. InService' = InService
    BY <1>1, <1>2, SameInService
<1>4. \A p : SameHolders(p)
    BY <1>1, <1>2, SameUsers
<1>5. TypeOK' /\ CallInv' /\ BlockInv'
    BY <1>1 DEF IInv, TypeOK, CallInv, BlockInv
<1>6. OwnersInv' /\ PlacesInv'
    BY <1>1 DEF IInv, OwnersInv, PlacesInv, Freeing, Private, Releasing
<1>7. SplitInv'
    BY <1>1, <1>3, <1>4, SplitKept DEF IInv, SplitInv
<1>8. ClassInv'
  <2>1. \A p : SizesOn(p)' = SizesOn(p)
      BY <1>4, HoldersKept
  <2> QED
      BY <1>1, <2>1 DEF IInv, ClassInv
<1>9. PagesListed' /\ OwnersDataIntact'
    BY <1>1, <1>3 DEF IInv, PagesListed, OwnersDataIntact, ksize, Footer
<1> QED
    BY <1>5, <1>6, <1>7, <1>8, <1>9 DEF IInv

LEMMA AllocIInv ==
    ASSUME IInv, NEW t \in Threads, Alloc(t)
    PROVE  IInv'
<1>1. CASE \E size \in Sizes : KmallocSmall(t, size) \/ KmallocLarge(t, size)
    BY <1>1, KmallocSmallKeeps, KmallocLargeKeeps
<1>2. CASE \E c \in Caches : CacheAlloc(t, c) \/ CacheAllocPage(t, c)
    BY <1>2, CacheAllocKeeps, CacheAllocPageKeeps
<1>3. CASE SearchHit(t)
    BY <1>3, SearchHitKeeps
<1>4. CASE SearchMiss(t)
    BY <1>4, SearchMissKeeps
<1>5. CASE NewPage(t)
    BY <1>5, NewPageKeeps
<1>6. CASE NoMemory(t)
    BY <1>6, NoMemoryKeeps
<1>7. CASE Count(t)
    BY <1>7, CountSmallKeeps, CountLargeKeeps
<1>8. CASE AddPage(t)
    BY <1>8, AddPageKeeps
<1> QED
    BY <1>1, <1>2, <1>3, <1>4, <1>5, <1>6, <1>7, <1>8 DEF Alloc

LEMMA DeallocIInv ==
    ASSUME IInv, NEW t \in Threads, Dealloc(t)
    PROVE  IInv'
<1>1. CASE \E b \in held : Kfree(t, b) \/ KfreeLarge(t, b) \/ CacheFree(t, b) \/ CacheFreeRcu(t, b)
    BY <1>1, KfreeKeeps, KfreeLargeKeeps, CacheFreeKeeps, CacheFreeRcuKeeps
<1>2. CASE \E b \in retired : RcuFree(t, b)
    BY <1>2, RcuFreeKeeps
<1>3. CASE FreeLast(t)
    BY <1>3, FreeLastKeeps
<1>4. CASE FreeFirst(t)
    BY <1>4, FreeFirstKeeps
<1>5. CASE FreeMore(t)
    BY <1>5, FreeMoreKeeps
<1>6. CASE Release(t)
    BY <1>6, ReleaseKeeps
<1>7. CASE Uncount(t)
    BY <1>7, UncountKeeps
<1> QED
    BY <1>1, <1>2, <1>3, <1>4, <1>5, <1>6, <1>7 DEF Dealloc

\* The invariant that all of the following theorems rest on: pages, lists, blocks
\* and calls agree about what is free, what is in use, and by whom.
THEOREM SpecIInv == Spec => []IInv
<1>1. Init => IInv
    BY InitIInv
<1>2. IInv /\ [Next]_vars => IInv'
    BY StutterIInv, AllocIInv, DeallocIInv DEF Next
<1> QED
    BY <1>1, <1>2, PTL DEF Spec

\* The types of Slob's variables; a slab page never has all of its units free
\* (slob_free hands such a page back).
THEOREM Types == Spec => []TypeOK
<1>1. IInv => TypeOK
    BY DEF IInv
<1> QED
    BY <1>1, SpecIInv, PTL

\* slob_alloc and slob_free keep a page on one of the three lists, the one for the
\* sizes of its blocks, exactly while some of its units are free and some are not.
THEOREM Lists == Spec => []PagesListed
<1>1. IInv => PagesListed
    BY DEF IInv
<1> QED
    BY <1>1, SpecIInv, PTL

\* slob_alloc's BUG_ON(!b) never bites: a page that was just added has room for the
\* request it was added for, whatever its size and alignment.
THEOREM NewPages == Spec => []NewPageServes
<1>1. IInv => NewPageServes
    BY DEF IInv, CallInv, NewPageServes
<1> QED
    BY <1>1, SpecIInv, PTL

\* No list operation of slob_alloc and slob_free, and no footer of another object,
\* writes to a block in use; an object RCU readers may see keeps its data.
THEOREM DataIntact == Spec => []OwnersDataIntact
<1>1. IInv => OwnersDataIntact
    BY DEF IInv
<1> QED
    BY <1>1, SpecIInv, PTL

-----------------------------------------------------------------------------
(* Every unit of a page is free or in use *)

\* The spans of a page's free blocks, as a set and in the order of the walk.
LEMMA SpansOfFree ==
    ASSUME IInv, NEW p \in InService,
           NEW F, F = FreeOn(p), NEW z, z = SizesOf(mem[p]), NEW free, free = FreeSpans(p)
    PROVE  /\ \A x : x \in ToSet(free) <=> \E s \in F : x = <<s, z[s]>>
           /\ \A s \in F : s \in Nat /\ z[s] \in Nat
           /\ \A s, t \in F : s < t => s + z[s] < t
           /\ \A i \in 1..Len(free) - 1 : free[i][1] + free[i][2] < free[i + 1][1]
<1>1. PICK m, first, u : m = mem[p] /\ first = freelist[p] /\ u = units[p]
    OBVIOUS
<1>2. PageSplit(p)
    BY BlockServed
<1>3. CASE u = 0
  <2>1. F = {} /\ free = <<>>
      BY <1>1, <1>3 DEF FreeOn, FreeSpans
  <2>2. ToSet(free) = {} /\ Len(free) = 0
      BY <2>1 DEF ToSet
  <2> QED
      BY <2>1, <2>2
<1>4. CASE u # 0
  <2>1. ListHeld(m, first, F, z) /\ F = ToSet(FreeBlocks(m, first))
      BY <1>1, <1>2, <1>4 DEF PageSplit, FreeOn
  <2>2. PICK blocks : blocks = FreeBlocks(m, first)
      OBVIOUS
  <2>3. Walk(blocks, m, first, F)
      BY <2>1, <2>2, Listing
  <2>4. /\ blocks \in Seq(F) /\ ToSet(blocks) = F
        /\ \A i \in 1..Len(blocks) - 1 : slob_next(m, blocks[i]) = blocks[i + 1]
      BY <2>3 DEF Walk
  <2>5. PICK n \in Nat : n = Len(blocks)
      BY <2>4
  <2>6. DOMAIN blocks = 1..n /\ \A i \in 1..n : blocks[i] \in F
      BY <2>4, <2>5
  <2>7. \A s \in F : slob_units(m, s) = z[s] /\ Follows(F, s, slob_next(m, s))
      BY <2>1, Reads
  <2>8. free = [i \in 1..n |-> <<blocks[i], slob_units(m, blocks[i])>>]
      BY <1>1, <1>4, <2>2, <2>6 DEF FreeSpans
  <2>9. Len(free) = n /\ DOMAIN free = 1..n /\ \A i \in 1..n : free[i] = <<blocks[i], z[blocks[i]]>>
      BY <2>6, <2>7, <2>8
  <2>10. /\ \A s \in F : s \in Nat /\ z[s] \in Nat
         /\ \A s, t \in F : s < t => s + z[s] < t
      BY <2>1, ListNumbers
  <2>11. ASSUME NEW x PROVE x \in ToSet(free) <=> \E s \in F : x = <<s, z[s]>>
    <3>1. x \in ToSet(free) <=> \E i \in 1..n : x = <<blocks[i], z[blocks[i]]>>
      <4>1. ToSet(free) = {free[i] : i \in 1..n}
          BY <2>9 DEF ToSet
      <4>2. x \in ToSet(free) <=> \E i \in 1..n : x = free[i]
          BY <4>1
      <4> QED
          BY <2>9, <4>2
    <3>2. \A s : s \in F <=> \E i \in 1..n : s = blocks[i]
        BY <2>4, <2>6 DEF ToSet
    <3> QED
        BY <3>1, <3>2
  <2>12. ASSUME NEW i \in 1..Len(free) - 1 PROVE free[i][1] + free[i][2] < free[i + 1][1]
    <3>1. i \in 1..n /\ i + 1 \in 1..n /\ i \in 1..Len(blocks) - 1
        BY <2>5, <2>9
    <3>2. PICK s \in F, t \in F : s = blocks[i] /\ t = blocks[i + 1]
        BY <2>6, <3>1
    <3>3. s < t
        BY <2>4, <2>7, <3>1, <3>2 DEF Follows
    <3>4. free[i][1] = s /\ free[i][2] = z[s] /\ free[i + 1][1] = t
        BY <2>9, <3>1, <3>2
    <3> QED
        BY <2>10, <3>3, <3>4
  <2> QED
      BY <2>10, <2>11, <2>12
<1> QED
    BY <1>3, <1>4

LEMMA UnitsAccounted ==
    ASSUME IInv
    PROVE  FreeBlocksExact
<1> SUFFICES ASSUME NEW p \in InService
             PROVE  LET free == FreeSpans(p)
                        spans == ToSet(free) \cup UsedSpans(p)
                    IN  /\ UNION {Covers(s[1], s[2]) : s \in spans} = 0..PageUnits - 1
                        /\ \A s, r \in spans : s # r => Covers(s[1], s[2]) \cap Covers(r[1], r[2]) = {}
                        /\ Cardinality(UNION {Covers(s[1], s[2]) : s \in ToSet(free)}) = units[p]
                        /\ \A i \in 1..Len(free) - 1 : free[i][1] + free[i][2] < free[i + 1][1]
    BY DEF FreeBlocksExact
<1>1. PICK F, z, free : F = FreeOn(p) /\ z = SizesOf(mem[p]) /\ free = FreeSpans(p)
    OBVIOUS
<1>2. PICK E, W, U : E = ToSet(free) /\ W = UsedSpans(p) /\ U = FreeUnits(p)
    OBVIOUS
<1>3. PageSplit(p) /\ p \in slab
    BY BlockServed
<1>4. /\ \A x : x \in E <=> \E s \in F : x = <<s, z[s]>>
      /\ \A s \in F : s \in Nat /\ z[s] \in Nat
      /\ \A s, t \in F : s < t => s + z[s] < t
      /\ \A i \in 1..Len(free) - 1 : free[i][1] + free[i][2] < free[i + 1][1]
    BY <1>1, <1>2, SpansOfFree
<1>5. \A x : x \in U <=> \E s \in F : x \in Covers(s, z[s])
    BY <1>1, <1>2, InUnits DEF FreeUnits
<1>6. \A x : x \in U <=> \E s \in E : x \in Covers(s[1], s[2])
  <2>1. ASSUME NEW x \in U PROVE \E s \in E : x \in Covers(s[1], s[2])
    <3>1. PICK s \in F : x \in Covers(s, z[s])
        BY <1>5
    <3>2. PICK e \in E : e = <<s, z[s]>>
        BY <1>4
    <3> QED
        BY <3>1, <3>2
  <2>2. ASSUME NEW s \in E, NEW x \in Covers(s[1], s[2]) PROVE x \in U
    <3>1. PICK f \in F : s = <<f, z[f]>>
        BY <1>4
    <3> QED
        BY <1>5, <2>2, <3>1
  <2> QED
      BY <2>1, <2>2
<1>7. UNION {Covers(s[1], s[2]) : s \in E} = U
    BY <1>6
<1>8. Cardinality(U) = units[p] /\ U \in SUBSET AllUnits
  <2>1. units[p] \in Nat
    <3>1. slab \subseteq Pages /\ units \in [Pages -> 0..PageUnits - 1]
        BY DEF IInv, TypeOK
    <3> QED
        BY <1>3, <3>1, PageFacts
  <2>2. U = Free(mem[p], freelist[p], units[p])
      BY <1>2 DEF FreeUnits, FreeOn, Free, FreeIn
  <2>3. Split(mem[p], freelist[p], units[p], W)
      BY <1>2, <1>3, SplitIsPageSplit
  <2> QED
      BY <2>1, <2>2, <2>3, SplitFree
<1>9. W \in SUBSET Spans
    BY <1>2, <1>3, SpansInUse
<1>10. /\ \A s \in W : Covers(s[1], s[2]) \cap U = {}
       /\ \A s, r \in W : s # r => Covers(s[1], s[2]) \cap Covers(r[1], r[2]) = {}
       /\ \A x \in 0..PageUnits - 1 : x \in U \/ \E s \in W : x \in Covers(s[1], s[2])
    BY <1>2, <1>3 DEF PageSplit
<1>11. UNION {Covers(s[1], s[2]) : s \in E \cup W} = 0..PageUnits - 1
  <2>1. ASSUME NEW s \in E \cup W, NEW x \in Covers(s[1], s[2]) PROVE x \in 0..PageUnits - 1
    <3>1. CASE s \in E
        BY <1>6, <1>8, <2>1, <3>1 DEF AllUnits
    <3>2. CASE s \in W
      <4>1. s[1] \in Nat /\ s[2] \in Nat /\ s[1] + s[2] <= PageUnits
          BY <1>9, <3>2 DEF Spans
      <4> QED
          BY <2>1, <4>1, PageFacts DEF Covers
    <3> QED
        BY <3>1, <3>2
  <2>2. ASSUME NEW x \in 0..PageUnits - 1 PROVE \E s \in E \cup W : x \in Covers(s[1], s[2])
      BY <1>6, <1>10
  <2> QED
      BY <2>1, <2>2
<1>12. ASSUME NEW s \in E \cup W, NEW r \in E \cup W, s # r
       PROVE  Covers(s[1], s[2]) \cap Covers(r[1], r[2]) = {}
  <2>1. \A e \in E : \A x \in Covers(e[1], e[2]) : x \in U
      BY <1>6
  <2>2. CASE s \in E /\ r \in E
    <3>1. PICK f \in F, g \in F : s = <<f, z[f]>> /\ r = <<g, z[g]>>
        BY <1>4, <2>2
    <3>2. f # g
        BY <1>12, <3>1
    <3>3. f \in Nat /\ z[f] \in Nat /\ g \in Nat /\ z[g] \in Nat
        BY <1>4
    <3>4. f + z[f] < g \/ g + z[g] < f
        BY <1>4, <3>2, <3>3
    <3>5. Covers(f, z[f]) \cap Covers(g, z[g]) = {}
        BY <3>3, <3>4 DEF Covers
    <3> QED
        BY <3>1, <3>5
  <2>3. CASE s \in E /\ r \in W
      BY <1>10, <2>1, <2>3
  <2>4. CASE s \in W /\ r \in E
      BY <1>10, <2>1, <2>4
  <2>5. CASE s \in W /\ r \in W
      BY <1>10, <1>12, <2>5
  <2> QED
      BY <2>2, <2>3, <2>4, <2>5
<1> QED
    BY <1>1, <1>2, <1>4, <1>7, <1>8, <1>11, <1>12

\* Whatever the order of cuts and reinsertions, every unit of a page is in one free
\* block or one block in use; free blocks are coalesced, and page->units is their sum.
THEOREM FreeAndUsed == Spec => []FreeBlocksExact
<1>1. IInv => FreeBlocksExact
    BY UnitsAccounted
<1> QED
    BY <1>1, SpecIInv, PTL

-----------------------------------------------------------------------------
(* The refinement *)

SpansOf(S) == {Span(b) : b \in S}

\* Two blocks have no unit in common, whoever holds them, and lie in their pages.
Apart ==
    /\ \A b, c \in Live : b # c => ~Users!Overlap(Span(b), Span(c))
    /\ \A b \in Live : /\ Span(b) \in Users!Block /\ b.at + b.units <= PageUnits
                       /\ Users!Overlap(Span(b), Span(b))
    /\ \A b \in held : b \notin retired

LEMMA BlocksApartInv == IInv => Apart
<1> SUFFICES ASSUME IInv PROVE Apart
    OBVIOUS
<1>1. ASSUME NEW b \in Live, NEW c \in Live, b # c
      PROVE  ~Users!Overlap(Span(b), Span(c))
  <2>1. CASE b.page # c.page
      BY <2>1 DEF Users!Overlap, Span
  <2>2. CASE b.page = c.page
    <3>1. b.page \in slab
        BY <1>1, <2>2, BlockAlone
    <3>2. PICK p \in InService : p = b.page
        BY <3>1, BlockServed
    <3>3. PICK i, n, z : i = b.at /\ n = b.units /\ z = b.size
        OBVIOUS
    <3>4. PICK j, k, y : j = c.at /\ k = c.units /\ y = c.size
        OBVIOUS
    <3>5. Holds(p, i, n, z) /\ Holds(p, j, k, y)
        BY <2>2, <3>2, <3>3, <3>4, BlockServed
    <3>6. i # j
        BY <1>1, <2>2, <3>3, <3>4 DEF IInv, OwnersInv, Live
    <3>7. \A x \in Covers(i, n) : x \notin Covers(j, k)
        BY <3>5, <3>6, HoldersApart
    <3>8. i \in Nat /\ n \in Nat /\ j \in Nat /\ k \in Nat
        BY <3>3, <3>4, BlockServed, BlockNumbers
    <3>9. ~(i < j + k /\ j < i + n)
      <4>1. (i \in Covers(i, n) /\ i \in Covers(j, k)) \/ ~(j <= i /\ i < j + k /\ j < i + n /\ 0 < n)
          BY <3>8 DEF Covers
      <4>2. (j \in Covers(i, n) /\ j \in Covers(j, k)) \/ ~(i <= j /\ j < i + n /\ 0 < k)
          BY <3>8 DEF Covers
      <4>3. 0 < n /\ 0 < k
          BY <3>3, <3>4, BlockServed, BlockNumbers
      <4> QED
          BY <3>7, <3>8, <4>1, <4>2, <4>3
    <3> QED
        BY <3>3, <3>4, <3>9 DEF Users!Overlap, Span
  <2> QED
      BY <2>1, <2>2
<1>2. ASSUME NEW b \in Live
      PROVE  /\ Span(b) \in Users!Block /\ b.at + b.units <= PageUnits
             /\ Users!Overlap(Span(b), Span(b))
  <2>1. BlockOk(b, slab)
      BY BlockServed
  <2>2. /\ b.page \in Pages /\ b.at \in Nat /\ b.units \in Nat /\ 0 < b.units
        /\ b.at + b.units <= PageUnits
      BY <2>1, BlockNumbers
  <2>3. b.at \in 0..PageUnits - 1 /\ b.units \in 1..PageUnits
      BY <2>2, PageFacts
  <2>4. Span(b) \in Users!Block
      BY <2>2, <2>3 DEF Span, Users!Block
  <2>5. Users!Overlap(Span(b), Span(b))
      BY <2>2 DEF Span, Users!Overlap
  <2> QED
      BY <2>2, <2>4, <2>5
<1>3. \A b \in held : b \notin retired
    BY DEF IInv, OwnersInv
<1> QED
    BY <1>1, <1>2, <1>3 DEF Apart

\* What a step does to the blocks in use.
Gives(b) == held' = held \cup {b} /\ retired' = retired
Takes(b) == b \in held /\ held' = held \ {b} /\ retired' = retired
Defers(b) == b \in held /\ held' = held \ {b} /\ retired' = retired \cup {b}
Ends(b) == b \in retired /\ retired' = retired \ {b} /\ held' = held

LEMMA UserSteps ==
    ASSUME [Next]_vars
    PROVE  \/ held' = held /\ retired' = retired
           \/ \E b : Gives(b) \/ Takes(b) \/ Defers(b) \/ Ends(b)
<1>1. CASE UNCHANGED vars
    BY <1>1 DEF vars, users
<1>2. ASSUME NEW t \in Threads, Alloc(t)
      PROVE  (held' = held /\ retired' = retired) \/ \E b : Gives(b)
  <2>1. CASE SearchHit(t) \/ AddPage(t)
      BY <2>1 DEF SearchHit, AddPage, HandOut, Gives
  <2>2. CASE Count(t)
      BY <2>2 DEF Count, Gives
  <2>3. CASE NewPage(t) \/ NoMemory(t) \/ SearchMiss(t)
      BY <2>3 DEF NewPage, NoMemory, SearchMiss, users
  <2>4. CASE \E size \in Sizes : KmallocSmall(t, size) \/ KmallocLarge(t, size)
      BY <2>4 DEF KmallocSmall, KmallocLarge, users
  <2>5. CASE \E c \in Caches : CacheAlloc(t, c) \/ CacheAllocPage(t, c)
      BY <2>5 DEF CacheAlloc, CacheAllocPage, users
  <2> QED
      BY <1>2, <2>1, <2>2, <2>3, <2>4, <2>5 DEF Alloc
<1>3. ASSUME NEW t \in Threads, Dealloc(t)
      PROVE  (held' = held /\ retired' = retired) \/ \E b : Takes(b) \/ Defers(b) \/ Ends(b)
  <2>1. CASE \E b \in held : Kfree(t, b) \/ KfreeLarge(t, b) \/ CacheFree(t, b)
    <3>1. PICK b \in held : Kfree(t, b) \/ KfreeLarge(t, b) \/ CacheFree(t, b)
        BY <2>1
    <3>2. Takes(b)
        BY <3>1 DEF Kfree, KfreeLarge, CacheFree, Takes
    <3> QED
        BY <3>2
  <2>2. CASE \E b \in held : CacheFreeRcu(t, b)
      BY <2>2 DEF CacheFreeRcu, Defers
  <2>3. CASE \E b \in retired : RcuFree(t, b)
      BY <2>3 DEF RcuFree, Ends
  <2>4. CASE FreeLast(t) \/ FreeFirst(t) \/ FreeMore(t) \/ Release(t) \/ Uncount(t)
      BY <2>4 DEF FreeLast, FreeFirst, FreeMore, Release, Uncount, users
  <2> QED
      BY <1>3, <2>1, <2>2, <2>3, <2>4 DEF Dealloc
<1> QED
    BY <1>1, <1>2, <1>3 DEF Next

\* The spans of a set of blocks that are apart.
LEMMA SpansLess ==
    ASSUME Apart, NEW S \in SUBSET Live, NEW b \in S
    PROVE  SpansOf(S \ {b}) = SpansOf(S) \ {Span(b)}
<1>1. ASSUME NEW c \in S, c # b PROVE Span(c) # Span(b)
    BY <1>1 DEF Apart
<1> QED
    BY <1>1 DEF SpansOf

LEMMA NextUsers ==
    ASSUME Apart, Apart', [Next]_vars
    PROVE  [Users!Next]_<<SpansOf(held), SpansOf(retired)>>
<1>1. held \in SUBSET Live /\ retired \in SUBSET Live /\ Live' = held' \cup retired'
    BY DEF Live
<1>2. CASE held' = held /\ retired' = retired
    BY <1>2 DEF SpansOf
<1>3. ASSUME NEW b, Gives(b) PROVE [Users!Next]_<<SpansOf(held), SpansOf(retired)>>
  <2>1. CASE b \in held
      BY <1>3, <2>1 DEF Gives, SpansOf
  <2>2. CASE b \notin held
    <3>1. b \in Live' /\ b \notin retired /\ Live' = Live \cup {b} /\ retired' = retired
        BY <1>1, <1>3 DEF Gives, Apart, Live
    <3>2. \A c \in Live : ~Users!Overlap(Span(b), Span(c))
        BY <2>2, <3>1 DEF Apart, Live
    <3>3. PICK s : s = Span(b)
        OBVIOUS
    <3>4. s \in Users!Block /\ s.at + s.units <= PageUnits /\ Users!Overlap(s, s)
        BY <3>1, <3>3 DEF Apart, Span
    <3>5. \A c \in SpansOf(held) \cup SpansOf(retired) : ~Users!Overlap(s, c)
        BY <3>2, <3>3 DEF SpansOf, Live
    <3>6. s \in SpansOf(held') \ SpansOf(held)
        BY <1>3, <3>3, <3>4, <3>5 DEF Gives, SpansOf
    <3>7. SpansOf(held') = SpansOf(held) \cup {s} /\ SpansOf(retired') = SpansOf(retired)
        BY <1>3, <3>3 DEF Gives, SpansOf
    <3>8. Users!Allocate
        BY <3>4, <3>5, <3>6, <3>7 DEF Users!Allocate, SpansOf
    <3> QED
        BY <3>8 DEF Users!Next
  <2> QED
      BY <2>1, <2>2
<1>4. ASSUME NEW b, Takes(b) PROVE Users!Free
  <2>1. SpansOf(held') = SpansOf(held) \ {Span(b)} /\ SpansOf(retired') = SpansOf(retired)
      BY <1>1, <1>4, SpansLess DEF Takes
  <2>2. Span(b) \in SpansOf(held)
      BY <1>4 DEF Takes, SpansOf
  <2> QED
      BY <2>1, <2>2 DEF Users!Free, SpansOf
<1>5. ASSUME NEW b, Defers(b) PROVE Users!Retire
  <2>1. SpansOf(held') = SpansOf(held) \ {Span(b)}
      BY <1>1, <1>5, SpansLess DEF Defers
  <2>2. Span(b) \in SpansOf(held) /\ SpansOf(retired') = SpansOf(retired) \cup {Span(b)}
      BY <1>5 DEF Defers, SpansOf
  <2> QED
      BY <2>1, <2>2 DEF Users!Retire, SpansOf
<1>6. ASSUME NEW b, Ends(b) PROVE Users!GraceEnds
  <2>1. SpansOf(retired') = SpansOf(retired) \ {Span(b)} /\ SpansOf(held') = SpansOf(held)
      BY <1>1, <1>6, SpansLess DEF Ends
  <2>2. Span(b) \in SpansOf(retired)
      BY <1>6 DEF Ends, SpansOf
  <2> QED
      BY <2>1, <2>2 DEF Users!GraceEnds, SpansOf
<1> QED
    BY <1>2, <1>3, <1>4, <1>5, <1>6, UserSteps DEF Users!Next

\* The allocator implements Heap: memory is handed out only where no owner, no RCU
\* reader and no other call can still be using any part of it, for every number of
\* pages, threads and caches, both fits and every interleaving of the calls.
THEOREM HeapImplemented == Spec => ImplementsHeap
<1>1. Init => Users!Init
    BY DEF Init, Users!Init
<1>2. Apart /\ Apart' /\ [Next]_vars => [Users!Next]_<<SpansOf(held), SpansOf(retired)>>
    BY NextUsers
<1>3. IInv => Apart
    BY BlocksApartInv
<1> QED
    BY <1>1, <1>2, <1>3, SpecIInv, PTL DEF Spec, ImplementsHeap, Users!Spec, SpansOf

-----------------------------------------------------------------------------
(* What the search decides *)

\* What the search carries once a block was found.
Hit == [diff: 0..Huge - 1, exact: {0, 1}, best_fit: {-1}, best_page_size: {Huge},
        page: {NoPage}, rotate: {FALSE}]

\* A block that fits is found, one that does not is passed over, and what was found
\* is never lost again.
LEMMA BlockHit ==
    ASSUME NEW p, NEW s \in AllUnits, slob_units(mem[p], s) \in 1..PageUnits,
           NEW n \in Nat, NEW align \in Nat, align % SLOB_UNIT = 0
    PROVE  /\ ~Fitting(mem[p], s, n, align) =>
                 \A x : ScanBlock(x, p, s, n, align) = x
           /\ Fitting(mem[p], s, n, align) => ScanBlock(NothingFound, p, s, n, align) \in Hit
           /\ \A x \in Hit : ScanBlock(x, p, s, n, align) \in Hit
<1>1. PICK left : left = slob_units(mem[p], s) - n + Delta(s, align)
    OBVIOUS
<1>2. PICK u \in 1..PageUnits : u = slob_units(mem[p], s)
    OBVIOUS
<1>3. PICK d \in Nat : d = Delta(s, align)
    BY DeltaNatural, PageFacts DEF AllUnits
<1>4. Fitting(mem[p], s, n, align) => left \in 0..Huge - 1
    BY <1>1, <1>2, <1>3, PageFacts DEF Fitting, Huge
<1>5. ASSUME NEW x
      PROVE  ScanBlock(x, p, s, n, align)
                = IF x.exact = 1 \/ ~Fitting(mem[p], s, n, align) \/ x.diff <= left THEN x
                  ELSE [x EXCEPT !.diff = left, !.exact = IF left = 0 THEN 1 ELSE 0]
    BY <1>1 DEF ScanBlock
<1>6. ASSUME Fitting(mem[p], s, n, align)
      PROVE  ScanBlock(NothingFound, p, s, n, align) \in Hit
  <2>1. left \in 0..Huge - 1
      BY <1>4, <1>6
  <2>2. NothingFound.exact # 1 /\ ~(NothingFound.diff <= left)
      BY <2>1, PageFacts DEF NothingFound, Huge
  <2>3. ScanBlock(NothingFound, p, s, n, align)
           = [NothingFound EXCEPT !.diff = left, !.exact = IF left = 0 THEN 1 ELSE 0]
      BY <1>5, <1>6, <2>2
  <2> QED
      BY <2>1, <2>3 DEF NothingFound, Hit
<1>7. ASSUME NEW x \in Hit PROVE ScanBlock(x, p, s, n, align) \in Hit
  <2>1. CASE ScanBlock(x, p, s, n, align) = x
      BY <2>1
  <2>2. CASE ScanBlock(x, p, s, n, align) # x
    <3>1. Fitting(mem[p], s, n, align) /\ left \in 0..Huge - 1
        BY <1>4, <1>5, <2>2
    <3>2. ScanBlock(x, p, s, n, align)
             = [x EXCEPT !.diff = left, !.exact = IF left = 0 THEN 1 ELSE 0]
        BY <1>5, <2>2
    <3> QED
        BY <3>1, <3>2 DEF Hit
  <2> QED
      BY <2>1, <2>2
<1> QED
    BY <1>5, <1>6, <1>7

\* A page without a block that fits changes nothing; on one that has such a block the
\* search finds one.
LEMMA BlocksHit ==
    ASSUME NEW p, NEW n \in Nat, NEW align \in Nat, align % SLOB_UNIT = 0,
           NEW f, NEW blocks, BlocksRun(f, NothingFound, p, n, align, blocks),
           \A i \in DOMAIN blocks : slob_units(mem[p], blocks[i]) \in 1..PageUnits
    PROVE  ScanBlocks(NothingFound, p, n, align)
              \in IF CanServe(p, n, align) THEN Hit ELSE {NothingFound}
<1>1. blocks \in Seq(AllUnits)
    BY DEF BlocksRun
<1>2. PICK l \in Nat : l = Len(blocks) /\ DOMAIN blocks = 1..l
    BY <1>1
<1> DEFINE Fits1(i) == Fitting(mem[p], blocks[i], n, align)
           S == {i \in 0..l : f[i] \in IF \E j \in 1..i : Fits1(j) THEN Hit ELSE {NothingFound}}
<1>3. 0 \in S
  <2>1. f[0] = NothingFound
      BY DEF BlocksRun
  <2> QED
      BY <2>1
<1>4. ASSUME NEW i \in 1..l, i - 1 \in S PROVE i \in S
  <2>1. blocks[i] \in AllUnits /\ slob_units(mem[p], blocks[i]) \in 1..PageUnits
      BY <1>1, <1>2
  <2>2. f[i] = ScanBlock(f[i - 1], p, blocks[i], n, align)
      BY <1>2 DEF BlocksRun
  <2>3. /\ ~Fits1(i) => f[i] = f[i - 1]
        /\ Fits1(i) /\ f[i - 1] = NothingFound => f[i] \in Hit
        /\ f[i - 1] \in Hit => f[i] \in Hit
      BY <2>1, <2>2, BlockHit
  <2>4. (\E j \in 1..i : Fits1(j)) <=> Fits1(i) \/ \E j \in 1..i - 1 : Fits1(j)
    <3>1. 1..i = (1..i - 1) \cup {i}
        OBVIOUS
    <3> HIDE DEF Fits1
    <3> QED
        BY <3>1
  <2>5. i \in 0..l
      OBVIOUS
  <2> HIDE DEF Fits1
  <2>6. f[i - 1] \in IF \E j \in 1..i - 1 : Fits1(j) THEN Hit ELSE {NothingFound}
      BY <1>4
  <2> QED
      BY <2>3, <2>4, <2>5, <2>6
<1>5. \A i \in 0..l : i \in S
  <2> HIDE DEF S
  <2> QED
      BY <1>3, <1>4, AllUpTo
<1>6. l \in S
    BY <1>5
<1>7. CanServe(p, n, align) <=> \E j \in 1..l : Fits1(j)
    BY <1>2 DEF CanServe, Candidates, BlocksRun
<1>8. ScanBlocks(NothingFound, p, n, align) = f[l]
    BY <1>2 DEF BlocksRun
<1> HIDE DEF Fits1
<1> QED
    BY <1>6, <1>7, <1>8

\* A page is chosen at once when one of its blocks fits and no page was chosen before.
LEMMA PageHit ==
    ASSUME NEW p \in Pages, NEW n \in Nat, NEW align \in Nat, align % SLOB_UNIT = 0,
           NEW f, NEW blocks, BlocksRun(f, NothingFound, p, n, align, blocks),
           \A i \in DOMAIN blocks : slob_units(mem[p], blocks[i]) \in 1..units[p],
           units[p] \in 1..PageUnits
    PROVE  /\ CanServe(p, n, align) => ScanPage(NothingFound, p, n, align).page = p
           /\ ~CanServe(p, n, align) => ScanPage(NothingFound, p, n, align) = NothingFound
<1>1. PICK a : a = ScanBlocks(NothingFound, p, n, align)
    OBVIOUS
<1>2. PICK b : b = IF a.exact = 0 /\ (a.best_fit = -1 \/ a.diff < a.best_fit)
                   THEN [a EXCEPT !.best_page_size = units[p], !.best_fit = a.diff]
                   ELSE a
    OBVIOUS
<1>3. a \in IF CanServe(p, n, align) THEN Hit ELSE {NothingFound}
  <2>1. \A i \in DOMAIN blocks : slob_units(mem[p], blocks[i]) \in 1..PageUnits
      BY PageFacts
  <2> QED
      BY <1>1, <2>1, BlocksHit
<1>4. ScanPage(NothingFound, p, n, align)
         = IF units[p] < n \/ units[p] > a.best_page_size THEN a
           ELSE IF a.exact = 1 THEN [a EXCEPT !.page = p]
           ELSE IF b.best_fit >= 0 /\ CanServe(p, n, align)
                THEN [b EXCEPT !.page = p, !.rotate = TRUE]
           ELSE b
  <2>1. NothingFound.page = NoPage
      BY DEF NothingFound
  <2> QED
      BY <1>1, <1>2, <2>1 DEF ScanPage
<1>5. ASSUME CanServe(p, n, align)
      PROVE  ScanPage(NothingFound, p, n, align).page = p
  <2>1. a \in Hit
      BY <1>3, <1>5
  <2>2. n <= units[p]
    <3>1. PICK i \in DOMAIN blocks : Fitting(mem[p], blocks[i], n, align)
        BY <1>5 DEF CanServe, Candidates, BlocksRun
    <3>2. PICK s \in Nat : s = blocks[i]
        BY PageFacts DEF BlocksRun, AllUnits
    <3>3. Delta(s, align) \in Nat
        BY DeltaNatural
    <3>4. slob_units(mem[p], s) \in 1..units[p]
        BY <3>2
    <3> QED
        BY <3>1, <3>2, <3>3, <3>4, PageFacts DEF Fitting
  <2>3. ~(units[p] < n \/ units[p] > a.best_page_size)
    <3>1. a.best_page_size = Huge
        BY <2>1 DEF Hit
    <3> QED
        BY <2>2, <3>1, PageFacts DEF Huge
  <2>4. CASE a.exact = 1
    <3>1. ScanPage(NothingFound, p, n, align) = [a EXCEPT !.page = p]
        BY <1>4, <2>3, <2>4
    <3> QED
        BY <2>1, <3>1 DEF Hit
  <2>5. CASE a.exact # 1
    <3>1. b = [a EXCEPT !.best_page_size = units[p], !.best_fit = a.diff]
        BY <1>2, <2>1, <2>5 DEF Hit
    <3>2. b.best_fit >= 0
        BY <2>1, <3>1 DEF Hit
    <3>3. ScanPage(NothingFound, p, n, align) = [b EXCEPT !.page = p, !.rotate = TRUE]
        BY <1>4, <1>5, <2>3, <2>5, <3>2
    <3> QED
        BY <2>1, <3>1, <3>3 DEF Hit
  <2> QED
      BY <2>4, <2>5
<1>6. ASSUME ~CanServe(p, n, align)
      PROVE  ScanPage(NothingFound, p, n, align) = NothingFound
  <2>1. a = NothingFound
      BY <1>3, <1>6
  <2>2. a.exact = -1 /\ a.best_fit = -1
      BY <2>1 DEF NothingFound
  <2>3. b = a
      BY <1>2, <2>2
  <2> QED
      BY <1>4, <1>6, <2>1, <2>2, <2>3
<1> QED
    BY <1>5, <1>6

\* A free block of a page is at most what the page has free.
LEMMA BlockWithinPage ==
    ASSUME NEW p \in Pages, PageSplit(p), units[p] \in 1..PageUnits - 1, mem[p] \in Memory,
           NEW s \in FreeOn(p)
    PROVE  slob_units(mem[p], s) \in 1..units[p]
<1>1. ListHeld(mem[p], freelist[p], FreeOn(p), SizesOf(mem[p]))
    BY DEF PageSplit
<1>2. PICK z : z = SizesOf(mem[p])
    OBVIOUS
<1>3. s \in AllUnits /\ z[s] \in 1..PageUnits /\ s + z[s] <= PageUnits
    BY <1>1, <1>2 DEF ListHeld, AllUnits
<1>4. z[s] = slob_units(mem[p], s)
    BY <1>2, <1>3 DEF SizesOf, AllUnits
<1>5. FreeUnits(p) = UNION {Covers(r, z[r]) : r \in FreeOn(p)}
    BY <1>2 DEF FreeUnits, UnitsOf
<1>6. Covers(s, z[s]) \subseteq FreeUnits(p)
    BY <1>5
<1>7. FreeUnits(p) \in SUBSET AllUnits
  <2>1. ASSUME NEW r \in FreeOn(p) PROVE Covers(r, z[r]) \subseteq AllUnits
    <3>1. r \in AllUnits /\ z[r] \in 1..PageUnits /\ r + z[r] <= PageUnits
        BY <1>1, <1>2 DEF ListHeld, AllUnits
    <3> QED
        BY <3>1, PageFacts DEF Covers, AllUnits
  <2> QED
      BY <1>5, <2>1
<1>8. IsFiniteSet(FreeUnits(p)) /\ Cardinality(FreeUnits(p)) = units[p]
    BY <1>7, CountUnits DEF PageSplit
<1>9. Cardinality(Covers(s, z[s])) <= Cardinality(FreeUnits(p))
    BY <1>6, <1>8, FS_Subset
<1>10. s \in Nat /\ z[s] \in Nat
    BY <1>3, PageFacts DEF AllUnits
<1>11. Cardinality(Covers(s, z[s])) = z[s]
    BY <1>3, <1>10, CountCovers
<1> QED
    BY <1>3, <1>4, <1>8, <1>9, <1>11, PageFacts

\* A search that looks at a page of a list decides as CanServe says.
LEMMA ListedPageHit ==
    ASSUME IInv, NEW l \in ListNames, NEW p \in ToSet(lists[l]),
           NEW n \in Nat, NEW align \in Nat, align % SLOB_UNIT = 0
    PROVE  /\ CanServe(p, n, align) => ScanPage(NothingFound, p, n, align).page = p
           /\ ~CanServe(p, n, align) => ScanPage(NothingFound, p, n, align) = NothingFound
<1>1. /\ p \in Pages /\ PageSplit(p) /\ Walkable(p)
      /\ units[p] \in Nat /\ 0 < units[p] /\ units[p] < PageUnits
    BY PageOnList
<1>2. units[p] \in 1..PageUnits - 1 /\ units[p] \in 1..PageUnits /\ units[p] # 0
    BY <1>1, PageFacts
<1>3. mem[p] \in Memory /\ FreeBlocks(mem[p], freelist[p]) \in Seq(AllUnits)
    BY <1>1 DEF Walkable
<1>4. NothingFound \in Found({NoPage})
  <2>1. Huge \in Int
      BY PageFacts DEF Huge
  <2> QED
      BY <2>1 DEF NothingFound, Found
<1>5. PICK f, blocks : BlocksRun(f, NothingFound, p, n, align, blocks)
    BY <1>1, <1>3, <1>4, BlocksRuns
<1>6. ASSUME NEW i \in DOMAIN blocks PROVE slob_units(mem[p], blocks[i]) \in 1..units[p]
  <2>1. blocks[i] \in FreeOn(p)
      BY <1>2, <1>5 DEF BlocksRun, FreeOn, ToSet
  <2> QED
      BY <1>1, <1>2, <1>3, <2>1, BlockWithinPage
<1> QED
    BY <1>1, <1>2, <1>5, <1>6, PageHit

\* The search ends where the first page that can serve is.
FirstServes(list, n, align, p) ==
    \/ p = NoPage /\ \A q \in ToSet(list) : ~CanServe(q, n, align)
    \/ \E i \in DOMAIN list : /\ list[i] = p /\ CanServe(p, n, align)
                              /\ \A j \in 1..i - 1 : ~CanServe(list[j], n, align)

LEMMA SearchDecides ==
    ASSUME IInv, NEW l \in ListNames,
           NEW n \in Nat, NEW align \in Nat, align % SLOB_UNIT = 0
    PROVE  FirstServes(lists[l], n, align, Scan(lists[l], n, align).page)
<1>1. PICK list : list = lists[l]
    OBVIOUS
<1>2. \A q \in ToSet(list) : q \in Pages /\ Walkable(q)
    BY <1>1, PageOnList
<1>3. list \in Seq(Pages)
  <2>1. list \in Seq(slab) /\ slab \subseteq Pages
      BY <1>1 DEF IInv, TypeOK
  <2> QED
      BY <2>1
<1>4. PICK f : PagesRun(f, list, n, align)
    BY <1>2, <1>3, PagesRuns
<1>5. PICK m \in Nat : m = Len(list) /\ DOMAIN list = 1..m
    BY <1>3
<1> DEFINE Serves(i) == CanServe(list[i], n, align)
           First(i) == Serves(i) /\ \A j \in 1..i - 1 : ~Serves(j)
           S == {i \in 0..m : \/ f[i] = NothingFound /\ \A j \in 1..i : ~Serves(j)
                              \/ \E j \in 1..i : First(j) /\ f[i].page = list[j]}
<1>6. 0 \in S
    BY <1>4 DEF PagesRun
<1>7. ASSUME NEW i \in 1..m, i - 1 \in S PROVE i \in S
  <2>1. PICK q : q = list[i]
      OBVIOUS
  <2>2. q \in ToSet(list) /\ q \in Pages
      BY <1>2, <1>5, <2>1 DEF ToSet
  <2>3. f[i] = ScanPage(f[i - 1], q, n, align) /\ i \in 0..m
      BY <1>4, <1>5, <2>1 DEF PagesRun
  <2>4. CASE f[i - 1] = NothingFound /\ \A j \in 1..i - 1 : ~Serves(j)
    <3>1. /\ Serves(i) => f[i].page = list[i]
          /\ ~Serves(i) => f[i] = NothingFound
        BY <1>1, <2>1, <2>2, <2>3, <2>4, ListedPageHit
    <3>2. CASE Serves(i)
      <4>1. First(i) /\ f[i].page = list[i]
          BY <2>4, <3>1, <3>2
      <4> HIDE DEF First
      <4>2. i \in 1..i
          OBVIOUS
      <4> QED
          BY <2>3, <4>1, <4>2
    <3>3. CASE ~Serves(i)
      <4>1. 1..i = (1..i - 1) \cup {i}
          OBVIOUS
      <4> HIDE DEF Serves
      <4>2. \A j \in 1..i : ~Serves(j)
          BY <2>4, <3>3, <4>1
      <4> QED
          BY <2>3, <3>1, <3>3, <4>2
    <3> QED
        BY <3>2, <3>3
  <2>5. CASE \E j \in 1..i - 1 : First(j) /\ f[i - 1].page = list[j]
    <3>1. PICK j \in 1..i - 1 : First(j) /\ f[i - 1].page = list[j]
        BY <2>5
    <3>2. f[i - 1].page # NoPage
      <4>1. j \in DOMAIN list
          BY <1>5
      <4>2. list[j] \in Pages
          BY <1>2, <4>1 DEF ToSet
      <4> QED
          BY <3>1, <4>2, PageAssumption
    <3>3. f[i] = f[i - 1]
        BY <2>3, <3>2 DEF ScanPage
    <3>4. j \in 1..i
        OBVIOUS
    <3> HIDE DEF First
    <3> QED
        BY <2>3, <3>1, <3>3, <3>4
  <2> HIDE DEF First, Serves
  <2> QED
      BY <1>7, <2>4, <2>5
<1>8. m \in S
  <2>1. \A i \in 0..m : i \in S
    <3> HIDE DEF S
    <3> QED
        BY <1>6, <1>7, AllUpTo
  <2> QED
      BY <2>1
<1>9. Scan(list, n, align) = f[m]
    BY <1>4, <1>5 DEF PagesRun
<1>10. CASE f[m] = NothingFound /\ \A j \in 1..m : ~Serves(j)
  <2>1. \A q \in ToSet(list) : ~CanServe(q, n, align)
      BY <1>5, <1>10 DEF ToSet
  <2>2. Scan(list, n, align).page = NoPage
      BY <1>9, <1>10 DEF NothingFound
  <2> QED
      BY <1>1, <2>1, <2>2 DEF FirstServes
<1>11. CASE \E j \in 1..m : First(j) /\ f[m].page = list[j]
  <2>1. PICK j \in 1..m : First(j) /\ f[m].page = list[j]
      BY <1>11
  <2>2. j \in DOMAIN list /\ list[j] = Scan(list, n, align).page
      BY <1>5, <1>9, <2>1
  <2>3. CanServe(list[j], n, align) /\ \A k \in 1..j - 1 : ~CanServe(list[k], n, align)
      BY <2>1
  <2> QED
      BY <1>1, <2>2, <2>3 DEF FirstServes
<1> HIDE DEF First, Serves
<1> QED
    BY <1>8, <1>10, <1>11

\* A request is served from the first page of its list with a block that fits, whatever
\* slob_alloc's loop remembers of the pages before it, and a page is asked of the page
\* allocator only when no page of the list has one.
THEOREM SearchFirst == Spec => []SearchTakesFirstPage
<1>1. IInv => SearchTakesFirstPage
  <2> SUFFICES ASSUME IInv, NEW t \in Threads, call[t].pc = "search"
               PROVE  LET c == call[t]
                          n == SLOB_UNITS(c.size)
                          list == lists[ListFor(c.size)]
                      IN  FirstServes(list, n, c.align, Scan(list, n, c.align).page)
      BY DEF SearchTakesFirstPage, FirstServes
  <2>1. PICK c : c = call[t]
      OBVIOUS
  <2>2. c \in Call /\ Asked(c)
      BY <2>1 DEF IInv, CallInv
  <2>3. PICK n : n = SLOB_UNITS(c.size)
      OBVIOUS
  <2>4. n \in Nat /\ c.align \in Nat /\ c.align % SLOB_UNIT = 0
      BY <2>2, <2>3, AskedFacts
  <2>5. PICK l \in ListNames : l = ListFor(c.size)
      BY DEF ListFor, ListNames
  <2>6. FirstServes(lists[l], n, c.align, Scan(lists[l], n, c.align).page)
      BY <2>4, SearchDecides
  <2> QED
      BY <2>1, <2>3, <2>5, <2>6
<1> QED
    BY <1>1, SpecIInv, PTL
=============================================================================
