--------------------------- MODULE SequenceLemmas ---------------------------
(* Facts about numbers and sequences that the lists of the components rest on. *)
EXTENDS Integers, SequencesExt, SequenceTheorems, WellFoundedInduction, TLAPS

\* A set of numbers has a least one.
LEMMA LeastNatural ==
    ASSUME NEW T \in SUBSET Nat, T # {}
    PROVE  \E m \in T : \A k \in T : m <= k
<1> DEFINE R == OpToRel(<, Nat)
<1>1. \A x, y \in Nat : <<x, y>> \in R <=> x < y
    BY DEF OpToRel
<1>2. IsWellFoundedOn(R, Nat)
    BY NatLessThanWellFounded
<1> HIDE DEF R
<1>3. \E x \in T : \A y \in T : <<y, x>> \notin R
    BY <1>2, WFMin
<1>4. PICK m \in T : \A y \in T : <<y, m>> \notin R
    BY <1>3
<1>5. ASSUME NEW k \in T
      PROVE  m <= k
  <2>1. m \in Nat /\ k \in Nat
      BY <1>4
  <2>2. <<k, m>> \notin R
      BY <1>4
  <2>3. ~(k < m)
      BY <1>1, <2>1, <2>2
  <2> QED
      BY <2>1, <2>3
<1> QED
    BY <1>4, <1>5

\* Induction, for a set instead of a formula.
LEMMA AllUpTo ==
    ASSUME NEW n \in Nat, NEW S, 0 \in S, \A i \in 1..n : i - 1 \in S => i \in S
    PROVE  \A i \in 0..n : i \in S
<1> DEFINE T == {i \in 0..n : i \notin S}
<1>1. SUFFICES ASSUME T # {} PROVE FALSE
    OBVIOUS
<1>2. T \in SUBSET Nat
    OBVIOUS
<1>3. PICK m \in T : \A k \in T : m <= k
    BY <1>1, <1>2, LeastNatural
<1>4. m \in 1..n /\ m - 1 \in 0..n
    BY <1>3
<1>5. m - 1 \notin T
    BY <1>3, <1>4
<1> QED
    BY <1>3, <1>4, <1>5

\* The values of a function defined by recursion on its argument: a is the first, and
\* step says how each follows from the one before.
Built(f, n, T, a, step) ==
    f \in [0..n -> T] /\ f[0] = a /\ \A i \in 1..n : f[i] = step[<<f[i - 1], i>>]

Recurs(f, n, T, a, step) ==
    f[0] = a /\ \A i \in 1..n : f[i - 1] \in T => f[i] = step[<<f[i - 1], i>>]

LEMMA StepByStep ==
    ASSUME NEW n \in Nat, NEW T, NEW a \in T, NEW step \in [T \X (1..n) -> T]
    PROVE  /\ \E f : Built(f, n, T, a, step)
           /\ \A f : Recurs(f, n, T, a, step) => \A i \in 0..n : f[i] \in T
<1> DEFINE Values(f, m) == /\ f \in [0..m -> T] /\ f[0] = a
                           /\ \A i \in 1..m : f[i] = step[<<f[i - 1], i>>]
           S == {m \in 0..n : \E f : Values(f, m)}
<1>1. 0 \in S
  <2>1. PICK f : f = [i \in 0..0 |-> a]
      OBVIOUS
  <2>2. f \in [0..0 -> T] /\ f[0] = a /\ \A i : i \notin 1..0
      BY <2>1
  <2>3. Values(f, 0) /\ 0 \in 0..n
      BY <2>2
  <2> QED
      BY <2>3
<1>2. ASSUME NEW m \in 1..n, m - 1 \in S PROVE m \in S
  <2>1. PICK f : Values(f, m - 1)
      BY <1>2
  <2>2. PICK g : g = [i \in 0..m |-> IF i = m THEN step[<<f[m - 1], m>>] ELSE f[i]]
      OBVIOUS
  <2>3. f[m - 1] \in T /\ step[<<f[m - 1], m>>] \in T
      BY <2>1
  <2>4. g \in [0..m -> T] /\ g[0] = a
      BY <2>1, <2>2, <2>3
  <2>5. ASSUME NEW i \in 1..m PROVE g[i] = step[<<g[i - 1], i>>]
    <3>1. g[i - 1] = f[i - 1]
        BY <2>2
    <3>2. CASE i = m
      <4>1. g[i] = step[<<f[i - 1], i>>]
          BY <2>2, <3>2
      <4> QED
          BY <3>1, <4>1
    <3>3. CASE i # m
      <4>1. g[i] = f[i] /\ f[i] = step[<<f[i - 1], i>>]
          BY <2>1, <2>2, <3>3
      <4> QED
          BY <3>1, <4>1
    <3> QED
        BY <3>2, <3>3
  <2> QED
      BY <2>4, <2>5
<1>3. \A m \in 0..n : m \in S
  <2> HIDE DEF S
  <2> QED
      BY <1>1, <1>2, AllUpTo
<1>4. \E f : Built(f, n, T, a, step)
    BY <1>3, SMTT(30) DEF Built
<1>5. ASSUME NEW f, Recurs(f, n, T, a, step) PROVE \A i \in 0..n : f[i] \in T
  <2> DEFINE R == {i \in 0..n : f[i] \in T}
  <2>1. 0 \in R
      BY <1>5 DEF Recurs
  <2>2. ASSUME NEW i \in 1..n, i - 1 \in R PROVE i \in R
    <3>1. f[i] = step[<<f[i - 1], i>>] /\ <<f[i - 1], i>> \in T \X (1..n)
        BY <1>5, <2>2 DEF Recurs
    <3> QED
        BY <3>1
  <2>3. \A i \in 0..n : i \in R
    <3> HIDE DEF R
    <3> QED
        BY <2>1, <2>2, AllUpTo
  <2> QED
      BY <2>3
<1> QED
    BY <1>4, <1>5

\* Insertion at position i: the element and those after it move up.
LEMMA InsertAtPosition ==
    ASSUME NEW S, NEW s \in Seq(S), NEW t \in S, NEW i \in 1..(Len(s) + 1)
    PROVE  LET r == InsertAt(s, i, t) IN
           /\ r \in Seq(S) /\ Len(r) = Len(s) + 1
           /\ \A k \in 1..Len(r) :
                 r[k] = IF k < i THEN s[k] ELSE IF k = i THEN t ELSE s[k - 1]
<1> DEFINE a == SubSeq(s, 1, i - 1)
           e == <<t>>
           b == SubSeq(s, i, Len(s))
           h == a \o e
           r == h \o b
<1>1. Len(s) \in Nat /\ i \in Int /\ 1 <= i /\ i <= Len(s) + 1
    OBVIOUS
<1>2. a \in Seq(S) /\ Len(a) = i - 1 /\ \A k \in 1..(i - 1) : a[k] = s[k]
    BY <1>1, SubSeqProperties
<1>3. b \in Seq(S) /\ Len(b) = Len(s) - i + 1
      /\ \A k \in 1..(Len(s) - i + 1) : b[k] = s[i + k - 1]
    BY <1>1, SubSeqProperties
<1>4. e \in Seq(S) /\ Len(e) = 1 /\ e[1] = t
    OBVIOUS
<1> HIDE DEF a, b, e
<1>5. /\ h \in Seq(S) /\ Len(h) = Len(a) + Len(e)
      /\ \A k \in 1..(Len(a) + Len(e)) : h[k] = IF k <= Len(a) THEN a[k] ELSE e[k - Len(a)]
  <2>1. a \in Seq(S) /\ e \in Seq(S)
      BY <1>2, <1>4
  <2> QED
      BY <2>1, ConcatProperties
<1> HIDE DEF h
<1>6. /\ r \in Seq(S) /\ Len(r) = Len(h) + Len(b)
      /\ \A k \in 1..(Len(h) + Len(b)) : r[k] = IF k <= Len(h) THEN h[k] ELSE b[k - Len(h)]
  <2>1. h \in Seq(S) /\ b \in Seq(S)
      BY <1>3, <1>5
  <2> QED
      BY <2>1, ConcatProperties
<1> HIDE DEF r
<1>7. Len(h) = i /\ Len(r) = Len(s) + 1
    BY <1>1, <1>2, <1>3, <1>4, <1>5, <1>6
<1>8. ASSUME NEW k \in 1..Len(r)
      PROVE  r[k] = IF k < i THEN s[k] ELSE IF k = i THEN t ELSE s[k - 1]
  <2>1. k \in Int /\ 1 <= k /\ k <= Len(s) + 1 /\ k \in 1..(Len(h) + Len(b))
      BY <1>1, <1>6, <1>7
  <2>2. CASE k < i
    <3>1. k \in 1..(i - 1) /\ k \in 1..(Len(a) + Len(e)) /\ k <= Len(a) /\ k <= Len(h)
        BY <1>1, <1>2, <1>4, <1>7, <2>1, <2>2
    <3> QED
        BY <1>2, <1>5, <1>6, <2>1, <2>2, <3>1
  <2>3. CASE k = i
    <3>1. k \in 1..(Len(a) + Len(e)) /\ ~(k <= Len(a)) /\ k - Len(a) = 1 /\ k <= Len(h)
        BY <1>1, <1>2, <1>4, <1>7, <2>1, <2>3
    <3> QED
        BY <1>4, <1>5, <1>6, <2>1, <2>3, <3>1
  <2>4. CASE k > i
    <3>1. /\ ~(k <= Len(h)) /\ k - Len(h) \in 1..(Len(s) - i + 1)
          /\ i + (k - Len(h)) - 1 = k - 1
        BY <1>1, <1>7, <2>1, <2>4
    <3> QED
        BY <1>1, <1>3, <1>6, <2>1, <2>4, <3>1, SMTT(30)
  <2> QED
      BY <1>1, <2>1, <2>2, <2>3, <2>4
<1>9. r = InsertAt(s, i, t)
    BY DEF r, h, a, b, e, InsertAt
<1> QED
    BY <1>6, <1>7, <1>8, <1>9

\* Removal of the element at position i.
LEMMA RemoveAtPosition ==
    ASSUME NEW S, NEW s \in Seq(S), NEW i \in 1..Len(s)
    PROVE  LET r == SubSeq(s, 1, i - 1) \o SubSeq(s, i + 1, Len(s)) IN
           /\ r \in Seq(S) /\ Len(r) = Len(s) - 1
           /\ \A k \in 1..Len(r) : r[k] = IF k < i THEN s[k] ELSE s[k + 1]
<1> DEFINE a == SubSeq(s, 1, i - 1)
           b == SubSeq(s, i + 1, Len(s))
           r == a \o b
<1>1. Len(s) \in Nat /\ i \in Int /\ 1 <= i /\ i <= Len(s)
    OBVIOUS
<1>2. a \in Seq(S) /\ Len(a) = i - 1 /\ \A k \in 1..(i - 1) : a[k] = s[k]
    BY <1>1, SubSeqProperties
<1>3. b \in Seq(S) /\ Len(b) = Len(s) - i
      /\ \A k \in 1..(Len(s) - i) : b[k] = s[i + k]
    BY <1>1, SubSeqProperties
<1> HIDE DEF a, b
<1>4. /\ r \in Seq(S) /\ Len(r) = Len(a) + Len(b)
      /\ \A k \in 1..(Len(a) + Len(b)) : r[k] = IF k <= Len(a) THEN a[k] ELSE b[k - Len(a)]
  <2>1. a \in Seq(S) /\ b \in Seq(S)
      BY <1>2, <1>3
  <2> QED
      BY <2>1, ConcatProperties
<1> HIDE DEF r
<1>5. r \in Seq(S) /\ Len(r) = Len(s) - 1
      /\ \A k \in 1..Len(r) : r[k] = IF k < i THEN s[k] ELSE s[k + 1]
  <2>1. Len(r) = Len(s) - 1
      BY <1>1, <1>2, <1>3, <1>4
  <2>2. ASSUME NEW k \in 1..Len(r)
        PROVE  r[k] = IF k < i THEN s[k] ELSE s[k + 1]
    <3>1. k \in 1..(Len(a) + Len(b)) /\ k \in Int /\ (k < i <=> k <= Len(a))
        BY <1>1, <1>2, <1>3, <2>1
    <3>2. CASE k < i
      <4>1. k \in 1..(i - 1)
          BY <1>1, <3>1, <3>2
      <4> QED
          BY <1>2, <1>4, <3>1, <3>2, <4>1
    <3>3. CASE ~(k < i)
      <4>1. k - Len(a) \in 1..(Len(s) - i) /\ i + (k - Len(a)) = k + 1
          BY <1>1, <1>2, <2>1, <3>1, <3>3
      <4> QED
          BY <1>3, <1>4, <3>1, <3>3, <4>1
    <3> QED
        BY <3>2, <3>3
  <2> QED
      BY <1>4, <2>1, <2>2
<1> QED
    BY <1>5 DEF r, a, b

\* The same two changes seen as changes of the set of queued elements.
LEMMA InsertPositionMembers ==
    ASSUME NEW S, NEW s \in Seq(S), NEW t \in S, NEW i \in 1..(Len(s) + 1),
           NEW r, r = InsertAt(s, i, t)
    PROVE  /\ r \in Seq(S) /\ r # <<>> /\ Len(r) = Len(s) + 1
           /\ i # 1 => r[1] = s[1]
           /\ ToSet(r) = ToSet(s) \cup {t}
           /\ IsInjective(s) /\ t \notin ToSet(s) => IsInjective(r)
<1>1. /\ r \in Seq(S) /\ Len(r) = Len(s) + 1
      /\ \A k \in 1..Len(r) :
            r[k] = IF k < i THEN s[k] ELSE IF k = i THEN t ELSE s[k - 1]
    BY InsertAtPosition
<1>2. Len(s) \in Nat /\ DOMAIN s = 1..Len(s) /\ DOMAIN r = 1..Len(r) /\ r # <<>>
      /\ i \in Int /\ 1 <= i /\ i <= Len(s) + 1
    BY <1>1
<1>3. i # 1 => r[1] = s[1]
    BY <1>1, <1>2
<1> DEFINE Old(k) == IF k < i THEN k ELSE k - 1
<1>4. ASSUME NEW k \in DOMAIN r
      PROVE  \/ k = i /\ r[k] = t
             \/ k # i /\ Old(k) \in DOMAIN s /\ r[k] = s[Old(k)]
    BY <1>1, <1>2
<1>5. ASSUME NEW k \in DOMAIN s
      PROVE  \E m \in DOMAIN r : r[m] = s[k]
  <2>1. CASE k < i
    <3>1. k \in DOMAIN r /\ r[k] = s[k]
        BY <1>1, <1>2, <2>1
    <3> QED
        BY <3>1
  <2>2. CASE ~(k < i)
    <3>1. k + 1 \in DOMAIN r /\ ~(k + 1 < i) /\ k + 1 # i /\ (k + 1) - 1 = k
        BY <1>1, <1>2, <2>2
    <3>2. r[k + 1] = s[k]
        BY <1>1, <1>2, <3>1
    <3> QED
        BY <3>1, <3>2
  <2> QED
      BY <2>1, <2>2
<1>6. ToSet(r) = ToSet(s) \cup {t}
  <2>1. i \in DOMAIN r /\ r[i] = t
      BY <1>1, <1>2
  <2> QED
      BY <1>4, <1>5, <2>1 DEF ToSet
<1>7. ASSUME IsInjective(s), t \notin ToSet(s)
      PROVE  IsInjective(r)
  <2>1. \A j, k \in DOMAIN s : s[j] = s[k] => j = k
      BY <1>7 DEF IsInjective
  <2>2. \A k \in DOMAIN s : s[k] # t
      BY <1>7 DEF ToSet
  <2>3. ASSUME NEW j \in DOMAIN r, NEW k \in DOMAIN r, r[j] = r[k]
        PROVE  j = k
    <3>1. CASE j = i \/ k = i
        BY <1>4, <2>2, <2>3, <3>1
    <3>2. CASE j # i /\ k # i
      <4>1. Old(j) = Old(k)
          BY <1>4, <2>1, <2>3, <3>2
      <4> QED
          BY <1>2, <3>2, <4>1
    <3> QED
        BY <3>1, <3>2
  <2> QED
      BY <2>3 DEF IsInjective
<1> QED
    BY <1>1, <1>2, <1>3, <1>6, <1>7

LEMMA RemovePositionMembers ==
    ASSUME NEW S, NEW s \in Seq(S), IsInjective(s), NEW i \in 1..Len(s),
           NEW r, r = RemoveAt(s, i)
    PROVE  /\ r \in Seq(S) /\ Len(r) = Len(s) - 1
           /\ ToSet(r) = ToSet(s) \ {s[i]}
           /\ IsInjective(r)
           /\ i # 1 => r # <<>> /\ r[1] = s[1]
<1>1. /\ r \in Seq(S) /\ Len(r) = Len(s) - 1
      /\ \A k \in 1..Len(r) : r[k] = IF k < i THEN s[k] ELSE s[k + 1]
    BY RemoveAtPosition DEF RemoveAt
<1>2. Len(s) \in Nat \ {0} /\ DOMAIN s = 1..Len(s) /\ DOMAIN r = 1..Len(r)
    BY <1>1
<1>3. \A j, k \in 1..Len(s) : s[j] = s[k] => j = k
    BY <1>2 DEF IsInjective
<1> DEFINE Old(k) == IF k < i THEN k ELSE k + 1
<1>4. ASSUME NEW k \in DOMAIN r
      PROVE  Old(k) \in 1..Len(s) /\ Old(k) # i /\ r[k] = s[Old(k)]
    BY <1>1, <1>2
<1>5. ASSUME NEW k \in 1..Len(s), k # i
      PROVE  \E m \in DOMAIN r : Old(m) = k
  <2>1. CASE k < i
    <3>1. k \in DOMAIN r /\ Old(k) = k
        BY <1>1, <1>2, <2>1
    <3> QED
        BY <3>1
  <2>2. CASE ~(k < i)
    <3>1. k - 1 \in DOMAIN r /\ Old(k - 1) = k
        BY <1>1, <1>2, <1>5, <2>2
    <3> QED
        BY <3>1
  <2> QED
      BY <2>1, <2>2
<1>6. ToSet(r) = ToSet(s) \ {s[i]}
  <2>1. ASSUME NEW k \in DOMAIN r PROVE r[k] \in ToSet(s) /\ r[k] # s[i]
      BY <1>2, <1>3, <1>4 DEF ToSet
  <2>2. ASSUME NEW k \in DOMAIN s, s[k] # s[i] PROVE s[k] \in ToSet(r)
    <3>1. PICK m \in DOMAIN r : Old(m) = k
        BY <1>2, <1>5, <2>2
    <3>2. r[m] = s[k]
        BY <1>4, <3>1
    <3> QED
        BY <3>2 DEF ToSet
  <2> QED
      BY <2>1, <2>2 DEF ToSet
<1>7. IsInjective(r)
  <2>1. ASSUME NEW j \in DOMAIN r, NEW k \in DOMAIN r, r[j] = r[k]
        PROVE  j = k
    <3>1. Old(j) = Old(k)
        BY <1>3, <1>4, <2>1
    <3> QED
        BY <1>2, <3>1
  <2> QED
      BY <2>1 DEF IsInjective
<1>8. i # 1 => r # <<>> /\ r[1] = s[1]
    BY <1>1, <1>2
<1> QED
    BY <1>1, <1>6, <1>7, <1>8

\* The two ends of a queue.
LEMMA AppendMembers ==
    ASSUME NEW S, NEW s \in Seq(S), NEW t \in S
    PROVE  /\ Append(s, t) \in Seq(S) /\ Append(s, t) # <<>>
           /\ Len(Append(s, t)) = Len(s) + 1
           /\ ToSet(Append(s, t)) = ToSet(s) \cup {t}
           /\ IsInjective(s) /\ t \notin ToSet(s) => IsInjective(Append(s, t))
<1> DEFINE r == Append(s, t)
<1>1. /\ r \in Seq(S) /\ Len(r) = Len(s) + 1 /\ r[Len(s) + 1] = t
      /\ \A i \in 1..Len(s) : r[i] = s[i]
    BY AppendProperties
<1>2. Len(s) \in Nat /\ DOMAIN s = 1..Len(s) /\ DOMAIN r = 1..(Len(s) + 1) /\ r # <<>>
    BY <1>1
<1> HIDE DEF r
<1>3. ToSet(r) = ToSet(s) \cup {t}
  <2>1. Len(s) + 1 \in DOMAIN r /\ \A i \in DOMAIN s : i \in DOMAIN r
      BY <1>2
  <2>2. \A i \in DOMAIN r : i \in DOMAIN s \/ i = Len(s) + 1
      BY <1>2
  <2> QED
      BY <1>1, <1>2, <2>1, <2>2 DEF ToSet
<1>4. ASSUME IsInjective(s), t \notin ToSet(s)
      PROVE  IsInjective(r)
  <2>1. \A i, j \in 1..Len(s) : s[i] = s[j] => i = j
      BY <1>2, <1>4 DEF IsInjective
  <2>2. \A i \in 1..Len(s) : s[i] # t
      BY <1>2, <1>4 DEF ToSet
  <2>3. ASSUME NEW i \in DOMAIN r, NEW j \in DOMAIN r, r[i] = r[j]
        PROVE  i = j
      BY <1>1, <1>2, <2>1, <2>2, <2>3
  <2> QED
      BY <2>3 DEF IsInjective
<1> QED
    BY <1>1, <1>2, <1>3, <1>4 DEF r

\* r is s with t in front.
Prepended(S, s, t, r) ==
    /\ r \in Seq(S) /\ Len(r) = Len(s) + 1 /\ r[1] = t
    /\ \A i \in 1..Len(s) : r[i + 1] = s[i]
    /\ ToSet(r) = ToSet(s) \cup {t}
    /\ IsInjective(s) /\ t \notin ToSet(s) => IsInjective(r)

LEMMA PrependMembers ==
    ASSUME NEW S, NEW s \in Seq(S), NEW t \in S, NEW r, r = Cons(t, s)
    PROVE  Prepended(S, s, t, r)
<1> DEFINE e == <<t>>
<1>1. e \in Seq(S) /\ Len(e) = 1 /\ e[1] = t
    OBVIOUS
<1>2. r = e \o s
    BY Zenon DEF Cons
<1> HIDE DEF e
<1>3. /\ r \in Seq(S) /\ Len(r) = Len(s) + 1 /\ r[1] = t
      /\ \A i \in 1..Len(s) : r[i + 1] = s[i]
  <2>1. /\ e \o s \in Seq(S) /\ Len(e \o s) = Len(e) + Len(s)
        /\ \A i \in 1..(Len(e) + Len(s)) :
              (e \o s)[i] = IF i <= Len(e) THEN e[i] ELSE s[i - Len(e)]
      BY <1>1, ConcatProperties
  <2>2. Len(s) \in Nat
      OBVIOUS
  <2>3. \A i \in 1..(1 + Len(s)) : r[i] = IF i <= 1 THEN e[i] ELSE s[i - 1]
      BY <1>1, <1>2, <2>1
  <2>4. r[1] = t
      BY <1>1, <2>2, <2>3
  <2>5. \A i \in 1..Len(s) : r[i + 1] = s[i]
      BY <2>2, <2>3
  <2> QED
      BY <1>1, <1>2, <2>1, <2>2, <2>4, <2>5
<1>4. Len(s) \in Nat /\ DOMAIN s = 1..Len(s) /\ DOMAIN r = 1..(Len(s) + 1)
    BY <1>3
<1>5. \A i \in DOMAIN r : i = 1 \/ (i - 1 \in DOMAIN s /\ r[i] = s[i - 1])
  <2>1. ASSUME NEW i \in DOMAIN r, i # 1 PROVE i - 1 \in DOMAIN s /\ r[i] = s[i - 1]
    <3>1. PICK n \in Nat : n = Len(s)
        BY <1>4
    <3>2. i \in 1..(n + 1)
        BY <1>4, <3>1
    <3>3. PICK k \in 1..n : k = i - 1 /\ i = k + 1
        BY <2>1, <3>2
    <3> QED
        BY <1>3, <1>4, <3>1, <3>3
  <2> QED
      BY <2>1
<1>6. ToSet(r) = ToSet(s) \cup {t}
  <2>1. 1 \in DOMAIN r /\ \A i \in DOMAIN s : i + 1 \in DOMAIN r /\ r[i + 1] = s[i]
      BY <1>3, <1>4
  <2>2. \A x : x \in ToSet(r) <=> \E i \in DOMAIN r : r[i] = x
      BY DEF ToSet
  <2>3. \A x : x \in ToSet(s) <=> \E i \in DOMAIN s : s[i] = x
      BY DEF ToSet
  <2>4. ASSUME NEW x \in ToSet(r) PROVE x \in ToSet(s) \cup {t}
      BY <1>3, <1>5, <2>2, <2>3
  <2>5. ASSUME NEW x \in ToSet(s) PROVE x \in ToSet(r)
      BY <2>1, <2>2, <2>3
  <2>6. t \in ToSet(r)
      BY <1>3, <2>1, <2>2
  <2> QED
      BY <2>4, <2>5, <2>6
<1>7. ASSUME IsInjective(s), t \notin ToSet(s)
      PROVE  IsInjective(r)
  <2>1. \A i, j \in DOMAIN s : s[i] = s[j] => i = j
      BY <1>7 DEF IsInjective
  <2>2. \A i \in DOMAIN s : s[i] # t
      BY <1>7 DEF ToSet
  <2>3. ASSUME NEW i \in DOMAIN r, NEW j \in DOMAIN r, r[i] = r[j]
        PROVE  i = j
      BY <1>3, <1>4, <1>5, <2>1, <2>2, <2>3
  <2> QED
      BY <2>3 DEF IsInjective
<1> QED
    BY <1>3, <1>6, <1>7 DEF Prepended

LEMMA TailMembers ==
    ASSUME NEW S, NEW s \in Seq(S), s # <<>>, IsInjective(s)
    PROVE  /\ Tail(s) \in Seq(S) /\ Head(s) \in S /\ Head(s) \in ToSet(s)
           /\ ToSet(Tail(s)) = ToSet(s) \ {Head(s)}
           /\ IsInjective(Tail(s))
<1> DEFINE r == Tail(s)
<1>1. /\ r \in Seq(S) /\ Len(r) = Len(s) - 1
      /\ \A i \in 1..Len(r) : r[i] = s[i + 1]
    BY HeadTailProperties
<1>2. Len(s) \in Nat \ {0} /\ DOMAIN s = 1..Len(s) /\ DOMAIN r = 1..Len(r)
      /\ Head(s) = s[1] /\ Head(s) \in S
    BY <1>1
<1> HIDE DEF r
<1>3. \A i, j \in 1..Len(s) : s[i] = s[j] => i = j
    BY <1>2 DEF IsInjective
<1>4. 1 \in DOMAIN s /\ \A i \in DOMAIN r : i + 1 \in DOMAIN s /\ i + 1 # 1
    BY <1>1, <1>2
<1>5. \A i \in DOMAIN s : i = 1 \/ (i - 1 \in DOMAIN r /\ (i - 1) + 1 = i)
    BY <1>1, <1>2
<1>6. ToSet(r) = ToSet(s) \ {s[1]}
  <2>1. ASSUME NEW i \in DOMAIN r PROVE r[i] \in ToSet(s) /\ r[i] # s[1]
      BY <1>1, <1>2, <1>3, <1>4 DEF ToSet
  <2>2. ASSUME NEW i \in DOMAIN s, s[i] # s[1] PROVE s[i] \in ToSet(r)
    <3>1. i - 1 \in DOMAIN r /\ r[i - 1] = s[i]
        BY <1>1, <1>2, <1>5, <2>2
    <3> QED
        BY <3>1 DEF ToSet
  <2> QED
      BY <2>1, <2>2 DEF ToSet
<1>7. IsInjective(r)
    BY <1>1, <1>2, <1>3, <1>4 DEF IsInjective
<1>8. Head(s) \in ToSet(s)
    BY <1>2, <1>4 DEF ToSet
<1> QED
    BY <1>1, <1>2, <1>6, <1>7, <1>8 DEF r
=============================================================================
