--------------------------- MODULE SequenceLemmas ---------------------------
(***************************************************************************)
(* Least and greatest numbers, slices of sequences, flattened sequences    *)
(* and folds, for the proofs about operators that are built from them.     *)
(***************************************************************************)
EXTENDS Integers, SequencesExt, FiniteSetTheorems, SequenceTheorems,
        WellFoundedInduction, TLAPS

-----------------------------------------------------------------------------
(* Least and greatest elements *)

\* Every non-empty set of natural numbers has a least element.
LEMMA NatMin ==
  ASSUME NEW T, T \subseteq Nat, T # {}
  PROVE  \E x \in T : \A y \in T : x <= y
<1>1. \E x \in T : \A y \in T : ~(<<y, x>> \in OpToRel(<, Nat))
  BY NatLessThanWellFounded, WFMin, Zenon
<1>2. OpToRel(<, Nat) = {ss \in Nat \X Nat : ss[1] < ss[2]}
  BY Zenon DEF OpToRel
<1>3. PICK x \in T :
        \A y \in T : ~(<<y, x>> \in {ss \in Nat \X Nat : ss[1] < ss[2]})
  BY <1>1, <1>2, Zenon
<1>4. ASSUME NEW y \in T PROVE x <= y
  <2>1. x \in Nat /\ y \in Nat
    OBVIOUS
  <2>2. <<y, x>> \notin {ss \in Nat \X Nat : ss[1] < ss[2]}
    BY <1>3
  <2>3. ~(y < x)
    BY <2>1, <2>2
  <2>4. QED
    BY <2>1, <2>3
<1>5. QED
  BY <1>4

\* Every non-empty set of natural numbers with a bound has a greatest element.
LEMMA NatMax ==
  ASSUME NEW n \in Nat, NEW T, T \subseteq 0..n, T # {}
  PROVE  \E x \in T : \A y \in T : x >= y
<1> DEFINE below == {n - x : x \in T}
<1>1. below \subseteq Nat /\ below # {}
  <2>1. \A x \in T : n - x \in Nat
    OBVIOUS
  <2>2. PICK x \in T : TRUE
    OBVIOUS
  <2>3. n - x \in below
    OBVIOUS
  <2>4. QED
    BY <2>1, <2>3
<1>2. PICK b \in below : \A c \in below : b <= c
  BY <1>1, NatMin, Zenon
<1>3. PICK x \in T : b = n - x
  OBVIOUS
<1>4. ASSUME NEW y \in T PROVE x >= y
  <2>1. n - y \in below
    OBVIOUS
  <2>2. b <= n - y
    BY <1>2, <2>1
  <2>3. QED
    BY <1>3, <2>2
<1>5. QED
  BY <1>4

-----------------------------------------------------------------------------
(* Multiples *)

\* What lies between two multiples of a number.
LEMMA DivBounds ==
  ASSUME NEW x \in Nat, NEW k \in Nat \ {0}
  PROVE  /\ x \div k \in Nat
         /\ (x \div k) * k <= x
         /\ x < ((x \div k) + 1) * k
  OBVIOUS

\* Quotient and remainder.
LEMMA DivMod ==
  ASSUME NEW x \in Nat, NEW k \in Nat \ {0}
  PROVE  (x \div k) * k + (x % k) = x /\ (x % k) \in Nat
  BY Z3

LEMMA Products ==
  ASSUME NEW a \in Int, NEW b \in Int, NEW k \in Nat
  PROVE  /\ a * k + b * k = (a + b) * k
         /\ (a >= 0 => a * k \in Nat)
         /\ (a <= b => a * k <= b * k)
  BY Z3

-----------------------------------------------------------------------------
(* Slices *)

\* s[from : from + count] of Python: short or empty past the end.
Slice(s, from, count) ==
  SubSeq(s, from + 1, IF from + count < Len(s) THEN from + count ELSE Len(s))

\* A slice has the elements from its start on, as far as the sequence goes.
LEMMA SliceProperties ==
  ASSUME NEW S, NEW s \in Seq(S), NEW from \in Nat, NEW count \in Nat
  PROVE  /\ Slice(s, from, count) \in Seq(S)
         /\ \A i \in 1..Len(Slice(s, from, count)) :
              Slice(s, from, count)[i] = s[from + i]
         /\ Len(Slice(s, from, count)) =
              IF from + count < Len(s) THEN count
              ELSE IF from <= Len(s) THEN Len(s) - from ELSE 0
<1> DEFINE last == IF from + count < Len(s) THEN from + count ELSE Len(s)
           c == Slice(s, from, count)
<1>1. Len(s) \in Nat /\ \A i \in 1..Len(s) : s[i] \in S
  BY LenProperties
<1>2. /\ last \in Nat /\ last <= Len(s)
      /\ \A i \in (from + 1)..last : s[i] \in S
  BY <1>1
<1>3. c = SubSeq(s, from + 1, last)
  BY DEF Slice
<1> HIDE DEF c, last
<1>4. /\ c \in Seq(S)
      /\ Len(c) = IF from + 1 <= last THEN last - (from + 1) + 1 ELSE 0
      /\ \A i \in 1..(last - (from + 1) + 1) : c[i] = s[from + 1 + i - 1]
  <2>1. from + 1 \in Int /\ last \in Int
    BY <1>2
  <2>2. QED
    BY <2>1, <1>2, <1>3, SubSeqProperties
<1>5. Len(c) = IF from <= last THEN last - from ELSE 0
  BY <1>2, <1>4
<1>6. ASSUME NEW i \in 1..Len(c) PROVE c[i] = s[from + i]
  <2>1. i \in 1..(last - (from + 1) + 1) /\ from + 1 + i - 1 = from + i
    BY <1>2, <1>5
  <2>2. QED
    BY <2>1, <1>4
<1>7. Len(c) = IF from + count < Len(s) THEN count
               ELSE IF from <= Len(s) THEN Len(s) - from ELSE 0
  BY <1>1, <1>5 DEF last
<1>8. QED
  BY <1>4, <1>6, <1>7 DEF c

\* Of n elements at k, the slice of m elements after from has what s has.
Holds(s, from, m, k, n) == k + n <= m \/ Len(s) <= from + m

\* A slice and the one that follows it make one slice.
Joins(s, from, m, n) ==
  Slice(s, from, m) \o Slice(s, from + m, n) = Slice(s, from, m + n)

LEMMA SlicesJoin ==
  ASSUME NEW S, NEW s \in Seq(S), NEW from \in Nat, NEW m \in Nat, NEW n \in Nat
  PROVE  Joins(s, from, m, n)
<1> DEFINE a == Slice(s, from, m)
           b == Slice(s, from + m, n)
           c == Slice(s, from, m + n)
<1>0. Len(s) \in Nat
  BY LenProperties
<1>1. /\ a \in Seq(S)
      /\ \A i \in 1..Len(a) : a[i] = s[from + i]
      /\ Len(a) = IF from + m < Len(s) THEN m
                  ELSE IF from <= Len(s) THEN Len(s) - from ELSE 0
  BY SliceProperties
<1>2. /\ b \in Seq(S)
      /\ \A i \in 1..Len(b) : b[i] = s[from + m + i]
      /\ Len(b) = IF from + m + n < Len(s) THEN n
                  ELSE IF from + m <= Len(s) THEN Len(s) - (from + m) ELSE 0
  <2>1. from + m \in Nat
    OBVIOUS
  <2>2. /\ b \in Seq(S)
        /\ \A i \in 1..Len(b) : b[i] = s[(from + m) + i]
        /\ Len(b) = IF (from + m) + n < Len(s) THEN n
                    ELSE IF from + m <= Len(s) THEN Len(s) - (from + m) ELSE 0
    BY <2>1, SliceProperties
  <2>3. QED
    BY <2>2
<1>3. /\ c \in Seq(S)
      /\ \A i \in 1..Len(c) : c[i] = s[from + i]
      /\ Len(c) = IF from + m + n < Len(s) THEN m + n
                  ELSE IF from <= Len(s) THEN Len(s) - from ELSE 0
  <2>1. m + n \in Nat /\ from + (m + n) = from + m + n
    OBVIOUS
  <2>2. /\ c \in Seq(S)
        /\ \A i \in 1..Len(c) : c[i] = s[from + i]
        /\ Len(c) = IF from + (m + n) < Len(s) THEN m + n
                    ELSE IF from <= Len(s) THEN Len(s) - from ELSE 0
    BY <2>1, SliceProperties
  <2> HIDE DEF c
  <2>3. QED
    BY <2>1, <2>2
<1> HIDE DEF a, b, c
<1>4. /\ Len(a) + Len(b) = Len(c) /\ Len(a) \in Nat /\ Len(b) \in Nat
      /\ Len(b) # 0 => Len(a) = m
  <2>1. CASE from + m < Len(s)
    BY <2>1, <1>0, <1>1, <1>2, <1>3
  <2>2. CASE ~(from + m < Len(s))
    <3>1. Len(b) = 0
      BY <2>2, <1>0, <1>2
    <3>2. Len(a) = IF from <= Len(s) THEN Len(s) - from ELSE 0
      BY <2>2, <1>0, <1>1
    <3>3. Len(c) = IF from <= Len(s) THEN Len(s) - from ELSE 0
      BY <2>2, <1>0, <1>3
    <3>4. QED
      BY <3>1, <3>2, <3>3, <1>0
  <2>3. QED
    BY <2>1, <2>2
<1>5. /\ a \o b \in Seq(S) /\ Len(a \o b) = Len(c)
      /\ \A i \in 1..Len(c) :
           (a \o b)[i] = IF i <= Len(a) THEN a[i] ELSE b[i - Len(a)]
  <2>1. a \in Seq(S) /\ b \in Seq(S)
    BY <1>1, <1>2
  <2>2. /\ a \o b \in Seq(S)
        /\ Len(a \o b) = Len(a) + Len(b)
        /\ \A i \in 1..Len(a) + Len(b) :
             (a \o b)[i] = IF i <= Len(a) THEN a[i] ELSE b[i - Len(a)]
    BY <2>1, ConcatProperties, Zenon
  <2>3. QED
    BY <2>2, <1>4
<1>6. ASSUME NEW i \in 1..Len(a \o b) PROVE (a \o b)[i] = c[i]
  <2>1. i \in 1..Len(c) /\ c[i] = s[from + i]
    BY <1>3, <1>5
  <2>2. CASE i <= Len(a)
    <3>1. i \in 1..Len(a)
      BY <2>2, <1>4
    <3>2. QED
      BY <3>1, <2>1, <2>2, <1>1, <1>5
  <2>3. CASE ~(i <= Len(a))
    <3>1. i - Len(a) \in 1..Len(b)
      BY <2>1, <2>3, <1>4
    <3>2. from + m + (i - Len(a)) = from + i
      BY <3>1, <1>4
    <3>3. QED
      BY <3>1, <3>2, <2>1, <2>3, <1>2, <1>5
  <2>4. QED
    BY <2>2, <2>3
<1>7. a \o b = c
  BY <1>3, <1>5, <1>6, SeqEqual
<1>8. QED
  BY <1>7 DEF Joins, a, b, c

\* A slice of a slice is one of the sequence, if the outer one holds as much of
\* the sequence as the inner one asks for.
LEMMA SliceOfSlice ==
  ASSUME NEW S, NEW s \in Seq(S), NEW from \in Nat, NEW m \in Nat,
         NEW k \in Nat, NEW n \in Nat,
         Holds(s, from, m, k, n)
  PROVE  Slice(Slice(s, from, m), k, n) = Slice(s, from + k, n)
<1> DEFINE a == Slice(s, from, m)
           b == Slice(a, k, n)
           c == Slice(s, from + k, n)
<1>0. Len(s) \in Nat /\ (k + n <= m \/ Len(s) <= from + m)
  BY LenProperties DEF Holds
<1>1. /\ a \in Seq(S)
      /\ \A i \in 1..Len(a) : a[i] = s[from + i]
      /\ Len(a) = IF from + m < Len(s) THEN m
                  ELSE IF from <= Len(s) THEN Len(s) - from ELSE 0
  BY SliceProperties
<1>2. /\ c \in Seq(S)
      /\ \A i \in 1..Len(c) : c[i] = s[from + k + i]
      /\ Len(c) = IF from + k + n < Len(s) THEN n
                  ELSE IF from + k <= Len(s) THEN Len(s) - (from + k) ELSE 0
  <2>1. from + k \in Nat
    OBVIOUS
  <2>2. /\ c \in Seq(S)
        /\ \A i \in 1..Len(c) : c[i] = s[(from + k) + i]
        /\ Len(c) = IF (from + k) + n < Len(s) THEN n
                    ELSE IF from + k <= Len(s) THEN Len(s) - (from + k) ELSE 0
    BY <2>1, SliceProperties
  <2>3. QED
    BY <2>2
<1> HIDE DEF a
<1>3. Len(a) \in Nat
  BY <1>0, <1>1
<1>4. /\ b \in Seq(S)
      /\ \A i \in 1..Len(b) : b[i] = a[k + i]
      /\ Len(b) = IF k + n < Len(a) THEN n
                  ELSE IF k <= Len(a) THEN Len(a) - k ELSE 0
  BY <1>1, SliceProperties
<1> HIDE DEF b, c
<1>5. Len(b) = Len(c)
  <2>1. /\ Len(a) = IF from + m < Len(s) THEN m
                    ELSE IF from <= Len(s) THEN Len(s) - from ELSE 0
        /\ Len(c) = IF from + k + n < Len(s) THEN n
                    ELSE IF from + k <= Len(s) THEN Len(s) - (from + k) ELSE 0
        /\ Len(b) = IF k + n < Len(a) THEN n
                    ELSE IF k <= Len(a) THEN Len(a) - k ELSE 0
    BY <1>1, <1>2, <1>4, Zenon
  <2>2. CASE from + m < Len(s)
    BY <2>1, <2>2, <1>0, SMTT(30)
  <2>3. CASE ~(from + m < Len(s))
    BY <2>1, <2>3, <1>0, SMTT(30)
  <2>4. QED
    BY <2>2, <2>3
<1>6. ASSUME NEW i \in 1..Len(b) PROVE b[i] = c[i]
  <2>1. i \in 1..Len(c) /\ k + i \in 1..Len(a) /\ from + (k + i) = from + k + i
    BY <1>3, <1>4, <1>5
  <2>2. QED
    BY <2>1, <1>1, <1>2, <1>4
<1>7. b = c
  BY <1>2, <1>4, <1>5, <1>6, SeqEqual
<1>8. QED
  BY <1>7 DEF a, b, c

-----------------------------------------------------------------------------
(* Sequences that have each element once *)

\* A sequence of a finite set has each element once.
LEMMA EachOnce ==
  ASSUME NEW S, IsFiniteSet(S)
  PROVE  /\ SetToSeq(S) \in [1..Cardinality(S) -> S] /\ Cardinality(S) \in Nat
         /\ \A k, l \in 1..Cardinality(S) : SetToSeq(S)[k] = SetToSeq(S)[l] => k = l
         /\ \A e \in S : \E k \in 1..Cardinality(S) : SetToSeq(S)[k] = e
<1> DEFINE n == Cardinality(S)
           f == SetToSeq(S)
<1>1. n \in Nat /\ ExistsBijection(1..n, S)
  BY FS_CardinalityType, Zenon
<1>2. PICK g : g \in Bijection(1..n, S)
  BY <1>1 DEF ExistsBijection
<1>3. g \in [1..n -> S] /\ IsInjective(g)
  BY <1>2 DEF Bijection, Injection, IsInjective
<1>4. f \in [1..n -> S] /\ IsInjective(f)
  BY <1>3 DEF SetToSeq
<1> HIDE DEF f
<1>5. f \in Injection(1..n, S)
  BY <1>4 DEF IsInjective, Injection
<1>6. IsFiniteSet(1..n) /\ Cardinality(1..n) = n
  <2>1. /\ IsFiniteSet(1..n)
        /\ Cardinality(1..n) = IF 1 > n THEN 0 ELSE n - 1 + 1
    <3> HIDE DEF n
    <3>1. 1 \in Int /\ n \in Int
      BY <1>1
    <3>2. QED
      BY <3>1, FS_Interval
  <2> HIDE DEF n
  <2>2. QED
    BY <1>1, <2>1
<1>7. f \in Surjection(1..n, S)
  BY <1>5, <1>6, FS_Injection, Zenon
<1> HIDE DEF n
<1>8. \A e \in S : \E k \in 1..n : f[k] = e
  BY <1>7 DEF Surjection
<1>9. \A k, l \in 1..n : f[k] = f[l] => k = l
  BY <1>4 DEF IsInjective
<1>10. QED
  BY <1>1, <1>4, <1>8, <1>9 DEF f, n

\* Without one element, a sequence that has each once has the others.
LEMMA RemovesOne ==
  ASSUME NEW S, NEW list \in Seq(S), IsInjective(list), NEW e \in Range(list)
  PROVE  /\ RemoveFirst(list, e) \in Seq(S) /\ IsInjective(RemoveFirst(list, e))
         /\ Range(RemoveFirst(list, e)) = Range(list) \ {e}
<1> DEFINE n  == Len(list)
           at == {i \in 1..n : list[i] = e}
           k  == Min(at)
           left == SubSeq(list, 1, k - 1) \o SubSeq(list, k + 1, n)
<1>1. n \in Nat /\ DOMAIN list = 1..n /\ at # {} /\ at \subseteq Nat
  BY DEF Range
<1>2. k \in at
  <2>1. \E x \in at : \A y \in at : x <= y
    BY <1>1, NatMin, Zenon
  <2>2. QED
    BY <2>1 DEF Min
<1>3. RemoveFirst(list, e) = left
  BY <1>1 DEF RemoveFirst, RemoveAt, SelectInSeq
<1>4. k \in 1..n /\ list[k] = e
  BY <1>2
<1> HIDE DEF k, at
<1>5. /\ left \in Seq(S) /\ DOMAIN left = 1..(n - 1)
      /\ \A i \in 1..(n - 1) : left[i] = IF i < k THEN list[i] ELSE list[i + 1]
  <2> DEFINE a == SubSeq(list, 1, k - 1)
             b == SubSeq(list, k + 1, n)
  <2>1. a \in Seq(S) /\ Len(a) = k - 1 /\ \A i \in 1..(k - 1) : a[i] = list[i]
    BY <1>1, <1>4
  <2>2. b \in Seq(S) /\ Len(b) = n - k /\ \A i \in 1..(n - k) : b[i] = list[k + i]
    <3> DEFINE m == k + 1
    <3>1. m \in Int /\ n \in Int /\ \A i \in m..n : list[i] \in S
      BY <1>1, <1>4
    <3> HIDE DEF m, n
    <3>2. /\ SubSeq(list, m, n) \in Seq(S)
          /\ Len(SubSeq(list, m, n)) = IF m <= n THEN n - m + 1 ELSE 0
          /\ \A i \in 1..(n - m + 1) : SubSeq(list, m, n)[i] = list[m + i - 1]
      BY <3>1, SubSeqProperties
    <3>3. b = SubSeq(list, m, n)
      BY DEF m
    <3> HIDE DEF b
    <3>4. n - m + 1 = n - k /\ \A i \in 1..(n - k) : m + i - 1 = k + i
      BY <1>1, <1>4 DEF m
    <3>5. m <= n \/ n - k = 0
      BY <1>1, <1>4 DEF m
    <3>6. QED
      BY <1>1, <1>4, <3>2, <3>3, <3>4, <3>5 DEF m
  <2> HIDE DEF a, b
  <2>3. left = a \o b
    BY DEF a, b
  <2> HIDE DEF left, n
  <2>4. /\ a \o b \in Seq(S) /\ Len(a \o b) = Len(a) + Len(b)
        /\ \A i \in 1..(Len(a) + Len(b)) :
             (a \o b)[i] = IF i <= Len(a) THEN a[i] ELSE b[i - Len(a)]
    BY <2>1, <2>2, ConcatProperties
  <2>5. /\ left \in Seq(S) /\ Len(left) = n - 1
        /\ \A i \in 1..(n - 1) : left[i] = IF i < k THEN a[i] ELSE b[i - (k - 1)]
    <3>1. /\ Len(a) + Len(b) = n - 1 /\ Len(a) = k - 1
          /\ \A i \in 1..(n - 1) : i <= k - 1 <=> i < k
      BY <1>1, <1>4, <2>1, <2>2
    <3>2. \A i \in 1..(n - 1) :
            left[i] = IF i <= k - 1 THEN a[i] ELSE b[i - (k - 1)]
      BY <2>3, <2>4, <3>1
    <3>3. QED
      BY <2>3, <2>4, <3>1, <3>2
  <2>6. ASSUME NEW i \in 1..(n - 1), ~(i < k) PROVE left[i] = list[i + 1]
    <3>1. i - (k - 1) \in 1..(n - k) /\ k + (i - (k - 1)) = i + 1
      BY <1>1, <1>4, <2>6
    <3>2. QED
      BY <2>2, <2>5, <2>6, <3>1
  <2>7. ASSUME NEW i \in 1..(n - 1), i < k PROVE left[i] = list[i]
    <3>1. i \in 1..(k - 1)
      BY <1>1, <1>4, <2>7
    <3>2. QED
      BY <2>1, <2>5, <2>7, <3>1
  <2>8. QED
    BY <1>1, <2>5, <2>6, <2>7
<1> HIDE DEF left
<1>6. IsInjective(left)
  <2>1. ASSUME NEW i \in 1..(n - 1), NEW j \in 1..(n - 1), left[i] = left[j]
        PROVE  i = j
    <3> DEFINE from(l) == IF l < k THEN l ELSE l + 1
    <3>1. /\ from(i) \in 1..n /\ from(j) \in 1..n
          /\ left[i] = list[from(i)] /\ left[j] = list[from(j)]
      BY <1>1, <1>4, <1>5
    <3>2. from(i) = from(j)
      BY <1>1, <2>1, <3>1, Zenon DEF IsInjective
    <3>3. QED
      BY <1>4, <3>2
  <2>2. QED
    BY <1>5, <2>1 DEF IsInjective
<1>7. ASSUME NEW f \in Range(left) PROVE f \in Range(list) \ {e}
  <2>1. PICK i \in 1..(n - 1) : f = left[i]
    BY <1>5, <1>7 DEF Range
  <2>2. PICK j \in 1..n : f = list[j] /\ j # k
    BY <1>1, <1>4, <1>5, <2>1
  <2>3. QED
    BY <1>1, <1>4, <2>2 DEF IsInjective, Range
<1>8. ASSUME NEW f \in Range(list) \ {e} PROVE f \in Range(left)
  <2>1. PICK j \in 1..n : f = list[j] /\ j # k
    BY <1>1, <1>4, <1>8 DEF Range
  <2>2. CASE j < k
    <3>1. j \in 1..(n - 1) /\ left[j] = f
      BY <1>1, <1>4, <1>5, <2>1, <2>2
    <3>2. QED
      BY <1>5, <3>1 DEF Range
  <2>3. CASE j > k
    <3>1. j - 1 \in 1..(n - 1) /\ left[j - 1] = f
      BY <1>1, <1>4, <1>5, <2>1, <2>3
    <3>2. QED
      BY <1>5, <3>1 DEF Range
  <2>4. QED
    BY <1>4, <2>1, <2>2, <2>3
<1>9. QED
  BY <1>3, <1>5, <1>6, <1>7, <1>8

-----------------------------------------------------------------------------
(* Flattened sequences *)

\* The function g has the first sequences joined, for every number of them.
JoinsSoFar(g, seqs) ==
  g = [i \in 1..Len(seqs) |-> IF i = 1 THEN seqs[i] ELSE g[i - 1] \o seqs[i]]

\* Flattening sequences is joining them from left to right.
LEMMA FlattenJoins ==
  ASSUME NEW seqs, Len(seqs) \in Nat \ {0}, NEW g, JoinsSoFar(g, seqs)
  PROVE  FlattenSeq(seqs) = g[Len(seqs)]
<1> DEFINE n == Len(seqs)
<1>0. /\ n \in Nat \ {0}
      /\ g = [i \in 1..n |-> IF i = 1 THEN seqs[i] ELSE g[i - 1] \o seqs[i]]
  BY DEF JoinsSoFar
<1> DEFINE f == CHOOSE f : f = [i \in 1..n |-> IF i = 1 THEN seqs[i]
                                               ELSE f[i - 1] \o seqs[i]]
<1>1. FlattenSeq(seqs) = f[n]
  BY DEF FlattenSeq
<1>2. \E h : h = [i \in 1..n |-> IF i = 1 THEN seqs[i] ELSE h[i - 1] \o seqs[i]]
  BY <1>0, Zenon
<1>3. f = [i \in 1..n |-> IF i = 1 THEN seqs[i] ELSE f[i - 1] \o seqs[i]]
  BY <1>2, Zenon
<1> HIDE DEF f, n
<1>4. \A i \in 1..n : f[i] = g[i]
  <2> DEFINE differ == {i \in 1..n : f[i] # g[i]}
  <2>1. SUFFICES ASSUME differ # {} PROVE FALSE
    OBVIOUS
  <2>2. differ \subseteq Nat
    OBVIOUS
  <2>3. PICK i \in differ : \A j \in differ : i <= j
    BY <2>1, <2>2, NatMin, Zenon
  <2>4. i \in 1..n /\ f[i] # g[i]
    OBVIOUS
  <2>5. f[i] = IF i = 1 THEN seqs[i] ELSE f[i - 1] \o seqs[i]
    BY <2>4, <1>3
  <2>6. g[i] = IF i = 1 THEN seqs[i] ELSE g[i - 1] \o seqs[i]
    BY <2>4, <1>0
  <2>7. i # 1 /\ f[i - 1] # g[i - 1]
    BY <2>4, <2>5, <2>6
  <2>8. i - 1 \in differ
    BY <1>0, <2>4, <2>7
  <2>9. QED
    BY <2>3, <2>4, <2>8
<1>5. FlattenSeq(seqs) = g[n]
  BY <1>0, <1>1, <1>4
<1>6. QED
  BY <1>5 DEF n

-----------------------------------------------------------------------------
(* Folds *)

\* The function that a fold over the numbers up to n defines: it takes the
\* greatest of a set last.
Folds(iter, n, base, step) ==
  iter = [T \in SUBSET (1..n) |->
            IF T = {} THEN base ELSE step[<<iter[T \ {Max(T)}], Max(T)>>]]

\* The greatest of some numbers is one of them, and the others are below it.
LEMMA MaxOfSome ==
  ASSUME NEW n \in Nat, NEW T \in SUBSET (1..n), T # {}
  PROVE  /\ Max(T) \in T /\ \A x \in T : x <= Max(T)
         /\ \A m \in T : (\A x \in T : x <= m) => Max(T) = m
<1>1. T \subseteq 0..n
  OBVIOUS
<1>2. \E x \in T : \A y \in T : x >= y
  BY <1>1, NatMax, Zenon
<1>3. Max(T) \in T /\ \A y \in T : Max(T) >= y
  BY <1>2, Zenon DEF Max
<1> DEFINE top == Max(T)
<1> HIDE DEF top
<1>4. top \in T /\ \A y \in T : y <= top
  <2>1. top \in T /\ \A y \in T : top >= y
    BY <1>3 DEF top
  <2>2. QED
    BY <2>1
<1>5. \A m \in T : (\A x \in T : x <= m) => top = m
  BY <1>4
<1>6. QED
  BY <1>4, <1>5 DEF top

\* There is such a function, so that the one that is chosen is one.
LEMMA FoldDefined ==
  ASSUME NEW A, NEW n \in Nat, NEW base \in A, NEW step \in [A \X (1..n) -> A]
  PROVE  \E iter \in [SUBSET (1..n) -> A] : Folds(iter, n, base, step)
<1> DEFINE Defined(k) == \E g \in [SUBSET (1..k) -> A] : Folds(g, k, base, step)
           fails      == {k \in 0..n : ~Defined(k)}
<1>1. SUFFICES ASSUME ~Defined(n) PROVE FALSE
  OBVIOUS
<1> HIDE DEF Defined
<1>2. n \in fails /\ fails \subseteq Nat
  BY <1>1
<1>3. PICK k \in fails : \A l \in fails : k <= l
  BY <1>2, NatMin, Zenon
<1>4. k \in 0..n /\ ~Defined(k)
  OBVIOUS
<1>5. k # 0
  <2> USE DEF Defined
  <2>1. ASSUME k = 0 PROVE Defined(k)
    <3> DEFINE g == [T \in SUBSET (1..0) |-> base]
    <3>1. SUBSET (1..0) = {{}}
      OBVIOUS
    <3>2. g \in [SUBSET (1..0) -> A] /\ Folds(g, 0, base, step)
      BY <3>1 DEF Folds
    <3>3. QED
      BY <2>1, <3>2
  <2>2. QED
    BY <1>4, <2>1
<1>6. /\ k \in Nat /\ k \in 1..n /\ k - 1 \in Nat /\ k - 1 \in 0..n
      /\ 1..k = 1..(k - 1) \cup {k} /\ k \notin 1..(k - 1)
  BY <1>4, <1>5
<1>7. Defined(k - 1)
  <2>1. k - 1 \notin fails
    BY <1>3, <1>6
  <2>2. QED
    BY <1>6, <2>1
<1>8. PICK g \in [SUBSET (1..(k - 1)) -> A] : Folds(g, k - 1, base, step)
  BY <1>7 DEF Defined
<1> HIDE DEF fails
<1> DEFINE h == [T \in SUBSET (1..k) |-> IF k \in T THEN step[<<g[T \ {k}], k>>]
                                         ELSE g[T]]
<1>9. ASSUME NEW T \in SUBSET (1..k) PROVE T \ {k} \in SUBSET (1..(k - 1))
  BY <1>6
<1>10. h \in [SUBSET (1..k) -> A]
  <2>1. ASSUME NEW T \in SUBSET (1..k), k \in T PROVE step[<<g[T \ {k}], k>>] \in A
    <3>1. g[T \ {k}] \in A
      BY <1>9
    <3>2. QED
      BY <3>1, <1>6
  <2>2. ASSUME NEW T \in SUBSET (1..k), k \notin T PROVE g[T] \in A
    <3>1. T \in SUBSET (1..(k - 1))
      BY <1>6, <2>2
    <3>2. QED
      BY <3>1
  <2>3. QED
    BY <2>1, <2>2
<1>11. ASSUME NEW T \in SUBSET (1..k)
       PROVE  h[T] = IF T = {} THEN base ELSE step[<<h[T \ {Max(T)}], Max(T)>>]
  <2>1. CASE k \in T
    <3>1. Max(T) = k
      <4>1. \A x \in T : x <= k
        BY <1>6
      <4>2. QED
        BY <1>6, <2>1, <4>1, MaxOfSome
    <3>2. k \notin T \ {k} /\ T \ {k} \in SUBSET (1..k) /\ T # {}
      BY <2>1
    <3>3. h[T \ {k}] = g[T \ {k}]
      BY <3>2
    <3>4. h[T] = step[<<g[T \ {k}], k>>]
      BY <2>1
    <3>5. QED
      BY <3>1, <3>2, <3>3, <3>4
  <2>2. CASE k \notin T
    <3>1. T \in SUBSET (1..(k - 1)) /\ T \ {Max(T)} \in SUBSET (1..k)
          /\ k \notin T \ {Max(T)}
      BY <1>6, <2>2
    <3>2. h[T] = g[T] /\ h[T \ {Max(T)}] = g[T \ {Max(T)}]
      BY <2>2, <3>1
    <3>3. g[T] = IF T = {} THEN base ELSE step[<<g[T \ {Max(T)}], Max(T)>>]
      BY <1>8, <3>1 DEF Folds
    <3>4. QED
      BY <3>2, <3>3
  <2>3. QED
    BY <2>1, <2>2
<1> DEFINE value == [T \in SUBSET (1..k) |->
                       IF T = {} THEN base ELSE step[<<h[T \ {Max(T)}], Max(T)>>]]
<1>12. h = value
  <2>1. DOMAIN value = SUBSET (1..k)
        /\ \A T \in SUBSET (1..k) :
             value[T] = IF T = {} THEN base ELSE step[<<h[T \ {Max(T)}], Max(T)>>]
    OBVIOUS
  <2> HIDE DEF h
  <2>2. \A T \in SUBSET (1..k) : h[T] = value[T]
    BY <1>11, <2>1
  <2>3. value = [T \in SUBSET (1..k) |-> value[T]]
    OBVIOUS
  <2>4. h = [T \in SUBSET (1..k) |-> h[T]]
    BY <1>10
  <2> HIDE DEF value
  <2>5. QED
    BY <2>2, <2>3, <2>4
<1> HIDE DEF h
<1>13. Folds(h, k, base, step)
  BY <1>12 DEF Folds
<1>14. Defined(k)
  BY <1>10, <1>13 DEF Defined
<1>15. QED
  BY <1>4, <1>14

\* Without its greatest, the set of the first k numbers is that of the first k - 1.
LEMMA FirstNumbers ==
  ASSUME NEW n \in Nat, NEW k \in 1..n
  PROVE  /\ 1..k \in SUBSET (1..n) /\ 1..k # {} /\ 1..(k - 1) \in SUBSET (1..n)
         /\ Max(1..k) = k /\ (1..k) \ {Max(1..k)} = 1..(k - 1)
<1>1. k \in Nat /\ k <= n /\ k >= 1 /\ k \in 1..k
  OBVIOUS
<1>2. 1..k \in SUBSET (1..n) /\ 1..(k - 1) \in SUBSET (1..n)
  BY <1>1
<1>3. Max(1..k) = k
  <2>1. \A x \in 1..k : x <= k
    OBVIOUS
  <2>2. QED
    BY <1>1, <1>2, <2>1, MaxOfSome
<1>4. (1..k) \ {k} = 1..(k - 1)
  <2>1. \A x : x \in (1..k) \ {k} <=> x \in 1..(k - 1)
    BY <1>1
  <2>2. QED
    BY <2>1, Zenon
<1>5. QED
  BY <1>1, <1>2, <1>3, <1>4

\* As long as the values of a fold are in a set, they are those of a function of
\* the value before and the number of the step.
StepsIn(A, folded, n, base, step) ==
  /\ folded[{}] = base
  /\ \A k \in 1..n : folded[1..(k - 1)] \in A =>
                       folded[1..k] = step[<<folded[1..(k - 1)], k>>]

\* good[k] has the values a fold may have after k steps.
Keeps(A, good, n, base, step) ==
  /\ good \in [0..n -> SUBSET A] /\ base \in good[0]
  /\ \A k \in 1..n : \A a \in good[k - 1] : step[<<a, k>>] \in good[k]

\* What holds of the base of a fold, and after each step if it held before it,
\* holds of the fold.
LEMMA FoldKeeps ==
  ASSUME NEW A, NEW n \in Nat, NEW base, NEW step, NEW good, NEW folded,
         Keeps(A, good, n, base, step), StepsIn(A, folded, n, base, step)
  PROVE  folded[1..n] \in good[n]
<1> DEFINE fails == {k \in 0..n : folded[1..k] \notin good[k]}
<1>1. SUFFICES ASSUME fails # {} PROVE FALSE
  <2>1. n \in 0..n
    OBVIOUS
  <2>2. QED
    BY <2>1
<1>2. fails \subseteq Nat
  OBVIOUS
<1>3. PICK k \in fails : \A l \in fails : k <= l
  BY <1>1, <1>2, NatMin, Zenon
<1>4. k \in 0..n /\ folded[1..k] \notin good[k]
  OBVIOUS
<1>5. k # 0
  <2>1. 1..0 = {}
    OBVIOUS
  <2>2. folded[1..0] \in good[0]
    BY <2>1 DEF Keeps, StepsIn
  <2>3. QED
    BY <1>4, <2>2
<1>6. k \in 1..n /\ k - 1 \in 0..n /\ ~(k <= k - 1)
  BY <1>4, <1>5
<1>7. folded[1..(k - 1)] \in good[k - 1]
  BY <1>3, <1>6
<1>8. good[k - 1] \subseteq A
  BY <1>6 DEF Keeps
<1>9. folded[1..k] = step[<<folded[1..(k - 1)], k>>]
  BY <1>6, <1>7, <1>8 DEF StepsIn
<1>10. QED
  BY <1>4, <1>6, <1>7, <1>9 DEF Keeps

\* The values of a fold are of the set its steps stay in.
LEMMA FoldStays ==
  ASSUME NEW A, NEW n \in Nat, NEW base \in A, NEW step \in [A \X (1..n) -> A],
         NEW folded, StepsIn(A, folded, n, base, step)
  PROVE  folded[1..n] \in A
<1> DEFINE good == [k \in 0..n |-> A]
<1>1. Keeps(A, good, n, base, step) /\ good[n] = A
  BY DEF Keeps
<1> HIDE DEF good
<1>2. folded[1..n] \in good[n]
  BY <1>1, FoldKeeps
<1>3. QED
  BY <1>1, <1>2

\* Without an element that it does not have, a sequence stays as it is.
LEMMA RemovesAny ==
  ASSUME NEW S, NEW list \in Seq(S), IsInjective(list), NEW e
  PROVE  /\ RemoveFirst(list, e) \in Seq(S) /\ IsInjective(RemoveFirst(list, e))
         /\ Range(RemoveFirst(list, e)) = Range(list) \ {e}
<1>1. CASE e \in Range(list)
  BY <1>1, RemovesOne
<1>2. CASE e \notin Range(list)
  <2>1. ~ \E i \in 1..Len(list) : list[i] = e
    BY <1>2 DEF Range
  <2>2. RemoveFirst(list, e) = list
    BY <2>1 DEF RemoveFirst
  <2>3. QED
    BY <1>2, <2>2
<1>3. QED
  BY <1>1, <1>2

\* Removing elements one after another leaves the others, each once.
LEMMA RemovesAll ==
  ASSUME NEW S, NEW list \in Seq(S), IsInjective(list), NEW gone \in Seq(S)
  PROVE  LET left == FoldLeft(RemoveFirst, list, gone)
         IN  /\ left \in Seq(S) /\ IsInjective(left)
             /\ Range(left) = Range(list) \ Range(gone)
<1> DEFINE n    == Len(gone)
           A    == {l \in Seq(S) : IsInjective(l)}
           step == [p \in A \X (1..n) |-> RemoveFirst(p[1], gone[p[2]])]
           Good(l, k) == /\ l \in Seq(S) /\ IsInjective(l)
                         /\ Range(l) = Range(list) \ {gone[i] : i \in 1..k}
           Equation(iter) ==
             iter = [T \in SUBSET (1..n) |->
                       IF T = {} THEN list
                       ELSE RemoveFirst(iter[T \ {Max(T)}], gone[Max(T)])]
           folded == CHOOSE iter : Equation(iter)
<1>1. n \in Nat /\ DOMAIN gone = 1..n /\ \A i \in 1..n : gone[i] \in S
  OBVIOUS
<1>2. FoldLeft(RemoveFirst, list, gone) = folded[1..n]
  BY <1>1 DEF FoldLeft, MapThenFoldSet
<1>3. step \in [A \X (1..n) -> A]
  <2>1. ASSUME NEW p \in A \X (1..n) PROVE RemoveFirst(p[1], gone[p[2]]) \in A
    <3>1. p[1] \in Seq(S) /\ IsInjective(p[1])
      OBVIOUS
    <3>2. QED
      BY <3>1, RemovesAny
  <2>2. QED
    BY <2>1
<1>4. list \in A
  OBVIOUS
<1> HIDE DEF A, n
<1>5. PICK iter \in [SUBSET (1..n) -> A] : Folds(iter, n, list, step)
  BY <1>1, <1>3, <1>4, FoldDefined
<1>6. ASSUME NEW T \in SUBSET (1..n)
      PROVE  iter[T] = IF T = {} THEN list
                       ELSE RemoveFirst(iter[T \ {Max(T)}], gone[Max(T)])
  <2>1. iter[T] = IF T = {} THEN list ELSE step[<<iter[T \ {Max(T)}], Max(T)>>]
    BY <1>5 DEF Folds
  <2>2. T # {} => Max(T) \in 1..n /\ iter[T \ {Max(T)}] \in A
    BY <1>1, MaxOfSome
  <2>3. QED
    BY <2>1, <2>2
<1>7. Equation(iter)
  <2> DEFINE value == [T \in SUBSET (1..n) |->
                         IF T = {} THEN list
                         ELSE RemoveFirst(iter[T \ {Max(T)}], gone[Max(T)])]
  <2>1. \A T \in SUBSET (1..n) : iter[T] = value[T]
    BY <1>6
  <2>2. iter = [T \in SUBSET (1..n) |-> iter[T]]
    OBVIOUS
  <2>3. value = [T \in SUBSET (1..n) |-> value[T]]
    OBVIOUS
  <2> HIDE DEF value
  <2>4. iter = value
    BY <2>1, <2>2, <2>3
  <2>5. QED
    BY <2>4 DEF value
<1>8. Equation(folded)
  <2> HIDE DEF Equation
  <2>1. QED
    BY <1>7, Zenon
<1> HIDE DEF folded
<1>9. ASSUME NEW T \in SUBSET (1..n)
      PROVE  folded[T] = IF T = {} THEN list
                         ELSE RemoveFirst(folded[T \ {Max(T)}], gone[Max(T)])
  BY <1>8
<1> HIDE DEF Equation, step
<1> DEFINE fails == {k \in 0..n : ~Good(folded[1..k], k)}
<1>10. fails = {}
  <2>1. SUFFICES ASSUME fails # {} PROVE FALSE
    OBVIOUS
  <2>2. fails \subseteq Nat
    OBVIOUS
  <2>3. PICK k \in fails : \A l \in fails : k <= l
    BY <2>1, <2>2, NatMin, Zenon
  <2> HIDE DEF Good
  <2>4. k \in 0..n /\ ~Good(folded[1..k], k)
    OBVIOUS
  <2>5. k # 0
    <3>1. 1..0 = {} /\ 1..0 \in SUBSET (1..n)
      OBVIOUS
    <3>2. folded[1..0] = list
      BY <1>9, <3>1
    <3>3. Good(list, 0)
      BY <3>1 DEF Good
    <3>4. QED
      BY <2>4, <3>2, <3>3
  <2>6. /\ k \in 1..n /\ k - 1 \in 0..n
        /\ 1..k \in SUBSET (1..n) /\ 1..k # {} /\ (1..k) \ {k} = 1..(k - 1)
    <3>1. k \in Nat /\ k <= n /\ k >= 1
      BY <1>1, <2>4, <2>5
    <3>2. k - 1 \in Nat /\ k - 1 <= n
      BY <1>1, <3>1
    <3>3. \A x \in 1..k : x \in 1..n
      BY <1>1, <3>1
    <3>4. \A x : x \in (1..k) \ {k} <=> x \in 1..(k - 1)
      BY <3>1
    <3>5. (1..k) \ {k} = 1..(k - 1)
      BY <3>4, Zenon
    <3>6. k \in 1..k /\ k \in 1..n /\ k - 1 \in 0..n
      BY <1>1, <3>1, <3>2
    <3>7. QED
      BY <3>3, <3>5, <3>6, Zenon
  <2>7. Good(folded[1..(k - 1)], k - 1)
    <3>1. k - 1 \notin fails
      BY <2>3, <2>6
    <3>2. QED
      BY <2>6, <3>1
  <2>8. Max(1..k) = k
    <3>1. k \in 1..k /\ \A x \in 1..k : x <= k
      BY <2>6
    <3>2. QED
      BY <1>1, <2>6, <3>1, MaxOfSome
  <2>9. folded[1..k] = RemoveFirst(folded[1..(k - 1)], gone[k])
    BY <1>9, <2>6, <2>8
  <2>10. Good(folded[1..k], k)
    <3> DEFINE before == folded[1..(k - 1)]
    <3>1. /\ before \in Seq(S) /\ IsInjective(before)
          /\ Range(before) = Range(list) \ {gone[i] : i \in 1..(k - 1)}
      BY <2>7 DEF Good
    <3> HIDE DEF before
    <3>2. /\ RemoveFirst(before, gone[k]) \in Seq(S)
          /\ IsInjective(RemoveFirst(before, gone[k]))
          /\ Range(RemoveFirst(before, gone[k])) = Range(before) \ {gone[k]}
      BY <3>1, RemovesAny
    <3>3. {gone[i] : i \in 1..k} = {gone[i] : i \in 1..(k - 1)} \cup {gone[k]}
      BY <2>6
    <3>4. QED
      BY <2>9, <3>1, <3>2, <3>3 DEF Good, before
  <2>11. QED
    BY <2>4, <2>10
<1>11. Good(folded[1..n], n)
  <2>1. n \in 0..n
    BY <1>1
  <2> HIDE DEF Good
  <2>2. QED
    BY <1>10, <2>1
<1>12. {gone[i] : i \in 1..n} = Range(gone)
  BY <1>1 DEF Range
<1>13. QED
  BY <1>2, <1>11, <1>12
=============================================================================
