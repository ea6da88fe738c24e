---------------------------- MODULE SequenceFacts ----------------------------
(***************************************************************************)
(* Facts about sequences that the proofs of several components need: one   *)
(* element more or less, the values, increasing sequences, and what a      *)
(* filter or a join returns.                                               *)
(***************************************************************************)
EXTENDS Selection, Functions, FiniteSetTheorems, TLAPS

----------------------------------------------------------------------------
(* One element more or less.                                               *)

\* Taking the first element leaves a sequence over the same set.
LEMMA TailFacts ==
  ASSUME NEW S, NEW q \in Seq(S), q # << >>
  PROVE  /\ Head(q) \in S
         /\ Tail(q) \in Seq(S)
         /\ Len(Tail(q)) = Len(q) - 1
         /\ \A i \in 1 .. Len(Tail(q)) : Tail(q)[i] = q[i + 1]
         /\ Head(q) = q[1]
         /\ Len(q) > 0
  BY SMT

\* Adding an element at the end.
LEMMA AppendFacts ==
  ASSUME NEW S, NEW q \in Seq(S), NEW x \in S
  PROVE  /\ Append(q, x) \in Seq(S)
         /\ Len(Append(q, x)) = Len(q) + 1
         /\ \A i \in 1 .. Len(q) : Append(q, x)[i] = q[i]
         /\ Append(q, x)[Len(q) + 1] = x
  BY SMT

\* A sequence over a set is a sequence over any larger one.
LEMMA SeqOfWiderSet ==
  ASSUME NEW S, NEW T, S \subseteq T, NEW q \in Seq(S)
  PROVE  q \in Seq(T)
  BY SMT

\* The values in a sequence after an element is added or the first is taken.
LEMMA RangeFacts ==
  ASSUME NEW S, NEW q \in Seq(S)
  PROVE  /\ \A x \in S : Range(Append(q, x)) = Range(q) \cup {x}
         /\ q # << >> => Range(q) = Range(Tail(q)) \cup {Head(q)}
         /\ Range(q) \subseteq S
PROOF
  <1>1. ASSUME NEW x \in S PROVE Range(Append(q, x)) = Range(q) \cup {x}
    <2>1. DOMAIN q = 1 .. Len(q) /\ DOMAIN Append(q, x) = 1 .. (Len(q) + 1) /\ Len(q) \in Nat
      OBVIOUS
    <2>2. \A i \in 1 .. Len(q) : Append(q, x)[i] = q[i]
      BY AppendFacts
    <2>3. Append(q, x)[Len(q) + 1] = x
      BY AppendFacts
    <2>4. 1 .. (Len(q) + 1) = (1 .. Len(q)) \cup {Len(q) + 1}
      BY <2>1
    <2> QED BY <2>1, <2>2, <2>3, <2>4 DEF Range
  <1>2. ASSUME q # << >> PROVE Range(q) = Range(Tail(q)) \cup {Head(q)}
    <2>1. /\ Tail(q) \in Seq(S) /\ Len(Tail(q)) = Len(q) - 1 /\ Len(q) > 0 /\ Len(q) \in Nat
          /\ \A i \in 1 .. Len(Tail(q)) : Tail(q)[i] = q[i + 1]
          /\ Head(q) = q[1]
      BY <1>2, TailFacts
    <2>2. DOMAIN q = 1 .. Len(q) /\ DOMAIN Tail(q) = 1 .. (Len(q) - 1)
      BY <2>1
    <2>3. \A i \in 1 .. (Len(q) - 1) : i + 1 \in 1 .. Len(q) /\ Tail(q)[i] = q[i + 1]
      BY <2>1
    <2>4. \A i \in 1 .. Len(q) : i = 1 \/ i - 1 \in 1 .. (Len(q) - 1)
      BY <2>1
    <2>5. 1 \in 1 .. Len(q)
      BY <2>1
    <2>6. Range(Tail(q)) \cup {Head(q)} \subseteq Range(q)
      BY <2>1, <2>2, <2>3, <2>5 DEF Range
    <2>7. ASSUME NEW i \in 1 .. Len(q) PROVE q[i] \in Range(Tail(q)) \cup {Head(q)}
      <3>1. CASE i = 1
        BY <3>1, <2>1
      <3>2. CASE i - 1 \in 1 .. (Len(q) - 1)
        <4>1. Tail(q)[i - 1] = q[(i - 1) + 1] /\ (i - 1) + 1 = i
          BY <2>3, <3>2
        <4>2. Tail(q)[i - 1] \in Range(Tail(q))
          BY <3>2, <2>2 DEF Range
        <4> QED BY <4>1, <4>2
      <3> QED BY <3>1, <3>2, <2>4
    <2> QED BY <2>2, <2>6, <2>7 DEF Range
  <1>3. Range(q) \subseteq S
    BY DEF Range
  <1> QED BY <1>1, <1>2, <1>3

\* The values in a sequence with one more element.
LEMMA RangeAppend ==
  ASSUME NEW S, NEW q \in Seq(S), NEW x \in S
  PROVE  Range(Append(q, x)) = Range(q) \cup {x}
BY RangeFacts

\* Later elements are greater; and all elements of s are below all of t.
Increasing(s) == \A i, j \in DOMAIN s : i < j => s[i] < s[j]
Before(s, t) == \A i \in DOMAIN s, j \in DOMAIN t : s[i] < t[j]

\* Taking the first element of an increasing sequence: it is below the others.
LEMMA IncreasingTail ==
  ASSUME NEW q \in Seq(Nat), q # << >>, Increasing(q)
  PROVE  /\ Increasing(Tail(q))
         /\ \A j \in DOMAIN Tail(q) : Head(q) < Tail(q)[j]
PROOF
  <1>1. /\ Tail(q) \in Seq(Nat) /\ Len(Tail(q)) = Len(q) - 1 /\ Len(q) > 0 /\ Len(q) \in Nat
        /\ \A i \in 1 .. Len(Tail(q)) : Tail(q)[i] = q[i + 1]
        /\ Head(q) = q[1]
    BY TailFacts
  <1>2. DOMAIN q = 1 .. Len(q) /\ DOMAIN Tail(q) = 1 .. (Len(q) - 1)
    BY <1>1
  <1>3. \A i \in 1 .. (Len(q) - 1) : i + 1 \in 1 .. Len(q) /\ 1 < i + 1 /\ Tail(q)[i] = q[i + 1]
    BY <1>1
  <1>4. 1 \in 1 .. Len(q)
    BY <1>1
  <1>5. \A i, j \in 1 .. (Len(q) - 1) : i < j => i + 1 < j + 1
    BY <1>1
  <1> QED BY <1>1, <1>2, <1>3, <1>4, <1>5 DEF Increasing

\* Adding an element above all others.
LEMMA IncreasingAppend ==
  ASSUME NEW q \in Seq(Nat), Increasing(q), NEW n \in Nat, \A i \in DOMAIN q : q[i] < n
  PROVE  Increasing(Append(q, n))
PROOF
  <1>1. /\ DOMAIN q = 1 .. Len(q) /\ DOMAIN Append(q, n) = 1 .. (Len(q) + 1) /\ Len(q) \in Nat
    OBVIOUS
  <1>2. /\ \A i \in 1 .. Len(q) : Append(q, n)[i] = q[i]
        /\ Append(q, n)[Len(q) + 1] = n
    BY AppendFacts
  <1>3. \A i \in 1 .. (Len(q) + 1) : i \in 1 .. Len(q) \/ i = Len(q) + 1
    BY <1>1
  <1>4. ASSUME NEW i \in 1 .. (Len(q) + 1), NEW j \in 1 .. (Len(q) + 1), i < j
        PROVE  Append(q, n)[i] < Append(q, n)[j]
    <2>1. i \in 1 .. Len(q)
      BY <1>1, <1>4
    <2>2. CASE j \in 1 .. Len(q)
      BY <1>1, <1>2, <1>4, <2>1, <2>2 DEF Increasing
    <2>3. CASE j = Len(q) + 1
      BY <1>1, <1>2, <2>1, <2>3
    <2> QED BY <1>3, <2>2, <2>3
  <1> QED BY <1>1, <1>4 DEF Increasing

\* An increasing sequence of numbers up to N has no more than N.
LEMMA IncreasingLength ==
  ASSUME NEW N \in Nat, NEW q \in Seq(1 .. N), Increasing(q)
  PROVE  Len(q) <= N
PROOF
  <1>1. q \in [1 .. Len(q) -> 1 .. N] /\ Len(q) \in Nat
    OBVIOUS
  <1>2. ASSUME NEW i \in 1 .. Len(q), NEW j \in 1 .. Len(q), q[i] = q[j]
        PROVE  i = j
    <2>1. i \in DOMAIN q /\ j \in DOMAIN q /\ q[i] \in Nat /\ ~(q[i] < q[j]) /\ ~(q[j] < q[i])
      BY <1>1, <1>2
    <2>2. ~(i < j) /\ ~(j < i)
      BY <2>1 DEF Increasing
    <2> QED
      BY <2>2
  <1>3. q \in Injection(1 .. Len(q), 1 .. N)
    BY <1>1, <1>2 DEF Injection, IsInjective
  <1>4. /\ IsFiniteSet(1 .. Len(q)) /\ Cardinality(1 .. Len(q)) = Len(q)
        /\ IsFiniteSet(1 .. N) /\ Cardinality(1 .. N) = N
    <2>1. \A k \in Nat : IsFiniteSet(1 .. k) /\ Cardinality(1 .. k) = IF 1 > k THEN 0 ELSE k - 1 + 1
      BY FS_Interval
    <2>2. \A k \in Nat : (IF 1 > k THEN 0 ELSE k - 1 + 1) = k
      OBVIOUS
    <2> QED
      BY <1>1, <2>1, <2>2
  <1> QED
    BY <1>3, <1>4, FS_Injection

----------------------------------------------------------------------------
(* Sets in order.                                                          *)

\* upto[x] is what comes up to x in some total order of S.
IsOrderOf(upto, S) ==
  /\ upto \in [S -> SUBSET S]
  /\ \A x \in S : x \in upto[x]
  /\ \A x, y \in S :
       /\ x \in upto[y] \/ y \in upto[x]
       /\ x \in upto[y] => upto[x] \subseteq upto[y]
       /\ x \in upto[y] /\ y \in upto[x] => x = y

\* The later of two elements has more elements up to it.
LEMMA RankGrows ==
  ASSUME NEW S, IsFiniteSet(S), NEW upto, IsOrderOf(upto, S),
         NEW x \in S, NEW y \in S, x # y, x \in upto[y]
  PROVE  Cardinality(upto[x]) < Cardinality(upto[y])
<1>1. upto[x] \subseteq upto[y] /\ y \notin upto[x] /\ y \in upto[y] /\ upto[y] \subseteq S
  BY DEF IsOrderOf
<1>2. IsFiniteSet(upto[y])
  BY <1>1, FS_Subset
<1>3. /\ IsFiniteSet(upto[x])
      /\ Cardinality(upto[x]) <= Cardinality(upto[y])
      /\ Cardinality(upto[x]) # Cardinality(upto[y])
  BY <1>1, <1>2, FS_Subset
<1>4. Cardinality(upto[x]) \in Nat /\ Cardinality(upto[y]) \in Nat
  BY <1>2, <1>3, FS_CardinalityType
<1> QED
  BY <1>3, <1>4

\* Each number up to the size of a finite set is the rank of one element.
LEMMA Ranks ==
  ASSUME NEW S, IsFiniteSet(S), NEW upto, IsOrderOf(upto, S)
  PROVE  /\ Cardinality(S) \in Nat
         /\ \A x \in S : Cardinality(upto[x]) \in 1 .. Cardinality(S)
         /\ \A n \in 1 .. Cardinality(S) : \E x \in S : Cardinality(upto[x]) = n
         /\ \A x, y \in S : Cardinality(upto[x]) = Cardinality(upto[y]) => x = y
<1> DEFINE size == Cardinality(S)
           rank == [x \in S |-> Cardinality(upto[x])]
<1>1. size \in Nat
  BY FS_CardinalityType
<1>2. ASSUME NEW x \in S PROVE Cardinality(upto[x]) \in 1 .. size
  <2>1. upto[x] \in SUBSET S /\ upto[x] # {}
    BY DEF IsOrderOf
  <2>2. IsFiniteSet(upto[x]) /\ Cardinality(upto[x]) <= size
    BY <2>1, FS_Subset
  <2>3. Cardinality(upto[x]) \in Nat /\ Cardinality(upto[x]) # 0
    BY <2>1, <2>2, FS_CardinalityType, FS_EmptySet
  <2> QED
    BY <1>1, <2>2, <2>3
<1>3. ASSUME NEW x \in S, NEW y \in S, Cardinality(upto[x]) = Cardinality(upto[y])
      PROVE  x = y
  <2>1. x \in upto[y] \/ y \in upto[x]
    BY DEF IsOrderOf
  <2> QED
    BY <1>1, <1>2, <1>3, <2>1, RankGrows
<1>4. rank \in Injection(S, 1 .. size)
  BY <1>2, <1>3 DEF Injection, IsInjective
<1>5. IsFiniteSet(1 .. size) /\ Cardinality(1 .. size) = size
  <2>1. /\ IsFiniteSet(1 .. size)
        /\ Cardinality(1 .. size) = IF 1 > size THEN 0 ELSE size - 1 + 1
    BY <1>1, FS_Interval
  <2> QED
    BY <1>1, <2>1
<1>6. rank \in Surjection(S, 1 .. size)
  <2> HIDE DEF rank, size
  <2> QED
    BY <1>4, <1>5, FS_Injection DEF size
<1>7. \A n \in 1 .. size : \E x \in S : Cardinality(upto[x]) = n
  BY <1>6 DEF Surjection
<1> QED
  BY <1>1, <1>2, <1>3, <1>7

\* Sorted lists each element of a finite set once, and in order.
LEMMA SortedFacts ==
  ASSUME NEW S, IsFiniteSet(S), NEW upto, IsOrderOf(upto, S)
  PROVE  /\ Cardinality(S) \in Nat
         /\ Sorted(upto) \in Bijection(1 .. Cardinality(S), S)
         /\ \A n \in 1 .. Cardinality(S) : Cardinality(upto[Sorted(upto)[n]]) = n
         /\ \A m, n \in 1 .. Cardinality(S) :
              m <= n <=> Sorted(upto)[m] \in upto[Sorted(upto)[n]]
<1> DEFINE size == Cardinality(S)
           list == Sorted(upto)
<1>1. DOMAIN upto = S /\ size \in Nat
  BY Ranks DEF IsOrderOf
<1>2. /\ list = [n \in 1 .. size |-> list[n]]
      /\ \A n \in 1 .. size : list[n] \in S /\ Cardinality(upto[list[n]]) = n
  <2>1. list = [n \in 1 .. size |-> CHOOSE x \in S : Cardinality(upto[x]) = n]
    BY <1>1 DEF Sorted
  <2>2. \A n \in 1 .. size : \E x \in S : Cardinality(upto[x]) = n
    BY Ranks
  <2> HIDE DEF list
  <2> QED
    BY <2>1, <2>2
<1> HIDE DEF list, size
<1>3. list \in Injection(1 .. size, S)
  BY <1>2 DEF Injection, IsInjective
<1>4. \A x \in S : \E n \in 1 .. size : list[n] = x
  BY <1>2, Ranks DEF size
<1>5. list \in Bijection(1 .. size, S)
  BY <1>3, <1>4 DEF Bijection, Surjection, Injection
<1>6. ASSUME NEW m \in 1 .. size, NEW n \in 1 .. size
      PROVE  m <= n <=> list[m] \in upto[list[n]]
  <2>1. CASE list[m] = list[n]
    <3>1. m = n
      BY <1>2, <2>1
    <3> QED
      BY <1>2, <3>1 DEF IsOrderOf
  <2>2. CASE list[m] # list[n] /\ list[m] \in upto[list[n]]
    <3>1. m < n
      BY <1>2, <2>2, RankGrows
    <3> QED
      BY <2>2, <3>1, <1>1
  <2>3. CASE list[m] # list[n] /\ list[m] \notin upto[list[n]]
    <3>1. list[n] \in upto[list[m]]
      BY <1>2, <2>3 DEF IsOrderOf
    <3>2. n < m
      BY <1>2, <2>3, <3>1, RankGrows
    <3> QED
      BY <2>3, <3>2, <1>1
  <2> QED
    BY <2>1, <2>2, <2>3
<1> QED
  BY <1>1, <1>2, <1>5, <1>6 DEF list, size

----------------------------------------------------------------------------
(* Filters.                                                                *)

\* The places of a filter ascend, and each comes once.
LEMMA AscendingFacts ==
  ASSUME NEW S \in SUBSET Nat, IsFiniteSet(S)
  PROVE  /\ Cardinality(S) \in Nat
         /\ Ascending(S) \in Bijection(1 .. Cardinality(S), S)
         /\ \A m, n \in 1 .. Cardinality(S) : m < n => Ascending(S)[m] < Ascending(S)[n]
<1> DEFINE upto == [i \in S |-> {j \in S : j <= i}]
<1>1. IsOrderOf(upto, S)
  <2>1. upto \in [S -> SUBSET S]
    OBVIOUS
  <2>2. \A x, y \in S : x \in upto[y] <=> x <= y
    OBVIOUS
  <2>3. ASSUME NEW x \in S, NEW y \in S, x <= y PROVE upto[x] \subseteq upto[y]
    <3>1. \A z \in S : z <= x => z <= y
      BY <2>3
    <3>2. upto[x] = {z \in S : z <= x} /\ upto[y] = {z \in S : z <= y}
      OBVIOUS
    <3> HIDE DEF upto
    <3> QED
      BY <3>1, <3>2
  <2>4. \A x, y \in S : x <= x /\ (x <= y \/ y <= x) /\ (x <= y /\ y <= x => x = y)
    OBVIOUS
  <2> HIDE DEF upto
  <2> QED
    BY <2>1, <2>2, <2>3, <2>4 DEF IsOrderOf
<1>2. /\ Cardinality(S) \in Nat
      /\ Sorted(upto) \in Bijection(1 .. Cardinality(S), S)
      /\ \A m, n \in 1 .. Cardinality(S) :
           m <= n <=> Sorted(upto)[m] \in upto[Sorted(upto)[n]]
  <2> HIDE DEF upto
  <2> QED
    BY <1>1, SortedFacts
<1>3. \A n \in 1 .. Cardinality(S) : Sorted(upto)[n] \in S
  <2> HIDE DEF upto
  <2> QED
    BY <1>2 DEF Bijection, Injection
<1>4. ASSUME NEW m \in 1 .. Cardinality(S), NEW n \in 1 .. Cardinality(S), m < n
      PROVE  Sorted(upto)[m] < Sorted(upto)[n]
  <2>1. m <= n /\ ~(n <= m)
    BY <1>2, <1>4
  <2>2. Sorted(upto)[m] \in upto[Sorted(upto)[n]] /\ ~(Sorted(upto)[n] \in upto[Sorted(upto)[m]])
    <3> HIDE DEF upto
    <3> QED
      BY <1>2, <2>1
  <2> DEFINE a == Sorted(upto)[m]
             b == Sorted(upto)[n]
  <2>3. a \in S /\ b \in S
    BY <1>3
  <2>4. a <= b /\ ~(b <= a)
    <3>1. a \in upto[b] /\ ~(b \in upto[a])
      BY <2>2
    <3> HIDE DEF a, b
    <3> QED
      BY <2>3, <3>1
  <2>5. a \in Nat /\ b \in Nat
    BY <2>3
  <2> QED
    BY <2>4, <2>5
<1> QED
  BY <1>2, <1>4 DEF Ascending

\* What a filter returns: each element that passes once, in the order of the list.
LEMMA SelectAtFacts ==
  ASSUME NEW T, NEW list \in Seq(T), NEW S \in SUBSET DOMAIN list
  PROVE  /\ SelectAt(list, S) \in Seq(T)
         /\ Len(SelectAt(list, S)) = Cardinality(S)
         /\ DOMAIN SelectAt(list, S) = 1 .. Cardinality(S)
         /\ Cardinality(S) \in Nat /\ Cardinality(S) <= Len(list)
         /\ Ascending(S) \in Bijection(1 .. Cardinality(S), S)
         /\ \A m, n \in 1 .. Cardinality(S) : m < n => Ascending(S)[m] < Ascending(S)[n]
         /\ \A n \in 1 .. Cardinality(S) :
              Ascending(S)[n] \in S /\ SelectAt(list, S)[n] = list[Ascending(S)[n]]
         /\ \A i \in S : \E n \in 1 .. Cardinality(S) :
              Ascending(S)[n] = i /\ SelectAt(list, S)[n] = list[i]
<1>1. DOMAIN list = 1 .. Len(list) /\ Len(list) \in Nat /\ S \in SUBSET Nat
  OBVIOUS
<1>2. IsFiniteSet(S) /\ Cardinality(S) <= Len(list)
  <2>1. IsFiniteSet(1 .. Len(list)) /\ Cardinality(1 .. Len(list)) = Len(list)
    <3>1. /\ IsFiniteSet(1 .. Len(list))
          /\ Cardinality(1 .. Len(list)) = IF 1 > Len(list) THEN 0 ELSE Len(list) - 1 + 1
      BY <1>1, FS_Interval
    <3> QED
      BY <1>1, <3>1
  <2>2. S \in SUBSET (1 .. Len(list))
    BY <1>1
  <2> QED
    BY <2>1, <2>2, FS_Subset
<1>3. /\ Cardinality(S) \in Nat
      /\ Ascending(S) \in Bijection(1 .. Cardinality(S), S)
      /\ \A m, n \in 1 .. Cardinality(S) : m < n => Ascending(S)[m] < Ascending(S)[n]
  BY <1>1, <1>2, AscendingFacts
<1>4. /\ \A n \in 1 .. Cardinality(S) : Ascending(S)[n] \in S
      /\ \A i \in S : \E n \in 1 .. Cardinality(S) : Ascending(S)[n] = i
  BY <1>3 DEF Bijection, Injection, Surjection
<1>5. /\ SelectAt(list, S) = [n \in 1 .. Cardinality(S) |-> list[Ascending(S)[n]]]
      /\ \A n \in 1 .. Cardinality(S) : list[Ascending(S)[n]] \in T
  BY <1>1, <1>4 DEF SelectAt
<1>6. /\ SelectAt(list, S) \in Seq(T) /\ Len(SelectAt(list, S)) = Cardinality(S)
      /\ DOMAIN SelectAt(list, S) = 1 .. Cardinality(S)
  BY <1>3, <1>5
<1> QED
  BY <1>2, <1>3, <1>4, <1>5, <1>6

----------------------------------------------------------------------------
(* The first of several.                                                  *)

\* A set of numbers that is not empty has a least element.
LEMMA LeastElement ==
  ASSUME NEW T, T \subseteq Nat, T # {}
  PROVE  \E x \in T : \A y \in T : x <= y
<1>1. PICK x \in T : \A y \in T : ~(<<y, x>> \in OpToRel(<, Nat))
  BY NatLessThanWellFounded, WFMin
<1>2. \A y \in T : <<y, x>> \in Nat \X Nat
  OBVIOUS
<1>3. \A y \in T : ~ (y < x)
  BY <1>1, <1>2 DEF OpToRel
<1> QED
  BY <1>3
=============================================================================
