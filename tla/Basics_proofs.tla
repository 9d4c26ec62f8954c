---------------------------- MODULE Basics_proofs ----------------------------
(***************************************************************************)
(* Facts about numbers and finite sets that the proofs about several       *)
(* modules share: induction and recursion, stated with sets and functions  *)
(* so that they can be cited with a fact of any shape, and sorting.        *)
(***************************************************************************)
EXTENDS Orders, FiniteSetTheorems, SequenceTheorems, TLAPS

\* Induction, for sets of numbers.
LEMMA SetInduction ==
  ASSUME NEW S, 0 \in S, \A n \in Nat : n \in S => n + 1 \in S
  PROVE  Nat \subseteq S
<1> DEFINE less == {pair \in Nat \X Nat : pair[1] < pair[2]}
<1> DEFINE others == Nat \ S
<1>1. IsWellFoundedOn(less, Nat)
  BY NatLessThanWellFounded DEF OpToRel
<1>2. SUFFICES ASSUME others # {} PROVE FALSE
  OBVIOUS
<1>3. PICK m \in others : \A n \in others : <<n, m>> \notin less
  <2>1. others \subseteq Nat
    OBVIOUS
  <2> HIDE DEF less, others
  <2> QED
    BY <1>1, <1>2, <2>1, WFMin
<1>4. m # 0 /\ m - 1 \in Nat /\ m - 1 < m
  OBVIOUS
<1>5. m - 1 \in S
  BY <1>3, <1>4
<1> QED
  BY <1>4, <1>5

\* The values a recursion over the numbers gives.
FromNumbers(g, V, v, step) ==
  g \in [Nat -> V] /\ g[0] = v /\ \A n \in Nat : g[n + 1] = step[<<n, g[n]>>]

\* Functions over the numbers can be defined by recursion.
LEMMA NatRecursion ==
  ASSUME NEW V, NEW v \in V, NEW step \in [Nat \X V -> V]
  PROVE  \E g : FromNumbers(g, V, v, step)
<1> DEFINE Upto(g, n) == /\ g \in [0 .. n -> V] /\ g[0] = v
                         /\ \A i \in Nat : i < n => g[i + 1] = step[<<i, g[i]>>]
<1> DEFINE S == {n \in Nat : \E g \in [0 .. n -> V] : Upto(g, n)}
<1>1. 0 \in S
  <2>1. Upto([i \in 0 .. 0 |-> v], 0)
    OBVIOUS
  <2> QED
    BY <2>1
<1>2. ASSUME NEW n \in Nat, n \in S PROVE n + 1 \in S
  <2>1. PICK g \in [0 .. n -> V] : Upto(g, n)
    BY <1>2
  <2> DEFINE h == [i \in 0 .. n + 1 |-> IF i = n + 1 THEN step[<<n, g[n]>>] ELSE g[i]]
  <2>2. h \in [0 .. n + 1 -> V]
    BY <2>1
  <2>3. h[0] = v
    BY <2>1
  <2>4. ASSUME NEW i \in Nat, i < n + 1 PROVE h[i + 1] = step[<<i, h[i]>>]
    <3>1. CASE i = n
      <4>1. h[i + 1] = step[<<n, g[n]>>] /\ h[i] = g[i]
        BY <3>1
      <4> QED
        BY <3>1, <4>1
    <3>2. CASE i < n
      <4>1. h[i + 1] = g[i + 1] /\ h[i] = g[i]
        BY <3>2
      <4> QED
        BY <3>2, <4>1, <2>1
    <3> QED
      BY <2>4, <3>1, <3>2
  <2>5. Upto(h, n + 1)
    BY <2>2, <2>3, <2>4
  <2> HIDE DEF h, Upto
  <2> QED
    BY <2>2, <2>5
<1>3. Nat \subseteq S
  <2> HIDE DEF S
  <2> QED
    BY <1>1, <1>2, SetInduction
<1> DEFINE part == [n \in Nat |-> CHOOSE g \in [0 .. n -> V] : Upto(g, n)]
<1>4. \A n \in Nat : Upto(part[n], n)
  BY <1>3
<1> HIDE DEF part
<1> DEFINE T == {n \in Nat : \A m \in Nat : n <= m => part[m][n] = part[n][n]}
<1>5. 0 \in T
  BY <1>4
<1>6. ASSUME NEW n \in Nat, n \in T PROVE n + 1 \in T
  <2> SUFFICES ASSUME NEW m \in Nat, n + 1 <= m PROVE part[m][n + 1] = part[n + 1][n + 1]
    OBVIOUS
  <2>1. part[m][n] = part[n][n] /\ part[n + 1][n] = part[n][n]
    BY <1>6
  <2>2. part[m][n + 1] = step[<<n, part[m][n]>>]
    BY <1>4
  <2>3. part[n + 1][n + 1] = step[<<n, part[n + 1][n]>>]
    BY <1>4
  <2> QED
    BY <2>1, <2>2, <2>3
<1>7. Nat \subseteq T
  <2> HIDE DEF T
  <2> QED
    BY <1>5, <1>6, SetInduction
<1> DEFINE f == [n \in Nat |-> part[n][n]]
<1>8. f \in [Nat -> V] /\ f[0] = v
  BY <1>4
<1>9. ASSUME NEW n \in Nat PROVE f[n + 1] = step[<<n, f[n]>>]
  <2>1. part[n + 1][n] = part[n][n]
    BY <1>7
  <2>2. part[n + 1][n + 1] = step[<<n, part[n + 1][n]>>]
    BY <1>4
  <2> QED
    BY <2>1, <2>2
<1> QED
  BY <1>8, <1>9 DEF FromNumbers

-----------------------------------------------------------------------------
(***************************************************************************)
(* Sorting                                                                 *)
(***************************************************************************)

\* What comes before x when S is sorted by key.
Below(S, key, x) == {y \in S : key[y] < key[x]}

\* The number of elements below an element says where it is: elements with different keys
\* have different numbers, in the order of the keys, and no number is left out.
LEMMA Ranks ==
  ASSUME NEW S, IsFiniteSet(S), NEW key \in [S -> Int],
         \A x, y \in S : key[x] = key[y] => x = y
  PROVE  /\ \A x \in S : Cardinality(Below(S, key, x)) \in 0 .. Cardinality(S) - 1
         /\ \A x, y \in S :
              key[x] < key[y] <=> Cardinality(Below(S, key, x)) < Cardinality(Below(S, key, y))
         /\ \A i \in 1 .. Cardinality(S) :
              \E x \in S : Cardinality(Below(S, key, x)) = i - 1
<1> DEFINE rank == [x \in S |-> Cardinality(Below(S, key, x))]
           n    == Cardinality(S)
<1>1. n \in Nat
  BY FS_CardinalityType
<1>2. ASSUME NEW x \in S
      PROVE  /\ IsFiniteSet(Below(S, key, x)) /\ rank[x] \in 0 .. n - 1
  <2>1. Below(S, key, x) \in SUBSET (S \ {x})
    BY DEF Below
  <2>2. IsFiniteSet(S \ {x}) /\ Cardinality(S \ {x}) = n - 1
    BY FS_RemoveElement
  <2>3. IsFiniteSet(Below(S, key, x)) /\ Cardinality(Below(S, key, x)) <= n - 1
    BY <2>1, <2>2, FS_Subset
  <2>4. Cardinality(Below(S, key, x)) \in Nat
    BY <2>3, FS_CardinalityType
  <2> QED
    BY <1>1, <2>3, <2>4
<1>3. ASSUME NEW x \in S, NEW y \in S, key[x] < key[y]
      PROVE  rank[x] < rank[y]
  <2>1. Below(S, key, x) \in SUBSET Below(S, key, y)
    BY <1>3 DEF Below
  <2>2. x \in Below(S, key, y) /\ x \notin Below(S, key, x)
    BY <1>3 DEF Below
  <2>3. /\ Cardinality(Below(S, key, x)) <= Cardinality(Below(S, key, y))
        /\ Cardinality(Below(S, key, x)) # Cardinality(Below(S, key, y))
    BY <1>2, <2>1, <2>2, FS_Subset
  <2> QED
    BY <1>2, <2>3
<1>4. \A x, y \in S : rank[x] = rank[y] => x = y
  <2> SUFFICES ASSUME NEW x \in S, NEW y \in S, rank[x] = rank[y] PROVE x = y
    OBVIOUS
  <2>1. ~(key[x] < key[y]) /\ ~(key[y] < key[x])
    BY <1>2, <1>3
  <2> QED
    BY <2>1
<1>5. rank \in Injection(S, 0 .. n - 1)
  BY <1>2, <1>4 DEF Injection, IsInjective
<1>6. IsFiniteSet(0 .. n - 1) /\ Cardinality(0 .. n - 1) = n
  BY <1>1, FS_Interval
<1>7. rank \in Surjection(S, 0 .. n - 1)
  <2> HIDE DEF rank
  <2> QED
    BY <1>5, <1>6, FS_Injection
<1>8. ASSUME NEW i \in 1 .. n PROVE \E x \in S : rank[x] = i - 1
  <2>1. i - 1 \in 0 .. n - 1
    BY <1>1
  <2> QED
    BY <2>1, <1>7 DEF Surjection
<1>9. ASSUME NEW x \in S, NEW y \in S, rank[x] < rank[y]
      PROVE  key[x] < key[y]
  BY <1>2, <1>3, <1>9
<1> QED
  BY <1>2, <1>3, <1>8, <1>9

\* Of a sequence of growing numbers, those below the i-th are the ones before it.
LEMMA GrowingRanks ==
  ASSUME NEW n \in Nat, NEW p \in [1 .. n -> Int],
         \A i, j \in 1 .. n : i < j => p[i] < p[j],
         NEW i \in 1 .. n
  PROVE  Cardinality({y \in {p[j] : j \in 1 .. n} : y < p[i]}) = i - 1
<1> DEFINE T == {y \in {p[j] : j \in 1 .. n} : y < p[i]}
           f == [j \in 1 .. i - 1 |-> p[j]]
<1>1. f \in Bijection(1 .. i - 1, T)
  <2>1. ASSUME NEW j \in 1 .. i - 1 PROVE f[j] \in T
    OBVIOUS
  <2>2. ASSUME NEW j \in 1 .. i - 1, NEW h \in 1 .. i - 1, f[j] = f[h] PROVE j = h
    <3>1. j \in 1 .. n /\ h \in 1 .. n
      OBVIOUS
    <3>2. ~(j < h) /\ ~(h < j)
      BY <2>2, <3>1
    <3> QED
      BY <3>2
  <2>3. ASSUME NEW y \in T PROVE \E j \in 1 .. i - 1 : f[j] = y
    <3>1. PICK j \in 1 .. n : y = p[j] /\ p[j] < p[i]
      OBVIOUS
    <3>2. j < i
      <4>1. ~(i < j) /\ i # j
        BY <3>1
      <4> QED
        BY <4>1
    <3>3. j \in 1 .. i - 1
      BY <3>2
    <3> QED
      BY <3>1, <3>3
  <2> QED
    BY <2>1, <2>2, <2>3 DEF Bijection, Injection, Surjection, IsInjective
<1>2. IsFiniteSet(1 .. i - 1) /\ Cardinality(1 .. i - 1) = i - 1
  BY FS_Interval
<1> QED
  BY <1>1, <1>2, FS_Bijection DEF ExistsBijection
-----------------------------------------------------------------------------
(***************************************************************************)
(* Recursion over the subsets of a finite set, and sums                    *)
(***************************************************************************)

\* The values a recursion over the subsets of S gives that takes out one element.
FromSubsets(g, S, V, v, step, pick) ==
  /\ g \in [SUBSET S -> V] /\ g[{}] = v
  /\ \A s \in SUBSET S : s # {} => g[s] = step[<<s, g[s \ {pick[s]}]>>]

\* Functions over the subsets of a finite set can be defined by taking out one element.
LEMMA SubsetRecursion ==
  ASSUME NEW S, IsFiniteSet(S), NEW V, NEW v \in V, NEW step \in [(SUBSET S) \X V -> V],
         NEW pick, \A s \in SUBSET S : s # {} => pick[s] \in s
  PROVE  \E g : FromSubsets(g, S, V, v, step, pick)
<1> DEFINE W == [SUBSET S -> V]
           next(h) == [s \in SUBSET S |->
                         IF s = {} THEN v ELSE step[<<s, h[s \ {pick[s]}]>>]]
           start == [s \in SUBSET S |-> v]
           round == [pair \in Nat \X W |-> next(pair[2])]
<1>1. start \in W
  OBVIOUS
<1>2. ASSUME NEW h \in W PROVE next(h) \in W
  <2>1. ASSUME NEW s \in SUBSET S, s # {} PROVE step[<<s, h[s \ {pick[s]}]>>] \in V
    <3>1. s \ {pick[s]} \in SUBSET S
      OBVIOUS
    <3>2. h[s \ {pick[s]}] \in V
      BY <3>1
    <3> QED
      BY <3>2
  <2> QED
    BY <2>1
<1>3. round \in [Nat \X W -> W]
  <2> HIDE DEF next, W
  <2> QED
    BY <1>2
<1>4. PICK rounds : FromNumbers(rounds, W, start, round)
  <2> HIDE DEF W, start, round
  <2> QED
    BY <1>1, <1>3, NatRecursion
<1>5. ASSUME NEW n \in Nat
      PROVE  rounds[n] \in W /\ rounds[n + 1] = next(rounds[n])
  BY <1>4 DEF FromNumbers
<1>6. ASSUME NEW s \in SUBSET S
      PROVE  IsFiniteSet(s) /\ Cardinality(s) \in Nat
  BY FS_Subset, FS_CardinalityType
<1>7. ASSUME NEW s \in SUBSET S, s # {}
      PROVE  /\ s \ {pick[s]} \in SUBSET S
             /\ Cardinality(s) - 1 \in Nat /\ Cardinality(s \ {pick[s]}) = Cardinality(s) - 1
  <2>1. pick[s] \in s
    BY <1>7
  <2>2. Cardinality(s \ {pick[s]}) = Cardinality(s) - 1
    BY <1>6, <2>1, FS_RemoveElement
  <2>3. s \ {pick[s]} \in SUBSET S
    OBVIOUS
  <2> QED
    BY <1>6, <2>2, <2>3
<1> DEFINE settled(n) == \A s \in SUBSET S : Cardinality(s) <= n =>
                           \A m \in Nat : n <= m => rounds[m][s] = rounds[n][s]
           T == {n \in Nat : settled(n)}
<1>8. 0 \in T
  <2> SUFFICES ASSUME NEW s \in SUBSET S, Cardinality(s) <= 0, NEW m \in Nat
               PROVE  rounds[m][s] = rounds[0][s]
    OBVIOUS
  <2>1. s = {}
    <3>1. s # {} => Cardinality(s) - 1 \in Nat
      BY <1>7
    <3> QED
      BY <1>6, <3>1
  <2>2. rounds[0][s] = v
    BY <1>4 DEF FromNumbers
  <2>3. CASE m # 0
    <3>1. m - 1 \in Nat /\ m = (m - 1) + 1
      BY <2>3
    <3>2. rounds[m] = next(rounds[m - 1])
      BY <3>1, <1>5
    <3> QED
      BY <2>1, <2>2, <3>2
  <2> QED
    BY <2>3
<1>9. ASSUME NEW n \in Nat, n \in T PROVE n + 1 \in T
  <2> SUFFICES ASSUME NEW s \in SUBSET S, Cardinality(s) <= n + 1,
                      NEW m \in Nat, n + 1 <= m
               PROVE  rounds[m][s] = rounds[n + 1][s]
    OBVIOUS
  <2>1. m - 1 \in Nat /\ m = (m - 1) + 1 /\ n <= m - 1
    OBVIOUS
  <2>2. rounds[m] = next(rounds[m - 1]) /\ rounds[n + 1] = next(rounds[n])
    BY <2>1, <1>5
  <2>3. CASE s = {}
    BY <2>2, <2>3
  <2>4. CASE s # {}
    <3>1. /\ s \ {pick[s]} \in SUBSET S /\ Cardinality(s \ {pick[s]}) <= n
      BY <1>6, <1>7, <2>4
    <3>2. rounds[m - 1][s \ {pick[s]}] = rounds[n][s \ {pick[s]}]
      BY <3>1, <2>1, <1>9
    <3> QED
      BY <2>2, <2>4, <3>2
  <2> QED
    BY <2>3, <2>4
<1>10. Nat \subseteq T
  <2> HIDE DEF T
  <2> QED
    BY <1>8, <1>9, SetInduction
<1> DEFINE g == [s \in SUBSET S |-> rounds[Cardinality(s)][s]]
<1>11. g \in [SUBSET S -> V]
  <2>1. ASSUME NEW s \in SUBSET S PROVE rounds[Cardinality(s)][s] \in V
    <3> HIDE DEF next, start, round, T
    <3>1. rounds[Cardinality(s)] \in W
      BY <1>5, <1>6
    <3> QED
      BY <3>1
  <2> HIDE DEF next, start, round, T, W
  <2> QED
    BY <2>1
<1>12. g[{}] = v
  BY <1>4, FS_EmptySet DEF FromNumbers
<1>13. ASSUME NEW s \in SUBSET S, s # {}
       PROVE  g[s] = step[<<s, g[s \ {pick[s]}]>>]
  <2> DEFINE n == Cardinality(s) - 1
             r == s \ {pick[s]}
  <2>1. n \in Nat /\ Cardinality(s) = n + 1 /\ Cardinality(r) = n /\ r \in SUBSET S
    BY <1>6, <1>7, <1>13
  <2>2. rounds[n + 1] = next(rounds[n])
    BY <2>1, <1>5
  <2>3. rounds[n + 1][s] = step[<<s, rounds[n][r]>>]
    BY <2>2, <1>13
  <2> QED
    BY <2>1, <2>3
<1> HIDE DEF g
<1> QED
  BY <1>11, <1>12, <1>13 DEF FromSubsets

\* The values of f added up over each subset of S.
AddsUp(iter, f, S) ==
  iter = [s \in SUBSET S |->
            IF s = {} THEN 0
            ELSE f[CHOOSE x \in s : TRUE] + iter[s \ {CHOOSE x \in s : TRUE}]]

\* What MapThenSumSet and FoldSeq compute.
SumIter(f, S) == CHOOSE iter : AddsUp(iter, f, S)

\* The sum exists: it is a number for each subset, and one element more adds its value.
LEMMA Sums ==
  ASSUME NEW S, IsFiniteSet(S), NEW f, \A x \in S : f[x] \in Nat
  PROVE  SumIter(f, S) \in [SUBSET S -> Nat] /\ AddsUp(SumIter(f, S), f, S)
<1> DEFINE pick == [s \in SUBSET S |-> CHOOSE x \in s : TRUE]
           step == [pair \in (SUBSET S) \X Nat |->
                      IF pair[1] = {} THEN 0 ELSE f[pick[pair[1]]] + pair[2]]
<1>1. \A s \in SUBSET S : s # {} => pick[s] \in s
  OBVIOUS
<1>2. step \in [(SUBSET S) \X Nat -> Nat]
  BY <1>1
<1>3. PICK g : FromSubsets(g, S, Nat, 0, step, pick)
  <2> HIDE DEF step, pick
  <2>1. 0 \in Nat
    OBVIOUS
  <2> QED
    BY <1>1, <1>2, <2>1, SubsetRecursion
<1>4. /\ g \in [SUBSET S -> Nat] /\ g[{}] = 0
      /\ \A s \in SUBSET S : s # {} => g[s] = step[<<s, g[s \ {pick[s]}]>>]
  <2> HIDE DEF step, pick
  <2> QED
    BY <1>3 DEF FromSubsets
<1>5. AddsUp(g, f, S)
  <2>1. ASSUME NEW s \in SUBSET S, s # {}
        PROVE  g[s] = f[CHOOSE x \in s : TRUE] + g[s \ {CHOOSE x \in s : TRUE}]
    <3>1. s \ {pick[s]} \in SUBSET S
      OBVIOUS
    <3>2. g[s \ {pick[s]}] \in Nat
      BY <1>4, <3>1
    <3>3. step[<<s, g[s \ {pick[s]}]>>] = f[pick[s]] + g[s \ {pick[s]}]
      BY <2>1, <3>2
    <3> QED
      BY <1>4, <2>1, <3>3
  <2>2. g = [s \in SUBSET S |-> IF s = {} THEN 0
               ELSE f[CHOOSE x \in s : TRUE] + g[s \ {CHOOSE x \in s : TRUE}]]
    <3> HIDE DEF step, pick
    <3>1. ASSUME NEW s \in SUBSET S
          PROVE  g[s] = IF s = {} THEN 0
                        ELSE f[CHOOSE x \in s : TRUE] + g[s \ {CHOOSE x \in s : TRUE}]
      BY <1>4, <2>1
    <3> QED
      BY <1>4, <3>1
  <2> QED
    BY <2>2 DEF AddsUp
<1> DEFINE iter == SumIter(f, S)
<1>6. AddsUp(iter, f, S)
  BY <1>5 DEF SumIter
<1>7. ASSUME NEW s \in SUBSET S PROVE IsFiniteSet(s) /\ Cardinality(s) \in Nat
  BY FS_Subset, FS_CardinalityType
<1> DEFINE T == {n \in Nat : \A s \in SUBSET S : Cardinality(s) = n => iter[s] \in Nat}
<1> HIDE DEF iter
<1>8. 0 \in T
  <2> SUFFICES ASSUME NEW s \in SUBSET S, Cardinality(s) = 0 PROVE iter[s] \in Nat
    OBVIOUS
  <2>1. s = {}
    BY <1>7, FS_EmptySet
  <2> QED
    BY <2>1, <1>6 DEF AddsUp
<1>9. ASSUME NEW n \in Nat, n \in T PROVE n + 1 \in T
  <2> SUFFICES ASSUME NEW s \in SUBSET S, Cardinality(s) = n + 1 PROVE iter[s] \in Nat
    OBVIOUS
  <2> DEFINE x == CHOOSE y \in s : TRUE
  <2>1. s # {}
    BY FS_EmptySet
  <2>2. x \in s
    BY <2>1
  <2>3. Cardinality(s \ {x}) = n /\ s \ {x} \in SUBSET S
    <3> HIDE DEF x
    <3>1. Cardinality(s \ {x}) = Cardinality(s) - 1
      BY <1>7, <2>2, FS_RemoveElement
    <3> QED
      BY <3>1
  <2>4. iter[s] = f[x] + iter[s \ {x}]
    BY <1>6, <2>1 DEF AddsUp
  <2>5. iter[s \ {x}] \in Nat
    BY <2>3, <1>9
  <2>6. f[x] \in Nat
    BY <2>2
  <2> QED
    BY <2>4, <2>5, <2>6
<1>10. Nat \subseteq T
  <2> HIDE DEF T
  <2> QED
    BY <1>8, <1>9, SetInduction
<1>11. \A s \in SUBSET S : iter[s] \in Nat
  BY <1>7, <1>10
<1>12. iter \in [SUBSET S -> Nat]
  BY <1>6, <1>11 DEF AddsUp
<1> QED
  BY <1>6, <1>12 DEF iter
\* The sum of the values of f over S.
Total(f, S) == SumIter(f, S)[S]

\* Summing up a part of S is the same as summing up on the way to the sum over S.
LEMMA SumsAgree ==
  ASSUME NEW S, IsFiniteSet(S), NEW f, \A x \in S : f[x] \in Nat, NEW A \in SUBSET S
  PROVE  SumIter(f, S)[A] = Total(f, A)
<1> DEFINE big == SumIter(f, S)
           part == SumIter(f, A)
<1>1. IsFiniteSet(A) /\ \A x \in A : f[x] \in Nat
  BY FS_Subset
<1>2. \A s \in SUBSET A : IsFiniteSet(s) /\ Cardinality(s) \in Nat
  BY <1>1, FS_Subset, FS_CardinalityType
<1>3. ASSUME NEW s \in SUBSET A
      PROVE  /\ s = {} => big[s] = 0 /\ part[s] = 0
             /\ s # {} =>
                  /\ big[s] = f[CHOOSE x \in s : TRUE] + big[s \ {CHOOSE x \in s : TRUE}]
                  /\ part[s] = f[CHOOSE x \in s : TRUE] + part[s \ {CHOOSE x \in s : TRUE}]
  <2>1. s \in SUBSET S
    OBVIOUS
  <2>2. AddsUp(big, f, S) /\ AddsUp(part, f, A)
    BY <1>1, Sums
  <2> HIDE DEF big, part
  <2>4. big[s] = IF s = {} THEN 0
                 ELSE f[CHOOSE x \in s : TRUE] + big[s \ {CHOOSE x \in s : TRUE}]
    BY <2>1, <2>2 DEF AddsUp
  <2>5. part[s] = IF s = {} THEN 0
                  ELSE f[CHOOSE x \in s : TRUE] + part[s \ {CHOOSE x \in s : TRUE}]
    BY <2>2 DEF AddsUp
  <2> QED
    BY <2>4, <2>5
<1> HIDE DEF big, part
<1> DEFINE T == {n \in Nat : \A s \in SUBSET A : Cardinality(s) = n => big[s] = part[s]}
<1>4. 0 \in T
  <2> SUFFICES ASSUME NEW s \in SUBSET A, Cardinality(s) = 0 PROVE big[s] = part[s]
    OBVIOUS
  <2>1. s = {}
    BY <1>2, FS_EmptySet
  <2> QED
    BY <1>3, <2>1
<1>5. ASSUME NEW n \in Nat, n \in T PROVE n + 1 \in T
  <2> SUFFICES ASSUME NEW s \in SUBSET A, Cardinality(s) = n + 1 PROVE big[s] = part[s]
    OBVIOUS
  <2> DEFINE x == CHOOSE y \in s : TRUE
  <2>1. s # {}
    BY FS_EmptySet
  <2>2. x \in s
    BY <2>1
  <2>3. Cardinality(s \ {x}) = n
    <3> HIDE DEF x
    <3>1. Cardinality(s \ {x}) = Cardinality(s) - 1
      BY <1>2, <2>2, FS_RemoveElement
    <3> QED
      BY <3>1
  <2>4. big[s \ {x}] = part[s \ {x}]
    BY <2>3, <1>5
  <2> QED
    BY <1>3, <2>1, <2>4
<1>6. Nat \subseteq T
  <2> HIDE DEF T
  <2> QED
    BY <1>4, <1>5, SetInduction
<1>7. big[A] = part[A]
  BY <1>2, <1>6
<1> QED
  BY <1>7 DEF big, part, Total

\* A sum is a number, and nothing sums up to zero.
LEMMA TotalType ==
  ASSUME NEW S, IsFiniteSet(S), NEW f, \A x \in S : f[x] \in Nat
  PROVE  Total(f, S) \in Nat /\ (S = {} => Total(f, S) = 0)
<1> DEFINE iter == SumIter(f, S)
<1>1. iter \in [SUBSET S -> Nat]
  BY Sums
<1>2. AddsUp(iter, f, S)
  BY Sums
<1> HIDE DEF iter
<1>3. S = {} => iter[S] = 0
  BY <1>2 DEF AddsUp
<1> QED
  BY <1>1, <1>3 DEF iter, Total

\* The element taken out first.
LEMMA TotalChosen ==
  ASSUME NEW S, IsFiniteSet(S), NEW f, \A x \in S : f[x] \in Nat, S # {}
  PROVE  Total(f, S) = f[CHOOSE x \in S : TRUE] + Total(f, S \ {CHOOSE x \in S : TRUE})
<1> DEFINE iter == SumIter(f, S)
           y == CHOOSE x \in S : TRUE
<1>1. AddsUp(iter, f, S)
  BY Sums
<1>2. iter[S \ {y}] = Total(f, S \ {y})
  <2> HIDE DEF y
  <2> QED
    BY SumsAgree
<1> HIDE DEF iter
<1>3. iter[S] = f[y] + iter[S \ {y}]
  BY <1>1 DEF AddsUp
<1> QED
  BY <1>2, <1>3 DEF iter, Total

\* The order does not matter: any element can be taken out first.
LEMMA TotalOfOneMore ==
  ASSUME NEW S, IsFiniteSet(S), NEW f, \A x \in S : f[x] \in Nat
  PROVE  \A x \in S : Total(f, S) = f[x] + Total(f, S \ {x})
<1> DEFINE T == {n \in Nat : \A s \in SUBSET S : Cardinality(s) = n =>
                   \A x \in s : Total(f, s) = f[x] + Total(f, s \ {x})}
<1>1. \A s \in SUBSET S : /\ IsFiniteSet(s) /\ Cardinality(s) \in Nat
                          /\ \A x \in s : f[x] \in Nat
                          /\ Total(f, s) \in Nat
  <2>1. \A s \in SUBSET S : IsFiniteSet(s) /\ \A x \in s : f[x] \in Nat
    BY FS_Subset
  <2> QED
    BY <2>1, FS_CardinalityType, TotalType
<1>2. 0 \in T
  <2>1. \A s \in SUBSET S : Cardinality(s) = 0 => s = {}
    BY <1>1, FS_EmptySet
  <2> QED
    BY <2>1
<1>3. ASSUME NEW n \in Nat, n \in T PROVE n + 1 \in T
  <2> SUFFICES ASSUME NEW s \in SUBSET S, Cardinality(s) = n + 1, NEW x \in s
               PROVE  Total(f, s) = f[x] + Total(f, s \ {x})
    OBVIOUS
  <2> DEFINE y == CHOOSE z \in s : TRUE
  <2>1. Total(f, s) = f[y] + Total(f, s \ {y}) /\ y \in s
    BY <1>1, TotalChosen
  <2> HIDE DEF y
  <2>2. CASE y = x
    BY <2>1, <2>2
  <2>3. CASE y # x
    <3>1. Cardinality(s \ {x}) = n /\ Cardinality(s \ {y}) = n
      <4>1. /\ Cardinality(s \ {x}) = Cardinality(s) - 1
            /\ Cardinality(s \ {y}) = Cardinality(s) - 1
        BY <1>1, <2>1, FS_RemoveElement
      <4> QED
        BY <4>1
    <3>2. y \in s \ {x} /\ x \in s \ {y} /\ (s \ {x}) \ {y} = (s \ {y}) \ {x}
      BY <2>1, <2>3
    <3>3. /\ Total(f, s \ {y}) = f[x] + Total(f, (s \ {y}) \ {x})
          /\ Total(f, s \ {x}) = f[y] + Total(f, (s \ {x}) \ {y})
      BY <3>1, <3>2, <1>3
    <3> DEFINE rest == Total(f, (s \ {y}) \ {x})
    <3>4. rest \in Nat /\ f[x] \in Nat /\ f[y] \in Nat
      BY <1>1, <2>1
    <3>5. Total(f, s \ {y}) = f[x] + rest /\ Total(f, s \ {x}) = f[y] + rest
      BY <3>2, <3>3
    <3> HIDE DEF rest
    <3> QED
      BY <2>1, <3>4, <3>5
  <2> QED
    BY <2>2, <2>3
<1>4. Nat \subseteq T
  <2> HIDE DEF T
  <2> QED
    BY <1>2, <1>3, SetInduction
<1> QED
  BY <1>1, <1>4

\* A part sums up to no more than the whole.
LEMMA TotalOfPart ==
  ASSUME NEW S, IsFiniteSet(S), NEW f, \A x \in S : f[x] \in Nat, NEW A \in SUBSET S
  PROVE  Total(f, A) <= Total(f, S)
<1> DEFINE T == {n \in Nat : \A s \in SUBSET S : A \subseteq s /\ Cardinality(s \ A) = n =>
                   Total(f, A) <= Total(f, s)}
<1>1. \A s \in SUBSET S : /\ IsFiniteSet(s) /\ IsFiniteSet(s \ A) /\ Cardinality(s \ A) \in Nat
                          /\ \A x \in s : f[x] \in Nat
                          /\ Total(f, s) \in Nat
  <2>1. \A s \in SUBSET S : IsFiniteSet(s) /\ IsFiniteSet(s \ A) /\ \A x \in s : f[x] \in Nat
    BY FS_Subset
  <2> QED
    BY <2>1, FS_CardinalityType, TotalType
<1>2. 0 \in T
  <2> SUFFICES ASSUME NEW s \in SUBSET S, A \subseteq s, Cardinality(s \ A) = 0
               PROVE  Total(f, A) <= Total(f, s)
    OBVIOUS
  <2>1. s \ A = {}
    BY <1>1, FS_EmptySet
  <2>2. s = A
    BY <2>1
  <2>3. Total(f, s) \in Nat
    BY <1>1
  <2> QED
    BY <2>2, <2>3
<1>3. ASSUME NEW n \in Nat, n \in T PROVE n + 1 \in T
  <2> SUFFICES ASSUME NEW s \in SUBSET S, A \subseteq s, Cardinality(s \ A) = n + 1
               PROVE  Total(f, A) <= Total(f, s)
    OBVIOUS
  <2>1. s \ A # {}
    <3>1. Cardinality({}) = 0 /\ Cardinality(s \ A) # 0
      BY FS_EmptySet
    <3> QED
      BY <3>1, Zenon
  <2>2. PICK x \in s \ A : TRUE
    BY <2>1
  <2>3. Cardinality((s \ A) \ {x}) = n
    <3>1. Cardinality((s \ A) \ {x}) = Cardinality(s \ A) - 1
      BY <1>1, <2>2, FS_RemoveElement
    <3> QED
      BY <3>1
  <2>4. (s \ {x}) \ A = (s \ A) \ {x} /\ A \subseteq s \ {x} /\ s \ {x} \in SUBSET S
    OBVIOUS
  <2>5. Total(f, A) <= Total(f, s \ {x})
    BY <2>3, <2>4, <1>3
  <2>6. Total(f, s) = f[x] + Total(f, s \ {x})
    BY <1>1, <2>2, TotalOfOneMore
  <2>7. f[x] \in Nat /\ Total(f, A) \in Nat /\ Total(f, s \ {x}) \in Nat
    BY <1>1, <2>2, <2>4
  <2> QED
    BY <2>5, <2>6, <2>7
<1>4. Nat \subseteq T
  <2> HIDE DEF T
  <2> QED
    BY <1>2, <1>3, SetInduction
<1> QED
  BY <1>1, <1>4
-----------------------------------------------------------------------------
(***************************************************************************)
(* Sequences, whatever they hold                                           *)
(***************************************************************************)
IsSeq(s) == s \in Seq({s[i] : i \in 1 .. Len(s)})

\* A sequence of a set's members is a sequence, and has a length.
LEMMA SeqIsSeq ==
  ASSUME NEW S, NEW s \in Seq(S)
  PROVE  IsSeq(s) /\ Len(s) \in Nat /\ DOMAIN s = 1 .. Len(s)
BY DEF IsSeq

\* A function over the numbers from 1 is a sequence.
LEMMA SeqFromFunction ==
  ASSUME NEW n \in Nat, NEW s, s = [i \in 1 .. n |-> s[i]]
  PROVE  IsSeq(s) /\ Len(s) = n /\ DOMAIN s = 1 .. n
<1> DEFINE R == {s[i] : i \in 1 .. n}
<1>1. s \in [1 .. n -> R]
  OBVIOUS
<1>2. s \in Seq(R)
  BY <1>1
<1>3. Len(s) = n
  BY <1>1, <1>2
<1> QED
  BY <1>2, <1>3 DEF IsSeq

\* Nothing, one element, two elements.
LEMMA ShortSeqs ==
  ASSUME NEW x, NEW y
  PROVE  /\ IsSeq(<<>>) /\ Len(<<>>) = 0
         /\ IsSeq(<<x, y>>) /\ Len(<<x, y>>) = 2 /\ <<x, y>>[1] = x /\ <<x, y>>[2] = y
<1>1. <<>> \in Seq({x, y}) /\ <<x, y>> \in Seq({x, y})
  OBVIOUS
<1> QED
  BY <1>1, SeqIsSeq

\* What a sequence is, and that its members are all there is to it.
LEMMA SeqFacts ==
  ASSUME NEW s, IsSeq(s)
  PROVE  /\ Len(s) \in Nat /\ DOMAIN s = 1 .. Len(s)
         /\ s = [i \in 1 .. Len(s) |-> s[i]]
         /\ s = <<>> <=> Len(s) = 0
BY DEF IsSeq

\* One element more.
LEMMA SeqAppend ==
  ASSUME NEW s, IsSeq(s), NEW x
  PROVE  /\ IsSeq(Append(s, x)) /\ Len(Append(s, x)) = Len(s) + 1
         /\ \A i \in 1 .. Len(s) : Append(s, x)[i] = s[i]
         /\ Append(s, x)[Len(s) + 1] = x
<1> DEFINE R == {s[i] : i \in 1 .. Len(s)} \cup {x}
<1>1. s \in Seq(R)
  <2>1. s \in Seq({s[i] : i \in 1 .. Len(s)})
    BY DEF IsSeq
  <2> QED
    BY <2>1, SeqMonotonic
<1>2. x \in R
  OBVIOUS
<1> HIDE DEF R
<1>3. Append(s, x) \in Seq(R) /\ Len(s) \in Nat
  BY <1>1, <1>2
<1>4. /\ Len(Append(s, x)) = Len(s) + 1
      /\ \A i \in 1 .. Len(s) : Append(s, x)[i] = s[i]
      /\ Append(s, x)[Len(s) + 1] = x
  BY <1>1, <1>2
<1>5. IsSeq(Append(s, x))
  BY <1>3, SeqIsSeq
<1> QED
  BY <1>4, <1>5

\* The members of a sequence that holds s, then t.
Joined(u, s, t) ==
  /\ IsSeq(u) /\ Len(u) = Len(s) + Len(t)
  /\ \A i \in 1 .. Len(s) : u[i] = s[i]
  /\ \A i \in 1 .. Len(t) : u[Len(s) + i] = t[i]
  /\ \A i \in 1 .. Len(s) + Len(t) :
       i \notin 1 .. Len(s) => i - Len(s) \in 1 .. Len(t) /\ u[i] = t[i - Len(s)]

\* One sequence behind another.
LEMMA SeqConcat ==
  ASSUME NEW s, IsSeq(s), NEW t, IsSeq(t)
  PROVE  Joined(s \o t, s, t)
<1> DEFINE R == {s[i] : i \in 1 .. Len(s)} \cup {t[i] : i \in 1 .. Len(t)}
<1>1. s \in Seq(R) /\ t \in Seq(R)
  <2>1. s \in Seq({s[i] : i \in 1 .. Len(s)}) /\ t \in Seq({t[i] : i \in 1 .. Len(t)})
    BY DEF IsSeq
  <2> QED
    BY <2>1, SeqMonotonic
<1> HIDE DEF R
<1>2. /\ s \o t \in Seq(R) /\ Len(s \o t) = Len(s) + Len(t)
      /\ \A i \in 1 .. Len(s) + Len(t) :
           (s \o t)[i] = IF i <= Len(s) THEN s[i] ELSE t[i - Len(s)]
  BY <1>1, ConcatProperties
<1>3. Len(s) \in Nat /\ Len(t) \in Nat
  BY <1>1
<1>4. ASSUME NEW i \in 1 .. Len(s) PROVE (s \o t)[i] = s[i]
  BY <1>2, <1>3
<1>5. ASSUME NEW i \in 1 .. Len(s) + Len(t), i \notin 1 .. Len(s)
      PROVE  i - Len(s) \in 1 .. Len(t) /\ (s \o t)[i] = t[i - Len(s)]
  <2>1. ~(i <= Len(s)) /\ i - Len(s) \in 1 .. Len(t)
    BY <1>3, <1>5
  <2> QED
    BY <1>2, <2>1
<1>6. ASSUME NEW i \in 1 .. Len(t) PROVE (s \o t)[Len(s) + i] = t[i]
  <2>1. /\ Len(s) + i \in 1 .. Len(s) + Len(t) /\ Len(s) + i \notin 1 .. Len(s)
        /\ (Len(s) + i) - Len(s) = i
    BY <1>3
  <2> QED
    BY <1>5, <2>1
<1> QED
  BY <1>2, <1>4, <1>5, <1>6, SeqIsSeq DEF Joined

\* Sequences with the same members are the same.
LEMMA SeqSame ==
  ASSUME NEW s, IsSeq(s), NEW t, IsSeq(t), Len(s) = Len(t),
         \A i \in 1 .. Len(s) : s[i] = t[i]
  PROVE  s = t
<1>1. s = [i \in 1 .. Len(s) |-> s[i]] /\ t = [i \in 1 .. Len(t) |-> t[i]]
  BY SeqFacts
<1> QED
  BY <1>1

-----------------------------------------------------------------------------
(***************************************************************************)
(* What InOrder makes of a set                                             *)
(***************************************************************************)

\* The elements of S by rank.
ByRank(S, key) ==
  [i \in 1 .. Cardinality(S) |-> CHOOSE x \in S : Cardinality(Below(S, key, x)) = i - 1]

\* A sequence of the elements of S, each once, in the order of the keys.
SortedBy(line, S, key) ==
  /\ IsSeq(line) /\ Len(line) = Cardinality(S) /\ Cardinality(S) \in Nat
  /\ \A i \in 1 .. Cardinality(S) : line[i] \in S
  /\ \A x \in S : \E i \in 1 .. Cardinality(S) : line[i] = x
  /\ \A i, j \in 1 .. Cardinality(S) : i < j => key[line[i]] < key[line[j]]

\* Sorted by different keys, a set is a sequence that holds each element once, in the order of
\* the keys.
LEMMA Sorting ==
  ASSUME NEW S, IsFiniteSet(S), NEW key \in [S -> Int],
         \A x, y \in S : key[x] = key[y] => x = y
  PROVE  SortedBy(ByRank(S, key), S, key)
<1> DEFINE n == Cardinality(S)
           rank == [x \in S |-> Cardinality(Below(S, key, x))]
           line == ByRank(S, key)
<1>1. n \in Nat
  BY FS_CardinalityType
<1>2. /\ \A x \in S : rank[x] \in 0 .. n - 1
      /\ \A x, y \in S : key[x] < key[y] <=> rank[x] < rank[y]
      /\ \A i \in 1 .. n : \E x \in S : rank[x] = i - 1
  BY Ranks
<1>3. line = [i \in 1 .. n |-> CHOOSE x \in S : rank[x] = i - 1]
  BY DEF ByRank
<1>4. IsSeq(line) /\ Len(line) = n
  <2> HIDE DEF n, rank
  <2>1. line = [i \in 1 .. n |-> line[i]]
    BY <1>3
  <2> HIDE DEF line
  <2> QED
    BY <1>1, <2>1, SeqFromFunction
<1> HIDE DEF n, rank, line
<1>5. \A i \in 1 .. n : line[i] \in S /\ rank[line[i]] = i - 1
  BY <1>2, <1>3
<1>6. \A x, y \in S : rank[x] = rank[y] => x = y
  <2> SUFFICES ASSUME NEW x \in S, NEW y \in S, rank[x] = rank[y] PROVE x = y
    OBVIOUS
  <2>1. rank[x] \in Int /\ rank[y] \in Int /\ key[x] \in Int /\ key[y] \in Int
    BY <1>1, <1>2
  <2>2. ~(key[x] < key[y]) /\ ~(key[y] < key[x])
    BY <1>2, <2>1
  <2>3. key[x] = key[y]
    BY <2>1, <2>2
  <2> QED
    BY <2>3
<1>7. ASSUME NEW x \in S PROVE \E i \in 1 .. n : line[i] = x
  <2> DEFINE i == rank[x] + 1
  <2>1. i \in 1 .. n /\ i - 1 = rank[x]
    BY <1>1, <1>2
  <2> HIDE DEF i
  <2>2. line[i] \in S /\ rank[line[i]] = rank[x]
    BY <1>5, <2>1
  <2> QED
    BY <1>6, <2>1, <2>2
<1>8. ASSUME NEW i \in 1 .. n, NEW j \in 1 .. n, i < j
      PROVE  key[line[i]] < key[line[j]]
  <2>1. i - 1 < j - 1
    BY <1>8
  <2> QED
    BY <1>2, <1>5, <2>1
<1> QED
  BY <1>1, <1>4, <1>5, <1>7, <1>8 DEF n, line, SortedBy

\* There is only one such sequence.
LEMMA SortedOnce ==
  ASSUME NEW S, NEW key \in [S -> Int],
         NEW s, IsSeq(s), \A i \in 1 .. Len(s) : s[i] \in S,
         \A x \in S : \E i \in 1 .. Len(s) : s[i] = x,
         \A i, j \in 1 .. Len(s) : i < j => key[s[i]] < key[s[j]]
  PROVE  /\ IsFiniteSet(S) /\ Cardinality(S) = Len(s) /\ ByRank(S, key) = s
         /\ \A x, y \in S : key[x] = key[y] => x = y
<1> DEFINE n == Len(s)
<1>1. n \in Nat
  BY SeqFacts
<1> HIDE DEF n
<1>2. \A i, j \in 1 .. n : key[s[i]] = key[s[j]] => i = j
  <2> SUFFICES ASSUME NEW i \in 1 .. n, NEW j \in 1 .. n, key[s[i]] = key[s[j]] PROVE i = j
    OBVIOUS
  <2>1. key[s[i]] \in Int /\ ~(i < j) /\ ~(j < i)
    BY DEF n
  <2> QED
    BY <2>1, <1>1
<1>3. \A x, y \in S : key[x] = key[y] => x = y
  BY <1>2 DEF n
<1>4. [i \in 1 .. n |-> s[i]] \in Bijection(1 .. n, S)
  BY <1>2 DEF Bijection, Injection, Surjection, IsInjective, n
<1>5. IsFiniteSet(S) /\ Cardinality(S) = n
  BY <1>1, <1>4, FS_Interval, FS_Bijection DEF ExistsBijection
<1>6. ASSUME NEW i \in 1 .. n
      PROVE  Cardinality(Below(S, key, s[i])) = i - 1
  <2> DEFINE f == [j \in 1 .. i - 1 |-> s[j]]
             B == Below(S, key, s[i])
  <2>1. ASSUME NEW j \in 1 .. i - 1 PROVE f[j] \in B
    <3>1. j \in 1 .. n /\ j < i
      BY <1>1
    <3> QED
      BY <3>1 DEF Below, n
  <2>2. ASSUME NEW j \in 1 .. i - 1, NEW h \in 1 .. i - 1, f[j] = f[h] PROVE j = h
    <3>1. j \in 1 .. n /\ h \in 1 .. n
      BY <1>1
    <3> QED
      BY <2>2, <3>1, <1>2
  <2>3. ASSUME NEW y \in B PROVE \E j \in 1 .. i - 1 : f[j] = y
    <3>1. PICK j \in 1 .. n : s[j] = y
      BY DEF Below, n
    <3>2. key[s[j]] < key[s[i]] /\ key[s[i]] \in Int
      BY <3>1 DEF Below, n
    <3>3. j < i
      <4>1. ~(i < j) /\ i # j
        BY <3>2 DEF n
      <4> QED
        BY <4>1, <1>1
    <3>4. j \in 1 .. i - 1
      BY <1>1, <3>3
    <3> QED
      BY <3>1, <3>4
  <2>4. f \in Bijection(1 .. i - 1, B)
    <3> HIDE DEF B
    <3> QED
      BY <2>1, <2>2, <2>3 DEF Bijection, Injection, Surjection, IsInjective
  <2>5. IsFiniteSet(1 .. i - 1) /\ Cardinality(1 .. i - 1) = i - 1
    BY <1>1, FS_Interval
  <2> HIDE DEF f, B
  <2>6. Cardinality(B) = i - 1
    BY <2>4, <2>5, FS_Bijection DEF ExistsBijection
  <2> QED
    BY <2>6 DEF B
<1>7. ASSUME NEW i \in 1 .. n
      PROVE  (CHOOSE x \in S : Cardinality(Below(S, key, x)) = i - 1) = s[i]
  <2>1. s[i] \in S /\ Cardinality(Below(S, key, s[i])) = i - 1
    BY <1>6 DEF n
  <2>2. ASSUME NEW x \in S, Cardinality(Below(S, key, x)) = i - 1 PROVE x = s[i]
    <3>1. PICK j \in 1 .. n : s[j] = x
      BY DEF n
    <3>2. j - 1 = i - 1
      BY <1>6, <2>2, <3>1
    <3>3. j = i
      BY <1>1, <3>2
    <3> QED
      BY <3>1, <3>3
  <2> QED
    BY <2>1, <2>2
<1>8. ByRank(S, key) = [i \in 1 .. n |-> s[i]]
  BY <1>5, <1>7 DEF ByRank
<1>9. s = [i \in 1 .. n |-> s[i]]
  BY SeqFacts DEF n
<1> QED
  BY <1>3, <1>5, <1>8, <1>9 DEF n

\* Numbers sorted by themselves.
LEMMA AscendingIsByRank ==
  ASSUME NEW S
  PROVE  Ascending(S) = ByRank(S, [x \in S |-> x])
<1> DEFINE key == [x \in S |-> x]
           r == [x \in S |-> Cardinality({y \in S : y < x})]
           s == [x \in S |-> Cardinality(Below(S, key, x))]
<1>1. \A x \in S : {y \in S : y < x} = Below(S, key, x)
  BY DEF Below
<1>2. r = s
  <2> HIDE DEF key
  <2> QED
    BY <1>1
<1>3. Ascending(S) = [i \in 1 .. Cardinality(S) |-> CHOOSE x \in S : r[x] = i - 1]
  <2>1. Ascending(S) = [i \in 1 .. Cardinality(S) |->
                          CHOOSE x \in S : Cardinality({y \in S : y < x}) = i - 1]
    BY DEF Ascending, InOrder
  <2> QED
    BY <2>1
<1> HIDE DEF key
<1>4. ByRank(S, key) = [i \in 1 .. Cardinality(S) |-> CHOOSE x \in S : s[x] = i - 1]
  BY DEF ByRank
<1> HIDE DEF r, s
<1> QED
  BY <1>2, <1>3, <1>4 DEF key

\* A set of numbers has a least one.
LEMMA Least ==
  ASSUME NEW S \in SUBSET Nat, S # {}
  PROVE  \E m \in S : \A k \in S : m <= k
<1> DEFINE less == {pair \in Nat \X Nat : pair[1] < pair[2]}
<1>1. IsWellFoundedOn(less, Nat)
  BY NatLessThanWellFounded DEF OpToRel
<1>2. PICK m \in S : \A k \in S : <<k, m>> \notin less
  <2> HIDE DEF less
  <2> QED
    BY <1>1, WFMin
<1>3. ASSUME NEW k \in S PROVE m <= k
  <2>1. k \in Nat /\ m \in Nat /\ <<k, m>> \notin less
    BY <1>2
  <2>2. ~(k < m)
    BY <2>1
  <2> QED
    BY <2>1, <2>2
<1> QED
  BY <1>3
=============================================================================
