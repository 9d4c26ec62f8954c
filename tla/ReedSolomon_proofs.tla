------------------------- MODULE ReedSolomon_proofs -------------------------
(***************************************************************************)
(* Theorems about ReedSolomon, for every field, every number of blocks and *)
(* every batch size: the encoder computes weighted sums, the record of the *)
(* elimination replays it, what is written when no rows were exchanged are *)
(* the lost blocks, the elimination gives up exactly where the lost blocks *)
(* are not determined, and consecutive exponents always determine them.    *)
(***************************************************************************)
EXTENDS ReedSolomon, GaloisField_proofs

-----------------------------------------------------------------------------
(***************************************************************************)
(* The record of an elimination, as a function of vectors                  *)
(***************************************************************************)

\* The vectors of n elements.
Vectors(n) == [1 .. n -> Elements]

\* Vectors with the same members are the same.
LEMMA VectorsSame ==
  ASSUME NEW n, NEW v \in Vectors(n), NEW w \in Vectors(n), \A r \in 1 .. n : v[r] = w[r]
  PROVE  v = w
<1> DEFINE D == 1 .. n
<1>1. v = [r \in D |-> v[r]] /\ w = [r \in D |-> w[r]]
  BY DEF Vectors
<1>2. \A r \in D : v[r] = w[r]
  OBVIOUS
<1> HIDE DEF D
<1> QED
  BY <1>1, <1>2

\* Applied and Replayed, for a given record of n rows.
StepOf(v, i, sc, fa, n) ==
  LET pivot == GfDiv(v[i], sc[i])
  IN  [r \in 1 .. n |-> IF r = i THEN pivot ELSE v[r] ^^ GfMul(pivot, fa[r][i])]

IsReplay(g, v, sc, fa, n) ==
  g = [i \in 0 .. n |-> IF i = 0 THEN v ELSE StepOf(g[i - 1], i, sc, fa, n)]

ReplayOf(v, sc, fa, n) == CHOOSE g : IsReplay(g, v, sc, fa, n)

\* The parts of a record: the pivots, none of them 0, and the factors.
IsRecord(sc, fa, n) ==
  n \in Nat /\ sc \in [1 .. n -> Elements \ {0}] /\ fa \in [1 .. n -> Vectors(n)]

\* One step makes a vector of a vector.
LEMMA StepType ==
  ASSUME NEW n, NEW sc, NEW fa, IsRecord(sc, fa, n),
         NEW v \in Vectors(n), NEW i \in 1 .. n
  PROVE  /\ GfDiv(v[i], sc[i]) \in Elements
         /\ StepOf(v, i, sc, fa, n) \in Vectors(n)
         /\ \A r \in 1 .. n :
              StepOf(v, i, sc, fa, n)[r] =
                IF r = i THEN GfDiv(v[i], sc[i])
                ELSE v[r] ^^ GfMul(GfDiv(v[i], sc[i]), fa[r][i])
<1> DEFINE pivot == GfDiv(v[i], sc[i])
<1>1. pivot \in Elements
  <2>1. v[i] \in Elements /\ sc[i] \in Elements \ {0}
    BY DEF IsRecord, Vectors
  <2> QED
    BY <2>1, DivType
<1>2. StepOf(v, i, sc, fa, n) =
        [r \in 1 .. n |-> IF r = i THEN pivot ELSE v[r] ^^ GfMul(pivot, fa[r][i])]
  BY DEF StepOf
<1> HIDE DEF pivot
<1>3. ASSUME NEW r \in 1 .. n PROVE v[r] ^^ GfMul(pivot, fa[r][i]) \in Elements
  <2>1. fa[r][i] \in Elements /\ v[r] \in Elements
    BY DEF IsRecord, Vectors
  <2> DEFINE m == GfMul(pivot, fa[r][i])
  <2>2. m \in Elements
    BY <1>1, <2>1, MulType
  <2> HIDE DEF m
  <2>3. v[r] ^^ m \in Elements
    BY <2>1, <2>2, XorGroup
  <2> QED
    BY <2>3 DEF m
<1> QED
  BY <1>1, <1>2, <1>3 DEF pivot, Vectors

\* The replay of a record goes step by step.
LEMMA ReplaySteps ==
  ASSUME NEW n, NEW sc, NEW fa, IsRecord(sc, fa, n), NEW v \in Vectors(n)
  PROVE  /\ ReplayOf(v, sc, fa, n)[0] = v
         /\ \A i \in 0 .. n : ReplayOf(v, sc, fa, n)[i] \in Vectors(n)
         /\ \A i \in 0 .. n - 1 :
              ReplayOf(v, sc, fa, n)[i + 1] =
                StepOf(ReplayOf(v, sc, fa, n)[i], i + 1, sc, fa, n)
<1> DEFINE W == Vectors(n)
           apply(i, w) == IF i + 1 \in 1 .. n THEN StepOf(w, i + 1, sc, fa, n) ELSE w
           step == [pair \in Nat \X W |-> apply(pair[1], pair[2])]
<1>1. n \in Nat
  BY DEF IsRecord
<1>2. ASSUME NEW i \in Nat, NEW w \in W PROVE apply(i, w) \in W
  <2>1. ASSUME i + 1 \in 1 .. n PROVE StepOf(w, i + 1, sc, fa, n) \in W
    BY <2>1, StepType
  <2> QED
    BY <2>1
<1>3. step \in [Nat \X W -> W]
  <2> HIDE DEF W, apply
  <2> QED
    BY <1>2
<1>4. PICK g : FromNumbers(g, W, v, step)
  <2>1. v \in W
    OBVIOUS
  <2> HIDE DEF W, step
  <2> QED
    BY <1>3, <2>1, NatRecursion
<1>5. /\ g \in [Nat -> W] /\ g[0] = v
      /\ \A i \in Nat : g[i + 1] = apply(i, g[i])
  <2> HIDE DEF W, apply
  <2> QED
    BY <1>4 DEF FromNumbers
<1> DEFINE h == [i \in 0 .. n |-> g[i]]
<1>6. ASSUME NEW i \in 0 .. n, i # 0
      PROVE  h[i] = StepOf(h[i - 1], i, sc, fa, n)
  <2>1. i - 1 \in 0 .. n /\ i - 1 \in Nat /\ (i - 1) + 1 = i /\ i \in 1 .. n
    BY <1>1, <1>6
  <2>2. g[(i - 1) + 1] = apply(i - 1, g[i - 1])
    BY <1>5, <2>1
  <2> QED
    BY <2>1, <2>2
<1>7. h[0] = v
  BY <1>1, <1>5
<1>8. IsReplay(h, v, sc, fa, n)
  <2>1. \A i \in 0 .. n : h[i] = IF i = 0 THEN v ELSE StepOf(h[i - 1], i, sc, fa, n)
    <3> HIDE DEF h
    <3> QED
      BY <1>6, <1>7
  <2> QED
    BY <2>1 DEF IsReplay
<1> DEFINE f == ReplayOf(v, sc, fa, n)
<1>9. IsReplay(f, v, sc, fa, n)
  <2> HIDE DEF h
  <2> QED
    BY <1>8 DEF ReplayOf
<1> HIDE DEF f
<1>10. /\ f[0] = v
       /\ \A i \in 1 .. n : f[i] = StepOf(f[i - 1], i, sc, fa, n)
  BY <1>1, <1>9 DEF IsReplay
<1>11. ASSUME NEW i \in 0 .. n - 1 PROVE f[i + 1] = StepOf(f[i], i + 1, sc, fa, n)
  <2> DEFINE j == i + 1
  <2>1. j \in 1 .. n /\ j - 1 = i
    BY <1>1
  <2> HIDE DEF j
  <2>2. f[j] = StepOf(f[j - 1], j, sc, fa, n)
    BY <1>10, <2>1
  <2> QED
    BY <2>1, <2>2 DEF j
<1> DEFINE T == {i \in Nat : i <= n => f[i] \in W}
<1>12. 0 \in T
  BY <1>10
<1>13. ASSUME NEW i \in Nat, i \in T PROVE i + 1 \in T
  <2> SUFFICES ASSUME i + 1 <= n PROVE f[i + 1] \in W
    OBVIOUS
  <2>1. i \in 0 .. n - 1 /\ i + 1 \in 1 .. n /\ f[i] \in W
    BY <1>1, <1>13
  <2>2. StepOf(f[i], i + 1, sc, fa, n) \in W
    BY <2>1, StepType
  <2> QED
    BY <1>11, <2>1, <2>2
<1>14. Nat \subseteq T
  <2> HIDE DEF T
  <2> QED
    BY <1>12, <1>13, SetInduction
<1>15. \A i \in 0 .. n : f[i] \in W
  BY <1>1, <1>14
<1> QED
  BY <1>10, <1>11, <1>15 DEF f

\* Two records whose first m steps are the same but for rows i and j, which are exchanged and
\* are not the pivots of these steps.
SameSteps(sc, fa, sd, fb, i, j, m, n) ==
  /\ IsRecord(sc, fa, n) /\ IsRecord(sd, fb, n)
  /\ i \in 1 .. n /\ j \in 1 .. n /\ m < i /\ m < j
  /\ \A s \in 1 .. m : sd[s] = sc[s]
  /\ \A r \in 1 .. n : \A s \in 1 .. m : fb[r][s] = Swapped(fa, i, j)[r][s]

\* In these steps the second does with an exchanged vector what the first does.
LEMMA ReplayOfSwapped ==
  ASSUME NEW n, NEW sc, NEW fa, NEW sd, NEW fb, NEW i, NEW j, NEW m \in Nat,
         SameSteps(sc, fa, sd, fb, i, j, m, n), NEW v \in Vectors(n)
  PROVE  ReplayOf(Swapped(v, i, j), sd, fb, n)[m] = Swapped(ReplayOf(v, sc, fa, n)[m], i, j)
<1>0. /\ IsRecord(sc, fa, n) /\ IsRecord(sd, fb, n)
      /\ i \in 1 .. n /\ j \in 1 .. n /\ m < i /\ m < j
      /\ \A s \in 1 .. m : sd[s] = sc[s]
      /\ \A r \in 1 .. n : \A s \in 1 .. m : fb[r][s] = Swapped(fa, i, j)[r][s]
  BY DEF SameSteps
<1> DEFINE W == Vectors(n)
           f == ReplayOf(v, sc, fa, n)
           g == ReplayOf(Swapped(v, i, j), sd, fb, n)
           T == {s \in Nat : s <= m => g[s] = Swapped(f[s], i, j)}
<1>1. n \in Nat /\ fa \in [1 .. n -> Vectors(n)]
  BY <1>0 DEF IsRecord
<1>2. /\ f[0] = v
      /\ \A s \in 0 .. n : f[s] \in W
      /\ \A s \in 0 .. n - 1 : f[s + 1] = StepOf(f[s], s + 1, sc, fa, n)
  BY <1>0, ReplaySteps
<1>3. Swapped(v, i, j) \in W
  BY <1>0, <1>1 DEF Swapped, Vectors
<1>4. /\ g[0] = Swapped(v, i, j)
      /\ \A s \in 0 .. n : g[s] \in W
      /\ \A s \in 0 .. n - 1 : g[s + 1] = StepOf(g[s], s + 1, sd, fb, n)
  <2> DEFINE w == Swapped(v, i, j)
  <2>1. w \in Vectors(n)
    BY <1>3
  <2> HIDE DEF w
  <2>2. /\ ReplayOf(w, sd, fb, n)[0] = w
        /\ \A s \in 0 .. n : ReplayOf(w, sd, fb, n)[s] \in Vectors(n)
        /\ \A s \in 0 .. n - 1 :
             ReplayOf(w, sd, fb, n)[s + 1] = StepOf(ReplayOf(w, sd, fb, n)[s], s + 1, sd, fb, n)
    BY <1>0, <2>1, ReplaySteps
  <2> QED
    BY <2>2 DEF w
<1> HIDE DEF f, g
<1>5. 0 \in T
  BY <1>2, <1>4
<1>6. ASSUME NEW s \in Nat, s \in T PROVE s + 1 \in T
  <2> SUFFICES ASSUME s + 1 <= m PROVE g[s + 1] = Swapped(f[s + 1], i, j)
    OBVIOUS
  <2> DEFINE t == s + 1
             x == f[s]
             y == Swapped(x, i, j)
  <2>1. t \in 1 .. m /\ t \in 1 .. n /\ t # i /\ t # j /\ s \in 0 .. n - 1 /\ s \in 0 .. n
    BY <1>0, <1>1
  <2>2. x \in W /\ g[s] = y
    BY <1>2, <1>6, <2>1
  <2> HIDE DEF t, x
  <2>3. /\ y \in W
        /\ \A r \in 1 .. n : y[r] = IF r = j THEN x[i] ELSE IF r = i THEN x[j] ELSE x[r]
    BY <1>0, <1>1, <2>2 DEF y, Swapped, Vectors
  <2> HIDE DEF y
  <2>4. \A r \in 1 .. n : fb[r][t] = IF r = j THEN fa[i][t]
                                     ELSE IF r = i THEN fa[j][t] ELSE fa[r][t]
    <3> DEFINE D == Vectors(n)
    <3>1. \A r \in 1 .. n : Swapped(fa, i, j)[r] = IF r = j THEN fa[i]
                                                  ELSE IF r = i THEN fa[j] ELSE fa[r]
      <4>1. fa \in [1 .. n -> D]
        BY <1>1
      <4> HIDE DEF D
      <4> QED
        BY <1>0, <1>1, <4>1 DEF Swapped
    <3> QED
      BY <1>0, <2>1, <3>1
  <2>5. y[t] = x[t] /\ sd[t] = sc[t]
    BY <1>0, <2>1, <2>3
  <2> DEFINE p == StepOf(x, t, sc, fa, n)
             q == StepOf(y, t, sd, fb, n)
             a == GfDiv(x[t], sc[t])
  <2>6. /\ p \in W
        /\ \A r \in 1 .. n : p[r] = IF r = t THEN a ELSE x[r] ^^ GfMul(a, fa[r][t])
    <3>1. x \in Vectors(n)
      BY <2>2
    <3> HIDE DEF T
    <3> QED
      BY <1>0, <2>1, <3>1, StepType
  <2>7. /\ q \in W
        /\ \A r \in 1 .. n : q[r] = IF r = t THEN a ELSE y[r] ^^ GfMul(a, fb[r][t])
    <3>1. y \in Vectors(n)
      BY <2>3
    <3> DEFINE b == GfDiv(y[t], sd[t])
    <3>2. /\ q \in W
          /\ \A r \in 1 .. n : q[r] = IF r = t THEN b ELSE y[r] ^^ GfMul(b, fb[r][t])
      <4> HIDE DEF T
      <4> QED
        BY <1>0, <2>1, <3>1, StepType
    <3>3. a = b
      BY <2>5
    <3> HIDE DEF a, b, q
    <3> QED
      BY <3>2, <3>3
  <2>8. f[s + 1] = p /\ g[s + 1] = q
    BY <1>2, <1>4, <2>1, <2>2 DEF t, x
  <2> HIDE DEF p, q, a
  <2>9. /\ Swapped(p, i, j) \in W
        /\ \A r \in 1 .. n : Swapped(p, i, j)[r] = IF r = j THEN p[i]
                                                  ELSE IF r = i THEN p[j] ELSE p[r]
    BY <1>0, <1>1, <2>6 DEF Swapped, Vectors
  <2>10. ASSUME NEW r \in 1 .. n PROVE q[r] = Swapped(p, i, j)[r]
    <3>1. CASE r = t
      BY <2>1, <2>6, <2>7, <2>9, <3>1
    <3>2. CASE r = j
      <4>1. q[r] = x[i] ^^ GfMul(a, fa[i][t])
        BY <1>0, <2>1, <2>3, <2>4, <2>7, <3>2
      <4>2. p[i] = x[i] ^^ GfMul(a, fa[i][t])
        BY <1>0, <2>1, <2>6
      <4> QED
        BY <2>9, <3>2, <4>1, <4>2
    <3>3. CASE r = i /\ r # j
      <4>1. q[r] = x[j] ^^ GfMul(a, fa[j][t])
        BY <1>0, <2>1, <2>3, <2>4, <2>7, <3>3
      <4>2. p[j] = x[j] ^^ GfMul(a, fa[j][t])
        BY <1>0, <2>1, <2>6
      <4> QED
        BY <2>9, <3>3, <4>1, <4>2
    <3>4. CASE r # i /\ r # j /\ r # t
      <4>1. q[r] = x[r] ^^ GfMul(a, fa[r][t])
        BY <2>3, <2>4, <2>7, <3>4
      <4>2. p[r] = x[r] ^^ GfMul(a, fa[r][t])
        BY <2>6, <3>4
      <4> QED
        BY <2>9, <3>4, <4>1, <4>2
    <3> QED
      BY <3>1, <3>2, <3>3, <3>4
  <2> DEFINE z == Swapped(p, i, j)
  <2>11. z \in W /\ \A r \in 1 .. n : q[r] = z[r]
    BY <2>9, <2>10
  <2> HIDE DEF z
  <2>12. q = z
    <3>1. q \in Vectors(n) /\ z \in Vectors(n)
      BY <2>7, <2>11
    <3> QED
      BY <2>11, <3>1, VectorsSame
  <2> QED
    BY <2>8, <2>12 DEF z
<1>7. Nat \subseteq T
  <2> HIDE DEF T
  <2> QED
    BY <1>5, <1>6, SetInduction
<1> QED
  BY <1>7 DEF f, g

\* The sum of the vectors V[j], each multiplied by x[j].
Combination(J, x, V, n) == [r \in 1 .. n |-> GfSum([j \in J |-> GfMul(x[j], V[j][r])])]

\* A sum of products divided by a pivot.
LEMMA DivOfSum ==
  ASSUME NEW J, IsFiniteSet(J), NEW x \in [J -> Elements], NEW f \in [J -> Elements],
         NEW s \in Elements \ {0}
  PROVE  GfDiv(GfSum([j \in J |-> GfMul(x[j], f[j])]), s)
           = GfSum([j \in J |-> GfMul(x[j], GfDiv(f[j], s))])
<1> DEFINE g == [j \in J |-> GfMul(x[j], f[j])]
           h == [j \in J |-> GfMul(x[j], GfDiv(f[j], s))]
           p == [j \in J |-> GfMul(s, h[j])]
<1>1. s \in Elements /\ s # 0
  OBVIOUS
<1>2. ASSUME NEW j \in J
      PROVE  /\ GfMul(x[j], f[j]) \in Elements /\ GfMul(x[j], GfDiv(f[j], s)) \in Elements
             /\ GfMul(s, GfMul(x[j], GfDiv(f[j], s))) = GfMul(x[j], f[j])
  <2> DEFINE a == x[j]
             b == f[j]
             c == GfDiv(b, s)
  <2>1. a \in Elements /\ b \in Elements
    OBVIOUS
  <2> HIDE DEF a, b
  <2>2. c \in Elements /\ GfMul(c, s) = b
    BY <2>1, DivType
  <2> HIDE DEF c
  <2>3. GfMul(a, b) \in Elements /\ GfMul(a, c) \in Elements
    BY <2>1, <2>2, MulType
  <2>4. GfMul(s, GfMul(a, c)) = GfMul(GfMul(a, c), s)
    BY <1>1, <2>3, MulType
  <2>5. GfMul(GfMul(a, c), s) = GfMul(a, GfMul(c, s))
    BY <1>1, <2>1, <2>2, MulAssociates
  <2> QED
    BY <2>2, <2>3, <2>4, <2>5 DEF a, b, c
<1>3. g \in [J -> Elements] /\ h \in [J -> Elements]
  BY <1>2
<1>4. p = g
  BY <1>2
<1> HIDE DEF h
<1>5. GfSum(p) = GfMul(s, GfSum(h)) /\ GfSum(h) \in Elements
  BY <1>1, <1>3, GfSumScaled, GfSumType
<1> HIDE DEF g, p
<1> DEFINE u == GfSum(h)
<1>6. GfSum(g) = GfMul(u, s) /\ u \in Elements
  <2>1. u \in Elements /\ GfSum(g) = GfMul(s, u)
    BY <1>4, <1>5
  <2> HIDE DEF u
  <2>2. GfMul(s, u) = GfMul(u, s)
    BY <1>1, <2>1, MulType
  <2> QED
    BY <2>1, <2>2
<1> HIDE DEF u
<1>7. GfDiv(GfMul(u, s), s) = u
  BY <1>6, DivOfProduct
<1> QED
  BY <1>6, <1>7 DEF g, h, u

\* A step of the record does the same with a combination as with its parts.
LEMMA StepOfCombination ==
  ASSUME NEW n, NEW sc, NEW fa, IsRecord(sc, fa, n), NEW i \in 1 .. n,
         NEW J, IsFiniteSet(J), NEW x \in [J -> Elements], NEW V \in [J -> Vectors(n)]
  PROVE  /\ Combination(J, x, V, n) \in Vectors(n)
         /\ StepOf(Combination(J, x, V, n), i, sc, fa, n)
              = Combination(J, x, [j \in J |-> StepOf(V[j], i, sc, fa, n)], n)
<1> DEFINE U == [j \in J |-> StepOf(V[j], i, sc, fa, n)]
           Term(r) == [j \in J |-> GfMul(x[j], V[j][r])]
           pivots == [j \in J |-> GfDiv(V[j][i], sc[i])]
           c == Combination(J, x, V, n)
           d == Combination(J, x, U, n)
           e == StepOf(c, i, sc, fa, n)
           z == sc[i]
<1>1. n \in Nat /\ z \in Elements \ {0} /\ \A r \in 1 .. n : fa[r][i] \in Elements
  BY DEF IsRecord, Vectors
<1>2. ASSUME NEW j \in J
      PROVE  /\ V[j] \in Vectors(n) /\ x[j] \in Elements
             /\ \A r \in 1 .. n : V[j][r] \in Elements
  BY DEF Vectors
<1>3. ASSUME NEW r \in 1 .. n
      PROVE  Term(r) \in [J -> Elements] /\ GfSum(Term(r)) \in Elements
  <2>1. \A j \in J : GfMul(x[j], V[j][r]) \in Elements
    BY <1>2, MulType
  <2>2. Term(r) \in [J -> Elements]
    BY <2>1
  <2> HIDE DEF Term
  <2> QED
    BY <2>2, GfSumType
<1>4. \A r \in 1 .. n : c[r] = GfSum(Term(r))
  BY DEF Combination
<1>5. c \in Vectors(n)
  <2>1. c = [r \in 1 .. n |-> GfSum(Term(r))]
    BY DEF Combination
  <2> HIDE DEF Term, c
  <2> QED
    BY <1>3, <2>1 DEF Vectors
<1>6. ASSUME NEW j \in J
      PROVE  /\ U[j] \in Vectors(n) /\ pivots[j] \in Elements
             /\ \A r \in 1 .. n : U[j][r] = IF r = i THEN pivots[j]
                                            ELSE V[j][r] ^^ GfMul(pivots[j], fa[r][i])
  <2> DEFINE w == V[j]
  <2>1. w \in Vectors(n) /\ U[j] = StepOf(w, i, sc, fa, n) /\ pivots[j] = GfDiv(w[i], sc[i])
    BY <1>2
  <2> HIDE DEF w, U, pivots
  <2>2. /\ GfDiv(w[i], sc[i]) \in Elements
        /\ StepOf(w, i, sc, fa, n) \in Vectors(n)
        /\ \A r \in 1 .. n :
             StepOf(w, i, sc, fa, n)[r] =
               IF r = i THEN GfDiv(w[i], sc[i])
               ELSE w[r] ^^ GfMul(GfDiv(w[i], sc[i]), fa[r][i])
    BY <2>1, StepType
  <2> QED
    BY <2>1, <2>2 DEF w
<1>7. U \in [J -> Vectors(n)] /\ pivots \in [J -> Elements]
  <2>1. U = [j \in J |-> U[j]] /\ pivots = [j \in J |-> pivots[j]]
    OBVIOUS
  <2> HIDE DEF U, pivots
  <2> QED
    BY <1>6, <2>1
<1> HIDE DEF U, pivots, z
<1> DEFINE a == GfDiv(c[i], z)
           q == [j \in J |-> GfMul(x[j], pivots[j])]
<1>8. q \in [J -> Elements] /\ GfSum(q) \in Elements
  <2>1. \A j \in J : GfMul(x[j], pivots[j]) \in Elements
    BY <1>2, <1>7, MulType
  <2>2. q \in [J -> Elements]
    BY <2>1
  <2> HIDE DEF q
  <2> QED
    BY <2>2, GfSumType
<1>9. a = GfSum(q)
  <2> DEFINE f == [j \in J |-> V[j][i]]
             g == [j \in J |-> GfMul(x[j], f[j])]
             h == [j \in J |-> GfMul(x[j], GfDiv(f[j], z))]
  <2>1. f \in [J -> Elements]
    BY <1>2
  <2>2. g = Term(i)
    OBVIOUS
  <2>3. h = q
    <3>1. \A j \in J : pivots[j] = GfDiv(f[j], z)
      BY DEF pivots, z
    <3> HIDE DEF f
    <3> QED
      BY <3>1
  <2> HIDE DEF f, q
  <2>4. GfDiv(GfSum(g), z) = GfSum(h)
    BY <1>1, <2>1, DivOfSum
  <2> HIDE DEF g, h, Term, c
  <2> QED
    BY <1>4, <2>2, <2>3, <2>4
<1> HIDE DEF c, a
<1>10. /\ e \in Vectors(n)
       /\ \A r \in 1 .. n : e[r] = IF r = i THEN a ELSE c[r] ^^ GfMul(a, fa[r][i])
  BY <1>5, StepType DEF a, z
<1> DEFINE Image(r) == [j \in J |-> GfMul(x[j], U[j][r])]
<1>11. ASSUME NEW r \in 1 .. n PROVE Image(r) \in [J -> Elements] /\ GfSum(Image(r)) \in Elements
  <2>1. ASSUME NEW j \in J PROVE GfMul(x[j], U[j][r]) \in Elements
    <3>1. U[j][r] \in Elements /\ x[j] \in Elements
      BY <1>2, <1>6 DEF Vectors
    <3> QED
      BY <3>1, MulType
  <2>2. Image(r) \in [J -> Elements]
    BY <2>1
  <2> HIDE DEF Image
  <2> QED
    BY <2>2, GfSumType
<1>12. \A r \in 1 .. n : d[r] = GfSum(Image(r))
  BY DEF Combination
<1>13. d \in Vectors(n)
  <2>1. d = [r \in 1 .. n |-> GfSum(Image(r))]
    BY DEF Combination
  <2> HIDE DEF Image, d
  <2> QED
    BY <1>11, <2>1 DEF Vectors
<1> HIDE DEF d, e
<1>14. ASSUME NEW r \in 1 .. n PROVE d[r] = e[r]
  <2>1. CASE r = i
    <3>1. Image(r) = q
      BY <1>6, <2>1
    <3> HIDE DEF Image, q
    <3> QED
      BY <1>9, <1>10, <1>12, <2>1, <3>1
  <2>2. CASE r # i
    <3> DEFINE s == fa[r][i]
               t == [j \in J |-> GfMul(s, q[j])]
               u == [j \in J |-> Term(r)[j] ^^ t[j]]
    <3>1. s \in Elements
      BY <1>1
    <3> HIDE DEF s
    <3>2. GfSum(t) = GfMul(s, GfSum(q)) /\ t \in [J -> Elements]
      <4>1. \A j \in J : GfMul(s, q[j]) \in Elements
        BY <1>8, <3>1, MulType
      <4>2. t \in [J -> Elements]
        BY <4>1
      <4> HIDE DEF q
      <4> QED
        BY <1>8, <3>1, <4>2, GfSumScaled
    <3>3. GfSum(u) = GfSum(Term(r)) ^^ GfSum(t)
      <4> HIDE DEF Term, t
      <4> QED
        BY <1>3, <3>2, GfSumOfXors
    <3>4. Image(r) = u
      <4>1. ASSUME NEW j \in J
            PROVE  GfMul(x[j], U[j][r]) = GfMul(x[j], V[j][r]) ^^ GfMul(s, GfMul(x[j], pivots[j]))
        <5> DEFINE y == x[j]
                   v == V[j][r]
                   b == pivots[j]
                   m == GfMul(b, s)
        <5>1. y \in Elements /\ v \in Elements /\ b \in Elements
          BY <1>2, <1>6
        <5>2. U[j][r] = v ^^ m
          BY <1>6, <2>2 DEF s
        <5> HIDE DEF y, v, b
        <5>3. m \in Elements
          BY <3>1, <5>1, MulType
        <5> DEFINE yb == GfMul(y, b)
        <5>4. yb \in Elements
          BY <5>1, MulType
        <5>5. GfMul(y, m) = GfMul(yb, s)
          BY <3>1, <5>1, MulAssociates
        <5> HIDE DEF m, yb
        <5>6. GfMul(y, v ^^ m) = GfMul(y, v) ^^ GfMul(y, m)
          BY <5>1, <5>3, MulDistributes
        <5>7. GfMul(yb, s) = GfMul(s, yb)
          BY <3>1, <5>4, MulType
        <5> QED
          BY <5>2, <5>5, <5>6, <5>7 DEF yb, y, v, b
      <4>2. \A j \in J : u[j] = GfMul(x[j], V[j][r]) ^^ GfMul(s, GfMul(x[j], pivots[j]))
        OBVIOUS
      <4>3. \A j \in J : Image(r)[j] = u[j]
        <5> HIDE DEF u
        <5> QED
          BY <4>1, <4>2
      <4>4. Image(r) = [j \in J |-> Image(r)[j]] /\ u = [j \in J |-> u[j]]
        OBVIOUS
      <4> HIDE DEF u, Image
      <4> QED
        BY <4>3, <4>4
    <3> DEFINE sq == GfSum(q)
    <3>5. GfMul(s, sq) = GfMul(sq, s)
      <4>1. sq \in Elements
        BY <1>8
      <4> HIDE DEF sq
      <4> QED
        BY <3>1, <4>1, MulType
    <3>6. d[r] = GfSum(Term(r)) ^^ GfMul(a, s)
      <4> HIDE DEF Image, Term, u, t, q
      <4> QED
        BY <1>9, <1>12, <3>2, <3>3, <3>4, <3>5
    <3>7. e[r] = c[r] ^^ GfMul(a, s)
      BY <1>10, <2>2 DEF s
    <3> HIDE DEF Term
    <3> QED
      BY <1>4, <3>6, <3>7
  <2> QED
    BY <2>1, <2>2
<1>15. d = e
  BY <1>10, <1>13, <1>14, VectorsSame
<1> QED
  BY <1>5, <1>15 DEF d, e, U, c

\* So does the whole record.
LEMMA ReplayOfCombination ==
  ASSUME NEW n, NEW sc, NEW fa, IsRecord(sc, fa, n),
         NEW J, IsFiniteSet(J), NEW x \in [J -> Elements], NEW V \in [J -> Vectors(n)],
         NEW m \in 0 .. n
  PROVE  ReplayOf(Combination(J, x, V, n), sc, fa, n)[m]
           = Combination(J, x, [j \in J |-> ReplayOf(V[j], sc, fa, n)[m]], n)
<1> DEFINE c == Combination(J, x, V, n)
           f == ReplayOf(c, sc, fa, n)
           G(i) == [j \in J |-> ReplayOf(V[j], sc, fa, n)[i]]
           T == {i \in Nat : i <= n => f[i] = Combination(J, x, G(i), n)}
<1>1. n \in Nat
  BY DEF IsRecord
<1>2. c \in Vectors(n)
  <2>1. \A j \in J : \A r \in 1 .. n : V[j][r] \in Elements /\ x[j] \in Elements
    BY DEF Vectors
  <2>2. ASSUME NEW r \in 1 .. n PROVE GfSum([j \in J |-> GfMul(x[j], V[j][r])]) \in Elements
    <3> DEFINE t == [j \in J |-> GfMul(x[j], V[j][r])]
    <3>1. \A j \in J : GfMul(x[j], V[j][r]) \in Elements
      BY <2>1, MulType
    <3>2. t \in [J -> Elements]
      BY <3>1
    <3> HIDE DEF t
    <3>3. GfSum(t) \in Elements
      BY <3>2, GfSumType
    <3> QED
      BY <3>3 DEF t
  <2> QED
    BY <2>2 DEF Combination, Vectors
<1> HIDE DEF c
<1>3. /\ f[0] = c
      /\ \A i \in 0 .. n - 1 : f[i + 1] = StepOf(f[i], i + 1, sc, fa, n)
  BY <1>2, ReplaySteps
<1>4. ASSUME NEW j \in J
      PROVE  /\ ReplayOf(V[j], sc, fa, n)[0] = V[j]
             /\ \A i \in 0 .. n : ReplayOf(V[j], sc, fa, n)[i] \in Vectors(n)
             /\ \A i \in 0 .. n - 1 :
                  ReplayOf(V[j], sc, fa, n)[i + 1] =
                    StepOf(ReplayOf(V[j], sc, fa, n)[i], i + 1, sc, fa, n)
  <2> DEFINE v == V[j]
  <2>1. v \in Vectors(n)
    OBVIOUS
  <2> HIDE DEF v
  <2>2. /\ ReplayOf(v, sc, fa, n)[0] = v
        /\ \A i \in 0 .. n : ReplayOf(v, sc, fa, n)[i] \in Vectors(n)
        /\ \A i \in 0 .. n - 1 :
             ReplayOf(v, sc, fa, n)[i + 1] = StepOf(ReplayOf(v, sc, fa, n)[i], i + 1, sc, fa, n)
    BY <2>1, ReplaySteps
  <2> QED
    BY <2>2 DEF v
<1> HIDE DEF f
<1>5. 0 \in T
  <2>1. \A j \in J : G(0)[j] = V[j]
    BY <1>4
  <2>2. G(0) = [j \in J |-> G(0)[j]] /\ V = [j \in J |-> V[j]]
    OBVIOUS
  <2> HIDE DEF G
  <2>3. G(0) = V
    BY <2>1, <2>2
  <2> QED
    BY <1>3, <2>3 DEF c
<1>6. ASSUME NEW i \in Nat, i \in T PROVE i + 1 \in T
  <2> SUFFICES ASSUME i + 1 <= n PROVE f[i + 1] = Combination(J, x, G(i + 1), n)
    OBVIOUS
  <2> DEFINE o == i + 1
             g == G(i)
             h == [j \in J |-> StepOf(g[j], o, sc, fa, n)]
  <2>1. o \in 1 .. n /\ i \in 0 .. n - 1 /\ i \in 0 .. n /\ f[i] = Combination(J, x, g, n)
    BY <1>1, <1>6
  <2>2. g \in [J -> Vectors(n)]
    BY <1>4, <2>1
  <2>3. G(o) = h
    <3>1. \A j \in J : ReplayOf(V[j], sc, fa, n)[o] = StepOf(g[j], o, sc, fa, n)
      BY <1>4, <2>1
    <3> QED
      BY <3>1
  <2>4. f[o] = StepOf(f[i], o, sc, fa, n)
    BY <1>3, <2>1
  <2> HIDE DEF o, g
  <2>5. StepOf(Combination(J, x, g, n), o, sc, fa, n) = Combination(J, x, h, n)
    BY <2>1, <2>2, StepOfCombination
  <2>6. f[o] = Combination(J, x, G(o), n)
    BY <2>1, <2>3, <2>4, <2>5
  <2> QED
    BY <2>6 DEF o
<1>7. Nat \subseteq T
  <2> HIDE DEF T
  <2> QED
    BY <1>5, <1>6, SetInduction
<1>8. m \in T
  <2> HIDE DEF T
  <2> QED
    BY <1>1, <1>7
<1> QED
  BY <1>1, <1>8 DEF f, c

-----------------------------------------------------------------------------
(***************************************************************************)
(* The encoder's sums                                                      *)
(***************************************************************************)

\* The constants of the module.
LEMMA CodecNumbers ==
  /\ DataBlocks \in Nat /\ DataBlocks > 0 /\ RecoveryBlocks \in Nat
  /\ DataBatch \in Nat /\ DataBatch > 0 /\ SourceBatch \in Nat /\ SourceBatch > 0
  /\ Blocks = 1 .. DataBlocks /\ Blocks \subseteq Nat /\ IsFiniteSet(Blocks)
  /\ Cardinality(Blocks) = DataBlocks
  /\ Exponents = 0 .. RecoveryBlocks - 1 /\ Exponents \subseteq Nat
  /\ Constants \in [Blocks -> Elements \ {0}]
  /\ Samples \subseteq [Blocks -> Elements]
  /\ \A e \in Exponents : \A d \in Blocks :
       GfPow(Constants[d], e) \in Elements /\ GfPow(Constants[d], e) # 0
<1>1. /\ DataBlocks \in Nat /\ DataBlocks > 0 /\ RecoveryBlocks \in Nat
      /\ DataBatch \in Nat /\ DataBatch > 0 /\ SourceBatch \in Nat /\ SourceBatch > 0
      /\ Samples \subseteq [Blocks -> Elements]
  BY CodeAssumption
<1>2. /\ Blocks = 1 .. DataBlocks /\ Blocks \subseteq Nat
      /\ Exponents = 0 .. RecoveryBlocks - 1 /\ Exponents \subseteq Nat
  BY <1>1 DEF Blocks, Exponents
<1>3. IsFiniteSet(Blocks) /\ Cardinality(Blocks) = DataBlocks
  BY <1>1, <1>2, FS_Interval
<1>4. Constants \in [Blocks -> Elements \ {0}]
  BY <1>1, <1>2, ConstantsType DEF Constants
<1>5. ASSUME NEW e \in Exponents, NEW d \in Blocks
      PROVE  GfPow(Constants[d], e) \in Elements /\ GfPow(Constants[d], e) # 0
  <2>1. Constants[d] \in Elements /\ Constants[d] # 0 /\ e \in Nat
    BY <1>2, <1>4
  <2> QED
    BY <2>1, PowType
<1> QED
  BY <1>1, <1>2, <1>3, <1>4, <1>5

\* The coefficients that the encoder multiplies up one by one.
IsCoeff(g, d) ==
  g = [e \in Exponents |-> IF e = 0 THEN 1 ELSE GfMul(g[e - 1], Constants[d])]

\* They are the powers of the constants, which the decoder computes with gf_pow.
LEMMA CoeffIsPower ==
  ASSUME NEW d \in Blocks, NEW e \in Exponents
  PROVE  CoeffMatrix[d][e] = GfPow(Constants[d], e)
<1> DEFINE c == Constants[d]
           p == [x \in Exponents |-> GfPow(c, x)]
           f == CHOOSE g : IsCoeff(g, d)
<1>1. c \in Elements /\ Exponents = 0 .. RecoveryBlocks - 1 /\ RecoveryBlocks \in Nat
  BY CodecNumbers
<1>2. IsCoeff(p, d)
  <2>1. ASSUME NEW x \in Exponents
        PROVE  p[x] = IF x = 0 THEN 1 ELSE GfMul(p[x - 1], Constants[d])
    <3>1. CASE x = 0
      BY <1>1, <3>1, PowType
    <3>2. CASE x # 0
      <4> DEFINE y == x - 1
      <4>1. y \in Nat /\ x = y + 1 /\ y \in Exponents
        BY <1>1, <3>2
      <4>2. p[y] = GfPow(c, y) /\ p[x] = GfPow(c, x)
        BY <4>1
      <4> HIDE DEF y, c, p
      <4>3. GfPow(c, y + 1) = GfMul(GfPow(c, y), c)
        BY <1>1, <4>1, PowType
      <4> QED
        BY <3>2, <4>1, <4>2, <4>3 DEF y, c
    <3> QED
      BY <3>1, <3>2
  <2>2. p = [x \in Exponents |-> p[x]]
    OBVIOUS
  <2> HIDE DEF p
  <2> QED
    BY <2>1, <2>2 DEF IsCoeff
<1>3. IsCoeff(f, d)
  <2> HIDE DEF p
  <2> QED
    BY <1>2
<1> HIDE DEF f
<1>4. \A x \in Exponents : f[x] = IF x = 0 THEN 1 ELSE GfMul(f[x - 1], Constants[d])
  BY <1>3 DEF IsCoeff
<1> DEFINE T == {x \in Nat : x \in Exponents => f[x] = GfPow(c, x)}
<1>5. 0 \in T
  BY <1>1, <1>4, PowType
<1>6. ASSUME NEW x \in Nat, x \in T PROVE x + 1 \in T
  <2> SUFFICES ASSUME x + 1 \in Exponents PROVE f[x + 1] = GfPow(c, x + 1)
    OBVIOUS
  <2> DEFINE y == x + 1
  <2>1. y \in Exponents /\ y # 0 /\ y - 1 = x /\ x \in Exponents /\ f[x] = GfPow(c, x)
    BY <1>1, <1>6
  <2> HIDE DEF y
  <2>2. f[y] = GfMul(f[x], Constants[d])
    BY <1>4, <2>1
  <2>3. GfPow(c, x + 1) = GfMul(GfPow(c, x), c)
    BY <1>1, PowType
  <2> QED
    BY <2>1, <2>2, <2>3 DEF y
<1>7. Nat \subseteq T
  <2> HIDE DEF T
  <2> QED
    BY <1>5, <1>6, SetInduction
<1>8. f[e] = GfPow(c, e)
  BY <1>1, <1>7
<1>9. CoeffMatrix[d][e] = f[e]
  BY DEF CoeffMatrix, f, IsCoeff
<1> QED
  BY <1>8, <1>9

\* What each block of x adds to the recovery block with exponent e.
TermsOf(x, e) == [d \in Blocks |-> GfMul(x[d], GfPow(Constants[d], e))]

\* The terms are elements, whatever part of them is summed up.
LEMMA TermsType ==
  ASSUME NEW x \in Samples, NEW e \in Exponents
  PROVE  /\ TermsOf(x, e) \in [Blocks -> Elements]
         /\ \A S \in SUBSET Blocks :
              /\ IsFiniteSet(S)
              /\ [d \in S |-> TermsOf(x, e)[d]] \in [S -> Elements]
              /\ GfSum([d \in S |-> TermsOf(x, e)[d]]) \in Elements
<1> DEFINE f == TermsOf(x, e)
<1>1. f \in [Blocks -> Elements]
  <2>1. ASSUME NEW d \in Blocks PROVE GfMul(x[d], GfPow(Constants[d], e)) \in Elements
    <3>1. x[d] \in Elements /\ GfPow(Constants[d], e) \in Elements
      BY CodecNumbers
    <3> QED
      BY <3>1, MulType
  <2> QED
    BY <2>1 DEF TermsOf
<1> HIDE DEF f
<1>2. ASSUME NEW S \in SUBSET Blocks
      PROVE  /\ IsFiniteSet(S) /\ [d \in S |-> f[d]] \in [S -> Elements]
             /\ GfSum([d \in S |-> f[d]]) \in Elements
  <2> DEFINE g == [d \in S |-> f[d]]
  <2>1. IsFiniteSet(S) /\ g \in [S -> Elements]
    BY <1>1, CodecNumbers, FS_Subset
  <2> HIDE DEF g
  <2>2. GfSum(g) \in Elements
    BY <2>1, GfSumType
  <2> QED
    BY <2>1, <2>2 DEF g
<1> QED
  BY <1>1, <1>2 DEF f

\* The sum over the first m blocks, and the sum over a batch as flush_batch computes it.
SumUpTo(x, e, m) == GfSum([d \in 1 .. m |-> TermsOf(x, e)[d]])
BatchOf(w, e) ==
  GfSum([slot \in DOMAIN w |-> GfMul(w[slot].word, CoeffMatrix[w[slot].block][e])])

\* A batch of n blocks behind the first m adds their terms.
LEMMA BatchSum ==
  ASSUME NEW x \in Samples, NEW e \in Exponents, NEW m \in Nat, NEW n \in Nat,
         m + n <= DataBlocks, NEW w, DOMAIN w = 1 .. n,
         \A s \in 1 .. n : w[s].block = m + s /\ w[s].word = x[m + s]
  PROVE  SumUpTo(x, e, m) ^^ BatchOf(w, e) = SumUpTo(x, e, m + n)
<1> DEFINE f == TermsOf(x, e)
           S == 1 .. m + n
           A == 1 .. m
           B == m + 1 .. m + n
           g == [d \in S |-> f[d]]
           h == [slot \in 1 .. n |-> m + slot]
           b == [d \in B |-> f[d]]
<1>1. /\ f \in [Blocks -> Elements] /\ DataBlocks \in Nat /\ Blocks = 1 .. DataBlocks
      /\ \A Q \in SUBSET Blocks : IsFiniteSet(Q) /\ [d \in Q |-> f[d]] \in [Q -> Elements]
  BY TermsType, CodecNumbers
<1>2. /\ S \in SUBSET Blocks /\ A \in SUBSET S /\ B \in SUBSET S /\ A \cap B = {}
      /\ S = A \cup B /\ B \in SUBSET Blocks
  BY <1>1
<1>3. \A d \in Blocks : f[d] = GfMul(x[d], GfPow(Constants[d], e))
  BY DEF TermsOf
<1> HIDE DEF f
<1>4. /\ IsFiniteSet(S) /\ g \in [S -> Elements] /\ IsFiniteSet(B) /\ b \in [B -> Elements]
  <2> HIDE DEF S, B
  <2> QED
    BY <1>1, <1>2
<1>5. GfSum(g) = GfSum([d \in A |-> g[d]]) ^^ GfSum([d \in B |-> g[d]])
  <2> HIDE DEF g, S, A, B
  <2> QED
    BY <1>2, <1>4, GfSumOfParts
<1>6. [d \in A |-> g[d]] = [d \in A |-> f[d]] /\ [d \in B |-> g[d]] = b
  <2> HIDE DEF S, A, B
  <2> QED
    BY <1>2
<1>7. GfSum([s \in 1 .. n |-> b[h[s]]]) = GfSum(b)
  <2>1. /\ h \in [1 .. n -> B]
        /\ \A s, t \in 1 .. n : h[s] = h[t] => s = t
    OBVIOUS
  <2>2. ASSUME NEW d \in B PROVE \E s \in 1 .. n : h[s] = d
    <3>1. d - m \in 1 .. n /\ h[d - m] = d
      OBVIOUS
    <3> QED
      BY <3>1
  <2>3. IsFiniteSet(1 .. n)
    BY FS_Interval
  <2> DEFINE R == 1 .. n
  <2>4. /\ h \in [R -> B] /\ IsFiniteSet(R)
        /\ \A s, t \in R : h[s] = h[t] => s = t
        /\ \A d \in B : \E s \in R : h[s] = d
    BY <2>1, <2>2, <2>3
  <2>5. GfSum([s \in R |-> b[h[s]]]) = GfSum(b)
    <3> HIDE DEF R, B, b, h
    <3> QED
      BY <1>4, <2>4, GfSumRenamed
  <2> QED
    BY <2>5
<1>8. [s \in 1 .. n |-> b[h[s]]]
        = [slot \in DOMAIN w |-> GfMul(w[slot].word, CoeffMatrix[w[slot].block][e])]
  <2>1. ASSUME NEW s \in 1 .. n
        PROVE  b[h[s]] = GfMul(w[s].word, CoeffMatrix[w[s].block][e])
    <3>1. m + s \in B /\ m + s \in Blocks /\ w[s].block = m + s /\ w[s].word = x[m + s]
      BY <1>1
    <3>2. b[h[s]] = f[m + s]
      BY <3>1
    <3> DEFINE d == m + s
    <3>3. CoeffMatrix[d][e] = GfPow(Constants[d], e)
      <4>1. d \in Blocks
        BY <3>1
      <4> HIDE DEF d
      <4> QED
        BY <4>1, CoeffIsPower
    <3> QED
      BY <1>3, <3>1, <3>2, <3>3
  <2> HIDE DEF b, h
  <2> QED
    BY <2>1
<1> DEFINE a == [d \in A |-> f[d]]
           o == [slot \in DOMAIN w |-> GfMul(w[slot].word, CoeffMatrix[w[slot].block][e])]
<1>9. GfSum(g) = GfSum(a) ^^ GfSum(b)
  <2> HIDE DEF b, g
  <2> QED
    BY <1>5, <1>6
<1>10. GfSum(o) = GfSum(b)
  <2> HIDE DEF b, h
  <2> QED
    BY <1>7, <1>8
<1>11. GfSum(a) ^^ GfSum(o) = GfSum(g)
  <2> HIDE DEF a, b, g, o
  <2> QED
    BY <1>9, <1>10
<1> QED
  BY <1>11 DEF f, SumUpTo, BatchOf

-----------------------------------------------------------------------------
(***************************************************************************)
(* One column of the elimination                                           *)
(***************************************************************************)

\* The matrices of n rows and columns, and their columns.
Matrices(n) == [1 .. n -> Vectors(n)]
Column(M, j, n) == [i \in 1 .. n |-> M[i][j]]

\* What Eliminate makes of the matrix, the pivots and the factors, in column c with the pivot
\* in row p.
PivotRow(M, c, p, n) ==
  [j \in 1 .. n |-> IF j < c THEN Swapped(M, c, p)[c][j]
                    ELSE GfDiv(Swapped(M, c, p)[c][j], Swapped(M, c, p)[c][c])]
NextMatrix(M, c, p, n) ==
  [r \in 1 .. n |->
     IF r = c THEN PivotRow(M, c, p, n)
     ELSE [j \in 1 .. n |-> IF j < c THEN Swapped(M, c, p)[r][j]
                            ELSE Swapped(M, c, p)[r][j]
                                   ^^ GfMul(PivotRow(M, c, p, n)[j], Swapped(M, c, p)[r][c])]]
NextScale(sc, M, c, p) == [Swapped(sc, c, p) EXCEPT ![c] = Swapped(M, c, p)[c][c]]
NextFactors(fa, M, c, p, n) ==
  [r \in 1 .. n |-> IF r = c THEN Swapped(fa, c, p)[r]
                    ELSE [Swapped(fa, c, p)[r] EXCEPT ![c] = Swapped(M, c, p)[r][c]]]

\* The exchange of two rows of a matrix.
LEMMA SwappedMatrix ==
  ASSUME NEW n \in Nat, NEW M \in Matrices(n), NEW c \in 1 .. n, NEW p \in 1 .. n
  PROVE  /\ Swapped(M, c, p) \in Matrices(n)
         /\ Swapped(M, c, p)[c] = M[p]
         /\ \A r \in 1 .. n : /\ Swapped(M, c, p)[r] \in Vectors(n)
                              /\ \A j \in 1 .. n : Swapped(M, c, p)[r][j] \in Elements
         /\ \A j \in 1 .. n : Column(Swapped(M, c, p), j, n) = Swapped(Column(M, j, n), c, p)
<1>1. Swapped(M, c, p) = [r \in 1 .. n |-> IF r = p THEN M[c] ELSE IF r = c THEN M[p] ELSE M[r]]
  BY DEF Swapped, Matrices
<1>2. \A r \in 1 .. n : M[r] \in Vectors(n)
  BY DEF Matrices
<1>3. \A r \in 1 .. n : Swapped(M, c, p)[r] \in Vectors(n)
  BY <1>1, <1>2
<1>4. Swapped(M, c, p) \in Matrices(n)
  BY <1>1, <1>2 DEF Matrices
<1>5. Swapped(M, c, p)[c] = M[p]
  BY <1>1
<1>6. ASSUME NEW j \in 1 .. n
      PROVE  Column(Swapped(M, c, p), j, n) = Swapped(Column(M, j, n), c, p)
  <2> DEFINE v == Column(M, j, n)
  <2>1. v = [i \in 1 .. n |-> M[i][j]]
    BY DEF Column
  <2>2. Swapped(v, c, p) = [r \in 1 .. n |-> IF r = p THEN v[c] ELSE IF r = c THEN v[p] ELSE v[r]]
    BY <2>1 DEF Swapped
  <2>3. Column(Swapped(M, c, p), j, n) = [i \in 1 .. n |-> Swapped(M, c, p)[i][j]]
    BY DEF Column
  <2>4. \A i \in 1 .. n : Swapped(M, c, p)[i][j]
                            = IF i = p THEN v[c] ELSE IF i = c THEN v[p] ELSE v[i]
    BY <1>1, <2>1
  <2> QED
    BY <2>2, <2>3, <2>4
<1> QED
  BY <1>3, <1>4, <1>5, <1>6 DEF Vectors

\* The next matrix and record have the types they should; the pivot is not 0, and the steps
\* recorded before stay with their rows.
LEMMA NextTypes ==
  ASSUME NEW n, NEW sc, NEW fa, IsRecord(sc, fa, n), NEW M \in Matrices(n),
         NEW c \in 1 .. n, NEW p \in 1 .. n, c <= p, M[p][c] # 0
  PROVE  /\ PivotRow(M, c, p, n) \in Vectors(n)
         /\ NextMatrix(M, c, p, n) \in Matrices(n)
         /\ IsRecord(NextScale(sc, M, c, p), NextFactors(fa, M, c, p, n), n)
         /\ NextScale(sc, M, c, p)[c] = Swapped(M, c, p)[c][c]
         /\ Swapped(M, c, p)[c][c] \in Elements \ {0}
         /\ \A s \in 1 .. c - 1 : NextScale(sc, M, c, p)[s] = sc[s]
         /\ \A r \in 1 .. n : \A s \in 1 .. c - 1 :
              NextFactors(fa, M, c, p, n)[r][s] = Swapped(fa, c, p)[r][s]
         /\ \A r \in 1 .. n : r # c => NextFactors(fa, M, c, p, n)[r][c] = Swapped(M, c, p)[r][c]
<1> DEFINE A == Swapped(M, c, p)
           F == Swapped(fa, c, p)
           S == Swapped(sc, c, p)
           row == PivotRow(M, c, p, n)
           z == A[c][c]
<1>1. n \in Nat /\ sc \in [1 .. n -> Elements \ {0}] /\ fa \in Matrices(n)
  BY DEF IsRecord, Matrices, Vectors
<1>2. /\ \A r \in 1 .. n : A[r] \in Vectors(n) /\ \A j \in 1 .. n : A[r][j] \in Elements
      /\ z \in Elements \ {0}
  BY <1>1, SwappedMatrix
<1>3. \A r \in 1 .. n : F[r] \in Vectors(n)
  BY <1>1, SwappedMatrix
<1>4. S \in [1 .. n -> Elements \ {0}] /\ \A s \in 1 .. c - 1 : S[s] = sc[s]
  <2>1. S = [r \in 1 .. n |-> IF r = p THEN sc[c] ELSE IF r = c THEN sc[p] ELSE sc[r]]
    BY <1>1 DEF Swapped
  <2> HIDE DEF S
  <2>2. S \in [1 .. n -> Elements \ {0}]
    BY <1>1, <2>1
  <2>3. ASSUME NEW s \in 1 .. c - 1 PROVE S[s] = sc[s]
    <3>1. s \in 1 .. n /\ s # p /\ s # c
      BY <1>1
    <3> QED
      BY <2>1, <3>1
  <2> QED
    BY <2>2, <2>3
<1>5. row \in Vectors(n)
  <2>1. row = [j \in 1 .. n |-> IF j < c THEN A[c][j] ELSE GfDiv(A[c][j], z)]
    BY DEF PivotRow
  <2> HIDE DEF row, A, z
  <2>2. \A j \in 1 .. n : A[c][j] \in Elements /\ GfDiv(A[c][j], z) \in Elements
    BY <1>2, DivType
  <2> QED
    BY <2>1, <2>2 DEF Vectors
<1>6. NextMatrix(M, c, p, n) \in Matrices(n)
  <2> DEFINE Reduced(r) == [j \in 1 .. n |-> IF j < c THEN A[r][j]
                                             ELSE A[r][j] ^^ GfMul(row[j], A[r][c])]
  <2>1. NextMatrix(M, c, p, n) = [r \in 1 .. n |-> IF r = c THEN row ELSE Reduced(r)]
    BY DEF NextMatrix
  <2> HIDE DEF A, row
  <2>2. ASSUME NEW r \in 1 .. n PROVE Reduced(r) \in Vectors(n)
    <3>1. ASSUME NEW j \in 1 .. n
          PROVE  A[r][j] \in Elements /\ A[r][j] ^^ GfMul(row[j], A[r][c]) \in Elements
      <4> DEFINE x == A[r][j]
                 y == GfMul(row[j], A[r][c])
      <4>1. x \in Elements /\ y \in Elements
        <5>1. x \in Elements /\ A[r][c] \in Elements /\ row[j] \in Elements
          BY <1>2, <1>5 DEF Vectors
        <5> QED
          BY <5>1, MulType
      <4> HIDE DEF x, y
      <4>2. x ^^ y \in Elements
        BY <4>1, XorGroup
      <4> QED
        BY <4>1, <4>2 DEF x, y
    <3> QED
      BY <3>1 DEF Vectors
  <2> HIDE DEF Reduced
  <2> QED
    BY <1>5, <2>1, <2>2 DEF Matrices
<1> HIDE DEF A, F, S
<1>7. /\ NextScale(sc, M, c, p) \in [1 .. n -> Elements \ {0}]
      /\ NextScale(sc, M, c, p)[c] = z
      /\ \A s \in 1 .. c - 1 : NextScale(sc, M, c, p)[s] = sc[s]
  <2>1. NextScale(sc, M, c, p) = [S EXCEPT ![c] = z]
    BY DEF NextScale, S, A
  <2> HIDE DEF z
  <2> QED
    BY <1>1, <1>2, <1>4, <2>1
<1> DEFINE H(r) == [F[r] EXCEPT ![c] = A[r][c]]
           G == NextFactors(fa, M, c, p, n)
<1>8. G = [r \in 1 .. n |-> IF r = c THEN F[r] ELSE H(r)]
  BY DEF NextFactors, F, A
<1>9. ASSUME NEW r \in 1 .. n
      PROVE  /\ H(r) \in Vectors(n) /\ H(r)[c] = A[r][c]
             /\ \A s \in 1 .. c - 1 : H(r)[s] = F[r][s]
  <2> DEFINE f == F[r]
             x == A[r][c]
  <2>1. f \in [1 .. n -> Elements] /\ x \in Elements
    BY <1>2, <1>3 DEF Vectors
  <2>2. H(r) = [f EXCEPT ![c] = x]
    OBVIOUS
  <2> HIDE DEF f, x, H
  <2>3. /\ H(r) \in [1 .. n -> Elements] /\ H(r)[c] = x
        /\ \A s \in 1 .. c - 1 : H(r)[s] = f[s]
    BY <1>1, <2>1, <2>2
  <2> QED
    BY <2>3 DEF f, x, Vectors
<1> HIDE DEF H, G
<1>10. /\ \A r \in 1 .. n : G[r] \in Vectors(n) /\ \A s \in 1 .. c - 1 : G[r][s] = F[r][s]
       /\ \A r \in 1 .. n : r # c => G[r][c] = A[r][c]
  BY <1>3, <1>8, <1>9
<1>11. G \in Matrices(n)
  BY <1>3, <1>8, <1>9 DEF Matrices
<1>12. IsRecord(NextScale(sc, M, c, p), G, n)
  BY <1>1, <1>7, <1>11 DEF IsRecord, Matrices, Vectors
<1> QED
  BY <1>2, <1>5, <1>6, <1>7, <1>10, <1>12 DEF G, F, A

\* A column of the identity.
Unit(j, n) == [i \in 1 .. n |-> IF i = j THEN 1 ELSE 0]

\* The columns already passed.
Reduced(M, c, n) == \A j \in 1 .. n : j < c => Column(M, j, n) = Unit(j, n)

\* Eliminating a column of a matrix is applying the recorded step to its columns, and makes it
\* a column of the identity.
LEMMA NextColumns ==
  ASSUME NEW n, NEW sc, NEW fa, IsRecord(sc, fa, n), NEW M \in Matrices(n),
         NEW c \in 1 .. n, NEW p \in 1 .. n, c <= p, M[p][c] # 0, Reduced(M, c, n),
         NEW j \in 1 .. n
  PROVE  /\ Swapped(Column(M, j, n), c, p) \in Vectors(n)
         /\ Column(NextMatrix(M, c, p, n), j, n)
              = StepOf(Swapped(Column(M, j, n), c, p), c,
                       NextScale(sc, M, c, p), NextFactors(fa, M, c, p, n), n)
         /\ j <= c => Column(NextMatrix(M, c, p, n), j, n) = Unit(j, n)
<1> DEFINE A == Swapped(M, c, p)
           row == PivotRow(M, c, p, n)
           N == NextMatrix(M, c, p, n)
           sd == NextScale(sc, M, c, p)
           fb == NextFactors(fa, M, c, p, n)
           v == Column(A, j, n)
           u == Column(N, j, n)
           z == A[c][c]
<1>1. /\ n \in Nat /\ A \in Matrices(n) /\ v = Swapped(Column(M, j, n), c, p)
      /\ \A r \in 1 .. n : \A s \in 1 .. n : A[r][s] \in Elements
  <2>1. n \in Nat
    BY DEF IsRecord
  <2> QED
    BY <2>1, SwappedMatrix
<1>2. /\ row \in Vectors(n) /\ N \in Matrices(n) /\ IsRecord(sd, fb, n)
      /\ sd[c] = z /\ z \in Elements \ {0}
      /\ \A r \in 1 .. n : r # c => fb[r][c] = A[r][c]
  BY NextTypes
<1>3. /\ row = [s \in 1 .. n |-> IF s < c THEN A[c][s] ELSE GfDiv(A[c][s], z)]
      /\ N = [r \in 1 .. n |->
                IF r = c THEN row
                ELSE [s \in 1 .. n |-> IF s < c THEN A[r][s]
                                       ELSE A[r][s] ^^ GfMul(row[s], A[r][c])]]
  BY DEF PivotRow, NextMatrix
<1>4. \A r \in 1 .. n : v[r] = A[r][j] /\ u[r] = N[r][j]
  BY DEF Column
<1>5. v \in Vectors(n) /\ u \in Vectors(n)
  <2>1. \A r \in 1 .. n : A[r][j] \in Elements /\ N[r][j] \in Elements
    BY <1>1, <1>2 DEF Matrices, Vectors
  <2> HIDE DEF A, N
  <2> QED
    BY <2>1 DEF Column, Vectors
\* In the columns already passed the pivot's row has a zero.
<1>6. ASSUME j < c
      PROVE  /\ A[c][j] = 0
             /\ \A r \in 1 .. n : A[r][j] = IF r = j THEN 1 ELSE 0
  <2> DEFINE w == Column(M, j, n)
  <2>1. w = Unit(j, n)
    BY <1>6 DEF Reduced
  <2>2. \A r \in 1 .. n : w[r] = IF r = j THEN 1 ELSE 0
    BY <2>1 DEF Unit
  <2>3. v = [r \in 1 .. n |-> IF r = p THEN w[c] ELSE IF r = c THEN w[p] ELSE w[r]]
    <3>1. DOMAIN w = 1 .. n
      BY DEF Column
    <3> HIDE DEF w, v
    <3> QED
      BY <1>1, <3>1 DEF Swapped, w
  <2> HIDE DEF w, v
  <2>4. j # c /\ j # p
    BY <1>1, <1>6
  <2>5. \A r \in 1 .. n : v[r] = IF r = j THEN 1 ELSE 0
    BY <2>2, <2>3, <2>4
  <2> QED
    BY <1>4, <2>4, <2>5
<1> HIDE DEF A, row, N, sd, fb, v, u, z
<1> DEFINE a == GfDiv(v[c], sd[c])
           e == StepOf(v, c, sd, fb, n)
<1>7. /\ a \in Elements /\ e \in Vectors(n)
      /\ \A r \in 1 .. n : e[r] = IF r = c THEN a ELSE v[r] ^^ GfMul(a, fb[r][c])
  <2>1. IsRecord(sd, fb, n) /\ v \in Vectors(n)
    BY <1>2, <1>5
  <2> QED
    BY <2>1, StepType
<1> HIDE DEF e
<1>8. CASE j < c
  <2>1. a = 0
    <3>1. v[c] = 0
      BY <1>4, <1>6, <1>8
    <3> QED
      BY <1>2, <3>1, DivOfProduct
  <2>2. ASSUME NEW r \in 1 .. n PROVE u[r] = e[r] /\ u[r] = IF r = j THEN 1 ELSE 0
    <3>1. u[r] = A[r][j]
      BY <1>1, <1>3, <1>4, <1>8
    <3>2. CASE r = c
      BY <1>6, <1>7, <1>8, <2>1, <3>1, <3>2
    <3>3. CASE r # c
      <4>1. e[r] = v[r] ^^ GfMul(0, fb[r][c])
        BY <1>7, <2>1, <3>3
      <4>2. fb[r][c] \in Elements /\ v[r] \in Elements
        BY <1>1, <1>2, <1>4, <3>3
      <4>3. GfMul(0, fb[r][c]) = 0
        BY <4>2, MulType
      <4>4. e[r] = v[r]
        BY <4>1, <4>2, <4>3, XorGroup
      <4> QED
        BY <1>4, <1>6, <1>8, <3>1, <4>4
    <3> QED
      BY <3>2, <3>3
  <2>3. u = e
    BY <1>5, <1>7, <2>2, VectorsSame
  <2>4. u = Unit(j, n)
    <3>1. u = [r \in 1 .. n |-> u[r]]
      BY <1>5 DEF Vectors
    <3> QED
      BY <2>2, <3>1 DEF Unit
  <2> QED
    BY <1>1, <1>5, <2>3, <2>4 DEF u, e, v, N, sd, fb
<1>9. CASE ~(j < c)
  <2>1. row[j] = a
    BY <1>2, <1>3, <1>4, <1>9
  <2>2. ASSUME NEW r \in 1 .. n PROVE u[r] = e[r]
    <3>1. CASE r = c
      BY <1>3, <1>4, <1>7, <2>1, <3>1
    <3>2. CASE r # c
      <4>1. u[r] = A[r][j] ^^ GfMul(a, A[r][c])
        BY <1>3, <1>4, <1>9, <2>1, <3>2
      <4>2. e[r] = v[r] ^^ GfMul(a, fb[r][c])
        BY <1>7, <3>2
      <4> QED
        BY <1>2, <1>4, <3>2, <4>1, <4>2
    <3> QED
      BY <3>1, <3>2
  <2>3. u = e
    BY <1>5, <1>7, <2>2, VectorsSame
  <2>4. ASSUME j <= c PROVE u = Unit(j, n)
    <3>1. j = c
      BY <1>1, <1>9, <2>4
    <3>2. a = 1
      <4>1. a = GfDiv(z, z)
        BY <1>2, <1>4, <3>1 DEF z
      <4> QED
        BY <1>2, <4>1, DivOfProduct
    <3>3. ASSUME NEW r \in 1 .. n PROVE u[r] = IF r = j THEN 1 ELSE 0
      <4>1. CASE r = c
        BY <1>7, <2>2, <3>1, <3>2, <4>1
      <4>2. CASE r # c
        <5> DEFINE x == A[r][c]
        <5>1. u[r] = x ^^ GfMul(1, x) /\ x \in Elements
          BY <1>1, <1>2, <1>4, <1>7, <2>2, <3>1, <3>2, <4>2
        <5> HIDE DEF x
        <5>2. GfMul(1, x) = x /\ x ^^ x = 0
          BY <5>1, MulType, XorGroup
        <5> QED
          BY <3>1, <4>2, <5>1, <5>2
      <4> QED
        BY <4>1, <4>2
    <3>4. u = [r \in 1 .. n |-> u[r]]
      BY <1>5 DEF Vectors
    <3> QED
      BY <3>3, <3>4 DEF Unit
  <2> QED
    BY <1>1, <1>5, <2>3, <2>4 DEF u, e, v, N, sd, fb
<1> QED
  BY <1>8, <1>9

-----------------------------------------------------------------------------
(***************************************************************************)
(* The inductive invariant                                                 *)
(***************************************************************************)

\* The encoder: the last blocks it was handed wait in their order, and the recovery blocks are
\* the sums of the ones before them.
EncoderInv ==
  /\ data \in Samples
  /\ fed \in 0 .. DataBlocks
  /\ batch \in Seq([block : Blocks, word : Elements])
  /\ Len(batch) < DataBatch /\ Len(batch) <= fed
  /\ \A s \in 1 .. Len(batch) :
       /\ batch[s].block = fed - Len(batch) + s
       /\ batch[s].word = data[fed - Len(batch) + s]
  /\ recovery \in [Exponents -> Elements]
  /\ \A e \in Exponents : recovery[e] = SumUpTo(data, e, fed - Len(batch))
  /\ pc # "encode" => fed = DataBlocks /\ batch = <<>>

\* The states before the elimination, those before the replay, and those after.
Early   == {"encode", "stored", "prepare", "rejected"}
Reducing == {"eliminate", "singular"}
After    == {"replay", "done", "failed"}

\* The lost blocks, in order, and the recovery blocks in use.
LossInv ==
  /\ pc \in Early \cup Reducing \cup After
  /\ missing \in Seq(Blocks) /\ exponents \in Seq(Exponents)
  /\ \A i, j \in Rows : i < j => missing[i] < missing[j]
  /\ pc \in {"encode", "stored"} => missing = <<>> /\ exponents = <<>>
  /\ pc \in Early => matrix = <<>> /\ rowOrder = <<>> /\ scale = <<>> /\ factors = <<>>
  /\ pc \in Early => k = 1
  /\ pc \notin Early => Losses > 0 /\ Len(exponents) >= Losses

\* The matrix and the record, where there is one: no pivot is 0.
RecordInv ==
  pc \notin Early =>
    /\ matrix \in [Rows -> [Rows -> Elements]]
    /\ IsRecord(scale, factors, Losses)
    /\ rowOrder \in Bijection(Rows, Rows)
    /\ k \in 1 .. Losses + 1

\* A column of the original matrix with its rows where the elimination moved them.
Moved(j) == [i \in Rows |-> OriginalColumn(j)[rowOrder[i]]]

\* At the end the record makes the identity of the original matrix.
SolvedInv ==
  pc \in {"replay", "done"} => \A j \in Rows : Replayed(Moved(j))[Losses] = Unit(j, Losses)

\* The accumulators and what was written.
OutputInv ==
  /\ pc \notin After => acc = <<>> /\ used = 0 /\ output = <<>>
  /\ output \in Seq(Elements)
  /\ IsVector(acc)
  /\ used \in 0 .. DataBlocks
  /\ pc \in {"replay", "done"} => acc \in [Rows -> Elements]
  /\ pc = "replay" => /\ used <= Len(UsedColumns) /\ Len(output) < Losses
                      /\ k > 1 => used = Len(UsedColumns)
                      /\ output # <<>> => k > Losses

\* The columns already added to the accumulators.
Added == {UsedColumns[c] : c \in 1 .. used}

\* The sum of some blocks, weighted as in row i.
SumOver(i, S) == GfSum([d \in S |-> GfMul(data[d], Vandermonde(i, d))])

\* The sum of the blocks not yet added.
OpenSum(i) == SumOver(i, Blocks \ Added)

\* The columns of the lost blocks, and the sum of the lost blocks that remains.
LostData == [j \in Rows |-> data[missing[j]]]
Remaining == [i \in Rows |-> GfSum([j \in Rows |-> GfMul(LostData[j], OriginalColumn(j)[i])])]

\* Without an exchange, the accumulators hold the sums of the blocks not yet added, and then
\* what the record makes of the sums of the lost blocks.
SumInv ==
  pc = "replay" /\ Unmoved =>
    /\ k = 1 => \A i \in Rows : acc[i] = OpenSum(i)
    /\ k > 1 => acc = Replayed(Remaining)[k - 1]

CodecInv ==
  /\ EncoderInv /\ LossInv /\ RecordInv /\ OutputInv
  /\ RecordReplaysElimination /\ SolvedInv /\ SumInv /\ UnmovedRestores

-----------------------------------------------------------------------------
(***************************************************************************)
(* The encoder                                                             *)
(***************************************************************************)

\* flush_batch adds the blocks of a batch to the recovery blocks.
LEMMA FlushedSums ==
  ASSUME EncoderInv, NEW m \in Nat, m = fed - Len(batch), NEW n \in Nat, m + n <= DataBlocks,
         NEW w, DOMAIN w = 1 .. n,
         \A s \in 1 .. n : w[s].block = m + s /\ w[s].word = data[m + s]
  PROVE  /\ Flushed(w) \in [Exponents -> Elements]
         /\ \A e \in Exponents :
              Flushed(w)[e] = SumUpTo(data, e, m + n)
<1> DEFINE Sum(j, e) == SumUpTo(data, e, j)
<1>1. data \in Samples /\ \A e \in Exponents : recovery[e] = Sum(m, e)
  BY DEF EncoderInv
<1>2. Flushed(w) = [e \in Exponents |-> recovery[e] ^^ BatchOf(w, e)]
  BY DEF Flushed, BatchOf
<1>3. ASSUME NEW e \in Exponents
      PROVE  Sum(m, e) ^^ BatchOf(w, e) = Sum(m + n, e) /\ Sum(m + n, e) \in Elements
  <2>1. Sum(m, e) ^^ BatchOf(w, e) = Sum(m + n, e)
    BY <1>1, BatchSum
  <2>2. 1 .. m + n \in SUBSET Blocks
    BY CodecNumbers
  <2>3. Sum(m + n, e) \in Elements
    BY <1>1, <2>2, TermsType DEF SumUpTo
  <2> QED
    BY <2>1, <2>3
<1> HIDE DEF Sum
<1>4. \A e \in Exponents : /\ recovery[e] ^^ BatchOf(w, e) = Sum(m + n, e)
                           /\ Sum(m + n, e) \in Elements
  BY <1>1, <1>3
<1>5. Flushed(w) = [e \in Exponents |-> Sum(m + n, e)]
  BY <1>2, <1>4
<1> QED
  BY <1>4, <1>5 DEF Sum

\* Nothing has been encoded at the start.
LEMMA EncoderInit ==
  ASSUME Init PROVE EncoderInv
<1>1. /\ fed = 0 /\ batch = <<>> /\ pc = "encode" /\ data \in Samples
      /\ recovery = [e \in Exponents |-> 0]
  BY DEF Init
<1>2. Len(<<>>) = 0 /\ batch \in Seq([block : Blocks, word : Elements])
  BY <1>1
<1>3. ASSUME NEW e \in Exponents
      PROVE  recovery[e] = SumUpTo(data, e, fed - Len(batch))
  <2> DEFINE S == 1 .. fed - Len(batch)
             f == [d \in S |-> TermsOf(data, e)[d]]
  <2>1. S = {}
    BY <1>1, <1>2
  <2>2. IsFiniteSet(S) /\ f \in [S -> Elements]
    <3>1. S \in SUBSET Blocks
      BY <2>1
    <3> HIDE DEF S
    <3> QED
      BY <1>1, <3>1, TermsType
  <2> HIDE DEF S, f
  <2>3. GfSum(f) = 0
    BY <2>1, <2>2, GfSumType
  <2>4. recovery[e] = 0
    BY <1>1
  <2> QED
    BY <2>3, <2>4 DEF f, S, SumUpTo
<1>4. 0 \in Elements /\ 0 \in 0 .. DataBlocks /\ 0 < DataBatch
  BY CodecNumbers, XorGroup
<1>5. recovery \in [Exponents -> Elements]
  BY <1>1, <1>4
<1>6. /\ \A s \in 1 .. Len(batch) : batch[s].block = fed - Len(batch) + s
      /\ \A s \in 1 .. Len(batch) : batch[s].word = data[fed - Len(batch) + s]
  BY <1>1, <1>2
<1> QED
  BY <1>1, <1>2, <1>3, <1>4, <1>5, <1>6 DEF EncoderInv

\* The blocks that wait, and one more.
LEMMA OneMoreWaits ==
  ASSUME EncoderInv, fed < DataBlocks,
         NEW w, w = Append(batch, [block |-> fed + 1, word |-> data[fed + 1]])
  PROVE  /\ w \in Seq([block : Blocks, word : Elements])
         /\ Len(w) = Len(batch) + 1 /\ Len(batch) \in Nat /\ DOMAIN w = 1 .. Len(w)
         /\ fed - Len(batch) \in Nat /\ fed \in Nat
         /\ \A s \in 1 .. Len(w) : /\ w[s].block = fed - Len(batch) + s
                                   /\ w[s].word = data[fed - Len(batch) + s]
<1> DEFINE Slots == [block : Blocks, word : Elements]
           new == [block |-> fed + 1, word |-> data[fed + 1]]
<1>1. /\ fed \in 0 .. DataBlocks /\ batch \in Seq(Slots) /\ Len(batch) <= fed
      /\ data \in Samples
      /\ \A s \in 1 .. Len(batch) : /\ batch[s].block = fed - Len(batch) + s
                                    /\ batch[s].word = data[fed - Len(batch) + s]
  BY DEF EncoderInv
<1>2. fed + 1 \in Blocks /\ data[fed + 1] \in Elements /\ fed \in Nat
  BY <1>1, CodecNumbers
<1>3. new \in Slots /\ new.block = fed + 1 /\ new.word = data[fed + 1]
  BY <1>2
<1> HIDE DEF new, Slots
<1>4. /\ w \in Seq(Slots) /\ Len(w) = Len(batch) + 1 /\ Len(batch) \in Nat
      /\ DOMAIN w = 1 .. Len(w)
      /\ \A s \in 1 .. Len(batch) : w[s] = batch[s]
      /\ w[Len(batch) + 1] = new
  BY <1>1, <1>3 DEF new
<1>5. ASSUME NEW s \in 1 .. Len(w)
      PROVE  w[s].block = fed - Len(batch) + s /\ w[s].word = data[fed - Len(batch) + s]
  <2>1. CASE s \in 1 .. Len(batch)
    BY <1>1, <1>4, <2>1
  <2>2. CASE s = Len(batch) + 1
    <3>1. fed - Len(batch) + s = fed + 1
      BY <1>2, <1>4, <2>2
    <3> QED
      BY <1>3, <1>4, <2>2, <3>1
  <2> QED
    BY <1>4, <2>1, <2>2
<1> QED
  BY <1>1, <1>2, <1>4, <1>5 DEF Slots

\* Every step keeps the encoder's invariant.
LEMMA EncoderStep ==
  ASSUME EncoderInv, [Next]_vars PROVE EncoderInv'
<1>0. /\ DataBlocks \in Nat /\ DataBatch \in Nat /\ DataBatch > 0
  BY CodecNumbers
<1>1. CASE ProcessBlock
  <2> DEFINE w == Append(batch, [block |-> fed + 1, word |-> data[fed + 1]])
             m == fed - Len(batch)
  <2>1. fed < DataBlocks /\ pc = "encode" /\ fed' = fed + 1 /\ data' = data /\ pc' = pc
    BY <1>1 DEF ProcessBlock
  <2>2. /\ w \in Seq([block : Blocks, word : Elements])
        /\ Len(w) = Len(batch) + 1 /\ Len(batch) \in Nat /\ DOMAIN w = 1 .. Len(w)
        /\ m \in Nat /\ fed \in Nat
        /\ \A s \in 1 .. Len(w) : w[s].block = m + s /\ w[s].word = data[m + s]
    BY <2>1, OneMoreWaits
  <2>3. CASE Len(w) >= DataBatch
    <3>1. recovery' = Flushed(w) /\ batch' = <<>>
      BY <1>1, <2>3 DEF ProcessBlock
    <3> HIDE DEF w
    <3> DEFINE n == Len(w)
    <3>2. n \in Nat /\ m + n = fed + 1 /\ m + n <= DataBlocks
      BY <1>0, <2>1, <2>2
    <3>3. /\ Flushed(w) \in [Exponents -> Elements]
          /\ \A e \in Exponents :
               Flushed(w)[e] = SumUpTo(data, e, m + n)
      <4> HIDE DEF n
      <4>1. \A s \in 1 .. n : w[s].block = m + s /\ w[s].word = data[m + s]
        BY <2>2 DEF n
      <4>2. DOMAIN w = 1 .. n
        BY <2>2 DEF n
      <4>3. m = fed - Len(batch) /\ m \in Nat
        BY <2>2
      <4> HIDE DEF m
      <4> QED
        BY <3>2, <4>1, <4>2, <4>3, FlushedSums
    <3>4. fed' - Len(batch') = m + n /\ Len(batch') = 0
      BY <2>1, <2>2, <3>1, <3>2
    <3>5. \A e \in Exponents :
            recovery'[e] = SumUpTo(data', e, fed' - Len(batch'))
      <4> HIDE DEF m, n
      <4> QED
        BY <2>1, <3>1, <3>3, <3>4
    <3>6. fed' \in 0 .. DataBlocks /\ Len(batch') < DataBatch /\ Len(batch') <= fed'
      BY <1>0, <2>1, <2>2, <3>4
    <3>7. batch' \in Seq([block : Blocks, word : Elements])
      BY <3>1
    <3>8. data' \in Samples /\ pc' = "encode"
      BY <2>1 DEF EncoderInv
    <3>9. recovery' \in [Exponents -> Elements]
      BY <3>1, <3>3
    <3>10. \A s \in 1 .. Len(batch') :
             /\ batch'[s].block = fed' - Len(batch') + s
             /\ batch'[s].word = data'[fed' - Len(batch') + s]
      BY <3>4
    <3> QED
      BY <3>5, <3>6, <3>7, <3>8, <3>9, <3>10 DEF EncoderInv
  <2>4. CASE ~(Len(w) >= DataBatch)
    <3>1. recovery' = recovery /\ batch' = w
      BY <1>1, <2>4 DEF ProcessBlock
    <3> HIDE DEF w
    <3>2. fed' - Len(batch') = m
      BY <2>1, <2>2, <3>1
    <3>3. \A e \in Exponents :
            recovery[e] = SumUpTo(data, e, fed - Len(batch))
      BY DEF EncoderInv
    <3>4. \A e \in Exponents :
            recovery'[e] = SumUpTo(data', e, fed' - Len(batch'))
      BY <2>1, <3>1, <3>2, <3>3
    <3>5. fed' \in 0 .. DataBlocks /\ Len(batch') < DataBatch /\ Len(batch') <= fed'
      BY <1>0, <2>1, <2>2, <2>4, <3>1
    <3>6. /\ batch' \in Seq([block : Blocks, word : Elements])
          /\ \A s \in 1 .. Len(batch') :
               /\ batch'[s].block = fed' - Len(batch') + s
               /\ batch'[s].word = data'[fed' - Len(batch') + s]
      BY <2>1, <2>2, <3>1, <3>2
    <3>7. data' \in Samples /\ pc' = "encode" /\ recovery' \in [Exponents -> Elements]
      BY <2>1, <3>1 DEF EncoderInv
    <3> QED
      BY <3>4, <3>5, <3>6, <3>7 DEF EncoderInv
  <2> QED
    BY <2>3, <2>4
<1>2. CASE Finalize
  <2> DEFINE m == fed - Len(batch)
             n == Len(batch)
  <2>1. /\ fed = DataBlocks /\ fed' = fed /\ data' = data /\ pc' = "stored"
        /\ recovery' = Flushed(batch) /\ batch' = <<>>
    BY <1>2 DEF Finalize
  <2>2. /\ n \in Nat /\ DOMAIN batch = 1 .. n /\ m \in Nat /\ m + n = DataBlocks
        /\ \A s \in 1 .. n : batch[s].block = m + s /\ batch[s].word = data[m + s]
    BY <1>0, <2>1 DEF EncoderInv
  <2>3. /\ Flushed(batch) \in [Exponents -> Elements]
        /\ \A e \in Exponents :
             Flushed(batch)[e] = SumUpTo(data, e, m + n)
    <3>1. m = fed - Len(batch) /\ m + n <= DataBlocks
      BY <2>2
    <3> HIDE DEF m, n
    <3> QED
      BY <2>2, <3>1, FlushedSums
  <2>4. Len(batch') = 0 /\ fed' - Len(batch') = m + n
    BY <2>1, <2>2
  <2>5. \A e \in Exponents :
          recovery'[e] = SumUpTo(data', e, fed' - Len(batch'))
    <3> HIDE DEF m, n
    <3> QED
      BY <2>1, <2>3, <2>4
  <2>6. /\ recovery' \in [Exponents -> Elements] /\ data' \in Samples
        /\ batch' \in Seq([block : Blocks, word : Elements])
        /\ fed' \in 0 .. DataBlocks /\ fed' = DataBlocks
    BY <1>0, <2>1, <2>3 DEF EncoderInv
  <2>7. /\ Len(batch') < DataBatch /\ Len(batch') <= fed'
        /\ \A s \in 1 .. Len(batch') :
             /\ batch'[s].block = fed' - Len(batch') + s
             /\ batch'[s].word = data'[fed' - Len(batch') + s]
    BY <1>0, <2>4, <2>6
  <2> QED
    BY <2>1, <2>5, <2>6, <2>7 DEF EncoderInv
<1>3. CASE /\ UNCHANGED <<data, fed, batch, recovery>>
           /\ pc # "encode" \/ pc' = pc
  BY <1>3 DEF EncoderInv
<1>4. CASE LoseBlocks
  BY <1>3, <1>4 DEF LoseBlocks, encoder
<1>5. CASE Decode
  BY <1>3, <1>5 DEF Decode, RejectInput, BuildMatrix, Singular, Eliminate, LoadRecovery,
                    Accumulate, Replay, WriteBlock, ChunkFails, encoder
<1>6. CASE UNCHANGED vars
  BY <1>3, <1>6 DEF vars, encoder
<1> QED
  BY <1>1, <1>2, <1>4, <1>5, <1>6 DEF Next, Encode, Finished

-----------------------------------------------------------------------------
(***************************************************************************)
(* The lost blocks and the recovery blocks in use                          *)
(***************************************************************************)

\* A sorted set of numbers is a sequence that holds each of them once, in order.
LEMMA AscendingType ==
  ASSUME NEW S \in SUBSET Nat, IsFiniteSet(S)
  PROVE  /\ Ascending(S) \in Seq(S) /\ Len(Ascending(S)) = Cardinality(S)
         /\ Cardinality(S) \in Nat
         /\ \A i \in 1 .. Cardinality(S) : Ascending(S)[i] \in S
         /\ \A x \in S : \E i \in 1 .. Cardinality(S) : Ascending(S)[i] = x
         /\ \A i, j \in 1 .. Cardinality(S) : i < j => Ascending(S)[i] < Ascending(S)[j]
<1> DEFINE key == [x \in S |-> x]
           s == Ascending(S)
<1>1. key \in [S -> Int] /\ \A x, y \in S : key[x] = key[y] => x = y
  OBVIOUS
<1>2. \A x \in S : key[x] = x
  OBVIOUS
<1>3. s = ByRank(S, key)
  BY AscendingIsByRank
<1> HIDE DEF key, s
<1>4. SortedBy(s, S, key)
  BY <1>1, <1>3, Sorting
<1>5. /\ IsSeq(s) /\ Len(s) = Cardinality(S) /\ Cardinality(S) \in Nat
      /\ \A i \in 1 .. Cardinality(S) : s[i] \in S
      /\ \A x \in S : \E i \in 1 .. Cardinality(S) : s[i] = x
      /\ \A i, j \in 1 .. Cardinality(S) : i < j => key[s[i]] < key[s[j]]
  BY <1>4 DEF SortedBy
<1>6. \A i, j \in 1 .. Cardinality(S) : i < j => s[i] < s[j]
  BY <1>2, <1>5
<1>7. s = [i \in 1 .. Len(s) |-> s[i]]
  BY <1>5, SeqFacts
<1>8. s \in Seq(S)
  <2>1. s \in [1 .. Len(s) -> S]
    BY <1>5, <1>7
  <2>2. Len(s) \in Nat
    BY <1>5
  <2> QED
    BY <2>1, <2>2, SeqDef
<1> QED
  BY <1>5, <1>6, <1>8 DEF s

\* The first members of a sequence.
LEMMA FirstMembers ==
  ASSUME NEW S, NEW s \in Seq(S), NEW n \in Nat, n <= Len(s)
  PROVE  SubSeq(s, 1, n) \in Seq(S) /\ Len(SubSeq(s, 1, n)) = n
OBVIOUS

\* Nothing is lost at the start.
LEMMA LossInit ==
  ASSUME Init PROVE LossInv /\ RecordInv /\ OutputInv
<1>1. pc = "encode" /\ missing = <<>> /\ exponents = <<>> /\ matrix = <<>> /\ rowOrder = <<>>
      /\ scale = <<>> /\ factors = <<>> /\ k = 1 /\ acc = <<>> /\ used = 0 /\ output = <<>>
  BY DEF Init
<1>2. pc \in Early /\ pc \notin Reducing /\ pc \notin After
  BY <1>1 DEF Early, Reducing, After
<1>3. LossInv
  <2>1. Rows = {}
    BY <1>1 DEF Rows, Losses
  <2> QED
    BY <1>1, <1>2, <2>1 DEF LossInv
<1>4. RecordInv
  BY <1>2 DEF RecordInv
<1>5. OutputInv
  <2>1. 0 \in 0 .. DataBlocks
    BY CodecNumbers
  <2> QED
    BY <1>1, <1>2, <2>1 DEF OutputInv, IsVector
<1> QED
  BY <1>3, <1>4, <1>5

\* Which steps lead from which states to which.
LEMMA PhaseSteps ==
  ASSUME LossInv
  PROVE  /\ Encode \/ LoseBlocks => pc \in {"encode", "stored"} /\ pc' \in Early
         /\ RejectInput => pc \in Early /\ pc' \in Early
         /\ BuildMatrix => pc \in Early /\ pc' \in Reducing
         /\ Singular => pc \in Reducing /\ pc' \in Reducing
         /\ Eliminate => pc \in Reducing /\ pc' \in Reducing
         /\ LoadRecovery => pc \in Reducing /\ pc' \in After
         /\ Accumulate \/ Replay \/ WriteBlock => pc \in After /\ pc' \in After
         /\ ChunkFails => pc \in Reducing \cup After /\ pc' \in After
         /\ Early \cap Reducing = {} /\ Early \cap After = {} /\ Reducing \cap After = {}
BY DEF Encode, ProcessBlock, Finalize, LoseBlocks, RejectInput, BuildMatrix, Singular,
       Eliminate, LoadRecovery, Accumulate, Replay, WriteBlock, ChunkFails,
       Early, Reducing, After

\* Every step keeps what is known of the losses.
LEMMA LossStep ==
  ASSUME EncoderInv, LossInv, [Next]_vars PROVE LossInv'
<1> USE DEF LossInv, Losses, Rows
<1>1. CASE Encode
  <2>1. pc' \in {"encode", "stored"} /\ UNCHANGED <<missing, exponents, transform, k>>
        /\ pc = "encode"
    BY <1>1 DEF Encode, ProcessBlock, Finalize
  <2> QED
    BY <2>1 DEF transform, Early
<1>2. CASE LoseBlocks
  <2>1. PICK lost \in SUBSET Blocks, kept \in SUBSET Exponents :
          /\ missing' = Ascending(lost)
          /\ exponents' = SubSeq(Ascending(kept), 1, Min({Cardinality(lost), Cardinality(kept)}))
    BY <1>2 DEF LoseBlocks
  <2>2. pc = "stored" /\ pc' = "prepare" /\ UNCHANGED <<transform, k>>
    BY <1>2 DEF LoseBlocks
  <2>3. lost \in SUBSET Nat /\ kept \in SUBSET Nat /\ IsFiniteSet(lost) /\ IsFiniteSet(kept)
    <3>1. IsFiniteSet(Exponents)
      BY CodecNumbers, FS_Interval
    <3> QED
      BY <3>1, CodecNumbers, FS_Subset
  <2>4. /\ missing' \in Seq(lost) /\ Len(missing') = Cardinality(lost)
        /\ \A i, j \in 1 .. Len(missing') : i < j => missing'[i] < missing'[j]
    BY <2>1, <2>3, AscendingType
  <2>5. missing' \in Seq(Blocks)
    BY <2>4
  <2>6. exponents' \in Seq(Exponents)
    <3> DEFINE n == Min({Cardinality(lost), Cardinality(kept)})
    <3>1. Cardinality(lost) \in Nat /\ Cardinality(kept) \in Nat
      BY <2>3, AscendingType
    <3>2. n \in Nat /\ n <= Cardinality(kept)
      <4>1. \A a, b \in Nat : \E x \in {a, b} : \A y \in {a, b} : x <= y
        OBVIOUS
      <4>2. \A a, b \in Nat : Min({a, b}) \in {a, b} /\ Min({a, b}) <= b
        BY <4>1 DEF Min
      <4> QED
        BY <3>1, <4>2
    <3> HIDE DEF n
    <3>3. Ascending(kept) \in Seq(kept) /\ Len(Ascending(kept)) = Cardinality(kept)
      BY <2>3, AscendingType
    <3>4. SubSeq(Ascending(kept), 1, n) \in Seq(kept)
      BY <3>2, <3>3, FirstMembers
    <3>5. exponents' \in Seq(kept)
      BY <2>1, <3>4 DEF n
    <3> QED
      BY <3>5
  <2> QED
    BY <2>2, <2>4, <2>5, <2>6 DEF transform, Early
<1>3. ASSUME UNCHANGED <<missing, exponents, transform, k>>,
             pc' = pc \/ (pc' = "rejected" /\ pc = "prepare")
      PROVE  LossInv'
  BY <1>3 DEF transform, Early
<1>4. CASE UNCHANGED <<missing, exponents>> /\ pc \notin Early /\ pc' \in Reducing \cup After
  <2>1. pc' \notin Early
    BY <1>4 DEF Early, Reducing, After
  <2> QED
    BY <1>4, <2>1 DEF Early
<1>5. CASE RejectInput
  BY <1>3, <1>5 DEF RejectInput, Early
<1>6. CASE BuildMatrix
  <2>1. /\ pc = "prepare" /\ pc' = "eliminate" /\ UNCHANGED <<missing, exponents>>
        /\ Losses > 0 /\ Len(exponents) >= Losses
    BY <1>6 DEF BuildMatrix
  <2> QED
    BY <2>1 DEF Early, Reducing
<1>7. CASE Singular \/ Eliminate \/ LoadRecovery \/ Accumulate \/ Replay \/ WriteBlock \/ ChunkFails
  <2>1. UNCHANGED <<missing, exponents>>
    BY <1>7 DEF Singular, Eliminate, LoadRecovery, Accumulate, Replay, WriteBlock, ChunkFails
  <2>2. pc \notin Early /\ pc' \in Reducing \cup After
    <3> HIDE DEF LossInv
    <3> QED
      BY <1>7, PhaseSteps
  <2> QED
    BY <1>4, <2>1, <2>2
<1>8. CASE UNCHANGED vars
  <2>1. UNCHANGED <<missing, exponents, transform, k, pc>>
    BY <1>8 DEF vars
  <2> QED
    BY <1>3, <2>1
<1> QED
  BY <1>1, <1>2, <1>5, <1>6, <1>7, <1>8 DEF Next, Decode, Finished

-----------------------------------------------------------------------------
(***************************************************************************)
(* The elimination                                                         *)
(***************************************************************************)

\* The permutations of n rows.
Orderings(n) == Bijection(1 .. n, 1 .. n)

\* No exchange, and one exchange more.
LEMMA OrderingsType ==
  ASSUME NEW n \in Nat
  PROVE  /\ [i \in 1 .. n |-> i] \in Orderings(n)
         /\ \A f \in Orderings(n) :
              /\ f \in [1 .. n -> 1 .. n]
              /\ \A i, j \in 1 .. n : Swapped(f, i, j) \in Orderings(n)
<1>1. [i \in 1 .. n |-> i] \in Orderings(n)
  BY DEF Orderings, Bijection, Injection, Surjection, IsInjective
<1>2. ASSUME NEW f \in Orderings(n) PROVE f \in [1 .. n -> 1 .. n]
  BY DEF Orderings, Bijection, Injection
<1>3. ASSUME NEW f \in Orderings(n), NEW i \in 1 .. n, NEW j \in 1 .. n
      PROVE  Swapped(f, i, j) \in Orderings(n)
  <2> DEFINE g == Swapped(f, i, j)
  <2>1. /\ f \in [1 .. n -> 1 .. n]
        /\ \A a, b \in 1 .. n : f[a] = f[b] => a = b
        /\ \A t \in 1 .. n : \E s \in 1 .. n : f[s] = t
    BY DEF Orderings, Bijection, Injection, Surjection, IsInjective
  <2>2. g = [r \in 1 .. n |-> IF r = j THEN f[i] ELSE IF r = i THEN f[j] ELSE f[r]]
    BY <2>1 DEF Swapped
  <2> HIDE DEF g
  <2>3. g \in [1 .. n -> 1 .. n]
    BY <2>1, <2>2
  <2>4. \A a, b \in 1 .. n : g[a] = g[b] => a = b
    BY <2>1, <2>2
  <2>5. ASSUME NEW t \in 1 .. n PROVE \E s \in 1 .. n : g[s] = t
    <3>1. PICK s \in 1 .. n : f[s] = t
      BY <2>1
    <3>2. g[j] = f[i] /\ (i # j => g[i] = f[j]) /\ (s # i /\ s # j => g[s] = f[s])
      BY <2>2
    <3> QED
      BY <3>1, <3>2
  <2>6. g \in Injection(1 .. n, 1 .. n)
    BY <2>3, <2>4 DEF Injection, IsInjective
  <2>7. g \in Surjection(1 .. n, 1 .. n)
    BY <2>3, <2>5 DEF Surjection
  <2> QED
    BY <2>6, <2>7 DEF Orderings, Bijection, g
<1> QED
  BY <1>1, <1>2, <1>3

\* The sizes, and the coefficients of the lost blocks.
LEMMA LossNumbers ==
  ASSUME LossInv
  PROVE  /\ Losses \in Nat /\ Rows = 1 .. Losses /\ Len(missing) = Losses
         /\ \A j \in Rows : missing[j] \in Blocks
         /\ \A i, j \in Rows : i < j => missing[i] < missing[j]
         /\ Losses <= Len(exponents) => \A i \in Rows : exponents[i] \in Exponents
         /\ Losses <= Len(exponents) =>
              \A i \in Rows : \A d \in Blocks : /\ Vandermonde(i, d) \in Elements
                                                /\ Vandermonde(i, d) # 0
         /\ Losses <= Len(exponents) => \A j \in Rows : OriginalColumn(j) \in Vectors(Losses)
<1>1. missing \in Seq(Blocks) /\ exponents \in Seq(Exponents)
  BY DEF LossInv
<1>2. Losses \in Nat /\ Rows = 1 .. Losses /\ Len(missing) = Losses
  BY <1>1 DEF Losses, Rows
<1>3. \A j \in Rows : missing[j] \in Blocks
  BY <1>1, <1>2
<1>4. \A i, j \in Rows : i < j => missing[i] < missing[j]
  BY DEF LossInv
<1>5. ASSUME Losses <= Len(exponents), NEW i \in Rows
      PROVE  /\ exponents[i] \in Exponents
             /\ \A d \in Blocks : Vandermonde(i, d) \in Elements /\ Vandermonde(i, d) # 0
  <2>1. exponents[i] \in Exponents
    BY <1>1, <1>2, <1>5
  <2> QED
    BY <2>1, CodecNumbers DEF Vandermonde
<1>6. ASSUME Losses <= Len(exponents), NEW j \in Rows
      PROVE  OriginalColumn(j) \in Vectors(Losses)
  BY <1>2, <1>3, <1>5, <1>6 DEF OriginalColumn, Vectors
<1> QED
  BY <1>2, <1>3, <1>4, <1>5, <1>6

\* What is known of the matrix and the record, said of their values.
LEMMA RecordInvIs ==
  RecordInv <=> (pc \notin Early =>
                   /\ matrix \in Matrices(Losses)
                   /\ IsRecord(scale, factors, Losses)
                   /\ rowOrder \in Orderings(Losses)
                   /\ k \in 1 .. Losses + 1)
BY DEF RecordInv, Matrices, Vectors, Rows, Orderings

\* A column with its rows in another order.
Reordered(col, order, n) == [i \in 1 .. n |-> col[order[i]]]

\* The claim about the elimination, said of the values it relates.
Replays(M, sc, fa, order, c, j, col, n) ==
  /\ Column(M, j, n) = ReplayOf(Reordered(col, order, n), sc, fa, n)[c - 1]
  /\ j < c => Column(M, j, n) = Unit(j, n)

\* It is what RecordReplaysElimination says.
LEMMA ReplaysIs ==
  /\ \A j \in Rows : OriginalColumn(j) = [i \in Rows |-> Vandermonde(i, missing[j])]
  /\ \A v : Replayed(v) = ReplayOf(v, scale, factors, Losses)
  /\ RecordReplaysElimination <=>
       (pc = "eliminate" =>
          \A j \in Rows :
            Replays(matrix, scale, factors, rowOrder, k, j, OriginalColumn(j), Losses))
<1>1. \A v : Replayed(v) = ReplayOf(v, scale, factors, Losses)
  BY DEF Replayed, ReplayOf, IsReplay, Applied, StepOf, Rows
<1>2. \A j \in Rows :
        Replays(matrix, scale, factors, rowOrder, k, j, OriginalColumn(j), Losses) <=>
          LET column == [i \in Rows |-> matrix[i][j]]
              moved  == [i \in Rows |-> OriginalColumn(j)[rowOrder[i]]]
          IN  /\ column = Replayed(moved)[k - 1]
              /\ j < k => column = [i \in Rows |-> IF i = j THEN 1 ELSE 0]
  BY <1>1 DEF Replays, Column, Reordered, Unit, Rows
<1>3. \A j \in Rows : OriginalColumn(j) = [i \in Rows |-> Vandermonde(i, missing[j])]
  BY DEF OriginalColumn
<1> QED
  BY <1>1, <1>2, <1>3 DEF RecordReplaysElimination

\* Eliminate finds the first pivot and eliminates a column.
LEMMA EliminateIs ==
  ASSUME LossInv, RecordInv, Eliminate
  PROVE  \E p \in 1 .. Losses :
           /\ k \in 1 .. Losses /\ k <= p /\ matrix[p][k] # 0
           /\ \A r \in k .. Losses : matrix[r][k] # 0 => p <= r
           /\ matrix' = NextMatrix(matrix, k, p, Losses)
           /\ scale' = NextScale(scale, matrix, k, p)
           /\ factors' = NextFactors(factors, matrix, k, p, Losses)
           /\ rowOrder' = Swapped(rowOrder, k, p)
           /\ k' = k + 1
<1> DEFINE p == Min(Pivots)
<1>1. /\ pc = "eliminate" /\ k <= Losses /\ Pivots # {} /\ k' = k + 1
      /\ rowOrder' = Swapped(rowOrder, k, p)
  BY DEF Eliminate
<1>2. Losses \in Nat /\ k \in 1 .. Losses
  <2>1. pc \notin Early
    BY <1>1 DEF Early
  <2> QED
    BY <1>1, <2>1, LossNumbers DEF RecordInv
<1>3. p \in Pivots /\ \A r \in Pivots : p <= r
  <2>1. Pivots \in SUBSET Nat
    BY <1>2 DEF Pivots
  <2>2. \E m \in Pivots : \A o \in Pivots : m <= o
    BY <1>1, <2>1, Least
  <2> QED
    BY <2>2 DEF Min
<1> HIDE DEF p
<1>4. /\ p \in 1 .. Losses /\ k <= p /\ matrix[p][k] # 0
      /\ \A r \in k .. Losses : matrix[r][k] # 0 => p <= r
  BY <1>2, <1>3 DEF Pivots
<1>5. matrix' = NextMatrix(matrix, k, p, Losses)
  BY DEF Eliminate, NextMatrix, PivotRow, Rows, p
<1>6. scale' = NextScale(scale, matrix, k, p)
  BY DEF Eliminate, NextScale, p
<1>7. factors' = NextFactors(factors, matrix, k, p, Losses)
  BY DEF Eliminate, NextFactors, Rows, p
<1> QED
  BY <1>1, <1>2, <1>4, <1>5, <1>6, <1>7

\* Eliminating one more column keeps the claim for every column: the exchange is one of the
\* rows the recorded steps work on, and the new step is the one done to the matrix.
LEMMA EliminationReplays ==
  ASSUME NEW n, NEW sc, NEW fa, IsRecord(sc, fa, n), NEW M \in Matrices(n),
         NEW order \in Orderings(n), NEW c \in 1 .. n, NEW p \in 1 .. n, c <= p, M[p][c] # 0,
         Reduced(M, c, n), NEW j \in 1 .. n, NEW col \in Vectors(n),
         Replays(M, sc, fa, order, c, j, col, n)
  PROVE  Replays(NextMatrix(M, c, p, n), NextScale(sc, M, c, p), NextFactors(fa, M, c, p, n),
                 Swapped(order, c, p), c + 1, j, col, n)
<1> DEFINE v == Reordered(col, order, n)
           w == Swapped(v, c, p)
           sd == NextScale(sc, M, c, p)
           fb == NextFactors(fa, M, c, p, n)
           u == Column(M, j, n)
           x == Swapped(u, c, p)
           N == NextMatrix(M, c, p, n)
           m == c - 1
<1>1. n \in Nat /\ m \in Nat /\ m + 1 = c /\ m < c /\ m < p /\ m \in 0 .. n - 1
  BY DEF IsRecord
<1>2. order \in [1 .. n -> 1 .. n]
  BY <1>1, OrderingsType
<1>3. v \in Vectors(n)
  BY <1>2 DEF Reordered, Vectors
<1>4. Reordered(col, Swapped(order, c, p), n) = w
  <2>1. v = [i \in 1 .. n |-> col[order[i]]]
    BY DEF Reordered
  <2>2. w = [r \in 1 .. n |-> IF r = p THEN v[c] ELSE IF r = c THEN v[p] ELSE v[r]]
    BY <2>1 DEF Swapped
  <2>3. Swapped(order, c, p)
          = [r \in 1 .. n |-> IF r = p THEN order[c] ELSE IF r = c THEN order[p] ELSE order[r]]
    BY <1>2 DEF Swapped
  <2> HIDE DEF v, w
  <2>4. \A r \in 1 .. n : col[Swapped(order, c, p)[r]]
                            = IF r = p THEN v[c] ELSE IF r = c THEN v[p] ELSE v[r]
    BY <2>1, <2>3
  <2> QED
    BY <2>2, <2>4 DEF Reordered
<1>5. /\ IsRecord(sd, fb, n)
      /\ \A s \in 1 .. c - 1 : sd[s] = sc[s]
      /\ \A r \in 1 .. n : \A s \in 1 .. c - 1 : fb[r][s] = Swapped(fa, c, p)[r][s]
  BY NextTypes
<1>6. /\ x \in Vectors(n) /\ Column(N, j, n) = StepOf(x, c, sd, fb, n)
      /\ j <= c => Column(N, j, n) = Unit(j, n)
  BY NextColumns
<1>7. ReplayOf(v, sc, fa, n)[m] = u
  BY DEF Replays
<1> HIDE DEF v, sd, fb, N, u
<1>8. ReplayOf(w, sd, fb, n)[m] = x
  <2>1. SameSteps(sc, fa, sd, fb, c, p, m, n)
    BY <1>1, <1>5 DEF SameSteps
  <2>2. m \in Nat /\ v \in Vectors(n)
    BY <1>1, <1>3
  <2> HIDE DEF m
  <2>3. ReplayOf(Swapped(v, c, p), sd, fb, n)[m] = Swapped(ReplayOf(v, sc, fa, n)[m], c, p)
    BY <2>1, <2>2, ReplayOfSwapped
  <2> QED
    BY <1>7, <2>3
<1>9. w \in Vectors(n)
  <2>1. v \in [1 .. n -> Elements]
    BY <1>3 DEF Vectors
  <2>2. w = [r \in 1 .. n |-> IF r = p THEN v[c] ELSE IF r = c THEN v[p] ELSE v[r]]
    BY <2>1 DEF Swapped
  <2> HIDE DEF w
  <2> QED
    BY <2>1, <2>2 DEF Vectors
<1> HIDE DEF w, x, m
<1>10. ReplayOf(w, sd, fb, n)[m + 1] = StepOf(x, c, sd, fb, n)
  <2>1. ReplayOf(w, sd, fb, n)[m + 1] = StepOf(ReplayOf(w, sd, fb, n)[m], m + 1, sd, fb, n)
    BY <1>1, <1>5, <1>9, ReplaySteps
  <2> QED
    BY <1>1, <1>8, <2>1
<1>11. (c + 1) - 1 = m + 1 /\ (j < c + 1 => j <= c)
  BY <1>1 DEF m
<1>12. Column(N, j, n) = ReplayOf(w, sd, fb, n)[(c + 1) - 1]
  BY <1>6, <1>10, <1>11
<1>13. j < c + 1 => Column(N, j, n) = Unit(j, n)
  BY <1>6, <1>11
<1> QED
  BY <1>4, <1>12, <1>13 DEF Replays, N, sd, fb

\* Every step keeps what is known of the matrix and the record.
LEMMA RecordStep ==
  ASSUME LossInv, RecordInv, [Next]_vars PROVE RecordInv'
<1>1. CASE BuildMatrix
  <2>1. /\ matrix' = [i \in Rows |-> [j \in Rows |-> Vandermonde(i, missing[j])]]
        /\ rowOrder' = [i \in Rows |-> i]
        /\ scale' = [i \in Rows |-> 1]
        /\ factors' = [i \in Rows |-> [j \in Rows |-> 0]]
        /\ k' = 1 /\ Losses' = Losses /\ Losses > 0 /\ Len(exponents) >= Losses
    BY <1>1 DEF BuildMatrix, Losses
  <2>2. /\ Losses \in Nat /\ Rows = 1 .. Losses
        /\ Losses <= Len(exponents) =>
              \A i \in Rows : \A d \in Blocks : Vandermonde(i, d) \in Elements
        /\ \A j \in Rows : missing[j] \in Blocks
    BY LossNumbers
  <2>3. Len(exponents) \in Nat
    BY DEF LossInv
  <2>4. \A i, j \in Rows : Vandermonde(i, missing[j]) \in Elements
    BY <2>1, <2>2, <2>3
  <2>5. matrix' \in Matrices(Losses)
    BY <2>1, <2>2, <2>4 DEF Matrices, Vectors
  <2>6. IsRecord(scale', factors', Losses)
    <3>1. 1 \in Elements \ {0} /\ 0 \in Elements
      BY XorGroup
    <3> QED
      BY <2>1, <2>2, <3>1 DEF IsRecord, Vectors
  <2>7. rowOrder' \in Orderings(Losses)
    BY <2>1, <2>2, OrderingsType
  <2>8. k' \in 1 .. Losses' + 1
    BY <2>1, <2>2
  <2> QED
    BY <2>1, <2>5, <2>6, <2>7, <2>8 DEF RecordInv, Matrices, Vectors, Orderings, Rows
<1>2. CASE Eliminate
  <2>1. PICK p \in 1 .. Losses :
           /\ k \in 1 .. Losses /\ k <= p /\ matrix[p][k] # 0
           /\ matrix' = NextMatrix(matrix, k, p, Losses)
           /\ scale' = NextScale(scale, matrix, k, p)
           /\ factors' = NextFactors(factors, matrix, k, p, Losses)
           /\ rowOrder' = Swapped(rowOrder, k, p)
           /\ k' = k + 1
    BY <1>2, EliminateIs
  <2>2. pc \notin Early /\ Losses' = Losses
    BY <1>2 DEF Eliminate, Early, Losses
  <2>3. /\ matrix \in Matrices(Losses) /\ IsRecord(scale, factors, Losses)
        /\ rowOrder \in Orderings(Losses)
    BY <2>2, RecordInvIs
  <2>4. matrix' \in Matrices(Losses) /\ IsRecord(scale', factors', Losses)
    BY <2>1, <2>3, NextTypes
  <2>5. Losses \in Nat
    BY LossNumbers
  <2>6. rowOrder' \in Orderings(Losses)
    <3>1. Swapped(rowOrder, k, p) \in Orderings(Losses)
      BY <2>1, <2>3, <2>5, OrderingsType
    <3> QED
      BY <2>1, <3>1
  <2>7. k' \in 1 .. Losses' + 1
    BY <2>1, <2>2, <2>5
  <2> QED
    BY <2>2, <2>4, <2>6, <2>7 DEF RecordInv, Matrices, Vectors, Orderings, Rows
<1>3. ASSUME UNCHANGED <<missing, transform>>, pc \notin Early,
             k' \in 1 .. Losses + 1
      PROVE  RecordInv'
  BY <1>3 DEF RecordInv, transform, Rows, Losses
<1>4. CASE Encode \/ LoseBlocks \/ RejectInput
  <2>1. pc' \in Early
    BY <1>4, PhaseSteps
  <2> QED
    BY <2>1 DEF RecordInv
<1>5. CASE Singular \/ Accumulate \/ WriteBlock \/ ChunkFails
  <2>1. UNCHANGED <<missing, transform, k>>
    BY <1>5 DEF Singular, Accumulate, WriteBlock, ChunkFails
  <2>2. pc \notin Early
    BY <1>5, PhaseSteps
  <2>3. k' \in 1 .. Losses + 1
    BY <2>1, <2>2 DEF RecordInv
  <2> QED
    BY <1>3, <2>1, <2>2, <2>3
<1>6. CASE LoadRecovery
  <2>1. UNCHANGED <<missing, transform>> /\ k' = 1
    BY <1>6 DEF LoadRecovery
  <2>2. pc \notin Early
    BY <1>6, PhaseSteps
  <2>3. k' \in 1 .. Losses + 1
    BY <2>1, LossNumbers
  <2> QED
    BY <1>3, <2>1, <2>2, <2>3
<1>7. CASE Replay
  <2>1. UNCHANGED <<missing, transform>> /\ k' = k + 1 /\ k <= Losses
    BY <1>7 DEF Replay
  <2>2. pc \notin Early
    BY <1>7, PhaseSteps
  <2>3. k \in 1 .. Losses + 1
    BY <2>2 DEF RecordInv
  <2>4. k' \in 1 .. Losses + 1
    BY <2>1, <2>3, LossNumbers
  <2> QED
    BY <1>3, <2>1, <2>2, <2>4
<1>8. CASE UNCHANGED vars
  BY <1>8 DEF vars, transform, RecordInv, Rows, Losses
<1> QED
  BY <1>1, <1>2, <1>4, <1>5, <1>6, <1>7, <1>8 DEF Next, Decode, Finished

\* Every step keeps the claim about the elimination.
LEMMA ReplaysStep ==
  ASSUME LossInv, RecordInv, RecordReplaysElimination, [Next]_vars
  PROVE  RecordReplaysElimination'
<1>0. (pc' = "eliminate" =>
         \A j \in Rows' :
           Replays(matrix', scale', factors', rowOrder', k', j, OriginalColumn(j)', Losses'))
        => RecordReplaysElimination'
  <2>1. \A v : Replayed(v)' = ReplayOf(v, scale', factors', Losses')
    BY DEF Replayed, ReplayOf, IsReplay, Applied, StepOf, Rows
  <2>2. ASSUME NEW j \in Rows',
               Replays(matrix', scale', factors', rowOrder', k', j, OriginalColumn(j)', Losses')
        PROVE  LET column == [i \in Rows' |-> matrix'[i][j]]
                   moved  == [i \in Rows' |-> OriginalColumn(j)'[rowOrder'[i]]]
               IN  /\ column = ReplayOf(moved, scale', factors', Losses')[k' - 1]
                   /\ j < k' => column = [i \in Rows' |-> IF i = j THEN 1 ELSE 0]
    BY <2>2 DEF Replays, Column, Reordered, Unit, Rows
  <2> QED
    BY <2>1, <2>2 DEF RecordReplaysElimination
<1>1. CASE BuildMatrix
  <2>1. /\ matrix' = [i \in Rows |-> [j \in Rows |-> Vandermonde(i, missing[j])]]
        /\ rowOrder' = [i \in Rows |-> i]
        /\ k' = 1 /\ UNCHANGED <<missing, exponents>> /\ Losses' = Losses /\ Rows' = Rows
        /\ Losses > 0 /\ Len(exponents) >= Losses
    BY <1>1 DEF BuildMatrix, Losses, Rows
  <2>2. /\ Losses \in Nat /\ Rows = 1 .. Losses
        /\ \A j \in Rows : OriginalColumn(j) \in Vectors(Losses)
    BY <2>1, LossNumbers DEF LossInv
  <2>3. RecordInv'
    BY RecordStep
  <2>4. IsRecord(scale', factors', Losses)
    <3>1. pc' \notin Early
      BY <1>1, PhaseSteps
    <3> QED
      BY <2>1, <2>3, <3>1 DEF RecordInv
  <2>5. ASSUME NEW j \in Rows
        PROVE  Replays(matrix', scale', factors', rowOrder', k', j, OriginalColumn(j)', Losses')
    <3> DEFINE v == OriginalColumn(j)
    <3>1. OriginalColumn(j)' = v /\ v \in Vectors(Losses)
      BY <2>1, <2>2 DEF OriginalColumn, Vandermonde
    <3>2. v = [i \in 1 .. Losses |-> Vandermonde(i, missing[j])]
      BY <2>2 DEF OriginalColumn
    <3>3. Column(matrix', j, Losses) = v
      BY <2>1, <2>2, <3>2 DEF Column
    <3>4. Reordered(v, rowOrder', Losses) = v
      BY <2>1, <2>2, <3>2 DEF Reordered
    <3> HIDE DEF v
    <3>5. ReplayOf(v, scale', factors', Losses)[0] = v
      BY <2>4, <3>1, ReplaySteps
    <3>6. k' - 1 = 0 /\ ~(j < k')
      BY <2>1, <2>2
    <3> QED
      BY <2>1, <3>1, <3>3, <3>4, <3>5, <3>6 DEF Replays
  <2> QED
    BY <1>0, <2>1, <2>5
<1>2. CASE Eliminate
  <2>1. PICK p \in 1 .. Losses :
           /\ k \in 1 .. Losses /\ k <= p /\ matrix[p][k] # 0
           /\ matrix' = NextMatrix(matrix, k, p, Losses)
           /\ scale' = NextScale(scale, matrix, k, p)
           /\ factors' = NextFactors(factors, matrix, k, p, Losses)
           /\ rowOrder' = Swapped(rowOrder, k, p)
           /\ k' = k + 1
    BY <1>2, EliminateIs
  <2>2. /\ pc = "eliminate" /\ Losses' = Losses /\ Rows' = Rows
        /\ UNCHANGED <<missing, exponents>>
    BY <1>2 DEF Eliminate, Losses, Rows
  <2>3. /\ matrix \in Matrices(Losses) /\ IsRecord(scale, factors, Losses)
        /\ rowOrder \in Orderings(Losses) /\ Losses <= Len(exponents)
    <3>1. pc \notin Early
      BY <2>2 DEF Early
    <3>2. Len(exponents) \in Nat /\ Losses \in Nat /\ Len(exponents) >= Losses
      BY <3>1, LossNumbers DEF LossInv
    <3> QED
      BY <3>1, <3>2, RecordInvIs
  <2>4. \A j \in Rows :
          Replays(matrix, scale, factors, rowOrder, k, j, OriginalColumn(j), Losses)
    BY <2>2, ReplaysIs
  <2>5. Rows = 1 .. Losses /\ \A j \in Rows : OriginalColumn(j) \in Vectors(Losses)
    BY <2>3, LossNumbers
  <2>6. Reduced(matrix, k, Losses)
    BY <2>4, <2>5 DEF Reduced, Replays
  <2>7. ASSUME NEW j \in Rows
        PROVE  Replays(matrix', scale', factors', rowOrder', k', j, OriginalColumn(j)', Losses')
    <3>1. OriginalColumn(j)' = OriginalColumn(j)
      BY <2>2 DEF OriginalColumn, Vandermonde
    <3> DEFINE v == OriginalColumn(j)
    <3>2. v \in Vectors(Losses) /\ j \in 1 .. Losses
          /\ Replays(matrix, scale, factors, rowOrder, k, j, v, Losses)
      BY <2>4, <2>5
    <3> HIDE DEF v
    <3>3. Replays(NextMatrix(matrix, k, p, Losses), NextScale(scale, matrix, k, p),
                  NextFactors(factors, matrix, k, p, Losses), Swapped(rowOrder, k, p),
                  k + 1, j, v, Losses)
      BY <2>1, <2>3, <2>6, <3>2, EliminationReplays
    <3> QED
      BY <2>1, <2>2, <3>1, <3>3 DEF v
  <2> QED
    BY <1>0, <2>2, <2>7
<1>3. CASE Encode \/ LoseBlocks \/ RejectInput
  <2>1. pc' # "eliminate"
    BY <1>3, PhaseSteps DEF Early
  <2> QED
    BY <1>0, <2>1
<1>4. CASE Singular \/ LoadRecovery \/ ChunkFails
  <2>1. pc' # "eliminate"
    BY <1>4 DEF Singular, LoadRecovery, ChunkFails
  <2> QED
    BY <1>0, <2>1
<1>5. CASE Accumulate \/ Replay \/ WriteBlock
  <2>1. pc' # "eliminate"
    BY <1>5, PhaseSteps DEF After
  <2> QED
    BY <1>0, <2>1
<1>6. CASE UNCHANGED vars
  <2>1. /\ UNCHANGED <<pc, matrix, scale, factors, rowOrder, k, missing, exponents>>
        /\ Losses' = Losses /\ Rows' = Rows
    BY <1>6 DEF vars, transform, Losses, Rows
  <2>2. \A j \in Rows : OriginalColumn(j)' = OriginalColumn(j)
    BY <2>1 DEF OriginalColumn, Vandermonde
  <2>3. pc = "eliminate" =>
          \A j \in Rows :
            Replays(matrix, scale, factors, rowOrder, k, j, OriginalColumn(j), Losses)
    BY ReplaysIs
  <2> QED
    BY <1>0, <2>1, <2>2, <2>3
<1> QED
  BY <1>1, <1>2, <1>3, <1>4, <1>5, <1>6 DEF Next, Decode, Finished

\* Every step keeps what the complete record does.
LEMMA SolvedStep ==
  ASSUME LossInv, RecordInv, RecordReplaysElimination, SolvedInv, [Next]_vars
  PROVE  SolvedInv'
<1>0. /\ SolvedInv <=>
           (pc \in {"replay", "done"} =>
              \A j \in Rows :
                ReplayOf(Reordered(OriginalColumn(j), rowOrder, Losses), scale, factors, Losses)
                  [Losses] = Unit(j, Losses))
      /\ (pc' \in {"replay", "done"} =>
            \A j \in Rows' :
              ReplayOf(Reordered(OriginalColumn(j)', rowOrder', Losses'), scale', factors', Losses')
                [Losses'] = Unit(j, Losses'))
           => SolvedInv'
  BY DEF SolvedInv, Moved, Replayed, ReplayOf, IsReplay, Applied, StepOf, Rows, Reordered
<1>1. CASE LoadRecovery
  <2>1. /\ pc = "eliminate" /\ k > Losses /\ UNCHANGED <<missing, exponents, transform>>
        /\ Losses' = Losses /\ Rows' = Rows
    BY <1>1 DEF LoadRecovery, Losses, Rows
  <2>2. Losses \in Nat /\ Rows = 1 .. Losses
    BY LossNumbers
  <2>3. k - 1 = Losses /\ \A j \in Rows : j < k
    <3>1. pc \notin Early
      BY <2>1 DEF Early
    <3>2. k \in 1 .. Losses + 1
      BY <3>1 DEF RecordInv
    <3> QED
      BY <2>1, <2>2, <3>2
  <2>4. ASSUME NEW j \in Rows
        PROVE  ReplayOf(Reordered(OriginalColumn(j)', rowOrder', Losses'), scale', factors',
                        Losses')[Losses'] = Unit(j, Losses')
    <3>1. OriginalColumn(j)' = OriginalColumn(j)
      BY <2>1 DEF OriginalColumn, Vandermonde
    <3>2. Replays(matrix, scale, factors, rowOrder, k, j, OriginalColumn(j), Losses)
      BY <2>1, ReplaysIs
    <3>3. ReplayOf(Reordered(OriginalColumn(j), rowOrder, Losses), scale, factors, Losses)[Losses]
            = Unit(j, Losses)
      BY <2>3, <3>2 DEF Replays
    <3> QED
      BY <2>1, <3>1, <3>3 DEF transform
  <2> QED
    BY <1>0, <2>1, <2>4
<1>2. CASE Accumulate \/ Replay \/ WriteBlock \/ UNCHANGED vars
  <2>1. /\ UNCHANGED <<missing, exponents, transform>> /\ Losses' = Losses /\ Rows' = Rows
        /\ pc' \in {"replay", "done"} => pc \in {"replay", "done"}
    BY <1>2 DEF Accumulate, Replay, WriteBlock, vars, Losses, Rows
  <2>2. \A j \in Rows : OriginalColumn(j)' = OriginalColumn(j)
    BY <2>1 DEF OriginalColumn, Vandermonde
  <2>3. rowOrder' = rowOrder /\ scale' = scale /\ factors' = factors
    BY <2>1 DEF transform
  <2> QED
    BY <1>0, <2>1, <2>2, <2>3
<1>3. CASE Encode \/ LoseBlocks \/ RejectInput \/ BuildMatrix \/ Singular \/ Eliminate
  <2>1. pc' \notin {"replay", "done"}
    BY <1>3, PhaseSteps DEF Early, Reducing
  <2> QED
    BY <1>0, <2>1
<1>4. CASE ChunkFails
  <2>1. pc' \notin {"replay", "done"}
    BY <1>4 DEF ChunkFails
  <2> QED
    BY <1>0, <2>1
<1> QED
  BY <1>1, <1>2, <1>3, <1>4 DEF Next, Decode, Finished

-----------------------------------------------------------------------------
(***************************************************************************)
(* The replay                                                              *)
(***************************************************************************)

\* The columns used are all those of the blocks that are present, each once: none of their
\* coefficients is 0.
LEMMA UsedType ==
  ASSUME LossInv, pc \notin Early
  PROVE  /\ UsedColumns \in Seq(Present) /\ Len(UsedColumns) \in 0 .. DataBlocks
         /\ \A c \in 1 .. Len(UsedColumns) : UsedColumns[c] \in Present
         /\ \A d \in Present : \E c \in 1 .. Len(UsedColumns) : UsedColumns[c] = d
         /\ \A c, e \in 1 .. Len(UsedColumns) : UsedColumns[c] = UsedColumns[e] => c = e
         /\ Present \subseteq Blocks
<1> DEFINE S == {d \in Present : \E i \in Rows : Vandermonde(i, d) # 0}
<1>1. Present \subseteq Blocks
  BY DEF Present
<1>2. /\ Losses \in Nat /\ Rows = 1 .. Losses /\ Losses > 0 /\ Losses <= Len(exponents)
      /\ \A i \in Rows : \A d \in Blocks : Vandermonde(i, d) # 0
  <2>1. exponents \in Seq(Exponents) /\ Losses > 0 /\ Len(exponents) >= Losses
    BY DEF LossInv
  <2>2. Losses \in Nat /\ Len(exponents) \in Nat
    BY <2>1, LossNumbers
  <2>3. Losses <= Len(exponents)
    BY <2>1, <2>2
  <2> QED
    BY <2>1, <2>2, <2>3, LossNumbers
<1>3. S = Present
  <2>1. 1 \in Rows
    BY <1>2
  <2> QED
    BY <1>1, <1>2, <2>1
<1>4. /\ Blocks \subseteq Nat /\ IsFiniteSet(Blocks) /\ Cardinality(Blocks) = DataBlocks
      /\ DataBlocks \in Nat
  BY CodecNumbers
<1>5. IsFiniteSet(Present) /\ Cardinality(Present) <= DataBlocks /\ Present \in SUBSET Nat
  BY <1>1, <1>4, FS_Subset
<1> HIDE DEF S
<1> DEFINE s == Ascending(Present)
           n == Cardinality(Present)
<1>6. s = UsedColumns
  BY <1>3 DEF UsedColumns, S
<1>7. /\ s \in Seq(Present) /\ Len(s) = n /\ n \in Nat
      /\ \A i \in 1 .. n : s[i] \in Present
      /\ \A x \in Present : \E i \in 1 .. n : s[i] = x
      /\ \A i, j \in 1 .. n : i < j => s[i] < s[j]
  BY <1>5, AscendingType
<1>8. n <= DataBlocks
  BY <1>5
<1> HIDE DEF s, n
<1>9. \A i \in 1 .. n : s[i] \in Nat
  BY <1>5, <1>7
<1>10. \A i, j \in 1 .. n : s[i] = s[j] => i = j
  BY <1>7, <1>9
<1>11. Len(s) \in 0 .. DataBlocks
  BY <1>4, <1>7, <1>8
<1> QED
  BY <1>1, <1>6, <1>7, <1>10, <1>11

\* What a chunk adds to accumulator i.
Chunk(i, last) ==
  GfSum([c \in used + 1 .. last |->
           GfMul(data[UsedColumns[c]], Vandermonde(i, UsedColumns[c]))])

\* The last column of a chunk, and what the chunk adds.
LEMMA ChunkType ==
  ASSUME EncoderInv, LossInv, OutputInv, Accumulate
  PROVE  \E last \in used + 1 .. Len(UsedColumns) :
           /\ used' = last
           /\ acc' = [i \in Rows |-> acc[i] ^^ Chunk(i, last)]
           /\ \A i \in Rows : Chunk(i, last) \in Elements
<1> DEFINE n == Len(UsedColumns)
           last == Min({used + SourceBatch, n})
<1>1. /\ pc = "replay" /\ used < n /\ used' = last
      /\ acc' = [i \in Rows |-> acc[i] ^^ Chunk(i, last)]
  BY DEF Accumulate, Chunk
<1>2. pc \notin Early
  BY <1>1 DEF Early
<1>3. /\ n \in Nat /\ \A c \in 1 .. n : UsedColumns[c] \in Blocks
      /\ used \in Nat
  <2>1. n \in Nat /\ \A c \in 1 .. n : UsedColumns[c] \in Blocks
    BY <1>2, UsedType
  <2>2. used \in Nat
    BY CodecNumbers DEF OutputInv
  <2> QED
    BY <2>1, <2>2
<1>4. last \in used + 1 .. n
  <2>1. \A a, b \in Nat : \E x \in {a, b} : \A y \in {a, b} : x <= y
    OBVIOUS
  <2>2. \A a, b \in Nat : Min({a, b}) \in {a, b} /\ Min({a, b}) <= b
    BY <2>1 DEF Min
  <2>3. SourceBatch \in Nat /\ SourceBatch # 0
    BY CodeAssumption
  <2>4. used + SourceBatch \in Nat
    BY <1>3, <2>3
  <2>5. last \in {used + SourceBatch, n} /\ last <= n
    BY <1>3, <2>2, <2>4
  <2> QED
    BY <1>1, <1>3, <2>3, <2>5
<1> HIDE DEF last
<1>5. ASSUME NEW i \in Rows PROVE Chunk(i, last) \in Elements
  <2> DEFINE C == used + 1 .. last
             g == [c \in C |-> GfMul(data[UsedColumns[c]], Vandermonde(i, UsedColumns[c]))]
  <2>1. IsFiniteSet(C)
    BY <1>3, <1>4, FS_Interval
  <2>2. ASSUME NEW c \in C
        PROVE  GfMul(data[UsedColumns[c]], Vandermonde(i, UsedColumns[c])) \in Elements
    <3>1. UsedColumns[c] \in Blocks
      BY <1>3, <1>4
    <3>2. data[UsedColumns[c]] \in Elements
      BY <3>1, CodecNumbers DEF EncoderInv
    <3>3. Vandermonde(i, UsedColumns[c]) \in Elements
      <4>1. Losses <= Len(exponents)
        <5>1. Losses \in Nat /\ Len(exponents) \in Nat
          BY LossNumbers DEF LossInv
        <5> QED
          BY <1>2, <5>1 DEF LossInv
      <4> QED
        BY <3>1, <4>1, LossNumbers
    <3> QED
      BY <3>2, <3>3, MulType
  <2>3. g \in [C -> Elements]
    <3> HIDE DEF C
    <3> QED
      BY <2>2
  <2>4. GfSum(g) \in Elements
    <3> HIDE DEF C, g
    <3> QED
      BY <2>1, <2>3, GfSumType
  <2> QED
    BY <2>4 DEF Chunk
<1> QED
  BY <1>1, <1>4, <1>5

\* Every step keeps what is known of the accumulators and the output.
LEMMA OutputStep ==
  ASSUME EncoderInv, LossInv, RecordInv, OutputInv, [Next]_vars
  PROVE  OutputInv'
<1>1. CASE Encode \/ LoseBlocks \/ RejectInput \/ BuildMatrix \/ Singular \/ Eliminate
  <2>1. pc \notin After /\ pc' \notin After
    BY <1>1, PhaseSteps DEF Early, Reducing, After
  <2>2. UNCHANGED decoder
    BY <1>1 DEF Encode, ProcessBlock, Finalize, LoseBlocks, RejectInput, BuildMatrix, Singular,
                Eliminate
  <2>3. acc' = <<>> /\ used' = 0 /\ output' = <<>>
    BY <2>1, <2>2 DEF OutputInv, decoder
  <2>4. used' \in 0 .. DataBlocks
    BY <2>3, CodecNumbers
  <2>5. output' \in Seq(Elements)
    BY <2>3
  <2>6. pc' \notin {"replay", "done"}
    BY <2>1 DEF After
  <2> QED
    BY <2>1, <2>3, <2>4, <2>5, <2>6 DEF OutputInv, IsVector
<1>2. CASE LoadRecovery
  <2>1. /\ pc = "eliminate" /\ pc' = "replay" /\ used' = 0 /\ k' = 1 /\ output' = output
        /\ acc' = [p \in Rows |-> recovery[exponents[rowOrder[p]]]]
        /\ Rows' = Rows /\ Losses' = Losses /\ UNCHANGED <<missing, exponents>>
        /\ UsedColumns' = UsedColumns
    BY <1>2 DEF LoadRecovery, Rows, Losses, UsedColumns, Present, Vandermonde
  <2>2. pc \notin After /\ pc \notin Early
    BY <1>2, PhaseSteps
  <2>3. output = <<>> /\ Len(<<>>) = 0
    BY <2>2 DEF OutputInv
  <2>4. Losses > 0 /\ Losses \in Nat /\ Losses <= Len(exponents)
    <3>1. Losses \in Nat /\ Len(exponents) \in Nat
      BY LossNumbers DEF LossInv
    <3> QED
      BY <2>2, <3>1 DEF LossInv
  <2>5. acc' \in [Rows -> Elements]
    <3>1. rowOrder \in [Rows -> Rows]
      BY <2>2, <2>4, LossNumbers, RecordInvIs, OrderingsType
    <3>2. \A i \in Rows : exponents[i] \in Exponents
      BY <2>4, LossNumbers
    <3>3. recovery \in [Exponents -> Elements]
      BY DEF EncoderInv
    <3> QED
      BY <2>1, <3>1, <3>2, <3>3
  <2>6. Len(UsedColumns) \in Nat /\ 0 \in 0 .. DataBlocks
    BY <2>2, UsedType, CodecNumbers
  <2>7. output' \in Seq(Elements) /\ Len(output') = 0 /\ output' = <<>>
    BY <2>1, <2>3
  <2>8. pc' \in After
    BY <2>1 DEF After
  <2> QED
    BY <2>1, <2>4, <2>5, <2>6, <2>7, <2>8 DEF OutputInv, IsVector
<1>3. CASE Accumulate
  <2>1. PICK last \in used + 1 .. Len(UsedColumns) :
           /\ used' = last
           /\ acc' = [i \in Rows |-> acc[i] ^^ Chunk(i, last)]
           /\ \A i \in Rows : Chunk(i, last) \in Elements
    BY <1>3, ChunkType
  <2>2. /\ pc = "replay" /\ pc' = pc /\ used < Len(UsedColumns) /\ k' = k /\ output' = output
        /\ Rows' = Rows /\ Losses' = Losses /\ UsedColumns' = UsedColumns
    BY <1>3 DEF Accumulate, Rows, Losses, UsedColumns, Present, Vandermonde
  <2>3. pc \in After /\ pc \notin Early
    BY <2>2 DEF After, Early
  <2>4. acc' \in [Rows -> Elements]
    <3>1. \A i \in Rows : acc[i] \in Elements
      BY <2>2 DEF OutputInv
    <3>2. \A i \in Rows : acc[i] ^^ Chunk(i, last) \in Elements
      BY <2>1, <3>1, XorGroup
    <3> QED
      BY <2>1, <3>2
  <2>5. Len(UsedColumns) \in 0 .. DataBlocks /\ used \in Nat /\ DataBlocks \in Nat
    BY <2>3, UsedType, CodecNumbers DEF OutputInv
  <2>6. used' \in 0 .. DataBlocks /\ used' <= Len(UsedColumns)
    BY <2>1, <2>5
  <2>7. ~(k > 1) /\ (output # <<>> => k > Losses) /\ Len(output) < Losses
        /\ output \in Seq(Elements)
    BY <2>2, <2>5 DEF OutputInv
  <2> QED
    BY <2>2, <2>3, <2>4, <2>6, <2>7 DEF OutputInv, IsVector
<1>4. CASE Replay
  <2>1. /\ pc = "replay" /\ pc' = pc /\ used = Len(UsedColumns) /\ used' = used
        /\ k <= Losses /\ k' = k + 1 /\ output' = output
        /\ acc' = Applied(acc, k)
        /\ Rows' = Rows /\ Losses' = Losses /\ UsedColumns' = UsedColumns
    BY <1>4 DEF Replay, Rows, Losses, UsedColumns, Present, Vandermonde
  <2>2. pc \in After /\ pc \notin Early
    BY <2>1 DEF After, Early
  <2>3. Losses \in Nat /\ k \in 1 .. Losses /\ IsRecord(scale, factors, Losses)
    BY <2>1, <2>2, LossNumbers, RecordInvIs
  <2>4. acc' \in [Rows -> Elements]
    <3>1. acc \in Vectors(Losses)
      BY <2>1 DEF OutputInv, Vectors, Rows
    <3>2. StepOf(acc, k, scale, factors, Losses) \in Vectors(Losses)
      BY <2>3, <3>1, StepType
    <3>3. StepOf(acc, k, scale, factors, Losses) = Applied(acc, k)
      BY DEF StepOf, Applied, Rows
    <3> QED
      BY <2>1, <3>2, <3>3 DEF Vectors, Rows
  <2>5. output = <<>>
    <3>1. output # <<>> => k > Losses
      BY <2>1 DEF OutputInv
    <3> QED
      BY <2>1, <2>3, <3>1
  <2>6. Len(output) < Losses /\ output \in Seq(Elements) /\ used \in 0 .. DataBlocks
    BY <2>1 DEF OutputInv
  <2>7. used' <= Len(UsedColumns')
    <3>1. Len(UsedColumns) \in Nat
      BY <2>2, UsedType
    <3> QED
      BY <2>1, <3>1
  <2> QED
    BY <2>1, <2>2, <2>4, <2>5, <2>6, <2>7 DEF OutputInv, IsVector
<1>5. CASE WriteBlock
  <2>1. /\ pc = "replay" /\ k > Losses
        /\ output' = Append(output, acc[Len(output) + 1])
        /\ pc' = IF Len(output') = Losses THEN "done" ELSE pc
        /\ UNCHANGED <<k, acc, used>>
        /\ Rows' = Rows /\ Losses' = Losses /\ UsedColumns' = UsedColumns
    BY <1>5 DEF WriteBlock, Rows, Losses, UsedColumns, Present, Vandermonde
  <2>2. pc' \in After
    BY <2>1 DEF After
  <2>3. /\ output \in Seq(Elements) /\ Len(output) < Losses /\ acc \in [Rows -> Elements]
        /\ used \in 0 .. DataBlocks /\ used <= Len(UsedColumns)
        /\ k > 1 => used = Len(UsedColumns)
    BY <2>1 DEF OutputInv
  <2>4. Losses \in Nat /\ Rows = 1 .. Losses
    BY LossNumbers
  <2>5. acc[Len(output) + 1] \in Elements
    BY <2>3, <2>4
  <2>6. output' \in Seq(Elements) /\ Len(output') = Len(output) + 1
    BY <2>1, <2>3, <2>5
  <2>7. pc' = "replay" => Len(output') < Losses
    BY <2>1, <2>3, <2>4, <2>6
  <2> QED
    BY <2>1, <2>2, <2>3, <2>6, <2>7 DEF OutputInv, IsVector
<1>6. CASE ChunkFails \/ UNCHANGED vars
  <2>1. /\ UNCHANGED <<acc, used, output, k>>
        /\ Rows' = Rows /\ Losses' = Losses /\ UsedColumns' = UsedColumns
    BY <1>6 DEF ChunkFails, vars, decoder, Rows, Losses, UsedColumns, Present, Vandermonde
  <2>2. pc' = pc \/ (pc' = "failed" /\ pc' \in After)
    BY <1>6 DEF ChunkFails, vars, After
  <2> QED
    BY <2>1, <2>2 DEF OutputInv, IsVector
<1> QED
  BY <1>1, <1>2, <1>3, <1>4, <1>5, <1>6 DEF Next, Decode, Finished

-----------------------------------------------------------------------------
(***************************************************************************)
(* The sums of the blocks not yet added                                    *)
(***************************************************************************)

\* The sums are elements, parts add up, and the blocks may be named in any way.
LEMMA SumOverType ==
  ASSUME EncoderInv, LossInv, pc \notin Early, NEW i \in Rows, NEW S \in SUBSET Blocks
  PROVE  /\ SumOver(i, S) \in Elements
         /\ \A A, B \in SUBSET S :
              A \cap B = {} /\ S = A \cup B => SumOver(i, S) = SumOver(i, A) ^^ SumOver(i, B)
         /\ \A R : \A h \in [R -> S] :
              /\ IsFiniteSet(R)
              /\ \A a, b \in R : h[a] = h[b] => a = b
              /\ \A d \in S : \E a \in R : h[a] = d
              => GfSum([a \in R |-> GfMul(data[h[a]], Vandermonde(i, h[a]))]) = SumOver(i, S)
<1> DEFINE Term(d) == GfMul(data[d], Vandermonde(i, d))
           f == [d \in S |-> Term(d)]
<1>1. IsFiniteSet(S)
  BY CodecNumbers, FS_Subset
<1>2. Losses <= Len(exponents)
  <2>1. Losses \in Nat /\ Len(exponents) \in Nat
    BY LossNumbers DEF LossInv
  <2> QED
    BY <2>1 DEF LossInv
<1>3. ASSUME NEW d \in S PROVE Term(d) \in Elements
  <2>1. Vandermonde(i, d) \in Elements
    BY <1>2, LossNumbers
  <2>2. data[d] \in Elements
    BY CodecNumbers DEF EncoderInv
  <2> QED
    BY <2>1, <2>2, MulType
<1>4. SumOver(i, S) = GfSum(f) /\ \A A : SumOver(i, A) = GfSum([d \in A |-> Term(d)])
  BY DEF SumOver
<1>5. f \in [S -> Elements]
  <2> HIDE DEF Term
  <2> QED
    BY <1>3
<1>6. SumOver(i, S) \in Elements
  <2> HIDE DEF f
  <2> QED
    BY <1>1, <1>4, <1>5, GfSumType
<1>7. ASSUME NEW A \in SUBSET S, NEW B \in SUBSET S, A \cap B = {}, S = A \cup B
      PROVE  SumOver(i, S) = SumOver(i, A) ^^ SumOver(i, B)
  <2>1. GfSum(f) = GfSum([d \in A |-> f[d]]) ^^ GfSum([d \in B |-> f[d]])
    <3> HIDE DEF f
    <3> QED
      BY <1>1, <1>5, <1>7, GfSumOfParts
  <2>2. [d \in A |-> f[d]] = [d \in A |-> Term(d)] /\ [d \in B |-> f[d]] = [d \in B |-> Term(d)]
    <3> HIDE DEF Term
    <3> QED
      OBVIOUS
  <2>3. GfSum([d \in A |-> f[d]]) = SumOver(i, A) /\ GfSum([d \in B |-> f[d]]) = SumOver(i, B)
    <3> HIDE DEF f, Term
    <3> QED
      BY <1>4, <2>2
  <2> HIDE DEF f
  <2> QED
    BY <1>4, <2>1, <2>3
<1>8. ASSUME NEW R, NEW h \in [R -> S], IsFiniteSet(R),
             \A a, b \in R : h[a] = h[b] => a = b,
             \A d \in S : \E a \in R : h[a] = d
      PROVE  GfSum([a \in R |-> GfMul(data[h[a]], Vandermonde(i, h[a]))]) = SumOver(i, S)
  <2>1. GfSum([a \in R |-> f[h[a]]]) = GfSum(f)
    <3> HIDE DEF f
    <3> QED
      BY <1>1, <1>5, <1>8, GfSumRenamed
  <2>2. [a \in R |-> f[h[a]]] = [a \in R |-> Term(h[a])]
    <3> HIDE DEF Term
    <3> QED
      OBVIOUS
  <2>3. GfSum([a \in R |-> f[h[a]]]) = GfSum([a \in R |-> Term(h[a])])
    <3> HIDE DEF f, Term
    <3> QED
      BY <2>2
  <2> QED
    BY <1>4, <2>1, <2>3
<1> QED
  BY <1>6, <1>7, <1>8

\* What the invariant says of the sums, with the record and the sums as values.
LEMMA SumInvIs ==
  /\ SumInv <=>
       (pc = "replay" /\ Unmoved =>
          /\ k = 1 => \A i \in Rows : acc[i] = OpenSum(i)
          /\ k > 1 => acc = ReplayOf(Remaining, scale, factors, Losses)[k - 1])
  /\ (pc' = "replay" /\ Unmoved' =>
        /\ k' = 1 => \A i \in Rows' : acc'[i] = OpenSum(i)'
        /\ k' > 1 => acc' = ReplayOf(Remaining', scale', factors', Losses')[k' - 1]) => SumInv'
<1>1. /\ Replayed(Remaining) = ReplayOf(Remaining, scale, factors, Losses)
      /\ Replayed(Remaining)' = ReplayOf(Remaining', scale', factors', Losses')
  BY DEF Replayed, ReplayOf, IsReplay, Applied, StepOf, Rows
<1> QED
  BY <1>1 DEF SumInv

\* The recovery block of row i is the sum of all blocks.
LEMMA RecoveryIsSum ==
  ASSUME EncoderInv, LossInv, pc \notin Early, NEW i \in Rows
  PROVE  recovery[exponents[i]] = SumOver(i, Blocks)
<1> DEFINE e == exponents[i]
<1>1. pc # "encode"
  BY DEF Early
<1>2. fed = DataBlocks /\ batch = <<>> /\ Len(<<>>) = 0 /\ DataBlocks \in Nat
  BY <1>1, CodecNumbers DEF EncoderInv
<1>3. fed - Len(batch) = DataBlocks /\ Blocks = 1 .. DataBlocks
  BY <1>2, CodecNumbers
<1>4. e \in Exponents
  <2>1. Losses \in Nat /\ Len(exponents) \in Nat
    BY LossNumbers DEF LossInv
  <2>2. Losses <= Len(exponents)
    BY <2>1 DEF LossInv
  <2> QED
    BY <2>2, LossNumbers
<1>5. recovery[e] = SumUpTo(data, e, DataBlocks)
  BY <1>3, <1>4 DEF EncoderInv
<1>6. [d \in 1 .. DataBlocks |-> TermsOf(data, e)[d]]
        = [d \in Blocks |-> GfMul(data[d], Vandermonde(i, d))]
  BY <1>3 DEF TermsOf, Vandermonde
<1> QED
  BY <1>5, <1>6 DEF SumUpTo, SumOver

\* When every column has been added, what remains are the lost blocks.
LEMMA RemainingIsSum ==
  ASSUME EncoderInv, LossInv, pc \notin Early, used = Len(UsedColumns)
  PROVE  /\ \A i \in Rows : SumOver(i, Blocks \ Added) = Remaining[i]
         /\ Remaining \in Vectors(Losses)
<1> DEFINE L == Blocks \ Added
<1>1. Added = Present
  BY UsedType DEF Added
<1>2. /\ missing \in Seq(Blocks) /\ Losses \in Nat /\ Rows = 1 .. Losses /\ Len(missing) = Losses
      /\ \A j \in Rows : missing[j] \in Blocks
      /\ \A i, j \in Rows : i < j => missing[i] < missing[j]
  BY LossNumbers DEF LossInv
<1>3. ToSet(missing) = {missing[j] : j \in Rows}
  BY <1>2 DEF ToSet
<1>4. L = {missing[j] : j \in Rows}
  BY <1>1, <1>2, <1>3 DEF Present
<1> DEFINE h == [j \in Rows |-> missing[j]]
<1>5. L \in SUBSET Blocks /\ h \in [Rows -> L] /\ \A d \in L : \E j \in Rows : h[j] = d
  BY <1>4
<1>6. \A a, b \in Rows : h[a] = h[b] => a = b
  <2>1. \A j \in Rows : missing[j] \in Nat
    BY <1>2, CodecNumbers
  <2> QED
    BY <1>2, <2>1
<1>7. IsFiniteSet(Rows)
  BY <1>2, FS_Interval
<1>8. ASSUME NEW i \in Rows PROVE SumOver(i, L) = Remaining[i] /\ Remaining[i] \in Elements
  <2>1. /\ GfSum([j \in Rows |-> GfMul(data[h[j]], Vandermonde(i, h[j]))]) = SumOver(i, L)
        /\ SumOver(i, L) \in Elements
    <3> HIDE DEF L, h
    <3> QED
      BY <1>5, <1>6, <1>7, SumOverType
  <2>2. [j \in Rows |-> GfMul(data[h[j]], Vandermonde(i, h[j]))]
          = [j \in Rows |-> GfMul(LostData[j], OriginalColumn(j)[i])]
    BY DEF LostData, OriginalColumn
  <2>3. Remaining[i] = GfSum([j \in Rows |-> GfMul(LostData[j], OriginalColumn(j)[i])])
    BY DEF Remaining
  <2> HIDE DEF L, h
  <2> QED
    BY <2>1, <2>2, <2>3
<1>9. Remaining = [i \in Rows |-> Remaining[i]]
  BY DEF Remaining
<1>10. Remaining \in Vectors(Losses)
  BY <1>2, <1>8, <1>9 DEF Vectors
<1> QED
  BY <1>8, <1>10

\* A chunk takes its columns out of the sums.
LEMMA ChunkTakesColumns ==
  ASSUME EncoderInv, LossInv, OutputInv, pc = "replay", NEW i \in Rows,
         NEW last \in used + 1 .. Len(UsedColumns),
         NEW after, after = {UsedColumns[c] : c \in 1 .. last}
  PROVE  SumOver(i, Blocks \ Added) ^^ Chunk(i, last) = SumOver(i, Blocks \ after)
<1>1. pc \notin Early
  BY DEF Early
<1>2. /\ Len(UsedColumns) \in Nat /\ used \in Nat
      /\ \A c \in 1 .. Len(UsedColumns) : UsedColumns[c] \in Blocks
      /\ \A c, e \in 1 .. Len(UsedColumns) : UsedColumns[c] = UsedColumns[e] => c = e
  BY <1>1, UsedType, CodecNumbers DEF OutputInv
<1> DEFINE R == used + 1 .. last
           h == [c \in R |-> UsedColumns[c]]
           A == {UsedColumns[c] : c \in R}
           S == Blocks \ Added
           B == Blocks \ after
<1>3. R \subseteq 1 .. Len(UsedColumns) /\ 1 .. last = (1 .. used) \cup R
      /\ (1 .. used) \subseteq 1 .. Len(UsedColumns) /\ (1 .. used) \cap R = {}
  BY <1>2
<1>4. A \subseteq Blocks /\ A \cap Added = {} /\ after = Added \cup A
  <2>1. A \subseteq Blocks
    BY <1>2, <1>3
  <2>2. A \cap Added = {}
    <3> SUFFICES ASSUME NEW c \in R, NEW e \in 1 .. used, UsedColumns[c] = UsedColumns[e]
                 PROVE  FALSE
      BY DEF Added
    <3>1. c \in 1 .. Len(UsedColumns) /\ e \in 1 .. Len(UsedColumns)
      BY <1>3
    <3>2. c = e
      BY <1>2, <3>1
    <3> QED
      BY <1>3, <3>2
  <2>3. after = Added \cup A
    BY <1>3 DEF Added
  <2> QED
    BY <2>1, <2>2, <2>3
<1>5. S \in SUBSET Blocks /\ A \in SUBSET S /\ B \in SUBSET S /\ A \cap B = {} /\ S = A \cup B
  <2> HIDE DEF A
  <2> QED
    BY <1>4
<1>6. h \in [R -> A] /\ (\A c, e \in R : h[c] = h[e] => c = e)
      /\ (\A d \in A : \E c \in R : h[c] = d)
  BY <1>2, <1>3
<1>7. IsFiniteSet(R)
  <2>1. used + 1 \in Int /\ last \in Int
    BY <1>2
  <2> QED
    BY <2>1, FS_Interval
<1>8. [c \in R |-> GfMul(data[h[c]], Vandermonde(i, h[c]))]
        = [c \in R |-> GfMul(data[UsedColumns[c]], Vandermonde(i, UsedColumns[c]))]
  <2>1. \A c \in R : h[c] = UsedColumns[c]
    OBVIOUS
  <2> HIDE DEF R, h
  <2> QED
    BY <2>1
<1>9. Chunk(i, last) = GfSum([c \in R |-> GfMul(data[h[c]], Vandermonde(i, h[c]))])
  BY <1>8 DEF Chunk
<1> HIDE DEF R, h, A, S, B
<1>10. Chunk(i, last) = SumOver(i, A) /\ SumOver(i, A) \in Elements
  <2>1. A \in SUBSET Blocks
    BY <1>5
  <2> QED
    BY <1>1, <1>6, <1>7, <1>9, <2>1, SumOverType
<1>11. SumOver(i, S) = SumOver(i, A) ^^ SumOver(i, B)
  BY <1>1, <1>5, SumOverType
<1>12. SumOver(i, B) \in Elements
  <2>1. B \in SUBSET Blocks
    BY <1>5
  <2> QED
    BY <1>1, <2>1, SumOverType
<1> DEFINE a == SumOver(i, A)
           b == SumOver(i, B)
<1>13. (a ^^ b) ^^ a = b
  <2>1. a \in Elements /\ b \in Elements
    BY <1>10, <1>12
  <2> HIDE DEF a, b
  <2>2. a ^^ b = b ^^ a
    BY <2>1, XorGroup
  <2>3. (b ^^ a) ^^ a = b
    BY <2>1, XorCancels
  <2> QED
    BY <2>2, <2>3
<1>14. SumOver(i, S) ^^ Chunk(i, last) = SumOver(i, B)
  BY <1>10, <1>11, <1>13
<1> QED
  BY <1>14 DEF S, B

\* Every step keeps what is known of the sums.
LEMMA SumStep ==
  ASSUME EncoderInv, LossInv, RecordInv, OutputInv, SumInv, [Next]_vars
  PROVE  SumInv'
<1>1. CASE LoadRecovery
  <2>1. /\ pc = "eliminate" /\ used' = 0 /\ k' = 1 /\ rowOrder' = rowOrder
        /\ acc' = [p \in Rows |-> recovery[exponents[rowOrder[p]]]]
        /\ Rows' = Rows /\ UNCHANGED <<data, missing, exponents>>
    BY <1>1 DEF LoadRecovery, Rows, Losses, transform
  <2>2. pc \notin Early
    BY <2>1 DEF Early
  <2>3. SUFFICES ASSUME Unmoved', NEW i \in Rows PROVE acc'[i] = OpenSum(i)'
    BY <2>1, SumInvIs
  <2>4. OpenSum(i)' = SumOver(i, Blocks)
    <3>1. Added' = {}
      BY <2>1 DEF Added
    <3>2. Blocks \ Added' = Blocks
      BY <3>1
    <3> QED
      BY <2>1, <3>2 DEF OpenSum, SumOver, Vandermonde
  <2>5. rowOrder[i] = i
    <3>1. rowOrder \in [Rows -> Rows]
      BY <2>2, LossNumbers, RecordInvIs, OrderingsType
    <3> QED
      BY <2>1, <2>3, <3>1 DEF Unmoved
  <2>6. recovery[exponents[i]] = SumOver(i, Blocks)
    BY <2>2, RecoveryIsSum
  <2> QED
    BY <2>1, <2>4, <2>5, <2>6
<1>2. CASE Accumulate
  <2>1. PICK last \in used + 1 .. Len(UsedColumns) :
           /\ used' = last
           /\ acc' = [i \in Rows |-> acc[i] ^^ Chunk(i, last)]
    BY <1>2, ChunkType
  <2>2. /\ pc = "replay" /\ used < Len(UsedColumns) /\ k' = k /\ rowOrder' = rowOrder
        /\ Rows' = Rows /\ UNCHANGED <<data, missing, exponents>>
        /\ UsedColumns' = UsedColumns
    BY <1>2 DEF Accumulate, Rows, Losses, UsedColumns, Present, Vandermonde, transform
  <2>3. k = 1
    <3>1. pc \notin Early
      BY <2>2 DEF Early
    <3>2. Losses \in Nat /\ k \in 1 .. Losses + 1 /\ Len(UsedColumns) \in Nat /\ used \in Nat
      BY <3>1, LossNumbers, RecordInvIs, UsedType, CodecNumbers DEF OutputInv
    <3>3. ~(k > 1)
      BY <2>2, <3>2 DEF OutputInv
    <3> QED
      BY <3>2, <3>3
  <2>4. SUFFICES ASSUME Unmoved', NEW i \in Rows PROVE acc'[i] = OpenSum(i)'
    BY <2>2, <2>3, SumInvIs
  <2>5. acc[i] = OpenSum(i)
    <3>1. Unmoved
      BY <2>2, <2>4 DEF Unmoved
    <3> QED
      BY <2>2, <2>3, <3>1, SumInvIs
  <2> DEFINE after == {UsedColumns[c] : c \in 1 .. last}
  <2>6. Added' = after
    BY <2>1, <2>2 DEF Added
  <2> HIDE DEF after
  <2>7. SumOver(i, Blocks \ Added) ^^ Chunk(i, last) = SumOver(i, Blocks \ after)
    BY <2>2, ChunkTakesColumns DEF after
  <2>8. OpenSum(i)' = SumOver(i, Blocks \ after)
    BY <2>2, <2>6 DEF OpenSum, SumOver, Vandermonde
  <2> QED
    BY <2>1, <2>5, <2>7, <2>8 DEF OpenSum
<1>3. CASE Replay
  <2>1. /\ pc = "replay" /\ used = Len(UsedColumns) /\ k <= Losses /\ k' = k + 1
        /\ acc' = Applied(acc, k) /\ rowOrder' = rowOrder
        /\ scale' = scale /\ factors' = factors /\ Losses' = Losses
        /\ Remaining' = Remaining
    BY <1>3 DEF Replay, Losses, Rows, Remaining, LostData, OriginalColumn, Vandermonde, transform
  <2>2. pc \notin Early
    BY <2>1 DEF Early
  <2>3. Losses \in Nat /\ k \in 1 .. Losses /\ IsRecord(scale, factors, Losses)
        /\ Rows = 1 .. Losses
    BY <2>1, <2>2, LossNumbers, RecordInvIs
  <2> DEFINE m == k - 1
             g == ReplayOf(Remaining, scale, factors, Losses)
  <2>4. m \in 0 .. Losses - 1 /\ m + 1 = k /\ k' - 1 = k /\ k' # 1
    BY <2>1, <2>3
  <2>5. SUFFICES ASSUME Unmoved' PROVE acc' = g[k]
    BY <2>1, <2>4, SumInvIs
  <2>6. Unmoved
    BY <2>1, <2>5 DEF Unmoved
  <2>7. Remaining \in Vectors(Losses) /\ \A i \in Rows : OpenSum(i) = Remaining[i]
    BY <2>1, <2>2, RemainingIsSum DEF OpenSum
  <2>8. g[0] = Remaining /\ g[m + 1] = StepOf(g[m], m + 1, scale, factors, Losses)
    <3>1. /\ ReplayOf(Remaining, scale, factors, Losses)[0] = Remaining
          /\ \A i \in 0 .. Losses - 1 :
               ReplayOf(Remaining, scale, factors, Losses)[i + 1] =
                 StepOf(ReplayOf(Remaining, scale, factors, Losses)[i], i + 1, scale, factors,
                        Losses)
      BY <2>3, <2>7, ReplaySteps
    <3> HIDE DEF m
    <3> QED
      BY <2>4, <3>1
  <2>9. acc = g[m]
    <3>1. CASE k = 1
      <4>1. \A i \in Rows : acc[i] = Remaining[i]
        BY <2>1, <2>6, <2>7, <3>1, SumInvIs
      <4>2. acc \in Vectors(Losses)
        BY <2>1, <2>3 DEF OutputInv, Vectors
      <4>3. acc = Remaining
        BY <2>3, <2>7, <4>1, <4>2, VectorsSame
      <4>4. m = 0
        BY <3>1
      <4> QED
        BY <2>8, <4>3, <4>4
    <3>2. CASE k > 1
      BY <2>1, <2>6, <3>2, SumInvIs
    <3> QED
      BY <2>3, <3>1, <3>2
  <2>10. Applied(acc, k) = StepOf(acc, k, scale, factors, Losses)
    BY DEF StepOf, Applied, Rows
  <2> HIDE DEF m, g
  <2>11. g[k] = StepOf(acc, k, scale, factors, Losses)
    BY <2>4, <2>8, <2>9
  <2> QED
    BY <2>1, <2>10, <2>11
<1>4. CASE WriteBlock \/ UNCHANGED vars
  <2>1. /\ pc' = "replay" => pc = "replay"
        /\ k' = k /\ rowOrder' = rowOrder /\ scale' = scale /\ factors' = factors
        /\ Losses' = Losses /\ Rows' = Rows /\ UNCHANGED <<data, missing, exponents, acc, used>>
    BY <1>4 DEF WriteBlock, vars, Losses, Rows, transform, decoder
  <2>2. Remaining' = Remaining /\ UsedColumns' = UsedColumns
    BY <2>1 DEF Remaining, LostData, OriginalColumn, Vandermonde, Rows, UsedColumns, Present
  <2>3. Added' = Added
    BY <2>1, <2>2 DEF Added
  <2>4. \A i \in Rows : OpenSum(i)' = OpenSum(i)
    BY <2>1, <2>3 DEF OpenSum, SumOver, Vandermonde
  <2>5. Unmoved' = Unmoved
    BY <2>1 DEF Unmoved
  <2> QED
    BY <2>1, <2>2, <2>4, <2>5, SumInvIs
<1>5. CASE Encode \/ LoseBlocks \/ RejectInput \/ BuildMatrix \/ Singular \/ Eliminate
  <2>1. pc' # "replay"
    BY <1>5, PhaseSteps DEF Early, Reducing
  <2> QED
    BY <2>1, SumInvIs
<1>6. CASE ChunkFails
  <2>1. pc' # "replay"
    BY <1>6 DEF ChunkFails
  <2> QED
    BY <2>1, SumInvIs
<1> QED
  BY <1>1, <1>2, <1>3, <1>4, <1>5, <1>6 DEF Next, Decode, Finished

\* A vector is the combination of the columns of the identity by its members.
LEMMA UnitsCombine ==
  ASSUME NEW n \in Nat, NEW x \in Vectors(n)
  PROVE  /\ [j \in 1 .. n |-> Unit(j, n)] \in [1 .. n -> Vectors(n)]
         /\ Combination(1 .. n, x, [j \in 1 .. n |-> Unit(j, n)], n) = x
<1> DEFINE D == 1 .. n
           U == [j \in D |-> Unit(j, n)]
<1>1. IsFiniteSet(D)
  <2>1. 1 \in Int /\ n \in Int
    OBVIOUS
  <2> QED
    BY <2>1, FS_Interval
<1>2. \A j, r \in D : U[j][r] = IF j = r THEN 1 ELSE 0
  BY DEF Unit
<1>3. U \in [D -> Vectors(n)]
  <2>1. 0 \in Elements /\ 1 \in Elements
    BY XorGroup
  <2>2. \A j \in D : Unit(j, n) \in Vectors(n)
    BY <2>1 DEF Unit, Vectors
  <2> QED
    BY <2>2
<1>4. \A j \in D : x[j] \in Elements
  BY DEF Vectors
<1> HIDE DEF U, D
<1>5. ASSUME NEW r \in D PROVE GfSum([j \in D |-> GfMul(x[j], U[j][r])]) = x[r]
  <2> DEFINE f == [j \in D |-> GfMul(x[j], U[j][r])]
  <2>1. ASSUME NEW j \in D
        PROVE  f[j] = (IF j = r THEN x[r] ELSE 0) /\ f[j] \in Elements
    <3> DEFINE a == x[j]
    <3>1. a \in Elements
      BY <1>4
    <3>2. U[j][r] = IF j = r THEN 1 ELSE 0
      BY <1>2
    <3> HIDE DEF a
    <3>3. GfMul(a, 1) = a /\ GfMul(a, 0) = 0 /\ 0 \in Elements
      BY <3>1, MulType, XorGroup
    <3>4. f[j] = GfMul(a, U[j][r])
      BY DEF a
    <3> QED
      BY <3>1, <3>2, <3>3, <3>4 DEF a
  <2>2. f \in [D -> Elements]
    <3>1. f = [j \in D |-> f[j]]
      OBVIOUS
    <3> HIDE DEF f
    <3> QED
      BY <2>1, <3>1
  <2> HIDE DEF f
  <2>3. GfSum(f) = f[r]
    BY <1>1, <2>1, <2>2, GfSumOfZeros
  <2> QED
    BY <2>1, <2>3 DEF f
<1>6. Combination(D, x, U, n) = [r \in D |-> x[r]]
  <2>1. Combination(D, x, U, n) = [r \in D |-> GfSum([j \in D |-> GfMul(x[j], U[j][r])])]
    BY DEF Combination, D
  <2> QED
    BY <1>5, <2>1
<1>7. x = [r \in D |-> x[r]]
  BY DEF Vectors, D
<1> QED
  BY <1>3, <1>6, <1>7 DEF U, D

\* The complete record makes the lost blocks of their sums: it makes the identity of their
\* columns, and it does with a combination what it does with its parts.
LEMMA RecordSolves ==
  ASSUME EncoderInv, LossInv, RecordInv, SolvedInv, pc = "replay", Unmoved
  PROVE  /\ LostData \in Vectors(Losses)
         /\ ReplayOf(Remaining, scale, factors, Losses)[Losses] = LostData
<1> DEFINE n == Losses
           V == [j \in Rows |-> OriginalColumn(j)]
           U == [j \in Rows |-> ReplayOf(V[j], scale, factors, n)[n]]
           c == Combination(Rows, LostData, U, n)
<1>1. pc \notin Early
  BY DEF Early
<1>2. /\ n \in Nat /\ Rows = 1 .. n /\ IsRecord(scale, factors, n)
      /\ rowOrder \in [Rows -> Rows]
      /\ \A j \in Rows : missing[j] \in Blocks
  BY <1>1, LossNumbers, RecordInvIs, OrderingsType
<1>3. \A j \in Rows : OriginalColumn(j) \in Vectors(n)
  <2>1. Len(exponents) \in Nat
    BY DEF LossInv
  <2>2. n <= Len(exponents)
    BY <1>1, <1>2, <2>1 DEF LossInv
  <2> QED
    BY <2>2, LossNumbers
<1>4. V \in [Rows -> Vectors(n)] /\ IsFiniteSet(Rows)
  BY <1>2, <1>3, FS_Interval
<1>5. LostData \in [Rows -> Elements]
  <2>1. \A j \in Rows : data[missing[j]] \in Elements
    BY <1>2, CodecNumbers DEF EncoderInv
  <2> QED
    BY <2>1 DEF LostData
<1>6. Remaining = Combination(Rows, LostData, V, n)
  BY <1>2 DEF Remaining, Combination
<1>7. ASSUME NEW j \in Rows PROVE ReplayOf(OriginalColumn(j), scale, factors, n)[n] = Unit(j, n)
  <2>1. Moved(j) = OriginalColumn(j)
    <3>1. \A i \in Rows : rowOrder[i] = i
      BY <1>2 DEF Unmoved
    <3>2. OriginalColumn(j) = [i \in Rows |-> OriginalColumn(j)[i]]
      BY DEF OriginalColumn
    <3> QED
      BY <3>1, <3>2 DEF Moved
  <2>2. Replayed(Moved(j))[n] = Unit(j, n)
    BY DEF SolvedInv
  <2> QED
    BY <2>1, <2>2, ReplaysIs
<1>8. U = [j \in Rows |-> Unit(j, n)]
  BY <1>7
<1>9. ReplayOf(Remaining, scale, factors, n)[n] = c
  <2> DEFINE J == Rows
             x == LostData
  <2>1. /\ n \in 0 .. n /\ IsRecord(scale, factors, n) /\ IsFiniteSet(J)
        /\ x \in [J -> Elements] /\ V \in [J -> Vectors(n)]
    BY <1>2, <1>4, <1>5
  <2> HIDE DEF V, n, J, x
  <2>2. ReplayOf(Combination(J, x, V, n), scale, factors, n)[n]
          = Combination(J, x, [j \in J |-> ReplayOf(V[j], scale, factors, n)[n]], n)
    BY <2>1, ReplayOfCombination
  <2> QED
    BY <1>6, <2>2 DEF J, x
<1> HIDE DEF V
<1>10. LostData \in Vectors(n)
  BY <1>2, <1>5 DEF Vectors
<1>11. c = LostData
  <2> DEFINE x == LostData
             I == [j \in 1 .. n |-> Unit(j, n)]
  <2>1. n \in Nat /\ x \in Vectors(n) /\ c = Combination(1 .. n, x, I, n)
    BY <1>2, <1>8, <1>10
  <2> HIDE DEF n, x, I, c
  <2>2. Combination(1 .. n, x, I, n) = x
    BY <2>1, UnitsCombine DEF I
  <2> QED
    BY <2>1, <2>2 DEF x
<1> QED
  BY <1>9, <1>10, <1>11

\* Every step keeps what is written right.
LEMMA RestoresStep ==
  ASSUME EncoderInv, LossInv, RecordInv, OutputInv, SolvedInv, SumInv, UnmovedRestores,
         [Next]_vars
  PROVE  UnmovedRestores'
<1>1. CASE WriteBlock
  <2>1. /\ pc = "replay" /\ k > Losses /\ rowOrder' = rowOrder
        /\ output' = Append(output, acc[Len(output) + 1])
        /\ UNCHANGED <<data, missing>>
    BY <1>1 DEF WriteBlock, transform
  <2>2. SUFFICES ASSUME Unmoved', NEW i \in DOMAIN output' PROVE output'[i] = data[missing[i]]
    BY <2>1 DEF UnmovedRestores, Restored
  <2>3. Unmoved
    BY <2>1, <2>2 DEF Unmoved
  <2>4. pc \notin Early
    BY <2>1 DEF Early
  <2>5. output \in Seq(Elements) /\ Len(output) < Losses
    BY <2>1 DEF OutputInv
  <2>6. Losses \in Nat /\ Rows = 1 .. Losses /\ k - 1 = Losses /\ k > 1
    <3>1. Losses \in Nat /\ Rows = 1 .. Losses /\ k \in 1 .. Losses + 1
      BY <2>4, LossNumbers, RecordInvIs
    <3>2. Losses > 0
      BY <2>4 DEF LossInv
    <3> QED
      BY <2>1, <3>1, <3>2
  <2>7. acc = LostData
    <3>1. acc = ReplayOf(Remaining, scale, factors, Losses)[Losses]
      BY <2>1, <2>3, <2>6, SumInvIs
    <3> QED
      BY <2>1, <2>3, <3>1, RecordSolves
  <2>8. \A j \in Rows : acc[j] = data[missing[j]]
    BY <2>7 DEF LostData
  <2>9. \A j \in 1 .. Len(output) : output[j] = data[missing[j]]
    BY <2>3, <2>5 DEF UnmovedRestores, Restored
  <2> DEFINE x == acc[Len(output) + 1]
             s == Append(output, x)
  <2>10. i \in 1 .. Len(output) + 1 /\ Len(output) \in Nat
         /\ (i \in 1 .. Len(output) => s[i] = output[i])
         /\ s[Len(output) + 1] = x
    <3>1. IsSeq(output)
      BY <2>5, SeqIsSeq
    <3> HIDE DEF x
    <3>2. /\ IsSeq(s) /\ Len(s) = Len(output) + 1 /\ s[Len(output) + 1] = x
          /\ \A j \in 1 .. Len(output) : s[j] = output[j]
      BY <3>1, SeqAppend
    <3>3. s = output'
      BY <2>1 DEF x
    <3> HIDE DEF s
    <3>4. DOMAIN s = 1 .. Len(s)
      BY <3>2, SeqFacts
    <3>5. Len(output) \in Nat
      BY <3>1, SeqFacts
    <3> QED
      BY <3>2, <3>3, <3>4, <3>5
  <2>11. s = output'
    BY <2>1
  <2> HIDE DEF s
  <2>12. CASE i \in 1 .. Len(output)
    BY <2>9, <2>10, <2>11, <2>12
  <2>13. CASE i = Len(output) + 1
    <3>1. i \in Rows
      BY <2>5, <2>6, <2>10, <2>13
    <3> QED
      BY <2>8, <2>10, <2>11, <2>13, <3>1
  <2> QED
    BY <2>10, <2>12, <2>13
<1>2. CASE Accumulate \/ Replay \/ LoadRecovery \/ ChunkFails \/ UNCHANGED vars
  <2>1. UNCHANGED <<data, missing, rowOrder, output>>
    BY <1>2 DEF Accumulate, Replay, LoadRecovery, ChunkFails, vars, transform, decoder
  <2> QED
    BY <2>1 DEF UnmovedRestores, Unmoved, Restored
<1>3. CASE Encode \/ LoseBlocks \/ RejectInput \/ BuildMatrix \/ Singular \/ Eliminate
  <2>1. pc \notin After
    BY <1>3, PhaseSteps DEF Early, Reducing, After
  <2>2. UNCHANGED decoder
    BY <1>3 DEF Encode, ProcessBlock, Finalize, LoseBlocks, RejectInput, BuildMatrix, Singular,
                Eliminate
  <2>3. output' = <<>>
    BY <2>1, <2>2 DEF OutputInv, decoder
  <2>4. DOMAIN output' = {}
    BY <2>3
  <2> QED
    BY <2>4 DEF UnmovedRestores, Restored
<1> QED
  BY <1>1, <1>2, <1>3 DEF Next, Decode, Finished

-----------------------------------------------------------------------------
(***************************************************************************)
(* Which matrices the elimination solves                                   *)
(***************************************************************************)

\* The steps before the i-th leave the i-th column of the identity alone.
LEMMA LaterUnits ==
  ASSUME NEW n, NEW sc, NEW fa, IsRecord(sc, fa, n), NEW i \in 1 .. n, NEW m \in Nat, m < i
  PROVE  ReplayOf(Unit(i, n), sc, fa, n)[m] = Unit(i, n)
<1> DEFINE u == Unit(i, n)
           f == ReplayOf(u, sc, fa, n)
           T == {s \in Nat : s < i => f[s] = u}
<1>1. n \in Nat /\ 0 \in Elements /\ 1 \in Elements
  BY XorGroup DEF IsRecord
<1>2. u \in Vectors(n) /\ \A r \in 1 .. n : u[r] = IF r = i THEN 1 ELSE 0
  BY <1>1 DEF Unit, Vectors
<1> HIDE DEF u
<1>3. f[0] = u /\ \A s \in 0 .. n - 1 : f[s + 1] = StepOf(f[s], s + 1, sc, fa, n)
  BY <1>2, ReplaySteps
<1> HIDE DEF f
<1>4. 0 \in T
  BY <1>3
<1>5. ASSUME NEW s \in Nat, s \in T PROVE s + 1 \in T
  <2> SUFFICES ASSUME s + 1 < i PROVE f[s + 1] = u
    OBVIOUS
  <2> DEFINE t == s + 1
             p == GfDiv(u[t], sc[t])
             w == StepOf(u, t, sc, fa, n)
  <2>1. t \in 1 .. n /\ t # i /\ s \in 0 .. n - 1 /\ f[s] = u
    BY <1>1, <1>5
  <2>2. f[s + 1] = w
    BY <1>3, <2>1
  <2> HIDE DEF t
  <2>3. /\ w \in Vectors(n)
        /\ \A r \in 1 .. n : w[r] = IF r = t THEN p ELSE u[r] ^^ GfMul(p, fa[r][t])
    BY <1>2, <2>1, StepType
  <2>4. p = 0
    <3>1. u[t] = 0
      BY <1>2, <2>1
    <3>2. sc[t] \in Elements \ {0}
      BY <2>1 DEF IsRecord
    <3> QED
      BY <3>1, <3>2, DivOfProduct
  <2> HIDE DEF p, w
  <2>5. ASSUME NEW r \in 1 .. n PROVE w[r] = u[r]
    <3>1. u[r] \in Elements /\ fa[r][t] \in Elements
      BY <1>2, <2>1 DEF IsRecord, Vectors
    <3>2. GfMul(0, fa[r][t]) = 0 /\ u[r] ^^ 0 = u[r]
      BY <3>1, MulType, XorGroup
    <3>3. CASE r = t
      BY <1>2, <2>1, <2>3, <2>4, <3>3
    <3>4. CASE r # t
      BY <2>3, <2>4, <3>2, <3>4
    <3> QED
      BY <3>3, <3>4
  <2>6. w = u
    BY <1>2, <2>3, <2>5, VectorsSame
  <2> QED
    BY <2>2, <2>6
<1>6. Nat \subseteq T
  <2> HIDE DEF T
  <2> QED
    BY <1>4, <1>5, SetInduction
<1> QED
  BY <1>6 DEF f, u

\* Row c, when it is looked at for a pivot, is the original row c and some of those above it.
RowAbove(l, c, sc, fa, n) ==
  /\ l \in [1 .. c -> Elements] /\ l[c] = 1
  /\ \A v \in Vectors(n) :
       ReplayOf(v, sc, fa, n)[c - 1][c] = GfSum([i \in 1 .. c |-> GfMul(l[i], v[i])])

LEMMA RowsAbove ==
  ASSUME NEW n, NEW sc, NEW fa, IsRecord(sc, fa, n), NEW c \in 1 .. n
  PROVE  \E l : RowAbove(l, c, sc, fa, n)
<1> DEFINE D == 1 .. n
           C == 1 .. c
           m == c - 1
           U == [i \in D |-> Unit(i, n)]
           g == [i \in D |-> ReplayOf(U[i], sc, fa, n)[m][c]]
           l == [i \in C |-> g[i]]
<1>1. /\ n \in Nat /\ m \in Nat /\ m \in 0 .. n /\ c \in D /\ C \subseteq D /\ c \in C
      /\ \A i \in D \ C : m < i /\ i # c
      /\ m < c
  BY DEF IsRecord
<1>2. IsFiniteSet(D)
  <2>1. 1 \in Int /\ n \in Int
    BY <1>1
  <2> QED
    BY <2>1, FS_Interval
<1>3. U \in [D -> Vectors(n)]
  <2>1. [r \in 1 .. n |-> 0] \in Vectors(n)
    BY XorGroup DEF Vectors
  <2> QED
    BY <1>1, <2>1, UnitsCombine
<1> HIDE DEF m
<1>4. ASSUME NEW i \in D
      PROVE  /\ g[i] = ReplayOf(U[i], sc, fa, n)[m][c] /\ g[i] \in Elements
             /\ m < i => g[i] = IF i = c THEN 1 ELSE 0
  <2>1. U[i] \in Vectors(n)
    BY <1>3
  <2>2. ReplayOf(U[i], sc, fa, n)[m] \in Vectors(n)
    <3> HIDE DEF U
    <3> QED
      BY <1>1, <2>1, ReplaySteps
  <2>3. ReplayOf(U[i], sc, fa, n)[m][c] \in Elements
    <3> HIDE DEF U
    <3> QED
      BY <1>1, <2>2 DEF Vectors
  <2>4. ASSUME m < i PROVE ReplayOf(Unit(i, n), sc, fa, n)[m][c] = IF i = c THEN 1 ELSE 0
    <3>1. ReplayOf(Unit(i, n), sc, fa, n)[m] = Unit(i, n)
      BY <1>1, <2>4, LaterUnits
    <3>2. Unit(i, n)[c] = IF i = c THEN 1 ELSE 0
      BY <1>1 DEF Unit
    <3> QED
      BY <3>1, <3>2
  <2> QED
    BY <2>3, <2>4
<1> HIDE DEF g
<1>5. l \in [C -> Elements] /\ l[c] = 1
  BY <1>1, <1>4
<1>6. ASSUME NEW v \in Vectors(n)
      PROVE  ReplayOf(v, sc, fa, n)[m][c] = GfSum([i \in C |-> GfMul(l[i], v[i])])
  <2> DEFINE f == [i \in D |-> GfMul(v[i], g[i])]
             W == [i \in D |-> ReplayOf(U[i], sc, fa, n)[m]]
  <2>1. v \in [D -> Elements]
    BY DEF Vectors
  <2>2. Combination(D, v, U, n) = v
    BY <1>1, UnitsCombine
  <2>3. ReplayOf(v, sc, fa, n)[m] = Combination(D, v, W, n)
    <3>1. ReplayOf(Combination(D, v, U, n), sc, fa, n)[m]
            = Combination(D, v, [i \in D |-> ReplayOf(U[i], sc, fa, n)[m]], n)
      <4>1. /\ m \in 0 .. n /\ IsRecord(sc, fa, n) /\ IsFiniteSet(D)
            /\ v \in [D -> Elements] /\ U \in [D -> Vectors(n)]
        BY <1>1, <1>2, <1>3, <2>1
      <4> HIDE DEF U, D
      <4> QED
        BY <4>1, ReplayOfCombination
    <3> HIDE DEF U, D
    <3> QED
      BY <2>2, <3>1
  <2>4. Combination(D, v, W, n)[c] = GfSum([i \in D |-> GfMul(v[i], W[i][c])])
    BY <1>1 DEF Combination
  <2>5. [i \in D |-> GfMul(v[i], W[i][c])] = f
    <3>1. \A i \in D : W[i][c] = g[i]
      <4> HIDE DEF U
      <4> QED
        BY <1>4
    <3> HIDE DEF W, D
    <3> QED
      BY <3>1
  <2> HIDE DEF W, U
  <2>6. ReplayOf(v, sc, fa, n)[m][c] = GfSum(f)
    <3> HIDE DEF f, D
    <3> QED
      BY <2>3, <2>4, <2>5
  <2>7. ASSUME NEW i \in D
        PROVE  /\ f[i] \in Elements /\ f[i] = GfMul(g[i], v[i])
               /\ i \notin C => f[i] = 0
    <3>1. v[i] \in Elements /\ g[i] \in Elements
      BY <1>4, <2>1
    <3>2. /\ GfMul(v[i], g[i]) \in Elements /\ GfMul(v[i], g[i]) = GfMul(g[i], v[i])
          /\ GfMul(v[i], 0) = 0
      BY <3>1, MulType
    <3>3. i \notin C => g[i] = 0
      BY <1>1, <1>4
    <3> HIDE DEF C
    <3> QED
      BY <3>2, <3>3
  <2>8. f \in [D -> Elements]
    <3>1. f = [i \in D |-> f[i]]
      OBVIOUS
    <3> HIDE DEF f, D, C
    <3> QED
      BY <2>7, <3>1
  <2> DEFINE B == D \ C
             fc == [i \in C |-> f[i]]
             fb == [i \in B |-> f[i]]
  <2>9. GfSum(f) = GfSum(fc) ^^ GfSum(fb) /\ IsFiniteSet(C) /\ IsFiniteSet(B)
    <3>1. C \in SUBSET D /\ B \in SUBSET D /\ C \cap B = {} /\ D = C \cup B
      <4> HIDE DEF C, D
      <4> QED
        BY <1>1
    <3> HIDE DEF f, D, C, B
    <3> QED
      BY <1>2, <2>8, <3>1, GfSumOfParts
  <2>10. fc \in [C -> Elements] /\ fb \in [B -> Elements] /\ \A i \in B : fb[i] = 0
    <3>1. \A i \in C : f[i] \in Elements
      <4> HIDE DEF C, D, f
      <4> QED
        BY <1>1, <2>7
    <3>2. \A i \in B : f[i] \in Elements /\ f[i] = 0
      <4> HIDE DEF C, D, f
      <4> QED
        BY <2>7
    <3> HIDE DEF f, D, C, B
    <3> QED
      BY <3>1, <3>2
  <2>11. fc = [i \in C |-> GfMul(l[i], v[i])]
    <3>1. \A i \in C : f[i] = GfMul(l[i], v[i])
      <4>1. \A i \in C : i \in D /\ l[i] = g[i]
        BY <1>1
      <4> HIDE DEF C, D, f, l
      <4> QED
        BY <2>7, <4>1
    <3> HIDE DEF f, D, C, l
    <3> QED
      BY <3>1
  <2> HIDE DEF fc, fb, B, C, f
  <2>12. GfSum(fb) = 0 /\ GfSum(fc) \in Elements
    BY <2>9, <2>10, GfSumOfZeros, GfSumType
  <2>13. GfSum(fc) ^^ 0 = GfSum(fc)
    <3> DEFINE s == GfSum(fc)
    <3>1. s \in Elements
      BY <2>12
    <3> HIDE DEF s
    <3>2. s ^^ 0 = s
      BY <3>1, XorGroup
    <3> QED
      BY <3>2 DEF s
  <2>14. ReplayOf(v, sc, fa, n)[m][c] = GfSum(fc)
    BY <2>6, <2>9, <2>12, <2>13
  <2> QED
    BY <2>11, <2>14
<1>7. RowAbove(l, c, sc, fa, n)
  <2> HIDE DEF l
  <2> QED
    BY <1>5, <1>6 DEF RowAbove, m
<1> QED
  BY <1>7

\* Columns of consecutive powers, from the e-th on, of different elements.
PowerColumns(V, x, e, c, n) ==
  /\ e \in Nat
  /\ x \in [1 .. c -> Elements \ {0}]
  /\ \A i, j \in 1 .. c : x[i] = x[j] => i = j
  /\ V \in [1 .. c -> Vectors(n)]
  /\ \A j \in 1 .. c : \A i \in 1 .. n : V[j][i] = GfPow(x[j], e + i - 1)

\* Their first c - 1 steps done, c such columns cannot all be 0 in row c: they would be c roots
\* of a monic polynomial of degree c - 1.
LEMMA NoRoots ==
  ASSUME NEW n, NEW sc, NEW fa, IsRecord(sc, fa, n), NEW c \in 1 .. n,
         NEW V, NEW x, NEW e, PowerColumns(V, x, e, c, n)
  PROVE  \E j \in 1 .. c : ReplayOf(V[j], sc, fa, n)[c - 1][c] # 0
<1> USE DEF PowerColumns
<1>1. n \in Nat /\ c \in Nat \ {0} /\ c - 1 \in Nat /\ (c - 1) + 1 = c /\ 1 .. c \subseteq 1 .. n
  BY DEF IsRecord
<1>2. PICK l : RowAbove(l, c, sc, fa, n)
  BY RowsAbove
<1>3. /\ l \in [1 .. c -> Elements] /\ l[c] = 1
      /\ \A v \in Vectors(n) :
           ReplayOf(v, sc, fa, n)[c - 1][c] = GfSum([i \in 1 .. c |-> GfMul(l[i], v[i])])
  BY <1>2 DEF RowAbove
<1> DEFINE a == [s \in Nat |-> IF s < c THEN l[c - s] ELSE 0]
<1>4. a \in Coefficients /\ a[0] = 1 /\ \A s \in Nat : s < c => a[s] = l[c - s]
  <2>1. ASSUME NEW s \in Nat, s < c PROVE l[c - s] \in Elements
    <3>1. c - s \in 1 .. c
      BY <1>1, <2>1
    <3> QED
      BY <1>3, <3>1
  <2>2. a \in Coefficients
    BY <2>1, XorGroup DEF Coefficients
  <2>3. a[0] = 1
    <3>1. 0 < c /\ c - 0 = c
      BY <1>1
    <3> QED
      BY <1>3, <3>1
  <2> QED
    BY <2>2, <2>3
<1> HIDE DEF a
<1>5. \A j \in 1 .. c : x[j] \in Elements /\ x[j] # 0
  OBVIOUS
<1>6. PICK j \in 1 .. c : Horner(a, x[j])[c - 1] # 0
  <2> DEFINE d == c - 1
  <2>1. d \in Nat /\ d + 1 = c
    BY <1>1
  <2> HIDE DEF d
  <2>2. Rootless(d)
    BY <2>1, FewRoots
  <2>3. /\ x \in [1 .. d + 1 -> Elements]
        /\ \A i, s \in 1 .. d + 1 : x[i] = x[s] => i = s
        /\ a \in Coefficients /\ a[0] = 1
    BY <1>4, <1>5, <2>1
  <2>4. \E s \in 1 .. d + 1 : Horner(a, x[s])[d] # 0
    BY <2>2, <2>3 DEF Rootless
  <2> QED
    BY <2>1, <2>4 DEF d
<1> DEFINE y == x[j]
           h == Horner(a, y)[c - 1]
           p == GfPow(y, e)
<1>7. V[j] \in Vectors(n) /\ \A i \in 1 .. c : V[j][i] = GfPow(y, e + i - 1)
  BY <1>1
<1>8. y \in Elements /\ y # 0
  BY <1>5
<1> HIDE DEF y
<1>9. PowerSum(l, y, e, c) = GfMul(p, h)
  <2>1. /\ c \in Nat \ {0} /\ l \in [1 .. c -> Elements] /\ y \in Elements /\ e \in Nat
        /\ a \in Coefficients /\ \A s \in Nat : s < c => a[s] = l[c - s]
    BY <1>1, <1>3, <1>4, <1>8
  <2> QED
    BY <2>1, SumIsHorner
<1>10. GfSum([i \in 1 .. c |-> GfMul(l[i], V[j][i])]) = PowerSum(l, y, e, c)
  BY <1>7 DEF PowerSum
<1>11. ReplayOf(V[j], sc, fa, n)[c - 1][c] = GfMul(p, h)
  BY <1>3, <1>7, <1>9, <1>10
<1>12. p \in Elements /\ p # 0
  BY <1>8, PowType
<1>13. h \in Elements
  BY <1>1, <1>4, <1>8, HornerType DEF Coefficients
<1>14. h # 0
  BY <1>6 DEF y
<1> HIDE DEF p, h
<1>15. GfMul(p, h) # 0
  BY <1>12, <1>13, <1>14, MulType
<1> QED
  BY <1>11, <1>15

\* The constants of the data blocks do not repeat: with the field of the code, up to 32768 blocks.
EnoughConstants == ConstantExponent[DataBlocks] < GroupOrder

\* No two lost blocks share a constant.
LostDiffer ==
  \A i, j \in Rows : Constants[missing[i]] = Constants[missing[j]] => missing[i] = missing[j]

\* Consecutive exponents, each said by the first.
LEMMA ExponentsInRow ==
  ASSUME LossInv, Consecutive
  PROVE  \A i \in 1 .. Len(exponents) : exponents[i] \in Nat /\ exponents[i] = exponents[1] + i - 1
<1> DEFINE T == {i \in Nat : i < Len(exponents) => exponents[i + 1] = exponents[1] + i}
<1>1. Len(exponents) \in Nat /\ \A i \in 1 .. Len(exponents) : exponents[i] \in Nat
  <2>1. exponents \in Seq(Exponents) /\ Exponents \subseteq Nat
    BY CodecNumbers DEF LossInv
  <2>2. Len(exponents) \in Nat /\ \A i \in 1 .. Len(exponents) : exponents[i] \in Exponents
    BY <2>1
  <2> QED
    BY <2>1, <2>2
<1>2. \A i \in 1 .. Len(exponents) - 1 : exponents[i + 1] = exponents[i] + 1
  BY DEF Consecutive
<1>3. 0 \in T
  <2>1. ASSUME 0 < Len(exponents) PROVE exponents[0 + 1] = exponents[1] + 0
    <3>1. exponents[1] \in Nat
      BY <1>1, <2>1
    <3> QED
      BY <3>1
  <2> QED
    BY <2>1
<1>4. ASSUME NEW i \in Nat, i \in T PROVE i + 1 \in T
  <2> DEFINE o == i + 1
  <2> SUFFICES ASSUME o < Len(exponents) PROVE exponents[o + 1] = exponents[1] + o
    OBVIOUS
  <2>1. o \in 1 .. Len(exponents) - 1 /\ exponents[o] = exponents[1] + i
    BY <1>1, <1>4
  <2>2. exponents[1] \in Nat
    BY <1>1, <2>1
  <2>3. exponents[o + 1] = exponents[o] + 1
    <3> HIDE DEF o
    <3> QED
      BY <1>2, <2>1
  <2> QED
    BY <2>1, <2>2, <2>3
<1>5. Nat \subseteq T
  <2> HIDE DEF T
  <2> QED
    BY <1>3, <1>4, SetInduction
<1>6. ASSUME NEW i \in 1 .. Len(exponents) PROVE exponents[i] = exponents[1] + i - 1
  <2> DEFINE m == i - 1
  <2>1. m \in Nat /\ m + 1 = i /\ m < Len(exponents) /\ exponents[1] \in Nat
    BY <1>1
  <2> HIDE DEF m
  <2>2. exponents[m + 1] = exponents[1] + m
    BY <1>5, <2>1
  <2> QED
    BY <2>1, <2>2
<1> QED
  BY <1>1, <1>6

\* Where no rows were exchanged so far and the exponents are consecutive, the diagonal has the
\* next pivot.
LEMMA PivotThere ==
  ASSUME LostDiffer, LossInv, RecordInv, RecordReplaysElimination,
         Consecutive, Unmoved, pc = "eliminate", k <= Losses
  PROVE  k \in 1 .. Losses /\ matrix[k][k] # 0
<1> DEFINE n == Losses
           c == k
           x == [j \in 1 .. c |-> Constants[missing[j]]]
           V == [j \in 1 .. c |-> OriginalColumn(j)]
           e == exponents[1]
<1>1. pc \notin Early
  BY DEF Early
<1>2. /\ n \in Nat /\ Rows = 1 .. n /\ c \in 1 .. n /\ n <= Len(exponents)
      /\ Len(exponents) \in Nat /\ IsRecord(scale, factors, n) /\ rowOrder \in [1 .. n -> 1 .. n]
  <2>1. n \in Nat /\ Rows = 1 .. n /\ Len(exponents) \in Nat /\ Len(exponents) >= n
    BY <1>1, LossNumbers DEF LossInv
  <2>2. IsRecord(scale, factors, n) /\ rowOrder \in Orderings(n) /\ k \in 1 .. n + 1
    BY <1>1, RecordInvIs
  <2>3. rowOrder \in [1 .. n -> 1 .. n]
    BY <2>1, <2>2, OrderingsType
  <2> QED
    BY <2>1, <2>2, <2>3
<1>3. /\ \A j \in 1 .. n : missing[j] \in Blocks /\ OriginalColumn(j) \in Vectors(n)
      /\ \A i, j \in 1 .. n : i < j => missing[i] < missing[j]
  BY <1>2, LossNumbers
<1>4. e \in Nat /\ \A i \in 1 .. n : exponents[i] = e + i - 1
  BY <1>2, ExponentsInRow
<1>5. x \in [1 .. c -> Elements \ {0}]
  BY <1>2, <1>3, CodecNumbers
<1>6. \A i, j \in 1 .. c : x[i] = x[j] => i = j
  <2> SUFFICES ASSUME NEW i \in 1 .. c, NEW j \in 1 .. c, x[i] = x[j] PROVE i = j
    OBVIOUS
  <2>1. i \in 1 .. n /\ j \in 1 .. n /\ Constants[missing[i]] = Constants[missing[j]]
    BY <1>2
  <2>2. missing[i] \in 1 .. DataBlocks /\ missing[j] \in 1 .. DataBlocks /\ DataBlocks \in Nat
    BY <1>3, <2>1, CodecNumbers DEF Blocks
  <2>3. missing[i] = missing[j]
    BY <1>2, <2>1 DEF LostDiffer
  <2>4. (i < j => missing[i] < missing[j]) /\ (j < i => missing[j] < missing[i])
    BY <1>3, <2>1
  <2>5. i \in Int /\ j \in Int /\ missing[i] \in Int /\ missing[j] \in Int
    BY <2>1, <2>2
  <2> HIDE DEF x
  <2> QED
    BY <2>3, <2>4, <2>5
<1>7. V \in [1 .. c -> Vectors(n)]
  BY <1>2, <1>3
<1>8. \A j \in 1 .. c : \A i \in 1 .. n : V[j][i] = GfPow(x[j], e + i - 1)
  <2> SUFFICES ASSUME NEW j \in 1 .. c, NEW i \in 1 .. n PROVE V[j][i] = GfPow(x[j], e + i - 1)
    OBVIOUS
  <2>1. V[j] = OriginalColumn(j) /\ OriginalColumn(j)[i] = Vandermonde(i, missing[j])
    BY <1>2 DEF OriginalColumn
  <2> QED
    BY <1>4, <2>1 DEF Vandermonde
<1>9. PICK j \in 1 .. c : ReplayOf(V[j], scale, factors, n)[c - 1][c] # 0
  <2>1. /\ IsRecord(scale, factors, n) /\ c \in 1 .. n /\ e \in Nat
        /\ x \in [1 .. c -> Elements \ {0}] /\ \A i, j \in 1 .. c : x[i] = x[j] => i = j
        /\ V \in [1 .. c -> Vectors(n)]
        /\ \A j \in 1 .. c : \A i \in 1 .. n : V[j][i] = GfPow(x[j], e + i - 1)
    BY <1>2, <1>4, <1>5, <1>6, <1>7, <1>8
  <2> HIDE DEF V, x, e, n, c
  <2>2. PowerColumns(V, x, e, c, n)
    BY <2>1 DEF PowerColumns
  <2> QED
    BY <2>1, <2>2, NoRoots
<1>10. Replays(matrix, scale, factors, rowOrder, c, j, OriginalColumn(j), n)
  BY <1>2, ReplaysIs
<1>11. Reordered(OriginalColumn(j), rowOrder, n) = OriginalColumn(j)
  <2>1. \A i \in 1 .. n : rowOrder[i] = i
    BY <1>2 DEF Unmoved
  <2>2. OriginalColumn(j) = [i \in 1 .. n |-> OriginalColumn(j)[i]]
    BY <1>2 DEF OriginalColumn
  <2> QED
    BY <2>1, <2>2 DEF Reordered
<1>12. Column(matrix, j, n)[c] # 0 /\ Column(matrix, j, n)[c] = matrix[c][j]
  BY <1>2, <1>9, <1>10, <1>11 DEF Replays, Column
<1>13. ~(j < c)
  <2>1. ASSUME j < c PROVE FALSE
    <3>1. Unit(j, n)[c] = 0
      BY <1>2, <2>1 DEF Unit
    <3> QED
      BY <1>10, <1>12, <2>1, <3>1 DEF Replays
  <2> QED
    BY <2>1
<1> QED
  BY <1>2, <1>12, <1>13

\* Every step keeps the rows of consecutive exponents where they are and finds them a pivot.
LEMMA ConsecutiveStep ==
  ASSUME LossInv, RecordInv, RecordReplaysElimination, LostDiffer => ConsecutiveIsSolved,
         [Next]_vars
  PROVE  LostDiffer' => ConsecutiveIsSolved'
<1> SUFFICES ASSUME LostDiffer' PROVE ConsecutiveIsSolved'
  OBVIOUS
<1>0. UNCHANGED missing => LostDiffer
  BY DEF LostDiffer, Rows, Losses
<1>1. CASE LoseBlocks
  <2>1. rowOrder' = <<>> /\ pc' = "prepare"
    BY <1>1 DEF LoseBlocks, transform, LossInv, Early
  <2> QED
    BY <2>1 DEF ConsecutiveIsSolved, Unmoved
<1>2. CASE BuildMatrix
  <2>1. rowOrder' = [i \in Rows |-> i] /\ pc' = "eliminate"
    BY <1>2 DEF BuildMatrix
  <2> QED
    BY <2>1 DEF ConsecutiveIsSolved, Unmoved
<1>3. CASE Eliminate
  <2> SUFFICES ASSUME Consecutive' PROVE pc' # "singular" /\ Unmoved'
    BY DEF ConsecutiveIsSolved
  <2>1. /\ pc = "eliminate" /\ pc' = "eliminate" /\ k <= Losses
        /\ UNCHANGED <<exponents, missing>>
    BY <1>3 DEF Eliminate
  <2>2. Consecutive /\ Unmoved
    BY <1>0, <2>1 DEF Consecutive, ConsecutiveIsSolved
  <2>3. k \in 1 .. Losses /\ matrix[k][k] # 0
    BY <1>0, <2>1, <2>2, PivotThere
  <2>4. PICK p \in 1 .. Losses :
          /\ k <= p /\ (\A r \in k .. Losses : matrix[r][k] # 0 => p <= r)
          /\ rowOrder' = Swapped(rowOrder, k, p)
    BY <1>3, EliminateIs
  <2>5. p = k /\ Losses \in Nat
    BY <2>3, <2>4, LossNumbers
  <2>6. Swapped(rowOrder, k, k) = rowOrder
    <3>1. rowOrder \in Orderings(Losses)
      BY <2>1, RecordInvIs DEF Early
    <3>2. rowOrder \in [1 .. Losses -> 1 .. Losses]
      BY <2>5, <3>1, OrderingsType
    <3> QED
      BY <3>2 DEF Swapped
  <2>7. rowOrder' = rowOrder
    BY <2>4, <2>5, <2>6
  <2> QED
    BY <2>1, <2>2, <2>7 DEF Unmoved
<1>4. CASE Singular
  <2> SUFFICES ASSUME Consecutive' PROVE FALSE
    BY DEF ConsecutiveIsSolved
  <2>1. pc = "eliminate" /\ k <= Losses /\ Pivots = {} /\ UNCHANGED <<exponents, missing>>
    BY <1>4 DEF Singular
  <2>2. Consecutive /\ Unmoved
    BY <1>0, <2>1 DEF Consecutive, ConsecutiveIsSolved
  <2>3. k \in 1 .. Losses /\ matrix[k][k] # 0 /\ Losses \in Nat
    BY <1>0, <2>1, <2>2, PivotThere, LossNumbers
  <2> QED
    BY <2>1, <2>3 DEF Pivots
<1>5. CASE Encode \/ RejectInput \/ LoadRecovery \/ Accumulate \/ Replay \/ WriteBlock
           \/ ChunkFails \/ UNCHANGED vars
  <2>1. UNCHANGED <<exponents, missing, rowOrder>> /\ (pc' = "singular" => pc = "singular")
    BY <1>5 DEF Encode, ProcessBlock, Finalize, RejectInput, LoadRecovery, Accumulate, Replay,
                WriteBlock, ChunkFails, vars, transform
  <2> QED
    BY <1>0, <2>1 DEF ConsecutiveIsSolved, Consecutive, Unmoved
<1> QED
  BY <1>1, <1>2, <1>3, <1>4, <1>5 DEF Next, Decode, Finished

-----------------------------------------------------------------------------
(***************************************************************************)
(* Which matrices the elimination gives up on                              *)
(***************************************************************************)

\* A step of the record forgets nothing.
LEMMA StepInjective ==
  ASSUME NEW n, NEW sc, NEW fa, IsRecord(sc, fa, n), NEW i \in 1 .. n,
         NEW v \in Vectors(n), NEW w \in Vectors(n),
         StepOf(v, i, sc, fa, n) = StepOf(w, i, sc, fa, n)
  PROVE  v = w
<1> DEFINE z == sc[i]
           p == GfDiv(v[i], z)
           q == GfDiv(w[i], z)
           s == StepOf(v, i, sc, fa, n)
           t == StepOf(w, i, sc, fa, n)
<1>1. /\ z \in Elements /\ z # 0
      /\ \A r \in 1 .. n : v[r] \in Elements /\ w[r] \in Elements /\ fa[r][i] \in Elements
  BY DEF IsRecord, Vectors
<1>2. /\ p \in Elements
      /\ \A r \in 1 .. n : s[r] = IF r = i THEN p ELSE v[r] ^^ GfMul(p, fa[r][i])
  BY StepType
<1>3. /\ q \in Elements
      /\ \A r \in 1 .. n : t[r] = IF r = i THEN q ELSE w[r] ^^ GfMul(q, fa[r][i])
  BY StepType
<1>4. s = t
  OBVIOUS
<1>5. GfMul(p, z) = v[i] /\ GfMul(q, z) = w[i]
  BY <1>1, DivType
<1> HIDE DEF z, p, q, s, t
<1>6. p = q
  BY <1>2, <1>3, <1>4
<1>7. ASSUME NEW r \in 1 .. n PROVE v[r] = w[r]
  <2>1. CASE r = i
    BY <1>5, <1>6, <2>1
  <2>2. CASE r # i
    <3> DEFINE a == v[r]
               b == w[r]
               m == GfMul(p, fa[r][i])
    <3>1. a ^^ m = b ^^ m
      BY <1>2, <1>3, <1>4, <1>6, <2>2
    <3>2. a \in Elements /\ b \in Elements /\ m \in Elements
      BY <1>1, <1>2, MulType
    <3> HIDE DEF a, b, m
    <3>3. (a ^^ m) ^^ m = a /\ (b ^^ m) ^^ m = b
      <4>1. (a ^^ m) ^^ m = a ^^ (m ^^ m) /\ (b ^^ m) ^^ m = b ^^ (m ^^ m)
        BY <3>2, XorGroup
      <4>2. m ^^ m = 0 /\ a ^^ 0 = a /\ b ^^ 0 = b
        BY <3>2, XorGroup
      <4> QED
        BY <4>1, <4>2
    <3> QED
      BY <3>1, <3>3 DEF a, b
  <2> QED
    BY <2>1, <2>2
<1> QED
  BY <1>7, VectorsSame

\* Nor does the record.
LEMMA ReplayInjective ==
  ASSUME NEW n, NEW sc, NEW fa, IsRecord(sc, fa, n), NEW m \in 0 .. n,
         NEW v \in Vectors(n), NEW w \in Vectors(n),
         ReplayOf(v, sc, fa, n)[m] = ReplayOf(w, sc, fa, n)[m]
  PROVE  v = w
<1> DEFINE f == ReplayOf(v, sc, fa, n)
           g == ReplayOf(w, sc, fa, n)
           T == {i \in Nat : i <= n /\ f[i] = g[i] => v = w}
<1>1. n \in Nat
  BY DEF IsRecord
<1>2. /\ f[0] = v /\ \A i \in 0 .. n : f[i] \in Vectors(n)
      /\ \A i \in 0 .. n - 1 : f[i + 1] = StepOf(f[i], i + 1, sc, fa, n)
  BY ReplaySteps
<1>3. /\ g[0] = w /\ \A i \in 0 .. n : g[i] \in Vectors(n)
      /\ \A i \in 0 .. n - 1 : g[i + 1] = StepOf(g[i], i + 1, sc, fa, n)
  BY ReplaySteps
<1>4. f[m] = g[m]
  OBVIOUS
<1> HIDE DEF f, g
<1>5. 0 \in T
  BY <1>2, <1>3
<1>6. ASSUME NEW i \in Nat, i \in T PROVE i + 1 \in T
  <2> SUFFICES ASSUME i + 1 <= n, f[i + 1] = g[i + 1] PROVE v = w
    OBVIOUS
  <2> DEFINE x == f[i]
             y == g[i]
             o == i + 1
  <2>1. i \in 0 .. n - 1 /\ o \in 1 .. n /\ x \in Vectors(n) /\ y \in Vectors(n) /\ i <= n
    BY <1>1, <1>2, <1>3
  <2>2. StepOf(x, o, sc, fa, n) = StepOf(y, o, sc, fa, n)
    BY <1>2, <1>3, <2>1
  <2> HIDE DEF x, y, o
  <2>3. x = y
    BY <2>1, <2>2, StepInjective
  <2> QED
    BY <1>6, <2>1, <2>3 DEF x, y
<1>7. Nat \subseteq T
  <2> HIDE DEF T
  <2> QED
    BY <1>5, <1>6, SetInduction
<1>8. m \in Nat /\ m <= n
  BY <1>1
<1> QED
  BY <1>4, <1>7, <1>8

\* Rows in another order: a vector, what it forgets and combinations.
LEMMA ReorderedType ==
  ASSUME NEW n \in Nat, NEW order \in Orderings(n)
  PROVE  /\ \A v \in Vectors(n) : Reordered(v, order, n) \in Vectors(n)
         /\ \A v, w \in Vectors(n) : Reordered(v, order, n) = Reordered(w, order, n) => v = w
<1>1. /\ order \in [1 .. n -> 1 .. n]
      /\ \A s \in 1 .. n : \E i \in 1 .. n : order[i] = s
  BY DEF Orderings, Bijection, Injection, Surjection
<1>2. ASSUME NEW v \in Vectors(n) PROVE Reordered(v, order, n) \in Vectors(n)
  BY <1>1 DEF Reordered, Vectors
<1>3. ASSUME NEW v \in Vectors(n), NEW w \in Vectors(n),
             Reordered(v, order, n) = Reordered(w, order, n)
      PROVE  v = w
  <2>1. \A i \in 1 .. n : v[order[i]] = w[order[i]]
    <3>1. \A i \in 1 .. n : /\ Reordered(v, order, n)[i] = v[order[i]]
                            /\ Reordered(w, order, n)[i] = w[order[i]]
      BY DEF Reordered
    <3> QED
      BY <1>3, <3>1
  <2>2. \A s \in 1 .. n : v[s] = w[s]
    BY <1>1, <2>1
  <2> QED
    BY <2>2, VectorsSame
<1> QED
  BY <1>2, <1>3

\* The columns before the c-th have been passed: m steps of the record make those of the
\* identity of them.
Passed(V, sc, fa, order, c, m, n) ==
  /\ IsRecord(sc, fa, n) /\ order \in Orderings(n) /\ V \in Matrices(n)
  /\ c \in 1 .. n /\ m \in 0 .. n
  /\ \A j \in 1 .. c - 1 : ReplayOf(Reordered(V[j], order, n), sc, fa, n)[m] = Unit(j, n)

\* Then these steps make of a combination of them the vector of its factors.
LEMMA PassedColumns ==
  ASSUME NEW n, NEW sc, NEW fa, NEW order, NEW c, NEW m, NEW V, NEW x,
         Passed(V, sc, fa, order, c, m, n), x \in Vectors(c - 1)
  PROVE  /\ Combination(1 .. c - 1, x, V, n) \in Vectors(n)
         /\ \A r \in 1 .. n :
              ReplayOf(Reordered(Combination(1 .. c - 1, x, V, n), order, n), sc, fa, n)[m][r]
                = IF r < c THEN x[r] ELSE 0
<1> DEFINE J == 1 .. c - 1
           w == Combination(J, x, V, n)
           W == [j \in J |-> V[j]]
           R == [j \in J |-> Reordered(V[j], order, n)]
           U == [j \in J |-> Unit(j, n)]
<1>1. /\ IsRecord(sc, fa, n) /\ order \in Orderings(n) /\ V \in Matrices(n)
      /\ c \in 1 .. n /\ m \in 0 .. n
      /\ \A j \in J : ReplayOf(Reordered(V[j], order, n), sc, fa, n)[m] = Unit(j, n)
  BY DEF Passed
<1>2. n \in Nat /\ J \subseteq 1 .. n /\ IsFiniteSet(J)
      /\ \A r \in 1 .. n : r < c <=> r \in J
  <2>1. n \in Nat /\ c - 1 \in Int /\ 1 \in Int
    BY <1>1 DEF IsRecord
  <2>2. IsFiniteSet(J)
    BY <2>1, FS_Interval
  <2> QED
    BY <1>1, <2>1, <2>2
<1>3. x \in [J -> Elements] /\ \A j \in J : x[j] \in Elements
  BY DEF Vectors
<1>4. /\ \A j \in J : /\ V[j] \in Vectors(n) /\ Reordered(V[j], order, n) \in Vectors(n)
                      /\ Unit(j, n) \in Vectors(n)
      /\ order \in [1 .. n -> 1 .. n]
  <2>1. \A j \in J : V[j] \in Vectors(n)
    BY <1>1, <1>2 DEF Matrices
  <2>2. \A j \in J : Unit(j, n) \in Vectors(n)
    <3>1. 0 \in Elements /\ 1 \in Elements
      BY XorGroup
    <3> QED
      BY <3>1 DEF Unit, Vectors
  <2> QED
    BY <1>1, <1>2, <2>1, <2>2, ReorderedType, OrderingsType
<1> HIDE DEF J
<1>5. W \in [J -> Vectors(n)] /\ R \in [J -> Vectors(n)] /\ U \in [J -> Vectors(n)]
  BY <1>4
<1>6. w \in Vectors(n)
  <2>1. w = Combination(J, x, W, n)
    BY DEF Combination
  <2>2. 1 \in 1 .. n /\ IsFiniteSet(J) /\ IsRecord(sc, fa, n)
    BY <1>1, <1>2
  <2> HIDE DEF W, w
  <2>3. Combination(J, x, W, n) \in Vectors(n)
    BY <1>3, <1>5, <2>2, StepOfCombination
  <2> QED
    BY <2>1, <2>3
<1>7. Reordered(w, order, n) = Combination(J, x, R, n)
  <2>1. ASSUME NEW i \in 1 .. n
        PROVE  w[order[i]] = GfSum([j \in J |-> GfMul(x[j], R[j][i])])
    <3>1. order[i] \in 1 .. n
      BY <1>4
    <3>2. w[order[i]] = GfSum([j \in J |-> GfMul(x[j], V[j][order[i]])])
      BY <3>1 DEF Combination
    <3>3. \A j \in J : R[j][i] = V[j][order[i]]
      BY DEF Reordered
    <3> HIDE DEF R
    <3>4. [j \in J |-> GfMul(x[j], V[j][order[i]])] = [j \in J |-> GfMul(x[j], R[j][i])]
      BY <3>3
    <3> QED
      BY <3>2, <3>4
  <2> HIDE DEF w, R
  <2>2. Reordered(w, order, n) = [i \in 1 .. n |-> w[order[i]]]
    BY DEF Reordered
  <2>3. Combination(J, x, R, n) = [i \in 1 .. n |-> GfSum([j \in J |-> GfMul(x[j], R[j][i])])]
    BY DEF Combination
  <2> QED
    BY <2>1, <2>2, <2>3
<1>8. ReplayOf(Combination(J, x, R, n), sc, fa, n)[m] = Combination(J, x, U, n)
  <2>1. [j \in J |-> ReplayOf(R[j], sc, fa, n)[m]] = U
    BY <1>1
  <2>2. /\ IsRecord(sc, fa, n) /\ IsFiniteSet(J) /\ x \in [J -> Elements]
        /\ R \in [J -> Vectors(n)] /\ m \in 0 .. n
    BY <1>1, <1>2, <1>3, <1>5
  <2> HIDE DEF R, U
  <2>3. ReplayOf(Combination(J, x, R, n), sc, fa, n)[m]
          = Combination(J, x, [j \in J |-> ReplayOf(R[j], sc, fa, n)[m]], n)
    BY <2>2, ReplayOfCombination
  <2> QED
    BY <2>1, <2>3
<1>9. ASSUME NEW r \in 1 .. n PROVE Combination(J, x, U, n)[r] = IF r < c THEN x[r] ELSE 0
  <2> DEFINE f == [j \in J |-> GfMul(x[j], U[j][r])]
  <2>1. ASSUME NEW j \in J
        PROVE  f[j] = (IF j = r THEN x[r] ELSE 0) /\ f[j] \in Elements
    <3> DEFINE a == x[j]
    <3>1. a \in Elements
      BY <1>3
    <3>2. U[j][r] = IF j = r THEN 1 ELSE 0
      BY DEF Unit
    <3> HIDE DEF a
    <3>3. GfMul(a, 1) = a /\ GfMul(a, 0) = 0 /\ 0 \in Elements
      BY <3>1, MulType, XorGroup
    <3>4. f[j] = GfMul(a, U[j][r])
      BY DEF a
    <3> QED
      BY <3>1, <3>2, <3>3, <3>4 DEF a
  <2>2. f \in [J -> Elements]
    <3>1. f = [j \in J |-> f[j]]
      OBVIOUS
    <3> HIDE DEF f
    <3> QED
      BY <2>1, <3>1
  <2>3. Combination(J, x, U, n)[r] = GfSum(f)
    <3> HIDE DEF U
    <3> QED
      BY DEF Combination
  <2> HIDE DEF f
  <2>4. CASE r \in J
    <3>1. GfSum(f) = f[r]
      BY <1>2, <2>1, <2>2, <2>4, GfSumOfZeros
    <3> QED
      BY <1>2, <2>1, <2>3, <2>4, <3>1
  <2>5. CASE r \notin J
    <3>1. GfSum(f) = 0
      BY <1>2, <2>1, <2>2, <2>5, GfSumOfZeros
    <3> QED
      BY <1>2, <2>3, <2>5, <3>1
  <2> QED
    BY <2>4, <2>5
<1> HIDE DEF w, R, U
<1> QED
  BY <1>6, <1>7, <1>8, <1>9 DEF w, J

\* A column that the record makes a column of the identity of is no combination of those before.
LEMMA SolvedDiffers ==
  ASSUME NEW n, NEW sc, NEW fa, NEW order, NEW c, NEW m, NEW V, NEW x,
         Passed(V, sc, fa, order, c, m, n), x \in Vectors(c - 1),
         ReplayOf(Reordered(V[c], order, n), sc, fa, n)[m] = Unit(c, n)
  PROVE  V[c] # Combination(1 .. c - 1, x, V, n)
<1> DEFINE w == Combination(1 .. c - 1, x, V, n)
           t == ReplayOf(Reordered(w, order, n), sc, fa, n)[m]
<1>1. c \in 1 .. n /\ ~(c < c)
  BY DEF Passed
<1>2. \A r \in 1 .. n : t[r] = IF r < c THEN x[r] ELSE 0
  BY PassedColumns
<1>3. Unit(c, n)[c] = 1
  BY <1>1 DEF Unit
<1> HIDE DEF w, t
<1>4. t # Unit(c, n)
  BY <1>1, <1>2, <1>3
<1> QED
  BY <1>4 DEF w, t

\* A column that has no pivot left is a combination of those before.
LEMMA StuckDepends ==
  ASSUME NEW n, NEW sc, NEW fa, NEW order, NEW c, NEW m, NEW V,
         Passed(V, sc, fa, order, c, m, n),
         \A r \in c .. n : ReplayOf(Reordered(V[c], order, n), sc, fa, n)[m][r] = 0
  PROVE  \E x \in Vectors(c - 1) : V[c] = Combination(1 .. c - 1, x, V, n)
<1> DEFINE b == Reordered(V[c], order, n)
           u == ReplayOf(b, sc, fa, n)[m]
           x == [r \in 1 .. c - 1 |-> u[r]]
           w == Combination(1 .. c - 1, x, V, n)
           d == Reordered(w, order, n)
           t == ReplayOf(d, sc, fa, n)[m]
<1>1. /\ IsRecord(sc, fa, n) /\ order \in Orderings(n) /\ V \in Matrices(n)
      /\ c \in 1 .. n /\ m \in 0 .. n /\ n \in Nat
  BY DEF Passed, IsRecord
<1>2. V[c] \in Vectors(n)
  BY <1>1 DEF Matrices
<1>3. b \in Vectors(n)
  BY <1>1, <1>2, ReorderedType
<1>4. u \in Vectors(n)
  <2> HIDE DEF b
  <2> QED
    BY <1>1, <1>3, ReplaySteps
<1>5. \A r \in 1 .. n : r \in c .. n \/ r \in 1 .. c - 1
  BY <1>1
<1>6. \A r \in c .. n : u[r] = 0
  OBVIOUS
<1> HIDE DEF u
<1>7. x \in Vectors(c - 1)
  <2>1. \A r \in 1 .. c - 1 : r \in 1 .. n
    BY <1>1
  <2>2. \A r \in 1 .. n : u[r] \in Elements
    BY <1>4 DEF Vectors
  <2> QED
    BY <2>1, <2>2 DEF Vectors
<1>8. \A r \in 1 .. c - 1 : x[r] = u[r] /\ r < c
  BY <1>1
<1>9. \A r \in c .. n : ~(r < c)
  BY <1>1
<1> HIDE DEF x
<1>10. w \in Vectors(n) /\ \A r \in 1 .. n : t[r] = IF r < c THEN x[r] ELSE 0
  BY <1>7, PassedColumns
<1> HIDE DEF w, b
<1>11. d \in Vectors(n)
  BY <1>1, <1>10, ReorderedType
<1> HIDE DEF d
<1>12. t \in Vectors(n)
  BY <1>1, <1>11, ReplaySteps
<1> HIDE DEF t
<1>13. t = u
  <2>1. ASSUME NEW r \in 1 .. n PROVE t[r] = u[r]
    BY <1>5, <1>6, <1>8, <1>9, <1>10
  <2> QED
    BY <1>4, <1>12, <2>1, VectorsSame
<1>14. b = d
  BY <1>1, <1>3, <1>11, <1>13, ReplayInjective DEF t, u
<1>15. V[c] = w
  BY <1>1, <1>2, <1>10, <1>14, ReorderedType DEF b, d
<1> QED
  BY <1>7, <1>15 DEF w

\* The columns of the lost blocks, together.
LostColumns == [j \in Rows |-> OriginalColumn(j)]

\* Their dependence, said of their values.
LEMMA DependentIs ==
  ASSUME Losses \in Nat
  PROVE  Dependent <=> \E j \in Rows : \E x \in Vectors(j - 1) :
                         LostColumns[j] = Combination(1 .. j - 1, x, LostColumns, Losses)
<1> DEFINE Given(j, x) ==
             OriginalColumn(j) =
               [i \in Rows |-> GfSum([c \in 1 .. j - 1 |-> GfMul(x[c], OriginalColumn(c)[i])])]
           Said(j, x) == LostColumns[j] = Combination(1 .. j - 1, x, LostColumns, Losses)
<1>1. ASSUME NEW j \in Rows, NEW x PROVE Given(j, x) <=> Said(j, x)
  <2>1. \A c \in 1 .. j - 1 : LostColumns[c] = OriginalColumn(c)
    BY DEF LostColumns, Rows
  <2>2. \A i \in Rows : [c \in 1 .. j - 1 |-> GfMul(x[c], LostColumns[c][i])]
                         = [c \in 1 .. j - 1 |-> GfMul(x[c], OriginalColumn(c)[i])]
    BY <2>1
  <2>3. Rows = 1 .. Losses
    BY DEF Rows
  <2>4. Combination(1 .. j - 1, x, LostColumns, Losses)
          = [i \in Rows |-> GfSum([c \in 1 .. j - 1 |-> GfMul(x[c], OriginalColumn(c)[i])])]
    BY <2>2, <2>3 DEF Combination
  <2>5. LostColumns[j] = OriginalColumn(j)
    BY DEF LostColumns
  <2> QED
    BY <2>4, <2>5
<1>2. Dependent <=> \E j \in Rows : \E x \in Vectors(j - 1) : Given(j, x)
  BY DEF Dependent, Vectors
<1> HIDE DEF Given, Said
<1>3. Dependent <=> \E j \in Rows : \E x \in Vectors(j - 1) : Said(j, x)
  BY <1>1, <1>2
<1> QED
  BY <1>3 DEF Said

\* Where the elimination gave up.
StuckInv == pc = "singular" => Dependent

\* Of what was eliminated the record makes the identity, so the elimination is stuck exactly on a
\* column that depends on those before it.
LEMMA SingularStep ==
  ASSUME CodecInv, StuckInv, [Next]_vars PROVE StuckInv'
<1> SUFFICES ASSUME pc' = "singular" PROVE Dependent'
  BY DEF StuckInv
<1>1. LossInv /\ RecordInv /\ RecordReplaysElimination
  BY DEF CodecInv
<1>2. CASE Singular
  <2> DEFINE n == Losses
             V == LostColumns
             m == k - 1
  <2>1. pc = "eliminate" /\ k <= Losses /\ Pivots = {} /\ UNCHANGED <<missing, exponents>>
    BY <1>2 DEF Singular
  <2>2. /\ n \in Nat /\ Rows = 1 .. n /\ k \in 1 .. n /\ m \in 0 .. n
        /\ IsRecord(scale, factors, n) /\ rowOrder \in Orderings(n) /\ matrix \in Matrices(n)
        /\ n <= Len(exponents)
    <3>1. pc \notin Early
      BY <2>1 DEF Early
    <3>2. n \in Nat /\ Rows = 1 .. n /\ Len(exponents) >= n /\ Len(exponents) \in Nat
      BY <1>1, <3>1, LossNumbers DEF LossInv
    <3>3. /\ IsRecord(scale, factors, n) /\ rowOrder \in Orderings(n) /\ k \in 1 .. n + 1
          /\ matrix \in Matrices(n)
      BY <1>1, <3>1, RecordInvIs
    <3> QED
      BY <2>1, <3>2, <3>3
  <2>3. \A j \in Rows : Replays(matrix, scale, factors, rowOrder, k, j, OriginalColumn(j), n)
    BY <1>1, <2>1, ReplaysIs
  <2>4. \A j \in Rows : V[j] = OriginalColumn(j) /\ V[j] \in Vectors(n)
    BY <1>1, <2>2, LossNumbers DEF LostColumns
  <2>5. V \in Matrices(n)
    BY <2>2, <2>4 DEF LostColumns, Matrices
  <2>6. ASSUME NEW j \in 1 .. n
        PROVE  /\ ReplayOf(Reordered(V[j], rowOrder, n), scale, factors, n)[m]
                    = Column(matrix, j, n)
               /\ j < k => Column(matrix, j, n) = Unit(j, n)
    BY <2>2, <2>3, <2>4 DEF Replays
  <2>7. Passed(V, scale, factors, rowOrder, k, m, n)
    <3>1. \A j \in 1 .. k - 1 : j \in 1 .. n /\ j < k
      BY <2>2
    <3> HIDE DEF V, m
    <3> QED
      BY <2>2, <2>5, <2>6, <3>1 DEF Passed
  <2>8. \A r \in k .. n : ReplayOf(Reordered(V[k], rowOrder, n), scale, factors, n)[m][r] = 0
    <3>1. \A r \in k .. n : r \in 1 .. n /\ matrix[r][k] = 0
      BY <2>1, <2>2 DEF Pivots
    <3>2. \A r \in k .. n : Column(matrix, k, n)[r] = 0
      BY <3>1 DEF Column
    <3> QED
      BY <2>2, <2>6, <3>2
  <2> HIDE DEF V, m
  <2>9. \E x \in Vectors(k - 1) : V[k] = Combination(1 .. k - 1, x, V, n)
    BY <2>7, <2>8, StuckDepends
  <2>10. Dependent
    BY <2>2, <2>9, DependentIs DEF V
  <2>11. Dependent' = Dependent
    BY <2>1 DEF Dependent, OriginalColumn, Vandermonde, Rows, Losses
  <2> QED
    BY <2>10, <2>11
<1>3. CASE UNCHANGED vars
  <2>1. UNCHANGED <<pc, missing, exponents>>
    BY <1>3 DEF vars
  <2>2. Dependent' = Dependent
    BY <2>1 DEF Dependent, OriginalColumn, Vandermonde, Rows, Losses
  <2> QED
    BY <2>1, <2>2 DEF StuckInv
<1>4. pc' # "singular" \/ Singular \/ UNCHANGED vars
  <2>1. CASE Encode \/ LoseBlocks \/ RejectInput \/ BuildMatrix
    BY <2>1 DEF Encode, ProcessBlock, Finalize, LoseBlocks, RejectInput, BuildMatrix
  <2>2. CASE Eliminate \/ LoadRecovery \/ Accumulate \/ Replay \/ ChunkFails
    BY <2>2 DEF Eliminate, LoadRecovery, Accumulate, Replay, ChunkFails
  <2>3. CASE WriteBlock
    BY <2>3 DEF WriteBlock
  <2> QED
    BY <2>1, <2>2, <2>3 DEF Next, Decode, Finished
<1> QED
  BY <1>2, <1>3, <1>4

\* What is replayed to the end has independent columns.
LEMMA SolvedIndependent ==
  ASSUME CodecInv, pc \in {"replay", "done"} PROVE ~Dependent
<1> DEFINE n == Losses
           V == LostColumns
<1>1. LossInv /\ RecordInv /\ SolvedInv /\ pc \notin Early
  BY DEF CodecInv, Early
<1>2. /\ n \in Nat /\ Rows = 1 .. n /\ IsRecord(scale, factors, n) /\ rowOrder \in Orderings(n)
      /\ n <= Len(exponents)
  <2>1. n \in Nat /\ Rows = 1 .. n /\ Len(exponents) >= n /\ Len(exponents) \in Nat
    BY <1>1, LossNumbers DEF LossInv
  <2>2. IsRecord(scale, factors, n) /\ rowOrder \in Orderings(n)
    BY <1>1, RecordInvIs
  <2> QED
    BY <2>1, <2>2
<1>3. \A j \in Rows : V[j] = OriginalColumn(j) /\ V[j] \in Vectors(n)
  BY <1>1, <1>2, LossNumbers DEF LostColumns
<1>4. V \in Matrices(n)
  BY <1>2, <1>3 DEF LostColumns, Matrices
<1>5. \A j \in 1 .. n : ReplayOf(Reordered(V[j], rowOrder, n), scale, factors, n)[n] = Unit(j, n)
  <2>1. ASSUME NEW j \in 1 .. n
        PROVE  ReplayOf(Reordered(V[j], rowOrder, n), scale, factors, n)[n] = Unit(j, n)
    <3>1. Replayed(Moved(j))[n] = Unit(j, n)
      BY <1>1, <1>2 DEF SolvedInv
    <3>2. Moved(j) = Reordered(V[j], rowOrder, n)
      BY <1>2, <1>3 DEF Moved, Reordered
    <3> QED
      BY <3>1, <3>2, ReplaysIs
  <2> QED
    BY <2>1
<1> HIDE DEF V
<1>6. ASSUME NEW j \in Rows, NEW x \in Vectors(j - 1)
      PROVE  V[j] # Combination(1 .. j - 1, x, V, n)
  <2>1. \A i \in 1 .. j - 1 : i \in 1 .. n
    BY <1>2
  <2>2. Passed(V, scale, factors, rowOrder, j, n, n)
    BY <1>2, <1>4, <1>5, <2>1 DEF Passed
  <2> QED
    BY <1>2, <1>5, <2>2, SolvedDiffers
<1> QED
  BY <1>2, <1>6, DependentIs DEF V

-----------------------------------------------------------------------------
(***************************************************************************)
(* The theorems                                                            *)
(***************************************************************************)

\* It all holds at the start and is kept by every step.
LEMMA CodecAlways == Spec => []CodecInv
<1>1. Init => CodecInv
  <2> SUFFICES ASSUME Init PROVE CodecInv
    OBVIOUS
  <2>1. EncoderInv /\ LossInv /\ RecordInv /\ OutputInv
    BY EncoderInit, LossInit
  <2>2. pc = "encode" /\ output = <<>>
    BY DEF Init
  <2>3. RecordReplaysElimination /\ SolvedInv /\ SumInv
    BY <2>2 DEF RecordReplaysElimination, SolvedInv, SumInv
  <2>4. UnmovedRestores
    <3>1. DOMAIN output = {}
      BY <2>2
    <3> QED
      BY <3>1 DEF UnmovedRestores, Restored
  <2> QED
    BY <2>1, <2>3, <2>4 DEF CodecInv
<1>2. CodecInv /\ [Next]_vars => CodecInv'
  <2> SUFFICES ASSUME CodecInv, [Next]_vars PROVE CodecInv'
    OBVIOUS
  <2>1. /\ EncoderInv /\ LossInv /\ RecordInv /\ OutputInv
        /\ RecordReplaysElimination /\ SolvedInv /\ SumInv /\ UnmovedRestores
    BY DEF CodecInv
  <2>2. EncoderInv' /\ LossInv' /\ RecordInv' /\ OutputInv'
    BY <2>1, EncoderStep, LossStep, RecordStep, OutputStep
  <2>3. RecordReplaysElimination' /\ SolvedInv'
    BY <2>1, ReplaysStep, SolvedStep
  <2>4. SumInv' /\ UnmovedRestores'
    BY <2>1, SumStep, RestoresStep
  <2> QED
    BY <2>2, <2>3, <2>4 DEF CodecInv
<1> QED
  BY <1>1, <1>2, PTL DEF Spec

\* Types, whatever the field and the number of blocks: the encoder never has a full batch
\* waiting (src/par2_rs.rs, process_block), and the elimination keeps a permutation of the rows.
THEOREM CodecTypes == Spec => []TypeOK
<1>1. CodecInv => TypeOK
  <2> SUFFICES ASSUME CodecInv PROVE TypeOK
    OBVIOUS
  <2>1. EncoderInv /\ LossInv /\ RecordInv /\ OutputInv
    BY DEF CodecInv
  <2>2. pc \in {"encode", "stored", "prepare", "rejected", "eliminate", "singular", "replay",
                "done", "failed"}
    BY <2>1 DEF LossInv, Early, Reducing, After
  <2>3. data \in Samples /\ fed \in 0 .. DataBlocks
        /\ batch \in Seq([block : Blocks, word : Elements]) /\ Len(batch) < DataBatch
        /\ recovery \in [Exponents -> Elements]
    BY <2>1 DEF EncoderInv
  <2>4. missing \in Seq(Blocks) /\ exponents \in Seq(Exponents)
    BY <2>1 DEF LossInv
  <2>5. /\ IsMatrix(matrix) /\ IsMatrix(factors) /\ IsVector(scale)
        /\ rowOrder = <<>> \/ rowOrder \in Bijection(Rows, Rows)
        /\ k \in 1 .. Losses + 1
    <3>1. CASE pc \in Early
      <4>1. Losses \in Nat
        BY <2>1, LossNumbers
      <4> QED
        BY <2>1, <3>1, <4>1 DEF LossInv, IsMatrix, IsVector
    <3>2. CASE pc \notin Early
      <4>1. /\ matrix \in [Rows -> [Rows -> Elements]] /\ IsRecord(scale, factors, Losses)
            /\ rowOrder \in Bijection(Rows, Rows) /\ k \in 1 .. Losses + 1
        BY <2>1, <3>2 DEF RecordInv
      <4>2. scale \in [Rows -> Elements] /\ factors \in [Rows -> [Rows -> Elements]]
        BY <4>1 DEF IsRecord, Vectors, Rows
      <4> QED
        BY <4>1, <4>2 DEF IsMatrix, IsVector
    <3> QED
      BY <3>1, <3>2
  <2>6. IsVector(acc) /\ used \in 0 .. DataBlocks /\ output \in Seq(Elements)
    BY <2>1 DEF OutputInv
  <2> QED
    BY <2>2, <2>3, <2>4, <2>5, <2>6 DEF TypeOK
<1> QED
  BY <1>1, CodecAlways, PTL

\* gf_mul over the tables of init_tables is the product of the field, for every field the
\* tables can be built for (src/galois/core.rs).
THEOREM TablesAlwaysMultiply == Spec => []TablesMultiply
<1>1. TablesMultiply
  BY ProductsAreShifts DEF TablesMultiply
<1> QED
  BY <1>1, PTL

\* What finalize leaves is, for every exponent, the sum of all data blocks weighted by the
\* powers that gf_pow gives, whatever the size of a batch (src/par2_rs.rs, flush_batch).
THEOREM RecoveryIsAlwaysWeightedSum == Spec => []RecoveryIsWeightedSum
<1>1. CodecInv => RecoveryIsWeightedSum
  <2> SUFFICES ASSUME CodecInv, pc # "encode", NEW e \in Exponents
               PROVE  recovery[e] = GfSum([d \in Blocks |-> GfMul(data[d], GfPow(Constants[d], e))])
    BY DEF RecoveryIsWeightedSum
  <2>1. fed = DataBlocks /\ batch = <<>> /\ recovery[e] = SumUpTo(data, e, fed - Len(batch))
    BY DEF CodecInv, EncoderInv
  <2>2. fed - Len(batch) = DataBlocks /\ Blocks = 1 .. DataBlocks
    <3>1. Len(<<>>) = 0 /\ DataBlocks \in Nat /\ Blocks = 1 .. DataBlocks
      BY CodecNumbers
    <3> QED
      BY <2>1, <3>1
  <2>3. [d \in 1 .. DataBlocks |-> TermsOf(data, e)[d]]
          = [d \in Blocks |-> GfMul(data[d], GfPow(Constants[d], e))]
    BY <2>2 DEF TermsOf
  <2> QED
    BY <2>1, <2>2, <2>3 DEF SumUpTo
<1> QED
  BY <1>1, CodecAlways, PTL

\* The record of the elimination, replayed on a column of the original matrix with its rows in
\* row_order, gives the column as it is now (src/par2_rs.rs, compute_reconstruction_transform).
THEOREM RecordAlwaysReplays == Spec => []RecordReplaysElimination
<1>1. CodecInv => RecordReplaysElimination
  BY DEF CodecInv
<1> QED
  BY <1>1, CodecAlways, PTL

\* Without an exchange of rows, whatever reconstruct_streaming_chunk hands to write_result is
\* the block that was lost, for any loss and any batch size (src/par2_rs.rs).
THEOREM UnmovedAlwaysRestores == Spec => []UnmovedRestores
<1>1. CodecInv => UnmovedRestores
  BY DEF CodecInv
<1> QED
  BY <1>1, CodecAlways, PTL

\* Recovery blocks with consecutive exponents restore without an exchange of rows any blocks
\* whose constants differ (src/par2_rs.rs, compute_reconstruction_transform): the columns of
\* consecutive powers of c different elements are independent, since a polynomial of degree
\* c - 1 has fewer than c roots.
THEOREM DistinctAlwaysSolved == Spec => [](LostDiffer => ConsecutiveIsSolved)
<1>1. Init => (LostDiffer => ConsecutiveIsSolved)
  BY DEF Init, ConsecutiveIsSolved, Unmoved
<1>2. /\ CodecInv /\ (LostDiffer => ConsecutiveIsSolved) /\ [Next]_vars
      => (LostDiffer => ConsecutiveIsSolved)'
  BY ConsecutiveStep DEF CodecInv
<1> QED
  BY <1>1, <1>2, CodecAlways, PTL DEF Spec

\* Where the constants of all data blocks differ, consecutive exponents restore any blocks
\* without an exchange of rows (src/par2_rs.rs, compute_reconstruction_transform).
THEOREM ConsecutiveAlwaysSolved ==
  ASSUME EnoughConstants PROVE Spec => []ConsecutiveIsSolved
<1>1. CodecInv => LostDiffer
  <2> SUFFICES ASSUME CodecInv, NEW i \in Rows, NEW j \in Rows,
                      Constants[missing[i]] = Constants[missing[j]]
               PROVE  missing[i] = missing[j]
    BY DEF LostDiffer
  <2>1. missing \in Seq(Blocks) /\ Rows = 1 .. Len(missing)
    BY DEF CodecInv, LossInv, Rows, Losses
  <2>2. missing[i] \in 1 .. DataBlocks /\ missing[j] \in 1 .. DataBlocks /\ DataBlocks \in Nat
    BY <2>1, CodecNumbers DEF Blocks
  <2> QED
    BY <2>2, ConstantsDiffer DEF EnoughConstants, Constants
<1> QED
  BY <1>1, CodecAlways, DistinctAlwaysSolved, PTL

\* The elimination gives up only on matrices that have no inverse, and comes through only on those
\* that have one, for every field, loss and choice of recovery blocks (src/par2_rs.rs,
\* compute_reconstruction_transform).
THEOREM SingularAlwaysGenuine == Spec => []SingularIsGenuine
<1>1. Init => StuckInv
  BY DEF Init, StuckInv
<1>2. CodecInv /\ StuckInv /\ [Next]_vars => StuckInv'
  BY SingularStep
<1>3. CodecInv /\ StuckInv => SingularIsGenuine
  BY SolvedIndependent DEF StuckInv, SingularIsGenuine
<1> QED
  BY <1>1, <1>2, <1>3, CodecAlways, PTL DEF Spec
=============================================================================
