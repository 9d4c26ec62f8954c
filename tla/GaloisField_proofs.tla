------------------------ MODULE GaloisField_proofs ------------------------
(***************************************************************************)
(* The laws of the field that GaloisField builds from its tables: addition *)
(* by exclusive or, multiplication by logarithms.  They hold for every     *)
(* width and every polynomial whose powers of the generator are all the    *)
(* elements but 0 (FieldAssumption).                                       *)
(***************************************************************************)
EXTENDS GaloisField, Basics_proofs

-----------------------------------------------------------------------------
(***************************************************************************)
(* Quotients and remainders                                                *)
(***************************************************************************)

\* A quotient and a remainder are what their equation says.
LEMMA DivisionIsUnique ==
  ASSUME NEW m \in Nat \ {0}, NEW q \in Nat, NEW r \in 0 .. m - 1, NEW n \in Nat, n = m * q + r
  PROVE  n % m = r /\ n \div m = q
<1> DEFINE p == n \div m
           s == n % m
<1>1. p \in Nat /\ s \in 0 .. m - 1 /\ n = m * p + s
  OBVIOUS
<1> HIDE DEF p, s
<1>2. m * (p - q) = r - s
  BY <1>1
<1>3. ~ p > q
  <2> SUFFICES ASSUME p - q >= 1 PROVE FALSE
    BY <1>1
  <2>1. m * (p - q) >= m
    BY <1>1
  <2> QED
    BY <1>1, <1>2, <2>1
<1>4. ~ q > p
  <2> SUFFICES ASSUME q - p >= 1 PROVE FALSE
    BY <1>1
  <2>1. m * (q - p) >= m
    BY <1>1
  <2> QED
    BY <1>1, <1>2, <2>1
<1>5. p = q
  BY <1>1, <1>3, <1>4
<1>6. s = r
  BY <1>1, <1>2, <1>5
<1> QED
  BY <1>5, <1>6 DEF p, s

\* The remainder of a number below twice the divisor.
LEMMA ModOnce ==
  ASSUME NEW m \in Nat \ {0}, NEW n \in 0 .. 2 * m - 1
  PROVE  n % m = IF n < m THEN n ELSE n - m
<1>1. CASE n < m
  BY <1>1, DivisionIsUnique, n = m * 0 + n
<1>2. CASE n >= m
  BY <1>2, DivisionIsUnique, n = m * 1 + (n - m)
<1> QED
  BY <1>1, <1>2

\* A remainder may be taken of one of two terms beforehand.
LEMMA ModOfSum ==
  ASSUME NEW m \in Nat \ {0}, NEW x \in Nat, NEW y \in Nat
  PROVE  ((x % m) + y) % m = (x + y) % m
<1> DEFINE q == x \div m
           r == x % m
           p == (r + y) \div m
           s == (r + y) % m
<1>1. q \in Nat /\ r \in 0 .. m - 1 /\ x = m * q + r
  OBVIOUS
<1> HIDE DEF q, r
<1>2. p \in Nat /\ s \in 0 .. m - 1 /\ r + y = m * p + s
  BY <1>1
<1> HIDE DEF p, s
<1> DEFINE n == x + y
           u == q + p
<1>3. n = m * u + s /\ u \in Nat /\ n \in Nat
  BY <1>1, <1>2
<1>4. n % m = s
  <2> HIDE DEF n, u
  <2> QED
    BY <1>2, <1>3, DivisionIsUnique
<1> QED
  BY <1>4 DEF s, r

\* Powers of two.
LEMMA Pow2Type ==
  /\ Pow2[0] = 1
  /\ \A n \in Nat : Pow2[n] \in Nat \ {0} /\ Pow2[n + 1] = 2 * Pow2[n]
<1> DEFINE step == [pair \in Nat \X Nat |-> 2 * pair[2]]
<1>1. PICK g : FromNumbers(g, Nat, 1, step)
  <2>1. step \in [Nat \X Nat -> Nat]
    OBVIOUS
  <2> HIDE DEF step
  <2> QED
    BY <2>1, NatRecursion
<1>2. g \in [Nat -> Nat] /\ g[0] = 1 /\ \A n \in Nat : g[n + 1] = 2 * g[n]
  BY <1>1 DEF FromNumbers
<1>3. g = [n \in Nat |-> IF n = 0 THEN 1 ELSE 2 * g[n - 1]]
  <2>1. ASSUME NEW n \in Nat, n # 0 PROVE g[n] = 2 * g[n - 1]
    <3>1. n - 1 \in Nat /\ (n - 1) + 1 = n
      BY <2>1
    <3> QED
      BY <3>1, <1>2
  <2> QED
    BY <1>2, <2>1
<1>4. Pow2 = [n \in Nat |-> IF n = 0 THEN 1 ELSE 2 * Pow2[n - 1]]
  BY <1>3 DEF Pow2
<1>5. Pow2[0] = 1
  BY <1>4
<1>6. ASSUME NEW n \in Nat PROVE Pow2[n + 1] = 2 * Pow2[n]
  <2>1. n + 1 \in Nat /\ n + 1 # 0 /\ (n + 1) - 1 = n
    OBVIOUS
  <2> QED
    BY <2>1, <1>4
<1> DEFINE S == {n \in Nat : Pow2[n] \in Nat \ {0}}
<1>7. Nat \subseteq S
  <2>1. 0 \in S /\ \A n \in Nat : n \in S => n + 1 \in S
    BY <1>5, <1>6
  <2> HIDE DEF S
  <2> QED
    BY <2>1, SetInduction
<1> QED
  BY <1>5, <1>6, <1>7

\* They grow.
LEMMA Pow2Grows ==
  \A n \in Nat : \A m \in 0 .. n : Pow2[m] <= Pow2[n]
<1> DEFINE S == {n \in Nat : \A m \in 0 .. n : Pow2[m] <= Pow2[n]}
<1>1. 0 \in S
  BY Pow2Type
<1>2. ASSUME NEW n \in Nat, n \in S PROVE n + 1 \in S
  <2>1. ASSUME NEW m \in 0 .. n + 1 PROVE Pow2[m] <= Pow2[n + 1]
    <3>1. CASE m = n + 1
      BY <3>1, Pow2Type
    <3>2. CASE m \in 0 .. n
      <4>1. Pow2[m] <= Pow2[n] /\ m \in Nat
        BY <1>2, <3>2
      <4> QED
        BY <4>1, Pow2Type
    <3> QED
      BY <3>1, <3>2
  <2> QED
    BY <2>1
<1>3. Nat \subseteq S
  <2> HIDE DEF S
  <2> QED
    BY <1>1, <1>2, SetInduction
<1> QED
  BY <1>3
-----------------------------------------------------------------------------
(***************************************************************************)
(* Addition                                                                *)
(***************************************************************************)

\* The elements are the numbers of Width bits.
LEMMA FieldNumbers ==
  /\ GfSize = Pow2[Width] /\ GfSize \in Nat /\ GfSize >= 4
  /\ GroupOrder = GfSize - 1 /\ Elements = 0 .. GfSize - 1
  /\ Width - 1 \in Nat \ {0} /\ GfSize = 2 * Pow2[Width - 1]
  /\ \A a \in Elements : a \div 2 \in Elements
<1>1. Width \in Nat \ {0, 1}
  BY FieldAssumption
<1>2. /\ Width - 1 \in Nat /\ Width - 2 \in Nat
      /\ (Width - 1) + 1 = Width /\ (Width - 2) + 1 = Width - 1
  BY <1>1
<1>3. Pow2[Width] = 2 * Pow2[Width - 1] /\ Pow2[Width - 1] = 2 * Pow2[Width - 2]
  BY <1>2, Pow2Type
<1>4. Pow2[Width - 2] \in Nat \ {0}
  BY <1>2, Pow2Type
<1>5. GfSize = Pow2[Width] /\ GfSize \in Nat /\ GfSize >= 4
  BY <1>3, <1>4 DEF GfSize
<1>6. GroupOrder = GfSize - 1 /\ Elements = 0 .. GfSize - 1
  BY <1>5 DEF GroupOrder, Elements
<1>7. \A a \in Elements : a \div 2 \in Elements
  BY <1>5, <1>6
<1> QED
  BY <1>1, <1>2, <1>3, <1>5, <1>6, <1>7 DEF GfSize

\* The exclusive or of the lowest bits, for each number of them.
IsXor(xor) ==
  xor = [bits \in Nat |-> [a \in Elements |-> [b \in Elements |->
           IF bits = 0 THEN 0 ELSE ((a + b) % 2) + 2 * xor[bits - 1][a \div 2][b \div 2]]]]

Xor == CHOOSE xor : IsXor(xor)

\* The recursion defines it: no bits give 0, and a bit more is the sum of the lowest bits and
\* the exclusive or of the others.
LEMMA XorSteps ==
  /\ \A a, b \in Elements : Xor[0][a][b] = 0
  /\ \A n \in Nat : \A a, b \in Elements :
       /\ Xor[n][a][b] \in Nat
       /\ Xor[n + 1][a][b] = ((a + b) % 2) + 2 * Xor[n][a \div 2][b \div 2]
  /\ \A a, b \in Elements : a ^^ b = Xor[Width][a][b]
<1> DEFINE V == [Elements -> [Elements -> Nat]]
           Longer(x) == [a \in Elements |-> [b \in Elements |->
                           ((a + b) % 2) + 2 * x[a \div 2][b \div 2]]]
           zero == [a \in Elements |-> [b \in Elements |-> 0]]
           step == [pair \in Nat \X V |-> Longer(pair[2])]
<1>1. Elements \subseteq Nat /\ \A a \in Elements : a \div 2 \in Elements
  BY FieldNumbers
<1>2. ASSUME NEW x \in V PROVE Longer(x) \in V
  <2>1. ASSUME NEW a \in Elements, NEW b \in Elements
        PROVE  ((a + b) % 2) + 2 * x[a \div 2][b \div 2] \in Nat
    <3>1. x[a \div 2][b \div 2] \in Nat /\ a \in Nat /\ b \in Nat
      BY <1>1
    <3> QED
      BY <3>1
  <2> QED
    BY <2>1
<1>3. zero \in V
  OBVIOUS
<1>4. step \in [Nat \X V -> V]
  BY <1>2
<1>5. PICK g : FromNumbers(g, V, zero, step)
  <2> HIDE DEF V, step, zero
  <2> QED
    BY <1>3, <1>4, NatRecursion
<1>6. g \in [Nat -> V] /\ g[0] = zero /\ \A n \in Nat : g[n + 1] = Longer(g[n])
  <2>1. g \in [Nat -> V] /\ g[0] = zero /\ \A n \in Nat : g[n + 1] = step[<<n, g[n]>>]
    <3> HIDE DEF V, zero, step
    <3> QED
      BY <1>5 DEF FromNumbers
  <2>2. ASSUME NEW n \in Nat PROVE step[<<n, g[n]>>] = Longer(g[n])
    <3>1. g[n] \in V
      BY <2>1
    <3> HIDE DEF V, Longer
    <3> QED
      BY <3>1
  <2> HIDE DEF V, Longer, zero, step
  <2> QED
    BY <2>1, <2>2
<1>7. IsXor(g)
  <2> DEFINE Body(n) == [a \in Elements |-> [b \in Elements |->
                IF n = 0 THEN 0 ELSE ((a + b) % 2) + 2 * g[n - 1][a \div 2][b \div 2]]]
  <2>1. g[0] = Body(0)
    BY <1>6
  <2>2. ASSUME NEW n \in Nat, n # 0 PROVE g[n] = Body(n)
    <3>1. n - 1 \in Nat /\ (n - 1) + 1 = n
      BY <2>2
    <3>2. g[n] = Longer(g[n - 1])
      BY <3>1, <1>6
    <3> QED
      BY <2>2, <3>2
  <2>3. g = [n \in Nat |-> Body(n)]
    <3> HIDE DEF Body, V
    <3> QED
      BY <1>6, <2>1, <2>2
  <2> QED
    BY <2>3 DEF IsXor
<1>8. IsXor(Xor)
  BY <1>7 DEF Xor
<1>9. \A a, b \in Elements : Xor[0][a][b] = 0
  BY <1>8 DEF IsXor
<1>10. ASSUME NEW n \in Nat, NEW a \in Elements, NEW b \in Elements
       PROVE  Xor[n + 1][a][b] = ((a + b) % 2) + 2 * Xor[n][a \div 2][b \div 2]
  <2> DEFINE m == n + 1
  <2>1. m \in Nat /\ m # 0 /\ m - 1 = n
    OBVIOUS
  <2> HIDE DEF m
  <2>2. Xor[m] = [c \in Elements |-> [d \in Elements |->
           IF m = 0 THEN 0 ELSE ((c + d) % 2) + 2 * Xor[m - 1][c \div 2][d \div 2]]]
    BY <2>1, <1>8 DEF IsXor
  <2>3. Xor[m][a][b] = ((a + b) % 2) + 2 * Xor[n][a \div 2][b \div 2]
    BY <2>1, <2>2
  <2> QED
    BY <2>3 DEF m
<1> DEFINE S == {n \in Nat : \A a, b \in Elements : Xor[n][a][b] \in Nat}
<1>11. Nat \subseteq S
  <2>1. 0 \in S
    BY <1>9
  <2>2. ASSUME NEW n \in Nat, n \in S PROVE n + 1 \in S
    <3>1. ASSUME NEW a \in Elements, NEW b \in Elements PROVE Xor[n + 1][a][b] \in Nat
      <4>1. Xor[n][a \div 2][b \div 2] \in Nat /\ a \in Nat /\ b \in Nat
        BY <1>1, <2>2
      <4> QED
        BY <4>1, <1>10
    <3> QED
      BY <3>1
  <2> HIDE DEF S
  <2> QED
    BY <2>1, <2>2, SetInduction
<1>12. XorTable = Xor[Width]
  BY DEF XorTable, Xor, IsXor
<1> QED
  BY <1>9, <1>10, <1>11, <1>12 DEF ^^

\* A number is its lowest bit and twice its half.
LEMMA Halves ==
  ASSUME NEW a \in Nat
  PROVE  /\ a % 2 \in {0, 1} /\ a \div 2 \in Nat /\ a = (a % 2) + 2 * (a \div 2)
         /\ \A p \in Nat : a < 2 * p => a \div 2 < p
OBVIOUS

\* The exclusive or of n bits has n bits, does not depend on the order, and adds what is not
\* there to nothing.
LEMMA XorBits ==
  \A n \in Nat : \A a, b \in Elements :
    /\ Xor[n][a][b] < Pow2[n]
    /\ Xor[n][a][b] = Xor[n][b][a]
    /\ Xor[n][a][a] = 0
    /\ a < Pow2[n] => Xor[n][a][0] = a
<1>1. /\ Elements \subseteq Nat /\ 0 \in Elements
      /\ \A a \in Elements : a \div 2 \in Elements
  BY FieldNumbers
<1> DEFINE Good(n, a, b) == /\ Xor[n][a][b] < Pow2[n]
                            /\ Xor[n][a][b] = Xor[n][b][a]
                            /\ Xor[n][a][a] = 0
                            /\ a < Pow2[n] => Xor[n][a][0] = a
           S == {n \in Nat : \A a, b \in Elements : Good(n, a, b)}
<1>2. 0 \in S
  <2>1. \A a, b \in Elements : Xor[0][a][b] = 0
    BY XorSteps
  <2>2. Pow2[0] = 1
    BY Pow2Type
  <2> QED
    BY <1>1, <2>1, <2>2
<1>3. ASSUME NEW n \in Nat, n \in S PROVE n + 1 \in S
  <2>1. ASSUME NEW a \in Elements, NEW b \in Elements PROVE Good(n + 1, a, b)
    <3> DEFINE c == a \div 2
               d == b \div 2
    <3>1. c \in Elements /\ d \in Elements /\ a \in Nat /\ b \in Nat /\ 0 \div 2 = 0
      BY <1>1
    <3>2. Good(n, c, d)
      BY <1>3, <3>1
    <3>3. /\ Xor[n + 1][a][b] = ((a + b) % 2) + 2 * Xor[n][c][d]
          /\ Xor[n + 1][b][a] = ((b + a) % 2) + 2 * Xor[n][d][c]
          /\ Xor[n + 1][a][a] = ((a + a) % 2) + 2 * Xor[n][c][c]
          /\ Xor[n + 1][a][0] = ((a + 0) % 2) + 2 * Xor[n][c][0]
      <4>1. \A x, y \in Elements :
              Xor[n + 1][x][y] = ((x + y) % 2) + 2 * Xor[n][x \div 2][y \div 2]
        BY XorSteps
      <4>2. Xor[n + 1][a][0] = ((a + 0) % 2) + 2 * Xor[n][c][0 \div 2]
        BY <1>1, <4>1
      <4> QED
        BY <3>1, <4>1, <4>2
    <3>4. Pow2[n] \in Nat /\ Pow2[n + 1] = 2 * Pow2[n]
      BY Pow2Type
    <3>5. Xor[n][c][d] \in Nat
      BY <3>1, XorSteps
    <3>6. a < Pow2[n + 1] => c < Pow2[n]
      BY <3>1, <3>4, Halves
    <3>7. a = (a % 2) + 2 * c
      BY <3>1, Halves
    <3> HIDE DEF c, d
    <3>8. Xor[n + 1][a][b] < Pow2[n + 1]
      BY <3>1, <3>2, <3>3, <3>4, <3>5
    <3>9. Xor[n + 1][a][b] = Xor[n + 1][b][a] /\ Xor[n + 1][a][a] = 0
      BY <3>1, <3>2, <3>3
    <3>10. a < Pow2[n + 1] => Xor[n + 1][a][0] = a
      BY <3>1, <3>2, <3>3, <3>6, <3>7
    <3> QED
      BY <3>8, <3>9, <3>10
  <2> HIDE DEF Good
  <2> QED
    BY <2>1
<1>4. Nat \subseteq S
  <2> HIDE DEF S
  <2> QED
    BY <1>2, <1>3, SetInduction
<1> QED
  BY <1>4

\* The exclusive or of elements is an element.
LEMMA XorInElements ==
  \A n \in 0 .. Width : \A a, b \in Elements : Xor[n][a][b] \in Elements
<1> SUFFICES ASSUME NEW n \in 0 .. Width, NEW a \in Elements, NEW b \in Elements
             PROVE  Xor[n][a][b] \in Elements
  OBVIOUS
<1>1. Width \in Nat /\ n \in Nat
  BY FieldAssumption
<1>2. Pow2[n] <= Pow2[Width] /\ Pow2[n] \in Nat
  BY <1>1, Pow2Grows, Pow2Type
<1>3. Xor[n][a][b] \in Nat /\ Xor[n][a][b] < Pow2[n]
  BY <1>1, XorSteps, XorBits
<1>4. Pow2[Width] \in Nat /\ Elements = 0 .. Pow2[Width] - 1
  BY <1>1, Pow2Type, FieldNumbers
<1> HIDE DEF Xor
<1> QED
  BY <1>2, <1>3, <1>4

\* Which two of three are added first makes no difference.
LEMMA XorAssociates ==
  \A n \in 0 .. Width : \A a, b, c \in Elements :
    Xor[n][Xor[n][a][b]][c] = Xor[n][a][Xor[n][b][c]]
<1> DEFINE Good(n, a, b, c) == Xor[n][Xor[n][a][b]][c] = Xor[n][a][Xor[n][b][c]]
           S == {n \in Nat : n <= Width => \A a, b, c \in Elements : Good(n, a, b, c)}
<1>1. Elements \subseteq Nat /\ \A a \in Elements : a \div 2 \in Elements
  BY FieldNumbers
<1>2. 0 \in S
  <2>1. \A a, b \in Elements : Xor[0][a][b] = 0
    BY XorSteps
  <2>2. 0 \in Elements
    BY FieldNumbers
  <2> QED
    BY <2>1, <2>2
<1>3. ASSUME NEW n \in Nat, n \in S PROVE n + 1 \in S
  <2>1. SUFFICES ASSUME n + 1 <= Width, NEW a \in Elements, NEW b \in Elements, NEW c \in Elements
                 PROVE  Good(n + 1, a, b, c)
    <3> HIDE DEF Good
    <3> QED
      OBVIOUS
  <2>2. n \in 0 .. Width /\ n + 1 \in 0 .. Width
    BY <2>1, FieldAssumption
  <2> DEFINE ah == a \div 2
             bh == b \div 2
             ch == c \div 2
             x == Xor[n + 1][a][b]
             y == Xor[n + 1][b][c]
             u == Xor[n][ah][bh]
             v == Xor[n][bh][ch]
  <2>3. a \in Nat /\ b \in Nat /\ c \in Nat /\ ah \in Elements /\ bh \in Elements /\ ch \in Elements
    BY <1>1
  <2> HIDE DEF ah, bh, ch
  <2>4. u \in Elements /\ v \in Elements /\ x \in Elements /\ y \in Elements
    BY <2>2, <2>3, XorInElements
  <2>5. \A p, q \in Elements :
          Xor[n + 1][p][q] = ((p + q) % 2) + 2 * Xor[n][p \div 2][q \div 2]
    BY XorSteps
  <2>6. x = ((a + b) % 2) + 2 * u /\ y = ((b + c) % 2) + 2 * v
    BY <2>5 DEF ah, bh, ch
  <2> DEFINE l == Xor[n][u][ch]
             r == Xor[n][ah][v]
  <2>7. /\ Xor[n + 1][x][c] = ((x + c) % 2) + 2 * Xor[n][x \div 2][ch]
        /\ Xor[n + 1][a][y] = ((a + y) % 2) + 2 * Xor[n][ah][y \div 2]
    <3> HIDE DEF x, y
    <3> QED
      BY <2>4, <2>5 DEF ah, ch
  <2>8. l = r
    BY <1>3, <2>2, <2>3
  <2> HIDE DEF x, y, u, v, l, r
  <2>9. u \in Nat /\ v \in Nat
    BY <1>1, <2>4
  <2>10. x \div 2 = u /\ y \div 2 = v
    BY <2>3, <2>6, <2>9
  <2>11. (x + c) % 2 = (a + y) % 2
    BY <2>3, <2>6, <2>9
  <2> QED
    BY <2>7, <2>8, <2>10, <2>11 DEF x, y, l, r
<1>4. Nat \subseteq S
  <2> HIDE DEF S
  <2> QED
    BY <1>2, <1>3, SetInduction
<1>5. \A n \in 0 .. Width : n \in Nat /\ n <= Width
  BY FieldAssumption
<1> HIDE DEF Good
<1>6. \A n \in 0 .. Width : \A a, b, c \in Elements : Good(n, a, b, c)
  BY <1>4, <1>5
<1> QED
  BY <1>6 DEF Good

\* A bit at place p, or none.
Top(s, p) == IF s = 1 THEN p ELSE 0

\* The bit above the others is added by itself.
LEMMA XorTop ==
  \A n \in 0 .. Width - 1 : \A a, b \in Elements : \A s, t \in {0, 1} :
    a < Pow2[n] /\ b < Pow2[n] =>
      /\ a + Top(s, Pow2[n]) \in Elements /\ b + Top(t, Pow2[n]) \in Elements
      /\ Xor[n + 1][a + Top(s, Pow2[n])][b + Top(t, Pow2[n])]
           = Xor[n][a][b] + Top((s + t) % 2, Pow2[n])
<1> DEFINE In(n, a, s) == a + Top(s, Pow2[n]) \in Elements
           Good(n, a, b, s, t) == Xor[n + 1][a + Top(s, Pow2[n])][b + Top(t, Pow2[n])]
                                    = Xor[n][a][b] + Top((s + t) % 2, Pow2[n])
           S == {n \in Nat : n + 1 <= Width =>
                   \A a, b \in Elements : \A s, t \in {0, 1} :
                     a < Pow2[n] /\ b < Pow2[n] => Good(n, a, b, s, t)}
<1>1. ASSUME NEW n \in Nat, n + 1 <= Width, NEW a \in Elements, NEW s \in {0, 1}, a < Pow2[n]
      PROVE  In(n, a, s)
  <2>1. n + 1 \in 0 .. Width /\ Width \in Nat
    BY <1>1, FieldAssumption
  <2>2. Pow2[n + 1] <= Pow2[Width] /\ Pow2[n] \in Nat /\ Pow2[n + 1] = 2 * Pow2[n]
    BY <2>1, Pow2Grows, Pow2Type
  <2>3. Pow2[Width] \in Nat /\ Elements = 0 .. Pow2[Width] - 1
    BY <2>1, Pow2Type, FieldNumbers
  <2> QED
    BY <1>1, <2>2, <2>3 DEF Top
<1>2. Elements \subseteq Nat /\ \A a \in Elements : a \div 2 \in Elements
  BY FieldNumbers
<1>3. \A n \in Nat : \A p, q \in Elements :
        Xor[n + 1][p][q] = ((p + q) % 2) + 2 * Xor[n][p \div 2][q \div 2]
  BY XorSteps
<1>4. 0 \in S
  <2> SUFFICES ASSUME 0 + 1 <= Width, NEW a \in Elements, NEW b \in Elements,
                      NEW s \in {0, 1}, NEW t \in {0, 1}, a < Pow2[0], b < Pow2[0]
               PROVE  Good(0, a, b, s, t)
    <3> HIDE DEF Good
    <3> QED
      OBVIOUS
  <2>1. Pow2[0] = 1 /\ a = 0 /\ b = 0
    BY <1>2, Pow2Type
  <2>2. s \in Elements /\ t \in Elements /\ a + Top(s, Pow2[0]) = s /\ b + Top(t, Pow2[0]) = t
    BY <2>1, <1>1 DEF Top
  <2>3. Xor[0 + 1][s][t] = ((s + t) % 2) + 2 * Xor[0][s \div 2][t \div 2]
    BY <1>3, <2>2
  <2>4. Xor[0][s \div 2][t \div 2] = 0 /\ Xor[0][a][b] = 0
    BY <1>2, <2>2, XorSteps
  <2>5. (s + t) % 2 \in {0, 1}
    OBVIOUS
  <2> QED
    BY <2>1, <2>2, <2>3, <2>4, <2>5 DEF Top
<1>5. ASSUME NEW n \in Nat, n \in S PROVE n + 1 \in S
  <2>1. SUFFICES ASSUME (n + 1) + 1 <= Width, NEW a \in Elements, NEW b \in Elements,
                        NEW s \in {0, 1}, NEW t \in {0, 1}, a < Pow2[n + 1], b < Pow2[n + 1]
                 PROVE  Good(n + 1, a, b, s, t)
    <3> HIDE DEF Good
    <3> QED
      OBVIOUS
  <2> DEFINE p == Pow2[n]
             ah == a \div 2
             bh == b \div 2
             ax == a + Top(s, Pow2[n + 1])
             bx == b + Top(t, Pow2[n + 1])
             z == (s + t) % 2
  <2>2. p \in Nat /\ Pow2[n + 1] = 2 * p /\ a \in Nat /\ b \in Nat /\ z \in {0, 1}
    BY <1>2, Pow2Type
  <2>3. ah \in Elements /\ bh \in Elements /\ ah < p /\ bh < p
    BY <1>2, <2>1, <2>2, Halves
  <2>4. ax \in Elements /\ bx \in Elements
    BY <1>1, <2>1
  <2>5. Xor[(n + 1) + 1][ax][bx] = ((ax + bx) % 2) + 2 * Xor[n + 1][ax \div 2][bx \div 2]
    <3> HIDE DEF ax, bx
    <3> QED
      BY <1>3, <2>4
  <2>6. Xor[n + 1][a][b] = ((a + b) % 2) + 2 * Xor[n][ah][bh]
    BY <1>3
  <2>7. Xor[n + 1][ah + Top(s, p)][bh + Top(t, p)] = Xor[n][ah][bh] + Top(z, p)
    <3>1. n + 1 <= Width
      BY <2>1, FieldAssumption
    <3>2. Good(n, ah, bh, s, t)
      <4> HIDE DEF ah, bh, Good
      <4> QED
        BY <1>5, <2>3, <3>1
    <3> QED
      BY <3>2
  <2>8. Xor[n][ah][bh] \in Nat
    BY <2>3, XorSteps
  <2> HIDE DEF p, z
  <2>9. ax \div 2 = ah + Top(s, p) /\ bx \div 2 = bh + Top(t, p) /\ (ax + bx) % 2 = (a + b) % 2
    BY <2>2 DEF Top
  <2> HIDE DEF ax, bx, ah, bh
  <2>10. Top(z, Pow2[n + 1]) = 2 * Top(z, p) /\ Top(z, p) \in Nat
    BY <2>2 DEF Top
  <2>11. Xor[(n + 1) + 1][ax][bx] = Xor[n + 1][a][b] + Top(z, Pow2[n + 1])
    BY <2>2, <2>5, <2>6, <2>7, <2>8, <2>9, <2>10
  <2> QED
    BY <2>11 DEF ax, bx, z
<1>6. Nat \subseteq S
  <2> HIDE DEF S
  <2> QED
    BY <1>4, <1>5, SetInduction
<1> SUFFICES ASSUME NEW n \in 0 .. Width - 1, NEW a \in Elements, NEW b \in Elements,
                    NEW s \in {0, 1}, NEW t \in {0, 1}, a < Pow2[n], b < Pow2[n]
             PROVE  In(n, a, s) /\ In(n, b, t) /\ Good(n, a, b, s, t)
  OBVIOUS
<1>7. n \in Nat /\ n + 1 <= Width
  BY FieldAssumption
<1> HIDE DEF In, Good
<1> QED
  BY <1>1, <1>6, <1>7

\* The elements form a group in which each is its own inverse.
LEMMA XorGroup ==
  /\ 0 \in Elements /\ 1 \in Elements /\ Elements \subseteq Nat
  /\ \A a, b \in Elements : a ^^ b \in Elements /\ a ^^ b = b ^^ a
  /\ \A a \in Elements : a ^^ a = 0 /\ a ^^ 0 = a /\ 0 ^^ a = a
  /\ \A a, b, c \in Elements : (a ^^ b) ^^ c = a ^^ (b ^^ c)
<1>1. Width \in 0 .. Width /\ Width \in Nat
  BY FieldAssumption
<1>2. 0 \in Elements /\ 1 \in Elements /\ Elements \subseteq Nat
  BY FieldNumbers
<1>3. \A a, b \in Elements : a ^^ b = Xor[Width][a][b]
  BY XorSteps
<1>4. \A a, b \in Elements : a ^^ b \in Elements
  BY <1>1, <1>3, XorInElements
<1>5. \A a, b \in Elements : a ^^ b = b ^^ a
  BY <1>1, <1>3, XorBits
<1>6. \A a \in Elements : a ^^ a = 0
  BY <1>1, <1>3, XorBits
<1>7. \A a \in Elements : a ^^ 0 = a
  <2> SUFFICES ASSUME NEW a \in Elements PROVE Xor[Width][a][0] = a
    BY <1>2, <1>3
  <2>1. a < Pow2[Width]
    BY FieldNumbers
  <2> QED
    BY <1>1, <2>1, XorBits
<1>8. ASSUME NEW a \in Elements, NEW b \in Elements, NEW c \in Elements
      PROVE  (a ^^ b) ^^ c = a ^^ (b ^^ c)
  <2>1. Xor[Width][Xor[Width][a][b]][c] = Xor[Width][a][Xor[Width][b][c]]
    BY <1>1, XorAssociates
  <2>2. a ^^ b \in Elements /\ b ^^ c \in Elements
    BY <1>4
  <2> QED
    BY <1>3, <2>1, <2>2
<1> QED
  BY <1>2, <1>4, <1>5, <1>6, <1>7, <1>8

\* What is added twice is gone.
LEMMA XorCancels ==
  \A a, b, c \in Elements :
    /\ a ^^ b \in Elements
    /\ a ^^ (a ^^ b) = b /\ (a ^^ b) ^^ b = a
    /\ a ^^ c = b ^^ c => a = b
    /\ a ^^ b = 0 => a = b
<1> SUFFICES ASSUME NEW a \in Elements, NEW b \in Elements, NEW c \in Elements
             PROVE  /\ a ^^ b \in Elements
                    /\ a ^^ (a ^^ b) = b /\ (a ^^ b) ^^ b = a
                    /\ a ^^ c = b ^^ c => a = b
                    /\ a ^^ b = 0 => a = b
  OBVIOUS
<1>1. a ^^ (a ^^ b) = (a ^^ a) ^^ b /\ (a ^^ b) ^^ b = a ^^ (b ^^ b)
  BY XorGroup
<1>2. a ^^ a = 0 /\ b ^^ b = 0 /\ 0 ^^ b = b /\ a ^^ 0 = a
  BY XorGroup
<1>3. (a ^^ c) ^^ c = a ^^ (c ^^ c) /\ (b ^^ c) ^^ c = b ^^ (c ^^ c) /\ c ^^ c = 0 /\ b ^^ 0 = b
  BY XorGroup
<1>4. a ^^ b = 0 => (a ^^ b) ^^ b = b
  BY <1>2
<1> QED
  BY <1>1, <1>2, <1>3, <1>4, XorGroup

\* Four terms in two pairs, paired the other way.
LEMMA XorPairs ==
  \A a, b, c, d \in Elements : (a ^^ b) ^^ (c ^^ d) = (a ^^ c) ^^ (b ^^ d)
<1> SUFFICES ASSUME NEW a \in Elements, NEW b \in Elements, NEW c \in Elements, NEW d \in Elements
             PROVE  (a ^^ b) ^^ (c ^^ d) = (a ^^ c) ^^ (b ^^ d)
  OBVIOUS
<1> DEFINE e == c ^^ d
           f == b ^^ d
<1>1. e \in Elements /\ f \in Elements
  BY XorGroup
<1>2. (a ^^ b) ^^ (c ^^ d) = a ^^ (b ^^ (c ^^ d))
  <2>1. (a ^^ b) ^^ e = a ^^ (b ^^ e)
    <3> HIDE DEF e
    <3> QED
      BY <1>1, XorGroup
  <2> QED
    BY <2>1
<1>3. b ^^ (c ^^ d) = (b ^^ c) ^^ d /\ b ^^ c = c ^^ b /\ (c ^^ b) ^^ d = c ^^ (b ^^ d)
  BY <1>1, XorGroup
<1>4. (a ^^ c) ^^ (b ^^ d) = a ^^ (c ^^ (b ^^ d))
  <2>1. (a ^^ c) ^^ f = a ^^ (c ^^ f)
    <3> HIDE DEF f
    <3> QED
      BY <1>1, XorGroup
  <2> QED
    BY <2>1
<1> QED
  BY <1>2, <1>3, <1>4

\* An element is its highest bit and what is below it.
LEMMA HighBit ==
  ASSUME NEW a \in Elements
  PROVE  \E s \in {0, 1} : \E h \in Elements :
           h < Pow2[Width - 1] /\ a = h + Top(s, Pow2[Width - 1])
<1> DEFINE p == Pow2[Width - 1]
<1>1. Width - 1 \in Nat /\ GfSize = 2 * p /\ Elements = 0 .. GfSize - 1
  BY FieldNumbers
<1>2. p \in Nat \ {0}
  BY <1>1, Pow2Type
<1> HIDE DEF p
<1>3. CASE a < p
  <2>1. 0 \in {0, 1} /\ a = a + Top(0, p)
    BY <1>1, <1>2 DEF Top
  <2> QED
    BY <1>3, <2>1 DEF p
<1>4. CASE ~ a < p
  <2>1. a - p \in Elements /\ a - p < p /\ 1 \in {0, 1} /\ a = (a - p) + Top(1, p)
    BY <1>1, <1>2, <1>4 DEF Top
  <2> QED
    BY <2>1 DEF p
<1> QED
  BY <1>3, <1>4

\* The part of the polynomial below its highest bit.
Low == Poly - GfSize

\* Doubling an element whose highest bit is s and whose other bits are h.
LEMMA DoubleOfParts ==
  ASSUME NEW s \in {0, 1}, NEW h \in Elements, h < Pow2[Width - 1]
  PROVE  /\ Low \in Elements /\ 2 * h \in Elements
         /\ Double(h + Top(s, Pow2[Width - 1])) = IF s = 1 THEN (2 * h) ^^ Low ELSE 2 * h
<1> DEFINE p == Pow2[Width - 1]
<1>1. Width - 1 \in Nat /\ GfSize = 2 * p /\ Elements = 0 .. GfSize - 1
  BY FieldNumbers
<1>2. p \in Nat \ {0}
  BY <1>1, Pow2Type
<1>3. Low \in Elements /\ 2 * h \in Elements
  <2>1. Poly \in GfSize .. 2 * GfSize - 1
    BY FieldAssumption
  <2> HIDE DEF p
  <2> QED
    BY <1>1, <1>2, <2>1 DEF Low, p
<1>4. CASE s = 0
  <2> DEFINE a == h + Top(s, p)
  <2>1. a = h /\ 2 * a < GfSize
    BY <1>1, <1>2, <1>4 DEF Top
  <2>2. Double(a) = 2 * h
    BY <2>1 DEF Double
  <2> QED
    BY <1>3, <1>4, <2>2
<1>5. CASE s = 1
  <2> DEFINE a == h + Top(s, p)
  <2>1. a = h + p /\ ~ 2 * a < GfSize /\ 2 * a - GfSize = 2 * h
    BY <1>1, <1>2, <1>5 DEF Top
  <2> HIDE DEF a
  <2>2. Double(a) = (2 * h) ^^ Low
    BY <2>1 DEF Double, Low
  <2> QED
    BY <1>3, <1>5, <2>2 DEF a
<1> QED
  BY <1>4, <1>5

\* Doubling is linear.
LEMMA DoubleIsLinear ==
  /\ \A a \in Elements : Double(a) \in Elements
  /\ Double(0) = 0
  /\ \A a, b \in Elements : Double(a ^^ b) = Double(a) ^^ Double(b)
<1> DEFINE p == Pow2[Width - 1]
<1>1. Width - 1 \in Nat /\ (Width - 1) + 1 = Width /\ Width - 1 \in 0 .. Width - 1
  BY FieldNumbers, FieldAssumption
<1>2. p \in Nat \ {0} /\ Elements \subseteq Nat /\ 0 \in Elements
  BY <1>1, Pow2Type, XorGroup
<1>3. ASSUME NEW a \in Elements PROVE Double(a) \in Elements
  <2>1. PICK s \in {0, 1}, h \in Elements : h < p /\ a = h + Top(s, p)
    BY HighBit
  <2>2. Double(a) = IF s = 1 THEN (2 * h) ^^ Low ELSE 2 * h
    BY <2>1, DoubleOfParts
  <2>3. Low \in Elements /\ 2 * h \in Elements
    BY <2>1, DoubleOfParts
  <2> QED
    BY <2>2, <2>3, XorGroup
<1>4. Double(0) = 0
  <2>1. 0 + Top(0, p) = 0 /\ 0 \in {0, 1}
    BY DEF Top
  <2>2. Double(0 + Top(0, p)) = 2 * 0
    BY <1>2, <2>1, DoubleOfParts
  <2> QED
    BY <2>1, <2>2
<1>5. ASSUME NEW a \in Elements, NEW b \in Elements
      PROVE  Double(a ^^ b) = Double(a) ^^ Double(b)
  <2>1. PICK s \in {0, 1}, h \in Elements : h < p /\ a = h + Top(s, p)
    BY HighBit
  <2>2. PICK t \in {0, 1}, l \in Elements : l < p /\ b = l + Top(t, p)
    BY HighBit
  <2> DEFINE x == Xor[Width - 1][h][l]
             z == (s + t) % 2
  <2>3. a ^^ b = x + Top(z, p)
    <3>1. Xor[(Width - 1) + 1][h + Top(s, p)][l + Top(t, p)] = x + Top(z, p)
      BY <1>1, <2>1, <2>2, XorTop
    <3>2. a ^^ b = Xor[Width][a][b]
      BY XorSteps
    <3> QED
      BY <1>1, <2>1, <2>2, <3>1, <3>2
  <2>4. x \in Elements /\ x < p
    BY <1>1, XorInElements, XorBits
  <2>5. z \in {0, 1} /\ (z = 1 <=> s # t)
    OBVIOUS
  <2>6. /\ Double(a) = IF s = 1 THEN (2 * h) ^^ Low ELSE 2 * h
        /\ Double(b) = IF t = 1 THEN (2 * l) ^^ Low ELSE 2 * l
        /\ Double(a ^^ b) = IF z = 1 THEN (2 * x) ^^ Low ELSE 2 * x
    <3>1. Double(a) = IF s = 1 THEN (2 * h) ^^ Low ELSE 2 * h
      BY <2>1, DoubleOfParts
    <3>2. Double(b) = IF t = 1 THEN (2 * l) ^^ Low ELSE 2 * l
      BY <2>2, DoubleOfParts
    <3>3. Double(x + Top(z, p)) = IF z = 1 THEN (2 * x) ^^ Low ELSE 2 * x
      <4> HIDE DEF x, z
      <4> QED
        BY <2>4, <2>5, DoubleOfParts
    <3> QED
      BY <2>3, <3>1, <3>2, <3>3
  <2>7. Low \in Elements /\ 2 * h \in Elements /\ 2 * l \in Elements /\ 2 * x \in Elements
    <3> HIDE DEF x
    <3> QED
      BY <2>1, <2>2, <2>4, DoubleOfParts
  <2>8. (2 * h) ^^ (2 * l) = 2 * x
    <3> DEFINE u == 2 * h
               v == 2 * l
    <3>1. Xor[(Width - 1) + 1][u][v] = ((u + v) % 2) + 2 * Xor[Width - 1][u \div 2][v \div 2]
      <4> HIDE DEF u, v
      <4> QED
        BY <1>1, <2>7, XorSteps DEF u, v
    <3>2. u \div 2 = h /\ v \div 2 = l /\ (u + v) % 2 = 0
      BY <1>2
    <3>3. x \in Nat
      BY <1>2, <2>4
    <3>4. u ^^ v = Xor[Width][u][v]
      BY <2>7, XorSteps
    <3> HIDE DEF u, v
    <3>5. Xor[Width][u][v] = 2 * x
      BY <1>1, <3>1, <3>2, <3>3
    <3> QED
      BY <3>4, <3>5 DEF u, v
  <2> DEFINE u == 2 * h
             v == 2 * l
             w == 2 * x
  <2>9. u \in Elements /\ v \in Elements /\ w \in Elements /\ u ^^ v = w
    BY <2>7, <2>8
  <2>10. /\ Double(a) = IF s = 1 THEN u ^^ Low ELSE u
         /\ Double(b) = IF t = 1 THEN v ^^ Low ELSE v
         /\ Double(a ^^ b) = IF z = 1 THEN w ^^ Low ELSE w
    BY <2>6
  <2> HIDE DEF u, v, w, z
  <2>11. /\ (u ^^ Low) ^^ (v ^^ Low) = (u ^^ v) ^^ (Low ^^ Low)
         /\ Low ^^ Low = 0 /\ w ^^ 0 = w
         /\ (u ^^ Low) ^^ v = u ^^ (Low ^^ v) /\ Low ^^ v = v ^^ Low
         /\ u ^^ (v ^^ Low) = (u ^^ v) ^^ Low
    <3>1. (u ^^ Low) ^^ (v ^^ Low) = (u ^^ v) ^^ (Low ^^ Low)
      BY <2>7, <2>9, XorPairs
    <3> QED
      BY <2>7, <2>9, <3>1, XorGroup
  <2>12. CASE s = 1 /\ t = 1
    BY <2>5, <2>9, <2>10, <2>11, <2>12
  <2>13. CASE s = 1 /\ t = 0
    BY <2>5, <2>9, <2>10, <2>11, <2>13
  <2>14. CASE s = 0 /\ t = 1
    BY <2>5, <2>9, <2>10, <2>11, <2>14
  <2>15. CASE s = 0 /\ t = 0
    BY <2>5, <2>9, <2>10, <2>11, <2>15
  <2> QED
    BY <2>12, <2>13, <2>14, <2>15
<1> QED
  BY <1>3, <1>4, <1>5

-----------------------------------------------------------------------------
(***************************************************************************)
(* Multiplication                                                          *)
(***************************************************************************)

\* The logarithms.
LEMMA LogNumbers ==
  /\ GroupOrder \in Nat /\ GroupOrder >= 3 /\ GfSize = GroupOrder + 1
  /\ Logs = 0 .. GroupOrder - 1 /\ Elements \ {0} = 1 .. GroupOrder
  /\ 0 \in Logs /\ Logs \subseteq Nat
<1>1. GfSize \in Nat /\ GfSize >= 4 /\ GroupOrder = GfSize - 1 /\ Elements = 0 .. GfSize - 1
  BY FieldNumbers
<1> QED
  BY <1>1 DEF Logs

\* The powers of the generator: each is twice the one before.
LEMMA PowersType ==
  /\ Powers \in [Logs -> Elements \ {0}] /\ Powers[0] = 1
  /\ \A n \in Logs : n + 1 \in Logs => Powers[n + 1] = Double(Powers[n])
  /\ \A a \in Elements \ {0} : \E n \in Logs : Powers[n] = a
<1> DEFINE step == [pair \in Nat \X Elements |-> Double(pair[2])]
           IsPowers(b) == b = [n \in Logs |-> IF n = 0 THEN 1 ELSE Double(b[n - 1])]
           c == CHOOSE b : IsPowers(b)
<1>1. PICK g : FromNumbers(g, Elements, 1, step)
  <2>1. 1 \in Elements /\ step \in [Nat \X Elements -> Elements]
    BY XorGroup, DoubleIsLinear
  <2> HIDE DEF step
  <2> QED
    BY <2>1, NatRecursion
<1>2. g \in [Nat -> Elements] /\ g[0] = 1 /\ \A n \in Nat : g[n + 1] = Double(g[n])
  BY <1>1 DEF FromNumbers
<1> DEFINE h == [n \in Logs |-> g[n]]
<1>3. IsPowers(h)
  <2>1. ASSUME NEW n \in Logs, n # 0 PROVE h[n] = Double(h[n - 1])
    <3>1. n - 1 \in Nat /\ (n - 1) + 1 = n /\ n - 1 \in Logs
      BY <2>1, LogNumbers
    <3> QED
      BY <3>1, <1>2
  <2>2. 0 \in Logs /\ h[0] = 1
    BY <1>2, LogNumbers
  <2>3. \A n \in Logs : h[n] = IF n = 0 THEN 1 ELSE Double(h[n - 1])
    BY <2>1, <2>2
  <2> QED
    BY <2>3
<1>4. IsPowers(c)
  <2> HIDE DEF IsPowers, h
  <2> QED
    BY <1>3
<1>5. Powers = [n \in Logs |-> c[n]]
  BY DEF Powers
<1> HIDE DEF c
<1>6. c[0] = 1 /\ \A n \in Logs : n + 1 \in Logs => c[n + 1] = Double(c[n])
  <2>1. 0 \in Logs /\ \A n \in Logs : n + 1 # 0 /\ (n + 1) - 1 = n
    BY LogNumbers
  <2> QED
    BY <1>4, <2>1
<1>7. /\ {Powers[n] : n \in Logs} = Elements \ {0}
      /\ \A a \in Elements \ {0} : \E n \in Logs : Powers[n] = a
  BY FieldAssumption
<1>8. Powers \in [Logs -> Elements \ {0}]
  BY <1>5, <1>7
<1>9. Powers[0] = 1 /\ \A n \in Logs : n + 1 \in Logs => Powers[n + 1] = Double(Powers[n])
  BY <1>5, <1>6, LogNumbers
<1> QED
  BY <1>7, <1>8, <1>9

\* Each element but 0 is one power only.
LEMMA PowersDiffer ==
  \A m, n \in Logs : Powers[m] = Powers[n] => m = n
<1> DEFINE E == Elements \ {0}
<1>1. Powers \in Surjection(Logs, E)
  BY PowersType DEF Surjection
<1>2. IsFiniteSet(Logs) /\ Cardinality(Logs) = GroupOrder
  BY LogNumbers, FS_Interval
<1>3. Cardinality(E) = GroupOrder
  <2>1. E = 1 .. GroupOrder /\ GroupOrder \in Int /\ 1 \in Int /\ ~ 1 > GroupOrder
    BY LogNumbers
  <2>2. Cardinality(1 .. GroupOrder) = IF 1 > GroupOrder THEN 0 ELSE GroupOrder - 1 + 1
    BY <2>1, FS_Interval
  <2> HIDE DEF E
  <2> QED
    BY <2>1, <2>2
<1>4. Powers \in Injection(Logs, E)
  <2> HIDE DEF E
  <2> QED
    BY <1>1, <1>2, <1>3, FS_SurjSameCardinalityImpliesInj
<1> QED
  BY <1>4 DEF Injection, IsInjective

\* The exclusive or of two even numbers.
LEMMA EvenXor ==
  ASSUME NEW h \in Elements, NEW l \in Elements, 2 * h \in Elements, 2 * l \in Elements
  PROVE  \E x \in Nat : (2 * h) ^^ (2 * l) = 2 * x
<1> DEFINE u == 2 * h
           v == 2 * l
           x == Xor[Width - 1][u \div 2][v \div 2]
<1>1. Width - 1 \in Nat /\ (Width - 1) + 1 = Width
  BY FieldAssumption
<1>2. u \in Elements /\ v \in Elements /\ h \in Nat /\ l \in Nat
  BY XorGroup
<1>3. (u + v) % 2 = 0 /\ u \div 2 \in Elements /\ v \div 2 \in Elements
  BY <1>2, FieldNumbers
<1> HIDE DEF u, v
<1>4. Xor[(Width - 1) + 1][u][v] = ((u + v) % 2) + 2 * x
  BY <1>1, <1>2, XorSteps
<1>5. x \in Nat
  BY <1>1, <1>3, XorSteps
<1>6. u ^^ v = Xor[Width][u][v]
  BY <1>2, XorSteps
<1> HIDE DEF x
<1>7. u ^^ v = 2 * x
  BY <1>1, <1>3, <1>4, <1>5, <1>6
<1> QED
  BY <1>5, <1>7 DEF u, v

\* Nothing but 0 doubles to 0: otherwise the polynomial would be even, and so would be all
\* powers but the first.
LEMMA DoubleOfNonzero ==
  \A a \in Elements \ {0} : Double(a) # 0
<1> SUFFICES ASSUME NEW a \in Elements \ {0}, Double(a) = 0 PROVE FALSE
  OBVIOUS
<1> DEFINE p == Pow2[Width - 1]
<1>1. PICK s \in {0, 1}, h \in Elements : h < p /\ a = h + Top(s, p)
  BY HighBit
<1>2. /\ Low \in Elements /\ 2 * h \in Elements
      /\ Double(a) = IF s = 1 THEN (2 * h) ^^ Low ELSE 2 * h
  BY <1>1, DoubleOfParts
<1>3. s = 1
  <2> SUFFICES ASSUME s = 0 PROVE FALSE
    OBVIOUS
  <2>1. h \in Nat /\ 2 * h = 0
    BY <1>2, XorGroup
  <2> QED
    BY <1>1, <2>1 DEF Top
<1>4. Low = 2 * h
  <2> DEFINE u == 2 * h
  <2>1. u \in Elements /\ u ^^ Low = 0
    BY <1>2, <1>3
  <2> HIDE DEF u
  <2>2. u = Low
    BY <1>2, <2>1, XorCancels
  <2> QED
    BY <2>2 DEF u
<1>5. ASSUME NEW b \in Elements PROVE \E x \in Nat : Double(b) = 2 * x
  <2>1. PICK t \in {0, 1}, l \in Elements : l < p /\ b = l + Top(t, p)
    BY HighBit
  <2>2. /\ 2 * l \in Elements
        /\ Double(b) = IF t = 1 THEN (2 * l) ^^ Low ELSE 2 * l
    BY <2>1, DoubleOfParts
  <2>3. CASE t = 0
    <3>1. Double(b) = 2 * l /\ l \in Nat
      BY <2>2, <2>3, XorGroup
    <3> QED
      BY <3>1
  <2>4. CASE t = 1
    <3>1. Double(b) = (2 * l) ^^ (2 * h)
      BY <1>4, <2>2, <2>4
    <3>2. \E x \in Nat : (2 * l) ^^ (2 * h) = 2 * x
      BY <1>2, <2>2, EvenXor
    <3> QED
      BY <3>1, <3>2
  <2> QED
    BY <2>3, <2>4
<1>6. 3 \in Elements \ {0}
  BY LogNumbers
<1>7. PICK n \in Logs : Powers[n] = 3
  BY <1>6, PowersType
<1>8. n # 0
  BY <1>7, PowersType
<1>9. n - 1 \in Logs /\ (n - 1) + 1 = n
  BY <1>8, LogNumbers
<1>10. Double(Powers[n - 1]) = 3 /\ Powers[n - 1] \in Elements
  BY <1>7, <1>9, PowersType
<1>11. PICK x \in Nat : 3 = 2 * x
  BY <1>5, <1>10
<1> QED
  BY <1>11

\* The powers go round: twice the last one is the first.
LEMMA PowersGoRound ==
  \A n \in Logs : Double(Powers[n]) = Powers[(n + 1) % GroupOrder]
<1> SUFFICES ASSUME NEW n \in Logs PROVE Double(Powers[n]) = Powers[(n + 1) % GroupOrder]
  OBVIOUS
<1>1. GroupOrder \in Nat \ {0} /\ n \in Nat /\ n + 1 \in 0 .. 2 * GroupOrder - 1
  BY LogNumbers
<1>2. (n + 1) % GroupOrder = IF n + 1 < GroupOrder THEN n + 1 ELSE (n + 1) - GroupOrder
  BY <1>1, ModOnce
<1>3. CASE n + 1 < GroupOrder
  <2>1. n + 1 \in Logs
    BY <1>1, <1>3, LogNumbers
  <2> QED
    BY <1>2, <1>3, <2>1, PowersType
<1>4. CASE ~ n + 1 < GroupOrder
  <2>1. n = GroupOrder - 1 /\ (n + 1) % GroupOrder = 0
    BY <1>1, <1>2, <1>4, LogNumbers
  <2>2. Powers[n] \in Elements \ {0}
    BY PowersType
  <2>3. Double(Powers[n]) \in Elements \ {0}
    BY <2>2, DoubleIsLinear, DoubleOfNonzero
  <2>4. PICK m \in Logs : Powers[m] = Double(Powers[n])
    BY <2>3, PowersType
  <2>5. m = 0
    <3> SUFFICES ASSUME m # 0 PROVE FALSE
      OBVIOUS
    <3>1. m - 1 \in Logs /\ (m - 1) + 1 = m /\ m - 1 # n
      BY <2>1, LogNumbers
    <3>2. Double(Powers[m - 1]) = Double(Powers[n])
      BY <2>4, <3>1, PowersType
    <3> DEFINE x == Powers[m - 1]
               y == Powers[n]
    <3>3. x \in Elements /\ y \in Elements /\ x # y
      BY <3>1, PowersType, PowersDiffer
    <3>4. Double(x) = Double(y)
      BY <3>2
    <3> HIDE DEF x, y
    <3>5. x ^^ y \in Elements \ {0}
      BY <3>3, XorCancels
    <3>6. Double(x ^^ y) = Double(x) ^^ Double(y) /\ Double(y) \in Elements
      BY <3>3, DoubleIsLinear
    <3>7. Double(x ^^ y) = 0
      BY <3>4, <3>6, XorGroup
    <3> QED
      BY <3>5, <3>7, DoubleOfNonzero
  <2> QED
    BY <2>1, <2>4, <2>5
<1> QED
  BY <1>3, <1>4

\* Logarithms and powers undo each other.
LEMMA LogType ==
  /\ \A a \in Elements \ {0} : LogTable[a] \in Logs /\ Powers[LogTable[a]] = a
  /\ \A n \in Logs : LogTable[Powers[n]] = n
<1>1. ASSUME NEW a \in Elements \ {0} PROVE LogTable[a] \in Logs /\ Powers[LogTable[a]] = a
  <2>1. \E n \in Logs : Powers[n] = a
    BY PowersType
  <2>2. LogTable[a] = CHOOSE n \in Logs : Powers[n] = a
    BY DEF LogTable
  <2> QED
    BY <2>1, <2>2
<1>2. ASSUME NEW n \in Logs PROVE LogTable[Powers[n]] = n
  <2>1. Powers[n] \in Elements \ {0}
    BY PowersType
  <2>2. LogTable[Powers[n]] \in Logs /\ Powers[LogTable[Powers[n]]] = Powers[n]
    BY <1>1, <2>1
  <2> QED
    BY <2>2, PowersDiffer
<1> QED
  BY <1>1, <1>2

\* The table of powers goes round once.
LEMMA ExpType ==
  /\ \A i \in Nat : i < 2 * GroupOrder => ExpTable[i] = Powers[i % GroupOrder]
  /\ \A i \in Nat : i % GroupOrder \in Logs
<1>1. GroupOrder \in Nat /\ GroupOrder >= 3 /\ GfSize = GroupOrder + 1
  BY LogNumbers
<1>2. ASSUME NEW i \in Nat, i < 2 * GroupOrder PROVE ExpTable[i] = Powers[i % GroupOrder]
  <2>1. i \in 0 .. 2 * GfSize - 1
    BY <1>1, <1>2
  <2> QED
    BY <1>2, <2>1 DEF ExpTable
<1>3. \A i \in Nat : i % GroupOrder \in 0 .. GroupOrder - 1
  BY <1>1
<1> QED
  BY <1>2, <1>3, LogNumbers

\* The product of two powers is the power of the sum.
LEMMA MulOfPowers ==
  \A m, n \in Logs :
    /\ (m + n) % GroupOrder \in Logs
    /\ GfMul(Powers[m], Powers[n]) = Powers[(m + n) % GroupOrder]
<1> SUFFICES ASSUME NEW m \in Logs, NEW n \in Logs
             PROVE  /\ (m + n) % GroupOrder \in Logs
                    /\ GfMul(Powers[m], Powers[n]) = Powers[(m + n) % GroupOrder]
  OBVIOUS
<1>1. m + n \in Nat /\ m + n < 2 * GroupOrder
  BY LogNumbers
<1>2. Powers[m] # 0 /\ Powers[n] # 0 /\ LogTable[Powers[m]] = m /\ LogTable[Powers[n]] = n
  BY PowersType, LogType
<1>3. GfMul(Powers[m], Powers[n]) = ExpTable[m + n]
  BY <1>2 DEF GfMul
<1>4. ExpTable[m + n] = Powers[(m + n) % GroupOrder] /\ (m + n) % GroupOrder \in Logs
  BY <1>1, ExpType
<1> QED
  BY <1>3, <1>4

\* Products are elements, 0 gives 0, and 1 changes nothing.
LEMMA MulType ==
  \A a, b \in Elements :
    /\ GfMul(a, b) \in Elements /\ GfMul(a, b) = GfMul(b, a)
    /\ GfMul(a, 0) = 0 /\ GfMul(0, a) = 0 /\ GfMul(1, a) = a /\ GfMul(a, 1) = a
    /\ a # 0 /\ b # 0 => GfMul(a, b) # 0
<1> SUFFICES ASSUME NEW a \in Elements, NEW b \in Elements
             PROVE  /\ GfMul(a, b) \in Elements /\ GfMul(a, b) = GfMul(b, a)
                    /\ GfMul(a, 0) = 0 /\ GfMul(0, a) = 0 /\ GfMul(1, a) = a /\ GfMul(a, 1) = a
                    /\ a # 0 /\ b # 0 => GfMul(a, b) # 0
  OBVIOUS
<1>1. GfMul(a, 0) = 0 /\ GfMul(0, a) = 0 /\ GfMul(b, 0) = 0 /\ GfMul(0, b) = 0
  BY DEF GfMul
<1>2. 0 \in Elements /\ 1 \in Elements
  BY XorGroup
<1>3. ASSUME a # 0, b # 0 PROVE GfMul(a, b) \in Elements \ {0} /\ GfMul(a, b) = GfMul(b, a)
  <2>1. PICK m \in Logs : Powers[m] = a
    BY <1>3, PowersType
  <2>2. PICK n \in Logs : Powers[n] = b
    BY <1>3, PowersType
  <2>3. m + n = n + m
    BY LogNumbers
  <2>4. /\ (m + n) % GroupOrder \in Logs
        /\ GfMul(a, b) = Powers[(m + n) % GroupOrder]
        /\ GfMul(b, a) = Powers[(m + n) % GroupOrder]
    BY <2>1, <2>2, <2>3, MulOfPowers
  <2> QED
    BY <2>4, PowersType
<1>4. ASSUME a # 0 PROVE GfMul(1, a) = a /\ GfMul(a, 1) = a
  <2>1. PICK m \in Logs : Powers[m] = a
    BY <1>4, PowersType
  <2>2. 0 \in Logs /\ Powers[0] = 1
    BY LogNumbers, PowersType
  <2>3. (0 + m) % GroupOrder = m /\ (m + 0) % GroupOrder = m
    <3>1. m \in 0 .. GroupOrder - 1 /\ GroupOrder \in Nat \ {0}
      BY LogNumbers
    <3>2. m \in 0 .. 2 * GroupOrder - 1 /\ m < GroupOrder
      BY <3>1
    <3>3. m % GroupOrder = m
      BY <3>1, <3>2, ModOnce
    <3> QED
      BY <3>1, <3>3
  <2> QED
    BY <2>1, <2>2, <2>3, MulOfPowers
<1>5. CASE a = 0
  <2>1. GfMul(1, a) = 0 /\ GfMul(a, 1) = 0
    BY <1>5 DEF GfMul
  <2> QED
    BY <1>1, <1>2, <1>5, <2>1
<1>6. CASE b = 0 /\ a # 0
  BY <1>1, <1>2, <1>4, <1>6
<1>7. CASE a # 0 /\ b # 0
  BY <1>1, <1>3, <1>4, <1>7
<1> QED
  BY <1>5, <1>6, <1>7

\* Which two of three are multiplied first makes no difference.
LEMMA MulAssociates ==
  \A a, b, c \in Elements : GfMul(GfMul(a, b), c) = GfMul(a, GfMul(b, c))
<1> SUFFICES ASSUME NEW a \in Elements, NEW b \in Elements, NEW c \in Elements
             PROVE  GfMul(GfMul(a, b), c) = GfMul(a, GfMul(b, c))
  OBVIOUS
<1>1. CASE a = 0 \/ b = 0 \/ c = 0
  <2>1. 0 \in Elements /\ GfMul(a, b) \in Elements /\ GfMul(b, c) \in Elements
    BY MulType, XorGroup
  <2>2. \A x \in Elements : GfMul(0, x) = 0 /\ GfMul(x, 0) = 0
    BY MulType
  <2> QED
    BY <1>1, <2>1, <2>2
<1>2. CASE a # 0 /\ b # 0 /\ c # 0
  <2>1. PICK l \in Logs : Powers[l] = a
    BY <1>2, PowersType
  <2>2. PICK m \in Logs : Powers[m] = b
    BY <1>2, PowersType
  <2>3. PICK n \in Logs : Powers[n] = c
    BY <1>2, PowersType
  <2> DEFINE x == (l + m) % GroupOrder
             y == (m + n) % GroupOrder
  <2>4. /\ x \in Logs /\ y \in Logs
        /\ GfMul(a, b) = Powers[x] /\ GfMul(b, c) = Powers[y]
    BY <2>1, <2>2, <2>3, MulOfPowers
  <2>5. (x + n) % GroupOrder = (l + y) % GroupOrder
    <3>1. GroupOrder \in Nat \ {0} /\ l \in Nat /\ m \in Nat /\ n \in Nat
      BY LogNumbers
    <3>2. (x + n) % GroupOrder = ((l + m) + n) % GroupOrder
      <4>1. l + m \in Nat
        BY <3>1
      <4> QED
        BY <3>1, <4>1, ModOfSum
    <3>3. (y + l) % GroupOrder = ((m + n) + l) % GroupOrder
      <4>1. m + n \in Nat
        BY <3>1
      <4> QED
        BY <3>1, <4>1, ModOfSum
    <3>4. (l + m) + n = (m + n) + l
      BY <3>1
    <3>5. y \in Nat
      BY <2>4, LogNumbers
    <3> HIDE DEF x, y
    <3>6. l + y = y + l
      BY <3>1, <3>5
    <3> QED
      BY <3>2, <3>3, <3>4, <3>6
  <2> HIDE DEF x, y
  <2>6. /\ GfMul(Powers[x], Powers[n]) = Powers[(x + n) % GroupOrder]
        /\ GfMul(Powers[l], Powers[y]) = Powers[(l + y) % GroupOrder]
    BY <2>4, MulOfPowers
  <2> QED
    BY <2>1, <2>3, <2>4, <2>5, <2>6
<1> QED
  BY <1>1, <1>2

\* Doubling a factor doubles the product.
LEMMA MulOfDouble ==
  \A a, b \in Elements : GfMul(Double(a), b) = Double(GfMul(a, b))
<1> SUFFICES ASSUME NEW a \in Elements, NEW b \in Elements
             PROVE  GfMul(Double(a), b) = Double(GfMul(a, b))
  OBVIOUS
<1>1. CASE a = 0 \/ b = 0
  <2>1. Double(0) = 0 /\ Double(a) \in Elements
    BY DoubleIsLinear
  <2>2. \A x \in Elements : GfMul(0, x) = 0 /\ GfMul(x, 0) = 0
    BY MulType
  <2> QED
    BY <1>1, <2>1, <2>2
<1>2. CASE a # 0 /\ b # 0
  <2>1. PICK m \in Logs : Powers[m] = a
    BY <1>2, PowersType
  <2>2. PICK n \in Logs : Powers[n] = b
    BY <1>2, PowersType
  <2>3. GroupOrder \in Nat \ {0} /\ m \in Nat /\ n \in Nat /\ 1 \in Nat
    BY LogNumbers
  <2> DEFINE x == (m + 1) % GroupOrder
             y == (m + n) % GroupOrder
  <2>4. x \in Logs /\ Double(a) = Powers[x]
    <3>1. m + 1 \in Nat
      BY <2>3
    <3> QED
      BY <2>1, <3>1, PowersGoRound, ExpType
  <2>5. y \in Logs /\ GfMul(a, b) = Powers[y]
    BY <2>1, <2>2, MulOfPowers
  <2>6. (x + n) % GroupOrder = (y + 1) % GroupOrder
    <3>1. (x + n) % GroupOrder = ((m + 1) + n) % GroupOrder
      <4>1. m + 1 \in Nat
        BY <2>3
      <4> QED
        BY <2>3, <4>1, ModOfSum
    <3>2. (y + 1) % GroupOrder = ((m + n) + 1) % GroupOrder
      <4>1. m + n \in Nat
        BY <2>3
      <4> QED
        BY <2>3, <4>1, ModOfSum
    <3>3. (m + 1) + n = (m + n) + 1
      BY <2>3
    <3> QED
      BY <3>1, <3>2, <3>3
  <2> HIDE DEF x, y
  <2>7. GfMul(Powers[x], Powers[n]) = Powers[(x + n) % GroupOrder]
    BY <2>4, MulOfPowers
  <2>8. Double(Powers[y]) = Powers[(y + 1) % GroupOrder]
    BY <2>5, PowersGoRound
  <2> QED
    BY <2>2, <2>4, <2>5, <2>6, <2>7, <2>8
<1> QED
  BY <1>1, <1>2

\* A product with a sum is the sum of the products.
LEMMA MulDistributes ==
  \A a, b, c \in Elements : GfMul(a, b ^^ c) = GfMul(a, b) ^^ GfMul(a, c)
<1> DEFINE Good(a, b, c) == GfMul(a, b ^^ c) = GfMul(a, b) ^^ GfMul(a, c)
           S == {n \in Nat : n \in Logs => \A b, c \in Elements : Good(Powers[n], b, c)}
<1>1. \A b, c \in Elements : b ^^ c \in Elements
  BY XorGroup
<1>2. 0 \in S
  <2>1. Powers[0] = 1
    BY PowersType
  <2>2. \A b \in Elements : GfMul(1, b) = b
    BY MulType
  <2> QED
    BY <1>1, <2>1, <2>2
<1>3. ASSUME NEW n \in Nat, n \in S PROVE n + 1 \in S
  <2> SUFFICES ASSUME n + 1 \in Logs, NEW b \in Elements, NEW c \in Elements
               PROVE  Good(Powers[n + 1], b, c)
    <3> HIDE DEF Good
    <3> QED
      OBVIOUS
  <2>1. n \in Logs
    BY LogNumbers
  <2> DEFINE p == Powers[n]
             d == b ^^ c
             x == GfMul(p, b)
             y == GfMul(p, c)
  <2>2. Powers[n + 1] = Double(p) /\ p \in Elements
    BY <2>1, PowersType
  <2>3. GfMul(p, d) = x ^^ y
    BY <1>3, <2>1
  <2>4. d \in Elements
    BY <1>1
  <2> HIDE DEF p, d
  <2>5. x \in Elements /\ y \in Elements
    BY <2>2, MulType
  <2>6. /\ GfMul(Double(p), d) = Double(GfMul(p, d))
        /\ GfMul(Double(p), b) = Double(x) /\ GfMul(Double(p), c) = Double(y)
    BY <2>2, <2>4, MulOfDouble
  <2> HIDE DEF x, y
  <2>7. Double(x ^^ y) = Double(x) ^^ Double(y)
    BY <2>5, DoubleIsLinear
  <2> QED
    BY <2>2, <2>3, <2>6, <2>7 DEF d
<1>4. Nat \subseteq S
  <2> HIDE DEF S
  <2> QED
    BY <1>2, <1>3, SetInduction
<1> SUFFICES ASSUME NEW a \in Elements, NEW b \in Elements, NEW c \in Elements
             PROVE  Good(a, b, c)
  OBVIOUS
<1>5. CASE a = 0
  <2>1. \A x \in Elements : GfMul(0, x) = 0
    BY MulType
  <2>2. 0 ^^ 0 = 0
    BY XorGroup
  <2> QED
    BY <1>1, <1>5, <2>1, <2>2
<1>6. CASE a # 0
  <2>1. PICK n \in Logs : Powers[n] = a
    BY <1>6, PowersType
  <2>2. n \in Nat
    BY LogNumbers
  <2> HIDE DEF Good
  <2> QED
    BY <1>4, <2>1, <2>2
<1> QED
  BY <1>5, <1>6

\* A quotient times the divisor is the dividend.
LEMMA DivType ==
  \A a \in Elements : \A b \in Elements \ {0} :
    GfDiv(a, b) \in Elements /\ GfMul(GfDiv(a, b), b) = a
<1> SUFFICES ASSUME NEW a \in Elements, NEW b \in Elements \ {0}
             PROVE  GfDiv(a, b) \in Elements /\ GfMul(GfDiv(a, b), b) = a
  OBVIOUS
<1>1. CASE a = 0
  <2>1. GfDiv(a, b) = 0
    BY <1>1 DEF GfDiv
  <2> QED
    BY <1>1, <2>1, MulType, XorGroup
<1>2. CASE a # 0
  <2> DEFINE la == LogTable[a]
             lb == LogTable[b]
             q == IF la >= lb THEN la - lb ELSE la + GroupOrder - lb
  <2>1. la \in Logs /\ Powers[la] = a /\ lb \in Logs /\ Powers[lb] = b
    BY <1>2, LogType
  <2>2. GfDiv(a, b) = ExpTable[q]
    BY <1>2 DEF GfDiv
  <2> HIDE DEF la, lb
  <2>3. /\ GroupOrder \in Nat \ {0} /\ la \in 0 .. GroupOrder - 1 /\ lb \in 0 .. GroupOrder - 1
    BY <2>1, LogNumbers
  <2>4. q \in 0 .. GroupOrder - 1
    BY <2>3
  <2>5. q \in Logs /\ q \in 0 .. 2 * GroupOrder - 1 /\ q < GroupOrder
    BY <2>3, <2>4, LogNumbers
  <2>6. q + lb = la \/ q + lb = la + GroupOrder
    BY <2>3
  <2> HIDE DEF q
  <2>7. q % GroupOrder = q
    BY <2>3, <2>5, ModOnce
  <2>8. GfDiv(a, b) = Powers[q]
    BY <2>2, <2>3, <2>4, <2>7, ExpType
  <2>9. (q + lb) % GroupOrder = la
    <3>1. q + lb \in 0 .. 2 * GroupOrder - 1
      BY <2>3, <2>4
    <3>2. (q + lb) % GroupOrder = IF q + lb < GroupOrder THEN q + lb ELSE (q + lb) - GroupOrder
      BY <2>3, <3>1, ModOnce
    <3> QED
      BY <2>3, <2>4, <2>6, <3>2
  <2>10. GfMul(Powers[q], Powers[lb]) = Powers[la]
    BY <2>1, <2>5, <2>9, MulOfPowers
  <2> QED
    BY <2>1, <2>5, <2>8, <2>10, PowersType
<1> QED
  BY <1>1, <1>2

\* Nothing but the quotient gives the dividend.
LEMMA DivOfProduct ==
  \A a \in Elements : \A b \in Elements \ {0} :
    /\ GfDiv(GfMul(a, b), b) = a
    /\ GfDiv(b, b) = 1 /\ GfDiv(0, b) = 0
<1>1. \A x, y \in Elements : \A b \in Elements \ {0} : GfMul(x, b) = GfMul(y, b) => x = y
  <2> SUFFICES ASSUME NEW x \in Elements, NEW y \in Elements, NEW b \in Elements \ {0},
                      GfMul(x, b) = GfMul(y, b), x # y
               PROVE  FALSE
    OBVIOUS
  <2> DEFINE z == x ^^ y
  <2>1. z \in Elements \ {0}
    BY XorCancels
  <2>2. GfMul(b, z) = GfMul(b, x) ^^ GfMul(b, y)
    BY MulDistributes
  <2> HIDE DEF z
  <2>3. GfMul(b, x) = GfMul(b, y) /\ GfMul(b, x) \in Elements
    BY MulType
  <2>4. GfMul(b, z) = 0
    BY <2>2, <2>3, XorGroup
  <2> QED
    BY <2>1, <2>4, MulType
<1> SUFFICES ASSUME NEW a \in Elements, NEW b \in Elements \ {0}
             PROVE  /\ GfDiv(GfMul(a, b), b) = a
                    /\ GfDiv(b, b) = 1 /\ GfDiv(0, b) = 0
  OBVIOUS
<1>2. 1 \in Elements /\ GfMul(1, b) = b /\ GfMul(a, b) \in Elements
  BY XorGroup, MulType
<1> DEFINE p == GfMul(a, b)
<1>3. GfDiv(p, b) \in Elements /\ GfMul(GfDiv(p, b), b) = p
  <2> HIDE DEF p
  <2> QED
    BY <1>2, DivType DEF p
<1>4. GfDiv(p, b) = a
  BY <1>1, <1>3
<1>5. GfDiv(b, b) \in Elements /\ GfMul(GfDiv(b, b), b) = b
  BY DivType
<1>6. GfDiv(b, b) = 1
  BY <1>1, <1>2, <1>5
<1>7. GfDiv(0, b) = 0
  BY DEF GfDiv
<1> QED
  BY <1>4, <1>6, <1>7

-----------------------------------------------------------------------------
(***************************************************************************)
(* Logarithms against shifts                                               *)
(***************************************************************************)

\* The element a after each number of doublings.
IsShifts(f, a) == f = [i \in Nat |-> IF i = 0 THEN a ELSE Double(f[i - 1])]
Shifts(a) == CHOOSE f : IsShifts(f, a)

LEMMA ShiftsType ==
  ASSUME NEW a \in Elements
  PROVE  /\ Shifts(a)[0] = a
         /\ \A i \in Nat : Shifts(a)[i] \in Elements /\ Shifts(a)[i + 1] = Double(Shifts(a)[i])
<1> DEFINE step == [pair \in Nat \X Elements |-> Double(pair[2])]
           f == Shifts(a)
<1>1. PICK g : FromNumbers(g, Elements, a, step)
  <2>1. step \in [Nat \X Elements -> Elements]
    BY DoubleIsLinear
  <2> HIDE DEF step
  <2> QED
    BY <2>1, NatRecursion
<1>2. g \in [Nat -> Elements] /\ g[0] = a /\ \A i \in Nat : g[i + 1] = Double(g[i])
  BY <1>1 DEF FromNumbers
<1>3. IsShifts(g, a)
  <2>1. ASSUME NEW i \in Nat, i # 0 PROVE g[i] = Double(g[i - 1])
    <3>1. i - 1 \in Nat /\ (i - 1) + 1 = i
      BY <2>1
    <3> QED
      BY <3>1, <1>2
  <2>2. \A i \in Nat : g[i] = IF i = 0 THEN a ELSE Double(g[i - 1])
    BY <1>2, <2>1
  <2> QED
    BY <1>2, <2>2 DEF IsShifts
<1>4. IsShifts(f, a)
  BY <1>3 DEF Shifts
<1> HIDE DEF f
<1>5. f[0] = a
  BY <1>4 DEF IsShifts
<1>6. ASSUME NEW i \in Nat PROVE f[i + 1] = Double(f[i])
  <2> DEFINE m == i + 1
  <2>1. m \in Nat /\ m # 0 /\ m - 1 = i
    OBVIOUS
  <2> HIDE DEF m
  <2>2. f[m] = Double(f[i])
    BY <1>4, <2>1 DEF IsShifts
  <2> QED
    BY <2>2 DEF m
<1> DEFINE S == {i \in Nat : f[i] \in Elements}
<1>7. Nat \subseteq S
  <2>1. 0 \in S /\ \A i \in Nat : i \in S => i + 1 \in S
    BY <1>5, <1>6, DoubleIsLinear
  <2> HIDE DEF S
  <2> QED
    BY <2>1, SetInduction
<1> QED
  BY <1>5, <1>6, <1>7 DEF f

\* The sum of the shifts of a that the lowest bits of b select.
IsSelected(f, a, b) ==
  f = [i \in Nat |->
         IF i = 0 THEN 0
         ELSE IF Bit(b, i - 1) = 1 THEN Shifts(a)[i - 1] ^^ f[i - 1] ELSE f[i - 1]]
Selected(a, b) == CHOOSE f : IsSelected(f, a, b)

LEMMA SelectedType ==
  ASSUME NEW a \in Elements, NEW b \in Elements
  PROVE  /\ PolynomialProduct(a, b) = Selected(a, b)[Width]
         /\ Selected(a, b)[0] = 0
         /\ \A i \in Nat :
              Selected(a, b)[i + 1] = IF Bit(b, i) = 1 THEN Shifts(a)[i] ^^ Selected(a, b)[i]
                                      ELSE Selected(a, b)[i]
<1> DEFINE Next1(i, x) == IF Bit(b, i) = 1 THEN Shifts(a)[i] ^^ x ELSE x
           step == [pair \in Nat \X Elements |-> Next1(pair[1], pair[2])]
           f == Selected(a, b)
<1>1. PICK g : FromNumbers(g, Elements, 0, step)
  <2>1. ASSUME NEW i \in Nat, NEW x \in Elements PROVE Next1(i, x) \in Elements
    <3>1. Shifts(a)[i] \in Elements
      BY ShiftsType
    <3> QED
      BY <3>1, XorGroup
  <2>2. step \in [Nat \X Elements -> Elements] /\ 0 \in Elements
    <3> HIDE DEF Next1
    <3> QED
      BY <2>1, XorGroup
  <2> HIDE DEF step
  <2> QED
    BY <2>2, NatRecursion
<1>2. g \in [Nat -> Elements] /\ g[0] = 0 /\ \A i \in Nat : g[i + 1] = Next1(i, g[i])
  <2> HIDE DEF Next1
  <2> QED
    BY <1>1 DEF FromNumbers
<1>3. IsSelected(g, a, b)
  <2>1. ASSUME NEW i \in Nat, i # 0 PROVE g[i] = Next1(i - 1, g[i - 1])
    <3>1. i - 1 \in Nat /\ (i - 1) + 1 = i
      BY <2>1
    <3> HIDE DEF Next1
    <3> QED
      BY <3>1, <1>2
  <2>2. \A i \in Nat : g[i] = IF i = 0 THEN 0 ELSE Next1(i - 1, g[i - 1])
    <3> HIDE DEF Next1
    <3> QED
      BY <1>2, <2>1
  <2> QED
    BY <1>2, <2>2 DEF IsSelected
<1>4. IsSelected(f, a, b)
  BY <1>3 DEF Selected
<1>5. PolynomialProduct(a, b) = f[Width]
  BY DEF PolynomialProduct, Selected, IsSelected, Shifts, IsShifts
<1> HIDE DEF f
<1>6. f[0] = 0
  BY <1>4 DEF IsSelected
<1>7. ASSUME NEW i \in Nat PROVE f[i + 1] = Next1(i, f[i])
  <2> DEFINE m == i + 1
  <2>1. m \in Nat /\ m # 0 /\ m - 1 = i
    OBVIOUS
  <2> HIDE DEF m
  <2>2. f[m] = Next1(i, f[i])
    BY <1>4, <2>1 DEF IsSelected
  <2> QED
    BY <2>2 DEF m
<1> QED
  BY <1>5, <1>6, <1>7 DEF f

\* The powers of two below the size of the field are elements, and twice them their doubles.
LEMMA BitsInField ==
  \A i \in Nat : i < Width =>
    /\ Pow2[i] \in Elements
    /\ i + 1 < Width => Double(Pow2[i]) = Pow2[i + 1]
<1> SUFFICES ASSUME NEW i \in Nat, i < Width
             PROVE  /\ Pow2[i] \in Elements
                    /\ i + 1 < Width => Double(Pow2[i]) = Pow2[i + 1]
  OBVIOUS
<1>1. /\ Width \in Nat /\ GfSize = Pow2[Width] /\ GfSize \in Nat
      /\ Elements = 0 .. GfSize - 1
  BY FieldAssumption, FieldNumbers
<1>2. ASSUME NEW j \in Nat, j < Width PROVE Pow2[j] \in Nat /\ 2 * Pow2[j] = Pow2[j + 1]
                                            /\ Pow2[j] < GfSize
  <2>1. j + 1 \in 0 .. Width
    BY <1>1, <1>2
  <2>2. Pow2[j + 1] <= GfSize
    BY <1>1, <2>1, Pow2Grows
  <2>3. Pow2[j] \in Nat \ {0} /\ Pow2[j + 1] = 2 * Pow2[j]
    BY <1>2, Pow2Type
  <2> QED
    BY <1>1, <2>2, <2>3
<1>3. Pow2[i] \in Elements
  BY <1>1, <1>2
<1>4. ASSUME i + 1 < Width PROVE Double(Pow2[i]) = Pow2[i + 1]
  <2>1. Pow2[i + 1] < GfSize /\ 2 * Pow2[i] = Pow2[i + 1]
    BY <1>2, <1>4
  <2> QED
    BY <2>1 DEF Double
<1> QED
  BY <1>3, <1>4

\* A bit above all others is added like a number.
LEMMA XorOfHigherBit ==
  \A i \in Nat : i < Width =>
    \A x \in Elements : x < Pow2[i] => Pow2[i] ^^ x = Pow2[i] + x
<1> DEFINE Good(i, w, x) == Xor[w][Pow2[i]][x] = Pow2[i] + x
           S == {i \in Nat : \A w \in Nat : i < w /\ w <= Width =>
                   \A x \in Elements : x < Pow2[i] => Good(i, w, x)}
<1>1. Width \in Nat /\ Elements \subseteq Nat /\ \A x \in Elements : x \div 2 \in Elements
  BY FieldAssumption, FieldNumbers
<1>2. 0 \in S
  <2> SUFFICES ASSUME NEW w \in Nat, 0 < w, w <= Width, NEW x \in Elements, x < Pow2[0]
               PROVE  Good(0, w, x)
    <3> HIDE DEF Good
    <3> QED
      OBVIOUS
  <2>1. Pow2[0] = 1 /\ x = 0
    BY <1>1, Pow2Type
  <2>2. 1 < Pow2[w]
    <3>1. Pow2[1] = 2 * Pow2[0] /\ Pow2[1] <= Pow2[w] /\ Pow2[w] \in Nat
      <4>1. 1 \in 0 .. w /\ 0 + 1 = 1
        OBVIOUS
      <4> QED
        BY <4>1, Pow2Grows, Pow2Type
    <3> QED
      BY <2>1, <3>1
  <2>3. Xor[w][1][0] = 1
    BY <2>2, XorBits, XorGroup
  <2> QED
    BY <2>1, <2>3
<1>3. ASSUME NEW i \in Nat, i \in S PROVE i + 1 \in S
  <2>1. SUFFICES ASSUME NEW w \in Nat, i + 1 < w, w <= Width, NEW x \in Elements, x < Pow2[i + 1]
                 PROVE  Good(i + 1, w, x)
    <3> HIDE DEF Good
    <3> QED
      OBVIOUS
  <2> DEFINE v == w - 1
             p == Pow2[i]
             q == Pow2[i + 1]
             h == x \div 2
  <2>2. v \in Nat /\ i < v /\ v <= Width /\ w = v + 1 /\ i + 1 < Width
    BY <1>1, <2>1
  <2>3. p \in Nat /\ q = 2 * p /\ x \in Nat
    BY <1>1, Pow2Type
  <2>4. h \in Elements /\ h < p /\ x = (x % 2) + 2 * h /\ x % 2 \in {0, 1} /\ h \in Nat
    BY <1>1, <2>1, <2>3, Halves
  <2>5. Xor[v][p][h] = p + h
    <3>1. Good(i, v, h)
      <4> HIDE DEF Good, h, v
      <4> QED
        BY <1>3, <2>2, <2>4
    <3> QED
      BY <3>1
  <2>6. q \in Elements /\ q \div 2 = p /\ (q + x) % 2 = x % 2
    <3>1. q \in Elements
      BY <2>2, BitsInField
    <3> QED
      BY <2>3, <3>1
  <2> HIDE DEF p, q, h, v
  <2>7. Xor[v + 1][q][x] = ((q + x) % 2) + 2 * Xor[v][q \div 2][x \div 2]
    BY <2>2, <2>6, XorSteps
  <2>8. Xor[v + 1][q][x] = q + x
    BY <2>3, <2>4, <2>5, <2>6, <2>7 DEF h
  <2> QED
    BY <2>2, <2>8 DEF q
<1>4. Nat \subseteq S
  <2> HIDE DEF S
  <2> QED
    BY <1>2, <1>3, SetInduction
<1> SUFFICES ASSUME NEW i \in Nat, i < Width, NEW x \in Elements, x < Pow2[i]
             PROVE  Pow2[i] ^^ x = Pow2[i] + x
  OBVIOUS
<1>5. Good(i, Width, x)
  <2> HIDE DEF Good
  <2> QED
    BY <1>1, <1>4
<1>6. Pow2[i] \in Elements
  BY BitsInField
<1> QED
  BY <1>5, <1>6, XorSteps

\* A remainder with one bit more.
LEMMA BitOfRemainder ==
  ASSUME NEW b \in Nat, NEW i \in Nat
  PROVE  /\ b % Pow2[i] \in Nat /\ b % Pow2[i] < Pow2[i]
         /\ b % Pow2[i + 1] = IF Bit(b, i) = 1 THEN Pow2[i] + (b % Pow2[i]) ELSE b % Pow2[i]
<1> DEFINE p == Pow2[i]
           q == b \div p
           r == b % p
           u == q \div 2
           v == q % 2
           s == IF v = 1 THEN p + r ELSE r
<1>1. p \in Nat \ {0} /\ Pow2[i + 1] = 2 * p
  BY Pow2Type
<1>2. Bit(b, i) = v
  BY DEF Bit
<1> HIDE DEF p
<1>3. q \in Nat /\ r \in 0 .. p - 1 /\ b = p * q + r
  BY <1>1
<1> HIDE DEF q, r
<1>4. u \in Nat /\ v \in {0, 1} /\ q = 2 * u + v
  BY <1>3
<1> HIDE DEF u, v
<1>5. s \in 0 .. (2 * p) - 1
  BY <1>1, <1>3, <1>4
<1>6. b = (2 * p) * u + s
  <2>1. CASE v = 0
    BY <1>1, <1>3, <1>4, <2>1
  <2>2. CASE v = 1
    BY <1>1, <1>3, <1>4, <2>2
  <2> QED
    BY <1>4, <2>1, <2>2
<1> DEFINE m == 2 * p
<1>7. m \in Nat \ {0} /\ s \in 0 .. m - 1 /\ b = m * u + s
  BY <1>1, <1>5, <1>6
<1> HIDE DEF m, s
<1>8. b % m = s
  BY <1>4, <1>7, DivisionIsUnique
<1> QED
  BY <1>1, <1>2, <1>3, <1>8 DEF m, s, r, p

\* Multiplying by logarithms is multiplying in the field (gf_mul over the tables of
\* init_tables): the sum of the shifts, for every width and every pair of elements.
LEMMA ProductsAreShifts ==
  \A a, b \in Elements : GfMul(a, b) = PolynomialProduct(a, b)
<1> SUFFICES ASSUME NEW a \in Elements, NEW b \in Elements
             PROVE  GfMul(a, b) = PolynomialProduct(a, b)
  OBVIOUS
<1>1. /\ Width \in Nat /\ Elements \subseteq Nat /\ Elements = 0 .. Pow2[Width] - 1
      /\ Pow2[Width] \in Nat
  BY FieldAssumption, FieldNumbers
<1> DEFINE T == {i \in Nat : i < Width => Shifts(a)[i] = GfMul(a, Pow2[i])}
<1>2. Nat \subseteq T
  <2>1. 0 \in T
    <3>1. Pow2[0] = 1 /\ Shifts(a)[0] = a
      BY Pow2Type, ShiftsType
    <3> QED
      BY <3>1, MulType
  <2>2. ASSUME NEW i \in Nat, i \in T PROVE i + 1 \in T
    <3> SUFFICES ASSUME i + 1 < Width PROVE Shifts(a)[i + 1] = GfMul(a, Pow2[i + 1])
      OBVIOUS
    <3> DEFINE p == Pow2[i]
               q == Pow2[i + 1]
    <3>1. i < Width /\ p \in Elements /\ Double(p) = q
      BY <1>1, BitsInField
    <3>2. Shifts(a)[i + 1] = Double(GfMul(a, p))
      BY <2>2, <3>1, ShiftsType
    <3>3. q \in Elements
      BY BitsInField
    <3> HIDE DEF p, q
    <3>4. GfMul(a, p) = GfMul(p, a) /\ GfMul(Double(p), a) = Double(GfMul(p, a))
      BY <3>1, MulType, MulOfDouble
    <3>5. GfMul(q, a) = GfMul(a, q)
      BY <3>3, MulType
    <3>6. Shifts(a)[i + 1] = GfMul(a, q)
      BY <3>1, <3>2, <3>4, <3>5
    <3> QED
      BY <3>6 DEF q
  <2> HIDE DEF T
  <2> QED
    BY <2>1, <2>2, SetInduction
<1> DEFINE S == {i \in Nat : i <= Width => Selected(a, b)[i] = GfMul(a, b % Pow2[i])}
<1>3. 0 \in S
  <2>1. Pow2[0] = 1 /\ b % 1 = 0 /\ Selected(a, b)[0] = 0
    <3>1. b \in Nat /\ 1 \in Nat \ {0} /\ 0 \in 0 .. 1 - 1 /\ b = 1 * b + 0
      BY <1>1
    <3>2. b % 1 = 0
      BY <3>1, DivisionIsUnique
    <3> QED
      BY <3>2, Pow2Type, SelectedType
  <2> QED
    BY <2>1, MulType
<1>4. ASSUME NEW i \in Nat, i \in S PROVE i + 1 \in S
  <2> SUFFICES ASSUME i + 1 <= Width PROVE Selected(a, b)[i + 1] = GfMul(a, b % Pow2[i + 1])
    OBVIOUS
  <2> DEFINE p == Pow2[i]
             r == b % p
  <2>1. i < Width /\ i <= Width
    BY <1>1
  <2>2. Shifts(a)[i] = GfMul(a, p) /\ p \in Elements
    BY <1>2, <2>1, BitsInField
  <2>3. Selected(a, b)[i] = GfMul(a, r)
    BY <1>4, <2>1
  <2>4. r \in Nat /\ r < p /\ b % Pow2[i + 1] = IF Bit(b, i) = 1 THEN p + r ELSE r
    BY <1>1, BitOfRemainder
  <2> HIDE DEF r
  <2>5. r \in Elements
    BY <1>1, <2>2, <2>4
  <2>6. p ^^ r = p + r
    BY <2>1, <2>4, <2>5, XorOfHigherBit
  <2>7. Selected(a, b)[i + 1] = IF Bit(b, i) = 1 THEN GfMul(a, p) ^^ GfMul(a, r) ELSE GfMul(a, r)
    BY <2>2, <2>3, SelectedType
  <2>8. GfMul(a, p ^^ r) = GfMul(a, p) ^^ GfMul(a, r)
    BY <2>2, <2>5, MulDistributes
  <2> QED
    BY <2>4, <2>6, <2>7, <2>8
<1>5. Nat \subseteq S
  <2> HIDE DEF S
  <2> QED
    BY <1>3, <1>4, SetInduction
<1>6. Selected(a, b)[Width] = GfMul(a, b % Pow2[Width])
  BY <1>1, <1>5
<1>7. b % Pow2[Width] = b
  <2> DEFINE m == Pow2[Width]
  <2>1. m \in Nat \ {0} /\ b \in 0 .. m - 1
    BY <1>1, Pow2Type
  <2> HIDE DEF m
  <2>2. b \in 0 .. 2 * m - 1 /\ b < m
    BY <2>1
  <2>3. b % m = b
    BY <2>1, <2>2, ModOnce
  <2> QED
    BY <2>3 DEF m
<1> QED
  BY <1>6, <1>7, SelectedType

-----------------------------------------------------------------------------
(***************************************************************************)
(* Sums in the field                                                       *)
(***************************************************************************)

\* The values of f added up over each subset of S.
XorsUp(iter, f, S) ==
  iter = [s \in SUBSET S |->
            IF s = {} THEN 0
            ELSE f[CHOOSE x \in s : TRUE] ^^ iter[s \ {CHOOSE x \in s : TRUE}]]

\* What MapThenSumSet and FoldSeq compute.
XorIter(f, S) == CHOOSE iter : XorsUp(iter, f, S)

\* The sum exists: it is a number for each subset, and one element more adds its value.
LEMMA XorSums ==
  ASSUME NEW S, IsFiniteSet(S), NEW f, \A x \in S : f[x] \in Elements
  PROVE  XorIter(f, S) \in [SUBSET S -> Elements] /\ XorsUp(XorIter(f, S), f, S)
<1> DEFINE pick == [s \in SUBSET S |-> CHOOSE x \in s : TRUE]
           step == [pair \in (SUBSET S) \X Elements |->
                      IF pair[1] = {} THEN 0 ELSE f[pick[pair[1]]] ^^ pair[2]]
<1>1. \A s \in SUBSET S : s # {} => pick[s] \in s
  OBVIOUS
<1>2. step \in [(SUBSET S) \X Elements -> Elements]
  BY <1>1, XorGroup
<1>3. PICK g : FromSubsets(g, S, Elements, 0, step, pick)
  <2> HIDE DEF step, pick
  <2>1. 0 \in Elements
    BY XorGroup
  <2> QED
    BY <1>1, <1>2, <2>1, SubsetRecursion
<1>4. /\ g \in [SUBSET S -> Elements] /\ g[{}] = 0
      /\ \A s \in SUBSET S : s # {} => g[s] = step[<<s, g[s \ {pick[s]}]>>]
  <2> HIDE DEF step, pick
  <2> QED
    BY <1>3 DEF FromSubsets
<1>5. XorsUp(g, f, S)
  <2>1. ASSUME NEW s \in SUBSET S, s # {}
        PROVE  g[s] = f[CHOOSE x \in s : TRUE] ^^ g[s \ {CHOOSE x \in s : TRUE}]
    <3>1. s \ {pick[s]} \in SUBSET S
      OBVIOUS
    <3>2. g[s \ {pick[s]}] \in Elements
      BY <1>4, <3>1
    <3>3. step[<<s, g[s \ {pick[s]}]>>] = f[pick[s]] ^^ g[s \ {pick[s]}]
      BY <2>1, <3>2
    <3> QED
      BY <1>4, <2>1, <3>3
  <2>2. g = [s \in SUBSET S |-> IF s = {} THEN 0
               ELSE f[CHOOSE x \in s : TRUE] ^^ g[s \ {CHOOSE x \in s : TRUE}]]
    <3> HIDE DEF step, pick
    <3>1. ASSUME NEW s \in SUBSET S
          PROVE  g[s] = IF s = {} THEN 0
                        ELSE f[CHOOSE x \in s : TRUE] ^^ g[s \ {CHOOSE x \in s : TRUE}]
      BY <1>4, <2>1
    <3> QED
      BY <1>4, <3>1
  <2> QED
    BY <2>2 DEF XorsUp
<1> DEFINE iter == XorIter(f, S)
<1>6. XorsUp(iter, f, S)
  BY <1>5 DEF XorIter
<1>7. ASSUME NEW s \in SUBSET S PROVE IsFiniteSet(s) /\ Cardinality(s) \in Nat
  BY FS_Subset, FS_CardinalityType
<1> DEFINE T == {n \in Nat : \A s \in SUBSET S : Cardinality(s) = n => iter[s] \in Elements}
<1> HIDE DEF iter
<1>8. 0 \in T
  <2> SUFFICES ASSUME NEW s \in SUBSET S, Cardinality(s) = 0 PROVE iter[s] \in Elements
    OBVIOUS
  <2>1. s = {}
    BY <1>7, FS_EmptySet
  <2> QED
    BY <2>1, <1>6, XorGroup DEF XorsUp
<1>9. ASSUME NEW n \in Nat, n \in T PROVE n + 1 \in T
  <2> SUFFICES ASSUME NEW s \in SUBSET S, Cardinality(s) = n + 1 PROVE iter[s] \in Elements
    OBVIOUS
  <2> DEFINE x == CHOOSE y \in s : TRUE
  <2>1. s # {}
    BY FS_EmptySet
  <2>2. x \in s
    BY <2>1
  <2>3. Cardinality(s \ {x}) = n /\ s \ {x} \in SUBSET S
    <3> HIDE DEF x
    <3>1. Cardinality(s \ {x}) = Cardinality(s) - 1
      BY <1>7, <2>2, FS_RemoveElement
    <3> QED
      BY <3>1
  <2>4. iter[s] = f[x] ^^ iter[s \ {x}]
    BY <1>6, <2>1 DEF XorsUp
  <2>5. iter[s \ {x}] \in Elements
    BY <2>3, <1>9
  <2>6. f[x] \in Elements
    BY <2>2
  <2> DEFINE rest == iter[s \ {x}]
  <2>7. f[x] ^^ rest \in Elements
    <3> HIDE DEF x, rest, T
    <3> QED
      BY <2>5, <2>6, XorGroup DEF rest
  <2> QED
    BY <2>4, <2>5, <2>6, <2>7
<1>10. Nat \subseteq T
  <2> HIDE DEF T
  <2> QED
    BY <1>8, <1>9, SetInduction
<1>11. \A s \in SUBSET S : iter[s] \in Elements
  BY <1>7, <1>10
<1>12. iter \in [SUBSET S -> Elements]
  BY <1>6, <1>11 DEF XorsUp
<1> QED
  BY <1>6, <1>12 DEF iter
\* The sum of the values of f over S.
Summed(f, S) == XorIter(f, S)[S]

\* Summing up a part of S is the same as summing up on the way to the sum over S.
LEMMA XorSumsAgree ==
  ASSUME NEW S, IsFiniteSet(S), NEW f, \A x \in S : f[x] \in Elements, NEW A \in SUBSET S
  PROVE  XorIter(f, S)[A] = Summed(f, A)
<1> DEFINE big == XorIter(f, S)
           part == XorIter(f, A)
<1>1. IsFiniteSet(A) /\ \A x \in A : f[x] \in Elements
  BY FS_Subset
<1>2. \A s \in SUBSET A : IsFiniteSet(s) /\ Cardinality(s) \in Nat
  BY <1>1, FS_Subset, FS_CardinalityType
<1>3. ASSUME NEW s \in SUBSET A
      PROVE  /\ s = {} => big[s] = 0 /\ part[s] = 0
             /\ s # {} =>
                  /\ big[s] = f[CHOOSE x \in s : TRUE] ^^ big[s \ {CHOOSE x \in s : TRUE}]
                  /\ part[s] = f[CHOOSE x \in s : TRUE] ^^ part[s \ {CHOOSE x \in s : TRUE}]
  <2>1. s \in SUBSET S
    OBVIOUS
  <2>2. XorsUp(big, f, S) /\ XorsUp(part, f, A)
    BY <1>1, XorSums
  <2> HIDE DEF big, part
  <2>4. big[s] = IF s = {} THEN 0
                 ELSE f[CHOOSE x \in s : TRUE] ^^ big[s \ {CHOOSE x \in s : TRUE}]
    BY <2>1, <2>2 DEF XorsUp
  <2>5. part[s] = IF s = {} THEN 0
                  ELSE f[CHOOSE x \in s : TRUE] ^^ part[s \ {CHOOSE x \in s : TRUE}]
    BY <2>2 DEF XorsUp
  <2> QED
    BY <2>4, <2>5
<1> HIDE DEF big, part
<1> DEFINE T == {n \in Nat : \A s \in SUBSET A : Cardinality(s) = n => big[s] = part[s]}
<1>4. 0 \in T
  <2> SUFFICES ASSUME NEW s \in SUBSET A, Cardinality(s) = 0 PROVE big[s] = part[s]
    OBVIOUS
  <2>1. s = {}
    BY <1>2, FS_EmptySet
  <2> QED
    BY <1>3, <2>1
<1>5. ASSUME NEW n \in Nat, n \in T PROVE n + 1 \in T
  <2> SUFFICES ASSUME NEW s \in SUBSET A, Cardinality(s) = n + 1 PROVE big[s] = part[s]
    OBVIOUS
  <2> DEFINE x == CHOOSE y \in s : TRUE
  <2>1. s # {}
    BY FS_EmptySet
  <2>2. x \in s
    BY <2>1
  <2>3. Cardinality(s \ {x}) = n
    <3> HIDE DEF x
    <3>1. Cardinality(s \ {x}) = Cardinality(s) - 1
      BY <1>2, <2>2, FS_RemoveElement
    <3> QED
      BY <3>1
  <2>4. big[s \ {x}] = part[s \ {x}]
    BY <2>3, <1>5
  <2> QED
    BY <1>3, <2>1, <2>4
<1>6. Nat \subseteq T
  <2> HIDE DEF T
  <2> QED
    BY <1>4, <1>5, SetInduction
<1>7. big[A] = part[A]
  BY <1>2, <1>6
<1> QED
  BY <1>7 DEF big, part, Summed

\* A sum is a number, and nothing sums up to zero.
LEMMA SummedType ==
  ASSUME NEW S, IsFiniteSet(S), NEW f, \A x \in S : f[x] \in Elements
  PROVE  Summed(f, S) \in Elements /\ (S = {} => Summed(f, S) = 0)
<1> DEFINE iter == XorIter(f, S)
<1>1. iter \in [SUBSET S -> Elements]
  BY XorSums
<1>2. XorsUp(iter, f, S)
  BY XorSums
<1> HIDE DEF iter
<1>3. S = {} => iter[S] = 0
  BY <1>2 DEF XorsUp
<1> QED
  BY <1>1, <1>3 DEF iter, Summed

\* The element taken out first.
LEMMA SummedChosen ==
  ASSUME NEW S, IsFiniteSet(S), NEW f, \A x \in S : f[x] \in Elements, S # {}
  PROVE  Summed(f, S) = f[CHOOSE x \in S : TRUE] ^^ Summed(f, S \ {CHOOSE x \in S : TRUE})
<1> DEFINE iter == XorIter(f, S)
           y == CHOOSE x \in S : TRUE
<1>1. XorsUp(iter, f, S)
  BY XorSums
<1>2. iter[S \ {y}] = Summed(f, S \ {y})
  <2> HIDE DEF y
  <2> QED
    BY XorSumsAgree
<1> HIDE DEF iter
<1>3. iter[S] = f[y] ^^ iter[S \ {y}]
  BY <1>1 DEF XorsUp
<1> QED
  BY <1>2, <1>3 DEF iter, Summed

\* The order does not matter: any element can be taken out first.
LEMMA SummedOneMore ==
  ASSUME NEW S, IsFiniteSet(S), NEW f, \A x \in S : f[x] \in Elements
  PROVE  \A x \in S : Summed(f, S) = f[x] ^^ Summed(f, S \ {x})
<1> DEFINE T == {n \in Nat : \A s \in SUBSET S : Cardinality(s) = n =>
                   \A x \in s : Summed(f, s) = f[x] ^^ Summed(f, s \ {x})}
<1>1. \A s \in SUBSET S : /\ IsFiniteSet(s) /\ Cardinality(s) \in Nat
                          /\ \A x \in s : f[x] \in Elements
                          /\ Summed(f, s) \in Elements
  <2>1. \A s \in SUBSET S : IsFiniteSet(s) /\ \A x \in s : f[x] \in Elements
    BY FS_Subset
  <2> QED
    BY <2>1, FS_CardinalityType, SummedType
<1>2. 0 \in T
  <2>1. \A s \in SUBSET S : Cardinality(s) = 0 => s = {}
    BY <1>1, FS_EmptySet
  <2> QED
    BY <2>1
<1>3. ASSUME NEW n \in Nat, n \in T PROVE n + 1 \in T
  <2> SUFFICES ASSUME NEW s \in SUBSET S, Cardinality(s) = n + 1, NEW x \in s
               PROVE  Summed(f, s) = f[x] ^^ Summed(f, s \ {x})
    OBVIOUS
  <2> DEFINE y == CHOOSE z \in s : TRUE
  <2>1. Summed(f, s) = f[y] ^^ Summed(f, s \ {y}) /\ y \in s
    BY <1>1, SummedChosen
  <2> HIDE DEF y
  <2>2. CASE y = x
    BY <2>1, <2>2
  <2>3. CASE y # x
    <3>1. Cardinality(s \ {x}) = n /\ Cardinality(s \ {y}) = n
      <4>1. /\ Cardinality(s \ {x}) = Cardinality(s) - 1
            /\ Cardinality(s \ {y}) = Cardinality(s) - 1
        BY <1>1, <2>1, FS_RemoveElement
      <4> QED
        BY <4>1
    <3>2. y \in s \ {x} /\ x \in s \ {y} /\ (s \ {x}) \ {y} = (s \ {y}) \ {x}
      BY <2>1, <2>3
    <3>3. /\ Summed(f, s \ {y}) = f[x] ^^ Summed(f, (s \ {y}) \ {x})
          /\ Summed(f, s \ {x}) = f[y] ^^ Summed(f, (s \ {x}) \ {y})
      BY <3>1, <3>2, <1>3
    <3> DEFINE rest == Summed(f, (s \ {y}) \ {x})
    <3>4. rest \in Elements /\ f[x] \in Elements /\ f[y] \in Elements
      BY <1>1, <2>1
    <3>5. Summed(f, s \ {y}) = f[x] ^^ rest /\ Summed(f, s \ {x}) = f[y] ^^ rest
      BY <3>2, <3>3
    <3> HIDE DEF rest
    <3>6. f[y] ^^ (f[x] ^^ rest) = f[x] ^^ (f[y] ^^ rest)
      <4>1. \A a, b, c \in Elements : a ^^ (b ^^ c) = b ^^ (a ^^ c)
        <5> SUFFICES ASSUME NEW a \in Elements, NEW b \in Elements, NEW c \in Elements
                     PROVE  a ^^ (b ^^ c) = b ^^ (a ^^ c)
          OBVIOUS
        <5>1. a ^^ (b ^^ c) = (a ^^ b) ^^ c /\ b ^^ (a ^^ c) = (b ^^ a) ^^ c
          BY XorGroup
        <5> QED
          BY <5>1, XorGroup
      <4> QED
        BY <3>4, <4>1
    <3> QED
      BY <2>1, <3>5, <3>6
  <2> QED
    BY <2>2, <2>3
<1>4. Nat \subseteq T
  <2> HIDE DEF T
  <2> QED
    BY <1>2, <1>3, SetInduction
<1> QED
  BY <1>1, <1>4

\* It is what GfSum computes.
LEMMA GfSumIsSummed ==
  ASSUME NEW f
  PROVE  GfSum(f) = Summed(f, DOMAIN f)
BY DEF GfSum, FoldFunction, FoldFunctionOnSet, MapThenFoldSet, Summed, XorIter, XorsUp

\* A property of nothing that one element more keeps is a property of a finite set.
LEMMA SubsetInduction ==
  ASSUME NEW S, IsFiniteSet(S), NEW T, {} \in T,
         \A s \in SUBSET S : \A x \in S \ s : s \in T => s \cup {x} \in T
  PROVE  S \in T
<1> DEFINE N == {n \in Nat : \A s \in SUBSET S : Cardinality(s) = n => s \in T}
<1>1. ASSUME NEW s \in SUBSET S PROVE IsFiniteSet(s) /\ Cardinality(s) \in Nat
  BY FS_Subset, FS_CardinalityType
<1>2. 0 \in N
  BY <1>1, FS_EmptySet
<1>3. ASSUME NEW n \in Nat, n \in N PROVE n + 1 \in N
  <2> SUFFICES ASSUME NEW s \in SUBSET S, Cardinality(s) = n + 1 PROVE s \in T
    OBVIOUS
  <2>0. s # {}
    <3>1. Cardinality({}) = 0 /\ n + 1 # 0
      BY FS_EmptySet
    <3> QED
      BY <3>1
  <2>1. PICK x \in s : TRUE
    BY <2>0
  <2>2. Cardinality(s \ {x}) = n
    <3>1. Cardinality(s \ {x}) = Cardinality(s) - 1
      BY <1>1, FS_RemoveElement
    <3> QED
      BY <3>1
  <2>3. s \ {x} \in SUBSET S /\ x \in S \ (s \ {x}) /\ (s \ {x}) \cup {x} = s
    OBVIOUS
  <2>4. s \ {x} \in T
    BY <2>2, <2>3, <1>3
  <2>5. (s \ {x}) \cup {x} \in T
    BY <2>3, <2>4
  <2> QED
    BY <2>3, <2>5
<1>4. Nat \subseteq N
  <2> HIDE DEF N
  <2> QED
    BY <1>2, <1>3, SetInduction
<1> QED
  BY <1>1, <1>4

\* What a sum is made of: elements of the field, nothing sums up to 0, and the elements can be
\* added one by one in any order.
LEMMA GfSumType ==
  ASSUME NEW S, IsFiniteSet(S), NEW f \in [S -> Elements]
  PROVE  /\ GfSum(f) \in Elements
         /\ S = {} => GfSum(f) = 0
         /\ \A s \in SUBSET S : Summed(f, s) \in Elements
         /\ Summed(f, {}) = 0 /\ Summed(f, S) = GfSum(f)
         /\ \A s \in SUBSET S : \A x \in S \ s : Summed(f, s \cup {x}) = f[x] ^^ Summed(f, s)
<1>1. GfSum(f) = Summed(f, S)
  BY GfSumIsSummed
<1>2. ASSUME NEW s \in SUBSET S
      PROVE  IsFiniteSet(s) /\ (\A x \in s : f[x] \in Elements) /\ Summed(f, s) \in Elements
  <2>1. IsFiniteSet(s) /\ \A x \in s : f[x] \in Elements
    BY FS_Subset
  <2> QED
    BY <2>1, SummedType
<1>3. Summed(f, {}) = 0
  <2>1. IsFiniteSet({}) /\ \A x \in {} : f[x] \in Elements
    BY FS_EmptySet
  <2> QED
    BY <2>1, SummedType
<1>4. ASSUME NEW s \in SUBSET S, NEW x \in S \ s
      PROVE  Summed(f, s \cup {x}) = f[x] ^^ Summed(f, s)
  <2>1. s \cup {x} \in SUBSET S /\ (s \cup {x}) \ {x} = s /\ x \in s \cup {x}
    OBVIOUS
  <2>2. IsFiniteSet(s \cup {x}) /\ \A y \in s \cup {x} : f[y] \in Elements
    BY <2>1, <1>2
  <2>3. \A y \in s \cup {x} : Summed(f, s \cup {x}) = f[y] ^^ Summed(f, (s \cup {x}) \ {y})
    BY <2>2, SummedOneMore
  <2> QED
    BY <2>1, <2>3
<1> QED
  BY <1>1, <1>2, <1>3, <1>4

\* A sum does not look outside of the set.
LEMMA SummedRestricted ==
  ASSUME NEW S, IsFiniteSet(S), NEW f \in [S -> Elements], NEW A \in SUBSET S
  PROVE  IsFiniteSet(A) /\ GfSum([x \in A |-> f[x]]) = Summed(f, A)
<1> DEFINE g == [x \in A |-> f[x]]
           T == {s \in SUBSET A : Summed(g, s) = Summed(f, s)}
<1>1. IsFiniteSet(A) /\ g \in [A -> Elements]
  BY FS_Subset
<1>2. /\ Summed(g, {}) = 0 /\ Summed(g, A) = GfSum(g)
      /\ \A s \in SUBSET A : \A x \in A \ s : Summed(g, s \cup {x}) = g[x] ^^ Summed(g, s)
  <2> HIDE DEF g
  <2> QED
    BY <1>1, GfSumType
<1>3. /\ Summed(f, {}) = 0
      /\ \A s \in SUBSET S : \A x \in S \ s : Summed(f, s \cup {x}) = f[x] ^^ Summed(f, s)
  BY GfSumType
<1>4. {} \in T
  BY <1>2, <1>3
<1>5. ASSUME NEW s \in SUBSET A, NEW x \in A \ s, s \in T PROVE s \cup {x} \in T
  <2>1. g[x] = f[x] /\ Summed(g, s) = Summed(f, s) /\ s \cup {x} \in SUBSET A
    BY <1>5
  <2>2. s \in SUBSET S /\ x \in S \ s
    OBVIOUS
  <2> HIDE DEF g
  <2>3. Summed(g, s \cup {x}) = g[x] ^^ Summed(g, s)
    BY <1>2
  <2>4. Summed(f, s \cup {x}) = f[x] ^^ Summed(f, s)
    BY <1>3, <2>2
  <2> QED
    BY <2>1, <2>3, <2>4
<1>6. A \in T
  <2> HIDE DEF T, g
  <2> QED
    BY <1>1, <1>4, <1>5, SubsetInduction
<1> QED
  BY <1>1, <1>2, <1>6

\* The sum of sums.
LEMMA GfSumOfXors ==
  ASSUME NEW S, IsFiniteSet(S), NEW f \in [S -> Elements], NEW g \in [S -> Elements]
  PROVE  GfSum([x \in S |-> f[x] ^^ g[x]]) = GfSum(f) ^^ GfSum(g)
<1> DEFINE h == [x \in S |-> f[x] ^^ g[x]]
           T == {s \in SUBSET S : Summed(h, s) = Summed(f, s) ^^ Summed(g, s)}
<1>1. h \in [S -> Elements]
  BY XorGroup
<1>2. \A x \in S : h[x] = f[x] ^^ g[x]
  OBVIOUS
<1> HIDE DEF h
<1>3. /\ Summed(h, {}) = 0 /\ Summed(h, S) = GfSum(h)
      /\ \A s \in SUBSET S : \A x \in S \ s : Summed(h, s \cup {x}) = h[x] ^^ Summed(h, s)
  BY <1>1, GfSumType
<1>4. /\ Summed(f, {}) = 0 /\ Summed(f, S) = GfSum(f)
      /\ \A s \in SUBSET S : Summed(f, s) \in Elements
      /\ \A s \in SUBSET S : \A x \in S \ s : Summed(f, s \cup {x}) = f[x] ^^ Summed(f, s)
  BY GfSumType
<1>5. /\ Summed(g, {}) = 0 /\ Summed(g, S) = GfSum(g)
      /\ \A s \in SUBSET S : Summed(g, s) \in Elements
      /\ \A s \in SUBSET S : \A x \in S \ s : Summed(g, s \cup {x}) = g[x] ^^ Summed(g, s)
  BY GfSumType
<1>6. {} \in T
  BY <1>3, <1>4, <1>5, XorGroup
<1>7. ASSUME NEW s \in SUBSET S, NEW x \in S \ s, s \in T PROVE s \cup {x} \in T
  <2> DEFINE u == Summed(f, s)
             v == Summed(g, s)
  <2>1. Summed(h, s) = u ^^ v /\ u \in Elements /\ v \in Elements
    BY <1>4, <1>5, <1>7
  <2>2. /\ Summed(h, s \cup {x}) = (f[x] ^^ g[x]) ^^ (u ^^ v)
        /\ Summed(f, s \cup {x}) = f[x] ^^ u /\ Summed(g, s \cup {x}) = g[x] ^^ v
    BY <1>2, <1>3, <1>4, <1>5, <2>1
  <2> HIDE DEF u, v
  <2>3. f[x] \in Elements /\ g[x] \in Elements
    OBVIOUS
  <2>4. (f[x] ^^ g[x]) ^^ (u ^^ v) = (f[x] ^^ u) ^^ (g[x] ^^ v)
    BY <2>1, <2>3, XorPairs
  <2> QED
    BY <2>2, <2>4
<1>8. S \in T
  <2> HIDE DEF T
  <2> QED
    BY <1>6, <1>7, SubsetInduction
<1> QED
  BY <1>3, <1>4, <1>5, <1>8 DEF h

\* A factor can be taken out of a sum.
LEMMA GfSumScaled ==
  ASSUME NEW S, IsFiniteSet(S), NEW f \in [S -> Elements], NEW c \in Elements
  PROVE  GfSum([x \in S |-> GfMul(c, f[x])]) = GfMul(c, GfSum(f))
<1> DEFINE h == [x \in S |-> GfMul(c, f[x])]
           T == {s \in SUBSET S : Summed(h, s) = GfMul(c, Summed(f, s))}
<1>1. h \in [S -> Elements]
  BY MulType
<1>2. \A x \in S : h[x] = GfMul(c, f[x])
  OBVIOUS
<1> HIDE DEF h
<1>3. /\ Summed(h, {}) = 0 /\ Summed(h, S) = GfSum(h)
      /\ \A s \in SUBSET S : \A x \in S \ s : Summed(h, s \cup {x}) = h[x] ^^ Summed(h, s)
  BY <1>1, GfSumType
<1>4. /\ Summed(f, {}) = 0 /\ Summed(f, S) = GfSum(f)
      /\ \A s \in SUBSET S : Summed(f, s) \in Elements
      /\ \A s \in SUBSET S : \A x \in S \ s : Summed(f, s \cup {x}) = f[x] ^^ Summed(f, s)
  BY GfSumType
<1>5. {} \in T
  BY <1>3, <1>4, MulType
<1>6. ASSUME NEW s \in SUBSET S, NEW x \in S \ s, s \in T PROVE s \cup {x} \in T
  <2> DEFINE u == Summed(f, s)
  <2>1. Summed(h, s) = GfMul(c, u) /\ u \in Elements /\ f[x] \in Elements
    BY <1>4, <1>6
  <2>2. /\ Summed(h, s \cup {x}) = GfMul(c, f[x]) ^^ GfMul(c, u)
        /\ Summed(f, s \cup {x}) = f[x] ^^ u
    BY <1>2, <1>3, <1>4, <2>1
  <2> HIDE DEF u
  <2>3. GfMul(c, f[x] ^^ u) = GfMul(c, f[x]) ^^ GfMul(c, u)
    BY <2>1, MulDistributes
  <2> QED
    BY <2>2, <2>3
<1>7. S \in T
  <2> HIDE DEF T
  <2> QED
    BY <1>5, <1>6, SubsetInduction
<1> QED
  BY <1>3, <1>4, <1>7 DEF h

\* Two parts of a set.
LEMMA GfSumOfParts ==
  ASSUME NEW S, IsFiniteSet(S), NEW f \in [S -> Elements],
         NEW A \in SUBSET S, NEW B \in SUBSET S, A \cap B = {}, S = A \cup B
  PROVE  /\ IsFiniteSet(A) /\ IsFiniteSet(B)
         /\ GfSum(f) = GfSum([x \in A |-> f[x]]) ^^ GfSum([x \in B |-> f[x]])
<1> DEFINE T == {s \in SUBSET B : Summed(f, A \cup s) = Summed(f, A) ^^ Summed(f, s)}
<1>1. /\ IsFiniteSet(A) /\ IsFiniteSet(B)
      /\ GfSum([x \in A |-> f[x]]) = Summed(f, A) /\ GfSum([x \in B |-> f[x]]) = Summed(f, B)
  BY SummedRestricted
<1>2. /\ Summed(f, {}) = 0 /\ Summed(f, S) = GfSum(f)
      /\ \A s \in SUBSET S : Summed(f, s) \in Elements
      /\ \A s \in SUBSET S : \A x \in S \ s : Summed(f, s \cup {x}) = f[x] ^^ Summed(f, s)
  BY GfSumType
<1>3. {} \in T
  <2>1. A \cup {} = A /\ Summed(f, A) \in Elements
    BY <1>2
  <2> QED
    BY <1>2, <2>1, XorGroup
<1>4. ASSUME NEW s \in SUBSET B, NEW x \in B \ s, s \in T PROVE s \cup {x} \in T
  <2> DEFINE a == Summed(f, A)
             u == Summed(f, s)
             y == f[x]
  <2>1. /\ A \cup s \in SUBSET S /\ x \in S \ (A \cup s) /\ s \in SUBSET S /\ x \in S \ s
        /\ A \cup (s \cup {x}) = (A \cup s) \cup {x} /\ s \cup {x} \in SUBSET B
    OBVIOUS
  <2>2. Summed(f, A \cup s) = a ^^ u /\ a \in Elements /\ u \in Elements /\ y \in Elements
    BY <1>2, <1>4, <2>1
  <2>3. /\ Summed(f, (A \cup s) \cup {x}) = y ^^ Summed(f, A \cup s)
        /\ Summed(f, s \cup {x}) = y ^^ u
    BY <1>2, <2>1
  <2>4. Summed(f, A \cup (s \cup {x})) = y ^^ (a ^^ u)
    BY <2>1, <2>2, <2>3
  <2>5. y ^^ (a ^^ u) = a ^^ (y ^^ u)
    <3> HIDE DEF a, u, y
    <3>1. /\ y ^^ (a ^^ u) = (y ^^ a) ^^ u /\ a ^^ (y ^^ u) = (a ^^ y) ^^ u
          /\ y ^^ a = a ^^ y
      BY <2>2, XorGroup
    <3> QED
      BY <3>1
  <2> QED
    BY <2>1, <2>3, <2>4, <2>5
<1>5. B \in T
  <2> HIDE DEF T
  <2> QED
    BY <1>1, <1>3, <1>4, SubsetInduction
<1> QED
  BY <1>1, <1>2, <1>5

\* Zeros sum up to zero, and do not change a sum.
LEMMA GfSumOfZeros ==
  ASSUME NEW S, IsFiniteSet(S), NEW f \in [S -> Elements]
  PROVE  /\ (\A x \in S : f[x] = 0) => GfSum(f) = 0
         /\ \A y \in S : (\A x \in S : x # y => f[x] = 0) => GfSum(f) = f[y]
<1>1. /\ Summed(f, {}) = 0 /\ Summed(f, S) = GfSum(f)
      /\ \A s \in SUBSET S : Summed(f, s) \in Elements
      /\ \A s \in SUBSET S : \A x \in S \ s : Summed(f, s \cup {x}) = f[x] ^^ Summed(f, s)
  BY GfSumType
<1>2. ASSUME NEW A \in SUBSET S, \A x \in A : f[x] = 0
      PROVE  Summed(f, A) = 0
  <2> DEFINE T == {s \in SUBSET A : Summed(f, s) = 0}
  <2>1. {} \in T
    BY <1>1
  <2>2. ASSUME NEW s \in SUBSET A, NEW x \in A \ s, s \in T PROVE s \cup {x} \in T
    <3>1. Summed(f, s \cup {x}) = f[x] ^^ Summed(f, s) /\ f[x] = 0 /\ Summed(f, s) = 0
      BY <1>1, <1>2, <2>2
    <3> QED
      BY <3>1, XorGroup
  <2>3. IsFiniteSet(A)
    BY FS_Subset
  <2>4. A \in T
    <3> HIDE DEF T
    <3> QED
      BY <2>1, <2>2, <2>3, SubsetInduction
  <2> QED
    BY <2>4
<1>3. ASSUME NEW y \in S, \A x \in S : x # y => f[x] = 0
      PROVE  GfSum(f) = f[y]
  <2>1. S \ {y} \in SUBSET S /\ y \in S \ (S \ {y}) /\ (S \ {y}) \cup {y} = S
    OBVIOUS
  <2>2. Summed(f, S \ {y}) = 0
    BY <1>2, <1>3, <2>1
  <2>3. Summed(f, S) = f[y] ^^ Summed(f, S \ {y}) /\ f[y] \in Elements
    BY <1>1, <2>1
  <2> QED
    BY <1>1, <2>2, <2>3, XorGroup
<1> QED
  BY <1>1, <1>2, <1>3

\* The same terms under other names.
LEMMA GfSumRenamed ==
  ASSUME NEW S, IsFiniteSet(S), NEW f \in [S -> Elements],
         NEW R, IsFiniteSet(R), NEW h \in [R -> S],
         \A a, b \in R : h[a] = h[b] => a = b,
         \A x \in S : \E a \in R : h[a] = x
  PROVE  GfSum([a \in R |-> f[h[a]]]) = GfSum(f)
<1> DEFINE g == [a \in R |-> f[h[a]]]
           Image(s) == {h[a] : a \in s}
           T == {s \in SUBSET R : Summed(g, s) = Summed(f, Image(s))}
<1>1. g \in [R -> Elements] /\ \A a \in R : g[a] = f[h[a]]
  OBVIOUS
<1> HIDE DEF g
<1>2. /\ Summed(g, {}) = 0 /\ Summed(g, R) = GfSum(g)
      /\ \A s \in SUBSET R : \A x \in R \ s : Summed(g, s \cup {x}) = g[x] ^^ Summed(g, s)
  BY <1>1, GfSumType
<1>3. /\ Summed(f, {}) = 0 /\ Summed(f, S) = GfSum(f)
      /\ \A s \in SUBSET S : \A x \in S \ s : Summed(f, s \cup {x}) = f[x] ^^ Summed(f, s)
  BY GfSumType
<1>4. {} \in T
  <2>1. Image({}) = {}
    OBVIOUS
  <2> QED
    BY <1>2, <1>3, <2>1
<1>5. ASSUME NEW s \in SUBSET R, NEW a \in R \ s, s \in T PROVE s \cup {a} \in T
  <2>1. Image(s) \in SUBSET S /\ h[a] \in S \ Image(s) /\ Image(s \cup {a}) = Image(s) \cup {h[a]}
    OBVIOUS
  <2>2. Summed(g, s) = Summed(f, Image(s)) /\ s \cup {a} \in SUBSET R
    BY <1>5
  <2> HIDE DEF Image
  <2>3. Summed(f, Image(s) \cup {h[a]}) = f[h[a]] ^^ Summed(f, Image(s))
    BY <1>3, <2>1
  <2>4. Summed(g, s \cup {a}) = g[a] ^^ Summed(g, s)
    BY <1>2
  <2> QED
    BY <1>1, <2>1, <2>2, <2>3, <2>4
<1>6. R \in T
  <2> HIDE DEF T
  <2> QED
    BY <1>4, <1>5, SubsetInduction
<1>7. Image(R) = S
  OBVIOUS
<1> QED
  BY <1>2, <1>3, <1>6, <1>7 DEF g

-----------------------------------------------------------------------------
(***************************************************************************)
(* Powers, and the constants of the blocks                                 *)
(***************************************************************************)

\* gf_pow multiplies logarithms.
LEMMA PowByLogs ==
  ASSUME NEW a \in Elements \ {0}, NEW n \in Nat
  PROVE  /\ (LogTable[a] * n) % GroupOrder \in Logs
         /\ GfPow(a, n) = Powers[(LogTable[a] * n) % GroupOrder]
<1> DEFINE x == LogTable[a]
           y == x * n
           r == y % GroupOrder
<1>1. x \in Logs /\ x \in Nat /\ GroupOrder \in Nat \ {0} /\ a # 0
  BY LogType, LogNumbers
<1>2. y \in Nat
  BY <1>1
<1> HIDE DEF x, y
<1>3. r \in Logs
  BY <1>2, ExpType
<1> HIDE DEF r
<1>9. r \in Nat /\ r < GroupOrder
  BY <1>1, <1>3, LogNumbers
<1>4. r % GroupOrder = r
  BY <1>1, <1>9, ModOnce
<1>5. r < 2 * GroupOrder
  BY <1>1, <1>9
<1>6. ExpTable[r] = Powers[r]
  BY <1>9, <1>4, <1>5, ExpType
<1>7. CASE n = 0
  <2>1. y = 0
    BY <1>1, <1>7 DEF y
  <2>2. 0 % GroupOrder = 0
    BY <1>1, ModOnce
  <2>3. r = 0
    BY <2>1, <2>2 DEF r
  <2> QED
    BY <1>3, <1>7, <2>3, PowersType DEF GfPow, r, y, x
<1>8. CASE n # 0
  BY <1>1, <1>3, <1>6, <1>8 DEF GfPow, r, y, x
<1> QED
  BY <1>7, <1>8

\* It computes what multiplying up computes (the encoder multiplies, the decoder takes powers).
LEMMA PowType ==
  ASSUME NEW a \in Elements
  PROVE  /\ GfPow(a, 0) = 1
         /\ \A n \in Nat : /\ GfPow(a, n) \in Elements
                           /\ a # 0 => GfPow(a, n) # 0
                           /\ GfPow(a, n + 1) = GfMul(GfPow(a, n), a)
<1>1. GfPow(a, 0) = 1
  BY DEF GfPow
<1>2. ASSUME NEW n \in Nat
      PROVE  /\ GfPow(a, n) \in Elements
             /\ a # 0 => GfPow(a, n) # 0
             /\ GfPow(a, n + 1) = GfMul(GfPow(a, n), a)
  <2>1. CASE a = 0
    <3>1. GfPow(a, n + 1) = 0 /\ (n = 0 => GfPow(a, n) = 1) /\ (n # 0 => GfPow(a, n) = 0)
      BY <2>1 DEF GfPow
    <3>2. GfPow(a, n) \in Elements
      BY <3>1, XorGroup
    <3> QED
      BY <2>1, <3>1, <3>2, MulType
  <2>2. CASE a # 0
    <3> DEFINE x == LogTable[a]
               y == x * n
               r == y % GroupOrder
               z == x * (n + 1)
    <3>1. x \in Logs /\ x \in Nat /\ GroupOrder \in Nat \ {0} /\ Powers[x] = a
      BY <2>2, LogType, LogNumbers
    <3>2. y \in Nat /\ z = y + x
      BY <3>1
    <3>3. r \in Logs /\ GfPow(a, n) = Powers[r]
      BY <2>2, PowByLogs
    <3>4. z % GroupOrder \in Logs /\ GfPow(a, n + 1) = Powers[z % GroupOrder]
      <4>1. n + 1 \in Nat
        OBVIOUS
      <4> QED
        BY <2>2, <4>1, PowByLogs
    <3> HIDE DEF x, y, z
    <3>5. (r + x) % GroupOrder = z % GroupOrder
      BY <3>1, <3>2, ModOfSum
    <3> HIDE DEF r
    <3>6. GfMul(Powers[r], Powers[x]) = Powers[(r + x) % GroupOrder]
      BY <3>1, <3>3, MulOfPowers
    <3>7. Powers[r] \in Elements \ {0}
      BY <3>3, PowersType
    <3> QED
      BY <3>1, <3>3, <3>4, <3>5, <3>6, <3>7
  <2> QED
    BY <2>1, <2>2
<1> QED
  BY <1>1, <1>2

\* Among as many numbers as the group has elements one is prime to its order: the one that
\* leaves the remainder 1.
LEMMA UsableExists ==
  ASSUME NEW n \in Nat
  PROVE  \E m \in n + 1 .. n + GroupOrder : Usable(m)
<1> DEFINE G == GroupOrder
           q == n \div G
           r == n % G
           t == IF r = 0 THEN q ELSE q + 1
           s == G * t
<1>1. G \in Nat /\ G >= 3
  BY LogNumbers
<1> HIDE DEF G
<1>2. q \in Nat /\ r \in 0 .. G - 1 /\ n = G * q + r
  BY <1>1
<1> HIDE DEF q, r
<1>3. t \in Nat /\ s = IF r = 0 THEN n ELSE n - r + G
  BY <1>1, <1>2
<1> HIDE DEF t, s
<1>4. s \in Nat /\ s + 1 \in n + 1 .. n + G
  BY <1>1, <1>2, <1>3
<1>5. ASSUME NEW p \in {3, 5, 17, 257}, G % p = 0
      PROVE  (s + 1) % p # 0
  <2> DEFINE c == G \div p
             w == c * t
  <2>1. p \in Nat \ {0, 1} /\ c \in Nat /\ G = p * c
    BY <1>1, <1>5
  <2> HIDE DEF c
  <2>2. w \in Nat
    BY <1>3, <2>1
  <2>3. s = p * w
    <3>1. s = (p * c) * t
      BY <2>1 DEF s
    <3>2. (p * c) * t = p * (c * t)
      BY <1>3, <2>1
    <3> QED
      BY <3>1, <3>2
  <2> HIDE DEF w
  <2>4. s + 1 = p * w + 1 /\ s + 1 \in Nat /\ 1 \in 0 .. p - 1
    BY <1>4, <2>1, <2>2, <2>3
  <2>5. (s + 1) % p = 1
    BY <2>1, <2>2, <2>4, DivisionIsUnique
  <2> QED
    BY <2>5
<1>6. Usable(s + 1)
  BY <1>5 DEF Usable, OrderPrimes, G
<1> QED
  BY <1>4, <1>6 DEF G

\* generate_par2_constants finds an exponent for every block, and they grow.
LEMMA ExponentsType ==
  /\ ConstantExponent[0] = 0
  /\ \A i \in Nat : /\ ConstantExponent[i] \in Nat
                    /\ ConstantExponent[i] < ConstantExponent[i + 1]
                    /\ Usable(ConstantExponent[i + 1])
<1> DEFINE Candidates(n) == {m \in n + 1 .. n + GroupOrder : Usable(m)}
           step == [pair \in Nat \X Nat |-> Min(Candidates(pair[2]))]
           next(c) == [i \in Nat |-> IF i = 0 THEN 0 ELSE Min(Candidates(c[i - 1]))]
<1>1. ASSUME NEW n \in Nat
      PROVE  /\ Min(Candidates(n)) \in Nat /\ n < Min(Candidates(n))
             /\ Usable(Min(Candidates(n)))
  <2>1. Candidates(n) # {}
    BY UsableExists
  <2>2. GroupOrder \in Nat
    BY LogNumbers
  <2>3. Candidates(n) \in SUBSET Nat
    BY <2>2
  <2>4. \E m \in Candidates(n) : \A o \in Candidates(n) : m <= o
    <3> HIDE DEF Candidates
    <3> QED
      BY <2>1, <2>3, Least
  <2>5. Min(Candidates(n)) \in Candidates(n)
    <3> HIDE DEF Candidates
    <3> QED
      BY <2>4 DEF Min
  <2>6. ASSUME NEW m \in Candidates(n) PROVE m \in Nat /\ n < m /\ Usable(m)
    BY <2>2, <2>6
  <2> HIDE DEF Candidates
  <2> QED
    BY <2>5, <2>6
<1>2. step \in [Nat \X Nat -> Nat]
  <2> HIDE DEF Candidates
  <2> QED
    BY <1>1
<1>3. PICK g : FromNumbers(g, Nat, 0, step)
  <2> HIDE DEF step
  <2> QED
    BY <1>2, NatRecursion
<1>4. /\ g \in [Nat -> Nat] /\ g[0] = 0
      /\ \A i \in Nat : g[i + 1] = step[<<i, g[i]>>]
  <2> HIDE DEF step
  <2> QED
    BY <1>3 DEF FromNumbers
<1>5. \A i \in Nat : g[i + 1] = Min(Candidates(g[i]))
  <2> HIDE DEF Candidates
  <2> QED
    BY <1>4
<1>6. g = next(g)
  <2>1. ASSUME NEW i \in Nat PROVE g[i] = IF i = 0 THEN 0 ELSE Min(Candidates(g[i - 1]))
    <3> HIDE DEF Candidates
    <3>1. CASE i = 0
      BY <1>4, <3>1
    <3>2. CASE i # 0
      <4>1. i - 1 \in Nat /\ i = (i - 1) + 1
        BY <3>2
      <4>2. g[(i - 1) + 1] = Min(Candidates(g[i - 1]))
        BY <1>5, <4>1
      <4> QED
        BY <3>2, <4>1, <4>2
    <3> QED
      BY <3>1, <3>2
  <2> HIDE DEF Candidates, step
  <2> QED
    BY <1>4, <2>1
<1>7. ConstantExponent = next(ConstantExponent)
  <2>1. ConstantExponent = CHOOSE c : c = next(c)
    BY DEF ConstantExponent
  <2> HIDE DEF next
  <2> QED
    BY <1>6, <2>1
<1> DEFINE c == ConstantExponent
<1>8. /\ c[0] = 0
      /\ \A i \in Nat : c[i + 1] = Min(Candidates(c[i]))
  <2> HIDE DEF Candidates
  <2>1. \A i \in Nat : c[i] = IF i = 0 THEN 0 ELSE Min(Candidates(c[i - 1]))
    BY <1>7
  <2> HIDE DEF c
  <2>2. ASSUME NEW i \in Nat PROVE c[i + 1] = Min(Candidates(c[i]))
    <3> DEFINE j == i + 1
    <3>1. j \in Nat /\ j # 0 /\ j - 1 = i
      OBVIOUS
    <3> HIDE DEF j
    <3>2. c[j] = Min(Candidates(c[j - 1]))
      BY <2>1, <3>1
    <3> QED
      BY <3>1, <3>2 DEF j
  <2> QED
    BY <2>1, <2>2
<1> HIDE DEF c, Candidates
<1> DEFINE T == {i \in Nat : c[i] \in Nat}
<1>9. 0 \in T /\ \A i \in Nat : i \in T => i + 1 \in T
  BY <1>1, <1>8
<1>10. Nat \subseteq T
  <2> HIDE DEF T
  <2> QED
    BY <1>9, SetInduction
<1>11. \A i \in Nat : c[i] \in Nat
  BY <1>10
<1> QED
  BY <1>1, <1>8, <1>11 DEF c

\* The constants are elements of the field, none of them 0.
LEMMA ConstantsType ==
  ASSUME NEW n \in Nat
  PROVE  /\ Par2Constants(n) \in [1 .. n -> Elements \ {0}]
         /\ \A i \in 1 .. n : Par2Constants(n)[i] = GfPow(2, ConstantExponent[i])
<1>1. 2 \in Elements \ {0}
  BY FieldNumbers
<1>2. ASSUME NEW i \in 1 .. n PROVE GfPow(2, ConstantExponent[i]) \in Elements \ {0}
  <2>1. ConstantExponent[i] \in Nat
    BY ExponentsType
  <2> QED
    BY <1>1, <2>1, PowType
<1> QED
  BY <1>2 DEF Par2Constants

-----------------------------------------------------------------------------
(***************************************************************************)
(* Polynomials                                                             *)
(***************************************************************************)

\* The value at x of the polynomial whose coefficients are a, the leading one first, taken up
\* to each degree: Horner's rule.
IsHorner(h, a, x) ==
  h = [n \in Nat |-> IF n = 0 THEN a[0] ELSE GfMul(x, h[n - 1]) ^^ a[n]]

Horner(a, x) == CHOOSE h : IsHorner(h, a, x)

\* Sequences of coefficients.
Coefficients == [Nat -> Elements]

\* The values exist and are elements.
LEMMA HornerType ==
  ASSUME NEW a \in Coefficients, NEW x \in Elements
  PROVE  /\ Horner(a, x) \in Coefficients
         /\ Horner(a, x)[0] = a[0]
         /\ \A n \in Nat : Horner(a, x)[n + 1] = GfMul(x, Horner(a, x)[n]) ^^ a[n + 1]
<1> DEFINE next(n, y) == GfMul(x, y) ^^ a[n + 1]
           step == [pair \in Nat \X Elements |-> next(pair[1], pair[2])]
<1>1. ASSUME NEW n \in Nat, NEW y \in Elements PROVE next(n, y) \in Elements
  <2> DEFINE m == GfMul(x, y)
             c == a[n + 1]
  <2>1. m \in Elements
    BY MulType
  <2>2. c \in Elements
    BY DEF Coefficients
  <2> HIDE DEF m, c
  <2>3. m ^^ c \in Elements
    BY <2>1, <2>2, XorGroup
  <2> QED
    BY <2>3 DEF m, c
<1>2. step \in [Nat \X Elements -> Elements]
  <2> HIDE DEF next
  <2> QED
    BY <1>1
<1>3. a[0] \in Elements
  BY DEF Coefficients
<1>4. PICK g : FromNumbers(g, Elements, a[0], step)
  <2> HIDE DEF step
  <2> QED
    BY <1>2, <1>3, NatRecursion
<1>5. /\ g \in [Nat -> Elements] /\ g[0] = a[0]
      /\ \A n \in Nat : g[n + 1] = next(n, g[n])
  <2> HIDE DEF next
  <2> QED
    BY <1>4 DEF FromNumbers
<1>6. IsHorner(g, a, x)
  <2>1. ASSUME NEW n \in Nat
        PROVE  g[n] = IF n = 0 THEN a[0] ELSE GfMul(x, g[n - 1]) ^^ a[n]
    <3>1. CASE n = 0
      BY <1>5, <3>1
    <3>2. CASE n # 0
      <4> DEFINE m == n - 1
      <4>1. m \in Nat /\ m + 1 = n
        BY <3>2
      <4> HIDE DEF m
      <4>2. g[m + 1] = GfMul(x, g[m]) ^^ a[m + 1]
        BY <1>5, <4>1
      <4> QED
        BY <3>2, <4>1, <4>2 DEF m
    <3> QED
      BY <3>1, <3>2
  <2>2. g = [n \in Nat |-> g[n]]
    BY <1>5
  <2> QED
    BY <2>1, <2>2 DEF IsHorner
<1> DEFINE h == Horner(a, x)
<1>7. IsHorner(h, a, x)
  BY <1>6 DEF Horner
<1> HIDE DEF h
<1>8. \A n \in Nat : h[n] = IF n = 0 THEN a[0] ELSE GfMul(x, h[n - 1]) ^^ a[n]
  BY <1>7 DEF IsHorner
<1>9. ASSUME NEW n \in Nat PROVE h[n + 1] = GfMul(x, h[n]) ^^ a[n + 1]
  <2> DEFINE m == n + 1
  <2>1. m \in Nat /\ m # 0 /\ m - 1 = n
    OBVIOUS
  <2> HIDE DEF m
  <2>2. h[m] = GfMul(x, h[m - 1]) ^^ a[m]
    BY <1>8, <2>1
  <2> QED
    BY <2>1, <2>2 DEF m
<1>10. h[0] = a[0]
  BY <1>8
<1> DEFINE T == {n \in Nat : h[n] \in Elements}
<1>11. 0 \in T
  BY <1>3, <1>10
<1>12. ASSUME NEW n \in Nat, n \in T PROVE n + 1 \in T
  <2>1. next(n, h[n]) \in Elements
    BY <1>1, <1>12
  <2> QED
    BY <1>9, <2>1
<1>13. Nat \subseteq T
  <2> HIDE DEF T
  <2> QED
    BY <1>11, <1>12, SetInduction
<1>14. h = [n \in Nat |-> h[n]]
  BY <1>7 DEF IsHorner
<1>15. h \in Coefficients
  BY <1>13, <1>14 DEF Coefficients
<1> QED
  BY <1>9, <1>10, <1>15 DEF h

\* The values at c are the coefficients of the quotient by x - c.
LEMMA HornerDivides ==
  ASSUME NEW a \in Coefficients, NEW c \in Elements, NEW x \in Elements, NEW n \in Nat
  PROVE  Horner(a, x)[n + 1] ^^ Horner(a, c)[n + 1]
           = GfMul(x ^^ c, Horner(Horner(a, c), x)[n])
<1> DEFINE e == Horner(a, x)
           q == Horner(a, c)
           g == Horner(q, x)
           d == x ^^ c
           T == {m \in Nat : e[m + 1] ^^ q[m + 1] = GfMul(d, g[m])}
<1>1. /\ e \in Coefficients /\ e[0] = a[0]
      /\ \A m \in Nat : e[m + 1] = GfMul(x, e[m]) ^^ a[m + 1]
  BY HornerType
<1>2. /\ q \in Coefficients /\ q[0] = a[0]
      /\ \A m \in Nat : q[m + 1] = GfMul(c, q[m]) ^^ a[m + 1]
  BY HornerType
<1> HIDE DEF q
<1>3. /\ g \in Coefficients /\ g[0] = q[0]
      /\ \A m \in Nat : g[m + 1] = GfMul(x, g[m]) ^^ q[m + 1]
  BY <1>2, HornerType
<1> HIDE DEF e, g
<1>4. d \in Elements
  BY XorGroup
\* What a coefficient adds cancels.
<1>5. ASSUME NEW m \in Nat
      PROVE  e[m + 1] ^^ q[m + 1] = GfMul(x, e[m]) ^^ GfMul(c, q[m])
  <2> DEFINE u == GfMul(x, e[m])
             v == GfMul(c, q[m])
             w == a[m + 1]
  <2>1. u \in Elements /\ v \in Elements /\ w \in Elements
    <3>1. e[m] \in Elements /\ q[m] \in Elements /\ w \in Elements
      BY <1>1, <1>2 DEF Coefficients
    <3> QED
      BY <3>1, MulType
  <2>2. e[m + 1] = u ^^ w /\ q[m + 1] = v ^^ w
    BY <1>1, <1>2
  <2> HIDE DEF u, v, w
  <2>3. (u ^^ w) ^^ (v ^^ w) = (u ^^ v) ^^ (w ^^ w)
    BY <2>1, XorPairs
  <2>4. w ^^ w = 0 /\ u ^^ v \in Elements
    BY <2>1, XorGroup
  <2>5. (u ^^ v) ^^ 0 = u ^^ v
    BY <2>4, XorGroup
  <2> QED
    BY <2>2, <2>3, <2>4, <2>5 DEF u, v
<1>6. 0 \in T
  <2> DEFINE b == a[0]
  <2>1. b \in Elements
    BY DEF Coefficients
  <2>2. e[0] = b /\ q[0] = b /\ g[0] = b
    BY <1>1, <1>2, <1>3
  <2>3. e[0 + 1] ^^ q[0 + 1] = GfMul(x, b) ^^ GfMul(c, b)
    BY <1>5, <2>2
  <2> HIDE DEF b
  <2>4. GfMul(b, x ^^ c) = GfMul(b, x) ^^ GfMul(b, c)
    BY <2>1, MulDistributes
  <2>5. GfMul(b, d) = GfMul(d, b) /\ GfMul(b, x) = GfMul(x, b) /\ GfMul(b, c) = GfMul(c, b)
    BY <1>4, <2>1, MulType
  <2> QED
    BY <2>2, <2>3, <2>4, <2>5
<1>7. ASSUME NEW m \in Nat, m \in T PROVE m + 1 \in T
  <2> DEFINE o == m + 1
             u == e[o]
             v == q[o]
             p == g[m]
  <2>1. o \in Nat /\ u \in Elements /\ v \in Elements /\ p \in Elements
    BY <1>1, <1>2, <1>3 DEF Coefficients
  <2>2. u ^^ v = GfMul(d, p)
    BY <1>7
  <2>3. g[o] = GfMul(x, p) ^^ v
    BY <1>3
  <2> HIDE DEF u, v, p, o
  <2>4. e[o + 1] ^^ q[o + 1] = GfMul(x, u) ^^ GfMul(c, v)
    BY <1>5, <2>1 DEF u, v
  \* u = d p + v
  <2>5. u = GfMul(d, p) ^^ v
    BY <2>1, <2>2, XorCancels
  <2> DEFINE dp == GfMul(d, p)
             xv == GfMul(x, v)
             cv == GfMul(c, v)
             xp == GfMul(x, p)
  <2>6. dp \in Elements /\ xv \in Elements /\ cv \in Elements /\ xp \in Elements
    BY <1>4, <2>1, MulType
  <2>7. GfMul(x, u) = GfMul(x, dp) ^^ xv
    <3> HIDE DEF d
    <3>1. GfMul(x, dp ^^ v) = GfMul(x, dp) ^^ GfMul(x, v)
      <4> HIDE DEF dp
      <4> QED
        BY <2>1, <2>6, MulDistributes
    <3> QED
      BY <2>5, <3>1
  <2>8. GfMul(x, dp) = GfMul(d, xp)
    <3> HIDE DEF d
    <3>1. GfMul(x, GfMul(d, p)) = GfMul(GfMul(x, d), p)
      BY <1>4, <2>1, MulAssociates
    <3>2. GfMul(x, d) = GfMul(d, x)
      BY <1>4, MulType
    <3>3. GfMul(GfMul(d, x), p) = GfMul(d, GfMul(x, p))
      BY <1>4, <2>1, MulAssociates
    <3> QED
      BY <3>1, <3>2, <3>3
  <2>9. xv ^^ cv = GfMul(d, v)
    <3>1. GfMul(v, x ^^ c) = GfMul(v, x) ^^ GfMul(v, c)
      BY <2>1, MulDistributes
    <3>2. GfMul(v, d) = GfMul(d, v) /\ GfMul(v, x) = xv /\ GfMul(v, c) = cv
      BY <1>4, <2>1, MulType
    <3> QED
      BY <3>1, <3>2
  <2>10. GfMul(d, xp ^^ v) = GfMul(d, xp) ^^ GfMul(d, v)
    <3> HIDE DEF d, xp
    <3> QED
      BY <1>4, <2>1, <2>6, MulDistributes
  <2> DEFINE dxp == GfMul(d, xp)
  <2>11. dxp \in Elements
    <3> HIDE DEF d, xp
    <3> QED
      BY <1>4, <2>6, MulType
  <2>12. (dxp ^^ xv) ^^ cv = dxp ^^ (xv ^^ cv)
    <3> HIDE DEF dxp, xv, cv
    <3> QED
      BY <2>6, <2>11, XorGroup
  <2> HIDE DEF dxp, xv, cv, xp, d
  <2>13. GfMul(x, u) ^^ cv = GfMul(d, xp ^^ v)
    BY <2>7, <2>8, <2>9, <2>10, <2>12 DEF dxp
  <2> QED
    BY <2>1, <2>3, <2>4, <2>13 DEF o, xp, cv
<1>8. Nat \subseteq T
  <2> HIDE DEF T
  <2> QED
    BY <1>6, <1>7, SetInduction
<1> QED
  BY <1>8 DEF e, q, g, d

\* Of n + 1 different elements at least one is no root of a monic polynomial of degree n.
Rootless(n) ==
  \A a \in Coefficients : \A x \in [1 .. n + 1 -> Elements] :
    a[0] = 1 /\ (\A i, j \in 1 .. n + 1 : x[i] = x[j] => i = j)
      => \E j \in 1 .. n + 1 : Horner(a, x[j])[n] # 0

\* A polynomial has no more roots than its degree.
LEMMA FewRoots ==
  ASSUME NEW n \in Nat PROVE Rootless(n)
<1> DEFINE T == {m \in Nat : Rootless(m)}
<1>1. 0 \in T
  <2> SUFFICES ASSUME NEW a \in Coefficients, NEW x \in [1 .. 0 + 1 -> Elements], a[0] = 1
               PROVE  \E j \in 1 .. 0 + 1 : Horner(a, x[j])[0] # 0
    BY DEF Rootless
  <2>1. 1 \in 1 .. 0 + 1 /\ x[1] \in Elements
    OBVIOUS
  <2>2. Horner(a, x[1])[0] = 1
    BY <2>1, HornerType
  <2> QED
    BY <2>1, <2>2
<1>2. ASSUME NEW m \in Nat, m \in T PROVE m + 1 \in T
  <2> DEFINE o == m + 1
             N == 1 .. o + 1
  <2>1. o \in Nat /\ o + 1 \in N /\ 1 .. m + 1 \subseteq N /\ (\A j \in 1 .. m + 1 : j # o + 1)
        /\ 1 .. m + 1 = 1 .. o
    OBVIOUS
  <2> SUFFICES ASSUME NEW a \in Coefficients, NEW x \in [N -> Elements], a[0] = 1,
                      \A i, j \in N : x[i] = x[j] => i = j,
                      \A j \in N : Horner(a, x[j])[o] = 0
               PROVE  FALSE
    BY <2>1 DEF Rootless
  <2> DEFINE c == x[o + 1]
             q == Horner(a, c)
             y == [j \in 1 .. m + 1 |-> x[j]]
  <2>2. c \in Elements /\ q \in Coefficients /\ q[0] = 1 /\ q[o] = 0
    BY <2>1, HornerType
  <2>3. /\ y \in [1 .. m + 1 -> Elements]
        /\ \A i, j \in 1 .. m + 1 : y[i] = y[j] => i = j
        /\ \A j \in 1 .. m + 1 : y[j] # c /\ Horner(a, y[j])[o] = 0
    BY <2>1
  <2> HIDE DEF c, q, y
  <2>4. PICK j \in 1 .. m + 1 : Horner(q, y[j])[m] # 0
    BY <1>2, <2>2, <2>3 DEF Rootless
  <2> DEFINE z == y[j]
             v == Horner(q, z)[m]
             e == Horner(a, z)[o]
  <2>5. z \in Elements /\ z # c /\ e = 0
    BY <2>3
  <2> HIDE DEF z
  <2>6. v \in Elements
    BY <2>2, <2>5, HornerType DEF Coefficients
  <2>7. e ^^ q[o] = GfMul(z ^^ c, v)
    BY <2>2, <2>5, HornerDivides DEF q
  <2>8. v # 0
    BY <2>4 DEF z
  <2> HIDE DEF v, e
  <2>9. 0 ^^ 0 = 0 /\ z ^^ c \in Elements /\ z ^^ c # 0
    BY <2>2, <2>5, XorGroup, XorCancels
  <2> DEFINE w == z ^^ c
  <2>10. GfMul(w, v) # 0
    <3> HIDE DEF w
    <3> QED
      BY <2>6, <2>8, <2>9, MulType DEF w
  <2> QED
    BY <2>2, <2>5, <2>7, <2>9, <2>10
<1>3. Nat \subseteq T
  <2> HIDE DEF T
  <2> QED
    BY <1>1, <1>2, SetInduction
<1> QED
  BY <1>3

\* A sum of the powers of x from the e-th on, with factors.
PowerSum(l, x, e, c) == GfSum([i \in 1 .. c |-> GfMul(l[i], GfPow(x, e + i - 1))])

\* It is a polynomial times the e-th power.
LEMMA SumIsHorner ==
  ASSUME NEW c \in Nat \ {0}, NEW l \in [1 .. c -> Elements], NEW x \in Elements, NEW e \in Nat,
         NEW a \in Coefficients, \A s \in Nat : s < c => a[s] = l[c - s]
  PROVE  PowerSum(l, x, e, c) = GfMul(GfPow(x, e), Horner(a, x)[c - 1])
<1> DEFINE f == [i \in 1 .. c |-> GfMul(l[i], GfPow(x, e + i - 1))]
           h == Horner(a, x)
           Part(b) == Summed(f, b .. c)
           T == {s \in Nat : s < c => Part(c - s) = GfMul(GfPow(x, e + (c - s) - 1), h[s])}
<1>1. /\ h \in Coefficients /\ h[0] = a[0]
      /\ \A n \in Nat : h[n + 1] = GfMul(x, h[n]) ^^ a[n + 1]
  BY HornerType
<1> HIDE DEF h
<1>2. ASSUME NEW i \in 1 .. c
      PROVE  /\ e + i - 1 \in Nat /\ l[i] \in Elements /\ GfPow(x, e + i - 1) \in Elements
             /\ f[i] = GfMul(l[i], GfPow(x, e + i - 1)) /\ f[i] \in Elements
  <2> DEFINE n == e + i - 1
             p == GfPow(x, n)
  <2>1. n \in Nat /\ l[i] \in Elements
    OBVIOUS
  <2> HIDE DEF n
  <2>2. p \in Elements
    BY <2>1, PowType
  <2> HIDE DEF p
  <2>3. GfMul(l[i], p) \in Elements
    BY <2>1, <2>2, MulType
  <2> QED
    BY <2>1, <2>2, <2>3 DEF n, p
<1>3. f \in [1 .. c -> Elements] /\ IsFiniteSet(1 .. c)
  <2>1. f = [i \in 1 .. c |-> f[i]]
    OBVIOUS
  <2> HIDE DEF f
  <2>2. f \in [1 .. c -> Elements]
    BY <1>2, <2>1
  <2>3. IsFiniteSet(1 .. c)
    <3>1. c \in Int /\ 1 \in Int
      OBVIOUS
    <3> QED
      BY <3>1, FS_Interval
  <2> QED
    BY <2>2, <2>3
<1> HIDE DEF f
<1>4. /\ Summed(f, {}) = 0 /\ Summed(f, 1 .. c) = GfSum(f)
      /\ \A s \in SUBSET (1 .. c) : Summed(f, s) \in Elements
      /\ \A s \in SUBSET (1 .. c) : \A i \in (1 .. c) \ s :
           Summed(f, s \cup {i}) = f[i] ^^ Summed(f, s)
  <2> DEFINE S == 1 .. c
  <2>1. f \in [S -> Elements] /\ IsFiniteSet(S)
    BY <1>3
  <2> HIDE DEF S
  <2>2. /\ Summed(f, {}) = 0 /\ Summed(f, S) = GfSum(f)
        /\ \A s \in SUBSET S : Summed(f, s) \in Elements
        /\ \A s \in SUBSET S : \A i \in S \ s : Summed(f, s \cup {i}) = f[i] ^^ Summed(f, s)
    BY <2>1, GfSumType
  <2> QED
    BY <2>2 DEF S
\* One term more.
<1>5. ASSUME NEW b \in 1 .. c
      PROVE  Part(b) = f[b] ^^ Part(b + 1) /\ Part(b + 1) \in Elements
  <2>1. /\ b + 1 .. c \in SUBSET (1 .. c) /\ b \in (1 .. c) \ (b + 1 .. c)
        /\ b .. c = (b + 1 .. c) \cup {b}
    OBVIOUS
  <2> QED
    BY <1>4, <2>1
<1>6. 0 \in T
  <2> SUFFICES Part(c) = GfMul(GfPow(x, e + c - 1), h[0])
    <3>1. c - 0 = c
      OBVIOUS
    <3> HIDE DEF Part
    <3> QED
      BY <3>1
  <2>1. Part(c) = f[c] ^^ Part(c + 1) /\ c \in 1 .. c
    <3>1. c \in 1 .. c
      OBVIOUS
    <3> HIDE DEF Part
    <3> QED
      BY <1>5, <3>1
  <2>2. Part(c + 1) = 0
    <3>1. c + 1 .. c = {}
      OBVIOUS
    <3> QED
      BY <1>4, <3>1
  <2> DEFINE u == l[c]
             p == GfPow(x, e + c - 1)
  <2>3. u \in Elements /\ p \in Elements /\ f[c] = GfMul(u, p) /\ f[c] \in Elements
    BY <1>2, <2>1
  <2>4. h[0] = u
    <3>1. 0 < c /\ c - 0 = c
      OBVIOUS
    <3> QED
      BY <1>1, <3>1
  <2> HIDE DEF u, p, Part
  <2>5. f[c] ^^ 0 = f[c] /\ GfMul(u, p) = GfMul(p, u)
    BY <2>3, XorGroup, MulType
  <2> QED
    BY <2>1, <2>2, <2>3, <2>4, <2>5 DEF p
<1>7. ASSUME NEW s \in Nat, s \in T PROVE s + 1 \in T
  <2> SUFFICES ASSUME s + 1 < c
               PROVE  Part(c - (s + 1)) = GfMul(GfPow(x, e + (c - (s + 1)) - 1), h[s + 1])
    OBVIOUS
  <2> DEFINE b == c - (s + 1)
             n == e + b - 1
             p == GfPow(x, n)
             u == l[b]
             v == h[s]
  <2>1. b \in 1 .. c /\ b + 1 = c - s /\ n \in Nat /\ n + 1 = e + (c - s) - 1 /\ s < c
    OBVIOUS
  <2>2. Part(c - s) = GfMul(GfPow(x, n + 1), v)
    BY <1>7, <2>1
  <2>3. Part(b) = f[b] ^^ Part(b + 1) /\ f[b] = GfMul(u, p) /\ u \in Elements /\ p \in Elements
    BY <1>2, <1>5, <2>1
  <2>4. h[s + 1] = GfMul(x, v) ^^ u
    <3>1. s + 1 \in Nat /\ s + 1 < c
      OBVIOUS
    <3>2. a[s + 1] = l[b]
      BY <3>1
    <3> QED
      BY <1>1, <3>2
  <2>5. v \in Elements
    BY <1>1 DEF Coefficients
  <2> HIDE DEF b, u, v
  <2>6. GfPow(x, n + 1) = GfMul(p, x)
    <3> HIDE DEF n
    <3> QED
      BY <2>1, PowType
  <2>7. Part(b + 1) = GfMul(GfMul(p, x), v)
    <3> HIDE DEF p, n, Part
    <3> QED
      BY <2>1, <2>2, <2>6
  <2> HIDE DEF p, n, Part
  <2> DEFINE w == GfMul(x, v)
  <2>8. w \in Elements /\ GfMul(GfMul(p, x), v) = GfMul(p, w)
    BY <2>3, <2>5, MulType, MulAssociates
  <2> HIDE DEF w
  <2>9. GfMul(p, w ^^ u) = GfMul(p, w) ^^ GfMul(p, u)
    BY <2>3, <2>8, MulDistributes
  <2>10. GfMul(p, u) = GfMul(u, p) /\ GfMul(p, u) \in Elements /\ GfMul(p, w) \in Elements
    BY <2>3, <2>8, MulType
  <2>11. GfMul(p, w) ^^ GfMul(p, u) = GfMul(p, u) ^^ GfMul(p, w)
    BY <2>10, XorGroup
  <2>12. Part(b) = GfMul(p, w ^^ u)
    BY <2>3, <2>7, <2>8, <2>9, <2>10, <2>11
  <2> QED
    BY <2>4, <2>12 DEF w, p, n, b
<1>8. Nat \subseteq T
  <2> HIDE DEF T
  <2> QED
    BY <1>6, <1>7, SetInduction
<1>9. /\ c - 1 \in Nat /\ c - 1 < c /\ c - (c - 1) = 1 /\ e + 1 - 1 = e
  OBVIOUS
<1>10. Part(c - (c - 1)) = GfMul(GfPow(x, e + (c - (c - 1)) - 1), h[c - 1])
  BY <1>8, <1>9
<1>11. Part(1) = GfMul(GfPow(x, e), h[c - 1])
  <2> HIDE DEF Part
  <2> QED
    BY <1>9, <1>10
<1>12. GfSum(f) = PowerSum(l, x, e, c)
  BY DEF f, PowerSum
<1> QED
  BY <1>4, <1>11, <1>12 DEF h

\* The constants differ as long as their exponents stay below the group order.
LEMMA ConstantsDiffer ==
  ASSUME NEW n \in Nat, ConstantExponent[n] < GroupOrder
  PROVE  \A i, j \in 1 .. n : Par2Constants(n)[i] = Par2Constants(n)[j] => i = j
<1> DEFINE x == ConstantExponent
           T == {d \in Nat : \A i \in Nat : x[i] <= x[i + d] /\ (d # 0 => x[i] < x[i + d])}
<1>1. \A i \in Nat : x[i] \in Nat /\ x[i] < x[i + 1]
  BY ExponentsType
<1> HIDE DEF x
<1>2. 0 \in T
  <2>1. ASSUME NEW i \in Nat PROVE x[i] <= x[i + 0]
    <3>1. i + 0 = i /\ x[i] \in Nat
      BY <1>1
    <3> QED
      BY <3>1
  <2> QED
    BY <2>1
<1>3. ASSUME NEW d \in Nat, d \in T PROVE d + 1 \in T
  <2>1. ASSUME NEW i \in Nat PROVE x[i] < x[i + (d + 1)]
    <3>1. i + d \in Nat /\ (i + d) + 1 = i + (d + 1)
      OBVIOUS
    <3>2. x[i] <= x[i + d]
      BY <1>3
    <3>3. x[i + d] < x[(i + d) + 1] /\ x[i] \in Nat /\ x[i + d] \in Nat
      BY <1>1, <3>1
    <3>4. x[(i + d) + 1] \in Nat
      <4>1. (i + d) + 1 \in Nat
        OBVIOUS
      <4> QED
        BY <1>1, <4>1
    <3> QED
      BY <3>1, <3>2, <3>3, <3>4
  <2>2. \A i \in Nat : x[i] \in Nat /\ x[i + (d + 1)] \in Nat
    <3>1. \A i \in Nat : i + (d + 1) \in Nat
      OBVIOUS
    <3> QED
      BY <1>1, <3>1
  <2> QED
    BY <2>1, <2>2
<1>4. Nat \subseteq T
  <2> HIDE DEF T
  <2> QED
    BY <1>2, <1>3, SetInduction
<1>5. ASSUME NEW i \in Nat, NEW j \in Nat, i <= j
      PROVE  x[i] <= x[j] /\ (i # j => x[i] < x[j])
  <2>1. j - i \in Nat /\ i + (j - i) = j /\ (i # j => j - i # 0)
    BY <1>5
  <2> DEFINE d == j - i
  <2> HIDE DEF d
  <2>2. x[i] <= x[i + d] /\ (d # 0 => x[i] < x[i + d])
    BY <1>4, <2>1 DEF d
  <2> QED
    BY <2>1, <2>2 DEF d
<1>6. Powers[1] = 2 /\ LogTable[2] = 1 /\ 2 \in Elements \ {0} /\ 1 \in Logs
  <2>1. 0 \in Logs /\ 1 \in Logs /\ 0 + 1 = 1
    BY LogNumbers
  <2>2. Powers[1] = Double(1)
    BY <2>1, PowersType
  <2>3. Double(1) = 2
    BY FieldNumbers DEF Double
  <2>4. LogTable[Powers[1]] = 1
    BY <2>1, LogType
  <2>5. Powers[1] \in Elements \ {0}
    BY <2>1, PowersType
  <2> QED
    BY <2>1, <2>2, <2>3, <2>4, <2>5
<1>7. ASSUME NEW i \in 1 .. n
      PROVE  Par2Constants(n)[i] = Powers[x[i]] /\ x[i] \in Logs
  <2>1. x[i] \in Nat /\ x[i] <= x[n] /\ x[n] < GroupOrder /\ x[n] \in Nat
    BY <1>1, <1>5 DEF x
  <2>2. GroupOrder \in Nat \ {0} /\ Logs = 0 .. GroupOrder - 1
    BY LogNumbers
  <2>3. x[i] \in Logs
    BY <2>1, <2>2
  <2>4. Par2Constants(n)[i] = GfPow(2, x[i])
    BY ConstantsType DEF x
  <2> DEFINE m == x[i]
  <2>5. GfPow(2, m) = Powers[(LogTable[2] * m) % GroupOrder]
    <3>1. m \in Nat
      BY <2>1
    <3> HIDE DEF m
    <3> QED
      BY <1>6, <3>1, PowByLogs
  <2>6. (1 * m) % GroupOrder = m
    <3>1. m \in 0 .. GroupOrder - 1
      BY <2>2, <2>3
    <3> HIDE DEF m
    <3>2. 1 * m = m /\ m \in 0 .. 2 * GroupOrder - 1 /\ m < GroupOrder
      BY <2>2, <3>1
    <3>3. m % GroupOrder = m
      BY <2>2, <3>2, ModOnce
    <3> QED
      BY <3>2, <3>3
  <2> HIDE DEF m
  <2>7. GfPow(2, m) = Powers[m]
    BY <1>6, <2>5, <2>6
  <2> QED
    BY <2>3, <2>4, <2>7 DEF m
<1>8. ASSUME NEW i \in 1 .. n, NEW j \in 1 .. n, Par2Constants(n)[i] = Par2Constants(n)[j]
      PROVE  i = j
  <2>1. x[i] = x[j]
    BY <1>7, <1>8, PowersDiffer
  <2>2. x[i] \in Nat /\ x[j] \in Nat
    BY <1>1
  <2>3. i <= j \/ j <= i
    OBVIOUS
  <2> QED
    BY <1>5, <2>1, <2>2, <2>3
<1> QED
  BY <1>8
=============================================================================
