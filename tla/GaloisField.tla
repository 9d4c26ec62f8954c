---------------------------- MODULE GaloisField ----------------------------
(***************************************************************************)
(* The arithmetic of src/galois/core.rs: a field of 2^Width elements with  *)
(* logarithm and exponential tables.  The code has Width = 16 and          *)
(* Poly = 0x1100B; both are parameters here, so that a small field of the  *)
(* same construction can be explored exhaustively.                         *)
(***************************************************************************)
EXTENDS Integers, FiniteSetsExt, SequencesExt

CONSTANTS
  Width,   \* bits of an element
  Poly     \* PRIMITIVE_POLY: a polynomial of degree Width, its top bit included

\* 1 << n.
Pow2[n \in Nat] == IF n = 0 THEN 1 ELSE 2 * Pow2[n - 1]

GfSize     == Pow2[Width]
GroupOrder == GfSize - 1
Elements   == 0 .. GroupOrder
Logs       == 0 .. GroupOrder - 1

\* The exclusive or of two elements, from the lowest bit on.
XorTable ==
  LET xor[bits \in Nat] ==
        [a \in Elements |-> [b \in Elements |->
           IF bits = 0 THEN 0 ELSE ((a + b) % 2) + 2 * xor[bits - 1][a \div 2][b \div 2]]]
  IN  xor[Width]

a ^^ b == XorTable[a][b]

\* The sum in the field of the values of a function.
GfSum(f) == FoldFunction(LAMBDA x, sum : x ^^ sum, 0, f)

\* Multiplication by the generator: a shift, and a reduction when a bit falls out.
Double(a) ==
  IF 2 * a < GfSize THEN 2 * a ELSE (2 * a - GfSize) ^^ (Poly - GfSize)

\* The values b of the loops of init_tables: b[n] after n doublings of 1.
Powers ==
  LET b[n \in Logs] == IF n = 0 THEN 1 ELSE Double(b[n - 1])
  IN  [n \in Logs |-> b[n]]

\* EXP_TABLE holds the powers twice, and zeros in the two entries left over.
ExpTable ==
  [n \in 0 .. 2 * GfSize - 1 |->
     IF n < 2 * GroupOrder THEN Powers[n % GroupOrder] ELSE 0]

\* LOG_TABLE, with log(0) set to 0.
LogTable ==
  [a \in Elements |-> IF a = 0 THEN 0 ELSE CHOOSE n \in Logs : Powers[n] = a]

ASSUME FieldAssumption ==
  /\ Width \in Nat \ {0, 1} /\ Poly \in GfSize .. 2 * GfSize - 1
  /\ {Powers[n] : n \in Logs} = Elements \ {0}

\* Mutant: the logarithms wrap at the field size instead of the group order.
GfMulWrapped(a, b) ==
  IF a = 0 \/ b = 0 THEN 0 ELSE Powers[((LogTable[a] + LogTable[b]) % GfSize) % GroupOrder]

GfMul(a, b) == IF a = 0 \/ b = 0 THEN 0 ELSE ExpTable[LogTable[a] + LogTable[b]]

\* The divisor is not 0: the code unwraps the result where it is used.
GfDiv(a, b) ==
  LET la == LogTable[a]  lb == LogTable[b]
  IN  IF a = 0 THEN 0
      ELSE ExpTable[IF la >= lb THEN la - lb ELSE la + GroupOrder - lb]

GfPow(a, n) ==
  CASE n = 0 -> 1
    [] n # 0 /\ a = 0 -> 0
    [] OTHER -> ExpTable[(LogTable[a] * n) % GroupOrder]

\* generate_par2_constants: powers of 2 whose exponent is prime to the group order.  The
\* code tests the primes of 65535; those that divide GroupOrder are the ones that matter.
OrderPrimes == {p \in {3, 5, 17, 257} : GroupOrder % p = 0}
Usable(n)   == \A p \in OrderPrimes : n % p # 0

\* The exponent of the i-th constant: the next usable one.
ConstantExponent[i \in Nat] ==
  IF i = 0 THEN 0
  ELSE LET n == ConstantExponent[i - 1] IN Min({m \in n + 1 .. n + GroupOrder : Usable(m)})

\* The constants of the first count blocks.
Par2Constants(count) == [i \in 1 .. count |-> GfPow(2, ConstantExponent[i])]

Bit(a, i) == (a \div Pow2[i]) % 2

\* What a product is: the sum of the shifts of a that the bits of b select.
PolynomialProduct(a, b) ==
  LET shifted[i \in Nat] == IF i = 0 THEN a ELSE Double(shifted[i - 1])
      sum[i \in Nat] ==
        IF i = 0 THEN 0
        ELSE IF Bit(b, i - 1) = 1 THEN shifted[i - 1] ^^ sum[i - 1] ELSE sum[i - 1]
  IN  sum[Width]
=============================================================================
