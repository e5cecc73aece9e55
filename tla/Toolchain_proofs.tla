--------------------------- MODULE Toolchain_proofs ---------------------------
(***************************************************************************)
(* Proofs about the assembler, the loading of the device and the running   *)
(* of an instruction, whatever the parameters, the programs and the width  *)
(* of the word: what has been encoded, the hardware reads back; what is    *)
(* loaded, slot by slot, is what the simulator runs; and both compute the  *)
(* same from the same operands.                                            *)
(* In order: powers and logarithms, division, the bits of a number and the *)
(* number of a set of bits; the fields of an instruction; what the         *)
(* hardware reads in them; the binary; its way into the device; the units. *)
(***************************************************************************)
EXTENDS Toolchain, FiniteSetTheorems, TLAPS

-----------------------------------------------------------------------------
(* Induction, powers of two and logarithms.                                *)

\* Induction on the naturals, for a set: a number left out would be the last of
\* finitely many, each of which has its predecessor among them.
LEMMA Induction ==
    ASSUME NEW S, 0 \in S, \A n \in Nat : n \in S => n + 1 \in S
    PROVE  Nat \subseteq S
<1> SUFFICES ASSUME NEW m \in Nat, m \notin S PROVE FALSE
  OBVIOUS
<1> DEFINE T == {k \in 0 .. m : k \notin S}
           f == [k \in T |-> k - 1]
<1>1. IsFiniteSet(T)
  <2>1. IsFiniteSet(0 .. m)
    BY 0 \in Int, m \in Int, FS_Interval
  <2> QED BY <2>1, FS_Subset
<1>2. m \in T
  OBVIOUS
<1>3. ASSUME NEW k \in T PROVE k - 1 \in T \ {m}
  <2>1. k \in Nat /\ k # 0 /\ k <= m
    OBVIOUS
  <2>2. k - 1 \in Nat /\ (k - 1) + 1 = k /\ k - 1 <= m /\ k - 1 # m
    BY <2>1
  <2>3. k - 1 \notin S
    BY <2>2
  <2> QED BY <2>2, <2>3
<1>4. f \in [T -> T \ {m}]
  BY <1>3
<1>5. /\ IsFiniteSet(T \ {m}) /\ Cardinality(T \ {m}) = Cardinality(T) - 1
  BY <1>1, <1>2, FS_RemoveElement
<1>6. Cardinality(T \ {m}) < Cardinality(T)
  BY <1>1, <1>5, FS_CardinalityType
<1> HIDE DEF f
<1>7. PICK x, y \in T : x # y /\ f[x] = f[y]
  BY <1>1, <1>4, <1>5, <1>6, FS_PigeonHole
<1>8. x - 1 = y - 1 /\ x \in Nat /\ y \in Nat
  BY <1>7 DEF f
<1> QED BY <1>7, <1>8

\* A set of naturals that is not empty has a least element.
LEMMA Least ==
    ASSUME NEW S \in SUBSET Nat, NEW m \in S
    PROVE  \E k \in S : k <= m /\ \A j \in 0 .. k - 1 : j \notin S
<1> SUFFICES ASSUME \A k \in S : k <= m => \E j \in 0 .. k - 1 : j \in S PROVE FALSE
  OBVIOUS
<1> DEFINE T == {n \in Nat : \A k \in 0 .. n : k <= m => k \notin S}
<1>1. 0 \in T
  <2>1. 0 \in S => FALSE
    OBVIOUS
  <2> QED BY <2>1
<1>2. ASSUME NEW n \in Nat, n \in T PROVE n + 1 \in T
  <2> SUFFICES ASSUME NEW k \in 0 .. n + 1, k <= m, k \in S PROVE FALSE
    OBVIOUS
  <2>1. k = n + 1
    BY <1>2
  <2>2. PICK j \in 0 .. k - 1 : j \in S
    OBVIOUS
  <2>3. j \in 0 .. n /\ j <= m
    BY <2>1, <2>2
  <2> QED BY <1>2, <2>2, <2>3
<1>3. Nat \subseteq T
  <2> HIDE DEF T
  <2> QED BY <1>1, <1>2, Induction
<1> QED BY <1>3

-----------------------------------------------------------------------------
(* Powers of two.                                                          *)

Pow(n) == 2 ^ n

\* A set of n elements has two to the n subsets.
LEMMA PowerSet ==
    ASSUME NEW n \in Nat
    PROVE  /\ IsFiniteSet(SUBSET (1 .. n)) /\ Cardinality(SUBSET (1 .. n)) = Pow(n)
           /\ Pow(n) \in Nat
<1>1. IsFiniteSet(1 .. n) /\ Cardinality(1 .. n) = n
  BY 1 \in Int, n \in Int, FS_Interval
<1>2. IsFiniteSet(SUBSET (1 .. n)) /\ Cardinality(SUBSET (1 .. n)) = 2 ^ n
  BY <1>1, FS_SUBSET
<1> QED BY <1>2, FS_CardinalityType DEF Pow

\* A set of n + 1 positions has twice as many subsets as one of n.
LEMMA PowSucc == ASSUME NEW n \in Nat PROVE Pow(n + 1) = 2 * Pow(n)
<1> DEFINE A == SUBSET (1 .. n)
           B == {T \cup {n + 1} : T \in A}
           f == [T \in A |-> T \cup {n + 1}]
<1>1. SUBSET (1 .. n + 1) = A \cup B
  <2>1. ASSUME NEW T \in SUBSET (1 .. n + 1), T \notin A PROVE T \in B
    <3>1. n + 1 \in T
      BY <2>1
    <3>2. T \ {n + 1} \in A
      OBVIOUS
    <3>3. T = (T \ {n + 1}) \cup {n + 1}
      BY <3>1
    <3> QED BY <3>2, <3>3
  <2>2. 1 .. n \subseteq 1 .. n + 1 /\ n + 1 \in 1 .. n + 1
    OBVIOUS
  <2>3. A \subseteq SUBSET (1 .. n + 1)
    BY <2>2
  <2>4. ASSUME NEW T \in A PROVE T \cup {n + 1} \in SUBSET (1 .. n + 1)
    BY <2>2
  <2>5. B \subseteq SUBSET (1 .. n + 1)
    BY <2>4
  <2> HIDE DEF A, B
  <2> QED BY <2>1, <2>3, <2>5
<1>2. A \cap B = {}
  <2>1. n + 1 \notin 1 .. n
    OBVIOUS
  <2> QED BY <2>1
<1>3. f \in Bijection(A, B)
  <2>1. f \in [A -> B]
    OBVIOUS
  <2>2. ASSUME NEW S \in A, NEW T \in A, f[S] = f[T] PROVE S = T
    <3>1. n + 1 \notin S /\ n + 1 \notin T
      OBVIOUS
    <3>2. S \cup {n + 1} = T \cup {n + 1}
      BY <2>2
    <3> QED BY <3>1, <3>2
  <2>3. ASSUME NEW T \in B PROVE \E S \in A : f[S] = T
    OBVIOUS
  <2> HIDE DEF A, B, f
  <2>4. DOMAIN f = A
    BY <2>1
  <2>5. f \in Injection(A, B)
    BY <2>1, <2>2, <2>4 DEF Injection, IsInjective
  <2>6. f \in Surjection(A, B)
    BY <2>1, <2>3 DEF Surjection
  <2> QED BY <2>5, <2>6 DEF Bijection
<1> HIDE DEF A, B, f
<1>4. IsFiniteSet(A) /\ Cardinality(A) = Pow(n) /\ Cardinality(SUBSET (1 .. n + 1)) = Pow(n + 1)
  BY PowerSet, n + 1 \in Nat DEF A
<1>5. IsFiniteSet(B) /\ Cardinality(B) = Cardinality(A)
  BY <1>3, <1>4, FS_Bijection DEF ExistsBijection
<1>6. Cardinality(A \cup B) = Cardinality(A) + Cardinality(B) - Cardinality(A \cap B)
  BY <1>4, <1>5, FS_Union
<1>7. Cardinality(A \cap B) = 0
  BY <1>2, FS_EmptySet
<1>8. Pow(n + 1) = Pow(n) + Pow(n) - 0
  BY <1>1, <1>4, <1>5, <1>6, <1>7
<1>9. PICK p : p = Pow(n)
  OBVIOUS
<1>10. p \in Nat /\ Pow(n + 1) = p + p - 0
  BY <1>8, <1>9, PowerSet
<1>11. p + p - 0 = 2 * p
  BY <1>10
<1> QED BY <1>9, <1>10, <1>11

\* The powers of two: the first, their type, their sum, their order.
LEMMA PowZero == Pow(0) = 1
BY DEF Pow

\* A power of two is larger than its exponent.
LEMMA PowType == ASSUME NEW n \in Nat PROVE Pow(n) \in Nat /\ n < Pow(n)
<1> DEFINE S == {k \in Nat : k < Pow(k)}
<1>1. 0 \in S
  BY PowZero
<1>2. ASSUME NEW k \in Nat, k \in S PROVE k + 1 \in S
  <2>1. Pow(k + 1) = 2 * Pow(k)
    BY PowSucc
  <2>2. PICK p : p = Pow(k)
    OBVIOUS
  <2>3. p \in Nat /\ k < p /\ Pow(k + 1) = 2 * p
    BY <1>2, <2>1, <2>2, PowerSet
  <2>4. k + 1 < 2 * p
    BY <2>3
  <2> QED BY <2>3, <2>4
<1>3. Nat \subseteq S
  <2> HIDE DEF S
  <2> QED BY <1>1, <1>2, Induction
<1> QED BY <1>3, PowerSet

\* The power of a sum is the product of the powers.
LEMMA PowAdd == ASSUME NEW m \in Nat, NEW n \in Nat PROVE Pow(m + n) = Pow(m) * Pow(n)
<1> DEFINE S == {k \in Nat : Pow(m + k) = Pow(m) * Pow(k)}
<1>1. 0 \in S
  BY PowZero, PowType
<1>2. ASSUME NEW k \in Nat, k \in S PROVE k + 1 \in S
  <2>1. m + k \in Nat /\ m + (k + 1) = (m + k) + 1
    OBVIOUS
  <2>2. Pow(m + (k + 1)) = 2 * Pow(m + k) /\ Pow(k + 1) = 2 * Pow(k)
    BY <2>1, PowSucc
  <2>3. PICK a, b : a = Pow(m) /\ b = Pow(k)
    OBVIOUS
  <2>4. a \in Nat /\ b \in Nat /\ Pow(m + k) = a * b
    BY <1>2, <2>3, PowType
  <2>5. 2 * (a * b) = a * (2 * b)
    BY <2>4
  <2> QED BY <2>2, <2>3, <2>4, <2>5
<1>3. Nat \subseteq S
  <2> HIDE DEF S
  <2> QED BY <1>1, <1>2, Induction
<1> QED BY <1>3

\* A larger exponent gives no smaller power.
LEMMA PowMonotone == ASSUME NEW m \in Nat, NEW n \in Nat, m <= n PROVE Pow(m) <= Pow(n)
<1>1. PICK d \in Nat : n = m + d
  <2>1. n - m \in Nat /\ n = m + (n - m)
    OBVIOUS
  <2> QED BY <2>1
<1>2. Pow(n) = Pow(m) * Pow(d) /\ Pow(d) \in Nat /\ Pow(d) >= 1 /\ Pow(m) \in Nat
  BY <1>1, PowAdd, PowType
<1> HIDE <1>1
<1>3. PICK a, b : a = Pow(m) /\ b = Pow(d)
  OBVIOUS
<1>4. a \in Nat /\ b \in Nat /\ b >= 1 /\ Pow(n) = a * b
  BY <1>2, <1>3
<1>5. a <= a * b
  BY <1>4
<1> QED BY <1>3, <1>4, <1>5

\* The binary logarithm: 2 to its power is no less than n, and it is the least such.
LEMMA Clog2Least ==
    ASSUME NEW n \in Int
    PROVE  /\ Clog2(n) \in Nat
           /\ n <= Pow(Clog2(n))
           /\ \A j \in Nat : n <= Pow(j) => Clog2(n) <= j
<1> DEFINE S == {k \in Nat : n <= Pow(k)}
           m == Larger(n, 0)
<1>1. m \in Nat /\ m \in S
  BY PowType DEF Larger
<1> HIDE DEF m
<1>2. PICK k \in S : k <= m /\ \A j \in 0 .. k - 1 : j \notin S
  <2> HIDE DEF S
  <2>1. S \in SUBSET Nat
    BY DEF S
  <2> QED BY <1>1, <2>1, Least
<1>3. k \in 0 .. m /\ n <= 2 ^ k /\ \A j \in 0 .. k - 1 : 2 ^ j < n
  <2>1. ASSUME NEW j \in 0 .. k - 1 PROVE Pow(j) < n
    BY <1>2, PowType
  <2> QED BY <1>1, <1>2, <2>1 DEF Pow
<1>4. PICK c : c = Clog2(n)
  OBVIOUS
<1>5. c \in 0 .. m /\ n <= 2 ^ c /\ \A j \in 0 .. c - 1 : 2 ^ j < n
  BY <1>3, <1>4 DEF Clog2, m
<1>6. c \in Nat /\ n <= Pow(c)
  BY <1>1, <1>5 DEF Pow
<1>7. ASSUME NEW j \in Nat, n <= Pow(j) PROVE c <= j
  <2>1. j \in 0 .. c - 1 => Pow(j) < n
    BY <1>5 DEF Pow
  <2> QED BY <1>6, <1>7, <2>1, PowType
<1> QED BY <1>4, <1>6, <1>7

\* The rounded logarithm that sizes every field is a natural number.
LEMMA Clog2Type == ASSUME NEW n \in Int PROVE Clog2(n) \in Nat
BY Clog2Least

\* A larger number has a logarithm at least as large.
LEMMA Clog2Monotone ==
    ASSUME NEW m \in Int, NEW n \in Int, m <= n PROVE Clog2(m) <= Clog2(n)
<1>1. m <= Pow(Clog2(n))
  BY Clog2Least, PowType
<1> QED BY <1>1, Clog2Least

-----------------------------------------------------------------------------
(* Division, and the bits of a number.                                     *)

\* Quotient and remainder, whatever the sign of the dividend.
LEMMA Division ==
    ASSUME NEW a \in Int, NEW b \in Nat, b > 0
    PROVE  a \div b \in Int /\ a % b \in 0 .. b - 1 /\ a = b * (a \div b) + (a % b)
OBVIOUS

\* Quotient and remainder are the only ones.
LEMMA Quotient ==
    ASSUME NEW a \in Int, NEW b \in Nat, NEW q \in Int, NEW r \in 0 .. b - 1, a = b * q + r
    PROVE  a \div b = q /\ a % b = r
<1>1. b > 0
  OBVIOUS
<1>2. PICK p, s : p = a \div b /\ s = a % b
  OBVIOUS
<1>3. p \in Int /\ s \in 0 .. b - 1 /\ a = b * p + s
  BY <1>1, <1>2, Division
<1>4. p = q
  <2>1. b * p + s = b * q + r
    BY <1>3
  <2>2. b * (p - q) = r - s
    BY <1>3, <2>1
  <2>3. ~(p - q >= 1)
    <3> SUFFICES ASSUME p - q >= 1 PROVE FALSE
      OBVIOUS
    <3>1. b * (p - q) >= b
      BY <1>3
    <3> QED BY <1>3, <2>2, <3>1
  <2>4. ~(p - q <= -1)
    <3> SUFFICES ASSUME p - q <= -1 PROVE FALSE
      OBVIOUS
    <3>1. b * (p - q) <= -b
      BY <1>3
    <3> QED BY <1>3, <2>2, <3>1
  <2> QED BY <1>3, <2>3, <2>4
<1>5. s = r
  BY <1>3, <1>4
<1> QED BY <1>2, <1>4, <1>5

\* Dividing twice is dividing by the product.
LEMMA DivisionTwice ==
    ASSUME NEW n \in Int, NEW a \in Nat, a > 0, NEW b \in Nat, b > 0
    PROVE  n \div (a * b) = (n \div a) \div b
<1>1. PICK q, r : q = n \div a /\ r = n % a
  OBVIOUS
<1>2. q \in Int /\ r \in 0 .. a - 1 /\ n = a * q + r
  BY <1>1, Division
<1>3. PICK p, s : p = q \div b /\ s = q % b
  OBVIOUS
<1>4. p \in Int /\ s \in 0 .. b - 1 /\ q = b * p + s
  BY <1>2, <1>3, Division
<1>5. PICK c : c = a * b
  OBVIOUS
<1>6. c \in Nat
  BY <1>5
<1>7. PICK t : t = a * s + r
  OBVIOUS
<1>8. t \in 0 .. c - 1
  <2>1. a * s <= a * (b - 1)
    BY <1>4
  <2>2. a * (b - 1) = c - a
    BY <1>5
  <2>3. PICK u : u = a * s
    OBVIOUS
  <2>4. u \in Nat /\ u <= c - a
    BY <1>4, <2>1, <2>2, <2>3
  <2> QED BY <1>2, <1>6, <1>7, <2>3, <2>4
<1>9. n = c * p + t
  <2>1. a * (b * p + s) = (a * b) * p + a * s
    BY <1>4
  <2> QED BY <1>2, <1>4, <1>5, <1>7, <2>1
<1>10. n \div c = p
  BY <1>4, <1>6, <1>8, <1>9, Quotient
<1> QED BY <1>1, <1>3, <1>5, <1>10

\* The quotient of a natural number does not exceed it.
LEMMA QuotientSmaller ==
    ASSUME NEW n \in Nat, NEW b \in Nat, b > 0
    PROVE  n \div b \in Nat /\ n \div b <= n /\ (n < b => n \div b = 0 /\ n % b = n)
<1>1. PICK q, r : q = n \div b /\ r = n % b
  OBVIOUS
<1>2. q \in Int /\ r \in 0 .. b - 1 /\ n = b * q + r
  BY <1>1, Division
<1>3. q >= 0
  <2> SUFFICES ASSUME q <= -1 PROVE FALSE
    BY <1>2
  <2>1. b * q <= -b
    BY <1>2
  <2> QED BY <1>2, <2>1
<1>4. q <= n
  <2>1. b * q >= q
    BY <1>2, <1>3
  <2> QED BY <1>2, <2>1
<1>5. ASSUME n < b PROVE q = 0 /\ r = n
  <2>1. n = b * 0 + n /\ n \in 0 .. b - 1
    BY <1>5
  <2> QED BY <1>1, <2>1, Quotient
<1> QED BY <1>1, <1>2, <1>3, <1>4, <1>5

\* Two divisions by powers of two are one.
LEMMA DivisionByPowers ==
    ASSUME NEW n \in Int, NEW m \in Nat, NEW k \in Nat
    PROVE  n \div Pow(m + k) = (n \div Pow(m)) \div Pow(k)
<1>1. PICK a, b : a = Pow(m) /\ b = Pow(k)
  OBVIOUS
<1>2. a \in Nat /\ a > 0 /\ b \in Nat /\ b > 0
  BY <1>1, PowType
<1>3. Pow(m + k) = a * b
  BY <1>1, PowAdd
<1> QED BY <1>1, <1>2, <1>3, DivisionTwice

Bit(n, i) == (n \div Pow(i)) % 2 = 1

\* A number has a length in bits, and fits in as many.
LEMMA BitLengthType ==
    ASSUME NEW n \in Nat PROVE BitLength(n) \in Nat /\ n < Pow(BitLength(n))
<1>1. n + 1 \in Int
  OBVIOUS
<1>2. BitLength(n) \in Nat /\ n + 1 <= Pow(BitLength(n))
  BY <1>1, Clog2Least DEF BitLength
<1> QED BY <1>2, PowType

\* The bits of a number are those it has at any position.
LEMMA BitsAre ==
    ASSUME NEW n \in Nat
    PROVE  Bits(n) = {i \in Nat : Bit(n, i)} /\ IsFiniteSet(Bits(n))
<1>1. PICK k : k = BitLength(n)
  OBVIOUS
<1>2. k \in Nat /\ n < Pow(k)
  BY <1>1, BitLengthType
<1>3. Bits(n) = {i \in 0 .. k - 1 : Bit(n, i)}
  BY <1>1 DEF Bits, Bit, Pow
<1>4. ASSUME NEW i \in Nat, i >= k PROVE ~Bit(n, i)
  <2>1. n < Pow(i) /\ Pow(i) \in Nat
    BY <1>2, <1>4, PowMonotone, PowType
  <2>2. n \div Pow(i) = 0
    BY <2>1, QuotientSmaller
  <2> QED BY <2>2 DEF Bit
<1>5. IsFiniteSet(0 .. k - 1)
  BY <1>2, 0 \in Int, k - 1 \in Int, FS_Interval
<1>6. IsFiniteSet({i \in 0 .. k - 1 : Bit(n, i)})
  BY <1>5, FS_Subset
<1>7. {i \in 0 .. k - 1 : Bit(n, i)} = {i \in Nat : Bit(n, i)}
  BY <1>2, <1>4
<1> QED BY <1>3, <1>6, <1>7

\* The bits of a number are positions.
LEMMA BitsType == ASSUME NEW n \in Int PROVE Bits(n) \in SUBSET Nat
<1>1. BitLength(n) \in Nat
  BY n + 1 \in Int, Clog2Type DEF BitLength
<1> QED BY <1>1 DEF Bits

\* The bits of the upper part of a number.
LEMMA BitsOfQuotient ==
    ASSUME NEW n \in Nat, NEW k \in Nat
    PROVE  n \div Pow(k) \in Nat /\ Bits(n \div Pow(k)) = High(Bits(n), k)
<1>1. PICK q : q = n \div Pow(k)
  OBVIOUS
<1>2. q \in Nat
  BY <1>1, PowType, QuotientSmaller
<1>3. ASSUME NEW i \in Nat PROVE Bit(q, i) <=> Bit(n, i + k)
  <2>1. n \div Pow(k + i) = q \div Pow(i)
    BY <1>1, DivisionByPowers
  <2>2. k + i = i + k
    OBVIOUS
  <2> QED BY <2>1, <2>2 DEF Bit
<1>4. Bits(q) = {i \in Nat : Bit(q, i)} /\ Bits(n) = {i \in Nat : Bit(n, i)}
  BY <1>2, BitsAre
<1>5. {i \in Nat : Bit(n, i + k)} = {j - k : j \in {i \in Bits(n) : i >= k}}
  <2>1. ASSUME NEW i \in Nat, Bit(n, i + k) PROVE \E j \in {j \in Bits(n) : j >= k} : i = j - k
    <3>1. i + k \in Nat /\ i + k >= k /\ i = (i + k) - k
      OBVIOUS
    <3> QED BY <1>4, <2>1, <3>1
  <2>2. ASSUME NEW j \in Bits(n), j >= k PROVE j - k \in Nat /\ Bit(n, (j - k) + k)
    <3>1. j \in Nat /\ Bit(n, j)
      BY <1>4
    <3>2. (j - k) + k = j /\ j - k \in Nat
      BY <2>2, <3>1
    <3> QED BY <3>1, <3>2
  <2> QED BY <2>1, <2>2
<1>6. Bits(q) = High(Bits(n), k)
  BY <1>3, <1>4, <1>5 DEF High
<1> QED BY <1>1, <1>2, <1>6

\* The bits of the lower part of a number.
LEMMA BitsOfRemainder ==
    ASSUME NEW n \in Nat, NEW k \in Nat
    PROVE  n % Pow(k) \in Nat /\ n % Pow(k) < Pow(k) /\ Bits(n % Pow(k)) = Low(Bits(n), k)
<1>1. PICK p, q, r : p = Pow(k) /\ q = n \div Pow(k) /\ r = n % Pow(k)
  OBVIOUS
<1>2. p \in Nat /\ p > 0
  BY <1>1, PowType
<1>3. q \in Nat /\ r \in 0 .. p - 1 /\ n = p * q + r
  <2>1. n \in Int
    OBVIOUS
  <2>2. r \in 0 .. p - 1 /\ n = p * q + r
    BY <1>1, <1>2, <2>1, Division
  <2>3. q \in Nat
    BY <1>1, <1>2, QuotientSmaller
  <2> QED BY <2>2, <2>3
<1>4. ASSUME NEW i \in Nat, i >= k PROVE ~Bit(r, i)
  <2>1. Pow(i) \in Nat /\ p <= Pow(i)
    BY <1>1, <1>4, PowMonotone, PowType
  <2>2. r \div Pow(i) = 0
    BY <1>2, <1>3, <2>1, QuotientSmaller
  <2> QED BY <2>2 DEF Bit
<1>5. ASSUME NEW i \in Nat, i < k PROVE Bit(r, i) <=> Bit(n, i)
  <2>1. PICK d : d = k - (i + 1)
    OBVIOUS
  <2>2. d \in Nat /\ k = i + (d + 1)
    BY <1>5, <2>1
  <2>3. PICK a, b : a = Pow(i) /\ b = Pow(d)
    OBVIOUS
  <2>4. a \in Nat /\ a > 0 /\ b \in Nat /\ Pow(d + 1) = 2 * b
    BY <2>2, <2>3, PowType, PowSucc
  <2>5. p = a * (2 * b)
    BY <1>1, <2>2, <2>3, <2>4, PowAdd
  <2>6. PICK t, u : t = r \div a /\ u = r % a
    OBVIOUS
  <2>7. t \in Int /\ u \in 0 .. a - 1 /\ r = a * t + u
    BY <1>3, <2>4, <2>6, Division
  <2>8. n = a * (2 * (b * q) + t) + u
    <3>1. (a * (2 * b)) * q + (a * t + u) = a * (2 * (b * q) + t) + u
      BY <1>3, <2>4, <2>7
    <3> QED BY <1>3, <2>5, <2>7, <3>1
  <2>9. PICK v : v = b * q
    OBVIOUS
  <2>10. v \in Nat
    BY <1>3, <2>4, <2>9
  <2>11. n \div a = 2 * v + t
    <3>1. n \in Int /\ 2 * v + t \in Int
      BY <2>7, <2>10
    <3>2. n = a * (2 * v + t) + u
      BY <2>8, <2>9
    <3> QED BY <2>4, <2>7, <3>1, <3>2, Quotient
  <2>12. (2 * v + t) % 2 = t % 2
    BY <2>7, <2>10
  <2> QED BY <2>3, <2>6, <2>11, <2>12 DEF Bit
<1>6. Bits(r) = {i \in Nat : Bit(r, i)} /\ Bits(n) = {i \in Nat : Bit(n, i)}
  BY <1>3, BitsAre
<1>7. Bits(r) = Low(Bits(n), k)
  BY <1>4, <1>5, <1>6 DEF Low
<1> QED BY <1>1, <1>3, <1>7, PowType

\* A number below 2^k has its bits below k.
LEMMA BitsBelow ==
    ASSUME NEW n \in Nat, NEW k \in Nat, n < Pow(k)
    PROVE  Low(Bits(n), k) = Bits(n) /\ Fits(Bits(n), k)
<1>1. n % Pow(k) = n
  BY PowType, QuotientSmaller
<1>2. Bits(n) = Low(Bits(n), k)
  BY <1>1, BitsOfRemainder
<1> QED BY <1>2 DEF Low, Fits

-----------------------------------------------------------------------------
(* The number of a set of bits: what the fold over the set computes.     *)

Chosen(s) == CHOOSE x \in s : TRUE

\* g sums the subsets of S that have at most n elements.
Sums(g, S, n) ==
    g = [s \in {t \in SUBSET S : Cardinality(t) <= n} |->
            IF s = {} THEN 0 ELSE Pow(Chosen(s)) + g[s \ {Chosen(s)}]]

\* A set without its chosen element is finite and one element smaller.
LEMMA SmallerSet ==
    ASSUME NEW S, IsFiniteSet(S), NEW s \in SUBSET S, s # {}
    PROVE  /\ Chosen(s) \in s /\ IsFiniteSet(s) /\ Cardinality(s) \in Nat \ {0}
           /\ s \ {Chosen(s)} \in SUBSET S /\ IsFiniteSet(s \ {Chosen(s)})
           /\ Cardinality(s \ {Chosen(s)}) = Cardinality(s) - 1
<1>1. IsFiniteSet(s)
  BY FS_Subset
<1>2. Chosen(s) \in s
  BY DEF Chosen
<1>3. Cardinality(s) \in Nat /\ Cardinality(s) # 0
  BY <1>1, FS_CardinalityType, FS_EmptySet
<1>4. IsFiniteSet(s \ {Chosen(s)}) /\ Cardinality(s \ {Chosen(s)}) = Cardinality(s) - 1
  BY <1>1, <1>2, FS_RemoveElement
<1> QED BY <1>1, <1>2, <1>3, <1>4

\* Such a function exists, for any number of elements.
LEMMA SumsExist ==
    ASSUME NEW S, IsFiniteSet(S), NEW m \in Nat
    PROVE  \E g : Sums(g, S, m)
<1> DEFINE T == {n \in Nat : \E g : Sums(g, S, n)}
           Upto(n) == {t \in SUBSET S : Cardinality(t) <= n}
<1>1. 0 \in T
  <2> DEFINE g == [s \in Upto(0) |-> 0]
  <2>1. ASSUME NEW s \in Upto(0) PROVE s = {}
    <3>1. IsFiniteSet(s)
      BY FS_Subset
    <3> QED BY <3>1, FS_CardinalityType, FS_EmptySet
  <2>2. g = [s \in Upto(0) |-> IF s = {} THEN 0 ELSE Pow(Chosen(s)) + g[s \ {Chosen(s)}]]
    BY <2>1
  <2>3. Sums(g, S, 0)
    BY <2>2 DEF Sums
  <2> QED BY <2>3
<1>2. ASSUME NEW n \in Nat, n \in T PROVE n + 1 \in T
  <2>1. PICK g : Sums(g, S, n)
    BY <1>2
  <2> DEFINE h == [s \in Upto(n + 1) |->
                      IF s = {} THEN 0 ELSE Pow(Chosen(s)) + g[s \ {Chosen(s)}]]
  <2>2. ASSUME NEW s \in Upto(n) PROVE h[s] = g[s]
    <3>1. s \in Upto(n + 1)
      <4>1. IsFiniteSet(s)
        BY FS_Subset
      <4>2. Cardinality(s) \in Nat
        BY <4>1, FS_CardinalityType
      <4> QED BY <4>2
    <3> QED BY <2>1, <3>1 DEF Sums
  <2>3. ASSUME NEW s \in Upto(n + 1), s # {} PROVE h[s \ {Chosen(s)}] = g[s \ {Chosen(s)}]
    <3>1. s \ {Chosen(s)} \in Upto(n)
      <4>1. Cardinality(s \ {Chosen(s)}) = Cardinality(s) - 1 /\ Cardinality(s) \in Nat
            /\ s \ {Chosen(s)} \in SUBSET S
        BY <2>3, SmallerSet
      <4> QED BY <4>1
    <3> HIDE DEF h
    <3> QED BY <2>2, <3>1
  <2>4. h = [s \in Upto(n + 1) |->
                IF s = {} THEN 0 ELSE Pow(Chosen(s)) + h[s \ {Chosen(s)}]]
    <3>1. \A s \in Upto(n + 1) :
             h[s] = IF s = {} THEN 0 ELSE Pow(Chosen(s)) + h[s \ {Chosen(s)}]
      BY <2>3
    <3> QED BY <3>1
  <2>5. Sums(h, S, n + 1)
    <3> HIDE DEF h
    <3> QED BY <2>4 DEF Sums
  <2> QED BY <2>5
<1>3. Nat \subseteq T
  <2> HIDE DEF T
  <2> QED BY <1>1, <1>2, Induction
<1> QED BY <1>3

\* Two such functions agree where both are defined.
LEMMA SumsAgree ==
    ASSUME NEW S, IsFiniteSet(S), NEW T, IsFiniteSet(T), NEW m \in Nat, NEW n \in Nat,
           NEW g, Sums(g, S, m), NEW h, Sums(h, T, n),
           NEW s \in SUBSET (S \cap T), Cardinality(s) <= m, Cardinality(s) <= n
    PROVE  g[s] = h[s]
<1> DEFINE Agreeing == {k \in Nat : \A t \in SUBSET (S \cap T) :
               Cardinality(t) = k /\ k <= m /\ k <= n => g[t] = h[t]}
<1>1. 0 \in Agreeing
  <2> SUFFICES ASSUME NEW t \in SUBSET (S \cap T), Cardinality(t) = 0 PROVE g[t] = h[t]
    OBVIOUS
  <2>1. t = {}
    <3>1. IsFiniteSet(t)
      BY FS_Subset
    <3> QED BY <3>1, FS_EmptySet
  <2> QED BY <2>1 DEF Sums
<1>2. ASSUME NEW k \in Nat, k \in Agreeing PROVE k + 1 \in Agreeing
  <2> SUFFICES ASSUME NEW t \in SUBSET (S \cap T), Cardinality(t) = k + 1, k + 1 <= m, k + 1 <= n
               PROVE  g[t] = h[t]
    OBVIOUS
  <2>1. t # {}
    BY FS_EmptySet
  <2>2. PICK u : u = t \ {Chosen(t)}
    OBVIOUS
  <2>3. u \in SUBSET (S \cap T) /\ Cardinality(u) = k
    <3>1. t \in SUBSET S
      OBVIOUS
    <3>2. Cardinality(u) = (k + 1) - 1
      BY <2>1, <2>2, <3>1, SmallerSet
    <3>3. u \in SUBSET (S \cap T)
      BY <2>2
    <3> QED BY <3>2, <3>3
  <2>4. g[u] = h[u]
    BY <1>2, <2>3
  <2>5. ASSUME NEW f, NEW R, NEW l, Sums(f, R, l), t \in SUBSET R, k + 1 <= l
        PROVE  f[t] = Pow(Chosen(t)) + f[u]
    <3>1. t \in {x \in SUBSET R : Cardinality(x) <= l}
      BY <2>5
    <3>2. f[t] = IF t = {} THEN 0 ELSE Pow(Chosen(t)) + f[t \ {Chosen(t)}]
      BY <2>5, <3>1 DEF Sums
    <3> QED BY <2>1, <2>2, <3>2
  <2>6. g[t] = Pow(Chosen(t)) + g[u] /\ h[t] = Pow(Chosen(t)) + h[u]
    BY <2>5
  <2> QED BY <2>4, <2>6
<1>3. Nat \subseteq Agreeing
  <2> HIDE DEF Agreeing
  <2> QED BY <1>1, <1>2, Induction
<1>4. Cardinality(s) \in Nat
  <2>1. IsFiniteSet(s)
    BY FS_Subset
  <2> QED BY <2>1, FS_CardinalityType
<1> QED BY <1>3, <1>4

\* The fold is such a function, taken at the whole set.
LEMMA NumberIsSum ==
    ASSUME NEW S, IsFiniteSet(S)
    PROVE  \E g : Sums(g, S, Cardinality(S)) /\ Number(S) = g[S]
<1> DEFINE Def(g) == g = [s \in SUBSET S |->
                            IF s = {} THEN 0 ELSE 2 ^ (CHOOSE x \in s : TRUE) + g[s \ {CHOOSE x \in s : TRUE}]]
<1>1. Number(S) = (CHOOSE g : Def(g))[S]
  BY DEF Number, MapThenSumSet, MapThenFoldSet
<1>2. \A g : Sums(g, S, Cardinality(S)) <=> Def(g)
  <2>1. {t \in SUBSET S : Cardinality(t) <= Cardinality(S)} = SUBSET S
    BY FS_Subset
  <2> QED BY <2>1 DEF Sums, Pow, Chosen
<1>3. \E g : Def(g)
  <2> HIDE DEF Def
  <2>1. Cardinality(S) \in Nat
    BY FS_CardinalityType
  <2>2. PICK g : Sums(g, S, Cardinality(S))
    BY <2>1, SumsExist
  <2> QED BY <1>2, <2>2
<1>4. PICK g : g = CHOOSE h : Def(h)
  OBVIOUS
<1>5. Def(g)
  BY <1>3, <1>4
<1> HIDE DEF Def
<1> QED BY <1>1, <1>2, <1>4, <1>5

-----------------------------------------------------------------------------
(* The number of a set of bits.                                            *)

\* No bit is set in zero.
LEMMA NumberEmpty == Number({}) = 0
<1>1. IsFiniteSet({}) /\ Cardinality({}) = 0
  BY FS_EmptySet
<1>2. PICK g : Sums(g, {}, 0) /\ Number({}) = g[{}]
  BY <1>1, NumberIsSum
<1>3. {} \in {t \in SUBSET {} : Cardinality(t) <= 0}
  BY <1>1
<1>4. g[{}] = 0
  BY <1>2, <1>3 DEF Sums
<1> QED BY <1>2, <1>4

\* The number of a set, by the element the sum takes first.
LEMMA NumberChosen ==
    ASSUME NEW S, IsFiniteSet(S), S # {}
    PROVE  Number(S) = Pow(Chosen(S)) + Number(S \ {Chosen(S)})
<1>1. PICK T : T = S \ {Chosen(S)}
  OBVIOUS
<1>2. S \in SUBSET S
  OBVIOUS
<1>3. PICK m, n : m = Cardinality(S) /\ n = Cardinality(T)
  OBVIOUS
<1>4. m \in Nat \ {0} /\ n = m - 1 /\ IsFiniteSet(T) /\ T \in SUBSET S
  BY <1>1, <1>2, <1>3, SmallerSet
<1>5. PICK g : Sums(g, S, m) /\ Number(S) = g[S]
  BY <1>3, NumberIsSum
<1>6. PICK h : Sums(h, T, n) /\ Number(T) = h[T]
  BY <1>3, <1>4, NumberIsSum
<1>7. S \in {t \in SUBSET S : Cardinality(t) <= m}
  BY <1>3, <1>4
<1>8. g[S] = Pow(Chosen(S)) + g[T]
  <2>1. g[S] = IF S = {} THEN 0 ELSE Pow(Chosen(S)) + g[S \ {Chosen(S)}]
    BY <1>5, <1>7 DEF Sums
  <2> QED BY <1>1, <2>1
<1>9. g[T] = h[T]
  <2>1. T \in SUBSET (S \cap T) /\ Cardinality(T) <= m /\ Cardinality(T) <= n /\ m \in Nat /\ n \in Nat
    BY <1>3, <1>4
  <2> QED BY <1>4, <1>5, <1>6, <2>1, SumsAgree
<1> QED BY <1>1, <1>5, <1>6, <1>8, <1>9

\* The number of a finite set of positions is a natural number.
LEMMA NumberType ==
    ASSUME NEW S \in SUBSET Nat, IsFiniteSet(S) PROVE Number(S) \in Nat
<1> DEFINE T == {n \in Nat : \A s \in SUBSET Nat :
                    IsFiniteSet(s) /\ Cardinality(s) = n => Number(s) \in Nat}
<1>1. 0 \in T
  BY FS_EmptySet, NumberEmpty
<1>2. ASSUME NEW n \in Nat, n \in T PROVE n + 1 \in T
  <2> SUFFICES ASSUME NEW s \in SUBSET Nat, IsFiniteSet(s), Cardinality(s) = n + 1
               PROVE  Number(s) \in Nat
    OBVIOUS
  <2>1. s # {}
    BY FS_EmptySet
  <2>2. PICK u, x : x = Chosen(s) /\ u = s \ {x}
    OBVIOUS
  <2>3. x \in s /\ IsFiniteSet(u) /\ Cardinality(u) = (n + 1) - 1
    <3>1. s \in SUBSET s
      OBVIOUS
    <3> QED BY <2>1, <2>2, <3>1, SmallerSet
  <2>4. Number(u) \in Nat
    <3>1. u \in SUBSET Nat
      BY <2>2
    <3>2. Cardinality(u) = n
      BY <2>3
    <3> QED BY <1>2, <2>3, <3>1, <3>2
  <2>5. Number(s) = Pow(x) + Number(u)
    BY <2>1, <2>2, NumberChosen
  <2> QED BY <2>3, <2>4, <2>5, PowType
<1>3. Nat \subseteq T
  <2> HIDE DEF T
  <2> QED BY <1>1, <1>2, Induction
<1> QED BY <1>3, FS_CardinalityType

\* In whatever order the elements are taken, the sum is the same.
LEMMA NumberRemove ==
    ASSUME NEW S \in SUBSET Nat, IsFiniteSet(S), NEW x \in S
    PROVE  Number(S) = Pow(x) + Number(S \ {x})
<1> DEFINE T == {n \in Nat : \A s \in SUBSET Nat : \A y \in s :
                    IsFiniteSet(s) /\ Cardinality(s) = n => Number(s) = Pow(y) + Number(s \ {y})}
<1>1. 0 \in T
  BY FS_EmptySet
<1>2. ASSUME NEW n \in Nat, n \in T PROVE n + 1 \in T
  <2> SUFFICES ASSUME NEW s \in SUBSET Nat, NEW y \in s, IsFiniteSet(s), Cardinality(s) = n + 1
               PROVE  Number(s) = Pow(y) + Number(s \ {y})
    OBVIOUS
  <2>1. PICK c : c = Chosen(s)
    OBVIOUS
  <2>2. Number(s) = Pow(c) + Number(s \ {c})
    BY <2>1, NumberChosen
  <2>3. c \in s
    BY <2>1 DEF Chosen
  <2>4. CASE c = y
    BY <2>2, <2>4
  <2>5. CASE c # y
    <3>1. /\ IsFiniteSet(s \ {c}) /\ Cardinality(s \ {c}) = (n + 1) - 1
          /\ IsFiniteSet(s \ {y}) /\ Cardinality(s \ {y}) = (n + 1) - 1
      BY <2>3, FS_RemoveElement
    <3>2. PICK u : u = (s \ {c}) \ {y}
      OBVIOUS
    <3>3. u = (s \ {y}) \ {c} /\ u \in SUBSET Nat /\ IsFiniteSet(u)
      <4>1. u \in SUBSET s
        BY <3>2
      <4> QED BY <3>2, <4>1, FS_Subset
    <3>4. Number(s \ {c}) = Pow(y) + Number(u)
      <4>1. s \ {c} \in SUBSET Nat /\ y \in s \ {c}
        BY <2>5
      <4>2. Cardinality(s \ {c}) = n
        BY <3>1
      <4> QED BY <1>2, <3>1, <3>2, <4>1, <4>2
    <3>5. Number(s \ {y}) = Pow(c) + Number(u)
      <4>1. s \ {y} \in SUBSET Nat /\ c \in s \ {y}
        BY <2>3, <2>5
      <4>2. Cardinality(s \ {y}) = n
        BY <3>1
      <4> QED BY <1>2, <3>1, <3>3, <4>1, <4>2
    <3>6. PICK a, b, d : a = Pow(c) /\ b = Pow(y) /\ d = Number(u)
      OBVIOUS
    <3>7. a \in Nat /\ b \in Nat /\ d \in Nat
      <4>1. c \in Nat /\ y \in Nat
        BY <2>3
      <4> QED BY <3>3, <3>6, <4>1, PowType, NumberType
    <3>8. a + (b + d) = b + (a + d)
      BY <3>7
    <3> QED BY <2>2, <3>4, <3>5, <3>6, <3>8
  <2> QED BY <2>4, <2>5
<1>3. Nat \subseteq T
  <2> HIDE DEF T
  <2> QED BY <1>1, <1>2, Induction
<1>4. Cardinality(S) \in T
  BY <1>3, FS_CardinalityType
<1> QED BY <1>4

\* One more bit adds its power of two, whichever is taken first.
LEMMA NumberAdd ==
    ASSUME NEW S \in SUBSET Nat, IsFiniteSet(S), NEW x \in Nat, x \notin S
    PROVE  Number(S \cup {x}) = Pow(x) + Number(S)
<1>1. PICK T : T = S \cup {x}
  OBVIOUS
<1>2. IsFiniteSet(T) /\ T \in SUBSET Nat /\ x \in T /\ T \ {x} = S
  BY <1>1, FS_AddElement
<1> QED BY <1>1, <1>2, NumberRemove

\* One position up is twice the number.
LEMMA NumberDouble ==
    ASSUME NEW S \in SUBSET Nat, IsFiniteSet(S)
    PROVE  /\ IsFiniteSet(Shift(S, 1)) /\ Shift(S, 1) \in SUBSET Nat
           /\ Number(Shift(S, 1)) = 2 * Number(S)
<1> DEFINE Doubles(s) == /\ IsFiniteSet(Shift(s, 1)) /\ Shift(s, 1) \in SUBSET Nat
                         /\ Number(Shift(s, 1)) = 2 * Number(s)
           T == {n \in Nat : \A s \in SUBSET Nat :
                    IsFiniteSet(s) /\ Cardinality(s) = n => Doubles(s)}
<1>1. 0 \in T
  <2>1. Shift({}, 1) = {}
    BY DEF Shift
  <2>2. Doubles({})
    BY <2>1, FS_EmptySet, NumberEmpty
  <2> HIDE DEF Doubles
  <2> QED BY <2>2, FS_EmptySet
<1>2. ASSUME NEW n \in Nat, n \in T PROVE n + 1 \in T
  <2> SUFFICES ASSUME NEW s \in SUBSET Nat, IsFiniteSet(s), Cardinality(s) = n + 1
               PROVE  Doubles(s)
    OBVIOUS
  <2>1. PICK x : x \in s
    BY FS_EmptySet
  <2>2. PICK u : u = s \ {x}
    OBVIOUS
  <2>3. u \in SUBSET Nat /\ IsFiniteSet(u) /\ Cardinality(u) = (n + 1) - 1
    BY <2>1, <2>2, FS_RemoveElement
  <2>4. Doubles(u)
    <3>1. Cardinality(u) = n
      BY <2>3
    <3> QED BY <1>2, <2>3, <3>1
  <2>5. Shift(s, 1) = Shift(u, 1) \cup {x + 1} /\ x + 1 \notin Shift(u, 1) /\ x + 1 \in Nat
    <3>1. \A i \in s : i \in Nat
      OBVIOUS
    <3>2. Shift(s, 1) = Shift(u, 1) \cup {x + 1}
      BY <2>1, <2>2 DEF Shift
    <3>3. x + 1 \notin Shift(u, 1)
      <4> SUFFICES ASSUME NEW i \in u, i + 1 = x + 1 PROVE FALSE
        BY DEF Shift
      <4>1. i \in Nat /\ x \in Nat /\ i # x
        BY <2>1, <2>2
      <4> QED BY <4>1
    <3> QED BY <2>1, <3>2, <3>3
  <2>6. Number(Shift(s, 1)) = Pow(x + 1) + 2 * Number(u)
    BY <2>4, <2>5, NumberAdd
  <2>7. Number(s) = Pow(x) + Number(u)
    BY <2>1, <2>2, NumberRemove
  <2>8. Pow(x + 1) = 2 * Pow(x) /\ Pow(x) \in Nat /\ Number(u) \in Nat
    BY <2>1, <2>3, PowSucc, PowType, NumberType
  <2>9. PICK a, b : a = Pow(x) /\ b = Number(u)
    OBVIOUS
  <2>10. 2 * a + 2 * b = 2 * (a + b)
    BY <2>8, <2>9
  <2>11. Number(Shift(s, 1)) = 2 * Number(s)
    BY <2>6, <2>7, <2>8, <2>9, <2>10
  <2>12. IsFiniteSet(Shift(s, 1)) /\ Shift(s, 1) \in SUBSET Nat
    BY <2>4, <2>5, FS_AddElement
  <2> QED BY <2>11, <2>12
<1>3. Nat \subseteq T
  <2> HIDE DEF T
  <2> QED BY <1>1, <1>2, Induction
<1>4. Cardinality(S) \in T
  BY <1>3, FS_CardinalityType
<1> HIDE DEF Doubles
<1>5. Doubles(S)
  BY <1>4
<1> QED BY <1>5 DEF Doubles

-----------------------------------------------------------------------------
(* A number is that of its bits, and a finite set of positions that of its*)
(* number.                                                               *)

\* The bits of twice a number, and of one more.
LEMMA BitsDouble ==
    ASSUME NEW n \in Nat, NEW b \in {0, 1}
    PROVE  Bits(2 * n + b) = Shift(Bits(n), 1) \cup {i \in {0} : b = 1}
<1>1. PICK m : m = 2 * n + b
  OBVIOUS
<1>2. m \in Nat /\ m \div 2 = n /\ m % 2 = b
  BY <1>1
<1>3. Pow(1) = 2 /\ m \div Pow(0) = m
  <2>1. Pow(0 + 1) = 2 * Pow(0)
    BY PowSucc
  <2> QED BY <1>2, <2>1, PowZero
<1>4. High(Bits(m), 1) = Bits(n)
  BY <1>2, <1>3, BitsOfQuotient
<1>5. 0 \in Bits(m) <=> b = 1
  BY <1>2, <1>3, BitsAre DEF Bit
<1>6. Bits(m) \in SUBSET Nat
  BY <1>2, BitsAre
<1>7. Shift(High(Bits(m), 1), 1) = {j \in Bits(m) : j >= 1}
  <2>1. ASSUME NEW j \in Bits(m), j >= 1 PROVE j = (j - 1) + 1
    BY <1>6, <2>1
  <2>2. Shift(High(Bits(m), 1), 1) = {(j - 1) + 1 : j \in {i \in Bits(m) : i >= 1}}
    BY DEF Shift, High
  <2> QED BY <2>1, <2>2
<1>8. Bits(m) = {j \in Bits(m) : j >= 1} \cup {i \in {0} : b = 1}
  <2>1. ASSUME NEW j \in Bits(m) PROVE j >= 1 \/ j = 0
    BY <1>6
  <2> QED BY <1>5, <2>1
<1> QED BY <1>1, <1>4, <1>7, <1>8

\* A number written in bits and read back is the number.
LEMMA NumberOfBits == ASSUME NEW n \in Nat PROVE Number(Bits(n)) = n
<1> DEFINE T == {k \in Nat : \A m \in 0 .. k : Number(Bits(m)) = m}
<1>1. 0 \in T
  <2>1. Bits(0) = {}
    <3>1. ASSUME NEW i \in Nat PROVE ~Bit(0, i)
      <4>1. 0 \div Pow(i) = 0
        BY PowType, QuotientSmaller
      <4> QED BY <4>1 DEF Bit
    <3> QED BY <3>1, BitsAre
  <2>2. Number(Bits(0)) = 0
    BY <2>1, NumberEmpty
  <2> QED BY <2>2
<1>2. ASSUME NEW k \in Nat, k \in T PROVE k + 1 \in T
  <2> SUFFICES ASSUME NEW m \in 0 .. k + 1 PROVE Number(Bits(m)) = m
    OBVIOUS
  <2>1. CASE m <= k
    BY <1>2, <2>1
  <2>2. CASE m = k + 1
    <3>1. PICK h, b : h = m \div 2 /\ b = m % 2
      OBVIOUS
    <3>2. h \in 0 .. k /\ b \in {0, 1} /\ m = 2 * h + b
      BY <2>2, <3>1
    <3>3. Number(Bits(h)) = h
      BY <1>2, <3>2
    <3>4. PICK s : s = Shift(Bits(h), 1)
      OBVIOUS
    <3>5. Bits(h) \in SUBSET Nat /\ IsFiniteSet(Bits(h))
      BY <3>2, BitsAre
    <3>6. IsFiniteSet(s) /\ s \in SUBSET Nat /\ Number(s) = 2 * h
      BY <3>3, <3>4, <3>5, NumberDouble
    <3>7. Bits(m) = s \cup {i \in {0} : b = 1}
      BY <3>2, <3>4, BitsDouble
    <3>8. CASE b = 0
      <4>1. Bits(m) = s
        BY <3>7, <3>8
      <4> QED BY <3>2, <3>6, <3>8, <4>1
    <3>9. CASE b = 1
      <4>1. Bits(m) = s \cup {0}
        BY <3>7, <3>9
      <4>2. 0 \notin s
        BY <3>4, <3>5 DEF Shift
      <4>3. Number(Bits(m)) = Pow(0) + Number(s)
        BY <3>6, <4>1, <4>2, NumberAdd
      <4> QED BY <3>2, <3>6, <3>9, <4>3, PowZero
    <3> QED BY <3>2, <3>8, <3>9
  <2> QED BY <2>1, <2>2
<1>3. Nat \subseteq T
  <2> HIDE DEF T
  <2> QED BY <1>1, <1>2, Induction
<1> QED BY <1>3

\* A finite set of naturals has an upper bound.
LEMMA Bounded ==
    ASSUME NEW S \in SUBSET Nat, IsFiniteSet(S) PROVE \E k \in Nat : Fits(S, k)
<1> DEFINE T == {n \in Nat : \A s \in SUBSET Nat :
                    IsFiniteSet(s) /\ Cardinality(s) = n => \E k \in Nat : Fits(s, k)}
<1>1. 0 \in T
  <2>1. Fits({}, 0)
    BY DEF Fits
  <2> QED BY <2>1, FS_EmptySet
<1>2. ASSUME NEW n \in Nat, n \in T PROVE n + 1 \in T
  <2> SUFFICES ASSUME NEW s \in SUBSET Nat, IsFiniteSet(s), Cardinality(s) = n + 1
               PROVE  \E k \in Nat : Fits(s, k)
    OBVIOUS
  <2>1. PICK x : x \in s
    BY FS_EmptySet
  <2>2. PICK u : u = s \ {x}
    OBVIOUS
  <2>3. IsFiniteSet(u) /\ Cardinality(u) = (n + 1) - 1
    BY <2>1, <2>2, FS_RemoveElement
  <2>4. u \in SUBSET Nat
    BY <2>2
  <2>5. PICK k \in Nat : Fits(u, k)
    <3>1. Cardinality(u) = n
      BY <2>3
    <3> QED BY <1>2, <2>3, <2>4, <3>1
  <2>6. PICK l \in Nat : k <= l /\ x < l
    <3>1. k + (x + 1) \in Nat /\ k <= k + (x + 1) /\ x < k + (x + 1)
      BY <2>1
    <3> QED BY <3>1
  <2>7. Fits(s, l)
    <3> SUFFICES ASSUME NEW i \in s PROVE i < l
      BY DEF Fits
    <3>1. CASE i = x
      BY <2>6, <3>1
    <3>2. CASE i # x
      <4>1. i < k /\ i \in Nat
        BY <2>2, <2>5, <3>2 DEF Fits
      <4> QED BY <2>6, <4>1
    <3> QED BY <3>1, <3>2
  <2> QED BY <2>7
<1>3. Nat \subseteq T
  <2> HIDE DEF T
  <2> QED BY <1>1, <1>2, Induction
<1> QED BY <1>3, FS_CardinalityType

\* Positions below a bound are finitely many.
LEMMA FiniteBelow ==
    ASSUME NEW S \in SUBSET Nat, NEW k \in Nat, Fits(S, k) PROVE IsFiniteSet(S)
<1>1. IsFiniteSet(0 .. k)
  BY 0 \in Int, k \in Int, FS_Interval
<1>2. S \in SUBSET (0 .. k)
  BY DEF Fits
<1> QED BY <1>1, <1>2, FS_Subset

\* A finite set of naturals has a largest element, and a smallest.
LEMMA Largest ==
    ASSUME NEW S \in SUBSET Nat, IsFiniteSet(S), S # {}
    PROVE  Max(S) \in S /\ \A y \in S : y <= Max(S)
<1>1. PICK m \in Nat : Fits(S, m)
  BY Bounded
<1>2. PICK B : B = {b \in Nat : Fits(S, b)}
  OBVIOUS
<1>3. PICK k \in B : \A j \in 0 .. k - 1 : j \notin B
  <2>1. B \in SUBSET Nat /\ m \in B
    BY <1>1, <1>2
  <2> QED BY <2>1, Least
<1>4. k \in Nat /\ \A y \in S : y \in Nat /\ y < k
  BY <1>2, <1>3 DEF Fits
<1>5. k - 1 \in Nat /\ k - 1 \notin B
  <2>1. PICK y : y \in S
    OBVIOUS
  <2>2. k > 0
    BY <1>4, <2>1
  <2> QED BY <1>3, <1>4, <2>2
<1>6. PICK x \in S : ~(x < k - 1)
  BY <1>2, <1>5 DEF Fits
<1>7. \A y \in S : x >= y
  BY <1>4, <1>6
<1>8. PICK z : z = Max(S)
  OBVIOUS
<1>9. z \in S /\ \A y \in S : z >= y
  BY <1>7, <1>8 DEF Max
<1> QED BY <1>8, <1>9

\* A set of positions has a lowest one.
LEMMA Smallest ==
    ASSUME NEW S \in SUBSET Nat, S # {} PROVE \E x \in S : \A y \in S : x <= y
<1>1. PICK m \in S : TRUE
  OBVIOUS
<1>2. PICK k \in S : \A j \in 0 .. k - 1 : j \notin S
  BY Least
<1>3. ASSUME NEW y \in S PROVE k <= y
  BY <1>2
<1> QED BY <1>3

\* Bits read as a number and written again are the bits.
LEMMA BitsOfNumber ==
    ASSUME NEW S \in SUBSET Nat, IsFiniteSet(S) PROVE Bits(Number(S)) = S
<1> DEFINE T == {k \in Nat : \A s \in SUBSET Nat : Fits(s, k) => Bits(Number(s)) = s}
<1>1. 0 \in T
  <2> SUFFICES ASSUME NEW s \in SUBSET Nat, Fits(s, 0) PROVE Bits(Number(s)) = s
    OBVIOUS
  <2>1. s = {}
    BY DEF Fits
  <2>2. Bits(0) = {}
    <3>1. ASSUME NEW i \in Nat PROVE ~Bit(0, i)
      <4>1. 0 \div Pow(i) = 0
        BY PowType, QuotientSmaller
      <4> QED BY <4>1 DEF Bit
    <3> QED BY <3>1, BitsAre
  <2> QED BY <2>1, <2>2, NumberEmpty
<1>2. ASSUME NEW k \in Nat, k \in T PROVE k + 1 \in T
  <2> SUFFICES ASSUME NEW s \in SUBSET Nat, Fits(s, k + 1) PROVE Bits(Number(s)) = s
    OBVIOUS
  <2>1. PICK u : u = High(s, 1)
    OBVIOUS
  <2>2. u \in SUBSET Nat /\ Fits(u, k)
    BY <2>1 DEF High, Fits
  <2>3. Bits(Number(u)) = u /\ IsFiniteSet(u)
    BY <1>2, <2>2, FiniteBelow
  <2>4. PICK n : n = Number(u)
    OBVIOUS
  <2>5. n \in Nat
    BY <2>2, <2>3, <2>4, NumberType
  <2>6. PICK d : d = Shift(u, 1)
    OBVIOUS
  <2>7. d \in SUBSET Nat /\ IsFiniteSet(d) /\ Number(d) = 2 * n
    BY <2>2, <2>3, <2>4, <2>6, NumberDouble
  <2>8. d = {i \in s : i >= 1}
    <3>1. ASSUME NEW j \in s, j >= 1 PROVE j = (j - 1) + 1
      BY <3>1
    <3>2. d = {(j - 1) + 1 : j \in {i \in s : i >= 1}}
      BY <2>1, <2>6 DEF Shift, High
    <3> QED BY <3>1, <3>2
  <2>. \A j \in s : j >= 1 \/ j = 0
    OBVIOUS
  <2>9. CASE 0 \in s
    <3>1. s = d \cup {0} /\ 0 \notin d
      <4>1. 0 \notin d
        BY <2>8
      <4> QED BY <2>8, <2>9, <4>1
    <3>2. Number(s) = 2 * n + 1
      <4>1. Number(s) = Pow(0) + Number(d)
        BY <2>7, <3>1, NumberAdd
      <4> QED BY <2>5, <2>7, <4>1, PowZero
    <3>3. Bits(2 * n + 1) = Shift(Bits(n), 1) \cup {i \in {0} : 1 = 1}
      BY <2>5, BitsDouble
    <3> QED BY <2>3, <2>4, <2>6, <3>1, <3>2, <3>3
  <2>10. CASE 0 \notin s
    <3>1. s = d
      <4>1. \A j \in s : j >= 1
        BY <2>10
      <4> QED BY <2>8, <4>1
    <3>2. Bits(2 * n + 0) = Shift(Bits(n), 1) \cup {i \in {0} : 0 = 1}
      BY <2>5, BitsDouble
    <3>3. Number(s) = 2 * n + 0
      BY <2>5, <2>7, <3>1
    <3> QED BY <2>3, <2>4, <2>6, <3>1, <3>2, <3>3
  <2> QED BY <2>9, <2>10
<1>3. Nat \subseteq T
  <2> HIDE DEF T
  <2> QED BY <1>1, <1>2, Induction
<1> QED BY <1>3, Bounded

\* What fits in k bits is below 2^k, and the other way round.
LEMMA NumberBelow ==
    ASSUME NEW S \in SUBSET Nat, NEW k \in Nat, Fits(S, k)
    PROVE  IsFiniteSet(S) /\ Number(S) \in Nat /\ Number(S) < Pow(k)
<1>1. IsFiniteSet(S)
  BY FiniteBelow
<1>2. PICK n : n = Number(S)
  OBVIOUS
<1>3. n \in Nat /\ Bits(n) = S
  BY <1>1, <1>2, NumberType, BitsOfNumber
<1>4. Low(S, k) = S
  BY DEF Low, Fits
<1>5. n % Pow(k) \in Nat /\ n % Pow(k) < Pow(k) /\ Bits(n % Pow(k)) = S
  BY <1>3, <1>4, BitsOfRemainder
<1>6. n % Pow(k) = Number(S)
  BY <1>5, NumberOfBits
<1> QED BY <1>1, <1>2, <1>3, <1>5, <1>6

-----------------------------------------------------------------------------
(* The fields of an instruction and the words they are packed in.          *)

\* The field below comes back from a concatenation, and so does the rest.
LEMMA ConcatRead ==
    ASSUME NEW code \in SUBSET Nat, NEW w \in Nat, NEW field \in SUBSET Nat, Fits(field, w)
    PROVE  /\ Concat(code, w, field) \in SUBSET Nat
           /\ High(Concat(code, w, field), w) = code
           /\ Low(Concat(code, w, field), w) = field
<1>1. ASSUME NEW i \in code PROVE i + w \in Shift(code, w) /\ i + w >= w
  <2>1. i \in Nat /\ w \in Nat
    OBVIOUS
  <2>2. i + w >= w
    BY <2>1
  <2>3. i + w \in {x + w : x \in code}
    OBVIOUS
  <2> QED BY <2>2, <2>3 DEF Shift
<1>2. ASSUME NEW j \in Shift(code, w) PROVE j \in Nat /\ j >= w /\ j - w \in code
  BY DEF Shift
<1>3. ASSUME NEW j \in field PROVE j \in Nat /\ ~(j >= w) /\ j < w
  BY DEF Fits
<1>4. Concat(code, w, field) \in SUBSET Nat
  BY <1>2, <1>3 DEF Concat
<1>5. High(Concat(code, w, field), w) = code
  <2>1. ASSUME NEW i \in code PROVE i \in High(Concat(code, w, field), w)
    <3>1. i + w \in {j \in Concat(code, w, field) : j >= w}
      BY <1>1 DEF Concat
    <3>2. i = (i + w) - w
      BY i \in Nat, w \in Nat
    <3> QED BY <3>1, <3>2 DEF High
  <2>2. ASSUME NEW i \in High(Concat(code, w, field), w) PROVE i \in code
    <3>1. PICK j \in {j \in Concat(code, w, field) : j >= w} : i = j - w
      BY DEF High
    <3>2. j \in Shift(code, w)
      BY <1>3, <3>1 DEF Concat
    <3> QED BY <1>2, <3>1, <3>2
  <2> QED BY <2>1, <2>2
<1>6. Low(Concat(code, w, field), w) = field
  <2>1. ASSUME NEW j \in Shift(code, w) PROVE ~(j < w)
    BY <1>2
  <2> QED BY <2>1, <1>3 DEF Low, Concat
<1> QED BY <1>4, <1>5, <1>6

\* The fields of an instruction, each within its width.
FieldNames == {"ptm", "ici", "ictb", "ictv", "op", "st", "si", "dt", "di", "oci", "oct", "icd", "pum"}
Fitting(w, f) == \A name \in FieldNames : /\ w[name] \in Nat
                                          /\ f[name] \in SUBSET Nat
                                          /\ Fits(f[name], w[name])

\* Reading undoes packing, whatever the widths.
LEMMA PackRead ==
    ASSUME NEW w, NEW f, NEW iw \in Nat, NEW pw \in Nat,
           Fitting(w, f), f.immediate \in SUBSET Nat, Fits(f.immediate, iw)
    PROVE  LET u == Unpack(w, Pack(w, f, iw, pw), iw, pw)
           IN  /\ u.vi = {0} /\ u.immediate = f.immediate
               /\ \A name \in FieldNames : u[name] = f[name]
<1> DEFINE vi == {0}
           ptm == Concat(vi, w.ptm, f.ptm)
           ici == Concat(ptm, w.ici, f.ici)
           ictb == Concat(ici, w.ictb, f.ictb)
           ictv == Concat(ictb, w.ictv, f.ictv)
           op == Concat(ictv, w.op, f.op)
           st == Concat(op, w.st, f.st)
           si == Concat(st, w.si, f.si)
           dt == Concat(si, w.dt, f.dt)
           di == Concat(dt, w.di, f.di)
           oci == Concat(di, w.oci, f.oci)
           oct == Concat(oci, w.oct, f.oct)
           icd == Concat(oct, w.icd, f.icd)
           pum == Concat(icd, w.pum, f.pum)
           immediate == Concat(pum, iw, f.immediate)
           code == Shift(immediate, pw)
<1>0. \A name \in FieldNames : w[name] \in Nat /\ f[name] \in SUBSET Nat /\ Fits(f[name], w[name])
  BY DEF Fitting
<1>vi. vi \in SUBSET Nat
  OBVIOUS
<1>ptm. /\ ptm \in SUBSET Nat
         /\ High(ptm, w.ptm) = vi /\ Low(ptm, w.ptm) = f.ptm
  <2>1. w.ptm \in Nat /\ f.ptm \in SUBSET Nat /\ Fits(f.ptm, w.ptm)
    BY <1>0 DEF FieldNames
  <2> HIDE DEF vi
  <2> QED BY <1>vi, <2>1, ConcatRead
<1>ici. /\ ici \in SUBSET Nat
         /\ High(ici, w.ici) = ptm /\ Low(ici, w.ici) = f.ici
  <2>1. w.ici \in Nat /\ f.ici \in SUBSET Nat /\ Fits(f.ici, w.ici)
    BY <1>0 DEF FieldNames
  <2> HIDE DEF ptm
  <2> QED BY <1>ptm, <2>1, ConcatRead
<1>ictb. /\ ictb \in SUBSET Nat
          /\ High(ictb, w.ictb) = ici /\ Low(ictb, w.ictb) = f.ictb
  <2>1. w.ictb \in Nat /\ f.ictb \in SUBSET Nat /\ Fits(f.ictb, w.ictb)
    BY <1>0 DEF FieldNames
  <2> HIDE DEF ici
  <2> QED BY <1>ici, <2>1, ConcatRead
<1>ictv. /\ ictv \in SUBSET Nat
          /\ High(ictv, w.ictv) = ictb /\ Low(ictv, w.ictv) = f.ictv
  <2>1. w.ictv \in Nat /\ f.ictv \in SUBSET Nat /\ Fits(f.ictv, w.ictv)
    BY <1>0 DEF FieldNames
  <2> HIDE DEF ictb
  <2> QED BY <1>ictb, <2>1, ConcatRead
<1>op. /\ op \in SUBSET Nat
        /\ High(op, w.op) = ictv /\ Low(op, w.op) = f.op
  <2>1. w.op \in Nat /\ f.op \in SUBSET Nat /\ Fits(f.op, w.op)
    BY <1>0 DEF FieldNames
  <2> HIDE DEF ictv
  <2> QED BY <1>ictv, <2>1, ConcatRead
<1>st. /\ st \in SUBSET Nat
        /\ High(st, w.st) = op /\ Low(st, w.st) = f.st
  <2>1. w.st \in Nat /\ f.st \in SUBSET Nat /\ Fits(f.st, w.st)
    BY <1>0 DEF FieldNames
  <2> HIDE DEF op
  <2> QED BY <1>op, <2>1, ConcatRead
<1>si. /\ si \in SUBSET Nat
        /\ High(si, w.si) = st /\ Low(si, w.si) = f.si
  <2>1. w.si \in Nat /\ f.si \in SUBSET Nat /\ Fits(f.si, w.si)
    BY <1>0 DEF FieldNames
  <2> HIDE DEF st
  <2> QED BY <1>st, <2>1, ConcatRead
<1>dt. /\ dt \in SUBSET Nat
        /\ High(dt, w.dt) = si /\ Low(dt, w.dt) = f.dt
  <2>1. w.dt \in Nat /\ f.dt \in SUBSET Nat /\ Fits(f.dt, w.dt)
    BY <1>0 DEF FieldNames
  <2> HIDE DEF si
  <2> QED BY <1>si, <2>1, ConcatRead
<1>di. /\ di \in SUBSET Nat
        /\ High(di, w.di) = dt /\ Low(di, w.di) = f.di
  <2>1. w.di \in Nat /\ f.di \in SUBSET Nat /\ Fits(f.di, w.di)
    BY <1>0 DEF FieldNames
  <2> HIDE DEF dt
  <2> QED BY <1>dt, <2>1, ConcatRead
<1>oci. /\ oci \in SUBSET Nat
         /\ High(oci, w.oci) = di /\ Low(oci, w.oci) = f.oci
  <2>1. w.oci \in Nat /\ f.oci \in SUBSET Nat /\ Fits(f.oci, w.oci)
    BY <1>0 DEF FieldNames
  <2> HIDE DEF di
  <2> QED BY <1>di, <2>1, ConcatRead
<1>oct. /\ oct \in SUBSET Nat
         /\ High(oct, w.oct) = oci /\ Low(oct, w.oct) = f.oct
  <2>1. w.oct \in Nat /\ f.oct \in SUBSET Nat /\ Fits(f.oct, w.oct)
    BY <1>0 DEF FieldNames
  <2> HIDE DEF oci
  <2> QED BY <1>oci, <2>1, ConcatRead
<1>icd. /\ icd \in SUBSET Nat
         /\ High(icd, w.icd) = oct /\ Low(icd, w.icd) = f.icd
  <2>1. w.icd \in Nat /\ f.icd \in SUBSET Nat /\ Fits(f.icd, w.icd)
    BY <1>0 DEF FieldNames
  <2> HIDE DEF oct
  <2> QED BY <1>oct, <2>1, ConcatRead
<1>pum. /\ pum \in SUBSET Nat
         /\ High(pum, w.pum) = icd /\ Low(pum, w.pum) = f.pum
  <2>1. w.pum \in Nat /\ f.pum \in SUBSET Nat /\ Fits(f.pum, w.pum)
    BY <1>0 DEF FieldNames
  <2> HIDE DEF icd
  <2> QED BY <1>icd, <2>1, ConcatRead
<1>immediate. /\ immediate \in SUBSET Nat
              /\ High(immediate, iw) = pum /\ Low(immediate, iw) = f.immediate
  <2> HIDE DEF pum
  <2> QED BY <1>pum, ConcatRead
<1>code. High(code, pw) = immediate
  <2> HIDE DEF immediate
  <2>1. Fits({}, pw) /\ {} \in SUBSET Nat /\ Concat(immediate, pw, {}) = Shift(immediate, pw)
    BY DEF Fits, Concat
  <2> QED BY <1>immediate, <2>1, ConcatRead
<1>valid. Low(vi, 1) = {0}
  BY DEF Low
<1>1. Pack(w, f, iw, pw) = code
  BY DEF Pack
<1> HIDE DEF vi, ptm, ici, ictb, ictv, op, st, si, dt, di, oci, oct, icd, pum, immediate, code
<1>2. Unpack(w, code, iw, pw) =
        [vi |-> Low(vi, 1), ptm |-> Low(ptm, w.ptm), ici |-> Low(ici, w.ici), ictb |-> Low(ictb, w.ictb),
         ictv |-> Low(ictv, w.ictv), op |-> Low(op, w.op), st |-> Low(st, w.st), si |-> Low(si, w.si),
         dt |-> Low(dt, w.dt), di |-> Low(di, w.di), oci |-> Low(oci, w.oci),
         oct |-> Low(oct, w.oct), icd |-> Low(icd, w.icd), pum |-> Low(pum, w.pum),
         immediate |-> Low(immediate, iw)]
  BY <1>ptm, <1>ici, <1>ictb, <1>ictv, <1>op, <1>st, <1>si, <1>dt, <1>di, <1>oci, <1>oct, <1>icd, <1>pum, <1>immediate, <1>code DEF Unpack
<1> QED BY <1>1, <1>2, <1>ptm, <1>ici, <1>ictb, <1>ictv, <1>op, <1>st, <1>si, <1>dt, <1>di, <1>oci, <1>oct, <1>icd, <1>pum, <1>immediate, <1>valid DEF FieldNames

-----------------------------------------------------------------------------
(* The fields of an instruction are sets of bit positions.                 *)

\* An instruction as the parser makes it.
Parsed(ins) ==
    /\ ins.on \in SUBSET Nat /\ ins.off \in SUBSET Nat
    /\ \E n \in Nat : \A list \in {ins.channels, ins.booleans, ins.tags} :
           DOMAIN list = 1 .. n /\ Len(list) = n
    /\ \A k \in DOMAIN ins.channels : /\ ins.channels[k] \in Nat /\ ins.tags[k] \in Nat
                                      /\ ins.booleans[k] \in BOOLEAN
    /\ \E n \in DOMAIN Ops : Ops[n] = ins.op
    /\ DOMAIN ins.indices = 1 .. 3 /\ Len(ins.indices) = 3
    /\ \A j \in 1 .. 3 : /\ ins.indices[j] \in Nat
                         /\ ins.types[j] \in {"null", "immediate", "channel", "register"}
    /\ \/ ins.immediate = <<>> /\ \A j \in 1 .. 3 : ins.types[j] # "immediate"
       \/ /\ \E v \in Int : ins.immediate = <<v>>
          /\ \E j \in 1 .. 3 : ins.types[j] = "immediate"
    /\ ins.dt \in {"null", "channel", "register", "predicate"}
    /\ ins.di \in Nat \cup {None} /\ ins.oct \in Nat \cup {None}
    /\ ins.outputs \in SUBSET Nat /\ ins.dequeues \in SUBSET Nat
    /\ \A u \in ins.updates : u[1] \in Nat

\* Shifted bits are bits.
LEMMA ShiftType == ASSUME NEW s \in SUBSET Nat, NEW w \in Nat PROVE Shift(s, w) \in SUBSET Nat
BY DEF Shift

\* Entries placed in slots of one width are bits.
LEMMA SlotsType ==
    ASSUME NEW entries, NEW slots \in Nat, NEW w \in Nat, NEW n \in Nat,
           DOMAIN entries = 1 .. n, Len(entries) = n, n <= slots,
           \A k \in 1 .. n : entries[k] \in Int
    PROVE  InSlots(entries, slots, w) \in SUBSET Nat
<1>1. ASSUME NEW k \in DOMAIN entries
      PROVE  Shift(Bits(entries[k]), (slots - Len(entries) + k - 1) * w) \in SUBSET Nat
  <2> DEFINE slot == slots - Len(entries) + k - 1
  <2>1. slot \in Nat
    OBVIOUS
  <2> HIDE DEF slot
  <2>2. slot * w \in Nat
    BY <2>1
  <2>3. Bits(entries[k]) \in SUBSET Nat
    <3>1. entries[k] \in Int
      OBVIOUS
    <3> QED
      BY <3>1, BitsType
  <2> QED BY <2>2, <2>3, ShiftType DEF slot
<1> QED BY <1>1 DEF InSlots

\* The code of a member of an enumeration is its place.
LEMMA CodeIs ==
    ASSUME NEW enumeration, Len(enumeration) \in Nat,
           DOMAIN enumeration = 1 .. Len(enumeration),
           NEW member, \E n \in DOMAIN enumeration : enumeration[n] = member
    PROVE  /\ Code(enumeration, member) \in 0 .. Len(enumeration) - 1
           /\ enumeration[1 + Code(enumeration, member)] = member
<1>1. PICK n \in DOMAIN enumeration : enumeration[n] = member
  OBVIOUS
<1>2. n - 1 \in 0 .. Len(enumeration) - 1 /\ (n - 1) + 1 = n
  OBVIOUS
<1>3. PICK c : c = Code(enumeration, member)
  OBVIOUS
<1>4. c \in 0 .. Len(enumeration) - 1 /\ enumeration[c + 1] = member
  BY <1>1, <1>2, <1>3 DEF Code
<1>5. c + 1 = 1 + c
  BY <1>4
<1> QED BY <1>3, <1>4, <1>5

\* A type of destination and its code stand for each other.
LEMMA DestinationCode ==
    ASSUME NEW type \in {"null", "channel", "register", "predicate"}
    PROVE  /\ Code(DestinationTypes, type) \in 0 .. 3
           /\ DestinationTypes[1 + Code(DestinationTypes, type)] = type
<1>1. Len(DestinationTypes) = 4 /\ DOMAIN DestinationTypes = 1 .. 4
  BY DEF DestinationTypes
<1>2. DestinationTypes[1] = "null" /\ DestinationTypes[2] = "channel"
      /\ DestinationTypes[3] = "register" /\ DestinationTypes[4] = "predicate"
  BY DEF DestinationTypes
<1>3. \E n \in DOMAIN DestinationTypes : DestinationTypes[n] = type
  BY <1>1, <1>2
<1>4. Len(DestinationTypes) \in Nat /\ DOMAIN DestinationTypes = 1 .. Len(DestinationTypes)
  BY <1>1
<1>5. /\ Code(DestinationTypes, type) \in 0 .. Len(DestinationTypes) - 1
      /\ DestinationTypes[1 + Code(DestinationTypes, type)] = type
  BY <1>3, <1>4, CodeIs
<1>6. Len(DestinationTypes) - 1 = 3
  BY <1>1
<1> QED BY <1>5, <1>6

\* A type of operand and its code stand for each other.
LEMMA SourceCode ==
    ASSUME NEW type \in {"null", "immediate", "channel", "register"}
    PROVE  /\ Code(SourceTypes, type) \in 0 .. 3
           /\ SourceTypes[1 + Code(SourceTypes, type)] = type
<1>1. Len(SourceTypes) = 4 /\ DOMAIN SourceTypes = 1 .. 4
  BY DEF SourceTypes
<1>2. SourceTypes[1] = "null" /\ SourceTypes[2] = "immediate"
      /\ SourceTypes[3] = "channel" /\ SourceTypes[4] = "register"
  BY DEF SourceTypes
<1>3. \E n \in DOMAIN SourceTypes : SourceTypes[n] = type
  BY <1>1, <1>2
<1>4. Len(SourceTypes) \in Nat /\ DOMAIN SourceTypes = 1 .. Len(SourceTypes)
  BY <1>1
<1>5. /\ Code(SourceTypes, type) \in 0 .. Len(SourceTypes) - 1
      /\ SourceTypes[1 + Code(SourceTypes, type)] = type
  BY <1>3, <1>4, CodeIs
<1>6. Len(SourceTypes) - 1 = 3
  BY <1>1
<1> QED BY <1>5, <1>6

\* An operation and its code stand for each other.
LEMMA OpCode ==
    ASSUME NEW op, \E n \in DOMAIN Ops : Ops[n] = op
    PROVE  Code(Ops, op) \in Nat /\ Ops[1 + Code(Ops, op)] = op
<1>1. Len(Ops) = 63 /\ DOMAIN Ops = 1 .. 63
  BY DEF Ops
<1>2. Len(Ops) \in Nat /\ DOMAIN Ops = 1 .. Len(Ops)
  BY <1>1
<1>3. /\ Code(Ops, op) \in 0 .. Len(Ops) - 1
      /\ Ops[1 + Code(Ops, op)] = op
  BY <1>2, CodeIs
<1> QED BY <1>1, <1>3

\* The widths of the slots, and what they have room for.
LEMMA SlotWidths ==
    ASSUME NEW ps, \A key \in Numbers : ps[key] \in Nat
    PROVE  /\ TagWidth(ps) \in Nat /\ ps.num_tags <= Pow(TagWidth(ps))
           /\ SingleIciWidth(ps) \in Nat
           /\ ps.num_input_channels + 1 <= Pow(SingleIciWidth(ps))
           /\ SingleStWidth \in Nat /\ 4 <= Pow(SingleStWidth)
           /\ SingleSiWidth(ps) \in Nat
           /\ ps.num_registers <= Pow(SingleSiWidth(ps))
           /\ ps.num_input_channels <= Pow(SingleSiWidth(ps))
           /\ Clog2(NumOps) \in Nat /\ Clog2(4) \in Nat
           /\ Clog2(Larger(ps.num_registers,
                           Larger(ps.num_output_channels, ps.num_predicates))) \in Nat
<1>1. PICK nt, nic, nr, noc, np :
          /\ nt = ps.num_tags /\ nic = ps.num_input_channels /\ nr = ps.num_registers
          /\ noc = ps.num_output_channels /\ np = ps.num_predicates
  OBVIOUS
<1>2. nt \in Nat /\ nic \in Nat /\ nr \in Nat /\ noc \in Nat /\ np \in Nat
  BY <1>1 DEF Numbers
<1>3. PICK most, widest : most = Larger(nr, nic) /\ widest = Larger(nr, Larger(noc, np))
  OBVIOUS
<1>4. most \in Nat /\ nr <= most /\ nic <= most /\ widest \in Nat
  BY <1>2, <1>3 DEF Larger
<1>5. nic + 1 \in Int /\ nt \in Int /\ most \in Int /\ widest \in Int /\ 4 \in Int /\ 63 \in Int
  BY <1>2, <1>4
<1>6. TagWidth(ps) \in Nat /\ nt <= Pow(TagWidth(ps))
  BY <1>1, <1>5, Clog2Least DEF TagWidth
<1>7. SingleIciWidth(ps) \in Nat /\ nic + 1 <= Pow(SingleIciWidth(ps))
  BY <1>1, <1>5, Clog2Least DEF SingleIciWidth
<1>8. SingleStWidth \in Nat /\ 4 <= Pow(SingleStWidth) /\ Clog2(4) \in Nat
  BY <1>5, Clog2Least DEF SingleStWidth
<1>9. SingleSiWidth(ps) \in Nat /\ nr <= Pow(SingleSiWidth(ps)) /\ nic <= Pow(SingleSiWidth(ps))
  <2>1. SingleSiWidth(ps) \in Nat /\ most <= Pow(SingleSiWidth(ps))
    BY <1>1, <1>3, <1>5, Clog2Least DEF SingleSiWidth
  <2>2. Pow(SingleSiWidth(ps)) \in Nat
    BY <2>1, PowType
  <2> QED BY <1>2, <1>4, <2>1, <2>2
<1>10. Clog2(NumOps) \in Nat
  BY <1>5, Clog2Least DEF NumOps
<1>11. Clog2(widest) \in Nat
  BY <1>5, Clog2Least
<1> QED BY <1>1, <1>3, <1>6, <1>7, <1>8, <1>9, <1>10, <1>11

\* The code of a type of destination fits its field, which build_dt does not check.
LEMMA DestinationTypeFits ==
    ASSUME NEW ps, NEW ins, Parsed(ins) PROVE Fits(build_dt(ps, ins), Width(ps).dt)
<1> DEFINE n == Code(DestinationTypes, ins.dt)
<1>1. n \in 0 .. 3
  BY DestinationCode DEF Parsed
<1>2. BitLength(n) \in Nat /\ BitLength(n) <= Clog2(4) /\ Clog2(4) \in Nat
  <2> HIDE DEF n
  <2>1. n + 1 \in Nat /\ 4 \in Nat /\ n + 1 <= 4
    BY <1>1
  <2> QED BY <2>1, Clog2Monotone, Clog2Type DEF BitLength
<1> HIDE DEF n
<1>3. \A i \in Bits(n) : i < Clog2(4)
  BY <1>2 DEF Bits
<1> QED BY <1>3 DEF Fits, build_dt, Width, n

\* Every field of an encoded instruction is a set of bits.
LEMMA FieldsType ==
    ASSUME NEW ps, NEW ins, Parsed(ins), Encodable(ps, ins),
           \A key \in Numbers : ps[key] \in Nat
    PROVE  \A name \in FieldNames \cup {"immediate"} : Fields(ps, ins)[name] \in SUBSET Nat
<1>1. /\ ps.num_predicates \in Nat /\ ps.max_num_input_channels_to_check \in Nat
      /\ ps.num_output_channels \in Nat /\ ps.num_input_channels \in Nat
  BY DEF Numbers
<1>2. PICK n \in Nat : \A list \in {ins.channels, ins.booleans, ins.tags} :
                           DOMAIN list = 1 .. n /\ Len(list) = n
  BY DEF Parsed
<1>3. n <= ps.max_num_input_channels_to_check
  BY <1>2 DEF Encodable
<1>4. TagWidth(ps) \in Nat /\ SingleIciWidth(ps) \in Nat /\ SingleStWidth \in Nat
      /\ SingleSiWidth(ps) \in Nat
  BY SlotWidths
<1>5. build_ptm(ps, ins) \in SUBSET Nat
  BY <1>1, ShiftType DEF build_ptm, Parsed
<1>6. build_ici(ps, ins) \in SUBSET Nat
  <2> DEFINE entries == [k \in DOMAIN ins.channels |-> ins.channels[k] + 1]
  <2>1. DOMAIN entries = 1 .. n /\ Len(entries) = n /\ \A k \in 1 .. n : entries[k] \in Int
    BY <1>2 DEF Parsed
  <2> HIDE DEF entries
  <2>2. InSlots(entries, ps.max_num_input_channels_to_check, SingleIciWidth(ps)) \in SUBSET Nat
    BY <1>1, <1>3, <1>4, <2>1, SlotsType
  <2> QED BY <2>2 DEF build_ici, entries
<1>7. build_ictb(ps, ins) \in SUBSET Nat
  <2> DEFINE entries == [k \in DOMAIN ins.booleans |-> IF ins.booleans[k] THEN 1 ELSE 0]
  <2>1. DOMAIN entries = 1 .. n /\ Len(entries) = n /\ \A k \in 1 .. n : entries[k] \in Int
    BY <1>2
  <2> HIDE DEF entries
  <2>2. InSlots(entries, ps.max_num_input_channels_to_check, 1) \in SUBSET Nat
    BY <1>1, <1>3, <2>1, SlotsType
  <2> QED BY <2>2 DEF build_ictb, entries
<1>8. build_ictv(ps, ins) \in SUBSET Nat
  <2>1. DOMAIN ins.tags = 1 .. n /\ Len(ins.tags) = n /\ \A k \in 1 .. n : ins.tags[k] \in Int
    BY <1>2 DEF Parsed
  <2> QED BY <1>1, <1>3, <1>4, <2>1, SlotsType DEF build_ictv
<1>9. build_st(ps, ins) \in SUBSET Nat
  <2> DEFINE entries == [k \in 1 .. 3 |-> Code(SourceTypes, ins.types[k])]
  <2>1. ASSUME NEW k \in 1 .. 3 PROVE Code(SourceTypes, ins.types[k]) \in Int
    <3>1. ins.types[k] \in {"null", "immediate", "channel", "register"}
      BY DEF Parsed
    <3> QED BY <3>1, SourceCode
  <2>4. DOMAIN entries = 1 .. 3 /\ Len(entries) = 3 /\ \A k \in 1 .. 3 : entries[k] \in Int
    BY <2>1
  <2> HIDE DEF entries
  <2>2. 3 \in Nat /\ 3 <= 3
    OBVIOUS
  <2>3. InSlots(entries, 3, SingleStWidth) \in SUBSET Nat
    BY <1>4, <2>2, <2>4, SlotsType
  <2> QED BY <2>3 DEF build_st, entries
<1>10. build_si(ps, ins) \in SUBSET Nat
  <2>1. 3 \in Nat /\ 3 <= 3 /\ DOMAIN ins.indices = 1 .. 3 /\ Len(ins.indices) = 3
        /\ \A k \in 1 .. 3 : ins.indices[k] \in Int
    BY DEF Parsed
  <2> QED BY <1>4, <2>1, SlotsType DEF build_si
<1>11. /\ build_op(ps, ins) \in SUBSET Nat /\ build_dt(ps, ins) \in SUBSET Nat
       /\ build_di(ps, ins) \in SUBSET Nat /\ build_oct(ps, ins) \in SUBSET Nat
  <2>1. Code(Ops, ins.op) \in Int /\ Code(DestinationTypes, ins.dt) \in Int
    BY OpCode, DestinationCode DEF Parsed
  <2>2. /\ (IF ins.di = None THEN 0 ELSE ins.di) \in Int
        /\ (IF ins.oct = None THEN 0 ELSE ins.oct) \in Int
    BY DEF Parsed
  <2> QED BY <2>1, <2>2, BitsType DEF build_op, build_dt, build_di, build_oct
<1>12. build_oci(ps, ins) \in SUBSET Nat /\ build_icd(ps, ins) \in SUBSET Nat
  BY <1>1 DEF build_oci, build_icd
<1>13. build_pum(ps, ins) \in SUBSET Nat
  <2>1. {u[1] : u \in {v \in ins.updates : v[2]}} \in SUBSET Nat
    BY DEF Parsed
  <2>2. {u[1] : u \in {v \in ins.updates : ~v[2]}} \in SUBSET Nat
    BY DEF Parsed
  <2> QED BY <1>1, <2>1, <2>2, ShiftType DEF build_pum
<1>14. build_immediate(ps, ins) \in SUBSET Nat
  <2>1. CASE ins.immediate = <<>>
    BY <2>1 DEF build_immediate
  <2>2. CASE ins.immediate # <<>>
    <3>1. ins.immediate[1] \in Int
      BY <2>2 DEF Parsed
    <3>2. ps.immediate_width \in Nat
      BY DEF Numbers
    <3>3. Pow(ps.immediate_width) \in Nat /\ Pow(ps.immediate_width) > 0
      BY <3>2, PowType
    <3>4. ins.immediate[1] % Pow(ps.immediate_width) \in Int
      BY <3>1, <3>3, Division
    <3>5. Bits(ins.immediate[1] % 2 ^ ps.immediate_width) \in SUBSET Nat
      BY <3>4, BitsType DEF Pow
    <3> QED BY <2>2, <3>5 DEF build_immediate, Low
  <2> QED BY <2>1, <2>2
<1> QED BY <1>5, <1>6, <1>7, <1>8, <1>9, <1>10, <1>11, <1>12, <1>13, <1>14 DEF FieldNames, Fields

\* Every field has a width.
LEMMA WidthType ==
    ASSUME NEW ps, \A key \in Numbers : ps[key] \in Nat
    PROVE  \A name \in FieldNames : Width(ps)[name] \in Nat
<1>1. /\ ps.num_predicates \in Nat /\ ps.max_num_input_channels_to_check \in Nat
      /\ ps.num_output_channels \in Nat /\ ps.num_input_channels \in Nat
  BY DEF Numbers
<1>2. TagWidth(ps) \in Nat /\ SingleIciWidth(ps) \in Nat /\ SingleStWidth \in Nat
      /\ SingleSiWidth(ps) \in Nat
      /\ Clog2(NumOps) \in Nat /\ Clog2(4) \in Nat
      /\ Clog2(Larger(ps.num_registers,
                      Larger(ps.num_output_channels, ps.num_predicates))) \in Nat
  BY SlotWidths
<1>3. /\ ps.num_predicates + ps.num_predicates \in Nat
      /\ 3 * SingleStWidth \in Nat /\ 3 * SingleSiWidth(ps) \in Nat
  BY <1>1, <1>2
<1>4. /\ ps.max_num_input_channels_to_check * SingleIciWidth(ps) \in Nat
      /\ ps.max_num_input_channels_to_check * TagWidth(ps) \in Nat
  BY <1>1, <1>2
<1> QED BY <1>1, <1>2, <1>3, <1>4 DEF FieldNames, Width

\* Tools and hardware derive the same widths, each with a formula of its own.
LEMMA SameWidths ==
    ASSUME NEW ps, \A key \in Numbers : ps[key] \in Nat
    PROVE  HwWidth(ps) = Width(ps) /\ HwPadding(ps) = PaddingWidth(ps)
<1>1. /\ ps.num_registers \in Nat /\ ps.num_output_channels \in Nat /\ ps.num_predicates \in Nat
      /\ ps.mm_instruction_width \in Nat /\ ps.immediate_width \in Nat
  BY DEF Numbers
<1>2. Larger(Larger(ps.num_registers, ps.num_output_channels), ps.num_predicates)
          = Larger(ps.num_registers, Larger(ps.num_output_channels, ps.num_predicates))
  BY <1>1 DEF Larger
<1>3. HwWidth(ps) = Width(ps)
  BY <1>2 DEF HwWidth, Width, TagWidth, SingleIciWidth, SingleStWidth, SingleSiWidth, NumOps
<1>4. HwPadding(ps) = PaddingWidth(ps)
  <2> DEFINE w == Width(ps)
  <2>1. /\ w.ptm \in Nat /\ w.ici \in Nat /\ w.ictb \in Nat /\ w.ictv \in Nat /\ w.op \in Nat
        /\ w.st \in Nat /\ w.si \in Nat /\ w.dt \in Nat /\ w.di \in Nat /\ w.oci \in Nat
        /\ w.oct \in Nat /\ w.icd \in Nat /\ w.pum \in Nat
    <3> HIDE DEF w
    <3>1. \A name \in FieldNames : w[name] \in Nat
      BY WidthType DEF w
    <3> QED BY <3>1 DEF FieldNames
  <2> HIDE DEF w
  <2>2. HwPadding(ps) = ps.mm_instruction_width
          - (1 + w.ptm + w.ici + w.ictb + w.ictv + w.op + w.st + w.si + w.dt + w.di
               + w.oci + w.oct + w.icd + w.pum + ps.immediate_width)
    BY <1>3 DEF HwPadding, w
  <2>3. PaddingWidth(ps) = ps.mm_instruction_width
          - ((1 + w.ptm + w.ici + w.ictb + w.ictv + w.op + w.st + w.si + w.dt + w.di
               + w.oci + w.oct + w.icd + w.pum) + ps.immediate_width)
    BY DEF PaddingWidth, PhyInstructionWidth, NonImmediateInstructionWidth, w
  <2> QED BY <2>2, <2>3
<1> QED BY <1>3, <1>4

\* The fields of an instruction that is not refused, and the widths of its word.
LEMMA EncodedFields ==
    ASSUME NEW ps, \A key \in Numbers : ps[key] \in Nat, Valid(ps),
           NEW ins, Parsed(ins), Encodable(ps, ins),
           NEW w, w = Width(ps), NEW f, f = Fields(ps, ins),
           NEW iw, iw = ps.immediate_width, NEW pw, pw = PaddingWidth(ps)
    PROVE  /\ Fitting(w, f) /\ f.immediate \in SUBSET Nat /\ Fits(f.immediate, iw)
           /\ iw \in Nat /\ pw \in Nat
           /\ ps.mm_instruction_width =
                 1 + w.ptm + w.ici + w.ictb + w.ictv + w.op + w.st + w.si + w.dt
                   + w.di + w.oci + w.oct + w.icd + w.pum + iw + pw
<1>1. \A name \in FieldNames : w[name] \in Nat
  BY WidthType
<1>2. \A name \in FieldNames \cup {"immediate"} : f[name] \in SUBSET Nat
  BY FieldsType
<1>3. \A name \in FieldNames : Fits(f[name], w[name])
  <2>1. DOMAIN w = FieldNames
    BY DEF Width, FieldNames
  <2>2. Fits(f.dt, w.dt)
    <3>1. f.dt = build_dt(ps, ins)
      BY DEF Fields
    <3> QED
      BY <3>1, DestinationTypeFits
  <2>3. \A name \in DOMAIN w \ {"dt"} : Fits(f[name], w[name])
    BY DEF Encodable, FieldsFit
  <2> QED
    BY <2>1, <2>2, <2>3
<1>4. iw \in Nat /\ f.immediate \in SUBSET Nat /\ Fits(f.immediate, iw)
  <2>1. iw \in Nat
    BY DEF Numbers
  <2>2. f.immediate = build_immediate(ps, ins)
    BY DEF Fields
  <2>3. Fits(build_immediate(ps, ins), iw)
    BY DEF build_immediate, Low, Fits
  <2> QED
    BY <1>2, <2>1, <2>2, <2>3
<1>5. /\ w.ptm \in Nat /\ w.ici \in Nat /\ w.ictb \in Nat /\ w.ictv \in Nat /\ w.op \in Nat
      /\ w.st \in Nat /\ w.si \in Nat /\ w.dt \in Nat /\ w.di \in Nat /\ w.oci \in Nat
      /\ w.oct \in Nat /\ w.icd \in Nat /\ w.pum \in Nat
  BY <1>1 DEF FieldNames
<1>6. /\ ps.mm_instruction_width \in Nat
      /\ PhyInstructionWidth(ps) <= ps.mm_instruction_width
      /\ pw = ps.mm_instruction_width - PhyInstructionWidth(ps)
  BY DEF Numbers, Valid, PaddingWidth
<1>7. PhyInstructionWidth(ps) =
        (1 + w.ptm + w.ici + w.ictb + w.ictv + w.op + w.st + w.si + w.dt + w.di
           + w.oci + w.oct + w.icd + w.pum) + iw
  BY DEF PhyInstructionWidth, NonImmediateInstructionWidth
<1>8. PhyInstructionWidth(ps) \in Nat
  BY <1>4, <1>5, <1>7
<1>9. /\ pw \in Nat
      /\ ps.mm_instruction_width =
            1 + w.ptm + w.ici + w.ictb + w.ictv + w.op + w.st + w.si + w.dt
              + w.di + w.oci + w.oct + w.icd + w.pum + iw + pw
  BY <1>4, <1>5, <1>6, <1>7, <1>8
<1> QED
  BY <1>1, <1>2, <1>3, <1>4, <1>9 DEF Fitting

\* For every parameter set that the tools accept and every instruction that
\* build_machine_code_instruction does not refuse: if a slot of the instruction memory
\* holds its code, the fields the hardware takes from that slot are the fields the
\* assembler has built.  None reaches into another, and none is cut.
THEOREM EncodingReadsBack ==
    ASSUME NEW ps, \A key \in Numbers : ps[key] \in Nat, Valid(ps),
           NEW ins, Parsed(ins), Encodable(ps, ins),
           NEW mem, NEW k, mem[k] = build_machine_code_instruction(ps, ins)
    PROVE  /\ Stored(ps, mem, k).vi = {0}
           /\ \A name \in FieldNames \cup {"immediate"} :
                  Stored(ps, mem, k)[name] = Fields(ps, ins)[name]
<1>1. PICK w, f, iw, pw : /\ w = Width(ps) /\ f = Fields(ps, ins)
                          /\ iw = ps.immediate_width /\ pw = PaddingWidth(ps)
  OBVIOUS
<1>2. /\ Fitting(w, f) /\ f.immediate \in SUBSET Nat /\ Fits(f.immediate, iw)
      /\ iw \in Nat /\ pw \in Nat
  BY <1>1, EncodedFields
<1>3. Stored(ps, mem, k) = Unpack(w, Pack(w, f, iw, pw), iw, pw)
  BY <1>1, SameWidths DEF Stored, build_machine_code_instruction
<1>4. LET u == Unpack(w, Pack(w, f, iw, pw), iw, pw)
      IN  /\ u.vi = {0} /\ u.immediate = f.immediate
          /\ \A name \in FieldNames : u[name] = f[name]
  BY <1>2, PackRead
<1> QED
  BY <1>1, <1>3, <1>4

-----------------------------------------------------------------------------
(* The words of an instruction.                                            *)

\* A concatenation is as long as its parts.
LEMMA ConcatFits ==
    ASSUME NEW code \in SUBSET Nat, NEW m \in Nat, Fits(code, m),
           NEW w \in Nat, NEW field \in SUBSET Nat, Fits(field, w)
    PROVE  /\ Concat(code, w, field) \in SUBSET Nat
           /\ Fits(Concat(code, w, field), m + w) /\ m + w \in Nat
<1>1. ASSUME NEW i \in code PROVE i + w \in Nat /\ i + w < m + w
  <2>1. i \in Nat /\ i < m
    BY DEF Fits
  <2> QED
    BY <2>1
<1>2. ASSUME NEW i \in field PROVE i \in Nat /\ i < m + w
  <2>1. i \in Nat /\ i < w
    BY DEF Fits
  <2> QED
    BY <2>1
<1>3. m + w \in Nat
  OBVIOUS
<1>4. ASSUME NEW i \in Concat(code, w, field) PROVE i \in Nat /\ i < m + w
  <2>1. CASE i \in Shift(code, w)
    BY <1>1, <2>1 DEF Shift
  <2>2. CASE i \in field
    BY <1>2, <2>2
  <2> QED
    BY <1>4, <2>1, <2>2 DEF Concat
<1> QED
  BY <1>3, <1>4 DEF Fits

\* An instruction fills its memory-mapped width and no more.
LEMMA PackFits ==
    ASSUME NEW w, NEW f, NEW iw \in Nat, NEW pw \in Nat,
           Fitting(w, f), f.immediate \in SUBSET Nat, Fits(f.immediate, iw),
           NEW total, total = 1 + w.ptm + w.ici + w.ictb + w.ictv + w.op + w.st + w.si + w.dt
                                + w.di + w.oci + w.oct + w.icd + w.pum + iw + pw
    PROVE  Pack(w, f, iw, pw) \in SUBSET Nat /\ Fits(Pack(w, f, iw, pw), total)
<1> DEFINE vi == {0}
           ptm == Concat(vi, w.ptm, f.ptm)
           ici == Concat(ptm, w.ici, f.ici)
           ictb == Concat(ici, w.ictb, f.ictb)
           ictv == Concat(ictb, w.ictv, f.ictv)
           op == Concat(ictv, w.op, f.op)
           st == Concat(op, w.st, f.st)
           si == Concat(st, w.si, f.si)
           dt == Concat(si, w.dt, f.dt)
           di == Concat(dt, w.di, f.di)
           oci == Concat(di, w.oci, f.oci)
           oct == Concat(oci, w.oct, f.oct)
           icd == Concat(oct, w.icd, f.icd)
           pum == Concat(icd, w.pum, f.pum)
           immediate == Concat(pum, iw, f.immediate)
           code == Shift(immediate, pw)
           to_vi == 1
           to_ptm == to_vi + w.ptm
           to_ici == to_ptm + w.ici
           to_ictb == to_ici + w.ictb
           to_ictv == to_ictb + w.ictv
           to_op == to_ictv + w.op
           to_st == to_op + w.st
           to_si == to_st + w.si
           to_dt == to_si + w.dt
           to_di == to_dt + w.di
           to_oci == to_di + w.oci
           to_oct == to_oci + w.oct
           to_icd == to_oct + w.icd
           to_pum == to_icd + w.pum
           to_immediate == to_pum + iw
<1>0. \A name \in FieldNames : w[name] \in Nat /\ f[name] \in SUBSET Nat /\ Fits(f[name], w[name])
  BY DEF Fitting
<1>vi. vi \in SUBSET Nat /\ Fits(vi, to_vi) /\ to_vi \in Nat
  BY DEF Fits
<1>ptm. ptm \in SUBSET Nat /\ Fits(ptm, to_ptm) /\ to_ptm \in Nat
  <2>1. w.ptm \in Nat /\ f.ptm \in SUBSET Nat /\ Fits(f.ptm, w.ptm)
    BY <1>0 DEF FieldNames
  <2> HIDE DEF vi, to_vi
  <2> QED
    BY <1>vi, <2>1, ConcatFits
<1>ici. ici \in SUBSET Nat /\ Fits(ici, to_ici) /\ to_ici \in Nat
  <2>1. w.ici \in Nat /\ f.ici \in SUBSET Nat /\ Fits(f.ici, w.ici)
    BY <1>0 DEF FieldNames
  <2> HIDE DEF ptm, to_ptm
  <2> QED
    BY <1>ptm, <2>1, ConcatFits
<1>ictb. ictb \in SUBSET Nat /\ Fits(ictb, to_ictb) /\ to_ictb \in Nat
  <2>1. w.ictb \in Nat /\ f.ictb \in SUBSET Nat /\ Fits(f.ictb, w.ictb)
    BY <1>0 DEF FieldNames
  <2> HIDE DEF ici, to_ici
  <2> QED
    BY <1>ici, <2>1, ConcatFits
<1>ictv. ictv \in SUBSET Nat /\ Fits(ictv, to_ictv) /\ to_ictv \in Nat
  <2>1. w.ictv \in Nat /\ f.ictv \in SUBSET Nat /\ Fits(f.ictv, w.ictv)
    BY <1>0 DEF FieldNames
  <2> HIDE DEF ictb, to_ictb
  <2> QED
    BY <1>ictb, <2>1, ConcatFits
<1>op. op \in SUBSET Nat /\ Fits(op, to_op) /\ to_op \in Nat
  <2>1. w.op \in Nat /\ f.op \in SUBSET Nat /\ Fits(f.op, w.op)
    BY <1>0 DEF FieldNames
  <2> HIDE DEF ictv, to_ictv
  <2> QED
    BY <1>ictv, <2>1, ConcatFits
<1>st. st \in SUBSET Nat /\ Fits(st, to_st) /\ to_st \in Nat
  <2>1. w.st \in Nat /\ f.st \in SUBSET Nat /\ Fits(f.st, w.st)
    BY <1>0 DEF FieldNames
  <2> HIDE DEF op, to_op
  <2> QED
    BY <1>op, <2>1, ConcatFits
<1>si. si \in SUBSET Nat /\ Fits(si, to_si) /\ to_si \in Nat
  <2>1. w.si \in Nat /\ f.si \in SUBSET Nat /\ Fits(f.si, w.si)
    BY <1>0 DEF FieldNames
  <2> HIDE DEF st, to_st
  <2> QED
    BY <1>st, <2>1, ConcatFits
<1>dt. dt \in SUBSET Nat /\ Fits(dt, to_dt) /\ to_dt \in Nat
  <2>1. w.dt \in Nat /\ f.dt \in SUBSET Nat /\ Fits(f.dt, w.dt)
    BY <1>0 DEF FieldNames
  <2> HIDE DEF si, to_si
  <2> QED
    BY <1>si, <2>1, ConcatFits
<1>di. di \in SUBSET Nat /\ Fits(di, to_di) /\ to_di \in Nat
  <2>1. w.di \in Nat /\ f.di \in SUBSET Nat /\ Fits(f.di, w.di)
    BY <1>0 DEF FieldNames
  <2> HIDE DEF dt, to_dt
  <2> QED
    BY <1>dt, <2>1, ConcatFits
<1>oci. oci \in SUBSET Nat /\ Fits(oci, to_oci) /\ to_oci \in Nat
  <2>1. w.oci \in Nat /\ f.oci \in SUBSET Nat /\ Fits(f.oci, w.oci)
    BY <1>0 DEF FieldNames
  <2> HIDE DEF di, to_di
  <2> QED
    BY <1>di, <2>1, ConcatFits
<1>oct. oct \in SUBSET Nat /\ Fits(oct, to_oct) /\ to_oct \in Nat
  <2>1. w.oct \in Nat /\ f.oct \in SUBSET Nat /\ Fits(f.oct, w.oct)
    BY <1>0 DEF FieldNames
  <2> HIDE DEF oci, to_oci
  <2> QED
    BY <1>oci, <2>1, ConcatFits
<1>icd. icd \in SUBSET Nat /\ Fits(icd, to_icd) /\ to_icd \in Nat
  <2>1. w.icd \in Nat /\ f.icd \in SUBSET Nat /\ Fits(f.icd, w.icd)
    BY <1>0 DEF FieldNames
  <2> HIDE DEF oct, to_oct
  <2> QED
    BY <1>oct, <2>1, ConcatFits
<1>pum. pum \in SUBSET Nat /\ Fits(pum, to_pum) /\ to_pum \in Nat
  <2>1. w.pum \in Nat /\ f.pum \in SUBSET Nat /\ Fits(f.pum, w.pum)
    BY <1>0 DEF FieldNames
  <2> HIDE DEF icd, to_icd
  <2> QED
    BY <1>icd, <2>1, ConcatFits
<1>immediate. immediate \in SUBSET Nat /\ Fits(immediate, to_immediate) /\ to_immediate \in Nat
  <2> HIDE DEF pum, to_pum
  <2> QED
    BY <1>pum, ConcatFits
<1>code. code \in SUBSET Nat /\ Fits(code, to_immediate + pw)
  <2> HIDE DEF immediate, to_immediate
  <2>1. Fits({}, pw) /\ {} \in SUBSET Nat /\ Concat(immediate, pw, {}) = code
    BY DEF Fits, Concat
  <2> HIDE DEF code
  <2> QED
    BY <1>immediate, <2>1, ConcatFits
<1>total. to_immediate + pw = total
  OBVIOUS
<1>pack. Pack(w, f, iw, pw) = code
  BY DEF Pack
<1> HIDE DEF code, to_immediate
<1> QED
  BY <1>code, <1>total, <1>pack

\* The code of an instruction that is not refused.
LEMMA CodeFits ==
    ASSUME NEW ps, \A key \in Numbers : ps[key] \in Nat, Valid(ps),
           NEW ins, Parsed(ins), Encodable(ps, ins),
           NEW code, code = build_machine_code_instruction(ps, ins)
    PROVE  code \in SUBSET Nat /\ Fits(code, ps.mm_instruction_width)
<1>1. PICK w, f, iw, pw : /\ w = Width(ps) /\ f = Fields(ps, ins)
                          /\ iw = ps.immediate_width /\ pw = PaddingWidth(ps)
  OBVIOUS
<1>2. code = Pack(w, f, iw, pw)
  BY <1>1 DEF build_machine_code_instruction
<1>3. /\ Fitting(w, f) /\ f.immediate \in SUBSET Nat /\ Fits(f.immediate, iw)
      /\ iw \in Nat /\ pw \in Nat
      /\ ps.mm_instruction_width =
            1 + w.ptm + w.ici + w.ictb + w.ictv + w.op + w.st + w.si + w.dt
              + w.di + w.oci + w.oct + w.icd + w.pum + iw + pw
  BY <1>1, EncodedFields
<1> QED
  BY <1>2, <1>3, PackFits

\* Division and remainder, by their quotient.
LEMMA WordIndex ==
    ASSUME NEW n \in Nat \ {0}, NEW k \in Nat, NEW i \in 0 .. n - 1
    PROVE  /\ n * k + i \in Nat
           /\ (n * k + i) \div n = k /\ (n * k + i) % n = i
<1>1. n * k \in Nat /\ n * k + i \in Nat
  OBVIOUS
<1> DEFINE x == n * k + i
           q == x \div n
           r == x % n
<1>2. q \in Int /\ r \in 0 .. n - 1 /\ x = n * q + r
  BY <1>1
<1> HIDE DEF q, r
<1>3. n * (q - k) = i - r
  BY <1>2
<1>4. q - k < 1
  <2> SUFFICES ASSUME q - k >= 1 PROVE FALSE
    BY <1>2
  <2>1. n * (q - k) >= n
    BY <1>2
  <2> QED
    BY <1>2, <1>3, <2>1
<1>5. q - k > -1
  <2> SUFFICES ASSUME q - k <= -1 PROVE FALSE
    BY <1>2
  <2>1. n * (q - k) <= -n
    BY <1>2
  <2> QED
    BY <1>2, <1>3, <2>1
<1>6. q = k
  BY <1>2, <1>4, <1>5
<1>7. r = i
  BY <1>2, <1>3, <1>6
<1> QED
  BY <1>1, <1>6, <1>7 DEF q, r

\* The words of a code, put together again, are the code.
LEMMA WordsJoin ==
    ASSUME NEW code \in SUBSET Nat, NEW n \in Nat \ {0}, Fits(code, 32 * n), NEW k \in Int,
           NEW words, \A i \in 0 .. n - 1 : words[n * k + i] = Low(High(code, i * 32), 32)
    PROVE  Joined(words, n, k) = code
<1>1. ASSUME NEW i \in 0 .. n - 1 PROVE Shift(words[n * k + i], 32 * i) \subseteq code
  <2>1. ASSUME NEW j \in Shift(Low(High(code, i * 32), 32), 32 * i) PROVE j \in code
    <3>1. PICK x \in Low(High(code, i * 32), 32) : j = x + 32 * i
      BY DEF Shift
    <3>2. PICK y \in code : x = y - i * 32
      BY <3>1 DEF Low, High
    <3>3. j = y
      BY <3>1, <3>2
    <3> QED
      BY <3>3
  <2> QED
    BY <2>1
<1>2. ASSUME NEW j \in code PROVE \E i \in 0 .. n - 1 : j \in Shift(words[n * k + i], 32 * i)
  <2> DEFINE i == j \div 32
             x == j - i * 32
  <2>1. j \in Nat /\ j < 32 * n
    BY DEF Fits
  <2>2. i \in 0 .. n - 1 /\ j >= i * 32 /\ x \in Nat /\ x < 32 /\ j = x + 32 * i
    BY <2>1
  <2> HIDE DEF i
  <2>3. x \in High(code, i * 32)
    BY <2>2 DEF High
  <2>4. x \in Low(High(code, i * 32), 32)
    BY <2>2, <2>3 DEF Low
  <2>5. j \in Shift(words[n * k + i], 32 * i)
    BY <2>2, <2>4 DEF Shift
  <2> QED
    BY <2>2, <2>5
<1> QED
  BY <1>1, <1>2 DEF Joined

\* Where build_program_binary puts the words of instruction k.
LEMMA InstructionWords ==
    ASSUME NEW ps, \A key \in Numbers : ps[key] \in Nat, NEW registers_,
           NEW instructions, Len(instructions) \in Nat, NEW k \in 1 .. Len(instructions),
           NEW n \in Nat \ {0}, n = WordsPerInstruction(ps),
           NEW words, words = build_program_binary(ps, registers_, instructions).instructions,
           NEW code, code = build_machine_code_instruction(ps, instructions[k])
    PROVE  \A i \in 0 .. n - 1 : words[n * (k - 1) + i] = Low(High(code, i * 32), 32)
<1> SUFFICES ASSUME NEW i \in 0 .. n - 1
             PROVE  words[n * (k - 1) + i] = Low(High(code, i * 32), 32)
  OBVIOUS
<1> DEFINE most == Larger(Len(instructions), ps.num_instructions)
           word(j) == IF j \div n < Len(instructions)
                      THEN Slices(ps, build_machine_code_instruction(ps, instructions[j \div n + 1]))[j % n]
                      ELSE {}
<1>1. PICK x : x = n * (k - 1) + i
  OBVIOUS
<1>2. x \in Nat /\ x \div n = k - 1 /\ x % n = i
  <2>1. PICK before : before = k - 1
    OBVIOUS
  <2>2. before \in Nat /\ x = n * before + i
    BY <1>1, <2>1
  <2>3. x \in Nat /\ x \div n = before /\ x % n = i
    <3>1. n * before + i \in Nat /\ (n * before + i) \div n = before /\ (n * before + i) % n = i
      BY <2>2, WordIndex
    <3> QED
      BY <2>2, <3>1
  <2> QED
    BY <2>1, <2>3
<1>3. most \in Nat /\ k <= most
  BY DEF Larger, Numbers
<1> HIDE DEF most
<1>4. x \in 0 .. n * most - 1
  <2>1. n * k <= n * most
    BY <1>3
  <2>2. n * (k - 1) = n * k - n
    OBVIOUS
  <2>3. n * k \in Int /\ n * most \in Int
    BY <1>3
  <2>4. PICK q, r : q = n * k /\ r = n * most
    OBVIOUS
  <2>5. q \in Int /\ r \in Int /\ q <= r /\ x = (q - n) + i
    BY <1>1, <2>1, <2>2, <2>3, <2>4
  <2>6. x <= r - 1
    BY <1>2, <2>5
  <2> QED
    BY <1>2, <2>4, <2>5, <2>6
<1>5. words = [j \in 0 .. n * most - 1 |-> word(j)]
  BY DEF build_program_binary, most
<1>6. word(x) = Slices(ps, code)[i]
  <2>1. k - 1 < Len(instructions) /\ (k - 1) + 1 = k
    OBVIOUS
  <2> QED
    BY <1>2, <2>1
<1>7. Slices(ps, code)[i] = Low(High(code, i * 32), 32)
  BY DEF Slices
<1> HIDE DEF word
<1> QED
  BY <1>1, <1>4, <1>5, <1>6, <1>7

\* An instruction has a whole number of words, and at least one.
LEMMA WholeWords ==
    ASSUME NEW ps, \A key \in Numbers : ps[key] \in Nat, Valid(ps),
           ps.mm_instruction_width % 32 = 0
    PROVE  /\ WordsPerInstruction(ps) \in Nat \ {0}
           /\ ps.mm_instruction_width = 32 * WordsPerInstruction(ps)
<1>1. PICK m : m = ps.mm_instruction_width
  OBVIOUS
<1>2. m \in Nat
  BY <1>1 DEF Numbers
<1>3. m >= 1
  <2>1. PICK w : w = Width(ps)
    OBVIOUS
  <2>2. /\ w.ptm \in Nat /\ w.ici \in Nat /\ w.ictb \in Nat /\ w.ictv \in Nat /\ w.op \in Nat
        /\ w.st \in Nat /\ w.si \in Nat /\ w.dt \in Nat /\ w.di \in Nat /\ w.oci \in Nat
        /\ w.oct \in Nat /\ w.icd \in Nat /\ w.pum \in Nat
    BY <2>1, WidthType DEF FieldNames
  <2>3. ps.immediate_width \in Nat
    BY DEF Numbers
  <2>4. PhyInstructionWidth(ps) =
          (1 + w.ptm + w.ici + w.ictb + w.ictv + w.op + w.st + w.si + w.dt + w.di
             + w.oci + w.oct + w.icd + w.pum) + ps.immediate_width
    BY <2>1 DEF PhyInstructionWidth, NonImmediateInstructionWidth
  <2>5. PICK iw : iw = ps.immediate_width
    OBVIOUS
  <2>6. iw \in Nat
    BY <2>3, <2>5
  <2>7. PICK low, high : /\ low = w.ptm + w.ici + w.ictb + w.ictv + w.op + w.st + w.si
                         /\ high = w.dt + w.di + w.oci + w.oct + w.icd + w.pum
    OBVIOUS
  <2>8. low \in Nat /\ high \in Nat
    BY <2>2, <2>7
  <2>9. PhyInstructionWidth(ps) = (1 + (low + high)) + iw
    BY <2>2, <2>4, <2>5, <2>7
  <2> QED
    BY <1>1, <1>2, <2>6, <2>8, <2>9 DEF Valid
<1>4. m \div 32 \in Nat \ {0} /\ m = 32 * (m \div 32)
  BY <1>1, <1>2, <1>3
<1> QED
  BY <1>1, <1>4 DEF WordsPerInstruction

-----------------------------------------------------------------------------
(* From a statement to an instruction.                                     *)

\* The two kinds of predicate update.
LEMMA PairTrue == ASSUME NEW p, NEW u, u = <<p, TRUE>> PROVE u[1] = p /\ u[2]
<1>1. u[1] = p
  BY SMT
<1>2. u[2]
  BY Zenon
<1> QED
  BY <1>1, <1>2, Zenon

\* The two halves of a pair whose second is FALSE.
LEMMA PairFalse == ASSUME NEW p, NEW u, u = <<p, FALSE>> PROVE u[1] = p /\ ~u[2]
<1>1. u[1] = p
  BY SMT
<1>2. ~u[2]
  BY Zenon
<1> QED
  BY <1>1, <1>2, Zenon

\* The predicates an update sets, and those it clears.
LEMMA UpdatesSplit ==
    ASSUME NEW original, NEW desired,
           NEW updates, updates = Updates(original, desired)
    PROVE  /\ {u[1] : u \in {v \in updates : v[2]}} = Ones(desired) \ Ones(original)
           /\ {u[1] : u \in {v \in updates : ~v[2]}} = Zeroes(desired) \ Zeroes(original)
<1> DEFINE ones == Ones(desired) \ Ones(original)
           zeroes == Zeroes(desired) \ Zeroes(original)
<1>1. \A u \in updates : \/ \E p \in ones : u = <<p, TRUE>>
                         \/ \E p \in zeroes : u = <<p, FALSE>>
  BY DEF Updates
<1>2. (\A p \in ones : <<p, TRUE>> \in updates) /\ (\A p \in zeroes : <<p, FALSE>> \in updates)
  BY DEF Updates
<1> HIDE DEF ones, zeroes
<1>3. ASSUME NEW u \in updates, u[2] PROVE u[1] \in ones
  <2>1. CASE \E p \in ones : u = <<p, TRUE>>
    <3>1. PICK p \in ones : u = <<p, TRUE>>
      BY <2>1
    <3> QED
      BY <3>1, PairTrue, Zenon
  <2>2. CASE \E p \in zeroes : u = <<p, FALSE>>
    <3>1. PICK p \in zeroes : u = <<p, FALSE>>
      BY <2>2
    <3> QED
      BY <1>3, <3>1, PairFalse, Zenon
  <2> QED
    BY <1>1, <2>1, <2>2, Zenon
<1>4. ASSUME NEW u \in updates, ~u[2] PROVE u[1] \in zeroes
  <2>1. CASE \E p \in ones : u = <<p, TRUE>>
    <3>1. PICK p \in ones : u = <<p, TRUE>>
      BY <2>1
    <3> QED
      BY <1>4, <3>1, PairTrue, Zenon
  <2>2. CASE \E p \in zeroes : u = <<p, FALSE>>
    <3>1. PICK p \in zeroes : u = <<p, FALSE>>
      BY <2>2
    <3> QED
      BY <3>1, PairFalse, Zenon
  <2> QED
    BY <1>1, <2>1, <2>2, Zenon
<1>5. {u[1] : u \in {v \in updates : v[2]}} \subseteq ones
  <2> SUFFICES ASSUME NEW u \in {v \in updates : v[2]} PROVE u[1] \in ones
    BY Zenon
  <2> QED
    BY <1>3, Zenon
<1>6. {u[1] : u \in {v \in updates : ~v[2]}} \subseteq zeroes
  <2> SUFFICES ASSUME NEW u \in {v \in updates : ~v[2]} PROVE u[1] \in zeroes
    BY Zenon
  <2> QED
    BY <1>4, Zenon
<1>7. ASSUME NEW p \in ones PROVE p \in {u[1] : u \in {v \in updates : v[2]}}
  <2>1. PICK u : u = <<p, TRUE>>
    BY Zenon
  <2>2. u \in {v \in updates : v[2]} /\ u[1] = p
    BY <1>2, <2>1, PairTrue, Zenon
  <2> QED
    BY <2>2, Zenon
<1>8. ASSUME NEW p \in zeroes PROVE p \in {u[1] : u \in {v \in updates : ~v[2]}}
  <2>1. PICK u : u = <<p, FALSE>>
    BY Zenon
  <2>2. u \in {v \in updates : ~v[2]} /\ u[1] = p
    BY <1>2, <2>1, PairFalse, Zenon
  <2> QED
    BY <2>2, Zenon
<1>9. /\ {u[1] : u \in {v \in updates : v[2]}} = ones
      /\ {u[1] : u \in {v \in updates : ~v[2]}} = zeroes
  BY <1>5, <1>6, <1>7, <1>8, Zenon
<1> QED
  BY <1>9, Zenon DEF ones, zeroes

\* The sources of a datapath operation that is accepted.
LEMMA SourcesOf ==
    ASSUME NEW s, StatementOK(s), ValidDatapath(s.op, s.operands),
           NEW sources, sources = SourceTokens(s.op, s.operands)
    PROVE  /\ Len(sources) \in 0 .. 3 /\ DOMAIN sources = 1 .. Len(sources)
           /\ \A k \in DOMAIN sources : IsSource(sources[k]) /\ OperandOK(sources[k])
<1>1. PICK operands, S : operands = s.operands /\ S = Range(s.operands)
  OBVIOUS
<1>2. operands \in Seq(S) /\ Len(operands) <= 4
  BY <1>1 DEF StatementOK, ValidDatapath
<1>3. \A k \in 1 .. Len(operands) : OperandOK(operands[k])
  BY <1>1, <1>2 DEF StatementOK
<1>4. \A k \in DOMAIN sources : IsSource(sources[k])
  BY DEF ValidDatapath
<1>5. Len(operands) \in Nat
  BY <1>2
<1>6. CASE Len(operands) <= 1
  <2>1. sources = <<>>
    BY <1>1, <1>6 DEF SourceTokens
  <2> QED BY <2>1
<1>7. CASE Len(operands) > 1 /\ s.op = "ssw" /\ Len(operands) = 2
  <2>1. sources = operands
    BY <1>1, <1>7 DEF SourceTokens
  <2> QED BY <1>2, <1>3, <1>4, <1>7, <2>1
<1>8. CASE Len(operands) > 1 /\ ~(s.op = "ssw" /\ Len(operands) = 2)
  <2>1. sources = Tail(operands)
    BY <1>1, <1>8 DEF SourceTokens
  <2>2. Len(sources) = Len(operands) - 1 /\ DOMAIN sources = 1 .. Len(operands) - 1
    BY <1>2, <1>8, <2>1
  <2>3. ASSUME NEW k \in DOMAIN sources PROVE OperandOK(sources[k])
    <3>1. k \in 1 .. Len(operands) - 1
      BY <2>2
    <3>2. sources[k] = operands[k + 1] /\ k + 1 \in 1 .. Len(operands)
      BY <1>2, <1>5, <2>1, <3>1
    <3> QED BY <1>3, <3>2
  <2> QED BY <1>2, <1>4, <1>5, <1>8, <2>2, <2>3
<1> QED BY <1>5, <1>6, <1>7, <1>8

\* An operand with one index, and a condition that names a tag.
LEMMA OneIndex ==
    ASSUME NEW t, OperandOK(t), Len(t.indices) = 1
    PROVE  t.indices[1] \in Int /\ (t.sort # "$" => t.indices[1] \in Nat)
<1>1. PICK S : S = IF t.sort = "$" THEN Int ELSE Nat
  OBVIOUS
<1>2. t.indices \in Seq(S)
  BY <1>1 DEF OperandOK
<1>3. t.indices[1] \in S
  BY <1>2
<1> QED BY <1>1, <1>3

\* The types, indices and immediate of an instruction's sources.
LEMMA SourcesParsed ==
    ASSUME NEW s, StatementOK(s), ValidDatapath(s.op, s.operands),
           NEW ins, ins = FromStatement(s)
    PROVE  /\ DOMAIN ins.indices = 1 .. 3 /\ Len(ins.indices) = 3
           /\ \A j \in 1 .. 3 : /\ ins.indices[j] \in Nat
                                /\ ins.types[j] \in {"null", "immediate", "channel", "register"}
           /\ \/ ins.immediate = <<>> /\ \A j \in 1 .. 3 : ins.types[j] # "immediate"
              \/ /\ \E v \in Int : ins.immediate = <<v>>
                 /\ \E j \in 1 .. 3 : ins.types[j] = "immediate"
<1>1. PICK sources, n : sources = SourceTokens(s.op, s.operands) /\ n = Len(sources)
  OBVIOUS
<1>2. /\ n \in 0 .. 3 /\ DOMAIN sources = 1 .. n
      /\ \A k \in DOMAIN sources : IsSource(sources[k]) /\ OperandOK(sources[k])
  BY <1>1, SourcesOf
<1>3. /\ ins.types = [k \in 1 .. 3 |-> IF k <= n THEN SourceType(sources[k]) ELSE "null"]
      /\ ins.indices = [k \in 1 .. 3 |-> IF k <= n THEN SourceIndex(sources[k]) ELSE 0]
      /\ ins.immediate = Immediate(sources)
  BY <1>1 DEF FromStatement
<1>4. ASSUME NEW k \in 1 .. n
      PROVE  /\ SourceIndex(sources[k]) \in Nat
             /\ SourceType(sources[k]) \in {"immediate", "channel", "register"}
             /\ SourceType(sources[k]) = "immediate" <=> sources[k].sort = "$"
             /\ sources[k].indices[1] \in Int
  <2>1. IsSource(sources[k]) /\ OperandOK(sources[k])
    BY <1>2
  <2>2. Len(sources[k].indices) = 1
    BY <2>1 DEF IsSource
  <2> QED BY <2>1, <2>2, OneIndex DEF SourceIndex, SourceType
<1>5. ASSUME NEW j \in 1 .. 3
      PROVE  /\ ins.indices[j] \in Nat
             /\ ins.types[j] \in {"null", "immediate", "channel", "register"}
             /\ ins.types[j] = "immediate" <=> j <= n /\ sources[j].sort = "$"
  <2>1. CASE j <= n
    <3>1. j \in 1 .. n
      BY <1>2, <2>1
    <3> QED BY <1>3, <1>4, <2>1, <3>1
  <2>2. CASE ~(j <= n)
    BY <1>3, <2>2
  <2> QED BY <2>1, <2>2
<1>6. PICK at : at = {k \in DOMAIN sources : sources[k].sort = "$"}
  OBVIOUS
<1>7. CASE at = {}
  <2>1. ins.immediate = <<>>
    BY <1>3, <1>6, <1>7 DEF Immediate
  <2>2. \A j \in 1 .. 3 : ins.types[j] # "immediate"
    BY <1>2, <1>5, <1>6, <1>7
  <2> QED BY <1>3, <1>5, <2>1, <2>2
<1>8. CASE at # {}
  <2>1. Max(at) \in at
    <3>1. at \in SUBSET (1 .. 3) /\ at \in SUBSET Nat
      BY <1>2, <1>6
    <3>2. IsFiniteSet(at)
      BY <3>1, 1 \in Int, 3 \in Int, FS_Interval, FS_Subset
    <3> QED BY <1>8, <3>1, <3>2, Largest
  <2>2. PICK k : k = Max(at)
    OBVIOUS
  <2>3. k \in 1 .. n /\ sources[k].sort = "$" /\ sources[k].indices[1] \in Int
    BY <1>2, <1>4, <1>6, <2>1, <2>2
  <2>4. ins.immediate = <<sources[k].indices[1]>>
    BY <1>3, <1>6, <1>8, <2>2 DEF Immediate
  <2>5. k \in 1 .. 3 /\ ins.types[k] = "immediate"
    BY <1>2, <1>5, <2>3
  <2> QED BY <1>3, <1>5, <2>3, <2>4, <2>5
<1> QED BY <1>7, <1>8

\* The destination of an instruction.
LEMMA DestinationParsed ==
    ASSUME NEW s, StatementOK(s), ValidDatapath(s.op, s.operands),
           NEW ins, ins = FromStatement(s)
    PROVE  /\ ins.dt \in {"null", "channel", "register", "predicate"}
           /\ ins.di \in Nat \cup {None} /\ ins.oct \in Nat \cup {None}
           /\ ins.outputs \in SUBSET Nat
<1>1. PICK t : t = s.operands[1]
  OBVIOUS
<1>2. /\ ins.dt = DestinationType(s.op, s.operands)
      /\ ins.di = DestinationIndex(s.op, s.operands)
      /\ ins.outputs = OutputChannels(s.op, s.operands)
      /\ ins.oct = IF DestinationType(s.op, s.operands) = "channel" THEN t.tags[1] ELSE None
  BY <1>1 DEF FromStatement
<1>3. CASE ~HasDestination(s.op, s.operands)
  BY <1>2, <1>3 DEF DestinationType, DestinationIndex, OutputChannels
<1>4. CASE HasDestination(s.op, s.operands)
  <2>1. ValidDestination(t) /\ OperandOK(t)
    <3>1. s.operands \in Seq(Range(s.operands)) /\ Len(s.operands) >= 1
      BY <1>4 DEF HasDestination, StatementOK
    <3>2. 1 \in DOMAIN s.operands
      BY <3>1
    <3> QED BY <1>1, <1>4, <3>2 DEF ValidDatapath, StatementOK
  <2>2. t.sort # "$"
    BY <2>1 DEF ValidDestination
  <2>3. t.indices \in Seq(Nat) /\ t.tags \in Seq(Nat)
    BY <2>1, <2>2 DEF OperandOK
  <2>4. ins.dt = (CASE t.sort = "%o" -> "channel" [] t.sort = "%r" -> "register"
                    [] OTHER -> "predicate")
    BY <1>1, <1>2, <1>4 DEF DestinationType
  <2>5. ins.dt = "channel" => t.sort = "%o"
    BY <2>4
  <2>6. ins.oct \in Nat \cup {None}
    <3>1. CASE ins.dt = "channel"
      <4>1. Len(t.tags) = 1
        BY <2>1, <2>5, <3>1 DEF ValidDestination
      <4>2. t.tags[1] \in Nat
        BY <2>3, <4>1
      <4> QED BY <1>2, <3>1, <4>2
    <3>2. CASE ins.dt # "channel"
      BY <1>2, <3>2
    <3> QED BY <3>1, <3>2
  <2>7. ins.di \in Nat
    <3>1. CASE t.braced
      BY <1>1, <1>2, <1>4, <3>1 DEF DestinationIndex
    <3>2. CASE ~t.braced
      <4>1. Len(t.indices) = 1
        BY <2>1, <3>2 DEF ValidDestination
      <4>2. t.indices[1] \in Nat
        BY <2>3, <4>1
      <4> QED BY <1>1, <1>2, <1>4, <3>2, <4>2 DEF DestinationIndex
    <3> QED BY <3>1, <3>2
  <2>8. ins.outputs \in SUBSET Nat
    <3>1. \A k \in DOMAIN t.indices : t.indices[k] \in Nat
      BY <2>3
    <3> QED BY <1>1, <1>2, <3>1 DEF OutputChannels
  <2> QED BY <2>4, <2>6, <2>7, <2>8
<1> QED BY <1>3, <1>4

\* What the front end makes of a statement is an instruction.
LEMMA StatementParsed ==
    ASSUME NEW s, StatementOK(s), ValidStatement(s) PROVE Parsed(FromStatement(s))
<1>1. PICK ins : ins = FromStatement(s)
  OBVIOUS
<1>2. \A pattern \in Seq(STRING) : Ones(pattern) \in SUBSET Nat /\ Zeroes(pattern) \in SUBSET Nat
  <2> SUFFICES ASSUME NEW pattern \in Seq(STRING), NEW k \in DOMAIN pattern PROVE k - 1 \in Nat
    BY DEF Ones, Zeroes
  <2> QED
    OBVIOUS
<1>3. ins.on \in SUBSET Nat /\ ins.off \in SUBSET Nat
  BY <1>1, <1>2 DEF FromStatement, StatementOK
<1>4. /\ \E n \in Nat : \A list \in {ins.channels, ins.booleans, ins.tags} :
             DOMAIN list = 1 .. n /\ Len(list) = n
      /\ \A k \in DOMAIN ins.channels : /\ ins.channels[k] \in Nat /\ ins.tags[k] \in Nat
                                        /\ ins.booleans[k] \in BOOLEAN
  <2>1. PICK n : n = Len(s.conditions)
    OBVIOUS
  <2>2. n \in Nat /\ DOMAIN s.conditions = 1 .. n
    BY <2>1 DEF StatementOK, Listing
  <2>3. /\ ins.channels = [k \in 1 .. n |-> s.conditions[k].channel]
        /\ ins.tags = [k \in 1 .. n |-> s.conditions[k].tags[1]]
        /\ ins.booleans = [k \in 1 .. n |-> ~s.conditions[k].not]
    BY <1>1, <2>2 DEF FromStatement
  <2>4. /\ DOMAIN ins.channels = 1 .. n /\ Len(ins.channels) = n
        /\ DOMAIN ins.tags = 1 .. n /\ Len(ins.tags) = n
    BY <2>2, <2>3
  <2>5. DOMAIN ins.booleans = 1 .. n /\ Len(ins.booleans) = n
    BY <2>2, <2>3
  <2>6. ASSUME NEW k \in 1 .. n
        PROVE  ins.channels[k] \in Nat /\ ins.tags[k] \in Nat /\ ins.booleans[k] \in BOOLEAN
    <3>1. PICK c : c = s.conditions[k]
      OBVIOUS
    <3>2. c.channel \in Nat /\ c.tags \in Seq(Nat) /\ c.not \in BOOLEAN
      BY <2>2, <3>1 DEF StatementOK
    <3>3. Len(c.tags) >= 1
      BY <2>2, <3>1 DEF ValidStatement, ValidCondition
    <3>4. c.tags[1] \in Nat
      BY <3>2, <3>3
    <3>5. ins.booleans[k] \in BOOLEAN
      BY <2>3, Zenon
    <3> QED BY <2>3, <3>1, <3>2, <3>4, <3>5
  <2> QED
    BY <2>2, <2>4, <2>5, <2>6
<1>5. ValidDatapath(s.op, s.operands) /\ ins.op = s.op
  BY <1>1 DEF ValidStatement, FromStatement
<1>6. ASSUME NEW u \in ins.updates PROVE u[1] \in Nat
  <2>1. PICK k \in Parts(s, "set") : u \in Updates(s.pattern, s.parts[k].pattern)
    BY <1>1, <1>6 DEF FromStatement, PredicateUpdates
  <2>2. k \in DOMAIN s.parts
    BY DEF Parts
  <2>3. s.parts[k].pattern \in Seq(STRING)
    BY <2>2 DEF StatementOK
  <2>4. u[1] \in Ones(s.parts[k].pattern) \cup Zeroes(s.parts[k].pattern)
    <3>1. \/ \E p \in Ones(s.parts[k].pattern) : u = <<p, TRUE>>
          \/ \E p \in Zeroes(s.parts[k].pattern) : u = <<p, FALSE>>
      BY <2>1 DEF Updates
    <3> QED
      BY <3>1, PairTrue, PairFalse, Zenon
  <2> QED
    BY <1>2, <2>3, <2>4
<1>7. ins.dequeues \in SUBSET Nat
  <2>1. ASSUME NEW k \in DOMAIN s.parts, NEW c \in Range(s.parts[k].channels) PROVE c.channel \in Nat
    BY DEF StatementOK
  <2>2. Dequeues(s) \in SUBSET Nat
    BY <2>1 DEF Dequeues, Parts
  <2> QED BY <1>1, <2>2 DEF FromStatement
<1>8. \E n \in DOMAIN Ops : Ops[n] = ins.op
  BY <1>5 DEF ValidDatapath
<1>9. /\ DOMAIN ins.indices = 1 .. 3 /\ Len(ins.indices) = 3
      /\ \A j \in 1 .. 3 : /\ ins.indices[j] \in Nat
                           /\ ins.types[j] \in {"null", "immediate", "channel", "register"}
      /\ \/ ins.immediate = <<>> /\ \A j \in 1 .. 3 : ins.types[j] # "immediate"
         \/ /\ \E v \in Int : ins.immediate = <<v>>
            /\ \E j \in 1 .. 3 : ins.types[j] = "immediate"
  BY <1>1, <1>5, SourcesParsed
<1>10. /\ ins.dt \in {"null", "channel", "register", "predicate"}
       /\ ins.di \in Nat \cup {None} /\ ins.oct \in Nat \cup {None}
       /\ ins.outputs \in SUBSET Nat
  BY <1>1, <1>5, DestinationParsed
<1>11. Parsed(ins)
  BY <1>3, <1>4, <1>6, <1>7, <1>8, <1>9, <1>10 DEF Parsed
<1> QED
  BY <1>1, <1>11

\* The words of an instruction, put together, are its code.
LEMMA InstructionJoined ==
    ASSUME NEW ps, \A key \in Numbers : ps[key] \in Nat, Valid(ps),
           NEW registers_, NEW instructions, Listing(instructions), Sized(ps, instructions),
           NEW k \in 1 .. Len(instructions), Parsed(instructions[k])
    PROVE  Joined(build_program_binary(ps, registers_, instructions).instructions,
                  WordsPerInstruction(ps), k - 1)
               = build_machine_code_instruction(ps, instructions[k])
<1>0. PICK words : words = build_program_binary(ps, registers_, instructions).instructions
  OBVIOUS
<1>1. PICK ins : ins = instructions[k]
  OBVIOUS
<1>2. Parsed(ins) /\ Encodable(ps, ins)
  BY <1>1 DEF Sized, Listing
<1>3. PICK n : n = WordsPerInstruction(ps)
  OBVIOUS
<1>4. n \in Nat \ {0} /\ ps.mm_instruction_width = 32 * n
  BY <1>3, WholeWords DEF Sized
<1>5. PICK code : code = build_machine_code_instruction(ps, ins)
  OBVIOUS
<1>6. code \in SUBSET Nat /\ Fits(code, 32 * n)
  BY <1>2, <1>4, <1>5, CodeFits
<1>7. \A i \in 0 .. n - 1 : words[n * (k - 1) + i] = Low(High(code, i * 32), 32)
  <2>1. code = build_machine_code_instruction(ps, instructions[k])
    BY <1>1, <1>5
  <2>2. n \in Nat \ {0} /\ n = WordsPerInstruction(ps)
    BY <1>3, <1>4
  <2>3. Len(instructions) \in Nat
    BY DEF Listing
  <2> QED
    BY <1>0, <2>1, <2>2, <2>3, InstructionWords
<1>8. Joined(words, n, k - 1) = code
  <2>1. k - 1 \in Int
    OBVIOUS
  <2> QED
    BY <1>4, <1>6, <1>7, <2>1, WordsJoin
<1> QED
  BY <1>0, <1>1, <1>3, <1>5, <1>8

\* What the hardware reads of the code of an instruction.
LEMMA CodeReads ==
    ASSUME NEW ps, \A key \in Numbers : ps[key] \in Nat, Valid(ps),
           NEW ins, Parsed(ins), Encodable(ps, ins),
           NEW f, f = Unpack(HwWidth(ps), build_machine_code_instruction(ps, ins),
                             ps.immediate_width, HwPadding(ps))
    PROVE  f.vi = {0} /\ \A name \in FieldNames \cup {"immediate"} : f[name] = Fields(ps, ins)[name]
<1>1. PICK w, g, iw, pw : /\ w = Width(ps) /\ g = Fields(ps, ins)
                          /\ iw = ps.immediate_width /\ pw = PaddingWidth(ps)
  OBVIOUS
<1>2. /\ Fitting(w, g) /\ g.immediate \in SUBSET Nat /\ Fits(g.immediate, iw)
      /\ iw \in Nat /\ pw \in Nat
  BY <1>1, EncodedFields
<1>3. f = Unpack(w, Pack(w, g, iw, pw), iw, pw)
  BY <1>1, SameWidths DEF build_machine_code_instruction
<1>4. LET v == Unpack(w, Pack(w, g, iw, pw), iw, pw)
      IN  /\ v.vi = {0} /\ v.immediate = g.immediate
          /\ \A name \in FieldNames : v[name] = g[name]
  BY <1>2, PackRead
<1>5. f.vi = {0} /\ f.immediate = g.immediate /\ \A name \in FieldNames : f[name] = g[name]
  BY <1>3, <1>4
<1> QED BY <1>1, <1>5

\* The instruction as the hardware sees it.
LEMMA CodeUnpacked ==
    ASSUME NEW ps, \A key \in Numbers : ps[key] \in Nat, Valid(ps),
           NEW ins, Parsed(ins), Encodable(ps, ins), NEW g, g = Fields(ps, ins)
    PROVE  Unpack(HwWidth(ps), build_machine_code_instruction(ps, ins),
                  ps.immediate_width, HwPadding(ps))
               = [field \in DOMAIN g \cup {"vi"} |-> IF field = "vi" THEN {0} ELSE g[field]]
<1>1. PICK u : u = Unpack(HwWidth(ps), build_machine_code_instruction(ps, ins),
                          ps.immediate_width, HwPadding(ps))
  OBVIOUS
<1>2. u.vi = {0} /\ \A name \in FieldNames \cup {"immediate"} : u[name] = g[name]
  BY <1>1, CodeReads
<1>3. DOMAIN g = FieldNames \cup {"immediate"}
  BY DEF Fields, FieldNames
<1>4. u = [field \in FieldNames \cup {"immediate", "vi"} |-> u[field]]
  BY <1>1 DEF Unpack, FieldNames
<1>5. u = [field \in FieldNames \cup {"immediate", "vi"} |->
              IF field = "vi" THEN {0} ELSE g[field]]
  <2>1. \A field \in FieldNames \cup {"immediate", "vi"} :
            u[field] = IF field = "vi" THEN {0} ELSE g[field]
    BY <1>2 DEF FieldNames
  <2> QED
    BY <1>4, <2>1
<1>6. DOMAIN g \cup {"vi"} = FieldNames \cup {"immediate", "vi"}
  BY <1>3
<1> QED
  BY <1>1, <1>5, <1>6

\* The hardware finds the fields of an instruction in the words it is the k-th of.
ReadsBack(ps, words, k, ins) ==
    LET f == Fields(ps, ins)
    IN  Unpack(HwWidth(ps), Joined(words, WordsPerInstruction(ps), k - 1),
               ps.immediate_width, HwPadding(ps))
            = [field \in DOMAIN f \cup {"vi"} |-> IF field = "vi" THEN {0} ELSE f[field]]

\* An instruction is read back from any words that join to its machine code.
LEMMA ReadsBackFromCode ==
    ASSUME NEW ps, \A key \in Numbers : ps[key] \in Nat, Valid(ps),
           NEW ins, Parsed(ins), Encodable(ps, ins), NEW words, NEW k,
           Joined(words, WordsPerInstruction(ps), k - 1) = build_machine_code_instruction(ps, ins)
    PROVE  ReadsBack(ps, words, k, ins)
<1>1. PICK g : g = Fields(ps, ins)
  OBVIOUS
<1>2. Unpack(HwWidth(ps), build_machine_code_instruction(ps, ins),
             ps.immediate_width, HwPadding(ps))
          = [field \in DOMAIN g \cup {"vi"} |-> IF field = "vi" THEN {0} ELSE g[field]]
  BY <1>1, CodeUnpacked
<1> QED
  BY <1>1, <1>2 DEF ReadsBack

\* Every instruction of a program is read back from the program's binary.
LEMMA InstructionReadsBack ==
    ASSUME NEW ps, \A key \in Numbers : ps[key] \in Nat, Valid(ps),
           NEW registers_, NEW instructions, Listing(instructions), Sized(ps, instructions),
           NEW k \in 1 .. Len(instructions), Parsed(instructions[k])
    PROVE  ReadsBack(ps, build_program_binary(ps, registers_, instructions).instructions,
                     k, instructions[k])
<1>1. Encodable(ps, instructions[k])
  BY DEF Sized, Listing
<1>2. PICK words : words = build_program_binary(ps, registers_, instructions).instructions
  OBVIOUS
<1>3. Joined(words, WordsPerInstruction(ps), k - 1)
          = build_machine_code_instruction(ps, instructions[k])
  BY <1>2, InstructionJoined
<1>4. PICK ins : ins = instructions[k]
  OBVIOUS
<1>5. Parsed(ins) /\ Encodable(ps, ins)
  BY <1>1, <1>4
<1>6. Joined(words, WordsPerInstruction(ps), k - 1) = build_machine_code_instruction(ps, ins)
  BY <1>3, <1>4
<1>7. ReadsBack(ps, words, k, ins)
  BY <1>5, <1>6, ReadsBackFromCode
<1> QED
  BY <1>2, <1>4, <1>7

\* The two halves of a mask.
LEMMA MaskRead ==
    ASSUME NEW ps, ps.num_predicates \in Nat, NEW ones \in SUBSET Nat, NEW zeroes \in SUBSET Nat,
           Fits(zeroes, ps.num_predicates),
           NEW mask, mask = Concat(ones, ps.num_predicates, zeroes)
    PROVE  Trues(ps, mask) = ones /\ Falses(ps, mask) = zeroes
BY ConcatRead DEF Trues, Falses

\* The masks of an instruction, in every predicate state its trigger admits.
LEMMA UpdateReaches ==
    ASSUME NEW ps, ps.num_predicates \in Nat,
           NEW s, StatementOK(s), ValidParts(s), PredicatesFit(ps, FromStatement(s)),
           NEW p, Admits(FromStatement(s), p), NEW i \in Parts(s, "set")
    PROVE  Reaches(ps, FromStatement(s), s.parts[i].pattern, p)
<1>0. PICK ins, desired, pum, after :
          /\ ins = FromStatement(s) /\ desired = s.parts[i].pattern
          /\ pum = Fields(ps, ins).pum
          /\ after = (p \cup Trues(ps, pum)) \ Falses(ps, pum)
  OBVIOUS
<1>1. PICK ones, zeroes : /\ ones = Ones(desired) \ Ones(s.pattern)
                          /\ zeroes = Zeroes(desired) \ Zeroes(s.pattern)
  OBVIOUS
<1>2. ins.updates = Updates(s.pattern, desired)
  <2>1. ins.updates = PredicateUpdates(s)
    BY <1>0 DEF FromStatement
  <2>2. Parts(s, "set") = {i}
    BY DEF ValidParts
  <2> QED
    BY <1>0, <2>1, <2>2 DEF PredicateUpdates
<1>3. /\ {u[1] : u \in {v \in ins.updates : v[2]}} = ones
      /\ {u[1] : u \in {v \in ins.updates : ~v[2]}} = zeroes
  BY <1>1, <1>2, UpdatesSplit
<1>4. pum = Concat(ones, ps.num_predicates, zeroes)
  BY <1>0, <1>3 DEF Fields, build_pum, Concat
<1>5. Ones(desired) \in SUBSET Nat /\ Zeroes(desired) \in SUBSET Nat
      /\ Ones(desired) \cap Zeroes(desired) = {}
  <2>1. desired \in Seq(STRING)
    BY <1>0 DEF StatementOK, Parts
  <2>2. ASSUME NEW k \in DOMAIN desired PROVE k \in Nat \ {0}
    BY <2>1
  <2>3. "0" # "1"
    OBVIOUS
  <2> HIDE <2>1
  <2> QED
    BY <2>2, <2>3 DEF Ones, Zeroes
<1>6. Fits(zeroes, ps.num_predicates)
  <2> SUFFICES ASSUME NEW q \in zeroes PROVE q < ps.num_predicates
    BY DEF Fits
  <2>1. q \in {u[1] : u \in ins.updates}
    <3>1. q \in {u[1] : u \in {v \in ins.updates : ~v[2]}}
      BY <1>3
    <3> QED
      BY <3>1, Zenon
  <2> QED
    BY <1>0, <2>1 DEF PredicatesFit
<1>7. Trues(ps, pum) = ones /\ Falses(ps, pum) = zeroes
  <2>1. ones \in SUBSET Nat /\ zeroes \in SUBSET Nat
    BY <1>1, <1>5
  <2> QED
    BY <1>4, <1>6, <2>1, MaskRead
<1>8. ins.on = Ones(s.pattern) /\ ins.off = Zeroes(s.pattern)
  BY <1>0 DEF FromStatement
<1>9. /\ Ones(desired) \subseteq after
      /\ Zeroes(desired) \cap after = {}
      /\ \A q \in (p \ after) \cup (after \ p) : q \in Ones(desired) \cup Zeroes(desired)
  BY <1>0, <1>1, <1>5, <1>7, <1>8 DEF Admits
<1> QED
  BY <1>0, <1>9 DEF Reaches

-----------------------------------------------------------------------------
(* The assembler, step by step.                                            *)

\* The stages after a platform has been accepted, after the programs have been
\* parsed and after they have been encoded.
Accepted   == {"read", "parsed", "validated", "assembled", "loading", "loaded", "ran"}
Understood == Accepted \ {"read"}
Encoded    == Understood \ {"parsed", "validated"}

FromInput == \E input \in Inputs : dictionary = input.platform /\ source = input.source

PlatformAccepted ==
    stage \in Accepted => (\A key \in Numbers : cp[key] \in Nat) /\ Valid(cp)

ProgramsParsed ==
    stage \in Understood =>
        /\ \A n \in DOMAIN source : Parses(cp, source[n])
        /\ programs = [n \in DOMAIN source |-> FromSource(cp, source[n])]

ProgramsEncoded ==
    stage \in Encoded => \A n \in DOMAIN programs : Sized(cp, programs[n].instructions)

ToolInv == FromInput /\ PlatformAccepted /\ ProgramsParsed /\ ProgramsEncoded

\* The invariant of the assembler holds before anything has been read.
LEMMA InitToolInv == Init => ToolInv
BY DEF Init, ToolInv, FromInput, PlatformAccepted, ProgramsParsed, ProgramsEncoded,
       Accepted, Understood, Encoded

\* A platform that is read has every parameter, none of them null.
LEMMA ReadPlatformInv ==
    ASSUME ToolInv, ReadPlatform PROVE ToolInv'
<1>1. FromInput'
  BY DEF ToolInv, FromInput, ReadPlatform
<1>2. stage' \in {"read", "refused"}
  BY DEF ReadPlatform, Stop
<1>3. PlatformAccepted'
  <2> SUFFICES ASSUME stage' = "read"
               PROVE  (\A key \in Numbers : cp'[key] \in Nat) /\ Valid(cp')
    BY <1>2 DEF PlatformAccepted, Accepted
  <2>1. /\ Complete(dictionary) /\ Valid(FromDictionary(dictionary))
        /\ cp' = FromDictionary(dictionary)
    BY DEF ReadPlatform, Stop
  <2>2. ASSUME NEW key \in Numbers PROVE cp'[key] \in Nat
    <3>1. PICK input \in Inputs : dictionary = input.platform
      BY DEF ToolInv, FromInput
    <3>2. key \in DOMAIN dictionary
      BY <2>1 DEF Complete
    <3>3. dictionary[key] \in Nat \cup {None}
      BY <3>1, <3>2, InputsAssumption
    <3>4. cp'[key] = dictionary[key] /\ cp'[key] # None
      BY <2>1 DEF FromDictionary, Valid
    <3> QED
      BY <3>3, <3>4
  <2> QED
    BY <2>1, <2>2
<1>4. ProgramsParsed' /\ ProgramsEncoded'
  BY <1>2 DEF ProgramsParsed, ProgramsEncoded, Understood, Encoded, Accepted
<1> QED
  BY <1>1, <1>3, <1>4 DEF ToolInv

\* Parsing keeps the invariant: what it accepts, it has understood.
LEMMA ParseInv == ASSUME ToolInv, Parse PROVE ToolInv'
<1>1. FromInput' /\ UNCHANGED <<source, cp>> /\ stage = "read"
  BY DEF ToolInv, FromInput, Parse
<1>2. \/ /\ stage' = "parsed"
         /\ \A n \in DOMAIN source : Parses(cp, source[n])
         /\ programs' = [n \in DOMAIN source |-> FromSource(cp, source[n])]
      \/ stage' = "refused"
  BY DEF Parse, Stop
<1>3. PlatformAccepted'
  BY <1>1, <1>2 DEF ToolInv, PlatformAccepted, Accepted
<1>4. ProgramsParsed'
  BY <1>1, <1>2 DEF ProgramsParsed, Understood, Accepted
<1>5. ProgramsEncoded'
  BY <1>2 DEF ProgramsEncoded, Encoded, Understood, Accepted
<1> QED
  BY <1>1, <1>3, <1>4, <1>5 DEF ToolInv

\* Assembling keeps the invariant: the binary is the one of the listing.
LEMMA AssembleInv == ASSUME ToolInv, Assemble PROVE ToolInv'
<1>1. FromInput' /\ UNCHANGED <<source, cp, programs>> /\ stage = "validated"
  BY DEF ToolInv, FromInput, Assemble
<1>2. \/ /\ stage' = "assembled"
         /\ \A n \in DOMAIN programs : Sized(cp, programs[n].instructions)
      \/ stage' = "refused"
  BY DEF Assemble, Stop
<1>3. PlatformAccepted'
  BY <1>1, <1>2 DEF ToolInv, PlatformAccepted, Accepted
<1>4. ProgramsParsed'
  BY <1>1, <1>2 DEF ToolInv, ProgramsParsed, Understood, Accepted
<1>5. ProgramsEncoded'
  BY <1>1, <1>2 DEF ProgramsEncoded, Encoded, Understood, Accepted
<1> QED
  BY <1>1, <1>3, <1>4, <1>5 DEF ToolInv

\* The steps that leave parameters and programs as they are.
LEMMA LaterInv ==
    ASSUME ToolInv, UNCHANGED <<dictionary, source, cp, programs>>,
           \/ stage' \in {stage, "refused"}
           \/ stage = "parsed" /\ stage' = "validated"
           \/ stage \in Encoded /\ stage' \in Encoded
    PROVE  ToolInv'
<1>1. FromInput'
  BY DEF ToolInv, FromInput
<1>2. PlatformAccepted'
  BY DEF ToolInv, PlatformAccepted, Accepted, Encoded, Understood
<1>3. ProgramsParsed'
  BY DEF ToolInv, ProgramsParsed, Accepted, Encoded, Understood
<1>4. ProgramsEncoded'
  BY DEF ToolInv, ProgramsEncoded, Accepted, Encoded, Understood
<1> QED
  BY <1>1, <1>2, <1>3, <1>4 DEF ToolInv

\* Every step keeps the invariant of the assembler.
LEMMA ToolInvStep == ToolInv /\ [Next]_vars => ToolInv'
<1> SUFFICES ASSUME ToolInv, [Next]_vars PROVE ToolInv'
  OBVIOUS
<1>1. CASE ReadPlatform
  BY <1>1, ReadPlatformInv
<1>2. CASE Parse
  BY <1>2, ParseInv
<1>3. CASE Validate
  BY <1>3, LaterInv DEF Validate, Stop
<1>4. CASE Assemble
  BY <1>4, AssembleInv
<1>5. CASE ReadBinary
  BY <1>5, LaterInv DEF ReadBinary, Stop, Encoded, Understood, Accepted
<1>6. CASE WriteNextWord
  BY <1>6, LaterInv DEF WriteNextWord, Encoded, Understood, Accepted
<1>7. CASE RunInstruction
  BY <1>7, LaterInv DEF RunInstruction, Encoded, Understood, Accepted
<1>8. CASE UNCHANGED vars
  BY <1>8, LaterInv DEF vars
<1> QED
  BY <1>1, <1>2, <1>3, <1>4, <1>5, <1>6, <1>7, <1>8 DEF Next

\* The invariant of the assembler, over a whole run.
LEMMA ToolInvAlways == Spec => []ToolInv
BY InitToolInv, ToolInvStep, PTL DEF Spec

\* Statement k of program n has become its instruction k.
Translated(n, k) ==
    /\ StatementOK(source[n].statements[k]) /\ ValidStatement(source[n].statements[k])
    /\ programs[n].instructions[k] = FromStatement(source[n].statements[k])
    /\ k \in 1 .. Len(programs[n].instructions)

\* Once understood, the instructions of a program are those of its listing.
LEMMA ProgramInstructions ==
    ASSUME ToolInv, stage \in Understood, NEW n \in DOMAIN programs
    PROVE  /\ Listing(programs[n].instructions)
           /\ \A k \in DOMAIN programs[n].instructions : Translated(n, k)
<1>1. /\ n \in DOMAIN source /\ Parses(cp, source[n])
      /\ programs[n] = FromSource(cp, source[n])
  BY DEF ToolInv, ProgramsParsed
<1>2. PICK input \in Inputs : source = input.source
  BY DEF ToolInv, FromInput
<1>3. PICK statements, instructions : /\ statements = source[n].statements
                                      /\ instructions = programs[n].instructions
  OBVIOUS
<1>4. Listing(statements) /\ \A k \in DOMAIN statements : StatementOK(statements[k])
  BY <1>1, <1>2, <1>3, InputsAssumption
<1>5. instructions = [k \in DOMAIN statements |-> FromStatement(statements[k])]
  BY <1>1, <1>3 DEF FromSource
<1>6. Listing(instructions)
  <2>1. PICK length : length = Len(statements)
    OBVIOUS
  <2>2. length \in Nat /\ DOMAIN statements = 1 .. length
    BY <1>4, <2>1 DEF Listing
  <2> QED
    BY <1>5, <2>2 DEF Listing
<1>7. \A k \in DOMAIN statements : ValidStatement(statements[k])
  BY <1>1, <1>3 DEF Parses
<1>8. \A k \in DOMAIN instructions : k \in 1 .. Len(instructions)
  BY <1>6 DEF Listing
<1> QED
  BY <1>3, <1>4, <1>5, <1>6, <1>7, <1>8 DEF Translated

\* No field of an instruction the assembler has accepted reaches into another or
\* is cut: the words it has written, put together, give the hardware its fields.
THEOREM AssemblyReadsBack == Spec => []FieldsReadBack
<1>1. ASSUME ToolInv, stage = "assembled", NEW n \in DOMAIN programs,
             NEW k, Translated(n, k)
      PROVE  ReadsBack(cp, build_program_binary(cp, programs[n].registers,
                                  programs[n].instructions).instructions,
                       k, programs[n].instructions[k])
  <2>1. stage \in Accepted /\ stage \in Understood /\ stage \in Encoded
    BY <1>1 DEF Accepted, Understood, Encoded
  <2>2. (\A key \in Numbers : cp[key] \in Nat) /\ Valid(cp)
    BY <1>1, <2>1 DEF ToolInv, PlatformAccepted
  <2>3. Listing(programs[n].instructions) /\ Sized(cp, programs[n].instructions)
    BY <1>1, <2>1, ProgramInstructions DEF ToolInv, ProgramsEncoded
  <2>4. k \in 1 .. Len(programs[n].instructions) /\ Parsed(programs[n].instructions[k])
    BY <1>1, StatementParsed DEF Translated
  <2> HIDE <1>1
  <2> QED
    BY <2>2, <2>3, <2>4, InstructionReadsBack
<1>2. ToolInv /\ stage = "assembled" =>
          \A n \in DOMAIN programs : \A k \in DOMAIN programs[n].instructions : Translated(n, k)
  BY ProgramInstructions DEF Accepted, Understood
<1>3. ToolInv => FieldsReadBack
  BY <1>1, <1>2, Zenon DEF FieldsReadBack, ReadsBack
<1> QED
  BY <1>3, ToolInvAlways, PTL

\* In every predicate state that its trigger admits, an instruction leaves the
\* predicates as its pattern says and the rest alone.
THEOREM UpdatesReachPattern == Spec => []SetReachesPattern
<1>1. ASSUME ToolInv, stage = "assembled", NEW n \in DOMAIN programs,
             NEW k \in DOMAIN programs[n].instructions,
             Translated(n, k), NEW p, NEW i \in Parts(source[n].statements[k], "set"),
             Admits(programs[n].instructions[k], p)
      PROVE  Reaches(cp, programs[n].instructions[k], source[n].statements[k].parts[i].pattern, p)
  <2>1. stage \in Accepted /\ stage \in Encoded
    BY <1>1 DEF Accepted, Understood, Encoded
  <2>2. cp.num_predicates \in Nat
    BY <1>1, <2>1 DEF ToolInv, PlatformAccepted, Numbers
  <2>3. PredicatesFit(cp, programs[n].instructions[k])
    BY <1>1, <2>1 DEF ToolInv, ProgramsEncoded, Sized, Encodable
  <2>4. PICK s : s = source[n].statements[k]
    OBVIOUS
  <2>5. programs[n].instructions[k] = FromStatement(s) /\ StatementOK(s) /\ ValidParts(s)
    BY <1>1, <2>4 DEF Translated, ValidStatement
  <2>6. PICK ins : ins = programs[n].instructions[k]
    OBVIOUS
  <2>7. /\ ins = FromStatement(s) /\ PredicatesFit(cp, ins)
        /\ Admits(ins, p) /\ i \in Parts(s, "set")
    BY <1>1, <2>3, <2>4, <2>5, <2>6
  <2> HIDE <1>1
  <2>8. Reaches(cp, FromStatement(s), s.parts[i].pattern, p)
    BY <2>2, <2>5, <2>7, UpdateReaches
  <2> QED
    BY <2>4, <2>5, <2>8
<1>2. ToolInv /\ stage = "assembled" =>
          \A n \in DOMAIN programs : \A k \in DOMAIN programs[n].instructions : Translated(n, k)
  BY ProgramInstructions DEF Accepted, Understood
<1>3. ToolInv => SetReachesPattern
  BY <1>1, <1>2, Zenon DEF SetReachesPattern
<1> QED
  BY <1>3, ToolInvAlways, PTL

-----------------------------------------------------------------------------
(* Reading the slots of a field.                                           *)

\* A range of bits, as the positions it takes.
LEMMA Within ==
    ASSUME NEW s \in SUBSET Nat, NEW low \in Nat, NEW w \in Nat
    PROVE  Low(High(s, low), w) = {y \in Nat : y < w /\ y + low \in s}
<1>1. ASSUME NEW y \in Low(High(s, low), w) PROVE y \in Nat /\ y < w /\ y + low \in s
  <2>1. PICK j \in s : j >= low /\ y = j - low
    BY DEF Low, High
  <2>2. j \in Nat /\ y + low = j /\ y \in Nat
    BY <2>1
  <2> QED BY <2>2 DEF Low
<1>2. ASSUME NEW y \in Nat, y < w, y + low \in s PROVE y \in Low(High(s, low), w)
  <2>1. y + low >= low /\ y = (y + low) - low
    OBVIOUS
  <2>2. y \in High(s, low)
    BY <1>2, <2>1 DEF High
  <2> QED BY <1>2, <2>2 DEF Low
<1> QED BY <1>1, <1>2

\* Position n is bit x of slot a.
Lies(n, w, a, x) == n = w * a + x

\* A position belongs to one slot.
LEMMA SameSlot ==
    ASSUME NEW a \in Int, NEW b \in Int, NEW w \in Nat, NEW x \in Nat, x < w, NEW y \in Nat, y < w,
           NEW n, Lies(n, w, a, x), Lies(n, w, b, y)
    PROVE  a = b /\ x = y
<1>1. n = w * a + x /\ n = w * b + y
  BY DEF Lies
<1>2. n \in Int /\ x \in 0 .. w - 1 /\ y \in 0 .. w - 1
  BY <1>1
<1>3. n \div w = a /\ n % w = x
  BY <1>1, <1>2, Quotient
<1>4. n \div w = b /\ n % w = y
  BY <1>1, <1>2, Quotient
<1> QED BY <1>3, <1>4

\* What is or-ed into slot i of a field is what is read from it, if every entry
\* has room in its slot; the slots below the first entry read as zero.
LEMMA SlotIs ==
    ASSUME NEW entries, NEW slots \in Nat, NEW w \in Nat, NEW n \in Nat,
           DOMAIN entries = 1 .. n, Len(entries) = n, n <= slots,
           \A k \in 1 .. n : entries[k] \in Nat /\ entries[k] < Pow(w),
           NEW i \in 0 .. slots - 1
    PROVE  Slot(InSlots(entries, slots, w), i, w) =
               IF i >= slots - n THEN entries[i - (slots - n) + 1] ELSE 0
<1>1. PICK field, low, X : /\ field = InSlots(entries, slots, w) /\ low = w * i
                           /\ X = Low(High(field, low), w)
  OBVIOUS
<1>2. \A k \in 1 .. n : entries[k] \in Int
  OBVIOUS
<1>3. field \in SUBSET Nat /\ low \in Nat
  <2>1. field \in SUBSET Nat
    BY <1>1, <1>2, SlotsType
  <2> QED BY <1>1, <2>1
<1>4. X = {y \in Nat : y < w /\ y + low \in field}
  BY <1>1, <1>3, Within
<1>5. ASSUME NEW k \in 1 .. n, NEW x \in Bits(entries[k]) PROVE x \in Nat /\ x < w
  <2>1. Fits(Bits(entries[k]), w) /\ Bits(entries[k]) \in SUBSET Nat
    BY <1>2, BitsBelow, BitsType
  <2> QED BY <2>1 DEF Fits
<1>6. ASSUME NEW y \in X
      PROVE  /\ i >= slots - n
             /\ y \in Bits(entries[i - (slots - n) + 1])
  <2>1. y \in Nat /\ y < w /\ y + low \in field
    BY <1>4
  <2>2. PICK k \in 1 .. n : y + low \in Shift(Bits(entries[k]), (slots - n + k - 1) * w)
    BY <1>1, <2>1 DEF InSlots
  <2>3. PICK x \in Bits(entries[k]) : y + low = x + (slots - n + k - 1) * w
    BY <2>2 DEF Shift
  <2>4. PICK a : a = slots - n + k - 1
    OBVIOUS
  <2>5. a \in Nat /\ x \in Nat /\ x < w /\ k = a - (slots - n) + 1
    BY <1>5, <2>4
  <2>6. PICK p, q : p = w * a /\ q = w * i
    OBVIOUS
  <2>9. Lies(p + x, w, a, x) /\ Lies(p + x, w, i, y)
    <3>1. a * w = p
      BY <2>5, <2>6
    <3>2. y + low = x + p /\ low = q
      BY <1>1, <2>3, <2>4, <2>6, <3>1
    <3>3. p \in Int /\ q \in Nat
      BY <1>3, <2>5, <2>6, <3>2
    <3>4. p + x = q + y
      BY <2>1, <2>5, <3>2, <3>3
    <3> QED BY <2>6, <3>4 DEF Lies
  <2>7. a = i /\ x = y
    <3>1. a \in Int /\ i \in Int /\ w \in Nat
      BY <2>5
    <3> QED BY <2>1, <2>5, <2>9, <3>1, SameSlot
  <2>8. i >= slots - n /\ k = i - (slots - n) + 1
    BY <2>4, <2>5, <2>7
  <2> QED BY <2>7, <2>8
<1>7. CASE i >= slots - n
  <2>1. PICK k : k = i - (slots - n) + 1
    OBVIOUS
  <2>2. k \in 1 .. n /\ slots - n + k - 1 = i
    BY <1>7, <2>1
  <2>3. ASSUME NEW y \in Bits(entries[k]) PROVE y \in X
    <3>1. y \in Nat /\ y < w
      BY <1>5, <2>2
    <3>2. y + i * w \in Shift(Bits(entries[k]), (slots - n + k - 1) * w)
      BY <2>2 DEF Shift
    <3>3. y + i * w \in field
      BY <1>1, <2>2, <3>2 DEF InSlots
    <3>4. i * w = low
      BY <1>1
    <3> QED BY <1>4, <3>1, <3>3, <3>4
  <2>4. X = Bits(entries[k])
    BY <1>6, <2>1, <2>3
  <2>5. Number(X) = entries[k]
    BY <2>2, <2>4, NumberOfBits
  <2> QED BY <1>1, <1>7, <2>1, <2>5 DEF Slot
<1>8. CASE ~(i >= slots - n)
  <2>1. X = {}
    BY <1>6, <1>8
  <2>2. Number(X) = 0
    BY <2>1, NumberEmpty
  <2> QED BY <1>1, <1>8, <2>2 DEF Slot
<1> QED BY <1>7, <1>8

\* In slots of one bit, the slot is in the field or not.
LEMMA BitSlotIs ==
    ASSUME NEW flags, NEW slots \in Nat, NEW n \in Nat, n <= slots,
           NEW entries, entries = [k \in 1 .. n |-> IF flags[k] THEN 1 ELSE 0],
           NEW k \in 1 .. n
    PROVE  (slots - n + k - 1 \in InSlots(entries, slots, 1)) <=> flags[k]
<1>1. Bits(0) = {} /\ Bits(1) = {0}
  <2>1. Bits(0) = {}
    <3>1. 0 \in Nat
      OBVIOUS
    <3>2. {} \in SUBSET Nat /\ IsFiniteSet({})
      BY FS_EmptySet
    <3>3. Bits(Number({})) = {}
      BY <3>2, BitsOfNumber
    <3> QED BY <3>3, NumberEmpty
  <2>2. Bits(2 * 0 + 1) = Shift(Bits(0), 1) \cup {i \in {0} : 1 = 1}
    BY BitsDouble
  <2>3. Bits(1) = Shift({}, 1) \cup {0}
    <3>1. 2 * 0 + 1 = 1 /\ {i \in {0} : 1 = 1} = {0}
      OBVIOUS
    <3> QED BY <2>1, <2>2, <3>1
  <2> QED BY <2>1, <2>3 DEF Shift
<1>2. DOMAIN entries = 1 .. n /\ Len(entries) = n
  OBVIOUS
<1>3. ASSUME NEW j \in 1 .. n
      PROVE  Shift(Bits(entries[j]), (slots - n + j - 1) * 1) =
                 IF flags[j] THEN {slots - n + j - 1} ELSE {}
  <2>1. PICK a : a = slots - n + j - 1
    OBVIOUS
  <2>2. a \in Nat /\ a * 1 = a /\ 0 + a = a
    BY <2>1
  <2>3. CASE flags[j]
    <3>1. Bits(entries[j]) = {0}
      BY <1>1, <2>3
    <3>2. Shift({0}, a) = {a}
      BY <2>2 DEF Shift
    <3> QED BY <2>1, <2>2, <2>3, <3>1, <3>2
  <2>4. CASE ~flags[j]
    <3>1. Bits(entries[j]) = {}
      BY <1>1, <2>4
    <3>2. Shift({}, a) = {}
      BY DEF Shift
    <3> QED BY <2>1, <2>2, <2>4, <3>1, <3>2
  <2> QED BY <2>3, <2>4
<1>4. InSlots(entries, slots, 1) =
        UNION {Shift(Bits(entries[j]), (slots - n + j - 1) * 1) : j \in 1 .. n}
  BY <1>2 DEF InSlots
<1>5. ASSUME slots - n + k - 1 \in InSlots(entries, slots, 1) PROVE flags[k]
  <2>1. PICK j \in 1 .. n : slots - n + k - 1 \in Shift(Bits(entries[j]), (slots - n + j - 1) * 1)
    BY <1>4, <1>5
  <2>2. flags[j] /\ slots - n + k - 1 = slots - n + j - 1
    BY <1>3, <2>1
  <2>3. j = k
    BY <2>2
  <2> QED BY <2>2, <2>3
<1>6. ASSUME flags[k] PROVE slots - n + k - 1 \in InSlots(entries, slots, 1)
  <2>1. slots - n + k - 1 \in Shift(Bits(entries[k]), (slots - n + k - 1) * 1)
    BY <1>3, <1>6
  <2> QED BY <1>4, <2>1
<1> QED BY <1>5, <1>6

-----------------------------------------------------------------------------
(* The meaning of the fields.                                              *)

\* The conditions the simulator checks.
Checked(ins) == {[channel |-> ins.channels[k], tag |-> ins.tags[k],
                  is |-> ins.booleans[k]] : k \in DOMAIN ins.channels}

\* The hardware checks the conditions of the trigger: an entry's index is moved
\* up by one, which leaves zero for an empty slot.
LEMMA ConditionsRead ==
    ASSUME NEW ps, \A key \in Numbers : ps[key] \in Nat,
           NEW ins, Parsed(ins), Len(ins.channels) <= ps.max_num_input_channels_to_check,
           \A k \in DOMAIN ins.channels : ins.channels[k] < ps.num_input_channels,
           \A k \in DOMAIN ins.tags : ins.tags[k] < ps.num_tags,
           NEW f, f.ici = build_ici(ps, ins), f.ictb = build_ictb(ps, ins),
           f.ictv = build_ictv(ps, ins)
    PROVE  Conditions(ps, f) = Checked(ins)
<1>1. PICK slots, w, tag, nic : /\ slots = ps.max_num_input_channels_to_check
                                /\ w = SingleIciWidth(ps) /\ tag = TagWidth(ps)
                                /\ nic = ps.num_input_channels
  OBVIOUS
<1>2. slots \in Nat /\ nic \in Nat
  BY <1>1 DEF Numbers
<1>3. /\ w \in Nat /\ nic + 1 <= Pow(w) /\ Pow(w) \in Nat
      /\ tag \in Nat /\ ps.num_tags <= Pow(tag) /\ Pow(tag) \in Nat /\ ps.num_tags \in Nat
  BY <1>1, SlotWidths, PowType DEF Numbers
<1>4. PICK n \in Nat : /\ DOMAIN ins.channels = 1 .. n /\ Len(ins.channels) = n
                       /\ DOMAIN ins.booleans = 1 .. n /\ Len(ins.booleans) = n
                       /\ DOMAIN ins.tags = 1 .. n /\ Len(ins.tags) = n
  BY DEF Parsed
<1>5. n <= slots
  BY <1>1, <1>4
<1>6. ASSUME NEW k \in 1 .. n
      PROVE  /\ ins.channels[k] \in Nat /\ ins.channels[k] + 1 < Pow(w)
             /\ ins.tags[k] \in Nat /\ ins.tags[k] < Pow(tag)
  <2>1. ins.channels[k] \in Nat /\ ins.channels[k] < nic /\ ins.tags[k] \in Nat
    BY <1>1, <1>4 DEF Parsed
  <2>2. ins.tags[k] < ps.num_tags
    BY <1>4
  <2>3. ins.channels[k] + 1 < Pow(w)
    BY <1>2, <1>3, <2>1
  <2>4. ins.tags[k] < Pow(tag)
    BY <1>3, <2>1, <2>2
  <2> QED BY <2>1, <2>3, <2>4
<1>7. ASSUME NEW i \in 0 .. slots - 1
      PROVE  /\ Slot(f.ici, i, w) = IF i >= slots - n THEN ins.channels[i - (slots - n) + 1] + 1 ELSE 0
             /\ Slot(f.ictv, i, tag) = IF i >= slots - n THEN ins.tags[i - (slots - n) + 1] ELSE 0
  <2>1. PICK entries : entries = [k \in 1 .. n |-> ins.channels[k] + 1]
    OBVIOUS
  <2>2. /\ DOMAIN entries = 1 .. n /\ Len(entries) = n
        /\ \A k \in 1 .. n : entries[k] \in Nat /\ entries[k] < Pow(w)
    BY <1>6, <2>1
  <2>3. f.ici = InSlots(entries, slots, w)
    BY <1>1, <1>4, <2>1 DEF build_ici
  <2>4. Slot(f.ici, i, w) = IF i >= slots - n THEN entries[i - (slots - n) + 1] ELSE 0
    <3>1. n \in Nat /\ slots \in Nat /\ w \in Nat /\ n <= slots
      BY <1>2, <1>3, <1>4, <1>5
    <3>2. Slot(InSlots(entries, slots, w), i, w) =
              IF i >= slots - n THEN entries[i - (slots - n) + 1] ELSE 0
      BY <2>2, <3>1, SlotIs
    <3> QED BY <2>3, <3>2
  <2>5. i >= slots - n => i - (slots - n) + 1 \in 1 .. n
    BY <1>2, <1>5
  <2>6. \A k \in 1 .. n : ins.tags[k] \in Nat /\ ins.tags[k] < Pow(tag)
    BY <1>6
  <2>7. f.ictv = InSlots(ins.tags, slots, tag)
    BY <1>1 DEF build_ictv
  <2>8. Slot(f.ictv, i, tag) = IF i >= slots - n THEN ins.tags[i - (slots - n) + 1] ELSE 0
    <3>1. n \in Nat /\ slots \in Nat /\ tag \in Nat /\ n <= slots
      BY <1>2, <1>3, <1>4, <1>5
    <3>2. PICK tags : tags = ins.tags
      OBVIOUS
    <3>3. /\ DOMAIN tags = 1 .. n /\ Len(tags) = n
          /\ \A k \in 1 .. n : tags[k] \in Nat /\ tags[k] < Pow(tag)
      BY <1>4, <2>6, <3>2
    <3>4. Slot(InSlots(tags, slots, tag), i, tag) =
              IF i >= slots - n THEN tags[i - (slots - n) + 1] ELSE 0
      BY <3>1, <3>3, SlotIs
    <3> QED BY <2>7, <3>2, <3>4
  <2> QED BY <2>1, <2>4, <2>5, <2>8
<1>8. ASSUME NEW k \in 1 .. n PROVE (slots - n + k - 1 \in f.ictb) <=> ins.booleans[k]
  <2>1. PICK entries : entries = [j \in 1 .. n |-> IF ins.booleans[j] THEN 1 ELSE 0]
    OBVIOUS
  <2>2. f.ictb = InSlots(entries, slots, 1)
    BY <1>1, <1>4, <2>1 DEF build_ictb
  <2>3. PICK flags : flags = ins.booleans
    OBVIOUS
  <2>4. (slots - n + k - 1 \in InSlots(entries, slots, 1)) <=> flags[k]
    <3>1. n \in Nat /\ slots \in Nat /\ n <= slots
      BY <1>2, <1>4, <1>5
    <3>2. entries = [j \in 1 .. n |-> IF flags[j] THEN 1 ELSE 0]
      BY <2>1, <2>3
    <3> QED BY <3>1, <3>2, BitSlotIs
  <2> QED BY <2>2, <2>3, <2>4
<1>9. PICK used : used = {j \in 0 .. slots - 1 : Slot(f.ici, j, w) # 0}
  OBVIOUS
<1>10. Conditions(ps, f) = {[channel |-> Slot(f.ici, i, w) - 1, tag |-> Slot(f.ictv, i, tag),
                             is |-> i \in f.ictb] : i \in used}
  BY <1>1, <1>9 DEF Conditions, SingleIciWidth, TagWidth
<1>11. ASSUME NEW k \in 1 .. n, NEW i, i = slots - n + k - 1
       PROVE  /\ i \in used /\ Slot(f.ici, i, w) - 1 = ins.channels[k]
              /\ Slot(f.ictv, i, tag) = ins.tags[k] /\ (i \in f.ictb) = ins.booleans[k]
  <2>1. i \in 0 .. slots - 1 /\ i >= slots - n /\ i - (slots - n) + 1 = k
    BY <1>2, <1>5, <1>11
  <2>2. Slot(f.ici, i, w) = ins.channels[k] + 1 /\ Slot(f.ictv, i, tag) = ins.tags[k]
    BY <1>7, <2>1
  <2>3. (i \in f.ictb) <=> ins.booleans[k]
    BY <1>8, <1>11
  <2>4. ins.booleans[k] \in BOOLEAN
    BY <1>4 DEF Parsed
  <2>5. (i \in f.ictb) = ins.booleans[k]
    BY <2>3, <2>4
  <2>6. Slot(f.ici, i, w) - 1 = ins.channels[k] /\ Slot(f.ici, i, w) # 0
    <3>1. PICK c : c = ins.channels[k]
      OBVIOUS
    <3>2. c \in Nat /\ Slot(f.ici, i, w) = c + 1
      BY <1>6, <2>2, <3>1
    <3> QED BY <3>1, <3>2
  <2>7. i \in used
    BY <1>9, <2>1, <2>6
  <2> QED BY <2>2, <2>5, <2>6, <2>7
<1>12. ASSUME NEW i \in used PROVE \E k \in 1 .. n : i = slots - n + k - 1
  <2>1. i \in 0 .. slots - 1 /\ i >= slots - n
    BY <1>7, <1>9
  <2>2. i - (slots - n) + 1 \in 1 .. n /\ i = slots - n + (i - (slots - n) + 1) - 1
    BY <1>2, <1>5, <2>1
  <2> QED BY <2>2
<1>13. PICK rec : rec = [k \in 1 .. n |-> [channel |-> ins.channels[k], tag |-> ins.tags[k],
                                          is |-> ins.booleans[k]]]
  OBVIOUS
<1>14. ASSUME NEW k \in 1 .. n, NEW i, i = slots - n + k - 1
       PROVE  [channel |-> Slot(f.ici, i, w) - 1, tag |-> Slot(f.ictv, i, tag),
               is |-> i \in f.ictb] = rec[k]
  BY <1>11, <1>13, <1>14
<1>15. ASSUME NEW x \in Conditions(ps, f) PROVE x \in {rec[k] : k \in 1 .. n}
  <2>1. PICK i \in used : x = [channel |-> Slot(f.ici, i, w) - 1, tag |-> Slot(f.ictv, i, tag),
                               is |-> i \in f.ictb]
    BY <1>10
  <2> QED BY <1>12, <1>14, <2>1
<1>16. ASSUME NEW k \in 1 .. n PROVE rec[k] \in Conditions(ps, f)
  <2>1. PICK i : i = slots - n + k - 1
    OBVIOUS
  <2>2. i \in used
    BY <1>11, <2>1
  <2>3. [channel |-> Slot(f.ici, i, w) - 1, tag |-> Slot(f.ictv, i, tag), is |-> i \in f.ictb]
            \in Conditions(ps, f)
    BY <1>10, <2>2
  <2>4. [channel |-> Slot(f.ici, i, w) - 1, tag |-> Slot(f.ictv, i, tag),
         is |-> i \in f.ictb] = rec[k]
    BY <1>14, <2>1
  <2> QED BY <2>3, <2>4
<1>17. Conditions(ps, f) = {rec[k] : k \in 1 .. n}
  BY <1>15, <1>16
<1>18. {rec[k] : k \in 1 .. n} = Checked(ins)
  BY <1>4, <1>13 DEF Checked
<1> QED BY <1>17, <1>18

\* One of the three entries of a field without an empty slot.
LEMMA SlotOfThree ==
    ASSUME NEW entries, NEW w \in Nat, DOMAIN entries = 1 .. 3, Len(entries) = 3,
           \A k \in 1 .. 3 : entries[k] \in Nat /\ entries[k] < Pow(w),
           NEW j \in 1 .. 3, NEW i, i = j - 1
    PROVE  Slot(InSlots(entries, 3, w), i, w) = entries[j]
<1>1. 3 \in Nat /\ 3 <= 3 /\ i \in 0 .. 3 - 1 /\ i >= 3 - 3 /\ i - (3 - 3) + 1 = j
  OBVIOUS
<1>2. PICK slots, n : slots = 3 /\ n = 3
  OBVIOUS
<1>3. /\ slots \in Nat /\ n \in Nat /\ n <= slots /\ i \in 0 .. slots - 1
      /\ i >= slots - n /\ i - (slots - n) + 1 = j
  BY <1>1, <1>2
<1>4. /\ DOMAIN entries = 1 .. n /\ Len(entries) = n
      /\ \A k \in 1 .. n : entries[k] \in Nat /\ entries[k] < Pow(w)
  BY <1>2
<1>5. Slot(InSlots(entries, slots, w), i, w) =
         IF i >= slots - n THEN entries[i - (slots - n) + 1] ELSE 0
  BY <1>3, <1>4, SlotIs
<1> QED BY <1>2, <1>3, <1>5

\* The sources an instruction names, field by field.
LEMMA SourcesRead ==
    ASSUME \A key \in Numbers : cp[key] \in Nat,
           NEW ins, Parsed(ins),
           \A j \in 1 .. 3 : \/ ins.indices[j] < cp.num_registers
                             \/ ins.indices[j] < cp.num_input_channels,
           NEW f, f.st = build_st(cp, ins), f.si = build_si(cp, ins),
           NEW j \in 1 .. 3
    PROVE  HardwareSource(f, j) = SimulatorSource(ins, j)
<1>1. PICK w, t, i : w = SingleSiWidth(cp) /\ t = SingleStWidth /\ i = j - 1
  OBVIOUS
<1>2. /\ w \in Nat /\ cp.num_registers <= Pow(w) /\ cp.num_input_channels <= Pow(w)
      /\ t \in Nat /\ 4 <= Pow(t) /\ Pow(w) \in Nat /\ Pow(t) \in Nat
      /\ cp.num_registers \in Nat /\ cp.num_input_channels \in Nat
  BY <1>1, SlotWidths, PowType DEF Numbers
<1>3. i \in 0 .. 3 - 1 /\ i - (3 - 3) + 1 = j /\ i >= 3 - 3 /\ 3 <= 3
  BY <1>1
<1>4. Slot(f.si, i, w) = ins.indices[j]
  <2>1. /\ DOMAIN ins.indices = 1 .. 3 /\ Len(ins.indices) = 3
        /\ \A k \in 1 .. 3 : ins.indices[k] \in Nat /\ ins.indices[k] < Pow(w)
    <3>1. ASSUME NEW k \in 1 .. 3 PROVE ins.indices[k] \in Nat /\ ins.indices[k] < Pow(w)
      <4>1. ins.indices[k] \in Nat
        BY DEF Parsed
      <4> QED BY <1>2, <4>1
    <3> QED BY <3>1 DEF Parsed
  <2>2. f.si = InSlots(ins.indices, 3, w)
    BY <1>1 DEF build_si
  <2>3. Slot(InSlots(ins.indices, 3, w), i, w) = ins.indices[j]
    BY <1>1, <1>2, <2>1, SlotOfThree
  <2> QED BY <2>2, <2>3
<1>5. Slot(f.st, i, t) = Code(SourceTypes, ins.types[j])
  <2>1. PICK entries : entries = [k \in 1 .. 3 |-> Code(SourceTypes, ins.types[k])]
    OBVIOUS
  <2>2. /\ DOMAIN entries = 1 .. 3 /\ Len(entries) = 3
        /\ \A k \in 1 .. 3 : entries[k] \in Nat /\ entries[k] < Pow(t)
    <3>1. ASSUME NEW k \in 1 .. 3 PROVE entries[k] \in 0 .. 3
      <4>1. ins.types[k] \in {"null", "immediate", "channel", "register"}
        BY DEF Parsed
      <4> QED BY <2>1, <4>1, SourceCode
    <3> QED BY <1>2, <2>1, <3>1
  <2>3. f.st = InSlots(entries, 3, t)
    BY <1>1, <2>1 DEF build_st
  <2>4. Slot(InSlots(entries, 3, t), i, t) = entries[j]
    BY <1>1, <1>2, <2>2, SlotOfThree
  <2> QED BY <2>1, <2>3, <2>4
<1>6. SourceTypes[1 + Code(SourceTypes, ins.types[j])] = ins.types[j]
  BY SourceCode DEF Parsed
<1> QED BY <1>1, <1>4, <1>5, <1>6 DEF HardwareSource, SimulatorSource

-----------------------------------------------------------------------------
(* The immediate.                                                          *)

\* Cutting twice.
LEMMA RemainderTwice ==
    ASSUME NEW v \in Int, NEW d \in Nat, NEW w \in Nat, d <= w
    PROVE  (v % Pow(w)) % Pow(d) = v % Pow(d)
<1>1. PICK e : e = w - d
  OBVIOUS
<1>2. e \in Nat /\ w = d + e
  BY <1>1
<1>3. PICK a, b, q, m, k, r : /\ a = Pow(d) /\ b = Pow(e) /\ q = v \div Pow(w) /\ m = v % Pow(w)
                              /\ k = m \div a /\ r = m % a
  OBVIOUS
<1>4. a \in Nat /\ a > 0 /\ b \in Nat /\ Pow(w) = a * b /\ Pow(w) \in Nat /\ Pow(w) > 0
  <2>1. Pow(w) = Pow(d) * Pow(e)
    BY <1>2, PowAdd
  <2>2. /\ Pow(d) \in Nat /\ d < Pow(d) /\ Pow(e) \in Nat
        /\ Pow(w) \in Nat /\ w < Pow(w)
    BY <1>2, PowType
  <2> QED BY <1>3, <2>1, <2>2
<1>5. q \in Int /\ m \in Int /\ v = Pow(w) * q + m
  <2>1. PICK c : c = Pow(w)
    OBVIOUS
  <2>2. c \in Nat /\ c > 0
    BY <1>4, <2>1
  <2>3. v \div c \in Int /\ v % c \in 0 .. c - 1 /\ v = c * (v \div c) + (v % c)
    BY <2>2, Division
  <2> QED BY <1>3, <2>1, <2>3
<1>6. k \in Int /\ r \in 0 .. a - 1 /\ m = a * k + r
  BY <1>3, <1>4, <1>5, Division
<1>7. PICK p : p = b * q + k
  OBVIOUS
<1>8. p \in Int
  BY <1>4, <1>5, <1>6, <1>7
<1>9. v = a * p + r
  <2>1. (a * b) * q = a * (b * q)
    BY <1>4, <1>5
  <2>2. PICK z : z = b * q
    OBVIOUS
  <2>3. z \in Int /\ p = z + k
    BY <1>4, <1>5, <1>7, <2>2
  <2>4. a * p = a * z + a * k
    BY <1>4, <1>6, <2>3
  <2>5. PICK y, u : y = a * z /\ u = a * k
    OBVIOUS
  <2>6. y \in Int /\ u \in Int
    BY <1>4, <1>6, <2>3, <2>5
  <2>7. v = y + m /\ m = u + r /\ a * p = y + u
    BY <1>4, <1>5, <1>6, <2>1, <2>2, <2>4, <2>5
  <2> QED BY <1>6, <2>6, <2>7
<1>10. v % a = r
  BY <1>4, <1>6, <1>8, <1>9, Quotient
<1> QED BY <1>3, <1>10

\* The range of a word is a power of two, larger than the word's width.
LEMMA WordSize == WordWidth \in Nat \ {0} /\ Modulus = Pow(WordWidth)
                  /\ Modulus \in Nat /\ Modulus > WordWidth
<1>1. WordWidth \in Nat \ {0} /\ Modulus = Pow(WordWidth)
  BY WordWidthAssumption DEF Modulus, Pow
<1> QED BY <1>1, PowType

\* Whatever the undriven bit of a narrow immediate reads as, the source fetching
\* unit takes the value that the simulator works with.
LEMMA ImmediateRead ==
    ASSUME \A key \in Numbers : cp[key] \in Nat, cp.device_word_width = WordWidth,
           NEW ins, NEW v \in Int, ins.immediate = <<v>>,
           BitLength(Magnitude(v)) <= cp.immediate_width,
           v >= 0 \/ cp.immediate_width >= cp.device_word_width,
           NEW x \in Extensions(cp, build_immediate(cp, ins))
    PROVE  Number(Fetched(x)) = SimulatorImmediate(ins)
<1>1. PICK w, d, m : w = cp.immediate_width /\ d = WordWidth /\ m = v % Pow(w)
  OBVIOUS
<1>2. w \in Nat /\ d \in Nat /\ Pow(w) \in Nat /\ Pow(w) > 0 /\ Modulus = Pow(d)
  BY <1>1, WordSize, PowType DEF Numbers
<1>3. m \in Nat /\ m < Pow(w)
  BY <1>1, <1>2, Division
<1>4. ins.immediate # <<>> /\ ins.immediate[1] = v
  OBVIOUS
<1>5. build_immediate(cp, ins) = Bits(m) /\ Fits(Bits(m), w) /\ Bits(m) \in SUBSET Nat
  <2>1. build_immediate(cp, ins) = Low(Bits(m), w)
    BY <1>1, <1>4 DEF build_immediate, Pow
  <2>2. m \in Int
    BY <1>3
  <2> QED BY <1>2, <1>3, <2>1, <2>2, BitsBelow, BitsType
<1>6. SimulatorImmediate(ins) = v % Pow(d)
  BY <1>2, <1>4 DEF SimulatorImmediate, Wrap
<1>7. CASE w < d
  <2>1. v \in Nat /\ v < Pow(w) /\ v < Pow(d)
    <3>1. v \in Nat /\ Magnitude(v) = v
      <4>1. v >= 0
        BY <1>1, <1>2, <1>7
      <4> QED BY <4>1 DEF Magnitude
    <3>2. BitLength(v) \in Nat /\ v < Pow(BitLength(v)) /\ BitLength(v) <= w
      BY <1>1, <3>1, BitLengthType
    <3>3. Pow(BitLength(v)) <= Pow(w) /\ Pow(w) <= Pow(d) /\ Pow(BitLength(v)) \in Nat
          /\ Pow(d) \in Nat
      BY <1>2, <1>7, <3>2, PowMonotone, PowType
    <3> QED BY <1>2, <3>1, <3>2, <3>3
  <2>2. m = v /\ v % Pow(d) = v
    <3>1. Pow(d) \in Nat /\ Pow(d) > 0
      BY <1>2, PowType
    <3> QED BY <1>1, <1>2, <2>1, <3>1, QuotientSmaller
  <2>3. PICK more : x = Bits(m) \cup more /\ more \subseteq w .. d - 1
    <3>1. \E sign \in BOOLEAN : x = Bits(m) \cup (IF sign THEN w .. d - 1 ELSE {})
      BY <1>1, <1>5, <1>7 DEF Extensions
    <3> QED BY <3>1
  <2>4. Fetched(x) = Bits(m)
    <3>1. \A i \in more : ~(i < w)
      BY <1>2, <2>3
    <3>2. Fetched(x) = {i \in x : i < w}
      BY <1>1 DEF Fetched, Low
    <3> QED BY <1>5, <2>3, <3>1, <3>2 DEF Fits
  <2> QED BY <1>3, <1>6, <2>2, <2>4, NumberOfBits
<1>8. CASE ~(w < d)
  <2>1. x = Low(Bits(m), d)
    BY <1>1, <1>5, <1>8 DEF Extensions
  <2>2. Fetched(x) = Low(Bits(m), d)
    <3>1. Fetched(x) = {i \in {j \in Bits(m) : j < d} : i < w}
      BY <1>1, <2>1 DEF Fetched, Low
    <3>2. \A i \in Bits(m) : i < d => i < w
      BY <1>2, <1>5, <1>8
    <3> QED BY <3>1, <3>2 DEF Low
  <2>3. PICK r : r = m % Pow(d)
    OBVIOUS
  <2>4. r \in Nat /\ Bits(r) = Fetched(x)
    BY <1>2, <1>3, <2>2, <2>3, BitsOfRemainder
  <2>5. Number(Fetched(x)) = r
    BY <2>4, NumberOfBits
  <2>6. d <= w
    BY <1>2, <1>8
  <2>7. r = v % Pow(d)
    BY <1>1, <1>2, <2>3, <2>6, RemainderTwice
  <2> QED BY <1>6, <2>5, <2>7
<1> QED BY <1>7, <1>8

\* The instruction memory returns some word for every immediate.
LEMMA ExtensionsExist ==
    ASSUME NEW ps, NEW immediate PROVE \E x : x \in Extensions(ps, immediate)
<1>1. CASE ps.immediate_width < ps.device_word_width
  BY <1>1 DEF Extensions
<1>2. CASE ~(ps.immediate_width < ps.device_word_width)
  BY <1>2 DEF Extensions
<1> QED BY <1>1, <1>2

\* What the hardware takes the fields of an instruction to mean is what the
\* simulator takes the instruction to mean.
LEMMA MeaningRead ==
    ASSUME \A key \in Numbers : cp[key] \in Nat, cp.device_word_width = WordWidth,
           NEW ins, Parsed(ins), Encodable(cp, ins), WithinArchitecture(ins),
           NEW f, \A name \in FieldNames \cup {"immediate"} : f[name] = Fields(cp, ins)[name]
    PROVE  HardwareMeaning(f) = Meaning(ins)
<1>1. /\ f.ptm = build_ptm(cp, ins) /\ f.ici = build_ici(cp, ins)
      /\ f.ictb = build_ictb(cp, ins) /\ f.ictv = build_ictv(cp, ins)
      /\ f.op = build_op(cp, ins) /\ f.st = build_st(cp, ins)
      /\ f.si = build_si(cp, ins) /\ f.dt = build_dt(cp, ins)
      /\ f.di = build_di(cp, ins) /\ f.oci = build_oci(cp, ins)
      /\ f.oct = build_oct(cp, ins) /\ f.icd = build_icd(cp, ins)
      /\ f.pum = build_pum(cp, ins) /\ f.immediate = build_immediate(cp, ins)
  BY DEF FieldNames, Fields
<1>2. /\ cp.num_predicates \in Nat /\ cp.num_input_channels \in Nat
      /\ cp.num_output_channels \in Nat /\ cp.num_registers \in Nat
  BY DEF Numbers
<1>3. PICK set, unset : /\ set = {u[1] : u \in {v \in ins.updates : v[2]}}
                        /\ unset = {u[1] : u \in {v \in ins.updates : ~v[2]}}
  OBVIOUS
<1>4. Trues(cp, f.ptm) = ins.on /\ Falses(cp, f.ptm) = ins.off
  <2>1. PICK on, off : on = ins.on /\ off = ins.off
    OBVIOUS
  <2>2. on \in SUBSET Nat /\ off \in SUBSET Nat
    BY <2>1 DEF Parsed
  <2>3. Fits(off, cp.num_predicates)
    BY <2>1 DEF Encodable, PredicatesFit, Fits
  <2>4. f.ptm = Concat(on, cp.num_predicates, off)
    BY <1>1, <2>1 DEF build_ptm, Concat
  <2>5. Trues(cp, f.ptm) = on /\ Falses(cp, f.ptm) = off
    BY <1>2, <2>2, <2>3, <2>4, MaskRead
  <2> QED BY <2>1, <2>5
<1>5. Trues(cp, f.pum) = set /\ Falses(cp, f.pum) = unset
  <2>1. ASSUME NEW p \in set \cup unset PROVE p \in {u[1] : u \in ins.updates}
    BY <1>3
  <2>2. set \in SUBSET Nat /\ unset \in SUBSET Nat
    BY <2>1 DEF Parsed
  <2>3. Fits(unset, cp.num_predicates)
    BY <2>1 DEF Encodable, PredicatesFit, Fits
  <2>4. f.pum = Concat(set, cp.num_predicates, unset)
    BY <1>1, <1>3 DEF build_pum, Concat
  <2> QED BY <1>2, <2>2, <2>3, <2>4, MaskRead
<1>6. Conditions(cp, f) = Checked(ins)
  <2>1. Len(ins.channels) <= cp.max_num_input_channels_to_check
    BY DEF Encodable
  <2>2. /\ \A k \in DOMAIN ins.channels : ins.channels[k] < cp.num_input_channels
        /\ \A k \in DOMAIN ins.tags : ins.tags[k] < cp.num_tags
    BY DEF WithinArchitecture
  <2>3. f.ici = build_ici(cp, ins) /\ f.ictb = build_ictb(cp, ins) /\ f.ictv = build_ictv(cp, ins)
    BY <1>1
  <2> QED BY <2>1, <2>2, <2>3, ConditionsRead
<1>7. HardwareOp(f) = ins.op
  <2>1. Code(Ops, ins.op) \in Nat /\ Ops[1 + Code(Ops, ins.op)] = ins.op
    BY OpCode DEF Parsed
  <2>2. Number(f.op) = Code(Ops, ins.op)
    BY <1>1, <2>1, NumberOfBits DEF build_op
  <2> QED BY <2>1, <2>2 DEF HardwareOp
<1>8. ASSUME NEW j \in 1 .. 3 PROVE HardwareSource(f, j) = SimulatorSource(ins, j)
  <2>1. \A i \in 1 .. 3 : \/ ins.indices[i] < cp.num_registers
                          \/ ins.indices[i] < cp.num_input_channels
    BY DEF WithinArchitecture
  <2>2. f.st = build_st(cp, ins) /\ f.si = build_si(cp, ins)
    BY <1>1
  <2> QED BY <2>1, <2>2, SourcesRead
<1>9. DestinationTypes[1 + Number(f.dt)] = ins.dt
  <2>1. /\ Code(DestinationTypes, ins.dt) \in 0 .. 3
        /\ DestinationTypes[1 + Code(DestinationTypes, ins.dt)] = ins.dt
    BY DestinationCode DEF Parsed
  <2>2. Number(f.dt) = Code(DestinationTypes, ins.dt)
    BY <1>1, <2>1, NumberOfBits DEF build_dt
  <2> QED BY <2>1, <2>2
<1>10. /\ Number(f.di) = (IF ins.di = None THEN 0 ELSE ins.di)
       /\ Number(f.oct) = (IF ins.oct = None THEN 0 ELSE ins.oct)
  <2>1. /\ (IF ins.di = None THEN 0 ELSE ins.di) \in Nat
        /\ (IF ins.oct = None THEN 0 ELSE ins.oct) \in Nat
    BY DEF Parsed
  <2> QED BY <1>1, <2>1, NumberOfBits DEF build_di, build_oct
<1>11. f.oci = ins.outputs /\ f.icd = ins.dequeues
  BY <1>1 DEF build_oci, build_icd, WithinArchitecture
<1>12. {Number(Fetched(x)) : x \in
           {y \in Extensions(cp, f.immediate) :
               \E j \in 1 .. 3 : HardwareSource(f, j).type = "immediate"}}
         = {v \in {SimulatorImmediate(ins)} : ins.immediate # <<>>}
  <2>1. (\E j \in 1 .. 3 : HardwareSource(f, j).type = "immediate")
            <=> \E j \in 1 .. 3 : ins.types[j] = "immediate"
    BY <1>8 DEF SimulatorSource
  <2>2. CASE ins.immediate = <<>>
    <3>1. \A j \in 1 .. 3 : ins.types[j] # "immediate"
      <4>1. \A v : ins.immediate # <<v>>
        BY <2>2
      <4> QED BY <4>1 DEF Parsed
    <3> QED BY <2>1, <2>2, <3>1
  <2>3. CASE ins.immediate # <<>>
    <3>1. PICK v \in Int : ins.immediate = <<v>>
      BY <2>3 DEF Parsed
    <3>2. \E j \in 1 .. 3 : ins.types[j] = "immediate"
      BY <2>3 DEF Parsed
    <3>3. ins.immediate[1] = v
      BY <3>1
    <3>4. /\ BitLength(Magnitude(v)) <= cp.immediate_width
          /\ v >= 0 \/ cp.immediate_width >= cp.device_word_width
      BY <2>3, <3>3 DEF Encodable, WithinArchitecture
    <3>5. ASSUME NEW x \in Extensions(cp, f.immediate)
          PROVE  Number(Fetched(x)) = SimulatorImmediate(ins)
      BY <1>1, <3>1, <3>4, ImmediateRead
    <3>6. PICK x : x \in Extensions(cp, f.immediate)
      BY ExtensionsExist
    <3>7. {y \in Extensions(cp, f.immediate) :
               \E j \in 1 .. 3 : HardwareSource(f, j).type = "immediate"}
            = Extensions(cp, f.immediate)
      BY <2>1, <3>2
    <3>8. {v_ \in {SimulatorImmediate(ins)} : ins.immediate # <<>>} = {SimulatorImmediate(ins)}
      BY <2>3
    <3> HIDE <2>3, <3>1
    <3>9. {Number(Fetched(y)) : y \in Extensions(cp, f.immediate)} = {SimulatorImmediate(ins)}
      BY <3>5, <3>6
    <3> QED BY <3>7, <3>8, <3>9
  <2> QED BY <2>2, <2>3
<1>13. [j \in 1 .. 3 |-> HardwareSource(f, j)] = [j \in 1 .. 3 |-> SimulatorSource(ins, j)]
  BY <1>8
<1> QED BY <1>3, <1>4, <1>5, <1>6, <1>7, <1>9, <1>10, <1>11, <1>12, <1>13
        DEF HardwareMeaning, Meaning, Checked

-----------------------------------------------------------------------------
(* The binary: programs of one length, one after the other.              *)

\* Word x of the concatenation of n sequences of length size.
Spread(seqs, n, size) ==
    [x \in 1 .. n * size |-> seqs[(x - 1) \div size + 1][((x - 1) % size) + 1]]

\* A concatenation, word by word.
LEMMA Joining ==
    ASSUME NEW S, NEW s \in Seq(S), NEW t \in Seq(S)
    PROVE  s \o t = [x \in 1 .. Len(s) + Len(t) |-> IF x <= Len(s) THEN s[x] ELSE t[x - Len(s)]]
<1>1. PICK j : j = s \o t
  OBVIOUS
<1>2. j \in Seq(S) 
  BY <1>1
<1>3. Len(j) = Len(s) + Len(t) /\ Len(j) \in Nat
  BY <1>1
<1>4. \A x \in 1 .. Len(j) : j[x] = IF x <= Len(s) THEN s[x] ELSE t[x - Len(s)]
  BY <1>1, <1>3
<1>5. j = [x \in 1 .. Len(j) |-> j[x]]
  BY <1>2
<1> QED BY <1>1, <1>3, <1>4, <1>5

\* One sequence more.
LEMMA SpreadMore ==
    ASSUME NEW S, NEW size \in Nat, NEW n \in Nat, NEW seqs,
           \A k \in 1 .. n + 1 : seqs[k] \in Seq(S) /\ Len(seqs[k]) = size
    PROVE  /\ Spread(seqs, n + 1, size) = Spread(seqs, n, size) \o seqs[n + 1]
           /\ Spread(seqs, n, size) \in Seq(S) /\ Len(Spread(seqs, n, size)) = n * size
<1>1. PICK long, more : long = n * size /\ more = (n + 1) * size
  OBVIOUS
<1>2. long \in Nat /\ more = long + size
  BY <1>1
<1>3. ASSUME NEW x \in 1 .. more, size > 0
      PROVE  /\ (x - 1) \div size \in 0 .. n /\ (x - 1) % size \in 0 .. size - 1
             /\ x <= long => (x - 1) \div size \in 0 .. n - 1
             /\ x > long => (x - 1) \div size = n /\ (x - 1) % size = x - long - 1
  <2>1. PICK y, q, r : y = x - 1 /\ q = y \div size /\ r = y % size
    OBVIOUS
  <2>2. y \in Nat /\ q \in Int /\ r \in 0 .. size - 1 /\ y = size * q + r
    BY <1>2, <1>3, <2>1, Division
  <2>3. q >= 0
    <3> SUFFICES ASSUME q <= -1 PROVE FALSE
      BY <2>2
    <3>1. size * q <= size * (-1)
      BY <2>2
    <3> QED BY <1>3, <2>2, <3>1
  <2>4. q <= n
    <3> SUFFICES ASSUME q >= n + 1 PROVE FALSE
      BY <2>2
    <3>1. size * q >= size * (n + 1)
      BY <2>2
    <3>2. size * (n + 1) = more
      BY <1>1
    <3> QED BY <1>2, <1>3, <2>1, <2>2, <3>1, <3>2
  <2>5. ASSUME x <= long PROVE q <= n - 1
    <3> SUFFICES ASSUME q >= n PROVE FALSE
      BY <2>2
    <3>1. size * q >= size * n
      BY <2>2
    <3>2. size * n = long
      BY <1>1
    <3> QED BY <1>2, <1>3, <2>1, <2>2, <2>5, <3>1, <3>2
  <2>6. ASSUME x > long PROVE q = n /\ r = x - long - 1
    <3>1. PICK d : d = x - long - 1
      OBVIOUS
    <3>2. d \in 0 .. size - 1 /\ y = long + d
      BY <1>2, <1>3, <2>1, <2>6, <3>1
    <3>3. y = size * n + d
      BY <1>1, <3>2
    <3>5. size \in Nat \ {0} /\ n \in Int
      BY <1>3
    <3>4. y \div size = n /\ y % size = d
      BY <3>2, <3>3, <3>5, Quotient
    <3> QED BY <2>1, <3>1, <3>4
  <2> QED BY <2>1, <2>2, <2>3, <2>4, <2>5, <2>6
<1>4. PICK s, t, u : s = Spread(seqs, n, size) /\ t = seqs[n + 1] /\ u = Spread(seqs, n + 1, size)
  OBVIOUS
<1>5. /\ s = [x \in 1 .. long |-> seqs[(x - 1) \div size + 1][((x - 1) % size) + 1]]
      /\ u = [x \in 1 .. more |-> seqs[(x - 1) \div size + 1][((x - 1) % size) + 1]]
  BY <1>1, <1>4 DEF Spread
<1>6. ASSUME NEW x \in 1 .. long PROVE s[x] \in S /\ s[x] = u[x]
  <2>1. x \in 1 .. more /\ size > 0
    <3>1. size > 0
      <4> SUFFICES ASSUME size = 0 PROVE FALSE
        OBVIOUS
      <4>1. long = 0
        BY <1>1
      <4> QED BY <4>1
    <3> QED BY <1>2, <3>1
  <2>2. PICK k, j : k = (x - 1) \div size + 1 /\ j = ((x - 1) % size) + 1
    OBVIOUS
  <2>3. (x - 1) \div size \in 0 .. n - 1 /\ (x - 1) % size \in 0 .. size - 1
    BY <1>2, <1>3, <2>1
  <2>4. k \in 1 .. n + 1 /\ j \in 1 .. size
    BY <2>2, <2>3
  <2>5. seqs[k][j] \in S
    BY <2>4
  <2> QED BY <1>5, <2>1, <2>2, <2>5
<1>7. s \in Seq(S) /\ Len(s) = long
  <2>1. s = [x \in 1 .. long |-> s[x]]
    BY <1>5
  <2>2. \A x \in 1 .. long : s[x] \in S
    BY <1>6
  <2>3. long \in Nat
    BY <1>2
  <2> QED BY <2>1, <2>2, <2>3
<1>8. t \in Seq(S) /\ Len(t) = size
  BY <1>4
<1>9. s \o t = [x \in 1 .. more |-> IF x <= long THEN s[x] ELSE t[x - long]]
  <2>1. Len(s) + Len(t) = more
    BY <1>2, <1>7, <1>8
  <2>2. s \in Seq(S) /\ t \in Seq(S)
    BY <1>7, <1>8
  <2>3. s \o t = [x \in 1 .. Len(s) + Len(t) |-> IF x <= Len(s) THEN s[x] ELSE t[x - Len(s)]]
    BY <2>2, Joining
  <2> QED BY <1>7, <2>1, <2>3
<1>10. ASSUME NEW x \in 1 .. more PROVE u[x] = IF x <= long THEN s[x] ELSE t[x - long]
  <2>1. CASE x <= long
    BY <1>2, <1>6, <2>1
  <2>2. CASE x > long
    <3>1. size > 0
      BY <1>2, <2>2
    <3>2. (x - 1) \div size = n /\ (x - 1) % size = x - long - 1
      BY <1>3, <2>2, <3>1
    <3>3. (x - long - 1) + 1 = x - long
      BY <1>2
    <3>4. u[x] = seqs[(x - 1) \div size + 1][((x - 1) % size) + 1]
      BY <1>5
    <3>5. u[x] = t[x - long]
      BY <1>4, <3>2, <3>3, <3>4
    <3>6. ~ (x <= long)
      BY <1>2, <2>2
    <3> QED BY <3>5, <3>6
  <2> QED BY <1>2, <2>1, <2>2
<1>11. u = s \o t
  BY <1>5, <1>9, <1>10
<1> QED BY <1>1, <1>4, <1>7, <1>11

\* The concatenation of sequences of one length.
LEMMA Flattened ==
    ASSUME NEW S, NEW size \in Nat, NEW n \in Nat \ {0}, NEW seqs,
           Len(seqs) = n, \A k \in 1 .. n : seqs[k] \in Seq(S) /\ Len(seqs[k]) = size
    PROVE  FlattenSeq(seqs) = Spread(seqs, n, size)
<1> DEFINE Def(g) == g = [i \in 1 .. n |-> IF i = 1 THEN seqs[i] ELSE g[i - 1] \o seqs[i]]
<1>1. FlattenSeq(seqs) = (CHOOSE g : Def(g))[n]
  BY DEF FlattenSeq
<1>2. Spread(seqs, 0, size) = <<>> /\ Spread(seqs, 1, size) = seqs[1]
  <2>1. 1 .. 0 * size = {}
    OBVIOUS
  <2>2. Spread(seqs, 0, size) = <<>>
    BY <2>1 DEF Spread
  <2>3. Spread(seqs, 0 + 1, size) = Spread(seqs, 0, size) \o seqs[0 + 1]
    <3>1. \A k \in 1 .. 0 + 1 : seqs[k] \in Seq(S) /\ Len(seqs[k]) = size
      OBVIOUS
    <3> QED BY <3>1, SpreadMore
  <2> QED BY <2>2, <2>3
<1>3. ASSUME NEW i \in 1 .. n, i # 1
      PROVE  Spread(seqs, i, size) = Spread(seqs, i - 1, size) \o seqs[i]
  <2>1. PICK j : j = i - 1
    OBVIOUS
  <2>2. j \in Nat /\ i = j + 1
    BY <1>3, <2>1
  <2>3. \A k \in 1 .. j + 1 : seqs[k] \in Seq(S) /\ Len(seqs[k]) = size
    BY <2>2
  <2>4. Spread(seqs, j + 1, size) = Spread(seqs, j, size) \o seqs[j + 1]
    BY <2>2, <2>3, SpreadMore
  <2> QED BY <2>1, <2>2, <2>4
<1>4. \E g : Def(g)
  <2>1. PICK h : h = [i \in 1 .. n |-> Spread(seqs, i, size)]
    OBVIOUS
  <2>2. ASSUME NEW i \in 1 .. n
        PROVE  h[i] = IF i = 1 THEN seqs[i] ELSE h[i - 1] \o seqs[i]
    <3>1. CASE i = 1
      BY <1>2, <2>1, <3>1
    <3>2. CASE i # 1
      <4>1. i - 1 \in 1 .. n
        BY <3>2
      <4> QED BY <1>3, <2>1, <3>2, <4>1
    <3> QED BY <3>1, <3>2
  <2>3. h = [i \in 1 .. n |-> IF i = 1 THEN seqs[i] ELSE h[i - 1] \o seqs[i]]
    BY <2>1, <2>2
  <2> QED BY <2>3
<1>5. PICK g : g = CHOOSE h : Def(h)
  OBVIOUS
<1>6. Def(g)
  <2> HIDE DEF Def
  <2> QED BY <1>4, <1>5
<1> DEFINE T == {i \in Nat : i + 1 \in 1 .. n => g[i + 1] = Spread(seqs, i + 1, size)}
<1>7. 0 \in T
  BY <1>2, <1>6
<1>8. ASSUME NEW i \in Nat, i \in T PROVE i + 1 \in T
  <2> SUFFICES ASSUME (i + 1) + 1 \in 1 .. n
               PROVE  g[(i + 1) + 1] = Spread(seqs, (i + 1) + 1, size)
    OBVIOUS
  <2>1. PICK j : j = (i + 1) + 1
    OBVIOUS
  <2>2. j \in 1 .. n /\ j # 1 /\ j - 1 = i + 1 /\ i + 1 \in 1 .. n
    BY <2>1
  <2>3. g[j] = g[j - 1] \o seqs[j]
    BY <1>6, <2>2
  <2>4. g[j - 1] = Spread(seqs, j - 1, size)
    BY <1>8, <2>2
  <2> QED BY <1>3, <2>1, <2>2, <2>3, <2>4
<1>9. Nat \subseteq T
  <2> HIDE DEF T
  <2> QED BY <1>7, <1>8, Induction
<1>10. n - 1 \in Nat /\ (n - 1) + 1 = n
  OBVIOUS
<1>11. g[n] = Spread(seqs, n, size)
  <2>1. n - 1 \in T
    BY <1>9, <1>10
  <2> QED BY <1>10, <2>1
<1> HIDE DEF Def, T
<1> QED BY <1>1, <1>5, <1>11

\* Word j of program k + 1 is a word of the binary.
LEMMA SpreadIndex ==
    ASSUME NEW size \in Nat, NEW n \in Nat, NEW k \in 0 .. n - 1, NEW j \in 0 .. size - 1
    PROVE  size * k + j \in 0 .. n * size - 1
<1>1. PICK x : x = size * k + j
  OBVIOUS
<1>2. x \in Nat /\ x \div size = k /\ x % size = j
  <2>1. size \in Nat \ {0} /\ k \in Nat
    OBVIOUS
  <2> QED BY <1>1, <2>1, WordIndex
<1>3. x + 1 \in 1 .. n * size
  <2>1. size * k + size <= n * size
    <3>1. k + 1 <= n /\ k + 1 \in Nat
      OBVIOUS
    <3>2. size * (k + 1) <= size * n
      BY <3>1
    <3>3. size * (k + 1) = size * k + size /\ size * n = n * size
      OBVIOUS
    <3> QED BY <3>2, <3>3
  <2>2. PICK p, q : p = size * k /\ q = n * size
    OBVIOUS
  <2>3. p \in Nat /\ q \in Nat /\ p + size <= q /\ x = p + j
    BY <1>1, <2>1, <2>2
  <2>4. x + 1 \in 1 .. q
    BY <1>2, <2>3
  <2> QED BY <2>2, <2>4
<1>4. x \in 0 .. n * size - 1
  <2>1. PICK q : q = n * size
    OBVIOUS
  <2> QED BY <1>2, <1>3, <2>1
<1> QED BY <1>1, <1>4

\* And which one it is.
LEMMA SpreadAt ==
    ASSUME NEW size \in Nat, NEW n \in Nat, NEW seqs, NEW k \in 0 .. n - 1, NEW j \in 0 .. size - 1
    PROVE  Spread(seqs, n, size)[size * k + j + 1] = seqs[k + 1][j + 1]
<1>1. PICK x : x = size * k + j
  OBVIOUS
<1>2. x \in Nat /\ x \div size = k /\ x % size = j
  <2>1. size \in Nat \ {0} /\ k \in Nat
    OBVIOUS
  <2> QED BY <1>1, <2>1, WordIndex
<1>3. x + 1 \in 1 .. n * size
  <2>1. PICK most : most = n * size
    OBVIOUS
  <2>2. x \in 0 .. most - 1
    BY <1>1, <2>1, SpreadIndex
  <2>3. most \in Nat
    BY <2>1
  <2> QED BY <1>2, <2>1, <2>2, <2>3
<1>4. (x + 1) - 1 = x
  BY <1>2
<1>5. Spread(seqs, n, size)[x + 1] = seqs[k + 1][j + 1]
  BY <1>2, <1>3, <1>4 DEF Spread
<1> QED BY <1>1, <1>5

-----------------------------------------------------------------------------
(* The words of a program.                                               *)

\* The registers of a program that is parsed hold integers.
LEMMA ProgramRegisters ==
    ASSUME ToolInv, stage \in Understood, NEW n \in DOMAIN programs
    PROVE  /\ DOMAIN programs[n].registers = 1 .. cp.num_registers
           /\ \A r \in 1 .. cp.num_registers : programs[n].registers[r] \in Int
<1>1. /\ n \in DOMAIN source
      /\ programs[n] = FromSource(cp, source[n])
  BY DEF ToolInv, ProgramsParsed
<1>2. PICK input \in Inputs : source = input.source
  BY DEF ToolInv, FromInput
<1>3. PICK inits, values : inits = source[n].inits /\ values = programs[n].registers
  OBVIOUS
<1>4. Listing(inits) /\ \A k \in DOMAIN inits : inits[k].index \in Nat /\ inits[k].data \in Int
  BY <1>1, <1>2, <1>3, InputsAssumption
<1>5. values = RegisterValues(cp, inits)
  BY <1>1, <1>3 DEF FromSource
<1>6. ASSUME NEW r \in 1 .. cp.num_registers PROVE values[r] \in Int
  <2>1. PICK mine : mine = {k \in DOMAIN inits : inits[k].index = r - 1}
    OBVIOUS
  <2>2. values[r] = IF mine = {} THEN 0 ELSE inits[Max(mine)].data
    BY <1>5, <2>1 DEF RegisterValues
  <2>3. CASE mine # {}
    <3>1. mine \in SUBSET Nat /\ mine \subseteq DOMAIN inits
      BY <1>4, <2>1 DEF Listing
    <3>2. PICK length : length = Len(inits) /\ length \in Nat
      BY <1>4 DEF Listing
    <3>3. Fits(mine, length + 1)
      BY <1>4, <2>1, <3>2 DEF Listing, Fits
    <3>4. IsFiniteSet(mine)
      BY <3>1, <3>2, <3>3, FiniteBelow
    <3>5. Max(mine) \in mine
      BY <2>3, <3>1, <3>4, Largest
    <3> QED BY <1>4, <2>2, <2>3, <3>1, <3>5
  <2> QED BY <2>2, <2>3
<1>7. DOMAIN values = 1 .. cp.num_registers
  BY <1>5 DEF RegisterValues
<1> QED BY <1>3, <1>6, <1>7

\* A word of an instruction has 32 bits.
LEMMA SliceType ==
    ASSUME NEW code \in SUBSET Nat, NEW low \in Nat
    PROVE  Low(High(code, low), 32) \in SUBSET Nat /\ Fits(Low(High(code, low), 32), 32)
<1>1. Low(High(code, low), 32) = {y \in Nat : y < 32 /\ y + low \in code}
  BY Within
<1> QED BY <1>1 DEF Fits

\* What is known of a program before it is encoded.
Encodes(ps, p) ==
    /\ DOMAIN p.registers = 1 .. ps.num_registers
    /\ \A r \in 1 .. ps.num_registers : p.registers[r] \in Int
    /\ Listing(p.instructions) /\ Len(p.instructions) <= ps.num_instructions
    /\ Sized(ps, p.instructions)
    /\ \A k \in DOMAIN p.instructions : Parsed(p.instructions[k])

\* Its instruction words.
Words(ps, p) == build_program_binary(ps, p.registers, p.instructions).instructions

\* The words an element's program is written in, one by one.
LEMMA WordsAre ==
    ASSUME NEW ps, \A key \in Numbers : ps[key] \in Nat, Valid(ps), NEW p, Encodes(ps, p),
           NEW n \in Nat \ {0}, n = WordsPerInstruction(ps), NEW ni, ni = ps.num_instructions
    PROVE  /\ DOMAIN Words(ps, p) = 0 .. n * ni - 1
           /\ \A d \in 0 .. n * ni - 1 :
                  /\ Words(ps, p)[d] \in SUBSET Nat /\ Fits(Words(ps, p)[d], 32)
                  /\ d \div n >= Len(p.instructions) => Words(ps, p)[d] = {}
<1>1. PICK instructions, words : instructions = p.instructions /\ words = Words(ps, p)
  OBVIOUS
<1>2. Listing(instructions) /\ Len(instructions) <= ni /\ ni \in Nat
  BY <1>1 DEF Encodes, Numbers
<1>3. Larger(Len(instructions), ni) = ni
  BY <1>2 DEF Larger, Listing
<1> DEFINE Word(i) ==
             IF i \div n < Len(instructions)
             THEN Slices(ps, build_machine_code_instruction(ps, instructions[i \div n + 1]))[i % n]
             ELSE {}
<1>4. words = [i \in 0 .. n * ni - 1 |-> Word(i)]
  BY <1>1, <1>3 DEF Words, build_program_binary
<1>5. ASSUME NEW d \in 0 .. n * ni - 1
      PROVE  /\ words[d] \in SUBSET Nat /\ Fits(words[d], 32)
             /\ d \div n >= Len(instructions) => words[d] = {}
  <2>1. PICK k, i : k = d \div n /\ i = d % n
    OBVIOUS
  <2>2. d \in Nat
    <3>1. PICK most : most = n * ni
      OBVIOUS
    <3> QED BY <3>1
  <2>3. k \in Nat /\ i \in 0 .. n - 1
    <3>1. n > 0 /\ d \in Int
      BY <2>2
    <3> QED BY <2>1, <2>2, <3>1, Division, QuotientSmaller
  <2>4. words[d] = IF k < Len(instructions)
                   THEN Slices(ps, build_machine_code_instruction(ps, instructions[k + 1]))[i]
                   ELSE {}
    BY <1>4, <2>1
  <2>5. Len(instructions) \in Nat
    BY <1>2 DEF Listing
  <2>6. CASE k >= Len(instructions)
    <3>1. words[d] = {}
      BY <2>3, <2>4, <2>5, <2>6
    <3>2. words[d] \in SUBSET Nat /\ Fits(words[d], 32)
      BY <3>1 DEF Fits
    <3> QED BY <3>1, <3>2
  <2>7. CASE k < Len(instructions)
    <3>1. k + 1 \in DOMAIN instructions
      BY <1>2, <2>3, <2>5, <2>7 DEF Listing
    <3>2. PICK ins, code : /\ ins = instructions[k + 1]
                           /\ code = build_machine_code_instruction(ps, ins)
      OBVIOUS
    <3>3. Parsed(ins) /\ Encodable(ps, ins)
      BY <1>1, <3>1, <3>2 DEF Encodes, Sized
    <3>4. code \in SUBSET Nat
      BY <3>2, <3>3, CodeFits
    <3>5. words[d] = Low(High(code, i * 32), 32)
      BY <2>3, <2>4, <2>7, <3>2 DEF Slices
    <3>6. i * 32 \in Nat
      BY <2>3
    <3>7. words[d] \in SUBSET Nat /\ Fits(words[d], 32)
      BY <3>4, <3>5, <3>6, SliceType
    <3> QED BY <2>1, <2>3, <2>5, <2>7, <3>7
  <2> QED BY <2>1, <2>3, <2>5, <2>6, <2>7
<1>6. DOMAIN words = 0 .. n * ni - 1
  BY <1>4
<1> HIDE DEF Word
<1> QED BY <1>1, <1>5, <1>6

\* The words of a processing element, registers first.
LEMMA EncodingIs ==
    ASSUME \A key \in Numbers : cp[key] \in Nat, Valid(cp), NEW p, Encodes(cp, p),
           NEW n \in Nat \ {0}, n = WordsPerInstruction(cp), cp.mm_instruction_width = 32 * n
    PROVE  /\ IndividualWords = cp.num_registers + n * cp.num_instructions
           /\ Encoding(p) \in Seq(SUBSET Nat) /\ Len(Encoding(p)) = IndividualWords
           /\ \A r \in 0 .. cp.num_registers - 1 :
                  Encoding(p)[r + 1] = Bits(p.registers[r + 1] % Pow(cp.device_word_width))
           /\ \A d \in 0 .. n * cp.num_instructions - 1 :
                  Encoding(p)[cp.num_registers + d + 1] = Words(cp, p)[d]
<1>1. PICK nr, ni, dww, long, words : /\ nr = cp.num_registers /\ ni = cp.num_instructions
                                /\ dww = cp.device_word_width /\ long = n * ni
                                /\ words = Words(cp, p)
  OBVIOUS
<1>2. nr \in Nat /\ ni \in Nat /\ dww \in Nat /\ long \in Nat
  <2>1. nr \in Nat /\ ni \in Nat /\ dww \in Nat
    BY <1>1 DEF Numbers
  <2> QED BY <1>1, <2>1
<1>3. IndividualWords = nr + long
  <2>1. ni * (32 * n) = 32 * long
    BY <1>1, <1>2
  <2>2. (32 * long) \div 32 = long
    BY <1>2
  <2> QED BY <1>1, <2>1, <2>2 DEF IndividualWords
<1>4. /\ DOMAIN words = 0 .. long - 1
      /\ \A d \in 0 .. long - 1 : words[d] \in SUBSET Nat
  BY <1>1, WordsAre
<1>5. PICK b : b = build_program_binary(cp, p.registers, p.instructions)
  OBVIOUS
<1>6. b.instructions = words /\ b.registers = [i \in 1 .. nr |-> p.registers[i] % 2 ^ dww]
  <2>1. b.instructions = words
    BY <1>1, <1>5 DEF Words
  <2>2. b.registers = [i \in DOMAIN p.registers |-> p.registers[i] % 2 ^ dww]
    BY <1>1, <1>5 DEF build_program_binary
  <2> QED BY <1>1, <2>1, <2>2 DEF Encodes
<1>7. Cardinality(DOMAIN words) = long
  <2>1. Cardinality(0 .. long - 1) = IF 0 > long - 1 THEN 0 ELSE (long - 1) - 0 + 1
    <3>1. 0 \in Int /\ long - 1 \in Int
      BY <1>2
    <3> QED BY <3>1, FS_Interval
  <2> QED BY <1>2, <1>4, <2>1
<1>8. PICK s, t : s = [i \in 1 .. nr |-> Bits(b.registers[i])] /\ t = Listed(words, long)
  OBVIOUS
<1>9. Encoding(p) = s \o t
  <2>1. DOMAIN b.registers = 1 .. nr
    BY <1>6
  <2> QED BY <1>5, <1>6, <1>7, <1>8, <2>1 DEF Encoding
<1>10. ASSUME NEW i \in 1 .. nr
       PROVE  s[i] = Bits(p.registers[i] % Pow(dww)) /\ s[i] \in SUBSET Nat
  <2>1. PICK v : v = p.registers[i] % Pow(dww)
    OBVIOUS
  <2>2. p.registers[i] \in Int
    BY <1>1 DEF Encodes
  <2>3. v \in Int
    <3>1. Pow(dww) \in Nat /\ dww < Pow(dww)
      BY <1>2, PowType
    <3>2. Pow(dww) > 0
      BY <1>2, <3>1
    <3> QED BY <2>1, <2>2, <3>1, <3>2, Division
  <2>4. s[i] = Bits(v)
    BY <1>6, <1>8, <2>1 DEF Pow
  <2> QED BY <2>1, <2>3, <2>4, BitsType
<1>11. s \in Seq(SUBSET Nat) /\ Len(s) = nr
  <2>1. s = [i \in 1 .. nr |-> s[i]]
    BY <1>8
  <2> QED BY <1>2, <1>10, <2>1
<1>12. ASSUME NEW i \in 1 .. long PROVE t[i] = words[i - 1] /\ t[i] \in SUBSET Nat
  <2>1. t[i] = words[i - 1]
    BY <1>8 DEF Listed
  <2> QED BY <1>2, <1>4, <2>1
<1>13. t \in Seq(SUBSET Nat) /\ Len(t) = long
  <2>1. t = [i \in 1 .. long |-> t[i]]
    BY <1>8 DEF Listed
  <2>2. long \in Nat /\ \A i \in 1 .. long : t[i] \in SUBSET Nat
    BY <1>2, <1>12
  <2> QED BY <2>1, <2>2
<1>14. PICK u : u = s \o t
  OBVIOUS
<1>15. u = [x \in 1 .. nr + long |-> IF x <= nr THEN s[x] ELSE t[x - nr]]
  <2>1. s \o t = [x \in 1 .. Len(s) + Len(t) |-> IF x <= Len(s) THEN s[x] ELSE t[x - Len(s)]]
    BY <1>11, <1>13, Joining
  <2> QED BY <1>11, <1>13, <1>14, <2>1
<1>16. u \in Seq(SUBSET Nat)
  BY <1>11, <1>13, <1>14
<1>17. Len(u) = nr + long
  BY <1>2, <1>15
<1>18. ASSUME NEW r \in 0 .. nr - 1 PROVE u[r + 1] = s[r + 1] /\ r + 1 \in 1 .. nr
  BY <1>2, <1>15
<1>19. ASSUME NEW d \in 0 .. long - 1 PROVE u[nr + d + 1] = words[d]
  <2>1. nr + d + 1 \in 1 .. nr + long /\ ~ (nr + d + 1 <= nr) /\ (nr + d + 1) - nr = d + 1
    BY <1>2
  <2>2. u[nr + d + 1] = t[d + 1]
    BY <1>15, <2>1
  <2>3. d + 1 \in 1 .. long /\ (d + 1) - 1 = d
    BY <1>2
  <2>4. t[d + 1] = words[(d + 1) - 1]
    BY <1>12, <2>3
  <2> QED BY <2>2, <2>3, <2>4
<1> QED BY <1>1, <1>3, <1>9, <1>10, <1>14, <1>16, <1>17, <1>18, <1>19

\* A slot without ones holds no valid instruction.
LEMMA NothingReads ==
    ASSUME NEW w, NEW iw, NEW pw PROVE Unpack(w, {}, iw, pw).vi = {}
<1>1. \A x : High({}, x) = {} /\ Low({}, x) = {}
  BY DEF High, Low
<1> QED BY <1>1 DEF Unpack

-----------------------------------------------------------------------------
(* The device while it is written.                                         *)

\* The words of a processing element.
ElementWords(ps) == ps.num_registers + WordsPerInstruction(ps) * ps.num_instructions

\* Word i of a program.
Word(ps, p, i) ==
    IF i < ps.num_registers THEN Bits(p.registers[i + 1] % Pow(ps.device_word_width))
    ELSE Words(ps, p)[i - ps.num_registers]

\* Its place in the binary of element e.
Address(ps, e, i) == ElementWords(ps) * (e - 1) + i

\* Word j of instruction k.
Part(ps, k, j) == ps.num_registers + WordsPerInstruction(ps) * k + j

\* What the first m words of the binary put into instruction k of element e.
Arrived(ps, e, k, m) ==
    {j \in 0 .. WordsPerInstruction(ps) - 1 : Address(ps, e, Part(ps, k, j)) < m}
Filled(ps, p, e, k, m) ==
    UNION {Shift(Word(ps, p, Part(ps, k, j)), 32 * j) : j \in Arrived(ps, e, k, m)}

RegistersHold(ps, progs, regs, m) ==
    regs = [e \in Elements |-> [r \in 0 .. ps.num_registers - 1 |->
               IF Address(ps, e, r) < m
               THEN Number(Low(Word(ps, progs[e], r), ps.device_word_width)) ELSE 0]]
MemoryHolds(ps, progs, mem, m) ==
    mem = [e \in Elements |-> [k \in 0 .. ps.num_instructions - 1 |->
               Filled(ps, progs[e], e, k, m)]]

\* The sizes of a device.
Device(ps) ==
    /\ ps.num_registers \in Nat /\ ps.num_instructions \in Nat
    /\ WordsPerInstruction(ps) \in Nat \ {0}
    /\ ps.mm_instruction_width = 32 * WordsPerInstruction(ps)

\* The words of an element are at least its registers.
LEMMA ElementWordsType ==
    ASSUME NEW ps, Device(ps)
    PROVE  ElementWords(ps) \in Nat /\ ps.num_registers <= ElementWords(ps)
<1>1. PICK n, ni, nr : n = WordsPerInstruction(ps) /\ ni = ps.num_instructions /\ nr = ps.num_registers
  OBVIOUS
<1>2. n \in Nat /\ ni \in Nat /\ nr \in Nat
  BY <1>1 DEF Device
<1>3. n * ni \in Nat
  BY <1>2
<1>4. PICK x : x = n * ni
  OBVIOUS
<1> QED BY <1>1, <1>2, <1>3, <1>4 DEF ElementWords

\* Words of an instruction are words of the element, past the registers.
LEMMA PartIs ==
    ASSUME NEW ps, Device(ps), NEW k \in 0 .. ps.num_instructions - 1,
           NEW j \in 0 .. WordsPerInstruction(ps) - 1
    PROVE  Part(ps, k, j) \in ps.num_registers .. ElementWords(ps) - 1
<1>1. PICK n, ni, nr : n = WordsPerInstruction(ps) /\ ni = ps.num_instructions /\ nr = ps.num_registers
  OBVIOUS
<1>2. n \in Nat \ {0} /\ ni \in Nat /\ nr \in Nat /\ k \in 0 .. ni - 1 /\ j \in 0 .. n - 1
  BY <1>1 DEF Device
<1>3. n * k + n <= n * ni /\ n * k \in Nat /\ n * ni \in Nat
  <2>1. k + 1 <= ni
    BY <1>2
  <2>2. n * (k + 1) <= n * ni
    BY <1>2, <2>1
  <2>3. n * (k + 1) = n * k + n
    BY <1>2
  <2>4. n * k \in Nat /\ n * ni \in Nat
    BY <1>2
  <2> QED BY <2>2, <2>3, <2>4
<1>4. PICK x, y : x = n * k /\ y = n * ni
  OBVIOUS
<1>5. x \in Nat /\ y \in Nat /\ x + n <= y
  BY <1>3, <1>4
<1>6. nr + x + j \in nr .. nr + y - 1
  BY <1>2, <1>5
<1>7. Part(ps, k, j) = nr + x + j
  BY <1>1, <1>4 DEF Part
<1>8. ElementWords(ps) = nr + y
  BY <1>1, <1>4 DEF ElementWords
<1> QED BY <1>1, <1>2, <1>5, <1>6, <1>7, <1>8

\* Words have different places.
LEMMA AddressIs ==
    ASSUME NEW ps, Device(ps), NEW e \in Elements, NEW i \in 0 .. ElementWords(ps) - 1
    PROVE  /\ Address(ps, e, i) \in 0 .. NumElements * ElementWords(ps) - 1
           /\ \A f \in Elements, j \in 0 .. ElementWords(ps) - 1 :
                  Address(ps, f, j) = Address(ps, e, i) => f = e /\ j = i
<1>1. PICK w : w = ElementWords(ps)
  OBVIOUS
<1>2. w \in Nat /\ NumElements \in Nat
  BY <1>1, ElementWordsType, NumElementsAssumption
<1>3. e - 1 \in 0 .. NumElements - 1
  BY <1>2 DEF Elements
<1>4. w * (e - 1) + i \in 0 .. NumElements * w - 1
  BY <1>1, <1>2, <1>3, SpreadIndex
<1>5. ASSUME NEW f \in Elements, NEW j \in 0 .. w - 1, w * (f - 1) + j = w * (e - 1) + i
      PROVE  f = e /\ j = i
  <2>1. PICK a, b : a = f - 1 /\ b = e - 1
    OBVIOUS
  <2>2. a \in Int /\ b \in Int /\ f = a + 1 /\ e = b + 1
    BY <1>2, <2>1 DEF Elements
  <2>3. i \in Nat /\ i < w /\ j \in Nat /\ j < w
    BY <1>1, <1>2
  <2>4. Lies(w * a + j, w, a, j) /\ Lies(w * a + j, w, b, i)
    BY <1>5, <2>1 DEF Lies
  <2>5. a = b /\ j = i
    BY <1>2, <2>2, <2>3, <2>4, SameSlot
  <2> QED BY <2>2, <2>5
<1> QED BY <1>1, <1>4, <1>5 DEF Address

\* The word that the host writes next.
LEMMA NextAddress ==
    ASSUME NEW ps, Device(ps), NEW m \in 0 .. NumElements * ElementWords(ps) - 1
    PROVE  /\ 1 + m \div ElementWords(ps) \in Elements
           /\ m % ElementWords(ps) \in 0 .. ElementWords(ps) - 1
           /\ Address(ps, 1 + m \div ElementWords(ps), m % ElementWords(ps)) = m
<1>1. PICK w : w = ElementWords(ps)
  OBVIOUS
<1>2. w \in Nat /\ NumElements \in Nat
  BY <1>1, ElementWordsType, NumElementsAssumption
<1>3. m \in Nat /\ m < NumElements * w
  <2>1. PICK most : most = NumElements * w
    OBVIOUS
  <2>2. most \in Nat
    BY <1>2, <2>1
  <2> QED BY <1>1, <2>1, <2>2
<1>4. w > 0
  <2> SUFFICES ASSUME w = 0 PROVE FALSE
    BY <1>2
  <2>1. NumElements * w = 0
    BY <1>2
  <2> QED BY <1>3, <2>1
<1>5. PICK a, i : a = m \div w /\ i = m % w
  OBVIOUS
<1>6. a \in Nat /\ i \in 0 .. w - 1 /\ m = w * a + i
  BY <1>2, <1>3, <1>4, <1>5, Division, QuotientSmaller
<1>7. a < NumElements
  <2> SUFFICES ASSUME a >= NumElements PROVE FALSE
    BY <1>2, <1>6
  <2>1. w * a >= w * NumElements
    BY <1>2, <1>6
  <2>2. w * NumElements = NumElements * w
    BY <1>2
  <2>3. PICK x, y : x = w * a /\ y = NumElements * w
    OBVIOUS
  <2>4. x \in Nat /\ y \in Nat /\ x >= y /\ m = x + i /\ m < y /\ i >= 0
    BY <1>2, <1>3, <1>6, <2>1, <2>2, <2>3
  <2> QED BY <1>6, <2>4
<1>8. 1 + a \in Elements /\ (1 + a) - 1 = a
  BY <1>2, <1>6, <1>7 DEF Elements
<1> QED BY <1>1, <1>5, <1>6, <1>8 DEF Address

\* A word is before the next one if it is before this one, or is this one.
LEMMA Before ==
    ASSUME NEW ps, Device(ps), NEW e \in Elements, NEW i \in 0 .. ElementWords(ps) - 1,
           NEW f \in Elements, NEW j \in 0 .. ElementWords(ps) - 1,
           NEW m, m = Address(ps, f, j)
    PROVE  /\ Address(ps, e, i) < m + 1 <=> Address(ps, e, i) < m \/ (e = f /\ i = j)
           /\ m \in Nat
<1>1. PICK a : a = Address(ps, e, i)
  OBVIOUS
<1>2. a \in Nat /\ m \in Nat
  <2>1. PICK most : most = NumElements * ElementWords(ps)
    OBVIOUS
  <2>2. a \in 0 .. most - 1 /\ m \in 0 .. most - 1
    BY <1>1, <2>1, AddressIs
  <2> QED BY <2>2
<1>3. a = m => e = f /\ i = j
  <2>1. \A g \in Elements, l \in 0 .. ElementWords(ps) - 1 :
            Address(ps, g, l) = Address(ps, e, i) => g = e /\ l = i
    BY AddressIs
  <2> QED BY <1>1, <2>1
<1>4. (e = f /\ i = j) => a = m
  BY <1>1
<1>5. a < m + 1 <=> a < m \/ a = m
  BY <1>2
<1> QED BY <1>1, <1>2, <1>3, <1>4, <1>5

\* Writing a register.
LEMMA RegisterArrives ==
    ASSUME NEW ps, Device(ps), NEW progs, NEW regs, NEW mem, NEW m,
           RegistersHold(ps, progs, regs, m), MemoryHolds(ps, progs, mem, m),
           NEW f \in Elements, NEW j \in 0 .. ps.num_registers - 1, m = Address(ps, f, j)
    PROVE  /\ RegistersHold(ps, progs, [regs EXCEPT ![f][j] =
                  Number(Low(Word(ps, progs[f], j), ps.device_word_width))], m + 1)
           /\ MemoryHolds(ps, progs, mem, m + 1)
<1>1. PICK nr, iw : nr = ps.num_registers /\ iw = ElementWords(ps)
  OBVIOUS
<1>2. nr \in Nat /\ iw \in Nat /\ nr <= iw
  BY <1>1, ElementWordsType DEF Device
<1>3. j \in 0 .. iw - 1 /\ j \in 0 .. nr - 1
  BY <1>1, <1>2
<1> DEFINE V(e, r) == Number(Low(Word(ps, progs[e], r), ps.device_word_width))
           R(e, r, l) == IF Address(ps, e, r) < l THEN V(e, r) ELSE 0
<1>4. ASSUME NEW e \in Elements, NEW r \in 0 .. nr - 1
      PROVE  R(e, r, m + 1) = IF e = f /\ r = j THEN V(f, j) ELSE R(e, r, m)
  <2>1. r \in 0 .. iw - 1
    BY <1>2
  <2>2. Address(ps, e, r) < m + 1 <=> Address(ps, e, r) < m \/ (e = f /\ r = j)
    BY <1>1, <1>3, <2>1, Before
  <2> HIDE DEF V
  <2> QED BY <2>2
<1>5. regs = [e \in Elements |-> [r \in 0 .. nr - 1 |-> R(e, r, m)]]
  BY <1>1 DEF RegistersHold
<1>6. PICK new : new = [regs EXCEPT ![f][j] = V(f, j)]
  OBVIOUS
<1>7. new = [e \in Elements |-> [r \in 0 .. nr - 1 |-> R(e, r, m + 1)]]
  <2> HIDE DEF R, V
  <2>1. ASSUME NEW e \in Elements
        PROVE  new[e] = [r \in 0 .. nr - 1 |-> R(e, r, m + 1)]
    <3>1. CASE e = f
      <4>1. new[e] = [regs[e] EXCEPT ![j] = V(f, j)]
        BY <1>5, <1>6, <3>1
      <4>2. regs[e] = [r \in 0 .. nr - 1 |-> R(e, r, m)]
        BY <1>5
      <4>3. new[e] = [r \in 0 .. nr - 1 |-> IF r = j THEN V(f, j) ELSE R(e, r, m)]
        BY <4>1, <4>2
      <4>4. \A r \in 0 .. nr - 1 : R(e, r, m + 1) = IF r = j THEN V(f, j) ELSE R(e, r, m)
        BY <1>4, <3>1
      <4> QED BY <4>3, <4>4
    <3>2. CASE e # f
      <4>1. new[e] = [r \in 0 .. nr - 1 |-> R(e, r, m)]
        BY <1>5, <1>6, <3>2
      <4>2. \A r \in 0 .. nr - 1 : R(e, r, m + 1) = R(e, r, m)
        BY <1>4, <3>2
      <4> QED BY <4>1, <4>2
    <3> QED BY <3>1, <3>2
  <2>2. new = [e \in Elements |-> new[e]]
    BY <1>5, <1>6
  <2> QED BY <2>1, <2>2
<1>8. RegistersHold(ps, progs, new, m + 1)
  BY <1>1, <1>7 DEF RegistersHold
<1>9. ASSUME NEW e \in Elements, NEW k \in 0 .. ps.num_instructions - 1
      PROVE  Filled(ps, progs[e], e, k, m + 1) = Filled(ps, progs[e], e, k, m)
  <2>1. ASSUME NEW i \in 0 .. WordsPerInstruction(ps) - 1
        PROVE  Address(ps, e, Part(ps, k, i)) < m + 1 <=> Address(ps, e, Part(ps, k, i)) < m
    <3>1. PICK q : q = Part(ps, k, i)
      OBVIOUS
    <3>2. q \in nr .. iw - 1
      BY <1>1, <3>1, PartIs
    <3>3. q \in 0 .. iw - 1 /\ q # j
      BY <1>2, <1>3, <3>2
    <3>4. Address(ps, e, q) < m + 1 <=> Address(ps, e, q) < m \/ (e = f /\ q = j)
      BY <1>1, <1>3, <3>3, Before
    <3> QED BY <3>1, <3>3, <3>4
  <2>2. Arrived(ps, e, k, m + 1) = Arrived(ps, e, k, m)
    BY <2>1 DEF Arrived
  <2> QED BY <2>2 DEF Filled
<1>10. MemoryHolds(ps, progs, mem, m + 1)
  BY <1>9 DEF MemoryHolds
<1> QED BY <1>6, <1>8, <1>10

\* The instruction memory takes word j of instruction k to its place.
LEMMA WriteWordIs ==
    ASSUME NEW ps, Device(ps), 2 ^ WordIndexWidth(ps) = WordsPerInstruction(ps),
           NEW n, n = WordsPerInstruction(ps), NEW k \in 0 .. ps.num_instructions - 1,
           NEW j \in 0 .. n - 1, NEW mem, NEW word
    PROVE  WriteWord(ps, mem, n * k + j, word) =
               [mem EXCEPT ![k] = {i \in @ : i < 32 * j \/ i >= 32 * j + 32}
                                      \cup {i \in Shift(word, 32 * j) : i < 32 * n}]
<1>1. PICK ni, d, e : ni = ps.num_instructions /\ d = n * k + j /\ e = Clog2(ni)
  OBVIOUS
<1>2. ni \in Nat /\ n \in Nat \ {0} /\ k \in Nat /\ k < ni
  BY <1>1 DEF Device
<1>3. d \div n = k /\ d % n = j
  BY <1>1, <1>2, WordIndex
<1>4. k % 2 ^ e = k
  <2>1. e \in Nat /\ ni <= Pow(e)
    BY <1>1, <1>2, Clog2Least
  <2>2. PICK p : p = Pow(e)
    OBVIOUS
  <2>3. p \in Nat /\ k < p
    BY <1>2, <2>1, <2>2, PowType
  <2>4. p > 0
    BY <1>2, <2>3
  <2>5. k % p = k
    BY <1>2, <2>3, <2>4, QuotientSmaller
  <2> QED BY <2>2, <2>5 DEF Pow
<1>5. PICK q : q = 2 ^ WordIndexWidth(ps)
  OBVIOUS
<1>6. q = n
  BY <1>5
<1>7. (d \div q) % 2 ^ e = k /\ 32 * (d % q) = 32 * j
  BY <1>3, <1>4, <1>6
<1>8. ~ (k >= ni) /\ ps.mm_instruction_width = 32 * n
  BY <1>2 DEF Device
<1>9. PICK x, low : x = (d \div q) % 2 ^ e /\ low = 32 * (d % q)
  OBVIOUS
<1>10. x = k /\ low = 32 * j
  BY <1>7, <1>9
<1>11. WriteWord(ps, mem, d, word) =
           IF x >= ni THEN mem
           ELSE [mem EXCEPT ![x] = {i \in @ : i < low \/ i >= low + 32}
                    \cup {i \in Shift(word, low) : i < ps.mm_instruction_width}]
  BY <1>1, <1>5, <1>9 DEF WriteWord, MmioDataWidth
<1> QED BY <1>1, <1>8, <1>10, <1>11

\* Words put together, and a word of an instruction replaced.
Merged(words, J) == UNION {Shift(words[i], 32 * i) : i \in J}
Replaced(old, word, j, n) ==
    {b \in old : b < 32 * j \/ b >= 32 * j + 32} \cup {b \in Shift(word, 32 * j) : b < 32 * n}

\* The words of one instruction that have arrived, and one more.
LEMMA OneMorePart ==
    ASSUME NEW n \in Nat, NEW words, NEW j \in 0 .. n - 1, NEW J \in SUBSET (0 .. n - 1), j \notin J,
           \A i \in 0 .. n - 1 : words[i] \in SUBSET Nat /\ Fits(words[i], 32),
           NEW old, old = Merged(words, J)
    PROVE  Replaced(old, words[j], j, n) = Merged(words, J \cup {j})
<1>1. ASSUME NEW i \in 0 .. n - 1, NEW b \in Shift(words[i], 32 * i)
      PROVE  b >= 32 * i /\ b < 32 * i + 32 /\ b \in Nat
  <2>1. PICK a \in words[i] : b = a + 32 * i
    BY DEF Shift
  <2>2. a \in Nat /\ a < 32 /\ i \in Nat
    BY DEF Fits
  <2> QED BY <2>1, <2>2
<1>2. ASSUME NEW b \in old PROVE b < 32 * j \/ b >= 32 * j + 32
  <2>1. PICK i \in J : b \in Shift(words[i], 32 * i)
    BY DEF Merged
  <2>2. i \in 0 .. n - 1 /\ i # j
    OBVIOUS
  <2>3. b >= 32 * i /\ b < 32 * i + 32 /\ b \in Nat
    BY <1>1, <2>1, <2>2
  <2>4. i < j \/ i > j
    BY <2>2
  <2> QED BY <2>2, <2>3, <2>4
<1>3. ASSUME NEW b \in Shift(words[j], 32 * j) PROVE b < 32 * n
  <2>1. b < 32 * j + 32 /\ b \in Nat
    BY <1>1
  <2>2. j + 1 <= n /\ j \in Nat
    OBVIOUS
  <2> QED BY <2>1, <2>2
<1>4. Merged(words, J \cup {j}) = old \cup Shift(words[j], 32 * j)
  BY DEF Merged
<1>5. {b \in old : b < 32 * j \/ b >= 32 * j + 32} = old
  BY <1>2
<1>6. {b \in Shift(words[j], 32 * j) : b < 32 * n} = Shift(words[j], 32 * j)
  BY <1>3
<1> QED BY <1>4, <1>5, <1>6 DEF Replaced

\* Writing a word of an instruction.
LEMMA WordArrives ==
    ASSUME NEW ps, Device(ps), 2 ^ WordIndexWidth(ps) = WordsPerInstruction(ps),
           NEW progs, NEW regs, NEW mem, NEW m,
           RegistersHold(ps, progs, regs, m), MemoryHolds(ps, progs, mem, m),
           NEW f \in Elements, NEW k \in 0 .. ps.num_instructions - 1,
           NEW n, n = WordsPerInstruction(ps), NEW j \in 0 .. n - 1,
           m = Address(ps, f, Part(ps, k, j)),
           \A i \in 0 .. n - 1 : /\ Word(ps, progs[f], Part(ps, k, i)) \in SUBSET Nat
                                 /\ Fits(Word(ps, progs[f], Part(ps, k, i)), 32)
    PROVE  /\ RegistersHold(ps, progs, regs, m + 1)
           /\ MemoryHolds(ps, progs,
                  [mem EXCEPT ![f] = WriteWord(ps, @, n * k + j,
                                               Word(ps, progs[f], Part(ps, k, j)))], m + 1)
<1>1. PICK nr, iw, ni : nr = ps.num_registers /\ iw = ElementWords(ps) /\ ni = ps.num_instructions
  OBVIOUS
<1>2. nr \in Nat /\ iw \in Nat /\ nr <= iw /\ ni \in Nat /\ n \in Nat \ {0}
  BY <1>1, ElementWordsType DEF Device
<1>3. ASSUME NEW l \in 0 .. ni - 1, NEW i \in 0 .. n - 1
      PROVE  Part(ps, l, i) \in nr .. iw - 1 /\ Part(ps, l, i) \in 0 .. iw - 1
  <2>1. Part(ps, l, i) \in nr .. iw - 1
    BY <1>1, PartIs
  <2> QED BY <1>2, <2>1
<1>4. ASSUME NEW e \in Elements, NEW r \in 0 .. nr - 1
      PROVE  Address(ps, e, r) < m + 1 <=> Address(ps, e, r) < m
  <2>1. PICK q : q = Part(ps, k, j)
    OBVIOUS
  <2>2. q \in nr .. iw - 1 /\ q \in 0 .. iw - 1
    BY <1>1, <1>3, <2>1
  <2>3. r \in 0 .. iw - 1 /\ r # q
    BY <1>2, <2>2
  <2>4. Address(ps, e, r) < m + 1 <=> Address(ps, e, r) < m \/ (e = f /\ r = q)
    BY <1>1, <2>1, <2>2, <2>3, Before
  <2> QED BY <2>3, <2>4
<1>5. RegistersHold(ps, progs, regs, m + 1)
  BY <1>1, <1>4 DEF RegistersHold
<1>6. ASSUME NEW e \in Elements, NEW l \in 0 .. ni - 1, NEW i \in 0 .. n - 1
      PROVE  Address(ps, e, Part(ps, l, i)) < m + 1
                 <=> Address(ps, e, Part(ps, l, i)) < m \/ (e = f /\ l = k /\ i = j)
  <2>1. PICK q, p : q = Part(ps, k, j) /\ p = Part(ps, l, i)
    OBVIOUS
  <2>2. q \in 0 .. iw - 1 /\ p \in 0 .. iw - 1
    BY <1>1, <1>3, <2>1
  <2>3. Address(ps, e, p) < m + 1 <=> Address(ps, e, p) < m \/ (e = f /\ p = q)
    BY <1>1, <2>1, <2>2, Before
  <2>4. p = q => l = k /\ i = j
    <3> SUFFICES ASSUME p = q PROVE l = k /\ i = j
      OBVIOUS
    <3>2. PICK x, y : x = n * l /\ y = n * k
      OBVIOUS
    <3>1. p = nr + x + i /\ q = nr + y + j
      BY <1>1, <2>1, <3>2 DEF Part
    <3>3. x \in Int /\ y \in Int /\ l \in Nat /\ k \in Nat
      BY <1>1, <1>2, <3>2
    <3>7. (nr + x) + i = (nr + y) + j
      BY <3>1
    <3>8. nr \in Int /\ i \in Int /\ j \in Int
      BY <1>2
    <3>4. x + i = y + j
      BY <3>3, <3>7, <3>8
    <3>6. l \in Int /\ k \in Int /\ n \in Nat /\ i \in Nat /\ i < n /\ j \in Nat /\ j < n
      BY <1>2, <3>3
    <3>5. Lies(x + i, n, l, i) /\ Lies(x + i, n, k, j)
      BY <3>2, <3>4 DEF Lies
    <3> QED BY <3>5, <3>6, SameSlot
  <2>5. (l = k /\ i = j) => p = q
    BY <2>1
  <2> QED BY <2>1, <2>3, <2>4, <2>5
<1>7. ASSUME NEW e \in Elements, NEW l \in 0 .. ni - 1, e # f \/ l # k
      PROVE  Filled(ps, progs[e], e, l, m + 1) = Filled(ps, progs[e], e, l, m)
  <2>1. Arrived(ps, e, l, m + 1) = Arrived(ps, e, l, m)
    BY <1>6, <1>7 DEF Arrived
  <2> QED BY <2>1 DEF Filled
<1>8. PICK words, J : /\ words = [i \in 0 .. n - 1 |-> Word(ps, progs[f], Part(ps, k, i))]
                      /\ J = Arrived(ps, f, k, m)
  OBVIOUS
<1>9. J \in SUBSET (0 .. n - 1) /\ j \notin J /\ Arrived(ps, f, k, m + 1) = J \cup {j}
  <2>1. m \in Nat
    BY <1>1, <1>3, Before
  <2>2. j \notin J /\ J \in SUBSET (0 .. n - 1)
    BY <1>8, <2>1 DEF Arrived
  <2>3. Arrived(ps, f, k, m + 1) = J \cup {j}
    BY <1>1, <1>6, <1>8 DEF Arrived
  <2> QED BY <2>2, <2>3
<1>10. ASSUME NEW l
       PROVE  Filled(ps, progs[f], f, k, l) = Merged(words, Arrived(ps, f, k, l))
  <2>1. Arrived(ps, f, k, l) \in SUBSET (0 .. n - 1)
    BY DEF Arrived
  <2> QED BY <1>8, <2>1 DEF Filled, Merged
<1>11. PICK old, word : old = Filled(ps, progs[f], f, k, m) /\ word = Word(ps, progs[f], Part(ps, k, j))
  OBVIOUS
<1>12. Replaced(old, word, j, n) = Filled(ps, progs[f], f, k, m + 1)
  <2>1. \A i \in 0 .. n - 1 : words[i] \in SUBSET Nat /\ Fits(words[i], 32)
    BY <1>8
  <2>2. old = Merged(words, J)
    BY <1>8, <1>10, <1>11
  <2>3. Filled(ps, progs[f], f, k, m + 1) = Merged(words, J \cup {j})
    BY <1>9, <1>10
  <2>4. Replaced(old, words[j], j, n) = Merged(words, J \cup {j})
    <3>1. n \in Nat
      BY <1>2
    <3> QED BY <1>9, <2>1, <2>2, <3>1, OneMorePart
  <2>5. words[j] = word
    BY <1>8, <1>11
  <2> QED BY <2>3, <2>4, <2>5
<1>13. mem = [e \in Elements |-> [l \in 0 .. ni - 1 |-> Filled(ps, progs[e], e, l, m)]]
  BY <1>1 DEF MemoryHolds
<1>14. PICK new : new = [mem EXCEPT ![f] = WriteWord(ps, @, n * k + j, word)]
  OBVIOUS
<1>15. new[f] = [mem[f] EXCEPT ![k] = Filled(ps, progs[f], f, k, m + 1)]
  <2>1. new[f] = WriteWord(ps, mem[f], n * k + j, word)
    BY <1>13, <1>14
  <2>2. WriteWord(ps, mem[f], n * k + j, word) =
          [mem[f] EXCEPT ![k] = {i \in @ : i < 32 * j \/ i >= 32 * j + 32}
                                  \cup {i \in Shift(word, 32 * j) : i < 32 * n}]
    BY WriteWordIs
  <2>3. mem[f][k] = old
    BY <1>1, <1>11, <1>13
  <2>4. [mem[f] EXCEPT ![k] = {i \in @ : i < 32 * j \/ i >= 32 * j + 32}
                                  \cup {i \in Shift(word, 32 * j) : i < 32 * n}]
        = [mem[f] EXCEPT ![k] = Filled(ps, progs[f], f, k, m + 1)]
    BY <1>12, <2>3 DEF Replaced
  <2> QED BY <2>1, <2>2, <2>4
<1>16. new = [e \in Elements |-> [l \in 0 .. ni - 1 |-> Filled(ps, progs[e], e, l, m + 1)]]
  <2>1. ASSUME NEW e \in Elements
        PROVE  new[e] = [l \in 0 .. ni - 1 |-> Filled(ps, progs[e], e, l, m + 1)]
    <3>1. mem[e] = [l \in 0 .. ni - 1 |-> Filled(ps, progs[e], e, l, m)]
      BY <1>13
    <3>2. CASE e = f
      <4>1. new[e] = [l \in 0 .. ni - 1 |-> IF l = k THEN Filled(ps, progs[e], e, k, m + 1)
                                            ELSE Filled(ps, progs[e], e, l, m)]
        BY <1>15, <3>1, <3>2
      <4>2. \A l \in 0 .. ni - 1 :
                Filled(ps, progs[e], e, l, m + 1) = IF l = k THEN Filled(ps, progs[e], e, k, m + 1)
                                                    ELSE Filled(ps, progs[e], e, l, m)
        BY <1>7
      <4> QED BY <4>1, <4>2
    <3>3. CASE e # f
      <4>1. new[e] = mem[e]
        BY <1>13, <1>14, <3>3
      <4>2. \A l \in 0 .. ni - 1 : Filled(ps, progs[e], e, l, m + 1) = Filled(ps, progs[e], e, l, m)
        BY <1>7, <3>3
      <4> QED BY <3>1, <4>1, <4>2
    <3> QED BY <3>2, <3>3
  <2>2. new = [e \in Elements |-> new[e]]
    BY <1>13, <1>14
  <2> QED BY <2>1, <2>2
<1>17. MemoryHolds(ps, progs, new, m + 1)
  BY <1>1, <1>16 DEF MemoryHolds
<1> QED BY <1>5, <1>11, <1>14, <1>17

-----------------------------------------------------------------------------
(* The words of the binary.                                              *)

\* The binary, by the parameters and the programs.
EncodingOf(ps, p) ==
    LET b == build_program_binary(ps, p.registers, p.instructions)
    IN  [i \in DOMAIN b.registers |-> Bits(b.registers[i])]
            \o Listed(b.instructions, Cardinality(DOMAIN b.instructions))
BinaryOf(ps, progs) == FlattenSeq([n \in DOMAIN progs |-> EncodingOf(ps, progs[n])])

\* The words of a program depend on the parameters only.
LEMMA EncodingOfIs == \A p : Encoding(p) = EncodingOf(cp, p)
BY DEF Encoding, EncodingOf

\* The programs of a device are ready to be encoded.
LEMMA ProgramsEncode ==
    ASSUME ToolInv, stage \in Encoded, Matching
    PROVE  /\ Device(cp) /\ Valid(cp) /\ (\A key \in Numbers : cp[key] \in Nat)
           /\ DOMAIN programs = Elements /\ Len(programs) = NumElements
           /\ \A e \in Elements : Encodes(cp, programs[e])
<1>1. stage \in Accepted /\ stage \in Understood
  BY DEF Encoded, Understood, Accepted
<1>2. (\A key \in Numbers : cp[key] \in Nat) /\ Valid(cp)
  BY <1>1 DEF ToolInv, PlatformAccepted
<1>3. Len(programs) = NumElements
  BY DEF Matching, OneProgramEach
<1>4. DOMAIN programs = Elements
  <2>1. PICK input \in Inputs : source = input.source
    BY DEF ToolInv, FromInput
  <2>2. Listing(source)
    BY <2>1, InputsAssumption
  <2>3. PICK length : length = Len(source)
    OBVIOUS
  <2>4. length \in Nat /\ DOMAIN source = 1 .. length
    BY <2>2, <2>3 DEF Listing
  <2>5. programs = [n \in DOMAIN source |-> FromSource(cp, source[n])]
    BY <1>1 DEF ToolInv, ProgramsParsed
  <2>6. DOMAIN programs = 1 .. length /\ Len(programs) = length
    BY <2>4, <2>5
  <2> QED BY <1>3, <2>6 DEF Elements
<1>5. ASSUME NEW e \in Elements PROVE Encodes(cp, programs[e])
  <2>1. e \in DOMAIN programs
    BY <1>4
  <2>2. /\ DOMAIN programs[e].registers = 1 .. cp.num_registers
        /\ \A r \in 1 .. cp.num_registers : programs[e].registers[r] \in Int
    BY <1>1, <2>1, ProgramRegisters
  <2>3. /\ Listing(programs[e].instructions)
        /\ \A k \in DOMAIN programs[e].instructions : Translated(e, k)
    BY <1>1, <2>1, ProgramInstructions
  <2>4. \A k \in DOMAIN programs[e].instructions : Parsed(programs[e].instructions[k])
    BY <2>3, StatementParsed DEF Translated
  <2>5. Sized(cp, programs[e].instructions)
    BY <2>1 DEF ToolInv, ProgramsEncoded
  <2>6. Len(programs[e].instructions) <= cp.num_instructions
    BY <2>1 DEF Matching, OneProgramEach
  <2> QED BY <2>2, <2>3, <2>4, <2>5, <2>6 DEF Encodes
<1>6. Device(cp)
  <2>1. 1 \in Elements
    BY NumElementsAssumption DEF Elements
  <2>2. cp.mm_instruction_width % 32 = 0
    BY <1>5, <2>1 DEF Encodes, Sized
  <2>3. /\ WordsPerInstruction(cp) \in Nat \ {0}
        /\ cp.mm_instruction_width = 32 * WordsPerInstruction(cp)
    BY <1>2, <2>2, WholeWords
  <2>4. cp.num_registers \in Nat /\ cp.num_instructions \in Nat
    BY <1>2 DEF Numbers
  <2> QED BY <2>3, <2>4 DEF Device
<1> QED BY <1>2, <1>3, <1>4, <1>5, <1>6

\* The words of a program, by their number.
LEMMA WordsOfProgram ==
    ASSUME \A key \in Numbers : cp[key] \in Nat, Valid(cp), Device(cp),
           NEW p, Encodes(cp, p)
    PROVE  /\ IndividualWords = ElementWords(cp)
           /\ EncodingOf(cp, p) \in Seq(SUBSET Nat) /\ Len(EncodingOf(cp, p)) = ElementWords(cp)
           /\ \A i \in 0 .. ElementWords(cp) - 1 : EncodingOf(cp, p)[i + 1] = Word(cp, p, i)
<1>1. PICK n, ni, nr, enc : /\ n = WordsPerInstruction(cp) /\ ni = cp.num_instructions
                            /\ nr = cp.num_registers /\ enc = EncodingOf(cp, p)
  OBVIOUS
<1>2. n \in Nat \ {0} /\ ni \in Nat /\ nr \in Nat /\ cp.mm_instruction_width = 32 * n
  BY <1>1 DEF Device
<1>3. enc = Encoding(p)
  BY <1>1, EncodingOfIs
<1>4. /\ IndividualWords = cp.num_registers + n * cp.num_instructions
      /\ Encoding(p) \in Seq(SUBSET Nat) /\ Len(Encoding(p)) = IndividualWords
      /\ \A r \in 0 .. cp.num_registers - 1 :
             Encoding(p)[r + 1] = Bits(p.registers[r + 1] % Pow(cp.device_word_width))
      /\ \A d \in 0 .. n * cp.num_instructions - 1 :
             Encoding(p)[cp.num_registers + d + 1] = Words(cp, p)[d]
  BY <1>1, <1>2, EncodingIs
<1>5. PICK long : long = n * ni
  OBVIOUS
<1>6. long \in Nat /\ IndividualWords = nr + long /\ ElementWords(cp) = nr + long
  BY <1>1, <1>2, <1>4, <1>5 DEF ElementWords
<1>7. ASSUME NEW i \in 0 .. (nr + long) - 1 PROVE enc[i + 1] = Word(cp, p, i)
  <2>1. CASE i < nr
    <3>1. i \in 0 .. nr - 1
      BY <1>2, <2>1
    <3>2. enc[i + 1] = Bits(p.registers[i + 1] % Pow(cp.device_word_width))
      BY <1>1, <1>3, <1>4, <3>1
    <3> QED BY <1>1, <2>1, <3>2 DEF Word
  <2>2. CASE ~ (i < nr)
    <3>1. PICK d : d = i - nr
      OBVIOUS
    <3>2. d \in 0 .. long - 1 /\ nr + d = i
      BY <1>2, <1>6, <2>2, <3>1
    <3>3. enc[nr + d + 1] = Words(cp, p)[d]
      BY <1>1, <1>3, <1>4, <1>5, <3>2
    <3> QED BY <1>1, <2>2, <3>1, <3>2, <3>3 DEF Word
  <2> QED BY <2>1, <2>2
<1> QED BY <1>1, <1>3, <1>4, <1>6, <1>7

\* Where the words of the programs are in the binary.
LEMMA BinaryIs ==
    ASSUME ToolInv, stage \in Encoded, Matching
    PROVE  /\ IndividualWords = ElementWords(cp)
           /\ \A e \in Elements : \A i \in 0 .. ElementWords(cp) - 1 :
                  BinaryOf(cp, programs)[Address(cp, e, i) + 1] = Word(cp, programs[e], i)
<1>1. /\ Device(cp) /\ Valid(cp) /\ (\A key \in Numbers : cp[key] \in Nat)
      /\ DOMAIN programs = Elements /\ Len(programs) = NumElements
      /\ \A e \in Elements : Encodes(cp, programs[e])
  BY ProgramsEncode
<1>2. ASSUME NEW e \in Elements
      PROVE  /\ IndividualWords = ElementWords(cp)
             /\ EncodingOf(cp, programs[e]) \in Seq(SUBSET Nat)
             /\ Len(EncodingOf(cp, programs[e])) = ElementWords(cp)
             /\ \A i \in 0 .. ElementWords(cp) - 1 :
                    EncodingOf(cp, programs[e])[i + 1] = Word(cp, programs[e], i)
  BY <1>1, WordsOfProgram
<1>3. 1 \in Elements /\ Elements = 1 .. NumElements /\ NumElements \in Nat \ {0}
  BY NumElementsAssumption DEF Elements
<1>4. PICK seqs, w : /\ seqs = [e \in Elements |-> EncodingOf(cp, programs[e])]
                     /\ w = ElementWords(cp)
  OBVIOUS
<1>5. w \in Nat
  BY <1>1, <1>4, ElementWordsType
<1>6. Len(seqs) = NumElements /\ \A k \in 1 .. NumElements : seqs[k] \in Seq(SUBSET Nat) /\ Len(seqs[k]) = w
  BY <1>2, <1>3, <1>4
<1>7. FlattenSeq(seqs) = Spread(seqs, NumElements, w)
  BY <1>3, <1>5, <1>6, Flattened
<1>8. BinaryOf(cp, programs) = Spread(seqs, NumElements, w)
  BY <1>1, <1>4, <1>7 DEF BinaryOf
<1>9. ASSUME NEW e \in Elements, NEW i \in 0 .. w - 1
      PROVE  BinaryOf(cp, programs)[Address(cp, e, i) + 1] = Word(cp, programs[e], i)
  <2>1. PICK k : k = e - 1
    OBVIOUS
  <2>2. k \in 0 .. NumElements - 1 /\ k + 1 = e
    BY <1>3, <2>1
  <2>3. NumElements \in Nat
    BY <1>3
  <2>5. Address(cp, e, i) = w * k + i
    BY <1>4, <2>1 DEF Address
  <2>4. Spread(seqs, NumElements, w)[Address(cp, e, i) + 1] = seqs[k + 1][i + 1]
    <3>1. i \in 0 .. w - 1 /\ k \in 0 .. NumElements - 1
      BY <2>2
    <3>2. Spread(seqs, NumElements, w)[w * k + i + 1] = seqs[k + 1][i + 1]
      BY <1>5, <2>3, <3>1, SpreadAt
    <3> QED BY <2>5, <3>2
  <2>6. seqs[k + 1][i + 1] = Word(cp, programs[e], i)
    BY <1>2, <1>4, <2>2
  <2> QED BY <1>8, <2>4, <2>5, <2>6
<1> QED BY <1>2, <1>3, <1>4, <1>9

\* The words of an instruction have 32 bits.
LEMMA PartWords ==
    ASSUME NEW ps, \A key \in Numbers : ps[key] \in Nat, Valid(ps), Device(ps),
           NEW p, Encodes(ps, p),
           NEW k \in 0 .. ps.num_instructions - 1, NEW j \in 0 .. WordsPerInstruction(ps) - 1
    PROVE  /\ Word(ps, p, Part(ps, k, j)) = Words(ps, p)[WordsPerInstruction(ps) * k + j]
           /\ Word(ps, p, Part(ps, k, j)) \in SUBSET Nat
           /\ Fits(Word(ps, p, Part(ps, k, j)), 32)
           /\ k >= Len(p.instructions) => Word(ps, p, Part(ps, k, j)) = {}
<1>1. PICK n, ni, nr, d, q : /\ n = WordsPerInstruction(ps) /\ ni = ps.num_instructions
                             /\ nr = ps.num_registers /\ d = n * k + j /\ q = Part(ps, k, j)
  OBVIOUS
<1>2. n \in Nat \ {0} /\ ni \in Nat /\ nr \in Nat /\ k \in Nat
  BY <1>1 DEF Device
<1>3. d \in Nat /\ d \div n = k
  BY <1>1, <1>2, WordIndex
<1>4. PICK x, long : x = n * k /\ long = n * ni
  OBVIOUS
<1>5. x \in Nat /\ long \in Nat /\ d = x + j /\ q = nr + x + j
  <2>1. d = x + j
    BY <1>1, <1>4
  <2>2. q = nr + x + j
    BY <1>1, <1>4 DEF Part
  <2> QED BY <1>2, <1>4, <2>1, <2>2
<1>6. q - nr = d /\ ~ (q < nr)
  BY <1>1, <1>2, <1>5
<1>7. Word(ps, p, q) = Words(ps, p)[d]
  BY <1>1, <1>6 DEF Word
<1>8. d \in 0 .. long - 1
  <2>1. q \in nr .. ElementWords(ps) - 1
    BY <1>1, PartIs
  <2>2. ElementWords(ps) = nr + long
    BY <1>1, <1>4 DEF ElementWords
  <2> QED BY <1>2, <1>3, <1>5, <1>6, <2>1, <2>2
<1>9. /\ Words(ps, p)[d] \in SUBSET Nat /\ Fits(Words(ps, p)[d], 32)
      /\ d \div n >= Len(p.instructions) => Words(ps, p)[d] = {}
  BY <1>1, <1>2, <1>4, <1>8, WordsAre
<1> QED BY <1>1, <1>3, <1>7, <1>9

-----------------------------------------------------------------------------
(* Writing the binary into the device.                                   *)

LoadStages == {"loading", "loaded", "ran"}

\* Before it is written to, the device is empty.
NothingWritten ==
    /\ stage = "start" => written = 0
    /\ stage \in Accepted \ LoadStages =>
        /\ written = 0
        /\ registers = [e \in Elements |-> [r \in 0 .. cp.num_registers - 1 |-> 0]]
        /\ memory = [e \in Elements |-> [k \in 0 .. cp.num_instructions - 1 |-> {}]]

\* The binary is that of the programs.
BinaryWritten == stage \in Encoded => binary = BinaryOf(cp, programs)

\* The words that have been written are where they belong.
WordsWritten ==
    stage \in LoadStages /\ Matching =>
        /\ Len(binary) = NumElements * ElementWords(cp)
        /\ written \in 0 .. Len(binary) /\ (stage # "loading" => written = Len(binary))
        /\ RegistersHold(cp, programs, registers, written)
        /\ MemoryHolds(cp, programs, memory, written)

LoadInv == ToolInv /\ NothingWritten /\ BinaryWritten /\ WordsWritten

\* Nothing has been loaded in the initial states.
LEMMA InitLoadInv == Init => LoadInv
BY InitToolInv DEF Init, LoadInv, NothingWritten, BinaryWritten, WordsWritten, Accepted,
                   Understood, Encoded, LoadStages

\* Nothing has arrived of an empty binary.
LEMMA NothingArrived ==
    ASSUME NEW ps, Device(ps), NEW progs
    PROVE  /\ RegistersHold(ps, progs, [e \in Elements |-> [r \in 0 .. ps.num_registers - 1 |-> 0]], 0)
           /\ MemoryHolds(ps, progs, [e \in Elements |-> [k \in 0 .. ps.num_instructions - 1 |-> {}]], 0)
<1>1. ASSUME NEW e \in Elements, NEW i \in 0 .. ElementWords(ps) - 1
      PROVE  ~ (Address(ps, e, i) < 0)
  <2>1. PICK most : most = NumElements * ElementWords(ps) - 1
    OBVIOUS
  <2>2. Address(ps, e, i) \in 0 .. most
    BY <2>1, AddressIs
  <2> QED BY <2>2
<1>2. ps.num_registers \in Nat /\ ps.num_registers <= ElementWords(ps) /\ ElementWords(ps) \in Nat
  BY ElementWordsType DEF Device
<1>3. ASSUME NEW e \in Elements, NEW r \in 0 .. ps.num_registers - 1
      PROVE  ~ (Address(ps, e, r) < 0)
  <2>1. r \in 0 .. ElementWords(ps) - 1
    BY <1>2
  <2> QED BY <1>1, <2>1
<1>4. RegistersHold(ps, progs, [e \in Elements |-> [r \in 0 .. ps.num_registers - 1 |-> 0]], 0)
  BY <1>3 DEF RegistersHold
<1>5. ASSUME NEW e \in Elements, NEW k \in 0 .. ps.num_instructions - 1
      PROVE  Filled(ps, progs[e], e, k, 0) = {}
  <2>1. ASSUME NEW j \in 0 .. WordsPerInstruction(ps) - 1
        PROVE  ~ (Address(ps, e, Part(ps, k, j)) < 0)
    <3>1. Part(ps, k, j) \in ps.num_registers .. ElementWords(ps) - 1
      BY PartIs
    <3>2. Part(ps, k, j) \in 0 .. ElementWords(ps) - 1
      BY <1>2, <3>1
    <3> QED BY <1>1, <3>2
  <2>2. Arrived(ps, e, k, 0) = {}
    BY <2>1 DEF Arrived
  <2> QED BY <2>2 DEF Filled
<1>6. MemoryHolds(ps, progs, [e \in Elements |-> [k \in 0 .. ps.num_instructions - 1 |-> {}]], 0)
  BY <1>5 DEF MemoryHolds
<1> QED BY <1>4, <1>6

\* The assembler writes the binary as the invariant has it.
LEMMA AssembleLoadInv == ASSUME LoadInv, Assemble PROVE LoadInv'
<1>1. ToolInv'
  BY AssembleInv DEF LoadInv
<1>2. stage = "validated" /\ UNCHANGED <<cp, programs, written, registers, memory>>
  BY DEF Assemble
<1>3. \/ stage' = "assembled" /\ binary' = FlattenSeq([n \in DOMAIN programs |-> Encoding(programs[n])])
      \/ stage' = "refused"
  BY DEF Assemble, Stop
<1>4. NothingWritten'
  BY <1>2, <1>3 DEF LoadInv, NothingWritten, Accepted, LoadStages
<1>5. BinaryWritten'
  <2>1. CASE stage' = "refused"
    BY <2>1 DEF BinaryWritten, Encoded, Understood, Accepted
  <2>2. CASE stage' = "assembled" /\ binary' = FlattenSeq([n \in DOMAIN programs |-> Encoding(programs[n])])
    <3>1. binary' = BinaryOf(cp, programs)
      BY <2>2, EncodingOfIs DEF BinaryOf
    <3> QED BY <1>2, <3>1 DEF BinaryWritten
  <2> QED BY <1>3, <2>1, <2>2
<1>6. WordsWritten'
  BY <1>3 DEF WordsWritten, LoadStages
<1> QED BY <1>1, <1>4, <1>5, <1>6 DEF LoadInv

\* Reading the binary leaves the memories as they are.
LEMMA ReadBinaryLoadInv == ASSUME LoadInv, ReadBinary PROVE LoadInv'
<1>1. ToolInv'
  BY ToolInvStep DEF LoadInv, Next
<1>2. stage = "assembled" /\ UNCHANGED <<cp, programs, binary, written, registers, memory>>
  BY DEF ReadBinary
<1>3. \/ stage' = "loading" /\ Len(binary) = NumElements * IndividualWords
      \/ stage' = "refused"
  BY DEF ReadBinary, Stop
<1>4. NothingWritten'
  BY <1>3 DEF NothingWritten, LoadStages, Accepted
<1>5. BinaryWritten'
  BY <1>2, <1>3 DEF LoadInv, BinaryWritten, Encoded, Understood, Accepted
<1>6. WordsWritten'
  <2> SUFFICES ASSUME stage' = "loading", Matching'
               PROVE  /\ Len(binary) = NumElements * ElementWords(cp)
                      /\ written \in 0 .. Len(binary)
                      /\ RegistersHold(cp, programs, registers, written)
                      /\ MemoryHolds(cp, programs, memory, written)
    BY <1>2, <1>3 DEF WordsWritten, LoadStages
  <2>1. stage \in Encoded /\ stage \in Accepted \ LoadStages
    BY <1>2 DEF Encoded, Understood, Accepted, LoadStages
  <2>2. Matching
    BY <1>2 DEF Matching, RegularWords, OneProgramEach
  <2>3. Device(cp) /\ IndividualWords = ElementWords(cp)
    BY <2>1, <2>2, ProgramsEncode, BinaryIs DEF LoadInv
  <2>4. Len(binary) = NumElements * ElementWords(cp)
    BY <1>3, <2>3
  <2>5. /\ written = 0
        /\ registers = [e \in Elements |-> [r \in 0 .. cp.num_registers - 1 |-> 0]]
        /\ memory = [e \in Elements |-> [k \in 0 .. cp.num_instructions - 1 |-> {}]]
    BY <2>1 DEF LoadInv, NothingWritten
  <2>6. /\ RegistersHold(cp, programs, registers, written)
        /\ MemoryHolds(cp, programs, memory, written)
    BY <2>3, <2>5, NothingArrived
  <2>7. Len(binary) \in Nat
    <3>1. NumElements \in Nat /\ ElementWords(cp) \in Nat
      BY <2>3, ElementWordsType, NumElementsAssumption
    <3>2. NumElements * ElementWords(cp) \in Nat
      BY <3>1
    <3> QED BY <2>4, <3>2
  <2> QED BY <2>4, <2>5, <2>6, <2>7
<1> QED BY <1>1, <1>4, <1>5, <1>6 DEF LoadInv

\* A word more in the device.
LEMMA WordWritten ==
    ASSUME LoadInv, WriteNextWord, Matching, stage = "loading"
    PROVE  /\ RegistersHold(cp, programs, registers', written + 1)
           /\ MemoryHolds(cp, programs, memory', written + 1)
           /\ written \in 0 .. Len(binary) - 1 /\ Len(binary) \in Nat
           /\ Len(binary) = NumElements * ElementWords(cp)
<1>1. stage \in Encoded /\ stage \in LoadStages
  BY DEF Encoded, Understood, Accepted, LoadStages
<1>2. /\ Device(cp) /\ Valid(cp) /\ (\A key \in Numbers : cp[key] \in Nat)
      /\ \A e \in Elements : Encodes(cp, programs[e])
  BY <1>1, ProgramsEncode DEF LoadInv
<1>3. /\ IndividualWords = ElementWords(cp)
      /\ \A e \in Elements : \A i \in 0 .. ElementWords(cp) - 1 :
             binary[Address(cp, e, i) + 1] = Word(cp, programs[e], i)
  BY <1>1, BinaryIs DEF LoadInv, BinaryWritten
<1>4. /\ Len(binary) = NumElements * ElementWords(cp) /\ written \in 0 .. Len(binary)
      /\ RegistersHold(cp, programs, registers, written)
      /\ MemoryHolds(cp, programs, memory, written)
  BY <1>1 DEF LoadInv, WordsWritten
<1>5. Len(binary) \in Nat
  <2>1. NumElements \in Nat /\ ElementWords(cp) \in Nat
    BY <1>2, ElementWordsType, NumElementsAssumption
  <2>2. NumElements * ElementWords(cp) \in Nat
    BY <2>1
  <2> QED BY <1>4, <2>2
<1>6. written < Len(binary)
  BY DEF WriteNextWord
<1>7. written \in 0 .. Len(binary) - 1
  BY <1>4, <1>5, <1>6
<1>8. PICK f, i : f = 1 + written \div IndividualWords /\ i = written % IndividualWords
  OBVIOUS
<1>9. f \in Elements /\ i \in 0 .. ElementWords(cp) - 1 /\ Address(cp, f, i) = written
  <2>1. written \in 0 .. NumElements * ElementWords(cp) - 1
    BY <1>4, <1>7
  <2> QED BY <1>2, <1>3, <1>8, <2>1, NextAddress
<1>10. binary[written + 1] = Word(cp, programs[f], i)
  BY <1>3, <1>9
<1>11. IF i < cp.num_registers
       THEN /\ registers' = [registers EXCEPT ![f][i] =
                                Number(Low(binary[written + 1], cp.device_word_width))]
            /\ UNCHANGED memory
       ELSE /\ memory' = [memory EXCEPT ![f] =
                             WriteWord(cp, @, i - cp.num_registers, binary[written + 1])]
            /\ UNCHANGED registers
  BY <1>8 DEF WriteNextWord
<1>12. PICK nr, ni, n : /\ nr = cp.num_registers /\ ni = cp.num_instructions
                        /\ n = WordsPerInstruction(cp)
  OBVIOUS
<1>13. nr \in Nat /\ ni \in Nat /\ n \in Nat \ {0} /\ i \in Nat
  <2>1. i \in Nat
    BY <1>2, <1>9, ElementWordsType
  <2> QED BY <1>2, <1>12, <2>1 DEF Device
<1>14. CASE i < nr
  <2>1. i \in 0 .. cp.num_registers - 1
    BY <1>12, <1>13, <1>14
  <2>2. /\ registers' = [registers EXCEPT ![f][i] =
                            Number(Low(Word(cp, programs[f], i), cp.device_word_width))]
        /\ memory' = memory
    BY <1>10, <1>11, <1>12, <1>14
  <2>3. /\ RegistersHold(cp, programs, [registers EXCEPT ![f][i] =
              Number(Low(Word(cp, programs[f], i), cp.device_word_width))], written + 1)
        /\ MemoryHolds(cp, programs, memory, written + 1)
    BY <1>2, <1>4, <1>9, <2>1, RegisterArrives
  <2> QED BY <1>4, <1>5, <1>7, <2>2, <2>3
<1>15. CASE ~ (i < nr)
  <2>1. PICK d, k, j : d = i - nr /\ k = d \div n /\ j = d % n
    OBVIOUS
  <2>2. PICK long, x : long = n * ni /\ x = n * k
    OBVIOUS
  <2>3. ElementWords(cp) = nr + long /\ long \in Nat
    BY <1>12, <1>13, <2>2 DEF ElementWords
  <2>4. d \in 0 .. long - 1
    BY <1>9, <1>13, <1>15, <2>1, <2>3
  <2>5. k \in Nat /\ j \in 0 .. n - 1 /\ d = n * k + j
    <3>1. d \in Nat /\ n > 0 /\ d \in Int /\ n \in Nat
      BY <1>13, <2>3, <2>4
    <3> QED BY <2>1, <3>1, Division, QuotientSmaller
  <2>6. k < ni
    <3> SUFFICES ASSUME k >= ni PROVE FALSE
      BY <1>13, <2>5
    <3>1. n * k >= n * ni
      BY <1>13, <2>5
    <3>2. x \in Int /\ x >= long /\ d = x + j
      BY <1>13, <2>2, <2>5, <3>1
    <3> QED BY <2>3, <2>4, <2>5, <3>2
  <2>7. k \in 0 .. cp.num_instructions - 1 /\ j \in 0 .. WordsPerInstruction(cp) - 1
    BY <1>12, <1>13, <2>5, <2>6
  <2>8. i = Part(cp, k, j)
    <3>1. Part(cp, k, j) = nr + x + j
      BY <1>12, <2>2 DEF Part
    <3>2. x \in Int /\ d = x + j
      BY <1>13, <2>2, <2>5
    <3>3. i = nr + d
      BY <1>13, <2>1
    <3> QED BY <1>13, <2>5, <3>1, <3>2, <3>3
  <2>9. ASSUME NEW l \in 0 .. n - 1
        PROVE  /\ Word(cp, programs[f], Part(cp, k, l)) \in SUBSET Nat
               /\ Fits(Word(cp, programs[f], Part(cp, k, l)), 32)
    BY <1>2, <1>9, <1>12, <2>7, PartWords
  <2>10. /\ memory' = [memory EXCEPT ![f] = WriteWord(cp, @, n * k + j,
                                                Word(cp, programs[f], Part(cp, k, j)))]
         /\ registers' = registers
    <3>1. i - cp.num_registers = n * k + j
      BY <1>12, <2>1, <2>5
    <3> QED BY <1>10, <1>11, <1>12, <1>15, <2>8, <3>1
  <2>11. 2 ^ WordIndexWidth(cp) = WordsPerInstruction(cp)
    BY DEF Matching, RegularWords
  <2>12. /\ RegistersHold(cp, programs, registers, written + 1)
         /\ MemoryHolds(cp, programs,
                [memory EXCEPT ![f] = WriteWord(cp, @, n * k + j,
                                          Word(cp, programs[f], Part(cp, k, j)))], written + 1)
    <3>1. written = Address(cp, f, Part(cp, k, j))
      BY <1>9, <2>8
    <3> QED BY <1>2, <1>4, <1>9, <1>12, <2>5, <2>7, <2>9, <2>11, <3>1, WordArrives
  <2> QED BY <1>4, <1>5, <1>7, <2>10, <2>12
<1> QED BY <1>14, <1>15

\* Every word written lands in the element and the slot it is for.
LEMMA WriteNextWordLoadInv == ASSUME LoadInv, WriteNextWord PROVE LoadInv'
<1>1. ToolInv'
  BY ToolInvStep DEF LoadInv, Next
<1>2. stage = "loading" /\ UNCHANGED <<cp, programs, binary>> /\ written' = written + 1
  BY DEF WriteNextWord
<1>3. stage' = IF written' = Len(binary) THEN "loaded" ELSE stage
  BY DEF WriteNextWord
<1>4. stage' \in {"loading", "loaded"}
  BY <1>2, <1>3
<1>5. NothingWritten'
  BY <1>4 DEF NothingWritten, LoadStages
<1>6. BinaryWritten'
  BY <1>2, <1>4 DEF LoadInv, BinaryWritten, Encoded, Understood, Accepted
<1>7. WordsWritten'
  <2> SUFFICES ASSUME Matching'
               PROVE  /\ Len(binary) = NumElements * ElementWords(cp)
                      /\ written' \in 0 .. Len(binary)
                      /\ stage' # "loading" => written' = Len(binary)
                      /\ RegistersHold(cp, programs, registers', written')
                      /\ MemoryHolds(cp, programs, memory', written')
    BY <1>2 DEF WordsWritten
  <2>1. Matching
    BY <1>2 DEF Matching, RegularWords, OneProgramEach
  <2>2. /\ RegistersHold(cp, programs, registers', written + 1)
        /\ MemoryHolds(cp, programs, memory', written + 1)
        /\ written \in 0 .. Len(binary) - 1 /\ Len(binary) \in Nat
        /\ Len(binary) = NumElements * ElementWords(cp)
    BY <1>2, <2>1, WordWritten
  <2>3. written' \in 0 .. Len(binary)
    BY <1>2, <2>2
  <2> QED BY <1>2, <1>3, <2>2, <2>3
<1> QED BY <1>1, <1>5, <1>6, <1>7 DEF LoadInv

\* Every step keeps the invariant of the loading.
LEMMA LoadInvStep == LoadInv /\ [Next]_vars => LoadInv'
<1> SUFFICES ASSUME LoadInv, [Next]_vars PROVE LoadInv'
  OBVIOUS
<1>1. ToolInv'
  BY ToolInvStep DEF LoadInv
<1>2. CASE ReadPlatform
  <2>1. \/ /\ stage' = "read" /\ written' = written
           /\ registers' = [e \in Elements |-> [r \in 0 .. cp'.num_registers - 1 |-> 0]]
           /\ memory' = [e \in Elements |-> [k \in 0 .. cp'.num_instructions - 1 |-> {}]]
        \/ stage' = "refused"
    BY <1>2 DEF ReadPlatform, Stop
  <2>2. stage' = "read" => written' = 0
    BY <1>2, <2>1 DEF ReadPlatform, LoadInv, NothingWritten
  <2> QED BY <1>1, <2>1, <2>2 DEF LoadInv, NothingWritten, BinaryWritten, WordsWritten, Accepted,
                          Understood, Encoded, LoadStages
<1>3. CASE Parse
  BY <1>1, <1>3 DEF Parse, Stop, LoadInv, NothingWritten, BinaryWritten, WordsWritten, Accepted,
                          Understood, Encoded, LoadStages
<1>4. CASE Validate
  BY <1>1, <1>4 DEF Validate, Stop, LoadInv, NothingWritten, BinaryWritten, WordsWritten, Accepted,
                          Understood, Encoded, LoadStages
<1>5. CASE Assemble
  BY <1>5, AssembleLoadInv
<1>6. CASE ReadBinary
  BY <1>6, ReadBinaryLoadInv
<1>7. CASE WriteNextWord
  BY <1>7, WriteNextWordLoadInv
<1>8. CASE RunInstruction
  <2>1. /\ stage = "loaded" /\ stage' = "ran"
        /\ UNCHANGED <<cp, programs, binary, written, registers, memory>>
    BY <1>8 DEF RunInstruction
  <2>2. Matching' => Matching
    BY <2>1 DEF Matching, RegularWords, OneProgramEach
  <2>3. NothingWritten' /\ BinaryWritten'
    BY <2>1 DEF LoadInv, NothingWritten, BinaryWritten, Accepted, Understood, Encoded, LoadStages
  <2>4. WordsWritten'
    BY <2>1, <2>2 DEF LoadInv, WordsWritten, LoadStages
  <2> QED BY <1>1, <2>3, <2>4 DEF LoadInv
<1>9. CASE UNCHANGED vars
  <2>1. UNCHANGED <<stage, cp, programs, binary, written, registers, memory>>
    BY <1>9 DEF vars
  <2>2. Matching' => Matching
    BY <2>1 DEF Matching, RegularWords, OneProgramEach
  <2>3. NothingWritten' /\ BinaryWritten' /\ WordsWritten'
    BY <2>1, <2>2 DEF LoadInv, NothingWritten, BinaryWritten, WordsWritten
  <2> QED BY <1>1, <2>3 DEF LoadInv
<1> QED BY <1>2, <1>3, <1>4, <1>5, <1>6, <1>7, <1>8, <1>9 DEF Next

\* The invariant of the loading, over a whole run.
LEMMA LoadInvAlways == Spec => []LoadInv
BY InitLoadInv, LoadInvStep, PTL DEF Spec

-----------------------------------------------------------------------------
(* The loaded device.                                                    *)

\* Every word of the binary has been written.
LEMMA EverythingWritten ==
    ASSUME LoadInv, stage \in {"loaded", "ran"}, Matching
    PROVE  /\ Device(cp) /\ Valid(cp) /\ (\A key \in Numbers : cp[key] \in Nat)
           /\ DOMAIN programs = Elements
           /\ \A e \in Elements : Encodes(cp, programs[e])
           /\ RegistersHold(cp, programs, registers, written)
           /\ MemoryHolds(cp, programs, memory, written)
           /\ \A e \in Elements : \A i \in 0 .. ElementWords(cp) - 1 : Address(cp, e, i) < written
<1>1. stage \in Encoded /\ stage \in LoadStages /\ stage # "loading"
  BY DEF Encoded, Understood, Accepted, LoadStages
<1>2. /\ Device(cp) /\ Valid(cp) /\ (\A key \in Numbers : cp[key] \in Nat)
      /\ DOMAIN programs = Elements
      /\ \A e \in Elements : Encodes(cp, programs[e])
  BY <1>1, ProgramsEncode DEF LoadInv
<1>3. /\ written = NumElements * ElementWords(cp)
      /\ RegistersHold(cp, programs, registers, written)
      /\ MemoryHolds(cp, programs, memory, written)
  BY <1>1 DEF LoadInv, WordsWritten
<1>4. written \in Nat
  <2>1. NumElements \in Nat /\ ElementWords(cp) \in Nat
    BY <1>2, ElementWordsType, NumElementsAssumption
  <2>2. NumElements * ElementWords(cp) \in Nat
    BY <2>1
  <2> QED BY <1>3, <2>2
<1>5. ASSUME NEW e \in Elements, NEW i \in 0 .. ElementWords(cp) - 1
      PROVE  Address(cp, e, i) < written
  <2>1. Address(cp, e, i) \in 0 .. NumElements * ElementWords(cp) - 1
    BY <1>2, AddressIs
  <2>2. Address(cp, e, i) \in 0 .. written - 1
    BY <1>3, <2>1
  <2> QED BY <1>4, <2>2
<1> QED BY <1>2, <1>3, <1>5

\* The registers hold their initial values.
LEMMA RegistersLoaded ==
    ASSUME LoadInv, stage \in {"loaded", "ran"}, Matching, NEW e \in Elements
    PROVE  RegistersAreFaithful(e)
<1>1. /\ Device(cp) /\ (\A key \in Numbers : cp[key] \in Nat)
      /\ Encodes(cp, programs[e])
      /\ RegistersHold(cp, programs, registers, written)
      /\ \A i \in 0 .. ElementWords(cp) - 1 : Address(cp, e, i) < written
  BY EverythingWritten
<1>2. PICK nr, dww, p : nr = cp.num_registers /\ dww = cp.device_word_width /\ p = programs[e]
  OBVIOUS
<1>3. nr \in Nat /\ dww \in Nat /\ nr <= ElementWords(cp) /\ ElementWords(cp) \in Nat
  BY <1>1, <1>2, ElementWordsType DEF Numbers
<1>4. ASSUME NEW r \in 0 .. nr - 1
      PROVE  /\ Address(cp, e, r) < written
             /\ Number(Low(Word(cp, p, r), dww)) = p.registers[r + 1] % 2 ^ dww
  <2>1. r \in 0 .. ElementWords(cp) - 1 /\ r < nr /\ r + 1 \in 1 .. nr
    BY <1>3
  <2>2. PICK v : v = p.registers[r + 1] % Pow(dww)
    OBVIOUS
  <2>3. p.registers[r + 1] \in Int
    BY <1>1, <1>2, <2>1 DEF Encodes
  <2>4. v \in Nat /\ v < Pow(dww)
    <3>1. PICK w : w = Pow(dww)
      OBVIOUS
    <3>2. w \in Nat /\ w > 0
      BY <1>3, <3>1, PowType
    <3>3. PICK x \in Int : x = p.registers[r + 1]
      BY <2>3
    <3>4. x % w \in 0 .. w - 1
      BY <3>2, Division
    <3> QED BY <2>2, <3>1, <3>2, <3>3, <3>4
  <2>5. Word(cp, p, r) = Bits(v)
    BY <1>2, <2>1, <2>2 DEF Word
  <2>6. Low(Bits(v), dww) = Bits(v)
    BY <1>3, <2>4, BitsBelow
  <2>7. Number(Bits(v)) = v
    BY <2>4, NumberOfBits
  <2> QED BY <1>1, <2>1, <2>2, <2>5, <2>6, <2>7 DEF Pow
<1>5. registers[e] = [r \in 0 .. nr - 1 |->
                         IF Address(cp, e, r) < written THEN Number(Low(Word(cp, p, r), dww)) ELSE 0]
  BY <1>1, <1>2 DEF RegistersHold
<1>6. registers[e] = [r \in 0 .. nr - 1 |-> p.registers[r + 1] % 2 ^ dww]
  BY <1>4, <1>5
<1> QED BY <1>2, <1>6 DEF RegistersAreFaithful

\* A slot of the instruction memory holds the code of its instruction.
LEMMA SlotLoaded ==
    ASSUME LoadInv, stage \in {"loaded", "ran"}, Matching, NEW e \in Elements,
           NEW k \in 1 .. cp.num_instructions,
           NEW instructions, instructions = programs[e].instructions
    PROVE  memory[e][k - 1] = IF k \in DOMAIN instructions
                              THEN build_machine_code_instruction(cp, instructions[k]) ELSE {}
<1>1. /\ Device(cp) /\ Valid(cp) /\ (\A key \in Numbers : cp[key] \in Nat)
      /\ Encodes(cp, programs[e])
      /\ MemoryHolds(cp, programs, memory, written)
      /\ \A i \in 0 .. ElementWords(cp) - 1 : Address(cp, e, i) < written
  BY EverythingWritten
<1>2. PICK nr, ni, n, p, q : /\ nr = cp.num_registers /\ ni = cp.num_instructions
                             /\ n = WordsPerInstruction(cp) /\ p = programs[e] /\ q = k - 1
  OBVIOUS
<1>3. nr \in Nat /\ ni \in Nat /\ n \in Nat \ {0} /\ cp.mm_instruction_width = 32 * n
  BY <1>1, <1>2 DEF Device
<1>4. q \in 0 .. cp.num_instructions - 1 /\ q \in Int /\ k \in Nat
  BY <1>2, <1>3
<1>5. Arrived(cp, e, q, written) = 0 .. n - 1
  <2>1. ASSUME NEW j \in 0 .. n - 1 PROVE Address(cp, e, Part(cp, q, j)) < written
    <3>1. Part(cp, q, j) \in nr .. ElementWords(cp) - 1
      BY <1>1, <1>2, <1>4, PartIs
    <3>2. ElementWords(cp) \in Nat
      BY <1>1, ElementWordsType
    <3>3. Part(cp, q, j) \in 0 .. ElementWords(cp) - 1
      BY <1>3, <3>1, <3>2
    <3> QED BY <1>1, <3>3
  <2> QED BY <1>2, <2>1 DEF Arrived
<1>6. memory[e][q] = UNION {Shift(Word(cp, p, Part(cp, q, j)), 32 * j) : j \in 0 .. n - 1}
  <2>1. memory[e][q] = Filled(cp, p, e, q, written)
    BY <1>1, <1>2, <1>4 DEF MemoryHolds
  <2> QED BY <1>5, <2>1 DEF Filled
<1>7. ASSUME NEW j \in 0 .. n - 1
      PROVE  /\ Word(cp, p, Part(cp, q, j)) = Words(cp, p)[n * q + j]
             /\ q >= Len(p.instructions) => Word(cp, p, Part(cp, q, j)) = {}
  BY <1>1, <1>2, <1>4, PartWords
<1>8. Listing(instructions) /\ Len(instructions) <= ni /\ p.instructions = instructions
  BY <1>1, <1>2 DEF Encodes
<1>9. PICK length \in Nat : length = Len(instructions)
  BY <1>8 DEF Listing
<1>10. DOMAIN instructions = 1 .. length
  BY <1>8, <1>9 DEF Listing
<1>11. CASE k \in DOMAIN instructions
  <2>1. PICK words, values : words = Words(cp, p) /\ values = p.registers
    OBVIOUS
  <2>2. Parsed(instructions[k]) /\ Sized(cp, instructions)
    BY <1>1, <1>2, <1>11 DEF Encodes
  <2>3. words = build_program_binary(cp, values, instructions).instructions
    BY <1>8, <2>1 DEF Words
  <2>4. k \in 1 .. Len(instructions)
    BY <1>9, <1>10, <1>11
  <2>5. Joined(words, n, q) = build_machine_code_instruction(cp, instructions[k])
    BY <1>1, <1>2, <1>8, <2>2, <2>3, <2>4, InstructionJoined
  <2>6. memory[e][q] = Joined(words, n, q)
    BY <1>6, <1>7, <2>1 DEF Joined
  <2> QED BY <1>2, <1>11, <2>5, <2>6
<1>12. CASE ~ (k \in DOMAIN instructions)
  <2>1. q >= Len(p.instructions)
    BY <1>2, <1>4, <1>8, <1>9, <1>10, <1>12
  <2>2. \A j \in 0 .. n - 1 : Word(cp, p, Part(cp, q, j)) = {}
    BY <1>7, <2>1
  <2>3. memory[e][q] = {}
    BY <1>6, <2>2 DEF Shift
  <2> QED BY <1>2, <1>12, <2>3
<1> QED BY <1>11, <1>12

\* What the hardware reads in a slot.
LEMMA SlotReads ==
    ASSUME LoadInv, stage \in {"loaded", "ran"}, Matching, NEW e \in Elements,
           NEW k \in 1 .. cp.num_instructions, NEW f, f = Stored(cp, memory[e], k - 1)
    PROVE  IF k \in DOMAIN programs[e].instructions
           THEN /\ f.vi = {0}
                /\ \A name \in FieldNames \cup {"immediate"} :
                       f[name] = Fields(cp, programs[e].instructions[k])[name]
           ELSE f.vi = {}
<1>1. /\ Valid(cp) /\ (\A key \in Numbers : cp[key] \in Nat) /\ Encodes(cp, programs[e])
  BY EverythingWritten
<1>2. PICK instructions, code : instructions = programs[e].instructions /\ code = memory[e][k - 1]
  OBVIOUS
<1>3. code = IF k \in DOMAIN instructions
             THEN build_machine_code_instruction(cp, instructions[k]) ELSE {}
  BY <1>2, SlotLoaded
<1>4. f = Unpack(HwWidth(cp), code, cp.immediate_width, HwPadding(cp))
  BY <1>2 DEF Stored
<1>5. CASE k \in DOMAIN instructions
  <2>1. PICK ins : ins = instructions[k]
    OBVIOUS
  <2>2. Parsed(ins) /\ Encodable(cp, ins)
    BY <1>1, <1>2, <1>5, <2>1 DEF Encodes, Sized
  <2>3. f = Unpack(HwWidth(cp), build_machine_code_instruction(cp, ins),
                   cp.immediate_width, HwPadding(cp))
    BY <1>3, <1>4, <1>5, <2>1
  <2>4. f.vi = {0} /\ \A name \in FieldNames \cup {"immediate"} : f[name] = Fields(cp, ins)[name]
    BY <1>1, <2>2, <2>3, CodeReads
  <2> QED BY <1>2, <1>5, <2>1, <2>4
<1>6. CASE ~ (k \in DOMAIN instructions)
  <2>1. f.vi = {}
    BY <1>3, <1>4, <1>6, NothingReads
  <2> QED BY <1>2, <1>6, <2>1
<1> QED BY <1>5, <1>6

\* A slot means to the hardware what its instruction means to the simulator.
LEMMA SlotMeans ==
    ASSUME LoadInv, stage \in {"loaded", "ran"}, Matching, NEW e \in Elements,
           NEW k \in 1 .. cp.num_instructions,
           k \in DOMAIN programs[e].instructions =>
               WithinArchitecture(programs[e].instructions[k])
    PROVE  SlotIsFaithful(e, k)
<1>1. /\ (\A key \in Numbers : cp[key] \in Nat) /\ Encodes(cp, programs[e])
  BY EverythingWritten
<1>2. PICK f : f = Stored(cp, memory[e], k - 1)
  OBVIOUS
<1>3. IF k \in DOMAIN programs[e].instructions
      THEN /\ f.vi = {0}
           /\ \A name \in FieldNames \cup {"immediate"} :
                  f[name] = Fields(cp, programs[e].instructions[k])[name]
      ELSE f.vi = {}
  BY <1>2, SlotReads
<1>4. ASSUME k \in DOMAIN programs[e].instructions
      PROVE  HardwareMeaning(f) = Meaning(programs[e].instructions[k])
  <2>1. PICK ins : ins = programs[e].instructions[k]
    OBVIOUS
  <2>2. Parsed(ins) /\ Encodable(cp, ins) /\ WithinArchitecture(ins)
    BY <1>1, <1>4, <2>1 DEF Encodes, Sized
  <2>3. \A name \in FieldNames \cup {"immediate"} : f[name] = Fields(cp, ins)[name]
    BY <1>3, <1>4, <2>1
  <2>4. cp.device_word_width = WordWidth
    BY DEF Matching
  <2> QED BY <1>1, <2>1, <2>2, <2>3, <2>4, MeaningRead
<1> QED BY <1>2, <1>3, <1>4 DEF SlotIsFaithful

\* What the assembler wrote and the host loaded, slot by slot and register by
\* register, is what the simulator runs, for any programs within the architecture.
THEOREM DeviceIsFaithful == Spec => []LoadedIsFaithful
<1>1. ASSUME LoadInv, stage \in {"loaded", "ran"}, Matching,
             \A n \in DOMAIN programs : \A k \in DOMAIN programs[n].instructions :
                 WithinArchitecture(programs[n].instructions[k])
      PROVE  Faithful
  <2>1. DOMAIN programs = Elements
    BY <1>1, EverythingWritten
  <2>2. ASSUME NEW e \in Elements PROVE RegistersAreFaithful(e)
    BY <1>1, RegistersLoaded
  <2>3. ASSUME NEW e \in Elements, NEW k \in 1 .. cp.num_instructions
        PROVE  SlotIsFaithful(e, k)
    <3>1. k \in DOMAIN programs[e].instructions => WithinArchitecture(programs[e].instructions[k])
      BY <1>1, <2>1
    <3> QED BY <1>1, <3>1, SlotMeans
  <2> QED BY <2>2, <2>3 DEF Faithful
<1>2. LoadInv => LoadedIsFaithful
  BY <1>1 DEF LoadedIsFaithful
<1> QED BY <1>2, LoadInvAlways, PTL

-----------------------------------------------------------------------------
(* The functional units, operation by operation.                           *)

Operand == 0 .. Modulus - 1

\* Bits of a word shifted are the word multiplied.
LEMMA NumberShift ==
    ASSUME NEW S \in SUBSET Nat, IsFiniteSet(S), NEW b \in Nat
    PROVE  /\ IsFiniteSet(Shift(S, b)) /\ Shift(S, b) \in SUBSET Nat
           /\ Number(Shift(S, b)) = Number(S) * Pow(b)
<1> DEFINE Good(n) == /\ IsFiniteSet(Shift(S, n)) /\ Shift(S, n) \in SUBSET Nat
                      /\ Number(Shift(S, n)) = Number(S) * Pow(n)
           T == {n \in Nat : Good(n)}
<1>0. Number(S) \in Nat
  BY NumberType
<1>1. 0 \in T
  <2>1. Shift(S, 0) = S
    <3>1. \A i \in S : i \in Nat /\ i + 0 = i
      OBVIOUS
    <3> QED BY <3>1 DEF Shift
  <2>2. Number(S) * Pow(0) = Number(S)
    BY <1>0, PowZero
  <2>3. IsFiniteSet(Shift(S, 0)) /\ Shift(S, 0) \in SUBSET Nat
    BY <2>1
  <2>4. Number(Shift(S, 0)) = Number(S) * Pow(0)
    BY <2>1, <2>2
  <2>5. Good(0)
    BY <2>3, <2>4
  <2> QED BY <2>5
<1>2. ASSUME NEW n \in Nat, n \in T PROVE n + 1 \in T
  <2>1. Good(n)
    BY <1>2
  <2>2. Shift(S, n + 1) = Shift(Shift(S, n), 1)
    <3>1. \A i \in S : i + (n + 1) = (i + n) + 1
      OBVIOUS
    <3>2. {i + 1 : i \in {j + n : j \in S}} = {(j + n) + 1 : j \in S}
      OBVIOUS
    <3>3. {j + (n + 1) : j \in S} = {(j + n) + 1 : j \in S}
      BY <3>1
    <3> QED BY <3>2, <3>3 DEF Shift
  <2>3. PICK R : R = Shift(S, n)
    OBVIOUS
  <2>4. /\ IsFiniteSet(Shift(R, 1)) /\ Shift(R, 1) \in SUBSET Nat
        /\ Number(Shift(R, 1)) = 2 * Number(R)
    BY <2>1, <2>3, NumberDouble
  <2>5. PICK s, p : s = Number(S) /\ p = Pow(n)
    OBVIOUS
  <2>6. s \in Nat /\ p \in Nat /\ Pow(n + 1) = 2 * p
    BY <1>0, <2>5, PowType, PowSucc
  <2>7. Number(R) = s * p
    BY <2>1, <2>3, <2>5
  <2>8. 2 * (s * p) = s * (2 * p)
    BY <2>6
  <2>9. Number(Shift(S, n + 1)) = Number(S) * Pow(n + 1)
    BY <2>2, <2>3, <2>4, <2>5, <2>6, <2>7, <2>8
  <2>10. IsFiniteSet(Shift(S, n + 1)) /\ Shift(S, n + 1) \in SUBSET Nat
    BY <2>2, <2>3, <2>4
  <2>11. Good(n + 1)
    BY <2>9, <2>10
  <2> QED BY <2>11
<1>3. Nat \subseteq T
  <2> HIDE DEF T
  <2> QED BY <1>1, <1>2, Induction
<1>4. Good(b)
  BY <1>3
<1> QED BY <1>4

\* What is not set in a word of k bits is its distance from the largest.
LEMMA NumberComplement ==
    ASSUME NEW k \in Nat, NEW S \in SUBSET (0 .. k - 1)
    PROVE  Number((0 .. k - 1) \ S) = Pow(k) - 1 - Number(S)
<1> DEFINE Good(n) == \A s \in SUBSET (0 .. n - 1) :
                          Number((0 .. n - 1) \ s) = Pow(n) - 1 - Number(s)
           T == {n \in Nat : Good(n)}
<1>1. 0 \in T
  <2>1. \A s \in SUBSET (0 .. 0 - 1) : s = {} /\ (0 .. 0 - 1) \ s = {}
    OBVIOUS
  <2>2. Pow(0) - 1 - Number({}) = Number({})
    BY PowZero, NumberEmpty
  <2>3. Good(0)
    BY <2>1, <2>2
  <2> QED BY <2>3
<1>2. ASSUME NEW n \in Nat, n \in T PROVE n + 1 \in T
  <2>1. Good(n)
    BY <1>2
  <2>2. ASSUME NEW s \in SUBSET (0 .. (n + 1) - 1)
        PROVE  Number((0 .. (n + 1) - 1) \ s) = Pow(n + 1) - 1 - Number(s)
    <3>1. PICK t, u : t = s \ {n} /\ u = (0 .. n - 1) \ t
      OBVIOUS
    <3>2. t \in SUBSET (0 .. n - 1) /\ u \in SUBSET (0 .. n - 1)
      BY <3>1
    <3>3. /\ IsFiniteSet(t) /\ IsFiniteSet(u) /\ t \in SUBSET Nat /\ u \in SUBSET Nat
          /\ n \notin t /\ n \notin u
      <4>1. IsFiniteSet(0 .. n - 1)
        BY FS_Interval
      <4>2. IsFiniteSet(t) /\ IsFiniteSet(u)
        BY <3>2, <4>1, FS_Subset
      <4> QED BY <3>2, <4>2
    <3>4. PICK p, v, w : p = Pow(n) /\ v = Number(t) /\ w = Number(u)
      OBVIOUS
    <3>5. /\ w = p - 1 - v /\ v \in Nat /\ w \in Nat
          /\ Pow(n + 1) = 2 * p /\ p \in Nat
      <4>1. Number(u) = Pow(n) - 1 - Number(t)
        BY <2>1, <3>1, <3>2
      <4>2. v \in Nat /\ w \in Nat
        BY <3>3, <3>4, NumberType
      <4>3. Pow(n + 1) = 2 * p /\ p \in Nat
        BY <3>4, PowSucc, PowType
      <4> QED BY <3>4, <4>1, <4>2, <4>3
    <3>6. CASE n \in s
      <4>1. s = t \cup {n} /\ (0 .. (n + 1) - 1) \ s = u
        BY <3>1, <3>6
      <4>2. Number(s) = p + v
        BY <3>3, <3>4, <4>1, NumberAdd
      <4>3. w = (2 * p) - 1 - (p + v)
        BY <3>5
      <4> QED BY <3>4, <3>5, <4>1, <4>2, <4>3
    <3>7. CASE n \notin s
      <4>1. s = t /\ (0 .. (n + 1) - 1) \ s = u \cup {n}
        BY <3>1, <3>7
      <4>2. Number(u \cup {n}) = p + w
        BY <3>3, <3>4, NumberAdd
      <4>3. p + w = (2 * p) - 1 - v
        BY <3>5
      <4> QED BY <3>4, <3>5, <4>1, <4>2, <4>3
    <3> QED BY <3>6, <3>7
  <2>3. Good(n + 1)
    BY <2>2
  <2> QED BY <2>3
<1>3. Nat \subseteq T
  <2> HIDE DEF T
  <2> QED BY <1>1, <1>2, Induction
<1>4. Good(k)
  BY <1>3
<1> QED BY <1>4

\* A word in two's complement differs from it by nothing or by the modulus.
LEMMA SignedIs ==
    ASSUME NEW a \in Operand
    PROVE  \E k \in Int : Signed(a) = a + k * Modulus
<1>1. Modulus \in Nat
  BY WordSize
<1>2. Signed(a) = a + 0 * Modulus \/ Signed(a) = a + (-1) * Modulus
  BY <1>1 DEF Signed, Operand
<1> QED BY <1>2

\* Wrapping forgets whole turns of the word, and nothing else.
LEMMA WrapCongruent ==
    ASSUME NEW x \in Int, NEW k \in Int
    PROVE  Wrap(x + k * Modulus) = Wrap(x) /\ Wrap(x) \in Operand
<1>1. PICK m, q, r : m = Modulus /\ q = x \div m /\ r = x % m
  OBVIOUS
<1>2. m \in Nat /\ m > 0
  BY <1>1, WordSize
<1>3. q \in Int /\ r \in 0 .. m - 1 /\ x = m * q + r
  BY <1>1, <1>2, Division
<1>4. PICK p : p = q + k
  OBVIOUS
<1>5. p \in Int /\ m * p = m * q + m * k /\ m * k = k * m
  BY <1>2, <1>3, <1>4
<1>6. PICK u, v : u = m * q /\ v = k * m
  OBVIOUS
<1>7. u \in Int /\ v \in Int
  BY <1>2, <1>3, <1>6
<1>8. x + v = m * p + r
  BY <1>3, <1>5, <1>6, <1>7
<1>9. (x + v) % m = r
  BY <1>2, <1>3, <1>5, <1>7, <1>8, Quotient
<1> QED BY <1>1, <1>3, <1>6, <1>9 DEF Wrap, Operand

\* An operand and its bits: the ones of a word, and each other's inverses.
LEMMA OperandBits ==
    ASSUME NEW a \in Operand
    PROVE  /\ a \in Nat /\ a < Pow(WordWidth)
           /\ Bits(a) \in SUBSET Positions /\ IsFiniteSet(Bits(a)) /\ Number(Bits(a)) = a
           /\ (a = 0 <=> Bits(a) = {})
<1>1. a \in Nat /\ a < Pow(WordWidth) /\ WordWidth \in Nat
  BY WordSize DEF Operand
<1>2. /\ Bits(a) \in SUBSET Nat /\ Fits(Bits(a), WordWidth)
      /\ IsFiniteSet(Bits(a)) /\ Number(Bits(a)) = a
  <2>1. a \in Int
    BY <1>1
  <2> QED BY <1>1, <2>1, BitsType, BitsBelow, BitsAre, NumberOfBits
<1>3. Bits(a) \in SUBSET Positions
  BY <1>1, <1>2 DEF Positions, Fits
<1>4. Bits(0) = {}
  <2>1. 0 < Pow(0)
    BY PowZero
  <2>2. Fits(Bits(0), 0) /\ Bits(0) \in SUBSET Nat
    BY <2>1, BitsBelow, BitsType
  <2> QED BY <2>2 DEF Fits
<1> QED BY <1>1, <1>2, <1>3, <1>4, NumberEmpty

\* Shifting left in the word is multiplying in it.
LEMMA ShiftLeft ==
    ASSUME NEW a \in Operand, NEW b \in Nat
    PROVE  Number(Low(Shift(Bits(a), b), WordWidth)) = Wrap(a * 2 ^ b)
<1>1. PICK n : n = a * Pow(b)
  OBVIOUS
<1>2. a \in Nat /\ Bits(a) \in SUBSET Nat /\ IsFiniteSet(Bits(a)) /\ Number(Bits(a)) = a
  BY OperandBits, WordSize DEF Positions
<1>3. /\ IsFiniteSet(Shift(Bits(a), b)) /\ Shift(Bits(a), b) \in SUBSET Nat
      /\ Number(Shift(Bits(a), b)) = n
  BY <1>1, <1>2, NumberShift
<1>4. n \in Nat
  BY <1>3, NumberType
<1>5. Bits(n) = Shift(Bits(a), b)
  BY <1>3, BitsOfNumber
<1>6. WordWidth \in Nat
  BY WordSize
<1>7. PICK r : r = n % Pow(WordWidth)
  OBVIOUS
<1>8. r \in Nat /\ Bits(r) = Low(Bits(n), WordWidth)
  BY <1>4, <1>6, <1>7, BitsOfRemainder
<1>9. Number(Low(Bits(n), WordWidth)) = r
  BY <1>8, NumberOfBits
<1> QED BY <1>1, <1>5, <1>7, <1>9, WordSize DEF Wrap, Pow

\* Shifting right is dividing.
LEMMA ShiftRight ==
    ASSUME NEW a \in Operand, NEW b \in Nat
    PROVE  Number(High(Bits(a), b)) = a \div 2 ^ b
<1>1. a \in Nat
  BY OperandBits
<1>2. a \div Pow(b) \in Nat /\ Bits(a \div Pow(b)) = High(Bits(a), b)
  BY <1>1, BitsOfQuotient
<1>3. Number(Bits(a \div Pow(b))) = a \div Pow(b)
  BY <1>2, NumberOfBits
<1> QED BY <1>2, <1>3 DEF Pow

\* The top bit is the sign.
LEMMA SignBit ==
    ASSUME NEW a \in Operand
    PROVE  /\ WordWidth - 1 \in Bits(a) => Signed(a) = a - Modulus
           /\ WordWidth - 1 \notin Bits(a) => Signed(a) = a
<1>1. PICK k, h : k = WordWidth - 1 /\ h = Pow(k)
  OBVIOUS
<1>2. k \in Nat /\ h \in Nat /\ h > 0 /\ Modulus = 2 * h /\ WordWidth = k + 1
  <2>1. WordWidth \in Nat \ {0} /\ Modulus = Pow(WordWidth)
    BY WordSize
  <2>2. k \in Nat /\ WordWidth = k + 1
    BY <1>1, <2>1
  <2>3. Pow(k + 1) = 2 * Pow(k) /\ Pow(k) \in Nat /\ k < Pow(k)
    BY <2>2, PowSucc, PowType
  <2> QED BY <1>1, <2>1, <2>2, <2>3
<1>3. Modulus \div 2 = h
  BY <1>2
<1>4. a \in Nat /\ Bits(a) \in SUBSET Positions /\ Number(Bits(a)) = a
      /\ Bits(a) = {i \in Nat : Bit(a, i)}
  <2>1. a \in Nat
    BY OperandBits
  <2> QED BY <2>1, OperandBits, BitsAre
<1>5. ASSUME k \in Bits(a) PROVE a >= h
  <2>1. SUFFICES ASSUME a < h PROVE FALSE
    BY <1>2, <1>4
  <2>2. Fits(Bits(a), k)
    <3>1. a \in Nat /\ k \in Nat /\ a < Pow(k)
      BY <1>1, <1>2, <1>4, <2>1
    <3> QED BY <3>1, BitsBelow
  <2> QED BY <1>2, <1>5, <2>2 DEF Fits
<1>6. ASSUME k \notin Bits(a) PROVE a < h
  <2>1. Bits(a) \in SUBSET Nat /\ Fits(Bits(a), k)
    BY <1>2, <1>4, <1>6 DEF Positions, Fits
  <2>2. Number(Bits(a)) < Pow(k)
    BY <1>2, <2>1, NumberBelow
  <2> QED BY <1>1, <1>4, <2>2
<1> QED BY <1>1, <1>2, <1>3, <1>4, <1>5, <1>6 DEF Signed

\* The arithmetic shift of a negative word: its complement is shifted.
LEMMA ShiftNegative ==
    ASSUME NEW a \in Operand, NEW b \in Nat, WordWidth - 1 \in Bits(a)
    PROVE  Wrap(Signed(a) \div 2 ^ b)
               = Number({i \in Positions : i + b < WordWidth => i + b \in Bits(a)})
<1>1. PICK m, w, c, p, q, r : /\ m = Modulus /\ w = WordWidth /\ c = (m - 1) - a
                              /\ p = Pow(b) /\ q = c \div p /\ r = c % p
  OBVIOUS
<1>2. /\ m \in Nat /\ m > 0 /\ m = Pow(w) /\ w \in Nat /\ a \in Nat /\ a < m
      /\ c \in Nat /\ c < m /\ p \in Nat /\ p > 0 /\ Positions = 0 .. w - 1
  <2>1. m \in Nat /\ m = Pow(w) /\ w \in Nat \ {0} /\ m > w
    BY <1>1, WordSize
  <2>2. p \in Nat /\ b < p
    BY <1>1, PowType
  <2>3. Positions = 0 .. w - 1
    BY <1>1 DEF Positions
  <2>4. a \in Nat /\ a < m
    BY <1>1, <2>1 DEF Operand
  <2>5. c \in Nat /\ c < m
    BY <1>1, <2>1, <2>4
  <2> QED BY <2>1, <2>2, <2>3, <2>4, <2>5
<1>3. Bits(c) = Positions \ Bits(a)
  <2>1. Bits(a) \in SUBSET (0 .. w - 1) /\ Number(Bits(a)) = a
    BY <1>2, OperandBits
  <2>2. Number((0 .. w - 1) \ Bits(a)) = Pow(w) - 1 - Number(Bits(a))
    BY <1>2, <2>1, NumberComplement
  <2>3. Number((0 .. w - 1) \ Bits(a)) = c
    BY <1>1, <1>2, <2>1, <2>2
  <2>4. (0 .. w - 1) \ Bits(a) \in SUBSET Nat /\ IsFiniteSet((0 .. w - 1) \ Bits(a))
    <3>1. IsFiniteSet(0 .. w - 1)
      BY <1>2, FS_Interval
    <3>2. (0 .. w - 1) \ Bits(a) \subseteq 0 .. w - 1
      OBVIOUS
    <3>3. IsFiniteSet((0 .. w - 1) \ Bits(a))
      BY <3>1, <3>2, FS_Subset
    <3> QED BY <1>2, <3>3
  <2>5. Bits(Number((0 .. w - 1) \ Bits(a))) = (0 .. w - 1) \ Bits(a)
    BY <2>4, BitsOfNumber
  <2> QED BY <1>2, <2>3, <2>5
<1>4. q \in Nat /\ q < m /\ Bits(q) = High(Bits(c), b) /\ r \in 0 .. p - 1 /\ c = p * q + r
  <2>1. q \in Nat /\ q <= c
    BY <1>1, <1>2, QuotientSmaller
  <2>2. Bits(q) = High(Bits(c), b)
    BY <1>1, <1>2, BitsOfQuotient
  <2>3. r \in 0 .. p - 1 /\ c = p * q + r
    <3>1. c \in Int
      BY <1>2
    <3> QED BY <1>1, <1>2, <3>1, Division
  <2> QED BY <1>2, <2>1, <2>2, <2>3
<1>5. (a - m) \div p = - 1 - q
  <2>1. PICK u, s, v : u = p * q /\ s = (p - 1) - r /\ v = - 1 - q
    OBVIOUS
  <2>2. u \in Int /\ s \in 0 .. p - 1 /\ v \in Int
    BY <1>2, <1>4, <2>1
  <2>3. p * v = - p - u
    BY <1>2, <1>4, <2>1
  <2>4. a - m = - 1 - c
    <3>1. c = m - 1 - a
      BY <1>1
    <3> QED BY <1>2, <3>1
  <2>5. a - m = p * v + s
    BY <1>2, <1>4, <2>1, <2>2, <2>3, <2>4
  <2>6. a - m \in Int
    BY <1>2
  <2>7. (a - m) \div p = v
    BY <1>2, <2>2, <2>5, <2>6, Quotient
  <2> QED BY <2>1, <2>7
<1>6. Wrap(- 1 - q) = (m - 1) - q
  <2>1. PICK x, y, z : x = - 1 - q /\ y = (m - 1) - q /\ z = -1
    OBVIOUS
  <2>2. x \in Int /\ y \in 0 .. m - 1 /\ z \in Int
    BY <1>2, <1>4, <2>1
  <2>3. x = m * z + y
    <3>1. m * z = - m
      BY <1>2, <2>1
    <3> QED BY <1>2, <1>4, <2>1, <3>1
  <2>4. x % m = y
    BY <1>2, <2>2, <2>3, Quotient
  <2> QED BY <1>1, <2>1, <2>4 DEF Wrap
<1>7. PICK S : S = Bits(q)
  OBVIOUS
<1>8. S \in SUBSET (0 .. w - 1) /\ Number(S) = q
  <2>1. q \in Operand
    BY <1>1, <1>2, <1>4 DEF Operand
  <2> QED BY <1>2, <1>7, <2>1, OperandBits
<1>9. Number((0 .. w - 1) \ S) = (m - 1) - q
  <2>1. Number((0 .. w - 1) \ S) = Pow(w) - 1 - Number(S)
    BY <1>2, <1>8, NumberComplement
  <2> QED BY <1>2, <1>4, <1>8, <2>1
<1>10. (0 .. w - 1) \ S = {i \in Positions : i + b < w => i + b \in Bits(a)}
  <2>1. ASSUME NEW i \in 0 .. w - 1
        PROVE  i \in S <=> i + b < w /\ i + b \notin Bits(a)
    <3>1. \A j \in Bits(c) : j \in Nat /\ j < w
      BY <1>2, <1>3
    <3>2. i \in S <=> \E j \in Bits(c) : j >= b /\ i = j - b
      BY <1>4, <1>7 DEF High
    <3>3. i \in Nat /\ i + b \in Nat /\ i + b >= b /\ i = (i + b) - b
      BY <1>2
    <3>4. i \in S <=> i + b \in Bits(c)
      <4>1. ASSUME NEW j \in Bits(c), i = j - b PROVE i + b \in Bits(c)
        <5>1. j = i + b
          BY <3>1, <3>3, <4>1
        <5> QED BY <4>1, <5>1
      <4> QED BY <3>2, <3>3, <4>1
    <3>5. i + b \in Bits(c) <=> i + b \in 0 .. w - 1 /\ i + b \notin Bits(a)
      BY <1>2, <1>3
    <3> QED BY <1>2, <3>3, <3>4, <3>5
  <2> QED BY <1>2, <2>1
<1>11. Signed(a) = a - m
  BY <1>1, SignBit
<1> QED BY <1>1, <1>5, <1>6, <1>9, <1>10, <1>11 DEF Pow

\* The arithmetic shift to the right, in the hardware and in the simulator.
LEMMA ShiftArithmetic ==
    ASSUME NEW a \in Operand, NEW b \in Nat
    PROVE  SignedUnit("asr", a, b) = ReferenceArithmetic("asr", a, b)
<1>1. PICK kept : kept = {i \in Positions : IF i + b < WordWidth THEN i + b \in Bits(a)
                                            ELSE WordWidth - 1 \in Bits(a)}
  OBVIOUS
<1>2. /\ SignedUnit("asr", a, b) = Number(kept)
      /\ ReferenceArithmetic("asr", a, b) = Wrap(Signed(a) \div 2 ^ b)
  BY <1>1 DEF SignedUnit, ReferenceArithmetic
<1>3. CASE WordWidth - 1 \in Bits(a)
  <2>1. kept = {i \in Positions : i + b < WordWidth => i + b \in Bits(a)}
    BY <1>1, <1>3
  <2> QED BY <1>2, <1>3, <2>1, ShiftNegative
<1>4. CASE WordWidth - 1 \notin Bits(a)
  <2>1. a \in Nat /\ Bits(a) \in SUBSET Positions /\ WordWidth \in Nat
    BY OperandBits, WordSize
  <2>2. kept = {i \in Positions : i + b < WordWidth /\ i + b \in Bits(a)}
    BY <1>1, <1>4
  <2>3. kept = High(Bits(a), b)
    <3>1. \A j \in Bits(a) : j \in Nat /\ j < WordWidth
      BY <2>1 DEF Positions
    <3>2. ASSUME NEW j \in Bits(a), j >= b PROVE j - b \in kept
      <4>1. j - b \in Positions /\ (j - b) + b = j /\ j < WordWidth
        BY <2>1, <3>1, <3>2 DEF Positions
      <4> QED BY <2>2, <4>1
    <3>3. ASSUME NEW i \in kept PROVE i + b \in Bits(a) /\ i + b >= b /\ (i + b) - b = i
      BY <2>1, <2>2 DEF Positions
    <3> QED BY <3>2, <3>3 DEF High
  <2>4. Number(kept) = a \div 2 ^ b
    BY <2>3, ShiftRight
  <2>5. Wrap(a \div 2 ^ b) = a \div 2 ^ b
    <3>1. PICK q : q = a \div Pow(b)
      OBVIOUS
    <3>2. q \in Nat /\ q <= a
      <4>1. Pow(b) \in Nat /\ b < Pow(b)
        BY PowType
      <4>2. Pow(b) > 0
        BY <4>1
      <4> QED BY <2>1, <3>1, <4>1, <4>2, QuotientSmaller
    <3>3. Modulus \in Nat /\ Modulus > 0 /\ q < Modulus
      BY <2>1, <3>2, WordSize DEF Operand
    <3>4. q % Modulus = q
      BY <3>2, <3>3, QuotientSmaller
    <3> QED BY <3>1, <3>4 DEF Wrap, Pow
  <2>6. Signed(a) = a
    BY <1>4, SignBit
  <2> QED BY <1>2, <2>4, <2>5, <2>6
<1> QED BY <1>3, <1>4

\* Sums and differences do not depend on how a word is read, nor do products
\* that are cut to the word before they are added.
LEMMA Congruences ==
    ASSUME NEW a \in Operand, NEW b \in Operand, NEW c \in Operand
    PROVE  /\ Wrap(Signed(a) + Signed(b)) = Wrap(a + b)
           /\ Wrap(Signed(a) - Signed(b)) = Wrap(a - b)
           /\ Wrap(Signed(a) + Signed(b) * Signed(c)) = Wrap(a + Wrap(Signed(b) * Signed(c)))
<1>1. PICK k \in Int : Signed(a) = a + k * Modulus
  BY SignedIs
<1>2. PICK l \in Int : Signed(b) = b + l * Modulus
  BY SignedIs
<1>3. PICK n \in Int : Signed(c) = c + n * Modulus
  BY SignedIs
<1>4. PICK m, p : m = Modulus /\ p = Signed(b) * Signed(c)
  OBVIOUS
<1>5. a \in Int /\ b \in Int /\ c \in Int /\ m \in Nat /\ m > 0
  <2>1. m \in Nat /\ m > 0
    BY <1>4, WordSize
  <2> QED BY <1>4, <2>1 DEF Operand
<1>6. /\ Signed(a) = a + k * m /\ Signed(b) = b + l * m
      /\ k * m \in Int /\ l * m \in Int
      /\ (k + l) * m = k * m + l * m /\ (k - l) * m = k * m - l * m
  BY <1>1, <1>2, <1>4, <1>5
<1>7. PICK q : q = p \div m
  OBVIOUS
<1>8. p \in Int
  <2>1. Signed(b) \in Int /\ Signed(c) \in Int
    <3>1. n * m \in Int
      BY <1>5
    <3> QED BY <1>3, <1>4, <1>5, <1>6, <3>1
  <2> QED BY <1>4, <2>1
<1>9. q \in Int /\ p % m \in 0 .. m - 1 /\ p = m * q + (p % m)
  BY <1>5, <1>7, <1>8, Division
<1>10. Wrap(Signed(a) + Signed(b)) = Wrap(a + b)
  <2>1. PICK x, y, d : x = a + b /\ d = k + l /\ y = Signed(a) + Signed(b)
    OBVIOUS
  <2>2. x \in Int /\ d \in Int /\ y = x + d * Modulus
    BY <1>4, <1>5, <1>6, <2>1
  <2>3. Wrap(x + d * Modulus) = Wrap(x)
    BY <2>2, WrapCongruent
  <2> QED BY <2>1, <2>2, <2>3
<1>11. Wrap(Signed(a) - Signed(b)) = Wrap(a - b)
  <2>1. PICK x, y, d : x = a - b /\ d = k - l /\ y = Signed(a) - Signed(b)
    OBVIOUS
  <2>2. x \in Int /\ d \in Int /\ y = x + d * Modulus
    BY <1>4, <1>5, <1>6, <2>1
  <2>3. Wrap(x + d * Modulus) = Wrap(x)
    BY <2>2, WrapCongruent
  <2> QED BY <2>1, <2>2, <2>3
<1>12. Wrap(Signed(a) + p) = Wrap(a + Wrap(p))
  <2>1. PICK r, x, y, d : /\ r = p % m /\ x = a + r /\ d = k + q /\ y = Signed(a) + p
    OBVIOUS
  <2>2. r \in Int /\ x \in Int /\ d \in Int
    BY <1>5, <1>9, <2>1
  <2>3. d * m = k * m + q * m /\ q * m = m * q /\ q * m \in Int
    BY <1>5, <1>9, <2>1
  <2>4. PICK u, v : u = k * m /\ v = q * m
    OBVIOUS
  <2>5. u \in Int /\ v \in Int /\ y = (a + u) + (v + r) /\ d * m = u + v
    BY <1>6, <1>9, <2>1, <2>3, <2>4
  <2>6. y = x + d * m
    BY <1>5, <2>1, <2>2, <2>5
  <2>7. Wrap(x + d * Modulus) = Wrap(x)
    BY <2>2, WrapCongruent
  <2>8. Wrap(p) = r
    BY <1>4, <2>1 DEF Wrap
  <2> QED BY <1>4, <2>1, <2>6, <2>7, <2>8
<1> QED BY <1>4, <1>10, <1>11, <1>12

\* The upper half of an unsigned product is a word.
LEMMA UpperHalf ==
    ASSUME NEW a \in Operand, NEW b \in Operand
    PROVE  Wrap((a * b) \div Modulus) = (a * b) \div Modulus
<1>1. PICK m, n, q, r : m = Modulus /\ n = a * b /\ q = n \div m /\ r = n % m
  OBVIOUS
<1>2. m \in Nat /\ m > 0 /\ a \in Nat /\ b \in Nat /\ a < m /\ b < m
  <2>1. m \in Nat /\ m > 0
    BY <1>1, WordSize
  <2> QED BY <1>1, <2>1 DEF Operand
<1>3. n \in Nat
  BY <1>1, <1>2
<1>4. q \in Nat /\ r \in 0 .. m - 1 /\ n = m * q + r
  <2>1. q \in Nat
    BY <1>1, <1>2, <1>3, QuotientSmaller
  <2>2. n \in Int
    BY <1>3
  <2> QED BY <1>1, <1>2, <2>1, <2>2, Division
<1>5. q < m
  <2>1. SUFFICES ASSUME q >= m PROVE FALSE
    BY <1>2, <1>4
  <2>2. PICK e : e = q - m
    OBVIOUS
  <2>3. e \in Nat /\ q = m + e
    BY <1>2, <1>4, <2>1, <2>2
  <2>4. m * q = m * m + m * e /\ m * e \in Nat /\ m * m \in Nat
    BY <1>2, <2>3
  <2>5. PICK s, t : s = m - a /\ t = m * s
    OBVIOUS
  <2>6. s \in Nat \ {0} /\ m = a + s
    BY <1>2, <2>5
  <2>7. a * b <= a * m
    <3>1. PICK u : u = m - b
      OBVIOUS
    <3>2. u \in Nat /\ m = b + u
      BY <1>2, <3>1
    <3>3. a * m = a * b + a * u /\ a * u \in Nat
      BY <1>2, <3>2
    <3> QED BY <1>1, <1>3, <3>3
  <2>8. m * m = a * m + s * m /\ s * m >= m /\ a * m \in Nat /\ s * m \in Nat
    <3>1. m * m = a * m + s * m /\ a * m \in Nat /\ s * m \in Nat
      BY <1>2, <2>6
    <3>2. PICK v : v = s - 1
      OBVIOUS
    <3>3. v \in Nat /\ s = v + 1
      BY <2>6, <3>2
    <3>4. s * m = v * m + m /\ v * m \in Nat
      BY <1>2, <3>3
    <3> QED BY <1>2, <3>1, <3>4
  <2>9. PICK f, g, h : f = a * m /\ g = s * m /\ h = m * e
    OBVIOUS
  <2>10. n <= f /\ g >= m /\ m * m = f + g /\ m * q = (f + g) + h
         /\ f \in Nat /\ g \in Nat /\ h \in Nat
    BY <1>1, <2>4, <2>7, <2>8, <2>9
  <2> QED BY <1>2, <1>3, <1>4, <2>10
<1>6. q % m = q
  BY <1>2, <1>4, <1>5, QuotientSmaller
<1> QED BY <1>1, <1>6 DEF Wrap

\* A bit within the word is named by the bits that name it.
LEMMA PositionIs ==
    ASSUME NEW b \in Nat, b < WordWidth PROVE Position(b) = b
<1>1. PICK k, p : k = Clog2(WordWidth) /\ p = Pow(k)
  OBVIOUS
<1>2. WordWidth \in Nat
  BY WordSize
<1>3. k \in Nat /\ WordWidth <= p
  <2>1. WordWidth \in Int
    BY <1>2
  <2> QED BY <1>1, <2>1, Clog2Least
<1>4. p \in Nat
  BY <1>1, <1>3, PowType
<1>5. p > 0 /\ b < p
  BY <1>2, <1>3, <1>4
<1>6. b % p = b
  BY <1>4, <1>5, QuotientSmaller
<1> QED BY <1>1, <1>6 DEF Position, Pow

\* The leading one of a word that has one.
LEMMA LeadingIs ==
    ASSUME NEW a \in Operand, a # 0
    PROVE  Leading(a) \in Positions /\ Wrap(WordWidth - 1 - Leading(a)) = WordWidth - 1 - Leading(a)
<1>1. Bits(a) \in SUBSET Positions /\ IsFiniteSet(Bits(a)) /\ Bits(a) # {}
  BY OperandBits
<1>2. Bits(a) \in SUBSET Nat
  BY <1>1, WordSize DEF Positions
<1>3. PICK S : S = Bits(a)
  OBVIOUS
<1>4. Max(S) \in S /\ \A y \in S : y <= Max(S)
  BY <1>1, <1>2, <1>3, Largest
<1>5. Leading(a) \in Positions
  BY <1>1, <1>3, <1>4 DEF Leading
<1>6. PICK n, m : n = WordWidth - 1 - Leading(a) /\ m = Modulus
  OBVIOUS
<1>7. n \in Nat /\ m \in Nat /\ m > 0 /\ n < m
  <2>1. WordWidth \in Nat \ {0} /\ m \in Nat /\ m > WordWidth
    BY <1>6, WordSize
  <2> QED BY <1>5, <1>6, <2>1 DEF Positions
<1>8. n % m = n
  BY <1>7, QuotientSmaller
<1> QED BY <1>5, <1>6, <1>8 DEF Wrap

\* The operations of the arithmetic unit agree.
LEMMA ArithmeticAgrees ==
    ASSUME NEW features, NEW a \in Operand, NEW b \in Operand, NEW c \in Operand,
           NEW op \in Arithmetic
    PROVE  HardwareResult(features, op, a, b, c) = Reference(op, a, b, c)
<1>0. b \in Nat
  BY OperandBits
<1>1. Reference(op, a, b, c) = ReferenceArithmetic(op, a, b)
  BY DEF Reference, Arithmetic, Comparisons, Logic, BitFields, Products
<1>2. CASE op = "nop"
  BY <1>1, <1>2 DEF HardwareResult, Products, UnsignedUnit, ReferenceArithmetic
<1>3. CASE op = "mov"
  BY <1>1, <1>3 DEF HardwareResult, Products, UnsignedUnit, ReferenceArithmetic
<1>4. CASE op = "add"
  BY <1>1, <1>4, Congruences DEF HardwareResult, Products, UnsignedUnit, ReferenceArithmetic
<1>5. CASE op = "sub"
  BY <1>1, <1>5, Congruences DEF HardwareResult, Products, UnsignedUnit, ReferenceArithmetic
<1>6. CASE op = "sl"
  <2>1. /\ HardwareResult(features, op, a, b, c) = Number(Low(Shift(Bits(a), b), WordWidth))
        /\ ReferenceArithmetic(op, a, b) = Wrap(a * 2 ^ b)
    BY <1>6 DEF HardwareResult, Products, UnsignedUnit, ReferenceArithmetic
  <2> QED BY <1>0, <1>1, <2>1, ShiftLeft
<1>7. CASE op = "asr"
  <2>1. HardwareResult(features, op, a, b, c) = SignedUnit("asr", a, b)
    BY <1>7 DEF HardwareResult, Products
  <2> QED BY <1>0, <1>1, <1>7, <2>1, ShiftArithmetic
<1>8. CASE op = "lsr"
  <2>1. /\ HardwareResult(features, op, a, b, c) = Number(High(Bits(a), b))
        /\ ReferenceArithmetic(op, a, b) = a \div 2 ^ b
    BY <1>8 DEF HardwareResult, Products, UnsignedUnit, ReferenceArithmetic
  <2> QED BY <1>0, <1>1, <2>1, ShiftRight
<1> QED BY <1>2, <1>3, <1>4, <1>5, <1>6, <1>7, <1>8 DEF Arithmetic

\* The comparisons agree.
LEMMA ComparisonsAgree ==
    ASSUME NEW features, NEW a \in Operand, NEW b \in Operand, NEW c \in Operand,
           NEW op \in Comparisons
    PROVE  HardwareResult(features, op, a, b, c) = Reference(op, a, b, c)
<1>1. Reference(op, a, b, c) = ReferenceComparison(op, a, b)
  BY DEF Reference, Arithmetic, Comparisons, Logic, BitFields, Products
<1>2. CASE op \in {"sgt", "slt", "sge", "sle"}
  <2>1. HardwareResult(features, op, a, b, c) = SignedUnit(op, a, b)
    BY <1>2 DEF HardwareResult, Products
  <2>2. SignedUnit(op, a, b) = ReferenceComparison(op, a, b)
    BY <1>2 DEF SignedUnit, ReferenceComparison
  <2> QED BY <1>1, <2>1, <2>2
<1>3. CASE op \in {"eq", "ne", "ugt", "ult", "uge", "ule"}
  <2>1. HardwareResult(features, op, a, b, c) = UnsignedUnit(op, a, b, c)
    BY <1>3 DEF HardwareResult, Products
  <2>2. UnsignedUnit(op, a, b, c) = ReferenceComparison(op, a, b)
    BY <1>3 DEF UnsignedUnit, ReferenceComparison
  <2> QED BY <1>1, <2>1, <2>2
<1> QED BY <1>2, <1>3 DEF Comparisons

\* The operations on whole words of bits agree.
LEMMA LogicAgrees ==
    ASSUME NEW features, NEW a \in Operand, NEW b \in Operand, NEW c \in Operand,
           NEW op \in Logic
    PROVE  HardwareResult(features, op, a, b, c) = Reference(op, a, b, c)
<1>1. Reference(op, a, b, c) = ReferenceLogic(op, a, b)
  BY DEF Reference, Arithmetic, Comparisons, Logic, BitFields, Products
<1>2. HardwareResult(features, op, a, b, c) = UnsignedUnit(op, a, b, c)
  BY DEF HardwareResult, Products, Logic
<1>3. (a = 0 <=> Bits(a) = {}) /\ (b = 0 <=> Bits(b) = {})
  BY OperandBits
<1>4. CASE op \in {"band", "bor", "land", "lor"}
  <2>1. UnsignedUnit(op, a, b, c) = ReferenceLogic(op, a, b)
    BY <1>3, <1>4 DEF UnsignedUnit, ReferenceLogic
  <2> QED BY <1>1, <1>2, <2>1
<1>5. CASE op = "bxor"
  <2>1. (Bits(a) \cup Bits(b)) \ (Bits(a) \cap Bits(b)) = (Bits(a) \ Bits(b)) \cup (Bits(b) \ Bits(a))
    OBVIOUS
  <2>2. UnsignedUnit(op, a, b, c) = ReferenceLogic(op, a, b)
    BY <1>5, <2>1 DEF UnsignedUnit, ReferenceLogic
  <2> QED BY <1>1, <1>2, <2>2
<1>6. CASE op = "lxor"
  <2>1. ((Bits(a) = {}) # (Bits(b) = {})) <=> ((a # 0) # (b # 0))
    BY <1>3
  <2>2. UnsignedUnit(op, a, b, c) = Flag((Bits(a) = {}) # (Bits(b) = {}))
    BY <1>6 DEF UnsignedUnit
  <2>3. ReferenceLogic(op, a, b) = Flag((a # 0) # (b # 0))
    BY <1>6 DEF ReferenceLogic
  <2> QED BY <1>1, <1>2, <2>1, <2>2, <2>3 DEF Flag
<1> QED BY <1>4, <1>5, <1>6 DEF Logic

\* The operations on single bits and the counts of zeros agree where comparable.
LEMMA BitFieldsAgree ==
    ASSUME NEW features, NEW a \in Operand, NEW b \in Operand, NEW c \in Operand,
           NEW op \in BitFields,
           op \in {"gb", "sb", "cb", "mb"} => b < WordWidth, op \in {"clz", "ctz"} => a # 0
    PROVE  HardwareResult(features, op, a, b, c) = Reference(op, a, b, c)
<1>1. Reference(op, a, b, c) = ReferenceBits(op, a, b, c)
  BY DEF Reference, Arithmetic, Comparisons, Logic, BitFields, Products
<1>2. HardwareResult(features, op, a, b, c) = UnsignedUnit(op, a, b, c)
  BY DEF HardwareResult, Products, BitFields
<1>3. CASE op \in {"gb", "sb", "cb", "mb"}
  <2>1. Position(b) = b
    BY <1>3, OperandBits, PositionIs
  <2>2. {Position(b)} \cap Positions = OneAt(b)
    BY <2>1 DEF OneAt
  <2>3. CASE op = "gb"
    <3>1. UnsignedUnit(op, a, b, c) = ReferenceBits(op, a, b, c)
      BY <2>1, <2>3 DEF UnsignedUnit, ReferenceBits
    <3> QED BY <1>1, <1>2, <3>1
  <2>4. CASE op = "sb"
    <3>1. UnsignedUnit(op, a, b, c) = ReferenceBits(op, a, b, c)
      BY <2>2, <2>4 DEF UnsignedUnit, ReferenceBits
    <3> QED BY <1>1, <1>2, <3>1
  <2>5. CASE op = "cb"
    <3>1. UnsignedUnit(op, a, b, c) = ReferenceBits(op, a, b, c)
      BY <2>2, <2>5 DEF UnsignedUnit, ReferenceBits
    <3> QED BY <1>1, <1>2, <3>1
  <2>6. CASE op = "mb"
    <3>1. UnsignedUnit(op, a, b, c) = ReferenceBits(op, a, b, c)
      BY <2>2, <2>6 DEF UnsignedUnit, ReferenceBits
    <3> QED BY <1>1, <1>2, <3>1
  <2> QED BY <1>3, <2>3, <2>4, <2>5, <2>6
<1>4. CASE op = "clz"
  <2>1. a # 0
    BY <1>4
  <2>2. Wrap(WordWidth - 1 - Leading(a)) = WordWidth - 1 - Leading(a)
    BY <2>1, LeadingIs
  <2>3. UnsignedUnit(op, a, b, c) = ReferenceBits(op, a, b, c)
    BY <1>4, <2>1, <2>2 DEF UnsignedUnit, ReferenceBits
  <2> QED BY <1>1, <1>2, <2>3
<1>5. CASE op = "ctz"
  <2>1. a # 0
    BY <1>5
  <2>2. UnsignedUnit(op, a, b, c) = ReferenceBits(op, a, b, c)
    BY <1>5, <2>1 DEF UnsignedUnit, ReferenceBits
  <2> QED BY <1>1, <1>2, <2>2
<1> QED BY <1>3, <1>4, <1>5 DEF BitFields

\* The products agree when the multiplier is there to form them.
LEMMA ProductsAgree ==
    ASSUME NEW features, NEW a \in Operand, NEW b \in Operand, NEW c \in Operand,
           NEW op \in Products, "multiplier" \in features,
           op \in {"shmul", "uhmul"} => "two_word_product_multiplier" \in features
    PROVE  HardwareResult(features, op, a, b, c) = Reference(op, a, b, c)
<1>1. Reference(op, a, b, c) = ReferenceProduct(op, a, b, c)
  BY DEF Reference, Arithmetic, Comparisons, Logic, BitFields, Products
<1>2. HardwareResult(features, op, a, b, c) = Multiplier(features, op, a, b, c)
  BY DEF HardwareResult, Products
<1>3. CASE op = "lmul"
  BY <1>1, <1>2, <1>3 DEF Multiplier, ReferenceProduct
<1>4. CASE op = "shmul"
  BY <1>1, <1>2, <1>4 DEF Multiplier, ReferenceProduct
<1>5. CASE op = "uhmul"
  <2>1. Multiplier(features, op, a, b, c) = Wrap((a * b) \div Modulus)
    BY <1>5 DEF Multiplier
  <2>2. ReferenceProduct(op, a, b, c) = (a * b) \div Modulus
    BY <1>5 DEF ReferenceProduct
  <2> QED BY <1>1, <1>2, <2>1, <2>2, UpperHalf
<1>6. CASE op = "mac"
  <2>1. Multiplier(features, op, a, b, c) = Wrap(a + Wrap(Signed(b) * Signed(c)))
    BY <1>6 DEF Multiplier
  <2>2. ReferenceProduct(op, a, b, c) = Wrap(Signed(a) + Signed(b) * Signed(c))
    BY <1>6 DEF ReferenceProduct
  <2> QED BY <1>1, <1>2, <2>1, <2>2, Congruences
<1> QED BY <1>3, <1>4, <1>5, <1>6 DEF Products

\* The units compute what the reference does, wherever the two are comparable.
LEMMA UnitsAgree ==
    ASSUME NEW a \in Operand, NEW b \in Operand, NEW c \in Operand,
           NEW op, NEW operands, operands = <<a, b, c>>, Comparable(op, operands)
    PROVE  HardwareResult(cp.has, op, a, b, c) = Reference(op, a, b, c)
<1>1. /\ op \in Implemented
      /\ op \in Products => "multiplier" \in cp.has
      /\ op \in {"shmul", "uhmul"} => "two_word_product_multiplier" \in cp.has
      /\ op \in {"gb", "sb", "cb", "mb"} => b < WordWidth
      /\ op \in {"clz", "ctz"} => a # 0
  BY DEF Comparable
<1>2. CASE op \in Arithmetic
  BY <1>2, ArithmeticAgrees
<1>3. CASE op \in Comparisons
  BY <1>3, ComparisonsAgree
<1>4. CASE op \in Logic
  BY <1>4, LogicAgrees
<1>5. CASE op \in BitFields
  BY <1>1, <1>5, BitFieldsAgree
<1>6. CASE op \in Products
  BY <1>1, <1>6, ProductsAgree
<1>7. CASE op \in {"halt", "lsw", "ssw"}
  <2>1. Reference(op, a, b, c) = 0
    BY <1>7 DEF Reference, Arithmetic, Comparisons, Logic, BitFields, Products
  <2>2. HardwareResult(cp.has, op, a, b, c) = 0
    BY <1>7 DEF HardwareResult, Products, UnsignedUnit
  <2> QED BY <2>1, <2>2
<1> QED BY <1>1, <1>2, <1>3, <1>4, <1>5, <1>6, <1>7 DEF Implemented

-----------------------------------------------------------------------------
(* Running an instruction on the loaded device.                          *)

\* t is a trial of instruction ins, which the hardware takes for an op on the
\* sources it fetches, with one of the immediates it may read.
TrialOf(t, e, k, ins, features, op, fetched, immediates) ==
    LET simulated == [j \in 1 .. 3 |-> SimulatorSource(ins, j)]
    IN  \E held \in [Named(simulated) \cup Named(fetched) -> Operands] :
        \E immediate \in immediates :
            LET a == OperandsOf(simulated, SimulatorImmediate(ins), held)
                b == OperandsOf(fetched, immediate, held)
            IN  t = [element   |-> e, number |-> k, operands |-> a,
                     simulator |-> IF ins.op \in Implemented
                                   THEN Reference(ins.op, a[1], a[2], a[3])
                                   ELSE None,
                     hardware  |-> HardwareResult(features, op, b[1], b[2], b[3])]

InSlot(e, k)     == Stored(cp, memory[e], k - 1)
Sources(e, k)    == [j \in 1 .. 3 |-> HardwareSource(InSlot(e, k), j)]
Immediates(e, k) == {Number(Fetched(x)) : x \in Extensions(cp, InSlot(e, k).immediate)}

\* The trial is one of instruction k of element e.
Tried(e, k) ==
    TrialOf(trial, e, k, programs[e].instructions[k], cp.has, HardwareOp(InSlot(e, k)),
            Sources(e, k), Immediates(e, k))

TrialInv ==
    stage = "ran" =>
        \E e \in Elements \cap DOMAIN programs :
        \E k \in (1 .. cp.num_instructions) \cap DOMAIN programs[e].instructions : Tried(e, k)

\* No instruction has been tried in the initial states.
LEMMA InitTrialInv == Init => TrialInv
BY DEF Init, TrialInv

\* A trial records what the two sides computed of one instruction.
LEMMA TrialMade ==
    ASSUME NEW e, NEW k, Try(e, k)
    PROVE  TrialOf(trial', e, k, programs[e].instructions[k], cp.has, HardwareOp(InSlot(e, k)),
                   Sources(e, k), Immediates(e, k))
<1>1. PICK f, ins : f = InSlot(e, k) /\ ins = programs[e].instructions[k]
  OBVIOUS
<1>2. PICK simulated, fetched : /\ simulated = [j \in 1 .. 3 |-> SimulatorSource(ins, j)]
                                /\ fetched = [j \in 1 .. 3 |-> HardwareSource(f, j)]
  OBVIOUS
<1> DEFINE Made(i, g, from, into, held, extended) ==
               LET a == OperandsOf(from, SimulatorImmediate(i), held)
                   b == OperandsOf(into, Number(Fetched(extended)), held)
               IN  trial' = [element   |-> e, number |-> k, operands |-> a,
                             simulator |-> IF i.op \in Implemented
                                           THEN Reference(i.op, a[1], a[2], a[3])
                                           ELSE None,
                             hardware  |-> HardwareResult(cp.has, HardwareOp(g), b[1], b[2], b[3])]
           Makes(i, g, from, into) ==
               \E held \in [Named(from) \cup Named(into) -> Operands] :
               \E extended \in Extensions(cp, g.immediate) : Made(i, g, from, into, held, extended)
<1>3. Makes(programs[e].instructions[k], InSlot(e, k),
            [j \in 1 .. 3 |-> SimulatorSource(programs[e].instructions[k], j)],
            [j \in 1 .. 3 |-> HardwareSource(InSlot(e, k), j)])
  BY DEF Try, InSlot
<1>4. Makes(ins, f, simulated, fetched)
  <2> HIDE DEF Makes
  <2>1. /\ simulated = [j \in 1 .. 3 |-> SimulatorSource(programs[e].instructions[k], j)]
        /\ fetched = [j \in 1 .. 3 |-> HardwareSource(InSlot(e, k), j)]
    BY <1>1, <1>2
  <2> QED BY <1>1, <1>3, <2>1
<1>5. PICK held \in [Named(simulated) \cup Named(fetched) -> Operands] :
          \E extended \in Extensions(cp, f.immediate) : Made(ins, f, simulated, fetched, held, extended)
  BY <1>4
<1>6. PICK extended \in Extensions(cp, f.immediate) : Made(ins, f, simulated, fetched, held, extended)
  BY <1>5
<1>7. Number(Fetched(extended)) \in Immediates(e, k)
  BY <1>1 DEF Immediates
<1>8. fetched = Sources(e, k)
  BY <1>1, <1>2 DEF Sources
<1>9. TrialOf(trial', e, k, ins, cp.has, HardwareOp(f), fetched, Immediates(e, k))
  BY <1>2, <1>6, <1>7 DEF TrialOf
<1> QED BY <1>1, <1>8, <1>9

\* What was tried stays so while programs and memories do.
LEMMA TriedSame ==
    ASSUME NEW e, NEW k, UNCHANGED <<cp, programs, memory>>
    PROVE  Tried(e, k)' <=> TrialOf(trial', e, k, programs[e].instructions[k], cp.has,
                                    HardwareOp(InSlot(e, k)), Sources(e, k), Immediates(e, k))
<1>1. InSlot(e, k)' = InSlot(e, k)
  BY DEF InSlot
<1>2. Sources(e, k)' = Sources(e, k)
  BY <1>1 DEF Sources, HardwareSource
<1>3. Immediates(e, k)' = Immediates(e, k)
  BY <1>1 DEF Immediates, Fetched
<1>4. HardwareOp(InSlot(e, k))' = HardwareOp(InSlot(e, k))
  BY <1>1 DEF HardwareOp
<1> QED BY <1>1, <1>2, <1>3, <1>4 DEF Tried

\* Every step keeps the invariant of the trial.
LEMMA TrialInvStep == ASSUME TrialInv, [Next]_vars PROVE TrialInv'
<1>1. CASE RunInstruction
  <2>1. PICK e \in Elements \cap DOMAIN programs :
            \E k \in (1 .. cp.num_instructions) \cap DOMAIN programs[e].instructions : Try(e, k)
    BY <1>1 DEF RunInstruction
  <2>2. PICK k \in (1 .. cp.num_instructions) \cap DOMAIN programs[e].instructions : Try(e, k)
    BY <2>1
  <2>3. UNCHANGED <<cp, programs, memory>>
    BY <1>1 DEF RunInstruction
  <2>4. Tried(e, k)'
    BY <2>2, <2>3, TrialMade, TriedSame
  <2> QED BY <2>3, <2>4 DEF TrialInv
<1>2. CASE UNCHANGED vars
  <2>1. UNCHANGED <<stage, cp, programs, memory, trial>>
    BY <1>2 DEF vars
  <2>2. ASSUME NEW e, NEW k PROVE Tried(e, k)' <=> Tried(e, k)
    BY <2>1, TriedSame DEF Tried
  <2> QED BY <2>1, <2>2 DEF TrialInv
<1>3. CASE ReadPlatform \/ Parse \/ Validate \/ Assemble \/ ReadBinary \/ WriteNextWord
  <2>1. stage' # "ran"
    BY <1>3 DEF ReadPlatform, Parse, Validate, Assemble, ReadBinary, WriteNextWord, Stop
  <2> QED BY <2>1 DEF TrialInv
<1> QED BY <1>1, <1>2, <1>3 DEF Next

\* Both sides name the same sources, so they take the same operands, words each.
LEMMA SameOperands ==
    ASSUME NEW sources, \A j \in 1 .. 3 : sources[j].type \in {"null", "immediate", "channel", "register"},
           NEW held \in [Named(sources) -> Operands],
           NEW x, NEW y \in Operand, (\E j \in 1 .. 3 : sources[j].type = "immediate") => x = y
    PROVE  /\ OperandsOf(sources, x, held) = OperandsOf(sources, y, held)
           /\ \A j \in 1 .. 3 : OperandsOf(sources, y, held)[j] \in Operand
<1>1. ASSUME NEW j \in 1 .. 3
      PROVE  /\ OperandsOf(sources, x, held)[j] = OperandsOf(sources, y, held)[j]
             /\ OperandsOf(sources, y, held)[j] \in Operand
  <2>1. CASE sources[j].type = "null"
    <3>1. OperandsOf(sources, x, held)[j] = 0 /\ OperandsOf(sources, y, held)[j] = 0
      BY <2>1 DEF OperandsOf
    <3> QED BY <3>1, WordSize DEF Operand
  <2>2. CASE sources[j].type = "immediate"
    <3>1. OperandsOf(sources, x, held)[j] = x /\ OperandsOf(sources, y, held)[j] = y
      BY <2>2 DEF OperandsOf
    <3> QED BY <2>2, <3>1
  <2>3. CASE sources[j].type \in {"channel", "register"}
    <3>1. /\ OperandsOf(sources, x, held)[j] = held[sources[j]]
          /\ OperandsOf(sources, y, held)[j] = held[sources[j]]
      BY <2>3 DEF OperandsOf
    <3>2. sources[j] \in Named(sources)
      BY <2>3 DEF Named
    <3>3. held[sources[j]] \in Operands
      BY <3>2
    <3> QED BY <3>1, <3>3, OperandsAssumption DEF Operand
  <2> QED BY <2>1, <2>2, <2>3
<1>2. OperandsOf(sources, x, held) = [j \in 1 .. 3 |-> OperandsOf(sources, x, held)[j]]
  BY DEF OperandsOf
<1>3. OperandsOf(sources, y, held) = [j \in 1 .. 3 |-> OperandsOf(sources, y, held)[j]]
  BY DEF OperandsOf
<1>4. [j \in 1 .. 3 |-> OperandsOf(sources, x, held)[j]]
          = [j \in 1 .. 3 |-> OperandsOf(sources, y, held)[j]]
  BY <1>1
<1> QED BY <1>1, <1>2, <1>3, <1>4

\* An immediate, as the simulator sees it, is an operand.
LEMMA ImmediateType == ASSUME NEW ins, Parsed(ins) PROVE SimulatorImmediate(ins) \in Operand
<1>1. CASE ins.immediate = <<>>
  BY <1>1, WordSize DEF SimulatorImmediate, Operand
<1>2. CASE ins.immediate # <<>>
  <2>1. PICK v \in Int : ins.immediate = <<v>>
    BY <1>2 DEF Parsed
  <2>2. SimulatorImmediate(ins) = Wrap(v)
    BY <1>2, <2>1 DEF SimulatorImmediate
  <2>3. Wrap(v + 0 * Modulus) = Wrap(v) /\ Wrap(v) \in Operand
    BY WrapCongruent
  <2> QED BY <2>2, <2>3
<1> QED BY <1>1, <1>2

\* A trial of a comparable instruction has one result.
LEMMA TrialAgrees ==
    ASSUME LoadInv, stage = "ran", Matching, NEW e \in Elements,
           NEW k \in 1 .. cp.num_instructions, k \in DOMAIN programs[e].instructions,
           Tried(e, k), WithinArchitecture(programs[e].instructions[k]),
           Comparable(programs[e].instructions[k].op, trial.operands)
    PROVE  trial.hardware = trial.simulator
<1>1. PICK ins, f : ins = programs[e].instructions[k] /\ f = Stored(cp, memory[e], k - 1)
  OBVIOUS
<1>2. Parsed(ins)
  <2>1. stage \in {"loaded", "ran"}
    OBVIOUS
  <2>2. Encodes(cp, programs[e])
    BY <2>1, EverythingWritten
  <2> QED BY <1>1, <2>2 DEF Encodes
<1>3. HardwareMeaning(f) = Meaning(ins)
  <2>1. stage \in {"loaded", "ran"}
    OBVIOUS
  <2>2. SlotIsFaithful(e, k)
    BY <2>1, SlotMeans
  <2> QED BY <1>1, <2>2 DEF SlotIsFaithful
<1>4. PICK sources : sources = [j \in 1 .. 3 |-> SimulatorSource(ins, j)]
  OBVIOUS
<1>5. sources = [j \in 1 .. 3 |-> HardwareSource(f, j)] /\ HardwareOp(f) = ins.op
  <2>1. HardwareMeaning(f).sources = Meaning(ins).sources /\ HardwareMeaning(f).op = Meaning(ins).op
    BY <1>3
  <2> QED BY <1>4, <2>1 DEF HardwareMeaning, Meaning
<1>6. PICK held \in [Named(sources) -> Operands], x \in Immediates(e, k) :
          LET a == OperandsOf(sources, SimulatorImmediate(ins), held)
              b == OperandsOf(sources, x, held)
          IN  trial = [element   |-> e, number |-> k, operands |-> a,
                       simulator |-> IF ins.op \in Implemented
                                     THEN Reference(ins.op, a[1], a[2], a[3])
                                     ELSE None,
                       hardware  |-> HardwareResult(cp.has, ins.op, b[1], b[2], b[3])]
  <2>1. Sources(e, k) = sources /\ InSlot(e, k) = f
    BY <1>1, <1>5 DEF Sources, InSlot
  <2>2. TrialOf(trial, e, k, ins, cp.has, ins.op, sources, Immediates(e, k))
    BY <1>1, <1>5, <2>1 DEF Tried
  <2> QED BY <1>4, <2>2 DEF TrialOf
<1>7. PICK y : y = SimulatorImmediate(ins)
  OBVIOUS
<1>8. (\E j \in 1 .. 3 : sources[j].type = "immediate") => x = y
  <2>1. SUFFICES ASSUME \E j \in 1 .. 3 : sources[j].type = "immediate" PROVE x = y
    OBVIOUS
  <2>2. \E j \in 1 .. 3 : HardwareSource(f, j).type = "immediate"
    BY <1>5, <2>1
  <2>3. HardwareMeaning(f).immediate = Meaning(ins).immediate
    BY <1>3
  <2>4. x \in HardwareMeaning(f).immediate
    BY <1>1, <2>2 DEF HardwareMeaning, Immediates, InSlot
  <2>5. x \in {v \in {SimulatorImmediate(ins)} : ins.immediate # <<>>}
    BY <2>3, <2>4 DEF Meaning
  <2> QED BY <1>7, <2>5
<1>9. \A j \in 1 .. 3 : sources[j].type \in {"null", "immediate", "channel", "register"}
  BY <1>2, <1>4 DEF Parsed, SimulatorSource
<1>10. PICK a : a = OperandsOf(sources, y, held)
  OBVIOUS
<1>11. /\ OperandsOf(sources, x, held) = a
       /\ \A j \in 1 .. 3 : a[j] \in Operand
  <2>1. y \in Operand
    BY <1>2, <1>7, ImmediateType
  <2> QED BY <1>8, <1>9, <1>10, <2>1, SameOperands
<1>12. /\ trial.operands = a
       /\ trial.hardware = HardwareResult(cp.has, ins.op, a[1], a[2], a[3])
       /\ trial.simulator = IF ins.op \in Implemented
                            THEN Reference(ins.op, a[1], a[2], a[3]) ELSE None
  BY <1>6, <1>7, <1>10, <1>11
<1>13. Comparable(ins.op, a) /\ ins.op \in Implemented
  BY <1>1, <1>12 DEF Comparable
<1>14. a = <<a[1], a[2], a[3]>>
  <2>1. a = [j \in 1 .. 3 |-> a[j]]
    BY <1>10 DEF OperandsOf
  <2> QED BY <2>1
<1>15. HardwareResult(cp.has, ins.op, a[1], a[2], a[3]) = Reference(ins.op, a[1], a[2], a[3])
  <2>1. a[1] \in Operand /\ a[2] \in Operand /\ a[3] \in Operand
    BY <1>11
  <2> QED BY <1>13, <1>14, <2>1, UnitsAgree
<1> QED BY <1>12, <1>13, <1>15

\* An instruction within the architecture gives on the device what it gives in the
\* simulator: for any programs, any width of the word and any operands.
THEOREM SimulatorAndDeviceAgree == Spec => []ResultsAgree
<1>1. ASSUME LoadInv, TrialInv PROVE ResultsAgree
  <2>1. SUFFICES ASSUME stage = "ran", Matching,
                        WithinArchitecture(programs[trial.element].instructions[trial.number]),
                        Comparable(programs[trial.element].instructions[trial.number].op,
                                   trial.operands)
                 PROVE  trial.hardware = trial.simulator
    BY DEF ResultsAgree
  <2>2. PICK e \in Elements \cap DOMAIN programs :
            \E k \in (1 .. cp.num_instructions) \cap DOMAIN programs[e].instructions : Tried(e, k)
    BY <1>1, <2>1 DEF TrialInv
  <2>3. PICK k \in (1 .. cp.num_instructions) \cap DOMAIN programs[e].instructions : Tried(e, k)
    BY <2>2
  <2>4. trial.element = e /\ trial.number = k
    BY <2>3 DEF Tried, TrialOf
  <2> QED BY <1>1, <2>1, <2>3, <2>4, TrialAgrees
<1>2. Spec => []TrialInv
  BY InitTrialInv, TrialInvStep, PTL DEF Spec
<1> QED BY <1>1, <1>2, LoadInvAlways, PTL
=============================================================================
