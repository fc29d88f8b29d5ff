------------------------- MODULE ModularArithmetic --------------------------
(***************************************************************************)
(* Facts about % and \div for a modulus that is not a literal, which the   *)
(* solver does not find by itself: the 32-bit counters and addresses of    *)
(* the code are modelled with such a modulus, and its shifts divide by     *)
(* powers of two.                                                          *)
(***************************************************************************)
EXTENDS Integers, FiniteSetTheorems, TLAPS

\* Quotient and remainder are unique, for the % of the model.
LEMMA UniqueRemainder ==
    ASSUME NEW m \in Nat, m > 0, NEW x \in Int,
           NEW q \in Int, NEW o \in 0 .. m - 1, x = q * m + o
    PROVE  x % m = o
<1>1. PICK k \in Int, n \in 0 .. m - 1 : x = k * m + n /\ x % m = n
  <2>1. /\ x \div m \in Int
        /\ x % m \in 0 .. m - 1
        /\ x = (x \div m) * m + (x % m)
    OBVIOUS
  <2> QED BY <2>1
<1>2. /\ k * m \in Int /\ q * m \in Int
      /\ k * m + n = q * m + o
  BY <1>1
<1>3. ASSUME k < q PROVE FALSE
  <2>1. (q - k - 1) * m >= 0
    BY <1>3
  <2>2. k * m + m <= q * m
    BY <2>1
  <2> QED BY <2>2, <1>2
<1>4. ASSUME q < k PROVE FALSE
  <2>1. (k - q - 1) * m >= 0
    BY <1>4
  <2>2. q * m + m <= k * m
    BY <2>1
  <2> QED BY <2>2, <1>2
<1>5. k = q
  BY <1>3, <1>4
<1> QED BY <1>1, <1>2, <1>5

\* A sum of two residues wraps at most once.
LEMMA SumWraps ==
    ASSUME NEW m \in Nat, m > 0,
           NEW a \in 0 .. m - 1, NEW b \in 0 .. m - 1
    PROVE  (a + b) % m = IF a + b < m THEN a + b ELSE a + b - m
<1>1. CASE a + b < m
  <2>1. a + b = 0 * m + (a + b) /\ a + b \in 0 .. m - 1
    BY <1>1
  <2> QED BY <2>1, <1>1, UniqueRemainder
<1>2. CASE ~(a + b < m)
  <2>1. a + b = 1 * m + (a + b - m) /\ a + b - m \in 0 .. m - 1
    BY <1>2
  <2>2. (a + b) % m = a + b - m
    BY <2>1, UniqueRemainder
  <2> QED BY <2>2, <1>2
<1> QED BY <1>1, <1>2

\* A difference of two residues borrows at most once.
LEMMA DifferenceBorrows ==
    ASSUME NEW m \in Nat, m > 0,
           NEW a \in 0 .. m - 1, NEW b \in 0 .. m - 1
    PROVE  (a - b) % m = IF a >= b THEN a - b ELSE a - b + m
<1>1. CASE a >= b
  <2>1. a - b = 0 * m + (a - b) /\ a - b \in 0 .. m - 1
    BY <1>1
  <2> QED BY <2>1, <1>1, UniqueRemainder
<1>2. CASE ~(a >= b)
  <2>1. a - b = (-1) * m + (a - b + m) /\ a - b + m \in 0 .. m - 1
    BY <1>2
  <2>2. (a - b) % m = a - b + m
    BY <2>1, UniqueRemainder
  <2> QED BY <2>2, <1>2
<1> QED BY <1>1, <1>2

\* The quotient, likewise.
LEMMA UniqueQuotient ==
    ASSUME NEW m \in Nat, m > 0, NEW x \in Int,
           NEW q \in Int, NEW o \in 0 .. m - 1, x = q * m + o
    PROVE  x \div m = q
<1>1. x % m = o
  BY UniqueRemainder
<1>2. x \div m \in Int /\ x = (x \div m) * m + (x % m)
  OBVIOUS
<1> DEFINE k == x \div m
<1>3. k \in Int /\ k * m = q * m
  BY <1>1, <1>2
<1> HIDE DEF k
<1>4. ASSUME k < q PROVE FALSE
  <2>1. (q - k - 1) * m >= 0
    BY <1>3, <1>4
  <2> QED BY <2>1, <1>3
<1>5. ASSUME q < k PROVE FALSE
  <2>1. (k - q - 1) * m >= 0
    BY <1>3, <1>5
  <2> QED BY <2>1, <1>3
<1> QED
  BY <1>3, <1>4, <1>5 DEF k

\* Every nonempty set of naturals has a least element.
LEMMA LeastNatural ==
    ASSUME NEW T \in SUBSET Nat, T # {}
    PROVE  \E x \in T : \A y \in T : x <= y
<1>1. T \subseteq Nat
  OBVIOUS
<1>2. PICK x \in T : \A y \in T : ~ (<<y, x>> \in OpToRel(<, Nat))
  BY <1>1, WFMin, NatLessThanWellFounded, Zenon
<1>3. \A y \in T : ~ (y < x)
  BY <1>2, Zenon DEF OpToRel
<1> QED
  BY <1>1, <1>3

\* Induction over a bounded range, for a set.
LEMMA ReachesAll ==
    ASSUME NEW k \in Nat, NEW S, 0 \in S, \A n \in 0 .. k - 1 : n \in S => n + 1 \in S
    PROVE  0 .. k \subseteq S
<1> DEFINE T == {n \in 0 .. k : n \notin S}
<1> SUFFICES ASSUME T # {}
             PROVE  FALSE
  OBVIOUS
<1>1. T \in SUBSET Nat
  OBVIOUS
<1>2. PICK x \in T : \A y \in T : x <= y
  BY <1>1, LeastNatural
<1>3. x # 0 /\ x \in 0 .. k /\ x \notin S
  BY <1>2
<1>4. x - 1 \in 0 .. k - 1 /\ x - 1 \notin T
  BY <1>2, <1>3
<1>5. x - 1 \in S
  BY <1>4
<1>6. (x - 1) + 1 \in S
  BY <1>4, <1>5
<1> QED
  BY <1>3, <1>6

\* The powers of two count the subsets of intervals: those with n + 1 are as many
\* as those without it.
LEMMA PowerStep ==
    /\ 2^0 = 1
    /\ \A n \in Nat : 2^n \in Nat /\ 2^n > 0 /\ 2^(n + 1) = 2 * 2^n
<1>1. ASSUME NEW n \in Nat
      PROVE  IsFiniteSet(SUBSET (1 .. n)) /\ Cardinality(SUBSET (1 .. n)) = 2^n /\ 2^n \in Nat
  <2>1. IsFiniteSet(1 .. n) /\ Cardinality(1 .. n) = n
    <3>1. 1 \in Int /\ n \in Int
      OBVIOUS
    <3> QED
      BY <3>1, FS_Interval
  <2>2. IsFiniteSet(SUBSET (1 .. n)) /\ Cardinality(SUBSET (1 .. n)) = 2^n
    BY <2>1, FS_SUBSET
  <2> QED
    BY <2>2, FS_CardinalityType
<1>2. 2^0 = 1
  <2>1. SUBSET (1 .. 0) = {{}}
    OBVIOUS
  <2>2. Cardinality({{}}) = 1
    BY FS_Singleton
  <2> QED
    BY <1>1, <2>1, <2>2
<1>3. ASSUME NEW n \in Nat
      PROVE  2^(n + 1) = 2 * 2^n
  <2> DEFINE A == SUBSET (1 .. n)
             With(U) == U \cup {n + 1}
             B == {With(U) : U \in A}
             f == [U \in A |-> With(U)]
  <2>1. IsFiniteSet(A) /\ Cardinality(A) = 2^n
    BY <1>1
  <2>2. SUBSET (1 .. n + 1) = A \cup B /\ A \cap B = {}
    <3>1. ASSUME NEW V \in SUBSET (1 .. n + 1), V \notin A
          PROVE  V \in B
      <4>1. n + 1 \in V /\ V \ {n + 1} \in A
        BY <3>1
      <4>2. V = With(V \ {n + 1})
        BY <4>1
      <4> QED
        BY <4>1, <4>2
    <3>2. 1 .. n \subseteq 1 .. n + 1 /\ n + 1 \in 1 .. n + 1 /\ n + 1 \notin 1 .. n
      OBVIOUS
    <3>3. B \subseteq SUBSET (1 .. n + 1) /\ A \subseteq SUBSET (1 .. n + 1)
      BY <3>2
    <3>4. A \cap B = {}
      BY <3>2
    <3> QED
      BY <3>1, <3>3, <3>4
  <2>3. f \in Bijection(A, B)
    <3>1. f \in [A -> B]
      OBVIOUS
    <3>2. ASSUME NEW U \in A, NEW V \in A, With(U) = With(V)
          PROVE  U = V
      <4>1. n + 1 \notin 1 .. n
        OBVIOUS
      <4>2. U = With(U) \ {n + 1} /\ V = With(V) \ {n + 1}
        BY <4>1
      <4> QED
        BY <3>2, <4>2
    <3>3. ASSUME NEW V \in B
          PROVE  \E U \in A : f[U] = V
      OBVIOUS
    <3> QED
      BY <3>1, <3>2, <3>3 DEF Bijection, Injection, Surjection, IsInjective
  <2> HIDE DEF A, B, f
  <2>4. IsFiniteSet(B) /\ Cardinality(B) = Cardinality(A)
    BY <2>1, <2>3, FS_Bijection DEF ExistsBijection
  <2>5. Cardinality(A \cup B) = 2^n + 2^n
    <3>1. Cardinality(A \cup B) = Cardinality(A) + Cardinality(B) - Cardinality(A \cap B)
      BY <2>1, <2>4, FS_Union
    <3>2. Cardinality(A \cap B) = 0
      BY <2>2, FS_EmptySet
    <3> QED
      BY <1>1, <2>1, <2>4, <3>1, <3>2
  <2>6. Cardinality(A \cup B) = 2^(n + 1)
    <3>1. n + 1 \in Nat
      OBVIOUS
    <3>2. Cardinality(SUBSET (1 .. n + 1)) = 2^(n + 1)
      BY <1>1, <3>1
    <3> QED
      BY <2>2, <3>2
  <2> QED
    BY <1>1, <2>5, <2>6
<1>4. \A n \in Nat : 2^n > 0
  <2> DEFINE S == {n \in Nat : 2^n > 0}
  <2>1. 0 \in S
    BY <1>2
  <2>2. ASSUME NEW n \in Nat, n \in S
        PROVE  n + 1 \in S
    BY <1>1, <1>3, <2>2
  <2> HIDE DEF S
  <2>3. ASSUME NEW n \in Nat
        PROVE  n \in S
    BY <2>1, <2>2, ReachesAll
  <2> QED
    BY <2>3 DEF S
<1> QED
  BY <1>1, <1>2, <1>3, <1>4

LEMMA PowersAdd ==
    ASSUME NEW a \in Nat, NEW b \in Nat
    PROVE  2^(a + b) = 2^a * 2^b
<1> DEFINE S == {n \in Nat : 2^(a + n) = 2^a * 2^n}
<1>1. 0 \in S
  BY PowerStep
<1>2. ASSUME NEW n \in Nat, n \in S
      PROVE  n + 1 \in S
  <2>1. a + (n + 1) = (a + n) + 1 /\ a + n \in Nat
    OBVIOUS
  <2> DEFINE p == 2^a
             q == 2^n
  <2>2. p \in Nat /\ q \in Nat /\ 2^(n + 1) = 2 * q /\ 2^(a + (n + 1)) = 2 * (p * q)
    BY <1>2, <2>1, PowerStep
  <2> HIDE DEF p, q
  <2>3. p * (2 * q) = 2 * (p * q)
    BY <2>2
  <2>4. 2^(a + (n + 1)) = p * 2^(n + 1)
    BY <2>2, <2>3
  <2> QED
    BY <2>4 DEF p
<1> HIDE DEF S
<1>3. b \in S
  BY <1>1, <1>2, ReachesAll
<1> QED
  BY <1>3 DEF S

LEMMA PowersGrow ==
    ASSUME NEW a \in Nat, NEW b \in Nat, a <= b
    PROVE  2^a <= 2^b
<1> DEFINE c == b - a
           p == 2^a
           q == 2^c
<1>1. c \in Nat /\ b = a + c
  OBVIOUS
<1>2. 2^b = p * q
  BY <1>1, PowersAdd
<1>3. p \in Nat /\ q \in Nat /\ q >= 1
  BY <1>1, PowerStep
<1> HIDE DEF p, q
<1>4. p * q >= p
  <2>1. p * (q - 1) >= 0 /\ p * (q - 1) = p * q - p
    BY <1>3
  <2> QED
    BY <1>3, <2>1
<1> QED
  BY <1>2, <1>4 DEF p

\* Powers of two, as far as a word and its carry reach.
LEMMA PowersOfTwo ==
    /\ 2^0 = 1 /\ 2^1 = 2 /\ 2^2 = 4 /\ 2^3 = 8 /\ 2^4 = 16 /\ 2^5 = 32 /\ 2^6 = 64
    /\ 2^7 = 128 /\ 2^8 = 256 /\ 2^9 = 512 /\ 2^10 = 1024 /\ 2^11 = 2048
    /\ 2^12 = 4096 /\ 2^13 = 8192 /\ 2^14 = 16384 /\ 2^15 = 32768 /\ 2^16 = 65536
    /\ 2^17 = 131072 /\ 2^18 = 262144 /\ 2^19 = 524288 /\ 2^20 = 1048576
    /\ 2^21 = 2097152 /\ 2^22 = 4194304 /\ 2^23 = 8388608 /\ 2^24 = 16777216
    /\ 2^25 = 33554432 /\ 2^26 = 67108864 /\ 2^27 = 134217728 /\ 2^28 = 268435456
    /\ 2^29 = 536870912 /\ 2^30 = 1073741824 /\ 2^31 = 2147483648
    /\ 2^32 = 4294967296 /\ 2^33 = 8589934592
OBVIOUS

\* A quotient by P and one by 2P.
LEMMA Halves ==
    ASSUME NEW x \in Int, NEW P \in Nat, P > 0
    PROVE  \E c \in Int, b \in {0, 1}, r \in 0 .. P - 1 :
              /\ x \div P = 2 * c + b /\ x \div (2 * P) = c /\ (x \div P) % 2 = b
              /\ x % P = r /\ x % (2 * P) = b * P + r
              /\ x = c * (2 * P) + (b * P + r)
<1>1. PICK a \in Int, r \in 0 .. P - 1 : x = a * P + r /\ a = x \div P /\ r = x % P
  <2>1. x \div P \in Int /\ x % P \in 0 .. P - 1 /\ x = (x \div P) * P + (x % P)
    OBVIOUS
  <2> QED
    BY <2>1
<1>2. PICK c \in Int, b \in {0, 1} : a = 2 * c + b /\ b = a % 2
  <2>1. a \div 2 \in Int /\ a % 2 \in {0, 1} /\ a = 2 * (a \div 2) + (a % 2)
    OBVIOUS
  <2> QED
    BY <2>1
<1>3. x = c * (2 * P) + (b * P + r)
  BY <1>1, <1>2
<1>4. b * P + r \in 0 .. 2 * P - 1
  BY <1>1, <1>2
<1>5. 2 * P \in Nat /\ 2 * P > 0
  OBVIOUS
<1>6. x % (2 * P) = b * P + r /\ x \div (2 * P) = c
  <2> DEFINE m == 2 * P
             o == b * P + r
  <2>1. m \in Nat /\ m > 0 /\ x \in Int /\ c \in Int /\ o \in 0 .. m - 1 /\ x = c * m + o
    BY <1>3, <1>4, <1>5
  <2> HIDE DEF m, o
  <2>2. x % m = o /\ x \div m = c
    BY <2>1, UniqueRemainder, UniqueQuotient
  <2> QED
    BY <2>2 DEF m, o
<1>7. x \div P = 2 * c + b /\ (x \div P) % 2 = b /\ x % P = r
  BY <1>1, <1>2
<1> QED
  BY <1>3, <1>6, <1>7

\* Doubling a word of which the lower Q come from elsewhere.
IsDoubled(P, Q, H, x, e, v) ==
    /\ P \in Nat /\ P > 0 /\ Q \in Nat /\ Q > 0 /\ H = P * Q
    /\ x \in Int /\ 0 <= x /\ x < 2 * H /\ e \in 0 .. Q - 1
    /\ v = (x % (2 * P)) * Q + e

LEMMA Doubling ==
    ASSUME NEW P, NEW Q, NEW H, NEW x, NEW e, NEW v, IsDoubled(P, Q, H, x, e, v)
    PROVE  /\ v \in 0 .. 2 * H - 1
           /\ v \div H = (x \div P) % 2
           /\ (2 * v) % (2 * H) = (x % P) * (2 * Q) + 2 * e
<1> USE DEF IsDoubled
<1>1. PICK c \in Int, b \in {0, 1}, r \in 0 .. P - 1 :
        (x \div P) % 2 = b /\ x % P = r /\ x % (2 * P) = b * P + r
  BY Halves
<1>2. H \in Nat /\ H > 0
  OBVIOUS
<1>3. r * Q + e \in 0 .. H - 1
  <2>1. (P - 1 - r) * Q >= 0 /\ (P - 1 - r) * Q = H - Q - r * Q /\ r * Q \in Nat
    BY <1>1
  <2> QED
    BY <1>2, <2>1
<1>4. v = b * H + (r * Q + e)
  <2>1. (b * P + r) * Q = b * (P * Q) + r * Q
    BY <1>1
  <2> QED
    BY <1>1, <2>1
<1> DEFINE o == r * Q + e
<1>5. o \in 0 .. H - 1 /\ v = b * H + o /\ (x % P) * (2 * Q) + 2 * e = 2 * o
  BY <1>1, <1>3, <1>4
<1> HIDE DEF o
<1>6. v \in 0 .. 2 * H - 1
  BY <1>1, <1>2, <1>5
<1>7. v \div H = b
  BY <1>1, <1>2, <1>5, <1>6, UniqueQuotient
<1>8. (2 * v) % (2 * H) = 2 * o
  <2> DEFINE m == 2 * H
  <2>1. /\ m \in Nat /\ m > 0 /\ 2 * v \in Int /\ b \in Int /\ 2 * o \in 0 .. m - 1
        /\ 2 * v = b * m + 2 * o
    BY <1>1, <1>2, <1>5, <1>6
  <2> HIDE DEF m
  <2>2. (2 * v) % m = 2 * o
    BY <2>1, UniqueRemainder
  <2> QED
    BY <2>2 DEF m
<1> QED
  BY <1>1, <1>5, <1>6, <1>7, <1>8

\* Halving a word of which the upper part comes from elsewhere.
IsHalved(P, Q, H, x, s, v) ==
    /\ P \in Nat /\ P > 0 /\ Q \in Nat /\ Q > 0 /\ H = P * Q
    /\ x \in Int /\ 0 <= x /\ x < 2 * H /\ s \in Int
    /\ v = x \div Q + (s % Q) * (2 * P)

LEMMA Halving ==
    ASSUME NEW P, NEW Q, NEW H, NEW x, NEW s, NEW v, IsHalved(P, Q, H, x, s, v)
    PROVE  /\ v \in 0 .. 2 * H - 1
           /\ v % 2 = (x \div Q) % 2
           /\ v \div 2 + ((s \div Q) % 2) * H = x \div (2 * Q) + (s % (2 * Q)) * P
<1> USE DEF IsHalved
<1>1. PICK a \in Int, t \in {0, 1}, u \in 0 .. Q - 1 :
        /\ x \div Q = 2 * a + t /\ x \div (2 * Q) = a /\ (x \div Q) % 2 = t
        /\ x = a * (2 * Q) + (t * Q + u)
  <2>1. Q \in Nat /\ Q > 0 /\ x \in Int
    OBVIOUS
  <2>2. PICK a \in Int, t \in {0, 1}, u \in 0 .. Q - 1 :
           /\ x \div Q = 2 * a + t /\ x \div (2 * Q) = a /\ (x \div Q) % 2 = t
           /\ x % Q = u /\ x % (2 * Q) = t * Q + u
           /\ x = a * (2 * Q) + (t * Q + u)
    BY <2>1, Halves
  <2> QED
    BY <2>2, Zenon
<1>2. PICK c \in Int, b \in {0, 1}, r \in 0 .. Q - 1 :
        (s \div Q) % 2 = b /\ s % Q = r /\ s % (2 * Q) = b * Q + r
  BY Halves
<1>3. v = 2 * a + t + r * (2 * P)
  BY <1>1, <1>2
<1>4. H \in Nat /\ H > 0
  OBVIOUS
<1> DEFINE o == t * Q + u
<1>5. o \in 0 .. 2 * Q - 1 /\ x = a * (2 * Q) + o
  BY <1>1
<1> HIDE DEF o
<1>6. 0 <= a /\ a < P
  <2>1. ASSUME a <= -1
        PROVE  FALSE
    <3>1. (-1 - a) * (2 * Q) >= 0 /\ (-1 - a) * (2 * Q) = - (2 * Q) - a * (2 * Q)
      BY <2>1
    <3> QED
      BY <1>5, <3>1
  <2>2. ASSUME a >= P
        PROVE  FALSE
    <3>1. (a - P) * (2 * Q) >= 0 /\ (a - P) * (2 * Q) = a * (2 * Q) - P * (2 * Q)
      BY <2>2
    <3>2. P * (2 * Q) = 2 * H
      OBVIOUS
    <3> QED
      BY <1>4, <1>5, <3>1, <3>2
  <2> QED
    BY <2>1, <2>2
<1>7. r * (2 * P) \in Nat /\ r * (2 * P) <= 2 * H - 2 * P
  <2>1. (Q - 1 - r) * (2 * P) >= 0 /\ (Q - 1 - r) * (2 * P) = 2 * (P * Q) - 2 * P - r * (2 * P)
    BY <1>2
  <2>2. r * (2 * P) \in Nat
    BY <1>2
  <2> QED
    BY <2>1, <2>2
<1>8. v \in 0 .. 2 * H - 1
  BY <1>1, <1>2, <1>3, <1>4, <1>6, <1>7
<1> DEFINE k == r * P
<1>9. k \in Int /\ r * (2 * P) = 2 * k
  BY <1>2
<1>10. (b * Q + r) * P = b * H + k
  BY <1>2
<1> HIDE DEF k
<1>11. v = 2 * (a + k) + t
  BY <1>1, <1>3, <1>9
<1>12. v % 2 = t /\ v \div 2 = a + k
  BY <1>1, <1>9, <1>11
<1>13. v \div 2 + b * H = a + (s % (2 * Q)) * P
  BY <1>1, <1>2, <1>4, <1>9, <1>10, <1>12
<1> QED
  BY <1>1, <1>2, <1>8, <1>12, <1>13

=============================================================================
